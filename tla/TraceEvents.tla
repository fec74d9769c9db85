---------------------------- MODULE TraceEvents -----------------------------
(***************************************************************************)
(* The types of the events and their reader: which fields a Rust type      *)
(* makes of itself (dial9-trace-format/src/types.rs and its derive macro), *)
(* the events of the telemetry (telemetry/format.rs, events.rs), what the  *)
(* writer makes of a raw event (telemetry/writer.rs) and TraceReader       *)
(* (telemetry/analysis.rs), which takes a file apart again.  The name of   *)
(* an event is a number here.                                              *)
(***************************************************************************)
EXTENDS TraceDecoder

CONSTANTS
    Derived,       \* other types that derive TraceEvent: the Rust types of their fields
    NarrowWidth,   \* the values of a u8, a u16 and a u32
    NoThreadName   \* the text "<no thread name>"

PollStartEvent == 11
PollEndEvent == 12
WorkerParkEvent == 13
WorkerUnparkEvent == 14
QueueSampleEvent == 15
TaskSpawnEvent == 16
TaskTerminateEvent == 17
CpuSampleEvent == 18
WakeEventEvent == 19
SegmentMetadataEvent == 20

\* f, and g where f says nothing
Over(f, g) == [x \in DOMAIN f \union DOMAIN g |-> IF x \in DOMAIN f THEN f[x] ELSE g[x]]

\* the structs of format.rs, without their timestamps
Telemetry ==
    [name \in PollStartEvent .. SegmentMetadataEvent |->
        CASE name = PollStartEvent -> <<"WorkerId", "u8", "TaskId", "InternedString">>
          [] name = PollEndEvent -> <<"WorkerId">>
          [] name = WorkerParkEvent -> <<"WorkerId", "u8", "u64">>
          [] name = WorkerUnparkEvent -> <<"WorkerId", "u8", "u64", "u64">>
          [] name = QueueSampleEvent -> <<"u8">>
          [] name = TaskSpawnEvent -> <<"TaskId", "InternedString">>
          [] name = TaskTerminateEvent -> <<"TaskId">>
          [] name = CpuSampleEvent -> <<"WorkerId", "u32", "CpuSampleSource", "InternedString", "StackFrames">>
          [] name = WakeEventEvent -> <<"TaskId", "TaskId", "u8">>
          [] name = SegmentMetadataEvent -> <<"StringMap">>]

Structs == Over(Telemetry, Derived)

-----------------------------------------------------------------------------
(* Fields *)

\* TraceField::field_type of the types of the format
primitive_type ==
    [u8 |-> U8, u16 |-> U16, u32 |-> U32, u64 |-> Varint, i64 |-> I64, f64 |-> F64, bool |-> Bool,
     String |-> String, VecU8 |-> Bytes]
reference_type == [StackFrames |-> StackFrames, InternedString |-> PooledString, StringMap |-> StringMap]

\* ... and of those of the telemetry
telemetry_type == [TaskId |-> Varint, WorkerId |-> Varint, CpuSampleSource |-> U8]

field_type == Over(primitive_type, Over(reference_type, telemetry_type))
RustTypes == DOMAIN field_type

ASSUME EventsAssumption ==
    /\ DOMAIN Derived \subseteq Nat /\ \A name \in DOMAIN Derived : Derived[name] \in Seq(RustTypes)
    /\ NarrowWidth \in [{"u8", "u16", "u32"} -> Nat \ {0}] /\ NarrowWidth.u8 > 1
    /\ NoThreadName \in Texts

\* field_defs of the derive macro
field_defs(name) == [i \in DOMAIN Structs[name] |-> field_type[Structs[name][i]]]

\* A fixed-width integer is decoded to a Varint.
Variant(type) == IF type \in {U8, U16, U32} THEN Varint ELSE type

\* CpuSampleSource::from_u8
from_u8(v) == IF v = 1 THEN 1 ELSE 0

\* TraceField::decode_ref: whether it takes a value of this type, and what it makes of it
Takes(rust, type) == Variant(type) = Variant(field_type[rust])
Narrowed(rust, value) ==
    CASE rust \in DOMAIN NarrowWidth -> <<value[1] % NarrowWidth[rust]>>
      [] rust = "CpuSampleSource" -> <<from_u8(value[1] % NarrowWidth.u8)>>
      [] OTHER -> value

\* decode of the derive macro: by position, with no regard to the names of the fields
\* and to what follows; fails when a field is missing or of another variant
Decodes(rusts, event) ==
    Len(rusts) <= Len(event.values) /\ \A i \in DOMAIN rusts : Takes(rusts[i], event.types[i])
decode(rusts, event) ==
    [event EXCEPT !.values = [i \in DOMAIN rusts |-> Narrowed(rusts[i], event.values[i])]]

-----------------------------------------------------------------------------
(* The writer *)

\* write_resolved: an event as the writer puts it; a queue is measured in a usize
\* (the worker to wake in a u8), a thread may have no name
write_resolved(raw) ==
    [raw EXCEPT !.values =
        [i \in DOMAIN @ |->
            CASE Structs[raw.name][i] = "u8" -> <<@[i][1] % NarrowWidth.u8>>
              [] raw.name = CpuSampleEvent /\ i = 4 /\ @[i] = <<>> -> NoThreadName
              [] OTHER -> @[i]]]

-----------------------------------------------------------------------------
(* The reader *)

\* what a sequence has of a set, in its order
filter(seq, kept) ==
    Loop(LAMBDA found, i : IF seq[i] \in kept THEN Append(found, seq[i]) ELSE found, <<>>, Len(seq))

\* format::decode_ref: an event of another name is none of its own
Known(e) == e.name \in DOMAIN Telemetry /\ Decodes(Telemetry[e.name], e)
decode_telemetry(events) ==
    LET own == filter(events, {e \in Range(events) : Known(e)})
    IN  [i \in DOMAIN own |-> decode(Telemetry[own[i].name], own[i])]

\* From<TelemetryEventRef>: a sample loses the name of its thread
TelemetryEvent(event) ==
    [name |-> event.name, ts |-> event.ts,
     values |-> IF event.name = CpuSampleEvent
                THEN SubSeq(event.values, 1, 3) \o SubSeq(event.values, 5, 5) ELSE event.values]

\* read_event skips what is no event of the runtime.
read_all(events) == filter(events, {e \in Range(events) : e.name \notin {TaskSpawnEvent, SegmentMetadataEvent}})

\* A map that the events at these positions are inserted in, by their k-th value: of
\* several with one key the last one is left.
Newest(at) == CHOOSE i \in at : \A j \in at : j <= i
Inserted(events, at, k) ==
    [key \in {events[i].values[k][1] : i \in at} |-> events[Newest({i \in at : events[i].values[k][1] = key})]]

\* What the events and the string pool that is left behind, the last one of a file, say;
\* a thread with a name that is in unnamed has none.
Summary(d, refs, unnamed) ==
    LET at(name) == {i \in DOMAIN refs : refs[i].name = name}
        Loc(e) == Last(e.values)[1]
        Name(e) == get(d.pool, e.values[4][1])
        located == {Loc(refs[i]) : i \in at(PollStartEvent) \union at(TaskSpawnEvent)}
        spawned == Inserted(refs, at(TaskSpawnEvent), 1)
        named == Inserted(refs, {i \in at(CpuSampleEvent) : Name(refs[i]) \notin unnamed}, 2)
        metadata == at(SegmentMetadataEvent)
    IN  [ok |-> d.status \in {"end", "reading"},
         events |-> [i \in DOMAIN refs |-> TelemetryEvent(refs[i])],
         spawn_locations |-> [id \in located \cap DOMAIN d.pool |-> d.pool[id]],
         task_spawn_locs |-> [task \in DOMAIN spawned |-> Loc(spawned[task])],
         thread_names |-> [tid \in DOMAIN named |-> Name(named[tid])],
         segment_metadata |-> IF metadata = {} THEN <<>> ELSE refs[Newest(metadata)].values[1]]

\* variant: a thread without a name is called so
ReadTrace_names_all(d) == Summary(d, decode_telemetry(d.events), {Missing})

\* TraceReader::new, of what for_each_event has found in the whole file
ReadTrace(d) == Summary(d, decode_telemetry(d.events), {Missing, NoThreadName})

TraceReader(data) == ReadTrace(Read("events", data))
=============================================================================
