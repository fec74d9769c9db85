---------------------------- MODULE TraceStream -----------------------------
(***************************************************************************)
(* Encoder (dial9-trace-format/src/encoder.rs) at work: a stream is        *)
(* written event by event, taken up again from what a decoder has read of  *)
(* it, extended with the symbols of the addresses in it, concatenated with *)
(* another, and any write may fail after any number of bytes.              *)
(***************************************************************************)
EXTENDS Symbolizer, FiniteSets

CONSTANTS
    Events,       \* the raw events to write: name, ts, values (texts for pooled strings)
    Manual,       \* the events with a schema of their own: name, fields, ts, values,
                  \* and read_as, what the telemetry reads in them (<<>>: nothing)
    MaxOps,       \* bound: calls
    MaxFailures,  \* bound: calls that fail
    MaxTorn       \* bound: numbers of a frame that are written before it fails

\* an event that can be given to the encoder: for a pooled string it has the text
Field(type) == IF type = PooledString THEN Texts ELSE FieldValues(type)
IsEvent(e, fields) ==
    /\ e.name \in Nat /\ e.ts \in 0 .. Width - 1 /\ e.values = [i \in 1 .. Len(fields) |-> e.values[i]]
    /\ \A i \in 1 .. Len(fields) : e.values[i] \in Field(fields[i])

\* A value of a narrow type is one; those of a u8 are cut by the writer.
Fits(rust, value) ==
    /\ rust \in {"u16", "u32"} => value[1] < NarrowWidth[rust]
    /\ rust = "CpuSampleSource" => value \in {<<0>>, <<1>>}

\* the values that the telemetry reads in the event
ReadAs(m) ==
    LET e == [name |-> m.name, types |-> m.fields, ts |-> m.ts, values |-> m.values]
    IN  IF Known(e) THEN TelemetryEvent(decode(Telemetry[m.name], e)).values ELSE <<>>

ASSUME StreamAssumption ==
    /\ \A e \in Events : e.name \in DOMAIN Structs /\ IsEvent(e, field_defs(e.name))
                          /\ e = [name |-> e.name, ts |-> e.ts, values |-> e.values]
                          /\ \A i \in DOMAIN e.values : Fits(Structs[e.name][i], e.values[i])
    /\ \A e \in Manual : e.fields \in Seq(FieldTypes \ {PooledString}) /\ IsEvent(e, e.fields) /\ e.read_as = ReadAs(e)
    \* only Symbolize writes entries of the symbol table
    /\ \A e \in Events : e.name # SymbolTable
    /\ \A e \in Manual : e.name # SymbolTable \/ e.fields # field_defs(SymbolTable)
    /\ MaxOps \in Nat /\ MaxFailures \in Nat /\ MaxTorn \in Nat

VARIABLES
    enc,        \* the encoder: Name keys, RustType keys, registry, string pool, timestamp base
    out,        \* the stream written so far
    log,        \* ghost: the events written, as they are to be read
    segment,    \* ghost: the events in front of the last header
    mark,       \* ghost: the stream before the last call
    intact,     \* ghost: the stream up to the first frame that was cut short
    lag,        \* ghost: how far the encoder's base is ahead of the reader's
    unread,     \* ghost: the texts in the pool whose frame was not written
    ops, failures

vars == <<enc, out, log, segment, mark, intact, lag, unread, ops, failures>>

\* Encoder::new
New == [names |-> <<>>, types |-> <<>>, reg |-> <<>>, next_id |-> 0,
        pool |-> <<>>, next_pool_id |-> 0, base |-> 0]

Init == enc = New /\ out = Header /\ log = <<>> /\ segment = 0 /\ mark = 0
        /\ intact = Len(Header) /\ lag = 0 /\ unread = {} /\ ops = 0 /\ failures = 0

\* T::schema_entry, Schema::new
Entry(name, fields) == [name |-> name, has_timestamp |-> TRUE, fields |-> fields]

-----------------------------------------------------------------------------
(* A call writes in stages; when a stage fails, the encoder stays as the    *)
(* code has left it by then.                                               *)

Call(e) == [enc |-> e, stages |-> <<>>, ok |-> TRUE]
Then(call, e, numbers, onfail) ==
    [call EXCEPT !.enc = e, !.stages = Append(@, [numbers |-> numbers, onfail |-> onfail])]
Numbers(stages) == FlattenSeq([i \in DOMAIN stages |-> stages[i].numbers])

\* next_type_id is taken before the frame is written, the rest comes after it.
ensure_registered(call, entry) ==
    LET e == call.enc
        taken == [e EXCEPT !.next_id = @ + 1]
        done == [taken EXCEPT !.reg = Put(@, e.next_id, entry), !.names = Put(@, entry.name, e.next_id)]
    IN  IF entry.name \in DOMAIN e.names
        THEN [call EXCEPT !.ok = @ /\ e.reg[e.names[entry.name]] = entry]
        ELSE Then(call, done, encode_schema(e.next_id, entry), taken)

\* The string is in the pool before its frame is written.
intern_string(call, text) ==
    LET e == call.enc
        done == [e EXCEPT !.pool = Put(@, text, e.next_pool_id), !.next_pool_id = @ + 1]
    IN  IF text \in DOMAIN e.pool THEN call
        ELSE Then(call, done, encode_string_pool(e.next_pool_id, text), done)

\* variant: the base moves with a reset frame only
encode_timestamp_delta_from_reset(call, ts) ==
    LET e == call.enc
    IN  IF ts < e.base \/ ts - e.base > MaxDelta
        THEN Then(call, [e EXCEPT !.base = ts], <<TAG_TIMESTAMP_RESET, ts>>, e)
        ELSE call

\* A reset frame when the delta does not fit or is negative; the base moves on
\* after that frame, but before the event it was moved for.
encode_timestamp_delta(call, ts) ==
    LET e == call.enc
        done == [e EXCEPT !.base = ts]
    IN  IF ts < e.base \/ ts - e.base > MaxDelta
        THEN Then(call, done, <<TAG_TIMESTAMP_RESET, ts>>, e)
        ELSE [call EXCEPT !.enc = done]

Delta(call, ts) == IF ts < call.enc.base \/ ts - call.enc.base > MaxDelta THEN 0 ELSE ts - call.enc.base

WriteFrame(call, id, entry, ts, values) ==
    LET Timed(c) == Then(c, c.enc, encode_event(id, Delta(call, ts), entry, values), c.enc)
    IN  Timed(encode_timestamp_delta(call, ts))

\* the values of an event after interning its texts
Interned(call, fields, values) ==
    LET one(c, i) == IF fields[i] = PooledString THEN intern_string(c, values[i]) ELSE c
    IN  Loop(one, call, Len(values))
Ids(e, fields, values) ==
    [i \in DOMAIN values |-> IF fields[i] = PooledString THEN <<e.pool[values[i]]>> ELSE values[i]]

\* write::<T>: the schema is looked up by type, then by name
Typed(call, name) ==
    LET c == ensure_registered(call, Entry(name, field_defs(name)))
    IN  IF name \in DOMAIN call.enc.types THEN call
        ELSE IF c.ok THEN [c EXCEPT !.enc.types = Put(@, name, c.enc.names[name])] ELSE c
write(call, ev) ==
    LET fields == field_defs(ev.name)
        c == Typed(Interned(call, fields, ev.values), ev.name)
    IN  IF c.ok THEN WriteFrame(c, c.enc.types[ev.name], Entry(ev.name, fields), ev.ts, Ids(c.enc, fields, ev.values))
        ELSE c

\* write_event: by a schema, which is registered by its name
write_event(call, ev) ==
    LET entry == Entry(ev.name, ev.fields)
        c == ensure_registered(call, entry)
    IN  IF c.ok THEN WriteFrame(c, c.enc.names[ev.name], entry, ev.ts, ev.values) ELSE c

-----------------------------------------------------------------------------
(* The calls *)

Wrote(stages, tag) == \E i \in DOMAIN stages : Head(stages[i].numbers) = tag

\* What a reader will see of an event: texts that were not written are missing, and
\* the time lags until the next reset frame.
AsRead(e, fields, ev, shift, gone) ==
    [name |-> ev.name, types |-> fields, ts |-> ev.ts - shift, values |-> Ids(e, fields, ev.values),
     texts |-> [i \in {j \in DOMAIN fields : fields[j] = PooledString} |->
                   IF ev.values[i] \in gone THEN Missing ELSE ev.values[i]]]

\* how far the time of an event lags when the stages are written behind a lag
Shift(stages, behind) == IF Wrote(stages, TAG_TIMESTAMP_RESET) THEN 0 ELSE behind

\* Everything is written, and read as the events written.  Behind a frame that was cut
\* short nothing is promised.
Succeeds(call, written) ==
    /\ call.ok
    /\ enc' = call.enc /\ out' = out \o Numbers(call.stages) /\ lag' = Shift(call.stages, lag)
    /\ IF intact = Len(out) THEN intact' = Len(out') /\ log' = log \o written
       ELSE UNCHANGED <<intact, log>>
    /\ UNCHANGED <<unread, failures>>

SmallerOf(m, n) == IF m < n THEN m ELSE n

\* Stage i fails after k numbers.
WriteFails(call) ==
    /\ failures < MaxFailures /\ failures' = failures + 1
    /\ \E i \in DOMAIN call.stages : 
          \E k \in 0 .. SmallerOf(MaxTorn, Len(call.stages[i].numbers) - 1) :
          LET failed == call.stages[i]
              before == SubSeq(call.stages, 1, i - 1)
              whole == Numbers(before)
              start == IF Wrote(before, TAG_TIMESTAMP_RESET) THEN failed.onfail.base ELSE enc.base - lag
          IN  /\ enc' = failed.onfail
              /\ out' = out \o whole \o SubSeq(failed.numbers, 1, k)
              /\ intact' = IF intact = Len(out) THEN Len(out) + Len(whole) ELSE intact
              /\ lag' = failed.onfail.base - start
              /\ unread' = IF Head(failed.numbers) = TAG_STRING_POOL
                           THEN unread \union {t \in DOMAIN enc'.pool : enc'.pool[t] = failed.numbers[3]}
                           ELSE unread
    /\ UNCHANGED log

\* A call that is refused has written what came before the refusal.
Refused(call) == ~call.ok /\ Succeeds([call EXCEPT !.ok = TRUE], <<>>)

Counted == ops < MaxOps /\ ops' = ops + 1 /\ mark' = intact

\* An event of a derived type, as the writer puts it: its strings are interned, then it
\* is written.
Write ==
    /\ Counted
    /\ \E raw \in Events :
          LET ev == write_resolved(raw)
              call == write(Call(enc), ev)
              read == AsRead(call.enc, field_defs(ev.name), ev, Shift(call.stages, lag), unread)
          IN  Succeeds(call, <<read>>) \/ WriteFails(call) \/ Refused(call)
    /\ UNCHANGED segment

\* write_event
WriteEvent ==
    /\ Counted
    /\ \E ev \in Manual :
          LET call == write_event(Call(enc), ev)
              read == AsRead(enc, ev.fields, ev, Shift(call.stages, lag), {})
          IN  Succeeds(call, <<read>>) \/ WriteFails(call) \/ Refused(call)
    /\ UNCHANGED segment

\* register_schema; and write_event with a wrong number of values, which writes
\* no more than the schema frame
Register ==
    /\ Counted
    /\ \E ev \in Manual :
          LET call == ensure_registered(Call(enc), Entry(ev.name, ev.fields))
          IN  Succeeds(call, <<>>) \/ WriteFails(call) \/ Refused(call)
    /\ UNCHANGED segment

\* reset_to: a header starts the stream afresh, behind another or in a new file
Concatenate ==
    /\ Counted /\ intact = Len(out)
    /\ enc' = New /\ out' = out \o Header /\ intact' = Len(out') /\ segment' = Len(log)
    /\ lag' = 0 /\ unread' = {} /\ UNCHANGED <<log, failures>>

reset_to ==
    /\ ops < MaxOps /\ ops' = ops + 1 /\ mark' = 0
    /\ enc' = New /\ out' = Header /\ intact' = Len(out') /\ log' = <<>> /\ segment' = 0
    /\ lag' = 0 /\ unread' = {} /\ UNCHANGED failures

-----------------------------------------------------------------------------
(* Taking up a stream *)

NextAfter(ids) == IF ids = {} THEN 0 ELSE 1 + CHOOSE i \in ids : \A j \in ids : j <= i

\* variant: ids are counted, not looked at
from_decoder_counts(d) ==
    LET texts == {d.pool[i] : i \in DOMAIN d.pool}
        names == {d.reg[i].name : i \in DOMAIN d.reg}
    IN  [New EXCEPT !.reg = d.reg, !.next_id = Cardinality(DOMAIN d.reg),
                    !.names = [n \in names |-> CHOOSE i \in DOMAIN d.reg : d.reg[i].name = n],
                    !.pool = [t \in texts |-> CHOOSE i \in DOMAIN d.pool : d.pool[i] = t],
                    !.next_pool_id = Cardinality(texts), !.base = d.base]

\* from_decoder; of several ids with one text the last one inserted counts
from_decoder(d) ==
    LET texts == {d.pool[i] : i \in DOMAIN d.pool}
        id(t) == CHOOSE i \in DOMAIN d.pool : d.pool[i] = t
        names == {d.reg[i].name : i \in DOMAIN d.reg}
    IN  [names |-> [n \in names |-> CHOOSE i \in DOMAIN d.reg : d.reg[i].name = n], types |-> <<>>,
         reg |-> d.reg, next_id |-> NextAfter(DOMAIN d.reg),
         pool |-> [t \in texts |-> id(t)], next_pool_id |-> NextAfter(DOMAIN d.pool), base |-> d.base]

\* A whole stream is taken up where it ends.
into_encoder ==
    /\ Counted /\ intact = Len(out)
    /\ enc' = from_decoder(Read("events", out))
    /\ lag' = 0 /\ unread' = {} /\ UNCHANGED <<out, log, segment, intact, failures>>

\* symbolize_trace_with_maps: the entries are written behind what the decoder has read.
Symbolized(d, entries) ==
    LET next(c, i) == write(c, entries[i]) IN Loop(next, Call(from_decoder(d)), Len(entries))

Symbolize ==
    /\ Counted /\ intact = Len(out)
    /\ Addresses(Read("events", out)) # {}
    /\ \E entries \in SymbolData(Addresses(Read("events", out))) :
          LET call == Symbolized(Read("events", out), entries)
              read(i) == AsRead(call.enc, field_defs(SymbolTable), entries[i], 0, {})
          IN  IF call.ok
              THEN /\ enc' = call.enc /\ out' = out \o Numbers(call.stages) /\ intact' = Len(out')
                   /\ log' = log \o [i \in DOMAIN entries |-> read(i)]
                   /\ lag' = 0 /\ unread' = {}
              ELSE UNCHANGED <<enc, out, log, intact, lag, unread>>
    /\ UNCHANGED <<segment, failures>>

-----------------------------------------------------------------------------
Next == Write \/ WriteEvent \/ Register \/ Concatenate \/ reset_to \/ into_encoder \/ Symbolize

Spec == Init /\ [][Next]_vars

-----------------------------------------------------------------------------
(* Properties *)

Cut(k) == SubSeq(out, 1, k)

\* The maps of the encoder fit together: every id it hands out is its own.
TypeOK ==
    /\ \A n \in DOMAIN enc.names : enc.names[n] \in DOMAIN enc.reg /\ enc.reg[enc.names[n]].name = n
    /\ \A t \in DOMAIN enc.types : t \in DOMAIN enc.names /\ enc.types[t] = enc.names[t]
    /\ \A i \in DOMAIN enc.reg : i < enc.next_id
    /\ \A t, u \in DOMAIN enc.pool : enc.pool[t] < enc.next_pool_id /\ (enc.pool[t] = enc.pool[u] => t = u)
    /\ enc.base \in 0 .. Width - 1 /\ lag \in 0 .. enc.base
    /\ mark <= intact /\ intact <= Len(out) /\ segment <= Len(log) /\ out \in Seq(Nat)

\* Every reader finds the events that were written, with their schema, time and
\* strings, in a stream that was taken up, symbolized or concatenated too.  A write
\* that failed before its first byte costs what lag and unread say.
ReadsBack ==
    \A r \in Readers : LET d == Read(r, Cut(intact)) IN d.events = log /\ d.status \in {"end", "reading"}

\* Wherever the stream is cut off, the readers see the same events, a prefix of those
\* that were written; and for_each_event fails when it is cut off inside a frame and
\* not when it is cut off between two.  (Cuts in front of mark were those of the last
\* state.)
ReadersAgree ==
    LET Agree(k, frames, refs, events) ==
            /\ frames.events = events.events /\ refs.events = events.events
            /\ IsPrefix(events.events, log)
            /\ k >= Len(Header) => ((events.status \in {"error", "panic"}) <=> (frames.pos # k))
    IN  \A k \in mark .. intact :
            Agree(k, Read("frames", Cut(k)), Read("refs", Cut(k)), Read("events", Cut(k)))

\* A stream can be taken up at any time: the encoder that is made from what a
\* decoder has read has the same ids, strings and base as the one that wrote it.
TakenUpAlike ==
    LET Alike(e) ==
            /\ e.reg = enc.reg /\ e.names = enc.names /\ e.base = enc.base - lag
            /\ e.pool = [t \in DOMAIN enc.pool \ unread |-> enc.pool[t]]
            /\ failures = 0 => e.next_id = enc.next_id /\ e.next_pool_id = enc.next_pool_id
    IN  intact = Len(out) => Alike(from_decoder(Read("refs", out)))

\* what the telemetry makes of an event that was written: nothing, when its schema
\* is another under the same name that does not fit
Meant(e) ==
    LET same == {m \in Manual : m.name = e.name /\ m.fields = e.types /\ m.values = e.values}
    IN  CASE e.name \notin DOMAIN Telemetry -> <<>>
          [] e.name \in DOMAIN Telemetry /\ same # {} -> (CHOOSE m \in same : TRUE).read_as
          [] OTHER -> TelemetryEvent(e).values

\* The last of the events that is in the set, if any
LastOf(events, kept) ==
    {events[i] : i \in {j \in DOMAIN events : events[j] \in kept /\ \A k \in j + 1 .. Len(events) : events[k] \notin kept}}

\* An entry of the symbol table says what the running program would have found, and
\* stands with those that were inlined with it, unless the file could not be read.
AsResolved(e, table) ==
    LET a == e.values[1][1]
        infos == resolve_symbols_with_maps(a, {})
        Says(o, info) ==
            /\ o.texts[3] = info.name
            /\ o.texts[5] = IF info.code_info = <<>> THEN <<>> ELSE info.code_info[1].file
            /\ info.code_info # <<>> /\ info.code_info[1].line # <<>> => o.values[6] = info.code_info[1].line
        Stands(o, d) == o.values[1] = <<a>> /\ o.values[4] = <<d - 1>> /\ Says(o, infos[d])
    IN  \/ e.values[4] = <<0>> /\ e.texts[3] = Hex(a) /\ \E i \in MappingOf(a) : e.texts[5] = FileOf(i)
        \/ /\ \E d \in DOMAIN infos : Stands(e, d)
           /\ \A d \in DOMAIN infos : \E o \in table : Stands(o, d)

\* A symbol in the table is the one that the running program would have found, and stands
\* with those that were inlined into it, unless its file could not be read.
Table == {e \in Range(log) : e.name = SymbolTable /\ e.types = field_defs(SymbolTable)}
SymbolsResolved == \A e \in Table : AsResolved(e, Table)

\* TraceReader finds every event of the telemetry that was written as it was written,
\* and those of another version whose fields still fit; each task's last spawn, the
\* last metadata, and, for the last segment of a file, the places where tasks were
\* spawned and the names of the threads.  A place or the last name of a thread whose
\* string was not written may be lost, or be taken for a string that got its id when the
\* stream was taken up.  The table of the symbols says what was running.
EventsUnderstood == SymbolsResolved /\
    LET Own == {e \in Range(log) : Meant(e) # <<>>}
        Written(name) == {e \in Own : e.name = name}
        AsFound(e) == [name |-> e.name, ts |-> e.ts, values |-> Meant(e)]
        own == filter(log, Own)
        runtime == filter(log, Own \ (Written(TaskSpawnEvent) \union Written(SegmentMetadataEvent)))
        last == SubSeq(log, segment + 1, Len(log))
        named == {e \in Written(CpuSampleEvent) : e.texts[4] # NoThreadName}
        Understood(r) ==
            /\ r.ok
            /\ r.events = [i \in DOMAIN own |-> AsFound(own[i])]
            /\ read_all(r.events) = [i \in DOMAIN runtime |-> AsFound(runtime[i])]
            /\ \A e \in LastOf(log, Written(SegmentMetadataEvent)) : r.segment_metadata = e.values[1]
            /\ \A e \in Written(TaskSpawnEvent) :
                  \A l \in LastOf(log, {o \in Written(TaskSpawnEvent) : o.values[1] = e.values[1]}) :
                      r.task_spawn_locs[e.values[1][1]] = l.values[2][1]
            /\ \A e \in Range(last) \cap (Written(PollStartEvent) \union Written(TaskSpawnEvent)) :
                  \/ e.texts[Len(e.values)] = Missing
                  \/ r.spawn_locations[Last(e.values)[1]] = e.texts[Len(e.values)]
            /\ NoThreadName \notin Range(r.thread_names)
            /\ \A e \in Range(last) \cap named :
                  \A l \in LastOf(last, {o \in named : o.values[2] = e.values[2]}) :
                      l.texts[4] = Missing \/ r.thread_names[e.values[2][1]] = l.texts[4]
    IN  Understood(TraceReader(Cut(intact)))
=============================================================================
