---------------------------- MODULE TraceDecoder ----------------------------
(***************************************************************************)
(* Decoder (dial9-trace-format/src/decoder.rs): reads a stream frame by    *)
(* frame and keeps the schemas, the string pool and the timestamp base     *)
(* that later frames refer to.  It has three readers: next_frame (frames), *)
(* next_frame_ref (refs) and for_each_event (events).                      *)
(***************************************************************************)
EXTENDS TraceCodec

Readers == {"frames", "refs", "events"}
Missing == <<NotUtf8>>     \* StringPool::get of an id that is not there

Put(f, k, v) == [j \in DOMAIN f \union {k} |-> IF j = k THEN v ELSE f[j]]

Fresh(pos) == [pos |-> pos, reg |-> <<>>, pool |-> <<>>, base |-> 0, events |-> <<>>,
               status |-> "reading"]

reset_state(d) == [Fresh(d.pos + 2) EXCEPT !.events = d.events]

get(pool, id) == IF id \in DOMAIN pool THEN pool[id] ELSE Missing

\* An event as its consumer sees it, with the texts that the pool has for its ids.
Event(pool, entry, ts, values) ==
    [name |-> entry.name, types |-> entry.fields, ts |-> ts, values |-> values,
     texts |-> [i \in {j \in DOMAIN values : entry.fields[j] = PooledString} |-> get(pool, values[i][1])]]
Resolved(d, f) == Event(d.pool, f.entry, f.ts, f.values)

\* SchemaRegistry::register
Conflicts(d, f) == f.id \in DOMAIN d.reg /\ d.reg[f.id] # f.entry

\* variant: a reset frame is skipped
Apply_ignores_reset(d, f) ==
    CASE f.kind = "schema" -> IF Conflicts(d, f) THEN [d EXCEPT !.status = "error"]
                              ELSE [d EXCEPT !.reg = Put(@, f.id, f.entry)]
      [] f.kind = "event" -> [d EXCEPT !.base = f.ts, !.events = Append(@, Resolved(d, f))]
      [] f.kind = "pool" -> [d EXCEPT !.pool = Put(@, f.entries[1].id, f.entries[1].text)]
      [] f.kind = "reset" -> d

Apply(d, f) ==
    CASE f.kind = "schema" -> IF Conflicts(d, f) THEN [d EXCEPT !.status = "error"]
                              ELSE [d EXCEPT !.reg = Put(@, f.id, f.entry)]
      [] f.kind = "event" -> [d EXCEPT !.base = f.ts, !.events = Append(@, Resolved(d, f))]
      [] f.kind = "pool" ->
            LET insert(pool, i) == IF Utf8(f.entries[i].text) THEN Put(pool, f.entries[i].id, f.entries[i].text)
                                   ELSE pool
            IN  [d EXCEPT !.pool = Loop(insert, @, Len(f.entries))]
      [] f.kind = "reset" -> [d EXCEPT !.base = f.ts]

\* for_each_event decodes an event itself and leaves the other frames to next_frame_ref.
FrameOf(reader, data, d) ==
    CASE reader = "frames" -> decode_frame(data, d.pos, d.reg, d.base)
      [] reader = "events" /\ data[d.pos + 1] = TAG_EVENT ->
            EventFrame(decode_ref, FALSE, data, d.pos + 1, d.reg, d.base)
      [] OTHER -> decode_frame_ref(data, d.pos, d.reg, d.base)

\* A frame that does not decode ends the stream for the frame readers and is an
\* error for for_each_event.
Proceed(reader, d, r) ==
    CASE r.res = "some" -> Apply([d EXCEPT !.pos = r.pos], r.v)
      [] r.res = "panic" -> [d EXCEPT !.status = "panic"]
      [] OTHER -> [d EXCEPT !.status = IF reader = "events" THEN "error" ELSE "end"]

\* variant: for_each_event goes on with the old schemas behind a header
next_frame_keeps_state(reader, data, d) ==
    IF d.status # "reading" THEN d
    ELSE IF d.pos >= Len(data) THEN [d EXCEPT !.status = "end"]
    ELSE IF decode_header(data, d.pos)
         THEN IF reader = "events" THEN [d EXCEPT !.pos = @ + 2] ELSE reset_state(d)
    ELSE Proceed(reader, d, FrameOf(reader, data, d))

\* variant: for_each_event ends like the frame readers
next_frame_silent(reader, data, d) ==
    IF d.status # "reading" THEN d
    ELSE IF d.pos >= Len(data) THEN [d EXCEPT !.status = "end"]
    ELSE IF decode_header(data, d.pos) THEN reset_state(d)
    ELSE Proceed("refs", d, FrameOf(reader, data, d))

next_frame(reader, data, d) ==
    IF d.status # "reading" THEN d
    ELSE IF d.pos >= Len(data) THEN [d EXCEPT !.status = "end"]
    ELSE IF decode_header(data, d.pos) THEN reset_state(d)
    ELSE Proceed(reader, d, FrameOf(reader, data, d))

\* decode_all, decode_all_ref and for_each_event: a frame has two numbers at least
Read(reader, data) ==
    IF ~decode_header(data, 0) THEN [Fresh(0) EXCEPT !.status = "invalid"]
    ELSE LET step(d, i) == next_frame(reader, data, d)
         IN  Loop(step, Fresh(2), Len(data) \div 2)
=============================================================================
