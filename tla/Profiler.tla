------------------------------ MODULE Profiler ------------------------------
(***************************************************************************)
(* The profilers (perf-self-profile/src/sampler.rs, cpu_profile.rs) and    *)
(* whose samples are whose: the roles of the threads (recorder/mod.rs,     *)
(* recorder/shared_state.rs), which the flush thread looks a sample's      *)
(* thread up in (recorder/event_writer.rs), and the poll that the analysis *)
(* finds for it.  An event of a hook is written at once here: what the     *)
(* buffers do to it is the matter of EventPipeline and TracedTasks.        *)
(***************************************************************************)
EXTENDS TraceAnalysis, PerfRing, Tracepoint, SequencesExt

CONSTANTS
    Workers,     \* the worker threads
    Others,      \* threads of the blocking pool
    Format,      \* the format file of the tracepoint that is sampled
    MaxFrequency,   \* the kernel's perf_event_max_sample_rate
    Scenarios,   \* the configuration of the profilers, the CPUs that are online and whether
                 \* the kernel may refuse an event; and bounds: the threads that start or
                 \* stop, the number of polls and of samples, and what a sample may hold
    MaxTime      \* bound

Threads == Workers \union Others
Blocking == "blocking"     \* WorkerId::BLOCKING
Unknown == "unknown"       \* WorkerId::UNKNOWN
Starter == "starter"       \* the thread that builds the runtime, which no hook knows
Everyone == "everyone"

PERF_CONTEXT_MAX == 3     \* from here on, an address in a call chain is a mark of the kernel
USER_ADDR_LIMIT == 2      \* from here on, it is one of the kernel
KernelAddresses == USER_ADDR_LIMIT .. PERF_CONTEXT_MAX - 1
ProgramAddresses == 1 .. USER_ADDR_LIMIT - 1

ASSUME ProfilerAssumption ==
    /\ MaxTime \in Nat
    /\ IsFiniteSet(Workers)
    /\ "0" \notin Threads     \* no thread has the id 0
    /\ Starter \notin Threads /\ Everyone \notin Threads
    /\ \A s \in Scenarios :
          /\ s.movers \subseteq Threads /\ s.polls \in Nat /\ s.samples \in Nat
          /\ s.online \in Seq(Nat \X Nat) /\ \A r \in DOMAIN s.online : s.online[r][1] <= s.online[r][2]
          /\ s.raws \subseteq Seq(0 .. Byte - 1)
          /\ \A stack \in s.stacks : stack.kernel \in Seq(KernelAddresses) /\ stack.program \in Seq(ProgramAddresses)
    /\ Format \in Seq(Line) /\ parse_format(Format) # Error

VARIABLES
    life,        \* of a thread: new, starting, alive, stopping, ended
    cached,      \* the threads with WORKER_ID set
    roles,       \* SharedState.thread_roles
    rings,       \* the events of the profilers, the process-wide one first
    names,       \* the threads in CpuProfiler.tid_to_name
    flush        \* flush_cpu: the roles it has taken (and first, a ghost), the ring it reads, or Idle

\* ghost variables
VARIABLES
    scenario, clock,
    past,        \* every event and sample in the order it happened in
    trace,       \* what was written: an event of past, and the worker it was given
    first        \* who had the worker of a thread resolved first: a hook or a waker

vars == <<scenario, life, cached, roles, rings, names, flush, clock, past, trace, first>>

Idle == [ring |-> 0]

-----------------------------------------------------------------------------
(* Opening the profilers *)

\* A configuration has event_source, frequency_hz and include_kernel.
EventBased(config) == config.event_source \in {"SwContextSwitches", "Tracepoint"}

\* What the kernel is asked for: the threads that a thread starts as well, no samples
\* while it is in the kernel itself, the fields of a tracepoint.
build_attr(config) ==
    [inherit |-> ~EventBased(config),
     exclude_kernel |-> ~EventBased(config) /\ ~config.include_kernel,
     raw |-> config.event_source = "Tracepoint"]

SchedProfiler_new(config) ==
    [event_source |-> "SwContextSwitches", frequency_hz |-> 1, include_kernel |-> config.include_kernel]

\* A PerfEvent remembers the pid argument it was opened with, which is 0 for the
\* calling thread; whose samples it takes, and what it has not delivered, are ghosts.
PerfEvent(config, owner) ==
    [tid |-> "0", ring |-> EmptyRing, config |-> config, owner |-> owner, unread |-> <<>>]

\* the ranges of CPUs, each with its first and its last
get_online_cpus(ranges) ==
    FlattenSeq([r \in DOMAIN ranges |-> [i \in 1 .. ranges[r][2] - ranges[r][1] + 1 |-> ranges[r][1] + i - 1]])

\* open_perf_event for each of some owners, in vain or not: an error drops the events
\* that were opened before it.
open_perf_event(config, owners) ==
    {[i \in DOMAIN owners |-> PerfEvent(config, owners[i])]}
    \union (IF scenario.refuses \/ config.frequency_hz > MaxFrequency THEN {<<>>} ELSE {})

\* One event for each CPU, for the thread that starts the profiler and those it starts
\* from then on; or one for that thread alone, since only a frequency is inherited.
start_for_pid(config) ==
    open_perf_event(config, IF EventBased(config) THEN <<Starter>>
                            ELSE [cpu \in DOMAIN get_online_cpus(scenario.online) |-> Everyone])

SchedEvents == SchedProfiler_new(scenario.sched_events)

\* build has returned: the profiler of the process runs if it could be started, the
\* workers have started, and none has been resolved, since there were no metrics to
\* resolve it from.
Init ==
    /\ scenario \in Scenarios
    /\ life = [th \in Threads |-> IF th \in Workers THEN "alive" ELSE "new"]
    /\ cached = {} /\ first = [th \in Threads |-> "nobody"]
    /\ roles = [w \in Workers |-> Blocking]
    /\ \E process \in start_for_pid(scenario.cpu_profiling), tracked \in SUBSET Workers :
       \E order \in SetToSeqs(tracked) :
          /\ \A w \in Workers \ tracked : <<>> \in open_perf_event(SchedEvents, <<w>>)
          /\ rings = process \o [i \in 1 .. Cardinality(tracked) |-> PerfEvent(SchedEvents, order[i])]
    /\ names = {} /\ flush = Idle /\ clock = 0 /\ past = <<>> /\ trace = <<>>

Happens(event) ==
    /\ clock' \in {clock, clock + 1} /\ clock' <= MaxTime
    /\ past' = Append(past, [event EXCEPT !.ts = clock'])

-----------------------------------------------------------------------------
(* The worker of a thread *)

\* the role of a thread, in place of the one it had
Registered(th, role) == [t \in DOMAIN roles \union {th} |-> IF t = th THEN role ELSE roles[t]]

\* variant: a role that is there is kept
resolve_worker_id_keeps(w) ==
    /\ cached' = cached \union {w} /\ UNCHANGED roles
    /\ first' = IF w \in cached THEN first ELSE [first EXCEPT ![w] = "hook"]

\* resolve_worker_id with the shared state: the role is registered along with the
\* cached id, and only then
resolve_worker_id(w) ==
    /\ cached' = cached \union {w}
    /\ IF w \in cached THEN UNCHANGED <<roles, first>>
       ELSE roles' = Registered(w, w) /\ first' = [first EXCEPT ![w] = "hook"]

\* of a waker: without the shared state
current_worker_id(w) ==
    /\ life[w] = "alive" /\ w \notin cached
    /\ cached' = cached \union {w} /\ first' = [first EXCEPT ![w] = "waker"]
    /\ UNCHANGED <<scenario, life, roles, rings, names, flush, clock, past, trace>>

InPoll(w) == LET of == {i \in Of(past, {"PollStart", "PollEnd"}) : past[i].worker = w}
             IN  of # {} /\ past[Max(of)].kind = "PollStart"

make_poll_start(w) ==
    /\ ~InPoll(w) /\ Cardinality(Of(past, {"PollStart"})) < scenario.polls
    /\ Happens([kind |-> "PollStart", ts |-> 0, worker |-> w])
make_poll_end(w) == InPoll(w) /\ Happens([kind |-> "PollEnd", ts |-> 0, worker |-> w])

Hook(w) ==
    /\ life[w] = "alive" /\ (make_poll_start(w) \/ make_poll_end(w))
    /\ resolve_worker_id(w)
    /\ trace' = Append(trace, [at |-> Len(past) + 1, worker |-> w])
    /\ UNCHANGED <<scenario, life, rings, names, flush>>

-----------------------------------------------------------------------------
(* The threads *)

\* The mutex of the SchedProfiler is held while its rings are drained.
Flushing == flush # Idle
OfProcess(event) == event.owner \in {Starter, Everyone}
SchedLocked == Flushing /\ \A i \in flush.ring .. Len(rings) : ~OfProcess(rings[i])

on_thread_start(th) ==
    /\ th \in scenario.movers /\ life[th] = "new" /\ life' = [life EXCEPT ![th] = "starting"]
    /\ roles' = Registered(th, Blocking)
    /\ UNCHANGED <<scenario, cached, rings, names, flush, clock, past, trace, first>>

track_current_thread(th) ==
    /\ life[th] = "starting" /\ ~SchedLocked /\ life' = [life EXCEPT ![th] = "alive"]
    /\ \E opened \in open_perf_event(SchedEvents, <<th>>) : rings' = rings \o opened
    /\ UNCHANGED <<scenario, cached, roles, names, flush, clock, past, trace, first>>

\* variant: the role is left
on_thread_stop_keeps(th) ==
    /\ th \in scenario.movers /\ life[th] = "alive" /\ ~(th \in Workers /\ InPoll(th)) /\ life' = [life EXCEPT ![th] = "stopping"]
    /\ UNCHANGED <<scenario, roles, cached, rings, names, flush, clock, past, trace, first>>

on_thread_stop(th) ==
    /\ th \in scenario.movers /\ life[th] = "alive" /\ ~(th \in Workers /\ InPoll(th)) /\ life' = [life EXCEPT ![th] = "stopping"]
    /\ roles' = Restrict(roles, DOMAIN roles \ {th})
    /\ UNCHANGED <<scenario, cached, rings, names, flush, clock, past, trace, first>>

\* The first event of the thread's own that was opened for the thread goes; the last one takes its place.
stop_tracking_current_thread(th) ==
    LET own == {i \in DOMAIN rings : ~OfProcess(rings[i]) /\ rings[i].tid = th}
        last == Len(rings)
    IN  /\ life[th] = "stopping" /\ ~SchedLocked /\ life' = [life EXCEPT ![th] = "ended"]
        /\ rings' = IF own = {} THEN rings ELSE SubSeq([rings EXCEPT ![Min(own)] = rings[last]], 1, last - 1)
        /\ UNCHANGED <<scenario, cached, roles, names, flush, clock, past, trace, first>>

-----------------------------------------------------------------------------
(* Samples *)

\* external: what is on the stack in the kernel and what in the program, each behind a
\* mark, and an end that could not be walked
Chain(stack) ==
    LET marked(part) == IF part = <<>> THEN <<>> ELSE <<PERF_CONTEXT_MAX>> \o part
    IN  marked(stack.kernel) \o marked(stack.program) \o <<0>>

\* external: the kernel takes a sample of a thread, or of a child that inherited the
\* event, into a ring.  Its number in past stands for its thread and time.
Sample ==
    /\ Cardinality(Of(past, {"CpuSample"})) < scenario.samples
    /\ \E i \in DOMAIN rings, th \in Threads \union {Starter}, child \in BOOLEAN, stack \in scenario.stacks :
       LET attr == build_attr(rings[i].config)
       IN  \E raw \in IF attr.raw THEN scenario.raws ELSE {<<>>} :
           LET record == <<Len(raw) + Len(Chain(stack)) + 3, Len(past) + 1, Len(Chain(stack))>> \o Chain(stack) \o raw
           IN  /\ th # Starter => life[th] \notin {"new", "ended"}
               /\ rings[i].owner \in {Everyone, th} /\ (child => attr.inherit)
               /\ attr.exclude_kernel => stack.kernel = <<>>
               /\ Fits(rings[i].ring, record)
               /\ Happens([kind |-> "CpuSample", ts |-> 0, worker |-> th, child |-> child, raw |-> raw,
                           stack |-> stack, source |-> IF OfProcess(rings[i]) THEN "CpuProfile" ELSE "SchedEvent"])
               /\ rings' = [rings EXCEPT ![i].ring = kernel_write(@, record), ![i].unread = Append(@, Tail(record))]
    /\ UNCHANGED <<scenario, life, cached, roles, names, flush, trace, first>>

\* flush_cpu takes a snapshot of the roles and drains ring after ring.
flush_cpu ==
    /\ ~Flushing /\ flush' = [roles |-> roles, ring |-> 1, got |-> FALSE, first |-> first]
    /\ UNCHANGED <<scenario, life, cached, roles, rings, names, clock, past, trace, first>>

\* a record is there
for_each_record ==
    /\ Flushing /\ ~flush.got /\ flush.ring <= Len(rings) /\ has_data(rings[flush.ring].ring)
    /\ flush' = [flush EXCEPT !.got = TRUE]
    /\ UNCHANGED <<scenario, life, cached, roles, rings, names, clock, past, trace, first>>

\* no more records: the next ring
NextRing ==
    /\ Flushing /\ ~flush.got /\ (flush.ring <= Len(rings) => ~has_data(rings[flush.ring].ring))
    /\ flush' = IF flush.ring < Len(rings) THEN [flush EXCEPT !.ring = @ + 1] ELSE Idle
    /\ UNCHANGED <<scenario, life, cached, roles, rings, names, clock, past, trace, first>>

\* the worker of a thread by the roles taken before
resolve(th) == IF th \in DOMAIN flush.roles THEN flush.roles[th] ELSE Unknown

filter_callchain(raw, include_kernel) ==
    filter(raw, {a \in 1 .. PERF_CONTEXT_MAX - 1 : include_kernel \/ a < USER_ADDR_LIMIT})

\* the record as a Sample: its number, the call chain, the fields
Parsed(record, config) ==
    [at |-> record[1], callchain |-> filter_callchain(SubSeq(record, 3, 2 + record[2]), config.include_kernel),
     raw |-> SubSeq(record, 3 + record[2], Len(record))]

Attributed(sample, name) ==
    [at |-> sample.at, callchain |-> sample.callchain, raw |-> sample.raw,
     worker |-> resolve(past[sample.at].worker), name |-> name]

\* the threads with a file that holds their name
read_thread_name == {th \in Threads : life[th] \notin {"new", "ended"}} \union {Starter}

\* What is written of it: of the process, not of a child, and with the name of the
\* thread, which is kept once it was read.
CpuProfiler_drain(sample) ==
    LET th == past[sample.at].worker
    IN  IF past[sample.at].child THEN UNCHANGED <<names, trace>>
        ELSE /\ names' = names \union ({th} \cap read_thread_name)
             /\ trace' = Append(trace, Attributed(sample, {th} \cap names'))
SchedProfiler_drain(sample) ==
    UNCHANGED names /\ trace' = Append(trace, Attributed(sample, {}))

\* The record is copied out and written as an event, then the kernel gets its space
\* back.
for_each_sample ==
    /\ Flushing /\ flush.got /\ flush' = [flush EXCEPT !.got = FALSE]
    /\ LET event == rings[flush.ring]
           sample == Parsed(body(event.ring), event.config)
       IN  /\ IF OfProcess(event) THEN CpuProfiler_drain(sample) ELSE SchedProfiler_drain(sample)
           /\ rings' = [rings EXCEPT ![flush.ring].ring = write_tail(@), ![flush.ring].unread = Tail(@)]
    /\ UNCHANGED <<scenario, life, cached, roles, clock, past, first>>

-----------------------------------------------------------------------------
ThreadStep ==
    \/ \E w \in Workers : current_worker_id(w) \/ Hook(w)
    \/ \E th \in Threads :
          \/ on_thread_start(th)
          \/ track_current_thread(th)
          \/ on_thread_stop(th)
          \/ stop_tracking_current_thread(th)

Next == ThreadStep \/ Sample \/ flush_cpu \/ for_each_record \/ NextRing \/ for_each_sample

Spec == Init /\ [][Next]_vars

-----------------------------------------------------------------------------
(* Properties *)

events == [i \in DOMAIN trace |-> [past[trace[i].at] EXCEPT !.worker = trace[i].worker]]
written == {trace[i].at : i \in DOMAIN trace}

\* A thread has a role from its start to its stop, its own one or that of the blocking
\* pool; the ring that is read is there, and so is the record that was seen in it.
TypeOK ==
    /\ DOMAIN roles = {th \in Threads : life[th] \in {"starting", "alive"}}
    /\ \A th \in DOMAIN roles : roles[th] \in {th, Blocking}
    /\ written \subseteq DOMAIN past
    /\ Flushing /\ flush.got => flush.ring \in DOMAIN rings /\ rings[flush.ring].unread # <<>>
    /\ names \subseteq Threads \union {Starter}

\* A sample that was taken in a poll of a worker, and written as that worker's, is
\* found in that poll and in no other: samples of one thread come out of two rings, in
\* batches, and long after the polls.  What is on one tick leaves the choice open.
SamplesAttributed ==
    LET real == Paired(past, "PollStart", "PollEnd")
        tie(p, q) == past[p[1]].ts = past[q[1]].ts /\ past[p[1]].worker = past[q[1]].worker
    IN  \A i \in Of(events, {"CpuSample"}) :
            LET s == trace[i].at
                w == past[s].worker
                chosen == {<<trace[p[1]].at, trace[p[2]].at>> : p \in Sampled(events, i)}
                inside == {p \in real : p[1] < s /\ s < p[2] /\ past[p[1]].worker = w}
            IN  events[i].worker = w =>
                    /\ \A p \in inside : (\A q \in real \ {p} : ~tie(p, q) /\ past[q[1]].ts # past[s].ts) => chosen = {p}
                    /\ \A p \in chosen : past[p[1]].ts <= past[s].ts /\ past[s].ts <= past[p[2]].ts

\* these records lie ahead of the reader, whole, and nothing else
Ahead(ring, records) ==
    LET after[n \in 0 .. Len(records)] == IF n = 0 THEN ring ELSE write_tail(after[n - 1])
    IN  /\ \A n \in DOMAIN records : body(after[n - 1]) = records[n]
        /\ ~has_data(after[Len(records)])

\* What a ring holds in front of the reader are whole records, the unread ones in
\* order, while the kernel goes on writing: nothing is torn, skipped or read twice.
RingIntact == \A i \in DOMAIN rings : Ahead(rings[i].ring, rings[i].unread)

\* No sample is ever written as another worker's, and one of a live worker that a hook
\* had resolved before flush_cpu took the roles is written as its own.  (A waker that is
\* first leaves the worker among the blocking threads for good.)
OwnWorker ==
    [][\A i \in DOMAIN trace' \ DOMAIN trace :
          LET th == past'[trace'[i].at].worker
          IN  past'[trace'[i].at].kind = "CpuSample" =>
                  /\ trace'[i].worker \in IF th \in Threads THEN {th, Blocking, Unknown} ELSE {Unknown}
                  /\ th \in Workers \cap DOMAIN flush.roles /\ flush.first[th] = "hook" => trace'[i].worker = th]_vars

\* what the value v of the field f is of the raw record
Means(raw, f, v) ==
    IF f.dynamic \/ f.chars THEN \A k \in DOMAIN v : v[k] # 0
    ELSE IF f.size \in {1, 2, 4, 8}
         THEN /\ v % Numbers[f.size] = Unsigned(Part(raw, f.offset, f.size))
              /\ IF f.signed THEN -Numbers[f.size] <= 2 * v /\ 2 * v < Numbers[f.size] ELSE 0 <= v /\ v < Numbers[f.size]
         ELSE v = Part(raw, f.offset, f.size)

RightFields(raw, result) ==
    LET def == parse_format(Format)
        types == to_trace_format_fields(def)
    IN  /\ result = Error <=> \E j \in DOMAIN def.fields : ~Readable(raw, def.fields[j])
        /\ result # Error => \A j \in DOMAIN def.fields :
              /\ Means(raw, def.fields[j], result.values[j].value)
              /\ \/ result.values[j].type = types[j]
                 \/ def.fields[j].size \in {3, 5, 6, 7} /\ result.values[j].type = "Bytes"

\* The stack of a sample is the thread's, to the last address, with or without the
\* kernel's part as its profiler was told, though the two profilers may be told
\* otherwise and one of them leaves that part out only here.
\* The fields of a sample are those the kernel wrote, unless the record ends before one
\* of them, and of the types that the schema gives them; but an integer of 3, 5, 6 or 7
\* bytes (an array) is handed over as bytes under a schema that says it is a number.
FieldsRead ==
    \A i \in Of(events, {"CpuSample"}) :
        LET sample == past[trace[i].at]
            config == IF sample.source = "CpuProfile" THEN scenario.cpu_profiling ELSE scenario.sched_events
            shown == IF config.include_kernel THEN sample.stack.kernel \o sample.stack.program ELSE sample.stack.program
        IN  /\ trace[i].callchain = shown /\ trace[i].raw = sample.raw
            /\ sample.raw # <<>> => RightFields(sample.raw, encode_raw(parse_format(Format), sample.raw))
=============================================================================
