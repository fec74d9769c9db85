---------------------------- MODULE TraceAnalysis ----------------------------
(***************************************************************************)
(* What is computed from a trace                                           *)
(* (dial9-tokio-telemetry/src/telemetry/analysis.rs).  A trace is the      *)
(* sequence of its events in file order, which is the order of the flushed *)
(* batches: the events of one thread are in order, those of two are not.   *)
(* The maps keyed by worker that the functions keep while they scan are    *)
(* given by what they hold at each position.                               *)
(***************************************************************************)
EXTENDS Naturals, Sequences, FiniteSets, FiniteSetsExt

Of(trace, kinds) == {i \in DOMAIN trace : trace[i].kind \in kinds}

\* the events of some kinds of the same worker before position j
Before(trace, j, kinds) ==
    {i \in Of(trace, kinds) : i < j /\ trace[i].worker = trace[j].worker}

\* variant: the closing event leaves it there
Paired_kept(trace, open, close) ==
    {p \in Of(trace, {open}) \X Of(trace, {close}) :
        LET seen == Before(trace, p[2], {open})
        IN  p[1] \in seen /\ p[1] = Max(seen)}

\* A map into which the opening event is put, replacing one that is there, and
\* from which the closing event takes it out.
Paired(trace, open, close) ==
    {p \in Of(trace, {open}) \X Of(trace, {close}) :
        LET seen == Before(trace, p[2], {open, close})
        IN  p[1] \in seen /\ p[1] = Max(seen)}

SatSub(a, b) == IF a > b THEN a - b ELSE 0
Duration(trace, p) == SatSub(trace[p[2]].ts, trace[p[1]].ts)

detect_long_polls(trace, threshold) ==
    {p \in Paired(trace, "PollStart", "PollEnd") : Duration(trace, p) >= threshold}

detect_sched_delays(trace, threshold) ==
    {p \in Paired(trace, "WorkerPark", "WorkerUnpark") : trace[p[2]].wait >= threshold}

compute_active_periods(trace) == Paired(trace, "WorkerUnpark", "WorkerPark")

-----------------------------------------------------------------------------
(* analyze_trace *)

\* variant: measured from the first PollStart
poll_starts_first(trace) ==
    {p \in Of(trace, {"PollStart"}) \X Of(trace, {"PollEnd"}) :
        LET starts == Before(trace, p[2], {"PollStart"})
        IN  p[1] \in starts /\ p[1] = Min(starts)}

\* A PollEnd is measured from the last PollStart, which it leaves in the map.
poll_starts(trace) ==
    {p \in Of(trace, {"PollStart"}) \X Of(trace, {"PollEnd"}) :
        LET starts == Before(trace, p[2], {"PollStart"})
        IN  p[1] \in starts /\ p[1] = Max(starts)}

Total(trace, pairs) == MapThenSumSet(LAMBDA p : Duration(trace, p), pairs)

poll_count(trace, w) == Cardinality({i \in Of(trace, {"PollStart"}) : trace[i].worker = w})
total_poll_time(trace, w) == Total(trace, {p \in poll_starts(trace) : trace[p[1]].worker = w})

\* The first string of the pool has raw_id 0, which is taken for "no location": such
\* a poll is not counted, and leaves the location of the poll before it in the map.
Named(trace) == {i \in Of(trace, {"PollStart"}) : trace[i].loc # 0}
poll_start_locs(trace) ==
    {p \in Named(trace) \X Of(trace, {"PollEnd"}) :
        LET seen == Before(trace, p[2], {"PollEnd"}) \union (Before(trace, p[2], {"PollStart"}) \cap Named(trace))
        IN  p[1] \in seen /\ p[1] = Max(seen)}
spawn_location_stats(trace, loc) ==
    LET ends == {p[2] : p \in {q \in poll_start_locs(trace) : trace[q[1]].loc = loc}}
    IN  [poll_count |-> Cardinality({i \in Named(trace) : trace[i].loc = loc}),
         total_poll_time |-> Total(trace, {p \in poll_starts(trace) : p[2] \in ends})]

-----------------------------------------------------------------------------
(* Wakes and polls: two passes, since their threads flush independently *)

\* variant: the first wake of the task
LastWake_first(trace, j) ==
    LET wakes == {i \in Of(trace, {"Wake"}) : trace[i].task = trace[j].task /\ trace[i].ts <= trace[j].ts}
    IN  {i \in wakes : \A k \in wakes : trace[k].ts >= trace[i].ts}

\* the last wake of the task at or before the poll
LastWake(trace, j) ==
    LET wakes == {i \in Of(trace, {"Wake"}) : trace[i].task = trace[j].task /\ trace[i].ts <= trace[j].ts}
    IN  {i \in wakes : \A k \in wakes : trace[k].ts <= trace[i].ts}

detect_wake_delays(trace, threshold, limit) ==
    {[wake |-> trace[p[1]].ts, poll |-> p[2]] :
        p \in {q \in Of(trace, {"Wake"}) \X Of(trace, {"PollStart"}) :
                   /\ q[1] \in LastWake(trace, q[2])
                   /\ trace[q[2]].ts - trace[q[1]].ts >= threshold
                   /\ trace[q[2]].ts - trace[q[1]].ts < limit}}

compute_wake_to_poll_delays(trace, limit) == detect_wake_delays(trace, 1, limit)

-----------------------------------------------------------------------------
(* Queue depths and samples *)

\* variant: the first sample after the time
lookup_global_queue_depth_after(trace, ts) ==
    LET samples == {i \in Of(trace, {"QueueSample"}) : trace[i].ts > ts}
        next == {i \in samples : \A k \in samples : trace[k].ts >= trace[i].ts}
    IN  IF samples = {} THEN {0} ELSE {trace[i].depth : i \in next}

\* the depths that may be found: of samples with one timestamp any
lookup_global_queue_depth(trace, ts) ==
    LET samples == {i \in Of(trace, {"QueueSample"}) : trace[i].ts <= ts}
        last == {i \in samples : \A k \in samples : trace[k].ts <= trace[i].ts}
    IN  IF samples = {} THEN {0} ELSE {trace[i].depth : i \in last}

\* the parks reported, each with a depth that may be reported
detect_idle_workers(trace, threshold) ==
    {r \in Paired(trace, "WorkerPark", "WorkerUnpark")
             \X UNION {lookup_global_queue_depth(trace, trace[i].ts) : i \in Of(trace, {"WorkerUnpark"})} :
        /\ Duration(trace, r[1]) > threshold
        /\ r[2] > 0 /\ r[2] \in lookup_global_queue_depth(trace, trace[r[1][2]].ts)}

\* variant: the first poll that ends at or after the sample
Sampled_next(trace, i) ==
    LET ended == {p \in Paired(trace, "PollStart", "PollEnd") :
                     /\ trace[p[1]].worker = trace[i].worker
                     /\ trace[p[2]].ts >= trace[i].ts}
    IN  {p \in ended : \A q \in ended : trace[q[2]].ts >= trace[p[2]].ts}

\* the polls that may be chosen for the sample at i: the last one of the worker that
\* starts at or before it, if it ends at or after it
Sampled(trace, i) ==
    LET started == {p \in Paired(trace, "PollStart", "PollEnd") :
                       /\ trace[p[1]].worker = trace[i].worker
                       /\ trace[p[1]].ts <= trace[i].ts}
    IN  {p \in started : /\ \A q \in started : trace[q[1]].ts <= trace[p[1]].ts
                         /\ trace[i].ts <= trace[p[2]].ts}

detect_sampled_polls(trace) == UNION {Sampled(trace, i) : i \in Of(trace, {"CpuSample"})}
=============================================================================
