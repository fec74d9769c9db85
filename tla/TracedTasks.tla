---------------------------- MODULE TracedTasks -----------------------------
(***************************************************************************)
(* What a trace says of the tasks and workers: the hooks of the worker     *)
(* threads (recorder/mod.rs, recorder/shared_state.rs), the wakers of      *)
(* Traced futures (traced.rs), the conversion of what was recorded into    *)
(* the file and back (writer.rs, format.rs), and the analysis of it.       *)
(* Tokio is modelled by what the code relies on; a worker is run by one    *)
(* thread.                                                                 *)
(***************************************************************************)
EXTENDS TraceAnalysis, SequencesExt

CONSTANTS
    Workers,     \* the worker threads
    Others,      \* other threads that wake tasks
    Tasks, Channels,   \* each task waits for all of its channels, those the scenario has
    Location,    \* where a task was spawned
    Depths,      \* depths of the global queue
    Byte,        \* the values of a u8
    Threshold, Limit,  \* what is called long, and the 1 s of detect_wake_delays
    Scenarios,   \* the capacity of a thread-local buffer, in events, and bounds: how many tasks
                 \* there are, how many events of each kind happen, how long a thread may wait
                 \* for a CPU at a time, how often schedstat fails, recording is switched and
                 \* a batch is lost
    MaxTime      \* bound

Kinds == {"PollStart", "PollEnd", "WorkerPark", "WorkerUnpark", "QueueSample", "Wake"}
Threads == Workers \union Others
None == "none"

ASSUME TasksAssumption ==
    /\ Scenarios \subseteq [capacity : Nat \ {0}, spawned : Nat, channels : SUBSET Channels, most : [Kinds -> Nat],
                            waits : Nat, unread : Nat, toggles : Nat, lost : Nat]
    /\ None \notin Tasks /\ Depths \subseteq Nat /\ Byte \in Nat \ {0} /\ Threshold \in Nat
    /\ MaxTime \in Nat

VARIABLES
    enabled,     \* SharedState.enabled
    stage,       \* what each worker does: idle, parked, or a poll of a task
    notified,    \* the tasks in a run queue
    done,        \* the tasks that have completed, or were not spawned
    inner,       \* the tasks whose TracedWakerData holds the executor's waker
    source,      \* the waker each channel holds for its task
    signalled,   \* the channels that have something for their task
    waking,      \* the task each thread is waking, between the two calls of wake_by_ref
    waited,      \* how long each worker has been waiting for a CPU, which schedstat tells
    parked_wait, \* PARKED_SCHED_WAIT
    buf          \* thread-local buffers

\* ghost variables
VARIABLES
    scenario, clock,
    past,        \* every event in the order it happened in, recorded or not
    trace,       \* what was written: the numbers of events in past
    lost,        \* batches evicted
    toggles

tasks == <<notified, done, inner, source, signalled, waking>>
recorded == <<clock, past, buf, trace, lost>>
sched == <<waited, parked_wait>>
vars == <<scenario, enabled, stage, tasks, sched, recorded, toggles>>

Idle == [at |-> "idle"]
Parked == [at |-> "parked"]

\* build has returned and the tasks are spawned.
Init ==
    /\ scenario \in Scenarios /\ enabled \in BOOLEAN /\ clock = 0
    /\ stage \in [Workers -> {Idle, Parked}]
    /\ notified \in kSubset(scenario.spawned, Tasks) /\ done = Tasks \ notified /\ inner = {} /\ signalled = {}
    /\ source = [c \in Tasks \X scenario.channels |-> None]
    /\ waking = [th \in Threads |-> None]
    /\ waited = [w \in Workers |-> 0] /\ parked_wait = waited
    /\ buf = [th \in Threads |-> <<>>]
    /\ past = <<>> /\ trace = <<>> /\ lost = 0 /\ toggles = 0

-----------------------------------------------------------------------------
(* Recording *)

\* An event happens, with some time gone by since the one before.
Happens(event) ==
    /\ Cardinality(Of(past, {event.kind})) < scenario.most[event.kind]
    /\ clock' \in {clock, clock + 1} /\ clock' <= MaxTime
    /\ past' = Append(past, [event EXCEPT !.ts = clock'])

\* A batch that is handed over may be evicted before it is written (EventPipeline).
HandOver(batch) ==
    \/ trace' = trace \o batch /\ UNCHANGED lost
    \/ lost < scenario.lost /\ lost' = lost + 1 /\ UNCHANGED trace

\* variant: the buffer that is handed over is not emptied
record_event_keeps(th, event) ==
    LET batch == Append(buf[th], Len(past) + 1)
    IN  /\ Happens(event)
        /\ IF ~enabled THEN UNCHANGED <<buf, trace, lost>>
           ELSE buf' = [buf EXCEPT ![th] = batch]
                /\ IF Len(batch) < scenario.capacity THEN UNCHANGED <<trace, lost>> ELSE HandOver(batch)

\* If recording is on the event is put into the buffer of the thread, which is handed
\* over when it is full.
record_event(th, event) ==
    LET batch == Append(buf[th], Len(past) + 1)
    IN  /\ Happens(event)
        /\ IF ~enabled THEN UNCHANGED <<buf, trace, lost>>
           ELSE IF Len(batch) < scenario.capacity THEN buf' = [buf EXCEPT ![th] = batch] /\ UNCHANGED <<trace, lost>>
           ELSE buf' = [buf EXCEPT ![th] = <<>>] /\ HandOver(batch)

\* the flush thread, in a buffer of its own that it drains at once (flush_once)
record_queue_sample ==
    /\ \E depth \in Depths : Happens([kind |-> "QueueSample", ts |-> 0, depth |-> depth])
    /\ IF enabled THEN HandOver(<<Len(past')>>) ELSE UNCHANGED <<trace, lost>>
    /\ UNCHANGED <<scenario, enabled, stage, tasks, sched, buf, toggles>>

SetEnabled ==
    /\ toggles < scenario.toggles /\ toggles' = toggles + 1 /\ enabled' = ~enabled
    /\ UNCHANGED <<scenario, stage, tasks, sched, recorded>>

-----------------------------------------------------------------------------
(* The hooks *)

Polled == {stage[w].task : w \in {v \in Workers : stage[v].at \notin {"idle", "parked"}}}

on_before_task_poll(w) ==
    \E t \in notified \ (done \union Polled) :
        /\ stage[w] = Idle
        /\ record_event(w, [kind |-> "PollStart", ts |-> 0, worker |-> w, task |-> t])
        /\ notified' = notified \ {t}
        /\ stage' = [stage EXCEPT ![w] = [at |-> "begun", task |-> t]]
        /\ UNCHANGED <<done, inner, source, signalled, waking, sched>>

on_after_task_poll(w) ==
    /\ stage[w].at = "polled" /\ waking[w] = None
    /\ record_event(w, [kind |-> "PollEnd", ts |-> 0, worker |-> w])
    /\ stage' = [stage EXCEPT ![w] = Idle]
    /\ UNCHANGED <<tasks, sched>>

\* The worker has waited for a CPU some more.
Waits(w) == \E more \in 0 .. scenario.waits : waited' = [waited EXCEPT ![w] = @ + more]

\* SchedStat::read_current: what is read, if it can be
read_current(w) ==
    {<<waited'[w]>>} \union
        IF Cardinality({k \in Of(past, {"WorkerPark", "WorkerUnpark"}) : ~past[k].read}) < scenario.unread
        THEN {<<>>} ELSE {}

\* The wait is kept, unless it could not be read.
on_thread_park(w) ==
    /\ stage[w] = Idle /\ stage' = [stage EXCEPT ![w] = Parked]
    /\ Waits(w)
    /\ \E stat \in read_current(w) :
          /\ parked_wait' = IF stat = <<>> THEN parked_wait ELSE [parked_wait EXCEPT ![w] = stat[1]]
          /\ record_event(w, [kind |-> "WorkerPark", ts |-> 0, worker |-> w, read |-> stat # <<>>, waited |-> waited'[w]])
    /\ UNCHANGED tasks

\* The event has the wait since the last that was kept.
on_thread_unpark(w) ==
    /\ stage[w] = Parked /\ waking[w] = None /\ stage' = [stage EXCEPT ![w] = Idle]
    /\ Waits(w)
    /\ \E stat \in read_current(w) :
          record_event(w, [kind |-> "WorkerUnpark", ts |-> 0, worker |-> w, read |-> stat # <<>>, waited |-> waited'[w],
                           wait |-> IF stat = <<>> THEN 0 ELSE SatSub(stat[1], parked_wait[w])])
    /\ UNCHANGED <<tasks, parked_wait>>

Hooks ==
    /\ \E w \in Workers :
          \/ on_before_task_poll(w)
          \/ on_after_task_poll(w)
          \/ on_thread_park(w)
          \/ on_thread_unpark(w)
    /\ UNCHANGED <<scenario, enabled, toggles>>

-----------------------------------------------------------------------------
(* Traced futures and their wakers *)

\* Traced::poll stores the executor's waker and hands its own to the future; while
\* recording is off the future gets the executor's.
poll(w) ==
    /\ stage[w].at = "begun"
    /\ LET t == stage[w].task
       IN  /\ inner' = IF enabled THEN inner \union {t} ELSE inner
           /\ stage' = [stage EXCEPT ![w] = [at |-> "polling", task |-> t,
                                             waker |-> IF enabled THEN "traced" ELSE "plain"]]
    /\ UNCHANGED <<notified, done, source, signalled, waking>>

\* external: the future takes what its channels have and is done, or leaves its
\* waker with all of them
InnerPoll(w) ==
    /\ stage[w].at = "polling"
    /\ LET t == stage[w].task
           mine == {t} \X scenario.channels
       IN  /\ signalled' = signalled \ mine
           /\ \/ done' = done /\ source' = [c \in DOMAIN source |-> IF c \in mine THEN stage[w].waker ELSE source[c]]
              \/ /\ mine \cap signalled # {} /\ done' = done \union {t}
                 /\ source' = [c \in DOMAIN source |-> IF c \in mine THEN None ELSE source[c]]
           /\ stage' = [stage EXCEPT ![w] = [at |-> "polled", task |-> t]]
    /\ UNCHANGED <<notified, inner, waking>>

\* A thread that may send: a worker in a poll or in the I/O driver while it is parked,
\* or another thread.
MaySend(th) ==
    /\ waking[th] = None
    /\ th \in Workers => stage[th].at \in {"polling", "polled", "parked"}

\* external: a channel gets something and takes the waker it holds.  A plain waker
\* schedules the task.
Signal(th) ==
    \E c \in (Tasks \ done) \X scenario.channels :
        /\ MaySend(th) /\ c \notin signalled /\ source[c] # "traced"
        /\ signalled' = signalled \union {c} /\ source' = [source EXCEPT ![c] = None]
        /\ notified' = IF source[c] = "plain" THEN notified \union {c[1]} ELSE notified
        /\ UNCHANGED <<done, inner, waking, stage, recorded>>

WakeEvent(th, t) == [kind |-> "Wake", ts |-> 0, task |-> t, worker |-> th]

\* A traced waker records the event first.
wake_by_ref(th) ==
    \E c \in (Tasks \ done) \X scenario.channels :
        /\ MaySend(th) /\ c \notin signalled /\ source[c] = "traced"
        /\ signalled' = signalled \union {c} /\ source' = [source EXCEPT ![c] = None]
        /\ record_event(th, WakeEvent(th, c[1]))
        /\ waking' = [waking EXCEPT ![th] = c[1]]
        /\ UNCHANGED <<notified, done, inner, stage>>

\* variant: nothing is forwarded while recording is off
inner_wake_if_enabled(th) ==
    /\ waking[th] # None /\ waking' = [waking EXCEPT ![th] = None]
    /\ notified' = IF waking[th] \in inner /\ enabled THEN notified \union {waking[th]} ELSE notified
    /\ inner' = inner \ {waking[th]}
    /\ UNCHANGED <<done, source, signalled, stage, recorded>>

\* inner.wake() takes the executor's waker, if it is there
inner_wake(th) ==
    /\ waking[th] # None /\ waking' = [waking EXCEPT ![th] = None]
    /\ notified' = IF waking[th] \in inner THEN notified \union {waking[th]} ELSE notified
    /\ inner' = inner \ {waking[th]}
    /\ UNCHANGED <<done, source, signalled, stage, recorded>>

Futures ==
    /\ \/ \E w \in Workers : (poll(w) \/ InnerPoll(w)) /\ UNCHANGED recorded
       \/ \E th \in Threads : Signal(th) \/ wake_by_ref(th) \/ inner_wake(th)
    /\ UNCHANGED <<scenario, enabled, sched, toggles>>

-----------------------------------------------------------------------------
Next == Hooks \/ Futures \/ record_queue_sample \/ SetEnabled

Spec == Init /\ [][Next]_vars

-----------------------------------------------------------------------------
(* The trace as it is read back: a depth has become a u8, a location the number of  *)
(* its string in the pool of the file.                                              *)

intern_location(loc) ==
    LET locs(n) == {Location[past[trace[i]].task] : i \in {j \in 1 .. n : past[trace[j]].kind = "PollStart"}}
    IN  Cardinality(locs(Min({n \in DOMAIN trace : loc \in locs(n)}) - 1))

write_resolved(e) ==
    CASE e.kind = "PollStart" -> [kind |-> e.kind, ts |-> e.ts, worker |-> e.worker, task |-> e.task,
                                  loc |-> intern_location(Location[e.task])]
      [] e.kind = "WorkerUnpark" -> [kind |-> e.kind, ts |-> e.ts, worker |-> e.worker, wait |-> e.wait]
      [] e.kind = "QueueSample" -> [e EXCEPT !.depth = @ % Byte]
      [] OTHER -> e

\* (The concatenation makes it a tuple, which is computed once.)
events == [i \in DOMAIN trace |-> write_resolved(past[trace[i]])] \o <<>>

-----------------------------------------------------------------------------
(* Properties *)

written == Range(trace)
OfWorker(w, kinds) == {k \in Of(past, kinds) : past[k].worker = w}

\* No task is in two polls, and what is recorded happened.
TypeOK ==
    /\ \A v, w \in Workers : v # w /\ stage[v].at \notin {"idle", "parked"}
                            => stage[w].at \in {"idle", "parked"} \/ stage[w].task # stage[v].task
    /\ inner \subseteq Tasks /\ waking \in [Threads -> Tasks \union {None}]
    /\ \A th \in Threads : Range(buf[th]) \subseteq DOMAIN past
    /\ Cardinality(written) = Len(trace) /\ written \subseteq DOMAIN past

\* A channel that has something for a task never waits for a task that nobody will
\* poll again: the task is scheduled, or being polled and has yet to look, or a
\* thread is about to forward the wake-up to the executor's waker.
NoLostWakeup ==
    \A c \in signalled : LET t == c[1] IN
        t \in done \/ t \in notified
        \/ (\E w \in Workers : stage[w].at \in {"begun", "polling"} /\ stage[w].task = t)
        \/ (t \in inner /\ \E th \in Threads : waking[th] = t)

\* What is reported between two events of a worker is a real poll, park or active
\* period, or one with a gap: all that the worker did in between is missing from the
\* trace.  And every real one whose two ends were written is found.  A delay is no longer
\* than the worker waited for a CPU since the last park at which that could be read.
Genuine(found, open, close) ==
    \A p \in found :
        LET a == trace[p[1]]
            b == trace[p[2]]
        IN  a < b /\ \A k \in OfWorker(past[a].worker, {open, close}) : a < k /\ k < b => k \notin written
Found(found, open, close, Long(_)) ==
    \A q \in Paired(past, open, close) :
        q[1] \in written /\ q[2] \in written /\ Long(q) => \E p \in found : trace[p[1]] = q[1] /\ trace[p[2]] = q[2]
\* what the worker had waited at its last park, up to this one, when it could be read
KnownWait(a) ==
    LET known == {k \in OfWorker(past[a].worker, {"WorkerPark"}) : k <= a /\ past[k].read}
    IN  IF known = {} THEN 0 ELSE past[Max(known)].waited
PeriodsGenuine ==
    /\ LET polls == detect_long_polls(events, Threshold)
       IN  /\ Genuine(polls, "PollStart", "PollEnd")
           /\ Found(polls, "PollStart", "PollEnd", LAMBDA q : Duration(past, q) >= Threshold)
    /\ LET delays == detect_sched_delays(events, Threshold)
       IN  /\ Genuine(delays, "WorkerPark", "WorkerUnpark")
           /\ Found(delays, "WorkerPark", "WorkerUnpark",
                    LAMBDA q : past[q[2]].read /\ past[q[2]].waited - past[q[1]].waited >= Threshold)
           /\ \A p \in delays : events[p[2]].wait <= past[trace[p[2]]].waited - KnownWait(trace[p[1]])
    /\ LET periods == compute_active_periods(events)
       IN  /\ Genuine(periods, "WorkerUnpark", "WorkerPark")
           /\ Found(periods, "WorkerUnpark", "WorkerPark", LAMBDA q : TRUE)

\* When nothing of a worker's polls is missing, its polls are counted and their time
\* adds up; when nothing of any is, so do those of every location but the one with
\* the first string of the pool.
PollTimeAddsUp ==
    LET real == Paired(past, "PollStart", "PollEnd")
        complete(w) == OfWorker(w, {"PollStart", "PollEnd"}) \subseteq written
        at(loc) == {t \in Tasks : Location[t] = loc}
    IN  /\ \A w \in Workers : complete(w) =>
              /\ poll_count(events, w) = Cardinality(OfWorker(w, {"PollStart"}))
              /\ total_poll_time(events, w) = Total(past, {p \in real : past[p[1]].worker = w})
        /\ (\A w \in Workers : complete(w)) =>
              \A i \in Named(events) :
                  LET own == at(Location[past[trace[i]].task])
                      stats == spawn_location_stats(events, events[i].loc)
                  IN  /\ stats.poll_count = Cardinality({k \in Of(past, {"PollStart"}) : past[k].task \in own})
                      /\ stats.total_poll_time = Total(past, {p \in real : past[p[1]].task \in own})

\* When recording was on all the time and no wake or start of a poll is missing, a poll is
\* not measured from a wake that cannot have led to it: the polls of a task up to it are at
\* most one more than the wakes up to the one it is measured from.  (A thread that is slow
\* to forward a wake may cause a poll after another wake's, so one may be used twice.)
WakeDelaysGenuine ==
    enabled /\ toggles = 0 /\ Of(past, {"Wake", "PollStart"}) \subseteq written =>
        \A d \in detect_wake_delays(events, Threshold, Limit) :
            LET t == events[d.poll].task
                polls == {k \in Of(past, {"PollStart"}) : past[k].task = t /\ k <= trace[d.poll]}
                wakes == {k \in Of(past, {"Wake"}) : past[k].task = t /\ k < trace[d.poll] /\ past[k].ts <= d.wake}
            IN  Cardinality(polls) <= 1 + Cardinality(wakes)

\* A park is reported as idle if it was long and the last sample of the queue before
\* its end, read modulo 256, was not empty; samples on the tick of another or of the
\* end of the park leave the choice open.
IdleWorkersFound ==
    written = DOMAIN past =>
        \A q \in {p \in Paired(past, "WorkerPark", "WorkerUnpark") : Duration(past, p) > Threshold} :
            LET samples == Of(past, {"QueueSample"})
                before == {k \in samples : k < q[2]}
                reported == {r[2] : r \in {x \in detect_idle_workers(events, Threshold) : trace[x[1][2]] = q[2]}}
                last == Max(before)
            IN  before # {} /\ (\A j, k \in samples : past[j].ts = past[k].ts => j = k)
                            /\ (\A k \in samples : past[k].ts # past[q[2]].ts)
                    => reported = {past[last].depth % Byte} \ {0}
=============================================================================
