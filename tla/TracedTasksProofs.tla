-------------------------- MODULE TracedTasksProofs --------------------------
(***************************************************************************)
(* Proofs about TracedTasks, for any threads, tasks and channels, any      *)
(* capacity of the buffers and any bounds of the scenarios.                *)
(***************************************************************************)
EXTENDS TracedTasks, FunctionTheorems, FiniteSetTheorems, WellFoundedInduction, TLAPS

-----------------------------------------------------------------------------
(* The invariants *)

Stages == {Idle, Parked} \union [at : {"begun", "polled"}, task : Tasks]
          \union [at : {"polling"}, task : Tasks, waker : {"traced", "plain"}]
Channel == Tasks \X scenario.channels

Polls == [kind : {"PollStart"}, ts : Nat, worker : Workers, task : Tasks]
         \union [kind : {"PollEnd"}, ts : Nat, worker : Workers]
Parks == [kind : {"WorkerPark"}, ts : Nat, worker : Workers, read : BOOLEAN, waited : Nat]
Unparks == [kind : {"WorkerUnpark"}, ts : Nat, worker : Workers, read : BOOLEAN, waited : Nat, wait : Nat]
Samples == [kind : {"QueueSample"}, ts : Nat, depth : Depths]
Wakes == [kind : {"Wake"}, ts : Nat, task : Tasks, worker : Threads]
Events == Polls \union Parks \union Unparks \union Samples \union Wakes

\* The states of the tasks, the workers and their wakers.
TaskType ==
    /\ scenario \in Scenarios /\ enabled \in BOOLEAN /\ toggles \in Nat
    /\ stage \in [Workers -> Stages]
    /\ notified \subseteq Tasks /\ done \subseteq Tasks /\ inner \subseteq Tasks
    /\ source \in [Channel -> {None, "plain", "traced"}] /\ signalled \subseteq Channel
    /\ waking \in [Threads -> Tasks \union {None}]
    /\ waited \in [Workers -> Nat] /\ parked_wait \in [Workers -> Nat]

\* What has been recorded.
RecordType ==
    /\ clock \in Nat
    /\ past \in Seq(Events)
    /\ trace \in Seq(Nat)
    /\ buf \in [Threads -> Seq(Nat)]

-----------------------------------------------------------------------------
(* What an action does to what is recorded *)

\* An event of a thread happens and is put into the buffer of the thread, if anywhere.
Puts(th, e) ==
    /\ e \in Events /\ e.kind # "QueueSample" /\ e.worker = th /\ e.ts = clock'
    /\ clock' \in Nat /\ clock <= clock'
    /\ past' = Append(past, e)
    /\ LET batch == Append(buf[th], Len(past) + 1)
       IN  \/ UNCHANGED <<buf, trace>>
           \/ buf' = [buf EXCEPT ![th] = batch] /\ UNCHANGED trace
           \/ buf' = [buf EXCEPT ![th] = <<>>] /\ trace' \in {trace, trace \o batch}

\* The queue is sampled.
Takes(e) ==
    /\ e \in Samples /\ e.ts = clock'
    /\ clock' \in Nat /\ clock <= clock'
    /\ past' = Append(past, e)
    /\ UNCHANGED buf /\ trace' \in {trace, trace \o <<Len(past) + 1>>}

LEMMA EventPut ==
    ASSUME TaskType, RecordType, NEW th \in Threads, NEW e \in Events, e.kind # "QueueSample", e.worker = th,
           record_event(th, e)
    PROVE  \E t \in Nat : Puts(th, [e EXCEPT !.ts = t])
<1>1. clock' \in Nat /\ clock <= clock' /\ past' = Append(past, [e EXCEPT !.ts = clock'])
  BY DEF record_event, Happens, RecordType
<1> DEFINE f == [e EXCEPT !.ts = clock']
<1>2. f \in Events /\ f.kind # "QueueSample" /\ f.worker = th /\ f.ts = clock'
  BY <1>1 DEF Events, Polls, Parks, Unparks, Samples, Wakes
<1>3. LET batch == Append(buf[th], Len(past) + 1)
      IN  \/ UNCHANGED <<buf, trace>>
          \/ buf' = [buf EXCEPT ![th] = batch] /\ UNCHANGED trace
          \/ buf' = [buf EXCEPT ![th] = <<>>] /\ trace' \in {trace, trace \o batch}
  BY DEF record_event, HandOver
<1> HIDE DEF f
<1>4. Puts(th, f)
  BY <1>1, <1>2, <1>3 DEF Puts, f
<1> QED BY <1>1, <1>4 DEF f

BeforePoll(w, t) ==
    /\ stage[w] = Idle /\ t \in notified \ (done \union Polled)
    /\ notified' = notified \ {t}
    /\ stage' = [stage EXCEPT ![w] = [at |-> "begun", task |-> t]]
    /\ UNCHANGED <<done, inner, source, signalled, waking, sched>>
LEMMA PollStarts ==
    ASSUME TaskType, RecordType, NEW w \in Workers, on_before_task_poll(w)
    PROVE  \E t \in Tasks, ts \in Nat :
              /\ Puts(w, [kind |-> "PollStart", ts |-> ts, worker |-> w, task |-> t])
              /\ BeforePoll(w, t)
<1>1. PICK t \in notified \ (done \union Polled) :
          /\ record_event(w, [kind |-> "PollStart", ts |-> 0, worker |-> w, task |-> t])
          /\ BeforePoll(w, t)
  BY DEF on_before_task_poll, BeforePoll
<1> DEFINE e == [kind |-> "PollStart", ts |-> 0, worker |-> w, task |-> t]
<1>2. t \in Tasks /\ w \in Threads /\ e \in Events /\ e.kind # "QueueSample" /\ e.worker = w
  BY DEF TaskType, Threads, Events, Polls
<1>3. PICK ts \in Nat : Puts(w, [e EXCEPT !.ts = ts])
  <2> HIDE DEF e
  <2> QED BY <1>1, <1>2, EventPut DEF e
<1>4. [e EXCEPT !.ts = ts] = [kind |-> "PollStart", ts |-> ts, worker |-> w, task |-> t]
  OBVIOUS
<1> QED BY <1>1, <1>2, <1>3, <1>4

LEMMA PollEnds ==
    ASSUME TaskType, RecordType, NEW w \in Workers, on_after_task_poll(w)
    PROVE  \E ts \in Nat : Puts(w, [kind |-> "PollEnd", ts |-> ts, worker |-> w])
<1> DEFINE e == [kind |-> "PollEnd", ts |-> 0, worker |-> w]
<1>2. w \in Threads /\ e \in Events /\ e.kind # "QueueSample" /\ e.worker = w
  BY DEF Threads, Events, Polls
<1>3. PICK ts \in Nat : Puts(w, [e EXCEPT !.ts = ts])
  <2>1. record_event(w, e)
    BY DEF on_after_task_poll
  <2> HIDE DEF e
  <2> QED BY <2>1, <1>2, EventPut
<1>4. [e EXCEPT !.ts = ts] = [kind |-> "PollEnd", ts |-> ts, worker |-> w]
  OBVIOUS
<1> QED BY <1>3, <1>4

LEMMA WaitsMore ==
    ASSUME TaskType, NEW w \in Workers, Waits(w)
    PROVE  /\ waited' \in [Workers -> Nat] /\ waited[w] <= waited'[w]
           /\ \A v \in Workers : v # w => waited'[v] = waited[v]
<1>1. PICK more \in 0 .. scenario.waits : waited' = [waited EXCEPT ![w] = @ + more]
  BY DEF Waits
<1>2. more \in Nat
  BY <1>1
<1> QED BY <1>1, <1>2 DEF TaskType

ParkStat(w, read) == parked_wait' = IF read THEN [parked_wait EXCEPT ![w] = waited'[w]] ELSE parked_wait
LEMMA ParkPut ==
    ASSUME TaskType, RecordType, NEW w \in Workers, on_thread_park(w)
    PROVE  \E read \in BOOLEAN, ts \in Nat :
              /\ Puts(w, [kind |-> "WorkerPark", ts |-> ts, worker |-> w, read |-> read, waited |-> waited'[w]])
              /\ ParkStat(w, read)
<1>1. PICK stat \in read_current(w) :
         /\ parked_wait' = IF stat = <<>> THEN parked_wait ELSE [parked_wait EXCEPT ![w] = stat[1]]
         /\ record_event(w, [kind |-> "WorkerPark", ts |-> 0, worker |-> w, read |-> stat # <<>>, waited |-> waited'[w]])
  BY DEF on_thread_park
<1> DEFINE read == stat # <<>>
           e == [kind |-> "WorkerPark", ts |-> 0, worker |-> w, read |-> read, waited |-> waited'[w]]
<1>2. waited'[w] \in Nat
  BY WaitsMore DEF on_thread_park
<1>3. w \in Threads /\ e \in Events /\ e.kind # "QueueSample" /\ e.worker = w /\ read \in BOOLEAN
  BY <1>2 DEF Threads, Events, Parks
<1>4. ParkStat(w, read)
  <2>1. stat = <<waited'[w]>> \/ stat = <<>>
    BY <1>1 DEF read_current
  <2>2. CASE stat = <<>>
    BY <1>1, <2>2 DEF ParkStat
  <2>3. CASE stat = <<waited'[w]>>
    <3>1. stat # <<>> /\ stat[1] = waited'[w]
      BY <2>3
    <3> QED BY <1>1, <3>1 DEF ParkStat
  <2> QED BY <2>1, <2>2, <2>3
<1>5. PICK ts \in Nat : Puts(w, [e EXCEPT !.ts = ts])
  <2>1. record_event(w, e)
    BY <1>1
  <2> HIDE DEF e
  <2> QED BY <2>1, <1>3, EventPut
<1>6. [e EXCEPT !.ts = ts] = [kind |-> "WorkerPark", ts |-> ts, worker |-> w, read |-> read, waited |-> waited'[w]]
  OBVIOUS
<1> HIDE DEF read, e
<1> QED BY <1>3, <1>4, <1>5, <1>6

LEMMA UnparkPut ==
    ASSUME TaskType, RecordType, NEW w \in Workers, on_thread_unpark(w)
    PROVE  \E read \in BOOLEAN, ts \in Nat :
              Puts(w, [kind |-> "WorkerUnpark", ts |-> ts, worker |-> w, read |-> read, waited |-> waited'[w],
                       wait |-> IF read THEN SatSub(waited'[w], parked_wait[w]) ELSE 0])
<1>1. PICK stat \in read_current(w) :
         record_event(w, [kind |-> "WorkerUnpark", ts |-> 0, worker |-> w, read |-> stat # <<>>, waited |-> waited'[w],
                          wait |-> IF stat = <<>> THEN 0 ELSE SatSub(stat[1], parked_wait[w])])
  BY DEF on_thread_unpark
<1> DEFINE read == stat # <<>>
           wait == IF read THEN SatSub(waited'[w], parked_wait[w]) ELSE 0
           e == [kind |-> "WorkerUnpark", ts |-> 0, worker |-> w, read |-> read, waited |-> waited'[w], wait |-> wait]
<1>2. waited'[w] \in Nat
  BY WaitsMore DEF on_thread_unpark
<1>3. wait = IF stat = <<>> THEN 0 ELSE SatSub(stat[1], parked_wait[w])
  <2>1. stat = <<waited'[w]>> \/ stat = <<>>
    BY <1>1 DEF read_current
  <2>2. CASE stat = <<>>
    BY <2>2
  <2>3. CASE stat = <<waited'[w]>>
    <3>1. stat # <<>> /\ stat[1] = waited'[w]
      BY <2>3
    <3> QED BY <3>1
  <2> QED BY <2>1, <2>2, <2>3
<1>4. wait \in Nat
  BY <1>2 DEF TaskType, SatSub
<1>5. record_event(w, e)
  BY <1>1, <1>3
<1> HIDE DEF wait
<1>6. w \in Threads /\ e \in Events /\ e.kind # "QueueSample" /\ e.worker = w /\ read \in BOOLEAN
  BY <1>2, <1>4 DEF Threads, Events, Unparks
<1>7. PICK ts \in Nat : Puts(w, [e EXCEPT !.ts = ts])
  <2> HIDE DEF e
  <2> QED BY <1>5, <1>6, EventPut
<1>8. [e EXCEPT !.ts = ts] = [kind |-> "WorkerUnpark", ts |-> ts, worker |-> w, read |-> read, waited |-> waited'[w],
                              wait |-> wait]
  OBVIOUS
<1> HIDE DEF read, e
<1> QED BY <1>6, <1>7, <1>8 DEF wait

WakeOf(th, c) ==
    /\ c \in Channel /\ c \notin signalled /\ source[c] = "traced" /\ c[1] \in Tasks \ done
    /\ signalled' = signalled \union {c} /\ source' = [source EXCEPT ![c] = None]
    /\ waking[th] = None /\ waking' = [waking EXCEPT ![th] = c[1]]
    /\ UNCHANGED <<notified, done, inner, stage>>
LEMMA WakePut ==
    ASSUME TaskType, RecordType, NEW th \in Threads, wake_by_ref(th)
    PROVE  \E c \in Channel, ts \in Nat :
              /\ Puts(th, [kind |-> "Wake", ts |-> ts, task |-> c[1], worker |-> th])
              /\ WakeOf(th, c)
<1>1. PICK c \in (Tasks \ done) \X scenario.channels :
         /\ MaySend(th) /\ c \notin signalled /\ source[c] = "traced"
         /\ signalled' = signalled \union {c} /\ source' = [source EXCEPT ![c] = None]
         /\ record_event(th, WakeEvent(th, c[1]))
         /\ waking' = [waking EXCEPT ![th] = c[1]]
         /\ UNCHANGED <<notified, done, inner, stage>>
  BY DEF wake_by_ref
<1>2. c \in Channel /\ c[1] \in Tasks \ done
  BY DEF Channel
<1>3. WakeOf(th, c)
  BY <1>1, <1>2 DEF WakeOf, MaySend
<1> DEFINE t == c[1]
           e == [kind |-> "Wake", ts |-> 0, task |-> t, worker |-> th]
<1>4. t \in Tasks /\ record_event(th, e)
  BY <1>1, <1>2 DEF WakeEvent
<1> HIDE DEF t
<1>5. e \in Events /\ e.kind # "QueueSample" /\ e.worker = th
  BY <1>4 DEF Events, Wakes
<1>6. PICK ts \in Nat : Puts(th, [e EXCEPT !.ts = ts])
  <2> HIDE DEF e
  <2> QED BY <1>4, <1>5, EventPut
<1>7. [e EXCEPT !.ts = ts] = [kind |-> "Wake", ts |-> ts, task |-> t, worker |-> th]
  OBVIOUS
<1> HIDE DEF e
<1> QED BY <1>2, <1>3, <1>6, <1>7 DEF t

LEMMA SampleTaken ==
    ASSUME TaskType, RecordType, record_queue_sample
    PROVE  \E e \in Samples : Takes(e)
<1>1. PICK depth \in Depths : Happens([kind |-> "QueueSample", ts |-> 0, depth |-> depth])
  BY DEF record_queue_sample
<1> DEFINE e == [kind |-> "QueueSample", ts |-> clock', depth |-> depth]
<1>2. clock' \in Nat /\ clock <= clock'
  BY <1>1 DEF Happens, RecordType
<1>3. past' = Append(past, e)
  BY <1>1 DEF Happens
<1>4. e \in Samples /\ e.ts = clock'
  BY <1>2 DEF Samples
<1>5. UNCHANGED buf /\ trace' \in {trace, trace \o <<Len(past')>>}
  BY DEF record_queue_sample, HandOver
<1> HIDE DEF e
<1>6. e \in Events
  BY <1>4 DEF Events
<1>7. Len(past') = Len(past) + 1
  BY <1>3, <1>6 DEF RecordType
<1> QED BY <1>2, <1>3, <1>4, <1>5, <1>7 DEF Takes

\* A step records an event of a thread, a sample of the queue or nothing.
Recording == (\E th \in Threads, e \in Events : Puts(th, e)) \/ (\E e \in Samples : Takes(e)) \/ UNCHANGED <<clock, past, buf, trace>>
LEMMA StepRecords ==
    ASSUME TaskType, RecordType, [Next]_vars
    PROVE  Recording
<1>1. ASSUME NEW th \in Threads, NEW e, Puts(th, e) PROVE Recording
  BY <1>1 DEF Recording, Puts
<1>2. ASSUME NEW w \in Workers, on_before_task_poll(w) PROVE Recording
  BY <1>1, <1>2, PollStarts DEF Threads
<1>3. ASSUME NEW w \in Workers, on_after_task_poll(w) PROVE Recording
  BY <1>1, <1>3, PollEnds DEF Threads
<1>4. ASSUME NEW w \in Workers, on_thread_park(w) PROVE Recording
  BY <1>1, <1>4, ParkPut DEF Threads
<1>5. ASSUME NEW w \in Workers, on_thread_unpark(w) PROVE Recording
  BY <1>1, <1>5, UnparkPut DEF Threads
<1>6. ASSUME NEW th \in Threads, wake_by_ref(th) PROVE Recording
  BY <1>1, <1>6, WakePut
<1>7. CASE record_queue_sample
  BY <1>7, SampleTaken DEF Recording
<1>8. CASE Hooks
  BY <1>8, <1>2, <1>3, <1>4, <1>5 DEF Hooks
<1>9. CASE Futures
  BY <1>9, <1>6 DEF Futures, poll, InnerPoll, Signal, inner_wake, recorded, Recording
<1>10. CASE SetEnabled \/ UNCHANGED vars
  BY <1>10 DEF SetEnabled, vars, recorded, Recording
<1> QED BY <1>7, <1>8, <1>9, <1>10 DEF Next

-----------------------------------------------------------------------------
(* Types *)

LEMMA TaskInit == Init => TaskType
<1> SUFFICES ASSUME Init PROVE TaskType
  OBVIOUS
<1>1. scenario \in Scenarios /\ enabled \in BOOLEAN /\ toggles \in Nat
  BY DEF Init
<1>2. stage \in [Workers -> Stages]
  BY DEF Init, Stages
<1>3. notified \subseteq Tasks /\ done \subseteq Tasks /\ inner \subseteq Tasks
  BY DEF Init, kSubset
<1>4. source \in [Channel -> {None, "plain", "traced"}] /\ signalled \subseteq Channel
  BY DEF Init, Channel
<1>5. waking \in [Threads -> Tasks \union {None}] /\ waited \in [Workers -> Nat] /\ parked_wait \in [Workers -> Nat]
  BY DEF Init
<1> QED BY <1>1, <1>2, <1>3, <1>4, <1>5 DEF TaskType

LEMMA RecordInit == Init => RecordType
  BY DEF Init, RecordType

LEMMA TaskNext == TaskType /\ RecordType /\ [Next]_vars => TaskType'
<1> SUFFICES ASSUME TaskType, RecordType, [Next]_vars PROVE TaskType'
  OBVIOUS
<1> USE DEF TaskType
<1>1. ASSUME NEW w \in Workers, on_before_task_poll(w), UNCHANGED <<scenario, enabled, toggles>> PROVE TaskType'
  <2>1. PICK t \in Tasks : BeforePoll(w, t)
    BY <1>1, PollStarts
  <2>2. [at |-> "begun", task |-> t] \in Stages
    BY DEF Stages
  <2> QED BY <1>1, <2>1, <2>2 DEF BeforePoll, Channel, sched
<1>2. ASSUME NEW w \in Workers, on_after_task_poll(w), UNCHANGED <<scenario, enabled, toggles>> PROVE TaskType'
  <2>1. Idle \in Stages
    BY DEF Stages
  <2> QED BY <1>2, <2>1 DEF on_after_task_poll, Channel, tasks, sched
<1>3. ASSUME NEW w \in Workers, on_thread_park(w), UNCHANGED <<scenario, enabled, toggles>> PROVE TaskType'
  <2>1. Parked \in Stages
    BY DEF Stages
  <2>2. waited' \in [Workers -> Nat]
    BY <1>3, WaitsMore DEF on_thread_park
  <2>3. PICK read \in BOOLEAN : ParkStat(w, read)
    BY <1>3, ParkPut
  <2>4. parked_wait' \in [Workers -> Nat]
    BY <2>2, <2>3 DEF ParkStat
  <2> QED BY <1>3, <2>1, <2>2, <2>4 DEF on_thread_park, Channel, tasks
<1>4. ASSUME NEW w \in Workers, on_thread_unpark(w), UNCHANGED <<scenario, enabled, toggles>> PROVE TaskType'
  <2>1. Idle \in Stages
    BY DEF Stages
  <2>2. waited' \in [Workers -> Nat]
    BY <1>4, WaitsMore DEF on_thread_unpark
  <2> QED BY <1>4, <2>1, <2>2 DEF on_thread_unpark, Channel, tasks
<1>5. ASSUME NEW w \in Workers, poll(w), UNCHANGED <<scenario, enabled, sched, toggles>> PROVE TaskType'
  <2>1. stage[w].at = "begun" /\ stage[w].task \in Tasks
    BY <1>5 DEF poll, Stages, Idle, Parked
  <2>2. stage' = [stage EXCEPT ![w] = [at |-> "polling", task |-> stage[w].task,
                                       waker |-> IF enabled THEN "traced" ELSE "plain"]]
    BY <1>5 DEF poll
  <2>3. stage' \in [Workers -> Stages]
    BY <2>1, <2>2 DEF Stages
  <2> QED BY <1>5, <2>1, <2>3 DEF poll, Channel, sched
<1>6. ASSUME NEW w \in Workers, InnerPoll(w), UNCHANGED <<scenario, enabled, sched, toggles>> PROVE TaskType'
  <2>1. stage[w].at = "polling" /\ stage[w].task \in Tasks /\ stage[w].waker \in {"traced", "plain"}
    BY <1>6 DEF InnerPoll, Stages, Idle, Parked
  <2>2. stage' \in [Workers -> Stages]
    BY <1>6, <2>1 DEF InnerPoll, Stages
  <2>3. source' \in [Channel -> {None, "plain", "traced"}]
    BY <1>6, <2>1 DEF InnerPoll, Channel
  <2> QED BY <1>6, <2>1, <2>2, <2>3 DEF InnerPoll, Channel, sched
<1>7. ASSUME NEW th \in Threads, Signal(th), UNCHANGED <<scenario, enabled, sched, toggles>> PROVE TaskType'
  BY <1>7 DEF Signal, Channel, sched
<1>8. ASSUME NEW th \in Threads, wake_by_ref(th), UNCHANGED <<scenario, enabled, sched, toggles>> PROVE TaskType'
  <2>1. PICK c \in Channel : WakeOf(th, c)
    BY <1>8, WakePut
  <2> QED BY <1>8, <2>1 DEF WakeOf, Channel, sched
<1>9. ASSUME NEW th \in Threads, inner_wake(th), UNCHANGED <<scenario, enabled, sched, toggles>> PROVE TaskType'
  BY <1>9 DEF inner_wake, Channel, sched
<1>10. CASE record_queue_sample
  BY <1>10 DEF record_queue_sample, Channel, tasks, sched
<1>11. CASE SetEnabled
  BY <1>11 DEF SetEnabled, Channel, tasks, sched
<1>12. CASE UNCHANGED vars
  BY <1>12 DEF vars, Channel, tasks, sched
<1> QED BY <1>1, <1>2, <1>3, <1>4, <1>5, <1>6, <1>7, <1>8, <1>9, <1>10, <1>11, <1>12 DEF Next, Hooks, Futures

LEMMA RecordNext == RecordType /\ Recording => RecordType'
<1> SUFFICES ASSUME RecordType, Recording PROVE RecordType'
  OBVIOUS
<1> USE DEF RecordType
<1>1. ASSUME NEW th \in Threads, NEW e, Puts(th, e) PROVE RecordType'
  <2>1. Append(buf[th], Len(past) + 1) \in Seq(Nat) /\ trace \o Append(buf[th], Len(past) + 1) \in Seq(Nat)
    OBVIOUS
  <2>2. <<>> \in Seq(Nat)
    OBVIOUS
  <2>3. buf' \in [Threads -> Seq(Nat)] /\ trace' \in Seq(Nat)
    BY <1>1, <2>1, <2>2 DEF Puts
  <2>4. past' \in Seq(Events) /\ clock' \in Nat
    BY <1>1 DEF Puts
  <2> QED BY <2>3, <2>4
<1>2. ASSUME NEW e, Takes(e) PROVE RecordType'
  <2>1. trace \o <<Len(past) + 1>> \in Seq(Nat)
    OBVIOUS
  <2>2. past' \in Seq(Events)
    BY <1>2 DEF Takes, Events
  <2> QED BY <1>2, <2>1, <2>2 DEF Takes
<1> QED BY <1>1, <1>2 DEF Recording

-----------------------------------------------------------------------------
(* Tasks and wake-ups *)

\* A task is polled by one worker at a time.
InPoll(w) == stage[w].at \in {"begun", "polling", "polled"}
Alone == \A v, w \in Workers : InPoll(v) /\ InPoll(w) /\ stage[v].task = stage[w].task => v = w

\* A task will look at its channels, or a thread is about to have it polled.
Looks(t) == \E w \in Workers : stage[w].at \in {"begun", "polling"} /\ stage[w].task = t
Scheduled(t) == t \in done \/ t \in notified \/ Looks(t)
Forwarded(t) == t \in inner /\ \E th \in Threads : waking[th] = t

\* A channel that has something or no waker has told its task; the waker of a channel
\* and that of a poll lead to the executor's.
Told == \A c \in Channel : c \in signalled \/ source[c] = None => Scheduled(c[1]) \/ Forwarded(c[1])
Armed == \A c \in Channel : source[c] = "traced" => Scheduled(c[1]) \/ c[1] \in inner
Handed == \A w \in Workers : stage[w].at = "polling" /\ stage[w].waker = "traced" => stage[w].task \in inner \union notified
Listening == Told /\ Armed /\ Handed

LEMMA StageFacts ==
    ASSUME TaskType, NEW w \in Workers
    PROVE  /\ stage[w].at \in {"idle", "parked", "begun", "polling", "polled"}
           /\ InPoll(w) => stage[w].task \in Tasks
           /\ stage[w].at = "polling" => stage[w].waker \in {"traced", "plain"}
  BY DEF TaskType, Stages, Idle, Parked, InPoll

LEMMA PolledFacts == TaskType => Polled = {stage[w].task : w \in {v \in Workers : InPoll(v)}}
  BY StageFacts DEF Polled, InPoll

LEMMA AloneInit == Init => Alone
  BY DEF Init, Alone, InPoll, Idle, Parked

LEMMA AloneNext == TaskType /\ RecordType /\ Alone /\ [Next]_vars => Alone'
<1> SUFFICES ASSUME TaskType, RecordType, Alone, [Next]_vars PROVE Alone'
  OBVIOUS
<1>1. ASSUME NEW w \in Workers, on_before_task_poll(w) PROVE Alone'
  <2>1. PICK t \in Tasks : BeforePoll(w, t)
    BY <1>1, PollStarts
  <2>2. stage' = [stage EXCEPT ![w] = [at |-> "begun", task |-> t]] /\ t \notin Polled
    BY <2>1 DEF BeforePoll
  <2>3. \A v \in Workers : v # w => stage'[v] = stage[v] /\ (InPoll(v) => stage[v].task # t)
    BY <2>2, PolledFacts DEF TaskType
  <2>4. stage'[w].task = t /\ InPoll(w)'
    BY <2>2 DEF TaskType, InPoll
  <2> QED BY <2>3, <2>4 DEF Alone, InPoll
<1>2. ASSUME NEW w \in Workers, on_after_task_poll(w) \/ on_thread_park(w) \/ on_thread_unpark(w) PROVE Alone'
  <2>1. stage' \in {[stage EXCEPT ![w] = Idle], [stage EXCEPT ![w] = Parked]}
    BY <1>2 DEF on_after_task_poll, on_thread_park, on_thread_unpark
  <2>2. ~InPoll(w)' /\ \A v \in Workers : v # w => stage'[v] = stage[v]
    BY <2>1 DEF TaskType, InPoll, Idle, Parked
  <2> QED BY <2>2 DEF Alone, InPoll
<1>3. ASSUME NEW w \in Workers, poll(w) \/ InnerPoll(w) PROVE Alone'
  <2>1. /\ InPoll(w) /\ stage'[w].task = stage[w].task
        /\ \A v \in Workers : v # w => stage'[v] = stage[v]
    BY <1>3 DEF poll, InnerPoll, TaskType, InPoll
  <2> QED BY <2>1 DEF Alone, InPoll
<1>4. CASE UNCHANGED stage
  BY <1>4 DEF Alone, InPoll
<1>5. ASSUME NEW th \in Threads, wake_by_ref(th) PROVE UNCHANGED stage
  BY <1>5 DEF wake_by_ref
<1> QED BY <1>1, <1>2, <1>3, <1>4, <1>5
        DEF Next, Hooks, Futures, Signal, inner_wake, record_queue_sample, SetEnabled, vars

LEMMA ListeningInit == Init => Listening
<1> SUFFICES ASSUME Init PROVE Listening
  OBVIOUS
<1>1. \A c \in Channel : c[1] \in Tasks /\ source[c] = None /\ c \notin signalled
  BY DEF Init, Channel
<1>2. \A t \in Tasks : t \in done \/ t \in notified
  BY DEF Init
<1>3. \A w \in Workers : stage[w].at # "polling"
  BY DEF Init, Idle, Parked
<1> QED BY <1>1, <1>2, <1>3 DEF Listening, Told, Armed, Handed, Scheduled, None

LEMMA ListeningNext == TaskType /\ RecordType /\ Alone /\ Listening /\ [Next]_vars => Listening'
<1> SUFFICES ASSUME TaskType, RecordType, Alone, Listening, [Next]_vars PROVE Listening'
  OBVIOUS
<1>c. \A c \in Channel : c[1] \in Tasks
  BY DEF Channel
<1>s. UNCHANGED scenario => Channel' = Channel
  BY DEF Channel
<1>1. ASSUME NEW w \in Workers, on_before_task_poll(w), UNCHANGED scenario PROVE Listening'
  <2>1. PICK t \in Tasks : BeforePoll(w, t)
    BY <1>1, PollStarts
  <2>2. stage[w].at = "idle" /\ t \notin Polled /\ notified' = notified \ {t} /\ t \in notified
        /\ UNCHANGED <<done, inner, source, signalled, waking>>
    BY <2>1 DEF BeforePoll, Idle
  <2>3. /\ stage'[w].at = "begun" /\ stage'[w].task = t
        /\ \A v \in Workers : v # w => stage'[v] = stage[v] /\ (InPoll(v) => stage[v].task # t)
    BY <2>1, PolledFacts DEF BeforePoll, TaskType
  <2>4. \A u \in Tasks : Scheduled(u) => Scheduled(u)'
    BY <2>2, <2>3 DEF Scheduled, Looks
  <2>5. \A u \in Tasks : Forwarded(u) => Forwarded(u)'
    BY <2>2 DEF Forwarded
  <2>6. Told' /\ Armed'
    BY <1>1, <1>c, <1>s, <2>2, <2>4, <2>5 DEF Listening, Told, Armed
  <2>7. Handed'
    BY <2>2, <2>3 DEF Listening, Handed, InPoll
  <2> QED BY <2>6, <2>7 DEF Listening
<1>2. ASSUME NEW w \in Workers, on_after_task_poll(w) \/ on_thread_park(w) \/ on_thread_unpark(w), UNCHANGED scenario
      PROVE Listening'
  <2>1. /\ stage' \in {[stage EXCEPT ![w] = Idle], [stage EXCEPT ![w] = Parked]}
        /\ stage[w].at \notin {"begun", "polling"} /\ UNCHANGED tasks
    BY <1>2 DEF on_after_task_poll, on_thread_park, on_thread_unpark, Idle, Parked
  <2>2. stage'[w].at \notin {"begun", "polling"} /\ \A v \in Workers : v # w => stage'[v] = stage[v]
    BY <2>1 DEF TaskType, Idle, Parked
  <2>3. \A u \in Tasks : Scheduled(u) => Scheduled(u)'
    BY <2>1, <2>2 DEF Scheduled, Looks, tasks
  <2>4. \A u \in Tasks : Forwarded(u) => Forwarded(u)'
    BY <2>1 DEF Forwarded, tasks
  <2>5. Told' /\ Armed'
    BY <1>2, <1>c, <1>s, <2>1, <2>3, <2>4 DEF Listening, Told, Armed, tasks
  <2>6. Handed'
    BY <2>1, <2>2 DEF Listening, Handed, tasks
  <2> QED BY <2>5, <2>6 DEF Listening
<1>3. ASSUME NEW w \in Workers, poll(w), UNCHANGED scenario PROVE Listening'
  <2> DEFINE t == stage[w].task
  <2>1. /\ stage[w].at = "begun" /\ inner' = (IF enabled THEN inner \union {t} ELSE inner)
        /\ stage' = [stage EXCEPT ![w] = [at |-> "polling", task |-> t, waker |-> IF enabled THEN "traced" ELSE "plain"]]
        /\ UNCHANGED <<notified, done, source, signalled, waking>>
    BY <1>3 DEF poll
  <2>2. /\ stage'[w].at = "polling" /\ stage'[w].task = t /\ (stage'[w].waker = "traced" => t \in inner')
        /\ \A v \in Workers : v # w => stage'[v] = stage[v]
    BY <2>1 DEF TaskType
  <2>3. inner \subseteq inner'
    BY <2>1
  <2> HIDE DEF t
  <2>4. \A u \in Tasks : Scheduled(u) => Scheduled(u)'
    BY <2>1, <2>2 DEF Scheduled, Looks, t
  <2>5. \A u \in Tasks : Forwarded(u) => Forwarded(u)'
    BY <2>1, <2>3 DEF Forwarded
  <2>6. Told' /\ Armed'
    BY <1>3, <1>c, <1>s, <2>1, <2>3, <2>4, <2>5 DEF Listening, Told, Armed
  <2>7. Handed'
    BY <2>1, <2>2, <2>3 DEF Listening, Handed
  <2> QED BY <2>6, <2>7 DEF Listening
<1>4. ASSUME NEW w \in Workers, InnerPoll(w), UNCHANGED scenario PROVE Listening'
  <2> DEFINE t == stage[w].task
             mine == {t} \X scenario.channels
  <2>1. /\ stage[w].at = "polling" /\ signalled' = signalled \ mine
        /\ stage' = [stage EXCEPT ![w] = [at |-> "polled", task |-> t]]
        /\ UNCHANGED <<notified, inner, waking>> /\ done \subseteq done'
    BY <1>4 DEF InnerPoll
  <2>2. \A c \in Channel : c \in mine <=> c[1] = t
    BY DEF Channel
  <2>3. \/ \A c \in Channel : source'[c] = IF c[1] = t THEN stage[w].waker ELSE source[c]
        \/ /\ t \in done'
           /\ \A c \in Channel : source'[c] = IF c[1] = t THEN None ELSE source[c]
    BY <1>4, <2>2 DEF InnerPoll, TaskType
  <2>4. /\ stage'[w].at = "polled"
        /\ \A v \in Workers : v # w => stage'[v] = stage[v]
    BY <2>1 DEF TaskType
  <2>5. stage[w].waker \in {"traced", "plain"} /\ (stage[w].waker = "traced" => t \in inner \union notified)
    BY <2>1, StageFacts DEF Listening, Handed
  <2> HIDE DEF t, mine
  <2>6. \A u \in Tasks : u # t => (Scheduled(u) => Scheduled(u)')
    BY <2>1, <2>4 DEF Scheduled, Looks, t
  <2>7. \A u \in Tasks : Forwarded(u) => Forwarded(u)'
    BY <2>1 DEF Forwarded
  <2>8. Told'
    <3> SUFFICES ASSUME NEW c \in Channel, c \in signalled' \/ source'[c] = None
                 PROVE  Scheduled(c[1])' \/ Forwarded(c[1])'
      BY <1>4, <1>s DEF Told
    <3>1. CASE c[1] = t
      <4>1. t \in done'
        BY <3>1, <2>1, <2>2, <2>3, <2>5 DEF None
      <4> QED BY <3>1, <4>1 DEF Scheduled
    <3>2. CASE c[1] # t
      <4>1. c \in signalled \/ source[c] = None
        BY <3>2, <2>1, <2>3
      <4> QED BY <3>2, <4>1, <1>c, <2>6, <2>7 DEF Listening, Told
    <3> QED BY <3>1, <3>2
  <2>9. Armed'
    <3> SUFFICES ASSUME NEW c \in Channel, source'[c] = "traced"
                 PROVE  Scheduled(c[1])' \/ c[1] \in inner'
      BY <1>4, <1>s DEF Armed
    <3>1. CASE c[1] = t
      BY <3>1, <2>1, <2>3, <2>5 DEF Scheduled
    <3>2. CASE c[1] # t
      BY <3>2, <1>c, <2>1, <2>3, <2>6 DEF Listening, Armed
    <3> QED BY <3>1, <3>2
  <2>10. Handed'
    BY <2>1, <2>4 DEF Listening, Handed
  <2> QED BY <2>8, <2>9, <2>10 DEF Listening
<1>5. ASSUME NEW th \in Threads, Signal(th), UNCHANGED scenario PROVE Listening'
  <2>1. PICK c \in (Tasks \ done) \X scenario.channels :
           /\ c \notin signalled /\ source[c] # "traced"
           /\ signalled' = signalled \union {c} /\ source' = [source EXCEPT ![c] = None]
           /\ notified' = IF source[c] = "plain" THEN notified \union {c[1]} ELSE notified
           /\ UNCHANGED <<done, inner, waking, stage>>
    BY <1>5 DEF Signal
  <2>2. c \in Channel
    BY DEF Channel
  <2>3. \A u \in Tasks : Scheduled(u) => Scheduled(u)'
    BY <2>1 DEF Scheduled, Looks
  <2>4. \A u \in Tasks : Forwarded(u) => Forwarded(u)'
    BY <2>1 DEF Forwarded
  <2>5. source[c] \in {None, "plain"}
    BY <2>1, <2>2 DEF TaskType
  <2>6. Scheduled(c[1])' \/ Forwarded(c[1])'
    BY <1>c, <2>1, <2>2, <2>3, <2>4, <2>5 DEF Listening, Told, Scheduled
  <2>7. \A d \in Channel : d # c => source'[d] = source[d] /\ (d \in signalled' <=> d \in signalled)
    BY <2>1 DEF TaskType
  <2>8. Told'
    BY <1>5, <1>c, <1>s, <2>3, <2>4, <2>6, <2>7 DEF Listening, Told
  <2>9. source'[c] # "traced"
    BY <2>1, <2>2 DEF TaskType, None
  <2>10. Armed'
    BY <1>5, <1>c, <1>s, <2>1, <2>3, <2>7, <2>9 DEF Listening, Armed
  <2>11. Handed'
    BY <2>1 DEF Listening, Handed
  <2> QED BY <2>8, <2>10, <2>11 DEF Listening
<1>6. ASSUME NEW th \in Threads, wake_by_ref(th), UNCHANGED scenario PROVE Listening'
  <2>1. PICK c \in Channel : WakeOf(th, c)
    BY <1>6, WakePut
  <2>2. /\ source[c] = "traced" /\ signalled' = signalled \union {c} /\ source' = [source EXCEPT ![c] = None]
        /\ waking[th] = None /\ waking' = [waking EXCEPT ![th] = c[1]]
        /\ UNCHANGED <<notified, done, inner, stage>>
    BY <2>1 DEF WakeOf
  <2>3. \A u \in Tasks : Scheduled(u) => Scheduled(u)'
    BY <2>2 DEF Scheduled, Looks
  <2>4. \A u \in Tasks : Forwarded(u) => Forwarded(u)'
    BY <2>2, TasksAssumption DEF Forwarded, TaskType
  <2>5. Scheduled(c[1])' \/ Forwarded(c[1])'
    <3>1. CASE c[1] \in inner
      BY <2>2, <3>1 DEF Forwarded, TaskType
    <3>2. CASE c[1] \notin inner
      BY <1>c, <2>2, <2>3, <3>2 DEF Listening, Armed
    <3> QED BY <3>1, <3>2
  <2>6. \A d \in Channel : d # c => source'[d] = source[d] /\ (d \in signalled' <=> d \in signalled)
    BY <2>2 DEF TaskType
  <2>7. Told'
    BY <1>6, <1>c, <1>s, <2>3, <2>4, <2>5, <2>6 DEF Listening, Told
  <2>8. source'[c] # "traced"
    BY <2>2 DEF TaskType, None
  <2>9. Armed'
    BY <1>6, <1>c, <1>s, <2>2, <2>3, <2>6, <2>8 DEF Listening, Armed
  <2>10. Handed'
    BY <2>2 DEF Listening, Handed
  <2> QED BY <2>7, <2>9, <2>10 DEF Listening
<1>7. ASSUME NEW th \in Threads, inner_wake(th), UNCHANGED scenario PROVE Listening'
  <2> DEFINE t == waking[th]
  <2>1. /\ t # None /\ waking' = [waking EXCEPT ![th] = None]
        /\ notified' = IF t \in inner THEN notified \union {t} ELSE notified
        /\ inner' = inner \ {t}
        /\ UNCHANGED <<done, source, signalled, stage>>
    BY <1>7 DEF inner_wake
  <2> HIDE DEF t
  <2>2. \A u \in Tasks : Scheduled(u) => Scheduled(u)'
    BY <2>1 DEF Scheduled, Looks
  <2>3. \A u \in Tasks : Forwarded(u) => Forwarded(u)' \/ Scheduled(u)'
    <3> SUFFICES ASSUME NEW u \in Tasks, Forwarded(u) PROVE Forwarded(u)' \/ Scheduled(u)'
      OBVIOUS
    <3>1. CASE u = t
      BY <3>1, <2>1 DEF Forwarded, Scheduled
    <3>2. CASE u # t
      BY <3>2, <2>1 DEF Forwarded, TaskType, t
    <3> QED BY <3>1, <3>2
  <2>4. \A u \in Tasks : u \in inner => u \in inner' \/ u \in notified'
    BY <2>1
  <2>5. Told'
    BY <1>7, <1>c, <1>s, <2>1, <2>2, <2>3 DEF Listening, Told
  <2>6. Armed'
    BY <1>7, <1>c, <1>s, <2>1, <2>2, <2>4 DEF Listening, Armed, Scheduled
  <2>7. Handed'
    BY <2>1, <2>4 DEF Listening, Handed, TaskType
  <2> QED BY <2>5, <2>6, <2>7 DEF Listening
<1>8. CASE record_queue_sample \/ SetEnabled \/ UNCHANGED vars
  <2>1. UNCHANGED <<scenario, stage, notified, done, inner, source, signalled, waking>>
    BY <1>8 DEF record_queue_sample, SetEnabled, vars, tasks
  <2> QED BY <2>1 DEF Listening, Told, Armed, Handed, Scheduled, Looks, Forwarded, Channel
<1> QED BY <1>1, <1>2, <1>3, <1>4, <1>5, <1>6, <1>7, <1>8 DEF Next, Hooks, Futures

TasksInv == TaskType /\ RecordType /\ Alone /\ Listening
LEMMA TasksInvariant == Spec => []TasksInv
<1>1. Init => TasksInv
  BY TaskInit, RecordInit, AloneInit, ListeningInit DEF TasksInv
<1>2. TasksInv /\ [Next]_vars => TasksInv'
  BY TaskNext, RecordNext, StepRecords, AloneNext, ListeningNext DEF TasksInv
<1> QED BY <1>1, <1>2, PTL DEF Spec

\* No wake-up is lost, whoever wakes whom while recording is switched on and off.
THEOREM NoWakeupIsLost == Spec => []NoLostWakeup
<1>1. TasksInv => NoLostWakeup
  BY DEF TasksInv, TaskType, Listening, Told, NoLostWakeup, Scheduled, Looks, Forwarded
<1> QED BY <1>1, TasksInvariant, PTL

-----------------------------------------------------------------------------
(* Where an event is *)

\* The events of a thread are in order, in its buffer, in the trace, and what is in the trace
\* before what is in the buffer; and no event is in the trace twice.
By(p, k, th) == p[k].kind # "QueueSample" /\ p[k].worker = th
Held(p, th, s) == /\ \A i \in 1 .. Len(s) : s[i] \in 1 .. Len(p) /\ By(p, s[i], th)
                  /\ \A i, j \in 1 .. Len(s) : i < j => s[i] < s[j]
InBuffers == \A th \in Threads : Held(past, th, buf[th])
InTrace == /\ \A i \in 1 .. Len(trace) : trace[i] \in 1 .. Len(past)
           /\ \A i, j \in 1 .. Len(trace) : trace[i] = trace[j] => i = j
InOrder ==
    \A th \in Threads, i \in 1 .. Len(trace) :
        By(past, trace[i], th) => /\ \A j \in 1 .. Len(trace) : i < j /\ By(past, trace[j], th) => trace[i] < trace[j]
                            /\ \A j \in 1 .. Len(buf[th]) : trace[i] < buf[th][j]
Timed ==
    \A k \in 1 .. Len(past) : past[k].ts <= clock /\ \A j \in 1 .. k : past[j].ts <= past[k].ts
Placed == InBuffers /\ InTrace /\ InOrder /\ Timed

LEMMA PlacedInit == Init => Placed
<1> SUFFICES ASSUME Init PROVE Placed
  OBVIOUS
<1>1. Len(past) = 0 /\ Len(trace) = 0 /\ \A th \in Threads : Len(buf[th]) = 0
  BY DEF Init
<1> QED BY <1>1 DEF Placed, InBuffers, InTrace, InOrder, Timed, Held

LEMMA PastFacts ==
    ASSUME RecordType, NEW e \in Events, past' = Append(past, e)
    PROVE  /\ Len(past) \in Nat /\ Len(past') = Len(past) + 1
           /\ \A k \in 1 .. Len(past) : past'[k] = past[k] /\ past[k] \in Events
           /\ past'[Len(past) + 1] = e
  BY DEF RecordType

\* What is put at the end of the trace, of a thread or of the queue.
LEMMA TraceGrows ==
    ASSUME RecordType, NEW s \in Seq(Nat), trace' = trace \o s
    PROVE  /\ Len(trace) \in Nat /\ Len(s) \in Nat /\ Len(trace') = Len(trace) + Len(s)
           /\ \A i \in 1 .. Len(trace) : trace'[i] = trace[i]
           /\ \A i \in 1 .. Len(trace') : i \notin 1 .. Len(trace) =>
                 i - Len(trace) \in 1 .. Len(s) /\ trace'[i] = s[i - Len(trace)]
  BY DEF RecordType

LEMMA TimedNext ==
    ASSUME RecordType, Timed, NEW e \in Events, past' = Append(past, e), e.ts = clock', clock' \in Nat, clock <= clock'
    PROVE  Timed'
<1>1. /\ Len(past) \in Nat /\ Len(past') = Len(past) + 1
      /\ \A k \in 1 .. Len(past) : past'[k] = past[k] /\ past[k] \in Events
      /\ past'[Len(past) + 1] = e
  BY PastFacts
<1>2. \A x \in Events : x.ts \in Nat
  BY DEF Events, Polls, Parks, Unparks, Samples, Wakes
<1>3. \A k \in 1 .. Len(past') : k \in 1 .. Len(past) \/ k = Len(past) + 1
  BY <1>1
<1>4. \A k \in 1 .. Len(past) : past[k].ts <= clock /\ past[k].ts \in Nat /\ past'[k].ts = past[k].ts
  BY <1>1, <1>2 DEF Timed
<1>5. \A k \in 1 .. Len(past') : past'[k].ts <= clock'
  BY <1>1, <1>3, <1>4 DEF RecordType
<1>6. \A k \in 1 .. Len(past'), j \in 1 .. Len(past') : j <= k => past'[j].ts <= past'[k].ts
  <2> SUFFICES ASSUME NEW k \in 1 .. Len(past'), NEW j \in 1 .. Len(past'), j <= k
               PROVE  past'[j].ts <= past'[k].ts
    OBVIOUS
  <2>1. CASE k = Len(past) + 1
    BY <2>1, <1>1, <1>5
  <2>2. CASE k \in 1 .. Len(past)
    <3>1. j \in 1 .. k /\ j \in 1 .. Len(past)
      BY <2>2, <1>1
    <3> QED BY <3>1, <2>2, <1>4 DEF Timed
  <2> QED BY <2>1, <2>2, <1>3
<1> QED BY <1>5, <1>6 DEF Timed

LEMMA PutPlaced ==
    ASSUME RecordType, Placed, NEW th \in Threads, NEW e, Puts(th, e)
    PROVE  InBuffers' /\ InTrace' /\ InOrder'
<1> DEFINE n == Len(past) + 1
           batch == Append(buf[th], n)
<1>1. /\ Len(past) \in Nat /\ Len(past') = n /\ n \in Nat
      /\ \A k \in 1 .. Len(past) : past'[k] = past[k] /\ k \in 1 .. n /\ k < n
      /\ past'[n] = e /\ n \in 1 .. n
  BY PastFacts DEF Puts
<1>2. \A k \in 1 .. Len(past), t \in Threads : By(past', k, t) <=> By(past, k, t)
  BY <1>1 DEF By
<1>3. \A t \in Threads : By(past', n, t) <=> t = th
  BY <1>1 DEF By, Puts
<1>4. /\ Len(buf[th]) \in Nat /\ Len(batch) = Len(buf[th]) + 1 /\ batch[Len(batch)] = n /\ batch \in Seq(Nat)
      /\ \A j \in 1 .. Len(buf[th]) : batch[j] = buf[th][j]
      /\ \A j \in 1 .. Len(batch) : j \in 1 .. Len(buf[th]) \/ j = Len(batch)
  BY <1>1 DEF RecordType
<1> HIDE DEF batch, n
<1>5. \A t \in Threads : Held(past', t, buf[t])
  BY <1>1, <1>2 DEF Placed, InBuffers, Held
<1>6. /\ \A i \in 1 .. Len(batch) : batch[i] \in 1 .. n /\ By(past', batch[i], th)
      /\ \A i, j \in 1 .. Len(batch) : i < j => batch[i] < batch[j]
  <2>1. \A i \in 1 .. Len(buf[th]) : buf[th][i] \in 1 .. Len(past) /\ By(past, buf[th][i], th)
    BY DEF Placed, InBuffers, Held
  <2>2. \A i \in 1 .. Len(batch) : batch[i] \in 1 .. n /\ By(past', batch[i], th)
    BY <2>1, <1>1, <1>2, <1>3, <1>4
  <2>3. \A i, j \in 1 .. Len(batch) : i < j => batch[i] < batch[j]
    <3> SUFFICES ASSUME NEW i \in 1 .. Len(batch), NEW j \in 1 .. Len(batch), i < j
                 PROVE  batch[i] < batch[j]
      OBVIOUS
    <3>1. i \in 1 .. Len(buf[th])
      BY <1>4
    <3>2. CASE j \in 1 .. Len(buf[th])
      BY <3>1, <3>2, <1>4 DEF Placed, InBuffers, Held
    <3>3. CASE j = Len(batch)
      BY <3>1, <3>3, <2>1, <1>1, <1>4
    <3> QED BY <3>2, <3>3, <1>4
  <2> QED BY <2>2, <2>3
<1>7. /\ \A i \in 1 .. Len(trace) : trace[i] \in 1 .. Len(past) /\ trace[i] < n
      /\ \A i \in 1 .. Len(trace), j \in 1 .. Len(batch) : trace[i] # batch[j] /\ (By(past, trace[i], th) => trace[i] < batch[j])
  <2>1. \A i \in 1 .. Len(trace) : trace[i] \in 1 .. Len(past) /\ trace[i] < n
    BY <1>1 DEF Placed, InTrace
  <2>2. \A i \in 1 .. Len(trace), j \in 1 .. Len(buf[th]) : trace[i] # buf[th][j] /\ (By(past, trace[i], th) => trace[i] < buf[th][j])
    BY DEF Placed, InBuffers, InOrder, Held
  <2>3. \A i \in 1 .. Len(trace) : trace[i] # batch[Len(batch)] /\ trace[i] < batch[Len(batch)]
    BY <2>1, <1>1, <1>4
  <2>4. \A i \in 1 .. Len(trace), j \in 1 .. Len(batch) : trace[i] # batch[j] /\ (By(past, trace[i], th) => trace[i] < batch[j])
    BY <2>2, <2>3, <1>4
  <2> QED BY <2>1, <2>4
<1>8. CASE UNCHANGED <<buf, trace>>
  <2>1. InBuffers' /\ InTrace'
    BY <1>8, <1>1, <1>5 DEF Placed, InBuffers, InTrace
  <2>2. InOrder'
    BY <1>8, <1>2, <1>7 DEF Placed, InOrder
  <2> QED BY <2>1, <2>2
<1>9. CASE buf' = [buf EXCEPT ![th] = batch] /\ UNCHANGED trace
  <2>1. buf'[th] = batch /\ \A t \in Threads : t # th => buf'[t] = buf[t]
    BY <1>9 DEF RecordType
  <2>2. InBuffers'
    BY <2>1, <1>1, <1>5, <1>6 DEF InBuffers, Held
  <2>3. InTrace'
    BY <1>9, <1>1, <1>7 DEF Placed, InTrace
  <2>4. InOrder'
    BY <1>9, <2>1, <1>2, <1>7 DEF Placed, InOrder
  <2> QED BY <2>2, <2>3, <2>4
<1>10. CASE buf' = [buf EXCEPT ![th] = <<>>] /\ trace' \in {trace, trace \o batch}
  <2>1. Len(buf'[th]) = 0 /\ \A t \in Threads : t # th => buf'[t] = buf[t]
    BY <1>10 DEF RecordType
  <2>2. InBuffers'
    BY <2>1, <1>5 DEF InBuffers, Held
  <2>3. CASE UNCHANGED trace
    <3>1. InTrace'
      BY <2>3, <1>1, <1>7 DEF Placed, InTrace
    <3>2. InOrder'
      BY <2>1, <2>3, <1>2, <1>7 DEF Placed, InOrder
    <3> QED BY <2>2, <3>1, <3>2
  <2>4. CASE trace' = trace \o batch
    <3>1. /\ Len(trace) \in Nat /\ Len(batch) \in Nat /\ Len(trace') = Len(trace) + Len(batch)
          /\ \A i \in 1 .. Len(trace) : trace'[i] = trace[i]
          /\ \A i \in 1 .. Len(trace') : i \notin 1 .. Len(trace) =>
                i - Len(trace) \in 1 .. Len(batch) /\ trace'[i] = batch[i - Len(trace)]
      BY <1>4, <2>4, TraceGrows
    <3>2. InTrace'
      <4>1. \A i \in 1 .. Len(trace') : trace'[i] \in 1 .. Len(past')
        BY <3>1, <1>1, <1>6, <1>7
      <4>2. ASSUME NEW i \in 1 .. Len(trace'), NEW j \in 1 .. Len(trace'), i < j PROVE trace'[i] # trace'[j]
        <5>1. CASE j \in 1 .. Len(trace)
          BY <4>2, <5>1, <3>1 DEF Placed, InTrace
        <5>2. CASE i \in 1 .. Len(trace) /\ j \notin 1 .. Len(trace)
          BY <5>2, <3>1, <1>7
        <5>3. CASE i \notin 1 .. Len(trace) /\ j \notin 1 .. Len(trace)
          <6>1. i - Len(trace) < j - Len(trace)
            BY <4>2, <3>1
          <6>2. trace'[i] < trace'[j]
            BY <5>3, <6>1, <3>1, <1>6
          <6>3. trace'[i] \in Nat
            BY <4>1
          <6> QED BY <6>2, <6>3
        <5> QED BY <4>2, <5>1, <5>2, <5>3, <3>1
      <4> QED BY <4>1, <4>2, <3>1 DEF InTrace
    <3>3. \A t \in Threads, i \in 1 .. Len(trace') :
             By(past', trace'[i], t) => \A j \in 1 .. Len(buf'[t]) : trace'[i] < buf'[t][j]
      <4> SUFFICES ASSUME NEW t \in Threads, NEW i \in 1 .. Len(trace'), By(past', trace'[i], t), NEW j \in 1 .. Len(buf'[t])
                   PROVE  trace'[i] < buf'[t][j]
        OBVIOUS
      <4>1. t # th /\ buf'[t] = buf[t]
        BY <2>1
      <4>2. i \in 1 .. Len(trace)
        BY <4>1, <3>1, <1>6 DEF By
      <4> QED BY <4>1, <4>2, <3>1, <1>2, <1>7 DEF Placed, InOrder
    <3>4. ASSUME NEW t \in Threads, NEW i \in 1 .. Len(trace'), NEW j \in 1 .. Len(trace'), i < j,
                 By(past', trace'[i], t), By(past', trace'[j], t)
          PROVE  trace'[i] < trace'[j]
      <4>1. CASE j \in 1 .. Len(trace)
        <5>1. i \in 1 .. Len(trace)
          BY <3>4, <4>1, <3>1
        <5> QED BY <5>1, <3>4, <4>1, <3>1, <1>2, <1>7 DEF Placed, InOrder
      <4>2. CASE j \notin 1 .. Len(trace) /\ i \in 1 .. Len(trace)
        <5>1. t = th
          BY <4>2, <3>1, <3>4, <1>6 DEF By
        <5> QED BY <5>1, <4>2, <3>4, <3>1, <1>2, <1>7
      <4>3. CASE j \notin 1 .. Len(trace) /\ i \notin 1 .. Len(trace)
        <5>1. i - Len(trace) < j - Len(trace)
          BY <3>4, <3>1
        <5> QED BY <5>1, <4>3, <3>1, <1>6
      <4> QED BY <4>1, <4>2, <4>3
    <3> QED BY <2>2, <3>2, <3>3, <3>4 DEF InOrder
  <2> QED BY <1>10, <2>3, <2>4
<1> QED BY <1>8, <1>9, <1>10 DEF Puts, batch, n

LEMMA TakePlaced ==
    ASSUME RecordType, Placed, NEW e, Takes(e)
    PROVE  InBuffers' /\ InTrace' /\ InOrder'
<1> DEFINE n == Len(past) + 1
<1>0. e \in Events /\ e.kind = "QueueSample"
  BY DEF Takes, Events, Samples
<1>1. /\ Len(past) \in Nat /\ Len(past') = n /\ n \in Nat
      /\ \A k \in 1 .. Len(past) : past'[k] = past[k] /\ k \in 1 .. n /\ k < n
      /\ past'[n] = e /\ n \in 1 .. n
  BY <1>0, PastFacts DEF Takes
<1>2. \A k \in 1 .. Len(past), t \in Threads : By(past', k, t) <=> By(past, k, t)
  BY <1>1 DEF By
<1>3. \A t \in Threads : ~ By(past', n, t)
  BY <1>0, <1>1 DEF By
<1>4. <<n>> \in Seq(Nat) /\ Len(<<n>>) = 1 /\ <<n>>[1] = n
  BY <1>1
<1>5. UNCHANGED buf /\ trace' \in {trace, trace \o <<n>>}
  BY DEF Takes
<1>6. \A i \in 1 .. Len(trace) : trace[i] \in 1 .. Len(past) /\ trace[i] < n
  BY <1>1 DEF Placed, InTrace
<1> HIDE DEF n
<1>7. InBuffers'
  BY <1>1, <1>2, <1>5 DEF Placed, InBuffers, Held
<1>8. CASE UNCHANGED trace
  BY <1>8, <1>1, <1>2, <1>5, <1>6, <1>7 DEF Placed, InTrace, InOrder
<1>9. CASE trace' = trace \o <<n>>
  <2>1. /\ Len(trace) \in Nat /\ Len(trace') = Len(trace) + 1
        /\ \A i \in 1 .. Len(trace) : trace'[i] = trace[i]
        /\ \A i \in 1 .. Len(trace') : i \notin 1 .. Len(trace) => i = Len(trace') /\ trace'[i] = n
    <3> DEFINE s == <<n>>
    <3> HIDE DEF s
    <3>1. /\ Len(trace) \in Nat /\ Len(s) \in Nat /\ Len(trace') = Len(trace) + Len(s)
          /\ \A i \in 1 .. Len(trace) : trace'[i] = trace[i]
          /\ \A i \in 1 .. Len(trace') : i \notin 1 .. Len(trace) =>
                i - Len(trace) \in 1 .. Len(s) /\ trace'[i] = s[i - Len(trace)]
      BY <1>9, <1>4, TraceGrows DEF s
    <3>2. Len(s) = 1 /\ s[1] = n
      BY <1>4 DEF s
    <3> QED BY <3>1, <3>2
  <2>2. InTrace'
    <3>1. \A i \in 1 .. Len(trace') : trace'[i] \in 1 .. Len(past')
      BY <2>1, <1>1, <1>6
    <3>2. ASSUME NEW i \in 1 .. Len(trace'), NEW j \in 1 .. Len(trace'), i # j, trace'[i] = trace'[j] PROVE FALSE
      BY <3>2, <2>1, <1>6 DEF Placed, InTrace
    <3> QED BY <3>1, <3>2 DEF InTrace
  <2>3. \A t \in Threads, i \in 1 .. Len(trace') : By(past', trace'[i], t) => i \in 1 .. Len(trace) /\ By(past, trace[i], t)
    BY <2>1, <1>2, <1>3, <1>6
  <2>4. InOrder'
    BY <2>1, <2>3, <1>5 DEF Placed, InOrder
  <2> QED BY <1>7, <2>2, <2>4
<1> QED BY <1>5, <1>8, <1>9

LEMMA PlacedNext == RecordType /\ Placed /\ Recording => Placed'
<1> SUFFICES ASSUME RecordType, Placed, Recording PROVE Placed'
  OBVIOUS
<1>1. ASSUME NEW th \in Threads, NEW e, Puts(th, e) PROVE Placed'
  BY <1>1, PutPlaced, TimedNext DEF Puts, Placed
<1>2. ASSUME NEW e, Takes(e) PROVE Placed'
  BY <1>2, TakePlaced, TimedNext DEF Takes, Placed, Events
<1>3. CASE UNCHANGED <<clock, past, buf, trace>>
  BY <1>3 DEF Placed, InBuffers, InTrace, InOrder, Timed, Held, By
<1> QED BY <1>1, <1>2, <1>3 DEF Recording

-----------------------------------------------------------------------------
(* The analysis *)

\* A set of natural numbers has a least one, and one that is bounded a greatest.
LEMMA LeastNat == ASSUME NEW T, T \subseteq Nat, T # {} PROVE \E x \in T : \A y \in T : x <= y
<1> DEFINE R == {ss \in Nat \X Nat : ss[1] < ss[2]}
<1>1. IsWellFoundedOn(R, Nat)
  BY NatLessThanWellFounded DEF OpToRel
<1>2. \A x, y \in Nat : <<y, x>> \in R <=> y < x
  OBVIOUS
<1> HIDE DEF R
<1>3. \E x \in T : \A y \in T : ~ (<<y, x>> \in R)
  BY <1>1, WFMin
<1>4. PICK x \in T : \A y \in T : ~ (<<y, x>> \in R)
  BY <1>3
<1>5. \A y \in T : ~ (y < x)
  BY <1>2, <1>4
<1> QED BY <1>5

LEMMA MaxFacts == ASSUME NEW S, S \subseteq Nat, S # {}, NEW n \in Nat, \A x \in S : x <= n
  PROVE Max(S) \in S /\ \A x \in S : x <= Max(S)
<1> DEFINE U == {m \in Nat : \A x \in S : x <= m}
<1>1. PICK m \in U : \A k \in U : m <= k
  <2>1. n \in U
    OBVIOUS
  <2> QED BY <2>1, LeastNat
<1>2. m \in S
  <2> SUFFICES ASSUME m \notin S PROVE FALSE
    OBVIOUS
  <2>1. \A x \in S : x <= m - 1
    BY <1>1
  <2>2. m - 1 \in Nat
    <3>1. PICK x \in S : TRUE
      OBVIOUS
    <3> QED BY <3>1, <2>1
  <2> QED BY <1>1, <2>1, <2>2
<1>3. \E x \in S : \A y \in S : x >= y
  BY <1>1, <1>2
<1>4. Max(S) \in S /\ \A y \in S : Max(S) >= y
  BY <1>3 DEF Max
<1> QED BY <1>4

Pair(f, open, close, a, b) ==
    /\ a \in Of(f, {open}) /\ b \in Of(f, {close}) /\ a < b /\ f[a].worker = f[b].worker
    /\ \A k \in Of(f, {open, close}) : k < b /\ f[k].worker = f[b].worker => k <= a
LEMMA PairFacts ==
    ASSUME NEW f, NEW n \in Nat, DOMAIN f = 1 .. n, NEW open, NEW close
    PROVE  \A p : p \in Paired(f, open, close)
                    <=> p = <<p[1], p[2]>> /\ Pair(f, open, close, p[1], p[2])
<1>1. SUFFICES ASSUME NEW a \in Of(f, {open}), NEW b \in Of(f, {close})
      PROVE  LET seen == Before(f, b, {open, close})
             IN  a \in seen /\ a = Max(seen) <=> Pair(f, open, close, a, b)
  <2>1. \A p : p \in Paired(f, open, close) <=>
            p \in Of(f, {open}) \X Of(f, {close}) /\ LET seen == Before(f, p[2], {open, close}) IN p[1] \in seen /\ p[1] = Max(seen)
    BY DEF Paired
  <2>2. \A p : p \in Of(f, {open}) \X Of(f, {close}) <=> p = <<p[1], p[2]>> /\ p[1] \in Of(f, {open}) /\ p[2] \in Of(f, {close})
    OBVIOUS
  <2>3. \A a, b : Pair(f, open, close, a, b) => a \in Of(f, {open}) /\ b \in Of(f, {close})
    BY DEF Pair
  <2> QED BY <1>1, <2>1, <2>2, <2>3
<1> DEFINE seen == Before(f, b, {open, close})
<1>2. seen \subseteq Nat /\ b \in Nat /\ \A k \in seen : k <= b
  BY DEF Before, Of
<1>3. \A k : k \in seen <=> k \in Of(f, {open, close}) /\ k < b /\ f[k].worker = f[b].worker
  BY DEF Before
<1> HIDE DEF seen
<1>4. a \in seen => Max(seen) \in seen /\ \A k \in seen : k <= Max(seen)
  BY <1>2, MaxFacts
<1>5. ASSUME a \in seen, a = Max(seen) PROVE Pair(f, open, close, a, b)
  BY <1>3, <1>4, <1>5 DEF Pair
<1>6. ASSUME Pair(f, open, close, a, b) PROVE a \in seen /\ a = Max(seen)
  <2>1. a \in seen /\ \A k \in seen : k <= a
    BY <1>3, <1>6 DEF Pair, Of
  <2>2. Max(seen) \in Nat /\ a \in Nat /\ Max(seen) <= a /\ a <= Max(seen)
    BY <1>2, <1>4, <2>1
  <2> QED BY <2>1, <2>2
<1> QED BY <1>5, <1>6 DEF seen

\* The trace that is read has an event for each that was written.
LEMMA ResolvedEvents ==
    ASSUME RecordType
    PROVE  /\ DOMAIN events = 1 .. Len(trace)
           /\ \A i \in 1 .. Len(trace) : events[i] = write_resolved(past[trace[i]])
<1> DEFINE R == [i \in DOMAIN trace |-> write_resolved(past[trace[i]])]
           S == {R[i] : i \in DOMAIN trace}
<1>1. Len(trace) \in Nat /\ DOMAIN trace = 1 .. Len(trace)
  BY DEF RecordType
<1>2. R \in [1 .. Len(trace) -> S]
  BY <1>1
<1>3. R \in Seq(S) /\ Len(R) = Len(trace) /\ \A i \in 1 .. Len(trace) : R[i] = write_resolved(past[trace[i]])
  BY <1>1, <1>2
<1>4. events = R \o <<>>
  BY DEF events
<1> HIDE DEF R, S
<1>5. DOMAIN events = 1 .. Len(trace) /\ \A i \in 1 .. Len(trace) : events[i] = R[i]
  BY <1>1, <1>3, <1>4
<1> QED BY <1>3, <1>5

LEMMA WrittenEvents ==
    ASSUME RecordType, InTrace
    PROVE  /\ Len(trace) \in Nat /\ DOMAIN events = 1 .. Len(trace)
           /\ \A i \in 1 .. Len(trace) : LET e == past[trace[i]] IN
                 /\ trace[i] \in 1 .. Len(past) /\ e \in Events
                 /\ events[i].kind = e.kind /\ events[i].ts = e.ts
                 /\ e.kind # "QueueSample" => events[i].worker = e.worker
                 /\ e.kind = "QueueSample" => events[i].depth = e.depth % Byte
                 /\ e.kind = "WorkerUnpark" => events[i].wait = e.wait
                 /\ e.kind \in {"PollStart", "Wake"} => events[i].task = e.task
<1>1. Len(trace) \in Nat /\ DOMAIN trace = 1 .. Len(trace) /\ DOMAIN events = 1 .. Len(trace)
  BY ResolvedEvents DEF RecordType
<1>2. \A e \in Events :
         LET r == write_resolved(e) IN
         /\ r.kind = e.kind /\ r.ts = e.ts
         /\ e.kind # "QueueSample" => r.worker = e.worker
         /\ e.kind = "QueueSample" => r.depth = e.depth % Byte
         /\ e.kind = "WorkerUnpark" => r.wait = e.wait
         /\ e.kind \in {"PollStart", "Wake"} => r.task = e.task
  <2> SUFFICES ASSUME NEW e \in Events
               PROVE  LET r == write_resolved(e) IN
                      /\ r.kind = e.kind /\ r.ts = e.ts
                      /\ e.kind # "QueueSample" => r.worker = e.worker
                      /\ e.kind = "QueueSample" => r.depth = e.depth % Byte
                      /\ e.kind = "WorkerUnpark" => r.wait = e.wait
                      /\ e.kind \in {"PollStart", "Wake"} => r.task = e.task
    OBVIOUS
  <2>1. CASE e.kind = "PollStart"
    BY <2>1 DEF write_resolved
  <2>2. CASE e.kind = "WorkerUnpark"
    BY <2>2 DEF write_resolved
  <2>3. CASE e.kind = "QueueSample"
    BY <2>3 DEF write_resolved, Events, Polls, Parks, Unparks, Samples, Wakes
  <2>4. CASE e.kind \notin {"PollStart", "WorkerUnpark", "QueueSample"}
    BY <2>4 DEF write_resolved
  <2> QED BY <2>1, <2>2, <2>3, <2>4
<1>3. \A i \in 1 .. Len(trace) : trace[i] \in 1 .. Len(past) /\ past[trace[i]] \in Events
  BY DEF InTrace, RecordType
<1> QED BY <1>1, <1>2, <1>3, ResolvedEvents

WorkerKinds == {"PollStart", "PollEnd", "WorkerPark", "WorkerUnpark"}

LEMMA EventKinds ==
    \A e \in Events : /\ e.ts \in Nat
                      /\ e.kind \in WorkerKinds => e.worker \in Workers /\ e.worker \in Threads /\ e.kind # "QueueSample"
                      /\ e.kind \in {"PollStart", "Wake"} => e.task \in Tasks
                      /\ e.kind \in {"WorkerPark", "WorkerUnpark"} => e.waited \in Nat /\ e.read \in BOOLEAN
                      /\ e.kind = "WorkerUnpark" => e.wait \in Nat
                      /\ e.kind = "QueueSample" => e.depth \in Depths
  BY DEF Events, Polls, Parks, Unparks, Samples, Wakes, WorkerKinds, Threads

\* A worker's events are in the trace in the order they happened in.
LEMMA OrderFacts ==
    ASSUME RecordType, InTrace, InOrder,
           NEW i \in 1 .. Len(trace), NEW j \in 1 .. Len(trace),
           past[trace[i]].kind \in WorkerKinds, past[trace[j]].kind \in WorkerKinds,
           past[trace[i]].worker = past[trace[j]].worker
    PROVE  i < j <=> trace[i] < trace[j]
<1>1. /\ trace[i] \in Nat /\ trace[j] \in Nat /\ i \in Nat /\ j \in Nat
      /\ past[trace[i]] \in Events /\ past[trace[j]] \in Events
  BY WrittenEvents DEF RecordType
<1>2. PICK th \in Threads : By(past, trace[i], th) /\ By(past, trace[j], th)
  BY <1>1, EventKinds DEF By
<1>3. i < j => trace[i] < trace[j]
  BY <1>2 DEF InOrder
<1>4. j < i => trace[j] < trace[i]
  BY <1>2 DEF InOrder
<1> QED BY <1>1, <1>3, <1>4

LEMMA WrittenFacts == RecordType => \A k : k \in written <=> \E i \in 1 .. Len(trace) : trace[i] = k
<1> SUFFICES ASSUME RecordType, NEW k PROVE k \in written <=> \E i \in 1 .. Len(trace) : trace[i] = k
  OBVIOUS
<1>1. DOMAIN trace = 1 .. Len(trace)
  BY DEF RecordType
<1>2. k \in written <=> \E i \in DOMAIN trace : k = trace[i]
  BY DEF written, Range
<1> QED BY <1>1, <1>2

LEMMA PastPairs ==
    ASSUME RecordType, NEW open, NEW close
    PROVE  \A p : p \in Paired(past, open, close) <=> p = <<p[1], p[2]>> /\ Pair(past, open, close, p[1], p[2])
<1>1. DOMAIN past = 1 .. Len(past) /\ Len(past) \in Nat
  BY DEF RecordType
<1> QED BY <1>1, PairFacts

LEMMA TracePairs ==
    ASSUME RecordType, InTrace, NEW open, NEW close
    PROVE  \A p : p \in Paired(events, open, close) <=> p = <<p[1], p[2]>> /\ Pair(events, open, close, p[1], p[2])
<1>1. DOMAIN events = 1 .. Len(trace) /\ Len(trace) \in Nat
  BY WrittenEvents
<1> QED BY <1>1, PairFacts

\* Between the two events of a pair the worker did nothing that was written.
LEMMA PairsGenuine ==
    ASSUME RecordType, InTrace, InOrder, NEW open \in WorkerKinds, NEW close \in WorkerKinds
    PROVE  Genuine(Paired(events, open, close), open, close)
<1> SUFFICES ASSUME NEW p \in Paired(events, open, close)
             PROVE  /\ trace[p[1]] < trace[p[2]]
                    /\ \A k \in OfWorker(past[trace[p[1]]].worker, {open, close}) :
                          trace[p[1]] < k /\ k < trace[p[2]] => k \notin written
  BY DEF Genuine
<1> DEFINE i == p[1]
           j == p[2]
<1>1. Pair(events, open, close, i, j)
  BY TracePairs
<1> HIDE DEF i, j
<1>2. /\ i \in 1 .. Len(trace) /\ j \in 1 .. Len(trace) /\ i < j
      /\ past[trace[i]].kind \in WorkerKinds /\ past[trace[j]].kind \in WorkerKinds
      /\ past[trace[i]].worker = past[trace[j]].worker /\ events[j].worker = past[trace[j]].worker
  <2>1. i \in 1 .. Len(trace) /\ j \in 1 .. Len(trace) /\ i < j /\ events[i].worker = events[j].worker
        /\ events[i].kind = open /\ events[j].kind = close
    BY <1>1, WrittenEvents DEF Pair, Of
  <2>2. past[trace[i]].kind \in WorkerKinds /\ past[trace[j]].kind \in WorkerKinds
    BY <2>1, WrittenEvents
  <2> QED BY <2>1, <2>2, WrittenEvents DEF WorkerKinds
<1>3. trace[i] < trace[j]
  BY <1>2, OrderFacts
<1>4. ASSUME NEW k \in OfWorker(past[trace[i]].worker, {open, close}), trace[i] < k, k < trace[j], k \in written PROVE FALSE
  <2>1. PICK m \in 1 .. Len(trace) : trace[m] = k
    BY <1>4, WrittenFacts
  <2>2. past[trace[m]].kind \in {open, close} /\ past[trace[m]].worker = past[trace[i]].worker
    BY <1>4, <2>1 DEF OfWorker, Of
  <2>3. i < m /\ m < j
    BY <1>2, <1>4, <2>1, <2>2, OrderFacts
  <2>4. events[m].kind \in {open, close} /\ events[m].worker = events[j].worker
    BY <1>2, <2>2, WrittenEvents DEF WorkerKinds
  <2>5. m <= i
    BY <1>1, <2>3, <2>4, WrittenEvents DEF Pair, Of
  <2> QED BY <1>2, <2>3, <2>5
<1> QED BY <1>3, <1>4 DEF i, j

\* A pair whose two events were written is found.
LEMMA PairsFound ==
    ASSUME RecordType, InTrace, InOrder, NEW open \in WorkerKinds, NEW close \in WorkerKinds,
           NEW q \in Paired(past, open, close), q[1] \in written, q[2] \in written
    PROVE  \E p \in Paired(events, open, close) : trace[p[1]] = q[1] /\ trace[p[2]] = q[2]
<1>1. Pair(past, open, close, q[1], q[2])
  BY PastPairs
<1>2. PICK i \in 1 .. Len(trace), j \in 1 .. Len(trace) : trace[i] = q[1] /\ trace[j] = q[2]
  BY WrittenFacts
<1>3. /\ past[trace[i]].kind = open /\ past[trace[j]].kind = close
      /\ past[trace[i]].worker = past[trace[j]].worker /\ trace[i] < trace[j]
  BY <1>1, <1>2 DEF Pair, Of
<1>4. /\ events[i].kind = open /\ events[j].kind = close /\ events[i].worker = events[j].worker
      /\ events[j].worker = past[trace[j]].worker /\ i < j
  BY <1>3, WrittenEvents, OrderFacts DEF WorkerKinds
<1>5. ASSUME NEW k \in Of(events, {open, close}), k < j, events[k].worker = events[j].worker PROVE k <= i
  <2>1. k \in 1 .. Len(trace) /\ past[trace[k]].kind \in {open, close}
    BY WrittenEvents DEF Of
  <2>2. past[trace[k]].worker = past[trace[j]].worker
    BY <2>1, <1>4, <1>5, WrittenEvents DEF WorkerKinds
  <2>3. trace[k] < trace[j]
    BY <2>1, <2>2, <1>3, <1>5, OrderFacts
  <2>4. trace[k] <= trace[i]
    <3>1. trace[k] \in Of(past, {open, close})
      BY <2>1, WrittenEvents DEF Of, RecordType
    <3> QED BY <3>1, <2>2, <2>3, <1>1, <1>2 DEF Pair
  <2>5. ~ (i < k)
    BY <2>1, <2>2, <2>4, <1>3, OrderFacts, WrittenEvents
  <2> QED BY <2>1, <2>5
<1>6. Pair(events, open, close, i, j)
  BY <1>4, <1>5, WrittenEvents DEF Pair, Of
<1>7. <<i, j>> \in Paired(events, open, close)
  BY <1>6, TracePairs
<1> QED BY <1>2, <1>7

\* How long it took is the same.
LEMMA SameDuration ==
    ASSUME RecordType, InTrace, NEW i \in 1 .. Len(trace), NEW j \in 1 .. Len(trace),
           NEW p, p[1] = i, p[2] = j, NEW q, q[1] = trace[i], q[2] = trace[j]
    PROVE  Duration(events, p) = Duration(past, q)
  BY WrittenEvents DEF Duration

-----------------------------------------------------------------------------
(* How long a worker has waited for a CPU *)

Park(p, k, w) == k \in 1 .. Len(p) /\ p[k].kind = "WorkerPark" /\ p[k].worker = w
Unpark(p, k, w) == k \in 1 .. Len(p) /\ p[k].kind = "WorkerUnpark" /\ p[k].worker = w

\* What a worker has waited only grows.
Grows(p, w, wait) ==
    \A k : Park(p, k, w) \/ Unpark(p, k, w) =>
        p[k].waited <= wait /\ \A j : j < k /\ (Park(p, j, w) \/ Unpark(p, j, w)) => p[j].waited <= p[k].waited
\* parked_wait is what it was at the last park at which that could be read.
KeptAtPark(p, w, read) ==
    \A k : Park(p, k, w) => /\ p[k].read => p[k].waited <= read
                            /\ (\A m : Park(p, m, w) => m <= k) => read <= p[k].waited
\* The wait of an unpark is no longer than since any of those, and if it was read no shorter
\* than since the last park.
SincePark(p, w) ==
    \A k : Unpark(p, k, w) =>
        /\ p[k].wait <= p[k].waited
        /\ \A j : j < k /\ Park(p, j, w) =>
              /\ p[j].read => p[k].wait + p[j].waited <= p[k].waited
              /\ p[k].read /\ (\A m : m < k /\ Park(p, m, w) => m <= j) => p[k].waited <= p[k].wait + p[j].waited
WaitingOf(p, w, wait, read) == read <= wait /\ Grows(p, w, wait) /\ KeptAtPark(p, w, read) /\ SincePark(p, w)
Waiting == \A w \in Workers : WaitingOf(past, w, waited[w], parked_wait[w])

LEMMA WaitingInit == Init => Waiting
<1> SUFFICES ASSUME Init PROVE Waiting
  OBVIOUS
<1>1. Len(past) = 0 /\ \A w \in Workers : parked_wait[w] = 0 /\ waited[w] = 0
  BY DEF Init
<1> QED BY <1>1 DEF Waiting, WaitingOf, Grows, KeptAtPark, SincePark, Park, Unpark

LEMMA ParkFacts ==
    ASSUME RecordType, NEW e \in Events, past' = Append(past, e), NEW w, NEW k
    PROVE  /\ Park(past, k, w) => k \in Nat /\ k <= Len(past) /\ k < Len(past) + 1 /\ past'[k] = past[k] /\ past[k] \in Events
           /\ Park(past', k, w) <=> Park(past, k, w) \/ (k = Len(past) + 1 /\ e.kind = "WorkerPark" /\ e.worker = w)
           /\ Unpark(past, k, w) => k \in Nat /\ k <= Len(past) /\ k < Len(past) + 1 /\ past'[k] = past[k] /\ past[k] \in Events
           /\ Unpark(past', k, w) <=> Unpark(past, k, w) \/ (k = Len(past) + 1 /\ e.kind = "WorkerUnpark" /\ e.worker = w)
<1>1. /\ Len(past) \in Nat /\ Len(past') = Len(past) + 1
      /\ \A i \in 1 .. Len(past) : past'[i] = past[i] /\ past[i] \in Events
      /\ past'[Len(past) + 1] = e
  BY PastFacts
<1>2. k \in 1 .. Len(past') <=> k \in 1 .. Len(past) \/ k = Len(past) + 1
  BY <1>1
<1>3. k \in 1 .. Len(past) => k \in Nat /\ k <= Len(past) /\ k < Len(past) + 1 /\ k # Len(past) + 1
  BY <1>1
<1>4. CASE k \in 1 .. Len(past)
  <2>1. k \in 1 .. Len(past') /\ k # Len(past) + 1 /\ past'[k] = past[k] /\ k \in Nat /\ k <= Len(past) /\ k < Len(past) + 1 /\ past[k] \in Events
    BY <1>1, <1>2, <1>3, <1>4
  <2> QED BY <2>1, <1>4 DEF Park, Unpark
<1>5. CASE k = Len(past) + 1
  <2>1. k \in 1 .. Len(past') /\ k \notin 1 .. Len(past) /\ past'[k] = e
    BY <1>1, <1>2, <1>3, <1>5
  <2> QED BY <2>1, <1>5 DEF Park, Unpark
<1>6. CASE k \notin 1 .. Len(past) /\ k # Len(past) + 1
  BY <1>2, <1>6 DEF Park, Unpark
<1> QED BY <1>4, <1>5, <1>6

\* A worker whose parks and unparks are the same.
LEMMA WaitingSame ==
    ASSUME RecordType, NEW e \in Events, past' = Append(past, e), NEW w,
           ~ (e.kind \in {"WorkerPark", "WorkerUnpark"} /\ e.worker = w),
           NEW wait, NEW read, WaitingOf(past, w, wait, read)
    PROVE  WaitingOf(past', w, wait, read)
<1>1. \A k : /\ Park(past', k, w) <=> Park(past, k, w)
             /\ Park(past, k, w) => past'[k] = past[k]
  <2> SUFFICES ASSUME NEW k
               PROVE  /\ Park(past', k, w) <=> Park(past, k, w)
                      /\ Park(past, k, w) => past'[k] = past[k]
    OBVIOUS
  <2> QED BY ParkFacts DEF Park
<1>2. \A k : /\ Unpark(past', k, w) <=> Unpark(past, k, w)
             /\ Unpark(past, k, w) => past'[k] = past[k]
  <2> SUFFICES ASSUME NEW k
               PROVE  /\ Unpark(past', k, w) <=> Unpark(past, k, w)
                      /\ Unpark(past, k, w) => past'[k] = past[k]
    OBVIOUS
  <2> QED BY ParkFacts DEF Unpark
<1> QED BY <1>1, <1>2 DEF WaitingOf, Grows, KeptAtPark, SincePark

LEMMA WaitingPark ==
    ASSUME RecordType, NEW e \in Events, past' = Append(past, e), NEW w, e.kind = "WorkerPark", e.worker = w,
           NEW wait \in Nat, NEW read \in Nat, WaitingOf(past, w, wait, read),
           NEW more \in Nat, wait <= more, e.waited = more,
           NEW kept, kept = IF e.read THEN more ELSE read
    PROVE  WaitingOf(past', w, more, kept)
<1> DEFINE n == Len(past) + 1
<1>1. \A k : /\ Park(past', k, w) <=> Park(past, k, w) \/ k = n
             /\ Park(past, k, w) => past'[k] = past[k] /\ k < n /\ k \in Nat
  <2> SUFFICES ASSUME NEW k
               PROVE  /\ Park(past', k, w) <=> Park(past, k, w) \/ k = n
                      /\ Park(past, k, w) => past'[k] = past[k] /\ k < n /\ k \in Nat
    OBVIOUS
  <2> QED BY ParkFacts, PastFacts DEF Park
<1>2. \A k : /\ Unpark(past', k, w) <=> Unpark(past, k, w)
             /\ Unpark(past, k, w) => past'[k] = past[k] /\ k < n /\ k \in Nat
  <2> SUFFICES ASSUME NEW k
               PROVE  /\ Unpark(past', k, w) <=> Unpark(past, k, w)
                      /\ Unpark(past, k, w) => past'[k] = past[k] /\ k < n /\ k \in Nat
    OBVIOUS
  <2> QED BY ParkFacts, PastFacts DEF Unpark
<1>3. past'[n] = e /\ n \in Nat
  BY PastFacts
<1>4. \A k : Park(past, k, w) \/ Unpark(past, k, w) => past[k].waited \in Nat
  BY EventKinds, ParkFacts DEF Park, Unpark, WorkerKinds, RecordType
<1> HIDE DEF n
<1>5. kept \in Nat /\ kept <= more /\ read <= kept
  BY DEF WaitingOf
<1>6. Grows(past', w, more)
  <2> SUFFICES ASSUME NEW k, Park(past', k, w) \/ Unpark(past', k, w)
               PROVE  /\ past'[k].waited <= more
                      /\ \A j : j < k /\ (Park(past', j, w) \/ Unpark(past', j, w)) => past'[j].waited <= past'[k].waited
    BY DEF Grows
  <2>1. \A j : Park(past, j, w) \/ Unpark(past, j, w) =>
           past'[j] = past[j] /\ past[j].waited \in Nat /\ past[j].waited <= wait /\ past[j].waited <= more /\ j < n /\ j \in Nat
    <3> SUFFICES ASSUME NEW j, Park(past, j, w) \/ Unpark(past, j, w)
                 PROVE  past'[j] = past[j] /\ past[j].waited \in Nat /\ past[j].waited <= wait /\ past[j].waited <= more
                        /\ j < n /\ j \in Nat
      OBVIOUS
    <3>1. past'[j] = past[j] /\ j < n /\ j \in Nat
      BY <1>1, <1>2
    <3>2. past[j].waited \in Nat
      BY <1>4
    <3>3. past[j].waited <= wait
      BY DEF WaitingOf, Grows
    <3> QED BY <3>1, <3>2, <3>3
  <2>2. CASE k = n
    <3>1. past'[k].waited = more
      BY <2>2, <1>3
    <3>2. ASSUME NEW j, j < k, Park(past', j, w) \/ Unpark(past', j, w) PROVE past'[j].waited <= more
      <4>1. j # n
        BY <2>2, <3>2, <1>3
      <4>2. Park(past, j, w) \/ Unpark(past, j, w)
        BY <3>2, <4>1, <1>1, <1>2
      <4> QED BY <4>2, <2>1
    <3>3. \A j : j < k /\ (Park(past', j, w) \/ Unpark(past', j, w)) => past'[j].waited <= past'[k].waited
      BY <3>1, <3>2
    <3>4. past'[k].waited <= more
      BY <3>1
    <3> QED BY <3>3, <3>4
  <2>3. CASE k # n
    <3>1. Park(past, k, w) \/ Unpark(past, k, w)
      BY <2>3, <1>1, <1>2
    <3>2. past'[k] = past[k] /\ past[k].waited <= more /\ k < n /\ k \in Nat
      BY <2>1, <3>1
    <3>3. ASSUME NEW j, j < k, Park(past', j, w) \/ Unpark(past', j, w) PROVE past'[j].waited <= past[k].waited
      <4>1. j # n
        BY <3>2, <3>3, <1>3
      <4>2. Park(past, j, w) \/ Unpark(past, j, w)
        BY <3>3, <4>1, <1>1, <1>2
      <4>3. past[j].waited <= past[k].waited
        BY <3>1, <3>3, <4>2 DEF WaitingOf, Grows
      <4> QED BY <4>2, <4>3, <2>1
    <3> QED BY <3>2, <3>3
  <2> QED BY <2>2, <2>3
<1>7. KeptAtPark(past', w, kept)
  <2> SUFFICES ASSUME NEW k, Park(past', k, w)
               PROVE  /\ past'[k].read => past'[k].waited <= kept
                      /\ (\A m : Park(past', m, w) => m <= k) => kept <= past'[k].waited
    BY DEF KeptAtPark
  <2>1. CASE k = n
    BY <2>1, <1>3, <1>5
  <2>2. CASE Park(past, k, w)
    <3>1. past[k].read => past[k].waited <= kept
      BY <2>2, <1>4, <1>5 DEF WaitingOf, KeptAtPark
    <3>2. Park(past', n, w) /\ k < n /\ k \in Nat
      BY <2>2, <1>1
    <3>3. ~ \A m : Park(past', m, w) => m <= k
      BY <3>2, <1>3
    <3> QED BY <2>2, <3>1, <3>3, <1>1
  <2> QED BY <2>1, <2>2, <1>1
<1>8. SincePark(past', w)
  <2> SUFFICES ASSUME NEW k, Unpark(past', k, w)
               PROVE  /\ past'[k].wait <= past'[k].waited
                      /\ \A j : j < k /\ Park(past', j, w) =>
                            /\ past'[j].read => past'[k].wait + past'[j].waited <= past'[k].waited
                            /\ past'[k].read /\ (\A m : m < k /\ Park(past', m, w) => m <= j)
                                 => past'[k].waited <= past'[k].wait + past'[j].waited
    BY DEF SincePark
  <2>1. Unpark(past, k, w) /\ past'[k] = past[k] /\ k < n /\ k \in Nat
    BY <1>2
  <2>2. \A j : j < k => (Park(past', j, w) <=> Park(past, j, w))
    BY <2>1, <1>1, <1>3
  <2> QED BY <2>1, <2>2, <1>1 DEF WaitingOf, SincePark
<1> QED BY <1>5, <1>6, <1>7, <1>8 DEF WaitingOf

LEMMA WaitingUnpark ==
    ASSUME RecordType, NEW e \in Events, past' = Append(past, e), NEW w, e.kind = "WorkerUnpark", e.worker = w,
           NEW wait \in Nat, NEW read \in Nat, WaitingOf(past, w, wait, read),
           NEW more \in Nat, wait <= more, e.waited = more,
           e.wait = IF e.read THEN SatSub(more, read) ELSE 0
    PROVE  WaitingOf(past', w, more, read)
<1> DEFINE n == Len(past) + 1
<1>1. \A k : /\ Park(past', k, w) <=> Park(past, k, w)
             /\ Park(past, k, w) => past'[k] = past[k] /\ k < n /\ k \in Nat
  <2> SUFFICES ASSUME NEW k
               PROVE  /\ Park(past', k, w) <=> Park(past, k, w)
                      /\ Park(past, k, w) => past'[k] = past[k] /\ k < n /\ k \in Nat
    OBVIOUS
  <2> QED BY ParkFacts, PastFacts DEF Park
<1>2. \A k : /\ Unpark(past', k, w) <=> Unpark(past, k, w) \/ k = n
             /\ Unpark(past, k, w) => past'[k] = past[k] /\ k < n /\ k \in Nat
  <2> SUFFICES ASSUME NEW k
               PROVE  /\ Unpark(past', k, w) <=> Unpark(past, k, w) \/ k = n
                      /\ Unpark(past, k, w) => past'[k] = past[k] /\ k < n /\ k \in Nat
    OBVIOUS
  <2> QED BY ParkFacts, PastFacts DEF Unpark
<1>3. past'[n] = e /\ n \in Nat
  BY PastFacts
<1>4. \A k : Park(past, k, w) \/ Unpark(past, k, w) => past[k].waited \in Nat
  BY EventKinds, ParkFacts DEF Park, Unpark, WorkerKinds, RecordType
<1> HIDE DEF n
<1>5. read <= more /\ (e.read => e.wait + read = more) /\ e.wait \in Nat /\ e.wait <= more
  BY DEF WaitingOf, SatSub
<1>6. Grows(past', w, more)
  <2> SUFFICES ASSUME NEW k, Park(past', k, w) \/ Unpark(past', k, w)
               PROVE  /\ past'[k].waited <= more
                      /\ \A j : j < k /\ (Park(past', j, w) \/ Unpark(past', j, w)) => past'[j].waited <= past'[k].waited
    BY DEF Grows
  <2>1. \A j : Park(past, j, w) \/ Unpark(past, j, w) =>
           past'[j] = past[j] /\ past[j].waited \in Nat /\ past[j].waited <= wait /\ past[j].waited <= more /\ j < n /\ j \in Nat
    <3> SUFFICES ASSUME NEW j, Park(past, j, w) \/ Unpark(past, j, w)
                 PROVE  past'[j] = past[j] /\ past[j].waited \in Nat /\ past[j].waited <= wait /\ past[j].waited <= more
                        /\ j < n /\ j \in Nat
      OBVIOUS
    <3>1. past'[j] = past[j] /\ j < n /\ j \in Nat
      BY <1>1, <1>2
    <3>2. past[j].waited \in Nat
      BY <1>4
    <3>3. past[j].waited <= wait
      BY DEF WaitingOf, Grows
    <3> QED BY <3>1, <3>2, <3>3
  <2>2. CASE k = n
    <3>1. past'[k].waited = more
      BY <2>2, <1>3
    <3>2. ASSUME NEW j, j < k, Park(past', j, w) \/ Unpark(past', j, w) PROVE past'[j].waited <= more
      <4>1. j # n
        BY <2>2, <3>2, <1>3
      <4>2. Park(past, j, w) \/ Unpark(past, j, w)
        BY <3>2, <4>1, <1>1, <1>2
      <4> QED BY <4>2, <2>1
    <3>3. \A j : j < k /\ (Park(past', j, w) \/ Unpark(past', j, w)) => past'[j].waited <= past'[k].waited
      BY <3>1, <3>2
    <3>4. past'[k].waited <= more
      BY <3>1
    <3> QED BY <3>3, <3>4
  <2>3. CASE k # n
    <3>1. Park(past, k, w) \/ Unpark(past, k, w)
      BY <2>3, <1>1, <1>2
    <3>2. past'[k] = past[k] /\ past[k].waited <= more /\ k < n /\ k \in Nat
      BY <2>1, <3>1
    <3>3. ASSUME NEW j, j < k, Park(past', j, w) \/ Unpark(past', j, w) PROVE past'[j].waited <= past[k].waited
      <4>1. j # n
        BY <3>2, <3>3, <1>3
      <4>2. Park(past, j, w) \/ Unpark(past, j, w)
        BY <3>3, <4>1, <1>1, <1>2
      <4>3. past[j].waited <= past[k].waited
        BY <3>1, <3>3, <4>2 DEF WaitingOf, Grows
      <4> QED BY <4>2, <4>3, <2>1
    <3> QED BY <3>2, <3>3
  <2> QED BY <2>2, <2>3
<1>7. KeptAtPark(past', w, read)
  BY <1>1 DEF WaitingOf, KeptAtPark
<1>8. SincePark(past', w)
  <2> SUFFICES ASSUME NEW k, Unpark(past', k, w)
               PROVE  /\ past'[k].wait <= past'[k].waited
                      /\ \A j : j < k /\ Park(past', j, w) =>
                            /\ past'[j].read => past'[k].wait + past'[j].waited <= past'[k].waited
                            /\ past'[k].read /\ (\A m : m < k /\ Park(past', m, w) => m <= j)
                                 => past'[k].waited <= past'[k].wait + past'[j].waited
    BY DEF SincePark
  <2>1. CASE Unpark(past, k, w)
    BY <2>1, <1>1, <1>2 DEF WaitingOf, SincePark
  <2>2. CASE k = n
    <3>1. past'[k] = e
      BY <2>2, <1>3
    <3> SUFFICES ASSUME NEW j, j < k, Park(past, j, w)
                 PROVE  /\ past[j].read => e.wait + past[j].waited <= more
                        /\ e.read /\ (\A m : m < k /\ Park(past', m, w) => m <= j) => more <= e.wait + past[j].waited
      BY <3>1, <1>1, <1>5
    <3>2. past[j].waited \in Nat /\ past[j].waited <= wait /\ (past[j].read => past[j].waited <= read)
      BY <1>4 DEF WaitingOf, Grows, KeptAtPark
    <3>3. (\A m : m < k /\ Park(past', m, w) => m <= j) => read <= past[j].waited
      BY <2>2, <1>1 DEF WaitingOf, KeptAtPark
    <3> QED BY <3>2, <3>3, <1>5
  <2> QED BY <2>1, <2>2, <1>2
<1> QED BY <1>5, <1>6, <1>7, <1>8 DEF WaitingOf

\* the other events leave it alone
LEMMA WaitingKept ==
    ASSUME RecordType, Waiting, UNCHANGED sched,
           NEW e \in Events, past' = Append(past, e), e.kind \notin {"WorkerPark", "WorkerUnpark"}
    PROVE  Waiting'
<1> SUFFICES ASSUME NEW w \in Workers PROVE WaitingOf(past', w, waited'[w], parked_wait'[w])
  BY DEF Waiting
<1>1. WaitingOf(past, w, waited[w], parked_wait[w])
  BY DEF Waiting
<1>2. WaitingOf(past', w, waited[w], parked_wait[w])
  BY <1>1, WaitingSame
<1> QED BY <1>2 DEF sched

LEMMA WaitingNext == TaskType /\ RecordType /\ Waiting /\ [Next]_vars => Waiting'
<1> SUFFICES ASSUME TaskType, RecordType, Waiting, [Next]_vars PROVE Waiting'
  OBVIOUS
<1>1. ASSUME NEW w \in Workers, on_thread_park(w) PROVE Waiting'
  <2>1. PICK read \in BOOLEAN, ts \in Nat :
           /\ Puts(w, [kind |-> "WorkerPark", ts |-> ts, worker |-> w, read |-> read, waited |-> waited'[w]])
           /\ ParkStat(w, read)
    BY <1>1, ParkPut
  <2>2. PICK e \in Events : /\ past' = Append(past, e)
                            /\ e.kind = "WorkerPark" /\ e.worker = w /\ e.waited = waited'[w] /\ e.read = read
    BY <2>1 DEF Puts
  <2>3. /\ waited' \in [Workers -> Nat] /\ waited[w] <= waited'[w]
        /\ \A v \in Workers : v # w => waited'[v] = waited[v]
    BY <1>1, WaitsMore DEF on_thread_park
  <2>4. /\ parked_wait'[w] = IF e.read THEN waited'[w] ELSE parked_wait[w]
        /\ \A v \in Workers : v # w => parked_wait'[v] = parked_wait[v]
    BY <2>1, <2>2 DEF ParkStat, TaskType
  <2>5. waited[w] \in Nat /\ parked_wait[w] \in Nat /\ waited'[w] \in Nat
    BY <2>3 DEF TaskType
  <2>6. WaitingOf(past', w, waited'[w], parked_wait'[w])
    BY <2>2, <2>3, <2>4, <2>5, WaitingPark DEF Waiting
  <2>7. ASSUME NEW v \in Workers, v # w PROVE WaitingOf(past', v, waited'[v], parked_wait'[v])
    <3>1. WaitingOf(past, v, waited[v], parked_wait[v])
      BY DEF Waiting
    <3>2. WaitingOf(past', v, waited[v], parked_wait[v])
      BY <2>2, <2>7, <3>1, WaitingSame
    <3> QED BY <2>3, <2>4, <2>7, <3>2
  <2> QED BY <2>6, <2>7 DEF Waiting
<1>2. ASSUME NEW w \in Workers, on_thread_unpark(w) PROVE Waiting'
  <2>1. PICK read \in BOOLEAN, ts \in Nat :
              Puts(w, [kind |-> "WorkerUnpark", ts |-> ts, worker |-> w, read |-> read, waited |-> waited'[w],
                       wait |-> IF read THEN SatSub(waited'[w], parked_wait[w]) ELSE 0])
    BY <1>2, UnparkPut
  <2>2. PICK e \in Events : /\ past' = Append(past, e)
                            /\ e.kind = "WorkerUnpark" /\ e.worker = w /\ e.waited = waited'[w] /\ e.read = read
                            /\ e.wait = IF read THEN SatSub(waited'[w], parked_wait[w]) ELSE 0
    BY <2>1 DEF Puts
  <2>3. /\ waited' \in [Workers -> Nat] /\ waited[w] <= waited'[w]
        /\ \A v \in Workers : v # w => waited'[v] = waited[v]
    BY <1>2, WaitsMore DEF on_thread_unpark
  <2>4. UNCHANGED parked_wait
    BY <1>2 DEF on_thread_unpark
  <2>5. waited[w] \in Nat /\ parked_wait[w] \in Nat /\ waited'[w] \in Nat
    BY <2>3 DEF TaskType
  <2>6. WaitingOf(past', w, waited'[w], parked_wait'[w])
    BY <2>2, <2>3, <2>4, <2>5, WaitingUnpark DEF Waiting
  <2>7. ASSUME NEW v \in Workers, v # w PROVE WaitingOf(past', v, waited'[v], parked_wait'[v])
    <3>1. WaitingOf(past, v, waited[v], parked_wait[v])
      BY DEF Waiting
    <3>2. WaitingOf(past', v, waited[v], parked_wait[v])
      BY <2>2, <2>7, <3>1, WaitingSame
    <3> QED BY <2>3, <2>4, <2>7, <3>2
  <2> QED BY <2>6, <2>7 DEF Waiting
<1>3. ASSUME NEW w \in Workers, on_before_task_poll(w) PROVE Waiting'
  <2>1. PICK t \in Tasks, ts \in Nat :
           /\ Puts(w, [kind |-> "PollStart", ts |-> ts, worker |-> w, task |-> t])
           /\ BeforePoll(w, t)
    BY <1>3, PollStarts
  <2> QED BY <2>1, WaitingKept DEF Puts, BeforePoll
<1>4. ASSUME NEW w \in Workers, on_after_task_poll(w) PROVE Waiting'
  <2>1. PICK ts \in Nat : Puts(w, [kind |-> "PollEnd", ts |-> ts, worker |-> w])
    BY <1>4, PollEnds
  <2> QED BY <1>4, <2>1, WaitingKept DEF Puts, on_after_task_poll
<1>5. ASSUME NEW th \in Threads, wake_by_ref(th), UNCHANGED sched PROVE Waiting'
  <2>1. PICK c \in Channel, ts \in Nat :
              /\ Puts(th, [kind |-> "Wake", ts |-> ts, task |-> c[1], worker |-> th])
              /\ WakeOf(th, c)
    BY <1>5, WakePut
  <2> QED BY <1>5, <2>1, WaitingKept DEF Puts
<1>6. CASE record_queue_sample
  <2>1. PICK e \in Samples : Takes(e)
    BY <1>6, SampleTaken
  <2>2. e \in Events /\ e.kind \notin {"WorkerPark", "WorkerUnpark"}
    BY DEF Events, Samples
  <2> QED BY <1>6, <2>1, <2>2, WaitingKept DEF Takes, record_queue_sample
<1>7. CASE UNCHANGED <<past, sched>>
  BY <1>7 DEF Waiting, sched
<1>8. CASE Hooks
  BY <1>8, <1>1, <1>2, <1>3, <1>4 DEF Hooks
<1>9. CASE Futures
  BY <1>9, <1>5, <1>7 DEF Futures, Signal, inner_wake, recorded
<1>10. CASE SetEnabled \/ UNCHANGED vars
  BY <1>10, <1>7 DEF SetEnabled, vars, recorded
<1> QED BY <1>6, <1>8, <1>9, <1>10 DEF Next

-----------------------------------------------------------------------------
(* What is reported between two events of a worker *)

LEMMA LongPollsGenuine ==
    ASSUME RecordType, Placed
    PROVE  LET polls == detect_long_polls(events, Threshold)
           IN  /\ Genuine(polls, "PollStart", "PollEnd")
               /\ Found(polls, "PollStart", "PollEnd", LAMBDA q : Duration(past, q) >= Threshold)
<1> DEFINE polls == detect_long_polls(events, Threshold)
           pairs == Paired(events, "PollStart", "PollEnd")
<1>1. polls \subseteq pairs /\ \A p \in pairs : p \in polls <=> Duration(events, p) >= Threshold
  BY DEF detect_long_polls
<1>2. Genuine(pairs, "PollStart", "PollEnd")
  BY PairsGenuine DEF Placed, WorkerKinds
<1>3. Genuine(polls, "PollStart", "PollEnd")
  BY <1>1, <1>2 DEF Genuine
<1>4. ASSUME NEW q \in Paired(past, "PollStart", "PollEnd"), q[1] \in written, q[2] \in written, Duration(past, q) >= Threshold
      PROVE  \E p \in polls : trace[p[1]] = q[1] /\ trace[p[2]] = q[2]
  <2>1. PICK p \in pairs : trace[p[1]] = q[1] /\ trace[p[2]] = q[2]
    BY <1>4, PairsFound DEF Placed, WorkerKinds
  <2>2. p[1] \in 1 .. Len(trace) /\ p[2] \in 1 .. Len(trace)
    BY TracePairs, WrittenEvents DEF Pair, Of, Placed
  <2>3. Duration(events, p) = Duration(past, q)
    BY <2>1, <2>2, SameDuration DEF Placed
  <2> QED BY <1>1, <1>4, <2>1, <2>3
<1> HIDE DEF polls
<1>5. Found(polls, "PollStart", "PollEnd", LAMBDA q : Duration(past, q) >= Threshold)
  BY <1>4 DEF Found
<1> QED BY <1>3, <1>5 DEF polls

LEMMA ActivePeriodsGenuine ==
    ASSUME RecordType, Placed
    PROVE  LET periods == compute_active_periods(events)
           IN  /\ Genuine(periods, "WorkerUnpark", "WorkerPark")
               /\ Found(periods, "WorkerUnpark", "WorkerPark", LAMBDA q : TRUE)
<1> DEFINE periods == compute_active_periods(events)
<1>1. periods = Paired(events, "WorkerUnpark", "WorkerPark")
  BY DEF compute_active_periods
<1>2. Genuine(periods, "WorkerUnpark", "WorkerPark")
  BY <1>1, PairsGenuine DEF Placed, WorkerKinds
<1>3. ASSUME NEW q \in Paired(past, "WorkerUnpark", "WorkerPark"), q[1] \in written, q[2] \in written
      PROVE  \E p \in periods : trace[p[1]] = q[1] /\ trace[p[2]] = q[2]
  BY <1>1, <1>3, PairsFound DEF Placed, WorkerKinds
<1> HIDE DEF periods
<1>4. Found(periods, "WorkerUnpark", "WorkerPark", LAMBDA q : TRUE)
  BY <1>3 DEF Found
<1> QED BY <1>2, <1>4 DEF periods

LEMMA SchedDelaysGenuine ==
    ASSUME RecordType, Placed, Waiting
    PROVE  LET delays == detect_sched_delays(events, Threshold)
           IN  /\ Genuine(delays, "WorkerPark", "WorkerUnpark")
               /\ Found(delays, "WorkerPark", "WorkerUnpark",
                        LAMBDA q : past[q[2]].read /\ past[q[2]].waited - past[q[1]].waited >= Threshold)
               /\ \A p \in delays : events[p[2]].wait <= past[trace[p[2]]].waited - KnownWait(trace[p[1]])
<1> DEFINE delays == detect_sched_delays(events, Threshold)
           pairs == Paired(events, "WorkerPark", "WorkerUnpark")
<1>1. delays \subseteq pairs /\ \A p \in pairs : p \in delays <=> events[p[2]].wait >= Threshold
  BY DEF detect_sched_delays
<1>2. Genuine(pairs, "WorkerPark", "WorkerUnpark")
  BY PairsGenuine DEF Placed, WorkerKinds
<1>3. Genuine(delays, "WorkerPark", "WorkerUnpark")
  BY <1>1, <1>2 DEF Genuine
<1>4. ASSUME NEW p \in pairs
      PROVE  LET a == trace[p[1]]
                 b == trace[p[2]]
             IN  /\ a \in Nat /\ b \in Nat /\ a < b
                 /\ Park(past, a, past[a].worker) /\ Unpark(past, b, past[a].worker) /\ past[a].worker \in Workers
                 /\ events[p[2]].wait = past[b].wait /\ past[b].wait \in Nat /\ past[b].waited \in Nat
  <2> DEFINE a == trace[p[1]]
             b == trace[p[2]]
  <2>1. Pair(events, "WorkerPark", "WorkerUnpark", p[1], p[2])
    BY TracePairs DEF Placed
  <2>2. /\ p[1] \in 1 .. Len(trace) /\ p[2] \in 1 .. Len(trace) /\ a \in 1 .. Len(past) /\ b \in 1 .. Len(past)
        /\ past[a].kind = "WorkerPark" /\ past[b].kind = "WorkerUnpark" /\ past[a] \in Events /\ past[b] \in Events
    BY <2>1, WrittenEvents DEF Pair, Of, Placed
  <2>3. events[p[1]].worker = past[a].worker /\ events[p[2]].worker = past[b].worker /\ events[p[2]].wait = past[b].wait
    BY <2>2, WrittenEvents DEF Placed
  <2>4. past[a].worker = past[b].worker
    BY <2>1, <2>3 DEF Pair
  <2>5. a < b
    BY <1>2, <1>4 DEF Genuine
  <2>6. past[a].worker \in Workers /\ past[b].wait \in Nat /\ past[b].waited \in Nat
    BY <2>2, EventKinds DEF WorkerKinds
  <2> HIDE DEF a, b
  <2>7. Park(past, a, past[a].worker) /\ Unpark(past, b, past[a].worker)
    BY <2>2, <2>4 DEF Park, Unpark
  <2>8. a \in Nat /\ b \in Nat
    BY <2>2
  <2> QED BY <2>3, <2>5, <2>6, <2>7, <2>8 DEF a, b
<1>5. ASSUME NEW q \in Paired(past, "WorkerPark", "WorkerUnpark"), q[1] \in written, q[2] \in written,
             past[q[2]].read, past[q[2]].waited - past[q[1]].waited >= Threshold
      PROVE  \E p \in delays : trace[p[1]] = q[1] /\ trace[p[2]] = q[2]
  <2>1. PICK p \in pairs : trace[p[1]] = q[1] /\ trace[p[2]] = q[2]
    BY <1>5, PairsFound DEF Placed, WorkerKinds
  <2> DEFINE a == q[1]
             b == q[2]
             w == past[a].worker
  <2>2. /\ a \in Nat /\ b \in Nat /\ a < b /\ Park(past, a, w) /\ Unpark(past, b, w) /\ w \in Workers
        /\ events[p[2]].wait = past[b].wait /\ past[b].wait \in Nat /\ past[b].waited \in Nat
    BY <2>1, <1>4
  <2>3. Pair(past, "WorkerPark", "WorkerUnpark", a, b)
    BY PastPairs
  <2> HIDE DEF a, b
  <2>4. \A m : m < b /\ Park(past, m, w) => m <= a
    BY <2>2, <2>3 DEF Pair, Of, Park, Unpark, RecordType
  <2>5. WaitingOf(past, w, waited[w], parked_wait[w])
    BY <2>2 DEF Waiting
  <2>6. past[b].read => past[b].waited <= past[b].wait + past[a].waited
    BY <2>2, <2>4, <2>5 DEF WaitingOf, SincePark
  <2>7. past[a].waited \in Nat
    BY <2>2, EventKinds DEF Park, WorkerKinds, RecordType
  <2>8. past[b].wait >= Threshold
    BY <1>5, <2>2, <2>6, <2>7, TasksAssumption DEF a, b
  <2> QED BY <1>1, <2>1, <2>2, <2>8
<1>6. ASSUME NEW p \in delays PROVE events[p[2]].wait <= past[trace[p[2]]].waited - KnownWait(trace[p[1]])
  <2> DEFINE a == trace[p[1]]
             b == trace[p[2]]
             w == past[a].worker
             known == {k \in OfWorker(past[a].worker, {"WorkerPark"}) : k <= a /\ past[k].read}
  <2>1. /\ a \in Nat /\ b \in Nat /\ a < b /\ Park(past, a, w) /\ Unpark(past, b, w) /\ w \in Workers
        /\ events[p[2]].wait = past[b].wait /\ past[b].wait \in Nat /\ past[b].waited \in Nat
    BY <1>1, <1>4
  <2> HIDE DEF a, b
  <2>2. WaitingOf(past, w, waited[w], parked_wait[w])
    BY <2>1 DEF Waiting
  <2>3. CASE known = {}
    <3>1. KnownWait(a) = 0
      BY <2>3 DEF KnownWait
    <3>2. past[b].wait <= past[b].waited
      BY <2>1, <2>2 DEF WaitingOf, SincePark
    <3> QED BY <2>1, <3>1, <3>2 DEF a, b
  <2>4. CASE known # {}
    <3> DEFINE m == Max(known)
    <3>1. KnownWait(a) = past[m].waited
      BY <2>4 DEF KnownWait
    <3>2. known \subseteq Nat /\ \A k \in known : k <= a
      BY DEF OfWorker, Of, RecordType
    <3>3. m \in known
      <4> HIDE DEF known
      <4> QED BY <2>1, <2>4, <3>2, MaxFacts
    <3>4. Park(past, m, w) /\ past[m].read /\ m <= a /\ m \in Nat
      BY <3>2, <3>3 DEF OfWorker, Of, Park, RecordType
    <3> HIDE DEF m
    <3>5. past[b].wait + past[m].waited <= past[b].waited
      BY <2>1, <2>2, <3>4 DEF WaitingOf, SincePark
    <3>6. past[m].waited \in Nat
      BY <3>4, EventKinds DEF Park, WorkerKinds, RecordType
    <3>7. past[b].wait <= past[b].waited - past[m].waited
      BY <2>1, <3>5, <3>6
    <3> QED BY <2>1, <3>1, <3>7 DEF a, b
  <2> QED BY <2>3, <2>4
<1> HIDE DEF delays
<1>7. Found(delays, "WorkerPark", "WorkerUnpark",
            LAMBDA q : past[q[2]].read /\ past[q[2]].waited - past[q[1]].waited >= Threshold)
  BY <1>5 DEF Found
<1> QED BY <1>3, <1>6, <1>7 DEF delays

LEMMA PlacedInvariant == Spec => [](TasksInv /\ Placed /\ Waiting)
<1>1. Init => TasksInv /\ Placed /\ Waiting
  BY TaskInit, RecordInit, AloneInit, ListeningInit, PlacedInit, WaitingInit DEF TasksInv
<1>2. TasksInv /\ Placed /\ Waiting /\ [Next]_vars => (TasksInv /\ Placed /\ Waiting)'
  BY TaskNext, RecordNext, StepRecords, AloneNext, ListeningNext, PlacedNext, WaitingNext DEF TasksInv
<1> QED BY <1>1, <1>2, PTL DEF Spec

\* What the analysis reports between two events of a worker is true, and nothing that was
\* written whole is missed.
THEOREM ReportsAreGenuine == Spec => []PeriodsGenuine
<1>1. TasksInv /\ Placed /\ Waiting => PeriodsGenuine
  BY LongPollsGenuine, SchedDelaysGenuine, ActivePeriodsGenuine DEF TasksInv, PeriodsGenuine
<1> QED BY <1>1, PlacedInvariant, PTL

LEMMA TypeFacts == TasksInv /\ Placed => TypeOK
<1> SUFFICES ASSUME TasksInv, Placed PROVE TypeOK
  OBVIOUS
<1>0. TaskType /\ RecordType /\ Alone
  BY DEF TasksInv
<1>1. \A v, w \in Workers : v # w /\ stage[v].at \notin {"idle", "parked"}
                            => stage[w].at \in {"idle", "parked"} \/ stage[w].task # stage[v].task
  BY <1>0, StageFacts DEF Alone, InPoll
<1>2. inner \subseteq Tasks /\ waking \in [Threads -> Tasks \union {None}]
  BY <1>0 DEF TaskType
<1>3. \A th \in Threads : Range(buf[th]) \subseteq DOMAIN past
  <2> SUFFICES ASSUME NEW th \in Threads, NEW k \in Range(buf[th]) PROVE k \in DOMAIN past
    OBVIOUS
  <2>1. buf[th] \in Seq(Nat) /\ DOMAIN buf[th] = 1 .. Len(buf[th]) /\ DOMAIN past = 1 .. Len(past)
    BY <1>0 DEF RecordType
  <2>2. PICK i \in DOMAIN buf[th] : k = buf[th][i]
    BY DEF Range
  <2> QED BY <2>1, <2>2 DEF Placed, InBuffers, Held
<1>4. written \subseteq DOMAIN past
  BY <1>0, WrittenFacts DEF Placed, InTrace, RecordType
<1>5. Cardinality(written) = Len(trace)
  <2> DEFINE n == Len(trace)
             f == [i \in 1 .. n |-> trace[i]]
  <2>1. n \in Nat
    BY <1>0 DEF RecordType
  <2>2. \A i \in 1 .. n : trace[i] \in written
    BY <1>0, WrittenFacts
  <2>3. f \in [1 .. n -> written]
    BY <2>2
  <2>4. \A i, j \in 1 .. n : f[i] = f[j] => i = j
    BY DEF Placed, InTrace
  <2>5. \A k \in written : \E i \in 1 .. n : f[i] = k
    BY <1>0, WrittenFacts
  <2>6. ExistsBijection(1 .. n, written)
    <3> HIDE DEF f, n
    <3>1. f \in Bijection(1 .. n, written)
      BY <2>3, <2>4, <2>5, Fun_IsBij
    <3> QED BY <3>1 DEF ExistsBijection
  <2>7. IsFiniteSet(1 .. n) /\ Cardinality(1 .. n) = n
    BY <2>1, FS_Interval
  <2> HIDE DEF n
  <2> QED BY <2>6, <2>7, FS_Bijection DEF n
<1> QED BY <1>1, <1>2, <1>3, <1>4, <1>5 DEF TypeOK

\* No task is in two polls, and what is recorded is a part, without repetition, of what
\* happened.
THEOREM TasksTypeCorrect == Spec => []TypeOK
BY PlacedInvariant, TypeFacts, PTL

-----------------------------------------------------------------------------
(* Wakes and polls *)

PollsTo(p, t, l) == {k \in 1 .. Len(p) : p[k].kind = "PollStart" /\ p[k].task = t /\ k <= l}
WakesTo(p, t, l) == {k \in 1 .. Len(p) : p[k].kind = "Wake" /\ p[k].task = t /\ k < l}
Pending(t) == {th \in Threads : waking[th] = t}

\* While recording is on every waker is a traced one, and a poll of a task takes its spawning or
\* a wake that has been recorded: one that led to the poll, or is yet to be forwarded.
Steady == enabled /\ toggles = 0
AllTraced ==
    Steady => /\ \A c \in Channel : source[c] # "plain"
              /\ \A w \in Workers : stage[w].at = "polling" => stage[w].waker = "traced"
OnePerWake ==
    Steady => \A t \in Tasks :
        /\ IsFiniteSet(Pending(t))
        /\ Cardinality(PollsTo(past, t, Len(past))) + (IF t \in notified THEN 1 ELSE 0) + Cardinality(Pending(t))
              <= 1 + Cardinality(WakesTo(past, t, Len(past) + 1))
WokenBefore ==
    Steady => \A k \in 1 .. Len(past) : past[k].kind = "PollStart" =>
        Cardinality(PollsTo(past, past[k].task, k)) <= 1 + Cardinality(WakesTo(past, past[k].task, k))
Balanced == AllTraced /\ OnePerWake /\ WokenBefore

LEMMA CountsFinite ==
    ASSUME RecordType, NEW t, NEW l
    PROVE  /\ IsFiniteSet(PollsTo(past, t, l)) /\ Cardinality(PollsTo(past, t, l)) \in Nat
           /\ IsFiniteSet(WakesTo(past, t, l)) /\ Cardinality(WakesTo(past, t, l)) \in Nat
<1>1. IsFiniteSet(1 .. Len(past))
  BY FS_Interval DEF RecordType
<1>2. PollsTo(past, t, l) \in SUBSET (1 .. Len(past)) /\ WakesTo(past, t, l) \in SUBSET (1 .. Len(past))
  BY DEF PollsTo, WakesTo
<1>3. IsFiniteSet(PollsTo(past, t, l)) /\ IsFiniteSet(WakesTo(past, t, l))
  BY <1>1, <1>2, FS_Subset
<1> QED BY <1>3, FS_CardinalityType

\* What an event adds to the counts.
LEMMA CountsAppend ==
    ASSUME RecordType, NEW e \in Events, past' = Append(past, e), NEW t
    PROVE  LET n == Len(past) + 1
               starts == e.kind = "PollStart" /\ e.task = t
               wakes == e.kind = "Wake" /\ e.task = t
           IN  /\ Cardinality(PollsTo(past', t, n)) = Cardinality(PollsTo(past, t, Len(past))) + IF starts THEN 1 ELSE 0
               /\ Cardinality(WakesTo(past', t, n + 1)) = Cardinality(WakesTo(past, t, n)) + IF wakes THEN 1 ELSE 0
               /\ WakesTo(past', t, n) = WakesTo(past, t, n)
               /\ \A l \in 1 .. Len(past) : PollsTo(past', t, l) = PollsTo(past, t, l) /\ WakesTo(past', t, l) = WakesTo(past, t, l)
<1> DEFINE n == Len(past) + 1
           starts == e.kind = "PollStart" /\ e.task = t
           wakes == e.kind = "Wake" /\ e.task = t
<1>1. /\ Len(past) \in Nat /\ Len(past') = n /\ n \in Nat /\ n \in 1 .. n
      /\ \A i \in 1 .. Len(past) : past'[i] = past[i] /\ i \in Nat /\ i < n /\ i <= Len(past)
      /\ past'[n] = e
      /\ \A i : i \in 1 .. n <=> i \in 1 .. Len(past) \/ i = n
  BY PastFacts
<1> HIDE DEF n
<1>2. PollsTo(past', t, n) = IF starts THEN PollsTo(past, t, Len(past)) \union {n} ELSE PollsTo(past, t, Len(past))
  <2> SUFFICES ASSUME NEW k PROVE k \in PollsTo(past', t, n) <=> k \in PollsTo(past, t, Len(past)) \/ (starts /\ k = n)
    OBVIOUS
  <2>1. CASE k \in 1 .. Len(past)
    BY <2>1, <1>1 DEF PollsTo
  <2>2. CASE k = n
    BY <2>2, <1>1 DEF PollsTo
  <2>3. CASE k \notin 1 .. n
    BY <2>3, <1>1 DEF PollsTo
  <2> QED BY <2>1, <2>2, <2>3, <1>1
<1>3. WakesTo(past', t, n + 1) = IF wakes THEN WakesTo(past, t, n) \union {n} ELSE WakesTo(past, t, n)
  <2> SUFFICES ASSUME NEW k PROVE k \in WakesTo(past', t, n + 1) <=> k \in WakesTo(past, t, n) \/ (wakes /\ k = n)
    OBVIOUS
  <2>1. CASE k \in 1 .. Len(past)
    BY <2>1, <1>1 DEF WakesTo
  <2>2. CASE k = n
    BY <2>2, <1>1 DEF WakesTo
  <2>3. CASE k \notin 1 .. n
    BY <2>3, <1>1 DEF WakesTo
  <2> QED BY <2>1, <2>2, <2>3, <1>1
<1>4. \A l \in 1 .. Len(past) : PollsTo(past', t, l) = PollsTo(past, t, l) /\ WakesTo(past', t, l) = WakesTo(past, t, l)
  <2> SUFFICES ASSUME NEW l \in 1 .. Len(past), NEW k
               PROVE  /\ k \in PollsTo(past', t, l) <=> k \in PollsTo(past, t, l)
                      /\ k \in WakesTo(past', t, l) <=> k \in WakesTo(past, t, l)
    OBVIOUS
  <2>1. CASE k \in 1 .. Len(past)
    BY <2>1, <1>1 DEF PollsTo, WakesTo
  <2>2. CASE k = n
    BY <2>2, <1>1 DEF PollsTo, WakesTo
  <2>3. CASE k \notin 1 .. n
    BY <2>3, <1>1 DEF PollsTo, WakesTo
  <2> QED BY <2>1, <2>2, <2>3, <1>1
<1>5. WakesTo(past', t, n) = WakesTo(past, t, n)
  <2> SUFFICES ASSUME NEW k PROVE k \in WakesTo(past', t, n) <=> k \in WakesTo(past, t, n)
    OBVIOUS
  <2>1. CASE k \in 1 .. Len(past)
    BY <2>1, <1>1 DEF WakesTo
  <2>2. CASE k = n
    BY <2>2, <1>1 DEF WakesTo
  <2>3. CASE k \notin 1 .. n
    BY <2>3, <1>1 DEF WakesTo
  <2> QED BY <2>1, <2>2, <2>3, <1>1
<1>6. n \notin PollsTo(past, t, Len(past)) /\ n \notin WakesTo(past, t, n)
  BY <1>1 DEF PollsTo, WakesTo
<1>7. Cardinality(PollsTo(past', t, n)) = Cardinality(PollsTo(past, t, Len(past))) + IF starts THEN 1 ELSE 0
  <2>1. IsFiniteSet(PollsTo(past, t, Len(past))) /\ Cardinality(PollsTo(past, t, Len(past))) \in Nat
    BY CountsFinite
  <2>2. CASE starts
    BY <2>1, <2>2, <1>2, <1>6, FS_AddElement
  <2>3. CASE ~starts
    BY <2>1, <2>3, <1>2
  <2> QED BY <2>2, <2>3
<1>8. Cardinality(WakesTo(past', t, n + 1)) = Cardinality(WakesTo(past, t, n)) + IF wakes THEN 1 ELSE 0
  <2>1. IsFiniteSet(WakesTo(past, t, n)) /\ Cardinality(WakesTo(past, t, n)) \in Nat
    BY CountsFinite
  <2>2. CASE wakes
    BY <2>1, <2>2, <1>3, <1>6, FS_AddElement
  <2>3. CASE ~wakes
    BY <2>1, <2>3, <1>3
  <2> QED BY <2>2, <2>3
<1> QED BY <1>4, <1>5, <1>7, <1>8 DEF n

LEMMA PendingEmpty ==
    ASSUME NEW t \in Tasks, \A th \in Threads : waking[th] = None
    PROVE  IsFiniteSet(Pending(t)) /\ Cardinality(Pending(t)) = 0
<1>1. Pending(t) = {}
  BY TasksAssumption DEF Pending
<1> QED BY <1>1, FS_EmptySet

LEMMA BalancedInit == Init => Balanced
<1> SUFFICES ASSUME Init PROVE Balanced
  OBVIOUS
<1>1. AllTraced
  BY DEF Init, AllTraced, Channel, None, Idle, Parked
<1>2. Len(past) = 0 /\ past \in Seq(Events)
  BY DEF Init
<1>3. WokenBefore
  BY <1>2 DEF WokenBefore
<1>4. OnePerWake
  <2> SUFFICES ASSUME NEW t \in Tasks
               PROVE  /\ IsFiniteSet(Pending(t))
                      /\ Cardinality(PollsTo(past, t, Len(past))) + (IF t \in notified THEN 1 ELSE 0) + Cardinality(Pending(t))
                           <= 1 + Cardinality(WakesTo(past, t, Len(past) + 1))
    BY DEF OnePerWake
  <2>1. PollsTo(past, t, Len(past)) = {} /\ WakesTo(past, t, Len(past) + 1) = {}
    BY <1>2 DEF PollsTo, WakesTo
  <2>2. IsFiniteSet(Pending(t)) /\ Cardinality(Pending(t)) = 0
    BY PendingEmpty DEF Init
  <2>3. Cardinality(PollsTo(past, t, Len(past))) = 0 /\ Cardinality(WakesTo(past, t, Len(past) + 1)) = 0
    BY <2>1, FS_EmptySet
  <2>4. 0 + (IF t \in notified THEN 1 ELSE 0) + 0 <= 1 + 0
    OBVIOUS
  <2> QED BY <2>2, <2>3, <2>4
<1> QED BY <1>1, <1>3, <1>4 DEF Balanced

LEMMA AllTracedNext == TaskType /\ RecordType /\ AllTraced /\ [Next]_vars => AllTraced'
<1> SUFFICES ASSUME TaskType, RecordType, AllTraced, [Next]_vars, Steady' PROVE AllTraced'
  BY DEF AllTraced
<1>0. Steady /\ UNCHANGED scenario /\ (SetEnabled => FALSE)
  <2>1. CASE SetEnabled
    <3>1. toggles \in Nat /\ toggles' = toggles + 1 /\ toggles' = 0
      BY <2>1 DEF SetEnabled, TaskType, Steady
    <3> QED BY <3>1
  <2>2. CASE Hooks \/ Futures \/ record_queue_sample \/ UNCHANGED vars
    <3>1. UNCHANGED <<scenario, enabled, toggles>>
      BY <2>2 DEF Hooks, Futures, record_queue_sample, vars
    <3>2. ~ SetEnabled
      BY <3>1 DEF SetEnabled, TaskType
    <3> QED BY <3>1, <3>2 DEF Steady
  <2> QED BY <2>1, <2>2 DEF Next
<1>c. Channel' = Channel
  BY <1>0 DEF Channel
<1>p. (\A c \in Channel : source[c] # "plain") /\ \A w \in Workers : stage[w].at = "polling" => stage[w].waker = "traced"
  BY <1>0 DEF AllTraced
<1>1. ASSUME NEW w \in Workers, on_before_task_poll(w) PROVE AllTraced'
  <2>1. PICK t \in Tasks : BeforePoll(w, t)
    BY <1>1, PollStarts
  <2> QED BY <2>1, <1>c, <1>p DEF BeforePoll, AllTraced, TaskType
<1>2. ASSUME NEW w \in Workers, on_after_task_poll(w) \/ on_thread_park(w) \/ on_thread_unpark(w) PROVE AllTraced'
  <2>1. stage' \in {[stage EXCEPT ![w] = Idle], [stage EXCEPT ![w] = Parked]} /\ UNCHANGED source
    BY <1>2 DEF on_after_task_poll, on_thread_park, on_thread_unpark, tasks
  <2>2. \A v \in Workers : stage'[v].at = "polling" => stage'[v] = stage[v]
    BY <2>1 DEF TaskType, Idle, Parked
  <2> QED BY <2>1, <2>2, <1>c, <1>p DEF AllTraced
<1>3. ASSUME NEW w \in Workers, poll(w) PROVE AllTraced'
  BY <1>3, <1>0, <1>c, <1>p DEF poll, AllTraced, TaskType, Steady
<1>4. ASSUME NEW w \in Workers, InnerPoll(w) PROVE AllTraced'
  <2>1. stage[w].waker = "traced" /\ \A c \in Channel : source'[c] \in {None, "traced", source[c]}
    BY <1>4, <1>p DEF InnerPoll, TaskType
  <2>2. \A c \in Channel : source'[c] # "plain"
    BY <2>1, <1>p DEF None
  <2>3. \A v \in Workers : stage'[v].at = "polling" => stage'[v].waker = "traced"
    BY <1>4, <1>p DEF InnerPoll, TaskType
  <2> QED BY <2>2, <2>3, <1>c DEF AllTraced
<1>5. ASSUME NEW th \in Threads, Signal(th) PROVE AllTraced'
  BY <1>5, <1>c, <1>p DEF Signal, AllTraced, TaskType, None
<1>6. ASSUME NEW th \in Threads, wake_by_ref(th) PROVE AllTraced'
  <2>1. PICK c \in Channel : WakeOf(th, c)
    BY <1>6, WakePut
  <2> QED BY <2>1, <1>c, <1>p DEF WakeOf, AllTraced, TaskType, None
<1>7. CASE UNCHANGED <<stage, source>>
  BY <1>7, <1>c, <1>p DEF AllTraced
<1> QED BY <1>0, <1>1, <1>2, <1>3, <1>4, <1>5, <1>6, <1>7
        DEF Next, Hooks, Futures, inner_wake, record_queue_sample, vars, tasks

NotifiedOf(ready, t) == IF t \in ready THEN 1 ELSE 0

\* An event: a poll that starts takes a task off the run queue, a wake is about to be forwarded.
LEMMA BalanceEvent ==
    ASSUME RecordType, OnePerWake, WokenBefore, Steady, NEW e \in Events, past' = Append(past, e),
           \A t \in Tasks :
              /\ IsFiniteSet(Pending(t)')
              /\ NotifiedOf(notified', t) + Cardinality(Pending(t)') + (IF e.kind = "PollStart" /\ e.task = t THEN 1 ELSE 0)
                   <= NotifiedOf(notified, t) + Cardinality(Pending(t)) + (IF e.kind = "Wake" /\ e.task = t THEN 1 ELSE 0),
           e.kind = "PollStart" => e.task \in notified
    PROVE  OnePerWake' /\ WokenBefore'
<1> DEFINE n == Len(past) + 1
           polls(t) == Cardinality(PollsTo(past, t, Len(past)))
           wakes(t) == Cardinality(WakesTo(past, t, n))
           start(t) == IF e.kind = "PollStart" /\ e.task = t THEN 1 ELSE 0
           wake(t) == IF e.kind = "Wake" /\ e.task = t THEN 1 ELSE 0
<1>1. Len(past') = n /\ n \in Nat /\ past'[n] = e /\ \A k \in 1 .. Len(past) : past'[k] = past[k] /\ past[k] \in Events
  BY PastFacts
<1>2. \A t : /\ Cardinality(PollsTo(past', t, n)) = polls(t) + start(t)
             /\ Cardinality(WakesTo(past', t, n + 1)) = wakes(t) + wake(t)
             /\ WakesTo(past', t, n) = WakesTo(past, t, n)
             /\ \A l \in 1 .. Len(past) : PollsTo(past', t, l) = PollsTo(past, t, l) /\ WakesTo(past', t, l) = WakesTo(past, t, l)
  BY CountsAppend
<1>3. \A t \in Tasks : /\ polls(t) \in Nat /\ wakes(t) \in Nat /\ start(t) \in Nat /\ wake(t) \in Nat
                       /\ IsFiniteSet(Pending(t)) /\ Cardinality(Pending(t)) \in Nat /\ Cardinality(Pending(t)') \in Nat
                       /\ polls(t) + NotifiedOf(notified, t) + Cardinality(Pending(t)) <= 1 + wakes(t)
  BY CountsFinite, FS_CardinalityType DEF OnePerWake, NotifiedOf
<1>4. \A t \in Tasks : NotifiedOf(notified, t) \in Nat /\ NotifiedOf(notified', t) \in Nat
  BY DEF NotifiedOf
<1> HIDE DEF start, wake, polls, wakes
<1>5. \A t \in Tasks : polls(t) + start(t) + NotifiedOf(notified', t) + Cardinality(Pending(t)') <= 1 + wakes(t) + wake(t)
  BY <1>3, <1>4 DEF start, wake
<1> HIDE DEF n
<1>6. OnePerWake'
  <2> SUFFICES ASSUME NEW t \in Tasks
               PROVE  /\ IsFiniteSet(Pending(t)')
                      /\ Cardinality(PollsTo(past', t, Len(past'))) + (IF t \in notified' THEN 1 ELSE 0) + Cardinality(Pending(t)')
                           <= 1 + Cardinality(WakesTo(past', t, Len(past') + 1))
    BY DEF OnePerWake
  <2>1. /\ Cardinality(PollsTo(past', t, Len(past'))) = polls(t) + start(t)
        /\ Cardinality(WakesTo(past', t, Len(past') + 1)) = wakes(t) + wake(t)
    BY <1>1, <1>2
  <2>2. (polls(t) + start(t)) + NotifiedOf(notified', t) + Cardinality(Pending(t)') <= 1 + (wakes(t) + wake(t))
    BY <1>3, <1>4, <1>5
  <2> QED BY <2>1, <2>2 DEF NotifiedOf
<1>7. WokenBefore'
  <2> SUFFICES ASSUME NEW k \in 1 .. Len(past'), past'[k].kind = "PollStart"
               PROVE  Cardinality(PollsTo(past', past'[k].task, k)) <= 1 + Cardinality(WakesTo(past', past'[k].task, k))
    BY DEF WokenBefore
  <2>1. CASE k \in 1 .. Len(past)
    BY <2>1, <1>1, <1>2 DEF WokenBefore
  <2>2. CASE k = n
    <3>1. past'[k] = e /\ e.kind = "PollStart" /\ e.task \in notified
      BY <2>2, <1>1
    <3> DEFINE t == e.task
    <3>2. t \in Tasks
      BY <3>1, EventKinds
    <3>3. start(t) = 1 /\ wake(t) = 0 /\ NotifiedOf(notified, t) = 1
      BY <3>1 DEF start, wake, NotifiedOf
    <3> HIDE DEF t
    <3>4. polls(t) + start(t) <= 1 + wakes(t)
      BY <1>3, <3>2, <3>3
    <3> QED BY <2>2, <3>1, <3>4, <1>2 DEF wakes, t
  <2> QED BY <2>1, <2>2, <1>1 DEF n
<1> QED BY <1>6, <1>7

\* No event.
LEMMA BalanceKept ==
    ASSUME RecordType, OnePerWake, WokenBefore, Steady, UNCHANGED past,
           \A t \in Tasks :
              /\ IsFiniteSet(Pending(t)')
              /\ NotifiedOf(notified', t) + Cardinality(Pending(t)') <= NotifiedOf(notified, t) + Cardinality(Pending(t))
    PROVE  OnePerWake' /\ WokenBefore'
<1>1. \A t \in Tasks : /\ Cardinality(PollsTo(past, t, Len(past))) \in Nat /\ Cardinality(WakesTo(past, t, Len(past) + 1)) \in Nat
                       /\ IsFiniteSet(Pending(t)) /\ Cardinality(Pending(t)) \in Nat /\ Cardinality(Pending(t)') \in Nat
  BY CountsFinite, FS_CardinalityType DEF OnePerWake
<1>2. \A t \in Tasks : NotifiedOf(notified, t) \in Nat /\ NotifiedOf(notified', t) \in Nat
  BY DEF NotifiedOf
<1>3. OnePerWake'
  <2> SUFFICES ASSUME NEW t \in Tasks
               PROVE  /\ IsFiniteSet(Pending(t)')
                      /\ Cardinality(PollsTo(past, t, Len(past))) + NotifiedOf(notified', t) + Cardinality(Pending(t)')
                           <= 1 + Cardinality(WakesTo(past, t, Len(past) + 1))
    BY DEF OnePerWake, NotifiedOf
  <2>1. Cardinality(PollsTo(past, t, Len(past))) + NotifiedOf(notified, t) + Cardinality(Pending(t))
                           <= 1 + Cardinality(WakesTo(past, t, Len(past) + 1))
    BY DEF OnePerWake, NotifiedOf
  <2> QED BY <1>1, <1>2, <2>1
<1>4. WokenBefore'
  BY DEF WokenBefore
<1> QED BY <1>3, <1>4

\* Nobody wakes or is woken.
LEMMA BalanceQuiet ==
    ASSUME RecordType, OnePerWake, WokenBefore, Steady, UNCHANGED <<notified, waking>>,
           UNCHANGED past \/ \E e \in Events : past' = Append(past, e) /\ e.kind # "PollStart"
    PROVE  OnePerWake' /\ WokenBefore'
<1>1. \A t \in Tasks : /\ Pending(t)' = Pending(t) /\ IsFiniteSet(Pending(t)) /\ Cardinality(Pending(t)) \in Nat
  BY FS_CardinalityType DEF OnePerWake, Pending
<1>2. \A t \in Tasks : NotifiedOf(notified', t) = NotifiedOf(notified, t) /\ NotifiedOf(notified, t) \in Nat
  BY DEF NotifiedOf
<1>3. CASE UNCHANGED past
  <2>1. \A t \in Tasks :
              /\ IsFiniteSet(Pending(t)')
              /\ NotifiedOf(notified', t) + Cardinality(Pending(t)') <= NotifiedOf(notified, t) + Cardinality(Pending(t))
    BY <1>1, <1>2
  <2> QED BY <1>3, <2>1, BalanceKept
<1>4. ASSUME NEW e \in Events, past' = Append(past, e), e.kind # "PollStart" PROVE OnePerWake' /\ WokenBefore'
  <2>1. \A t \in Tasks :
              /\ IsFiniteSet(Pending(t)')
              /\ NotifiedOf(notified', t) + Cardinality(Pending(t)') + (IF e.kind = "PollStart" /\ e.task = t THEN 1 ELSE 0)
                   <= NotifiedOf(notified, t) + Cardinality(Pending(t)) + (IF e.kind = "Wake" /\ e.task = t THEN 1 ELSE 0)
    BY <1>1, <1>2, <1>4
  <2> QED BY <1>4, <2>1, BalanceEvent
<1> QED BY <1>3, <1>4

LEMMA BalanceNext == TaskType /\ RecordType /\ Balanced /\ [Next]_vars => Balanced'
<1> SUFFICES ASSUME TaskType, RecordType, Balanced, [Next]_vars PROVE Balanced'
  OBVIOUS
<1>1. AllTraced'
  BY AllTracedNext DEF Balanced
<1>2. SUFFICES ASSUME Steady' PROVE OnePerWake' /\ WokenBefore'
  <2>1. CASE ~Steady'
    BY <2>1, <1>1 DEF Balanced, OnePerWake, WokenBefore
  <2>2. CASE Steady'
    BY <1>1, <1>2, <2>2 DEF Balanced
  <2> QED BY <2>1, <2>2
<1>3. Steady /\ ~SetEnabled
  <2>1. CASE SetEnabled
    <3>1. toggles \in Nat /\ toggles' = toggles + 1 /\ toggles' = 0
      BY <1>2, <2>1 DEF SetEnabled, TaskType, Steady
    <3> QED BY <3>1
  <2>2. CASE Hooks \/ Futures \/ record_queue_sample \/ UNCHANGED vars
    <3>1. UNCHANGED <<enabled, toggles>>
      BY <2>2 DEF Hooks, Futures, record_queue_sample, vars
    <3>2. ~ SetEnabled
      BY <3>1 DEF SetEnabled, TaskType
    <3> QED BY <1>2, <3>1, <3>2 DEF Steady
  <2> QED BY <2>1, <2>2 DEF Next
<1>4. OnePerWake /\ WokenBefore
  BY DEF Balanced
<1>f. \A t \in Tasks : /\ IsFiniteSet(Pending(t)) /\ Cardinality(Pending(t)) \in Nat
                       /\ NotifiedOf(notified, t) \in Nat /\ NotifiedOf(notified', t) \in Nat
  BY <1>3, <1>4, FS_CardinalityType DEF OnePerWake, NotifiedOf
<1>5. ASSUME NEW w \in Workers, on_before_task_poll(w) PROVE OnePerWake' /\ WokenBefore'
  <2>1. PICK u \in Tasks, ts \in Nat :
           /\ Puts(w, [kind |-> "PollStart", ts |-> ts, worker |-> w, task |-> u])
           /\ BeforePoll(w, u)
    BY <1>5, PollStarts
  <2>2. PICK e \in Events : past' = Append(past, e) /\ e.kind = "PollStart" /\ e.task = u
    BY <2>1 DEF Puts
  <2>3. u \in notified /\ notified' = notified \ {u} /\ UNCHANGED waking
    BY <2>1 DEF BeforePoll
  <2>4. \A t \in Tasks :
              /\ IsFiniteSet(Pending(t)')
              /\ NotifiedOf(notified', t) + Cardinality(Pending(t)') + (IF e.kind = "PollStart" /\ e.task = t THEN 1 ELSE 0)
                   <= NotifiedOf(notified, t) + Cardinality(Pending(t)) + (IF e.kind = "Wake" /\ e.task = t THEN 1 ELSE 0)
    <3> SUFFICES ASSUME NEW t \in Tasks
                 PROVE  /\ IsFiniteSet(Pending(t)')
                        /\ NotifiedOf(notified', t) + Cardinality(Pending(t)') + (IF u = t THEN 1 ELSE 0)
                             <= NotifiedOf(notified, t) + Cardinality(Pending(t)) + 0
      BY <2>2
    <3>1. Pending(t)' = Pending(t)
      BY <2>3 DEF Pending
    <3>2. NotifiedOf(notified', t) + (IF u = t THEN 1 ELSE 0) = NotifiedOf(notified, t)
      BY <2>3 DEF NotifiedOf
    <3> QED BY <3>1, <3>2, <1>f
  <2> QED BY <1>3, <1>4, <2>2, <2>3, <2>4, BalanceEvent
<1>6. ASSUME NEW w \in Workers, on_after_task_poll(w) PROVE OnePerWake' /\ WokenBefore'
  <2>1. PICK ts \in Nat : Puts(w, [kind |-> "PollEnd", ts |-> ts, worker |-> w])
    BY <1>6, PollEnds
  <2>2. PICK e \in Events : past' = Append(past, e) /\ e.kind # "PollStart"
    BY <2>1 DEF Puts
  <2> QED BY <1>3, <1>4, <1>6, <2>2, BalanceQuiet DEF on_after_task_poll, tasks
<1>7. ASSUME NEW w \in Workers, on_thread_park(w) PROVE OnePerWake' /\ WokenBefore'
  <2>1. PICK read \in BOOLEAN, ts \in Nat :
           Puts(w, [kind |-> "WorkerPark", ts |-> ts, worker |-> w, read |-> read, waited |-> waited'[w]])
    BY <1>7, ParkPut
  <2>2. PICK e \in Events : past' = Append(past, e) /\ e.kind # "PollStart"
    BY <2>1 DEF Puts
  <2> QED BY <1>3, <1>4, <1>7, <2>2, BalanceQuiet DEF on_thread_park, tasks
<1>8. ASSUME NEW w \in Workers, on_thread_unpark(w) PROVE OnePerWake' /\ WokenBefore'
  <2>1. PICK read \in BOOLEAN, ts \in Nat :
              Puts(w, [kind |-> "WorkerUnpark", ts |-> ts, worker |-> w, read |-> read, waited |-> waited'[w],
                       wait |-> IF read THEN SatSub(waited'[w], parked_wait[w]) ELSE 0])
    BY <1>8, UnparkPut
  <2>2. PICK e \in Events : past' = Append(past, e) /\ e.kind # "PollStart"
    BY <2>1 DEF Puts
  <2> QED BY <1>3, <1>4, <1>8, <2>2, BalanceQuiet DEF on_thread_unpark, tasks
<1>9. CASE record_queue_sample
  <2>1. PICK e \in Samples : Takes(e)
    BY <1>9, SampleTaken
  <2>2. e \in Events /\ past' = Append(past, e) /\ e.kind # "PollStart"
    BY <2>1 DEF Takes, Samples, Events
  <2> QED BY <1>3, <1>4, <1>9, <2>2, BalanceQuiet DEF record_queue_sample, tasks
<1>10. ASSUME NEW th \in Threads, wake_by_ref(th) PROVE OnePerWake' /\ WokenBefore'
  <2>1. PICK c \in Channel, ts \in Nat :
              /\ Puts(th, [kind |-> "Wake", ts |-> ts, task |-> c[1], worker |-> th])
              /\ WakeOf(th, c)
    BY <1>10, WakePut
  <2> DEFINE u == c[1]
  <2>2. PICK e \in Events : past' = Append(past, e) /\ e.kind = "Wake" /\ e.task = u
    BY <2>1 DEF Puts
  <2>3. UNCHANGED notified /\ waking[th] = None /\ waking' = [waking EXCEPT ![th] = u] /\ u \in Tasks
    BY <2>1 DEF WakeOf
  <2> HIDE DEF u
  <2>4. \A t \in Tasks :
              /\ IsFiniteSet(Pending(t)')
              /\ NotifiedOf(notified', t) + Cardinality(Pending(t)') + (IF e.kind = "PollStart" /\ e.task = t THEN 1 ELSE 0)
                   <= NotifiedOf(notified, t) + Cardinality(Pending(t)) + (IF e.kind = "Wake" /\ e.task = t THEN 1 ELSE 0)
    <3> SUFFICES ASSUME NEW t \in Tasks
                 PROVE  /\ IsFiniteSet(Pending(t)')
                        /\ NotifiedOf(notified', t) + Cardinality(Pending(t)') + 0
                             <= NotifiedOf(notified, t) + Cardinality(Pending(t)) + (IF u = t THEN 1 ELSE 0)
      BY <2>2
    <3>1. Pending(t)' = IF u = t THEN Pending(t) \union {th} ELSE Pending(t)
      BY <2>3, TasksAssumption DEF Pending, TaskType
    <3>2. th \notin Pending(t)
      BY <2>3, TasksAssumption DEF Pending
    <3>3. IsFiniteSet(Pending(t)') /\ Cardinality(Pending(t)') = Cardinality(Pending(t)) + (IF u = t THEN 1 ELSE 0)
      <4>1. CASE u = t
        BY <4>1, <3>1, <3>2, <1>f, FS_AddElement
      <4>2. CASE u # t
        BY <4>2, <3>1, <1>f
      <4> QED BY <4>1, <4>2
    <3>4. NotifiedOf(notified', t) = NotifiedOf(notified, t)
      BY <2>3
    <3> QED BY <3>3, <3>4, <1>f
  <2> QED BY <1>3, <1>4, <2>2, <2>4, BalanceEvent
<1>11. ASSUME NEW th \in Threads, inner_wake(th) PROVE OnePerWake' /\ WokenBefore'
  <2> DEFINE u == waking[th]
  <2>1. /\ u # None /\ u \in Tasks /\ waking' = [waking EXCEPT ![th] = None] /\ UNCHANGED past
        /\ notified' = IF u \in inner THEN notified \union {u} ELSE notified
    BY <1>11 DEF inner_wake, TaskType, recorded
  <2>2. \A t \in Tasks :
              /\ IsFiniteSet(Pending(t)')
              /\ NotifiedOf(notified', t) + Cardinality(Pending(t)') <= NotifiedOf(notified, t) + Cardinality(Pending(t))
    <3> SUFFICES ASSUME NEW t \in Tasks
                 PROVE  /\ IsFiniteSet(Pending(t)')
                        /\ NotifiedOf(notified', t) + Cardinality(Pending(t)') <= NotifiedOf(notified, t) + Cardinality(Pending(t))
      OBVIOUS
    <3>1. Pending(t)' = Pending(t) \ {th}
      BY <2>1, TasksAssumption DEF Pending, TaskType
    <3>2. th \in Pending(t) <=> u = t
      BY DEF Pending
    <3>3. IsFiniteSet(Pending(t)') /\ Cardinality(Pending(t)') = Cardinality(Pending(t)) - (IF u = t THEN 1 ELSE 0)
      BY <3>1, <3>2, <1>f, FS_RemoveElement
    <3>4. NotifiedOf(notified', t) <= NotifiedOf(notified, t) + (IF u = t THEN 1 ELSE 0)
      BY <2>1 DEF NotifiedOf
    <3> QED BY <3>3, <3>4, <1>f
  <2> QED BY <1>3, <1>4, <2>1, <2>2, BalanceKept
<1>12. ASSUME NEW th \in Threads, Signal(th) PROVE OnePerWake' /\ WokenBefore'
  <2>1. PICK c \in (Tasks \ done) \X scenario.channels :
           notified' = IF source[c] = "plain" THEN notified \union {c[1]} ELSE notified
    BY <1>12 DEF Signal
  <2>2. source[c] # "plain"
    BY <1>3 DEF Balanced, AllTraced, Channel
  <2>3. UNCHANGED <<notified, waking, past>>
    BY <1>12, <2>1, <2>2 DEF Signal, recorded
  <2> QED BY <1>3, <1>4, <2>3, BalanceQuiet
<1>13. CASE UNCHANGED <<past, notified, waking>>
  BY <1>3, <1>4, <1>13, BalanceQuiet
<1>14. ASSUME NEW w \in Workers, poll(w) \/ InnerPoll(w) PROVE UNCHANGED <<notified, waking>>
  BY <1>14 DEF poll, InnerPoll
<1>15. CASE Futures
  BY <1>15, <1>10, <1>11, <1>12, <1>13, <1>14 DEF Futures, recorded
<1>16. CASE Hooks
  BY <1>16, <1>5, <1>6, <1>7, <1>8 DEF Hooks
<1>17. CASE UNCHANGED vars
  BY <1>17, <1>13 DEF vars, tasks, recorded
<1> QED BY <1>3, <1>9, <1>15, <1>16, <1>17 DEF Next

LEMMA WakeDelaysFacts ==
    ASSUME RecordType, Placed, Balanced PROVE WakeDelaysGenuine
<1> SUFFICES ASSUME Steady, Of(past, {"Wake", "PollStart"}) \subseteq written, NEW d \in detect_wake_delays(events, Threshold, Limit)
             PROVE  LET t == events[d.poll].task
                        polls == {k \in Of(past, {"PollStart"}) : past[k].task = t /\ k <= trace[d.poll]}
                        wakes == {k \in Of(past, {"Wake"}) : past[k].task = t /\ k < trace[d.poll] /\ past[k].ts <= d.wake}
                    IN  Cardinality(polls) <= 1 + Cardinality(wakes)
  BY DEF WakeDelaysGenuine, Steady
<1>1. PICK i \in Of(events, {"Wake"}), j \in Of(events, {"PollStart"}) :
         d = [wake |-> events[i].ts, poll |-> j] /\ i \in LastWake(events, j)
  BY DEF detect_wake_delays
<1> DEFINE l == trace[j]
           t == events[d.poll].task
           polls == {k \in Of(past, {"PollStart"}) : past[k].task = t /\ k <= trace[d.poll]}
           wakes == {k \in Of(past, {"Wake"}) : past[k].task = t /\ k < trace[d.poll] /\ past[k].ts <= d.wake}
<1>2. /\ l \in 1 .. Len(past) /\ past[l].kind = "PollStart" /\ t = past[l].task /\ events[j].ts = past[l].ts
      /\ j \in 1 .. Len(trace) /\ d.poll = j /\ d.wake = events[i].ts
  BY <1>1, WrittenEvents DEF Of, Placed
<1>3. polls = PollsTo(past, t, l)
  BY <1>2 DEF Of, PollsTo, RecordType
<1>4. \A k \in WakesTo(past, t, l) : past[k].ts <= d.wake
  <2> SUFFICES ASSUME NEW k \in WakesTo(past, t, l) PROVE past[k].ts <= d.wake
    OBVIOUS
  <2>1. k \in 1 .. Len(past) /\ past[k].kind = "Wake" /\ past[k].task = t /\ k < l
    BY DEF WakesTo
  <2>2. k \in written
    BY <2>1 DEF Of, RecordType
  <2>3. PICK m \in 1 .. Len(trace) : trace[m] = k
    BY <2>2, WrittenFacts
  <2>4. events[m].kind = "Wake" /\ events[m].task = t /\ events[m].ts = past[k].ts
    BY <2>1, <2>3, WrittenEvents DEF Placed
  <2>5. past[k].ts <= past[l].ts
    BY <2>1, <1>2 DEF Placed, Timed
  <2>6. m \in Of(events, {"Wake"})
    BY <2>3, <2>4, WrittenEvents DEF Of, Placed
  <2>7. events[m].ts <= events[i].ts
    BY <2>4, <2>5, <2>6, <1>1, <1>2 DEF LastWake
  <2> QED BY <2>4, <2>7, <1>2
<1>5. wakes = WakesTo(past, t, l)
  BY <1>2, <1>4 DEF Of, WakesTo, RecordType
<1>6. Cardinality(PollsTo(past, t, l)) <= 1 + Cardinality(WakesTo(past, t, l))
  BY <1>2 DEF Balanced, WokenBefore
<1>7. Cardinality(polls) <= 1 + Cardinality(wakes)
  BY <1>3, <1>5, <1>6
<1> QED BY <1>7

\* A poll is not measured from a wake that cannot have led to it.
THEOREM WakeDelaysAreGenuine == Spec => []WakeDelaysGenuine
<1>1. Init => TaskType /\ RecordType /\ Balanced
  BY TaskInit, RecordInit, BalancedInit
<1>2. TaskType /\ RecordType /\ Balanced /\ [Next]_vars => (TaskType /\ RecordType /\ Balanced)'
  BY TaskNext, RecordNext, StepRecords, BalanceNext
<1>3. TasksInv /\ Placed /\ Waiting /\ Balanced => WakeDelaysGenuine
  BY WakeDelaysFacts DEF TasksInv
<1> QED BY <1>1, <1>2, <1>3, PlacedInvariant, PTL DEF Spec

-----------------------------------------------------------------------------
(* Samples of the queue *)

\* What is found for a time is the last sample before an event at that time, when no two samples
\* are on one tick and none is on that of the event.
LEMMA LookupFacts ==
    ASSUME RecordType, Placed, written = DOMAIN past,
           NEW b \in 1 .. Len(past), past[b].kind # "QueueSample",
           {k \in Of(past, {"QueueSample"}) : k < b} # {},
           \A j, k \in Of(past, {"QueueSample"}) : past[j].ts = past[k].ts => j = k,
           \A k \in Of(past, {"QueueSample"}) : past[k].ts # past[b].ts
    PROVE  LET last == Max({k \in Of(past, {"QueueSample"}) : k < b})
           IN  lookup_global_queue_depth(events, past[b].ts) = {past[last].depth % Byte} /\ past[last].depth \in Depths
<1> DEFINE before == {k \in Of(past, {"QueueSample"}) : k < b}
           last == Max(before)
           ts == past[b].ts
           samples == {i \in Of(events, {"QueueSample"}) : events[i].ts <= ts}
<1>1. last \in before /\ \A k \in before : k <= last
  <2>1. before \subseteq Nat /\ b \in Nat /\ \A k \in before : k <= b
    BY DEF Of, RecordType
  <2> QED BY <2>1, MaxFacts
<1>2. \A k : k \in before <=> k \in 1 .. Len(past) /\ past[k].kind = "QueueSample" /\ k < b
  BY DEF Of, RecordType
<1>3. \A k \in 1 .. Len(past) : past[k].ts \in Nat
  BY EventKinds DEF RecordType
<1>4. \A i : i \in samples <=> i \in 1 .. Len(trace) /\ trace[i] \in before
  <2> SUFFICES ASSUME NEW i \in 1 .. Len(trace) PROVE i \in samples <=> trace[i] \in before
    BY WrittenEvents DEF Of, Placed
  <2>1. /\ trace[i] \in 1 .. Len(past) /\ events[i].ts = past[trace[i]].ts /\ events[i].kind = past[trace[i]].kind
        /\ i \in Of(events, {"QueueSample"}) <=> past[trace[i]].kind = "QueueSample"
    BY WrittenEvents DEF Of, Placed
  <2>2. ASSUME past[trace[i]].kind = "QueueSample" PROVE past[trace[i]].ts <= ts <=> trace[i] < b
    <3>1. trace[i] # b /\ past[trace[i]].ts # ts
      BY <2>1, <2>2 DEF Of, RecordType
    <3>2. trace[i] < b => past[trace[i]].ts <= ts
      BY <2>1 DEF Placed, Timed
    <3>3. b < trace[i] => ts <= past[trace[i]].ts
      BY <2>1 DEF Placed, Timed
    <3> QED BY <2>1, <3>1, <3>2, <3>3, <1>3
  <2> QED BY <2>1, <2>2, <1>2
<1>5. PICK m \in 1 .. Len(trace) : trace[m] = last
  <2>1. last \in 1 .. Len(past)
    BY <1>1, <1>2
  <2>2. last \in written
    BY <2>1 DEF RecordType
  <2> HIDE DEF last
  <2> QED BY <2>2, WrittenFacts
<1>6. m \in samples /\ events[m].ts = past[last].ts
  BY <1>1, <1>4, <1>5, WrittenEvents DEF Placed
<1>7. \A k \in samples : events[k].ts = past[trace[k]].ts /\ trace[k] <= last /\ events[k].ts <= events[m].ts
  <2> SUFFICES ASSUME NEW k \in samples
               PROVE  events[k].ts = past[trace[k]].ts /\ trace[k] <= last /\ events[k].ts <= events[m].ts
    OBVIOUS
  <2>1. k \in 1 .. Len(trace) /\ trace[k] \in before /\ trace[k] <= last /\ trace[k] \in 1 .. Len(past) /\ last \in 1 .. Len(past)
    BY <1>1, <1>2, <1>4
  <2>2. past[trace[k]].ts <= past[last].ts
    BY <2>1 DEF Placed, Timed
  <2>3. events[k].ts = past[trace[k]].ts
    BY <2>1, WrittenEvents DEF Placed
  <2> QED BY <2>1, <2>2, <2>3, <1>6
<1>8. \A i \in samples : (\A k \in samples : events[k].ts <= events[i].ts) => i = m
  <2> SUFFICES ASSUME NEW i \in samples, \A k \in samples : events[k].ts <= events[i].ts PROVE i = m
    OBVIOUS
  <2>1. events[m].ts <= events[i].ts /\ events[i].ts <= events[m].ts /\ trace[i] \in before /\ i \in 1 .. Len(trace)
    BY <1>4, <1>6, <1>7
  <2>2. past[trace[i]].ts = past[last].ts
    BY <2>1, <1>1, <1>2, <1>3, <1>6, <1>7
  <2>3. trace[i] = last
    BY <2>1, <2>2, <1>1
  <2> QED BY <2>1, <2>3, <1>5 DEF Placed, InTrace
<1>9. {i \in samples : \A k \in samples : events[k].ts <= events[i].ts} = {m}
  BY <1>6, <1>7, <1>8
<1>10. events[m].depth = past[last].depth % Byte /\ past[last].depth \in Depths
  <2>1. past[last].kind = "QueueSample" /\ past[last] \in Events
    BY <1>1, <1>2 DEF RecordType
  <2> QED BY <2>1, <1>5, WrittenEvents, EventKinds DEF Placed
<1>11. lookup_global_queue_depth(events, ts) = {events[i].depth : i \in {i \in samples : \A k \in samples : events[k].ts <= events[i].ts}}
  BY <1>6 DEF lookup_global_queue_depth
<1> HIDE DEF samples, last, ts
<1>12. lookup_global_queue_depth(events, ts) = {past[last].depth % Byte}
  BY <1>9, <1>10, <1>11
<1> QED BY <1>10, <1>12 DEF last, ts

LEMMA IdleFacts ==
    ASSUME RecordType, Placed PROVE IdleWorkersFound
<1> DEFINE samples == Of(past, {"QueueSample"})
<1>1. SUFFICES ASSUME written = DOMAIN past,
                      NEW q \in Paired(past, "WorkerPark", "WorkerUnpark"), Duration(past, q) > Threshold,
                      {k \in samples : k < q[2]} # {},
                      \A j, k \in samples : past[j].ts = past[k].ts => j = k,
                      \A k \in samples : past[k].ts # past[q[2]].ts
               PROVE  {r[2] : r \in {x \in detect_idle_workers(events, Threshold) : trace[x[1][2]] = q[2]}}
                         = {past[Max({k \in samples : k < q[2]})].depth % Byte} \ {0}
  BY DEF IdleWorkersFound
<1> DEFINE b == q[2]
           depth == past[Max({k \in samples : k < q[2]})].depth % Byte
           found == {x \in detect_idle_workers(events, Threshold) : trace[x[1][2]] = b}
<1>2. b \in 1 .. Len(past) /\ past[b].kind = "WorkerUnpark" /\ q[1] \in 1 .. Len(past)
  BY PastPairs DEF Pair, Of, RecordType
<1>3. lookup_global_queue_depth(events, past[b].ts) = {depth} /\ past[Max({k \in samples : k < q[2]})].depth \in Depths
  BY <1>1, <1>2, LookupFacts
<1>4. depth \in Nat
  <2> DEFINE d == past[Max({k \in samples : k < q[2]})].depth
  <2>1. d \in Nat
    BY <1>3, TasksAssumption
  <2> HIDE DEF d
  <2>2. d % Byte \in Nat
    BY <2>1, TasksAssumption
  <2> QED BY <2>2 DEF d
<1>5. PICK p \in Paired(events, "WorkerPark", "WorkerUnpark") : trace[p[1]] = q[1] /\ trace[p[2]] = b
  <2>1. q[1] \in written /\ q[2] \in written
    BY <1>1, <1>2 DEF RecordType
  <2> QED BY <2>1, PairsFound DEF Placed, WorkerKinds
<1>6. p[1] \in 1 .. Len(trace) /\ p[2] \in 1 .. Len(trace) /\ p[2] \in Of(events, {"WorkerUnpark"}) /\ events[p[2]].ts = past[b].ts
  BY <1>5, TracePairs, WrittenEvents DEF Pair, Of, Placed
<1>7. Duration(events, p) > Threshold
  BY <1>1, <1>5, <1>6, SameDuration DEF Placed
<1> HIDE DEF b, depth
<1>8. ASSUME NEW x \in found PROVE x[2] = depth /\ x[2] # 0
  <2>1. /\ x[1] \in Paired(events, "WorkerPark", "WorkerUnpark") /\ trace[x[1][2]] = b
        /\ x[2] > 0 /\ x[2] \in lookup_global_queue_depth(events, events[x[1][2]].ts)
    BY DEF detect_idle_workers
  <2>2. x[1][2] \in 1 .. Len(trace)
    BY <2>1, TracePairs, WrittenEvents DEF Pair, Of, Placed
  <2>3. x[1][2] = p[2]
    BY <2>1, <2>2, <1>5, <1>6 DEF Placed, InTrace
  <2>4. x[2] = depth
    BY <2>1, <2>3, <1>3, <1>6
  <2> QED BY <2>1, <2>4, <1>4
<1>9. ASSUME depth # 0 PROVE <<p, depth>> \in found
  <2>1. depth > 0 /\ depth \in lookup_global_queue_depth(events, events[p[2]].ts)
    BY <1>3, <1>4, <1>6, <1>9
  <2>2. depth \in UNION {lookup_global_queue_depth(events, events[i].ts) : i \in Of(events, {"WorkerUnpark"})}
    BY <2>1, <1>6
  <2> QED BY <2>1, <2>2, <1>5, <1>7 DEF detect_idle_workers
<1> HIDE DEF found
<1>10. {r[2] : r \in found} = {depth} \ {0}
  <2>1. \A r \in found : r[2] \in {depth} \ {0}
    BY <1>8
  <2>2. depth # 0 => \E r \in found : r[2] = depth
    BY <1>9
  <2> QED BY <2>1, <2>2
<1> QED BY <1>10 DEF found, b, depth

\* An idle worker is reported exactly when the queue was not empty, as far as it was sampled.
THEOREM IdleWorkersAreFound == Spec => []IdleWorkersFound
<1>1. TasksInv /\ Placed /\ Waiting => IdleWorkersFound
  BY IdleFacts DEF TasksInv
<1> QED BY <1>1, PlacedInvariant, PTL

-----------------------------------------------------------------------------
(* Sums over finite sets *)

\* The function the sum of g over S is computed with: one member after the other is taken out.
Sums(iter, g, S) ==
    iter = [s \in SUBSET S |-> IF s = {} THEN 0
                               ELSE g[CHOOSE x \in s : TRUE] + iter[s \ {CHOOSE x \in s : TRUE}]]

\* A set without a member that is below all others has no member.
LEMMA NoLeast == ASSUME NEW T, T \subseteq Nat, \A n \in T : \E m \in T : m < n PROVE T = {}
<1> SUFFICES ASSUME T # {} PROVE FALSE
  OBVIOUS
<1>1. PICK n \in T : \A m \in T : n <= m
  BY LeastNat
<1> QED BY <1>1

LEMMA Smaller ==
    ASSUME NEW S, IsFiniteSet(S), NEW s \in SUBSET S, NEW x \in s
    PROVE  /\ s \ {x} \in SUBSET S /\ Cardinality(s) \in Nat /\ Cardinality(s \ {x}) \in Nat
           /\ Cardinality(s \ {x}) = Cardinality(s) - 1
           /\ IsFiniteSet(s) /\ IsFiniteSet(s \ {x})
<1>1. IsFiniteSet(s)
  BY FS_Subset
<1> QED BY <1>1, FS_RemoveElement, FS_CardinalityType

LEMMA SumStep ==
    ASSUME NEW S, NEW g, NEW iter, Sums(iter, g, S)
    PROVE  /\ iter[{}] = 0
           /\ \A s \in SUBSET S : s # {} => \E c \in s : c = (CHOOSE x \in s : TRUE) /\ iter[s] = g[c] + iter[s \ {c}]
<1>1. \A s \in SUBSET S : iter[s] = IF s = {} THEN 0 ELSE g[CHOOSE x \in s : TRUE] + iter[s \ {CHOOSE x \in s : TRUE}]
  BY DEF Sums
<1>2. iter[{}] = 0
  BY <1>1
<1>3. ASSUME NEW s \in SUBSET S, s # {} PROVE (CHOOSE x \in s : TRUE) \in s
  BY <1>3
<1> QED BY <1>1, <1>2, <1>3

\* The sum is a number, and any member may be the first.
LEMMA SumNat ==
    ASSUME NEW S, IsFiniteSet(S), NEW g \in [S -> Nat], NEW iter, Sums(iter, g, S), NEW s \in SUBSET S
    PROVE  iter[s] \in Nat
<1> DEFINE bad == {n \in Nat : \E t \in SUBSET S : Cardinality(t) = n /\ iter[t] \notin Nat}
<1>1. \A n \in bad : \E m \in bad : m < n
  <2> SUFFICES ASSUME NEW n \in bad PROVE \E m \in bad : m < n
    OBVIOUS
  <2>1. PICK t \in SUBSET S : Cardinality(t) = n /\ iter[t] \notin Nat
    OBVIOUS
  <2>2. t # {}
    <3>1. iter[{}] = 0
      BY SumStep
    <3> QED BY <2>1, <3>1
  <2>3. PICK c \in t : iter[t] = g[c] + iter[t \ {c}]
    BY <2>2, SumStep
  <2>4. iter[t \ {c}] \notin Nat
    BY <2>1, <2>3
  <2>5. t \ {c} \in SUBSET S /\ Cardinality(t \ {c}) \in Nat /\ Cardinality(t \ {c}) < n
    BY <2>1, Smaller
  <2> QED BY <2>4, <2>5
<1>2. bad = {}
  <2> HIDE DEF bad
  <2>1. bad \subseteq Nat
    BY DEF bad
  <2> QED BY <1>1, <2>1, NoLeast
<1>3. Cardinality(s) \in Nat
  BY FS_Subset, FS_CardinalityType
<1> QED BY <1>2, <1>3

LEMMA SumTakes ==
    ASSUME NEW S, IsFiniteSet(S), NEW g \in [S -> Nat], NEW iter, Sums(iter, g, S), NEW s \in SUBSET S, NEW x \in s
    PROVE  iter[s] = g[x] + iter[s \ {x}]
<1> DEFINE bad == {n \in Nat : \E t \in SUBSET S : Cardinality(t) = n /\ \E y \in t : iter[t] # g[y] + iter[t \ {y}]}
<1>1. \A n \in bad : \E m \in bad : m < n
  <2> SUFFICES ASSUME NEW n \in bad, \A m \in bad : ~ (m < n) PROVE FALSE
    OBVIOUS
  <2>1. PICK t \in SUBSET S : Cardinality(t) = n /\ \E z \in t : iter[t] # g[z] + iter[t \ {z}]
    OBVIOUS
  <2>2. PICK y \in t : iter[t] # g[y] + iter[t \ {y}]
    BY <2>1
  <2>3. PICK c \in t : iter[t] = g[c] + iter[t \ {c}]
    BY <2>2, SumStep
  <2>4. c # y
    BY <2>2, <2>3
  <2>5. ASSUME NEW z \in t PROVE t \ {z} \in SUBSET S /\ Cardinality(t \ {z}) \in Nat /\ Cardinality(t \ {z}) < n
    <3>1. Cardinality(t) \in Nat /\ Cardinality(t \ {z}) \in Nat /\ Cardinality(t \ {z}) = Cardinality(t) - 1
      BY Smaller
    <3> QED BY <2>1, <3>1
  <2>6. \A u \in SUBSET S : Cardinality(u) \in Nat /\ Cardinality(u) < n => \A z \in u : iter[u] = g[z] + iter[u \ {z}]
    OBVIOUS
  <2> HIDE DEF bad
  <2>7. iter[t \ {c}] = g[y] + iter[(t \ {c}) \ {y}] /\ iter[t \ {y}] = g[c] + iter[(t \ {y}) \ {c}]
    BY <2>4, <2>5, <2>6
  <2>8. (t \ {c}) \ {y} = (t \ {y}) \ {c} /\ (t \ {c}) \ {y} \in SUBSET S
    OBVIOUS
  <2> DEFINE rest == iter[(t \ {c}) \ {y}]
  <2>9. g[c] \in Nat /\ g[y] \in Nat /\ rest \in Nat
    BY <2>8, SumNat
  <2>10. iter[t \ {y}] = g[c] + rest /\ iter[t \ {c}] = g[y] + rest
    BY <2>7, <2>8
  <2> HIDE DEF rest
  <2> QED BY <2>2, <2>3, <2>9, <2>10
<1>2. bad = {}
  <2> HIDE DEF bad
  <2>1. bad \subseteq Nat
    BY DEF bad
  <2> QED BY <1>1, <2>1, NoLeast
<1>3. Cardinality(s) \in Nat
  BY FS_Subset, FS_CardinalityType
<1> QED BY <1>2, <1>3

\* Two sets with the same numbers have the same sum.
LEMMA SumSame ==
    ASSUME NEW S, IsFiniteSet(S), NEW g \in [S -> Nat], NEW iter, Sums(iter, g, S),
           NEW T, IsFiniteSet(T), NEW h \in [T -> Nat], NEW jter, Sums(jter, h, T),
           NEW b \in [S -> T], \A x, y \in S : b[x] = b[y] => x = y, \A z \in T : \E x \in S : b[x] = z,
           \A x \in S : h[b[x]] = g[x]
    PROVE  iter[S] = jter[T]
<1> DEFINE img(s) == {b[x] : x \in s}
           bad == {n \in Nat : \E t \in SUBSET S : Cardinality(t) = n /\ iter[t] # jter[img(t)]}
<1>1. \A n \in bad : \E m \in bad : m < n
  <2> SUFFICES ASSUME NEW n \in bad, \A m \in bad : ~ (m < n) PROVE FALSE
    OBVIOUS
  <2>1. PICK t \in SUBSET S : Cardinality(t) = n /\ iter[t] # jter[img(t)]
    OBVIOUS
  <2>2. t # {}
    <3> SUFFICES ASSUME t = {} PROVE FALSE
      OBVIOUS
    <3>1. img(t) = {}
      OBVIOUS
    <3>2. iter[{}] = 0 /\ jter[{}] = 0
      BY SumStep
    <3> QED BY <3>1, <3>2, <2>1
  <2>3. PICK x \in t : TRUE
    BY <2>2
  <2>4. iter[t] = g[x] + iter[t \ {x}]
    BY SumTakes
  <2>5. t \ {x} \in SUBSET S /\ Cardinality(t \ {x}) \in Nat /\ Cardinality(t \ {x}) < n
    <3>1. Cardinality(t) \in Nat /\ Cardinality(t \ {x}) \in Nat /\ Cardinality(t \ {x}) = Cardinality(t) - 1
      BY Smaller
    <3> QED BY <2>1, <3>1
  <2>6. iter[t \ {x}] = jter[img(t \ {x})]
    BY <2>5
  <2>7. img(t) \in SUBSET T /\ b[x] \in img(t) /\ img(t \ {x}) = img(t) \ {b[x]}
    OBVIOUS
  <2> HIDE DEF bad, img
  <2>8. jter[img(t)] = h[b[x]] + jter[img(t) \ {b[x]}]
    BY <2>7, SumTakes
  <2>9. h[b[x]] = g[x]
    OBVIOUS
  <2> QED BY <2>1, <2>4, <2>6, <2>7, <2>8, <2>9
<1>2. bad = {}
  <2> HIDE DEF bad
  <2>1. bad \subseteq Nat
    BY DEF bad
  <2> QED BY <1>1, <2>1, NoLeast
<1>3. Cardinality(S) \in Nat
  BY FS_CardinalityType
<1>4. img(S) = T
  OBVIOUS
<1>5. iter[S] = jter[img(S)]
  <2> HIDE DEF img
  <2>1. S \in SUBSET S
    OBVIOUS
  <2> QED BY <1>2, <1>3, <2>1
<1> QED BY <1>4, <1>5

\* There is such a function.
LEMMA SumExists ==
    ASSUME NEW S, IsFiniteSet(S), NEW g \in [S -> Nat]
    PROVE  \E iter : Sums(iter, g, S)
<1> DEFINE UpTo(n) == {s \in SUBSET S : Cardinality(s) <= n}
           On(n, it) == it = [s \in UpTo(n) |-> IF s = {} THEN 0
                                               ELSE g[CHOOSE x \in s : TRUE] + it[s \ {CHOOSE x \in s : TRUE}]]
           bad == {n \in Nat : ~ \E it : On(n, it)}
<1>0. \A s \in SUBSET S : s # {} => (CHOOSE x \in s : TRUE) \in s
  OBVIOUS
<1>1. \A n \in bad : \E m \in bad : m < n
  <2> SUFFICES ASSUME NEW n \in bad, \A m \in bad : ~ (m < n) PROVE FALSE
    OBVIOUS
  <2>1. ~ \E it : On(n, it)
    OBVIOUS
  <2>2. CASE n = 0
    <3> DEFINE it == [s \in UpTo(0) |-> 0]
    <3>1. \A s \in UpTo(0) : s = {}
      <4> SUFFICES ASSUME NEW s \in UpTo(0), s # {} PROVE FALSE
        OBVIOUS
      <4>1. PICK x \in s : TRUE
        OBVIOUS
      <4>2. Cardinality(s) \in Nat /\ Cardinality(s \ {x}) \in Nat /\ Cardinality(s \ {x}) = Cardinality(s) - 1
        BY Smaller
      <4> QED BY <4>2
    <3>2. On(0, it)
      BY <3>1
    <3> QED BY <2>1, <2>2, <3>2
  <2>3. CASE n # 0
    <3>1. n - 1 \in Nat /\ n - 1 < n
      BY <2>3
    <3>2. PICK jt : On(n - 1, jt)
      BY <3>1
    <3> DEFINE val(f, s) == IF s = {} THEN 0 ELSE g[CHOOSE x \in s : TRUE] + f[s \ {CHOOSE x \in s : TRUE}]
               it == [s \in UpTo(n) |-> val(jt, s)]
    <3>5. \A q \in UpTo(n - 1) : jt[q] = val(jt, q)
      <4> HIDE DEF UpTo, bad
      <4> QED BY <3>2
    <3>3. \A s \in UpTo(n) : val(it, s) = val(jt, s)
      <4> SUFFICES ASSUME NEW s \in UpTo(n), s # {} PROVE val(it, s) = val(jt, s)
        OBVIOUS
      <4> DEFINE c == CHOOSE x \in s : TRUE
      <4>1. c \in s
        BY <1>0
      <4>6. \A f : val(f, s) = g[c] + f[s \ {c}]
        OBVIOUS
      <4> HIDE DEF c
      <4>2. s \ {c} \in SUBSET S /\ Cardinality(s \ {c}) \in Nat /\ Cardinality(s \ {c}) = Cardinality(s) - 1 /\ Cardinality(s) \in Nat
        BY <4>1, Smaller
      <4> DEFINE r == s \ {c}
      <4>3. r \in UpTo(n) /\ r \in UpTo(n - 1)
        BY <4>2, <3>1
      <4> HIDE DEF r, UpTo, bad, val
      <4>4. jt[r] = val(jt, r)
        BY <3>5, <4>3
      <4>5. it[r] = val(jt, r)
        BY <4>3
      <4> HIDE DEF it
      <4> QED BY <4>4, <4>5, <4>6 DEF r
    <3>4. it = [s \in UpTo(n) |-> val(it, s)]
      <4> HIDE DEF UpTo, bad, val
      <4> QED BY <3>3
    <3> QED BY <2>1, <3>4
  <2> QED BY <2>2, <2>3
<1>2. bad = {}
  <2> HIDE DEF bad
  <2>1. bad \subseteq Nat
    BY DEF bad
  <2> QED BY <1>1, <2>1, NoLeast
<1>3. Cardinality(S) \in Nat
  BY FS_CardinalityType
<1>4. PICK it : On(Cardinality(S), it)
  BY <1>2, <1>3
<1>5. UpTo(Cardinality(S)) = SUBSET S
  BY FS_Subset
<1>6. Sums(it, g, S)
  <2> HIDE DEF UpTo, bad
  <2> QED BY <1>4, <1>5 DEF Sums
<1> QED BY <1>6

\* So the total duration is a sum.
LEMMA TotalSums ==
    ASSUME NEW tr, NEW pairs, IsFiniteSet(pairs), NEW g \in [pairs -> Nat], \A p \in pairs : g[p] = Duration(tr, p)
    PROVE  \E iter : Sums(iter, g, pairs) /\ Total(tr, pairs) = iter[pairs]
<1> DEFINE D(p) == Duration(tr, p)
           Is(it) == it = [s \in SUBSET pairs |-> IF s = {} THEN 0
                               ELSE D(CHOOSE x \in s : TRUE) + it[s \ {CHOOSE x \in s : TRUE}]]
<1>1. \A it : Is(it) <=> Sums(it, g, pairs)
  <2> SUFFICES ASSUME NEW it PROVE Is(it) <=> Sums(it, g, pairs)
    OBVIOUS
  <2>1. \A s \in SUBSET pairs : s # {} => D(CHOOSE x \in s : TRUE) = g[CHOOSE x \in s : TRUE]
    OBVIOUS
  <2> HIDE DEF D
  <2> DEFINE A == [s \in SUBSET pairs |-> IF s = {} THEN 0
                               ELSE D(CHOOSE x \in s : TRUE) + it[s \ {CHOOSE x \in s : TRUE}]]
             B == [s \in SUBSET pairs |-> IF s = {} THEN 0
                               ELSE g[CHOOSE x \in s : TRUE] + it[s \ {CHOOSE x \in s : TRUE}]]
  <2>2. \A s \in SUBSET pairs : A[s] = B[s]
    BY <2>1
  <2>3. A = B
    BY <2>2
  <2> QED BY <2>3 DEF Sums
<1>2. \E it : Is(it)
  <2>1. PICK it : Sums(it, g, pairs)
    BY SumExists
  <2> HIDE DEF Is
  <2> QED BY <1>1, <2>1
<1>3. Total(tr, pairs) = (CHOOSE it : Is(it))[pairs]
  BY DEF Total, MapThenSumSet, MapThenFoldSet
<1> HIDE DEF Is
<1>4. Is(CHOOSE it : Is(it))
  BY <1>2
<1> QED BY <1>1, <1>3, <1>4

-----------------------------------------------------------------------------
(* The polls of a worker *)

EventOf(p, k, w, kind) == k \in 1 .. Len(p) /\ p[k].kind = kind /\ p[k].worker = w

\* A worker starts and ends its polls in turn.
Between(p, w, kind, other) ==
    \A j, k : EventOf(p, j, w, kind) /\ EventOf(p, k, w, kind) /\ j < k => \E m : EventOf(p, m, w, other) /\ j < m /\ m < k
Since(p, w, kind, other) == \A k : EventOf(p, k, w, kind) => \E m : EventOf(p, m, w, other) /\ k < m
AlternatesOf(p, w, polls) ==
    /\ Between(p, w, "PollStart", "PollEnd") /\ Between(p, w, "PollEnd", "PollStart")
    /\ IF polls THEN Since(p, w, "PollEnd", "PollStart") ELSE Since(p, w, "PollStart", "PollEnd")
Alternates == \A w \in Workers : AlternatesOf(past, w, InPoll(w))

LEMMA AlternatesInit == Init => Alternates
<1> SUFFICES ASSUME Init PROVE Alternates
  OBVIOUS
<1>1. Len(past) = 0
  BY DEF Init
<1> QED BY <1>1 DEF Alternates, AlternatesOf, Between, Since, EventOf

LEMMA EventOfFacts ==
    ASSUME RecordType, NEW e \in Events, past' = Append(past, e), NEW w, NEW kind
    PROVE  /\ Len(past) + 1 \in Nat
           /\ \A k : EventOf(past, k, w, kind) => k \in Nat /\ k < Len(past) + 1
           /\ \A k : EventOf(past', k, w, kind) <=>
                        EventOf(past, k, w, kind) \/ (k = Len(past) + 1 /\ e.kind = kind /\ e.worker = w)
<1> DEFINE n == Len(past) + 1
<1>1. /\ Len(past) \in Nat /\ Len(past') = n /\ n \in Nat /\ n \in 1 .. n
      /\ \A i \in 1 .. Len(past) : past'[i] = past[i] /\ i \in Nat /\ i < n
      /\ past'[n] = e
      /\ \A i : i \in 1 .. n <=> i \in 1 .. Len(past) \/ i = n
  BY PastFacts
<1> HIDE DEF n
<1> QED BY <1>1 DEF EventOf, n

LEMMA AlternatesSame ==
    ASSUME RecordType, NEW e \in Events, past' = Append(past, e), NEW w, NEW polls, AlternatesOf(past, w, polls),
           ~ (e.kind \in {"PollStart", "PollEnd"} /\ e.worker = w)
    PROVE  AlternatesOf(past', w, polls)
<1>1. \A k : EventOf(past', k, w, "PollStart") <=> EventOf(past, k, w, "PollStart")
  BY EventOfFacts
<1>2. \A k : EventOf(past', k, w, "PollEnd") <=> EventOf(past, k, w, "PollEnd")
  BY EventOfFacts
<1> QED BY <1>1, <1>2 DEF AlternatesOf, Between, Since

LEMMA AlternatesPut ==
    ASSUME RecordType, NEW e \in Events, past' = Append(past, e), NEW w, NEW kind, NEW other, kind # other,
           e.kind = kind, e.worker = w,
           Between(past, w, kind, other), Between(past, w, other, kind), Since(past, w, kind, other)
    PROVE  Between(past', w, kind, other) /\ Between(past', w, other, kind) /\ Since(past', w, other, kind)
<1> DEFINE n == Len(past) + 1
<1>1. n \in Nat /\ \A k : /\ EventOf(past, k, w, kind) => k \in Nat /\ k < n
                          /\ EventOf(past, k, w, other) => k \in Nat /\ k < n
  BY EventOfFacts
<1>2. \A k : /\ EventOf(past', k, w, kind) <=> EventOf(past, k, w, kind) \/ k = n
             /\ EventOf(past', k, w, other) <=> EventOf(past, k, w, other)
  BY EventOfFacts
<1> HIDE DEF n
<1>3. ASSUME NEW j, NEW k, EventOf(past', j, w, kind), EventOf(past', k, w, kind), j < k
      PROVE  \E m : EventOf(past', m, w, other) /\ j < m /\ m < k
  <2>1. CASE k = n
    <3>1. EventOf(past, j, w, kind)
      BY <1>1, <1>2, <1>3, <2>1
    <3>2. PICK m : EventOf(past, m, w, other) /\ j < m
      BY <3>1 DEF Since
    <3> QED BY <3>2, <2>1, <1>1, <1>2
  <2>2. CASE k # n
    <3>1. EventOf(past, j, w, kind) /\ EventOf(past, k, w, kind)
      BY <1>1, <1>2, <1>3, <2>2
    <3>2. PICK m : EventOf(past, m, w, other) /\ j < m /\ m < k
      BY <1>3, <3>1 DEF Between
    <3> QED BY <3>2, <1>2
  <2> QED BY <2>1, <2>2
<1>4. Between(past', w, other, kind)
  BY <1>2 DEF Between
<1>5. Since(past', w, other, kind)
  BY <1>1, <1>2 DEF Since
<1> QED BY <1>3, <1>4, <1>5 DEF Between

\* Nobody's poll starts or ends.
LEMMA AlternatesKept ==
    ASSUME RecordType, Alternates, \A w \in Workers : InPoll(w)' <=> InPoll(w),
           UNCHANGED past \/ \E e \in Events : past' = Append(past, e) /\ e.kind \notin {"PollStart", "PollEnd"}
    PROVE  Alternates'
<1> SUFFICES ASSUME NEW w \in Workers PROVE AlternatesOf(past', w, InPoll(w)')
  BY DEF Alternates
<1>1. AlternatesOf(past, w, InPoll(w))
  BY DEF Alternates
<1>2. AlternatesOf(past', w, InPoll(w))
  BY <1>1, AlternatesSame
<1>3. InPoll(w)' <=> InPoll(w)
  OBVIOUS
<1> QED BY <1>2, <1>3 DEF AlternatesOf

LEMMA AlternatesNext == TaskType /\ RecordType /\ Alternates /\ [Next]_vars => Alternates'
<1> SUFFICES ASSUME TaskType, RecordType, Alternates, [Next]_vars PROVE Alternates'
  OBVIOUS
<1>1. ASSUME NEW w \in Workers, on_before_task_poll(w) PROVE Alternates'
  <2>1. PICK t \in Tasks, ts \in Nat :
           /\ Puts(w, [kind |-> "PollStart", ts |-> ts, worker |-> w, task |-> t])
           /\ BeforePoll(w, t)
    BY <1>1, PollStarts
  <2>2. PICK e \in Events : past' = Append(past, e) /\ e.kind = "PollStart" /\ e.worker = w
    BY <2>1 DEF Puts
  <2>3. ~InPoll(w) /\ InPoll(w)' /\ \A v \in Workers : v # w => (InPoll(v)' <=> InPoll(v))
    BY <2>1 DEF BeforePoll, InPoll, TaskType, Idle
  <2>4. Between(past', w, "PollStart", "PollEnd") /\ Between(past', w, "PollEnd", "PollStart") /\ Since(past', w, "PollEnd", "PollStart")
    <3>1. Between(past, w, "PollStart", "PollEnd") /\ Between(past, w, "PollEnd", "PollStart") /\ Since(past, w, "PollStart", "PollEnd")
      BY <2>3 DEF Alternates, AlternatesOf
    <3> QED BY <3>1, <2>2, AlternatesPut
  <2>5. ASSUME NEW v \in Workers, v # w PROVE AlternatesOf(past', v, InPoll(v)')
    <3>1. AlternatesOf(past', v, InPoll(v))
      BY <2>2, <2>5, AlternatesSame DEF Alternates
    <3> QED BY <2>3, <2>5, <3>1 DEF AlternatesOf
  <2> QED BY <2>3, <2>4, <2>5 DEF Alternates, AlternatesOf
<1>2. ASSUME NEW w \in Workers, on_after_task_poll(w) PROVE Alternates'
  <2>1. PICK ts \in Nat : Puts(w, [kind |-> "PollEnd", ts |-> ts, worker |-> w])
    BY <1>2, PollEnds
  <2>2. PICK e \in Events : past' = Append(past, e) /\ e.kind = "PollEnd" /\ e.worker = w
    BY <2>1 DEF Puts
  <2>3. InPoll(w) /\ ~InPoll(w)' /\ \A v \in Workers : v # w => (InPoll(v)' <=> InPoll(v))
    BY <1>2 DEF on_after_task_poll, InPoll, TaskType, Idle
  <2>4. Between(past', w, "PollEnd", "PollStart") /\ Between(past', w, "PollStart", "PollEnd") /\ Since(past', w, "PollStart", "PollEnd")
    <3>1. Between(past, w, "PollStart", "PollEnd") /\ Between(past, w, "PollEnd", "PollStart") /\ Since(past, w, "PollEnd", "PollStart")
      BY <2>3 DEF Alternates, AlternatesOf
    <3> QED BY <3>1, <2>2, AlternatesPut
  <2>5. ASSUME NEW v \in Workers, v # w PROVE AlternatesOf(past', v, InPoll(v)')
    <3>1. AlternatesOf(past', v, InPoll(v))
      BY <2>2, <2>5, AlternatesSame DEF Alternates
    <3> QED BY <2>3, <2>5, <3>1 DEF AlternatesOf
  <2> QED BY <2>3, <2>4, <2>5 DEF Alternates, AlternatesOf
<1>3. ASSUME NEW w \in Workers, on_thread_park(w) PROVE Alternates'
  <2>1. PICK read \in BOOLEAN, ts \in Nat :
           Puts(w, [kind |-> "WorkerPark", ts |-> ts, worker |-> w, read |-> read, waited |-> waited'[w]])
    BY <1>3, ParkPut
  <2>2. PICK e \in Events : past' = Append(past, e) /\ e.kind \notin {"PollStart", "PollEnd"}
    BY <2>1 DEF Puts
  <2>3. \A v \in Workers : InPoll(v)' <=> InPoll(v)
    BY <1>3 DEF on_thread_park, InPoll, TaskType, Idle, Parked
  <2> QED BY <2>2, <2>3, AlternatesKept
<1>4. ASSUME NEW w \in Workers, on_thread_unpark(w) PROVE Alternates'
  <2>1. PICK read \in BOOLEAN, ts \in Nat :
              Puts(w, [kind |-> "WorkerUnpark", ts |-> ts, worker |-> w, read |-> read, waited |-> waited'[w],
                       wait |-> IF read THEN SatSub(waited'[w], parked_wait[w]) ELSE 0])
    BY <1>4, UnparkPut
  <2>2. PICK e \in Events : past' = Append(past, e) /\ e.kind \notin {"PollStart", "PollEnd"}
    BY <2>1 DEF Puts
  <2>3. \A v \in Workers : InPoll(v)' <=> InPoll(v)
    BY <1>4 DEF on_thread_unpark, InPoll, TaskType, Idle, Parked
  <2> QED BY <2>2, <2>3, AlternatesKept
<1>5. CASE record_queue_sample
  <2>1. PICK e \in Samples : Takes(e)
    BY <1>5, SampleTaken
  <2>2. e \in Events /\ past' = Append(past, e) /\ e.kind \notin {"PollStart", "PollEnd"}
    BY <2>1 DEF Takes, Samples, Events
  <2>3. \A v \in Workers : InPoll(v)' <=> InPoll(v)
    BY <1>5 DEF record_queue_sample, InPoll
  <2> QED BY <2>2, <2>3, AlternatesKept
<1>6. ASSUME NEW th \in Threads, wake_by_ref(th) PROVE Alternates'
  <2>1. PICK c \in Channel, ts \in Nat :
              /\ Puts(th, [kind |-> "Wake", ts |-> ts, task |-> c[1], worker |-> th])
              /\ WakeOf(th, c)
    BY <1>6, WakePut
  <2>2. PICK e \in Events : past' = Append(past, e) /\ e.kind \notin {"PollStart", "PollEnd"}
    BY <2>1 DEF Puts
  <2>3. \A v \in Workers : InPoll(v)' <=> InPoll(v)
    BY <1>6 DEF wake_by_ref, InPoll
  <2> QED BY <2>2, <2>3, AlternatesKept
<1>7. ASSUME NEW w \in Workers, poll(w) \/ InnerPoll(w), UNCHANGED past PROVE Alternates'
  <2>1. InPoll(w) /\ InPoll(w)' /\ \A v \in Workers : v # w => stage'[v] = stage[v]
    BY <1>7 DEF poll, InnerPoll, InPoll, TaskType
  <2>2. \A v \in Workers : InPoll(v)' <=> InPoll(v)
    BY <2>1 DEF InPoll
  <2> QED BY <1>7, <2>2, AlternatesKept
<1>8. CASE UNCHANGED <<past, stage>>
  <2>1. \A v \in Workers : InPoll(v)' <=> InPoll(v)
    BY <1>8 DEF InPoll
  <2> QED BY <1>8, <2>1, AlternatesKept
<1>9. CASE Hooks
  BY <1>9, <1>1, <1>2, <1>3, <1>4 DEF Hooks
<1>10. CASE Futures
  BY <1>10, <1>6, <1>7, <1>8 DEF Futures, Signal, inner_wake, recorded
<1>11. CASE SetEnabled \/ UNCHANGED vars
  BY <1>11, <1>8 DEF SetEnabled, vars, recorded
<1> QED BY <1>5, <1>9, <1>10, <1>11 DEF Next

-----------------------------------------------------------------------------
(* The polls that are found *)

LEMMA IsMax == ASSUME NEW S, S \subseteq Nat, NEW n \in Nat, \A x \in S : x <= n
  PROVE \A a : a \in S /\ a = Max(S) <=> a \in S /\ \A k \in S : k <= a
<1> SUFFICES ASSUME NEW a \in S PROVE a = Max(S) <=> \A k \in S : k <= a
  OBVIOUS
<1>1. Max(S) \in S /\ \A x \in S : x <= Max(S)
  BY MaxFacts
<1>2. a \in Nat /\ Max(S) \in Nat
  BY <1>1
<1> QED BY <1>1, <1>2

StartPair(f, a, b) ==
    /\ a \in Of(f, {"PollStart"}) /\ b \in Of(f, {"PollEnd"}) /\ a < b /\ f[a].worker = f[b].worker
    /\ \A k \in Of(f, {"PollStart"}) : k < b /\ f[k].worker = f[b].worker => k <= a
LEMMA StartFacts ==
    ASSUME NEW f, NEW n \in Nat, DOMAIN f = 1 .. n
    PROVE  \A p : p \in poll_starts(f) <=> p = <<p[1], p[2]>> /\ StartPair(f, p[1], p[2])
<1>1. \A p : p \in poll_starts(f) <=>
            /\ p \in Of(f, {"PollStart"}) \X Of(f, {"PollEnd"})
            /\ p[1] \in Before(f, p[2], {"PollStart"}) /\ p[1] = Max(Before(f, p[2], {"PollStart"}))
  BY DEF poll_starts
<1>2. ASSUME NEW a, NEW b \in Of(f, {"PollEnd"})
      PROVE  LET seen == Before(f, b, {"PollStart"})
             IN  a \in seen /\ a = Max(seen) <=> StartPair(f, a, b)
  <2> DEFINE seen == Before(f, b, {"PollStart"})
  <2>1. seen \subseteq Nat /\ b \in Nat /\ \A k \in seen : k <= b
    BY DEF Before, Of
  <2>2. \A k : k \in seen <=> k \in Of(f, {"PollStart"}) /\ k < b /\ f[k].worker = f[b].worker
    BY DEF Before
  <2> HIDE DEF seen
  <2>3. a \in seen /\ a = Max(seen) <=> a \in seen /\ \A k \in seen : k <= a
    BY <2>1, IsMax
  <2> QED BY <2>2, <2>3 DEF StartPair, seen
<1>3. \A p : p \in Of(f, {"PollStart"}) \X Of(f, {"PollEnd"}) <=>
            p = <<p[1], p[2]>> /\ p[1] \in Of(f, {"PollStart"}) /\ p[2] \in Of(f, {"PollEnd"})
  OBVIOUS
<1>4. \A a, b : StartPair(f, a, b) => a \in Of(f, {"PollStart"}) /\ b \in Of(f, {"PollEnd"})
  BY DEF StartPair
<1> QED BY <1>1, <1>2, <1>3, <1>4

LocPair(f, a, b) ==
    /\ a \in Named(f) /\ b \in Of(f, {"PollEnd"}) /\ a < b /\ f[a].worker = f[b].worker
    /\ \A k \in Of(f, {"PollEnd"}) \union Named(f) : k < b /\ f[k].worker = f[b].worker => k <= a
LEMMA LocFacts ==
    ASSUME NEW f, NEW n \in Nat, DOMAIN f = 1 .. n
    PROVE  \A p : p \in poll_start_locs(f) <=> p = <<p[1], p[2]>> /\ LocPair(f, p[1], p[2])
<1> DEFINE Seen(b) == Before(f, b, {"PollEnd"}) \union (Before(f, b, {"PollStart"}) \cap Named(f))
<1>1. \A p : p \in poll_start_locs(f) <=>
            p \in Named(f) \X Of(f, {"PollEnd"}) /\ p[1] \in Seen(p[2]) /\ p[1] = Max(Seen(p[2]))
  BY DEF poll_start_locs
<1> HIDE DEF Seen
<1>2. ASSUME NEW a \in Named(f), NEW b \in Of(f, {"PollEnd"})
      PROVE  a \in Seen(b) /\ a = Max(Seen(b)) <=> LocPair(f, a, b)
  <2> DEFINE seen == Seen(b)
  <2>1. seen \subseteq Nat /\ b \in Nat /\ \A k \in seen : k <= b
    BY DEF Before, Of, Named, Seen
  <2>2. \A k : k \in seen <=> k \in Of(f, {"PollEnd"}) \union Named(f) /\ k < b /\ f[k].worker = f[b].worker
    BY DEF Before, Named, Seen
  <2> HIDE DEF seen
  <2>3. a \in seen /\ a = Max(seen) <=> a \in seen /\ \A k \in seen : k <= a
    BY <2>1, IsMax
  <2> QED BY <2>2, <2>3 DEF LocPair, seen
<1>3. \A p : p \in Named(f) \X Of(f, {"PollEnd"}) <=>
            p = <<p[1], p[2]>> /\ p[1] \in Named(f) /\ p[2] \in Of(f, {"PollEnd"})
  OBVIOUS
<1>4. \A a, b : LocPair(f, a, b) => a \in Named(f) /\ b \in Of(f, {"PollEnd"})
  BY DEF LocPair
<1> QED BY <1>1, <1>2, <1>3, <1>4

PollKinds == {"PollStart", "PollEnd"}
\* Nothing of the worker's polls is missing.
Complete(w) == \A kind \in PollKinds : \A k : EventOf(past, k, w, kind) => \E i \in 1 .. Len(trace) : trace[i] = k

LEMMA EventOfTrace ==
    ASSUME RecordType, InTrace, NEW kind \in PollKinds, NEW w
    PROVE  \A i : i \in Of(events, {kind}) /\ events[i].worker = w <=> i \in 1 .. Len(trace) /\ EventOf(past, trace[i], w, kind)
<1> SUFFICES ASSUME NEW i
             PROVE  i \in Of(events, {kind}) /\ events[i].worker = w <=> i \in 1 .. Len(trace) /\ EventOf(past, trace[i], w, kind)
  OBVIOUS
<1>1. i \in Of(events, {kind}) <=> i \in 1 .. Len(trace) /\ events[i].kind = kind
  BY WrittenEvents DEF Of
<1>2. i \in 1 .. Len(trace) => /\ trace[i] \in 1 .. Len(past) /\ events[i].kind = past[trace[i]].kind
                               /\ past[trace[i]].kind # "QueueSample" => events[i].worker = past[trace[i]].worker
  BY WrittenEvents
<1> QED BY <1>1, <1>2 DEF EventOf, PollKinds

LEMMA EventOfPast ==
    ASSUME RecordType, NEW kind, NEW w
    PROVE  \A k : k \in Of(past, {kind}) /\ past[k].worker = w <=> EventOf(past, k, w, kind)
  BY DEF RecordType, Of, EventOf

LEMMA PollOrder ==
    ASSUME RecordType, InTrace, InOrder, NEW i \in 1 .. Len(trace), NEW j \in 1 .. Len(trace),
           NEW w, NEW c \in PollKinds, NEW d \in PollKinds, EventOf(past, trace[i], w, c), EventOf(past, trace[j], w, d)
    PROVE  i < j <=> trace[i] < trace[j]
  BY OrderFacts DEF EventOf, PollKinds, WorkerKinds

\* The pairs that are measured are the worker's polls.
LEMMA RealPolls ==
    ASSUME RecordType, InTrace, InOrder, Alternates, NEW w \in Workers, Complete(w),
           NEW i \in 1 .. Len(trace), NEW j \in 1 .. Len(trace)
    PROVE  <<i, j>> \in poll_starts(events) /\ events[i].worker = w
              <=> <<trace[i], trace[j]>> \in Paired(past, "PollStart", "PollEnd") /\ past[trace[i]].worker = w
<1> DEFINE a == trace[i]
           b == trace[j]
<1>0. /\ a \in Nat /\ b \in Nat /\ i \in Nat /\ j \in Nat /\ Len(trace) \in Nat
      /\ \A k, kind : EventOf(past, k, w, kind) => k \in Nat
  BY WrittenEvents DEF EventOf
<1>1. \A x, kind : kind \in PollKinds => (x \in Of(events, {kind}) /\ events[x].worker = w
                                            <=> x \in 1 .. Len(trace) /\ EventOf(past, trace[x], w, kind))
  BY EventOfTrace
<1>2. \A x, kind : x \in Of(past, {kind}) /\ past[x].worker = w <=> EventOf(past, x, w, kind)
  BY EventOfPast
<1>3. \A f, x : x \in Of(f, {"PollStart", "PollEnd"}) <=> x \in Of(f, {"PollStart"}) \/ x \in Of(f, {"PollEnd"})
  BY DEF Of
<1>4. <<i, j>> \in poll_starts(events) <=> StartPair(events, i, j)
  <2>1. DOMAIN events = 1 .. Len(trace)
    BY WrittenEvents
  <2>2. \A p : p \in poll_starts(events) <=> p = <<p[1], p[2]>> /\ StartPair(events, p[1], p[2])
    BY <1>0, <2>1, StartFacts
  <2> QED BY <2>2
<1>5. <<a, b>> \in Paired(past, "PollStart", "PollEnd") <=> Pair(past, "PollStart", "PollEnd", a, b)
  BY PastPairs
<1>6. /\ "PollStart" \in PollKinds /\ "PollEnd" \in PollKinds
      /\ Between(past, w, "PollEnd", "PollStart")
      /\ \A x \in 1 .. Len(trace), y \in 1 .. Len(trace), c \in PollKinds, d \in PollKinds :
            EventOf(past, trace[x], w, c) /\ EventOf(past, trace[y], w, d) => (x < y <=> trace[x] < trace[y])
  BY PollOrder DEF PollKinds, Alternates, AlternatesOf
<1>7. ASSUME StartPair(events, i, j), events[i].worker = w
      PROVE  Pair(past, "PollStart", "PollEnd", a, b) /\ past[a].worker = w
  <2>1. EventOf(past, a, w, "PollStart") /\ EventOf(past, b, w, "PollEnd") /\ i < j
    BY <1>1, <1>6, <1>7 DEF StartPair
  <2>2. a < b
    BY <2>1, <1>6
  <2>3. ASSUME NEW k, EventOf(past, k, w, "PollStart"), k < b PROVE k <= a
    <3>1. PICK m \in 1 .. Len(trace) : trace[m] = k
      BY <2>3, <1>6 DEF Complete
    <3>2. m < j
      BY <3>1, <2>1, <2>3, <1>6
    <3>3. m \in Of(events, {"PollStart"}) /\ events[m].worker = w /\ events[j].worker = w
      BY <3>1, <2>1, <2>3, <1>1, <1>6
    <3>4. m <= i
      BY <3>2, <3>3, <1>7 DEF StartPair
    <3>5. ~ (i < m)
      BY <3>4, <1>0
    <3>6. ~ (a < k)
      BY <3>1, <3>5, <2>1, <2>3, <1>6
    <3> QED BY <3>6, <2>3, <1>0
  <2>4. ASSUME NEW k, EventOf(past, k, w, "PollEnd"), k < b PROVE k <= a
    <3>1. PICK m : EventOf(past, m, w, "PollStart") /\ k < m /\ m < b
      BY <2>4, <2>1, <1>6 DEF Between
    <3>2. m <= a
      BY <2>3, <3>1
    <3> QED BY <3>1, <3>2, <2>4, <1>0
  <2>5. /\ a \in Of(past, {"PollStart"}) /\ b \in Of(past, {"PollEnd"}) /\ past[a].worker = w /\ past[b].worker = w
    BY <2>1, <1>2
  <2>6. \A k \in Of(past, {"PollStart", "PollEnd"}) : k < b /\ past[k].worker = past[b].worker => k <= a
    BY <2>3, <2>4, <2>5, <1>2, <1>3
  <2> QED BY <2>2, <2>5, <2>6 DEF Pair
<1>8. ASSUME Pair(past, "PollStart", "PollEnd", a, b), past[a].worker = w
      PROVE  StartPair(events, i, j) /\ events[i].worker = w
  <2>1. EventOf(past, a, w, "PollStart") /\ EventOf(past, b, w, "PollEnd") /\ a < b
    BY <1>2, <1>8 DEF Pair
  <2>2. i < j
    BY <2>1, <1>6
  <2>3. /\ i \in Of(events, {"PollStart"}) /\ j \in Of(events, {"PollEnd"}) /\ events[i].worker = w /\ events[j].worker = w
    BY <2>1, <1>1, <1>6
  <2>4. ASSUME NEW k \in Of(events, {"PollStart"}), k < j, events[k].worker = w PROVE k <= i
    <3>1. k \in 1 .. Len(trace) /\ EventOf(past, trace[k], w, "PollStart")
      BY <2>4, <1>1, <1>6
    <3>2. trace[k] < b
      BY <3>1, <2>1, <2>4, <1>6
    <3>3. trace[k] <= a
      <4>1. trace[k] \in Of(past, {"PollStart", "PollEnd"}) /\ past[trace[k]].worker = past[b].worker
        BY <3>1, <2>1, <1>2, <1>3 DEF EventOf
      <4> QED BY <4>1, <3>2, <1>8 DEF Pair
    <3>4. ~ (a < trace[k])
      BY <3>1, <3>3, <1>0
    <3>5. ~ (i < k)
      BY <3>1, <3>4, <2>1, <1>6
    <3> QED BY <3>1, <3>5, <1>0
  <2> QED BY <2>2, <2>3, <2>4 DEF StartPair
<1> QED BY <1>4, <1>5, <1>7, <1>8

\* Events that are all in the trace are counted in it.
LEMMA SameCount ==
    ASSUME RecordType, InTrace, NEW A, A \subseteq 1 .. Len(trace), NEW B, B \subseteq 1 .. Len(past),
           \A i \in 1 .. Len(trace) : i \in A <=> trace[i] \in B,
           \A k \in B : \E i \in 1 .. Len(trace) : trace[i] = k
    PROVE  Cardinality(A) = Cardinality(B)
<1> DEFINE b == [i \in A |-> trace[i]]
<1>1. b \in [A -> B] /\ \A i, j \in A : b[i] = b[j] => i = j
  BY DEF InTrace
<1>2. \A k \in B : \E i \in A : b[i] = k
  OBVIOUS
<1> HIDE DEF b
<1>3. b \in Bijection(A, B)
  BY <1>1, <1>2 DEF Bijection, Injection, Surjection, IsInjective
<1>4. ExistsBijection(A, B)
  BY <1>3 DEF ExistsBijection
<1>5. IsFiniteSet(1 .. Len(trace))
  BY FS_Interval, WrittenEvents
<1>6. IsFiniteSet(A)
  BY <1>5, FS_Subset
<1> QED BY <1>4, <1>6, FS_Bijection

\* Polls that are all in the trace take the same time in it.
LEMMA SameTotal ==
    ASSUME RecordType, InTrace, NEW P, P \subseteq (1 .. Len(trace)) \X (1 .. Len(trace)),
           NEW Q, Q \subseteq (1 .. Len(past)) \X (1 .. Len(past)),
           \A i, j \in 1 .. Len(trace) : <<i, j>> \in P <=> <<trace[i], trace[j]>> \in Q,
           \A q \in Q : \E i, j \in 1 .. Len(trace) : q = <<trace[i], trace[j]>>
    PROVE  Total(events, P) = Total(past, Q)
<1> DEFINE b == [p \in P |-> <<trace[p[1]], trace[p[2]]>>]
           g == [p \in P |-> Duration(events, p)]
           h == [q \in Q |-> Duration(past, q)]
<1>0. Len(trace) \in Nat /\ Len(past) \in Nat /\ DOMAIN past = 1 .. Len(past)
  BY DEF RecordType
<1>1. b \in [P -> Q] /\ \A x, y \in P : b[x] = b[y] => x = y
  <2>1. \A p \in P : p = <<p[1], p[2]>> /\ p[1] \in 1 .. Len(trace) /\ p[2] \in 1 .. Len(trace)
    OBVIOUS
  <2>2. \A p \in P : b[p] = <<trace[p[1]], trace[p[2]]>> /\ b[p] \in Q
    BY <2>1
  <2>3. ASSUME NEW x \in P, NEW y \in P, b[x] = b[y] PROVE x = y
    <3>1. trace[x[1]] = trace[y[1]] /\ trace[x[2]] = trace[y[2]]
      BY <2>2, <2>3
    <3>2. x[1] = y[1] /\ x[2] = y[2]
      BY <3>1, <2>1 DEF InTrace
    <3> QED BY <3>2, <2>1
  <2> QED BY <2>2, <2>3
<1>2. \A q \in Q : \E p \in P : b[p] = q
  OBVIOUS
<1>3. IsFiniteSet(P) /\ IsFiniteSet(Q)
  <2>1. IsFiniteSet(1 .. Len(trace)) /\ IsFiniteSet(1 .. Len(past))
    BY <1>0, FS_Interval
  <2>2. IsFiniteSet((1 .. Len(trace)) \X (1 .. Len(trace))) /\ IsFiniteSet((1 .. Len(past)) \X (1 .. Len(past)))
    BY <2>1, FS_Product
  <2> QED BY <2>2, FS_Subset
<1>4. \A e \in Events : e.ts \in Nat
  BY EventKinds
<1>5. g \in [P -> Nat]
  <2> SUFFICES ASSUME NEW p \in P PROVE Duration(events, p) \in Nat
    OBVIOUS
  <2>1. events[p[1]].ts \in Nat /\ events[p[2]].ts \in Nat
    BY <1>4, WrittenEvents
  <2> QED BY <2>1 DEF Duration, SatSub
<1>6. h \in [Q -> Nat]
  <2> SUFFICES ASSUME NEW q \in Q PROVE Duration(past, q) \in Nat
    OBVIOUS
  <2>1. past[q[1]].ts \in Nat /\ past[q[2]].ts \in Nat
    BY <1>0, <1>4 DEF RecordType
  <2> QED BY <2>1 DEF Duration, SatSub
<1>7. \A p \in P : h[b[p]] = g[p]
  <2> SUFFICES ASSUME NEW p \in P PROVE h[b[p]] = g[p]
    OBVIOUS
  <2>1. b[p] \in Q /\ b[p] = <<trace[p[1]], trace[p[2]]>>
    BY <1>1
  <2>2. Duration(events, p) = Duration(past, b[p])
    <3>1. b[p][1] = trace[p[1]] /\ b[p][2] = trace[p[2]] /\ p[1] \in 1 .. Len(trace) /\ p[2] \in 1 .. Len(trace)
      BY <2>1
    <3> HIDE DEF b
    <3> QED BY <3>1, SameDuration
  <2> QED BY <2>1, <2>2
<1>8. (\A p \in P : g[p] = Duration(events, p)) /\ \A q \in Q : h[q] = Duration(past, q)
  OBVIOUS
<1> HIDE DEF b, g, h
<1>9. PICK iter : Sums(iter, g, P) /\ Total(events, P) = iter[P]
  BY <1>3, <1>5, <1>8, TotalSums
<1>10. PICK jter : Sums(jter, h, Q) /\ Total(past, Q) = jter[Q]
  BY <1>3, <1>6, <1>8, TotalSums
<1>11. iter[P] = jter[Q]
  <2>1. IsFiniteSet(P) /\ IsFiniteSet(Q) /\ b \in [P -> Q] /\ Sums(iter, g, P) /\ Sums(jter, h, Q)
    BY <1>1, <1>3, <1>9, <1>10
  <2>2. \A x, y \in P : b[x] = b[y] => x = y
    BY <1>1
  <2> QED BY ONLY <1>2, <1>5, <1>6, <1>7, <2>1, <2>2, SumSame
<1> QED BY <1>9, <1>10, <1>11

LEMMA PollShapes ==
    ASSUME RecordType, InTrace
    PROVE  /\ Len(trace) \in Nat
           /\ \A p \in poll_starts(events) : p \in (1 .. Len(trace)) \X (1 .. Len(trace)) /\ StartPair(events, p[1], p[2])
           /\ \A p \in Paired(past, "PollStart", "PollEnd") :
                 p \in (1 .. Len(past)) \X (1 .. Len(past)) /\ Pair(past, "PollStart", "PollEnd", p[1], p[2])
<1>1. /\ Len(trace) \in Nat /\ DOMAIN events = 1 .. Len(trace)
      /\ DOMAIN past = 1 .. Len(past)
  BY WrittenEvents DEF RecordType
<1>2. ASSUME NEW p \in poll_starts(events)
      PROVE  p \in (1 .. Len(trace)) \X (1 .. Len(trace)) /\ StartPair(events, p[1], p[2])
  <2>1. p = <<p[1], p[2]>> /\ StartPair(events, p[1], p[2])
    BY <1>1, StartFacts
  <2>2. p[1] \in 1 .. Len(trace) /\ p[2] \in 1 .. Len(trace)
    BY <1>1, <2>1 DEF StartPair, Of
  <2> QED BY <2>1, <2>2
<1>3. ASSUME NEW p \in Paired(past, "PollStart", "PollEnd")
      PROVE  p \in (1 .. Len(past)) \X (1 .. Len(past)) /\ Pair(past, "PollStart", "PollEnd", p[1], p[2])
  <2>1. p = <<p[1], p[2]>> /\ Pair(past, "PollStart", "PollEnd", p[1], p[2])
    BY PastPairs
  <2>2. p[1] \in 1 .. Len(past) /\ p[2] \in 1 .. Len(past)
    BY <1>1, <2>1 DEF Pair, Of
  <2> QED BY <2>1, <2>2
<1> QED BY <1>1, <1>2, <1>3

\* A real poll of the worker was written.
LEMMA PollWritten ==
    ASSUME RecordType, InTrace, NEW w, Complete(w),
           NEW q \in Paired(past, "PollStart", "PollEnd"), past[q[1]].worker = w
    PROVE  \E i, j \in 1 .. Len(trace) : q = <<trace[i], trace[j]>>
<1>1. q = <<q[1], q[2]>> /\ Pair(past, "PollStart", "PollEnd", q[1], q[2])
  BY PastPairs
<1>2. EventOf(past, q[1], w, "PollStart") /\ EventOf(past, q[2], w, "PollEnd")
  BY <1>1, EventOfPast DEF Pair
<1>3. PICK i \in 1 .. Len(trace) : trace[i] = q[1]
  BY <1>2 DEF Complete, PollKinds
<1>4. PICK j \in 1 .. Len(trace) : trace[j] = q[2]
  BY <1>2 DEF Complete, PollKinds
<1> QED BY <1>1, <1>3, <1>4

LEMMA CompleteOf ==
    ASSUME RecordType, NEW w, OfWorker(w, {"PollStart", "PollEnd"}) \subseteq written
    PROVE  Complete(w)
<1> SUFFICES ASSUME NEW kind \in PollKinds, NEW k, EventOf(past, k, w, kind)
             PROVE  \E i \in 1 .. Len(trace) : trace[i] = k
  BY DEF Complete
<1>1. k \in OfWorker(w, {"PollStart", "PollEnd"})
  BY DEF EventOf, PollKinds, OfWorker, Of, RecordType
<1> QED BY <1>1, WrittenFacts

\* When nothing of a worker's polls is missing they are counted and their time adds up.
LEMMA WorkerAddsUp ==
    ASSUME RecordType, InTrace, InOrder, Alternates, NEW w \in Workers, Complete(w)
    PROVE  /\ poll_count(events, w) = Cardinality(OfWorker(w, {"PollStart"}))
           /\ total_poll_time(events, w) = Total(past, {p \in Paired(past, "PollStart", "PollEnd") : past[p[1]].worker = w})
<1>1. poll_count(events, w) = Cardinality(OfWorker(w, {"PollStart"}))
  <2> DEFINE A == {i \in Of(events, {"PollStart"}) : events[i].worker = w}
             B == OfWorker(w, {"PollStart"})
  <2>1. \A i : i \in A <=> i \in 1 .. Len(trace) /\ EventOf(past, trace[i], w, "PollStart")
    BY EventOfTrace DEF PollKinds
  <2>2. \A k : k \in B <=> EventOf(past, k, w, "PollStart")
    BY EventOfPast DEF OfWorker
  <2>3. \A k \in B : k \in 1 .. Len(past) /\ \E i \in 1 .. Len(trace) : trace[i] = k
    BY <2>2 DEF EventOf, Complete, PollKinds
  <2> HIDE DEF A, B
  <2>4. Cardinality(A) = Cardinality(B)
    BY <2>1, <2>2, <2>3, SameCount
  <2> QED BY <2>4 DEF A, B, poll_count
<1>2. total_poll_time(events, w) = Total(past, {p \in Paired(past, "PollStart", "PollEnd") : past[p[1]].worker = w})
  <2> DEFINE P == {p \in poll_starts(events) : events[p[1]].worker = w}
             Q == {p \in Paired(past, "PollStart", "PollEnd") : past[p[1]].worker = w}
  <2>1. P \subseteq (1 .. Len(trace)) \X (1 .. Len(trace)) /\ Q \subseteq (1 .. Len(past)) \X (1 .. Len(past))
    BY PollShapes
  <2>2. ASSUME NEW i \in 1 .. Len(trace), NEW j \in 1 .. Len(trace)
        PROVE  <<i, j>> \in P <=> <<trace[i], trace[j]>> \in Q
    <3>1. <<i, j>> \in poll_starts(events) /\ events[i].worker = w
              <=> <<trace[i], trace[j]>> \in Paired(past, "PollStart", "PollEnd") /\ past[trace[i]].worker = w
      BY RealPolls
    <3> QED BY <3>1
  <2>3. \A q \in Q : \E i, j \in 1 .. Len(trace) : q = <<trace[i], trace[j]>>
    BY PollWritten
  <2> HIDE DEF P, Q
  <2>4. Total(events, P) = Total(past, Q)
    BY <2>1, <2>2, <2>3, SameTotal
  <2> QED BY <2>4 DEF P, Q, total_poll_time
<1> QED BY <1>1, <1>2

-----------------------------------------------------------------------------
(* The locations *)

At(k) == Location[past[k].task]
Locs(n) == {At(trace[i]) : i \in {j \in 1 .. n : past[trace[j]].kind = "PollStart"}}
First(loc) == Min({n \in DOMAIN trace : loc \in Locs(n)})

LEMMA InternAs == \A loc : intern_location(loc) = Cardinality(Locs(First(loc) - 1))
  BY DEF intern_location, First, Locs, At

LEMMA LocsFacts ==
    ASSUME NEW n \in Nat
    PROVE  /\ IsFiniteSet(Locs(n)) /\ Cardinality(Locs(n)) \in Nat
           /\ \A m \in 0 .. n : Locs(m) \subseteq Locs(n)
           /\ n > 0 => Locs(n) \subseteq Locs(n - 1) \union {At(trace[n])}
<1> DEFINE S == {j \in 1 .. n : past[trace[j]].kind = "PollStart"}
           f == [j \in S |-> At(trace[j])]
<1>1. IsFiniteSet(S)
  <2>1. IsFiniteSet(1 .. n)
    BY FS_Interval
  <2> QED BY <2>1, FS_Subset
<1>2. f \in Surjection(S, Locs(n))
  BY DEF Surjection, Locs
<1> HIDE DEF f, S
<1>3. IsFiniteSet(Locs(n))
  BY <1>1, <1>2, FS_Surjection DEF ExistsSurjection
<1>4. \A m \in 0 .. n : Locs(m) \subseteq Locs(n)
  BY DEF Locs
<1>5. ASSUME n > 0 PROVE Locs(n) \subseteq Locs(n - 1) \union {At(trace[n])}
  <2>1. \A j \in 1 .. n : j \in 1 .. (n - 1) \/ j = n
    BY <1>5
  <2> QED BY <2>1 DEF Locs
<1> QED BY <1>3, <1>4, <1>5, FS_CardinalityType

\* Where a location occurs first.
LEMMA FirstFacts ==
    ASSUME RecordType, NEW i \in 1 .. Len(trace), past[trace[i]].kind = "PollStart"
    PROVE  LET loc == At(trace[i]) IN
           /\ First(loc) \in Nat /\ First(loc) > 0 /\ First(loc) - 1 \in Nat
           /\ loc \in Locs(First(loc)) /\ loc \notin Locs(First(loc) - 1)
<1> DEFINE loc == At(trace[i])
           T == {n \in DOMAIN trace : loc \in Locs(n)}
<1>1. DOMAIN trace = 1 .. Len(trace) /\ Len(trace) \in Nat
  BY DEF RecordType
<1>2. T \subseteq Nat /\ i \in T
  BY <1>1 DEF Locs
<1>3. \E x \in T : \A y \in T : x <= y
  <2> HIDE DEF T
  <2> QED BY <1>2, LeastNat
<1>4. First(loc) \in T /\ \A y \in T : First(loc) <= y
  BY <1>3 DEF First, Min
<1> DEFINE n == First(loc)
<1>5. n \in 1 .. Len(trace) /\ loc \in Locs(n) /\ \A y \in 1 .. Len(trace) : loc \in Locs(y) => n <= y
  BY <1>1, <1>4
<1> HIDE DEF n, T, loc
<1>6. loc \notin Locs(n - 1)
  <2>1. CASE n - 1 \in 1 .. Len(trace)
    BY <2>1, <1>5
  <2>2. CASE n - 1 \notin 1 .. Len(trace)
    <3>1. n - 1 = 0
      BY <2>2, <1>1, <1>5
    <3>2. Locs(0) = {}
      BY DEF Locs
    <3> QED BY <3>1, <3>2
  <2> QED BY <2>1, <2>2
<1> QED BY <1>1, <1>5, <1>6 DEF n, loc

LEMMA InternedBefore ==
    ASSUME RecordType, NEW i \in 1 .. Len(trace), NEW j \in 1 .. Len(trace),
           past[trace[i]].kind = "PollStart", past[trace[j]].kind = "PollStart",
           First(At(trace[i])) < First(At(trace[j]))
    PROVE  intern_location(At(trace[i])) < intern_location(At(trace[j]))
<1> DEFINE a == First(At(trace[i]))
           b == First(At(trace[j]))
<1>1. /\ a \in Nat /\ a > 0 /\ a - 1 \in Nat
      /\ At(trace[i]) \in Locs(a) /\ At(trace[i]) \notin Locs(a - 1)
      /\ b \in Nat /\ b - 1 \in Nat /\ a < b
  BY FirstFacts
<1> HIDE DEF a, b
<1>2. /\ IsFiniteSet(Locs(a)) /\ Cardinality(Locs(a)) \in Nat /\ Locs(a - 1) \subseteq Locs(a)
      /\ Cardinality(Locs(a - 1)) \in Nat
      /\ IsFiniteSet(Locs(b - 1)) /\ Cardinality(Locs(b - 1)) \in Nat /\ Locs(a) \subseteq Locs(b - 1)
  <2>1. a - 1 \in 0 .. a /\ a \in 0 .. (b - 1)
    BY <1>1
  <2>2. IsFiniteSet(Locs(a)) /\ Cardinality(Locs(a)) \in Nat /\ Locs(a - 1) \subseteq Locs(a)
    BY <1>1, <2>1, LocsFacts
  <2>3. Cardinality(Locs(a - 1)) \in Nat
    BY <1>1, LocsFacts
  <2>4. IsFiniteSet(Locs(b - 1)) /\ Cardinality(Locs(b - 1)) \in Nat /\ Locs(a) \subseteq Locs(b - 1)
    BY <1>1, <2>1, LocsFacts
  <2> QED BY <2>2, <2>3, <2>4
<1>3. Cardinality(Locs(a - 1)) <= Cardinality(Locs(a)) /\ Cardinality(Locs(a)) # Cardinality(Locs(a - 1))
  BY <1>1, <1>2, FS_Subset
<1>4. Cardinality(Locs(a)) <= Cardinality(Locs(b - 1))
  BY <1>2, FS_Subset
<1>5. Cardinality(Locs(a - 1)) < Cardinality(Locs(b - 1))
  BY <1>2, <1>3, <1>4
<1> QED BY <1>5, InternAs DEF a, b

\* Two locations do not get one number.
LEMMA Interned ==
    ASSUME RecordType, NEW i \in 1 .. Len(trace), NEW j \in 1 .. Len(trace),
           past[trace[i]].kind = "PollStart", past[trace[j]].kind = "PollStart"
    PROVE  intern_location(At(trace[i])) = intern_location(At(trace[j])) <=> At(trace[i]) = At(trace[j])
<1> DEFINE a == First(At(trace[i]))
           b == First(At(trace[j]))
<1>1. /\ a \in Nat /\ a > 0 /\ a - 1 \in Nat /\ At(trace[i]) \in Locs(a) /\ At(trace[i]) \notin Locs(a - 1)
      /\ b \in Nat /\ b > 0 /\ b - 1 \in Nat /\ At(trace[j]) \in Locs(b) /\ At(trace[j]) \notin Locs(b - 1)
  BY FirstFacts
<1>2. intern_location(At(trace[i])) \in Nat /\ intern_location(At(trace[j])) \in Nat
  BY <1>1, InternAs, LocsFacts
<1>3. CASE a < b
  BY <1>2, <1>3, InternedBefore
<1>4. CASE b < a
  BY <1>2, <1>4, InternedBefore
<1>5. CASE a = b
  <2>1. Locs(a) \subseteq Locs(a - 1) \union {At(trace[a])}
    BY <1>1, LocsFacts
  <2>2. At(trace[i]) = At(trace[a]) /\ At(trace[j]) = At(trace[a])
    BY <1>1, <1>5, <2>1
  <2> QED BY <2>2
<1> HIDE DEF a, b
<1>6. a < b \/ b < a \/ a = b
  BY <1>1
<1> QED BY <1>3, <1>4, <1>5, <1>6

LEMMA NamedFacts ==
    ASSUME RecordType, InTrace
    PROVE  /\ \A i : i \in Named(events) <=>
                 /\ i \in 1 .. Len(trace) /\ past[trace[i]].kind = "PollStart" /\ events[i].loc # 0
           /\ \A i \in Named(events) : events[i].loc = intern_location(At(trace[i]))
           /\ \A i, j \in 1 .. Len(trace) :
                 past[trace[i]].kind = "PollStart" /\ past[trace[j]].kind = "PollStart"
                    => (events[i].loc = events[j].loc <=> At(trace[i]) = At(trace[j]))
<1>1. \A i \in 1 .. Len(trace) : past[trace[i]].kind = "PollStart" => events[i].loc = intern_location(At(trace[i]))
  BY ResolvedEvents DEF write_resolved, At
<1>2. \A i : i \in Named(events) <=> i \in 1 .. Len(trace) /\ past[trace[i]].kind = "PollStart" /\ events[i].loc # 0
  BY WrittenEvents DEF Named, Of
<1>3. \A i, j \in 1 .. Len(trace) :
         past[trace[i]].kind = "PollStart" /\ past[trace[j]].kind = "PollStart"
            => (events[i].loc = events[j].loc <=> At(trace[i]) = At(trace[j]))
  BY <1>1, Interned
<1> QED BY <1>1, <1>2, <1>3

\* The location a poll is counted for is that of its start.
LEMMA LocOfPoll ==
    ASSUME RecordType, InTrace, InOrder, Alternates, \A w \in Workers : Complete(w),
           NEW a, NEW j, <<a, j>> \in poll_starts(events), NEW loc, loc # 0
    PROVE  (\E c : <<c, j>> \in poll_start_locs(events) /\ events[c].loc = loc) <=> a \in Named(events) /\ events[a].loc = loc
<1> DEFINE w == events[a].worker
<1>1. /\ a \in 1 .. Len(trace) /\ j \in 1 .. Len(trace) /\ StartPair(events, a, j)
      /\ Len(trace) \in Nat /\ DOMAIN events = 1 .. Len(trace)
  BY PollShapes, WrittenEvents
<1>2. a \in Of(events, {"PollStart"}) /\ j \in Of(events, {"PollEnd"}) /\ a < j /\ events[j].worker = w
  BY <1>1 DEF StartPair
<1>3. w \in Workers
  <2>1. past[trace[a]] \in Events /\ past[trace[a]].kind = "PollStart" /\ events[a].worker = past[trace[a]].worker
    BY <1>1, <1>2, WrittenEvents DEF Of
  <2> QED BY <2>1, EventKinds DEF WorkerKinds
<1> HIDE DEF w
<1>4. /\ Complete(w) /\ Between(past, w, "PollStart", "PollEnd")
      /\ <<trace[a], trace[j]>> \in Paired(past, "PollStart", "PollEnd") /\ past[trace[a]].worker = w
  <2>1. <<a, j>> \in poll_starts(events) /\ events[a].worker = w
    BY DEF w
  <2> QED BY <2>1, <1>1, <1>3, RealPolls DEF Alternates, AlternatesOf
<1>5. \A x, kind : kind \in PollKinds => (x \in Of(events, {kind}) /\ events[x].worker = w
                                            <=> x \in 1 .. Len(trace) /\ EventOf(past, trace[x], w, kind))
  BY EventOfTrace
<1>6. \A p : p \in poll_start_locs(events) <=> p = <<p[1], p[2]>> /\ LocPair(events, p[1], p[2])
  BY <1>1, LocFacts
<1>7. Pair(past, "PollStart", "PollEnd", trace[a], trace[j])
  BY <1>4, PastPairs
<1>8. \A k \in Named(events) : k \in Of(events, {"PollStart"})
  BY DEF Named
<1>9. EventOf(past, trace[a], w, "PollStart") /\ EventOf(past, trace[j], w, "PollEnd")
  BY <1>2, <1>5 DEF PollKinds, w
<1>10. ASSUME a \in Named(events) PROVE LocPair(events, a, j)
  <2>1. \A k \in Named(events) : k < j /\ events[k].worker = events[j].worker => k <= a
    BY <1>1, <1>8 DEF StartPair
  <2>2. ASSUME NEW k \in Of(events, {"PollEnd"}), k < j, events[k].worker = events[j].worker PROVE k <= a
    <3>1. k \in 1 .. Len(trace) /\ EventOf(past, trace[k], w, "PollEnd")
      BY <1>2, <1>5, <2>2 DEF PollKinds
    <3>2. trace[k] < trace[j]
      BY <3>1, <2>2, <1>1, <1>9, PollOrder DEF PollKinds
    <3>3. trace[k] <= trace[a]
      <4>1. trace[k] \in Of(past, {"PollStart", "PollEnd"}) /\ past[trace[k]].worker = past[trace[j]].worker
        BY <3>1, <1>9 DEF EventOf, Of, RecordType
      <4> QED BY <4>1, <3>2, <1>7 DEF Pair
    <3>4. trace[k] \in Nat /\ trace[a] \in Nat /\ k \in Nat /\ a \in Nat
      BY <3>1, <1>1, WrittenEvents
    <3>5. a < k => trace[a] < trace[k]
      BY <3>1, <1>1, <1>9, PollOrder DEF PollKinds
    <3> QED BY <3>3, <3>4, <3>5
  <2> QED BY <2>1, <2>2, <1>2, <1>10 DEF LocPair, w
<1>11. ASSUME NEW c, LocPair(events, c, j) PROVE c = a
  <2>1. c \in Of(events, {"PollStart"}) /\ c < j /\ events[c].worker = w
    BY <1>2, <1>8, <1>11 DEF LocPair
  <2>2. c <= a
    BY <1>1, <1>2, <2>1 DEF StartPair
  <2>3. c \in 1 .. Len(trace) /\ EventOf(past, trace[c], w, "PollStart")
    BY <2>1, <1>5 DEF PollKinds
  <2>4. ~ (c < a)
    <3> SUFFICES ASSUME c < a PROVE FALSE
      OBVIOUS
    <3>1. trace[c] < trace[a]
      BY <2>3, <1>1, <1>9, PollOrder DEF PollKinds
    <3>2. PICK m : EventOf(past, m, w, "PollEnd") /\ trace[c] < m /\ m < trace[a]
      BY <3>1, <2>3, <1>4, <1>9 DEF Between
    <3>3. PICK x \in 1 .. Len(trace) : trace[x] = m
      BY <3>2, <1>4 DEF Complete, PollKinds
    <3>4. c < x /\ x < a
      BY <3>2, <3>3, <2>3, <1>1, <1>9, PollOrder DEF PollKinds
    <3>5. x \in Of(events, {"PollEnd"}) /\ events[x].worker = events[j].worker
      BY <3>2, <3>3, <1>2, <1>5 DEF PollKinds
    <3>6. x < j
      BY <3>4, <1>1, <1>2
    <3>7. x <= c
      BY <3>5, <3>6, <1>11 DEF LocPair
    <3> QED BY <3>4, <3>7, <2>3
  <2> QED BY <1>1, <2>2, <2>3, <2>4
<1>12. \A c : <<c, j>> \in poll_start_locs(events) <=> LocPair(events, c, j)
  BY <1>6
<1>13. LocPair(events, a, j) => a \in Named(events)
  BY DEF LocPair
<1> QED BY <1>10, <1>11, <1>12, <1>13

\* When nothing of any worker's polls is missing, those of a location are counted.
LEMMA LocationAddsUp ==
    ASSUME RecordType, InTrace, InOrder, Alternates, \A w \in Workers : Complete(w), NEW i \in Named(events)
    PROVE  LET own == {t \in Tasks : Location[t] = Location[past[trace[i]].task]}
               stats == spawn_location_stats(events, events[i].loc)
           IN  /\ stats.poll_count = Cardinality({k \in Of(past, {"PollStart"}) : past[k].task \in own})
               /\ stats.total_poll_time =
                     Total(past, {p \in Paired(past, "PollStart", "PollEnd") : past[p[1]].task \in own})
<1> DEFINE loc == events[i].loc
           own == {t \in Tasks : Location[t] = Location[past[trace[i]].task]}
           ends == {p[2] : p \in {q \in poll_start_locs(events) : events[q[1]].loc = loc}}
           A == {m \in Named(events) : events[m].loc = loc}
           B == {k \in Of(past, {"PollStart"}) : past[k].task \in own}
           P == {p \in poll_starts(events) : p[2] \in ends}
           Q == {p \in Paired(past, "PollStart", "PollEnd") : past[p[1]].task \in own}
<1>1. /\ i \in 1 .. Len(trace) /\ past[trace[i]].kind = "PollStart" /\ loc # 0
      /\ Len(trace) \in Nat /\ DOMAIN past = 1 .. Len(past)
  BY NamedFacts, WrittenEvents DEF RecordType
<1>2. ASSUME NEW k \in 1 .. Len(past), past[k].kind = "PollStart"
      PROVE  /\ past[k].task \in own <=> At(k) = At(trace[i])
             /\ past[k].worker \in Workers /\ EventOf(past, k, past[k].worker, "PollStart")
  <2>1. past[k] \in Events /\ past[k].task \in Tasks
    BY <1>2, EventKinds DEF RecordType
  <2>2. past[k].worker \in Workers
    BY <1>2, <2>1, EventKinds DEF WorkerKinds
  <2> QED BY <1>2, <2>1, <2>2 DEF At, EventOf
<1>3. ASSUME NEW m \in 1 .. Len(trace) PROVE m \in A <=> trace[m] \in B
  <2>1. trace[m] \in 1 .. Len(past)
    BY DEF InTrace
  <2>2. m \in A <=> past[trace[m]].kind = "PollStart" /\ events[m].loc = loc
    BY <1>1, NamedFacts
  <2>3. past[trace[m]].kind = "PollStart" => (events[m].loc = loc <=> At(trace[m]) = At(trace[i]))
    BY <1>1, NamedFacts
  <2>4. trace[m] \in B <=> past[trace[m]].kind = "PollStart" /\ past[trace[m]].task \in own
    BY <2>1, <1>1 DEF Of
  <2> QED BY <2>1, <2>2, <2>3, <2>4, <1>2
<1>4. A \subseteq 1 .. Len(trace) /\ B \subseteq 1 .. Len(past)
  BY <1>1, NamedFacts DEF Of
<1>5. \A k \in B : \E m \in 1 .. Len(trace) : trace[m] = k
  <2> SUFFICES ASSUME NEW k \in B PROVE \E m \in 1 .. Len(trace) : trace[m] = k
    OBVIOUS
  <2>1. k \in 1 .. Len(past) /\ past[k].kind = "PollStart"
    BY <1>1 DEF Of
  <2>2. past[k].worker \in Workers /\ EventOf(past, k, past[k].worker, "PollStart")
    BY <2>1, <1>2
  <2> QED BY <2>2 DEF Complete, PollKinds
<1>6. P \subseteq (1 .. Len(trace)) \X (1 .. Len(trace)) /\ Q \subseteq (1 .. Len(past)) \X (1 .. Len(past))
  BY PollShapes
<1>7. ASSUME NEW q \in Q
      PROVE  /\ q[1] \in 1 .. Len(past) /\ past[q[1]].kind = "PollStart" /\ past[q[1]].worker \in Workers
             /\ \E a, j \in 1 .. Len(trace) : q = <<trace[a], trace[j]>>
  <2>1. q[1] \in 1 .. Len(past) /\ past[q[1]].kind = "PollStart"
    BY PollShapes DEF Pair, Of
  <2>2. past[q[1]].worker \in Workers
    BY <2>1, <1>2
  <2>3. \E a, j \in 1 .. Len(trace) : q = <<trace[a], trace[j]>>
    BY <2>2, PollWritten
  <2> QED BY <2>1, <2>2, <2>3
<1>8. ASSUME NEW a, NEW j, <<a, j>> \in poll_starts(events) PROVE <<a, j>> \in P <=> a \in A
  <2>1. <<a, j>> \in P <=> j \in ends
    BY <1>8
  <2>2. j \in ends <=> \E c : <<c, j>> \in poll_start_locs(events) /\ events[c].loc = loc
    <3>1. \A p \in poll_start_locs(events) : p = <<p[1], p[2]>>
      BY LocFacts, WrittenEvents
    <3>2. j \in ends <=> \E p \in poll_start_locs(events) : events[p[1]].loc = loc /\ p[2] = j
      OBVIOUS
    <3> HIDE DEF ends, loc
    <3> QED BY <3>1, <3>2
  <2> HIDE DEF loc, ends
  <2>3. j \in ends <=> a \in Named(events) /\ events[a].loc = loc
    <3>1. (\E c : <<c, j>> \in poll_start_locs(events) /\ events[c].loc = loc)
          <=> a \in Named(events) /\ events[a].loc = loc
      <4>1. loc # 0
        BY <1>1
      <4> HIDE DEF A, B, P, Q, own
      <4> QED BY <1>8, <4>1, LocOfPoll, Zenon
    <3> QED BY <2>2, <3>1, Zenon
  <2> QED BY <2>1, <2>3
<1>9. ASSUME NEW a \in 1 .. Len(trace), NEW j \in 1 .. Len(trace)
      PROVE  <<a, j>> \in P <=> <<trace[a], trace[j]>> \in Q
  <2>1. trace[a] \in 1 .. Len(past)
    BY DEF InTrace
  <2>2. ASSUME <<a, j>> \in P PROVE <<trace[a], trace[j]>> \in Q
    <3>1. <<a, j>> \in poll_starts(events) /\ a \in A
      BY <1>8, <2>2
    <3>2. past[trace[a]].kind = "PollStart" /\ past[trace[a]].task \in own
      BY <3>1, <1>3, <1>1 DEF Of
    <3>3. past[trace[a]].worker \in Workers
      BY <3>2, <2>1, <1>2
    <3>4. events[a].worker = past[trace[a]].worker
      BY <3>2, WrittenEvents
    <3>5. <<trace[a], trace[j]>> \in Paired(past, "PollStart", "PollEnd")
      BY <3>1, <3>3, <3>4, RealPolls
    <3> QED BY <3>2, <3>5
  <2>3. ASSUME <<trace[a], trace[j]>> \in Q PROVE <<a, j>> \in P
    <3>1. <<trace[a], trace[j]>> \in Paired(past, "PollStart", "PollEnd") /\ past[trace[a]].task \in own
      BY <2>3
    <3>2. past[trace[a]].kind = "PollStart" /\ past[trace[a]].worker \in Workers
      BY <1>7, <2>3
    <3>3. <<a, j>> \in poll_starts(events)
      BY <3>1, <3>2, RealPolls
    <3>4. a \in A
      BY <3>1, <3>2, <2>1, <1>1, <1>3 DEF Of
    <3> QED BY <3>3, <3>4, <1>8
  <2> QED BY <2>2, <2>3
<1> HIDE DEF A, B, P, Q, own, ends, loc
<1>10. Cardinality(A) = Cardinality(B)
  BY <1>3, <1>4, <1>5, SameCount
<1>11. Total(events, P) = Total(past, Q)
  <2>1. \A q \in Q : \E a, j \in 1 .. Len(trace) : q = <<trace[a], trace[j]>>
    BY <1>7
  <2> QED BY <1>6, <1>9, <2>1, SameTotal
<1>12. spawn_location_stats(events, loc) = [poll_count |-> Cardinality(A), total_poll_time |-> Total(events, P)]
  BY DEF spawn_location_stats, A, P, ends
<1>13. /\ spawn_location_stats(events, loc).poll_count = Cardinality(B)
       /\ spawn_location_stats(events, loc).total_poll_time = Total(past, Q)
  BY <1>10, <1>11, <1>12
<1> QED BY <1>13 DEF B, Q, own, loc

LEMMA PollTimeFacts ==
    ASSUME RecordType, Placed, Alternates PROVE PollTimeAddsUp
<1>0. InTrace /\ InOrder
  BY DEF Placed
<1>1. ASSUME NEW w \in Workers, OfWorker(w, {"PollStart", "PollEnd"}) \subseteq written
      PROVE  /\ poll_count(events, w) = Cardinality(OfWorker(w, {"PollStart"}))
             /\ total_poll_time(events, w) = Total(past, {p \in Paired(past, "PollStart", "PollEnd") : past[p[1]].worker = w})
  BY <1>0, <1>1, CompleteOf, WorkerAddsUp
<1>2. ASSUME \A w \in Workers : OfWorker(w, {"PollStart", "PollEnd"}) \subseteq written, NEW i \in Named(events)
      PROVE  LET own == {t \in Tasks : Location[t] = Location[past[trace[i]].task]}
                 stats == spawn_location_stats(events, events[i].loc)
             IN  /\ stats.poll_count = Cardinality({k \in Of(past, {"PollStart"}) : past[k].task \in own})
                 /\ stats.total_poll_time =
                       Total(past, {p \in Paired(past, "PollStart", "PollEnd") : past[p[1]].task \in own})
  <2>1. \A w \in Workers : Complete(w)
    BY <1>2, CompleteOf
  <2> QED BY <1>0, <2>1, LocationAddsUp
<1> QED BY <1>1, <1>2 DEF PollTimeAddsUp

\* When nothing of a worker's polls is missing from the trace they are counted and their time adds
\* up, and when nothing of any is, so do those of every location that has a number above 0.
THEOREM PollTimesAddUp == Spec => []PollTimeAddsUp
<1>1. Init => TaskType /\ RecordType /\ Placed /\ Alternates
  BY TaskInit, RecordInit, PlacedInit, AlternatesInit
<1>2. TaskType /\ RecordType /\ Placed /\ Alternates /\ [Next]_vars => (TaskType /\ RecordType /\ Placed /\ Alternates)'
  BY TaskNext, RecordNext, StepRecords, PlacedNext, AlternatesNext
<1>3. TaskType /\ RecordType /\ Placed /\ Alternates => PollTimeAddsUp
  BY PollTimeFacts
<1> QED BY <1>1, <1>2, <1>3, PTL DEF Spec
=============================================================================
