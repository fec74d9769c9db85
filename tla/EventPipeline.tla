--------------------------- MODULE EventPipeline ---------------------------
(***************************************************************************)
(* The path of a telemetry event from the hook that records it to the      *)
(* trace writer: the thread-local buffers (telemetry/buffer.rs), the       *)
(* central collector (telemetry/collector.rs), the flush thread and the    *)
(* guard that stops it (telemetry/recorder/mod.rs).                        *)
(*                                                                         *)
(* An atomic operation, a channel operation or a lock-free queue operation *)
(* is one step; what a thread does to its own thread-local buffer is       *)
(* folded into the shared operation next to it.  An event is the thread    *)
(* that recorded it and its number among that thread's events.             *)
(***************************************************************************)
EXTENDS Integers, Sequences, FiniteSets

CONSTANTS
    Threads,         \* the threads of the traced runtime that run its hooks
    Main,            \* the one of them that owns the TelemetryGuard
    Flusher,         \* the thread named dial9-flush
    BufferCapacity,  \* BUFFER_CAPACITY, 1024 events in the code
    QueueCapacity,   \* DEFAULT_CAPACITY, 1024 batches in the code
    MaxEvents,       \* bound: events each thread records, a function on Actors
    MaxErrors        \* bound: write errors

Actors == Threads \union {Flusher}

ASSUME ActorsAssumption == IsFiniteSet(Threads) /\ Main \in Threads /\ Flusher \notin Threads
ASSUME CapacityAssumption == BufferCapacity \in Nat \ {0} /\ QueueCapacity \in Nat \ {0}
ASSUME BoundAssumption == MaxEvents \in [Actors -> Nat] /\ MaxErrors \in Nat

Event == [src : Actors, seq : Nat]

VARIABLES
    enabled,   \* SharedState.enabled
    pc,        \* what each runtime thread is doing
    buf,       \* the thread-local buffer of each thread
    queue,     \* CentralCollector.queue, oldest batch first
    dropped,   \* CentralCollector.dropped_batches
    counting,  \* threads between force_push and fetch_add in accept_flush
    chan,      \* a FinalizeAndStop command waits in the control channel
    fpc,       \* what the flush thread is doing
    exit,      \* the local of the flush loop: a command was received
    batch,     \* the rest of the batch flush_once is writing
    cut,       \* the last flush_once returned early on a write error
    writer,    \* WriterState of the trace writer
    gpc,       \* how far the guard has got
    passes     \* how often stop_flush_thread was entered
(***************************************************************************)
(* Ghost variables: they follow events and record no state of the code.    *)
(***************************************************************************)
VARIABLES
    issued,    \* events each thread has recorded
    trace,     \* events the writer wrote
    refused,   \* events a finished writer dropped
    abandoned, \* events of a batch cut short by a write error
    evicted,   \* events of batches that force_push replaced
    evictions, \* number of those batches
    reported,  \* dropped batches that flush_once took for its report
    errors,    \* write errors so far
    handed     \* events that were in the collector when the stop command was sent

shared  == <<enabled, queue, dropped, counting, evicted, evictions>>
flushing == <<fpc, exit, batch, cut, writer, trace, refused, abandoned, reported, errors>>
guard   == <<chan, gpc, passes, handed>>
threads == <<pc, buf, issued>>
vars    == <<shared, flushing, guard, threads>>

Elements(s) == {s[i] : i \in DOMAIN s}
Queued == UNION {Elements(queue[i]) : i \in DOMAIN queue}
Lost   == refused \union abandoned \union evicted

Init ==
    /\ enabled = FALSE /\ queue = <<>> /\ dropped = 0 /\ counting = {}
    /\ evicted = {} /\ evictions = 0
    /\ fpc = "recv" /\ exit = FALSE /\ batch = <<>> /\ cut = FALSE /\ writer = "active"
    /\ trace = {} /\ refused = {} /\ abandoned = {} /\ reported = 0 /\ errors = 0
    /\ chan = FALSE /\ gpc = "live" /\ passes = 0 /\ handed = {}
    /\ pc = [t \in Threads |-> "running"]
    /\ buf = [a \in Actors |-> <<>>]
    /\ issued = [a \in Actors |-> 0]

-----------------------------------------------------------------------------
(* CentralCollector *)

\* variant: push instead of force_push, its error ignored
accept_flush_push(a, events) ==
    /\ queue' = IF Len(queue) < QueueCapacity THEN Append(queue, events) ELSE queue
    /\ UNCHANGED <<counting, evicted, evictions>>

\* force_push, and the branch on what it returned
accept_flush(a, events) ==
    IF Len(queue) < QueueCapacity
    THEN /\ queue' = Append(queue, events)
         /\ UNCHANGED <<counting, evicted, evictions>>
    ELSE /\ queue' = Append(Tail(queue), events)
         /\ counting' = counting \union {a}
         /\ evicted' = evicted \union Elements(Head(queue))
         /\ evictions' = evictions + 1

\* the fetch_add that follows an eviction, a step of its own
CountEviction(a) ==
    /\ a \in counting
    /\ counting' = counting \ {a}
    /\ dropped' = dropped + 1
    /\ UNCHANGED <<enabled, queue, evicted, evictions, flushing, guard, threads>>

-----------------------------------------------------------------------------
(* Thread-local buffers *)

\* variant: should_flush compares with > instead of >=
buffer_record_event_late(a) ==
    LET events == Append(buf[a], [src |-> a, seq |-> issued[a] + 1])
    IN  /\ issued' = [issued EXCEPT ![a] = @ + 1]
        /\ IF Len(events) > BufferCapacity
           THEN accept_flush(a, events) /\ buf' = [buf EXCEPT ![a] = <<>>]
           ELSE buf' = [buf EXCEPT ![a] = events] /\ UNCHANGED <<queue, counting, evicted, evictions>>

\* buffer::record_event: push, and hand the buffer over when it is full
buffer_record_event(a) ==
    LET events == Append(buf[a], [src |-> a, seq |-> issued[a] + 1])
    IN  /\ issued' = [issued EXCEPT ![a] = @ + 1]
        /\ IF Len(events) >= BufferCapacity
           THEN accept_flush(a, events) /\ buf' = [buf EXCEPT ![a] = <<>>]
           ELSE buf' = [buf EXCEPT ![a] = events] /\ UNCHANGED <<queue, counting, evicted, evictions>>

\* variant: the buffer is copied to the collector and not emptied
drain_to_collector_copy(a) ==
    /\ IF buf[a] = <<>>
       THEN UNCHANGED <<queue, counting, evicted, evictions>>
       ELSE accept_flush(a, buf[a])
    /\ UNCHANGED buf

\* drain_to_collector, and Drop of the buffer when a thread ends
drain_to_collector(a) ==
    /\ IF buf[a] = <<>>
       THEN UNCHANGED <<queue, counting, evicted, evictions>>
       ELSE accept_flush(a, buf[a])
    /\ buf' = [buf EXCEPT ![a] = <<>>]

-----------------------------------------------------------------------------
(* Hooks of the runtime.  A worker that parks records the park first and   *)
(* runs nothing until it unparks, which it records too.                    *)

\* the guard's code runs on Main: Main runs no hook inside stop_flush_thread
MayRun(t) == t \notin counting /\ (t = Main => gpc \in {"live", "stopped"})

After == [recording |-> "running", parking |-> "parked"]

\* SharedState::record_event loads enabled in a hook that leads to pc k
Hook(t, from, k) ==
    /\ MayRun(t) /\ pc[t] = from
    /\ IF enabled
       THEN issued[t] < MaxEvents[t] /\ pc' = [pc EXCEPT ![t] = k]
       ELSE pc' = [pc EXCEPT ![t] = After[k]]
    /\ UNCHANGED <<shared, flushing, guard, buf, issued>>

on_event(t) == Hook(t, "running", "recording") \* poll, spawn, terminate and wake
on_thread_park(t) == Hook(t, "running", "parking")
on_thread_unpark(t) == Hook(t, "parked", "recording")

record_event(t) ==
    /\ MayRun(t) /\ pc[t] \in DOMAIN After
    /\ pc' = [pc EXCEPT ![t] = After[@]]
    /\ buffer_record_event(t)
    /\ UNCHANGED <<enabled, dropped, flushing, guard>>

ThreadExit(t) ==
    /\ MayRun(t) /\ t # Main /\ pc[t] = "running"
    /\ pc' = [pc EXCEPT ![t] = "exited"]
    /\ drain_to_collector(t)
    /\ UNCHANGED <<enabled, dropped, issued, flushing, guard>>

\* TelemetryHandle::enable and disable, from any thread
SetEnabled(b) ==
    /\ enabled # b /\ enabled' = b
    /\ UNCHANGED <<queue, dropped, counting, evicted, evictions, flushing, guard, threads>>

-----------------------------------------------------------------------------
(* The flush thread *)

FlusherAt(l) == fpc = l /\ Flusher \notin counting

\* wait for a command, up to 5 ms
recv_timeout ==
    /\ FlusherAt("recv")
    /\ exit' = chan /\ chan' = FALSE
    /\ fpc' = "sample"
    /\ UNCHANGED <<shared, threads, batch, cut, writer, trace, refused, abandoned, reported, errors, gpc, passes, handed>>

\* every 10 ms the loop records a queue sample into its own buffer
record_queue_sample ==
    /\ FlusherAt("sample") /\ fpc' = "drain"
    /\ enabled /\ issued[Flusher] < MaxEvents[Flusher]
    /\ buffer_record_event(Flusher)
    /\ UNCHANGED <<enabled, dropped, pc, exit, batch, cut, writer, trace, refused, abandoned, reported, errors, guard>>

SkipSample ==
    /\ FlusherAt("sample") /\ fpc' = "drain"
    /\ UNCHANGED <<shared, threads, exit, batch, cut, writer, trace, refused, abandoned, reported, errors, guard>>

\* flush_once begins: the flush thread's own buffer first
DrainOwn ==
    /\ FlusherAt("drain") /\ fpc' = "take"
    /\ cut' = FALSE
    /\ drain_to_collector(Flusher)
    /\ UNCHANGED <<enabled, dropped, pc, issued, exit, batch, writer, trace, refused, abandoned, reported, errors, guard>>

\* variant: the counter is read and not reset
take_dropped_batches_load ==
    /\ FlusherAt("take") /\ fpc' = "next"
    /\ reported' = reported + dropped
    /\ UNCHANGED <<enabled, queue, dropped, counting, evicted, evictions, threads, exit, batch, cut, writer, trace, refused, abandoned, errors, guard>>

\* swap(0) of the counter
take_dropped_batches ==
    /\ FlusherAt("take") /\ fpc' = "next"
    /\ reported' = reported + dropped /\ dropped' = 0
    /\ UNCHANGED <<enabled, queue, counting, evicted, evictions, threads, exit, batch, cut, writer, trace, refused, abandoned, errors, guard>>

\* variant: the loop over the collector stops while recording is disabled
next_while_enabled ==
    /\ FlusherAt("next")
    /\ IF queue = <<>> \/ ~enabled
       THEN fpc' = "end" /\ UNCHANGED <<queue, batch>>
       ELSE fpc' = "write" /\ batch' = Head(queue) /\ queue' = Tail(queue)
    /\ UNCHANGED <<enabled, dropped, counting, evicted, evictions, threads, exit, cut, writer, trace, refused, abandoned, reported, errors, guard>>

\* collector.next(); an empty queue ends the cycle with a flush of the writer
next ==
    /\ FlusherAt("next")
    /\ IF queue = <<>>
       THEN fpc' = "end" /\ UNCHANGED <<queue, batch>>
       ELSE fpc' = "write" /\ batch' = Head(queue) /\ queue' = Tail(queue)
    /\ UNCHANGED <<enabled, dropped, counting, evicted, evictions, threads, exit, cut, writer, trace, refused, abandoned, reported, errors, guard>>

\* variant: one batch per flush_once, if let instead of while let
WriteOk_one_batch ==
    /\ FlusherAt("write")
    /\ batch' = Tail(batch)
    /\ fpc' = IF Len(batch) = 1 THEN "end" ELSE "write"
    /\ IF writer = "active"
       THEN /\ trace' = trace \union {Head(batch)} /\ UNCHANGED refused
            /\ writer' \in {"active", "finished"}
       ELSE refused' = refused \union {Head(batch)} /\ UNCHANGED <<trace, writer>>
    /\ UNCHANGED <<shared, threads, exit, cut, abandoned, reported, errors, guard>>

\* write_raw_event returned Ok: the event was written, or dropped by a writer
\* that ran out of its disk budget, which may happen in the rotation after it
WriteOk ==
    /\ FlusherAt("write")
    /\ batch' = Tail(batch)
    /\ fpc' = IF Len(batch) = 1 THEN "next" ELSE "write"
    /\ IF writer = "active"
       THEN /\ trace' = trace \union {Head(batch)} /\ UNCHANGED refused
            /\ writer' \in {"active", "finished"}
       ELSE refused' = refused \union {Head(batch)} /\ UNCHANGED <<trace, writer>>
    /\ UNCHANGED <<shared, threads, exit, cut, abandoned, reported, errors, guard>>

\* write_raw_event returned Err, before the event was written or, when the
\* rotation failed, after it: recording stops and the batch is abandoned
WriteErr ==
    /\ FlusherAt("write") /\ writer = "active" /\ errors < MaxErrors
    /\ errors' = errors + 1
    /\ \E written \in {{}, {Head(batch)}} :
          /\ trace' = trace \union written
          /\ abandoned' = abandoned \union (Elements(batch) \ written)
    /\ batch' = <<>> /\ cut' = TRUE /\ fpc' = "end"
    /\ enabled' = FALSE
    /\ UNCHANGED <<queue, dropped, counting, evicted, evictions, threads, exit, writer, refused, reported, guard>>

\* the end of a loop iteration; the last one finalizes the writer, which fails
\* when the final flush or rename does
finalize ==
    /\ FlusherAt("end")
    /\ IF exit
       THEN fpc' = "ack" /\ writer' \in {"finalized", writer}
       ELSE fpc' = "recv" /\ UNCHANGED writer
    /\ UNCHANGED <<shared, threads, exit, batch, cut, trace, refused, abandoned, reported, errors, guard>>

\* the acknowledgement is a rendezvous with the guard; the flush thread ends
Ack ==
    /\ FlusherAt("ack") /\ gpc = "await"
    /\ fpc' = "exited" /\ gpc' = "join"
    /\ UNCHANGED <<shared, threads, exit, batch, cut, writer, trace, refused, abandoned, reported, errors, chan, passes, handed>>

-----------------------------------------------------------------------------
(* TelemetryGuard::stop_flush_thread, run by graceful_shutdown and then    *)
(* again by Drop, or by Drop alone                                         *)

GuardAt(l) == gpc = l /\ Main \notin counting

StopBegin ==
    /\ GuardAt(IF passes = 0 THEN "live" ELSE "stopped") /\ passes < 2
    /\ pc[Main] = "running"
    /\ passes' = passes + 1 /\ gpc' = "send"
    /\ drain_to_collector(Main)
    /\ UNCHANGED <<enabled, dropped, pc, issued, flushing, chan, handed>>

\* variant: the guard waits for an acknowledgement whatever send returned
SendStop_always_waits ==
    /\ GuardAt("send")
    /\ gpc' = "await"
    /\ IF fpc # "exited"
       THEN ~chan /\ chan' = TRUE /\ handed' = Queued
       ELSE UNCHANGED <<chan, handed>>
    /\ UNCHANGED <<shared, flushing, threads, passes>>

\* send fails once the flush thread has gone, and with it the receiver
SendStop ==
    /\ GuardAt("send")
    /\ IF fpc # "exited"
       THEN ~chan /\ chan' = TRUE /\ gpc' = "await" /\ handed' = Queued
       ELSE gpc' = "join" /\ UNCHANGED <<chan, handed>>
    /\ UNCHANGED <<shared, flushing, threads, passes>>

Join ==
    /\ GuardAt("join") /\ fpc = "exited"
    /\ gpc' = "stopped"
    /\ UNCHANGED <<shared, flushing, threads, chan, passes, handed>>

-----------------------------------------------------------------------------
FlushThread ==
    \/ recv_timeout \/ record_queue_sample \/ SkipSample \/ DrainOwn \/ take_dropped_batches
    \/ next \/ WriteOk \/ WriteErr \/ finalize \/ Ack \/ CountEviction(Flusher)

Guard == StopBegin \/ SendStop \/ Join

RuntimeThread(t) ==
    \/ on_event(t) \/ on_thread_park(t) \/ on_thread_unpark(t)
    \/ record_event(t) \/ ThreadExit(t) \/ CountEviction(t)

Next ==
    \/ FlushThread
    \/ Guard
    \/ \E t \in Threads : RuntimeThread(t)
    \/ \E b \in BOOLEAN : SetEnabled(b)

Spec == Init /\ [][Next]_vars

(***************************************************************************)
(* The operating system runs every thread that is able to run: the flush   *)
(* thread, the guard once it has entered stop_flush_thread, and a thread   *)
(* in the middle of a hook.  That a hook is called, that a flush is        *)
(* stopped or that a sample is due is never assumed.                       *)
(***************************************************************************)
Fairness ==
    /\ WF_vars(FlushThread)
    /\ WF_vars(SendStop \/ Join)
    /\ \A t \in Threads : WF_vars(record_event(t) \/ CountEviction(t))

FairSpec == Spec /\ Fairness

-----------------------------------------------------------------------------
(* Properties *)

\* The variables have their types, a thread-local buffer is below its capacity
\* between two hooks, and the queue and the channel never exceed theirs.
TypeOK ==
    /\ enabled \in BOOLEAN /\ exit \in BOOLEAN /\ cut \in BOOLEAN /\ chan \in BOOLEAN
    /\ pc \in [Threads -> {"running", "parked", "recording", "parking", "exited"}]
    /\ buf \in [Actors -> Seq(Event)] /\ \A a \in Actors : Len(buf[a]) < BufferCapacity
    /\ queue \in Seq(Seq(Event) \ {<<>>}) /\ Len(queue) <= QueueCapacity
    /\ batch \in Seq(Event) /\ (fpc = "write" <=> batch # <<>>)
    /\ fpc \in {"recv", "sample", "drain", "take", "next", "write", "end", "ack", "exited"}
    /\ gpc \in {"live", "send", "await", "join", "stopped"}
    /\ writer \in {"active", "finished", "finalized"}
    /\ counting \subseteq Actors /\ issued \in [Actors -> Nat]
    /\ dropped \in Nat /\ reported \in Nat /\ evictions \in Nat /\ errors \in Nat /\ passes \in 0..2
    /\ trace \subseteq Event /\ Lost \subseteq Event /\ handed \subseteq Event

\* The events of one thread are ordered within s, and those in s precede those in r.
Sorted(s) == \A i, j \in DOMAIN s : i < j /\ s[i].src = s[j].src => s[i].seq < s[j].seq
Before(E, F) == \A e \in E, f \in F : e.src = f.src => e.seq < f.seq

\* The events of every thread reach the writer in the order it recorded them and
\* none twice, whatever the interleaving of hand-overs, evictions and write
\* errors; what force_push evicts is older than all that remains queued.
InOrder ==
    /\ Sorted(batch)
    /\ \A i \in DOMAIN queue : Sorted(queue[i])
    /\ \A a \in Actors : Sorted(buf[a])
    /\ \A i, j \in DOMAIN queue : i < j => Before(Elements(queue[i]), Elements(queue[j]))
    /\ Before(trace \union refused \union abandoned, Queued \union Elements(batch))
    /\ Before(Elements(batch) \union evicted, Queued)
    /\ \A a \in Actors : Before(trace \union Lost \union Elements(batch) \union Queued, Elements(buf[a]))

\* Every event recorded is in exactly one place: the trace, a buffer, the queue,
\* the batch being written, or one of the ways in which the code loses events.
Places(e) == <<e \in trace, e \in refused, e \in abandoned, e \in evicted,
               e \in Queued, e \in Elements(batch), e \in Elements(buf[e.src])>>
NothingVanishes ==
    \A a \in Actors : \A n \in 1..issued[a] :
        LET places == Places([src |-> a, seq |-> n])
        IN  \E i \in DOMAIN places : \A j \in DOMAIN places : places[j] <=> j = i

\* Every batch that force_push evicts is counted once: it has been reported by a
\* flush, waits in dropped_batches, or its fetch_add is still to come.
DropAccounting == evictions = reported + dropped + Cardinality(counting)

\* When stop_flush_thread returns, the flush thread has gone and the events that
\* were in the collector when it sent its command have been settled, unless a
\* write error cut the last flush short.
HandedOverSettled ==
    passes > 0 /\ gpc = "stopped" =>
        /\ fpc = "exited"
        /\ ~cut => handed \subseteq trace \union Lost

\* stop_flush_thread returns, from graceful_shutdown and from the Drop after it.
StopReturns == gpc \in {"send", "await", "join"} ~> gpc = "stopped"

\* A batch does not stay in the collector while the flush thread lives, however
\* writes fail and however recording is switched on and off.
QueueDrains ==
    \A a \in Actors : \A n \in 1..MaxEvents[a] :
        LET e == [src |-> a, seq |-> n]
        IN  e \in Queued ~> (e \in trace \union Lost \/ fpc = "exited")

\* The design says of parking: "Workers flush when parking to avoid holding
\* events".  A worker that has run its park hook holds no events.
ParkedHoldsNothing == \A t \in Threads : pc[t] = "parked" => buf[t] = <<>>

=============================================================================
