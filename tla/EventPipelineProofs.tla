------------------------ MODULE EventPipelineProofs ------------------------
(***************************************************************************)
(* Proofs about EventPipeline, for any set of threads and any capacities.  *)
(***************************************************************************)
EXTENDS EventPipeline, TLAPS, FiniteSetTheorems

-----------------------------------------------------------------------------
(* Sequences *)

\* Appending adds the element at the end.
LEMMA AppendFacts ==
    ASSUME NEW S, NEW s \in Seq(S), NEW e \in S
    PROVE  /\ Append(s, e) \in Seq(S) /\ Len(Append(s, e)) = Len(s) + 1
           /\ DOMAIN Append(s, e) = 1..(Len(s) + 1)
           /\ \A i \in DOMAIN s : Append(s, e)[i] = s[i]
           /\ Append(s, e)[Len(s) + 1] = e
           /\ Append(s, e) # <<>>
  OBVIOUS

\* Taking the head off keeps the others in their order.
LEMMA TailFacts ==
    ASSUME NEW S, NEW s \in Seq(S), s # <<>>
    PROVE  /\ Head(s) \in S /\ Head(s) = s[1] /\ Tail(s) \in Seq(S)
           /\ Len(s) > 0 /\ Len(Tail(s)) = Len(s) - 1
           /\ DOMAIN Tail(s) = 1..(Len(s) - 1)
           /\ \A i \in DOMAIN Tail(s) : i + 1 \in DOMAIN s /\ Tail(s)[i] = s[i + 1]
           /\ 1 \in DOMAIN s
  OBVIOUS

LEMMA ElementsType ==
    ASSUME NEW S, NEW s \in Seq(S)
    PROVE  Elements(s) \subseteq S
  BY DEF Elements

LEMMA ElementsEmpty == Elements(<<>>) = {}
  BY DEF Elements

LEMMA ElementsAppend ==
    ASSUME NEW S, NEW s \in Seq(S), NEW e \in S
    PROVE  Elements(Append(s, e)) = Elements(s) \union {e}
  BY AppendFacts DEF Elements

LEMMA ElementsTail ==
    ASSUME NEW S, NEW s \in Seq(S), s # <<>>
    PROVE  Elements(s) = {Head(s)} \union Elements(Tail(s))
<1>1. Elements(s) \subseteq {Head(s)} \union Elements(Tail(s))
  <2> SUFFICES ASSUME NEW i \in DOMAIN s PROVE s[i] \in {Head(s)} \union Elements(Tail(s))
    BY DEF Elements
  <2>1. CASE i = 1
    BY <2>1, TailFacts
  <2>2. CASE i # 1
    <3>1. i - 1 \in DOMAIN Tail(s) /\ Tail(s)[i - 1] = s[i]
      BY <2>2, TailFacts
    <3> QED BY <3>1 DEF Elements
  <2> QED BY <2>1, <2>2
<1>2. {Head(s)} \union Elements(Tail(s)) \subseteq Elements(s)
  BY TailFacts DEF Elements
<1> QED BY <1>1, <1>2

-----------------------------------------------------------------------------
(* Type correctness *)

Batch == Seq(Event) \ {<<>>}

\* The part of TypeOK that the threads' hand-overs touch.
CollectorType ==
    /\ queue \in Seq(Batch) /\ Len(queue) <= QueueCapacity
    /\ counting \subseteq Actors /\ evictions \in Nat /\ evicted \subseteq Event
BufferType == buf \in [Actors -> Seq(Event)] /\ \A b \in Actors : Len(buf[b]) < BufferCapacity

LEMMA TypeParts == TypeOK => CollectorType /\ BufferType /\ issued \in [Actors -> Nat]
  BY DEF TypeOK, CollectorType, BufferType, Batch, Lost

\* What accept_flush does to the types.
LEMMA AcceptType ==
    ASSUME TypeOK, NEW a \in Actors, NEW events \in Batch, accept_flush(a, events)
    PROVE  CollectorType'
<1> USE CapacityAssumption
<1>1. queue \in Seq(Batch) /\ Len(queue) <= QueueCapacity /\ counting \subseteq Actors
      /\ evictions \in Nat /\ evicted \subseteq Event
  BY TypeParts DEF CollectorType
<1>2. CASE Len(queue) < QueueCapacity
  <2>1. queue' = Append(queue, events) /\ UNCHANGED <<counting, evicted, evictions>>
    BY <1>2 DEF accept_flush
  <2>2. queue' \in Seq(Batch) /\ Len(queue') = Len(queue) + 1
    BY <1>1, <2>1, AppendFacts
  <2> QED BY <1>1, <1>2, <2>1, <2>2 DEF CollectorType
<1>3. CASE ~(Len(queue) < QueueCapacity)
  <2>1. /\ queue' = Append(Tail(queue), events) /\ counting' = counting \union {a}
        /\ evicted' = evicted \union Elements(Head(queue)) /\ evictions' = evictions + 1
    BY <1>3 DEF accept_flush
  <2>2. Len(queue) = QueueCapacity /\ queue # <<>>
    BY <1>1, <1>3
  <2>3. Tail(queue) \in Seq(Batch) /\ Head(queue) \in Batch /\ Len(Tail(queue)) = Len(queue) - 1
    BY <1>1, <2>2, TailFacts
  <2>4. queue' \in Seq(Batch) /\ Len(queue') = Len(queue)
    BY <1>1, <2>1, <2>3, AppendFacts
  <2>5. Elements(Head(queue)) \subseteq Event
    BY <2>3, ElementsType DEF Batch
  <2> QED BY <1>1, <2>1, <2>2, <2>4, <2>5 DEF CollectorType
<1> QED BY <1>2, <1>3

\* What recording an event does to the types.
LEMMA RecordType ==
    ASSUME TypeOK, NEW a \in Actors, buffer_record_event(a)
    PROVE  CollectorType' /\ BufferType' /\ issued' \in [Actors -> Nat]
<1> DEFINE e == [src |-> a, seq |-> issued[a] + 1]
<1> DEFINE events == Append(buf[a], e)
<1> USE CapacityAssumption
<1>1. CollectorType /\ BufferType /\ issued \in [Actors -> Nat]
  BY TypeParts
<1>2. e \in Event
  BY <1>1 DEF Event
<1>3. events \in Batch
  <2>1. buf[a] \in Seq(Event)
    BY <1>1 DEF BufferType
  <2> QED BY <1>2, <2>1, AppendFacts DEF Batch
<1>4. events \in Seq(Event) /\ <<>> \in Seq(Event) /\ Len(<<>>) = 0
  BY <1>3 DEF Batch
<1> HIDE DEF e, events
<1>5. issued' \in [Actors -> Nat]
  BY <1>1 DEF buffer_record_event
<1>6. CASE Len(events) >= BufferCapacity
  <2>1. accept_flush(a, events) /\ buf' = [buf EXCEPT ![a] = <<>>]
    BY <1>6 DEF buffer_record_event, events, e
  <2>2. CollectorType'
    BY <1>3, <2>1, AcceptType
  <2>3. BufferType'
    BY <1>1, <1>4, <2>1 DEF BufferType
  <2> QED BY <1>5, <2>2, <2>3
<1>7. CASE ~(Len(events) >= BufferCapacity)
  <2>1. /\ buf' = [buf EXCEPT ![a] = events]
        /\ UNCHANGED <<queue, counting, evicted, evictions>>
    BY <1>7 DEF buffer_record_event, events, e
  <2>2. Len(events) < BufferCapacity
    BY <1>4, <1>7
  <2> QED BY <1>1, <1>4, <1>5, <2>1, <2>2 DEF CollectorType, BufferType
<1> QED BY <1>6, <1>7

\* What draining a thread-local buffer does to the types.
LEMMA DrainType ==
    ASSUME TypeOK, NEW a \in Actors, drain_to_collector(a)
    PROVE  CollectorType' /\ BufferType'
<1> USE CapacityAssumption
<1>1. CollectorType /\ BufferType
  BY TypeParts
<1>2. buf' = [buf EXCEPT ![a] = <<>>]
  BY DEF drain_to_collector
<1>3. BufferType'
  BY <1>1, <1>2 DEF BufferType
<1>4. CASE buf[a] = <<>>
  BY <1>1, <1>3, <1>4 DEF drain_to_collector, CollectorType
<1>5. CASE buf[a] # <<>>
  <2>1. buf[a] \in Batch /\ accept_flush(a, buf[a])
    BY <1>1, <1>5 DEF drain_to_collector, Batch, BufferType
  <2> QED BY <1>3, <2>1, AcceptType
<1> QED BY <1>4, <1>5

\* What a Queued event is.
LEMMA QueuedType == TypeOK => Queued \subseteq Event
<1> SUFFICES ASSUME TypeOK, NEW i \in DOMAIN queue PROVE Elements(queue[i]) \subseteq Event
  BY DEF Queued
<1>1. queue[i] \in Seq(Event)
  BY DEF TypeOK
<1> QED BY <1>1, ElementsType

LEMMA TypeInit == Init => TypeOK
<1> SUFFICES ASSUME Init PROVE TypeOK
  OBVIOUS
<1>1. <<>> \in Seq(Event) /\ <<>> \in Seq(Seq(Event) \ {<<>>}) /\ Len(<<>>) = 0
  OBVIOUS
<1>2. buf \in [Actors -> Seq(Event)] /\ \A a \in Actors : Len(buf[a]) < BufferCapacity
  BY <1>1, CapacityAssumption DEF Init
<1>3. queue \in Seq(Seq(Event) \ {<<>>}) /\ Len(queue) <= QueueCapacity /\ batch \in Seq(Event)
  BY <1>1, CapacityAssumption DEF Init
<1>4. /\ pc \in [Threads -> {"running", "parked", "recording", "parking", "exited"}]
      /\ issued \in [Actors -> Nat] /\ passes \in 0..2
  BY DEF Init
<1>5. Lost = {} /\ trace = {} /\ handed = {} /\ counting = {}
  BY DEF Init, Lost
<1>6. fpc = "recv" /\ batch = <<>> /\ gpc = "live" /\ writer = "active"
  BY DEF Init
<1> QED BY <1>2, <1>3, <1>4, <1>5, <1>6 DEF Init, TypeOK

\* Every step preserves the types.
LEMMA TypeNext == TypeOK /\ [Next]_vars => TypeOK'
<1> SUFFICES ASSUME TypeOK, [Next]_vars PROVE TypeOK'
  OBVIOUS
<1> USE DEF Lost
<1> USE ActorsAssumption DEF Actors
<1>1. ASSUME NEW a \in Actors, CountEviction(a) PROVE TypeOK'
  BY <1>1 DEF TypeOK, CountEviction, flushing, guard, threads
<1>2. ASSUME NEW t \in Threads, NEW from, NEW k \in DOMAIN After, Hook(t, from, k)
      PROVE  TypeOK'
  <2>1. k \in {"recording", "parking"} /\ After[k] \in {"running", "parked"}
    BY <1>2 DEF After
  <2>2. pc' \in [Threads -> {"running", "parked", "recording", "parking", "exited"}]
    BY <1>2, <2>1 DEF TypeOK, Hook
  <2> QED BY <1>2, <2>2 DEF TypeOK, Hook, flushing, guard, shared
<1>3. ASSUME NEW t \in Threads, record_event(t) PROVE TypeOK'
  <2>1. buffer_record_event(t)
    BY <1>3 DEF record_event
  <2>2. CollectorType' /\ BufferType' /\ issued' \in [Actors -> Nat]
    BY <2>1, RecordType
  <2> HIDE DEF Actors
  <2> QED BY <1>3, <2>2 DEF TypeOK, CollectorType, BufferType, Batch, record_event, After, flushing, guard
<1>4. ASSUME NEW t \in Threads, ThreadExit(t) PROVE TypeOK'
  <2>1. drain_to_collector(t)
    BY <1>4 DEF ThreadExit
  <2>2. CollectorType' /\ BufferType'
    BY <2>1, DrainType
  <2> HIDE DEF Actors
  <2> QED BY <1>4, <2>2 DEF TypeOK, CollectorType, BufferType, Batch, ThreadExit, flushing, guard
<1>5. ASSUME NEW b \in BOOLEAN, SetEnabled(b) PROVE TypeOK'
  BY <1>5 DEF TypeOK, SetEnabled, flushing, guard, threads
<1>6. CASE recv_timeout
  BY <1>6 DEF TypeOK, recv_timeout, FlusherAt, shared, threads
<1>7. CASE record_queue_sample
  <2>1. buffer_record_event(Flusher)
    BY <1>7 DEF record_queue_sample
  <2>2. CollectorType' /\ BufferType' /\ issued' \in [Actors -> Nat]
    BY <2>1, RecordType
  <2> HIDE DEF Actors
  <2> QED BY <1>7, <2>2 DEF TypeOK, CollectorType, BufferType, Batch, record_queue_sample, FlusherAt, guard
<1>8. CASE SkipSample
  BY <1>8 DEF TypeOK, SkipSample, FlusherAt, shared, threads, guard
<1>9. CASE DrainOwn
  <2>1. drain_to_collector(Flusher)
    BY <1>9 DEF DrainOwn
  <2>2. CollectorType' /\ BufferType'
    BY <2>1, DrainType
  <2> HIDE DEF Actors
  <2> QED BY <1>9, <2>2 DEF TypeOK, CollectorType, BufferType, Batch, DrainOwn, FlusherAt, guard
<1>10. CASE take_dropped_batches
  BY <1>10 DEF TypeOK, take_dropped_batches, FlusherAt, threads, guard
<1>11. CASE next
  <2>1. CASE queue = <<>>
    BY <1>11, <2>1 DEF TypeOK, next, FlusherAt, threads, guard
  <2>2. CASE queue # <<>>
    <3>1. queue \in Seq(Seq(Event) \ {<<>>})
      BY DEF TypeOK
    <3>2. /\ Head(queue) \in Seq(Event) \ {<<>>} /\ Tail(queue) \in Seq(Seq(Event) \ {<<>>})
          /\ Len(Tail(queue)) <= Len(queue)
      BY <2>2, <3>1, TailFacts
    <3>3. Len(Tail(queue)) <= QueueCapacity
      BY <3>1, <3>2, CapacityAssumption DEF TypeOK
    <3>4. /\ fpc' = "write" /\ batch' = Head(queue) /\ queue' = Tail(queue)
          /\ UNCHANGED <<enabled, dropped, counting, evicted, evictions, threads, exit, cut,
                         writer, trace, refused, abandoned, reported, errors, guard>>
      BY <1>11, <2>2 DEF next
    <3> QED BY <3>2, <3>3, <3>4 DEF TypeOK, FlusherAt, threads, guard
  <2> QED BY <2>1, <2>2
<1>12. CASE WriteOk
  <2>1. batch \in Seq(Event) /\ batch # <<>>
    BY <1>12 DEF TypeOK, WriteOk, FlusherAt
  <2>2. /\ Head(batch) \in Event /\ Tail(batch) \in Seq(Event)
        /\ Len(batch) > 0 /\ Len(Tail(batch)) = Len(batch) - 1
    BY <2>1, TailFacts
  <2>3. Tail(batch) # <<>> <=> Len(batch) # 1
    BY <2>1, <2>2
  <2> QED BY <1>12, <2>2, <2>3 DEF TypeOK, WriteOk, FlusherAt, shared, threads, guard
<1>13. CASE WriteErr
  <2>1. batch \in Seq(Event) /\ batch # <<>>
    BY <1>13 DEF TypeOK, WriteErr, FlusherAt
  <2>2. Head(batch) \in Event /\ Elements(batch) \subseteq Event
    BY <2>1, TailFacts, ElementsType
  <2>3. trace' \subseteq Event /\ abandoned' \subseteq Event
    BY <1>13, <2>2 DEF TypeOK, WriteErr
  <2>4. errors' \in Nat /\ batch' = <<>> /\ batch' \in Seq(Event)
    BY <1>13 DEF TypeOK, WriteErr
  <2> QED BY <1>13, <2>3, <2>4 DEF TypeOK, WriteErr, threads, guard
<1>14. CASE finalize
  BY <1>14 DEF TypeOK, finalize, FlusherAt, shared, threads, guard
<1>15. CASE Ack
  BY <1>15 DEF TypeOK, Ack, FlusherAt, shared, threads
<1>16. CASE StopBegin
  <2>1. drain_to_collector(Main) /\ Main \in Actors
    BY <1>16 DEF StopBegin
  <2>2. CollectorType' /\ BufferType'
    BY <2>1, DrainType
  <2> HIDE DEF Actors
  <2> QED BY <1>16, <2>2 DEF TypeOK, CollectorType, BufferType, Batch, StopBegin, GuardAt, flushing
<1>17. CASE SendStop
  BY <1>17, QueuedType DEF TypeOK, SendStop, GuardAt, shared, threads, flushing
<1>18. CASE Join
  BY <1>18 DEF TypeOK, Join, GuardAt, shared, threads, flushing
<1>19. CASE UNCHANGED vars
  BY <1>19 DEF TypeOK, vars, shared, threads, flushing, guard
<1> QED
  BY <1>1, <1>2, <1>3, <1>4, <1>5, <1>6, <1>7, <1>8, <1>9, <1>10, <1>11, <1>12, <1>13,
     <1>14, <1>15, <1>16, <1>17, <1>18, <1>19
  DEF Next, FlushThread, Guard, RuntimeThread, on_event, on_thread_park, on_thread_unpark, After

\* Type correctness: buffers and queue stay within their capacities.
THEOREM TypeCorrect == Spec => []TypeOK
  BY TypeInit, TypeNext, PTL DEF Spec

-----------------------------------------------------------------------------
(* Drop accounting *)

LEMMA ActorsFinite == IsFiniteSet(Actors)
  BY ActorsAssumption, FS_AddElement DEF Actors

\* A thread that is not counting an eviction hands over at most one batch, and
\* accounts for the one it evicts by becoming one of those that count.
LEMMA HandOverAccounts ==
    ASSUME TypeOK, DropAccounting, NEW a \in Actors, a \notin counting,
           dropped' = dropped, reported' = reported,
           buffer_record_event(a) \/ drain_to_collector(a)
    PROVE  DropAccounting'
<1>1. IsFiniteSet(counting) /\ evictions \in Nat /\ reported \in Nat /\ dropped \in Nat
  BY ActorsFinite, FS_Subset DEF TypeOK
<1>2. \/ UNCHANGED <<counting, evictions>>
      \/ counting' = counting \union {a} /\ evictions' = evictions + 1
  BY DEF buffer_record_event, drain_to_collector, accept_flush
<1>3. Cardinality(counting \union {a}) = Cardinality(counting) + 1
  BY <1>1, FS_AddElement
<1>4. Cardinality(counting) \in Nat
  BY <1>1, FS_CardinalityType
<1> QED BY <1>1, <1>2, <1>3, <1>4 DEF DropAccounting

LEMMA DropInit == Init => DropAccounting
  BY FS_EmptySet DEF Init, DropAccounting

\* Every step preserves the account.
LEMMA DropNext == TypeOK /\ DropAccounting /\ [Next]_vars => DropAccounting'
<1> SUFFICES ASSUME TypeOK, DropAccounting, [Next]_vars PROVE DropAccounting'
  OBVIOUS
<1> DEFINE Others == UNCHANGED <<evictions, reported, dropped, counting>>
<1>1. ASSUME NEW a \in Actors, CountEviction(a) PROVE DropAccounting'
  <2>1. IsFiniteSet(counting) /\ evictions \in Nat /\ reported \in Nat /\ dropped \in Nat
    BY ActorsFinite, FS_Subset DEF TypeOK
  <2>2. a \in counting /\ counting' = counting \ {a} /\ dropped' = dropped + 1
        /\ evictions' = evictions /\ reported' = reported
    BY <1>1 DEF CountEviction, flushing
  <2>3. Cardinality(counting \ {a}) = Cardinality(counting) - 1 /\ Cardinality(counting) \in Nat
    BY <2>1, <2>2, FS_RemoveElement, FS_CardinalityType
  <2> QED BY <2>1, <2>2, <2>3 DEF DropAccounting
<1>2. ASSUME NEW t \in Threads, record_event(t) \/ ThreadExit(t) PROVE DropAccounting'
  <2>1. t \in Actors /\ t \notin counting /\ dropped' = dropped /\ reported' = reported
        /\ (buffer_record_event(t) \/ drain_to_collector(t))
    BY <1>2 DEF record_event, ThreadExit, MayRun, Actors, flushing
  <2> QED BY <2>1, HandOverAccounts
<1>3. CASE record_queue_sample \/ DrainOwn
  <2>1. Flusher \in Actors /\ Flusher \notin counting /\ dropped' = dropped /\ reported' = reported
        /\ (buffer_record_event(Flusher) \/ drain_to_collector(Flusher))
    BY <1>3 DEF record_queue_sample, DrainOwn, FlusherAt, Actors
  <2> QED BY <2>1, HandOverAccounts
<1>4. CASE StopBegin
  <2>1. Main \in Actors /\ Main \notin counting /\ dropped' = dropped /\ reported' = reported
        /\ drain_to_collector(Main)
    BY <1>4, ActorsAssumption DEF StopBegin, GuardAt, Actors, flushing
  <2> QED BY <2>1, HandOverAccounts
<1>5. CASE take_dropped_batches
  <2>1. /\ IsFiniteSet(counting) /\ evictions \in Nat /\ reported \in Nat /\ dropped \in Nat
        /\ UNCHANGED <<counting, evictions>> /\ reported' = reported + dropped /\ dropped' = 0
    BY <1>5, ActorsFinite, FS_Subset DEF TypeOK, take_dropped_batches
  <2>2. Cardinality(counting) \in Nat
    BY <2>1, FS_CardinalityType
  <2> QED BY <2>1, <2>2 DEF DropAccounting
<1>6. ASSUME Others PROVE DropAccounting'
  BY <1>6 DEF DropAccounting
<1> HIDE DEF Others
<1>7. ASSUME NEW t \in Threads, on_event(t) \/ on_thread_park(t) \/ on_thread_unpark(t) PROVE Others
  BY <1>7 DEF Others, on_event, on_thread_park, on_thread_unpark, Hook, shared, flushing
<1>8. ASSUME NEW b \in BOOLEAN, SetEnabled(b) PROVE Others
  BY <1>8 DEF Others, SetEnabled, flushing
<1>9. CASE recv_timeout \/ SkipSample \/ next \/ WriteOk \/ WriteErr \/ finalize \/ Ack
  <2>1. Others
    BY <1>9 DEF Others, recv_timeout, SkipSample, next, WriteOk, WriteErr, finalize, Ack, shared
  <2> QED BY <1>6, <2>1
<1>10. CASE SendStop \/ Join \/ UNCHANGED vars
  <2>1. Others
    BY <1>10 DEF Others, SendStop, Join, vars, shared, flushing
  <2> QED BY <1>6, <2>1
<1> QED
  BY <1>1, <1>2, <1>3, <1>4, <1>5, <1>6, <1>7, <1>8, <1>9, <1>10
  DEF Next, FlushThread, Guard, RuntimeThread, Actors

\* No eviction is lost from the account or counted twice, however the fetch_add
\* of accept_flush interleaves with the swap of take_dropped_batches.
THEOREM DropsAccounted == Spec => []DropAccounting
<1>1. Init => DropAccounting
  BY DropInit
<1>2. TypeOK /\ TypeOK' /\ DropAccounting /\ [Next]_vars => DropAccounting'
  BY DropNext
<1> QED BY <1>1, <1>2, TypeCorrect, PTL DEF Spec

-----------------------------------------------------------------------------
(* Order *)

\* The events of a sequence of batches, and the order a queue keeps them in.
AllOf(q) == UNION {Elements(q[i]) : i \in DOMAIN q}
QueueSorted(q) ==
    /\ \A i \in DOMAIN q : Sorted(q[i])
    /\ \A i, j \in DOMAIN q : i < j => Before(Elements(q[i]), Elements(q[j]))

LEMMA AllAppend ==
    ASSUME NEW q \in Seq(Batch), NEW s \in Batch
    PROVE  AllOf(Append(q, s)) = AllOf(q) \union Elements(s)
<1>1. /\ DOMAIN Append(q, s) = 1..(Len(q) + 1) /\ DOMAIN q = 1..Len(q) /\ Len(q) \in Nat
      /\ \A i \in DOMAIN q : Append(q, s)[i] = q[i]
      /\ Append(q, s)[Len(q) + 1] = s
  BY AppendFacts
<1>2. AllOf(Append(q, s)) \subseteq AllOf(q) \union Elements(s)
  <2> SUFFICES ASSUME NEW i \in 1..(Len(q) + 1)
               PROVE  Elements(Append(q, s)[i]) \subseteq AllOf(q) \union Elements(s)
    BY <1>1 DEF AllOf
  <2>1. CASE i = Len(q) + 1
    BY <1>1, <2>1
  <2>2. CASE i # Len(q) + 1
    <3>1. i \in DOMAIN q
      BY <1>1, <2>2
    <3> QED BY <1>1, <3>1 DEF AllOf
  <2> QED BY <2>1, <2>2
<1>3. AllOf(q) \subseteq AllOf(Append(q, s))
  <2> SUFFICES ASSUME NEW i \in DOMAIN q PROVE Elements(q[i]) \subseteq AllOf(Append(q, s))
    BY DEF AllOf
  <2>1. i \in DOMAIN Append(q, s)
    BY <1>1
  <2> QED BY <1>1, <2>1 DEF AllOf
<1>4. Elements(s) \subseteq AllOf(Append(q, s))
  <2>1. Len(q) + 1 \in DOMAIN Append(q, s)
    BY <1>1
  <2> QED BY <1>1, <2>1 DEF AllOf
<1> QED BY <1>2, <1>3, <1>4

LEMMA AllTail ==
    ASSUME NEW q \in Seq(Batch), q # <<>>
    PROVE  AllOf(q) = Elements(Head(q)) \union AllOf(Tail(q))
<1>1. /\ Head(q) = q[1] /\ 1 \in DOMAIN q /\ DOMAIN q = 1..Len(q)
      /\ DOMAIN Tail(q) = 1..(Len(q) - 1) /\ Len(q) \in Nat
      /\ \A i \in DOMAIN Tail(q) : i + 1 \in DOMAIN q /\ Tail(q)[i] = q[i + 1]
  BY TailFacts
<1>2. AllOf(q) \subseteq Elements(Head(q)) \union AllOf(Tail(q))
  <2> SUFFICES ASSUME NEW i \in DOMAIN q
               PROVE  Elements(q[i]) \subseteq Elements(Head(q)) \union AllOf(Tail(q))
    BY DEF AllOf
  <2>1. CASE i = 1
    BY <1>1, <2>1
  <2>2. CASE i # 1
    <3>1. i - 1 \in DOMAIN Tail(q) /\ Tail(q)[i - 1] = q[i]
      BY <1>1, <2>2
    <3> QED BY <3>1 DEF AllOf
  <2> QED BY <2>1, <2>2
<1>3. Elements(Head(q)) \subseteq AllOf(q)
  BY <1>1 DEF AllOf
<1>4. AllOf(Tail(q)) \subseteq AllOf(q)
  BY <1>1 DEF AllOf
<1> QED BY <1>2, <1>3, <1>4

LEMMA SortedAppend ==
    ASSUME NEW q \in Seq(Batch), NEW s \in Batch,
           QueueSorted(q), Sorted(s), Before(AllOf(q), Elements(s))
    PROVE  QueueSorted(Append(q, s))
<1> DEFINE r == Append(q, s)
<1>1. /\ DOMAIN r = 1..(Len(q) + 1) /\ DOMAIN q = 1..Len(q) /\ Len(q) \in Nat
      /\ \A i \in DOMAIN q : r[i] = q[i]
      /\ r[Len(q) + 1] = s
  BY AppendFacts
<1> HIDE DEF r
<1>2. ASSUME NEW i \in DOMAIN r PROVE Sorted(r[i])
  <2>1. CASE i \in DOMAIN q
    BY <1>1, <2>1 DEF QueueSorted
  <2>2. CASE i = Len(q) + 1
    BY <1>1, <2>2
  <2> QED BY <1>1, <2>1, <2>2
<1>3. ASSUME NEW i \in DOMAIN r, NEW j \in DOMAIN r, i < j
      PROVE  Before(Elements(r[i]), Elements(r[j]))
  <2>1. i \in DOMAIN q
    BY <1>1, <1>3
  <2>2. CASE j \in DOMAIN q
    BY <1>1, <1>3, <2>1, <2>2 DEF QueueSorted
  <2>3. CASE j = Len(q) + 1
    <3>1. Elements(r[i]) \subseteq AllOf(q)
      BY <1>1, <2>1 DEF AllOf
    <3> QED BY <1>1, <2>3, <3>1 DEF Before
  <2> QED BY <1>1, <2>2, <2>3
<1> QED BY <1>2, <1>3 DEF QueueSorted, r

LEMMA SortedTail ==
    ASSUME NEW q \in Seq(Batch), q # <<>>, QueueSorted(q)
    PROVE  /\ QueueSorted(Tail(q)) /\ Sorted(Head(q))
           /\ Before(Elements(Head(q)), AllOf(Tail(q)))
<1>1. /\ Head(q) = q[1] /\ 1 \in DOMAIN q
      /\ DOMAIN Tail(q) = 1..(Len(q) - 1) /\ Len(q) \in Nat
      /\ \A i \in DOMAIN Tail(q) : i + 1 \in DOMAIN q /\ Tail(q)[i] = q[i + 1]
  BY TailFacts
<1>2. QueueSorted(Tail(q))
  <2>1. ASSUME NEW i \in DOMAIN Tail(q), NEW j \in DOMAIN Tail(q), i < j
        PROVE  Before(Elements(Tail(q)[i]), Elements(Tail(q)[j]))
    BY <1>1, <2>1 DEF QueueSorted
  <2>2. ASSUME NEW i \in DOMAIN Tail(q) PROVE Sorted(Tail(q)[i])
    BY <1>1 DEF QueueSorted
  <2> QED BY <2>1, <2>2 DEF QueueSorted
<1>3. Sorted(Head(q))
  BY <1>1 DEF QueueSorted
<1>4. Before(Elements(Head(q)), AllOf(Tail(q)))
  <2>1. ASSUME NEW i \in DOMAIN Tail(q) PROVE Before(Elements(Head(q)), Elements(Tail(q)[i]))
    BY <1>1 DEF QueueSorted
  <2> QED BY <2>1 DEF Before, AllOf
<1> QED BY <1>2, <1>3, <1>4

\* All events that have left the thread-local buffers.
Past == trace \union Lost \union Elements(batch) \union Queued

\* InOrder is inductive with what the numbers of the events say: a buffer holds
\* events of its own thread, and no event is newer than the thread's last.
OrderInv ==
    /\ InOrder
    /\ \A a \in Actors : \A e \in Elements(buf[a]) : e.src = a /\ e.seq <= issued[a]
    /\ \A e \in Past : e.seq <= issued[e.src]

\* A batch that is newer than all that left the buffers may enter the queue.
LEMMA AcceptOrder ==
    ASSUME TypeOK, OrderInv, NEW a \in Actors, NEW s \in Batch,
           accept_flush(a, s), buf' = [buf EXCEPT ![a] = <<>>],
           UNCHANGED <<batch, trace, refused, abandoned>>,
           Sorted(s), Before(Past, Elements(s)), \A e \in Elements(s) : e.src = a
    PROVE  InOrder' /\ Past' = Past \union Elements(s)
<1>1. queue \in Seq(Batch) /\ QueueSorted(queue) /\ Queued = AllOf(queue)
  BY DEF TypeOK, Batch, OrderInv, InOrder, QueueSorted, Queued, AllOf
<1>2. PICK q \in Seq(Batch) :
          /\ queue' = Append(q, s) /\ QueueSorted(q)
          /\ \/ q = queue /\ evicted' = evicted
             \/ /\ queue # <<>> /\ q = Tail(queue)
                /\ evicted' = evicted \union Elements(Head(queue))
  <2>1. CASE Len(queue) < QueueCapacity
    BY <1>1, <2>1 DEF accept_flush
  <2>2. CASE ~(Len(queue) < QueueCapacity)
    <3>1. queue # <<>>
      BY <2>2, CapacityAssumption
    <3>2. QueueSorted(Tail(queue)) /\ Tail(queue) \in Seq(Batch)
      BY <1>1, <3>1, SortedTail, TailFacts
    <3>3. queue' = Append(Tail(queue), s) /\ evicted' = evicted \union Elements(Head(queue))
      BY <2>2 DEF accept_flush
    <3> QED BY <3>1, <3>2, <3>3
  <2> QED BY <2>1, <2>2
<1>3. /\ AllOf(q) \subseteq Queued
      /\ \/ AllOf(q) = Queued /\ evicted' = evicted
         \/ \E head \in SUBSET Queued :
               /\ evicted' = evicted \union head
               /\ Queued = head \union AllOf(q) /\ Before(head, AllOf(q))
  <2>1. CASE q = queue /\ evicted' = evicted
    BY <1>1, <2>1
  <2>2. CASE queue # <<>> /\ q = Tail(queue) /\ evicted' = evicted \union Elements(Head(queue))
    <3>1. AllOf(queue) = Elements(Head(queue)) \union AllOf(q)
          /\ Before(Elements(Head(queue)), AllOf(q))
      BY <1>1, <2>2, AllTail, SortedTail
    <3> QED BY <1>1, <2>2, <3>1
  <2> QED BY <1>2, <2>1, <2>2
<1>4. Queued' = AllOf(q) \union Elements(s)
  <2>1. Queued' = AllOf(Append(q, s))
    BY <1>2 DEF Queued, AllOf
  <2> QED BY <2>1, AllAppend
<1>5. Past' = Past \union Elements(s)
  BY <1>3, <1>4 DEF Past, Lost
<1>6. Before(AllOf(q), Elements(s))
  BY <1>3 DEF Before, Past
<1>7. QueueSorted(queue')
  BY <1>2, <1>6, SortedAppend
<1>8. (\A i \in DOMAIN queue : Sorted(queue[i]))'
      /\ (\A i, j \in DOMAIN queue : i < j => Before(Elements(queue[i]), Elements(queue[j])))'
  BY <1>7 DEF QueueSorted
<1>9. Sorted(batch')
  BY DEF OrderInv, InOrder
<1>10. \A b \in Actors : Sorted(buf'[b]) /\ Before(Past', Elements(buf'[b]))
  <2> TAKE b \in Actors
  <2>1. CASE b = a
    <3>1. buf'[b] = <<>>
      BY <2>1 DEF TypeOK
    <3> QED BY <3>1, ElementsEmpty DEF Sorted, Before
  <2>2. CASE b # a
    <3>1. buf'[b] = buf[b] /\ Sorted(buf[b]) /\ Before(Past, Elements(buf[b]))
      BY <2>2 DEF TypeOK, OrderInv, InOrder, Past
    <3>2. \A e \in Elements(buf[b]) : e.src = b
      BY DEF OrderInv
    <3> QED BY <1>5, <2>2, <3>1, <3>2 DEF Before
  <2> QED BY <2>1, <2>2
<1>11. Before((trace \union refused \union abandoned)', (Queued \union Elements(batch))')
  <2>1. Before(trace \union refused \union abandoned, Queued \union Elements(batch))
    BY DEF OrderInv, InOrder
  <2>2. Before(trace \union refused \union abandoned, Elements(s))
    BY DEF Before, Past, Lost
  <2> QED BY <1>3, <1>4, <2>1, <2>2 DEF Before
<1>12. Before((Elements(batch) \union evicted)', Queued')
  <2>1. Before(Elements(batch) \union evicted, Queued)
    BY DEF OrderInv, InOrder
  <2>2. Before(Elements(batch) \union evicted, Elements(s))
    BY DEF Before, Past, Lost
  <2>3. Before(evicted', AllOf(q))
    BY <1>3, <2>1 DEF Before
  <2>4. Before(evicted', Elements(s))
    BY <1>3, <2>2 DEF Before, Past
  <2> QED BY <1>3, <1>4, <2>1, <2>2, <2>3, <2>4 DEF Before
<1> QED
  BY <1>5, <1>8, <1>9, <1>10, <1>11, <1>12 DEF InOrder, Past

\* Draining a buffer keeps the order.
LEMMA DrainOrder ==
    ASSUME TypeOK, OrderInv, NEW a \in Actors, drain_to_collector(a),
           UNCHANGED <<batch, trace, refused, abandoned, issued>>
    PROVE  OrderInv'
<1>1. buf' = [buf EXCEPT ![a] = <<>>] /\ buf \in [Actors -> Seq(Event)]
  BY DEF drain_to_collector, TypeOK
<1>2. \A b \in Actors : \A e \in Elements(buf'[b]) : e.src = b /\ e.seq <= issued'[b]
  <2> TAKE b \in Actors
  <2>1. CASE b = a
    BY <1>1, <2>1, ElementsEmpty
  <2>2. CASE b # a
    BY <1>1, <2>2 DEF OrderInv
  <2> QED BY <2>1, <2>2
<1>3. CASE buf[a] = <<>>
  <2>1. buf' = buf /\ UNCHANGED <<queue, evicted>>
    BY <1>1, <1>3 DEF drain_to_collector
  <2>2. UNCHANGED <<Queued, Past>>
    BY <2>1 DEF Queued, Past, Lost
  <2> QED BY <2>1, <2>2 DEF OrderInv, InOrder, Past, Lost
<1>4. CASE buf[a] # <<>>
  <2>1. buf[a] \in Batch /\ accept_flush(a, buf[a])
    BY <1>1, <1>4 DEF drain_to_collector, Batch
  <2>2. Sorted(buf[a]) /\ Before(Past, Elements(buf[a])) /\ \A e \in Elements(buf[a]) : e.src = a
    BY DEF OrderInv, InOrder, Past
  <2>3. InOrder' /\ Past' = Past \union Elements(buf[a])
    BY <1>1, <2>1, <2>2, AcceptOrder
  <2>4. \A e \in Past' : e.seq <= issued'[e.src]
    BY <2>3 DEF OrderInv
  <2> QED BY <1>2, <2>3, <2>4 DEF OrderInv
<1> QED BY <1>3, <1>4

\* Recording an event keeps the order: its number is the highest of its thread.
LEMMA RecordOrder ==
    ASSUME TypeOK, OrderInv, NEW a \in Actors, buffer_record_event(a),
           UNCHANGED <<batch, trace, refused, abandoned>>
    PROVE  OrderInv'
<1> DEFINE e == [src |-> a, seq |-> issued[a] + 1]
<1> DEFINE events == Append(buf[a], e)
<1>1. /\ buf \in [Actors -> Seq(Event)] /\ issued \in [Actors -> Nat]
      /\ buf[a] \in Seq(Event) /\ issued[a] \in Nat
  BY DEF TypeOK
<1>2. e \in Event /\ e.src = a /\ e.seq = issued[a] + 1
  BY <1>1 DEF Event
<1>3. issued' = [issued EXCEPT ![a] = @ + 1]
  BY DEF buffer_record_event
<1>4. Past \subseteq Event
  BY QueuedType, ElementsType DEF TypeOK, Past
<1> HIDE DEF e
<1>5. /\ events \in Batch /\ DOMAIN events = 1..(Len(buf[a]) + 1) /\ Len(buf[a]) \in Nat
      /\ DOMAIN buf[a] = 1..Len(buf[a])
      /\ \A i \in DOMAIN buf[a] : events[i] = buf[a][i]
      /\ events[Len(buf[a]) + 1] = e
      /\ Elements(events) = Elements(buf[a]) \union {e}
  BY <1>1, <1>2, AppendFacts, ElementsAppend DEF Batch
<1>6. \A d \in Elements(buf[a]) : d.src = a /\ d.seq <= issued[a] /\ d \in Event
  BY <1>1, ElementsType DEF OrderInv
<1>7. /\ \A d \in Elements(events) : d.src = a /\ d.seq <= issued'[a]
  BY <1>1, <1>2, <1>3, <1>5, <1>6 DEF Event
<1> HIDE DEF events
<1>8. Sorted(events)
  <2> SUFFICES ASSUME NEW i \in DOMAIN events, NEW j \in DOMAIN events, i < j,
                      events[i].src = events[j].src
               PROVE  events[i].seq < events[j].seq
    BY DEF Sorted
  <2>1. i \in DOMAIN buf[a] /\ events[i] = buf[a][i] /\ buf[a][i] \in Elements(buf[a])
    BY <1>5 DEF Elements
  <2>2. CASE j \in DOMAIN buf[a]
    <3>1. Sorted(buf[a]) /\ events[j] = buf[a][j]
      BY <1>5, <2>2 DEF OrderInv, InOrder
    <3> QED BY <2>1, <2>2, <3>1 DEF Sorted
  <2>3. CASE j = Len(buf[a]) + 1
    BY <1>1, <1>2, <1>5, <1>6, <2>1, <2>3 DEF Event
  <2> QED BY <1>5, <2>2, <2>3
<1>9. Before(Past, Elements(events))
  <2>1. Before(Past, Elements(buf[a]))
    BY DEF OrderInv, InOrder, Past
  <2>2. Before(Past, {e})
    <3> SUFFICES ASSUME NEW d \in Past, d.src = a PROVE d.seq < e.seq
      BY <1>2 DEF Before
    <3>1. d.seq <= issued[a] /\ d.seq \in Nat
      BY <1>4 DEF OrderInv, Event
    <3> QED BY <1>1, <1>2, <3>1
  <2> QED BY <1>5, <2>1, <2>2 DEF Before
<1>10. ASSUME NEW b \in Actors, b # a, buf'[b] = buf[b]
       PROVE  \A d \in Elements(buf'[b]) : d.src = b /\ d.seq <= issued'[b]
  BY <1>1, <1>3, <1>10 DEF OrderInv
<1>11. ASSUME NEW d \in Past PROVE d.seq <= issued'[d.src]
  <2>1. d.seq <= issued[d.src] /\ d.seq \in Nat /\ d.src \in Actors
    BY <1>4 DEF OrderInv, Event
  <2>2. issued[d.src] <= issued'[d.src] /\ issued[d.src] \in Nat /\ issued'[d.src] \in Nat
    BY <1>1, <1>3, <2>1
  <2> QED BY <2>1, <2>2
<1>12. CASE Len(events) >= BufferCapacity
  <2>1. accept_flush(a, events) /\ buf' = [buf EXCEPT ![a] = <<>>]
    BY <1>12 DEF buffer_record_event, events, e
  <2>2. InOrder' /\ Past' = Past \union Elements(events)
    BY <1>5, <1>7, <1>8, <1>9, <2>1, AcceptOrder
  <2>3. \A d \in Past' : d.seq <= issued'[d.src]
    BY <1>7, <1>11, <2>2
  <2>4. \A b \in Actors : \A d \in Elements(buf'[b]) : d.src = b /\ d.seq <= issued'[b]
    BY <1>1, <1>10, <2>1, ElementsEmpty
  <2> QED BY <2>2, <2>3, <2>4 DEF OrderInv
<1>13. CASE ~(Len(events) >= BufferCapacity)
  <2>1. buf' = [buf EXCEPT ![a] = events] /\ UNCHANGED <<queue, evicted>>
    BY <1>13 DEF buffer_record_event, events, e
  <2>2. UNCHANGED <<Queued, Past>>
    BY <2>1 DEF Queued, Past, Lost
  <2>3. \A b \in Actors : /\ Sorted(buf'[b]) /\ Before(Past, Elements(buf'[b]))
                          /\ \A d \in Elements(buf'[b]) : d.src = b /\ d.seq <= issued'[b]
    <3> TAKE b \in Actors
    <3>1. CASE b = a
      BY <1>1, <1>7, <1>8, <1>9, <2>1, <3>1
    <3>2. CASE b # a
      <4>1. buf'[b] = buf[b]
        BY <1>1, <2>1, <3>2
      <4> QED BY <1>10, <3>2, <4>1 DEF OrderInv, InOrder, Past
    <3> QED BY <3>1, <3>2
  <2>4. InOrder'
    BY <2>1, <2>2, <2>3 DEF OrderInv, InOrder, Past, Lost
  <2> QED BY <1>11, <2>2, <2>3, <2>4 DEF OrderInv
<1> QED BY <1>12, <1>13

\* Taking the oldest batch off the queue keeps the order.
LEMMA NextOrder == TypeOK /\ OrderInv /\ next => OrderInv'
<1> SUFFICES ASSUME TypeOK, OrderInv, next PROVE OrderInv'
  OBVIOUS
<1>1. UNCHANGED <<buf, issued, trace, refused, abandoned, evicted>>
  BY DEF next, threads
<1>2. CASE queue = <<>>
  <2>1. UNCHANGED <<queue, batch>>
    BY <1>2 DEF next
  <2>2. UNCHANGED <<Queued, Past>>
    BY <1>1, <2>1 DEF Queued, Past, Lost
  <2> QED BY <1>1, <2>1, <2>2 DEF OrderInv, InOrder, Past, Lost
<1>3. CASE queue # <<>>
  <2>1. batch' = Head(queue) /\ queue' = Tail(queue) /\ batch = <<>>
    BY <1>3 DEF next, FlusherAt, TypeOK
  <2>2. queue \in Seq(Batch) /\ QueueSorted(queue) /\ Queued = AllOf(queue)
    BY DEF TypeOK, Batch, OrderInv, InOrder, QueueSorted, Queued, AllOf
  <2>3. /\ QueueSorted(queue') /\ Sorted(batch') /\ Before(Elements(batch'), AllOf(queue'))
        /\ Queued = Elements(batch') \union AllOf(queue')
    BY <1>3, <2>1, <2>2, SortedTail, AllTail
  <2>4. Queued' = AllOf(queue')
    BY DEF Queued, AllOf
  <2>5. Elements(batch) = {}
    BY <2>1, ElementsEmpty
  <2>6. Past' = Past /\ Elements(batch') \union Queued' = Queued
    BY <1>1, <2>3, <2>4, <2>5 DEF Past, Lost
  <2>7. Before((trace \union refused \union abandoned)', (Queued \union Elements(batch))')
    <3>1. Before(trace \union refused \union abandoned, Queued)
      BY DEF OrderInv, InOrder, Before
    <3> QED BY <1>1, <2>6, <3>1 DEF Before
  <2>8. Before((Elements(batch) \union evicted)', Queued')
    <3>1. Before(evicted, Queued)
      BY DEF OrderInv, InOrder, Before
    <3> QED BY <1>1, <2>3, <2>4, <3>1 DEF Before
  <2>9. (\A a \in Actors : Before(Past, Elements(buf[a])) /\ Sorted(buf[a]))'
    BY <1>1, <2>6 DEF OrderInv, InOrder, Past
  <2>10. InOrder'
    BY <2>3, <2>7, <2>8, <2>9 DEF InOrder, QueueSorted, Past
  <2> QED BY <1>1, <2>6, <2>10 DEF OrderInv
<1> QED BY <1>2, <1>3

\* Events leave the batch from its head, into the trace or among the refused;
\* a write error settles all that is left of it.
LEMMA WriteOrder == TypeOK /\ OrderInv /\ (WriteOk \/ WriteErr) => OrderInv'
<1> SUFFICES ASSUME TypeOK, OrderInv, WriteOk \/ WriteErr PROVE OrderInv'
  OBVIOUS
<1> DEFINE Settled == trace \union refused \union abandoned
<1>1. UNCHANGED <<buf, issued, queue, evicted>>
  BY DEF WriteOk, WriteErr, threads, shared
<1>2. UNCHANGED Queued
  BY <1>1 DEF Queued
<1>3. batch \in Seq(Event) /\ batch # <<>>
  BY DEF WriteOk, WriteErr, FlusherAt, TypeOK
<1>4. /\ Elements(batch) = {Head(batch)} \union Elements(Tail(batch))
      /\ Tail(batch) \in Seq(Event)
  BY <1>3, ElementsTail, TailFacts
<1>5. /\ Past' = Past /\ Sorted(batch')
      /\ Elements(batch') \subseteq Elements(batch)
      /\ Settled' \subseteq Settled \union Elements(batch)
      /\ Before(Settled', Elements(batch'))
  <2>1. Before(Settled, Elements(batch))
    BY DEF OrderInv, InOrder, Before
  <2>2. CASE WriteOk
    <3>1. /\ batch' = Tail(batch) /\ UNCHANGED abandoned
          /\ \/ trace' = trace \union {Head(batch)} /\ refused' = refused
             \/ refused' = refused \union {Head(batch)} /\ trace' = trace
      BY <2>2 DEF WriteOk
    <3>2. Past' = Past
      BY <1>1, <1>2, <1>4, <3>1 DEF Past, Lost
    <3>3. Sorted(Tail(batch)) /\ Before({Head(batch)}, Elements(Tail(batch)))
      <4>1. /\ Head(batch) = batch[1] /\ 1 \in DOMAIN batch /\ Len(batch) \in Nat
            /\ DOMAIN Tail(batch) = 1..(Len(batch) - 1)
            /\ \A i \in DOMAIN Tail(batch) : i + 1 \in DOMAIN batch /\ Tail(batch)[i] = batch[i + 1]
        BY <1>3, TailFacts
      <4>2. Sorted(batch)
        BY DEF OrderInv, InOrder
      <4>3. Sorted(Tail(batch))
        BY <4>1, <4>2 DEF Sorted
      <4>4. ASSUME NEW i \in DOMAIN Tail(batch), Head(batch).src = Tail(batch)[i].src
            PROVE  Head(batch).seq < Tail(batch)[i].seq
        BY <4>1, <4>2, <4>4 DEF Sorted
      <4> QED BY <4>3, <4>4 DEF Before, Elements
    <3> QED BY <1>4, <2>1, <3>1, <3>2, <3>3 DEF Before
  <2>3. CASE WriteErr
    <3>1. /\ batch' = <<>> /\ UNCHANGED refused
          /\ \E written \in {{}, {Head(batch)}} :
                /\ trace' = trace \union written
                /\ abandoned' = abandoned \union (Elements(batch) \ written)
      BY <2>3 DEF WriteErr
    <3>2. Elements(batch') = {}
      BY <3>1, ElementsEmpty
    <3>3. Past' = Past
      BY <1>1, <1>2, <1>4, <3>1, <3>2 DEF Past, Lost
    <3>4. Sorted(batch')
      BY <3>1 DEF Sorted
    <3>5. Settled' \subseteq Settled \union Elements(batch)
      BY <1>4, <3>1
    <3> QED BY <3>2, <3>3, <3>4, <3>5 DEF Before
  <2> QED BY <2>2, <2>3
<1>6. Before(Settled', Queued' \union Elements(batch'))
  <2>1. Before(Settled, Queued) /\ Before(Elements(batch), Queued)
    BY DEF OrderInv, InOrder, Before
  <2> QED BY <1>2, <1>5, <2>1 DEF Before
<1>7. Before((Elements(batch) \union evicted)', Queued')
  BY <1>1, <1>2, <1>5 DEF OrderInv, InOrder, Before
<1>8. (\A a \in Actors : Before(Past, Elements(buf[a])) /\ Sorted(buf[a]))'
  BY <1>1, <1>5 DEF OrderInv, InOrder, Past
<1>9. InOrder'
  BY <1>1, <1>5, <1>6, <1>7, <1>8 DEF OrderInv, InOrder, Past
<1> QED BY <1>1, <1>5, <1>9 DEF OrderInv

LEMMA OrderInit == Init => OrderInv
<1> SUFFICES ASSUME Init PROVE OrderInv
  OBVIOUS
<1>1. /\ Elements(batch) = {} /\ Queued = {} /\ Past = {}
      /\ \A a \in Actors : buf[a] = <<>> /\ Elements(buf[a]) = {}
  BY ElementsEmpty DEF Init, Queued, Past, Lost
<1>2. queue = <<>> /\ batch = <<>> /\ trace = {} /\ refused = {} /\ abandoned = {} /\ evicted = {}
  BY DEF Init
<1> QED BY <1>1, <1>2 DEF OrderInv, InOrder, Sorted, Before, Lost

\* Every step keeps the order.
LEMMA OrderNext == TypeOK /\ OrderInv /\ [Next]_vars => OrderInv'
<1> SUFFICES ASSUME TypeOK, OrderInv, [Next]_vars PROVE OrderInv'
  OBVIOUS
<1> DEFINE Others == UNCHANGED <<queue, batch, buf, issued, trace, refused, abandoned, evicted>>
<1>1. ASSUME Others PROVE OrderInv'
  <2>1. UNCHANGED <<Queued, Past>>
    BY <1>1 DEF Queued, Past, Lost
  <2> QED BY <1>1, <2>1 DEF OrderInv, InOrder, Past, Lost
<1> HIDE DEF Others
<1>2. ASSUME NEW t \in Threads, record_event(t) PROVE OrderInv'
  <2>1. t \in Actors /\ buffer_record_event(t) /\ UNCHANGED <<batch, trace, refused, abandoned>>
    BY <1>2 DEF record_event, flushing, Actors
  <2> QED BY <2>1, RecordOrder
<1>3. ASSUME NEW t \in Threads, ThreadExit(t) PROVE OrderInv'
  <2>1. t \in Actors /\ drain_to_collector(t) /\ UNCHANGED <<batch, trace, refused, abandoned, issued>>
    BY <1>3 DEF ThreadExit, flushing, Actors
  <2> QED BY <2>1, DrainOrder
<1>4. CASE record_queue_sample
  <2>1. /\ Flusher \in Actors /\ buffer_record_event(Flusher)
        /\ UNCHANGED <<batch, trace, refused, abandoned>>
    BY <1>4 DEF record_queue_sample, Actors
  <2> QED BY <2>1, RecordOrder
<1>5. CASE DrainOwn
  <2>1. /\ Flusher \in Actors /\ drain_to_collector(Flusher)
        /\ UNCHANGED <<batch, trace, refused, abandoned, issued>>
    BY <1>5 DEF DrainOwn, Actors
  <2> QED BY <2>1, DrainOrder
<1>6. CASE StopBegin
  <2>1. /\ Main \in Actors /\ drain_to_collector(Main)
        /\ UNCHANGED <<batch, trace, refused, abandoned, issued>>
    BY <1>6, ActorsAssumption DEF StopBegin, flushing, Actors
  <2> QED BY <2>1, DrainOrder
<1>7. ASSUME NEW a \in Actors, CountEviction(a) PROVE Others
  BY <1>7 DEF Others, CountEviction, flushing, threads
<1>8. ASSUME NEW t \in Threads, on_event(t) \/ on_thread_park(t) \/ on_thread_unpark(t) PROVE Others
  BY <1>8 DEF Others, on_event, on_thread_park, on_thread_unpark, Hook, shared, flushing
<1>9. ASSUME NEW b \in BOOLEAN, SetEnabled(b) PROVE Others
  BY <1>9 DEF Others, SetEnabled, flushing, threads
<1>10. CASE recv_timeout \/ SkipSample \/ take_dropped_batches \/ finalize \/ Ack
  <2>1. Others
    BY <1>10 DEF Others, recv_timeout, SkipSample, take_dropped_batches, finalize, Ack, shared, threads
  <2> QED BY <1>1, <2>1
<1>11. CASE SendStop \/ Join \/ UNCHANGED vars
  <2>1. Others
    BY <1>11 DEF Others, SendStop, Join, vars, shared, flushing, threads
  <2> QED BY <1>1, <2>1
<1> QED
  BY <1>1, <1>2, <1>3, <1>4, <1>5, <1>6, <1>7, <1>8, <1>9, <1>10, <1>11, NextOrder, WriteOrder
  DEF Next, FlushThread, Guard, RuntimeThread, Actors

\* Each thread's events reach the writer in the order of recording, none twice,
\* and the collector evicts the oldest.
THEOREM OrderKept == Spec => []InOrder
<1>1. Init => OrderInv
  BY OrderInit
<1>2. TypeOK /\ TypeOK' /\ OrderInv /\ [Next]_vars => OrderInv'
  BY OrderNext
<1>3. OrderInv => InOrder
  BY DEF OrderInv
<1> QED BY <1>1, <1>2, <1>3, TypeCorrect, PTL DEF Spec

-----------------------------------------------------------------------------
(* Stopping the flush thread *)

\* An event that has left the buffers stays in the queue, the batch or among
\* the settled events.
LEMMA HandOverPast ==
    ASSUME TypeOK, NEW a \in Actors, buffer_record_event(a) \/ drain_to_collector(a),
           UNCHANGED <<batch, trace, refused, abandoned>>
    PROVE  Past \subseteq Past'
<1>1. queue \in Seq(Batch) /\ Queued = AllOf(queue) /\ Queued' = AllOf(queue')
  BY DEF TypeOK, Batch, Queued, AllOf
<1>2. CASE UNCHANGED <<queue, evicted>>
  BY <1>1, <1>2 DEF Past, Lost
<1>3. ASSUME NEW s \in Batch, accept_flush(a, s) PROVE Past \subseteq Past'
  <2>1. CASE Len(queue) < QueueCapacity
    <3>1. queue' = Append(queue, s) /\ evicted' = evicted
      BY <1>3, <2>1 DEF accept_flush
    <3> QED BY <1>1, <3>1, AllAppend DEF Past, Lost
  <2>2. CASE ~(Len(queue) < QueueCapacity)
    <3>1. queue # <<>>
      BY <2>2, CapacityAssumption
    <3>2. queue' = Append(Tail(queue), s) /\ evicted' = evicted \union Elements(Head(queue))
      BY <1>3, <2>2 DEF accept_flush
    <3>3. Tail(queue) \in Seq(Batch) /\ AllOf(queue) = Elements(Head(queue)) \union AllOf(Tail(queue))
      BY <1>1, <3>1, TailFacts, AllTail
    <3>4. AllOf(queue') = AllOf(Tail(queue)) \union Elements(s)
      BY <3>2, <3>3, AllAppend
    <3> QED BY <1>1, <3>2, <3>3, <3>4 DEF Past, Lost
  <2> QED BY <2>1, <2>2
<1>4. ASSUME NEW e \in Event PROVE Append(buf[a], e) \in Batch
  <2>1. buf[a] \in Seq(Event)
    BY DEF TypeOK
  <2> QED BY <2>1, AppendFacts DEF Batch
<1>5. [src |-> a, seq |-> issued[a] + 1] \in Event
  BY DEF TypeOK, Event
<1>6. buf[a] # <<>> => buf[a] \in Batch
  BY DEF TypeOK, Batch
<1> QED BY <1>2, <1>3, <1>4, <1>5, <1>6 DEF buffer_record_event, drain_to_collector

LEMMA PastGrows == TypeOK /\ [Next]_vars => Past \subseteq Past'
<1> SUFFICES ASSUME TypeOK, [Next]_vars PROVE Past \subseteq Past'
  OBVIOUS
<1>1. CASE UNCHANGED <<queue, batch, trace, refused, abandoned, evicted>>
  BY <1>1 DEF Past, Lost, Queued
<1>2. ASSUME NEW a \in Actors, buffer_record_event(a) \/ drain_to_collector(a),
             UNCHANGED <<batch, trace, refused, abandoned>>
      PROVE  Past \subseteq Past'
  BY <1>2, HandOverPast
<1>3. ASSUME NEW t \in Threads, record_event(t) \/ ThreadExit(t) PROVE Past \subseteq Past'
  BY <1>2, <1>3 DEF record_event, ThreadExit, flushing, Actors
<1>4. CASE record_queue_sample \/ DrainOwn
  BY <1>2, <1>4 DEF record_queue_sample, DrainOwn, Actors
<1>5. CASE StopBegin
  BY <1>2, <1>5, ActorsAssumption DEF StopBegin, flushing, Actors
<1>6. CASE next
  <2>1. UNCHANGED <<trace, refused, abandoned, evicted>> /\ batch = <<>>
    BY <1>6 DEF next, FlusherAt, TypeOK
  <2>2. CASE queue # <<>>
    <3>1. batch' = Head(queue) /\ queue' = Tail(queue) /\ queue \in Seq(Batch)
      BY <1>6, <2>2 DEF next, TypeOK, Batch
    <3>2. AllOf(queue) = Elements(batch') \union AllOf(queue')
      BY <2>2, <3>1, AllTail
    <3> QED BY <2>1, <3>2, ElementsEmpty DEF Past, Lost, Queued, AllOf
  <2>3. CASE queue = <<>>
    BY <1>1, <1>6, <2>1, <2>3 DEF next
  <2> QED BY <2>2, <2>3
<1>7. CASE WriteOk \/ WriteErr
  <2>1. batch \in Seq(Event) /\ batch # <<>> /\ UNCHANGED <<queue, evicted>>
    BY <1>7 DEF WriteOk, WriteErr, FlusherAt, TypeOK, shared
  <2>2. Elements(batch) = {Head(batch)} \union Elements(Tail(batch))
    BY <2>1, ElementsTail
  <2>3. trace \union Lost \union Elements(batch) \subseteq trace' \union Lost' \union Elements(batch')
    <3>1. CASE WriteOk
      BY <2>1, <2>2, <3>1 DEF WriteOk, Lost
    <3>2. CASE WriteErr
      BY <2>1, <2>2, <3>2 DEF WriteErr, Lost
    <3> QED BY <1>7, <3>1, <3>2
  <2> QED BY <2>1, <2>3 DEF Past, Queued
<1>8. ASSUME NEW a \in Actors, CountEviction(a) PROVE Past \subseteq Past'
  BY <1>1, <1>8 DEF CountEviction, flushing
<1>9. ASSUME NEW t \in Threads, on_event(t) \/ on_thread_park(t) \/ on_thread_unpark(t)
      PROVE  Past \subseteq Past'
  BY <1>1, <1>9 DEF on_event, on_thread_park, on_thread_unpark, Hook, shared, flushing
<1>10. ASSUME NEW b \in BOOLEAN, SetEnabled(b) PROVE Past \subseteq Past'
  BY <1>1, <1>10 DEF SetEnabled, flushing
<1>11. CASE recv_timeout \/ SkipSample \/ take_dropped_batches \/ finalize \/ Ack
  BY <1>1, <1>11 DEF recv_timeout, SkipSample, take_dropped_batches, finalize, Ack, shared
<1>12. CASE SendStop \/ Join \/ UNCHANGED vars
  BY <1>1, <1>12 DEF SendStop, Join, vars, shared, flushing
<1> QED
  BY <1>3, <1>4, <1>5, <1>6, <1>7, <1>8, <1>9, <1>10, <1>11, <1>12
  DEF Next, FlushThread, Guard, RuntimeThread, Actors

\* Where the guard and the flush thread are while the command is under way.
StopInv ==
    /\ handed \subseteq Past
    /\ fpc # "exited" /\ gpc # "await" => ~chan /\ ~exit
    /\ exit => fpc # "recv"
    /\ fpc \in {"ack", "exited"} => exit
    /\ gpc = "join" \/ (passes > 0 /\ gpc = "stopped") => fpc = "exited"
    /\ exit /\ ~cut /\ fpc \in {"end", "ack", "exited"} => handed \subseteq trace \union Lost

LEMMA StopInit == Init => StopInv
  BY DEF Init, StopInv

LEMMA StopNext == TypeOK /\ StopInv /\ [Next]_vars => StopInv'
<1> SUFFICES ASSUME TypeOK, StopInv, [Next]_vars PROVE StopInv'
  OBVIOUS
<1>1. Past \subseteq Past'
  BY PastGrows
<1> DEFINE Settled == trace \union Lost
<1>2. Settled = trace \union refused \union abandoned \union evicted
      /\ Settled' = trace' \union refused' \union abandoned' \union evicted'
  BY DEF Lost
<1>3. ASSUME UNCHANGED <<handed, chan, gpc, passes, fpc, exit, cut>>, Settled \subseteq Settled'
      PROVE  StopInv'
  BY <1>1, <1>3 DEF StopInv
<1>4. ASSUME NEW a \in Actors, buffer_record_event(a) \/ drain_to_collector(a)
      PROVE  evicted \subseteq evicted'
  BY <1>4 DEF buffer_record_event, drain_to_collector, accept_flush
<1>5. ASSUME NEW t \in Threads, RuntimeThread(t) PROVE StopInv'
  <2>1. evicted \subseteq evicted'
    BY <1>4, <1>5 DEF RuntimeThread, record_event, ThreadExit, Actors, on_event, on_thread_park,
       on_thread_unpark, Hook, CountEviction, shared
  <2>2. UNCHANGED <<flushing, guard>>
    BY <1>5 DEF RuntimeThread, record_event, ThreadExit, on_event, on_thread_park,
       on_thread_unpark, Hook, CountEviction
  <2> QED BY <1>2, <1>3, <2>1, <2>2 DEF flushing, guard
<1>6. ASSUME NEW b \in BOOLEAN, SetEnabled(b) PROVE StopInv'
  BY <1>2, <1>3, <1>6 DEF SetEnabled, flushing, guard
<1>7. CASE CountEviction(Flusher) \/ UNCHANGED vars
  BY <1>2, <1>3, <1>7 DEF CountEviction, flushing, guard, vars, shared
<1>8. CASE recv_timeout
  BY <1>1, <1>2, <1>8 DEF StopInv, recv_timeout, FlusherAt, shared
<1>9. CASE record_queue_sample \/ SkipSample \/ DrainOwn \/ take_dropped_batches
  <2>1. /\ UNCHANGED <<guard, exit>> /\ fpc' \in {"drain", "take", "next"} /\ fpc \in {"sample", "drain", "take"}
    BY <1>9 DEF record_queue_sample, SkipSample, DrainOwn, take_dropped_batches, FlusherAt
  <2> QED BY <1>1, <2>1 DEF StopInv, guard
<1>10. CASE next
  <2>1. fpc = "next" /\ batch = <<>> /\ UNCHANGED <<guard, exit, cut, trace, refused, abandoned, evicted>>
    BY <1>10 DEF next, FlusherAt, TypeOK
  <2>2. CASE queue = <<>>
    <3>1. Elements(batch) = {} /\ Queued = {}
      BY <2>1, <2>2, ElementsEmpty DEF Queued
    <3>2. handed \subseteq Settled /\ Settled' = Settled
      BY <1>2, <2>1, <3>1 DEF StopInv, Past
    <3> QED BY <1>1, <1>10, <2>1, <2>2, <3>2 DEF StopInv, guard, next
  <2>3. CASE queue # <<>>
    BY <1>1, <1>10, <2>1, <2>3 DEF StopInv, guard, next
  <2> QED BY <2>2, <2>3
<1>11. CASE WriteOk
  BY <1>1, <1>11 DEF StopInv, WriteOk, FlusherAt, guard
<1>12. CASE WriteErr
  BY <1>1, <1>12 DEF StopInv, WriteErr, FlusherAt, guard
<1>13. CASE finalize
  BY <1>1, <1>2, <1>13 DEF StopInv, finalize, FlusherAt, guard, shared
<1>14. CASE Ack
  BY <1>1, <1>2, <1>14 DEF StopInv, Ack, FlusherAt, shared
<1>15. CASE StopBegin
  <2>1. evicted \subseteq evicted' /\ UNCHANGED <<flushing, chan, handed>> /\ gpc' = "send"
        /\ gpc # "await"
    BY <1>4, <1>15, ActorsAssumption DEF StopBegin, GuardAt, Actors
  <2> QED BY <1>1, <1>2, <2>1 DEF StopInv, flushing
<1>16. CASE SendStop
  <2>1. Queued \subseteq Past'
    BY <1>1 DEF Past
  <2> QED BY <1>1, <1>2, <1>16, <2>1 DEF StopInv, SendStop, GuardAt, flushing, shared
<1>17. CASE Join
  BY <1>1, <1>2, <1>17 DEF StopInv, Join, GuardAt, flushing, shared
<1> QED
  BY <1>5, <1>6, <1>7, <1>8, <1>9, <1>10, <1>11, <1>12, <1>13, <1>14, <1>15, <1>16, <1>17
  DEF Next, FlushThread, Guard

\* When stop_flush_thread has returned, what was in the collector when it sent
\* its command is written or accounted for as lost, unless the last flush was
\* cut short.
THEOREM StopSettles == Spec => []HandedOverSettled
<1>1. Init => StopInv
  BY StopInit
<1>2. TypeOK /\ TypeOK' /\ StopInv /\ [Next]_vars => StopInv'
  BY StopNext
<1>3. StopInv => HandedOverSettled
  BY DEF StopInv, HandedOverSettled
<1> QED BY <1>1, <1>2, <1>3, TypeCorrect, PTL DEF Spec

-----------------------------------------------------------------------------
(* Every event is somewhere *)

Complete ==
    \A a \in Actors : \A n \in 1 .. issued[a] :
        [src |-> a, seq |-> n] \in Past \union Elements(buf[a])

\* What enters the collector is in the queue; what leaves it is counted as evicted.
LEMMA AcceptKeeps ==
    ASSUME TypeOK, NEW a \in Actors, NEW s \in Batch, accept_flush(a, s)
    PROVE  /\ Elements(s) \subseteq Queued'
           /\ evicted' \subseteq evicted \union Queued
<1>1. queue \in Seq(Batch) /\ Queued = AllOf(queue) /\ Queued' = AllOf(queue')
  BY DEF TypeOK, Batch, Queued, AllOf
<1>2. CASE Len(queue) < QueueCapacity
  <2>1. queue' = Append(queue, s) /\ evicted' = evicted
    BY <1>2 DEF accept_flush
  <2> QED BY <1>1, <2>1, AllAppend
<1>3. CASE ~(Len(queue) < QueueCapacity)
  <2>1. queue # <<>>
    BY <1>3, CapacityAssumption
  <2>2. queue' = Append(Tail(queue), s) /\ evicted' = evicted \union Elements(Head(queue))
    BY <1>3 DEF accept_flush
  <2>3. Tail(queue) \in Seq(Batch) /\ AllOf(queue) = Elements(Head(queue)) \union AllOf(Tail(queue))
    BY <1>1, <2>1, TailFacts, AllTail
  <2>4. AllOf(queue') = AllOf(Tail(queue)) \union Elements(s)
    BY <2>2, <2>3, AllAppend
  <2> QED BY <1>1, <2>2, <2>3, <2>4
<1> QED BY <1>2, <1>3

LEMMA DrainKeeps ==
    ASSUME TypeOK, NEW a \in Actors, drain_to_collector(a)
    PROVE  /\ Elements(buf[a]) \subseteq Queued' /\ evicted' \subseteq evicted \union Queued
           /\ \A b \in Actors : b # a => buf'[b] = buf[b]
<1>1. buf \in [Actors -> Seq(Event)] /\ buf' = [buf EXCEPT ![a] = <<>>]
  BY DEF drain_to_collector, TypeOK
<1>2. CASE buf[a] = <<>>
  BY <1>1, <1>2, ElementsEmpty DEF drain_to_collector
<1>3. CASE buf[a] # <<>>
  <2>1. buf[a] \in Batch /\ accept_flush(a, buf[a])
    BY <1>1, <1>3 DEF drain_to_collector, Batch
  <2> QED BY <1>1, <2>1, AcceptKeeps
<1> QED BY <1>2, <1>3

LEMMA RecordKeeps ==
    ASSUME TypeOK, NEW a \in Actors, buffer_record_event(a)
    PROVE  /\ Elements(buf[a]) \union {[src |-> a, seq |-> issued[a] + 1]} \subseteq Queued' \union Elements(buf'[a])
           /\ evicted' \subseteq evicted \union Queued
           /\ \A b \in Actors : b # a => buf'[b] = buf[b]
<1> DEFINE e == [src |-> a, seq |-> issued[a] + 1]
<1> DEFINE events == Append(buf[a], e)
<1>0. buf \in [Actors -> Seq(Event)] /\ buf[a] \in Seq(Event) /\ issued[a] \in Nat
  BY DEF TypeOK
<1>e. e \in Event
  BY <1>0 DEF Event
<1>1. buf \in [Actors -> Seq(Event)] /\ buf[a] \in Seq(Event) /\ e \in Event
  BY <1>0, <1>e
<1> HIDE DEF e
<1>2. events \in Batch /\ Elements(events) = Elements(buf[a]) \union {e}
  BY <1>1, AppendFacts, ElementsAppend DEF Batch
<1> HIDE DEF events
<1>3. CASE Len(events) >= BufferCapacity
  <2>1. accept_flush(a, events) /\ buf' = [buf EXCEPT ![a] = <<>>]
    BY <1>3 DEF buffer_record_event, events, e
  <2>2. Elements(events) \subseteq Queued' /\ evicted' \subseteq evicted \union Queued
    BY <1>2, <2>1, AcceptKeeps
  <2> QED BY <1>1, <1>2, <2>1, <2>2 DEF e
<1>4. CASE ~(Len(events) >= BufferCapacity)
  <2>1. buf' = [buf EXCEPT ![a] = events] /\ UNCHANGED <<queue, evicted>>
    BY <1>4 DEF buffer_record_event, events, e
  <2>2. buf'[a] = events
    BY <1>1, <2>1
  <2> QED BY <1>1, <1>2, <2>1, <2>2 DEF e
<1> QED BY <1>3, <1>4

\* Nothing but a drain or a record touches the buffers.
LEMMA CompleteNext == TypeOK /\ Complete /\ [Next]_vars => Complete'
<1> SUFFICES ASSUME TypeOK, Complete, [Next]_vars PROVE Complete'
  OBVIOUS
<1>1. Past \subseteq Past' /\ issued \in [Actors -> Nat] /\ Queued' \subseteq Past'
  BY PastGrows DEF TypeOK, Past
<1>2. CASE UNCHANGED <<buf, issued>>
  BY <1>1, <1>2 DEF Complete
<1>3. ASSUME NEW a \in Actors, buffer_record_event(a) PROVE Complete'
  <2> SUFFICES ASSUME NEW b \in Actors, NEW n \in 1 .. issued'[b]
               PROVE  [src |-> b, seq |-> n] \in Past' \union Elements(buf'[b])
    BY DEF Complete
  <2>1. issued' = [issued EXCEPT ![a] = @ + 1]
    BY <1>3 DEF buffer_record_event
  <2>2. CASE n \in 1 .. issued[b]
    <3>1. [src |-> b, seq |-> n] \in Past \union Elements(buf[b])
      BY <2>2 DEF Complete
    <3> QED BY <1>1, <1>3, <3>1, RecordKeeps
  <2>3. CASE n \notin 1 .. issued[b]
    <3>1. b = a /\ n = issued[a] + 1
      BY <1>1, <2>1, <2>3
    <3> QED BY <1>1, <1>3, <3>1, RecordKeeps
  <2> QED BY <2>2, <2>3
<1>4. ASSUME NEW a \in Actors, drain_to_collector(a), issued' = issued PROVE Complete'
  <2> SUFFICES ASSUME NEW b \in Actors, NEW n \in 1 .. issued[b]
               PROVE  [src |-> b, seq |-> n] \in Past' \union Elements(buf'[b])
    BY <1>4 DEF Complete
  <2>1. [src |-> b, seq |-> n] \in Past \union Elements(buf[b])
    BY DEF Complete
  <2> QED BY <1>1, <1>4, <2>1, DrainKeeps
<1>5. ASSUME NEW t \in Threads, RuntimeThread(t) PROVE Complete'
  <2>1. CASE record_event(t)
    BY <1>3, <2>1 DEF record_event, Actors
  <2>2. CASE ThreadExit(t)
    BY <1>4, <2>2 DEF ThreadExit, Actors
  <2>3. CASE on_event(t) \/ on_thread_park(t) \/ on_thread_unpark(t) \/ CountEviction(t)
    BY <1>2, <2>3 DEF on_event, on_thread_park, on_thread_unpark, Hook, CountEviction, threads
  <2> QED BY <1>5, <2>1, <2>2, <2>3 DEF RuntimeThread
<1>6. CASE record_queue_sample
  BY <1>3, <1>6 DEF record_queue_sample, Actors
<1>7. CASE DrainOwn
  BY <1>4, <1>7 DEF DrainOwn, Actors
<1>8. CASE StopBegin
  BY <1>4, <1>8, ActorsAssumption DEF StopBegin, Actors
<1>9. CASE \/ recv_timeout \/ SkipSample \/ take_dropped_batches \/ next \/ WriteOk \/ WriteErr
           \/ finalize \/ Ack \/ CountEviction(Flusher) \/ SendStop \/ Join \/ UNCHANGED vars
  BY <1>2, <1>9 DEF recv_timeout, SkipSample, take_dropped_batches, next, WriteOk, WriteErr, finalize, Ack,
                    CountEviction, SendStop, Join, vars, threads
<1>10. ASSUME NEW b \in BOOLEAN, SetEnabled(b) PROVE Complete'
  BY <1>2, <1>10 DEF SetEnabled, threads
<1> QED BY <1>5, <1>6, <1>7, <1>8, <1>9, <1>10 DEF Next, FlushThread, Guard

-----------------------------------------------------------------------------
(* No event is in two places *)

\* Of the places that OrderInv does not keep apart
Apart ==
    /\ trace \intersect refused = {} /\ (trace \union refused) \intersect abandoned = {}
    /\ (trace \union refused \union abandoned \union Elements(batch)) \intersect evicted = {}

LEMMA BeforeApart ==
    ASSUME NEW E, NEW F, E \subseteq Event, Before(E, F)
    PROVE  E \intersect F = {}
<1> SUFFICES ASSUME NEW e \in E, e \in F PROVE FALSE
  OBVIOUS
<1>1. e.seq \in Nat
  BY DEF Event
<1>2. e.seq < e.seq
  BY DEF Before
<1> QED BY <1>1, <1>2

LEMMA OrderApart ==
    ASSUME TypeOK, OrderInv
    PROVE  /\ (trace \union refused \union abandoned) \intersect (Queued \union Elements(batch)) = {}
           /\ (Elements(batch) \union evicted) \intersect Queued = {}
           /\ \A a \in Actors : Past \intersect Elements(buf[a]) = {}
<1>1. Past \subseteq Event
  BY QueuedType, ElementsType DEF TypeOK, Past
<1>2. Elements(batch) \union evicted \subseteq Event /\ trace \union refused \union abandoned \subseteq Event
  BY <1>1 DEF Past, Lost
<1>3. /\ Before(trace \union refused \union abandoned, Queued \union Elements(batch))
      /\ Before(Elements(batch) \union evicted, Queued)
      /\ \A a \in Actors : Before(Past, Elements(buf[a]))
  BY DEF OrderInv, InOrder, Past
<1> QED BY <1>1, <1>2, <1>3, BeforeApart

LEMMA ApartNext == TypeOK /\ OrderInv /\ Apart /\ [Next]_vars => Apart'
<1> SUFFICES ASSUME TypeOK, OrderInv, Apart, [Next]_vars PROVE Apart'
  OBVIOUS
<1>1. CASE UNCHANGED <<batch, trace, refused, abandoned, evicted>>
  BY <1>1 DEF Apart
<1>2. ASSUME evicted' \subseteq evicted \union Queued, UNCHANGED <<batch, trace, refused, abandoned>>
      PROVE  Apart'
  BY <1>2, OrderApart DEF Apart
<1>3. ASSUME NEW t \in Threads, RuntimeThread(t) PROVE Apart'
  <2>1. CASE record_event(t)
    BY <1>2, <2>1, RecordKeeps DEF record_event, Actors, flushing
  <2>2. CASE ThreadExit(t)
    BY <1>2, <2>2, DrainKeeps DEF ThreadExit, Actors, flushing
  <2>3. CASE on_event(t) \/ on_thread_park(t) \/ on_thread_unpark(t) \/ CountEviction(t)
    BY <1>1, <2>3 DEF on_event, on_thread_park, on_thread_unpark, Hook, CountEviction, flushing, shared
  <2> QED BY <1>3, <2>1, <2>2, <2>3 DEF RuntimeThread
<1>4. CASE record_queue_sample
  BY <1>2, <1>4, RecordKeeps DEF record_queue_sample, Actors
<1>5. CASE DrainOwn
  BY <1>2, <1>5, DrainKeeps DEF DrainOwn, Actors
<1>6. CASE StopBegin
  BY <1>2, <1>6, ActorsAssumption, DrainKeeps DEF StopBegin, Actors, flushing
<1>7. CASE next
  <2>1. UNCHANGED <<trace, refused, abandoned, evicted>> /\ queue \in Seq(Batch)
    BY <1>7 DEF next, TypeOK, Batch
  <2>2. CASE queue = <<>>
    BY <1>1, <1>7, <2>1, <2>2 DEF next
  <2>3. CASE queue # <<>>
    <3>1. batch' = Head(queue) /\ Queued = AllOf(queue)
      BY <1>7, <2>3 DEF next, Queued, AllOf
    <3>2. Elements(batch') \subseteq Queued
      BY <2>1, <2>3, <3>1, AllTail
    <3> QED BY <2>1, <3>2, OrderApart DEF Apart
  <2> QED BY <2>2, <2>3
<1>8. CASE WriteOk \/ WriteErr
  <2>1. batch \in Seq(Event) /\ batch # <<>> /\ evicted' = evicted
    BY <1>8 DEF WriteOk, WriteErr, FlusherAt, TypeOK, shared
  <2>2. Elements(batch) = {Head(batch)} \union Elements(Tail(batch))
    BY <2>1, ElementsTail
  <2>3. (trace \union refused \union abandoned) \intersect Elements(batch) = {}
    BY OrderApart
  <2>4. CASE WriteOk
    <3>1. /\ batch' = Tail(batch) /\ abandoned' = abandoned
          /\ \/ trace' = trace \union {Head(batch)} /\ refused' = refused
             \/ refused' = refused \union {Head(batch)} /\ trace' = trace
      BY <2>4 DEF WriteOk
    <3> QED BY <2>1, <2>2, <2>3, <3>1 DEF Apart
  <2>5. CASE WriteErr
    <3>1. PICK written \in {{}, {Head(batch)}} :
              /\ trace' = trace \union written
              /\ abandoned' = abandoned \union (Elements(batch) \ written)
      BY <2>5 DEF WriteErr
    <3>2. refused' = refused /\ Elements(batch') = {}
      BY <2>5, ElementsEmpty DEF WriteErr
    <3> QED BY <2>1, <2>2, <2>3, <3>1, <3>2 DEF Apart
  <2> QED BY <1>8, <2>4, <2>5
<1>9. CASE \/ recv_timeout \/ SkipSample \/ take_dropped_batches \/ finalize \/ Ack
           \/ CountEviction(Flusher) \/ SendStop \/ Join \/ UNCHANGED vars
  BY <1>1, <1>9 DEF recv_timeout, SkipSample, take_dropped_batches, finalize, Ack,
                    CountEviction, SendStop, Join, vars, shared, flushing
<1>10. ASSUME NEW b \in BOOLEAN, SetEnabled(b) PROVE Apart'
  BY <1>1, <1>10 DEF SetEnabled, flushing
<1> QED BY <1>3, <1>4, <1>5, <1>6, <1>7, <1>8, <1>9, <1>10 DEF Next, FlushThread, Guard

-----------------------------------------------------------------------------
LEMMA PlacesEnough == TypeOK /\ OrderInv /\ Complete /\ Apart => NothingVanishes
<1> SUFFICES ASSUME TypeOK, OrderInv, Complete, Apart, NEW a \in Actors, NEW n \in 1 .. issued[a]
             PROVE  LET places == Places([src |-> a, seq |-> n])
                    IN  \E i \in DOMAIN places : \A j \in DOMAIN places : places[j] <=> j = i
  BY DEF NothingVanishes
<1> DEFINE e == [src |-> a, seq |-> n]
           places == Places(e)
<1>1. e \in Past \union Elements(buf[a]) /\ e.src = a
  BY DEF Complete
<1> HIDE DEF e
<1>d. places = <<e \in trace, e \in refused, e \in abandoned, e \in evicted,
                 e \in Queued, e \in Elements(batch), e \in Elements(buf[a])>>
  BY <1>1 DEF Places
<1> HIDE DEF places
<1>2. /\ DOMAIN places = 1 .. 7
      /\ places[1] = (e \in trace)
      /\ places[2] = (e \in refused)
      /\ places[3] = (e \in abandoned)
      /\ places[4] = (e \in evicted)
      /\ places[5] = (e \in Queued)
      /\ places[6] = (e \in Elements(batch))
      /\ places[7] = (e \in Elements(buf[a]))
  BY <1>d
<1>3. /\ \A j \in 1 .. 7 : j = 1 \/ j = 2 \/ j = 3 \/ j = 4 \/ j = 5 \/ j = 6 \/ j = 7
      /\ \A j \in 1 .. 7 : j \in DOMAIN places
  BY <1>2
<1>4. \/ e \in trace \/ e \in refused \/ e \in abandoned \/ e \in evicted
      \/ e \in Queued \/ e \in Elements(batch) \/ e \in Elements(buf[a])
  BY <1>1 DEF Past, Lost
<1>5. /\ ~(e \in trace /\ e \in refused) /\ ~(e \in trace /\ e \in abandoned) /\ ~(e \in refused /\ e \in abandoned)
      /\ e \in evicted => e \notin trace /\ e \notin refused /\ e \notin abandoned /\ e \notin Elements(batch)
      /\ e \in Queued \/ e \in Elements(batch) => e \notin trace /\ e \notin refused /\ e \notin abandoned
      /\ e \in Queued => e \notin Elements(batch) /\ e \notin evicted
      /\ e \in Elements(buf[a]) => e \notin trace /\ e \notin refused /\ e \notin abandoned /\ e \notin evicted
                                   /\ e \notin Queued /\ e \notin Elements(batch)
  BY OrderApart DEF Apart, Past, Lost
<1>6. \E i \in DOMAIN places : \A j \in DOMAIN places : places[j] <=> j = i
  <2>1. CASE e \in trace
    <3>1. places[1] /\ \A j \in 1 .. 7 : j # 1 => ~places[j]
      BY <1>2, <1>3, <1>5, <2>1
    <3>2. 1 \in DOMAIN places
      BY <1>3
    <3> QED BY <1>2, <3>1, <3>2
  <2>2. CASE e \in refused
    <3>1. places[2] /\ \A j \in 1 .. 7 : j # 2 => ~places[j]
      BY <1>2, <1>3, <1>5, <2>2
    <3>2. 2 \in DOMAIN places
      BY <1>3
    <3> QED BY <1>2, <3>1, <3>2
  <2>3. CASE e \in abandoned
    <3>1. places[3] /\ \A j \in 1 .. 7 : j # 3 => ~places[j]
      BY <1>2, <1>3, <1>5, <2>3
    <3>2. 3 \in DOMAIN places
      BY <1>3
    <3> QED BY <1>2, <3>1, <3>2
  <2>4. CASE e \in evicted
    <3>1. places[4] /\ \A j \in 1 .. 7 : j # 4 => ~places[j]
      BY <1>2, <1>3, <1>5, <2>4
    <3>2. 4 \in DOMAIN places
      BY <1>3
    <3> QED BY <1>2, <3>1, <3>2
  <2>5. CASE e \in Queued
    <3>1. places[5] /\ \A j \in 1 .. 7 : j # 5 => ~places[j]
      BY <1>2, <1>3, <1>5, <2>5
    <3>2. 5 \in DOMAIN places
      BY <1>3
    <3> QED BY <1>2, <3>1, <3>2
  <2>6. CASE e \in Elements(batch)
    <3>1. places[6] /\ \A j \in 1 .. 7 : j # 6 => ~places[j]
      BY <1>2, <1>3, <1>5, <2>6
    <3>2. 6 \in DOMAIN places
      BY <1>3
    <3> QED BY <1>2, <3>1, <3>2
  <2>7. CASE e \in Elements(buf[a])
    <3>1. places[7] /\ \A j \in 1 .. 7 : j # 7 => ~places[j]
      BY <1>2, <1>3, <1>5, <2>7
    <3>2. 7 \in DOMAIN places
      BY <1>3
    <3> QED BY <1>2, <3>1, <3>2
  <2> QED BY <1>4, <2>1, <2>2, <2>3, <2>4, <2>5, <2>6, <2>7
<1> QED BY <1>6 DEF places, e

\* Every event that was recorded is in one place and in no other: written, waiting, or
\* lost in one of the ways the code knows, for any threads, capacities and errors.
THEOREM NoneVanishes == Spec => []NothingVanishes
<1>1. Init => Complete /\ Apart
  <2> SUFFICES ASSUME Init PROVE Complete /\ Apart
    OBVIOUS
  <2>1. \A a \in Actors : issued[a] = 0
    BY DEF Init
  <2>2. trace = {} /\ refused = {} /\ abandoned = {} /\ evicted = {}
    BY DEF Init
  <2> QED BY <2>1, <2>2 DEF Complete, Apart
<1>2. Init => OrderInv
  BY OrderInit
<1>3. TypeOK /\ OrderInv /\ Complete /\ Apart /\ [Next]_vars => OrderInv' /\ Complete' /\ Apart'
  BY OrderNext, CompleteNext, ApartNext
<1> QED BY <1>1, <1>2, <1>3, PlacesEnough, TypeCorrect, PTL DEF Spec
=============================================================================
