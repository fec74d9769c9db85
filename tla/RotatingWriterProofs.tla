------------------------ MODULE RotatingWriterProofs ------------------------
(***************************************************************************)
(* Proofs about RotatingWriter, for every size, budget and set of faults.  *)
(***************************************************************************)
EXTENDS RotatingWriter, TLAPS

Closed == [index : Nat, from : Nat, to : Nat]

-----------------------------------------------------------------------------
(* closed_files *)

\* closed_files lie end to end.
EndToEnd(s) ==
    /\ s \in Seq(Closed)
    /\ \A i \in DOMAIN s : s[i].from < s[i].to
    /\ \A i \in DOMAIN s \ {1} : s[i].from = s[i - 1].to

Bytes(s) == IF s = <<>> THEN 0 ELSE s[Len(s)].to - s[1].from

\* A file entered at the end adds its size.
LEMMA PushBytes ==
    ASSUME NEW s, EndToEnd(s), NEW k \in Nat, NEW n \in Nat \ {0},
           NEW from, from = (IF s = <<>> THEN 0 ELSE s[Len(s)].to)
    PROVE  LET r == Append(s, [index |-> k, from |-> from, to |-> from + n])
           IN  EndToEnd(r) /\ Bytes(r) = Bytes(s) + n
<1> DEFINE f == [index |-> k, from |-> from, to |-> from + n]
<1> DEFINE r == Append(s, f)
<1>1. s \in Seq(Closed) /\ Len(s) \in Nat /\ DOMAIN s = 1..Len(s)
  BY DEF EndToEnd
<1>2. from \in Nat
  <2>1. CASE s = <<>>
    BY <2>1
  <2>2. CASE s # <<>>
    <3>1. s[Len(s)] \in Closed
      BY <1>1, <2>2
    <3> QED BY <2>2, <3>1 DEF Closed
  <2> QED BY <2>1, <2>2
<1>3. f \in Closed /\ f.from = from /\ f.to = from + n /\ f.from < f.to
  BY <1>2 DEF Closed
<1> HIDE DEF f
<1>4. /\ r \in Seq(Closed) /\ Len(r) = Len(s) + 1 /\ DOMAIN r = 1..(Len(s) + 1)
      /\ \A i \in DOMAIN s : r[i] = s[i]
      /\ r[Len(s) + 1] = f /\ r # <<>>
  BY <1>1, <1>3
<1> HIDE DEF r
<1>5. \A i \in DOMAIN r : r[i].from < r[i].to
  BY <1>1, <1>3, <1>4 DEF EndToEnd
<1>6. ASSUME NEW i \in DOMAIN r \ {1} PROVE r[i].from = r[i - 1].to
  <2>1. CASE i \in DOMAIN s
    <3>1. i - 1 \in DOMAIN s /\ s[i].from = s[i - 1].to
      BY <1>1, <1>6, <2>1 DEF EndToEnd
    <3> QED BY <1>4, <2>1, <3>1
  <2>2. CASE i = Len(s) + 1
    <3>1. Len(s) # 0 /\ s # <<>> /\ i - 1 = Len(s) /\ Len(s) \in DOMAIN s
      BY <1>1, <1>6, <2>2
    <3> QED BY <1>3, <1>4, <2>2, <3>1
  <2> QED BY <1>1, <1>4, <1>6, <2>1, <2>2
<1>7. Bytes(r) = Bytes(s) + n
  <2>1. CASE s = <<>>
    <3>1. Bytes(s) = 0 /\ r[1] = f /\ r[Len(r)] = f
      BY <1>1, <1>4, <2>1 DEF Bytes
    <3> QED BY <1>2, <1>3, <1>4, <3>1 DEF Bytes
  <2>2. CASE s # <<>>
    <3>1. 1 \in DOMAIN s /\ r[1] = s[1] /\ s[1] \in Closed /\ s[Len(s)] \in Closed
      BY <1>1, <1>4, <2>2
    <3>2. s[1].from \in Nat /\ s[Len(s)].to \in Nat /\ from = s[Len(s)].to
      BY <2>2, <3>1 DEF Closed
    <3> QED BY <1>3, <1>4, <2>2, <3>1, <3>2 DEF Bytes
  <2> QED BY <2>1, <2>2
<1> QED BY <1>4, <1>5, <1>6, <1>7 DEF EndToEnd, r, f

\* Dropping the oldest file leaves fewer bytes.
LEMMA PopBytes ==
    ASSUME NEW s, EndToEnd(s), s # <<>>
    PROVE  EndToEnd(Tail(s)) /\ Bytes(Tail(s)) <= Bytes(s) /\ Bytes(s) \in Int /\ Bytes(Tail(s)) \in Int
<1> DEFINE r == Tail(s)
<1>1. /\ s \in Seq(Closed) /\ Len(s) \in Nat /\ Len(s) > 0 /\ DOMAIN s = 1..Len(s)
      /\ r \in Seq(Closed) /\ Len(r) = Len(s) - 1 /\ DOMAIN r = 1..(Len(s) - 1)
      /\ \A i \in DOMAIN r : i + 1 \in DOMAIN s /\ r[i] = s[i + 1]
  BY DEF EndToEnd
<1> HIDE DEF r
<1>2. \A i \in DOMAIN r : r[i].from < r[i].to
  BY <1>1 DEF EndToEnd
<1>3. ASSUME NEW i \in DOMAIN r \ {1} PROVE r[i].from = r[i - 1].to
  <2>1. i - 1 \in DOMAIN r /\ r[i] = s[i + 1] /\ r[i - 1] = s[i] /\ i + 1 \in DOMAIN s \ {1}
    BY <1>1, <1>3
  <2>2. s[i + 1].from = s[(i + 1) - 1].to /\ (i + 1) - 1 = i
    BY <1>1, <1>3, <2>1 DEF EndToEnd
  <2> QED BY <2>1, <2>2
<1>4. /\ s[1] \in Closed /\ s[Len(s)] \in Closed /\ s[1].from < s[1].to
      /\ s[1].from \in Nat /\ s[1].to \in Nat /\ s[Len(s)].to \in Nat
  <2>1. 1 \in DOMAIN s /\ Len(s) \in DOMAIN s
    BY <1>1
  <2>2. s[1] \in Closed /\ s[Len(s)] \in Closed
    BY <1>1, <2>1
  <2>3. s[1].from < s[1].to
    BY <2>1 DEF EndToEnd
  <2> QED BY <2>2, <2>3 DEF Closed
<1>5. Bytes(s) = s[Len(s)].to - s[1].from
  BY <1>1 DEF Bytes
<1>6. CASE Len(s) = 1
  <2>1. Bytes(r) = 0
    BY <1>1, <1>6 DEF Bytes
  <2> QED BY <1>1, <1>2, <1>3, <1>4, <1>5, <1>6, <2>1 DEF EndToEnd, r
<1>7. CASE Len(s) # 1
  <2>1. r # <<>> /\ r[1] = s[2] /\ r[Len(r)] = s[Len(s)] /\ 2 \in DOMAIN s
    <3>1. Len(r) > 0 /\ 1 \in DOMAIN r /\ Len(r) \in DOMAIN r /\ Len(r) + 1 = Len(s)
      BY <1>1, <1>7
    <3>2. r # <<>> /\ r[1] = s[1 + 1] /\ r[Len(r)] = s[Len(r) + 1]
      BY <1>1, <3>1
    <3> QED BY <1>1, <3>1, <3>2
  <2>2. s[2].from = s[1].to
    <3>1. \A i \in DOMAIN s \ {1} : s[i].from = s[i - 1].to
      BY DEF EndToEnd
    <3>2. 2 \in DOMAIN s \ {1} /\ 2 - 1 = 1
      BY <2>1
    <3>3. s[2].from = s[2 - 1].to
      BY <3>1, <3>2
    <3> QED BY <3>2, <3>3
  <2>3. Bytes(r) = s[Len(s)].to - s[1].to
    BY <2>1, <2>2 DEF Bytes
  <2> QED BY <1>1, <1>2, <1>3, <1>4, <1>5, <2>3 DEF EndToEnd, r
<1> QED BY <1>6, <1>7

-----------------------------------------------------------------------------
(* Type correctness *)

DiskType == DOMAIN disk \subseteq Names /\ \A n \in DOMAIN disk : disk[n] \in FileData

LEMMA NameFacts ==
    ASSUME NEW i \in Nat
    PROVE  /\ bin(i) \in Names /\ active_path(i) \in Names
           /\ bin(i) # NoFile /\ active_path(i) # NoFile
           /\ bin(i).sealed /\ ~active_path(i).sealed
           /\ bin(i).index = i /\ active_path(i).index = i
  BY DEF bin, active_path, NoFile, Names

\* Moving a file to another name.
LEMMA DiskMove ==
    ASSUME DiskType, NEW n \in DOMAIN disk, NEW m \in Names,
           NEW d, d = With(Without(disk, n), m, disk[n])
    PROVE  /\ DOMAIN d \subseteq Names /\ \A k \in DOMAIN d : d[k] \in FileData
           /\ DOMAIN d = (DOMAIN disk \ {n}) \union {m}
           /\ d[m] = disk[n]
           /\ \A k \in DOMAIN disk : k # n /\ k # m => d[k] = disk[k]
<1>1. DOMAIN Without(disk, n) = DOMAIN disk \ {n} /\ \A k \in DOMAIN disk \ {n} : Without(disk, n)[k] = disk[k]
  BY DEF Without
<1>2. /\ DOMAIN d = DOMAIN Without(disk, n) \union {m} /\ d[m] = disk[n]
      /\ \A k \in DOMAIN Without(disk, n) : k # m => d[k] = Without(disk, n)[k]
  BY DEF With
<1> QED BY <1>1, <1>2 DEF DiskType

LEMMA HeaderData == [bytes |-> HeaderSize, events |-> FALSE] \in FileData
                    /\ [bytes |-> 0, events |-> FALSE] \in FileData
  BY SizeAssumption DEF FileData

LEMMA WriterTypeInit == Init => TypeOK
<1> SUFFICES ASSUME Init PROVE TypeOK
  OBVIOUS
<1>1. /\ DOMAIN disk = {active_path(0)} /\ disk[active_path(0)] = [bytes |-> HeaderSize, events |-> FALSE]
      /\ active = active_path(0) /\ open = active_path(0)
  BY DEF Init
<1>2. closed = <<>> /\ DOMAIN closed = {} /\ closed \in Seq([index : Nat, from : Nat, to : Nat])
  BY DEF Init
<1>3. active_path(0) \in Names
  BY NameFacts
<1>4. DOMAIN disk \subseteq Names /\ (\A n \in DOMAIN disk : disk[n] \in FileData)
      /\ active \in Names /\ open \in DOMAIN disk
  BY <1>1, <1>3, HeaderData
<1>5. encoder \in Nat \ {0} /\ faults = {} /\ step = "idle" /\ state = "active"
      /\ next_index = 1 /\ has_real = FALSE /\ dropped_events = 0
  BY SizeAssumption DEF Init
<1>6. \A i \in DOMAIN closed : closed[i].from < closed[i].to
  BY <1>2
<1>7. \A i \in DOMAIN closed \ {1} : closed[i].from = closed[i - 1].to
  BY <1>2
<1>8. closed \in Seq([index : Nat, from : Nat, to : Nat]) /\ faults \subseteq FaultKinds
  BY <1>2, <1>5
<1>9. /\ open \in DOMAIN disk \union {NoFile} /\ dropped_events \in Nat
      /\ next_index \in Nat \ {0} /\ state \in {"active", "finished"}
      /\ step \in {"idle", "rename", "create", "evict"} /\ (step # "idle" => state = "active")
  BY <1>4, <1>5
<1>10. encoder \in Nat \ {0} /\ has_real \in BOOLEAN
  BY <1>5, Zenon
<1> QED BY <1>4, <1>6, <1>7, <1>8, <1>9, <1>10, Zenon DEF TypeOK

\* The file that eviction removes is never the one being written.
EvictOpen == step = "evict" => ~open.sealed

LEMMA EvictOpenNext == TypeOK /\ EvictOpen /\ [Next]_vars => EvictOpen'
<1> SUFFICES ASSUME TypeOK, EvictOpen, [Next]_vars PROVE EvictOpen'
  OBVIOUS
<1>1. CASE rotate_create
  <2>1. open' = active_path(next_index - 1) /\ next_index - 1 \in Nat
    BY <1>1 DEF rotate_create, TypeOK
  <2> QED BY <2>1, NameFacts DEF EvictOpen
<1>2. CASE evict_one \/ vars' = vars
  BY <1>2 DEF evict_one, vars, EvictOpen
<1>3. CASE \/ \E n \in EventSizes : write_event(n)
           \/ write_event_fails \/ write_event_finished \/ finalize
  BY <1>3 DEF write_event, write_event_fails, write_event_finished, EvictOpen,
              finalize, finalize_seal, finalize_remove, finalize_fails
<1>4. CASE rotate_rename \/ rotate_rename_fails \/ rotate_create_fails \/ rotate_metadata_fails \/ evict_done
  BY <1>4 DEF rotate_rename, rotate_rename_fails, rotate_create_fails, rotate_metadata_fails, evict_done, EvictOpen
<1> QED BY <1>1, <1>2, <1>3, <1>4 DEF Next, rotate

\* Each step of the writer preserves the types.
LEMMA WriterTypeNext == TypeOK /\ EvictOpen /\ [Next]_vars => TypeOK'
<1> SUFFICES ASSUME TypeOK, EvictOpen, [Next]_vars PROVE TypeOK'
  OBVIOUS
<1> DEFINE Rest == /\ state' \in {"active", "finished"} /\ has_real' \in BOOLEAN
                   /\ dropped_events' \in Nat /\ faults' \subseteq FaultKinds
                   /\ step' \in {"idle", "rename", "create", "evict"}
                   /\ (step' # "idle" => state' = "active")
           Files == DiskType' /\ active' \in Names /\ open' \in DOMAIN disk' \union {NoFile}
           Sizes == EndToEnd(closed') /\ encoder' \in Nat \ {0} /\ next_index' \in Nat \ {0}
<1>1. EndToEnd(closed) /\ DiskType /\ next_index \in Nat \ {0} /\ next_index - 1 \in Nat
  BY DEF TypeOK, EndToEnd, Closed, DiskType
<1>2. ASSUME Rest, Files, Sizes PROVE TypeOK'
  BY <1>2 DEF TypeOK, EndToEnd, Closed, DiskType
<1>3. ASSUME NEW k, Fails(k) PROVE faults' \subseteq FaultKinds \union {k}
  BY <1>3 DEF Fails, TypeOK
<1>4. ASSUME UNCHANGED <<disk, active, open>> PROVE Files
  BY <1>4 DEF TypeOK, DiskType
<1>5. ASSUME UNCHANGED <<closed, encoder, next_index>> PROVE Sizes
  BY <1>1, <1>5 DEF TypeOK
<1> HIDE DEF Files, Sizes
<1>6. ASSUME NEW n \in EventSizes, write_event(n) PROVE TypeOK'
  <2>1. n \in Nat /\ encoder' = encoder + n /\ encoder' \in Nat \ {0}
    BY <1>6, SizeAssumption DEF write_event, TypeOK
  <2>2. Rest
    BY <1>6 DEF write_event, TypeOK
  <2>3. Files
    <3>1. CASE open = NoFile
      BY <1>4, <1>6, <3>1 DEF write_event
    <3>2. CASE open # NoFile
      <4>1. /\ disk' = [disk EXCEPT ![open] = [bytes |-> @.bytes + n, events |-> TRUE]]
            /\ open \in DOMAIN disk /\ UNCHANGED <<active, open>>
        BY <1>6, <3>2 DEF write_event, TypeOK
      <4>2. [bytes |-> disk[open].bytes + n, events |-> TRUE] \in FileData
        BY <2>1, <4>1 DEF TypeOK, FileData
      <4> QED BY <1>1, <4>1, <4>2 DEF Files, DiskType, TypeOK
    <3> QED BY <3>1, <3>2
  <2>4. Sizes
    BY <1>1, <1>6, <2>1 DEF Sizes, write_event
  <2> QED BY <1>2, <2>2, <2>3, <2>4
<1>7. CASE write_event_fails \/ write_event_finished
  <2>1. Rest
    <3>1. CASE write_event_fails
      BY <1>3, <3>1 DEF write_event_fails, TypeOK, FaultKinds
    <3>2. CASE write_event_finished
      BY <3>2 DEF write_event_finished, TypeOK
    <3> QED BY <1>7, <3>1, <3>2
  <2> QED BY <1>2, <1>4, <1>5, <1>7, <2>1 DEF write_event_fails, write_event_finished
<1>8. CASE rotate_rename
  <2>1. next_index' = next_index + 1 /\ encoder' = encoder /\ active' = active /\ active \in DOMAIN disk
        /\ bin(next_index - 1) \in Names
    BY <1>1, <1>8, NameFacts DEF rotate_rename
  <2>2. Rest
    BY <1>8 DEF rotate_rename, TypeOK
  <2>3. Files
    <3>1. disk' = With(Without(disk, active), bin(next_index - 1), disk[active])
          /\ open' \in {bin(next_index - 1), NoFile}
      BY <1>8 DEF rotate_rename
    <3>2. DiskType' /\ bin(next_index - 1) \in DOMAIN disk'
      <4> DEFINE n == bin(next_index - 1)
      <4>1. disk' = With(Without(disk, active), n, disk[active]) /\ n \in Names /\ active \in DOMAIN disk
        BY <2>1, <3>1
      <4> HIDE DEF n
      <4>2. /\ DOMAIN disk' \subseteq Names /\ \A k \in DOMAIN disk' : disk'[k] \in FileData
            /\ DOMAIN disk' = (DOMAIN disk \ {active}) \union {n}
        BY <1>1, <4>1 DEF With, Without, DiskType
      <4> QED BY <4>2 DEF DiskType, n
    <3> QED BY <2>1, <3>1, <3>2 DEF Files, TypeOK
  <2>4. Sizes
    <3>1. EndToEnd(closed')
      BY <1>1, <1>8, PushBytes DEF rotate_rename, TypeOK
    <3> QED BY <1>1, <2>1, <3>1 DEF Sizes, TypeOK
  <2> QED BY <1>2, <2>2, <2>3, <2>4
<1>9. CASE rotate_rename_fails
  <2>1. Rest
    BY <1>3, <1>9 DEF rotate_rename_fails, TypeOK, FaultKinds
  <2> QED BY <1>2, <1>4, <1>5, <1>9, <2>1 DEF rotate_rename_fails
<1>10. CASE rotate_create \/ rotate_metadata_fails
  <2>1. /\ active' = active_path(next_index - 1) /\ open' = active' /\ encoder' = HeaderSize
        /\ disk' = With(disk, active', [bytes |-> HeaderSize, events |-> FALSE])
        /\ UNCHANGED <<closed, next_index>>
    BY <1>10 DEF rotate_create, rotate_metadata_fails
  <2>2. Rest
    BY <1>3, <1>10 DEF rotate_create, rotate_metadata_fails, TypeOK, FaultKinds
  <2>3. active' \in Names
    BY <1>1, <2>1, NameFacts
  <2>4. DiskType' /\ active' \in DOMAIN disk'
    BY <1>1, <2>1, <2>3, HeaderData DEF DiskType, With
  <2>5. Files
    BY <2>1, <2>3, <2>4 DEF Files
  <2>6. Sizes
    BY <1>1, <2>1, SizeAssumption DEF Sizes
  <2> QED BY <1>2, <2>2, <2>5, <2>6
<1>11. CASE rotate_create_fails
  <2>1. Rest
    BY <1>3, <1>11 DEF rotate_create_fails, TypeOK, FaultKinds
  <2>2. Files
    <3> DEFINE n == active_path(next_index - 1)
               v == [bytes |-> 0, events |-> FALSE]
    <3>1. (disk' = disk \/ disk' = With(disk, n, v)) /\ UNCHANGED <<active, open>>
      BY <1>11 DEF rotate_create_fails
    <3>2. n \in Names /\ v \in FileData
      BY <1>1, NameFacts, HeaderData
    <3> HIDE DEF n, v
    <3>3. DiskType' /\ DOMAIN disk \subseteq DOMAIN disk'
      BY <1>1, <3>1, <3>2 DEF DiskType, With
    <3> QED BY <3>1, <3>3 DEF Files, TypeOK
  <2> QED BY <1>2, <1>5, <1>11, <2>1, <2>2 DEF rotate_create_fails
<1>12. CASE evict_one
  <2>1. Rest
    BY <1>3, <1>12 DEF evict_one, TypeOK, FaultKinds
  <2>2. Files
    <3>1. /\ disk' = Without(disk, bin(closed[1].index)) \/ disk' = disk
          /\ UNCHANGED <<active, open>> /\ step = "evict" /\ closed # <<>>
      BY <1>12 DEF evict_one
    <3>2. closed[1].index \in Nat
      <4>1. 1 \in DOMAIN closed /\ closed \in Seq(Closed)
        BY <1>1, <3>1 DEF EndToEnd
      <4>2. closed[1] \in Closed
        BY <4>1
      <4> QED BY <4>2 DEF Closed
    <3>3. open \in DOMAIN disk /\ open # bin(closed[1].index)
      BY <3>1, <3>2, NameFacts DEF TypeOK, EvictOpen, NoFile
    <3>4. DiskType' /\ open \in DOMAIN disk'
      BY <1>1, <3>1, <3>3 DEF DiskType, Without
    <3> QED BY <3>1, <3>4 DEF Files, TypeOK
  <2>3. Sizes
    BY <1>1, <1>12, PopBytes DEF Sizes, evict_one, TypeOK
  <2> QED BY <1>2, <2>1, <2>2, <2>3
<1>13. CASE evict_done
  <2>1. Rest
    BY <1>13 DEF evict_done, TypeOK
  <2>2. Files
    BY <1>1, <1>13 DEF evict_done, Files, DiskType, TypeOK
  <2> QED BY <1>2, <1>5, <1>13, <2>1, <2>2 DEF evict_done
<1>14. CASE finalize_seal
  <2>1. /\ active' = bin(next_index - 1) /\ open' = NoFile /\ active \in DOMAIN disk
        /\ disk' = With(Without(disk, active), active', disk[active])
    BY <1>14 DEF finalize_seal, Finish
  <2>2. active' \in Names
    BY <1>1, <2>1, NameFacts
  <2>3. Files
    BY <1>1, <2>1, <2>2, DiskMove DEF Files, DiskType
  <2>4. Rest
    BY <1>14 DEF finalize_seal, Finish, TypeOK
  <2> QED BY <1>2, <1>5, <1>14, <2>3, <2>4 DEF finalize_seal
<1>15. CASE finalize_remove
  <2>1. disk' = Without(disk, active) /\ open' = NoFile /\ active' = active
    BY <1>15 DEF finalize_remove, Finish
  <2>2. Files
    BY <1>1, <2>1 DEF Files, DiskType, TypeOK, Without
  <2>3. Rest
    BY <1>15 DEF finalize_remove, Finish, TypeOK
  <2> QED BY <1>2, <1>5, <1>15, <2>2, <2>3 DEF finalize_remove
<1>16. CASE finalize_fails
  <2>1. Rest
    BY <1>3, <1>16 DEF finalize_fails, TypeOK, FaultKinds
  <2> QED BY <1>2, <1>4, <1>5, <1>16, <2>1 DEF finalize_fails
<1>17. CASE vars' = vars
  <2>1. Rest
    BY <1>17 DEF vars, TypeOK
  <2> QED BY <1>2, <1>4, <1>5, <1>17, <2>1 DEF vars
<1> QED BY <1>6, <1>7, <1>8, <1>9, <1>10, <1>11, <1>12, <1>13, <1>14, <1>15, <1>16, <1>17
        DEF Next, rotate, finalize

WriterInv == TypeOK /\ EvictOpen

LEMMA WriterInvariant == Spec => []WriterInv
<1>1. Init => WriterInv
  BY WriterTypeInit DEF Init, WriterInv, EvictOpen
<1>2. WriterInv /\ [Next]_vars => WriterInv'
  BY WriterTypeNext, EvictOpenNext DEF WriterInv
<1> QED BY <1>1, <1>2, PTL DEF Spec

\* The types hold, closed_files lie end to end and the file being written is
\* never one that eviction has removed.
THEOREM WriterTypeCorrect == Spec => []TypeOK
<1>1. WriterInv => TypeOK
  BY DEF WriterInv
<1> QED BY <1>1, WriterInvariant, PTL

-----------------------------------------------------------------------------
(* What the writer tracks is the most recent history *)

LEMMA GaplessNext == TypeOK /\ Gapless /\ [Next]_vars => Gapless'
<1> SUFFICES ASSUME TypeOK, Gapless, [Next]_vars PROVE Gapless'
  OBVIOUS
<1>1. /\ closed \in Seq(Closed) /\ Len(closed) \in Nat /\ DOMAIN closed = 1..Len(closed)
      /\ next_index \in Nat \ {0} /\ \A i \in DOMAIN closed : closed[i].index \in Nat
  <2>1. closed \in Seq(Closed) /\ next_index \in Nat \ {0}
    BY DEF TypeOK, Closed
  <2>2. \A i \in DOMAIN closed : closed[i] \in Closed
    BY <2>1
  <2> QED BY <2>1, <2>2 DEF Closed
<1>2. CASE UNCHANGED <<closed, next_index>>
  BY <1>2 DEF Gapless
<1>3. CASE rotate_rename
  <2> DEFINE f == closed'[Len(closed) + 1]
  <2>1. /\ closed' = Append(closed, f) /\ f.index = next_index - 1 /\ next_index' = next_index + 1
    BY <1>1, <1>3 DEF rotate_rename
  <2>2. /\ Len(closed') = Len(closed) + 1 /\ DOMAIN closed' = 1..(Len(closed) + 1)
        /\ \A i \in DOMAIN closed : closed'[i] = closed[i]
    <3> HIDE DEF f
    <3> QED BY <1>1, <2>1
  <2>3. closed # <<>> => closed[Len(closed)].index = closed[1].index + Len(closed) - 1 /\ closed'[1] = closed[1]
    BY <1>1, <2>2 DEF Gapless
  <2>4. f.index = closed'[1].index + (Len(closed) + 1) - 1
    <3>1. CASE closed = <<>>
      BY <1>1, <2>1, <3>1
    <3>2. CASE closed # <<>>
      <4>1. closed[Len(closed)].index = next_index - 2 /\ closed[1].index \in Nat
        BY <1>1, <3>2 DEF Gapless
      <4> QED BY <1>1, <2>1, <2>3, <3>2, <4>1
    <3> QED BY <3>1, <3>2
  <2>5. ASSUME NEW i \in DOMAIN closed' PROVE closed'[i].index = closed'[1].index + i - 1
    <3>1. CASE i = Len(closed) + 1
      BY <2>4, <3>1
    <3>2. CASE i \in DOMAIN closed
      BY <1>1, <2>2, <2>3, <3>2 DEF Gapless
    <3> QED BY <1>1, <2>2, <2>5, <3>1, <3>2
  <2>6. closed'[Len(closed')].index = next_index' - 2
    BY <1>1, <2>1, <2>2
  <2> QED BY <2>5, <2>6 DEF Gapless
<1>4. CASE evict_one
  <2>1. closed' = Tail(closed) /\ closed # <<>> /\ next_index' = next_index
    BY <1>4 DEF evict_one
  <2>2. /\ Len(closed') = Len(closed) - 1 /\ DOMAIN closed' = 1..(Len(closed) - 1)
        /\ \A i \in DOMAIN closed' : i + 1 \in DOMAIN closed /\ closed'[i] = closed[i + 1]
    BY <1>1, <2>1
  <2>3. ASSUME NEW i \in DOMAIN closed' PROVE closed'[i].index = closed'[1].index + i - 1
    <3>1. 1 \in DOMAIN closed' /\ i \in Nat
      BY <1>1, <2>2, <2>3
    <3>2. closed[i + 1].index = closed[1].index + (i + 1) - 1 /\ closed[1 + 1].index = closed[1].index + (1 + 1) - 1
      BY <2>2, <2>3, <3>1 DEF Gapless
    <3>3. closed[1].index \in Nat
      BY <1>1, <2>1
    <3>4. closed'[i] = closed[i + 1] /\ closed'[1] = closed[1 + 1]
      BY <2>2, <2>3, <3>1
    <3>5. closed'[i].index = closed[1].index + (i + 1) - 1 /\ closed'[1].index = closed[1].index + (1 + 1) - 1
      BY <3>2, <3>4
    <3> HIDE DEF Gapless
    <3> QED BY <3>1, <3>3, <3>5
  <2>4. closed' # <<>> => closed'[Len(closed')].index = next_index' - 2
    BY <1>1, <2>1, <2>2 DEF Gapless
  <2> QED BY <2>3, <2>4 DEF Gapless
<1>5. CASE \/ \E n \in EventSizes : write_event(n)
           \/ write_event_fails \/ write_event_finished \/ finalize \/ vars' = vars
  BY <1>2, <1>5 DEF write_event, write_event_fails, write_event_finished,
                    finalize, finalize_seal, finalize_remove, finalize_fails, vars
<1>6. CASE rotate_rename_fails \/ rotate_create \/ rotate_create_fails \/ rotate_metadata_fails \/ evict_done
  BY <1>2, <1>6 DEF rotate_rename_fails, rotate_create, rotate_create_fails, rotate_metadata_fails, evict_done
<1> QED BY <1>3, <1>4, <1>5, <1>6 DEF Next, rotate

\* The closed files are always the segments rotated out last, without a gap,
\* whichever removals, renames and openings fail.
THEOREM HistoryGapless == Spec => []Gapless
<1>1. Init => Gapless
  BY DEF Init, Gapless
<1>2. WriterInv /\ Gapless /\ [Next]_vars => Gapless'
  BY GaplessNext DEF WriterInv
<1> QED BY <1>1, <1>2, WriterInvariant, PTL DEF Spec

-----------------------------------------------------------------------------
(* The budget *)

\* Until an operation fails, the file being written exists: rotate does not fail either.
ActivePresent ==
    faults = {} /\ state = "active" /\ step # "create" => active \in DOMAIN disk /\ ~active.sealed

LEMMA ActivePresentNext == TypeOK /\ ActivePresent /\ [Next]_vars => ActivePresent'
<1> SUFFICES ASSUME TypeOK, ActivePresent, [Next]_vars PROVE ActivePresent'
  OBVIOUS
<1>1. ASSUME NEW k, Fails(k) PROVE faults' # {}
  BY <1>1 DEF Fails
<1>2. CASE UNCHANGED <<disk, active, state, step>> /\ (faults' = {} => faults = {})
  BY <1>2 DEF ActivePresent
<1>3. ASSUME NEW n \in EventSizes, write_event(n) PROVE ActivePresent'
  BY <1>3 DEF write_event, ActivePresent
<1>4. CASE write_event_fails \/ write_event_finished \/ finalize_fails \/ vars' = vars
  BY <1>1, <1>2, <1>4 DEF write_event_fails, write_event_finished, finalize_fails, vars
<1>5. CASE rotate_rename \/ finalize_seal \/ finalize_remove
  BY <1>5 DEF rotate_rename, finalize_seal, finalize_remove, Finish, ActivePresent
<1>6. CASE rotate_rename_fails
  BY <1>1, <1>6 DEF rotate_rename_fails, ActivePresent
<1>7. CASE rotate_create_fails \/ rotate_metadata_fails
  BY <1>1, <1>7 DEF rotate_create_fails, rotate_metadata_fails, ActivePresent
<1>8. CASE rotate_create
  <2>1. active' = active_path(next_index - 1) /\ active' \in DOMAIN disk' /\ next_index - 1 \in Nat
    BY <1>8 DEF rotate_create, With, TypeOK
  <2> QED BY <2>1, NameFacts DEF ActivePresent
<1>9. CASE evict_one
  <2>1. /\ step = "evict" /\ state = "active" /\ UNCHANGED <<active, state, step>>
        /\ faults' = {} => faults = {} /\ disk' = Without(disk, bin(closed[1].index))
    BY <1>1, <1>9 DEF evict_one, TypeOK
  <2>2. bin(closed[1].index).sealed
    BY DEF bin
  <2> QED BY <2>1, <2>2 DEF ActivePresent, Without
<1>10. CASE evict_done
  BY <1>10 DEF evict_done, ActivePresent
<1> QED BY <1>3, <1>4, <1>5, <1>6, <1>7, <1>8, <1>9, <1>10 DEF Next, rotate, finalize

Full == Larger(HeaderSize, MaxFileSize)

\* Where the bytes are at each point of a rotation.
BudgetInv ==
    faults = {} =>
        /\ step = "idle" => encoder <= Full
        /\ step = "rename" => \E e \in EventSizes : encoder <= Full + e
        /\ step \in {"idle", "rename"} => closed = <<>> \/ Bytes(closed) + HeaderSize <= MaxTotalSize
        /\ step \in {"create", "evict"} => \E e \in EventSizes : Bytes(closed) + HeaderSize <= Limit + e
        /\ step = "evict" => encoder = HeaderSize

LEMMA SizeFacts == /\ Full \in Nat /\ Full >= HeaderSize /\ Full >= MaxFileSize
                   /\ Limit \in Nat /\ Limit >= HeaderSize + Full /\ Limit >= MaxTotalSize + Full
  BY SizeAssumption DEF Full, Limit, Larger

LEMMA BytesFacts == TypeOK => Bytes(closed) \in Int /\ EndToEnd(closed) /\ Bytes(closed) = ClosedBytes
                              /\ (closed = <<>> => Bytes(closed) = 0)
<1> SUFFICES ASSUME TypeOK PROVE /\ Bytes(closed) \in Int /\ EndToEnd(closed) /\ Bytes(closed) = ClosedBytes
                                 /\ (closed = <<>> => Bytes(closed) = 0)
  OBVIOUS
<1>1. EndToEnd(closed) /\ Bytes(closed) = ClosedBytes
  BY DEF TypeOK, EndToEnd, Closed, Bytes, ClosedBytes
<1>2. CASE closed = <<>>
  BY <1>1, <1>2 DEF Bytes
<1>3. CASE closed # <<>>
  BY <1>1, <1>3, PopBytes
<1> QED BY <1>1, <1>2, <1>3

LEMMA BudgetNext == TypeOK /\ ActivePresent /\ BudgetInv /\ [Next]_vars => BudgetInv'
<1> SUFFICES ASSUME TypeOK, ActivePresent, BudgetInv, [Next]_vars, faults' = {} PROVE BudgetInv'
  BY DEF BudgetInv
<1>1. ASSUME NEW k, Fails(k) PROVE FALSE
  BY <1>1 DEF Fails
<1>2. /\ encoder \in Nat \ {0} /\ Bytes(closed) \in Int /\ EndToEnd(closed) /\ Bytes(closed) = ClosedBytes
      /\ (closed = <<>> => Bytes(closed) = 0) /\ HeaderSize \in Nat /\ MaxFileSize \in Nat
      /\ MaxTotalSize \in Nat /\ EventSizes \subseteq Nat
  BY BytesFacts, SizeAssumption DEF TypeOK
<1>3. CASE UNCHANGED <<closed, encoder, step>> /\ faults = {}
  BY <1>3 DEF BudgetInv
<1>4. ASSUME NEW n \in EventSizes, write_event(n) PROVE BudgetInv'
  <2>1. /\ step = "idle" /\ faults = {} /\ closed' = closed /\ encoder' = encoder + n
        /\ step' = IF encoder' > MaxFileSize THEN "rename" ELSE "idle"
    BY <1>4 DEF write_event
  <2>2. encoder <= Full /\ (closed = <<>> \/ Bytes(closed) + HeaderSize <= MaxTotalSize)
    BY <2>1 DEF BudgetInv
  <2>3. encoder' <= Full + n /\ (step' = "idle" => encoder' <= Full) /\ step' \in {"idle", "rename"}
    BY <1>2, <2>1, <2>2, SizeFacts
  <2> QED BY <2>1, <2>2, <2>3 DEF BudgetInv
<1>5. CASE write_event_fails \/ write_event_finished \/ finalize \/ vars' = vars
  BY <1>1, <1>3, <1>5 DEF write_event_fails, write_event_finished, finalize, finalize_seal, finalize_remove,
                          finalize_fails, vars
<1>6. CASE rotate_rename_fails
  BY <1>1, <1>6 DEF rotate_rename_fails, ActivePresent, TypeOK
<1>7. CASE rotate_rename
  <2>1. step = "rename" /\ faults = {} /\ step' = "create"
    BY <1>7 DEF rotate_rename
  <2>2. PICK e \in EventSizes : encoder <= Full + e
    BY <2>1 DEF BudgetInv
  <2>3. closed = <<>> \/ Bytes(closed) + HeaderSize <= MaxTotalSize
    BY <2>1 DEF BudgetInv
  <2>4. Bytes(closed') = Bytes(closed) + encoder
    <3>1. next_index - 1 \in Nat
      BY DEF TypeOK
    <3> QED BY <1>2, <1>7, <3>1, PushBytes DEF rotate_rename
  <2>5. Bytes(closed') + HeaderSize <= Limit + e
    BY <1>2, <2>2, <2>3, <2>4, SizeFacts
  <2> QED BY <2>1, <2>5 DEF BudgetInv
<1>8. CASE rotate_create
  BY <1>8 DEF rotate_create, BudgetInv
<1>9. CASE rotate_create_fails \/ rotate_metadata_fails
  BY <1>1, <1>9 DEF rotate_create_fails, rotate_metadata_fails
<1>10. CASE evict_one
  <2>1. /\ step = "evict" /\ step' = step /\ encoder' = encoder /\ faults = {} /\ closed # <<>>
        /\ closed' = Tail(closed)
    BY <1>1, <1>10 DEF evict_one
  <2>2. PICK e \in EventSizes : Bytes(closed) + HeaderSize <= Limit + e
    BY <2>1 DEF BudgetInv
  <2>3. Bytes(closed') <= Bytes(closed) /\ Bytes(closed') \in Int
    BY <1>2, <2>1, PopBytes
  <2>4. Bytes(closed') + HeaderSize <= Limit + e
    BY <1>2, <2>2, <2>3, SizeFacts
  <2> QED BY <2>1, <2>4 DEF BudgetInv
<1>11. CASE evict_done
  <2>1. /\ step = "evict" /\ step' = "idle" /\ encoder' = encoder /\ faults = {} /\ closed' = closed
        /\ ClosedBytes + encoder <= MaxTotalSize \/ closed = <<>>
    BY <1>11 DEF evict_done, total_size, TypeOK
  <2>2. encoder = HeaderSize
    BY <2>1 DEF BudgetInv
  <2>3. encoder' <= Full /\ (closed' = <<>> \/ Bytes(closed') + HeaderSize <= MaxTotalSize)
    BY <1>2, <2>1, <2>2, SizeFacts
  <2> QED BY <2>1, <2>3 DEF BudgetInv
<1> QED BY <1>4, <1>5, <1>6, <1>7, <1>8, <1>9, <1>10, <1>11 DEF Next, rotate

LEMMA BudgetEnough == TypeOK /\ BudgetInv => BudgetBound
<1> SUFFICES ASSUME TypeOK, BudgetInv, faults = {} PROVE \E e \in EventSizes \union {0} : Held <= Limit + e
  BY DEF BudgetBound
<1>1. /\ encoder \in Nat /\ Bytes(closed) \in Int /\ Bytes(closed) = ClosedBytes
      /\ (closed = <<>> => Bytes(closed) = 0) /\ HeaderSize \in Nat
      /\ MaxTotalSize \in Nat /\ EventSizes \subseteq Nat
  BY BytesFacts, SizeAssumption DEF TypeOK
<1>2. CASE step \in {"idle", "rename"}
  <2>1. closed = <<>> \/ Bytes(closed) + HeaderSize <= MaxTotalSize
    BY <1>2 DEF BudgetInv
  <2>2. PICK e \in EventSizes \union {0} : encoder <= Full + e
    <3>1. CASE step = "idle"
      <4>1. encoder <= Full + 0
        BY <1>1, <3>1, SizeFacts DEF BudgetInv
      <4> QED BY <4>1
    <3>2. CASE step = "rename"
      BY <3>2 DEF BudgetInv
    <3> QED BY <1>2, <3>1, <3>2
  <2>3. Held = Bytes(closed) + encoder
    BY <1>1, <1>2 DEF Held
  <2>4. Held <= Limit + e
    BY <1>1, <2>1, <2>2, <2>3, SizeFacts
  <2> QED BY <2>4
<1>3. CASE step \in {"create", "evict"}
  <2>1. PICK e \in EventSizes : Bytes(closed) + HeaderSize <= Limit + e
    BY <1>3 DEF BudgetInv
  <2>2. Held \in {Bytes(closed), Bytes(closed) + HeaderSize}
    BY <1>1, <1>3 DEF Held, BudgetInv
  <2>3. Held <= Limit + e
    BY <1>1, <2>1, <2>2, SizeFacts
  <2> QED BY <2>3
<1> QED BY <1>2, <1>3 DEF TypeOK

\* Without I/O errors the segments take at most the budget, one full segment and
\* the event that overfilled it, whatever the sizes are.
THEOREM BudgetKept == Spec => []BudgetBound
<1> DEFINE Inv == ActivePresent /\ BudgetInv
<1>1. Init => Inv
  <2> SUFFICES ASSUME Init PROVE Inv
    OBVIOUS
  <2>1. active = active_path(0) /\ active \in DOMAIN disk /\ step = "idle" /\ closed = <<>> /\ encoder = HeaderSize
    BY DEF Init
  <2>2. ActivePresent
    BY <2>1, NameFacts DEF ActivePresent
  <2>3. encoder <= Full
    BY <2>1, SizeFacts, SizeAssumption
  <2> QED BY <2>1, <2>2, <2>3 DEF BudgetInv
<1>2. WriterInv /\ Inv /\ [Next]_vars => Inv'
  BY ActivePresentNext, BudgetNext DEF WriterInv
<1>3. WriterInv /\ Inv => BudgetBound
  BY BudgetEnough DEF WriterInv
<1> HIDE DEF Inv
<1> QED BY <1>1, <1>2, <1>3, WriterInvariant, PTL DEF Spec

-----------------------------------------------------------------------------
(* RotatingWriter implements SegmentSource *)

\* The file being written is not sealed, and a writer that stopped in eviction
\* leaves no event behind in it: a later finalize seals nothing.
FinishInv ==
    /\ step = "evict" => ~has_real
    /\ state = "active" => ~active.sealed
    /\ state = "finished" /\ ~active.sealed => ~has_real

LEMMA FinishInvNext == TypeOK /\ FinishInv /\ [Next]_vars => FinishInv'
<1> SUFFICES ASSUME TypeOK, FinishInv, [Next]_vars PROVE FinishInv'
  OBVIOUS
<1>1. has_real \in BOOLEAN /\ (step # "idle" => state = "active")
  BY DEF TypeOK
<1>2. \A i : ~active_path(i).sealed /\ bin(i).sealed
  BY DEF active_path, bin
<1>3. CASE \E n \in EventSizes : write_event(n)
  BY <1>3 DEF FinishInv, write_event
<1>4. CASE write_event_fails
  BY <1>4 DEF FinishInv, write_event_fails
<1>5. CASE write_event_finished
  BY <1>5 DEF FinishInv, write_event_finished
<1>6. CASE rotate_rename
  BY <1>6 DEF FinishInv, rotate_rename
<1>7. CASE rotate_rename_fails
  BY <1>7 DEF FinishInv, rotate_rename_fails
<1>8. CASE rotate_create
  BY <1>1, <1>2, <1>8 DEF FinishInv, rotate_create
<1>9. CASE rotate_create_fails
  BY <1>9 DEF FinishInv, rotate_create_fails
<1>10. CASE rotate_metadata_fails
  BY <1>1, <1>2, <1>10 DEF FinishInv, rotate_metadata_fails
<1>11. CASE evict_one
  BY <1>11 DEF FinishInv, evict_one
<1>12. CASE evict_done
  BY <1>1, <1>12 DEF FinishInv, evict_done
<1>13. CASE finalize_seal
  BY <1>2, <1>13 DEF FinishInv, finalize_seal, Finish
<1>14. CASE finalize_remove
  BY <1>14 DEF FinishInv, finalize_remove, Finish
<1>15. CASE finalize_fails
  BY <1>15 DEF FinishInv, finalize_fails
<1>16. CASE vars' = vars
  BY <1>16 DEF FinishInv, vars
<1> QED BY <1>3, <1>4, <1>5, <1>6, <1>7, <1>8, <1>9, <1>10, <1>11, <1>12, <1>13, <1>14, <1>15, <1>16
        DEF Next, rotate, finalize

\* A change of the files that are not sealed is none to the worker.
LEMMA OnlyUnsealed ==
    ASSUME NEW n, ~n.sealed,
           disk' = Without(disk, n) \/ \E v : disk' = With(disk, n, v)
    PROVE  SealedFiles' = SealedFiles
BY DEF SealedFiles, With, Without

LEMMA SealAdds ==
    ASSUME NEW i, ~active.sealed, NEW v, disk' = With(Without(disk, active), bin(i), v)
    PROVE  SealedFiles' = SealedFiles \union {i}
<1>1. DOMAIN disk' = (DOMAIN disk \ {active}) \union {bin(i)}
  BY DEF With, Without
<1>2. bin(i).sealed /\ bin(i).index = i
  BY DEF bin
<1> QED BY <1>1, <1>2 DEF SealedFiles

LEMMA EvictRemoves ==
    ASSUME TypeOK, NEW i \in Nat, disk' = Without(disk, bin(i))
    PROVE  SealedFiles' = SealedFiles \ {i}
<1>1. DOMAIN disk' = DOMAIN disk \ {bin(i)}
  BY DEF Without
<1>2. \A n \in DOMAIN disk : n.sealed /\ n.index = i => n = bin(i)
  <2> SUFFICES ASSUME NEW n \in DOMAIN disk, n.sealed, n.index = i PROVE n = bin(i)
    OBVIOUS
  <2>1. n \in [index : Nat, sealed : BOOLEAN]
    BY DEF TypeOK, Names
  <2>2. n = [index |-> n.index, sealed |-> n.sealed] /\ n.sealed = TRUE
    BY <2>1
  <2> QED BY <2>2 DEF bin
<1>3. bin(i).index = i
  BY DEF bin
<1> QED BY <1>1, <1>2, <1>3 DEF SealedFiles

LEMMA SourceInitHolds == Init => Source!SourceInit
<1> SUFFICES ASSUME Init PROVE Source!SourceInit
  OBVIOUS
<1>1. SealedFiles = {}
  BY DEF Init, SealedFiles, active_path
<1>2. ClosedIndices = <<>>
  BY DEF Init, ClosedIndices
<1> QED BY <1>1, <1>2 DEF Init, Phase, Source!SourceInit

LEMMA SourceStep == TypeOK /\ FinishInv /\ [Next]_vars => [Source!SourceNext]_(Source!source)
<1> SUFFICES ASSUME TypeOK, FinishInv, [Next]_vars
             PROVE  Source!SourceNext \/ UNCHANGED Source!source
  OBVIOUS
<1>1. /\ closed \in Seq(Closed) /\ Len(closed) \in Nat /\ DOMAIN closed = 1 .. Len(closed)
      /\ \A i \in DOMAIN closed : closed[i] \in Closed
  <2>1. closed \in Seq(Closed)
    BY DEF TypeOK, Closed
  <2> QED BY <2>1
<1>2. next_index \in Nat \ {0} /\ (step # "idle" => state = "active")
  BY DEF TypeOK
<1>3. \A i : ~active_path(i).sealed
  BY DEF active_path
<1>4. UNCHANGED <<SealedFiles, closed, next_index, Phase>> => UNCHANGED Source!source
  BY DEF Source!source, ClosedIndices
<1>5. UNCHANGED <<step, state>> => UNCHANGED Phase
  BY DEF Phase
<1>6. UNCHANGED disk => UNCHANGED SealedFiles
  BY DEF SealedFiles
<1>7. UNCHANGED closed => UNCHANGED ClosedIndices
  BY DEF ClosedIndices
<1>8. CASE \E n \in EventSizes : write_event(n)
  <2>1. /\ step = "idle" /\ step' \in {"rename", "idle"} /\ state = "active" /\ state' = state
        /\ UNCHANGED <<closed, next_index>> /\ DOMAIN disk' = DOMAIN disk
    BY <1>8 DEF write_event
  <2> QED BY <1>4, <2>1 DEF Phase, SealedFiles
<1>9. CASE write_event_fails \/ write_event_finished \/ finalize_fails \/ vars' = vars
  BY <1>4, <1>5, <1>6, <1>9 DEF write_event_fails, write_event_finished, finalize_fails, vars
<1>10. CASE rotate_rename
  <2>1. SealedFiles' = SealedFiles \union {next_index - 1}
    <3>1. \E v : disk' = With(Without(disk, active), bin(next_index - 1), v)
      BY <1>10 DEF rotate_rename
    <3> QED BY <1>2, <1>10, <3>1, SealAdds DEF FinishInv, rotate_rename
  <2>2. ClosedIndices' = Append(ClosedIndices, next_index - 1)
    <3> DEFINE f == closed'[Len(closed) + 1]
    <3>1. closed' = Append(closed, f) /\ f.index = next_index - 1
      BY <1>1, <1>10 DEF rotate_rename
    <3> HIDE DEF f
    <3>2. /\ DOMAIN closed' = 1 .. (Len(closed) + 1) /\ closed'[Len(closed) + 1] = f
          /\ \A i \in 1 .. Len(closed) : closed'[i] = closed[i]
      BY <1>1, <3>1
    <3>3. Len(ClosedIndices) = Len(closed) /\ DOMAIN ClosedIndices = 1 .. Len(closed)
      BY <1>1 DEF ClosedIndices
    <3>4. ClosedIndices \in Seq(Nat)
      BY <1>1 DEF ClosedIndices, Closed
    <3> QED BY <1>1, <1>2, <3>1, <3>2, <3>3, <3>4 DEF ClosedIndices
  <2>3. Phase = "idle" /\ Phase' = "opening" /\ next_index' = next_index + 1
    BY <1>2, <1>10 DEF rotate_rename, Phase
  <2> QED BY <2>1, <2>2, <2>3 DEF Source!SourceNext, Source!Seal
<1>11. CASE rotate_rename_fails
  <2>1. Phase = "idle" /\ Phase' = "idle"
    BY <1>2, <1>11 DEF rotate_rename_fails, Phase
  <2> QED BY <1>4, <1>6, <1>11, <2>1 DEF rotate_rename_fails
<1>12. CASE rotate_create \/ rotate_create_fails \/ rotate_metadata_fails
  <2>1. UNCHANGED <<closed, next_index>> /\ Phase = "opening" /\ Phase' \in {"evicting", "idle"}
    BY <1>2, <1>12 DEF rotate_create, rotate_create_fails, rotate_metadata_fails, Phase
  <2>2. UNCHANGED SealedFiles
    <3>1. disk' = disk \/ \E v : disk' = With(disk, active_path(next_index - 1), v)
      BY <1>12 DEF rotate_create, rotate_create_fails, rotate_metadata_fails
    <3> QED BY <1>3, <1>6, <3>1, OnlyUnsealed
  <2> QED BY <1>7, <2>1, <2>2 DEF Source!SourceNext, Source!Open
<1>13. CASE evict_one
  <2>1. /\ closed # <<>> /\ closed' = Tail(closed) /\ UNCHANGED next_index
        /\ Phase = "evicting" /\ Phase' = "evicting"
    BY <1>2, <1>13 DEF evict_one, Phase
  <2>2. 1 \in DOMAIN closed /\ Head(closed) = closed[1] /\ closed[1].index \in Nat
    BY <1>1, <2>1 DEF Closed
  <2>3. ClosedIndices # <<>> /\ Head(ClosedIndices) = closed[1].index
    BY <1>1, <2>1, <2>2 DEF ClosedIndices
  <2>4. ClosedIndices' = Tail(ClosedIndices)
    <3>1. /\ DOMAIN closed' = 1 .. (Len(closed) - 1)
          /\ \A i \in 1 .. (Len(closed) - 1) : closed'[i] = closed[i + 1] /\ i + 1 \in DOMAIN closed
      BY <1>1, <2>1
    <3>2. /\ ClosedIndices \in Seq(Nat) /\ Len(ClosedIndices) = Len(closed)
          /\ \A i \in DOMAIN closed : ClosedIndices[i] = closed[i].index
      BY <1>1 DEF ClosedIndices, Closed
    <3> DEFINE t == Tail(ClosedIndices)
    <3>3. /\ DOMAIN t = 1 .. (Len(closed) - 1) /\ t = [i \in DOMAIN t |-> t[i]]
          /\ \A i \in 1 .. (Len(closed) - 1) : t[i] = ClosedIndices[i + 1]
      <4>1. t \in Seq(Nat) /\ Len(t) = Len(closed) - 1
        BY <1>1, <2>3, <3>2
      <4>2. \A i \in 1 .. (Len(closed) - 1) : t[i] = ClosedIndices[i + 1]
        BY <1>1, <2>3, <3>2
      <4> HIDE DEF t
      <4>3. t = [i \in DOMAIN t |-> t[i]]
        BY <4>1
      <4> QED BY <1>1, <4>1, <4>2, <4>3
    <3> HIDE DEF t
    <3>4. t = [i \in DOMAIN closed' |-> closed'[i].index]
      BY <3>1, <3>2, <3>3
    <3> QED BY <3>4 DEF ClosedIndices, t
  <2>5. SealedFiles' = SealedFiles \/ SealedFiles' = SealedFiles \ {closed[1].index}
    <3>1. disk' = disk \/ disk' = Without(disk, bin(closed[1].index))
      BY <1>13, <2>2 DEF evict_one
    <3> QED BY <1>6, <2>2, <3>1, EvictRemoves
  <2> QED BY <2>1, <2>3, <2>4, <2>5 DEF Source!SourceNext, Source!Evict
<1>14. CASE evict_done
  <2>1. Phase = "evicting" /\ Phase' \in {"idle", "finished"}
    BY <1>2, <1>14 DEF evict_done, Phase
  <2> QED BY <1>6, <1>7, <1>14, <2>1 DEF evict_done, Source!SourceNext, Source!EvictionEnds
<1>15. CASE finalize_seal
  <2>1. state = "active" /\ Phase = "idle" /\ Phase' = "finished"
    BY <1>15 DEF finalize_seal, Finish, FinishInv, Phase, TypeOK
  <2>2. SealedFiles' = SealedFiles \union {next_index - 1}
    BY <1>15, SealAdds DEF finalize_seal
  <2> QED BY <1>7, <1>15, <2>1, <2>2 DEF finalize_seal, Source!SourceNext, Source!Finish
<1>16. CASE finalize_remove
  <2>1. UNCHANGED SealedFiles
    BY <1>16, OnlyUnsealed DEF finalize_remove
  <2>2. Phase \in {"idle", "finished"} /\ Phase' = "finished"
    BY <1>16 DEF finalize_remove, Finish, Phase, TypeOK
  <2> QED BY <1>4, <1>7, <1>16, <2>1, <2>2 DEF finalize_remove, Source!SourceNext, Source!Finish
<1> QED BY <1>8, <1>9, <1>10, <1>11, <1>12, <1>13, <1>14, <1>15, <1>16
        DEF Next, rotate, finalize

\* The writer implements SegmentSource, whatever fails: what SegmentWorker is checked
\* against is what the writer does.
THEOREM WriterImplementsSource == Spec => ImplementsSource
<1>1. Init => FinishInv
  BY DEF Init, FinishInv, active_path
<1>2. WriterInv => TypeOK
  BY DEF WriterInv
<1> QED BY <1>1, <1>2, WriterInvariant, FinishInvNext, SourceInitHolds, SourceStep, PTL
        DEF Spec, ImplementsSource, Source!SourceSpec

(***************************************************************************)
(* The directory: what is in the sealed files, that they stay as they are, *)
(* and which files there are.                                              *)
(***************************************************************************)

-----------------------------------------------------------------------------
(* What the operations do to the directory *)

Moved(n, m) ==
    /\ DOMAIN disk' = (DOMAIN disk \ {n}) \union {m} /\ disk'[m] = disk[n]
    /\ \A k \in DOMAIN disk \ {n, m} : disk'[k] = disk[k]
Made(n, v) ==
    /\ DOMAIN disk' = DOMAIN disk \union {n} /\ disk'[n] = v
    /\ \A k \in DOMAIN disk \ {n} : disk'[k] = disk[k]
Removed(n) ==
    /\ DOMAIN disk' = DOMAIN disk \ {n}
    /\ \A k \in DOMAIN disk \ {n} : disk'[k] = disk[k]
Grown(n) ==
    /\ DOMAIN disk' = DOMAIN disk
    /\ \A k \in DOMAIN disk \ {open} : disk'[k] = disk[k]
    /\ open \in DOMAIN disk => disk'[open] = [bytes |-> disk[open].bytes + n, events |-> TRUE]

LEMMA WithFact ==
    ASSUME NEW n, NEW v, disk' = With(disk, n, v)
    PROVE  Made(n, v)
  BY DEF With, Made

LEMMA WithoutFact ==
    ASSUME NEW n, disk' = Without(disk, n)
    PROVE  Removed(n)
  BY DEF Without, Removed

LEMMA MoveFact ==
    ASSUME NEW n, NEW m, disk' = With(Without(disk, n), m, disk[n])
    PROVE  Moved(n, m)
<1>1. DOMAIN Without(disk, n) = DOMAIN disk \ {n} /\ \A k \in DOMAIN disk \ {n} : Without(disk, n)[k] = disk[k]
  BY DEF Without
<1>2. /\ DOMAIN disk' = DOMAIN Without(disk, n) \union {m} /\ disk'[m] = disk[n]
      /\ \A k \in DOMAIN Without(disk, n) : k # m => disk'[k] = Without(disk, n)[k]
  BY DEF With
<1> QED BY <1>1, <1>2 DEF Moved

LEMMA WriteFact ==
    ASSUME TypeOK, NEW n \in EventSizes, write_event(n)
    PROVE  Grown(n)
<1>1. CASE open = NoFile
  <2>1. disk' = disk
    BY <1>1 DEF write_event
  <2>2. open \notin DOMAIN disk
    <3>1. DOMAIN disk \subseteq [index : Nat, sealed : BOOLEAN]
      BY DEF TypeOK, Names
    <3>2. \A k \in DOMAIN disk : k.index \in Nat
      BY <3>1
    <3> QED BY <1>1, <3>2 DEF NoFile
  <2> QED BY <2>1, <2>2 DEF Grown
<1>2. CASE open # NoFile
  <2>1. disk' = [disk EXCEPT ![open] = [bytes |-> disk[open].bytes + n, events |-> TRUE]]
    BY <1>2 DEF write_event
  <2> QED BY <2>1 DEF Grown
<1> QED BY <1>1, <1>2

-----------------------------------------------------------------------------
(* The file being written *)

\* The active file has the highest index, and sealed ones are behind it.
Placed ==
    /\ active.index <= next_index - 1
    /\ active \in DOMAIN disk /\ ~active.sealed => active.index = next_index - 1
    /\ step = "create" => active.index < next_index - 1 /\ active \notin DOMAIN disk
    /\ \A n \in DOMAIN disk : n.sealed => n.index < next_index - 1 \/ active.sealed

\* has_real tells whether the active file holds an event; it is written to, or is gone.
Flagged ==
    /\ active \in DOMAIN disk /\ ~active.sealed => (disk[active].events <=> has_real)
    /\ state = "active" /\ open # active => active \notin DOMAIN disk
    /\ step = "rename" => has_real

\* Until an opening fails, what is written goes into the active file.
Opened ==
    "create" \notin faults /\ state = "active" /\ step # "create" =>
        open = active /\ active \in DOMAIN disk /\ disk[active].bytes = encoder

LEMMA IndexFacts ==
    ASSUME TypeOK
    PROVE  /\ next_index \in Nat \ {0} /\ next_index - 1 \in Nat
           /\ active.index \in Int /\ active.sealed \in BOOLEAN
           /\ \A n \in DOMAIN disk : n.index \in Nat /\ n.sealed \in BOOLEAN
           /\ active = [index |-> active.index, sealed |-> active.sealed] /\ has_real \in BOOLEAN
           /\ (step # "idle" => state = "active")
<1>1. active \in [index : Nat, sealed : BOOLEAN] /\ DOMAIN disk \subseteq [index : Nat, sealed : BOOLEAN]
  BY DEF TypeOK, Names
<1>2. active.index \in Int /\ active.sealed \in BOOLEAN /\ active = [index |-> active.index, sealed |-> active.sealed]
  BY <1>1
<1>3. \A n \in DOMAIN disk : n.index \in Nat /\ n.sealed \in BOOLEAN
  BY <1>1
<1>4. next_index \in Nat \ {0} /\ next_index - 1 \in Nat
  BY DEF TypeOK
<1>5. has_real \in BOOLEAN /\ (step # "idle" => state = "active")
  BY DEF TypeOK
<1> QED BY <1>2, <1>3, <1>4, <1>5, Zenon

\* Each name is of a file with an index, sealed or not.
LEMMA NamesApart ==
    /\ \A i : bin(i).index = i /\ bin(i).sealed /\ active_path(i).index = i /\ ~active_path(i).sealed
  BY DEF bin, active_path

LEMMA PlacedNext == TypeOK /\ FinishInv /\ Placed /\ [Next]_vars => Placed'
<1> SUFFICES ASSUME TypeOK, FinishInv, Placed, [Next]_vars PROVE Placed'
  OBVIOUS
<1>1. CASE \E n \in EventSizes : write_event(n)
  <2>1. PICK n \in EventSizes : write_event(n)
    BY <1>1
  <2>2. DOMAIN disk' = DOMAIN disk /\ UNCHANGED <<active, next_index>> /\ step' # "create"
    BY <2>1, WriteFact DEF Grown, write_event
  <2> QED BY <2>2 DEF Placed
<1>2. CASE write_event_fails \/ write_event_finished \/ finalize_fails \/ vars' = vars
  BY <1>2 DEF write_event_fails, write_event_finished, finalize_fails, vars, Placed
<1>3. CASE rotate_rename
  <2>1. /\ active \in DOMAIN disk /\ active' = active /\ next_index' = next_index + 1 /\ step = "rename"
        /\ Moved(active, bin(next_index - 1))
    BY <1>3, MoveFact DEF rotate_rename
  <2>2. ~active.sealed /\ active.index = next_index - 1
    BY <2>1, IndexFacts DEF FinishInv, Placed
  <2>3. DOMAIN disk' = (DOMAIN disk \ {active}) \union {bin(next_index - 1)} /\ bin(next_index - 1) # active
    BY <2>1, <2>2, NamesApart DEF Moved
  <2>4. ASSUME NEW n \in DOMAIN disk', n.sealed PROVE n.index < next_index' - 1
    <3>1. CASE n = bin(next_index - 1)
      BY <2>1, <3>1, IndexFacts, NamesApart
    <3>2. CASE n \in DOMAIN disk
      BY <2>1, <2>2, <2>4, <3>2, IndexFacts DEF Placed
    <3> QED BY <2>3, <3>1, <3>2
  <2>5. active.index < next_index' - 1 /\ active' \notin DOMAIN disk'
    BY <2>1, <2>2, <2>3, IndexFacts
  <2> QED BY <2>1, <2>4, <2>5, IndexFacts DEF Placed
<1>4. CASE rotate_rename_fails \/ evict_done
  BY <1>4 DEF rotate_rename_fails, evict_done, Placed
<1>5. CASE rotate_create \/ rotate_metadata_fails
  <2> DEFINE v == [bytes |-> HeaderSize, events |-> FALSE]
  <2>1. /\ active' = active_path(next_index - 1) /\ disk' = With(disk, active', v)
        /\ next_index' = next_index /\ step' # "create" /\ step = "create"
    BY <1>5 DEF rotate_create, rotate_metadata_fails
  <2>2. Made(active', v)
    BY <2>1, WithFact
  <2>3. ~active.sealed
    BY <2>1, IndexFacts DEF FinishInv
  <2>4. \A n \in DOMAIN disk' : n.sealed => n.index < next_index' - 1
    BY <2>1, <2>2, <2>3, IndexFacts, NamesApart DEF Made, Placed
  <2>5. active'.index = next_index - 1
    BY <2>1, NamesApart
  <2>6. next_index' - 1 \in Nat /\ active'.index = next_index' - 1
    BY <2>1, <2>5, IndexFacts
  <2> HIDE DEF v
  <2> QED BY <2>1, <2>4, <2>6 DEF Placed
<1>6. CASE rotate_create_fails
  <2> DEFINE m == active_path(next_index - 1)
             v == [bytes |-> 0, events |-> FALSE]
  <2>1. /\ disk' = disk \/ disk' = With(disk, m, v)
        /\ UNCHANGED <<active, next_index>> /\ step' # "create" /\ step = "create"
    BY <1>6 DEF rotate_create_fails
  <2>2. active \notin DOMAIN disk /\ active.index < next_index - 1 /\ ~active.sealed
    BY <2>1, IndexFacts DEF FinishInv, Placed
  <2>3. DOMAIN disk' \subseteq DOMAIN disk \union {m}
    BY <2>1, WithFact DEF Made
  <2>4. active' \notin DOMAIN disk'
    BY <2>1, <2>2, <2>3, IndexFacts, NamesApart
  <2>5. \A n \in DOMAIN disk' : n.sealed => n.index < next_index' - 1
    BY <2>1, <2>2, <2>3, NamesApart DEF Placed
  <2> QED BY <2>1, <2>2, <2>4, <2>5, IndexFacts DEF Placed
<1>7. CASE evict_one
  <2>1. DOMAIN disk' \subseteq DOMAIN disk /\ UNCHANGED <<active, next_index, step>>
    BY <1>7, WithoutFact DEF evict_one, Removed
  <2> QED BY <2>1 DEF Placed
<1>8. CASE finalize_seal
  <2>1. active' = bin(next_index - 1) /\ UNCHANGED <<next_index, step>> /\ step = "idle"
    BY <1>8 DEF finalize_seal
  <2> QED BY <2>1, IndexFacts, NamesApart DEF Placed
<1>9. CASE finalize_remove
  <2>1. DOMAIN disk' \subseteq DOMAIN disk /\ UNCHANGED <<active, next_index, step>>
    BY <1>9, WithoutFact DEF finalize_remove, Removed
  <2> QED BY <2>1 DEF Placed
<1> QED BY <1>1, <1>2, <1>3, <1>4, <1>5, <1>6, <1>7, <1>8, <1>9 DEF Next, rotate, finalize

LEMMA FlaggedNext == TypeOK /\ FinishInv /\ Placed /\ Flagged /\ [Next]_vars => Flagged'
<1> SUFFICES ASSUME TypeOK, FinishInv, Placed, Flagged, [Next]_vars PROVE Flagged'
  OBVIOUS
<1>1. CASE \E n \in EventSizes : write_event(n)
  <2>1. PICK n \in EventSizes : write_event(n)
    BY <1>1
  <2>2. /\ Grown(n) /\ has_real' = TRUE /\ state = "active" /\ UNCHANGED <<active, open, state>>
    BY <2>1, WriteFact DEF write_event
  <2>3. active \in DOMAIN disk => open = active
    BY <2>2 DEF Flagged
  <2>4. active \in DOMAIN disk' => disk'[active] = [bytes |-> disk[active].bytes + n, events |-> TRUE]
    BY <2>2, <2>3 DEF Grown
  <2>5. DOMAIN disk' = DOMAIN disk
    BY <2>2 DEF Grown
  <2> QED BY <2>2, <2>3, <2>4, <2>5 DEF Flagged
<1>2. CASE write_event_fails \/ write_event_finished \/ finalize_fails \/ vars' = vars
  BY <1>2 DEF write_event_fails, write_event_finished, finalize_fails, vars, Flagged
<1>3. CASE rotate_rename
  <2>1. /\ step = "rename" /\ step' = "create" /\ active' = active /\ active \in DOMAIN disk
        /\ Moved(active, bin(next_index - 1))
    BY <1>3, MoveFact DEF rotate_rename
  <2>2. active' \notin DOMAIN disk'
    BY <2>1, IndexFacts, NamesApart DEF Moved, FinishInv
  <2> QED BY <2>1, <2>2 DEF Flagged
<1>4. CASE rotate_rename_fails
  BY <1>4 DEF rotate_rename_fails, Flagged
<1>5. CASE rotate_create \/ rotate_metadata_fails
  <2> DEFINE v == [bytes |-> HeaderSize, events |-> FALSE]
  <2>1. /\ open' = active' /\ disk' = With(disk, active', v) /\ has_real' = FALSE /\ step' # "rename"
    BY <1>5 DEF rotate_create, rotate_metadata_fails
  <2>2. disk'[active'] = v
    BY <2>1, WithFact DEF Made
  <2> QED BY <2>1, <2>2 DEF Flagged
<1>6. CASE rotate_create_fails
  <2> DEFINE m == active_path(next_index - 1)
             v == [bytes |-> 0, events |-> FALSE]
  <2>1. /\ disk' = disk \/ disk' = With(disk, m, v)
        /\ UNCHANGED active /\ step' # "rename" /\ step = "create"
    BY <1>6 DEF rotate_create_fails
  <2>2. active \notin DOMAIN disk /\ active.index < next_index - 1
    BY <2>1 DEF Placed
  <2>3. DOMAIN disk' \subseteq DOMAIN disk \union {m}
    BY <2>1, WithFact DEF Made
  <2>4. active' \notin DOMAIN disk'
    BY <2>1, <2>2, <2>3, IndexFacts, NamesApart
  <2> QED BY <2>1, <2>4 DEF Flagged
<1>7. CASE evict_one
  <2>1. /\ DOMAIN disk' \subseteq DOMAIN disk /\ \A k \in DOMAIN disk' : disk'[k] = disk[k]
        /\ UNCHANGED <<active, open, state, has_real, step>>
    BY <1>7, WithoutFact DEF evict_one, Removed
  <2> QED BY <2>1 DEF Flagged
<1>8. CASE evict_done
  BY <1>8, IndexFacts DEF evict_done, Flagged
<1>9. CASE finalize_seal
  <2>1. active'.sealed /\ state' = "finished" /\ step' = "idle"
    BY <1>9, NamesApart DEF finalize_seal, Finish
  <2> QED BY <2>1 DEF Flagged
<1>10. CASE finalize_remove
  <2>1. active' \notin DOMAIN disk' /\ state' = "finished" /\ step' = "idle"
    BY <1>10, WithoutFact DEF finalize_remove, Finish, Removed
  <2> QED BY <2>1 DEF Flagged
<1> QED BY <1>1, <1>2, <1>3, <1>4, <1>5, <1>6, <1>7, <1>8, <1>9, <1>10 DEF Next, rotate, finalize

LEMMA OpenedNext == TypeOK /\ FinishInv /\ Placed /\ Flagged /\ Opened /\ [Next]_vars => Opened'
<1> SUFFICES ASSUME TypeOK, FinishInv, Placed, Flagged, Opened, [Next]_vars,
                    "create" \notin faults', state' = "active", step' # "create"
             PROVE  open' = active' /\ active' \in DOMAIN disk' /\ disk'[active'].bytes = encoder'
  BY DEF Opened
<1>1. CASE \E n \in EventSizes : write_event(n)
  <2>1. PICK n \in EventSizes : write_event(n)
    BY <1>1
  <2>2. /\ Grown(n) /\ encoder' = encoder + n /\ state = "active" /\ step = "idle" /\ UNCHANGED <<active, open, faults>>
    BY <2>1, WriteFact DEF write_event
  <2>3. open = active /\ active \in DOMAIN disk /\ disk[active].bytes = encoder
    BY <2>2 DEF Opened
  <2>4. disk'[active] = [bytes |-> encoder + n, events |-> TRUE] /\ active \in DOMAIN disk'
    BY <2>2, <2>3 DEF Grown
  <2> QED BY <2>2, <2>3, <2>4
<1>2. CASE write_event_fails \/ write_event_finished \/ finalize_fails \/ vars' = vars
  BY <1>2 DEF write_event_fails, write_event_finished, finalize_fails, vars, Opened, Fails
<1>3. CASE rotate_rename
  BY <1>3 DEF rotate_rename
<1>4. CASE rotate_rename_fails
  BY <1>4, IndexFacts DEF rotate_rename_fails, Opened, Fails
<1>5. CASE rotate_create \/ rotate_metadata_fails
  <2> DEFINE v == [bytes |-> HeaderSize, events |-> FALSE]
  <2>1. open' = active' /\ disk' = With(disk, active', v) /\ encoder' = HeaderSize
    BY <1>5 DEF rotate_create, rotate_metadata_fails
  <2>2. disk'[active'] = v /\ active' \in DOMAIN disk'
    BY <2>1, WithFact DEF Made
  <2> QED BY <2>1, <2>2
<1>6. CASE rotate_create_fails
  BY <1>6 DEF rotate_create_fails, Fails
<1>7. CASE evict_one
  <2>1. /\ step = "evict" /\ closed # <<>> /\ UNCHANGED <<active, open, encoder, step, state>>
        /\ disk' = disk \/ disk' = Without(disk, bin(Head(closed).index))
        /\ faults \subseteq faults'
    BY <1>7 DEF evict_one, Fails
  <2>2. open = active /\ active \in DOMAIN disk /\ disk[active].bytes = encoder
    BY <2>1 DEF Opened
  <2>3. ~active.sealed
    BY <2>1, IndexFacts DEF FinishInv
  <2>4. active # bin(Head(closed).index)
    BY <2>3, NamesApart
  <2>5. active \in DOMAIN disk' /\ disk'[active] = disk[active]
    BY <2>1, <2>2, <2>4, WithoutFact DEF Removed
  <2> QED BY <2>1, <2>2, <2>5
<1>8. CASE evict_done
  BY <1>8, IndexFacts DEF evict_done, Opened
<1>9. CASE finalize_seal \/ finalize_remove
  BY <1>9 DEF finalize_seal, finalize_remove, Finish
<1> QED BY <1>1, <1>2, <1>3, <1>4, <1>5, <1>6, <1>7, <1>8, <1>9 DEF Next, rotate, finalize

FilesInv == WriterInv /\ FinishInv /\ Gapless /\ Placed /\ Flagged /\ Opened

LEMMA FilesInvariant == Spec => []FilesInv
<1>1. Init => FinishInv /\ Placed /\ Flagged /\ Opened
  <2> SUFFICES ASSUME Init PROVE FinishInv /\ Placed /\ Flagged /\ Opened
    OBVIOUS
  <2>1. /\ active = active_path(0) /\ open = active /\ state = "active" /\ step = "idle" /\ has_real = FALSE
        /\ next_index = 1 /\ encoder = HeaderSize
        /\ DOMAIN disk = {active} /\ disk[active] = [bytes |-> HeaderSize, events |-> FALSE]
    BY DEF Init
  <2>2. active.index = 0 /\ ~active.sealed
    BY <2>1, NamesApart
  <2> QED BY <2>1, <2>2 DEF FinishInv, Placed, Flagged, Opened
<1>2. Init => Gapless
  BY DEF Init, Gapless
<1>3. FilesInv /\ WriterInv' /\ [Next]_vars => FilesInv'
  BY FinishInvNext, GaplessNext, PlacedNext, FlaggedNext, OpenedNext DEF FilesInv, WriterInv
<1> QED BY <1>1, <1>2, <1>3, WriterInvariant, PTL DEF Spec, FilesInv

-----------------------------------------------------------------------------
(* Properties of the sealed files *)

LEMMA EventsNext == FilesInv /\ SealedHasEvents /\ [Next]_vars => SealedHasEvents'
<1> SUFFICES ASSUME FilesInv, SealedHasEvents, [Next]_vars,
                    NEW n \in DOMAIN disk', n.sealed
             PROVE  disk'[n].events
  BY DEF SealedHasEvents
<1>1. TypeOK /\ FinishInv /\ Placed /\ Flagged
  BY DEF FilesInv, WriterInv
<1>2. ASSUME n \in DOMAIN disk, disk'[n] = disk[n] PROVE disk'[n].events
  BY <1>2 DEF SealedHasEvents
<1>3. CASE \E k \in EventSizes : write_event(k)
  <2>1. PICK k \in EventSizes : Grown(k)
    BY <1>1, <1>3, WriteFact
  <2> QED BY <1>2, <2>1 DEF Grown
<1>4. CASE UNCHANGED disk
  BY <1>2, <1>4
<1>5. CASE rotate_rename
  <2>1. Moved(active, bin(next_index - 1)) /\ active \in DOMAIN disk /\ step = "rename"
    BY <1>5, MoveFact DEF rotate_rename
  <2>2. disk[active].events
    BY <1>1, <2>1, IndexFacts DEF FinishInv, Flagged
  <2> QED BY <1>2, <2>1, <2>2 DEF Moved
<1>6. CASE rotate_create \/ rotate_create_fails \/ rotate_metadata_fails
  <2>1. disk' = disk \/ \E v : Made(active_path(next_index - 1), v)
    BY <1>6, WithFact DEF rotate_create, rotate_create_fails, rotate_metadata_fails
  <2> QED BY <1>2, <2>1, NamesApart DEF Made
<1>7. CASE evict_one \/ finalize_remove
  <2>1. disk' = disk \/ \E m : Removed(m)
    BY <1>7, WithoutFact DEF evict_one, finalize_remove
  <2> QED BY <1>2, <2>1 DEF Removed
<1>8. CASE finalize_seal
  <2>1. Moved(active, bin(next_index - 1)) /\ active \in DOMAIN disk /\ ~active.sealed /\ has_real
    BY <1>8, MoveFact DEF finalize_seal
  <2>2. disk[active].events
    BY <1>1, <2>1 DEF Flagged
  <2> QED BY <1>2, <2>1, <2>2 DEF Moved
<1>9. CASE \/ write_event_fails \/ write_event_finished \/ rotate_rename_fails \/ evict_done
           \/ finalize_fails \/ vars' = vars
  BY <1>4, <1>9 DEF write_event_fails, write_event_finished, rotate_rename_fails, evict_done, finalize_fails, vars
<1> QED BY <1>3, <1>5, <1>6, <1>7, <1>8, <1>9 DEF Next, rotate, finalize

\* A sealed file holds an event, whatever fails: the worker never reads an empty
\* segment.
THEOREM SealedHoldEvents == Spec => []SealedHasEvents
<1>1. Init => SealedHasEvents
  BY NamesApart DEF Init, SealedHasEvents
<1> QED BY <1>1, FilesInvariant, EventsNext, PTL DEF Spec

LEMMA SealedStep ==
    FilesInv /\ [Next]_vars =>
        [\A n \in DOMAIN disk \intersect DOMAIN disk' : "create" \notin faults => Unchanged(n)]_vars
<1> SUFFICES ASSUME FilesInv, Next, NEW n \in DOMAIN disk \intersect DOMAIN disk',
                    "create" \notin faults, n.sealed
             PROVE  disk'[n] = disk[n]
  BY DEF Unchanged
<1>1. TypeOK /\ FinishInv /\ Placed /\ Flagged /\ Opened
  BY DEF FilesInv, WriterInv
<1>2. CASE \E k \in EventSizes : write_event(k)
  <2>1. PICK k \in EventSizes : Grown(k) /\ state = "active" /\ step = "idle"
    BY <1>1, <1>2, WriteFact DEF write_event
  <2>2. open = active /\ ~active.sealed
    BY <1>1, <2>1, IndexFacts DEF Opened, FinishInv
  <2> QED BY <2>1, <2>2 DEF Grown
<1>3. CASE rotate_rename \/ finalize_seal
  <2>1. Moved(active, bin(next_index - 1)) /\ active \in DOMAIN disk /\ ~active.sealed
    BY <1>1, <1>3, MoveFact, IndexFacts DEF rotate_rename, finalize_seal, FinishInv
  <2>2. n.index < next_index - 1
    BY <1>1, <2>1 DEF Placed
  <2>3. n # bin(next_index - 1) /\ n # active
    BY <1>1, <2>1, <2>2, IndexFacts, NamesApart
  <2> QED BY <2>1, <2>3 DEF Moved
<1>4. CASE rotate_create \/ rotate_create_fails \/ rotate_metadata_fails
  <2>1. disk' = disk \/ \E v : Made(active_path(next_index - 1), v)
    BY <1>4, WithFact DEF rotate_create, rotate_create_fails, rotate_metadata_fails
  <2> QED BY <2>1, NamesApart DEF Made
<1>5. CASE evict_one \/ finalize_remove
  <2>1. disk' = disk \/ \E m : Removed(m)
    BY <1>5, WithoutFact DEF evict_one, finalize_remove
  <2> QED BY <2>1 DEF Removed
<1>6. CASE \/ write_event_fails \/ write_event_finished \/ rotate_rename_fails \/ evict_done \/ finalize_fails
  BY <1>6 DEF write_event_fails, write_event_finished, rotate_rename_fails, evict_done, finalize_fails
<1> QED BY <1>2, <1>3, <1>4, <1>5, <1>6 DEF Next, rotate, finalize

\* A sealed file stays as it is as long as files can be opened: the worker may read it
\* while the writer goes on.
THEOREM SealedStay == Spec => SealedImmutable
  BY FilesInvariant, SealedStep, PTL DEF Spec, SealedImmutable

LEMMA LossStep ==
    FilesInv /\ [Next]_vars =>
        [\A n \in DOMAIN disk \ DOMAIN disk' :
            disk[n].events => \/ ~n.sealed /\ bin(n.index) \in DOMAIN disk'
                              \/ closed # <<>> /\ n = bin(closed[1].index) /\ total_size > MaxTotalSize]_vars
<1> SUFFICES ASSUME FilesInv, Next, NEW n \in DOMAIN disk \ DOMAIN disk', disk[n].events
             PROVE  \/ ~n.sealed /\ bin(n.index) \in DOMAIN disk'
                    \/ closed # <<>> /\ n = bin(closed[1].index) /\ total_size > MaxTotalSize
  OBVIOUS
<1>1. TypeOK /\ FinishInv /\ Placed /\ Flagged
  BY DEF FilesInv, WriterInv
<1>2. CASE rotate_rename \/ finalize_seal
  <2>1. Moved(active, bin(next_index - 1)) /\ active \in DOMAIN disk /\ ~active.sealed
    BY <1>1, <1>2, MoveFact, IndexFacts DEF rotate_rename, finalize_seal, FinishInv
  <2>2. active.index = next_index - 1
    BY <1>1, <2>1 DEF Placed
  <2> QED BY <2>1, <2>2 DEF Moved
<1>3. CASE evict_one
  <2>1. closed # <<>> /\ total_size > MaxTotalSize /\ (disk' = disk \/ Removed(bin(Head(closed).index)))
    BY <1>3, WithoutFact DEF evict_one
  <2>2. Head(closed) = closed[1]
    BY <1>1, <2>1 DEF TypeOK
  <2> QED BY <2>1, <2>2 DEF Removed
<1>4. CASE finalize_remove
  <2>1. Removed(active) /\ ~active.sealed /\ ~has_real
    BY <1>4, WithoutFact DEF finalize_remove
  <2>2. n = active
    BY <2>1 DEF Removed
  <2> QED BY <1>1, <2>1, <2>2 DEF Flagged
<1>5. CASE \E k \in EventSizes : write_event(k)
  <2>1. PICK k \in EventSizes : Grown(k)
    BY <1>1, <1>5, WriteFact
  <2> QED BY <2>1 DEF Grown
<1>6. CASE rotate_create \/ rotate_create_fails \/ rotate_metadata_fails
  <2>1. disk' = disk \/ \E v : Made(active_path(next_index - 1), v)
    BY <1>6, WithFact DEF rotate_create, rotate_create_fails, rotate_metadata_fails
  <2> QED BY <2>1 DEF Made
<1>7. CASE \/ write_event_fails \/ write_event_finished \/ rotate_rename_fails \/ evict_done \/ finalize_fails
  BY <1>7 DEF write_event_fails, write_event_finished, rotate_rename_fails, evict_done, finalize_fails
<1> QED BY <1>2, <1>3, <1>4, <1>5, <1>6, <1>7 DEF Next, rotate, finalize

\* Events leave the directory by eviction alone, oldest segment first and only when the
\* budget is exceeded, whatever fails.
THEOREM OnlyEvictionLoses == Spec => OnlyEvictionLosesEvents
  BY FilesInvariant, LossStep, PTL DEF Spec, OnlyEvictionLosesEvents

-----------------------------------------------------------------------------
(* closed_files and the directory *)

OnDisk ==
    \A i \in DOMAIN closed :
        /\ bin(closed[i].index) \in DOMAIN disk
        /\ "create" \notin faults => disk[bin(closed[i].index)].bytes = closed[i].to - closed[i].from

NoOthers ==
    faults \intersect {"remove", "create"} = {} =>
        \A n \in DOMAIN disk : n = active \/ \E i \in DOMAIN closed : n = bin(closed[i].index)

LEMMA ClosedFacts ==
    ASSUME TypeOK, Gapless
    PROVE  /\ closed \in Seq(Closed) /\ Len(closed) \in Nat /\ DOMAIN closed = 1 .. Len(closed)
           /\ \A i \in DOMAIN closed : /\ closed[i].index \in Nat /\ closed[i].from \in Nat /\ closed[i].to \in Nat
                                       /\ closed[i].index <= next_index - 2
           /\ \A i, j \in DOMAIN closed : closed[i].index = closed[j].index => i = j
<1>1. closed \in Seq(Closed)
  BY DEF TypeOK, Closed
<1>2. Len(closed) \in Nat /\ DOMAIN closed = 1 .. Len(closed) /\ \A i \in DOMAIN closed : closed[i] \in Closed
  BY <1>1
<1>3. \A i \in DOMAIN closed : closed[i].index \in Nat /\ closed[i].from \in Nat /\ closed[i].to \in Nat
  BY <1>2 DEF Closed
<1>4. \A i \in DOMAIN closed : closed[i].index = closed[1].index + i - 1
  BY DEF Gapless
<1>5. ASSUME NEW i \in DOMAIN closed PROVE closed[i].index <= next_index - 2
  <2>1. 1 \in DOMAIN closed /\ Len(closed) \in DOMAIN closed /\ closed # <<>> /\ i <= Len(closed) /\ i \in Nat
    BY <1>1, <1>2, <1>5
  <2>2. closed[Len(closed)].index = next_index - 2
    BY <2>1 DEF Gapless
  <2>3. closed[Len(closed)].index = closed[1].index + Len(closed) - 1 /\ closed[i].index = closed[1].index + i - 1
    BY <1>4, <1>5, <2>1
  <2>4. closed[1].index \in Nat
    BY <1>3, <2>1
  <2> QED BY <1>2, <2>1, <2>2, <2>3, <2>4
<1>6. ASSUME NEW i \in DOMAIN closed, NEW j \in DOMAIN closed, closed[i].index = closed[j].index PROVE i = j
  <2>1. 1 \in DOMAIN closed /\ i \in Nat /\ j \in Nat
    BY <1>2, <1>6
  <2>2. closed[1].index + i - 1 = closed[1].index + j - 1 /\ closed[1].index \in Nat
    BY <1>3, <1>4, <1>6, <2>1
  <2> QED BY <2>1, <2>2
<1> QED BY <1>1, <1>2, <1>3, <1>5, <1>6

\* A step that enters and forgets no closed file: those that are there have to stay.
LEMMA OnDiskKept ==
    ASSUME OnDisk, closed' = closed, faults \subseteq faults',
           \A i \in DOMAIN closed :
              /\ bin(closed[i].index) \in DOMAIN disk'
              /\ "create" \notin faults' => disk'[bin(closed[i].index)] = disk[bin(closed[i].index)]
    PROVE  OnDisk'
  BY DEF OnDisk

LEMMA OnDiskNext == FilesInv /\ OnDisk /\ [Next]_vars => OnDisk'
<1> SUFFICES ASSUME FilesInv, OnDisk, [Next]_vars PROVE OnDisk'
  OBVIOUS
<1>1. TypeOK /\ FinishInv /\ Gapless /\ Placed /\ Flagged /\ Opened
  BY DEF FilesInv, WriterInv
<1>2. \A i \in DOMAIN closed : bin(closed[i].index).sealed /\ bin(closed[i].index) \in DOMAIN disk
  BY NamesApart DEF OnDisk
<1>3. faults \subseteq faults'
  BY DEF Next, rotate, finalize, write_event, write_event_fails, write_event_finished, rotate_rename,
         rotate_rename_fails, rotate_create, rotate_create_fails, rotate_metadata_fails, evict_one,
         evict_done, finalize_seal, finalize_remove, finalize_fails, Fails, vars
<1>4. CASE \E k \in EventSizes : write_event(k)
  <2>1. PICK k \in EventSizes : /\ Grown(k) /\ state = "active" /\ step = "idle"
                                /\ faults' = faults /\ closed' = closed
    BY <1>1, <1>4, WriteFact DEF write_event
  <2>2. "create" \notin faults => open = active /\ ~active.sealed
    BY <1>1, <2>1, IndexFacts DEF Opened, FinishInv
  <2> QED BY <1>2, <1>3, <2>1, <2>2, OnDiskKept DEF Grown
<1>5. CASE rotate_rename
  <2> DEFINE m == bin(next_index - 1)
             f == closed'[Len(closed) + 1]
  <2>1. Moved(active, m) /\ active \in DOMAIN disk /\ step = "rename" /\ faults' = faults
    BY <1>5, MoveFact DEF rotate_rename
  <2>2. ~active.sealed /\ state = "active"
    BY <1>1, <2>1, IndexFacts DEF FinishInv
  <2>3. closed' = Append(closed, f) /\ f.index = next_index - 1 /\ f.to = f.from + encoder
    BY <1>1, <1>5, ClosedFacts DEF rotate_rename
  <2>4. f.from \in Nat /\ encoder \in Nat
    <3>1. f.from = IF closed = <<>> THEN 0 ELSE closed[Len(closed)].to
      BY <1>1, <1>5, ClosedFacts DEF rotate_rename
    <3>2. closed # <<>> => Len(closed) \in DOMAIN closed
      BY <1>1, ClosedFacts
    <3>3. closed # <<>> => closed[Len(closed)].to \in Nat
      BY <1>1, <3>2, ClosedFacts
    <3> QED BY <1>1, <3>1, <3>3 DEF TypeOK
  <2> HIDE DEF f
  <2>5. /\ DOMAIN closed' = 1 .. (Len(closed) + 1) /\ closed'[Len(closed) + 1] = f
        /\ \A i \in DOMAIN closed : closed'[i] = closed[i]
    BY <1>1, <2>3, ClosedFacts
  <2>6. ASSUME NEW i \in DOMAIN closed
        PROVE  bin(closed[i].index) \in DOMAIN disk' /\ disk'[bin(closed[i].index)] = disk[bin(closed[i].index)]
    <3>1. closed[i].index # next_index - 1
      BY <1>1, <2>6, ClosedFacts, IndexFacts
    <3>2. bin(closed[i].index) # m /\ bin(closed[i].index) # active
      BY <1>2, <2>2, <2>6, <3>1, NamesApart
    <3> QED BY <1>2, <2>1, <2>6, <3>2 DEF Moved
  <2>7. m \in DOMAIN disk' /\ ("create" \notin faults => disk'[m].bytes = f.to - f.from)
    <3>1. "create" \notin faults => disk[active].bytes = encoder
      BY <1>1, <2>1, <2>2 DEF Opened
    <3>2. f.to - f.from = encoder
      BY <2>3, <2>4
    <3> QED BY <2>1, <3>1, <3>2 DEF Moved
  <2>8. ASSUME NEW i \in DOMAIN closed'
        PROVE  /\ bin(closed'[i].index) \in DOMAIN disk'
               /\ "create" \notin faults' => disk'[bin(closed'[i].index)].bytes = closed'[i].to - closed'[i].from
    <3>1. CASE i \in DOMAIN closed
      BY <2>1, <2>5, <2>6, <3>1 DEF OnDisk
    <3>2. CASE i = Len(closed) + 1
      BY <2>1, <2>3, <2>5, <2>7, <3>2
    <3>3. i \in DOMAIN closed \/ i = Len(closed) + 1
      BY <1>1, <2>5, <2>8, ClosedFacts
    <3> QED BY <3>1, <3>2, <3>3
  <2> QED BY <2>8 DEF OnDisk
<1>6. CASE rotate_create \/ rotate_create_fails \/ rotate_metadata_fails
  <2>1. closed' = closed /\ (disk' = disk \/ \E v : Made(active_path(next_index - 1), v))
    BY <1>6, WithFact DEF rotate_create, rotate_create_fails, rotate_metadata_fails
  <2> QED BY <1>2, <1>3, <2>1, OnDiskKept, NamesApart DEF Made
<1>7. CASE evict_one
  <2>1. /\ closed # <<>> /\ closed' = Tail(closed)
        /\ disk' = disk \/ Removed(bin(Head(closed).index))
    BY <1>7, WithoutFact DEF evict_one
  <2>2. Head(closed) = closed[1] /\ 1 \in DOMAIN closed
    BY <1>1, <2>1, ClosedFacts
  <2>3. \A i \in DOMAIN closed' : i + 1 \in DOMAIN closed /\ closed'[i] = closed[i + 1] /\ i + 1 # 1
    BY <1>1, <2>1, ClosedFacts
  <2>4. ASSUME NEW i \in DOMAIN closed'
        PROVE  /\ bin(closed'[i].index) \in DOMAIN disk'
               /\ disk'[bin(closed'[i].index)] = disk[bin(closed'[i].index)]
    <3>1. closed'[i].index # closed[1].index
      BY <1>1, <2>2, <2>3, <2>4, ClosedFacts
    <3>2. bin(closed'[i].index) \in DOMAIN disk
      BY <1>2, <2>3, <2>4
    <3>3. bin(closed'[i].index) # bin(Head(closed).index)
      BY <2>2, <3>1, NamesApart
    <3> QED BY <2>1, <3>2, <3>3 DEF Removed
  <2> QED BY <1>3, <2>3, <2>4 DEF OnDisk
<1>8. CASE finalize_seal
  <2>1. /\ Moved(active, bin(next_index - 1)) /\ ~active.sealed /\ closed' = closed
    BY <1>8, MoveFact DEF finalize_seal
  <2>2. ASSUME NEW i \in DOMAIN closed
        PROVE  bin(closed[i].index) \in DOMAIN disk' /\ disk'[bin(closed[i].index)] = disk[bin(closed[i].index)]
    <3>1. closed[i].index # next_index - 1
      BY <1>1, <2>2, ClosedFacts, IndexFacts
    <3>2. bin(closed[i].index) # bin(next_index - 1) /\ bin(closed[i].index) # active
      BY <1>2, <2>1, <2>2, <3>1, NamesApart
    <3> QED BY <1>2, <2>1, <2>2, <3>2 DEF Moved
  <2> QED BY <1>3, <2>1, <2>2, OnDiskKept
<1>9. CASE finalize_remove
  <2>1. Removed(active) /\ ~active.sealed /\ closed' = closed
    BY <1>9, WithoutFact DEF finalize_remove
  <2> QED BY <1>2, <1>3, <2>1, OnDiskKept DEF Removed
<1>10. CASE \/ write_event_fails \/ write_event_finished \/ rotate_rename_fails \/ evict_done
            \/ finalize_fails \/ vars' = vars
  <2>1. disk' = disk /\ closed' = closed
    BY <1>10 DEF write_event_fails, write_event_finished, rotate_rename_fails, evict_done, finalize_fails, vars
  <2> QED BY <1>2, <1>3, <2>1, OnDiskKept
<1> QED BY <1>4, <1>5, <1>6, <1>7, <1>8, <1>9, <1>10 DEF Next, rotate, finalize

LEMMA NoOthersNext == FilesInv /\ NoOthers /\ [Next]_vars => NoOthers'
<1> SUFFICES ASSUME FilesInv, NoOthers, [Next]_vars, faults' \intersect {"remove", "create"} = {},
                    NEW n \in DOMAIN disk'
             PROVE  n = active' \/ \E i \in DOMAIN closed' : n = bin(closed'[i].index)
  BY DEF NoOthers
<1>1. TypeOK /\ FinishInv /\ Gapless /\ Placed
  BY DEF FilesInv, WriterInv
<1>2. faults \subseteq faults'
  BY DEF Next, rotate, finalize, write_event, write_event_fails, write_event_finished, rotate_rename,
         rotate_rename_fails, rotate_create, rotate_create_fails, rotate_metadata_fails, evict_one,
         evict_done, finalize_seal, finalize_remove, finalize_fails, Fails, vars
<1>3. \A m \in DOMAIN disk : m = active \/ \E i \in DOMAIN closed : m = bin(closed[i].index)
  BY <1>2 DEF NoOthers
<1>4. CASE rotate_rename
  <2> DEFINE f == closed'[Len(closed) + 1]
  <2>1. Moved(active, bin(next_index - 1))
    BY <1>4, MoveFact DEF rotate_rename
  <2>2. closed' = Append(closed, f) /\ f.index = next_index - 1
    BY <1>1, <1>4, ClosedFacts DEF rotate_rename
  <2> HIDE DEF f
  <2>3. /\ DOMAIN closed' = 1 .. (Len(closed) + 1) /\ closed'[Len(closed) + 1].index = next_index - 1
        /\ \A i \in DOMAIN closed : i \in DOMAIN closed' /\ closed'[i] = closed[i]
        /\ Len(closed) + 1 \in DOMAIN closed'
    BY <1>1, <2>2, ClosedFacts
  <2>4. n = bin(next_index - 1) \/ n \in DOMAIN disk \ {active}
    BY <2>1 DEF Moved
  <2> QED BY <1>3, <2>3, <2>4
<1>5. CASE rotate_create \/ rotate_metadata_fails
  <2>1. /\ step = "create" /\ closed' = closed /\ \E v : Made(active', v)
    BY <1>5, WithFact DEF rotate_create, rotate_metadata_fails
  <2>2. active \notin DOMAIN disk
    BY <1>1, <2>1 DEF Placed
  <2> QED BY <1>3, <2>1, <2>2 DEF Made
<1>6. CASE evict_one
  <2>1. closed # <<>> /\ closed' = Tail(closed) /\ active' = active /\ Removed(bin(Head(closed).index))
    BY <1>6, WithoutFact DEF evict_one, Fails
  <2>2. Head(closed) = closed[1] /\ n \in DOMAIN disk /\ n # bin(closed[1].index)
    BY <1>1, <2>1, ClosedFacts DEF Removed
  <2>3. CASE n = active
    BY <2>1, <2>3
  <2>4. CASE \E i \in DOMAIN closed : n = bin(closed[i].index)
    <3>1. PICK i \in DOMAIN closed : n = bin(closed[i].index)
      BY <2>4
    <3>2. i # 1
      BY <2>2, <3>1
    <3>3. i - 1 \in DOMAIN closed' /\ closed'[i - 1] = closed[i]
      BY <1>1, <2>1, <3>1, <3>2, ClosedFacts
    <3> QED BY <3>1, <3>3
  <2> QED BY <1>3, <2>2, <2>3, <2>4
<1>7. CASE finalize_seal
  <2>1. Moved(active, active') /\ closed' = closed
    BY <1>7, MoveFact DEF finalize_seal
  <2> QED BY <1>3, <2>1 DEF Moved
<1>8. CASE finalize_remove
  <2>1. Removed(active) /\ closed' = closed /\ active' = active
    BY <1>8, WithoutFact DEF finalize_remove
  <2> QED BY <1>3, <2>1 DEF Removed
<1>9. CASE \E k \in EventSizes : write_event(k)
  <2>1. PICK k \in EventSizes : Grown(k) /\ closed' = closed /\ active' = active
    BY <1>1, <1>9, WriteFact DEF write_event
  <2> QED BY <1>3, <2>1 DEF Grown
<1>10. CASE \/ write_event_fails \/ write_event_finished \/ rotate_rename_fails \/ evict_done
            \/ finalize_fails \/ vars' = vars
  <2>1. disk' = disk /\ closed' = closed /\ active' = active
    BY <1>10 DEF write_event_fails, write_event_finished, rotate_rename_fails, evict_done, finalize_fails, vars
  <2> QED BY <1>3, <2>1
<1>11. CASE rotate_create_fails
  BY <1>11 DEF rotate_create_fails, Fails
<1> QED BY <1>4, <1>5, <1>6, <1>7, <1>8, <1>9, <1>10, <1>11 DEF Next, rotate, finalize

\* The closed files are on disk with the size the writer counts with, and as long as
\* removals and openings succeed nothing else is but the active file: what max_total_size
\* is held against is what the disk holds.
THEOREM TrackedAreOnDisk == Spec => []TrackedOnDisk
<1>1. Init => OnDisk /\ NoOthers
  <2> SUFFICES ASSUME Init PROVE OnDisk /\ NoOthers
    OBVIOUS
  <2>1. closed = <<>> /\ DOMAIN disk = {active} /\ DOMAIN closed = {}
    BY DEF Init
  <2> QED BY <2>1 DEF OnDisk, NoOthers
<1>2. TrackedOnDisk <=> OnDisk /\ NoOthers
  BY DEF TrackedOnDisk, OnDisk, NoOthers
<1> QED BY <1>1, <1>2, FilesInvariant, OnDiskNext, NoOthersNext, PTL DEF Spec
=============================================================================
