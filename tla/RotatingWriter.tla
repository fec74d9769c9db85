--------------------------- MODULE RotatingWriter ---------------------------
(***************************************************************************)
(* RotatingWriter (telemetry/writer.rs): the segment being written, the    *)
(* closed segments the writer tracks, and the directory they live in.      *)
(*                                                                         *)
(* Bytes are those the encoder accepted (bytes_written).  The steps of     *)
(* rotate that another process can observe, and at which an I/O error can  *)
(* leave the rotation half done, are steps of the model.                   *)
(***************************************************************************)
EXTENDS Integers, Sequences, FiniteSetsExt

CONSTANTS
    MaxFileSize,    \* max_file_size
    MaxTotalSize,   \* max_total_size
    HeaderSize,     \* the header and the metadata that open every segment
    EventSizes,     \* sizes of an event, or of a batch for write_event_batch
    Faults,         \* the I/O operations that may fail
    MaxSegments,    \* bound: segments opened
    MaxBytes        \* bound: bytes of one segment, and events refused

ASSUME SizeAssumption ==
    /\ MaxFileSize \in Nat /\ MaxTotalSize \in Nat /\ HeaderSize \in Nat \ {0}
    /\ EventSizes \subseteq Nat \ {0} /\ MaxSegments \in Nat /\ MaxBytes \in Nat

FaultKinds == {"write", "flush", "rename", "create", "metadata", "remove"}

VARIABLES
    disk,        \* the files of this trace: for each name its bytes and whether events are among them
    closed,      \* closed_files, oldest first; a file spans from..to in the stream of closed bytes
    active,      \* active_path
    open,        \* the name under which the encoder's file is, if it has one
    encoder,     \* bytes_written of the encoder
    state,       \* WriterState
    next_index,
    has_real,    \* has_real_events
    dropped_events,
    step,        \* where in rotate the writer is, idle between two calls
    faults       \* ghost: the operations that have failed

vars == <<disk, closed, active, open, encoder, state, next_index, has_real, dropped_events, step, faults>>

bin(i)    == [index |-> i, sealed |-> TRUE]   \* file_path
active_path(i) == [index |-> i, sealed |-> FALSE]
NoFile    == [index |-> -1, sealed |-> TRUE]

\* f with name n bound to v, and f without name n
With(f, n, v)  == [m \in DOMAIN f \union {n} |-> IF m = n THEN v ELSE f[m]]
Without(f, n)  == [m \in DOMAIN f \ {n} |-> f[m]]

\* The bytes of closed_files, which lie end to end.
ClosedBytes == IF closed = <<>> THEN 0 ELSE closed[Len(closed)].to - closed[1].from
total_size  == ClosedBytes + IF state = "active" THEN encoder ELSE 0

Fails(k) == k \in Faults /\ faults' = faults \union {k}

\* create: the first segment, opened in an empty directory
Init ==
    /\ disk = [n \in {active_path(0)} |-> [bytes |-> HeaderSize, events |-> FALSE]]
    /\ closed = <<>> /\ active = active_path(0) /\ open = active /\ encoder = HeaderSize
    /\ state = "active" /\ next_index = 1 /\ has_real = FALSE /\ dropped_events = 0
    /\ step = "idle" /\ faults = {}

-----------------------------------------------------------------------------
(* Writing *)

\* variant: the flag that there are events is not set
write_event_unflagged(n) ==
    /\ step = "idle" /\ state = "active"
    /\ encoder + n <= MaxBytes /\ (encoder + n > MaxFileSize => next_index < MaxSegments)
    /\ encoder' = encoder + n
    /\ disk' = IF open = NoFile THEN disk
               ELSE [disk EXCEPT ![open] = [bytes |-> @.bytes + n, events |-> TRUE]]
    /\ step' = IF encoder' > MaxFileSize THEN "rename" ELSE "idle"
    /\ UNCHANGED <<closed, active, open, state, next_index, has_real, dropped_events, faults>>

\* write_resolved: an event of n bytes, then maybe_rotate
write_event(n) ==
    /\ step = "idle" /\ state = "active"
    /\ encoder + n <= MaxBytes /\ (encoder + n > MaxFileSize => next_index < MaxSegments)
    /\ encoder' = encoder + n /\ has_real' = TRUE
    /\ disk' = IF open = NoFile THEN disk
               ELSE [disk EXCEPT ![open] = [bytes |-> @.bytes + n, events |-> TRUE]]
    /\ step' = IF encoder' > MaxFileSize THEN "rename" ELSE "idle"
    /\ UNCHANGED <<closed, active, open, state, next_index, dropped_events, faults>>

write_event_fails ==
    /\ step = "idle" /\ state = "active"
    /\ Fails("write")
    /\ UNCHANGED <<disk, closed, active, open, encoder, state, next_index, has_real, dropped_events, step>>

write_event_finished ==
    /\ step = "idle" /\ state = "finished"
    /\ dropped_events < MaxBytes /\ dropped_events' = dropped_events + 1
    /\ UNCHANGED <<disk, closed, active, open, encoder, state, next_index, has_real, step, faults>>

-----------------------------------------------------------------------------
(* rotate *)

\* variant: the index moves on before the name of the sealed file is built
rotate_rename_late_name ==
    /\ step = "rename" /\ active \in DOMAIN disk
    /\ LET sealed == bin(next_index)
           from   == IF closed = <<>> THEN 0 ELSE closed[Len(closed)].to
       IN  /\ disk' = With(Without(disk, active), sealed, disk[active])
           /\ closed' = Append(closed, [index |-> next_index - 1, from |-> from, to |-> from + encoder])
           /\ open' = IF open = active THEN sealed ELSE NoFile
    /\ next_index' = next_index + 1 /\ step' = "create"
    /\ UNCHANGED <<active, encoder, state, has_real, dropped_events, faults>>

\* flush, rename to .bin and enter the file in closed_files.  The encoder keeps
\* its file, which now has the sealed name; a file that had it is gone.
rotate_rename ==
    /\ step = "rename" /\ active \in DOMAIN disk
    /\ LET sealed == bin(next_index - 1)
           from   == IF closed = <<>> THEN 0 ELSE closed[Len(closed)].to
       IN  /\ disk' = With(Without(disk, active), sealed, disk[active])
           /\ closed' = Append(closed, [index |-> next_index - 1, from |-> from, to |-> from + encoder])
           /\ open' = IF open = active THEN sealed ELSE NoFile
    /\ next_index' = next_index + 1 /\ step' = "create"
    /\ UNCHANGED <<active, encoder, state, has_real, dropped_events, faults>>

\* flush or rename fails; rename does when there is no active file
rotate_rename_fails ==
    /\ step = "rename" /\ step' = "idle"
    /\ \/ Fails("flush") \/ Fails("rename")
       \/ active \notin DOMAIN disk /\ UNCHANGED faults
    /\ UNCHANGED <<disk, closed, active, open, encoder, state, next_index, has_real, dropped_events>>

\* the next segment: File::create, a new encoder, the segment's metadata
rotate_create ==
    /\ step = "create" /\ step' = "evict"
    /\ active' = active_path(next_index - 1) /\ open' = active'
    /\ disk' = With(disk, active', [bytes |-> HeaderSize, events |-> FALSE])
    /\ encoder' = HeaderSize /\ has_real' = FALSE
    /\ UNCHANGED <<closed, state, next_index, dropped_events, faults>>

\* File::create or the encoder's header fails: the old encoder stays in place
rotate_create_fails ==
    /\ step = "create" /\ step' = "idle"
    /\ Fails("create")
    /\ disk' \in {disk, With(disk, active_path(next_index - 1), [bytes |-> 0, events |-> FALSE])}
    /\ UNCHANGED <<closed, active, open, encoder, state, next_index, has_real, dropped_events>>

\* the metadata of the new segment fails: evict_oldest is not reached
rotate_metadata_fails ==
    /\ step = "create" /\ step' = "idle"
    /\ Fails("metadata")
    /\ active' = active_path(next_index - 1) /\ open' = active'
    /\ disk' = With(disk, active', [bytes |-> HeaderSize, events |-> FALSE])
    /\ encoder' = HeaderSize /\ has_real' = FALSE
    /\ UNCHANGED <<closed, state, next_index, dropped_events>>

\* variant: the newest closed file is evicted
evict_one_newest ==
    /\ step = "evict"
    /\ total_size > MaxTotalSize /\ closed # <<>>
    /\ closed' = SubSeq(closed, 1, Len(closed) - 1)
    /\ \/ disk' = Without(disk, bin(closed[Len(closed)].index)) /\ UNCHANGED faults
       \/ Fails("remove") /\ UNCHANGED disk
    /\ UNCHANGED <<active, open, encoder, state, next_index, has_real, dropped_events, step>>

\* one round of the loop of evict_oldest: a file that cannot be removed is
\* forgotten all the same
evict_one ==
    /\ step = "evict"
    /\ total_size > MaxTotalSize /\ closed # <<>>
    /\ closed' = Tail(closed)
    /\ \/ disk' = Without(disk, bin(Head(closed).index)) /\ UNCHANGED faults
       \/ Fails("remove") /\ UNCHANGED disk
    /\ UNCHANGED <<active, open, encoder, state, next_index, has_real, dropped_events, step>>

\* variant: the loop stops when two closed files are left
evict_done_keeps_two ==
    /\ step = "evict" /\ step' = "idle"
    /\ total_size <= MaxTotalSize \/ Len(closed) <= 2
    /\ state' = IF total_size > MaxTotalSize /\ closed = <<>> THEN "finished" ELSE state
    /\ open' = IF state' = "finished" THEN NoFile ELSE open
    /\ UNCHANGED <<disk, closed, active, encoder, next_index, has_real, dropped_events, faults>>

\* the end of evict_oldest: a segment that exceeds the budget by itself is the last
evict_done ==
    /\ step = "evict" /\ step' = "idle"
    /\ total_size <= MaxTotalSize \/ closed = <<>>
    /\ state' = IF total_size > MaxTotalSize THEN "finished" ELSE state
    /\ open' = IF state' = "finished" THEN NoFile ELSE open
    /\ UNCHANGED <<disk, closed, active, encoder, next_index, has_real, dropped_events, faults>>

-----------------------------------------------------------------------------
(* finalize: the segment is sealed, or removed when no event is in it *)

Finish == state' = "finished" /\ open' = NoFile

\* variant: an empty segment is sealed like any other
finalize_seals_all ==
    /\ step = "idle" /\ ~active.sealed
    /\ active \in DOMAIN disk
    /\ active' = bin(next_index - 1)
    /\ disk' = With(Without(disk, active), active', disk[active])
    /\ Finish
    /\ UNCHANGED <<closed, encoder, next_index, has_real, dropped_events, step, faults>>

finalize_seal ==
    /\ step = "idle" /\ ~active.sealed
    /\ has_real /\ active \in DOMAIN disk
    /\ active' = bin(next_index - 1)
    /\ disk' = With(Without(disk, active), active', disk[active])
    /\ Finish
    /\ UNCHANGED <<closed, encoder, next_index, has_real, dropped_events, step, faults>>

\* variant: the writer keeps its encoder after the removal
finalize_remove_stays_open ==
    /\ step = "idle" /\ ~active.sealed
    /\ ~has_real
    /\ disk' = Without(disk, active)
    /\ UNCHANGED <<closed, active, open, encoder, state, next_index, has_real, dropped_events, step, faults>>

finalize_remove ==
    /\ step = "idle" /\ ~active.sealed
    /\ ~has_real
    /\ disk' = Without(disk, active)
    /\ Finish
    /\ UNCHANGED <<closed, active, encoder, next_index, has_real, dropped_events, step, faults>>

\* the flush, the rename or the removal fails and finalize returns early
finalize_fails ==
    /\ step = "idle"
    /\ \/ state = "active" /\ Fails("flush")
       \/ ~active.sealed /\ has_real /\ Fails("rename")
       \/ ~active.sealed /\ has_real /\ active \notin DOMAIN disk /\ UNCHANGED faults
       \/ ~active.sealed /\ ~has_real /\ Fails("remove")
    /\ UNCHANGED <<disk, closed, active, open, encoder, state, next_index, has_real, dropped_events, step>>

-----------------------------------------------------------------------------
rotate == \/ rotate_rename \/ rotate_rename_fails \/ rotate_create \/ rotate_create_fails
          \/ rotate_metadata_fails \/ evict_one \/ evict_done

finalize == finalize_seal \/ finalize_remove \/ finalize_fails

Next ==
    \/ \E n \in EventSizes : write_event(n)
    \/ write_event_fails \/ write_event_finished
    \/ rotate \/ finalize

Spec == Init /\ [][Next]_vars

-----------------------------------------------------------------------------
(* What the worker sees of this: the sealed files, in the phases of SegmentSource *)

SealedFiles == {n.index : n \in {m \in DOMAIN disk : m.sealed}}
ClosedIndices == [i \in DOMAIN closed |-> closed[i].index]
Phase == IF state = "finished" THEN "finished"
         ELSE CASE step = "create" -> "opening" [] step = "evict" -> "evicting" [] OTHER -> "idle"

Source == INSTANCE SegmentSource WITH files <- SealedFiles, closed <- ClosedIndices, phase <- Phase

\* Whatever fails, the directory changes as SegmentSource says: sealed segments appear
\* in order, one at a time, and only the oldest remembered one disappears.
ImplementsSource == Source!SourceSpec

-----------------------------------------------------------------------------
(* Properties *)

Names == [index : Nat, sealed : BOOLEAN]
FileData == [bytes : Nat, events : BOOLEAN]

\* The variables have their types, and closed_files lie end to end.
TypeOK ==
    /\ DOMAIN disk \subseteq Names /\ \A n \in DOMAIN disk : disk[n] \in FileData
    /\ closed \in Seq([index : Nat, from : Nat, to : Nat])
    /\ \A i \in DOMAIN closed : closed[i].from < closed[i].to
    /\ \A i \in DOMAIN closed \ {1} : closed[i].from = closed[i - 1].to
    /\ active \in Names /\ open \in DOMAIN disk \union {NoFile}
    /\ encoder \in Nat \ {0} /\ state \in {"active", "finished"} /\ next_index \in Nat \ {0}
    /\ has_real \in BOOLEAN /\ dropped_events \in Nat /\ faults \subseteq FaultKinds
    /\ step \in {"idle", "rename", "create", "evict"} /\ (step # "idle" => state = "active")

\* The closed files are a gapless run of segments that ends with the last one
\* rotated out: however removals and renames fail, eviction drops the oldest and
\* nothing else, so the most recent history is what remains.
Gapless ==
    /\ \A i \in DOMAIN closed : closed[i].index = closed[1].index + i - 1
    /\ closed # <<>> => closed[Len(closed)].index = next_index - 2

\* What closed_files says is on disk is, with the size it says unless an opening
\* failed; and no other file is, but the current segment, unless a removal or an
\* opening failed.
TrackedOnDisk ==
    /\ \A i \in DOMAIN closed :
          /\ bin(closed[i].index) \in DOMAIN disk
          /\ "create" \notin faults =>
                 disk[bin(closed[i].index)].bytes = closed[i].to - closed[i].from
    /\ faults \intersect {"remove", "create"} = {} =>
          \A n \in DOMAIN disk : n = active \/ \E i \in DOMAIN closed : n = bin(closed[i].index)

\* Every sealed segment holds an event: the worker is never given an empty one.
SealedHasEvents == \A n \in DOMAIN disk : n.sealed => disk[n].events

\* A segment that holds events leaves the disk only as the oldest closed one, when
\* the total exceeds the budget.
OnlyEvictionLosesEvents ==
    [][\A n \in DOMAIN disk \ DOMAIN disk' :
          disk[n].events => \/ ~n.sealed /\ bin(n.index) \in DOMAIN disk'
                            \/ closed # <<>> /\ n = bin(closed[1].index) /\ total_size > MaxTotalSize]_vars

\* A sealed segment never changes, unless a file could not be opened: the worker
\* may read it at any time.
Unchanged(n) == n.sealed => disk'[n] = disk[n]
SealedImmutable ==
    [][\A n \in DOMAIN disk \intersect DOMAIN disk' : "create" \notin faults => Unchanged(n)]_vars

\* As long as no I/O fails, the segments exceed max_total_size by at most one
\* full segment and the event that overfilled it: eviction runs only in rotate.
Larger(a, b) == IF a > b THEN a ELSE b
Held  == ClosedBytes + IF step = "create" THEN 0 ELSE encoder
Limit == Larger(MaxTotalSize, HeaderSize) + Larger(HeaderSize, MaxFileSize)
BudgetBound == faults = {} => \E e \in EventSizes \union {0} : Held <= Limit + e

\* The design says: "Write to `.bin.active`, rename to `.bin` when complete".
SealedComplete == [][\A n \in DOMAIN disk \intersect DOMAIN disk' : Unchanged(n)]_vars

\* The README says of max_total_size(5 * 1024 * 1024): "keep at most 5 MiB on disk".
DiskUsage == MapThenSumSet(LAMBDA n : disk[n].bytes, DOMAIN disk)
DiskWithinBudget == DiskUsage <= MaxTotalSize
=============================================================================
