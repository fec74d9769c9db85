--------------------------- MODULE SegmentSource ----------------------------
(***************************************************************************)
(* What the trace writer (telemetry/writer.rs) promises to whoever reads   *)
(* the directory: sealed segments appear in order of their index, and the  *)
(* oldest that the writer remembers may go.  RotatingWriter implements     *)
(* this, and SegmentWorker runs against it.                                *)
(***************************************************************************)
EXTENDS Naturals, Sequences

VARIABLES
    files,       \* the indices of the sealed segments on disk
    closed,      \* the segments that eviction may remove, oldest first
    next_index,  \* one more than the index of the segment being written
    phase        \* idle, opening (after a seal), evicting or finished

source == <<files, closed, next_index, phase>>

SourceInit == files = {} /\ closed = <<>> /\ next_index = 1 /\ phase = "idle"

\* The segment being written is sealed.
Seal ==
    /\ phase = "idle" /\ phase' = "opening"
    /\ files' = files \union {next_index - 1}
    /\ closed' = Append(closed, next_index - 1)
    /\ next_index' = next_index + 1

\* The next segment is opened, or could not be and eviction is left out.
Open ==
    /\ phase = "opening" /\ phase' \in {"evicting", "idle"}
    /\ UNCHANGED <<files, closed, next_index>>

\* The oldest segment is removed, unless somebody else did or it cannot be.
Evict ==
    /\ phase = "evicting" /\ closed # <<>>
    /\ closed' = Tail(closed)
    /\ files' \in {files, files \ {Head(closed)}}
    /\ UNCHANGED <<next_index, phase>>

EvictionEnds ==
    /\ phase = "evicting" /\ phase' \in {"idle", "finished"}
    /\ UNCHANGED <<files, closed, next_index>>

\* The writer stops; its last segment is sealed if there is an event in it.
Finish ==
    /\ phase = "idle" /\ phase' = "finished"
    /\ files' \in {files, files \union {next_index - 1}}
    /\ UNCHANGED <<closed, next_index>>

SourceNext == Seal \/ Open \/ Evict \/ EvictionEnds \/ Finish

SourceSpec == SourceInit /\ [][SourceNext]_source
=============================================================================
