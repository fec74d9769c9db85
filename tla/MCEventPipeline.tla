-------------------------- MODULE MCEventPipeline --------------------------
(* Instances of EventPipeline for TLC: Main, one worker, the flush thread. *)
EXTENDS EventPipeline, TLC

CONSTANTS main, w, flusher

\* Main fills the queue and comes back to it, the others interfere with it.
SafetyEvents == main :> 4 @@ w :> 1 @@ flusher :> 1
\* Every thread hands one batch over.
LiveEvents == main :> 1 @@ w :> 1 @@ flusher :> 1
=============================================================================
