---------------------------- MODULE MCTracedTasks ----------------------------
(* Instances of TracedTasks for TLC. *)
EXTENDS TracedTasks

CONSTANTS w1, w2, b1, t1, t2, c1, c2
MCLocation == [t \in Tasks |-> t]
Scenario(spawned, start, end, park, unpark, samples, wake, waits, unread) ==
    [capacity |-> 2, spawned |-> spawned, channels |-> {c1}, waits |-> waits, unread |-> unread, toggles |-> 1, lost |-> 1,
     most |-> [k \in Kinds |-> CASE k = "PollStart" -> start [] k = "PollEnd" -> end [] k = "WorkerPark" -> park
                       [] k = "WorkerUnpark" -> unpark [] k = "QueueSample" -> samples [] k = "Wake" -> wake]]
\* wakes and one task, which is polled thrice or loses a batch, or waits for two channels
\* with every event written; polls without wakes; parks; parks and samples of the queue
Whole == [Scenario(1, 3, 2, 0, 0, 0, 2, 0, 0) EXCEPT !.lost = 0]
MCScenarios == {Whole, Scenario(1, 2, 2, 0, 0, 0, 2, 0, 0),
                [Whole EXCEPT !.channels = {c1, c2}, !.capacity = 1, !.toggles = 0],
                [Scenario(2, 2, 2, 0, 0, 0, 0, 0, 0) EXCEPT !.capacity = 1], Scenario(2, 3, 2, 0, 0, 0, 0, 0, 0),
                Scenario(0, 0, 0, 2, 2, 0, 0, 1, 1), Scenario(0, 0, 0, 1, 1, 2, 0, 0, 0)}
Symmetry == Permutations({w1, w2}) \union Permutations({t1, t2})
=============================================================================
