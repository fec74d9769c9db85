----------------------------- MODULE MCProfiler -----------------------------
(* Instances of Profiler for TLC: a byte is a bit. *)
EXTENDS Profiler

CONSTANTS w1, w2, b1
Field(offset, size, signed, chars, dynamic) ==
    [key |-> "field", offset |-> offset, size |-> size, signed |-> signed, chars |-> chars,
     dynamic |-> dynamic, common |-> FALSE]
\* an integer, an array of three, and a string whose data is behind the fixed part
MCFormat == << [key |-> "name", value |-> "event"], [key |-> "ID", value |-> 7],
               [Field(0, 1, FALSE, FALSE, FALSE) EXCEPT !.common = TRUE],
               Field(1, 2, TRUE, FALSE, FALSE), Field(Missing, 1, FALSE, FALSE, FALSE),
               Field(0, 3, FALSE, FALSE, FALSE), Field(3, 4, FALSE, FALSE, TRUE) >>
\* one with a string in its last cell, one that ends too early, one that points too far
Whole == <<1, 0, 1, 0, 1, 1, 1, 1>>
RawRecords == {Whole, <<1, 1>>, <<0, 1, 0, 1, 1, 1, 1, 0>>}
Clock == [event_source |-> "SwCpuClock", frequency_hz |-> 1, include_kernel |-> FALSE]
User == [include_kernel |-> FALSE]
Kernel == [include_kernel |-> TRUE]
InProgram == [kernel |-> <<>>, program |-> <<1>>]
Stacks == {InProgram, [kernel |-> <<2>>, program |-> <<1>>]}
Polls(n, m) ==
    [movers |-> {}, polls |-> n, samples |-> m, raws |-> {}, stacks |-> {InProgram}, refuses |-> FALSE,
     cpu_profiling |-> Clock, sched_events |-> User, online |-> << <<0, 0>> >>]
\* polls and samples, on two processors; a tracepoint, and records that wrap; threads that
\* start and stop, events that are refused, a frequency that is too high
MCScenarios ==
    { Polls(2, 1),
      [Polls(1, 1) EXCEPT !.online = << <<0, 0>>, <<2, 2>> >>],
      [Polls(0, 2) EXCEPT !.raws = RawRecords, !.sched_events = Kernel, !.stacks = Stacks,
                          !.cpu_profiling.event_source = "Tracepoint"],
      [Polls(0, 2) EXCEPT !.cpu_profiling.include_kernel = TRUE, !.stacks = Stacks],
      [Polls(1, 1) EXCEPT !.movers = {w1}, !.refuses = TRUE],
      [Polls(1, 1) EXCEPT !.movers = {b1}],
      [Polls(0, 1) EXCEPT !.movers = {w1, w2}, !.cpu_profiling.frequency_hz = 2] }
Symmetry == Permutations({w1, w2})
=============================================================================
