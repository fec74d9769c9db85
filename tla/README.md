# A TLA+ verification of dial9-tokio-telemetry

`dial9-tokio-telemetry` records what a Tokio runtime does (polls, parks, spawns,
wakes, CPU samples) into a trace on disk, and a background worker symbolizes,
compresses and uploads the trace's segments. These modules model the parts of it
that are concurrent, that fail half way or that run against a limit, and the
algorithms that are easy to get wrong. TLC checks them, and TLAPS proves the central
properties for every value of the constants.

Paths below are relative to `src/dial9-tokio-telemetry/src/` unless they name a crate.

## Inventory

| Component | State | Operations | Interacts with | Must hold |
|---|---|---|---|---|
| Thread-local buffers (`telemetry/buffer.rs`) | one `Vec` of events per thread | `record_event`, `drain_to_collector`, drop at thread end | hands batches to the collector | bounded; order kept |
| Central collector (`telemetry/collector.rs`) | bounded lock-free queue of batches, counter of dropped batches | `accept_flush` (evicts the oldest), `next`, `take_dropped_batches` | all threads push, the flush thread pops | order kept; every eviction counted |
| Flush thread (`telemetry/recorder/mod.rs`) | its loop, the batch in hand | wait for a command, sample the queue, `flush_once`, `finalize`, acknowledge | collector, writer, guard | everything handed over is written or accounted for |
| Guard and handle (`telemetry/recorder/mod.rs`) | `enabled`, control channel, join handles | `enable`, `disable`, `graceful_shutdown`, `drop` | flush thread by channel and rendezvous, worker by oneshot | stopping returns, and settles what was handed over |
| Trace writer (`telemetry/writer.rs`) | the open segment, `closed_files`, indices, `WriterState` | `write_event`, `write_event_batch`, `rotate`, `evict_oldest`, `finalize` | the directory, which the worker scans | sealed segments complete and immutable; most recent history kept; bounded |
| Segment worker (`background_task/mod.rs`, `sealed.rs`, `connection.rs`) | processors, poll loop, stop token, circuit breaker | scan, read, process, remove | the directory, S3, the guard | no segment lost or uploaded in halves; stops |
| Hooks and traced futures (`telemetry/recorder/shared_state.rs`, `traced.rs`) | per-thread caches, `thread_roles`, an `AtomicWaker` per task | hooks of the runtime, `poll`, `wake` | executor, buffers | no wake-up lost; a thread has its role |
| Task dumps (`task_dump.rs`) | wheel of sentinels, counts | `tick`, `poll`, drop | executor | a slow task is reported, a finished one not |
| Trace format (`dial9-trace-format`) | string pool, schema registry, timestamp base on both sides | `write`, `intern_string`, `reset_to`, decode, `into_encoder` | writer, worker, readers | the decoder's state follows the encoder's |
| Profilers (`perf-self-profile`, `telemetry/cpu_profile.rs`) | rings, tracked threads | track, stop, drain | kernel, flush thread | every record read once and whole, with its thread |
| Symbolization (`perf-self-profile/src/symbolize.rs`, `offline_symbolize.rs`) | the memory map | one address at run time; all addresses of a trace, appended to it | worker, blazesym | the stream stays readable; both find the same |
| Event types and reader (`telemetry/format.rs`, `analysis.rs`, `dial9-trace-format-derive`) | tables of locations, spawns, names | derived schemas, `write_resolved`, `TraceReader::new` | writer, analysis | what was recorded is read |
| Analysis (`telemetry/analysis.rs`) | none | pure functions over events | - | what is reported happened |

What is hard here: hooks run on every runtime thread and share only atomics and a
lock-free queue; eviction and its counter are two steps; a write error returns from
the middle of a batch; the stop protocol runs twice; a rotation is five I/O
operations and any of them may fail; the writer and the worker share a directory with
no lock, and a restarted program the names of the one before; frames of the trace
carry no length, so that one wrong number makes nonsense of the rest; samples come
out of other buffers than polls and must be found in them by time. The hazards are
listed at their lines in `PROJECT.json`, with the properties that cover them.

## Modules

| Module | Models | Extends or uses |
|---|---|---|
| `EventPipeline` | buffers, collector, flush thread, guard | |
| `RotatingWriter` | the writer and its directory | |
| `SegmentSource` | what the writer promises to a reader of the directory | implemented by `RotatingWriter`, used by `SegmentWorker` |
| `SegmentWorker` | the background worker, its processors, stop and restart | `SegmentSource` |
| `TraceCodec`, `TraceDecoder` | the wire format; the decoder and its three readers | |
| `TraceEvents` | the events as structs, what the writer makes of them, `TraceReader` | `TraceDecoder` |
| `Symbolizer` | the memory map, symbols at run time and offline | `TraceEvents` |
| `TraceStream` | the encoder, taking up a stream, symbolizing, failed writes | `Symbolizer` |
| `TraceAnalysis` | the functions of `analysis.rs` | |
| `TracedTasks` | hooks, wakers, and what the analysis finds in the trace of them | `TraceAnalysis` |
| `PerfRing`, `Tracepoint` | the ring of perf records; fields of tracepoints | |
| `Profiler` | profilers, thread roles, attribution of samples | `PerfRing`, `Tracepoint`, `TraceAnalysis` |
| `LongPolls` | task dumps of long waits | |
| `…Proofs` | theorems | |
| `MC…` | instances for TLC | |

### EventPipeline

The path of an event from a hook to the writer. An event is the thread that recorded
it and its number on that thread. Steps are the shared operations: the load of
`enabled` (`Hook`) is apart from the push that follows (`record_event`), `force_push`
(`accept_flush`) is apart from the `fetch_add` that counts an eviction
(`CountEviction`), and a thread between the two does nothing else. The flush thread's
program counter `fpc` walks through the loop of `recorder/mod.rs:592-640` with
`flush_once` inlined: `recv`, `sample`, `drain`, `take`, `next`, `write`, `end`, `ack`.
The guard's `gpc` walks through `stop_flush_thread`, at most twice (`passes`), since
`graceful_shutdown` consumes the guard and its `Drop` stops the thread again. The
channel holds one command; the acknowledgement is a joint step of both threads, as a
channel of capacity 0 is.

The writer is seen through its results. `Ok` may mean written or dropped by a writer
that has stopped (`WriteOk`), and the writer may stop in the rotation after a write.
`Err` may come before the event was written, or after it, when the rotation fails
(`WriteErr`). The receive error for a lost sender does not occur: the guard holds a
sender and sends before it drops it. Ghost variables follow each event to one of the
places where it can end.

| Code | Model |
|---|---|
| `SharedState::record_event` | `Hook` (the load), `record_event` (the rest) |
| `buffer::record_event`, `drain_to_collector`, `Drop` | `buffer_record_event`, `drain_to_collector`, `ThreadExit` |
| `CentralCollector` | `accept_flush` + `CountEviction`, `next`, `take_dropped_batches` |
| `flush_once` | `DrainOwn`, `take_dropped_batches`, `next`, `WriteOk`, `WriteErr` |
| flush loop | `recv_timeout`, `record_queue_sample` or `SkipSample`, `finalize`, `Ack` |
| `stop_flush_thread` | `StopBegin`, `SendStop`, `Ack`, `Join` |

### RotatingWriter and SegmentSource

The writer and its directory. The directory `disk` maps names to a size and to whether
events are in the file; `open` is the name under which the encoder's file is known to
the directory, which differs from `active_path` after a failed rotation. `step` is the
point inside `rotate`: renaming, creating, evicting. Every I/O operation may fail when
`Faults` allows it, with the early return the code takes there; `faults` remembers
which kinds have. A closed file is kept as the range it covers in the stream of closed
bytes, so that the sum of sizes that `total_size` computes is a difference.
`write_event(n)` stands for an event of n bytes or, with the sum of the sizes, for a
batch: both rotate once, after the last byte. What the encoder writes is not looked
into here (`TraceStream` does); a header and its metadata take `HeaderSize` bytes.

`EventPipeline` uses of this module only that a write may succeed, fail before or
after the event, or be dropped by a finished writer; these are the outcomes of
`write_event`, `write_event_fails`, the failing steps of `rotate` and
`write_event_finished`.

`SegmentSource` is the abstract writer: sealed segments appear in the order of their
index and the oldest that is remembered may go. `RotatingWriter` implements it under
the mapping `files <- sealed names on disk`, `closed <- their indices in
closed_files`, `phase <- step and state` (`ImplementsSource`, checked and proved), and
it is the environment of `SegmentWorker`, where the sealed files are those of the
directory that both share.

### SegmentWorker

The directory `dir` maps an index to what the file of that name holds: which segment,
whether symbolized, compressed and whole. Since names are all that writer and worker
share, the model can say what happens when a name has come to mean another segment.
A step of the worker is what another party can observe, or a point where the future
awaits: there `Notice` (the select sees the guard's signal) and `TimedOut` (the drain
timeout drops the future, and a blocking operation it started goes on) come in.
`Restart` may come at any step and keeps the directory and the objects in S3.

Before its loop the worker is built: the builders decide whether there is a worker at
all and with which processors (`NeedWorker`, `BuildPipeline`), and the region of the
bucket is asked for (`detect_bucket_region`, which falls back to a fixed one when the
bucket does not say). The select is entered after that, so that a shutdown waits for it. An
object's key is made of what a segment carries: its index and its second of creation,
which is the time of the file after a restart (`object_key`); objects with one key
replace each other. Segments that were discarded and those that were evicted end in one
set, `given_up`; the breaker has no clock: once its back-off is above zero a retry may
or may not be due (`should_attempt`).

| Code | Model |
|---|---|
| `WorkerLoop::run`, `process_open_segments` | `find_sealed_segments`, `SkipSegment`, `ReadSegment`, `EndCycle`, `Wake` |
| the processors | `Symbolize`, `Gzip`, `OpenForWrite` + `WriteBack`, `BeginUpload` + `Uploaded` + `RemoveUploaded`, and their failures |
| the error path of a processor | `GiveUp` |
| `CircuitBreaker` | `should_attempt`, `on_success`, `on_failure` |
| `run_background_task`, `graceful_shutdown`, `drop` | `Stop`, `Notice`, `TimedOut` |
| the builders of `recorder/mod.rs` and `S3Config` | `Builders`, `NeedWorker`, `worker_config` |
| `build_pipeline`, `detect_bucket_region`, `object_key` | the operators of these names, `Arrives` |

### TraceCodec, TraceDecoder, TraceEvents, Symbolizer, TraceStream

A stream is a sequence of numbers. Fixed-width integers and single bytes of a text are
one number each, a varint is one number per byte with a small radix, so that sums that
do not fit in the width and varints that are too long exist in a small instance.
Decoding works on any sequence of numbers: `Some`, `None` and `Panic` are the outcomes
the code has. The two ways of decoding a field, owned and by reference, are apart,
because they differ (a text that is not UTF-8, a map that is cut short), and so are
the three readers of `Decoder`.

`TraceEvents` has the ten structs of the telemetry and the types their fields have on
the wire, the narrowing casts on both sides (`write_resolved`, `Narrowed`), the derived
decoding, which goes by position and takes any event of the name whose first fields fit,
and `TraceReader`, with its tables of locations, spawns, thread names and metadata.

`Symbolizer` reads the memory map, finds the mapping of an address and asks `Code`,
which stands for blazesym, what is there. It has the path that resolves one address
while the program runs and the one that resolves the addresses of a trace in batches,
which share hardly any code.

`TraceStream` runs the encoder and keeps what it wrote. A call of the encoder writes in
stages (a schema frame, a pool frame, a reset frame, the event), and `WriteFails` cuts
the stream after any number of any stage, with the encoder's state as the code has left
it by then: the string is in the pool before its frame is written, the base has moved
before the event it moved for is written. `Write` is a derived type, `WriteEvent` a
schema made by hand, which may have the name of another. `into_encoder` takes a stream
up from what a decoder read, `Concatenate` puts another behind it, `reset_to` starts a
new file, `Symbolize` appends the symbols of its addresses.

The properties run the decoder over the stream and over its prefixes. `log` and
`segment` remember the events and where the last header is, `intact` the end of the
stream that is well formed: behind a frame that was cut short nothing is promised.
`mark` is the end of the stream before the last call, and `ReadersAgree` looks at the
cuts behind it; those in front were looked at in an earlier state. `EventsUnderstood`
says what `TraceReader` finds, `SymbolsResolved` of each entry of the symbol table that it
is what the running program would have resolved (`AsResolved`). Only `Symbolize` writes
such entries, which `StreamAssumption` says of the events given.

| Code | Model |
|---|---|
| `codec.rs`, `leb128.rs`, `types.rs` | the operators of `TraceCodec` |
| `Decoder::next_frame`, `next_frame_ref`, `for_each_event` | `Read` with "frames", "refs", "events" |
| `Encoder::write`, `write_event`, `register_schema`, `reset_to` | `Write`, `WriteEvent`, `Register`, `reset_to` |
| `Encoder::from_decoder`, `Decoder::into_encoder` | `from_decoder`, `into_encoder` |
| `symbolize_trace_with_maps` | `Symbolize`, `SymbolData` |
| `resolve_symbols_with_maps` | the operator of this name |

### TraceAnalysis, TracedTasks

`TraceAnalysis` has the functions of `analysis.rs` over a sequence of events. The
maps keyed by worker that the code keeps while it scans are written as what they hold
at a position, which is shorter and is what the functions mean. `TracedTasks` produces
traces: worker threads take the steps of the hooks in the order Tokio calls them,
tasks wait for channels with the waker that `Traced::poll` gave them, and the trace is
what the buffers handed over, with the batches that were evicted missing and recording
switched off and on. `past` remembers everything that happened, and the properties
compare what the analysis finds in the trace with it. `write_resolved` is the way of
an event through the file: a depth becomes a `u8`, a location a number of the pool.
The time a thread waited for a processor (`waited`, which the kernel counts and which
cannot always be read) is remembered at a park and reported as a difference at the
unpark; `PeriodsGenuine` holds the reported difference against the real one.

| Code | Model |
|---|---|
| hooks (`recorder/mod.rs`) | `on_before_task_poll`, `on_after_task_poll`, `on_thread_park`, `on_thread_unpark`, `record_queue_sample` |
| `Traced::poll`, `TracedWakerData` | `poll`, `wake_by_ref`, `inner_wake` |
| the future and its channels (external) | `InnerPoll`, `Signal` |

### PerfRing, Tracepoint, Profiler

`PerfRing` is the circular buffer with head, tail and position that count on, read in
one slice or two. `Tracepoint` reads the fields of a raw record by the layout of a
format file, and says what the trace schema of the fields is. `Profiler` has the
process-wide profiler and the one per thread, the kernel that writes samples into
their rings at any time, threads that start and stop, the cache of worker ids and
`thread_roles`, and `flush_cpu`, which takes a copy of the roles and then reads ring
after ring. A scenario says what is sampled (a clock, context switches,
a tracepoint), whether the kernel may refuse an event, on which processors, with which frequency and with the
kernel's frames or without (`include_kernel`); the call chain and the name of the thread
go with each sample. The analysis is asked for the poll of each sample. Thread ids are
not used again.

### LongPolls

`DetectLongWait` polls its future and takes a trace of it when it is pending; the
tracker looks at one bucket of its wheel every second. Time goes in parts of a second
and a tick may be late. The sentinel of a task has an address, which is free for
another once nobody holds it, because `send_counts` is keyed by it. The drain of a
bucket is one step: `retain` is the part of the bucket that satisfies a condition, in its
order, and `counted` the counts with one more for each address that was reported.

| Code | Model |
|---|---|
| `DetectLongWait::poll` | `poll_ready`, `capture_ready`, `capture_pending` |
| its `Drop`, the drop of `TrackerHandle` | `drop`, `DropHandle` |
| `LongPollTracker::tick` | `tick` with `visit`, `retain`, `Report`, `count`, `counted`, `Disconnected` |

## Runs

| Run | Instance | Question and answer |
|---|---|---|
| `pipeline_safety` | 2 threads, buffer 2, queue 2, 4 events of the guard's thread, 1 each of the other and of the flush thread, 1 write error | order, accounting of every event and every eviction, what a stop settles: all hold |
| `pipeline_liveness` | 2 threads, buffer 1, queue 1, 1 event each, 1 write error | stops return and the queue drains: hold under the fairness below |
| `pipeline_park` | buffer 3 | "Workers flush when parking" (design document): does not hold |
| `writer_safety` | file 3, budget 7, header 1, events 1 or 2, 5 segments, all faults | the directory, `closed_files` and the budget agree, and the writer implements `SegmentSource`: hold |
| `writer_budget` | the same, no faults | "keep at most 5 MiB on disk" (README): does not hold |
| `writer_create` | the same, all faults | "rename to `.bin` when complete" (design document): does not hold once `File::create` fails in `rotate` |
| `worker` | 2 segments, symbolizing with and without S3, 2 failures or restarts, 1 of them a restart | no segment is lost, torn or uploaded twice without a reason; every segment is dealt with and the worker stops: hold |
| `worker_blocks` | reads fail any number of times | "It never crashes or blocks the application" (README): a shutdown may not return |
| `trace_stream` | 3 calls, 1 failure, 6 raw events of 6 types, 3 events of hand-made schemas, 6 mappings | every reader finds what was written, wherever the stream is cut, taken up or continued; `TraceReader` and the symbol table say what was recorded: hold |
| `traced_tasks` | 2 workers, 1 other thread, 2 tasks; seven scenarios: 1 or 2 channels, buffers of 1 or 2, every batch written or one lost | no wake-up is lost, and what the analysis reports happened: hold |
| `profiler` | 2 workers, 1 other thread, ring of 16 cells; seven scenarios | rings are read whole, samples have their worker, poll and fields: hold |
| `long_polls` | wheel of 3, 2 tasks, 2 addresses, 17 parts of a second | reports are right, counted and in time: hold |

**Bounds.** Pipeline: capacities of 2 give a buffer with a proper prefix and a queue
with an oldest and a newest batch; four events of one thread fill, evict and still
leave a partial buffer. One write error suffices because the early return restores the
state before it, recording apart, and recording may be switched on again. In the
liveness run a capacity of 1 makes every hand-over of a second batch evict. Writer: the
budget 7 holds two closed segments of 3 to 5 bytes and the header of the next, or one
only, and 5 segments are enough for two evictions in a row. Worker: two faults allow
a file that cannot be removed twice, a failure after a restart, and an upload that
fails while the breaker is open; two segments allow one to be evicted while the other
is processed, and both names to be used again. Stream: three calls allow a string, a
schema and the base to be used across a failed call, a take-up and a symbolization;
with a radix of 4, width of 32 and largest delta of 2 there are varints of one to three
bytes, resets forward and backward, and sums that do not fit; the hand-made schemas are one
that still fits the telemetry, one of a symbol's name and one that does not fit; the
mappings overlap, are not executable, have no path or a blank in it. Tasks: each
scenario bounds the events of each kind, so that every analysis sees its kinds in
every order with ticks in between or not, and the batches that may be lost: three polls
and two wakes with every batch written, two of each with one lost; a `u8` of 4 values wraps a depth of 4; one
scenario has waits for a processor and a read that fails, and one two channels with a
buffer of 1 and recording always on, so that a wake can be forwarded late, behind
another one, and nothing is missing from the trace (`WakeDelaysGenuine`).
Profiler: records of 6 to 16 cells in a ring of 16 wrap at many offsets, and the theorem
has the others; a byte is a bit, which makes every sign and every length of an integer appear. Long polls: 17 parts
are more than the lap, the age and the lateness together. Instances are symmetric only
where no property names a member of the set.

`MaxSegments`, `MaxBytes`, `MaxOps`, `MaxTime`, `Scenarios` and the others named
"bound" end a behaviour. A writer that has been finalized, a worker that has exited and
a stream nobody writes to stop as well, so these runs do not check for deadlock; that
nobody waits for ever is said by the liveness properties of the pipeline and the worker.

**Fairness.** Pipeline: the flush thread, the guard once it is inside
`stop_flush_thread`, and a thread in the middle of a hook are scheduled eventually
(weak fairness): they are operating system threads, and the steps they wait for are a
channel, a rendezvous and a join, which wake them. Nothing is assumed of when hooks are
called, of samples, or of the guard's user. `StopReturns` holds because a thread
records finitely many events: the loop of `flush_once` ends when the queue is empty,
and hooks that record faster than the writer writes could prolong it. Worker: its
thread runs (`WF` of `run_loop`); and the select looks at the signal whenever the
future is pending, again and again, so that a signal that is there at infinitely many
such points is seen (`SF` of `Notice`). No fairness is assumed of the drain timeout,
the retry of the breaker, the writer, or a restart.

Every property of a passing run has a mutant of the code that breaks it, an operator
marked "variant" above the definition it changes.

## Where code and documents disagree

Shown by a run:

1. A parked worker keeps its events (`telemetry/recorder/mod.rs:102`); the design
   document says that workers flush when they park.
2. The disk usage exceeds `max_total_size` by up to one full segment and one event
   (`telemetry/writer.rs:280`); the README promises at most that size. `BudgetBound` is
   the bound that does hold, and it is proved.
3. When `File::create` fails in `rotate` (`telemetry/writer.rs:243`), the encoder goes
   on writing into the segment it has just sealed, and every later rotation fails.
   `SealedImmutable` is what holds as long as files can be opened.
4. A segment that cannot be read is found again in every cycle, the loop never sleeps
   and never awaits (`background_task/mod.rs:453`), and the signal to stop is not seen:
   the shutdown hangs in the join. The README says of the worker that it "never crashes
   or blocks the application".

Seen while modelling, and modelled as the code has it:

5. A string is in the encoder's pool before its frame is written (`encoder.rs:356`). When
   that write fails, later events refer to an id that is never defined; the format's
   `SPEC.md` says that an id should be defined before it is referenced. Taking the stream
   up makes it worse: the next id is one above the greatest that was read, so a string
   that comes then, a symbol's name say, gets the id, and `TraceReader`, which looks names
   up when it has read the whole file, calls the thread by it. `EventsUnderstood` excepts
   a thread's last name, and a place, whose string was not written.
6. "Segments remain on disk when uploads fail and are retried on the next poll cycle"
   (README): any failure of a processor, an open breaker included, removes the segment
   (`background_task/mod.rs:541`). `given_up` in `Accounted` stands for that.
7. The worker "processes all remaining sealed segments one final time" (worker design):
   it exits after the cycle it is in, whose scan may be older than the last seal
   (`background_task/mod.rs:449`).
8. `graceful_shutdown` is said to return an error on timeout (`recorder/mod.rs:274`); it
   returns `Ok`.
9. `stop_tracking_current_thread` "closes the perf event fd and unmaps the ring buffer"
   (`sampler.rs:258`): it looks for the thread's id, and the event remembers the pid
   argument 0, so it finds none, and each thread leaves a descriptor and a ring behind.
10. A waker that is first to resolve a worker's id caches it and does not register the
   role (`recorder/shared_state.rs:76`); the samples of that worker are given to the
   blocking pool for good. `OwnWorker` says when they are not.
11. A sentinel is looked at first 5 ticks after it was received, when it is as a rule
    not yet 6 s old, and again a lap of 60 s later; a test (`task_dump.rs:413`) says that
    detection comes after 6 to 8 seconds. `ReportedInTime` has the bound that holds.
12. A future that completes in the second poll of a capture leaves its sentinel pending,
    and it ends as cancelled; `send_counts` outlives its sentinel, whose address may be
    used again.
13. A tracepoint integer of 3, 5, 6 or 7 bytes is given a numeric schema type and a value
    of bytes (`FieldsRead`).
14. `detect_long_polls` does not return polls in the order of their time when several
    workers poll; `analyze_trace` takes the first string of the pool, whose id is 0, for
    no location (`PollTimeAddsUp` excepts it); a queue depth is cut to eight bits.
15. A reference to a map that is cut short panics where the owned decoder ends the
    stream; the two also differ on a text that is not UTF-8.
16. After a failed write of an event the times of later ones are behind by `lag`
    until a reset frame; a string whose frame was not written stays in the pool, and is
    missing for readers (`unread`).
17. The symbols and names of a file are looked up in the pool that is left when the file
    has been read (`telemetry/analysis.rs:43`): of two segments in one file, the first
    one's are looked up among the strings of the second. `EventsUnderstood` promises
    tables of strings for the last segment only.
18. `sampler.rs` says that the process-wide profiler samples every thread; context
    switches and tracepoints are opened for the calling thread alone and not inherited by
    those it starts.
19. `sched_wait` is described as the wait of the period (`analysis.rs:565`); it is the
    wait since the last park at which the counter could be read. `KnownWait` says so.
20. The duration of a trace is taken between its first and last event in the file
    (`analysis.rs:210`), which are not its earliest and latest.
21. Two segments of one index and one second, before and after a restart, have one key in
    S3; the boot id, which would tell them apart, is only in the metadata.
22. `SymbolInfo.offset` subtracts an address of the file from one of the process
    (`symbolize.rs`); it is left out of the model. The log of a failed symbolization says
    that the original bytes are preserved; they have been taken, and the file is removed
    (`background_task/mod.rs:329`, `541`).

## Proofs

The proofs hold for every value of the constants that satisfies the assumptions named
in the modules: any threads, capacities, sizes, faults, segments, restarts, tasks and
scenarios. Each assumption says what the code fixes:

* `ActorsAssumption`, `CapacityAssumption`, `SizeAssumption`: the threads are finitely many
  and the flush thread is none of them; capacities, headers and events are above 0.
* `WorkerAssumption`: the configurations are those a builder can make, a back-off is not 0.
* `TasksAssumption`: buffers hold an event, depths are numbers, the narrow integer has a
  value.
* `LongPollsAssumption`: an address for every sentinel, a wheel that a new sentinel is put
  into, and `MinAge < Ahead + Buckets`, which is 6 < 6 + 60 in the code: a sentinel must be
  old enough when its bucket comes up a second time.
* `CodecAssumption`: a varint's byte has at least two digits' values, the longest varint
  holds every number below the width (ten bytes, 64 bits), and a delta is below it.
* `EventsAssumption`, `StreamAssumption`: types that are derived are made of the field
  types of Rust, and an event has the values its type has fields for, each of its type, as
  Rust's types and the derive macro see to. Nothing but the symbolizer writes entries of
  the symbol table.
* `SymbolizerAssumption`: addresses are below the width, the texts of the memory map and
  of blazesym are texts, a function has one place in the code or none, and blazesym finds
  no more functions at an address than the width can number.
* `ProfilerAssumption`, `DataSizeAssumption`, `ByteAssumption`: no thread has the id 0, the
  two owners that are no threads are none, and the ranges of processors are ordered. Of the
  kernel: records are bytes, the addresses of a stack are in the kernel's or the
  program's range, and the format of the tracepoint is one that `parse_format` takes, any
  lines whatever but that a field with its data elsewhere (`__data_loc`) has four bytes to
  say where. A ring may have any size above 0, a byte any number of values above 1.

`EventPipelineProofs`

* `TypeCorrect`: `TypeOK` is inductive as it stands.
* `DropsAccounted`: `DropAccounting` is inductive with the types, given that the
  thread that evicts was not already about to count an eviction; the guards of
  `MayRun`, `FlusherAt` and `GuardAt` give that.
* `OrderKept`: the strengthening bounds every event in the system by the number of
  events its thread has recorded. Then each move of events (push, eviction, pop,
  write) takes them from the end that is older than everything left behind. Lemmas
  about `Append`, `Head`, `Tail` and the elements of sequences carry the work.
* `StopSettles`: the strengthening follows `handed` from the command to the
  acknowledgement: until the last cycle has drained the queue, what was handed over is
  in the queue, in the batch or settled.
* `NoneVanishes`: two facts carry it. `Complete` says that every event recorded has
  left its buffer for somewhere known or is still in it, and is preserved because
  nothing leaves the settled, queued and drained events (`PastGrows`); `Apart` keeps
  written, refused, abandoned and evicted events disjoint. The order of `OrderKept`
  keeps the remaining places apart, so that an event is in exactly one (`PlacesEnough`).

`RotatingWriterProofs`

* `WriterTypeCorrect`: the types need one more fact, that during eviction the file
  being written is not a sealed one, for otherwise eviction could remove it.
  `PushBytes` and `PopBytes` are about files that lie end to end.
* `HistoryGapless`: the indices of `closed_files` are consecutive and end two before
  `next_index`, whatever fails.
* `BudgetKept`: the bound is not inductive. The invariant says at each point of a
  rotation where the bytes are, and that without a failure the active file exists,
  since otherwise a rotation could fail and the segment grow on.
* `WriterImplementsSource`: every step of the writer is a step of `SegmentSource` or a
  stutter under the mapping above, given the types and `Gapless`. A finalize (`FinishInv`,
  `SealAdds`) and the eviction of the oldest (`EvictRemoves`) are the steps that are
  not a stutter; `SourceStep` puts them together, one case per action.

* Of the directory, the invariant `FilesInv` says which files can be on disk at each point of a rotation:
  sealed files have lower indices than the active one (`Placed`), the flag for real events
  agrees with the file the encoder writes to (`Flagged`), and until an opening fails the
  encoder's bytes are those of the active file (`Opened`).
* `SealedHoldEvents`, `SealedStay` and `OnlyEvictionLoses` follow from it: a sealed name
  is never taken again, and an empty segment is removed, never sealed.
* `TrackedAreOnDisk` adds that the files of `closed_files` are there with their sizes
  and, unless a removal or an opening failed, that there are no others.

`SegmentWorkerProofs`

* `WorkerTypeCorrect`: the types need to know which processors are left at which point
  (`Staged`), since a processor is only begun when it is the next.
* `WorkerAccounts`: what is in the directory, in hand and in S3 was sealed (`Known`), and a
  run seals an index once (`SealedOnce`); the steps that remove or replace a file then
  leave the segment in one of the places `Accounted` names. What was uploaded stays in S3
  unless an object of the same key replaced it (`Stored`), for which the second of a
  file has to be its segment's or, once it was written back, a later one (`Dates`).
* `WorkerUploadsWhole`: in the first run nobody else's memory map is used and only a
  write-back cuts a file short (`FirstRun`).
* `WorkerUploadsOnce`: the count is not inductive. `Budget` distinguishes the segments that
  may still be uploaded, which have one upload in reserve, from those that may not, and a
  failure in between, for which half a removal stands.
* `WorkerTearsNothing`: a file that is cut short is the one in hand, and what is in hand is
  whole (`InHandWhole`).

`TracedTasksProofs`

* `TasksTypeCorrect`: one worker polls a task at a time (`Alone`), and buffers and trace
  hold places of what happened, none twice (`Placed`).
* `NoWakeupIsLost`: the invariant `Listening` follows a wake-up along the wakers. A channel
  that has something has told its task (`Told`), a traced waker has the executor's behind
  it or its task is scheduled (`Armed`), and so has the waker that a poll hands out
  (`Handed`). The two steps of `wake_by_ref` are apart, and `Forwarded` stands between.
* `ReportsAreGenuine`: the trace keeps the order of each worker (`InOrder`) and time goes
  on (`Timed`). So a pair of events in the trace with none between them is a pair of what
  happened, unless one that was between them is missing; and `Waiting` follows the counter
  of the kernel from a park to its unpark.
* `WakeDelaysAreGenuine`: `Balanced` counts. While recording is on every poll of a task is
  paid for by its spawning or by a wake recorded before, and a wake pays for one poll, for
  one place in a run queue, or for one call that is still to be forwarded.
* `IdleWorkersAreFound`: the sample that is looked up by time is the last before the end of
  the park, since samples are written at once and times do not go back.
* `PollTimesAddUp`: a worker starts and ends polls in turn (`Alternates`), so the last start
  that the analysis keeps for it when an end comes is the real one, and the polls found are
  the polls that happened, one for one. The total is the recursion of the library's
  `MapThenSumSet`, unfolded on the subsets of one finite set. That it does not depend on
  the element taken first, and is the same under a bijection, holds because there is no
  least cardinality at which it fails (`SumTakes`, `SumSame`). The number of a location is
  how many were known when it was first seen, so two locations have two (`Interned`).

`LongPollsProofs`

* `ReportsAreCounted`: a sentinel is in one place and there once (`Once`), sentinels that
  are held have different addresses (`OwnAddress`), and the count of an address is the
  number of its reports (`Tallied`), of which those of one sentinel are a part.
* `ReportsAreInTime`: `InTime` says of every pending sentinel that it is in the channel, or
  that the ticks left to its bucket bring it up for the first time, or for the second
  and old enough (`OnTime`). The bounds on a tick, at least `Second` and at most
  `Second + Late`, are used from both sides. A group of lemmas says what `retain` returns.

`ProfilerProofs`

* `ProfilerTypeCorrect`, with the invariant `Inv` that the others use too.
* `RingsAreIntact`: a ring is followed by where its records start (`Starts`, `Holds`), one
  behind the other and all of them no longer than the ring. Lemmas on `% DataSize` say
  that then the cells the kernel writes are none of those unread, for records that wrap
  and for those that do not, whatever the size of the ring.
* `WorkersGetTheirOwn`: the roles in the map, and in the copy that the flush thread took,
  are the thread's own or that of the blocking pool (`Owned`).
* `SamplesAreAttributed`: the polls are in the trace in the order they happened
  (`PollsTold`), so that the pairs found in the trace are the pairs of what happened, and
  a sample lies in a pair in time if it lies in it in order (`Timed`).
* `FieldsAreRead` has two halves. `Carried`: every unread record is the record of a sample
  that happened, and was taken for the profiler whose event's ring it is in; so the flush
  parses it to that sample (`RecordParsed`) and keeps the part of the stack that this
  profiler asked for (`ChainShown`), and no later step touches the entry (`AllShown`). The
  other half is about `Tracepoint` alone: for any format and any record, whole or cut
  short, each value is the field's by its size and sign or there is none (`FieldsRight`).
  What `filter` and `Unsigned` return (the members in order, a number below the count of
  numbers of that length) is shown by the least length at which it would fail.

`TraceCodecProofs`

* What is written in pieces stands in the stream piece behind piece (`AtJoined`,
  `AtParts`), and what a theorem says of a piece it says for any stream around it.
* `VarintReadBack`: the digits of a number add up to it (`Power` is the recursion of the
  powers), no digit but the last says that it is the last, and the sum stays below the
  width, so that nothing is cut off.
* `ValueReadBack`: a case for each type. A parser that is repeated is followed by the
  rounds it takes; that the rounds agree with the pieces written is shown by the first
  that would not. The reference to a map looks for its end by the lengths alone and
  decodes the pairs later: both ways end behind the last pair.
* `EventReadBack`, `SchemaReadBack`, `PoolReadBack`, `ResetReadBack`: each frame is read by
  all three readers as it was written, and to its end. The reader of an event has to be
  where the encoder was, with its schema and its base. That it is there, after any calls
  and failed writes, is what `TraceStreamProofs` shows.
* `FrameKept` is about streams that end anywhere. What a parser finds in the beginning of
  a stream (`Begins`) it finds in the whole of it, with the same end (`Kept`), for slices,
  numbers, varints, texts, pairs, maps, values, and so for each kind of frame. A parser
  that is repeated finds its first pieces too (`PooledKept`, `SkipsKept`); the first byte
  that ends a varint is the first one in the whole stream as well (`VarintKept`).

`TraceStreamProofs`

* A stream's readers are followed frame by frame (`Arrives`): the states they pass through
  are the same for all three readers and for every stream that goes on behind it, so
  that a stream that grows is read as before and then further.
* Wherever that stream is cut off, the readers agree (`AgreedOn`). A frame more adds the
  cuts inside of it and the one behind it. Inside, no reader finds a frame: it would be one
  of the whole stream (`FrameKept`) and end where the whole frame ends, which is cut off
  (`CutInside`); the frame readers end there and `for_each_event` fails. Behind it all
  three end (`CutWhole`). A second header has two numbers, and its first alone is no frame.
* The invariant `StreamInv` says that the encoder's maps fit together (`Sane`), that what
  is whole of the stream reads as `log` (`Whole`), and that some reader is in step with the
  encoder (`InStep`): it has the same schemas, the strings but for `unread`, and a base
  that is behind by `lag` (`Match`). While no frame was cut short this reader is one of
  the stream. Behind a torn frame nobody reads on, but the encoder goes on writing, and is
  still one that a reader of some stream could be in step with. Without failures no id was
  skipped (`NoGaps`), so that `TakenUpAlike` can speak of the next ids.
* A call is a list of stages. `Good` says that the reader goes on over what has been staged
  and is in step again behind it, `Partial` that for every stage, if the write fails there,
  it is in step behind the stages before with the encoder as it was left: with the new
  string missing or with the base it had. Both are shown for a string, a schema, a reset
  and an event, then for the lists the calls make of them (`WritesTo`, `Outcome`).
* `from_decoder` is in step with the reader it was made from (`Resumes`): the greatest id
  and one more is free, and a text or name that the reader has leads to its own id, because
  no two ids of an encoder have one text or one name.
* The entries of the symbol table are events that fit their schema, whatever the memory map
  has and blazesym answers (`SymbolEntries`), so `Symbolize` is a sequence of such calls.
* `StreamTypeCorrect`, `EventsReadBack`, `ReadersAgreeAtCuts` and `StreamTakenUp` follow
  from the invariant.
* `SymbolsAreResolved`: `SymbolsResolved` is inductive, given `StreamInv`, because an entry
  that is resolved stays so when the table grows (`ResolvedMore`). The entries of an address
  are written together or not at all, in whatever order the mappings come (`OrderWhole`, which
  rests on what a flattened sequence has, `FlatHas`), an address is in one mapping at most
  (`OneMapping`), and there both paths to a symbol find the same functions (`InfosAre`,
  `EntrySays`).
* `EventsAreUnderstood` is the rest of `EventsUnderstood`, whose first part that theorem has.
  It needs of the events written that each has the schema of its type, with values that
  decoding leaves alone, or one given by hand (`Proper`, which every call keeps): then the
  events the reader knows are those that mean something (`MeantIs`), and an event with a
  string where its type has one is of its type (`KnownOwn`). What `filter` returns is
  said by the places it comes from, in their order (`Picks`), which is unique
  (`InTurnSame`), so that what is kept of what was kept is what can be kept at once
  (`FilterTwice`). The tables follow from the last event that was inserted with a key
  (`LastInserted`), their strings from the pool of the last segment, which has the text of
  every event of it that was written (`Shown`, a part of `StreamInv`).

What the attempts at these proofs changed in the model: `Accounted` spoke of the object
that replaced another in a way that was wrong from the third restart on (`Replaced`);
`WakeDelaysGenuine` once said that every wake is used for one poll, which two channels
and a thread that forwards late refute; an assumption about the call stacks of samples said
nothing when a scenario had no raw records. The bounds of the runs had hidden the first
two. For `FieldsRead` the little-endian sum became the
recursion it is read by, and the lines of a format file got a type (`Line`). For the
codec the powers of the radix became a recursion, and steps of the decoders got names of
their own (`map_end`, `pool_entry`, `FieldsOf`). For the stream the text of an unresolved
address became one that is no other text (`Hex`), the batches of the symbolizer were
written by address (`InOrder`), and the assumptions say what an event is (`IsEvent`).
`EventsUnderstood` held in the bounds of `trace_stream` and was wrong of a thread's name
with one more call (5 above); its exception is what it says of a string not written. The
selections it speaks of became sets of events and what `filter` keeps of a sequence, and
`read_as`, what the telemetry reads in an event with a schema of its own, is bound by an
assumption to what its values are decoded to (`ReadAs`); the run still gives it by hand.

Model-checked only:

* Liveness (`StopReturns`, `QueueDrains`, `WorkerStops`, `SegmentsSettle`), which needs
  `ENABLED` of the fair actions; the provers do not reason about it.
* The runs' refutations of what documents say.

## Not modelled

* Pipeline metrics: counters and timers, on which nothing depends.
* The trace viewer, the other decoders and the tools, examples, benchmarks and fuzz
  targets: around the library, with no state of its own.
* Of the writer: `single_file`, which neither rotates nor evicts; `flush` errors, which
  are only logged.
* Of the worker: custom functions for keys, the look-up of the host's name, the wire
  protocol of S3; the time of the breaker's back-off, which is seen as a retry that may
  come at any time.
* Of the runtime: `block_in_place`, which moves a worker to another thread, and thread
  ids that are used again after a thread has ended.
* Of the format: `write_raw`, `reset_registry_and_pools`, `write_string_pool`, which only
  tests call (the second is said to reset the timestamp base as well, and does not); the parsing of attributes and the
  generated reference types of the derive macro; the JSON form of events.
* Of the profilers: the attributes and system calls of perf events, and the parsing of
  format files as text; the model starts from their fields. `add_sentinel` of the task
  dumps, which only tests call.
* Of symbolization: blazesym, which is external, and the memory map that
  `resolve_symbol` caches per thread.
* Of the analysis: maxima, averages and printing.
