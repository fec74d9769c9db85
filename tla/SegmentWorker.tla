--------------------------- MODULE SegmentWorker ----------------------------
(***************************************************************************)
(* The background worker (background_task/) on the directory of the trace  *)
(* writer: it scans for sealed segments, takes each through the processors *)
(* (symbolize, compress, upload or write back) and is stopped by the guard *)
(* through a oneshot channel.  The writer is SegmentSource.  A crash may   *)
(* come at any step; the restarted program finds the directory as it was   *)
(* left and numbers its segments from 0 again.                             *)
(*                                                                         *)
(* Worker steps are those another party can observe, or at which the       *)
(* future may be polled no more: the points where it awaits.               *)
(***************************************************************************)
EXTENDS Integers, Sequences, FiniteSetsExt, Functions

CONSTANTS
    Configs,         \* what a run of the program may be configured with: symbolize, s3
    InitialBackoff,  \* INITIAL_BACKOFF
    MaxBackoff,      \* MAX_BACKOFF
    Persistent,      \* the operations that may fail any number of times
    MaxFaults,       \* bound: failures of the other operations and restarts together
    MaxRestarts,     \* bound: restarts
    MaxSegments      \* bound: segments of one run of the program

\* TracedRuntimeBuilder: what its methods may have set
Builders == [enabled : BOOLEAN, trace_path : BOOLEAN, cpu_profiling : BOOLEAN, s3 : BOOLEAN]

\* The builders that start a worker: there is something to symbolize or to upload.
NeedWorker == {b \in Builders : b.enabled /\ b.trace_path /\ (b.cpu_profiling \/ b.s3)}
worker_config(b) == [symbolize |-> b.cpu_profiling, s3 |-> b.s3]
WorkerConfigs == {worker_config(b) : b \in NeedWorker}

ASSUME WorkerAssumption ==
    /\ Configs \subseteq WorkerConfigs
    /\ InitialBackoff \in Nat \ {0} /\ MaxBackoff \in Nat
    /\ MaxFaults \in Nat /\ MaxRestarts \in Nat /\ MaxSegments \in Nat

VARIABLES
    dir,         \* the sealed files: for each index what is in it
    closed, next_index, phase,     \* the writer, see SegmentSource
    run,         \* ghost: how often the program was restarted
    second,      \* ghost: the second of the clock this run writes its segments in
    pipeline,    \* the processors of this run
    region,      \* the uploader has the region of the bucket
    pc,          \* where the worker is
    found,       \* the scan of this cycle saw a segment
    todo,        \* the scanned segments not yet processed; the least is next
    data,        \* SegmentData: the bytes in hand
    stage,       \* the processors data has yet to go through
    backoff,     \* CircuitBreaker: 0 when closed, else the back-off
    signal,      \* the guard has sent a timeout to the worker or dropped the sender
    cancelled,   \* the CancellationToken
    failures,    \* failures so far
    sealed,      \* ghost: the segments the writers have sealed
    bucket,      \* the objects in S3, by key
    uploads,     \* ghost: how often a segment was uploaded
    given_up,    \* ghost: segments a processor failed on or the writer removed
    kept         \* ghost: segments whose file could not be removed, with how often

writer == <<closed, next_index, phase>>
ghosts == <<sealed, bucket, uploads, given_up, kept>>
process_vars == <<run, second, pipeline, region>>
vars == <<dir, writer, process_vars, pc, found, todo, data, stage, backoff, signal, cancelled,
          failures, ghosts>>

\* The sealed files as the writer sees them
Source == INSTANCE SegmentSource WITH files <- DOMAIN dir

\* What a file or a buffer holds: a segment, symbolized with the memory map of a run (or
\* not), compressed, whole or torn; sec is the second in which the file was last written,
\* or, in hand, the one the segment is said to be created in.
Content(s) == [seg |-> s, sec |-> s.sec, sym |-> -1, gz |-> FALSE, whole |-> TRUE]

\* Only the header of a segment tells when it was created.
creation_epoch_secs(f) == IF f.gz \/ ~f.whole THEN f.sec ELSE f.seg.sec
InHand(f) == [f EXCEPT !.sec = creation_epoch_secs(f)]
Nothing == Content([run |-> -1, index |-> -1, sec |-> 0])

build_pipeline(c) == (IF c.symbolize THEN <<"Symbolize">> ELSE <<>>)
                     \o <<"Gzip", IF c.s3 THEN "S3Upload" ELSE "WriteBack">>
Pipelines == {build_pipeline(c) : c \in Configs}

With(f, i, v) == [j \in DOMAIN f \union {i} |-> IF j = i THEN v ELSE f[j]]
Without(f, i) == [j \in DOMAIN f \ {i} |-> f[j]]
Times(f, x) == IF x \in DOMAIN f THEN f[x] ELSE 0
OneMore(f, x) == With(f, x, Times(f, x) + 1)
segment == Min(todo)

May(op) == op \in Persistent \/ failures + run < MaxFaults
Fails(op) == May(op) /\ failures' = IF op \in Persistent THEN failures ELSE failures + 1

\* The writer and the worker as they are created, on an empty directory
Init ==
    /\ dir = <<>> /\ closed = <<>> /\ next_index = 1 /\ phase = "idle"
    /\ pipeline \in Pipelines /\ region = TRUE /\ pc = "building" /\ found = FALSE /\ todo = {}
    /\ data = Nothing /\ stage = <<>> /\ backoff = 0
    /\ signal = FALSE /\ cancelled = FALSE /\ run = 0 /\ second = 0 /\ failures = 0
    /\ sealed = {} /\ bucket = <<>> /\ uploads = <<>> /\ given_up = {} /\ kept = <<>>

workerVars == <<pipeline, region, pc, found, todo, data, stage, backoff, cancelled, failures>>
-----------------------------------------------------------------------------
(* The writer and the guard *)

\* the segment being written
current == [run |-> run, index |-> next_index - 1, sec |-> second]

WriterSeals ==
    /\ next_index < MaxSegments
    /\ dir' = With(dir, current.index, Content(current))
    /\ Source!Seal
    /\ sealed' = sealed \union {current}
    /\ UNCHANGED <<run, second, workerVars, signal, bucket, uploads, given_up, kept>>

\* evict_oldest: the file, a leftover of an earlier run perhaps, is removed by name
WriterEvicts ==
    /\ closed # <<>>
    /\ LET i == Head(closed)
       IN  \/ /\ dir' = Without(dir, i)
              /\ given_up' = given_up \union {dir[j].seg : j \in DOMAIN dir \intersect {i}}
              /\ UNCHANGED failures
           \/ i \in DOMAIN dir /\ Fails("evict") /\ UNCHANGED <<dir, given_up>>
    /\ Source!Evict
    /\ UNCHANGED <<process_vars, pc, found, todo, data, stage, backoff, cancelled, signal,
                   sealed, bucket, uploads, kept>>

WriterGoesOn ==
    /\ UNCHANGED dir
    /\ Source!Open \/ Source!EvictionEnds
    /\ UNCHANGED <<run, second, workerVars, signal, ghosts>>

WriterFinishes ==
    /\ \/ UNCHANGED <<dir, sealed>>
       \/ /\ dir' = With(dir, current.index, Content(current))
          /\ sealed' = sealed \union {current}
    /\ Source!Finish
    /\ UNCHANGED <<run, second, workerVars, signal, bucket, uploads, given_up, kept>>

\* graceful_shutdown sends the timeout, drop drops the sender, which counts as a timeout
\* of zero: both after the flush thread has finalized the writer
Stop ==
    /\ phase = "finished" /\ ~signal /\ signal' = TRUE
    /\ UNCHANGED <<dir, writer, run, second, workerVars, ghosts>>

-----------------------------------------------------------------------------
(* run and process_open_segments *)

others == <<writer, process_vars, signal, cancelled>>

\* The region the bucket names, or the fallback when it does not answer.
detect_bucket_region == \/ UNCHANGED <<region, failures>>
                        \/ Fails("region") /\ region' = FALSE

\* The uploader is made for the region that was configured or detected, once in a run.
BuildPipeline ==
    /\ pc = "building" /\ pc' = "scan"
    /\ IF "S3Upload" \in Range(pipeline) THEN detect_bucket_region ELSE UNCHANGED <<region, failures>>
    /\ UNCHANGED <<dir, writer, run, second, pipeline, signal, cancelled, found, todo, data, stage,
                   backoff, ghosts>>

\* variant: an error of the scan ends the loop
find_sealed_segments_or_stop ==
    /\ pc = "scan"
    /\ \/ /\ todo' = DOMAIN dir /\ found' = (todo' # {}) /\ pc' = "next"
          /\ UNCHANGED failures
       \/ /\ Fails("scan") /\ found' = FALSE /\ todo' = {} /\ pc' = "exited"
    /\ UNCHANGED <<dir, others, data, stage, backoff, ghosts>>

find_sealed_segments ==
    /\ pc = "scan" /\ pc' = "next"
    /\ \/ todo' = DOMAIN dir /\ UNCHANGED failures
       \/ Fails("scan") /\ todo' = {}
    /\ found' = (todo' # {})
    /\ UNCHANGED <<dir, others, data, stage, backoff, ghosts>>

\* a segment that cannot be read, or was evicted, is passed over
SkipSegment ==
    /\ pc = "next" /\ todo # {}
    /\ \/ segment \notin DOMAIN dir /\ UNCHANGED failures
       \/ segment \in DOMAIN dir /\ Fails("read")
    /\ todo' = todo \ {segment}
    /\ UNCHANGED <<dir, others, pc, found, data, stage, backoff, ghosts>>

\* variant: the segments are taken newest first
ReadSegmentNewest ==
    /\ pc = "next" /\ todo # {} /\ Max(todo) \in DOMAIN dir
    /\ data' = InHand(dir[Max(todo)]) /\ stage' = pipeline /\ pc' = "process"
    /\ UNCHANGED <<dir, others, found, todo, backoff, failures, ghosts>>

ReadSegment ==
    /\ pc = "next" /\ todo # {} /\ segment \in DOMAIN dir
    /\ data' = InHand(dir[segment]) /\ stage' = pipeline /\ pc' = "process"
    /\ UNCHANGED <<dir, others, found, todo, backoff, failures, ghosts>>

\* variant: the token is looked at only when there is nothing to do
EndCycleBusy ==
    /\ pc = "next" /\ todo = {}
    /\ pc' = IF found THEN "scan" ELSE IF cancelled THEN "exited" ELSE "sleep"
    /\ found' = FALSE
    /\ UNCHANGED <<dir, others, todo, data, stage, backoff, failures, ghosts>>

\* The end of a cycle: the loop sleeps only when the scan found nothing.
EndCycle ==
    /\ pc = "next" /\ todo = {}
    /\ pc' = IF cancelled THEN "exited" ELSE IF found THEN "scan" ELSE "sleep"
    /\ found' = FALSE
    /\ UNCHANGED <<dir, others, todo, data, stage, backoff, failures, ghosts>>

\* poll_interval is over, or the token was cancelled: one more cycle either way
Wake ==
    /\ pc = "sleep" /\ pc' = "scan"
    /\ UNCHANGED <<dir, others, found, todo, data, stage, backoff, failures, ghosts>>

-----------------------------------------------------------------------------
(* The processors *)

At(p) == pc = "process" /\ stage # <<>> /\ Head(stage) = p

\* symbolize: compressed bytes pass, a file cut short is not a trace
Symbolize ==
    /\ At("Symbolize") /\ (data.gz \/ data.whole)
    /\ data' = IF data.gz THEN data ELSE [data EXCEPT !.sym = run]
    /\ stage' = Tail(stage)
    /\ UNCHANGED <<dir, others, pc, found, todo, backoff, failures, ghosts>>

\* variant: bytes that could not be compressed go on as they are
GzipOrRaw ==
    /\ At("Gzip")
    /\ data' \in {data, [data EXCEPT !.gz = TRUE]} /\ stage' = Tail(stage)
    /\ UNCHANGED <<dir, others, pc, found, todo, backoff, failures, ghosts>>

\* compressed bytes pass
Gzip ==
    /\ At("Gzip")
    /\ data' = [data EXCEPT !.gz = TRUE] /\ stage' = Tail(stage)
    /\ UNCHANGED <<dir, others, pc, found, todo, backoff, failures, ghosts>>

ProcessorFails ==
    /\ At("Symbolize") \/ At("Gzip")
    /\ ~data.gz
    /\ \/ Head(stage) = "Symbolize" /\ ~data.whole /\ UNCHANGED failures
       \/ Fails(Head(stage))
    /\ pc' = "failed"
    /\ UNCHANGED <<dir, others, found, todo, data, stage, backoff, ghosts>>

\* fs::write truncates or creates the file, whatever has become of it ...
OpenForWrite ==
    /\ At("WriteBack") /\ pc' = "writing"
    /\ \E gz \in BOOLEAN : dir' = With(dir, segment, [data EXCEPT !.whole = FALSE, !.gz = gz, !.sec = second])
    /\ UNCHANGED <<others, found, todo, data, stage, backoff, failures, ghosts>>

\* ... and writes the bytes, unless the name is gone in the meantime
Written == IF segment \in DOMAIN dir /\ dir[segment].seg = data.seg /\ ~dir[segment].whole
           THEN [dir EXCEPT ![segment] = [data EXCEPT !.sec = second]] ELSE dir

WriteBack ==
    /\ pc = "writing" /\ pc' = "process"
    /\ dir' = Written /\ stage' = Tail(stage)
    /\ UNCHANGED <<others, found, todo, data, backoff, failures, ghosts>>

\* variant: the error is only logged
WriteBackFailsSilently ==
    /\ At("WriteBack") \/ pc = "writing"
    /\ Fails("WriteBack") /\ pc' = "process" /\ stage' = Tail(stage)
    /\ UNCHANGED <<dir, others, found, todo, data, backoff, ghosts>>

WriteBackFails ==
    /\ At("WriteBack") \/ pc = "writing"
    /\ Fails("WriteBack") /\ pc' = "failed"
    /\ UNCHANGED <<dir, others, found, todo, data, stage, backoff, ghosts>>

\* CircuitBreaker: an open one lets an attempt through when its next retry has come,
\* which may be at any time
should_attempt == IF backoff = 0 THEN {TRUE} ELSE BOOLEAN
on_success == backoff' = 0
on_failure == backoff' = IF backoff = 0 THEN InitialBackoff ELSE Min({2 * backoff, MaxBackoff})

\* The breaker is open: the upload fails at once.
BreakerOpen ==
    /\ At("S3Upload") /\ FALSE \in should_attempt /\ pc' = "failed"
    /\ UNCHANGED <<dir, others, found, todo, data, stage, backoff, failures, ghosts>>

\* variant: the file is removed before the upload is confirmed
BeginUploadRemoves ==
    /\ At("S3Upload") /\ TRUE \in should_attempt /\ pc' = "uploading"
    /\ dir' = Without(dir, segment)
    /\ UNCHANGED <<others, found, todo, data, stage, backoff, failures, ghosts>>

BeginUpload ==
    /\ At("S3Upload") /\ TRUE \in should_attempt /\ pc' = "uploading"
    /\ UNCHANGED <<dir, others, found, todo, data, stage, backoff, failures, ghosts>>

\* The name of an object: nothing in it tells two runs of the program apart but the
\* second.
object_key(c) == [sec |-> c.sec, index |-> c.seg.index, gz |-> c.gz]

\* An object replaces the one of the same name.
Arrives == uploads' = OneMore(uploads, data.seg) /\ bucket' = With(bucket, object_key(data), data)

Uploaded ==
    /\ pc = "uploading" /\ region /\ pc' = "removing"
    /\ Arrives
    /\ UNCHANGED <<dir, others, found, todo, data, stage, backoff, failures, sealed, given_up, kept>>

UploadFails ==
    /\ pc = "uploading" /\ on_failure /\ pc' = "failed"
    /\ \/ Fails("S3Upload")
       \/ ~region /\ UNCHANGED failures
    /\ UNCHANGED <<dir, others, found, todo, data, stage, ghosts>>

\* upload_and_delete removes by name; a name that is gone is as good
RemoveUploaded ==
    /\ pc = "removing" /\ pc' = "process"
    /\ dir' = Without(dir, segment) /\ stage' = Tail(stage)
    /\ on_success
    /\ UNCHANGED <<others, found, todo, data, failures, ghosts>>

RemoveUploadedFails ==
    /\ pc = "removing" /\ segment \in DOMAIN dir
    /\ Fails("remove") /\ on_failure /\ pc' = "failed"
    /\ kept' = OneMore(kept, data.seg)
    /\ UNCHANGED <<dir, others, found, todo, data, stage, sealed, bucket, uploads, given_up>>

\* the segment is dealt with
Drop == todo' = todo \ {segment} /\ data' = Nothing /\ stage' = <<>>

\* variant: the segment a processor failed on stays
GiveUpKeeps ==
    /\ pc = "failed" /\ pc' = "next"
    /\ given_up' = given_up \union {data.seg}
    /\ Drop
    /\ UNCHANGED <<dir, others, found, backoff, failures, sealed, bucket, uploads, kept>>

\* A processor failed: the file is removed by name, if it can be.
GiveUp ==
    /\ pc = "failed" /\ pc' = "next"
    /\ given_up' = given_up \union {data.seg}
    /\ \/ dir' = Without(dir, segment) /\ UNCHANGED <<failures, kept>>
       \/ /\ segment \in DOMAIN dir /\ Fails("remove")
          /\ kept' = OneMore(kept, data.seg) /\ UNCHANGED dir
    /\ Drop
    /\ UNCHANGED <<others, found, backoff, sealed, bucket, uploads>>

Processed ==
    /\ pc = "process" /\ stage = <<>> /\ pc' = "next"
    /\ Drop
    /\ UNCHANGED <<dir, others, found, backoff, failures, ghosts>>

-----------------------------------------------------------------------------
(* run_background_task: the signal and the timeout *)

\* The future is pending: the select, or the timeout, may look at its other branch.
Awaits ==
    \/ pc \in {"sleep", "writing", "uploading", "removing"}
    \/ At("Symbolize") /\ ~data.gz
    \/ At("Gzip") /\ ~data.gz
    \/ At("WriteBack")

Notice ==
    /\ signal /\ ~cancelled /\ Awaits
    /\ cancelled' = TRUE
    /\ UNCHANGED <<dir, writer, process_vars, signal, pc, found, todo, data, stage, backoff,
                   failures, ghosts>>

\* The upload in flight may have arrived.
MayArrive == \/ UNCHANGED <<bucket, uploads>>
             \/ pc = "uploading" /\ region /\ Arrives

\* drain_timeout is over: the future is dropped, a blocking operation it had
\* started is waited for
TimedOut ==
    /\ cancelled /\ Awaits /\ pc' = "exited"
    /\ dir' \in CASE pc = "writing" -> {Written}
                  [] pc = "removing" -> {dir, Without(dir, segment)}
                  [] OTHER -> {dir}
    /\ MayArrive
    /\ found' = FALSE /\ todo' = {} /\ data' = Nothing /\ stage' = <<>>
    /\ UNCHANGED <<others, backoff, failures, sealed, given_up, kept>>

\* The program ends, by a crash or after its shutdown, and starts again, in the same
\* second perhaps, which only an uploader could tell.
Restart ==
    /\ run < MaxRestarts /\ failures + run < MaxFaults /\ run' = run + 1
    /\ closed' = <<>> /\ next_index' = 1 /\ phase' = "idle"
    /\ pipeline' \in Pipelines
    /\ second' \in {second} \union IF "S3Upload" \in Range(pipeline') THEN {second + 1} ELSE {}
    /\ region' = TRUE /\ pc' = "building" /\ found' = FALSE /\ todo' = {}
    /\ data' = Nothing /\ stage' = <<>> /\ backoff' = 0
    /\ signal' = FALSE /\ cancelled' = FALSE
    /\ MayArrive
    /\ UNCHANGED <<dir, failures, sealed, given_up, kept>>

-----------------------------------------------------------------------------
process == \/ Symbolize \/ Gzip \/ ProcessorFails
           \/ OpenForWrite \/ WriteBack \/ WriteBackFails
           \/ BreakerOpen \/ BeginUpload \/ Uploaded \/ UploadFails
           \/ RemoveUploaded \/ RemoveUploadedFails
           \/ GiveUp \/ Processed

run_loop == BuildPipeline \/ find_sealed_segments \/ SkipSegment \/ ReadSegment \/ EndCycle \/ Wake \/ process

Writer == WriterSeals \/ WriterEvicts \/ WriterGoesOn \/ WriterFinishes

Next == Writer \/ Stop \/ run_loop \/ Notice \/ TimedOut \/ Restart

Fairness == WF_vars(run_loop) /\ SF_vars(Notice)

Spec == Init /\ [][Next]_vars /\ Fairness

-----------------------------------------------------------------------------
(* Properties *)

Segments == [run : 0 .. MaxRestarts, index : Nat, sec : 0 .. MaxRestarts]
Contents == [seg : Segments, sec : 0 .. MaxRestarts, sym : -1 .. MaxRestarts, gz : BOOLEAN, whole : BOOLEAN]
Processors == {"Symbolize", "Gzip", "WriteBack", "S3Upload"}

\* The variables have their types, and the worker holds a segment while it processes one.
TypeOK ==
    /\ DOMAIN dir \subseteq Nat /\ \A i \in DOMAIN dir : dir[i] \in Contents /\ dir[i].seg.index = i
    /\ closed \in Seq(Nat) /\ next_index \in Nat \ {0}
    /\ phase \in {"idle", "opening", "evicting", "finished"}
    /\ run \in 0 .. MaxRestarts /\ second \in 0 .. run /\ pipeline \in Pipelines /\ region \in BOOLEAN
    /\ pc \in {"building", "scan", "next", "sleep", "process", "writing", "uploading", "removing", "failed", "exited"}
    /\ found \in BOOLEAN /\ todo \subseteq Nat /\ stage \in Seq(Processors)
    /\ data \in Contents \union {Nothing}
    /\ pc \in {"process", "writing", "uploading", "removing", "failed"} =>
          todo # {} /\ data \in Contents /\ data.seg.index = segment
    /\ backoff \in Nat /\ signal \in BOOLEAN /\ cancelled \in BOOLEAN /\ failures \in Nat
    /\ \A k \in DOMAIN bucket : bucket[k] \in Contents
    /\ DOMAIN uploads \subseteq Segments /\ DOMAIN kept \subseteq Segments
    /\ given_up \subseteq Segments /\ sealed \subseteq Segments

OnDisk(s) == s.index \in DOMAIN dir /\ dir[s.index].seg = s
InS3(s) == \E k \in DOMAIN bucket : bucket[k].seg = s

\* another segment has its name, in the directory or, in the same second, in S3; the
\* second is a later one for a segment that an earlier run has written back
Shadowed(s) == \E t \in sealed : t.index = s.index /\ t.run # s.run
WritesBack == \E c \in Configs : ~c.s3
Replaced(s) == \E k \in DOMAIN bucket : /\ k.index = s.index /\ bucket[k].seg # s
                                        /\ k.sec = s.sec \/ (WritesBack /\ k.sec > s.sec)

\* No sealed segment is lost: it is on disk or in S3, the writer has evicted it or
\* a processor failed on it, except that a restarted program uses its name again.
Accounted ==
    \A s \in sealed : \/ OnDisk(s) \/ InS3(s) \/ s \in given_up
                      \/ IF s \in DOMAIN uploads THEN Replaced(s) ELSE Shadowed(s)

\* What is uploaded is compressed, whole, and symbolized with the map of the run that
\* wrote it, unless that run has left it to a later one.
UploadsWhole ==
    \A k \in DOMAIN bucket : LET c == bucket[k]
                            IN  c.gz /\ (run = 0 => c.whole /\ c.sym \in {-1, c.seg.run})

\* A segment is uploaded again only when its file could not be removed, neither
\* after the upload nor after that failure, or the program was restarted.
UploadedOnce == \A s \in DOMAIN uploads : uploads[s] <= 1 + run + Times(kept, s) \div 2

\* A file cut short by the write-back does not stay: the worker writes it or gives
\* it up, unless the program crashes or the file cannot be removed.
NoTornFile ==
    \A i \in DOMAIN dir : \/ dir[i].whole \/ run > 0
                          \/ pc \in {"writing", "failed"} /\ i = segment
                          \/ dir[i].seg \in DOMAIN kept

\* Every sealed segment is dealt with, as long as the worker is not told to stop.
Raw(i) == i \in DOMAIN dir /\ ~dir[i].gz
SegmentsSettle == \A i \in 0 .. MaxSegments - 1 : Raw(i) ~> ~Raw(i) \/ signal

\* The README says of the worker: "It never crashes or blocks the application".
\* A shutdown, which joins the worker's thread, returns.
WorkerStops == signal ~> pc = "exited" \/ ~signal
=============================================================================
