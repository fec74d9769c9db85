------------------------- MODULE SegmentWorkerProofs -------------------------
(***************************************************************************)
(* Proofs about SegmentWorker, for any configurations, any number of       *)
(* segments, failures and restarts, and whatever may fail.                 *)
(***************************************************************************)
EXTENDS SegmentWorker, TLAPS

-----------------------------------------------------------------------------
(* The invariants *)

Busy == pc \in {"process", "writing", "uploading", "removing", "failed"}
LastOf(p) == IF "S3Upload" \in Range(p) THEN "S3Upload" ELSE "WriteBack"
Sink == LastOf(pipeline)

\* The segment of a run and an index is one, and the one being written is not sealed yet.
SealedOnce ==
    /\ \A s \in sealed : /\ s.run <= run /\ s.sec <= second
                         /\ s.run = run => s.sec = second /\ (s.index < next_index - 1 \/ phase = "finished")
    /\ \A s, t \in sealed : s.run = t.run /\ s.index = t.index => s = t

\* What is in the directory, in hand and in S3 was sealed; what is in S3 was uploaded.
Known ==
    /\ \A i \in DOMAIN dir : dir[i].seg \in sealed
    /\ Busy => data.seg \in sealed
    /\ DOMAIN uploads \subseteq sealed
    /\ \A k \in DOMAIN bucket : bucket[k].seg \in DOMAIN uploads
    /\ pc = "removing" => data.seg \in DOMAIN uploads

\* The processors that are left are the end of the pipeline, and behind the compressor
\* the bytes are compressed.
Staged ==
    /\ pc = "process" => \/ stage \in {<<"Symbolize", "Gzip", Sink>>, <<"Gzip", Sink>>, <<>>}
                         \/ stage = <<Sink>> /\ data.gz
    /\ pc = "writing" => Sink = "WriteBack" /\ stage = <<Sink>> /\ data.gz
    /\ pc \in {"uploading", "removing"} => Sink = "S3Upload" /\ stage = <<Sink>> /\ data.gz

\* The second of a file is the segment's own or, when it was written back, a later one.
Dated(c) == c.sec = c.seg.sec \/ (WritesBack /\ c.sec > c.seg.sec)
Dates ==
    /\ \A i \in DOMAIN dir : Dated(dir[i])
    /\ Busy => Dated(data)
    /\ \A k \in DOMAIN bucket : Dated(bucket[k]) /\ object_key(bucket[k]) = k

\* What was uploaded is in S3, or an object of the same name is there in its place.
Stored == \A s \in DOMAIN uploads : InS3(s) \/ Replaced(s)

\* In the first run files are cut short by the write-back only, and nobody else's memory map
\* was used.
Genuine(c) == c.sym \in {-1, c.seg.run} /\ (c.whole \/ Sink = "WriteBack")
FirstRun ==
    run = 0 => /\ \A i \in DOMAIN dir : Genuine(dir[i])
               /\ Busy => Genuine(data)

\* A file that is cut short is the one in hand, which is whole.
Torn(i) == i \in DOMAIN dir /\ ~dir[i].whole
InHandWhole ==
    run = 0 /\ Busy => /\ data.whole \/ data.seg \in DOMAIN kept
                       /\ pc \in {"writing", "failed"} /\ Torn(segment) =>
                             dir[segment].seg = data.seg \/ dir[segment].seg \in DOMAIN kept

\* How often a segment has been uploaded, by where it is: as long as an upload may come, once
\* less than a run may, and two removals that fail make up for an upload.
Uploads(s) == Times(uploads, s)
Kept(s) == Times(kept, s)
Counts == /\ \A s \in DOMAIN uploads : uploads[s] \in Nat
          /\ \A s \in DOMAIN kept : kept[s] \in Nat
InHandAt(states, s) == pc \in states /\ data.seg = s
MayUpload(s) ==
    \/ OnDisk(s) /\ pc # "exited" /\ ~InHandAt({"removing", "failed"}, s)
    \/ InHandAt({"writing", "uploading"}, s)
    \/ InHandAt({"process"}, s) /\ stage # <<>>
Budget ==
    \A s \in sealed :
        /\ Uploads(s) <= 1 + run + Kept(s) \div 2
        /\ MayUpload(s) => Uploads(s) <= run + Kept(s) \div 2
        /\ InHandAt({"failed"}, s) => Uploads(s) <= run + (Kept(s) + 1) \div 2

-----------------------------------------------------------------------------
(* Functions and contents *)

LEMMA ContentFacts ==
    ASSUME NEW s \in Segments
    PROVE  LET c == Content(s)
           IN  c \in Contents /\ c.seg = s /\ c.sec = s.sec /\ c.sym = -1 /\ ~c.gz /\ c.whole
<1>1. s.sec \in 0 .. MaxRestarts /\ MaxRestarts \in Nat
  BY WorkerAssumption DEF Segments
<1> QED BY <1>1 DEF Content, Contents

LEMMA InHandFacts ==
    ASSUME NEW f \in Contents
    PROVE  LET c == InHand(f)
           IN  /\ c \in Contents /\ c.seg = f.seg /\ c.sym = f.sym /\ c.gz = f.gz /\ c.whole = f.whole
               /\ c.sec \in {f.sec, f.seg.sec}
  BY DEF InHand, creation_epoch_secs, Contents, Segments

LEMMA CurrentType == TypeOK => current \in Segments /\ current.index = next_index - 1
                               /\ current.run = run /\ current.sec = second
  BY WorkerAssumption DEF TypeOK, current, Segments

LEMMA ConsFacts ==
    ASSUME NEW S, NEW a \in S, NEW b \in S, NEW c \in S
    PROVE  /\ <<a, b, c>> \in Seq(S) /\ <<b, c>> \in Seq(S) /\ <<a>> \in Seq(S)
           /\ <<a>> \o <<b, c>> = <<a, b, c>> /\ <<>> \o <<b, c>> = <<b, c>>
<1>1. <<a, b, c>> \in Seq(S) /\ Len(<<a, b, c>>) = 3
  OBVIOUS
<1>2. <<b, c>> \in Seq(S) /\ <<a>> \in Seq(S) /\ Len(<<b, c>>) = 2 /\ Len(<<a>>) = 1
  OBVIOUS
<1>3. <<>> \o <<b, c>> = <<b, c>>
  BY <1>2
<1>4. <<a>> \o <<b, c>> = <<a, b, c>>
  <2> DEFINE s == <<a>> \o <<b, c>>
  <2>1. s \in Seq(S) /\ Len(s) = 3 /\ s[1] = a /\ s[2] = b /\ s[3] = c
    BY <1>2
  <2> HIDE DEF s
  <2>2. s = <<a, b, c>>
    BY <1>1, <2>1
  <2> QED BY <2>2 DEF s
<1> QED BY <1>1, <1>2, <1>3, <1>4

\* A pipeline ends with the uploader or with the write-back.
LEMMA PipelineFacts ==
    \A p \in Pipelines :
        /\ p \in Seq(Processors)
        /\ p = <<"Symbolize", "Gzip", LastOf(p)>> \/ p = <<"Gzip", LastOf(p)>>
        /\ LastOf(p) = "WriteBack" => WritesBack
<1> SUFFICES ASSUME NEW p \in Pipelines
             PROVE  /\ p \in Seq(Processors)
                    /\ p = <<"Symbolize", "Gzip", LastOf(p)>> \/ p = <<"Gzip", LastOf(p)>>
                    /\ LastOf(p) = "WriteBack" => WritesBack
  BY DEF LastOf
<1> PICK c \in Configs : p = build_pipeline(c)
  BY DEF Pipelines
<1> DEFINE last == IF c.s3 THEN "S3Upload" ELSE "WriteBack"
<1>0. last \in Processors /\ last \in {"S3Upload", "WriteBack"} /\ "Gzip" \in Processors /\ "Symbolize" \in Processors
  BY DEF Processors
<1>1. p = <<"Symbolize", "Gzip", last>> \/ p = <<"Gzip", last>>
  <2>1. CASE c.symbolize
    BY <2>1, <1>0, ConsFacts DEF build_pipeline
  <2>2. CASE ~c.symbolize
    BY <2>2, <1>0, ConsFacts DEF build_pipeline
  <2> QED BY <2>1, <2>2
<1>3. last = "WriteBack" => WritesBack
  BY DEF WritesBack
<1>4. last = "S3Upload" <=> c.s3
  OBVIOUS
<1> HIDE DEF last
<1>5. p \in Seq(Processors)
  BY <1>0, <1>1, ConsFacts
<1>6. Range(p) = {"Symbolize", "Gzip", last} \/ Range(p) = {"Gzip", last}
  BY <1>1 DEF Range
<1>7. last = LastOf(p)
  BY <1>0, <1>6 DEF LastOf
<1> QED BY <1>1, <1>3, <1>5, <1>7

-----------------------------------------------------------------------------
(* Type correctness *)

DirType == DOMAIN dir \subseteq Nat /\ \A i \in DOMAIN dir : dir[i] \in Contents /\ dir[i].seg.index = i
WriterType ==
    /\ closed \in Seq(Nat) /\ next_index \in Nat \ {0}
    /\ phase \in {"idle", "opening", "evicting", "finished"}
RunType ==
    /\ run \in 0 .. MaxRestarts /\ second \in 0 .. run /\ pipeline \in Pipelines /\ region \in BOOLEAN
    /\ backoff \in Nat /\ signal \in BOOLEAN /\ cancelled \in BOOLEAN /\ failures \in Nat
WorkType ==
    /\ pc \in {"building", "scan", "next", "sleep", "process", "writing", "uploading", "removing", "failed", "exited"}
    /\ found \in BOOLEAN /\ todo \subseteq Nat /\ stage \in Seq(Processors)
    /\ data \in Contents \union {Nothing}
    /\ Busy => todo # {} /\ data \in Contents /\ data.seg.index = segment
GhostType ==
    /\ \A k \in DOMAIN bucket : bucket[k] \in Contents
    /\ DOMAIN uploads \subseteq Segments /\ DOMAIN kept \subseteq Segments
    /\ given_up \subseteq Segments /\ sealed \subseteq Segments

LEMMA TypeParts == TypeOK <=> DirType /\ WriterType /\ RunType /\ WorkType /\ GhostType
  BY DEF TypeOK, DirType, WriterType, RunType, WorkType, GhostType, Busy

LEMMA TypeInit == Init => TypeOK
<1> SUFFICES ASSUME Init PROVE TypeOK
  OBVIOUS
<1>1. DirType
  BY DEF Init, DirType
<1>2. WriterType
  BY DEF Init, WriterType
<1>3. RunType
  <2>1. region \in BOOLEAN /\ signal \in BOOLEAN /\ cancelled \in BOOLEAN /\ pipeline \in Pipelines
    BY DEF Init
  <2>2. run \in 0 .. MaxRestarts /\ second \in 0 .. run /\ backoff \in Nat /\ failures \in Nat
    BY WorkerAssumption DEF Init
  <2> QED BY <2>1, <2>2 DEF RunType
<1>4. WorkType
  <2>1. found \in BOOLEAN
    BY DEF Init
  <2>2. pc = "building" /\ todo \subseteq Nat /\ stage \in Seq(Processors) /\ data \in Contents \union {Nothing}
    BY DEF Init
  <2> QED BY <2>1, <2>2 DEF WorkType, Busy
<1>5. GhostType
  BY DEF Init, GhostType
<1> QED BY <1>1, <1>2, <1>3, <1>4, <1>5, TypeParts

LEMMA FailsType ==
    ASSUME NEW op, failures \in Nat, Fails(op)
    PROVE  failures' \in Nat
  BY DEF Fails

\* What the bytes in hand become.
LEMMA DataFacts ==
    ASSUME TypeOK, Busy
    PROVE  /\ data \in Contents /\ data.seg \in Segments /\ data.seg.index = segment /\ todo # {}
           /\ \A gz \in BOOLEAN : LET c == [data EXCEPT !.whole = FALSE, !.gz = gz, !.sec = second]
                                  IN  c \in Contents /\ c.seg = data.seg /\ ~c.whole /\ c.sym = data.sym /\ c.sec = second
           /\ LET c == [data EXCEPT !.sec = second]
              IN  /\ c \in Contents /\ c.seg = data.seg /\ c.whole = data.whole /\ c.sym = data.sym
                  /\ c.gz = data.gz /\ c.sec = second
           /\ LET c == [data EXCEPT !.gz = TRUE]
              IN  /\ c \in Contents /\ c.seg = data.seg /\ c.whole = data.whole /\ c.sym = data.sym
                  /\ c.gz /\ c.sec = data.sec
           /\ LET c == [data EXCEPT !.sym = run]
              IN  /\ c \in Contents /\ c.seg = data.seg /\ c.whole = data.whole /\ c.sym = run
                  /\ c.gz = data.gz /\ c.sec = data.sec
<1>1. data \in Contents /\ data.seg.index = segment /\ todo # {}
  BY TypeParts DEF WorkType
<1>2. second \in 0 .. MaxRestarts /\ run \in -1 .. MaxRestarts
  BY TypeParts, WorkerAssumption DEF RunType
<1> QED BY <1>1, <1>2 DEF Contents

LEMMA WrittenFacts ==
    ASSUME TypeOK, pc = "writing"
    PROVE  \/ Written = dir
           \/ /\ segment \in DOMAIN dir /\ dir[segment].seg = data.seg
              /\ DOMAIN Written = DOMAIN dir /\ Written[segment] = [data EXCEPT !.sec = second]
              /\ \A i \in DOMAIN dir \ {segment} : Written[i] = dir[i]
  BY DEF Written

\* The loop of the worker leaves the writer and the run alone.
LEMMA LoopKeeps ==
    ASSUME run_loop
    PROVE  UNCHANGED <<closed, next_index, phase, run, second, pipeline, signal, cancelled, sealed>>
<1> USE DEF others, writer, process_vars, ghosts
<1>1. CASE BuildPipeline \/ find_sealed_segments \/ SkipSegment \/ ReadSegment \/ EndCycle \/ Wake
  BY <1>1 DEF BuildPipeline, find_sealed_segments, SkipSegment, ReadSegment, EndCycle, Wake
<1>2. CASE Symbolize \/ Gzip \/ ProcessorFails \/ OpenForWrite \/ WriteBack \/ WriteBackFails
  BY <1>2 DEF Symbolize, Gzip, ProcessorFails, OpenForWrite, WriteBack, WriteBackFails
<1>3. CASE BreakerOpen \/ BeginUpload \/ Uploaded \/ UploadFails
  BY <1>3 DEF BreakerOpen, BeginUpload, Uploaded, UploadFails
<1>4. CASE RemoveUploaded \/ RemoveUploadedFails \/ GiveUp \/ Processed
  BY <1>4 DEF RemoveUploaded, RemoveUploadedFails, GiveUp, Processed
<1> QED BY <1>1, <1>2, <1>3, <1>4 DEF run_loop, process

-----------------------------------------------------------------------------
LEMMA WriterNext == TypeOK /\ [Next]_vars => WriterType'
<1> SUFFICES ASSUME TypeOK, [Next]_vars PROVE WriterType'
  OBVIOUS
<1> USE DEF WriterType
<1>0. WriterType
  BY TypeParts
<1>1. CASE WriterSeals
  BY <1>0, <1>1 DEF WriterSeals, Source!Seal
<1>2. CASE WriterEvicts
  BY <1>0, <1>2 DEF WriterEvicts, Source!Evict
<1>3. CASE WriterGoesOn
  BY <1>0, <1>3 DEF WriterGoesOn, Source!Open, Source!EvictionEnds
<1>4. CASE WriterFinishes
  BY <1>0, <1>4 DEF WriterFinishes, Source!Finish
<1>5. CASE Restart
  BY <1>0, <1>5 DEF Restart
<1>6. CASE Stop \/ Notice \/ TimedOut \/ UNCHANGED vars
  BY <1>0, <1>6 DEF Stop, Notice, TimedOut, others, writer, vars
<1>7. CASE run_loop
  BY <1>0, <1>7, LoopKeeps
<1> QED BY <1>1, <1>2, <1>3, <1>4, <1>5, <1>6, <1>7 DEF Next, Writer

LEMMA FailuresNext == TypeOK /\ [Next]_vars => failures' \in Nat
<1> SUFFICES ASSUME TypeOK, [Next]_vars PROVE failures' \in Nat
  OBVIOUS
<1> USE DEF others, writer, process_vars, ghosts, workerVars
<1>0. failures \in Nat
  BY TypeParts DEF RunType
<1>1. failures' = failures \/ \E op : Fails(op)
  <2>1. CASE Writer
    BY <2>1 DEF Writer, WriterSeals, WriterEvicts, WriterGoesOn, WriterFinishes
  <2>2. CASE Stop \/ Notice \/ TimedOut \/ Restart \/ UNCHANGED vars
    BY <2>2 DEF Stop, Notice, TimedOut, Restart, vars
  <2>3. CASE BuildPipeline \/ find_sealed_segments \/ SkipSegment \/ ReadSegment \/ EndCycle \/ Wake
    BY <2>3 DEF BuildPipeline, detect_bucket_region, find_sealed_segments, SkipSegment, ReadSegment, EndCycle, Wake
  <2>4. CASE Symbolize \/ Gzip \/ ProcessorFails \/ OpenForWrite \/ WriteBack \/ WriteBackFails
    BY <2>4 DEF Symbolize, Gzip, ProcessorFails, OpenForWrite, WriteBack, WriteBackFails
  <2>5. CASE BreakerOpen \/ BeginUpload \/ Uploaded \/ UploadFails
    BY <2>5 DEF BreakerOpen, BeginUpload, Uploaded, UploadFails
  <2>6. CASE RemoveUploaded \/ RemoveUploadedFails \/ GiveUp \/ Processed
    BY <2>6 DEF RemoveUploaded, RemoveUploadedFails, GiveUp, Processed
  <2> QED BY <2>1, <2>2, <2>3, <2>4, <2>5, <2>6 DEF Next, run_loop, process
<1> QED BY <1>0, <1>1, FailsType

LEMMA BackoffType ==
    ASSUME backoff \in Nat, on_failure
    PROVE  backoff' \in Nat
<1>1. InitialBackoff \in Nat /\ MaxBackoff \in Nat
  BY WorkerAssumption
<1>2. Min({2 * backoff, MaxBackoff}) \in {2 * backoff, MaxBackoff}
  BY <1>1 DEF Min
<1> QED BY <1>1, <1>2 DEF on_failure

LEMMA RunNext == TypeOK /\ [Next]_vars => RunType'
<1> SUFFICES ASSUME TypeOK, [Next]_vars PROVE RunType'
  OBVIOUS
<1> USE DEF others, writer, process_vars, ghosts, workerVars
<1>0. RunType /\ failures' \in Nat
  BY TypeParts, FailuresNext
<1>r. region' \in BOOLEAN
  <2>0. region \in BOOLEAN
    BY <1>0 DEF RunType
  <2>1. CASE Restart \/ BuildPipeline
    BY <2>0, <2>1 DEF Restart, BuildPipeline, detect_bucket_region
  <2>2. CASE Writer
    BY <2>0, <2>2 DEF Writer, WriterSeals, WriterEvicts, WriterGoesOn, WriterFinishes
  <2>3. CASE Stop \/ Notice \/ TimedOut \/ UNCHANGED vars
    BY <2>0, <2>3 DEF Stop, Notice, TimedOut, vars
  <2>4. CASE find_sealed_segments \/ SkipSegment \/ ReadSegment \/ EndCycle \/ Wake
    BY <2>0, <2>4 DEF find_sealed_segments, SkipSegment, ReadSegment, EndCycle, Wake
  <2>5. CASE process
    BY <2>0, <2>5 DEF process, Symbolize, Gzip, ProcessorFails, OpenForWrite, WriteBack, WriteBackFails,
                      BreakerOpen, BeginUpload, Uploaded, UploadFails,
                      RemoveUploaded, RemoveUploadedFails, GiveUp, Processed
  <2> QED BY <2>1, <2>2, <2>3, <2>4, <2>5 DEF Next, run_loop
<1>b. backoff' \in Nat
  <2>0. backoff \in Nat
    BY <1>0 DEF RunType
  <2>1. CASE Restart \/ UploadFails \/ RemoveUploaded \/ RemoveUploadedFails
    BY <2>0, <2>1, BackoffType DEF Restart, UploadFails, RemoveUploaded, RemoveUploadedFails, on_success
  <2>2. CASE Writer
    BY <2>0, <2>2 DEF Writer, WriterSeals, WriterEvicts, WriterGoesOn, WriterFinishes
  <2>3. CASE Stop \/ Notice \/ TimedOut \/ UNCHANGED vars
    BY <2>0, <2>3 DEF Stop, Notice, TimedOut, vars
  <2>4. CASE BuildPipeline \/ find_sealed_segments \/ SkipSegment \/ ReadSegment \/ EndCycle \/ Wake
    BY <2>0, <2>4 DEF BuildPipeline, find_sealed_segments, SkipSegment, ReadSegment, EndCycle, Wake
  <2>5. CASE Symbolize \/ Gzip \/ ProcessorFails \/ OpenForWrite \/ WriteBack \/ WriteBackFails
    BY <2>0, <2>5 DEF Symbolize, Gzip, ProcessorFails, OpenForWrite, WriteBack, WriteBackFails
  <2>6. CASE BreakerOpen \/ BeginUpload \/ Uploaded \/ GiveUp \/ Processed
    BY <2>0, <2>6 DEF BreakerOpen, BeginUpload, Uploaded, GiveUp, Processed
  <2> QED BY <2>1, <2>2, <2>3, <2>4, <2>5, <2>6 DEF Next, run_loop, process
<1>s. signal' \in BOOLEAN /\ cancelled' \in BOOLEAN
  <2>0. signal \in BOOLEAN /\ cancelled \in BOOLEAN
    BY <1>0 DEF RunType
  <2>1. CASE Writer
    BY <2>0, <2>1 DEF Writer, WriterSeals, WriterEvicts, WriterGoesOn, WriterFinishes
  <2>2. CASE Stop \/ Notice \/ TimedOut \/ Restart \/ UNCHANGED vars
    BY <2>0, <2>2 DEF Stop, Notice, TimedOut, Restart, vars
  <2>3. CASE run_loop
    BY <2>0, <2>3, LoopKeeps
  <2> QED BY <2>1, <2>2, <2>3 DEF Next
<1>p. run' \in 0 .. MaxRestarts /\ second' \in 0 .. run' /\ pipeline' \in Pipelines
  <2>0. run \in 0 .. MaxRestarts /\ second \in 0 .. run /\ pipeline \in Pipelines
    BY <1>0 DEF RunType
  <2>1. CASE Restart
    <3>1. run' = run + 1 /\ run < MaxRestarts /\ pipeline' \in Pipelines /\ second' \in {second, second + 1}
      BY <2>1 DEF Restart
    <3> QED BY <2>0, <3>1, WorkerAssumption
  <2>2. CASE Writer
    BY <2>0, <2>2 DEF Writer, WriterSeals, WriterEvicts, WriterGoesOn, WriterFinishes
  <2>3. CASE Stop \/ Notice \/ TimedOut \/ UNCHANGED vars
    BY <2>0, <2>3 DEF Stop, Notice, TimedOut, vars
  <2>4. CASE run_loop
    BY <2>0, <2>4, LoopKeeps
  <2> QED BY <2>1, <2>2, <2>3, <2>4 DEF Next
<1> QED BY <1>0, <1>r, <1>b, <1>s, <1>p DEF RunType

\* What a step may do to the directory, and what it knows of the segment in hand then.
LEMMA DirSteps ==
    ASSUME TypeOK, [Next]_vars
    PROVE  \/ dir' = dir
           \/ /\ WriterSeals \/ WriterFinishes
              /\ dir' = With(dir, current.index, Content(current)) /\ sealed' = sealed \union {current}
           \/ WriterEvicts /\ closed # <<>> /\ dir' = Without(dir, Head(closed))
           \/ (RemoveUploaded \/ TimedOut) /\ pc = "removing" /\ dir' = Without(dir, segment)
           \/ GiveUp /\ pc = "failed" /\ dir' = Without(dir, segment)
           \/ /\ OpenForWrite /\ At("WriteBack")
              /\ \E gz \in BOOLEAN :
                    dir' = With(dir, segment, [data EXCEPT !.whole = FALSE, !.gz = gz, !.sec = second])
           \/ /\ WriteBack \/ TimedOut
              /\ pc = "writing" /\ dir' = Written
<1> USE DEF others, writer, process_vars, ghosts, workerVars
<1>1. CASE Writer
  BY <1>1 DEF Writer, WriterSeals, WriterEvicts, WriterGoesOn, WriterFinishes
<1>2. CASE Stop \/ Notice \/ Restart \/ UNCHANGED vars
  BY <1>2 DEF Stop, Notice, Restart, vars
<1>3. CASE BuildPipeline \/ find_sealed_segments \/ SkipSegment \/ ReadSegment \/ EndCycle \/ Wake
  BY <1>3 DEF BuildPipeline, find_sealed_segments, SkipSegment, ReadSegment, EndCycle, Wake
<1>4. CASE Symbolize \/ Gzip \/ ProcessorFails \/ WriteBackFails
  BY <1>4 DEF Symbolize, Gzip, ProcessorFails, WriteBackFails
<1>5. CASE BreakerOpen \/ BeginUpload \/ Uploaded \/ UploadFails \/ RemoveUploadedFails \/ Processed
  BY <1>5 DEF BreakerOpen, BeginUpload, Uploaded, UploadFails, RemoveUploadedFails, Processed
<1>6. CASE OpenForWrite \/ WriteBack
  BY <1>6 DEF OpenForWrite, WriteBack
<1>7. CASE RemoveUploaded \/ GiveUp
  BY <1>7 DEF RemoveUploaded, GiveUp
<1>8. CASE TimedOut
  <2>1. CASE pc = "writing"
    BY <1>8, <2>1 DEF TimedOut
  <2>2. CASE pc = "removing"
    BY <1>8, <2>2 DEF TimedOut
  <2>3. CASE pc \notin {"writing", "removing"}
    BY <1>8, <2>3 DEF TimedOut
  <2> QED BY <2>1, <2>2, <2>3
<1> QED BY <1>1, <1>2, <1>3, <1>4, <1>5, <1>6, <1>7, <1>8 DEF Next, run_loop, process

LEMMA DirNext == TypeOK /\ [Next]_vars => DirType'
<1> SUFFICES ASSUME TypeOK, [Next]_vars PROVE DirType'
  OBVIOUS
<1>0. DirType
  BY TypeParts
<1>1. CASE dir' = dir
  BY <1>0, <1>1 DEF DirType
<1>2. CASE dir' = With(dir, current.index, Content(current))
  <2> DEFINE c == Content(current)
             i == current.index
  <2>1. c \in Contents /\ c.seg.index = i /\ i \in Nat
    BY CurrentType, ContentFacts DEF Segments
  <2>a. dir' = With(dir, i, c)
    BY <1>2
  <2> HIDE DEF c, i
  <2>2. DOMAIN dir' = DOMAIN dir \union {i} /\ dir'[i] = c /\ \A j \in DOMAIN dir \ {i} : dir'[j] = dir[j]
    BY <2>a DEF With
  <2> QED BY <1>0, <2>1, <2>2 DEF DirType
<1>3. ASSUME NEW i, dir' = Without(dir, i) PROVE DirType'
  <2>1. DOMAIN dir' = DOMAIN dir \ {i} /\ \A j \in DOMAIN dir \ {i} : dir'[j] = dir[j]
    BY <1>3 DEF Without
  <2> QED BY <1>0, <2>1 DEF DirType
<1>4. ASSUME NEW gz \in BOOLEAN, At("WriteBack"),
             dir' = With(dir, segment, [data EXCEPT !.whole = FALSE, !.gz = gz, !.sec = second])
      PROVE  DirType'
  <2> DEFINE c == [data EXCEPT !.whole = FALSE, !.gz = gz, !.sec = second]
  <2>1. Busy
    BY <1>4 DEF At, Busy
  <2>2. c \in Contents /\ c.seg = data.seg /\ data.seg \in Segments /\ data.seg.index = segment
    BY <2>1, DataFacts
  <2>3. segment \in Nat
    BY <2>2 DEF Segments
  <2>a. dir' = With(dir, segment, c)
    BY <1>4
  <2> HIDE DEF c
  <2>4. /\ DOMAIN dir' = DOMAIN dir \union {segment} /\ dir'[segment] = c
        /\ \A j \in DOMAIN dir \ {segment} : dir'[j] = dir[j]
    BY <2>a DEF With
  <2> QED BY <1>0, <2>2, <2>3, <2>4 DEF DirType
<1>5. CASE pc = "writing" /\ dir' = Written
  <2> DEFINE c == [data EXCEPT !.sec = second]
  <2>1. Busy
    BY <1>5 DEF Busy
  <2>2. c \in Contents /\ c.seg = data.seg /\ data.seg.index = segment
    BY <2>1, DataFacts
  <2> HIDE DEF c
  <2> QED BY <1>0, <1>5, <2>2, WrittenFacts DEF DirType, c
<1> QED BY <1>1, <1>2, <1>3, <1>4, <1>5, DirSteps

LEMMA WorkNext == TypeOK /\ Staged /\ [Next]_vars => WorkType'
<1> SUFFICES ASSUME TypeOK, Staged, [Next]_vars PROVE WorkType'
  OBVIOUS
<1> USE DEF others, writer, process_vars, ghosts, workerVars, segment
<1>0. WorkType /\ DirType /\ pipeline \in Pipelines
  BY TypeParts DEF RunType
<1>1. CASE Writer
  BY <1>0, <1>1 DEF Writer, WriterSeals, WriterEvicts, WriterGoesOn, WriterFinishes, WorkType, Busy
<1>2. CASE Stop \/ Notice \/ UNCHANGED vars
  BY <1>0, <1>2 DEF Stop, Notice, vars, WorkType, Busy
<1>3. CASE TimedOut \/ Restart
  <2>1. found' = FALSE /\ todo' = {} /\ data' = Nothing /\ stage' = <<>> /\ pc' \in {"exited", "building"}
    BY <1>3 DEF TimedOut, Restart
  <2>2. ~Busy' /\ found' \in BOOLEAN
    BY <2>1 DEF Busy
  <2>3. todo' \subseteq Nat /\ stage' \in Seq(Processors)
    BY <2>1
  <2> QED BY <2>1, <2>2, <2>3 DEF WorkType
<1>4. CASE BuildPipeline
  BY <1>0, <1>4 DEF BuildPipeline, WorkType, Busy
<1>5. CASE find_sealed_segments
  <2>1. todo' \subseteq Nat /\ found' \in BOOLEAN
    BY <1>0, <1>5 DEF find_sealed_segments, DirType
  <2> QED BY <1>0, <1>5, <2>1 DEF find_sealed_segments, WorkType, Busy
<1>6. CASE SkipSegment
  BY <1>0, <1>6 DEF SkipSegment, WorkType, Busy
<1>7. CASE ReadSegment
  <2>1. dir[segment] \in Contents /\ dir[segment].seg.index = segment
    BY <1>0, <1>7 DEF ReadSegment, DirType
  <2>2. data' \in Contents /\ data'.seg.index = segment /\ stage' \in Seq(Processors)
    BY <1>0, <1>7, <2>1, InHandFacts, PipelineFacts DEF ReadSegment
  <2> QED BY <1>0, <1>7, <2>2 DEF ReadSegment, WorkType, Busy
<1>8. CASE EndCycle
  BY <1>0, <1>8 DEF EndCycle, WorkType, Busy
<1>9. CASE Wake
  BY <1>0, <1>9 DEF Wake, WorkType, Busy
<1>10. CASE Symbolize \/ Gzip
  <2>1. Busy /\ stage # <<>> /\ pc = "process"
    BY <1>10 DEF Symbolize, Gzip, At, Busy
  <2>2. data' \in Contents /\ data'.seg = data.seg
    BY <1>10, <2>1, DataFacts DEF Symbolize, Gzip
  <2>3. stage' \in Seq(Processors)
    BY <1>0, <1>10, <2>1 DEF Symbolize, Gzip, WorkType
  <2>4. UNCHANGED <<pc, found, todo>>
    BY <1>10 DEF Symbolize, Gzip
  <2> QED BY <1>0, <2>1, <2>2, <2>3, <2>4 DEF WorkType, Busy
<1>11. CASE ProcessorFails \/ OpenForWrite \/ WriteBackFails \/ BreakerOpen \/ BeginUpload \/ Uploaded \/ UploadFails
            \/ RemoveUploadedFails
  <2>1. Busy /\ pc' \in {"failed", "writing", "uploading", "removing"} /\ UNCHANGED <<found, todo, data, stage>>
    BY <1>11 DEF ProcessorFails, OpenForWrite, WriteBackFails, BreakerOpen, BeginUpload, Uploaded, UploadFails,
                 RemoveUploadedFails, At, Busy
  <2> QED BY <1>0, <2>1 DEF WorkType, Busy
<1>12. CASE WriteBack \/ RemoveUploaded
  <2>1. Busy /\ pc' = "process" /\ UNCHANGED <<found, todo, data>> /\ stage' = Tail(stage) /\ pc \in {"writing", "removing"}
    BY <1>12 DEF WriteBack, RemoveUploaded, Busy
  <2>2. stage = <<Sink>>
    BY <2>1 DEF Staged
  <2>3. stage' = <<>> /\ stage' \in Seq(Processors)
    BY <2>1, <2>2
  <2> QED BY <1>0, <2>1, <2>3 DEF WorkType, Busy
<1>13. CASE GiveUp \/ Processed
  <2>1. pc' = "next" /\ found' = found /\ todo' = todo \ {segment} /\ data' = Nothing /\ stage' = <<>>
    BY <1>13 DEF GiveUp, Processed, Drop
  <2>2. ~Busy' /\ found' \in BOOLEAN
    BY <1>0, <2>1 DEF WorkType, Busy
  <2>3. todo' \subseteq Nat
    BY <1>0, <2>1 DEF WorkType
  <2>4. stage' \in Seq(Processors)
    BY <2>1
  <2> QED BY <2>1, <2>2, <2>3, <2>4 DEF WorkType
<1> QED BY <1>1, <1>2, <1>3, <1>4, <1>5, <1>6, <1>7, <1>8, <1>9, <1>10, <1>11, <1>12, <1>13
        DEF Next, run_loop, process

\* What a step may do to what is in S3 and to the counts.
LEMMA BucketSteps ==
    ASSUME [Next]_vars
    PROVE  UNCHANGED <<bucket, uploads>> \/ (pc = "uploading" /\ Arrives)
<1> USE DEF others, writer, process_vars, ghosts, workerVars
<1>1. CASE Writer
  BY <1>1 DEF Writer, WriterSeals, WriterEvicts, WriterGoesOn, WriterFinishes
<1>2. CASE Stop \/ Notice \/ UNCHANGED vars
  BY <1>2 DEF Stop, Notice, vars
<1>3. CASE TimedOut \/ Restart
  BY <1>3 DEF TimedOut, Restart, MayArrive
<1>4. CASE BuildPipeline \/ find_sealed_segments \/ SkipSegment \/ ReadSegment \/ EndCycle \/ Wake
  BY <1>4 DEF BuildPipeline, find_sealed_segments, SkipSegment, ReadSegment, EndCycle, Wake
<1>5. CASE Symbolize \/ Gzip \/ ProcessorFails \/ OpenForWrite \/ WriteBack \/ WriteBackFails
  BY <1>5 DEF Symbolize, Gzip, ProcessorFails, OpenForWrite, WriteBack, WriteBackFails
<1>6. CASE BreakerOpen \/ BeginUpload \/ Uploaded \/ UploadFails
  BY <1>6 DEF BreakerOpen, BeginUpload, Uploaded, UploadFails
<1>7. CASE RemoveUploaded \/ RemoveUploadedFails \/ GiveUp \/ Processed
  BY <1>7 DEF RemoveUploaded, RemoveUploadedFails, GiveUp, Processed
<1> QED BY <1>1, <1>2, <1>3, <1>4, <1>5, <1>6, <1>7 DEF Next, run_loop, process

LEMMA KeptSteps ==
    ASSUME [Next]_vars
    PROVE  \/ kept' = kept
           \/ /\ RemoveUploadedFails \/ GiveUp
              /\ pc \in {"removing", "failed"} /\ kept' = OneMore(kept, data.seg) /\ dir' = dir
<1> USE DEF others, writer, process_vars, ghosts, workerVars
<1>1. CASE Writer
  BY <1>1 DEF Writer, WriterSeals, WriterEvicts, WriterGoesOn, WriterFinishes
<1>2. CASE Stop \/ Notice \/ TimedOut \/ Restart \/ UNCHANGED vars
  BY <1>2 DEF Stop, Notice, TimedOut, Restart, vars
<1>3. CASE BuildPipeline \/ find_sealed_segments \/ SkipSegment \/ ReadSegment \/ EndCycle \/ Wake
  BY <1>3 DEF BuildPipeline, find_sealed_segments, SkipSegment, ReadSegment, EndCycle, Wake
<1>4. CASE Symbolize \/ Gzip \/ ProcessorFails \/ OpenForWrite \/ WriteBack \/ WriteBackFails
  BY <1>4 DEF Symbolize, Gzip, ProcessorFails, OpenForWrite, WriteBack, WriteBackFails
<1>5. CASE BreakerOpen \/ BeginUpload \/ Uploaded \/ UploadFails \/ RemoveUploaded \/ Processed
  BY <1>5 DEF BreakerOpen, BeginUpload, Uploaded, UploadFails, RemoveUploaded, Processed
<1>6. CASE RemoveUploadedFails \/ GiveUp
  BY <1>6 DEF RemoveUploadedFails, GiveUp
<1> QED BY <1>1, <1>2, <1>3, <1>4, <1>5, <1>6 DEF Next, run_loop, process

LEMMA SealedSteps ==
    ASSUME [Next]_vars
    PROVE  \/ sealed' = sealed
           \/ (WriterSeals \/ WriterFinishes) /\ sealed' = sealed \union {current}
<1> USE DEF others, writer, process_vars, ghosts, workerVars
<1>1. CASE Writer
  BY <1>1 DEF Writer, WriterSeals, WriterEvicts, WriterGoesOn, WriterFinishes
<1>2. CASE Stop \/ Notice \/ TimedOut \/ Restart \/ UNCHANGED vars
  BY <1>2 DEF Stop, Notice, TimedOut, Restart, vars
<1>3. CASE run_loop
  BY <1>3, LoopKeeps
<1> QED BY <1>1, <1>2, <1>3 DEF Next

LEMMA GivenUpSteps ==
    ASSUME [Next]_vars
    PROVE  \/ given_up' = given_up
           \/ /\ WriterEvicts /\ dir' = Without(dir, Head(closed))
              /\ given_up' = given_up \union {dir[j].seg : j \in DOMAIN dir \intersect {Head(closed)}}
           \/ GiveUp /\ pc = "failed" /\ given_up' = given_up \union {data.seg}
<1> USE DEF others, writer, process_vars, ghosts, workerVars
<1>1. CASE Writer
  BY <1>1 DEF Writer, WriterSeals, WriterEvicts, WriterGoesOn, WriterFinishes
<1>2. CASE Stop \/ Notice \/ TimedOut \/ Restart \/ UNCHANGED vars
  BY <1>2 DEF Stop, Notice, TimedOut, Restart, vars
<1>3. CASE BuildPipeline \/ find_sealed_segments \/ SkipSegment \/ ReadSegment \/ EndCycle \/ Wake
  BY <1>3 DEF BuildPipeline, find_sealed_segments, SkipSegment, ReadSegment, EndCycle, Wake
<1>4. CASE Symbolize \/ Gzip \/ ProcessorFails \/ OpenForWrite \/ WriteBack \/ WriteBackFails
  BY <1>4 DEF Symbolize, Gzip, ProcessorFails, OpenForWrite, WriteBack, WriteBackFails
<1>5. CASE BreakerOpen \/ BeginUpload \/ Uploaded \/ UploadFails \/ RemoveUploaded \/ RemoveUploadedFails \/ Processed
  BY <1>5 DEF BreakerOpen, BeginUpload, Uploaded, UploadFails, RemoveUploaded, RemoveUploadedFails, Processed
<1>6. CASE GiveUp
  BY <1>6 DEF GiveUp
<1> QED BY <1>1, <1>2, <1>3, <1>4, <1>5, <1>6 DEF Next, run_loop, process

\* What an upload does, in terms of the functions.
LEMMA ArrivesFacts ==
    ASSUME Arrives
    PROVE  LET k == object_key(data)
           IN  /\ DOMAIN bucket' = DOMAIN bucket \union {k} /\ bucket'[k] = data
               /\ \A j \in DOMAIN bucket \ {k} : bucket'[j] = bucket[j]
               /\ DOMAIN uploads' = DOMAIN uploads \union {data.seg}
               /\ uploads'[data.seg] = Times(uploads, data.seg) + 1
               /\ \A s \in DOMAIN uploads \ {data.seg} : uploads'[s] = uploads[s]
               /\ \A s : Times(uploads', s) = IF s = data.seg THEN Times(uploads, s) + 1 ELSE Times(uploads, s)
<1> DEFINE k == object_key(data)
<1>1. bucket' = With(bucket, k, data) /\ uploads' = OneMore(uploads, data.seg)
  BY DEF Arrives
<1> HIDE DEF k
<1>2. DOMAIN bucket' = DOMAIN bucket \union {k} /\ bucket'[k] = data /\ \A j \in DOMAIN bucket \ {k} : bucket'[j] = bucket[j]
  BY <1>1 DEF With
<1>3. /\ DOMAIN uploads' = DOMAIN uploads \union {data.seg} /\ uploads'[data.seg] = Times(uploads, data.seg) + 1
      /\ \A s \in DOMAIN uploads \ {data.seg} : uploads'[s] = uploads[s]
  BY <1>1 DEF OneMore, With
<1>4. \A s : Times(uploads', s) = IF s = data.seg THEN Times(uploads, s) + 1 ELSE Times(uploads, s)
  BY <1>3 DEF Times
<1> QED BY <1>2, <1>3, <1>4 DEF k

LEMMA KeptFacts ==
    ASSUME NEW t, kept' = OneMore(kept, t)
    PROVE  /\ DOMAIN kept' = DOMAIN kept \union {t} /\ kept'[t] = Times(kept, t) + 1
           /\ \A s \in DOMAIN kept \ {t} : kept'[s] = kept[s]
           /\ \A s : Times(kept', s) = IF s = t THEN Times(kept, s) + 1 ELSE Times(kept, s)
<1>1. /\ DOMAIN kept' = DOMAIN kept \union {t} /\ kept'[t] = Times(kept, t) + 1
      /\ \A s \in DOMAIN kept \ {t} : kept'[s] = kept[s]
  BY DEF OneMore, With
<1>2. \A s : Times(kept', s) = IF s = t THEN Times(kept, s) + 1 ELSE Times(kept, s)
  BY <1>1 DEF Times
<1> QED BY <1>1, <1>2

LEMMA GhostNext == TypeOK /\ [Next]_vars => GhostType'
<1> SUFFICES ASSUME TypeOK, [Next]_vars PROVE GhostType'
  OBVIOUS
<1>0. GhostType /\ DirType
  BY TypeParts
<1>1. (\A k \in DOMAIN bucket' : bucket'[k] \in Contents) /\ DOMAIN uploads' \subseteq Segments
  <2>1. CASE UNCHANGED <<bucket, uploads>>
    BY <1>0, <2>1 DEF GhostType
  <2>2. CASE pc = "uploading" /\ Arrives
    <3>1. data \in Contents /\ data.seg \in Segments
      BY <2>2, DataFacts DEF Busy
    <3> QED BY <1>0, <2>2, <3>1, ArrivesFacts DEF GhostType
  <2> QED BY <2>1, <2>2, BucketSteps
<1>2. DOMAIN kept' \subseteq Segments
  <2>1. CASE kept' = kept
    BY <1>0, <2>1 DEF GhostType
  <2>2. CASE pc \in {"removing", "failed"} /\ kept' = OneMore(kept, data.seg)
    <3>1. data.seg \in Segments
      BY <2>2, DataFacts DEF Busy
    <3>2. DOMAIN kept' = DOMAIN kept \union {data.seg}
      BY <2>2, KeptFacts
    <3> QED BY <1>0, <3>1, <3>2 DEF GhostType
  <2> QED BY <2>1, <2>2, KeptSteps
<1>3. given_up' \subseteq Segments
  <2>1. \A i \in DOMAIN dir : dir[i].seg \in Segments
    BY <1>0 DEF DirType, Contents
  <2>2. pc = "failed" => data.seg \in Segments
    BY DataFacts DEF Busy
  <2> QED BY <1>0, <2>1, <2>2, GivenUpSteps DEF GhostType
<1>4. sealed' \subseteq Segments
  BY <1>0, SealedSteps, CurrentType DEF GhostType
<1> QED BY <1>1, <1>2, <1>3, <1>4 DEF GhostType

LEMMA TypeNext == TypeOK /\ Staged /\ [Next]_vars => TypeOK'
<1>1. DirType' /\ WriterType' /\ RunType' /\ WorkType' /\ GhostType' => TypeOK'
  BY DEF TypeOK, DirType, WriterType, RunType, WorkType, GhostType, Busy
<1> QED BY <1>1, DirNext, WriterNext, RunNext, WorkNext, GhostNext

-----------------------------------------------------------------------------
(* The pipeline *)

LEMMA StageFacts ==
    ASSUME NEW l
    PROVE  /\ LET s == <<"Symbolize", "Gzip", l>>
              IN  s # <<>> /\ Head(s) = "Symbolize" /\ Tail(s) = <<"Gzip", l>>
           /\ LET s == <<"Gzip", l>>
              IN  s # <<>> /\ Head(s) = "Gzip" /\ Tail(s) = <<l>>
           /\ <<l>> # <<>> /\ Head(<<l>>) = l /\ Tail(<<l>>) = <<>>
  OBVIOUS

\* The processor a step runs is the first of those that are left.
LEMMA AtFacts ==
    ASSUME TypeOK, Staged, NEW p, At(p)
    PROVE  /\ p = "Symbolize" => stage = <<"Symbolize", "Gzip", Sink>> /\ Tail(stage) = <<"Gzip", Sink>>
           /\ p = "Gzip" => stage = <<"Gzip", Sink>> /\ Tail(stage) = <<Sink>>
           /\ p \in {"WriteBack", "S3Upload"} => p = Sink /\ stage = <<Sink>> /\ data.gz
<1>1. Sink \in {"WriteBack", "S3Upload"}
  BY DEF Sink, LastOf
<1>2. pc = "process" /\ stage # <<>> /\ Head(stage) = p
  BY DEF At
<1>3. stage \in {<<"Symbolize", "Gzip", Sink>>, <<"Gzip", Sink>>} \/ (stage = <<Sink>> /\ data.gz)
  BY <1>2 DEF Staged
<1> HIDE DEF Sink
<1> QED BY <1>1, <1>2, <1>3, StageFacts

LEMMA StagedNext == TypeOK /\ Staged /\ [Next]_vars => Staged'
<1> SUFFICES ASSUME TypeOK, Staged, [Next]_vars PROVE Staged'
  OBVIOUS
<1> USE DEF others, writer, process_vars, ghosts, workerVars
<1>1. CASE Writer
  BY <1>1 DEF Writer, WriterSeals, WriterEvicts, WriterGoesOn, WriterFinishes, Staged, Sink
<1>2. CASE Stop \/ Notice \/ UNCHANGED vars
  BY <1>2 DEF Stop, Notice, vars, Staged, Sink
<1>3. CASE TimedOut \/ Restart
  BY <1>3 DEF TimedOut, Restart, Staged
<1>k. run_loop => Sink' = Sink
  BY LoopKeeps DEF Sink
<1>4. CASE BuildPipeline \/ find_sealed_segments \/ SkipSegment \/ EndCycle \/ Wake
  BY <1>4 DEF BuildPipeline, find_sealed_segments, SkipSegment, EndCycle, Wake, Staged
<1>5. CASE ReadSegment
  <2>1. pc' = "process" /\ stage' = pipeline /\ pipeline \in Pipelines
    BY <1>5, TypeParts DEF ReadSegment, RunType
  <2>2. stage' \in {<<"Symbolize", "Gzip", Sink>>, <<"Gzip", Sink>>}
    BY <2>1, PipelineFacts DEF Sink
  <2> QED BY <1>5, <1>k, <2>1, <2>2 DEF Staged, run_loop
<1>6. CASE Symbolize
  <2>1. pc' = "process" /\ stage' = Tail(stage) /\ At("Symbolize")
    BY <1>6 DEF Symbolize, At
  <2>2. stage' = <<"Gzip", Sink>>
    BY <2>1, AtFacts
  <2> QED BY <1>6, <1>k, <2>1, <2>2 DEF Staged, run_loop, process
<1>7. CASE Gzip
  <2>1. pc' = "process" /\ stage' = Tail(stage) /\ At("Gzip") /\ data' = [data EXCEPT !.gz = TRUE]
    BY <1>7 DEF Gzip, At
  <2>2. stage' = <<Sink>> /\ Busy
    BY <2>1, AtFacts DEF At, Busy
  <2>3. data'.gz
    BY <2>1, <2>2, DataFacts
  <2> QED BY <1>7, <1>k, <2>1, <2>2, <2>3 DEF Staged, run_loop, process
<1>8. CASE ProcessorFails \/ WriteBackFails \/ BreakerOpen \/ UploadFails \/ RemoveUploadedFails \/ GiveUp \/ Processed
  <2>1. pc' \in {"failed", "next"}
    BY <1>8 DEF ProcessorFails, WriteBackFails, BreakerOpen, UploadFails, RemoveUploadedFails, GiveUp, Processed
  <2> QED BY <2>1 DEF Staged
<1>9. CASE OpenForWrite
  <2>1. pc' = "writing" /\ At("WriteBack") /\ UNCHANGED <<stage, data>>
    BY <1>9 DEF OpenForWrite
  <2>2. Sink = "WriteBack" /\ stage = <<Sink>> /\ data.gz
    BY <2>1, AtFacts
  <2> QED BY <1>9, <1>k, <2>1, <2>2 DEF Staged, run_loop, process
<1>10. CASE BeginUpload
  <2>1. pc' = "uploading" /\ At("S3Upload") /\ UNCHANGED <<stage, data>>
    BY <1>10 DEF BeginUpload
  <2>2. Sink = "S3Upload" /\ stage = <<Sink>> /\ data.gz
    BY <2>1, AtFacts
  <2> QED BY <1>10, <1>k, <2>1, <2>2 DEF Staged, run_loop, process
<1>11. CASE Uploaded
  <2>1. pc = "uploading" /\ pc' = "removing" /\ UNCHANGED <<stage, data>>
    BY <1>11 DEF Uploaded
  <2> QED BY <1>11, <1>k, <2>1 DEF Staged, run_loop, process
<1>12. CASE WriteBack \/ RemoveUploaded
  <2>1. pc' = "process" /\ stage' = Tail(stage) /\ pc \in {"writing", "removing"}
    BY <1>12 DEF WriteBack, RemoveUploaded
  <2>2. stage' = <<>>
    BY <2>1, StageFacts DEF Staged
  <2> QED BY <2>1, <2>2 DEF Staged
<1> QED BY <1>1, <1>2, <1>3, <1>4, <1>5, <1>6, <1>7, <1>8, <1>9, <1>10, <1>11, <1>12
        DEF Next, run_loop, process

\* The variables keep their types, however the writer, the worker, failures and
\* restarts interleave.
THEOREM WorkerTypeCorrect == Spec => []TypeOK
<1>1. Init => Staged
  BY DEF Init, Staged
<1> QED BY <1>1, TypeInit, TypeNext, StagedNext, PTL DEF Spec

-----------------------------------------------------------------------------
(* What a step may do to the files and to the bytes in hand *)

\* A file that a step leaves was there, is the segment sealed now, or is the one in hand
\* that is being written back.
LEMMA DirFacts ==
    ASSUME TypeOK, Staged, [Next]_vars, NEW i \in DOMAIN dir'
    PROVE  \/ i \in DOMAIN dir /\ dir'[i] = dir[i]
           \/ /\ i = current.index /\ dir'[i] = Content(current) /\ sealed' = sealed \union {current}
              /\ WriterSeals \/ WriterFinishes
           \/ /\ i = segment /\ dir'[i] \in Contents /\ dir'[i].seg = data.seg
              /\ dir'[i].sec = second /\ dir'[i].sym = data.sym
              /\ Busy /\ Sink = "WriteBack" /\ sealed' = sealed
              /\ OpenForWrite \/ (pc = "writing" /\ dir'[i].whole = data.whole)
<1>1. CASE dir' = dir
  BY <1>1
<1>2. CASE /\ WriterSeals \/ WriterFinishes
           /\ dir' = With(dir, current.index, Content(current)) /\ sealed' = sealed \union {current}
  <2> DEFINE c == Content(current)
             k == current.index
  <2>1. dir' = With(dir, k, c)
    BY <1>2
  <2> HIDE DEF c, k
  <2>2. dir'[k] = c /\ \A j \in DOMAIN dir' \ {k} : j \in DOMAIN dir /\ dir'[j] = dir[j]
    BY <2>1 DEF With
  <2> QED BY <1>2, <2>2 DEF c, k
<1>3. ASSUME NEW k, dir' = Without(dir, k)
      PROVE  i \in DOMAIN dir /\ dir'[i] = dir[i]
  BY <1>3 DEF Without
<1>4. ASSUME NEW gz \in BOOLEAN, OpenForWrite, At("WriteBack"),
             dir' = With(dir, segment, [data EXCEPT !.whole = FALSE, !.gz = gz, !.sec = second])
      PROVE  \/ i \in DOMAIN dir /\ dir'[i] = dir[i]
             \/ /\ i = segment /\ dir'[i] \in Contents /\ dir'[i].seg = data.seg
                /\ dir'[i].sec = second /\ dir'[i].sym = data.sym
                /\ Busy /\ Sink = "WriteBack" /\ sealed' = sealed
  <2> DEFINE c == [data EXCEPT !.whole = FALSE, !.gz = gz, !.sec = second]
  <2>1. Busy /\ Sink = "WriteBack" /\ sealed' = sealed
    BY <1>4, AtFacts, LoopKeeps DEF At, Busy, run_loop, process
  <2>2. c \in Contents /\ c.seg = data.seg /\ c.sec = second /\ c.sym = data.sym
    BY <2>1, DataFacts
  <2>3. dir' = With(dir, segment, c)
    BY <1>4
  <2> HIDE DEF c
  <2>4. dir'[segment] = c /\ \A j \in DOMAIN dir' \ {segment} : j \in DOMAIN dir /\ dir'[j] = dir[j]
    BY <2>3 DEF With
  <2> QED BY <2>1, <2>2, <2>4
<1>5. CASE (WriteBack \/ TimedOut) /\ pc = "writing" /\ dir' = Written
  <2> DEFINE c == [data EXCEPT !.sec = second]
  <2>1. Busy /\ Sink = "WriteBack"
    BY <1>5 DEF Busy, Staged
  <2>2. c \in Contents /\ c.seg = data.seg /\ c.whole = data.whole /\ c.sec = second /\ c.sym = data.sym
    BY <2>1, DataFacts
  <2>3. sealed' = sealed
    BY <1>5 DEF WriteBack, TimedOut, ghosts
  <2>4. dir' = dir \/ (DOMAIN dir' = DOMAIN dir /\ dir'[segment] = c /\ \A j \in DOMAIN dir \ {segment} : dir'[j] = dir[j])
    BY <1>5, WrittenFacts
  <2> HIDE DEF c
  <2> QED BY <1>5, <2>1, <2>2, <2>3, <2>4
<1> QED BY <1>1, <1>2, <1>3, <1>4, <1>5, DirSteps

\* The worker goes on with the segment in hand, reads one, or is done with it.
LEMMA HandSteps ==
    ASSUME TypeOK, [Next]_vars, Busy'
    PROVE  \/ /\ ReadSegment /\ pc = "next" /\ pc' = "process" /\ segment \in DOMAIN dir
              /\ UNCHANGED <<todo, dir>> /\ data' = InHand(dir[segment])
           \/ /\ Busy /\ UNCHANGED <<todo, run, pipeline>>
              /\ \/ data' = data
                 \/ data' = [data EXCEPT !.gz = TRUE]
                 \/ data' = [data EXCEPT !.sym = run]
<1> USE DEF others, writer, process_vars, ghosts, workerVars
<1>1. CASE Writer
  BY <1>1 DEF Writer, WriterSeals, WriterEvicts, WriterGoesOn, WriterFinishes, Busy
<1>2. CASE Stop \/ Notice \/ UNCHANGED vars
  BY <1>2 DEF Stop, Notice, vars, Busy
<1>3. CASE TimedOut \/ Restart
  BY <1>3 DEF TimedOut, Restart, Busy
<1>4. CASE BuildPipeline \/ find_sealed_segments \/ SkipSegment \/ EndCycle \/ Wake
  BY <1>4 DEF BuildPipeline, find_sealed_segments, SkipSegment, EndCycle, Wake, Busy
<1>5. CASE ReadSegment
  BY <1>5 DEF ReadSegment
<1>6. CASE Symbolize \/ Gzip \/ ProcessorFails \/ OpenForWrite \/ WriteBack \/ WriteBackFails
  BY <1>6 DEF Symbolize, Gzip, ProcessorFails, OpenForWrite, WriteBack, WriteBackFails, At, Busy
<1>7. CASE BreakerOpen \/ BeginUpload \/ Uploaded \/ UploadFails
  BY <1>7 DEF BreakerOpen, BeginUpload, Uploaded, UploadFails, At, Busy
<1>8. CASE RemoveUploaded \/ RemoveUploadedFails \/ GiveUp \/ Processed
  BY <1>8 DEF RemoveUploaded, RemoveUploadedFails, GiveUp, Processed, Busy
<1> QED BY <1>1, <1>2, <1>3, <1>4, <1>5, <1>6, <1>7, <1>8 DEF Next, run_loop, process

\* ... it stays the same segment, as whole as it was.
LEMMA HandFacts ==
    ASSUME TypeOK, [Next]_vars, Busy'
    PROVE  \/ /\ ReadSegment /\ pc = "next" /\ pc' = "process" /\ segment \in DOMAIN dir
              /\ segment' = segment /\ dir' = dir
              /\ data'.seg = dir[segment].seg /\ data'.whole = dir[segment].whole /\ data'.sym = dir[segment].sym
              /\ data'.sec \in {dir[segment].sec, dir[segment].seg.sec}
           \/ /\ Busy /\ segment' = segment
              /\ data'.seg = data.seg /\ data'.whole = data.whole /\ data'.sec = data.sec
              /\ data'.sym \in {data.sym, run}
<1>1. CASE /\ ReadSegment /\ pc = "next" /\ pc' = "process" /\ segment \in DOMAIN dir
           /\ UNCHANGED <<todo, dir>> /\ data' = InHand(dir[segment])
  <2>1. dir[segment] \in Contents
    BY <1>1, TypeParts DEF DirType
  <2> QED BY <1>1, <2>1, InHandFacts DEF segment
<1>2. CASE /\ Busy /\ UNCHANGED <<todo, run, pipeline>>
           /\ \/ data' = data
              \/ data' = [data EXCEPT !.gz = TRUE]
              \/ data' = [data EXCEPT !.sym = run]
  BY <1>2, DataFacts DEF segment
<1> QED BY <1>1, <1>2, HandSteps

\* How the worker comes to where it holds a segment.
LEMMA StateSteps ==
    ASSUME [Next]_vars
    PROVE  /\ pc' = "removing" => pc = "removing" \/ Uploaded
           /\ pc' = "uploading" => pc = "uploading" \/ BeginUpload
           /\ pc' = "writing" => pc = "writing" \/ OpenForWrite
<1> USE DEF others, writer, process_vars, ghosts, workerVars
<1>1. CASE Writer
  BY <1>1 DEF Writer, WriterSeals, WriterEvicts, WriterGoesOn, WriterFinishes
<1>2. CASE Stop \/ Notice \/ TimedOut \/ Restart \/ UNCHANGED vars
  BY <1>2 DEF Stop, Notice, TimedOut, Restart, vars
<1>3. CASE BuildPipeline \/ find_sealed_segments \/ SkipSegment \/ ReadSegment \/ EndCycle \/ Wake
  BY <1>3 DEF BuildPipeline, find_sealed_segments, SkipSegment, ReadSegment, EndCycle, Wake
<1>4. CASE Symbolize \/ Gzip \/ ProcessorFails \/ OpenForWrite \/ WriteBack \/ WriteBackFails
  BY <1>4 DEF Symbolize, Gzip, ProcessorFails, OpenForWrite, WriteBack, WriteBackFails, At
<1>5. CASE BreakerOpen \/ BeginUpload \/ Uploaded \/ UploadFails
  BY <1>5 DEF BreakerOpen, BeginUpload, Uploaded, UploadFails
<1>6. CASE RemoveUploaded \/ RemoveUploadedFails \/ GiveUp \/ Processed
  BY <1>6 DEF RemoveUploaded, RemoveUploadedFails, GiveUp, Processed
<1> QED BY <1>1, <1>2, <1>3, <1>4, <1>5, <1>6 DEF Next, run_loop, process

-----------------------------------------------------------------------------
(* What is known of the segments *)

LEMMA SealedNext == TypeOK /\ SealedOnce /\ [Next]_vars => SealedOnce'
<1> SUFFICES ASSUME TypeOK, SealedOnce, [Next]_vars PROVE SealedOnce'
  OBVIOUS
<1> USE DEF others, writer, process_vars, ghosts, workerVars
<1>0. /\ \A s \in sealed : s \in Segments /\ s.run \in Nat /\ s.sec \in Nat /\ s.index \in Nat
      /\ run \in Nat /\ second \in Nat /\ next_index \in Nat
  BY TypeParts, WorkerAssumption DEF GhostType, RunType, WriterType, Segments
<1>c. current.run = run /\ current.sec = second /\ current.index = next_index - 1
  BY CurrentType
<1>1. CASE Restart
  <2>1. sealed' = sealed /\ run' = run + 1 /\ second' \in {second, second + 1}
    BY <1>1 DEF Restart
  <2> QED BY <1>0, <2>1 DEF SealedOnce
<1>2. CASE WriterSeals
  <2>1. sealed' = sealed \union {current} /\ next_index' = next_index + 1 /\ phase = "idle"
    BY <1>2 DEF WriterSeals, Source!Seal
  <2>2. UNCHANGED <<run, second>>
    BY <1>2 DEF WriterSeals
  <2>3. \A s \in sealed : s.run = run => s.index < next_index - 1
    BY <2>1 DEF SealedOnce
  <2> QED BY <1>0, <1>c, <2>1, <2>2, <2>3 DEF SealedOnce
<1>3. CASE WriterFinishes
  <2>1. phase = "idle" /\ phase' = "finished" /\ UNCHANGED next_index
    BY <1>3 DEF WriterFinishes, Source!Finish
  <2>2. UNCHANGED <<run, second>> /\ sealed' \in {sealed, sealed \union {current}}
    BY <1>3 DEF WriterFinishes
  <2>3. \A s \in sealed : s.run = run => s.index < next_index - 1
    BY <2>1 DEF SealedOnce
  <2> QED BY <1>0, <1>c, <2>1, <2>2, <2>3 DEF SealedOnce
<1>4. CASE WriterEvicts \/ WriterGoesOn
  <2>1. UNCHANGED <<run, second, sealed>>
    BY <1>4 DEF WriterEvicts, WriterGoesOn
  <2>2. next_index' = next_index /\ phase # "finished"
    BY <1>4 DEF WriterEvicts, WriterGoesOn, Source!Evict, Source!Open, Source!EvictionEnds
  <2> QED BY <2>1, <2>2 DEF SealedOnce
<1>5. CASE Stop \/ Notice \/ TimedOut \/ UNCHANGED vars
  BY <1>5 DEF Stop, Notice, TimedOut, vars, SealedOnce
<1>6. CASE run_loop
  BY <1>6, LoopKeeps DEF SealedOnce
<1> QED BY <1>1, <1>2, <1>3, <1>4, <1>5, <1>6 DEF Next, Writer

LEMMA KnownNext == TypeOK /\ Staged /\ Known /\ [Next]_vars => Known'
<1> SUFFICES ASSUME TypeOK, Staged, Known, [Next]_vars PROVE Known'
  OBVIOUS
<1>0. sealed \subseteq sealed'
  BY SealedSteps
<1>1. ASSUME NEW i \in DOMAIN dir' PROVE dir'[i].seg \in sealed'
  <2>1. current \in Segments
    BY CurrentType
  <2> QED BY <1>0, <2>1, DirFacts, ContentFacts DEF Known
<1>2. Busy' => data'.seg \in sealed'
  BY <1>0, HandFacts DEF Known
<1>3. DOMAIN uploads' \subseteq sealed' /\ \A k \in DOMAIN bucket' : bucket'[k].seg \in DOMAIN uploads'
  <2>1. CASE UNCHANGED <<bucket, uploads>>
    BY <1>0, <2>1 DEF Known
  <2>2. CASE pc = "uploading" /\ Arrives
    BY <1>0, <2>2, ArrivesFacts DEF Known, Busy
  <2> QED BY <2>1, <2>2, BucketSteps
<1>4. pc' = "removing" => data'.seg \in DOMAIN uploads'
  <2> SUFFICES ASSUME pc' = "removing" PROVE data'.seg \in DOMAIN uploads'
    OBVIOUS
  <2>1. DOMAIN uploads \subseteq DOMAIN uploads'
    BY BucketSteps, ArrivesFacts
  <2>2. data'.seg = data.seg
    BY HandFacts DEF Busy
  <2>3. pc = "removing" \/ Uploaded
    BY StateSteps
  <2>4. CASE Uploaded
    BY <2>2, <2>4, ArrivesFacts DEF Uploaded
  <2> QED BY <2>1, <2>2, <2>3, <2>4 DEF Known
<1> QED BY <1>1, <1>2, <1>3, <1>4 DEF Known

LEMMA DatesNext == TypeOK /\ Staged /\ SealedOnce /\ Known /\ Dates /\ [Next]_vars => Dates'
<1> SUFFICES ASSUME TypeOK, Staged, SealedOnce, Known, Dates, [Next]_vars PROVE Dates'
  OBVIOUS
<1>1. ASSUME NEW i \in DOMAIN dir' PROVE Dated(dir'[i])
  <2>1. CASE i \in DOMAIN dir /\ dir'[i] = dir[i]
    BY <2>1 DEF Dates
  <2>2. CASE dir'[i] = Content(current)
    BY <2>2, CurrentType, ContentFacts DEF Dated
  <2>3. CASE dir'[i].seg = data.seg /\ dir'[i].sec = second /\ Busy /\ Sink = "WriteBack"
    <3>1. WritesBack
      BY <2>3, PipelineFacts, TypeParts DEF Sink, RunType
    <3>2. data.seg.sec <= second /\ data.seg.sec \in Nat /\ second \in Nat
      BY <2>3, TypeParts, WorkerAssumption DEF Known, SealedOnce, GhostType, RunType, Segments
    <3> QED BY <2>3, <3>1, <3>2 DEF Dated
  <2> QED BY <2>1, <2>2, <2>3, DirFacts
<1>2. Busy' => Dated(data')
  BY HandFacts DEF Dates, Dated
<1>3. ASSUME NEW k \in DOMAIN bucket' PROVE Dated(bucket'[k]) /\ object_key(bucket'[k]) = k
  BY BucketSteps, ArrivesFacts DEF Dates, Busy
<1> QED BY <1>1, <1>2, <1>3 DEF Dates, Dated

LEMMA StoredNext == TypeOK /\ Dates /\ Stored /\ [Next]_vars => Stored'
<1> SUFFICES ASSUME TypeOK, Dates, Stored, [Next]_vars, NEW s \in DOMAIN uploads'
             PROVE  InS3(s)' \/ Replaced(s)'
  BY DEF Stored
<1>1. CASE UNCHANGED <<bucket, uploads>>
  BY <1>1 DEF Stored, InS3, Replaced
<1>2. CASE Arrives
  <2> DEFINE k == object_key(data)
  <2>0. /\ k \in DOMAIN bucket' /\ bucket'[k] = data
        /\ \A j \in DOMAIN bucket \ {k} : j \in DOMAIN bucket' /\ bucket'[j] = bucket[j]
        /\ s = data.seg \/ s \in DOMAIN uploads
    BY <1>2, ArrivesFacts
  <2>a. object_key(data) = k
    OBVIOUS
  <2> HIDE DEF k
  <2>1. CASE s = data.seg
    BY <2>0, <2>1 DEF InS3
  <2>2. CASE s # data.seg /\ InS3(s)
    <3> PICK j \in DOMAIN bucket : bucket[j].seg = s
      BY <2>2 DEF InS3
    <3>1. CASE j # k
      BY <2>0, <3>1 DEF InS3
    <3>2. CASE j = k
      <4>1. Dated(bucket[k]) /\ object_key(bucket[k]) = k
        BY <3>2 DEF Dates
      <4>2. k.index = s.index /\ (k.sec = s.sec \/ (WritesBack /\ k.sec > s.sec))
        BY <3>2, <4>1 DEF Dated, object_key
      <4> QED BY <2>0, <2>2, <4>2 DEF Replaced
    <3> QED BY <3>1, <3>2
  <2>3. CASE s # data.seg /\ Replaced(s)
    <3> PICK j \in DOMAIN bucket : /\ j.index = s.index /\ bucket[j].seg # s
                                   /\ j.sec = s.sec \/ (WritesBack /\ j.sec > s.sec)
      BY <2>3 DEF Replaced
    <3>1. j \in DOMAIN bucket' /\ bucket'[j].seg # s
      BY <2>0, <2>3
    <3> QED BY <3>1 DEF Replaced
  <2> QED BY <2>0, <2>1, <2>2, <2>3 DEF Stored
<1> QED BY <1>1, <1>2, BucketSteps

\* A segment the writer removes is given up.
LEMMA GivenUpOnEvict ==
    ASSUME WriterEvicts, dir' = Without(dir, Head(closed)), Head(closed) \in DOMAIN dir
    PROVE  given_up' = given_up \union {dir[j].seg : j \in DOMAIN dir \intersect {Head(closed)}}
<1>1. dir' # dir
  BY DEF Without
<1> QED BY <1>1 DEF WriterEvicts

\* A segment is sealed with its file.
LEMMA SealedFiles ==
    ASSUME [Next]_vars, sealed' # sealed
    PROVE  sealed' = sealed \union {current} /\ dir' = With(dir, current.index, Content(current))
<1> QED BY SealedSteps DEF WriterSeals, WriterFinishes

\* A segment that is not in the directory any more was uploaded or given up, or its name
\* was used by another run.
LEMMA OnDiskSteps ==
    ASSUME TypeOK, Staged, SealedOnce, Known, [Next]_vars, NEW s \in sealed, OnDisk(s), ~OnDisk(s)'
    PROVE  s \in DOMAIN uploads \/ s \in given_up' \/ Shadowed(s)'
<1>0. sealed \subseteq sealed' /\ s \in Segments
  BY SealedSteps, TypeParts DEF GhostType
\* two segments of one name are of different runs
<1>a. \A t \in sealed : t.index = s.index => t = s \/ Shadowed(s)'
  BY <1>0 DEF SealedOnce, Shadowed
<1>b. ASSUME NEW i, i # s.index \/ i \notin DOMAIN dir, dir' = Without(dir, i) PROVE FALSE
  BY <1>b DEF Without, OnDisk
<1>1. CASE dir' = dir
  BY <1>1 DEF OnDisk
<1>2. CASE /\ WriterSeals \/ WriterFinishes
           /\ dir' = With(dir, current.index, Content(current)) /\ sealed' = sealed \union {current}
  <2> DEFINE c == Content(current)
             i == current.index
  <2>1. c.seg = current /\ current.run = run /\ i = next_index - 1
    BY CurrentType, ContentFacts
  <2>2. dir' = With(dir, i, c)
    BY <1>2
  <2>i. i = current.index
    OBVIOUS
  <2> HIDE DEF c, i
  <2>3. i = s.index
    BY <2>2 DEF With, OnDisk
  <2>4. phase = "idle"
    BY <1>2 DEF WriterSeals, WriterFinishes, Source!Seal, Source!Finish
  <2>5. s.run # run
    BY <2>1, <2>3, <2>4, TypeParts DEF SealedOnce, WriterType
  <2> QED BY <1>2, <2>1, <2>3, <2>5, <2>i DEF Shadowed
<1>3. CASE WriterEvicts /\ dir' = Without(dir, Head(closed))
  <2>1. s.index = Head(closed) /\ Head(closed) \in DOMAIN dir
    BY <1>3, <1>b
  <2>2. given_up' = given_up \union {dir[j].seg : j \in DOMAIN dir \intersect {Head(closed)}}
    BY <1>3, <2>1, GivenUpOnEvict
  <2> QED BY <2>1, <2>2 DEF OnDisk
<1>4. CASE pc \in {"removing", "failed"} /\ dir' = Without(dir, segment) /\ (pc = "failed" => GiveUp)
  <2>1. s.index = segment
    BY <1>4, <1>b
  <2>2. data.seg \in sealed /\ data.seg.index = segment
    BY <1>4, DataFacts DEF Known, Busy
  <2>3. data.seg \in DOMAIN uploads \/ data.seg \in given_up'
    BY <1>4 DEF Known, GiveUp
  <2> QED BY <1>a, <2>1, <2>2, <2>3
<1>5. ASSUME NEW c, Busy, dir' = With(dir, segment, c), c.seg = data.seg PROVE Shadowed(s)'
  <2>1. s.index = segment /\ s # data.seg
    BY <1>5 DEF With, OnDisk
  <2>2. data.seg \in sealed /\ data.seg.index = segment
    BY <1>5, DataFacts DEF Known
  <2> QED BY <1>a, <2>1, <2>2
<1>6. ASSUME NEW gz \in BOOLEAN, At("WriteBack"),
             dir' = With(dir, segment, [data EXCEPT !.whole = FALSE, !.gz = gz, !.sec = second])
      PROVE  Shadowed(s)'
  <2> DEFINE c == [data EXCEPT !.whole = FALSE, !.gz = gz, !.sec = second]
  <2>1. Busy
    BY <1>6 DEF At, Busy
  <2>2. c.seg = data.seg
    BY <2>1, DataFacts
  <2>3. dir' = With(dir, segment, c)
    BY <1>6
  <2> HIDE DEF c
  <2> QED BY <1>5, <2>1, <2>2, <2>3
<1>7. CASE pc = "writing" /\ dir' = Written
  <2> DEFINE c == [data EXCEPT !.sec = second]
  <2>1. c.seg = data.seg
    BY <1>7, DataFacts DEF Busy
  <2> HIDE DEF c
  <2>2. DOMAIN dir' = DOMAIN dir /\ \A i \in DOMAIN dir : dir'[i].seg = dir[i].seg
    BY <1>7, <2>1, WrittenFacts DEF c
  <2> QED BY <2>2 DEF OnDisk
<1>8. pc = "removing" => pc # "failed"
  OBVIOUS
<1> QED BY <1>1, <1>2, <1>3, <1>4, <1>6, <1>7, <1>8, DirSteps

LEMMA AccountedNext ==
    TypeOK /\ Staged /\ SealedOnce /\ Known /\ Stored /\ Stored' /\ Accounted /\ [Next]_vars => Accounted'
<1> SUFFICES ASSUME TypeOK, Staged, SealedOnce, Known, Stored', Accounted, [Next]_vars, NEW s \in sealed',
                    s \notin DOMAIN uploads'
             PROVE  OnDisk(s)' \/ s \in given_up' \/ Shadowed(s)'
  BY DEF Accounted, Stored
<1>1. CASE s \notin sealed
  <2>1. s = current /\ dir' = With(dir, current.index, Content(current))
    BY <1>1, SealedFiles
  <2>2. Content(current).seg = current
    BY CurrentType, ContentFacts
  <2> DEFINE c == Content(current)
             i == current.index
  <2>3. dir' = With(dir, i, c) /\ c.seg = s /\ i = s.index
    BY <2>1, <2>2
  <2> HIDE DEF c, i
  <2>4. i \in DOMAIN dir' /\ dir'[i] = c
    BY <2>3 DEF With
  <2> QED BY <2>3, <2>4 DEF OnDisk
<1>2. CASE s \in sealed
  <2>1. sealed \subseteq sealed' /\ given_up \subseteq given_up' /\ DOMAIN uploads \subseteq DOMAIN uploads'
    BY SealedSteps, GivenUpSteps, BucketSteps, ArrivesFacts
  <2>2. s \notin DOMAIN uploads /\ ~InS3(s)
    BY <2>1 DEF InS3, Known
  <2>3. OnDisk(s) \/ s \in given_up \/ Shadowed(s)
    BY <1>2, <2>2 DEF Accounted
  <2>4. Shadowed(s) => Shadowed(s)'
    BY <2>1 DEF Shadowed
  <2> QED BY <1>2, <2>1, <2>2, <2>3, <2>4, OnDiskSteps
<1> QED BY <1>1, <1>2

-----------------------------------------------------------------------------
(* What the files hold in the first run *)

\* Only a restart changes the run and its pipeline.
LEMMA RunSteps ==
    ASSUME [Next]_vars
    PROVE  UNCHANGED <<run, pipeline>> \/ (Restart /\ run' = run + 1)
<1> USE DEF others, writer, process_vars, ghosts, workerVars
<1>1. CASE Writer
  BY <1>1 DEF Writer, WriterSeals, WriterEvicts, WriterGoesOn, WriterFinishes
<1>2. CASE Stop \/ Notice \/ TimedOut \/ UNCHANGED vars
  BY <1>2 DEF Stop, Notice, TimedOut, vars
<1>3. CASE run_loop
  BY <1>3, LoopKeeps
<1>4. CASE Restart
  BY <1>4 DEF Restart
<1> QED BY <1>1, <1>2, <1>3, <1>4 DEF Next

LEMMA FirstRunNext == TypeOK /\ Staged /\ SealedOnce /\ Known /\ FirstRun /\ [Next]_vars => FirstRun'
<1> SUFFICES ASSUME TypeOK, Staged, SealedOnce, Known, FirstRun, [Next]_vars, run' = 0
             PROVE  /\ \A i \in DOMAIN dir' : Genuine(dir[i])'
                    /\ Busy' => Genuine(data)'
  BY DEF FirstRun
<1>0. run = 0 /\ Sink' = Sink
  <2>1. run \in Nat
    BY TypeParts, WorkerAssumption DEF RunType
  <2> QED BY <2>1, RunSteps DEF Sink
<1>a. \A s \in sealed : s.run = 0
  BY <1>0, TypeParts DEF SealedOnce, GhostType, Segments
<1>1. ASSUME NEW i \in DOMAIN dir' PROVE Genuine(dir[i])'
  <2>1. CASE i \in DOMAIN dir /\ dir'[i] = dir[i]
    BY <1>0, <2>1 DEF FirstRun, Genuine
  <2>2. CASE dir'[i] = Content(current)
    BY <2>2, CurrentType, ContentFacts DEF Genuine
  <2>3. CASE dir'[i].seg = data.seg /\ dir'[i].sym = data.sym /\ Busy /\ Sink = "WriteBack"
    BY <1>0, <2>3 DEF FirstRun, Genuine
  <2> QED BY <2>1, <2>2, <2>3, DirFacts
<1>2. ASSUME Busy' PROVE Genuine(data)'
  <2>1. CASE /\ ReadSegment /\ segment \in DOMAIN dir /\ data'.seg = dir[segment].seg
             /\ data'.whole = dir[segment].whole /\ data'.sym = dir[segment].sym
    BY <1>0, <2>1 DEF FirstRun, Genuine
  <2>2. CASE /\ Busy /\ data'.seg = data.seg /\ data'.whole = data.whole /\ data'.sym \in {data.sym, run}
    BY <1>0, <1>a, <2>2 DEF FirstRun, Genuine, Known
  <2> QED BY <1>2, <2>1, <2>2, HandFacts
<1> QED BY <1>1, <1>2

LEMMA UploadsWholeNext == TypeOK /\ Staged /\ FirstRun /\ UploadsWhole /\ [Next]_vars => UploadsWhole'
<1> SUFFICES ASSUME TypeOK, Staged, FirstRun, UploadsWhole, [Next]_vars, NEW k \in DOMAIN bucket'
             PROVE  LET c == bucket'[k]
                    IN  c.gz /\ (run' = 0 => c.whole /\ c.sym \in {-1, c.seg.run})
  BY DEF UploadsWhole
<1>1. run' = 0 => run = 0
  BY RunSteps, TypeParts, WorkerAssumption DEF RunType
<1>2. CASE k \in DOMAIN bucket /\ bucket'[k] = bucket[k]
  BY <1>1, <1>2 DEF UploadsWhole
<1>3. CASE pc = "uploading" /\ bucket'[k] = data
  <2>1. data.gz /\ Sink = "S3Upload" /\ Busy
    BY <1>3 DEF Staged, Busy
  <2>2. run = 0 => data.whole /\ data.sym \in {-1, data.seg.run}
    BY <2>1 DEF FirstRun, Genuine
  <2> QED BY <1>1, <1>3, <2>1, <2>2
<1> QED BY <1>2, <1>3, BucketSteps, ArrivesFacts

\* How the worker leaves a file that it may have cut short.
LEMMA LeavingSteps ==
    ASSUME [Next]_vars, ~Restart, pc \in {"writing", "failed"}, pc' \notin {"writing", "failed"}
    PROVE  \/ pc = "writing" /\ dir' = Written
           \/ /\ pc = "failed" /\ GiveUp
              /\ dir' = Without(dir, segment) \/ (dir' = dir /\ kept' = OneMore(kept, data.seg))
<1> USE DEF others, writer, process_vars, ghosts, workerVars
<1>1. CASE Writer
  BY <1>1 DEF Writer, WriterSeals, WriterEvicts, WriterGoesOn, WriterFinishes
<1>2. CASE Stop \/ Notice \/ UNCHANGED vars
  BY <1>2 DEF Stop, Notice, vars
<1>3. CASE TimedOut
  <2>1. pc = "writing"
    BY <1>3 DEF TimedOut, Awaits, At
  <2> QED BY <1>3, <2>1 DEF TimedOut
<1>4. CASE BuildPipeline \/ find_sealed_segments \/ SkipSegment \/ ReadSegment \/ EndCycle \/ Wake
  BY <1>4 DEF BuildPipeline, find_sealed_segments, SkipSegment, ReadSegment, EndCycle, Wake
<1>5. CASE Symbolize \/ Gzip \/ ProcessorFails \/ OpenForWrite \/ WriteBack \/ WriteBackFails
  BY <1>5 DEF Symbolize, Gzip, ProcessorFails, OpenForWrite, WriteBack, WriteBackFails, At
<1>6. CASE BreakerOpen \/ BeginUpload \/ Uploaded \/ UploadFails
  BY <1>6 DEF BreakerOpen, BeginUpload, Uploaded, UploadFails, At
<1>7. CASE RemoveUploaded \/ RemoveUploadedFails \/ Processed
  BY <1>7 DEF RemoveUploaded, RemoveUploadedFails, Processed
<1>8. CASE GiveUp
  BY <1>8 DEF GiveUp
<1> QED BY <1>1, <1>2, <1>3, <1>4, <1>5, <1>6, <1>7, <1>8 DEF Next, run_loop, process

LEMMA InHandWholeNext == TypeOK /\ Staged /\ NoTornFile /\ InHandWhole /\ [Next]_vars => InHandWhole'
<1> SUFFICES ASSUME TypeOK, Staged, NoTornFile, InHandWhole, [Next]_vars, run' = 0, Busy'
             PROVE  /\ data'.whole \/ data'.seg \in DOMAIN kept'
                    /\ pc' \in {"writing", "failed"} /\ Torn(segment)' =>
                          dir'[segment'].seg = data'.seg \/ dir'[segment'].seg \in DOMAIN kept'
  BY DEF InHandWhole
<1>0. run = 0
  BY RunSteps, TypeParts, WorkerAssumption DEF RunType
<1>k. DOMAIN kept \subseteq DOMAIN kept'
  BY KeptSteps, KeptFacts
<1>1. CASE /\ pc = "next" /\ pc' = "process" /\ segment \in DOMAIN dir
           /\ data'.seg = dir[segment].seg /\ data'.whole = dir[segment].whole
  BY <1>0, <1>1, <1>k DEF NoTornFile
<1>2. CASE Busy /\ segment' = segment /\ data'.seg = data.seg /\ data'.whole = data.whole
  <2>1. data'.whole \/ data'.seg \in DOMAIN kept'
    BY <1>0, <1>2, <1>k DEF InHandWhole
  <2>2. ASSUME pc' \in {"writing", "failed"}, segment \in DOMAIN dir', ~dir'[segment].whole
        PROVE  dir'[segment].seg = data.seg \/ dir'[segment].seg \in DOMAIN kept'
    <3>1. CASE segment \in DOMAIN dir /\ dir'[segment] = dir[segment]
      <4>1. CASE pc \in {"writing", "failed"}
        BY <1>0, <1>2, <1>k, <2>2, <3>1, <4>1 DEF InHandWhole, Torn
      <4>2. CASE pc \notin {"writing", "failed"}
        BY <1>0, <1>k, <2>2, <3>1, <4>2 DEF NoTornFile
      <4> QED BY <4>1, <4>2
    <3>2. dir'[segment] # Content(current)
      BY <2>2, CurrentType, ContentFacts
    <3> QED BY <2>2, <3>1, <3>2, DirFacts
  <2> QED BY <1>2, <2>1, <2>2 DEF Torn
<1> QED BY <1>1, <1>2, HandFacts

LEMMA NoTornNext == TypeOK /\ Staged /\ NoTornFile /\ InHandWhole /\ [Next]_vars => NoTornFile'
<1> SUFFICES ASSUME TypeOK, Staged, NoTornFile, InHandWhole, [Next]_vars PROVE NoTornFile'
  OBVIOUS
<1>n. run \in Nat /\ run' \in Nat
  BY RunNext, TypeParts, WorkerAssumption DEF RunType
<1> SUFFICES ASSUME run' = 0, NEW i \in DOMAIN dir', ~dir'[i].whole, dir'[i].seg \notin DOMAIN kept'
             PROVE  pc' \in {"writing", "failed"} /\ i = segment'
  BY <1>n DEF NoTornFile
<1>0. run = 0 /\ ~Restart
  <2>1. run = 0
    BY <1>n, RunSteps
  <2> QED BY <2>1 DEF Restart
<1>k. DOMAIN kept \subseteq DOMAIN kept'
  BY KeptSteps, KeptFacts
<1>1. CASE i \in DOMAIN dir /\ dir'[i] = dir[i]
  <2>1. pc \in {"writing", "failed"} /\ i = segment /\ Busy
    BY <1>0, <1>1, <1>k DEF NoTornFile, Busy
  <2>2. pc' \in {"writing", "failed"}
    <3> SUFFICES ASSUME pc' \notin {"writing", "failed"} PROVE FALSE
      OBVIOUS
    <3>1. dir[segment].seg = data.seg /\ (data.whole \/ data.seg \in DOMAIN kept)
      BY <1>0, <1>1, <1>k, <2>1 DEF InHandWhole, Torn
    <3>2. data.whole
      BY <1>1, <1>k, <2>1, <3>1
    <3>3. CASE pc = "writing" /\ dir' = Written
      <4> DEFINE c == [data EXCEPT !.sec = second]
      <4>1. c.whole
        BY <2>1, <3>2, DataFacts
      <4>2. Written[segment] = c
        BY <1>1, <2>1, <3>1 DEF Written
      <4> QED BY <2>1, <3>3, <4>1, <4>2
    <3>4. CASE dir' = Without(dir, segment)
      BY <2>1, <3>4 DEF Without
    <3>5. CASE kept' = OneMore(kept, data.seg)
      <4>1. data.seg \in DOMAIN kept'
        BY <3>5, KeptFacts
      <4> QED BY <1>1, <2>1, <3>1, <4>1
    <3> QED BY <1>0, <2>1, <3>3, <3>4, <3>5, LeavingSteps
  <2>3. segment' = segment
    BY <2>1, <2>2, HandFacts DEF Busy
  <2> QED BY <2>1, <2>2, <2>3
<1>2. dir'[i] # Content(current)
  BY CurrentType, ContentFacts
<1>3. CASE OpenForWrite /\ i = segment
  <2>1. pc' = "writing" /\ segment' = segment
    BY <1>3 DEF OpenForWrite, segment
  <2> QED BY <1>3, <2>1
<1>4. CASE pc = "writing" /\ Busy /\ dir'[i].seg = data.seg /\ dir'[i].whole = data.whole
  BY <1>0, <1>4, <1>k DEF InHandWhole
<1> QED BY <1>1, <1>2, <1>3, <1>4, DirFacts

-----------------------------------------------------------------------------
(* How often a segment is uploaded *)

LEMMA CountsNext == TypeOK /\ Counts /\ [Next]_vars => Counts'
<1> SUFFICES ASSUME Counts, [Next]_vars PROVE Counts'
  OBVIOUS
<1>1. \A s \in DOMAIN uploads' : uploads'[s] \in Nat
  <2>1. Times(uploads, data.seg) \in Nat
    BY DEF Counts, Times
  <2> QED BY <2>1, BucketSteps, ArrivesFacts DEF Counts
<1>2. \A s \in DOMAIN kept' : kept'[s] \in Nat
  <2>1. Times(kept, data.seg) \in Nat
    BY DEF Counts, Times
  <2>2. CASE kept' = OneMore(kept, data.seg)
    <3>1. /\ DOMAIN kept' = DOMAIN kept \union {data.seg} /\ kept'[data.seg] = Times(kept, data.seg) + 1
          /\ \A s \in DOMAIN kept \ {data.seg} : kept'[s] = kept[s]
      BY <2>2, KeptFacts
    <3> QED BY <2>1, <3>1 DEF Counts
  <2> QED BY <2>2, KeptSteps DEF Counts
<1> QED BY <1>1, <1>2 DEF Counts

\* Only a restart brings the worker back.
LEMMA ExitSteps ==
    ASSUME [Next]_vars, ~Restart, pc = "exited"
    PROVE  pc' = "exited"
<1> USE DEF others, writer, process_vars, ghosts, workerVars
<1>1. CASE Writer
  BY <1>1 DEF Writer, WriterSeals, WriterEvicts, WriterGoesOn, WriterFinishes
<1>2. CASE Stop \/ Notice \/ UNCHANGED vars
  BY <1>2 DEF Stop, Notice, vars
<1>3. CASE TimedOut \/ Restart
  BY <1>3 DEF TimedOut, Restart, MayArrive, Awaits, At
<1>4. CASE BuildPipeline \/ find_sealed_segments \/ SkipSegment \/ ReadSegment \/ EndCycle \/ Wake
  BY <1>4 DEF BuildPipeline, find_sealed_segments, SkipSegment, ReadSegment, EndCycle, Wake
<1>5. CASE Symbolize \/ Gzip \/ ProcessorFails \/ OpenForWrite \/ WriteBackFails
  BY <1>5 DEF Symbolize, Gzip, ProcessorFails, OpenForWrite, WriteBackFails, At
<1>6. CASE BreakerOpen \/ BeginUpload \/ Uploaded \/ UploadFails
  BY <1>6 DEF BreakerOpen, BeginUpload, Uploaded, UploadFails, At
<1>7. CASE WriteBack \/ RemoveUploaded \/ RemoveUploadedFails \/ GiveUp \/ Processed
  BY <1>7 DEF WriteBack, RemoveUploaded, RemoveUploadedFails, GiveUp, Processed
<1> QED BY <1>1, <1>2, <1>3, <1>4, <1>5, <1>6, <1>7 DEF Next, run_loop, process

\* The worker is done with a segment when its file is removed, or cannot be.
LEMMA DoneSteps ==
    ASSUME [Next]_vars, ~Restart, pc \in {"removing", "failed"}, pc' \notin {"removing", "failed", "exited"}
    PROVE  \/ dir' = Without(dir, segment)
           \/ pc = "failed" /\ kept' = OneMore(kept, data.seg)
<1> USE DEF others, writer, process_vars, ghosts, workerVars
<1>1. CASE Writer
  BY <1>1 DEF Writer, WriterSeals, WriterEvicts, WriterGoesOn, WriterFinishes
<1>2. CASE Stop \/ Notice \/ UNCHANGED vars
  BY <1>2 DEF Stop, Notice, vars
<1>3. CASE TimedOut \/ Restart
  BY <1>3 DEF TimedOut, Restart, MayArrive, Awaits, At
<1>4. CASE BuildPipeline \/ find_sealed_segments \/ SkipSegment \/ ReadSegment \/ EndCycle \/ Wake
  BY <1>4 DEF BuildPipeline, find_sealed_segments, SkipSegment, ReadSegment, EndCycle, Wake
<1>5. CASE Symbolize \/ Gzip \/ ProcessorFails \/ OpenForWrite \/ WriteBackFails
  BY <1>5 DEF Symbolize, Gzip, ProcessorFails, OpenForWrite, WriteBackFails, At
<1>6. CASE BreakerOpen \/ BeginUpload \/ Uploaded \/ UploadFails
  BY <1>6 DEF BreakerOpen, BeginUpload, Uploaded, UploadFails, At
<1>7. CASE WriteBack \/ RemoveUploaded \/ RemoveUploadedFails \/ GiveUp \/ Processed
  BY <1>7 DEF WriteBack, RemoveUploaded, RemoveUploadedFails, GiveUp, Processed
<1> QED BY <1>1, <1>2, <1>3, <1>4, <1>5, <1>6, <1>7 DEF Next, run_loop, process

\* A processor is followed by another, the sink by none.
LEMMA ProcessSteps ==
    ASSUME Staged, [Next]_vars, ~ReadSegment, pc' = "process", stage' # <<>>
    PROVE  pc = "process" /\ stage # <<>>
<1> USE DEF others, writer, process_vars, ghosts, workerVars
<1>1. CASE Writer
  BY <1>1 DEF Writer, WriterSeals, WriterEvicts, WriterGoesOn, WriterFinishes
<1>2. CASE Stop \/ Notice \/ UNCHANGED vars
  BY <1>2 DEF Stop, Notice, vars
<1>3. CASE TimedOut \/ Restart
  BY <1>3 DEF TimedOut, Restart, MayArrive, Awaits, At
<1>4. CASE BuildPipeline \/ find_sealed_segments \/ SkipSegment \/ ReadSegment \/ EndCycle \/ Wake
  BY <1>4 DEF BuildPipeline, find_sealed_segments, SkipSegment, ReadSegment, EndCycle, Wake
<1>5. CASE Symbolize \/ Gzip \/ ProcessorFails \/ OpenForWrite \/ WriteBackFails
  BY <1>5 DEF Symbolize, Gzip, ProcessorFails, OpenForWrite, WriteBackFails, At
<1>6. CASE BreakerOpen \/ BeginUpload \/ Uploaded \/ UploadFails
  BY <1>6 DEF BreakerOpen, BeginUpload, Uploaded, UploadFails, At
<1>7. CASE WriteBack \/ RemoveUploaded \/ RemoveUploadedFails \/ GiveUp \/ Processed
  <2>1. pc \in {"writing", "removing"} /\ stage' = Tail(stage)
    BY <1>7 DEF WriteBack, RemoveUploaded, RemoveUploadedFails, GiveUp, Processed
  <2> QED BY <2>1, StageFacts DEF Staged
<1> QED BY <1>1, <1>2, <1>3, <1>4, <1>5, <1>6, <1>7 DEF Next, run_loop, process

\* What fails is a processor, or the removal behind the upload.
LEMMA FailedSteps ==
    ASSUME [Next]_vars, pc' = "failed"
    PROVE  \/ pc \in {"failed", "writing", "uploading"}
           \/ pc = "process" /\ stage # <<>>
           \/ kept' = OneMore(kept, data.seg)
<1> USE DEF others, writer, process_vars, ghosts, workerVars
<1>1. CASE Writer
  BY <1>1 DEF Writer, WriterSeals, WriterEvicts, WriterGoesOn, WriterFinishes
<1>2. CASE Stop \/ Notice \/ UNCHANGED vars
  BY <1>2 DEF Stop, Notice, vars
<1>3. CASE TimedOut \/ Restart
  BY <1>3 DEF TimedOut, Restart, MayArrive, Awaits, At
<1>4. CASE BuildPipeline \/ find_sealed_segments \/ SkipSegment \/ ReadSegment \/ EndCycle \/ Wake
  BY <1>4 DEF BuildPipeline, find_sealed_segments, SkipSegment, ReadSegment, EndCycle, Wake
<1>5. CASE Symbolize \/ Gzip \/ ProcessorFails \/ OpenForWrite \/ WriteBackFails
  BY <1>5 DEF Symbolize, Gzip, ProcessorFails, OpenForWrite, WriteBackFails, At
<1>6. CASE BreakerOpen \/ BeginUpload \/ Uploaded \/ UploadFails
  BY <1>6 DEF BreakerOpen, BeginUpload, Uploaded, UploadFails, At
<1>7. CASE WriteBack \/ RemoveUploaded \/ RemoveUploadedFails \/ GiveUp \/ Processed
  BY <1>7 DEF WriteBack, RemoveUploaded, RemoveUploadedFails, GiveUp, Processed
<1> QED BY <1>1, <1>2, <1>3, <1>4, <1>5, <1>6, <1>7 DEF Next, run_loop, process

\* An upload that has arrived is confirmed, or the worker is stopped.
LEMMA ArrivedSteps ==
    ASSUME [Next]_vars, ~Restart, uploads' # uploads
    PROVE  pc' = "exited" \/ (pc' = "removing" /\ data' = data)
<1> USE DEF others, writer, process_vars, ghosts, workerVars
<1>1. CASE Writer
  BY <1>1 DEF Writer, WriterSeals, WriterEvicts, WriterGoesOn, WriterFinishes
<1>2. CASE Stop \/ Notice \/ UNCHANGED vars
  BY <1>2 DEF Stop, Notice, vars
<1>3. CASE TimedOut \/ Restart
  BY <1>3 DEF TimedOut, Restart, MayArrive, Awaits, At
<1>4. CASE BuildPipeline \/ find_sealed_segments \/ SkipSegment \/ ReadSegment \/ EndCycle \/ Wake
  BY <1>4 DEF BuildPipeline, find_sealed_segments, SkipSegment, ReadSegment, EndCycle, Wake
<1>5. CASE Symbolize \/ Gzip \/ ProcessorFails \/ OpenForWrite \/ WriteBackFails
  BY <1>5 DEF Symbolize, Gzip, ProcessorFails, OpenForWrite, WriteBackFails, At
<1>6. CASE BreakerOpen \/ BeginUpload \/ Uploaded \/ UploadFails
  BY <1>6 DEF BreakerOpen, BeginUpload, Uploaded, UploadFails, At
<1>7. CASE WriteBack \/ RemoveUploaded \/ RemoveUploadedFails \/ GiveUp \/ Processed
  BY <1>7 DEF WriteBack, RemoveUploaded, RemoveUploadedFails, GiveUp, Processed
<1> QED BY <1>1, <1>2, <1>3, <1>4, <1>5, <1>6, <1>7 DEF Next, run_loop, process

\* The segment being written is not sealed yet.
LEMMA CurrentNew == TypeOK /\ SealedOnce /\ phase = "idle" => current \notin sealed
  BY CurrentType, TypeParts DEF SealedOnce, WriterType

\* Within a run a segment that may be uploaded could be before, unless it is the one sealed
\* now or the removal of its file fails a second time.
LEMMA MayUploadSteps ==
    ASSUME TypeOK, Staged, SealedOnce, [Next]_vars, ~Restart, NEW s \in sealed', MayUpload(s)'
    PROVE  \/ MayUpload(s)
           \/ s \notin sealed
           \/ InHandAt({"failed"}, s) /\ kept' = OneMore(kept, data.seg)
<1>1. CASE OnDisk(s)' /\ pc' # "exited" /\ ~InHandAt({"removing", "failed"}, s)'
  <2>0. pc # "exited"
    BY <1>1, ExitSteps
  <2>1. CASE OnDisk(s)
    <3> SUFFICES ASSUME InHandAt({"removing", "failed"}, s)
                 PROVE  InHandAt({"failed"}, s) /\ kept' = OneMore(kept, data.seg)
      BY <2>0, <2>1 DEF MayUpload
    <3>1. Busy /\ s = data.seg /\ s.index = segment
      BY DataFacts DEF InHandAt, Busy
    <3>2. pc' \notin {"removing", "failed"}
      BY <1>1, <3>1, HandFacts DEF InHandAt, Busy
    <3>3. dir' # Without(dir, segment)
      BY <1>1, <3>1 DEF Without, OnDisk
    <3> QED BY <1>1, <3>1, <3>2, <3>3, DoneSteps DEF InHandAt
  <2>2. CASE ~OnDisk(s)
    <3>1. s.index \in DOMAIN dir' /\ dir'[s.index].seg = s
      BY <1>1 DEF OnDisk
    <3>2. ~(s.index \in DOMAIN dir /\ dir'[s.index] = dir[s.index])
      BY <2>2, <3>1 DEF OnDisk
    <3>3. CASE dir'[s.index] = Content(current) /\ (WriterSeals \/ WriterFinishes)
      <4>1. s = current
        BY <3>1, <3>3, CurrentType, ContentFacts
      <4>2. phase = "idle"
        BY <3>3 DEF WriterSeals, WriterFinishes, Source!Seal, Source!Finish
      <4> QED BY <4>1, <4>2, CurrentNew
    <3>4. CASE dir'[s.index].seg = data.seg /\ (OpenForWrite \/ pc = "writing")
      BY <3>1, <3>4 DEF MayUpload, InHandAt, OpenForWrite, At
    <3> QED BY <3>1, <3>2, <3>3, <3>4, DirFacts
  <2> QED BY <2>1, <2>2
<1>2. CASE InHandAt({"writing", "uploading"}, s)'
  <2>1. data'.seg = data.seg /\ data.seg = s
    BY <1>2, HandFacts DEF InHandAt, Busy
  <2> QED BY <1>2, <2>1, StateSteps DEF MayUpload, InHandAt, OpenForWrite, BeginUpload, At
<1>3. CASE InHandAt({"process"}, s)' /\ stage' # <<>>
  <2>1. CASE ReadSegment
    <3>1. pc = "next" /\ segment \in DOMAIN dir /\ dir[segment].seg = s /\ s.index = segment
      BY <1>3, <2>1, HandFacts, TypeParts DEF DirType, InHandAt, Busy, ReadSegment
    <3> QED BY <3>1 DEF MayUpload, OnDisk, InHandAt
  <2>2. CASE ~ReadSegment
    <3>1. data'.seg = data.seg /\ data.seg = s /\ Busy
      BY <1>3, <2>2, HandFacts DEF InHandAt, Busy
    <3>2. pc = "process" /\ stage # <<>>
      BY <1>3, <2>2, ProcessSteps DEF InHandAt
    <3> QED BY <3>1, <3>2 DEF MayUpload, InHandAt
  <2> QED BY <2>1, <2>2
<1> QED BY <1>1, <1>2, <1>3 DEF MayUpload

\* A processor fails on a segment that might have been uploaded, or its removal fails.
LEMMA FailingSteps ==
    ASSUME TypeOK, [Next]_vars, NEW s, InHandAt({"failed"}, s)'
    PROVE  \/ InHandAt({"failed"}, s)
           \/ MayUpload(s)
           \/ kept' = OneMore(kept, s)
<1>1. data'.seg = data.seg /\ data.seg = s
  BY HandFacts DEF InHandAt, Busy
<1>2. \/ pc \in {"failed", "writing", "uploading"}
      \/ pc = "process" /\ stage # <<>>
      \/ kept' = OneMore(kept, data.seg)
  BY FailedSteps DEF InHandAt
<1> QED BY <1>1, <1>2 DEF MayUpload, InHandAt

LEMMA HalfFacts ==
    \A n \in Nat : /\ n \div 2 \in Nat /\ (n + 1) \div 2 \in Nat
                   /\ n \div 2 <= (n + 1) \div 2 /\ (n + 1) \div 2 <= 1 + n \div 2
                   /\ ((n + 1) + 1) \div 2 = 1 + n \div 2
  OBVIOUS

LEMMA BudgetNext == TypeOK /\ Staged /\ SealedOnce /\ Known /\ Counts /\ Budget /\ [Next]_vars => Budget'
<1> SUFFICES ASSUME TypeOK, Staged, SealedOnce, Known, Counts, Budget, [Next]_vars, NEW s \in sealed'
             PROVE  /\ Uploads(s)' <= 1 + run' + Kept(s)' \div 2
                    /\ MayUpload(s)' => Uploads(s)' <= run' + Kept(s)' \div 2
                    /\ InHandAt({"failed"}, s)' => Uploads(s)' <= run' + (Kept(s)' + 1) \div 2
  BY DEF Budget
<1> DEFINE u == Uploads(s)
           k == Kept(s)
<1>n. u \in Nat /\ k \in Nat /\ run \in Nat
  BY TypeParts, WorkerAssumption DEF Counts, Times, Uploads, Kept, RunType
\* the numbers, before and after
<1>u. \/ Uploads(s)' = u
      \/ pc = "uploading" /\ data.seg = s /\ Uploads(s)' = u + 1
  BY BucketSteps, ArrivesFacts DEF Uploads
<1>k. \/ Kept(s)' = k
      \/ pc \in {"removing", "failed"} /\ data.seg = s /\ Kept(s)' = k + 1
  BY KeptSteps, KeptFacts DEF Kept
<1>o. s \notin sealed => u = 0 /\ Uploads(s)' = 0
  <2>1. s \notin sealed => u = 0
    BY DEF Known, Uploads, Times
  <2>2. pc = "uploading" => data.seg \in sealed
    BY DEF Known, Busy
  <2> QED BY <1>u, <2>1, <2>2
<1>b. s \in sealed => /\ u <= 1 + run + k \div 2
                      /\ MayUpload(s) => u <= run + k \div 2
                      /\ InHandAt({"failed"}, s) => u <= run + (k + 1) \div 2
  BY DEF Budget
<1>h. /\ k \div 2 \in Nat /\ (k + 1) \div 2 \in Nat
      /\ k \div 2 <= (k + 1) \div 2 /\ (k + 1) \div 2 <= 1 + k \div 2
      /\ ((k + 1) + 1) \div 2 = 1 + k \div 2
  BY <1>n, HalfFacts
<1>m. pc = "uploading" /\ data.seg = s => MayUpload(s)
  BY DEF MayUpload, InHandAt
<1> HIDE DEF u, k
<1>1. CASE s \notin sealed
  <2>1. Kept(s)' \div 2 \in Nat /\ (Kept(s)' + 1) \div 2 \in Nat /\ run' \in Nat
    <3>1. Kept(s)' \in Nat /\ run' \in Nat
      BY <1>n, <1>k, RunSteps
    <3> HIDE DEF Kept
    <3> QED BY <3>1, HalfFacts
  <2> QED BY <1>1, <1>o, <2>1
<1>2. CASE s \in sealed /\ Restart
  <2>1. run' = run + 1 /\ pc' = "building" /\ Kept(s)' = k
    BY <1>2, <1>n DEF Restart, Kept, k
  <2>2. Uploads(s)' <= run + 1 + k \div 2
    BY <1>2, <1>n, <1>u, <1>b, <1>h, <1>m
  <2>3. ~InHandAt({"failed"}, s)'
    BY <2>1 DEF InHandAt
  <2> QED BY <1>n, <1>u, <1>h, <2>1, <2>2, <2>3
<1>3. CASE s \in sealed /\ ~Restart
  <2>0. run' = run
    BY <1>3, RunSteps
  <2>1. Uploads(s)' <= 1 + run + Kept(s)' \div 2
    <3>1. Uploads(s)' <= 1 + run + k \div 2
      BY <1>3, <1>n, <1>u, <1>b, <1>h, <1>m
    <3> QED BY <1>n, <1>u, <1>h, <1>k, <3>1
  <2>a. Uploads(s)' = u \/ pc' = "exited" \/ InHandAt({"removing"}, s)'
    <3> SUFFICES ASSUME pc = "uploading", data.seg = s, Uploads(s)' = u + 1
                 PROVE  pc' = "exited" \/ InHandAt({"removing"}, s)'
      BY <1>u
    <3>1. uploads' # uploads
      BY <1>n DEF Uploads, u
    <3> QED BY <1>3, <3>1, ArrivedSteps DEF InHandAt
  <2>2. MayUpload(s)' => Uploads(s)' = u
    BY <2>a DEF MayUpload, InHandAt
  <2>3. MayUpload(s)' => Uploads(s)' <= run + Kept(s)' \div 2
    <3>1. CASE MayUpload(s)
      BY <1>3, <1>n, <1>b, <1>h, <1>k, <2>2, <3>1
    <3>2. CASE InHandAt({"failed"}, s) /\ kept' = OneMore(kept, data.seg)
      <4>1. Kept(s)' = k + 1
        BY <3>2, KeptFacts DEF Kept, k, InHandAt
      <4> QED BY <1>3, <1>n, <1>b, <1>h, <2>2, <3>2, <4>1
    <3> QED BY <1>3, <3>1, <3>2, MayUploadSteps
  <2>4. InHandAt({"failed"}, s)' => Uploads(s)' <= run + (Kept(s)' + 1) \div 2
    <3> SUFFICES ASSUME InHandAt({"failed"}, s)' PROVE Uploads(s)' <= run + (Kept(s)' + 1) \div 2
      OBVIOUS
    <3>0. Uploads(s)' = u
      BY <2>a DEF InHandAt
    <3>1. CASE InHandAt({"failed"}, s)
      BY <1>3, <1>n, <1>b, <1>h, <1>k, <3>0, <3>1
    <3>2. CASE MayUpload(s)
      BY <1>3, <1>n, <1>b, <1>h, <1>k, <3>0, <3>2
    <3>3. CASE kept' = OneMore(kept, s)
      <4>1. Kept(s)' = k + 1
        BY <3>3, KeptFacts DEF Kept, k
      <4> QED BY <1>3, <1>n, <1>b, <1>h, <3>0, <4>1
    <3> QED BY <3>1, <3>2, <3>3, FailingSteps
  <2> QED BY <2>0, <2>1, <2>3, <2>4
<1> QED BY <1>1, <1>2, <1>3

-----------------------------------------------------------------------------
(* The invariants hold in the first state, and the theorems follow *)

WorkerInv == TypeOK /\ Staged /\ SealedOnce /\ Known

LEMMA WorkerInvHolds == Spec => []WorkerInv
<1>1. Init => WorkerInv
  <2>1. Init => Staged
    BY DEF Init, Staged
  <2>2. Init => SealedOnce /\ Known
    BY DEF Init, SealedOnce, Known, Busy
  <2> QED BY <2>1, <2>2, TypeInit DEF WorkerInv
<1>2. WorkerInv /\ [Next]_vars => WorkerInv'
  BY TypeNext, StagedNext, SealedNext, KnownNext DEF WorkerInv
<1> QED BY <1>1, <1>2, PTL DEF Spec

\* No sealed segment is lost, at whatever step a failure, an eviction or a restart comes: it
\* is on disk or in S3, was given up, or a restarted program has used its name again.
THEOREM WorkerAccounts == Spec => []Accounted
<1>1. Init => Dates /\ Stored /\ Accounted
  BY DEF Init, Dates, Busy, Stored, Accounted
<1>2. WorkerInv /\ Dates /\ Stored /\ Accounted /\ [Next]_vars => Dates' /\ Stored' /\ Accounted'
  BY DatesNext, StoredNext, AccountedNext DEF WorkerInv
<1> QED BY <1>1, <1>2, WorkerInvHolds, PTL DEF Spec

\* What the uploader sends is compressed and, in the run that wrote it, whole and symbolized
\* with that run's memory map.
THEOREM WorkerUploadsWhole == Spec => []UploadsWhole
<1>1. Init => FirstRun /\ UploadsWhole
  BY DEF Init, FirstRun, Busy, UploadsWhole
<1>2. WorkerInv /\ FirstRun /\ UploadsWhole /\ [Next]_vars => FirstRun' /\ UploadsWhole'
  BY FirstRunNext, UploadsWholeNext DEF WorkerInv
<1> QED BY <1>1, <1>2, WorkerInvHolds, PTL DEF Spec

\* A segment is uploaded again only when its file stayed, because two removals of it failed,
\* or the program was restarted.
THEOREM WorkerUploadsOnce == Spec => []UploadedOnce
<1>1. Init => Counts /\ Budget
  BY DEF Init, Counts, Budget
<1>2. WorkerInv /\ Counts /\ Budget /\ [Next]_vars => Counts' /\ Budget'
  BY CountsNext, BudgetNext DEF WorkerInv
<1>3. WorkerInv /\ Budget => UploadedOnce
  BY DEF WorkerInv, Known, Budget, Uploads, Kept, Times, UploadedOnce
<1> QED BY <1>1, <1>2, <1>3, WorkerInvHolds, PTL DEF Spec

\* The write-back leaves no file cut short behind it, whether it succeeds, fails or is
\* stopped, in a run that does not crash and can remove its files.
THEOREM WorkerTearsNothing == Spec => []NoTornFile
<1>1. Init => NoTornFile /\ InHandWhole
  BY DEF Init, NoTornFile, InHandWhole, Busy
<1>2. WorkerInv /\ NoTornFile /\ InHandWhole /\ [Next]_vars => NoTornFile' /\ InHandWhole'
  BY NoTornNext, InHandWholeNext DEF WorkerInv
<1> QED BY <1>1, <1>2, WorkerInvHolds, PTL DEF Spec
=============================================================================
