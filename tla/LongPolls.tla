----------------------------- MODULE LongPolls ------------------------------
(***************************************************************************)
(* Task dumps of futures that wait for long (task_dump.rs): DetectLongWait *)
(* polls its future, takes a trace of it when it is pending, and keeps a   *)
(* sentinel with its traces; LongPollTracker looks at the sentinels in a   *)
(* wheel of buckets, one bucket a second, and reports those that are old.  *)
(* Time is counted in parts of a second.                                   *)
(***************************************************************************)
EXTENDS Naturals, SequencesExt

CONSTANTS
    Tasks,       \* the futures that are wrapped; the sentinel of one has its name
    Addresses,   \* where a sentinel may be allocated
    Buckets,     \* 60
    Ahead,       \* 6 buckets ahead a new sentinel is put
    MinAge,      \* 6 s
    Second,      \* parts of a second
    MinInterval, \* TrackerConfig.min_trace_interval, in parts of a second
    Late,        \* how late a tick may be
    MaxTraces, MaxTime   \* bounds

ASSUME LongPollsAssumption ==
    /\ Buckets \in Nat \ {0} /\ Ahead \in 1 .. Buckets /\ MinAge \in Nat /\ Second \in Nat \ {0}
    /\ MinInterval \in Nat /\ Late \in Nat /\ MaxTraces \in Nat /\ MaxTime \in Nat
    /\ MinAge < Ahead + Buckets
    /\ Cardinality(Tasks) <= Cardinality(Addresses)

VARIABLES
    future,      \* of a task: new, pending, ready, dropped
    status,      \* of its sentinel: none, Pending, Completed, Cancelled
    traces,      \* the times of its traces
    address,
    channel,     \* sentinels that the tracker has not received
    handle,      \* TrackerHandle.sentinel_tx is alive
    buckets, current_bucket,
    send_counts, \* of the addresses that have one
    running      \* the tracker's task

\* ghost variables
VARIABLES
    now,
    ticked,      \* the time of the last tick
    reports      \* what was sent to the receiver

sentinels == <<status, traces, address>>
tracker == <<buckets, current_bucket, send_counts, running, ticked, reports>>
vars == <<future, sentinels, channel, handle, tracker, now>>

None == "none"

Init ==
    /\ future = [t \in Tasks |-> "new"] /\ status = [t \in Tasks |-> None]
    /\ traces = [t \in Tasks |-> <<>>] /\ address = [t \in Tasks |-> None]
    /\ channel = <<>> /\ handle = TRUE
    /\ buckets = [b \in 0 .. Buckets - 1 |-> <<>>] /\ current_bucket = 0
    /\ send_counts = <<>> /\ running = TRUE
    /\ now = 0 /\ ticked = 0 /\ reports = <<>>

-----------------------------------------------------------------------------
(* DetectLongWait *)

\* An Arc is freed when neither the future nor the tracker holds it.
Held(t) == /\ status[t] # None
           /\ \/ future[t] # "dropped"
              \/ t \in Range(channel)
              \/ \E b \in DOMAIN buckets : t \in Range(buckets[b])

\* the first poll of the future is ready
poll_ready(t) ==
    /\ future[t] \in {"new", "pending"} /\ future' = [future EXCEPT ![t] = "ready"]
    /\ status' = [status EXCEPT ![t] = IF @ = None THEN None ELSE "Completed"]
    /\ UNCHANGED <<traces, address, channel, handle, tracker, now>>

\* the second one, under Trace::capture, is: the sentinel is left as it is
capture_ready(t) ==
    /\ future[t] \in {"new", "pending"} /\ future' = [future EXCEPT ![t] = "ready"]
    /\ UNCHANGED <<sentinels, channel, handle, tracker, now>>

\* Both are pending: a sentinel is made and sent, or gets the trace, unless the one
\* before is too recent.
capture_pending(t) ==
    /\ future[t] \in {"new", "pending"} /\ future' = [future EXCEPT ![t] = "pending"]
    /\ MapThenSumSet(LAMBDA s : Len(traces[s]), Tasks) < MaxTraces
    /\ status' = [status EXCEPT ![t] = "Pending"]
    /\ IF status[t] = None
       THEN /\ traces' = [traces EXCEPT ![t] = <<now>>]
            /\ \E a \in Addresses \ {address[s] : s \in {u \in Tasks : Held(u)}} : address' = [address EXCEPT ![t] = a]
            /\ channel' = IF running THEN Append(channel, t) ELSE channel
       ELSE /\ traces' = [traces EXCEPT ![t] = IF now - Last(@) >= MinInterval THEN Append(@, now) ELSE @]
            /\ UNCHANGED <<address, channel>>
    /\ UNCHANGED <<handle, tracker, now>>

\* The future is done with, or given up.
drop(t) ==
    /\ future[t] # "dropped" /\ future' = [future EXCEPT ![t] = "dropped"]
    /\ status' = [status EXCEPT ![t] = IF @ = "Pending" THEN "Cancelled" ELSE @]
    /\ UNCHANGED <<traces, address, channel, handle, tracker, now>>

-----------------------------------------------------------------------------
(* LongPollTracker *)

Disconnected == ~handle /\ \A t \in Tasks : future[t] = "dropped"

Age(t) == (now - traces[t][1]) \div Second
Old(t) == Age(t) >= MinAge
count(a) == IF a \in DOMAIN send_counts THEN send_counts[a] ELSE 0
counted(bucket) ==
    LET sent == {address[t] : t \in Range(bucket)}
    IN  [a \in DOMAIN send_counts \union sent |-> IF a \in sent THEN count(a) + 1 ELSE count(a)]

\* The bucket is looked through: the old ones are reported; those that are pending
\* stay in it.
retain(bucket, kept) ==
    LET among[n \in 0 .. Len(bucket)] ==
            IF n = 0 THEN <<>>
            ELSE IF bucket[n] \in kept THEN Append(among[n - 1], bucket[n]) ELSE among[n - 1]
    IN  among[Len(bucket)]
AllPending == {t \in Tasks : status[t] = "Pending"}
Report(t) == [task |-> t, send_count |-> count(address[t]), address |-> address[t], age |-> Age(t), future |-> future[t]]
\* variant: the young ones do not stay
visit_drops(wheel) ==
    LET bucket == wheel[current_bucket']
        due == retain(bucket, {t \in AllPending : Old(t)})
    IN  /\ reports' = reports \o [i \in DOMAIN due |-> Report(due[i])]
        /\ send_counts' = counted(due)
        /\ buckets' = [wheel EXCEPT ![current_bucket'] = due]
\* variant: the count is that of all reports
visit_counts_all(wheel) ==
    LET bucket == wheel[current_bucket']
        due == retain(bucket, {t \in AllPending : Old(t)})
    IN  /\ reports' = reports \o [i \in DOMAIN due |-> [Report(due[i]) EXCEPT !.send_count = Len(reports)]]
        /\ UNCHANGED send_counts
        /\ buckets' = [wheel EXCEPT ![current_bucket'] = retain(bucket, AllPending)]
visit(wheel) ==
    LET bucket == wheel[current_bucket']
        due == retain(bucket, {t \in AllPending : Old(t)})
    IN  /\ reports' = reports \o [i \in DOMAIN due |-> Report(due[i])]
        /\ send_counts' = counted(due)
        /\ buckets' = [wheel EXCEPT ![current_bucket'] = retain(bucket, AllPending)]

\* Once a second: what was sent is received, and put so many buckets ahead of the
\* bucket that was looked at last; the next one is looked at.
tick ==
    /\ running /\ now >= ticked + Second /\ ticked' = now
    /\ channel' = <<>>
    /\ IF Disconnected
       THEN /\ running' = FALSE /\ buckets' = [b \in DOMAIN buckets |-> <<>>]
            /\ UNCHANGED <<current_bucket, send_counts, reports>>
       ELSE /\ current_bucket' = (current_bucket + 1) % Buckets
            /\ LET target == (current_bucket + Ahead) % Buckets
                   received == [buckets EXCEPT ![target] = @ \o channel]
               IN  visit(received)
            /\ UNCHANGED running
    /\ UNCHANGED <<future, sentinels, handle, now>>

-----------------------------------------------------------------------------
\* The timer is at most so late.
Elapse ==
    /\ now < MaxTime /\ (running => now < ticked + Second + Late) /\ now' = now + 1
    /\ UNCHANGED <<future, sentinels, channel, handle, tracker>>

DropHandle == handle /\ handle' = FALSE /\ UNCHANGED <<future, sentinels, channel, tracker, now>>

Next ==
    \/ \E t \in Tasks :
          \/ poll_ready(t)
          \/ capture_ready(t)
          \/ capture_pending(t)
          \/ drop(t)
    \/ tick \/ Elapse \/ DropHandle

Spec == Init /\ [][Next]_vars
-----------------------------------------------------------------------------
(* Properties *)

\* A report is of a future that is pending, and old; its count is the number of
\* reports of that sentinel before it, unless it was allocated where one that had been
\* reported was: a count outlives its sentinel (send_counts).
ReportsCounted ==
    \A i \in DOMAIN reports :
        LET r == reports[i]
            earlier == {j \in 1 .. i - 1 : reports[j].address = r.address}
            own == {j \in earlier : reports[j].task = r.task}
        IN  /\ r.age >= MinAge /\ r.future \in {"pending", "ready"}
            /\ r.send_count >= Cardinality(own)
            /\ own = earlier => r.send_count = Cardinality(own)

\* A future that stays pending is reported, but as late as a lap of the wheel after it
\* is old enough: when its bucket comes up for the first time it is up to a second too
\* young, and the bucket comes up again after a lap.
ReportedInTime ==
    \A t \in Tasks :
        running /\ future[t] = "pending" /\ now - traces[t][1] > (Ahead + Buckets) * (Second + Late)
            => \E i \in DOMAIN reports : reports[i].task = t
=============================================================================
