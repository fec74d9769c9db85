--------------------------- MODULE LongPollsProofs ---------------------------
(***************************************************************************)
(* What LongPolls promises, proved for every number of futures, addresses  *)
(* and buckets, and for every second, age and lateness.                    *)
(***************************************************************************)
EXTENDS LongPolls, FiniteSetTheorems, WellFoundedInduction, TLAPS

-----------------------------------------------------------------------------
(* The invariant *)

Reports == [task : Tasks, send_count : Nat, address : Addresses \union {None}, age : Nat,
            future : {"pending", "ready"}]

Typed ==
    /\ future \in [Tasks -> {"new", "pending", "ready", "dropped"}]
    /\ status \in [Tasks -> {None, "Pending", "Completed", "Cancelled"}]
    /\ traces \in [Tasks -> Seq(Nat)]
    /\ address \in [Tasks -> Addresses \union {None}]
    /\ channel \in Seq(Tasks)
    /\ buckets \in [0 .. Buckets - 1 -> Seq(Tasks)] /\ current_bucket \in 0 .. Buckets - 1
    /\ running \in BOOLEAN
    /\ reports \in Seq(Reports) /\ \A a \in DOMAIN send_counts : send_counts[a] \in Nat
    /\ now \in Nat /\ ticked \in Nat /\ ticked <= now

\* A sentinel is there from the first trace on, and pending as long as the future is.
Followed ==
    \A t \in Tasks :
        /\ status[t] = "Pending" => future[t] \in {"pending", "ready"}
        /\ future[t] = "pending" => status[t] = "Pending"
        /\ future[t] = "new" => status[t] = None
        /\ status[t] # None => traces[t] # <<>> /\ traces[t][1] <= now

Distinct(seq) == \A i, j \in DOMAIN seq : seq[i] = seq[j] => i = j

\* A sentinel is in one place at most, and there once.
Once ==
    /\ Distinct(channel)
    /\ \A b \in DOMAIN buckets : Distinct(buckets[b])
    /\ \A t \in Range(channel) : status[t] # None /\ \A b \in DOMAIN buckets : t \notin Range(buckets[b])
    /\ \A b \in DOMAIN buckets : \A t \in Range(buckets[b]) :
          status[t] # None /\ \A c \in DOMAIN buckets \ {b} : t \notin Range(buckets[c])

\* No two sentinels that are held by someone are at one address.
OwnAddress == \A s, t \in Tasks : s # t /\ Held(s) /\ Held(t) => address[s] # address[t]

\* The reports of an address among the first so many.
From(sent, a, n) == {j \in 1 .. n : sent[j].address = a}

\* The counts are those of the reports.
Tallied ==
    /\ \A a \in Addresses \union {None} :
          (IF a \in DOMAIN send_counts THEN send_counts[a] ELSE 0) = Cardinality(From(reports, a, Len(reports)))
    /\ \A i \in DOMAIN reports :
          /\ reports[i].age >= MinAge
          /\ reports[i].send_count = Cardinality(From(reports, reports[i].address, i - 1))

\* the ticks until bucket b is looked at
Distance(b) == IF b > current_bucket THEN b - current_bucket ELSE b - current_bucket + Buckets

Lap == Second + Late   \* the longest that a tick takes

\* A sentinel whose bucket comes up so many ticks from now is looked at in time: for the
\* first time, or for the second time and old enough by then.
FirstTime(last, start, d) ==
    /\ last + d * Lap <= start + Ahead * Lap
    /\ last + d * Second >= start + (Ahead - 1) * Second
SecondTime(last, start, d) ==
    /\ last + d * Lap <= start + (Ahead + Buckets) * Lap
    /\ last + d * Second >= start + (Ahead + Buckets - 1) * Second
OnTime(last, start, d) == FirstTime(last, start, d) \/ SecondTime(last, start, d)
Scheduled(t, b) == OnTime(ticked, traces[t][1], Distance(b))

Reported(t) == \E i \in DOMAIN reports : reports[i].task = t

InTime ==
    running =>
        /\ now <= ticked + Lap
        /\ \A t \in Range(channel) : ticked <= traces[t][1]
        /\ \A t \in Tasks : future[t] = "pending" =>
              Reported(t) \/ t \in Range(channel) \/ \E b \in DOMAIN buckets : t \in Range(buckets[b]) /\ Scheduled(t, b)

-----------------------------------------------------------------------------
(* What retain returns *)

LEMMA LeastNat == ASSUME NEW T, T \subseteq Nat, T # {} PROVE \E x \in T : \A y \in T : x <= y
<1> DEFINE R == {ss \in Nat \X Nat : ss[1] < ss[2]}
<1>1. IsWellFoundedOn(R, Nat)
  BY NatLessThanWellFounded DEF OpToRel
<1>2. \A x, y \in Nat : <<y, x>> \in R <=> y < x
  OBVIOUS
<1> HIDE DEF R
<1>3. \E x \in T : \A y \in T : ~ (<<y, x>> \in R)
  BY <1>1, WFMin
<1>4. PICK x \in T : \A y \in T : ~ (<<y, x>> \in R)
  BY <1>3
<1>5. \A y \in T : ~ (y < x)
  BY <1>2, <1>4
<1> QED BY <1>5

\* f is what was kept of each of the first m prefixes of a bucket.
Kept(bucket, kept, m, f) ==
    f = [n \in 0 .. m |-> IF n = 0 THEN <<>>
                          ELSE IF bucket[n] \in kept THEN Append(f[n - 1], bucket[n]) ELSE f[n - 1]]

LEMMA KeptExists == ASSUME NEW bucket, NEW kept, NEW m \in Nat PROVE \E f : Kept(bucket, kept, m, f)
<1> DEFINE T == {n \in Nat : ~ \E f : Kept(bucket, kept, n, f)}
<1> SUFFICES ASSUME T # {} PROVE FALSE
  OBVIOUS
<1>1. PICK n \in T : \A k \in T : n <= k
  BY LeastNat, T \subseteq Nat
<1>2. n # 0
  <2> DEFINE g == [k \in 0 .. 0 |-> <<>>]
  <2>1. Kept(bucket, kept, 0, g)
    BY DEF Kept
  <2> QED BY <2>1
<1>3. n - 1 \in Nat /\ n - 1 \notin T
  BY <1>1, <1>2
<1>4. PICK f : Kept(bucket, kept, n - 1, f)
  BY <1>3
<1> DEFINE g == [k \in 0 .. n |-> IF k < n THEN f[k]
                                  ELSE IF bucket[n] \in kept THEN Append(f[n - 1], bucket[n]) ELSE f[n - 1]]
<1>5. \A k \in 0 .. n : g[k] = IF k = 0 THEN <<>>
                               ELSE IF bucket[k] \in kept THEN Append(g[k - 1], bucket[k]) ELSE g[k - 1]
  <2>1. \A k \in 0 .. n - 1 : f[k] = IF k = 0 THEN <<>>
                                     ELSE IF bucket[k] \in kept THEN Append(f[k - 1], bucket[k]) ELSE f[k - 1]
    BY <1>3, <1>4 DEF Kept
  <2> TAKE k \in 0 .. n
  <2>2. CASE k = n
    <3>1. g[n] = IF bucket[n] \in kept THEN Append(f[n - 1], bucket[n]) ELSE f[n - 1]
      OBVIOUS
    <3>2. g[n - 1] = f[n - 1]
      BY <1>2, <1>3
    <3> QED BY <1>2, <2>2, <3>1, <3>2
  <2>3. CASE k < n
    <3>1. k \in 0 .. n - 1 /\ g[k] = f[k]
      BY <1>3, <2>3
    <3>2. k # 0 => g[k - 1] = f[k - 1]
      BY <1>3, <2>3
    <3> QED BY <2>1, <3>1, <3>2
  <2> QED BY <2>2, <2>3
<1>6. Kept(bucket, kept, n, g)
  <2> DEFINE h == [k \in 0 .. n |-> IF k = 0 THEN <<>>
                                    ELSE IF bucket[k] \in kept THEN Append(g[k - 1], bucket[k]) ELSE g[k - 1]]
  <2>1. DOMAIN g = DOMAIN h /\ \A k \in 0 .. n : g[k] = h[k]
    BY <1>5
  <2>2. g = h
    BY <2>1
  <2> QED BY <2>2 DEF Kept
<1> QED BY <1>6

LEMMA KeptAt == ASSUME NEW bucket, NEW kept, NEW m \in Nat, NEW f, Kept(bucket, kept, m, f), NEW n \in 1 .. m
  PROVE f[n] = IF bucket[n] \in kept THEN Append(f[n - 1], bucket[n]) ELSE f[n - 1]
<1>1. \A k \in 0 .. m : f[k] = IF k = 0 THEN <<>>
                               ELSE IF bucket[k] \in kept THEN Append(f[k - 1], bucket[k]) ELSE f[k - 1]
  BY DEF Kept
<1> QED BY <1>1

\* The last of them is what retain returns.
LEMMA RetainIsKept == ASSUME NEW bucket, Len(bucket) \in Nat, NEW kept
  PROVE \E f : Kept(bucket, kept, Len(bucket), f) /\ retain(bucket, kept) = f[Len(bucket)]
<1> DEFINE f == CHOOSE f : Kept(bucket, kept, Len(bucket), f)
<1>1. Kept(bucket, kept, Len(bucket), f)
  BY KeptExists
<1>2. retain(bucket, kept) = f[Len(bucket)]
  BY DEF retain, Kept
<1> QED BY <1>1, <1>2

\* The members that are kept are there, no others, and none more often than before.
KeptWell(S, bucket, kept, seq, n) ==
    /\ seq \in Seq(S)
    /\ \A x : x \in Range(seq) <=> x \in kept /\ \E i \in 1 .. n : bucket[i] = x
    /\ Distinct(bucket) => Distinct(seq)

LEMMA RetainFacts == ASSUME NEW S, NEW bucket \in Seq(S), NEW kept
  PROVE /\ retain(bucket, kept) \in Seq(S)
        /\ Range(retain(bucket, kept)) = Range(bucket) \intersect kept
        /\ Distinct(bucket) => Distinct(retain(bucket, kept))
<1>1. PICK f : Kept(bucket, kept, Len(bucket), f) /\ retain(bucket, kept) = f[Len(bucket)]
  BY RetainIsKept
<1>0. \A n \in 1 .. Len(bucket) : f[n] = IF bucket[n] \in kept THEN Append(f[n - 1], bucket[n]) ELSE f[n - 1]
  BY <1>1, KeptAt
<1> DEFINE Good(n) == KeptWell(S, bucket, kept, f[n], n)
           T == {n \in 0 .. Len(bucket) : ~Good(n)}
<1>2. T = {}
  <2> SUFFICES ASSUME T # {} PROVE FALSE
    OBVIOUS
  <2>1. PICK n \in T : \A k \in T : n <= k
    BY LeastNat, T \subseteq Nat
  <2>2. n # 0
    <3>1. f[0] = <<>>
      BY <1>1 DEF Kept
    <3>2. Good(0)
      BY <3>1 DEF KeptWell, Range, Distinct
    <3> QED BY <3>2
  <2>3. n \in 1 .. Len(bucket) /\ n - 1 \in 0 .. Len(bucket) /\ n - 1 \notin T
    BY <2>1, <2>2
  <2>4. Good(n - 1)
    BY <2>3
  <2>5. f[n] = IF bucket[n] \in kept THEN Append(f[n - 1], bucket[n]) ELSE f[n - 1]
    BY <1>0, <2>3
  <2>6. CASE bucket[n] \notin kept
    <3>1. Good(n)
      BY <2>3, <2>4, <2>5, <2>6 DEF KeptWell
    <3> QED BY <3>1
  <2>7. CASE bucket[n] \in kept
    <3>1. f[n] = Append(f[n - 1], bucket[n]) /\ bucket[n] \in S /\ f[n - 1] \in Seq(S)
      BY <2>3, <2>4, <2>5, <2>7 DEF KeptWell
    <3>2. f[n] \in Seq(S) /\ Len(f[n]) = Len(f[n - 1]) + 1 /\ f[n][Len(f[n])] = bucket[n]
          /\ \A i \in 1 .. Len(f[n - 1]) : f[n][i] = f[n - 1][i]
      BY <3>1
    <3>3. \A x : x \in Range(f[n]) <=> x \in Range(f[n - 1]) \/ x = bucket[n]
      <4>1. DOMAIN f[n] = 1 .. Len(f[n - 1]) + 1 /\ DOMAIN f[n - 1] = 1 .. Len(f[n - 1])
        BY <3>1, <3>2
      <4>2. Len(f[n - 1]) \in Nat
        BY <3>1
      <4>3. f[n][Len(f[n - 1]) + 1] = bucket[n]
        BY <3>2
      <4> HIDE DEF Good, T
      <4> TAKE x
      <4>4. x \in Range(f[n]) <=> \E i \in 1 .. Len(f[n - 1]) + 1 : f[n][i] = x
        BY <4>1 DEF Range
      <4>5. x \in Range(f[n - 1]) <=> \E i \in 1 .. Len(f[n - 1]) : f[n - 1][i] = x
        BY <4>1 DEF Range
      <4> QED BY <3>2, <4>2, <4>3, <4>4, <4>5
    <3>4. \A x : x \in Range(f[n]) <=> x \in kept /\ \E i \in 1 .. n : bucket[i] = x
      BY <2>3, <2>4, <2>7, <3>3 DEF KeptWell
    <3>5. ASSUME Distinct(bucket) PROVE Distinct(f[n])
      <4>1. bucket[n] \notin Range(f[n - 1])
        <5>1. \A i \in 1 .. n - 1 : bucket[i] # bucket[n]
          BY <2>3, <3>5 DEF Distinct
        <5> QED BY <2>4, <5>1 DEF KeptWell
      <4>2. \A i \in 1 .. Len(f[n - 1]) : f[n][i] # f[n][Len(f[n])]
        BY <3>1, <3>2, <4>1 DEF Range
      <4> QED BY <2>4, <3>1, <3>2, <3>5, <4>2 DEF KeptWell, Distinct
    <3> QED BY <3>2, <3>4, <3>5 DEF KeptWell
  <2> QED BY <2>6, <2>7
<1>3. Good(Len(bucket))
  BY <1>2, Len(bucket) \in 0 .. Len(bucket)
<1>4. \A x : x \in Range(bucket) <=> \E i \in 1 .. Len(bucket) : bucket[i] = x
  BY DEF Range
<1> QED BY <1>1, <1>3, <1>4 DEF KeptWell

-----------------------------------------------------------------------------
(* Sequences, and the wheel *)

LEMMA RangeOf == ASSUME NEW S, NEW seq \in Seq(S)
  PROVE Range(seq) \subseteq S /\ \A x : x \in Range(seq) <=> \E i \in 1 .. Len(seq) : seq[i] = x
  BY DEF Range

LEMMA RangeOfAppend == ASSUME NEW S, NEW seq \in Seq(S), NEW x \in S
  PROVE /\ Range(Append(seq, x)) = Range(seq) \union {x}
        /\ Distinct(seq) /\ x \notin Range(seq) => Distinct(Append(seq, x))
<1>1. Append(seq, x) \in Seq(S) /\ Len(Append(seq, x)) = Len(seq) + 1 /\ Append(seq, x)[Len(seq) + 1] = x
      /\ \A i \in 1 .. Len(seq) : Append(seq, x)[i] = seq[i]
  OBVIOUS
<1>2. DOMAIN Append(seq, x) = 1 .. Len(seq) + 1 /\ DOMAIN seq = 1 .. Len(seq) /\ Len(seq) \in Nat
  BY <1>1
<1> DEFINE longer == Append(seq, x)
<1> HIDE DEF longer
<1>3. \A y : y \in Range(longer) <=> y \in Range(seq) \/ y = x
  BY <1>1, <1>2 DEF Range, longer
<1>4. ASSUME Distinct(seq), x \notin Range(seq) PROVE Distinct(longer)
  BY <1>1, <1>2, <1>4 DEF Range, Distinct, longer
<1> QED BY <1>3, <1>4 DEF longer

LEMMA RangeOfConcat == ASSUME NEW S, NEW seq \in Seq(S), NEW more \in Seq(S)
  PROVE /\ Range(seq \o more) = Range(seq) \union Range(more)
        /\ Distinct(seq) /\ Distinct(more) /\ Range(seq) \intersect Range(more) = {} => Distinct(seq \o more)
<1> DEFINE both == seq \o more
<1>1. Len(both) = Len(seq) + Len(more) /\ (\A i \in 1 .. Len(seq) : both[i] = seq[i])
      /\ \A i \in 1 .. Len(more) : both[Len(seq) + i] = more[i]
  OBVIOUS
<1>2. DOMAIN both = 1 .. Len(seq) + Len(more) /\ DOMAIN seq = 1 .. Len(seq) /\ DOMAIN more = 1 .. Len(more)
      /\ Len(seq) \in Nat /\ Len(more) \in Nat
  BY <1>1
<1>3. \A i \in 1 .. Len(seq) + Len(more) :
         \/ i \in 1 .. Len(seq) /\ both[i] = seq[i]
         \/ i - Len(seq) \in 1 .. Len(more) /\ both[i] = more[i - Len(seq)]
  <2> TAKE i \in 1 .. Len(seq) + Len(more)
  <2>1. CASE i <= Len(seq)
    BY <1>1, <2>1
  <2>2. CASE i > Len(seq)
    <3>1. i - Len(seq) \in 1 .. Len(more) /\ Len(seq) + (i - Len(seq)) = i
      BY <1>2, <2>2
    <3> HIDE DEF both
    <3>2. both[Len(seq) + (i - Len(seq))] = more[i - Len(seq)]
      BY <1>1, <3>1
    <3> QED BY <3>1, <3>2
  <2> QED BY <1>2, <2>1, <2>2
<1> HIDE DEF both
<1>4. \A y : y \in Range(both) <=> y \in Range(seq) \/ y \in Range(more)
  <2> TAKE y
  <2>1. y \in Range(both) => y \in Range(seq) \/ y \in Range(more)
    BY <1>2, <1>3 DEF Range
  <2>2. y \in Range(seq) => y \in Range(both)
    BY <1>1, <1>2 DEF Range
  <2>3. y \in Range(more) => y \in Range(both)
    <3> SUFFICES ASSUME NEW k \in 1 .. Len(more), y = more[k] PROVE y \in Range(both)
      BY <1>2 DEF Range
    <3>1. Len(seq) + k \in DOMAIN both /\ both[Len(seq) + k] = y
      BY <1>1, <1>2
    <3> QED BY <3>1 DEF Range
  <2> QED BY <2>1, <2>2, <2>3
<1>5. ASSUME Distinct(seq), Distinct(more), Range(seq) \intersect Range(more) = {}
      PROVE Distinct(both)
  <2> SUFFICES ASSUME NEW i \in 1 .. Len(seq) + Len(more), NEW j \in 1 .. Len(seq) + Len(more), both[i] = both[j]
               PROVE i = j
    BY <1>2 DEF Distinct
  <2>1. CASE i \in 1 .. Len(seq) /\ both[i] = seq[i]
    <3>1. j \in 1 .. Len(seq) /\ both[j] = seq[j]
      BY <1>2, <1>3, <1>5, <2>1 DEF Range
    <3> QED BY <1>2, <1>5, <2>1, <3>1 DEF Distinct
  <2>2. CASE i - Len(seq) \in 1 .. Len(more) /\ both[i] = more[i - Len(seq)]
    <3>1. j - Len(seq) \in 1 .. Len(more) /\ both[j] = more[j - Len(seq)]
      BY <1>2, <1>3, <1>5, <2>2 DEF Range
    <3>2. more[i - Len(seq)] = more[j - Len(seq)]
      BY <2>2, <3>1
    <3>3. i - Len(seq) = j - Len(seq)
      BY <1>2, <1>5, <2>2, <3>1, <3>2 DEF Distinct
    <3> QED BY <1>2, <3>3
  <2> QED BY <1>3, <2>1, <2>2
<1> QED BY <1>4, <1>5 DEF both

LEMMA Wraps == ASSUME NEW b \in 0 .. Buckets - 1, NEW k \in 1 .. Buckets
  PROVE (b + k) % Buckets = IF b + k < Buckets THEN b + k ELSE b + k - Buckets
  BY LongPollsAssumption

-----------------------------------------------------------------------------
(* A tick *)

\* the bucket that what was sent is put into, and the one that is looked at
Target == (current_bucket + Ahead) % Buckets
Visited == (current_bucket + 1) % Buckets
Received == [buckets EXCEPT ![Target] = @ \o channel]
Due == retain(Received[Visited], {t \in AllPending : Old(t)})

LEMMA TickPlaces == ASSUME Typed
  PROVE /\ Target \in 0 .. Buckets - 1
        /\ Target = IF current_bucket + Ahead < Buckets THEN current_bucket + Ahead ELSE current_bucket + Ahead - Buckets
        /\ Visited \in 0 .. Buckets - 1
        /\ Visited = IF current_bucket + 1 < Buckets THEN current_bucket + 1 ELSE 0
        /\ Received \in [0 .. Buckets - 1 -> Seq(Tasks)]
<1>1. current_bucket \in 0 .. Buckets - 1 /\ 1 \in 1 .. Buckets /\ Ahead \in 1 .. Buckets /\ Buckets \in Nat
  BY LongPollsAssumption DEF Typed
<1>2. /\ Target = IF current_bucket + Ahead < Buckets THEN current_bucket + Ahead ELSE current_bucket + Ahead - Buckets
      /\ Visited = IF current_bucket + 1 < Buckets THEN current_bucket + 1 ELSE 0
  <2>1. (current_bucket + Ahead) % Buckets =
           IF current_bucket + Ahead < Buckets THEN current_bucket + Ahead ELSE current_bucket + Ahead - Buckets
    BY <1>1, Wraps
  <2>2. (current_bucket + 1) % Buckets =
           IF current_bucket + 1 < Buckets THEN current_bucket + 1 ELSE current_bucket + 1 - Buckets
    BY <1>1, Wraps
  <2>3. ~ (current_bucket + 1 < Buckets) => current_bucket + 1 - Buckets = 0
    BY <1>1
  <2> QED BY <2>1, <2>2, <2>3 DEF Target, Visited
<1>3. Target \in 0 .. Buckets - 1 /\ Visited \in 0 .. Buckets - 1
  BY <1>1, <1>2
<1>4. Received \in [0 .. Buckets - 1 -> Seq(Tasks)]
  BY <1>3 DEF Received, Typed
<1> QED BY <1>2, <1>3, <1>4

\* What is in the buckets when the channel has been received.
LEMMA ReceivedHolds == ASSUME Typed, Once, NEW b \in 0 .. Buckets - 1
  PROVE /\ Range(Received[b]) = Range(buckets[b]) \union (IF b = Target THEN Range(channel) ELSE {})
        /\ Distinct(Received[b])
<1>1. buckets[b] \in Seq(Tasks) /\ channel \in Seq(Tasks) /\ Target \in 0 .. Buckets - 1 /\ DOMAIN buckets = 0 .. Buckets - 1
  BY TickPlaces DEF Typed
<1>2. Received[b] = IF b = Target THEN buckets[b] \o channel ELSE buckets[b]
  BY <1>1 DEF Received
<1>3. Distinct(buckets[b]) /\ Distinct(channel) /\ Range(buckets[b]) \intersect Range(channel) = {}
  BY <1>1 DEF Once
<1>4. CASE b = Target
  BY <1>1, <1>2, <1>3, <1>4, RangeOfConcat
<1>5. CASE b # Target
  BY <1>2, <1>3, <1>5
<1> QED BY <1>4, <1>5

\* What a tick does when someone may still send.
LEMMA TickLooks == ASSUME Typed, Once, tick, ~Disconnected
  PROVE /\ current_bucket' = Visited
        /\ buckets' \in [0 .. Buckets - 1 -> Seq(Tasks)]
        /\ \A b \in 0 .. Buckets - 1 :
              /\ Range(buckets'[b]) = IF b = Visited THEN Range(Received[b]) \intersect AllPending ELSE Range(Received[b])
              /\ Distinct(buckets'[b])
        /\ channel' = <<>> /\ running /\ running' /\ now >= ticked + Second /\ ticked' = now
        /\ Due \in Seq(Tasks) /\ Distinct(Due)
        /\ Range(Due) = {t \in Range(Received[Visited]) : t \in AllPending /\ Old(t)}
        /\ reports' = reports \o [i \in DOMAIN Due |-> Report(Due[i])]
        /\ send_counts' = counted(Due)
<1>1. /\ current_bucket' = Visited /\ visit(Received) /\ running' = running
      /\ channel' = <<>> /\ running /\ now >= ticked + Second /\ ticked' = now
  BY DEF tick, Visited, Received, Target
<1>2. /\ reports' = reports \o [i \in DOMAIN Due |-> Report(Due[i])]
      /\ send_counts' = counted(Due)
      /\ buckets' = [Received EXCEPT ![Visited] = retain(Received[Visited], AllPending)]
  BY <1>1 DEF visit, Due
<1>3. Visited \in 0 .. Buckets - 1 /\ Received \in [0 .. Buckets - 1 -> Seq(Tasks)]
  BY TickPlaces
<1>4. Received[Visited] \in Seq(Tasks) /\ Distinct(Received[Visited])
  BY <1>3, ReceivedHolds
<1>5. Due \in Seq(Tasks) /\ Distinct(Due) /\ Range(Due) = Range(Received[Visited]) \intersect {t \in AllPending : Old(t)}
  BY <1>4, RetainFacts DEF Due
<1> DEFINE left == retain(Received[Visited], AllPending)
<1>6. left \in Seq(Tasks) /\ Distinct(left) /\ Range(left) = Range(Received[Visited]) \intersect AllPending
  BY <1>4, RetainFacts
<1>7. buckets' = [Received EXCEPT ![Visited] = left]
  BY <1>2
<1> HIDE DEF left
<1>8. buckets' \in [0 .. Buckets - 1 -> Seq(Tasks)] /\ \A b \in 0 .. Buckets - 1 : buckets'[b] = IF b = Visited THEN left ELSE Received[b]
  BY <1>3, <1>6, <1>7
<1>9. ASSUME NEW b \in 0 .. Buckets - 1
      PROVE /\ Range(buckets'[b]) = IF b = Visited THEN Range(Received[b]) \intersect AllPending ELSE Range(Received[b])
            /\ Distinct(buckets'[b])
  BY <1>6, <1>8, ReceivedHolds
<1>10. Range(Due) = {t \in Range(Received[Visited]) : t \in AllPending /\ Old(t)}
  BY <1>5
<1> QED BY <1>1, <1>2, <1>5, <1>8, <1>9, <1>10

-----------------------------------------------------------------------------
(* Types, and what follows a future *)

LEMMA TypedInit == Init => Typed /\ Followed /\ Once /\ OwnAddress /\ Tallied /\ InTime
<1> SUFFICES ASSUME Init PROVE Typed /\ Followed /\ Once /\ OwnAddress /\ Tallied /\ InTime
  OBVIOUS
<1>1. Typed
  BY LongPollsAssumption DEF Init, Typed
<1>2. Followed
  BY DEF Init, Followed, None
<1>3. \A b \in DOMAIN buckets : buckets[b] = <<>> /\ Range(buckets[b]) = {} /\ channel = <<>> /\ Range(channel) = {}
  BY DEF Init, Range
<1>4. Once
  <2>1. DOMAIN channel = {} /\ Range(channel) = {} /\ \A b \in DOMAIN buckets : DOMAIN buckets[b] = {}
    BY DEF Init, Range
  <2> QED BY <2>1, <1>3 DEF Once, Distinct
<1>5. OwnAddress
  BY DEF Init, OwnAddress, Held
<1>6. Tallied
  <2>1. reports = <<>> /\ Len(reports) = 0 /\ DOMAIN reports = {} /\ DOMAIN send_counts = {}
    BY DEF Init
  <2>2. \A a : From(reports, a, 0) = {}
    BY DEF From
  <2> QED BY <2>1, <2>2, FS_EmptySet DEF Tallied
<1>7. InTime
  <2>1. now <= ticked + Lap
    BY LongPollsAssumption DEF Init, Lap
  <2>2. \A t \in Tasks : future[t] # "pending"
    BY DEF Init
  <2>3. Range(channel) = {}
    BY DEF Init, Range
  <2> QED BY <2>1, <2>2, <2>3 DEF InTime
<1> QED BY <1>1, <1>2, <1>4, <1>5, <1>6, <1>7

LEMMA CountIsNat == ASSUME Typed, NEW a PROVE count(a) \in Nat
  BY DEF Typed, count

LEMMA AgeIsNat == ASSUME Typed, Followed, NEW t \in Tasks, status[t] # None
  PROVE /\ traces[t][1] \in Nat /\ traces[t][1] <= now
        /\ Age(t) \in Nat
        /\ \A n \in Nat : now - traces[t][1] >= n * Second => Age(t) >= n
<1>1. traces[t] \in Seq(Nat) /\ traces[t] # <<>> /\ traces[t][1] <= now /\ now \in Nat
  BY DEF Typed, Followed
<1>2. traces[t][1] \in Nat
  BY <1>1
<1>3. now - traces[t][1] \in Nat /\ Second \in Nat \ {0}
  BY <1>1, <1>2, LongPollsAssumption
<1>4. \A d \in Nat : d \div Second \in Nat /\ \A n \in Nat : d >= n * Second => d \div Second >= n
  BY <1>3
<1> QED BY <1>1, <1>2, <1>3, <1>4 DEF Age

LEMMA ReportIsOne == ASSUME Typed, Followed, NEW t \in Tasks, t \in AllPending PROVE Report(t) \in Reports
<1>1. status[t] = "Pending" /\ status[t] # None /\ future[t] \in {"pending", "ready"} /\ address[t] \in Addresses \union {None}
  BY DEF AllPending, Followed, Typed, None
<1> QED BY <1>1, CountIsNat, AgeIsNat DEF Report, Reports

LEMMA TypedStep == ASSUME Typed, Followed, Once, [Next]_vars PROVE Typed'
<1>1. ASSUME NEW t \in Tasks, poll_ready(t) PROVE Typed'
  BY <1>1 DEF poll_ready, Typed, tracker
<1>2. ASSUME NEW t \in Tasks, capture_ready(t) PROVE Typed'
  BY <1>2 DEF capture_ready, Typed, tracker, sentinels
<1>3. ASSUME NEW t \in Tasks, capture_pending(t) PROVE Typed'
  <2>1. future' \in [Tasks -> {"new", "pending", "ready", "dropped"}]
        /\ status' \in [Tasks -> {None, "Pending", "Completed", "Cancelled"}]
    BY <1>3 DEF capture_pending, Typed
  <2>2. traces' \in [Tasks -> Seq(Nat)]
    <3>1. traces \in [Tasks -> Seq(Nat)] /\ now \in Nat
      BY DEF Typed
    <3>2. PICK new \in Seq(Nat) : traces' = [traces EXCEPT ![t] = new]
      <4>1. CASE status[t] = None
        <5>1. traces' = [traces EXCEPT ![t] = <<now>>]
          BY <1>3, <4>1 DEF capture_pending
        <5>2. <<now>> \in Seq(Nat)
          BY <3>1
        <5> QED BY <5>1, <5>2
      <4>2. CASE status[t] # None
        <5>1. traces' = [traces EXCEPT ![t] = IF now - Last(@) >= MinInterval THEN Append(@, now) ELSE @]
          BY <1>3, <4>2 DEF capture_pending
        <5>2. traces[t] \in Seq(Nat) /\ Append(traces[t], now) \in Seq(Nat)
          BY <3>1
        <5>3. traces' = [traces EXCEPT ![t] = IF now - Last(traces[t]) >= MinInterval THEN Append(traces[t], now) ELSE traces[t]]
          BY <5>1
        <5> QED BY <5>2, <5>3
      <4> QED BY <4>1, <4>2
    <3> QED BY <3>1, <3>2
  <2>3. address' \in [Tasks -> Addresses \union {None}]
    <3>1. address \in [Tasks -> Addresses \union {None}]
      BY DEF Typed
    <3>2. CASE status[t] = None
      <4>1. PICK a \in Addresses : address' = [address EXCEPT ![t] = a]
        BY <1>3, <3>2 DEF capture_pending
      <4> QED BY <3>1, <4>1
    <3>3. CASE status[t] # None
      BY <1>3, <3>1, <3>3 DEF capture_pending
    <3> QED BY <3>2, <3>3
  <2>4. channel' \in Seq(Tasks)
    <3>1. channel \in Seq(Tasks)
      BY DEF Typed
    <3>2. channel' = channel \/ channel' = Append(channel, t)
      <4>1. CASE status[t] = None
        BY <1>3, <4>1 DEF capture_pending
      <4>2. CASE status[t] # None
        BY <1>3, <4>2 DEF capture_pending
      <4> QED BY <4>1, <4>2
    <3> QED BY <3>1, <3>2
  <2> QED BY <1>3, <2>1, <2>2, <2>3, <2>4 DEF capture_pending, Typed, tracker
<1>4. ASSUME NEW t \in Tasks, drop(t) PROVE Typed'
  BY <1>4 DEF drop, Typed, tracker
<1>5. CASE tick /\ Disconnected
  <2>1. running' = FALSE /\ buckets' = [b \in DOMAIN buckets |-> <<>>] /\ channel' = <<>> /\ ticked' = now
        /\ UNCHANGED <<current_bucket, send_counts, reports, future, status, traces, address, now>>
    BY <1>5 DEF tick, sentinels
  <2>2. buckets' \in [0 .. Buckets - 1 -> Seq(Tasks)] /\ channel' \in Seq(Tasks)
    BY <2>1 DEF Typed
  <2>3. /\ future' \in [Tasks -> {"new", "pending", "ready", "dropped"}]
        /\ status' \in [Tasks -> {None, "Pending", "Completed", "Cancelled"}]
        /\ traces' \in [Tasks -> Seq(Nat)]
        /\ address' \in [Tasks -> Addresses \union {None}] /\ now' \in Nat /\ ticked' \in Nat /\ ticked' <= now'
    BY <2>1 DEF Typed
  <2>4. /\ current_bucket' \in 0 .. Buckets - 1 /\ running' \in BOOLEAN
        /\ reports' \in Seq(Reports) /\ \A a \in DOMAIN send_counts' : send_counts'[a] \in Nat
    BY <2>1 DEF Typed
  <2> QED BY <2>2, <2>3, <2>4 DEF Typed
<1>6. CASE tick /\ ~Disconnected
  <2>1. /\ current_bucket' = Visited /\ buckets' \in [0 .. Buckets - 1 -> Seq(Tasks)] /\ channel' = <<>> /\ running'
        /\ ticked' = now /\ Due \in Seq(Tasks)
        /\ Range(Due) = {t \in Range(Received[Visited]) : t \in AllPending /\ Old(t)}
        /\ reports' = reports \o [i \in DOMAIN Due |-> Report(Due[i])]
        /\ send_counts' = counted(Due)
    BY <1>6, TickLooks
  <2>2. UNCHANGED <<future, status, traces, address, now>>
    BY <1>6 DEF tick, sentinels
  <2>3. [i \in DOMAIN Due |-> Report(Due[i])] \in Seq(Reports)
    <3>1. \A i \in DOMAIN Due : Due[i] \in Tasks /\ Due[i] \in AllPending
      BY <2>1 DEF Range
    <3>2. \A i \in DOMAIN Due : Report(Due[i]) \in Reports
      BY <3>1, ReportIsOne
    <3>3. Len(Due) \in Nat /\ DOMAIN Due = 1 .. Len(Due)
      BY <2>1
    <3> QED BY <3>2, <3>3
  <2>4. reports' \in Seq(Reports)
    <3> DEFINE batch == [i \in DOMAIN Due |-> Report(Due[i])]
    <3> HIDE DEF batch
    <3>1. reports \in Seq(Reports) /\ batch \in Seq(Reports) /\ reports' = reports \o batch
      BY <2>1, <2>3 DEF Typed, batch
    <3> QED BY <3>1
  <2>5. \A a \in DOMAIN send_counts' : send_counts'[a] \in Nat
    <3>1. \A a : count(a) \in Nat
      BY CountIsNat
    <3> QED BY <2>1, <3>1 DEF counted
  <2>6. running' \in BOOLEAN /\ Visited \in 0 .. Buckets - 1
    BY <2>1, TickPlaces, <1>6 DEF tick, Typed
  <2>7. /\ future' \in [Tasks -> {"new", "pending", "ready", "dropped"}]
        /\ status' \in [Tasks -> {None, "Pending", "Completed", "Cancelled"}]
        /\ traces' \in [Tasks -> Seq(Nat)]
        /\ address' \in [Tasks -> Addresses \union {None}] /\ now' \in Nat /\ ticked' \in Nat /\ ticked' <= now'
    BY <2>1, <2>2 DEF Typed
  <2>8. channel' \in Seq(Tasks) /\ current_bucket' \in 0 .. Buckets - 1
    BY <2>1, <2>6
  <2> QED BY <2>1, <2>4, <2>5, <2>6, <2>7, <2>8 DEF Typed
<1>7. CASE Elapse
  BY <1>7 DEF Elapse, Typed, tracker, sentinels
<1>8. CASE DropHandle
  BY <1>8 DEF DropHandle, Typed, tracker, sentinels
<1>9. CASE UNCHANGED vars
  BY <1>9 DEF vars, Typed, tracker, sentinels
<1> QED BY <1>1, <1>2, <1>3, <1>4, <1>5, <1>6, <1>7, <1>8, <1>9 DEF Next

LEMMA FollowedStep == ASSUME Typed, Followed, [Next]_vars PROVE Followed'
<1>1. ASSUME NEW t \in Tasks, poll_ready(t) PROVE Followed'
  BY <1>1 DEF poll_ready, Typed, Followed, None
<1>2. ASSUME NEW t \in Tasks, capture_ready(t) PROVE Followed'
  BY <1>2 DEF capture_ready, Typed, Followed, sentinels, None
<1>3. ASSUME NEW t \in Tasks, capture_pending(t) PROVE Followed'
  <2>1. /\ \A s \in Tasks \ {t} : future'[s] = future[s] /\ status'[s] = status[s] /\ traces'[s] = traces[s]
        /\ future'[t] = "pending" /\ status'[t] = "Pending" /\ now' = now
    BY <1>3 DEF capture_pending, Typed
  <2>2. traces'[t] # <<>> /\ traces'[t][1] <= now
    <3>1. CASE status[t] = None
      <4>1. traces'[t] = <<now>> /\ now \in Nat
        BY <1>3, <3>1 DEF capture_pending, Typed
      <4> QED BY <4>1
    <3>2. CASE status[t] # None
      <4>1. traces'[t] = IF now - Last(traces[t]) >= MinInterval THEN Append(traces[t], now) ELSE traces[t]
        BY <1>3, <3>2 DEF capture_pending, Typed
      <4>2. traces[t] \in Seq(Nat) /\ traces[t] # <<>> /\ traces[t][1] <= now /\ now \in Nat
        BY <3>2 DEF Typed, Followed
      <4>3. Append(traces[t], now) # <<>> /\ Append(traces[t], now)[1] = traces[t][1]
        BY <4>2
      <4> QED BY <4>1, <4>2, <4>3
    <3> QED BY <3>1, <3>2
  <2> QED BY <2>1, <2>2 DEF Followed, None
<1>4. ASSUME NEW t \in Tasks, drop(t) PROVE Followed'
  BY <1>4 DEF drop, Typed, Followed, None
<1>5. CASE tick \/ DropHandle \/ UNCHANGED vars
  <2>1. UNCHANGED <<future, status, traces, now>>
    BY <1>5 DEF tick, DropHandle, vars, sentinels
  <2> QED BY <2>1 DEF Followed
<1>6. CASE Elapse
  <2>1. UNCHANGED <<future, status, traces>> /\ now' = now + 1
    BY <1>6 DEF Elapse, sentinels
  <2>2. \A t \in Tasks : traces[t] # <<>> => traces[t][1] \in Nat
    BY DEF Typed
  <2> QED BY <2>1, <2>2 DEF Followed, Typed
<1> QED BY <1>1, <1>2, <1>3, <1>4, <1>5, <1>6 DEF Next

-----------------------------------------------------------------------------
(* A sentinel is in one place, and at an address of its own *)

\* The future is captured for the first time: its sentinel is made and sent.
LEMMA NewSentinel == ASSUME Typed, NEW t \in Tasks, capture_pending(t), status[t] = None
  PROVE /\ status' = [status EXCEPT ![t] = "Pending"]
        /\ \E a \in Addresses : (\A s \in Tasks : Held(s) => address[s] # a) /\ address' = [address EXCEPT ![t] = a]
        /\ channel' = IF running THEN Append(channel, t) ELSE channel
        /\ UNCHANGED <<buckets, current_bucket, send_counts, reports, ticked, running, now>>
<1>1. PICK a \in Addresses \ {address[s] : s \in {u \in Tasks : Held(u)}} : address' = [address EXCEPT ![t] = a]
  BY DEF capture_pending
<1>2. \A s \in Tasks : Held(s) => address[s] # a
  BY <1>1
<1>3. /\ status' = [status EXCEPT ![t] = "Pending"]
      /\ channel' = IF running THEN Append(channel, t) ELSE channel
      /\ UNCHANGED <<buckets, current_bucket, send_counts, reports, ticked, running, now>>
  BY DEF capture_pending, tracker
<1> QED BY <1>1, <1>2, <1>3

\* What any other step but a tick does to the sentinels.
LEMMA NoNewSentinel == ASSUME Typed, [Next]_vars, ~tick, \A t \in Tasks : status[t] = None => ~capture_pending(t)
  PROVE /\ \A t \in Tasks : status'[t] = None <=> status[t] = None
        /\ UNCHANGED <<address, channel, buckets, current_bucket, send_counts, reports, ticked, running>>
        /\ \A t \in Tasks : future[t] = "dropped" => future'[t] = "dropped"
<1>1. ASSUME NEW t \in Tasks, poll_ready(t) \/ capture_ready(t) \/ drop(t)
      PROVE /\ \A s \in Tasks : status'[s] = None <=> status[s] = None
            /\ UNCHANGED <<address, channel, buckets, current_bucket, send_counts, reports, ticked, running>>
            /\ \A s \in Tasks : future[s] = "dropped" => future'[s] = "dropped"
  BY <1>1 DEF poll_ready, capture_ready, drop, Typed, None, tracker, sentinels
<1>2. ASSUME NEW t \in Tasks, capture_pending(t)
      PROVE /\ \A s \in Tasks : status'[s] = None <=> status[s] = None
            /\ UNCHANGED <<address, channel, buckets, current_bucket, send_counts, reports, ticked, running>>
            /\ \A s \in Tasks : future[s] = "dropped" => future'[s] = "dropped"
  <2>1. status[t] # None
    BY <1>2
  <2>2. UNCHANGED <<address, channel, buckets, current_bucket, send_counts, reports, ticked, running>>
    BY <1>2, <2>1 DEF capture_pending, tracker
  <2>3. status' = [status EXCEPT ![t] = "Pending"] /\ future' = [future EXCEPT ![t] = "pending"] /\ future[t] # "dropped"
    BY <1>2 DEF capture_pending
  <2> QED BY <2>1, <2>2, <2>3 DEF Typed, None
<1>3. CASE Elapse \/ DropHandle \/ UNCHANGED vars
  BY <1>3 DEF Elapse, DropHandle, vars, tracker, sentinels
<1> QED BY <1>1, <1>2, <1>3 DEF Next

LEMMA OnceStep == ASSUME Typed, Once, [Next]_vars PROVE Once'
<1>1. ASSUME NEW t \in Tasks, status[t] = None, capture_pending(t) PROVE Once'
  <2>1. /\ status' = [status EXCEPT ![t] = "Pending"] /\ buckets' = buckets
        /\ channel' = IF running THEN Append(channel, t) ELSE channel
    BY <1>1, NewSentinel
  <2>2. t \notin Range(channel) /\ \A b \in DOMAIN buckets : t \notin Range(buckets[b])
    BY <1>1 DEF Once
  <2>3. channel \in Seq(Tasks) /\ \A s \in Tasks : status'[s] # None <=> s = t \/ status[s] # None
    BY <2>1 DEF Typed, None
  <2>4. Distinct(channel') /\ Range(channel') \subseteq Range(channel) \union {t}
    <3>1. CASE running
      BY <2>1, <2>2, <2>3, <3>1, RangeOfAppend DEF Once
    <3>2. CASE ~running
      BY <2>1, <3>2 DEF Once
    <3> QED BY <3>1, <3>2
  <2>5. Range(channel) \subseteq Tasks /\ \A b \in DOMAIN buckets : Range(buckets[b]) \subseteq Tasks
    BY RangeOf DEF Typed
  <2> QED BY <2>1, <2>2, <2>3, <2>4, <2>5 DEF Once
<1>2. CASE tick /\ Disconnected
  <2>1. channel' = <<>> /\ DOMAIN buckets' = DOMAIN buckets /\ \A b \in DOMAIN buckets' : buckets'[b] = <<>>
    BY <1>2 DEF tick
  <2>2. Range(channel') = {} /\ DOMAIN channel' = {} /\ \A b \in DOMAIN buckets' : Range(buckets'[b]) = {} /\ DOMAIN buckets'[b] = {}
    BY <2>1 DEF Range
  <2> QED BY <2>1, <2>2 DEF Once, Distinct
<1>3. CASE tick /\ ~Disconnected
  <2>1. /\ buckets' \in [0 .. Buckets - 1 -> Seq(Tasks)] /\ channel' = <<>>
        /\ \A b \in 0 .. Buckets - 1 : Range(buckets'[b]) \subseteq Range(Received[b]) /\ Distinct(buckets'[b])
    BY <1>3, TickLooks
  <2>2. \A b \in 0 .. Buckets - 1 :
           Range(Received[b]) = Range(buckets[b]) \union (IF b = Target THEN Range(channel) ELSE {})
    BY ReceivedHolds
  <2>3. DOMAIN buckets = 0 .. Buckets - 1 /\ DOMAIN buckets' = 0 .. Buckets - 1 /\ status' = status
    BY <1>3, <2>1 DEF Typed, tick, sentinels
  <2>4. Range(channel') = {} /\ DOMAIN channel' = {}
    BY <2>1 DEF Range
  <2>5. ASSUME NEW b \in 0 .. Buckets - 1, NEW t \in Range(buckets'[b])
        PROVE status'[t] # None /\ \A c \in (0 .. Buckets - 1) \ {b} : t \notin Range(buckets'[c])
    <3>1. t \in Range(buckets[b]) \/ (b = Target /\ t \in Range(channel))
      BY <2>1, <2>2, <2>5
    <3>2. status'[t] # None
      BY <2>3, <3>1 DEF Once
    <3>3. ASSUME NEW c \in (0 .. Buckets - 1) \ {b}, t \in Range(buckets'[c]) PROVE FALSE
      <4>1. t \in Range(buckets[c]) \/ (c = Target /\ t \in Range(channel))
        BY <2>1, <2>2, <3>3
      <4> QED BY <2>3, <3>1, <3>3, <4>1 DEF Once
    <3> QED BY <3>2, <3>3
  <2> QED BY <2>1, <2>3, <2>4, <2>5 DEF Once, Distinct
<1>4. CASE ~tick /\ \A t \in Tasks : status[t] = None => ~capture_pending(t)
  <2>1. channel' = channel /\ buckets' = buckets /\ \A t \in Tasks : status'[t] = None <=> status[t] = None
    BY <1>4, NoNewSentinel
  <2>2. Range(channel) \subseteq Tasks /\ \A b \in DOMAIN buckets : Range(buckets[b]) \subseteq Tasks
    BY RangeOf DEF Typed
  <2> QED BY <2>1, <2>2 DEF Once
<1> QED BY <1>1, <1>2, <1>3, <1>4

LEMMA OwnAddressStep == ASSUME Typed, Once, OwnAddress, [Next]_vars PROVE OwnAddress'
<1>1. ASSUME NEW t \in Tasks, status[t] = None, capture_pending(t) PROVE OwnAddress'
  <2>1. PICK a \in Addresses : (\A s \in Tasks : Held(s) => address[s] # a) /\ address' = [address EXCEPT ![t] = a]
    BY <1>1, NewSentinel
  <2>2. /\ status' = [status EXCEPT ![t] = "Pending"] /\ buckets' = buckets
        /\ channel' = IF running THEN Append(channel, t) ELSE channel
    BY <1>1, NewSentinel
  <2>3. future' = [future EXCEPT ![t] = "pending"]
    BY <1>1 DEF capture_pending
  <2>4. Range(channel') \subseteq Range(channel) \union {t}
    <3>1. channel \in Seq(Tasks)
      BY DEF Typed
    <3> QED BY <2>2, <3>1, RangeOfAppend
  <2>5. \A s \in Tasks : s # t /\ Held(s)' => Held(s)
    BY <2>2, <2>3, <2>4 DEF Held, Typed
  <2>6. \A s \in Tasks : address'[s] = IF s = t THEN a ELSE address[s]
    BY <2>1 DEF Typed
  <2> QED BY <2>1, <2>5, <2>6 DEF OwnAddress
<1>2. CASE tick
  <2>1. status' = status /\ address' = address /\ future' = future /\ channel' = <<>>
    BY <1>2 DEF tick, sentinels
  <2>2. \A t \in Tasks : (\E b \in DOMAIN buckets' : t \in Range(buckets'[b]))
                         => t \in Range(channel) \/ \E b \in DOMAIN buckets : t \in Range(buckets[b])
    <3>1. CASE Disconnected
      <4>1. \A b \in DOMAIN buckets' : buckets'[b] = <<>>
        BY <1>2, <3>1 DEF tick
      <4>2. \A b \in DOMAIN buckets' : Range(buckets'[b]) = {}
        BY <4>1 DEF Range
      <4> QED BY <4>2
    <3>2. CASE ~Disconnected
      <4>1. /\ buckets' \in [0 .. Buckets - 1 -> Seq(Tasks)]
            /\ \A b \in 0 .. Buckets - 1 : Range(buckets'[b]) \subseteq Range(Received[b])
        BY <1>2, <3>2, TickLooks
      <4>2. \A b \in 0 .. Buckets - 1 :
               Range(Received[b]) = Range(buckets[b]) \union (IF b = Target THEN Range(channel) ELSE {})
        BY ReceivedHolds
      <4>3. DOMAIN buckets = 0 .. Buckets - 1 /\ DOMAIN buckets' = 0 .. Buckets - 1
        BY <4>1 DEF Typed
      <4> QED BY <4>1, <4>2, <4>3
    <3> QED BY <3>1, <3>2
  <2>3. Range(channel') = {}
    BY <2>1 DEF Range
  <2>4. \A t \in Tasks : Held(t)' => Held(t)
    BY <2>1, <2>2, <2>3 DEF Held
  <2> QED BY <2>1, <2>4 DEF OwnAddress
<1>3. CASE ~tick /\ \A t \in Tasks : status[t] = None => ~capture_pending(t)
  <2>1. /\ channel' = channel /\ buckets' = buckets /\ address' = address
        /\ \A t \in Tasks : status'[t] = None <=> status[t] = None
        /\ \A t \in Tasks : future[t] = "dropped" => future'[t] = "dropped"
    BY <1>3, NoNewSentinel
  <2>2. \A t \in Tasks : Held(t)' => Held(t)
    BY <2>1 DEF Held
  <2> QED BY <2>1, <2>2 DEF OwnAddress
<1> QED BY <1>1, <1>2, <1>3

-----------------------------------------------------------------------------
(* The counts *)

LEMMA FromIsFinite == ASSUME NEW sent, NEW a, NEW n \in Nat
  PROVE IsFiniteSet(From(sent, a, n)) /\ Cardinality(From(sent, a, n)) \in Nat
<1>1. IsFiniteSet(1 .. n) /\ From(sent, a, n) \subseteq 1 .. n
  BY FS_Interval DEF From
<1> QED BY <1>1, FS_Subset, FS_CardinalityType

\* The looks of a tick are at sentinels of different addresses.
LEMMA DueApart == ASSUME Typed, Once, OwnAddress, tick, ~Disconnected
  PROVE \A i, j \in DOMAIN Due : address[Due[i]] = address[Due[j]] => i = j
<1>1. /\ Due \in Seq(Tasks) /\ Distinct(Due)
      /\ Range(Due) = {t \in Range(Received[Visited]) : t \in AllPending /\ Old(t)}
  BY TickLooks
<1>2. Visited \in 0 .. Buckets - 1 /\ DOMAIN buckets = 0 .. Buckets - 1
  BY TickPlaces DEF Typed
<1>3. Range(Received[Visited]) = Range(buckets[Visited]) \union (IF Visited = Target THEN Range(channel) ELSE {})
  BY <1>2, ReceivedHolds
<1>4. \A t \in Range(Due) : t \in Tasks /\ status[t] # None /\ (t \in Range(buckets[Visited]) \/ t \in Range(channel))
  BY <1>1, <1>3 DEF AllPending, None
<1>5. \A t \in Range(Due) : Held(t)
  BY <1>2, <1>4 DEF Held
<1>6. \A i \in DOMAIN Due : Due[i] \in Range(Due)
  BY DEF Range
<1> TAKE i, j \in DOMAIN Due
<1> SUFFICES ASSUME address[Due[i]] = address[Due[j]] PROVE i = j
  OBVIOUS
<1>7. Due[i] = Due[j]
  BY <1>4, <1>5, <1>6 DEF OwnAddress
<1> QED BY <1>1, <1>7 DEF Distinct

\* How the reports of an address grow.
Grown(both, sent, more, a) ==
    /\ \A n \in 0 .. Len(sent) : From(both, a, n) = From(sent, a, n)
    /\ \A k \in 0 .. Len(more) : (\A i \in 1 .. k : more[i].address # a)
           => From(both, a, Len(sent) + k) = From(sent, a, Len(sent))
    /\ \A k \in 1 .. Len(more) :
          more[k].address = a /\ (\A i \in 1 .. Len(more) : i # k => more[i].address # a)
           => From(both, a, Len(sent) + Len(more)) = From(sent, a, Len(sent)) \union {Len(sent) + k}

LEMMA FromGrows == ASSUME NEW S, NEW sent \in Seq(S), NEW more \in Seq(S) PROVE \A a : Grown(sent \o more, sent, more, a)
<1> TAKE a
<1> DEFINE both == sent \o more
<1>1. /\ \A i \in 1 .. Len(sent) : both[i] = sent[i]
      /\ \A i \in 1 .. Len(more) : both[Len(sent) + i] = more[i]
      /\ Len(sent) \in Nat /\ Len(more) \in Nat
  OBVIOUS
<1> HIDE DEF both
<1>2. \A i \in Len(sent) + 1 .. Len(sent) + Len(more) : both[i] = more[i - Len(sent)] /\ i - Len(sent) \in 1 .. Len(more)
  <2> TAKE i \in Len(sent) + 1 .. Len(sent) + Len(more)
  <2>1. i - Len(sent) \in 1 .. Len(more) /\ Len(sent) + (i - Len(sent)) = i
    BY <1>1
  <2>2. both[Len(sent) + (i - Len(sent))] = more[i - Len(sent)]
    BY <1>1, <2>1
  <2> QED BY <2>1, <2>2
<1>3. \A n \in 0 .. Len(sent) : From(both, a, n) = From(sent, a, n)
  BY <1>1 DEF From
<1>4. ASSUME NEW k \in 0 .. Len(more), \A i \in 1 .. k : more[i].address # a
      PROVE From(both, a, Len(sent) + k) = From(sent, a, Len(sent))
  <2>1. \A i \in 1 .. Len(sent) + k : both[i].address = a <=> i \in 1 .. Len(sent) /\ sent[i].address = a
    <3> TAKE i \in 1 .. Len(sent) + k
    <3>1. CASE i <= Len(sent)
      BY <1>1, <3>1
    <3>2. CASE i > Len(sent)
      <4>1. both[i] = more[i - Len(sent)] /\ i - Len(sent) \in 1 .. k
        BY <1>1, <1>2, <3>2
      <4> QED BY <1>4, <3>2, <4>1
    <3> QED BY <1>1, <3>1, <3>2
  <2> QED BY <1>1, <2>1 DEF From
<1>5. ASSUME NEW k \in 1 .. Len(more), more[k].address = a, \A i \in 1 .. Len(more) : i # k => more[i].address # a
      PROVE From(both, a, Len(sent) + Len(more)) = From(sent, a, Len(sent)) \union {Len(sent) + k}
  <2>1. \A i \in 1 .. Len(sent) + Len(more) :
           both[i].address = a <=> (i \in 1 .. Len(sent) /\ sent[i].address = a) \/ i = Len(sent) + k
    <3> TAKE i \in 1 .. Len(sent) + Len(more)
    <3>1. CASE i <= Len(sent)
      BY <1>1, <3>1
    <3>2. CASE i > Len(sent)
      <4>1. both[i] = more[i - Len(sent)] /\ i - Len(sent) \in 1 .. Len(more)
        BY <1>1, <1>2, <3>2
      <4>2. i = Len(sent) + k <=> i - Len(sent) = k
        BY <1>1
      <4> QED BY <1>5, <3>2, <4>1, <4>2
    <3> QED BY <1>1, <3>1, <3>2
  <2>2. Len(sent) + k \in 1 .. Len(sent) + Len(more)
    BY <1>1
  <2> QED BY <1>1, <2>1, <2>2 DEF From
<1> QED BY <1>3, <1>4, <1>5 DEF both, Grown

LEMMA TalliedTick == ASSUME Typed, Followed, Once, OwnAddress, Tallied, tick, ~Disconnected PROVE Tallied'
<1> DEFINE batch == [i \in DOMAIN Due |-> Report(Due[i])]
<1>1. /\ Due \in Seq(Tasks) /\ reports' = reports \o batch /\ send_counts' = counted(Due)
      /\ Range(Due) = {t \in Range(Received[Visited]) : t \in AllPending /\ Old(t)}
  BY TickLooks
<1>2. \A i \in DOMAIN Due : Due[i] \in Tasks /\ Due[i] \in AllPending /\ Old(Due[i]) /\ Due[i] \in Range(Due)
  BY <1>1 DEF Range
<1>3. DOMAIN Due = 1 .. Len(Due) /\ Len(Due) \in Nat
  BY <1>1
<1>4. batch \in Seq(Reports) /\ Len(batch) = Len(Due) /\ \A i \in 1 .. Len(Due) : batch[i] = Report(Due[i])
  <2>1. \A i \in DOMAIN Due : Report(Due[i]) \in Reports
    BY <1>2, ReportIsOne
  <2> QED BY <1>3, <2>1
<1> HIDE DEF batch
<1>5. reports \in Seq(Reports) /\ Len(reports) \in Nat /\ reports' = reports \o batch
  BY <1>1 DEF Typed
<1>6. Len(reports') = Len(reports) + Len(Due) /\ DOMAIN reports' = 1 .. Len(reports) + Len(Due)
      /\ (\A i \in 1 .. Len(reports) : reports'[i] = reports[i])
      /\ \A i \in 1 .. Len(Due) : reports'[Len(reports) + i] = batch[i]
  BY <1>4, <1>5
<1>7. \A i, j \in 1 .. Len(Due) : address[Due[i]] = address[Due[j]] => i = j
  BY <1>3, DueApart
<1>8. \A i \in 1 .. Len(Due) : /\ batch[i].address = address[Due[i]] /\ batch[i].send_count = count(address[Due[i]])
                               /\ batch[i].age = Age(Due[i])
  <2> TAKE i \in 1 .. Len(Due)
  <2>1. batch[i] = Report(Due[i])
    BY <1>4
  <2> QED BY <2>1 DEF Report
<1>9. \A a : Grown(reports', reports, batch, a)
  BY <1>4, <1>5, FromGrows
<1>10. ASSUME NEW a \in Addresses \union {None}
      PROVE count(a)' = Cardinality(From(reports', a, Len(reports')))
  <2>1. count(a) = Cardinality(From(reports, a, Len(reports)))
    BY DEF Tallied, count
  <2>2. CASE \A i \in 1 .. Len(Due) : address[Due[i]] # a
    <3>1. From(reports', a, Len(reports')) = From(reports, a, Len(reports))
      <4>1. \A i \in 1 .. Len(batch) : batch[i].address # a
        BY <1>4, <1>8, <2>2
      <4>2. Len(batch) \in 0 .. Len(batch)
        BY <1>3, <1>4
      <4> QED BY <1>4, <1>6, <1>9, <4>1, <4>2 DEF Grown
    <3>2. a \notin {address[t] : t \in Range(Due)}
      BY <1>3, <2>2 DEF Range
    <3>3. count(a)' = count(a)
      BY <1>1, <3>2 DEF count, counted
    <3> QED BY <2>1, <3>1, <3>3
  <2>3. ASSUME NEW k \in 1 .. Len(Due), address[Due[k]] = a
        PROVE count(a)' = Cardinality(From(reports', a, Len(reports')))
    <3>1. From(reports', a, Len(reports')) = From(reports, a, Len(reports)) \union {Len(reports) + k}
      <4>1. k \in 1 .. Len(batch) /\ batch[k].address = a /\ \A i \in 1 .. Len(batch) : i # k => batch[i].address # a
        BY <1>4, <1>7, <1>8, <2>3
      <4> QED BY <1>4, <1>6, <1>9, <4>1 DEF Grown
    <3>2. Len(reports) + k \notin From(reports, a, Len(reports))
      BY <1>5 DEF From
    <3>3. IsFiniteSet(From(reports, a, Len(reports))) /\ Cardinality(From(reports, a, Len(reports))) \in Nat
      BY <1>5, FromIsFinite
    <3>4. Cardinality(From(reports', a, Len(reports'))) = Cardinality(From(reports, a, Len(reports))) + 1
      BY <3>1, <3>2, <3>3, FS_AddElement
    <3>5. a \in {address[t] : t \in Range(Due)}
      BY <1>2, <1>3, <2>3
    <3>6. count(a)' = count(a) + 1
      BY <1>1, <3>5 DEF count, counted
    <3> QED BY <2>1, <3>4, <3>6
  <2> QED BY <2>2, <2>3
<1>11. ASSUME NEW i \in DOMAIN reports'
       PROVE /\ reports'[i].age >= MinAge
             /\ reports'[i].send_count = Cardinality(From(reports', reports'[i].address, i - 1))
  <2>1. CASE i <= Len(reports)
    <3>1. i \in 1 .. Len(reports) /\ i \in DOMAIN reports /\ reports'[i] = reports[i]
      BY <1>5, <1>6, <2>1
    <3>2. i - 1 \in 0 .. Len(reports)
      BY <1>5, <3>1
    <3>3. From(reports', reports[i].address, i - 1) = From(reports, reports[i].address, i - 1)
      BY <1>9, <3>2 DEF Grown
    <3> QED BY <3>1, <3>3 DEF Tallied
  <2>2. CASE i > Len(reports)
    <3> DEFINE k == i - Len(reports)
    <3>1. k \in 1 .. Len(Due) /\ i = Len(reports) + k
      BY <1>5, <1>6, <2>2
    <3> HIDE DEF k
    <3>2. reports'[i] = batch[k]
      BY <1>6, <3>1
    <3>3. batch[k].age >= MinAge
      BY <1>2, <1>3, <1>8, <3>1 DEF Old
    <3> DEFINE a == address[Due[k]]
    <3>4. batch[k].address = a /\ batch[k].send_count = count(a) /\ a \in Addresses \union {None}
      BY <1>2, <1>3, <1>8, <3>1 DEF Typed
    <3> HIDE DEF a
    <3>5. \A n \in 1 .. k - 1 : batch[n].address # a
      <4> TAKE n \in 1 .. k - 1
      <4>1. n \in 1 .. Len(Due) /\ n # k
        BY <1>3, <3>1
      <4> QED BY <1>7, <1>8, <3>1, <4>1 DEF a
    <3>6. k - 1 \in 0 .. Len(batch) /\ i - 1 = Len(reports) + (k - 1)
      BY <1>3, <1>4, <1>5, <3>1
    <3>7. From(reports', a, i - 1) = From(reports, a, Len(reports))
      BY <1>4, <1>9, <3>5, <3>6 DEF Grown
    <3>8. count(a) = Cardinality(From(reports, a, Len(reports)))
      BY <3>4 DEF Tallied, count
    <3> QED BY <3>2, <3>3, <3>4, <3>7, <3>8
  <2> QED BY <1>5, <1>6, <2>1, <2>2
<1> QED BY <1>10, <1>11 DEF Tallied, count

LEMMA TalliedStep == ASSUME Typed, Followed, Once, OwnAddress, Tallied, [Next]_vars PROVE Tallied'
<1>1. CASE tick /\ ~Disconnected
  BY <1>1, TalliedTick
<1>2. CASE ~ (tick /\ ~Disconnected)
  <2>1. send_counts' = send_counts /\ reports' = reports
    <3>1. CASE tick
      BY <1>2, <3>1 DEF tick
    <3>2. CASE ~tick /\ \A t \in Tasks : status[t] = None => ~capture_pending(t)
      BY <3>2, NoNewSentinel
    <3>3. ASSUME NEW t \in Tasks, status[t] = None, capture_pending(t) PROVE send_counts' = send_counts /\ reports' = reports
      BY <3>3, NewSentinel
    <3> QED BY <3>1, <3>2, <3>3
  <2> QED BY <2>1 DEF Tallied, From
<1> QED BY <1>1, <1>2

-----------------------------------------------------------------------------
(* Time *)

LEMMA Constants ==
  /\ Second \in Nat \ {0} /\ Lap \in Nat /\ Second <= Lap /\ Ahead \in 1 .. Buckets /\ Buckets \in Nat \ {0}
  /\ Ahead \in Nat \ {0} /\ MinAge \in Nat /\ MinAge <= Ahead + Buckets - 1
  BY LongPollsAssumption DEF Lap

LEMMA Products == ASSUME NEW x \in Nat, NEW y \in Nat, NEW z \in Nat
  PROVE /\ (x + y) * z = x * z + y * z /\ x * z \in Nat
        /\ x >= 1 => (x - 1) * z = x * z - z
        /\ x <= y => x * z <= y * z
<1>1. (x + y) * z = x * z + y * z /\ x * z \in Nat
  OBVIOUS
<1>2. x >= 1 => (x - 1) * z = x * z - z
  OBVIOUS
<1>3. ASSUME x <= y PROVE x * z <= y * z
  <2>1. PICK d \in Nat : y = x + d
    BY <1>3, y - x \in Nat, y = x + (y - x)
  <2>2. (x + d) * z = x * z + d * z /\ d * z \in Nat /\ x * z \in Nat
    OBVIOUS
  <2> QED BY <2>1, <2>2
<1> QED BY <1>1, <1>2, <1>3

\* A tick comes: what was to be looked at in d ticks is in d - 1.
LEMMA Nearer == ASSUME NEW last \in Nat, NEW next \in Nat, NEW start \in Nat, NEW d \in Nat \ {0},
                       last + Second <= next, next <= last + Lap
  PROVE /\ FirstTime(last, start, d) => FirstTime(next, start, d - 1)
        /\ SecondTime(last, start, d) => SecondTime(next, start, d - 1)
<1>1. (d - 1) * Lap = d * Lap - Lap /\ (d - 1) * Second = d * Second - Second /\ d * Lap \in Nat /\ d * Second \in Nat
  BY Constants, Products
<1> DEFINE p == (d - 1) * Lap
           q == (d - 1) * Second
           u == d * Lap
           v == d * Second
<1>2. p = u - Lap /\ q = v - Second /\ u \in Nat /\ v \in Nat
  BY <1>1
<1>3. Lap \in Nat /\ Second \in Nat
  BY Constants
<1> HIDE DEF p, q, u, v
<1>4. ASSUME NEW upper \in Nat, NEW lower \in Int, last + u <= upper, last + v >= lower
      PROVE next + p <= upper /\ next + q >= lower
  BY <1>2, <1>3, <1>4
<1>5. /\ start + Ahead * Lap \in Nat /\ start + (Ahead - 1) * Second \in Nat
      /\ start + (Ahead + Buckets) * Lap \in Nat /\ start + (Ahead + Buckets - 1) * Second \in Nat
  <2>1. Ahead - 1 \in Nat /\ Ahead + Buckets - 1 \in Nat /\ Ahead + Buckets \in Nat /\ Ahead \in Nat
    BY Constants
  <2>2. /\ Ahead * Lap \in Nat /\ (Ahead - 1) * Second \in Nat
        /\ (Ahead + Buckets) * Lap \in Nat /\ (Ahead + Buckets - 1) * Second \in Nat
    BY <2>1, Constants, Products
  <2> QED BY <2>2
<1> QED BY <1>4, <1>5 DEF FirstTime, SecondTime, p, q, u, v

\* What was sent since the last tick is put so many buckets ahead.
LEMMA JustSent == ASSUME NEW last \in Nat, NEW next \in Nat, NEW start \in Nat,
                         last <= start, start <= next, next <= last + Lap
  PROVE FirstTime(next, start, Ahead - 1)
<1>1. (Ahead - 1) * Lap = Ahead * Lap - Lap /\ Ahead * Lap \in Nat /\ (Ahead - 1) * Second \in Nat /\ Lap \in Nat
  <2>1. Ahead \in Nat /\ Ahead >= 1 /\ Ahead - 1 \in Nat /\ Lap \in Nat /\ Second \in Nat
    BY Constants
  <2> QED BY <2>1, Products
<1> QED BY <1>1 DEF FirstTime

\* A sentinel that was looked at for the first time is looked at again after a lap.
LEMMA AgainAfterLap == ASSUME NEW last \in Nat, NEW start \in Nat, FirstTime(last, start, 0)
  PROVE SecondTime(last, start, Buckets)
<1>1. Ahead \in Nat \ {0} /\ Buckets \in Nat \ {0} /\ Lap \in Nat /\ Second \in Nat /\ Ahead - 1 \in Nat
  BY Constants
<1>2. /\ (Ahead + Buckets) * Lap = Ahead * Lap + Buckets * Lap
      /\ ((Ahead - 1) + Buckets) * Second = (Ahead - 1) * Second + Buckets * Second
      /\ Ahead + Buckets - 1 = (Ahead - 1) + Buckets
      /\ Ahead * Lap \in Nat /\ Buckets * Lap \in Nat /\ (Ahead - 1) * Second \in Nat /\ Buckets * Second \in Nat
  BY <1>1, Products
<1>3. last <= start + Ahead * Lap /\ last >= start + (Ahead - 1) * Second
  <2>1. 0 * Lap = 0 /\ 0 * Second = 0
    BY <1>1
  <2> QED BY <2>1 DEF FirstTime
<1> QED BY <1>2, <1>3 DEF SecondTime

\* The second time it is old enough.
LEMMA OldThen == ASSUME Typed, Followed, NEW t \in Tasks, status[t] # None, SecondTime(now, traces[t][1], 0)
  PROVE Old(t)
<1>1. traces[t][1] \in Nat /\ now \in Nat /\ \A n \in Nat : now - traces[t][1] >= n * Second => Age(t) >= n
  BY AgeIsNat DEF Typed
<1>2. MinAge * Second <= (Ahead + Buckets - 1) * Second /\ MinAge * Second \in Nat /\ (Ahead + Buckets - 1) * Second \in Nat
  <2>1. MinAge \in Nat /\ Ahead + Buckets - 1 \in Nat /\ MinAge <= Ahead + Buckets - 1 /\ Second \in Nat
    BY Constants
  <2> QED BY <2>1, Products
<1>3. now >= traces[t][1] + (Ahead + Buckets - 1) * Second
  <2>1. 0 * Second = 0
    BY Constants
  <2> QED BY <1>1, <2>1 DEF SecondTime
<1>4. now - traces[t][1] >= MinAge * Second
  BY <1>1, <1>2, <1>3
<1> QED BY <1>1, <1>4, Constants DEF Old

LEMMA Distances == ASSUME Typed, NEW b \in 0 .. Buckets - 1, current_bucket' = Visited
  PROVE /\ Distance(b) \in 1 .. Buckets /\ Distance(Target) = Ahead
        /\ b = Visited => Distance(b) = 1
        /\ b # Visited => Distance(b) > 1
        /\ Distance(b)' = IF b = Visited THEN Buckets ELSE Distance(b) - 1
<1>1. current_bucket \in 0 .. Buckets - 1 /\ Buckets \in Nat \ {0} /\ Ahead \in 1 .. Buckets
  BY Constants DEF Typed
<1>2. /\ Target = IF current_bucket + Ahead < Buckets THEN current_bucket + Ahead ELSE current_bucket + Ahead - Buckets
      /\ Visited = IF current_bucket + 1 < Buckets THEN current_bucket + 1 ELSE 0
  BY TickPlaces
<1>3. Distance(b)' = IF b > Visited THEN b - Visited ELSE b - Visited + Buckets
  BY DEF Distance
<1>4. Distance(b) \in 1 .. Buckets
  BY <1>1 DEF Distance
<1>5. Distance(Target) = Ahead
  BY <1>1, <1>2 DEF Distance
<1>6. (b = Visited => Distance(b) = 1) /\ (b # Visited => Distance(b) > 1)
  BY <1>1, <1>2 DEF Distance
<1>7. Distance(b)' = IF b = Visited THEN Buckets ELSE Distance(b) - 1
  BY <1>1, <1>2, <1>3 DEF Distance
<1> QED BY <1>4, <1>5, <1>6, <1>7

\* What becomes of a pending sentinel in a bucket that is so far away.
LEMMA LookedAt == ASSUME Typed, Followed, Once, tick, ~Disconnected, NEW t \in Tasks, t \in AllPending,
                         NEW b \in 0 .. Buckets - 1, t \in Range(Received[b]),
                         OnTime(now, traces[t][1], Distance(b) - 1)
  PROVE Reported(t)' \/ \E c \in 0 .. Buckets - 1 : t \in Range(buckets'[c]) /\ Scheduled(t, c)'
<1> SUFFICES Reported(t)' \/ (t \in Range(buckets'[b]) /\ Scheduled(t, b)')
  OBVIOUS
<1>1. /\ current_bucket' = Visited /\ ticked' = now /\ traces' = traces
      /\ Range(buckets'[b]) = IF b = Visited THEN Range(Received[b]) \intersect AllPending ELSE Range(Received[b])
      /\ Due \in Seq(Tasks) /\ Range(Due) = {s \in Range(Received[Visited]) : s \in AllPending /\ Old(s)}
      /\ reports' = reports \o [i \in DOMAIN Due |-> Report(Due[i])]
  BY TickLooks DEF tick, sentinels
<1>2. t \in Range(buckets'[b])
  BY <1>1
<1>3. status[t] # None /\ traces[t][1] \in Nat /\ now \in Nat
  BY AgeIsNat DEF AllPending, None, Typed
<1>4. Distance(b)' = IF b = Visited THEN Buckets ELSE Distance(b) - 1
  BY <1>1, Distances
<1>5. Scheduled(t, b)' <=> OnTime(now, traces[t][1], Distance(b)')
  BY <1>1 DEF Scheduled, OnTime, FirstTime, SecondTime, Lap
<1>6. CASE b # Visited
  BY <1>2, <1>4, <1>5, <1>6
<1>7. CASE b = Visited
  <2>1. Distance(b) - 1 = 0
    BY <1>1, <1>7, Distances
  <2>2. CASE FirstTime(now, traces[t][1], 0)
    <3>1. SecondTime(now, traces[t][1], Buckets)
      BY <1>3, <2>2, AgainAfterLap
    <3> QED BY <1>2, <1>4, <1>5, <1>7, <3>1 DEF OnTime
  <2>3. CASE SecondTime(now, traces[t][1], 0)
    <3>1. Old(t)
      BY <1>3, <2>3, OldThen
    <3>2. t \in Range(Due)
      BY <1>1, <1>7, <3>1
    <3>3. PICK i \in DOMAIN Due : Due[i] = t
      BY <3>2 DEF Range
    <3> DEFINE batch == [k \in DOMAIN Due |-> Report(Due[k])]
    <3>4. DOMAIN Due = 1 .. Len(Due) /\ Len(Due) \in Nat /\ batch[i].task = t
      BY <1>1, <3>3 DEF Report
    <3>5. batch \in Seq(Reports) /\ Len(batch) = Len(Due)
      <4>1. \A k \in DOMAIN Due : Due[k] \in Tasks /\ Due[k] \in AllPending
        BY <1>1 DEF Range
      <4>2. \A k \in DOMAIN Due : Report(Due[k]) \in Reports
        BY <4>1, ReportIsOne
      <4> QED BY <3>4, <4>2
    <3>6. reports \in Seq(Reports) /\ reports' = reports \o batch
      BY <1>1 DEF Typed
    <3> HIDE DEF batch
    <3>7. Len(reports) + i \in DOMAIN reports' /\ reports'[Len(reports) + i] = batch[i]
      BY <3>3, <3>4, <3>5, <3>6
    <3> QED BY <3>4, <3>7 DEF Reported
  <2> QED BY <2>1, <2>2, <2>3 DEF OnTime
<1> QED BY <1>6, <1>7

LEMMA InTimeTick == ASSUME Typed, Followed, Once, InTime, tick, ~Disconnected PROVE InTime'
<1>1. /\ current_bucket' = Visited /\ buckets' \in [0 .. Buckets - 1 -> Seq(Tasks)]
      /\ channel' = <<>> /\ running /\ now >= ticked + Second /\ ticked' = now
      /\ Due \in Seq(Tasks) /\ reports' = reports \o [i \in DOMAIN Due |-> Report(Due[i])]
  BY TickLooks
<1>2. UNCHANGED <<future, traces, now>> /\ now \in Nat /\ ticked \in Nat /\ ticked <= now
  BY DEF tick, sentinels, Typed
<1>3. now' <= ticked' + Lap
  BY <1>1, <1>2, Constants
<1>4. Range(channel') = {}
  BY <1>1 DEF Range
<1>5. DOMAIN buckets = 0 .. Buckets - 1 /\ DOMAIN buckets' = 0 .. Buckets - 1 /\ Target \in 0 .. Buckets - 1
  BY <1>1, TickPlaces DEF Typed
<1>6. now <= ticked + Lap /\ \A t \in Range(channel) : ticked <= traces[t][1]
  BY <1>1 DEF InTime
<1>7. ASSUME NEW t \in Tasks, future'[t] = "pending"
      PROVE Reported(t)' \/ \E b \in DOMAIN buckets' : t \in Range(buckets'[b]) /\ Scheduled(t, b)'
  <2>1. status[t] = "Pending" /\ t \in AllPending /\ future[t] = "pending"
    BY <1>2, <1>7 DEF Followed, AllPending
  <2>2. traces[t][1] \in Nat /\ traces[t][1] <= now
    BY <2>1, AgeIsNat DEF None
  <2>3. CASE Reported(t)
    <3>1. PICK i \in DOMAIN reports : reports[i].task = t
      BY <2>3 DEF Reported
    <3> DEFINE batch == [k \in DOMAIN Due |-> Report(Due[k])]
    <3>2. batch \in Seq({Report(Due[k]) : k \in DOMAIN Due}) /\ reports \in Seq(Reports) /\ reports' = reports \o batch
      <4>1. DOMAIN Due = 1 .. Len(Due) /\ Len(Due) \in Nat
        BY <1>1
      <4> QED BY <1>1, <4>1 DEF Typed
    <3> HIDE DEF batch
    <3>3. i \in DOMAIN reports' /\ reports'[i] = reports[i]
      BY <3>2
    <3> QED BY <3>1, <3>3 DEF Reported
  <2>4. CASE t \in Range(channel)
    <3>1. FirstTime(now, traces[t][1], Ahead - 1)
      BY <1>2, <1>6, <2>2, <2>4, JustSent
    <3>2. Distance(Target) = Ahead
      BY <1>1, <1>5, Distances
    <3>3. t \in Range(Received[Target])
      BY <1>5, <2>4, ReceivedHolds
    <3>4. OnTime(now, traces[t][1], Distance(Target) - 1)
      BY <3>1, <3>2 DEF OnTime
    <3> QED BY <1>5, <2>1, <3>3, <3>4, LookedAt
  <2>5. ASSUME NEW b \in DOMAIN buckets, t \in Range(buckets[b]), Scheduled(t, b)
        PROVE Reported(t)' \/ \E c \in DOMAIN buckets' : t \in Range(buckets'[c]) /\ Scheduled(t, c)'
    <3>1. t \in Range(Received[b])
      BY <1>5, <2>5, ReceivedHolds
    <3>2. Distance(b) \in 1 .. Buckets
      BY <1>1, <1>5, Distances
    <3>3. Distance(b) \in Nat \ {0}
      BY <3>2
    <3>4. OnTime(now, traces[t][1], Distance(b) - 1)
      BY <1>1, <1>2, <1>6, <2>2, <2>5, <3>3, Nearer DEF Scheduled, OnTime
    <3> QED BY <1>5, <2>1, <3>1, <3>4, LookedAt
  <2>6. Reported(t) \/ t \in Range(channel) \/ \E b \in DOMAIN buckets : t \in Range(buckets[b]) /\ Scheduled(t, b)
    BY <1>1, <2>1 DEF InTime
  <2> QED BY <1>5, <2>3, <2>4, <2>5, <2>6
<1> QED BY <1>3, <1>4, <1>7 DEF InTime, Lap

LEMMA InTimeStep == ASSUME Typed, Followed, Once, InTime, [Next]_vars PROVE InTime'
<1>1. CASE tick /\ ~Disconnected
  BY <1>1, InTimeTick
<1>2. CASE tick /\ Disconnected
  BY <1>2 DEF tick, InTime
<1>3. ASSUME NEW t \in Tasks, status[t] = None, capture_pending(t) PROVE InTime'
  <2>1. UNCHANGED <<buckets, current_bucket, reports, ticked, running, now>> /\ channel' = IF running THEN Append(channel, t) ELSE channel
    BY <1>3, NewSentinel
  <2>2. future' = [future EXCEPT ![t] = "pending"] /\ traces' = [traces EXCEPT ![t] = <<now>>]
    BY <1>3 DEF capture_pending
  <2>3. \A s \in Tasks : IF s = t THEN traces'[s][1] = now ELSE traces'[s] = traces[s] /\ future'[s] = future[s]
    BY <2>2 DEF Typed
  <2>4. channel \in Seq(Tasks) /\ Range(channel) \subseteq Tasks /\ ticked <= now
    BY RangeOf DEF Typed
  <2>5. running => Range(channel') = Range(channel) \union {t}
    BY <2>1, <2>4, RangeOfAppend
  <2>6. \A s \in Tasks, b \in DOMAIN buckets : s # t => (Scheduled(s, b) => Scheduled(s, b)')
    BY <2>1, <2>3 DEF Scheduled, OnTime, FirstTime, SecondTime, Distance, Lap
  <2>7. \A s \in Tasks : Reported(s)' <=> Reported(s)
    BY <2>1 DEF Reported
  <2> SUFFICES ASSUME running' PROVE InTime'
    BY DEF InTime
  <2>8. running /\ now' <= ticked' + Lap /\ \A s \in Range(channel') : ticked' <= traces'[s][1]
    BY <2>1, <2>3, <2>4, <2>5 DEF InTime
  <2>9. ASSUME NEW s \in Tasks, future'[s] = "pending"
        PROVE Reported(s)' \/ s \in Range(channel') \/ \E b \in DOMAIN buckets' : s \in Range(buckets'[b]) /\ Scheduled(s, b)'
    <3>1. CASE s = t
      BY <2>5, <2>8, <3>1
    <3>2. CASE s # t
      <4>1. Reported(s) \/ s \in Range(channel) \/ \E b \in DOMAIN buckets : s \in Range(buckets[b]) /\ Scheduled(s, b)
        BY <2>3, <2>8, <2>9, <3>2 DEF InTime
      <4> QED BY <2>1, <2>5, <2>6, <2>7, <2>8, <3>2, <4>1
    <3> QED BY <3>1, <3>2
  <2> QED BY <2>8, <2>9 DEF InTime, Lap
<1>4. CASE ~tick /\ \A t \in Tasks : status[t] = None => ~capture_pending(t)
  <2>1. UNCHANGED <<channel, buckets, current_bucket, reports, ticked, running>>
    BY <1>4, NoNewSentinel
  <2>2. now' = now \/ (running => now' <= ticked + Lap)
    <3>1. CASE Elapse
      <4>1. now < MaxTime /\ (running => now < ticked + Second + Late) /\ now' = now + 1
        BY <3>1 DEF Elapse
      <4> QED BY <4>1, LongPollsAssumption DEF Typed, Lap
    <3>2. CASE ~Elapse
      BY <1>4, <3>2 DEF Next, poll_ready, capture_ready, capture_pending, drop, DropHandle, vars
    <3> QED BY <3>1, <3>2
  <2>3. ASSUME NEW s \in Tasks PROVE (status[s] # None => traces'[s][1] = traces[s][1]) /\ (future'[s] = "pending" => future[s] = "pending")
    <3>1. ASSUME NEW t \in Tasks, poll_ready(t) \/ capture_ready(t) \/ drop(t)
          PROVE traces' = traces /\ (future'[s] = "pending" => future[s] = "pending")
      BY <3>1 DEF poll_ready, capture_ready, drop, Typed, sentinels
    <3>2. ASSUME NEW t \in Tasks, capture_pending(t)
          PROVE (status[s] # None => traces'[s][1] = traces[s][1]) /\ (future'[s] = "pending" => future[s] = "pending")
      <4>1. status[t] # None /\ future[t] \in {"new", "pending"}
        BY <1>4, <3>2 DEF capture_pending
      <4>2. future[t] = "pending"
        BY <4>1 DEF Followed
      <4>3. /\ future' = [future EXCEPT ![t] = "pending"]
            /\ traces' = [traces EXCEPT ![t] = IF now - Last(@) >= MinInterval THEN Append(@, now) ELSE @]
        BY <3>2, <4>1 DEF capture_pending
      <4>4. traces[t] \in Seq(Nat) /\ traces[t] # <<>> /\ now \in Nat
        BY <4>1 DEF Followed, Typed
      <4>5. Append(traces[t], now)[1] = traces[t][1]
        BY <4>4
      <4>6. traces'[t][1] = traces[t][1]
        <5>1. traces'[t] = IF now - Last(traces[t]) >= MinInterval THEN Append(traces[t], now) ELSE traces[t]
          BY <4>3 DEF Typed
        <5> QED BY <4>5, <5>1
      <4> QED BY <4>2, <4>3, <4>6 DEF Typed
    <3>3. CASE Elapse \/ DropHandle \/ UNCHANGED vars
      BY <3>3 DEF Elapse, DropHandle, vars, sentinels
    <3> QED BY <1>4, <3>1, <3>2, <3>3 DEF Next
  <2>4. \A s \in Tasks, b \in DOMAIN buckets : status[s] # None => (Scheduled(s, b) => Scheduled(s, b)')
    BY <2>1, <2>3 DEF Scheduled, OnTime, FirstTime, SecondTime, Distance, Lap
  <2>5. \A s \in Tasks : Reported(s)' <=> Reported(s)
    BY <2>1 DEF Reported
  <2>6. \A s \in Range(channel) : s \in Tasks /\ status[s] # None
    BY RangeOf DEF Typed, Once
  <2>7. \A s \in Tasks : future[s] = "pending" => status[s] # None
    BY DEF Followed, None
  <2> SUFFICES ASSUME running' PROVE InTime'
    BY DEF InTime
  <2>8. running /\ now' <= ticked' + Lap /\ \A s \in Range(channel') : ticked' <= traces'[s][1]
    BY <2>1, <2>2, <2>3, <2>6 DEF InTime
  <2>9. \A s \in Tasks : future'[s] = "pending" =>
           Reported(s)' \/ s \in Range(channel') \/ \E b \in DOMAIN buckets' : s \in Range(buckets'[b]) /\ Scheduled(s, b)'
    <3> TAKE s \in Tasks
    <3> SUFFICES ASSUME future'[s] = "pending" PROVE
           Reported(s)' \/ s \in Range(channel') \/ \E b \in DOMAIN buckets' : s \in Range(buckets'[b]) /\ Scheduled(s, b)'
      OBVIOUS
    <3>1. Reported(s) \/ s \in Range(channel) \/ \E b \in DOMAIN buckets : s \in Range(buckets[b]) /\ Scheduled(s, b)
      BY <2>3, <2>8 DEF InTime
    <3>2. status[s] # None
      BY <2>3, <2>7
    <3> QED BY <2>1, <2>4, <2>5, <3>1, <3>2
  <2> QED BY <2>8, <2>9 DEF InTime, Lap
<1> QED BY <1>1, <1>2, <1>3, <1>4

-----------------------------------------------------------------------------
(* What follows *)

Inv == Typed /\ Followed /\ Once /\ OwnAddress /\ Tallied /\ InTime

LEMMA Invariance == Spec => []Inv
<1>1. Init => Inv
  BY TypedInit DEF Inv
<1>2. Inv /\ [Next]_vars => Inv'
  BY TypedStep, FollowedStep, OnceStep, OwnAddressStep, TalliedStep, InTimeStep DEF Inv
<1> QED BY <1>1, <1>2, PTL DEF Spec

\* Every report is of a future that is pending and old, and numbered by the reports of
\* its address before it, which are those of its sentinel unless the address was used by
\* another (LongPollTracker::tick, send_counts).
THEOREM ReportsAreCounted == Spec => []ReportsCounted
<1>1. Inv => ReportsCounted
  <2> SUFFICES ASSUME Inv, NEW i \in DOMAIN reports
               PROVE LET r == reports[i]
                         earlier == {j \in 1 .. i - 1 : reports[j].address = r.address}
                         own == {j \in earlier : reports[j].task = r.task}
                     IN  /\ r.age >= MinAge /\ r.future \in {"pending", "ready"}
                         /\ r.send_count >= Cardinality(own)
                         /\ own = earlier => r.send_count = Cardinality(own)
    BY DEF ReportsCounted
  <2> DEFINE r == reports[i]
             earlier == From(reports, r.address, i - 1)
             own == {j \in earlier : reports[j].task = r.task}
  <2>1. reports \in Seq(Reports) /\ r \in Reports /\ i - 1 \in Nat
    BY DEF Inv, Typed
  <2>2. r.future \in {"pending", "ready"}
    BY <2>1 DEF Reports
  <2>3. r.age >= MinAge /\ r.send_count = Cardinality(earlier)
    BY DEF Inv, Tallied
  <2>4. IsFiniteSet(earlier)
    BY <2>1, FromIsFinite
  <2> HIDE DEF r
  <2>5. own \subseteq earlier
    OBVIOUS
  <2> HIDE DEF earlier, own
  <2>6. Cardinality(own) <= Cardinality(earlier) /\ Cardinality(earlier) \in Nat /\ Cardinality(own) \in Nat
    BY <2>4, <2>5, FS_Subset, FS_CardinalityType
  <2>7. r.send_count >= Cardinality(own) /\ (own = earlier => r.send_count = Cardinality(own))
    BY <2>3, <2>6
  <2> QED BY <2>2, <2>3, <2>7 DEF r, earlier, own, From
<1> QED BY <1>1, Invariance, PTL

\* However late the ticks of the wheel are, within their bound, a future that stays
\* pending is reported by the time its bucket has come up twice (LongPollTracker::tick).
THEOREM ReportsAreInTime == Spec => []ReportedInTime
<1>1. Inv => ReportedInTime
  <2> SUFFICES ASSUME Inv, NEW t \in Tasks, running, future[t] = "pending",
                      now - traces[t][1] > (Ahead + Buckets) * (Second + Late)
               PROVE Reported(t)
    BY DEF ReportedInTime, Reported
  <2>1. now <= ticked + Lap /\ now \in Nat /\ ticked \in Nat
    BY DEF Inv, InTime, Typed
  <2>2. status[t] # None
    BY DEF Inv, Followed, None
  <2>3. traces[t][1] \in Nat
    BY <2>2, AgeIsNat DEF Inv
  <2>4. Ahead + Buckets \in Nat /\ 1 <= Ahead + Buckets /\ Lap \in Nat /\ Ahead \in Nat /\ Ahead <= Ahead + Buckets
    BY Constants
  <2>5. 1 * Lap = Lap /\ Lap <= (Ahead + Buckets) * Lap /\ (Ahead + Buckets) * Lap \in Nat
        /\ Ahead * Lap <= (Ahead + Buckets) * Lap /\ Ahead * Lap \in Nat
    BY <2>4, 1 \in Nat, Products
  <2>6. now > traces[t][1] + (Ahead + Buckets) * Lap
    <3>1. Second + Late = Lap
      BY DEF Lap
    <3>2. now - traces[t][1] > (Ahead + Buckets) * Lap
      BY <3>1
    <3> QED BY <2>1, <2>3, <2>5, <3>2
  <2>7. CASE t \in Range(channel)
    <3>1. ticked <= traces[t][1]
      BY <2>7 DEF Inv, InTime
    <3> QED BY <2>1, <2>3, <2>4, <2>5, <2>6, <3>1
  <2>8. ASSUME NEW b \in DOMAIN buckets, Scheduled(t, b) PROVE FALSE
    <3>1. Distance(b) \in Nat /\ 1 <= Distance(b)
      <4>1. b \in 0 .. Buckets - 1 /\ current_bucket \in 0 .. Buckets - 1
        BY DEF Inv, Typed
      <4> QED BY <4>1, Constants DEF Distance
    <3>2. Lap <= Distance(b) * Lap /\ Distance(b) * Lap \in Nat
      BY <2>4, <2>5, <3>1, 1 \in Nat, Products
    <3>3. ticked + Distance(b) * Lap <= traces[t][1] + (Ahead + Buckets) * Lap
      <4>1. \/ ticked + Distance(b) * Lap <= traces[t][1] + Ahead * Lap
            \/ ticked + Distance(b) * Lap <= traces[t][1] + (Ahead + Buckets) * Lap
        BY <2>8 DEF Scheduled, OnTime, FirstTime, SecondTime
      <4> QED BY <2>1, <2>3, <2>5, <3>2, <4>1
    <3> QED BY <2>1, <2>3, <2>4, <2>5, <2>6, <3>2, <3>3
  <2> QED BY <2>7, <2>8 DEF Inv, InTime
<1> QED BY <1>1, Invariance, PTL
==============================================================================
