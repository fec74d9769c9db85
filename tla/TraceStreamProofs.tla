-------------------------- MODULE TraceStreamProofs --------------------------
(***************************************************************************)
(* An encoder at work and the readers of what it has written are in step:  *)
(* after any calls, failed writes, headers, and streams that were taken up *)
(* or symbolized; and TraceReader understands what they find.              *)
(***************************************************************************)
EXTENDS TraceStream, TraceCodecProofs, FiniteSetTheorems

-----------------------------------------------------------------------------
(* Readers *)

\* The state of a decoder, and one that is at pos with the pieces it has
Decoder(pos, reg, pool, base, events, status) ==
    [pos |-> pos, reg |-> reg, pool |-> pool, base |-> base, events |-> events, status |-> status]
Stands(d, pos) == d = Decoder(pos, d.reg, d.pool, d.base, d.events, "reading")
Ended(d, e) == e = [d EXCEPT !.status = "end"]

\* Frame by frame, n readers' states g on a stream that begins with s, however it goes on
Reaches(s, n, g) ==
    /\ g[0] = Fresh(2)
    /\ \A data \in Seq(Nat) : At(data, 0, s) =>
          \A r \in Readers : \A i \in 1 .. n : next_frame(r, data, g[i - 1]) = g[i]

\* Every reader of s gets to its end in state d.
Arrives(s, d) ==
    /\ s \in Seq(Nat) /\ At(s, 0, Header) /\ Stands(d, Len(s))
    /\ \E n \in Nat : 2 * n + 2 <= Len(s) /\ \E g : Reaches(s, n, g) /\ g[n] = d

\* The readers of data see the same of the events, and for_each_event fails unless data
\* ends where a frame does.
Fails(data) == Read("events", data).status \in {"error", "panic"}
Agreed(data, events) ==
    /\ \E l \in 0 .. Len(events) : \A r \in Readers : Read(r, data).events = SubSeq(events, 1, l)
    /\ Fails(data) <=> Read("frames", data).pos # Len(data)
CutAt(s, k) == SubSeq(s, 1, k)
AgreedOn(s, events) == \A k \in 2 .. Len(s) : Agreed(CutAt(s, k), events)

\* Every reader of s gets to its end in state d, and wherever s is cut off they agree.
ReadsTo(s, d) ==
    /\ Arrives(s, d) /\ \E S : d.events \in Seq(S)
    /\ \A id \in DOMAIN d.reg : IsSchema(d.reg[id])
    /\ AgreedOn(s, d.events)

LEMMA DecoderIs ==
  ASSUME NEW pos, NEW reg, NEW pool, NEW base, NEW events, NEW status, NEW d,
         d = Decoder(pos, reg, pool, base, events, status)
  PROVE d.pos = pos /\ d.reg = reg /\ d.pool = pool /\ d.base = base /\ d.events = events /\ d.status = status
  BY DEF Decoder

LEMMA HeaderIs == Header \in Seq(Nat) /\ Len(Header) = 2 /\ Header[1] = MAGIC
  BY DEF Header, MAGIC, VERSION

\* At the end of the stream a reader ends, and stays so.
LEMMA AtTheEnd ==
  ASSUME NEW r, NEW data \in Seq(Nat), NEW d, Stands(d, Len(data)), NEW e, Ended(d, e)
  PROVE next_frame(r, data, d) = e /\ next_frame(r, data, e) = e
<1>1. d.status = "reading" /\ d.pos = Len(data) /\ e.status = "end" /\ "end" # "reading"
  BY DEF Decoder, Stands, Ended
<1>2. Len(data) >= Len(data)
  OBVIOUS
<1>3. e = [d EXCEPT !.status = "end"]
  BY DEF Ended
<1> QED BY <1>1, <1>2, <1>3, Zenon DEF next_frame

StartsOf(r, data, m, h) ==
    h = [i \in 0 .. m |-> IF i = 0 THEN Fresh(2) ELSE next_frame(r, data, h[i - 1])]

LEMMA StartsAgree ==
  ASSUME NEW r, NEW data, NEW m \in Nat, NEW h, StartsOf(r, data, m, h), NEW k, StartsOf(r, data, m, k)
  PROVE h = k
<1>1. h[0] = k[0]
  BY DEF StartsOf
<1>2. \A i \in 1 .. m : h[i - 1] = k[i - 1] => h[i] = k[i]
  BY DEF StartsOf
<1>3. \A i \in 0 .. m : h[i] = k[i]
  BY <1>1, <1>2, SameSteps
<1> QED BY <1>3, Zenon DEF StartsOf

LEMMA ReadIs ==
  ASSUME NEW r, NEW data, NEW m \in Nat, m = Len(data) \div 2, decode_header(data, 0), NEW h, StartsOf(r, data, m, h)
  PROVE Read(r, data) = h[m]
<1> DEFINE k == CHOOSE f : StartsOf(r, data, m, f)
<1>1. StartsOf(r, data, m, k)
  BY Zenon
<1>2. k = h
  BY <1>1, StartsAgree, Zenon
<1>3. Read(r, data) = k[m]
  BY Zenon DEF Read, Loop, StartsOf
<1> QED BY <1>2, <1>3

\* A reader that goes no further than behind s stays so.
LEMMA ReadStops ==
  ASSUME NEW s, NEW d, Arrives(s, d), NEW data \in Seq(Nat), At(data, 0, s), NEW r \in Readers, NEW e,
         next_frame(r, data, d) = e, next_frame(r, data, e) = e
  PROVE Read(r, data) = e
<1>1. PICK n \in Nat : 2 * n + 2 <= Len(s) /\ \E g : Reaches(s, n, g) /\ g[n] = d
  BY DEF Arrives
<1>2. PICK g : Reaches(s, n, g) /\ g[n] = d
  BY <1>1
<1>3. s \in Seq(Nat) /\ At(s, 0, Header) /\ 2 <= Len(s) /\ Len(s) <= Len(data) /\ Len(s) \in Nat
  BY HeaderIs DEF Arrives, At
<1>4. PICK m \in Nat : m = Len(data) \div 2 /\ n + 1 <= m
  <2>1. PICK l \in Nat : l = Len(data) /\ 2 * n + 2 <= l
    BY <1>1, <1>3
  <2>2. l \div 2 \in Nat /\ n + 1 <= l \div 2
    BY ONLY <2>1, n \in Nat
  <2> QED BY <2>1, <2>2
<1>5. decode_header(data, 0)
  <2>1. s[1] = MAGIC /\ data[1] = s[1]
    BY <1>3, HeaderIs DEF At
  <2> QED BY <1>3, <2>1 DEF decode_header, Has
<1> DEFINE h == [i \in 0 .. m |-> IF i <= n THEN g[i] ELSE e]
<1>6. StartsOf(r, data, m, h)
  <2>1. ASSUME NEW i \in 0 .. m PROVE h[i] = IF i = 0 THEN Fresh(2) ELSE next_frame(r, data, h[i - 1])
    <3>1. CASE i = 0
      BY <1>2, <1>4, <3>1 DEF Reaches
    <3>2. CASE i \in 1 .. n
      <4>1. next_frame(r, data, g[i - 1]) = g[i]
        BY <1>2, <3>2 DEF Reaches
      <4>2. h[i] = g[i] /\ h[i - 1] = g[i - 1] /\ i # 0
        BY <1>4, <3>2
      <4> QED BY <4>1, <4>2
    <3>3. CASE i = n + 1
      <4>1. h[i] = e /\ h[i - 1] = d /\ i # 0
        BY <1>2, <1>4, <3>3
      <4> HIDE DEF h
      <4> QED BY <4>1
    <3>4. CASE i > n + 1
      <4>1. h[i] = e /\ h[i - 1] = e /\ i # 0
        BY <1>4, <3>4
      <4> HIDE DEF h
      <4> QED BY <4>1
    <3> QED BY <3>1, <3>2, <3>3, <3>4
  <2> QED BY <2>1, Zenon DEF StartsOf
<1>7. h[m] = e
  BY <1>4
<1> HIDE DEF h
<1> QED BY <1>4, <1>5, <1>6, <1>7, ReadIs

\* A stream that every reader gets to the end of is read so.
LEMMA ReadEnds ==
  ASSUME NEW s, NEW d, Arrives(s, d), NEW r \in Readers
  PROVE Read(r, s) = [d EXCEPT !.status = "end"]
<1>1. PICK e : e = [d EXCEPT !.status = "end"] /\ Ended(d, e)
  BY DEF Ended
<1>2. s \in Seq(Nat) /\ Stands(d, Len(s))
  BY DEF Arrives
<1>3. next_frame(r, s, d) = e /\ next_frame(r, s, e) = e
  BY <1>1, <1>2, AtTheEnd, Zenon
<1>4. At(s, 0, s)
  BY <1>2 DEF At
<1> QED BY <1>1, <1>2, <1>3, <1>4, ReadStops

\* A reader at the end of s goes over u, whatever follows, and is in state e then.
Step(s, u, d, e) ==
    \A data \in Seq(Nat) : At(data, Len(s), u) => \A r \in Readers : next_frame(r, data, d) = e

LEMMA ArrivesFurther ==
  ASSUME NEW s, NEW d, Arrives(s, d), NEW u \in Seq(Nat), Len(u) >= 2, NEW e, Stands(e, Len(s) + Len(u)), Step(s, u, d, e)
  PROVE Arrives(s \o u, e)
<1>1. PICK n \in Nat : 2 * n + 2 <= Len(s) /\ \E g : Reaches(s, n, g) /\ g[n] = d
  BY DEF Arrives
<1>2. PICK g : Reaches(s, n, g) /\ g[n] = d
  BY <1>1
<1>3. s \in Seq(Nat) /\ At(s, 0, Header) /\ Len(s) \in Nat
  BY DEF Arrives
<1>4. s \o u \in Seq(Nat) /\ Len(s \o u) = Len(s) + Len(u) /\ \A i \in 1 .. Len(s) : (s \o u)[i] = s[i]
  BY <1>3, JoinedSeq
<1>5. At(s \o u, 0, Header)
  <2>1. 2 <= Len(s) /\ \A i \in 1 .. 2 : s[i] = Header[i]
    BY <1>3, HeaderIs DEF At
  <2>2. \A i \in 1 .. 2 : i \in 1 .. Len(s) /\ 0 + i = i
    BY <1>3, <2>1
  <2>3. \A i \in 1 .. 2 : (s \o u)[0 + i] = Header[i]
    BY <1>4, <2>1, <2>2
  <2> QED BY <1>3, <1>4, <2>1, <2>3, HeaderIs DEF At
<1> DEFINE h == [i \in 0 .. n + 1 |-> IF i <= n THEN g[i] ELSE e]
<1>6. Reaches(s \o u, n + 1, h)
  <2>1. h[0] = Fresh(2)
    BY <1>2 DEF Reaches
  <2>2. ASSUME NEW data \in Seq(Nat), At(data, 0, s \o u), NEW r \in Readers, NEW i \in 1 .. n + 1
        PROVE next_frame(r, data, h[i - 1]) = h[i]
    <3>1. At(data, 0, s) /\ At(data, Len(s), u)
      <4>1. At(data, 0 + Len(s), u) /\ At(data, 0, s)
        BY <1>3, <2>2, 0 \in Nat, AtJoined
      <4>2. 0 + Len(s) = Len(s)
        BY <1>3
      <4> QED BY <4>1, <4>2
    <3>2. CASE i \in 1 .. n
      <4>1. next_frame(r, data, g[i - 1]) = g[i]
        BY <1>2, <3>1, <3>2 DEF Reaches
      <4>2. h[i] = g[i] /\ h[i - 1] = g[i - 1]
        BY <3>2
      <4> HIDE DEF h
      <4> QED BY <4>1, <4>2
    <3>3. CASE i = n + 1
      <4>1. next_frame(r, data, d) = e
        BY <3>1 DEF Step
      <4>2. h[i] = e /\ h[i - 1] = d
        BY <1>2, <3>3
      <4> HIDE DEF h
      <4> QED BY <4>1, <4>2
    <3> QED BY <3>2, <3>3
  <2> HIDE DEF h
  <2> QED BY <2>1, <2>2 DEF Reaches
<1>7. h[n + 1] = e
  OBVIOUS
<1>8. 2 * (n + 1) + 2 <= Len(s \o u) /\ n + 1 \in Nat
  BY <1>1, <1>3, <1>4
<1> HIDE DEF h
<1>9. \E m \in Nat : 2 * m + 2 <= Len(s \o u) /\ \E f : Reaches(s \o u, m, f) /\ f[m] = e
  BY <1>6, <1>7, <1>8
<1> QED BY <1>4, <1>5, <1>9 DEF Arrives

\* u is one frame behind s: whoever finds a frame there gets to its end.
OneFrame(s, u, d) ==
    /\ u \in Seq(Nat) /\ Len(u) >= 2 /\ (u[1] # MAGIC \/ Len(u) = 2)
    /\ \A r \in Readers : FrameOf(r, s \o u, d).res = "some" => FrameOf(r, s \o u, d).pos = Len(s) + Len(u)

StatusOf(r, res) == IF res = "panic" THEN "panic" ELSE IF r = "events" THEN "error" ELSE "end"

\* The reader goes no further, in state e; for_each_event has failed.
Halts(r, data, d, e) ==
    /\ next_frame(r, data, d) = e /\ next_frame(r, data, e) = e /\ e.events = d.events /\ e.pos = d.pos
    /\ r = "events" => e.status \in {"error", "panic"}

LEMMA Undecoded ==
  ASSUME NEW r, NEW data, NEW d, NEW n, Stands(d, n), ~(d.pos >= Len(data)), ~decode_header(data, d.pos),
         NEW f, f = FrameOf(r, data, d), f.res # "some", NEW e, e = Proceed(r, d, f)
  PROVE Halts(r, data, d, e)
<1>1. PICK st : st = StatusOf(r, f.res)
  OBVIOUS
<1>2. st # "reading" /\ (r = "events" => st \in {"error", "panic"})
  BY <1>1 DEF StatusOf
<1>3. e = [d EXCEPT !.status = st]
  <2>1. CASE f.res = "panic"
    <3>1. e = [d EXCEPT !.status = "panic"]
      BY <2>1, Zenon DEF Proceed
    <3> QED BY <1>1, <2>1, <3>1 DEF StatusOf
  <2>2. CASE f.res # "panic"
    <3>1. e = [d EXCEPT !.status = IF r = "events" THEN "error" ELSE "end"]
      BY <2>2, Zenon DEF Proceed
    <3> QED BY <1>1, <2>2, <3>1 DEF StatusOf
  <2> QED BY <2>1, <2>2
<1>4. d = Decoder(n, d.reg, d.pool, d.base, d.events, "reading") /\ d.status = "reading"
  BY DEF Stands, Decoder
<1>5. e.status = st /\ e.events = d.events /\ e.pos = d.pos
  BY ONLY <1>3, <1>4 DEF Decoder
<1>6. next_frame(r, data, d) = e
  BY <1>4, Zenon DEF next_frame
<1>7. next_frame(r, data, e) = e
  BY <1>2, <1>5, Zenon DEF next_frame
<1> QED BY <1>2, <1>5, <1>6, <1>7 DEF Halts

LEMMA CutIs ==
  ASSUME NEW S, NEW s \in Seq(S), NEW k \in Nat, k <= Len(s)
  PROVE SubSeq(s, 1, k) \in Seq(S) /\ Len(SubSeq(s, 1, k)) = k /\ \A i \in 1 .. k : SubSeq(s, 1, k)[i] = s[i]
<1>1. SubSeq(s, 1, k) = [i \in 1 .. k |-> s[i]]
  OBVIOUS
<1>2. \A i \in 1 .. k : s[i] \in S
  OBVIOUS
<1>3. [i \in 1 .. k |-> s[i]] \in [1 .. k -> S]
  BY <1>2
<1> QED BY <1>1, <1>3, AsSeq

LEMMA Prefix ==
  ASSUME NEW s \in Seq(Nat), NEW t \in Seq(Nat), NEW k \in 0 .. Len(s)
  PROVE SubSeq(s \o t, 1, k) = SubSeq(s, 1, k) /\ SubSeq(s, 1, Len(s)) = s /\ SubSeq(s \o t, 1, Len(s)) = s
<1>1. PICK x : x = s \o t
  OBVIOUS
<1>2. PICK n \in Nat, m \in Nat : n = Len(s) /\ m = Len(t) /\ DOMAIN s = 1 .. n
  OBVIOUS
<1>3. x \in Seq(Nat) /\ Len(x) = n + m /\ \A i \in 1 .. n : x[i] = s[i]
  BY <1>1, <1>2, JoinedSeq
<1>4. ASSUME NEW j \in 0 .. n PROVE SubSeq(x, 1, j) = SubSeq(s, 1, j)
  <2>1. SubSeq(x, 1, j) = [i \in 1 .. j |-> x[i]]
    BY <1>2, <1>3, <1>4
  <2>2. SubSeq(s, 1, j) = [i \in 1 .. j |-> s[i]]
    BY <1>2, <1>4
  <2>3. \A i \in 1 .. j : i \in 1 .. n
    OBVIOUS
  <2> QED BY <1>3, <2>1, <2>2, <2>3
<1>5. SubSeq(s, 1, n) = s
  BY <1>2
<1> QED BY <1>1, <1>2, <1>4, <1>5

\* What a call does, wherever the reader is: w is the event it writes, if any.
\* Cut off inside a frame, a stream is read as far as that frame.
LEMMA CutInside ==
  ASSUME NEW s, NEW d, ReadsTo(s, d), NEW u, OneFrame(s, u, d), NEW k \in Nat, Len(s) < k, k < Len(s) + Len(u)
  PROVE Agreed(CutAt(s \o u, k), d.events)
<1>1. /\ s \in Seq(Nat) /\ Len(s) \in Nat /\ Stands(d, Len(s)) /\ Arrives(s, d)
      /\ \A id \in DOMAIN d.reg : IsSchema(d.reg[id])
  BY DEF ReadsTo, Arrives
<1>2. u \in Seq(Nat) /\ Len(u) >= 2 /\ Len(u) \in Nat /\ (u[1] # MAGIC \/ Len(u) = 2)
  BY DEF OneFrame
<1>3. d.pos = Len(s) /\ d.pos \in Nat
  BY <1>1 DEF Stands, Decoder
<1>4. PICK full \in Seq(Nat) : /\ full = s \o u /\ Len(full) = Len(s) + Len(u)
                               /\ (\A i \in 1 .. Len(s) : full[i] = s[i]) /\ \A i \in 1 .. Len(u) : full[Len(s) + i] = u[i]
  <2>1. PICK full : full = s \o u
    OBVIOUS
  <2>2. /\ full \in Seq(Nat) /\ Len(full) = Len(s) + Len(u)
        /\ (\A i \in 1 .. Len(s) : full[i] = s[i]) /\ \A i \in 1 .. Len(u) : full[Len(s) + i] = u[i]
    BY ONLY <1>1, <1>2, <2>1, JoinedSeq
  <2> QED BY ONLY <2>1, <2>2
<1>5. PICK data \in Seq(Nat) : data = CutAt(s \o u, k) /\ Len(data) = k /\ \A i \in 1 .. k : data[i] = full[i]
  <2>1. k <= Len(full)
    BY <1>1, <1>2, <1>4
  <2>2. SubSeq(full, 1, k) \in Seq(Nat) /\ Len(SubSeq(full, 1, k)) = k /\ \A i \in 1 .. k : SubSeq(full, 1, k)[i] = full[i]
    BY <2>1, CutIs
  <2> QED BY <1>4, <2>2 DEF CutAt
<1>6. Begins(data, full)
  BY <1>1, <1>2, <1>4, <1>5 DEF Begins
<1>7. At(data, 0, s)
  <2>1. \A i \in 1 .. Len(s) : i \in 1 .. k /\ 0 + i = i
    BY <1>1
  <2> QED BY <1>1, <1>4, <1>5, <2>1 DEF At
<1>8. ~(d.pos >= Len(data)) /\ d.pos < Len(data)
  BY <1>1, <1>3, <1>5
<1>9. ~decode_header(data, d.pos)
  <2>1. 1 \in 1 .. Len(u) /\ Len(s) + 1 \in 1 .. k
    BY <1>1, <1>2
  <2>2. data[d.pos + 1] = u[1]
    BY <1>3, <1>4, <1>5, <2>1
  <2>3. Len(u) = 2 => ~Has(data, d.pos, 2)
    BY <1>1, <1>3, <1>5 DEF Has
  <2> QED BY <1>2, <2>2, <2>3 DEF decode_header
<1>10. ASSUME NEW r \in Readers PROVE FrameOf(r, data, d).res # "some"
  <2>1. PICK a, b : a = FrameOf(r, data, d) /\ b = FrameOf(r, full, d)
    OBVIOUS
  <2>2. Kept(a, b, 0 .. Len(data))
    BY <1>1, <1>3, <1>6, <1>8, <2>1, FrameKept
  <2>3. b.res = "some" => b.pos = Len(s) + Len(u)
    BY <1>4, <2>1 DEF OneFrame
  <2>4. a.res = "some" => FALSE
    <3>1. a.res = "some" => b = a /\ a.pos \in 0 .. k
      BY <1>5, <2>2 DEF Kept
    <3> QED BY <1>1, <1>2, <2>3, <3>1
  <2> QED BY <2>1, <2>4
<1>11. ASSUME NEW r \in Readers
       PROVE /\ Read(r, data).events = d.events /\ Read(r, data).pos = Len(s)
             /\ r = "events" => Read(r, data).status \in {"error", "panic"}
  <2>1. PICK f : f = FrameOf(r, data, d) /\ f.res # "some"
    BY <1>10
  <2>2. PICK e : e = Proceed(r, d, f)
    OBVIOUS
  <2>3. Halts(r, data, d, e)
    BY <1>1, <1>8, <1>9, <2>1, <2>2, Undecoded
  <2>4. Read(r, data) = e
    BY <1>1, <1>7, <2>3, ReadStops DEF Halts
  <2> QED BY <1>3, <2>3, <2>4 DEF Halts
<1>12. PICK S : d.events \in Seq(S)
  BY DEF ReadsTo
<1>13. PICK l \in 0 .. Len(d.events) : l = Len(d.events) /\ SubSeq(d.events, 1, l) = d.events
  BY <1>12
<1>14. Fails(data)
  BY <1>11 DEF Fails, Readers
<1>15. Read("frames", data).pos # Len(data)
  BY <1>1, <1>5, <1>11 DEF Readers
<1>16. \E n \in 0 .. Len(d.events) : \A r \in Readers : Read(r, data).events = SubSeq(d.events, 1, n)
  BY <1>11, <1>13
<1>17. Agreed(data, d.events)
  BY <1>14, <1>15, <1>16, Zenon DEF Agreed
<1> QED BY <1>5, <1>17

\* Cut off between two frames, it is read to its end.
LEMMA CutWhole ==
  ASSUME NEW s, NEW d, Arrives(s, d), NEW S, d.events \in Seq(S)
  PROVE Agreed(CutAt(s, Len(s)), d.events)
<1>1. s \in Seq(Nat) /\ Len(s) \in Nat /\ Stands(d, Len(s))
  BY DEF Arrives
<1>2. CutAt(s, Len(s)) = s
  BY <1>1 DEF CutAt
<1>3. PICK e : e = [d EXCEPT !.status = "end"]
  OBVIOUS
<1>4. e.events = d.events /\ e.pos = Len(s) /\ e.status = "end"
  <2>1. d = Decoder(Len(s), d.reg, d.pool, d.base, d.events, "reading")
    BY <1>1 DEF Stands
  <2> QED BY ONLY <1>3, <2>1 DEF Decoder
<1>5. \A r \in Readers : Read(r, s) = e
  BY <1>3, ReadEnds
<1>6. PICK l \in 0 .. Len(d.events) : l = Len(d.events) /\ SubSeq(d.events, 1, l) = d.events
  OBVIOUS
<1>7. ~Fails(s) /\ Read("frames", s).pos = Len(s)
  <2>1. "events" \in Readers /\ "frames" \in Readers
    BY DEF Readers
  <2> QED BY <1>4, <1>5, <2>1 DEF Fails
<1>8. \E n \in 0 .. Len(d.events) : \A r \in Readers : Read(r, s).events = SubSeq(d.events, 1, n)
  BY <1>4, <1>5, <1>6
<1>9. Agreed(s, d.events)
  BY <1>7, <1>8, Zenon DEF Agreed
<1> QED BY <1>2, <1>9

OneMore(events, more) == more = events \/ \E x : more = Append(events, x)

LEMMA OneMoreIs ==
  ASSUME NEW S, NEW events \in Seq(S), NEW more, OneMore(events, more)
  PROVE /\ \E T : more \in Seq(T)
        /\ \A l \in 0 .. Len(events) : l \in 0 .. Len(more) /\ SubSeq(events, 1, l) = SubSeq(more, 1, l)
<1>1. CASE more = events
  BY <1>1
<1>2. CASE \E x : more = Append(events, x)
  <2>1. PICK x : more = Append(events, x)
    BY <1>2
  <2>2. PICK T : T = S \union {x}
    OBVIOUS
  <2>3. events \in Seq(T) /\ x \in T
    BY <2>2
  <2>4. more \in Seq(T) /\ Len(more) = Len(events) + 1 /\ \A i \in 1 .. Len(events) : more[i] = events[i]
    BY <2>1, <2>3
  <2>5. ASSUME NEW l \in 0 .. Len(events) PROVE l \in 0 .. Len(more) /\ SubSeq(events, 1, l) = SubSeq(more, 1, l)
    <3>1. Len(events) \in Nat /\ l \in Nat /\ l <= Len(events) /\ l <= Len(more) /\ l \in 0 .. Len(more)
      BY <2>4
    <3>2. PICK a : a = SubSeq(events, 1, l) /\ a \in Seq(T) /\ Len(a) = l /\ \A i \in 1 .. l : a[i] = events[i]
      <4>1. /\ SubSeq(events, 1, l) \in Seq(T) /\ Len(SubSeq(events, 1, l)) = l
            /\ \A i \in 1 .. l : SubSeq(events, 1, l)[i] = events[i]
        BY ONLY <2>3, <3>1, CutIs
      <4> QED BY ONLY <4>1
    <3>3. PICK b : b = SubSeq(more, 1, l) /\ b \in Seq(T) /\ Len(b) = l /\ \A i \in 1 .. l : b[i] = more[i]
      <4>1. /\ SubSeq(more, 1, l) \in Seq(T) /\ Len(SubSeq(more, 1, l)) = l
            /\ \A i \in 1 .. l : SubSeq(more, 1, l)[i] = more[i]
        BY ONLY <2>4, <3>1, CutIs
      <4> QED BY ONLY <4>1
    <3>4. \A i \in 1 .. l : i \in 1 .. Len(events)
      BY <3>1
    <3>5. \A i \in 1 .. Len(a) : a[i] = b[i]
      BY <2>4, <3>2, <3>3, <3>4
    <3>6. a = b
      BY ONLY <3>2, <3>3, <3>5, SameSeq
    <3> QED BY <3>1, <3>2, <3>3, <3>6
  <2> QED BY <2>4, <2>5
<1> QED BY <1>1, <1>2 DEF OneMore

LEMMA AgreedMore ==
  ASSUME NEW data, NEW S, NEW events \in Seq(S), NEW more, OneMore(events, more), Agreed(data, events)
  PROVE Agreed(data, more)
<1>1. PICK l \in 0 .. Len(events) : \A r \in Readers : Read(r, data).events = SubSeq(events, 1, l)
  BY Zenon DEF Agreed
<1>2. l \in 0 .. Len(more) /\ SubSeq(events, 1, l) = SubSeq(more, 1, l)
  BY OneMoreIs
<1>3. \E n \in 0 .. Len(more) : \A r \in Readers : Read(r, data).events = SubSeq(more, 1, n)
  BY <1>1, <1>2
<1> QED BY <1>3, Zenon DEF Agreed

\* Behind one more frame the readers are further, and agree wherever it is cut off.
LEMMA Further ==
  ASSUME NEW s, NEW d, ReadsTo(s, d), NEW u, OneFrame(s, u, d), NEW e, Stands(e, Len(s) + Len(u)), Step(s, u, d, e),
         OneMore(d.events, e.events), \A id \in DOMAIN e.reg : IsSchema(e.reg[id])
  PROVE ReadsTo(s \o u, e)
<1>1. s \in Seq(Nat) /\ Len(s) \in Nat /\ Arrives(s, d) /\ AgreedOn(s, d.events)
  BY DEF ReadsTo, Arrives
<1>2. u \in Seq(Nat) /\ Len(u) >= 2 /\ Len(u) \in Nat
  BY DEF OneFrame
<1>3. Arrives(s \o u, e)
  BY <1>1, <1>2, ArrivesFurther
<1>4. PICK S : d.events \in Seq(S)
  BY DEF ReadsTo
<1>5. PICK T : e.events \in Seq(T)
  BY <1>4, OneMoreIs
<1>6. Len(s \o u) = Len(s) + Len(u)
  BY <1>1, <1>2, JoinedSeq
<1>7. ASSUME NEW k \in 2 .. Len(s \o u) PROVE Agreed(CutAt(s \o u, k), e.events)
  <2>1. CASE k <= Len(s)
    <3>1. k \in 0 .. Len(s) /\ k \in 2 .. Len(s)
      BY <1>1, <2>1
    <3>2. CutAt(s \o u, k) = CutAt(s, k)
      BY <1>1, <1>2, <3>1, Prefix DEF CutAt
    <3>3. Agreed(CutAt(s, k), d.events)
      BY <1>1, <3>1 DEF AgreedOn
    <3> QED BY <1>4, <3>2, <3>3, AgreedMore
  <2>2. CASE Len(s) < k /\ k < Len(s) + Len(u)
    <3>1. Agreed(CutAt(s \o u, k), d.events)
      BY <1>1, <2>2, k \in Nat, CutInside
    <3> QED BY <1>4, <3>1, AgreedMore
  <2>3. CASE k = Len(s) + Len(u)
    BY <1>3, <1>5, <1>6, <2>3, CutWhole
  <2>4. k <= Len(s) \/ (Len(s) < k /\ k < Len(s) + Len(u)) \/ k = Len(s) + Len(u)
    <3>1. PICK a \in Nat, b \in Nat : a = Len(s) /\ b = Len(u)
      BY <1>1, <1>2
    <3>2. k \in 2 .. a + b
      BY <1>6, <3>1
    <3>3. k <= a \/ (a < k /\ k < a + b) \/ k = a + b
      BY ONLY <3>2, a \in Nat, b \in Nat
    <3> QED BY <3>1, <3>3
  <2> QED BY <2>1, <2>2, <2>3, <2>4
<1>8. AgreedOn(s \o u, e.events)
  BY <1>7 DEF AgreedOn
<1> QED BY <1>3, <1>5, <1>8, Zenon DEF ReadsTo

\* A frame that every reader finds where it stands
LEMMA FrameStep ==
  ASSUME NEW s \in Seq(Nat), NEW d, Stands(d, Len(s)), NEW u \in Seq(Nat), Len(u) >= 2, u[1] # MAGIC, NEW f, NEW e,
         Apply([d EXCEPT !.pos = Len(s) + Len(u)], f) = e,
         \A data \in Seq(Nat) : At(data, Len(s), u) => FrameRead(data, d, f, Len(s) + Len(u))
  PROVE Step(s, u, d, e)
<1> SUFFICES ASSUME NEW data \in Seq(Nat), At(data, Len(s), u), NEW r \in Readers
             PROVE next_frame(r, data, d) = e
  BY DEF Step
<1>1. d.status = "reading" /\ d.pos = Len(s)
  BY DEF Stands, Decoder
<1>2. FrameOf(r, data, d) = Some(f, Len(s) + Len(u))
  BY DEF FrameRead
<1>3. ~(d.pos >= Len(data)) /\ data[d.pos + 1] = u[1]
  <2>1. Len(s) + Len(u) <= Len(data) /\ Len(s) \in Nat /\ Len(u) \in Nat /\ Len(data) \in Nat
    BY DEF At
  <2>2. 1 \in 1 .. Len(u)
    BY <2>1
  <2>3. data[Len(s) + 1] = u[1]
    BY <2>2 DEF At
  <2> QED BY <1>1, <2>1, <2>3
<1>4. ~decode_header(data, d.pos)
  BY <1>3 DEF decode_header
<1>5. next_frame(r, data, d) = Proceed(r, d, Some(f, Len(s) + Len(u)))
  BY <1>1, <1>2, <1>3, <1>4, Zenon DEF next_frame
<1>6. Some(f, Len(s) + Len(u)).res = "some" /\ Some(f, Len(s) + Len(u)).pos = Len(s) + Len(u)
      /\ Some(f, Len(s) + Len(u)).v = f
  BY DEF Some
<1>7. Proceed(r, d, Some(f, Len(s) + Len(u))) = Apply([d EXCEPT !.pos = Len(s) + Len(u)], f)
  BY <1>6, Zenon DEF Proceed
<1> QED BY <1>5, <1>7

\* A header starts the readers afresh, but for the events they have found.
LEMMA HeaderStep ==
  ASSUME NEW s \in Seq(Nat), NEW d, Stands(d, Len(s))
  PROVE Step(s, Header, d, Decoder(Len(s) + 2, <<>>, <<>>, 0, d.events, "reading"))
<1> DEFINE e == Decoder(Len(s) + 2, <<>>, <<>>, 0, d.events, "reading")
<1> SUFFICES ASSUME NEW data \in Seq(Nat), At(data, Len(s), Header), NEW r \in Readers
             PROVE next_frame(r, data, d) = e
  BY DEF Step
<1>1. d.status = "reading" /\ d.pos = Len(s)
  BY DEF Stands, Decoder
<1>2. Len(s) + 2 <= Len(data) /\ data[Len(s) + 1] = MAGIC
  BY HeaderIs DEF At
<1>3. decode_header(data, d.pos) /\ ~(d.pos >= Len(data))
  BY <1>1, <1>2 DEF decode_header, Has
<1>4. next_frame(r, data, d) = reset_state(d)
  BY <1>1, <1>3, Zenon DEF next_frame
<1>5. reset_state(d) = [Fresh(Len(s) + 2) EXCEPT !.events = d.events]
  BY <1>1 DEF reset_state
<1>6. [Fresh(Len(s) + 2) EXCEPT !.events = d.events] = e
  BY DEF Fresh, Decoder
<1> QED BY <1>4, <1>5, <1>6

LEMMA ReadsHeader == ReadsTo(Header, Decoder(2, <<>>, <<>>, 0, <<>>, "reading"))
<1> DEFINE d == Decoder(2, <<>>, <<>>, 0, <<>>, "reading")
           g == [i \in 0 .. 0 |-> d]
<1>1. d = Fresh(2) /\ Stands(d, Len(Header))
  BY HeaderIs DEF Fresh, Decoder, Stands
<1>2. At(Header, 0, Header)
  BY HeaderIs DEF At
<1>3. g[0] = d
  OBVIOUS
<1> HIDE DEF d, g
<1>4. Reaches(Header, 0, g)
  <2>1. \A i \in 1 .. 0 : FALSE
    OBVIOUS
  <2> QED BY <1>1, <1>3, <2>1 DEF Reaches
<1>5. 0 \in Nat /\ 2 * 0 + 2 <= Len(Header)
  BY HeaderIs
<1>6. Arrives(Header, d)
  BY <1>1, <1>2, <1>3, <1>4, <1>5, HeaderIs DEF Arrives
<1>7. d.reg = <<>> /\ d.events \in Seq(Nat)
  <2>1. <<>> \in Seq(Nat)
    OBVIOUS
  <2> QED BY <2>1 DEF d, Decoder
<1>8. AgreedOn(Header, d.events)
  <2>1. Agreed(CutAt(Header, Len(Header)), d.events)
    BY <1>6, <1>7, CutWhole
  <2>2. \A k \in 2 .. Len(Header) : k = Len(Header)
    BY HeaderIs
  <2> QED BY <2>1, <2>2, Zenon DEF AgreedOn
<1>9. \A id \in DOMAIN d.reg : FALSE
  BY <1>7
<1>10. ReadsTo(Header, d)
  BY <1>6, <1>7, <1>8, <1>9, Zenon DEF ReadsTo
<1> QED BY <1>10 DEF d

\* A second header is one frame too, and none to the readers that do not see its end.
LEMMA HeaderFrame ==
  ASSUME NEW s \in Seq(Nat), NEW d, Stands(d, Len(s)), NEW u, u = Header
  PROVE OneFrame(s, u, d)
<1>1. u \in Seq(Nat) /\ Len(u) = 2 /\ u[1] = MAGIC
  BY HeaderIs
<1>2. PICK pos \in Nat : pos = d.pos /\ pos = Len(s)
  BY DEF Stands, Decoder
<1>3. PICK full : full = s \o u /\ full[pos + 1] = MAGIC
  <2>1. PICK full : full = s \o u
    OBVIOUS
  <2>4. s \in Seq(Nat) /\ u \in Seq(Nat)
    BY <1>1
  <2>2. /\ full \in Seq(Nat) /\ Len(full) = Len(s) + Len(u) /\ (\A i \in 1 .. Len(s) : full[i] = s[i])
        /\ \A i \in 1 .. Len(u) : full[Len(s) + i] = u[i]
    BY ONLY <2>1, <2>4, JoinedSeq
  <2>3. full[Len(s) + 1] = u[1]
    BY <1>1, <2>2
  <2> QED BY <1>1, <1>2, <2>1, <2>3
<1>4. MAGIC # TAG_EVENT /\ MAGIC # TAG_SCHEMA /\ MAGIC # TAG_STRING_POOL /\ MAGIC # TAG_TIMESTAMP_RESET
  BY DEF MAGIC, TAG_EVENT, TAG_SCHEMA, TAG_STRING_POOL, TAG_TIMESTAMP_RESET
<1>5. OtherFrame(full, pos) = None
  BY <1>3, <1>4, Zenon DEF OtherFrame
<1>6. decode_frame(full, pos, d.reg, d.base) = None /\ decode_frame_ref(full, pos, d.reg, d.base) = None
  BY <1>3, <1>4, <1>5, Zenon DEF decode_frame, decode_frame_ref
<1>7. full[d.pos + 1] # TAG_EVENT
  BY <1>2, <1>3, <1>4
<1>8. \A r \in Readers : FrameOf(r, full, d) = None
  <2> TAKE r \in Readers
  <2>1. CASE r = "frames"
    BY <1>2, <1>6, <2>1, Zenon DEF FrameOf
  <2>2. CASE r # "frames"
    BY <1>2, <1>6, <1>7, <2>2, Zenon DEF FrameOf
  <2> QED BY <2>1, <2>2
<1>9. None.res # "some"
  BY DEF None
<1> QED BY <1>1, <1>3, <1>8, <1>9 DEF OneFrame

-----------------------------------------------------------------------------
(* Frames *)

IsFrame(u) == u \in Seq(Nat) /\ Len(u) >= 2 /\ u[1] # MAGIC

LEMMA FrameIs ==
  ASSUME NEW h \in Seq(Nat), Len(h) >= 2, h[1] # MAGIC, NEW t \in Seq(Nat)
  PROVE IsFrame(h \o t) /\ (h \o t)[1] = h[1]
<1>1. h \o t \in Seq(Nat) /\ Len(h \o t) = Len(h) + Len(t) /\ \A i \in 1 .. Len(h) : (h \o t)[i] = h[i]
  BY JoinedSeq
<1>2. 1 \in 1 .. Len(h) /\ Len(t) \in Nat /\ Len(h) \in Nat
  OBVIOUS
<1>3. (h \o t)[1] = h[1]
  BY <1>1, <1>2
<1> QED BY <1>1, <1>2, <1>3 DEF IsFrame

LEMMA TypesAreNumbers == FieldTypes \subseteq Nat
  BY DEF FieldTypes, I64, F64, U8, U16, U32, Bool, String, Bytes, PooledString, StackFrames, Varint, StringMap

\* The states a reader is in behind a frame
Moved(d, n) == Decoder(d.pos + n, d.reg, d.pool, d.base, d.events, "reading")
WithSchema(d, n, id, entry) == Decoder(d.pos + n, Put(d.reg, id, entry), d.pool, d.base, d.events, "reading")
WithString(d, n, id, text) == Decoder(d.pos + n, d.reg, Put(d.pool, id, text), d.base, d.events, "reading")
WithBase(d, n, ts) == Decoder(d.pos + n, d.reg, d.pool, ts, d.events, "reading")
WithEvent(d, n, ts, event) == Decoder(d.pos + n, d.reg, d.pool, ts, Append(d.events, event), "reading")

LEMMA FrameFurther ==
  ASSUME NEW s, NEW d, ReadsTo(s, d), NEW u, IsFrame(u), NEW f, NEW e,
         \A data \in Seq(Nat) : At(data, d.pos, u) => FrameRead(data, d, f, d.pos + Len(u)),
         Apply(Moved(d, Len(u)), f) = e, Stands(e, d.pos + Len(u)), OneMore(d.events, e.events),
         \A id \in DOMAIN e.reg : (id \in DOMAIN d.reg /\ e.reg[id] = d.reg[id]) \/ IsSchema(e.reg[id])
  PROVE ReadsTo(s \o u, e)
<1>1. s \in Seq(Nat) /\ Stands(d, Len(s))
  BY DEF ReadsTo, Arrives
<1>2. d.pos = Len(s) /\ d = Decoder(Len(s), d.reg, d.pool, d.base, d.events, "reading") /\ Len(s) \in Nat
  BY <1>1 DEF Stands, Decoder
<1>3. [d EXCEPT !.pos = Len(s) + Len(u)] = Moved(d, Len(u))
  <2>1. PICK p : p = [d EXCEPT !.pos = Len(s) + Len(u)]
    OBVIOUS
  <2>2. p = Decoder(Len(s) + Len(u), d.reg, d.pool, d.base, d.events, "reading")
    BY <1>2, <2>1 DEF Decoder
  <2> QED BY <1>2, <2>1, <2>2 DEF Moved
<1>4. u \in Seq(Nat) /\ Len(u) >= 2 /\ u[1] # MAGIC
  BY DEF IsFrame
<1>5. Stands(e, Len(s) + Len(u)) /\ Apply([d EXCEPT !.pos = Len(s) + Len(u)], f) = e
  BY <1>2, <1>3
<1>6. \A data \in Seq(Nat) : At(data, Len(s), u) => FrameRead(data, d, f, Len(s) + Len(u))
  BY <1>2
<1>7. Step(s, u, d, e)
  BY <1>1, <1>4, <1>5, <1>6, FrameStep
<1>8. OneFrame(s, u, d)
  <2>1. PICK full \in Seq(Nat) : full = s \o u /\ At(full, Len(s), u)
    <3>1. PICK full : full = s \o u
      OBVIOUS
    <3>2. /\ full \in Seq(Nat) /\ Len(full) = Len(s) + Len(u)
          /\ \A i \in 1 .. Len(u) : full[Len(s) + i] = u[i]
      BY ONLY <1>1, <1>4, <3>1, JoinedSeq
    <3>3. At(full, Len(s), u)
      BY <1>2, <1>4, <3>2 DEF At
    <3> QED BY <3>1, <3>2, <3>3
  <2>2. FrameRead(full, d, f, Len(s) + Len(u))
    BY <1>6, <2>1
  <2>3. \A r \in Readers : FrameOf(r, full, d).pos = Len(s) + Len(u)
    BY <2>2 DEF FrameRead, Some
  <2> QED BY <1>4, <2>1, <2>3 DEF OneFrame
<1>9. \A id \in DOMAIN e.reg : IsSchema(e.reg[id])
  BY DEF ReadsTo
<1> QED BY <1>5, <1>7, <1>8, <1>9, Further

LEMMA MovedIs ==
  ASSUME NEW d, NEW n, NEW p, p = Moved(d, n)
  PROVE /\ p = Decoder(d.pos + n, d.reg, d.pool, d.base, d.events, "reading")
        /\ p.pos = d.pos + n /\ p.reg = d.reg /\ p.pool = d.pool /\ p.base = d.base /\ p.events = d.events
  BY DEF Moved, Decoder

LEMMA SchemaFrame ==
  ASSUME NEW s, NEW d, ReadsTo(s, d), NEW id \in Nat, id \notin DOMAIN d.reg, NEW name \in Nat,
         NEW fields \in Seq(FieldTypes), NEW entry, entry = Entry(name, fields), NEW u, u = encode_schema(id, entry)
  PROVE IsFrame(u) /\ u[1] = TAG_SCHEMA /\ ReadsTo(s \o u, WithSchema(d, Len(u), id, entry))
<1>1. d.pos \in Nat
  BY DEF ReadsTo, Arrives, Stands, Decoder
<1>3. entry = [name |-> name, has_timestamp |-> TRUE, fields |-> fields] /\ TRUE \in BOOLEAN
  BY DEF Entry
<1>4. IsFrame(u) /\ u[1] = TAG_SCHEMA
  <2>1. PICK h \in Seq(Nat) : h = <<TAG_SCHEMA, id, name, 1>> /\ Len(h) = 4 /\ h[1] = TAG_SCHEMA
    <3>1. <<TAG_SCHEMA, id, name, 1>> \in Seq(Nat) /\ Len(<<TAG_SCHEMA, id, name, 1>>) = 4
      BY Tags
    <3> QED BY <3>1
  <2>2. fields \in Seq(Nat)
    BY TypesAreNumbers, Wider
  <2>3. PICK t \in Seq(Nat) : t = LengthPrefixed(fields)
    BY <2>2, PrefixedSeq
  <2>4. entry.name = name /\ entry.has_timestamp /\ entry.fields = fields
    BY <1>3
  <2>5. u = h \o t
    BY <2>1, <2>3, <2>4 DEF encode_schema
  <2>6. h[1] # MAGIC /\ Len(h) >= 2
    BY <2>1 DEF TAG_SCHEMA, MAGIC
  <2>7. IsFrame(h \o t) /\ (h \o t)[1] = h[1]
    BY <2>6, FrameIs
  <2> QED BY <2>1, <2>5, <2>7
<1> DEFINE f == [kind |-> "schema", id |-> id, entry |-> entry]
           e == WithSchema(d, Len(u), id, entry)
<1>5. \A data \in Seq(Nat) : At(data, d.pos, u) => FrameRead(data, d, f, d.pos + Len(u))
  BY <1>1, <1>3, SchemaReadBack
<1>6. Apply(Moved(d, Len(u)), f) = e
  <2>1. PICK p : p = Moved(d, Len(u))
    OBVIOUS
  <2>2. p.reg = d.reg /\ p = Decoder(d.pos + Len(u), d.reg, d.pool, d.base, d.events, "reading")
    BY <2>1, MovedIs
  <2>4. f.kind = "schema" /\ f.id = id /\ f.entry = entry
    OBVIOUS
  <2>5. ~Conflicts(p, f)
    BY <2>2, <2>4 DEF Conflicts
  <2>6. Apply(p, f) = [p EXCEPT !.reg = Put(p.reg, id, entry)]
    <3> HIDE DEF f
    <3> QED BY <2>4, <2>5, Zenon DEF Apply
  <2>7. [p EXCEPT !.reg = Put(p.reg, id, entry)] = e
    BY <2>2 DEF WithSchema, Decoder
  <2> QED BY <2>1, <2>6, <2>7
<1>7. Stands(e, d.pos + Len(u))
  BY DEF Stands, WithSchema, Decoder
<1>9. OneMore(d.events, e.events)
  <2>1. e.events = d.events
    BY DEF WithSchema, Decoder
  <2> HIDE DEF e
  <2> QED BY <2>1 DEF OneMore
<1>10. \A i \in DOMAIN e.reg : (i \in DOMAIN d.reg /\ e.reg[i] = d.reg[i]) \/ IsSchema(e.reg[i])
  <2>1. e.reg = Put(d.reg, id, entry)
    BY DEF WithSchema, Decoder
  <2>2. IsSchema(entry)
    BY <1>3 DEF IsSchema
  <2> HIDE DEF e
  <2> QED BY <2>1, <2>2 DEF Put
<1> HIDE DEF e, f
<1>8. ReadsTo(s \o u, e)
  BY <1>4, <1>5, <1>6, <1>7, <1>9, <1>10, FrameFurther
<1> QED BY <1>4, <1>8 DEF e

LEMMA ResetFrame ==
  ASSUME NEW s, NEW d, ReadsTo(s, d), NEW ts \in Nat, NEW u, u = <<TAG_TIMESTAMP_RESET, ts>>
  PROVE IsFrame(u) /\ u[1] = TAG_TIMESTAMP_RESET /\ ReadsTo(s \o u, WithBase(d, 2, ts))
<1>1. d.pos \in Nat
  BY DEF ReadsTo, Arrives, Stands, Decoder
<1>4. IsFrame(u) /\ u[1] = TAG_TIMESTAMP_RESET /\ Len(u) = 2
  BY DEF IsFrame, TAG_TIMESTAMP_RESET, MAGIC
<1> DEFINE f == [kind |-> "reset", ts |-> ts]
           e == WithBase(d, 2, ts)
<1>5. \A data \in Seq(Nat) : At(data, d.pos, u) => FrameRead(data, d, f, d.pos + Len(u))
  BY <1>1, <1>4, ResetReadBack
<1>6. Apply(Moved(d, Len(u)), f) = e
  <2>1. PICK p : p = Moved(d, Len(u))
    OBVIOUS
  <2>2. p = Decoder(d.pos + Len(u), d.reg, d.pool, d.base, d.events, "reading")
    BY <2>1, MovedIs
  <2>4. f.kind = "reset" /\ f.ts = ts
    OBVIOUS
  <2>5. "reset" # "schema" /\ "reset" # "event" /\ "reset" # "pool"
    OBVIOUS
  <2>6. Apply(p, f) = [p EXCEPT !.base = ts]
    <3> HIDE DEF f
    <3> QED BY <2>4, <2>5, Zenon DEF Apply
  <2>7. [p EXCEPT !.base = ts] = e
    BY <2>2, <1>4 DEF WithBase, Decoder
  <2> QED BY <2>1, <2>6, <2>7
<1>7. Stands(e, d.pos + Len(u))
  BY <1>4 DEF Stands, WithBase, Decoder
<1>9. OneMore(d.events, e.events)
  <2>1. e.events = d.events
    BY DEF WithBase, Decoder
  <2> HIDE DEF e
  <2> QED BY <2>1 DEF OneMore
<1>10. \A i \in DOMAIN e.reg : (i \in DOMAIN d.reg /\ e.reg[i] = d.reg[i]) \/ IsSchema(e.reg[i])
  <2>1. e.reg = d.reg
    BY DEF WithBase, Decoder
  <2> HIDE DEF e
  <2> QED BY <2>1
<1> HIDE DEF e, f
<1>8. ReadsTo(s \o u, e)
  BY <1>4, <1>5, <1>6, <1>7, <1>9, <1>10, FrameFurther
<1> QED BY <1>4, <1>8 DEF e

\* The strings of a frame go into the pool one by one.
Inserts(entries, pool, n, h) ==
    h = [i \in 0 .. n |-> IF i = 0 THEN pool
                         ELSE IF Utf8(entries[i].text) THEN Put(h[i - 1], entries[i].id, entries[i].text) ELSE h[i - 1]]

LEMMA OneInserted ==
  ASSUME NEW p, NEW f, f.kind = "pool", NEW id, NEW text, Utf8(text), f.entries = <<Pooled(id, text)>>
  PROVE Apply(p, f) = [p EXCEPT !.pool = Put(p.pool, id, text)]
<1>1. Len(f.entries) = 1 /\ f.entries[1].id = id /\ f.entries[1].text = text
  BY DEF Pooled
<1> DEFINE h == [i \in 0 .. 1 |-> IF i = 0 THEN p.pool ELSE Put(p.pool, id, text)]
           k == CHOOSE c : Inserts(f.entries, p.pool, 1, c)
<1>2. Inserts(f.entries, p.pool, 1, h)
  <2>1. \A i \in 0 .. 1 : i = 0 \/ i = 1
    OBVIOUS
  <2>2. h[0] = p.pool /\ h[1] = Put(p.pool, id, text)
    OBVIOUS
  <2>3. \A i \in 0 .. 1 : h[i] = IF i = 0 THEN p.pool
                         ELSE IF Utf8(f.entries[i].text) THEN Put(h[i - 1], f.entries[i].id, f.entries[i].text) ELSE h[i - 1]
    BY <1>1, <2>1, <2>2
  <2>4. h = [i \in 0 .. 1 |-> h[i]]
    OBVIOUS
  <2> HIDE DEF h
  <2> QED BY <2>3, <2>4, Zenon DEF Inserts
<1>3. Inserts(f.entries, p.pool, 1, k)
  BY <1>2, Zenon
<1>4. Apply(p, f) = [p EXCEPT !.pool = k[1]]
  <2>1. "pool" # "schema" /\ "pool" # "event"
    OBVIOUS
  <2> QED BY <1>1, <2>1, Zenon DEF Apply, Loop, Inserts
<1> HIDE DEF k
<1>5. k[1] = Put(p.pool, id, text)
  <2>1. k[0] = p.pool
    BY <1>3 DEF Inserts
  <2>2. k[1] = IF Utf8(f.entries[1].text) THEN Put(k[0], f.entries[1].id, f.entries[1].text) ELSE k[0]
    BY <1>3 DEF Inserts
  <2> QED BY <1>1, <2>1, <2>2
<1> QED BY <1>4, <1>5

LEMMA PoolFrame ==
  ASSUME NEW s, NEW d, ReadsTo(s, d), NEW id \in Nat, NEW text \in Texts, NEW u, u = encode_string_pool(id, text)
  PROVE IsFrame(u) /\ u[1] = TAG_STRING_POOL /\ u[3] = id /\ ReadsTo(s \o u, WithString(d, Len(u), id, text))
<1>1. d.pos \in Nat
  BY DEF ReadsTo, Arrives, Stands, Decoder
<1>2. text \in Seq(Nat) /\ Utf8(text)
  BY DEF Texts
<1>4. IsFrame(u) /\ u[1] = TAG_STRING_POOL /\ u[3] = id
  <2>1. PICK h \in Seq(Nat) : h = <<TAG_STRING_POOL, 1, id>> /\ Len(h) = 3 /\ h[1] = TAG_STRING_POOL /\ h[3] = id
    <3>1. <<TAG_STRING_POOL, 1, id>> \in Seq(Nat) /\ Len(<<TAG_STRING_POOL, 1, id>>) = 3
      BY Tags
    <3> QED BY <3>1
  <2>3. PICK t \in Seq(Nat) : t = LengthPrefixed(text)
    BY <1>2, PrefixedSeq
  <2>5. u = h \o t
    BY <2>1, <2>3 DEF encode_string_pool
  <2>6. h[1] # MAGIC /\ Len(h) >= 2
    BY <2>1 DEF TAG_STRING_POOL, MAGIC
  <2>7. IsFrame(h \o t) /\ (h \o t)[1] = h[1]
    BY <2>6, FrameIs
  <2>8. (h \o t)[3] = h[3]
    BY <2>1, JoinedSeq, 3 \in 1 .. 3
  <2> QED BY <2>1, <2>5, <2>7, <2>8
<1> DEFINE f == [kind |-> "pool", entries |-> <<Pooled(id, text)>>]
           e == WithString(d, Len(u), id, text)
<1>5. \A data \in Seq(Nat) : At(data, d.pos, u) => FrameRead(data, d, f, d.pos + Len(u))
  BY <1>1, <1>2, PoolReadBack
<1>6. Apply(Moved(d, Len(u)), f) = e
  <2>1. PICK p : p = Moved(d, Len(u))
    OBVIOUS
  <2>2. p.pool = d.pool /\ p = Decoder(d.pos + Len(u), d.reg, d.pool, d.base, d.events, "reading")
    BY <2>1, MovedIs
  <2>4. f.kind = "pool" /\ f.entries = <<Pooled(id, text)>>
    OBVIOUS
  <2>6. Apply(p, f) = [p EXCEPT !.pool = Put(p.pool, id, text)]
    <3> HIDE DEF f
    <3> QED BY <1>2, <2>4, OneInserted
  <2>7. [p EXCEPT !.pool = Put(p.pool, id, text)] = e
    BY <2>2 DEF WithString, Decoder
  <2> QED BY <2>1, <2>6, <2>7
<1>7. Stands(e, d.pos + Len(u))
  BY DEF Stands, WithString, Decoder
<1>9. OneMore(d.events, e.events)
  <2>1. e.events = d.events
    BY DEF WithString, Decoder
  <2> HIDE DEF e
  <2> QED BY <2>1 DEF OneMore
<1>10. \A i \in DOMAIN e.reg : (i \in DOMAIN d.reg /\ e.reg[i] = d.reg[i]) \/ IsSchema(e.reg[i])
  <2>1. e.reg = d.reg
    BY DEF WithString, Decoder
  <2> HIDE DEF e
  <2> QED BY <2>1
<1> HIDE DEF e, f
<1>8. ReadsTo(s \o u, e)
  BY <1>4, <1>5, <1>6, <1>7, <1>9, <1>10, FrameFurther
<1> QED BY <1>4, <1>8 DEF e

LEMMA EventSeq ==
  ASSUME NEW id \in Nat, NEW delta \in Nat, NEW entry, NEW values, Fit(entry.fields, values),
         NEW u, u = encode_event(id, delta, entry, values)
  PROVE IsFrame(u) /\ u[1] = TAG_EVENT
<1>1. PICK n \in Nat : n = Len(entry.fields)
  BY FitAt
<1>2. PICK parts : parts = [i \in 1 .. n |-> encode(entry.fields[i], values[i])]
  OBVIOUS
<1>3. parts \in [1 .. n -> Seq(Nat)]
  <2>1. \A i \in 1 .. n : entry.fields[i] \in FieldTypes /\ values[i] \in FieldValues(entry.fields[i])
    BY <1>1, FitAt
  <2>2. \A i \in 1 .. n : encode(entry.fields[i], values[i]) \in Seq(Nat)
    BY <2>1, EncodedSeq
  <2> QED BY <1>2, <2>2
<1>4. PICK t \in Seq(Nat) : t = FlattenSeq(parts)
  BY <1>3, FlatSeq
<1>5. PICK h \in Seq(Nat) : h = <<TAG_EVENT, id, delta>> /\ Len(h) = 3 /\ h[1] = TAG_EVENT
  <2>1. <<TAG_EVENT, id, delta>> \in Seq(Nat) /\ Len(<<TAG_EVENT, id, delta>>) = 3
    BY Tags
  <2> QED BY <2>1
<1>6. u = h \o t
  <2>1. DOMAIN values = 1 .. n
    BY <1>1 DEF Fit
  <2> QED BY <1>2, <1>4, <1>5, <2>1 DEF encode_event
<1>7. h[1] # MAGIC /\ Len(h) >= 2
  BY <1>5 DEF TAG_EVENT, MAGIC
<1>8. IsFrame(h \o t) /\ (h \o t)[1] = h[1]
  BY <1>7, FrameIs
<1> QED BY <1>5, <1>6, <1>8

LEMMA EventFrameRead ==
  ASSUME NEW s, NEW d, ReadsTo(s, d), d.base \in Nat, NEW id \in Nat, id \in DOMAIN d.reg, NEW entry, d.reg[id] = entry,
         entry.has_timestamp, NEW values, Fit(entry.fields, values), NEW delta \in Nat, NEW ts, ts = d.base + delta,
         ts < Width, NEW u, u = encode_event(id, delta, entry, values)
  PROVE IsFrame(u) /\ u[1] = TAG_EVENT /\ ReadsTo(s \o u, WithEvent(d, Len(u), ts, Event(d.pool, entry, ts, values)))
<1>1. d.pos \in Nat
  BY DEF ReadsTo, Arrives, Stands, Decoder
<1>4. IsFrame(u) /\ u[1] = TAG_EVENT
  BY EventSeq
<1> DEFINE f == EventIn(id, entry, values, ts)
           event == Event(d.pool, entry, ts, values)
           e == WithEvent(d, Len(u), ts, event)
<1>5. \A data \in Seq(Nat) : At(data, d.pos, u) => FrameRead(data, d, f, d.pos + Len(u))
  BY <1>1, EventReadBack
<1>6. Apply(Moved(d, Len(u)), f) = e
  <2>1. PICK p : p = Moved(d, Len(u))
    OBVIOUS
  <2>2. p.pool = d.pool /\ p.events = d.events
        /\ p = Decoder(d.pos + Len(u), d.reg, d.pool, d.base, d.events, "reading")
    BY <2>1, MovedIs
  <2>4. f.kind = "event" /\ f.entry = entry /\ f.ts = ts /\ f.values = values
    BY DEF EventIn
  <2>5. Resolved(p, f) = event
    BY <2>2, <2>4 DEF Resolved
  <2>6. Apply(p, f) = [p EXCEPT !.base = ts, !.events = Append(p.events, event)]
    <3>1. "event" # "schema"
      OBVIOUS
    <3> HIDE DEF f, event
    <3> QED BY <2>4, <2>5, <3>1, Zenon DEF Apply
  <2>7. [p EXCEPT !.base = ts, !.events = Append(p.events, event)] = e
    <3> HIDE DEF event
    <3>1. PICK q : q = [p EXCEPT !.base = ts]
      OBVIOUS
    <3>2. q = Decoder(d.pos + Len(u), d.reg, d.pool, ts, d.events, "reading")
      BY <2>2, <3>1 DEF Decoder
    <3>3. PICK x : x = Append(d.events, event)
      OBVIOUS
    <3>4. [q EXCEPT !.events = x] = Decoder(d.pos + Len(u), d.reg, d.pool, ts, x, "reading")
      BY <3>2 DEF Decoder
    <3> QED BY <2>2, <3>1, <3>3, <3>4 DEF WithEvent
  <2> QED BY <2>1, <2>6, <2>7
<1>7. Stands(e, d.pos + Len(u))
  BY DEF Stands, WithEvent, Decoder
<1>9. OneMore(d.events, e.events)
  <2> HIDE DEF event
  <2>1. PICK x : x = Append(d.events, event)
    OBVIOUS
  <2>2. e.events = x
    BY <2>1 DEF WithEvent, Decoder
  <2> HIDE DEF e
  <2> QED BY <2>1, <2>2 DEF OneMore
<1>10. \A i \in DOMAIN e.reg : (i \in DOMAIN d.reg /\ e.reg[i] = d.reg[i]) \/ IsSchema(e.reg[i])
  <2> HIDE DEF event
  <2>1. PICK x : x = Append(d.events, event)
    OBVIOUS
  <2>2. e.reg = d.reg
    BY <2>1 DEF WithEvent, Decoder
  <2> HIDE DEF e
  <2> QED BY <2>2
<1> HIDE DEF e, f
<1>8. ReadsTo(s \o u, e)
  BY <1>4, <1>5, <1>6, <1>7, <1>9, <1>10, FrameFurther
<1> QED BY <1>4, <1>8 DEF e

-----------------------------------------------------------------------------
(* Encoders *)

Keyed(f) == f = [x \in DOMAIN f |-> f[x]]
IsEntry(x) == \E name \in Nat : \E fields \in Seq(FieldTypes) : x = Entry(name, fields)
Encoder(names, types, reg, next_id, pool, next_pool_id, base) ==
    [names |-> names, types |-> types, reg |-> reg, next_id |-> next_id,
     pool |-> pool, next_pool_id |-> next_pool_id, base |-> base]

\* The maps of an encoder fit together: names are those of the registry and the other
\* way round, a type's schema is its own, and a string has an id of its own.
NamesFit(e) == \A n \in DOMAIN e.names : e.names[n] \in DOMAIN e.reg /\ e.reg[e.names[n]].name = n
RegFits(e) == \A i \in DOMAIN e.reg : /\ i \in 0 .. e.next_id - 1 /\ IsEntry(e.reg[i])
                                      /\ e.reg[i].name \in DOMAIN e.names /\ e.names[e.reg[i].name] = i
TypesFit(e) == \A t \in DOMAIN e.types : /\ t \in DOMAIN e.names /\ e.types[t] = e.names[t]
                                         /\ e.reg[e.types[t]] = Entry(t, field_defs(t))
PoolFits(e) == \A t \in DOMAIN e.pool : t \in Texts /\ e.pool[t] \in 0 .. e.next_pool_id - 1
PoolApart(e) == \A t, u \in DOMAIN e.pool : e.pool[t] = e.pool[u] => t = u
Sane(e) ==
    /\ e = Encoder(e.names, e.types, e.reg, e.next_id, e.pool, e.next_pool_id, e.base)
    /\ e.next_id \in Nat /\ e.next_pool_id \in Nat /\ e.base \in 0 .. Width - 1
    /\ Keyed(e.names) /\ Keyed(e.types) /\ Keyed(e.reg) /\ Keyed(e.pool)
    /\ NamesFit(e) /\ RegFits(e) /\ TypesFit(e) /\ PoolFits(e) /\ PoolApart(e)

\* No id was given that no reader will see.
Gapless(e) == DOMAIN e.reg = 0 .. e.next_id - 1 /\ {e.pool[t] : t \in DOMAIN e.pool} = 0 .. e.next_pool_id - 1

\* A reader has the encoder's schemas and strings, but for those that are gone, and its
\* base, but for the lag.
Match(e, d, behind, gone) ==
    /\ behind \in 0 .. e.base /\ d.base = e.base - behind /\ d.reg = e.reg /\ Keyed(d.pool)
    /\ gone \subseteq DOMAIN e.pool
    /\ DOMAIN d.pool = {e.pool[t] : t \in DOMAIN e.pool \ gone}
    /\ \A t \in DOMAIN e.pool \ gone : d.pool[e.pool[t]] = t

LEMMA PutIs ==
  ASSUME NEW f, NEW k, NEW v, NEW g, g = Put(f, k, v)
  PROVE /\ DOMAIN g = DOMAIN f \union {k} /\ g[k] = v /\ Keyed(g)
        /\ \A j \in DOMAIN f : j # k => g[j] = f[j]
  BY DEF Put, Keyed

LEMMA EntryIs ==
  ASSUME NEW name, NEW fields
  PROVE Entry(name, fields).name = name /\ Entry(name, fields).has_timestamp /\ Entry(name, fields).fields = fields
  BY DEF Entry

\* A new schema
LEMMA SchemaTaken ==
  ASSUME NEW e, Sane(e), NEW taken, taken = [e EXCEPT !.next_id = @ + 1]
  PROVE /\ Sane(taken) /\ taken.names = e.names /\ taken.types = e.types /\ taken.reg = e.reg
        /\ taken.pool = e.pool /\ taken.base = e.base
        /\ taken = Encoder(e.names, e.types, e.reg, e.next_id + 1, e.pool, e.next_pool_id, e.base)
        /\ \A d, behind, gone : Match(e, d, behind, gone) => Match(taken, d, behind, gone)
<1>1. taken = Encoder(e.names, e.types, e.reg, e.next_id + 1, e.pool, e.next_pool_id, e.base)
  BY DEF Sane, Encoder
<1>2. /\ taken.names = e.names /\ taken.types = e.types /\ taken.reg = e.reg /\ taken.next_id = e.next_id + 1
      /\ taken.pool = e.pool /\ taken.next_pool_id = e.next_pool_id /\ taken.base = e.base
  BY <1>1 DEF Encoder
<1>3. NamesFit(taken) /\ TypesFit(taken) /\ PoolFits(taken) /\ PoolApart(taken)
  BY <1>2, Zenon DEF Sane, NamesFit, TypesFit, PoolFits, PoolApart
<1>4. RegFits(taken)
  <2>1. \A i \in 0 .. e.next_id - 1 : i \in 0 .. taken.next_id - 1
    BY <1>2 DEF Sane
  <2> QED BY <1>2, <2>1 DEF Sane, RegFits
<1>5. taken.next_id \in Nat
  BY <1>2 DEF Sane
<1>6. taken = Encoder(taken.names, taken.types, taken.reg, taken.next_id, taken.pool, taken.next_pool_id, taken.base)
  BY <1>1, <1>2
<1>7. Sane(taken)
  BY <1>2, <1>3, <1>4, <1>5, <1>6, Zenon DEF Sane
<1>8. \A d, behind, gone : Match(e, d, behind, gone) => Match(taken, d, behind, gone)
  BY <1>2, Zenon DEF Match
<1> QED BY <1>1, <1>2, <1>7, <1>8, Zenon

LEMMA EncoderIs ==
  ASSUME NEW names, NEW types, NEW reg, NEW next_id, NEW pool, NEW next_pool_id, NEW base, NEW e,
         e = Encoder(names, types, reg, next_id, pool, next_pool_id, base)
  PROVE /\ e.names = names /\ e.types = types /\ e.reg = reg /\ e.next_id = next_id
        /\ e.pool = pool /\ e.next_pool_id = next_pool_id /\ e.base = base
        /\ e = Encoder(e.names, e.types, e.reg, e.next_id, e.pool, e.next_pool_id, e.base)
  BY DEF Encoder

NewSchema(e, entry, taken, done) ==
    /\ taken = [e EXCEPT !.next_id = @ + 1]
    /\ done = [taken EXCEPT !.reg = Put(@, e.next_id, entry), !.names = Put(@, entry.name, e.next_id)]

LEMMA SchemaMade ==
  ASSUME NEW e, Sane(e), NEW name, NEW fields, NEW entry, entry = Entry(name, fields),
         NEW taken, NEW done, NewSchema(e, entry, taken, done)
  PROVE done = Encoder(Put(e.names, name, e.next_id), e.types, Put(e.reg, e.next_id, entry), e.next_id + 1,
                       e.pool, e.next_pool_id, e.base)
<1>1. PICK names, reg : names = Put(e.names, name, e.next_id) /\ reg = Put(e.reg, e.next_id, entry)
  OBVIOUS
<1>2. /\ taken = [e EXCEPT !.next_id = @ + 1]
      /\ done = [taken EXCEPT !.reg = Put(@, e.next_id, entry), !.names = Put(@, entry.name, e.next_id)]
  BY Zenon DEF NewSchema
<1>3. entry.name = name
  BY EntryIs
<1>4. taken = Encoder(e.names, e.types, e.reg, e.next_id + 1, e.pool, e.next_pool_id, e.base)
      /\ taken.names = e.names /\ taken.reg = e.reg
  BY <1>2, SchemaTaken
<1>5. PICK a : a = [taken EXCEPT !.reg = reg]
  OBVIOUS
<1>6. a = Encoder(e.names, e.types, reg, e.next_id + 1, e.pool, e.next_pool_id, e.base)
  BY <1>4, <1>5 DEF Encoder
<1>7. [a EXCEPT !.names = names] = Encoder(names, e.types, reg, e.next_id + 1, e.pool, e.next_pool_id, e.base)
  BY <1>6 DEF Encoder
<1>8. done = [a EXCEPT !.names = names]
  BY ONLY <1>1, <1>2, <1>3, <1>4, <1>5
<1> QED BY <1>1, <1>7, <1>8

SchemaGiven(e, name, id, entry, done) ==
    /\ Sane(done) /\ done.types = e.types /\ done.pool = e.pool /\ done.base = e.base
    /\ name \in DOMAIN done.names /\ done.reg[done.names[name]] = entry
    /\ Gapless(e) => Gapless(done)
    /\ id \in Nat /\ id = e.next_id /\ id \notin DOMAIN e.reg
    /\ \A d, behind, gone, n : Match(e, d, behind, gone) => Match(done, WithSchema(d, n, id, entry), behind, gone)

LEMMA SchemaDone ==
  ASSUME NEW e, Sane(e), NEW name \in Nat, NEW fields \in Seq(FieldTypes), NEW entry, entry = Entry(name, fields),
         name \notin DOMAIN e.names, NEW taken, NEW done, NewSchema(e, entry, taken, done)
  PROVE SchemaGiven(e, name, e.next_id, entry, done)
<1>0. done = Encoder(Put(e.names, name, e.next_id), e.types, Put(e.reg, e.next_id, entry), e.next_id + 1,
                     e.pool, e.next_pool_id, e.base)
  BY SchemaMade, Zenon
<1>1. PICK id \in Nat : id = e.next_id
  BY DEF Sane
<1>2. PICK names, reg : names = Put(e.names, name, id) /\ reg = Put(e.reg, id, entry)
  OBVIOUS
<1>3. entry.name = name
  BY EntryIs
<1>4. done = Encoder(names, e.types, reg, id + 1, e.pool, e.next_pool_id, e.base)
  BY <1>0, <1>1, <1>2
<1>5. /\ done.names = names /\ done.types = e.types /\ done.reg = reg /\ done.next_id = id + 1
      /\ done.pool = e.pool /\ done.next_pool_id = e.next_pool_id /\ done.base = e.base
  BY ONLY <1>4, EncoderIs
<1>6. /\ DOMAIN names = DOMAIN e.names \union {name} /\ names[name] = id /\ Keyed(names)
      /\ \A n \in DOMAIN e.names : n # name => names[n] = e.names[n]
      /\ DOMAIN reg = DOMAIN e.reg \union {id} /\ reg[id] = entry /\ Keyed(reg)
      /\ \A i \in DOMAIN e.reg : i # id => reg[i] = e.reg[i]
  <2>1. DOMAIN names = DOMAIN e.names \union {name} /\ names[name] = id /\ Keyed(names)
        /\ \A n \in DOMAIN e.names : n # name => names[n] = e.names[n]
    BY ONLY <1>2 DEF Put, Keyed
  <2>2. DOMAIN reg = DOMAIN e.reg \union {id} /\ reg[id] = entry /\ Keyed(reg)
        /\ \A i \in DOMAIN e.reg : i # id => reg[i] = e.reg[i]
    BY ONLY <1>2 DEF Put, Keyed
  <2> QED BY <2>1, <2>2
<1>7. id \notin DOMAIN e.reg /\ \A i \in DOMAIN e.reg : i \in 0 .. id - 1
  BY <1>1 DEF Sane, RegFits
<1>8. NamesFit(done)
  <2> SUFFICES ASSUME NEW n \in DOMAIN names PROVE names[n] \in DOMAIN reg /\ reg[names[n]].name = n
    BY <1>5 DEF NamesFit
  <2>1. CASE n = name
    BY <1>3, <1>6, <2>1
  <2>2. CASE n # name
    <3>1. n \in DOMAIN e.names /\ names[n] = e.names[n]
      BY <1>6, <2>2
    <3>2. e.names[n] \in DOMAIN e.reg /\ e.reg[e.names[n]].name = n
      BY <3>1 DEF Sane, NamesFit
    <3> QED BY <1>6, <1>7, <3>1, <3>2
  <2> QED BY <2>1, <2>2
<1>9. RegFits(done)
  <2> SUFFICES ASSUME NEW i \in DOMAIN reg
               PROVE i \in 0 .. id /\ IsEntry(reg[i]) /\ reg[i].name \in DOMAIN names /\ names[reg[i].name] = i
    <3>1. done.next_id - 1 = id
      BY <1>5
    <3> QED BY <1>5, <3>1 DEF RegFits
  <2>1. CASE i = id
    <3>1. IsEntry(entry)
      BY DEF IsEntry
    <3> QED BY <1>3, <1>6, <2>1, <3>1
  <2>2. CASE i # id
    <3>1. i \in DOMAIN e.reg /\ reg[i] = e.reg[i] /\ i \in 0 .. id
      BY <1>6, <1>7, <2>2
    <3>2. IsEntry(e.reg[i]) /\ e.reg[i].name \in DOMAIN e.names /\ e.names[e.reg[i].name] = i
      BY <3>1 DEF Sane, RegFits
    <3> QED BY <1>6, <3>1, <3>2
  <2> QED BY <2>1, <2>2
<1>10. TypesFit(done)
  <2> SUFFICES ASSUME NEW t \in DOMAIN e.types
               PROVE t \in DOMAIN names /\ e.types[t] = names[t] /\ reg[e.types[t]] = Entry(t, field_defs(t))
    BY <1>5 DEF TypesFit
  <2>1. t \in DOMAIN e.names /\ e.types[t] = e.names[t] /\ e.reg[e.types[t]] = Entry(t, field_defs(t))
    BY DEF Sane, TypesFit
  <2>2. e.names[t] \in DOMAIN e.reg
    BY <2>1 DEF Sane, NamesFit
  <2> QED BY <1>6, <1>7, <2>1, <2>2
<1>11. PoolFits(done) /\ PoolApart(done)
  BY ONLY <1>5, Sane(e) DEF Sane, PoolFits, PoolApart
<1>12. Sane(done)
  <2>1. done = Encoder(done.names, done.types, done.reg, done.next_id, done.pool, done.next_pool_id, done.base)
    BY <1>4, <1>5
  <2>2. done.next_id \in Nat /\ done.next_pool_id \in Nat /\ done.base \in 0 .. Width - 1
        /\ Keyed(done.names) /\ Keyed(done.types) /\ Keyed(done.reg) /\ Keyed(done.pool)
    BY <1>5, <1>6 DEF Sane
  <2> QED BY <1>8, <1>9, <1>10, <1>11, <2>1, <2>2 DEF Sane
<1>13. Gapless(e) => Gapless(done)
  <2> SUFFICES ASSUME Gapless(e) PROVE Gapless(done)
    OBVIOUS
  <2>1. DOMAIN e.reg = 0 .. id - 1 /\ done.next_id - 1 = id
    BY <1>1, <1>5 DEF Gapless
  <2>2. DOMAIN done.reg = 0 .. done.next_id - 1
    <3>1. 0 .. id = (0 .. id - 1) \union {id}
      BY <1>1
    <3> QED BY <1>5, <1>6, <2>1, <3>1, Zenon
  <2> QED BY <1>5, <2>2 DEF Gapless
<1>14. ASSUME NEW d, NEW behind, NEW gone, NEW n, Match(e, d, behind, gone)
       PROVE Match(done, WithSchema(d, n, id, entry), behind, gone)
  <2>1. PICK w : w = WithSchema(d, n, id, entry)
    OBVIOUS
  <2>2. w.reg = Put(d.reg, id, entry) /\ w.base = d.base /\ w.pool = d.pool
    BY <2>1 DEF WithSchema, Decoder
  <2>3. w.reg = done.reg
    BY <1>2, <1>5, <1>14, <2>2 DEF Match
  <2>4. Match(done, w, behind, gone)
    BY ONLY <1>5, <1>14, <2>2, <2>3 DEF Match
  <2> QED BY <2>1, <2>4
<1>15. name \in DOMAIN done.names /\ done.reg[done.names[name]] = entry
  BY <1>5, <1>6
<1> QED BY <1>1, <1>5, <1>7, <1>12, <1>13, <1>14, <1>15, Zenon DEF SchemaGiven

\* A new string
NewString(e, text, done) == done = [e EXCEPT !.pool = Put(@, text, e.next_pool_id), !.next_pool_id = @ + 1]

LEMMA StringMade ==
  ASSUME NEW e, Sane(e), NEW text, NEW done, NewString(e, text, done)
  PROVE done = Encoder(e.names, e.types, e.reg, e.next_id, Put(e.pool, text, e.next_pool_id), e.next_pool_id + 1, e.base)
<1>1. PICK pool : pool = Put(e.pool, text, e.next_pool_id)
  OBVIOUS
<1>2. PICK a : a = [e EXCEPT !.pool = pool]
  OBVIOUS
<1>3. a = Encoder(e.names, e.types, e.reg, e.next_id, pool, e.next_pool_id, e.base)
  BY <1>2 DEF Encoder, Sane
<1>4. [a EXCEPT !.next_pool_id = e.next_pool_id + 1]
         = Encoder(e.names, e.types, e.reg, e.next_id, pool, e.next_pool_id + 1, e.base)
  BY <1>3 DEF Encoder
<1>5. done = [a EXCEPT !.next_pool_id = e.next_pool_id + 1]
  BY <1>1, <1>2, <1>3 DEF NewString
<1> QED BY <1>1, <1>4, <1>5

StringGiven(e, text, id, done) ==
    /\ Sane(done) /\ done.names = e.names /\ done.types = e.types /\ done.reg = e.reg /\ done.base = e.base
    /\ DOMAIN done.pool = DOMAIN e.pool \union {text} /\ done.pool[text] = id
    /\ \A t \in DOMAIN e.pool : done.pool[t] = e.pool[t]
    /\ Gapless(e) => Gapless(done)
    /\ id \in Nat /\ id = e.next_pool_id
    /\ {t \in DOMAIN done.pool : done.pool[t] = id} = {text}
    /\ \A d, behind, gone, n : Match(e, d, behind, gone) =>
          /\ Match(done, WithString(d, n, id, text), behind, gone)
          /\ Match(done, d, behind, gone \union {text})

LEMMA StringDone ==
  ASSUME NEW e, Sane(e), NEW text \in Texts, text \notin DOMAIN e.pool, NEW done, NewString(e, text, done)
  PROVE StringGiven(e, text, e.next_pool_id, done)
<1>0. done = Encoder(e.names, e.types, e.reg, e.next_id, Put(e.pool, text, e.next_pool_id), e.next_pool_id + 1, e.base)
  BY StringMade, Zenon
<1>1. PICK id \in Nat : id = e.next_pool_id
  BY DEF Sane
<1>2. PICK pool : pool = Put(e.pool, text, id)
  OBVIOUS
<1>4. done = Encoder(e.names, e.types, e.reg, e.next_id, pool, id + 1, e.base)
  BY <1>0, <1>1, <1>2
<1>5. /\ done.names = e.names /\ done.types = e.types /\ done.reg = e.reg /\ done.next_id = e.next_id
      /\ done.pool = pool /\ done.next_pool_id = id + 1 /\ done.base = e.base
  BY ONLY <1>4, EncoderIs
<1>6. /\ DOMAIN pool = DOMAIN e.pool \union {text} /\ pool[text] = id /\ Keyed(pool)
      /\ \A t \in DOMAIN e.pool : pool[t] = e.pool[t]
  <2>1. DOMAIN pool = DOMAIN e.pool \union {text} /\ pool[text] = id /\ Keyed(pool)
        /\ \A t \in DOMAIN e.pool : t # text => pool[t] = e.pool[t]
    BY ONLY <1>2 DEF Put, Keyed
  <2> QED BY <2>1
<1>7. \A t \in DOMAIN e.pool : t \in Texts /\ e.pool[t] \in 0 .. id - 1
  BY <1>1 DEF Sane, PoolFits
<1>8. NamesFit(done) /\ RegFits(done) /\ TypesFit(done)
  BY <1>5, Zenon DEF Sane, NamesFit, RegFits, TypesFit
<1>9. PoolFits(done)
  <2>1. done.next_pool_id - 1 = id
    BY <1>5
  <2>2. \A t \in DOMAIN pool : t \in Texts /\ pool[t] \in 0 .. id
    BY <1>6, <1>7
  <2> QED BY <1>5, <2>1, <2>2 DEF PoolFits
<1>10. PoolApart(done)
  <2> SUFFICES ASSUME NEW t \in DOMAIN pool, NEW u \in DOMAIN pool, pool[t] = pool[u] PROVE t = u
    BY <1>5 DEF PoolApart
  <2>1. CASE t = text
    BY <1>6, <1>7, <2>1
  <2>2. CASE u = text
    BY <1>6, <1>7, <2>2
  <2>3. CASE t # text /\ u # text
    BY <1>6, <2>3 DEF Sane, PoolApart
  <2> QED BY <2>1, <2>2, <2>3
<1>12. Sane(done)
  <2>1. done = Encoder(done.names, done.types, done.reg, done.next_id, done.pool, done.next_pool_id, done.base)
    BY <1>4, <1>5
  <2>2. done.next_id \in Nat /\ done.next_pool_id \in Nat /\ done.base \in 0 .. Width - 1
        /\ Keyed(done.names) /\ Keyed(done.types) /\ Keyed(done.reg) /\ Keyed(done.pool)
    BY <1>5, <1>6 DEF Sane
  <2> QED BY <1>8, <1>9, <1>10, <2>1, <2>2 DEF Sane
<1>13. Gapless(e) => Gapless(done)
  <2> SUFFICES ASSUME Gapless(e) PROVE Gapless(done)
    OBVIOUS
  <2>1. {e.pool[t] : t \in DOMAIN e.pool} = 0 .. id - 1 /\ done.next_pool_id - 1 = id
    BY <1>1, <1>5 DEF Gapless
  <2>2. {pool[t] : t \in DOMAIN pool} = {e.pool[t] : t \in DOMAIN e.pool} \union {id}
    BY <1>6
  <2>3. {pool[t] : t \in DOMAIN pool} = 0 .. id
    BY <2>1, <2>2
  <2> QED BY <1>5, <2>1, <2>3 DEF Gapless
<1>14. {t \in DOMAIN pool : pool[t] = id} = {text}
  BY <1>6, <1>7
<1>15. ASSUME NEW d, NEW behind, NEW gone, NEW n, Match(e, d, behind, gone)
       PROVE Match(done, WithString(d, n, id, text), behind, gone) /\ Match(done, d, behind, gone \union {text})
  <2>0. /\ behind \in 0 .. done.base /\ d.base = done.base - behind /\ d.reg = done.reg /\ gone \subseteq DOMAIN e.pool
        /\ DOMAIN d.pool = {e.pool[t] : t \in DOMAIN e.pool \ gone} /\ Keyed(d.pool)
        /\ \A t \in DOMAIN e.pool \ gone : d.pool[e.pool[t]] = t
    BY <1>5, <1>15 DEF Match
  <2>1. PICK w : w = WithString(d, n, id, text)
    OBVIOUS
  <2>2. w.reg = d.reg /\ w.base = d.base /\ w.pool = Put(d.pool, id, text)
    BY <2>1 DEF WithString, Decoder
  <2>3. PICK left : left = DOMAIN e.pool \ gone /\ text \notin left /\ text \notin gone
    BY <2>0
  <2>4. DOMAIN pool \ gone = left \union {text} /\ DOMAIN pool \ (gone \union {text}) = left
    BY <1>6, <2>3
  <2>5. \A t \in left : pool[t] = e.pool[t] /\ pool[t] # id
    BY <1>6, <1>7, <2>3
  <2>6. /\ DOMAIN w.pool = {e.pool[t] : t \in left} \union {id} /\ w.pool[id] = text /\ Keyed(w.pool)
        /\ \A t \in left : w.pool[e.pool[t]] = t
    <3>1. /\ DOMAIN w.pool = DOMAIN d.pool \union {id} /\ w.pool[id] = text /\ Keyed(w.pool)
          /\ \A j \in DOMAIN d.pool : j # id => w.pool[j] = d.pool[j]
      BY ONLY <2>2 DEF Put, Keyed
    <3>2. DOMAIN d.pool = {e.pool[t] : t \in left} /\ \A t \in left : d.pool[e.pool[t]] = t
      BY <2>0, <2>3
    <3>3. \A t \in left : e.pool[t] \in DOMAIN d.pool /\ e.pool[t] # id
      BY <2>5, <3>2
    <3> QED BY <3>1, <3>2, <3>3
  <2>7. {pool[t] : t \in left} = {e.pool[t] : t \in left} /\ {pool[t] : t \in left \union {text}} = {e.pool[t] : t \in left} \union {id}
    BY <1>6, <2>5
  <2>8. DOMAIN w.pool = {pool[t] : t \in DOMAIN pool \ gone}
    BY <2>4, <2>6, <2>7
  <2>9. \A t \in DOMAIN pool \ gone : w.pool[pool[t]] = t
    BY <1>6, <2>4, <2>5, <2>6
  <2>10. Match(done, w, behind, gone)
    <3>1. gone \subseteq DOMAIN pool
      BY <1>6, <2>0
    <3> QED BY ONLY <1>5, <2>0, <2>2, <2>6, <2>8, <2>9, <3>1 DEF Match
  <2>11. DOMAIN d.pool = {pool[t] : t \in DOMAIN pool \ (gone \union {text})}
    BY <2>0, <2>3, <2>4, <2>7
  <2>12. \A t \in DOMAIN pool \ (gone \union {text}) : d.pool[pool[t]] = t
    BY <2>0, <2>3, <2>4, <2>5
  <2>13. Match(done, d, behind, gone \union {text})
    <3>1. gone \union {text} \subseteq DOMAIN pool
      BY <1>6, <2>0
    <3> QED BY ONLY <1>5, <2>0, <2>11, <2>12, <3>1 DEF Match
  <2> QED BY <2>1, <2>10, <2>13
<1> QED BY <1>1, <1>5, <1>6, <1>12, <1>13, <1>14, <1>15, Zenon DEF StringGiven

-----------------------------------------------------------------------------
(* Stages *)

LEMMA FlatJoined ==
  ASSUME NEW l \in Nat, NEW parts \in [1 .. l -> Seq(Nat)], NEW more \in [1 .. l + 1 -> Seq(Nat)],
         \A i \in 1 .. l : more[i] = parts[i]
  PROVE FlattenSeq(more) = FlattenSeq(parts) \o more[l + 1]
<1>1. PICK f : Grows(Nat, parts, l, f) /\ f[l] = FlattenSeq(parts)
  BY FlatGrows
<1>2. PICK g : Grows(Nat, more, l + 1, g) /\ g[l + 1] = FlattenSeq(more)
  BY l + 1 \in Nat, FlatGrows
<1>3. f[0] = g[0]
  BY <1>1, <1>2 DEF Grows
<1>4. ASSUME NEW i \in 1 .. l, f[i - 1] = g[i - 1] PROVE f[i] = g[i]
  <2>1. i \in 1 .. l + 1
    OBVIOUS
  <2> QED BY <1>1, <1>2, <1>4, <2>1 DEF Grows
<1>5. \A i \in 0 .. l : f[i] = g[i]
  <2> DEFINE T == {i \in 0 .. l : f[i] # g[i]}
  <2> SUFFICES ASSUME T # {} PROVE FALSE
    OBVIOUS
  <2>1. PICK i \in T : \A y \in T : i <= y
    BY LeastNat, T \subseteq Nat
  <2>2. i # 0 /\ i \in 1 .. l /\ i - 1 \in 0 .. l /\ ~(i <= i - 1)
    BY <1>3, <2>1
  <2> QED BY <1>4, <2>1, <2>2
<1>6. l \in 0 .. l /\ l + 1 \in 1 .. l + 1 /\ (l + 1) - 1 = l
  OBVIOUS
<1>7. g[l + 1] = g[l] \o more[l + 1]
  BY <1>2, <1>6 DEF Grows
<1> QED BY <1>1, <1>2, <1>5, <1>6, <1>7

LEMMA JoinedInTurn ==
  ASSUME NEW s \in Seq(Nat), NEW t \in Seq(Nat), NEW u \in Seq(Nat)
  PROVE s \o (t \o u) = (s \o t) \o u
<1>1. PICK a \in Seq(Nat), b \in Seq(Nat) : a = s \o t /\ b = t \o u
  BY JoinedSeq
<1>2. Len(a) = Len(s) + Len(t) /\ (\A i \in 1 .. Len(s) : a[i] = s[i]) /\ \A i \in 1 .. Len(t) : a[Len(s) + i] = t[i]
  BY <1>1, JoinedSeq
<1>3. Len(b) = Len(t) + Len(u) /\ (\A i \in 1 .. Len(t) : b[i] = t[i]) /\ \A i \in 1 .. Len(u) : b[Len(t) + i] = u[i]
  BY <1>1, JoinedSeq
<1>4. PICK x \in Seq(Nat), y \in Seq(Nat) : x = s \o b /\ y = a \o u
  BY JoinedSeq
<1>5. Len(x) = Len(s) + Len(b) /\ (\A i \in 1 .. Len(s) : x[i] = s[i]) /\ \A i \in 1 .. Len(b) : x[Len(s) + i] = b[i]
  BY <1>4, JoinedSeq
<1>6. Len(y) = Len(a) + Len(u) /\ (\A i \in 1 .. Len(a) : y[i] = a[i]) /\ \A i \in 1 .. Len(u) : y[Len(a) + i] = u[i]
  BY <1>4, JoinedSeq
<1>7. PICK m \in Nat, n \in Nat, k \in Nat : m = Len(s) /\ n = Len(t) /\ k = Len(u)
  OBVIOUS
<1>8. Len(x) = Len(y)
  BY <1>2, <1>3, <1>5, <1>6, <1>7
<1>9. ASSUME NEW i \in 1 .. Len(x) PROVE x[i] = y[i]
  <2>1. CASE i \in 1 .. m
    BY <1>2, <1>5, <1>6, <1>7, <2>1
  <2>2. CASE i \in m + 1 .. m + n
    <3>1. PICK j \in 1 .. n : i = m + j
      <4>1. i - m \in 1 .. n /\ i = m + (i - m)
        BY <2>2
      <4> QED BY <4>1
    <3>3. j \in 1 .. Len(b) /\ i \in 1 .. Len(a)
      BY <1>2, <1>3, <1>7, <3>1
    <3>2. x[i] = b[j] /\ y[i] = a[i] /\ b[j] = t[j] /\ a[i] = t[j]
      BY <3>3, <1>2, <1>3, <1>5, <1>6, <1>7, <3>1
    <3> QED BY <3>2
  <2>3. CASE i \in m + n + 1 .. m + n + k
    <3>1. PICK j \in 1 .. k : i = (m + n) + j
      <4>1. i - (m + n) \in 1 .. k /\ i = (m + n) + (i - (m + n))
        BY <2>3
      <4> QED BY <4>1
    <3>2. n + j \in 1 .. n + k /\ i = m + (n + j)
      BY <3>1
    <3>3. x[i] = b[n + j] /\ b[n + j] = u[j] /\ y[i] = u[j]
      BY <1>2, <1>3, <1>5, <1>6, <1>7, <3>1, <3>2
    <3> QED BY <3>3
  <2> QED BY <1>2, <1>3, <1>5, <1>7, <2>1, <2>2, <2>3
<1>10. x = y
  BY <1>8, <1>9, SameSeq
<1> QED BY <1>1, <1>4, <1>10

LEMMA JoinedNothing == ASSUME NEW s \in Seq(Nat) PROVE s \o <<>> = s
  OBVIOUS

Staged(st) == (\E S : st \in Seq(S)) /\ \A i \in 1 .. Len(st) : IsFrame(st[i].numbers)

LEMMA NumbersSeq ==
  ASSUME NEW st, Staged(st)
  PROVE /\ Numbers(st) \in Seq(Nat) /\ Len(st) \in Nat /\ DOMAIN st = 1 .. Len(st)
        /\ [i \in DOMAIN st |-> st[i].numbers] \in [1 .. Len(st) -> Seq(Nat)]
<1>1. PICK S : st \in Seq(S)
  BY DEF Staged
<1>2. Len(st) \in Nat /\ DOMAIN st = 1 .. Len(st)
  BY <1>1
<1>3. PICK parts : parts = [i \in DOMAIN st |-> st[i].numbers]
  OBVIOUS
<1>4. parts \in [1 .. Len(st) -> Seq(Nat)]
  BY <1>2, <1>3 DEF Staged, IsFrame
<1>5. FlattenSeq(parts) \in Seq(Nat)
  BY ONLY <1>2, <1>4, FlatSeq
<1> QED BY <1>2, <1>3, <1>4, <1>5 DEF Numbers

LEMMA NoStages == Staged(<<>>) /\ Numbers(<<>>) = <<>> /\ \A tag : ~Wrote(<<>>, tag)
<1>1. <<>> \in Seq({}) /\ Len(<<>>) = 0 /\ DOMAIN <<>> = {}
  OBVIOUS
<1>2. [i \in DOMAIN <<>> |-> <<>>[i].numbers] = <<>>
  BY <1>1
<1>3. FlattenSeq(<<>>) = <<>>
  BY <1>1 DEF FlattenSeq
<1> QED BY <1>1, <1>2, <1>3 DEF Staged, Numbers, Wrote

\* One stage more
MoreBy(st, u, f, more) ==
    /\ Staged(more) /\ Len(more) = Len(st) + 1
    /\ more[Len(st) + 1] = [numbers |-> u, onfail |-> f]
    /\ \A i \in 1 .. Len(st) : more[i] = st[i] /\ SubSeq(more, 1, i - 1) = SubSeq(st, 1, i - 1)
    /\ SubSeq(more, 1, Len(st)) = st
    /\ Numbers(more) = Numbers(st) \o u
    /\ \A tag : Wrote(more, tag) <=> Wrote(st, tag) \/ u[1] = tag

LEMMA StageMore ==
  ASSUME NEW st, Staged(st), NEW u, IsFrame(u), NEW f, NEW more, more = Append(st, [numbers |-> u, onfail |-> f])
  PROVE MoreBy(st, u, f, more)
<1>1. PICK x : x = [numbers |-> u, onfail |-> f]
  OBVIOUS
<1>2. x.numbers = u
  BY <1>1
<1>3. PICK T : st \in Seq(T)
  BY DEF Staged
<1>4. PICK S : S = T \union {x}
  OBVIOUS
<1>5. st \in Seq(S) /\ x \in S
  BY <1>3, <1>4, Wider
<1>6. PICK n \in Nat : n = Len(st)
  BY <1>5
<1>7. /\ more \in Seq(S) /\ Len(more) = n + 1 /\ more[n + 1] = x /\ \A i \in 1 .. n : more[i] = st[i]
      /\ DOMAIN more = 1 .. n + 1 /\ DOMAIN st = 1 .. n
  BY ONLY <1>1, <1>5, <1>6, more = Append(st, [numbers |-> u, onfail |-> f])
<1>8. \A i \in 1 .. n + 1 : i \in 1 .. n \/ i = n + 1
  OBVIOUS
<1>9. Staged(more)
  <2>1. \A i \in 1 .. n + 1 : IsFrame(more[i].numbers)
    BY <1>2, <1>6, <1>7, <1>8 DEF Staged
  <2> QED BY <1>7, <2>1 DEF Staged
<1>10. ASSUME NEW i \in 1 .. n PROVE SubSeq(more, 1, i - 1) = SubSeq(st, 1, i - 1)
  BY ONLY <1>5, <1>6, <1>7, i \in 1 .. n, n \in Nat
<1>11. SubSeq(more, 1, n) = st
  BY ONLY <1>5, <1>6, <1>7, n \in Nat
<1>12. Numbers(more) = Numbers(st) \o u
  <2>1. PICK parts : parts = [i \in DOMAIN st |-> st[i].numbers] /\ parts \in [1 .. n -> Seq(Nat)]
    BY <1>6, NumbersSeq
  <2>2. PICK all : all = [i \in DOMAIN more |-> more[i].numbers] /\ all \in [1 .. n + 1 -> Seq(Nat)]
    BY <1>7, <1>9, NumbersSeq
  <2>3. \A i \in 1 .. n : all[i] = parts[i]
    BY <1>7, <1>8, <2>1, <2>2
  <2>4. all[n + 1] = u
    BY <1>2, <1>7, <2>2
  <2>5. FlattenSeq(all) = FlattenSeq(parts) \o all[n + 1]
    BY <2>1, <2>2, <2>3, FlatJoined, Zenon
  <2> QED BY <2>1, <2>2, <2>4, <2>5 DEF Numbers
<1>13. ASSUME NEW tag PROVE Wrote(more, tag) <=> Wrote(st, tag) \/ u[1] = tag
  <2>1. Head(more[n + 1].numbers) = u[1]
    BY <1>2, <1>7 DEF IsFrame
  <2>2. n + 1 \in 1 .. n + 1 /\ \A i \in 1 .. n : i \in 1 .. n + 1
    OBVIOUS
  <2> QED BY <1>7, <1>8, <2>1, <2>2, Zenon DEF Wrote
<1> QED BY <1>1, <1>6, <1>7, <1>9, <1>10, <1>11, <1>12, <1>13, Zenon DEF MoreBy

-----------------------------------------------------------------------------
(* Calls *)

IsCall(c) == c = [enc |-> c.enc, stages |-> c.stages, ok |-> c.ok]

\* A reader of s goes on over what the call has written, and is in step with the encoder.
Good(c, s, behind, gone, e) ==
    /\ IsCall(c) /\ Sane(c.enc) /\ Staged(c.stages) /\ s \in Seq(Nat)
    /\ ReadsTo(s \o Numbers(c.stages), e) /\ Match(c.enc, e, Shift(c.stages, behind), gone)

\* What a reader has of its pool it keeps.
KeepsPool(d, e) == \A id \in DOMAIN d.pool : id \in DOMAIN e.pool /\ e.pool[id] = d.pool[id]

\* So it is with what was written when a stage failed, and what the failure has left
\* behind.  The call began when the reader was in state d.
Lost(gone, failed) ==
    IF failed.numbers[1] = TAG_STRING_POOL
    THEN gone \union {t \in DOMAIN failed.onfail.pool : failed.onfail.pool[t] = failed.numbers[3]} ELSE gone
Start(before, failed, base) == IF Wrote(before, TAG_TIMESTAMP_RESET) THEN failed.onfail.base ELSE base
FailsAt(before, failed, s, d, gone) ==
    \E e : /\ ReadsTo(s \o Numbers(before), e) /\ e.events = d.events /\ KeepsPool(d, e) /\ Sane(failed.onfail)
           /\ Match(failed.onfail, e, failed.onfail.base - Start(before, failed, d.base), Lost(gone, failed))
Partial(st, s, d, gone) == \A i \in 1 .. Len(st) : FailsAt(SubSeq(st, 1, i - 1), st[i], s, d, gone)

\* No event yet, and no new base
Quiet(c, s, d, gone, e) ==
    /\ Partial(c.stages, s, d, gone) /\ ~Wrote(c.stages, TAG_TIMESTAMP_RESET)
    /\ e.events = d.events /\ e.base = d.base /\ KeepsPool(d, e)

LEMMA ThenIs ==
  ASSUME NEW c, IsCall(c), NEW e, NEW u, NEW f, NEW c2, c2 = Then(c, e, u, f)
  PROVE IsCall(c2) /\ c2.enc = e /\ c2.ok = c.ok /\ c2.stages = Append(c.stages, [numbers |-> u, onfail |-> f])
<1>1. PICK x : x = Append(c.stages, [numbers |-> u, onfail |-> f])
  OBVIOUS
<1>2. PICK a : a = [c EXCEPT !.enc = e]
  OBVIOUS
<1>3. a = [enc |-> e, stages |-> c.stages, ok |-> c.ok]
  BY ONLY <1>2, IsCall(c) DEF IsCall
<1>4. c2 = [a EXCEPT !.stages = x]
  BY <1>1, <1>2, <1>3 DEF Then
<1>5. [a EXCEPT !.stages = x] = [enc |-> e, stages |-> x, ok |-> c.ok]
  BY ONLY <1>3
<1>6. c2 = [enc |-> e, stages |-> x, ok |-> c.ok]
  BY ONLY <1>4, <1>5
<1> QED BY ONLY <1>1, <1>6 DEF IsCall

LEMMA PartialMore ==
  ASSUME NEW st, Staged(st), NEW u, IsFrame(u), NEW f, NEW more, more = Append(st, [numbers |-> u, onfail |-> f]),
         NEW s, NEW d, NEW gone, Partial(st, s, d, gone), FailsAt(st, [numbers |-> u, onfail |-> f], s, d, gone)
  PROVE Partial(more, s, d, gone)
<1>1. PICK n \in Nat : n = Len(st)
  BY NumbersSeq
<1>2. PICK x : x = [numbers |-> u, onfail |-> f]
  OBVIOUS
<1>3. /\ Len(more) = n + 1 /\ more[n + 1] = x /\ SubSeq(more, 1, n) = st
      /\ \A i \in 1 .. n : more[i] = st[i] /\ SubSeq(more, 1, i - 1) = SubSeq(st, 1, i - 1)
  BY <1>1, <1>2, StageMore DEF MoreBy
<1>4. ASSUME NEW i \in 1 .. n + 1 PROVE FailsAt(SubSeq(more, 1, i - 1), more[i], s, d, gone)
  <2>1. CASE i \in 1 .. n
    BY <1>1, <1>3, <2>1, Zenon DEF Partial
  <2>2. CASE i = n + 1
    <3>1. i - 1 = n
      BY <2>2
    <3> QED BY <1>2, <1>3, <2>2, <3>1, Zenon
  <2>3. i \in 1 .. n \/ i = n + 1
    OBVIOUS
  <2> QED BY <2>1, <2>2, <2>3, Zenon
<1> QED BY <1>3, <1>4, Zenon DEF Partial

\* A frame u takes the call to c2 and the reader to e2.
Adds(c, s, behind, gone, u, enc2, f, c2, e2) ==
    /\ IsFrame(u) /\ Sane(enc2) /\ c2 = Then(c, enc2, u, f)
    /\ ReadsTo((s \o Numbers(c.stages)) \o u, e2)
    /\ Match(enc2, e2, IF u[1] = TAG_TIMESTAMP_RESET THEN 0 ELSE Shift(c.stages, behind), gone)
Added(c, s, behind, gone, u, enc2, f, c2, e2) ==
    /\ Good(c2, s, behind, gone, e2) /\ c2.enc = enc2 /\ c2.ok = c.ok
    /\ c2.stages = Append(c.stages, [numbers |-> u, onfail |-> f])
    /\ \A tag : Wrote(c2.stages, tag) <=> Wrote(c.stages, tag) \/ u[1] = tag

LEMMA GoodMore ==
  ASSUME NEW c, NEW s, NEW behind, NEW gone, NEW e1, Good(c, s, behind, gone, e1), NEW u, NEW enc2, NEW f, NEW c2, NEW e2,
         Adds(c, s, behind, gone, u, enc2, f, c2, e2)
  PROVE Added(c, s, behind, gone, u, enc2, f, c2, e2)
<1>0. /\ IsFrame(u) /\ Sane(enc2) /\ c2 = Then(c, enc2, u, f) /\ ReadsTo((s \o Numbers(c.stages)) \o u, e2)
      /\ Match(enc2, e2, IF u[1] = TAG_TIMESTAMP_RESET THEN 0 ELSE Shift(c.stages, behind), gone)
  BY Zenon DEF Adds
<1>1. IsCall(c) /\ Staged(c.stages) /\ s \in Seq(Nat)
  BY DEF Good
<1>2. IsCall(c2) /\ c2.enc = enc2 /\ c2.ok = c.ok /\ c2.stages = Append(c.stages, [numbers |-> u, onfail |-> f])
  BY <1>0, <1>1, ThenIs
<1>3. /\ Staged(c2.stages) /\ Numbers(c2.stages) = Numbers(c.stages) \o u
      /\ \A tag : Wrote(c2.stages, tag) <=> Wrote(c.stages, tag) \/ u[1] = tag
  <2>1. MoreBy(c.stages, u, f, c2.stages)
    BY <1>0, <1>1, <1>2, StageMore
  <2> QED BY <2>1, Zenon DEF MoreBy
<1>4. s \o Numbers(c2.stages) = (s \o Numbers(c.stages)) \o u
  <2>1. PICK t \in Seq(Nat) : t = Numbers(c.stages)
    BY <1>1, NumbersSeq
  <2>2. u \in Seq(Nat)
    BY <1>0 DEF IsFrame
  <2>3. s \o (t \o u) = (s \o t) \o u
    BY <1>1, <2>2, JoinedInTurn
  <2> QED BY <1>3, <2>1, <2>3
<1>5. Shift(c2.stages, behind) = IF u[1] = TAG_TIMESTAMP_RESET THEN 0 ELSE Shift(c.stages, behind)
  BY <1>3, Zenon DEF Shift
<1>6. Good(c2, s, behind, gone, e2)
  BY <1>0, <1>1, <1>2, <1>3, <1>4, <1>5, Zenon DEF Good
<1> QED BY <1>2, <1>3, <1>6, Zenon DEF Added

LEMMA FailsHere ==
  ASSUME NEW c, NEW s, NEW behind, NEW gone, NEW e, Good(c, s, behind, gone, e), NEW u, NEW f, Sane(f),
         NEW d, e.events = d.events, KeepsPool(d, e), NEW x, x = [numbers |-> u, onfail |-> f],
         Start(c.stages, x, d.base) = e.base, NEW k, Match(f, e, k, Lost(gone, x))
  PROVE FailsAt(c.stages, x, s, d, gone)
<1>1. x.onfail = f
  OBVIOUS
<1>2. k = f.base - e.base
  BY ONLY Match(f, e, k, Lost(gone, x)), Sane(f) DEF Match, Sane
<1> QED BY <1>1, <1>2, Zenon DEF FailsAt, Good

\* The call goes on from c to c2; when it has written no event and no base yet, it has not
\* afterwards.
Goes(c, s, behind, gone, e, c2) ==
    \E e2 : /\ Good(c2, s, behind, gone, e2) /\ e2.events = e.events
            /\ Shift(c2.stages, behind) = Shift(c.stages, behind)
            /\ \A d : Quiet(c, s, d, gone, e) => Quiet(c2, s, d, gone, e2)

\* What an encoder has it keeps, and it leaves no gaps.
Onward(a, b) ==
    /\ Gapless(a) => Gapless(b)
    /\ DOMAIN a.pool \subseteq DOMAIN b.pool /\ \A t \in DOMAIN a.pool : b.pool[t] = a.pool[t]

\* A frame that is neither a base nor an event
Sets(c, s, behind, gone, e, u, enc2, f, c2, e2) ==
    /\ Adds(c, s, behind, gone, u, enc2, f, c2, e2) /\ u[1] # TAG_TIMESTAMP_RESET
    /\ e2.events = e.events /\ e2.base = e.base /\ KeepsPool(e, e2)
    /\ Sane(f) /\ Match(f, e, Shift(c.stages, behind), Lost(gone, [numbers |-> u, onfail |-> f]))

LEMMA StageGoes ==
  ASSUME NEW c, NEW s, NEW behind, NEW gone, NEW e, Good(c, s, behind, gone, e), NEW u, NEW enc2, NEW f, NEW c2, NEW e2,
         Sets(c, s, behind, gone, e, u, enc2, f, c2, e2)
  PROVE Goes(c, s, behind, gone, e, c2) /\ c2.enc = enc2 /\ c2.ok = c.ok
<1>0. PICK x : x = [numbers |-> u, onfail |-> f]
  OBVIOUS
<1>1. /\ Adds(c, s, behind, gone, u, enc2, f, c2, e2) /\ u[1] # TAG_TIMESTAMP_RESET
      /\ e2.events = e.events /\ e2.base = e.base /\ KeepsPool(e, e2)
      /\ Sane(f) /\ Match(f, e, Shift(c.stages, behind), Lost(gone, x))
  BY <1>0, Zenon DEF Sets
<1>2. /\ Good(c2, s, behind, gone, e2) /\ c2.enc = enc2 /\ c2.ok = c.ok
      /\ c2.stages = Append(c.stages, [numbers |-> u, onfail |-> f])
      /\ \A tag : Wrote(c2.stages, tag) <=> Wrote(c.stages, tag) \/ u[1] = tag
  <2>1. Added(c, s, behind, gone, u, enc2, f, c2, e2)
    BY <1>1, GoodMore, Zenon
  <2> QED BY <2>1, Zenon DEF Added
<1>3. Shift(c2.stages, behind) = Shift(c.stages, behind)
  BY <1>1, <1>2, Zenon DEF Shift
<1>4. ASSUME NEW d, Quiet(c, s, d, gone, e) PROVE Quiet(c2, s, d, gone, e2)
  <2>1. /\ Partial(c.stages, s, d, gone) /\ ~Wrote(c.stages, TAG_TIMESTAMP_RESET)
        /\ e.events = d.events /\ e.base = d.base /\ KeepsPool(d, e)
    BY <1>4, Zenon DEF Quiet
  <2>2. Start(c.stages, x, d.base) = e.base
    BY <2>1, Zenon DEF Start
  <2>3. FailsAt(c.stages, x, s, d, gone)
    BY <1>0, <1>1, <2>1, <2>2, FailsHere, Zenon
  <2>4. Staged(c.stages)
    BY Zenon DEF Good
  <2>5. Partial(c2.stages, s, d, gone)
    <3>1. IsFrame(u)
      BY <1>1, Zenon DEF Adds
    <3> QED BY <1>0, <1>2, <2>1, <2>3, <2>4, <3>1, PartialMore, Zenon
  <2>6. KeepsPool(d, e2)
    BY <1>1, <2>1, Zenon DEF KeepsPool
  <2> QED BY <1>1, <1>2, <2>1, <2>5, <2>6, Zenon DEF Quiet
<1> QED BY <1>1, <1>2, <1>3, <1>4, Zenon DEF Goes

LEMMA StillGood ==
  ASSUME NEW c, NEW s, NEW behind, NEW gone, NEW e, Good(c, s, behind, gone, e), NEW c2, IsCall(c2),
         c2.enc = c.enc, c2.stages = c.stages
  PROVE Goes(c, s, behind, gone, e, c2)
<1>1. Good(c2, s, behind, gone, e)
  BY Zenon DEF Good
<1>2. \A d : Quiet(c, s, d, gone, e) => Quiet(c2, s, d, gone, e)
  BY Zenon DEF Quiet
<1> QED BY <1>1, <1>2, Zenon DEF Goes

LEMMA OnwardSame == ASSUME NEW a, NEW b, b.reg = a.reg, b.next_id = a.next_id, b.pool = a.pool, b.next_pool_id = a.next_pool_id
                    PROVE Onward(a, b)
  BY DEF Onward, Gapless

RegisteredAs(c, s, behind, gone, e, name, entry, c2) ==
    /\ Goes(c, s, behind, gone, e, c2) /\ Onward(c.enc, c2.enc)
    /\ c2.enc.types = c.enc.types /\ c2.enc.pool = c.enc.pool /\ c2.enc.base = c.enc.base
    /\ c2.ok => name \in DOMAIN c2.enc.names /\ c2.enc.reg[c2.enc.names[name]] = entry

LEMMA Registered ==
  ASSUME NEW c, NEW s, NEW behind, NEW gone, NEW e, Good(c, s, behind, gone, e),
         NEW name \in Nat, NEW fields \in Seq(FieldTypes), NEW entry, entry = Entry(name, fields),
         NEW c2, c2 = ensure_registered(c, entry)
  PROVE RegisteredAs(c, s, behind, gone, e, name, entry, c2)
<1>1. entry.name = name
  BY EntryIs
<1>2. IsCall(c) /\ Sane(c.enc) /\ Match(c.enc, e, Shift(c.stages, behind), gone)
  BY Zenon DEF Good
<1>3. CASE name \in DOMAIN c.enc.names
  <2>1. PICK ok : ok = (c.ok /\ c.enc.reg[c.enc.names[name]] = entry)
    OBVIOUS
  <2>2. c2 = [c EXCEPT !.ok = ok]
    BY <1>1, <1>3, <2>1, Zenon DEF ensure_registered
  <2>3. c2 = [enc |-> c.enc, stages |-> c.stages, ok |-> ok]
    BY ONLY <1>2, <2>2 DEF IsCall
  <2>4. IsCall(c2) /\ c2.enc = c.enc /\ c2.stages = c.stages /\ c2.ok = ok
    BY ONLY <2>3 DEF IsCall
  <2>5. Goes(c, s, behind, gone, e, c2)
    BY <2>4, StillGood, Zenon
  <2>6. Onward(c.enc, c2.enc)
    BY <2>4, OnwardSame, Zenon
  <2> QED BY <1>3, <2>1, <2>4, <2>5, <2>6, Zenon DEF RegisteredAs
<1>4. CASE name \notin DOMAIN c.enc.names
  <2>1. PICK taken, done : NewSchema(c.enc, entry, taken, done)
    BY Zenon DEF NewSchema
  <2>3. PICK id : id = c.enc.next_id
    OBVIOUS
  <2>4. PICK u : u = encode_schema(id, entry)
    OBVIOUS
  <2>5. c2 = Then(c, done, u, taken)
    BY ONLY <1>1, <1>4, <2>1, <2>3, <2>4, c2 = ensure_registered(c, entry) DEF ensure_registered, NewSchema
  <2>6. Sane(taken) /\ \A d, b, g : Match(c.enc, d, b, g) => Match(taken, d, b, g)
    <3>1. taken = [c.enc EXCEPT !.next_id = @ + 1]
      BY <2>1, Zenon DEF NewSchema
    <3> QED BY ONLY <1>2, <3>1, SchemaTaken
  <2>7. SchemaGiven(c.enc, name, id, entry, done)
    BY <1>2, <1>4, <2>1, <2>3, SchemaDone, Zenon
  <2>8. /\ Sane(done) /\ done.types = c.enc.types /\ done.pool = c.enc.pool /\ done.base = c.enc.base
        /\ name \in DOMAIN done.names /\ done.reg[done.names[name]] = entry
        /\ Gapless(c.enc) => Gapless(done)
        /\ id \in Nat /\ id \notin DOMAIN c.enc.reg
        /\ \A d, b, g, n : Match(c.enc, d, b, g) => Match(done, WithSchema(d, n, id, entry), b, g)
    BY <2>7, Zenon DEF SchemaGiven
  <2>9. ReadsTo(s \o Numbers(c.stages), e) /\ id \notin DOMAIN e.reg
    BY <1>2, <2>8, Zenon DEF Good, Match
  <2>10. PICK e2 : e2 = WithSchema(e, Len(u), id, entry)
    OBVIOUS
  <2>11. IsFrame(u) /\ u[1] = TAG_SCHEMA /\ ReadsTo((s \o Numbers(c.stages)) \o u, e2)
    BY <2>4, <2>8, <2>9, <2>10, SchemaFrame
  <2>12. e2.events = e.events /\ e2.base = e.base /\ KeepsPool(e, e2)
    BY <2>10 DEF WithSchema, Decoder, KeepsPool
  <2>13. PICK x : x = [numbers |-> u, onfail |-> taken]
    OBVIOUS
  <2>14. Lost(gone, x) = gone
    <3>1. x.numbers = u
      BY <2>13
    <3> QED BY <2>11, <3>1, Tags, Zenon DEF Lost
  <2>15. Match(taken, e, Shift(c.stages, behind), Lost(gone, x)) /\ Match(done, e2, Shift(c.stages, behind), gone)
    BY <1>2, <2>6, <2>8, <2>10, <2>14, Zenon
  <2>16. u[1] # TAG_TIMESTAMP_RESET
    BY <2>11, Tags
  <2>17. Goes(c, s, behind, gone, e, c2) /\ c2.enc = done
    <3>1. Match(done, e2, IF u[1] = TAG_TIMESTAMP_RESET THEN 0 ELSE Shift(c.stages, behind), gone)
      BY <2>15, <2>16, Zenon
    <3>2. Adds(c, s, behind, gone, u, done, taken, c2, e2)
      BY <2>5, <2>8, <2>11, <3>1, Zenon DEF Adds
    <3>3. Sets(c, s, behind, gone, e, u, done, taken, c2, e2)
      BY <2>6, <2>12, <2>13, <2>15, <2>16, <3>2, Zenon DEF Sets
    <3> QED BY ONLY <3>3, Good(c, s, behind, gone, e), StageGoes
  <2>18. Onward(c.enc, done)
    BY <2>8, Zenon DEF Onward
  <2> QED BY <2>8, <2>17, <2>18, Zenon DEF RegisteredAs
<1> QED BY <1>3, <1>4, Zenon

LEMMA GoesOn ==
  ASSUME NEW c, NEW s, NEW behind, NEW gone, NEW e, NEW c2, Goes(c, s, behind, gone, e, c2), NEW c3,
         \A e2 : Good(c2, s, behind, gone, e2) => Goes(c2, s, behind, gone, e2, c3)
  PROVE Goes(c, s, behind, gone, e, c3)
<1>1. PICK e2 : /\ Good(c2, s, behind, gone, e2) /\ e2.events = e.events
                /\ Shift(c2.stages, behind) = Shift(c.stages, behind)
                /\ \A d : Quiet(c, s, d, gone, e) => Quiet(c2, s, d, gone, e2)
  BY Zenon DEF Goes
<1>2. Goes(c2, s, behind, gone, e2, c3)
  BY <1>1
<1>3. PICK e3 : /\ Good(c3, s, behind, gone, e3) /\ e3.events = e2.events
                /\ Shift(c3.stages, behind) = Shift(c2.stages, behind)
                /\ \A d : Quiet(c2, s, d, gone, e2) => Quiet(c3, s, d, gone, e3)
  BY <1>2, Zenon DEF Goes
<1>4. e3.events = e.events /\ Shift(c3.stages, behind) = Shift(c.stages, behind)
  BY <1>1, <1>3, Zenon
<1>5. \A d : Quiet(c, s, d, gone, e) => Quiet(c3, s, d, gone, e3)
  BY <1>1, <1>3, Zenon
<1> QED BY <1>3, <1>4, <1>5, Zenon DEF Goes

LEMMA OnwardOn ==
  ASSUME NEW a, NEW b, Onward(a, b), NEW c, Onward(b, c)
  PROVE Onward(a, c)
<1>1. Gapless(a) => Gapless(c)
  BY Zenon DEF Onward
<1>2. DOMAIN a.pool \subseteq DOMAIN c.pool
  BY Zenon DEF Onward
<1>3. ASSUME NEW t \in DOMAIN a.pool PROVE c.pool[t] = a.pool[t]
  <2>1. t \in DOMAIN b.pool
    BY Zenon DEF Onward
  <2>2. b.pool[t] = a.pool[t]
    BY Zenon DEF Onward
  <2>3. c.pool[t] = b.pool[t]
    BY <2>1, Zenon DEF Onward
  <2> QED BY <2>2, <2>3
<1> QED BY <1>1, <1>2, <1>3, Zenon DEF Onward

\* c2 differs from c in its strings only.
Apart(c, c2) ==
    /\ c2.enc.names = c.enc.names /\ c2.enc.types = c.enc.types /\ c2.enc.reg = c.enc.reg
    /\ c2.enc.base = c.enc.base /\ c2.ok = c.ok

LEMMA InternedOne ==
  ASSUME NEW c, NEW s, NEW behind, NEW gone, NEW e, Good(c, s, behind, gone, e), NEW text \in Texts,
         NEW c2, c2 = intern_string(c, text)
  PROVE /\ Goes(c, s, behind, gone, e, c2) /\ Onward(c.enc, c2.enc) /\ Apart(c, c2)
        /\ text \in DOMAIN c2.enc.pool
<1>1. IsCall(c) /\ Sane(c.enc) /\ Match(c.enc, e, Shift(c.stages, behind), gone)
  BY Zenon DEF Good
<1>2. CASE text \in DOMAIN c.enc.pool
  <2>1. c2 = c
    BY <1>2, Zenon DEF intern_string
  <2>2. Goes(c, s, behind, gone, e, c)
    BY <1>1, StillGood, Zenon
  <2>3. Onward(c.enc, c.enc)
    BY OnwardSame, Zenon
  <2> QED BY <1>2, <2>1, <2>2, <2>3, Zenon DEF Apart
<1>3. CASE text \notin DOMAIN c.enc.pool
  <2>1. PICK done : NewString(c.enc, text, done)
    BY Zenon DEF NewString
  <2>2. PICK id : id = c.enc.next_pool_id
    OBVIOUS
  <2>3. PICK u : u = encode_string_pool(id, text)
    OBVIOUS
  <2>4. c2 = Then(c, done, u, done)
    BY ONLY <1>3, <2>1, <2>2, <2>3, c2 = intern_string(c, text) DEF intern_string, NewString
  <2>5. StringGiven(c.enc, text, id, done)
    BY <1>1, <1>3, <2>1, <2>2, StringDone, Zenon
  <2>6. /\ Sane(done) /\ done.names = c.enc.names /\ done.types = c.enc.types /\ done.reg = c.enc.reg
        /\ done.base = c.enc.base /\ DOMAIN done.pool = DOMAIN c.enc.pool \union {text}
        /\ \A t \in DOMAIN c.enc.pool : done.pool[t] = c.enc.pool[t]
        /\ Gapless(c.enc) => Gapless(done)
        /\ id \in Nat /\ {t \in DOMAIN done.pool : done.pool[t] = id} = {text}
        /\ \A d, b, g, n : Match(c.enc, d, b, g) =>
              Match(done, WithString(d, n, id, text), b, g) /\ Match(done, d, b, g \union {text})
    BY <2>5, Zenon DEF StringGiven
  <2>7. ReadsTo(s \o Numbers(c.stages), e)
    BY Zenon DEF Good
  <2>8. PICK e2 : e2 = WithString(e, Len(u), id, text)
    OBVIOUS
  <2>9. IsFrame(u) /\ u[1] = TAG_STRING_POOL /\ u[3] = id /\ ReadsTo((s \o Numbers(c.stages)) \o u, e2)
    BY <2>3, <2>6, <2>7, <2>8, PoolFrame
  <2>10. e2.events = e.events /\ e2.base = e.base /\ KeepsPool(e, e2)
    <3>1. id \notin DOMAIN e.pool
      <4>1. DOMAIN e.pool = {c.enc.pool[t] : t \in DOMAIN c.enc.pool \ gone}
        BY <1>1, Zenon DEF Match
      <4>2. \A t \in DOMAIN c.enc.pool : c.enc.pool[t] # id
        <5>1. PoolFits(c.enc)
          BY <1>1, Zenon DEF Sane
        <5> QED BY <2>2, <2>6, <5>1 DEF PoolFits
      <4> QED BY <4>1, <4>2
    <3>2. e2.events = e.events /\ e2.base = e.base /\ e2.pool = Put(e.pool, id, text)
      BY <2>8 DEF WithString, Decoder
    <3> QED BY <3>1, <3>2 DEF KeepsPool, Put
  <2>11. PICK x : x = [numbers |-> u, onfail |-> done]
    OBVIOUS
  <2>12. Lost(gone, x) = gone \union {text}
    <3>1. x.numbers = u /\ x.onfail = done
      BY <2>11
    <3> QED BY <2>6, <2>9, <3>1 DEF Lost
  <2>13. Match(done, e, Shift(c.stages, behind), Lost(gone, x)) /\ Match(done, e2, Shift(c.stages, behind), gone)
    <3>1. /\ Match(done, WithString(e, Len(u), id, text), Shift(c.stages, behind), gone)
          /\ Match(done, e, Shift(c.stages, behind), gone \union {text})
      BY <1>1, <2>6
    <3> QED BY ONLY <2>8, <2>12, <3>1
  <2>14. u[1] # TAG_TIMESTAMP_RESET
    BY <2>9, Tags
  <2>15. Goes(c, s, behind, gone, e, c2) /\ c2.enc = done /\ c2.ok = c.ok
    <3>1. Match(done, e2, IF u[1] = TAG_TIMESTAMP_RESET THEN 0 ELSE Shift(c.stages, behind), gone)
      BY <2>13, <2>14, Zenon
    <3>2. Adds(c, s, behind, gone, u, done, done, c2, e2)
      BY <2>4, <2>6, <2>9, <3>1, Zenon DEF Adds
    <3>3. Sets(c, s, behind, gone, e, u, done, done, c2, e2)
      BY <2>6, <2>10, <2>11, <2>13, <2>14, <3>2, Zenon DEF Sets
    <3> QED BY ONLY <3>3, Good(c, s, behind, gone, e), StageGoes
  <2>16. Onward(c.enc, done)
    BY <2>6, Zenon DEF Onward
  <2>17. text \in DOMAIN done.pool
    BY <2>6
  <2> QED BY <2>6, <2>15, <2>16, <2>17, Zenon DEF Apart
<1> QED BY <1>2, <1>3, Zenon

\* The strings of an event one by one
Interns(c, fields, values, n, h) ==
    h = [i \in 0 .. n |-> IF i = 0 THEN c
                          ELSE IF fields[i] = PooledString THEN intern_string(h[i - 1], values[i]) ELSE h[i - 1]]
InternedTo(c, s, behind, gone, e, fields, values, m, c2) ==
    /\ Goes(c, s, behind, gone, e, c2) /\ Onward(c.enc, c2.enc) /\ Apart(c, c2)
    /\ \A i \in 1 .. m : fields[i] = PooledString => values[i] \in DOMAIN c2.enc.pool

LEMMA InternsAgree ==
  ASSUME NEW c, NEW fields, NEW values, NEW n \in Nat, NEW h, Interns(c, fields, values, n, h),
         NEW k, Interns(c, fields, values, n, k)
  PROVE h = k
<1>1. h[0] = k[0]
  BY DEF Interns
<1>2. \A i \in 1 .. n : h[i - 1] = k[i - 1] => h[i] = k[i]
  BY DEF Interns
<1>3. \A i \in 0 .. n : h[i] = k[i]
  BY <1>1, <1>2, SameSteps
<1> QED BY <1>3, Zenon DEF Interns

LEMMA InternedNext ==
  ASSUME NEW c, NEW s, NEW behind, NEW gone, NEW e, Good(c, s, behind, gone, e), NEW fields, NEW values,
         NEW m \in Nat \ {0}, fields[m] = PooledString => values[m] \in Texts,
         NEW b, InternedTo(c, s, behind, gone, e, fields, values, m - 1, b),
         NEW c2, c2 = IF fields[m] = PooledString THEN intern_string(b, values[m]) ELSE b
  PROVE InternedTo(c, s, behind, gone, e, fields, values, m, c2)
<1>1. Goes(c, s, behind, gone, e, b) /\ Onward(c.enc, b.enc) /\ Apart(c, b)
  BY Zenon DEF InternedTo
<1>2. \A i \in 1 .. m : i \in 1 .. m - 1 \/ i = m
  OBVIOUS
<1>3. CASE fields[m] # PooledString
  <2>1. \A i \in 1 .. m : fields[i] = PooledString => values[i] \in DOMAIN b.enc.pool
    BY <1>2, <1>3, Zenon DEF InternedTo
  <2> QED BY <1>1, <1>3, <2>1, Zenon DEF InternedTo
<1>4. CASE fields[m] = PooledString
  <2>1. PICK text \in Texts : text = values[m]
    BY <1>4
  <2>2. c2 = intern_string(b, text)
    BY <1>4, <2>1
  <2>3. \A e2 : Good(b, s, behind, gone, e2) =>
                  /\ Goes(b, s, behind, gone, e2, c2) /\ Onward(b.enc, c2.enc) /\ Apart(b, c2)
                  /\ text \in DOMAIN c2.enc.pool
    BY <2>2, InternedOne, Zenon
  <2>4. PICK e2 : Good(b, s, behind, gone, e2)
    BY <1>1, Zenon DEF Goes
  <2>5. Goes(c, s, behind, gone, e, c2)
    BY <1>1, <2>3, GoesOn
  <2>6. Onward(b.enc, c2.enc) /\ Apart(b, c2) /\ text \in DOMAIN c2.enc.pool
    BY <2>3, <2>4, Zenon
  <2>7. Onward(c.enc, c2.enc)
    BY <1>1, <2>6, OnwardOn, Zenon
  <2>8. Apart(c, c2)
    BY <1>1, <2>6, Zenon DEF Apart
  <2>9. ASSUME NEW i \in 1 .. m, fields[i] = PooledString PROVE values[i] \in DOMAIN c2.enc.pool
    <3>1. CASE i = m
      BY <2>1, <2>6, <3>1
    <3>2. CASE i \in 1 .. m - 1
      <4>1. values[i] \in DOMAIN b.enc.pool
        BY <2>9, <3>2, Zenon DEF InternedTo
      <4> QED BY <2>6, <4>1, Zenon DEF Onward
    <3> QED BY <1>2, <3>1, <3>2
  <2> QED BY <2>5, <2>7, <2>8, <2>9, Zenon DEF InternedTo
<1> QED BY <1>3, <1>4

LEMMA AllInterned ==
  ASSUME NEW c, NEW s, NEW behind, NEW gone, NEW e, Good(c, s, behind, gone, e), NEW fields, NEW values, NEW n \in Nat,
         Len(values) = n, \A i \in 1 .. n : fields[i] = PooledString => values[i] \in Texts,
         NEW c2, c2 = Interned(c, fields, values)
  PROVE InternedTo(c, s, behind, gone, e, fields, values, n, c2)
<1> DEFINE Reached(m) == \E h : Interns(c, fields, values, m, h) /\ InternedTo(c, s, behind, gone, e, fields, values, m, h[m])
           T == {m \in Nat : m <= n /\ ~Reached(m)}
<1>1. T = {}
  <2> SUFFICES ASSUME T # {} PROVE FALSE
    OBVIOUS
  <2>1. PICK m \in T : \A y \in T : m <= y
    BY LeastNat, T \subseteq Nat
  <2>2. CASE m = 0
    <3>1. PICK h : h = [i \in 0 .. 0 |-> c]
      OBVIOUS
    <3>2. Interns(c, fields, values, 0, h)
      BY <3>1 DEF Interns
    <3>3. h[0] = c
      BY <3>1
    <3>4. Goes(c, s, behind, gone, e, c)
      BY StillGood, Zenon DEF Good
    <3>5. Onward(c.enc, c.enc) /\ Apart(c, c)
      BY OnwardSame, Zenon DEF Apart
    <3>6. \A i \in 1 .. 0 : FALSE
      OBVIOUS
    <3>7. InternedTo(c, s, behind, gone, e, fields, values, 0, c)
      BY <3>4, <3>5, <3>6, Zenon DEF InternedTo
    <3> QED BY <2>1, <2>2, <3>2, <3>3, <3>7
  <2>3. CASE m # 0
    <3>1. m - 1 \in Nat /\ ~(m <= m - 1) /\ m - 1 <= n /\ m \in 1 .. n /\ m \in Nat \ {0}
      BY <2>1, <2>3
    <3>2. Reached(m - 1)
      BY <2>1, <3>1
    <3>3. PICK f : Interns(c, fields, values, m - 1, f) /\ InternedTo(c, s, behind, gone, e, fields, values, m - 1, f[m - 1])
      BY <3>2
    <3>4. PICK b : b = f[m - 1]
      OBVIOUS
    <3>5. PICK x : x = IF fields[m] = PooledString THEN intern_string(b, values[m]) ELSE b
      OBVIOUS
    <3>6. InternedTo(c, s, behind, gone, e, fields, values, m, x)
      <4>1. InternedTo(c, s, behind, gone, e, fields, values, m - 1, b)
        BY <3>3, <3>4
      <4>2. fields[m] = PooledString => values[m] \in Texts
        BY <3>1
      <4> QED BY <3>1, <3>5, <4>1, <4>2, InternedNext, Zenon
    <3>7. PICK g : g = [i \in 0 .. m |-> IF i = m THEN x ELSE f[i]]
      OBVIOUS
    <3>8. g[m] = x
      BY <3>7, <3>1
    <3>9. Interns(c, fields, values, m, g)
      <4>1. ASSUME NEW i \in 0 .. m
            PROVE g[i] = IF i = 0 THEN c
                         ELSE IF fields[i] = PooledString THEN intern_string(g[i - 1], values[i]) ELSE g[i - 1]
        <5>1. CASE i = m
          <6>1. m - 1 \in 0 .. m /\ m - 1 # m
            BY <3>1
          <6>2. g[m - 1] = b
            BY <3>4, <3>7, <6>1
          <6> QED BY <2>3, <3>5, <3>8, <5>1, <6>2
        <5>2. CASE i = 0
          <6>1. 0 \in 0 .. m - 1 /\ 0 \in 0 .. m /\ 0 # m
            BY <3>1
          <6>2. g[0] = f[0] /\ f[0] = c
            BY <3>3, <3>7, <6>1, Zenon DEF Interns
          <6> QED BY <5>2, <6>2
        <5>3. CASE i # m /\ i # 0
          <6>1. i \in 0 .. m - 1 /\ i - 1 \in 0 .. m /\ i - 1 # m
            BY <3>1, <5>3
          <6>2. g[i] = f[i] /\ g[i - 1] = f[i - 1]
            BY <3>7, <5>3, <6>1
          <6>3. f[i] = IF i = 0 THEN c
                       ELSE IF fields[i] = PooledString THEN intern_string(f[i - 1], values[i]) ELSE f[i - 1]
            BY <3>3, <6>1, Zenon DEF Interns
          <6> QED BY <6>2, <6>3, Zenon
        <5> QED BY <5>1, <5>2, <5>3
      <4>2. g = [i \in 0 .. m |-> g[i]]
        BY <3>7
      <4> QED BY <4>1, <4>2, Zenon DEF Interns
    <3> QED BY <2>1, <3>6, <3>8, <3>9, Zenon
  <2> QED BY <2>2, <2>3
<1>2. PICK h : Interns(c, fields, values, n, h) /\ InternedTo(c, s, behind, gone, e, fields, values, n, h[n])
  <2>1. n <= n
    OBVIOUS
  <2> QED BY <1>1, <2>1
<1> DEFINE k == CHOOSE f : Interns(c, fields, values, n, f)
<1>3. Interns(c, fields, values, n, k)
  BY <1>2, Zenon
<1>4. k = h
  BY <1>2, <1>3, InternsAgree, Zenon
<1>5. Interned(c, fields, values) = k[n]
  BY Zenon DEF Interned, Loop, Interns
<1> HIDE DEF k
<1> QED BY <1>2, <1>4, <1>5

\* A type of its own
GivesType(e, name, types, done) == types = Put(e.types, name, e.names[name]) /\ done = [e EXCEPT !.types = types]
TypeIs(e, name, done) ==
    /\ Sane(done) /\ done.names = e.names /\ done.reg = e.reg /\ done.pool = e.pool /\ done.base = e.base
    /\ done.next_id = e.next_id /\ done.next_pool_id = e.next_pool_id
    /\ name \in DOMAIN done.types /\ done.types[name] = e.names[name]
    /\ \A d, behind, gone : Match(e, d, behind, gone) => Match(done, d, behind, gone)

LEMMA TypeGiven ==
  ASSUME NEW e, Sane(e), NEW name, name \in DOMAIN e.names, e.reg[e.names[name]] = Entry(name, field_defs(name)),
         NEW types, NEW done, GivesType(e, name, types, done)
  PROVE TypeIs(e, name, done)
<1>0. types = Put(e.types, name, e.names[name]) /\ done = [e EXCEPT !.types = types]
  BY Zenon DEF GivesType
<1>1. done = Encoder(e.names, types, e.reg, e.next_id, e.pool, e.next_pool_id, e.base)
  BY <1>0 DEF Sane, Encoder
<1>2. /\ done.names = e.names /\ done.types = types /\ done.reg = e.reg /\ done.next_id = e.next_id
      /\ done.pool = e.pool /\ done.next_pool_id = e.next_pool_id /\ done.base = e.base
  BY ONLY <1>1, EncoderIs
<1>3. DOMAIN types = DOMAIN e.types \union {name} /\ types[name] = e.names[name] /\ Keyed(types)
      /\ \A t \in DOMAIN e.types : t # name => types[t] = e.types[t]
  BY ONLY <1>0 DEF Put, Keyed
<1>4. NamesFit(done) /\ RegFits(done) /\ PoolFits(done) /\ PoolApart(done)
  BY ONLY <1>2, Sane(e) DEF Sane, NamesFit, RegFits, PoolFits, PoolApart
<1>5. TypesFit(done)
  <2>1. ASSUME NEW t \in DOMAIN types
        PROVE t \in DOMAIN e.names /\ types[t] = e.names[t] /\ e.reg[types[t]] = Entry(t, field_defs(t))
    <3>1. CASE t = name
      BY <1>3, <3>1
    <3>2. CASE t # name
      <4>1. t \in DOMAIN e.types /\ types[t] = e.types[t]
        BY <1>3, <3>2
      <4> QED BY <4>1, Zenon DEF Sane, TypesFit
    <3> QED BY <3>1, <3>2
  <2> QED BY ONLY <1>2, <2>1 DEF TypesFit
<1>6. done = Encoder(done.names, done.types, done.reg, done.next_id, done.pool, done.next_pool_id, done.base)
  BY ONLY <1>1, EncoderIs
<1>7. Sane(done)
  <2>1. done.next_id \in Nat /\ done.next_pool_id \in Nat /\ done.base \in 0 .. Width - 1
        /\ Keyed(done.names) /\ Keyed(done.types) /\ Keyed(done.reg) /\ Keyed(done.pool)
    BY ONLY <1>2, <1>3, Sane(e) DEF Sane
  <2> QED BY <1>4, <1>5, <1>6, <2>1, Zenon DEF Sane
<1>8. \A d, behind, gone : Match(e, d, behind, gone) => Match(done, d, behind, gone)
  BY ONLY <1>2 DEF Match
<1> QED BY <1>2, <1>3, <1>7, <1>8, Zenon DEF TypeIs

LEMMA GoodStill ==
  ASSUME NEW c, NEW s, NEW behind, NEW gone, NEW e, Good(c, s, behind, gone, e), NEW c2, IsCall(c2),
         Sane(c2.enc), \A d, k, g : Match(c.enc, d, k, g) => Match(c2.enc, d, k, g), c2.stages = c.stages
  PROVE Goes(c, s, behind, gone, e, c2)
<1>1. Good(c2, s, behind, gone, e)
  BY Zenon DEF Good
<1>2. \A d : Quiet(c, s, d, gone, e) => Quiet(c2, s, d, gone, e)
  BY Zenon DEF Quiet
<1> QED BY <1>1, <1>2, Zenon DEF Goes

\* What the type of an event says of its schema
HasSchema(e, name, fields) ==
    name \in DOMAIN e.types /\ e.types[name] \in DOMAIN e.reg /\ e.reg[e.types[name]] = Entry(name, fields)

LEMMA TypedIs ==
  ASSUME NEW c, NEW s, NEW behind, NEW gone, NEW e, Good(c, s, behind, gone, e), NEW name \in Nat,
         field_defs(name) \in Seq(FieldTypes), NEW c2, c2 = Typed(c, name)
  PROVE /\ Goes(c, s, behind, gone, e, c2) /\ Onward(c.enc, c2.enc)
        /\ c2.enc.pool = c.enc.pool
        /\ c2.ok => HasSchema(c2.enc, name, field_defs(name))
<1>1. IsCall(c) /\ Sane(c.enc)
  BY Zenon DEF Good
<1>2. CASE name \in DOMAIN c.enc.types
  <2>1. c2 = c
    BY <1>2, Zenon DEF Typed
  <2>2. Goes(c, s, behind, gone, e, c)
    BY <1>1, StillGood, Zenon
  <2>3. Onward(c.enc, c.enc)
    BY OnwardSame, Zenon
  <2>4. HasSchema(c.enc, name, field_defs(name))
    BY <1>1, <1>2, Zenon DEF HasSchema, Sane, TypesFit, NamesFit
  <2> QED BY <2>1, <2>2, <2>3, <2>4, Zenon
<1>3. CASE name \notin DOMAIN c.enc.types
  <2>1. PICK fields \in Seq(FieldTypes) : fields = field_defs(name)
    OBVIOUS
  <2>2. PICK entry : entry = Entry(name, fields)
    OBVIOUS
  <2>3. PICK m : m = ensure_registered(c, entry)
    OBVIOUS
  <2>4. /\ Goes(c, s, behind, gone, e, m) /\ Onward(c.enc, m.enc) /\ m.enc.pool = c.enc.pool
        /\ m.ok => name \in DOMAIN m.enc.names /\ m.enc.reg[m.enc.names[name]] = entry
    <3>1. RegisteredAs(c, s, behind, gone, e, name, entry, m)
      BY <2>2, <2>3, Registered
    <3> QED BY <3>1, Zenon DEF RegisteredAs
  <2>5. CASE ~m.ok
    <3>1. c2 = m
      BY <1>3, <2>1, <2>2, <2>3, <2>5, Zenon DEF Typed
    <3> QED BY <2>4, <2>5, <3>1, Zenon
  <2>6. CASE m.ok
    <3>1. PICK em : Good(m, s, behind, gone, em)
      BY <2>4, Zenon DEF Goes
    <3>2. IsCall(m) /\ Sane(m.enc)
      BY <3>1, Zenon DEF Good
    <3>3. PICK types : types = Put(m.enc.types, name, m.enc.names[name])
      OBVIOUS
    <3>4. PICK done : done = [m.enc EXCEPT !.types = types]
      OBVIOUS
    <3>5. c2 = [m EXCEPT !.enc.types = types]
      BY <1>3, <2>1, <2>2, <2>3, <2>6, <3>3 DEF Typed
    <3>6. c2 = [enc |-> done, stages |-> m.stages, ok |-> m.ok]
      BY ONLY <3>2, <3>4, <3>5 DEF IsCall
    <3>7. IsCall(c2) /\ c2.enc = done /\ c2.stages = m.stages
      BY ONLY <3>6 DEF IsCall
    <3>8. /\ Sane(done) /\ done.names = m.enc.names /\ done.reg = m.enc.reg /\ done.pool = m.enc.pool
          /\ done.next_id = m.enc.next_id /\ done.next_pool_id = m.enc.next_pool_id
          /\ name \in DOMAIN done.types /\ done.types[name] = m.enc.names[name]
          /\ \A d, k, g : Match(m.enc, d, k, g) => Match(done, d, k, g)
      <4>1. GivesType(m.enc, name, types, done)
        BY <3>3, <3>4, Zenon DEF GivesType
      <4>2. name \in DOMAIN m.enc.names /\ m.enc.reg[m.enc.names[name]] = Entry(name, field_defs(name))
        BY <2>1, <2>2, <2>4, <2>6
      <4>3. TypeIs(m.enc, name, done)
        BY <3>2, <4>1, <4>2, TypeGiven, Zenon
      <4> QED BY <4>3, Zenon DEF TypeIs
    <3>9. \A e2 : Good(m, s, behind, gone, e2) => Goes(m, s, behind, gone, e2, c2)
      BY <3>7, <3>8, GoodStill
    <3>10. Goes(c, s, behind, gone, e, c2)
      BY <2>4, <3>9, GoesOn
    <3>11. Onward(m.enc, done)
      BY <3>8, OnwardSame
    <3>12. Onward(c.enc, c2.enc)
      BY <2>4, <3>7, <3>11, OnwardOn
    <3>13. HasSchema(done, name, fields)
      BY <2>2, <2>4, <2>6, <3>2, <3>8, Zenon DEF HasSchema, Sane, NamesFit
    <3> QED BY <2>1, <2>4, <3>7, <3>8, <3>10, <3>12, <3>13, Zenon
  <2> QED BY <2>5, <2>6, Zenon
<1> QED BY <1>2, <1>3, Zenon

\* Another base
BaseIs(e, ts, done) ==
    /\ Sane(done) /\ done.names = e.names /\ done.types = e.types /\ done.reg = e.reg /\ done.pool = e.pool
    /\ done.next_id = e.next_id /\ done.next_pool_id = e.next_pool_id /\ done.base = ts
    /\ \A d, behind, gone, d2, k :
          Match(e, d, behind, gone) /\ d2.reg = d.reg /\ d2.pool = d.pool /\ k \in 0 .. ts /\ d2.base = ts - k
             => Match(done, d2, k, gone)

LEMMA BaseGiven ==
  ASSUME NEW e, Sane(e), NEW ts \in 0 .. Width - 1, NEW done, done = [e EXCEPT !.base = ts]
  PROVE BaseIs(e, ts, done)
<1>1. done = Encoder(e.names, e.types, e.reg, e.next_id, e.pool, e.next_pool_id, ts)
  BY DEF Sane, Encoder
<1>2. /\ done.names = e.names /\ done.types = e.types /\ done.reg = e.reg /\ done.next_id = e.next_id
      /\ done.pool = e.pool /\ done.next_pool_id = e.next_pool_id /\ done.base = ts
  BY ONLY <1>1, EncoderIs
<1>3. NamesFit(done) /\ RegFits(done) /\ TypesFit(done) /\ PoolFits(done) /\ PoolApart(done)
  BY ONLY <1>2, Sane(e) DEF Sane, NamesFit, RegFits, TypesFit, PoolFits, PoolApart
<1>4. done = Encoder(done.names, done.types, done.reg, done.next_id, done.pool, done.next_pool_id, done.base)
  BY ONLY <1>1, EncoderIs
<1>5. Sane(done)
  <2>1. done.next_id \in Nat /\ done.next_pool_id \in Nat /\ done.base \in 0 .. Width - 1
        /\ Keyed(done.names) /\ Keyed(done.types) /\ Keyed(done.reg) /\ Keyed(done.pool)
    BY ONLY <1>2, Sane(e), ts \in 0 .. Width - 1 DEF Sane
  <2> QED BY <1>3, <1>4, <2>1, Zenon DEF Sane
<1>6. ASSUME NEW d, NEW behind, NEW gone, NEW d2, NEW k, Match(e, d, behind, gone), d2.reg = d.reg, d2.pool = d.pool,
             k \in 0 .. ts, d2.base = ts - k
      PROVE Match(done, d2, k, gone)
  BY ONLY <1>2, <1>6 DEF Match
<1> QED BY <1>2, <1>5, <1>6, Zenon DEF BaseIs

\* An event by a schema that is there
Writable(c, id, entry, ts, values) ==
    /\ id \in DOMAIN c.enc.reg /\ c.enc.reg[id] = entry /\ entry.has_timestamp /\ Fit(entry.fields, values)
    /\ ts \in 0 .. Width - 1
Written(c, s, behind, gone, e, entry, ts, values, c2) ==
    /\ c2.enc.pool = c.enc.pool /\ Onward(c.enc, c2.enc) /\ c2.ok = c.ok
    /\ \E e2 : /\ Good(c2, s, behind, gone, e2)
               /\ e2.events = Append(e.events, Event(e.pool, entry, ts - Shift(c2.stages, behind), values))
               /\ \A d : Quiet(c, s, d, gone, e) => Partial(c2.stages, s, d, gone)

\* A reader goes over an event.
LEMMA EventStage ==
  ASSUME NEW c, NEW s, NEW behind, NEW gone, NEW e, Good(c, s, behind, gone, e), NEW id, NEW entry, NEW ts, NEW values,
         Writable(c, id, entry, ts, values), NEW delta \in Nat, NEW k, e.base \in Nat, e.base + delta = ts - k,
         k \in 0 .. ts, k = Shift(c.stages, behind),
         NEW done, BaseIs(c.enc, ts, done), NEW u, u = encode_event(id, delta, entry, values),
         NEW c2, c2 = Then(c, done, u, done)
  PROVE /\ c2.ok = c.ok /\ c2.enc = done /\ c2.stages = Append(c.stages, [numbers |-> u, onfail |-> done])
        /\ IsFrame(u) /\ u[1] = TAG_EVENT /\ Shift(c2.stages, behind) = k
        /\ \E e2 : /\ Good(c2, s, behind, gone, e2)
                   /\ e2.events = Append(e.events, Event(e.pool, entry, ts - k, values))
<1>1. Sane(c.enc) /\ Match(c.enc, e, k, gone) /\ ReadsTo(s \o Numbers(c.stages), e)
  BY Zenon DEF Good
<1>2. id \in Nat /\ id \in DOMAIN e.reg /\ e.reg[id] = entry /\ entry.has_timestamp /\ Fit(entry.fields, values)
  <2>1. id \in DOMAIN c.enc.reg /\ c.enc.reg[id] = entry /\ entry.has_timestamp /\ Fit(entry.fields, values)
    BY Zenon DEF Writable
  <2>2. e.reg = c.enc.reg
    BY <1>1, Zenon DEF Match
  <2>3. id \in 0 .. c.enc.next_id - 1 /\ c.enc.next_id \in Nat
    BY <1>1, <2>1, Zenon DEF Sane, RegFits
  <2> QED BY ONLY <2>1, <2>2, <2>3
<1>3. ts \in 0 .. Width - 1 /\ Width \in Nat
  BY CodecAssumption DEF Writable
<1>4. PICK t \in Nat : t = ts - k /\ t = e.base + delta /\ t < Width
  BY ONLY <1>3, e.base \in Nat, delta \in Nat, e.base + delta = ts - k, k \in 0 .. ts
<1>5. PICK e2 : e2 = WithEvent(e, Len(u), t, Event(e.pool, entry, t, values))
  OBVIOUS
<1>6. IsFrame(u) /\ u[1] = TAG_EVENT /\ ReadsTo((s \o Numbers(c.stages)) \o u, e2)
  BY <1>1, <1>2, <1>4, <1>5, EventFrameRead
<1>7. e2.events = Append(e.events, Event(e.pool, entry, t, values)) /\ e2.base = t /\ e2.reg = e.reg /\ e2.pool = e.pool
  <2>1. PICK x : x = Event(e.pool, entry, t, values)
    OBVIOUS
  <2> QED BY ONLY <1>5, <2>1 DEF WithEvent, Decoder
<1>8. Sane(done) /\ Match(done, e2, k, gone)
  <2>1. k \in 0 .. ts /\ e2.base = ts - k
    BY <1>4, <1>7
  <2> QED BY <1>1, <1>7, <2>1, Zenon DEF BaseIs
<1>9. Adds(c, s, behind, gone, u, done, done, c2, e2)
  <2>1. u[1] # TAG_TIMESTAMP_RESET
    BY <1>6 DEF TAG_EVENT, TAG_TIMESTAMP_RESET
  <2>2. Match(done, e2, IF u[1] = TAG_TIMESTAMP_RESET THEN 0 ELSE Shift(c.stages, behind), gone)
    BY <1>8, <2>1, Zenon
  <2> QED BY <1>6, <1>8, <2>2, Zenon DEF Adds
<1>10. Added(c, s, behind, gone, u, done, done, c2, e2)
  BY <1>9, GoodMore, Zenon
<1>11. /\ Good(c2, s, behind, gone, e2) /\ c2.enc = done /\ c2.ok = c.ok
       /\ c2.stages = Append(c.stages, [numbers |-> u, onfail |-> done])
       /\ \A tag : Wrote(c2.stages, tag) <=> Wrote(c.stages, tag) \/ u[1] = tag
  BY <1>10, Zenon DEF Added
<1>12. Shift(c2.stages, behind) = k
  <2>1. u[1] # TAG_TIMESTAMP_RESET
    BY <1>6 DEF TAG_EVENT, TAG_TIMESTAMP_RESET
  <2> QED BY <1>11, <2>1, Zenon DEF Shift
<1> QED BY <1>4, <1>6, <1>7, <1>11, <1>12, Zenon

LEMMA NoString ==
  ASSUME NEW gone, NEW u, NEW f, u[1] = TAG_EVENT \/ u[1] = TAG_TIMESTAMP_RESET, NEW x, x = [numbers |-> u, onfail |-> f]
  PROVE Lost(gone, x) = gone
<1>1. x.numbers = u
  OBVIOUS
<1> QED BY <1>1 DEF Lost, TAG_EVENT, TAG_TIMESTAMP_RESET, TAG_STRING_POOL

\* ... with the encoder's own base
LEMMA WrittenNear ==
  ASSUME NEW c, NEW s, NEW behind, NEW gone, NEW e, Good(c, s, behind, gone, e), NEW id, NEW entry, NEW ts, NEW values,
         Writable(c, id, entry, ts, values), ~(ts < c.enc.base \/ ts - c.enc.base > MaxDelta),
         NEW c2, c2 = WriteFrame(c, id, entry, ts, values)
  PROVE Written(c, s, behind, gone, e, entry, ts, values, c2)
<1>1. IsCall(c) /\ Sane(c.enc) /\ Staged(c.stages)
  BY Zenon DEF Good
<1>2. PICK k : k = Shift(c.stages, behind) /\ Match(c.enc, e, k, gone)
  BY Zenon DEF Good
<1>3. /\ ts \in 0 .. Width - 1 /\ c.enc.base \in Nat /\ c.enc.base <= ts
      /\ k \in 0 .. c.enc.base /\ e.base = c.enc.base - k /\ Width \in Nat
  BY <1>1, <1>2, CodecAssumption DEF Writable, Match, Sane
<1>4. PICK delta \in Nat : delta = ts - c.enc.base
  BY ONLY <1>3
<1>5. e.base \in Nat /\ e.base + delta = ts - k /\ k \in 0 .. ts /\ ts - e.base \in 0 .. ts /\ e.base = ts - (ts - e.base)
  BY ONLY <1>3, <1>4
<1>6. PICK done : done = [c.enc EXCEPT !.base = ts]
  OBVIOUS
<1>7. BaseIs(c.enc, ts, done)
  BY <1>1, <1>3, <1>6, BaseGiven
<1>8. PICK u : u = encode_event(id, delta, entry, values)
  OBVIOUS
<1>9. c2 = Then(c, done, u, done)
  <2>1. Delta(c, ts) = delta
    BY <1>4, Zenon DEF Delta
  <2>2. PICK m : m = [c EXCEPT !.enc = done]
    OBVIOUS
  <2>3. encode_timestamp_delta(c, ts) = m
    BY <1>6, <2>2, Zenon DEF encode_timestamp_delta
  <2>4. m = [enc |-> done, stages |-> c.stages, ok |-> c.ok]
    BY ONLY <2>2, <1>1 DEF IsCall
  <2>5. m.enc = done /\ IsCall(m) /\ m.stages = c.stages /\ m.ok = c.ok
    BY ONLY <2>4 DEF IsCall
  <2>6. c2 = Then(m, done, u, done)
    BY <1>8, <2>1, <2>3, <2>5, Zenon DEF WriteFrame
  <2>7. IsCall(c2) /\ c2.enc = done /\ c2.ok = c.ok /\ c2.stages = Append(c.stages, [numbers |-> u, onfail |-> done])
    BY <2>5, <2>6, ThenIs
  <2>8. PICK x : x = Then(c, done, u, done)
    OBVIOUS
  <2>9. IsCall(x) /\ x.enc = done /\ x.ok = c.ok /\ x.stages = Append(c.stages, [numbers |-> u, onfail |-> done])
    BY <1>1, <2>8, ThenIs
  <2>10. c2 = x
    BY ONLY <2>7, <2>9 DEF IsCall
  <2> QED BY <2>8, <2>10
<1>10. /\ c2.ok = c.ok /\ c2.enc = done /\ c2.stages = Append(c.stages, [numbers |-> u, onfail |-> done])
       /\ IsFrame(u) /\ u[1] = TAG_EVENT /\ Shift(c2.stages, behind) = k
       /\ \E e2 : /\ Good(c2, s, behind, gone, e2)
                  /\ e2.events = Append(e.events, Event(e.pool, entry, ts - k, values))
  BY <1>2, <1>5, <1>7, <1>8, <1>9, EventStage
<1>11. PICK e2 : /\ Good(c2, s, behind, gone, e2)
                 /\ e2.events = Append(e.events, Event(e.pool, entry, ts - Shift(c2.stages, behind), values))
  BY <1>10
<1>12. ASSUME NEW d, Quiet(c, s, d, gone, e) PROVE Partial(c2.stages, s, d, gone)
  <2>1. /\ Partial(c.stages, s, d, gone) /\ ~Wrote(c.stages, TAG_TIMESTAMP_RESET)
        /\ e.events = d.events /\ e.base = d.base /\ KeepsPool(d, e)
    BY <1>12, Zenon DEF Quiet
  <2>2. PICK x : x = [numbers |-> u, onfail |-> done]
    OBVIOUS
  <2>3. Start(c.stages, x, d.base) = e.base
    BY <2>1, Zenon DEF Start
  <2>4. PICK j : j = ts - e.base /\ j \in 0 .. ts /\ e.base = ts - j
    BY <1>5
  <2>5. Sane(done) /\ Match(done, e, j, gone)
    BY <1>2, <1>7, <2>4, Zenon DEF BaseIs
  <2>6. Lost(gone, x) = gone
    BY <1>10, <2>2, NoString
  <2>7. FailsAt(c.stages, x, s, d, gone)
    BY <2>1, <2>2, <2>3, <2>5, <2>6, FailsHere
  <2> QED BY <1>1, <1>10, <2>1, <2>2, <2>7, PartialMore
<1>13. c2.enc.pool = c.enc.pool /\ Onward(c.enc, c2.enc)
  BY <1>7, <1>10, OnwardSame DEF BaseIs
<1> QED BY <1>10, <1>11, <1>12, <1>13, Zenon DEF Written

\* ... with a base that was put in front of it
LEMMA WrittenFar ==
  ASSUME NEW c, NEW s, NEW behind, NEW gone, NEW e, Good(c, s, behind, gone, e), NEW id, NEW entry, NEW ts, NEW values,
         Writable(c, id, entry, ts, values), ts < c.enc.base \/ ts - c.enc.base > MaxDelta,
         NEW c2, c2 = WriteFrame(c, id, entry, ts, values)
  PROVE Written(c, s, behind, gone, e, entry, ts, values, c2)
<1>1. IsCall(c) /\ Sane(c.enc) /\ Staged(c.stages) /\ ReadsTo(s \o Numbers(c.stages), e)
  BY Zenon DEF Good
<1>2. PICK k : k = Shift(c.stages, behind) /\ Match(c.enc, e, k, gone)
  BY Zenon DEF Good
<1>3. ts \in 0 .. Width - 1 /\ ts \in Nat /\ 0 \in 0 .. ts /\ ts = ts - 0
  BY CodecAssumption DEF Writable
<1>4. PICK done : done = [c.enc EXCEPT !.base = ts]
  OBVIOUS
<1>5. BaseIs(c.enc, ts, done)
  BY <1>1, <1>3, <1>4, BaseGiven
<1>6. PICK r : r = <<TAG_TIMESTAMP_RESET, ts>>
  OBVIOUS
<1>7. PICK er : er = WithBase(e, 2, ts)
  OBVIOUS
<1>8. IsFrame(r) /\ r[1] = TAG_TIMESTAMP_RESET /\ ReadsTo((s \o Numbers(c.stages)) \o r, er)
  BY <1>1, <1>3, <1>6, <1>7, ResetFrame
<1>9. er.reg = e.reg /\ er.pool = e.pool /\ er.base = ts /\ er.events = e.events
  BY ONLY <1>7 DEF WithBase, Decoder
<1>10. Sane(done) /\ Match(done, er, 0, gone)
  <2>1. er.base = ts - 0
    BY <1>3, <1>9
  <2> QED BY <1>2, <1>3, <1>5, <1>9, <2>1, Zenon DEF BaseIs
<1>11. PICK m : m = Then(c, done, r, c.enc)
  OBVIOUS
<1>12. /\ Good(m, s, behind, gone, er) /\ m.enc = done /\ m.ok = c.ok
       /\ m.stages = Append(c.stages, [numbers |-> r, onfail |-> c.enc])
       /\ \A tag : Wrote(m.stages, tag) <=> Wrote(c.stages, tag) \/ r[1] = tag
  <2>1. Match(done, er, IF r[1] = TAG_TIMESTAMP_RESET THEN 0 ELSE Shift(c.stages, behind), gone)
    BY <1>8, <1>10, Zenon
  <2>2. Adds(c, s, behind, gone, r, done, c.enc, m, er)
    BY <1>8, <1>10, <1>11, <2>1, Zenon DEF Adds
  <2>3. Added(c, s, behind, gone, r, done, c.enc, m, er)
    BY <2>2, GoodMore, Zenon
  <2> QED BY <2>3, Zenon DEF Added
<1>13. Wrote(m.stages, TAG_TIMESTAMP_RESET) /\ Shift(m.stages, behind) = 0
  BY <1>8, <1>12, Zenon DEF Shift
<1>14. BaseIs(done, ts, done)
  <2>1. done = [done EXCEPT !.base = ts]
    <3>1. done.base = ts /\ done = Encoder(done.names, done.types, done.reg, done.next_id, done.pool, done.next_pool_id, done.base)
      BY <1>5, Zenon DEF BaseIs, Sane
    <3> QED BY ONLY <3>1 DEF Encoder
  <2> QED BY <1>3, <1>10, <2>1, BaseGiven
<1>15. PICK u : u = encode_event(id, 0, entry, values)
  OBVIOUS
<1>16. c2 = Then(m, done, u, done)
  <2>1. Delta(c, ts) = 0
    BY Zenon DEF Delta
  <2>2. encode_timestamp_delta(c, ts) = m
    BY <1>4, <1>6, <1>11, Zenon DEF encode_timestamp_delta
  <2> QED BY <1>12, <1>15, <2>1, <2>2, Zenon DEF WriteFrame
<1>17. Writable(m, id, entry, ts, values)
  <2>1. m.enc.reg = c.enc.reg
    BY <1>5, <1>12, Zenon DEF BaseIs
  <2> QED BY <2>1, Zenon DEF Writable
<1>18. /\ c2.ok = m.ok /\ c2.enc = done /\ c2.stages = Append(m.stages, [numbers |-> u, onfail |-> done])
       /\ IsFrame(u) /\ u[1] = TAG_EVENT /\ Shift(c2.stages, behind) = 0
       /\ \E e2 : /\ Good(c2, s, behind, gone, e2)
                  /\ e2.events = Append(er.events, Event(er.pool, entry, ts - 0, values))
  <2>1. PICK j : j = 0
    OBVIOUS
  <2>2. er.base \in Nat /\ er.base + j = ts - j /\ j \in Nat /\ j \in 0 .. ts /\ j = Shift(m.stages, behind)
    BY <1>3, <1>9, <1>13, <2>1
  <2>3. BaseIs(m.enc, ts, done) /\ u = encode_event(id, j, entry, values) /\ Good(m, s, behind, gone, er)
    BY <1>12, <1>14, <1>15, <2>1
  <2>4. /\ c2.ok = m.ok /\ c2.enc = done /\ c2.stages = Append(m.stages, [numbers |-> u, onfail |-> done])
        /\ IsFrame(u) /\ u[1] = TAG_EVENT /\ Shift(c2.stages, behind) = j
        /\ \E e2 : /\ Good(c2, s, behind, gone, e2)
                   /\ e2.events = Append(er.events, Event(er.pool, entry, ts - j, values))
    BY ONLY <1>16, <1>17, <2>2, <2>3, EventStage
  <2> QED BY <2>1, <2>4
<1>19. PICK e2 : /\ Good(c2, s, behind, gone, e2)
                 /\ e2.events = Append(e.events, Event(e.pool, entry, ts - Shift(c2.stages, behind), values))
  BY <1>9, <1>18
<1>20. ASSUME NEW d, Quiet(c, s, d, gone, e) PROVE Partial(c2.stages, s, d, gone)
  <2>1. /\ Partial(c.stages, s, d, gone) /\ ~Wrote(c.stages, TAG_TIMESTAMP_RESET)
        /\ e.events = d.events /\ e.base = d.base /\ KeepsPool(d, e)
    BY <1>20, Zenon DEF Quiet
  <2>2. PICK x : x = [numbers |-> r, onfail |-> c.enc]
    OBVIOUS
  <2>3. Start(c.stages, x, d.base) = e.base
    BY <2>1, Zenon DEF Start
  <2>4. Lost(gone, x) = gone
    BY <1>8, <2>2, NoString
  <2>5. FailsAt(c.stages, x, s, d, gone)
    BY <1>1, <1>2, <2>1, <2>2, <2>3, <2>4, FailsHere
  <2>6. Partial(m.stages, s, d, gone)
    BY <1>1, <1>8, <1>12, <2>1, <2>2, <2>5, PartialMore
  <2>7. PICK y : y = [numbers |-> u, onfail |-> done]
    OBVIOUS
  <2>8. Start(m.stages, y, d.base) = er.base
    <3>1. y.onfail = done /\ done.base = ts
      BY <1>5, <2>7 DEF BaseIs
    <3> QED BY <1>9, <1>13, <3>1, Zenon DEF Start
  <2>9. Lost(gone, y) = gone
    BY <1>18, <2>7, NoString
  <2>10. er.events = d.events /\ KeepsPool(d, er)
    BY <1>9, <2>1, Zenon DEF KeepsPool
  <2>11. FailsAt(m.stages, y, s, d, gone)
    BY <1>10, <1>12, <2>7, <2>8, <2>9, <2>10, FailsHere
  <2>12. Staged(m.stages)
    BY <1>12, Zenon DEF Good
  <2> QED BY <1>18, <2>6, <2>7, <2>11, <2>12, PartialMore
<1>21. c2.enc.pool = c.enc.pool /\ Onward(c.enc, c2.enc)
  BY <1>5, <1>18, OnwardSame DEF BaseIs
<1> QED BY <1>12, <1>18, <1>19, <1>20, <1>21, Zenon DEF Written

LEMMA WrittenFrame ==
  ASSUME NEW c, NEW s, NEW behind, NEW gone, NEW e, Good(c, s, behind, gone, e), NEW id, NEW entry, NEW ts, NEW values,
         Writable(c, id, entry, ts, values), NEW c2, c2 = WriteFrame(c, id, entry, ts, values)
  PROVE Written(c, s, behind, gone, e, entry, ts, values, c2)
  BY WrittenNear, WrittenFar

\* The texts of an event are in the pool.
HasTexts(e, fields, values) == \A i \in 1 .. Len(fields) : fields[i] = PooledString => values[i] \in DOMAIN e.pool
Fields(fields, values) ==
    /\ fields \in Seq(FieldTypes) /\ values = [i \in 1 .. Len(fields) |-> values[i]]
    /\ \A i \in 1 .. Len(fields) : values[i] \in Field(fields[i])

LEMMA FieldsAt ==
  ASSUME NEW fields, NEW values, Fields(fields, values)
  PROVE /\ Len(fields) \in Nat /\ DOMAIN values = 1 .. Len(fields) /\ DOMAIN fields = 1 .. Len(fields)
        /\ Len(values) = Len(fields) /\ \A i \in 1 .. Len(fields) : fields[i] \in FieldTypes /\ values[i] \in Field(fields[i])
<1>1. fields \in Seq(FieldTypes)
  BY DEF Fields
<1>2. PICK n \in Nat : n = Len(fields) /\ DOMAIN fields = 1 .. n /\ \A i \in 1 .. n : fields[i] \in FieldTypes
  BY <1>1
<1>3. values = [i \in 1 .. n |-> values[i]] /\ \A i \in 1 .. n : values[i] \in Field(fields[i])
  BY <1>2 DEF Fields
<1>4. PICK S : S = {values[i] : i \in 1 .. n}
  OBVIOUS
<1>5. values \in [1 .. n -> S]
  BY ONLY <1>3, <1>4
<1>6. Len(values) = n
  BY <1>5, AsSeq
<1>7. DOMAIN values = 1 .. n
  BY ONLY <1>5
<1> QED BY <1>2, <1>3, <1>6, <1>7

LEMMA IdsFit ==
  ASSUME NEW e, Sane(e), NEW fields, NEW values, Fields(fields, values), HasTexts(e, fields, values)
  PROVE Fit(fields, Ids(e, fields, values))
<1>1. PICK n \in Nat : n = Len(fields) /\ DOMAIN values = 1 .. n
  BY FieldsAt
<1>2. PICK ids : ids = [i \in 1 .. n |-> IF fields[i] = PooledString THEN <<e.pool[values[i]]>> ELSE values[i]]
  OBVIOUS
<1>3. ids = Ids(e, fields, values)
  BY <1>1, <1>2 DEF Ids
<1>4. ASSUME NEW i \in 1 .. n PROVE ids[i] \in FieldValues(fields[i])
  <2>1. CASE fields[i] = PooledString
    <3>1. values[i] \in DOMAIN e.pool /\ e.next_pool_id \in Nat
      BY <1>1, <2>1 DEF HasTexts, Sane
    <3>2. e.pool[values[i]] \in Nat
      <4>1. e.pool[values[i]] \in 0 .. e.next_pool_id - 1
        BY <3>1, Zenon DEF Sane, PoolFits
      <4> QED BY <3>1, <4>1
    <3>3. ids[i] = <<e.pool[values[i]]>>
      BY <1>2, <2>1
    <3>4. FieldValues(fields[i]) = {v \in Seq(Nat) : Len(v) = 1}
      BY <2>1 DEF FieldValues, I64, F64, U8, U16, U32, Bool, String, Bytes, PooledString, StackFrames, Varint, StringMap
    <3> QED BY ONLY <3>2, <3>3, <3>4
  <2>2. CASE fields[i] # PooledString
    <3>1. values[i] \in FieldValues(fields[i])
      BY <1>1, <2>2, FieldsAt DEF Field
    <3> QED BY <1>2, <2>2, <3>1
  <2> QED BY <2>1, <2>2
<1>5. fields \in Seq(FieldTypes) /\ DOMAIN ids = 1 .. n /\ ids = [i \in 1 .. n |-> ids[i]]
  <2>1. fields \in Seq(FieldTypes)
    BY DEF Fields
  <2> QED BY ONLY <1>2, <2>1
<1> QED BY <1>1, <1>3, <1>4, <1>5, Zenon DEF Fit

\* A reader sees an event as it is to be read.
LEMMA EventAsRead ==
  ASSUME NEW enc1, Sane(enc1), NEW e, NEW k, NEW gone, Match(enc1, e, k, gone), NEW ev, NEW fields,
         Fields(fields, ev.values), HasTexts(enc1, fields, ev.values), NEW shift
  PROVE Event(e.pool, Entry(ev.name, fields), ev.ts - shift, Ids(enc1, fields, ev.values))
           = AsRead(enc1, fields, ev, shift, gone)
<1>1. PICK n \in Nat : n = Len(fields) /\ DOMAIN ev.values = 1 .. n /\ DOMAIN fields = 1 .. n
  BY FieldsAt
<1>2. PICK ids : ids = Ids(enc1, fields, ev.values)
  OBVIOUS
<1>3. DOMAIN ids = 1 .. n /\ \A i \in 1 .. n : fields[i] = PooledString => ids[i] = <<enc1.pool[ev.values[i]]>>
  BY <1>1, <1>2 DEF Ids
<1>4. PICK P : P = {j \in 1 .. n : fields[j] = PooledString}
  OBVIOUS
<1>5. ASSUME NEW i \in P PROVE get(e.pool, ids[i][1]) = IF ev.values[i] \in gone THEN Missing ELSE ev.values[i]
  <2>1. PICK t : t = ev.values[i] /\ t \in DOMAIN enc1.pool
    BY <1>1, <1>4 DEF HasTexts
  <2>2. ids[i][1] = enc1.pool[t]
    <3>1. ids[i] = <<enc1.pool[t]>>
      BY <1>3, <1>4, <2>1
    <3> QED BY ONLY <3>1
  <2>3. CASE t \in gone
    <3>1. enc1.pool[t] \notin DOMAIN e.pool
      <4> SUFFICES ASSUME enc1.pool[t] \in DOMAIN e.pool PROVE FALSE
        OBVIOUS
      <4>1. PICK v \in DOMAIN enc1.pool \ gone : enc1.pool[t] = enc1.pool[v]
        BY DEF Match
      <4>2. t = v
        BY <2>1, <4>1, Zenon DEF Sane, PoolApart
      <4> QED BY <2>3, <4>1, <4>2
    <3> QED BY <2>1, <2>2, <2>3, <3>1 DEF get
  <2>4. CASE t \notin gone
    <3>1. enc1.pool[t] \in DOMAIN e.pool /\ e.pool[enc1.pool[t]] = t
      BY <2>1, <2>4 DEF Match
    <3> QED BY <2>1, <2>2, <2>4, <3>1 DEF get
  <2> QED BY <2>3, <2>4
<1>6. PICK x : x = [i \in P |-> get(e.pool, ids[i][1])]
  OBVIOUS
<1>7. x = [i \in P |-> IF ev.values[i] \in gone THEN Missing ELSE ev.values[i]]
  BY ONLY <1>5, <1>6
<1>8. Event(e.pool, Entry(ev.name, fields), ev.ts - shift, ids)
        = [name |-> ev.name, types |-> fields, ts |-> ev.ts - shift, values |-> ids, texts |-> x]
  <2>1. Entry(ev.name, fields).name = ev.name /\ Entry(ev.name, fields).fields = fields
    BY EntryIs
  <2>2. {j \in DOMAIN ids : fields[j] = PooledString} = P
    BY <1>3, <1>4
  <2> QED BY <1>6, <2>1, <2>2, Zenon DEF Event
<1>9. AsRead(enc1, fields, ev, shift, gone)
        = [name |-> ev.name, types |-> fields, ts |-> ev.ts - shift, values |-> ids, texts |-> x]
  <2>1. {j \in DOMAIN fields : fields[j] = PooledString} = P
    BY <1>1, <1>4
  <2> QED BY <1>2, <1>7, <2>1, Zenon DEF AsRead
<1> QED BY <1>2, <1>8, <1>9

\* ... and so it stays when the pool grows.
LEMMA AsReadStill ==
  ASSUME NEW a, NEW b, Onward(a, b), NEW ev, NEW fields, Fields(fields, ev.values), HasTexts(a, fields, ev.values), NEW shift, NEW gone
  PROVE AsRead(b, fields, ev, shift, gone) = AsRead(a, fields, ev, shift, gone) /\ HasTexts(b, fields, ev.values)
<1>1. DOMAIN ev.values = 1 .. Len(fields)
  BY FieldsAt
<1>2. \A t \in DOMAIN a.pool : t \in DOMAIN b.pool /\ b.pool[t] = a.pool[t]
  BY Zenon DEF Onward
<1>3. \A i \in 1 .. Len(fields) : fields[i] = PooledString => b.pool[ev.values[i]] = a.pool[ev.values[i]]
  BY <1>2, Zenon DEF HasTexts
<1>4. Ids(b, fields, ev.values) = Ids(a, fields, ev.values)
  BY <1>1, <1>3 DEF Ids
<1>5. AsRead(b, fields, ev, shift, gone) = AsRead(a, fields, ev, shift, gone)
  BY <1>4, Zenon DEF AsRead
<1> QED BY <1>2, <1>5, Zenon DEF HasTexts

\* The texts of an event that are there are what the pool has.
Shows(pool, x) == \A i \in DOMAIN x.texts : x.texts[i] # Missing =>
                     x.values[i][1] \in DOMAIN pool /\ pool[x.values[i][1]] = x.texts[i]

LEMMA ReadShows ==
  ASSUME NEW enc1, NEW e, NEW k, NEW gone, Match(enc1, e, k, gone), NEW ev, NEW fields,
         Fields(fields, ev.values), HasTexts(enc1, fields, ev.values), NEW shift,
         NEW x, x = AsRead(enc1, fields, ev, shift, gone)
  PROVE Shows(e.pool, x)
<1>1. PICK n \in Nat : n = Len(fields) /\ DOMAIN ev.values = 1 .. n /\ DOMAIN fields = 1 .. n
  BY FieldsAt
<1>2. PICK ids, texts :
        /\ ids = [i \in 1 .. n |-> IF fields[i] = PooledString THEN <<enc1.pool[ev.values[i]]>> ELSE ev.values[i]]
        /\ texts = [i \in {j \in 1 .. n : fields[j] = PooledString} |-> IF ev.values[i] \in gone THEN Missing ELSE ev.values[i]]
  OBVIOUS
<1>3. x = [name |-> ev.name, types |-> fields, ts |-> ev.ts - shift, values |-> ids, texts |-> texts]
  BY <1>1, <1>2, Zenon DEF AsRead, Ids
<1>4. x.values = ids /\ x.texts = texts
  BY ONLY <1>3
<1>5. ASSUME NEW i \in DOMAIN texts, texts[i] # Missing
      PROVE ids[i][1] \in DOMAIN e.pool /\ e.pool[ids[i][1]] = texts[i]
  <2>1. i \in 1 .. n /\ fields[i] = PooledString
    BY <1>2
  <2>2. PICK t : t = ev.values[i] /\ t \in DOMAIN enc1.pool
    BY <1>1, <2>1 DEF HasTexts
  <2>3. t \notin gone /\ texts[i] = t
    BY <1>2, <1>5, <2>1, <2>2
  <2>4. ids[i] = <<enc1.pool[t]>>
    BY <1>2, <2>1, <2>2
  <2>5. ids[i][1] = enc1.pool[t]
    BY ONLY <2>4
  <2>6. enc1.pool[t] \in DOMAIN e.pool /\ e.pool[enc1.pool[t]] = t
    BY <2>2, <2>3 DEF Match
  <2> QED BY <2>3, <2>5, <2>6
<1> QED BY <1>4, <1>5, Zenon DEF Shows

\* Readers of two encoders, the second of which goes on from the first
LEMMA PoolGrows ==
  ASSUME NEW a, NEW d, NEW k, NEW gone, Match(a, d, k, gone), NEW b, NEW e, NEW j, Match(b, e, j, gone), Onward(a, b)
  PROVE KeepsPool(d, e)
<1> SUFFICES ASSUME NEW id \in DOMAIN d.pool PROVE id \in DOMAIN e.pool /\ e.pool[id] = d.pool[id]
  BY Zenon DEF KeepsPool
<1>1. PICK t \in DOMAIN a.pool \ gone : id = a.pool[t] /\ d.pool[id] = t
  BY DEF Match
<1>2. t \in DOMAIN b.pool \ gone /\ b.pool[t] = id
  BY <1>1 DEF Onward
<1> QED BY <1>1, <1>2 DEF Match

-----------------------------------------------------------------------------
(* Writing an event *)

WritesTo(c, s, behind, gone, e, ev, fields, c2) ==
    /\ Onward(c.enc, c2.enc) /\ (c2.ok => c.ok)
    /\ c2.ok => HasTexts(c2.enc, fields, ev.values)
    /\ \E e2 : /\ Good(c2, s, behind, gone, e2)
               /\ e2.events = IF c2.ok THEN Append(e.events, AsRead(c2.enc, fields, ev, Shift(c2.stages, behind), gone))
                              ELSE e.events
               /\ \A d : Quiet(c, s, d, gone, e) => Partial(c2.stages, s, d, gone)

LEMMA RegisteredOk == ASSUME NEW c, IsCall(c), NEW entry, NEW m, m = ensure_registered(c, entry) PROVE IsCall(m) /\ (m.ok => c.ok)
<1>1. CASE entry.name \in DOMAIN c.enc.names
  <2>1. PICK ok : ok = (c.ok /\ c.enc.reg[c.enc.names[entry.name]] = entry)
    OBVIOUS
  <2>2. m = [c EXCEPT !.ok = ok]
    BY <1>1, <2>1, Zenon DEF ensure_registered
  <2>3. m = [enc |-> c.enc, stages |-> c.stages, ok |-> ok]
    BY ONLY IsCall(c), <2>2 DEF IsCall
  <2>4. IsCall(m) /\ m.ok = ok
    BY ONLY <2>3 DEF IsCall
  <2> QED BY <2>1, <2>4, Zenon
<1>2. CASE entry.name \notin DOMAIN c.enc.names
  <2>1. PICK e, u, f : m = Then(c, e, u, f)
    BY <1>2, Zenon DEF ensure_registered
  <2>2. IsCall(m) /\ m.enc = e /\ m.ok = c.ok /\ m.stages = Append(c.stages, [numbers |-> u, onfail |-> f])
    BY <2>1, ThenIs
  <2> QED BY <2>2, Zenon
<1> QED BY <1>1, <1>2

LEMMA TypedOk == ASSUME NEW c, IsCall(c), NEW name, NEW c2, c2 = Typed(c, name) PROVE c2.ok => c.ok
<1>1. PICK entry : entry = Entry(name, field_defs(name))
  OBVIOUS
<1>2. PICK m : m = ensure_registered(c, entry)
  OBVIOUS
<1>3. IsCall(m) /\ (m.ok => c.ok)
  BY <1>2, RegisteredOk
<1>4. CASE name \in DOMAIN c.enc.types
  BY <1>4, Zenon DEF Typed
<1>5. CASE name \notin DOMAIN c.enc.types /\ ~m.ok
  BY <1>1, <1>2, <1>3, <1>5, Zenon DEF Typed
<1>6. CASE name \notin DOMAIN c.enc.types /\ m.ok
  BY <1>3, <1>6, Zenon
<1> QED BY <1>4, <1>5, <1>6

\* By a schema that the encoder has, whatever went before
LEMMA WrittenBy ==
  ASSUME NEW c, NEW s, NEW behind, NEW gone, NEW e, Good(c, s, behind, gone, e),
         NEW c3, Goes(c, s, behind, gone, e, c3), Onward(c.enc, c3.enc), c3.ok => c.ok,
         NEW ev, ev.ts \in 0 .. Width - 1, NEW fields, Fields(fields, ev.values), HasTexts(c3.enc, fields, ev.values),
         NEW id, id \in DOMAIN c3.enc.reg, NEW entry, entry = Entry(ev.name, fields), c3.enc.reg[id] = entry,
         NEW c2, c3.ok, c2 = WriteFrame(c3, id, entry, ev.ts, Ids(c3.enc, fields, ev.values))
  PROVE WritesTo(c, s, behind, gone, e, ev, fields, c2)
<1>1. PICK e3 : /\ Good(c3, s, behind, gone, e3) /\ e3.events = e.events
                /\ \A d : Quiet(c, s, d, gone, e) => Quiet(c3, s, d, gone, e3)
  BY Zenon DEF Goes
<1>2. PICK ids : ids = Ids(c3.enc, fields, ev.values)
  OBVIOUS
<1>3. PICK k : Sane(c3.enc) /\ Match(c3.enc, e3, k, gone)
  BY <1>1, Zenon DEF Good
<1>4. Writable(c3, id, entry, ev.ts, ids)
  <2>1. Fit(fields, ids)
    BY <1>2, <1>3, IdsFit, Zenon
  <2> QED BY <2>1, EntryIs DEF Writable
<1>5. Written(c3, s, behind, gone, e3, entry, ev.ts, ids, c2)
  BY <1>1, <1>2, <1>4, WrittenFrame
<1>6. c2.enc.pool = c3.enc.pool /\ Onward(c3.enc, c2.enc) /\ c2.ok = c3.ok
  BY <1>5, Zenon DEF Written
<1>7. PICK e2 : /\ Good(c2, s, behind, gone, e2)
                /\ e2.events = Append(e3.events, Event(e3.pool, entry, ev.ts - Shift(c2.stages, behind), ids))
                /\ \A d : Quiet(c3, s, d, gone, e3) => Partial(c2.stages, s, d, gone)
  BY <1>5, Zenon DEF Written
<1>8. PICK shift : shift = Shift(c2.stages, behind)
  OBVIOUS
<1>9. Event(e3.pool, entry, ev.ts - shift, ids) = AsRead(c3.enc, fields, ev, shift, gone)
  BY <1>2, <1>3, EventAsRead
<1>10. AsRead(c2.enc, fields, ev, shift, gone) = AsRead(c3.enc, fields, ev, shift, gone) /\ HasTexts(c2.enc, fields, ev.values)
  BY <1>6, AsReadStill
<1>11. e2.events = Append(e.events, AsRead(c2.enc, fields, ev, Shift(c2.stages, behind), gone))
  BY <1>1, <1>7, <1>8, <1>9, <1>10
<1>12. Onward(c.enc, c2.enc)
  BY <1>6, OnwardOn
<1>13. \A d : Quiet(c, s, d, gone, e) => Partial(c2.stages, s, d, gone)
  BY <1>1, <1>7, Zenon
<1> QED BY <1>6, <1>7, <1>10, <1>11, <1>12, <1>13, Zenon DEF WritesTo

\* What was refused has written no event.
LEMMA NotWritten ==
  ASSUME NEW c, NEW s, NEW behind, NEW gone, NEW e, NEW c2, Goes(c, s, behind, gone, e, c2), Onward(c.enc, c2.enc),
         ~c2.ok, NEW ev, NEW fields
  PROVE WritesTo(c, s, behind, gone, e, ev, fields, c2)
<1>1. PICK e2 : /\ Good(c2, s, behind, gone, e2) /\ e2.events = e.events
                /\ \A d : Quiet(c, s, d, gone, e) => Quiet(c2, s, d, gone, e2)
  BY Zenon DEF Goes
<1>2. \A d : Quiet(c, s, d, gone, e) => Partial(c2.stages, s, d, gone)
  BY <1>1, Zenon DEF Quiet
<1> QED BY <1>1, <1>2, Zenon DEF WritesTo

LEMMA WriteWrites ==
  ASSUME NEW c, NEW s, NEW behind, NEW gone, NEW e, Good(c, s, behind, gone, e),
         NEW ev, ev.name \in Nat, ev.ts \in 0 .. Width - 1, NEW fields, fields = field_defs(ev.name), Fields(fields, ev.values),
         NEW c2, c2 = write(c, ev)
  PROVE WritesTo(c, s, behind, gone, e, ev, fields, c2)
<1>1. PICK n \in Nat : n = Len(fields) /\ Len(ev.values) = n
  BY FieldsAt
<1>2. PICK c1 : c1 = Interned(c, fields, ev.values)
  OBVIOUS
<1>3. PICK c3 : c3 = Typed(c1, ev.name)
  OBVIOUS
<1>4. \A i \in 1 .. n : fields[i] = PooledString => ev.values[i] \in Texts
  BY <1>1, FieldsAt DEF Field
<1>5. /\ Goes(c, s, behind, gone, e, c1) /\ Onward(c.enc, c1.enc) /\ Apart(c, c1)
      /\ \A i \in 1 .. n : fields[i] = PooledString => ev.values[i] \in DOMAIN c1.enc.pool
  <2>1. InternedTo(c, s, behind, gone, e, fields, ev.values, n, c1)
    BY <1>1, <1>2, <1>4, AllInterned
  <2> QED BY <2>1, Zenon DEF InternedTo
<1>6. PICK e1 : Good(c1, s, behind, gone, e1)
  BY <1>5, Zenon DEF Goes
<1>7. \A x : Good(c1, s, behind, gone, x) =>
         /\ Goes(c1, s, behind, gone, x, c3) /\ Onward(c1.enc, c3.enc) /\ c3.enc.pool = c1.enc.pool
         /\ c3.ok => HasSchema(c3.enc, ev.name, fields)
  <2>1. field_defs(ev.name) \in Seq(FieldTypes)
    BY DEF Fields
  <2> QED BY <1>3, <2>1, TypedIs
<1>8. Goes(c, s, behind, gone, e, c3)
  BY <1>5, <1>7, GoesOn
<1>9. Onward(c1.enc, c3.enc) /\ c3.enc.pool = c1.enc.pool /\ (c3.ok => HasSchema(c3.enc, ev.name, fields))
  BY <1>6, <1>7
<1>10. Onward(c.enc, c3.enc)
  BY <1>5, <1>9, OnwardOn
<1>11. c3.ok => c.ok
  BY <1>3, <1>5, <1>6, TypedOk DEF Apart, Good
<1>12. CASE ~c3.ok
  <2>1. c2 = c3
    BY <1>2, <1>3, <1>12, Zenon DEF write
  <2> QED BY <1>8, <1>10, <1>12, <2>1, NotWritten
<1>13. CASE c3.ok
  <2>1. PICK id, entry : id = c3.enc.types[ev.name] /\ entry = Entry(ev.name, fields)
    OBVIOUS
  <2>2. id \in DOMAIN c3.enc.reg /\ c3.enc.reg[id] = entry
    BY <1>9, <1>13, <2>1 DEF HasSchema
  <2>3. HasTexts(c3.enc, fields, ev.values)
    BY <1>1, <1>5, <1>9 DEF HasTexts
  <2>4. c2 = WriteFrame(c3, id, entry, ev.ts, Ids(c3.enc, fields, ev.values))
    BY <1>2, <1>3, <1>13, <2>1, Zenon DEF write
  <2> QED BY <1>8, <1>10, <1>11, <1>13, <2>1, <2>2, <2>3, <2>4, WrittenBy
<1> QED BY <1>12, <1>13

\* An event without strings of the pool is written as it is.
LEMMA PlainIds ==
  ASSUME NEW e, NEW fields \in Seq(FieldTypes \ {PooledString}), NEW values, Fields(fields, values)
  PROVE Ids(e, fields, values) = values /\ HasTexts(e, fields, values)
<1>1. PICK n \in Nat : n = Len(fields) /\ DOMAIN values = 1 .. n /\ values = [i \in 1 .. n |-> values[i]]
  BY FieldsAt DEF Fields
<1>2. \A i \in 1 .. n : fields[i] # PooledString
  BY <1>1
<1>3. Ids(e, fields, values) = values
  BY ONLY <1>1, <1>2 DEF Ids
<1> QED BY <1>1, <1>2, <1>3 DEF HasTexts

LEMMA WriteEventWrites ==
  ASSUME NEW c, NEW s, NEW behind, NEW gone, NEW e, Good(c, s, behind, gone, e),
         NEW ev, ev.name \in Nat, ev.ts \in 0 .. Width - 1, ev.fields \in Seq(FieldTypes \ {PooledString}),
         Fields(ev.fields, ev.values), NEW c2, c2 = write_event(c, ev)
  PROVE WritesTo(c, s, behind, gone, e, ev, ev.fields, c2)
<1>1. PICK fields \in Seq(FieldTypes) : fields = ev.fields
  BY DEF Fields
<1>2. PICK entry : entry = Entry(ev.name, fields)
  OBVIOUS
<1>3. PICK c3 : c3 = ensure_registered(c, entry)
  OBVIOUS
<1>4. /\ Goes(c, s, behind, gone, e, c3) /\ Onward(c.enc, c3.enc)
      /\ c3.ok => ev.name \in DOMAIN c3.enc.names /\ c3.enc.reg[c3.enc.names[ev.name]] = entry
  <2>1. RegisteredAs(c, s, behind, gone, e, ev.name, entry, c3)
    BY <1>2, <1>3, Registered
  <2> QED BY <2>1, Zenon DEF RegisteredAs
<1>5. CASE ~c3.ok
  <2>1. c2 = c3
    BY <1>1, <1>2, <1>3, <1>5, Zenon DEF write_event
  <2> QED BY <1>4, <1>5, <2>1, NotWritten
<1>6. CASE c3.ok
  <2>1. PICK id : id = c3.enc.names[ev.name]
    OBVIOUS
  <2>2. id \in DOMAIN c3.enc.reg /\ c3.enc.reg[id] = entry
    <3>1. PICK e3 : Good(c3, s, behind, gone, e3)
      BY <1>4, Zenon DEF Goes
    <3> QED BY <1>4, <1>6, <2>1, <3>1, Zenon DEF Good, Sane, NamesFit
  <2>3. Ids(c3.enc, fields, ev.values) = ev.values /\ HasTexts(c3.enc, fields, ev.values)
    BY <1>1, PlainIds
  <2>4. c2 = WriteFrame(c3, id, entry, ev.ts, Ids(c3.enc, fields, ev.values))
    <3>1. c2 = WriteFrame(c3, id, entry, ev.ts, ev.values)
      BY <1>1, <1>2, <1>3, <1>6, <2>1, Zenon DEF write_event
    <3> QED BY <2>3, <3>1
  <2>5. c3.ok => c.ok
    BY <1>2, <1>3, RegisteredOk DEF Good
  <2>6. Fields(fields, ev.values)
    BY <1>1
  <2>7. WritesTo(c, s, behind, gone, e, ev, fields, c2)
    BY <1>2, <1>4, <1>6, <2>2, <2>3, <2>4, <2>5, <2>6, WrittenBy
  <2> QED BY <1>1, <2>7
<1> QED BY <1>5, <1>6

-----------------------------------------------------------------------------
(* The events of the program *)

LEMMA RustTypesAre ==
  /\ RustTypes = {"u8", "u16", "u32", "u64", "i64", "f64", "bool", "String", "VecU8", "StackFrames", "InternedString",
                  "StringMap", "TaskId", "WorkerId", "CpuSampleSource"}
  /\ \A rust \in RustTypes : field_type[rust] \in FieldTypes
  /\ field_type["u8"] = U8 /\ field_type["u64"] = Varint /\ field_type["InternedString"] = PooledString
<1>1. PICK a : a = Over(reference_type, telemetry_type)
  OBVIOUS
<1>2. field_type = Over(primitive_type, a)
  BY <1>1, Zenon DEF field_type
<1>3. /\ DOMAIN a = DOMAIN reference_type \union DOMAIN telemetry_type
      /\ \A x \in DOMAIN reference_type : a[x] = reference_type[x]
      /\ \A x \in DOMAIN telemetry_type : x \notin DOMAIN reference_type => a[x] = telemetry_type[x]
  BY ONLY <1>1 DEF Over
<1>11. /\ DOMAIN field_type = DOMAIN primitive_type \union DOMAIN a
       /\ \A x \in DOMAIN primitive_type : field_type[x] = primitive_type[x]
       /\ \A x \in DOMAIN a : x \notin DOMAIN primitive_type => field_type[x] = a[x]
  BY ONLY <1>2 DEF Over
<1>4. /\ DOMAIN primitive_type = {"u8", "u16", "u32", "u64", "i64", "f64", "bool", "String", "VecU8"}
      /\ DOMAIN reference_type = {"StackFrames", "InternedString", "StringMap"}
      /\ DOMAIN telemetry_type = {"TaskId", "WorkerId", "CpuSampleSource"}
  BY DEF primitive_type, reference_type, telemetry_type
<1>5. /\ \A rust \in DOMAIN primitive_type : primitive_type[rust] \in FieldTypes
      /\ \A rust \in DOMAIN reference_type : reference_type[rust] \in FieldTypes
      /\ \A rust \in DOMAIN telemetry_type : telemetry_type[rust] \in FieldTypes
  BY DEF primitive_type, reference_type, telemetry_type, FieldTypes
<1>6. primitive_type["u8"] = U8 /\ primitive_type["u64"] = Varint /\ reference_type["InternedString"] = PooledString
  BY DEF primitive_type, reference_type
<1>7. RustTypes = {"u8", "u16", "u32", "u64", "i64", "f64", "bool", "String", "VecU8", "StackFrames", "InternedString",
                   "StringMap", "TaskId", "WorkerId", "CpuSampleSource"}
  BY ONLY <1>3, <1>4, <1>11 DEF RustTypes
<1>8. \A rust \in RustTypes : field_type[rust] \in FieldTypes
  BY ONLY <1>3, <1>5, <1>11 DEF RustTypes
<1>9. field_type["u8"] = U8 /\ field_type["u64"] = Varint
  BY ONLY <1>4, <1>6, <1>11
<1>10. field_type["InternedString"] = PooledString
  <2>1. "InternedString" \in DOMAIN reference_type /\ "InternedString" \notin DOMAIN primitive_type
    BY ONLY <1>4
  <2> QED BY ONLY <1>3, <1>11, <1>6, <2>1
<1> QED BY <1>7, <1>8, <1>9, <1>10

LEMMA StructsAre ==
  /\ DOMAIN Structs \subseteq Nat /\ \A name \in DOMAIN Structs : Structs[name] \in Seq(RustTypes)
  /\ CpuSampleEvent \in DOMAIN Structs
  /\ Structs[CpuSampleEvent] = <<"WorkerId", "u32", "CpuSampleSource", "InternedString", "StackFrames">>
<1> USE DEF PollStartEvent, PollEndEvent, WorkerParkEvent, WorkerUnparkEvent, QueueSampleEvent, TaskSpawnEvent,
            TaskTerminateEvent, CpuSampleEvent, WakeEventEvent, SegmentMetadataEvent
<1>1. DOMAIN Telemetry = 11 .. 20 /\ 18 \in 11 .. 20
  BY DEF Telemetry
<1>2. Telemetry[18] = <<"WorkerId", "u32", "CpuSampleSource", "InternedString", "StackFrames">>
  BY DEF Telemetry
<1>3. /\ Telemetry[11] = <<"WorkerId", "u8", "TaskId", "InternedString">> /\ Telemetry[12] = <<"WorkerId">>
      /\ Telemetry[13] = <<"WorkerId", "u8", "u64">> /\ Telemetry[14] = <<"WorkerId", "u8", "u64", "u64">>
      /\ Telemetry[15] = <<"u8">>
  BY DEF Telemetry
<1>4. /\ Telemetry[16] = <<"TaskId", "InternedString">> /\ Telemetry[17] = <<"TaskId">>
      /\ Telemetry[19] = <<"TaskId", "TaskId", "u8">> /\ Telemetry[20] = <<"StringMap">>
  BY DEF Telemetry
<1>5. /\ <<"WorkerId", "u8", "TaskId", "InternedString">> \in Seq(RustTypes) /\ <<"WorkerId">> \in Seq(RustTypes)
      /\ <<"WorkerId", "u8", "u64">> \in Seq(RustTypes) /\ <<"WorkerId", "u8", "u64", "u64">> \in Seq(RustTypes)
      /\ <<"u8">> \in Seq(RustTypes)
  BY RustTypesAre
<1>6. /\ <<"TaskId", "InternedString">> \in Seq(RustTypes) /\ <<"TaskId">> \in Seq(RustTypes)
      /\ <<"WorkerId", "u32", "CpuSampleSource", "InternedString", "StackFrames">> \in Seq(RustTypes)
      /\ <<"TaskId", "TaskId", "u8">> \in Seq(RustTypes) /\ <<"StringMap">> \in Seq(RustTypes)
  BY RustTypesAre
<1>7. \A name \in 11 .. 20 : \/ name = 11 \/ name = 12 \/ name = 13 \/ name = 14 \/ name = 15
                             \/ name = 16 \/ name = 17 \/ name = 18 \/ name = 19 \/ name = 20
  OBVIOUS
<1>8. \A name \in DOMAIN Telemetry : Telemetry[name] \in Seq(RustTypes)
  <2>1. PICK rusts : rusts = Seq(RustTypes)
    OBVIOUS
  <2>2. PICK t : t = Telemetry
    OBVIOUS
  <2>3. /\ t[11] \in rusts /\ t[12] \in rusts /\ t[13] \in rusts /\ t[14] \in rusts /\ t[15] \in rusts
    BY ONLY <1>3, <1>5, <2>1, <2>2, Zenon
  <2>4. /\ t[16] \in rusts /\ t[17] \in rusts /\ t[18] \in rusts /\ t[19] \in rusts /\ t[20] \in rusts
    BY ONLY <1>2, <1>4, <1>6, <2>1, <2>2, Zenon
  <2>5. \A name \in 11 .. 20 : t[name] \in rusts
    BY ONLY <1>7, <2>3, <2>4, Zenon
  <2> QED BY ONLY <1>1, <2>1, <2>2, <2>5, Zenon
<1>9. DOMAIN Derived \subseteq Nat /\ \A name \in DOMAIN Derived : Derived[name] \in Seq(RustTypes)
  BY EventsAssumption
<1>10. /\ DOMAIN Structs = DOMAIN Telemetry \union DOMAIN Derived
       /\ \A x \in DOMAIN Telemetry : Structs[x] = Telemetry[x]
       /\ \A x \in DOMAIN Derived : x \notin DOMAIN Telemetry => Structs[x] = Derived[x]
  BY ONLY TRUE DEF Structs, Over
<1>11. 11 .. 20 \subseteq Nat
  OBVIOUS
<1>12. CpuSampleEvent \in DOMAIN Structs
       /\ Structs[CpuSampleEvent] = <<"WorkerId", "u32", "CpuSampleSource", "InternedString", "StackFrames">>
  BY <1>1, <1>2, <1>10
<1>13. DOMAIN Structs \subseteq Nat
  BY <1>1, <1>9, <1>10, <1>11, Zenon
<1>14. \A name \in DOMAIN Structs : Structs[name] \in Seq(RustTypes)
  BY <1>8, <1>9, <1>10, Zenon
<1> QED BY <1>12, <1>13, <1>14, Zenon

LEMMA FieldDefs ==
  ASSUME NEW name \in DOMAIN Structs, NEW fields, fields = field_defs(name)
  PROVE /\ fields \in Seq(FieldTypes) /\ Len(fields) = Len(Structs[name]) /\ Len(fields) \in Nat
        /\ \A i \in 1 .. Len(fields) : fields[i] = field_type[Structs[name][i]] /\ fields[i] \in FieldTypes
<1>1. PICK rusts \in Seq(RustTypes) : rusts = Structs[name]
  BY StructsAre
<1>2. PICK n \in Nat : n = Len(rusts) /\ DOMAIN rusts = 1 .. n /\ \A i \in 1 .. n : rusts[i] \in RustTypes
  BY <1>1
<1>3. fields = [i \in 1 .. n |-> field_type[rusts[i]]]
  BY <1>1, <1>2 DEF field_defs
<1>4. \A i \in 1 .. n : field_type[rusts[i]] \in FieldTypes
  BY <1>2, RustTypesAre
<1>5. fields \in [1 .. n -> FieldTypes]
  BY ONLY <1>3, <1>4
<1>6. fields \in Seq(FieldTypes) /\ Len(fields) = n
  BY <1>5, AsSeq
<1> QED BY <1>1, <1>2, <1>3, <1>4, <1>6

\* What the writer makes of an event that it is given can be written.
LEMMA ResolvedFits ==
  ASSUME NEW raw \in Events, NEW ev, ev = write_resolved(raw), NEW fields, fields = field_defs(raw.name)
  PROVE ev.name \in Nat /\ ev.name = raw.name /\ ev.ts \in 0 .. Width - 1 /\ Fields(fields, ev.values)
<1>1. /\ raw.name \in DOMAIN Structs /\ IsEvent(raw, fields)
      /\ raw = [name |-> raw.name, ts |-> raw.ts, values |-> raw.values]
  BY StreamAssumption
<1>2. PICK n \in Nat : n = Len(fields) /\ n = Len(Structs[raw.name])
  BY <1>1, FieldDefs
<1>3. \A i \in 1 .. n : fields[i] = field_type[Structs[raw.name][i]]
  BY <1>1, <1>2, FieldDefs
<1>4. raw.ts \in 0 .. Width - 1 /\ raw.values = [i \in 1 .. n |-> raw.values[i]] /\ \A i \in 1 .. n : raw.values[i] \in Field(fields[i])
  BY <1>1, <1>2 DEF IsEvent
<1>5. DOMAIN raw.values = 1 .. n
  BY ONLY <1>4
<1>6. PICK values : values = [i \in 1 .. n |->
            CASE Structs[raw.name][i] = "u8" -> <<raw.values[i][1] % NarrowWidth.u8>>
              [] raw.name = CpuSampleEvent /\ i = 4 /\ raw.values[i] = <<>> -> NoThreadName
              [] OTHER -> raw.values[i]]
  OBVIOUS
<1>7. ev = [name |-> raw.name, ts |-> raw.ts, values |-> values]
  <2>1. ev = [raw EXCEPT !.values = values]
    BY <1>5, <1>6 DEF write_resolved
  <2> QED BY ONLY <1>1, <2>1
<1>8. ev.name = raw.name /\ ev.ts = raw.ts /\ ev.values = values
  BY ONLY <1>7
<1>9. ASSUME NEW i \in 1 .. n PROVE values[i] \in Field(fields[i])
  <2>1. CASE Structs[raw.name][i] = "u8"
    <3>1. fields[i] = U8
      BY <1>3, <2>1, RustTypesAre
    <3>2. Field(fields[i]) = {v \in Seq(Nat) : Len(v) = 1}
      BY <3>1 DEF Field, FieldValues, I64, F64, U8, U16, U32, Bool, String, Bytes, PooledString, StackFrames, Varint, StringMap
    <3>3. raw.values[i][1] \in Nat
      BY <1>4, <3>2
    <3>4. NarrowWidth.u8 \in Nat \ {0}
      BY EventsAssumption
    <3>5. PICK k \in Nat : k = raw.values[i][1] % NarrowWidth.u8
      BY <3>3, <3>4, ModBound

    <3>9. ~(raw.name = CpuSampleEvent /\ i = 4 /\ raw.values[i] = <<>>)
      BY <2>1, StructsAre
    <3>10. values[i] = CASE Structs[raw.name][i] = "u8" -> <<raw.values[i][1] % NarrowWidth.u8>>
                        [] raw.name = CpuSampleEvent /\ i = 4 /\ raw.values[i] = <<>> -> NoThreadName
                        [] OTHER -> raw.values[i]
      BY ONLY <1>6, <1>9, Zenon
    <3>6. values[i] = <<raw.values[i][1] % NarrowWidth.u8>>
      BY ONLY <3>10, <3>9, <2>1, Zenon
    <3>7. values[i] = <<k>>
      BY ONLY <3>5, <3>6
    <3> QED BY ONLY <3>2, <3>5, <3>7
  <2>2. CASE Structs[raw.name][i] # "u8" /\ raw.name = CpuSampleEvent /\ i = 4 /\ raw.values[i] = <<>>
    <3>1. values[i] = NoThreadName
      BY ONLY <1>6, <1>9, <2>2
    <3>2. fields[i] = PooledString
      <4>1. Structs[raw.name][i] = "InternedString"
        BY <2>2, StructsAre
      <4> QED BY <1>3, <4>1, RustTypesAre
    <3>3. Field(fields[i]) = Texts
      BY <3>2 DEF Field
    <3> QED BY <3>1, <3>3, EventsAssumption
  <2>3. CASE Structs[raw.name][i] # "u8" /\ ~(raw.name = CpuSampleEvent /\ i = 4 /\ raw.values[i] = <<>>)
    <3>1. values[i] = raw.values[i]
      BY ONLY <1>6, <1>9, <2>3
    <3> QED BY <1>4, <3>1
  <2> QED BY <2>1, <2>2, <2>3, Zenon
<1>10. fields \in Seq(FieldTypes) /\ raw.name \in Nat
  BY <1>1, FieldDefs, StructsAre
<1>11. values = [i \in 1 .. n |-> values[i]]
  BY ONLY <1>6
<1> QED BY <1>2, <1>4, <1>8, <1>9, <1>10, <1>11, Zenon DEF Fields

-----------------------------------------------------------------------------
(* An encoder that is made from what a reader has *)

LEMMA NextAfterIs ==
  ASSUME NEW n \in Nat, NEW S, S \subseteq 0 .. n - 1, NEW m, m = NextAfter(S)
  PROVE m \in Nat /\ (\A i \in S : i \in 0 .. m - 1) /\ (S = 0 .. n - 1 => m = n)
<1>1. CASE S = {}
  <2>1. m = 0
    BY <1>1 DEF NextAfter
  <2> QED BY <1>1, <2>1
<1>2. CASE S # {}
  <2> DEFINE T == {k \in Nat : \A i \in S : i <= k}
  <2>1. n \in T
    OBVIOUS
  <2>2. PICK k \in T : \A y \in T : k <= y
    BY <2>1, LeastNat, T \subseteq Nat
  <2>3. k \in S
    <3> SUFFICES ASSUME k \notin S PROVE FALSE
      OBVIOUS
    <3>1. PICK j : j \in S
      BY <1>2
    <3>2. k \in Nat /\ \A i \in S : i \in Nat /\ i <= k /\ i # k
      BY <2>2
    <3>3. k - 1 \in Nat /\ \A i \in S : i <= k - 1
      BY <3>1, <3>2
    <3>4. k <= k - 1
      BY <2>2, <3>3
    <3> QED BY <3>2, <3>4
  <2>4. \A i \in S : i <= k
    BY <2>2
  <2> DEFINE c == CHOOSE i \in S : \A j \in S : j <= i
  <2>5. c \in S /\ \A j \in S : j <= c
    BY <2>3, <2>4, Zenon
  <2>6. m = 1 + c
    BY <1>2, Zenon DEF NextAfter
  <2> HIDE DEF c
  <2>7. m \in Nat /\ \A i \in S : i \in 0 .. m - 1
    BY <2>5, <2>6
  <2>8. ASSUME S = 0 .. n - 1 PROVE m = n
    <3>1. n - 1 \in S
      BY <1>2, <2>8
    <3>2. n - 1 <= c /\ c <= n - 1 /\ c \in Nat
      BY <2>5, <2>8, <3>1
    <3> QED BY <2>6, <3>2
  <2> QED BY <2>7, <2>8
<1> QED BY <1>1, <1>2

Resumes(enc1, d, behind, gone, e) ==
    /\ Sane(e) /\ Match(e, d, 0, {}) /\ e.reg = enc1.reg /\ e.names = enc1.names /\ e.base = enc1.base - behind
    /\ e.pool = [t \in DOMAIN enc1.pool \ gone |-> enc1.pool[t]]
    /\ Gapless(enc1) /\ gone = {} =>
          e.next_id = enc1.next_id /\ e.next_pool_id = enc1.next_pool_id /\ Gapless(e)

NamesOf(reg, names) == names = [n \in {reg[i].name : i \in DOMAIN reg} |-> CHOOSE i \in DOMAIN reg : reg[i].name = n]
LeftOf(e, gone, strings) == strings = [t \in DOMAIN e.pool \ gone |-> e.pool[t]]
StringsOf(pool, strings) == strings = [t \in {pool[i] : i \in DOMAIN pool} |-> CHOOSE i \in DOMAIN pool : pool[i] = t]

LEMMA NamesTaken ==
  ASSUME NEW e, Sane(e), NEW names, NamesOf(e.reg, names)
  PROVE names = e.names
<1>1. PICK N : N = {e.reg[i].name : i \in DOMAIN e.reg}
  OBVIOUS
<1>2. N = DOMAIN e.names
  <2>1. \A n \in DOMAIN e.names : n \in N
    BY <1>1 DEF Sane, NamesFit
  <2>2. \A n \in N : n \in DOMAIN e.names
    BY <1>1 DEF Sane, RegFits
  <2> QED BY <2>1, <2>2
<1>3. ASSUME NEW n \in N PROVE (CHOOSE i \in DOMAIN e.reg : e.reg[i].name = n) = e.names[n]
  <2>1. e.names[n] \in DOMAIN e.reg /\ e.reg[e.names[n]].name = n
    BY <1>2 DEF Sane, NamesFit
  <2>2. \A i \in DOMAIN e.reg : e.reg[i].name = n => i = e.names[n]
    BY DEF Sane, RegFits
  <2> DEFINE c == CHOOSE i \in DOMAIN e.reg : e.reg[i].name = n
  <2>3. c \in DOMAIN e.reg /\ e.reg[c].name = n
    BY <2>1, Zenon
  <2> HIDE DEF c
  <2>4. c = e.names[n]
    BY <2>2, <2>3
  <2> QED BY <2>4 DEF c
<1>4. [n \in N |-> CHOOSE i \in DOMAIN e.reg : e.reg[i].name = n] = [n \in N |-> e.names[n]]
  BY <1>3, Zenon
<1>5. e.names = [n \in N |-> e.names[n]]
  BY <1>2, Zenon DEF Sane, Keyed
<1> QED BY <1>1, <1>4, <1>5, Zenon DEF NamesOf

LEMMA StringsTaken ==
  ASSUME NEW e, Sane(e), NEW d, NEW behind, NEW gone, Match(e, d, behind, gone), NEW strings, StringsOf(d.pool, strings)
  PROVE LeftOf(e, gone, strings)
<1>1. PICK L : L = DOMAIN e.pool \ gone
  OBVIOUS
<1>2. DOMAIN d.pool = {e.pool[t] : t \in L} /\ \A t \in L : d.pool[e.pool[t]] = t
  BY <1>1 DEF Match
<1>3. {d.pool[i] : i \in DOMAIN d.pool} = L
  BY <1>2
<1>4. ASSUME NEW t \in L PROVE (CHOOSE i \in DOMAIN d.pool : d.pool[i] = t) = e.pool[t]
  <2>1. e.pool[t] \in DOMAIN d.pool /\ d.pool[e.pool[t]] = t
    BY <1>2
  <2>2. \A i \in DOMAIN d.pool : d.pool[i] = t => i = e.pool[t]
    BY <1>2
  <2> DEFINE c == CHOOSE i \in DOMAIN d.pool : d.pool[i] = t
  <2>3. c \in DOMAIN d.pool /\ d.pool[c] = t
    BY <2>1, Zenon
  <2> HIDE DEF c
  <2>4. c = e.pool[t]
    BY <2>2, <2>3
  <2> QED BY <2>4 DEF c
<1>5. [t \in L |-> CHOOSE i \in DOMAIN d.pool : d.pool[i] = t] = [t \in L |-> e.pool[t]]
  BY <1>4, Zenon
<1> QED BY <1>1, <1>3, <1>5, Zenon DEF StringsOf, LeftOf

LEMMA FromDecoder ==
  ASSUME NEW enc1, Sane(enc1), NEW d, NEW behind, NEW gone, Match(enc1, d, behind, gone), NEW e, e = from_decoder(d)
  PROVE Resumes(enc1, d, behind, gone, e)
<1>1. PICK names, pool, m, k : /\ NamesOf(d.reg, names) /\ StringsOf(d.pool, pool)
                               /\ m = NextAfter(DOMAIN d.reg) /\ k = NextAfter(DOMAIN d.pool)
  BY Zenon DEF NamesOf, StringsOf
<1>2. e = Encoder(names, <<>>, d.reg, m, pool, k, d.base)
  BY <1>1, Zenon DEF from_decoder, Encoder, NamesOf, StringsOf
<1>3. d.reg = enc1.reg
  BY Zenon DEF Match
<1>4. names = enc1.names
  BY <1>1, <1>3, NamesTaken, Zenon
<1>5. PICK L : L = DOMAIN enc1.pool \ gone
  OBVIOUS
<1>6. pool = [t \in L |-> enc1.pool[t]]
  <2>1. LeftOf(enc1, gone, pool)
    BY <1>1, StringsTaken, Zenon
  <2> QED BY ONLY <1>5, <2>1 DEF LeftOf
<1>7. DOMAIN pool = L /\ (\A t \in L : pool[t] = enc1.pool[t]) /\ Keyed(pool)
  BY ONLY <1>6 DEF Keyed
<1>8. DOMAIN d.pool = {enc1.pool[t] : t \in L} /\ (\A t \in L : d.pool[enc1.pool[t]] = t) /\ Keyed(d.pool)
      /\ d.base = enc1.base - behind /\ behind \in 0 .. enc1.base
  BY <1>5 DEF Match
<1>9. enc1.next_id \in Nat /\ enc1.next_pool_id \in Nat /\ enc1.base \in 0 .. Width - 1
  BY Zenon DEF Sane
<1>10. DOMAIN enc1.reg \subseteq 0 .. enc1.next_id - 1
  BY DEF Sane, RegFits
<1>11. m \in Nat /\ (\A i \in DOMAIN enc1.reg : i \in 0 .. m - 1)
       /\ (DOMAIN enc1.reg = 0 .. enc1.next_id - 1 => m = enc1.next_id)
  BY <1>1, <1>3, <1>9, <1>10, NextAfterIs
<1>12. DOMAIN d.pool \subseteq 0 .. enc1.next_pool_id - 1
  BY <1>5, <1>8 DEF Sane, PoolFits
<1>13. k \in Nat /\ (\A i \in DOMAIN d.pool : i \in 0 .. k - 1)
       /\ (DOMAIN d.pool = 0 .. enc1.next_pool_id - 1 => k = enc1.next_pool_id)
  BY <1>1, <1>9, <1>12, NextAfterIs
<1>14. /\ e.names = names /\ e.types = <<>> /\ e.reg = d.reg /\ e.next_id = m /\ e.pool = pool
       /\ e.next_pool_id = k /\ e.base = d.base
       /\ e = Encoder(e.names, e.types, e.reg, e.next_id, e.pool, e.next_pool_id, e.base)
  BY ONLY <1>2, EncoderIs
<1>15. NamesFit(e)
  BY ONLY <1>3, <1>4, <1>14, Sane(enc1) DEF Sane, NamesFit
<1>16. RegFits(e)
  <2>1. ASSUME NEW i \in DOMAIN e.reg
        PROVE i \in 0 .. e.next_id - 1 /\ IsEntry(e.reg[i]) /\ e.reg[i].name \in DOMAIN e.names /\ e.names[e.reg[i].name] = i
    <3>1. i \in DOMAIN enc1.reg /\ e.reg = enc1.reg /\ e.names = enc1.names /\ e.next_id = m
      BY <1>3, <1>4, <1>14
    <3>2. IsEntry(enc1.reg[i]) /\ enc1.reg[i].name \in DOMAIN enc1.names /\ enc1.names[enc1.reg[i].name] = i
      BY <3>1, Zenon DEF Sane, RegFits
    <3>3. i \in 0 .. m - 1
      BY <1>11, <3>1
    <3> QED BY ONLY <3>1, <3>2, <3>3
  <2> QED BY <2>1, Zenon DEF RegFits
<1>17. TypesFit(e) /\ Keyed(e.types)
  <2>1. DOMAIN <<>> = {} /\ <<>> = [x \in DOMAIN <<>> |-> <<>>[x]]
    OBVIOUS
  <2> QED BY ONLY <1>14, <2>1 DEF TypesFit, Keyed
<1>18. PoolFits(e)
  <2>1. \A t \in L : t \in Texts
    BY <1>5 DEF Sane, PoolFits
  <2>2. \A t \in L : enc1.pool[t] \in 0 .. k - 1
    BY <1>8, <1>13
  <2> QED BY ONLY <1>7, <1>14, <2>1, <2>2 DEF PoolFits
<1>19. PoolApart(e)
  BY ONLY <1>5, <1>7, <1>14, Sane(enc1) DEF Sane, PoolApart
<1>20. Sane(e)
  <2>1. e.next_id \in Nat /\ e.next_pool_id \in Nat /\ e.base \in 0 .. Width - 1
    BY ONLY <1>8, <1>9, <1>11, <1>13, <1>14, CodecAssumption
  <2>2. Keyed(e.names) /\ Keyed(e.reg) /\ Keyed(e.pool)
    BY <1>3, <1>4, <1>7, <1>14 DEF Sane
  <2> QED BY <1>14, <1>15, <1>16, <1>17, <1>18, <1>19, <2>1, <2>2, Zenon DEF Sane
<1>21. Match(e, d, 0, {})
  <2>1. DOMAIN e.pool \ {} = L /\ \A t \in L : e.pool[t] = enc1.pool[t]
    BY <1>7, <1>14
  <2>2. {e.pool[t] : t \in L} = {enc1.pool[t] : t \in L}
    BY <2>1
  <2>3. d.base = e.base - 0 /\ 0 \in 0 .. e.base
    BY <1>8, <1>9, <1>14
  <2>4. \A t \in L : d.pool[e.pool[t]] = t
    BY <1>8, <2>1
  <2>5. DOMAIN d.pool = {e.pool[t] : t \in DOMAIN e.pool \ {}}
    BY <1>8, <2>1, <2>2
  <2>6. \A t \in DOMAIN e.pool \ {} : d.pool[e.pool[t]] = t
    BY <2>1, <2>4
  <2>7. {} \subseteq DOMAIN e.pool
    OBVIOUS
  <2> QED BY <1>8, <1>14, <2>3, <2>5, <2>6, <2>7, Zenon DEF Match
<1>22. ASSUME Gapless(enc1), gone = {}
       PROVE e.next_id = enc1.next_id /\ e.next_pool_id = enc1.next_pool_id /\ Gapless(e)
  <2>1. DOMAIN enc1.reg = 0 .. enc1.next_id - 1 /\ {enc1.pool[t] : t \in DOMAIN enc1.pool} = 0 .. enc1.next_pool_id - 1
    BY <1>22, Zenon DEF Gapless
  <2>2. L = DOMAIN enc1.pool
    BY <1>5, <1>22
  <2>3. m = enc1.next_id /\ k = enc1.next_pool_id
    BY <1>8, <1>11, <1>13, <2>1, <2>2
  <2>4. {pool[t] : t \in DOMAIN pool} = {enc1.pool[t] : t \in DOMAIN enc1.pool}
    BY <1>7, <2>2
  <2> QED BY <1>3, <1>14, <2>1, <2>3, <2>4, Zenon DEF Gapless
<1> QED BY <1>3, <1>4, <1>5, <1>6, <1>8, <1>14, <1>20, <1>21, <1>22, Zenon DEF Resumes

-----------------------------------------------------------------------------
(* The entries of the symbol table *)

SymbolEntries ==
    {SymbolEntry(p[1], p[2], p[3], p[4], p[5]) :
        p \in (0 .. Width - 1) \X Texts \X (0 .. Width - 1) \X Texts \X (0 .. Width - 1)}

LEMMA EntryIn ==
  ASSUME NEW a \in 0 .. Width - 1, NEW name \in Texts, NEW depth \in 0 .. Width - 1, NEW file \in Texts, NEW line \in 0 .. Width - 1
  PROVE SymbolEntry(a, name, depth, file, line) \in SymbolEntries
<1>1. PICK p : p = <<a, name, depth, file, line>>
  OBVIOUS
<1>2. p \in (0 .. Width - 1) \X Texts \X (0 .. Width - 1) \X Texts \X (0 .. Width - 1)
  BY <1>1
<1>3. p[1] = a /\ p[2] = name /\ p[3] = depth /\ p[4] = file /\ p[5] = line
  BY ONLY <1>1
<1> QED BY <1>2, <1>3, Zenon DEF SymbolEntries

LEMMA ZeroFits == 0 \in 0 .. Width - 1 /\ Width \in Nat
  BY CodecAssumption

LEMMA TextsOfOne == ASSUME NEW n \in Nat, n # NotUtf8 PROVE <<n>> \in Texts
<1>1. <<n>> \in Seq(Nat) /\ DOMAIN <<n>> = {1} /\ <<n>>[1] = n
  OBVIOUS
<1> QED BY <1>1 DEF Texts, Utf8

LEMMA TextsJoined == ASSUME NEW s \in Texts, NEW t \in Texts PROVE s \o t \in Texts
<1>1. s \in Seq(Nat) /\ t \in Seq(Nat) /\ (\A i \in 1 .. Len(s) : s[i] # NotUtf8) /\ \A i \in 1 .. Len(t) : t[i] # NotUtf8
  BY DEF Texts, Utf8
<1>2. PICK x : x = s \o t
  OBVIOUS
<1>3. /\ x \in Seq(Nat) /\ Len(x) = Len(s) + Len(t) /\ (\A i \in 1 .. Len(s) : x[i] = s[i])
      /\ \A i \in 1 .. Len(t) : x[Len(s) + i] = t[i]
  BY <1>1, <1>2, JoinedSeq
<1>4. PICK m \in Nat, n \in Nat : m = Len(s) /\ n = Len(t)
  BY <1>1
<1>5. ASSUME NEW i \in 1 .. m + n PROVE x[i] # NotUtf8
  <2>1. CASE i \in 1 .. m
    BY <1>1, <1>3, <1>4, <2>1
  <2>2. CASE i \in m + 1 .. m + n
    <3>1. PICK j \in 1 .. n : i = m + j
      <4>1. i - m \in 1 .. n /\ i = m + (i - m)
        BY <2>2
      <4> QED BY <4>1
    <3> QED BY <1>1, <1>3, <1>4, <3>1
  <2> QED BY <2>1, <2>2
<1>6. DOMAIN x = 1 .. m + n
  BY <1>3, <1>4
<1> QED BY <1>2, <1>3, <1>5, <1>6 DEF Texts, Utf8

LEMMA NoText == <<>> \in Texts
<1>1. <<>> \in Seq(Nat) /\ DOMAIN <<>> = {}
  OBVIOUS
<1> QED BY <1>1 DEF Texts, Utf8

LEMMA InternedCode ==
  ASSUME NEW f, IsFunction(f), NEW c, c = intern_code_info(f.code)
  PROVE f.name \in Texts /\ c.file \in Texts /\ c.line \in 0 .. Width - 1
<1>1. CASE f.code = <<>>
  <2>1. c = [file |-> <<>>, line |-> 0]
    BY <1>1, Zenon DEF intern_code_info
  <2> QED BY <2>1, ZeroFits, NoText DEF IsFunction
<1>2. CASE f.code # <<>>
  <2>1. PICK file, line : file = Joined(f.code[1]) /\ line = IF f.code[1].line = <<>> THEN 0 ELSE f.code[1].line[1]
    OBVIOUS
  <2>2. c = [file |-> file, line |-> line]
    BY <1>2, <2>1, Zenon DEF intern_code_info
  <2>3. c.file = file /\ c.line = line
    BY ONLY <2>2
  <2>4. f.name \in Texts /\ f.code[1].dir \in Texts /\ f.code[1].file \in Texts
        /\ (f.code[1].line # <<>> => f.code[1].line \in {<<n>> : n \in 0 .. Width - 1})
    BY <1>2, Zenon DEF IsFunction
  <2>5. file \in Texts
    <3>1. <<Slash>> \in Texts
      BY TextsOfOne DEF Slash, NotUtf8
    <3>2. f.code[1].dir \o <<Slash>> \in Texts
      BY <2>4, <3>1, TextsJoined
    <3>3. f.code[1].dir \o <<Slash>> \o f.code[1].file \in Texts
      BY <2>4, <3>2, TextsJoined
    <3> QED BY <2>1, <2>4, <3>3, Zenon DEF Joined
  <2>6. line \in 0 .. Width - 1
    <3>1. CASE f.code[1].line = <<>>
      BY <2>1, <3>1, ZeroFits
    <3>2. CASE f.code[1].line # <<>>
      <4>1. PICK n \in 0 .. Width - 1 : f.code[1].line = <<n>>
        BY <2>4, <3>2
      <4>2. f.code[1].line[1] = n
        BY <4>1
      <4> QED BY <2>1, <3>2, <4>2
    <3> QED BY <3>1, <3>2
  <2> QED BY <2>3, <2>4, <2>5, <2>6
<1> QED BY <1>1, <1>2

LEMMA MappingsAre ==
  /\ Len(Mappings) \in Nat /\ DOMAIN Mappings = 1 .. Len(Mappings)
  /\ \A i \in DOMAIN Mappings : Mappings[i].path \in Texts
<1> DEFINE at(i) == [start |-> ProcMaps[i][1][1], end |-> ProcMaps[i][1][2], file_offset |-> ProcMaps[i][3], path |-> ProcMaps[i][6]]
           M == {at(i) : i \in {j \in DOMAIN ProcMaps : Len(ProcMaps[j]) >= 6}}
<1>1. PICK n \in Nat : n = Len(ProcMaps) /\ DOMAIN ProcMaps = 1 .. n
  BY SymbolizerAssumption
<1>2. \A i \in 1 .. n : Len(ProcMaps[i]) >= 6 => ProcMaps[i][6] \in Texts
  BY <1>1, SymbolizerAssumption
<1>3. \A m \in M : m.path \in Texts
  BY <1>1, <1>2
<1>4. ASSUME NEW i \in 1 .. n PROVE parse_maps_line(ProcMaps[i]) \in Seq(M)
  <2>1. CASE parse_maps_line(ProcMaps[i]) = <<>>
    BY <2>1
  <2>2. CASE parse_maps_line(ProcMaps[i]) # <<>>
    <3>1. Len(ProcMaps[i]) >= 6 /\ parse_maps_line(ProcMaps[i]) = <<at(i)>>
      BY <2>2, Zenon DEF parse_maps_line
    <3>2. at(i) \in M
      BY <1>1, <3>1, Zenon
    <3> HIDE DEF M, at
    <3> QED BY <3>1, <3>2
  <2> QED BY <2>1, <2>2
<1> HIDE DEF M
<1>5. PICK parts : parts = [i \in 1 .. n |-> parse_maps_line(ProcMaps[i])]
  OBVIOUS
<1>6. parts \in [1 .. n -> Seq(M)]
  BY <1>4, <1>5
<1>7. FlattenSeq(parts) \in Seq(M)
  BY <1>6, FlatSeq
<1>8. Mappings = FlattenSeq(parts)
  BY <1>1, <1>5, Zenon DEF Mappings, parse_proc_maps
<1>9. Mappings \in Seq(M)
  BY <1>7, <1>8
<1> QED BY ONLY <1>3, <1>9

LEMMA FileIs ==
  ASSUME NEW a, NEW i \in MappingOf(a)
  PROVE FileOf(i) \in Texts /\ (i = Kernel \/ i \in DOMAIN Mappings)
<1>1. i = Kernel \/ i \in DOMAIN Mappings
  BY DEF MappingOf
<1>2. CASE i = Kernel
  <2>1. <<107>> \in Texts
    BY TextsOfOne DEF NotUtf8
  <2> QED BY <1>2, <2>1 DEF FileOf, KernelFile
<1>3. CASE i # Kernel
  BY <1>1, <1>3, MappingsAre DEF FileOf
<1> QED BY <1>1, <1>2, <1>3

LEMMA SymbolsAre ==
  ASSUME NEW i, NEW a \in 0 .. Width - 1
  PROVE Symbols(i, a) \in Seq(SymbolEntries)
<1>1. PICK fs : fs = Found(i, a)
  OBVIOUS
<1>2. PICK n \in Nat : DOMAIN fs = 1 .. n /\ n <= Width /\ \A d \in 1 .. n : IsFunction(fs[d])
  <2>1. PICK place : fs = Functions(place)
    BY <1>1, Zenon DEF Found
  <2>2. CASE place \in DOMAIN Code
    <3>1. fs = Code[place]
      BY <2>1, <2>2, Zenon DEF Functions
    <3>2. fs \in Seq(Range(fs)) /\ Len(fs) <= Width /\ \A d \in DOMAIN fs : IsFunction(fs[d])
      BY <2>2, <3>1, SymbolizerAssumption, Zenon
    <3> QED BY <3>2
  <2>3. CASE place \notin DOMAIN Code
    <3>1. fs = <<>>
      BY <2>1, <2>3, Zenon DEF Functions
    <3>2. DOMAIN fs = 1 .. 0 /\ 0 <= Width /\ \A d \in 1 .. 0 : FALSE
      BY <3>1, ZeroFits
    <3> QED BY <3>2
  <2> QED BY <2>2, <2>3
<1> DEFINE entry(d) == SymbolEntry(a, fs[d].name, d - 1, intern_code_info(fs[d].code).file, intern_code_info(fs[d].code).line)
<1>3. ASSUME NEW d \in 1 .. n PROVE entry(d) \in SymbolEntries
  <2>1. PICK c : c = intern_code_info(fs[d].code)
    OBVIOUS
  <2>2. fs[d].name \in Texts /\ c.file \in Texts /\ c.line \in 0 .. Width - 1
    BY <1>2, <2>1, InternedCode
  <2>3. d - 1 \in 0 .. Width - 1
    BY <1>2, ZeroFits
  <2> QED BY <2>1, <2>2, <2>3, EntryIn
<1>4. PICK x : x = [d \in 1 .. n |-> entry(d)]
  OBVIOUS
<1>5. Symbols(i, a) = x
  BY <1>1, <1>2, <1>4, Zenon DEF Symbols
<1> HIDE DEF entry
<1>6. x \in [1 .. n -> SymbolEntries]
  BY <1>3, <1>4
<1> QED BY <1>5, <1>6, AsSeq

LEMMA EntriesAre ==
  ASSUME NEW i, NEW broken, NEW known, NEW a \in 0 .. Width - 1
  PROVE Entries(i, broken, known, a) \in Seq(SymbolEntries)
<1>1. CASE a \notin known \/ i \notin MappingOf(a)
  <2>1. Entries(i, broken, known, a) = <<>>
    BY <1>1, Zenon DEF Entries
  <2> QED BY <2>1
<1>2. CASE a \in known /\ i \in MappingOf(a) /\ i \in broken
  <2>1. Entries(i, broken, known, a) = <<SymbolEntry(a, Hex(a), 0, FileOf(i), 0)>>
    BY <1>2, Zenon DEF Entries, Placeholder
  <2>2. Hex(a) \in Texts
    <3>1. NotUtf8 + 1 + a \in Nat /\ NotUtf8 + 1 + a # NotUtf8
      BY ZeroFits DEF NotUtf8
    <3> QED BY <3>1, TextsOfOne DEF Hex
  <2>3. SymbolEntry(a, Hex(a), 0, FileOf(i), 0) \in SymbolEntries
    BY <1>2, <2>2, FileIs, ZeroFits, EntryIn
  <2> QED BY <2>1, <2>3
<1>3. CASE a \in known /\ i \in MappingOf(a) /\ i \notin broken
  BY <1>3, SymbolsAre, Zenon DEF Entries
<1> QED BY <1>1, <1>2, <1>3

LEMMA InOrderIs ==
  ASSUME NEW order \in Seq(Nat), NEW broken, NEW known
  PROVE InOrder(order, broken, known) \in Seq(SymbolEntries)
<1> DEFINE lines(i) == FlattenSeq([n \in 1 .. Width |-> Entries(i, broken, known, n - 1)])
<1>1. ASSUME NEW i PROVE lines(i) \in Seq(SymbolEntries)
  <2>1. \A n \in 1 .. Width : n - 1 \in 0 .. Width - 1
    BY ZeroFits
  <2>2. \A n \in 1 .. Width : Entries(i, broken, known, n - 1) \in Seq(SymbolEntries)
    BY <2>1, EntriesAre
  <2>3. PICK x : x = [n \in 1 .. Width |-> Entries(i, broken, known, n - 1)]
    OBVIOUS
  <2>4. x \in [1 .. Width -> Seq(SymbolEntries)]
    BY <2>2, <2>3
  <2>5. FlattenSeq(x) \in Seq(SymbolEntries)
    BY <2>4, ZeroFits, FlatSeq
  <2> QED BY <2>3, <2>5
<1>2. PICK parts : parts = [i \in DOMAIN order |-> lines(order[i])]
  OBVIOUS
<1>3. InOrder(order, broken, known) = FlattenSeq(parts)
  BY <1>2, Zenon DEF InOrder
<1> HIDE DEF lines
<1>4. Len(order) \in Nat /\ DOMAIN order = 1 .. Len(order)
  OBVIOUS
<1>5. parts \in [1 .. Len(order) -> Seq(SymbolEntries)]
  BY <1>1, <1>2, <1>4
<1> QED BY <1>3, <1>4, <1>5, FlatSeq

LEMMA SymbolDataInOrder ==
  ASSUME NEW addresses, NEW entries \in SymbolData(addresses)
  PROVE \E order \in Seq(Nat) : \E broken, known : entries = InOrder(order, broken, known)
<1> DEFINE known == {a \in addresses : MappingOf(a) # {}}
           groups == UNION {MappingOf(a) : a \in known}
           kernel == IF Kernel \in groups THEN <<Kernel>> ELSE <<>>
           all(broken) == {InOrder(kernel \o user, broken, known) : user \in SetToSeqs(groups \ {Kernel})}
<1>2. PICK broken \in SUBSET groups : entries \in all(broken)
  BY DEF SymbolData
<1>1. groups = UNION {MappingOf(a) : a \in known} /\ kernel = IF Kernel \in groups THEN <<Kernel>> ELSE <<>>
  OBVIOUS
<1> HIDE DEF known, groups, kernel
<1>3. PICK user \in SetToSeqs(groups \ {Kernel}) : entries = InOrder(kernel \o user, broken, known)
  BY <1>2
<1>4. user \in Seq(Nat)
  <2>1. groups \ {Kernel} \subseteq DOMAIN Mappings
    BY <1>1, FileIs
  <2>2. IsFiniteSet(groups \ {Kernel})
    <3>1. IsFiniteSet(1 .. Len(Mappings))
      BY MappingsAre, FS_Interval
    <3> QED BY <2>1, <3>1, MappingsAre, FS_Subset
  <2>3. Cardinality(groups \ {Kernel}) \in Nat
    BY <2>2, FS_CardinalityType
  <2>4. user \in [1 .. Cardinality(groups \ {Kernel}) -> groups \ {Kernel}]
    BY <1>3, Zenon DEF SetToSeqs
  <2>5. user \in Seq(groups \ {Kernel})
    BY <2>3, <2>4, AsSeq
  <2>6. groups \ {Kernel} \subseteq Nat
    BY <2>1, MappingsAre
  <2> QED BY <2>5, <2>6, Wider
<1>5. kernel \in Seq(Nat)
  BY <1>1 DEF Kernel
<1>6. kernel \o user \in Seq(Nat)
  BY <1>4, <1>5
<1> QED BY <1>3, <1>6, Zenon

LEMMA SymbolDataIs ==
  ASSUME NEW addresses, NEW entries \in SymbolData(addresses)
  PROVE entries \in Seq(SymbolEntries)
  BY SymbolDataInOrder, InOrderIs

\* The entries can be written.
LEMMA SymbolFits ==
  ASSUME NEW ev \in SymbolEntries, NEW fields, fields = field_defs(SymbolTable)
  PROVE ev.name = SymbolTable /\ SymbolTable \in Nat /\ ev.ts \in 0 .. Width - 1 /\ Fields(fields, ev.values)
<1>1. PICK p \in (0 .. Width - 1) \X Texts \X (0 .. Width - 1) \X Texts \X (0 .. Width - 1) :
         ev = SymbolEntry(p[1], p[2], p[3], p[4], p[5])
  BY DEF SymbolEntries
<1>2. PICK values : values = <<<<p[1]>>, <<0>>, p[2], <<p[3]>>, p[4], <<p[5]>>>>
  OBVIOUS
<1>3. ev = [name |-> SymbolTable, ts |-> 0, values |-> values]
  BY <1>1, <1>2, Zenon DEF SymbolEntry
<1>4. ev.name = SymbolTable /\ ev.ts = 0 /\ ev.values = values
  BY ONLY <1>3
<1>5. SymbolTable \in DOMAIN Structs /\ SymbolTable \in Nat
  BY SymbolizerAssumption, StructsAre
<1>6. Structs[SymbolTable] = <<"u64", "u64", "InternedString", "u64", "InternedString", "u64">>
  BY SymbolizerAssumption
<1>7. fields \in Seq(FieldTypes) /\ Len(fields) = 6 /\ \A i \in 1 .. 6 : fields[i] = field_type[Structs[SymbolTable][i]]
  <2>1. Len(Structs[SymbolTable]) = 6
    BY <1>6
  <2>2. PICK name \in DOMAIN Structs : name = SymbolTable
    BY <1>5
  <2>3. PICK x : x = field_defs(name)
    OBVIOUS
  <2>4. x = fields
    BY <2>2, <2>3
  <2>5. /\ x \in Seq(FieldTypes) /\ Len(x) = Len(Structs[name]) /\ Len(x) \in Nat
        /\ \A i \in 1 .. Len(x) : x[i] = field_type[Structs[name][i]] /\ x[i] \in FieldTypes
    BY <2>3, FieldDefs, Zenon
  <2> QED BY <2>1, <2>2, <2>4, <2>5
<1>8. /\ fields[1] = Varint /\ fields[2] = Varint /\ fields[3] = PooledString
      /\ fields[4] = Varint /\ fields[5] = PooledString /\ fields[6] = Varint
  BY <1>6, <1>7, RustTypesAre
<1>9. Field(Varint) = {<<n>> : n \in 0 .. Width - 1} /\ Field(PooledString) = Texts
  <2>1. Varint # PooledString
    BY DEF PooledString, Varint
  <2>2. FieldValues(Varint) = {<<n>> : n \in 0 .. Width - 1}
    BY DEF FieldValues, Varint, Bool, String, Bytes, StackFrames, StringMap
  <2> QED BY <2>1, <2>2, Zenon DEF Field
<1>10. /\ values[1] \in Field(Varint) /\ values[2] \in Field(Varint) /\ values[3] \in Field(PooledString)
       /\ values[4] \in Field(Varint) /\ values[5] \in Field(PooledString) /\ values[6] \in Field(Varint)
  BY <1>2, <1>9, ZeroFits
<1>11. \A i \in 1 .. 6 : i = 1 \/ i = 2 \/ i = 3 \/ i = 4 \/ i = 5 \/ i = 6
  OBVIOUS
<1>12. \A i \in 1 .. 6 : values[i] \in Field(fields[i])
  BY ONLY <1>8, <1>10, <1>11, Zenon
<1>13. values = [i \in 1 .. 6 |-> values[i]]
  BY ONLY <1>2
<1> QED BY <1>4, <1>5, <1>7, <1>12, <1>13, ZeroFits DEF Fields

-----------------------------------------------------------------------------
(* Symbolizing *)

LEMMA JoinedAppend ==
  ASSUME NEW S, NEW s \in Seq(S), NEW m \in Nat, NEW old, old = [i \in 1 .. m |-> old[i]],
         NEW new, new = [i \in 1 .. m + 1 |-> new[i]], \A i \in 1 .. m : new[i] = old[i]
  PROVE Append(s \o old, new[m + 1]) = s \o new
<1>1. PICK T : T = S \union {new[i] : i \in 1 .. m + 1}
  OBVIOUS
<1>2. new \in [1 .. m + 1 -> T] /\ old \in [1 .. m -> T] /\ S \subseteq T
  <2>1. \A i \in 1 .. m + 1 : new[i] \in T
    BY <1>1
  <2>2. \A i \in 1 .. m : i \in 1 .. m + 1
    OBVIOUS
  <2>3. \A i \in 1 .. m : old[i] \in T
    BY <2>1, <2>2
  <2> QED BY <1>1, <2>1, <2>3
<1>3. s \in Seq(T)
  BY <1>2, Wider
<1>4. new \in Seq(T) /\ Len(new) = m + 1
  BY <1>2, AsSeq
<1>5. old \in Seq(T) /\ Len(old) = m
  BY <1>2, AsSeq
<1>6. PICK x \in T : x = new[m + 1]
  <2>1. m + 1 \in 1 .. m + 1
    OBVIOUS
  <2> QED BY <1>2, <2>1
<1>7. PICK a, b : a = s \o old /\ b = s \o new
  OBVIOUS
<1>8. /\ a \in Seq(T) /\ Len(a) = Len(s) + m /\ (\A i \in 1 .. Len(s) : a[i] = s[i])
      /\ \A i \in 1 .. m : a[Len(s) + i] = old[i]
  BY <1>3, <1>5, <1>7, JoinedSeq
<1>9. /\ b \in Seq(T) /\ Len(b) = Len(s) + (m + 1) /\ (\A i \in 1 .. Len(s) : b[i] = s[i])
      /\ \A i \in 1 .. m + 1 : b[Len(s) + i] = new[i]
  BY <1>3, <1>4, <1>7, JoinedSeq
<1>10. PICK n \in Nat : n = Len(s)
  BY <1>3
<1>11. PICK y : y = Append(a, x)
  OBVIOUS
<1>12. y \in Seq(T) /\ Len(y) = n + m + 1 /\ y[n + m + 1] = x /\ \A i \in 1 .. n + m : y[i] = a[i]
  BY <1>6, <1>8, <1>10, <1>11
<1>13. ASSUME NEW i \in 1 .. n + m + 1 PROVE y[i] = b[i]
  <2>1. CASE i \in 1 .. n
    <3>1. i \in 1 .. n + m
      BY <2>1
    <3> QED BY <1>8, <1>9, <1>10, <1>12, <2>1, <3>1
  <2>2. CASE i \in n + 1 .. n + m
    <3>1. PICK j \in 1 .. m : i = n + j
      <4>1. i - n \in 1 .. m /\ i = n + (i - n)
        BY <2>2
      <4> QED BY <4>1
    <3>2. i \in 1 .. n + m /\ j \in 1 .. m + 1
      BY <3>1
    <3>3. y[i] = old[j]
      BY <1>8, <1>10, <1>12, <3>1, <3>2
    <3>4. b[i] = new[j]
      BY <1>9, <1>10, <3>1, <3>2
    <3> QED BY <3>1, <3>3, <3>4
  <2>3. CASE i = n + m + 1
    <3>1. i = n + (m + 1) /\ m + 1 \in 1 .. m + 1
      BY ONLY <2>3, m \in Nat, n \in Nat
    <3> QED BY <1>6, <1>9, <1>10, <1>12, <2>3, <3>1
  <2> QED BY <2>1, <2>2, <2>3
<1>14. Len(b) = n + m + 1
  BY <1>9, <1>10
<1>15. y = b
  BY <1>9, <1>12, <1>13, <1>14, SameSeq
<1> QED BY <1>6, <1>7, <1>11, <1>15

\* The entries one by one
EntryByEntry(c, entries, n, h) == h = [i \in 0 .. n |-> IF i = 0 THEN c ELSE write(h[i - 1], entries[i])]
AllFit(fields, entries, n) ==
    \A i \in 1 .. n : /\ entries[i].name \in Nat /\ entries[i].ts \in 0 .. Width - 1
                      /\ fields = field_defs(entries[i].name) /\ Fields(fields, entries[i].values)
AllTexts(e, fields, entries, m) == \A i \in 1 .. m : HasTexts(e, fields, entries[i].values)
AllRead(e, fields, entries, shift, gone, m, reads) ==
    reads = [i \in 1 .. m |-> AsRead(e, fields, entries[i], shift, gone)]
SymbolsTo(c, s, behind, gone, e, fields, entries, m, c2) ==
    /\ Onward(c.enc, c2.enc)
    /\ c2.ok => AllTexts(c2.enc, fields, entries, m)
    /\ \E e2 : /\ Good(c2, s, behind, gone, e2)
               /\ \A reads : c2.ok /\ AllRead(c2.enc, fields, entries, behind, gone, m, reads) => e2.events = e.events \o reads

LEMMA SymbolsAgree ==
  ASSUME NEW c, NEW entries, NEW n \in Nat, NEW h, EntryByEntry(c, entries, n, h), NEW k, EntryByEntry(c, entries, n, k)
  PROVE h = k
<1>1. h[0] = k[0]
  BY DEF EntryByEntry
<1>2. \A i \in 1 .. n : h[i - 1] = k[i - 1] => h[i] = k[i]
  BY DEF EntryByEntry
<1>3. \A i \in 0 .. n : h[i] = k[i]
  BY <1>1, <1>2, SameSteps
<1> QED BY <1>3, Zenon DEF EntryByEntry

LEMMA SymbolNext ==
  ASSUME NEW c, NEW s, NEW behind, behind = 0, NEW gone, NEW e, NEW S, e.events \in Seq(S),
         NEW fields, NEW entries, NEW n \in Nat, AllFit(fields, entries, n), NEW m \in 1 .. n,
         NEW b, SymbolsTo(c, s, behind, gone, e, fields, entries, m - 1, b), NEW c2, c2 = write(b, entries[m])
  PROVE SymbolsTo(c, s, behind, gone, e, fields, entries, m, c2)
<1>1. PICK e1 : /\ Good(b, s, behind, gone, e1)
                /\ \A reads : b.ok /\ AllRead(b.enc, fields, entries, behind, gone, m - 1, reads) => e1.events = e.events \o reads
  BY Zenon DEF SymbolsTo
<1>2. Onward(c.enc, b.enc) /\ (b.ok => AllTexts(b.enc, fields, entries, m - 1))
  BY Zenon DEF SymbolsTo
<1>3. PICK ev : ev = entries[m]
  OBVIOUS
<1>4. ev.name \in Nat /\ ev.ts \in 0 .. Width - 1 /\ fields = field_defs(ev.name) /\ Fields(fields, ev.values)
  BY <1>3, Zenon DEF AllFit
<1>5. WritesTo(b, s, behind, gone, e1, ev, fields, c2)
  BY <1>1, <1>3, <1>4, WriteWrites, Zenon
<1>6. Onward(b.enc, c2.enc) /\ (c2.ok => b.ok) /\ (c2.ok => HasTexts(c2.enc, fields, ev.values))
  BY <1>5, Zenon DEF WritesTo
<1>7. PICK e2 : /\ Good(c2, s, behind, gone, e2)
                /\ e2.events = IF c2.ok THEN Append(e1.events, AsRead(c2.enc, fields, ev, Shift(c2.stages, behind), gone))
                               ELSE e1.events
  BY <1>5, Zenon DEF WritesTo
<1>8. Onward(c.enc, c2.enc)
  BY <1>2, <1>6, OnwardOn, Zenon
<1>9. \A i \in 1 .. m : i \in 1 .. m - 1 \/ i = m
  OBVIOUS
<1>10. \A i \in 1 .. m - 1 : i \in 1 .. n
  OBVIOUS
<1>11. ASSUME c2.ok, NEW i \in 1 .. m - 1
       PROVE /\ AsRead(c2.enc, fields, entries[i], behind, gone) = AsRead(b.enc, fields, entries[i], behind, gone)
             /\ HasTexts(c2.enc, fields, entries[i].values)
  <2>1. Fields(fields, entries[i].values)
    BY <1>10, Zenon DEF AllFit
  <2>2. HasTexts(b.enc, fields, entries[i].values)
    BY <1>2, <1>6, <1>11, Zenon DEF AllTexts
  <2>3. PICK ev1 : ev1 = entries[i]
    OBVIOUS
  <2>4. Fields(fields, ev1.values) /\ HasTexts(b.enc, fields, ev1.values)
    BY <2>1, <2>2, <2>3
  <2>5. PICK a1, a2 : a1 = b.enc /\ a2 = c2.enc
    OBVIOUS
  <2>6. Onward(a1, a2) /\ HasTexts(a1, fields, ev1.values)
    BY <1>6, <2>4, <2>5
  <2>7. AsRead(a2, fields, ev1, behind, gone) = AsRead(a1, fields, ev1, behind, gone) /\ HasTexts(a2, fields, ev1.values)
    BY <2>4, <2>6, AsReadStill
  <2> QED BY <2>3, <2>5, <2>7
<1>12. c2.ok => AllTexts(c2.enc, fields, entries, m)
  BY <1>3, <1>6, <1>9, <1>11, Zenon DEF AllTexts
<1>13. ASSUME NEW reads, c2.ok, AllRead(c2.enc, fields, entries, behind, gone, m, reads) PROVE e2.events = e.events \o reads
  <2>1. PICK old : old = [i \in 1 .. m - 1 |-> AsRead(b.enc, fields, entries[i], behind, gone)]
    OBVIOUS
  <2>2. AllRead(b.enc, fields, entries, behind, gone, m - 1, old)
    BY <2>1, Zenon DEF AllRead
  <2>3. e1.events = e.events \o old
    BY <1>1, <1>6, <1>13, <2>2, Zenon
  <2>4. Shift(c2.stages, behind) = behind
    BY Zenon DEF Shift
  <2>5. reads = [i \in 1 .. m |-> AsRead(c2.enc, fields, entries[i], behind, gone)]
    BY <1>13, Zenon DEF AllRead
  <2>6. reads[m] = AsRead(c2.enc, fields, ev, Shift(c2.stages, behind), gone)
    <3>1. m \in 1 .. m
      OBVIOUS
    <3> QED BY <1>3, <2>4, <2>5, <3>1
  <2>7. e2.events = Append(e1.events, reads[m])
    BY <1>7, <1>13, <2>6, Zenon
  <2>8. PICK k \in Nat : m = k + 1 /\ k = m - 1
    <3>1. m - 1 \in Nat /\ m = (m - 1) + 1
      OBVIOUS
    <3> QED BY <3>1
  <2>9. \A i \in 1 .. k : reads[i] = old[i]
    <3>1. \A i \in 1 .. k : i \in 1 .. m /\ i \in 1 .. m - 1
      BY <2>8
    <3> QED BY <1>11, <1>13, <2>1, <2>5, <3>1
  <2>10. reads = [i \in 1 .. k + 1 |-> reads[i]] /\ old = [i \in 1 .. k |-> old[i]]
    BY <2>1, <2>5, <2>8
  <2>11. PICK x \in Seq(S) : x = e.events
    OBVIOUS
  <2>12. Append(x \o old, reads[k + 1]) = x \o reads
    BY <2>9, <2>10, JoinedAppend, Zenon
  <2> QED BY <2>3, <2>7, <2>8, <2>11, <2>12
<1> QED BY <1>7, <1>8, <1>12, <1>13, Zenon DEF SymbolsTo

LEMMA AllSymbols ==
  ASSUME NEW c, NEW s, NEW behind, behind = 0, NEW gone, NEW e, NEW S, e.events \in Seq(S), Good(c, s, behind, gone, e),
         NEW fields, NEW entries, NEW n \in Nat, AllFit(fields, entries, n)
  PROVE \E h : EntryByEntry(c, entries, n, h) /\ SymbolsTo(c, s, behind, gone, e, fields, entries, n, h[n])
<1> DEFINE Reached(m) == \E h : EntryByEntry(c, entries, m, h) /\ SymbolsTo(c, s, behind, gone, e, fields, entries, m, h[m])
           T == {m \in Nat : m <= n /\ ~Reached(m)}
<1>1. T = {}
  <2> SUFFICES ASSUME T # {} PROVE FALSE
    OBVIOUS
  <2>1. PICK m \in T : \A y \in T : m <= y
    BY LeastNat, T \subseteq Nat
  <2>2. CASE m = 0
    <3>1. PICK h : h = [i \in 0 .. 0 |-> c]
      OBVIOUS
    <3>2. EntryByEntry(c, entries, 0, h)
      BY <3>1 DEF EntryByEntry
    <3>3. h[0] = c
      BY <3>1
    <3>4. Onward(c.enc, c.enc)
      BY OnwardSame, Zenon
    <3>5. \A i \in 1 .. 0 : FALSE
      OBVIOUS
    <3>6. AllTexts(c.enc, fields, entries, 0)
      BY <3>5, Zenon DEF AllTexts
    <3>7. ASSUME NEW reads, AllRead(c.enc, fields, entries, behind, gone, 0, reads) PROVE e.events = e.events \o reads
      <4>1. PICK x \in Seq(S) : x = e.events
        OBVIOUS
      <4>2. reads = <<>>
        BY <3>5, <3>7 DEF AllRead
      <4>3. x \o <<>> = x
        OBVIOUS
      <4> QED BY <4>1, <4>2, <4>3
    <3>8. SymbolsTo(c, s, behind, gone, e, fields, entries, 0, c)
      BY <3>4, <3>6, <3>7, Zenon DEF SymbolsTo
    <3> QED BY <2>1, <2>2, <3>2, <3>3, <3>8
  <2>3. CASE m # 0
    <3>1. m - 1 \in Nat /\ ~(m <= m - 1) /\ m - 1 <= n /\ m \in 1 .. n
      BY <2>1, <2>3
    <3>2. Reached(m - 1)
      BY <2>1, <3>1
    <3>3. PICK f : EntryByEntry(c, entries, m - 1, f) /\ SymbolsTo(c, s, behind, gone, e, fields, entries, m - 1, f[m - 1])
      BY <3>2
    <3>4. PICK b : b = f[m - 1]
      OBVIOUS
    <3>5. PICK x : x = write(b, entries[m])
      OBVIOUS
    <3>6. SymbolsTo(c, s, behind, gone, e, fields, entries, m, x)
      <4>1. SymbolsTo(c, s, behind, gone, e, fields, entries, m - 1, b)
        BY <3>3, <3>4
      <4> HIDE DEF T, Reached
      <4> QED BY <3>1, <3>5, <4>1, SymbolNext
    <3>7. PICK g : g = [i \in 0 .. m |-> IF i = m THEN x ELSE f[i]]
      OBVIOUS
    <3>8. g[m] = x
      BY <3>7, <3>1
    <3>9. EntryByEntry(c, entries, m, g)
      <4>1. ASSUME NEW i \in 0 .. m
            PROVE g[i] = IF i = 0 THEN c ELSE write(g[i - 1], entries[i])
        <5>1. CASE i = m
          <6>1. m - 1 \in 0 .. m /\ m - 1 # m
            BY <3>1
          <6>2. g[m - 1] = b
            BY <3>4, <3>7, <6>1
          <6> QED BY <2>3, <3>5, <3>8, <5>1, <6>2
        <5>2. CASE i = 0
          <6>1. 0 \in 0 .. m - 1 /\ 0 \in 0 .. m /\ 0 # m
            BY <3>1
          <6>2. g[0] = f[0] /\ f[0] = c
            BY <3>3, <3>7, <6>1, Zenon DEF EntryByEntry
          <6> QED BY <5>2, <6>2
        <5>3. CASE i # m /\ i # 0
          <6>1. i \in 0 .. m - 1 /\ i - 1 \in 0 .. m /\ i - 1 # m
            BY <3>1, <5>3
          <6>2. g[i] = f[i] /\ g[i - 1] = f[i - 1]
            BY <3>7, <5>3, <6>1
          <6>3. f[i] = IF i = 0 THEN c ELSE write(f[i - 1], entries[i])
            BY <3>3, <6>1, Zenon DEF EntryByEntry
          <6> QED BY <6>2, <6>3, Zenon
        <5> QED BY <5>1, <5>2, <5>3
      <4>2. g = [i \in 0 .. m |-> g[i]]
        BY <3>7
      <4> QED BY <4>1, <4>2, Zenon DEF EntryByEntry
    <3> QED BY <2>1, <3>6, <3>8, <3>9, Zenon
  <2> QED BY <2>2, <2>3
<1>2. n <= n
  OBVIOUS
<1> QED BY <1>1, <1>2

LEMMA SymbolizedIs ==
  ASSUME NEW d, NEW entries, NEW n \in Nat, n = Len(entries), NEW c, c = Call(from_decoder(d)), NEW h, EntryByEntry(c, entries, n, h)
  PROVE Symbolized(d, entries) = h[n]
<1> DEFINE k == CHOOSE f : EntryByEntry(c, entries, n, f)
<1>3. EntryByEntry(c, entries, n, k)
  BY Zenon
<1>4. k = h
  BY <1>3, SymbolsAgree, Zenon
<1>5. Symbolized(d, entries) = k[n]
  BY Zenon DEF Symbolized, Loop, EntryByEntry
<1> HIDE DEF k
<1> QED BY <1>4, <1>5

\* A call begins
LEMMA CallStarts ==
  ASSUME NEW enc1, Sane(enc1), NEW s, NEW d, ReadsTo(s, d), NEW behind, NEW gone, Match(enc1, d, behind, gone), NEW c, c = Call(enc1)
  PROVE c.enc = enc1 /\ c.ok /\ c.stages = <<>> /\ Good(c, s, behind, gone, d) /\ Quiet(c, s, d, gone, d)
<1>1. IsCall(c) /\ c.enc = enc1 /\ c.ok /\ c.stages = <<>>
  <2>1. c = [enc |-> enc1, stages |-> <<>>, ok |-> TRUE]
    BY Zenon DEF Call
  <2> QED BY ONLY <2>1 DEF IsCall
<1>2. Staged(c.stages) /\ Numbers(c.stages) = <<>> /\ \A tag : ~Wrote(c.stages, tag)
  BY <1>1, NoStages, Zenon
<1>3. s \in Seq(Nat)
  BY Zenon DEF ReadsTo, Arrives
<1>4. s \o Numbers(c.stages) = s
  BY <1>2, <1>3, JoinedNothing
<1>5. Shift(c.stages, behind) = behind
  BY <1>2, Zenon DEF Shift
<1>6. Good(c, s, behind, gone, d)
  BY <1>1, <1>2, <1>3, <1>4, <1>5, Zenon DEF Good
<1>7. Partial(c.stages, s, d, gone)
  <2>1. Len(c.stages) = 0 /\ \A i \in 1 .. 0 : FALSE
    BY <1>1
  <2> QED BY <2>1, Zenon DEF Partial
<1>8. Quiet(c, s, d, gone, d)
  BY <1>2, <1>7, Zenon DEF Quiet, KeepsPool
<1> QED BY <1>1, <1>6, <1>8

-----------------------------------------------------------------------------
(* The stream and its encoder *)

\* What is whole of a stream can be read, and holds the events that were written.
Whole(o, k, l) == \E d : ReadsTo(SubSeq(o, 1, k), d) /\ d.events = l
\* There is a reader in step with the encoder; when no frame was cut short, it is one of the stream.
InStep(e, o, k, l, behind, gone) ==
    \E s, d : ReadsTo(s, d) /\ Match(e, d, behind, gone) /\ (k = Len(o) => s = o /\ d.events = l)
\* The texts of the events behind the first m are in the pool that is left behind.
Shown(o, k, l, m) == \A i \in m + 1 .. Len(l) : Shows(Read("events", SubSeq(o, 1, k)).pool, l[i])

LEMMA PoolRead ==
  ASSUME NEW s, NEW d, ReadsTo(s, d)
  PROVE Read("events", s).pool = d.pool
<1>1. PICK dd : dd = Read("events", s) /\ dd = [d EXCEPT !.status = "end"]
  BY ReadEnds, Zenon DEF ReadsTo, Readers
<1>2. d = Decoder(Len(s), d.reg, d.pool, d.base, d.events, "reading")
  BY Zenon DEF ReadsTo, Arrives, Stands
<1>3. dd.pool = d.pool
  BY ONLY <1>1, <1>2 DEF Decoder
<1> QED BY <1>1, <1>3

LEMMA WholeShown ==
  ASSUME NEW o \in Seq(Nat), NEW d, ReadsTo(o, d), NEW l, NEW m
  PROVE Shown(o, Len(o), l, m) <=> \A i \in m + 1 .. Len(l) : Shows(d.pool, l[i])
<1>1. SubSeq(o, 1, Len(o)) = o
  OBVIOUS
<1> QED BY <1>1, PoolRead, Zenon DEF Shown

\* More events are shown, when the pool grows with them.
LEMMA ShownMore ==
  ASSUME NEW o \in Seq(Nat), NEW d, ReadsTo(o, d), NEW o2 \in Seq(Nat), NEW e, ReadsTo(o2, e), KeepsPool(d, e),
         NEW S, NEW l \in Seq(S), NEW w \in Seq(S), \A i \in DOMAIN w : Shows(e.pool, w[i]),
         NEW m \in 0 .. Len(l), Shown(o, Len(o), l, m)
  PROVE Shown(o2, Len(o2), l \o w, m)
<1>1. PICK j \in Nat, k \in Nat : j = Len(l) /\ k = Len(w) /\ DOMAIN w = 1 .. k
  OBVIOUS
<1>2. PICK x : x = l \o w
  OBVIOUS
<1>3. Len(x) = j + k /\ (\A i \in 1 .. j : x[i] = l[i]) /\ \A i \in 1 .. k : x[j + i] = w[i]
  BY <1>1, <1>2
<1>4. \A i \in m + 1 .. j : Shows(d.pool, l[i])
  BY <1>1, WholeShown
<1>5. ASSUME NEW i \in m + 1 .. j + k PROVE Shows(e.pool, x[i])
  <2>1. CASE i <= j
    <3>1. i \in m + 1 .. j /\ x[i] = l[i]
      BY <1>1, <1>3, <2>1
    <3>2. Shows(d.pool, x[i])
      BY <1>4, <3>1
    <3> QED BY <3>2, Zenon DEF Shows, KeepsPool
  <2>2. CASE i > j
    <3>1. PICK n \in 1 .. k : i = j + n
      <4>1. i - j \in 1 .. k /\ i = j + (i - j)
        BY <1>1, <2>2
      <4> QED BY <4>1
    <3> QED BY <1>1, <1>3, <3>1
  <2> QED BY <1>1, <2>1, <2>2
<1> QED BY <1>2, <1>3, <1>5, WholeShown

\* Behind a frame that was cut short nothing changes what is whole.
LEMMA ShownStill ==
  ASSUME NEW o, NEW k, NEW o2, SubSeq(o2, 1, k) = SubSeq(o, 1, k), NEW l, NEW m, Shown(o, k, l, m)
  PROVE Shown(o2, k, l, m)
  BY Zenon DEF Shown

Counts(o, k, l) == o \in Seq(Nat) /\ k \in 0 .. Len(o) /\ \E S : l \in Seq(S)
Places == mark \in 0 .. intact /\ segment \in 0 .. Len(log) /\ failures \in Nat
NoGaps == failures = 0 => Gapless(enc) /\ unread = {}

StreamInv ==
    /\ Sane(enc) /\ Counts(out, intact, log) /\ Places /\ NoGaps
    /\ Whole(out, intact, log) /\ InStep(enc, out, intact, log, lag, unread)
    /\ Shown(out, intact, log, segment)

Plus(events, w) == IF w = <<>> THEN events ELSE Append(events, w[1])
AtMostOne(w) == w = <<>> \/ \E x : w = <<x>>
Outcome(c, enc1, behind, gone, w) ==
    /\ AtMostOne(w)
    /\ \A s, d : ReadsTo(s, d) /\ Match(enc1, d, behind, gone) =>
          /\ Onward(enc1, c.enc)
          /\ \E e : /\ Good(c, s, behind, gone, e) /\ e.events = Plus(d.events, w)
                   /\ \A i \in DOMAIN w : Shows(e.pool, w[i])
          /\ Partial(c.stages, s, d, gone)

LEMMA PlusIs ==
  ASSUME NEW S, NEW l \in Seq(S), NEW w, AtMostOne(w)
  PROVE Plus(l, w) = l \o w /\ (\E T : l \o w \in Seq(T)) /\ Len(l) \in Nat /\ Len(l) <= Len(l \o w) /\ Len(l \o w) \in Nat
<1>1. CASE w = <<>>
  <2>1. l \o <<>> = l /\ Len(l) \in Nat
    OBVIOUS
  <2> QED BY <1>1, <2>1 DEF Plus
<1>2. CASE w # <<>>
  <2>1. PICK x : w = <<x>>
    BY <1>2, Zenon DEF AtMostOne
  <2>2. PICK T : T = S \union {x}
    OBVIOUS
  <2>3. l \in Seq(T) /\ x \in T
    BY <2>2, Wider
  <2>4. Append(l, x) = l \o <<x>> /\ l \o <<x>> \in Seq(T) /\ Len(l \o <<x>>) = Len(l) + 1 /\ Len(l) \in Nat
    BY <2>3
  <2>5. w[1] = x
    BY <2>1
  <2>6. Plus(l, w) = Append(l, x)
    BY <1>2, <2>5, Zenon DEF Plus
  <2>7. Len(l) <= Len(l) + 1 /\ Len(l) + 1 \in Nat
    BY ONLY <2>4
  <2>8. PICK y : y = l \o <<x>>
    OBVIOUS
  <2>9. l \o w = y
    BY <2>1, <2>8
  <2>10. Plus(l, w) = y /\ y \in Seq(T) /\ Len(y) = Len(l) + 1
    BY ONLY <2>4, <2>6, <2>8
  <2>11. Len(l) <= Len(y) /\ Len(y) \in Nat /\ \E R : y \in Seq(R)
    BY ONLY <2>7, <2>10
  <2> QED BY <2>4, <2>9, <2>10, <2>11, Zenon
<1> QED BY <1>1, <1>2

Comes(c, o, k, l, behind, w, enc2, o2, k2, l2, behind2) ==
    /\ enc2 = c.enc /\ o2 = o \o Numbers(c.stages) /\ behind2 = Shift(c.stages, behind)
    /\ IF k = Len(o) THEN k2 = Len(o2) /\ l2 = l \o w ELSE k2 = k /\ l2 = l

LEMMA CallDone ==
  ASSUME NEW enc1, NEW o, NEW k, NEW l, NEW behind, NEW gone, Counts(o, k, l), Whole(o, k, l), InStep(enc1, o, k, l, behind, gone),
         NEW c, NEW w, Outcome(c, enc1, behind, gone, w),
         NEW enc2, NEW o2, NEW k2, NEW l2, NEW behind2, Comes(c, o, k, l, behind, w, enc2, o2, k2, l2, behind2)
  PROVE /\ Sane(enc2) /\ Counts(o2, k2, l2) /\ Whole(o2, k2, l2) /\ InStep(enc2, o2, k2, l2, behind2, gone)
        /\ (Gapless(enc1) => Gapless(enc2)) /\ k <= k2 /\ Len(l) <= Len(l2) /\ k \in Nat /\ k2 \in Nat /\ Len(l) \in Nat /\ Len(l2) \in Nat
        /\ \A m \in 0 .. Len(l) : Shown(o, k, l, m) => Shown(o2, k2, l2, m)
<1>1. PICK s, d : ReadsTo(s, d) /\ Match(enc1, d, behind, gone) /\ (k = Len(o) => s = o /\ d.events = l)
  BY Zenon DEF InStep
<1>2. PICK e : Good(c, s, behind, gone, e) /\ e.events = Plus(d.events, w) /\ \A i \in DOMAIN w : Shows(e.pool, w[i])
  BY <1>1, Zenon DEF Outcome
<1>3. enc2 = c.enc /\ o2 = o \o Numbers(c.stages) /\ behind2 = Shift(c.stages, behind)
  BY Zenon DEF Comes
<1>4. /\ Sane(c.enc) /\ Staged(c.stages) /\ ReadsTo(s \o Numbers(c.stages), e)
      /\ Match(c.enc, e, Shift(c.stages, behind), gone)
  BY <1>2, Zenon DEF Good
<1>5. PICK u \in Seq(Nat) : u = Numbers(c.stages)
  BY <1>4, NumbersSeq
<1>6. o \in Seq(Nat) /\ k \in 0 .. Len(o)
  BY Zenon DEF Counts
<1>7. PICK S : l \in Seq(S)
  BY Zenon DEF Counts
<1>8. /\ Plus(l, w) = l \o w /\ (\E T : l \o w \in Seq(T)) /\ Len(l) \in Nat /\ Len(l) <= Len(l \o w) /\ Len(l \o w) \in Nat
  BY <1>7, PlusIs, Zenon DEF Outcome
<1>9. o2 = o \o u /\ o2 \in Seq(Nat) /\ Len(o2) = Len(o) + Len(u) /\ Len(o) \in Nat /\ Len(u) \in Nat
  BY <1>3, <1>5, <1>6
<1>10. Gapless(enc1) => Gapless(enc2)
  BY <1>1, <1>3, Zenon DEF Outcome, Onward
<1>11. CASE k = Len(o)
  <2>1. k2 = Len(o2) /\ l2 = l \o w
    BY <1>11, Zenon DEF Comes
  <2>2. s = o /\ d.events = l
    BY <1>1, <1>11
  <2>3. ReadsTo(o2, e) /\ e.events = l2
    BY <1>2, <1>4, <1>5, <1>8, <1>9, <2>1, <2>2
  <2>4. Counts(o2, k2, l2)
    <3>1. k2 \in 0 .. Len(o2)
      BY <1>9, <2>1
    <3> QED BY <1>8, <1>9, <2>1, <3>1, Zenon DEF Counts
  <2>5. Whole(o2, k2, l2)
    <3>1. SubSeq(o2, 1, k2) = o2
      BY <1>9, <2>1
    <3> QED BY <2>3, <3>1, Zenon DEF Whole
  <2>6. InStep(enc2, o2, k2, l2, behind2, gone)
    BY <1>3, <1>4, <2>3, Zenon DEF InStep
  <2>7. k <= k2 /\ k \in Nat /\ k2 \in Nat
    BY ONLY <1>9, <1>11, <2>1
  <2>8. KeepsPool(d, e)
    <3>1. Onward(enc1, c.enc)
      BY <1>1, Zenon DEF Outcome
    <3> QED BY <1>1, <1>4, <3>1, PoolGrows
  <2>9. ASSUME NEW m \in 0 .. Len(l), Shown(o, k, l, m) PROVE Shown(o2, k2, l2, m)
    <3>1. AtMostOne(w)
      BY Zenon DEF Outcome
    <3>2. PICK R : l \in Seq(R) /\ w \in Seq(R)
      <4>1. PICK Q : Q = S \union {w[1]}
        OBVIOUS
      <4>2. l \in Seq(Q) /\ w[1] \in Q
        BY <1>7, <4>1, Wider
      <4>3. w \in Seq(Q)
        <5>1. CASE w = <<>>
          BY <5>1
        <5>2. CASE w # <<>>
          <6>1. PICK x : w = <<x>>
            BY <3>1, <5>2, Zenon DEF AtMostOne
          <6>2. x \in Q
            BY <4>2, <6>1
          <6> QED BY <6>1, <6>2
        <5> QED BY <5>1, <5>2
      <4> QED BY <4>2, <4>3
    <3>3. ReadsTo(o, d) /\ Shown(o, Len(o), l, m)
      BY <1>1, <1>11, <2>2, <2>9
    <3>4. Shown(o2, Len(o2), l \o w, m)
      BY <1>2, <1>6, <1>9, <2>3, <2>8, <3>2, <3>3, ShownMore
    <3> QED BY <2>1, <3>4
  <2> QED BY <1>3, <1>4, <1>8, <1>10, <2>1, <2>4, <2>5, <2>6, <2>7, <2>9
<1>12. CASE k # Len(o)
  <2>1. k2 = k /\ l2 = l
    BY <1>12, Zenon DEF Comes
  <2>2. k \in Nat /\ k < Len(o) /\ k2 # Len(o2)
    BY ONLY <1>6, <1>9, <1>12, <2>1
  <2>3. Counts(o2, k2, l2)
    <3>1. k2 \in 0 .. Len(o2)
      BY ONLY <1>6, <1>9, <2>1
    <3> QED BY <1>7, <1>9, <2>1, <3>1, Zenon DEF Counts
  <2>4. Whole(o2, k2, l2)
    <3>1. SubSeq(o \o u, 1, k) = SubSeq(o, 1, k)
      BY <1>6, Prefix
    <3>2. SubSeq(o2, 1, k2) = SubSeq(o, 1, k)
      BY <1>9, <2>1, <3>1
    <3> QED BY <2>1, <3>2, Zenon DEF Whole
  <2>5. InStep(enc2, o2, k2, l2, behind2, gone)
    BY <1>3, <1>4, <2>2, Zenon DEF InStep
  <2>6. k <= k2
    BY ONLY <2>1, <2>2
  <2>7. Len(l) <= Len(l2)
    BY ONLY <1>8, <2>1
  <2>8. ASSUME NEW m \in 0 .. Len(l), Shown(o, k, l, m) PROVE Shown(o2, k2, l2, m)
    <3>1. SubSeq(o \o u, 1, k) = SubSeq(o, 1, k)
      BY <1>6, Prefix
    <3>2. SubSeq(o2, 1, k) = SubSeq(o, 1, k)
      BY <1>9, <3>1
    <3> QED BY <2>1, <2>8, <3>2, ShownStill
  <2> QED BY <1>3, <1>4, <1>8, <1>10, <2>1, <2>2, <2>3, <2>4, <2>5, <2>6, <2>7, <2>8
<1> QED BY <1>11, <1>12

LEMMA SubIs ==
  ASSUME NEW x \in Seq(Nat), NEW j \in Nat, j <= Len(x)
  PROVE SubSeq(x, 1, j) \in Seq(Nat) /\ Len(SubSeq(x, 1, j)) = j
<1>1. SubSeq(x, 1, j) = [i \in 1 .. j |-> x[i]]
  OBVIOUS
<1>2. \A i \in 1 .. j : x[i] \in Nat
  OBVIOUS
<1>3. [i \in 1 .. j |-> x[i]] \in [1 .. j -> Nat]
  BY <1>2
<1> QED BY <1>1, <1>3, AsSeq

Breaks(enc1, o, k, behind, gone, before, failed, j, enc2, o2, k2, behind2, gone2) ==
    /\ enc2 = failed.onfail /\ o2 = (o \o Numbers(before)) \o SubSeq(failed.numbers, 1, j)
    /\ k2 = (IF k = Len(o) THEN Len(o) + Len(Numbers(before)) ELSE k)
    /\ behind2 = failed.onfail.base - Start(before, failed, enc1.base - behind)
    /\ gone2 = Lost(gone, failed)

\* What was shown is shown still.
ShownOn(o, k, l, o2, k2) == \A m : Shown(o, k, l, m) => Shown(o2, k2, l, m)

LEMMA CallBroken ==
  ASSUME NEW enc1, NEW o, NEW k, NEW l, NEW behind, NEW gone, Counts(o, k, l), Whole(o, k, l), InStep(enc1, o, k, l, behind, gone),
         NEW c, NEW w, Outcome(c, enc1, behind, gone, w), NEW i \in 1 .. Len(c.stages), NEW before, before = SubSeq(c.stages, 1, i - 1),
         NEW failed, failed = c.stages[i], NEW j \in Nat, j < Len(failed.numbers),
         NEW enc2, NEW o2, NEW k2, NEW behind2, NEW gone2,
         Breaks(enc1, o, k, behind, gone, before, failed, j, enc2, o2, k2, behind2, gone2)
  PROVE /\ Sane(enc2) /\ Counts(o2, k2, l) /\ Whole(o2, k2, l) /\ InStep(enc2, o2, k2, l, behind2, gone2)
        /\ k <= k2 /\ k \in Nat /\ k2 \in Nat
        /\ ShownOn(o, k, l, o2, k2)
<1>1. PICK s, d : ReadsTo(s, d) /\ Match(enc1, d, behind, gone) /\ (k = Len(o) => s = o /\ d.events = l)
  BY Zenon DEF InStep
<1>2. Partial(c.stages, s, d, gone) /\ \E e : Good(c, s, behind, gone, e)
  BY <1>1, Zenon DEF Outcome
<1>3. Staged(c.stages)
  BY <1>2, Zenon DEF Good
<1>4. FailsAt(before, failed, s, d, gone)
  BY <1>2, Zenon DEF Partial
<1>5. PICK e : /\ ReadsTo(s \o Numbers(before), e) /\ e.events = d.events /\ KeepsPool(d, e) /\ Sane(failed.onfail)
               /\ Match(failed.onfail, e, failed.onfail.base - Start(before, failed, d.base), Lost(gone, failed))
  BY <1>4, Zenon DEF FailsAt
<1>6. d.base = enc1.base - behind
  BY <1>1, Zenon DEF Match
<1>7. enc2 = failed.onfail /\ Sane(enc2) /\ Match(enc2, e, behind2, gone2)
  BY <1>5, <1>6, Zenon DEF Breaks
<1>8. PICK u \in Seq(Nat) : u = Numbers(before)
  <2>1. Staged(before)
    <3>1. PICK S : c.stages \in Seq(S)
      BY <1>3, Zenon DEF Staged
    <3>2. before \in Seq(S) /\ Len(before) = i - 1 /\ \A m \in 1 .. i - 1 : before[m] = c.stages[m] /\ m \in 1 .. Len(c.stages)
      BY <3>1
    <3>3. \A m \in 1 .. Len(before) : IsFrame(before[m].numbers)
      BY <1>3, <3>2 DEF Staged
    <3> QED BY <3>2, <3>3, Zenon DEF Staged
  <2> QED BY <2>1, NumbersSeq
<1>9. failed.numbers \in Seq(Nat)
  <2>1. IsFrame(failed.numbers)
    BY <1>3, Zenon DEF Staged
  <2> QED BY <2>1, Zenon DEF IsFrame
<1>10. PICK t \in Seq(Nat) : t = SubSeq(failed.numbers, 1, j) /\ Len(t) = j
  <2>1. PICK x \in Seq(Nat) : x = failed.numbers /\ j < Len(x)
    BY <1>9
  <2>2. SubSeq(x, 1, j) \in Seq(Nat) /\ Len(SubSeq(x, 1, j)) = j
    <3>1. j <= Len(x)
      BY <2>1
    <3> QED BY <3>1, SubIs
  <2> QED BY <2>1, <2>2
<1>11. o \in Seq(Nat) /\ k \in 0 .. Len(o)
  BY Zenon DEF Counts
<1>12. PICK a \in Seq(Nat) : a = o \o u /\ Len(a) = Len(o) + Len(u)
  <2>1. o \o u \in Seq(Nat) /\ Len(o \o u) = Len(o) + Len(u)
    BY <1>11, JoinedSeq
  <2> QED BY <2>1
<1>13. o2 = a \o t /\ k2 = (IF k = Len(o) THEN Len(o) + Len(u) ELSE k)
  BY <1>8, <1>10, <1>12, Zenon DEF Breaks
<1>14. o2 \in Seq(Nat) /\ Len(o2) = Len(a) + j /\ Len(a) \in Nat /\ Len(o) \in Nat /\ Len(u) \in Nat
  <2>1. a \o t \in Seq(Nat) /\ Len(a \o t) = Len(a) + Len(t)
    BY JoinedSeq
  <2>2. Len(a) \in Nat /\ Len(o) \in Nat /\ Len(u) \in Nat
    BY <1>11
  <2> QED BY <1>10, <1>13, <2>1, <2>2
<1>15. k2 \in 0 .. Len(o2) /\ k \in Nat /\ k2 \in Nat /\ k <= k2
  BY ONLY <1>11, <1>12, <1>13, <1>14, j \in Nat
<1>16. Counts(o2, k2, l)
  BY <1>14, <1>15, Zenon DEF Counts
<1>17. CASE k = Len(o)
  <2>1. k2 = Len(a)
    BY <1>12, <1>13, <1>17
  <2>2. s = o /\ e.events = l
    BY <1>1, <1>5, <1>17
  <2>3. ReadsTo(a, e)
    BY <1>5, <1>8, <1>12, <2>2
  <2>4. SubSeq(a \o t, 1, Len(a)) = a
    <3>1. Len(a) \in 0 .. Len(a)
      BY <1>14
    <3> QED BY <3>1, Prefix
  <2>5. Whole(o2, k2, l)
    <3>1. SubSeq(o2, 1, k2) = a
      BY <1>13, <2>1, <2>4
    <3> QED BY <2>2, <2>3, <3>1, Zenon DEF Whole
  <2>6. k2 = Len(o2) => a = o2
    <3>1. ASSUME k2 = Len(o2) PROVE t = <<>>
      <4>1. j = 0
        BY ONLY <1>14, <2>1, <3>1, j \in Nat
      <4> QED BY <1>10, <4>1
    <3>2. a \o <<>> = a
      BY JoinedNothing
    <3> QED BY <1>13, <3>1, <3>2
  <2>7. InStep(enc2, o2, k2, l, behind2, gone2)
    BY <1>7, <2>2, <2>3, <2>6, Zenon DEF InStep
  <2>8. ASSUME NEW m, Shown(o, k, l, m) PROVE Shown(o2, k2, l, m)
    <3>1. ReadsTo(o, d) /\ Shown(o, Len(o), l, m)
      BY <1>1, <1>17, <2>2, <2>8
    <3>2. \A n \in m + 1 .. Len(l) : Shows(d.pool, l[n])
      BY <1>11, <3>1, WholeShown
    <3>3. \A n \in m + 1 .. Len(l) : Shows(e.pool, l[n])
      BY <1>5, <3>2, Zenon DEF Shows, KeepsPool
    <3>4. Shown(a, Len(a), l, m)
      BY <2>3, <3>3, WholeShown
    <3>5. SubSeq(o2, 1, k2) = SubSeq(a, 1, k2)
      <4>1. SubSeq(a, 1, Len(a)) = a
        OBVIOUS
      <4> QED BY <1>13, <2>1, <2>4, <4>1
    <3> QED BY <2>1, <3>4, <3>5, ShownStill
  <2>9. ShownOn(o, k, l, o2, k2)
    BY <2>8, Zenon DEF ShownOn
  <2> QED BY <1>7, <1>15, <1>16, <2>5, <2>7, <2>9
<1>18. CASE k # Len(o)
  <2>1. k2 = k /\ k2 # Len(o2)
    BY ONLY <1>11, <1>12, <1>13, <1>14, <1>18, j \in Nat
  <2>2. Whole(o2, k2, l) /\ ShownOn(o, k, l, o2, k2)
    <3>1. SubSeq(o \o u, 1, k) = SubSeq(o, 1, k)
      BY <1>11, Prefix
    <3>2. SubSeq(a \o t, 1, k) = SubSeq(a, 1, k)
      <4>1. k \in 0 .. Len(a)
        BY ONLY <1>11, <1>12, <1>14
      <4> QED BY <4>1, Prefix
    <3>3. SubSeq(o2, 1, k2) = SubSeq(o, 1, k)
      BY <1>12, <1>13, <2>1, <3>1, <3>2
    <3>4. Whole(o2, k2, l)
      BY <3>3, Zenon DEF Whole
    <3>5. \A m : Shown(o, k, l, m) => Shown(o2, k2, l, m)
      BY <2>1, <3>3, ShownStill
    <3> QED BY <3>4, <3>5, Zenon DEF ShownOn
  <2>3. InStep(enc2, o2, k2, l, behind2, gone2)
    <3>1. ReadsTo(s \o Numbers(before), e)
      BY <1>5
    <3> QED BY <1>7, <2>1, <3>1, Zenon DEF InStep
  <2> QED BY <1>7, <1>15, <1>16, <2>2, <2>3
<1> QED BY <1>17, <1>18

\* The outcomes of the calls
LEMMA WritesOutcome ==
  ASSUME NEW enc1, Sane(enc1), NEW behind, NEW gone, NEW c, c = Call(enc1), NEW c2, NEW ev, NEW fields,
         \A s, e : Good(c, s, behind, gone, e) => WritesTo(c, s, behind, gone, e, ev, fields, c2),
         Fields(fields, ev.values),
         NEW w, w = IF c2.ok THEN <<AsRead(c2.enc, fields, ev, Shift(c2.stages, behind), gone)>> ELSE <<>>
  PROVE Outcome(c2, enc1, behind, gone, w)
<1>1. AtMostOne(w)
  BY Zenon DEF AtMostOne
<1>2. ASSUME NEW s, NEW d, ReadsTo(s, d), Match(enc1, d, behind, gone)
      PROVE /\ Onward(enc1, c2.enc)
            /\ \E e : /\ Good(c2, s, behind, gone, e) /\ e.events = Plus(d.events, w)
                     /\ \A i \in DOMAIN w : Shows(e.pool, w[i])
            /\ Partial(c2.stages, s, d, gone)
  <2>1. c.enc = enc1 /\ c.ok /\ c.stages = <<>> /\ Good(c, s, behind, gone, d) /\ Quiet(c, s, d, gone, d)
    BY <1>2, CallStarts, Zenon
  <2>2. WritesTo(c, s, behind, gone, d, ev, fields, c2)
    BY <2>1
  <2>3. Onward(enc1, c2.enc)
    BY <2>1, <2>2, Zenon DEF WritesTo
  <2>4. PICK e2 : /\ Good(c2, s, behind, gone, e2)
                  /\ e2.events = IF c2.ok THEN Append(d.events, AsRead(c2.enc, fields, ev, Shift(c2.stages, behind), gone))
                                 ELSE d.events
                  /\ \A x : Quiet(c, s, x, gone, d) => Partial(c2.stages, s, x, gone)
    BY <2>2, Zenon DEF WritesTo
  <2>5. e2.events = Plus(d.events, w)
    <3>1. CASE ~c2.ok
      BY <2>4, <3>1, Zenon DEF Plus
    <3>2. CASE c2.ok
      <4>1. PICK x : x = AsRead(c2.enc, fields, ev, Shift(c2.stages, behind), gone)
        OBVIOUS
      <4>2. w = <<x>> /\ w # <<>> /\ w[1] = x
        BY <3>2, <4>1
      <4> QED BY <2>4, <3>2, <4>1, <4>2, Zenon DEF Plus
    <3> QED BY <3>1, <3>2
  <2>6. ASSUME NEW i \in DOMAIN w PROVE Shows(e2.pool, w[i])
    <3>1. PICK x : x = AsRead(c2.enc, fields, ev, Shift(c2.stages, behind), gone)
      OBVIOUS
    <3>2. c2.ok /\ w = <<x>>
      BY <2>6, <3>1
    <3>3. w[i] = x
      BY ONLY <2>6, <3>2
    <3>4. HasTexts(c2.enc, fields, ev.values)
      BY <2>2, <3>2, Zenon DEF WritesTo
    <3>5. Match(c2.enc, e2, Shift(c2.stages, behind), gone)
      BY <2>4, Zenon DEF Good
    <3> QED BY <3>1, <3>3, <3>4, <3>5, ReadShows
  <2> QED BY <2>1, <2>3, <2>4, <2>5, <2>6
<1> QED BY <1>1, <1>2, Zenon DEF Outcome

LEMMA GoesOutcome ==
  ASSUME NEW enc1, Sane(enc1), NEW behind, NEW gone, NEW c, c = Call(enc1), NEW c2, Onward(enc1, c2.enc),
         \A s, e : Good(c, s, behind, gone, e) => Goes(c, s, behind, gone, e, c2)
  PROVE Outcome(c2, enc1, behind, gone, <<>>)
<1>1. ASSUME NEW s, NEW d, ReadsTo(s, d), Match(enc1, d, behind, gone)
      PROVE /\ \E e : /\ Good(c2, s, behind, gone, e) /\ e.events = Plus(d.events, <<>>)
                     /\ \A i \in DOMAIN <<>> : Shows(e.pool, <<>>[i])
            /\ Partial(c2.stages, s, d, gone)
  <2>1. Good(c, s, behind, gone, d) /\ Quiet(c, s, d, gone, d)
    BY <1>1, CallStarts, Zenon
  <2>2. Goes(c, s, behind, gone, d, c2)
    BY <2>1
  <2>3. PICK e2 : Good(c2, s, behind, gone, e2) /\ e2.events = d.events /\ Quiet(c2, s, d, gone, e2)
    BY <2>1, <2>2, Zenon DEF Goes
  <2>4. Plus(d.events, <<>>) = d.events
    BY Zenon DEF Plus
  <2>5. DOMAIN <<>> = {}
    OBVIOUS
  <2> QED BY <2>3, <2>4, <2>5, Zenon DEF Quiet
<1>2. AtMostOne(<<>>)
  BY Zenon DEF AtMostOne
<1> QED BY <1>1, <1>2, Zenon DEF Outcome

\* A call that is refused leaves what it has written.
LEMMA RefusedOutcome ==
  ASSUME NEW enc1, NEW behind, NEW gone, NEW w, NEW c, Outcome(c, enc1, behind, gone, w), NEW c2, c2 = [c EXCEPT !.ok = TRUE]
  PROVE Outcome(c2, enc1, behind, gone, w)
<1>1. ASSUME NEW s, NEW d, ReadsTo(s, d), Match(enc1, d, behind, gone)
      PROVE /\ Onward(enc1, c2.enc)
            /\ \E e : /\ Good(c2, s, behind, gone, e) /\ e.events = Plus(d.events, w)
                     /\ \A i \in DOMAIN w : Shows(e.pool, w[i])
            /\ Partial(c2.stages, s, d, gone)
  <2>1. Onward(enc1, c.enc) /\ Partial(c.stages, s, d, gone)
    BY <1>1, Zenon DEF Outcome
  <2>2. PICK e : Good(c, s, behind, gone, e) /\ e.events = Plus(d.events, w) /\ \A i \in DOMAIN w : Shows(e.pool, w[i])
    BY <1>1, Zenon DEF Outcome
  <2>3. IsCall(c2) /\ c2.enc = c.enc /\ c2.stages = c.stages
    <3>1. c = [enc |-> c.enc, stages |-> c.stages, ok |-> c.ok]
      BY <2>2, Zenon DEF Good, IsCall
    <3>2. c2 = [enc |-> c.enc, stages |-> c.stages, ok |-> TRUE]
      BY ONLY <3>1, c2 = [c EXCEPT !.ok = TRUE]
    <3> QED BY ONLY <3>2 DEF IsCall
  <2>4. Good(c2, s, behind, gone, e)
    BY <2>2, <2>3, Zenon DEF Good
  <2> QED BY <2>1, <2>2, <2>3, <2>4, Zenon
<1> QED BY <1>1, Zenon DEF Outcome

-----------------------------------------------------------------------------
(* The steps *)

LEMMA SucceedsStep ==
  ASSUME StreamInv, NEW c, NEW w, Outcome(c, enc, lag, unread, w), Succeeds(c, w), mark' = intact, segment' = segment
  PROVE StreamInv'
<1>1. Sane(enc) /\ Counts(out, intact, log) /\ Whole(out, intact, log) /\ InStep(enc, out, intact, log, lag, unread)
  BY Zenon DEF StreamInv
<1>2. Comes(c, out, intact, log, lag, w, enc', out', intact', log', lag')
  <2>1. enc' = c.enc /\ out' = out \o Numbers(c.stages) /\ lag' = Shift(c.stages, lag)
    BY Zenon DEF Succeeds
  <2>2. CASE intact = Len(out)
    <3>1. intact' = Len(out') /\ log' = log \o w
      BY <2>2, Zenon DEF Succeeds
    <3> QED BY <2>1, <2>2, <3>1, Zenon DEF Comes
  <2>3. CASE intact # Len(out)
    <3>1. intact' = intact /\ log' = log
      BY <2>3, Zenon DEF Succeeds
    <3> QED BY <2>1, <2>3, <3>1, Zenon DEF Comes
  <2> QED BY <2>2, <2>3
<1>3. /\ Sane(enc') /\ Counts(out', intact', log') /\ Whole(out', intact', log') /\ InStep(enc', out', intact', log', lag', unread)
      /\ (Gapless(enc) => Gapless(enc')) /\ intact <= intact' /\ Len(log) <= Len(log')
      /\ intact \in Nat /\ intact' \in Nat /\ Len(log) \in Nat /\ Len(log') \in Nat
      /\ \A m \in 0 .. Len(log) : Shown(out, intact, log, m) => Shown(out', intact', log', m)
  BY <1>1, <1>2, CallDone
<1>4. unread' = unread /\ failures' = failures
  BY Zenon DEF Succeeds
<1>5. Places'
  <2>1. mark \in 0 .. intact /\ segment \in 0 .. Len(log) /\ failures \in Nat
    BY Zenon DEF StreamInv, Places
  <2>2. mark' \in 0 .. intact' /\ segment' \in 0 .. Len(log')
    BY ONLY <1>3, <2>1, mark' = intact, segment' = segment
  <2> QED BY <1>4, <2>1, <2>2, Zenon DEF Places
<1>6. NoGaps'
  BY <1>3, <1>4, Zenon DEF StreamInv, NoGaps
<1>7. Shown(out', intact', log', segment')
  BY <1>3, segment' = segment, Zenon DEF StreamInv, Places
<1> QED BY <1>3, <1>4, <1>5, <1>6, <1>7, Zenon DEF StreamInv

LEMMA FailsStep ==
  ASSUME StreamInv, NEW c, NEW w, Outcome(c, enc, lag, unread, w), WriteFails(c), mark' = intact, segment' = segment
  PROVE StreamInv'
<1>1. Sane(enc) /\ Counts(out, intact, log) /\ Whole(out, intact, log) /\ InStep(enc, out, intact, log, lag, unread)
  BY Zenon DEF StreamInv
<1>2. PICK i \in DOMAIN c.stages : \E k \in 0 .. SmallerOf(MaxTorn, Len(c.stages[i].numbers) - 1) :
          LET failed == c.stages[i]
              before == SubSeq(c.stages, 1, i - 1)
              whole == Numbers(before)
              start == IF Wrote(before, TAG_TIMESTAMP_RESET) THEN failed.onfail.base ELSE enc.base - lag
          IN  /\ enc' = failed.onfail
              /\ out' = out \o whole \o SubSeq(failed.numbers, 1, k)
              /\ intact' = IF intact = Len(out) THEN Len(out) + Len(whole) ELSE intact
              /\ lag' = failed.onfail.base - start
              /\ unread' = IF Head(failed.numbers) = TAG_STRING_POOL
                           THEN unread \union {t \in DOMAIN enc'.pool : enc'.pool[t] = failed.numbers[3]}
                           ELSE unread
  BY Zenon DEF WriteFails
<1>3. PICK failed, before, whole :
        failed = c.stages[i] /\ before = SubSeq(c.stages, 1, i - 1) /\ whole = Numbers(before)
  OBVIOUS
<1>4. PICK k \in 0 .. SmallerOf(MaxTorn, Len(failed.numbers) - 1) :
          /\ enc' = failed.onfail
          /\ out' = out \o whole \o SubSeq(failed.numbers, 1, k)
          /\ intact' = IF intact = Len(out) THEN Len(out) + Len(whole) ELSE intact
          /\ lag' = failed.onfail.base - (IF Wrote(before, TAG_TIMESTAMP_RESET) THEN failed.onfail.base ELSE enc.base - lag)
          /\ unread' = IF Head(failed.numbers) = TAG_STRING_POOL
                       THEN unread \union {t \in DOMAIN enc'.pool : enc'.pool[t] = failed.numbers[3]}
                       ELSE unread
  BY <1>2, <1>3, Zenon
<1>5. log' = log /\ failures' = failures + 1
  BY Zenon DEF WriteFails
<1>6. PICK s, d : ReadsTo(s, d) /\ Match(enc, d, lag, unread)
  BY <1>1, Zenon DEF InStep
<1>7. PICK e : Good(c, s, lag, unread, e)
  BY <1>6, Zenon DEF Outcome
<1>8. Staged(c.stages)
  BY <1>7, Zenon DEF Good
<1>9. Len(c.stages) \in Nat /\ DOMAIN c.stages = 1 .. Len(c.stages)
  BY <1>8, NumbersSeq
<1>10. failed.numbers \in Seq(Nat) /\ Len(failed.numbers) >= 2
  <2>1. IsFrame(failed.numbers)
    BY <1>3, <1>8, <1>9, Zenon DEF Staged
  <2> QED BY <2>1, Zenon DEF IsFrame
<1>11. k \in Nat /\ k < Len(failed.numbers)
  <2>1. PICK n \in Nat : n = Len(failed.numbers) /\ n >= 2
    BY <1>10
  <2>2. PICK m : m = SmallerOf(MaxTorn, n - 1)
    OBVIOUS
  <2>3. MaxTorn \in Nat
    BY StreamAssumption
  <2>4. m \in Nat /\ m <= n - 1
    BY <2>1, <2>2, <2>3 DEF SmallerOf
  <2>5. k \in 0 .. m
    BY <2>1, <2>2
  <2> QED BY ONLY <2>1, <2>4, <2>5
<1>12. Head(failed.numbers) = failed.numbers[1]
  <2>1. PICK x \in Seq(Nat) : x = failed.numbers
    BY <1>10
  <2>2. Head(x) = x[1]
    OBVIOUS
  <2> QED BY <2>1, <2>2
<1>13. Breaks(enc, out, intact, lag, unread, before, failed, k, enc', out', intact', lag', unread')
  <2>1. unread' = Lost(unread, failed)
    BY <1>4, <1>12, Zenon DEF Lost
  <2>2. lag' = failed.onfail.base - Start(before, failed, enc.base - lag)
    BY <1>4, Zenon DEF Start
  <2> QED BY <1>3, <1>4, <2>1, <2>2, Zenon DEF Breaks
<1>14. /\ Sane(enc') /\ Counts(out', intact', log) /\ Whole(out', intact', log) /\ InStep(enc', out', intact', log, lag', unread')
       /\ intact <= intact' /\ intact \in Nat /\ intact' \in Nat
       /\ ShownOn(out, intact, log, out', intact')
  BY <1>1, <1>3, <1>9, <1>11, <1>13, CallBroken
<1>15. mark \in 0 .. intact /\ segment \in 0 .. Len(log) /\ failures \in Nat
  BY Zenon DEF StreamInv, Places
<1>16. Places'
  <2>1. mark' \in 0 .. intact' /\ failures' \in Nat /\ segment' \in 0 .. Len(log')
    BY ONLY <1>5, <1>14, <1>15, mark' = intact, segment' = segment
  <2> QED BY <2>1, Zenon DEF Places
<1>17. NoGaps'
  <2>1. failures' # 0
    BY ONLY <1>5, <1>15
  <2> QED BY <2>1, Zenon DEF NoGaps
<1>18. Shown(out', intact', log', segment')
  BY <1>5, <1>14, segment' = segment, Zenon DEF StreamInv, ShownOn
<1> QED BY <1>5, <1>14, <1>16, <1>17, <1>18, Zenon DEF StreamInv

LEMMA CallStep ==
  ASSUME StreamInv, NEW c, NEW w, NEW written, Outcome(c, enc, lag, unread, w), c.ok => w = written, ~c.ok => w = <<>>,
         Counted, segment' = segment, Succeeds(c, written) \/ WriteFails(c) \/ Refused(c)
  PROVE StreamInv'
<1>1. mark' = intact
  BY Zenon DEF Counted
<1>2. CASE Succeeds(c, written)
  <2>1. w = written
    BY <1>2, Zenon DEF Succeeds
  <2> QED BY <1>1, <1>2, <2>1, SucceedsStep
<1>3. CASE WriteFails(c)
  BY <1>1, <1>3, FailsStep
<1>4. CASE Refused(c)
  <2>1. PICK c2 : c2 = [c EXCEPT !.ok = TRUE]
    OBVIOUS
  <2>2. w = <<>> /\ Succeeds(c2, <<>>)
    BY <1>4, <2>1, Zenon DEF Refused
  <2>3. Outcome(c2, enc, lag, unread, w)
    BY <2>1, RefusedOutcome
  <2>4. Succeeds(c2, w)
    BY <2>2
  <2> QED BY <1>1, <2>3, <2>4, SucceedsStep
<1> QED BY <1>2, <1>3, <1>4

LEMMA WriteStep ==
  ASSUME StreamInv, Write
  PROVE StreamInv'
<1>1. PICK raw \in Events :
          LET ev == write_resolved(raw)
              call == write(Call(enc), ev)
              read == AsRead(call.enc, field_defs(ev.name), ev, Shift(call.stages, lag), unread)
          IN  Succeeds(call, <<read>>) \/ WriteFails(call) \/ Refused(call)
  BY Zenon DEF Write
<1>2. PICK ev, fields, c : ev = write_resolved(raw) /\ fields = field_defs(raw.name) /\ c = Call(enc)
  OBVIOUS
<1>3. PICK c2 : c2 = write(c, ev)
  OBVIOUS
<1>4. ev.name \in Nat /\ ev.name = raw.name /\ ev.ts \in 0 .. Width - 1 /\ Fields(fields, ev.values)
  BY <1>2, ResolvedFits, Zenon
<1>5. fields = field_defs(ev.name)
  BY <1>2, <1>4
<1>6. PICK read : read = AsRead(c2.enc, fields, ev, Shift(c2.stages, lag), unread)
  OBVIOUS
<1>7. Succeeds(c2, <<read>>) \/ WriteFails(c2) \/ Refused(c2)
  BY <1>1, <1>2, <1>3, <1>5, <1>6, Zenon
<1>8. \A s, e : Good(c, s, lag, unread, e) => WritesTo(c, s, lag, unread, e, ev, fields, c2)
  BY <1>3, <1>4, <1>5, WriteWrites, Zenon
<1>9. PICK w : w = IF c2.ok THEN <<read>> ELSE <<>>
  OBVIOUS
<1>10. Outcome(c2, enc, lag, unread, w)
  <2>1. Sane(enc)
    BY Zenon DEF StreamInv
  <2> QED BY <1>2, <1>4, <1>6, <1>8, <1>9, <2>1, WritesOutcome
<1>11. Counted /\ segment' = segment
  BY Zenon DEF Write
<1>12. (c2.ok => w = <<read>>) /\ (~c2.ok => w = <<>>)
  BY <1>9, Zenon
<1> QED BY <1>7, <1>10, <1>11, <1>12, CallStep

\* Nothing of an event without strings of the pool can be missing.
LEMMA PlainRead ==
  ASSUME NEW a, NEW b, NEW ev, NEW fields \in Seq(FieldTypes \ {PooledString}), Fields(fields, ev.values), NEW shift, NEW gone
  PROVE AsRead(a, fields, ev, shift, gone) = AsRead(b, fields, ev, shift, {})
<1>1. Ids(a, fields, ev.values) = ev.values /\ Ids(b, fields, ev.values) = ev.values
  BY PlainIds
<1>2. {j \in DOMAIN fields : fields[j] = PooledString} = {}
  OBVIOUS
<1>3. PICK x, y : /\ x = [i \in {j \in DOMAIN fields : fields[j] = PooledString} |-> IF ev.values[i] \in gone THEN Missing ELSE ev.values[i]]
                  /\ y = [i \in {j \in DOMAIN fields : fields[j] = PooledString} |-> IF ev.values[i] \in {} THEN Missing ELSE ev.values[i]]
  OBVIOUS
<1>4. x = y
  BY <1>2, <1>3
<1> QED BY <1>1, <1>3, <1>4, Zenon DEF AsRead

LEMMA ManualFits ==
  ASSUME NEW ev \in Manual
  PROVE /\ ev.name \in Nat /\ ev.ts \in 0 .. Width - 1 /\ ev.fields \in Seq(FieldTypes \ {PooledString})
        /\ ev.fields \in Seq(FieldTypes) /\ Fields(ev.fields, ev.values)
<1>1. ev.fields \in Seq(FieldTypes \ {PooledString}) /\ IsEvent(ev, ev.fields)
  BY StreamAssumption
<1>2. ev.fields \in Seq(FieldTypes)
  <2>1. FieldTypes \ {PooledString} \subseteq FieldTypes
    OBVIOUS
  <2> QED BY <1>1, <2>1, Wider
<1> QED BY <1>1, <1>2, Zenon DEF IsEvent, Fields

LEMMA WriteEventStep ==
  ASSUME StreamInv, WriteEvent
  PROVE StreamInv'
<1>1. PICK ev \in Manual :
          LET call == write_event(Call(enc), ev)
              read == AsRead(enc, ev.fields, ev, Shift(call.stages, lag), {})
          IN  Succeeds(call, <<read>>) \/ WriteFails(call) \/ Refused(call)
  BY Zenon DEF WriteEvent
<1>2. PICK fields, c : fields = ev.fields /\ c = Call(enc)
  OBVIOUS
<1>3. PICK c2 : c2 = write_event(c, ev)
  OBVIOUS
<1>4. ev.name \in Nat /\ ev.ts \in 0 .. Width - 1 /\ ev.fields \in Seq(FieldTypes \ {PooledString}) /\ Fields(ev.fields, ev.values)
  BY ManualFits
<1>5. PICK read : read = AsRead(c2.enc, ev.fields, ev, Shift(c2.stages, lag), unread)
  OBVIOUS
<1>6. read = AsRead(enc, ev.fields, ev, Shift(c2.stages, lag), {})
  BY <1>4, <1>5, PlainRead
<1>7. Succeeds(c2, <<read>>) \/ WriteFails(c2) \/ Refused(c2)
  BY <1>1, <1>2, <1>3, <1>6, Zenon
<1>8. \A s, e : Good(c, s, lag, unread, e) => WritesTo(c, s, lag, unread, e, ev, ev.fields, c2)
  BY <1>3, <1>4, WriteEventWrites, Zenon
<1>9. PICK w : w = IF c2.ok THEN <<read>> ELSE <<>>
  OBVIOUS
<1>10. Outcome(c2, enc, lag, unread, w)
  <2>1. Sane(enc)
    BY Zenon DEF StreamInv
  <2> QED BY <1>2, <1>4, <1>5, <1>8, <1>9, <2>1, WritesOutcome
<1>11. Counted /\ segment' = segment
  BY Zenon DEF WriteEvent
<1>12. (c2.ok => w = <<read>>) /\ (~c2.ok => w = <<>>)
  BY <1>9, Zenon
<1> QED BY <1>7, <1>10, <1>11, <1>12, CallStep

LEMMA RegisterStep ==
  ASSUME StreamInv, Register
  PROVE StreamInv'
<1>1. PICK ev \in Manual :
          LET call == ensure_registered(Call(enc), Entry(ev.name, ev.fields))
          IN  Succeeds(call, <<>>) \/ WriteFails(call) \/ Refused(call)
  BY Zenon DEF Register
<1>2. PICK entry, c : entry = Entry(ev.name, ev.fields) /\ c = Call(enc)
  OBVIOUS
<1>3. PICK c2 : c2 = ensure_registered(c, entry)
  OBVIOUS
<1>4. Succeeds(c2, <<>>) \/ WriteFails(c2) \/ Refused(c2)
  BY <1>1, <1>2, <1>3, Zenon
<1>5. ev.name \in Nat /\ ev.fields \in Seq(FieldTypes)
  BY ManualFits
<1>6. \A s, e : Good(c, s, lag, unread, e) => RegisteredAs(c, s, lag, unread, e, ev.name, entry, c2)
  BY <1>2, <1>3, <1>5, Registered
<1>7. \A s, e : Good(c, s, lag, unread, e) => Goes(c, s, lag, unread, e, c2) /\ Onward(c.enc, c2.enc)
  BY <1>6, Zenon DEF RegisteredAs
<1>8. Sane(enc)
  BY Zenon DEF StreamInv
<1>9. Onward(enc, c2.enc)
  <2>1. PICK s, d : ReadsTo(s, d) /\ Match(enc, d, lag, unread)
    BY Zenon DEF StreamInv, InStep
  <2>2. c.enc = enc /\ Good(c, s, lag, unread, d)
    BY <1>2, <1>8, <2>1, CallStarts, Zenon
  <2> QED BY <1>7, <2>2
<1>10. Outcome(c2, enc, lag, unread, <<>>)
  BY <1>2, <1>7, <1>8, <1>9, GoesOutcome
<1>11. Counted /\ segment' = segment
  BY Zenon DEF Register
<1> QED BY <1>4, <1>10, <1>11, CallStep

\* A whole stream and an encoder in step with its reader
LEMMA InStepWhole ==
  ASSUME NEW o, NEW e, ReadsTo(o, e), NEW k, k = Len(o), NEW S, NEW l \in Seq(S), e.events = l,
         NEW enc1, NEW behind, NEW gone, Match(enc1, e, behind, gone)
  PROVE Counts(o, k, l) /\ Whole(o, k, l) /\ InStep(enc1, o, k, l, behind, gone) /\ k \in Nat /\ Len(l) \in Nat
<1>1. o \in Seq(Nat)
  BY Zenon DEF ReadsTo, Arrives
<1>2. k \in 0 .. Len(o) /\ k \in Nat
  BY <1>1
<1>3. SubSeq(o, 1, k) = o
  BY <1>1
<1>4. Counts(o, k, l)
  BY <1>1, <1>2, Zenon DEF Counts
<1>5. Whole(o, k, l)
  BY <1>3, Zenon DEF Whole
<1>6. InStep(enc1, o, k, l, behind, gone)
  BY Zenon DEF InStep
<1> QED BY <1>2, <1>4, <1>5, <1>6

LEMMA NewIs ==
  /\ Sane(New) /\ Gapless(New)
  /\ \A d : d.reg = <<>> /\ d.pool = <<>> /\ d.base = 0 => Match(New, d, 0, {})
<1>1. PICK none : none = <<>> /\ DOMAIN none = {} /\ none = [x \in {} |-> none[x]]
  OBVIOUS
<1>2. PICK e : e = Encoder(none, none, none, 0, none, 0, 0)
  OBVIOUS
<1>3. e = New
  BY <1>1, <1>2, Zenon DEF Encoder, New
<1>4. /\ e.names = none /\ e.types = none /\ e.reg = none /\ e.next_id = 0 /\ e.pool = none /\ e.next_pool_id = 0
      /\ e.base = 0 /\ e = Encoder(e.names, e.types, e.reg, e.next_id, e.pool, e.next_pool_id, e.base)
  BY <1>2, EncoderIs
<1>5. Keyed(none)
  BY ONLY <1>1 DEF Keyed
<1>6. NamesFit(e) /\ RegFits(e) /\ TypesFit(e) /\ PoolFits(e) /\ PoolApart(e)
  BY <1>1, <1>4, Zenon DEF NamesFit, RegFits, TypesFit, PoolFits, PoolApart
<1>7. e.next_id \in Nat /\ e.next_pool_id \in Nat /\ e.base \in 0 .. Width - 1
  BY <1>4, ZeroFits
<1>8. Sane(e)
  BY <1>4, <1>5, <1>6, <1>7, Zenon DEF Sane
<1>9. Gapless(e)
  <2>1. 0 .. 0 - 1 = {}
    OBVIOUS
  <2>2. {e.pool[t] : t \in DOMAIN e.pool} = {}
    BY <1>1, <1>4
  <2> QED BY <1>1, <1>4, <2>1, <2>2, Zenon DEF Gapless
<1>10. ASSUME NEW d, d.reg = none, d.pool = none, d.base = 0 PROVE Match(e, d, 0, {})
  <2>1. 0 \in 0 .. e.base /\ d.base = e.base - 0
    BY <1>4, <1>10
  <2>2. DOMAIN e.pool \ {} = {}
    BY <1>1, <1>4
  <2>3. {e.pool[t] : t \in DOMAIN e.pool \ {}} = {}
    BY <2>2
  <2>4. DOMAIN d.pool = {e.pool[t] : t \in DOMAIN e.pool \ {}}
    BY <1>1, <1>10, <2>3
  <2>5. \A t \in DOMAIN e.pool \ {} : d.pool[e.pool[t]] = t
    BY <2>2
  <2>6. {} \subseteq DOMAIN e.pool /\ d.reg = e.reg /\ Keyed(d.pool)
    BY <1>4, <1>5, <1>10
  <2> QED BY <2>1, <2>4, <2>5, <2>6, Zenon DEF Match
<1> QED BY <1>1, <1>3, <1>8, <1>9, <1>10, Zenon

LEMMA InitStream ==
  ASSUME Init
  PROVE StreamInv
<1>1. /\ enc = New /\ out = Header /\ log = <<>> /\ segment = 0 /\ mark = 0 /\ intact = Len(Header)
      /\ lag = 0 /\ unread = {} /\ failures = 0
  BY Zenon DEF Init
<1>2. PICK d : d = Decoder(2, <<>>, <<>>, 0, <<>>, "reading")
  OBVIOUS
<1>3. ReadsTo(Header, d)
  BY <1>2, ReadsHeader
<1>4. d.reg = <<>> /\ d.pool = <<>> /\ d.base = 0 /\ d.events = <<>>
  BY <1>2, DecoderIs
<1>5. Match(New, d, 0, {})
  BY <1>4, NewIs
<1>6. PICK l \in Seq(Nat) : l = <<>> /\ Len(l) = 0
  <2>1. <<>> \in Seq(Nat) /\ Len(<<>>) = 0
    OBVIOUS
  <2> QED BY <2>1
<1>7. Counts(out, intact, log) /\ Whole(out, intact, log) /\ InStep(enc, out, intact, log, lag, unread) /\ intact \in Nat
  <2>1. d.events = l /\ ReadsTo(out, d) /\ Match(enc, d, lag, unread) /\ intact = Len(out) /\ log = l
    BY <1>1, <1>3, <1>4, <1>5, <1>6
  <2> QED BY <2>1, InStepWhole
<1>8. Places
  <2>1. mark \in 0 .. intact /\ segment \in 0 .. Len(log) /\ failures \in Nat
    BY <1>1, <1>6, <1>7
  <2> QED BY <2>1, Zenon DEF Places
<1>9. NoGaps
  BY <1>1, NewIs, Zenon DEF NoGaps
<1>10. Sane(enc)
  BY <1>1, NewIs
<1>11. Shown(out, intact, log, segment)
  BY <1>1, <1>6 DEF Shown
<1> QED BY <1>7, <1>8, <1>9, <1>10, <1>11, Zenon DEF StreamInv

LEMMA ResetStep ==
  ASSUME StreamInv, reset_to
  PROVE StreamInv'
<1>1. /\ enc' = New /\ out' = Header /\ intact' = Len(out') /\ log' = <<>> /\ segment' = 0 /\ mark' = 0
      /\ lag' = 0 /\ unread' = {} /\ failures' = failures
  BY Zenon DEF reset_to
<1>2. PICK d : d = Decoder(2, <<>>, <<>>, 0, <<>>, "reading")
  OBVIOUS
<1>3. ReadsTo(Header, d)
  BY <1>2, ReadsHeader
<1>4. d.reg = <<>> /\ d.pool = <<>> /\ d.base = 0 /\ d.events = <<>>
  BY <1>2, DecoderIs
<1>5. Match(New, d, 0, {})
  BY <1>4, NewIs
<1>6. PICK l \in Seq(Nat) : l = <<>> /\ Len(l) = 0
  <2>1. <<>> \in Seq(Nat) /\ Len(<<>>) = 0
    OBVIOUS
  <2> QED BY <2>1
<1>7. Counts(out', intact', log') /\ Whole(out', intact', log') /\ InStep(enc', out', intact', log', lag', unread') /\ intact' \in Nat
  <2>1. d.events = l /\ ReadsTo(out', d) /\ Match(enc', d, lag', unread') /\ intact' = Len(out') /\ log' = l
    BY <1>1, <1>3, <1>4, <1>5, <1>6
  <2> QED BY <2>1, InStepWhole
<1>8. Places'
  <2>1. failures \in Nat
    BY Zenon DEF StreamInv, Places
  <2>2. mark' \in 0 .. intact' /\ segment' \in 0 .. Len(log') /\ failures' \in Nat
    BY <1>1, <1>6, <1>7, <2>1
  <2> QED BY <2>2, Zenon DEF Places
<1>9. NoGaps'
  BY <1>1, NewIs, Zenon DEF NoGaps
<1>10. Sane(enc')
  BY <1>1, NewIs
<1>11. Shown(out', intact', log', segment')
  BY <1>1, <1>6 DEF Shown
<1> QED BY <1>7, <1>8, <1>9, <1>10, <1>11, Zenon DEF StreamInv

LEMMA ConcatenateStep ==
  ASSUME StreamInv, Concatenate
  PROVE StreamInv'
<1>1. /\ intact = Len(out) /\ mark' = intact
      /\ enc' = New /\ out' = out \o Header /\ intact' = Len(out') /\ segment' = Len(log)
      /\ lag' = 0 /\ unread' = {} /\ log' = log /\ failures' = failures
  BY Zenon DEF Concatenate, Counted
<1>2. PICK d : ReadsTo(out, d) /\ d.events = log
  BY <1>1, Zenon DEF StreamInv, InStep
<1>3. PICK S : log \in Seq(S)
  BY Zenon DEF StreamInv, Counts
<1>4. PICK e : e = Decoder(Len(out) + 2, <<>>, <<>>, 0, d.events, "reading")
  OBVIOUS
<1>5. e.pos = Len(out) + 2 /\ e.reg = <<>> /\ e.pool = <<>> /\ e.base = 0 /\ e.events = d.events
  BY <1>4, DecoderIs
<1>6. out \in Seq(Nat) /\ Stands(d, Len(out))
  BY <1>2, Zenon DEF ReadsTo, Arrives
<1>7. Step(out, Header, d, e)
  BY <1>4, <1>6, HeaderStep
<1>8. Stands(e, Len(out) + Len(Header))
  <2>1. e = Decoder(Len(out) + 2, e.reg, e.pool, e.base, e.events, "reading")
    BY <1>4, <1>5
  <2> QED BY <2>1, HeaderIs DEF Stands
<1>9. ReadsTo(out \o Header, e)
  <2>0. Header \in Seq(Nat) /\ Len(Header) >= 2
    BY HeaderIs
  <2>1. PICK u \in Seq(Nat) : u = Header /\ Len(u) >= 2
    BY <2>0, Zenon
  <2>2. Step(out, u, d, e) /\ Stands(e, Len(out) + Len(u))
    BY <1>7, <1>8, <2>1
  <2>4. OneFrame(out, u, d)
    BY <1>6, <2>1, HeaderFrame
  <2>5. OneMore(d.events, e.events) /\ \A id \in DOMAIN e.reg : IsSchema(e.reg[id])
    BY <1>5 DEF OneMore
  <2>3. ReadsTo(out \o u, e)
    BY ONLY <1>2, <2>2, <2>4, <2>5, Further
  <2> QED BY <2>1, <2>3
<1>10. Match(New, e, 0, {})
  BY <1>5, NewIs
<1>11. Counts(out', intact', log') /\ Whole(out', intact', log') /\ InStep(enc', out', intact', log', lag', unread')
       /\ intact' \in Nat /\ Len(log') \in Nat
  <2>1. e.events = log' /\ ReadsTo(out', e) /\ Match(enc', e, lag', unread') /\ log' \in Seq(S) /\ intact' = Len(out')
    BY <1>1, <1>2, <1>3, <1>5, <1>9, <1>10
  <2> QED BY <2>1, InStepWhole
<1>12. Places'
  <2>1. failures \in Nat
    BY Zenon DEF StreamInv, Places
  <2>2. Len(out') = Len(out) + 2 /\ Len(out) \in Nat
    <3>1. Len(out \o Header) = Len(out) + Len(Header)
      BY <1>6, HeaderIs, JoinedSeq
    <3> QED BY <1>1, <1>6, <3>1, HeaderIs
  <2>3. mark' \in 0 .. intact' /\ segment' \in 0 .. Len(log') /\ failures' \in Nat
    BY ONLY <1>1, <1>11, <2>1, <2>2
  <2> QED BY <2>3, Zenon DEF Places
<1>13. NoGaps'
  BY <1>1, NewIs, Zenon DEF NoGaps
<1>14. Sane(enc')
  BY <1>1, NewIs
<1>15. Shown(out', intact', log', segment')
  <2>1. segment' = Len(log') /\ Len(log') \in Nat
    BY <1>1, <1>11
  <2> QED BY <2>1 DEF Shown
<1> QED BY <1>11, <1>12, <1>13, <1>14, <1>15, Zenon DEF StreamInv

\* What was read of a whole stream is the state of a reader in step with the encoder.
Seen(d, dd, k, gone) ==
    /\ ReadsTo(out, d) /\ d.events = log /\ dd.events = log /\ Match(enc, d, k, gone) /\ Match(enc, dd, k, gone)
    /\ \A e : Match(e, dd, 0, {}) => Match(e, d, 0, {})

LEMMA ReadWhole ==
  ASSUME StreamInv, intact = Len(out), NEW r \in Readers
  PROVE \E d : Seen(d, Read(r, out), lag, unread)
<1>1. PICK d : ReadsTo(out, d) /\ d.events = log /\ Match(enc, d, lag, unread)
  BY Zenon DEF StreamInv, InStep
<1>2. PICK dd : dd = Read(r, out) /\ dd = [d EXCEPT !.status = "end"]
  BY <1>1, ReadEnds, Zenon DEF ReadsTo
<1>3. d = Decoder(Len(out), d.reg, d.pool, d.base, d.events, "reading")
  BY <1>1, Zenon DEF ReadsTo, Arrives, Stands
<1>4. dd.reg = d.reg /\ dd.pool = d.pool /\ dd.base = d.base /\ dd.events = d.events
  BY ONLY <1>2, <1>3 DEF Decoder
<1>5. Match(enc, dd, lag, unread)
  BY <1>1, <1>4, Zenon DEF Match
<1>6. ASSUME NEW e, Match(e, dd, 0, {}) PROVE Match(e, d, 0, {})
  BY <1>4, <1>6, Zenon DEF Match
<1> QED BY <1>1, <1>2, <1>4, <1>5, <1>6, Zenon DEF Seen

LEMMA EventsReader == "events" \in Readers /\ "refs" \in Readers
  BY DEF Readers

LEMMA IntoEncoderStep ==
  ASSUME StreamInv, into_encoder
  PROVE StreamInv'
<1>1. /\ intact = Len(out) /\ mark' = intact /\ enc' = from_decoder(Read("events", out)) /\ lag' = 0 /\ unread' = {}
      /\ out' = out /\ log' = log /\ segment' = segment /\ intact' = intact /\ failures' = failures
  BY Zenon DEF into_encoder, Counted
<1>2. PICK dd : dd = Read("events", out)
  OBVIOUS
<1>3. PICK d : Seen(d, dd, lag, unread)
  BY <1>1, <1>2, EventsReader, ReadWhole
<1>4. PICK e : e = from_decoder(dd)
  OBVIOUS
<1>5. Sane(enc) /\ Match(enc, dd, lag, unread)
  BY <1>3, Zenon DEF StreamInv, Seen
<1>6. Resumes(enc, dd, lag, unread, e)
  BY <1>4, <1>5, FromDecoder, Zenon
<1>7. Sane(e) /\ Match(e, dd, 0, {}) /\ (Gapless(enc) /\ unread = {} => Gapless(e))
  BY <1>6, Zenon DEF Resumes
<1>8. Match(e, d, 0, {}) /\ ReadsTo(out, d) /\ d.events = log
  BY <1>3, <1>7, Zenon DEF Seen
<1>9. PICK S : log \in Seq(S)
  BY Zenon DEF StreamInv, Counts
<1>10. enc' = e
  BY <1>1, <1>2, <1>4
<1>11. Counts(out', intact', log') /\ Whole(out', intact', log') /\ InStep(enc', out', intact', log', lag', unread')
  <2>1. d.events = log' /\ ReadsTo(out', d) /\ Match(enc', d, lag', unread') /\ log' \in Seq(S) /\ intact' = Len(out')
    BY <1>1, <1>8, <1>9, <1>10
  <2> QED BY <2>1, InStepWhole
<1>12. Places'
  <2>1. mark \in 0 .. intact /\ segment \in 0 .. Len(log) /\ failures \in Nat
    BY Zenon DEF StreamInv, Places
  <2>2. intact \in 0 .. Len(out) /\ out \in Seq(Nat)
    BY Zenon DEF StreamInv, Counts
  <2>3. mark' \in 0 .. intact' /\ segment' \in 0 .. Len(log') /\ failures' \in Nat
    BY <1>1, <2>1, <2>2
  <2> QED BY <2>3, Zenon DEF Places
<1>13. NoGaps'
  BY <1>1, <1>7, <1>10, Zenon DEF StreamInv, NoGaps
<1>14. Shown(out', intact', log', segment')
  BY <1>1, Zenon DEF StreamInv
<1> QED BY <1>7, <1>10, <1>11, <1>12, <1>13, <1>14, Zenon DEF StreamInv

LEMMA JoinedLonger ==
  ASSUME NEW S, NEW l \in Seq(S), NEW n \in Nat, NEW t, t = [i \in 1 .. n |-> t[i]]
  PROVE (\E T : l \o t \in Seq(T)) /\ Len(l) \in Nat /\ Len(l \o t) \in Nat /\ Len(l) <= Len(l \o t)
<1>1. PICK T : T = S \union {t[i] : i \in 1 .. n}
  OBVIOUS
<1>2. t \in [1 .. n -> T] /\ S \subseteq T
  <2>1. \A i \in 1 .. n : t[i] \in T
    BY <1>1
  <2> QED BY <1>1, <2>1
<1>3. t \in Seq(T) /\ Len(t) = n
  BY <1>2, AsSeq
<1>4. l \in Seq(T)
  BY <1>2, Wider
<1>5. l \o t \in Seq(T) /\ Len(l \o t) = Len(l) + Len(t)
  BY <1>3, <1>4, JoinedSeq
<1>6. Len(l) \in Nat
  OBVIOUS
<1>7. Len(l \o t) \in Nat /\ Len(l) <= Len(l \o t)
  BY ONLY <1>3, <1>5, <1>6, n \in Nat
<1> QED BY <1>5, <1>6, <1>7

LEMMA SymbolizeStep ==
  ASSUME StreamInv, Symbolize
  PROVE StreamInv'
<1>1. intact = Len(out) /\ mark' = intact /\ segment' = segment /\ failures' = failures
  BY Zenon DEF Symbolize, Counted
<1>2. PICK dd : dd = Read("events", out)
  OBVIOUS
<1>3. PICK entries \in SymbolData(Addresses(dd)) :
          LET call == Symbolized(dd, entries)
              read(i) == AsRead(call.enc, field_defs(SymbolTable), entries[i], 0, {})
          IN  IF call.ok
              THEN /\ enc' = call.enc /\ out' = out \o Numbers(call.stages) /\ intact' = Len(out')
                   /\ log' = log \o [i \in DOMAIN entries |-> read(i)]
                   /\ lag' = 0 /\ unread' = {}
              ELSE UNCHANGED <<enc, out, log, intact, lag, unread>>
  BY <1>2, Zenon DEF Symbolize
<1>4. PICK c2, fields : c2 = Symbolized(dd, entries) /\ fields = field_defs(SymbolTable)
  OBVIOUS
<1>5. PICK behind : behind = 0
  OBVIOUS
<1>6. PICK gone : gone = {}
  OBVIOUS
<1>7. PICK n \in Nat : n = Len(entries) /\ DOMAIN entries = 1 .. n /\ \A i \in 1 .. n : entries[i] \in SymbolEntries
  <2>1. entries \in Seq(SymbolEntries)
    BY SymbolDataIs
  <2> QED BY <2>1
<1>8. PICK reads : reads = [i \in 1 .. n |-> AsRead(c2.enc, fields, entries[i], behind, gone)]
  OBVIOUS
<1>9. CASE ~c2.ok
  <2>1. enc' = enc /\ out' = out /\ log' = log /\ intact' = intact /\ lag' = lag /\ unread' = unread
    BY <1>3, <1>4, <1>9, Zenon
  <2>2. mark \in 0 .. intact /\ segment \in 0 .. Len(log) /\ failures \in Nat
    BY Zenon DEF StreamInv, Places
  <2>3. intact \in 0 .. Len(out) /\ out \in Seq(Nat)
    BY Zenon DEF StreamInv, Counts
  <2>4. mark' \in 0 .. intact' /\ segment' \in 0 .. Len(log') /\ failures' \in Nat
    BY <1>1, <2>1, <2>2, <2>3
  <2>5. Places' /\ NoGaps'
    BY <1>1, <2>1, <2>4, Zenon DEF StreamInv, Places, NoGaps
  <2> QED BY <1>1, <2>1, <2>5, Zenon DEF StreamInv
<1>10. CASE c2.ok
  <2>1. /\ enc' = c2.enc /\ out' = out \o Numbers(c2.stages) /\ intact' = Len(out') /\ log' = log \o reads
        /\ lag' = behind /\ unread' = gone
    BY <1>3, <1>4, <1>5, <1>6, <1>7, <1>8, <1>10, Zenon
  <2>2. PICK d : Seen(d, dd, lag, unread)
    BY <1>1, <1>2, EventsReader, ReadWhole
  <2>3. PICK e : e = from_decoder(dd)
    OBVIOUS
  <2>4. Sane(enc) /\ Match(enc, dd, lag, unread)
    BY <2>2, Zenon DEF StreamInv, Seen
  <2>5. Resumes(enc, dd, lag, unread, e)
    BY <2>3, <2>4, FromDecoder, Zenon
  <2>6. Sane(e) /\ Match(e, dd, 0, {}) /\ (Gapless(enc) /\ unread = {} => Gapless(e))
    BY <2>5, Zenon DEF Resumes
  <2>7. Match(e, d, behind, gone) /\ ReadsTo(out, d) /\ d.events = log
    BY <1>5, <1>6, <2>2, <2>6, Zenon DEF Seen
  <2>8. PICK S : log \in Seq(S)
    BY Zenon DEF StreamInv, Counts
  <2>9. PICK c : c = Call(e)
    OBVIOUS
  <2>10. c.enc = e /\ Good(c, out, behind, gone, d)
    BY <2>6, <2>7, <2>9, CallStarts, Zenon
  <2>11. AllFit(fields, entries, n)
    <3>1. ASSUME NEW i \in 1 .. n
          PROVE /\ entries[i].name \in Nat /\ entries[i].ts \in 0 .. Width - 1
                /\ fields = field_defs(entries[i].name) /\ Fields(fields, entries[i].values)
      <4>1. PICK ev \in SymbolEntries : ev = entries[i]
        BY <1>7
      <4>2. ev.name = SymbolTable /\ SymbolTable \in Nat /\ ev.ts \in 0 .. Width - 1 /\ Fields(fields, ev.values)
        BY <1>4, SymbolFits, Zenon
      <4> QED BY <1>4, <4>1, <4>2
    <3> QED BY <3>1, Zenon DEF AllFit
  <2>12. PICK h : EntryByEntry(c, entries, n, h) /\ SymbolsTo(c, out, behind, gone, d, fields, entries, n, h[n])
    <3>1. d.events \in Seq(S)
      BY <2>7, <2>8
    <3> QED BY <1>5, <2>10, <2>11, <3>1, AllSymbols
  <2>13. c2 = h[n]
    BY <1>4, <1>7, <2>3, <2>9, <2>12, SymbolizedIs
  <2>14. SymbolsTo(c, out, behind, gone, d, fields, entries, n, c2)
    BY <2>12, <2>13
  <2>15. PICK e2 : Good(c2, out, behind, gone, e2) /\ e2.events = d.events \o reads
    <3>1. AllRead(c2.enc, fields, entries, behind, gone, n, reads)
      BY <1>8, Zenon DEF AllRead
    <3> QED BY <1>10, <2>14, <3>1, Zenon DEF SymbolsTo
  <2>16. Sane(c2.enc) /\ ReadsTo(out \o Numbers(c2.stages), e2) /\ Match(c2.enc, e2, Shift(c2.stages, behind), gone)
    BY <2>15, Zenon DEF Good
  <2>17. Shift(c2.stages, behind) = behind
    BY <1>5, Zenon DEF Shift
  <2>18. (\E T : log \o reads \in Seq(T)) /\ Len(log) \in Nat /\ Len(log \o reads) \in Nat /\ Len(log) <= Len(log \o reads)
    <3>1. reads = [i \in 1 .. n |-> reads[i]]
      BY <1>8
    <3> QED BY <2>8, <3>1, JoinedLonger
  <2>19. PICK T : log' \in Seq(T)
    BY <2>1, <2>18
  <2>20. Counts(out', intact', log') /\ Whole(out', intact', log') /\ InStep(enc', out', intact', log', lag', unread')
    <3>1. e2.events = log' /\ ReadsTo(out', e2) /\ Match(enc', e2, lag', unread') /\ intact' = Len(out')
      BY <2>1, <2>7, <2>15, <2>16, <2>17
    <3> QED BY <2>19, <3>1, InStepWhole
  <2>21. Places'
    <3>1. mark \in 0 .. intact /\ segment \in 0 .. Len(log) /\ failures \in Nat
      BY Zenon DEF StreamInv, Places
    <3>2. PICK u \in Seq(Nat) : u = Numbers(c2.stages)
      <4>1. Staged(c2.stages)
        BY <2>15, Zenon DEF Good
      <4> QED BY <4>1, NumbersSeq
    <3>3. out \in Seq(Nat)
      BY Zenon DEF StreamInv, Counts
    <3>4. Len(out \o u) = Len(out) + Len(u)
      BY <3>3, JoinedSeq
    <3>5. Len(out) \in Nat /\ Len(u) \in Nat
      BY <3>3
    <3>6. intact' = Len(out) + Len(u) /\ Len(log') = Len(log \o reads)
      BY <2>1, <3>2, <3>4
    <3>7. mark' \in 0 .. intact' /\ segment' \in 0 .. Len(log') /\ failures' \in Nat
      BY ONLY <1>1, <2>18, <3>1, <3>5, <3>6
    <3> QED BY <3>7, Zenon DEF Places
  <2>22. NoGaps'
    <3>1. Gapless(e) => Gapless(c2.enc)
      BY <2>10, <2>14, Zenon DEF SymbolsTo, Onward
    <3> QED BY <1>1, <1>6, <2>1, <2>6, <3>1, Zenon DEF StreamInv, NoGaps
  <2>23. Shown(out', intact', log', segment')
    <3>1. KeepsPool(d, e2)
      <4>1. Onward(e, c2.enc)
        BY <2>10, <2>14, Zenon DEF SymbolsTo
      <4> QED BY <2>7, <2>16, <4>1, PoolGrows
    <3>2. ASSUME NEW i \in 1 .. n PROVE Shows(e2.pool, reads[i])
      <4>1. HasTexts(c2.enc, fields, entries[i].values) /\ Fields(fields, entries[i].values)
        BY <1>10, <2>11, <2>14, Zenon DEF SymbolsTo, AllTexts, AllFit
      <4>2. reads[i] = AsRead(c2.enc, fields, entries[i], behind, gone)
        BY <1>8
      <4> QED BY <2>16, <4>1, <4>2, ReadShows
    <3>3. PICK Q : log \in Seq(Q) /\ reads \in Seq(Q)
      <4>1. PICK Q : Q = S \union {reads[i] : i \in 1 .. n}
        OBVIOUS
      <4>2. log \in Seq(Q)
        BY <2>8, <4>1, Wider
      <4>3. reads \in [1 .. n -> Q]
        BY ONLY <1>8, <4>1
      <4>4. reads \in Seq(Q)
        BY <4>3, AsSeq
      <4> QED BY <4>2, <4>4
    <3>4. out \in Seq(Nat) /\ out' \in Seq(Nat) /\ ReadsTo(out', e2)
      BY <2>1, <2>16, <2>20, Zenon DEF StreamInv, Counts
    <3>5. segment \in 0 .. Len(log) /\ Shown(out, Len(out), log, segment)
      BY <1>1, Zenon DEF StreamInv, Places
    <3>6. DOMAIN reads = 1 .. n
      BY <1>8
    <3>7. Shown(out', Len(out'), log \o reads, segment)
      BY <2>7, <3>1, <3>2, <3>3, <3>4, <3>5, <3>6, ShownMore
    <3> QED BY <1>1, <2>1, <3>7
  <2> QED BY <2>1, <2>16, <2>20, <2>21, <2>22, <2>23, Zenon DEF StreamInv
<1> QED BY <1>9, <1>10

LEMMA StreamStep == ASSUME StreamInv, [Next]_vars PROVE StreamInv'
<1>1. CASE Write
  BY <1>1, WriteStep
<1>2. CASE WriteEvent
  BY <1>2, WriteEventStep
<1>3. CASE Register
  BY <1>3, RegisterStep
<1>4. CASE Concatenate
  BY <1>4, ConcatenateStep
<1>5. CASE reset_to
  BY <1>5, ResetStep
<1>6. CASE into_encoder
  BY <1>6, IntoEncoderStep
<1>7. CASE Symbolize
  BY <1>7, SymbolizeStep
<1>8. CASE UNCHANGED vars
  BY <1>8, Zenon DEF vars, StreamInv, Places, NoGaps
<1> QED BY <1>1, <1>2, <1>3, <1>4, <1>5, <1>6, <1>7, <1>8, Zenon DEF Next

\* Whatever is written, fails, is taken up, symbolized or concatenated, there is a reader in
\* step with the encoder, and what is whole of the stream holds the events that were
\* written (encoder.rs, decoder.rs).
THEOREM StreamInStep == Spec => []StreamInv
<1>1. Init => StreamInv
  BY InitStream
<1>2. StreamInv /\ [Next]_vars => StreamInv'
  BY StreamStep
<1> QED BY <1>1, <1>2, PTL DEF Spec

LEMMA InvTyped == ASSUME StreamInv PROVE TypeOK
<1>1. Sane(enc) /\ Counts(out, intact, log) /\ Places
  BY Zenon DEF StreamInv
<1>2. /\ NamesFit(enc) /\ RegFits(enc) /\ TypesFit(enc) /\ PoolFits(enc) /\ PoolApart(enc)
      /\ enc.base \in 0 .. Width - 1 /\ enc.next_id \in Nat /\ enc.next_pool_id \in Nat
  BY <1>1, Zenon DEF Sane
<1>3. \A n \in DOMAIN enc.names : enc.names[n] \in DOMAIN enc.reg /\ enc.reg[enc.names[n]].name = n
  BY <1>2, Zenon DEF NamesFit
<1>4. \A t \in DOMAIN enc.types : t \in DOMAIN enc.names /\ enc.types[t] = enc.names[t]
  BY <1>2, Zenon DEF TypesFit
<1>5. \A i \in DOMAIN enc.reg : i < enc.next_id
  <2>1. \A i \in DOMAIN enc.reg : i \in 0 .. enc.next_id - 1
    BY <1>2, Zenon DEF RegFits
  <2>2. \A i \in 0 .. enc.next_id - 1 : i < enc.next_id
    BY <1>2
  <2> QED BY <2>1, <2>2, Zenon
<1>6. \A t, u \in DOMAIN enc.pool : enc.pool[t] < enc.next_pool_id /\ (enc.pool[t] = enc.pool[u] => t = u)
  <2>1. \A t \in DOMAIN enc.pool : enc.pool[t] \in 0 .. enc.next_pool_id - 1
    BY <1>2, Zenon DEF PoolFits
  <2>2. \A i \in 0 .. enc.next_pool_id - 1 : i < enc.next_pool_id
    BY <1>2
  <2>3. \A t, u \in DOMAIN enc.pool : enc.pool[t] = enc.pool[u] => t = u
    BY <1>2, Zenon DEF PoolApart
  <2> QED BY <2>1, <2>2, <2>3, Zenon
<1>7. lag \in 0 .. enc.base
  BY Zenon DEF StreamInv, InStep, Match
<1>8. mark <= intact /\ intact <= Len(out) /\ segment <= Len(log) /\ out \in Seq(Nat)
  <2>1. out \in Seq(Nat) /\ intact \in 0 .. Len(out)
    BY <1>1, Zenon DEF Counts
  <2>2. PICK S : log \in Seq(S)
    BY <1>1, Zenon DEF Counts
  <2>3. mark \in 0 .. intact /\ segment \in 0 .. Len(log)
    BY <1>1, Zenon DEF Places
  <2>4. Len(out) \in Nat /\ Len(log) \in Nat
    BY <2>1, <2>2
  <2> QED BY ONLY <2>1, <2>3, <2>4
<1> QED BY <1>2, <1>3, <1>4, <1>5, <1>6, <1>7, <1>8, Zenon DEF TypeOK

\* The maps of the encoder fit together in all of its life: no id is handed out twice, and
\* a type or name leads to its own schema (encoder.rs, EncodeState).
THEOREM StreamTypeCorrect == Spec => []TypeOK
<1>1. StreamInv => TypeOK
  BY InvTyped
<1> QED BY <1>1, StreamInStep, PTL

LEMMA InvReads == ASSUME StreamInv PROVE ReadsBack
<1>1. PICK d : ReadsTo(Cut(intact), d) /\ d.events = log
  BY Zenon DEF StreamInv, Whole, Cut
<1>2. ASSUME NEW r \in Readers PROVE LET dd == Read(r, Cut(intact)) IN dd.events = log /\ dd.status \in {"end", "reading"}
  <2>1. PICK dd : dd = Read(r, Cut(intact))
    OBVIOUS
  <2>2. dd = [d EXCEPT !.status = "end"]
    BY <1>1, <2>1, ReadEnds, Zenon DEF ReadsTo
  <2>3. PICK n : d = Decoder(n, d.reg, d.pool, d.base, d.events, "reading")
    BY <1>1, Zenon DEF ReadsTo, Arrives, Stands
  <2>4. dd.events = d.events /\ dd.status = "end"
    BY ONLY <2>2, <2>3 DEF Decoder
  <2> QED BY <1>1, <2>1, <2>4
<1> QED BY <1>2, Zenon DEF ReadsBack

\* Every reader finds the events that were written, with their schema, time, values and
\* strings, in a stream that was taken up, symbolized or concatenated too, however its
\* writes failed (encoder.rs, decoder.rs).
THEOREM EventsReadBack == Spec => []ReadsBack
<1>1. StreamInv => ReadsBack
  BY InvReads
<1> QED BY <1>1, StreamInStep, PTL

LEMMA CutTwice ==
  ASSUME NEW s \in Seq(Nat), NEW m \in Nat, m <= Len(s), NEW k \in 0 .. m
  PROVE SubSeq(SubSeq(s, 1, m), 1, k) = SubSeq(s, 1, k)
<1>1. PICK n \in Nat : n = Len(s) /\ m <= n /\ k \in Nat /\ k <= m /\ k <= n
  OBVIOUS
<1>2. PICK t \in Seq(Nat) : t = SubSeq(s, 1, m) /\ Len(t) = m /\ \A i \in 1 .. m : t[i] = s[i]
  <2>1. /\ SubSeq(s, 1, m) \in Seq(Nat) /\ Len(SubSeq(s, 1, m)) = m
        /\ \A i \in 1 .. m : SubSeq(s, 1, m)[i] = s[i]
    BY <1>1, CutIs
  <2> QED BY ONLY <2>1
<1>3. SubSeq(t, 1, k) \in Seq(Nat) /\ Len(SubSeq(t, 1, k)) = k /\ \A i \in 1 .. k : SubSeq(t, 1, k)[i] = t[i]
  BY ONLY <1>1, <1>2, t \in Seq(Nat), CutIs
<1>4. SubSeq(s, 1, k) \in Seq(Nat) /\ Len(SubSeq(s, 1, k)) = k /\ \A i \in 1 .. k : SubSeq(s, 1, k)[i] = s[i]
  BY ONLY <1>1, s \in Seq(Nat), CutIs
<1>5. \A i \in 1 .. k : i \in 1 .. m
  BY ONLY <1>1, m \in Nat
<1>6. PICK a, b : a = SubSeq(t, 1, k) /\ b = SubSeq(s, 1, k)
  OBVIOUS
<1>7. \A i \in 1 .. Len(a) : a[i] = b[i]
  BY ONLY <1>2, <1>3, <1>4, <1>5, <1>6
<1>8. a = b
  BY ONLY <1>3, <1>4, <1>6, <1>7, SameSeq
<1> QED BY <1>2, <1>6, <1>8

\* What the readers make of the stream when it is cut off behind k numbers
AgreeAt(k, frames, refs, events) ==
    /\ frames.events = events.events /\ refs.events = events.events
    /\ IsPrefix(events.events, log)
    /\ k >= Len(Header) => ((events.status \in {"error", "panic"}) <=> (frames.pos # k))

LEMMA PrefixOf ==
  ASSUME NEW S, NEW s \in Seq(S), NEW l \in 0 .. Len(s)
  PROVE IsPrefix(SubSeq(s, 1, l), s)
<1>1. l \in Nat /\ l <= Len(s)
  OBVIOUS
<1>2. PICK t : t = SubSeq(s, 1, l)
  OBVIOUS
<1>3. Len(t) = l /\ \A i \in 1 .. l : t[i] = s[i]
  BY <1>1, <1>2, CutIs
<1>4. t = [i \in 1 .. l |-> s[i]]
  BY <1>2
<1>5. IsPrefix(t, s)
  BY <1>1, <1>2, <1>3, <1>4 DEF IsPrefix
<1> QED BY <1>2, <1>5

LEMMA InvAgree == ASSUME StreamInv PROVE ReadersAgree
<1>1. PICK d : ReadsTo(Cut(intact), d) /\ d.events = log
  BY Zenon DEF StreamInv, Whole, Cut
<1>2. PICK S : out \in Seq(Nat) /\ intact \in 0 .. Len(out) /\ log \in Seq(S) /\ mark \in 0 .. intact
  BY Zenon DEF StreamInv, Counts, Places
<1>3. intact \in Nat /\ intact <= Len(out) /\ Len(log) \in Nat /\ mark \in Nat
  BY <1>2
<1>4. "frames" \in Readers /\ "refs" \in Readers /\ "events" \in Readers
  BY DEF Readers
<1>5. ASSUME NEW k \in mark .. intact
      PROVE AgreeAt(k, Read("frames", Cut(k)), Read("refs", Cut(k)), Read("events", Cut(k)))
  <2>1. k \in 0 .. intact /\ k \in Nat /\ k <= Len(out)
    BY ONLY <1>2, <1>3, <1>5
  <2>2. PICK data : data = Cut(k) /\ data \in Seq(Nat) /\ Len(data) = k
    <3>1. Cut(k) \in Seq(Nat) /\ Len(Cut(k)) = k
      BY ONLY <1>2, <2>1, CutIs DEF Cut
    <3> QED BY ONLY <3>1
  <2>3. CASE k < 2
    <3>1. ~decode_header(data, 0)
      BY <2>1, <2>2, <2>3 DEF decode_header, Has
    <3>2. PICK x : x = [Fresh(0) EXCEPT !.status = "invalid"]
      OBVIOUS
    <3>3. x.events = <<>>
      BY <3>2 DEF Fresh
    <3>4. \A r \in Readers : Read(r, data) = x
      BY <3>1, <3>2, Zenon DEF Read
    <3>5. IsPrefix(<<>>, log)
      <4>1. 0 \in 0 .. Len(log)
        BY <1>3
      <4>2. IsPrefix(SubSeq(log, 1, 0), log)
        BY <1>2, <4>1, PrefixOf
      <4>3. SubSeq(log, 1, 0) = <<>>
        BY <1>2
      <4> QED BY <4>2, <4>3
    <3>6. ~(k >= Len(Header))
      BY <2>1, <2>3, HeaderIs
    <3>7. /\ Read("frames", data) = x /\ Read("refs", data) = x /\ Read("events", data) = x
      BY <1>4, <3>4
    <3>8. AgreeAt(k, x, x, x)
      BY <3>3, <3>5, <3>6, Zenon DEF AgreeAt
    <3> QED BY <2>2, <3>7, <3>8
  <2>4. CASE k >= 2
    <3>1. CutAt(Cut(intact), k) = data
      BY <1>2, <1>3, <2>1, <2>2, CutTwice DEF CutAt, Cut
    <3>2. k \in 2 .. Len(Cut(intact))
      <4>1. Len(Cut(intact)) = intact
        BY <1>2, <1>3, CutIs DEF Cut
      <4> QED BY <1>3, <2>1, <2>4, <4>1
    <3>3. Agreed(data, log)
      BY <1>1, <3>1, <3>2 DEF ReadsTo, AgreedOn
    <3>4. PICK l \in 0 .. Len(log) : \A r \in Readers : Read(r, data).events = SubSeq(log, 1, l)
      BY <3>3, Zenon DEF Agreed
    <3>5. IsPrefix(SubSeq(log, 1, l), log)
      BY <1>2, PrefixOf
    <3>6. PICK f, g, h : f = Read("frames", data) /\ g = Read("refs", data) /\ h = Read("events", data)
      OBVIOUS
    <3>7. f.events = h.events /\ g.events = h.events /\ IsPrefix(h.events, log)
      BY <1>4, <3>4, <3>5, <3>6
    <3>8. h.status \in {"error", "panic"} <=> f.pos # k
      BY <2>2, <3>3, <3>6, Zenon DEF Agreed, Fails
    <3>9. AgreeAt(k, f, g, h)
      BY <3>7, <3>8, Zenon DEF AgreeAt
    <3> QED BY <2>2, <3>6, <3>9
  <2> QED BY <2>1, <2>3, <2>4
<1> QED BY <1>5, Zenon DEF ReadersAgree, AgreeAt

\* Wherever the stream is cut off, the three readers find the same events, a prefix of
\* those that were written, and for_each_event fails when that is inside a frame and not
\* when it is between two (decoder.rs).
THEOREM ReadersAgreeAtCuts == Spec => []ReadersAgree
<1>1. StreamInv => ReadersAgree
  BY InvAgree
<1> QED BY <1>1, StreamInStep, PTL

LEMMA InvTakenUp == ASSUME StreamInv PROVE TakenUpAlike
<1>1. SUFFICES ASSUME intact = Len(out)
      PROVE LET e == from_decoder(Read("refs", out))
            IN  /\ e.reg = enc.reg /\ e.names = enc.names /\ e.base = enc.base - lag
                /\ e.pool = [t \in DOMAIN enc.pool \ unread |-> enc.pool[t]]
                /\ failures = 0 => e.next_id = enc.next_id /\ e.next_pool_id = enc.next_pool_id
  BY Zenon DEF TakenUpAlike
<1>2. PICK dd : dd = Read("refs", out)
  OBVIOUS
<1>3. PICK d : Seen(d, dd, lag, unread)
  BY <1>1, <1>2, EventsReader, ReadWhole
<1>4. PICK e : e = from_decoder(dd)
  OBVIOUS
<1>5. Sane(enc) /\ Match(enc, dd, lag, unread)
  BY <1>3, Zenon DEF StreamInv, Seen
<1>6. Resumes(enc, dd, lag, unread, e)
  BY <1>4, <1>5, FromDecoder, Zenon
<1>7. failures = 0 => Gapless(enc) /\ unread = {}
  BY Zenon DEF StreamInv, NoGaps
<1>8. /\ e.reg = enc.reg /\ e.names = enc.names /\ e.base = enc.base - lag
      /\ e.pool = [t \in DOMAIN enc.pool \ unread |-> enc.pool[t]]
      /\ failures = 0 => e.next_id = enc.next_id /\ e.next_pool_id = enc.next_pool_id
  BY <1>6, <1>7, Zenon DEF Resumes
<1> QED BY <1>2, <1>4, <1>8

\* An encoder that is made from what a decoder has read of a whole stream has the schemas,
\* names, strings and base of the one that has written it, but for what failed writes
\* have cost (encoder.rs, from_decoder).
THEOREM StreamTakenUp == Spec => []TakenUpAlike
<1>1. StreamInv => TakenUpAlike
  BY InvTakenUp
<1> QED BY <1>1, StreamInStep, PTL

-----------------------------------------------------------------------------
(* The symbol table *)

\* x stands in s
In(x, s) == \E k \in DOMAIN s : s[k] = x

LEMMA JoinedHas ==
  ASSUME NEW S, NEW s \in Seq(S), NEW t \in Seq(S), NEW x
  PROVE In(x, s \o t) <=> In(x, s) \/ In(x, t)
<1>1. PICK y : y = s \o t
  OBVIOUS
<1>2. /\ y \in Seq(S) /\ Len(y) = Len(s) + Len(t) /\ (\A i \in 1 .. Len(s) : y[i] = s[i])
      /\ \A i \in 1 .. Len(t) : y[Len(s) + i] = t[i]
  BY <1>1, JoinedSeq
<1>3. PICK m \in Nat, n \in Nat : m = Len(s) /\ n = Len(t) /\ DOMAIN s = 1 .. m /\ DOMAIN t = 1 .. n
  OBVIOUS
<1>4. DOMAIN y = 1 .. m + n
  BY <1>2, <1>3
<1>5. ASSUME In(x, y) PROVE In(x, s) \/ In(x, t)
  <2>1. PICK k \in 1 .. m + n : y[k] = x
    BY <1>4, <1>5 DEF In
  <2>2. CASE k \in 1 .. m
    BY <1>2, <1>3, <2>1, <2>2 DEF In
  <2>3. CASE k \in m + 1 .. m + n
    <3>1. PICK j \in 1 .. n : k = m + j
      <4>1. k - m \in 1 .. n /\ k = m + (k - m)
        BY <2>3
      <4> QED BY <4>1
    <3> QED BY <1>2, <1>3, <2>1, <3>1 DEF In
  <2> QED BY <2>2, <2>3
<1>6. ASSUME In(x, s) PROVE In(x, y)
  <2>1. PICK k \in 1 .. m : s[k] = x
    BY <1>3, <1>6 DEF In
  <2>2. k \in 1 .. m + n
    OBVIOUS
  <2> QED BY <1>2, <1>3, <1>4, <2>1, <2>2 DEF In
<1>7. ASSUME In(x, t) PROVE In(x, y)
  <2>1. PICK k \in 1 .. n : t[k] = x
    BY <1>3, <1>7 DEF In
  <2>2. m + k \in 1 .. m + n
    OBVIOUS
  <2> QED BY <1>2, <1>3, <1>4, <2>1, <2>2 DEF In
<1> QED BY <1>1, <1>5, <1>6, <1>7

LEMMA FlatHas ==
  ASSUME NEW S, NEW l \in Nat, NEW parts \in [1 .. l -> Seq(S)], NEW x
  PROVE In(x, FlattenSeq(parts)) <=> \E i \in 1 .. l : In(x, parts[i])
<1>1. PICK f : Grows(S, parts, l, f) /\ f[l] = FlattenSeq(parts)
  BY FlatGrows
<1> DEFINE HasUpTo(m) == In(x, f[m]) <=> \E i \in 1 .. m : In(x, parts[i])
           T == {m \in Nat : m <= l /\ ~HasUpTo(m)}
<1>2. T = {}
  <2> SUFFICES ASSUME T # {} PROVE FALSE
    OBVIOUS
  <2>1. PICK m \in T : \A y \in T : m <= y
    BY LeastNat, T \subseteq Nat
  <2>2. CASE m = 0
    <3>1. f[0] = <<>>
      BY <1>1 DEF Grows
    <3>2. ~In(x, f[0])
      BY <3>1 DEF In
    <3>3. HasUpTo(0)
      BY <3>2
    <3> QED BY <2>1, <2>2, <3>3
  <2>3. CASE m # 0
    <3>1. m - 1 \in Nat /\ ~(m <= m - 1) /\ m - 1 <= l /\ m \in 1 .. l /\ m - 1 \in 0 .. l /\ m \in Nat
      BY <2>1, <2>3
    <3>2. HasUpTo(m - 1)
      BY <2>1, <3>1
    <3>3. f[m] = f[m - 1] \o parts[m] /\ f[m - 1] \in Seq(S) /\ parts[m] \in Seq(S)
      BY <1>1, <3>1 DEF Grows
    <3>4. In(x, f[m]) <=> In(x, f[m - 1]) \/ In(x, parts[m])
      BY <3>3, JoinedHas
    <3>5. \A i : i \in 1 .. m <=> i \in 1 .. m - 1 \/ i = m
      BY <3>1
    <3>6. (\E i \in 1 .. m : In(x, parts[i])) <=> (\E i \in 1 .. m - 1 : In(x, parts[i])) \/ In(x, parts[m])
      BY <3>5, Zenon
    <3>7. HasUpTo(m)
      BY <3>2, <3>4, <3>6
    <3> QED BY <2>1, <3>7
  <2> QED BY <2>2, <2>3
<1>3. l <= l
  OBVIOUS
<1>4. HasUpTo(l)
  BY <1>2, <1>3
<1> QED BY <1>1, <1>4

TableOf(l) == {e \in Range(l) : e.name = SymbolTable /\ e.types = field_defs(SymbolTable)}
AllResolved(l) == \A e \in TableOf(l) : AsResolved(e, TableOf(l))

\* AsResolved in pieces
SaysOf(o, info) ==
    /\ o.texts[3] = info.name
    /\ o.texts[5] = IF info.code_info = <<>> THEN <<>> ELSE info.code_info[1].file
    /\ info.code_info # <<>> /\ info.code_info[1].line # <<>> => o.values[6] = info.code_info[1].line
StandsAt(o, a, infos, d) == o.values[1] = <<a>> /\ o.values[4] = <<d - 1>> /\ SaysOf(o, infos[d])
Unread(e, a) == e.values[4] = <<0>> /\ e.texts[3] = Hex(a) /\ \E i \in MappingOf(a) : e.texts[5] = FileOf(i)
AllStand(e, a, infos, table) ==
    /\ \E d \in DOMAIN infos : StandsAt(e, a, infos, d)
    /\ \A d \in DOMAIN infos : \E o \in table : StandsAt(o, a, infos, d)

LEMMA ResolvedIs ==
  ASSUME NEW e, NEW table, NEW a, a = e.values[1][1]
  PROVE AsResolved(e, table) <=> Unread(e, a) \/ AllStand(e, a, resolve_symbols_with_maps(a, {}), table)
  BY Zenon DEF AsResolved, Unread, AllStand, StandsAt, SaysOf

LEMMA ResolvedMore ==
  ASSUME NEW e, NEW t, NEW u, t \subseteq u, AsResolved(e, t)
  PROVE AsResolved(e, u)
<1>1. PICK a : a = e.values[1][1]
  OBVIOUS
<1>2. PICK infos : infos = resolve_symbols_with_maps(a, {})
  OBVIOUS
<1>3. Unread(e, a) \/ AllStand(e, a, infos, t)
  BY <1>1, <1>2, ResolvedIs
<1>4. AllStand(e, a, infos, t) => AllStand(e, a, infos, u)
  BY DEF AllStand
<1> QED BY <1>1, <1>2, <1>3, <1>4, ResolvedIs

\* An address is in one mapping at most, and what is found there is what the running
\* program finds.
LEMMA OneMapping == ASSUME NEW a, NEW i \in MappingOf(a), NEW j \in MappingOf(a) PROVE i = j
<1> DEFINE in(n) == Mappings[n].start <= a /\ a < Mappings[n].end
<1>1. CASE a >= KernelStart
  BY <1>1, Zenon DEF MappingOf
<1>2. CASE ~(a >= KernelStart)
  <2>1. MappingOf(a) = {n \in DOMAIN Mappings : in(n) /\ \A m \in 1 .. n - 1 : ~in(m)}
    BY <1>2, Zenon DEF MappingOf
  <2> HIDE DEF in
  <2>2. i \in DOMAIN Mappings /\ j \in DOMAIN Mappings /\ in(i) /\ in(j)
        /\ (\A m \in 1 .. i - 1 : ~in(m)) /\ \A m \in 1 .. j - 1 : ~in(m)
    BY <2>1
  <2>3. i \in Nat /\ j \in Nat /\ i >= 1 /\ j >= 1
    BY <2>2, MappingsAre
  <2>4. i < j => i \in 1 .. j - 1
    BY <2>3
  <2>5. j < i => j \in 1 .. i - 1
    BY <2>3
  <2>6. ~(i < j) /\ ~(j < i)
    BY <2>2, <2>4, <2>5
  <2> QED BY <2>3, <2>6
<1> QED BY <1>1, <1>2

LEMMA InfosAre ==
  ASSUME NEW a, NEW i \in MappingOf(a), NEW fs, fs = Found(i, a), NEW d1 \in DOMAIN fs
  PROVE resolve_symbols_with_maps(a, {}) = [d \in DOMAIN fs |-> SymbolInfo(fs[d])]
<1> DEFINE place(n) == IF n = Kernel THEN <<KernelFile, a>>
                       ELSE <<Mappings[n].path, a - Mappings[n].start + Mappings[n].file_offset>>
           functions(n) == IF n \in {} THEN <<>> ELSE Functions(place(n))
           infos(n) == [d \in DOMAIN functions(n) |-> SymbolInfo(functions(n)[d])]
<1>1. functions(i) = fs
  <2>1. place(i) = <<FileOf(i), Offset(i, a)>>
    <3>1. CASE i = Kernel
      BY <3>1, Zenon DEF FileOf, Offset
    <3>2. CASE i # Kernel
      BY <3>2, Zenon DEF FileOf, Offset
    <3> QED BY <3>1, <3>2
  <2>2. functions(i) = Functions(place(i))
    OBVIOUS
  <2> QED BY <2>1, <2>2, Zenon DEF Found
<1>2. infos(i) = [d \in DOMAIN fs |-> SymbolInfo(fs[d])]
  BY <1>1, Zenon
<1>3. infos(i) # <<>>
  <2>1. PICK y : y = infos(i)
    OBVIOUS
  <2>2. DOMAIN y = DOMAIN fs
    BY <1>2, <2>1
  <2> HIDE DEF infos
  <2>3. y # <<>>
    BY <2>2
  <2> QED BY <2>1, <2>3
<1>4. MappingOf(a) = {i}
  BY OneMapping
<1>5. (CHOOSE n \in MappingOf(a) : TRUE) = i
  BY <1>4
<1>6. MappingOf(a) # {}
  OBVIOUS
<1>7. ~(MappingOf(a) = {Kernel} /\ infos(Kernel) = <<>>)
  <2>1. MappingOf(a) = {Kernel} => i = Kernel
    BY <1>4
  <2> HIDE DEF infos
  <2> QED BY <1>3, <2>1
<1>8. resolve_symbols_with_maps(a, {}) =
        CASE MappingOf(a) = {} -> <<>>
          [] MappingOf(a) = {Kernel} /\ infos(Kernel) = <<>> -> <<Unnamed(a)>>
          [] OTHER -> infos(CHOOSE n \in MappingOf(a) : TRUE)
  BY Zenon DEF resolve_symbols_with_maps
<1> HIDE DEF infos
<1>9. resolve_symbols_with_maps(a, {}) = infos(i)
  BY <1>5, <1>6, <1>7, <1>8, Zenon
<1> QED BY <1>2, <1>9

\* what a reader sees of an entry
LEMMA EntryRead ==
  ASSUME NEW e, NEW a, NEW name, NEW depth, NEW file, NEW line,
         NEW x, x = AsRead(e, field_defs(SymbolTable), SymbolEntry(a, name, depth, file, line), 0, {})
  PROVE /\ x.name = SymbolTable /\ x.types = field_defs(SymbolTable) /\ x.values[1] = <<a>> /\ x.values[4] = <<depth>>
        /\ x.values[6] = <<line>> /\ x.texts[3] = name /\ x.texts[5] = file
<1>1. PICK fields, values : fields = field_defs(SymbolTable) /\ values = <<<<a>>, <<0>>, name, <<depth>>, file, <<line>>>>
  OBVIOUS
<1>2. PICK ev : ev = SymbolEntry(a, name, depth, file, line)
  OBVIOUS
<1>3. ev = [name |-> SymbolTable, ts |-> 0, values |-> values]
  BY <1>1, <1>2, Zenon DEF SymbolEntry
<1>4. ev.name = SymbolTable /\ ev.values = values
  BY ONLY <1>3
<1>5. DOMAIN fields = 1 .. 6 /\ \A i \in 1 .. 6 : fields[i] = (IF i = 3 \/ i = 5 THEN PooledString ELSE Varint)
  <2>1. PICK structs : structs = Structs[SymbolTable]
    OBVIOUS
  <2>2. structs = <<"u64", "u64", "InternedString", "u64", "InternedString", "u64">>
    BY <2>1, SymbolizerAssumption
  <2>3. fields = [i \in DOMAIN structs |-> field_type[structs[i]]]
    BY <1>1, <2>1, Zenon DEF field_defs
  <2>4. DOMAIN structs = 1 .. 6 /\ structs[1] = "u64" /\ structs[2] = "u64" /\ structs[3] = "InternedString"
        /\ structs[4] = "u64" /\ structs[5] = "InternedString" /\ structs[6] = "u64"
    BY ONLY <2>2
  <2>5. field_type["u64"] = Varint /\ field_type["InternedString"] = PooledString
    BY RustTypesAre
  <2>6. \A i \in 1 .. 6 : i = 1 \/ i = 2 \/ i = 3 \/ i = 4 \/ i = 5 \/ i = 6
    OBVIOUS
  <2> QED BY ONLY <2>3, <2>4, <2>5, <2>6
<1>6. Varint # PooledString
  BY DEF Varint, PooledString
<1>7. DOMAIN values = 1 .. 6 /\ values[1] = <<a>> /\ values[3] = name /\ values[4] = <<depth>> /\ values[5] = file /\ values[6] = <<line>>
  BY ONLY <1>1
<1>8. PICK ids : ids = Ids(e, fields, values)
  OBVIOUS
<1>9. ids = [i \in DOMAIN values |-> IF fields[i] = PooledString THEN <<e.pool[values[i]]>> ELSE values[i]]
  BY <1>8, Zenon DEF Ids
<1>10. ids[1] = <<a>> /\ ids[4] = <<depth>> /\ ids[6] = <<line>>
  BY ONLY <1>5, <1>6, <1>7, <1>9
<1>11. PICK texts : texts = [i \in {j \in DOMAIN fields : fields[j] = PooledString} |->
                                 IF ev.values[i] \in {} THEN Missing ELSE ev.values[i]]
  OBVIOUS
<1>12. texts[3] = name /\ texts[5] = file
  <2>1. 3 \in {j \in DOMAIN fields : fields[j] = PooledString} /\ 5 \in {j \in DOMAIN fields : fields[j] = PooledString}
    BY ONLY <1>5
  <2> QED BY ONLY <1>4, <1>7, <1>11, <2>1
<1>13. x = [name |-> ev.name, types |-> fields, ts |-> ev.ts - 0, values |-> ids, texts |-> texts]
  BY <1>1, <1>2, <1>4, <1>8, <1>11, Zenon DEF AsRead
<1>14. x.name = ev.name /\ x.types = fields /\ x.values = ids /\ x.texts = texts
  BY ONLY <1>13
<1> QED BY <1>1, <1>4, <1>10, <1>12, <1>14

\* An entry of a function says what the running program finds of it.
LEMMA EntrySays ==
  ASSUME NEW f, IsFunction(f), NEW c, c = intern_code_info(f.code), NEW info, info = SymbolInfo(f),
         NEW o, o.texts[3] = f.name, o.texts[5] = c.file, o.values[6] = <<c.line>>
  PROVE SaysOf(o, info)
<1>1. PICK code, name : code = f.code /\ name = f.name
  OBVIOUS
<1>2. info = [name |-> name, code_info |-> convert_code_info(code)]
  BY <1>1, Zenon DEF SymbolInfo
<1>3. info.name = name /\ info.code_info = [i \in DOMAIN code |-> [file |-> Joined(code[i]), line |-> code[i].line]]
  <2>1. info.name = name /\ info.code_info = convert_code_info(code)
    BY ONLY <1>2
  <2> QED BY <2>1, Zenon DEF convert_code_info
<1>4. CASE code = <<>>
  <2>1. c = [file |-> <<>>, line |-> 0]
    BY <1>1, <1>4, Zenon DEF intern_code_info
  <2>2. c.file = <<>>
    BY ONLY <2>1
  <2>3. info.code_info = <<>>
    BY ONLY <1>3, <1>4
  <2> QED BY <1>1, <1>3, <2>2, <2>3 DEF SaysOf
<1>5. CASE code # <<>>
  <2>1. PICK k : k = code[1]
    OBVIOUS
  <2>2. code = <<k>> /\ (k.line # <<>> => k.line \in {<<n>> : n \in 0 .. Width - 1})
    BY <1>1, <1>5, <2>1, Zenon DEF IsFunction
  <2>3. PICK file, line : file = Joined(k) /\ line = IF k.line = <<>> THEN 0 ELSE k.line[1]
    OBVIOUS
  <2>4. c = [file |-> file, line |-> line]
    BY <1>1, <1>5, <2>1, <2>3, Zenon DEF intern_code_info
  <2>5. c.file = file /\ c.line = line
    BY ONLY <2>4
  <2>6. DOMAIN code = {1} /\ code[1] = k
    BY <2>2
  <2>7. PICK y : y = [file |-> file, line |-> k.line]
    OBVIOUS
  <2>8. info.code_info[1] = y
    <3>1. PICK g : g = [i \in DOMAIN code |-> [file |-> Joined(code[i]), line |-> code[i].line]]
      OBVIOUS
    <3>2. 1 \in DOMAIN code
      BY <2>6
    <3>3. g[1] = [file |-> Joined(k), line |-> k.line]
      BY ONLY <2>6, <3>1, <3>2
    <3>4. info.code_info = g
      BY <1>3, <3>1, Zenon
    <3> QED BY ONLY <2>3, <2>7, <3>3, <3>4
  <2>9. y.file = file /\ y.line = k.line
    BY ONLY <2>7
  <2>10. info.code_info # <<>>
    <3>1. PICK g : g = info.code_info
      OBVIOUS
    <3>2. DOMAIN g = {1}
      BY <1>3, <2>6, <3>1
    <3>3. g # <<>>
      BY ONLY <3>2
    <3> QED BY <3>1, <3>3
  <2>11. k.line # <<>> => <<c.line>> = k.line
    <3> SUFFICES ASSUME k.line # <<>> PROVE <<c.line>> = k.line
      OBVIOUS
    <3>1. PICK n \in 0 .. Width - 1 : k.line = <<n>>
      BY <2>2
    <3>2. k.line[1] = n
      BY <3>1
    <3> QED BY <2>3, <2>5, <3>1, <3>2
  <2> QED BY <1>1, <1>3, <2>5, <2>8, <2>9, <2>10, <2>11, Zenon DEF SaysOf
<1> QED BY <1>4, <1>5

LEMMA FoundAre ==
  ASSUME NEW i, NEW a, NEW fs, fs = Found(i, a), NEW d \in DOMAIN fs
  PROVE IsFunction(fs[d])
<1>1. PICK place : fs = Functions(place)
  BY Zenon DEF Found
<1>2. CASE place \in DOMAIN Code
  <2>1. fs = Code[place]
    BY <1>1, <1>2, Zenon DEF Functions
  <2> QED BY <1>2, <2>1, SymbolizerAssumption, Zenon
<1>3. CASE place \notin DOMAIN Code
  <2>1. fs = <<>>
    BY <1>1, <1>3, Zenon DEF Functions
  <2>2. DOMAIN fs = {}
    BY ONLY <2>1
  <2> QED BY <2>2
<1> QED BY <1>2, <1>3

\* An entry stands where its function does.
LEMMA SymbolStands ==
  ASSUME NEW a, NEW i \in MappingOf(a), NEW ss, ss = Symbols(i, a), NEW infos, infos = resolve_symbols_with_maps(a, {}),
         NEW d1 \in DOMAIN ss
  PROVE /\ DOMAIN infos = DOMAIN ss
        /\ \A d \in DOMAIN ss : \A e, x : x = AsRead(e, field_defs(SymbolTable), ss[d], 0, {}) =>
              x.name = SymbolTable /\ x.types = field_defs(SymbolTable) /\ x.values[1] = <<a>> /\ StandsAt(x, a, infos, d)
<1>1. PICK fs : fs = Found(i, a)
  OBVIOUS
<1> DEFINE entry(d) == SymbolEntry(a, fs[d].name, d - 1, intern_code_info(fs[d].code).file, intern_code_info(fs[d].code).line)
<1>2. ss = [d \in DOMAIN fs |-> entry(d)]
  BY <1>1, Zenon DEF Symbols
<1>3. DOMAIN ss = DOMAIN fs
  BY <1>2
<1>4. infos = [d \in DOMAIN fs |-> SymbolInfo(fs[d])]
  BY <1>1, <1>3, InfosAre
<1>5. ASSUME NEW d \in DOMAIN ss, NEW e, NEW x, x = AsRead(e, field_defs(SymbolTable), ss[d], 0, {})
      PROVE x.name = SymbolTable /\ x.types = field_defs(SymbolTable) /\ x.values[1] = <<a>> /\ StandsAt(x, a, infos, d)
  <2>1. PICK c : c = intern_code_info(fs[d].code)
    OBVIOUS
  <2>2. PICK depth : depth = d - 1
    OBVIOUS
  <2>3. ss[d] = SymbolEntry(a, fs[d].name, depth, c.file, c.line)
    BY <1>2, <1>3, <2>1, <2>2
  <2>4. x = AsRead(e, field_defs(SymbolTable), SymbolEntry(a, fs[d].name, depth, c.file, c.line), 0, {})
    BY <1>5, <2>3
  <2>5. /\ x.name = SymbolTable /\ x.types = field_defs(SymbolTable) /\ x.values[1] = <<a>> /\ x.values[4] = <<depth>>
        /\ x.values[6] = <<c.line>> /\ x.texts[3] = fs[d].name /\ x.texts[5] = c.file
    BY <2>4, EntryRead
  <2>6. d \in DOMAIN fs
    BY <1>3
  <2>7. IsFunction(fs[d])
    BY <1>1, <2>6, FoundAre
  <2>8. infos[d] = SymbolInfo(fs[d])
    BY <1>4, <2>6
  <2>9. SaysOf(x, infos[d])
    BY <2>1, <2>5, <2>7, <2>8, EntrySays
  <2> QED BY <2>2, <2>5, <2>9, Zenon DEF StandsAt
<1> HIDE DEF entry
<1> QED BY <1>3, <1>4, <1>5, Zenon

\* What is written for an address is written as a whole.
LEMMA OrderWhole ==
  ASSUME NEW order \in Seq(Nat), NEW broken, NEW known, NEW x, In(x, InOrder(order, broken, known))
  PROVE \E i : \E a \in 0 .. Width - 1 :
           /\ In(x, Entries(i, broken, known, a))
           /\ \A y : In(y, Entries(i, broken, known, a)) => In(y, InOrder(order, broken, known))
<1> DEFINE of(i) == [n \in 1 .. Width |-> Entries(i, broken, known, n - 1)]
           lines(i) == FlattenSeq(of(i))
<1>1. ASSUME NEW i PROVE of(i) \in [1 .. Width -> Seq(SymbolEntries)]
  <2>1. \A n \in 1 .. Width : n - 1 \in 0 .. Width - 1
    BY ZeroFits
  <2>2. \A n \in 1 .. Width : Entries(i, broken, known, n - 1) \in Seq(SymbolEntries)
    BY <2>1, EntriesAre
  <2> QED BY <2>2
<1>2. ASSUME NEW i, NEW y PROVE In(y, lines(i)) <=> \E n \in 1 .. Width : In(y, of(i)[n])
  <2>1. PICK z : z = of(i)
    OBVIOUS
  <2>2. z \in [1 .. Width -> Seq(SymbolEntries)]
    BY <1>1, <2>1
  <2>3. In(y, FlattenSeq(z)) <=> \E n \in 1 .. Width : In(y, z[n])
    BY <2>2, ZeroFits, FlatHas
  <2> QED BY <2>1, <2>3
<1>3. PICK parts : parts = [j \in DOMAIN order |-> lines(order[j])]
  OBVIOUS
<1>4. InOrder(order, broken, known) = FlattenSeq(parts)
  BY <1>3, Zenon DEF InOrder
<1>5. ASSUME NEW i PROVE lines(i) \in Seq(SymbolEntries)
  <2>1. PICK z : z = of(i)
    OBVIOUS
  <2>2. FlattenSeq(z) \in Seq(SymbolEntries)
    BY <1>1, <2>1, ZeroFits, FlatSeq
  <2> QED BY <2>1, <2>2
<1>6. PICK l \in Nat : l = Len(order) /\ DOMAIN order = 1 .. l
  OBVIOUS
<1>7. \A i : \A n \in 1 .. Width : of(i)[n] = Entries(i, broken, known, n - 1)
  OBVIOUS
<1> HIDE DEF of, lines
<1>8. parts \in [1 .. l -> Seq(SymbolEntries)]
  BY <1>3, <1>5, <1>6
<1>9. \A y : In(y, InOrder(order, broken, known)) <=> \E j \in 1 .. l : In(y, lines(order[j]))
  <2>1. \A j \in 1 .. l : parts[j] = lines(order[j])
    BY <1>3, <1>6
  <2>2. \A y : In(y, FlattenSeq(parts)) <=> \E j \in 1 .. l : In(y, parts[j])
    BY <1>8, FlatHas
  <2> QED BY <1>4, <2>1, <2>2, Zenon
<1>10. PICK j \in 1 .. l : In(x, lines(order[j]))
  BY <1>9
<1>11. PICK i : i = order[j]
  OBVIOUS
<1>12. PICK n \in 1 .. Width : In(x, of(i)[n])
  BY <1>2, <1>10, <1>11
<1>13. PICK a : a = n - 1
  OBVIOUS
<1>14. a \in 0 .. Width - 1
  BY <1>13, ZeroFits
<1>15. of(i)[n] = Entries(i, broken, known, a)
  BY <1>7, <1>13
<1>16. \A y : In(y, Entries(i, broken, known, a)) => In(y, InOrder(order, broken, known))
  BY <1>2, <1>9, <1>11, <1>15, Zenon
<1> QED BY <1>12, <1>14, <1>15, <1>16, Zenon

LEMMA EntryKinds ==
  ASSUME NEW i, NEW broken, NEW known, NEW a, NEW x, In(x, Entries(i, broken, known, a))
  PROVE /\ i \in MappingOf(a)
        /\ x = SymbolEntry(a, Hex(a), 0, FileOf(i), 0) \/ Entries(i, broken, known, a) = Symbols(i, a)
<1>1. PICK es : es = Entries(i, broken, known, a)
  OBVIOUS
<1>2. es # <<>>
  BY <1>1 DEF In
<1>3. a \in known /\ i \in MappingOf(a)
  BY <1>1, <1>2, Zenon DEF Entries
<1>4. CASE i \in broken
  <2>1. PICK y : y = SymbolEntry(a, Hex(a), 0, FileOf(i), 0)
    OBVIOUS
  <2>2. es = <<y>>
    BY <1>1, <1>3, <1>4, <2>1, Zenon DEF Entries, Placeholder
  <2>3. x = y
    BY <1>1, <2>2 DEF In
  <2> QED BY <1>3, <2>1, <2>3
<1>5. CASE i \notin broken
  BY <1>3, <1>5, Zenon DEF Entries
<1> QED BY <1>4, <1>5

\* What is symbolized is resolved.
LEMMA EntriesResolved ==
  ASSUME NEW addresses, NEW entries \in SymbolData(addresses), NEW n \in Nat, DOMAIN entries = 1 .. n, NEW e,
         NEW reads, reads = [i \in 1 .. n |-> AsRead(e, field_defs(SymbolTable), entries[i], 0, {})]
  PROVE AllResolved(reads)
<1>0. PICK order \in Seq(Nat) : \E broken, known : entries = InOrder(order, broken, known)
  BY SymbolDataInOrder
<1>1. PICK broken, known : entries = InOrder(order, broken, known)
  BY <1>0
<1>2. PICK table : table = TableOf(reads)
  OBVIOUS
<1>3. ASSUME NEW x \in table PROVE AsResolved(x, table)
  <2>1. PICK k \in 1 .. n : x = AsRead(e, field_defs(SymbolTable), entries[k], 0, {})
    BY <1>2 DEF TableOf, Range
  <2>2. In(entries[k], InOrder(order, broken, known))
    BY <1>1 DEF In
  <2>7. PICK i : \E a \in 0 .. Width - 1 :
           /\ In(entries[k], Entries(i, broken, known, a))
           /\ \A y : In(y, Entries(i, broken, known, a)) => In(y, InOrder(order, broken, known))
    BY <2>2, OrderWhole
  <2>3. PICK a \in 0 .. Width - 1 :
           /\ In(entries[k], Entries(i, broken, known, a))
           /\ \A y : In(y, Entries(i, broken, known, a)) => In(y, InOrder(order, broken, known))
    BY <2>7
  <2>4. i \in MappingOf(a) /\ (entries[k] = SymbolEntry(a, Hex(a), 0, FileOf(i), 0) \/ Entries(i, broken, known, a) = Symbols(i, a))
    BY <2>3, EntryKinds
  <2>5. CASE entries[k] = SymbolEntry(a, Hex(a), 0, FileOf(i), 0)
    <3>1. x = AsRead(e, field_defs(SymbolTable), SymbolEntry(a, Hex(a), 0, FileOf(i), 0), 0, {})
      BY <2>1, <2>5
    <3>2. x.values[1] = <<a>> /\ x.values[4] = <<0>> /\ x.texts[3] = Hex(a) /\ x.texts[5] = FileOf(i)
      BY <3>1, EntryRead
    <3>3. Unread(x, a)
      BY <2>4, <3>2, Zenon DEF Unread
    <3>4. a = x.values[1][1]
      BY <3>2
    <3> QED BY <3>3, <3>4, ResolvedIs
  <2>6. CASE Entries(i, broken, known, a) = Symbols(i, a)
    <3>1. PICK ss : ss = Symbols(i, a)
      OBVIOUS
    <3>2. PICK d1 \in DOMAIN ss : entries[k] = ss[d1]
      BY <2>3, <2>6, <3>1, Zenon DEF In
    <3>3. PICK infos : infos = resolve_symbols_with_maps(a, {})
      OBVIOUS
    <3>4. /\ DOMAIN infos = DOMAIN ss
          /\ \A d \in DOMAIN ss : \A f, y : y = AsRead(f, field_defs(SymbolTable), ss[d], 0, {}) =>
                y.name = SymbolTable /\ y.types = field_defs(SymbolTable) /\ y.values[1] = <<a>> /\ StandsAt(y, a, infos, d)
      BY <2>4, <3>1, <3>2, <3>3, SymbolStands
    <3>5. x.values[1] = <<a>> /\ StandsAt(x, a, infos, d1)
      BY <2>1, <3>2, <3>4, Zenon
    <3>6. ASSUME NEW d \in DOMAIN infos PROVE \E o \in table : StandsAt(o, a, infos, d)
      <4>1. In(ss[d], Entries(i, broken, known, a))
        BY <2>6, <3>1, <3>4, Zenon DEF In
      <4>2. In(ss[d], entries)
        BY <1>1, <2>3, <4>1
      <4>3. PICK m \in 1 .. n : entries[m] = ss[d]
        BY <4>2 DEF In
      <4>4. PICK y : y = AsRead(e, field_defs(SymbolTable), entries[m], 0, {})
        OBVIOUS
      <4>5. y.name = SymbolTable /\ y.types = field_defs(SymbolTable) /\ StandsAt(y, a, infos, d)
        BY <3>4, <4>3, <4>4, Zenon
      <4>6. m \in DOMAIN reads /\ reads[m] = y
        BY <4>4
      <4>7. y \in Range(reads)
        BY <4>6 DEF Range
      <4> QED BY <1>2, <4>5, <4>7, Zenon DEF TableOf
    <3>7. AllStand(x, a, infos, table)
      BY <3>2, <3>4, <3>5, <3>6, Zenon DEF AllStand
    <3>8. a = x.values[1][1]
      BY <3>5
    <3> QED BY <3>3, <3>7, <3>8, ResolvedIs
  <2> QED BY <2>4, <2>5, <2>6
<1> QED BY <1>2, <1>3, Zenon DEF AllResolved

\* What is written behind a log that is resolved leaves it so.
LEMMA ResolvedBehind ==
  ASSUME NEW S, NEW l \in Seq(S), NEW w \in Seq(S), AllResolved(l), AllResolved(w)
  PROVE AllResolved(l \o w)
<1>1. PICK y : y = l \o w
  OBVIOUS
<1>2. \A x : In(x, y) <=> In(x, l) \/ In(x, w)
  BY <1>1, JoinedHas
<1>3. ASSUME NEW s, NEW x PROVE x \in Range(s) <=> In(x, s)
  BY DEF Range, In
<1>4. TableOf(y) = TableOf(l) \union TableOf(w)
  BY <1>2, <1>3 DEF TableOf
<1>5. ASSUME NEW x \in TableOf(y) PROVE AsResolved(x, TableOf(y))
  <2>1. CASE x \in TableOf(l)
    BY <1>4, <2>1, ResolvedMore DEF AllResolved
  <2>2. CASE x \in TableOf(w)
    BY <1>4, <2>2, ResolvedMore DEF AllResolved
  <2> QED BY <1>4, <2>1, <2>2
<1> QED BY <1>1, <1>5, Zenon DEF AllResolved

LEMMA OtherResolved ==
  ASSUME NEW S, NEW l \in Seq(S), AllResolved(l), NEW w, AtMostOne(w),
         \A i \in DOMAIN w : w[i].name # SymbolTable \/ w[i].types # field_defs(SymbolTable)
  PROVE AllResolved(l \o w)
<1>1. PICK T : w \in Seq(T)
  <2>1. CASE w = <<>>
    <3>1. w \in Seq({})
      BY <2>1
    <3> QED BY <3>1
  <2>2. CASE \E x : w = <<x>>
    <3>1. PICK x : w = <<x>>
      BY <2>2
    <3>2. <<x>> \in Seq({x})
      OBVIOUS
    <3> QED BY <3>1, <3>2
  <2> QED BY <2>1, <2>2 DEF AtMostOne
<1>2. PICK R : R = S \union T
  OBVIOUS
<1>3. l \in Seq(R) /\ w \in Seq(R)
  BY <1>1, <1>2, Wider
<1>4. TableOf(w) = {}
  BY DEF TableOf, Range
<1>5. AllResolved(w)
  BY <1>4 DEF AllResolved
<1> QED BY <1>3, <1>5, ResolvedBehind

LEMMA NotResolved == AllResolved(<<>>)
  BY DEF AllResolved, TableOf, Range

\* A call that writes another event, or none
LEMMA CallResolved ==
  ASSUME StreamInv, AllResolved(log), NEW c, NEW w, AtMostOne(w),
         \A i \in DOMAIN w : w[i].name # SymbolTable \/ w[i].types # field_defs(SymbolTable),
         Succeeds(c, w) \/ WriteFails(c) \/ Refused(c)
  PROVE AllResolved(log')
<1>1. PICK S : log \in Seq(S)
  BY Zenon DEF StreamInv, Counts
<1>2. log' = log \/ log' = log \o w \/ log' = log \o <<>>
  BY Zenon DEF Succeeds, WriteFails, Refused
<1>3. log \o <<>> = log
  BY <1>1
<1>4. AllResolved(log \o w)
  BY <1>1, OtherResolved
<1> QED BY <1>2, <1>3, <1>4

LEMMA One == ASSUME NEW x PROVE AtMostOne(<<x>>) /\ \A i \in DOMAIN <<x>> : <<x>>[i] = x
<1>1. AtMostOne(<<x>>)
  BY Zenon DEF AtMostOne
<1> QED BY <1>1

LEMMA ReadNamed ==
  ASSUME NEW e, NEW fields, NEW ev, NEW shift, NEW gone, NEW x, x = AsRead(e, fields, ev, shift, gone)
  PROVE x.name = ev.name /\ x.types = fields
<1>1. PICK name, ts, values, texts : x = [name |-> name, types |-> fields, ts |-> ts, values |-> values, texts |-> texts] /\ name = ev.name
  BY Zenon DEF AsRead
<1> QED BY ONLY <1>1

LEMMA ResolvedStep == ASSUME StreamInv, AllResolved(log), [Next]_vars PROVE AllResolved(log')
<1>1. CASE Write
  <2>1. PICK raw \in Events :
          LET ev == write_resolved(raw)
              call == write(Call(enc), ev)
              read == AsRead(call.enc, field_defs(ev.name), ev, Shift(call.stages, lag), unread)
          IN  Succeeds(call, <<read>>) \/ WriteFails(call) \/ Refused(call)
    BY <1>1, Zenon DEF Write
  <2>2. PICK ev, fields, c : ev = write_resolved(raw) /\ fields = field_defs(ev.name) /\ c = write(Call(enc), ev)
    OBVIOUS
  <2>3. PICK read : read = AsRead(c.enc, fields, ev, Shift(c.stages, lag), unread)
    OBVIOUS
  <2>4. Succeeds(c, <<read>>) \/ WriteFails(c) \/ Refused(c)
    BY <2>1, <2>2, <2>3, Zenon
  <2>5. read.name # SymbolTable
    <3>1. ev.name = raw.name
      BY <2>2, ResolvedFits
    <3>2. raw.name # SymbolTable
      BY StreamAssumption
    <3> QED BY <2>3, <3>1, <3>2, ReadNamed
  <2>6. AtMostOne(<<read>>) /\ \A i \in DOMAIN <<read>> : <<read>>[i].name # SymbolTable
    BY <2>5, One, Zenon
  <2> QED BY <2>4, <2>6, CallResolved
<1>2. CASE WriteEvent
  <2>1. PICK ev \in Manual :
          LET call == write_event(Call(enc), ev)
              read == AsRead(enc, ev.fields, ev, Shift(call.stages, lag), {})
          IN  Succeeds(call, <<read>>) \/ WriteFails(call) \/ Refused(call)
    BY <1>2, Zenon DEF WriteEvent
  <2>2. PICK c : c = write_event(Call(enc), ev)
    OBVIOUS
  <2>3. PICK read : read = AsRead(enc, ev.fields, ev, Shift(c.stages, lag), {})
    OBVIOUS
  <2>4. Succeeds(c, <<read>>) \/ WriteFails(c) \/ Refused(c)
    BY <2>1, <2>2, <2>3, Zenon
  <2>5. read.name # SymbolTable \/ read.types # field_defs(SymbolTable)
    <3>1. ev.name # SymbolTable \/ ev.fields # field_defs(SymbolTable)
      BY StreamAssumption
    <3> QED BY <2>3, <3>1, ReadNamed
  <2>6. AtMostOne(<<read>>) /\ \A i \in DOMAIN <<read>> : <<read>>[i].name # SymbolTable \/ <<read>>[i].types # field_defs(SymbolTable)
    BY <2>5, One, Zenon
  <2> QED BY <2>4, <2>6, CallResolved
<1>3. CASE Register
  <2>1. PICK c : Succeeds(c, <<>>) \/ WriteFails(c) \/ Refused(c)
    BY <1>3, Zenon DEF Register
  <2>2. AtMostOne(<<>>) /\ DOMAIN <<>> = {}
    BY DEF AtMostOne
  <2> QED BY <2>1, <2>2, CallResolved
<1>4. CASE reset_to
  <2>1. log' = <<>>
    BY <1>4, Zenon DEF reset_to
  <2> QED BY <2>1, NotResolved
<1>5. CASE Symbolize
  <2>1. PICK dd : dd = Read("events", out)
    OBVIOUS
  <2>2. PICK entries \in SymbolData(Addresses(dd)) :
          LET call == Symbolized(dd, entries)
              read(i) == AsRead(call.enc, field_defs(SymbolTable), entries[i], 0, {})
          IN  IF call.ok
              THEN /\ enc' = call.enc /\ out' = out \o Numbers(call.stages) /\ intact' = Len(out')
                   /\ log' = log \o [i \in DOMAIN entries |-> read(i)]
                   /\ lag' = 0 /\ unread' = {}
              ELSE UNCHANGED <<enc, out, log, intact, lag, unread>>
    BY <1>5, <2>1, Zenon DEF Symbolize
  <2>12. PICK e : e = Symbolized(dd, entries).enc
    OBVIOUS
  <2>3. PICK n \in Nat : DOMAIN entries = 1 .. n
    <3>1. entries \in Seq(SymbolEntries)
      BY SymbolDataIs
    <3> QED BY <3>1
  <2>4. PICK reads : reads = [i \in 1 .. n |-> AsRead(e, field_defs(SymbolTable), entries[i], 0, {})]
    OBVIOUS
  <2>5. log' = log \/ log' = log \o reads
    BY <2>2, <2>3, <2>4, <2>12, Zenon
  <2>6. AllResolved(reads)
    BY <2>3, <2>4, EntriesResolved
  <2>7. PICK S : log \in Seq(S)
    BY Zenon DEF StreamInv, Counts
  <2>8. PICK T : T = S \union {reads[i] : i \in 1 .. n}
    OBVIOUS
  <2>9. reads \in Seq(T)
    <3>1. reads \in [1 .. n -> T]
      BY <2>4, <2>8
    <3> QED BY <3>1, AsSeq
  <2>10. log \in Seq(T)
    BY <2>7, <2>8, Wider
  <2>11. AllResolved(log \o reads)
    BY <2>6, <2>9, <2>10, ResolvedBehind
  <2> QED BY <2>5, <2>11
<1>6. CASE Concatenate \/ into_encoder \/ UNCHANGED vars
  <2>1. log' = log
    BY <1>6, Zenon DEF Concatenate, into_encoder, vars
  <2> QED BY <2>1
<1> QED BY <1>1, <1>2, <1>3, <1>4, <1>5, <1>6, Zenon DEF Next

LEMMA ResolvedLog == (AllResolved(log) <=> SymbolsResolved) /\ (AllResolved(log') <=> SymbolsResolved')
  BY Zenon DEF AllResolved, TableOf, SymbolsResolved, Table

\* Whatever the memory map has and blazesym answers, a symbol in the table of a trace is the
\* one that the running program would have found, and stands with all that were inlined into
\* it, unless its file could not be read (offline_symbolize.rs, symbolize.rs).
THEOREM SymbolsAreResolved == Spec => []SymbolsResolved
<1>1. Init => SymbolsResolved
  <2>1. Init => log = <<>>
    BY Zenon DEF Init
  <2> QED BY <2>1, NotResolved, ResolvedLog
<1>2. StreamInv /\ SymbolsResolved /\ [Next]_vars => SymbolsResolved'
  BY ResolvedStep, ResolvedLog
<1> QED BY <1>1, <1>2, StreamInStep, PTL DEF Spec

-----------------------------------------------------------------------------
(* What filter returns *)

\* p goes through a set of numbers in their order.
InTurn(p, m, A) ==
    /\ m \in Nat /\ \A j \in 1 .. m : p[j] \in A
    /\ \A i, j \in 1 .. m : i < j => p[i] < p[j]
    /\ \A a \in A : \E j \in 1 .. m : p[j] = a

\* g has the members of s at the places in A, in their order.
Picks(S, s, A, g, m, p) == InTurn(p, m, A) /\ g \in Seq(S) /\ Len(g) = m /\ \A j \in 1 .. m : g[j] = s[p[j]]

\* f is what was kept of each of the first m members.
KeptUpTo(s, kept, m, f) ==
    f = [n \in 0 .. m |-> IF n = 0 THEN <<>> ELSE IF s[n] \in kept THEN Append(f[n - 1], s[n]) ELSE f[n - 1]]

LEMMA KeptExists == ASSUME NEW s, NEW kept, NEW m \in Nat PROVE \E f : KeptUpTo(s, kept, m, f)
<1> DEFINE T == {n \in Nat : ~ \E f : KeptUpTo(s, kept, n, f)}
<1> SUFFICES ASSUME T # {} PROVE FALSE
  OBVIOUS
<1>1. PICK n \in T : \A k \in T : n <= k
  BY LeastNat, T \subseteq Nat
<1>2. n # 0
  <2>1. KeptUpTo(s, kept, 0, [k \in 0 .. 0 |-> <<>>])
    BY DEF KeptUpTo
  <2> QED BY <2>1
<1>3. n - 1 \in Nat /\ n - 1 \notin T
  BY <1>1, <1>2
<1>4. PICK f : KeptUpTo(s, kept, n - 1, f)
  BY <1>3
<1>5. PICK g : g = [k \in 0 .. n |-> IF k < n THEN f[k] ELSE IF s[n] \in kept THEN Append(f[n - 1], s[n]) ELSE f[n - 1]]
  OBVIOUS
<1>6. ASSUME NEW k \in 0 .. n
      PROVE g[k] = IF k = 0 THEN <<>> ELSE IF s[k] \in kept THEN Append(g[k - 1], s[k]) ELSE g[k - 1]
  <2>1. \A i \in 0 .. n - 1 : f[i] = IF i = 0 THEN <<>> ELSE IF s[i] \in kept THEN Append(f[i - 1], s[i]) ELSE f[i - 1]
    BY <1>3, <1>4 DEF KeptUpTo
  <2>2. CASE k = n
    <3>1. g[n - 1] = f[n - 1]
      BY <1>2, <1>3, <1>5
    <3> QED BY <1>2, <1>5, <2>2, <3>1
  <2>3. CASE k < n
    <3>1. k \in 0 .. n - 1 /\ g[k] = f[k]
      BY <1>3, <1>5, <2>3
    <3>2. k # 0 => g[k - 1] = f[k - 1]
      BY <1>3, <1>5, <2>3
    <3> QED BY <2>1, <3>1, <3>2
  <2> QED BY <2>2, <2>3
<1>7. PICK h : h = [k \in 0 .. n |-> IF k = 0 THEN <<>> ELSE IF s[k] \in kept THEN Append(g[k - 1], s[k]) ELSE g[k - 1]]
  OBVIOUS
<1>8. \A k \in 0 .. n : g[k] = h[k]
  BY <1>6, <1>7
<1>9. g = h
  BY <1>5, <1>7, <1>8
<1>10. KeptUpTo(s, kept, n, g)
  BY <1>7, <1>9, Zenon DEF KeptUpTo
<1> QED BY <1>10

LEMMA KeptOne ==
  ASSUME NEW S, NEW s \in Seq(S), NEW kept, NEW n \in 1 .. Len(s), NEW g, NEW m, NEW p,
         Picks(S, s, {i \in 1 .. n - 1 : s[i] \in kept}, g, m, p),
         NEW h, h = IF s[n] \in kept THEN Append(g, s[n]) ELSE g
  PROVE \E k, q : Picks(S, s, {i \in 1 .. n : s[i] \in kept}, h, k, q)
<1>1. s[n] \in S /\ n \in Nat /\ n >= 1
  OBVIOUS
<1>2. PICK A : A = {i \in 1 .. n - 1 : s[i] \in kept}
  OBVIOUS
<1>3. m \in Nat /\ g \in Seq(S) /\ Len(g) = m /\ \A j \in 1 .. m : g[j] = s[p[j]]
  BY DEF Picks, InTurn
<1>4. InTurn(p, m, A)
  BY <1>2 DEF Picks
<1>5. CASE s[n] \notin kept
  <2>1. {i \in 1 .. n : s[i] \in kept} = A
    BY <1>1, <1>2, <1>5
  <2> QED BY <1>3, <1>4, <1>5, <2>1, Zenon DEF Picks
<1>6. CASE s[n] \in kept
  <2>1. PICK q : q = [j \in 1 .. m + 1 |-> IF j <= m THEN p[j] ELSE n]
    OBVIOUS
  <2>2. /\ h \in Seq(S) /\ Len(h) = m + 1 /\ h[m + 1] = s[n] /\ \A j \in 1 .. m : h[j] = g[j]
    BY <1>1, <1>3, <1>6
  <2>3. (\A j \in 1 .. m : q[j] = p[j]) /\ q[m + 1] = n
    BY <1>3, <2>1
  <2>4. \A j \in 1 .. m + 1 : h[j] = s[q[j]]
    BY <1>3, <2>2, <2>3
  <2>5. PICK B : B = {i \in 1 .. n : s[i] \in kept}
    OBVIOUS
  <2>6. B = A \union {n} /\ \A i \in A : i \in Nat /\ i < n
    BY <1>1, <1>2, <1>6, <2>5
  <2>7. InTurn(q, m + 1, B)
    <3>1. \A j \in 1 .. m : p[j] \in A
      BY <1>4 DEF InTurn
    <3>2. \A j \in 1 .. m + 1 : q[j] \in B
      <4> SUFFICES ASSUME NEW j \in 1 .. m + 1 PROVE q[j] \in B
        OBVIOUS
      <4>1. j \in 1 .. m \/ j = m + 1
        BY <1>3
      <4> QED BY <2>3, <2>6, <3>1, <4>1
    <3>3. \A i, j \in 1 .. m + 1 : i < j => q[i] < q[j]
      <4> SUFFICES ASSUME NEW i \in 1 .. m + 1, NEW j \in 1 .. m + 1, i < j PROVE q[i] < q[j]
        OBVIOUS
      <4>1. i \in 1 .. m /\ q[i] = p[i]
        BY <1>3, <2>3
      <4>2. CASE j = m + 1
        BY <2>3, <2>6, <3>1, <4>1, <4>2
      <4>3. CASE j # m + 1
        <5>1. j \in 1 .. m /\ q[j] = p[j]
          BY <1>3, <2>3, <4>3
        <5> QED BY <1>4, <4>1, <5>1 DEF InTurn
      <4> QED BY <4>2, <4>3
    <3>4. \A a \in B : \E j \in 1 .. m + 1 : q[j] = a
      <4> SUFFICES ASSUME NEW a \in B PROVE \E j \in 1 .. m + 1 : q[j] = a
        OBVIOUS
      <4>1. CASE a = n
        BY <1>3, <2>3, <4>1
      <4>2. CASE a \in A
        <5>1. PICK j \in 1 .. m : p[j] = a
          BY <1>4, <4>2 DEF InTurn
        <5> QED BY <1>3, <2>3, <5>1
      <4> QED BY <2>6, <4>1, <4>2
    <3> QED BY <1>3, <3>2, <3>3, <3>4 DEF InTurn
  <2>8. Picks(S, s, B, h, m + 1, q)
    BY <2>2, <2>4, <2>7, Zenon DEF Picks
  <2> QED BY <2>5, <2>8
<1> QED BY <1>5, <1>6

LEMMA FilterPicks ==
  ASSUME NEW S, NEW s \in Seq(S), NEW kept
  PROVE \E m, p : Picks(S, s, {i \in 1 .. Len(s) : s[i] \in kept}, filter(s, kept), m, p)
<1>1. PICK l \in Nat : l = Len(s)
  OBVIOUS
<1>2. PICK f : f = CHOOSE h : KeptUpTo(s, kept, l, h)
  OBVIOUS
<1>3. KeptUpTo(s, kept, l, f)
  BY <1>2, KeptExists, Zenon
<1>4. filter(s, kept) = f[l]
  BY <1>1, <1>2, Zenon DEF filter, Loop, KeptUpTo
<1>5. \A n \in 0 .. l : f[n] = IF n = 0 THEN <<>> ELSE IF s[n] \in kept THEN Append(f[n - 1], s[n]) ELSE f[n - 1]
  BY <1>3 DEF KeptUpTo
<1> DEFINE Fine(n) == \E m, p : Picks(S, s, {i \in 1 .. n : s[i] \in kept}, f[n], m, p)
           T == {n \in 0 .. l : ~Fine(n)}
<1>6. Fine(0)
  <2>1. f[0] = <<>> /\ <<>> \in Seq(S) /\ Len(<<>>) = 0 /\ {i \in 1 .. 0 : s[i] \in kept} = {}
    BY <1>5
  <2>2. PICK p : p = <<>>
    OBVIOUS
  <2>3. InTurn(p, 0, {i \in 1 .. 0 : s[i] \in kept})
    BY <2>1 DEF InTurn
  <2>4. Picks(S, s, {i \in 1 .. 0 : s[i] \in kept}, f[0], 0, p)
    BY <2>1, <2>3 DEF Picks
  <2> QED BY <2>4
<1>7. ASSUME NEW n \in 1 .. l, Fine(n - 1) PROVE Fine(n)
  <2>1. PICK m, p : Picks(S, s, {i \in 1 .. n - 1 : s[i] \in kept}, f[n - 1], m, p)
    BY <1>7
  <2>2. f[n] = IF s[n] \in kept THEN Append(f[n - 1], s[n]) ELSE f[n - 1]
    BY <1>5
  <2>3. n \in 1 .. Len(s)
    BY <1>1
  <2> QED BY <2>1, <2>2, <2>3, KeptOne
<1> HIDE DEF Fine
<1>8. T = {}
  <2> SUFFICES ASSUME T # {} PROVE FALSE
    OBVIOUS
  <2>1. PICK n \in T : \A k \in T : n <= k
    BY <1>1, LeastNat, T \subseteq Nat
  <2>2. n # 0
    BY <1>6, <2>1
  <2>3. n \in 1 .. l /\ n - 1 \in 0 .. l /\ n - 1 \notin T
    BY <1>1, <2>1, <2>2
  <2> QED BY <1>7, <2>1, <2>3
<1>9. Fine(l)
  BY <1>1, <1>8, l \in 0 .. l
<1> QED BY <1>1, <1>4, <1>9 DEF Fine

AlikeTo(m, p, q) == \A j \in 1 .. m : p[j] = q[j]

\* There is one way to go through a set in turn.
LEMMA InTurnSame ==
  ASSUME NEW A, A \subseteq Nat, NEW p, NEW m, InTurn(p, m, A), NEW q, NEW k, InTurn(q, k, A)
  PROVE m = k /\ AlikeTo(m, p, q)
<1>1. m \in Nat /\ k \in Nat /\ (\A j \in 1 .. m : p[j] \in A /\ p[j] \in Nat) /\ \A j \in 1 .. k : q[j] \in A /\ q[j] \in Nat
  BY DEF InTurn
<1>2. (\A i, j \in 1 .. m : i < j => p[i] < p[j]) /\ \A i, j \in 1 .. k : i < j => q[i] < q[j]
  BY DEF InTurn
<1>3. (\A a \in A : \E j \in 1 .. m : p[j] = a) /\ \A a \in A : \E j \in 1 .. k : q[j] = a
  BY DEF InTurn
<1> DEFINE Same(j) == j <= k /\ j <= m /\ p[j] = q[j]
           T == {j \in Nat \ {0} : (j <= m \/ j <= k) /\ ~Same(j)}
<1>4. T = {}
  <2> SUFFICES ASSUME T # {} PROVE FALSE
    OBVIOUS
  <2>1. PICK n \in T : \A i \in T : n <= i
    BY LeastNat, T \subseteq Nat
  <2>2. \A i \in 1 .. n - 1 : Same(i)
    <3> SUFFICES ASSUME NEW i \in 1 .. n - 1 PROVE Same(i)
      OBVIOUS
    <3>1. i \in Nat \ {0} /\ i < n /\ n \in Nat /\ (i <= m \/ i <= k)
      BY <1>1, <2>1
    <3> QED BY <2>1, <3>1
  <2>3. ASSUME n <= m PROVE n <= k /\ q[n] <= p[n]
    <3>1. n \in 1 .. m
      BY <2>1, <2>3
    <3>2. PICK i \in 1 .. k : q[i] = p[n]
      BY <1>1, <1>3, <3>1
    <3>3. ~(i < n)
      <4> SUFFICES ASSUME i < n PROVE FALSE
        OBVIOUS
      <4>1. i \in 1 .. n - 1
        BY <2>1
      <4>2. p[i] = q[i] /\ i \in 1 .. m
        BY <2>2, <4>1
      <4>3. p[i] < p[n]
        BY <1>2, <3>1, <4>2
      <4> QED BY <1>1, <3>1, <3>2, <4>2, <4>3
    <3>4. n \in 1 .. k /\ n <= i
      BY <1>1, <2>1, <3>1, <3>3
    <3>5. n < i => q[n] < q[i]
      BY <1>2, <3>4
    <3> QED BY <1>1, <3>2, <3>4, <3>5
  <2>4. ASSUME n <= k PROVE n <= m /\ p[n] <= q[n]
    <3>1. n \in 1 .. k
      BY <2>1, <2>4
    <3>2. PICK i \in 1 .. m : p[i] = q[n]
      BY <1>1, <1>3, <3>1
    <3>3. ~(i < n)
      <4> SUFFICES ASSUME i < n PROVE FALSE
        OBVIOUS
      <4>1. i \in 1 .. n - 1
        BY <2>1
      <4>2. p[i] = q[i] /\ i \in 1 .. k
        BY <2>2, <4>1
      <4>3. q[i] < q[n]
        BY <1>2, <3>1, <4>2
      <4> QED BY <1>1, <3>1, <3>2, <4>2, <4>3
    <3>4. n \in 1 .. m /\ n <= i
      BY <1>1, <2>1, <3>1, <3>3
    <3>5. n < i => p[n] < p[i]
      BY <1>2, <3>4
    <3> QED BY <1>1, <3>2, <3>4, <3>5
  <2>5. n <= m /\ n <= k /\ n \in 1 .. m /\ n \in 1 .. k
    BY <2>1, <2>3, <2>4
  <2>6. p[n] = q[n]
    BY <1>1, <2>3, <2>4, <2>5
  <2> QED BY <2>1, <2>5, <2>6
<1>5. \A j \in Nat \ {0} : j <= m \/ j <= k => Same(j)
  BY <1>4
<1>6. m = k
  <2>1. m # 0 => m <= k
    BY <1>1, <1>5
  <2>2. k # 0 => k <= m
    BY <1>1, <1>5
  <2> QED BY <1>1, <2>1, <2>2
<1> QED BY <1>1, <1>5, <1>6 DEF AlikeTo

\* What is kept of a sequence that is made of what was kept of another
LEMMA FilterTwice ==
  ASSUME NEW S, NEW s \in Seq(S), NEW kept, NEW own, own = filter(s, kept),
         NEW T, NEW t \in Seq(T), Len(t) = Len(own), NEW some, NEW few, few \subseteq kept,
         \A i \in 1 .. Len(own) : t[i] \in some <=> own[i] \in few
  PROVE /\ Len(own) \in Nat /\ Len(filter(t, some)) = Len(filter(s, few)) /\ Len(filter(s, few)) \in Nat
        /\ filter(t, some) \in Seq(T) /\ filter(s, few) \in Seq(S)
        /\ \A j \in 1 .. Len(filter(s, few)) : \E i \in 1 .. Len(own) : filter(t, some)[j] = t[i] /\ filter(s, few)[j] = own[i]
<1>1. PICK n \in Nat : n = Len(s) /\ \A i \in 1 .. n : s[i] \in S
  OBVIOUS
<1>2. PICK m, p : Picks(S, s, {i \in 1 .. n : s[i] \in kept}, own, m, p)
  BY <1>1, FilterPicks
<1>3. PICK k, q : Picks(T, t, {i \in 1 .. Len(t) : t[i] \in some}, filter(t, some), k, q)
  BY FilterPicks
<1>4. PICK h, r : Picks(S, s, {i \in 1 .. n : s[i] \in few}, filter(s, few), h, r)
  BY <1>1, FilterPicks
<1>5. PICK A, B, C : A = {i \in 1 .. n : s[i] \in kept} /\ B = {i \in 1 .. m : t[i] \in some} /\ C = {i \in 1 .. n : s[i] \in few}
  OBVIOUS
<1>6. InTurn(p, m, A) /\ m \in Nat /\ Len(own) = m /\ \A j \in 1 .. m : own[j] = s[p[j]]
  BY <1>2, <1>5 DEF Picks, InTurn
<1>7. InTurn(q, k, B) /\ k \in Nat /\ Len(filter(t, some)) = k /\ \A j \in 1 .. k : filter(t, some)[j] = t[q[j]]
  BY <1>3, <1>5, <1>6 DEF Picks, InTurn
<1>8. InTurn(r, h, C) /\ h \in Nat /\ Len(filter(s, few)) = h /\ \A j \in 1 .. h : filter(s, few)[j] = s[r[j]]
  BY <1>4, <1>5 DEF Picks, InTurn
<1>9. PICK u : u = [j \in 1 .. k |-> p[q[j]]]
  OBVIOUS
<1>10. \A j \in 1 .. k : q[j] \in 1 .. m /\ t[q[j]] \in some /\ u[j] = p[q[j]]
  BY <1>5, <1>7, <1>9 DEF InTurn
<1>11. \A i \in 1 .. m : p[i] \in 1 .. n /\ own[i] = s[p[i]] /\ (t[i] \in some <=> s[p[i]] \in few)
  BY <1>5, <1>6 DEF InTurn
<1>12. InTurn(u, k, C)
  <2>1. \A j \in 1 .. k : u[j] \in C
    BY <1>5, <1>10, <1>11
  <2>2. \A i, j \in 1 .. k : i < j => u[i] < u[j]
    <3> SUFFICES ASSUME NEW i \in 1 .. k, NEW j \in 1 .. k, i < j PROVE u[i] < u[j]
      OBVIOUS
    <3>1. q[i] < q[j]
      BY <1>7 DEF InTurn
    <3> QED BY <1>6, <1>10, <3>1 DEF InTurn
  <2>3. \A a \in C : \E j \in 1 .. k : u[j] = a
    <3> SUFFICES ASSUME NEW a \in C PROVE \E j \in 1 .. k : u[j] = a
      OBVIOUS
    <3>1. a \in A /\ s[a] \in few
      BY <1>5
    <3>2. PICK i \in 1 .. m : p[i] = a
      BY <1>6, <3>1 DEF InTurn
    <3>3. i \in B
      BY <1>5, <1>11, <3>1, <3>2
    <3>4. PICK j \in 1 .. k : q[j] = i
      BY <1>7, <3>3 DEF InTurn
    <3> QED BY <1>10, <3>2, <3>4
  <2> QED BY <1>7, <2>1, <2>2, <2>3 DEF InTurn
<1>13. C \subseteq Nat
  BY <1>5
<1>14. k = h /\ \A j \in 1 .. k : u[j] = r[j]
  <2>1. InTurn(u, k, C) /\ InTurn(r, h, C)
    BY <1>8, <1>12
  <2>2. k = h /\ AlikeTo(k, u, r)
    BY ONLY <1>13, <2>1, InTurnSame
  <2> QED BY <2>2, Zenon DEF AlikeTo
<1>15. ASSUME NEW j \in 1 .. h PROVE \E i \in 1 .. m : filter(t, some)[j] = t[i] /\ filter(s, few)[j] = own[i]
  <2>1. q[j] \in 1 .. m /\ u[j] = p[q[j]] /\ r[j] = u[j]
    BY <1>10, <1>14, <1>15
  <2> QED BY <1>7, <1>8, <1>11, <1>14, <2>1
<1>16. filter(t, some) \in Seq(T) /\ filter(s, few) \in Seq(S)
  BY <1>3, <1>4 DEF Picks
<1> QED BY <1>6, <1>7, <1>8, <1>14, <1>15, <1>16
-----------------------------------------------------------------------------
(* What the telemetry reads in an event *)

\* what decode makes of the values of an event, and what TelemetryEvent keeps of them
Decoded(rusts, values) == [i \in DOMAIN rusts |-> Narrowed(rusts[i], values[i])]
ValuesOf(name, values) ==
    IF name = CpuSampleEvent THEN SubSeq(values, 1, 3) \o SubSeq(values, 5, 5) ELSE values
KnownBy(name, types, values) ==
    /\ name \in DOMAIN Telemetry /\ Len(Telemetry[name]) <= Len(values)
    /\ \A i \in DOMAIN Telemetry[name] : Takes(Telemetry[name][i], types[i])

Recorded(x) == x = [name |-> x.name, types |-> x.types, ts |-> x.ts, values |-> x.values, texts |-> x.texts]

\* A value that is not narrowed
Settled(rust, value) ==
    Narrowed(rust, value) = value /\ (rust \in {"TaskId", "u32", "InternedString"} => value = <<value[1]>>)

\* An event of the telemetry with the schema that its type makes of itself
SchemaOwn(name, types, values, texts) ==
    LET rusts == Telemetry[name]
    IN  /\ types = field_defs(name) /\ values = [i \in 1 .. Len(rusts) |-> values[i]]
        /\ DOMAIN texts = {i \in 1 .. Len(rusts) : rusts[i] = "InternedString"}
        /\ \A i \in 1 .. Len(rusts) : Settled(rusts[i], values[i])
OfSchema(x) == x.name \in DOMAIN Telemetry => SchemaOwn(x.name, x.types, x.values, x.texts)
\* ... or with one of its own
Taken(x) == \E m \in Manual : m.name = x.name /\ m.fields = x.types /\ m.values = x.values
Proper(x) == Recorded(x) /\ (OfSchema(x) \/ Taken(x))

LEMMA PooledRust ==
  ASSUME NEW rust \in RustTypes
  PROVE /\ field_type[rust] = PooledString <=> rust = "InternedString"
        /\ rust = "u16" => field_type[rust] = U16
        /\ rust = "u32" => field_type[rust] = U32
        /\ rust \in {"TaskId", "WorkerId"} => field_type[rust] = Varint
        /\ rust = "CpuSampleSource" => field_type[rust] = U8
<1>1. PICK a : a = Over(reference_type, telemetry_type)
  OBVIOUS
<1>2. field_type = Over(primitive_type, a)
  BY <1>1, Zenon DEF field_type
<1>3. /\ DOMAIN a = DOMAIN reference_type \union DOMAIN telemetry_type
      /\ \A x \in DOMAIN reference_type : a[x] = reference_type[x]
      /\ \A x \in DOMAIN telemetry_type : x \notin DOMAIN reference_type => a[x] = telemetry_type[x]
  BY ONLY <1>1 DEF Over
<1>4. /\ DOMAIN field_type = DOMAIN primitive_type \union DOMAIN a
      /\ \A x \in DOMAIN primitive_type : field_type[x] = primitive_type[x]
      /\ \A x \in DOMAIN a : x \notin DOMAIN primitive_type => field_type[x] = a[x]
  BY ONLY <1>2 DEF Over
<1>5. /\ DOMAIN primitive_type = {"u8", "u16", "u32", "u64", "i64", "f64", "bool", "String", "VecU8"}
      /\ DOMAIN reference_type = {"StackFrames", "InternedString", "StringMap"}
      /\ DOMAIN telemetry_type = {"TaskId", "WorkerId", "CpuSampleSource"}
  BY DEF primitive_type, reference_type, telemetry_type
<1>6. /\ \A x \in DOMAIN primitive_type : primitive_type[x] # 7
      /\ primitive_type["u16"] = 12 /\ primitive_type["u32"] = 13
  BY DEF primitive_type, U8, U16, U32, Varint, I64, F64, Bool, String, Bytes
<1>7. /\ reference_type["StackFrames"] = 8 /\ reference_type["InternedString"] = 7 /\ reference_type["StringMap"] = 10
  BY DEF reference_type, StackFrames, PooledString, StringMap
<1>8. telemetry_type["TaskId"] = 9 /\ telemetry_type["WorkerId"] = 9 /\ telemetry_type["CpuSampleSource"] = 11
  BY DEF telemetry_type, U8, Varint
<1>9. CASE rust \in DOMAIN primitive_type
  <2>1. field_type[rust] = primitive_type[rust]
    BY <1>4, <1>9
  <2> QED BY <1>5, <1>6, <1>9, <2>1 DEF PooledString, U16, U32
<1>10. CASE rust \in DOMAIN reference_type
  <2>1. field_type[rust] = reference_type[rust]
    BY <1>3, <1>4, <1>5, <1>10
  <2> QED BY <1>5, <1>7, <1>10, <2>1 DEF PooledString
<1>11. CASE rust \in DOMAIN telemetry_type
  <2>1. field_type[rust] = telemetry_type[rust]
    BY <1>3, <1>4, <1>5, <1>11
  <2> QED BY <1>5, <1>8, <1>11, <2>1 DEF PooledString, Varint, U8
<1> QED BY <1>3, <1>4, <1>9, <1>10, <1>11 DEF RustTypes

LEMMA TelemetryIs ==
  /\ DOMAIN Telemetry = 11 .. 20
  /\ Telemetry[11] = <<"WorkerId", "u8", "TaskId", "InternedString">>
  /\ Telemetry[16] = <<"TaskId", "InternedString">>
  /\ Telemetry[18] = <<"WorkerId", "u32", "CpuSampleSource", "InternedString", "StackFrames">>
  /\ Telemetry[20] = <<"StringMap">>
  /\ \A name \in DOMAIN Telemetry :
        /\ name \in DOMAIN Structs /\ Structs[name] = Telemetry[name]
        /\ Telemetry[name] \in Seq(RustTypes) /\ Len(Telemetry[name]) \in 1 .. 5
<1> USE DEF PollStartEvent, PollEndEvent, WorkerParkEvent, WorkerUnparkEvent, QueueSampleEvent, TaskSpawnEvent,
            TaskTerminateEvent, CpuSampleEvent, WakeEventEvent, SegmentMetadataEvent
<1>1. DOMAIN Telemetry = 11 .. 20
  BY DEF Telemetry
<1>2. Telemetry[18] = <<"WorkerId", "u32", "CpuSampleSource", "InternedString", "StackFrames">>
  BY DEF Telemetry
<1>3. /\ Telemetry[11] = <<"WorkerId", "u8", "TaskId", "InternedString">> /\ Telemetry[12] = <<"WorkerId">>
      /\ Telemetry[13] = <<"WorkerId", "u8", "u64">> /\ Telemetry[14] = <<"WorkerId", "u8", "u64", "u64">>
      /\ Telemetry[15] = <<"u8">>
  BY DEF Telemetry
<1>4. /\ Telemetry[16] = <<"TaskId", "InternedString">> /\ Telemetry[17] = <<"TaskId">>
      /\ Telemetry[19] = <<"TaskId", "TaskId", "u8">> /\ Telemetry[20] = <<"StringMap">>
  BY DEF Telemetry
<1>5. /\ DOMAIN Structs = DOMAIN Telemetry \union DOMAIN Derived
      /\ \A x \in DOMAIN Telemetry : Structs[x] = Telemetry[x]
  BY ONLY TRUE DEF Structs, Over
<1>6. PICK t : t = Telemetry
  OBVIOUS
<1>7. /\ Len(t[11]) = 4 /\ Len(t[12]) = 1 /\ Len(t[13]) = 3 /\ Len(t[14]) = 4 /\ Len(t[15]) = 1
      /\ Len(t[16]) = 2 /\ Len(t[17]) = 1 /\ Len(t[18]) = 5 /\ Len(t[19]) = 3 /\ Len(t[20]) = 1
  BY ONLY <1>2, <1>3, <1>4, <1>6
<1>8. \A name \in 11 .. 20 : Len(t[name]) \in 1 .. 5
  <2> SUFFICES ASSUME NEW name \in 11 .. 20 PROVE Len(t[name]) \in 1 .. 5
    OBVIOUS
  <2>1. \/ name = 11 \/ name = 12 \/ name = 13 \/ name = 14 \/ name = 15
        \/ name = 16 \/ name = 17 \/ name = 18 \/ name = 19 \/ name = 20
    OBVIOUS
  <2> QED BY ONLY <1>7, <2>1
<1>9. \A name \in DOMAIN Telemetry : Telemetry[name] \in Seq(RustTypes)
  BY <1>5, StructsAre, Zenon
<1>10. \A name \in DOMAIN Telemetry : /\ name \in DOMAIN Structs /\ Structs[name] = Telemetry[name]
                                      /\ Telemetry[name] \in Seq(RustTypes) /\ Len(Telemetry[name]) \in 1 .. 5
  BY <1>1, <1>5, <1>6, <1>8, <1>9, Zenon
<1> QED BY <1>1, <1>2, <1>3, <1>4, <1>10, Zenon

LEMMA PartIs ==
  ASSUME NEW S, NEW s \in Seq(S), NEW a \in Nat, NEW b \in Nat, b <= Len(s), a < b
  PROVE /\ SubSeq(s, a + 1, b) \in Seq(S) /\ Len(SubSeq(s, a + 1, b)) = b - a
        /\ \A i \in 1 .. b - a : SubSeq(s, a + 1, b)[i] = s[a + i]
<1>1. PICK n \in Nat : n = b - a /\ n = b - (a + 1) + 1
  OBVIOUS
<1>2. SubSeq(s, a + 1, b) = [i \in 1 .. n |-> s[i + (a + 1) - 1]]
  BY <1>1
<1>3. \A i \in 1 .. n : i + (a + 1) - 1 = a + i /\ a + i \in 1 .. Len(s) /\ s[a + i] \in S
  BY <1>1
<1>4. PICK f : f = [i \in 1 .. n |-> s[i + (a + 1) - 1]]
  OBVIOUS
<1>5. \A i \in 1 .. n : f[i] = s[a + i]
  BY <1>3, <1>4
<1>6. f \in [1 .. n -> S]
  BY <1>3, <1>4
<1>7. f \in Seq(S) /\ Len(f) = n
  BY <1>6, AsSeq
<1> QED BY <1>1, <1>2, <1>4, <1>5, <1>7

LEMMA FourLeft ==
  ASSUME NEW S, NEW s \in Seq(S), Len(s) = 5
  PROVE SubSeq(s, 1, 3) \o SubSeq(s, 5, 5) # <<>>
<1>1. 3 \in Nat /\ 3 <= Len(s) /\ 4 \in Nat /\ 5 \in Nat /\ 4 + 1 = 5 /\ 5 <= Len(s) /\ 4 < 5
  OBVIOUS
<1>2. SubSeq(s, 1, 3) \in Seq(S) /\ Len(SubSeq(s, 1, 3)) = 3
  BY <1>1, CutIs
<1>3. SubSeq(s, 4 + 1, 5) \in Seq(S)
  BY <1>1, PartIs
<1>4. PICK a \in Seq(S) : a = SubSeq(s, 1, 3) /\ Len(a) = 3
  BY <1>2
<1>5. PICK b \in Seq(S) : b = SubSeq(s, 5, 5)
  BY <1>1, <1>3
<1>6. Len(a \o b) = 3 + Len(b) /\ Len(b) \in Nat
  BY <1>4
<1>7. Len(a \o b) # 0
  BY ONLY <1>6
<1>8. a \o b # <<>>
  BY <1>7
<1> QED BY <1>4, <1>5, <1>8

LEMMA DecodedSeq ==
  ASSUME NEW name \in DOMAIN Telemetry, NEW values
  PROVE /\ DOMAIN Decoded(Telemetry[name], values) = 1 .. Len(Telemetry[name])
        /\ ValuesOf(name, Decoded(Telemetry[name], values)) # <<>>
<1>1. PICK rusts \in Seq(RustTypes) : rusts = Telemetry[name]
  BY TelemetryIs
<1>2. PICK n \in 1 .. 5 : n = Len(rusts) /\ DOMAIN rusts = 1 .. n
  <2>1. Len(rusts) \in 1 .. 5
    BY <1>1, TelemetryIs, Zenon
  <2> QED BY <2>1
<1>3. PICK d : d = [i \in 1 .. n |-> Narrowed(rusts[i], values[i])]
  OBVIOUS
<1>4. Decoded(Telemetry[name], values) = d
  BY <1>1, <1>2, <1>3, Zenon DEF Decoded
<1>5. PICK S : S = {d[i] : i \in 1 .. n}
  OBVIOUS
<1>6. d \in Seq(S) /\ Len(d) = n
  <2>1. d \in [1 .. n -> S]
    BY <1>3, <1>5
  <2> QED BY <2>1, AsSeq
<1>7. CASE name # CpuSampleEvent
  <2>1. ValuesOf(name, d) = d
    BY <1>7 DEF ValuesOf
  <2>2. d # <<>>
    BY <1>2, <1>6
  <2> QED BY <1>1, <1>2, <1>3, <1>4, <2>1, <2>2
<1>8. CASE name = CpuSampleEvent
  <2>1. n = 5
    BY <1>1, <1>2, <1>8, TelemetryIs DEF CpuSampleEvent
  <2>2. ValuesOf(name, d) = SubSeq(d, 1, 3) \o SubSeq(d, 5, 5)
    BY <1>8 DEF ValuesOf
  <2>3. SubSeq(d, 1, 3) \o SubSeq(d, 5, 5) # <<>>
    BY <1>6, <2>1, FourLeft
  <2> QED BY <1>1, <1>2, <1>3, <1>4, <2>2, <2>3
<1> QED BY <1>7, <1>8

LEMMA KnownIs == ASSUME NEW e PROVE Known(e) <=> KnownBy(e.name, e.types, e.values)
  BY Zenon DEF Known, KnownBy, Decodes

LEMMA ReadIn ==
  ASSUME NEW x, Recorded(x), NEW rusts
  PROVE /\ decode(rusts, x).values = Decoded(rusts, x.values) /\ decode(rusts, x).name = x.name
        /\ TelemetryEvent(decode(rusts, x)) = [name |-> x.name, ts |-> x.ts, values |-> ValuesOf(x.name, Decoded(rusts, x.values))]
        /\ TelemetryEvent(x).values = ValuesOf(x.name, x.values)
<1>1. PICK d : d = Decoded(rusts, x.values)
  OBVIOUS
<1>2. decode(rusts, x) = [x EXCEPT !.values = d]
  BY <1>1, Zenon DEF decode, Decoded
<1>3. PICK y : y = decode(rusts, x) /\ y = [name |-> x.name, types |-> x.types, ts |-> x.ts, values |-> d, texts |-> x.texts]
  BY <1>2 DEF Recorded
<1>4. y.name = x.name /\ y.ts = x.ts /\ y.values = d
  BY ONLY <1>3
<1>5. TelemetryEvent(y) = [name |-> x.name, ts |-> x.ts, values |-> ValuesOf(x.name, d)]
  BY <1>4, Zenon DEF TelemetryEvent, ValuesOf
<1>6. TelemetryEvent(x) = [name |-> x.name, ts |-> x.ts, values |-> ValuesOf(x.name, x.values)]
  BY Zenon DEF TelemetryEvent, ValuesOf
<1> QED BY <1>1, <1>3, <1>4, <1>5, <1>6

LEMMA ReadAsIs ==
  ASSUME NEW m
  PROVE ReadAs(m) = IF KnownBy(m.name, m.fields, m.values) THEN ValuesOf(m.name, Decoded(Telemetry[m.name], m.values)) ELSE <<>>
<1>1. PICK e : e = [name |-> m.name, types |-> m.fields, ts |-> m.ts, values |-> m.values]
  OBVIOUS
<1>2. e.name = m.name /\ e.types = m.fields /\ e.values = m.values
  BY ONLY <1>1
<1>3. Known(e) <=> KnownBy(m.name, m.fields, m.values)
  BY <1>2, KnownIs
<1>4. ReadAs(m) = IF Known(e) THEN TelemetryEvent(decode(Telemetry[m.name], e)).values ELSE <<>>
  BY <1>1, Zenon DEF ReadAs
<1>5. PICK d : d = Decoded(Telemetry[m.name], m.values)
  OBVIOUS
<1>6. PICK y : y = decode(Telemetry[m.name], e) /\ y = [e EXCEPT !.values = d]
  BY <1>2, <1>5, Zenon DEF decode, Decoded
<1>7. y.name = m.name /\ y.values = d
  BY ONLY <1>1, <1>6
<1>8. TelemetryEvent(y) = [name |-> y.name, ts |-> y.ts, values |-> ValuesOf(m.name, d)]
  BY <1>7, Zenon DEF TelemetryEvent, ValuesOf
<1>9. TelemetryEvent(y).values = ValuesOf(m.name, d)
  BY ONLY <1>8
<1> QED BY <1>3, <1>4, <1>5, <1>6, <1>9, Zenon

LEMMA OwnKnown ==
  ASSUME NEW x, x.name \in DOMAIN Telemetry, OfSchema(x)
  PROVE KnownBy(x.name, x.types, x.values) /\ Decoded(Telemetry[x.name], x.values) = x.values
<1>1. PICK rusts \in Seq(RustTypes) : rusts = Telemetry[x.name] /\ x.name \in DOMAIN Structs /\ Structs[x.name] = rusts
  BY TelemetryIs
<1>2. PICK n \in Nat : n = Len(rusts) /\ DOMAIN rusts = 1 .. n
  BY <1>1
<1>3. /\ x.types = field_defs(x.name) /\ x.values = [i \in 1 .. n |-> x.values[i]]
      /\ \A i \in 1 .. n : Narrowed(rusts[i], x.values[i]) = x.values[i]
  BY <1>1, <1>2, Zenon DEF OfSchema, SchemaOwn, Settled
<1>4. \A i \in 1 .. n : x.types[i] = field_type[rusts[i]]
  BY <1>1, <1>2, <1>3, FieldDefs
<1>5. \A i \in DOMAIN Telemetry[x.name] : Takes(Telemetry[x.name][i], x.types[i])
  BY <1>1, <1>2, <1>4, Zenon DEF Takes
<1>6. Len(x.values) = n
  BY <1>2, <1>3
<1>7. KnownBy(x.name, x.types, x.values)
  BY <1>1, <1>2, <1>5, <1>6 DEF KnownBy
<1>8. Decoded(Telemetry[x.name], x.values) = [i \in 1 .. n |-> Narrowed(rusts[i], x.values[i])]
  BY <1>1, <1>2, Zenon DEF Decoded
<1>9. PICK v : v = x.values
  OBVIOUS
<1>10. [i \in 1 .. n |-> Narrowed(rusts[i], v[i])] = [i \in 1 .. n |-> v[i]]
  BY <1>3, <1>9
<1> QED BY <1>3, <1>7, <1>8, <1>9, <1>10

\* What is meant is what is decoded.
LEMMA MeantIs ==
  ASSUME NEW x, Proper(x)
  PROVE /\ Known(x) <=> Meant(x) # <<>>
        /\ Known(x) => TelemetryEvent(decode(Telemetry[x.name], x)) = [name |-> x.name, ts |-> x.ts, values |-> Meant(x)]
<1>1. Recorded(x) /\ (OfSchema(x) \/ Taken(x))
  BY DEF Proper
<1>2. PICK v : v = ValuesOf(x.name, Decoded(Telemetry[x.name], x.values))
  OBVIOUS
<1>3. Known(x) <=> KnownBy(x.name, x.types, x.values)
  BY KnownIs
<1>4. Known(x) => x.name \in DOMAIN Telemetry
  BY <1>3 DEF KnownBy
<1>5. Known(x) => v # <<>>
  BY <1>2, <1>4, DecodedSeq
<1>6. PICK same : same = {m \in Manual : m.name = x.name /\ m.fields = x.types /\ m.values = x.values}
  OBVIOUS
<1>7. Meant(x) = CASE x.name \notin DOMAIN Telemetry -> <<>>
                   [] x.name \in DOMAIN Telemetry /\ same # {} -> (CHOOSE m \in same : TRUE).read_as
                   [] OTHER -> TelemetryEvent(x).values
  BY <1>6, Zenon DEF Meant
<1>8. Meant(x) = IF Known(x) THEN v ELSE <<>>
  <2>1. CASE x.name \notin DOMAIN Telemetry
    <3>1. Meant(x) = <<>>
      BY <1>7, <2>1, Zenon
    <3> QED BY <1>4, <2>1, <3>1
  <2>2. CASE x.name \in DOMAIN Telemetry /\ same # {}
    <3>1. PICK m : m = (CHOOSE o \in same : TRUE) /\ m \in same
      BY <2>2, Zenon
    <3>2. m \in Manual /\ m.name = x.name /\ m.fields = x.types /\ m.values = x.values
      BY ONLY <1>6, <3>1
    <3>3. m.read_as = ReadAs(m)
      BY <3>2, StreamAssumption, Zenon
    <3>4. ReadAs(m) = IF Known(x) THEN v ELSE <<>>
      BY <1>2, <1>3, <3>2, ReadAsIs
    <3>5. Meant(x) = m.read_as
      BY <1>7, <2>2, <3>1, Zenon
    <3> QED BY <3>3, <3>4, <3>5
  <2>3. CASE x.name \in DOMAIN Telemetry /\ same = {}
    <3>1. ~Taken(x)
      BY <1>6, <2>3, Zenon DEF Taken
    <3>2. KnownBy(x.name, x.types, x.values) /\ Decoded(Telemetry[x.name], x.values) = x.values
      BY <1>1, <2>3, <3>1, OwnKnown
    <3>3. Meant(x) = TelemetryEvent(x).values
      BY <1>7, <2>3, Zenon
    <3> QED BY <1>1, <1>2, <1>3, <3>2, <3>3, ReadIn
  <2> QED BY <2>1, <2>2, <2>3
<1>9. Known(x) => TelemetryEvent(decode(Telemetry[x.name], x)) = [name |-> x.name, ts |-> x.ts, values |-> v]
  BY <1>1, <1>2, ReadIn
<1> QED BY <1>5, <1>8, <1>9

\* Only the schema that its type makes of itself has the strings of an event.
LEMMA KnownOwn ==
  ASSUME NEW x, Proper(x), Known(x), NEW i \in DOMAIN Telemetry[x.name], Telemetry[x.name][i] = "InternedString"
  PROVE OfSchema(x)
<1> SUFFICES ASSUME Taken(x) PROVE FALSE
  BY DEF Proper
<1>1. PICK m \in Manual : m.name = x.name /\ m.fields = x.types /\ m.values = x.values
  BY DEF Taken
<1>2. x.name \in DOMAIN Telemetry /\ Len(Telemetry[x.name]) <= Len(x.values) /\ Takes("InternedString", x.types[i])
  BY KnownIs DEF KnownBy
<1>3. i \in 1 .. Len(Telemetry[x.name]) /\ Len(Telemetry[x.name]) \in Nat
  <2>1. Telemetry[x.name] \in Seq(RustTypes)
    BY <1>2, TelemetryIs, Zenon
  <2> QED BY <2>1
<1>4. m.fields \in Seq(FieldTypes \ {PooledString}) /\ IsEvent(m, m.fields)
  BY StreamAssumption
<1>5. m.values = [j \in 1 .. Len(m.fields) |-> m.values[j]] /\ Len(m.fields) \in Nat
  BY <1>4 DEF IsEvent
<1>6. Len(m.values) = Len(m.fields)
  BY ONLY <1>5
<1>7. i \in 1 .. Len(m.fields)
  BY ONLY <1>1, <1>2, <1>3, <1>5, <1>6
<1>8. m.fields[i] \in FieldTypes \ {PooledString}
  BY <1>4, <1>7
<1>9. Variant(x.types[i]) = Variant(PooledString)
  BY <1>2, RustTypesAre DEF Takes
<1>10. x.types[i] = PooledString
  BY <1>9 DEF Variant, PooledString, U8, U16, U32, Varint
<1> QED BY <1>1, <1>8, <1>10
LEMMA MemberOf == ASSUME NEW S, NEW s \in Seq(S), NEW i \in 1 .. Len(s) PROVE s[i] \in S
  OBVIOUS

LEMMA OneLong == ASSUME NEW v \in Seq(Nat), Len(v) = 1 PROVE v = <<v[1]>> /\ v[1] \in Nat
<1>1. v[1] \in Nat
  <2>1. 1 \in 1 .. Len(v)
    OBVIOUS
  <2> QED BY <2>1, MemberOf
<1>2. <<v[1]>> \in Seq(Nat) /\ Len(<<v[1]>>) = 1
  BY <1>1
<1>3. v = <<v[1]>>
  BY <1>2, SameSeq
<1> QED BY <1>1, <1>3

\* The writer's values are not narrowed once more.
LEMMA NarrowOnce ==
  ASSUME NEW raw \in Events, NEW values, values = write_resolved(raw).values, NEW rusts, rusts = Structs[raw.name],
         NEW i \in 1 .. Len(rusts), rusts[i] # "InternedString"
  PROVE Settled(rusts[i], values[i])
<1>1. /\ raw.name \in DOMAIN Structs /\ IsEvent(raw, field_defs(raw.name))
      /\ raw = [name |-> raw.name, ts |-> raw.ts, values |-> raw.values]
      /\ \A j \in DOMAIN raw.values : Fits(Structs[raw.name][j], raw.values[j])
  BY StreamAssumption
<1>2. PICK fields : fields = field_defs(raw.name) /\ fields[i] = field_type[rusts[i]] /\ Len(fields) = Len(rusts) /\ Len(rusts) \in Nat
  BY <1>1, FieldDefs
<1>3. raw.values = [j \in 1 .. Len(rusts) |-> raw.values[j]] /\ raw.values[i] \in Field(fields[i])
  BY <1>1, <1>2 DEF IsEvent
<1>4. PICK rust \in RustTypes : rust = rusts[i]
  BY <1>1, StructsAre
<1>5. PICK v : v = raw.values[i] /\ Fits(rust, v) /\ v \in Field(field_type[rust])
  BY <1>1, <1>2, <1>3, <1>4
<1>6. values = [j \in DOMAIN raw.values |->
            CASE Structs[raw.name][j] = "u8" -> <<raw.values[j][1] % NarrowWidth.u8>>
              [] raw.name = CpuSampleEvent /\ j = 4 /\ raw.values[j] = <<>> -> NoThreadName
              [] OTHER -> raw.values[j]]
  <2>1. PICK w : w = [j \in DOMAIN raw.values |->
            CASE Structs[raw.name][j] = "u8" -> <<raw.values[j][1] % NarrowWidth.u8>>
              [] raw.name = CpuSampleEvent /\ j = 4 /\ raw.values[j] = <<>> -> NoThreadName
              [] OTHER -> raw.values[j]]
    OBVIOUS
  <2>2. write_resolved(raw) = [raw EXCEPT !.values = w]
    BY <2>1, Zenon DEF write_resolved
  <2>3. write_resolved(raw).values = w
    BY ONLY <1>1, <2>2
  <2> QED BY <2>1, <2>3
<1>7. ~(raw.name = CpuSampleEvent /\ i = 4)
  BY StructsAre
<1>8. i \in DOMAIN raw.values
  BY ONLY <1>2, <1>3
<1>9. values[i] = IF rust = "u8" THEN <<v[1] % NarrowWidth.u8>> ELSE v
  BY ONLY <1>4, <1>5, <1>6, <1>7, <1>8, rusts = Structs[raw.name]
<1>10. /\ NarrowWidth.u8 \in Nat \ {0} /\ NarrowWidth.u16 \in Nat \ {0} /\ NarrowWidth.u32 \in Nat \ {0} /\ NarrowWidth.u8 > 1
       /\ DOMAIN NarrowWidth = {"u8", "u16", "u32"}
  BY EventsAssumption
<1>11. ASSUME field_type[rust] \in {U8, U16, U32} PROVE v = <<v[1]>> /\ v[1] \in Nat
  <2>1. Field(field_type[rust]) = {w \in Seq(Nat) : Len(w) = 1}
    BY <1>11 DEF Field, FieldValues, I64, F64, U8, U16, U32, Bool, String, Bytes, PooledString, StackFrames, Varint, StringMap
  <2>2. v \in Seq(Nat) /\ Len(v) = 1
    BY <1>5, <2>1
  <2> QED BY ONLY <2>2, OneLong
<1>12. CASE rust = "u8"
  <2>1. v[1] \in Nat
    BY <1>11, <1>12, RustTypesAre
  <2>2. PICK k \in Nat : k = v[1] % NarrowWidth.u8 /\ k < NarrowWidth.u8
    BY <1>10, <2>1
  <2>3. k % NarrowWidth.u8 = k
    BY <1>10, <2>2, ModSmall
  <2>4. values[i] = <<k>> /\ values[i][1] = k
    BY <1>9, <1>12, <2>2
  <2>5. Narrowed(rust, values[i]) = <<k % NarrowWidth.u8>>
    BY <1>10, <1>12, <2>4 DEF Narrowed
  <2> QED BY <1>4, <1>12, <2>3, <2>4, <2>5 DEF Settled
<1>13. CASE rust \in {"u16", "u32"}
  <2>1. v = <<v[1]>> /\ v[1] \in Nat
    BY <1>11, <1>13, PooledRust
  <2>2. v[1] < NarrowWidth[rust] /\ NarrowWidth[rust] \in Nat \ {0} /\ rust \in DOMAIN NarrowWidth
    BY <1>5, <1>10, <1>13 DEF Fits
  <2>3. v[1] % NarrowWidth[rust] = v[1]
    BY <2>1, <2>2, ModSmall
  <2>4. Narrowed(rust, v) = <<v[1] % NarrowWidth[rust]>>
    BY <1>13, <2>2 DEF Narrowed
  <2>5. values[i] = v
    BY <1>9, <1>13
  <2> QED BY <1>4, <2>1, <2>3, <2>4, <2>5 DEF Settled
<1>14. CASE rust = "CpuSampleSource"
  <2>1. v \in {<<0>>, <<1>>} /\ values[i] = v
    BY <1>5, <1>9, <1>14 DEF Fits
  <2>2. Narrowed(rust, v) = <<from_u8(v[1] % NarrowWidth.u8)>>
    BY <1>10, <1>14 DEF Narrowed
  <2>3. PICK n \in {0, 1} : v = <<n>> /\ v[1] = n
    BY <2>1
  <2>4. n % NarrowWidth.u8 = n
    BY <1>10, ModSmall
  <2>5. from_u8(n) = n
    BY DEF from_u8
  <2> QED BY <1>4, <1>14, <2>1, <2>2, <2>3, <2>4, <2>5 DEF Settled
<1>15. CASE rust \notin {"u8", "u16", "u32", "CpuSampleSource"}
  <2>1. values[i] = v
    BY <1>9, <1>15
  <2>2. Narrowed(rust, v) = v
    BY <1>10, <1>15 DEF Narrowed
  <2>3. ASSUME rust = "TaskId" PROVE v = <<v[1]>>
    <3>1. field_type[rust] = Varint
      BY <2>3, PooledRust
    <3>2. Field(Varint) = {<<n>> : n \in 0 .. Width - 1}
      BY DEF Field, FieldValues, I64, F64, U8, U16, U32, Bool, String, Bytes, PooledString, StackFrames, Varint, StringMap
    <3> QED BY <1>5, <3>1, <3>2
  <2> QED BY <1>4, <1>15, <2>1, <2>2, <2>3 DEF Settled
<1> QED BY <1>12, <1>13, <1>14, <1>15

LEMMA ReadRecorded ==
  ASSUME NEW e, NEW fields, NEW ev, NEW shift, NEW gone, NEW x, x = AsRead(e, fields, ev, shift, gone)
  PROVE /\ Recorded(x) /\ x.name = ev.name /\ x.types = fields /\ x.values = Ids(e, fields, ev.values)
        /\ DOMAIN x.texts = {j \in DOMAIN fields : fields[j] = PooledString}
<1>1. PICK name, ts, values, texts :
        /\ x = [name |-> name, types |-> fields, ts |-> ts, values |-> values, texts |-> texts]
        /\ name = ev.name /\ values = Ids(e, fields, ev.values)
        /\ texts = [i \in {j \in DOMAIN fields : fields[j] = PooledString} |-> IF ev.values[i] \in gone THEN Missing ELSE ev.values[i]]
  BY Zenon DEF AsRead
<1>2. x.name = name /\ x.types = fields /\ x.values = values /\ x.texts = texts /\ Recorded(x)
  BY ONLY <1>1 DEF Recorded
<1>3. DOMAIN texts = {j \in DOMAIN fields : fields[j] = PooledString}
  BY ONLY <1>1
<1> QED BY <1>1, <1>2, <1>3

LEMMA WriteProper ==
  ASSUME NEW raw \in Events, NEW ev, ev = write_resolved(raw), NEW fields, fields = field_defs(ev.name),
         NEW e, NEW shift, NEW gone, NEW x, x = AsRead(e, fields, ev, shift, gone)
  PROVE Proper(x)
<1>1. ev.name = raw.name
  BY ResolvedFits
<1>2. Fields(fields, ev.values) /\ raw.name \in DOMAIN Structs
  BY <1>1, ResolvedFits, StreamAssumption
<1>3. /\ Recorded(x) /\ x.name = raw.name /\ x.types = fields /\ x.values = Ids(e, fields, ev.values)
      /\ DOMAIN x.texts = {j \in DOMAIN fields : fields[j] = PooledString}
  BY <1>1, ReadRecorded
<1>4. ASSUME x.name \in DOMAIN Telemetry PROVE SchemaOwn(x.name, x.types, x.values, x.texts)
  <2>1. PICK rusts \in Seq(RustTypes) : rusts = Telemetry[x.name] /\ Structs[x.name] = rusts
    BY <1>4, TelemetryIs, Zenon
  <2>2. PICK n \in Nat : n = Len(rusts) /\ n = Len(fields) /\ DOMAIN fields = 1 .. n /\ DOMAIN ev.values = 1 .. n
    <3>1. Len(fields) = Len(rusts)
      BY <1>1, <1>2, <1>3, <2>1, FieldDefs
    <3> QED BY <1>2, <2>1, <3>1, FieldsAt
  <2>3. \A i \in 1 .. n : fields[i] = field_type[rusts[i]] /\ (fields[i] = PooledString <=> rusts[i] = "InternedString")
    <3>1. \A i \in 1 .. n : fields[i] = field_type[rusts[i]]
      BY <1>1, <1>2, <1>3, <2>1, <2>2, FieldDefs
    <3>2. \A i \in 1 .. n : rusts[i] \in RustTypes
      <4>1. \A i \in 1 .. Len(rusts) : rusts[i] \in RustTypes
        OBVIOUS
      <4> QED BY <2>2, <4>1
    <3> QED BY <3>1, <3>2, PooledRust
  <2>4. PICK values : values = x.values
    OBVIOUS
  <2>5. values = [i \in 1 .. n |-> IF fields[i] = PooledString THEN <<e.pool[ev.values[i]]>> ELSE ev.values[i]]
    BY <1>3, <2>2, <2>4, Zenon DEF Ids
  <2>6. values = [i \in 1 .. n |-> values[i]]
    BY ONLY <2>5
  <2>7. DOMAIN x.texts = {i \in 1 .. n : rusts[i] = "InternedString"}
    BY <1>3, <2>2, <2>3
  <2>8. ASSUME NEW i \in 1 .. n
        PROVE Settled(rusts[i], values[i])
    <3>1. CASE rusts[i] = "InternedString"
      <4>1. values[i] = <<e.pool[ev.values[i]]>>
        BY <2>3, <2>5, <3>1
      <4>2. Narrowed("InternedString", values[i]) = values[i]
        <5>1. "InternedString" \notin DOMAIN NarrowWidth
          BY EventsAssumption
        <5> QED BY <5>1 DEF Narrowed
      <4> QED BY <3>1, <4>1, <4>2 DEF Settled
    <3>2. CASE rusts[i] # "InternedString"
      <4>1. values[i] = ev.values[i]
        BY <2>3, <2>5, <3>2
      <4>2. Settled(rusts[i], ev.values[i])
        <5>1. rusts = Structs[raw.name] /\ i \in 1 .. Len(rusts)
          BY <1>3, <2>1, <2>2
        <5>2. ev.values = write_resolved(raw).values
          OBVIOUS
        <5> QED BY ONLY raw \in Events, <3>2, <5>1, <5>2, NarrowOnce, Zenon
      <4> QED BY <3>2, <4>1, <4>2
    <3> QED BY <3>1, <3>2
  <2>9. x.types = field_defs(x.name)
    BY <1>1, <1>3
  <2>10. PICK types, texts : types = x.types /\ texts = x.texts
    OBVIOUS
  <2>11. SchemaOwn(x.name, types, values, texts)
    BY ONLY <2>1, <2>2, <2>6, <2>7, <2>8, <2>9, <2>10 DEF SchemaOwn
  <2> QED BY <2>4, <2>10, <2>11
<1> QED BY <1>3, <1>4, Zenon DEF Proper, OfSchema

LEMMA ManualProper ==
  ASSUME NEW ev \in Manual, NEW e, NEW shift, NEW gone, NEW x, x = AsRead(e, ev.fields, ev, shift, gone)
  PROVE Proper(x)
<1>1. Recorded(x) /\ x.name = ev.name /\ x.types = ev.fields /\ x.values = Ids(e, ev.fields, ev.values)
  BY ReadRecorded
<1>2. Ids(e, ev.fields, ev.values) = ev.values
  BY ManualFits, PlainIds
<1> QED BY <1>1, <1>2, Zenon DEF Proper, Taken

LEMMA SymbolProper ==
  ASSUME NEW ev \in SymbolEntries, NEW fields, NEW e, NEW shift, NEW gone, NEW x, x = AsRead(e, fields, ev, shift, gone)
  PROVE Proper(x)
<1>1. Recorded(x) /\ x.name = SymbolTable
  BY ReadRecorded, SymbolFits
<1>2. SymbolTable \notin DOMAIN Telemetry
  <2> SUFFICES ASSUME SymbolTable \in DOMAIN Telemetry PROVE FALSE
    OBVIOUS
  <2>1. Len(Structs[SymbolTable]) \in 1 .. 5
    BY TelemetryIs, Zenon
  <2>2. Structs[SymbolTable] = <<"u64", "u64", "InternedString", "u64", "InternedString", "u64">>
    BY SymbolizerAssumption
  <2> QED BY ONLY <2>1, <2>2
<1> QED BY <1>1, <1>2 DEF Proper, OfSchema

AllProper(l) == \A x : In(x, l) => Proper(x)

LEMMA ProperMore ==
  ASSUME NEW S, NEW l \in Seq(S), AllProper(l), NEW T, NEW w \in Seq(T), AllProper(w)
  PROVE AllProper(l \o w)
<1>1. PICK R : R = S \union T
  OBVIOUS
<1>2. l \in Seq(R) /\ w \in Seq(R)
  BY <1>1, Wider
<1> QED BY <1>2, JoinedHas, Zenon DEF AllProper

LEMMA CallProper ==
  ASSUME StreamInv, AllProper(log), NEW c, NEW w, w = <<>> \/ \E x : w = <<x>> /\ Proper(x),
         Succeeds(c, w) \/ WriteFails(c) \/ Refused(c)
  PROVE AllProper(log')
<1>1. PICK S : log \in Seq(S)
  BY Zenon DEF StreamInv, Counts
<1>2. log' = log \/ log' = log \o w \/ log' = log \o <<>>
  BY Zenon DEF Succeeds, WriteFails, Refused
<1>3. log \o <<>> = log
  BY <1>1
<1>4. CASE w = <<>>
  BY <1>2, <1>3, <1>4
<1>5. CASE \E x : w = <<x>> /\ Proper(x)
  <2>1. PICK x : w = <<x>> /\ Proper(x)
    BY <1>5
  <2>2. <<x>> \in Seq({x}) /\ \A y : In(y, <<x>>) => y = x
    BY DEF In
  <2>3. AllProper(<<x>>)
    BY <2>1, <2>2, Zenon DEF AllProper
  <2>4. AllProper(log \o w)
    BY <1>1, <2>1, <2>2, <2>3, ProperMore
  <2> QED BY <1>2, <1>3, <2>4
<1> QED BY <1>4, <1>5

LEMMA ProperStep == ASSUME StreamInv, AllProper(log), [Next]_vars PROVE AllProper(log')
<1>1. CASE Write
  <2>1. PICK raw \in Events :
          LET ev == write_resolved(raw)
              call == write(Call(enc), ev)
              read == AsRead(call.enc, field_defs(ev.name), ev, Shift(call.stages, lag), unread)
          IN  Succeeds(call, <<read>>) \/ WriteFails(call) \/ Refused(call)
    BY <1>1, Zenon DEF Write
  <2>2. PICK ev, fields, c : ev = write_resolved(raw) /\ fields = field_defs(ev.name) /\ c = write(Call(enc), ev)
    OBVIOUS
  <2>3. PICK read : read = AsRead(c.enc, fields, ev, Shift(c.stages, lag), unread)
    OBVIOUS
  <2>4. Succeeds(c, <<read>>) \/ WriteFails(c) \/ Refused(c)
    BY <2>1, <2>2, <2>3, Zenon
  <2>5. Proper(read)
    BY <2>2, <2>3, WriteProper
  <2> QED BY <2>4, <2>5, CallProper
<1>2. CASE WriteEvent
  <2>1. PICK ev \in Manual :
          LET call == write_event(Call(enc), ev)
              read == AsRead(enc, ev.fields, ev, Shift(call.stages, lag), {})
          IN  Succeeds(call, <<read>>) \/ WriteFails(call) \/ Refused(call)
    BY <1>2, Zenon DEF WriteEvent
  <2>2. PICK c : c = write_event(Call(enc), ev)
    OBVIOUS
  <2>3. PICK read : read = AsRead(enc, ev.fields, ev, Shift(c.stages, lag), {})
    OBVIOUS
  <2>4. Succeeds(c, <<read>>) \/ WriteFails(c) \/ Refused(c)
    BY <2>1, <2>2, <2>3, Zenon
  <2>5. Proper(read)
    BY <2>3, ManualProper
  <2> QED BY <2>4, <2>5, CallProper
<1>3. CASE Register
  <2>1. PICK c : Succeeds(c, <<>>) \/ WriteFails(c) \/ Refused(c)
    BY <1>3, Zenon DEF Register
  <2> QED BY <2>1, CallProper
<1>4. CASE reset_to
  <2>1. log' = <<>>
    BY <1>4, Zenon DEF reset_to
  <2> QED BY <2>1 DEF AllProper, In
<1>5. CASE Symbolize
  <2>1. PICK dd : dd = Read("events", out)
    OBVIOUS
  <2>2. PICK entries \in SymbolData(Addresses(dd)) :
          LET call == Symbolized(dd, entries)
              read(i) == AsRead(call.enc, field_defs(SymbolTable), entries[i], 0, {})
          IN  IF call.ok
              THEN /\ enc' = call.enc /\ out' = out \o Numbers(call.stages) /\ intact' = Len(out')
                   /\ log' = log \o [i \in DOMAIN entries |-> read(i)]
                   /\ lag' = 0 /\ unread' = {}
              ELSE UNCHANGED <<enc, out, log, intact, lag, unread>>
    BY <1>5, <2>1, Zenon DEF Symbolize
  <2>3. PICK e : e = Symbolized(dd, entries).enc
    OBVIOUS
  <2>4. PICK n \in Nat : DOMAIN entries = 1 .. n /\ \A i \in 1 .. n : entries[i] \in SymbolEntries
    <3>1. entries \in Seq(SymbolEntries)
      BY SymbolDataIs
    <3> QED BY <3>1
  <2>5. PICK reads : reads = [i \in 1 .. n |-> AsRead(e, field_defs(SymbolTable), entries[i], 0, {})]
    OBVIOUS
  <2>6. log' = log \/ log' = log \o reads
    BY <2>2, <2>3, <2>4, <2>5, Zenon
  <2>7. \A i \in 1 .. n : Proper(reads[i])
    BY <2>4, <2>5, SymbolProper
  <2>8. AllProper(reads)
    BY <2>5, <2>7 DEF AllProper, In
  <2>9. PICK S : log \in Seq(S)
    BY Zenon DEF StreamInv, Counts
  <2>10. PICK T : T = {reads[i] : i \in 1 .. n}
    OBVIOUS
  <2>11. reads \in Seq(T)
    <3>1. reads \in [1 .. n -> T]
      BY <2>5, <2>10
    <3> QED BY <3>1, AsSeq
  <2>12. AllProper(log \o reads)
    BY <2>8, <2>9, <2>11, ProperMore
  <2> QED BY <2>6, <2>12
<1>6. CASE Concatenate \/ into_encoder \/ UNCHANGED vars
  <2>1. log' = log
    BY <1>6, Zenon DEF Concatenate, into_encoder, vars
  <2> QED BY <2>1
<1> QED BY <1>1, <1>2, <1>3, <1>4, <1>5, <1>6, Zenon DEF Next
-----------------------------------------------------------------------------
(* What the reader finds *)

LEMMA NewestIs ==
  ASSUME NEW m \in Nat, NEW at, at \subseteq 1 .. m, at # {}
  PROVE Newest(at) \in at /\ \A j \in at : j <= Newest(at)
<1> DEFINE T == {k \in Nat : \A j \in at : j <= k}
<1>1. PICK k \in T : \A i \in T : k <= i
  <2>1. m \in T
    OBVIOUS
  <2> QED BY <2>1, LeastNat, T \subseteq Nat
<1>2. k \in at
  <2> SUFFICES ASSUME k \notin at PROVE FALSE
    OBVIOUS
  <2>1. \A j \in at : j \in Nat /\ j <= k /\ j # k
    BY <1>1
  <2>2. k # 0
    <3>1. PICK j \in at : j \in 1 .. m
      OBVIOUS
    <3> QED BY <2>1, <3>1
  <2>3. k - 1 \in T
    BY <1>1, <2>1, <2>2
  <2> QED BY <1>1, <2>3
<1>3. \E i \in at : \A j \in at : j <= i
  BY <1>1, <1>2
<1> QED BY <1>3, Zenon DEF Newest

LEMMA NewestAt ==
  ASSUME NEW m \in Nat, NEW at, at \subseteq 1 .. m, NEW a \in at, \A b \in at : b <= a
  PROVE Newest(at) = a
<1>1. PICK b \in at : b = Newest(at) /\ a <= b
  BY NewestIs
<1>2. b <= a /\ b \in 1 .. m /\ a \in 1 .. m
  OBVIOUS
<1> QED BY <1>1, <1>2

\* The last one with a key is the one in the map.
IsNewest(events, at, k, key, a) ==
    a \in at /\ events[a].values[k][1] = key /\ \A b \in at : events[b].values[k][1] = key => b <= a

HasAt(f, key, value) == key \in DOMAIN f /\ f[key] = value

LEMMA InsertedAt ==
  ASSUME NEW events, NEW m \in Nat, NEW at, at \subseteq 1 .. m, NEW k, NEW a, NEW key, IsNewest(events, at, k, key, a)
  PROVE HasAt(Inserted(events, at, k), key, events[a])
<1>1. PICK same : same = {i \in at : events[i].values[k][1] = key}
  OBVIOUS
<1>2. a \in at /\ events[a].values[k][1] = key /\ \A b \in at : events[b].values[k][1] = key => b <= a
  BY Zenon DEF IsNewest
<1>3. same \subseteq 1 .. m /\ a \in same /\ \A b \in same : b <= a
  BY <1>1, <1>2
<1>4. Newest(same) = a
  BY <1>3, NewestAt
<1>5. PICK keys : keys = {events[i].values[k][1] : i \in at}
  OBVIOUS
<1>6. key \in keys
  BY <1>5, <1>2
<1>7. Inserted(events, at, k) = [x \in keys |-> events[Newest({i \in at : events[i].values[k][1] = x})]]
  BY <1>5, Zenon DEF Inserted
<1> QED BY <1>1, <1>4, <1>6, <1>7 DEF HasAt

LEMMA InsertedIs ==
  ASSUME NEW events, NEW m \in Nat, NEW at, at \subseteq 1 .. m, NEW k, NEW key \in DOMAIN Inserted(events, at, k)
  PROVE \E a \in at : Inserted(events, at, k)[key] = events[a]
<1>1. PICK keys : keys = {events[i].values[k][1] : i \in at}
  OBVIOUS
<1>2. Inserted(events, at, k) = [x \in keys |-> events[Newest({i \in at : events[i].values[k][1] = x})]]
  BY <1>1, Zenon DEF Inserted
<1>3. PICK same : same = {i \in at : events[i].values[k][1] = key}
  OBVIOUS
<1>4. key \in keys
  BY <1>2
<1>5. same \subseteq 1 .. m /\ same # {}
  BY <1>1, <1>3, <1>4
<1>6. Newest(same) \in same
  BY <1>5, NewestIs
<1> QED BY <1>2, <1>3, <1>4, <1>6

\* refs is what decode_telemetry finds in l, own the events it has that from.
Finds(l, own, refs, m, p) ==
    /\ InTurn(p, m, {i \in 1 .. Len(l) : Known(l[i])})
    /\ Len(own) = m /\ DOMAIN own = 1 .. m /\ DOMAIN refs = 1 .. m
    /\ \A j \in 1 .. m : own[j] = l[p[j]] /\ refs[j] = decode(Telemetry[own[j].name], own[j])

LEMMA FoundAll ==
  ASSUME NEW S, NEW l \in Seq(S), NEW known, known = {e \in Range(l) : Known(e)}, NEW own, own = filter(l, known),
         NEW refs, refs = decode_telemetry(l)
  PROVE \E m, p : Finds(l, own, refs, m, p)
<1>1. PICK A : A = {i \in 1 .. Len(l) : l[i] \in known}
  OBVIOUS
<1>2. \E k, q : Picks(S, l, A, own, k, q)
  BY <1>1, FilterPicks
<1>3. PICK k, q : Picks(S, l, A, own, k, q)
  BY <1>2
<1>4. A = {i \in 1 .. Len(l) : Known(l[i])}
  <2>1. \A i \in 1 .. Len(l) : l[i] \in Range(l)
    BY DEF Range
  <2> QED BY <1>1, <2>1
<1>5. InTurn(q, k, {i \in 1 .. Len(l) : Known(l[i])}) /\ own \in Seq(S) /\ Len(own) = k /\ \A j \in 1 .. k : own[j] = l[q[j]]
  BY <1>3, <1>4, Zenon DEF Picks
<1>6. DOMAIN own = 1 .. k
  BY <1>5
<1>7. refs = [i \in DOMAIN own |-> decode(Telemetry[own[i].name], own[i])]
  BY Zenon DEF decode_telemetry
<1>8. DOMAIN refs = 1 .. k /\ \A j \in 1 .. k : refs[j] = decode(Telemetry[own[j].name], own[j])
  BY <1>6, <1>7
<1>9. Finds(l, own, refs, k, q)
  BY <1>5, <1>6, <1>8, Zenon DEF Finds
<1> QED BY <1>9

OneFound(l, own, refs, m, p, j, x) ==
    /\ m \in Nat /\ p[j] \in 1 .. Len(l) /\ x = own[j] /\ x = l[p[j]]
    /\ Proper(x) /\ Known(x) /\ x \in Range(l) /\ x.name \in DOMAIN Telemetry
    /\ refs[j].name = x.name /\ refs[j].values = Decoded(Telemetry[x.name], x.values)
    /\ TelemetryEvent(refs[j]) = [name |-> x.name, ts |-> x.ts, values |-> Meant(x)]
    /\ OfSchema(x) => refs[j].values = x.values

LEMMA FoundOne ==
  ASSUME NEW S, NEW l \in Seq(S), AllProper(l), NEW own, NEW refs, NEW m, NEW p, Finds(l, own, refs, m, p), NEW j \in 1 .. m, NEW x, x = own[j]
  PROVE OneFound(l, own, refs, m, p, j, x)
<1>1. m \in Nat /\ p[j] \in 1 .. Len(l) /\ x = l[p[j]] /\ Known(x)
  BY DEF Finds, InTurn
<1>2. p[j] \in DOMAIN l
  BY <1>1
<1>3. Proper(x) /\ x \in Range(l)
  BY <1>1, <1>2 DEF AllProper, In, Range
<1>4. refs[j] = decode(Telemetry[x.name], x)
  BY DEF Finds
<1>5. x.name \in DOMAIN Telemetry /\ Recorded(x)
  BY <1>1, <1>3 DEF Known, Proper
<1>6. refs[j].name = x.name /\ refs[j].values = Decoded(Telemetry[x.name], x.values)
  BY <1>4, <1>5, ReadIn
<1>7. TelemetryEvent(refs[j]) = [name |-> x.name, ts |-> x.ts, values |-> Meant(x)]
  BY <1>1, <1>3, <1>4, MeantIs
<1>8. OfSchema(x) => refs[j].values = x.values
  BY <1>5, <1>6, OwnKnown
<1> QED BY <1>1, <1>3, <1>5, <1>6, <1>7, <1>8, Zenon DEF OneFound

\* The last one of a set is found behind the first g, and none of the set behind it.
FoundLast(own, m, p, g, kept, e, a) ==
    a \in 1 .. m /\ own[a] = e /\ p[a] > g /\ \A b \in 1 .. m : own[b] \in kept => b <= a

LEMMA LastFound ==
  ASSUME NEW S, NEW l \in Seq(S), NEW own, NEW refs, NEW m, NEW p, Finds(l, own, refs, m, p),
         NEW g \in 0 .. Len(l), NEW kept, \A x \in kept : Known(x), NEW e \in LastOf(SubSeq(l, g + 1, Len(l)), kept)
  PROVE e \in kept /\ \E a : FoundLast(own, m, p, g, kept, e, a)
<1>1. PICK n \in Nat : n = Len(l) /\ DOMAIN l = 1 .. n
  OBVIOUS
<1>2. PICK last : last = SubSeq(l, g + 1, n)
  OBVIOUS
<1>3. PICK j \in DOMAIN last : e = last[j] /\ last[j] \in kept /\ \A k \in j + 1 .. Len(last) : last[k] \notin kept
  BY <1>1, <1>2 DEF LastOf
<1>4. g < n
  <2> SUFFICES ASSUME g = n PROVE FALSE
    BY <1>1
  <2>1. SubSeq(l, n + 1, n) = <<>>
    BY <1>1
  <2> QED BY <1>2, <1>3, <2>1
<1>5. Len(last) = n - g /\ (\A i \in 1 .. n - g : last[i] = l[g + i]) /\ \E R : last \in Seq(R)
  <2>1. g \in Nat /\ n \in Nat /\ n <= Len(l) /\ g < n
    BY <1>1, <1>4
  <2>2. SubSeq(l, g + 1, n) \in Seq(S) /\ Len(SubSeq(l, g + 1, n)) = n - g /\ \A i \in 1 .. n - g : SubSeq(l, g + 1, n)[i] = l[g + i]
    BY ONLY l \in Seq(S), <2>1, PartIs
  <2> QED BY <1>2, <2>2
<1>6. j \in 1 .. n - g
  BY <1>3, <1>5
<1>7. PICK i \in 1 .. n : i = g + j /\ i > g /\ e = l[i]
  <2>1. g + j \in 1 .. n /\ g + j > g
    BY <1>1, <1>6
  <2>2. e = l[g + j]
    BY <1>3, <1>5, <1>6
  <2> QED BY <2>1, <2>2
<1>8. \A k \in i + 1 .. n : l[k] \notin kept
  <2> SUFFICES ASSUME NEW k \in i + 1 .. n PROVE l[k] \notin kept
    OBVIOUS
  <2>1. k - g \in j + 1 .. n - g /\ k - g \in 1 .. n - g /\ g + (k - g) = k
    BY <1>1, <1>6, <1>7
  <2> QED BY <1>3, <1>5, <2>1
<1>9. InTurn(p, m, {k \in 1 .. n : Known(l[k])}) /\ m \in Nat /\ \A b \in 1 .. m : own[b] = l[p[b]] /\ p[b] \in 1 .. n
  BY <1>1 DEF Finds, InTurn
<1>10. PICK a \in 1 .. m : p[a] = i
  <2>1. i \in {k \in 1 .. n : Known(l[k])}
    BY <1>3, <1>7
  <2> QED BY <1>9, <2>1 DEF InTurn
<1>11. own[a] = e /\ p[a] > g
  BY <1>7, <1>9, <1>10
<1>12. \A b \in 1 .. m : own[b] \in kept => b <= a
  <2> SUFFICES ASSUME NEW b \in 1 .. m, own[b] \in kept, a < b PROVE FALSE
    BY <1>9
  <2>1. p[a] < p[b]
    BY <1>9 DEF InTurn
  <2>2. p[b] \in i + 1 .. n
    BY <1>7, <1>9, <1>10, <2>1
  <2> QED BY <1>8, <1>9, <2>2
<1>13. FoundLast(own, m, p, g, kept, e, a)
  BY <1>11, <1>12, Zenon DEF FoundLast
<1> QED BY <1>3, <1>13
-----------------------------------------------------------------------------
(* What the tables have *)

OwnOf(l) == {e \in Range(l) : Meant(e) # <<>>}
OwnNamed(l, name) == {e \in OwnOf(l) : e.name = name}
FoundAs(e) == [name |-> e.name, ts |-> e.ts, values |-> Meant(e)]
AllAs(events) == [i \in DOMAIN events |-> FoundAs(events[i])]
AllEvents(refs) == [i \in DOMAIN refs |-> TelemetryEvent(refs[i])]

LEMMA OwnIs ==
  ASSUME NEW l, AllProper(l)
  PROVE OwnOf(l) = {e \in Range(l) : Known(e)}
<1>1. ASSUME NEW e \in Range(l) PROVE Proper(e)
  <2>1. PICK k \in DOMAIN l : l[k] = e
    BY DEF Range
  <2> QED BY <2>1 DEF AllProper, In
<1>2. \A e \in Range(l) : Known(e) <=> Meant(e) # <<>>
  BY <1>1, MeantIs
<1> QED BY <1>2, Zenon DEF OwnOf

\* The events with a string have the schema of their type.
LEMMA PooledOf ==
  ASSUME NEW x, Proper(x), Known(x), x.name \in {11, 16, 18}
  PROVE /\ OfSchema(x)
        /\ x.name = 11 => Len(x.values) = 4 /\ 4 \in DOMAIN x.texts
        /\ x.name = 16 => Len(x.values) = 2 /\ 2 \in DOMAIN x.texts /\ x.values[1] = <<x.values[1][1]>>
        /\ x.name = 18 => Len(x.values) = 5 /\ 4 \in DOMAIN x.texts /\ x.values[2] = <<x.values[2][1]>>
<1>1. PICK rusts : rusts = Telemetry[x.name]
  OBVIOUS
<1>2. /\ x.name = 11 => rusts = <<"WorkerId", "u8", "TaskId", "InternedString">>
      /\ x.name = 16 => rusts = <<"TaskId", "InternedString">>
      /\ x.name = 18 => rusts = <<"WorkerId", "u32", "CpuSampleSource", "InternedString", "StackFrames">>
  BY <1>1, TelemetryIs
<1>3. /\ x.name = 11 => Len(rusts) = 4 /\ 4 \in DOMAIN rusts /\ rusts[4] = "InternedString"
      /\ x.name = 16 => Len(rusts) = 2 /\ 2 \in DOMAIN rusts /\ rusts[2] = "InternedString" /\ rusts[1] = "TaskId"
      /\ x.name = 18 => Len(rusts) = 5 /\ 4 \in DOMAIN rusts /\ rusts[4] = "InternedString" /\ rusts[2] = "u32"
  BY ONLY <1>2
<1>4. \E i \in DOMAIN rusts : rusts[i] = "InternedString"
  BY ONLY <1>3, x.name \in {11, 16, 18}
<1>5. OfSchema(x)
  BY <1>1, <1>4, KnownOwn
<1>6. x.name \in DOMAIN Telemetry
  BY DEF Known
<1>7. PICK n \in Nat : n = Len(rusts)
  BY ONLY <1>3, x.name \in {11, 16, 18}
<1>8. /\ x.values = [i \in 1 .. n |-> x.values[i]]
      /\ DOMAIN x.texts = {i \in 1 .. n : rusts[i] = "InternedString"}
      /\ \A i \in 1 .. n : Settled(rusts[i], x.values[i])
  BY <1>1, <1>5, <1>6, <1>7, Zenon DEF OfSchema, SchemaOwn
<1>9. Len(x.values) = n
  BY ONLY <1>8
<1>10. x.name = 16 => x.values[1] = <<x.values[1][1]>>
  <2> SUFFICES ASSUME x.name = 16 PROVE x.values[1] = <<x.values[1][1]>>
    OBVIOUS
  <2>1. 1 \in 1 .. n /\ rusts[1] = "TaskId"
    BY ONLY <1>3, <1>7, x.name = 16
  <2> QED BY <1>8, <2>1, Zenon DEF Settled
<1>11. x.name = 18 => x.values[2] = <<x.values[2][1]>>
  <2> SUFFICES ASSUME x.name = 18 PROVE x.values[2] = <<x.values[2][1]>>
    OBVIOUS
  <2>1. 2 \in 1 .. n /\ rusts[2] = "u32"
    BY ONLY <1>3, <1>7, x.name = 18
  <2> QED BY <1>8, <2>1, Zenon DEF Settled
<1>12. /\ x.name = 11 => Len(x.values) = 4 /\ 4 \in DOMAIN x.texts
       /\ x.name = 16 => Len(x.values) = 2 /\ 2 \in DOMAIN x.texts
       /\ x.name = 18 => Len(x.values) = 5 /\ 4 \in DOMAIN x.texts
  BY ONLY <1>3, <1>7, <1>8, <1>9
<1> QED BY <1>5, <1>10, <1>11, <1>12

LEMMA EventsFound ==
  ASSUME NEW S, NEW l \in Seq(S), AllProper(l), NEW own, NEW refs, NEW m, NEW p, Finds(l, own, refs, m, p)
  PROVE AllEvents(refs) = AllAs(own)
<1>1. DOMAIN refs = 1 .. m /\ DOMAIN own = 1 .. m
  BY DEF Finds
<1>2. ASSUME NEW i \in 1 .. m PROVE TelemetryEvent(refs[i]) = FoundAs(own[i])
  <2>1. OneFound(l, own, refs, m, p, i, own[i])
    BY FoundOne, Zenon
  <2> QED BY <2>1, Zenon DEF FoundAs, OneFound
<1>3. [i \in DOMAIN refs |-> TelemetryEvent(refs[i])] = [i \in DOMAIN own |-> FoundAs(own[i])]
  BY <1>1, <1>2
<1> QED BY <1>3, Zenon DEF AllEvents, AllAs

LEMMA RuntimeFound ==
  ASSUME NEW S, NEW l \in Seq(S), AllProper(l), NEW own, own = filter(l, OwnOf(l)),
         NEW events, events = AllAs(own),
         NEW runtime, runtime = filter(l, OwnOf(l) \ (OwnNamed(l, TaskSpawnEvent) \union OwnNamed(l, SegmentMetadataEvent)))
  PROVE read_all(events) = AllAs(runtime)
<1>1. PICK kept, few : kept = OwnOf(l) /\ few = OwnOf(l) \ (OwnNamed(l, TaskSpawnEvent) \union OwnNamed(l, SegmentMetadataEvent))
  OBVIOUS
<1>2. PICK A : A = {i \in 1 .. Len(l) : l[i] \in kept}
  OBVIOUS
<1>3. \E k, q : Picks(S, l, A, own, k, q)
  BY <1>1, <1>2, FilterPicks
<1>4. PICK k, q : Picks(S, l, A, own, k, q)
  BY <1>3
<1>5. InTurn(q, k, A) /\ k \in Nat /\ own \in Seq(S) /\ Len(own) = k /\ \A j \in 1 .. k : own[j] = l[q[j]]
  BY <1>4, Zenon DEF Picks, InTurn
<1>6. \A i \in 1 .. k : own[i] \in kept
  BY <1>2, <1>5 DEF InTurn
<1>7. DOMAIN own = 1 .. k
  BY <1>5
<1>8. PICK T : T = {FoundAs(own[i]) : i \in 1 .. k}
  OBVIOUS
<1>9. events \in Seq(T) /\ Len(events) = k /\ DOMAIN events = 1 .. k /\ \A i \in 1 .. k : events[i] = FoundAs(own[i])
  <2>1. events = [i \in DOMAIN own |-> FoundAs(own[i])]
    BY Zenon DEF AllAs
  <2>2. events \in [1 .. k -> T]
    BY <1>7, <1>8, <2>1
  <2>3. events \in Seq(T) /\ Len(events) = k
    BY <1>5, <2>2, AsSeq
  <2> QED BY <1>7, <2>3, <2>1
<1>10. PICK some : some = {e \in Range(events) : e.name \notin {TaskSpawnEvent, SegmentMetadataEvent}}
  OBVIOUS
<1>11. read_all(events) = filter(events, some)
  BY <1>10, Zenon DEF read_all
<1>12. ASSUME NEW i \in 1 .. k PROVE events[i] \in some <=> own[i] \in few
  <2>1. events[i].name = own[i].name
    BY <1>9 DEF FoundAs
  <2>2. events[i] \in Range(events)
    BY <1>9 DEF Range
  <2> QED BY <1>1, <1>6, <1>10, <2>1, <2>2 DEF OwnNamed
<1>13. few \subseteq kept
  BY <1>1
<1>14. runtime = filter(l, few) /\ own = filter(l, kept)
  BY <1>1
<1>15. /\ Len(filter(events, some)) = Len(runtime) /\ Len(runtime) \in Nat
       /\ filter(events, some) \in Seq(T) /\ runtime \in Seq(S)
       /\ \A j \in 1 .. Len(runtime) : \E i \in 1 .. Len(own) : filter(events, some)[j] = events[i] /\ runtime[j] = own[i]
  <2>1. Len(events) = Len(own) /\ \A i \in 1 .. Len(own) : events[i] \in some <=> own[i] \in few
    BY <1>5, <1>9, <1>12
  <2>2. PICK e \in Seq(T) : e = events
    BY <1>9
  <2> QED BY ONLY l \in Seq(S), <1>13, <1>14, <2>1, <2>2, FilterTwice
<1>16. PICK h \in Nat : h = Len(runtime) /\ DOMAIN runtime = 1 .. h
  BY <1>15
<1>17. PICK r \in Seq(T) : r = filter(events, some) /\ Len(r) = h /\ DOMAIN r = 1 .. h
  BY <1>15, <1>16
<1>18. \A j \in 1 .. h : r[j] = FoundAs(runtime[j])
  <2> SUFFICES ASSUME NEW j \in 1 .. h PROVE r[j] = FoundAs(runtime[j])
    OBVIOUS
  <2>1. PICK i \in 1 .. k : r[j] = events[i] /\ runtime[j] = own[i]
    BY <1>5, <1>15, <1>16, <1>17
  <2> QED BY <1>9, <2>1
<1>19. r = [i \in 1 .. h |-> FoundAs(runtime[i])]
  <2>1. PICK f : f = [i \in 1 .. h |-> FoundAs(runtime[i])]
    OBVIOUS
  <2>2. ASSUME NEW i \in 1 .. h PROVE f[i] = r[i] /\ r[i] \in T
    <3>1. f[i] = FoundAs(runtime[i])
      BY <2>1
    <3>2. r[i] \in T
      BY <1>17, MemberOf
    <3> QED BY <1>18, <3>1, <3>2
  <2>3. f \in [1 .. h -> T]
    BY <2>1, <2>2
  <2>4. f \in Seq(T) /\ Len(f) = h
    BY <2>3, AsSeq
  <2>5. r = f
    BY <1>17, <2>2, <2>4, SameSeq
  <2> QED BY <2>1, <2>5
<1>20. AllAs(runtime) = r
  BY <1>16, <1>19, Zenon DEF AllAs
<1> QED BY <1>11, <1>17, <1>20
IsMetadata(refs, at, e) == at # {} /\ refs[Newest(at)].values[1] = e.values[1]

LEMMA MetadataFound ==
  ASSUME NEW S, NEW l \in Seq(S), AllProper(l), NEW own, NEW refs, NEW m, NEW p, Finds(l, own, refs, m, p),
         NEW at, at = {i \in DOMAIN refs : refs[i].name = SegmentMetadataEvent},
         NEW e \in LastOf(l, OwnNamed(l, SegmentMetadataEvent))
  PROVE IsMetadata(refs, at, e)
<1>1. PICK kept : kept = OwnNamed(l, SegmentMetadataEvent)
  OBVIOUS
<1>2. kept = {x \in Range(l) : Known(x) /\ x.name = SegmentMetadataEvent}
  BY <1>1, OwnIs DEF OwnNamed
<1>3. SubSeq(l, 0 + 1, Len(l)) = l /\ 0 \in 0 .. Len(l) /\ \A x \in kept : Known(x)
  BY <1>2
<1>4. e \in LastOf(SubSeq(l, 0 + 1, Len(l)), kept)
  BY <1>1, <1>3
<1>5. PICK a \in 1 .. m : e \in kept /\ own[a] = e /\ \A b \in 1 .. m : own[b] \in kept => b <= a
  <2>1. e \in kept /\ \E a : FoundLast(own, m, p, 0, kept, e, a)
    BY <1>3, <1>4, LastFound, Zenon
  <2> QED BY <2>1, Zenon DEF FoundLast
<1>6. DOMAIN refs = 1 .. m /\ m \in Nat
  BY DEF Finds, InTurn
<1>7. ASSUME NEW b \in 1 .. m PROVE b \in at <=> own[b] \in kept
  <2>1. OneFound(l, own, refs, m, p, b, own[b])
    BY FoundOne, Zenon
  <2>2. refs[b].name = own[b].name /\ Known(own[b]) /\ own[b] \in Range(l)
    BY <2>1, Zenon DEF OneFound
  <2> QED BY <1>2, <1>6, <2>2
<1>8. at \subseteq 1 .. m /\ a \in at /\ \A b \in at : b <= a
  BY <1>5, <1>6, <1>7
<1>9. Newest(at) = a
  BY <1>6, <1>8, NewestAt
<1>10. refs[a].values = Decoded(Telemetry[20], e.values)
  <2>1. OneFound(l, own, refs, m, p, a, own[a])
    BY FoundOne, Zenon
  <2>2. own[a] = e /\ e.name = 20
    BY <1>2, <1>5 DEF SegmentMetadataEvent
  <2> QED BY <2>1, <2>2, Zenon DEF OneFound
<1>11. Decoded(Telemetry[20], e.values)[1] = Narrowed("StringMap", e.values[1])
  <2>1. PICK t : t = Telemetry[20] /\ t = <<"StringMap">>
    BY TelemetryIs
  <2>2. 1 \in DOMAIN t /\ t[1] = "StringMap"
    BY ONLY <2>1
  <2>3. Decoded(t, e.values) = [i \in DOMAIN t |-> Narrowed(t[i], e.values[i])]
    BY Zenon DEF Decoded
  <2>4. Decoded(t, e.values)[1] = Narrowed(t[1], e.values[1])
    BY <2>2, <2>3
  <2> QED BY <2>1, <2>2, <2>4
<1>12. Narrowed("StringMap", e.values[1]) = e.values[1]
  BY EventsAssumption DEF Narrowed
<1> QED BY <1>8, <1>9, <1>10, <1>11, <1>12 DEF IsMetadata

\* The last of a set of events is the one in a map that others with its key may be in too,
\* when those behind the first g are in the set.
Rivals(own, refs, p, g, kept, at, k, key) == \A b \in at : p[b] > g /\ refs[b].values[k][1] = key => own[b] \in kept
Enters(own, refs, m, p, g, e, at, k, key) ==
    \A a \in 1 .. m : p[a] > g /\ own[a] = e => a \in at /\ refs[a].values[k][1] = key
IsInserted(own, refs, p, g, e, at, k, key, a) ==
    /\ a \in at /\ own[a] = e /\ p[a] > g
    /\ key \in DOMAIN Inserted(refs, at, k) /\ Inserted(refs, at, k)[key] = refs[a]

LEMMA LastInserted ==
  ASSUME NEW S, NEW l \in Seq(S), NEW own, NEW refs, NEW m, NEW p, Finds(l, own, refs, m, p),
         NEW g \in 0 .. Len(l), NEW kept, \A x \in kept : Known(x), NEW e \in LastOf(SubSeq(l, g + 1, Len(l)), kept),
         NEW at, at \subseteq 1 .. m, NEW k, NEW key,
         Rivals(own, refs, p, g, kept, at, k, key), Enters(own, refs, m, p, g, e, at, k, key)
  PROVE \E a : IsInserted(own, refs, p, g, e, at, k, key, a)
<1>1. PICK a : FoundLast(own, m, p, g, kept, e, a)
  BY LastFound, Zenon
<1>2. a \in 1 .. m /\ own[a] = e /\ p[a] > g /\ \A b \in 1 .. m : own[b] \in kept => b <= a
  BY <1>1, Zenon DEF FoundLast
<1>3. a \in at /\ refs[a].values[k][1] = key
  BY <1>2, Zenon DEF Enters
<1>4. m \in Nat /\ (\A b \in 1 .. m : p[b] \in 1 .. Len(l)) /\ \A b, c \in 1 .. m : b < c => p[b] < p[c]
  BY DEF Finds, InTurn
<1>5. ASSUME NEW b \in at, refs[b].values[k][1] = key PROVE b <= a
  <2>1. b \in 1 .. m /\ Len(l) \in Nat
    BY ONLY at \subseteq 1 .. m, l \in Seq(S), b \in at
  <2>2. CASE p[b] > g
    <3>1. own[b] \in kept
      BY <1>5, <2>2, Zenon DEF Rivals
    <3> QED BY <1>2, <2>1, <3>1
  <2>3. CASE ~(p[b] > g)
    <3> SUFFICES ASSUME a < b PROVE FALSE
      BY <1>4, <1>2, <2>1
    <3>1. p[a] < p[b] /\ p[a] \in 1 .. Len(l) /\ p[b] \in 1 .. Len(l)
      BY <1>4, <1>2, <2>1
    <3> QED BY ONLY <1>2, <2>1, <2>3, <3>1, g \in 0 .. Len(l)
  <2> QED BY <2>2, <2>3
<1>6. HasAt(Inserted(refs, at, k), key, refs[a])
  <2>1. IsNewest(refs, at, k, key, a)
    BY <1>3, <1>5, Zenon DEF IsNewest
  <2>2. m \in Nat /\ at \subseteq 1 .. m
    BY <1>4
  <2> QED BY ONLY <2>1, <2>2, InsertedAt, Zenon
<1>7. IsInserted(own, refs, p, g, e, at, k, key, a)
  BY <1>3, <1>6, <1>2, Zenon DEF IsInserted, HasAt
<1> QED BY <1>7

LEMMA SpawnFound ==
  ASSUME NEW S, NEW l \in Seq(S), AllProper(l), NEW own, NEW refs, NEW m, NEW p, Finds(l, own, refs, m, p),
         NEW at, at = {i \in DOMAIN refs : refs[i].name = TaskSpawnEvent},
         NEW task \in OwnNamed(l, TaskSpawnEvent),
         NEW e \in LastOf(l, {o \in OwnNamed(l, TaskSpawnEvent) : o.values[1] = task.values[1]})
  PROVE /\ task.values[1][1] \in DOMAIN Inserted(refs, at, 1)
        /\ Last(Inserted(refs, at, 1)[task.values[1][1]].values)[1] = e.values[2][1]
<1>1. PICK kept : kept = {o \in OwnNamed(l, TaskSpawnEvent) : o.values[1] = task.values[1]}
  OBVIOUS
<1>2. OwnNamed(l, TaskSpawnEvent) = {x \in Range(l) : Known(x) /\ x.name = 16}
  BY OwnIs DEF OwnNamed, TaskSpawnEvent
<1>3. SubSeq(l, 0 + 1, Len(l)) = l /\ 0 \in 0 .. Len(l) /\ \A x \in kept : Known(x)
  BY <1>1, <1>2
<1>4. e \in LastOf(SubSeq(l, 0 + 1, Len(l)), kept)
  BY <1>1, <1>3
<1>5. DOMAIN refs = 1 .. m /\ m \in Nat
  BY DEF Finds, InTurn
<1>6. ASSUME NEW b \in 1 .. m, own[b].name = 16
      PROVE /\ b \in at /\ own[b] \in OwnNamed(l, TaskSpawnEvent) /\ refs[b].values = own[b].values
            /\ own[b].values[1] = <<own[b].values[1][1]>> /\ Len(own[b].values) = 2
  <2>1. PICK x : x = own[b]
    OBVIOUS
  <2>2. OneFound(l, own, refs, m, p, b, x)
    BY <2>1, FoundOne, Zenon
  <2>3. refs[b].name = x.name /\ Known(x) /\ Proper(x) /\ x \in Range(l) /\ (OfSchema(x) => refs[b].values = x.values)
    BY <2>2, Zenon DEF OneFound
  <2>4. OfSchema(x) /\ x.values[1] = <<x.values[1][1]>> /\ Len(x.values) = 2
    BY <1>6, <2>1, <2>3, PooledOf
  <2> QED BY <1>2, <1>5, <1>6, <2>1, <2>3, <2>4 DEF TaskSpawnEvent
<1>7. ASSUME NEW b \in at PROVE b \in 1 .. m /\ own[b].name = 16
  <2>1. b \in 1 .. m /\ refs[b].name = 16
    BY <1>5 DEF TaskSpawnEvent
  <2>2. OneFound(l, own, refs, m, p, b, own[b])
    BY <2>1, FoundOne, Zenon
  <2>3. refs[b].name = own[b].name
    BY <2>2, Zenon DEF OneFound
  <2> QED BY <2>1, <2>3
<1>8. PICK key : key = task.values[1][1]
  OBVIOUS
<1>9. task.values[1] = <<key>>
  <2>1. PICK k \in DOMAIN l : l[k] = task
    BY <1>2 DEF Range
  <2>2. Proper(task) /\ Known(task) /\ task.name = 16
    BY <1>2, <2>1 DEF AllProper, In
  <2> QED BY <1>8, <2>2, PooledOf
<1>10. ASSUME NEW b \in at, refs[b].values[1][1] = key PROVE own[b] \in kept
  <2>1. own[b].values[1] = <<refs[b].values[1][1]>> /\ own[b] \in OwnNamed(l, TaskSpawnEvent)
    BY <1>6, <1>7
  <2> QED BY <1>1, <1>9, <1>10, <2>1
<1>11. e \in kept
  BY <1>3, <1>4, LastFound, Zenon
<1>12. ASSUME NEW a \in 1 .. m, own[a] = e PROVE a \in at /\ refs[a].values[1][1] = key
  <2>1. own[a].name = 16 /\ own[a].values[1] = <<key>>
    BY <1>1, <1>2, <1>9, <1>11, <1>12
  <2>2. a \in at /\ refs[a].values[1] = <<key>>
    BY <1>6, <2>1
  <2> QED BY <2>2
<1>13. at \subseteq 1 .. m
  BY <1>7
<1>14. Rivals(own, refs, p, 0, kept, at, 1, key) /\ Enters(own, refs, m, p, 0, e, at, 1, key)
  BY <1>10, <1>12, Zenon DEF Rivals, Enters
<1>15. \E a : IsInserted(own, refs, p, 0, e, at, 1, key, a)
  BY <1>3, <1>4, <1>13, <1>14, LastInserted, Zenon
<1>16. PICK a \in at : own[a] = e /\ key \in DOMAIN Inserted(refs, at, 1) /\ Inserted(refs, at, 1)[key] = refs[a]
  BY <1>15, Zenon DEF IsInserted
<1>17. refs[a].values = e.values /\ Len(e.values) = 2
  BY <1>6, <1>7, <1>16
<1>18. Last(refs[a].values) = e.values[2]
  BY <1>17 DEF Last
<1> QED BY <1>8, <1>16, <1>18
LEMMA NotMissing == NoThreadName # Missing
<1> SUFFICES ASSUME NoThreadName = Missing PROVE FALSE
  OBVIOUS
<1>1. PICK t : t = NoThreadName /\ t = <<NotUtf8>> /\ \A i \in DOMAIN t : t[i] # NotUtf8
  BY EventsAssumption DEF Texts, Utf8, Missing
<1> QED BY ONLY <1>1

\* an event behind the first g
Behind(l, g, x) == \E i \in g + 1 .. Len(l) : l[i] = x

LEMMA BehindOf ==
  ASSUME NEW S, NEW l \in Seq(S), NEW g \in 0 .. Len(l), NEW x \in Range(SubSeq(l, g + 1, Len(l)))
  PROVE Behind(l, g, x)
<1>1. PICK n \in Nat : n = Len(l)
  OBVIOUS
<1>2. g < n
  <2> SUFFICES ASSUME g = n PROVE FALSE
    BY <1>1
  <2>1. SubSeq(l, n + 1, n) = <<>>
    BY <1>1
  <2> QED BY <1>1, <2>1 DEF Range
<1>3. g \in Nat /\ n <= Len(l)
  BY <1>1
<1>4. SubSeq(l, g + 1, n) \in Seq(S) /\ Len(SubSeq(l, g + 1, n)) = n - g /\ \A i \in 1 .. n - g : SubSeq(l, g + 1, n)[i] = l[g + i]
  BY ONLY l \in Seq(S), n \in Nat, <1>1, <1>2, <1>3, PartIs
<1>5. PICK last : last = SubSeq(l, g + 1, n) /\ last \in Seq(S) /\ Len(last) = n - g /\ \A i \in 1 .. n - g : last[i] = l[g + i]
  BY ONLY <1>4
<1>6. DOMAIN last = 1 .. n - g
  BY ONLY <1>5
<1>7. PICK j \in 1 .. n - g : last[j] = x
  BY <1>1, <1>5, <1>6 DEF Range
<1>8. g + j \in g + 1 .. n /\ l[g + j] = x
  BY <1>3, <1>5, <1>7
<1> QED BY <1>1, <1>8 DEF Behind

\* what an event says of a string, read with the pool of the last segment
LEMMA TextBehind ==
  ASSUME NEW l, NEW g, NEW x, Behind(l, g, x), NEW pool, \A i \in g + 1 .. Len(l) : Shows(pool, l[i]),
         NEW k \in DOMAIN x.texts, x.texts[k] # Missing
  PROVE HasAt(pool, x.values[k][1], x.texts[k])
<1>1. PICK i \in g + 1 .. Len(l) : l[i] = x
  BY Zenon DEF Behind
<1>2. Shows(pool, x)
  BY <1>1
<1> QED BY <1>2, Zenon DEF Shows, HasAt

PlacedAt(own, m, x, a) == a \in 1 .. m /\ own[a] = x

LEMMA FoundWhere ==
  ASSUME NEW S, NEW l \in Seq(S), NEW own, NEW refs, NEW m, NEW p, Finds(l, own, refs, m, p), NEW x \in Range(l), Known(x)
  PROVE \E a : PlacedAt(own, m, x, a)
<1>1. PICK i \in 1 .. Len(l) : l[i] = x
  BY DEF Range
<1>2. i \in {j \in 1 .. Len(l) : Known(l[j])}
  BY <1>1
<1>3. PICK a \in 1 .. m : p[a] = i
  BY <1>2, Zenon DEF Finds, InTurn
<1>4. own[a] = l[p[a]]
  BY Zenon DEF Finds
<1> QED BY <1>1, <1>3, <1>4 DEF PlacedAt

IsLocation(refs, at, pool, e) ==
    Last(e.values)[1] \in {Last(refs[i].values)[1] : i \in at} /\ HasAt(pool, Last(e.values)[1], e.texts[Len(e.values)])

LEMMA LocationFound ==
  ASSUME NEW S, NEW l \in Seq(S), AllProper(l), NEW own, NEW refs, NEW m, NEW p, Finds(l, own, refs, m, p),
         NEW g \in 0 .. Len(l), NEW pool, \A i \in g + 1 .. Len(l) : Shows(pool, l[i]),
         NEW at, at = {i \in DOMAIN refs : refs[i].name = PollStartEvent} \union {i \in DOMAIN refs : refs[i].name = TaskSpawnEvent},
         NEW e \in Range(SubSeq(l, g + 1, Len(l))) \cap (OwnNamed(l, PollStartEvent) \union OwnNamed(l, TaskSpawnEvent)),
         e.texts[Len(e.values)] # Missing
  PROVE IsLocation(refs, at, pool, e)
<1>1. Known(e) /\ e \in Range(l) /\ e.name \in {11, 16}
  BY OwnIs DEF OwnNamed, PollStartEvent, TaskSpawnEvent
<1>2. PICK a \in 1 .. m : own[a] = e
  <2>1. \E a : PlacedAt(own, m, e, a)
    BY <1>1, FoundWhere, Zenon
  <2> QED BY <2>1, Zenon DEF PlacedAt
<1>3. OneFound(l, own, refs, m, p, a, e)
  BY <1>2, FoundOne, Zenon
<1>4. Proper(e) /\ refs[a].name = e.name /\ (OfSchema(e) => refs[a].values = e.values)
  BY <1>3, Zenon DEF OneFound
<1>5. OfSchema(e) /\ Len(e.values) \in DOMAIN e.texts
  <2>1. e.name \in {11, 16, 18}
    BY <1>1
  <2> QED BY <1>1, <1>4, <2>1, PooledOf
<1>6. a \in at
  <2>1. DOMAIN refs = 1 .. m
    BY Zenon DEF Finds
  <2> QED BY <1>1, <1>4, <2>1 DEF PollStartEvent, TaskSpawnEvent
<1>7. Last(e.values)[1] \in {Last(refs[i].values)[1] : i \in at}
  <2>1. Last(e.values)[1] = Last(refs[a].values)[1]
    BY <1>4, <1>5
  <2> QED BY <1>6, <2>1
<1>8. Behind(l, g, e)
  BY BehindOf
<1>9. HasAt(pool, e.values[Len(e.values)][1], e.texts[Len(e.values)])
  BY <1>5, <1>8, TextBehind, Zenon
<1>10. HasAt(pool, Last(e.values)[1], e.texts[Len(e.values)])
  BY <1>9, Zenon DEF Last
<1> QED BY <1>7, <1>10, Zenon DEF IsLocation
\* the samples whose thread has a name that the pool has
NamedIn(refs, pool) ==
    {i \in {j \in DOMAIN refs : refs[j].name = CpuSampleEvent} : get(pool, refs[i].values[4][1]) \notin {Missing, NoThreadName}}
NamedOf(l) == {e \in OwnNamed(l, CpuSampleEvent) : e.texts[4] # NoThreadName}

LEMMA UnnamedLeftOut ==
  ASSUME NEW refs, NEW m \in Nat, DOMAIN refs = 1 .. m, NEW pool, NEW at, at = NamedIn(refs, pool), NEW key \in DOMAIN Inserted(refs, at, 2)
  PROVE get(pool, Inserted(refs, at, 2)[key].values[4][1]) # NoThreadName
<1>1. at \subseteq 1 .. m /\ \A i \in at : get(pool, refs[i].values[4][1]) # NoThreadName
  BY DEF NamedIn
<1>2. \E a \in at : Inserted(refs, at, 2)[key] = refs[a]
  BY <1>1, InsertedIs
<1> QED BY <1>1, <1>2, Zenon

IsSample(l, refs, b, x) ==
    /\ Proper(x) /\ Known(x) /\ x \in OwnNamed(l, CpuSampleEvent) /\ refs[b].name = 18 /\ refs[b].values = x.values
    /\ 4 \in DOMAIN x.texts /\ x.values[2] = <<x.values[2][1]>>

LEMMA SampleFound ==
  ASSUME NEW S, NEW l \in Seq(S), AllProper(l), NEW own, NEW refs, NEW m, NEW p, Finds(l, own, refs, m, p),
         NEW b \in 1 .. m, NEW x, x = own[b], x.name = 18
  PROVE IsSample(l, refs, b, x)
<1>1. OneFound(l, own, refs, m, p, b, x)
  BY FoundOne, Zenon
<1>2. Proper(x) /\ Known(x) /\ x \in Range(l) /\ refs[b].name = x.name /\ (OfSchema(x) => refs[b].values = x.values)
  BY <1>1, Zenon DEF OneFound
<1>3. OfSchema(x) /\ 4 \in DOMAIN x.texts /\ x.values[2] = <<x.values[2][1]>>
  <2>1. x.name \in {11, 16, 18}
    OBVIOUS
  <2> QED BY <1>2, <2>1, PooledOf
<1>4. x \in OwnNamed(l, CpuSampleEvent)
  BY <1>2, OwnIs DEF OwnNamed, CpuSampleEvent
<1> QED BY <1>2, <1>3, <1>4, Zenon DEF IsSample

IsName(refs, at, pool, tid, text) ==
    tid \in DOMAIN Inserted(refs, at, 2) /\ get(pool, Inserted(refs, at, 2)[tid].values[4][1]) = text

LEMMA NameFound ==
  ASSUME NEW S, NEW l \in Seq(S), AllProper(l), NEW own, NEW refs, NEW m, NEW p, Finds(l, own, refs, m, p),
         NEW g \in 0 .. Len(l), NEW pool, \A i \in g + 1 .. Len(l) : Shows(pool, l[i]),
         NEW at, at = NamedIn(refs, pool), NEW sample \in NamedOf(l), NEW kept, kept = {o \in NamedOf(l) : o.values[2] = sample.values[2]},
         NEW e \in LastOf(SubSeq(l, g + 1, Len(l)), kept), e.texts[4] # Missing
  PROVE IsName(refs, at, pool, sample.values[2][1], e.texts[4])
<1>1. NamedOf(l) = {x \in Range(l) : Known(x) /\ x.name = 18 /\ x.texts[4] # NoThreadName}
  BY OwnIs DEF OwnNamed, NamedOf, CpuSampleEvent
<1>2. \A x \in kept : Known(x)
  BY <1>1
<1>3. e \in kept
  BY <1>2, LastFound, Zenon
<1>4. DOMAIN refs = 1 .. m /\ m \in Nat
  BY Zenon DEF Finds, InTurn
<1>5. PICK key : key = sample.values[2][1]
  OBVIOUS
<1>6. sample.values[2] = <<key>>
  <2>1. PICK k \in DOMAIN l : l[k] = sample
    BY <1>1 DEF Range
  <2>2. Proper(sample) /\ Known(sample) /\ sample.name \in {11, 16, 18} /\ sample.name = 18
    BY <1>1, <2>1 DEF AllProper, In
  <2> QED BY <1>5, <2>2, PooledOf
<1>7. \A b \in at : b \in 1 .. m /\ refs[b].name = 18 /\ get(pool, refs[b].values[4][1]) \notin {Missing, NoThreadName}
  BY <1>4 DEF NamedIn, CpuSampleEvent
<1>8. ASSUME NEW b \in 1 .. m, p[b] > g PROVE Behind(l, g, own[b])
  <2>1. own[b] = l[p[b]] /\ p[b] \in 1 .. Len(l)
    BY DEF Finds, InTurn
  <2>2. p[b] \in g + 1 .. Len(l)
    BY <1>8, <2>1
  <2> QED BY <2>1, <2>2, Zenon DEF Behind
<1>9. ASSUME NEW b \in at, p[b] > g, refs[b].values[2][1] = key PROVE own[b] \in kept
  <2>1. PICK x : x = own[b]
    OBVIOUS
  <2>2. b \in 1 .. m /\ OneFound(l, own, refs, m, p, b, x)
    BY <1>7, <2>1, FoundOne, Zenon
  <2>3. x.name = 18
    BY <1>7, <2>2, Zenon DEF OneFound
  <2>4. /\ Known(x) /\ x \in OwnNamed(l, CpuSampleEvent) /\ refs[b].values = x.values
        /\ 4 \in DOMAIN x.texts /\ x.values[2] = <<x.values[2][1]>>
    <3>1. IsSample(l, refs, b, x)
      BY <2>1, <2>2, <2>3, SampleFound, Zenon
    <3> QED BY <3>1, Zenon DEF IsSample
  <2>5. x.texts[4] # NoThreadName
    <3> SUFFICES ASSUME x.texts[4] = NoThreadName PROVE FALSE
      OBVIOUS
    <3>1. x.texts[4] # Missing
      BY NotMissing
    <3>2. Behind(l, g, x)
      BY <1>8, <1>9, <2>1, <2>2
    <3>3. HasAt(pool, x.values[4][1], x.texts[4])
      BY <2>4, <3>1, <3>2, TextBehind, Zenon
    <3>4. get(pool, x.values[4][1]) = NoThreadName
      BY <3>3 DEF HasAt, get
    <3> QED BY <1>7, <2>4, <3>4
  <2>6. x \in NamedOf(l)
    BY <2>4, <2>5 DEF NamedOf
  <2>7. x.values[2] = <<key>>
    BY <1>9, <2>4
  <2> QED BY <1>6, <2>1, <2>6, <2>7
<1>10. ASSUME NEW a \in 1 .. m, own[a] = e
       PROVE refs[a].name = 18 /\ refs[a].values = e.values /\ 4 \in DOMAIN e.texts
  <2>1. e.name = 18
    BY <1>1, <1>3
  <2>2. IsSample(l, refs, a, e)
    BY <1>10, <2>1, SampleFound, Zenon
  <2> QED BY <2>2, Zenon DEF IsSample
<1>11. ASSUME NEW a \in 1 .. m, p[a] > g, own[a] = e
       PROVE get(pool, refs[a].values[4][1]) = e.texts[4] /\ a \in at /\ refs[a].values[2][1] = key
  <2>1. refs[a].name = 18 /\ refs[a].values = e.values /\ 4 \in DOMAIN e.texts
    BY <1>10, <1>11
  <2>2. Behind(l, g, e)
    BY <1>8, <1>11
  <2>3. HasAt(pool, e.values[4][1], e.texts[4])
    BY <2>1, <2>2, TextBehind, Zenon
  <2>4. get(pool, refs[a].values[4][1]) = e.texts[4]
    BY <2>1, <2>3 DEF HasAt, get
  <2>5. e.texts[4] # NoThreadName /\ e.values[2] = <<key>>
    BY <1>1, <1>3, <1>6
  <2>6. a \in at
    BY <1>4, <2>1, <2>4, <2>5 DEF NamedIn, CpuSampleEvent
  <2> QED BY <2>1, <2>4, <2>5, <2>6
<1>12. at \subseteq 1 .. m
  BY <1>7
<1>13. Rivals(own, refs, p, g, kept, at, 2, key)
  BY <1>9, Zenon DEF Rivals
<1>14. Enters(own, refs, m, p, g, e, at, 2, key)
  BY <1>11, Zenon DEF Enters
<1>15. \E a : IsInserted(own, refs, p, g, e, at, 2, key, a)
  BY <1>2, <1>12, <1>13, <1>14, LastInserted, Zenon
<1>16. PICK a \in at : own[a] = e /\ p[a] > g /\ key \in DOMAIN Inserted(refs, at, 2) /\ Inserted(refs, at, 2)[key] = refs[a]
  BY <1>15, Zenon DEF IsInserted
<1>17. get(pool, refs[a].values[4][1]) = e.texts[4]
  BY <1>11, <1>12, <1>16, Zenon
<1> QED BY <1>5, <1>16, <1>17 DEF IsName
-----------------------------------------------------------------------------
(* What the reader understands *)

\* what Summary makes of the events when threads that are called NoThreadName have no name
SummaryOf(ok, d, refs, starts, spawns, named, metadata) ==
    [ok |-> ok,
     events |-> AllEvents(refs),
     spawn_locations |-> [id \in {Last(refs[i].values)[1] : i \in starts \union spawns} \cap DOMAIN d.pool |-> d.pool[id]],
     task_spawn_locs |-> [task \in DOMAIN Inserted(refs, spawns, 1) |-> Last(Inserted(refs, spawns, 1)[task].values)[1]],
     thread_names |-> [tid \in DOMAIN Inserted(refs, named, 2) |-> get(d.pool, Inserted(refs, named, 2)[tid].values[4][1])],
     segment_metadata |-> IF metadata = {} THEN <<>> ELSE refs[Newest(metadata)].values[1]]

LEMMA SummaryIs ==
  ASSUME NEW d, NEW refs
  PROVE Summary(d, refs, {Missing, NoThreadName}) =
          SummaryOf(d.status \in {"end", "reading"}, d, refs, {i \in DOMAIN refs : refs[i].name = PollStartEvent}, {i \in DOMAIN refs : refs[i].name = TaskSpawnEvent},
                    NamedIn(refs, d.pool), {i \in DOMAIN refs : refs[i].name = SegmentMetadataEvent})
  BY Zenon DEF Summary, SummaryOf, NamedIn, AllEvents

LocationsFound(r, last, spawned) ==
    \A e \in Range(last) \cap spawned :
        e.texts[Len(e.values)] = Missing \/ r.spawn_locations[Last(e.values)[1]] = e.texts[Len(e.values)]
SpawnsFound(r, l, spawns) ==
    \A e \in spawns : \A o \in LastOf(l, {x \in spawns : x.values[1] = e.values[1]}) :
        r.task_spawn_locs[e.values[1][1]] = o.values[2][1]
NamesFound(r, last, named) ==
    /\ NoThreadName \notin Range(r.thread_names)
    /\ \A e \in Range(last) \cap named : \A o \in LastOf(last, {x \in named : x.values[2] = e.values[2]}) :
          o.texts[4] = Missing \/ r.thread_names[e.values[2][1]] = o.texts[4]
MetadataRead(r, l, metadata) == \A e \in LastOf(l, metadata) : r.segment_metadata = e.values[1]

UnderstoodBy(r, l, g) ==
    LET own == filter(l, OwnOf(l))
        runtime == filter(l, OwnOf(l) \ (OwnNamed(l, TaskSpawnEvent) \union OwnNamed(l, SegmentMetadataEvent)))
        last == SubSeq(l, g + 1, Len(l))
    IN  /\ r.ok
        /\ r.events = AllAs(own) /\ read_all(r.events) = AllAs(runtime)
        /\ MetadataRead(r, l, OwnNamed(l, SegmentMetadataEvent))
        /\ SpawnsFound(r, l, OwnNamed(l, TaskSpawnEvent))
        /\ LocationsFound(r, last, OwnNamed(l, PollStartEvent) \union OwnNamed(l, TaskSpawnEvent))
        /\ NamesFound(r, last, NamedOf(l))

LEMMA UnderstoodIs == SymbolsResolved /\ UnderstoodBy(TraceReader(Cut(intact)), log, segment) => EventsUnderstood
<1>1. PICK r : r = TraceReader(Cut(intact))
  OBVIOUS
<1>2. SymbolsResolved /\ UnderstoodBy(r, log, segment) => EventsUnderstood
  BY <1>1, Zenon DEF EventsUnderstood, UnderstoodBy, MetadataRead, SpawnsFound, LocationsFound, NamesFound, OwnOf, OwnNamed, NamedOf, FoundAs, AllAs
<1> QED BY <1>1, <1>2

LEMMA Understands ==
  ASSUME NEW S, NEW l \in Seq(S), AllProper(l), NEW d, d.events = l, d.status \in {"end", "reading"},
         NEW g \in 0 .. Len(l), \A i \in g + 1 .. Len(l) : Shows(d.pool, l[i]), NEW r, r = ReadTrace(d)
  PROVE UnderstoodBy(r, l, g)
<1>1. PICK known : known = {e \in Range(l) : Known(e)}
  OBVIOUS
<1>2. PICK own, refs : own = filter(l, known) /\ refs = decode_telemetry(l)
  OBVIOUS
<1>3. known = OwnOf(l)
  BY <1>1, OwnIs
<1>4. \E m, p : Finds(l, own, refs, m, p)
  BY <1>1, <1>2, FoundAll, Zenon
<1>5. PICK m, p : Finds(l, own, refs, m, p)
  BY <1>4
<1>6. PICK starts, spawns, named, metadata :
        /\ starts = {i \in DOMAIN refs : refs[i].name = PollStartEvent} /\ spawns = {i \in DOMAIN refs : refs[i].name = TaskSpawnEvent}
        /\ named = NamedIn(refs, d.pool) /\ metadata = {i \in DOMAIN refs : refs[i].name = SegmentMetadataEvent}
  OBVIOUS
<1>7. PICK ok : ok = (d.status \in {"end", "reading"})
  OBVIOUS
<1>8. r = SummaryOf(ok, d, refs, starts, spawns, named, metadata)
  <2>1. refs = decode_telemetry(d.events)
    BY <1>2
  <2>2. r = Summary(d, refs, {Missing, NoThreadName})
    BY <2>1, Zenon DEF ReadTrace
  <2>3. Summary(d, refs, {Missing, NoThreadName}) = SummaryOf(ok, d, refs, starts, spawns, named, metadata)
    BY <1>6, <1>7, SummaryIs
  <2> QED BY <2>2, <2>3
<1>9. PICK last : last = SubSeq(l, g + 1, Len(l))
  OBVIOUS
<1>10. r.ok
  <2>1. ok
    BY <1>7
  <2>2. r.ok = ok
    BY <1>8 DEF SummaryOf
  <2> QED BY <2>1, <2>2
<1>11. r.events = AllAs(own)
  <2>1. r.events = AllEvents(refs)
    BY <1>8 DEF SummaryOf
  <2>2. AllEvents(refs) = AllAs(own)
    BY <1>5, EventsFound, Zenon
  <2> QED BY <2>1, <2>2
<1>12. PICK runtime : runtime = filter(l, OwnOf(l) \ (OwnNamed(l, TaskSpawnEvent) \union OwnNamed(l, SegmentMetadataEvent)))
  OBVIOUS
<1>13. read_all(r.events) = AllAs(runtime)
  <2>1. own = filter(l, OwnOf(l))
    BY <1>2, <1>3
  <2>2. PICK events : events = r.events /\ events = AllAs(own)
    BY <1>11
  <2>3. read_all(events) = AllAs(runtime)
    BY <1>12, <2>1, <2>2, RuntimeFound
  <2> QED BY <2>2, <2>3
<1>14. MetadataRead(r, l, OwnNamed(l, SegmentMetadataEvent))
  <2> SUFFICES ASSUME NEW e \in LastOf(l, OwnNamed(l, SegmentMetadataEvent)) PROVE r.segment_metadata = e.values[1]
    BY Zenon DEF MetadataRead
  <2>1. IsMetadata(refs, metadata, e)
    BY <1>5, <1>6, MetadataFound, Zenon
  <2>2. metadata # {} /\ refs[Newest(metadata)].values[1] = e.values[1]
    BY <2>1, Zenon DEF IsMetadata
  <2>3. r.segment_metadata = IF metadata = {} THEN <<>> ELSE refs[Newest(metadata)].values[1]
    BY <1>8 DEF SummaryOf
  <2> QED BY <2>2, <2>3
<1>15. SpawnsFound(r, l, OwnNamed(l, TaskSpawnEvent))
  <2> SUFFICES ASSUME NEW e \in OwnNamed(l, TaskSpawnEvent),
                      NEW o \in LastOf(l, {x \in OwnNamed(l, TaskSpawnEvent) : x.values[1] = e.values[1]})
               PROVE r.task_spawn_locs[e.values[1][1]] = o.values[2][1]
    BY Zenon DEF SpawnsFound
  <2>1. PICK f : f = Inserted(refs, spawns, 1)
    OBVIOUS
  <2>2. e.values[1][1] \in DOMAIN f /\ Last(f[e.values[1][1]].values)[1] = o.values[2][1]
    BY <1>5, <1>6, <2>1, SpawnFound
  <2>3. r.task_spawn_locs = [task \in DOMAIN f |-> Last(f[task].values)[1]]
    BY <1>8, <2>1 DEF SummaryOf
  <2> QED BY <2>2, <2>3
<1>16. LocationsFound(r, last, OwnNamed(l, PollStartEvent) \union OwnNamed(l, TaskSpawnEvent))
  <2> SUFFICES ASSUME NEW e \in Range(last) \cap (OwnNamed(l, PollStartEvent) \union OwnNamed(l, TaskSpawnEvent)),
                      e.texts[Len(e.values)] # Missing
               PROVE r.spawn_locations[Last(e.values)[1]] = e.texts[Len(e.values)]
    BY Zenon DEF LocationsFound
  <2>1. PICK ids : ids = {Last(refs[i].values)[1] : i \in starts \union spawns}
    OBVIOUS
  <2>2. Last(e.values)[1] \in ids /\ HasAt(d.pool, Last(e.values)[1], e.texts[Len(e.values)])
    <3>1. IsLocation(refs, starts \union spawns, d.pool, e)
      BY <1>5, <1>6, <1>9, LocationFound, Zenon
    <3> QED BY <2>1, <3>1, Zenon DEF IsLocation
  <2>3. r.spawn_locations = [id \in ids \cap DOMAIN d.pool |-> d.pool[id]]
    BY <1>8, <2>1 DEF SummaryOf
  <2> QED BY <2>2, <2>3 DEF HasAt
<1>17. NamesFound(r, last, NamedOf(l))
  <2>1. PICK f : f = Inserted(refs, named, 2)
    OBVIOUS
  <2>2. r.thread_names = [tid \in DOMAIN f |-> get(d.pool, f[tid].values[4][1])]
    BY <1>8, <2>1 DEF SummaryOf
  <2>3. NoThreadName \notin Range(r.thread_names)
    <3>1. DOMAIN refs = 1 .. m /\ m \in Nat
      BY <1>5, Zenon DEF Finds, InTurn
    <3>2. \A tid \in DOMAIN f : get(d.pool, f[tid].values[4][1]) # NoThreadName
      BY <1>6, <2>1, <3>1, UnnamedLeftOut
    <3> QED BY <2>2, <3>2 DEF Range
  <2>4. ASSUME NEW e \in Range(last) \cap NamedOf(l), NEW o \in LastOf(last, {x \in NamedOf(l) : x.values[2] = e.values[2]}),
               o.texts[4] # Missing
        PROVE r.thread_names[e.values[2][1]] = o.texts[4]
    <3>1. PICK kept : kept = {x \in NamedOf(l) : x.values[2] = e.values[2]}
      OBVIOUS
    <3>2. o \in LastOf(SubSeq(l, g + 1, Len(l)), kept) /\ e \in NamedOf(l)
      BY <1>9, <3>1
    <3>3. e.values[2][1] \in DOMAIN f /\ get(d.pool, f[e.values[2][1]].values[4][1]) = o.texts[4]
      <4>1. IsName(refs, named, d.pool, e.values[2][1], o.texts[4])
        BY <1>5, <1>6, <2>4, <3>1, <3>2, NameFound, Zenon
      <4> QED BY <2>1, <4>1, Zenon DEF IsName
    <3> QED BY <2>2, <3>3
  <2> QED BY <2>3, <2>4, Zenon DEF NamesFound
<1>18. own = filter(l, OwnOf(l))
  BY <1>2, <1>3
<1> QED BY <1>9, <1>10, <1>11, <1>12, <1>13, <1>14, <1>15, <1>16, <1>17, <1>18, Zenon DEF UnderstoodBy
LEMMA LogUnderstood == ASSUME StreamInv, SymbolsResolved, AllProper(log) PROVE EventsUnderstood
<1>1. PICK d : d = Read("events", Cut(intact))
  OBVIOUS
<1>2. d.events = log /\ d.status \in {"end", "reading"}
  BY <1>1, InvReads, Zenon DEF ReadsBack, Readers
<1>3. PICK S : log \in Seq(S)
  BY Zenon DEF StreamInv, Counts
<1>4. segment \in 0 .. Len(log)
  BY DEF StreamInv, Counts, Places
<1>5. \A i \in segment + 1 .. Len(log) : Shows(d.pool, log[i])
  BY <1>1, Zenon DEF StreamInv, Shown, Cut
<1>6. TraceReader(Cut(intact)) = ReadTrace(d)
  BY <1>1, Zenon DEF TraceReader
<1>7. UnderstoodBy(TraceReader(Cut(intact)), log, segment)
  BY <1>2, <1>3, <1>4, <1>5, <1>6, Understands, Zenon
<1> QED BY <1>7, UnderstoodIs

LogProper == AllProper(log)

\* Whatever is written, by any schemas, whichever calls fail, however often a stream is taken
\* up, concatenated or symbolized: TraceReader finds every event of the telemetry as it was
\* written, those of another version whose fields still fit, the last spawn of every task, the
\* last metadata, and the places and names of threads of the last segment whose strings were
\* written; and it takes no thread to be called "<no thread name>" (format.rs, analysis.rs).
THEOREM EventsAreUnderstood == Spec => []EventsUnderstood
<1>1. Init => LogProper
  <2>1. Init => log = <<>>
    BY Zenon DEF Init
  <2>2. AllProper(<<>>)
    BY DEF AllProper, In
  <2> QED BY <2>1, <2>2, Zenon DEF LogProper
<1>2. StreamInv /\ LogProper /\ [Next]_vars => LogProper'
  BY ProperStep DEF LogProper
<1>3. StreamInv /\ SymbolsResolved /\ LogProper => EventsUnderstood
  BY LogUnderstood DEF LogProper
<1> QED BY <1>1, <1>2, <1>3, SymbolsAreResolved, StreamInStep, PTL DEF Spec

=============================================================================
