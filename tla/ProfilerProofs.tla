--------------------------- MODULE ProfilerProofs ---------------------------
(***************************************************************************)
(* Profiler, for any threads, rings of any size and records of any length. *)
(*                                                                         *)
(* A ring is followed by where its records start (Starts): one behind the  *)
(* other from the reader's place to the kernel's, all of it no longer than *)
(* the ring.  Then the arithmetic modulo DataSize keeps apart what the     *)
(* kernel writes from what is unread, and the invariant Inv says of every  *)
(* ring that it Holds what was sampled and not read, which makes it Ahead. *)
(* Inv also has the roles in the map and in the flush thread's copy of it  *)
(* (Owned), from which OwnWorker follows.  Told adds that time goes on     *)
(* (Timed) and that the trace has every poll in order (PollsTold): then    *)
(* the polls that are paired in the trace are those that were.  Carried    *)
(* says of every unread record which sample it is the record of, so that   *)
(* what is parsed of it is what was sampled (AllShown); that its fields    *)
(* are right is a matter of Tracepoint's operators alone (FieldsRight).    *)
(***************************************************************************)
EXTENDS Profiler, FiniteSetTheorems, WellFoundedInduction, TLAPS

-----------------------------------------------------------------------------
(* Cells *)

\* The remainder of so many rounds and a rest is the rest.
LEMMA ModOf == ASSUME NEW q \in Int, NEW r \in Cells PROVE (DataSize * q + r) % DataSize = r
  BY DataSizeAssumption DEF Cells

\* Every place is so many rounds of the ring and a cell.
LEMMA ModParts == ASSUME NEW x \in Int
  PROVE (x % DataSize) \in Cells /\ \E q \in Int : x = DataSize * q + (x % DataSize)
<1>1. DataSize \in Int /\ DataSize > 0
  BY DataSizeAssumption
<1>2. (x % DataSize) \in 0 .. DataSize - 1
  BY <1>1
<1>3. x \div DataSize \in Int
  BY <1>1
<1>4. x = DataSize * (x \div DataSize) + (x % DataSize)
  BY <1>1
<1> QED BY <1>1, <1>2, <1>3, <1>4 DEF Cells

\* So many cells behind a place, seen from the cell of that place.
LEMMA ModPlus == ASSUME NEW x \in Int, NEW j \in 0 .. DataSize
  PROVE (x + j) % DataSize = IF (x % DataSize) + j < DataSize THEN (x % DataSize) + j ELSE (x % DataSize) + j - DataSize
<1>1. DataSize \in Nat /\ (x % DataSize) \in Cells
  BY ModParts, DataSizeAssumption
<1>2. PICK q \in Int : x = DataSize * q + (x % DataSize)
  BY ModParts
<1>3. PICK r \in Cells : r = (x % DataSize)
  BY <1>1
<1>4. r \in 0 .. DataSize - 1 /\ x = DataSize * q + r
  BY <1>1, <1>2, <1>3 DEF Cells
<1>5. CASE r + j < DataSize
  <2>1. r + j \in Cells
    BY <1>1, <1>4, <1>5 DEF Cells
  <2>2. x + j = DataSize * q + (r + j)
    BY <1>1, <1>4
  <2>3. (DataSize * q + (r + j)) % DataSize = r + j
    BY <2>1, ModOf
  <2> QED BY <1>3, <1>5, <2>2, <2>3
<1>6. CASE ~(r + j < DataSize)
  <2>1. r + j - DataSize \in Cells /\ q + 1 \in Int
    BY <1>1, <1>4, <1>6 DEF Cells
  <2>2. DataSize * (q + 1) = DataSize * q + DataSize /\ DataSize * q \in Int
    BY <1>1
  <2>3. x + j = DataSize * (q + 1) + (r + j - DataSize)
    BY <1>1, <1>4, <2>2
  <2>4. (DataSize * (q + 1) + (r + j - DataSize)) % DataSize = r + j - DataSize
    BY <2>1, ModOf
  <2> QED BY <1>3, <1>6, <2>3, <2>4
<1> QED BY <1>5, <1>6

\* How far the cell of a place is behind another place.
LEMMA ModOffset == ASSUME NEW x \in Int, NEW y \in Int
  PROVE /\ x <= y /\ y < x + DataSize => ((y % DataSize) - x) % DataSize = y - x
        /\ y < x /\ x - DataSize <= y => ((y % DataSize) - x) % DataSize = y - x + DataSize
<1>1. DataSize \in Nat /\ (y % DataSize) \in Cells
  BY ModParts, DataSizeAssumption
<1>2. PICK q \in Int : y = DataSize * q + (y % DataSize)
  BY ModParts
<1>3. PICK r \in Cells : r = (y % DataSize)
  BY <1>1
<1>4. r \in Int /\ y = DataSize * q + r /\ DataSize * q \in Int
  <2>1. y = DataSize * q + r
    BY <1>2, <1>3
  <2> QED BY <1>1, <2>1 DEF Cells
<1>5. ASSUME x <= y, y < x + DataSize PROVE (r - x) % DataSize = y - x
  <2>1. y - x \in Cells /\ 0 - q \in Int
    BY <1>1, <1>5 DEF Cells
  <2>2. DataSize * (0 - q) = 0 - DataSize * q
    BY <1>1
  <2>3. r - x = DataSize * (0 - q) + (y - x)
    BY <1>4, <2>2
  <2> QED BY <2>1, <2>3, ModOf
<1>6. ASSUME y < x, x - DataSize <= y PROVE (r - x) % DataSize = y - x + DataSize
  <2>1. y - x + DataSize \in Cells /\ 0 - q - 1 \in Int
    BY <1>1, <1>6 DEF Cells
  <2>2. DataSize * (0 - q - 1) = 0 - DataSize * q - DataSize
    BY <1>1
  <2>3. r - x = DataSize * (0 - q - 1) + (y - x + DataSize)
    BY <1>1, <1>4, <2>2
  <2> QED BY <2>1, <2>3, ModOf
<1> QED BY <1>3, <1>5, <1>6

-----------------------------------------------------------------------------
(* Sequences *)

\* A function over the first n numbers is a sequence; one is known by its elements; and
\* what is put behind it follows them.
LEMMA AsSeq == ASSUME NEW S, NEW n \in Nat, NEW f \in [1 .. n -> S] PROVE f \in Seq(S) /\ Len(f) = n
  OBVIOUS

LEMMA SameSeq == ASSUME NEW S, NEW s \in Seq(S), NEW t \in Seq(S), Len(s) = Len(t), \A i \in 1 .. Len(s) : s[i] = t[i]
  PROVE s = t
  OBVIOUS

LEMMA Joined == ASSUME NEW S, NEW s \in Seq(S), NEW t \in Seq(S)
  PROVE /\ s \o t \in Seq(S) /\ Len(s \o t) = Len(s) + Len(t)
        /\ \A i \in 1 .. Len(s) : (s \o t)[i] = s[i]
        /\ \A i \in Len(s) + 1 .. Len(s) + Len(t) : (s \o t)[i] = t[i - Len(s)]
  OBVIOUS

-----------------------------------------------------------------------------
(* A record in the ring *)

Rings == [data : [Cells -> Int], head : Nat, tail : Nat, position : Nat]

\* The record at a place of the data has this body.
RecordAt(data, place, content) ==
    /\ data[place % DataSize] = Len(content) + 1
    /\ \A k \in 1 .. Len(content) : data[(place + k) % DataSize] = content[k]

\* body reads the record at the reader's place, in one slice or in two.
LEMMA BodyIsRead == ASSUME NEW ring \in Rings, NEW content \in Seq(Int), Len(content) + 1 <= DataSize,
                           RecordAt(ring.data, ring.position, content)
  PROVE record_size(ring) = Len(content) + 1 /\ body(ring) = content
<1> DEFINE p == ring.position
           size == Len(content)
           start == ((p + 1) % DataSize)
<1>1. p \in Nat /\ DataSize \in Nat /\ DataSize > 0 /\ size \in Nat /\ size + 1 <= DataSize
  BY DataSizeAssumption DEF Rings
<1>2. record_size(ring) = size + 1
  BY DEF record_size, RecordAt
<1>3. ((p % DataSize) + 1) % DataSize = start
  <2>1. (p % DataSize) \in Cells /\ 1 \in 0 .. DataSize
    BY <1>1, ModParts
  <2>2. ((p + 1) % DataSize) = IF (p % DataSize) + 1 < DataSize THEN (p % DataSize) + 1 ELSE (p % DataSize) + 1 - DataSize
    BY <1>1, <2>1, p \in Int, ModPlus
  <2> DEFINE r == (p % DataSize)
  <2> HIDE DEF r
  <2>3. r \in 0 .. DataSize - 1
    BY <2>1 DEF Cells, r
  <2>4. (r + 1) % DataSize = IF r + 1 < DataSize THEN r + 1 ELSE r + 1 - DataSize
    <3>1. CASE r + 1 < DataSize
      <4>1. r + 1 = DataSize * 0 + (r + 1) /\ r + 1 \in Cells
        BY <1>1, <2>3, <3>1 DEF Cells
      <4> QED BY <3>1, <4>1, ModOf, 0 \in Int
    <3>2. CASE ~(r + 1 < DataSize)
      <4>1. r + 1 = DataSize * 1 + 0 /\ 0 \in Cells /\ r + 1 - DataSize = 0
        BY <1>1, <2>3, <3>2 DEF Cells
      <4> QED BY <3>2, <4>1, ModOf, 1 \in Int
    <3> QED BY <3>1, <3>2
  <2> QED BY <2>2, <2>4 DEF r
<1>4. start \in 0 .. DataSize - 1
  BY <1>1, ModParts, p + 1 \in Int DEF Cells
<1>5. \A i \in 1 .. size : content[i] = ring.data[IF start + (i - 1) < DataSize THEN start + (i - 1) ELSE start + (i - 1) - DataSize]
  <2> TAKE i \in 1 .. size
  <2>1. content[i] = ring.data[(p + i) % DataSize]
    BY DEF RecordAt
  <2>2. i - 1 \in 0 .. DataSize /\ p + 1 \in Int /\ (p + 1) + (i - 1) = p + i
    BY <1>1
  <2>3. ((p + 1) + (i - 1)) % DataSize =
           IF ((p + 1) % DataSize) + (i - 1) < DataSize THEN ((p + 1) % DataSize) + (i - 1)
           ELSE ((p + 1) % DataSize) + (i - 1) - DataSize
    BY <2>2, ModPlus
  <2> QED BY <2>1, <2>2, <2>3
<1> HIDE DEF p, start, size
<1>6. body(ring) = IF start + size <= DataSize THEN Slice(ring, start, start + size)
                   ELSE Slice(ring, start, DataSize) \o Slice(ring, 0, size - (DataSize - start))
  BY <1>1, <1>2, <1>3 DEF body, p
<1>7. content \in Seq(Int) /\ Len(content) = size /\ ring.data \in [Cells -> Int]
  BY DEF size, Rings
<1>8. CASE start + size <= DataSize
  <2>1. body(ring) = [i \in 1 .. size |-> ring.data[start + i - 1]]
    <3>1. (start + size) - start = size
      BY <1>1, <1>4
    <3>2. Slice(ring, start, start + size) = [i \in 1 .. ((start + size) - start) |-> ring.data[start + i - 1]]
      BY DEF Slice
    <3> QED BY <1>6, <1>8, <3>1, <3>2
  <2>2. \A i \in 1 .. size : content[i] = ring.data[start + i - 1]
    <3> TAKE i \in 1 .. size
    <3>1. start + (i - 1) < DataSize /\ start + (i - 1) = start + i - 1
      BY <1>1, <1>4, <1>8
    <3> QED BY <1>5, <3>1
  <2>3. content = [i \in 1 .. size |-> content[i]]
    BY <1>7
  <2> QED BY <1>2, <1>7, <2>1, <2>2, <2>3
<1>9. CASE ~(start + size <= DataSize)
  <2>1. PICK m \in 1 .. size - 1 : m = DataSize - start /\ size - m \in Nat
    BY <1>1, <1>4, <1>9
  <2>2. PICK front \in [1 .. m -> Int] : front = Slice(ring, start, DataSize)
          /\ \A i \in 1 .. m : front[i] = ring.data[start + i - 1]
    <3>1. \A i \in 1 .. m : start + i - 1 \in Cells
      BY <1>1, <1>4, <2>1 DEF Cells
    <3>2. Slice(ring, start, DataSize) = [i \in 1 .. m |-> ring.data[start + i - 1]]
      BY <2>1 DEF Slice
    <3> QED BY <1>7, <3>1, <3>2
  <2>3. PICK back \in [1 .. size - m -> Int] : back = Slice(ring, 0, size - m)
          /\ \A i \in 1 .. size - m : back[i] = ring.data[i - 1]
    <3>1. \A i \in 1 .. size - m : 0 + i - 1 \in Cells /\ 0 + i - 1 = i - 1
      BY <1>1, <1>4, <2>1 DEF Cells
    <3>2. (size - m) - 0 = size - m
      BY <2>1
    <3>3. Slice(ring, 0, size - m) = [i \in 1 .. size - m |-> ring.data[0 + i - 1]]
      BY <3>2 DEF Slice
    <3> QED BY <1>7, <3>1, <3>3
  <2>4. front \in Seq(Int) /\ Len(front) = m /\ back \in Seq(Int) /\ Len(back) = size - m
    BY <2>1, <2>2, <2>3, AsSeq, m \in Nat
  <2>5. PICK whole \in Seq(Int) : /\ whole = front \o back /\ Len(whole) = size
                                  /\ \A i \in 1 .. m : whole[i] = front[i]
                                  /\ \A i \in m + 1 .. size : whole[i] = back[i - m]
    <3>1. m + (size - m) = size
      BY <1>1, <2>1
    <3>2. /\ front \o back \in Seq(Int) /\ Len(front \o back) = Len(front) + Len(back)
          /\ \A i \in 1 .. Len(front) : (front \o back)[i] = front[i]
          /\ \A i \in Len(front) + 1 .. Len(front) + Len(back) : (front \o back)[i] = back[i - Len(front)]
      BY <2>4, Joined
    <3>3. /\ front \o back \in Seq(Int) /\ Len(front \o back) = size
          /\ \A i \in 1 .. m : (front \o back)[i] = front[i]
          /\ \A i \in m + 1 .. size : (front \o back)[i] = back[i - m]
      BY ONLY <2>4, <3>1, <3>2, Zenon
    <3> DEFINE both == front \o back
    <3> HIDE DEF both
    <3> QED BY <3>3, Zenon DEF both
  <2>6. \A i \in 1 .. size : whole[i] = content[i]
    <3> TAKE i \in 1 .. size
    <3>0. m \in Int /\ i \in Int
      BY <2>1
    <3>1. CASE i <= m
      <4>1. i \in 1 .. m
        BY <2>1, <3>1
      <4>2. start + (i - 1) < DataSize /\ start + (i - 1) = start + i - 1
        BY <1>1, <1>4, <2>1, <3>1
      <4> QED BY <1>5, <2>2, <2>5, <4>1, <4>2
    <3>2. CASE i > m
      <4>1. i \in m + 1 .. size /\ i - m \in 1 .. size - m
        BY <1>1, <2>1, <3>2
      <4>2. ~(start + (i - 1) < DataSize) /\ start + (i - 1) - DataSize = (i - m) - 1
        BY <1>1, <1>4, <2>1, <3>2
      <4> QED BY <1>5, <2>3, <2>5, <4>1, <4>2
    <3> QED BY <3>0, <3>1, <3>2
  <2>7. whole = content
    BY <1>7, <2>5, <2>6, SameSeq
  <2>8. body(ring) = whole
    BY <1>6, <1>9, <2>1, <2>2, <2>3, <2>5
  <2> QED BY <1>2, <2>7, <2>8 DEF size
<1> QED BY <1>8, <1>9 DEF size

\* The records lie one behind the other, from the reader to the end of what was written.
Starts(ring, u, start) ==
    /\ start \in [0 .. Len(u) -> Nat] /\ start[0] = ring.position /\ start[Len(u)] = ring.head
    /\ \A m, n \in 0 .. Len(u) : m <= n => start[m] <= start[n]
    /\ \A n \in 1 .. Len(u) : start[n] = start[n - 1] + Len(u[n]) + 1 /\ RecordAt(ring.data, start[n - 1], u[n])

\* A ring with these records in it: no more than it has cells, and none behind the
\* reader.
Holds(ring, u) ==
    /\ ring \in Rings /\ u \in Seq(Seq(Int))
    /\ ring.tail = ring.position /\ ring.head <= ring.tail + DataSize
    /\ \E start \in [0 .. Len(u) -> Nat] : Starts(ring, u, start)

\* A new ring holds nothing.
LEMMA EmptyHolds == Holds(EmptyRing, <<>>)
<1>1. EmptyRing \in Rings /\ EmptyRing.position = 0 /\ EmptyRing.head = 0 /\ EmptyRing.tail = 0
  BY DataSizeAssumption DEF EmptyRing, Rings
<1>2. PICK start \in [0 .. 0 -> Nat] : start = [n \in 0 .. 0 |-> 0]
  OBVIOUS
<1>3. Len(<<>>) = 0 /\ <<>> \in Seq(Seq(Int))
  OBVIOUS
<1>4. Starts(EmptyRing, <<>>, start)
  BY <1>1, <1>2, <1>3 DEF Starts
<1> QED BY <1>1, <1>2, <1>3, <1>4, DataSizeAssumption DEF Holds

\* what the kernel writes
LEMMA Written == ASSUME NEW ring \in Rings, NEW record \in Seq(Int), Len(record) <= DataSize
  PROVE /\ \A j \in 0 .. Len(record) - 1 : kernel_write(ring, record).data[(ring.head + j) % DataSize] = record[j + 1]
        /\ \A p \in Int : p < ring.head /\ ring.head + Len(record) - DataSize <= p =>
              kernel_write(ring, record).data[p % DataSize] = ring.data[p % DataSize]
        /\ kernel_write(ring, record) \in Rings
        /\ kernel_write(ring, record).head = ring.head + Len(record)
        /\ kernel_write(ring, record).tail = ring.tail
        /\ kernel_write(ring, record).position = ring.position
<1> DEFINE new == kernel_write(ring, record)
           h == ring.head
           l == Len(record)
           off(c) == (c - h) % DataSize
<1>1. DataSize \in Nat /\ DataSize > 0 /\ h \in Nat /\ l \in Nat /\ l <= DataSize
  BY DataSizeAssumption DEF Rings
<1>2. /\ new.data = [c \in Cells |-> IF off(c) < l THEN record[off(c) + 1] ELSE ring.data[c]]
      /\ new.head = h + l /\ new.tail = ring.tail /\ new.position = ring.position
      /\ new \in [data : {new.data}, head : {new.head}, tail : {new.tail}, position : {new.position}]
  BY DEF kernel_write, Rings
<1>3. ASSUME NEW c \in Cells PROVE off(c) \in Nat /\ (off(c) < l => record[off(c) + 1] \in Int) /\ ring.data[c] \in Int
  <2>1. c - h \in Int
    BY <1>1, <1>3 DEF Cells
  <2>2. off(c) \in Cells
    BY <2>1, ModParts
  <2> HIDE DEF off
  <2>3. off(c) \in Nat
    BY <1>1, <2>2 DEF Cells
  <2>4. off(c) < l => off(c) + 1 \in 1 .. l
    BY <1>1, <2>3
  <2> QED BY <1>3, <2>3, <2>4 DEF Rings
<1>4. new.data \in [Cells -> Int]
  BY <1>2, <1>3
<1>5. new \in Rings
  BY <1>1, <1>2, <1>4 DEF Rings
<1>6. ASSUME NEW j \in 0 .. l - 1 PROVE new.data[(h + j) % DataSize] = record[j + 1]
  <2>1. h + j \in Int /\ h <= h + j /\ h + j < h + DataSize /\ (h + j) - h = j
    BY <1>1
  <2>2. PICK c \in Cells : c = (h + j) % DataSize /\ off(c) = j
    BY <1>1, <2>1, ModOffset, ModParts, h \in Int
  <2> HIDE DEF off
  <2>3. new.data[c] = record[j + 1]
    BY <1>1, <1>2, <2>2
  <2> QED BY <2>2, <2>3
<1>7. ASSUME NEW p \in Int, p < h, h + l - DataSize <= p PROVE new.data[p % DataSize] = ring.data[p % DataSize]
  <2>1. h - DataSize <= p /\ p - h + DataSize >= l
    BY <1>1, <1>7
  <2>2. (p % DataSize) \in Cells /\ off(p % DataSize) = p - h + DataSize
    BY <1>1, <1>7, <2>1, ModOffset, ModParts, h \in Int
  <2>3. ~(p - h + DataSize < l)
    BY <1>1, <2>1
  <2> QED BY <1>2, <2>2, <2>3
<1> QED BY <1>2, <1>5, <1>6, <1>7

\* a sequence with one more element
LEMMA Appended == ASSUME NEW S, NEW s \in Seq(S), NEW e \in S
  PROVE /\ Append(s, e) \in Seq(S) /\ Len(Append(s, e)) = Len(s) + 1
        /\ (\A i \in 1 .. Len(s) : Append(s, e)[i] = s[i]) /\ Append(s, e)[Len(s) + 1] = e
  OBVIOUS

\* The kernel adds a record and leaves those that are there.
LEMMA KernelAdds == ASSUME NEW ring, NEW u, Holds(ring, u), NEW record \in Seq(Int),
                           Len(record) >= 1, record[1] = Len(record), Fits(ring, record)
  PROVE Holds(kernel_write(ring, record), Append(u, Tail(record)))
<1> DEFINE new == kernel_write(ring, record)
           h == ring.head
           l == Len(record)
           content == Tail(record)
           more == Append(u, content)
           k == Len(u)
<1>1. PICK start \in [0 .. k -> Nat] : Starts(ring, u, start)
  BY DEF Holds
<1>2. /\ DataSize \in Nat /\ h \in Nat /\ l \in Nat /\ l <= DataSize /\ ring.tail \in Nat /\ ring.tail = ring.position
      /\ ring.tail <= h /\ h + l <= ring.tail + DataSize /\ ring \in Rings
  <2>1. ring \in Rings /\ ring.tail = ring.position
    BY DEF Holds
  <2>2. DataSize \in Nat /\ h \in Nat /\ l \in Nat /\ ring.tail \in Nat
    BY <2>1, DataSizeAssumption DEF Rings
  <2>3. k \in Nat /\ 0 \in 0 .. k /\ k \in 0 .. k /\ 0 <= k
    BY DEF Holds
  <2>4. start[0] <= start[k]
    BY <1>1, <2>3 DEF Starts
  <2>5. ring.tail <= h
    BY <1>1, <2>1, <2>4 DEF Starts
  <2> QED BY <2>1, <2>2, <2>5 DEF Fits
<1>3. /\ \A j \in 0 .. l - 1 : new.data[(h + j) % DataSize] = record[j + 1]
      /\ \A p \in Int : p < h /\ h + l - DataSize <= p => new.data[p % DataSize] = ring.data[p % DataSize]
      /\ new \in Rings /\ new.head = h + l /\ new.tail = ring.tail /\ new.position = ring.position
  BY <1>2, Written
<1> HIDE DEF new
<1>4. /\ content \in Seq(Int) /\ Len(content) = l - 1 /\ (\A i \in 1 .. l - 1 : content[i] = record[i + 1])
      /\ u \in Seq(Seq(Int)) /\ k \in Nat
  BY <1>2 DEF Holds
<1> HIDE DEF content
<1>5. /\ more \in Seq(Seq(Int)) /\ Len(more) = k + 1
      /\ (\A i \in 1 .. k : more[i] = u[i]) /\ more[k + 1] = content
  <2>1. content \in Seq(Int) /\ u \in Seq(Seq(Int))
    BY <1>4
  <2> DEFINE T == Seq(Int)
  <2> HIDE DEF T, k
  <2>2. content \in T /\ u \in Seq(T)
    BY <2>1 DEF T
  <2>3. /\ more \in Seq(T) /\ Len(more) = Len(u) + 1
        /\ (\A i \in 1 .. Len(u) : more[i] = u[i]) /\ more[Len(u) + 1] = content
    BY <2>2, Appended
  <2> QED BY <2>3 DEF k, T
<1>6. PICK s \in [0 .. k + 1 -> Nat] : s = [n \in 0 .. k + 1 |-> IF n <= k THEN start[n] ELSE h + l]
  <2>1. \A n \in 0 .. k + 1 : (IF n <= k THEN start[n] ELSE h + l) \in Nat
    <3> TAKE n \in 0 .. k + 1
    <3>1. CASE n <= k
      <4>1. n \in 0 .. k
        BY <1>4, <3>1
      <4> QED BY <1>1, <3>1, <4>1 DEF Starts
    <3>2. CASE ~(n <= k)
      <4>1. h + l \in Nat
        BY <1>2
      <4> QED BY <3>2, <4>1
    <3> QED BY <3>1, <3>2
  <2> QED BY <2>1
<1>7. (\A n \in 0 .. k : s[n] = start[n]) /\ s[k + 1] = h + l /\ s[0] = ring.position /\ s[k] = h
  BY <1>1, <1>4, <1>6 DEF Starts
<1>8. \A m, n \in 0 .. k + 1 : m <= n => s[m] <= s[n]
  <2> TAKE m, n \in 0 .. k + 1
  <2> HAVE m <= n
  <2>1. CASE n <= k
    <3>1. m \in 0 .. k /\ n \in 0 .. k
      BY <1>4, <2>1
    <3> QED BY <1>1, <1>7, <3>1 DEF Starts
  <2>2. CASE n = k + 1 /\ m <= k
    <3>1. m \in 0 .. k /\ k \in 0 .. k /\ m <= k
      BY <1>4, <2>2
    <3>2. start[m] <= start[k] /\ start[k] = h /\ start[m] \in Nat
      BY <1>1, <3>1 DEF Starts
    <3> QED BY <1>2, <1>7, <2>2, <3>1, <3>2
  <2>3. CASE n = k + 1 /\ m = k + 1
    BY <1>2, <1>7, <2>3
  <2> QED BY <1>4, <2>1, <2>2, <2>3
<1>9. ASSUME NEW n \in 1 .. k PROVE RecordAt(new.data, start[n - 1], u[n]) /\ start[n] = start[n - 1] + Len(u[n]) + 1
  <2>1. n - 1 \in 0 .. k /\ n \in 0 .. k /\ k \in 0 .. k /\ 0 \in 0 .. k /\ n <= k /\ 0 <= n - 1
    BY <1>4
  <2>2. /\ start[n - 1] \in Nat /\ start[n] <= h /\ ring.tail <= start[n - 1]
        /\ start[n] = start[n - 1] + Len(u[n]) + 1 /\ RecordAt(ring.data, start[n - 1], u[n])
    BY <1>1, <1>2, <2>1 DEF Starts
  <2>3. Len(u[n]) \in Nat
    BY <1>4
  <2>4. ASSUME NEW j \in 0 .. Len(u[n])
        PROVE new.data[(start[n - 1] + j) % DataSize] = ring.data[(start[n - 1] + j) % DataSize]
    <3>1. start[n - 1] + j \in Int /\ start[n - 1] + j < h /\ h + l - DataSize <= start[n - 1] + j
      <4>1. PICK a \in Nat, b \in Nat : a = start[n - 1] /\ b = Len(u[n])
        BY <2>2, <2>3
      <4>2. j \in Nat /\ j <= b /\ a + b + 1 <= h /\ ring.tail <= a
        BY <2>2, <4>1
      <4>3. PICK t \in Nat, e \in Nat : t = ring.tail /\ e = h
        BY <1>2
      <4>4. t <= a /\ a + b + 1 <= e /\ e + l <= t + DataSize
        BY <1>2, <4>2, <4>3
      <4>5. a + j \in Int /\ a + j < e /\ e + l - DataSize <= a + j
        BY <1>2, <4>2, <4>4
      <4> QED BY <4>1, <4>3, <4>5
    <3> QED BY <1>3, <3>1
  <2>5. new.data[start[n - 1] % DataSize] = ring.data[start[n - 1] % DataSize]
    <3>1. 0 \in 0 .. Len(u[n]) /\ start[n - 1] + 0 = start[n - 1]
      BY <2>2, <2>3
    <3> QED BY <2>4, <3>1
  <2> QED BY <2>2, <2>3, <2>4, <2>5 DEF RecordAt
<1>10. RecordAt(new.data, h, content)
  <2>1. new.data[h % DataSize] = l
    <3>1. 0 \in 0 .. l - 1 /\ h + 0 = h
      BY <1>2
    <3> QED BY <1>3, <3>1
  <2>2. ASSUME NEW j \in 1 .. l - 1 PROVE new.data[(h + j) % DataSize] = content[j]
    <3>1. j \in 0 .. l - 1
      BY <1>2
    <3> QED BY <1>3, <1>4, <3>1
  <2>3. l = Len(content) + 1
    BY <1>2, <1>4
  <2> QED BY <1>4, <2>1, <2>2, <2>3 DEF RecordAt
<1>11. Starts(new, more, s)
  <2>1. ASSUME NEW n \in 1 .. k + 1 PROVE s[n] = s[n - 1] + Len(more[n]) + 1 /\ RecordAt(new.data, s[n - 1], more[n])
    <3>1. CASE n \in 1 .. k
      BY <1>4, <1>5, <1>7, <1>9, <3>1, n - 1 \in 0 .. k, n \in 0 .. k
    <3>2. CASE n = k + 1
      <4>1. n - 1 = k
        BY <1>4, <3>2
      <4>2. h + l = h + (l - 1) + 1
        BY <1>2
      <4> QED BY <1>4, <1>5, <1>7, <1>10, <3>2, <4>1, <4>2
    <3> QED BY <1>4, <3>1, <3>2
  <2> QED BY <1>3, <1>5, <1>6, <1>7, <1>8, <2>1 DEF Starts
<1>12. new.head <= new.tail + DataSize /\ new.tail = new.position
  BY <1>2, <1>3
<1> HIDE DEF more, k, h, l
<1> QED BY <1>3, <1>5, <1>6, <1>11, <1>12 DEF Holds, new, more, content

\* the ring with its reader at another place
ReaderAt(ring, place) == [ring EXCEPT !.position = place, !.tail = place]

\* With the reader at the start of a record, body reads that record, and write_tail moves
\* the reader to the start of the next.
LEMMA RecordSize == ASSUME NEW ring, NEW u, Holds(ring, u), NEW start \in [0 .. Len(u) -> Nat], Starts(ring, u, start),
                           NEW n \in 1 .. Len(u)
  PROVE /\ ReaderAt(ring, start[n - 1]) \in Rings /\ u[n] \in Seq(Int)
        /\ body(ReaderAt(ring, start[n - 1])) = u[n]
        /\ write_tail(ReaderAt(ring, start[n - 1])) = ReaderAt(ring, start[n])
        /\ start[n - 1] < start[n]
<1> DEFINE k == Len(u)
           at == ReaderAt(ring, start[n - 1])
<1>1. k \in Nat /\ n - 1 \in 0 .. k /\ n \in 0 .. k /\ 0 \in 0 .. k /\ k \in 0 .. k /\ 0 <= n - 1 /\ n <= k
  BY DEF Holds
<1>2. /\ start[n - 1] \in Nat /\ start[n] \in Nat /\ start[0] <= start[n - 1] /\ start[n] <= start[k]
      /\ start[0] = ring.position /\ start[k] = ring.head
      /\ start[n] = start[n - 1] + Len(u[n]) + 1 /\ RecordAt(ring.data, start[n - 1], u[n])
  BY <1>1 DEF Starts
<1>3. u[n] \in Seq(Int) /\ Len(u[n]) \in Nat /\ DataSize \in Nat /\ ring \in Rings
  BY DataSizeAssumption DEF Holds
<1>4. ring.position \in Nat /\ ring.head \in Nat /\ ring.head <= ring.position + DataSize
  BY <1>3 DEF Holds, Rings
<1>5. Len(u[n]) + 1 <= DataSize /\ start[n - 1] < start[n]
  <2>1. PICK a \in Nat, b \in Nat, l \in Nat : a = start[n - 1] /\ b = start[n] /\ l = Len(u[n])
    BY <1>2, <1>3
  <2>2. ring.position <= a /\ b <= ring.head /\ b = a + l + 1
    BY <1>2, <2>1
  <2>3. l + 1 <= DataSize /\ a < b
    BY <1>3, <1>4, <2>1, <2>2
  <2> QED BY <2>1, <2>3
<1>6. at \in Rings /\ at.data = ring.data /\ at.position = start[n - 1]
  BY <1>2, <1>3 DEF ReaderAt, Rings
<1>7. record_size(at) = Len(u[n]) + 1 /\ body(at) = u[n]
  <2> HIDE DEF at
  <2> QED BY <1>2, <1>3, <1>5, <1>6, BodyIsRead
<1>8. write_tail(at) = ReaderAt(ring, start[n])
  <2>1. at.position + record_size(at) = start[n]
    <3> HIDE DEF at
    <3> QED BY <1>2, <1>3, <1>6, <1>7
  <2>2. write_tail(at) = [at EXCEPT !.position = start[n], !.tail = start[n]]
    BY <2>1 DEF write_tail
  <2>3. [at EXCEPT !.position = start[n], !.tail = start[n]] = ReaderAt(ring, start[n])
    BY <1>3 DEF ReaderAt, Rings
  <2> QED BY <2>2, <2>3
<1> QED BY <1>3, <1>5, <1>6, <1>7, <1>8

\* The reader is at the start of the first record.
LEMMA ReaderIsThere == ASSUME NEW ring, NEW u, Holds(ring, u), NEW start, Starts(ring, u, start)
  PROVE ReaderAt(ring, start[0]) = ring
<1>1. start[0] = ring.position /\ ring.tail = ring.position /\ ring \in Rings
  BY DEF Starts, Holds
<1> QED BY <1>1 DEF ReaderAt, Rings

\* The reader takes the first record.
LEMMA ReaderTakes == ASSUME NEW ring, NEW u, Holds(ring, u), u # <<>>
  PROVE body(ring) = u[1] /\ has_data(ring) /\ Holds(write_tail(ring), Tail(u))
<1> DEFINE k == Len(u)
           new == write_tail(ring)
           rest == Tail(u)
<1>1. PICK start \in [0 .. k -> Nat] : Starts(ring, u, start)
  BY DEF Holds
<1>2. u \in Seq(Seq(Int)) /\ k \in Nat /\ k >= 1 /\ 1 \in 1 .. k /\ 1 - 1 = 0
  BY DEF Holds
<1>3. ring = ReaderAt(ring, start[0])
  BY <1>1, ReaderIsThere
<1>4. body(ring) = u[1] /\ new = ReaderAt(ring, start[1]) /\ start[0] < start[1]
  <2>1. /\ body(ReaderAt(ring, start[1 - 1])) = u[1]
        /\ write_tail(ReaderAt(ring, start[1 - 1])) = ReaderAt(ring, start[1])
        /\ start[1 - 1] < start[1]
    <3>1. start \in [0 .. Len(u) -> Nat] /\ Starts(ring, u, start) /\ 1 \in 1 .. Len(u) /\ Holds(ring, u)
      BY <1>1, <1>2
    <3> QED BY <3>1, RecordSize
  <2>2. start[1 - 1] = start[0]
    BY <1>2
  <2> QED BY <1>3, <2>1, <2>2
<1>5. /\ \A m, n \in 0 .. k : m <= n => start[m] <= start[n]
      /\ start[0] = ring.position /\ start[k] = ring.head
      /\ \A n \in 1 .. k : start[n] = start[n - 1] + Len(u[n]) + 1 /\ RecordAt(ring.data, start[n - 1], u[n])
  BY <1>1 DEF Starts
<1>6. start[0] \in Nat /\ start[1] \in Nat /\ start[1] <= start[k] /\ start[k] \in Nat
  <2>1. 0 \in 0 .. k /\ 1 \in 0 .. k /\ k \in 0 .. k /\ 1 <= k
    BY <1>2
  <2> QED BY <1>1, <1>5, <2>1
<1>7. has_data(ring)
  BY <1>4, <1>5, <1>6 DEF has_data
<1>8. rest \in Seq(Seq(Int)) /\ Len(rest) = k - 1 /\ \A i \in 1 .. k - 1 : rest[i] = u[i + 1]
  <2> DEFINE T == Seq(Int)
  <2> HIDE DEF T
  <2>1. u \in Seq(T)
    BY <1>2 DEF T
  <2> QED BY <1>2, <2>1 DEF T
<1> HIDE DEF rest
<1>9. PICK s \in [0 .. k - 1 -> Nat] : s = [n \in 0 .. k - 1 |-> start[n + 1]]
  <2>1. \A n \in 0 .. k - 1 : n + 1 \in 0 .. k
    BY <1>2
  <2> QED BY <1>1, <2>1
<1>10. ring \in Rings /\ ring.tail = ring.position /\ ring.head <= ring.tail + DataSize /\ DataSize \in Nat
        /\ ring.position \in Nat
  BY DataSizeAssumption DEF Holds, Rings
<1>11. new \in Rings /\ new.data = ring.data /\ new.head = ring.head /\ new.position = start[1] /\ new.tail = start[1]
  BY <1>4, <1>6, <1>10 DEF ReaderAt, Rings
<1> HIDE DEF new
<1>12. Starts(new, rest, s)
  <2>1. s[0] = new.position /\ s[k - 1] = new.head
    BY <1>2, <1>5, <1>9, <1>11, 0 \in 0 .. k - 1, k - 1 \in 0 .. k - 1, k - 1 + 1 = k
  <2>2. ASSUME NEW m \in 0 .. k - 1, NEW n \in 0 .. k - 1, m <= n PROVE s[m] <= s[n]
    BY <1>2, <1>5, <1>9, <2>2, m + 1 \in 0 .. k, n + 1 \in 0 .. k, m + 1 <= n + 1
  <2>3. ASSUME NEW n \in 1 .. k - 1 PROVE s[n] = s[n - 1] + Len(rest[n]) + 1 /\ RecordAt(new.data, s[n - 1], rest[n])
    <3>1. n + 1 \in 1 .. k /\ n - 1 \in 0 .. k - 1 /\ n \in 0 .. k - 1 /\ (n + 1) - 1 = n /\ (n - 1) + 1 = n
      BY <1>2
    <3>2. s[n] = start[n + 1] /\ s[n - 1] = start[n]
      BY <1>9, <3>1
    <3>3. start[n + 1] = start[n] + Len(u[n + 1]) + 1 /\ RecordAt(ring.data, start[n], u[n + 1])
      BY <1>5, <3>1
    <3> QED BY <1>8, <1>11, <3>2, <3>3
  <2> QED BY <1>8, <1>9, <2>1, <2>2, <2>3 DEF Starts
<1>13. new.head <= new.tail + DataSize
  <2>1. PICK a \in Nat, b \in Nat : a = start[0] /\ b = start[1]
    BY <1>6
  <2>2. ring.head <= a + DataSize /\ a < b
    BY <1>4, <1>5, <1>10, <2>1
  <2>3. ring.head \in Nat
    BY <1>10 DEF Rings
  <2> QED BY <1>10, <1>11, <2>1, <2>2, <2>3
<1>14. \E t \in [0 .. Len(rest) -> Nat] : Starts(new, rest, t)
  BY <1>8, <1>9, <1>12
<1>15. Holds(new, rest)
  BY <1>8, <1>11, <1>13, <1>14 DEF Holds
<1> QED BY <1>4, <1>7, <1>15 DEF new, rest

\* no records, no data
LEMMA NothingThere == ASSUME NEW ring, Holds(ring, <<>>) PROVE ~has_data(ring)
<1>1. Len(<<>>) = 0
  OBVIOUS
<1>2. PICK start \in [0 .. Len(<<>>) -> Nat] : Starts(ring, <<>>, start)
  BY DEF Holds
<1>3. start[0] = ring.position /\ start[Len(<<>>)] = ring.head
  BY <1>2 DEF Starts
<1> QED BY <1>1, <1>3 DEF has_data

\* A set of natural numbers has a least one.
LEMMA LeastNat == ASSUME NEW T, T \subseteq Nat, T # {} PROVE \E x \in T : \A y \in T : x <= y
<1> DEFINE R == {ss \in Nat \X Nat : ss[1] < ss[2]}
<1>1. IsWellFoundedOn(R, Nat)
  BY NatLessThanWellFounded DEF OpToRel
<1>2. \A x, y \in Nat : <<y, x>> \in R <=> y < x
  OBVIOUS
<1> HIDE DEF R
<1>3. \E x \in T : \A y \in T : ~ (<<y, x>> \in R)
  BY <1>1, WFMin
<1>4. PICK x \in T : \A y \in T : ~ (<<y, x>> \in R)
  BY <1>3
<1>5. \A y \in T : ~ (y < x)
  BY <1>2, <1>4
<1> QED BY <1>5

\* f is the ring after so many records were read.
Reads(ring, m, f) == f = [n \in 0 .. m |-> IF n = 0 THEN ring ELSE write_tail(f[n - 1])]

\* Reading on and on, the reader has every record of the ring and then no data: by
\* the least record it could miss.
LEMMA AllAhead == ASSUME NEW ring, NEW u, Holds(ring, u) PROVE Ahead(ring, u)
<1> DEFINE k == Len(u)
           after[n \in 0 .. k] == IF n = 0 THEN ring ELSE write_tail(after[n - 1])
<1>1. PICK start \in [0 .. k -> Nat] : Starts(ring, u, start)
  BY DEF Holds
<1>2. k \in Nat /\ DOMAIN u = 1 .. k
  BY DEF Holds
<1>3. \A n \in 1 .. k : /\ body(ReaderAt(ring, start[n - 1])) = u[n]
                        /\ write_tail(ReaderAt(ring, start[n - 1])) = ReaderAt(ring, start[n])
  <2>1. start \in [0 .. Len(u) -> Nat] /\ Starts(ring, u, start) /\ Holds(ring, u)
    BY <1>1
  <2>2. ASSUME NEW n \in 1 .. Len(u)
        PROVE /\ body(ReaderAt(ring, start[n - 1])) = u[n]
              /\ write_tail(ReaderAt(ring, start[n - 1])) = ReaderAt(ring, start[n])
    <3>1. /\ ReaderAt(ring, start[n - 1]) \in Rings /\ u[n] \in Seq(Int)
          /\ body(ReaderAt(ring, start[n - 1])) = u[n]
          /\ write_tail(ReaderAt(ring, start[n - 1])) = ReaderAt(ring, start[n])
          /\ start[n - 1] < start[n]
      BY ONLY <2>1, n \in 1 .. Len(u), RecordSize, Zenon
    <3> QED BY <3>1
  <2> QED BY <2>2
<1>4. PICK g : g = [n \in 0 .. k |-> ReaderAt(ring, start[n])]
  OBVIOUS
<1>5. Reads(ring, k, g)
  <2>1. \A n \in 0 .. k : g[n] = IF n = 0 THEN ring ELSE write_tail(g[n - 1])
    <3> TAKE n \in 0 .. k
    <3>1. CASE n = 0
      BY <1>1, <1>2, <1>4, <3>1, ReaderIsThere
    <3>2. CASE n # 0
      <4>1. n \in 1 .. k /\ n - 1 \in 0 .. k
        BY <1>2, <3>2
      <4> QED BY <1>3, <1>4, <3>2, <4>1
    <3> QED BY <3>1, <3>2
  <2> QED BY <1>4, <2>1 DEF Reads
<1>6. Reads(ring, k, after)
  <2>1. after = CHOOSE f : Reads(ring, k, f)
    BY DEF Reads
  <2> HIDE DEF after
  <2> QED BY <1>5, <2>1
<1> HIDE DEF after, k
<1>7. \A n \in 0 .. k : after[n] = g[n]
  <2> DEFINE T == {n \in 0 .. k : after[n] # g[n]}
  <2> SUFFICES ASSUME T # {} PROVE FALSE
    OBVIOUS
  <2>1. PICK n \in T : \A y \in T : n <= y
    BY <1>2, LeastNat, T \subseteq Nat
  <2>2. CASE n = 0
    BY <1>2, <1>5, <1>6, <2>1, <2>2, 0 \in 0 .. k DEF Reads
  <2>3. CASE n # 0
    <3>1. n - 1 \in 0 .. k /\ n \in 0 .. k /\ ~(n <= n - 1)
      BY <1>2, <2>1, <2>3
    <3>2. after[n - 1] = g[n - 1]
      BY <2>1, <3>1
    <3> QED BY <1>5, <1>6, <2>1, <2>3, <3>1, <3>2 DEF Reads
  <2> QED BY <2>2, <2>3
<1>8. \A n \in DOMAIN u : body(after[n - 1]) = u[n]
  <2> TAKE n \in DOMAIN u
  <2>1. n \in 1 .. k /\ n - 1 \in 0 .. k
    BY <1>2
  <2> QED BY <1>3, <1>4, <1>7, <2>1
<1>9. ~has_data(after[k])
  <2>1. after[k] = ReaderAt(ring, start[k]) /\ start[k] = ring.head /\ ring \in Rings
    BY <1>1, <1>2, <1>4, <1>7, k \in 0 .. k DEF Starts, k, Holds
  <2> QED BY <2>1 DEF has_data, ReaderAt, Rings
<1> QED BY <1>8, <1>9 DEF Ahead, after, k

-----------------------------------------------------------------------------
(* The invariant *)

Lives == {"new", "starting", "alive", "stopping", "ended"}
Somebody == Threads \union {Starter}
Owners == Threads \union {Starter, Everyone}
Configs == {s.cpu_profiling : s \in Scenarios} \union {SchedProfiler_new(s.sched_events) : s \in Scenarios}
Events == [tid : {"0"}, ring : Rings, config : Configs, owner : Owners, unread : Seq(Seq(Int))]
RoleMaps == UNION {[D -> Threads \union {Blocking}] : D \in SUBSET Threads}
Resolvers == [Threads -> {"nobody", "hook", "waker"}]
Flushes == [roles : RoleMaps, ring : Nat \ {0}, got : BOOLEAN, first : Resolvers]
Elements(s) == {s[i] : i \in DOMAIN s}
HasRole(th) == life[th] \in {"starting", "alive"}

Typed ==
    /\ scenario \in Scenarios /\ clock \in Nat
    /\ life \in [Threads -> Lives] /\ cached \subseteq Workers /\ first \in Resolvers
    /\ roles \in RoleMaps /\ DOMAIN roles = {th \in Threads : HasRole(th)}
    /\ rings \in Seq(Events)
    /\ names \subseteq Somebody
    /\ flush \in Flushes \union {Idle}
    /\ past \in Seq(Elements(past)) /\ trace \in Seq(Elements(trace))
    /\ \A j \in DOMAIN past : past[j].worker \in Somebody
    /\ \A i \in DOMAIN trace : trace[i].at \in DOMAIN past

\* A thread has its own role or that of the blocking pool, in the map and in its copy;
\* who was resolved by a hook before has its own.
OwnRoles(map, who) ==
    /\ \A th \in DOMAIN map : map[th] \in {th, Blocking}
    /\ \A w \in Workers \intersect DOMAIN map : who[w] = "hook" => map[w] = w
Owned ==
    /\ OwnRoles(roles, first)
    /\ Flushing => OwnRoles(flush.roles, flush.first)
    /\ \A w \in Workers : life[w] \notin {"new", "starting"}

\* Every ring holds the records the reader has not had yet, and each is of a sample.
Numbered(record, events_) ==
    record # <<>> /\ record[1] \in DOMAIN events_ /\ events_[record[1]].kind = "CpuSample"
Filled ==
    \A i \in DOMAIN rings :
        /\ Holds(rings[i].ring, rings[i].unread)
        /\ \A n \in DOMAIN rings[i].unread : Numbered(rings[i].unread[n], past)

\* What the reader has seen is there when it comes to read it.
Seen == Flushing /\ flush.got => flush.ring \in DOMAIN rings /\ rings[flush.ring].unread # <<>>

Inv == Typed /\ Owned /\ Filled /\ Seen

-----------------------------------------------------------------------------
LEMMA Extended == ASSUME NEW s, s \in Seq(Elements(s)), NEW e
  PROVE LET t == Append(s, e)
        IN  /\ t \in Seq(Elements(t)) /\ Len(t) = Len(s) + 1 /\ DOMAIN t = 1 .. Len(s) + 1 /\ DOMAIN s = 1 .. Len(s)
            /\ Len(s) \in Nat /\ (\A i \in 1 .. Len(s) : t[i] = s[i]) /\ t[Len(s) + 1] = e
<1> DEFINE S == Elements(s) \union {e}
           t == Append(s, e)
<1>1. s \in Seq(S) /\ e \in S
  BY DEF Elements
<1> HIDE DEF S
<1>2. t \in Seq(S) /\ Len(t) = Len(s) + 1 /\ (\A i \in 1 .. Len(s) : t[i] = s[i]) /\ t[Len(s) + 1] = e
  BY <1>1, Appended
<1>3. DOMAIN t = 1 .. Len(s) + 1 /\ DOMAIN s = 1 .. Len(s) /\ Len(s) \in Nat
  BY <1>1, <1>2
<1> HIDE DEF t
<1>4. t \in Seq(Elements(t))
  BY <1>2, <1>3 DEF Elements
<1> QED BY <1>2, <1>3, <1>4 DEF t

\* f is what the first parts come to, up to each of them.
Flat(parts, m, f) == f = [i \in 1 .. m |-> IF i = 1 THEN parts[i] ELSE f[i - 1] \o parts[i]]

\* There is such a function, by the least number of parts for which there is none.
LEMMA FlatExists == ASSUME NEW parts, NEW l \in Nat PROVE \E f : Flat(parts, l, f)
<1> DEFINE T == {m \in Nat : ~ \E f : Flat(parts, m, f)}
<1> SUFFICES ASSUME T # {} PROVE FALSE
  OBVIOUS
<1>1. PICK m \in T : \A y \in T : m <= y
  BY LeastNat, T \subseteq Nat
<1>2. CASE m = 0
  <2>1. PICK f : f = [i \in 1 .. 0 |-> 0]
    OBVIOUS
  <2>2. [i \in 1 .. 0 |-> IF i = 1 THEN parts[i] ELSE f[i - 1] \o parts[i]] = [i \in 1 .. 0 |-> 0]
    OBVIOUS
  <2>3. Flat(parts, 0, f)
    BY ONLY <2>1, <2>2, Zenon DEF Flat
  <2> QED BY <1>1, <1>2, <2>3
<1>3. CASE m # 0
  <2>1. m - 1 \in Nat /\ ~(m <= m - 1) /\ m \in Nat
    BY <1>1, <1>3
  <2>2. PICK f : Flat(parts, m - 1, f)
    BY <1>1, <2>1
  <2>3. PICK g : g = [i \in 1 .. m |-> IF i # m THEN f[i] ELSE IF i = 1 THEN parts[i] ELSE f[i - 1] \o parts[i]]
    OBVIOUS
  <2>4. \A i \in 1 .. m : g[i] = IF i = 1 THEN parts[i] ELSE g[i - 1] \o parts[i]
    <3> TAKE i \in 1 .. m
    <3>1. CASE i = m
      <4>1. i # 1 => i - 1 \in 1 .. m /\ i - 1 # m
        BY <2>1
      <4> QED BY <2>3, <3>1, <4>1
    <3>2. CASE i # m
      <4>1. i \in 1 .. m - 1 /\ (i # 1 => i - 1 \in 1 .. m /\ i - 1 # m)
        BY <2>1, <3>2
      <4>2. g[i] = f[i] /\ (i # 1 => g[i - 1] = f[i - 1])
        BY <2>3, <3>2, <4>1
      <4>3. f[i] = IF i = 1 THEN parts[i] ELSE f[i - 1] \o parts[i]
        BY <2>2, <4>1 DEF Flat
      <4> QED BY <4>2, <4>3
    <3> QED BY <3>1, <3>2
  <2>5. Flat(parts, m, g)
    BY <2>3, <2>4 DEF Flat
  <2> QED BY <1>1, <2>5
<1> QED BY <1>2, <1>3

\* Sequences joined are a sequence.
LEMMA JoinedSeqs == ASSUME NEW S, NEW l \in Nat, NEW parts \in [1 .. l -> Seq(S)]
  PROVE FlattenSeq(parts) \in Seq(S)
<1> DEFINE flatten[i \in 1 .. l] == IF i = 1 THEN parts[i] ELSE flatten[i - 1] \o parts[i]
<1>1. Len(parts) = l
  <2> DEFINE R == Seq(S)
  <2> HIDE DEF R
  <2>1. parts \in [1 .. l -> R]
    BY DEF R
  <2> QED BY <2>1, AsSeq
<1>2. CASE l = 0
  <2>1. parts \in [1 .. 0 -> S]
    BY <1>2
  <2> QED BY <1>1, <1>2, <2>1, AsSeq DEF FlattenSeq
<1>3. CASE l # 0
  <2>1. PICK f : Flat(parts, l, f)
    BY FlatExists
  <2>2. flatten = CHOOSE g : Flat(parts, l, g)
    BY DEF Flat
  <2> HIDE DEF flatten
  <2>3. Flat(parts, l, flatten)
    BY <2>1, <2>2
  <2>4. \A i \in 1 .. l : flatten[i] \in Seq(S)
    <3> DEFINE T == {i \in 1 .. l : flatten[i] \notin Seq(S)}
    <3> SUFFICES ASSUME T # {} PROVE FALSE
      OBVIOUS
    <3>1. PICK i \in T : \A y \in T : i <= y
      BY LeastNat, T \subseteq Nat
    <3>2. CASE i = 1
      BY <2>3, <3>1, <3>2 DEF Flat
    <3>3. CASE i # 1
      <4>1. i - 1 \in 1 .. l /\ ~(i <= i - 1) /\ i \in 1 .. l
        BY <3>1, <3>3
      <4>2. flatten[i - 1] \in Seq(S) /\ parts[i] \in Seq(S)
        BY <3>1, <4>1
      <4>3. flatten[i - 1] \o parts[i] \in Seq(S)
        BY <4>2, Joined
      <4> QED BY <2>3, <3>1, <3>3, <4>3 DEF Flat
    <3> QED BY <3>2, <3>3
  <2>5. FlattenSeq(parts) = flatten[l]
    BY <1>1, <1>3 DEF FlattenSeq, flatten
  <2> QED BY <1>3, <2>4, <2>5, l \in 1 .. l
<1> QED BY <1>2, <1>3

\* The CPUs that are online are a sequence of numbers.
LEMMA Cpus == ASSUME NEW ranges \in Seq(Nat \X Nat), \A r \in DOMAIN ranges : ranges[r][1] <= ranges[r][2]
  PROVE get_online_cpus(ranges) \in Seq(Nat)
<1>1. PICK l \in Nat : l = Len(ranges) /\ DOMAIN ranges = 1 .. l
  OBVIOUS
<1>2. ASSUME NEW r \in 1 .. l
      PROVE [i \in 1 .. ranges[r][2] - ranges[r][1] + 1 |-> ranges[r][1] + i - 1] \in Seq(Nat)
  <2>1. PICK a \in Nat, b \in Nat : a = ranges[r][1] /\ b = ranges[r][2] /\ a <= b
    <3>1. ranges[r] \in Nat \X Nat /\ r \in DOMAIN ranges
      BY <1>1
    <3> QED BY <3>1
  <2>2. b - a + 1 \in Nat /\ \A i \in 1 .. b - a + 1 : a + i - 1 \in Nat
    BY <2>1
  <2>3. [i \in 1 .. b - a + 1 |-> a + i - 1] \in [1 .. b - a + 1 -> Nat]
    BY <2>2
  <2>4. [i \in 1 .. b - a + 1 |-> a + i - 1] \in Seq(Nat)
    BY <2>2, <2>3, AsSeq
  <2> QED BY <2>1, <2>4
<1>3. PICK parts \in [1 .. l -> Seq(Nat)] :
         parts = [r \in DOMAIN ranges |-> [i \in 1 .. ranges[r][2] - ranges[r][1] + 1 |-> ranges[r][1] + i - 1]]
  BY <1>1, <1>2
<1>4. FlattenSeq(parts) \in Seq(Nat)
  BY JoinedSeqs
<1> QED BY <1>3, <1>4 DEF get_online_cpus

\* Events are opened empty, if they are.
Fresh(event) == event.unread = <<>> /\ event.ring = EmptyRing

\* one that was opened for some thread, as it was configured
OpenedFor(event, config, who) == Fresh(event) /\ event.config = config /\ event.owner \in who

\* The events that are opened have empty rings.
LEMMA Opened == ASSUME NEW config \in Configs, NEW who \in SUBSET Owners, NEW owners \in Seq(who),
                       NEW opened \in open_perf_event(config, owners)
  PROVE opened \in Seq(Events) /\ \A i \in DOMAIN opened : OpenedFor(opened[i], config, who)
<1>1. ASSUME NEW owner \in who
      PROVE PerfEvent(config, owner) \in Events /\ OpenedFor(PerfEvent(config, owner), config, who)
  <2>1. EmptyRing \in Rings /\ <<>> \in Seq(Seq(Int))
    BY EmptyHolds DEF Holds
  <2> QED BY <2>1 DEF PerfEvent, Events, Fresh, OpenedFor
<1>2. CASE opened = <<>>
  <2>1. opened \in Seq(Events) /\ DOMAIN opened = {}
    BY <1>2
  <2> QED BY <2>1
<1>3. CASE opened = [i \in DOMAIN owners |-> PerfEvent(config, owners[i])]
  <2>1. PICK l \in Nat : DOMAIN owners = 1 .. l /\ \A i \in 1 .. l : owners[i] \in who
    <3>1. Len(owners) \in Nat
      OBVIOUS
    <3> QED BY <3>1
  <2>2. opened \in [1 .. l -> Events] /\ \A i \in 1 .. l : OpenedFor(opened[i], config, who)
    BY <1>1, <1>3, <2>1
  <2>3. opened \in Seq(Events)
    BY <2>2, AsSeq
  <2> QED BY <1>3, <2>1, <2>2, <2>3
<1> QED BY <1>2, <1>3 DEF open_perf_event

\* a member of one of two sequences
LEMMA OneOf == ASSUME NEW S, NEW s \in Seq(S), NEW t \in Seq(S), NEW i \in DOMAIN (s \o t)
  PROVE \/ i \in DOMAIN s /\ (s \o t)[i] = s[i]
        \/ \E k \in DOMAIN t : (s \o t)[i] = t[k]
<1>1. /\ s \o t \in Seq(S) /\ Len(s \o t) = Len(s) + Len(t)
      /\ \A k \in 1 .. Len(s) : (s \o t)[k] = s[k]
      /\ \A k \in Len(s) + 1 .. Len(s) + Len(t) : (s \o t)[k] = t[k - Len(s)]
  BY Joined
<1>2. Len(s) \in Nat /\ Len(t) \in Nat /\ i \in 1 .. Len(s) + Len(t) /\ DOMAIN s = 1 .. Len(s) /\ DOMAIN t = 1 .. Len(t)
  BY <1>1
<1>3. CASE i <= Len(s)
  BY <1>1, <1>2, <1>3
<1>4. CASE i > Len(s)
  <2>1. i - Len(s) \in DOMAIN t /\ (s \o t)[i] = t[i - Len(s)]
    BY <1>1, <1>2, <1>4
  <2> QED BY <2>1
<1> QED BY <1>2, <1>3, <1>4

\* Of the events that build has opened, those of the process are for it and the thread
\* that called it, the others each for a worker.
LEMMA FirstRings == ASSUME Init
  PROVE rings \in Seq(Events) /\ \A i \in DOMAIN rings : \/ OpenedFor(rings[i], scenario.cpu_profiling, {Starter, Everyone})
                                                         \/ OpenedFor(rings[i], SchedEvents, Workers)
<1>1. scenario \in Scenarios
  BY DEF Init
<1>2. PICK process \in start_for_pid(scenario.cpu_profiling), tracked \in SUBSET Workers :
         \E order \in SetToSeqs(tracked) :
            rings = process \o [i \in 1 .. Cardinality(tracked) |-> PerfEvent(SchedEvents, order[i])]
  BY DEF Init
<1>3. PICK order \in SetToSeqs(tracked) :
         rings = process \o [i \in 1 .. Cardinality(tracked) |-> PerfEvent(SchedEvents, order[i])]
  BY <1>2
<1>4. scenario.cpu_profiling \in Configs /\ SchedEvents \in Configs
  BY <1>1 DEF Configs, SchedEvents
<1>5. process \in Seq(Events) /\ \A i \in DOMAIN process : OpenedFor(process[i], scenario.cpu_profiling, {Starter, Everyone})
  <2> DEFINE who == {Starter, Everyone}
  <2>1. <<Starter>> \in Seq(who) /\ who \in SUBSET Owners
    BY DEF Owners
  <2>2. [cpu \in DOMAIN get_online_cpus(scenario.online) |-> Everyone] \in Seq(who)
    <3>1. scenario.online \in Seq(Nat \X Nat)
            /\ \A r \in DOMAIN scenario.online : scenario.online[r][1] <= scenario.online[r][2]
      BY <1>1, ProfilerAssumption
    <3>2. get_online_cpus(scenario.online) \in Seq(Nat)
      BY <3>1, Cpus
    <3>3. PICK l \in Nat : DOMAIN get_online_cpus(scenario.online) = 1 .. l
      BY <3>2, Len(get_online_cpus(scenario.online)) \in Nat
    <3>4. [cpu \in 1 .. l |-> Everyone] \in [1 .. l -> who]
      OBVIOUS
    <3> HIDE DEF who
    <3> QED BY <3>3, <3>4, AsSeq
  <2> HIDE DEF who
  <2>3. \E owners \in Seq(who) : process \in open_perf_event(scenario.cpu_profiling, owners)
    BY <2>1, <2>2 DEF start_for_pid
  <2> QED BY <1>4, <2>1, <2>3, Opened DEF who
<1>6. PICK own : own = [i \in 1 .. Cardinality(tracked) |-> PerfEvent(SchedEvents, order[i])]
  OBVIOUS
<1>7. own \in Seq(Events) /\ \A i \in DOMAIN own : OpenedFor(own[i], SchedEvents, Workers)
  <2>1. Cardinality(tracked) \in Nat
    BY ProfilerAssumption, FS_Subset, FS_CardinalityType
  <2>2. order \in [1 .. Cardinality(tracked) -> tracked]
    BY DEF SetToSeqs
  <2>3. EmptyRing \in Rings /\ <<>> \in Seq(Seq(Int))
    BY EmptyHolds DEF Holds
  <2>4. ASSUME NEW w \in tracked
        PROVE PerfEvent(SchedEvents, w) \in Events /\ OpenedFor(PerfEvent(SchedEvents, w), SchedEvents, Workers)
    BY <1>4, <2>3 DEF PerfEvent, Events, Fresh, OpenedFor, Owners, Threads
  <2>5. own \in [1 .. Cardinality(tracked) -> Events]
          /\ \A i \in 1 .. Cardinality(tracked) : OpenedFor(own[i], SchedEvents, Workers)
    BY <1>6, <2>2, <2>4
  <2> QED BY <1>6, <2>1, <2>5, AsSeq
<1>8. rings = process \o own
  BY <1>3, <1>6
<1>9. rings \in Seq(Events)
  BY <1>5, <1>7, <1>8, Joined
<1>10. ASSUME NEW i \in DOMAIN rings
       PROVE \/ OpenedFor(rings[i], scenario.cpu_profiling, {Starter, Everyone})
             \/ OpenedFor(rings[i], SchedEvents, Workers)
  <2>1. \/ i \in DOMAIN process /\ rings[i] = process[i]
        \/ \E k \in DOMAIN own : rings[i] = own[k]
    BY <1>5, <1>7, <1>8, OneOf
  <2> QED BY <1>5, <1>7, <2>1
<1> QED BY <1>9, <1>10

\* The invariant holds when build has returned.
LEMMA InitInv == Init => Inv
<1> SUFFICES ASSUME Init PROVE Inv
  OBVIOUS
<1>1. /\ scenario \in Scenarios /\ life = [th \in Threads |-> IF th \in Workers THEN "alive" ELSE "new"]
      /\ cached = {} /\ first = [th \in Threads |-> "nobody"] /\ roles = [w \in Workers |-> Blocking]
      /\ names = {} /\ flush = Idle /\ clock = 0 /\ past = <<>> /\ trace = <<>>
  BY DEF Init
<1>2. rings \in Seq(Events) /\ \A i \in DOMAIN rings : Fresh(rings[i])
  BY FirstRings DEF OpenedFor
<1>3. Typed
  <2>1. life \in [Threads -> Lives] /\ first \in Resolvers /\ roles \in RoleMaps
          /\ DOMAIN roles = {th \in Threads : HasRole(th)}
    BY <1>1 DEF Lives, Resolvers, RoleMaps, HasRole, Threads
  <2>2. past \in Seq(Elements(past)) /\ trace \in Seq(Elements(trace)) /\ DOMAIN past = {} /\ DOMAIN trace = {}
    BY <1>1
  <2> QED BY <1>1, <1>2, <2>1, <2>2 DEF Typed
<1>4. Owned
  BY <1>1 DEF Owned, OwnRoles, Flushing, Idle, Threads
<1>5. Filled
  <2>1. \A i \in DOMAIN rings : rings[i].unread = <<>> /\ rings[i].ring = EmptyRing /\ DOMAIN rings[i].unread = {}
    BY <1>2 DEF Fresh
  <2> QED BY <2>1, EmptyHolds DEF Filled
<1>6. Seen
  BY <1>1 DEF Seen, Flushing
<1> QED BY <1>3, <1>4, <1>5, <1>6 DEF Inv

\* something more happens: what is numbered stays so
LEMMA PastGrows ==
  ASSUME NEW s, s \in Seq(Elements(s)), NEW e, \A j \in DOMAIN s : s[j].worker \in Somebody, e.worker \in Somebody
  PROVE LET t == Append(s, e)
        IN  /\ t \in Seq(Elements(t)) /\ (\A j \in DOMAIN t : t[j].worker \in Somebody) /\ DOMAIN s \subseteq DOMAIN t
            /\ Len(s) + 1 \in DOMAIN t /\ t[Len(s) + 1] = e /\ (\A j \in DOMAIN s : t[j] = s[j])
            /\ \A record : Numbered(record, s) => Numbered(record, t)
<1> DEFINE t == Append(s, e)
<1>1. /\ t \in Seq(Elements(t)) /\ Len(t) = Len(s) + 1 /\ DOMAIN t = 1 .. Len(s) + 1 /\ DOMAIN s = 1 .. Len(s)
      /\ Len(s) \in Nat /\ (\A i \in 1 .. Len(s) : t[i] = s[i]) /\ t[Len(s) + 1] = e
  BY Extended
<1> HIDE DEF t
<1>2. DOMAIN s \subseteq DOMAIN t /\ Len(s) + 1 \in DOMAIN t /\ \A j \in DOMAIN t : j \in DOMAIN s \/ j = Len(s) + 1
  BY <1>1
<1>3. \A j \in DOMAIN s : t[j] = s[j]
  BY <1>1
<1>4. \A j \in DOMAIN t : t[j].worker \in Somebody
  BY <1>1, <1>2, <1>3
<1>5. \A record : Numbered(record, s) => Numbered(record, t)
  BY <1>2, <1>3 DEF Numbered
<1> QED BY <1>1, <1>2, <1>3, <1>4, <1>5 DEF t

\* Something happens, of some thread.
LEMMA HappensFacts == ASSUME Typed, NEW event, event.worker \in Somebody, Happens(event), "ts" \in DOMAIN event
  PROVE /\ clock' \in Nat /\ past' \in Seq(Elements(past)') /\ (\A j \in DOMAIN past' : past'[j].worker \in Somebody)
        /\ DOMAIN past \subseteq DOMAIN past' /\ Len(past) + 1 \in DOMAIN past'
        /\ past'[Len(past) + 1] = [event EXCEPT !.ts = clock']
        /\ (\A j \in DOMAIN past : past'[j] = past[j])
        /\ \A record : Numbered(record, past) => Numbered(record, past')
<1> DEFINE e == [event EXCEPT !.ts = clock']
<1>1. clock' \in Nat /\ past' = Append(past, e)
  BY DEF Typed, Happens
<1>2. e.worker = event.worker
  OBVIOUS
<1> HIDE DEF e
<1>3. LET t == Append(past, e)
      IN  /\ t \in Seq(Elements(t)) /\ (\A j \in DOMAIN t : t[j].worker \in Somebody) /\ DOMAIN past \subseteq DOMAIN t
          /\ Len(past) + 1 \in DOMAIN t /\ t[Len(past) + 1] = e /\ (\A j \in DOMAIN past : t[j] = past[j])
          /\ \A record : Numbered(record, past) => Numbered(record, t)
  BY <1>2, PastGrows DEF Typed
<1>4. past' \in Seq(Elements(past'))
  BY <1>1, <1>3
<1> QED BY <1>1, <1>3, <1>4 DEF e, Elements

\* A file of events with another one behind it.
LEMMA TraceGrows ==
  ASSUME Typed, NEW entry, trace' = Append(trace, entry), entry.at \in DOMAIN past', DOMAIN past \subseteq DOMAIN past'
  PROVE trace' \in Seq(Elements(trace)') /\ \A i \in DOMAIN trace' : trace'[i].at \in DOMAIN past'
<1>1. LET t == Append(trace, entry)
      IN  /\ t \in Seq(Elements(t)) /\ Len(t) = Len(trace) + 1 /\ DOMAIN t = 1 .. Len(trace) + 1
              /\ DOMAIN trace = 1 .. Len(trace)
          /\ Len(trace) \in Nat /\ (\A i \in 1 .. Len(trace) : t[i] = trace[i]) /\ t[Len(trace) + 1] = entry
  BY Extended DEF Typed
<1>2. \A i \in 1 .. Len(trace) + 1 : i \in 1 .. Len(trace) \/ i = Len(trace) + 1
  BY <1>1
<1>3. trace' \in Seq(Elements(trace'))
  BY <1>1
<1> QED BY <1>1, <1>2, <1>3 DEF Typed, Elements

\* The rings hold what they held, and what was seen in them is there.
LEMMA FilledStays == ASSUME Filled, UNCHANGED rings, \A record : Numbered(record, past) => Numbered(record, past')
        PROVE Filled'
  BY DEF Filled

LEMMA SeenStays == ASSUME Seen, UNCHANGED rings, UNCHANGED flush PROVE Seen'
  BY DEF Seen, Flushing

\* nothing but the roles of live threads
LEMMA WakerFirst == ASSUME Inv, NEW w \in Workers, current_worker_id(w) PROVE Inv'
<1>1. /\ UNCHANGED <<scenario, life, roles, rings, names, flush, clock, past, trace>> /\ w \in Threads
      /\ cached' = cached \union {w} /\ first' = [first EXCEPT ![w] = "waker"] /\ Typed /\ Owned /\ Filled /\ Seen
  BY DEF current_worker_id, Inv, Threads
<1>2. Typed'
  <2>1. first' \in Resolvers /\ cached' \subseteq Workers
    BY <1>1 DEF Typed, Resolvers
  <2> QED BY <1>1, <2>1 DEF Typed, HasRole, Elements
<1>3. Owned'
  <2>1. first \in Resolvers
    BY <1>1 DEF Typed
  <2>2. \A v \in Workers : first'[v] = "hook" => first[v] = "hook"
    BY <1>1, <2>1 DEF Resolvers, Threads
  <2> QED BY <1>1, <2>2 DEF Owned, OwnRoles, Flushing
<1>4. Filled' /\ Seen'
  BY <1>1, FilledStays, SeenStays
<1> QED BY <1>2, <1>3, <1>4 DEF Inv

\* A hook resolves its worker and writes: its role becomes its own if it had none cached.
LEMMA HookRuns == ASSUME Inv, NEW w \in Workers, Hook(w) PROVE Inv'
<1>0. Typed /\ Owned /\ Filled /\ Seen /\ w \in Threads
  BY DEF Inv, Threads
<1>1. /\ UNCHANGED <<scenario, life, rings, names, flush>> /\ life[w] = "alive"
      /\ trace' = Append(trace, [at |-> Len(past) + 1, worker |-> w]) /\ resolve_worker_id(w)
  BY DEF Hook
<1>2. PICK event : event.worker = w /\ "ts" \in DOMAIN event /\ Happens(event)
  BY DEF Hook, make_poll_start, make_poll_end
<1>3. /\ clock' \in Nat /\ past' \in Seq(Elements(past)') /\ (\A j \in DOMAIN past' : past'[j].worker \in Somebody)
      /\ DOMAIN past \subseteq DOMAIN past' /\ Len(past) + 1 \in DOMAIN past'
      /\ \A record : Numbered(record, past) => Numbered(record, past')
  BY <1>0, <1>2, HappensFacts DEF Somebody
<1>4. trace' \in Seq(Elements(trace)') /\ \A i \in DOMAIN trace' : trace'[i].at \in DOMAIN past'
  <2> DEFINE entry == [at |-> Len(past) + 1, worker |-> w]
  <2>1. entry.at \in DOMAIN past'
    BY <1>3
  <2> HIDE DEF entry
  <2> QED BY <1>0, <1>1, <1>3, <2>1, TraceGrows DEF entry
<1>5. w \in DOMAIN roles /\ roles \in RoleMaps /\ first \in Resolvers /\ cached \subseteq Workers
  BY <1>0, <1>1 DEF Typed, HasRole
<1>6. /\ cached' \subseteq Workers /\ first' \in Resolvers /\ roles' \in RoleMaps /\ DOMAIN roles' = DOMAIN roles
      /\ OwnRoles(roles', first')
  <2>1. CASE w \in cached
    BY <1>0, <1>1, <1>5, <2>1 DEF resolve_worker_id, Owned
  <2>2. CASE w \notin cached
    <3>1. /\ roles' = Registered(w, w) /\ first' = [first EXCEPT ![w] = "hook"] /\ cached' = cached \union {w}
      BY <1>1, <2>2 DEF resolve_worker_id
    <3>2. DOMAIN roles' = DOMAIN roles /\ roles'[w] = w /\ \A t \in DOMAIN roles \ {w} : roles'[t] = roles[t]
      BY <1>5, <3>1 DEF Registered
    <3>3. roles' \in RoleMaps
      <4>1. PICK D \in SUBSET Threads : roles \in [D -> Threads \union {Blocking}]
        BY <1>5 DEF RoleMaps
      <4>2. roles' \in [D -> Threads \union {Blocking}]
        BY <1>0, <1>5, <3>1, <4>1 DEF Registered
      <4> QED BY <4>2 DEF RoleMaps
    <3>4. first' \in Resolvers /\ \A v \in Workers \ {w} : first'[v] = first[v]
      BY <1>0, <1>5, <3>1 DEF Resolvers, Threads
    <3>5. OwnRoles(roles', first')
      BY <1>0, <3>2, <3>4 DEF Owned, OwnRoles
    <3> QED BY <1>5, <3>1, <3>2, <3>3, <3>4, <3>5
  <2> QED BY <2>1, <2>2
<1>7. Typed'
  <2>1. life' \in [Threads -> Lives] /\ DOMAIN roles' = {th \in Threads : HasRole(th)'}
    BY <1>0, <1>1, <1>6 DEF Typed, HasRole
  <2>2. rings' \in Seq(Events) /\ names' \subseteq Somebody /\ flush' \in Flushes \union {Idle}
          /\ scenario' \in Scenarios
    BY <1>0, <1>1 DEF Typed
  <2> QED BY <1>3, <1>4, <1>6, <2>1, <2>2 DEF Typed
<1>8. Owned'
  BY <1>0, <1>1, <1>6 DEF Owned, Flushing
<1>9. Filled' /\ Seen'
  BY <1>0, <1>1, <1>3, FilledStays, SeenStays
<1> QED BY <1>7, <1>8, <1>9 DEF Inv

\* A thread that starts is no worker that was resolved: it may get the blocking role.
LEMMA ThreadStarts == ASSUME Inv, NEW th \in Threads, on_thread_start(th) PROVE Inv'
<1>0. Typed /\ Owned /\ Filled /\ Seen
  BY DEF Inv
<1>1. /\ UNCHANGED <<scenario, cached, rings, names, flush, clock, past, trace, first>>
      /\ life[th] = "new" /\ life' = [life EXCEPT ![th] = "starting"] /\ roles' = Registered(th, Blocking)
  BY DEF on_thread_start
<1>2. th \notin Workers
  BY <1>0, <1>1 DEF Owned
<1>3. /\ DOMAIN roles' = DOMAIN roles \union {th} /\ roles'[th] = Blocking
      /\ \A t \in DOMAIN roles' \ {th} : roles'[t] = roles[t] /\ t \in DOMAIN roles
  BY <1>1 DEF Registered
<1>4. roles' \in RoleMaps
  <2>1. PICK D \in SUBSET Threads : roles \in [D -> Threads \union {Blocking}]
    BY <1>0 DEF RoleMaps, Typed
  <2>2. roles' \in [D \union {th} -> Threads \union {Blocking}]
    BY <1>1, <2>1 DEF Registered
  <2> QED BY <2>2 DEF RoleMaps
<1>5. Typed'
  <2>1. life' \in [Threads -> Lives] /\ DOMAIN roles' = {t \in Threads : HasRole(t)'}
    <3>1. life \in [Threads -> Lives] /\ DOMAIN roles = {t \in Threads : HasRole(t)}
      BY <1>0 DEF Typed
    <3>2. life' \in [Threads -> Lives] /\ \A t \in Threads : HasRole(t)' <=> (HasRole(t) \/ t = th)
      BY <1>1, <3>1 DEF HasRole, Lives
    <3> QED BY <1>3, <3>1, <3>2
  <2> QED BY <1>0, <1>1, <1>4, <2>1 DEF Typed, Elements
<1>6. Owned'
  <2>1. OwnRoles(roles', first')
    BY <1>0, <1>1, <1>2, <1>3 DEF Owned, OwnRoles
  <2>2. \A w \in Workers : life'[w] \notin {"new", "starting"}
    BY <1>0, <1>1, <1>2 DEF Owned, Typed, Threads
  <2> QED BY <1>0, <1>1, <2>1, <2>2 DEF Owned, Flushing
<1>7. Filled' /\ Seen'
  BY <1>0, <1>1, FilledStays, SeenStays
<1> QED BY <1>5, <1>6, <1>7 DEF Inv

\* A thread that stops takes its role with it.
LEMMA ThreadStops == ASSUME Inv, NEW th \in Threads, on_thread_stop(th) PROVE Inv'
<1>0. Typed /\ Owned /\ Filled /\ Seen
  BY DEF Inv
<1>1. /\ UNCHANGED <<scenario, cached, rings, names, flush, clock, past, trace, first>>
      /\ life[th] = "alive" /\ life' = [life EXCEPT ![th] = "stopping"] /\ roles' = Restrict(roles, DOMAIN roles \ {th})
  BY DEF on_thread_stop
<1>2. DOMAIN roles' = DOMAIN roles \ {th} /\ \A t \in DOMAIN roles' : roles'[t] = roles[t]
  BY <1>1 DEF Restrict
<1>3. roles' \in RoleMaps
  <2>1. PICK D \in SUBSET Threads : roles \in [D -> Threads \union {Blocking}]
    BY <1>0 DEF RoleMaps, Typed
  <2>2. roles' \in [D \ {th} -> Threads \union {Blocking}]
    BY <1>1, <2>1 DEF Restrict
  <2>3. D \ {th} \in SUBSET Threads
    OBVIOUS
  <2> QED BY <2>2, <2>3 DEF RoleMaps
<1>4. Typed'
  <2>1. life' \in [Threads -> Lives] /\ DOMAIN roles' = {t \in Threads : HasRole(t)'}
    <3>1. life \in [Threads -> Lives] /\ DOMAIN roles = {t \in Threads : HasRole(t)}
      BY <1>0 DEF Typed
    <3>2. life' \in [Threads -> Lives] /\ \A t \in Threads : HasRole(t)' <=> (HasRole(t) /\ t # th)
      BY <1>1, <3>1 DEF HasRole, Lives
    <3> QED BY <1>2, <3>1, <3>2
  <2> QED BY <1>0, <1>1, <1>3, <2>1 DEF Typed, Elements
<1>5. Owned'
  <2>1. OwnRoles(roles', first')
    BY <1>0, <1>1, <1>2 DEF Owned, OwnRoles
  <2>2. \A w \in Workers : life'[w] \notin {"new", "starting"}
    BY <1>0, <1>1 DEF Owned, Typed, Threads
  <2> QED BY <1>0, <1>1, <2>1, <2>2 DEF Owned, Flushing
<1>6. Filled' /\ Seen'
  BY <1>0, <1>1, FilledStays, SeenStays
<1> QED BY <1>4, <1>5, <1>6 DEF Inv

\* the life of a thread goes on, and nothing changes for its role
LEMMA LivesOn == ASSUME Typed, Owned, NEW th \in Threads, NEW next \in Lives, life' = [life EXCEPT ![th] = next],
                        UNCHANGED <<roles, first, flush>>,
                        HasRole(th) <=> next \in {"starting", "alive"}, next \notin {"new", "starting"}
  PROVE life' \in [Threads -> Lives] /\ DOMAIN roles' = {t \in Threads : HasRole(t)'} /\ Owned'
<1>1. life \in [Threads -> Lives] /\ DOMAIN roles = {t \in Threads : HasRole(t)}
  BY DEF Typed
<1>2. life' \in [Threads -> Lives] /\ \A t \in Threads : HasRole(t)' <=> HasRole(t)
  BY <1>1 DEF HasRole
<1>3. \A w \in Workers : life'[w] \notin {"new", "starting"}
  BY <1>1 DEF Owned, Threads
<1>4. DOMAIN roles' = {t \in Threads : HasRole(t)'}
  BY <1>1, <1>2
<1> QED BY <1>2, <1>3, <1>4 DEF Owned, OwnRoles, Flushing

\* An event of the thread's own is opened behind the others.
LEMMA ThreadTracked == ASSUME Inv, NEW th \in Threads, track_current_thread(th) PROVE Inv'
<1>0. Typed /\ Owned /\ Filled /\ Seen
  BY DEF Inv
<1>1. /\ UNCHANGED <<scenario, cached, roles, names, flush, clock, past, trace, first>>
      /\ life[th] = "starting" /\ life' = [life EXCEPT ![th] = "alive"]
  BY DEF track_current_thread
<1>2. PICK opened \in open_perf_event(SchedEvents, <<th>>) : rings' = rings \o opened
  BY DEF track_current_thread
<1>3. opened \in Seq(Events) /\ \A i \in DOMAIN opened : Fresh(opened[i])
  <2>1. SchedEvents \in Configs /\ <<th>> \in Seq({th}) /\ {th} \in SUBSET Owners
    BY <1>0 DEF Configs, SchedEvents, Owners, Typed
  <2> QED BY <2>1, Opened DEF OpenedFor
<1>4. /\ rings' \in Seq(Events) /\ Len(rings') = Len(rings) + Len(opened) /\ rings \in Seq(Events)
      /\ \A i \in 1 .. Len(rings) : rings'[i] = rings[i]
      /\ \A i \in Len(rings) + 1 .. Len(rings) + Len(opened) : rings'[i] = opened[i - Len(rings)]
  <2>1. rings \in Seq(Events)
    BY <1>0 DEF Typed
  <2> QED BY <1>2, <1>3, <2>1, Joined
<1>5. life' \in [Threads -> Lives] /\ DOMAIN roles' = {t \in Threads : HasRole(t)'} /\ Owned'
  BY <1>0, <1>1, LivesOn, "alive" \in Lives DEF HasRole, Lives
<1>6. Typed'
  BY <1>0, <1>1, <1>4, <1>5 DEF Typed, Elements
<1>7. Filled'
  <2>1. ASSUME NEW i \in DOMAIN rings'
        PROVE Holds(rings'[i].ring, rings'[i].unread)
                /\ \A n \in DOMAIN rings'[i].unread : Numbered(rings'[i].unread[n], past')
    <3>1. Len(rings) \in Nat /\ Len(opened) \in Nat /\ i \in 1 .. Len(rings) + Len(opened)
      BY <1>3, <1>4
    <3>2. CASE i <= Len(rings)
      <4>1. i \in DOMAIN rings /\ rings'[i] = rings[i]
        BY <1>4, <3>1, <3>2
      <4> QED BY <1>0, <1>1, <4>1 DEF Filled
    <3>3. CASE i > Len(rings)
      <4>1. i - Len(rings) \in DOMAIN opened /\ rings'[i] = opened[i - Len(rings)]
        BY <1>3, <1>4, <3>1, <3>3
      <4>2. rings'[i].ring = EmptyRing /\ rings'[i].unread = <<>> /\ DOMAIN <<>> = {}
        BY <1>3, <4>1 DEF Fresh
      <4> QED BY <4>2, EmptyHolds
    <3> QED BY <3>1, <3>2, <3>3
  <2> QED BY <2>1 DEF Filled
<1>8. Seen'
  <2>1. Flushing /\ flush.got => flush.ring \in DOMAIN rings' /\ rings'[flush.ring] = rings[flush.ring]
    <3>1. DOMAIN rings = 1 .. Len(rings) /\ Len(rings) \in Nat /\ DOMAIN rings' = 1 .. Len(rings) + Len(opened)
            /\ Len(opened) \in Nat
      BY <1>3, <1>4
    <3> QED BY <1>0, <1>4, <3>1 DEF Seen
  <2> QED BY <1>0, <1>1, <2>1 DEF Seen, Flushing
<1> QED BY <1>5, <1>6, <1>7, <1>8 DEF Inv

\* The events of a thread's own are never found: they are not under its id.
LEMMA NothingTracked == ASSUME Typed, NEW th \in Threads, stop_tracking_current_thread(th) PROVE rings' = rings
<1>1. \A i \in DOMAIN rings : rings[i].tid = "0"
  <2>1. rings \in Seq(Events) /\ \A e \in Events : e.tid = "0"
    BY DEF Typed, Events
  <2> HIDE DEF Events
  <2>2. \A i \in DOMAIN rings : rings[i] \in Events
    BY <2>1
  <2> QED BY <2>1, <2>2
<1>2. th # "0"
  BY ProfilerAssumption
<1>3. {i \in DOMAIN rings : ~OfProcess(rings[i]) /\ rings[i].tid = th} = {}
  BY <1>1, <1>2
<1> QED BY <1>3 DEF stop_tracking_current_thread

LEMMA ThreadUntracked == ASSUME Inv, NEW th \in Threads, stop_tracking_current_thread(th) PROVE Inv'
<1>0. Typed /\ Owned /\ Filled /\ Seen
  BY DEF Inv
<1>1. /\ UNCHANGED <<scenario, cached, roles, names, flush, clock, past, trace, first>>
      /\ life[th] = "stopping" /\ life' = [life EXCEPT ![th] = "ended"]
  BY DEF stop_tracking_current_thread
<1>2. rings' = rings
  BY <1>0, NothingTracked
<1>3. life' \in [Threads -> Lives] /\ DOMAIN roles' = {t \in Threads : HasRole(t)'} /\ Owned'
  BY <1>0, <1>1, LivesOn, "ended" \in Lives DEF HasRole, Lives
<1>4. Typed'
  BY <1>0, <1>1, <1>2, <1>3 DEF Typed, Elements
<1>5. Filled' /\ Seen'
  BY <1>0, <1>1, <1>2, FilledStays, SeenStays
<1> QED BY <1>3, <1>4, <1>5 DEF Inv

-----------------------------------------------------------------------------
(* The flush thread *)

\* the reader goes on, and the rest stays
LEMMA ReaderGoesOn == ASSUME Inv, UNCHANGED <<scenario, life, cached, roles, rings, names, clock, past, trace, first>>,
                             flush' \in Flushes \union {Idle}, Flushing' => OwnRoles(flush'.roles, flush'.first), Seen'
  PROVE Inv'
<1>0. Typed /\ Owned /\ Filled
  BY DEF Inv
<1>1. Typed'
  BY <1>0 DEF Typed, HasRole, Elements
<1>2. Owned'
  BY <1>0 DEF Owned, OwnRoles
<1>3. Filled'
  BY <1>0, FilledStays
<1> QED BY <1>1, <1>2, <1>3 DEF Inv

\* The flush begins with a copy of the roles,
LEMMA FlushStarts == ASSUME Inv, flush_cpu PROVE Inv'
<1>1. /\ UNCHANGED <<scenario, life, cached, roles, rings, names, clock, past, trace, first>>
      /\ flush' = [roles |-> roles, ring |-> 1, got |-> FALSE, first |-> first]
  BY DEF flush_cpu
<1>2. flush' \in Flushes
  BY <1>1 DEF Flushes, Inv, Typed
<1>3. OwnRoles(flush'.roles, flush'.first)
  BY <1>1 DEF Inv, Owned
<1>4. Seen'
  BY <1>1 DEF Seen
<1> QED BY <1>1, <1>2, <1>3, <1>4, ReaderGoesOn

LEMMA FlushesAre == ASSUME Typed, Flushing PROVE flush \in Flushes
  BY DEF Typed, Flushing

\* sees a record only where one is,
LEMMA RecordSeen == ASSUME Inv, for_each_record PROVE Inv'
<1>1. /\ UNCHANGED <<scenario, life, cached, roles, rings, names, clock, past, trace, first>>
      /\ flush' = [flush EXCEPT !.got = TRUE] /\ flush.ring <= Len(rings) /\ has_data(rings[flush.ring].ring)
            /\ Flushing
  BY DEF for_each_record
<1>2. flush \in Flushes /\ rings \in Seq(Events)
  BY <1>1, FlushesAre DEF Inv, Typed
<1>3. flush' \in Flushes /\ flush'.roles = flush.roles /\ flush'.first = flush.first /\ flush'.ring = flush.ring
  BY <1>1, <1>2 DEF Flushes
<1>4. flush.ring \in DOMAIN rings
  BY <1>1, <1>2 DEF Flushes
<1>5. rings[flush.ring].unread # <<>>
  <2>1. Holds(rings[flush.ring].ring, rings[flush.ring].unread)
    BY <1>4 DEF Inv, Filled
  <2> QED BY <1>1, <2>1, NothingThere
<1>6. Seen'
  BY <1>1, <1>3, <1>4, <1>5 DEF Seen
<1>7. OwnRoles(flush'.roles, flush'.first)
  BY <1>1, <1>3 DEF Inv, Owned
<1> QED BY <1>1, <1>3, <1>6, <1>7, ReaderGoesOn

\* and leaves a ring for the next, or ends.
LEMMA RingDone == ASSUME Inv, NextRing PROVE Inv'
<1>1. /\ UNCHANGED <<scenario, life, cached, roles, rings, names, clock, past, trace, first>> /\ Flushing /\ ~flush.got
      /\ flush' = IF flush.ring < Len(rings) THEN [flush EXCEPT !.ring = @ + 1] ELSE Idle
  BY DEF NextRing
<1>2. flush \in Flushes
  BY <1>1, FlushesAre DEF Inv, Typed
<1>3. CASE flush.ring < Len(rings)
  <2>1. /\ flush' \in Flushes /\ flush'.roles = flush.roles /\ flush'.first = flush.first /\ ~flush'.got
    BY <1>1, <1>2, <1>3 DEF Flushes
  <2>2. OwnRoles(flush'.roles, flush'.first)
    BY <1>1, <2>1 DEF Inv, Owned
  <2>3. Seen'
    BY <2>1 DEF Seen
  <2> QED BY <1>1, <2>1, <2>2, <2>3, ReaderGoesOn
<1>4. CASE ~(flush.ring < Len(rings))
  <2>1. flush' = Idle /\ ~Flushing'
    BY <1>1, <1>4 DEF Flushing
  <2>2. Seen'
    BY <2>1 DEF Seen
  <2> QED BY <1>1, <2>1, <2>2, ReaderGoesOn
<1> QED BY <1>3, <1>4

\* A call chain is a sequence of addresses.
LEMMA ChainOf == ASSUME NEW stack, stack.kernel \in Seq(Nat), stack.program \in Seq(Nat) PROVE Chain(stack) \in Seq(Nat)
<1> DEFINE marked(part) == IF part = <<>> THEN <<>> ELSE <<PERF_CONTEXT_MAX>> \o part
<1>1. ASSUME NEW part \in Seq(Nat) PROVE marked(part) \in Seq(Nat)
  <2>1. <<PERF_CONTEXT_MAX>> \in Seq(Nat) /\ <<>> \in Seq(Nat)
    BY DEF PERF_CONTEXT_MAX
  <2> QED BY <2>1, Joined
<1> HIDE DEF marked
<1>2. PICK k \in Seq(Nat), p \in Seq(Nat) : k = marked(stack.kernel) /\ p = marked(stack.program)
  BY <1>1
<1>3. <<0>> \in Seq(Nat)
  OBVIOUS
<1>4. k \o p \in Seq(Nat)
  BY Joined
<1>5. (k \o p) \o <<0>> \in Seq(Nat)
  BY <1>3, <1>4, Joined
<1> QED BY <1>2, <1>5 DEF Chain, marked

\* a record without its first cell
LEMMA TailOf == ASSUME NEW S, NEW s \in Seq(S), Len(s) >= 2
        PROVE Tail(s) \in Seq(S) /\ Tail(s)[1] = s[2] /\ Tail(s) # <<>>
<1>1. Len(s) \in Nat /\ Tail(s) \in Seq(S) /\ Len(Tail(s)) = Len(s) - 1
        /\ \A i \in 1 .. Len(s) - 1 : Tail(s)[i] = s[i + 1]
  OBVIOUS
<1>2. 1 \in 1 .. Len(s) - 1 /\ Len(Tail(s)) # 0 /\ 1 + 1 = 2
  BY <1>1
<1>3. Tail(s) # <<>>
  <2>1. Len(<<>>) = 0
    OBVIOUS
  <2> QED BY ONLY <1>2, <2>1, Zenon
<1> QED BY <1>1, <1>2, <1>3

\* what the kernel writes of a sample
LEMMA RecordOf == ASSUME NEW raw \in Seq(Nat), NEW chain \in Seq(Nat), NEW number \in Nat
  PROVE LET record == <<Len(raw) + Len(chain) + 3, number, Len(chain)>> \o chain \o raw
        IN  /\ record \in Seq(Int) /\ Len(record) >= 1 /\ record[1] = Len(record)
            /\ Tail(record) \in Seq(Int) /\ Tail(record) # <<>> /\ Tail(record)[1] = number
<1> DEFINE head == <<Len(raw) + Len(chain) + 3, number, Len(chain)>>
           record == head \o chain \o raw
<1>1. Len(raw) \in Nat /\ Len(chain) \in Nat /\ raw \in Seq(Int) /\ chain \in Seq(Int)
  OBVIOUS
<1>2. head \in Seq(Int) /\ Len(head) = 3 /\ head[1] = Len(raw) + Len(chain) + 3 /\ head[2] = number
  BY <1>1
<1> HIDE DEF head
<1>3. PICK front \in Seq(Int) : front = head \o chain /\ Len(front) = 3 + Len(chain) /\ front[1] = head[1]
        /\ front[2] = head[2]
  <2>1. /\ head \o chain \in Seq(Int) /\ Len(head \o chain) = Len(head) + Len(chain)
        /\ \A i \in 1 .. Len(head) : (head \o chain)[i] = head[i]
    BY <1>1, <1>2, Joined
  <2>2. 1 \in 1 .. 3 /\ 2 \in 1 .. 3
    OBVIOUS
  <2> QED BY <1>2, <2>1, <2>2
<1>4. PICK whole \in Seq(Int) : whole = front \o raw /\ Len(whole) = 3 + Len(chain) + Len(raw)
        /\ whole[1] = front[1] /\ whole[2] = front[2]
  <2>1. /\ front \o raw \in Seq(Int) /\ Len(front \o raw) = Len(front) + Len(raw)
        /\ \A i \in 1 .. Len(front) : (front \o raw)[i] = front[i]
    <3>1. front \in Seq(Int) /\ raw \in Seq(Int)
      BY <1>1
    <3> QED BY ONLY <3>1, Joined
  <2>2. 1 \in 1 .. Len(front) /\ 2 \in 1 .. Len(front)
    BY <1>1, <1>3
  <2> QED BY <1>3, <2>1, <2>2
<1>5. Tail(whole) \in Seq(Int) /\ Tail(whole)[1] = whole[2] /\ Tail(whole) # <<>>
  <2>1. Len(whole) >= 2
    BY <1>1, <1>4
  <2> QED BY ONLY <2>1, whole \in Seq(Int), TailOf
<1>6. record = whole
  BY <1>3, <1>4
<1> QED BY <1>1, <1>2, <1>3, <1>4, <1>5, <1>6 DEF head

\* All that a sample holds are numbers.
LEMMA NumbersAre == ASSUME NEW A, A \subseteq Nat, NEW s \in Seq(A) PROVE s \in Seq(Nat)
<1>1. Len(s) \in Nat /\ DOMAIN s = 1 .. Len(s) /\ s = [i \in 1 .. Len(s) |-> s[i]] /\ \A i \in 1 .. Len(s) : s[i] \in A
  OBVIOUS
<1>2. s \in [1 .. Len(s) -> Nat]
  BY <1>1
<1> QED BY <1>1, <1>2, AsSeq

LEMMA SampledAre == ASSUME scenario \in Scenarios, NEW stack \in scenario.stacks
  PROVE /\ stack.kernel \in Seq(KernelAddresses) /\ stack.program \in Seq(ProgramAddresses)
        /\ stack.kernel \in Seq(Nat) /\ stack.program \in Seq(Nat)
        /\ \A raw \in scenario.raws \union {<<>>} : raw \in Seq(0 .. Byte - 1) /\ raw \in Seq(Nat)
<1>1. /\ scenario.raws \subseteq Seq(0 .. Byte - 1)
      /\ stack.kernel \in Seq(KernelAddresses) /\ stack.program \in Seq(ProgramAddresses)
  BY ProfilerAssumption
<1>2. KernelAddresses \subseteq Nat /\ ProgramAddresses \subseteq Nat /\ 0 .. Byte - 1 \subseteq Nat
  BY DEF KernelAddresses, ProgramAddresses, PERF_CONTEXT_MAX, USER_ADDR_LIMIT
<1>3. stack.kernel \in Seq(Nat) /\ stack.program \in Seq(Nat)
  BY <1>1, <1>2, NumbersAre
<1>4. ASSUME NEW raw \in scenario.raws \union {<<>>} PROVE raw \in Seq(0 .. Byte - 1) /\ raw \in Seq(Nat)
  <2> DEFINE B == 0 .. Byte - 1
  <2> HIDE DEF B
  <2>1. raw \in Seq(B)
    <3>1. raw \in scenario.raws \/ raw = <<>>
      OBVIOUS
    <3>2. scenario.raws \subseteq Seq(B) /\ <<>> \in Seq(B)
      BY <1>1 DEF B
    <3> QED BY <3>1, <3>2
  <2> QED BY <1>2, <2>1, NumbersAre DEF B
<1> QED BY <1>1, <1>3, <1>4

\* a sample of a thread, into the ring of an event
Sampling(i, th, child, stack, raw, record) ==
    /\ record = <<Len(raw) + Len(Chain(stack)) + 3, Len(past) + 1, Len(Chain(stack))>> \o Chain(stack) \o raw
    /\ Fits(rings[i].ring, record)
    /\ Happens([kind |-> "CpuSample", ts |-> 0, worker |-> th, child |-> child, raw |-> raw,
                stack |-> stack, source |-> IF OfProcess(rings[i]) THEN "CpuProfile" ELSE "SchedEvent"])
    /\ rings' = [rings EXCEPT ![i].ring = kernel_write(@, record), ![i].unread = Append(@, Tail(record))]

LEMMA SampleIs == ASSUME Sample
  PROVE \E i \in DOMAIN rings, th \in Threads \union {Starter}, child \in BOOLEAN, stack \in scenario.stacks,
           raw \in scenario.raws \union {<<>>} :
           \E record : Sampling(i, th, child, stack, raw, record)
<1>1. PICK i \in DOMAIN rings, th \in Threads \union {Starter}, child \in BOOLEAN, stack \in scenario.stacks :
         LET attr == build_attr(rings[i].config)
         IN  \E raw \in IF attr.raw THEN scenario.raws ELSE {<<>>} :
            LET record == <<Len(raw) + Len(Chain(stack)) + 3, Len(past) + 1, Len(Chain(stack))>> \o Chain(stack) \o raw
            IN  /\ th # Starter => life[th] \notin {"new", "ended"}
                /\ rings[i].owner \in {Everyone, th} /\ (child => attr.inherit)
                /\ attr.exclude_kernel => stack.kernel = <<>>
                /\ Fits(rings[i].ring, record)
                /\ Happens([kind |-> "CpuSample", ts |-> 0, worker |-> th, child |-> child, raw |-> raw,
                            stack |-> stack, source |-> IF OfProcess(rings[i]) THEN "CpuProfile" ELSE "SchedEvent"])
                /\ rings' = [rings EXCEPT ![i].ring = kernel_write(@, record), ![i].unread = Append(@, Tail(record))]
  BY Zenon DEF Sample
<1>2. PICK raw \in IF build_attr(rings[i].config).raw THEN scenario.raws ELSE {<<>>} :
         \E record : Sampling(i, th, child, stack, raw, record)
  BY <1>1 DEF Sampling
<1>3. raw \in scenario.raws \union {<<>>}
  BY <1>2
<1> QED BY <1>2, <1>3

\* The kernel takes a sample: its ring holds one record more.
LEMMA SampleTaken == ASSUME Inv, Sample PROVE Inv'
<1>0. Typed /\ Owned /\ Filled /\ Seen
  BY DEF Inv
<1>1. UNCHANGED <<scenario, life, cached, roles, names, flush, trace, first>>
  BY DEF Sample
<1>2. PICK i \in DOMAIN rings, th \in Threads \union {Starter}, child \in BOOLEAN, stack \in scenario.stacks,
           raw \in scenario.raws \union {<<>>} :
           \E record : Sampling(i, th, child, stack, raw, record)
  BY SampleIs
<1>3. PICK record : Sampling(i, th, child, stack, raw, record)
  BY <1>2
<1>4. /\ record = <<Len(raw) + Len(Chain(stack)) + 3, Len(past) + 1, Len(Chain(stack))>> \o Chain(stack) \o raw
      /\ Fits(rings[i].ring, record)
      /\ Happens([kind |-> "CpuSample", ts |-> 0, worker |-> th, child |-> child, raw |-> raw,
                  stack |-> stack, source |-> IF OfProcess(rings[i]) THEN "CpuProfile" ELSE "SchedEvent"])
      /\ rings' = [rings EXCEPT ![i].ring = kernel_write(@, record), ![i].unread = Append(@, Tail(record))]
  BY <1>3 DEF Sampling
<1>5. raw \in Seq(Nat) /\ stack.kernel \in Seq(Nat) /\ stack.program \in Seq(Nat)
  <2>1. scenario \in Scenarios
    BY <1>0 DEF Typed
  <2> QED BY <2>1, SampledAre
<1>6. Len(past) + 1 \in Nat
  <2>1. past \in Seq(Elements(past))
    BY <1>0 DEF Typed
  <2> QED BY <2>1
<1>7. /\ record \in Seq(Int) /\ Len(record) >= 1 /\ record[1] = Len(record)
      /\ Tail(record) \in Seq(Int) /\ Tail(record) # <<>> /\ Tail(record)[1] = Len(past) + 1
  <2>1. Chain(stack) \in Seq(Nat)
    BY <1>5, ChainOf
  <2> QED BY <1>4, <1>5, <1>6, <2>1, RecordOf
<1>8. PICK event : /\ event.worker = th /\ event.kind = "CpuSample" /\ "ts" \in DOMAIN event /\ Happens(event)
                   /\ [event EXCEPT !.ts = clock'].kind = "CpuSample"
  BY <1>4
<1>9. /\ clock' \in Nat /\ past' \in Seq(Elements(past)') /\ (\A j \in DOMAIN past' : past'[j].worker \in Somebody)
      /\ DOMAIN past \subseteq DOMAIN past' /\ Len(past) + 1 \in DOMAIN past'
      /\ past'[Len(past) + 1].kind = "CpuSample"
      /\ \A r : Numbered(r, past) => Numbered(r, past')
  BY <1>0, <1>8, HappensFacts DEF Somebody
<1>10. /\ rings \in Seq(Events) /\ rings[i] \in Events /\ Holds(rings[i].ring, rings[i].unread)
      /\ \A n \in DOMAIN rings[i].unread : Numbered(rings[i].unread[n], past)
  BY <1>0 DEF Typed, Filled
<1>11. PICK ring, unread : /\ ring = kernel_write(rings[i].ring, record)
        /\ unread = Append(rings[i].unread, Tail(record))
                           /\ Holds(ring, unread)
  <2>1. record \in Seq(Int) /\ Len(record) >= 1 /\ record[1] = Len(record) /\ Fits(rings[i].ring, record)
          /\ Holds(rings[i].ring, rings[i].unread)
    BY <1>4, <1>7, <1>10
  <2>2. Holds(kernel_write(rings[i].ring, record), Append(rings[i].unread, Tail(record)))
    BY ONLY <2>1, KernelAdds
  <2> QED BY <2>2
<1>12. /\ rings' \in Seq(Events) /\ DOMAIN rings' = DOMAIN rings
       /\ rings'[i].ring = ring /\ rings'[i].unread = unread /\ \A j \in DOMAIN rings \ {i} : rings'[j] = rings[j]
  <2>1. ring \in Rings /\ unread \in Seq(Seq(Int))
    BY <1>11 DEF Holds
  <2>2. rings' = [rings EXCEPT ![i] = [rings[i] EXCEPT !.ring = ring, !.unread = unread]]
    BY <1>4, <1>10, <1>11 DEF Events
  <2>3. PICK e \in Events : e = [rings[i] EXCEPT !.ring = ring, !.unread = unread] /\ e.ring = ring /\ e.unread = unread
    <3> DEFINE x == rings[i]
    <3>1. x \in Events
      BY <1>10
    <3> HIDE DEF x
    <3>2. [x EXCEPT !.ring = ring, !.unread = unread] \in Events
      BY <2>1, <3>1 DEF Events
    <3>3. [x EXCEPT !.ring = ring, !.unread = unread].ring = ring
            /\ [x EXCEPT !.ring = ring, !.unread = unread].unread = unread
      BY <3>1 DEF Events
    <3> QED BY <3>2, <3>3 DEF x
  <2> HIDE DEF Events
  <2>4. rings' = [rings EXCEPT ![i] = e]
    BY <2>2, <2>3
  <2>5. [rings EXCEPT ![i] = e] \in Seq(Events) /\ DOMAIN [rings EXCEPT ![i] = e] = DOMAIN rings
    BY <1>10
  <2> QED BY <1>10, <2>3, <2>4, <2>5
<1>13. \A n \in DOMAIN unread : Numbered(unread[n], past')
  <2>1. Numbered(Tail(record), past')
    BY <1>7, <1>9 DEF Numbered
  <2>2. rings[i].unread \in Seq(Seq(Int))
    BY <1>10 DEF Holds
  <2> DEFINE Rec == Seq(Int)
  <2> HIDE DEF Rec
  <2>3. rings[i].unread \in Seq(Rec) /\ Tail(record) \in Rec
    BY <1>7, <2>2 DEF Rec
  <2>4. /\ DOMAIN unread = 1 .. Len(rings[i].unread) + 1 /\ unread[Len(rings[i].unread) + 1] = Tail(record)
        /\ DOMAIN rings[i].unread = 1 .. Len(rings[i].unread) /\ Len(rings[i].unread) \in Nat
        /\ \A n \in 1 .. Len(rings[i].unread) : unread[n] = rings[i].unread[n]
    BY <1>11, <2>3, Appended
  <2> TAKE n \in DOMAIN unread
  <2>5. n \in DOMAIN rings[i].unread \/ n = Len(rings[i].unread) + 1
    BY <2>4
  <2> QED BY <1>9, <1>10, <2>1, <2>4, <2>5
<1>14. Filled'
  <2>1. ASSUME NEW j \in DOMAIN rings'
        PROVE Holds(rings'[j].ring, rings'[j].unread)
                /\ \A n \in DOMAIN rings'[j].unread : Numbered(rings'[j].unread[n], past')
    <3>1. CASE j = i
      BY <1>11, <1>12, <1>13, <3>1
    <3>2. CASE j # i
      <4>1. j \in DOMAIN rings /\ rings'[j] = rings[j]
        BY <1>12, <3>2
      <4> QED BY <1>0, <1>9, <4>1 DEF Filled
    <3> QED BY <3>1, <3>2
  <2> QED BY <2>1 DEF Filled
<1>15. Seen'
  <2>1. unread # <<>>
    <3>1. Len(unread) = Len(rings[i].unread) + 1 /\ Len(rings[i].unread) \in Nat /\ Len(<<>>) = 0
      <4> DEFINE Rec == Seq(Int)
      <4> HIDE DEF Rec
      <4>1. rings[i].unread \in Seq(Rec) /\ Tail(record) \in Rec
        BY <1>7, <1>10 DEF Rec, Holds
      <4> QED BY <1>11, <4>1
    <3> QED BY <3>1
  <2> QED BY <1>0, <1>1, <1>12, <2>1 DEF Seen, Flushing
<1>16. Typed'
  <2>1. \A k \in DOMAIN trace' : trace'[k].at \in DOMAIN past'
    BY <1>0, <1>1, <1>9 DEF Typed
  <2>2. trace' \in Seq(Elements(trace)')
    BY <1>0, <1>1 DEF Typed, Elements
  <2>3. life' \in [Threads -> Lives] /\ DOMAIN roles' = {t \in Threads : HasRole(t)'}
    BY <1>0, <1>1 DEF Typed, HasRole
  <2> QED BY <1>0, <1>1, <1>9, <1>12, <2>1, <2>2, <2>3 DEF Typed
<1>17. Owned'
  BY <1>0, <1>1 DEF Owned, OwnRoles, Flushing
<1> QED BY <1>14, <1>15, <1>16, <1>17 DEF Inv

\* What for_each_sample writes, if anything, is a sample the ring held first, and as the
\* worker that the roles taken at the start of the flush name.
LEMMA SampleRead == ASSUME Inv, for_each_sample
  PROVE /\ flush \in Flushes /\ flush' = [flush EXCEPT !.got = FALSE] /\ Flushing
        /\ flush.ring \in DOMAIN rings /\ rings[flush.ring].unread # <<>>
        /\ Numbered(rings[flush.ring].unread[1], past)
        /\ \/ UNCHANGED trace
           \/ \E entry : /\ trace' = Append(trace, entry) /\ entry.at = rings[flush.ring].unread[1][1]
                         /\ entry.worker = resolve(past[entry.at].worker)
<1>1. flush' = [flush EXCEPT !.got = FALSE] /\ Flushing /\ flush.got /\ Typed /\ Filled /\ Seen
  BY DEF for_each_sample, Inv
<1>2. flush \in Flushes /\ flush.ring \in DOMAIN rings /\ rings[flush.ring].unread # <<>>
  BY <1>1, FlushesAre DEF Seen
<1> DEFINE event == rings[flush.ring]
           sample == Parsed(body(event.ring), event.config)
<1>3. Holds(event.ring, event.unread) /\ 1 \in DOMAIN event.unread
  <2>1. Holds(event.ring, event.unread)
    BY <1>1, <1>2 DEF Filled
  <2>2. event.unread \in Seq(Seq(Int))
    BY <2>1 DEF Holds
  <2> DEFINE Rec == Seq(Int)
  <2> HIDE DEF Rec
  <2>3. event.unread \in Seq(Rec)
    BY <2>2 DEF Rec
  <2>4. 1 \in DOMAIN event.unread
    BY <1>2, <2>3
  <2> QED BY <2>1, <2>4
<1>4. body(event.ring) = event.unread[1] /\ Numbered(event.unread[1], past)
  BY <1>1, <1>2, <1>3, ReaderTakes DEF Filled
<1>5. sample.at = event.unread[1][1]
  BY <1>4 DEF Parsed
<1>6. \A name : /\ Attributed(sample, name).at = sample.at
                /\ Attributed(sample, name).worker = resolve(past[sample.at].worker)
  BY DEF Attributed
<1>7. UNCHANGED trace \/ \E name : trace' = Append(trace, Attributed(sample, name))
  <2>1. IF OfProcess(event) THEN CpuProfiler_drain(sample) ELSE SchedProfiler_drain(sample)
    BY DEF for_each_sample
  <2> HIDE DEF event, sample
  <2> QED BY <2>1 DEF CpuProfiler_drain, SchedProfiler_drain
<1>8. UNCHANGED trace
      \/ \E entry : /\ trace' = Append(trace, entry) /\ entry.at = event.unread[1][1]
                    /\ entry.worker = resolve(past[entry.at].worker)
  <2>1. CASE UNCHANGED trace
    BY <2>1
  <2>2. CASE \E name : trace' = Append(trace, Attributed(sample, name))
    <3>1. PICK name : trace' = Append(trace, Attributed(sample, name))
      BY <2>2
    <3>2. PICK entry : entry = Attributed(sample, name)
      OBVIOUS
    <3>3. entry.at = event.unread[1][1] /\ entry.worker = resolve(past[entry.at].worker)
      BY <1>5, <1>6, <3>2
    <3> QED BY <3>1, <3>2, <3>3
  <2> QED BY <1>7, <2>1, <2>2
<1> QED BY <1>1, <1>2, <1>4, <1>8

\* A record is read, written and its space given back: its ring holds one record less.
LEMMA SampleWritten == ASSUME Inv, for_each_sample PROVE Inv'
<1>0. Typed /\ Owned /\ Filled /\ Seen
  BY DEF Inv
<1>1. /\ UNCHANGED <<scenario, life, cached, roles, clock, past, first>>
      /\ rings' = [rings EXCEPT ![flush.ring].ring = write_tail(@), ![flush.ring].unread = Tail(@)]
  BY DEF for_each_sample
<1>2. /\ flush \in Flushes /\ flush' = [flush EXCEPT !.got = FALSE] /\ Flushing
      /\ flush.ring \in DOMAIN rings /\ rings[flush.ring].unread # <<>>
      /\ Numbered(rings[flush.ring].unread[1], past)
      /\ \/ UNCHANGED trace
         \/ \E entry : /\ trace' = Append(trace, entry) /\ entry.at = rings[flush.ring].unread[1][1]
                       /\ entry.worker = resolve(past[entry.at].worker)
  BY SampleRead
<1>3. PICK i \in DOMAIN rings : i = flush.ring
  BY <1>2
<1>4. rings \in Seq(Events) /\ rings[i] \in Events /\ Holds(rings[i].ring, rings[i].unread)
  BY <1>0 DEF Typed, Filled
<1>5. PICK ring, unread : ring = write_tail(rings[i].ring) /\ unread = Tail(rings[i].unread) /\ Holds(ring, unread)
  BY <1>2, <1>3, <1>4, ReaderTakes
<1>6. /\ rings' \in Seq(Events) /\ DOMAIN rings' = DOMAIN rings
      /\ rings'[i].ring = ring /\ rings'[i].unread = unread /\ \A j \in DOMAIN rings \ {i} : rings'[j] = rings[j]
  <2>1. ring \in Rings /\ unread \in Seq(Seq(Int))
    BY <1>5 DEF Holds
  <2>2. rings' = [rings EXCEPT ![i] = [rings[i] EXCEPT !.ring = ring, !.unread = unread]]
    BY <1>1, <1>3, <1>4, <1>5 DEF Events
  <2>3. PICK e \in Events : e = [rings[i] EXCEPT !.ring = ring, !.unread = unread] /\ e.ring = ring /\ e.unread = unread
    <3> DEFINE x == rings[i]
    <3>1. x \in Events
      BY <1>4
    <3> HIDE DEF x
    <3>2. [x EXCEPT !.ring = ring, !.unread = unread] \in Events
      BY <2>1, <3>1 DEF Events
    <3>3. [x EXCEPT !.ring = ring, !.unread = unread].ring = ring
            /\ [x EXCEPT !.ring = ring, !.unread = unread].unread = unread
      BY <3>1 DEF Events
    <3> QED BY <3>2, <3>3 DEF x
  <2> HIDE DEF Events
  <2>4. rings' = [rings EXCEPT ![i] = e]
    BY <2>2, <2>3
  <2>5. [rings EXCEPT ![i] = e] \in Seq(Events) /\ DOMAIN [rings EXCEPT ![i] = e] = DOMAIN rings
    BY <1>4
  <2> QED BY <1>4, <2>3, <2>4, <2>5
<1>7. Filled'
  <2>1. \A n \in DOMAIN unread : Numbered(unread[n], past)
    <3> DEFINE Rec == Seq(Int)
    <3>1. rings[i].unread \in Seq(Rec)
      BY <1>4 DEF Holds
    <3> HIDE DEF Rec
    <3>2. rings[i].unread # <<>>
      BY <1>2, <1>3
    <3>3. \A n \in DOMAIN unread : unread[n] = rings[i].unread[n + 1] /\ n + 1 \in DOMAIN rings[i].unread
      BY <1>5, <3>1, <3>2
    <3> QED BY <1>0, <3>3 DEF Filled
  <2>2. ASSUME NEW j \in DOMAIN rings'
        PROVE Holds(rings'[j].ring, rings'[j].unread)
                /\ \A n \in DOMAIN rings'[j].unread : Numbered(rings'[j].unread[n], past')
    <3>1. CASE j = i
      BY <1>1, <1>5, <1>6, <2>1, <3>1
    <3>2. CASE j # i
      <4>1. j \in DOMAIN rings /\ rings'[j] = rings[j]
        BY <1>6, <3>2
      <4> QED BY <1>0, <1>1, <4>1 DEF Filled
    <3> QED BY <3>1, <3>2
  <2> QED BY <2>2 DEF Filled
<1>8. flush' \in Flushes /\ flush'.roles = flush.roles /\ flush'.first = flush.first /\ ~flush'.got
  BY <1>2 DEF Flushes
<1>9. names' \subseteq Somebody
  <2>1. \A s : CpuProfiler_drain(s) => names' \subseteq Somebody
    BY <1>0 DEF CpuProfiler_drain, read_thread_name, Somebody, Typed
  <2>2. \A s : SchedProfiler_drain(s) => names' \subseteq Somebody
    BY <1>0 DEF SchedProfiler_drain, Typed
  <2>3. \E s : CpuProfiler_drain(s) \/ SchedProfiler_drain(s)
    BY DEF for_each_sample
  <2> QED BY <2>1, <2>2, <2>3
<1>10. trace' \in Seq(Elements(trace)') /\ \A k \in DOMAIN trace' : trace'[k].at \in DOMAIN past'
  <2>1. CASE UNCHANGED trace
    BY <1>0, <1>1, <2>1 DEF Typed, Elements
  <2>2. CASE \E entry : /\ trace' = Append(trace, entry) /\ entry.at = rings[flush.ring].unread[1][1]
                        /\ entry.worker = resolve(past[entry.at].worker)
    <3>1. PICK entry : trace' = Append(trace, entry) /\ entry.at = rings[flush.ring].unread[1][1]
      BY <2>2
    <3>2. entry.at \in DOMAIN past' /\ DOMAIN past \subseteq DOMAIN past'
      BY <1>1, <1>2, <3>1 DEF Numbered
    <3> QED BY <1>0, <3>1, <3>2, TraceGrows
  <2> QED BY <1>2, <2>1, <2>2
<1>11. Typed'
  <2>1. past' \in Seq(Elements(past)') /\ \A j \in DOMAIN past' : past'[j].worker \in Somebody
    BY <1>0, <1>1 DEF Typed, Elements
  <2>2. life' \in [Threads -> Lives] /\ DOMAIN roles' = {t \in Threads : HasRole(t)'}
    BY <1>0, <1>1 DEF Typed, HasRole
  <2> QED BY <1>0, <1>1, <1>6, <1>8, <1>9, <1>10, <2>1, <2>2 DEF Typed
<1>12. Owned'
  <2>1. OwnRoles(flush'.roles, flush'.first)
    BY <1>0, <1>2, <1>8 DEF Owned
  <2> QED BY <1>0, <1>1, <2>1 DEF Owned, OwnRoles
<1>13. Seen'
  BY <1>8 DEF Seen
<1> QED BY <1>7, <1>11, <1>12, <1>13 DEF Inv

\* Every step keeps the invariant.
LEMMA Stutter == ASSUME Inv, UNCHANGED vars PROVE Inv'
<1>1. /\ UNCHANGED <<scenario, life, cached, roles, rings, names, flush, clock, past, trace, first>>
      /\ Typed /\ Owned /\ Filled /\ Seen
  BY DEF vars, Inv
<1>2. Typed'
  BY <1>1 DEF Typed, HasRole, Elements
<1>3. Owned'
  BY <1>1 DEF Owned, OwnRoles, Flushing
<1>4. Filled' /\ Seen'
  BY <1>1, FilledStays, SeenStays
<1> QED BY <1>2, <1>3, <1>4 DEF Inv

LEMMA NextInv == Inv /\ [Next]_vars => Inv'
<1> SUFFICES ASSUME Inv, [Next]_vars PROVE Inv'
  OBVIOUS
<1>1. ASSUME NEW w \in Workers, current_worker_id(w) PROVE Inv'
  BY <1>1, WakerFirst
<1>2. ASSUME NEW w \in Workers, Hook(w) PROVE Inv'
  BY <1>2, HookRuns
<1>3. ASSUME NEW th \in Threads, on_thread_start(th) PROVE Inv'
  BY <1>3, ThreadStarts
<1>4. ASSUME NEW th \in Threads, track_current_thread(th) PROVE Inv'
  BY <1>4, ThreadTracked
<1>5. ASSUME NEW th \in Threads, on_thread_stop(th) PROVE Inv'
  BY <1>5, ThreadStops
<1>6. ASSUME NEW th \in Threads, stop_tracking_current_thread(th) PROVE Inv'
  BY <1>6, ThreadUntracked
<1>7. CASE Sample
  BY <1>7, SampleTaken
<1>8. CASE flush_cpu
  BY <1>8, FlushStarts
<1>9. CASE for_each_record
  BY <1>9, RecordSeen
<1>10. CASE NextRing
  BY <1>10, RingDone
<1>11. CASE for_each_sample
  BY <1>11, SampleWritten
<1>12. CASE UNCHANGED vars
  BY <1>12, Stutter
<1> QED BY <1>1, <1>2, <1>3, <1>4, <1>5, <1>6, <1>7, <1>8, <1>9, <1>10, <1>11, <1>12 DEF Next, ThreadStep

LEMMA SpecInv == Spec => []Inv
<1>1. Init => Inv
  BY InitInv
<1>2. Inv /\ [Next]_vars => Inv'
  BY NextInv
<1> QED BY <1>1, <1>2, PTL DEF Spec

\* A thread has a role from its start to its stop and never another worker's, the trace is
\* of what happened, and a record that for_each_record has seen is there when
\* for_each_sample comes to copy it.
THEOREM ProfilerTypeCorrect == Spec => []TypeOK
<1>1. Inv => TypeOK
  <2> SUFFICES ASSUME Inv PROVE TypeOK
    OBVIOUS
  <2>1. Typed /\ Owned /\ Seen
    BY DEF Inv
  <2>2. DOMAIN roles = {th \in Threads : life[th] \in {"starting", "alive"}} /\ names \subseteq Threads \union {Starter}
    BY <2>1 DEF Typed, HasRole, Somebody
  <2>3. \A th \in DOMAIN roles : roles[th] \in {th, Blocking}
    BY <2>1 DEF Owned, OwnRoles
  <2>4. written \subseteq DOMAIN past
    BY <2>1 DEF Typed, written
  <2> QED BY <2>1, <2>2, <2>3, <2>4 DEF TypeOK, Seen
<1> QED BY <1>1, SpecInv, PTL

\* Whatever the kernel writes and wherever it wraps, in front of the reader are the unread
\* records, whole and in order, and nothing else.
THEOREM RingsAreIntact == Spec => []RingIntact
<1>1. Inv => RingIntact
  BY AllAhead DEF Inv, Filled, RingIntact
<1> QED BY <1>1, SpecInv, PTL

\* what OwnWorker says of one more entry
Rightly(events_, entry, who, map) ==
    LET th == events_[entry.at].worker
    IN  events_[entry.at].kind = "CpuSample" =>
            /\ entry.worker \in IF th \in Threads THEN {th, Blocking, Unknown} ELSE {Unknown}
            /\ th \in Workers \cap DOMAIN map /\ who[th] = "hook" => entry.worker = th

\* what is new in the trace
LEMMA OneMore == ASSUME Typed, NEW entry, trace' = Append(trace, entry), NEW i \in DOMAIN trace' \ DOMAIN trace
  PROVE trace'[i] = entry
<1>1. LET t == Append(trace, entry)
      IN  /\ t \in Seq(Elements(t)) /\ Len(t) = Len(trace) + 1 /\ DOMAIN t = 1 .. Len(trace) + 1
              /\ DOMAIN trace = 1 .. Len(trace)
          /\ Len(trace) \in Nat /\ (\A k \in 1 .. Len(trace) : t[k] = trace[k]) /\ t[Len(trace) + 1] = entry
  BY Extended DEF Typed
<1>2. i = Len(trace) + 1
  BY <1>1
<1> QED BY <1>1, <1>2

\* A hook writes no sample, and the flush writes one under the role of its thread.
LEMMA HookWrites == ASSUME Inv, NEW w \in Workers, Hook(w), NEW i \in DOMAIN trace' \ DOMAIN trace
  PROVE past'[trace'[i].at].kind # "CpuSample"
<1>1. trace' = Append(trace, [at |-> Len(past) + 1, worker |-> w]) /\ Typed
  BY DEF Hook, Inv
<1>2. trace'[i].at = Len(past) + 1
  BY <1>1, OneMore
<1>3. PICK event : event.worker = w /\ "ts" \in DOMAIN event /\ Happens(event)
        /\ [event EXCEPT !.ts = clock'].kind # "CpuSample"
  BY DEF Hook, make_poll_start, make_poll_end
<1>4. past'[Len(past) + 1] = [event EXCEPT !.ts = clock']
  BY <1>1, <1>3, HappensFacts DEF Somebody, Threads
<1> QED BY <1>2, <1>3, <1>4

LEMMA FlushWrites == ASSUME Inv, for_each_sample, NEW i \in DOMAIN trace' \ DOMAIN trace
  PROVE Rightly(past', trace'[i], flush.first, flush.roles)
<1>1. Typed /\ Owned /\ past' = past
  BY DEF Inv, for_each_sample
<1>2. PICK entry : trace' = Append(trace, entry) /\ entry.worker = resolve(past[entry.at].worker)
  BY SampleRead
<1>3. trace'[i] = entry /\ OwnRoles(flush.roles, flush.first) /\ flush.roles \in RoleMaps
  BY <1>1, <1>2, OneMore, SampleRead DEF Owned, Flushes
<1>4. DOMAIN flush.roles \subseteq Threads
  BY <1>3 DEF RoleMaps
<1> QED BY <1>1, <1>2, <1>3, <1>4 DEF Rightly, OwnRoles, resolve

\* flush_cpu writes no sample as another worker's, and one of a worker that a hook resolved
\* before the roles were taken as that worker's, whichever threads start and stop meanwhile.
THEOREM WorkersGetTheirOwn == Spec => OwnWorker
<1> DEFINE A == \A i \in DOMAIN trace' \ DOMAIN trace : Rightly(past', trace'[i], flush.first, flush.roles)
<1>1. Inv /\ [Next]_vars => A
  <2> SUFFICES ASSUME Inv, [Next]_vars, NEW i \in DOMAIN trace' \ DOMAIN trace
              PROVE Rightly(past', trace'[i], flush.first, flush.roles)
    OBVIOUS
  <2>1. CASE \E w \in Workers : Hook(w)
    BY <2>1, HookWrites DEF Rightly
  <2>2. CASE for_each_sample
    BY <2>2, FlushWrites
  <2>3. CASE UNCHANGED trace
    BY <2>3
  <2>4. \A w \in Workers : current_worker_id(w) => UNCHANGED trace
    BY DEF current_worker_id
  <2>5. \A th \in Threads : on_thread_start(th) \/ track_current_thread(th) \/ on_thread_stop(th)
                            \/ stop_tracking_current_thread(th) => UNCHANGED trace
    BY DEF on_thread_start, track_current_thread, on_thread_stop, stop_tracking_current_thread
  <2>6. Sample \/ flush_cpu \/ for_each_record \/ NextRing \/ UNCHANGED vars => UNCHANGED trace
    BY DEF Sample, flush_cpu, for_each_record, NextRing, vars
  <2> QED BY <2>1, <2>2, <2>3, <2>4, <2>5, <2>6 DEF Next, ThreadStep
<1>2. A => [\A i \in DOMAIN trace' \ DOMAIN trace :
              LET th == past'[trace'[i].at].worker
              IN  past'[trace'[i].at].kind = "CpuSample" =>
                      /\ trace'[i].worker \in IF th \in Threads THEN {th, Blocking, Unknown} ELSE {Unknown}
                      /\ th \in Workers \cap DOMAIN flush.roles /\ flush.first[th] = "hook"
                            => trace'[i].worker = th]_vars
  BY DEF Rightly
<1> HIDE DEF A
<1> QED BY <1>1, <1>2, SpecInv, PTL DEF Spec, OwnWorker

-----------------------------------------------------------------------------
(* The trace and what happened *)

PollKinds == {"PollStart", "PollEnd"}

Shaped(event) == {"kind", "ts", "worker"} \subseteq DOMAIN event
Timed ==
    /\ \A j \in DOMAIN past : past[j].ts \in Nat /\ past[j].ts <= clock /\ Shaped(past[j])
    /\ \A j, k \in DOMAIN past : j <= k => past[j].ts <= past[k].ts
\* A hook writes at once: the starts and ends of polls are in the trace, each under its
\* own worker and all in the order they happened in.
PollsTold ==
    /\ \A i \in DOMAIN trace : past[trace[i].at].kind \in PollKinds => trace[i].worker = past[trace[i].at].worker
    /\ \A i, k \in DOMAIN trace :
          /\ past[trace[i].at].kind \in PollKinds /\ past[trace[k].at].kind \in PollKinds
          /\ i < k
          => trace[i].at < trace[k].at
    /\ \A j \in DOMAIN past : past[j].kind \in PollKinds => \E i \in DOMAIN trace : trace[i].at = j

\* Nothing has been told yet.
LEMMA ToldInit == Init => Timed /\ PollsTold
<1> SUFFICES ASSUME Init PROVE Timed /\ PollsTold
  OBVIOUS
<1>1. past = <<>> /\ trace = <<>>
  BY DEF Init
<1>2. DOMAIN past = {} /\ DOMAIN trace = {}
  BY <1>1
<1> QED BY <1>2 DEF Timed, PollsTold

\* what happens last
LEMMA LastOfPast == ASSUME Typed, NEW event, Happens(event)
  PROVE /\ past \in Seq(Elements(past)) /\ Len(past) \in Nat /\ DOMAIN past = 1 .. Len(past)
          /\ DOMAIN past' = 1 .. Len(past) + 1
        /\ \A j \in DOMAIN past : past'[j] = past[j]
        /\ past'[Len(past) + 1] = [event EXCEPT !.ts = clock']
        /\ clock' \in Nat /\ clock <= clock' /\ clock \in Nat
<1>1. past \in Seq(Elements(past)) /\ past' = Append(past, [event EXCEPT !.ts = clock'])
        /\ clock' \in {clock, clock + 1} /\ clock \in Nat
  BY DEF Happens, Typed
<1> DEFINE t == Append(past, [event EXCEPT !.ts = clock'])
<1>2. /\ t \in Seq(Elements(t)) /\ Len(t) = Len(past) + 1 /\ DOMAIN t = 1 .. Len(past) + 1
        /\ DOMAIN past = 1 .. Len(past)
      /\ Len(past) \in Nat /\ (\A i \in 1 .. Len(past) : t[i] = past[i])
            /\ t[Len(past) + 1] = [event EXCEPT !.ts = clock']
  BY <1>1, Extended
<1> QED BY <1>1, <1>2

\* What happens is no earlier than what happened.
LEMMA TimePasses == ASSUME Typed, Timed, NEW event, Shaped(event), Happens(event) PROVE Timed'
<1> DEFINE n == Len(past) + 1
<1>1. /\ Len(past) \in Nat /\ DOMAIN past = 1 .. Len(past) /\ DOMAIN past' = 1 .. n
      /\ \A j \in DOMAIN past : past'[j] = past[j]
      /\ past'[n] = [event EXCEPT !.ts = clock']
      /\ clock' \in Nat /\ clock <= clock' /\ clock \in Nat
  BY LastOfPast
<1>2. past'[n].ts = clock' /\ Shaped(past'[n]) /\ n \in Nat
  BY <1>1 DEF Shaped
<1> HIDE DEF n
<1>3. \A j \in DOMAIN past' : j \in DOMAIN past \/ j = n
  BY <1>1 DEF n
<1>4. \A j \in DOMAIN past' : past'[j].ts \in Nat /\ past'[j].ts <= clock' /\ Shaped(past'[j])
  <2> TAKE j \in DOMAIN past'
  <2>1. CASE j = n
    <3>1. clock' \in Nat /\ clock' <= clock'
      BY <1>1
    <3> QED BY <1>2, <2>1, <3>1
  <2>2. CASE j \in DOMAIN past
    BY <1>1, <2>2 DEF Timed
  <2> QED BY <1>3, <2>1, <2>2
<1>5. \A j, k \in DOMAIN past' : j <= k => past'[j].ts <= past'[k].ts
  <2> TAKE j, k \in DOMAIN past'
  <2> HAVE j <= k
  <2>1. CASE k = n
    BY <1>2, <1>4, <2>1
  <2>2. CASE k \in DOMAIN past
    <3>1. j \in DOMAIN past
      BY <1>1, <2>2
    <3> QED BY <1>1, <2>2, <3>1 DEF Timed
  <2> QED BY <1>3, <2>1, <2>2
<1> QED BY <1>4, <1>5 DEF Timed

\* A sample is no poll, a hook tells of its poll at once, and a flush of none.
LEMMA ToldSame == ASSUME Timed, PollsTold, UNCHANGED <<past, trace, clock>> PROVE Timed' /\ PollsTold'
  BY DEF Timed, PollsTold

LEMMA ToldSample == ASSUME Typed, Timed, PollsTold, NEW event, Shaped(event),
                           event.kind \notin PollKinds, Happens(event), UNCHANGED trace
  PROVE Timed' /\ PollsTold'
<1>1. Timed'
  BY TimePasses
<1>2. /\ Len(past) \in Nat /\ DOMAIN past = 1 .. Len(past) /\ DOMAIN past' = 1 .. Len(past) + 1
      /\ \A j \in DOMAIN past : past'[j] = past[j]
      /\ past'[Len(past) + 1] = [event EXCEPT !.ts = clock']
  BY LastOfPast
<1>3. past'[Len(past) + 1].kind \notin PollKinds
  BY <1>2 DEF Shaped
<1>4. \A i \in DOMAIN trace : trace[i].at \in DOMAIN past
  BY DEF Typed
<1>5. \A j \in DOMAIN past' : j \in DOMAIN past \/ j = Len(past) + 1
  BY <1>2
<1>6. trace' = trace /\ \A i \in DOMAIN trace : past'[trace[i].at] = past[trace[i].at]
  BY <1>2, <1>4
<1>7. \A j \in DOMAIN past' : past'[j].kind \in PollKinds => j \in DOMAIN past /\ past'[j] = past[j]
  BY <1>2, <1>3, <1>5
<1>8. \A i \in DOMAIN trace' : past'[trace'[i].at].kind \in PollKinds => trace'[i].worker = past'[trace'[i].at].worker
  BY <1>6 DEF PollsTold
<1>9. \A i, k \in DOMAIN trace' :
         /\ past'[trace'[i].at].kind \in PollKinds /\ past'[trace'[k].at].kind \in PollKinds
         /\ i < k
         => trace'[i].at < trace'[k].at
  BY <1>6 DEF PollsTold
<1>10. \A j \in DOMAIN past' : past'[j].kind \in PollKinds => \E i \in DOMAIN trace' : trace'[i].at = j
  <2> SUFFICES ASSUME NEW j \in DOMAIN past', past'[j].kind \in PollKinds
               PROVE  \E i \in DOMAIN trace : trace[i].at = j
    BY <1>6
  <2>1. j \in DOMAIN past /\ past[j].kind \in PollKinds
    BY <1>7
  <2> QED BY <2>1 DEF PollsTold
<1> QED BY <1>1, <1>8, <1>9, <1>10 DEF PollsTold

LEMMA ToldHook == ASSUME Typed, Timed, PollsTold, NEW event, Shaped(event), Happens(event),
                         trace' = Append(trace, [at |-> Len(past) + 1, worker |-> event.worker])
  PROVE Timed' /\ PollsTold'
<1> DEFINE n == Len(past) + 1
           m == Len(trace) + 1
<1>1. Timed'
  BY TimePasses
<1>2. /\ Len(past) \in Nat /\ DOMAIN past = 1 .. Len(past) /\ DOMAIN past' = 1 .. n
      /\ (\A j \in DOMAIN past : past'[j] = past[j]) /\ past'[n] = [event EXCEPT !.ts = clock']
  BY LastOfPast
<1>3. past'[n].worker = event.worker
  BY <1>2 DEF Shaped
<1> DEFINE e == [at |-> n, worker |-> event.worker]
<1>4. LET t == Append(trace, e)
      IN  /\ t \in Seq(Elements(t)) /\ Len(t) = Len(trace) + 1 /\ DOMAIN t = 1 .. Len(trace) + 1
              /\ DOMAIN trace = 1 .. Len(trace)
          /\ Len(trace) \in Nat /\ (\A k \in 1 .. Len(trace) : t[k] = trace[k]) /\ t[Len(trace) + 1] = e
  BY Extended DEF Typed
<1>5. /\ Len(trace) \in Nat /\ DOMAIN trace = 1 .. Len(trace) /\ DOMAIN trace' = 1 .. m
      /\ (\A i \in DOMAIN trace : trace'[i] = trace[i]) /\ trace'[m].at = n /\ trace'[m].worker = event.worker
  BY <1>4
<1>6. \A i \in DOMAIN trace : trace[i].at \in DOMAIN past /\ trace[i].at < n /\ past'[trace[i].at] = past[trace[i].at]
  BY <1>2 DEF Typed
<1> HIDE DEF n, m
<1>7. (\A i \in DOMAIN trace' : i \in DOMAIN trace \/ i = m) /\ \A j \in DOMAIN past' : j \in DOMAIN past \/ j = n
  BY <1>2, <1>5 DEF n, m
<1>8. ASSUME NEW i \in DOMAIN trace', past'[trace'[i].at].kind \in PollKinds
        PROVE trace'[i].worker = past'[trace'[i].at].worker
  <2>1. CASE i = m
    BY <1>3, <1>5, <2>1
  <2>2. CASE i \in DOMAIN trace
    BY <1>5, <1>6, <1>8, <2>2 DEF PollsTold
  <2> QED BY <1>7, <2>1, <2>2
<1>9. ASSUME NEW i \in DOMAIN trace', NEW k \in DOMAIN trace', i < k,
             past'[trace'[i].at].kind \in PollKinds, past'[trace'[k].at].kind \in PollKinds
      PROVE trace'[i].at < trace'[k].at
  <2>1. i \in DOMAIN trace
    BY <1>5, <1>7, <1>9 DEF m
  <2>2. CASE k = m
    BY <1>5, <1>6, <2>1, <2>2
  <2>3. CASE k \in DOMAIN trace
    BY <1>5, <1>6, <1>9, <2>1, <2>3 DEF PollsTold
  <2> QED BY <1>7, <2>2, <2>3
<1>10. ASSUME NEW j \in DOMAIN past', past'[j].kind \in PollKinds PROVE \E i \in DOMAIN trace' : trace'[i].at = j
  <2>1. CASE j = n
    <3>1. m \in DOMAIN trace'
      BY <1>5 DEF m
    <3> QED BY <1>5, <2>1, <3>1
  <2>2. CASE j \in DOMAIN past
    <3>1. PICK i \in DOMAIN trace : trace[i].at = j
      BY <1>2, <1>10, <2>2 DEF PollsTold
    <3>2. i \in DOMAIN trace' /\ trace'[i] = trace[i]
      BY <1>5 DEF m
    <3> QED BY <3>1, <3>2
  <2> QED BY <1>7, <2>1, <2>2
<1>11. PollsTold'
  BY <1>8, <1>9, <1>10 DEF PollsTold
<1> QED BY <1>1, <1>11

LEMMA ToldFlush == ASSUME Typed, Timed, PollsTold, NEW entry, entry.at \in DOMAIN past, past[entry.at].kind \notin PollKinds,
                          trace' = Append(trace, entry), UNCHANGED <<past, clock>>
  PROVE Timed' /\ PollsTold'
<1>1. LET t == Append(trace, entry)
      IN  /\ t \in Seq(Elements(t)) /\ Len(t) = Len(trace) + 1 /\ DOMAIN t = 1 .. Len(trace) + 1
              /\ DOMAIN trace = 1 .. Len(trace)
          /\ Len(trace) \in Nat /\ (\A k \in 1 .. Len(trace) : t[k] = trace[k]) /\ t[Len(trace) + 1] = entry
  BY Extended DEF Typed
<1>2. /\ DOMAIN trace \subseteq DOMAIN trace' /\ \A i \in DOMAIN trace : trace'[i] = trace[i]
      /\ \A i \in DOMAIN trace' : i \in DOMAIN trace \/ trace'[i] = entry
  BY <1>1
<1>3. PollsTold'
  BY <1>2 DEF PollsTold
<1> QED BY <1>3 DEF Timed

\* Every step tells of the polls.
LEMMA ToldNext == ASSUME Inv, Timed, PollsTold, [Next]_vars PROVE Timed' /\ PollsTold'
<1>0. Typed
  BY DEF Inv
<1>1. ASSUME NEW w \in Workers, Hook(w) PROVE Timed' /\ PollsTold'
  <2>1. PICK event : event.worker = w /\ Shaped(event) /\ Happens(event)
    BY <1>1 DEF Hook, make_poll_start, make_poll_end, Shaped
  <2>2. trace' = Append(trace, [at |-> Len(past) + 1, worker |-> event.worker])
    BY <1>1, <2>1 DEF Hook
  <2> QED BY <1>0, <2>1, <2>2, ToldHook
<1>2. CASE Sample
  <2>1. PICK event : Shaped(event) /\ event.kind = "CpuSample" /\ Happens(event)
    BY <1>2 DEF Sample, Shaped
  <2> QED BY <1>0, <1>2, <2>1, ToldSample DEF Sample, PollKinds
<1>3. CASE for_each_sample
  <2>1. UNCHANGED <<past, clock>>
    BY <1>3 DEF for_each_sample
  <2>2. CASE UNCHANGED trace
    BY <2>1, <2>2, ToldSame
  <2>3. CASE ~UNCHANGED trace
    <3>1. PICK entry : /\ trace' = Append(trace, entry) /\ entry.at \in DOMAIN past /\ past[entry.at].kind = "CpuSample"
      BY <1>3, <2>3, SampleRead DEF Numbered
    <3> QED BY <1>0, <2>1, <3>1, ToldFlush DEF PollKinds
  <2> QED BY <2>2, <2>3
<1>4. \A w \in Workers : current_worker_id(w) => UNCHANGED <<past, trace, clock>>
  BY DEF current_worker_id
<1>5. \A th \in Threads : on_thread_start(th) \/ track_current_thread(th) \/ on_thread_stop(th)
                          \/ stop_tracking_current_thread(th) => UNCHANGED <<past, trace, clock>>
  BY DEF on_thread_start, track_current_thread, on_thread_stop, stop_tracking_current_thread
<1>6. flush_cpu \/ for_each_record \/ NextRing \/ UNCHANGED vars => UNCHANGED <<past, trace, clock>>
  BY DEF flush_cpu, for_each_record, NextRing, vars
<1>7. UNCHANGED <<past, trace, clock>> => Timed' /\ PollsTold'
  BY ToldSame
<1> QED BY <1>1, <1>2, <1>3, <1>4, <1>5, <1>6, <1>7 DEF Next, ThreadStep

\* A set of numbers that is bounded has a greatest.
LEMMA MaxFacts == ASSUME NEW S, S \subseteq Nat, S # {}, NEW n \in Nat, \A x \in S : x <= n
  PROVE Max(S) \in S /\ \A x \in S : x <= Max(S)
<1> DEFINE U == {m \in Nat : \A x \in S : x <= m}
<1>1. PICK m \in U : \A k \in U : m <= k
  <2>1. n \in U
    OBVIOUS
  <2> QED BY <2>1, LeastNat
<1>2. m \in S
  <2> SUFFICES ASSUME m \notin S PROVE FALSE
    OBVIOUS
  <2>1. \A x \in S : x <= m - 1
    BY <1>1
  <2>2. m - 1 \in Nat
    <3>1. PICK x \in S : TRUE
      OBVIOUS
    <3> QED BY <3>1, <2>1
  <2> QED BY <1>1, <2>1, <2>2
<1>3. \E x \in S : \A y \in S : x >= y
  BY <1>1, <1>2
<1>4. Max(S) \in S /\ \A y \in S : Max(S) >= y
  BY <1>3 DEF Max
<1> QED BY <1>4

\* The pairs of Paired, by their positions.
Pair(f, open, close, a, b) ==
    /\ a \in Of(f, {open}) /\ b \in Of(f, {close}) /\ a < b /\ f[a].worker = f[b].worker
    /\ \A k \in Of(f, {open, close}) : k < b /\ f[k].worker = f[b].worker => k <= a

LEMMA PairFacts ==
    ASSUME NEW f, NEW n \in Nat, DOMAIN f = 1 .. n, NEW open, NEW close
    PROVE \A p : p \in Paired(f, open, close)
                    <=> p = <<p[1], p[2]>> /\ Pair(f, open, close, p[1], p[2])
<1>1. SUFFICES ASSUME NEW a \in Of(f, {open}), NEW b \in Of(f, {close})
      PROVE LET seen == Before(f, b, {open, close})
             IN  a \in seen /\ a = Max(seen) <=> Pair(f, open, close, a, b)
  <2>1. \A p : p \in Paired(f, open, close) <=>
            p \in Of(f, {open}) \X Of(f, {close}) /\ LET seen == Before(f, p[2], {open, close}) IN p[1] \in seen
                    /\ p[1] = Max(seen)
    BY DEF Paired
  <2>2. \A p : p \in Of(f, {open}) \X Of(f, {close}) <=> p = <<p[1], p[2]>> /\ p[1] \in Of(f, {open})
          /\ p[2] \in Of(f, {close})
    OBVIOUS
  <2>3. \A a, b : Pair(f, open, close, a, b) => a \in Of(f, {open}) /\ b \in Of(f, {close})
    BY DEF Pair
  <2> QED BY <1>1, <2>1, <2>2, <2>3
<1> DEFINE seen == Before(f, b, {open, close})
<1>2. seen \subseteq Nat /\ b \in Nat /\ \A k \in seen : k <= b
  BY DEF Before, Of
<1>3. \A k : k \in seen <=> k \in Of(f, {open, close}) /\ k < b /\ f[k].worker = f[b].worker
  BY DEF Before
<1> HIDE DEF seen
<1>4. a \in seen => Max(seen) \in seen /\ \A k \in seen : k <= Max(seen)
  BY <1>2, MaxFacts
<1>5. ASSUME a \in seen, a = Max(seen) PROVE Pair(f, open, close, a, b)
  BY <1>3, <1>4, <1>5 DEF Pair
<1>6. ASSUME Pair(f, open, close, a, b) PROVE a \in seen /\ a = Max(seen)
  <2>1. a \in seen /\ \A k \in seen : k <= a
    BY <1>3, <1>6 DEF Pair, Of
  <2>2. Max(seen) \in Nat /\ a \in Nat /\ Max(seen) <= a /\ a <= Max(seen)
    BY <1>2, <1>4, <2>1
  <2> QED BY <2>1, <2>2
<1> QED BY <1>5, <1>6 DEF seen


Told == Inv /\ Timed /\ PollsTold

\* an event of the trace and what happened
LEMMA EventFacts == ASSUME Told
  PROVE /\ Len(trace) \in Nat /\ DOMAIN trace = 1 .. Len(trace) /\ DOMAIN events = 1 .. Len(trace)
        /\ Len(past) \in Nat /\ DOMAIN past = 1 .. Len(past)
        /\ \A k \in DOMAIN trace : /\ trace[k].at \in DOMAIN past
                                   /\ events[k].kind = past[trace[k].at].kind /\ events[k].ts = past[trace[k].at].ts
                                   /\ events[k].worker = trace[k].worker
<1>1. Typed /\ Timed
  BY DEF Told, Inv
<1>2. trace \in Seq(Elements(trace)) /\ past \in Seq(Elements(past))
        /\ \A k \in DOMAIN trace : trace[k].at \in DOMAIN past
  BY <1>1 DEF Typed
<1>3. \A j \in DOMAIN past : {"kind", "ts", "worker"} \subseteq DOMAIN past[j]
  BY <1>1 DEF Timed, Shaped
<1>4. \A k \in DOMAIN trace : events[k] = [past[trace[k].at] EXCEPT !.worker = trace[k].worker]
  BY DEF events
<1>5. DOMAIN events = DOMAIN trace
  BY DEF events
<1>6. \A k \in DOMAIN trace : /\ events[k].kind = past[trace[k].at].kind /\ events[k].ts = past[trace[k].at].ts
                               /\ events[k].worker = trace[k].worker
  <2> TAKE k \in DOMAIN trace
  <2>1. PICK e : e = past[trace[k].at] /\ {"kind", "ts", "worker"} \subseteq DOMAIN e
    BY <1>2, <1>3
  <2>2. events[k] = [e EXCEPT !.worker = trace[k].worker]
    BY <1>4, <2>1
  <2> QED BY <2>1, <2>2
<1>7. Len(trace) \in Nat /\ DOMAIN trace = 1 .. Len(trace) /\ Len(past) \in Nat /\ DOMAIN past = 1 .. Len(past)
  BY <1>2
<1> QED BY <1>2, <1>5, <1>6, <1>7

Polled == Paired(events, "PollStart", "PollEnd")
Really == Paired(past, "PollStart", "PollEnd")

\* the polls of the trace, and those that were
LEMMA PolledPairs == ASSUME Told
        PROVE \A p : p \in Polled <=> p = <<p[1], p[2]>> /\ Pair(events, "PollStart", "PollEnd", p[1], p[2])
  BY EventFacts, PairFacts DEF Polled
LEMMA RealPairs == ASSUME Told
        PROVE \A p : p \in Really <=> p = <<p[1], p[2]>> /\ Pair(past, "PollStart", "PollEnd", p[1], p[2])
  BY EventFacts, PairFacts DEF Really

\* A poll in the trace is one that was,
LEMMA PolledIsReal == ASSUME Told, NEW p \in Polled
  PROVE /\ p[1] \in DOMAIN trace /\ p[2] \in DOMAIN trace /\ <<trace[p[1]].at, trace[p[2]].at>> \in Really
        /\ events[p[1]].worker = past[trace[p[1]].at].worker
        /\ events[p[1]].ts = past[trace[p[1]].at].ts /\ events[p[2]].ts = past[trace[p[2]].at].ts
<1> DEFINE a == p[1]
           b == p[2]
           x == trace[a].at
           y == trace[b].at
<1>1. Pair(events, "PollStart", "PollEnd", a, b)
  BY PolledPairs
<1>2. /\ a \in DOMAIN trace /\ b \in DOMAIN trace /\ a < b /\ events[a].kind = "PollStart" /\ events[b].kind = "PollEnd"
      /\ events[a].worker = events[b].worker
      /\ \A k \in DOMAIN trace : events[k].kind \in PollKinds /\ k < b /\ events[k].worker = events[b].worker => k <= a
  BY <1>1, EventFacts DEF Pair, Of, PollKinds
<1>3. /\ x \in DOMAIN past /\ y \in DOMAIN past /\ past[x].kind = "PollStart" /\ past[y].kind = "PollEnd"
      /\ events[a].worker = past[x].worker /\ events[b].worker = past[y].worker
      /\ x < y
  BY <1>2, EventFacts DEF Told, PollsTold, PollKinds
<1>4. \A k \in DOMAIN past : past[k].kind \in PollKinds /\ k < y /\ past[k].worker = past[y].worker => k <= x
  <2> SUFFICES ASSUME NEW k \in DOMAIN past, past[k].kind \in PollKinds, k < y, past[k].worker = past[y].worker, ~(k <= x)
               PROVE FALSE
    OBVIOUS
  <2>1. PICK c \in DOMAIN trace : trace[c].at = k
    BY DEF Told, PollsTold
  <2>2. events[c].kind \in PollKinds /\ events[c].worker = past[k].worker
    BY <2>1, EventFacts DEF Told, PollsTold
  <2>3. \A i, j \in DOMAIN trace : events[i].kind \in PollKinds /\ events[j].kind \in PollKinds /\ i < j
          => trace[i].at < trace[j].at
    BY EventFacts DEF Told, PollsTold
  <2>4. a \in Nat /\ b \in Nat /\ c \in Nat /\ x \in Nat /\ y \in Nat /\ k \in Nat
    BY <1>2, <1>3, <2>1, EventFacts
  <2>5. c < b
    <3>1. ~(b < c)
      BY <1>2, <2>1, <2>2, <2>3, <2>4 DEF PollKinds
    <3>2. c # b
      BY <2>1, <2>4
    <3> QED BY <2>4, <3>1, <3>2
  <2>6. a < c
    <3>1. ~(c < a)
      BY <1>2, <2>1, <2>2, <2>3, <2>4 DEF PollKinds
    <3>2. c # a
      BY <2>1, <2>4
    <3> QED BY <2>4, <3>1, <3>2
  <2>7. events[c].worker = events[b].worker
    BY <1>3, <2>2
  <2>8. c <= a
    BY <1>2, <2>2, <2>5, <2>7
  <2> QED BY <2>4, <2>6, <2>8
<1>5. Pair(past, "PollStart", "PollEnd", x, y)
  BY <1>2, <1>3, <1>4 DEF Pair, Of, PollKinds
<1> HIDE DEF x, y
<1>6. <<x, y>> \in Really
  BY <1>5, RealPairs
<1> QED BY <1>2, <1>3, <1>6, EventFacts DEF x, y

\* and a poll that was is in the trace.
LEMMA RealIsPolled == ASSUME Told, NEW q \in Really
        PROVE \E p \in Polled : trace[p[1]].at = q[1] /\ trace[p[2]].at = q[2]
<1> DEFINE x == q[1]
           y == q[2]
<1>1. Pair(past, "PollStart", "PollEnd", x, y)
  BY RealPairs
<1>2. /\ x \in DOMAIN past /\ y \in DOMAIN past /\ x < y /\ past[x].kind = "PollStart" /\ past[y].kind = "PollEnd"
      /\ past[x].worker = past[y].worker
      /\ \A k \in DOMAIN past : past[k].kind \in PollKinds /\ k < y /\ past[k].worker = past[y].worker => k <= x
  BY <1>1 DEF Pair, Of, PollKinds
<1>3. PICK a \in DOMAIN trace, b \in DOMAIN trace : trace[a].at = x /\ trace[b].at = y
  BY <1>2 DEF Told, PollsTold, PollKinds
<1>4. /\ events[a].kind = "PollStart" /\ events[b].kind = "PollEnd"
      /\ events[a].worker = past[x].worker /\ events[b].worker = past[y].worker
  BY <1>2, <1>3, EventFacts DEF Told, PollsTold, PollKinds
<1>5. \A i, j \in DOMAIN trace : events[i].kind \in PollKinds /\ events[j].kind \in PollKinds /\ i < j
        => trace[i].at < trace[j].at
  BY EventFacts DEF Told, PollsTold
<1>6. a \in Nat /\ b \in Nat /\ x \in Nat /\ y \in Nat
  BY <1>2, EventFacts
<1>7. a < b
  <2>1. ~(b < a)
    BY <1>2, <1>3, <1>4, <1>5, <1>6 DEF PollKinds
  <2>2. a # b
    BY <1>4
  <2> QED BY <1>6, <2>1, <2>2
<1>8. \A k \in DOMAIN trace : events[k].kind \in PollKinds /\ k < b /\ events[k].worker = events[b].worker => k <= a
  <2> SUFFICES ASSUME NEW k \in DOMAIN trace, events[k].kind \in PollKinds, k < b, events[k].worker = events[b].worker, ~(k <= a)
               PROVE FALSE
    OBVIOUS
  <2>1. k \in Nat /\ a < k
    BY <1>6, EventFacts
  <2>2. x < trace[k].at /\ trace[k].at < y
    BY <1>3, <1>4, <1>5, <2>1 DEF PollKinds
  <2>3. trace[k].at \in DOMAIN past /\ past[trace[k].at].kind \in PollKinds /\ past[trace[k].at].worker = past[y].worker
    BY <1>4, EventFacts DEF Told, PollsTold
  <2>4. trace[k].at <= x /\ trace[k].at \in Nat
    BY <1>2, <2>2, <2>3, EventFacts
  <2> QED BY <1>6, <2>2, <2>4
<1>9. Pair(events, "PollStart", "PollEnd", a, b)
  BY <1>2, <1>4, <1>7, <1>8, EventFacts DEF Pair, Of, PollKinds
<1>10. <<a, b>> \in Polled
  BY <1>9, PolledPairs
<1> QED BY <1>3, <1>10

\* In every reachable state the invariant holds, and the polls are told.
LEMMA SpecTold == Spec => []Told
<1>1. Init => Told
  BY InitInv, ToldInit DEF Told
<1>2. Told /\ [Next]_vars => Told'
  BY NextInv, ToldNext DEF Told
<1> QED BY <1>1, <1>2, PTL DEF Spec

\* The polls that may be chosen are of the sample's worker and have it in them by time.
LEMMA ChosenPolls ==
  ASSUME Told, NEW i \in Of(events, {"CpuSample"}), events[i].worker = past[trace[i].at].worker, NEW p \in Sampled(events, i)
  PROVE /\ <<trace[p[1]].at, trace[p[2]].at>> \in Really /\ past[trace[p[1]].at].worker = past[trace[i].at].worker
        /\ past[trace[p[1]].at].ts <= past[trace[i].at].ts /\ past[trace[i].at].ts <= past[trace[p[2]].at].ts
<1>1. /\ p \in Polled /\ events[p[1]].worker = events[i].worker
      /\ events[p[1]].ts <= events[i].ts /\ events[i].ts <= events[p[2]].ts
  BY DEF Sampled, Polled
<1>2. events[i].ts = past[trace[i].at].ts
  BY EventFacts DEF Of
<1>3. /\ <<trace[p[1]].at, trace[p[2]].at>> \in Really
      /\ events[p[1]].worker = past[trace[p[1]].at].worker
      /\ events[p[1]].ts = past[trace[p[1]].at].ts /\ events[p[2]].ts = past[trace[p[2]].at].ts
  BY <1>1, PolledIsReal
<1> QED BY <1>1, <1>2, <1>3

\* A poll of a worker that a sample was taken in, seen from another poll of it that
\* starts no later: it starts before.
LEMMA StartsBefore == ASSUME Told, NEW s \in DOMAIN past, NEW p \in Really, p[1] < s, s < p[2],
                             NEW q \in Really, past[q[1]].worker = past[p[1]].worker, past[q[1]].ts <= past[s].ts,
                             past[q[1]].ts # past[s].ts, past[q[1]].ts # past[p[1]].ts
  PROVE past[q[1]].ts < past[p[1]].ts
<1>1. /\ p[1] \in DOMAIN past /\ p[2] \in DOMAIN past /\ past[p[1]].worker = past[p[2]].worker
      /\ \A k \in DOMAIN past : past[k].kind \in PollKinds /\ k < p[2] /\ past[k].worker = past[p[2]].worker
            => k <= p[1]
  BY RealPairs DEF Pair, Of, PollKinds
<1>2. q[1] \in DOMAIN past /\ past[q[1]].kind \in PollKinds
  BY RealPairs DEF Pair, Of, PollKinds
<1>3. /\ \A j \in DOMAIN past : past[j].ts \in Nat /\ j \in Nat
      /\ \A j, k \in DOMAIN past : j <= k => past[j].ts <= past[k].ts
  BY EventFacts DEF Told, Timed
<1>4. q[1] < s
  BY <1>2, <1>3
<1>5. q[1] <= p[1]
  BY <1>1, <1>2, <1>3, <1>4
<1> QED BY <1>1, <1>2, <1>3, <1>5

\* what a sample was taken in is chosen, and nothing else
LEMMA TakenIn ==
  ASSUME Told, NEW i \in Of(events, {"CpuSample"}), events[i].worker = past[trace[i].at].worker,
         NEW p \in Really, p[1] < trace[i].at, trace[i].at < p[2], past[p[1]].worker = past[trace[i].at].worker,
         \A q \in Really \ {p} : /\ ~(past[p[1]].ts = past[q[1]].ts /\ past[p[1]].worker = past[q[1]].worker)
                                 /\ past[q[1]].ts # past[trace[i].at].ts
  PROVE {<<trace[c[1]].at, trace[c[2]].at>> : c \in Sampled(events, i)} = {p}
<1> DEFINE s == trace[i].at
           real(c) == <<trace[c[1]].at, trace[c[2]].at>>
<1>1. i \in DOMAIN trace /\ s \in DOMAIN past /\ events[i].ts = past[s].ts
  BY EventFacts DEF Of
<1>2. PICK a \in Polled : trace[a[1]].at = p[1] /\ trace[a[2]].at = p[2]
  BY RealIsPolled
<1>3. real(a) = p
  <2>1. p = <<p[1], p[2]>>
    BY RealPairs
  <2> QED BY <1>2, <2>1
<1>4. p[1] \in DOMAIN past /\ p[2] \in DOMAIN past
  BY RealPairs DEF Pair, Of
<1>5. /\ \A j \in DOMAIN past : past[j].ts \in Nat /\ j \in Nat
      /\ \A j, k \in DOMAIN past : j <= k => past[j].ts <= past[k].ts
  BY EventFacts DEF Told, Timed
<1>6. past[p[1]].ts <= past[s].ts /\ past[s].ts <= past[p[2]].ts
  BY <1>1, <1>4, <1>5
<1>7. /\ events[a[1]].worker = past[p[1]].worker /\ events[a[1]].ts = past[p[1]].ts /\ events[a[2]].ts = past[p[2]].ts
  BY <1>2, PolledIsReal
<1> DEFINE started == {c \in Polled : events[c[1]].worker = events[i].worker /\ events[c[1]].ts <= events[i].ts}
<1>8. a \in started
  BY <1>1, <1>2, <1>6, <1>7
<1>9. ASSUME NEW c \in started PROVE events[c[1]].ts \in Nat /\ (real(c) = p \/ events[c[1]].ts < events[a[1]].ts)
  <2>1. /\ real(c) \in Really /\ c[1] \in DOMAIN trace
        /\ events[c[1]].worker = past[trace[c[1]].at].worker /\ events[c[1]].ts = past[trace[c[1]].at].ts
    BY <1>9, PolledIsReal
  <2>2. events[c[1]].worker = events[i].worker /\ events[c[1]].ts <= events[i].ts
    BY <1>9
  <2>3. trace[c[1]].at \in DOMAIN past /\ events[c[1]].ts \in Nat
    BY <1>5, <2>1, EventFacts
  <2>4. PICK q : q = real(c) /\ q \in Really /\ q[1] = trace[c[1]].at
    BY <2>1
  <2>5. CASE q # p
    <3>1. past[q[1]].worker = past[p[1]].worker /\ past[q[1]].ts <= past[s].ts
      BY <1>1, <2>1, <2>2, <2>4
    <3>2. past[q[1]].ts # past[s].ts /\ past[q[1]].ts # past[p[1]].ts
      BY <2>4, <2>5, <3>1
    <3>3. past[q[1]].ts < past[p[1]].ts
      BY <1>1, <2>4, <3>1, <3>2, StartsBefore
    <3> QED BY <1>7, <2>1, <2>3, <2>4, <3>3
  <2> QED BY <2>3, <2>4, <2>5
<1>10. Sampled(events, i) = {c \in started : /\ \A q \in started : events[q[1]].ts <= events[c[1]].ts
                                             /\ events[i].ts <= events[c[2]].ts}
  BY DEF Sampled, Polled
<1> HIDE DEF started, real
<1>11. a \in Sampled(events, i)
  <2>1. \A q \in started : events[q[1]].ts <= events[a[1]].ts
    <3> TAKE q \in started
    <3>1. CASE real(q) = p
      <4>1. trace[q[1]].at = p[1] /\ q \in Polled
        BY <3>1, <1>3 DEF real, started
      <4>2. events[q[1]].ts = past[p[1]].ts
        BY <4>1, PolledIsReal
      <4> QED BY <1>4, <1>5, <1>7, <4>2
    <3>2. CASE events[q[1]].ts < events[a[1]].ts
      BY <1>8, <1>9, <3>2
    <3> QED BY <1>9, <3>1, <3>2
  <2>2. events[i].ts <= events[a[2]].ts
    BY <1>1, <1>6, <1>7
  <2> QED BY <1>8, <1>10, <2>1, <2>2
<1>12. ASSUME NEW c \in Sampled(events, i) PROVE real(c) = p
  <2>1. c \in started /\ events[a[1]].ts <= events[c[1]].ts
    BY <1>8, <1>10, <1>12
  <2>2. events[a[1]].ts \in Nat /\ events[c[1]].ts \in Nat
    BY <1>8, <1>9, <2>1
  <2> QED BY <1>9, <2>1, <2>2
<1>13. {real(c) : c \in Sampled(events, i)} = {p}
  BY <1>3, <1>11, <1>12
<1> QED BY <1>13 DEF real

\* detect_sampled_polls finds a sample that was written as its worker's in the poll it was
\* taken in and in no other, though it came out of another ring, in a batch and late; on
\* one tick it may choose, but only a poll that has the sample in it by time.
THEOREM SamplesAreAttributed == Spec => []SamplesAttributed
<1>1. Told => SamplesAttributed
  <2> SUFFICES ASSUME Told, NEW i \in Of(events, {"CpuSample"}), events[i].worker = past[trace[i].at].worker
      PROVE LET s == trace[i].at
                chosen == {<<trace[p[1]].at, trace[p[2]].at>> : p \in Sampled(events, i)}
                inside == {p \in Really : p[1] < s /\ s < p[2] /\ past[p[1]].worker = past[s].worker}
            IN  /\ \A p \in inside : (\A q \in Really \ {p} :
                          /\ ~(past[p[1]].ts = past[q[1]].ts /\ past[p[1]].worker = past[q[1]].worker)
                          /\ past[q[1]].ts # past[s].ts) => chosen = {p}
                /\ \A p \in chosen : past[p[1]].ts <= past[s].ts /\ past[s].ts <= past[p[2]].ts
    BY DEF SamplesAttributed, Really
  <2>1. ASSUME NEW p \in Really, p[1] < trace[i].at, trace[i].at < p[2], past[p[1]].worker = past[trace[i].at].worker,
               \A q \in Really \ {p} : /\ ~(past[p[1]].ts = past[q[1]].ts /\ past[p[1]].worker = past[q[1]].worker)
                                       /\ past[q[1]].ts # past[trace[i].at].ts
        PROVE {<<trace[c[1]].at, trace[c[2]].at>> : c \in Sampled(events, i)} = {p}
    BY <2>1, TakenIn
  <2>2. ASSUME NEW c \in Sampled(events, i)
        PROVE past[trace[c[1]].at].ts <= past[trace[i].at].ts /\ past[trace[i].at].ts <= past[trace[c[2]].at].ts
    BY <2>2, ChosenPolls
  <2> QED BY <2>1, <2>2
<1> QED BY <1>1, SpecTold, PTL

-----------------------------------------------------------------------------
(* What filter returns *)

\* f is what was kept of each of the first m members.
Kept(seq, kept, m, f) ==
    f = [n \in 0 .. m |-> IF n = 0 THEN <<>> ELSE IF seq[n] \in kept THEN Append(f[n - 1], seq[n]) ELSE f[n - 1]]

LEMMA KeptExists == ASSUME NEW seq, NEW kept, NEW m \in Nat PROVE \E f : Kept(seq, kept, m, f)
<1> DEFINE T == {n \in Nat : ~ \E f : Kept(seq, kept, n, f)}
<1> SUFFICES ASSUME T # {} PROVE FALSE
  OBVIOUS
<1>1. PICK n \in T : \A k \in T : n <= k
  BY LeastNat, T \subseteq Nat
<1>2. n # 0
  <2> DEFINE g == [k \in 0 .. 0 |-> <<>>]
  <2>1. Kept(seq, kept, 0, g)
    BY DEF Kept
  <2> QED BY <2>1
<1>3. n - 1 \in Nat /\ n - 1 \notin T
  BY <1>1, <1>2
<1>4. PICK f : Kept(seq, kept, n - 1, f)
  BY <1>3
<1> DEFINE g == [k \in 0 .. n |-> IF k < n THEN f[k] ELSE IF seq[n] \in kept THEN Append(f[n - 1], seq[n]) ELSE f[n - 1]]
<1>5. \A k \in 0 .. n : g[k] = IF k = 0 THEN <<>> ELSE IF seq[k] \in kept THEN Append(g[k - 1], seq[k]) ELSE g[k - 1]
  <2>1. \A k \in 0 .. n - 1 :
           f[k] = IF k = 0 THEN <<>> ELSE IF seq[k] \in kept THEN Append(f[k - 1], seq[k]) ELSE f[k - 1]
    BY <1>3, <1>4 DEF Kept
  <2> TAKE k \in 0 .. n
  <2>2. CASE k = n
    <3>1. g[n] = IF seq[n] \in kept THEN Append(f[n - 1], seq[n]) ELSE f[n - 1]
      OBVIOUS
    <3>2. g[n - 1] = f[n - 1]
      BY <1>2, <1>3
    <3> QED BY <1>2, <2>2, <3>1, <3>2
  <2>3. CASE k < n
    <3>1. k \in 0 .. n - 1 /\ g[k] = f[k]
      BY <1>3, <2>3
    <3>2. k # 0 => g[k - 1] = f[k - 1]
      BY <1>3, <2>3
    <3> QED BY <2>1, <3>1, <3>2
  <2> QED BY <2>2, <2>3
<1>6. Kept(seq, kept, n, g)
  <2> DEFINE h == [k \in 0 .. n |-> IF k = 0 THEN <<>> ELSE IF seq[k] \in kept THEN Append(g[k - 1], seq[k]) ELSE g[k - 1]]
  <2>1. DOMAIN g = DOMAIN h /\ \A k \in 0 .. n : g[k] = h[k]
    BY <1>5
  <2>2. g = h
    BY <2>1
  <2> QED BY <2>2 DEF Kept
<1> QED BY <1>6

\* What filter returns is the last of them.
LEMMA FilterKeeps == ASSUME NEW seq, Len(seq) \in Nat, NEW kept
  PROVE \E f : /\ filter(seq, kept) = f[Len(seq)] /\ f[0] = <<>>
               /\ \A n \in 1 .. Len(seq) : f[n] = IF seq[n] \in kept THEN Append(f[n - 1], seq[n]) ELSE f[n - 1]
<1> DEFINE f == CHOOSE f : Kept(seq, kept, Len(seq), f)
<1>1. Kept(seq, kept, Len(seq), f)
  BY KeptExists
<1>2. filter(seq, kept) = f[Len(seq)]
  BY DEF filter, Kept
<1>3. \A n \in 0 .. Len(seq) : f[n] = IF n = 0 THEN <<>> ELSE IF seq[n] \in kept THEN Append(f[n - 1], seq[n]) ELSE f[n - 1]
  BY <1>1 DEF Kept
<1>4. f[0] = <<>> /\ \A n \in 1 .. Len(seq) : f[n] = IF seq[n] \in kept THEN Append(f[n - 1], seq[n]) ELSE f[n - 1]
  BY <1>3
<1> QED BY <1>2, <1>4

\* What is kept is of the set, and is all if all is.
LEMMA FilterFacts == ASSUME NEW S, NEW seq \in Seq(S), NEW kept
  PROVE /\ filter(seq, kept) \in Seq(S \intersect kept)
        /\ (\A n \in 1 .. Len(seq) : seq[n] \in kept) => filter(seq, kept) = seq
        /\ (\A n \in 1 .. Len(seq) : seq[n] \notin kept) => filter(seq, kept) = <<>>
<1> DEFINE l == Len(seq)
<1>0. l \in Nat /\ \A n \in 1 .. l : seq[n] \in S
  OBVIOUS
<1>1. PICK f : /\ filter(seq, kept) = f[l] /\ f[0] = <<>>
               /\ \A n \in 1 .. l : f[n] = IF seq[n] \in kept THEN Append(f[n - 1], seq[n]) ELSE f[n - 1]
  BY <1>0, FilterKeeps
<1> HIDE DEF l
<1> DEFINE Good(n) == /\ f[n] \in Seq(S \intersect kept)
                      /\ (\A k \in 1 .. l : seq[k] \in kept) => Len(f[n]) = n /\ \A k \in 1 .. n : f[n][k] = seq[k]
                      /\ (\A k \in 1 .. l : seq[k] \notin kept) => f[n] = <<>>
           T == {n \in 0 .. l : ~Good(n)}
<1>2. T = {}
  <2> SUFFICES ASSUME T # {} PROVE FALSE
    OBVIOUS
  <2>1. PICK n \in T : \A k \in T : n <= k
    BY <1>0, LeastNat, T \subseteq Nat
  <2>2. n # 0
    <3>1. Good(0)
      BY <1>1
    <3> QED BY <2>1, <3>1
  <2>3. n \in 1 .. l /\ n - 1 \in 0 .. l /\ n - 1 \notin T
    BY <1>0, <2>1, <2>2
  <2>4. Good(n - 1)
    BY <2>3
  <2>5. f[n] = IF seq[n] \in kept THEN Append(f[n - 1], seq[n]) ELSE f[n - 1]
    BY <1>1, <2>3
  <2>6. CASE seq[n] \notin kept
    <3>1. f[n] = f[n - 1]
      BY <2>5, <2>6
    <3>2. Good(n)
      BY <2>3, <2>4, <2>6, <3>1
    <3> QED BY <2>1, <3>2
  <2>7. CASE seq[n] \in kept
    <3> DEFINE K == S \intersect kept
    <3>1. f[n - 1] \in Seq(K) /\ seq[n] \in K
      BY <1>0, <2>3, <2>4, <2>7
    <3> HIDE DEF K
    <3>2. /\ f[n] \in Seq(K) /\ Len(f[n]) = Len(f[n - 1]) + 1 /\ f[n][Len(f[n - 1]) + 1] = seq[n]
          /\ \A k \in 1 .. Len(f[n - 1]) : f[n][k] = f[n - 1][k]
      BY <2>5, <2>7, <3>1, Appended
    <3>3. ASSUME \A k \in 1 .. l : seq[k] \in kept PROVE Len(f[n]) = n /\ \A k \in 1 .. n : f[n][k] = seq[k]
      <4>1. Len(f[n - 1]) = n - 1 /\ \A k \in 1 .. n - 1 : f[n - 1][k] = seq[k]
        BY <2>4, <3>3
      <4> QED BY <2>3, <3>2, <4>1
    <3>4. Good(n)
      BY <2>3, <2>7, <3>2, <3>3 DEF K
    <3> QED BY <2>1, <3>4
  <2> QED BY <2>6, <2>7
<1>3. Good(l)
  BY <1>0, <1>2, l \in 0 .. l
<1>4. ASSUME \A n \in 1 .. l : seq[n] \in kept PROVE f[l] = seq
  <2>1. Len(f[l]) = l /\ (\A k \in 1 .. l : f[l][k] = seq[k]) /\ f[l] \in Seq(S)
    BY <1>3, <1>4
  <2> HIDE DEF Good, T
  <2> QED BY <2>1, SameSeq DEF l
<1> HIDE DEF T
<1> QED BY <1>1, <1>3, <1>4 DEF l

LEMMA AppendJoined == ASSUME NEW S, NEW a \in Seq(S), NEW b \in Seq(S), NEW e \in S
  PROVE Append(a \o b, e) = a \o Append(b, e) /\ Append(b, e) \in Seq(S)
<1> DEFINE one == Append(a \o b, e)
           two == a \o Append(b, e)
<1>1. Append(b, e) \in Seq(S) /\ a \o b \in Seq(S)
  OBVIOUS
<1>2. one \in Seq(S) /\ two \in Seq(S) /\ Len(one) = Len(a) + Len(b) + 1 /\ Len(two) = Len(one)
  BY <1>1
<1>3. \A i \in 1 .. Len(one) : one[i] = two[i]
  BY <1>1, <1>2
<1> HIDE DEF one, two
<1>4. one = two
  BY <1>2, <1>3, SameSeq
<1> QED BY <1>1, <1>4 DEF one, two

\* Two parts are filtered each on its own.
LEMMA FilterParts == ASSUME NEW S, NEW s \in Seq(S), NEW t \in Seq(S), NEW kept
  PROVE filter(s \o t, kept) = filter(s, kept) \o filter(t, kept)
<1> DEFINE l == Len(s)
           m == Len(t)
           w == s \o t
<1>1. /\ l \in Nat /\ m \in Nat /\ w \in Seq(S) /\ Len(w) = l + m
      /\ (\A i \in 1 .. l : w[i] = s[i]) /\ \A i \in 1 .. m : w[l + i] = t[i]
  OBVIOUS
<1>2. PICK f : /\ filter(w, kept) = f[l + m] /\ f[0] = <<>>
               /\ \A n \in 1 .. l + m : f[n] = IF w[n] \in kept THEN Append(f[n - 1], w[n]) ELSE f[n - 1]
  <2>1. Len(w) \in Nat
    BY <1>1
  <2>2. Len(w) = l + m
    BY <1>1
  <2> HIDE DEF l, m, w
  <2>3. \E f : /\ filter(w, kept) = f[Len(w)] /\ f[0] = <<>>
               /\ \A n \in 1 .. Len(w) : f[n] = IF w[n] \in kept THEN Append(f[n - 1], w[n]) ELSE f[n - 1]
    BY <2>1, FilterKeeps
  <2> QED BY <2>2, <2>3
<1>3. PICK g : /\ filter(s, kept) = g[l] /\ g[0] = <<>>
               /\ \A n \in 1 .. l : g[n] = IF s[n] \in kept THEN Append(g[n - 1], s[n]) ELSE g[n - 1]
  BY <1>1, FilterKeeps
<1>4. PICK h : /\ filter(t, kept) = h[m] /\ h[0] = <<>>
               /\ \A n \in 1 .. m : h[n] = IF t[n] \in kept THEN Append(h[n - 1], t[n]) ELSE h[n - 1]
  BY <1>1, FilterKeeps
<1>5. w \in Seq(S) /\ \A i \in 1 .. m : t[i] \in S
  BY <1>1
<1> HIDE DEF l, m, w
<1>6. \A n \in 0 .. l : f[n] = g[n]
  <2> DEFINE T == {n \in 0 .. l : f[n] # g[n]}
  <2> SUFFICES ASSUME T # {} PROVE FALSE
    OBVIOUS
  <2>1. PICK n \in T : \A k \in T : n <= k
    BY <1>1, LeastNat, T \subseteq Nat
  <2>2. n # 0
    BY <1>2, <1>3, <2>1
  <2>3. n \in 1 .. l /\ n - 1 \in 0 .. l /\ n - 1 \notin T /\ n \in 1 .. l + m
    BY <1>1, <2>1, <2>2
  <2>4. f[n - 1] = g[n - 1] /\ w[n] = s[n]
    BY <1>1, <2>3
  <2>5. f[n] = IF w[n] \in kept THEN Append(f[n - 1], w[n]) ELSE f[n - 1]
    BY <1>2, <2>3
  <2>6. g[n] = IF s[n] \in kept THEN Append(g[n - 1], s[n]) ELSE g[n - 1]
    BY <1>3, <2>3
  <2> QED BY <2>1, <2>4, <2>5, <2>6
<1>7. PICK a \in Seq(S) : a = f[l] /\ a = g[l]
  <2>1. filter(s, kept) \in Seq(S \intersect kept)
    BY FilterFacts
  <2> QED BY <1>1, <1>3, <1>6, <2>1, l \in 0 .. l
<1> DEFINE Good(n) == h[n] \in Seq(S) /\ f[l + n] = a \o h[n]
           T == {n \in 0 .. m : ~Good(n)}
<1>8. T = {}
  <2> SUFFICES ASSUME T # {} PROVE FALSE
    OBVIOUS
  <2>1. PICK n \in T : \A k \in T : n <= k
    BY <1>1, LeastNat, T \subseteq Nat
  <2>2. n # 0
    <3>1. h[0] = <<>> /\ l + 0 = l /\ <<>> \in Seq(S)
      BY <1>1, <1>4
    <3>2. a \o <<>> = a
      BY <1>7
    <3>3. f[l + 0] = a \o h[0] /\ h[0] \in Seq(S)
      BY ONLY <1>7, <3>1, <3>2, Zenon
    <3>4. Good(0)
      BY <3>3
    <3> QED BY <2>1, <3>4
  <2>3. n \in 1 .. m /\ n - 1 \in 0 .. m /\ n - 1 \notin T /\ l + n \in 1 .. l + m /\ (l + n) - 1 = l + (n - 1)
    <3>1. n \in 0 .. m
      BY <2>1
    <3>2. n \in 1 .. m /\ n - 1 \in 0 .. m /\ l + n \in 1 .. l + m /\ (l + n) - 1 = l + (n - 1) /\ ~(n <= n - 1)
      <4>1. l \in Nat /\ m \in Nat
        BY <1>1
      <4> QED BY ONLY <2>2, <3>1, <4>1
    <3>3. ~(n - 1 \in T)
      BY <2>1, <3>2
    <3> QED BY <3>2, <3>3
  <2>4. Good(n - 1) /\ w[l + n] = t[n] /\ t[n] \in S
    BY <1>1, <1>5, <2>3
  <2>5. f[l + n] = IF w[l + n] \in kept THEN Append(f[l + (n - 1)], w[l + n]) ELSE f[l + (n - 1)]
    BY <1>2, <2>3
  <2>6. h[n] = IF t[n] \in kept THEN Append(h[n - 1], t[n]) ELSE h[n - 1]
    BY <1>4, <2>3
  <2>7. Append(a \o h[n - 1], t[n]) = a \o Append(h[n - 1], t[n]) /\ Append(h[n - 1], t[n]) \in Seq(S)
    <3>1. \A b \in Seq(S), e \in S : Append(a \o b, e) = a \o Append(b, e) /\ Append(b, e) \in Seq(S)
      BY <1>7, AppendJoined
    <3> QED BY <2>4, <3>1
  <2>8. Good(n)
    BY <2>4, <2>5, <2>6, <2>7
  <2> QED BY <2>1, <2>8
<1>9. Good(m)
  BY <1>1, <1>8, m \in 0 .. m
<1> QED BY <1>2, <1>3, <1>4, <1>7, <1>9 DEF w

-----------------------------------------------------------------------------
(* The fields of a sample *)

\* There are Byte times as many numbers of one byte more.
LEMMA NumbersGrow == Numbers[0] = 1 /\ \A n \in 1 .. 8 : Numbers[n] = Byte * Numbers[n - 1] /\ Numbers[n] \in Nat \ {0}
<1> DEFINE Count(f) == f = [n \in 0 .. 8 |-> IF n = 0 THEN 1 ELSE Byte * f[n - 1]]
           b == Byte
<1>0. b \in Nat \ {0}
  BY ByteAssumption
<1> HIDE DEF b
<1>1. PICK v1 : v1 = b * 1 /\ v1 \in Nat \ {0}
  BY <1>0
<1>2. PICK v2 : v2 = b * v1 /\ v2 \in Nat \ {0}
  BY <1>0, <1>1
<1>3. PICK v3 : v3 = b * v2 /\ v3 \in Nat \ {0}
  BY <1>0, <1>2
<1>4. PICK v4 : v4 = b * v3 /\ v4 \in Nat \ {0}
  BY <1>0, <1>3
<1>5. PICK v5 : v5 = b * v4 /\ v5 \in Nat \ {0}
  BY <1>0, <1>4
<1>6. PICK v6 : v6 = b * v5 /\ v6 \in Nat \ {0}
  BY <1>0, <1>5
<1>7. PICK v7 : v7 = b * v6 /\ v7 \in Nat \ {0}
  BY <1>0, <1>6
<1>8. PICK v8 : v8 = b * v7 /\ v8 \in Nat \ {0}
  BY <1>0, <1>7
<1> DEFINE g == [n \in 0 .. 8 |-> IF n = 0 THEN 1 ELSE IF n = 1 THEN v1 ELSE IF n = 2 THEN v2 ELSE IF n = 3 THEN v3
                                  ELSE IF n = 4 THEN v4 ELSE IF n = 5 THEN v5 ELSE IF n = 6 THEN v6
                                  ELSE IF n = 7 THEN v7 ELSE v8]
<1>9. \A n \in 0 .. 8 : g[n] = IF n = 0 THEN 1 ELSE Byte * g[n - 1]
  BY <1>1, <1>2, <1>3, <1>4, <1>5, <1>6, <1>7, <1>8 DEF b
<1>10. Count(g)
  <2> DEFINE h == [n \in 0 .. 8 |-> IF n = 0 THEN 1 ELSE Byte * g[n - 1]]
  <2>1. DOMAIN g = DOMAIN h /\ \A n \in 0 .. 8 : g[n] = h[n]
    BY <1>9
  <2> QED BY <2>1
<1>11. Numbers = CHOOSE f : Count(f)
  BY DEF Numbers
<1>12. Count(Numbers)
  <2> HIDE DEF Count
  <2> QED BY <1>10, <1>11
<1>13. \A n \in 0 .. 8 : Numbers[n] = IF n = 0 THEN 1 ELSE Byte * Numbers[n - 1]
  BY <1>12
<1> HIDE DEF Count
<1>14. Numbers[0] = 1 /\ \A n \in 1 .. 8 : Numbers[n] = Byte * Numbers[n - 1]
  BY <1>13
<1>15. \A n \in 1 .. 8 : Numbers[n] \in Nat \ {0}
  <2> DEFINE T == {n \in 1 .. 8 : Numbers[n] \notin Nat \ {0}}
  <2> SUFFICES ASSUME T # {} PROVE FALSE
    OBVIOUS
  <2>1. PICK n \in T : \A k \in T : n <= k
    BY LeastNat, T \subseteq Nat
  <2>2. Numbers[n - 1] \in Nat \ {0}
    <3>1. n = 1 \/ n - 1 \in 1 .. 8
      BY <2>1
    <3>2. n = 1 => Numbers[n - 1] = 1
      BY <1>14
    <3>3. n - 1 \in 1 .. 8 => n - 1 \notin T
      BY <2>1
    <3> QED BY <3>1, <3>2, <3>3
  <2>3. \A x \in Nat \ {0} : Byte * x \in Nat \ {0}
    BY ByteAssumption
  <2>4. n \in 1 .. 8 /\ Numbers[n] = Byte * Numbers[n - 1]
    BY <1>14, <2>1
  <2> QED BY <2>1, <2>2, <2>3, <2>4
<1> QED BY <1>14, <1>15

Bytes == Seq(0 .. Byte - 1)

\* f is what so many of the last bytes come to.
Upper(bytes, m, f) == f = [n \in 0 .. m |-> IF n = 0 THEN 0 ELSE Byte * f[n - 1] + bytes[Len(bytes) + 1 - n]]

LEMMA UpperExists == ASSUME NEW bytes, NEW m \in Nat PROVE \E f : Upper(bytes, m, f)
<1> DEFINE last(n) == bytes[Len(bytes) + 1 - n]
           up(x, n) == Byte * x + last(n)
           T == {n \in Nat : ~ \E f : Upper(bytes, n, f)}
<1>0. \A n, f : Upper(bytes, n, f) <=> f = [k \in 0 .. n |-> IF k = 0 THEN 0 ELSE up(f[k - 1], k)]
  BY DEF Upper
<1> HIDE DEF up
<1> SUFFICES ASSUME T # {} PROVE FALSE
  OBVIOUS
<1>1. PICK n \in T : \A k \in T : n <= k
  BY LeastNat, T \subseteq Nat
<1>2. n # 0
  <2> DEFINE g == [k \in 0 .. 0 |-> 0]
  <2>1. g = [k \in 0 .. 0 |-> IF k = 0 THEN 0 ELSE up(g[k - 1], k)]
    OBVIOUS
  <2> HIDE DEF g
  <2>2. Upper(bytes, 0, g)
    BY <1>0, <2>1
  <2> QED BY <2>2
<1>3. n - 1 \in Nat /\ n - 1 \notin T
  BY <1>1, <1>2
<1>4. PICK f : Upper(bytes, n - 1, f)
  BY <1>3
<1>5. f = [k \in 0 .. n - 1 |-> IF k = 0 THEN 0 ELSE up(f[k - 1], k)]
  BY <1>0, <1>4
<1> DEFINE g == [k \in 0 .. n |-> IF k < n THEN f[k] ELSE up(f[n - 1], n)]
<1>6. \A k \in 0 .. n : g[k] = IF k = 0 THEN 0 ELSE up(g[k - 1], k)
  <2> TAKE k \in 0 .. n
  <2>1. CASE k = n
    BY <1>2, <1>3, <2>1
  <2>2. CASE k < n
    <3>1. k \in 0 .. n - 1 /\ g[k] = f[k] /\ (k # 0 => g[k - 1] = f[k - 1])
      BY <1>3, <2>2
    <3> QED BY <1>5, <3>1
  <2> QED BY <2>1, <2>2
<1>7. g = [k \in 0 .. n |-> IF k = 0 THEN 0 ELSE up(g[k - 1], k)]
  <2> DEFINE h == [k \in 0 .. n |-> IF k = 0 THEN 0 ELSE up(g[k - 1], k)]
  <2>1. DOMAIN g = DOMAIN h /\ \A k \in 0 .. n : g[k] = h[k]
    BY <1>6
  <2> QED BY <2>1
<1> HIDE DEF g
<1>8. Upper(bytes, n, g)
  BY <1>0, <1>7
<1> QED BY <1>8

\* A number is one of those there are of so many bytes.
LEMMA UnsignedBounds == ASSUME NEW bytes \in Bytes, Len(bytes) \in 0 .. 8
  PROVE Unsigned(bytes) \in Nat /\ Unsigned(bytes) < Numbers[Len(bytes)]
<1> DEFINE l == Len(bytes)
           f == CHOOSE f : Upper(bytes, l, f)
<1>1. Upper(bytes, l, f)
  BY UpperExists
<1>2. Unsigned(bytes) = f[l]
  BY DEF Unsigned, Upper
<1> HIDE DEF f
<1>3. f[0] = 0 /\ \A n \in 1 .. l : f[n] = Byte * f[n - 1] + bytes[l + 1 - n]
  <2>1. \A n \in 0 .. l : f[n] = IF n = 0 THEN 0 ELSE Byte * f[n - 1] + bytes[l + 1 - n]
    BY <1>1 DEF Upper
  <2> QED BY <2>1
<1>4. \A n \in 1 .. l : bytes[l + 1 - n] \in 0 .. Byte - 1
  <2> DEFINE B == 0 .. Byte - 1
  <2>0. bytes \in Seq(B)
    BY DEF Bytes
  <2> HIDE DEF B
  <2>1. l \in Nat /\ \A i \in 1 .. l : bytes[i] \in B
    BY <2>0
  <2> HIDE DEF l
  <2>2. \A n \in 1 .. l : l + 1 - n \in 1 .. l
    BY <2>1
  <2> QED BY <2>1, <2>2 DEF B
<1>5. l \in 0 .. 8
  OBVIOUS
<1> HIDE DEF l
<1> DEFINE Good(n) == f[n] \in Nat /\ f[n] < Numbers[n]
           T == {n \in 0 .. l : ~Good(n)}
<1>6. T = {}
  <2> SUFFICES ASSUME T # {} PROVE FALSE
    OBVIOUS
  <2>1. PICK n \in T : \A k \in T : n <= k
    BY <1>5, LeastNat, T \subseteq Nat
  <2>2. n # 0
    <3>1. Good(0)
      BY <1>3, NumbersGrow
    <3> QED BY <2>1, <3>1
  <2>3. n \in 1 .. l /\ n - 1 \in 0 .. l /\ n - 1 \notin T /\ n \in 1 .. 8
    BY <1>5, <2>1, <2>2
  <2>4. f[n] = Byte * f[n - 1] + bytes[l + 1 - n] /\ bytes[l + 1 - n] \in 0 .. Byte - 1
    BY <1>3, <1>4, <2>3
  <2>5. Numbers[n] = Byte * Numbers[n - 1] /\ Numbers[n - 1] \in Nat
    <3>1. Numbers[n] = Byte * Numbers[n - 1]
      BY <2>3, NumbersGrow
    <3>2. n - 1 = 0 \/ n - 1 \in 1 .. 8
      BY <2>3
    <3> QED BY <3>1, <3>2, NumbersGrow
  <2>6. PICK x \in Nat, e \in 0 .. Byte - 1, v \in Nat : x = f[n - 1] /\ e = bytes[l + 1 - n] /\ v = Numbers[n - 1] /\ x < v
    BY <2>3, <2>4, <2>5
  <2>7. Byte * x + e \in Nat /\ Byte * x + e < Byte * v
    <3>1. x + 1 <= v /\ Byte \in Nat /\ e <= Byte - 1 /\ e \in Nat
      BY <2>6, ByteAssumption
    <3>2. Byte * (x + 1) <= Byte * v /\ Byte * (x + 1) = Byte * x + Byte /\ Byte * x \in Nat /\ Byte * v \in Nat
      BY <3>1
    <3> QED BY <3>1, <3>2
  <2>8. Good(n)
    BY <2>4, <2>5, <2>6, <2>7
  <2> QED BY <2>1, <2>8
<1>7. Good(l)
  BY <1>5, <1>6, l \in 0 .. l
<1> QED BY <1>2, <1>7 DEF l

LEMMA PartOf == ASSUME NEW S, NEW raw \in Seq(S), NEW offset \in Nat, NEW size \in Nat, offset + size <= Len(raw)
  PROVE Part(raw, offset, size) \in Seq(S) /\ Len(Part(raw, offset, size)) = size
<1> DEFINE p == Part(raw, offset, size)
<1>1. p = SubSeq(raw, offset + 1, offset + size)
  BY DEF Part
<1> QED BY <1>1

\* A string ends before its first nul.
LEMMA NoNul == ASSUME NEW bytes \in Seq(Nat) PROVE \A k \in DOMAIN nul_terminated_str(bytes) : nul_terminated_str(bytes)[k] # 0
<1> DEFINE nuls == {i \in DOMAIN bytes : bytes[i] = 0}
           t == nul_terminated_str(bytes)
<1>1. CASE nuls = {}
  <2>1. t = bytes
    BY <1>1 DEF nul_terminated_str
  <2> QED BY <1>1, <2>1
<1>2. CASE nuls # {}
  <2>1. PICK m \in nuls : \A y \in nuls : m <= y
    BY <1>2, LeastNat, nuls \subseteq Nat
  <2>2. Min(nuls) \in nuls /\ \A y \in nuls : Min(nuls) <= y
    BY <2>1 DEF Min
  <2>3. t = SubSeq(bytes, 1, Min(nuls) - 1)
    BY <1>2 DEF nul_terminated_str
  <2>4. PICK l \in Nat : l = Len(bytes) /\ DOMAIN bytes = 1 .. l
    OBVIOUS
  <2>5. PICK n \in 1 .. l : n = Min(nuls) /\ n \in nuls /\ \A y \in nuls : n <= y
    <3>1. Min(nuls) \in 1 .. l
      BY <2>2, <2>4
    <3> QED BY <2>2, <3>1
  <2>6. DOMAIN t = 1 .. n - 1 /\ \A k \in 1 .. n - 1 : t[k] = bytes[k]
    <3>1. t = SubSeq(bytes, 1, n - 1) /\ n - 1 \in 0 .. Len(bytes)
      BY <2>3, <2>4, <2>5
    <3> HIDE DEF t
    <3> QED BY <3>1
  <2>7. ASSUME NEW k \in 1 .. n - 1 PROVE bytes[k] # 0
    <3>1. k \in DOMAIN bytes /\ ~(n <= k)
      BY <2>4
    <3> QED BY <2>5, <3>1
  <2> QED BY <2>6, <2>7
<1> QED BY <1>1, <1>2

\* a field of the kernel's that is read
KernelField(f) ==
    /\ f.offset \in Nat /\ f.size \in Nat
    /\ f.signed \in BOOLEAN /\ f.chars \in BOOLEAN /\ f.dynamic \in BOOLEAN
    /\ f.dynamic => f.size = 4

\* The fields of the format are lines of the file that have an offset and a size.
LEMMA FormatFields == \A j \in DOMAIN parse_format(Format).fields : KernelField(parse_format(Format).fields[j])
<1> DEFINE own == {i \in {i \in DOMAIN Format : Format[i].key = "field"} :
                      parse_field_line(Format[i]) /\ ~Format[i].common}
           kept == {Format[i] : i \in own}
<1>1. parse_format(Format).fields = filter(Format, kept)
  <2>1. parse_format(Format) # Error
    BY ProfilerAssumption
  <2> HIDE DEF kept
  <2>2. parse_format(Format).fields = filter(Format, {Format[i] : i \in own})
    BY <2>1 DEF parse_format
  <2> QED BY <2>2 DEF kept
<1>2. filter(Format, kept) \in Seq(Line \intersect kept)
  <2>1. Format \in Seq(Line)
    BY ProfilerAssumption
  <2> HIDE DEF kept
  <2> QED BY <2>1, FilterFacts
<1>3. ASSUME NEW x \in Line \intersect kept PROVE KernelField(x)
  <2>1. x \in Line /\ x.key = "field" /\ x.offset # Missing /\ x.size # Missing
    BY DEF parse_field_line
  <2>2. x \in FieldLine(Nat, FALSE) \/ x \in FieldLine({4}, TRUE)
    BY <2>1 DEF Line
  <2>3. CASE x \in FieldLine(Nat, FALSE)
    BY <2>1, <2>3 DEF FieldLine, KernelField
  <2>4. CASE x \in FieldLine({4}, TRUE)
    <3>1. /\ x.offset \in Nat \union {Missing} /\ x.size \in {4} \union {Missing}
          /\ x.signed \in BOOLEAN /\ x.chars \in BOOLEAN /\ x.dynamic \in {TRUE}
      BY <2>4 DEF FieldLine
    <3>2. x.offset \in Nat /\ x.size = 4 /\ x.dynamic = TRUE
      BY <2>1, <3>1
    <3>3. x.size \in Nat
      BY <3>2
    <3>4. x.dynamic \in BOOLEAN
      BY <3>2, Zenon
    <3> QED BY <3>1, <3>2, <3>3, <3>4, Zenon DEF KernelField
  <2> QED BY <2>2, <2>3, <2>4
<1> DEFINE fields == filter(Format, kept)
           K == Line \intersect kept
<1> HIDE DEF fields, K
<1>4. \A j \in DOMAIN fields : fields[j] \in K
  <2>1. fields \in Seq(K)
    BY <1>2 DEF fields, K
  <2> QED BY <2>1
<1> QED BY <1>1, <1>3, <1>4 DEF fields, K

\* what extract_fields has of a field
Extracted(raw, f) ==
    IF f.dynamic THEN [type |-> "Str", value |-> nul_terminated_str(Part(raw, DataOffset(raw, f), DataLength(raw, f)))]
    ELSE extract_field_value(Part(raw, f.offset, f.size), f)

LEMMA BytesAre == ASSUME NEW bytes \in Bytes PROVE bytes \in Seq(Nat)
<1>1. 0 .. Byte - 1 \subseteq Nat
  OBVIOUS
<1> QED BY <1>1, NumbersAre DEF Bytes

\* A number modulo the count of numbers is itself, and so it is less that count.
LEMMA ModNumbers == ASSUME NEW m \in Nat \ {0}, NEW n \in Nat, n < m PROVE n % m = n /\ (n - m) % m = n
<1>1. n % m = n
  OBVIOUS
<1>2. (n - m) % m = n
  <2>1. PICK d \in Int : d = n - m
    OBVIOUS
  <2>2. d % m \in 0 .. m - 1 /\ d = m * (d \div m) + (d % m) /\ d \div m \in Int
    OBVIOUS
  <2>3. PICK q \in Int, r \in 0 .. m - 1 : d = m * q + r /\ r = d % m
    BY <2>2
  <2>4. n = m * (q + 1) + r
    <3>1. m * (q + 1) = m * q + m /\ m * q \in Int
      OBVIOUS
    <3> QED BY <2>1, <2>3, <3>1
  <2>5. q + 1 = 0
    <3>1. q + 1 >= 1 => m * (q + 1) >= m
      OBVIOUS
    <3>2. q + 1 <= -1 => m * (q + 1) <= -m
      OBVIOUS
    <3>3. m * (q + 1) \in Int
      OBVIOUS
    <3> QED BY <2>4, <3>1, <3>2, <3>3
  <2>6. d % m = n
    BY <2>3, <2>4, <2>5
  <2> QED BY <2>1, <2>6
<1> QED BY <1>1, <1>2

\* A field that is readable is read as what it is, and under the type the schema gives it.
LEMMA FieldRead == ASSUME NEW raw \in Bytes, NEW f, KernelField(f), Readable(raw, f)
  PROVE LET value == raw_to_trace_format_value(Extracted(raw, f))
        IN  /\ Means(raw, f, value.value)
            /\ \/ value.type = kernel_field_to_trace_format(f)
               \/ f.size \in {3, 5, 6, 7} /\ value.type = "Bytes"
<1> DEFINE x == Extracted(raw, f)
           value == raw_to_trace_format_value(x)
           bytes == Part(raw, f.offset, f.size)
<1>1. f.offset \in Nat /\ f.size \in Nat /\ f.offset + f.size <= Len(raw) /\ Len(raw) \in Nat
  BY DEF KernelField, Readable, Bytes
<1>2. bytes \in Bytes /\ Len(bytes) = f.size
  BY <1>1, PartOf DEF Bytes
<1>3. value.value = x.value /\ (x.type = "U" => value.type = "Varint") /\ (x.type = "I" => value.type = "I64")
      /\ (x.type = "Str" => value.type = "String") /\ (x.type = "Bytes" => value.type = "Bytes")
  <2> HIDE DEF x
  <2> QED BY DEF raw_to_trace_format_value
<1>4. f.signed \in BOOLEAN /\ f.chars \in BOOLEAN /\ f.dynamic \in BOOLEAN
  BY DEF KernelField
<1>5. CASE f.dynamic
  <2>1. f.size = 4 /\ DataOffset(raw, f) + DataLength(raw, f) <= Len(raw)
    BY <1>5 DEF KernelField, Readable
  <2>2. DataOffset(raw, f) \in Nat
    <3>1. f.offset + 2 \in Nat /\ f.offset + 2 + 2 <= Len(raw)
      BY <1>1, <2>1
    <3>2. Part(raw, f.offset + 2, 2) \in Bytes /\ Len(Part(raw, f.offset + 2, 2)) = 2
      BY <3>1, PartOf DEF Bytes
    <3> QED BY <3>2, UnsignedBounds DEF DataOffset
  <2>3. DataLength(raw, f) \in Nat
    <3>1. f.offset + 2 <= Len(raw)
      BY <1>1, <2>1
    <3>2. Part(raw, f.offset, 2) \in Bytes /\ Len(Part(raw, f.offset, 2)) = 2
      BY <1>1, <3>1, PartOf DEF Bytes
    <3> QED BY <3>2, UnsignedBounds DEF DataLength
  <2>4. Part(raw, DataOffset(raw, f), DataLength(raw, f)) \in Bytes
    BY <2>1, <2>2, <2>3, PartOf DEF Bytes
  <2>5. PICK d \in Seq(Nat) : d = Part(raw, DataOffset(raw, f), DataLength(raw, f))
    BY <2>4, BytesAre
  <2>6. x.type = "Str" /\ x.value = nul_terminated_str(d)
    BY <1>5, <2>5 DEF Extracted
  <2>7. \A k \in DOMAIN nul_terminated_str(d) : nul_terminated_str(d)[k] # 0
    BY NoNul
  <2>8. kernel_field_to_trace_format(f) = "String"
    BY <1>5 DEF kernel_field_to_trace_format
  <2> HIDE DEF x, value
  <2> QED BY <1>3, <1>5, <2>6, <2>7, <2>8 DEF Means, x, value
<1>6. CASE ~f.dynamic /\ f.chars
  <2>1. x = extract_field_value(bytes, f)
    BY <1>6 DEF Extracted
  <2>2. extract_field_value(bytes, f) = [type |-> "Str", value |-> nul_terminated_str(bytes)]
    BY <1>6 DEF extract_field_value
  <2>3. x.type = "Str" /\ x.value = nul_terminated_str(bytes)
    BY <2>1, <2>2
  <2>4. \A k \in DOMAIN nul_terminated_str(bytes) : nul_terminated_str(bytes)[k] # 0
    BY <1>2, BytesAre, NoNul
  <2>5. kernel_field_to_trace_format(f) = "String"
    BY <1>6 DEF kernel_field_to_trace_format, kernel_type_to_field_type
  <2> HIDE DEF x, value, bytes
  <2> QED BY <1>3, <1>6, <2>3, <2>4, <2>5 DEF Means, x, value
<1>7. CASE ~f.dynamic /\ ~f.chars /\ f.size \in {1, 2, 4, 8}
  <2>1. x = extract_field_value(bytes, f)
    BY <1>7 DEF Extracted
  <2>2. extract_field_value(bytes, f) = IF f.signed THEN [type |-> "I", value |-> TwosComplement(bytes)]
                                                    ELSE [type |-> "U", value |-> Unsigned(bytes)]
    BY <1>7 DEF extract_field_value
  <2>3. PICK n, m : /\ n = Unsigned(bytes) /\ n \in Nat /\ n < m
                    /\ m = Numbers[f.size] /\ m \in Nat \ {0}
    <3>1. f.size \in 1 .. 8
      BY <1>7
    <3>2. Numbers[f.size] \in Nat \ {0}
      BY <3>1, NumbersGrow
    <3>3. Unsigned(bytes) \in Nat /\ Unsigned(bytes) < Numbers[f.size]
      <4> HIDE DEF bytes
      <4>1. Len(bytes) \in 0 .. 8
        BY <1>2, <3>1
      <4>2. Unsigned(bytes) \in Nat /\ Unsigned(bytes) < Numbers[Len(bytes)]
        BY <1>2, <4>1, UnsignedBounds
      <4> QED BY <1>2, <4>2
    <3> QED BY <3>2, <3>3
  <2>4. n % m = n /\ (n - m) % m = n
    BY <2>3, ModNumbers
  <2>5. kernel_field_to_trace_format(f) = IF f.signed THEN "I64" ELSE "Varint"
    BY <1>7 DEF kernel_field_to_trace_format, kernel_type_to_field_type
  <2>6. CASE f.signed
    <3>1. x.type = "I" /\ x.value = IF 2 * n >= m THEN n - m ELSE n
      BY <1>2, <2>1, <2>2, <2>3, <2>6 DEF TwosComplement
    <3>2. PICK v \in Int : v = x.value /\ v % m = n /\ -m <= 2 * v /\ 2 * v < m
      BY <2>3, <2>4, <3>1
    <3> HIDE DEF x, value, bytes
    <3>3. v % Numbers[f.size] = Unsigned(bytes) /\ -Numbers[f.size] <= 2 * v /\ 2 * v < Numbers[f.size]
      BY <2>3, <3>2
    <3>4. Means(raw, f, v)
      BY <1>7, <2>6, <3>3 DEF Means, bytes
    <3> QED BY <1>3, <2>5, <2>6, <3>1, <3>2, <3>4 DEF x, value
  <2>7. CASE ~f.signed
    <3>1. x.type = "U" /\ x.value = n
      BY <2>1, <2>2, <2>3, <2>7
    <3> HIDE DEF x, value, bytes
    <3>2. n % Numbers[f.size] = Unsigned(bytes) /\ 0 <= n /\ n < Numbers[f.size]
      BY <2>3, <2>4
    <3>3. Means(raw, f, n)
      BY <1>7, <2>7, <3>2 DEF Means, bytes
    <3> QED BY <1>3, <2>5, <2>7, <3>1, <3>3 DEF x, value
  <2> QED BY <1>4, <2>6, <2>7
<1>8. CASE ~f.dynamic /\ ~f.chars /\ f.size \notin {1, 2, 4, 8}
  <2>1. x = extract_field_value(bytes, f)
    BY <1>8 DEF Extracted
  <2>2. extract_field_value(bytes, f) = [type |-> "Bytes", value |-> bytes]
    BY <1>8 DEF extract_field_value
  <2>3. x.type = "Bytes" /\ x.value = bytes
    BY <2>1, <2>2
  <2>4. kernel_field_to_trace_format(f) = "Bytes" \/ f.size \in {3, 5, 6, 7}
    BY <1>1, <1>8 DEF kernel_field_to_trace_format, kernel_type_to_field_type
  <2> HIDE DEF x, value
  <2> QED BY <1>3, <1>8, <2>3, <2>4 DEF Means, x, value
<1> QED BY <1>4, <1>5, <1>6, <1>7, <1>8

\* Whatever a record holds, its fields are read right or not at all.
LEMMA FieldsRight == ASSUME NEW raw \in Bytes PROVE RightFields(raw, encode_raw(parse_format(Format), raw))
<1> DEFINE def == parse_format(Format)
           result == encode_raw(def, raw)
           bad == \E j \in DOMAIN def.fields : ~Readable(raw, def.fields[j])
           types == to_trace_format_fields(def)
<1>1. CASE bad
  <2>1. extract_fields(def, raw) = Error
    BY <1>1 DEF extract_fields
  <2>2. result = Error
    BY <2>1 DEF encode_raw
  <2> HIDE DEF def, result
  <2> QED BY <1>1, <2>2 DEF RightFields, def, result
<1>2. CASE ~bad
  <2> DEFINE values == [j \in DOMAIN def.fields |-> Extracted(raw, def.fields[j])]
  <2> HIDE DEF def
  <2>1. extract_fields(def, raw) = Ok(values)
    BY <1>2 DEF extract_fields, Extracted
  <2>2. Ok(values) # Error /\ Ok(values).values = values
    <3> HIDE DEF values
    <3>1. Ok(values).ok = TRUE /\ Error.ok = FALSE /\ Ok(values).values = values
      BY DEF Ok, Error
    <3> QED BY <3>1
  <2>3. result = Ok(to_trace_format_values(values))
    BY <2>1, <2>2 DEF encode_raw
  <2>4. result # Error /\ result.values = to_trace_format_values(values)
    <3> DEFINE given == to_trace_format_values(values)
    <3> HIDE DEF given
    <3>1. Ok(given).ok = TRUE /\ Error.ok = FALSE /\ Ok(given).values = given
      BY DEF Ok, Error
    <3> QED BY <2>3, <3>1 DEF given
  <2>5. ASSUME NEW j \in DOMAIN def.fields
        PROVE /\ Means(raw, def.fields[j], result.values[j].value)
              /\ \/ result.values[j].type = types[j]
                 \/ def.fields[j].size \in {3, 5, 6, 7} /\ result.values[j].type = "Bytes"
    <3>1. result.values[j] = raw_to_trace_format_value(Extracted(raw, def.fields[j]))
      BY <2>4 DEF to_trace_format_values
    <3>2. types[j] = kernel_field_to_trace_format(def.fields[j])
      BY DEF to_trace_format_fields
    <3>3. KernelField(def.fields[j]) /\ Readable(raw, def.fields[j])
      BY <1>2, FormatFields DEF def
    <3>4. LET value == raw_to_trace_format_value(Extracted(raw, def.fields[j]))
          IN  /\ Means(raw, def.fields[j], value.value)
              /\ \/ value.type = kernel_field_to_trace_format(def.fields[j])
                 \/ def.fields[j].size \in {3, 5, 6, 7} /\ value.type = "Bytes"
      BY <3>3, FieldRead
    <3> HIDE DEF result, types
    <3> QED BY <3>1, <3>2, <3>4
  <2> HIDE DEF result, types
  <2> QED BY <1>2, <2>4, <2>5 DEF RightFields, def, types, result
<1> QED BY <1>1, <1>2

-----------------------------------------------------------------------------
(* The stacks of samples *)

\* A mark and an end are not shown, what is in the program is, and what is in the kernel
\* if it is asked for.
LEMMA ChainShown ==
  ASSUME NEW stack, stack.kernel \in Seq(KernelAddresses), stack.program \in Seq(ProgramAddresses), NEW include_kernel
  PROVE filter_callchain(Chain(stack), include_kernel)
            = IF include_kernel THEN stack.kernel \o stack.program ELSE stack.program
<1> DEFINE kept == {a \in 1 .. PERF_CONTEXT_MAX - 1 : include_kernel \/ a < USER_ADDR_LIMIT}
           marked(part) == IF part = <<>> THEN <<>> ELSE <<PERF_CONTEXT_MAX>> \o part
           S == 0 .. 3
<1>1. /\ 0 \notin kept /\ PERF_CONTEXT_MAX \notin kept /\ ProgramAddresses \subseteq kept
      /\ include_kernel => KernelAddresses \subseteq kept
      /\ ~include_kernel => KernelAddresses \intersect kept = {}
  BY DEF PERF_CONTEXT_MAX, USER_ADDR_LIMIT, ProgramAddresses, KernelAddresses
<1>2. KernelAddresses \subseteq S /\ ProgramAddresses \subseteq S /\ PERF_CONTEXT_MAX \in S /\ 0 \in S
  BY DEF PERF_CONTEXT_MAX, USER_ADDR_LIMIT, ProgramAddresses, KernelAddresses
<1> HIDE DEF kept, S
<1>0. \A x, y \in Seq(S) : filter(x \o y, kept) = filter(x, kept) \o filter(y, kept)
  BY FilterParts
<1>3. ASSUME NEW A, A \subseteq S, NEW part \in Seq(A)
      PROVE part \in Seq(S) /\ marked(part) \in Seq(S) /\ filter(marked(part), kept) = filter(part, kept)
  <2>1. Len(part) \in Nat /\ part \in [1 .. Len(part) -> S]
    BY <1>3
  <2>2. part \in Seq(S)
    BY <2>1, AsSeq
  <2>3. <<PERF_CONTEXT_MAX>> \in Seq(S) /\ Len(<<PERF_CONTEXT_MAX>>) = 1 /\ <<PERF_CONTEXT_MAX>>[1] = PERF_CONTEXT_MAX
    BY <1>2
  <2>4. filter(<<PERF_CONTEXT_MAX>>, kept) = <<>>
    <3>1. \A n \in 1 .. Len(<<PERF_CONTEXT_MAX>>) : <<PERF_CONTEXT_MAX>>[n] \notin kept
      BY <1>1, <2>3
    <3> QED BY <2>3, <3>1, FilterFacts
  <2>5. CASE part = <<>>
    BY <2>2, <2>5
  <2>6. CASE part # <<>>
    <3>1. filter(<<PERF_CONTEXT_MAX>> \o part, kept) = filter(<<PERF_CONTEXT_MAX>>, kept) \o filter(part, kept)
      BY <1>0, <2>2, <2>3
    <3>2. filter(part, kept) \in Seq(S \intersect kept)
      BY <2>2, FilterFacts
    <3>3. <<>> \o filter(part, kept) = filter(part, kept)
      BY <3>2
    <3>4. marked(part) = <<PERF_CONTEXT_MAX>> \o part
      BY <2>6
    <3>5. marked(part) \in Seq(S)
      BY <2>2, <2>3, <3>4, Joined
    <3> HIDE DEF marked
    <3> QED BY <2>2, <2>4, <3>1, <3>3, <3>4, <3>5
  <2> QED BY <2>5, <2>6
<1> HIDE DEF marked
<1>4. PICK k \in Seq(S), p \in Seq(S) : k = stack.kernel /\ p = stack.program
  BY <1>2, <1>3
<1>5. PICK mk \in Seq(S), mp \in Seq(S) : /\ mk = marked(k) /\ mp = marked(p)
                                          /\ filter(mk, kept) = filter(k, kept) /\ filter(mp, kept) = filter(p, kept)
  BY <1>2, <1>3, <1>4
<1>6. PICK e \in Seq(S) : e = <<0>> /\ filter(e, kept) = <<>>
  <2>1. <<0>> \in Seq(S) /\ Len(<<0>>) = 1 /\ <<0>>[1] = 0
    BY <1>2
  <2>2. \A n \in 1 .. Len(<<0>>) : <<0>>[n] \notin kept
    BY <1>1, <2>1
  <2>3. filter(<<0>>, kept) = <<>>
    BY <2>1, <2>2, FilterFacts
  <2> QED BY <2>1, <2>3
<1>7. filter((mk \o mp) \o e, kept) = (filter(k, kept) \o filter(p, kept)) \o <<>>
  <2>1. mk \o mp \in Seq(S)
    BY Joined
  <2>2. filter((mk \o mp) \o e, kept) = filter(mk \o mp, kept) \o filter(e, kept)
    BY <1>0, <2>1
  <2>3. filter(mk \o mp, kept) = filter(mk, kept) \o filter(mp, kept)
    BY <1>0
  <2> QED BY <1>5, <1>6, <2>2, <2>3
<1>8. filter(p, kept) = p
  <2>1. \A n \in 1 .. Len(p) : p[n] \in kept
    BY <1>1, <1>4
  <2> QED BY <2>1, FilterFacts
<1>9. filter(k, kept) = IF include_kernel THEN k ELSE <<>>
  <2>1. \A n \in 1 .. Len(k) : k[n] \in KernelAddresses
    BY <1>4
  <2>2. CASE include_kernel
    <3>1. \A n \in 1 .. Len(k) : k[n] \in kept
      BY <1>1, <2>1, <2>2
    <3> QED BY <2>2, <3>1, FilterFacts
  <2>3. CASE ~include_kernel
    <3>1. \A n \in 1 .. Len(k) : k[n] \notin kept
      BY <1>1, <2>1, <2>3
    <3> QED BY <2>3, <3>1, FilterFacts
  <2> QED BY <2>2, <2>3
<1>10. (k \o p) \o <<>> = k \o p /\ (<<>> \o p) \o <<>> = p
  OBVIOUS
<1>11. filter((mk \o mp) \o e, kept) = IF include_kernel THEN k \o p ELSE p
  BY <1>7, <1>8, <1>9, <1>10
<1>12. Chain(stack) = (mk \o mp) \o e
  BY <1>4, <1>5, <1>6 DEF Chain, marked
<1>13. filter_callchain(Chain(stack), include_kernel) = filter(Chain(stack), kept)
  BY DEF filter_callchain, kept
<1> QED BY <1>4, <1>11, <1>12, <1>13

LEMMA Behind == ASSUME NEW S, NEW s \in Seq(S), NEW t \in Seq(S)
  PROVE /\ s \o t \in Seq(S) /\ Len(s \o t) = Len(s) + Len(t) /\ Len(s) \in Nat /\ Len(t) \in Nat
        /\ \A i \in 1 .. Len(s) : (s \o t)[i] = s[i]
        /\ \A i \in 1 .. Len(t) : (s \o t)[Len(s) + i] = t[i]
  OBVIOUS

LEMMA Rest == ASSUME NEW S, NEW s \in Seq(S), Len(s) >= 1
  PROVE Tail(s) \in Seq(S) /\ Len(Tail(s)) = Len(s) - 1 /\ \A i \in 1 .. Len(s) - 1 : Tail(s)[i] = s[i + 1]
  OBVIOUS

\* n members behind the first m
LEMMA Middle == ASSUME NEW S, NEW s \in Seq(S), NEW m \in Nat, NEW n \in Nat, m + n <= Len(s)
  PROVE LET part == SubSeq(s, m + 1, m + n)
        IN  part \in Seq(S) /\ Len(part) = n /\ \A i \in 1 .. n : part[i] = s[m + i]
  OBVIOUS

\* the body of the record of a sample
Record(number, chain, raw) == Tail(<<Len(raw) + Len(chain) + 3, number, Len(chain)>> \o chain \o raw)

\* It is parsed to what was put together.
LEMMA RecordParsed ==
  ASSUME NEW raw \in Seq(Nat), NEW chain \in Seq(Nat), NEW number \in Nat, NEW config
  PROVE Parsed(Record(number, chain, raw), config)
            = [at |-> number, callchain |-> filter_callchain(chain, config.include_kernel), raw |-> raw]
<1> DEFINE head == <<Len(raw) + Len(chain) + 3, number, Len(chain)>>
           c == Len(chain)
           r == Len(raw)
           record == Record(number, chain, raw)
<1>1. r \in Nat /\ c \in Nat
  OBVIOUS
<1>2. head \in Seq(Nat) /\ Len(head) = 3 /\ head[2] = number /\ head[3] = c
  BY <1>1
<1>3. record = Tail((head \o chain) \o raw)
  BY DEF Record
<1> HIDE DEF head, record
<1>4. PICK front \in Seq(Nat) : /\ front = head \o chain /\ Len(front) = 3 + c
                                /\ front[2] = number /\ front[3] = c
                                /\ \A i \in 1 .. c : front[3 + i] = chain[i]
  <2>1. /\ head \o chain \in Seq(Nat) /\ Len(head \o chain) = Len(head) + Len(chain)
        /\ \A i \in 1 .. Len(head) : (head \o chain)[i] = head[i]
        /\ \A i \in 1 .. Len(chain) : (head \o chain)[Len(head) + i] = chain[i]
    <3>1. head \in Seq(Nat) /\ chain \in Seq(Nat)
      BY <1>2
    <3> HIDE DEF c, r
    <3> QED BY ONLY <3>1, Behind
  <2>2. 2 \in 1 .. 3 /\ 3 \in 1 .. 3
    OBVIOUS
  <2> QED BY <1>2, <2>1, <2>2
<1>5. PICK whole \in Seq(Nat) : /\ whole = front \o raw /\ Len(whole) = 3 + c + r
                                /\ whole[2] = number /\ whole[3] = c
                                /\ \A i \in 1 .. c : whole[3 + i] = chain[i]
                                /\ \A i \in 1 .. r : whole[3 + c + i] = raw[i]
  <2>1. /\ front \o raw \in Seq(Nat) /\ Len(front \o raw) = Len(front) + Len(raw)
        /\ \A i \in 1 .. Len(front) : (front \o raw)[i] = front[i]
        /\ \A i \in 1 .. Len(raw) : (front \o raw)[Len(front) + i] = raw[i]
    BY Behind
  <2> HIDE DEF c
  <2>2. 2 \in 1 .. 3 + c /\ 3 \in 1 .. 3 + c /\ \A i \in 1 .. c : 3 + i \in 1 .. 3 + c
    BY <1>1
  <2>3. PICK w \in Seq(Nat) : /\ w = front \o raw /\ Len(w) = 3 + c + r
                              /\ \A i \in 1 .. 3 + c : w[i] = front[i]
                              /\ \A i \in 1 .. r : w[3 + c + i] = raw[i]
    <3>1. PICK n : n = Len(front) /\ n = 3 + c
      BY <1>4
    <3>2. PICK w : w = front \o raw
      OBVIOUS
    <3>3. /\ w \in Seq(Nat) /\ Len(w) = n + r
          /\ \A i \in 1 .. n : w[i] = front[i]
          /\ \A i \in 1 .. r : w[n + i] = raw[i]
      BY <2>1, <3>1, <3>2
    <3> QED BY <3>1, <3>2, <3>3
  <2>4. w[2] = number /\ w[3] = c /\ \A i \in 1 .. c : w[3 + i] = chain[i]
    BY <1>4, <2>2, <2>3
  <2> QED BY <2>3, <2>4
<1>6. PICK body_ \in Seq(Nat) : /\ body_ = Tail(whole) /\ Len(body_) = 2 + c + r
                                /\ \A i \in 1 .. 2 + c + r : body_[i] = whole[i + 1]
  <2>1. Len(whole) >= 1 /\ Len(whole) - 1 = 2 + c + r
    BY <1>1, <1>5
  <2>2. Tail(whole) \in Seq(Nat) /\ Len(Tail(whole)) = Len(whole) - 1
        /\ \A i \in 1 .. Len(whole) - 1 : Tail(whole)[i] = whole[i + 1]
    BY <2>1, Rest
  <2> QED BY <2>1, <2>2
<1>7. body_ = record
  BY <1>3, <1>4, <1>5, <1>6
<1> HIDE DEF c, r
<1>8. /\ body_[1] = number /\ body_[2] = c
      /\ \A i \in 1 .. c : body_[2 + i] = chain[i]
      /\ \A i \in 1 .. r : body_[2 + c + i] = raw[i]
  <2>1. 1 \in 1 .. 2 + c + r /\ 2 \in 1 .. 2 + c + r /\ 1 + 1 = 2 /\ 2 + 1 = 3
    BY <1>1
  <2>2. \A i \in 1 .. c : 2 + i \in 1 .. 2 + c + r /\ (2 + i) + 1 = 3 + i
    BY <1>1
  <2>3. \A i \in 1 .. r : 2 + c + i \in 1 .. 2 + c + r /\ (2 + c + i) + 1 = 3 + c + i
    BY <1>1
  <2>4. body_[1] = whole[2] /\ body_[2] = whole[3]
    BY <1>6, <2>1
  <2>5. \A i \in 1 .. c : body_[2 + i] = whole[3 + i]
    BY <1>6, <2>2
  <2>6. \A i \in 1 .. r : body_[2 + c + i] = whole[3 + c + i]
    BY <1>6, <2>3
  <2> QED BY <1>5, <2>4, <2>5, <2>6
<1>9. SubSeq(body_, 3, 2 + c) = chain
  <2> DEFINE part == SubSeq(body_, 2 + 1, 2 + c)
  <2>1. 2 + c <= Len(body_) /\ 2 \in Nat
    BY <1>1, <1>6
  <2>2. part \in Seq(Nat) /\ Len(part) = c /\ \A i \in 1 .. c : part[i] = body_[2 + i]
    <3> HIDE DEF c
    <3>1. PICK m \in Nat : m = 2 /\ m + c <= Len(body_)
      BY <2>1
    <3>2. LET q == SubSeq(body_, m + 1, m + c)
          IN  q \in Seq(Nat) /\ Len(q) = c /\ \A i \in 1 .. c : q[i] = body_[m + i]
      BY <1>1, <3>1, Middle
    <3> QED BY <3>1, <3>2
  <2> HIDE DEF part
  <2>3. Len(part) = Len(chain) /\ \A i \in 1 .. Len(part) : part[i] = chain[i]
    BY <1>8, <2>2 DEF c
  <2>4. part = chain
    BY <2>2, <2>3, SameSeq
  <2> QED BY <2>4, 2 + 1 = 3 DEF part
<1>10. SubSeq(body_, 3 + c, Len(body_)) = raw
  <2> DEFINE part == SubSeq(body_, (2 + c) + 1, (2 + c) + r)
  <2>1. (2 + c) + r = Len(body_) /\ 2 + c \in Nat /\ (2 + c) + 1 = 3 + c /\ (2 + c) + r <= Len(body_)
    BY <1>1, <1>6
  <2>2. part \in Seq(Nat) /\ Len(part) = r /\ \A i \in 1 .. r : part[i] = body_[(2 + c) + i]
    <3> HIDE DEF r, c
    <3>1. PICK m \in Nat : m = 2 + c /\ m + r <= Len(body_)
      BY <2>1
    <3>2. LET q == SubSeq(body_, m + 1, m + r)
          IN  q \in Seq(Nat) /\ Len(q) = r /\ \A i \in 1 .. r : q[i] = body_[m + i]
      BY <1>1, <3>1, Middle
    <3> QED BY <3>1, <3>2
  <2> HIDE DEF part
  <2>3. Len(part) = Len(raw) /\ \A i \in 1 .. Len(part) : part[i] = raw[i]
    BY <1>8, <2>2 DEF r
  <2>4. part = raw
    BY <2>2, <2>3, SameSeq
  <2> QED BY <2>1, <2>4 DEF part
<1>11. Parsed(body_, config) = [at |-> number, callchain |-> filter_callchain(chain, config.include_kernel), raw |-> raw]
  BY <1>8, <1>9, <1>10 DEF Parsed
<1> QED BY <1>7, <1>11 DEF record

-----------------------------------------------------------------------------
(* What becomes of a sample *)

Source(event) == IF OfProcess(event) THEN "CpuProfile" ELSE "SchedEvent"
ConfigOf(s, source) == IF source = "CpuProfile" THEN s.cpu_profiling ELSE s.sched_events

\* a sample that may have been taken
Takeable(s, sample) ==
    sample.kind = "CpuSample" /\ sample.stack \in s.stacks /\ sample.raw \in s.raws \union {<<>>}

\* The record is the one of the sample of that source whose number it has.
RecordOfSample(s, record, source, events_) ==
    \E j \in DOMAIN events_ : /\ Takeable(s, events_[j]) /\ events_[j].source = source
                              /\ record = Record(j, Chain(events_[j].stack), events_[j].raw)

\* An event is configured as its profiler is, and what is in front of the reader was sampled for it.
CarriedIn(s, event, events_) ==
    /\ event.config.include_kernel = ConfigOf(s, Source(event)).include_kernel
    /\ \A n \in DOMAIN event.unread : RecordOfSample(s, event.unread[n], Source(event), events_)
Carried == \A i \in DOMAIN rings : CarriedIn(scenario, rings[i], past)

\* An entry of the trace has the fields of its sample, and the part of the stack that was asked for.
Shown(s, entry, sample) ==
    sample.kind = "CpuSample" =>
        /\ Takeable(s, sample) /\ entry.raw = sample.raw
        /\ entry.callchain = IF ConfigOf(s, sample.source).include_kernel
                             THEN sample.stack.kernel \o sample.stack.program ELSE sample.stack.program
AllShown == \A i \in DOMAIN trace : Shown(scenario, trace[i], past[trace[i].at])

\* Nothing was sampled yet, and the events are configured as their profilers are.
LEMMA CarriedInit == Init => Carried /\ AllShown
<1> SUFFICES ASSUME Init PROVE Carried /\ AllShown
  OBVIOUS
<1>1. AllShown
  <2>1. trace = <<>> /\ DOMAIN trace = {}
    BY DEF Init
  <2> QED BY <2>1 DEF AllShown
<1>2. ASSUME NEW i \in DOMAIN rings PROVE CarriedIn(scenario, rings[i], past)
  <2>1. \/ OpenedFor(rings[i], scenario.cpu_profiling, {Starter, Everyone})
        \/ OpenedFor(rings[i], SchedEvents, Workers)
    BY FirstRings
  <2>2. rings[i].unread = <<>> /\ DOMAIN <<>> = {}
    BY <2>1 DEF OpenedFor, Fresh
  <2>3. CASE OpenedFor(rings[i], scenario.cpu_profiling, {Starter, Everyone})
    BY <2>2, <2>3 DEF OpenedFor, Source, OfProcess, ConfigOf, CarriedIn
  <2>4. CASE OpenedFor(rings[i], SchedEvents, Workers)
    <3>1. rings[i].owner \notin {Starter, Everyone}
      BY <2>4, ProfilerAssumption DEF OpenedFor, Threads
    <3> QED BY <2>2, <2>4, <3>1 DEF OpenedFor, Source, OfProcess, ConfigOf, SchedEvents, SchedProfiler_new, CarriedIn
  <2> QED BY <2>1, <2>3, <2>4
<1> QED BY <1>1, <1>2 DEF Carried

\* something more happens: a record is still that of its sample
LEMMA StillCarried ==
  ASSUME NEW s, NEW old, NEW new, DOMAIN old \subseteq DOMAIN new, \A j \in DOMAIN old : new[j] = old[j]
  PROVE /\ \A record, source : RecordOfSample(s, record, source, old) => RecordOfSample(s, record, source, new)
        /\ \A event : CarriedIn(s, event, old) => CarriedIn(s, event, new)
<1>1. ASSUME NEW record, NEW source, RecordOfSample(s, record, source, old) PROVE RecordOfSample(s, record, source, new)
  BY <1>1 DEF RecordOfSample
<1> QED BY <1>1 DEF CarriedIn

LEMMA CarriedStays ==
  ASSUME Carried, UNCHANGED <<rings, scenario>>, DOMAIN past \subseteq DOMAIN past', \A j \in DOMAIN past : past'[j] = past[j]
  PROVE Carried'
  BY StillCarried DEF Carried

LEMMA ShownStays ==
  ASSUME AllShown, Typed, UNCHANGED <<trace, scenario>>, DOMAIN past \subseteq DOMAIN past', \A j \in DOMAIN past : past'[j] = past[j]
  PROVE AllShown'
<1>1. \A i \in DOMAIN trace : past'[trace[i].at] = past[trace[i].at]
  BY DEF Typed
<1> QED BY <1>1 DEF AllShown

\* one more entry in the trace, and more that happened
LEMMA ShownGrows ==
  ASSUME AllShown, Typed, UNCHANGED scenario, DOMAIN past \subseteq DOMAIN past', \A j \in DOMAIN past : past'[j] = past[j],
         NEW entry, trace' = Append(trace, entry), Shown(scenario, entry, past'[entry.at])
  PROVE AllShown'
<1>1. LET t == Append(trace, entry)
      IN  /\ Len(t) = Len(trace) + 1 /\ DOMAIN t = 1 .. Len(trace) + 1 /\ DOMAIN trace = 1 .. Len(trace)
          /\ Len(trace) \in Nat /\ (\A k \in 1 .. Len(trace) : t[k] = trace[k]) /\ t[Len(trace) + 1] = entry
  BY Extended DEF Typed
<1>2. ASSUME NEW i \in DOMAIN trace' PROVE Shown(scenario, trace'[i], past'[trace'[i].at])
  <2>1. CASE i = Len(trace) + 1
    BY <1>1, <2>1
  <2>2. CASE i # Len(trace) + 1
    <3>1. i \in DOMAIN trace /\ trace'[i] = trace[i]
      BY <1>1, <2>2
    <3>2. trace[i].at \in DOMAIN past
      BY <3>1 DEF Typed
    <3> QED BY <3>1, <3>2 DEF AllShown
  <2> QED BY <2>1, <2>2
<1> QED BY <1>2 DEF AllShown

\* A hook writes no sample.
LEMMA CarriedHook == ASSUME Inv, Carried, AllShown, NEW w \in Workers, Hook(w) PROVE Carried' /\ AllShown'
<1>1. Typed /\ UNCHANGED <<scenario, rings>> /\ trace' = Append(trace, [at |-> Len(past) + 1, worker |-> w])
  BY DEF Inv, Hook
<1>2. PICK event : event.worker = w /\ Happens(event) /\ [event EXCEPT !.ts = clock'].kind # "CpuSample"
  BY DEF Hook, make_poll_start, make_poll_end
<1>3. /\ DOMAIN past \subseteq DOMAIN past' /\ \A j \in DOMAIN past : past'[j] = past[j]
      /\ past'[Len(past) + 1] = [event EXCEPT !.ts = clock']
  <2>1. /\ Len(past) \in Nat /\ DOMAIN past = 1 .. Len(past) /\ DOMAIN past' = 1 .. Len(past) + 1
        /\ \A j \in DOMAIN past : past'[j] = past[j]
        /\ past'[Len(past) + 1] = [event EXCEPT !.ts = clock']
    BY <1>1, <1>2, LastOfPast
  <2> QED BY <2>1
<1>4. Carried'
  BY <1>1, <1>3, CarriedStays
<1>5. PICK entry : entry = [at |-> Len(past) + 1, worker |-> w]
  OBVIOUS
<1>6. entry.at = Len(past) + 1 /\ trace' = Append(trace, entry)
  BY <1>1, <1>5
<1>7. Shown(scenario, entry, past'[entry.at])
  BY <1>2, <1>3, <1>6 DEF Shown
<1>8. AllShown'
  BY <1>1, <1>3, <1>6, <1>7, ShownGrows
<1> QED BY <1>4, <1>8

\* A thread's own event is configured as the others of its profiler.
LEMMA CarriedTracked ==
  ASSUME Inv, Carried, AllShown, NEW th \in Threads, track_current_thread(th) PROVE Carried' /\ AllShown'
<1>1. Typed /\ UNCHANGED <<scenario, past, trace>>
  BY DEF Inv, track_current_thread
<1>2. AllShown'
  BY <1>1, ShownStays
<1>3. PICK opened \in open_perf_event(SchedEvents, <<th>>) : rings' = rings \o opened
  BY DEF track_current_thread
<1>4. opened \in Seq(Events) /\ \A i \in DOMAIN opened : OpenedFor(opened[i], SchedEvents, {th})
  <2>1. SchedEvents \in Configs /\ <<th>> \in Seq({th}) /\ {th} \in SUBSET Owners
    BY <1>1 DEF Configs, SchedEvents, Owners, Typed
  <2> QED BY <2>1, Opened
<1>5. rings \in Seq(Events)
  BY <1>1 DEF Typed
<1>6. ASSUME NEW i \in DOMAIN rings' PROVE CarriedIn(scenario, rings'[i], past)
  <2>1. \/ i \in DOMAIN rings /\ rings'[i] = rings[i]
        \/ \E k \in DOMAIN opened : rings'[i] = opened[k]
    BY <1>3, <1>4, <1>5, OneOf
  <2>2. CASE i \in DOMAIN rings /\ rings'[i] = rings[i]
    BY <2>2 DEF Carried
  <2>3. CASE OpenedFor(rings'[i], SchedEvents, {th})
    <3>1. rings'[i].owner \notin {Starter, Everyone} /\ rings'[i].unread = <<>> /\ DOMAIN <<>> = {}
      BY <2>3, ProfilerAssumption DEF OpenedFor, Fresh
    <3> QED BY <2>3, <3>1 DEF OpenedFor, Source, OfProcess, ConfigOf, SchedEvents, SchedProfiler_new, CarriedIn
  <2> QED BY <1>4, <2>1, <2>2, <2>3
<1>7. Carried'
  BY <1>1, <1>6 DEF Carried
<1> QED BY <1>2, <1>7

\* an event after its ring was written or read
LEMMA SameEvent == ASSUME NEW e \in Events, NEW ring, NEW unread
  PROVE LET f == [e EXCEPT !.ring = ring, !.unread = unread]
        IN  f.unread = unread /\ f.config = e.config /\ f.owner = e.owner
  BY DEF Events

\* The kernel's record of a sample is carried in the ring it was written to.
LEMMA CarriedSample == ASSUME Inv, Carried, AllShown, Sample PROVE Carried' /\ AllShown'
<1>1. Typed /\ Filled /\ UNCHANGED <<scenario, trace>>
  BY DEF Inv, Sample
<1>2. PICK i \in DOMAIN rings, th \in Threads \union {Starter}, child \in BOOLEAN, stack \in scenario.stacks,
           raw \in scenario.raws \union {<<>>} :
           \E record : Sampling(i, th, child, stack, raw, record)
  BY SampleIs
<1>3. PICK record : Sampling(i, th, child, stack, raw, record)
  BY <1>2
<1>4. PICK event : /\ event = [kind |-> "CpuSample", ts |-> 0, worker |-> th, child |-> child, raw |-> raw,
                               stack |-> stack, source |-> Source(rings[i])]
                   /\ Happens(event)
  BY <1>3 DEF Sampling, Source
<1> DEFINE n == Len(past) + 1
<1>5. /\ DOMAIN past \subseteq DOMAIN past' /\ (\A j \in DOMAIN past : past'[j] = past[j])
      /\ n \in DOMAIN past' /\ past'[n] = [event EXCEPT !.ts = clock']
  <2>1. /\ Len(past) \in Nat /\ DOMAIN past = 1 .. Len(past) /\ DOMAIN past' = 1 .. Len(past) + 1
        /\ \A j \in DOMAIN past : past'[j] = past[j]
        /\ past'[Len(past) + 1] = [event EXCEPT !.ts = clock']
    BY <1>1, <1>4, LastOfPast
  <2> QED BY <2>1
<1>6. past'[n].kind = "CpuSample" /\ past'[n].stack = stack /\ past'[n].raw = raw /\ past'[n].source = Source(rings[i])
  BY <1>4, <1>5
<1>7. AllShown'
  BY <1>1, <1>5, ShownStays
<1>8. Tail(record) = Record(n, Chain(stack), raw)
  BY <1>3 DEF Sampling, Record
<1> HIDE DEF n
<1>9. RecordOfSample(scenario, Tail(record), Source(rings[i]), past')
  BY <1>5, <1>6, <1>8 DEF RecordOfSample, Takeable
<1>10. PICK e : e = rings[i] /\ e \in Events /\ Holds(e.ring, e.unread)
  BY <1>1 DEF Typed, Filled
<1>11. PICK f : /\ f = [e EXCEPT !.ring = kernel_write(@, record), !.unread = Append(@, Tail(record))]
                /\ f.unread = Append(e.unread, Tail(record)) /\ f.config = e.config /\ f.owner = e.owner
  <2> DEFINE ring == kernel_write(e.ring, record)
             unread == Append(e.unread, Tail(record))
  <2>1. e \in Events
    BY <1>10
  <2>2. [e EXCEPT !.ring = kernel_write(@, record), !.unread = Append(@, Tail(record))]
           = [e EXCEPT !.ring = ring, !.unread = unread]
    OBVIOUS
  <2> HIDE DEF ring, unread
  <2>3. LET f == [e EXCEPT !.ring = ring, !.unread = unread]
        IN  f.unread = unread /\ f.config = e.config /\ f.owner = e.owner
    BY ONLY <2>1, SameEvent
  <2> QED BY <2>2, <2>3 DEF unread
<1>12. DOMAIN rings' = DOMAIN rings /\ rings'[i] = f /\ \A j \in DOMAIN rings \ {i} : rings'[j] = rings[j]
  BY <1>3, <1>10, <1>11 DEF Sampling
<1>13. Source(f) = Source(e)
  BY <1>11 DEF Source, OfProcess
<1>14. CarriedIn(scenario, e, past')
  BY <1>5, <1>10, StillCarried DEF Carried
<1>15. ASSUME NEW k \in DOMAIN f.unread PROVE RecordOfSample(scenario, f.unread[k], Source(e), past')
  <2> DEFINE Rec == Seq(Int)
  <2>1. e.unread \in Seq(Rec)
    BY <1>10 DEF Holds
  <2> HIDE DEF Rec
  <2>2. PICK u : u = e.unread /\ u \in Seq(Elements(u))
    <3>1. PICK u \in Seq(Rec) : u = e.unread
      BY <2>1
    <3>2. Len(u) \in Nat /\ DOMAIN u = 1 .. Len(u) /\ u = [l \in 1 .. Len(u) |-> u[l]]
      BY <3>1
    <3>3. u \in [1 .. Len(u) -> Elements(u)]
      BY <3>2 DEF Elements
    <3> QED BY <3>1, <3>2, <3>3, AsSeq
  <2>3. LET t == Append(u, Tail(record))
        IN  /\ DOMAIN t = 1 .. Len(u) + 1 /\ DOMAIN u = 1 .. Len(u)
            /\ Len(u) \in Nat /\ (\A l \in 1 .. Len(u) : t[l] = u[l]) /\ t[Len(u) + 1] = Tail(record)
    BY <2>2, Extended
  <2>4. \/ k \in DOMAIN u /\ f.unread[k] = u[k]
        \/ f.unread[k] = Tail(record)
    BY <1>11, <2>2, <2>3
  <2> QED BY <1>9, <1>10, <1>14, <2>2, <2>4 DEF CarriedIn
<1>16. CarriedIn(scenario, f, past')
  BY <1>11, <1>13, <1>14, <1>15 DEF CarriedIn
<1>17. ASSUME NEW j \in DOMAIN rings' PROVE CarriedIn(scenario, rings'[j], past')
  <2>1. CASE j = i
    BY <1>12, <1>16, <2>1
  <2>2. CASE j # i
    <3>1. j \in DOMAIN rings /\ rings'[j] = rings[j]
      BY <1>12, <2>2
    <3> QED BY <1>5, <3>1, StillCarried DEF Carried
  <2> QED BY <2>1, <2>2
<1>18. Carried'
  BY <1>1, <1>17 DEF Carried
<1> QED BY <1>7, <1>18

\* The record that is read is parsed to its sample, whose fields are written.
LEMMA CarriedWritten == ASSUME Inv, Carried, AllShown, for_each_sample PROVE Carried' /\ AllShown'
<1>1. /\ Typed /\ Filled /\ UNCHANGED <<scenario, past>>
      /\ rings' = [rings EXCEPT ![flush.ring].ring = write_tail(@), ![flush.ring].unread = Tail(@)]
  BY DEF Inv, for_each_sample
<1>2. PICK i \in DOMAIN rings : i = flush.ring /\ rings[i].unread # <<>>
  BY SampleRead
<1>3. PICK e : e = rings[i] /\ e \in Events /\ Holds(e.ring, e.unread) /\ CarriedIn(scenario, e, past)
  BY <1>1 DEF Typed, Filled, Carried
<1> DEFINE Rec == Seq(Int)
<1>4. e.unread \in Seq(Rec) /\ e.unread # <<>>
  BY <1>2, <1>3 DEF Holds
<1> HIDE DEF Rec
<1>5. /\ 1 \in DOMAIN e.unread
      /\ \A k \in DOMAIN Tail(e.unread) : Tail(e.unread)[k] = e.unread[k + 1] /\ k + 1 \in DOMAIN e.unread
  BY <1>4
<1>6. body(e.ring) = e.unread[1]
  BY <1>3, <1>4, ReaderTakes
<1>7. Carried'
  <2>1. PICK f : /\ f = [e EXCEPT !.ring = write_tail(@), !.unread = Tail(@)]
                 /\ f.unread = Tail(e.unread) /\ f.config = e.config /\ f.owner = e.owner
    <3> DEFINE ring == write_tail(e.ring)
               unread == Tail(e.unread)
    <3>1. e \in Events
      BY <1>3
    <3>2. [e EXCEPT !.ring = write_tail(@), !.unread = Tail(@)] = [e EXCEPT !.ring = ring, !.unread = unread]
      OBVIOUS
    <3> HIDE DEF ring, unread
    <3>3. LET f == [e EXCEPT !.ring = ring, !.unread = unread]
          IN  f.unread = unread /\ f.config = e.config /\ f.owner = e.owner
      BY ONLY <3>1, SameEvent
    <3> QED BY <3>2, <3>3 DEF unread
  <2>2. DOMAIN rings' = DOMAIN rings /\ rings'[i] = f /\ \A j \in DOMAIN rings \ {i} : rings'[j] = rings[j]
    BY <1>1, <1>2, <1>3, <2>1
  <2>3. Source(f) = Source(e)
    BY <2>1 DEF Source, OfProcess
  <2>4. CarriedIn(scenario, f, past)
    BY <1>3, <1>5, <2>1, <2>3 DEF CarriedIn
  <2>5. ASSUME NEW j \in DOMAIN rings' PROVE CarriedIn(scenario, rings'[j], past)
    BY <2>2, <2>4 DEF Carried
  <2> QED BY <1>1, <2>5 DEF Carried
<1>8. PICK j \in DOMAIN past : /\ Takeable(scenario, past[j]) /\ past[j].source = Source(e)
                               /\ e.unread[1] = Record(j, Chain(past[j].stack), past[j].raw)
  BY <1>3, <1>5 DEF CarriedIn, RecordOfSample
<1>9. PICK sample : sample = Parsed(e.unread[1], e.config)
  OBVIOUS
<1>10. /\ past[j].stack.kernel \in Seq(KernelAddresses) /\ past[j].stack.program \in Seq(ProgramAddresses)
       /\ Chain(past[j].stack) \in Seq(Nat) /\ past[j].raw \in Seq(Nat)
  <2>1. scenario \in Scenarios /\ past[j].stack \in scenario.stacks /\ past[j].raw \in scenario.raws \union {<<>>}
    BY <1>1, <1>8 DEF Typed, Takeable
  <2>2. /\ past[j].stack.kernel \in Seq(KernelAddresses) /\ past[j].stack.program \in Seq(ProgramAddresses)
        /\ past[j].stack.kernel \in Seq(Nat) /\ past[j].stack.program \in Seq(Nat) /\ past[j].raw \in Seq(Nat)
    BY <2>1, SampledAre
  <2> QED BY <2>2, ChainOf
<1>11. /\ sample.at = j /\ sample.raw = past[j].raw
       /\ sample.callchain = filter_callchain(Chain(past[j].stack), e.config.include_kernel)
  <2>1. PICK number \in Nat : number = j
    BY <1>1, LastOfPast DEF Typed
  <2>2. PICK chain \in Seq(Nat), raw \in Seq(Nat) : chain = Chain(past[j].stack) /\ raw = past[j].raw
    BY <1>10
  <2>3. PICK config : config = e.config /\ sample = Parsed(Record(number, chain, raw), config)
    BY <1>8, <1>9, <2>1, <2>2
  <2>4. Parsed(Record(number, chain, raw), config)
           = [at |-> number, callchain |-> filter_callchain(chain, config.include_kernel), raw |-> raw]
    BY RecordParsed
  <2> QED BY <2>1, <2>2, <2>3, <2>4
<1>12. sample.callchain = IF ConfigOf(scenario, past[j].source).include_kernel
                          THEN past[j].stack.kernel \o past[j].stack.program ELSE past[j].stack.program
  BY <1>3, <1>8, <1>10, <1>11, ChainShown DEF CarriedIn
<1>13. ASSUME NEW entry, entry.at = sample.at, entry.raw = sample.raw, entry.callchain = sample.callchain
       PROVE Shown(scenario, entry, past'[entry.at])
  BY <1>1, <1>8, <1>11, <1>12, <1>13 DEF Shown
<1>14. \A name : /\ Attributed(sample, name).at = sample.at /\ Attributed(sample, name).raw = sample.raw
                 /\ Attributed(sample, name).callchain = sample.callchain
  BY DEF Attributed
<1>15. UNCHANGED trace \/ \E name : trace' = Append(trace, Attributed(sample, name))
  <2>1. IF OfProcess(e) THEN CpuProfiler_drain(sample) ELSE SchedProfiler_drain(sample)
    BY <1>2, <1>3, <1>6, <1>9 DEF for_each_sample
  <2> QED BY <2>1 DEF CpuProfiler_drain, SchedProfiler_drain
<1>16. AllShown'
  <2>1. CASE UNCHANGED trace
    BY <1>1, <2>1, ShownStays
  <2>2. CASE \E name : trace' = Append(trace, Attributed(sample, name))
    <3>1. PICK entry : /\ trace' = Append(trace, entry)
                       /\ entry.at = sample.at /\ entry.raw = sample.raw /\ entry.callchain = sample.callchain
      BY <1>14, <2>2
    <3>2. Shown(scenario, entry, past'[entry.at])
      BY <1>13, <3>1
    <3> QED BY <1>1, <3>1, <3>2, ShownGrows
  <2> QED BY <1>15, <2>1, <2>2
<1> QED BY <1>7, <1>16

LEMMA CarriedNext == ASSUME Inv, Carried, AllShown, [Next]_vars PROVE Carried' /\ AllShown'
<1>0. Typed
  BY DEF Inv
<1>1. ASSUME NEW w \in Workers, Hook(w) PROVE Carried' /\ AllShown'
  BY <1>1, CarriedHook
<1>2. ASSUME NEW th \in Threads, track_current_thread(th) PROVE Carried' /\ AllShown'
  BY <1>2, CarriedTracked
<1>3. CASE Sample
  BY <1>3, CarriedSample
<1>4. CASE for_each_sample
  BY <1>4, CarriedWritten
<1>5. ASSUME UNCHANGED <<scenario, rings, past, trace>> PROVE Carried' /\ AllShown'
  BY <1>0, <1>5, CarriedStays, ShownStays
<1>6. ASSUME NEW th \in Threads, stop_tracking_current_thread(th) PROVE UNCHANGED <<scenario, rings, past, trace>>
  BY <1>0, <1>6, NothingTracked DEF stop_tracking_current_thread
<1>7. \A w \in Workers : current_worker_id(w) => UNCHANGED <<scenario, rings, past, trace>>
  BY DEF current_worker_id
<1>8. \A th \in Threads : on_thread_start(th) \/ on_thread_stop(th) => UNCHANGED <<scenario, rings, past, trace>>
  BY DEF on_thread_start, on_thread_stop
<1>9. flush_cpu \/ for_each_record \/ NextRing \/ UNCHANGED vars => UNCHANGED <<scenario, rings, past, trace>>
  BY DEF flush_cpu, for_each_record, NextRing, vars
<1> QED BY <1>1, <1>2, <1>3, <1>4, <1>5, <1>6, <1>7, <1>8, <1>9 DEF Next, ThreadStep

\* Whatever the tracepoint's format and the threads and rings: a sample is written with its
\* thread's own stack, with or without the kernel's part as its profiler was told, and with
\* the fields that the kernel's record has, each by its size and sign, or none of them.
THEOREM FieldsAreRead == Spec => []FieldsRead
<1>1. Inv /\ AllShown => FieldsRead
  <2> SUFFICES ASSUME Typed, AllShown, NEW i \in Of(events, {"CpuSample"})
               PROVE  LET sample == past[trace[i].at]
                          config == IF sample.source = "CpuProfile" THEN scenario.cpu_profiling ELSE scenario.sched_events
                          shown == IF config.include_kernel THEN sample.stack.kernel \o sample.stack.program
                                   ELSE sample.stack.program
                      IN  /\ trace[i].callchain = shown /\ trace[i].raw = sample.raw
                          /\ sample.raw # <<>> => RightFields(sample.raw, encode_raw(parse_format(Format), sample.raw))
    BY DEF Inv, FieldsRead
  <2>1. PICK sample : sample = past[trace[i].at]
    OBVIOUS
  <2>2. i \in DOMAIN trace /\ sample.kind = "CpuSample"
    BY <2>1 DEF Of, events
  <2>3. Shown(scenario, trace[i], sample)
    BY <2>1, <2>2 DEF AllShown
  <2>4. Takeable(scenario, sample)
    BY <2>2, <2>3 DEF Shown
  <2>5. sample.raw \in Bytes
    BY <2>4, SampledAre DEF Typed, Takeable, Bytes
  <2>6. RightFields(sample.raw, encode_raw(parse_format(Format), sample.raw))
    BY <2>5, FieldsRight
  <2> QED BY <2>1, <2>2, <2>3, <2>6 DEF Shown, ConfigOf
<1>2. Init => Inv /\ Carried /\ AllShown
  BY InitInv, CarriedInit
<1>3. Inv /\ Carried /\ AllShown /\ [Next]_vars => (Inv /\ Carried /\ AllShown)'
  BY NextInv, CarriedNext
<1> QED BY <1>1, <1>2, <1>3, PTL DEF Spec
=============================================================================
