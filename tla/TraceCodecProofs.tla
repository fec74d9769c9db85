--------------------------- MODULE TraceCodecProofs ---------------------------
(***************************************************************************)
(* What an encoder writes, decoders read back: the values of every type of *)
(* field and every frame, for any radix and width and whatever stands      *)
(* around them.                                                            *)
(***************************************************************************)
EXTENDS TraceDecoder, WellFoundedInduction, TLAPS

\* A set of natural numbers has a least one.
LEMMA LeastNat == ASSUME NEW T, T \subseteq Nat, T # {} PROVE \E x \in T : \A y \in T : x <= y
<1> DEFINE R == {ss \in Nat \X Nat : ss[1] < ss[2]}
<1>1. IsWellFoundedOn(R, Nat)
  BY NatLessThanWellFounded DEF OpToRel
<1>2. \A x, y \in Nat : <<y, x>> \in R <=> y < x
  OBVIOUS
<1> HIDE DEF R
<1>3. \E x \in T : \A y \in T : ~ (<<y, x>> \in R)
  BY <1>1, WFMin
<1>4. PICK x \in T : \A y \in T : ~ (<<y, x>> \in R)
  BY <1>3
<1>5. \A y \in T : ~ (y < x)
  BY <1>2, <1>4
<1> QED BY <1>5

\* Two functions that start alike and go on alike are alike.
LEMMA SameSteps ==
  ASSUME NEW last \in Nat, NEW one, NEW other, one[0] = other[0],
         \A i \in 1 .. last : one[i - 1] = other[i - 1] => one[i] = other[i]
  PROVE \A i \in 0 .. last : one[i] = other[i]
<1> DEFINE T == {i \in 0 .. last : one[i] # other[i]}
<1> SUFFICES ASSUME T # {} PROVE FALSE
  OBVIOUS
<1>1. PICK i \in T : \A y \in T : i <= y
  BY LeastNat, T \subseteq Nat
<1>2. i # 0 /\ i \in 1 .. last /\ i - 1 \in 0 .. last /\ ~(i <= i - 1)
  BY <1>1
<1>3. one[i - 1] = other[i - 1]
  BY <1>1, <1>2
<1> QED BY <1>1, <1>2, <1>3

LEMMA ModBound == ASSUME NEW v \in Nat, NEW P \in Nat \ {0} PROVE v % P \in Nat /\ v % P <= v
  OBVIOUS

LEMMA ModSmall == ASSUME NEW v \in Nat, NEW P \in Nat \ {0}, v < P PROVE v % P = v
  OBVIOUS

LEMMA ModDigit == ASSUME NEW R \in Nat \ {0}, NEW d \in 0 .. R - 1 PROVE d % R = d /\ (d + R) % R = d
  OBVIOUS

-----------------------------------------------------------------------------
(* Varints *)

\* f is the powers of Radix up to the m-th.
Powers(m, f) == f = [k \in 0 .. m |-> IF k = 0 THEN 1 ELSE Radix * f[k - 1]]

LEMMA PowersExist == ASSUME NEW n \in Nat PROVE \E f : Powers(n, f)
<1> DEFINE T == {m \in Nat : ~ \E f : Powers(m, f)}
<1> SUFFICES ASSUME T # {} PROVE FALSE
  OBVIOUS
<1>1. PICK m \in T : \A y \in T : m <= y
  BY LeastNat, T \subseteq Nat
<1>2. CASE m = 0
  <2>1. PICK f : f = [k \in 0 .. 0 |-> 1]
    OBVIOUS
  <2>2. f = [k \in 0 .. 0 |-> IF k = 0 THEN 1 ELSE Radix * f[k - 1]]
    BY <2>1
  <2> QED BY <1>1, <1>2, <2>2 DEF Powers
<1>3. CASE m # 0
  <2>1. m - 1 \in Nat /\ ~(m <= m - 1) /\ m \in Nat
    BY <1>1, <1>3
  <2>2. PICK f : Powers(m - 1, f)
    BY <1>1, <2>1
  <2>3. PICK g : g = [k \in 0 .. m |-> IF k # m THEN f[k] ELSE Radix * f[k - 1]]
    OBVIOUS
  <2>4. \A k \in 0 .. m : g[k] = IF k = 0 THEN 1 ELSE Radix * g[k - 1]
    <3> TAKE k \in 0 .. m
    <3>1. CASE k = m
      <4>1. k - 1 \in 0 .. m /\ k - 1 # m
        BY <2>1, <3>1
      <4> QED BY <2>3, <1>3, <3>1, <4>1
    <3>2. CASE k # m
      <4>1. k \in 0 .. m - 1 /\ (k # 0 => k - 1 \in 0 .. m /\ k - 1 # m)
        BY <2>1, <3>2
      <4>2. g[k] = f[k] /\ (k # 0 => g[k - 1] = f[k - 1])
        BY <2>3, <3>2, <4>1
      <4>3. f[k] = IF k = 0 THEN 1 ELSE Radix * f[k - 1]
        BY <2>2, <4>1 DEF Powers
      <4> QED BY <4>2, <4>3
    <3> QED BY <3>1, <3>2
  <2>5. Powers(m, g)
    BY <2>3, <2>4 DEF Powers
  <2> QED BY <1>1, <2>5
<1> QED BY <1>2, <1>3

LEMMA PowerIs == /\ Power[0] = 1
                 /\ \A k \in 1 .. VarintLen : Power[k] = Radix * Power[k - 1]
                 /\ \A k \in 0 .. VarintLen : Power[k] \in Nat \ {0}
<1>1. VarintLen \in Nat /\ Radix \in Nat \ {0}
  BY CodecAssumption
<1>2. Power = CHOOSE f : Powers(VarintLen, f)
  BY DEF Power, Powers
<1>3. Powers(VarintLen, Power)
  BY <1>1, <1>2, PowersExist
<1>4. \A k \in 0 .. VarintLen : Power[k] = IF k = 0 THEN 1 ELSE Radix * Power[k - 1]
  BY <1>3 DEF Powers
<1>5. \A k \in 0 .. VarintLen : Power[k] \in Nat \ {0}
  <2> DEFINE T == {k \in 0 .. VarintLen : Power[k] \notin Nat \ {0}}
  <2> SUFFICES ASSUME T # {} PROVE FALSE
    OBVIOUS
  <2>1. PICK k \in T : \A y \in T : k <= y
    BY LeastNat, T \subseteq Nat
  <2>2. k # 0
    BY <1>1, <1>4, <2>1
  <2>3. k - 1 \in 0 .. VarintLen /\ ~(k <= k - 1)
    BY <1>1, <2>1, <2>2
  <2>4. Power[k - 1] \in Nat \ {0} /\ Power[k] = Radix * Power[k - 1]
    BY <1>4, <2>1, <2>2, <2>3
  <2>5. \A a, b \in Nat \ {0} : a * b \in Nat \ {0}
    OBVIOUS
  <2> QED BY <1>1, <2>1, <2>4, <2>5
<1> QED BY <1>1, <1>4, <1>5

\* The next digit of v
LEMMA NextDigit ==
  ASSUME NEW v \in Nat, NEW P \in Nat \ {0}, NEW R \in Nat \ {0}
  PROVE /\ v % (R * P) = (v % P) + ((v \div P) % R) * P
        /\ (v \div P) % R \in 0 .. R - 1
<1> DEFINE q == v \div P
           r == v % P
           Q == q \div R
           d == q % R
<1>1. q \in Nat /\ r \in 0 .. P - 1 /\ v = P * q + r
  OBVIOUS
<1> HIDE DEF q, r
<1>2. Q \in Nat /\ d \in 0 .. R - 1 /\ q = R * Q + d
  BY <1>1
<1> HIDE DEF Q, d
<1>3. v = (R * P) * Q + (d * P + r)
  <2>1. P * q = P * (R * Q) + P * d
    BY <1>1, <1>2
  <2>2. P * (R * Q) = (R * P) * Q /\ P * d = d * P
    BY <1>1, <1>2
  <2> QED BY <1>1, <1>2, <2>1, <2>2
<1>4. d * P + r \in 0 .. R * P - 1
  <2>1. d * P + r \in Nat
    BY <1>1, <1>2
  <2>2. d * P <= (R - 1) * P
    BY <1>1, <1>2
  <2>3. (R - 1) * P = R * P - P
    OBVIOUS
  <2> QED BY <1>1, <1>2, <2>1, <2>2, <2>3
<1>5. \A m \in Nat \ {0}, k \in Nat, x \in Nat : x < m => (m * k + x) % m = x
  OBVIOUS
<1>6. R * P \in Nat \ {0}
  OBVIOUS
<1>7. ((R * P) * Q + (d * P + r)) % (R * P) = d * P + r
  <2> DEFINE m == R * P
             x == d * P + r
  <2>1. m \in Nat \ {0} /\ x \in Nat /\ x < m
    BY <1>4, <1>6
  <2> HIDE DEF m, x
  <2>2. (m * Q + x) % m = x
    BY <1>2, <1>5, <2>1
  <2> QED BY <2>2 DEF m, x
<1> QED BY <1>1, <1>2, <1>3, <1>7 DEF q, r, d

\* s stands in data behind its first pos numbers.
At(data, pos, s) == pos + Len(s) <= Len(data) /\ \A i \in 1 .. Len(s) : data[pos + i] = s[i]

\* the number of digits of v
Digits(v, n) == n \in 1 .. VarintLen /\ v < Power[n] /\ (n = 1 \/ v >= Power[n - 1])

LEMMA DigitsExist == ASSUME NEW v \in 0 .. Width - 1 PROVE \E n : Digits(v, n)
<1> DEFINE T == {n \in 1 .. VarintLen : v < Power[n]}
<1>1. VarintLen \in T
  <2>1. VarintLen \in 1 .. VarintLen /\ Width \in Nat /\ Width <= Power[VarintLen] /\ Power[VarintLen] \in Nat
    BY CodecAssumption, PowerIs
  <2> QED BY <2>1
<1>2. PICK n \in T : \A y \in T : n <= y
  BY <1>1, LeastNat, T \subseteq Nat
<1>3. n # 1 => v >= Power[n - 1]
  <2> SUFFICES ASSUME n # 1 PROVE v >= Power[n - 1]
    OBVIOUS
  <2>1. n - 1 \in 1 .. VarintLen /\ ~(n <= n - 1)
    BY <1>2, CodecAssumption
  <2>2. n - 1 \notin T
    BY <1>2, <2>1
  <2>3. Power[n - 1] \in Nat
    BY PowerIs, <2>1, CodecAssumption
  <2> QED BY <2>1, <2>2, <2>3
<1> QED BY <1>2, <1>3 DEF Digits

\* n bytes, of which all but the last say that there is more
LEMMA Encoded ==
  ASSUME NEW v \in 0 .. Width - 1
  PROVE \E n \in 1 .. VarintLen :
          /\ v < Power[n]
          /\ encode_unsigned(v) = [i \in 1 .. n |-> Digit(v, i) + IF i < n THEN Radix ELSE 0]
          /\ encode_unsigned(v) \in Seq(Nat) /\ Len(encode_unsigned(v)) = n
          /\ \A i \in 1 .. n : Digit(v, i) \in 0 .. Radix - 1
<1> DEFINE n == CHOOSE k \in 1 .. VarintLen : v < Power[k] /\ (k = 1 \/ v >= Power[k - 1])
<1>1. n \in 1 .. VarintLen /\ v < Power[n]
  BY DigitsExist DEF Digits
<1>2. encode_unsigned(v) = [i \in 1 .. n |-> Digit(v, i) + IF i < n THEN Radix ELSE 0]
  BY DEF encode_unsigned
<1> HIDE DEF n
<1>3. Radix \in Nat \ {0} /\ VarintLen \in Nat
  BY CodecAssumption
<1>4. ASSUME NEW i \in 1 .. n PROVE Digit(v, i) \in 0 .. Radix - 1
  <2>1. Power[i - 1] \in Nat \ {0}
    BY <1>1, <1>3, PowerIs
  <2>2. v \in Nat
    BY CodecAssumption
  <2> QED BY <1>3, <2>1, <2>2, NextDigit DEF Digit
<1>5. \A i \in 1 .. n : (Digit(v, i) + IF i < n THEN Radix ELSE 0) \in Nat
  BY <1>3, <1>4
<1>6. encode_unsigned(v) \in [1 .. n -> Nat]
  BY <1>2, <1>5
<1> QED BY <1>1, <1>2, <1>4, <1>6

\* f is the sum of the digits, up to each of them.
Sums(data, pos, n, f) ==
    f = [i \in 0 .. n |-> IF i = 0 THEN 0 ELSE (f[i - 1] + (data[pos + i] % Radix) * Power[i - 1]) % Width]

LEMMA SumsAgree ==
  ASSUME NEW data, NEW pos, NEW n \in Nat, NEW f, NEW g, Sums(data, pos, n, f), Sums(data, pos, n, g)
  PROVE f[n] = g[n]
<1>1. f[0] = g[0]
  BY DEF Sums
<1>2. \A i \in 1 .. n : f[i - 1] = g[i - 1] => f[i] = g[i]
  BY DEF Sums
<1>3. \A i \in 0 .. n : f[i] = g[i]
  BY ONLY <1>1, <1>2, n \in Nat, SameSteps
<1> QED BY <1>3

\* The sum of the digits of v is v.
LEMMA SumIs ==
  ASSUME NEW v \in 0 .. Width - 1, NEW data \in Seq(Nat), NEW pos \in Nat, NEW n \in 1 .. VarintLen, v < Power[n],
         \A i \in 1 .. n : data[pos + i] % Radix = Digit(v, i)
  PROVE /\ \E f : Sums(data, pos, n, f)
        /\ \A f : Sums(data, pos, n, f) => f[n] = v
<1>1. Radix \in Nat \ {0} /\ VarintLen \in Nat /\ Width \in Nat
  BY CodecAssumption
<1>2. v \in Nat /\ \A i \in 0 .. n : Power[i] \in Nat \ {0}
  BY <1>1, PowerIs
<1>3. ASSUME NEW i \in 1 .. n
      PROVE ((v % Power[i - 1]) + (data[pos + i] % Radix) * Power[i - 1]) % Width = v % Power[i]
  <2>1. PICK P : P = Power[i - 1]
    OBVIOUS
  <2>2. P \in Nat \ {0} /\ Power[i] = Radix * P
    BY <1>1, <2>1, PowerIs
  <2>3. v % (Radix * P) = (v % P) + ((v \div P) % Radix) * P
    BY ONLY <1>1, <1>2, <2>2, NextDigit
  <2>4. data[pos + i] % Radix = (v \div P) % Radix
    BY <2>1 DEF Digit
  <2>5. v % Power[i] \in 0 .. Width - 1
    <3>1. Power[i] \in Nat \ {0}
      BY <1>2
    <3>2. v % Power[i] \in Nat /\ v % Power[i] <= v
      BY ONLY <1>2, <3>1, ModBound
    <3> QED BY <1>1, <1>2, <3>2
  <2>6. \A x \in 0 .. Width - 1 : x % Width = x
    BY <1>1
  <2>7. v % Power[i] = (v % P) + (data[pos + i] % Radix) * P
    BY <2>2, <2>3, <2>4
  <2> QED BY <2>1, <2>5, <2>6, <2>7
<1>4. PICK part : part = [i \in 0 .. n |-> v % Power[i]]
  OBVIOUS
<1>5. \A i \in 0 .. n : part[i] =
          IF i = 0 THEN 0 ELSE (part[i - 1] + (data[pos + i] % Radix) * Power[i - 1]) % Width
  <2>1. part[0] = 0
    BY <1>1, <1>2, <1>4, PowerIs
  <2>2. ASSUME NEW i \in 1 .. n
        PROVE part[i] = (part[i - 1] + (data[pos + i] % Radix) * Power[i - 1]) % Width
    <3>1. part[i] = v % Power[i] /\ part[i - 1] = v % Power[i - 1]
      BY <1>1, <1>4
    <3> QED BY <1>3, <3>1
  <2> QED BY <2>1, <2>2
<1>6. Sums(data, pos, n, part)
  BY <1>4, <1>5 DEF Sums
<1>7. ASSUME NEW f, Sums(data, pos, n, f) PROVE f[n] = v
  <2>1. PICK k \in Nat : k = n
    BY <1>1
  <2>2. f[k] = part[k]
    BY <1>6, <1>7, <2>1, SumsAgree
  <2>4. n \in 0 .. n /\ f[n] = part[n]
    BY <2>1, <2>2
  <2>5. f[n] = v % Power[n]
    BY <1>4, <2>4
  <2>6. PICK P \in Nat \ {0} : P = Power[n]
    BY <1>1, <1>2
  <2>7. v % P = v
    BY ONLY <1>2, <2>6, v < Power[n], ModSmall
  <2> QED BY <2>5, <2>6, <2>7
<1> QED BY <1>6, <1>7

\* A varint is read back, whatever it stands in: its bytes end with the first that says
\* so, and their digits are those of the number.
THEOREM VarintReadBack ==
  ASSUME NEW v \in 0 .. Width - 1, NEW data \in Seq(Nat), NEW pos \in Nat, At(data, pos, encode_unsigned(v))
  PROVE decode_unsigned(data, pos) = Some(<<v>>, pos + Len(encode_unsigned(v)))
<1>1. PICK n \in 1 .. VarintLen :
          /\ v < Power[n]
          /\ encode_unsigned(v) = [i \in 1 .. n |-> Digit(v, i) + IF i < n THEN Radix ELSE 0]
          /\ encode_unsigned(v) \in Seq(Nat) /\ Len(encode_unsigned(v)) = n
          /\ \A i \in 1 .. n : Digit(v, i) \in 0 .. Radix - 1
  BY Encoded
<1>2. Radix \in Nat \ {0} /\ VarintLen \in Nat /\ Width \in Nat
  BY CodecAssumption
<1>3. \A i \in 1 .. n : data[pos + i] = Digit(v, i) + IF i < n THEN Radix ELSE 0
  BY <1>1 DEF At
<1> DEFINE ends == {k \in 1 .. VarintLen : Has(data, pos, k) /\ data[pos + k] < Radix}
           m == CHOOSE k \in ends : \A j \in ends : k <= j
           after[i \in 0 .. n] ==
               IF i = 0 THEN 0 ELSE (after[i - 1] + (data[pos + i] % Radix) * Power[i - 1]) % Width
<1>4. n \in ends /\ \A j \in ends : n <= j
  <2>1. Has(data, pos, n)
    BY <1>1 DEF At, Has
  <2>2. data[pos + n] < Radix
    BY <1>1, <1>2, <1>3
  <2>3. ASSUME NEW j \in ends, ~(n <= j) PROVE FALSE
    <3>1. j \in 1 .. n /\ j < n /\ data[pos + j] < Radix
      BY <2>3
    <3>2. data[pos + j] = Digit(v, j) + Radix /\ Digit(v, j) \in 0 .. Radix - 1
      BY <1>1, <1>3, <3>1
    <3> QED BY <1>2, <3>1, <3>2
  <2> QED BY <2>1, <2>2, <2>3
<1>5. m = n
  <2>1. m \in ends /\ \A j \in ends : m <= j
    BY <1>4
  <2> HIDE DEF m
  <2>2. m <= n /\ n <= m /\ m \in Nat
    BY <1>4, <2>1
  <2> QED BY <2>2
<1>6. decode_unsigned(data, pos) = Some(<<after[n]>>, pos + n)
  <2>1. ends # {}
    BY <1>4
  <2>2. decode_unsigned(data, pos) =
          IF ends = {} THEN None
          ELSE Some(<<Loop(LAMBDA sum, i : (sum + (data[pos + i] % Radix) * Power[i - 1]) % Width, 0, m)>>, pos + m)
    BY DEF decode_unsigned
  <2>3. Loop(LAMBDA sum, i : (sum + (data[pos + i] % Radix) * Power[i - 1]) % Width, 0, n) = after[n]
    BY DEF Loop
  <2> QED BY <1>5, <2>1, <2>2, <2>3
<1>7. after = CHOOSE f : Sums(data, pos, n, f)
  BY DEF Sums
<1> HIDE DEF after
<1>8. after[n] = v
  <2>1. \A i \in 1 .. n : data[pos + i] % Radix = Digit(v, i)
    <3> TAKE i \in 1 .. n
    <3>1. PICK d \in 0 .. Radix - 1 : d = Digit(v, i)
      BY <1>1
    <3>2. data[pos + i] = d \/ data[pos + i] = d + Radix
      BY <1>3, <3>1, <1>2
    <3>3. d % Radix = d /\ (d + Radix) % Radix = d
      BY ONLY <1>2, <3>1, ModDigit
    <3> QED BY <3>1, <3>2, <3>3
  <2>2. /\ \E f : Sums(data, pos, n, f)
        /\ \A f : Sums(data, pos, n, f) => f[n] = v
    BY <1>1, <2>1, SumIs
  <2> QED BY <1>7, <2>2
<1> QED BY <1>1, <1>6, <1>8

-----------------------------------------------------------------------------
(* Sequences *)

LEMMA AsSeq == ASSUME NEW S, NEW n \in Nat, NEW f \in [1 .. n -> S] PROVE f \in Seq(S) /\ Len(f) = n
  OBVIOUS

LEMMA SameSeq ==
  ASSUME NEW S, NEW s \in Seq(S), NEW t \in Seq(S), Len(s) = Len(t), \A i \in 1 .. Len(s) : s[i] = t[i]
  PROVE s = t
  OBVIOUS

LEMMA JoinedSeq ==
  ASSUME NEW S, NEW s \in Seq(S), NEW t \in Seq(S)
  PROVE /\ s \o t \in Seq(S) /\ Len(s \o t) = Len(s) + Len(t)
        /\ \A i \in 1 .. Len(s) : (s \o t)[i] = s[i]
        /\ \A i \in 1 .. Len(t) : (s \o t)[Len(s) + i] = t[i]
  OBVIOUS

\* What is joined stands one behind the other.
LEMMA AtJoined ==
  ASSUME NEW data \in Seq(Nat), NEW pos \in Nat, NEW s \in Seq(Nat), NEW t \in Seq(Nat)
  PROVE At(data, pos, s \o t) <=> At(data, pos, s) /\ At(data, pos + Len(s), t)
<1>1. /\ s \o t \in Seq(Nat) /\ Len(s \o t) = Len(s) + Len(t)
      /\ \A i \in 1 .. Len(s) : (s \o t)[i] = s[i]
      /\ \A i \in 1 .. Len(t) : (s \o t)[Len(s) + i] = t[i]
  BY JoinedSeq
<1>2. Len(s) \in Nat /\ Len(t) \in Nat /\ Len(data) \in Nat
  OBVIOUS
<1>3. ASSUME At(data, pos, s \o t) PROVE At(data, pos, s) /\ At(data, pos + Len(s), t)
  <2>1. pos + (Len(s) + Len(t)) <= Len(data) /\ \A i \in 1 .. Len(s) + Len(t) : data[pos + i] = (s \o t)[i]
    BY <1>1, <1>3 DEF At
  <2>2. \A i \in 1 .. Len(s) : i \in 1 .. Len(s) + Len(t)
    BY <1>2
  <2>3. \A i \in 1 .. Len(t) : Len(s) + i \in 1 .. Len(s) + Len(t) /\ pos + (Len(s) + i) = (pos + Len(s)) + i
    BY <1>2
  <2>4. At(data, pos, s)
    BY <1>1, <1>2, <2>1, <2>2 DEF At
  <2>5. (pos + Len(s)) + Len(t) <= Len(data)
    BY <1>2, <2>1
  <2>6. \A i \in 1 .. Len(t) : data[(pos + Len(s)) + i] = t[i]
    BY <1>1, <2>1, <2>3
  <2> QED BY <2>4, <2>5, <2>6 DEF At
<1>4. ASSUME At(data, pos, s), At(data, pos + Len(s), t) PROVE At(data, pos, s \o t)
  <2>1. pos + (Len(s) + Len(t)) <= Len(data)
    BY <1>2, <1>4 DEF At
  <2>2. ASSUME NEW i \in 1 .. Len(s) + Len(t) PROVE data[pos + i] = (s \o t)[i]
    <3>1. CASE i <= Len(s)
      BY <1>1, <1>2, <1>4, <3>1 DEF At
    <3>2. CASE ~(i <= Len(s))
      <4>1. PICK j \in 1 .. Len(t) : i = Len(s) + j
        <5>1. i - Len(s) \in 1 .. Len(t) /\ i = Len(s) + (i - Len(s))
          BY <1>2, <3>2
        <5> QED BY <5>1
      <4>2. data[(pos + Len(s)) + j] = t[j] /\ (pos + Len(s)) + j = pos + i
        BY <1>2, <1>4, <4>1 DEF At
      <4> QED BY <1>1, <4>1, <4>2
    <3> QED BY <3>1, <3>2
  <2> QED BY <1>1, <2>1, <2>2 DEF At
<1> QED BY <1>3, <1>4

\* f is what the first parts come to, up to each of them.
Flat(parts, m, f) == f = [i \in 1 .. m |-> IF i = 1 THEN parts[i] ELSE f[i - 1] \o parts[i]]

LEMMA FlatAgree ==
  ASSUME NEW parts, NEW l \in Nat \ {0}, NEW f, NEW g, Flat(parts, l, f), Flat(parts, l, g)
  PROVE f[l] = g[l]
<1> DEFINE T == {i \in 1 .. l : f[i] # g[i]}
<1>1. T = {}
  <2> SUFFICES ASSUME T # {} PROVE FALSE
    OBVIOUS
  <2>1. PICK i \in T : \A y \in T : i <= y
    BY LeastNat, T \subseteq Nat
  <2>2. i # 1
    BY <2>1 DEF Flat
  <2>3. i - 1 \in 1 .. l /\ ~(i <= i - 1)
    BY <2>1, <2>2
  <2>4. f[i - 1] = g[i - 1]
    BY <2>1, <2>3
  <2>5. i \in 1 .. l /\ f[i] = f[i - 1] \o parts[i] /\ g[i] = g[i - 1] \o parts[i]
    BY <2>1, <2>2 DEF Flat
  <2> QED BY <2>1, <2>4, <2>5
<1> QED BY <1>1

\* Parts that are joined are the last of a sequence that grows part by part.
Grows(S, parts, m, f) ==
    f \in [0 .. m -> Seq(S)] /\ f[0] = <<>> /\ \A i \in 1 .. m : f[i] = f[i - 1] \o parts[i]

LEMMA FlatGrows ==
  ASSUME NEW S, NEW l \in Nat, NEW parts \in [1 .. l -> Seq(S)]
  PROVE \E f : Grows(S, parts, l, f) /\ f[l] = FlattenSeq(parts)
<1> DEFINE T == {m \in Nat : m <= l /\ ~ \E f : Grows(S, parts, m, f)}
<1>1. T = {}
  <2> SUFFICES ASSUME T # {} PROVE FALSE
    OBVIOUS
  <2>1. PICK m \in T : \A y \in T : m <= y
    BY LeastNat, T \subseteq Nat
  <2>2. CASE m = 0
    <3>1. PICK f : f = [i \in 0 .. 0 |-> <<>>]
      OBVIOUS
    <3>2. f \in [0 .. 0 -> Seq(S)] /\ f[0] = <<>> /\ 1 .. 0 = {}
      BY <3>1
    <3>3. Grows(S, parts, 0, f)
      BY <3>2 DEF Grows
    <3> QED BY <2>1, <2>2, <3>3
  <2>3. CASE m # 0
    <3>1. m - 1 \in Nat /\ ~(m <= m - 1) /\ m - 1 <= l /\ m \in Nat /\ m \in 1 .. l
      BY <2>1, <2>3
    <3>2. PICK f : Grows(S, parts, m - 1, f)
      BY <2>1, <3>1
    <3>3. PICK g : g = [i \in 0 .. m |-> IF i = m THEN f[m - 1] \o parts[m] ELSE f[i]]
      OBVIOUS
    <3>4. f[m - 1] \o parts[m] \in Seq(S)
      <4>1. f[m - 1] \in Seq(S) /\ parts[m] \in Seq(S)
        BY <3>1, <3>2 DEF Grows
      <4> QED BY <4>1, JoinedSeq
    <3>5. \A i \in 0 .. m : i # m => i \in 0 .. m - 1
      BY <3>1
    <3>6. g \in [0 .. m -> Seq(S)]
      BY <3>2, <3>3, <3>4, <3>5 DEF Grows
    <3>7. g[0] = <<>>
      BY <2>3, <3>1, <3>2, <3>3 DEF Grows
    <3>8. ASSUME NEW i \in 1 .. m PROVE g[i] = g[i - 1] \o parts[i]
      <4>1. i - 1 \in 0 .. m /\ i - 1 # m /\ i \in 0 .. m /\ g[i - 1] = f[i - 1]
        BY <3>1, <3>3
      <4>2. i # m => i \in 1 .. m - 1
        BY <3>1
      <4> QED BY <3>2, <3>3, <4>1, <4>2 DEF Grows
    <3>9. Grows(S, parts, m, g)
      BY <3>6, <3>7, <3>8 DEF Grows
    <3> QED BY <2>1, <3>9
  <2> QED BY <2>2, <2>3
<1>2. PICK f : Grows(S, parts, l, f)
  <2>1. l <= l
    OBVIOUS
  <2> QED BY <1>1, <2>1
<1> HIDE DEF T
<1>3. f[l] = FlattenSeq(parts)
  <2>1. Len(parts) = l
    <3> DEFINE R == Seq(S)
    <3> HIDE DEF R
    <3>1. parts \in [1 .. l -> R]
      BY DEF R
    <3> QED BY <3>1, AsSeq
  <2>2. CASE l = 0
    <3>1. FlattenSeq(parts) = parts
      BY <2>1, <2>2 DEF FlattenSeq
    <3>2. parts = <<>>
      BY <2>2
    <3> QED BY <1>2, <2>2, <3>1, <3>2 DEF Grows
  <2>3. CASE l # 0
    <3> DEFINE flatten[i \in 1 .. l] == IF i = 1 THEN parts[i] ELSE flatten[i - 1] \o parts[i]
    <3>1. FlattenSeq(parts) = flatten[l]
      BY <2>1, <2>3 DEF FlattenSeq
    <3>2. flatten = CHOOSE g : Flat(parts, l, g)
      BY DEF Flat
    <3> HIDE DEF flatten
    <3>3. PICK g : g = [i \in 1 .. l |-> f[i]]
      OBVIOUS
    <3>4. \A i \in 1 .. l : g[i] = IF i = 1 THEN parts[i] ELSE g[i - 1] \o parts[i]
      <4> TAKE i \in 1 .. l
      <4>0. i - 1 \in Nat /\ (i # 1 => i - 1 \in 1 .. l)
        OBVIOUS
      <4>1. g[i] = f[i - 1] \o parts[i] /\ (i # 1 => g[i - 1] = f[i - 1])
        BY <1>2, <3>3, <4>0, Zenon DEF Grows
      <4>2. <<>> \o parts[i] = parts[i]
        <5>1. parts[i] \in Seq(S)
          OBVIOUS
        <5> QED BY <5>1
      <4>3. i = 1 => f[i - 1] = <<>>
        BY <1>2 DEF Grows
      <4> QED BY <4>1, <4>2, <4>3, Zenon
    <3>5. Flat(parts, l, g)
      BY <3>3, <3>4 DEF Flat
    <3>6. Flat(parts, l, flatten)
      BY <3>2, <3>5
    <3>7. flatten[l] = g[l]
      BY <2>3, <3>5, <3>6, FlatAgree
    <3> QED BY <2>3, <3>1, <3>3, <3>7
  <2> QED BY <2>2, <2>3
<1> QED BY <1>2, <1>3

\* o is where the parts stand in data, one behind the other.
Offsets(data, pos, parts, l, o) ==
    /\ o \in [0 .. l -> Nat] /\ o[0] = pos
    /\ \A i \in 1 .. l : o[i] = o[i - 1] + Len(parts[i]) /\ At(data, o[i - 1], parts[i])

LEMMA AtParts ==
  ASSUME NEW l \in Nat, NEW parts \in [1 .. l -> Seq(Nat)], NEW data \in Seq(Nat), NEW pos \in Nat,
         At(data, pos, FlattenSeq(parts))
  PROVE \E o : Offsets(data, pos, parts, l, o) /\ o[l] = pos + Len(FlattenSeq(parts))
<1>1. PICK f : Grows(Nat, parts, l, f) /\ f[l] = FlattenSeq(parts)
  BY FlatGrows
<1>2. ASSUME NEW i \in 1 .. l
      PROVE /\ i \in 0 .. l /\ i - 1 \in 0 .. l /\ f[i - 1] \in Seq(Nat) /\ f[i] \in Seq(Nat) /\ parts[i] \in Seq(Nat)
            /\ f[i] = f[i - 1] \o parts[i] /\ Len(f[i]) = Len(f[i - 1]) + Len(parts[i])
  <2>0. i - 1 \in 0 .. l /\ i \in 0 .. l
    OBVIOUS
  <2>1. f[i - 1] \in Seq(Nat) /\ parts[i] \in Seq(Nat) /\ f[i] \in Seq(Nat)
    BY <1>1, <2>0 DEF Grows
  <2>2. f[i] = f[i - 1] \o parts[i]
    BY <1>1 DEF Grows
  <2> QED BY <2>0, <2>1, <2>2, JoinedSeq
<1>3. \A k \in 0 .. l : At(data, pos, f[k])
  <2> DEFINE T == {k \in 0 .. l : ~At(data, pos, f[l - k])}
  <2>1. T = {}
    <3> SUFFICES ASSUME T # {} PROVE FALSE
      OBVIOUS
    <3>1. PICK k \in T : \A y \in T : k <= y
      BY LeastNat, T \subseteq Nat
    <3>2. k # 0
      BY <1>1, <3>1
    <3>3. k - 1 \in 0 .. l /\ ~(k <= k - 1) /\ k \in 1 .. l
      BY <3>1, <3>2
    <3>4. At(data, pos, f[l - (k - 1)])
      BY <3>1, <3>3
    <3>5. PICK i \in 1 .. l : i = l - (k - 1)
      BY <3>3
    <3>6. l - k = i - 1
      BY <3>3, <3>5
    <3>7. At(data, pos, f[i - 1] \o parts[i])
      BY <1>2, <3>4, <3>5
    <3>8. f[i - 1] \in Seq(Nat) /\ parts[i] \in Seq(Nat)
      BY <1>2
    <3>9. At(data, pos, f[i - 1])
      BY <3>7, <3>8, AtJoined
    <3> QED BY <3>1, <3>6, <3>9
  <2>2. ASSUME NEW k \in 0 .. l PROVE At(data, pos, f[k])
    <3>1. l - k \in 0 .. l /\ l - (l - k) = k
      OBVIOUS
    <3>2. l - k \notin T
      BY <2>1
    <3>3. At(data, pos, f[l - (l - k)])
      BY <3>1, <3>2
    <3> QED BY <3>1, <3>3
  <2> QED BY <2>2
<1>4. PICK o : o = [i \in 0 .. l |-> pos + Len(f[i])]
  OBVIOUS
<1>5. o \in [0 .. l -> Nat]
  <2>1. \A i \in 0 .. l : f[i] \in Seq(Nat)
    BY <1>1 DEF Grows
  <2>2. \A i \in 0 .. l : pos + Len(f[i]) \in Nat
    BY <2>1
  <2> QED BY <1>4, <2>2
<1>6. o[0] = pos
  <2>1. f[0] = <<>> /\ 0 \in 0 .. l /\ Len(<<>>) = 0
    BY <1>1 DEF Grows
  <2>2. o[0] = pos + Len(f[0])
    BY <1>4, <2>1
  <2> QED BY <2>1, <2>2
<1>7. ASSUME NEW i \in 1 .. l PROVE o[i] = o[i - 1] + Len(parts[i]) /\ At(data, o[i - 1], parts[i])
  <2>1. o[i] = pos + Len(f[i]) /\ o[i - 1] = pos + Len(f[i - 1])
    BY <1>2, <1>4
  <2>2. Len(f[i - 1]) \in Nat /\ Len(parts[i]) \in Nat
    BY <1>2
  <2>3. At(data, pos, f[i - 1] \o parts[i])
    BY <1>2, <1>3
  <2>4. At(data, pos + Len(f[i - 1]), parts[i])
    BY <1>2, <2>3, AtJoined
  <2>5. Len(f[i]) = Len(f[i - 1]) + Len(parts[i])
    BY <1>2
  <2>6. o[i] = o[i - 1] + Len(parts[i])
    BY <2>1, <2>2, <2>5
  <2> QED BY <2>1, <2>4, <2>6
<1>8. o[l] = pos + Len(FlattenSeq(parts))
  <2>1. l \in 0 .. l
    OBVIOUS
  <2> QED BY <1>1, <1>4, <2>1
<1> QED BY <1>5, <1>6, <1>7, <1>8 DEF Offsets

LEMMA FlatSeq ==
  ASSUME NEW S, NEW l \in Nat, NEW parts \in [1 .. l -> Seq(S)]
  PROVE FlattenSeq(parts) \in Seq(S)
<1>1. PICK f : Grows(S, parts, l, f) /\ f[l] = FlattenSeq(parts)
  BY FlatGrows
<1> QED BY <1>1 DEF Grows

-----------------------------------------------------------------------------
(* Repeated parsers *)

LEMMA Grown ==
  ASSUME NEW S, NEW vs \in Seq(S), NEW i \in 1 .. Len(vs)
  PROVE SubSeq(vs, 1, i) = Append(SubSeq(vs, 1, i - 1), vs[i])
  OBVIOUS

LEMMA Ends ==
  ASSUME NEW S, NEW vs \in Seq(S)
  PROVE SubSeq(vs, 1, 0) = <<>> /\ SubSeq(vs, 1, Len(vs)) = vs
  OBVIOUS

\* How far a repeated parser should be after each of its rounds
Rounds(vs, o) == [i \in 0 .. Len(vs) |-> Some(SubSeq(vs, 1, i), o[i])]

\* they are, for every n
GoOn(vs, o, n, g) ==
    /\ g[0] = Some(<<>>, o[0]) /\ g[n] = Some(vs, o[n]) /\ g = [i \in 0 .. n |-> g[i]]
    /\ \A i \in 1 .. n : /\ g[i] = Some(Append(SubSeq(vs, 1, i - 1), vs[i]), o[i])
                         /\ g[i - 1] = Some(SubSeq(vs, 1, i - 1), o[i - 1])

LEMMA RoundsGoOn ==
  ASSUME NEW S, NEW vs \in Seq(S), NEW o
  PROVE GoOn(vs, o, Len(vs), Rounds(vs, o))
<1>00. PICK g : g = Rounds(vs, o)
  OBVIOUS
<1>01. PICK n \in Nat : n = Len(vs)
  OBVIOUS
<1>0. n = Len(vs) /\ g = Rounds(vs, o)
  BY <1>00, <1>01
<1>1. 0 \in 0 .. n /\ n \in 0 .. n /\ \A i \in 1 .. n : i \in 0 .. n /\ i - 1 \in 0 .. n
  OBVIOUS
<1>2. g = [i \in 0 .. n |-> Some(SubSeq(vs, 1, i), o[i])]
  BY <1>0 DEF Rounds
<1>3. \A i \in 0 .. n : g[i] = Some(SubSeq(vs, 1, i), o[i])
  BY <1>2
<1>4. g[0] = Some(<<>>, o[0]) /\ g[n] = Some(vs, o[n])
  BY <1>0, <1>1, <1>3, Ends
<1>5. ASSUME NEW i \in 1 .. n
      PROVE /\ g[i] = Some(Append(SubSeq(vs, 1, i - 1), vs[i]), o[i])
            /\ g[i - 1] = Some(SubSeq(vs, 1, i - 1), o[i - 1])
  BY <1>0, <1>1, <1>3, Grown
<1>6. g = [i \in 0 .. n |-> g[i]]
  BY <1>2
<1> QED BY <1>0, <1>4, <1>5, <1>6 DEF GoOn

\* A round of a repeated parser that has acc so far and reads r
Round(acc, r) ==
    IF acc.res = "some" THEN IF r.res = "some" THEN Some(Append(acc.v, r.v), r.pos) ELSE r ELSE acc

LEMMA SomeIs ==
  \A v, pos : Some(v, pos).res = "some" /\ Some(v, pos).v = v /\ Some(v, pos).pos = pos
  BY DEF Some

-----------------------------------------------------------------------------
(* Values *)

LEMMA SliceRead ==
  ASSUME NEW data \in Seq(Nat), NEW pos \in Nat, NEW s \in Seq(Nat), At(data, pos, s)
  PROVE Slice(data, pos, Len(s)) = Some(s, pos + Len(s))
<1>1. Len(s) \in Nat /\ Len(data) \in Nat /\ pos + Len(s) <= Len(data) /\ \A i \in 1 .. Len(s) : data[pos + i] = s[i]
  BY DEF At
<1>2. PICK t : t = SubSeq(data, pos + 1, pos + Len(s))
  OBVIOUS
<1>3. t \in Seq(Nat) /\ Len(t) = Len(s) /\ \A i \in 1 .. Len(s) : t[i] = data[pos + i]
  BY <1>1, <1>2
<1>4. t = s
  BY <1>1, <1>3, SameSeq
<1> QED BY <1>1, <1>2, <1>4 DEF Slice, Has

LEMMA NumberRead ==
  ASSUME NEW data \in Seq(Nat), NEW pos \in Nat, NEW n \in Nat, At(data, pos, <<n>>)
  PROVE Slice(data, pos, 1) = Some(<<n>>, pos + 1)
<1>1. <<n>> \in Seq(Nat) /\ Len(<<n>>) = 1
  OBVIOUS
<1> QED BY <1>1, SliceRead

LEMMA PrefixedSeq ==
  ASSUME NEW text \in Seq(Nat)
  PROVE LengthPrefixed(text) \in Seq(Nat) /\ Len(LengthPrefixed(text)) = 1 + Len(text)
<1>1. <<Len(text)>> \in Seq(Nat) /\ Len(<<Len(text)>>) = 1
  OBVIOUS
<1> QED BY <1>1, JoinedSeq DEF LengthPrefixed

\* A text is read back behind its length.
LEMMA TextRead ==
  ASSUME NEW data \in Seq(Nat), NEW pos \in Nat, NEW text \in Seq(Nat), At(data, pos, LengthPrefixed(text))
  PROVE /\ Text(data, pos) = Some(text, pos + Len(LengthPrefixed(text)))
        /\ Slice(data, pos, 1) = Some(<<Len(text)>>, pos + 1)
        /\ At(data, pos + 1, text)
<1>1. <<Len(text)>> \in Seq(Nat) /\ Len(<<Len(text)>>) = 1 /\ Len(text) \in Nat
  OBVIOUS
<1>2. LengthPrefixed(text) \in Seq(Nat) /\ Len(LengthPrefixed(text)) = 1 + Len(text)
  BY PrefixedSeq
<1>3. At(data, pos, <<Len(text)>>) /\ At(data, pos + 1, text)
  BY <1>1, AtJoined DEF LengthPrefixed
<1>4. Slice(data, pos, 1) = Some(<<Len(text)>>, pos + 1)
  BY <1>1, <1>3, NumberRead
<1>5. Slice(data, pos + 1, Len(text)) = Some(text, pos + 1 + Len(text))
  BY <1>3, SliceRead
<1>6. Text(data, pos) = Some(text, pos + 1 + Len(text))
  BY <1>4, <1>5, SomeIs DEF Text, AndThen
<1>7. pos + 1 + Len(text) = pos + (1 + Len(text))
  BY <1>1
<1> QED BY <1>2, <1>3, <1>4, <1>6, <1>7

\* the key and the value of a pair, and the parser of the two
PairOf(pair) == LengthPrefixed(pair[1]) \o LengthPrefixed(pair[2])
ReadPair(data, p) ==
    AndThen(Text(data, p), LAMBDA k : AndThen(Text(data, k.pos), LAMBDA v : Some(<<k.v, v.v>>, v.pos)))
SkipText(data, p) == AndThen(Slice(data, p, 1), LAMBDA r : Some(<<>>, r.pos + r.v[1]))
SkipPair(data, p) == AndThen(SkipText(data, p), LAMBDA k : SkipText(data, k.pos))

LEMMA Skipped ==
  ASSUME NEW data, NEW pos, NEW n, Slice(data, pos, 1) = Some(<<n>>, pos + 1)
  PROVE SkipText(data, pos) = Some(<<>>, (pos + 1) + n)
<1>1. PICK r : r = Slice(data, pos, 1)
  OBVIOUS
<1>2. r.res = "some" /\ r.v = <<n>> /\ r.pos = pos + 1
  BY <1>1, SomeIs
<1>3. r.v[1] = n
  BY <1>2
<1>4. SkipText(data, pos) = Some(<<>>, r.pos + r.v[1])
  BY <1>1, <1>2 DEF SkipText, AndThen
<1> QED BY <1>2, <1>3, <1>4

LEMMA PairSeq == ASSUME NEW pair \in Seq(Nat) \X Seq(Nat) PROVE PairOf(pair) \in Seq(Nat)
<1>1. pair[1] \in Seq(Nat) /\ pair[2] \in Seq(Nat)
  OBVIOUS
<1>2. LengthPrefixed(pair[1]) \in Seq(Nat) /\ LengthPrefixed(pair[2]) \in Seq(Nat)
  BY <1>1, PrefixedSeq
<1> QED BY <1>2, JoinedSeq DEF PairOf

LEMMA PairIs ==
  ASSUME NEW data, NEW p, NEW k, NEW v, NEW q, NEW e, Text(data, p) = Some(k, q), Text(data, q) = Some(v, e)
  PROVE ReadPair(data, p) = Some(<<k, v>>, e)
<1>1. Text(data, p).res = "some" /\ Text(data, p).v = k /\ Text(data, p).pos = q
  BY SomeIs
<1>2. Text(data, q).res = "some" /\ Text(data, q).v = v /\ Text(data, q).pos = e
  BY SomeIs
<1> QED BY <1>1, <1>2 DEF ReadPair, AndThen

LEMMA PairRead ==
  ASSUME NEW data \in Seq(Nat), NEW pos \in Nat, NEW pair \in Seq(Nat) \X Seq(Nat), At(data, pos, PairOf(pair))
  PROVE /\ ReadPair(data, pos) = Some(pair, pos + Len(PairOf(pair)))
        /\ SkipPair(data, pos) = Some(<<>>, pos + Len(PairOf(pair)))
<1>1. PICK k \in Seq(Nat), v \in Seq(Nat) : pair = <<k, v>> /\ pair[1] = k /\ pair[2] = v
  OBVIOUS
<1>2. PICK K, V : K = LengthPrefixed(k) /\ V = LengthPrefixed(v)
  OBVIOUS
<1>3. K \in Seq(Nat) /\ V \in Seq(Nat) /\ Len(K) = 1 + Len(k) /\ Len(V) = 1 + Len(v)
  BY <1>2, PrefixedSeq
<1>4. PairOf(pair) = K \o V /\ Len(PairOf(pair)) = Len(K) + Len(V)
  <2>1. PairOf(pair) = K \o V
    BY <1>1, <1>2 DEF PairOf
  <2>2. K \in Seq(Nat) /\ V \in Seq(Nat)
    BY <1>3
  <2>3. Len(K \o V) = Len(K) + Len(V)
    BY ONLY <2>2, JoinedSeq
  <2> QED BY <2>1, <2>3
<1>5. At(data, pos, K) /\ At(data, pos + Len(K), V)
  <2>1. At(data, pos, K \o V)
    BY <1>4
  <2>2. K \in Seq(Nat) /\ V \in Seq(Nat)
    BY <1>3
  <2> QED BY ONLY <2>1, <2>2, data \in Seq(Nat), pos \in Nat, AtJoined
<1>6. pos + Len(K) \in Nat /\ Len(K) \in Nat /\ Len(V) \in Nat /\ Len(k) \in Nat /\ Len(v) \in Nat
  BY <1>3
<1>7. /\ Text(data, pos) = Some(k, pos + Len(K)) /\ Text(data, pos + Len(K)) = Some(v, (pos + Len(K)) + Len(V))
      /\ Slice(data, pos, 1) = Some(<<Len(k)>>, pos + 1)
      /\ Slice(data, pos + Len(K), 1) = Some(<<Len(v)>>, (pos + Len(K)) + 1)
  BY <1>2, <1>5, <1>6, TextRead
<1>8. ReadPair(data, pos) = Some(<<k, v>>, (pos + Len(K)) + Len(V))
  BY <1>7, PairIs
<1>9. SkipText(data, pos) = Some(<<>>, (pos + 1) + Len(k))
  BY <1>7, Skipped
<1>10. SkipText(data, pos + Len(K)) = Some(<<>>, ((pos + Len(K)) + 1) + Len(v))
  BY <1>7, Skipped
<1>11. /\ (pos + 1) + Len(k) = pos + Len(K) /\ ((pos + Len(K)) + 1) + Len(v) = pos + (Len(K) + Len(V))
       /\ (pos + Len(K)) + Len(V) = pos + (Len(K) + Len(V))
  BY <1>3, <1>6
<1>12. SkipPair(data, pos) = Some(<<>>, pos + (Len(K) + Len(V)))
  BY <1>9, <1>10, <1>11, SomeIs DEF SkipPair, AndThen
<1> QED BY <1>1, <1>4, <1>8, <1>11, <1>12

\* f is how far the parser of n pairs is after each of its rounds.
ReadsPairs(data, n, pos, f) ==
    f = [i \in 0 .. n |-> IF i = 0 THEN Some(<<>>, pos) ELSE Round(f[i - 1], ReadPair(data, f[i - 1].pos))]
SkipsPairs(data, n, pos, f) ==
    f = [i \in 0 .. n |-> IF i = 0 THEN Some(<<>>, pos) ELSE Round(f[i - 1], SkipPair(data, f[i - 1].pos))]

LEMMA ReadsPairsAgree ==
  ASSUME NEW data, NEW n \in Nat, NEW pos, NEW f, NEW g, ReadsPairs(data, n, pos, f), ReadsPairs(data, n, pos, g)
  PROVE f[n] = g[n]
<1>1. f[0] = g[0]
  BY DEF ReadsPairs
<1>2. \A i \in 1 .. n : f[i - 1] = g[i - 1] => f[i] = g[i]
  BY DEF ReadsPairs
<1>3. \A i \in 0 .. n : f[i] = g[i]
  BY ONLY <1>1, <1>2, n \in Nat, SameSteps
<1> QED BY <1>3

LEMMA SkipsPairsAgree ==
  ASSUME NEW data, NEW n \in Nat, NEW pos, NEW f, NEW g, SkipsPairs(data, n, pos, f), SkipsPairs(data, n, pos, g)
  PROVE f[n] = g[n]
<1>1. f[0] = g[0]
  BY DEF SkipsPairs
<1>2. \A i \in 1 .. n : f[i - 1] = g[i - 1] => f[i] = g[i]
  BY DEF SkipsPairs
<1>3. \A i \in 0 .. n : f[i] = g[i]
  BY ONLY <1>1, <1>2, n \in Nat, SameSteps
<1> QED BY <1>3

ReadPairs(data, n, pos) == (CHOOSE f : ReadsPairs(data, n, pos, f))[n]
SkipPairs(data, n, pos) == (CHOOSE f : SkipsPairs(data, n, pos, f))[n]

LEMMA MapReader ==
  ASSUME NEW data, NEW pos, Slice(data, pos, 1).res = "some"
  PROVE decode_map(data, pos) = ReadPairs(data, Slice(data, pos, 1).v[1], Slice(data, pos, 1).pos)
  BY DEF decode_map, Repeat, Loop, AndThen, ReadPairs, ReadsPairs, ReadPair, Round

LEMMA MapEnd ==
  ASSUME NEW data, NEW pos, Slice(data, pos, 1).res = "some"
  PROVE map_end(data, pos) = SkipPairs(data, Slice(data, pos, 1).v[1], Slice(data, pos, 1).pos)
  BY DEF map_end, Repeat, Loop, AndThen, SkipPairs, SkipsPairs, SkipPair, SkipText, Round

\* Pairs are read one behind the other, and their lengths lead to the same end.
PairsAt(data, pos, m, n, o) == n = Len(m) /\ Offsets(data, pos, [i \in 1 .. n |-> PairOf(m[i])], n, o)
PairsParsed(data, pos, m, n, end) ==
    /\ ReadPairs(data, n, pos) = Some(m, end)
    /\ SkipPairs(data, n, pos).res = "some" /\ SkipPairs(data, n, pos).pos = end

LEMMA PairsRead ==
  ASSUME NEW data \in Seq(Nat), NEW pos \in Nat, NEW m \in Seq(Seq(Nat) \X Seq(Nat)), NEW n \in Nat, NEW o,
         PairsAt(data, pos, m, n, o)
  PROVE PairsParsed(data, pos, m, n, o[n])
<1>0. PICK parts : parts = [i \in 1 .. n |-> PairOf(m[i])] /\ Offsets(data, pos, parts, n, o) /\ n = Len(m)
  BY DEF PairsAt
<1>1. \A i \in 1 .. n : m[i] \in Seq(Nat) \X Seq(Nat)
  BY <1>0
<1>3. ASSUME NEW i \in 1 .. n
      PROVE ReadPair(data, o[i - 1]) = Some(m[i], o[i]) /\ SkipPair(data, o[i - 1]) = Some(<<>>, o[i])
  <2>1. parts[i] = PairOf(m[i])
    BY <1>0
  <2>0. i - 1 \in 0 .. n
    OBVIOUS
  <2>2. o[i] = o[i - 1] + Len(parts[i]) /\ At(data, o[i - 1], parts[i]) /\ o[i - 1] \in Nat
    BY <1>0, <2>0 DEF Offsets
  <2>3. o[i] = o[i - 1] + Len(PairOf(m[i])) /\ At(data, o[i - 1], PairOf(m[i]))
    BY <2>1, <2>2
  <2>4. PICK at \in Nat, pair \in Seq(Nat) \X Seq(Nat) : at = o[i - 1] /\ pair = m[i]
    BY <1>1, <2>2
  <2>5. At(data, at, PairOf(pair))
    BY <2>3, <2>4
  <2>6. /\ ReadPair(data, at) = Some(pair, at + Len(PairOf(pair)))
        /\ SkipPair(data, at) = Some(<<>>, at + Len(PairOf(pair)))
    BY ONLY <2>4, <2>5, data \in Seq(Nat), PairRead
  <2> QED BY <2>3, <2>4, <2>6
<1>4. o[0] = pos
  BY <1>0 DEF Offsets
<1>5. PICK g : g = Rounds(m, o)
  OBVIOUS
<1>6. PICK e : e = [i \in 1 .. n |-> <<>>]
  OBVIOUS
<1>7. e \in Seq({<<>>}) /\ Len(e) = n
  BY <1>6
<1>8. PICK h : h = Rounds(e, o)
  OBVIOUS
<1>9. /\ g[0] = Some(<<>>, o[0]) /\ g[n] = Some(m, o[n]) /\ g = [i \in 0 .. n |-> g[i]]
      /\ \A i \in 1 .. n : /\ g[i] = Some(Append(SubSeq(m, 1, i - 1), m[i]), o[i])
                           /\ g[i - 1] = Some(SubSeq(m, 1, i - 1), o[i - 1])
  <2>1. PICK P : P = Seq(Nat) \X Seq(Nat)
    OBVIOUS
  <2>2. m \in Seq(P)
    BY <2>1
  <2>3. GoOn(m, o, Len(m), Rounds(m, o))
    BY ONLY <2>2, RoundsGoOn, Zenon
  <2>4. GoOn(m, o, n, g)
    BY <1>0, <1>5, <2>3
  <2> QED BY ONLY <2>4 DEF GoOn
<1>10. /\ h[0] = Some(<<>>, o[0]) /\ h[n] = Some(e, o[n]) /\ h = [i \in 0 .. n |-> h[i]]
       /\ \A i \in 1 .. n : /\ h[i] = Some(Append(SubSeq(e, 1, i - 1), e[i]), o[i])
                            /\ h[i - 1] = Some(SubSeq(e, 1, i - 1), o[i - 1])
  <2>1. PICK P : P = {<<>>}
    OBVIOUS
  <2>2. e \in Seq(P)
    BY <1>7, <2>1
  <2>3. GoOn(e, o, Len(e), Rounds(e, o))
    BY ONLY <2>2, RoundsGoOn, Zenon
  <2>4. GoOn(e, o, n, h)
    BY <1>7, <1>8, <2>3
  <2> QED BY ONLY <2>4 DEF GoOn
<1>11. ReadsPairs(data, n, pos, g)
  <2>1. ASSUME NEW i \in 0 .. n, i # 0 PROVE g[i] = Round(g[i - 1], ReadPair(data, g[i - 1].pos))
    <3>1. i \in 1 .. n
      BY <2>1
    <3>2. g[i - 1] = Some(SubSeq(m, 1, i - 1), o[i - 1]) /\ g[i] = Some(Append(SubSeq(m, 1, i - 1), m[i]), o[i])
      BY <1>9, <3>1
    <3>3. ReadPair(data, o[i - 1]) = Some(m[i], o[i])
      BY <1>3, <3>1
    <3> QED BY ONLY <3>2, <3>3, SomeIs DEF Round
  <2>2. g = [i \in 0 .. n |-> g[i]]
    BY <1>9
  <2>3. g[0] = Some(<<>>, pos)
    BY <1>4, <1>9
  <2> QED BY <2>1, <2>2, <2>3 DEF ReadsPairs
<1>12. SkipsPairs(data, n, pos, h)
  <2>1. ASSUME NEW i \in 0 .. n, i # 0 PROVE h[i] = Round(h[i - 1], SkipPair(data, h[i - 1].pos))
    <3>1. i \in 1 .. n
      BY <2>1
    <3>2. h[i - 1] = Some(SubSeq(e, 1, i - 1), o[i - 1]) /\ h[i] = Some(Append(SubSeq(e, 1, i - 1), e[i]), o[i])
      BY <1>10, <3>1
    <3>3. e[i] = <<>> /\ SkipPair(data, o[i - 1]) = Some(<<>>, o[i])
      BY <1>3, <1>6, <3>1
    <3> QED BY <3>2, <3>3, SomeIs DEF Round
  <2>2. h = [i \in 0 .. n |-> h[i]]
    BY <1>10
  <2>3. h[0] = Some(<<>>, pos)
    BY <1>4, <1>10
  <2> QED BY <2>1, <2>2, <2>3 DEF SkipsPairs
<1>13. ReadPairs(data, n, pos) = g[n]
  <2>1. PICK f : f = CHOOSE c : ReadsPairs(data, n, pos, c)
    OBVIOUS
  <2>2. ReadsPairs(data, n, pos, f)
    BY <1>11, <2>1
  <2> QED BY <1>11, <2>1, <2>2, ReadsPairsAgree DEF ReadPairs
<1>14. SkipPairs(data, n, pos) = h[n]
  <2>1. PICK f : f = CHOOSE c : SkipsPairs(data, n, pos, c)
    OBVIOUS
  <2>2. SkipsPairs(data, n, pos, f)
    BY <1>12, <2>1
  <2> QED BY <1>12, <2>1, <2>2, SkipsPairsAgree DEF SkipPairs
<1> QED BY <1>9, <1>10, <1>13, <1>14, SomeIs DEF PairsParsed

\* A map is read back by both readers.
LEMMA MapRead ==
  ASSUME NEW data \in Seq(Nat), NEW pos \in Nat, NEW m \in FieldValues(StringMap), At(data, pos, encode(StringMap, m))
  PROVE /\ encode(StringMap, m) \in Seq(Nat)
        /\ decode_map(data, pos) = Some(m, pos + Len(encode(StringMap, m)))
        /\ decode_map_ref(data, pos) = Some(m, pos + Len(encode(StringMap, m)))
<1>0. StringMap \notin {Varint, Bool, String, Bytes, StackFrames}
  BY DEF StringMap, Varint, Bool, String, Bytes, StackFrames
<1>1. m \in Seq(Seq(Nat) \X Seq(Nat))
  BY <1>0, Zenon DEF FieldValues
<1>2. PICK n \in Nat : n = Len(m)
  BY <1>1
<1>a. PICK parts : parts = [i \in 1 .. n |-> PairOf(m[i])]
  OBVIOUS
<1>b. parts \in [1 .. n -> Seq(Nat)]
  <2>1. \A i \in 1 .. n : PairOf(m[i]) \in Seq(Nat)
    BY <1>1, <1>2, PairSeq
  <2> QED BY <1>a, <2>1
<1>3. encode(StringMap, m) = <<n>> \o FlattenSeq(parts)
  <2>1. encode(StringMap, m) = <<Len(m)>> \o FlattenSeq([i \in DOMAIN m |-> PairOf(m[i])])
    BY <1>0, Zenon DEF encode, PairOf
  <2>2. DOMAIN m = 1 .. n
    BY <1>1, <1>2
  <2> QED BY <1>2, <1>a, <2>1, <2>2
<1>4. /\ <<n>> \in Seq(Nat) /\ Len(<<n>>) = 1 /\ FlattenSeq(parts) \in Seq(Nat)
  BY <1>b, FlatSeq
<1>5. /\ encode(StringMap, m) \in Seq(Nat) /\ Len(encode(StringMap, m)) = 1 + Len(FlattenSeq(parts))
      /\ At(data, pos, <<n>>) /\ At(data, pos + 1, FlattenSeq(parts))
  <2>1. PICK t \in Seq(Nat) : t = FlattenSeq(parts)
    BY <1>4
  <2>2. At(data, pos, <<n>> \o t)
    BY <1>3, <2>1
  <2>3. At(data, pos, <<n>>) /\ At(data, pos + 1, t)
    BY <1>4, <2>2, AtJoined
  <2>4. <<n>> \o t \in Seq(Nat) /\ Len(<<n>> \o t) = 1 + Len(t)
    BY <1>4, JoinedSeq
  <2> QED BY <1>3, <2>1, <2>3, <2>4
<1>6. PICK o : Offsets(data, pos + 1, parts, n, o) /\ o[n] = (pos + 1) + Len(FlattenSeq(parts))
  <2>1. pos + 1 \in Nat
    OBVIOUS
  <2> QED BY <1>b, <1>5, <2>1, AtParts
<1>7. Slice(data, pos, 1) = Some(<<n>>, pos + 1)
  BY <1>5, NumberRead
<1>8. /\ Slice(data, pos, 1).res = "some" /\ Slice(data, pos, 1).v[1] = n /\ Slice(data, pos, 1).pos = pos + 1
  <2>1. Slice(data, pos, 1).v = <<n>>
    BY <1>7, SomeIs
  <2> QED BY <1>7, <2>1, SomeIs
<1>9. ReadPairs(data, n, pos + 1) = Some(m, o[n]) /\ SkipPairs(data, n, pos + 1).res = "some"
      /\ SkipPairs(data, n, pos + 1).pos = o[n]
  <2>1. PICK at \in Nat : at = pos + 1
    OBVIOUS
  <2>2. PairsAt(data, at, m, n, o)
    BY <1>2, <1>a, <1>6, <2>1 DEF PairsAt
  <2>3. PairsParsed(data, at, m, n, o[n])
    BY ONLY <1>1, <2>2, data \in Seq(Nat), at \in Nat, n \in Nat, PairsRead
  <2> QED BY <2>1, <2>3 DEF PairsParsed
<1>10. o[n] = pos + Len(encode(StringMap, m)) /\ o[n] <= Len(data)
  <2>1. Len(FlattenSeq(parts)) \in Nat /\ (pos + 1) + Len(FlattenSeq(parts)) <= Len(data)
    BY <1>4, <1>5 DEF At
  <2>2. (pos + 1) + Len(FlattenSeq(parts)) = pos + (1 + Len(FlattenSeq(parts)))
    BY <2>1
  <2> QED BY <1>5, <1>6, <2>1, <2>2
<1>11. decode_map(data, pos) = Some(m, o[n])
  BY <1>8, <1>9, MapReader
<1>12. map_end(data, pos).res = "some" /\ map_end(data, pos).pos = o[n]
  BY <1>8, <1>9, MapEnd
<1>13. ~(o[n] > Len(data))
  <2>1. o[n] \in Nat /\ Len(data) \in Nat
    BY <1>6 DEF Offsets
  <2> QED BY <1>10, <2>1
<1>14. decode_map_ref(data, pos) = decode_map(data, pos)
  BY <1>12, <1>13 DEF decode_map_ref, AndThen
<1> QED BY <1>5, <1>10, <1>11, <1>14

\* What both readers make of the encoding of a value that stands in data
BothRead(type, data, pos, v, end) ==
    decode_owned(type, data, pos) = Some(v, end) /\ decode_ref(type, data, pos) = Some(v, end)

LEMMA StringRead ==
  ASSUME NEW data \in Seq(Nat), NEW pos \in Nat, NEW v \in Texts, At(data, pos, encode(String, v))
  PROVE /\ encode(String, v) \in Seq(Nat)
        /\ BothRead(String, data, pos, v, pos + Len(encode(String, v)))
<1>0. String # Varint /\ String # StringMap
  BY DEF String, Varint, StringMap
<1>1. encode(String, v) = LengthPrefixed(v)
  BY <1>0, Zenon DEF encode
<1>2. v \in Seq(Nat) /\ Utf8(v)
  BY DEF Texts
<1>3. Text(data, pos) = Some(v, pos + Len(LengthPrefixed(v)))
  BY <1>1, <1>2, TextRead
<1>4. Lossy(v) = v
  <2>1. \A i \in DOMAIN v : v[i] # NotUtf8
    BY <1>2 DEF Utf8
  <2>2. Lossy(v) = [i \in DOMAIN v |-> v[i]]
    BY <2>1 DEF Lossy
  <2> QED BY <1>2, <2>2
<1>5. decode_owned(String, data, pos) = AndThen(Text(data, pos), LAMBDA r : Some(Lossy(r.v), r.pos))
  BY <1>0, Zenon DEF decode_owned
<1>6. decode_ref(String, data, pos) = AndThen(Text(data, pos), LAMBDA r : IF Utf8(r.v) THEN r ELSE None)
  BY <1>0, Zenon DEF decode_ref
<1>7. PICK r : r = Text(data, pos) /\ r.res = "some" /\ r.v = v /\ r.pos = pos + Len(LengthPrefixed(v))
  BY <1>3, SomeIs
<1>8. decode_owned(String, data, pos) = Some(v, pos + Len(LengthPrefixed(v)))
  BY <1>4, <1>5, <1>7 DEF AndThen
<1>9. decode_ref(String, data, pos) = Some(v, pos + Len(LengthPrefixed(v)))
  BY <1>2, <1>3, <1>6, <1>7 DEF AndThen
<1> QED BY <1>1, <1>2, <1>8, <1>9, PrefixedSeq DEF BothRead

LEMMA Plain ==
  ASSUME NEW type, type # String, type # StringMap, NEW data, NEW pos
  PROVE decode_owned(type, data, pos) = decode_plain(type, data, pos)
        /\ decode_ref(type, data, pos) = decode_plain(type, data, pos)
<1>1. decode_owned(type, data, pos) = decode_plain(type, data, pos)
  BY Zenon DEF decode_owned
<1>2. decode_ref(type, data, pos) = decode_plain(type, data, pos)
  BY Zenon DEF decode_ref
<1> QED BY <1>1, <1>2

\* A value of every type of a field is read back as it was written, by both readers and to
\* its end, whatever stands around it: FieldValue::decode and FieldValueRef::decode of
\* what FieldValue::encode wrote.
THEOREM ValueReadBack ==
  ASSUME NEW type \in FieldTypes, NEW v \in FieldValues(type), NEW data \in Seq(Nat), NEW pos \in Nat,
         At(data, pos, encode(type, v))
  PROVE /\ encode(type, v) \in Seq(Nat)
        /\ BothRead(type, data, pos, v, pos + Len(encode(type, v)))
<1>1. CASE type = String
  <2>1. v \in Texts
    <3>1. String \notin {Varint, Bool, Bytes, StackFrames, StringMap}
      BY DEF String, Varint, Bool, Bytes, StackFrames, StringMap
    <3> QED BY <1>1, <3>1, Zenon DEF FieldValues
  <2> QED BY <1>1, <2>1, StringRead
<1>2. CASE type = StringMap
  <2>1. StringMap # String
    BY DEF StringMap, String
  <2>2. /\ decode_owned(StringMap, data, pos) = decode_map(data, pos)
        /\ decode_ref(StringMap, data, pos) = decode_map_ref(data, pos)
    BY <2>1, Zenon DEF decode_owned, decode_ref
  <2>3. /\ encode(StringMap, v) \in Seq(Nat)
        /\ decode_map(data, pos) = Some(v, pos + Len(encode(StringMap, v)))
        /\ decode_map_ref(data, pos) = Some(v, pos + Len(encode(StringMap, v)))
    BY <1>2, MapRead, Zenon
  <2> QED BY <1>2, <2>2, <2>3, Zenon DEF BothRead
<1>3. CASE type \notin {String, StringMap}
  <2> SUFFICES /\ encode(type, v) \in Seq(Nat)
               /\ decode_plain(type, data, pos) = Some(v, pos + Len(encode(type, v)))
    BY <1>3, Plain DEF BothRead
  <2>1. CASE type = Varint
    <3>0. type \notin {Bool, String, Bytes, StackFrames, StringMap}
      BY <2>1 DEF Bool, Varint, String, Bytes, StackFrames, StringMap
    <3>a. v \in {<<n>> : n \in 0 .. Width - 1}
      BY <2>1, <3>0, Zenon DEF FieldValues
    <3>1. PICK n \in 0 .. Width - 1 : v = <<n>> /\ v[1] = n
      BY <3>a
    <3>2. encode(type, v) = encode_unsigned(n)
      BY <2>1, <3>0, <3>1, Zenon DEF encode
    <3>3. decode_plain(type, data, pos) = decode_unsigned(data, pos)
      BY <2>1, <3>0, Zenon DEF decode_plain
    <3>4. encode_unsigned(n) \in Seq(Nat)
      BY Encoded
    <3>5. At(data, pos, encode_unsigned(n))
      BY <3>2
    <3>6. decode_unsigned(data, pos) = Some(<<n>>, pos + Len(encode_unsigned(n)))
      BY ONLY <3>5, n \in 0 .. Width - 1, data \in Seq(Nat), pos \in Nat, VarintReadBack, Zenon
    <3> QED BY <3>1, <3>2, <3>3, <3>4, <3>6, Zenon
  <2>2. CASE type = Bool
    <3>0. Bool \notin {Varint, String, Bytes, StackFrames, StringMap}
      BY DEF Bool, Varint, String, Bytes, StackFrames, StringMap
    <3>1. PICK n \in {0, 1} : v = <<n>> /\ n \in Nat
      BY <2>2, <3>0, Zenon DEF FieldValues
    <3>2. encode(type, v) = <<n>>
      BY <2>2, <3>0, <3>1, Zenon DEF encode
    <3>3. decode_plain(type, data, pos)
            = AndThen(Slice(data, pos, 1), LAMBDA r : Some(<<IF r.v[1] = 0 THEN 0 ELSE 1>>, r.pos))
      BY <2>2, <3>0, Zenon DEF decode_plain
    <3>4. Slice(data, pos, 1) = Some(<<n>>, pos + 1)
      BY <3>1, <3>2, NumberRead
    <3>5. PICK r : r = Slice(data, pos, 1) /\ r.res = "some" /\ r.v = <<n>> /\ r.pos = pos + 1
      BY <3>4, SomeIs
    <3>6. r.v[1] = n
      BY <3>5
    <3>7. decode_plain(type, data, pos) = Some(<<IF r.v[1] = 0 THEN 0 ELSE 1>>, pos + 1)
      BY <3>3, <3>5 DEF AndThen
    <3>8. (IF r.v[1] = 0 THEN 0 ELSE 1) = n
      BY <3>1, <3>6
    <3>9. <<n>> \in Seq(Nat) /\ Len(<<n>>) = 1
      BY <3>1
    <3> QED BY <3>1, <3>2, <3>7, <3>8, <3>9
  <2>3. CASE type \in {Bytes, StackFrames}
    <3>0. type \notin {Varint, Bool, String, StringMap}
      BY <2>3 DEF Bool, Varint, String, Bytes, StackFrames, StringMap
    <3>1. v \in Seq(Nat)
      <4>1. v \in Seq(Nat) \/ v \in Seq(0 .. Width - 1)
        BY <2>3, <3>0, Zenon DEF FieldValues
      <4>2. v \in Seq(0 .. Width - 1) => v \in Seq(Nat)
        BY CodecAssumption
      <4> QED BY <4>1, <4>2
    <3>2. encode(type, v) = LengthPrefixed(v)
      BY <2>3, <3>0, Zenon DEF encode
    <3>3. decode_plain(type, data, pos) = Text(data, pos)
      BY <2>3, <3>0, Zenon DEF decode_plain
    <3>4. At(data, pos, LengthPrefixed(v))
      BY <3>2
    <3>5. Text(data, pos) = Some(v, pos + Len(LengthPrefixed(v)))
      BY ONLY <3>1, <3>4, data \in Seq(Nat), pos \in Nat, TextRead, Zenon
    <3>6. LengthPrefixed(v) \in Seq(Nat)
      BY ONLY <3>1, PrefixedSeq
    <3> QED BY <3>2, <3>3, <3>5, <3>6
  <2>4. CASE type \notin {Varint, Bool, Bytes, StackFrames}
    <3>1. v \in Seq(Nat) /\ Len(v) = 1
      BY <1>3, <2>4, Zenon DEF FieldValues
    <3>2. encode(type, v) = v
      BY <1>3, <2>4, Zenon DEF encode
    <3>3. decode_plain(type, data, pos) = Slice(data, pos, 1)
      BY <1>3, <2>4, Zenon DEF decode_plain
    <3> QED BY <3>1, <3>2, <3>3, SliceRead
  <2> QED BY <2>1, <2>2, <2>3, <2>4
<1> QED BY <1>1, <1>2, <1>3

LEMMA EncodedSeq ==
  ASSUME NEW type \in FieldTypes, NEW v \in FieldValues(type) PROVE encode(type, v) \in Seq(Nat)
<1>1. CASE type = Varint
  <2>0. type \notin {Bool, String, Bytes, StackFrames, StringMap}
    BY <1>1 DEF Bool, Varint, String, Bytes, StackFrames, StringMap
  <2>1. v \in {<<n>> : n \in 0 .. Width - 1}
    BY <1>1, <2>0, Zenon DEF FieldValues
  <2>2. PICK n \in 0 .. Width - 1 : v = <<n>> /\ v[1] = n
    BY <2>1
  <2>3. encode(type, v) = encode_unsigned(n)
    BY <1>1, <2>0, <2>2, Zenon DEF encode
  <2> QED BY <2>3, Encoded
<1>2. CASE type \in {String, Bytes, StackFrames}
  <2>0. type \notin {Bool, Varint, StringMap}
    BY <1>2 DEF Bool, Varint, String, Bytes, StackFrames, StringMap
  <2>1. encode(type, v) = LengthPrefixed(v)
    BY <1>2, <2>0, Zenon DEF encode
  <2>2. v \in Seq(Nat)
    <3>1. v \in Seq(Nat) \/ v \in Seq(0 .. Width - 1) \/ v \in Texts
      BY <1>2, <2>0, Zenon DEF FieldValues
    <3>2. v \in Seq(0 .. Width - 1) => v \in Seq(Nat)
      BY CodecAssumption
    <3> QED BY <3>1, <3>2 DEF Texts
  <2> QED BY <2>1, <2>2, PrefixedSeq
<1>3. CASE type = StringMap
  <2>0. type \notin {Varint, Bool, String, Bytes, StackFrames}
    BY <1>3 DEF StringMap, Varint, Bool, String, Bytes, StackFrames
  <2>1. v \in Seq(Seq(Nat) \X Seq(Nat))
    BY <1>3, <2>0, Zenon DEF FieldValues
  <2>2. PICK n \in Nat : n = Len(v) /\ DOMAIN v = 1 .. n
    BY <2>1
  <2>3. PICK parts : parts = [i \in 1 .. n |-> PairOf(v[i])]
    OBVIOUS
  <2>4. parts \in [1 .. n -> Seq(Nat)]
    <3>1. \A i \in 1 .. n : PairOf(v[i]) \in Seq(Nat)
      BY <2>1, <2>2, PairSeq
    <3> QED BY <2>3, <3>1
  <2>5. encode(type, v) = <<Len(v)>> \o FlattenSeq([i \in DOMAIN v |-> PairOf(v[i])])
    BY <1>3, <2>0, Zenon DEF encode, PairOf
  <2>6. <<n>> \in Seq(Nat) /\ FlattenSeq(parts) \in Seq(Nat)
    BY <2>4, FlatSeq
  <2>7. encode(type, v) = <<n>> \o FlattenSeq(parts)
    BY <2>2, <2>3, <2>5
  <2> QED BY <2>6, <2>7, JoinedSeq
<1>4. CASE type = Bool
  <2>0. type \notin {Varint, String, Bytes, StackFrames, StringMap}
    BY <1>4 DEF Bool, Varint, String, Bytes, StackFrames, StringMap
  <2>1. v \in {<<0>>, <<1>>}
    BY <1>4, <2>0, Zenon DEF FieldValues
  <2>2. encode(type, v) = v
    BY <2>0, Zenon DEF encode
  <2>3. <<0>> \in Seq(Nat) /\ <<1>> \in Seq(Nat)
    OBVIOUS
  <2> QED BY <2>1, <2>2, <2>3, Zenon
<1>5. CASE type \notin {Varint, Bool, String, Bytes, StackFrames, StringMap}
  <2>1. v \in Seq(Nat)
    BY <1>5, Zenon DEF FieldValues
  <2>2. encode(type, v) = v
    BY <1>5, Zenon DEF encode
  <2> QED BY <2>1, <2>2
<1> QED BY <1>1, <1>2, <1>3, <1>4, <1>5

-----------------------------------------------------------------------------
(* Frames *)

\* The values fit the fields of a schema.
Fit(fields, values) ==
    /\ fields \in Seq(FieldTypes) /\ DOMAIN values = 1 .. Len(fields) /\ values = [i \in 1 .. Len(fields) |-> values[i]]
    /\ \A i \in 1 .. Len(fields) : values[i] \in FieldValues(fields[i])

ReadValue(how, type, data, p) == IF how = "owned" THEN decode_owned(type, data, p) ELSE decode_ref(type, data, p)
ReadsFields(how, fields, data, pos, n, f) ==
    f = [i \in 0 .. n |-> IF i = 0 THEN Some(<<>>, pos)
                          ELSE Round(f[i - 1], ReadValue(how, fields[i], data, f[i - 1].pos))]

LEMMA ReadsFieldsAgree ==
  ASSUME NEW how, NEW fields, NEW data, NEW pos, NEW n \in Nat, NEW f, NEW g,
         ReadsFields(how, fields, data, pos, n, f), ReadsFields(how, fields, data, pos, n, g)
  PROVE f[n] = g[n]
<1>1. f[0] = g[0]
  BY DEF ReadsFields
<1>2. \A i \in 1 .. n : f[i - 1] = g[i - 1] => f[i] = g[i]
  BY DEF ReadsFields
<1>3. \A i \in 0 .. n : f[i] = g[i]
  BY ONLY <1>1, <1>2, n \in Nat, SameSteps
<1> QED BY <1>3

ReadFields(how, fields, data, pos, n) == (CHOOSE f : ReadsFields(how, fields, data, pos, n, f))[n]

\* where the values of an event stand
ValuesAt(data, pos, fields, values, n, o) ==
    n = Len(fields) /\ Offsets(data, pos, [i \in 1 .. n |-> encode(fields[i], values[i])], n, o)

LEMMA FieldsRead ==
  ASSUME NEW data \in Seq(Nat), NEW pos \in Nat, NEW fields, NEW values, Fit(fields, values), NEW n \in Nat,
         NEW o, ValuesAt(data, pos, fields, values, n, o), NEW how
  PROVE ReadFields(how, fields, data, pos, n) = Some(values, o[n])
<1>0. PICK parts : /\ parts = [i \in 1 .. n |-> encode(fields[i], values[i])]
                   /\ Offsets(data, pos, parts, n, o) /\ n = Len(fields)
  BY DEF ValuesAt
<1>1. /\ \A i \in 1 .. n : fields[i] \in FieldTypes /\ values[i] \in FieldValues(fields[i])
      /\ values = [i \in 1 .. n |-> values[i]]
  BY <1>0 DEF Fit
<1>2. ASSUME NEW i \in 1 .. n PROVE ReadValue(how, fields[i], data, o[i - 1]) = Some(values[i], o[i])
  <2>0. i - 1 \in 0 .. n
    OBVIOUS
  <2>1. parts[i] = encode(fields[i], values[i])
    BY <1>0
  <2>2. o[i] = o[i - 1] + Len(parts[i]) /\ At(data, o[i - 1], parts[i]) /\ o[i - 1] \in Nat
    BY <1>0, <2>0 DEF Offsets
  <2>3. PICK at \in Nat, type \in FieldTypes : at = o[i - 1] /\ type = fields[i]
    BY <1>1, <2>2
  <2>4. PICK v \in FieldValues(type) : v = values[i]
    BY <1>1, <2>3
  <2>5. At(data, at, encode(type, v))
    BY <2>1, <2>2, <2>3, <2>4
  <2>6. BothRead(type, data, at, v, at + Len(encode(type, v)))
    BY ONLY <2>5, data \in Seq(Nat), at \in Nat, type \in FieldTypes, v \in FieldValues(type), ValueReadBack, Zenon
  <2>7. at + Len(encode(type, v)) = o[i]
    BY <2>1, <2>2, <2>3, <2>4
  <2> QED BY <2>3, <2>4, <2>6, <2>7, Zenon DEF BothRead, ReadValue
<1>3. o[0] = pos
  BY <1>0 DEF Offsets
<1>a. PICK P : P = {values[i] : i \in 1 .. n}
  OBVIOUS
<1>4. values \in Seq(P) /\ Len(values) = n
  <2>1. values \in [1 .. n -> P]
    BY <1>1, <1>a
  <2> QED BY ONLY <2>1, n \in Nat, AsSeq
<1>5. PICK g : g = Rounds(values, o)
  OBVIOUS
<1>6. GoOn(values, o, n, g)
  <2>1. GoOn(values, o, Len(values), Rounds(values, o))
    BY ONLY <1>4, RoundsGoOn, Zenon
  <2> QED BY <1>4, <1>5, <2>1
<1>7. ReadsFields(how, fields, data, pos, n, g)
  <2>1. ASSUME NEW i \in 0 .. n, i # 0
        PROVE g[i] = Round(g[i - 1], ReadValue(how, fields[i], data, g[i - 1].pos))
    <3>1. i \in 1 .. n
      BY <2>1
    <3>2. /\ g[i - 1] = Some(SubSeq(values, 1, i - 1), o[i - 1])
          /\ g[i] = Some(Append(SubSeq(values, 1, i - 1), values[i]), o[i])
      BY <1>6, <3>1 DEF GoOn
    <3>3. ReadValue(how, fields[i], data, o[i - 1]) = Some(values[i], o[i])
      BY <1>2, <3>1
    <3> QED BY ONLY <3>2, <3>3, SomeIs DEF Round
  <2>2. g = [i \in 0 .. n |-> g[i]]
    BY <1>6 DEF GoOn
  <2>3. g[0] = Some(<<>>, pos)
    BY <1>3, <1>6 DEF GoOn
  <2> QED BY <2>1, <2>2, <2>3 DEF ReadsFields
<1>8. PICK f : f = CHOOSE c : ReadsFields(how, fields, data, pos, n, c)
  OBVIOUS
<1>9. ReadsFields(how, fields, data, pos, n, f)
  BY <1>7, <1>8
<1>10. f[n] = g[n]
  BY ONLY <1>7, <1>9, n \in Nat, ReadsFieldsAgree
<1>11. ReadFields(how, fields, data, pos, n) = f[n]
  BY <1>8 DEF ReadFields
<1> QED BY <1>6, <1>10, <1>11 DEF GoOn

\* an event as a frame gives it, and what a reader makes of its values and fields
EventIn(id, entry, values, ts) == [kind |-> "event", id |-> id, entry |-> entry, values |-> values, ts |-> ts]
EventOf(r, id, entry, ts) == IF r.res = "some" THEN Some(EventIn(id, entry, r.v, ts), r.pos) ELSE r

LEMMA FieldsReader ==
  ASSUME NEW fields, NEW data, NEW pos
  PROVE /\ FieldsOf(decode_owned, fields, data, pos) = ReadFields("owned", fields, data, pos, Len(fields))
        /\ FieldsOf(decode_ref, fields, data, pos) = ReadFields("ref", fields, data, pos, Len(fields))
<1>1. FieldsOf(decode_owned, fields, data, pos) = ReadFields("owned", fields, data, pos, Len(fields))
  BY DEF FieldsOf, AndThen, Repeat, Loop, ReadFields, ReadsFields, ReadValue, Round
<1>2. FieldsOf(decode_ref, fields, data, pos) = ReadFields("ref", fields, data, pos, Len(fields))
  BY DEF FieldsOf, AndThen, Repeat, Loop, ReadFields, ReadsFields, ReadValue, Round
<1> QED BY <1>1, <1>2

\* i and d are the id and the delta of an event.
EventAt(data, pos, reg, base, i, d) ==
    /\ i = Slice(data, pos, 1) /\ i.res = "some" /\ i.v[1] \in DOMAIN reg /\ reg[i.v[1]].has_timestamp
    /\ d = Slice(data, i.pos, 1) /\ d.res = "some" /\ ~(base + d.v[1] >= Width)
EventMade(data, pos, reg, base, i, d) ==
    /\ decode_event_frame(data, pos, reg, base)
           = EventOf(FieldsOf(decode_owned, reg[i.v[1]].fields, data, d.pos),
                     i.v[1], reg[i.v[1]], (base + d.v[1]) % Width)
    /\ decode_event_frame_ref(data, pos, reg, base)
           = EventOf(FieldsOf(decode_ref, reg[i.v[1]].fields, data, d.pos),
                     i.v[1], reg[i.v[1]], (base + d.v[1]) % Width)
    /\ EventFrame(decode_ref, FALSE, data, pos, reg, base)
           = EventOf(FieldsOf(decode_ref, reg[i.v[1]].fields, data, d.pos),
                     i.v[1], reg[i.v[1]], (base + d.v[1]) % Width)

LEMMA EventReader ==
  ASSUME NEW data, NEW pos, NEW reg, NEW base, NEW i, NEW d,
         EventAt(data, pos, reg, base, i, d)
  PROVE EventMade(data, pos, reg, base, i, d)
<1>1. decode_event_frame(data, pos, reg, base)
             = EventOf(FieldsOf(decode_owned, reg[i.v[1]].fields, data, d.pos),
                       i.v[1], reg[i.v[1]], (base + d.v[1]) % Width)
  BY DEF decode_event_frame, EventFrame, AndThen, EventOf, EventIn, EventAt
<1>2. decode_event_frame_ref(data, pos, reg, base)
             = EventOf(FieldsOf(decode_ref, reg[i.v[1]].fields, data, d.pos),
                       i.v[1], reg[i.v[1]], (base + d.v[1]) % Width)
  BY DEF decode_event_frame_ref, EventFrame, AndThen, EventOf, EventIn, EventAt
<1>3. EventFrame(decode_ref, FALSE, data, pos, reg, base)
             = EventOf(FieldsOf(decode_ref, reg[i.v[1]].fields, data, d.pos),
                       i.v[1], reg[i.v[1]], (base + d.v[1]) % Width)
  BY DEF EventFrame, AndThen, EventOf, EventIn, EventAt
<1> QED BY <1>1, <1>2, <1>3 DEF EventMade

\* Every reader decodes the frame at d.pos to f, and goes on at end.
FrameRead(data, d, f, end) == \A reader \in Readers : FrameOf(reader, data, d) = Some(f, end)

LEMMA Tags == /\ TAG_SCHEMA # TAG_EVENT /\ TAG_STRING_POOL # TAG_EVENT /\ TAG_TIMESTAMP_RESET # TAG_EVENT
              /\ TAG_SCHEMA # TAG_STRING_POOL /\ TAG_SCHEMA # TAG_TIMESTAMP_RESET
              /\ TAG_STRING_POOL # TAG_TIMESTAMP_RESET
              /\ TAG_SCHEMA \in Nat /\ TAG_EVENT \in Nat /\ TAG_STRING_POOL \in Nat /\ TAG_TIMESTAMP_RESET \in Nat
  BY DEF TAG_SCHEMA, TAG_EVENT, TAG_STRING_POOL, TAG_TIMESTAMP_RESET

LEMMA OtherRead ==
  ASSUME NEW data, NEW d, NEW f, NEW end, data[d.pos + 1] # TAG_EVENT, OtherFrame(data, d.pos) = Some(f, end)
  PROVE FrameRead(data, d, f, end)
<1>1. ASSUME NEW reader \in Readers PROVE FrameOf(reader, data, d) = Some(f, end)
  <2>1. decode_frame(data, d.pos, d.reg, d.base) = Some(f, end)
    BY DEF decode_frame
  <2>2. decode_frame_ref(data, d.pos, d.reg, d.base) = Some(f, end)
    BY DEF decode_frame_ref
  <2>3. reader \in {"frames", "refs", "events"}
    BY DEF Readers
  <2>4. CASE reader = "frames"
    BY <2>1, <2>4, Zenon DEF FrameOf
  <2>5. CASE reader # "frames"
    BY <2>2, <2>5, Zenon DEF FrameOf
  <2> QED BY <2>4, <2>5
<1> QED BY <1>1 DEF FrameRead

LEMMA FitAt ==
  ASSUME NEW fields, NEW values, Fit(fields, values)
  PROVE /\ Len(fields) \in Nat /\ DOMAIN values = 1 .. Len(fields)
        /\ \A i \in 1 .. Len(fields) : fields[i] \in FieldTypes /\ values[i] \in FieldValues(fields[i])
<1>1. fields \in Seq(FieldTypes)
  BY DEF Fit
<1>2. Len(fields) \in Nat /\ \A i \in 1 .. Len(fields) : fields[i] \in FieldTypes
  BY <1>1
<1> QED BY <1>2 DEF Fit

LEMMA ThreeAt ==
  ASSUME NEW data \in Seq(Nat), NEW pos \in Nat, NEW a \in Nat, NEW b \in Nat, NEW c \in Nat,
         At(data, pos, <<a, b, c>>)
  PROVE data[pos + 1] = a /\ At(data, pos + 1, <<b>>) /\ At(data, pos + 2, <<c>>)
<1>1. pos + 3 <= Len(data) /\ data[pos + 1] = a /\ data[pos + 2] = b /\ data[pos + 3] = c
  <2>1. Len(<<a, b, c>>) = 3 /\ <<a, b, c>>[1] = a /\ <<a, b, c>>[2] = b /\ <<a, b, c>>[3] = c
    OBVIOUS
  <2>2. pos + 3 <= Len(data) /\ \A i \in 1 .. 3 : data[pos + i] = <<a, b, c>>[i]
    BY <2>1 DEF At
  <2>3. 1 \in 1 .. 3 /\ 2 \in 1 .. 3 /\ 3 \in 1 .. 3
    OBVIOUS
  <2> QED BY <2>1, <2>2, <2>3, Zenon
<1>2. ASSUME NEW at \in Nat, NEW x, at + 1 <= Len(data), data[at + 1] = x PROVE At(data, at, <<x>>)
  <2>1. Len(<<x>>) = 1 /\ <<x>>[1] = x /\ \A i \in 1 .. 1 : i = 1
    OBVIOUS
  <2> QED BY <1>2, <2>1 DEF At
<1>3. /\ pos + 1 \in Nat /\ pos + 2 \in Nat /\ (pos + 1) + 1 = pos + 2 /\ (pos + 2) + 1 = pos + 3
      /\ (pos + 1) + 1 <= Len(data) /\ (pos + 2) + 1 <= Len(data)
  BY <1>1
<1>4. At(data, pos + 1, <<b>>)
  BY <1>1, <1>2, <1>3
<1>5. At(data, pos + 2, <<c>>)
  BY <1>1, <1>2, <1>3
<1> QED BY <1>1, <1>4, <1>5

\* The frame of an event is read back by every reader that is where the encoder was: at
\* its place, with its schema and with its base. decode_event_frame, the reference's and
\* the one of for_each_event, of what encode_event wrote for a schema with a timestamp.
THEOREM EventReadBack ==
  ASSUME NEW data \in Seq(Nat), NEW d, d.pos \in Nat, d.base \in Nat, NEW entry, entry.has_timestamp,
         NEW values, Fit(entry.fields, values), NEW id \in Nat, id \in DOMAIN d.reg, d.reg[id] = entry,
         NEW delta \in Nat, d.base + delta < Width, At(data, d.pos, encode_event(id, delta, entry, values))
  PROVE FrameRead(data, d, EventIn(id, entry, values, d.base + delta),
                  d.pos + Len(encode_event(id, delta, entry, values)))
<1>0. PICK pos \in Nat, base \in Nat : pos = d.pos /\ base = d.base
  OBVIOUS
<1>1. PICK n \in Nat : n = Len(entry.fields)
  BY FitAt
<1>2. PICK parts : parts = [i \in 1 .. n |-> encode(entry.fields[i], values[i])]
  OBVIOUS
<1>3. encode_event(id, delta, entry, values) = <<TAG_EVENT, id, delta>> \o FlattenSeq(parts)
  <2>1. DOMAIN values = 1 .. n
    BY <1>1, FitAt
  <2> QED BY <1>2, <2>1 DEF encode_event
<1>4. parts \in [1 .. n -> Seq(Nat)]
  <2>1. \A i \in 1 .. n : encode(entry.fields[i], values[i]) \in Seq(Nat)
    <3> TAKE i \in 1 .. n
    <3>1. entry.fields[i] \in FieldTypes /\ values[i] \in FieldValues(entry.fields[i])
      BY <1>1, FitAt
    <3> QED BY <3>1, EncodedSeq
  <2> QED BY <1>2, <2>1
<1>5. PICK h \in Seq(Nat), t \in Seq(Nat) : h = <<TAG_EVENT, id, delta>> /\ Len(h) = 3 /\ t = FlattenSeq(parts)
  <2>1. <<TAG_EVENT, id, delta>> \in Seq(Nat) /\ Len(<<TAG_EVENT, id, delta>>) = 3
    BY Tags
  <2>2. FlattenSeq(parts) \in Seq(Nat)
    BY ONLY <1>4, n \in Nat, FlatSeq
  <2> QED BY <2>1, <2>2
<1>6. At(data, pos, h) /\ At(data, pos + 3, t) /\ Len(encode_event(id, delta, entry, values)) = 3 + Len(t)
  <2>1. At(data, pos, h \o t)
    BY <1>0, <1>3, <1>5
  <2>2. At(data, pos, h) /\ At(data, pos + Len(h), t)
    BY ONLY <2>1, data \in Seq(Nat), pos \in Nat, h \in Seq(Nat), t \in Seq(Nat), AtJoined
  <2>3. Len(h \o t) = Len(h) + Len(t)
    BY ONLY h \in Seq(Nat), t \in Seq(Nat), JoinedSeq
  <2> QED BY <1>3, <1>5, <2>2, <2>3
<1>7. data[pos + 1] = TAG_EVENT /\ At(data, pos + 1, <<id>>) /\ At(data, pos + 2, <<delta>>)
  <2>1. At(data, pos, <<TAG_EVENT, id, delta>>)
    BY <1>5, <1>6
  <2> QED BY ONLY <2>1, data \in Seq(Nat), pos \in Nat, id \in Nat, delta \in Nat, Tags, ThreeAt
<1>8. PICK i : i = Slice(data, pos + 1, 1) /\ i.res = "some" /\ i.v = <<id>> /\ i.v[1] = id /\ i.pos = pos + 2
  <2>1. Slice(data, pos + 1, 1) = Some(<<id>>, (pos + 1) + 1)
    <3>1. PICK at \in Nat : at = pos + 1
      OBVIOUS
    <3> QED BY <1>7, <3>1, NumberRead
  <2>2. (pos + 1) + 1 = pos + 2 /\ <<id>>[1] = id
    OBVIOUS
  <2> QED BY <2>1, <2>2, SomeIs
<1>9. PICK s : s = Slice(data, i.pos, 1) /\ s.res = "some" /\ s.v[1] = delta /\ s.pos = pos + 3
  <2>1. Slice(data, pos + 2, 1) = Some(<<delta>>, (pos + 2) + 1)
    <3>1. PICK at \in Nat : at = pos + 2
      OBVIOUS
    <3> QED BY <1>7, <3>1, NumberRead
  <2>2. (pos + 2) + 1 = pos + 3 /\ <<delta>>[1] = delta
    OBVIOUS
  <2> QED BY <1>8, <2>1, <2>2, SomeIs
<1>10. PICK o : ValuesAt(data, pos + 3, entry.fields, values, n, o) /\ o[n] = (pos + 3) + Len(t)
  <2>1. PICK at \in Nat : at = pos + 3
    OBVIOUS
  <2>2. At(data, at, FlattenSeq(parts))
    BY <1>5, <1>6, <2>1
  <2>3. PICK o : Offsets(data, at, parts, n, o) /\ o[n] = at + Len(FlattenSeq(parts))
    BY ONLY <1>4, <2>2, n \in Nat, at \in Nat, data \in Seq(Nat), AtParts
  <2> QED BY <1>1, <1>2, <1>5, <2>1, <2>3 DEF ValuesAt
<1>11. \A how : ReadFields(how, entry.fields, data, pos + 3, n) = Some(values, o[n])
  <2> TAKE how
  <2>1. PICK at \in Nat : at = pos + 3
    OBVIOUS
  <2>2. ValuesAt(data, at, entry.fields, values, n, o)
    BY <1>10, <2>1
  <2>3. ReadFields(how, entry.fields, data, at, n) = Some(values, o[n])
    BY ONLY <2>2, data \in Seq(Nat), at \in Nat, n \in Nat, Fit(entry.fields, values), FieldsRead
  <2> QED BY <2>1, <2>3
<1>12. /\ FieldsOf(decode_owned, entry.fields, data, s.pos) = Some(values, o[n])
       /\ FieldsOf(decode_ref, entry.fields, data, s.pos) = Some(values, o[n])
  <2>1. /\ FieldsOf(decode_owned, entry.fields, data, pos + 3)
                = ReadFields("owned", entry.fields, data, pos + 3, Len(entry.fields))
        /\ FieldsOf(decode_ref, entry.fields, data, pos + 3)
                = ReadFields("ref", entry.fields, data, pos + 3, Len(entry.fields))
    BY ONLY FieldsReader, Zenon
  <2>2. /\ ReadFields("owned", entry.fields, data, pos + 3, n) = Some(values, o[n])
        /\ ReadFields("ref", entry.fields, data, pos + 3, n) = Some(values, o[n])
    BY ONLY <1>11, Zenon
  <2> QED BY <1>1, <1>9, <2>1, <2>2
<1>13. PICK r : r = Some(EventIn(id, entry, values, base + delta), o[n])
  OBVIOUS
<1>14. /\ EventOf(FieldsOf(decode_owned, entry.fields, data, s.pos), id, entry, (base + delta) % Width) = r
       /\ EventOf(FieldsOf(decode_ref, entry.fields, data, s.pos), id, entry, (base + delta) % Width) = r
  <2>1. (base + delta) % Width = base + delta
    <3>1. PICK m \in Nat, w \in Nat \ {0} : m = base + delta /\ w = Width /\ m < w
      BY <1>0, CodecAssumption
    <3> QED BY ONLY <3>1, ModSmall
  <2> QED BY <1>12, <1>13, <2>1, SomeIs DEF EventOf
<1>15. ~(base + s.v[1] >= Width)
  BY <1>0, <1>9, CodecAssumption
<1>16. /\ decode_event_frame(data, pos + 1, d.reg, base) = r
       /\ decode_event_frame_ref(data, pos + 1, d.reg, base) = r
       /\ EventFrame(decode_ref, FALSE, data, pos + 1, d.reg, base) = r
  <2>1. EventAt(data, pos + 1, d.reg, base, i, s)
    BY <1>8, <1>9, <1>15 DEF EventAt
  <2>2. EventMade(data, pos + 1, d.reg, base, i, s)
    BY ONLY <2>1, EventReader, Zenon
  <2> QED BY <1>8, <1>9, <1>14, <2>2, Zenon DEF EventMade
<1>17. ASSUME NEW reader \in Readers PROVE FrameOf(reader, data, d) = r
  <2>1. decode_frame(data, d.pos, d.reg, d.base) = r
    BY <1>0, <1>7, <1>16 DEF decode_frame
  <2>2. decode_frame_ref(data, d.pos, d.reg, d.base) = r
    BY <1>0, <1>7, <1>16 DEF decode_frame_ref
  <2>3. EventFrame(decode_ref, FALSE, data, d.pos + 1, d.reg, d.base) = r
    BY <1>0, <1>16
  <2>4. CASE reader = "frames"
    BY <2>1, <2>4, Zenon DEF FrameOf
  <2>5. CASE reader = "events"
    <3>1. reader # "frames"
      BY <2>5
    <3> QED BY <2>2, <2>3, <2>5, <3>1, Zenon DEF FrameOf
  <2>6. CASE reader = "refs"
    <3>1. reader # "frames" /\ reader # "events"
      BY <2>6
    <3> QED BY <2>2, <2>6, <3>1, Zenon DEF FrameOf
  <2> QED BY <2>4, <2>5, <2>6 DEF Readers
<1>18. o[n] = pos + Len(encode_event(id, delta, entry, values))
  <2>1. Len(t) \in Nat
    OBVIOUS
  <2>2. (pos + 3) + Len(t) = pos + (3 + Len(t))
    BY <2>1
  <2> QED BY <1>6, <1>10, <2>2
<1> QED BY <1>0, <1>13, <1>17, <1>18 DEF FrameRead

\* h and f are the head of a schema and its fields.
SchemaAt(data, pos, h, f) ==
    /\ h = Slice(data, pos, 3) /\ h.res = "some" /\ f = Text(data, h.pos) /\ f.res = "some"
    /\ \A i \in DOMAIN f.v : f.v[i] \in FieldTypes
SchemaOf(h, f) ==
    Some([kind |-> "schema", id |-> h.v[1],
          entry |-> [name |-> h.v[2], has_timestamp |-> h.v[3] # 0, fields |-> f.v]], f.pos)

LEMMA SchemaReader ==
  ASSUME NEW data, NEW pos, NEW h, NEW f, SchemaAt(data, pos, h, f)
  PROVE decode_schema_frame(data, pos) = SchemaOf(h, f)
  BY DEF decode_schema_frame, AndThen, SchemaAt, SchemaOf

LEMMA Wider == ASSUME NEW S, NEW T, S \subseteq T, NEW s \in Seq(S) PROVE s \in Seq(T)
  OBVIOUS

LEMMA FourAt ==
  ASSUME NEW data \in Seq(Nat), NEW pos \in Nat, NEW a \in Nat, NEW b \in Nat, NEW c \in Nat, NEW e \in Nat,
         At(data, pos, <<a, b, c, e>>)
  PROVE data[pos + 1] = a /\ At(data, pos + 1, <<b, c, e>>)
<1>1. /\ Len(<<a, b, c, e>>) = 4 /\ <<a, b, c, e>>[1] = a /\ <<a, b, c, e>>[2] = b
      /\ <<a, b, c, e>>[3] = c /\ <<a, b, c, e>>[4] = e
  OBVIOUS
<1>2. pos + 4 <= Len(data) /\ \A i \in 1 .. 4 : data[pos + i] = <<a, b, c, e>>[i]
  BY <1>1 DEF At
<1>3. 1 \in 1 .. 4 /\ 2 \in 1 .. 4 /\ 3 \in 1 .. 4 /\ 4 \in 1 .. 4
  OBVIOUS
<1>4. data[pos + 1] = a /\ data[pos + 2] = b /\ data[pos + 3] = c /\ data[pos + 4] = e
  BY <1>1, <1>2, <1>3, Zenon
<1>5. Len(<<b, c, e>>) = 3 /\ <<b, c, e>>[1] = b /\ <<b, c, e>>[2] = c /\ <<b, c, e>>[3] = e
  OBVIOUS
<1>6. /\ (pos + 1) + 3 <= Len(data) /\ (pos + 1) + 1 = pos + 2 /\ (pos + 1) + 2 = pos + 3 /\ (pos + 1) + 3 = pos + 4
      /\ \A i \in 1 .. 3 : i = 1 \/ i = 2 \/ i = 3
  BY <1>2
<1>7. \A i \in 1 .. 3 : data[(pos + 1) + i] = <<b, c, e>>[i]
  BY <1>4, <1>5, <1>6, Zenon
<1> QED BY <1>4, <1>5, <1>6, <1>7 DEF At

\* The frame of a schema is read back by every reader: decode_schema_frame of what
\* encode_schema wrote, the types of the fields included.
THEOREM SchemaReadBack ==
  ASSUME NEW data \in Seq(Nat), NEW d, d.pos \in Nat, NEW id \in Nat, NEW name \in Nat, NEW timed \in BOOLEAN,
         NEW fields \in Seq(FieldTypes), NEW entry, 
         entry = [name |-> name, has_timestamp |-> timed, fields |-> fields],
         At(data, d.pos, encode_schema(id, entry))
  PROVE FrameRead(data, d, [kind |-> "schema", id |-> id, entry |-> entry], d.pos + Len(encode_schema(id, entry)))
<1>1. PICK flag \in Nat : flag = (IF timed THEN 1 ELSE 0)
  OBVIOUS
<1>2. PICK pos \in Nat, h \in Seq(Nat) : pos = d.pos /\ h = <<TAG_SCHEMA, id, name, flag>> /\ Len(h) = 4
  <2>1. <<TAG_SCHEMA, id, name, flag>> \in Seq(Nat) /\ Len(<<TAG_SCHEMA, id, name, flag>>) = 4
    BY Tags
  <2> QED BY <2>1
<1>3. fields \in Seq(Nat)
  <2>1. FieldTypes \subseteq Nat
    BY DEF FieldTypes, I64, F64, U8, U16, U32, Bool, String, Bytes, PooledString, StackFrames, Varint, StringMap
  <2> QED BY ONLY <2>1, fields \in Seq(FieldTypes), Wider
<1>4. PICK t \in Seq(Nat) : t = LengthPrefixed(fields)
  BY <1>3, PrefixedSeq
<1>5. encode_schema(id, entry) = h \o t
  BY <1>1, <1>2, <1>4 DEF encode_schema
<1>6. At(data, pos, h) /\ At(data, pos + 4, t) /\ Len(encode_schema(id, entry)) = 4 + Len(t)
  <2>1. At(data, pos, h \o t)
    BY <1>2, <1>5
  <2>2. At(data, pos, h) /\ At(data, pos + Len(h), t)
    BY ONLY <2>1, data \in Seq(Nat), pos \in Nat, h \in Seq(Nat), t \in Seq(Nat), AtJoined
  <2>3. Len(h \o t) = Len(h) + Len(t)
    BY ONLY h \in Seq(Nat), t \in Seq(Nat), JoinedSeq
  <2> QED BY <1>2, <1>5, <2>2, <2>3
<1>7. data[pos + 1] = TAG_SCHEMA /\ At(data, pos + 1, <<id, name, flag>>)
  <2>1. At(data, pos, <<TAG_SCHEMA, id, name, flag>>)
    BY <1>2, <1>6
  <2> QED BY ONLY <2>1, data \in Seq(Nat), pos \in Nat, id \in Nat, name \in Nat, flag \in Nat, Tags, FourAt
<1>8. PICK at \in Nat, end \in Nat : at = pos + 1 /\ end = pos + 4 /\ end = at + 3
  OBVIOUS
<1>9. PICK s : s = Slice(data, at, 3) /\ s.res = "some" /\ s.v = <<id, name, flag>> /\ s.pos = end
  <2>0. <<id, name, flag>> \in Seq(Nat) /\ Len(<<id, name, flag>>) = 3
    OBVIOUS
  <2>1. PICK w \in Seq(Nat) : w = <<id, name, flag>> /\ Len(w) = 3
    BY <2>0
  <2>2. At(data, at, w)
    BY <1>7, <1>8, <2>1
  <2>3. Slice(data, at, Len(w)) = Some(w, at + Len(w))
    BY ONLY <2>2, data \in Seq(Nat), at \in Nat, w \in Seq(Nat), SliceRead
  <2> QED BY <1>8, <2>1, <2>3, SomeIs
<1>10. PICK f : f = Text(data, s.pos) /\ f.res = "some" /\ f.v = fields /\ f.pos = end + Len(t)
  <2>1. At(data, end, LengthPrefixed(fields))
    BY <1>4, <1>6, <1>8
  <2>2. Text(data, end) = Some(fields, end + Len(LengthPrefixed(fields)))
    BY ONLY <1>3, <2>1, data \in Seq(Nat), end \in Nat, TextRead
  <2> QED BY <1>4, <1>9, <2>2, SomeIs
<1>11. \A i \in DOMAIN f.v : f.v[i] \in FieldTypes
  BY <1>10
<1>12. decode_schema_frame(data, at)
          = Some([kind |-> "schema", id |-> s.v[1],
                  entry |-> [name |-> s.v[2], has_timestamp |-> s.v[3] # 0, fields |-> f.v]], f.pos)
  <2>1. SchemaAt(data, at, s, f)
    BY <1>9, <1>10, <1>11 DEF SchemaAt
  <2>2. decode_schema_frame(data, at) = SchemaOf(s, f)
    BY ONLY <2>1, SchemaReader, Zenon
  <2> QED BY <2>2 DEF SchemaOf
<1>13. s.v[1] = id /\ s.v[2] = name /\ (s.v[3] # 0) = timed
  BY <1>1, <1>9
<1>14. decode_schema_frame(data, at) = Some([kind |-> "schema", id |-> id, entry |-> entry], f.pos)
  BY <1>10, <1>12, <1>13
<1>15. OtherFrame(data, d.pos) = Some([kind |-> "schema", id |-> id, entry |-> entry], f.pos)
  BY <1>2, <1>7, <1>8, <1>14, Tags, Zenon DEF OtherFrame
<1>16. f.pos = d.pos + Len(encode_schema(id, entry))
  <2>1. Len(t) \in Nat
    OBVIOUS
  <2>2. (pos + 4) + Len(t) = pos + (4 + Len(t))
    BY <2>1
  <2> QED BY <1>2, <1>6, <1>8, <1>10, <2>2
<1>17. data[d.pos + 1] # TAG_EVENT
  BY <1>2, <1>7, Tags
<1> QED BY <1>15, <1>16, <1>17, OtherRead

\* The frame that moves the base of the times is read back by every reader, so that
\* both sides have the same base behind it: decode_frame of encode_timestamp_reset.
THEOREM ResetReadBack ==
  ASSUME NEW data \in Seq(Nat), NEW d, d.pos \in Nat, NEW ts \in Nat, At(data, d.pos, <<TAG_TIMESTAMP_RESET, ts>>)
  PROVE FrameRead(data, d, [kind |-> "reset", ts |-> ts], d.pos + 2)
<1>1. PICK pos \in Nat, at \in Nat : pos = d.pos /\ at = pos + 1
  OBVIOUS
<1>2. data[at] = TAG_TIMESTAMP_RESET /\ At(data, at, <<ts>>)
  <2>1. /\ Len(<<TAG_TIMESTAMP_RESET, ts>>) = 2 /\ <<TAG_TIMESTAMP_RESET, ts>>[1] = TAG_TIMESTAMP_RESET
        /\ <<TAG_TIMESTAMP_RESET, ts>>[2] = ts /\ Len(<<ts>>) = 1 /\ <<ts>>[1] = ts
    OBVIOUS
  <2>2. pos + 2 <= Len(data) /\ \A i \in 1 .. 2 : data[pos + i] = <<TAG_TIMESTAMP_RESET, ts>>[i]
    BY <1>1, <2>1 DEF At
  <2>3. 1 \in 1 .. 2 /\ 2 \in 1 .. 2 /\ at + 1 = pos + 2 /\ \A i \in 1 .. 1 : i = 1
    BY <1>1
  <2>4. data[at] = TAG_TIMESTAMP_RESET /\ data[at + 1] = ts
    BY <1>1, <2>1, <2>2, <2>3, Zenon
  <2> QED BY <2>1, <2>2, <2>3, <2>4 DEF At
<1>3. PICK t : t = Slice(data, at, 1) /\ t.res = "some" /\ t.v = <<ts>> /\ t.pos = at + 1
  <2>1. Slice(data, at, 1) = Some(<<ts>>, at + 1)
    BY ONLY <1>2, data \in Seq(Nat), at \in Nat, ts \in Nat, NumberRead
  <2> QED BY <2>1, SomeIs
<1>4. t.v[1] = ts /\ t.pos = d.pos + 2
  BY <1>1, <1>3
<1>5. decode_timestamp_reset(data, at) = Some([kind |-> "reset", ts |-> t.v[1]], t.pos)
  BY <1>3 DEF decode_timestamp_reset, AndThen
<1>6. OtherFrame(data, d.pos) = Some([kind |-> "reset", ts |-> ts], d.pos + 2)
  BY <1>1, <1>2, <1>4, <1>5, Tags, Zenon DEF OtherFrame
<1>7. data[d.pos + 1] # TAG_EVENT
  BY <1>1, <1>2, Tags
<1> QED BY <1>6, <1>7, OtherRead

\* an entry of a string pool, and how far the parser of n such entries is
Pooled(id, text) == [id |-> id, text |-> text]
ReadsPooled(data, n, pos, f) ==
    f = [i \in 0 .. n |-> IF i = 0 THEN Some(<<>>, pos) ELSE Round(f[i - 1], pool_entry(data, f[i - 1].pos))]
ReadPool(data, n, pos) == (CHOOSE f : ReadsPooled(data, n, pos, f))[n]
PoolOf(r) == IF r.res = "some" THEN Some([kind |-> "pool", entries |-> r.v], r.pos) ELSE r

LEMMA PoolReader ==
  ASSUME NEW data, NEW pos, NEW n, n = Slice(data, pos, 1), n.res = "some"
  PROVE decode_string_pool_frame(data, pos) = PoolOf(ReadPool(data, n.v[1], n.pos))
  BY DEF decode_string_pool_frame, AndThen, Repeat, Loop, ReadPool, ReadsPooled, Round, PoolOf

LEMMA PooledIs ==
  ASSUME NEW data, NEW p, NEW id, NEW text, NEW q, NEW e,
         Slice(data, p, 1) = Some(<<id>>, q), Text(data, q) = Some(text, e)
  PROVE pool_entry(data, p) = Some(Pooled(id, text), e)
<1>1. PICK i : i = Slice(data, p, 1) /\ i.res = "some" /\ i.v = <<id>> /\ i.v[1] = id /\ i.pos = q
  BY SomeIs
<1>2. PICK t : t = Text(data, q) /\ t.res = "some" /\ t.v = text /\ t.pos = e
  BY SomeIs
<1> QED BY <1>1, <1>2 DEF pool_entry, AndThen, Pooled

\* A pool of one entry is what the parser reads once.
LEMMA OnePooled ==
  ASSUME NEW data, NEW pos, NEW r, NEW e, pool_entry(data, pos) = Some(r, e)
  PROVE ReadPool(data, 1, pos) = Some(<<r>>, e)
<1>1. PICK g : g = [i \in 0 .. 1 |-> IF i = 0 THEN Some(<<>>, pos) ELSE Some(<<r>>, e)]
  OBVIOUS
<1>2. /\ g[0] = Some(<<>>, pos) /\ g[1] = Some(<<r>>, e) /\ 1 - 1 = 0 /\ \A i \in 0 .. 1 : i = 0 \/ i = 1
      /\ Append(<<>>, r) = <<r>>
  BY <1>1
<1>3. Round(g[0], pool_entry(data, g[0].pos)) = g[1]
  <2>1. g[0].res = "some" /\ g[0].v = <<>> /\ g[0].pos = pos
    BY <1>2, SomeIs
  <2>2. PICK x : x = pool_entry(data, pos) /\ x.res = "some" /\ x.v = r /\ x.pos = e
    BY SomeIs
  <2> QED BY <1>2, <2>1, <2>2 DEF Round
<1>4. \A i \in 0 .. 1 : g[i] = IF i = 0 THEN Some(<<>>, pos) ELSE Round(g[i - 1], pool_entry(data, g[i - 1].pos))
  BY <1>2, <1>3
<1>5. ReadsPooled(data, 1, pos, g)
  <2>1. g = [i \in 0 .. 1 |-> g[i]]
    BY <1>1
  <2> QED BY <1>4, <2>1 DEF ReadsPooled
<1>6. PICK f : f = CHOOSE c : ReadsPooled(data, 1, pos, c)
  OBVIOUS
<1>7. ReadsPooled(data, 1, pos, f)
  BY <1>5, <1>6
<1>8. f[0] = Some(<<>>, pos) /\ f[1] = Round(f[1 - 1], pool_entry(data, f[1 - 1].pos))
  <2>1. 0 \in 0 .. 1 /\ 1 \in 0 .. 1
    OBVIOUS
  <2> QED BY <1>7, <2>1 DEF ReadsPooled
<1>9. f[1] = g[1]
  BY <1>2, <1>3, <1>8
<1> QED BY <1>2, <1>6, <1>9 DEF ReadPool

\* The frame of a string is read back by every reader, whatever bytes the string has:
\* decode_string_pool_frame of what encode_string_pool wrote for one entry.
THEOREM PoolReadBack ==
  ASSUME NEW data \in Seq(Nat), NEW d, d.pos \in Nat, NEW id \in Nat, NEW text \in Seq(Nat),
         At(data, d.pos, encode_string_pool(id, text))
  PROVE FrameRead(data, d, [kind |-> "pool", entries |-> <<Pooled(id, text)>>],
                  d.pos + Len(encode_string_pool(id, text)))
<1>1. PICK h \in Seq(Nat), t \in Seq(Nat) :
          h = <<TAG_STRING_POOL, 1, id>> /\ Len(h) = 3 /\ t = LengthPrefixed(text)
  <2>1. <<TAG_STRING_POOL, 1, id>> \in Seq(Nat) /\ Len(<<TAG_STRING_POOL, 1, id>>) = 3
    BY Tags
  <2> QED BY <2>1, PrefixedSeq
<1>2. encode_string_pool(id, text) = h \o t
  BY <1>1 DEF encode_string_pool
<1>3. PICK pos \in Nat, at \in Nat, next \in Nat, start \in Nat :
          pos = d.pos /\ at = pos + 1 /\ next = pos + 2 /\ start = pos + 3 /\ next = at + 1 /\ start = next + 1
  OBVIOUS
<1>4. At(data, pos, h) /\ At(data, start, t) /\ Len(h \o t) = 3 + Len(t)
  <2>1. At(data, pos, h \o t)
    BY <1>2, <1>3
  <2>2. At(data, pos, h) /\ At(data, pos + Len(h), t)
    BY ONLY <2>1, data \in Seq(Nat), pos \in Nat, h \in Seq(Nat), t \in Seq(Nat), AtJoined
  <2>3. Len(h \o t) = Len(h) + Len(t)
    BY ONLY h \in Seq(Nat), t \in Seq(Nat), JoinedSeq
  <2> QED BY <1>1, <1>3, <2>2, <2>3
<1>5. data[at] = TAG_STRING_POOL /\ At(data, at, <<1>>) /\ At(data, next, <<id>>)
  <2>1. At(data, pos, <<TAG_STRING_POOL, 1, id>>)
    BY <1>1, <1>4
  <2>2. 1 \in Nat
    OBVIOUS
  <2>3. data[pos + 1] = TAG_STRING_POOL /\ At(data, pos + 1, <<1>>) /\ At(data, pos + 2, <<id>>)
    BY ONLY <2>1, <2>2, data \in Seq(Nat), pos \in Nat, id \in Nat, Tags, ThreeAt
  <2> QED BY <1>3, <2>3
<1>6. PICK n : n = Slice(data, at, 1) /\ n.res = "some" /\ n.v[1] = 1 /\ n.pos = next
  <2>1. 1 \in Nat
    OBVIOUS
  <2>2. Slice(data, at, 1) = Some(<<1>>, at + 1)
    BY ONLY <1>5, <2>1, data \in Seq(Nat), at \in Nat, NumberRead
  <2>3. <<1>>[1] = 1 /\ at + 1 = next
    BY <1>3
  <2>4. PICK n : n = Slice(data, at, 1) /\ n.res = "some" /\ n.v = <<1>> /\ n.pos = at + 1
    BY <2>2, SomeIs
  <2> QED BY <2>3, <2>4
<1>7. Slice(data, next, 1) = Some(<<id>>, start)
  <2>1. Slice(data, next, 1) = Some(<<id>>, next + 1)
    BY ONLY <1>5, data \in Seq(Nat), next \in Nat, id \in Nat, NumberRead
  <2> QED BY <1>3, <2>1
<1>8. Text(data, start) = Some(text, start + Len(t))
  <2>1. At(data, start, LengthPrefixed(text))
    BY <1>1, <1>4
  <2>2. Text(data, start) = Some(text, start + Len(LengthPrefixed(text)))
    BY ONLY <2>1, data \in Seq(Nat), start \in Nat, text \in Seq(Nat), TextRead
  <2> QED BY <1>1, <2>2
<1>9. ReadPool(data, 1, next) = Some(<<Pooled(id, text)>>, start + Len(t))
  <2>1. pool_entry(data, next) = Some(Pooled(id, text), start + Len(t))
    BY ONLY <1>7, <1>8, PooledIs
  <2> QED BY ONLY <2>1, OnePooled
<1>10. decode_string_pool_frame(data, at)
          = Some([kind |-> "pool", entries |-> <<Pooled(id, text)>>], start + Len(t))
  <2>1. decode_string_pool_frame(data, at) = PoolOf(ReadPool(data, 1, next))
    BY <1>6, PoolReader
  <2>2. PICK r : /\ r = ReadPool(data, 1, next) /\ r.res = "some"
                 /\ r.v = <<Pooled(id, text)>> /\ r.pos = start + Len(t)
    BY <1>9, SomeIs
  <2> QED BY <2>1, <2>2 DEF PoolOf
<1>11. OtherFrame(data, d.pos) = Some([kind |-> "pool", entries |-> <<Pooled(id, text)>>], start + Len(t))
  BY <1>3, <1>5, <1>10, Tags, Zenon DEF OtherFrame
<1>12. start + Len(t) = d.pos + Len(encode_string_pool(id, text))
  <2>1. Len(t) \in Nat
    OBVIOUS
  <2>2. PICK l \in Nat : l = Len(t)
    BY <2>1
  <2>3. Len(encode_string_pool(id, text)) = 3 + l
    BY <1>2, <1>4, <2>2
  <2>4. start + l = pos + (3 + l)
    <3>1. start = pos + 3
      BY <1>3
    <3> QED BY ONLY <3>1, pos \in Nat, l \in Nat
  <2> QED BY <1>3, <2>2, <2>3, <2>4
<1>13. data[d.pos + 1] # TAG_EVENT
  BY <1>3, <1>5, Tags
<1> QED BY <1>11, <1>12, <1>13, OtherRead

-----------------------------------------------------------------------------
(* Streams that are cut short *)

\* data is the beginning of full
Begins(data, full) ==
    /\ data \in Seq(Nat) /\ full \in Seq(Nat) /\ Len(data) <= Len(full)
    /\ \A i \in 1 .. Len(data) : data[i] = full[i]

\* What was read of the beginning is read of the whole, and ends at a place of S.
Kept(a, b, S) == a.res = "some" => b = a /\ a.pos \in S

\* f goes round by round, over places of S, and what is read is in G, by round and place.
Turns(f, n, G) ==
    f = [i \in 0 .. n |-> f[i]] /\ \A i \in 1 .. n : f[i] = Round(f[i - 1], G[i][f[i - 1].pos])

LEMMA TurnsExist ==
  ASSUME NEW n \in Nat, NEW x, NEW G
  PROVE \E f : f[0] = x /\ Turns(f, n, G)
<1> DEFINE T == {m \in Nat : ~ \E f : f[0] = x /\ Turns(f, m, G)}
<1> SUFFICES ASSUME T # {} PROVE FALSE
  OBVIOUS
<1>1. PICK m \in T : \A y \in T : m <= y
  BY LeastNat, T \subseteq Nat
<1>2. CASE m = 0
  <2>1. PICK f : f = [i \in 0 .. 0 |-> x]
    OBVIOUS
  <2>2. f[0] = x /\ f = [i \in 0 .. 0 |-> f[i]] /\ \A i \in 1 .. 0 : FALSE
    BY <2>1
  <2> QED BY <1>1, <1>2, <2>2 DEF Turns
<1>3. CASE m # 0
  <2>1. m - 1 \in Nat /\ ~(m <= m - 1) /\ m \in Nat
    BY <1>1, <1>3
  <2>2. PICK f : f[0] = x /\ Turns(f, m - 1, G)
    BY <1>1, <2>1
  <2>3. PICK g : g = [i \in 0 .. m |-> IF i # m THEN f[i] ELSE Round(f[m - 1], G[m][f[m - 1].pos])]
    OBVIOUS
  <2>4. g[0] = x
    BY <1>3, <2>1, <2>2, <2>3
  <2>5. \A i \in 1 .. m : g[i] = Round(g[i - 1], G[i][g[i - 1].pos])
    <3> TAKE i \in 1 .. m
    <3>1. CASE i = m
      <4>1. m \in 0 .. m /\ m - 1 \in 0 .. m /\ m - 1 # m
        BY <2>1
      <4>2. g[m] = Round(f[m - 1], G[m][f[m - 1].pos]) /\ g[m - 1] = f[m - 1]
        BY <2>3, <4>1
      <4> QED BY <3>1, <4>2
    <3>2. CASE i # m
      <4>1. i \in 1 .. m - 1 /\ i \in 0 .. m /\ i - 1 \in 0 .. m /\ i - 1 # m
        BY <2>1, <3>2
      <4>2. g[i] = f[i] /\ g[i - 1] = f[i - 1]
        BY <2>3, <3>2, <4>1
      <4>3. f[i] = Round(f[i - 1], G[i][f[i - 1].pos])
        BY <2>2, <4>1 DEF Turns
      <4> QED BY <4>2, <4>3
    <3> QED BY <3>1, <3>2
  <2>6. g = [i \in 0 .. m |-> g[i]]
    BY <2>3
  <2>7. Turns(g, m, G)
    BY <2>5, <2>6 DEF Turns
  <2> QED BY <1>1, <2>4, <2>7
<1> QED BY <1>2, <1>3

Within(n, S, G) == \A i \in 1 .. n : \A p \in S : G[i][p].res = "some" => G[i][p].pos \in S
WentWell(f, n, S, G) ==
    /\ \A i \in 0 .. n : f[i].res = "some" => f[i].pos \in S
    /\ f[n].res = "some" => \A i \in 1 .. n : /\ f[i - 1].res = "some" /\ f[i - 1].pos \in S
                                              /\ G[i][f[i - 1].pos].res = "some"

\* When the last round has read something, all have, and were at places of S.
LEMMA TurnsRead ==
  ASSUME NEW n \in Nat, NEW S, NEW pos \in S, NEW f, f[0] = Some(<<>>, pos), NEW G, Turns(f, n, G),
         Within(n, S, G)
  PROVE WentWell(f, n, S, G)
<1>1. \A i \in 1 .. n : f[i] = Round(f[i - 1], G[i][f[i - 1].pos])
  BY DEF Turns
<1>2. ASSUME NEW i \in 1 .. n, f[i].res = "some"
      PROVE /\ f[i - 1].res = "some" /\ G[i][f[i - 1].pos].res = "some" /\ f[i].pos = G[i][f[i - 1].pos].pos
  <2>1. f[i - 1].res = "some"
    BY <1>1, <1>2 DEF Round
  <2>2. G[i][f[i - 1].pos].res = "some"
    BY <1>1, <1>2, <2>1 DEF Round
  <2> QED BY <1>1, <2>1, <2>2, SomeIs DEF Round
<1>3. \A i \in 0 .. n : f[i].res = "some" => f[i].pos \in S
  <2> DEFINE T == {i \in 0 .. n : f[i].res = "some" /\ f[i].pos \notin S}
  <2> SUFFICES ASSUME T # {} PROVE FALSE
    OBVIOUS
  <2>1. PICK i \in T : \A y \in T : i <= y
    BY LeastNat, T \subseteq Nat
  <2>2. i # 0
    BY <2>1, SomeIs
  <2>3. i \in 1 .. n /\ i - 1 \in 0 .. n /\ ~(i <= i - 1)
    BY <2>1, <2>2
  <2>4. f[i - 1].res = "some" /\ f[i - 1].pos \in S
    BY <1>2, <2>1, <2>3
  <2> QED BY <1>2, <2>1, <2>3, <2>4 DEF Within
<1>4. ASSUME f[n].res = "some" PROVE \A i \in 0 .. n : f[i].res = "some"
  <2> DEFINE T == {j \in 0 .. n : f[n - j].res # "some"}
  <2>1. T = {}
    <3> SUFFICES ASSUME T # {} PROVE FALSE
      OBVIOUS
    <3>1. PICK j \in T : \A y \in T : j <= y
      BY LeastNat, T \subseteq Nat
    <3>2. j # 0
      BY <1>4, <3>1
    <3>3. j \in 0 .. n /\ j - 1 \in 0 .. n /\ ~(j <= j - 1) /\ n - (j - 1) \in 1 .. n /\ (n - (j - 1)) - 1 = n - j
      BY <3>1, <3>2
    <3>4. f[n - (j - 1)].res = "some"
      BY <3>1, <3>3
    <3>5. f[(n - (j - 1)) - 1].res = "some"
      BY <1>2, <3>3, <3>4
    <3> QED BY <3>1, <3>3, <3>5
  <2>2. ASSUME NEW i \in 0 .. n PROVE f[i].res = "some"
    <3>1. n - i \in 0 .. n /\ n - (n - i) = i
      OBVIOUS
    <3>2. n - i \notin T
      BY <2>1
    <3> QED BY <3>1, <3>2
  <2> QED BY <2>2
<1>5. ASSUME f[n].res = "some", NEW i \in 1 .. n
      PROVE f[i - 1].res = "some" /\ f[i - 1].pos \in S /\ G[i][f[i - 1].pos].res = "some"
  <2>1. i \in 0 .. n /\ i - 1 \in 0 .. n
    OBVIOUS
  <2>2. f[i].res = "some" /\ f[i - 1].res = "some"
    BY <1>4, <1>5, <2>1
  <2> QED BY <1>2, <1>3, <2>1, <2>2
<1> QED BY <1>3, <1>5 DEF WentWell

LEMMA SliceKept ==
  ASSUME NEW data, NEW full, Begins(data, full), NEW pos \in Nat, NEW n \in Nat
  PROVE /\ Kept(Slice(data, pos, n), Slice(full, pos, n), 0 .. Len(data))
        /\ Slice(data, pos, n).res = "some" => /\ Slice(data, pos, n).v \in Seq(Nat) /\ Len(Slice(data, pos, n).v) = n
                                               /\ Slice(data, pos, n).pos = pos + n
<1>1. PICK k \in Nat, m \in Nat : k = Len(data) /\ m = Len(full) /\ k <= m
  BY DEF Begins
<1>2. CASE pos + n <= k
  <2>1. PICK s, t : s = SubSeq(data, pos + 1, pos + n) /\ t = SubSeq(full, pos + 1, pos + n)
    OBVIOUS
  <2>2. /\ s \in Seq(Nat) /\ Len(s) = n /\ \A i \in 1 .. n : s[i] = data[pos + i]
        /\ t \in Seq(Nat) /\ Len(t) = n /\ \A i \in 1 .. n : t[i] = full[pos + i]
    BY <1>1, <1>2, <2>1 DEF Begins
  <2>3. \A i \in 1 .. n : pos + i \in 1 .. k
    BY <1>1, <1>2
  <2>4. \A i \in 1 .. n : s[i] = t[i]
    BY <1>1, <2>2, <2>3 DEF Begins
  <2>5. s = t
    BY ONLY <2>2, <2>4, n \in Nat, SameSeq
  <2>6. Slice(data, pos, n) = Some(s, pos + n) /\ Slice(full, pos, n) = Some(s, pos + n)
    <3>1. pos + n <= Len(data) /\ pos + n <= Len(full)
      BY <1>1, <1>2
    <3> QED BY <2>1, <2>5, <3>1 DEF Slice, Has
  <2>7. pos + n \in 0 .. k
    BY <1>1, <1>2
  <2> QED BY <1>1, <2>2, <2>6, <2>7, SomeIs DEF Kept
<1>3. CASE ~(pos + n <= k)
  <2>1. Slice(data, pos, n).res # "some"
    BY <1>1, <1>3 DEF Slice, Has, None
  <2> QED BY <2>1 DEF Kept
<1> QED BY <1>2, <1>3

\* one number
LEMMA NumberKept ==
  ASSUME NEW data, NEW full, Begins(data, full), NEW pos \in Nat, NEW r, r = Slice(data, pos, 1), r.res = "some"
  PROVE Slice(full, pos, 1) = r /\ r.v[1] \in Nat /\ r.pos = pos + 1 /\ r.pos \in 0 .. Len(data) /\ r.pos \in Nat
<1>1. Kept(r, Slice(full, pos, 1), 0 .. Len(data)) /\ r.v \in Seq(Nat) /\ Len(r.v) = 1 /\ r.pos = pos + 1
  BY SliceKept, 1 \in Nat, Zenon
<1>2. Slice(full, pos, 1) = r /\ r.pos \in 0 .. Len(data)
  BY <1>1 DEF Kept
<1>3. r.v[1] \in Nat
  BY <1>1
<1> QED BY <1>1, <1>2, <1>3

LEMMA TextKept ==
  ASSUME NEW data, NEW full, Begins(data, full), NEW pos \in Nat
  PROVE /\ Kept(Text(data, pos), Text(full, pos), 0 .. Len(data))
        /\ Text(data, pos).res = "some" => Text(data, pos).v \in Seq(Nat)
<1>1. PICK r : r = Slice(data, pos, 1)
  OBVIOUS
<1>2. CASE r.res = "some"
  <2>1. Slice(full, pos, 1) = r /\ r.v[1] \in Nat /\ r.pos \in Nat
    BY <1>1, <1>2, NumberKept
  <2>2. Text(data, pos) = Slice(data, r.pos, r.v[1]) /\ Text(full, pos) = Slice(full, r.pos, r.v[1])
    BY <1>1, <1>2, <2>1 DEF Text, AndThen
  <2>3. PICK n \in Nat, p \in Nat : n = r.v[1] /\ p = r.pos
    BY <2>1
  <2> QED BY <2>2, <2>3, SliceKept
<1>3. CASE r.res # "some"
  <2>1. Text(data, pos).res # "some"
    BY <1>1, <1>3 DEF Text, AndThen
  <2> QED BY <2>1 DEF Kept
<1> QED BY <1>2, <1>3

LEMMA PairKept ==
  ASSUME NEW data, NEW full, Begins(data, full), NEW pos \in Nat
  PROVE Kept(ReadPair(data, pos), ReadPair(full, pos), 0 .. Len(data))
<1> SUFFICES ASSUME ReadPair(data, pos).res = "some"
    PROVE ReadPair(full, pos) = ReadPair(data, pos) /\ ReadPair(data, pos).pos \in 0 .. Len(data)
  BY DEF Kept
<1>1. PICK k : k = Text(data, pos)
  OBVIOUS
<1>2. k.res = "some"
  BY <1>1 DEF ReadPair, AndThen
<1>3. Text(full, pos) = k /\ k.pos \in 0 .. Len(data)
  BY <1>1, <1>2, TextKept DEF Kept
<1>4. PICK p \in Nat : p = k.pos
  BY <1>3
<1>5. PICK v : v = Text(data, p)
  OBVIOUS
<1>6. v.res = "some"
  BY <1>1, <1>2, <1>4, <1>5 DEF ReadPair, AndThen
<1>7. Text(full, p) = v /\ v.pos \in 0 .. Len(data)
  BY <1>5, <1>6, TextKept DEF Kept
<1>8. ReadPair(data, pos) = Some(<<k.v, v.v>>, v.pos)
  BY <1>1, <1>2, <1>4, <1>5, <1>6 DEF ReadPair, AndThen
<1>9. ReadPair(full, pos) = Some(<<k.v, v.v>>, v.pos)
  BY <1>2, <1>3, <1>4, <1>6, <1>7 DEF ReadPair, AndThen
<1> QED BY <1>7, <1>8, <1>9, SomeIs

LEMMA SkipKept ==
  ASSUME NEW data, NEW full, Begins(data, full), NEW pos \in Nat
  PROVE Kept(SkipText(data, pos), SkipText(full, pos), Nat) /\ Kept(SkipPair(data, pos), SkipPair(full, pos), Nat)
<1>1. ASSUME NEW p \in Nat PROVE Kept(SkipText(data, p), SkipText(full, p), Nat)
  <2>1. PICK r : r = Slice(data, p, 1)
    OBVIOUS
  <2>2. CASE r.res = "some"
    <3>1. Slice(full, p, 1) = r /\ r.v[1] \in Nat /\ r.pos \in Nat
      BY <2>1, <2>2, NumberKept
    <3>2. SkipText(data, p) = Some(<<>>, r.pos + r.v[1]) /\ SkipText(full, p) = Some(<<>>, r.pos + r.v[1])
      BY <2>1, <2>2, <3>1 DEF SkipText, AndThen
    <3>3. r.pos + r.v[1] \in Nat
      BY <3>1
    <3> QED BY <3>2, <3>3, SomeIs DEF Kept
  <2>3. CASE r.res # "some"
    BY <2>1, <2>3 DEF SkipText, AndThen, Kept
  <2> QED BY <2>2, <2>3
<1>2. PICK k : k = SkipText(data, pos)
  OBVIOUS
<1>3. CASE k.res = "some"
  <2>1. SkipText(full, pos) = k /\ k.pos \in Nat
    BY <1>1, <1>2, <1>3 DEF Kept
  <2>2. SkipPair(data, pos) = SkipText(data, k.pos) /\ SkipPair(full, pos) = SkipText(full, k.pos)
    BY <1>2, <1>3, <2>1 DEF SkipPair, AndThen
  <2> QED BY <1>1, <2>1, <2>2
<1>4. CASE k.res # "some"
  <2>1. Kept(SkipPair(data, pos), SkipPair(full, pos), Nat)
    BY <1>2, <1>4 DEF SkipPair, AndThen, Kept
  <2> QED BY <1>1, <2>1
<1> QED BY <1>3, <1>4

LEMMA PooledKept ==
  ASSUME NEW data, NEW full, Begins(data, full), NEW pos \in Nat
  PROVE Kept(pool_entry(data, pos), pool_entry(full, pos), 0 .. Len(data))
<1> SUFFICES ASSUME pool_entry(data, pos).res = "some"
    PROVE pool_entry(full, pos) = pool_entry(data, pos) /\ pool_entry(data, pos).pos \in 0 .. Len(data)
  BY DEF Kept
<1>1. PICK i : i = Slice(data, pos, 1)
  OBVIOUS
<1>2. i.res = "some"
  BY <1>1 DEF pool_entry, AndThen
<1>3. Slice(full, pos, 1) = i /\ i.pos \in Nat
  BY <1>1, <1>2, NumberKept
<1>4. PICK p \in Nat : p = i.pos
  BY <1>3
<1>5. PICK t : t = Text(data, p)
  OBVIOUS
<1>6. t.res = "some"
  BY <1>1, <1>2, <1>4, <1>5 DEF pool_entry, AndThen
<1>7. Text(full, p) = t /\ t.pos \in 0 .. Len(data)
  BY <1>5, <1>6, TextKept DEF Kept
<1>8. pool_entry(data, pos) = Some([id |-> i.v[1], text |-> t.v], t.pos)
  BY <1>1, <1>2, <1>4, <1>5, <1>6 DEF pool_entry, AndThen
<1>9. pool_entry(full, pos) = Some([id |-> i.v[1], text |-> t.v], t.pos)
  BY <1>2, <1>3, <1>4, <1>6, <1>7 DEF pool_entry, AndThen
<1> QED BY <1>7, <1>8, <1>9, SomeIs

LEMMA PairsKept ==
  ASSUME NEW data, NEW full, Begins(data, full), NEW n \in Nat, NEW pos \in 0 .. Len(data)
  PROVE Kept(ReadPairs(data, n, pos), ReadPairs(full, n, pos), 0 .. Len(data))
<1>1. PICK S : S = 0 .. Len(data) /\ \A p \in S : p \in Nat
  BY DEF Begins
<1>2. PICK G : G = [i \in 1 .. n |-> [p \in S |-> ReadPair(data, p)]]
  OBVIOUS
<1>3. \A i \in 1 .. n : \A p \in S :
          Kept(ReadPair(data, p), ReadPair(full, p), S) /\ G[i][p] = ReadPair(data, p)
  BY <1>1, <1>2, PairKept
<1>4. PICK f : f[0] = Some(<<>>, pos) /\ Turns(f, n, G)
  BY TurnsExist
<1>5. WentWell(f, n, S, G)
  <2>1. Within(n, S, G)
    BY <1>3 DEF Kept, Within
  <2>2. pos \in S
    BY <1>1
  <2>3. f[0] = Some(<<>>, pos) /\ Turns(f, n, G)
    BY <1>4
  <2> QED BY ONLY n \in Nat, <2>1, <2>2, <2>3, TurnsRead
<1>6. f = [i \in 0 .. n |-> f[i]] /\ \A i \in 1 .. n : f[i] = Round(f[i - 1], G[i][f[i - 1].pos])
  BY <1>4 DEF Turns
<1>7. ASSUME NEW i \in 1 .. n PROVE f[i] = Round(f[i - 1], ReadPair(data, f[i - 1].pos))
  <2>1. i - 1 \in 0 .. n
    OBVIOUS
  <2>2. CASE f[i - 1].res = "some"
    BY <1>3, <1>5, <1>6, <2>1, <2>2 DEF WentWell
  <2>3. CASE f[i - 1].res # "some"
    BY <1>6, <2>3 DEF Round
  <2> QED BY <2>2, <2>3
<1>8. ReadsPairs(data, n, pos, f)
  <2>1. \A i \in 0 .. n : f[i] = IF i = 0 THEN Some(<<>>, pos) ELSE Round(f[i - 1], ReadPair(data, f[i - 1].pos))
    BY <1>4, <1>7
  <2> QED BY <1>6, <2>1 DEF ReadsPairs
<1>9. ReadPairs(data, n, pos) = f[n]
  <2>1. PICK g : g = CHOOSE c : ReadsPairs(data, n, pos, c)
    OBVIOUS
  <2>2. ReadsPairs(data, n, pos, g)
    BY <1>8, <2>1
  <2>3. ReadPairs(data, n, pos) = g[n]
    BY <2>1 DEF ReadPairs
  <2> QED BY <1>8, <2>2, <2>3, ReadsPairsAgree
<1> SUFFICES ASSUME f[n].res = "some" PROVE ReadPairs(full, n, pos) = f[n] /\ f[n].pos \in S
  BY <1>1, <1>9 DEF Kept
<1>10. ASSUME NEW i \in 1 .. n PROVE f[i] = Round(f[i - 1], ReadPair(full, f[i - 1].pos))
  <2>1. f[i - 1].pos \in S /\ G[i][f[i - 1].pos].res = "some"
    BY <1>5 DEF WentWell
  <2>2. ReadPair(full, f[i - 1].pos) = ReadPair(data, f[i - 1].pos)
    BY <1>3, <2>1 DEF Kept
  <2> QED BY <1>7, <2>2
<1>11. ReadsPairs(full, n, pos, f)
  <2>1. \A i \in 0 .. n : f[i] = IF i = 0 THEN Some(<<>>, pos) ELSE Round(f[i - 1], ReadPair(full, f[i - 1].pos))
    BY <1>4, <1>10
  <2> QED BY <1>6, <2>1 DEF ReadsPairs
<1>12. ReadPairs(full, n, pos) = f[n]
  <2>1. PICK g : g = CHOOSE c : ReadsPairs(full, n, pos, c)
    OBVIOUS
  <2>2. ReadsPairs(full, n, pos, g)
    BY <1>11, <2>1
  <2>3. ReadPairs(full, n, pos) = g[n]
    BY <2>1 DEF ReadPairs
  <2> QED BY <1>11, <2>2, <2>3, ReadsPairsAgree
<1> QED BY <1>5, <1>12 DEF WentWell

LEMMA SkipsKept ==
  ASSUME NEW data, NEW full, Begins(data, full), NEW n \in Nat, NEW pos \in Nat
  PROVE Kept(SkipPairs(data, n, pos), SkipPairs(full, n, pos), Nat)
<1>1. PICK S : S = Nat /\ \A p \in S : p \in Nat
  BY DEF Begins
<1>2. PICK G : G = [i \in 1 .. n |-> [p \in S |-> SkipPair(data, p)]]
  OBVIOUS
<1>3. \A i \in 1 .. n : \A p \in S :
          Kept(SkipPair(data, p), SkipPair(full, p), S) /\ G[i][p] = SkipPair(data, p)
  BY <1>1, <1>2, SkipKept
<1>4. PICK f : f[0] = Some(<<>>, pos) /\ Turns(f, n, G)
  BY TurnsExist
<1>5. WentWell(f, n, S, G)
  <2>1. Within(n, S, G)
    BY <1>3 DEF Kept, Within
  <2>2. pos \in S
    BY <1>1
  <2>3. f[0] = Some(<<>>, pos) /\ Turns(f, n, G)
    BY <1>4
  <2> QED BY ONLY n \in Nat, <2>1, <2>2, <2>3, TurnsRead
<1>6. f = [i \in 0 .. n |-> f[i]] /\ \A i \in 1 .. n : f[i] = Round(f[i - 1], G[i][f[i - 1].pos])
  BY <1>4 DEF Turns
<1>7. ASSUME NEW i \in 1 .. n PROVE f[i] = Round(f[i - 1], SkipPair(data, f[i - 1].pos))
  <2>1. i - 1 \in 0 .. n
    OBVIOUS
  <2>2. CASE f[i - 1].res = "some"
    BY <1>3, <1>5, <1>6, <2>1, <2>2 DEF WentWell
  <2>3. CASE f[i - 1].res # "some"
    BY <1>6, <2>3 DEF Round
  <2> QED BY <2>2, <2>3
<1>8. SkipsPairs(data, n, pos, f)
  <2>1. \A i \in 0 .. n : f[i] = IF i = 0 THEN Some(<<>>, pos) ELSE Round(f[i - 1], SkipPair(data, f[i - 1].pos))
    BY <1>4, <1>7
  <2> QED BY <1>6, <2>1 DEF SkipsPairs
<1>9. SkipPairs(data, n, pos) = f[n]
  <2>1. PICK g : g = CHOOSE c : SkipsPairs(data, n, pos, c)
    OBVIOUS
  <2>2. SkipsPairs(data, n, pos, g)
    BY <1>8, <2>1
  <2>3. SkipPairs(data, n, pos) = g[n]
    BY <2>1 DEF SkipPairs
  <2> QED BY <1>8, <2>2, <2>3, SkipsPairsAgree
<1> SUFFICES ASSUME f[n].res = "some" PROVE SkipPairs(full, n, pos) = f[n] /\ f[n].pos \in S
  BY <1>1, <1>9 DEF Kept
<1>10. ASSUME NEW i \in 1 .. n PROVE f[i] = Round(f[i - 1], SkipPair(full, f[i - 1].pos))
  <2>1. f[i - 1].pos \in S /\ G[i][f[i - 1].pos].res = "some"
    BY <1>5 DEF WentWell
  <2>2. SkipPair(full, f[i - 1].pos) = SkipPair(data, f[i - 1].pos)
    BY <1>3, <2>1 DEF Kept
  <2> QED BY <1>7, <2>2
<1>11. SkipsPairs(full, n, pos, f)
  <2>1. \A i \in 0 .. n : f[i] = IF i = 0 THEN Some(<<>>, pos) ELSE Round(f[i - 1], SkipPair(full, f[i - 1].pos))
    BY <1>4, <1>10
  <2> QED BY <1>6, <2>1 DEF SkipsPairs
<1>12. SkipPairs(full, n, pos) = f[n]
  <2>1. PICK g : g = CHOOSE c : SkipsPairs(full, n, pos, c)
    OBVIOUS
  <2>2. SkipsPairs(full, n, pos, g)
    BY <1>11, <2>1
  <2>3. SkipPairs(full, n, pos) = g[n]
    BY <2>1 DEF SkipPairs
  <2> QED BY <1>11, <2>2, <2>3, SkipsPairsAgree
<1> QED BY <1>5, <1>12 DEF WentWell

LEMMA ReadsPooledAgree ==
  ASSUME NEW data, NEW n \in Nat, NEW pos, NEW f, NEW g, ReadsPooled(data, n, pos, f), ReadsPooled(data, n, pos, g)
  PROVE f[n] = g[n]
<1>1. f[0] = g[0]
  BY DEF ReadsPooled
<1>2. \A i \in 1 .. n : f[i - 1] = g[i - 1] => f[i] = g[i]
  BY DEF ReadsPooled
<1>3. \A i \in 0 .. n : f[i] = g[i]
  BY ONLY <1>1, <1>2, n \in Nat, SameSteps
<1> QED BY <1>3

LEMMA PoolKept ==
  ASSUME NEW data, NEW full, Begins(data, full), NEW n \in Nat, NEW pos \in 0 .. Len(data)
  PROVE Kept(ReadPool(data, n, pos), ReadPool(full, n, pos), 0 .. Len(data))
<1>1. PICK S : S = 0 .. Len(data) /\ \A p \in S : p \in Nat
  BY DEF Begins
<1>2. PICK G : G = [i \in 1 .. n |-> [p \in S |-> pool_entry(data, p)]]
  OBVIOUS
<1>3. \A i \in 1 .. n : \A p \in S :
          Kept(pool_entry(data, p), pool_entry(full, p), S) /\ G[i][p] = pool_entry(data, p)
  BY <1>1, <1>2, PooledKept
<1>4. PICK f : f[0] = Some(<<>>, pos) /\ Turns(f, n, G)
  BY TurnsExist
<1>5. WentWell(f, n, S, G)
  <2>1. Within(n, S, G)
    BY <1>3 DEF Kept, Within
  <2>2. pos \in S
    BY <1>1
  <2>3. f[0] = Some(<<>>, pos) /\ Turns(f, n, G)
    BY <1>4
  <2> QED BY ONLY n \in Nat, <2>1, <2>2, <2>3, TurnsRead
<1>6. f = [i \in 0 .. n |-> f[i]] /\ \A i \in 1 .. n : f[i] = Round(f[i - 1], G[i][f[i - 1].pos])
  BY <1>4 DEF Turns
<1>7. ASSUME NEW i \in 1 .. n PROVE f[i] = Round(f[i - 1], pool_entry(data, f[i - 1].pos))
  <2>1. i - 1 \in 0 .. n
    OBVIOUS
  <2>2. CASE f[i - 1].res = "some"
    BY <1>3, <1>5, <1>6, <2>1, <2>2 DEF WentWell
  <2>3. CASE f[i - 1].res # "some"
    BY <1>6, <2>3 DEF Round
  <2> QED BY <2>2, <2>3
<1>8. ReadsPooled(data, n, pos, f)
  <2>1. \A i \in 0 .. n : f[i] = IF i = 0 THEN Some(<<>>, pos) ELSE Round(f[i - 1], pool_entry(data, f[i - 1].pos))
    BY <1>4, <1>7
  <2> QED BY <1>6, <2>1 DEF ReadsPooled
<1>9. ReadPool(data, n, pos) = f[n]
  <2>1. PICK g : g = CHOOSE c : ReadsPooled(data, n, pos, c)
    OBVIOUS
  <2>2. ReadsPooled(data, n, pos, g)
    BY <1>8, <2>1
  <2>3. ReadPool(data, n, pos) = g[n]
    BY <2>1 DEF ReadPool
  <2> QED BY <1>8, <2>2, <2>3, ReadsPooledAgree
<1> SUFFICES ASSUME f[n].res = "some" PROVE ReadPool(full, n, pos) = f[n] /\ f[n].pos \in S
  BY <1>1, <1>9 DEF Kept
<1>10. ASSUME NEW i \in 1 .. n PROVE f[i] = Round(f[i - 1], pool_entry(full, f[i - 1].pos))
  <2>1. f[i - 1].pos \in S /\ G[i][f[i - 1].pos].res = "some"
    BY <1>5 DEF WentWell
  <2>2. pool_entry(full, f[i - 1].pos) = pool_entry(data, f[i - 1].pos)
    BY <1>3, <2>1 DEF Kept
  <2> QED BY <1>7, <2>2
<1>11. ReadsPooled(full, n, pos, f)
  <2>1. \A i \in 0 .. n : f[i] = IF i = 0 THEN Some(<<>>, pos) ELSE Round(f[i - 1], pool_entry(full, f[i - 1].pos))
    BY <1>4, <1>10
  <2> QED BY <1>6, <2>1 DEF ReadsPooled
<1>12. ReadPool(full, n, pos) = f[n]
  <2>1. PICK g : g = CHOOSE c : ReadsPooled(full, n, pos, c)
    OBVIOUS
  <2>2. ReadsPooled(full, n, pos, g)
    BY <1>11, <2>1
  <2>3. ReadPool(full, n, pos) = g[n]
    BY <2>1 DEF ReadPool
  <2> QED BY <1>11, <2>2, <2>3, ReadsPooledAgree
<1> QED BY <1>5, <1>12 DEF WentWell

\* The sums of the digits of any number of bytes
LEMMA SumsExist ==
  ASSUME NEW n \in Nat, NEW data, NEW pos
  PROVE \E f : Sums(data, pos, n, f)
<1> DEFINE T == {m \in Nat : ~ \E f : Sums(data, pos, m, f)}
<1> SUFFICES ASSUME T # {} PROVE FALSE
  OBVIOUS
<1>1. PICK m \in T : \A y \in T : m <= y
  BY LeastNat, T \subseteq Nat
<1>2. CASE m = 0
  <2>1. PICK f : f = [i \in 0 .. 0 |-> 0]
    OBVIOUS
  <2>2. \A i \in 0 .. 0 : i = 0 /\ f[i] = 0
    BY <2>1
  <2>3. Sums(data, pos, 0, f)
    BY <2>1, <2>2 DEF Sums
  <2> QED BY <1>1, <1>2, <2>3
<1>3. CASE m # 0
  <2>1. m - 1 \in Nat /\ ~(m <= m - 1) /\ m \in Nat
    BY <1>1, <1>3
  <2>2. PICK f : Sums(data, pos, m - 1, f)
    BY <1>1, <2>1
  <2>3. PICK g : g = [i \in 0 .. m |-> IF i # m THEN f[i]
                                       ELSE (f[m - 1] + (data[pos + m] % Radix) * Power[m - 1]) % Width]
    OBVIOUS
  <2>4. \A i \in 0 .. m : g[i] = IF i = 0 THEN 0 ELSE (g[i - 1] + (data[pos + i] % Radix) * Power[i - 1]) % Width
    <3> TAKE i \in 0 .. m
    <3>1. CASE i = m
      <4>1. m \in 0 .. m /\ m - 1 \in 0 .. m /\ m - 1 # m
        BY <2>1
      <4>2. g[m] = (f[m - 1] + (data[pos + m] % Radix) * Power[m - 1]) % Width /\ g[m - 1] = f[m - 1]
        BY <2>3, <4>1
      <4> QED BY <1>3, <3>1, <4>2
    <3>2. CASE i # m /\ i # 0
      <4>1. i \in 0 .. m - 1 /\ i \in 0 .. m /\ i - 1 \in 0 .. m /\ i - 1 # m
        BY <2>1, <3>2
      <4>2. g[i] = f[i] /\ g[i - 1] = f[i - 1]
        BY <2>3, <3>2, <4>1
      <4>3. f[i] = (f[i - 1] + (data[pos + i] % Radix) * Power[i - 1]) % Width
        BY <2>2, <3>2, <4>1 DEF Sums
      <4> QED BY <3>2, <4>2, <4>3
    <3>3. CASE i = 0
      <4>1. 0 \in 0 .. m - 1 /\ 0 \in 0 .. m
        BY <2>1
      <4>2. g[0] = f[0] /\ f[0] = 0
        BY <1>3, <2>2, <2>3, <4>1 DEF Sums
      <4> QED BY <3>3, <4>2
    <3> QED BY <3>1, <3>2, <3>3
  <2>5. Sums(data, pos, m, g)
    BY <2>3, <2>4 DEF Sums
  <2> QED BY <1>1, <2>1, <2>5
<1> QED BY <1>2, <1>3

\* the places of the bytes that may end a varint, and what the bytes up to one say
EndsOf(data, pos) == {k \in 1 .. VarintLen : Has(data, pos, k) /\ data[pos + k] < Radix}
SumOf(data, pos, n) == (CHOOSE f : Sums(data, pos, n, f))[n]

LEMMA VarintReader ==
  ASSUME NEW data, NEW pos, NEW n \in EndsOf(data, pos), \A j \in EndsOf(data, pos) : n <= j
  PROVE decode_unsigned(data, pos) = Some(<<SumOf(data, pos, n)>>, pos + n)
<1> DEFINE ends == {k \in 1 .. VarintLen : Has(data, pos, k) /\ data[pos + k] < Radix}
           m == CHOOSE k \in ends : \A j \in ends : k <= j
           after[i \in 0 .. n] ==
               IF i = 0 THEN 0 ELSE (after[i - 1] + (data[pos + i] % Radix) * Power[i - 1]) % Width
<1>1. VarintLen \in Nat /\ n \in ends /\ \A j \in ends : n <= j
  BY CodecAssumption DEF EndsOf
<1>5. m = n
  <2>1. m \in ends /\ \A j \in ends : m <= j
    BY <1>1
  <2> HIDE DEF m
  <2>2. m <= n /\ n <= m /\ m \in Nat /\ n \in Nat
    BY <1>1, <2>1
  <2> QED BY <2>2
<1>6. decode_unsigned(data, pos) = Some(<<after[n]>>, pos + n)
  <2>1. ends # {}
    BY <1>1
  <2>2. decode_unsigned(data, pos) =
          IF ends = {} THEN None
          ELSE Some(<<Loop(LAMBDA sum, i : (sum + (data[pos + i] % Radix) * Power[i - 1]) % Width, 0, m)>>, pos + m)
    BY DEF decode_unsigned
  <2>3. Loop(LAMBDA sum, i : (sum + (data[pos + i] % Radix) * Power[i - 1]) % Width, 0, n) = after[n]
    BY DEF Loop
  <2> QED BY <1>5, <2>1, <2>2, <2>3
<1>7. after = CHOOSE f : Sums(data, pos, n, f)
  BY DEF Sums
<1> HIDE DEF after
<1> QED BY <1>6, <1>7 DEF SumOf

LEMMA VarintKept ==
  ASSUME NEW data, NEW full, Begins(data, full), NEW pos \in Nat
  PROVE Kept(decode_unsigned(data, pos), decode_unsigned(full, pos), 0 .. Len(data))
<1>1. PICK k \in Nat, l \in Nat : k = Len(data) /\ l = Len(full) /\ k <= l
  BY DEF Begins
<1>2. CASE EndsOf(data, pos) = {}
  <2>1. decode_unsigned(data, pos) = None
    BY <1>2 DEF decode_unsigned, EndsOf
  <2> QED BY <2>1 DEF Kept, None
<1>3. CASE EndsOf(data, pos) # {}
  <2>1. PICK E : E = EndsOf(data, pos)
    OBVIOUS
  <2>2. VarintLen \in Nat /\ E \subseteq Nat
    BY <2>1, CodecAssumption DEF EndsOf
  <2>3. PICK n \in E : \A j \in E : n <= j
    BY <1>3, <2>1, <2>2, LeastNat
  <2>4. n \in 1 .. VarintLen /\ pos + n <= k /\ n \in Nat
    BY <1>1, <2>1, <2>2, <2>3 DEF EndsOf, Has
  <2>5. \A i \in 1 .. n : data[pos + i] = full[pos + i]
    <3> TAKE i \in 1 .. n
    <3>1. pos + i \in 1 .. k
      BY <1>1, <2>4
    <3> QED BY <1>1, <3>1 DEF Begins
  <2>6. n \in EndsOf(full, pos)
    <3>1. Has(data, pos, n) /\ data[pos + n] < Radix /\ n \in 1 .. n
      BY <2>1, <2>3, <2>4 DEF EndsOf
    <3>2. Has(full, pos, n) /\ full[pos + n] < Radix
      BY <1>1, <2>4, <2>5, <3>1 DEF Has
    <3> QED BY <2>4, <3>2 DEF EndsOf
  <2>7. ASSUME NEW j \in EndsOf(full, pos) PROVE n <= j
    <3> SUFFICES ASSUME ~(n <= j) PROVE FALSE
      OBVIOUS
    <3>1. j \in 1 .. VarintLen /\ full[pos + j] < Radix
      BY <2>7 DEF EndsOf
    <3>2. j \in 1 .. n /\ pos + j <= k
      BY <2>2, <2>4, <3>1
    <3>3. j \in EndsOf(data, pos)
      BY <1>1, <2>5, <3>1, <3>2 DEF EndsOf, Has
    <3> QED BY <2>1, <2>3, <3>3
  <2>8. decode_unsigned(data, pos) = Some(<<SumOf(data, pos, n)>>, pos + n)
    <3>1. n \in EndsOf(data, pos) /\ \A j \in EndsOf(data, pos) : n <= j
      BY <2>1, <2>3
    <3> QED BY <3>1, VarintReader
  <2>9. decode_unsigned(full, pos) = Some(<<SumOf(full, pos, n)>>, pos + n)
    BY <2>6, <2>7, VarintReader
  <2>10. SumOf(data, pos, n) = SumOf(full, pos, n)
    <3>1. PICK f : Sums(data, pos, n, f)
      BY <2>4, SumsExist
    <3>2. Sums(full, pos, n, f)
      <4>1. \A i \in 1 .. n : data[pos + i] = full[pos + i]
        BY <2>5
      <4>2. \A i \in 0 .. n : f[i] = IF i = 0 THEN 0 ELSE (f[i - 1] + (full[pos + i] % Radix) * Power[i - 1]) % Width
        <5> TAKE i \in 0 .. n
        <5>1. f[i] = IF i = 0 THEN 0 ELSE (f[i - 1] + (data[pos + i] % Radix) * Power[i - 1]) % Width
          BY <3>1 DEF Sums
        <5>2. i # 0 => i \in 1 .. n
          BY <2>4
        <5> QED BY <4>1, <5>1, <5>2
      <4>3. f = [i \in 0 .. n |-> f[i]]
        BY <3>1 DEF Sums
      <4> QED BY <4>2, <4>3 DEF Sums
    <3>3. PICK g, h : g = (CHOOSE c : Sums(data, pos, n, c)) /\ h = (CHOOSE c : Sums(full, pos, n, c))
      OBVIOUS
    <3>4. Sums(data, pos, n, g) /\ Sums(full, pos, n, h)
      BY <3>1, <3>2, <3>3
    <3>5. g[n] = f[n] /\ h[n] = f[n]
      BY <2>4, <3>1, <3>2, <3>4, SumsAgree
    <3> QED BY <3>3, <3>5 DEF SumOf
  <2>11. pos + n \in 0 .. k
    BY <1>1, <2>4
  <2> QED BY <1>1, <2>8, <2>9, <2>10, <2>11, SomeIs DEF Kept
<1> QED BY <1>2, <1>3

LEMMA MapKept ==
  ASSUME NEW data, NEW full, Begins(data, full), NEW pos \in Nat
  PROVE /\ Kept(decode_map(data, pos), decode_map(full, pos), 0 .. Len(data))
        /\ Kept(map_end(data, pos), map_end(full, pos), Nat)
        /\ Kept(decode_map_ref(data, pos), decode_map_ref(full, pos), 0 .. Len(data))
<1>1. PICK r : r = Slice(data, pos, 1)
  OBVIOUS
<1>2. CASE r.res = "some"
  <2>1. Slice(full, pos, 1) = r /\ r.v[1] \in Nat /\ r.pos \in 0 .. Len(data) /\ r.pos \in Nat
    BY <1>1, <1>2, NumberKept
  <2>2. PICK n \in Nat, p \in 0 .. Len(data) : n = r.v[1] /\ p = r.pos /\ p \in Nat
    BY <2>1
  <2>3. decode_map(data, pos) = ReadPairs(data, n, p) /\ decode_map(full, pos) = ReadPairs(full, n, p)
    BY <1>1, <1>2, <2>1, <2>2, MapReader
  <2>4. map_end(data, pos) = SkipPairs(data, n, p) /\ map_end(full, pos) = SkipPairs(full, n, p)
    BY <1>1, <1>2, <2>1, <2>2, MapEnd
  <2>5. Kept(decode_map(data, pos), decode_map(full, pos), 0 .. Len(data))
    BY <2>3, PairsKept
  <2>6. Kept(map_end(data, pos), map_end(full, pos), Nat)
    BY <2>2, <2>4, SkipsKept
  <2>7. ASSUME decode_map_ref(data, pos).res = "some"
        PROVE decode_map_ref(data, pos) = decode_map(data, pos) /\ decode_map_ref(full, pos) = decode_map(full, pos)
    <3>1. PICK e : e = map_end(data, pos)
      OBVIOUS
    <3>2. e.res = "some" /\ ~(e.pos > Len(data))
      BY <2>7, <3>1 DEF decode_map_ref, AndThen, Panic
    <3>3. map_end(full, pos) = e /\ e.pos \in Nat
      BY <2>6, <3>1, <3>2 DEF Kept
    <3>4. ~(e.pos > Len(full))
      <4>1. Len(data) \in Nat /\ Len(full) \in Nat /\ Len(data) <= Len(full)
        BY DEF Begins
      <4> QED BY <3>2, <3>3, <4>1
    <3> QED BY <3>1, <3>2, <3>3, <3>4 DEF decode_map_ref, AndThen
  <2>8. Kept(decode_map_ref(data, pos), decode_map_ref(full, pos), 0 .. Len(data))
    BY <2>5, <2>7 DEF Kept
  <2> QED BY <2>5, <2>6, <2>8
<1>3. CASE r.res # "some"
  <2>1. decode_map(data, pos).res # "some" /\ map_end(data, pos) = r
    BY <1>1, <1>3 DEF decode_map, map_end, AndThen
  <2>2. decode_map_ref(data, pos).res # "some"
    BY <1>3, <2>1 DEF decode_map_ref, AndThen
  <2> QED BY <1>3, <2>1, <2>2 DEF Kept
<1> QED BY <1>2, <1>3

LEMMA PlainKept ==
  ASSUME NEW data, NEW full, Begins(data, full), NEW pos \in Nat, NEW type, type # String, type # StringMap
  PROVE Kept(decode_plain(type, data, pos), decode_plain(type, full, pos), 0 .. Len(data))
<1>1. CASE type = Varint
  <2>1. type \notin {Bool, String, Bytes, StackFrames, StringMap}
    BY <1>1 DEF Bool, Varint, String, Bytes, StackFrames, StringMap
  <2>2. /\ decode_plain(type, data, pos) = decode_unsigned(data, pos)
        /\ decode_plain(type, full, pos) = decode_unsigned(full, pos)
    BY <1>1, <2>1, Zenon DEF decode_plain
  <2> QED BY <2>2, VarintKept
<1>2. CASE type \in {Bytes, StackFrames}
  <2>1. type \notin {Varint, Bool, String, StringMap}
    BY <1>2 DEF Bool, Varint, String, Bytes, StackFrames, StringMap
  <2>2. decode_plain(type, data, pos) = Text(data, pos) /\ decode_plain(type, full, pos) = Text(full, pos)
    BY <1>2, <2>1, Zenon DEF decode_plain
  <2> QED BY <2>2, TextKept
<1>3. CASE type = Bool
  <2>1. Bool \notin {Varint, String, Bytes, StackFrames, StringMap}
    BY DEF Bool, Varint, String, Bytes, StackFrames, StringMap
  <2>2. /\ decode_plain(type, data, pos)
            = AndThen(Slice(data, pos, 1), LAMBDA r : Some(<<IF r.v[1] = 0 THEN 0 ELSE 1>>, r.pos))
        /\ decode_plain(type, full, pos)
            = AndThen(Slice(full, pos, 1), LAMBDA r : Some(<<IF r.v[1] = 0 THEN 0 ELSE 1>>, r.pos))
    BY <1>3, <2>1, Zenon DEF decode_plain
  <2>3. PICK r : r = Slice(data, pos, 1)
    OBVIOUS
  <2>4. CASE r.res = "some"
    <3>1. Slice(full, pos, 1) = r /\ r.pos \in 0 .. Len(data)
      BY <2>3, <2>4, NumberKept
    <3>2. decode_plain(type, data, pos) = Some(<<IF r.v[1] = 0 THEN 0 ELSE 1>>, r.pos)
      BY <2>2, <2>3, <2>4 DEF AndThen
    <3>3. decode_plain(type, full, pos) = Some(<<IF r.v[1] = 0 THEN 0 ELSE 1>>, r.pos)
      BY <2>2, <2>4, <3>1 DEF AndThen
    <3> QED BY <3>1, <3>2, <3>3, SomeIs DEF Kept
  <2>5. CASE r.res # "some"
    BY <2>2, <2>3, <2>5 DEF AndThen, Kept
  <2> QED BY <2>4, <2>5
<1>4. CASE type \notin {Varint, Bool, Bytes, StackFrames}
  <2>1. decode_plain(type, data, pos) = Slice(data, pos, 1) /\ decode_plain(type, full, pos) = Slice(full, pos, 1)
    BY <1>4, Zenon DEF decode_plain
  <2> QED BY <2>1, SliceKept, 1 \in Nat
<1> QED BY <1>1, <1>2, <1>3, <1>4

LEMMA ValueKept ==
  ASSUME NEW data, NEW full, Begins(data, full), NEW pos \in Nat, NEW how, NEW type
  PROVE Kept(ReadValue(how, type, data, pos), ReadValue(how, type, full, pos), 0 .. Len(data))
<1> SUFFICES /\ Kept(decode_owned(type, data, pos), decode_owned(type, full, pos), 0 .. Len(data))
             /\ Kept(decode_ref(type, data, pos), decode_ref(type, full, pos), 0 .. Len(data))
  BY Zenon DEF ReadValue
<1>1. CASE type = String
  <2>0. String # StringMap
    BY DEF String, StringMap
  <2>1. \A s \in {data, full} :
            /\ decode_owned(String, s, pos) = AndThen(Text(s, pos), LAMBDA r : Some(Lossy(r.v), r.pos))
            /\ decode_ref(String, s, pos) = AndThen(Text(s, pos), LAMBDA r : IF Utf8(r.v) THEN r ELSE None)
    BY <2>0, Zenon DEF decode_owned, decode_ref
  <2>2. PICK r : r = Text(data, pos)
    OBVIOUS
  <2>3. CASE r.res = "some"
    <3>1. Text(full, pos) = r /\ r.pos \in 0 .. Len(data)
      BY <2>2, <2>3, TextKept DEF Kept
    <3>2. \A s \in {data, full} : /\ decode_owned(String, s, pos) = Some(Lossy(r.v), r.pos)
                                  /\ decode_ref(String, s, pos) = IF Utf8(r.v) THEN r ELSE None
      BY <2>1, <2>2, <2>3, <3>1 DEF AndThen
    <3> QED BY <1>1, <3>1, <3>2, SomeIs DEF Kept, None
  <2>4. CASE r.res # "some"
    <3>1. decode_owned(String, data, pos) = r /\ decode_ref(String, data, pos) = r
      BY <2>1, <2>2, <2>4 DEF AndThen
    <3> QED BY <1>1, <2>4, <3>1 DEF Kept
  <2> QED BY <2>3, <2>4
<1>2. CASE type = StringMap
  <2>1. StringMap # String
    BY DEF StringMap, String
  <2>2. \A s \in {data, full} : /\ decode_owned(StringMap, s, pos) = decode_map(s, pos)
                                /\ decode_ref(StringMap, s, pos) = decode_map_ref(s, pos)
    BY <2>1, Zenon DEF decode_owned, decode_ref
  <2>3. /\ Kept(decode_map(data, pos), decode_map(full, pos), 0 .. Len(data))
        /\ Kept(decode_map_ref(data, pos), decode_map_ref(full, pos), 0 .. Len(data))
    BY MapKept
  <2> QED BY <1>2, <2>2, <2>3
<1>3. CASE type \notin {String, StringMap}
  <2>1. \A s \in {data, full} : /\ decode_owned(type, s, pos) = decode_plain(type, s, pos)
                                /\ decode_ref(type, s, pos) = decode_plain(type, s, pos)
    BY <1>3, Plain
  <2>2. Kept(decode_plain(type, data, pos), decode_plain(type, full, pos), 0 .. Len(data))
    BY <1>3, PlainKept
  <2> QED BY <2>1, <2>2
<1> QED BY <1>1, <1>2, <1>3

LEMMA FieldsKept ==
  ASSUME NEW data, NEW full, Begins(data, full), NEW how, NEW fields, NEW n \in Nat, NEW pos \in 0 .. Len(data)
  PROVE Kept(ReadFields(how, fields, data, pos, n), ReadFields(how, fields, full, pos, n), 0 .. Len(data))
<1>1. PICK S : S = 0 .. Len(data) /\ \A p \in S : p \in Nat
  BY DEF Begins
<1>2. PICK G : G = [i \in 1 .. n |-> [p \in S |-> ReadValue(how, fields[i], data, p)]]
  OBVIOUS
<1>3. \A i \in 1 .. n : \A p \in S :
          Kept(ReadValue(how, fields[i], data, p), ReadValue(how, fields[i], full, p), S) /\ G[i][p] = ReadValue(how, fields[i], data, p)
  BY <1>1, <1>2, ValueKept
<1>4. PICK f : f[0] = Some(<<>>, pos) /\ Turns(f, n, G)
  BY TurnsExist
<1>5. WentWell(f, n, S, G)
  <2>1. Within(n, S, G)
    BY <1>3 DEF Kept, Within
  <2>2. pos \in S
    BY <1>1
  <2>3. f[0] = Some(<<>>, pos) /\ Turns(f, n, G)
    BY <1>4
  <2> QED BY ONLY n \in Nat, <2>1, <2>2, <2>3, TurnsRead
<1>6. f = [i \in 0 .. n |-> f[i]] /\ \A i \in 1 .. n : f[i] = Round(f[i - 1], G[i][f[i - 1].pos])
  BY <1>4 DEF Turns
<1>7. ASSUME NEW i \in 1 .. n PROVE f[i] = Round(f[i - 1], ReadValue(how, fields[i], data, f[i - 1].pos))
  <2>1. i - 1 \in 0 .. n
    OBVIOUS
  <2>2. CASE f[i - 1].res = "some"
    BY <1>3, <1>5, <1>6, <2>1, <2>2 DEF WentWell
  <2>3. CASE f[i - 1].res # "some"
    BY <1>6, <2>3 DEF Round
  <2> QED BY <2>2, <2>3
<1>8. ReadsFields(how, fields, data, pos, n, f)
  <2>1. \A i \in 0 .. n : f[i] = IF i = 0 THEN Some(<<>>, pos) ELSE Round(f[i - 1], ReadValue(how, fields[i], data, f[i - 1].pos))
    BY <1>4, <1>7
  <2> QED BY <1>6, <2>1 DEF ReadsFields
<1>9. ReadFields(how, fields, data, pos, n) = f[n]
  <2>1. PICK g : g = CHOOSE c : ReadsFields(how, fields, data, pos, n, c)
    OBVIOUS
  <2>2. ReadsFields(how, fields, data, pos, n, g)
    BY <1>8, <2>1
  <2>3. ReadFields(how, fields, data, pos, n) = g[n]
    BY <2>1 DEF ReadFields
  <2> QED BY <1>8, <2>2, <2>3, ReadsFieldsAgree
<1> SUFFICES ASSUME f[n].res = "some" PROVE ReadFields(how, fields, full, pos, n) = f[n] /\ f[n].pos \in S
  BY <1>1, <1>9 DEF Kept
<1>10. ASSUME NEW i \in 1 .. n PROVE f[i] = Round(f[i - 1], ReadValue(how, fields[i], full, f[i - 1].pos))
  <2>1. f[i - 1].pos \in S /\ G[i][f[i - 1].pos].res = "some"
    BY <1>5 DEF WentWell
  <2>2. ReadValue(how, fields[i], full, f[i - 1].pos) = ReadValue(how, fields[i], data, f[i - 1].pos)
    BY <1>3, <2>1 DEF Kept
  <2> QED BY <1>7, <2>2
<1>11. ReadsFields(how, fields, full, pos, n, f)
  <2>1. \A i \in 0 .. n : f[i] = IF i = 0 THEN Some(<<>>, pos) ELSE Round(f[i - 1], ReadValue(how, fields[i], full, f[i - 1].pos))
    BY <1>4, <1>10
  <2> QED BY <1>6, <2>1 DEF ReadsFields
<1>12. ReadFields(how, fields, full, pos, n) = f[n]
  <2>1. PICK g : g = CHOOSE c : ReadsFields(how, fields, full, pos, n, c)
    OBVIOUS
  <2>2. ReadsFields(how, fields, full, pos, n, g)
    BY <1>11, <2>1
  <2>3. ReadFields(how, fields, full, pos, n) = g[n]
    BY <2>1 DEF ReadFields
  <2> QED BY <1>11, <2>2, <2>3, ReadsFieldsAgree
<1> QED BY <1>5, <1>12 DEF WentWell

LEMMA SchemaKept ==
  ASSUME NEW data, NEW full, Begins(data, full), NEW pos \in Nat
  PROVE Kept(decode_schema_frame(data, pos), decode_schema_frame(full, pos), 0 .. Len(data))
<1> SUFFICES ASSUME decode_schema_frame(data, pos).res = "some"
    PROVE /\ decode_schema_frame(full, pos) = decode_schema_frame(data, pos)
          /\ decode_schema_frame(data, pos).pos \in 0 .. Len(data)
  BY DEF Kept
<1>1. PICK h : h = Slice(data, pos, 3)
  OBVIOUS
<1>2. h.res = "some"
  BY <1>1 DEF decode_schema_frame, AndThen
<1>3. Slice(full, pos, 3) = h /\ h.pos \in 0 .. Len(data)
  BY <1>1, <1>2, SliceKept, 3 \in Nat DEF Kept
<1>4. PICK p \in Nat : p = h.pos
  BY <1>3
<1>5. PICK f : f = Text(data, p)
  OBVIOUS
<1>6. f.res = "some"
  BY <1>1, <1>2, <1>4, <1>5 DEF decode_schema_frame, AndThen
<1>7. Text(full, p) = f /\ f.pos \in 0 .. Len(data)
  BY <1>5, <1>6, TextKept DEF Kept
<1>8. \A i \in DOMAIN f.v : f.v[i] \in FieldTypes
  BY <1>1, <1>2, <1>4, <1>5, <1>6 DEF decode_schema_frame, AndThen, None
<1>9. SchemaAt(data, pos, h, f) /\ SchemaAt(full, pos, h, f)
  BY <1>1, <1>2, <1>3, <1>4, <1>5, <1>6, <1>7, <1>8 DEF SchemaAt
<1>10. decode_schema_frame(data, pos) = SchemaOf(h, f) /\ decode_schema_frame(full, pos) = SchemaOf(h, f)
  BY <1>9, SchemaReader
<1> QED BY <1>7, <1>10, SomeIs DEF SchemaOf

LEMMA PoolFrameKept ==
  ASSUME NEW data, NEW full, Begins(data, full), NEW pos \in Nat
  PROVE Kept(decode_string_pool_frame(data, pos), decode_string_pool_frame(full, pos), 0 .. Len(data))
<1>1. PICK n : n = Slice(data, pos, 1)
  OBVIOUS
<1>2. CASE n.res = "some"
  <2>1. Slice(full, pos, 1) = n /\ n.v[1] \in Nat /\ n.pos \in 0 .. Len(data)
    BY <1>1, <1>2, NumberKept
  <2>2. PICK m \in Nat, p \in 0 .. Len(data) : m = n.v[1] /\ p = n.pos
    BY <2>1
  <2>3. /\ decode_string_pool_frame(data, pos) = PoolOf(ReadPool(data, m, p))
        /\ decode_string_pool_frame(full, pos) = PoolOf(ReadPool(full, m, p))
    BY <1>1, <1>2, <2>1, <2>2, PoolReader
  <2>4. PICK r : r = ReadPool(data, m, p) /\ Kept(r, ReadPool(full, m, p), 0 .. Len(data))
    BY PoolKept
  <2>5. CASE r.res = "some"
    <3>1. ReadPool(full, m, p) = r /\ r.pos \in 0 .. Len(data)
      BY <2>4, <2>5 DEF Kept
    <3>2. PoolOf(r) = Some([kind |-> "pool", entries |-> r.v], r.pos)
      BY <2>5 DEF PoolOf
    <3> QED BY <2>3, <2>4, <3>1, <3>2, SomeIs DEF Kept
  <2>6. CASE r.res # "some"
    BY <2>3, <2>4, <2>6 DEF PoolOf, Kept
  <2> QED BY <2>5, <2>6
<1>3. CASE n.res # "some"
  <2>1. decode_string_pool_frame(data, pos).res # "some"
    BY <1>1, <1>3 DEF decode_string_pool_frame, AndThen
  <2> QED BY <2>1 DEF Kept
<1> QED BY <1>2, <1>3

LEMMA ResetKept ==
  ASSUME NEW data, NEW full, Begins(data, full), NEW pos \in Nat
  PROVE Kept(decode_timestamp_reset(data, pos), decode_timestamp_reset(full, pos), 0 .. Len(data))
<1>1. PICK t : t = Slice(data, pos, 1)
  OBVIOUS
<1>2. CASE t.res = "some"
  <2>1. Slice(full, pos, 1) = t /\ t.pos \in 0 .. Len(data)
    BY <1>1, <1>2, NumberKept
  <2>2. /\ decode_timestamp_reset(data, pos) = Some([kind |-> "reset", ts |-> t.v[1]], t.pos)
        /\ decode_timestamp_reset(full, pos) = Some([kind |-> "reset", ts |-> t.v[1]], t.pos)
    BY <1>1, <1>2, <2>1 DEF decode_timestamp_reset, AndThen
  <2> QED BY <2>1, <2>2, SomeIs DEF Kept
<1>3. CASE t.res # "some"
  BY <1>1, <1>3 DEF decode_timestamp_reset, AndThen, Kept
<1> QED BY <1>2, <1>3

LEMMA OtherKept ==
  ASSUME NEW data, NEW full, Begins(data, full), NEW pos \in Nat, pos < Len(data)
  PROVE Kept(OtherFrame(data, pos), OtherFrame(full, pos), 0 .. Len(data)) /\ data[pos + 1] = full[pos + 1]
<1>1. pos + 1 \in 1 .. Len(data) /\ pos + 1 \in Nat
  BY DEF Begins
<1>2. PICK tag : tag = data[pos + 1] /\ tag = full[pos + 1]
  BY <1>1 DEF Begins
<1>3. PICK p \in Nat : p = pos + 1
  BY <1>1
<1>4. CASE tag = TAG_SCHEMA
  <2>1. tag # TAG_STRING_POOL /\ tag # TAG_TIMESTAMP_RESET
    BY <1>4, Tags
  <2>2. OtherFrame(data, pos) = decode_schema_frame(data, p) /\ OtherFrame(full, pos) = decode_schema_frame(full, p)
    BY <1>2, <1>3, <1>4, <2>1, Zenon DEF OtherFrame
  <2> QED BY <1>2, <2>2, SchemaKept
<1>5. CASE tag = TAG_STRING_POOL
  <2>1. tag # TAG_SCHEMA /\ tag # TAG_TIMESTAMP_RESET
    BY <1>5, Tags
  <2>2. /\ OtherFrame(data, pos) = decode_string_pool_frame(data, p)
        /\ OtherFrame(full, pos) = decode_string_pool_frame(full, p)
    BY <1>2, <1>3, <1>5, <2>1, Zenon DEF OtherFrame
  <2> QED BY <1>2, <2>2, PoolFrameKept
<1>6. CASE tag = TAG_TIMESTAMP_RESET
  <2>1. tag # TAG_SCHEMA /\ tag # TAG_STRING_POOL
    BY <1>6, Tags
  <2>2. /\ OtherFrame(data, pos) = decode_timestamp_reset(data, p)
        /\ OtherFrame(full, pos) = decode_timestamp_reset(full, p)
    BY <1>2, <1>3, <1>6, <2>1, Zenon DEF OtherFrame
  <2> QED BY <1>2, <2>2, ResetKept
<1>7. CASE tag \notin {TAG_SCHEMA, TAG_STRING_POOL, TAG_TIMESTAMP_RESET}
  <2>1. OtherFrame(data, pos) = None
    BY <1>2, <1>7, Zenon DEF OtherFrame
  <2> QED BY <1>2, <2>1 DEF Kept, None
<1> QED BY <1>4, <1>5, <1>6, <1>7

\* A schema as the encoders write it, and one of the three ways an event is decoded
IsSchema(entry) == entry.has_timestamp /\ Len(entry.fields) \in Nat
EventBy(how, checked, data, pos, reg, base) ==
    IF how = "owned" THEN EventFrame(decode_owned, checked, data, pos, reg, base)
    ELSE EventFrame(decode_ref, checked, data, pos, reg, base)

\* the id and the delta of an event that can be decoded
HasHead(data, pos, reg, i, d) ==
    /\ i = Slice(data, pos, 1) /\ i.res = "some" /\ i.v[1] \in DOMAIN reg
    /\ d = Slice(data, i.pos, 1) /\ d.res = "some"

LEMMA EventDecoded ==
  ASSUME NEW how, NEW checked, NEW data, NEW pos, NEW reg, NEW base, NEW i, NEW d,
         HasHead(data, pos, reg, i, d), IsSchema(reg[i.v[1]])
  PROVE EventBy(how, checked, data, pos, reg, base) =
            IF checked /\ base + d.v[1] >= Width THEN None
            ELSE EventOf(ReadFields(IF how = "owned" THEN "owned" ELSE "ref", reg[i.v[1]].fields, data, d.pos,
                                    Len(reg[i.v[1]].fields)),
                         i.v[1], reg[i.v[1]], (base + d.v[1]) % Width)
<1>1. CASE how = "owned"
  <2>1. EventFrame(decode_owned, checked, data, pos, reg, base) =
            IF checked /\ base + d.v[1] >= Width THEN None
            ELSE EventOf(FieldsOf(decode_owned, reg[i.v[1]].fields, data, d.pos),
                         i.v[1], reg[i.v[1]], (base + d.v[1]) % Width)
    BY DEF EventFrame, AndThen, EventOf, EventIn, HasHead, IsSchema
  <2> QED BY <1>1, <2>1, FieldsReader DEF EventBy
<1>2. CASE how # "owned"
  <2>1. EventFrame(decode_ref, checked, data, pos, reg, base) =
            IF checked /\ base + d.v[1] >= Width THEN None
            ELSE EventOf(FieldsOf(decode_ref, reg[i.v[1]].fields, data, d.pos),
                         i.v[1], reg[i.v[1]], (base + d.v[1]) % Width)
    BY DEF EventFrame, AndThen, EventOf, EventIn, HasHead, IsSchema
  <2> QED BY <1>2, <2>1, FieldsReader DEF EventBy
<1> QED BY <1>1, <1>2

LEMMA EventHead ==
  ASSUME NEW how, NEW checked, NEW data, NEW pos, NEW reg, NEW base, EventBy(how, checked, data, pos, reg, base).res = "some",
         \A id \in DOMAIN reg : IsSchema(reg[id])
  PROVE \E i, d : HasHead(data, pos, reg, i, d)
<1>1. PICK i : i = Slice(data, pos, 1)
  OBVIOUS
<1>2. PICK d : d = Slice(data, i.pos, 1)
  OBVIOUS
<1>3. i.res = "some"
  <2> SUFFICES ASSUME i.res # "some" PROVE FALSE
    OBVIOUS
  <2>1. EventFrame(decode_owned, checked, data, pos, reg, base) = i /\ EventFrame(decode_ref, checked, data, pos, reg, base) = i
    BY <1>1 DEF EventFrame, AndThen
  <2> QED BY <2>1 DEF EventBy
<1>4. i.v[1] \in DOMAIN reg
  <2> SUFFICES ASSUME i.v[1] \notin DOMAIN reg PROVE FALSE
    OBVIOUS
  <2>1. EventFrame(decode_owned, checked, data, pos, reg, base) = None /\ EventFrame(decode_ref, checked, data, pos, reg, base) = None
    BY <1>1, <1>3 DEF EventFrame, AndThen
  <2> QED BY <2>1 DEF EventBy, None
<1>5. d.res = "some"
  <2> SUFFICES ASSUME d.res # "some" PROVE FALSE
    OBVIOUS
  <2>1. reg[i.v[1]].has_timestamp
    BY <1>4 DEF IsSchema
  <2>2. EventFrame(decode_owned, checked, data, pos, reg, base) = d /\ EventFrame(decode_ref, checked, data, pos, reg, base) = d
    BY <1>1, <1>2, <1>3, <1>4, <2>1 DEF EventFrame, AndThen
  <2> QED BY <2>2 DEF EventBy
<1> QED BY <1>1, <1>2, <1>3, <1>4, <1>5 DEF HasHead

LEMMA EventKept ==
  ASSUME NEW data, NEW full, Begins(data, full), NEW pos \in Nat, NEW how, NEW checked, NEW reg, NEW base,
         \A id \in DOMAIN reg : IsSchema(reg[id])
  PROVE Kept(EventBy(how, checked, data, pos, reg, base), EventBy(how, checked, full, pos, reg, base), 0 .. Len(data))
<1>1. PICK a : a = EventBy(how, checked, data, pos, reg, base)
  OBVIOUS
<1> SUFFICES ASSUME a.res = "some" PROVE EventBy(how, checked, full, pos, reg, base) = a /\ a.pos \in 0 .. Len(data)
  BY <1>1 DEF Kept
<1>2. PICK i, d : HasHead(data, pos, reg, i, d)
  BY <1>1, EventHead
<1>3. Slice(full, pos, 1) = i /\ i.pos \in Nat
  BY <1>2, NumberKept DEF HasHead
<1>4. PICK p \in Nat : p = i.pos
  BY <1>3
<1>5. Slice(full, p, 1) = d /\ d.pos \in 0 .. Len(data)
  BY <1>2, <1>4, NumberKept DEF HasHead
<1>6. HasHead(full, pos, reg, i, d)
  BY <1>2, <1>3, <1>4, <1>5 DEF HasHead
<1>7. PICK entry : entry = reg[i.v[1]]
  OBVIOUS
<1>8. IsSchema(entry)
  BY <1>2, <1>7 DEF HasHead
<1>0. PICK mode : mode = IF how = "owned" THEN "owned" ELSE "ref"
  OBVIOUS
<1>9. PICK n \in Nat, q \in 0 .. Len(data) : n = Len(entry.fields) /\ q = d.pos
  BY <1>5, <1>8 DEF IsSchema
<1>10. PICK ts : ts = (base + d.v[1]) % Width
  OBVIOUS
<1>11. a = IF checked /\ base + d.v[1] >= Width THEN None
           ELSE EventOf(ReadFields(mode, entry.fields, data, q, n), i.v[1], entry, ts)
  BY ONLY <1>0, <1>1, <1>2, <1>7, <1>8, <1>9, <1>10, EventDecoded
<1>12. EventBy(how, checked, full, pos, reg, base) =
           IF checked /\ base + d.v[1] >= Width THEN None
           ELSE EventOf(ReadFields(mode, entry.fields, full, q, n), i.v[1], entry, ts)
  BY ONLY <1>0, <1>6, <1>7, <1>8, <1>9, <1>10, EventDecoded
<1>13. ~(checked /\ base + d.v[1] >= Width)
  BY <1>11 DEF None
<1>14. PICK r, t : r = ReadFields(mode, entry.fields, data, q, n) /\ t = ReadFields(mode, entry.fields, full, q, n)
  OBVIOUS
<1>15. Kept(r, t, 0 .. Len(data))
  BY <1>14, FieldsKept
<1>16. a = EventOf(r, i.v[1], entry, ts) /\ EventBy(how, checked, full, pos, reg, base) = EventOf(t, i.v[1], entry, ts)
  BY <1>11, <1>12, <1>13, <1>14
<1>17. r.res = "some"
  BY <1>16 DEF EventOf
<1>18. t = r /\ r.pos \in 0 .. Len(data) /\ a.pos = r.pos
  BY <1>15, <1>16, <1>17, SomeIs DEF Kept, EventOf
<1> QED BY <1>16, <1>18

\* A frame that a reader finds in the beginning of a stream is one of the whole stream: a
\* frame says by itself where it ends, and what was cut off is never read (decoder.rs,
\* codec.rs, types.rs).
THEOREM FrameKept ==
  ASSUME NEW data, NEW full, Begins(data, full), NEW d, d.pos \in Nat, d.pos < Len(data),
         \A id \in DOMAIN d.reg : IsSchema(d.reg[id]), NEW reader \in Readers
  PROVE Kept(FrameOf(reader, data, d), FrameOf(reader, full, d), 0 .. Len(data))
<1>1. PICK pos \in Nat : pos = d.pos
  OBVIOUS
<1>2. Kept(OtherFrame(data, pos), OtherFrame(full, pos), 0 .. Len(data)) /\ data[pos + 1] = full[pos + 1]
  BY <1>1, OtherKept
<1>3. PICK p \in Nat : p = pos + 1
  OBVIOUS
<1>4. \A how, checked : Kept(EventBy(how, checked, data, p, d.reg, d.base),
                             EventBy(how, checked, full, p, d.reg, d.base), 0 .. Len(data))
  BY EventKept
<1>5. \A s \in {data, full} :
          /\ decode_event_frame(s, p, d.reg, d.base) = EventBy("owned", TRUE, s, p, d.reg, d.base)
          /\ decode_event_frame_ref(s, p, d.reg, d.base) = EventBy("ref", TRUE, s, p, d.reg, d.base)
          /\ EventFrame(decode_ref, FALSE, s, p, d.reg, d.base) = EventBy("ref", FALSE, s, p, d.reg, d.base)
  BY DEF decode_event_frame, decode_event_frame_ref, EventBy
<1>6. CASE data[pos + 1] = TAG_EVENT
  <2>1. \A s \in {data, full} :
          /\ decode_frame(s, pos, d.reg, d.base) = EventBy("owned", TRUE, s, p, d.reg, d.base)
          /\ decode_frame_ref(s, pos, d.reg, d.base) = EventBy("ref", TRUE, s, p, d.reg, d.base)
    BY <1>2, <1>3, <1>5, <1>6 DEF decode_frame, decode_frame_ref
  <2>2. CASE reader = "frames"
    <3>1. \A s \in {data, full} : FrameOf(reader, s, d) = EventBy("owned", TRUE, s, p, d.reg, d.base)
      BY <1>1, <2>1, <2>2, Zenon DEF FrameOf
    <3> QED BY <1>4, <3>1
  <2>3. CASE reader = "events"
    <3>1. \A s \in {data, full} : FrameOf(reader, s, d) = EventBy("ref", FALSE, s, p, d.reg, d.base)
      <4>1. reader # "frames"
        BY <2>3
      <4>2. \A s \in {data, full} : FrameOf(reader, s, d) = EventFrame(decode_ref, FALSE, s, p, d.reg, d.base)
        BY <1>1, <1>2, <1>3, <1>6, <2>3, <4>1, Zenon DEF FrameOf
      <4> QED BY <1>5, <4>2
    <3> QED BY <1>4, <3>1
  <2>4. CASE reader = "refs"
    <3>1. \A s \in {data, full} : FrameOf(reader, s, d) = EventBy("ref", TRUE, s, p, d.reg, d.base)
      <4>1. reader # "frames" /\ reader # "events"
        BY <2>4
      <4> QED BY <1>1, <2>1, <4>1, Zenon DEF FrameOf
    <3> QED BY <1>4, <3>1
  <2> QED BY <2>2, <2>3, <2>4 DEF Readers
<1>7. CASE data[pos + 1] # TAG_EVENT
  <2>1. \A s \in {data, full} : /\ decode_frame(s, pos, d.reg, d.base) = OtherFrame(s, pos)
                                /\ decode_frame_ref(s, pos, d.reg, d.base) = OtherFrame(s, pos)
    BY <1>2, <1>7 DEF decode_frame, decode_frame_ref
  <2>2. \A s \in {data, full} : FrameOf(reader, s, d) = OtherFrame(s, pos)
    <3>1. \A s \in {data, full} : s[d.pos + 1] # TAG_EVENT
      BY <1>1, <1>2, <1>7
    <3>2. CASE reader = "frames"
      BY <1>1, <2>1, <3>2, Zenon DEF FrameOf
    <3>3. CASE reader # "frames"
      BY <1>1, <2>1, <3>1, <3>3, Zenon DEF FrameOf
    <3> QED BY <3>2, <3>3
  <2> QED BY <1>2, <2>2
<1> QED BY <1>6, <1>7
=============================================================================
