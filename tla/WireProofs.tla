----------------------------- MODULE WireProofs -----------------------------
(***************************************************************************)
(* Theorems about Wire: what recv_message() returns is what send_message() *)
(* was called with, for messages, names and numbers of any size.           *)
(***************************************************************************)
EXTENDS Wire, SequenceTheorems, WellFoundedInduction, TLAPS

-----------------------------------------------------------------------------
(* Induction, by the least counterexample *)

\* A set of numbers has a least one.
LEMMA LeastNumber ==
  ASSUME NEW T \in SUBSET Nat, T # {}
  PROVE  \E n \in T : \A m \in T : ~(m < n)
<1> DEFINE R == OpToRel(<, Nat)
<1>1. IsWellFoundedOn(R, Nat)
  BY NatLessThanWellFounded, Zenon
<1>2. \A x \in Nat, y \in Nat : y < x => <<y, x>> \in R
  BY DEF OpToRel
<1> HIDE DEF R
<1>3. \E x \in T : \A y \in T : ~(<<y, x>> \in R)
  BY <1>1, WFMin
<1> QED
  BY <1>2, <1>3

\* What holds of 0, and of a number if of the one before it, holds of all.
LEMMA UpTo ==
  ASSUME NEW N \in Nat, NEW S \in SUBSET (0..N), 0 \in S,
         \A k \in 1..N : k - 1 \in S => k \in S
  PROVE  S = 0..N
<1> SUFFICES ASSUME NEW x \in 0..N, x \notin S PROVE FALSE
  OBVIOUS
<1> DEFINE T == (0..N) \ S
<1>1. PICK n \in T : \A m \in T : ~(m < n)
  <2>1. T \in SUBSET Nat /\ x \in T
    OBVIOUS
  <2> QED
    BY <2>1, LeastNumber
<1>2. n # 0 /\ n \in 1..N /\ n - 1 \in 0..N /\ n - 1 < n
  BY <1>1
<1>3. n - 1 \notin T
  BY <1>1, <1>2
<1> QED
  BY <1>2, <1>3

-----------------------------------------------------------------------------
(* Numbers *)

IsWeight(g, n) == \A k \in 0..n : g[k] = IF k = 0 THEN 1 ELSE Base * g[k - 1]

LEMMA WeightExists == \E g \in [0..TimeLen -> Nat] : IsWeight(g, TimeLen)
<1> DEFINE S == {n \in 0..TimeLen : \E g \in [0..n -> Nat] : IsWeight(g, n)}
<1>1. 0 \in S
  <2>1. [k \in 0..0 |-> 1] \in [0..0 -> Nat] /\ IsWeight([k \in 0..0 |-> 1], 0)
    BY DEF IsWeight
  <2> QED
    BY <2>1, WireAssumption
<1>2. ASSUME NEW n \in 1..TimeLen, n - 1 \in S PROVE n \in S
  <2>1. PICK h \in [0..(n - 1) -> Nat] : IsWeight(h, n - 1)
    BY <1>2
  <2> DEFINE g == [k \in 0..n |-> IF k = n THEN Base * h[n - 1] ELSE h[k]]
  <2>2. n \in Nat /\ n > 0 /\ n - 1 \in 0..(n - 1)
    BY WireAssumption
  <2>3. ASSUME NEW k \in 0..n PROVE g[k] \in Nat
    BY <2>2, WireAssumption
  <2>4. ASSUME NEW k \in 0..n PROVE g[k] = IF k = 0 THEN 1 ELSE Base * g[k - 1]
    <3>1. CASE k = 0
      BY <2>1, <2>2, <3>1 DEF IsWeight
    <3>2. CASE k = n
      BY <2>2, <3>2
    <3>3. CASE k # 0 /\ k # n
      <4>1. k \in 0..(n - 1) /\ k - 1 \in 0..(n - 1) /\ k - 1 # n
        BY <2>2, <3>3
      <4>2. h[k] = Base * h[k - 1]
        BY <2>1, <3>3, <4>1 DEF IsWeight
      <4> QED
        BY <3>3, <4>1, <4>2
    <3> QED
      BY <3>1, <3>2, <3>3
  <2>5. g \in [0..n -> Nat] /\ IsWeight(g, n)
    BY <2>3, <2>4 DEF IsWeight
  <2> HIDE DEF g
  <2> QED
    BY <2>5
<1>3. S = 0..TimeLen
  <2> HIDE DEF S
  <2>1. S \in SUBSET (0..TimeLen)
    BY DEF S
  <2> QED
    BY <1>1, <1>2, <2>1, UpTo, WireAssumption
<1>4. TimeLen \in S
  BY <1>3, WireAssumption
<1> QED
  BY <1>4

\* The weights are the powers of Base.
LEMMA WeightDef ==
  /\ Weight[0] = 1
  /\ \A k \in 1..TimeLen : Weight[k] = Base * Weight[k - 1]
  /\ \A k \in 0..TimeLen : Weight[k] \in Nat /\ Weight[k] > 0
<1>1. PICK g \in [0..TimeLen -> Nat] : IsWeight(g, TimeLen)
  BY WeightExists
<1>2. g = [k \in 0..TimeLen |-> IF k = 0 THEN 1 ELSE Base * g[k - 1]]
  BY <1>1 DEF IsWeight
<1>3. Weight = [k \in 0..TimeLen |-> IF k = 0 THEN 1 ELSE Base * Weight[k - 1]]
  BY <1>2 DEF Weight
<1> HIDE DEF Weight
<1>4. Weight[0] = 1 /\ \A k \in 1..TimeLen : Weight[k] = Base * Weight[k - 1]
  <2>1. \A k \in 0..TimeLen : Weight[k] = IF k = 0 THEN 1 ELSE Base * Weight[k - 1]
    BY <1>3, Zenon
  <2> QED
    BY <2>1, WireAssumption
<1> DEFINE S == {k \in 0..TimeLen : Weight[k] \in Nat /\ Weight[k] > 0}
<1>5. 0 \in S
  BY <1>4, WireAssumption
<1>6. ASSUME NEW k \in 1..TimeLen, k - 1 \in S PROVE k \in S
  <2>1. Weight[k - 1] \in Nat /\ Weight[k - 1] > 0 /\ Weight[k] = Base * Weight[k - 1]
    BY <1>4, <1>6
  <2>2. Weight[k] \in Nat /\ Weight[k] > 0
    <3> DEFINE w == Weight[k - 1]
    <3>1. w \in Nat /\ w > 0 /\ Base \in Nat /\ Base > 0
      BY <2>1, WireAssumption
    <3> HIDE DEF w
    <3>2. Base * w \in Nat /\ Base * w > 0
      BY <3>1
    <3> QED
      BY <2>1, <3>2 DEF w
  <2> QED
    BY <2>2
<1>7. S = 0..TimeLen
  <2> HIDE DEF S
  <2>1. S \in SUBSET (0..TimeLen)
    BY DEF S
  <2> QED
    BY <1>5, <1>6, <2>1, UpTo, WireAssumption
<1> QED
  BY <1>4, <1>7

\* Shifting by one place more.
LEMMA DivDiv ==
  ASSUME NEW v \in Nat, NEW p \in Nat, p > 0, NEW b \in Nat, b > 0
  PROVE  v \div (b * p) = (v \div p) \div b
<1>1. v \div (p * b) = (v \div p) \div b
  OBVIOUS
<1>2. p * b = b * p
  OBVIOUS
<1> QED
  BY <1>1, <1>2

LEMMA LastDigit ==
  ASSUME NEW q \in Nat, NEW b \in Nat, b > 0
  PROVE  q = ((q \div b) * b) + (q % b) /\ q % b \in 0..(b - 1) /\ q \div b \in Nat
  OBVIOUS

\* The recursion of read_u64_be().
IsNumber(f, b) ==
    f = [k \in 0..TimeLen |-> IF k = 0 THEN 0 ELSE f[k - 1] * Base + b[k]]

\* read_u64_be() undoes write_u64_be().
LEMMA TimeRead ==
  ASSUME NEW v \in 0..(Weight[TimeLen] - 1), NEW b,
         \A k \in 1..TimeLen : b[k] = (v \div Weight[TimeLen - k]) % Base
  PROVE  read_u64_be(b) = v
<1> DEFINE g == [k \in 0..TimeLen |-> v \div Weight[TimeLen - k]]
           val == CHOOSE f : IsNumber(f, b)
<1>1. TimeLen \in Nat \ {0} /\ Base \in Nat /\ Base > 0
  BY WireAssumption
<1>2. v \in Nat /\ v < Weight[TimeLen]
  BY <1>1, WeightDef
<1>3. g[0] = 0 /\ g[TimeLen] = v
  <2>1. Weight[TimeLen] \in Nat /\ Weight[0] = 1
    BY <1>1, WeightDef
  <2>2. v \div Weight[TimeLen] = 0 /\ v \div 1 = v
    BY <1>2, <2>1
  <2>3. TimeLen - 0 = TimeLen /\ TimeLen - TimeLen = 0
    BY <1>1
  <2> QED
    BY <1>1, <2>1, <2>2, <2>3
<1>4. ASSUME NEW k \in 1..TimeLen PROVE g[k] = g[k - 1] * Base + b[k]
  <2> DEFINE p == Weight[TimeLen - k]
             q == v \div p
  <2>1. TimeLen - k \in 0..TimeLen /\ TimeLen - (k - 1) \in 1..TimeLen /\ k - 1 \in 0..TimeLen
    BY <1>1
  <2>2. (TimeLen - (k - 1)) - 1 = TimeLen - k
    BY <1>1
  <2>3. p \in Nat /\ p > 0 /\ Weight[TimeLen - (k - 1)] = Base * p
    BY <2>1, <2>2, WeightDef
  <2>4. g[k] = q /\ g[k - 1] = v \div (Base * p) /\ b[k] = q % Base
    BY <1>1, <2>1, <2>3
  <2> HIDE DEF p, g
  <2>5. q \in Nat /\ v \div (Base * p) = q \div Base
    BY <1>1, <1>2, <2>3, DivDiv, LastDigit
  <2> HIDE DEF q
  <2>6. q = ((q \div Base) * Base) + (q % Base)
    BY <1>1, <2>5, LastDigit
  <2> QED
    BY <2>4, <2>5, <2>6
<1> HIDE DEF g
<1>5. IsNumber(g, b)
  <2>1. \A k \in 0..TimeLen : g[k] = IF k = 0 THEN 0 ELSE g[k - 1] * Base + b[k]
    BY <1>1, <1>3, <1>4
  <2>2. g = [k \in 0..TimeLen |-> g[k]]
    BY DEF g
  <2> QED
    BY <2>1, <2>2 DEF IsNumber
<1>6. IsNumber(val, b)
  BY <1>5, Zenon
<1>7. read_u64_be(b) = val[TimeLen]
  BY DEF read_u64_be, IsNumber
<1> HIDE DEF val
<1>8. \A k \in 0..TimeLen : val[k] = IF k = 0 THEN 0 ELSE val[k - 1] * Base + b[k]
  BY <1>6, Zenon DEF IsNumber
<1> DEFINE S == {k \in 0..TimeLen : val[k] = g[k]}
<1>9. 0 \in S
  BY <1>1, <1>3, <1>8
<1>10. ASSUME NEW k \in 1..TimeLen, k - 1 \in S PROVE k \in S
  <2>1. val[k - 1] = g[k - 1] /\ k \in 0..TimeLen /\ k # 0
    BY <1>1, <1>10
  <2>2. val[k] = val[k - 1] * Base + b[k]
    BY <1>8, <2>1
  <2> QED
    BY <1>4, <2>1, <2>2
<1>11. S = 0..TimeLen
  <2>1. S \in SUBSET (0..TimeLen)
    OBVIOUS
  <2> HIDE DEF S
  <2> QED
    BY <1>1, <1>9, <1>10, <2>1, UpTo
<1> QED
  BY <1>1, <1>3, <1>7, <1>11

-----------------------------------------------------------------------------
(* The layout of a message *)

Letters == 1..(Base - 1)
Names == {s \in Seq(Letters) : Len(s) < NameLen}

\* The messages make_message() can make.
MessageType ==
    [type : Bytes, status : {0}, sender : Names, receiver : Names,
     timestamp : 0..(Weight[TimeLen] - 1), payload : {s \in Seq(Letters) : Len(s) <= MaxPayload}]

LEMMA AtMostType ==
  ASSUME NEW S, NEW s \in Seq(S), NEW n \in Nat
  PROVE  AtMost(s, n) \in Seq(S) /\ Len(AtMost(s, n)) <= n /\ (Len(s) <= n => AtMost(s, n) = s)
<1>1. CASE Len(s) <= n
  BY <1>1 DEF AtMost
<1>2. CASE ~(Len(s) <= n)
  <2>1. n \in 0..Len(s)
    BY <1>2
  <2>2. SubSeq(s, 1, n) \in Seq(S) /\ Len(SubSeq(s, 1, n)) = n
    BY <2>1
  <2> QED
    BY <1>2, <2>2 DEF AtMost
<1> QED
  BY <1>1, <1>2

LEMMA MadeType ==
  ASSUME NEW i \in Inputs
  PROVE  make_message(i) \in MessageType
<1>1. /\ i.type \in Bytes /\ i.now \in 0..(Weight[TimeLen] - 1)
      /\ i.sender \in Seq(Letters) /\ i.receiver \in Seq(Letters) /\ i.payload \in Seq(Letters)
  BY WireAssumption DEF Letters
<1>2. NameLen \in Nat \ {0} /\ NameLen - 1 \in Nat /\ MaxPayload \in Nat
  BY WireAssumption
<1>3. /\ AtMost(i.sender, NameLen - 1) \in Seq(Letters) /\ Len(AtMost(i.sender, NameLen - 1)) <= NameLen - 1
      /\ AtMost(i.receiver, NameLen - 1) \in Seq(Letters) /\ Len(AtMost(i.receiver, NameLen - 1)) <= NameLen - 1
      /\ AtMost(i.payload, MaxPayload) \in Seq(Letters) /\ Len(AtMost(i.payload, MaxPayload)) <= MaxPayload
  BY <1>1, <1>2, AtMostType
<1>4. /\ AtMost(i.sender, NameLen - 1) \in Names /\ AtMost(i.receiver, NameLen - 1) \in Names
  BY <1>2, <1>3 DEF Names
<1> QED
  BY <1>1, <1>3, <1>4 DEF make_message, Message, MessageType

LEMMA Joined ==
  ASSUME NEW a \in Seq(Bytes), NEW c \in Seq(Bytes)
  PROVE  /\ a \o c \in Seq(Bytes) /\ Len(a \o c) = Len(a) + Len(c)
         /\ \A k \in 1..Len(a) : (a \o c)[k] = a[k]
         /\ \A k \in 1..Len(c) : (a \o c)[Len(a) + k] = c[k]
<1>1. a \o c \in Seq(Bytes) /\ Len(a \o c) = Len(a) + Len(c)
  BY ConcatProperties
<1>2. \A k \in 1..(Len(a) + Len(c)) : (a \o c)[k] = IF k <= Len(a) THEN a[k] ELSE c[k - Len(a)]
  BY ConcatProperties
<1>3. ASSUME NEW k \in 1..Len(c) PROVE (a \o c)[Len(a) + k] = c[k]
  <2>1. Len(a) \in Nat /\ Len(c) \in Nat
    OBVIOUS
  <2>2. Len(a) + k \in 1..(Len(a) + Len(c)) /\ ~(Len(a) + k <= Len(a)) /\ (Len(a) + k) - Len(a) = k
    BY <2>1
  <2> QED
    BY <1>2, <2>2
<1>4. ASSUME NEW k \in 1..Len(a) PROVE (a \o c)[k] = a[k]
  <2>1. Len(a) \in Nat /\ Len(c) \in Nat
    OBVIOUS
  <2>2. k \in 1..(Len(a) + Len(c)) /\ k <= Len(a)
    BY <2>1
  <2> QED
    BY <1>2, <2>2
<1> QED
  BY <1>1, <1>3, <1>4

LEMMA PaddedType ==
  ASSUME NEW s \in Names
  PROVE  NulPadded(s) \in Seq(Bytes) /\ Len(NulPadded(s)) = NameLen
<1>1. NameLen \in Nat /\ s \in Seq(Letters)
  BY WireAssumption DEF Names
<1>2. ASSUME NEW k \in 1..NameLen PROVE (IF k <= Len(s) THEN s[k] ELSE 0) \in Bytes
  <2>1. CASE k <= Len(s)
    <3>1. s[k] \in Letters
      BY <1>1, <2>1
    <3> QED
      BY <2>1, <3>1, WireAssumption DEF Letters, Bytes
  <2>2. CASE ~(k <= Len(s))
    BY <2>2, WireAssumption DEF Bytes
  <2> QED
    BY <2>1, <2>2
<1> QED
  BY <1>1, <1>2 DEF NulPadded

LEMMA TimeType ==
  ASSUME NEW v \in 0..(Weight[TimeLen] - 1)
  PROVE  write_u64_be(v) \in Seq(Bytes) /\ Len(write_u64_be(v)) = TimeLen
<1>1. TimeLen \in Nat /\ Base \in Nat /\ Base > 0 /\ v \in Nat
  BY WireAssumption, WeightDef
<1>2. ASSUME NEW k \in 1..TimeLen PROVE (v \div Weight[TimeLen - k]) % Base \in Bytes
  <2> DEFINE p == Weight[TimeLen - k]
  <2>1. TimeLen - k \in 0..TimeLen
    BY <1>1
  <2>2. p \in Nat /\ p > 0
    BY <2>1, WeightDef
  <2> HIDE DEF p
  <2>3. v \div p \in Nat
    BY <1>1, <2>2, LastDigit
  <2>4. (v \div p) % Base \in Bytes
    BY <1>1, <2>3, LastDigit DEF Bytes
  <2> QED
    BY <2>4 DEF p
<1> QED
  BY <1>1, <1>2 DEF write_u64_be

\* Where pack_message() puts what.
LEMMA Packed ==
  ASSUME NEW m \in MessageType, NEW b, b = pack_message(m)
  PROVE  /\ b \in Seq(Bytes) /\ Len(b) = HeaderSize + Len(m.payload)
         /\ b[1] = m.type /\ b[2] = 0
         /\ \A k \in 1..NameLen : b[2 + k] = NulPadded(m.sender)[k]
         /\ \A k \in 1..NameLen : b[2 + NameLen + k] = NulPadded(m.receiver)[k]
         /\ \A k \in 1..TimeLen : b[2 + 2 * NameLen + k] = write_u64_be(m.timestamp)[k]
         /\ b[HeaderSize - 1] = (Len(m.payload) \div Base) % Base
         /\ b[HeaderSize] = Len(m.payload) % Base
         /\ \A k \in 1..Len(m.payload) : b[HeaderSize + k] = m.payload[k]
<1> DEFINE s == NulPadded(m.sender)
           r == NulPadded(m.receiver)
           t == write_u64_be(m.timestamp)
           p == m.payload
           l == <<(Len(p) \div Base) % Base, Len(p) % Base>>
           b1 == <<m.type, 0>>
           b2 == b1 \o s
           b3 == b2 \o r
           b4 == b3 \o t
           b5 == b4 \o l
<1>1. /\ NameLen \in Nat \ {0} /\ NameLen - 1 \in Nat /\ TimeLen \in Nat \ {0} /\ MaxPayload \in Nat
      /\ Base \in Nat /\ Base > 0
  BY WireAssumption
<1>2. /\ m.type \in Bytes /\ m.status = 0 /\ m.sender \in Names /\ m.receiver \in Names
      /\ m.timestamp \in 0..(Weight[TimeLen] - 1)
      /\ p \in Seq(Letters) /\ Len(p) <= MaxPayload
  BY DEF MessageType
<1>3. /\ AtMost(m.sender, NameLen - 1) = m.sender /\ AtMost(m.receiver, NameLen - 1) = m.receiver
      /\ AtMost(p, MaxPayload) = p
  <2>1. /\ m.sender \in Seq(Letters) /\ Len(m.sender) <= NameLen - 1
        /\ m.receiver \in Seq(Letters) /\ Len(m.receiver) <= NameLen - 1
    BY <1>1, <1>2 DEF Names
  <2> QED
    BY <1>1, <1>2, <2>1, AtMostType
<1>4. b = b5 \o p
  BY <1>2, <1>3 DEF pack_message
<1>5. /\ s \in Seq(Bytes) /\ Len(s) = NameLen /\ r \in Seq(Bytes) /\ Len(r) = NameLen
      /\ t \in Seq(Bytes) /\ Len(t) = TimeLen
  BY <1>2, PaddedType, TimeType
<1>6. l \in Seq(Bytes) /\ Len(l) = 2 /\ l[1] = (Len(p) \div Base) % Base /\ l[2] = Len(p) % Base
  <2>1. Len(p) \in Nat
    BY <1>2
  <2>2. (Len(p) \div Base) % Base \in Bytes /\ Len(p) % Base \in Bytes
    BY <1>1, <2>1, LastDigit DEF Bytes
  <2> QED
    BY <2>2
<1>7. p \in Seq(Bytes)
  BY <1>1, <1>2 DEF Letters, Bytes
<1>8. b1 \in Seq(Bytes) /\ Len(b1) = 2 /\ b1[1] = m.type /\ b1[2] = 0
  BY <1>1, <1>2 DEF Bytes
<1> HIDE DEF b1, b2, b3, b4, b5, s, r, t, l, p
<1>9. /\ b2 \in Seq(Bytes) /\ Len(b2) = 2 + NameLen
      /\ \A k \in 1..2 : b2[k] = b1[k]
      /\ \A k \in 1..NameLen : b2[2 + k] = s[k]
  <2>1. /\ b1 \o s \in Seq(Bytes) /\ Len(b1 \o s) = Len(b1) + Len(s)
        /\ \A k \in 1..Len(b1) : (b1 \o s)[k] = b1[k]
        /\ \A k \in 1..Len(s) : (b1 \o s)[Len(b1) + k] = s[k]
    BY <1>5, <1>8, Joined
  <2> QED
    BY <1>5, <1>8, <2>1 DEF b2
<1>10. /\ b3 \in Seq(Bytes) /\ Len(b3) = 2 + 2 * NameLen
       /\ \A k \in 1..(2 + NameLen) : b3[k] = b2[k]
       /\ \A k \in 1..NameLen : b3[2 + NameLen + k] = r[k]
  <2>1. /\ b2 \o r \in Seq(Bytes) /\ Len(b2 \o r) = Len(b2) + Len(r)
        /\ \A k \in 1..Len(b2) : (b2 \o r)[k] = b2[k]
        /\ \A k \in 1..Len(r) : (b2 \o r)[Len(b2) + k] = r[k]
    BY <1>5, <1>9, Joined
  <2> QED
    BY <1>1, <1>5, <1>9, <2>1 DEF b3
<1>11. /\ b4 \in Seq(Bytes) /\ Len(b4) = 2 + 2 * NameLen + TimeLen
       /\ \A k \in 1..(2 + 2 * NameLen) : b4[k] = b3[k]
       /\ \A k \in 1..TimeLen : b4[2 + 2 * NameLen + k] = t[k]
  <2>1. /\ b3 \o t \in Seq(Bytes) /\ Len(b3 \o t) = Len(b3) + Len(t)
        /\ \A k \in 1..Len(b3) : (b3 \o t)[k] = b3[k]
        /\ \A k \in 1..Len(t) : (b3 \o t)[Len(b3) + k] = t[k]
    BY <1>5, <1>10, Joined
  <2> QED
    BY <1>1, <1>5, <1>10, <2>1 DEF b4
<1>12. /\ b5 \in Seq(Bytes) /\ Len(b5) = HeaderSize
       /\ \A k \in 1..(2 + 2 * NameLen + TimeLen) : b5[k] = b4[k]
       /\ \A k \in 1..2 : b5[2 + 2 * NameLen + TimeLen + k] = l[k]
  <2>1. /\ b4 \o l \in Seq(Bytes) /\ Len(b4 \o l) = Len(b4) + Len(l)
        /\ \A k \in 1..Len(b4) : (b4 \o l)[k] = b4[k]
        /\ \A k \in 1..Len(l) : (b4 \o l)[Len(b4) + k] = l[k]
    BY <1>6, <1>11, Joined
  <2> QED
    BY <1>1, <1>6, <1>11, <2>1 DEF b5, HeaderSize
<1>13. /\ b \in Seq(Bytes) /\ Len(b) = HeaderSize + Len(p)
       /\ \A k \in 1..HeaderSize : b[k] = b5[k]
       /\ \A k \in 1..Len(p) : b[HeaderSize + k] = p[k]
  BY <1>4, <1>7, <1>12, Joined
<1>14. b[1] = m.type /\ b[2] = 0
  BY <1>1, <1>8, <1>9, <1>10, <1>11, <1>12, <1>13 DEF HeaderSize
<1>15. ASSUME NEW k \in 1..NameLen PROVE b[2 + k] = s[k]
  <2>1. /\ 2 + k \in 1..(2 + NameLen) /\ 2 + k \in 1..(2 + 2 * NameLen)
        /\ 2 + k \in 1..(2 + 2 * NameLen + TimeLen) /\ 2 + k \in 1..HeaderSize
    BY <1>1 DEF HeaderSize
  <2> QED
    BY <1>9, <1>10, <1>11, <1>12, <1>13, <2>1
<1>16. ASSUME NEW k \in 1..NameLen PROVE b[2 + NameLen + k] = r[k]
  <2>1. /\ 2 + NameLen + k \in 1..(2 + 2 * NameLen)
        /\ 2 + NameLen + k \in 1..(2 + 2 * NameLen + TimeLen) /\ 2 + NameLen + k \in 1..HeaderSize
    BY <1>1 DEF HeaderSize
  <2> QED
    BY <1>10, <1>11, <1>12, <1>13, <2>1
<1>17. ASSUME NEW k \in 1..TimeLen PROVE b[2 + 2 * NameLen + k] = t[k]
  <2>1. /\ 2 + 2 * NameLen + k \in 1..(2 + 2 * NameLen + TimeLen)
        /\ 2 + 2 * NameLen + k \in 1..HeaderSize
    BY <1>1 DEF HeaderSize
  <2> QED
    BY <1>11, <1>12, <1>13, <2>1
<1>18. b[HeaderSize - 1] = l[1] /\ b[HeaderSize] = l[2]
  BY <1>1, <1>12, <1>13 DEF HeaderSize
<1> QED
  BY <1>6, <1>13, <1>14, <1>15, <1>16, <1>17, <1>18 DEF s, r, t, p

\* The two bytes of the length hold it.
LEMMA LengthRead ==
  ASSUME NEW n \in 0..MaxPayload
  PROVE  ((n \div Base) % Base) * Base + (n % Base) = n
<1>1. Base \in Nat /\ Base > 0 /\ n \in Nat /\ n < Base * Base
  BY WireAssumption
<1> DEFINE q == n \div Base
<1>2. q \in Nat /\ n = (q * Base) + (n % Base) /\ n % Base \in 0..(Base - 1)
  BY <1>1, LastDigit
<1> HIDE DEF q
<1>3. q < Base
  <2> SUFFICES ASSUME q >= Base PROVE FALSE
    BY <1>1, <1>2
  <2>1. q * Base >= Base * Base
    BY <1>1, <1>2
  <2> QED
    BY <1>1, <1>2, <2>1
<1>4. q % Base = q
  BY <1>1, <1>2, <1>3
<1> QED
  BY <1>2, <1>4 DEF q

\* What precedes the first NUL of a padded name is the name.
LEMMA NameRead ==
  ASSUME NEW s \in Names, NEW c, Len(c) = NameLen - 1,
         \A k \in 1..(NameLen - 1) : c[k] = NulPadded(s)[k]
  PROVE  CString(c) = s
<1>1. NameLen \in Nat \ {0} /\ s \in Seq(Letters) /\ Len(s) \in 0..(NameLen - 1)
  BY WireAssumption DEF Names
<1> DEFINE Ends(k) == (\A j \in 1..k : c[j] # 0) /\ (k < Len(c) => c[k + 1] = 0)
<1>2. \A k \in 1..(NameLen - 1) : c[k] = IF k <= Len(s) THEN s[k] ELSE 0
  <2> SUFFICES ASSUME NEW k \in 1..(NameLen - 1)
               PROVE  c[k] = IF k <= Len(s) THEN s[k] ELSE 0
    OBVIOUS
  <2>1. k \in 1..NameLen
    BY <1>1
  <2> QED
    BY <2>1 DEF NulPadded
<1>3. \A k \in 1..Len(s) : s[k] \in Letters /\ s[k] # 0
  <2>1. \A x \in Letters : x # 0
    BY WireAssumption DEF Letters
  <2>2. \A k \in 1..Len(s) : s[k] \in Letters
    BY <1>1
  <2> QED
    BY <2>1, <2>2
<1>4. \A j \in 1..Len(s) : c[j] = s[j] /\ c[j] # 0
  BY <1>1, <1>2, <1>3
<1>5. Ends(Len(s))
  BY <1>1, <1>2, <1>4
<1>6. ASSUME NEW k \in 0..Len(c), Ends(k) PROVE k = Len(s)
  <2>1. ASSUME k < Len(s) PROVE FALSE
    <3>1. k + 1 \in 1..Len(s) /\ k < Len(c)
      BY <1>1, <2>1
    <3> QED
      BY <1>4, <1>6, <3>1
  <2>2. ASSUME k > Len(s) PROVE FALSE
    <3>1. Len(s) + 1 \in 1..k /\ Len(s) + 1 \in 1..(NameLen - 1) /\ ~(Len(s) + 1 <= Len(s))
      BY <1>1, <2>2
    <3>2. c[Len(s) + 1] = 0
      BY <1>2, <3>1
    <3> QED
      BY <1>6, <3>1, <3>2
  <2> QED
    BY <1>1, <2>1, <2>2
<1> DEFINE n == CHOOSE k \in 0..Len(c) : Ends(k)
<1>7. n = Len(s)
  <2> HIDE DEF Ends
  <2>1. Len(s) \in 0..Len(c)
    BY <1>1
  <2> QED
    BY <1>5, <1>6, <2>1
<1>8. CString(c) = SubSeq(c, 1, n)
  BY DEF CString
<1> HIDE DEF n
<1>9. SubSeq(c, 1, Len(s)) = [k \in 1..Len(s) |-> c[k]]
  BY <1>1
<1>10. [k \in 1..Len(s) |-> c[k]] = [k \in 1..Len(s) |-> s[k]] /\ s = [k \in 1..Len(s) |-> s[k]]
  BY <1>1, <1>4
<1> QED
  BY <1>7, <1>8, <1>9, <1>10

LEMMA FieldOf ==
  ASSUME NEW b \in Seq(Bytes), NEW o \in Nat, NEW w \in Nat, o + w <= Len(b)
  PROVE  /\ Len(Field(b, o, w)) = w
         /\ \A k \in 1..w : Field(b, o, w)[k] = b[o + k]
         /\ Field(b, o, w) = [k \in 1..w |-> b[o + k]]
<1>1. o + 1 \in Nat /\ o + w \in Nat /\ Len(b) \in Nat
  OBVIOUS
<1>2. Field(b, o, w) = [k \in 1..w |-> b[o + k]]
  <2>1. SubSeq(b, o + 1, o + w) = [k \in 1..((o + w) - (o + 1) + 1) |-> b[k + (o + 1) - 1]]
    BY <1>1
  <2>2. (o + w) - (o + 1) + 1 = w /\ \A k \in 1..w : k + (o + 1) - 1 = o + k
    OBVIOUS
  <2> QED
    BY <2>1, <2>2 DEF Field
<1> QED
  BY <1>2

\* unpack_message() undoes pack_message(), for whatever make_message() makes.
LEMMA Unpacked ==
  ASSUME NEW m \in MessageType
  PROVE  unpack_message(pack_message(m)) = m
<1>1. PICK b : b = pack_message(m)
  OBVIOUS
<1>2. /\ NameLen \in Nat \ {0} /\ NameLen - 1 \in Nat /\ TimeLen \in Nat \ {0} /\ MaxPayload \in Nat
  BY WireAssumption
<1>3. /\ m.type \in Bytes /\ m.status = 0 /\ m.sender \in Names /\ m.receiver \in Names
      /\ m.timestamp \in 0..(Weight[TimeLen] - 1)
      /\ m.payload \in Seq(Letters) /\ Len(m.payload) \in 0..MaxPayload
  BY <1>2 DEF MessageType
<1>4. b \in Seq(Bytes) /\ Len(b) = HeaderSize + Len(m.payload) /\ b[1] = m.type /\ b[2] = m.status
  BY <1>1, <1>3, Packed
<1>5. HeaderSize \in Nat /\ Len(b) \in Nat /\ Len(b) >= HeaderSize
  <2>1. Len(m.payload) \in Nat /\ HeaderSize \in Nat
    BY <1>2, <1>3 DEF HeaderSize
  <2> QED
    BY <1>4, <2>1
<1>6. CString(Field(b, 2, NameLen - 1)) = m.sender
  <2>1. 2 + (NameLen - 1) <= Len(b) /\ 2 \in Nat
    BY <1>2, <1>5 DEF HeaderSize
  <2>2. \A k \in 1..NameLen : b[2 + k] = NulPadded(m.sender)[k]
    BY <1>1, Packed
  <2>3. /\ Len(Field(b, 2, NameLen - 1)) = NameLen - 1
        /\ \A k \in 1..(NameLen - 1) : Field(b, 2, NameLen - 1)[k] = b[2 + k]
    BY <1>2, <1>4, <2>1, FieldOf
  <2>4. \A k \in 1..(NameLen - 1) : Field(b, 2, NameLen - 1)[k] = NulPadded(m.sender)[k]
    BY <1>2, <2>2, <2>3
  <2> QED
    BY <1>3, <2>3, <2>4, NameRead
<1>7. CString(Field(b, 2 + NameLen, NameLen - 1)) = m.receiver
  <2>1. (2 + NameLen) + (NameLen - 1) <= Len(b) /\ 2 + NameLen \in Nat
    BY <1>2, <1>5 DEF HeaderSize
  <2>2. \A k \in 1..NameLen : b[2 + NameLen + k] = NulPadded(m.receiver)[k]
    BY <1>1, Packed
  <2>3. /\ Len(Field(b, 2 + NameLen, NameLen - 1)) = NameLen - 1
        /\ \A k \in 1..(NameLen - 1) : Field(b, 2 + NameLen, NameLen - 1)[k] = b[2 + NameLen + k]
    BY <1>2, <1>4, <2>1, FieldOf
  <2>4. \A k \in 1..(NameLen - 1) : Field(b, 2 + NameLen, NameLen - 1)[k] = NulPadded(m.receiver)[k]
    BY <1>2, <2>2, <2>3
  <2> QED
    BY <1>3, <2>3, <2>4, NameRead
<1>8. read_u64_be(Field(b, 2 + 2 * NameLen, TimeLen)) = m.timestamp
  <2>1. (2 + 2 * NameLen) + TimeLen <= Len(b) /\ 2 + 2 * NameLen \in Nat
    BY <1>2, <1>5 DEF HeaderSize
  <2>2. \A k \in 1..TimeLen : b[2 + 2 * NameLen + k] = write_u64_be(m.timestamp)[k]
    BY <1>1, Packed
  <2>3. \A k \in 1..TimeLen : Field(b, 2 + 2 * NameLen, TimeLen)[k] = b[2 + 2 * NameLen + k]
    BY <1>2, <1>4, <2>1, FieldOf
  <2>4. \A k \in 1..TimeLen :
           Field(b, 2 + 2 * NameLen, TimeLen)[k] = (m.timestamp \div Weight[TimeLen - k]) % Base
    BY <2>2, <2>3 DEF write_u64_be
  <2> QED
    BY <1>3, <2>4, TimeRead
<1>9. payload_len(b) = Len(m.payload)
  <2>1. /\ b[HeaderSize - 1] = (Len(m.payload) \div Base) % Base
        /\ b[HeaderSize] = Len(m.payload) % Base
    BY <1>1, Packed
  <2> QED
    BY <1>3, <2>1, LengthRead DEF payload_len
<1>10. Field(b, HeaderSize, Len(m.payload)) = m.payload
  <2>1. HeaderSize \in Nat /\ Len(m.payload) \in Nat /\ HeaderSize + Len(m.payload) <= Len(b)
    BY <1>2, <1>3, <1>4 DEF HeaderSize
  <2>2. \A k \in 1..Len(m.payload) : b[HeaderSize + k] = m.payload[k]
    BY <1>1, Packed
  <2>3. Field(b, HeaderSize, Len(m.payload)) = [k \in 1..Len(m.payload) |-> b[HeaderSize + k]]
    BY <1>4, <2>1, FieldOf
  <2>4. m.payload = [k \in 1..Len(m.payload) |-> m.payload[k]]
    BY <1>3
  <2>5. [k \in 1..Len(m.payload) |-> b[HeaderSize + k]] = [k \in 1..Len(m.payload) |-> m.payload[k]]
    BY <2>2
  <2> QED
    BY <2>3, <2>4, <2>5
<1>11. unpack_message(b) =
         [type |-> m.type, status |-> m.status, sender |-> m.sender, receiver |-> m.receiver,
          timestamp |-> m.timestamp, payload |-> m.payload]
  BY <1>4, <1>6, <1>7, <1>8, <1>9, <1>10 DEF unpack_message
<1>12. m = [type |-> m.type, status |-> m.status, sender |-> m.sender, receiver |-> m.receiver,
            timestamp |-> m.timestamp, payload |-> m.payload]
  BY DEF MessageType
<1> QED
  BY <1>1, <1>11, <1>12

-----------------------------------------------------------------------------
(* The bytes on their way *)

Size(m) == Len(pack_message(m))

LEMMA SizeType ==
  ASSUME NEW m \in MessageType
  PROVE  /\ pack_message(m) \in Seq(Bytes) /\ Size(m) = HeaderSize + Len(m.payload)
         /\ Size(m) \in Nat /\ Size(m) >= HeaderSize /\ Size(m) <= HeaderSize + MaxPayload
         /\ HeaderSize \in Nat /\ HeaderSize > 5 /\ MaxPayload \in Nat
         /\ Len(m.payload) \in 0..MaxPayload
<1>1. pack_message(m) \in Seq(Bytes) /\ Size(m) = HeaderSize + Len(m.payload)
  BY Packed DEF Size
<1>2. Len(m.payload) \in Nat /\ Len(m.payload) <= MaxPayload /\ MaxPayload \in Nat
  BY WireAssumption DEF MessageType
<1>3. HeaderSize \in Nat /\ HeaderSize > 5
  BY WireAssumption DEF HeaderSize
<1> QED
  BY <1>1, <1>2, <1>3

\* pos[k] bytes have been sent when the message s[k] has been.
Starts(pos, s) ==
    /\ pos \in [0..Len(s) -> Nat] /\ pos[0] = 0
    /\ \A k \in 1..Len(s) : pos[k] = pos[k - 1] + Size(s[k])
    /\ \A k \in 0..Len(s) : pos[k] <= pos[Len(s)]

\* The bytes b are those that follow the first n of the messages s, in order and
\* without a gap, and all of them if whole holds.
Carries(b, pos, s, n, whole) ==
    /\ pos[n] + Len(b) <= pos[Len(s)]
    /\ whole => pos[n] + Len(b) = pos[Len(s)]
    /\ \A k \in 1..Len(s) : \A j \in 1..Size(s[k]) : \A x \in 1..Len(b) :
          pos[n] + x = pos[k - 1] + j => b[x] = pack_message(s[k])[j]

LEMMA StartsType ==
  ASSUME NEW s \in Seq(MessageType), NEW pos, Starts(pos, s)
  PROVE  /\ Len(s) \in Nat /\ pos \in [0..Len(s) -> Nat] /\ pos[Len(s)] \in Nat
         /\ \A k \in 0..Len(s) : pos[k] \in Nat
<1>1. Len(s) \in Nat /\ Len(s) \in 0..Len(s)
  OBVIOUS
<1>2. pos \in [0..Len(s) -> Nat]
  BY DEF Starts
<1> QED
  BY <1>1, <1>2

\* Bytes lost at the end leave a prefix.
LEMMA CarriesPrefix ==
  ASSUME NEW s \in Seq(MessageType), NEW pos, Starts(pos, s), NEW n \in 0..Len(s),
         NEW b \in Seq(Bytes), NEW whole, Carries(b, pos, s, n, whole),
         NEW c \in Seq(Bytes), Len(c) <= Len(b), \A x \in 1..Len(c) : c[x] = b[x]
  PROVE  Carries(c, pos, s, n, FALSE)
<1>1. Len(b) \in Nat /\ Len(c) \in Nat /\ Len(s) \in Nat /\ pos[n] \in Nat /\ pos[Len(s)] \in Nat
  <2>1. Len(b) \in Nat /\ Len(c) \in Nat
    OBVIOUS
  <2> QED
    BY <2>1, StartsType
<1>2. pos[n] + Len(c) <= pos[Len(s)]
  BY <1>1 DEF Carries
<1>3. ASSUME NEW k \in 1..Len(s), NEW j \in 1..Size(s[k]), NEW x \in 1..Len(c),
             pos[n] + x = pos[k - 1] + j
      PROVE  c[x] = pack_message(s[k])[j]
  <2>1. x \in 1..Len(b) /\ c[x] = b[x]
    BY <1>1
  <2> QED
    BY <1>3, <2>1 DEF Carries
<1> QED
  BY <1>2, <1>3 DEF Carries

\* A message is sent: its bytes follow those on their way.
LEMMA StartsAppend ==
  ASSUME NEW s \in Seq(MessageType), NEW m \in MessageType, NEW pos, Starts(pos, s)
  PROVE  \E q : /\ Starts(q, Append(s, m)) /\ \A k \in 0..Len(s) : q[k] = pos[k]
                /\ q[Len(s) + 1] = pos[Len(s)] + Size(m)
<1> DEFINE t == Append(s, m)
           q == [k \in 0..(Len(s) + 1) |-> IF k = Len(s) + 1 THEN pos[Len(s)] + Size(m) ELSE pos[k]]
<1>1. /\ t \in Seq(MessageType) /\ Len(t) = Len(s) + 1 /\ t[Len(s) + 1] = m
      /\ \A k \in 1..Len(s) : t[k] = s[k]
  BY AppendProperties
<1>2. Len(s) \in Nat /\ Size(m) \in Nat /\ pos \in [0..Len(s) -> Nat] /\ pos[Len(s)] \in Nat
  BY SizeType, StartsType
<1> HIDE DEF t
<1>3. /\ q \in [0..Len(t) -> Nat] /\ q[Len(s) + 1] = pos[Len(s)] + Size(m)
      /\ \A k \in 0..Len(s) : q[k] = pos[k]
  BY <1>1, <1>2
<1> HIDE DEF q
<1>4. q[0] = 0
  BY <1>2, <1>3 DEF Starts
<1>5. ASSUME NEW k \in 1..Len(t) PROVE q[k] = q[k - 1] + Size(t[k])
  <2>1. CASE k = Len(s) + 1
    <3>1. k - 1 = Len(s) /\ Len(s) \in 0..Len(s)
      BY <1>2, <2>1
    <3> QED
      BY <1>1, <1>3, <2>1, <3>1
  <2>2. CASE k # Len(s) + 1
    <3>1. k \in 1..Len(s) /\ k \in 0..Len(s) /\ k - 1 \in 0..Len(s)
      BY <1>1, <1>2, <2>2
    <3>2. pos[k] = pos[k - 1] + Size(s[k])
      BY <3>1 DEF Starts
    <3> QED
      BY <1>1, <1>3, <3>1, <3>2
  <2> QED
    BY <2>1, <2>2
<1>6. ASSUME NEW k \in 0..Len(t) PROVE q[k] <= q[Len(t)]
  <2>1. q[Len(t)] = pos[Len(s)] + Size(m)
    BY <1>1, <1>3
  <2>2. CASE k = Len(s) + 1
    BY <1>2, <2>1, <2>2, <1>3
  <2>3. CASE k # Len(s) + 1
    <3>1. k \in 0..Len(s)
      BY <1>1, <1>2, <2>3
    <3>2. q[k] = pos[k] /\ pos[k] <= pos[Len(s)] /\ pos[k] \in Nat
      BY <1>2, <1>3, <3>1 DEF Starts
    <3> QED
      BY <1>2, <2>1, <3>2
  <2> QED
    BY <2>2, <2>3
<1>7. Starts(q, t)
  BY <1>3, <1>4, <1>5, <1>6 DEF Starts
<1> QED
  BY <1>3, <1>7 DEF t

LEMMA CarriesAppend ==
  ASSUME NEW s \in Seq(MessageType), NEW m \in MessageType, NEW pos, Starts(pos, s), NEW n \in 0..Len(s),
         NEW b \in Seq(Bytes), NEW whole, Carries(b, pos, s, n, whole),
         NEW q, Starts(q, Append(s, m)), \A k \in 0..Len(s) : q[k] = pos[k],
         q[Len(s) + 1] = pos[Len(s)] + Size(m),
         NEW c \in Seq(Bytes), c = IF whole THEN b \o pack_message(m) ELSE b
  PROVE  Carries(c, q, Append(s, m), n, whole)
<1> DEFINE t == Append(s, m)
           p == pack_message(m)
<1>1. /\ t \in Seq(MessageType) /\ Len(t) = Len(s) + 1 /\ t[Len(s) + 1] = m
      /\ \A k \in 1..Len(s) : t[k] = s[k]
  BY AppendProperties
<1>2. /\ Len(s) \in Nat /\ Size(m) \in Nat /\ pos \in [0..Len(s) -> Nat] /\ pos[Len(s)] \in Nat
      /\ pos[n] \in Nat /\ Len(b) \in Nat /\ p \in Seq(Bytes) /\ Len(p) = Size(m)
  <2>1. Size(m) \in Nat /\ p \in Seq(Bytes) /\ Len(p) = Size(m)
    BY SizeType DEF Size
  <2>2. Len(b) \in Nat
    OBVIOUS
  <2> QED
    BY <2>1, <2>2, StartsType
<1>3. q[n] = pos[n] /\ q[Len(t)] = pos[Len(s)] + Size(m)
  BY <1>1
<1>4. /\ whole => Len(c) = Len(b) + Size(m) /\ \A x \in 1..Size(m) : c[Len(b) + x] = p[x]
      /\ ~whole => c = b
      /\ \A x \in 1..Len(b) : c[x] = b[x]
      /\ Len(c) \in Nat
  <2>1. Len(c) \in Nat
    OBVIOUS
  <2> HIDE DEF p
  <2>2. CASE whole
    <3>1. c = b \o p
      BY <2>2 DEF p
    <3> QED
      BY <1>2, <2>1, <2>2, <3>1, Joined
  <2>3. CASE ~whole
    BY <2>1, <2>3
  <2> QED
    BY <2>2, <2>3
<1> HIDE DEF t, p
<1>5. q[n] + Len(c) <= q[Len(t)] /\ (whole => q[n] + Len(c) = q[Len(t)])
  BY <1>2, <1>3, <1>4 DEF Carries
<1>6. ASSUME NEW k \in 1..Len(t), NEW j \in 1..Size(t[k]), NEW x \in 1..Len(c),
             q[n] + x = q[k - 1] + j
      PROVE  c[x] = pack_message(t[k])[j]
  <2>1. CASE k = Len(s) + 1
    <3>1. k - 1 = Len(s) /\ Len(s) \in 0..Len(s) /\ t[k] = m
      BY <1>1, <1>2, <2>1
    <3>2. pos[n] + x = pos[Len(s)] + j /\ j \in 1..Size(m)
      BY <1>3, <1>6, <3>1
    <3>3. CASE whole
      <4>1. pos[n] + Len(b) = pos[Len(s)]
        BY <3>3 DEF Carries
      <4>2. x \in Int /\ j \in Int
        BY <1>2, <1>4, <3>2
      <4>3. x = Len(b) + j
        <5>1. pos[n] \in Int /\ Len(b) \in Int /\ pos[Len(s)] \in Int /\ pos[n] + x = pos[Len(s)] + j
          BY <1>2, <3>2
        <5> DEFINE a == pos[n]
                   d == pos[Len(s)]
                   e == Len(b)
        <5>2. a \in Int /\ d \in Int /\ e \in Int /\ a + e = d /\ a + x = d + j
          BY <4>1, <5>1
        <5> HIDE DEF a, d, e
        <5>3. x = e + j
          BY <4>2, <5>2
        <5> QED
          BY <5>3 DEF e
      <4> QED
        BY <1>4, <3>1, <3>2, <3>3, <4>3 DEF p
    <3>4. CASE ~whole
      <4>1. pos[n] + Len(b) <= pos[Len(s)] /\ x \in 1..Len(b)
        BY <1>4, <3>4 DEF Carries
      <4> QED
        BY <1>2, <3>2, <4>1
    <3> QED
      BY <3>3, <3>4
  <2>2. CASE k # Len(s) + 1
    <3>1. k \in 1..Len(s) /\ k \in 0..Len(s) /\ k - 1 \in 0..Len(s)
      BY <1>1, <1>2, <2>2
    <3>2. t[k] = s[k] /\ q[k - 1] = pos[k - 1] /\ s[k] \in MessageType
      BY <1>1, <3>1
    <3>3. /\ pos[k] = pos[k - 1] + Size(s[k]) /\ pos[k] <= pos[Len(s)]
          /\ pos[k] \in Nat /\ pos[k - 1] \in Nat /\ Size(s[k]) \in Nat
      BY <1>2, <3>1, <3>2, SizeType DEF Starts
    <3>4. pos[n] + x = pos[k - 1] + j /\ j \in 1..Size(s[k])
      BY <1>3, <1>6, <3>2
    <3>5. x \in 1..Len(b)
      <4>1. CASE whole
        <5>1. pos[n] + Len(b) = pos[Len(s)]
          BY <4>1 DEF Carries
        <5>2. x \in Int /\ x >= 1 /\ j \in Int /\ j <= Size(s[k])
          BY <1>4, <3>3, <3>4
        <5>3. /\ pos[n] \in Int /\ Len(b) \in Int /\ pos[Len(s)] \in Int
              /\ pos[n] + x = pos[k - 1] + j
          BY <1>2, <3>4
        <5>4. x <= Len(b)
          <6> DEFINE a == pos[n]
                     d == pos[Len(s)]
                     e == Len(b)
                     f == pos[k - 1]
                     g == Size(s[k])
          <6>1. /\ a \in Int /\ d \in Int /\ e \in Int /\ f \in Int /\ g \in Int
                /\ a + e = d /\ a + x = f + j /\ f + g <= d /\ j <= g
            BY <3>3, <5>1, <5>2, <5>3
          <6> HIDE DEF a, d, e, f, g
          <6>2. x <= e
            BY <5>2, <6>1
          <6> QED
            BY <6>2 DEF e
        <5> QED
          BY <5>2, <5>3, <5>4
      <4>2. CASE ~whole
        BY <1>4, <4>2
      <4> QED
        BY <4>1, <4>2
    <3>6. c[x] = b[x]
      BY <1>4, <3>5
    <3> QED
      BY <3>1, <3>2, <3>4, <3>5, <3>6 DEF Carries
  <2> QED
    BY <2>1, <2>2
<1>7. Carries(c, q, t, n, whole)
  BY <1>5, <1>6 DEF Carries
<1> QED
  BY <1>7 DEF t

\* The bytes on their way begin with those of the next message.
LEMMA CarriesFirst ==
  ASSUME NEW s \in Seq(MessageType), NEW pos, Starts(pos, s), NEW n \in 0..Len(s),
         NEW b \in Seq(Bytes), NEW whole, Carries(b, pos, s, n, whole), b # <<>>
  PROVE  /\ n + 1 \in 1..Len(s) /\ s[n + 1] \in MessageType
         /\ \A j \in 1..Size(s[n + 1]) : j <= Len(b) => b[j] = pack_message(s[n + 1])[j]
<1>1. Len(b) \in Nat /\ Len(b) > 0 /\ Len(s) \in Nat /\ pos[n] \in Nat /\ pos[Len(s)] \in Nat
  <2>1. Len(b) \in Nat /\ Len(b) > 0
    OBVIOUS
  <2> QED
    BY <2>1, StartsType
<1>2. n # Len(s)
  <2> SUFFICES ASSUME n = Len(s) PROVE FALSE
    OBVIOUS
  <2>1. pos[n] + Len(b) <= pos[n]
    BY DEF Carries
  <2> QED
    BY <1>1, <2>1
<1>3. n + 1 \in 1..Len(s) /\ s[n + 1] \in MessageType /\ (n + 1) - 1 = n
  BY <1>1, <1>2
<1>4. ASSUME NEW j \in 1..Size(s[n + 1]), j <= Len(b) PROVE b[j] = pack_message(s[n + 1])[j]
  <2>1. Size(s[n + 1]) \in Nat
    BY <1>3, SizeType
  <2>2. j \in 1..Len(b) /\ pos[n] + j = pos[(n + 1) - 1] + j
    BY <1>1, <1>3, <1>4, <2>1
  <2> QED
    BY <1>3, <2>2 DEF Carries
<1> QED
  BY <1>3, <1>4

\* The next message has been taken off them.
LEMMA CarriesRest ==
  ASSUME NEW s \in Seq(MessageType), NEW pos, Starts(pos, s), NEW n \in 0..Len(s), n + 1 \in 1..Len(s),
         NEW b \in Seq(Bytes), NEW whole, Carries(b, pos, s, n, whole),
         NEW c \in Seq(Bytes), Len(b) = Size(s[n + 1]) + Len(c),
         \A x \in 1..Len(c) : c[x] = b[Size(s[n + 1]) + x]
  PROVE  Carries(c, pos, s, n + 1, whole)
<1> DEFINE w == Size(s[n + 1])
           l == Len(c)
           p == pos[n]
           e == pos[Len(s)]
<1>1. w \in Nat /\ l \in Nat /\ p \in Nat /\ e \in Nat /\ Len(b) = w + l
  <2>1. s[n + 1] \in MessageType /\ l \in Nat
    OBVIOUS
  <2> QED
    BY <2>1, SizeType, StartsType
<1>2. pos[n + 1] = p + w
  <2>1. (n + 1) - 1 = n
    OBVIOUS
  <2> QED
    BY <2>1 DEF Starts
<1>3. p + Len(b) <= e /\ (whole => p + Len(b) = e)
  BY DEF Carries
<1> HIDE DEF w, l, p, e
<1>4. p + w + l <= e /\ (whole => p + w + l = e)
  <2>1. p + (w + l) = p + w + l
    BY <1>1
  <2> QED
    BY <1>1, <1>3, <2>1
<1>5. ASSUME NEW k \in 1..Len(s), NEW j \in 1..Size(s[k]), NEW x \in 1..l, p + w + x = pos[k - 1] + j
      PROVE  c[x] = pack_message(s[k])[j]
  <2>1. w + x \in 1..(w + l) /\ p + (w + x) = p + w + x
    BY <1>1
  <2>2. w + x \in 1..Len(b) /\ pos[n] + (w + x) = pos[k - 1] + j
    BY <1>1, <1>5, <2>1 DEF p
  <2>3. b[w + x] = pack_message(s[k])[j]
    BY <2>2 DEF Carries
  <2> QED
    BY <2>3 DEF w, l
<1> QED
  BY <1>2, <1>4, <1>5 DEF Carries, l, e

-----------------------------------------------------------------------------
(* The inductive invariant *)

\* The bytes that can still reach the receiver.
Stream == in \o net \o (IF cut THEN <<>> ELSE out)

Shape ==
    /\ sent \in Seq(MessageType) /\ got \in Seq(MessageType) /\ Len(got) <= Len(sent)
    /\ out \in Seq(Bytes) /\ net \in Seq(Bytes) /\ in \in Seq(Bytes)
    /\ Len(out) <= HeaderSize + MaxPayload /\ Len(net) <= NetCap
    /\ closed \in BOOLEAN /\ cut \in BOOLEAN /\ failed \in BOOLEAN

\* They are the bytes of the messages not yet received.
Transit ==
    /\ failed => in = <<>>
    /\ ~failed => \E pos : Starts(pos, sent) /\ Carries(Stream, pos, sent, Len(got), ~cut)

\* recv_message() reads no byte of the message after the one it is at.
InFits == in # <<>> => /\ Len(got) + 1 \in 1..Len(sent)
                       /\ Len(in) <= Size(sent[Len(got) + 1])

IInv == Shape /\ Transit /\ InFits

LEMMA StreamType ==
  ASSUME Shape
  PROVE  /\ Stream \in Seq(Bytes)
         /\ \A j \in 1..Len(in) : Stream[j] = in[j]
         /\ Len(in) \in Nat /\ Len(net) \in Nat /\ Len(out) \in Nat
         /\ Len(sent) \in Nat /\ Len(got) \in Nat /\ Len(got) \in 0..Len(sent)
         /\ Len(Stream) = Len(in) + Len(net) + (IF cut THEN 0 ELSE Len(out))
<1> DEFINE o == IF cut THEN <<>> ELSE out
           t == in \o net
<1>1. in \in Seq(Bytes) /\ net \in Seq(Bytes) /\ out \in Seq(Bytes)
  BY DEF Shape
<1>2. /\ Len(in) \in Nat /\ Len(net) \in Nat /\ Len(out) \in Nat
      /\ Len(sent) \in Nat /\ Len(got) \in Nat /\ Len(got) \in 0..Len(sent)
  <2>1. Len(in) \in Nat /\ Len(net) \in Nat /\ Len(out) \in Nat
    BY <1>1
  <2>2. Len(sent) \in Nat /\ Len(got) \in Nat /\ Len(got) <= Len(sent)
    BY DEF Shape
  <2> QED
    BY <2>1, <2>2
<1>3. o \in Seq(Bytes) /\ Len(o) = IF cut THEN 0 ELSE Len(out)
  BY <1>1
<1> HIDE DEF o
<1>4. t \in Seq(Bytes) /\ Len(t) = Len(in) + Len(net) /\ \A j \in 1..Len(in) : t[j] = in[j]
  BY <1>1, Joined
<1> HIDE DEF t
<1>5. Stream = t \o o
  BY DEF Stream, t, o
<1>6. Stream \in Seq(Bytes) /\ Len(Stream) = Len(t) + Len(o) /\ \A j \in 1..Len(t) : Stream[j] = t[j]
  BY <1>3, <1>4, <1>5, Joined
<1>7. \A j \in 1..Len(in) : j \in 1..Len(t)
  BY <1>2, <1>4
<1> QED
  BY <1>2, <1>3, <1>4, <1>6, <1>7

\* What recv_message() has read is the beginning of the next message.
LEMMA HeadRead ==
  ASSUME IInv, in # <<>>, NEW m, m = sent[Len(got) + 1]
  PROVE  /\ ~failed /\ m \in MessageType /\ Len(in) <= Size(m)
         /\ \A j \in 1..Len(in) : in[j] = pack_message(m)[j]
         /\ Len(in) >= HeaderSize => payload_len(in) = Len(m.payload)
<1>1. Shape /\ Transit /\ InFits
  BY DEF IInv
<1>2. ~failed
  BY <1>1 DEF Transit
<1>3. PICK pos : Starts(pos, sent) /\ Carries(Stream, pos, sent, Len(got), ~cut)
  BY <1>1, <1>2 DEF Transit
<1>4. Len(in) \in Nat /\ Len(net) \in Nat /\ Len(out) \in Nat /\ Len(in) > 0
  <2>1. Len(in) # 0
    BY <1>1 DEF Shape
  <2> QED
    BY <1>1, <2>1, StreamType
<1>5. Len(Stream) \in Nat /\ Len(Stream) >= Len(in)
  <2>1. Len(Stream) = Len(in) + Len(net) + (IF cut THEN 0 ELSE Len(out))
    BY <1>1, StreamType
  <2>2. CASE cut
    BY <1>4, <2>1, <2>2
  <2>3. CASE ~cut
    BY <1>4, <2>1, <2>3
  <2> QED
    BY <2>2, <2>3
<1>6. Stream \in Seq(Bytes) /\ Stream # <<>> /\ sent \in Seq(MessageType) /\ Len(got) \in 0..Len(sent)
  BY <1>1, <1>4, <1>5, StreamType DEF Shape
<1>7. /\ m \in MessageType
      /\ \A j \in 1..Size(m) : j <= Len(Stream) => Stream[j] = pack_message(m)[j]
  BY <1>3, <1>6, CarriesFirst
<1>8. Len(in) <= Size(m) /\ Size(m) \in Nat
  BY <1>1, <1>7, SizeType DEF InFits
<1>9. ASSUME NEW j \in 1..Len(in) PROVE in[j] = pack_message(m)[j]
  <2>1. j \in 1..Size(m) /\ j <= Len(Stream)
    BY <1>4, <1>5, <1>8
  <2>2. Stream[j] = in[j]
    BY <1>1, StreamType
  <2> QED
    BY <1>7, <2>1, <2>2
<1>10. ASSUME Len(in) >= HeaderSize PROVE payload_len(in) = Len(m.payload)
  <2>1. HeaderSize \in Nat /\ HeaderSize > 5 /\ Len(m.payload) \in 0..MaxPayload
    BY <1>7, SizeType
  <2>2. HeaderSize - 1 \in 1..Len(in) /\ HeaderSize \in 1..Len(in)
    BY <1>4, <1>10, <2>1
  <2>3. /\ in[HeaderSize - 1] = (Len(m.payload) \div Base) % Base
        /\ in[HeaderSize] = Len(m.payload) % Base
    BY <1>7, <1>9, <2>2, Packed
  <2> QED
    BY <2>1, <2>3, LengthRead DEF payload_len
<1> QED
  BY <1>2, <1>7, <1>8, <1>9, <1>10

-----------------------------------------------------------------------------
(* The invariant is kept *)

LEMMA BytesConcat ==
  ASSUME NEW a \in Seq(Bytes), NEW b \in Seq(Bytes), NEW c \in Seq(Bytes)
  PROVE  (a \o b) \o c = a \o (b \o c)
  BY ConcatAssociative

LEMMA Split ==
  ASSUME NEW b \in Seq(Bytes), NEW n \in 1..Len(b)
  PROVE  /\ SubSeq(b, 1, n) \in Seq(Bytes) /\ Len(SubSeq(b, 1, n)) = n
         /\ SubSeq(b, n + 1, Len(b)) \in Seq(Bytes) /\ Len(SubSeq(b, n + 1, Len(b))) = Len(b) - n
         /\ SubSeq(b, 1, n) \o SubSeq(b, n + 1, Len(b)) = b
<1>1. Len(b) \in Nat /\ n \in Nat /\ n <= Len(b)
  OBVIOUS
<1>2. 1 \in 1..(Len(b) + 1) /\ n \in (1 - 1)..Len(b) /\ Len(b) \in n..Len(b)
  BY <1>1
<1>3. SubSeq(b, 1, n) \o SubSeq(b, n + 1, Len(b)) = SubSeq(b, 1, Len(b))
  BY <1>2, ConcatAdjacentSubSeq
<1>4. SubSeq(b, 1, n) \in Seq(Bytes) /\ Len(SubSeq(b, 1, n)) = n
  BY <1>1
<1>5. SubSeq(b, n + 1, Len(b)) \in Seq(Bytes) /\ Len(SubSeq(b, n + 1, Len(b))) = Len(b) - n
  <2>1. n + 1 \in 1..(Len(b) + 1)
    BY <1>1
  <2> QED
    BY <1>1, <2>1, SubSeqProperties
<1> QED
  BY <1>3, <1>4, <1>5, SubSeqFull

LEMMA StreamNext ==
  ASSUME Shape'
  PROVE  Stream' \in Seq(Bytes)
<1> DEFINE o == IF cut' THEN <<>> ELSE out'
<1>1. in' \in Seq(Bytes) /\ net' \in Seq(Bytes) /\ o \in Seq(Bytes)
  BY DEF Shape
<1>2. Stream' = (in' \o net') \o o
  BY DEF Stream
<1> HIDE DEF o
<1>3. in' \o net' \in Seq(Bytes)
  BY <1>1, Joined
<1> QED
  BY <1>1, <1>2, <1>3, Joined

LEMMA TransitNext ==
  ASSUME failed' => in' = <<>>,
         ~(failed') => \E pos : /\ Starts(pos, sent')
                               /\ Carries(Stream', pos, sent', Len(got'), ~(cut'))
  PROVE  Transit'
<1>1. \A pos : Starts(pos, sent)' <=> Starts(pos, sent')
  BY DEF Starts, Size
<1>2. \A pos : Carries(Stream, pos, sent, Len(got), ~cut)'
                 <=> Carries(Stream', pos, sent', Len(got'), ~(cut'))
  BY DEF Carries, Size
<1> QED
  BY <1>1, <1>2 DEF Transit

\* A step that moves bytes, or loses the last of them.
LEMMA StreamKept ==
  ASSUME Shape, Transit, Shape', sent' = sent, got' = got, failed' = failed, failed => in' = <<>>,
         \/ cut' = cut /\ Stream' = Stream
         \/ cut' /\ Len(Stream') <= Len(Stream) /\ \A x \in 1..Len(Stream') : Stream'[x] = Stream[x]
  PROVE  Transit'
<1> SUFFICES ASSUME ~failed
             PROVE  \E pos : Starts(pos, sent) /\ Carries(Stream', pos, sent, Len(got), ~(cut'))
  BY TransitNext
<1>1. PICK pos : Starts(pos, sent) /\ Carries(Stream, pos, sent, Len(got), ~cut)
  BY DEF Transit
<1>2. CASE cut' = cut /\ Stream' = Stream
  BY <1>1, <1>2
<1>3. CASE cut' /\ Len(Stream') <= Len(Stream) /\ \A x \in 1..Len(Stream') : Stream'[x] = Stream[x]
  <2>1. /\ Stream \in Seq(Bytes) /\ Stream' \in Seq(Bytes)
        /\ sent \in Seq(MessageType) /\ Len(got) \in 0..Len(sent)
    BY StreamType, StreamNext DEF Shape
  <2>2. Carries(Stream', pos, sent, Len(got), FALSE)
    BY <1>1, <1>3, <2>1, CarriesPrefix
  <2> QED
    BY <1>1, <1>3, <2>2
<1> QED
  BY <1>2, <1>3

LEMMA SendKeeps ==
  ASSUME IInv, send_message
  PROVE  IInv'
<1>1. Shape /\ Transit /\ InFits /\ out = <<>>
  BY DEF IInv, send_message
<1>2. PICK i \in Inputs : sent' = Append(sent, make_message(i)) /\ out' = pack_message(make_message(i))
  BY DEF send_message
<1>3. UNCHANGED <<closed, cut, net, in, failed, got>>
  BY DEF send_message
<1> DEFINE m == make_message(i)
<1>4. m \in MessageType
  BY MadeType
<1> HIDE DEF m
<1>5. sent' = Append(sent, m) /\ out' = pack_message(m)
  BY <1>2 DEF m
<1>6. /\ out' \in Seq(Bytes) /\ Len(out') <= HeaderSize + MaxPayload
  BY <1>4, <1>5, SizeType DEF Size
<1>7. /\ sent \in Seq(MessageType) /\ sent' \in Seq(MessageType) /\ Len(sent') = Len(sent) + 1
      /\ \A k \in 1..Len(sent) : sent'[k] = sent[k]
      /\ Len(sent) \in Nat /\ Len(got) \in Nat /\ Len(got) \in 0..Len(sent)
  BY <1>1, <1>4, <1>5, AppendProperties, StreamType DEF Shape
<1>8. Len(got') <= Len(sent')
  BY <1>3, <1>7
<1>9. Shape'
  BY <1>1, <1>3, <1>6, <1>7, <1>8 DEF Shape
<1>10. InFits'
  <2>1. Len(got) + 1 \in 1..Len(sent) => Len(got) + 1 \in 1..Len(sent') /\ sent'[Len(got) + 1] = sent[Len(got) + 1]
    BY <1>7
  <2> QED
    BY <1>1, <1>3, <2>1 DEF InFits, Size
<1>11. Transit'
  <2> DEFINE t == in \o net
  <2>1. t \in Seq(Bytes)
    BY <1>1, Joined DEF Shape
  <2>2. Stream = t \o <<>> /\ Stream' = t \o (IF cut THEN <<>> ELSE pack_message(m))
    BY <1>1, <1>3, <1>5 DEF Stream
  <2> HIDE DEF t
  <2>3. t \o <<>> = t
    BY <2>1, ConcatEmptySeq
  <2>4. Stream = t /\ Stream' = (IF ~cut THEN t \o pack_message(m) ELSE t)
    BY <2>2, <2>3
  <2>5. Stream' \in Seq(Bytes)
    BY <1>9, StreamNext
  <2>6. CASE failed
    BY <1>1, <1>3, <2>6 DEF Transit
  <2>7. CASE ~failed
    <3>1. PICK pos : Starts(pos, sent) /\ Carries(t, pos, sent, Len(got), ~cut)
      BY <1>1, <2>4, <2>7 DEF Transit
    <3>2. PICK q : /\ Starts(q, Append(sent, m)) /\ \A k \in 0..Len(sent) : q[k] = pos[k]
                   /\ q[Len(sent) + 1] = pos[Len(sent)] + Size(m)
      BY <1>4, <1>7, <3>1, StartsAppend
    <3>3. Carries(Stream', q, Append(sent, m), Len(got), ~cut)
      BY <1>4, <1>7, <2>1, <2>4, <2>5, <3>1, <3>2, CarriesAppend
    <3>4. \E p : Starts(p, sent') /\ Carries(Stream', p, sent', Len(got'), ~(cut'))
      BY <1>3, <1>5, <3>2, <3>3
    <3> QED
      BY <1>3, <2>7, <3>4, TransitNext
  <2> QED
    BY <2>6, <2>7
<1> QED
  BY <1>9, <1>10, <1>11 DEF IInv

LEMMA WriteKeeps ==
  ASSUME IInv, send_write
  PROVE  IInv'
<1>1. Shape /\ Transit /\ InFits /\ ~cut /\ cut' = cut
  BY DEF IInv, send_write, Write
<1>2. PICK n \in 1..Len(out) : /\ Len(net) + n <= NetCap
                               /\ net' = net \o SubSeq(out, 1, n)
                               /\ out' = SubSeq(out, n + 1, Len(out))
  BY DEF send_write, Write
<1>3. UNCHANGED <<sent, closed, cut, in, failed, got>>
  BY DEF send_write, Write
<1> DEFINE a == SubSeq(out, 1, n)
           d == SubSeq(out, n + 1, Len(out))
<1>4. in \in Seq(Bytes) /\ net \in Seq(Bytes) /\ out \in Seq(Bytes)
  BY <1>1 DEF Shape
<1>5. a \in Seq(Bytes) /\ Len(a) = n /\ d \in Seq(Bytes) /\ Len(d) = Len(out) - n /\ a \o d = out
  BY <1>4, Split
<1>6. net' = net \o a /\ out' = d
  BY <1>2
<1> HIDE DEF a, d
<1>7. /\ Len(net) \in Nat /\ Len(out) \in Nat /\ n \in Nat /\ n >= 1 /\ NetCap \in Nat
      /\ HeaderSize \in Nat /\ MaxPayload \in Nat
  BY <1>1, StreamType, WireAssumption DEF HeaderSize
<1>8. net' \in Seq(Bytes) /\ Len(net') = Len(net) + n
  BY <1>4, <1>5, <1>6, Joined
<1>9. Len(net') <= NetCap /\ Len(out') <= HeaderSize + MaxPayload
  BY <1>1, <1>2, <1>5, <1>6, <1>7, <1>8 DEF Shape
<1>10. Shape'
  BY <1>1, <1>3, <1>5, <1>6, <1>8, <1>9 DEF Shape
<1>11. Stream' = Stream
  <2>1. Stream = (in \o net) \o (a \o d) /\ Stream' = (in \o (net \o a)) \o d
    <3>1. Stream = (in \o net) \o out /\ Stream' = (in' \o net') \o out'
      BY <1>1 DEF Stream
    <3> QED
      BY <1>3, <1>5, <1>6, <3>1
  <2>2. (in \o net) \o a = in \o (net \o a)
    BY <1>4, <1>5, BytesConcat, Zenon
  <2>3. in \o net \in Seq(Bytes)
    BY <1>4, Joined
  <2>4. ((in \o net) \o a) \o d = (in \o net) \o (a \o d)
    BY <1>5, <2>3, BytesConcat, Zenon
  <2> QED
    BY <2>1, <2>2, <2>4
<1>12. Transit'
  BY <1>1, <1>3, <1>10, <1>11, StreamKept DEF Transit
<1>13. InFits'
  BY <1>1, <1>3 DEF InFits, Size
<1> QED
  BY <1>10, <1>12, <1>13 DEF IInv

LEMMA LossKeeps ==
  ASSUME IInv, send_fails \/ send_close \/ break
  PROVE  IInv'
<1>1. Shape /\ Transit /\ InFits /\ cut \in BOOLEAN
  BY DEF IInv, Shape
<1>2. UNCHANGED <<sent, in, failed, got>>
  BY DEF send_fails, send_close, break
<1>3. /\ out' \in {out, <<>>} /\ net' \in {net, <<>>} /\ closed' \in {closed, TRUE}
      /\ \/ cut' = cut /\ net' = net /\ (out' = out \/ cut)
         \/ cut' = TRUE /\ cut = FALSE /\ out' = out
  BY <1>1 DEF send_fails, send_close, break
<1>4. in \in Seq(Bytes) /\ net \in Seq(Bytes) /\ out \in Seq(Bytes)
  BY <1>1 DEF Shape
<1>5. /\ Len(net) \in Nat /\ Len(out) \in Nat /\ Len(in) \in Nat /\ NetCap \in Nat
      /\ HeaderSize \in Nat /\ MaxPayload \in Nat
  BY <1>1, StreamType, WireAssumption DEF HeaderSize
<1>6. /\ out' \in Seq(Bytes) /\ net' \in Seq(Bytes)
      /\ Len(out') <= HeaderSize + MaxPayload /\ Len(net') <= NetCap
  <2>1. <<>> \in Seq(Bytes) /\ Len(<<>>) = 0
    OBVIOUS
  <2>2. Len(out) <= HeaderSize + MaxPayload /\ Len(net) <= NetCap
    BY <1>1 DEF Shape
  <2>3. 0 <= HeaderSize + MaxPayload /\ 0 <= NetCap
    BY <1>5
  <2> QED
    BY <1>3, <1>4, <2>1, <2>2, <2>3
<1>7. Shape'
  BY <1>1, <1>2, <1>3, <1>6 DEF Shape
<1>8. CASE cut' = cut /\ net' = net /\ (out' = out \/ cut)
  <2>1. Stream' = Stream
    BY <1>2, <1>8 DEF Stream
  <2>2. Transit'
    BY <1>1, <1>2, <1>7, <1>8, <2>1, StreamKept DEF Transit
  <2> QED
    BY <1>1, <1>2, <1>7, <2>2 DEF IInv, InFits, Size
<1>9. CASE cut' = TRUE /\ cut = FALSE /\ out' = out
  <2> DEFINE t == in \o net
             v == in \o net'
  <2>1. /\ t \in Seq(Bytes) /\ Len(t) = Len(in) + Len(net)
        /\ v \in Seq(Bytes) /\ Len(v) = Len(in) + Len(net')
    BY <1>4, <1>6, Joined
  <2>2. Len(v) <= Len(t) /\ \A x \in 1..Len(v) : v[x] = t[x]
    <3>1. CASE net' = net
      BY <2>1, <3>1
    <3>2. CASE net' = <<>>
      <4>1. v = in
        BY <1>4, <3>2, ConcatEmptySeq
      <4>2. \A x \in 1..Len(in) : t[x] = in[x]
        BY <1>4, Joined
      <4> HIDE DEF t, v
      <4> QED
        BY <1>5, <2>1, <4>1, <4>2
    <3> QED
      BY <1>3, <3>1, <3>2
  <2>3. Stream = t \o out /\ Stream' = v \o <<>>
    BY <1>2, <1>9 DEF Stream
  <2> HIDE DEF t, v
  <2>4. v \o <<>> = v
    BY <2>1, ConcatEmptySeq
  <2>5. Len(t \o out) = Len(t) + Len(out) /\ \A x \in 1..Len(t) : (t \o out)[x] = t[x]
    BY <1>4, <2>1, Joined
  <2>6. Len(t) \in Nat /\ Len(v) \in Nat
    BY <2>1
  <2>7. Len(v) <= Len(t) + Len(out) /\ \A x \in 1..Len(v) : x \in 1..Len(t)
    BY <1>5, <2>2, <2>6
  <2>8. Len(Stream') <= Len(Stream) /\ \A x \in 1..Len(Stream') : Stream'[x] = Stream[x]
    BY <2>2, <2>3, <2>4, <2>5, <2>7
  <2>9. Transit'
    BY <1>1, <1>2, <1>7, <1>9, <2>8, StreamKept DEF Transit
  <2> QED
    BY <1>1, <1>2, <1>7, <2>9 DEF IInv, InFits, Size
<1> QED
  BY <1>3, <1>8, <1>9

\* recv_message() reads on: it asks for no more than the message has.
LEMMA ReadKeeps ==
  ASSUME IInv, recv_read
  PROVE  IInv'
<1>1. Shape /\ Transit /\ InFits /\ ~failed
  BY DEF IInv, recv_read
<1>2. PICK n \in 1..Len(net) : /\ Len(in) + n <= Wanted(in)
                               /\ in' = in \o SubSeq(net, 1, n)
                               /\ net' = SubSeq(net, n + 1, Len(net))
  BY DEF recv_read
<1>3. UNCHANGED <<sent, out, closed, cut, failed, got>>
  BY DEF recv_read
<1> DEFINE a == SubSeq(net, 1, n)
           d == SubSeq(net, n + 1, Len(net))
           o == IF cut THEN <<>> ELSE out
           m == sent[Len(got) + 1]
<1>4. in \in Seq(Bytes) /\ net \in Seq(Bytes) /\ out \in Seq(Bytes) /\ o \in Seq(Bytes)
  BY <1>1 DEF Shape
<1>5. a \in Seq(Bytes) /\ Len(a) = n /\ d \in Seq(Bytes) /\ Len(d) = Len(net) - n /\ a \o d = net
  BY <1>4, Split
<1>6. in' = in \o a /\ net' = d
  BY <1>2
<1> HIDE DEF a, d
<1>7. /\ Len(net) \in Nat /\ Len(in) \in Nat /\ Len(out) \in Nat /\ n \in Nat /\ n >= 1 /\ n <= Len(net)
      /\ NetCap \in Nat
  BY <1>1, StreamType, WireAssumption
<1>8. in' \in Seq(Bytes) /\ Len(in') = Len(in) + n
  BY <1>4, <1>5, <1>6, Joined
<1>9. Len(net') <= NetCap
  <2>1. Len(net) <= NetCap /\ Len(net') = Len(net) - n
    BY <1>1, <1>5, <1>6 DEF Shape
  <2> QED
    BY <1>7, <2>1
<1>10. Shape'
  BY <1>1, <1>3, <1>5, <1>6, <1>8, <1>9 DEF Shape
<1>11. Stream' = Stream
  <2>1. Stream = (in \o net) \o o /\ Stream' = (in' \o net') \o o
    BY <1>3 DEF Stream
  <2>2. (in \o a) \o d = in \o (a \o d)
    BY <1>4, <1>5, BytesConcat, Zenon
  <2> HIDE DEF o
  <2> QED
    BY <1>5, <1>6, <2>1, <2>2
<1>12. Transit'
  BY <1>1, <1>3, <1>10, <1>11, StreamKept
<1>13. Len(got) + 1 \in 1..Len(sent) /\ m \in MessageType
  <2>1. PICK pos : Starts(pos, sent) /\ Carries(Stream, pos, sent, Len(got), ~cut)
    BY <1>1 DEF Transit
  <2>2. Len(Stream) = Len(in) + Len(net) + (IF cut THEN 0 ELSE Len(out)) /\ Stream \in Seq(Bytes)
    BY <1>1, StreamType
  <2>3. Len(Stream) # 0
    <3>1. CASE cut
      BY <1>7, <2>2, <3>1
    <3>2. CASE ~cut
      BY <1>7, <2>2, <3>2
    <3> QED
      BY <3>1, <3>2
  <2>4. Stream # <<>> /\ sent \in Seq(MessageType) /\ Len(got) \in 0..Len(sent)
    BY <1>1, <2>3, StreamType DEF Shape
  <2> QED
    BY <2>1, <2>2, <2>4, CarriesFirst
<1> HIDE DEF m
<1>14. Wanted(in) <= Size(m) /\ Wanted(in) \in Nat
  <2>1. /\ HeaderSize \in Nat /\ Size(m) = HeaderSize + Len(m.payload) /\ Len(m.payload) \in Nat
        /\ Size(m) \in Nat /\ HeaderSize <= Size(m)
    BY <1>13, SizeType
  <2>2. CASE Len(in) < HeaderSize
    BY <2>1, <2>2 DEF Wanted
  <2>3. CASE ~(Len(in) < HeaderSize)
    <3>1. Len(in) >= HeaderSize /\ HeaderSize > 5
      BY <1>7, <1>13, <2>1, <2>3, SizeType
    <3>2. in # <<>>
      BY <1>7, <2>1, <3>1
    <3>3. payload_len(in) = Len(m.payload)
      BY <3>1, <3>2, HeadRead DEF m
    <3> QED
      BY <2>1, <2>3, <3>3 DEF Wanted
  <2> QED
    BY <2>2, <2>3
<1>15. Len(in') <= Size(m)
  <2>1. Size(m) \in Nat
    BY <1>13, SizeType
  <2> QED
    BY <1>2, <1>7, <1>8, <1>14, <2>1
<1>16. InFits'
  BY <1>3, <1>13, <1>15 DEF InFits, Size, m
<1> QED
  BY <1>10, <1>12, <1>16 DEF IInv

\* A message that recv_message() returns is the next one that was sent.
LEMMA Returned ==
  ASSUME IInv, recv_returns
  PROVE  /\ Len(got) + 1 \in 1..Len(sent) /\ sent[Len(got) + 1] \in MessageType
         /\ Len(in) = Size(sent[Len(got) + 1]) /\ ~failed
         /\ got' = Append(got, sent[Len(got) + 1])
<1> DEFINE m == sent[Len(got) + 1]
<1>1. Shape /\ Transit /\ InFits
  BY DEF IInv
<1>2. /\ Len(in) >= HeaderSize /\ Len(in) >= Wanted(in)
      /\ got' = Append(got, unpack_message(in))
  BY DEF recv_returns
<1>3. HeaderSize \in Nat /\ HeaderSize > 5 /\ Len(in) \in Nat /\ in \in Seq(Bytes)
  BY <1>1, StreamType, WireAssumption DEF HeaderSize, Shape
<1>4. in # <<>>
  BY <1>2, <1>3
<1>5. /\ ~failed /\ m \in MessageType /\ Len(in) <= Size(m)
      /\ \A j \in 1..Len(in) : in[j] = pack_message(m)[j]
      /\ payload_len(in) = Len(m.payload)
  BY <1>2, <1>4, HeadRead
<1>6. Len(got) + 1 \in 1..Len(sent)
  BY <1>1, <1>4 DEF InFits
<1> HIDE DEF m
<1>7. /\ pack_message(m) \in Seq(Bytes) /\ Len(pack_message(m)) = Size(m)
      /\ Size(m) = HeaderSize + Len(m.payload) /\ Size(m) \in Nat
  BY <1>5, SizeType DEF Size
<1>8. Wanted(in) = Size(m)
  <2>1. ~(Len(in) < HeaderSize)
    BY <1>2, <1>3
  <2> QED
    BY <1>5, <1>7, <2>1 DEF Wanted
<1>9. Len(in) = Size(m)
  BY <1>2, <1>3, <1>5, <1>7, <1>8
<1>10. in = pack_message(m)
  <2> DEFINE p == pack_message(m)
  <2>1. p \in Seq(Bytes) /\ Len(p) = Len(in) /\ \A j \in 1..Len(in) : in[j] = p[j]
    BY <1>5, <1>7, <1>9
  <2> HIDE DEF p
  <2>2. in = p
    BY <1>3, <2>1, SeqEqual
  <2> QED
    BY <2>2 DEF p
<1>11. unpack_message(in) = m
  BY <1>5, <1>10, Unpacked
<1> QED
  BY <1>2, <1>5, <1>6, <1>9, <1>11 DEF m

LEMMA ReturnKeeps ==
  ASSUME IInv, recv_returns
  PROVE  IInv'
<1> DEFINE m == sent[Len(got) + 1]
           o == IF cut THEN <<>> ELSE out
           c == net \o o
<1>1. Shape /\ Transit /\ InFits
  BY DEF IInv
<1>2. in' = <<>> /\ UNCHANGED <<sent, out, closed, cut, net, failed>>
  BY DEF recv_returns
<1>3. /\ Len(got) + 1 \in 1..Len(sent) /\ m \in MessageType /\ Len(in) = Size(m) /\ ~failed
      /\ got' = Append(got, m)
  BY Returned
<1>4. Len(sent) \in Nat /\ Len(got) \in Nat /\ Len(got) \in 0..Len(sent)
  BY <1>1, StreamType
<1> HIDE DEF m
<1>5. got' \in Seq(MessageType) /\ Len(got') = Len(got) + 1
  BY <1>1, <1>3, AppendProperties DEF Shape
<1>6. Len(got') <= Len(sent)
  BY <1>3, <1>4, <1>5
<1>7. in' \in Seq(Bytes)
  BY <1>2
<1>8. Shape'
  BY <1>1, <1>2, <1>5, <1>6, <1>7 DEF Shape
<1>9. in \in Seq(Bytes) /\ net \in Seq(Bytes) /\ o \in Seq(Bytes) /\ sent \in Seq(MessageType)
  BY <1>1 DEF Shape
<1>10. Stream = (in \o net) \o o /\ Stream' = (<<>> \o net) \o o
  BY <1>2 DEF Stream
<1> HIDE DEF o
<1>11. (in \o net) \o o = in \o c
  BY <1>9, BytesConcat, Zenon
<1>12. <<>> \o net = net
  BY <1>9, ConcatEmptySeq
<1>13. c \in Seq(Bytes)
  BY <1>9, Joined
<1> HIDE DEF c
<1>14. Stream = in \o c /\ Stream' = c
  BY <1>10, <1>11, <1>12 DEF c
<1>15. /\ Stream \in Seq(Bytes) /\ Len(Stream) = Size(m) + Len(c)
       /\ \A x \in 1..Len(c) : c[x] = Stream[Size(m) + x]
  <2>1. /\ in \o c \in Seq(Bytes) /\ Len(in \o c) = Len(in) + Len(c)
        /\ \A x \in 1..Len(c) : (in \o c)[Len(in) + x] = c[x]
    BY <1>9, <1>13, Joined
  <2> QED
    BY <1>3, <1>14, <2>1
<1>16. PICK pos : Starts(pos, sent) /\ Carries(Stream, pos, sent, Len(got), ~cut)
  BY <1>1, <1>3 DEF Transit
<1>17. Carries(c, pos, sent, Len(got) + 1, ~cut)
  BY <1>3, <1>4, <1>9, <1>13, <1>15, <1>16, CarriesRest DEF m
<1>18. Transit'
  BY <1>2, <1>5, <1>14, <1>16, <1>17, TransitNext
<1>19. InFits'
  BY <1>2 DEF InFits
<1> QED
  BY <1>8, <1>18, <1>19 DEF IInv

LEMMA FailKeeps ==
  ASSUME IInv, recv_fails
  PROVE  IInv'
<1>1. Shape /\ failed' = TRUE /\ in' = <<>> /\ UNCHANGED <<sent, out, closed, cut, net, got>>
  BY DEF IInv, recv_fails, Fails
<1>2. in' \in Seq(Bytes)
  BY <1>1
<1>3. Shape'
  BY <1>1, <1>2 DEF Shape
<1>4. Transit'
  BY <1>1 DEF Transit
<1>5. InFits'
  BY <1>1 DEF InFits
<1> QED
  BY <1>3, <1>4, <1>5 DEF IInv

LEMMA Kept == IInv /\ [Next]_vars => IInv'
<1> SUFFICES ASSUME IInv, [Next]_vars PROVE IInv'
  OBVIOUS
<1>1. CASE UNCHANGED vars
  <2>1. UNCHANGED <<sent, out, closed, cut, net, in, failed, got>>
    BY <1>1 DEF vars
  <2>2. Shape' /\ InFits'
    BY <2>1 DEF IInv, Shape, InFits, Size
  <2>3. Stream' = Stream
    BY <2>1 DEF Stream
  <2>4. Transit'
    BY <2>1, <2>2, <2>3, StreamKept DEF IInv, Transit
  <2> QED
    BY <2>2, <2>4 DEF IInv
<1> QED
  BY <1>1, SendKeeps, WriteKeeps, LossKeeps, ReadKeeps, ReturnKeeps, FailKeeps DEF Next

LEMMA Started == Init => IInv
<1> SUFFICES ASSUME Init PROVE IInv
  OBVIOUS
<1>1. Len(<<>>) = 0 /\ <<>> \o <<>> = <<>>
  OBVIOUS
<1>2. HeaderSize + MaxPayload \in Nat /\ NetCap \in Nat
  BY WireAssumption DEF HeaderSize
<1>3. Shape
  <2>1. <<>> \in Seq(MessageType) /\ <<>> \in Seq(Bytes)
    OBVIOUS
  <2>2. 0 <= HeaderSize + MaxPayload /\ 0 <= NetCap /\ 0 <= 0
    BY <1>2
  <2> QED
    BY <1>1, <2>1, <2>2 DEF Init, Shape
<1>4. Stream = <<>>
  BY <1>1 DEF Init, Stream
<1>5. Starts([k \in 0..0 |-> 0], <<>>) /\ Carries(<<>>, [k \in 0..0 |-> 0], <<>>, 0, TRUE)
  BY <1>1 DEF Starts, Carries
<1>6. sent = <<>> /\ Len(got) = 0 /\ cut = FALSE /\ failed = FALSE
  BY <1>1 DEF Init
<1>7. Transit
  BY <1>4, <1>5, <1>6 DEF Transit
<1>8. InFits
  BY DEF Init, InFits
<1> QED
  BY <1>3, <1>7, <1>8 DEF IInv

LEMMA Invariance == Spec => []IInv
  BY Started, Kept, PTL DEF Spec

-----------------------------------------------------------------------------
(* Theorems *)

\* The arrays of protocol.c are as long as they need be: make_message() puts no
\* more into names and payload than fits, recv_message() reads no more into its
\* buffer than it holds, and every byte is one.
THEOREM WireTyped == Spec => []TypeOK
<1>1. IInv => TypeOK
  <2> SUFFICES ASSUME IInv PROVE TypeOK
    OBVIOUS
  <2>1. Shape /\ Len(in) \in Nat
    BY StreamType DEF IInv
  <2>2. ASSUME NEW k \in DOMAIN sent
        PROVE  /\ Len(sent[k].sender) < NameLen /\ Len(sent[k].receiver) < NameLen
               /\ Len(sent[k].payload) <= MaxPayload
    <3>1. sent[k] \in MessageType
      BY <2>1 DEF Shape
    <3> QED
      BY <3>1 DEF MessageType, Names
  <2>3. \A b \in {out, net, in} : \A k \in DOMAIN b : b[k] \in Bytes
    BY <2>1 DEF Shape
  <2>4. Len(in) <= HeaderSize + MaxPayload
    <3>1. HeaderSize + MaxPayload \in Nat
      BY WireAssumption DEF HeaderSize
    <3>2. CASE in = <<>>
      BY <3>1, <3>2
    <3>3. CASE in # <<>>
      <4>1. PICK m : m = sent[Len(got) + 1]
        OBVIOUS
      <4>2. m \in MessageType /\ Len(in) <= Size(m)
        BY <3>3, <4>1, HeadRead
      <4>3. Size(m) <= HeaderSize + MaxPayload /\ Size(m) \in Nat
        BY <4>2, SizeType
      <4> QED
        BY <2>1, <3>1, <4>2, <4>3
    <3> QED
      BY <3>2, <3>3
  <2> QED
    BY <2>1, <2>2, <2>3, <2>4 DEF Shape, TypeOK
<1> QED
  BY <1>1, Invariance, PTL

\* However write() and read() cut the bytes up, and wherever the connection
\* breaks, recv_message() returns the messages send_message() was called with,
\* unchanged, in order, none left out and none made up: every step of Wire is a
\* step of Channel, or none.
THEOREM ChannelImplemented == Spec => Ch!Safe
<1>1. Init => Ch!Init
  BY DEF Init, Ch!Init
<1>2. ASSUME IInv, [Next]_vars PROVE [Ch!Next]_(Ch!vars)
  <2>1. CASE send_message
    <3>1. PICK i \in Inputs : sent' = Append(sent, make_message(i))
      BY <2>1 DEF send_message
    <3>2. Ch!Send
      BY <2>1, <3>1 DEF send_message, Ch!Send
    <3> QED
      BY <3>2 DEF Ch!Next
  <2>2. CASE recv_returns
    <3>1. Len(got) + 1 \in 1..Len(sent) /\ got' = Append(got, sent[Len(got) + 1])
      BY <1>2, <2>2, Returned
    <3>2. Len(got) \in Nat /\ Len(sent) \in Nat
      BY <1>2, StreamType DEF IInv
    <3>3. Len(got) < Len(sent)
      BY <3>1, <3>2
    <3>4. Ch!Recv
      BY <2>2, <3>1, <3>3 DEF recv_returns, Ch!Recv
    <3> QED
      BY <3>4 DEF Ch!Next
  <2>3. CASE break
    BY <2>3 DEF break, Ch!Cut, Ch!Next
  <2>4. CASE send_write \/ send_fails \/ send_close \/ recv_read \/ recv_fails \/ UNCHANGED vars
    <3>1. UNCHANGED <<sent, got, cut>>
      BY <2>4 DEF send_write, Write, send_fails, send_close, recv_read, recv_fails, Fails, vars
    <3> QED
      BY <3>1 DEF Ch!vars
  <2> QED
    BY <1>2, <2>1, <2>2, <2>3, <2>4 DEF Next
<1> QED
  BY <1>1, <1>2, Invariance, PTL DEF Spec, Ch!Safe

=============================================================================
