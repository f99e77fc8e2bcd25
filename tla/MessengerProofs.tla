---------------------------- MODULE MessengerProofs ----------------------------
(***************************************************************************)
(* Proofs about Messenger, for every base, header, set of messages and     *)
(* number of messages.  First the header: what Decoded reads is what       *)
(* Encoded wrote (HeaderRead).  Then the stream: the bytes written are the *)
(* frames of the messages one after the other, and the receiver stands at  *)
(* a frame's beginning or behind its header (Inv).  Then the properties,   *)
(* and the refinement of MessageChannel.                                   *)
(***************************************************************************)
EXTENDS Messenger, SequenceTheorems, WellFoundedInduction, TLAPS

(***************************************************************************)
(* Induction over the natural numbers, for a set of numbers.               *)
(***************************************************************************)

\* A set of numbers with 0 that is closed under successor holds all of them:
\* otherwise look at the least one that is missing.
LEMMA AllNumbers ==
    ASSUME NEW S, S \subseteq Nat, 0 \in S, \A n \in S : n + 1 \in S
    PROVE  S = Nat
<1> DEFINE R == OpToRel(<, Nat)
           Missing == Nat \ S
<1>1. IsWellFoundedOn(R, Nat)
    BY NatLessThanWellFounded
<1>2. SUFFICES ASSUME Missing # {}
               PROVE  FALSE
    OBVIOUS
<1>3. PICK x \in Missing : \A y \in Missing : ~(<<y, x>> \in R)
  <2> HIDE DEF R
  <2> QED
    BY <1>1, <1>2, WFMin
<1>4. \A y, z \in Nat : y < z => <<y, z>> \in R
    BY DEF OpToRel
<1>5. x - 1 \in Nat /\ x - 1 < x
    OBVIOUS
<1>6. x - 1 \in S
    BY <1>3, <1>4, <1>5
<1> QED
    BY <1>5, <1>6

------------------------------------------------------------------------------
(***************************************************************************)
(* The weights of the bytes of a header.                                   *)
(***************************************************************************)

\* F is Weight as far as k.
IsWeight(F, k) ==
    /\ F \in [0..k -> Nat]
    /\ F[0] = 1
    /\ \A i \in 1..k : F[i] = Base * F[i - 1]

\* There is such a function for every k.
LEMMA WeightTo == \A k \in Nat : \E F : IsWeight(F, k)
<1> DEFINE S == {k \in Nat : \E F : IsWeight(F, k)}
<1>1. 0 \in S
  <2>1. IsWeight([i \in 0..0 |-> 1], 0)
    BY DEF IsWeight
  <2> QED
    BY <2>1
<1>2. ASSUME NEW n \in S
      PROVE  n + 1 \in S
  <2>1. PICK F : IsWeight(F, n)
    OBVIOUS
  <2> DEFINE G == [i \in 0..(n + 1) |-> IF i = n + 1 THEN Base * F[n] ELSE F[i]]
  <2>2. Base * F[n] \in Nat
    BY <2>1, MessengerAssumption DEF IsWeight
  <2>3. \A i \in 0..(n + 1) : i = n + 1 \/ i \in 0..n
    OBVIOUS
  <2>4. G \in [0..(n + 1) -> Nat]
    BY <2>1, <2>2, <2>3 DEF IsWeight
  <2>5. G[0] = 1 /\ G[n + 1] = Base * G[n]
    BY <2>1 DEF IsWeight
  <2>6. \A i \in 1..n : G[i] = Base * G[i - 1]
    BY <2>1 DEF IsWeight
  <2>7. \A i \in 1..(n + 1) : i = n + 1 \/ i \in 1..n
    OBVIOUS
  <2> HIDE DEF G
  <2>8. IsWeight(G, n + 1)
    BY <2>4, <2>5, <2>6, <2>7 DEF IsWeight
  <2> QED
    BY <2>8
<1>3. S \subseteq Nat
    OBVIOUS
<1> HIDE DEF S
<1>4. S = Nat
    BY <1>1, <1>2, <1>3, AllNumbers
<1> QED
    BY <1>4 DEF S

\* Any two of them agree where both are defined.
LEMMA WeightsAgree ==
    ASSUME NEW k \in Nat, NEW F, IsWeight(F, k), NEW n \in Nat, NEW G, IsWeight(G, n)
    PROVE  \A i \in Nat : i <= k /\ i <= n => F[i] = G[i]
<1> DEFINE S == {i \in Nat : i <= k /\ i <= n => F[i] = G[i]}
<1>1. 0 \in S
    BY DEF IsWeight
<1>2. ASSUME NEW i \in S
      PROVE  i + 1 \in S
  <2>1. SUFFICES ASSUME i + 1 <= k, i + 1 <= n
                 PROVE  F[i + 1] = G[i + 1]
    OBVIOUS
  <2>2. F[i + 1] = Base * F[i] /\ G[i + 1] = Base * G[i]
    BY <2>1 DEF IsWeight
  <2> QED
    BY <2>1, <2>2
<1>3. S \subseteq Nat
    OBVIOUS
<1> HIDE DEF S
<1>4. S = Nat
    BY <1>1, <1>2, <1>3, AllNumbers
<1> QED
    BY <1>4 DEF S

\* Weight is defined: the recursive definition has a solution.
LEMMA WeightDef ==
    /\ Weight \in [Nat -> Nat]
    /\ Weight[0] = 1
    /\ \A i \in Nat : Weight[i + 1] = Base * Weight[i]
<1> DEFINE F(k) == CHOOSE f : IsWeight(f, k)
           W == [i \in Nat |-> F(i)[i]]
           Body(g) == [i \in Nat |-> IF i = 0 THEN 1 ELSE Base * g[i - 1]]
<1>1. \A k \in Nat : IsWeight(F(k), k)
    BY WeightTo
<1> HIDE DEF F
<1>2. W \in [Nat -> Nat] /\ W[0] = 1
    BY <1>1 DEF IsWeight
<1>3. ASSUME NEW i \in Nat
      PROVE  W[i + 1] = Base * W[i]
  <2>1. F(i + 1)[i + 1] = Base * F(i + 1)[i]
    BY <1>1 DEF IsWeight
  <2>2. F(i + 1)[i] = F(i)[i]
    BY <1>1, WeightsAgree
  <2> QED
    BY <2>1, <2>2
<1>4. W = Body(W)
  <2>1. \A i \in Nat : W[i] = Body(W)[i]
    <3> TAKE i \in Nat
    <3>1. CASE i = 0
      BY <3>1, <1>2
    <3>2. CASE i # 0
      <4>1. i - 1 \in Nat /\ (i - 1) + 1 = i
        BY <3>2
      <4>2. W[i] = Base * W[i - 1]
        BY <1>3, <4>1
      <4> HIDE DEF W
      <4> QED
        BY <3>2, <4>2
    <3> QED
      BY <3>1, <3>2
  <2>2. W = [i \in Nat |-> W[i]]
    OBVIOUS
  <2> HIDE DEF W
  <2> QED
    BY <2>1, <2>2
<1>5. Weight = Body(Weight)
  <2> HIDE DEF W
  <2> QED
    BY <1>4 DEF Weight
<1> HIDE DEF W
<1>6. Weight[0] = 1
    BY <1>5
<1>7. ASSUME NEW i \in Nat
      PROVE  Weight[i + 1] = Base * Weight[i]
    BY <1>5
<1>8. Weight \in [Nat -> Nat]
  <2> DEFINE S == {i \in Nat : Weight[i] \in Nat}
  <2>1. 0 \in S
    BY <1>6
  <2>2. ASSUME NEW i \in S
        PROVE  i + 1 \in S
    <3>1. Base * Weight[i] \in Nat
      BY MessengerAssumption
    <3> QED
      BY <1>7, <3>1
  <2>3. S \subseteq Nat
    OBVIOUS
  <2> HIDE DEF S
  <2>4. S = Nat
    BY <2>1, <2>2, <2>3, AllNumbers
  <2> QED
    BY <1>5, <2>4 DEF S
<1> QED
    BY <1>6, <1>7, <1>8

\* Every weight is larger than its index: a header can carry its own size.
LEMMA WeightLarge == \A i \in Nat : Weight[i] > i
<1> DEFINE S == {i \in Nat : Weight[i] > i}
<1>1. 0 \in S
    BY WeightDef
<1>2. ASSUME NEW i \in S
      PROVE  i + 1 \in S
  <2>1. Weight[i] \in Nat /\ Weight[i] > i
    BY WeightDef
  <2>2. \A b, w \in Nat : b > 1 /\ w > i => b * w > i + 1
    <3> TAKE b, w \in Nat
    <3> HAVE b > 1 /\ w > i
    <3>1. b * w = (b - 2) * w + 2 * w /\ (b - 2) * w >= 0
      OBVIOUS
    <3> QED
      BY <3>1
  <2>3. Base \in Nat /\ Base > 1
    BY MessengerAssumption
  <2>4. Base * Weight[i] > i + 1
    BY <2>1, <2>2, <2>3
  <2> QED
    BY <2>4, WeightDef
<1>3. S \subseteq Nat
    OBVIOUS
<1> HIDE DEF S
<1>4. S = Nat
    BY <1>1, <1>2, <1>3, AllNumbers
<1> QED
    BY <1>4 DEF S

------------------------------------------------------------------------------
(***************************************************************************)
(* Division.                                                               *)
(***************************************************************************)

\* Quotient and remainder.
LEMMA Division ==
    ASSUME NEW n \in Nat, NEW d \in Nat, d > 0
    PROVE  /\ n \div d \in Nat /\ n % d \in Nat
           /\ n % d < d
           /\ n = d * (n \div d) + (n % d)
OBVIOUS

\* They are the only ones.
LEMMA Quotient ==
    ASSUME NEW n \in Nat, NEW d \in Nat, d > 0, NEW q \in Nat, NEW r \in Nat,
           r < d, n = d * q + r
    PROVE  n \div d = q
<1>1. n \div d \in Nat /\ n % d \in Nat /\ n % d < d /\ n = d * (n \div d) + (n % d)
    BY Division
<1> DEFINE a == n \div d
           s == n % d
<1>2. a \in Nat /\ s \in Nat /\ s < d /\ d * a + s = d * q + r
    BY <1>1
<1> HIDE DEF a, s
<1>3. ~ (a < q)
  <2> SUFFICES ASSUME a < q PROVE FALSE
    OBVIOUS
  <2>1. d * q = d * a + d * (q - a) /\ d * (q - a) >= d
    BY <1>2
  <2> QED
    BY <1>2, <2>1
<1>4. ~ (q < a)
  <2> SUFFICES ASSUME q < a PROVE FALSE
    OBVIOUS
  <2>1. d * a = d * q + d * (a - q) /\ d * (a - q) >= d
    BY <1>2
  <2> QED
    BY <1>2, <2>1
<1> QED
    BY <1>2, <1>3, <1>4 DEF a

\* Dividing by a product is dividing twice.
LEMMA TwoDivisions ==
    ASSUME NEW n \in Nat, NEW d \in Nat, d > 0, NEW e \in Nat, e > 0
    PROVE  n \div (e * d) = (n \div d) \div e
<1> DEFINE q == n \div d
           r == n % d
           p == q \div e
           s == q % e
<1>1. q \in Nat /\ r \in Nat /\ r < d /\ n = d * q + r
    BY Division
<1> HIDE DEF q, r
<1>2. p \in Nat /\ s \in Nat /\ s < e /\ q = e * p + s
    BY <1>1, Division
<1> HIDE DEF p, s
<1>3. n = (e * d) * p + (d * s + r)
    BY <1>1, <1>2
<1>4. d * s + r \in Nat /\ d * s + r < e * d
  <2>1. d * s <= d * (e - 1) /\ d * (e - 1) = e * d - d
    BY <1>2
  <2> QED
    BY <1>1, <1>2, <2>1
<1>5. e * d \in Nat /\ e * d > 0
    OBVIOUS
<1>6. n \div (e * d) = p
    BY <1>2, <1>3, <1>4, <1>5, Quotient
<1> QED
    BY <1>6 DEF p, q

------------------------------------------------------------------------------
(***************************************************************************)
(* The header.                                                             *)
(***************************************************************************)
LEMMA Sizes ==
    /\ HEADER_SIZE \in Nat /\ HEADER_SIZE > 0 /\ Base \in Nat /\ Base > 1
    /\ MaxSize \in Nat /\ Weight[HEADER_SIZE] = MaxSize + 1
    /\ HEADER_SIZE \in 0..MaxSize
    /\ \A i \in Nat : Weight[i] \in Nat /\ Weight[i] > 0
<1>1. HEADER_SIZE \in Nat /\ HEADER_SIZE > 0 /\ Base \in Nat /\ Base > 1
    BY MessengerAssumption
<1>2. \A i \in Nat : Weight[i] \in Nat /\ Weight[i] > i
    BY WeightDef, WeightLarge
<1>3. Weight[HEADER_SIZE] \in Nat /\ Weight[HEADER_SIZE] > HEADER_SIZE
    BY <1>1, <1>2
<1>4. \A i \in Nat : Weight[i] > 0
    BY <1>2
<1> QED
    BY <1>1, <1>2, <1>3, <1>4 DEF MaxSize

\* A header is HEADER_SIZE bytes.
LEMMA HeaderBytes ==
    ASSUME NEW n \in Nat
    PROVE  Encoded(n) \in Seq(Byte) /\ Len(Encoded(n)) = HEADER_SIZE
<1>1. ASSUME NEW i \in 1..HEADER_SIZE
      PROVE  (n \div Weight[i - 1]) % Base \in Byte
  <2>1. i - 1 \in Nat
    BY Sizes
  <2>2. Weight[i - 1] \in Nat /\ Weight[i - 1] > 0
    BY <2>1, Sizes
  <2>3. n \div Weight[i - 1] \in Nat
    BY <2>2, Division
  <2>4. (n \div Weight[i - 1]) % Base \in Nat /\ (n \div Weight[i - 1]) % Base < Base
    BY <2>3, Sizes, Division
  <2> QED
    BY <2>4, Sizes DEF Byte
<1>2. Encoded(n) \in [1..HEADER_SIZE -> Byte]
    BY <1>1 DEF Encoded
<1> QED
    BY <1>2, Sizes

\* No two sizes have the same header: were they different they would stay so
\* when the bytes are taken off one after the other, and in the end both are 0.
LEMMA HeadersDiffer ==
    ASSUME NEW n \in 0..MaxSize, NEW m \in 0..MaxSize,
           \A i \in 1..HEADER_SIZE : Encoded(n)[i] = Encoded(m)[i]
    PROVE  n = m
<1> SUFFICES ASSUME n # m
             PROVE  FALSE
    OBVIOUS
<1> DEFINE S == {i \in Nat : i <= HEADER_SIZE => n \div Weight[i] # m \div Weight[i]}
<1>1. n \in Nat /\ m \in Nat
    BY Sizes
<1>2. 0 \in S
  <2>1. n \div 1 = n /\ m \div 1 = m
    BY <1>1
  <2> QED
    BY <2>1, WeightDef
<1>3. ASSUME NEW i \in S
      PROVE  i + 1 \in S
  <2> SUFFICES ASSUME i + 1 <= HEADER_SIZE
               PROVE  n \div Weight[i + 1] # m \div Weight[i + 1]
    OBVIOUS
  <2> DEFINE a == n \div Weight[i]
             b == m \div Weight[i]
  <2>1. a # b
    BY Sizes
  <2>2. i + 1 \in 1..HEADER_SIZE /\ (i + 1) - 1 = i
    BY Sizes
  <2>3. a % Base = b % Base
    BY <2>2 DEF Encoded
  <2>4. a \in Nat /\ b \in Nat
    BY <1>1, Sizes, Division
  <2>5. n \div Weight[i + 1] = a \div Base /\ m \div Weight[i + 1] = b \div Base
    <3>1. Weight[i + 1] = Base * Weight[i]
      BY WeightDef
    <3>2. Weight[i] \in Nat /\ Weight[i] > 0 /\ Base \in Nat /\ Base > 0
      BY Sizes
    <3>3. n \div (Base * Weight[i]) = a \div Base
      BY <1>1, <3>2, TwoDivisions
    <3>4. m \div (Base * Weight[i]) = b \div Base
      BY <1>1, <3>2, TwoDivisions
    <3> QED
      BY <3>1, <3>3, <3>4
  <2> HIDE DEF a, b
  <2>6. /\ a = Base * (a \div Base) + (a % Base)
        /\ b = Base * (b \div Base) + (b % Base)
    BY <2>4, Sizes, Division
  <2>7. a \div Base # b \div Base
    BY <2>1, <2>3, <2>6
  <2> QED
    BY <2>5, <2>7
<1>4. S \subseteq Nat
    OBVIOUS
<1> HIDE DEF S
<1>5. S = Nat
    BY <1>2, <1>3, <1>4, AllNumbers
<1>6. n \div (MaxSize + 1) # m \div (MaxSize + 1)
    BY <1>5, Sizes DEF S
<1>7. n \div (MaxSize + 1) = 0 /\ m \div (MaxSize + 1) = 0
  <2>1. \A k \in 0..MaxSize : k = (MaxSize + 1) * 0 + k /\ k \in Nat /\ k < MaxSize + 1
    BY Sizes
  <2>2. MaxSize + 1 \in Nat /\ MaxSize + 1 > 0
    BY Sizes
  <2> QED
    BY <2>1, <2>2, Quotient
<1> QED
    BY <1>6, <1>7

\* A buffer that begins with the header of n is read as n.
LEMMA HeaderRead ==
    ASSUME NEW n \in 0..MaxSize, NEW h,
           \A i \in 1..HEADER_SIZE : h[i] = Encoded(n)[i]
    PROVE  Decoded(h) = n
<1>1. \A m \in 0..MaxSize : (\A i \in 1..HEADER_SIZE : Encoded(m)[i] = h[i]) => m = n
    BY HeadersDiffer
<1>2. \E m \in 0..MaxSize : \A i \in 1..HEADER_SIZE : Encoded(m)[i] = h[i]
    OBVIOUS
<1> QED
    BY <1>1, <1>2 DEF Decoded

------------------------------------------------------------------------------
(***************************************************************************)
(* The stream of bytes.                                                    *)
(***************************************************************************)

\* L holds the bytes of the messages s: message i has its header after the
\* first pos[i] bytes, and its own bytes after the header.
Log(L, pos, s) ==
    /\ L \in Seq(Byte)
    /\ pos \in [1..(Len(s) + 1) -> Nat]
    /\ pos[Len(s) + 1] = Len(L)
    /\ \A i \in 1..Len(s) :
          /\ Len(s[i]) \in 0..MaxSize
          /\ pos[i + 1] = pos[i] + HEADER_SIZE + Len(s[i])
          /\ pos[i + 1] <= Len(L)
          /\ \A j \in 1..HEADER_SIZE : L[pos[i] + j] = Encoded(Len(s[i]))[j]
          /\ \A j \in 1..Len(s[i]) : L[pos[i] + HEADER_SIZE + j] = s[i][j]

\* After the first o bytes of L come those that arrived, a, and then those on
\* the wire, w.
Rest(L, o, a, w) ==
    /\ o \in Nat
    /\ o + Len(a) + Len(w) <= Len(L)
    /\ \A j \in 1..Len(a) : a[j] = L[o + j]
    /\ \A j \in 1..Len(w) : w[j] = L[o + Len(a) + j]

\* None of the bytes was lost.
Whole(L, o, a, w) == Len(L) = o + Len(a) + Len(w)

\* One sequence of bytes after another.
LEMMA Joined ==
    ASSUME NEW s \in Seq(Byte), NEW t \in Seq(Byte)
    PROVE  /\ s \o t \in Seq(Byte)
           /\ Len(s) \in Nat /\ Len(t) \in Nat /\ Len(s \o t) = Len(s) + Len(t)
           /\ \A j \in 1..Len(s) : (s \o t)[j] = s[j]
           /\ \A j \in 1..Len(t) : (s \o t)[Len(s) + j] = t[j]
OBVIOUS

\* The bytes of one more message.
Frame(m) == Encoded(Len(m)) \o m

LEMMA FrameBytes ==
    ASSUME NEW m \in Seq(Byte)
    PROVE  /\ Frame(m) \in Seq(Byte)
           /\ Len(Frame(m)) = HEADER_SIZE + Len(m)
           /\ \A j \in 1..HEADER_SIZE : Frame(m)[j] = Encoded(Len(m))[j]
           /\ \A j \in 1..Len(m) : Frame(m)[HEADER_SIZE + j] = m[j]
<1> DEFINE e == Encoded(Len(m))
<1>1. e \in Seq(Byte) /\ Len(e) = HEADER_SIZE
    BY HeaderBytes
<1> HIDE DEF e
<1>2. Frame(m) = e \o m
    BY DEF Frame, e
<1>3. \A j \in 1..HEADER_SIZE : (e \o m)[j] = e[j]
    BY <1>1
<1>4. \A j \in 1..Len(m) : (e \o m)[HEADER_SIZE + j] = m[j]
    BY <1>1, Sizes
<1>5. e \o m \in Seq(Byte) /\ Len(e \o m) = HEADER_SIZE + Len(m)
    BY <1>1
<1> QED
    BY <1>2, <1>3, <1>4, <1>5 DEF e

\* The log grows by a message.
LEMMA LogWritten ==
    ASSUME NEW L, NEW pos, NEW s \in Seq(Seq(Byte)), Log(L, pos, s),
           NEW m \in Seq(Byte), Len(m) \in 0..MaxSize
    PROVE  \E pos2 : /\ Log(L \o Frame(m), pos2, Append(s, m))
                     /\ \A i \in 1..(Len(s) + 1) : pos2[i] = pos[i]
<1> DEFINE f == Frame(m)
           L2 == L \o f
           s2 == Append(s, m)
           n == Len(s)
           pos2 == [i \in 1..(n + 2) |-> IF i = n + 2 THEN Len(L2) ELSE pos[i]]
<1>1. /\ f \in Seq(Byte) /\ Len(f) = HEADER_SIZE + Len(m)
      /\ \A j \in 1..HEADER_SIZE : f[j] = Encoded(Len(m))[j]
      /\ \A j \in 1..Len(m) : f[HEADER_SIZE + j] = m[j]
    BY FrameBytes
<1> HIDE DEF f, n
<1>2. n \in Nat /\ L \in Seq(Byte) /\ pos[n + 1] = Len(L) /\ Len(L) \in Nat
      /\ pos \in [1..(n + 1) -> Nat] /\ Len(m) \in Nat
    BY DEF Log, n
<1>3. /\ L2 \in Seq(Byte) /\ Len(L2) = Len(L) + HEADER_SIZE + Len(m)
      /\ \A j \in 1..Len(L) : L2[j] = L[j]
      /\ \A j \in 1..Len(f) : L2[Len(L) + j] = f[j]
  <2>1. /\ L2 \in Seq(Byte) /\ Len(L2) = Len(L) + Len(f)
        /\ \A j \in 1..Len(L) : L2[j] = L[j]
        /\ \A j \in 1..Len(f) : L2[Len(L) + j] = f[j]
    BY <1>1, <1>2, Joined
  <2> HIDE DEF L2
  <2>2. \A x, y, z \in Nat : x + (y + z) = x + y + z
    OBVIOUS
  <2> QED
    BY <1>1, <1>2, <2>1, <2>2, Sizes
<1>4. /\ s2 \in Seq(Seq(Byte)) /\ Len(s2) = n + 1 /\ s2[n + 1] = m
      /\ \A i \in 1..n : s2[i] = s[i]
    BY DEF n
<1> HIDE DEF L2, s2
<1>5. pos2 \in [1..(n + 2) -> Nat] /\ pos2[n + 2] = Len(L2)
      /\ \A i \in 1..(n + 1) : pos2[i] = pos[i]
    BY <1>2, <1>3, Sizes
<1> HIDE DEF pos2
<1>6. ASSUME NEW i \in 1..n
      PROVE  /\ Len(s2[i]) \in 0..MaxSize
             /\ pos2[i + 1] = pos2[i] + HEADER_SIZE + Len(s2[i])
             /\ pos2[i + 1] <= Len(L2)
             /\ \A j \in 1..HEADER_SIZE : L2[pos2[i] + j] = Encoded(Len(s2[i]))[j]
             /\ \A j \in 1..Len(s2[i]) : L2[pos2[i] + HEADER_SIZE + j] = s2[i][j]
  <2>1. /\ s2[i] = s[i] /\ pos2[i] = pos[i] /\ pos2[i + 1] = pos[i + 1]
        /\ pos[i] \in Nat /\ Len(s[i]) \in 0..MaxSize
        /\ pos[i + 1] = pos[i] + HEADER_SIZE + Len(s[i]) /\ pos[i + 1] <= Len(L)
    <3>1. i \in 1..(n + 1) /\ i + 1 \in 1..(n + 1)
      BY <1>2
    <3> QED
      BY <1>2, <1>4, <1>5, <3>1 DEF Log, n
  <2>2. pos[i + 1] <= Len(L2)
    <3>1. pos[i + 1] \in Nat
      BY <1>2
    <3>2. \A p, x, h, y \in Nat : p <= x => p <= x + h + y
      OBVIOUS
    <3> QED
      BY <1>2, <1>3, <2>1, <3>1, <3>2, Sizes
  <2>3. ASSUME NEW j \in 1..HEADER_SIZE
        PROVE  L2[pos[i] + j] = Encoded(Len(s[i]))[j]
    <3>1. pos[i] + j \in 1..Len(L)
      <4>1. \A p, h, y, x \in Nat : p + h + y <= x /\ j <= h => p + j \in 1..x
        OBVIOUS
      <4>2. Len(s[i]) \in Nat /\ j <= HEADER_SIZE
        BY <2>1, Sizes
      <4> QED
        BY <1>2, <2>1, <4>1, <4>2, Sizes
    <3> QED
      BY <1>3, <3>1 DEF Log, n
  <2>4. ASSUME NEW j \in 1..Len(s[i])
        PROVE  L2[pos[i] + HEADER_SIZE + j] = s[i][j]
    <3>1. pos[i] + HEADER_SIZE + j \in 1..Len(L)
      <4>1. \A p, h, y, x \in Nat : p + h + y <= x /\ j <= y => p + h + j \in 1..x
        OBVIOUS
      <4>2. Len(s[i]) \in Nat /\ j <= Len(s[i])
        BY <2>1, Sizes
      <4> QED
        BY <1>2, <2>1, <4>1, <4>2, Sizes
    <3> QED
      BY <1>3, <3>1 DEF Log, n
  <2> QED
    BY <2>1, <2>2, <2>3, <2>4
<1>7. /\ Len(s2[n + 1]) \in 0..MaxSize
      /\ pos2[n + 2] = pos2[n + 1] + HEADER_SIZE + Len(s2[n + 1])
      /\ pos2[n + 2] <= Len(L2)
      /\ \A j \in 1..HEADER_SIZE : L2[pos2[n + 1] + j] = Encoded(Len(s2[n + 1]))[j]
      /\ \A j \in 1..Len(s2[n + 1]) : L2[pos2[n + 1] + HEADER_SIZE + j] = s2[n + 1][j]
  <2>1. pos2[n + 1] = Len(L) /\ s2[n + 1] = m /\ pos2[n + 2] = Len(L2)
    BY <1>2, <1>4, <1>5
  <2>2. \A j \in 1..HEADER_SIZE : L2[Len(L) + j] = Encoded(Len(m))[j]
    BY <1>1, <1>2, <1>3, Sizes
  <2>3. ASSUME NEW j \in 1..Len(m)
        PROVE  L2[Len(L) + HEADER_SIZE + j] = m[j]
    <3>1. HEADER_SIZE + j \in 1..Len(f) /\ Len(L) + (HEADER_SIZE + j) = Len(L) + HEADER_SIZE + j
      BY <1>1, <1>2, Sizes
    <3>2. L2[Len(L) + (HEADER_SIZE + j)] = f[HEADER_SIZE + j]
      BY <1>3, <3>1
    <3> QED
      BY <1>1, <3>1, <3>2
  <2>4. Len(L2) = Len(L) + HEADER_SIZE + Len(m) /\ Len(L2) <= Len(L2)
    BY <1>2, <1>3, Sizes
  <2> QED
    BY <2>1, <2>2, <2>3, <2>4
<1>8. \A i \in 1..(n + 1) : i = n + 1 \/ i \in 1..n
    BY <1>2
<1>9. (n + 1) + 1 = n + 2
    BY <1>2
<1>10. Log(L2, pos2, s2)
    BY <1>3, <1>4, <1>5, <1>6, <1>7, <1>8, <1>9 DEF Log
<1> QED
    BY <1>5, <1>10 DEF L2, s2, f, n

\* What is written goes to the end of the log and of the wire.
LEMMA RestWritten ==
    ASSUME NEW L \in Seq(Byte), NEW o, NEW a \in Seq(Byte), NEW w \in Seq(Byte),
           Rest(L, o, a, w), Whole(L, o, a, w), NEW f \in Seq(Byte)
    PROVE  Rest(L \o f, o, a, w \o f) /\ Whole(L \o f, o, a, w \o f)
<1>1. /\ o \in Nat /\ Len(L) = o + Len(a) + Len(w)
      /\ Len(L) \in Nat /\ Len(a) \in Nat /\ Len(w) \in Nat /\ Len(f) \in Nat
    BY DEF Rest, Whole
<1> DEFINE L2 == L \o f
           w2 == w \o f
<1>2. /\ L2 \in Seq(Byte) /\ Len(L2) = Len(L) + Len(f)
      /\ \A j \in 1..Len(L) : L2[j] = L[j]
      /\ \A j \in 1..Len(f) : L2[Len(L) + j] = f[j]
    BY Joined
<1>3. /\ w2 \in Seq(Byte) /\ Len(w2) = Len(w) + Len(f)
      /\ \A j \in 1..Len(w) : w2[j] = w[j]
      /\ \A j \in 1..Len(f) : w2[Len(w) + j] = f[j]
    BY Joined
<1> HIDE DEF L2, w2
<1>4. Len(L2) = o + Len(a) + Len(w2)
  <2>1. Len(L2) = Len(L) + Len(f) /\ Len(w2) = Len(w) + Len(f)
    BY <1>2, <1>3
  <2> QED
    BY <1>1, <1>2, <1>3, <2>1
<1>5. ASSUME NEW j \in 1..Len(a)
      PROVE  a[j] = L2[o + j]
  <2>1. o + j \in 1..Len(L) /\ a[j] = L[o + j]
    BY <1>1 DEF Rest
  <2> QED
    BY <1>2, <2>1
<1>6. ASSUME NEW j \in 1..Len(w2)
      PROVE  w2[j] = L2[o + Len(a) + j]
  <2>1. CASE j \in 1..Len(w)
    <3>1. o + Len(a) + j \in 1..Len(L) /\ w[j] = L[o + Len(a) + j]
      BY <1>1, <2>1 DEF Rest
    <3> QED
      BY <1>2, <1>3, <2>1, <3>1
  <2>3. j \in 1..(Len(w) + Len(f))
    BY <1>3
  <2>2. CASE j \notin 1..Len(w)
    <3>1. j - Len(w) \in 1..Len(f) /\ Len(w) + (j - Len(w)) = j
          /\ Len(L) + (j - Len(w)) = o + Len(a) + j
      BY <1>1, <2>2, <2>3
    <3>2. w2[Len(w) + (j - Len(w))] = L2[Len(L) + (j - Len(w))]
      BY <1>2, <1>3, <3>1
    <3> QED
      BY <3>1, <3>2
  <2> QED
    BY <2>1, <2>2
<1>7. o + Len(a) + Len(w2) <= Len(L2)
    BY <1>1, <1>2, <1>3
<1>8. Rest(L2, o, a, w2) /\ Whole(L2, o, a, w2)
    BY <1>1, <1>4, <1>5, <1>6, <1>7 DEF Rest, Whole
<1> QED
    BY <1>8 DEF L2, w2

\* Bytes arrive.
LEMMA RestArrived ==
    ASSUME NEW L \in Seq(Byte), NEW o, NEW a \in Seq(Byte), NEW w \in Seq(Byte),
           Rest(L, o, a, w), NEW k \in 1..Len(w)
    PROVE  /\ Rest(L, o, a \o SubSeq(w, 1, k), SubSeq(w, k + 1, Len(w)))
           /\ Whole(L, o, a, w) =>
                 Whole(L, o, a \o SubSeq(w, 1, k), SubSeq(w, k + 1, Len(w)))
<1>1. /\ o \in Nat /\ Len(L) \in Nat /\ Len(a) \in Nat /\ Len(w) \in Nat /\ k \in Nat
    BY DEF Rest
<1> DEFINE p == SubSeq(w, 1, k)
           a2 == a \o p
           w2 == SubSeq(w, k + 1, Len(w))
<1>2. p \in Seq(Byte) /\ Len(p) = k /\ \A j \in 1..k : p[j] = w[j]
    BY <1>1
<1>3. w2 \in Seq(Byte) /\ Len(w2) = Len(w) - k /\ \A j \in 1..Len(w2) : w2[j] = w[k + j]
    BY <1>1
<1> HIDE DEF p, w2
<1>4. /\ Len(a2) = Len(a) + k
      /\ \A j \in 1..Len(a) : a2[j] = a[j]
      /\ \A j \in 1..k : a2[Len(a) + j] = p[j]
    BY <1>1, <1>2, Joined
<1> HIDE DEF a2
<1>5. ASSUME NEW j \in 1..Len(a2)
      PROVE  a2[j] = L[o + j]
  <2>1. CASE j \in 1..Len(a)
    BY <1>4, <2>1 DEF Rest
  <2>2. CASE j \notin 1..Len(a)
    <3> DEFINE i == j - Len(a)
    <3>1. i \in 1..k /\ i \in 1..Len(w) /\ Len(a) + i = j /\ o + Len(a) + i = o + j
      BY <1>1, <1>4, <2>2
    <3> HIDE DEF i
    <3>2. a2[Len(a) + i] = w[i] /\ w[i] = L[o + Len(a) + i]
      BY <1>2, <1>4, <3>1 DEF Rest
    <3> QED
      BY <3>1, <3>2
  <2> QED
    BY <2>1, <2>2
<1>6. ASSUME NEW j \in 1..Len(w2)
      PROVE  w2[j] = L[o + Len(a2) + j]
  <2>1. k + j \in 1..Len(w) /\ o + Len(a) + (k + j) = o + Len(a2) + j
    BY <1>1, <1>3, <1>4
  <2>2. w[k + j] = L[o + Len(a) + (k + j)]
    BY <2>1 DEF Rest
  <2> QED
    BY <1>3, <2>1, <2>2
<1>7. o + Len(a2) + Len(w2) = o + Len(a) + Len(w)
    BY <1>1, <1>3, <1>4
<1>8. Rest(L, o, a2, w2) /\ (Whole(L, o, a, w) => Whole(L, o, a2, w2))
    BY <1>1, <1>5, <1>6, <1>7 DEF Rest, Whole
<1> QED
    BY <1>8 DEF a2, w2, p

\* A read takes the first k of the bytes that arrived.
LEMMA RestRead ==
    ASSUME NEW L \in Seq(Byte), NEW o, NEW a \in Seq(Byte), NEW w \in Seq(Byte),
           Rest(L, o, a, w), NEW k \in 0..Len(a)
    PROVE  /\ Rest(L, o + k, SubSeq(a, k + 1, Len(a)), w)
           /\ Whole(L, o, a, w) => Whole(L, o + k, SubSeq(a, k + 1, Len(a)), w)
<1>1. /\ o \in Nat /\ Len(L) \in Nat /\ Len(a) \in Nat /\ Len(w) \in Nat /\ k \in Nat
    BY DEF Rest
<1> DEFINE a2 == SubSeq(a, k + 1, Len(a))
<1>2. Len(a2) = Len(a) - k /\ \A j \in 1..Len(a2) : a2[j] = a[k + j]
    BY <1>1
<1> HIDE DEF a2
<1>3. ASSUME NEW j \in 1..Len(a2)
      PROVE  a2[j] = L[o + k + j]
  <2>1. k + j \in 1..Len(a) /\ o + (k + j) = o + k + j
    BY <1>1, <1>2
  <2>2. a[k + j] = L[o + (k + j)]
    BY <2>1 DEF Rest
  <2> QED
    BY <1>2, <2>1, <2>2
<1>4. o + k + Len(a2) = o + Len(a)
    BY <1>1, <1>2
<1>5. o + k \in Nat
    BY <1>1
<1>6. Rest(L, o + k, a2, w) /\ (Whole(L, o, a, w) => Whole(L, o + k, a2, w))
    BY <1>1, <1>3, <1>4, <1>5 DEF Rest, Whole
<1> QED
    BY <1>6 DEF a2

\* The connection breaks: the rest is a shorter one.
LEMMA RestLost ==
    ASSUME NEW L \in Seq(Byte), NEW o, NEW a \in Seq(Byte), NEW w \in Seq(Byte),
           Rest(L, o, a, w), NEW a2 \in {a, <<>>}
    PROVE  Rest(L, o, a2, <<>>)
<1>1. /\ o \in Nat /\ Len(L) \in Nat /\ Len(a) \in Nat /\ Len(w) \in Nat
      /\ o + Len(a) + Len(w) <= Len(L)
    BY DEF Rest
<1>2. Len(<<>>) = 0 /\ \A j \in 1..0 : FALSE
    OBVIOUS
<1>3. CASE a2 = a
  <2>1. o + Len(a) + 0 <= Len(L)
    BY <1>1
  <2> QED
    BY <1>1, <1>2, <1>3, <2>1 DEF Rest
<1>4. CASE a2 = <<>>
  <2>1. o + 0 + 0 <= Len(L)
    BY <1>1
  <2> QED
    BY <1>1, <1>2, <1>4, <2>1 DEF Rest
<1> QED
    BY <1>3, <1>4

------------------------------------------------------------------------------
(***************************************************************************)
(* The inductive invariant.  The receiver is in one of six phases; o is    *)
(* how far its reads have come in the log.                                 *)
(***************************************************************************)

\* The read of the next header is outstanding.
AwaitsHeader(pos, o) ==
    /\ thrown = "no" /\ myReceiveState = "HEADER" /\ loop \in {-1, 0}
    /\ reads = <<HEADER_SIZE>> /\ Len(myBuffer) = HEADER_SIZE
    /\ o = pos[Len(received) + 1]

\* The loop has the header of the next message.
HasHeader(pos, o) ==
    /\ thrown = "no" /\ myReceiveState = "HEADER" /\ loop = HEADER_SIZE
    /\ reads = <<>> /\ Len(myBuffer) = HEADER_SIZE
    /\ Len(received) < Len(sent)
    /\ \A j \in 1..HEADER_SIZE : myBuffer[j] = Encoded(Len(sent[Len(received) + 1]))[j]
    /\ o = pos[Len(received) + 1] + HEADER_SIZE

\* The size of the next message is known: it is not zero.
KnowsSize ==
    /\ thrown = "no" /\ myReceiveState = "MESSAGE"
    /\ Len(received) < Len(sent)
    /\ myIncomingMsgSize = Len(sent[Len(received) + 1])
    /\ myIncomingMsgSize # 0

\* The read of the message itself is outstanding.
AwaitsMessage(pos, o) ==
    /\ KnowsSize /\ loop \in {-1, 0}
    /\ reads = <<myIncomingMsgSize>> /\ Len(myBuffer) = myIncomingMsgSize
    /\ o = pos[Len(received) + 1] + HEADER_SIZE

\* The loop has the message.
HasMessage(pos, o) ==
    /\ KnowsSize /\ loop = myIncomingMsgSize
    /\ reads = <<>> /\ myBuffer = sent[Len(received) + 1]
    /\ o = pos[Len(received) + 2]

\* A header of zeros was refused.
RefusedSize ==
    /\ thrown = "size" /\ myReceiveState = "HEADER" /\ loop = -1 /\ reads = <<>>
    /\ Len(received) < Len(sent) /\ sent[Len(received) + 1] = <<>>

\* The message handler threw.
HandlerThrew ==
    /\ thrown = "handler" /\ myReceiveState = "MESSAGE" /\ loop = -1 /\ reads = <<>>

Phase(pos, o) ==
    \/ AwaitsHeader(pos, o) \/ HasHeader(pos, o)
    \/ AwaitsMessage(pos, o) \/ HasMessage(pos, o)
    \/ RefusedSize \/ HandlerThrew

\* The log, what is left of it, and the phase agree.
Stream(L, pos, o) ==
    /\ Log(L, pos, sent)
    /\ Rest(L, o, arrived, wire)
    /\ ~broken => Whole(L, o, arrived, wire)
    /\ Phase(pos, o)

Inv ==
    /\ TypeOK
    /\ broken => wire = <<>>
    /\ Len(received) <= Len(sent)
    /\ \E L, pos, o : Stream(L, pos, o)

\* The invariant implies the properties of Messenger.
LEMMA InvImplies == ASSUME Inv PROVE OneReadOutstanding /\ SizeAgrees
<1>1. PICK L, pos, o : Phase(pos, o)
    BY DEF Inv, Stream
<1>2. HEADER_SIZE \in Nat /\ HEADER_SIZE > 0 /\ myIncomingMsgSize \in Nat
    BY Sizes DEF Inv, TypeOK
<1>3. CASE AwaitsHeader(pos, o)
  <2>1. Len(reads) = 1 /\ reads # <<>> /\ Head(reads) = HEADER_SIZE
    BY <1>3 DEF AwaitsHeader
  <2> QED
    BY <1>3, <2>1 DEF AwaitsHeader, OneReadOutstanding, SizeAgrees
<1>4. CASE HasHeader(pos, o)
  <2>1. Len(reads) = 0 /\ reads = <<>> /\ loop # -1
    BY <1>2, <1>4 DEF HasHeader
  <2> QED
    BY <1>4, <2>1 DEF HasHeader, OneReadOutstanding, SizeAgrees
<1>5. CASE AwaitsMessage(pos, o)
  <2>1. Len(reads) = 1 /\ reads # <<>> /\ Head(reads) = myIncomingMsgSize
    BY <1>5 DEF AwaitsMessage
  <2> QED
    BY <1>5, <2>1 DEF AwaitsMessage, KnowsSize, OneReadOutstanding, SizeAgrees
<1>6. CASE HasMessage(pos, o)
  <2>1. Len(reads) = 0 /\ reads = <<>> /\ loop # -1
    BY <1>2, <1>6 DEF HasMessage
  <2> QED
    BY <1>6, <2>1 DEF HasMessage, KnowsSize, OneReadOutstanding, SizeAgrees
<1>7. CASE RefusedSize
    BY <1>7 DEF RefusedSize, OneReadOutstanding, SizeAgrees
<1>8. CASE HandlerThrew
    BY <1>8 DEF HandlerThrew, OneReadOutstanding, SizeAgrees
<1> QED
    BY <1>1, <1>3, <1>4, <1>5, <1>6, <1>7, <1>8 DEF Phase

\* The first read is outstanding, and nothing was written.
LEMMA InitInv == ASSUME Init PROVE Inv
<1> DEFINE pos == [i \in 1..1 |-> 0]
<1>1. Zeros(HEADER_SIZE) \in Seq(Byte) /\ Len(Zeros(HEADER_SIZE)) = HEADER_SIZE
  <2>1. 0 \in Byte
    BY Sizes DEF Byte
  <2> QED
    BY <2>1, Sizes DEF Zeros
<1>2. TypeOK
  <2>1. <<HEADER_SIZE>> \in Seq(0..MaxSize) /\ 0 \in 0..MaxSize /\ -1 \in Int
    BY Sizes
  <2>2. <<>> \in Seq(Byte) /\ <<>> \in Seq(Seq(Byte))
    OBVIOUS
  <2> QED
    BY <1>1, <2>1, <2>2 DEF Init, TypeOK
<1>3. Log(<<>>, pos, <<>>)
    BY DEF Log
<1>4. Rest(<<>>, 0, <<>>, <<>>) /\ Whole(<<>>, 0, <<>>, <<>>)
    BY DEF Rest, Whole
<1>5. pos[Len(<<>>) + 1] = 0
    OBVIOUS
<1> HIDE DEF pos
<1>6. Phase(pos, 0)
    BY <1>1, <1>5 DEF Init, Phase, AwaitsHeader
<1>7. Stream(<<>>, pos, 0)
    BY <1>3, <1>4, <1>6 DEF Init, Stream
<1>8. Len(<<>>) <= Len(<<>>)
    OBVIOUS
<1> QED
    BY <1>2, <1>7, <1>8 DEF Init, Inv

------------------------------------------------------------------------------
(***************************************************************************)
(* The steps of the sender and of the network.                             *)
(***************************************************************************)

\* A message more does not change the phase.
LEMMA PhaseWritten ==
    ASSUME Inv, NEW m \in Seq(Byte), NEW pos, NEW o, Phase(pos, o), NEW pos2,
           \A i \in 1..(Len(sent) + 1) : pos2[i] = pos[i],
           sent' = Append(sent, m), UNCHANGED receiverVars
    PROVE  Phase(pos2, o)'
<1>1. /\ sent \in Seq(Seq(Byte)) /\ received \in Seq(Seq(Byte))
      /\ Len(received) <= Len(sent)
    BY DEF Inv, TypeOK
<1>2. Len(sent') = Len(sent) + 1 /\ \A i \in 1..Len(sent) : sent'[i] = sent[i]
    BY <1>1
<1>3. Len(received) + 1 \in 1..(Len(sent) + 1)
    BY <1>1
<1>4. Len(received) < Len(sent) =>
        /\ Len(received) + 1 \in 1..Len(sent)
        /\ Len(received) + 2 \in 1..(Len(sent) + 1)
        /\ Len(received) < Len(sent')
    BY <1>1, <1>2
<1>5. pos2[Len(received) + 1] = pos[Len(received) + 1]
    BY <1>3
<1>6. Len(received) < Len(sent) =>
        /\ pos2[Len(received) + 2] = pos[Len(received) + 2]
        /\ sent'[Len(received) + 1] = sent[Len(received) + 1]
        /\ Len(received) < Len(sent')
    BY <1>2, <1>4
<1>7. CASE AwaitsHeader(pos, o)
    BY <1>5, <1>7 DEF AwaitsHeader, Phase, receiverVars
<1>8. CASE HasHeader(pos, o)
    BY <1>5, <1>6, <1>8 DEF HasHeader, Phase, receiverVars
<1>9. CASE AwaitsMessage(pos, o)
    BY <1>5, <1>6, <1>9 DEF AwaitsMessage, KnowsSize, Phase, receiverVars
<1>10. CASE HasMessage(pos, o)
    BY <1>6, <1>10 DEF HasMessage, KnowsSize, Phase, receiverVars
<1>11. CASE RefusedSize
    BY <1>6, <1>11 DEF RefusedSize, Phase, receiverVars
<1>12. CASE HandlerThrew
    BY <1>12 DEF HandlerThrew, Phase, receiverVars
<1> QED
    BY <1>7, <1>8, <1>9, <1>10, <1>11, <1>12 DEF Phase

\* A message is written.
LEMMA StepWritten ==
    ASSUME Inv, NEW m \in Seq(Byte), Len(m) \in 0..MaxSize, ~broken,
           wire' = wire \o Frame(m), sent' = Append(sent, m),
           UNCHANGED <<arrived, broken>>, UNCHANGED receiverVars
    PROVE  Inv'
<1>1. PICK L, pos, o : Stream(L, pos, o)
    BY DEF Inv
<1>2. /\ sent \in Seq(Seq(Byte)) /\ received \in Seq(Seq(Byte))
      /\ wire \in Seq(Byte) /\ arrived \in Seq(Byte)
      /\ Len(received) <= Len(sent)
    BY DEF Inv, TypeOK
<1>3. Frame(m) \in Seq(Byte) /\ L \in Seq(Byte)
    BY <1>1, FrameBytes DEF Stream, Log
<1>4. PICK pos2 : /\ Log(L \o Frame(m), pos2, sent')
                  /\ \A i \in 1..(Len(sent) + 1) : pos2[i] = pos[i]
    BY <1>1, <1>2, LogWritten DEF Stream
<1>5. /\ Rest(L \o Frame(m), o, arrived, wire \o Frame(m))
      /\ Whole(L \o Frame(m), o, arrived, wire \o Frame(m))
    BY <1>1, <1>2, <1>3, RestWritten DEF Stream
<1>6. Phase(pos2, o)'
    BY <1>1, <1>4, PhaseWritten DEF Stream
<1>7. Stream(L \o Frame(m), pos2, o)'
    BY <1>4, <1>5, <1>6 DEF Stream
<1>8. wire' \in Seq(Byte) /\ sent' \in Seq(Seq(Byte)) /\ Len(received') <= Len(sent')
    BY <1>2, <1>3 DEF receiverVars
<1>9. TypeOK'
    BY <1>8 DEF Inv, TypeOK, receiverVars
<1> QED
    BY <1>7, <1>8, <1>9 DEF Inv

LEMMA StepWrite ==
    ASSUME Inv, NEW m \in Texts, write_message_with_header(m)
    PROVE  Inv'
<1>1. m \in Seq(Byte)
    BY MessengerAssumption DEF Byte
<1>2. wire \in Seq(Byte)
    BY DEF Inv, TypeOK
<1>3. Len(m) \in Nat /\ HEADER_SIZE + Len(m) <= MaxSize - HEADER_SIZE
    BY <1>1, Sizes DEF write_message_with_header, TooLong
<1>4. Len(m) \in 0..MaxSize /\ Len(m) % (MaxSize + 1) = Len(m)
  <2>1. \A h, l, x \in Nat : h + l <= x - h => l \in 0..x /\ l % (x + 1) = l
    OBVIOUS
  <2> QED
    BY <1>3, <2>1, Sizes
<1>5. Encoded(Len(m)) \in Seq(Byte)
    BY <1>3, HeaderBytes
<1>6. wire' = (wire \o Encoded(Len(m))) \o m
    BY <1>4 DEF write_message_with_header
<1>7. wire' = wire \o Frame(m)
    BY <1>1, <1>2, <1>5, <1>6, ConcatAssociative DEF Frame
<1> QED
    BY <1>1, <1>4, <1>7, StepWritten DEF write_message_with_header

LEMMA StepWriteZero ==
    ASSUME Inv, WriteZeroSize
    PROVE  Inv'
<1>1. <<>> \in Seq(Byte) /\ Len(<<>>) = 0 /\ 0 \in 0..MaxSize
    BY Sizes
<1>2. Encoded(0) \in Seq(Byte)
    BY HeaderBytes
<1>3. Frame(<<>>) = Encoded(0)
    BY <1>1, <1>2, ConcatEmptySeq DEF Frame
<1> QED
    BY <1>1, <1>3, StepWritten DEF WriteZeroSize

LEMMA PhaseKept ==
    ASSUME NEW pos, NEW o, Phase(pos, o), UNCHANGED sent, UNCHANGED receiverVars
    PROVE  Phase(pos, o)'
BY DEF Phase, AwaitsHeader, HasHeader, AwaitsMessage, HasMessage, KnowsSize,
       RefusedSize, HandlerThrew, receiverVars

LEMMA StepArrive ==
    ASSUME Inv, NEW k \in 1..Len(wire), BytesArrive(k)
    PROVE  Inv'
<1>1. PICK L, pos, o : Stream(L, pos, o)
    BY DEF Inv
<1>2. wire \in Seq(Byte) /\ arrived \in Seq(Byte) /\ L \in Seq(Byte)
    BY <1>1 DEF Inv, TypeOK, Stream, Log
<1>3. /\ Rest(L, o, arrived', wire')
      /\ Whole(L, o, arrived, wire) => Whole(L, o, arrived', wire')
    BY <1>1, <1>2, RestArrived DEF Stream, BytesArrive
<1>4. Phase(pos, o)'
    BY <1>1, PhaseKept DEF Stream, BytesArrive
<1>5. Stream(L, pos, o)'
    BY <1>1, <1>3, <1>4 DEF Stream, BytesArrive
<1>6. wire' \in Seq(Byte) /\ arrived' \in Seq(Byte)
    BY <1>2 DEF BytesArrive
<1>7. TypeOK'
    BY <1>6 DEF Inv, TypeOK, BytesArrive, receiverVars
<1>8. broken' => wire' = <<>>
  <2>1. wire # <<>>
    BY <1>2
  <2> QED
    BY <2>1 DEF Inv, BytesArrive
<1> QED
    BY <1>5, <1>7, <1>8 DEF Inv, BytesArrive, receiverVars

LEMMA StepBreak ==
    ASSUME Inv, ConnectionBreaks
    PROVE  Inv'
<1>1. PICK L, pos, o : Stream(L, pos, o)
    BY DEF Inv
<1>2. wire \in Seq(Byte) /\ arrived \in Seq(Byte) /\ L \in Seq(Byte)
    BY <1>1 DEF Inv, TypeOK, Stream, Log
<1>3. Rest(L, o, arrived', wire')
    BY <1>1, <1>2, RestLost DEF Stream, ConnectionBreaks
<1>4. Phase(pos, o)'
    BY <1>1, PhaseKept DEF Stream, ConnectionBreaks
<1>5. Stream(L, pos, o)'
    BY <1>1, <1>3, <1>4 DEF Stream, ConnectionBreaks
<1>6. wire' \in Seq(Byte) /\ arrived' \in Seq(Byte)
  <2>1. <<>> \in Seq(Byte)
    OBVIOUS
  <2> QED
    BY <1>2, <2>1 DEF ConnectionBreaks
<1>7. TypeOK'
    BY <1>6 DEF Inv, TypeOK, ConnectionBreaks, receiverVars
<1> QED
    BY <1>5, <1>7 DEF Inv, ConnectionBreaks, receiverVars

------------------------------------------------------------------------------
(***************************************************************************)
(* The steps of the receiver.                                              *)
(***************************************************************************)

\* A read fills the buffer with the bytes that arrived first.
LEMMA BufferFilled ==
    ASSUME NEW a \in Seq(Byte), NEW b \in Seq(Byte), NEW n \in Nat,
           Len(b) = n, n <= Len(a)
    PROVE  LET c == SubSeq(a, 1, n) \o SubSeq(b, n + 1, Len(b))
           IN  c \in Seq(Byte) /\ Len(c) = n /\ \A j \in 1..n : c[j] = a[j]
<1> DEFINE p == SubSeq(a, 1, n)
<1>1. p \in Seq(Byte) /\ Len(p) = n /\ \A j \in 1..n : p[j] = a[j]
    OBVIOUS
<1>2. SubSeq(b, n + 1, Len(b)) = <<>>
    OBVIOUS
<1> HIDE DEF p
<1>3. p \o <<>> = p
    BY <1>1, ConcatEmptySeq
<1> QED
    BY <1>1, <1>2, <1>3 DEF p

\* Transport::read makes the buffer as long as what it asks for.
LEMMA BufferResized ==
    ASSUME NEW b \in Seq(Byte), NEW n \in Nat
    PROVE  LET c == SubSeq(b \o Zeros(n), 1, n)
           IN  c \in Seq(Byte) /\ Len(c) = n
<1>1. 0 \in Byte
    BY Sizes DEF Byte
<1>2. Zeros(n) \in Seq(Byte) /\ Len(Zeros(n)) = n
    BY <1>1 DEF Zeros
<1> DEFINE z == Zeros(n)
           d == b \o z
<1>3. z \in Seq(Byte) /\ Len(z) = n
    BY <1>2
<1> HIDE DEF z
<1>4. d \in Seq(Byte) /\ Len(d) = Len(b) + n
    BY <1>3, Joined
<1> HIDE DEF d
<1>5. n <= Len(d) /\ Len(b) \in Nat
    BY <1>4
<1>6. SubSeq(d, 1, n) \in Seq(Byte) /\ Len(SubSeq(d, 1, n)) = n
    BY <1>4, <1>5
<1> QED
    BY <1>6 DEF d, z

\* Where the next message is in the log.
LEMMA NextInLog ==
    ASSUME Inv, NEW L, NEW pos, Log(L, pos, sent)
    PROVE  /\ Len(received) \in Nat /\ Len(sent) \in Nat /\ Len(L) \in Nat
           /\ pos[Len(received) + 1] \in Nat
           /\ Len(received) = Len(sent) => pos[Len(received) + 1] = Len(L)
           /\ Len(received) < Len(sent) =>
                /\ sent[Len(received) + 1] \in Seq(Byte)
                /\ Len(sent[Len(received) + 1]) \in 0..MaxSize
                /\ pos[Len(received) + 2] = pos[Len(received) + 1] + HEADER_SIZE
                                              + Len(sent[Len(received) + 1])
                /\ \A j \in 1..HEADER_SIZE :
                     L[pos[Len(received) + 1] + j] = Encoded(Len(sent[Len(received) + 1]))[j]
                /\ \A j \in 1..Len(sent[Len(received) + 1]) :
                     L[pos[Len(received) + 1] + HEADER_SIZE + j] = sent[Len(received) + 1][j]
<1> DEFINE k == Len(received) + 1
<1>1. /\ sent \in Seq(Seq(Byte)) /\ received \in Seq(Seq(Byte))
      /\ Len(received) <= Len(sent) /\ L \in Seq(Byte)
    BY DEF Inv, TypeOK, Log
<1>2. /\ Len(received) \in Nat /\ Len(sent) \in Nat /\ Len(L) \in Nat
      /\ k \in 1..(Len(sent) + 1) /\ k + 1 = Len(received) + 2
      /\ Len(received) < Len(sent) => k \in 1..Len(sent)
      /\ Len(received) = Len(sent) => k = Len(sent) + 1
    BY <1>1
<1> HIDE DEF k
<1>3. pos[k] \in Nat /\ (Len(received) = Len(sent) => pos[k] = Len(L))
    BY <1>2 DEF Log
<1>4. ASSUME Len(received) < Len(sent)
      PROVE  /\ sent[k] \in Seq(Byte)
             /\ Len(sent[k]) \in 0..MaxSize
             /\ pos[k + 1] = pos[k] + HEADER_SIZE + Len(sent[k])
             /\ \A j \in 1..HEADER_SIZE : L[pos[k] + j] = Encoded(Len(sent[k]))[j]
             /\ \A j \in 1..Len(sent[k]) : L[pos[k] + HEADER_SIZE + j] = sent[k][j]
  <2>1. k \in 1..Len(sent)
    BY <1>2, <1>4
  <2> QED
    BY <1>1, <2>1 DEF Log
<1> QED
    BY <1>2, <1>3, <1>4 DEF k

\* A read of the header is completed.
LEMMA HeaderRecv ==
    ASSUME Inv, HandleRecv, NEW L, NEW pos, NEW o, Stream(L, pos, o), AwaitsHeader(pos, o)
    PROVE  /\ HasHeader(pos, o + HEADER_SIZE)'
           /\ Head(reads) = HEADER_SIZE /\ reads' = <<>>
<1> DEFINE k == Len(received) + 1
<1>1. arrived \in Seq(Byte) /\ myBuffer \in Seq(Byte) /\ wire \in Seq(Byte)
    BY DEF Inv, TypeOK
<1>2. Head(reads) = HEADER_SIZE /\ Tail(reads) = <<>>
    BY DEF AwaitsHeader
<1>3. HEADER_SIZE <= Len(arrived) /\ Len(myBuffer) = HEADER_SIZE
    BY <1>2 DEF HandleRecv, AwaitsHeader
<1>4. /\ Len(myBuffer') = HEADER_SIZE
      /\ \A j \in 1..HEADER_SIZE : myBuffer'[j] = arrived[j]
    BY <1>1, <1>2, <1>3, BufferFilled, Sizes DEF HandleRecv
<1>5. /\ Len(received) \in Nat /\ Len(sent) \in Nat /\ Len(L) \in Nat
      /\ Len(received) = Len(sent) => pos[k] = Len(L)
      /\ Len(received) < Len(sent) =>
           \A j \in 1..HEADER_SIZE : L[pos[k] + j] = Encoded(Len(sent[k]))[j]
    BY NextInLog DEF Stream
<1>6. o = pos[k] /\ o \in Nat /\ o + Len(arrived) + Len(wire) <= Len(L)
      /\ \A j \in 1..Len(arrived) : arrived[j] = L[o + j]
    BY DEF AwaitsHeader, Stream, Rest
<1>7. Len(received) < Len(sent)
  <2>1. Len(received) <= Len(sent)
    BY DEF Inv
  <2>2. Len(received) # Len(sent)
    <3> SUFFICES ASSUME Len(received) = Len(sent)
                 PROVE  FALSE
      OBVIOUS
    <3>1. o = Len(L)
      BY <1>5, <1>6
    <3> QED
      BY <1>1, <1>3, <1>6, <3>1, Sizes
  <2> QED
    BY <1>5, <2>1, <2>2
<1> HIDE DEF k
<1>8. \A j \in 1..HEADER_SIZE : myBuffer'[j] = Encoded(Len(sent[k]))[j]
  <2> TAKE j \in 1..HEADER_SIZE
  <2>1. j \in 1..Len(arrived)
    BY <1>1, <1>3, Sizes
  <2> QED
    BY <1>4, <1>5, <1>6, <1>7, <2>1
<1>9. o + HEADER_SIZE = pos[k] + HEADER_SIZE
    BY <1>6
<1> QED
    BY <1>2, <1>4, <1>7, <1>8, <1>9 DEF HandleRecv, AwaitsHeader, HasHeader, k

\* A read of a message is completed.
LEMMA MessageRecv ==
    ASSUME Inv, HandleRecv, NEW L, NEW pos, NEW o, Stream(L, pos, o), AwaitsMessage(pos, o),
           NEW n, n = myIncomingMsgSize
    PROVE  /\ HasMessage(pos, o + n)'
           /\ Head(reads) = n /\ reads' = <<>>
<1> DEFINE k == Len(received) + 1
           m == sent[k]
<1>1. arrived \in Seq(Byte) /\ myBuffer \in Seq(Byte) /\ wire \in Seq(Byte)
    BY DEF Inv, TypeOK
<1>2. Head(reads) = n /\ Tail(reads) = <<>>
    BY DEF AwaitsMessage
<1>3. n \in Nat /\ n <= Len(arrived) /\ Len(myBuffer) = n /\ n = Len(m)
    BY <1>2, Sizes DEF HandleRecv, AwaitsMessage, KnowsSize, Inv, TypeOK
<1>4. /\ myBuffer' \in Seq(Byte) /\ Len(myBuffer') = n
      /\ \A j \in 1..n : myBuffer'[j] = arrived[j]
  <2>1. myBuffer' = SubSeq(arrived, 1, n) \o SubSeq(myBuffer, n + 1, Len(myBuffer))
    BY <1>2 DEF HandleRecv
  <2>2. n \in Nat /\ n <= Len(arrived) /\ Len(myBuffer) = n
    BY <1>3
  <2> QED
    BY <1>1, <2>1, <2>2, BufferFilled
<1>5. /\ m \in Seq(Byte) /\ pos[k] \in Nat
      /\ pos[Len(received) + 2] = pos[k] + HEADER_SIZE + Len(m)
      /\ \A j \in 1..Len(m) : L[pos[k] + HEADER_SIZE + j] = m[j]
    BY NextInLog DEF Stream, AwaitsMessage, KnowsSize
<1>6. o = pos[k] + HEADER_SIZE /\ \A j \in 1..Len(arrived) : arrived[j] = L[o + j]
    BY DEF AwaitsMessage, Stream, Rest
<1>7. \A j \in 1..n : myBuffer'[j] = m[j]
  <2> TAKE j \in 1..n
  <2>1. j \in 1..Len(arrived) /\ j \in 1..Len(m)
    BY <1>1, <1>3
  <2>2. arrived[j] = L[pos[k] + HEADER_SIZE + j]
    BY <1>6, <2>1
  <2> QED
    BY <1>4, <1>5, <2>1, <2>2
<1>8. myBuffer' = m
  <2> HIDE DEF m
  <2> QED
    BY <1>3, <1>4, <1>5, <1>7, SeqEqual
<1>9. o + n = pos[Len(received) + 2]
    BY <1>3, <1>5, <1>6
<1> QED
    BY <1>2, <1>8, <1>9 DEF HandleRecv, AwaitsMessage, KnowsSize, HasMessage

LEMMA StepHandleRecv ==
    ASSUME Inv, HandleRecv
    PROVE  Inv'
<1>1. PICK L, pos, o : Stream(L, pos, o)
    BY DEF Inv
<1>2. wire \in Seq(Byte) /\ arrived \in Seq(Byte) /\ L \in Seq(Byte)
      /\ myBuffer \in Seq(Byte)
    BY <1>1 DEF Inv, TypeOK, Stream, Log
<1>3. AwaitsHeader(pos, o) \/ AwaitsMessage(pos, o)
    BY <1>1 DEF HandleRecv, Stream, Phase, HasHeader, HasMessage, RefusedSize, HandlerThrew
<1>11. PICK n : n = Head(reads)
    OBVIOUS
<1>4. n \in 0..MaxSize /\ Len(myBuffer) = n /\ n <= Len(arrived) /\ n \in Nat
  <2>1. n \in 0..MaxSize /\ Len(myBuffer) = n
    BY <1>3, <1>11, Sizes DEF AwaitsHeader, AwaitsMessage, Inv, TypeOK
  <2>2. n <= Len(arrived)
    BY <1>11 DEF HandleRecv
  <2> QED
    BY <2>1, <2>2, Sizes
<1>5. reads' = <<>> /\ Phase(pos, o + n)'
  <2>1. CASE AwaitsHeader(pos, o)
    BY <1>1, <1>11, <2>1, HeaderRecv DEF Phase
  <2>2. CASE AwaitsMessage(pos, o)
    <3>1. Head(reads) = myIncomingMsgSize
      BY <2>2 DEF AwaitsMessage
    <3> QED
      BY <1>1, <1>11, <2>2, <3>1, MessageRecv DEF Phase
  <2> QED
    BY <1>3, <2>1, <2>2
<1>6. n \in 0..Len(arrived)
    BY <1>2, <1>4
<1>7. /\ Rest(L, o + n, arrived', wire)
      /\ Whole(L, o, arrived, wire) => Whole(L, o + n, arrived', wire)
    BY <1>1, <1>2, <1>6, <1>11, RestRead DEF Stream, HandleRecv
<1>8. Stream(L, pos, o + n)'
    BY <1>1, <1>5, <1>7 DEF Stream, HandleRecv
<1>9. /\ arrived' \in Seq(Byte) /\ myBuffer' \in Seq(Byte)
      /\ reads' \in Seq(0..MaxSize) /\ loop' \in Int
  <2>1. arrived' \in Seq(Byte)
    BY <1>2, <1>4, <1>11 DEF HandleRecv
  <2>2. myBuffer' \in Seq(Byte)
    BY <1>2, <1>4, <1>11, BufferFilled DEF HandleRecv
  <2>3. reads' \in Seq(0..MaxSize)
    BY <1>5
  <2>4. loop' \in Int
    BY <1>4, <1>11 DEF HandleRecv
  <2> QED
    BY <2>1, <2>2, <2>3, <2>4
<1>10. TypeOK'
    BY <1>9 DEF Inv, TypeOK, HandleRecv
<1> QED
    BY <1>8, <1>10 DEF Inv, HandleRecv

LEMMA StepLoopHeader ==
    ASSUME Inv, LoopHeader
    PROVE  Inv'
<1>1. PICK L, pos, o : Stream(L, pos, o)
    BY DEF Inv
<1>2. myBuffer \in Seq(Byte) /\ loop \in Int
    BY DEF Inv, TypeOK
<1>3. HasHeader(pos, o)
  <2>1. loop # -1 /\ loop # 0
    BY Sizes DEF LoopHeader
  <2> QED
    BY <1>1, <2>1 DEF LoopHeader, Stream, Phase, AwaitsHeader, AwaitsMessage, HasMessage,
                      KnowsSize, RefusedSize, HandlerThrew
<1> DEFINE m == sent[Len(received) + 1]
<1>4. m \in Seq(Byte) /\ Len(m) \in 0..MaxSize /\ Len(received) < Len(sent)
    BY <1>1, <1>3, NextInLog DEF Stream, HasHeader
<1>5. myIncomingMsgSize' = Len(m)
  <2>1. Decoded(myBuffer) = Len(m)
    BY <1>3, <1>4, HeaderRead DEF HasHeader
  <2> QED
    BY <2>1 DEF LoopHeader
<1>6. CASE myIncomingMsgSize' # 0
  <2>1. /\ myReceiveState' = "MESSAGE" /\ thrown' = thrown /\ loop' = loop - HEADER_SIZE
        /\ reads' = Append(reads, myIncomingMsgSize')
        /\ myBuffer' = SubSeq(myBuffer \o Zeros(myIncomingMsgSize'), 1, myIncomingMsgSize')
    BY <1>6 DEF LoopHeader, SizeValid, StartRead
  <2>2. loop' = 0
    BY <1>3, <2>1, Sizes DEF HasHeader
  <2>3. reads' = <<myIncomingMsgSize'>>
    BY <1>3, <2>1 DEF HasHeader
  <2>4. myIncomingMsgSize' \in Nat
    BY <1>4, <1>5, Sizes
  <2>5. myBuffer' \in Seq(Byte) /\ Len(myBuffer') = myIncomingMsgSize'
    BY <1>2, <2>1, <2>4, BufferResized
  <2>6. AwaitsMessage(pos, o)'
    BY <1>3, <1>4, <1>5, <1>6, <2>1, <2>2, <2>3, <2>5
       DEF HasHeader, AwaitsMessage, KnowsSize, LoopHeader
  <2>7. Stream(L, pos, o)'
    BY <1>1, <2>6 DEF Stream, Phase, LoopHeader
  <2>8. reads' \in Seq(0..MaxSize) /\ myIncomingMsgSize' \in 0..MaxSize
    BY <1>4, <1>5, <2>3
  <2>9. TypeOK'
    <3>1. UNCHANGED <<wire, arrived, broken, sent, received>>
      BY DEF LoopHeader
    <3>2. loop' \in Int
      BY <2>2
    <3> QED
      BY <2>1, <2>5, <2>8, <3>1, <3>2 DEF Inv, TypeOK
  <2> QED
    BY <2>7, <2>9 DEF Inv, LoopHeader
<1>7. CASE myIncomingMsgSize' = 0
  <2>1. /\ thrown' = "size" /\ loop' = -1
        /\ UNCHANGED <<myReceiveState, reads, myBuffer>>
    BY <1>7 DEF LoopHeader, SizeValid
  <2>2. m = <<>>
    <3> HIDE DEF m
    <3> QED
      BY <1>4, <1>5, <1>7, EmptySeq
  <2>3. RefusedSize'
    BY <1>3, <1>4, <2>1, <2>2 DEF HasHeader, RefusedSize, LoopHeader
  <2>4. Stream(L, pos, o)'
    BY <1>1, <2>3 DEF Stream, Phase, LoopHeader
  <2>5. myIncomingMsgSize' \in 0..MaxSize /\ loop' \in Int
    BY <1>4, <1>5, <2>1
  <2>6. TypeOK'
    BY <2>1, <2>5 DEF Inv, TypeOK, LoopHeader
  <2> QED
    BY <2>4, <2>6 DEF Inv, LoopHeader
<1> QED
    BY <1>6, <1>7

\* The loop gives the handler the next message, which ends the phase.
LEMMA MessageHandled ==
    ASSUME Inv, LoopMessage, NEW L, NEW pos, NEW o, Stream(L, pos, o)
    PROVE  /\ HasMessage(pos, o)
           /\ received' = Append(received, sent[Len(received) + 1])
<1>1. loop \in Int /\ myIncomingMsgSize \in Nat
    BY Sizes DEF Inv, TypeOK
<1>2. loop # -1
    BY <1>1 DEF LoopMessage
<1>3. KnowsSize => loop # 0
    BY <1>1 DEF LoopMessage, KnowsSize
<1>4. HasMessage(pos, o)
    BY <1>2, <1>3 DEF LoopMessage, Stream, Phase, AwaitsHeader, HasHeader, AwaitsMessage,
                      RefusedSize, HandlerThrew
<1> QED
    BY <1>4 DEF LoopMessage, HasMessage

LEMMA StepLoopMessage ==
    ASSUME Inv, LoopMessage
    PROVE  Inv'
<1>1. PICK L, pos, o : Stream(L, pos, o)
    BY DEF Inv
<1>2. /\ myBuffer \in Seq(Byte) /\ received \in Seq(Seq(Byte)) /\ sent \in Seq(Seq(Byte))
      /\ Len(received) \in Nat /\ Len(sent) \in Nat
    BY DEF Inv, TypeOK
<1>3. HasMessage(pos, o) /\ Len(received) < Len(sent)
    BY <1>1, MessageHandled DEF HasMessage, KnowsSize
<1>4. /\ received' = Append(received, myBuffer) /\ received' \in Seq(Seq(Byte))
      /\ Len(received') = Len(received) + 1
    BY <1>2 DEF LoopMessage
<1>5. Len(received') <= Len(sent) /\ Len(received') + 1 = Len(received) + 2
    BY <1>2, <1>3, <1>4
<1>6. CASE /\ myReceiveState' = NextReceiveState /\ StartRead(HEADER_SIZE)
           /\ loop' = loop - myIncomingMsgSize /\ UNCHANGED thrown
  <2>1. /\ myReceiveState' = "HEADER"
        /\ reads' = Append(reads, HEADER_SIZE)
        /\ myBuffer' = SubSeq(myBuffer \o Zeros(HEADER_SIZE), 1, HEADER_SIZE)
    BY <1>6 DEF NextReceiveState, StartRead
  <2>2. loop' = 0
    <3>1. myIncomingMsgSize \in Nat /\ loop = myIncomingMsgSize
      BY <1>3, Sizes DEF HasMessage, Inv, TypeOK
    <3> QED
      BY <1>6, <3>1
  <2>3. reads' = <<HEADER_SIZE>>
    BY <1>3, <2>1 DEF HasMessage
  <2>4. myBuffer' \in Seq(Byte) /\ Len(myBuffer') = HEADER_SIZE
    BY <1>2, <2>1, BufferResized, Sizes
  <2>5. o = pos[Len(received') + 1]
    BY <1>3, <1>5 DEF HasMessage
  <2>6. AwaitsHeader(pos, o)'
    BY <1>3, <1>6, <2>1, <2>2, <2>3, <2>4, <2>5 DEF HasMessage, KnowsSize, AwaitsHeader
  <2>7. Stream(L, pos, o)'
    BY <1>1, <2>6 DEF Stream, Phase, LoopMessage
  <2>8. reads' \in Seq(0..MaxSize) /\ loop' \in Int
    BY <2>2, <2>3, Sizes
  <2>9. TypeOK'
    BY <1>4, <1>6, <2>1, <2>4, <2>8 DEF Inv, TypeOK, LoopMessage
  <2> QED
    BY <1>5, <2>7, <2>9 DEF Inv, LoopMessage
<1>7. CASE /\ thrown' = "handler" /\ loop' = -1
           /\ UNCHANGED <<myReceiveState, reads, myBuffer>>
  <2>1. HandlerThrew'
    BY <1>3, <1>7 DEF HasMessage, KnowsSize, HandlerThrew
  <2>2. Stream(L, pos, o)'
    BY <1>1, <2>1 DEF Stream, Phase, LoopMessage
  <2>3. loop' \in Int
    BY <1>7
  <2>4. TypeOK'
    BY <1>4, <1>7, <2>3 DEF Inv, TypeOK, LoopMessage
  <2> QED
    BY <1>5, <2>2, <2>4 DEF Inv, LoopMessage
<1> QED
    BY <1>6, <1>7 DEF LoopMessage

LEMMA StepLoopEnds ==
    ASSUME Inv, LoopEnds
    PROVE  Inv'
<1>1. PICK L, pos, o : Stream(L, pos, o)
    BY DEF Inv
<1>2. loop \in Int /\ myIncomingMsgSize \in Nat
    BY Sizes DEF Inv, TypeOK
<1>3. /\ loop # -1
      /\ myReceiveState = "HEADER" => loop # HEADER_SIZE
      /\ myReceiveState = "MESSAGE" => loop # myIncomingMsgSize
    BY <1>2, Sizes DEF LoopEnds
<1>4. AwaitsHeader(pos, o) \/ AwaitsMessage(pos, o)
    BY <1>1, <1>3 DEF Stream, Phase, HasHeader, HasMessage, KnowsSize, RefusedSize,
                      HandlerThrew
<1>5. Phase(pos, o)'
    BY <1>4 DEF Phase, AwaitsHeader, AwaitsMessage, KnowsSize, LoopEnds
<1>6. Stream(L, pos, o)'
    BY <1>1, <1>5 DEF Stream, LoopEnds
<1>7. TypeOK'
    BY DEF Inv, TypeOK, LoopEnds
<1> QED
    BY <1>6, <1>7 DEF Inv, LoopEnds

LEMMA StepInv == ASSUME Inv, [Next]_vars PROVE Inv'
<1>1. CASE Next
    BY <1>1, StepWrite, StepWriteZero, StepArrive, StepBreak, StepHandleRecv,
       StepLoopHeader, StepLoopMessage, StepLoopEnds DEF Next, Receive
<1>2. CASE UNCHANGED vars
  <2>1. PICK L, pos, o : Stream(L, pos, o)
    BY DEF Inv
  <2>2. Phase(pos, o)'
    BY <1>2, <2>1, PhaseKept DEF Stream, vars, receiverVars
  <2>3. Stream(L, pos, o)'
    BY <1>2, <2>1, <2>2 DEF Stream, vars
  <2>4. TypeOK'
    BY <1>2 DEF Inv, TypeOK, vars
  <2> QED
    BY <1>2, <2>3, <2>4 DEF Inv, vars
<1> QED
    BY <1>1, <1>2

(***************************************************************************)
(* For every base, header, set of messages and number of messages: what is *)
(* on the wire, what arrived and what the receiver has read are the bytes  *)
(* of the messages written, and the receiver is at the beginning of one or *)
(* just after its header.                                                  *)
(***************************************************************************)
THEOREM StreamCorrect == Spec => []Inv
<1>1. Init => Inv
    BY InitInv
<1>2. Inv /\ [Next]_vars => Inv'
    BY StepInv
<1> QED
    BY <1>1, <1>2, PTL DEF Spec

(***************************************************************************)
(* Type correctness.  It needs the rest of the invariant: the size in a    *)
(* header is within bounds because the header is one that was written.     *)
(***************************************************************************)
THEOREM TypeCorrect == Spec => []TypeOK
<1>1. Inv => TypeOK
    BY DEF Inv
<1> QED
    BY <1>1, StreamCorrect, PTL

(***************************************************************************)
(* At most one async_read is outstanding, and none only while the loop has *)
(* data or after an exception, for every base, header and message.         *)
(***************************************************************************)
THEOREM OneReadCorrect == Spec => []OneReadOutstanding
<1>1. Inv => OneReadOutstanding
    BY InvImplies
<1> QED
    BY <1>1, StreamCorrect, PTL

(***************************************************************************)
(* The size read from a header is the length of the message that follows,  *)
(* and only a header of zeros is refused: the check of the length in       *)
(* write_message_with_header is sufficient, for every base and header.     *)
(***************************************************************************)
THEOREM SizeCorrect == Spec => []SizeAgrees
<1>1. Inv => SizeAgrees
    BY InvImplies
<1> QED
    BY <1>1, StreamCorrect, PTL

------------------------------------------------------------------------------
(***************************************************************************)
(* The steps of the channel.                                               *)
(***************************************************************************)

\* A step that gives the handler nothing and does not reopen the channel ends
\* it or is not seen.
LEMMA QuietStep ==
    ASSUME UNCHANGED <<sent, received>>, Ended => Ended'
    PROVE  [Channel!Next]_(Channel!channelVars)
<1>1. Ended \in BOOLEAN /\ Ended' \in BOOLEAN
    BY DEF Ended
<1>2. CASE Ended'
    BY <1>1, <1>2 DEF Channel!Next, Channel!End
<1>3. CASE ~Ended'
    BY <1>1, <1>3 DEF Channel!channelVars
<1> QED
    BY <1>2, <1>3

\* Whether the next message is in hand, in the phases of the receiver.
LEMMA InHand ==
    ASSUME Inv, NEW L, NEW pos, NEW o, Stream(L, pos, o)
    PROVE  /\ AwaitsHeader(pos, o) =>
                (MessageInHand <=> /\ Len(arrived) >= HEADER_SIZE
                                   /\ Len(arrived) >= HEADER_SIZE + Decoded(arrived))
           /\ HasHeader(pos, o) => (MessageInHand <=> Len(arrived) >= Decoded(myBuffer))
           /\ AwaitsMessage(pos, o) => (MessageInHand <=> Len(arrived) >= myIncomingMsgSize)
           /\ HasMessage(pos, o) => MessageInHand
<1>1. HEADER_SIZE \in Nat /\ HEADER_SIZE > 0 /\ myIncomingMsgSize \in Nat
    BY Sizes DEF Inv, TypeOK
<1>2. ~(-1 >= HEADER_SIZE) /\ ~(0 >= HEADER_SIZE) /\ -1 < HEADER_SIZE /\ 0 < HEADER_SIZE
      /\ HEADER_SIZE >= HEADER_SIZE /\ ~(HEADER_SIZE < HEADER_SIZE)
      /\ myIncomingMsgSize >= myIncomingMsgSize
      /\ (myIncomingMsgSize # 0 => ~(-1 >= myIncomingMsgSize) /\ ~(0 >= myIncomingMsgSize))
    BY <1>1
<1>3. AwaitsHeader(pos, o) =>
        (MessageInHand <=> /\ Len(arrived) >= HEADER_SIZE
                           /\ Len(arrived) >= HEADER_SIZE + Decoded(arrived))
    BY <1>2 DEF AwaitsHeader, MessageInHand
<1>4. HasHeader(pos, o) => (MessageInHand <=> Len(arrived) >= Decoded(myBuffer))
    BY <1>2 DEF HasHeader, MessageInHand
<1>5. AwaitsMessage(pos, o) => (MessageInHand <=> Len(arrived) >= myIncomingMsgSize)
    BY <1>2 DEF AwaitsMessage, KnowsSize, MessageInHand
<1>6. HasMessage(pos, o) => MessageInHand
    BY <1>2 DEF HasMessage, KnowsSize, MessageInHand
<1> QED
    BY <1>3, <1>4, <1>5, <1>6

\* A message written is sent over the channel.
LEMMA SendStep ==
    ASSUME NEW m \in Texts \cup {<<>>}, ~broken, sent' = Append(sent, m),
           UNCHANGED broken, UNCHANGED receiverVars
    PROVE  Channel!Next
<1>1. Ended' = Ended
    BY DEF Ended, receiverVars
<1> QED
    BY <1>1 DEF Channel!Next, Channel!Send, receiverVars

\* A completed read of a header leaves the message in hand or not, as it was.
LEMMA RecvStep ==
    ASSUME Inv, Inv', HandleRecv
    PROVE  Ended => Ended'
<1>1. PICK L, pos, o : Stream(L, pos, o)
    BY DEF Inv
<1>2. AwaitsHeader(pos, o) \/ AwaitsMessage(pos, o)
    BY <1>1 DEF HandleRecv, Stream, Phase, HasHeader, HasMessage, RefusedSize, HandlerThrew
<1>3. thrown' = thrown /\ broken' = broken
    BY DEF HandleRecv
<1>4. CASE AwaitsMessage(pos, o)
  <2>1. Len(arrived) >= myIncomingMsgSize
    BY <1>4 DEF HandleRecv, AwaitsMessage
  <2>2. MessageInHand /\ thrown = "no"
    BY <1>1, <1>4, <2>1, InHand DEF AwaitsMessage, KnowsSize
  <2> QED
    BY <2>2 DEF Ended
<1>5. CASE AwaitsHeader(pos, o)
  <2>1. HasHeader(pos, o + HEADER_SIZE)'
    BY <1>1, <1>5, HeaderRecv
  <2> DEFINE m == sent[Len(received) + 1]
  <2>2. sent' = sent /\ received' = received
    BY DEF HandleRecv
  <2>3. /\ Len(received) < Len(sent) /\ myReceiveState' = "HEADER" /\ loop' = HEADER_SIZE
        /\ \A j \in 1..HEADER_SIZE : myBuffer'[j] = Encoded(Len(m))[j]
    BY <2>1, <2>2 DEF HasHeader
  <2>4. Len(m) \in 0..MaxSize
    BY <1>1, <2>3, NextInLog DEF Stream
  <2>5. Decoded(myBuffer') = Len(m)
    BY <2>3, <2>4, HeaderRead
  <2>6. /\ arrived \in Seq(Byte) /\ myBuffer \in Seq(Byte)
        /\ Len(arrived) >= HEADER_SIZE /\ Len(myBuffer) = HEADER_SIZE /\ Head(reads) = HEADER_SIZE
    BY <1>5 DEF HandleRecv, AwaitsHeader, Inv, TypeOK
  <2>7. \A j \in 1..HEADER_SIZE : myBuffer'[j] = arrived[j]
    BY <2>6, BufferFilled, Sizes DEF HandleRecv
  <2>8. Decoded(arrived) = Len(m)
    BY <2>3, <2>4, <2>7, HeaderRead
  <2>9. Len(arrived') = Len(arrived) - HEADER_SIZE
    <3>1. arrived' = SubSeq(arrived, HEADER_SIZE + 1, Len(arrived))
      BY <2>6 DEF HandleRecv
    <3>2. \A a \in Seq(Byte), h \in Nat :
             h <= Len(a) => Len(SubSeq(a, h + 1, Len(a))) = Len(a) - h
      OBVIOUS
    <3> QED
      BY <2>6, <3>1, <3>2, Sizes
  <2>10. MessageInHand' => Len(arrived') >= Len(m)
    <3>1. ~(HEADER_SIZE < HEADER_SIZE)
      BY Sizes
    <3> QED
      BY <2>3, <2>5, <3>1 DEF MessageInHand
  <2>11. Len(arrived') >= Len(m) => Len(arrived) >= HEADER_SIZE + Len(m)
    <3>1. Len(m) \in Nat /\ Len(arrived) \in Nat
      BY <2>4, <2>6, Sizes
    <3> QED
      BY <2>9, <3>1, Sizes
  <2>12. MessageInHand' => MessageInHand
    BY <1>1, <1>5, <2>6, <2>8, <2>10, <2>11, InHand
  <2> QED
    BY <1>3, <2>12 DEF Ended
<1> QED
    BY <1>2, <1>4, <1>5

\* Nor does reading the header, which ends the channel if it refuses the size.
LEMMA HeaderStep ==
    ASSUME Inv, LoopHeader
    PROVE  Ended => Ended'
<1>1. PICK L, pos, o : Stream(L, pos, o)
    BY DEF Inv
<1>2. HasHeader(pos, o)
  <2>1. loop # -1 /\ loop # 0
    BY Sizes DEF LoopHeader
  <2> QED
    BY <1>1, <2>1 DEF LoopHeader, Stream, Phase, AwaitsHeader, AwaitsMessage, HasMessage,
                      KnowsSize, RefusedSize, HandlerThrew
<1>3. myIncomingMsgSize' = Decoded(myBuffer) /\ arrived' = arrived /\ broken' = broken
    BY DEF LoopHeader
<1>4. CASE myIncomingMsgSize' = 0
  <2>1. thrown' = "size"
    BY <1>4 DEF LoopHeader, SizeValid
  <2> QED
    BY <2>1 DEF Ended
<1>5. CASE myIncomingMsgSize' # 0
  <2>1. myReceiveState' = "MESSAGE" /\ thrown' = thrown /\ loop' = loop - HEADER_SIZE
    BY <1>5 DEF LoopHeader, SizeValid
  <2>2. loop' = 0
    BY <1>2, <2>1, Sizes DEF HasHeader
  <2>3. ~(loop' >= myIncomingMsgSize')
    <3> DEFINE m == sent[Len(received) + 1]
    <3>1. Len(m) \in 0..MaxSize
      BY <1>1, <1>2, NextInLog DEF Stream, HasHeader
    <3>2. Decoded(myBuffer) = Len(m)
      BY <1>2, <3>1, HeaderRead DEF HasHeader
    <3>3. myIncomingMsgSize' \in Nat
      BY <1>3, <3>1, <3>2, Sizes
    <3> QED
      BY <1>5, <2>2, <3>3
  <2>4. MessageInHand' => Len(arrived) >= Decoded(myBuffer)
    BY <1>3, <2>1, <2>3 DEF MessageInHand
  <2>5. MessageInHand' => MessageInHand
    BY <1>1, <1>2, <2>4, InHand
  <2> QED
    BY <1>3, <2>1, <2>5 DEF Ended
<1> QED
    BY <1>4, <1>5

\* Nor does the end of the loop.
LEMMA EndsStep ==
    ASSUME Inv, LoopEnds
    PROVE  Ended => Ended'
<1>1. HEADER_SIZE \in Nat /\ HEADER_SIZE > 0 /\ myIncomingMsgSize \in Nat /\ loop \in Int
    BY Sizes DEF Inv, TypeOK
<1>2. /\ loop' = -1 /\ loop >= 0
      /\ UNCHANGED <<arrived, myBuffer, myReceiveState, myIncomingMsgSize, thrown, broken>>
    BY DEF LoopEnds
<1>3. ~(-1 >= HEADER_SIZE) /\ ~(-1 >= myIncomingMsgSize)
    BY <1>1
<1>4. myReceiveState = "HEADER" => loop < HEADER_SIZE
    BY DEF LoopEnds
<1>5. MessageInHand' => MessageInHand
    BY <1>2, <1>3, <1>4 DEF MessageInHand
<1> QED
    BY <1>2, <1>5 DEF Ended

\* The handler is given the next message of the channel.
LEMMA DeliverStep ==
    ASSUME Inv, LoopMessage
    PROVE  Channel!Next
<1>1. PICK L, pos, o : Stream(L, pos, o)
    BY DEF Inv
<1>2. HasMessage(pos, o) /\ received' = Append(received, sent[Len(received) + 1])
    BY <1>1, MessageHandled
<1>3. ~Ended
    BY <1>1, <1>2, InHand DEF Ended, HasMessage, KnowsSize
<1>4. Ended' \in BOOLEAN /\ Len(received) < Len(sent) /\ UNCHANGED sent
    BY <1>2 DEF Ended, HasMessage, KnowsSize, LoopMessage
<1> QED
    BY <1>2, <1>3, <1>4 DEF Channel!Next, Channel!Deliver

(***************************************************************************)
(* Refinement: whatever the bytes of the messages, however TCP cuts them   *)
(* and wherever the connection breaks or a handler throws, the handler is  *)
(* given exactly the messages written, whole, in order and once each, and  *)
(* none after the end of the channel.  write_message_with_header is Send,  *)
(* the call of the handler is Deliver, and every other step ends the       *)
(* channel or is not seen.                                                 *)
(***************************************************************************)
THEOREM ChannelKept == Spec => ImplementsChannel
<1>1. Init => Channel!Init
    BY DEF Init, Channel!Init, Ended
<1>2. Inv /\ Inv' /\ [Next]_vars => [Channel!Next]_(Channel!channelVars)
  <2> SUFFICES ASSUME Inv, Inv', [Next]_vars
               PROVE  [Channel!Next]_(Channel!channelVars)
    OBVIOUS
  <2>1. ASSUME NEW m \in Texts, write_message_with_header(m)
        PROVE  Channel!Next
    BY <2>1, SendStep DEF write_message_with_header
  <2>2. CASE WriteZeroSize
    BY <2>2, SendStep DEF WriteZeroSize
  <2>3. ASSUME NEW k \in 1..Len(wire), BytesArrive(k)
        PROVE  [Channel!Next]_(Channel!channelVars)
    <3>1. wire # <<>>
      BY DEF Inv, TypeOK
    <3>2. ~broken
      BY <3>1 DEF Inv
    <3>3. Ended => Ended'
      BY <2>3, <3>2 DEF Ended, BytesArrive, receiverVars
    <3> QED
      BY <2>3, <3>3, QuietStep DEF BytesArrive, receiverVars
  <2>4. CASE ConnectionBreaks
    <3>1. Ended => Ended'
      BY <2>4 DEF Ended, ConnectionBreaks, receiverVars
    <3> QED
      BY <2>4, <3>1, QuietStep DEF ConnectionBreaks, receiverVars
  <2>5. CASE HandleRecv
    BY <2>5, RecvStep, QuietStep DEF HandleRecv
  <2>6. CASE LoopHeader
    BY <2>6, HeaderStep, QuietStep DEF LoopHeader
  <2>7. CASE LoopMessage
    BY <2>7, DeliverStep
  <2>8. CASE LoopEnds
    BY <2>8, EndsStep, QuietStep DEF LoopEnds
  <2>9. CASE UNCHANGED vars
    <3>1. Ended' = Ended
      BY <2>9 DEF vars, Ended, MessageInHand
    <3> QED
      BY <2>9, <3>1, QuietStep DEF vars
  <2> QED
    BY <2>1, <2>2, <2>3, <2>4, <2>5, <2>6, <2>7, <2>8, <2>9 DEF Next, Receive
<1> QED
    BY <1>1, <1>2, StreamCorrect, PTL DEF Spec, ImplementsChannel, Channel!Spec
==============================================================================
