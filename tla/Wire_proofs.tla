------------------------------ MODULE Wire_proofs ---------------------------
(***************************************************************************)
(* Proofs about Wire and the messages of FileMessages, for all strings,    *)
(* their lengths and any number of records on the wire.  The functions of  *)
(* a message are folds over its fields and records, so the first part      *)
(* unfolds them, by an induction over the numbers of their elements that   *)
(* is itself proved; the lists of file.pb.cc come after it, then what is   *)
(* sent, its size, what is read and relayed, and last the specification.   *)
(***************************************************************************)
EXTENDS Wire, WellFoundedInduction, TLAPS

(* The order on numbers, as the theorems on well-foundedness take it.      *)
Below == {p \in Nat \X Nat : p[1] < p[2]}

(* A set of numbers that is not empty has a least member: proved from the  *)
(* well-foundedness of < on Nat.                                           *)
LEMMA LeastElement ==
    ASSUME NEW S \in SUBSET Nat, S # {}
    PROVE  \E n \in S : \A m \in S : n <= m
<1>1. IsWellFoundedOn(Below, Nat)
  <2>1. OpToRel(<, Nat) = Below
    BY Zenon DEF OpToRel, Below
  <2>2. IsWellFoundedOn(OpToRel(<, Nat), Nat)
    BY ONLY NatLessThanWellFounded
  <2> QED  BY ONLY <2>1, <2>2, Zenon
<1>2. PICK n \in S : \A m \in S : ~(<<m, n>> \in Below)
  BY <1>1, WFMin
<1>3. ASSUME NEW m \in S PROVE n <= m
  <2>1. ~(<<m, n>> \in {p \in Nat \X Nat : p[1] < p[2]})
    BY <1>2, Zenon DEF Below
  <2> QED  BY <2>1
<1> QED  BY <1>3

(* Induction with the set of the numbers at which a claim holds in the     *)
(* place of the claim: what the lemmas below on folds and recursive        *)
(* functions rest on.                                                      *)
LEMMA SetInduction ==
    ASSUME NEW S, 0 \in S, \A n \in Nat : n \in S => n + 1 \in S
    PROVE  Nat \subseteq S
<1> SUFFICES ASSUME Nat \ S # {} PROVE FALSE
  OBVIOUS
<1>1. PICK n \in Nat \ S : \A m \in Nat \ S : n <= m
  BY LeastElement
<1>2. n - 1 \in Nat /\ n - 1 \in S
  BY <1>1
<1> QED  BY <1>1, <1>2

(* Two sequences of results that start alike and go on alike are alike.    *)
LEMMA RunsAgree ==
    ASSUME NEW n \in Nat, NEW u, NEW v, u[0] = v[0],
           \A k \in 1..n : u[k - 1] = v[k - 1] => u[k] = v[k]
    PROVE  \A k \in 0..n : u[k] = v[k]
<1> DEFINE S == {k \in Nat : k <= n => u[k] = v[k]}
<1>1. 0 \in S
  OBVIOUS
<1>2. \A k \in Nat : k \in S => k + 1 \in S
  <2> SUFFICES ASSUME NEW k \in Nat, k \in S, k + 1 <= n PROVE u[k + 1] = v[k + 1]
    OBVIOUS
  <2> QED  OBVIOUS
<1> HIDE DEF S
<1>3. Nat \subseteq S
  BY <1>1, <1>2, SetInduction
<1> QED  BY <1>3 DEF S

(* Max of a set of indices that holds the last one.                        *)
LEMMA MaxOfPrefix ==
    ASSUME NEW n \in Nat, NEW s \in SUBSET (1..n), n \in s
    PROVE  Max(s) = n
<1>1. \A x \in s : (\A y \in s : x >= y) <=> x = n
  OBVIOUS
<1>2. Max(s) \in s /\ \A y \in s : Max(s) >= y
  BY <1>1 DEF Max
<1> QED  BY <1>1, <1>2

-----------------------------------------------------------------------------
(* g folds F over the elements of w at each set of its first n indices,    *)
(* the largest index last: the function MapThenFoldSet chooses, for        *)
(* FoldLeft.                                                               *)
IsFold(g, F, b, w, n) ==
    \A s \in SUBSET (1..n) :
        g[s] = IF s = {} THEN b ELSE F[<<g[s \ {Max(s)}], w[Max(s)]>>]

(* Such a function for n indices extends to one for n + 1.                 *)
LEMMA FoldGrows ==
    ASSUME NEW S, NEW R, NEW F \in [S \X R -> S], NEW b \in S, NEW w \in Seq(R),
           NEW n \in Nat, n + 1 <= Len(w),
           NEW g \in [SUBSET (1..n) -> S], IsFold(g, F, b, w, n)
    PROVE  \E h \in [SUBSET (1..n + 1) -> S] : IsFold(h, F, b, w, n + 1)
<1> DEFINE h == [s \in SUBSET (1..n + 1) |->
                    IF n + 1 \in s THEN F[<<g[s \ {n + 1}], w[n + 1]>>] ELSE g[s]]
<1>1. h \in [SUBSET (1..n + 1) -> S]
  <2> SUFFICES ASSUME NEW s \in SUBSET (1..n + 1) PROVE h[s] \in S
    OBVIOUS
  <2>1. CASE n + 1 \in s
    <3>1. s \ {n + 1} \in SUBSET (1..n)
      OBVIOUS
    <3>2. g[s \ {n + 1}] \in S /\ w[n + 1] \in R
      BY <3>1
    <3> QED  BY <2>1, <3>2
  <2>2. CASE n + 1 \notin s
    <3>1. s \in SUBSET (1..n)
      BY <2>2
    <3> QED  BY <2>2, <3>1
  <2> QED  BY <2>1, <2>2
<1>2. ASSUME NEW s \in SUBSET (1..n + 1)
      PROVE  h[s] = IF s = {} THEN b ELSE F[<<h[s \ {Max(s)}], w[Max(s)]>>]
  <2>1. CASE n + 1 \in s
    <3>1. Max(s) = n + 1
      BY <2>1, MaxOfPrefix, n + 1 \in Nat
    <3>2. s \ {n + 1} \in SUBSET (1..n + 1) /\ h[s \ {n + 1}] = g[s \ {n + 1}]
      OBVIOUS
    <3> QED  BY <2>1, <3>1, <3>2
  <2>2. CASE n + 1 \notin s
    <3>1. s \in SUBSET (1..n) /\ h[s] = g[s]
      BY <2>2
    <3>2. s \ {Max(s)} \in SUBSET (1..n + 1) /\ h[s \ {Max(s)}] = g[s \ {Max(s)}]
      BY <2>2
    <3>3. g[s] = IF s = {} THEN b ELSE F[<<g[s \ {Max(s)}], w[Max(s)]>>]
      BY <3>1 DEF IsFold
    <3> HIDE DEF h
    <3> QED  BY <3>1, <3>2, <3>3
  <2> QED  BY <2>1, <2>2
<1> HIDE DEF h
<1> QED  BY <1>1, <1>2 DEF IsFold

(* There is one for a whole sequence, so what FoldLeft chooses is one.     *)
LEMMA FoldExists ==
    ASSUME NEW S, NEW R, NEW F \in [S \X R -> S], NEW b \in S, NEW w \in Seq(R)
    PROVE  \E g \in [SUBSET (DOMAIN w) -> S] : IsFold(g, F, b, w, Len(w))
<1> DEFINE Folds(n) == \E g \in [SUBSET (1..n) -> S] : IsFold(g, F, b, w, n)
           N == {n \in Nat : n <= Len(w) => Folds(n)}
<1>1. Folds(0)
  <2>1. [s \in SUBSET (1..0) |-> b] \in [SUBSET (1..0) -> S]
    OBVIOUS
  <2>2. IsFold([s \in SUBSET (1..0) |-> b], F, b, w, 0)
    BY DEF IsFold
  <2> QED  BY <2>1, <2>2
<1>2. ASSUME NEW n \in Nat, n + 1 <= Len(w), Folds(n) PROVE Folds(n + 1)
  BY <1>2, FoldGrows
<1> HIDE DEF Folds
<1>3. Nat \subseteq N
  <2>1. 0 \in N /\ \A n \in Nat : n \in N => n + 1 \in N
    BY <1>1, <1>2
  <2> HIDE DEF N
  <2> QED  BY <2>1, SetInduction
<1>4. Folds(Len(w)) /\ DOMAIN w = 1..Len(w)
  BY <1>3
<1> QED  BY <1>4 DEF Folds

-----------------------------------------------------------------------------
(* f is the size of a varint for every number up to n.                     *)
IsVarint(f, n) ==
    /\ f \in [0..n -> Nat]
    /\ \A k \in 0..n : f[k] = IF k < 128 THEN 1 ELSE 1 + f[k \div 128]

(* Dividing by the base of a varint makes a number smaller.                *)
LEMMA Shrinks == \A n \in Nat : n >= 128 => n \div 128 \in Nat /\ n \div 128 < n
OBVIOUS

(* Such a function up to n extends to one up to n + 1.                     *)
LEMMA VarintGrows ==
    ASSUME NEW n \in Nat, NEW f, IsVarint(f, n)
    PROVE  \E g : IsVarint(g, n + 1)
<1> DEFINE g == [k \in 0..n + 1 |->
                    IF k = n + 1 THEN IF k < 128 THEN 1 ELSE 1 + f[k \div 128] ELSE f[k]]
<1>1. ASSUME NEW k \in 0..n + 1, ~(k < 128) PROVE k \div 128 \in 0..n
  BY <1>1, Shrinks
<1>2. ASSUME NEW k \in 0..n + 1
      PROVE  g[k] \in Nat /\ g[k] = IF k < 128 THEN 1 ELSE 1 + g[k \div 128]
  <2>1. f \in [0..n -> Nat]
    BY DEF IsVarint
  <2>2. ~(k < 128) => g[k \div 128] = f[k \div 128] /\ f[k \div 128] \in Nat
    BY <1>1, <2>1
  <2>3. CASE k = n + 1
    BY <2>2, <2>3
  <2>4. CASE k # n + 1
    <3>1. k \in 0..n /\ g[k] = f[k] /\ f[k] \in Nat
      BY <2>1, <2>4
    <3> HIDE DEF g
    <3> QED  BY <2>2, <3>1 DEF IsVarint
  <2> QED  BY <2>3, <2>4
<1>3. g \in [0..n + 1 -> Nat]
  BY <1>2
<1> HIDE DEF g
<1> QED  BY <1>2, <1>3 DEF IsVarint

(* There is one up to every number.                                        *)
LEMMA VarintExists == \A n \in Nat : \E f : IsVarint(f, n)
<1> DEFINE Sized(n) == \E f : IsVarint(f, n)
           N == {n \in Nat : Sized(n)}
<1>1. Sized(0)
  <2>1. IsVarint([k \in 0..0 |-> 1], 0)
    BY DEF IsVarint
  <2> QED  BY <2>1
<1>2. ASSUME NEW n \in Nat, Sized(n) PROVE Sized(n + 1)
  BY <1>2, VarintGrows
<1> HIDE DEF Sized
<1>3. Nat \subseteq N
  <2>1. 0 \in N /\ \A n \in Nat : n \in N => n + 1 \in N
    BY <1>1, <1>2
  <2> HIDE DEF N
  <2> QED  BY <2>1, SetInduction
<1>4. \A n \in Nat : Sized(n)
  BY <1>3
<1> QED  BY <1>4 DEF Sized

(* Two of them agree where both are defined.                               *)
LEMMA VarintUnique ==
    ASSUME NEW m \in Nat, NEW n \in Nat, NEW f, IsVarint(f, m), NEW g, IsVarint(g, n),
           NEW k \in 0..m, k \in 0..n
    PROVE  f[k] = g[k]
<1> DEFINE S == {i \in 0..m : i \in 0..n /\ f[i] # g[i]}
<1> SUFFICES ASSUME S # {} PROVE FALSE
  OBVIOUS
<1>1. PICK i \in S : \A j \in S : i <= j
  BY LeastElement, S \in SUBSET Nat
<1>2. CASE i < 128
  BY <1>2 DEF IsVarint
<1>3. CASE ~(i < 128)
  <2>1. i \div 128 \in 0..m /\ i \div 128 \in 0..n /\ i \div 128 < i /\ i \div 128 \in Nat
    BY <1>3, Shrinks
  <2>2. f[i \div 128] = g[i \div 128]
    BY <1>1, <2>1
  <2> QED  BY <1>3, <2>1, <2>2 DEF IsVarint
<1> QED  BY <1>2, <1>3

(* VarintSize obeys the recursion that defines it, at every number: the    *)
(* length of a string may be any (file.pb.cc, WireFormatLite::StringSize). *)
LEMMA VarintSizeDef ==
    /\ VarintSize = [n \in Nat |-> IF n < 128 THEN 1 ELSE 1 + VarintSize[n \div 128]]
    /\ VarintSize \in [Nat -> Nat]
<1> DEFINE Image(n) == CHOOSE f : IsVarint(f, n)
           g == [n \in Nat |-> Image(n)[n]]
<1>1. \A n \in Nat : IsVarint(Image(n), n)
  BY VarintExists
<1> HIDE DEF Image
<1>2. ASSUME NEW n \in Nat
      PROVE  g[n] = IF n < 128 THEN 1 ELSE 1 + g[n \div 128]
  <2>1. Image(n)[n] = IF n < 128 THEN 1 ELSE 1 + Image(n)[n \div 128]
    BY <1>1 DEF IsVarint
  <2>2. CASE n < 128
    BY <2>1, <2>2
  <2>3. CASE ~(n < 128)
    <3> DEFINE k == n \div 128
    <3>1. k \in Nat /\ k < n
      BY <2>3, Shrinks
    <3> HIDE DEF k
    <3>2. Image(n)[k] = Image(k)[k]
      BY <1>1, <3>1, VarintUnique
    <3>3. g[k] = Image(k)[k] /\ g[n] = Image(n)[n]
      BY <3>1
    <3> QED  BY <2>1, <2>3, <3>2, <3>3 DEF k
  <2> QED  BY <2>2, <2>3
<1>3. g = [n \in Nat |-> IF n < 128 THEN 1 ELSE 1 + g[n \div 128]]
  <2>1. g = [n \in Nat |-> g[n]]
    OBVIOUS
  <2> HIDE DEF g
  <2> QED  BY <1>2, <2>1
<1> HIDE DEF g
<1>4. VarintSize = [n \in Nat |-> IF n < 128 THEN 1 ELSE 1 + VarintSize[n \div 128]]
  BY <1>3, Zenon DEF VarintSize
<1>5. ASSUME NEW n \in Nat PROVE VarintSize[n] \in Nat
  <2> DEFINE S == {i \in Nat : VarintSize[i] \notin Nat}
  <2> SUFFICES ASSUME S # {} PROVE FALSE
    OBVIOUS
  <2>1. PICK i \in S : \A j \in S : i <= j
    BY LeastElement, S \in SUBSET Nat
  <2>2. CASE i < 128
    BY <1>4, <2>2
  <2>3. CASE ~(i < 128)
    <3>1. i \div 128 \in Nat /\ i \div 128 < i
      BY <2>3, Shrinks
    <3>2. VarintSize[i \div 128] \in Nat
      BY <2>1, <3>1
    <3> QED  BY <1>4, <2>3, <3>2
  <2> QED  BY <2>2, <2>3
<1> QED  BY <1>4, <1>5

(* A set of indices that is not empty has a largest one.                   *)
LEMMA MaxExists ==
    ASSUME NEW n \in Nat, NEW s \in SUBSET (1..n), s # {}
    PROVE  Max(s) \in s
<1> DEFINE S == {n - x : x \in s}
<1>1. PICK m \in S : \A y \in S : m <= y
  BY LeastElement, S \in SUBSET Nat, S # {}
<1>2. PICK x \in s : m = n - x
  BY <1>1
<1>3. \A y \in s : x >= y
  <2> TAKE y \in s
  <2>1. n - y \in S
    OBVIOUS
  <2> HIDE DEF S
  <2>2. m <= n - y
    BY <1>1, <2>1
  <2> QED  BY <1>2, <2>2
<1> QED  BY <1>3 DEF Max

(* The element of a sequence at the largest index of a set.                *)
LEMMA LastInRange ==
    ASSUME NEW R, NEW w \in Seq(R), NEW s \in SUBSET (DOMAIN w), s # {}
    PROVE  w[Max(s)] \in R
<1>1. s \in SUBSET (1..Len(w)) /\ Len(w) \in Nat
  OBVIOUS
<1>2. Max(s) \in s
  BY <1>1, MaxExists
<1> DEFINE m == Max(s)
<1>3. m \in 1..Len(w)
  BY <1>1, <1>2
<1> HIDE DEF m
<1>4. w[m] \in R
  BY <1>3
<1> QED  BY <1>4 DEF m

-----------------------------------------------------------------------------
(* F takes a result and an element to a result, and b is a result.         *)
Operation(S, R, F, b) == F \in [S \X R -> S] /\ b \in S

(* g, at the first k indices, is F of g at the first k - 1 and the k-th    *)
(* element.                                                                *)
Unrolls(g, S, F, b, w) ==
    /\ g[{}] = b
    /\ \A k \in 1..Len(w) : g[1..k - 1] \in S => g[1..k] = F[<<g[1..k - 1], w[k]>>]

(* v is the results of folding F over w from b, one after the other.       *)
IsRun(v, S, R, F, b, w) ==
    /\ Operation(S, R, F, b) /\ w \in Seq(R)
    /\ v \in [0..Len(w) -> S]
    /\ v[0] = b
    /\ \A k \in 1..Len(w) : v[k] = F[<<v[k - 1], w[k]>>]

(* What unrolls like this is the last of such results.                     *)
LEMMA FoldIsRun ==
    ASSUME NEW S, NEW R, NEW F, NEW b, Operation(S, R, F, b), NEW w \in Seq(R),
           NEW g, Unrolls(g, S, F, b, w)
    PROVE  \E v : IsRun(v, S, R, F, b, w) /\ v[Len(w)] = g[1..Len(w)]
<1> DEFINE In(k) == g[1..k] \in S
           N == {k \in Nat : k <= Len(w) => In(k)}
           v == [k \in 0..Len(w) |-> g[1..k]]
<1>1. 1..0 = {}
  OBVIOUS
<1>2. ASSUME NEW k \in Nat, k + 1 <= Len(w), In(k) PROVE In(k + 1)
  <2>1. k + 1 \in 1..Len(w) /\ (k + 1) - 1 = k
    BY <1>2
  <2>2. g[1..k] \in S /\ w[k + 1] \in R
    BY <1>2, <2>1
  <2>3. g[1..k + 1] = F[<<g[1..k], w[k + 1]>>]
    BY <2>1, <2>2 DEF Unrolls
  <2> QED  BY <2>2, <2>3 DEF Operation
<1>3. In(0)
  BY <1>1 DEF Unrolls, Operation
<1> HIDE DEF In
<1>8. Nat \subseteq N
  <2>1. 0 \in N /\ \A k \in Nat : k \in N => k + 1 \in N
    BY <1>2, <1>3
  <2> HIDE DEF N
  <2> QED  BY <2>1, SetInduction
<1>4. \A k \in 0..Len(w) : g[1..k] \in S
  BY <1>8 DEF In
<1>5. ASSUME NEW k \in 1..Len(w) PROVE v[k] = F[<<v[k - 1], w[k]>>]
  <2>1. k - 1 \in 0..Len(w) /\ k \in 0..Len(w)
    OBVIOUS
  <2>2. v[k] = g[1..k] /\ v[k - 1] = g[1..k - 1] /\ g[1..k - 1] \in S
    BY <1>4, <2>1
  <2> HIDE DEF v
  <2> QED  BY <2>2 DEF Unrolls
<1>6. v[0] = b /\ v[Len(w)] = g[1..Len(w)]
  BY <1>1 DEF Unrolls
<1>7. v \in [0..Len(w) -> S]
  BY <1>4
<1> HIDE DEF v
<1> QED  BY <1>5, <1>6, <1>7 DEF IsRun

(* One element more at the end is one application of F more.               *)
LEMMA RunOfAppend ==
    ASSUME NEW S, NEW R, NEW F, NEW b, NEW w, NEW r, NEW v, NEW u, r \in R,
           IsRun(v, S, R, F, b, w), IsRun(u, S, R, F, b, Append(w, r))
    PROVE  u[Len(w) + 1] = F[<<v[Len(w)], r>>]
<1> USE DEF IsRun
<1>1. ASSUME NEW k \in 1..Len(w), u[k - 1] = v[k - 1] PROVE u[k] = v[k]
  <2>1. Append(w, r)[k] = w[k] /\ k \in 1..Len(Append(w, r))
    OBVIOUS
  <2> QED  BY <1>1, <2>1
<1>2. u[0] = v[0]
  OBVIOUS
<1>3. u[Len(w)] = v[Len(w)]
  <2> DEFINE n == Len(w)
  <2>1. n \in Nat /\ n \in 0..n
    OBVIOUS
  <2>2. \A k \in 1..n : u[k - 1] = v[k - 1] => u[k] = v[k]
    BY <1>1
  <2> HIDE DEF n, IsRun
  <2>3. \A k \in 0..n : u[k] = v[k]
    BY <1>2, <2>1, <2>2, RunsAgree
  <2> QED  BY <2>1, <2>3 DEF n
<1>4. Len(w) + 1 \in 1..Len(Append(w, r)) /\ Append(w, r)[Len(w) + 1] = r
      /\ (Len(w) + 1) - 1 = Len(w)
  OBVIOUS
<1> QED  BY <1>3, <1>4

(* The first k indices are the first k - 1 and k.                          *)
LEMMA WithoutLast ==
    ASSUME NEW k \in Nat, k # 0
    PROVE  1..k # {} /\ Max(1..k) = k /\ (1..k) \ {k} = 1..k - 1
<1>1. Max(1..k) = k
  <2>1. 1..k \in SUBSET (1..k) /\ k \in 1..k
    OBVIOUS
  <2> QED  BY <2>1, MaxOfPrefix
<1>2. (1..k) \ {k} = 1..k - 1
  OBVIOUS
<1>3. k \in 1..k
  OBVIOUS
<1> QED  BY <1>1, <1>2, <1>3

-----------------------------------------------------------------------------
(* The records of the six messages: a bool with tag 8, strings with tags   *)
(* 10 and 18, and the field 3 of a later sender, whose tag is 26.          *)
Records == [tag : {8}, value : BOOLEAN] \cup [tag : {10, 18, 26}, value : Strings]

(* A record has a size.                                                    *)
LEMMA RecordSizeIsNat == \A r \in Records : RecordSize(r) \in Nat
<1> SUFFICES ASSUME NEW r \in Records PROVE RecordSize(r) \in Nat
  OBVIOUS
<1>1. VarintSize[r.tag] \in Nat
  BY VarintSizeDef DEF Records
<1>2. r.value \in BOOLEAN \/ StringSize(r.value) \in Nat
  BY VarintSizeDef, StringAssumption DEF Records, StringSize
<1> QED  BY <1>1, <1>2 DEF RecordSize

(* The operation that WireSize folds.                                      *)
AddSize == [p \in Nat \X Records |-> p[1] + RecordSize(p[2])]

(* It is one on numbers and records.                                       *)
LEMMA AddSizeType ==
    AddSize \in [Nat \X Records -> Nat] /\ Operation(Nat, Records, AddSize, 0)
BY RecordSizeIsNat DEF AddSize, Operation

(* WireSize unfolded: the last of the sums of the records' sizes.          *)
LEMMA WireSizeRun ==
    ASSUME NEW w \in Seq(Records)
    PROVE  \E v : IsRun(v, Nat, Records, AddSize, 0, w) /\ WireSize(w) = v[Len(w)]
<1> DEFINE Sizes(g) ==
        g = [s \in SUBSET (DOMAIN w) |->
                IF s = {} THEN 0 ELSE g[s \ {Max(s)}] + RecordSize(w[Max(s)])]
<1>1. PICK g \in [SUBSET (DOMAIN w) -> Nat] : IsFold(g, AddSize, 0, w, Len(w))
  BY AddSizeType, FoldExists
<1>2. DOMAIN w = 1..Len(w)
  OBVIOUS
<1>3. ASSUME NEW s \in SUBSET (DOMAIN w)
      PROVE  g[s] = IF s = {} THEN 0 ELSE g[s \ {Max(s)}] + RecordSize(w[Max(s)])
  <2>1. g[s] = IF s = {} THEN 0 ELSE AddSize[<<g[s \ {Max(s)}], w[Max(s)]>>]
    BY <1>1, <1>2 DEF IsFold
  <2>2. s # {} => w[Max(s)] \in Records
    BY LastInRange
  <2>3. g[s \ {Max(s)}] \in Nat
    BY <1>1
  <2> QED  BY <2>1, <2>2, <2>3 DEF AddSize
<1>4. Sizes(g)
  BY <1>1, <1>3
<1> DEFINE iter == CHOOSE h : Sizes(h)
<1>5. Sizes(iter)
  BY <1>4
<1>6. WireSize(w) = iter[DOMAIN w]
  BY Zenon DEF WireSize, FoldLeft, MapThenFoldSet
<1> HIDE DEF iter
<1>7. Unrolls(iter, Nat, AddSize, 0, w)
  <2>1. iter[{}] = 0
    BY <1>5
  <2>2. ASSUME NEW k \in 1..Len(w), iter[1..k - 1] \in Nat
        PROVE  iter[1..k] = AddSize[<<iter[1..k - 1], w[k]>>]
    <3>1. 1..k \in SUBSET (DOMAIN w) /\ w[k] \in Records
      BY <1>2
    <3>2. 1..k # {} /\ Max(1..k) = k /\ (1..k) \ {k} = 1..k - 1
      BY WithoutLast, k \in Nat, k # 0
    <3>3. iter[1..k] = iter[1..k - 1] + RecordSize(w[k])
      BY <1>5, <3>1, <3>2
    <3> QED  BY <2>2, <3>1, <3>3 DEF AddSize
  <2> QED  BY <2>1, <2>2 DEF Unrolls
<1> QED  BY <1>2, <1>6, <1>7, AddSizeType, FoldIsRun

(* Nothing has no size.                                                    *)
LEMMA WireSizeEmpty == WireSize(<< >>) = 0
<1>1. << >> \in Seq(Records) /\ Len(<< >>) = 0
  OBVIOUS
<1>2. PICK v : IsRun(v, Nat, Records, AddSize, 0, << >>) /\ WireSize(<< >>) = v[0]
  BY <1>1, WireSizeRun
<1> QED  BY <1>2 DEF IsRun

(* A record at the end adds its size.                                      *)
LEMMA WireSizeAppend ==
    ASSUME NEW w \in Seq(Records), NEW r \in Records
    PROVE  /\ WireSize(w) \in Nat
           /\ WireSize(Append(w, r)) = WireSize(w) + RecordSize(r)
<1>1. PICK v : IsRun(v, Nat, Records, AddSize, 0, w) /\ WireSize(w) = v[Len(w)]
  BY WireSizeRun
<1>2. Append(w, r) \in Seq(Records) /\ Len(Append(w, r)) = Len(w) + 1
  OBVIOUS
<1>3. PICK u : IsRun(u, Nat, Records, AddSize, 0, Append(w, r)) /\ WireSize(Append(w, r)) = u[Len(w) + 1]
  BY <1>2, WireSizeRun
<1>4. u[Len(w) + 1] = AddSize[<<v[Len(w)], r>>]
  BY <1>1, <1>3, RunOfAppend
<1>5. v[Len(w)] \in Nat
  BY <1>1 DEF IsRun
<1> QED  BY <1>1, <1>3, <1>4, <1>5 DEF AddSize

-----------------------------------------------------------------------------
(* What the type's _InternalSerialize sends, in its order.                 *)
Sends(t) == Generated[t].serializes

(* The type's fields with their tags, as its _InternalSerialize lists      *)
(* them.                                                                   *)
Entries(t) == {Sends(t)[i] : i \in DOMAIN Sends(t)}

(* The value of a field that is not set.                                   *)
Default(tag) == IF tag = 8 THEN FALSE ELSE Empty

(* The lists that the generated functions of a type keep apart             *)
(* (file.pb.cc) agree: all name the same fields, with the same tags, kinds *)
(* and defaults.                                                           *)
TablesAgree(t) ==
    /\ Sends(t) \in Seq(Entries(t))
    /\ \/ Len(Sends(t)) = 1
       \/ /\ Len(Sends(t)) = 2
          /\ Sends(t)[1].field # Sends(t)[2].field /\ Sends(t)[1].tag # Sends(t)[2].tag
    /\ DOMAIN Fields[t] = {e.field : e \in Entries(t)}
    /\ Fields[t] = [f \in DOMAIN Fields[t] |-> Fields[t][f]]
    /\ DOMAIN Generated[t].parses = {e.tag : e \in Entries(t)}
    /\ Generated[t].clears = DOMAIN Fields[t]
    /\ Generated[t].merges = DOMAIN Fields[t]
    /\ Generated[t].swaps = DOMAIN Fields[t]
    /\ DOMAIN Generated[t].sizes = DOMAIN Fields[t]
    /\ \A e \in Entries(t) :
          /\ e.tag \in {8, 10, 18}
          /\ Generated[t].parses[e.tag] = e.field
          /\ Generated[t].sizes[e.field] = "bool" <=> e.tag = 8
          /\ Fields[t][e.field] = Default(e.tag)
    /\ Generated[t].verifies \subseteq {10, 18}

(* The six messages of file.proto.                                         *)
LEMMA TypesAre ==
    Types = {"UploadChunk", "UploadResponse", "DownloadRequest",
             "DownloadChunk", "DeleteRequest", "DeleteResponse"}
BY DEF Types, Fields

(* The defaults by tag.                                                    *)
LEMMA Defaults ==
    /\ Default(8) = FALSE /\ Default(8) \in BOOLEAN
    /\ \A n : n # 8 => Default(n) = Empty
<1>1. Default(8) = FALSE
  BY Zenon DEF Default
<1>2. \A n : n # 8 => Default(n) = Empty
  BY Zenon DEF Default
<1> QED  BY <1>1, <1>2, Zenon

(* The lists of each of the six types do agree.                            *)
THEOREM Tables == \A t \in Types : TablesAgree(t)
<1> SUFFICES ASSUME NEW t \in Types PROVE TablesAgree(t)
  OBVIOUS
<1>1. CASE t = "UploadChunk"
  <2>1. Sends(t) = <<[field |-> "filename", tag |-> 10], [field |-> "data", tag |-> 18]>>
    BY <1>1 DEF Generated, UploadChunk, Sends, Text, Bool
  <2>2. /\ DOMAIN Fields[t] = {"filename", "data"}
        /\ Fields[t] = [f \in {"filename", "data"} |-> Fields[t][f]]
        /\ Fields[t]["filename"] = Empty /\ Fields[t]["data"] = Empty
    BY <1>1 DEF Fields, UploadChunkFields
  <2>3. /\ DOMAIN Generated[t].parses = {10, 18}
        /\ Generated[t].parses[10] = "filename" /\ Generated[t].parses[18] = "data"
    BY <1>1 DEF Generated, UploadChunk
  <2>4. /\ Generated[t].clears = {"filename", "data"} /\ Generated[t].merges = {"filename", "data"}
        /\ Generated[t].swaps = {"filename", "data"} /\ DOMAIN Generated[t].sizes = {"filename", "data"}
    BY <1>1 DEF Generated, UploadChunk
  <2>5. /\ Generated[t].sizes["filename"] = "string" /\ Generated[t].sizes["data"] = "string"
        /\ Generated[t].verifies = {10}
    BY <1>1 DEF Generated, UploadChunk
  <2>6. Entries(t) = {[field |-> "filename", tag |-> 10], [field |-> "data", tag |-> 18]}
    BY <2>1 DEF Entries
  <2> QED  BY <2>1, <2>2, <2>3, <2>4, <2>5, <2>6, Defaults DEF TablesAgree
<1>2. CASE t \in {"UploadResponse", "DeleteResponse"}
  <2>1. Sends(t) = <<[field |-> "success", tag |-> 8], [field |-> "message", tag |-> 18]>>
    BY <1>2 DEF Generated, UploadResponse, DeleteResponse, Sends, Text, Bool
  <2>2. /\ DOMAIN Fields[t] = {"success", "message"}
        /\ Fields[t] = [f \in {"success", "message"} |-> Fields[t][f]]
        /\ Fields[t]["success"] = Default(8) /\ Fields[t]["message"] = Empty
    <3>1. Fields[t] = [success |-> FALSE, message |-> Empty]
      <4>1. Fields[t] \in {UploadResponseFields, DeleteResponseFields}
        BY <1>2 DEF Fields
      <4> QED  BY <4>1, Zenon DEF UploadResponseFields, DeleteResponseFields
    <3>2. DOMAIN Fields[t] = {"success", "message"}
      BY <3>1
    <3>3. Fields[t]["message"] = Empty
      BY <3>1
    <3>4. Fields[t]["success"] = Default(8)
      <4>1. ASSUME NEW fs, fs = [success |-> FALSE, message |-> Empty]
            PROVE  fs["success"] = FALSE
        BY <4>1, Zenon
      <4>2. Fields[t]["success"] = FALSE
        BY <3>1, <4>1, Zenon
      <4> QED  BY <4>2, Defaults, Zenon
    <3>5. Fields[t] = [f \in {"success", "message"} |-> Fields[t][f]]
      BY <3>1
    <3> QED  BY <3>2, <3>3, <3>4, <3>5
  <2>3. /\ DOMAIN Generated[t].parses = {8, 18}
        /\ Generated[t].parses[8] = "success" /\ Generated[t].parses[18] = "message"
    BY <1>2 DEF Generated, UploadResponse, DeleteResponse
  <2>4. /\ Generated[t].clears = {"success", "message"} /\ Generated[t].merges = {"success", "message"}
        /\ Generated[t].swaps = {"success", "message"} /\ DOMAIN Generated[t].sizes = {"success", "message"}
    BY <1>2 DEF Generated, UploadResponse, DeleteResponse
  <2>5. /\ Generated[t].sizes["success"] = "bool" /\ Generated[t].sizes["message"] = "string"
        /\ Generated[t].verifies = {18}
    BY <1>2 DEF Generated, UploadResponse, DeleteResponse
  <2>6. Entries(t) = {[field |-> "success", tag |-> 8], [field |-> "message", tag |-> 18]}
    BY <2>1 DEF Entries
  <2> QED  BY <2>1, <2>2, <2>3, <2>4, <2>5, <2>6, Defaults DEF TablesAgree
<1>3. CASE t \in {"DownloadRequest", "DeleteRequest"}
  <2>1. Sends(t) = <<[field |-> "filename", tag |-> 10]>>
    BY <1>3 DEF Generated, DownloadRequest, DeleteRequest, Sends, Text, Bool
  <2>2. /\ DOMAIN Fields[t] = {"filename"}
        /\ Fields[t] = [f \in {"filename"} |-> Fields[t][f]]
        /\ Fields[t]["filename"] = Empty
    BY <1>3 DEF Fields, DownloadRequestFields, DeleteRequestFields
  <2>3. /\ DOMAIN Generated[t].parses = {10}
        /\ Generated[t].parses[10] = "filename"
    BY <1>3 DEF Generated, DownloadRequest, DeleteRequest
  <2>4. /\ Generated[t].clears = {"filename"} /\ Generated[t].merges = {"filename"}
        /\ Generated[t].swaps = {"filename"} /\ DOMAIN Generated[t].sizes = {"filename"}
    BY <1>3 DEF Generated, DownloadRequest, DeleteRequest
  <2>5. /\ Generated[t].sizes["filename"] = "string"
        /\ Generated[t].verifies = {10}
    BY <1>3 DEF Generated, DownloadRequest, DeleteRequest
  <2>6. Entries(t) = {[field |-> "filename", tag |-> 10]}
    BY <2>1 DEF Entries
  <2> QED  BY <2>1, <2>2, <2>3, <2>4, <2>5, <2>6, Defaults DEF TablesAgree
<1>4. CASE t = "DownloadChunk"
  <2>1. Sends(t) = <<[field |-> "data", tag |-> 10]>>
    BY <1>4 DEF Generated, DownloadChunk, Sends, Text, Bool
  <2>2. /\ DOMAIN Fields[t] = {"data"}
        /\ Fields[t] = [f \in {"data"} |-> Fields[t][f]]
        /\ Fields[t]["data"] = Empty
    BY <1>4 DEF Fields, DownloadChunkFields
  <2>3. /\ DOMAIN Generated[t].parses = {10}
        /\ Generated[t].parses[10] = "data"
    BY <1>4 DEF Generated, DownloadChunk
  <2>4. /\ Generated[t].clears = {"data"} /\ Generated[t].merges = {"data"}
        /\ Generated[t].swaps = {"data"} /\ DOMAIN Generated[t].sizes = {"data"}
    BY <1>4 DEF Generated, DownloadChunk
  <2>5. /\ Generated[t].sizes["data"] = "string"
        /\ Generated[t].verifies = {}
    BY <1>4 DEF Generated, DownloadChunk
  <2>6. Entries(t) = {[field |-> "data", tag |-> 10]}
    BY <2>1 DEF Entries
  <2> QED  BY <2>1, <2>2, <2>3, <2>4, <2>5, <2>6, Defaults DEF TablesAgree
<1> QED  BY <1>1, <1>2, <1>3, <1>4, TypesAre

(* What a record is made of.                                               *)
LEMMA RecordFacts ==
    /\ \A r \in Records : /\ r.tag \in {8, 10, 18, 26}
                          /\ r.tag = 8 => r.value \in BOOLEAN
                          /\ r.tag # 8 => r.value \in Strings
                          /\ r = [tag |-> r.tag, value |-> r.value]
    /\ \A v \in BOOLEAN : [tag |-> 8, value |-> v] \in Records
    /\ \A n \in {10, 18, 26}, v \in Strings : [tag |-> n, value |-> v] \in Records
BY DEF Records

-----------------------------------------------------------------------------
(* The values of a field.                                                  *)
FieldType(e) == IF e.tag = 8 THEN BOOLEAN ELSE Strings

(* The messages of a type: its fields' values and any unknown fields.      *)
Messages(t) ==
    {m \in [fields : [DOMAIN Fields[t] -> Strings \cup BOOLEAN], unknown : Seq(Records)] :
        \A e \in Entries(t) : m.fields[e.field] \in FieldType(e)}

(* No two fields of a type share a name or a tag.                          *)
LEMMA EntriesDiffer ==
    ASSUME NEW t \in Types, NEW d \in Entries(t), NEW e \in Entries(t),
           d.field = e.field \/ d.tag = e.tag
    PROVE  d = e
<1>1. TablesAgree(t)
  BY Tables
<1>2. CASE Len(Sends(t)) = 1
  <2>1. DOMAIN Sends(t) = 1..1
    BY <1>1, <1>2 DEF TablesAgree
  <2>2. d = Sends(t)[1] /\ e = Sends(t)[1]
    BY <2>1 DEF Entries
  <2> QED  BY <2>2
<1>3. CASE Len(Sends(t)) = 2
  <2>1. DOMAIN Sends(t) = 1..2
    BY <1>1, <1>3 DEF TablesAgree
  <2>2. d \in {Sends(t)[1], Sends(t)[2]} /\ e \in {Sends(t)[1], Sends(t)[2]}
    BY <2>1 DEF Entries
  <2> QED  BY <1>1, <1>3, <2>2 DEF TablesAgree
<1> QED  BY <1>1, <1>2, <1>3 DEF TablesAgree

(* A constructed message is one of its type.                               *)
LEMMA NewType == \A t \in Types : New(t) \in Messages(t)
<1> SUFFICES ASSUME NEW t \in Types PROVE New(t) \in Messages(t)
  OBVIOUS
<1>1. TablesAgree(t)
  BY Tables
<1>2. \A e \in Entries(t) : Fields[t][e.field] \in FieldType(e)
  BY <1>1, Defaults, StringAssumption DEF TablesAgree, FieldType
<1>3. Fields[t] \in [DOMAIN Fields[t] -> Strings \cup BOOLEAN]
  <2>1. ASSUME NEW f \in DOMAIN Fields[t] PROVE Fields[t][f] \in Strings \cup BOOLEAN
    <3>1. PICK e \in Entries(t) : f = e.field
      BY <1>1 DEF TablesAgree
    <3> QED  BY <1>2, <3>1 DEF FieldType
  <2>2. Fields[t] = [f \in DOMAIN Fields[t] |-> Fields[t][f]]
    BY <1>1 DEF TablesAgree
  <2> QED  BY <2>1, <2>2
<1> QED  BY <1>2, <1>3 DEF New, Messages

(* Clear leaves what the constructor makes, whatever was there: no field   *)
(* is forgotten by it (file.pb.cc, Clear).                                 *)
LEMMA ClearedIsNew == \A t \in Types : \A m : Cleared(t, m) = New(t)
<1> SUFFICES ASSUME NEW t \in Types, NEW m PROVE Cleared(t, m) = New(t)
  OBVIOUS
<1>1. Generated[t].clears = DOMAIN Fields[t] /\ Fields[t] = [f \in DOMAIN Fields[t] |-> Fields[t][f]]
  BY Tables DEF TablesAgree
<1> QED  BY <1>1 DEF Cleared, New

(* A record with the tag of a field sets that field.                       *)
LEMMA ParseKnown ==
    ASSUME NEW t \in Types, NEW m \in Messages(t), NEW e \in Entries(t),
           NEW r \in Records, r.tag = e.tag
    PROVE  ParseRecord(t, m, r) = [fields  |-> [m.fields EXCEPT ![e.field] = r.value],
                                   unknown |-> m.unknown]
<1>1. r.tag \in DOMAIN Generated[t].parses /\ Generated[t].parses[r.tag] = e.field
  <2>1. TablesAgree(t)
    BY Tables
  <2> QED  BY <2>1 DEF TablesAgree
<1>2. m = [fields |-> m.fields, unknown |-> m.unknown]
  BY DEF Messages
<1> QED  BY <1>1, <1>2 DEF ParseRecord

(* A record with another tag is kept with the unknown fields.              *)
LEMMA ParseUnknown ==
    ASSUME NEW t \in Types, NEW m \in Messages(t), NEW r \in Records,
           \A e \in Entries(t) : r.tag # e.tag
    PROVE  ParseRecord(t, m, r) = [fields |-> m.fields, unknown |-> Append(m.unknown, r)]
<1>1. r.tag \notin DOMAIN Generated[t].parses
  <2>1. TablesAgree(t)
    BY Tables
  <2> QED  BY <2>1 DEF TablesAgree
<1>2. m = [fields |-> m.fields, unknown |-> m.unknown]
  BY DEF Messages
<1> QED  BY <1>1, <1>2 DEF ParseRecord

(* Parsing a record keeps a message one of its type.                       *)
LEMMA ParseRecordType ==
    ASSUME NEW t \in Types, NEW m \in Messages(t), NEW r \in Records
    PROVE  ParseRecord(t, m, r) \in Messages(t)
<1>3. TablesAgree(t)
  BY Tables
<1>1. CASE \E e \in Entries(t) : r.tag = e.tag
  <2>1. PICK e \in Entries(t) : r.tag = e.tag
    BY <1>1
  <2> DEFINE fs == [m.fields EXCEPT ![e.field] = r.value]
  <2>2. e.field \in DOMAIN Fields[t]
    BY <1>3 DEF TablesAgree
  <2>3. r.value \in FieldType(e)
    BY <2>1, RecordFacts DEF FieldType
  <2>4. fs \in [DOMAIN Fields[t] -> Strings \cup BOOLEAN] /\ fs[e.field] = r.value
    BY <2>2, <2>3 DEF Messages, FieldType
  <2>5. ASSUME NEW d \in Entries(t) PROVE fs[d.field] \in FieldType(d)
    <3>1. CASE d.field = e.field
      BY <2>3, <2>4, <3>1, EntriesDiffer
    <3>2. CASE d.field # e.field
      <4>1. fs[d.field] = m.fields[d.field]
        BY <3>2, <1>3 DEF TablesAgree, Messages
      <4> QED  BY <4>1 DEF Messages
    <3> QED  BY <3>1, <3>2
  <2>6. ParseRecord(t, m, r) = [fields |-> fs, unknown |-> m.unknown] /\ m.unknown \in Seq(Records)
    BY <2>1, ParseKnown DEF Messages
  <2> HIDE DEF fs
  <2> QED  BY <2>4, <2>5, <2>6 DEF Messages
<1>2. CASE ~\E e \in Entries(t) : r.tag = e.tag
  <2>1. ParseRecord(t, m, r) = [fields |-> m.fields, unknown |-> Append(m.unknown, r)]
    BY <1>2, ParseUnknown
  <2> QED  BY <2>1 DEF Messages
<1> QED  BY <1>1, <1>2

-----------------------------------------------------------------------------
(* Parsing a record as an operation to fold.                               *)
Parse(t) == [p \in Messages(t) \X Records |-> ParseRecord(t, p[1], p[2])]

(* A message after all records of w are parsed into it.                    *)
After(t, m, w) == FoldLeft(LAMBDA n, r : ParseRecord(t, n, r), m, w)

(* It is one on messages and records.                                      *)
LEMMA ParseIsOperation ==
    \A t \in Types : \A m \in Messages(t) : Operation(Messages(t), Records, Parse(t), m)
BY ParseRecordType DEF Parse, Operation

(* After unfolded: the last of the messages along the records.             *)
LEMMA AfterRun ==
    ASSUME NEW t \in Types, NEW m \in Messages(t), NEW w \in Seq(Records)
    PROVE  \E v : IsRun(v, Messages(t), Records, Parse(t), m, w) /\ After(t, m, w) = v[Len(w)]
<1> DEFINE Parsings(g) ==
        g = [s \in SUBSET (DOMAIN w) |->
                IF s = {} THEN m ELSE ParseRecord(t, g[s \ {Max(s)}], w[Max(s)])]
<1>1. PICK g \in [SUBSET (DOMAIN w) -> Messages(t)] : IsFold(g, Parse(t), m, w, Len(w))
  BY ParseIsOperation, FoldExists DEF Operation
<1>2. DOMAIN w = 1..Len(w) /\ Len(w) \in Nat
  OBVIOUS
<1>3. ASSUME NEW s \in SUBSET (DOMAIN w)
      PROVE  g[s] = IF s = {} THEN m ELSE ParseRecord(t, g[s \ {Max(s)}], w[Max(s)])
  <2>1. g[s] = IF s = {} THEN m ELSE Parse(t)[<<g[s \ {Max(s)}], w[Max(s)]>>]
    BY <1>1, <1>2 DEF IsFold
  <2>2. s # {} => w[Max(s)] \in Records
    BY <1>2, LastInRange
  <2>3. g[s \ {Max(s)}] \in Messages(t)
    BY <1>1
  <2> QED  BY <2>1, <2>2, <2>3 DEF Parse
<1>4. Parsings(g)
  BY <1>1, <1>3
<1> DEFINE iter == CHOOSE h : Parsings(h)
<1>5. Parsings(iter)
  BY <1>4
<1>6. After(t, m, w) = iter[DOMAIN w]
  BY Zenon DEF After, FoldLeft, MapThenFoldSet
<1> HIDE DEF iter
<1>7. Unrolls(iter, Messages(t), Parse(t), m, w)
  <2>1. iter[{}] = m
    BY <1>5
  <2>2. ASSUME NEW k \in 1..Len(w), iter[1..k - 1] \in Messages(t)
        PROVE  iter[1..k] = Parse(t)[<<iter[1..k - 1], w[k]>>]
    <3>1. 1..k \in SUBSET (DOMAIN w) /\ w[k] \in Records
      BY <1>2
    <3>2. 1..k # {} /\ Max(1..k) = k /\ (1..k) \ {k} = 1..k - 1
      BY WithoutLast, k \in Nat, k # 0
    <3>3. iter[1..k] = ParseRecord(t, iter[1..k - 1], w[k])
      BY <1>5, <3>1, <3>2
    <3> QED  BY <2>2, <3>1, <3>3 DEF Parse
  <2> QED  BY <2>1, <2>2 DEF Unrolls
<1>8. Operation(Messages(t), Records, Parse(t), m)
  BY ParseIsOperation
<1> QED  BY <1>2, <1>6, <1>7, <1>8, FoldIsRun

(* Parsing nothing changes nothing.                                        *)
LEMMA AfterEmpty ==
    ASSUME NEW t \in Types, NEW m \in Messages(t)
    PROVE  After(t, m, << >>) = m
<1>1. << >> \in Seq(Records) /\ Len(<< >>) = 0
  OBVIOUS
<1>2. PICK v : /\ IsRun(v, Messages(t), Records, Parse(t), m, << >>)
               /\ After(t, m, << >>) = v[0]
  BY <1>1, AfterRun
<1> QED  BY <1>2 DEF IsRun

(* A record at the end is parsed last.                                     *)
LEMMA AfterAppend ==
    ASSUME NEW t \in Types, NEW m \in Messages(t), NEW w \in Seq(Records), NEW r \in Records
    PROVE  /\ After(t, m, w) \in Messages(t)
           /\ After(t, m, Append(w, r)) = ParseRecord(t, After(t, m, w), r)
<1>1. PICK v : /\ IsRun(v, Messages(t), Records, Parse(t), m, w)
               /\ After(t, m, w) = v[Len(w)]
  BY AfterRun
<1>2. Append(w, r) \in Seq(Records) /\ Len(Append(w, r)) = Len(w) + 1
  OBVIOUS
<1>3. PICK u : /\ IsRun(u, Messages(t), Records, Parse(t), m, Append(w, r))
               /\ After(t, m, Append(w, r)) = u[Len(w) + 1]
  BY <1>2, AfterRun
<1>4. u[Len(w) + 1] = Parse(t)[<<v[Len(w)], r>>]
  BY <1>1, <1>3, RunOfAppend
<1>5. v[Len(w)] \in Messages(t)
  BY <1>1 DEF IsRun
<1> QED  BY <1>1, <1>3, <1>4, <1>5 DEF Parse

-----------------------------------------------------------------------------
(* The record of a field.                                                  *)
Sent(m, e) == [tag |-> e.tag, value |-> m.fields[e.field]]

(* The operation with which _InternalSerialize writes the fields.          *)
AddField(t, m) ==
    [p \in Seq(Records) \X Entries(t) |->
        IF Has(t, m, p[2].field) THEN Append(p[1], Sent(m, p[2])) ELSE p[1]]

(* The part of a serialized message that is its own fields.                *)
Known(t, m) ==
    FoldLeft(LAMBDA w, e : IF Has(t, m, e.field)
                           THEN Append(w, [tag |-> e.tag, value |-> m.fields[e.field]]) ELSE w,
             << >>, Generated[t].serializes)

(* What is sent of a field is a record.                                    *)
LEMMA SentType ==
    \A t \in Types : \A m \in Messages(t), e \in Entries(t) : Sent(m, e) \in Records
<1> SUFFICES ASSUME NEW t \in Types, NEW m \in Messages(t), NEW e \in Entries(t)
             PROVE  Sent(m, e) \in Records
  OBVIOUS
<1>1. TablesAgree(t)
  BY Tables
<1>2. e.tag \in {8, 10, 18} /\ m.fields[e.field] \in FieldType(e)
  BY <1>1 DEF TablesAgree, Messages
<1> DEFINE v == m.fields[e.field]
<1>3. IF e.tag = 8 THEN v \in BOOLEAN ELSE v \in Strings
  BY <1>2 DEF FieldType
<1> HIDE DEF v
<1>4. [tag |-> e.tag, value |-> v] \in Records
  BY <1>2, <1>3, RecordFacts
<1> QED  BY <1>4 DEF Sent, v

(* Writing a field is an operation to fold.                                *)
LEMMA AddFieldIsOperation ==
    \A t \in Types : \A m \in Messages(t) :
        Operation(Seq(Records), Entries(t), AddField(t, m), << >>)
BY SentType DEF AddField, Operation

(* Known unfolded: the last of the sequences along the fields.             *)
LEMMA KnownRun ==
    ASSUME NEW t \in Types, NEW m \in Messages(t)
    PROVE  \E v : /\ IsRun(v, Seq(Records), Entries(t), AddField(t, m), << >>, Sends(t))
                  /\ Known(t, m) = v[Len(Sends(t))]
<1> DEFINE w == Sends(t)
           Images(g) ==
        g = [s \in SUBSET (DOMAIN w) |->
                IF s = {} THEN << >>
                ELSE IF Has(t, m, w[Max(s)].field)
                     THEN Append(g[s \ {Max(s)}],
                                 [tag |-> w[Max(s)].tag, value |-> m.fields[w[Max(s)].field]])
                     ELSE g[s \ {Max(s)}]]
<1>0. w \in Seq(Entries(t))
  BY Tables DEF TablesAgree
<1>a. Operation(Seq(Records), Entries(t), AddField(t, m), << >>)
  BY AddFieldIsOperation
<1>6. Known(t, m) = (CHOOSE h : Images(h))[DOMAIN w]
  BY Zenon DEF Known, FoldLeft, MapThenFoldSet, Sends
<1> HIDE DEF w
<1>1. PICK g \in [SUBSET (DOMAIN w) -> Seq(Records)] : IsFold(g, AddField(t, m), << >>, w, Len(w))
  BY <1>0, <1>a, FoldExists DEF Operation
<1>2. DOMAIN w = 1..Len(w) /\ Len(w) \in Nat
  BY <1>0
<1>b. ASSUME NEW x \in Seq(Records), NEW e \in Entries(t)
      PROVE  AddField(t, m)[<<x, e>>] =
                IF Has(t, m, e.field)
                THEN Append(x, [tag |-> e.tag, value |-> m.fields[e.field]]) ELSE x
  BY DEF AddField, Sent
<1>3. ASSUME NEW s \in SUBSET (DOMAIN w)
      PROVE  g[s] = IF s = {} THEN << >>
                    ELSE IF Has(t, m, w[Max(s)].field)
                         THEN Append(g[s \ {Max(s)}],
                                     [tag |-> w[Max(s)].tag, value |-> m.fields[w[Max(s)].field]])
                         ELSE g[s \ {Max(s)}]
  <2>1. g[s] = IF s = {} THEN << >> ELSE AddField(t, m)[<<g[s \ {Max(s)}], w[Max(s)]>>]
    BY <1>1, <1>2 DEF IsFold
  <2>2. s # {} => w[Max(s)] \in Entries(t)
    BY <1>0, LastInRange
  <2>3. g[s \ {Max(s)}] \in Seq(Records)
    BY <1>1
  <2> QED  BY <1>b, <2>1, <2>2, <2>3
<1>4. Images(g)
  BY <1>1, <1>3
<1> DEFINE iter == CHOOSE h : Images(h)
<1>5. Images(iter)
  BY <1>4
<1> HIDE DEF iter
<1>7. Unrolls(iter, Seq(Records), AddField(t, m), << >>, w)
  <2>1. iter[{}] = << >>
    BY <1>5
  <2>2. ASSUME NEW k \in 1..Len(w), iter[1..k - 1] \in Seq(Records)
        PROVE  iter[1..k] = AddField(t, m)[<<iter[1..k - 1], w[k]>>]
    <3>1. 1..k \in SUBSET (DOMAIN w) /\ w[k] \in Entries(t)
      BY <1>0, <1>2
    <3>2. 1..k # {} /\ Max(1..k) = k /\ (1..k) \ {k} = 1..k - 1
      BY WithoutLast, k \in Nat, k # 0
    <3>3. iter[1..k] = IF Has(t, m, w[k].field)
                       THEN Append(iter[1..k - 1], [tag |-> w[k].tag, value |-> m.fields[w[k].field]])
                       ELSE iter[1..k - 1]
      BY <1>5, <3>1, <3>2, ZenonT(60)
    <3> QED  BY <1>b, <2>2, <3>1, <3>3
  <2> QED  BY <2>1, <2>2 DEF Unrolls
<1>8. Known(t, m) = iter[1..Len(w)]
  BY <1>2, <1>6 DEF iter
<1> QED  BY <1>0, <1>7, <1>8, <1>a, FoldIsRun DEF w

(* A field is written unless it has its default value.                     *)
AddIfHas(t, m, w, e) == IF Has(t, m, e.field) THEN Append(w, Sent(m, e)) ELSE w

(* A message has one or two fields, and they are written in turn.          *)
LEMMA KnownIs ==
    ASSUME NEW t \in Types, NEW m \in Messages(t)
    PROVE  LET first == Sends(t)[1] IN
           /\ first \in Entries(t)
           /\ \/ /\ Len(Sends(t)) = 1 /\ Entries(t) = {first}
                 /\ Known(t, m) = AddIfHas(t, m, << >>, first)
              \/ \E second \in Entries(t) :
                    /\ Entries(t) = {first, second}
                    /\ first.field # second.field /\ first.tag # second.tag
                    /\ Known(t, m) = AddIfHas(t, m, AddIfHas(t, m, << >>, first), second)
<1> DEFINE w == Sends(t)
<1>1. TablesAgree(t)
  BY Tables
<1>2. w \in Seq(Entries(t)) /\ Entries(t) = {w[i] : i \in DOMAIN w}
  BY <1>1 DEF TablesAgree, Entries
<1>3. PICK v : /\ IsRun(v, Seq(Records), Entries(t), AddField(t, m), << >>, w)
               /\ Known(t, m) = v[Len(w)]
  BY KnownRun
<1>4. Len(w) \in {1, 2} /\ (Len(w) = 2 => w[1].field # w[2].field /\ w[1].tag # w[2].tag)
  BY <1>1 DEF TablesAgree
<1> HIDE DEF w
<1>5. ASSUME NEW x \in Seq(Records), NEW e \in Entries(t)
      PROVE  AddField(t, m)[<<x, e>>] = AddIfHas(t, m, x, e)
  BY DEF AddField, AddIfHas
<1>6. w[1] \in Entries(t) /\ 1 \in 1..Len(w)
  BY <1>2, <1>4
<1>7. v[0] = << >> /\ v[1] = AddIfHas(t, m, << >>, w[1]) /\ v[1] \in Seq(Records)
  <2>1. v[0] = << >> /\ v[1] = AddField(t, m)[<<v[1 - 1], w[1]>>]
    BY <1>3, <1>6 DEF IsRun
  <2>2. v[1] \in Seq(Records) /\ v[1 - 1] = v[0]
    BY <1>3, <1>6 DEF IsRun
  <2>3. << >> \in Seq(Records)
    OBVIOUS
  <2> QED  BY <1>5, <1>6, <2>1, <2>2, <2>3
<1>8. CASE Len(w) = 1
  <2>1. Entries(t) = {w[1]}
    BY <1>2, <1>8
  <2> QED  BY <1>3, <1>6, <1>7, <1>8, <2>1 DEF w
<1>9. CASE Len(w) = 2
  <2>1. w[2] \in Entries(t) /\ Entries(t) = {w[1], w[2]} /\ 2 \in 1..Len(w)
    BY <1>2, <1>9
  <2>2. v[2] = AddField(t, m)[<<v[2 - 1], w[2]>>] /\ v[2 - 1] = v[1]
    BY <1>3, <2>1 DEF IsRun
  <2>3. v[2] = AddIfHas(t, m, v[1], w[2])
    BY <1>5, <1>7, <2>1, <2>2
  <2> QED  BY <1>3, <1>4, <1>6, <1>7, <1>9, <2>1, <2>3 DEF w
<1> QED  BY <1>4, <1>8, <1>9

(* The fields come first, the unknown ones after them.                     *)
LEMMA SerializedIs == \A t, m : Serialized(t, m) = Known(t, m) \o m.unknown
BY Zenon DEF Serialized, Known

-----------------------------------------------------------------------------
(* The size of two parts is the sum of their sizes.                        *)
LEMMA WireSizeConcat ==
    \A k \in Seq(Records), u \in Seq(Records) : WireSize(k \o u) = WireSize(k) + WireSize(u)
<1> DEFINE Adds(n) == \A k \in Seq(Records), u \in Seq(Records) :
                          Len(u) = n => WireSize(k \o u) = WireSize(k) + WireSize(u)
           N == {n \in Nat : Adds(n)}
<1>0. \A k \in Seq(Records) : WireSize(k) \in Nat
  <2> SUFFICES ASSUME NEW k \in Seq(Records) PROVE WireSize(k) \in Nat
    OBVIOUS
  <2>1. [tag |-> 10, value |-> Empty] \in Records
    BY RecordFacts, StringAssumption
  <2> QED  BY <2>1, WireSizeAppend
<1>1. Adds(0)
  <2> SUFFICES ASSUME NEW k \in Seq(Records), NEW u \in Seq(Records), Len(u) = 0
               PROVE  WireSize(k \o u) = WireSize(k) + WireSize(u)
    OBVIOUS
  <2>1. u = << >> /\ k \o u = k
    OBVIOUS
  <2> QED  BY <1>0, <2>1, WireSizeEmpty
<1>2. ASSUME NEW n \in Nat, Adds(n) PROVE Adds(n + 1)
  <2> SUFFICES ASSUME NEW k \in Seq(Records), NEW u \in Seq(Records), Len(u) = n + 1
               PROVE  WireSize(k \o u) = WireSize(k) + WireSize(u)
    OBVIOUS
  <2> DEFINE x == SubSeq(u, 1, n)
             r == u[n + 1]
  <2>1. x \in Seq(Records) /\ Len(x) = n /\ r \in Records
    OBVIOUS
  <2>2. u = Append(x, r) /\ k \o u = Append(k \o x, r) /\ k \o x \in Seq(Records)
    OBVIOUS
  <2> HIDE DEF x, r
  <2>3. WireSize(k \o x) = WireSize(k) + WireSize(x)
    BY <1>2, <2>1
  <2>4. WireSize(u) = WireSize(x) + RecordSize(r)
    BY <2>1, <2>2, WireSizeAppend
  <2>5. WireSize(k \o u) = WireSize(k \o x) + RecordSize(r)
    BY <2>1, <2>2, WireSizeAppend
  <2>6. WireSize(k) \in Nat /\ WireSize(x) \in Nat /\ RecordSize(r) \in Nat
    BY <1>0, <2>1, RecordSizeIsNat
  <2> QED  BY <2>3, <2>4, <2>5, <2>6
<1> HIDE DEF Adds
<1>3. Nat \subseteq N
  <2>1. 0 \in N /\ \A n \in Nat : n \in N => n + 1 \in N
    BY <1>1, <1>2
  <2> HIDE DEF N
  <2> QED  BY <2>1, SetInduction
<1>4. \A n \in Nat : Adds(n)
  BY <1>3
<1> QED
  <2> SUFFICES ASSUME NEW k \in Seq(Records), NEW u \in Seq(Records)
               PROVE  WireSize(k \o u) = WireSize(k) + WireSize(u)
    OBVIOUS
  <2>1. Len(u) \in Nat
    OBVIOUS
  <2> QED  BY <1>4, <2>1 DEF Adds

(* What ByteSizeLong counts for a field is the size of its record: one     *)
(* byte of tag, and what WriteString or WriteBool writes.                  *)
LEMMA FieldSizeIs ==
    ASSUME NEW t \in Types, NEW m \in Messages(t), NEW e \in Entries(t)
    PROVE  RecordSize(Sent(m, e)) = FieldSize(t, m, e.field) /\ FieldSize(t, m, e.field) \in Nat
<1> DEFINE v == m.fields[e.field]
<1>1. TablesAgree(t)
  BY Tables
<1>2. e.tag \in {8, 10, 18} /\ (Generated[t].sizes[e.field] = "bool" <=> e.tag = 8)
  BY <1>1 DEF TablesAgree
<1>3. v \in FieldType(e)
  BY DEF Messages
<1>4. VarintSize[e.tag] = 1
  BY <1>2, VarintSizeDef
<1>5. Sent(m, e).tag = e.tag /\ Sent(m, e).value = v
  BY DEF Sent
<1> HIDE DEF v
<1>6. CASE e.tag = 8
  <2>1. v \in BOOLEAN
    BY <1>3, <1>6 DEF FieldType
  <2> QED  BY <1>2, <1>4, <1>5, <1>6, <2>1 DEF RecordSize, FieldSize
<1>7. CASE e.tag # 8
  <2>1. v \in Strings /\ v \notin BOOLEAN
    BY <1>3, <1>7, StringAssumption DEF FieldType
  <2>2. StringSize(v) \in Nat
    BY <2>1, VarintSizeDef, StringAssumption DEF StringSize
  <2> QED  BY <1>2, <1>4, <1>5, <1>7, <2>1, <2>2 DEF RecordSize, FieldSize, v
<1> QED  BY <1>6, <1>7

(* The fields that ByteSizeLong counts.                                    *)
Present(t, m) == {f \in DOMAIN Generated[t].sizes : Has(t, m, f)}

(* What it counts for one of them.                                         *)
SizeIfHas(t, m, f) == IF f \in Present(t, m) THEN FieldSize(t, m, f) ELSE 0

(* The sum over a set of at most two fields, in whichever order FoldSet    *)
(* takes them.                                                             *)
LEMMA SumOfTwo ==
    ASSUME NEW t, NEW m, NEW a, NEW b, a # b, WireSize(m.unknown) \in Nat,
           Present(t, m) \subseteq {a, b},
           \A f \in Present(t, m) : FieldSize(t, m, f) \in Nat
    PROVE  ByteSizeLong(t, m) =
               WireSize(m.unknown) + SizeIfHas(t, m, a) + SizeIfHas(t, m, b)
<1> DEFINE S == Present(t, m)
           base == WireSize(m.unknown)
           Sums(g) ==
        g = [s \in SUBSET S |->
                IF s = {} THEN base
                ELSE g[s \ {CHOOSE x \in s : TRUE}] + FieldSize(t, m, CHOOSE x \in s : TRUE)]
           z == [f \in S |-> FieldSize(t, m, f)]
           g == [s \in SUBSET S |->
                    base + (IF a \in s THEN z[a] ELSE 0) + (IF b \in s THEN z[b] ELSE 0)]
<1>1. ByteSizeLong(t, m) = (CHOOSE h : Sums(h))[S]
  BY Zenon DEF ByteSizeLong, FoldSet, MapThenFoldSet, Present
<1>2. base \in Nat /\ z \in [S -> Nat]
  OBVIOUS
<1>3. \A f \in S : FieldSize(t, m, f) = z[f]
  OBVIOUS
<1> HIDE DEF base, z, S
<1>4. Sums(g)
  <2>1. ASSUME NEW s \in SUBSET S, s # {}, NEW x \in s
        PROVE  g[s] = g[s \ {x}] + z[x]
    <3>1. x \in S /\ x \in {a, b}
      BY DEF S
    <3>2. (a \in s => z[a] \in Nat) /\ (b \in s => z[b] \in Nat)
      BY <1>2
    <3>3. s \ {x} \in SUBSET S
      OBVIOUS
    <3>4. CASE x = a
      BY <1>2, <3>2, <3>3, <3>4
    <3>5. CASE x = b
      BY <1>2, <3>2, <3>3, <3>5
    <3> QED  BY <3>1, <3>4, <3>5
  <2>2. ASSUME NEW s \in SUBSET S
        PROVE  g[s] = IF s = {} THEN base
                      ELSE g[s \ {CHOOSE x \in s : TRUE}] + FieldSize(t, m, CHOOSE x \in s : TRUE)
    <3>1. s = {} => g[s] = base
      BY <1>2
    <3> DEFINE x == CHOOSE x \in s : TRUE
    <3>2. s # {} => x \in s
      OBVIOUS
    <3> HIDE DEF x, g
    <3>3. s # {} => g[s] = g[s \ {x}] + FieldSize(t, m, x)
      BY <1>3, <2>1, <3>2
    <3> QED  BY <3>1, <3>3 DEF x
  <2>3. g = [s \in SUBSET S |-> g[s]]
    OBVIOUS
  <2> HIDE DEF g
  <2> QED  BY <2>2, <2>3
<1> HIDE DEF g
<1> DEFINE iter == CHOOSE h : Sums(h)
<1>5. Sums(iter)
  BY <1>4
<1> HIDE DEF iter
<1>6. iter[{}] = base
  BY <1>5
<1>7. ASSUME NEW s \in SUBSET S, s # {}
      PROVE  \E x \in s : iter[s] = iter[s \ {x}] + z[x]
  <2> DEFINE x == CHOOSE x \in s : TRUE
  <2>1. x \in s
    BY <1>7
  <2>2. iter[s] = iter[s \ {x}] + FieldSize(t, m, x)
    BY <1>5, <1>7
  <2> HIDE DEF x
  <2> QED  BY <1>3, <2>1, <2>2
<1>8. ASSUME NEW c \in S PROVE iter[{c}] = base + z[c]
  <2>1. iter[{c}] = iter[{c} \ {c}] + z[c]
    BY <1>7, {c} \in SUBSET S
  <2>2. {c} \ {c} = {}
    OBVIOUS
  <2> QED  BY <1>6, <2>1, <2>2
<1>9. iter[S] = base + (IF a \in S THEN z[a] ELSE 0) + (IF b \in S THEN z[b] ELSE 0)
  <2>1. CASE S = {}
    <3>1. iter[S] = base /\ a \notin S /\ b \notin S
      BY <1>6, <2>1
    <3> QED  BY <1>2, <3>1
  <2>2. CASE S = {a}
    BY <1>2, <1>8, <2>2
  <2>3. CASE S = {b}
    BY <1>2, <1>8, <2>3
  <2>5. S \in SUBSET {a, b}
    BY DEF S
  <2>4. CASE S = {a, b}
    <3>1. PICK x \in S : iter[S] = iter[S \ {x}] + z[x]
      BY <1>7, <2>4
    <3>4. a \in S /\ b \in S
      BY <2>4
    <3>2. CASE x = a
      <4>1. S \ {x} = {b}
        BY <2>4, <3>2
      <4>2. iter[S] = iter[{b}] + z[a]
        BY <3>1, <3>2, <4>1
      <4>3. iter[{b}] = base + z[b]
        BY <1>8, <3>4
      <4> QED  BY <1>2, <3>4, <4>2, <4>3
    <3>3. CASE x = b
      <4>1. S \ {x} = {a}
        BY <2>4, <3>3
      <4>2. iter[S] = iter[{a}] + z[b]
        BY <3>1, <3>3, <4>1
      <4>3. iter[{a}] = base + z[a]
        BY <1>8, <3>4
      <4> QED  BY <1>2, <3>4, <4>2, <4>3
    <3> QED  BY <2>4, <3>2, <3>3
  <2> QED  BY <2>1, <2>2, <2>3, <2>4, <2>5
<1>10. ByteSizeLong(t, m) = iter[S]
  BY <1>1 DEF iter
<1> QED  BY <1>3, <1>9, <1>10 DEF base, S, SizeIfHas

(* ByteSizeLong is the size of what _InternalSerialize writes, for every   *)
(* message with any fields, unknown ones included, and strings of any      *)
(* length.                                                                 *)
LEMMA SizeIsExact ==
    ASSUME NEW t \in Types, NEW m \in Messages(t)
    PROVE  ByteSizeLong(t, m) = WireSize(Serialized(t, m))
<1> DEFINE first == Sends(t)[1]
<1>1. m.unknown \in Seq(Records)
  BY DEF Messages
<1>2. DOMAIN Generated[t].sizes = {e.field : e \in Entries(t)}
  <2>1. TablesAgree(t)
    BY Tables
  <2> QED  BY <2>1 DEF TablesAgree
<1>3. ASSUME NEW w \in Seq(Records), NEW e \in Entries(t)
      PROVE  /\ AddIfHas(t, m, w, e) \in Seq(Records)
             /\ WireSize(w) \in Nat /\ SizeIfHas(t, m, e.field) \in Nat
             /\ WireSize(AddIfHas(t, m, w, e)) = WireSize(w) + SizeIfHas(t, m, e.field)
  <2>1. Sent(m, e) \in Records
    BY SentType
  <2>2. WireSize(w) \in Nat /\ WireSize(Append(w, Sent(m, e))) = WireSize(w) + RecordSize(Sent(m, e))
    BY <2>1, WireSizeAppend
  <2>3. /\ RecordSize(Sent(m, e)) = FieldSize(t, m, e.field)
        /\ FieldSize(t, m, e.field) \in Nat
    BY FieldSizeIs
  <2>4. e.field \in Present(t, m) <=> Has(t, m, e.field)
    BY <1>2 DEF Present
  <2> QED  BY <2>1, <2>2, <2>3, <2>4 DEF AddIfHas, SizeIfHas
<1>4. WireSize(<< >>) = 0 /\ << >> \in Seq(Records)
  BY WireSizeEmpty
<1>5. first \in Entries(t)
  BY KnownIs
<1>6. WireSize(m.unknown) \in Nat
  BY <1>1, <1>3, <1>5
<1>7. \A f \in Present(t, m) : FieldSize(t, m, f) \in Nat
  BY <1>2, FieldSizeIs DEF Present
<1> DEFINE w == AddIfHas(t, m, << >>, first)
<1>8. w \in Seq(Records) /\ WireSize(w) = SizeIfHas(t, m, first.field)
  <2>1. /\ w \in Seq(Records) /\ SizeIfHas(t, m, first.field) \in Nat
        /\ WireSize(w) = WireSize(<< >>) + SizeIfHas(t, m, first.field)
    BY <1>3, <1>4, <1>5
  <2> HIDE DEF w
  <2> QED  BY <1>4, <2>1
<1>9. CASE Entries(t) = {first} /\ Known(t, m) = w
  <2>1. \E other : other # first.field
    <3>1. "a" # "b"
      OBVIOUS
    <3> QED  BY <3>1
  <2>2. PICK other : other # first.field
    BY <2>1
  <2>3. Present(t, m) \subseteq {first.field, other} /\ other \notin Present(t, m)
    BY <1>2, <1>9, <2>2 DEF Present
  <2> HIDE DEF first, w
  <2>4. ByteSizeLong(t, m) =
            WireSize(m.unknown) + SizeIfHas(t, m, first.field) + SizeIfHas(t, m, other)
    BY <1>6, <1>7, <2>2, <2>3, SumOfTwo
  <2>5. SizeIfHas(t, m, other) = 0
    BY <2>3 DEF SizeIfHas
  <2>6. WireSize(Serialized(t, m)) = WireSize(w) + WireSize(m.unknown)
    BY <1>1, <1>8, <1>9, SerializedIs, WireSizeConcat
  <2>7. SizeIfHas(t, m, first.field) \in Nat
    BY <1>3, <1>4, <1>5
  <2> QED  BY <1>6, <1>8, <2>4, <2>5, <2>6, <2>7
<1>10. ASSUME NEW second \in Entries(t), Entries(t) = {first, second},
              first.field # second.field, Known(t, m) = AddIfHas(t, m, w, second)
       PROVE  ByteSizeLong(t, m) = WireSize(Serialized(t, m))
  <2>1. Present(t, m) \subseteq {first.field, second.field}
    BY <1>2, <1>10 DEF Present
  <2> HIDE DEF first, w
  <2>2. ByteSizeLong(t, m) =
            WireSize(m.unknown) + SizeIfHas(t, m, first.field) + SizeIfHas(t, m, second.field)
    BY <1>6, <1>7, <1>10, <2>1, SumOfTwo
  <2>3. /\ Known(t, m) \in Seq(Records) /\ SizeIfHas(t, m, second.field) \in Nat
        /\ WireSize(Known(t, m)) = WireSize(w) + SizeIfHas(t, m, second.field)
    BY <1>3, <1>8, <1>10
  <2>4. WireSize(Serialized(t, m)) = WireSize(Known(t, m)) + WireSize(m.unknown)
    BY <1>1, <2>3, SerializedIs, WireSizeConcat
  <2>5. SizeIfHas(t, m, first.field) \in Nat
    BY <1>3, <1>4, <1>5
  <2> QED  BY <1>6, <1>8, <2>2, <2>3, <2>4, <2>5
<1> QED  BY <1>9, <1>10, KnownIs

-----------------------------------------------------------------------------
(* What a message of a type is made of.                                    *)
LEMMA MessageFacts ==
    ASSUME NEW t \in Types, NEW m \in Messages(t)
    PROVE  /\ m.unknown \in Seq(Records)
           /\ m.fields \in [DOMAIN Fields[t] -> Strings \cup BOOLEAN]
           /\ DOMAIN Fields[t] = {e.field : e \in Entries(t)}
           /\ \A e \in Entries(t) : m.fields[e.field] \in FieldType(e)
           /\ m = [fields |-> m.fields, unknown |-> m.unknown]
<1>1. TablesAgree(t)
  BY Tables
<1>2. DOMAIN Fields[t] = {e.field : e \in Entries(t)}
  BY <1>1 DEF TablesAgree
<1> QED  BY <1>2 DEF Messages

(* Messages with the same fields and unknown fields are the same.          *)
LEMMA MessagesEqual ==
    ASSUME NEW t \in Types, NEW m \in Messages(t), NEW n \in Messages(t),
           m.unknown = n.unknown, \A e \in Entries(t) : m.fields[e.field] = n.fields[e.field]
    PROVE  m = n
<1>1. \A f \in DOMAIN Fields[t] : m.fields[f] = n.fields[f]
  BY MessageFacts
<1>2. m.fields = n.fields
  BY <1>1, MessageFacts
<1> QED  BY <1>2, MessageFacts

(* What MergeImpl leaves, field by field.                                  *)
LEMMA MergedType ==
    ASSUME NEW t \in Types, NEW to \in Messages(t), NEW from \in Messages(t)
    PROVE  /\ Merged(t, to, from) \in Messages(t)
           /\ Merged(t, to, from).unknown = to.unknown \o from.unknown
           /\ \A e \in Entries(t) :
                 Merged(t, to, from).fields[e.field] =
                     IF Has(t, from, e.field) THEN from.fields[e.field] ELSE to.fields[e.field]
<1> DEFINE n == Merged(t, to, from)
<1>1. Generated[t].merges = DOMAIN Fields[t]
  BY Tables DEF TablesAgree
<1>2. /\ n.fields = [f \in DOMAIN Fields[t] |->
                        IF Has(t, from, f) THEN from.fields[f] ELSE to.fields[f]]
      /\ n.unknown = to.unknown \o from.unknown
      /\ n = [fields |-> n.fields, unknown |-> n.unknown]
  BY <1>1 DEF Merged
<1> HIDE DEF n
<1>3. n.fields \in [DOMAIN Fields[t] -> Strings \cup BOOLEAN]
  BY <1>2, MessageFacts
<1>4. ASSUME NEW e \in Entries(t)
      PROVE  /\ n.fields[e.field] = IF Has(t, from, e.field) THEN from.fields[e.field]
                                                              ELSE to.fields[e.field]
             /\ n.fields[e.field] \in FieldType(e)
  <2>1. e.field \in DOMAIN Fields[t]
    BY MessageFacts
  <2>2. from.fields[e.field] \in FieldType(e) /\ to.fields[e.field] \in FieldType(e)
    BY MessageFacts
  <2> QED  BY <1>2, <2>1, <2>2
<1>5. n.unknown \in Seq(Records)
  BY <1>2, MessageFacts
<1>6. n \in Messages(t)
  BY <1>2, <1>3, <1>4, <1>5 DEF Messages
<1> QED  BY <1>2, <1>4, <1>6 DEF n

(* InternalSwap hands over everything: the lists name every field.         *)
LEMMA SwappedIs ==
    ASSUME NEW t \in Types, NEW m \in Messages(t), NEW other \in Messages(t)
    PROVE  Swapped(t, m, other) = other
<1>1. Generated[t].swaps = DOMAIN Fields[t]
  BY Tables DEF TablesAgree
<1>2. Swapped(t, m, other) = [fields  |-> [f \in DOMAIN Fields[t] |-> other.fields[f]],
                              unknown |-> other.unknown]
  BY <1>1 DEF Swapped
<1>3. other.fields = [f \in DOMAIN Fields[t] |-> other.fields[f]]
  BY MessageFacts
<1> QED  BY <1>2, <1>3, MessageFacts

(* A message into which a field of m, if it is set, was parsed.            *)
With(t, n, m, e) ==
    IF Has(t, m, e.field) THEN ParseRecord(t, n, Sent(m, e)) ELSE n

(* It has that field of m, and all else from before.                       *)
LEMMA WithIs ==
    ASSUME NEW t \in Types, NEW m \in Messages(t), NEW n \in Messages(t), NEW e \in Entries(t)
    PROVE  /\ With(t, n, m, e) \in Messages(t)
           /\ With(t, n, m, e).unknown = n.unknown
           /\ \A d \in Entries(t) :
                 With(t, n, m, e).fields[d.field] =
                     IF d = e /\ Has(t, m, d.field) THEN m.fields[d.field] ELSE n.fields[d.field]
<1> DEFINE r == Sent(m, e)
<1>1. r \in Records /\ r.tag = e.tag /\ r.value = m.fields[e.field]
  BY SentType DEF Sent
<1> HIDE DEF r
<1>2. ParseRecord(t, n, r) = [fields |-> [n.fields EXCEPT ![e.field] = r.value], unknown |-> n.unknown]
  BY <1>1, ParseKnown
<1>3. ParseRecord(t, n, r) \in Messages(t)
  BY <1>1, ParseRecordType
<1>4. ASSUME NEW d \in Entries(t)
      PROVE  [n.fields EXCEPT ![e.field] = r.value][d.field] =
                 IF d = e THEN m.fields[d.field] ELSE n.fields[d.field]
  <2>1. d.field \in DOMAIN Fields[t] /\ n.fields \in [DOMAIN Fields[t] -> Strings \cup BOOLEAN]
    BY MessageFacts
  <2>2. d.field = e.field => d = e
    BY EntriesDiffer
  <2> QED  BY <1>1, <2>1, <2>2
<1> QED  BY <1>2, <1>3, <1>4 DEF With, r

(* Writing a field and reading it is With.                                 *)
LEMMA AfterAdd ==
    ASSUME NEW t \in Types, NEW m \in Messages(t), NEW b \in Messages(t),
           NEW w \in Seq(Records), NEW e \in Entries(t)
    PROVE  /\ AddIfHas(t, m, w, e) \in Seq(Records)
           /\ After(t, b, w) \in Messages(t)
           /\ After(t, b, AddIfHas(t, m, w, e)) = With(t, After(t, b, w), m, e)
<1>1. Sent(m, e) \in Records
  BY SentType
<1> QED  BY <1>1, AfterAppend DEF AddIfHas, With

(* What stands before on the wire does not change what is added.           *)
LEMMA AddAfter ==
    ASSUME NEW t \in Types, NEW m \in Messages(t), NEW e \in Entries(t),
           NEW w \in Seq(Records), NEW x \in Seq(Records)
    PROVE  w \o AddIfHas(t, m, x, e) = AddIfHas(t, m, w \o x, e)
<1>1. Sent(m, e) \in Records
  BY SentType
<1> HIDE DEF Sent
<1>2. w \o Append(x, Sent(m, e)) = Append(w \o x, Sent(m, e))
  BY <1>1
<1> QED  BY <1>2 DEF AddIfHas

(* The receiver of a message, after anything else, is left with the merge  *)
(* of both: several images on the wire read as their merge, in order.      *)
THEOREM SerializedReadsAsMerged ==
    ASSUME NEW t \in Types, NEW m \in Messages(t), m.unknown = << >>,
           NEW b \in Messages(t), NEW w \in Seq(Records)
    PROVE  /\ Serialized(t, m) \in Seq(Records)
           /\ After(t, b, w \o Serialized(t, m)) = Merged(t, After(t, b, w), m)
<1> DEFINE first == Sends(t)[1]
           x == AddIfHas(t, m, << >>, first)
           n == After(t, b, w)
<1>1. first \in Entries(t)
  BY KnownIs
<1>2. << >> \in Seq(Records) /\ w \o << >> = w
  OBVIOUS
<1>3. x \in Seq(Records) /\ w \o x = AddIfHas(t, m, w, first) /\ w \o x \in Seq(Records)
  <2>1. x \in Seq(Records) /\ AddIfHas(t, m, w, first) \in Seq(Records)
    BY <1>1, <1>2, AfterAdd
  <2>2. w \o x = AddIfHas(t, m, w \o << >>, first)
    BY <1>1, <1>2, AddAfter
  <2> HIDE DEF x
  <2> QED  BY <1>2, <2>1, <2>2
<1>4. n \in Messages(t) /\ After(t, b, w \o x) = With(t, n, m, first)
  <2>1. n \in Messages(t) /\ After(t, b, AddIfHas(t, m, w, first)) = With(t, n, m, first)
    BY <1>1, AfterAdd
  <2> HIDE DEF x, n
  <2> QED  BY <1>3, <2>1
<1> DEFINE p == With(t, n, m, first)
<1>5. /\ p \in Messages(t) /\ p.unknown = n.unknown
      /\ \A d \in Entries(t) :
            p.fields[d.field] =
                IF d = first /\ Has(t, m, d.field) THEN m.fields[d.field] ELSE n.fields[d.field]
  BY <1>1, <1>4, WithIs
<1>6. /\ Merged(t, n, m) \in Messages(t)
      /\ Merged(t, n, m).unknown = n.unknown \o << >>
      /\ \A e \in Entries(t) :
            Merged(t, n, m).fields[e.field] =
                IF Has(t, m, e.field) THEN m.fields[e.field] ELSE n.fields[e.field]
  <2> HIDE DEF n
  <2>1. Merged(t, n, m).unknown = n.unknown \o m.unknown
    BY <1>4, MergedType
  <2>2. Merged(t, n, m) \in Messages(t)
    BY <1>4, MergedType
  <2>3. \A e \in Entries(t) :
            Merged(t, n, m).fields[e.field] =
                IF Has(t, m, e.field) THEN m.fields[e.field] ELSE n.fields[e.field]
    BY <1>4, MergedType, Zenon
  <2> QED  BY <2>1, <2>2, <2>3
<1>7. n.unknown \o << >> = n.unknown
  BY <1>4, MessageFacts
<1>8. Serialized(t, m) = Known(t, m) \o << >>
  BY SerializedIs
<1>9. CASE Entries(t) = {first} /\ Known(t, m) = x
  <2> HIDE DEF x, n, p, first
  <2>1. Serialized(t, m) = x
    BY <1>3, <1>8, <1>9
  <2>2. \A e \in Entries(t) : p.fields[e.field] = Merged(t, n, m).fields[e.field]
    BY <1>5, <1>6, <1>9
  <2>3. p = Merged(t, n, m)
    BY <1>5, <1>6, <1>7, <2>2, MessagesEqual
  <2> QED  BY <1>3, <1>4, <2>1, <2>3 DEF p, n
<1>10. ASSUME NEW second \in Entries(t), Entries(t) = {first, second},
              first.field # second.field, Known(t, m) = AddIfHas(t, m, x, second)
       PROVE  /\ Serialized(t, m) \in Seq(Records)
              /\ After(t, b, w \o Serialized(t, m)) = Merged(t, n, m)
  <2> DEFINE y == AddIfHas(t, m, x, second)
             q == With(t, p, m, second)
  <2> HIDE DEF x, n, p, first
  <2>1. y \in Seq(Records) /\ w \o y = AddIfHas(t, m, w \o x, second)
    <3>1. y \in Seq(Records)
      BY <1>3, <1>10, AfterAdd
    <3>2. w \o y = AddIfHas(t, m, w \o x, second)
      <4>1. x \in Seq(Records) /\ second \in Entries(t)
        BY <1>3, <1>10
      <4> HIDE DEF y
      <4>2. w \o AddIfHas(t, m, x, second) = AddIfHas(t, m, w \o x, second)
        BY <4>1, AddAfter
      <4> QED  BY <4>2 DEF y
    <3> QED  BY <3>1, <3>2
  <2>2. After(t, b, w \o y) = q
    <3>1. After(t, b, AddIfHas(t, m, w \o x, second)) = With(t, After(t, b, w \o x), m, second)
      BY <1>3, <1>10, AfterAdd
    <3> HIDE DEF y
    <3> QED  BY <1>4, <2>1, <3>1 DEF p
  <2>3. /\ q \in Messages(t) /\ q.unknown = p.unknown
        /\ \A d \in Entries(t) :
              q.fields[d.field] =
                  IF d = second /\ Has(t, m, d.field) THEN m.fields[d.field] ELSE p.fields[d.field]
    BY <1>5, <1>10, WithIs
  <2> HIDE DEF y, q
  <2>4. Serialized(t, m) = y
    BY <1>8, <1>10, <2>1 DEF y
  <2>5. \A e \in Entries(t) : q.fields[e.field] = Merged(t, n, m).fields[e.field]
    BY <1>5, <1>6, <1>10, <2>3
  <2>6. q = Merged(t, n, m)
    BY <1>5, <1>6, <1>7, <2>3, <2>5, MessagesEqual
  <2> QED  BY <2>1, <2>2, <2>4, <2>6
<1> QED  BY <1>9, <1>10, KnownIs

-----------------------------------------------------------------------------
(* The elements of two sequences after each other.                         *)
LEMMA ConcatFacts ==
    ASSUME NEW S, NEW u \in Seq(S), NEW v \in Seq(S)
    PROVE  /\ u \o v \in Seq(S) /\ Len(u \o v) = Len(u) + Len(v)
           /\ \A i \in 1..Len(u) : (u \o v)[i] = u[i]
           /\ \A i \in 1..Len(v) : (u \o v)[Len(u) + i] = v[i]
OBVIOUS

(* Sequences of two elements, however they are put together.               *)
LEMMA TwoRecords == \A x, y : Append(<<x>>, y) = <<x, y>> /\ <<x>> \o <<y>> = <<x, y>>
<1> SUFFICES ASSUME NEW x, NEW y PROVE Append(<<x>>, y) = <<x, y>> /\ <<x>> \o <<y>> = <<x, y>>
  OBVIOUS
<1> DEFINE S == {x, y}
           u == <<x>>
           v == <<y>>
           c == u \o v
           a == Append(u, y)
<1>1. u \in Seq(S) /\ Len(u) = 1 /\ u[1] = x
  OBVIOUS
<1>2. v \in Seq(S) /\ Len(v) = 1 /\ v[1] = y
  OBVIOUS
<1>3. y \in S
  OBVIOUS
<1>4. a = c
  <2>1. u \in Seq(S) /\ y \in S
    BY <1>1, <1>3
  <2> HIDE DEF u, S
  <2> QED BY <2>1
<1> HIDE DEF S, u, v, c
<1>5. /\ c \in Seq(S) /\ Len(c) = Len(u) + Len(v)
      /\ \A i \in 1..Len(u) : c[i] = u[i]
      /\ \A i \in 1..Len(v) : c[Len(u) + i] = v[i]
  BY <1>1, <1>2, ConcatFacts DEF c
<1>6. c \in Seq(S) /\ Len(c) = 2 /\ c[1] = x /\ c[2] = y
  BY <1>1, <1>2, <1>5
<1>7. c = <<x, y>>
  BY <1>6
<1> QED  BY <1>4, <1>7 DEF u, v, c

(* When no record is refused all of them are parsed, into a message that   *)
(* was cleared.                                                            *)
LEMMA ParsedWhole ==
    ASSUME NEW t \in Types, NEW m, NEW w \in Seq(Records), Parses(t, w)
    PROVE  Parsed(t, m, w) = After(t, New(t), w)
<1>1. {i \in DOMAIN w : Refused(t, w[i])} = {}
  BY DEF Parses
<1>2. ParsedOnto(t, New(t), w) = After(t, New(t), w)
  BY <1>1 DEF ParsedOnto, After
<1> QED  BY <1>2, ClearedIsNew DEF Parsed

(* A field is set when it has not the default of its tag.                  *)
LEMMA HasIs ==
    ASSUME NEW t \in Types, NEW m, NEW e \in Entries(t)
    PROVE  Has(t, m, e.field) <=> m.fields[e.field] # Default(e.tag)
<1>1. TablesAgree(t)
  BY Tables
<1>2. Fields[t][e.field] = Default(e.tag)
  BY <1>1 DEF TablesAgree
<1> QED  BY <1>2 DEF Has

(* What a message sends of its own fields: nothing, one record, or both.   *)
LEMMA SentForms ==
    ASSUME NEW t \in Types, NEW m \in Messages(t)
    PROVE  \/ Known(t, m) = << >> /\ \A e \in Entries(t) : ~Has(t, m, e.field)
           \/ \E d \in Entries(t) : /\ \A e \in Entries(t) : Has(t, m, e.field) <=> e = d
                                    /\ Known(t, m) = <<Sent(m, d)>>
           \/ \E d, e \in Entries(t) : /\ d # e /\ d.tag # e.tag /\ Entries(t) = {d, e}
                                       /\ Has(t, m, d.field) /\ Has(t, m, e.field)
                                       /\ Known(t, m) = <<Sent(m, d), Sent(m, e)>>
<1> DEFINE d == Sends(t)[1]
           a == Sent(m, d)
<1>1. AddIfHas(t, m, << >>, d) = IF Has(t, m, d.field) THEN <<a>> ELSE << >>
  <2> HIDE DEF a
  <2>1. Append(<< >>, a) = <<a>>
    OBVIOUS
  <2> QED  BY <2>1 DEF AddIfHas, a
<1>2. d \in Entries(t)
  BY KnownIs
<1>3. CASE Entries(t) = {d} /\ Known(t, m) = AddIfHas(t, m, << >>, d)
  <2> HIDE DEF a, d
  <2>1. CASE Has(t, m, d.field)
    <3>1. Known(t, m) = <<Sent(m, d)>>
      BY <1>1, <1>3, <2>1 DEF a
    <3>2. \A e \in Entries(t) : Has(t, m, e.field) <=> e = d
      BY <1>3, <2>1
    <3> QED  BY <1>2, <3>1, <3>2
  <2>2. CASE ~Has(t, m, d.field)
    <3>1. Known(t, m) = << >> /\ \A e \in Entries(t) : ~Has(t, m, e.field)
      BY <1>1, <1>3, <2>2
    <3> QED  BY <3>1
  <2> QED  BY <2>1, <2>2
<1>4. ASSUME NEW e \in Entries(t), Entries(t) = {d, e}, d.field # e.field, d.tag # e.tag,
             Known(t, m) = AddIfHas(t, m, AddIfHas(t, m, << >>, d), e)
      PROVE  \/ Known(t, m) = << >> /\ \A f \in Entries(t) : ~Has(t, m, f.field)
             \/ \E c \in Entries(t) : /\ \A f \in Entries(t) : Has(t, m, f.field) <=> f = c
                                      /\ Known(t, m) = <<Sent(m, c)>>
             \/ /\ d # e /\ d.tag # e.tag /\ Entries(t) = {d, e}
                /\ Has(t, m, d.field) /\ Has(t, m, e.field)
                /\ Known(t, m) = <<Sent(m, d), Sent(m, e)>>
  <2> DEFINE b == Sent(m, e)
  <2> HIDE DEF a, d
  <2>1. \A x : AddIfHas(t, m, x, e) = IF Has(t, m, e.field) THEN Append(x, b) ELSE x
    BY DEF AddIfHas
  <2> HIDE DEF b
  <2>2. Append(<< >>, b) = <<b>> /\ Append(<<a>>, b) = <<a, b>>
    <3>1. Append(<< >>, b) = <<b>>
      OBVIOUS
    <3> QED  BY <3>1, TwoRecords
  <2>3. d # e
    BY <1>4
  <2>4. CASE Has(t, m, d.field) /\ Has(t, m, e.field)
    <3>1. Known(t, m) = <<a, b>>
      BY <1>1, <1>4, <2>1, <2>2, <2>4
    <3> QED  BY <1>4, <2>3, <2>4, <3>1 DEF a, b
  <2>5. CASE Has(t, m, d.field) /\ ~Has(t, m, e.field)
    <3>1. Known(t, m) = <<a>>
      BY <1>1, <1>4, <2>1, <2>5
    <3>2. \A f \in Entries(t) : Has(t, m, f.field) <=> f = d
      BY <1>4, <2>3, <2>5
    <3> QED  BY <1>2, <3>1, <3>2 DEF a
  <2>6. CASE ~Has(t, m, d.field) /\ Has(t, m, e.field)
    <3>1. Known(t, m) = <<b>>
      BY <1>1, <1>4, <2>1, <2>2, <2>6
    <3>2. \A f \in Entries(t) : Has(t, m, f.field) <=> f = e
      BY <1>4, <2>3, <2>6
    <3> QED  BY <3>1, <3>2 DEF b
  <2>7. CASE ~Has(t, m, d.field) /\ ~Has(t, m, e.field)
    <3>1. Known(t, m) = << >> /\ \A f \in Entries(t) : ~Has(t, m, f.field)
      BY <1>1, <1>4, <2>1, <2>7
    <3> QED  BY <3>1
  <2> QED  BY <2>4, <2>5, <2>6, <2>7
<1> QED  BY <1>2, <1>3, <1>4, KnownIs

(* No field set, nothing sent.                                             *)
LEMMA NothingSent ==
    ASSUME NEW t \in Types, NEW m \in Messages(t),
           \A e \in Entries(t) : ~Has(t, m, e.field)
    PROVE  Known(t, m) = << >>
BY SentForms, ZenonT(60)

(* One field set, its record sent.                                         *)
LEMMA OneSent ==
    ASSUME NEW t \in Types, NEW m \in Messages(t), NEW d \in Entries(t),
           \A e \in Entries(t) : Has(t, m, e.field) <=> e = d
    PROVE  Known(t, m) = <<Sent(m, d)>>
BY SentForms, ZenonT(60)

(* Both fields set, both records sent, in the order of the list.           *)
LEMMA BothSent ==
    ASSUME NEW t \in Types, NEW m \in Messages(t), NEW d \in Entries(t), NEW e \in Entries(t),
           d # e, Has(t, m, d.field), Has(t, m, e.field)
    PROVE  Known(t, m) \in {<<Sent(m, d), Sent(m, e)>>, <<Sent(m, e), Sent(m, d)>>}
<1>1. PICK c, f \in Entries(t) : /\ Entries(t) = {c, f}
                                 /\ Known(t, m) = <<Sent(m, c), Sent(m, f)>>
  BY SentForms, ZenonT(60)
<1> QED  BY <1>1

-----------------------------------------------------------------------------
(* A record whose value is not the default of its tag: no other is sent.   *)
IsSet(r) == r \in Records /\ r.value # Default(r.tag)

(* What is sent of a field that is set.                                    *)
LEMMA SentIsSet ==
    ASSUME NEW t \in Types, NEW m \in Messages(t), NEW e \in Entries(t), Has(t, m, e.field)
    PROVE  IsSet(Sent(m, e)) /\ Sent(m, e).tag = e.tag
<1>1. Sent(m, e) \in Records
  BY SentType
<1>2. m.fields[e.field] # Default(e.tag)
  BY HasIs
<1> QED  BY <1>1, <1>2 DEF Sent, IsSet

(* No field of a constructed message is set.                               *)
LEMMA NewHasNothing ==
    ASSUME NEW t \in Types, NEW e \in Entries(t)
    PROVE  ~Has(t, New(t), e.field) /\ New(t).fields[e.field] = Default(e.tag)
           /\ New(t).unknown = << >>
<1>1. TablesAgree(t)
  BY Tables
<1>2. Fields[t][e.field] = Default(e.tag)
  BY <1>1 DEF TablesAgree
<1> QED  BY <1>2 DEF Has, New

(* n, with the record r taken into its field d, is p.                      *)
Takes(t, p, n, r, d) ==
    /\ d.tag = r.tag /\ p.unknown = n.unknown
    /\ Has(t, p, d.field) /\ Sent(p, d) = r
    /\ \A e \in Entries(t) : e # d => /\ Has(t, p, e.field) <=> Has(t, n, e.field)
                                     /\ Sent(p, e) = Sent(n, e)

(* n, with the record r kept among the unknown fields, is p.               *)
Keeps(t, p, n, r) ==
    /\ p.unknown = Append(n.unknown, r)
    /\ \A e \in Entries(t) : /\ Has(t, p, e.field) <=> Has(t, n, e.field)
                             /\ Sent(p, e) = Sent(n, e)

(* A type takes a record into one of its fields, or keeps it.              *)
LEMMA ParsedRecord ==
    ASSUME NEW t \in Types, NEW n \in Messages(t), NEW r, IsSet(r)
    PROVE  /\ ParseRecord(t, n, r) \in Messages(t)
           /\ \/ \E d \in Entries(t) : Takes(t, ParseRecord(t, n, r), n, r, d)
              \/ Keeps(t, ParseRecord(t, n, r), n, r)
<1> DEFINE p == ParseRecord(t, n, r)
<1>1. r \in Records /\ r.value # Default(r.tag)
  BY DEF IsSet
<1>2. p \in Messages(t)
  BY <1>1, ParseRecordType
<1>3. ASSUME NEW d \in Entries(t), d.tag = r.tag
      PROVE  /\ p.unknown = n.unknown /\ p.fields[d.field] = r.value
             /\ \A e \in Entries(t) : e # d => p.fields[e.field] = n.fields[e.field]
  <2>1. p = [fields |-> [n.fields EXCEPT ![d.field] = r.value], unknown |-> n.unknown]
    BY <1>1, <1>3, ParseKnown
  <2>2. d.field \in DOMAIN Fields[t] /\ n.fields \in [DOMAIN Fields[t] -> Strings \cup BOOLEAN]
    BY MessageFacts
  <2>3. ASSUME NEW e \in Entries(t), e # d PROVE p.fields[e.field] = n.fields[e.field]
    <3>1. e.field # d.field
      BY <2>3, EntriesDiffer
    <3>2. e.field \in DOMAIN Fields[t]
      BY MessageFacts
    <3> QED  BY <2>1, <2>2, <3>1, <3>2
  <2> HIDE DEF p
  <2> QED  BY <2>1, <2>2, <2>3
<1>4. CASE \E d \in Entries(t) : d.tag = r.tag
  <2>1. PICK d \in Entries(t) : d.tag = r.tag
    BY <1>4
  <2> HIDE DEF p
  <2>2. Has(t, p, d.field)
    BY <1>1, <1>3, <2>1, HasIs
  <2>3. r = [tag |-> r.tag, value |-> r.value]
    BY <1>1, RecordFacts
  <2>4. Sent(p, d) = r
    BY <1>3, <2>1, <2>3 DEF Sent
  <2>5. ASSUME NEW e \in Entries(t), e # d
        PROVE  (Has(t, p, e.field) <=> Has(t, n, e.field)) /\ Sent(p, e) = Sent(n, e)
    <3>1. p.fields[e.field] = n.fields[e.field]
      BY <1>3, <2>1, <2>5
    <3> QED  BY <3>1, HasIs DEF Sent
  <2>6. p.unknown = n.unknown
    BY <1>3, <2>1
  <2>7. Takes(t, p, n, r, d)
    BY <2>1, <2>2, <2>4, <2>5, <2>6 DEF Takes
  <2> QED  BY <1>2, <2>7 DEF p
<1>5. CASE \A d \in Entries(t) : d.tag # r.tag
  <2>1. p = [fields |-> n.fields, unknown |-> Append(n.unknown, r)]
    BY <1>1, <1>5, ParseUnknown
  <2> HIDE DEF p
  <2>2. p.fields = n.fields /\ p.unknown = Append(n.unknown, r)
    BY <2>1
  <2>3. \A e \in Entries(t) : (Has(t, p, e.field) <=> Has(t, n, e.field)) /\ Sent(p, e) = Sent(n, e)
    BY <2>2 DEF Has, Sent
  <2>4. Keeps(t, p, n, r)
    BY <2>2, <2>3 DEF Keeps
  <2> QED  BY <1>2, <2>4 DEF p
<1> QED  BY <1>4, <1>5

-----------------------------------------------------------------------------
(* What a peer sends on that read the records as the type t.               *)
Relay(t, sent) == Serialized(t, After(t, New(t), sent))

(* A constructed message, in one place.                                    *)
LEMMA NewFacts ==
    ASSUME NEW t \in Types
    PROVE  /\ New(t) \in Messages(t) /\ New(t).unknown = << >>
           /\ \A e \in Entries(t) : ~Has(t, New(t), e.field)
BY NewType, NewHasNothing DEF New

(* Nothing is passed on as nothing.                                        *)
LEMMA RelayOfNone ==
    ASSUME NEW t \in Types
    PROVE  Relay(t, << >>) = << >>
<1>1. After(t, New(t), << >>) = New(t)
  BY NewFacts, AfterEmpty
<1>2. Known(t, New(t)) = << >>
  BY NewFacts, NothingSent
<1>3. Serialized(t, New(t)) = << >> \o << >>
  BY <1>2, NewFacts, SerializedIs
<1> QED  BY <1>1, <1>3 DEF Relay

(* One record.                                                             *)
LEMMA AfterOne ==
    ASSUME NEW t \in Types, NEW b \in Messages(t), NEW r \in Records
    PROVE  After(t, b, <<r>>) = ParseRecord(t, b, r)
<1>1. << >> \in Seq(Records) /\ Append(<< >>, r) = <<r>>
  OBVIOUS
<1>2. After(t, b, Append(<< >>, r)) = ParseRecord(t, After(t, b, << >>), r)
  BY <1>1, AfterAppend
<1> QED  BY <1>1, <1>2, AfterEmpty

(* Two records, one after the other.                                       *)
LEMMA AfterTwo ==
    ASSUME NEW t \in Types, NEW b \in Messages(t), NEW r \in Records, NEW s \in Records
    PROVE  After(t, b, <<r, s>>) = ParseRecord(t, ParseRecord(t, b, r), s)
<1>1. <<r>> \in Seq(Records)
  OBVIOUS
<1>2. After(t, b, Append(<<r>>, s)) = ParseRecord(t, After(t, b, <<r>>), s)
  BY <1>1, AfterAppend
<1> QED  BY <1>2, AfterOne, TwoRecords

(* One record is passed on as it came, known to the peer or not.           *)
LEMMA RelayOfOne ==
    ASSUME NEW t \in Types, NEW r, IsSet(r)
    PROVE  Relay(t, <<r>>) = <<r>>
<1> DEFINE p == ParseRecord(t, New(t), r)
<1>1. Relay(t, <<r>>) = Known(t, p) \o p.unknown
  BY AfterOne, NewFacts, SerializedIs DEF IsSet, Relay
<1>2. p \in Messages(t) /\ ((\E d \in Entries(t) : Takes(t, p, New(t), r, d)) \/ Keeps(t, p, New(t), r))
  BY NewFacts, ParsedRecord
<1>3. <<r>> \o << >> = <<r>> /\ << >> \o <<r>> = <<r>> /\ Append(<< >>, r) = <<r>>
  OBVIOUS
<1> HIDE DEF p
<1>4. ASSUME NEW d \in Entries(t), Takes(t, p, New(t), r, d) PROVE Relay(t, <<r>>) = <<r>>
  <2>1. \A e \in Entries(t) : Has(t, p, e.field) <=> e = d
    BY <1>4, NewFacts DEF Takes
  <2>2. Sent(p, d) = r /\ p.unknown = << >>
    BY <1>4, NewFacts DEF Takes
  <2>3. Known(t, p) = <<r>>
    BY <1>2, <2>1, <2>2, OneSent
  <2> QED  BY <1>1, <1>3, <2>2, <2>3
<1>5. CASE Keeps(t, p, New(t), r)
  <2>1. \A e \in Entries(t) : ~Has(t, p, e.field)
    BY <1>5, NewFacts DEF Keeps
  <2>2. Known(t, p) = << >> /\ p.unknown = <<r>>
    BY <1>2, <1>3, <1>5, <2>1, NewFacts, NothingSent DEF Keeps
  <2> QED  BY <1>1, <1>3, <2>2
<1> QED  BY <1>2, <1>4, <1>5

(* Two are both passed on, though perhaps in the other order: the fields   *)
(* the peer knows come before those it does not.                           *)
LEMMA RelayOfTwo ==
    ASSUME NEW t \in Types, NEW r, IsSet(r), NEW s, IsSet(s), r.tag # s.tag
    PROVE  Relay(t, <<r, s>>) \in {<<r, s>>, <<s, r>>}
<1> DEFINE p == ParseRecord(t, New(t), r)
           q == ParseRecord(t, p, s)
<1>1. Relay(t, <<r, s>>) = Known(t, q) \o q.unknown
  BY AfterTwo, NewFacts, SerializedIs DEF IsSet, Relay
<1>2. p \in Messages(t) /\ ((\E d \in Entries(t) : Takes(t, p, New(t), r, d)) \/ Keeps(t, p, New(t), r))
  BY NewFacts, ParsedRecord
<1> HIDE DEF p
<1>3. q \in Messages(t) /\ ((\E d \in Entries(t) : Takes(t, q, p, s, d)) \/ Keeps(t, q, p, s))
  BY <1>2, ParsedRecord
<1> HIDE DEF q
<1>4. /\ <<r, s>> \o << >> = <<r, s>> /\ <<s, r>> \o << >> = <<s, r>>
      /\ << >> \o <<r, s>> = <<r, s>>
      /\ Append(<< >>, r) = <<r>> /\ Append(<< >>, s) = <<s>>
  OBVIOUS
<1>5. ASSUME NEW d \in Entries(t), Takes(t, p, New(t), r, d)
      PROVE  Relay(t, <<r, s>>) \in {<<r, s>>, <<s, r>>}
  <2>1. d.tag = r.tag /\ p.unknown = << >> /\ Has(t, p, d.field) /\ Sent(p, d) = r
    BY <1>5, NewFacts DEF Takes
  <2>2. \A e \in Entries(t) : Has(t, p, e.field) <=> e = d
    BY <1>5, <2>1, NewFacts DEF Takes
  <2>3. ASSUME NEW c \in Entries(t), Takes(t, q, p, s, c)
        PROVE  Relay(t, <<r, s>>) \in {<<r, s>>, <<s, r>>}
    <3>1. c.tag = s.tag /\ q.unknown = << >> /\ Has(t, q, c.field) /\ Sent(q, c) = s
      BY <2>1, <2>3 DEF Takes
    <3>2. c # d
      BY <2>1, <3>1
    <3>3. Has(t, q, d.field) /\ Sent(q, d) = r
      BY <2>1, <2>3, <3>2 DEF Takes
    <3>4. Known(t, q) \in {<<Sent(q, d), Sent(q, c)>>, <<Sent(q, c), Sent(q, d)>>}
      BY <1>3, <3>1, <3>2, <3>3, BothSent
    <3>5. Known(t, q) \in {<<r, s>>, <<s, r>>}
      BY <3>1, <3>3, <3>4, Zenon
    <3> QED  BY <1>1, <1>4, <3>1, <3>5
  <2>4. CASE Keeps(t, q, p, s)
    <3>1. \A e \in Entries(t) : Has(t, q, e.field) <=> e = d
      BY <2>2, <2>4 DEF Keeps
    <3>2. Sent(q, d) = r /\ q.unknown = Append(<< >>, s)
      BY <2>1, <2>4 DEF Keeps
    <3>3. Known(t, q) = <<r>>
      BY <1>3, <3>1, <3>2, OneSent
    <3> QED  BY <1>1, <1>4, <3>2, <3>3, TwoRecords
  <2> QED  BY <1>3, <2>3, <2>4
<1>6. CASE Keeps(t, p, New(t), r)
  <2>1. p.unknown = <<r>> /\ \A e \in Entries(t) : ~Has(t, p, e.field)
    BY <1>4, <1>6, NewFacts DEF Keeps
  <2>2. ASSUME NEW c \in Entries(t), Takes(t, q, p, s, c)
        PROVE  Relay(t, <<r, s>>) \in {<<r, s>>, <<s, r>>}
    <3>1. \A e \in Entries(t) : Has(t, q, e.field) <=> e = c
      BY <2>1, <2>2 DEF Takes
    <3>2. Sent(q, c) = s /\ q.unknown = <<r>>
      BY <2>1, <2>2 DEF Takes
    <3>3. Known(t, q) = <<s>>
      BY <1>3, <3>1, <3>2, OneSent
    <3> QED  BY <1>1, <3>2, <3>3, TwoRecords
  <2>3. CASE Keeps(t, q, p, s)
    <3>1. \A e \in Entries(t) : ~Has(t, q, e.field)
      BY <2>1, <2>3 DEF Keeps
    <3>2. Known(t, q) = << >> /\ q.unknown = <<r, s>>
      BY <1>3, <2>1, <2>3, <3>1, NothingSent, TwoRecords DEF Keeps
    <3> QED  BY <1>1, <1>4, <3>2
  <2> QED  BY <1>3, <2>2, <2>3
<1> QED  BY <1>2, <1>5, <1>6

(* A message without unknown fields reads back as itself.                  *)
LEMMA ReadBack ==
    ASSUME NEW t \in Types, NEW m \in Messages(t), m.unknown = << >>
    PROVE  /\ Serialized(t, m) = Known(t, m) /\ Known(t, m) \in Seq(Records)
           /\ After(t, New(t), Known(t, m)) = m
<1> DEFINE n == Merged(t, New(t), m)
<1>1. /\ Serialized(t, m) \in Seq(Records)
      /\ After(t, New(t), << >> \o Serialized(t, m)) = Merged(t, After(t, New(t), << >>), m)
  BY NewFacts, SerializedReadsAsMerged, << >> \in Seq(Records)
<1>2. Serialized(t, m) = Known(t, m) \o << >>
  BY SerializedIs
<1>3. Known(t, m) \in Seq(Records)
  <2>1. PICK v : /\ IsRun(v, Seq(Records), Entries(t), AddField(t, m), << >>, Sends(t))
                 /\ Known(t, m) = v[Len(Sends(t))]
    BY KnownRun
  <2>2. Len(Sends(t)) \in 0..Len(Sends(t))
    BY <2>1 DEF IsRun
  <2> QED  BY <2>1, <2>2 DEF IsRun
<1>4. /\ Serialized(t, m) = Known(t, m) /\ << >> \o Known(t, m) = Known(t, m)
      /\ Known(t, m) \in Seq(Records)
  BY <1>2, <1>3
<1>5. After(t, New(t), << >>) = New(t)
  BY AfterEmpty, NewFacts
<1>6. n \in Messages(t) /\ n.unknown = << >> \o << >>
  <2>1. New(t) \in Messages(t) /\ New(t).unknown = << >>
    BY NewFacts
  <2>2. n \in Messages(t) /\ n.unknown = New(t).unknown \o m.unknown
    BY <2>1, MergedType
  <2> HIDE DEF n
  <2> QED  BY <2>1, <2>2
<1>7. ASSUME NEW e \in Entries(t) PROVE n.fields[e.field] = m.fields[e.field]
  <2>1. n.fields[e.field] = IF Has(t, m, e.field) THEN m.fields[e.field] ELSE New(t).fields[e.field]
    BY MergedType, NewFacts
  <2> HIDE DEF n
  <2> QED  BY <2>1, HasIs, NewHasNothing
<1> HIDE DEF n
<1>8. n = m
  BY <1>6, <1>7, MessagesEqual
<1> QED  BY <1>1, <1>4, <1>5, <1>8 DEF n

(* The records of two fields may be read in either order.                  *)
LEMMA EitherOrder ==
    ASSUME NEW t \in Types, NEW b \in Messages(t), NEW m \in Messages(t),
           NEW d \in Entries(t), NEW e \in Entries(t),
           d # e, Has(t, m, d.field), Has(t, m, e.field)
    PROVE  After(t, b, <<Sent(m, e), Sent(m, d)>>) = After(t, b, <<Sent(m, d), Sent(m, e)>>)
<1> DEFINE p == With(t, b, m, d)
           q == With(t, b, m, e)
           u == With(t, p, m, e)
           v == With(t, q, m, d)
<1>1. /\ p \in Messages(t) /\ p.unknown = b.unknown
      /\ \A c \in Entries(t) :
            p.fields[c.field] = IF c = d /\ Has(t, m, c.field) THEN m.fields[c.field] ELSE b.fields[c.field]
  BY WithIs
<1>2. /\ q \in Messages(t) /\ q.unknown = b.unknown
      /\ \A c \in Entries(t) :
            q.fields[c.field] = IF c = e /\ Has(t, m, c.field) THEN m.fields[c.field] ELSE b.fields[c.field]
  BY WithIs
<1>3. u = After(t, b, <<Sent(m, d), Sent(m, e)>>) /\ v = After(t, b, <<Sent(m, e), Sent(m, d)>>)
  BY SentType, AfterTwo DEF With
<1> HIDE DEF p, q
<1>4. /\ u \in Messages(t) /\ u.unknown = p.unknown
      /\ \A c \in Entries(t) :
            u.fields[c.field] = IF c = e /\ Has(t, m, c.field) THEN m.fields[c.field] ELSE p.fields[c.field]
  BY <1>1, WithIs
<1>5. /\ v \in Messages(t) /\ v.unknown = q.unknown
      /\ \A c \in Entries(t) :
            v.fields[c.field] = IF c = d /\ Has(t, m, c.field) THEN m.fields[c.field] ELSE q.fields[c.field]
  BY <1>2, WithIs
<1> HIDE DEF u, v
<1>6. \A c \in Entries(t) : u.fields[c.field] = v.fields[c.field]
  BY <1>1, <1>2, <1>4, <1>5
<1>7. u = v
  BY <1>1, <1>2, <1>4, <1>5, <1>6, MessagesEqual
<1> QED  BY <1>3, <1>7

(* Only fields of type string are verified, never bytes or a bool.         *)
LEMMA VerifiedIsText ==
    ASSUME NEW t \in Types, NEW e \in Entries(t), e.tag \in Generated[t].verifies
    PROVE  e.tag # 8 /\ ~IsBytes(t, e.field)
<1>1. Generated[t].verifies \subseteq {10, 18} /\ Generated[t].parses[e.tag] = e.field
  BY Tables DEF TablesAgree
<1>2. CASE t = "UploadChunk"
  <2>1. e.tag = 10 /\ e.field = "filename"
    BY <1>1, <1>2 DEF Generated, UploadChunk
  <2> QED  BY <1>2, <2>1 DEF IsBytes
<1>3. CASE t = "DownloadChunk"
  BY <1>3 DEF Generated, DownloadChunk
<1>4. CASE t \notin {"UploadChunk", "DownloadChunk"}
  BY <1>1, <1>4 DEF IsBytes
<1> QED  BY <1>2, <1>3, <1>4

(* What a sender may send, its own type does not refuse.                   *)
LEMMA SentIsAccepted ==
    ASSUME NEW t \in Types, NEW m \in Messages(t), Sendable(t, m), NEW e \in Entries(t)
    PROVE  ~Refused(t, Sent(m, e))
<1> SUFFICES ASSUME e.tag \in Generated[t].verifies PROVE m.fields[e.field] \in Utf8
  BY DEF Refused, Sent
<1>1. e.tag # 8 /\ ~IsBytes(t, e.field)
  BY VerifiedIsText
<1>2. m.fields[e.field] \in Strings
  BY <1>1, MessageFacts DEF FieldType
<1>3. e.field \in DOMAIN m.fields
  BY MessageFacts
<1>4. m.fields[e.field] \in Utf8 \cup BOOLEAN
  BY <1>1, <1>3 DEF Sendable
<1> QED  BY <1>2, <1>4, StringAssumption

(* What is sent as one type, read as another, sent on and read as the      *)
(* first is the message that was sent.                                     *)
LEMMA RelayIsRead ==
    ASSUME NEW s \in Types, NEW m \in Messages(s), m.unknown = << >>, Sendable(s, m),
           NEW t \in Types, Parses(t, Serialized(s, m))
    PROVE  Parsed(s, New(s), Serialized(t, Parsed(t, New(t), Serialized(s, m)))) = m
<1> DEFINE sent == Known(s, m)
           relay == Relay(t, sent)
<1>1. Serialized(s, m) = sent /\ sent \in Seq(Records) /\ After(s, New(s), sent) = m
  BY ReadBack
<1>2. Serialized(t, Parsed(t, New(t), Serialized(s, m))) = relay
  BY <1>1, ParsedWhole DEF Relay
<1>3. New(s) \in Messages(s)
  BY NewFacts
<1>4. ASSUME relay \in Seq(Records), Parses(s, relay), After(s, New(s), relay) = m
      PROVE  Parsed(s, New(s), relay) = m
  <2> HIDE DEF relay
  <2> QED  BY <1>4, ParsedWhole
<1> HIDE DEF sent
<1>5. ASSUME sent = << >> PROVE Parsed(s, New(s), relay) = m
  <2>1. relay = << >>
    BY <1>5, RelayOfNone
  <2>2. DOMAIN << >> = {} /\ << >> \in Seq(Records)
    OBVIOUS
  <2>3. Parses(s, << >>)
    BY <2>2 DEF Parses
  <2>4. relay \in Seq(Records) /\ Parses(s, relay)
    <3> HIDE DEF relay
    <3> QED  BY <2>1, <2>2, <2>3
  <2>5. After(s, New(s), relay) = m
    <3> HIDE DEF relay
    <3> QED  BY <1>1, <1>5, <2>1, Zenon
  <2> HIDE DEF relay
  <2> QED  BY <1>4, <2>4, <2>5, Zenon
<1>6. ASSUME NEW d \in Entries(s), \A e \in Entries(s) : Has(s, m, e.field) <=> e = d,
             sent = <<Sent(m, d)>>
      PROVE  Parsed(s, New(s), relay) = m
  <2>1. relay = sent
    <3>1. Has(s, m, d.field)
      BY <1>6
    <3> QED  BY <1>6, <3>1, SentIsSet, RelayOfOne
  <2>2. Parses(s, sent)
    <3>1. ~Refused(s, Sent(m, d))
      BY SentIsAccepted
    <3> DEFINE r == Sent(m, d)
    <3> HIDE DEF r
    <3>2. DOMAIN <<r>> = {1} /\ <<r>>[1] = r
      OBVIOUS
    <3> QED  BY <1>6, <3>1, <3>2 DEF Parses, r
  <2> QED  BY <1>1, <1>4, <2>1, <2>2
<1>7. ASSUME NEW d \in Entries(s), NEW e \in Entries(s), d # e, d.tag # e.tag,
             Has(s, m, d.field), Has(s, m, e.field), sent = <<Sent(m, d), Sent(m, e)>>
      PROVE  Parsed(s, New(s), relay) = m
  <2>1. relay \in {sent, <<Sent(m, e), Sent(m, d)>>}
    BY <1>7, SentIsSet, RelayOfTwo
  <2>2. After(s, New(s), relay) = m
    BY <1>1, <1>3, <1>7, <2>1, EitherOrder
  <2>3. ~Refused(s, Sent(m, d)) /\ ~Refused(s, Sent(m, e))
    BY SentIsAccepted
  <2>4. relay \in Seq(Records) /\ Parses(s, relay)
    <3> DEFINE a == Sent(m, d)
               b == Sent(m, e)
    <3>1. a \in Records /\ b \in Records
      BY SentType
    <3> HIDE DEF a, b
    <3>2. /\ DOMAIN <<a, b>> = {1, 2} /\ <<a, b>>[1] = a /\ <<a, b>>[2] = b
          /\ DOMAIN <<b, a>> = {1, 2} /\ <<b, a>>[1] = b /\ <<b, a>>[2] = a
      OBVIOUS
    <3>3. <<a, b>> \in Seq(Records) /\ <<b, a>> \in Seq(Records)
      BY <3>1
    <3>4. Parses(s, <<a, b>>) /\ Parses(s, <<b, a>>)
      BY <2>3, <3>2 DEF Parses, a, b
    <3> QED  BY <1>7, <2>1, <3>3, <3>4 DEF a, b
  <2> QED  BY <1>4, <2>2, <2>4
<1>8. Parsed(s, New(s), relay) = m
  <2> HIDE DEF relay
  <2>1. \/ sent = << >>
        \/ \E d \in Entries(s) : /\ \A e \in Entries(s) : Has(s, m, e.field) <=> e = d
                                 /\ sent = <<Sent(m, d)>>
        \/ \E d, e \in Entries(s) : /\ d # e /\ d.tag # e.tag
                                    /\ Has(s, m, d.field) /\ Has(s, m, e.field)
                                    /\ sent = <<Sent(m, d), Sent(m, e)>>
    BY SentForms DEF sent
  <2>2. ASSUME NEW d \in Entries(s), \A e \in Entries(s) : Has(s, m, e.field) <=> e = d,
               sent = <<Sent(m, d)>>
        PROVE  Parsed(s, New(s), relay) = m
    BY <1>6, <2>2, Zenon
  <2>3. ASSUME NEW d \in Entries(s), NEW e \in Entries(s), d # e, d.tag # e.tag,
               Has(s, m, d.field), Has(s, m, e.field), sent = <<Sent(m, d), Sent(m, e)>>
        PROVE  Parsed(s, New(s), relay) = m
    BY <1>7, <2>3, Zenon
  <2> QED  BY <1>5, <2>1, <2>2, <2>3, Zenon
<1> QED  BY <1>2, <1>8

-----------------------------------------------------------------------------
(* The server finds each method by its name at the stub's index.           *)
LEMMA MethodIs == Method("Upload") = 1 /\ Method("Download") = 2 /\ Method("Delete") = 3
<1> DEFINE Named(m, i) ==
        FileService_method_names[AddMethod[i].name] = FileService_method_names[Stub[m].index]
<1>1. DOMAIN AddMethod = {1, 2, 3}
  BY DEF AddMethod
<1>2. ASSUME NEW i \in {1, 2, 3} PROVE AddMethod[i].name = i
  BY DEF AddMethod
<1>3. Stub["Upload"].index = 1 /\ Stub["Download"].index = 2 /\ Stub["Delete"].index = 3
  BY DEF Stub
<1>4. /\ FileService_method_names[1] = "Upload" /\ FileService_method_names[2] = "Download"
      /\ FileService_method_names[3] = "Delete"
  BY DEF FileService_method_names
<1>5. \A m : Method(m) = CHOOSE i \in {1, 2, 3} : Named(m, i)
  BY <1>1 DEF Method
<1>6. /\ \A i \in {1, 2, 3} : Named("Upload", i) <=> i = 1
      /\ \A i \in {1, 2, 3} : Named("Download", i) <=> i = 2
      /\ \A i \in {1, 2, 3} : Named("Delete", i) <=> i = 3
  BY <1>2, <1>3, <1>4
<1> HIDE DEF Named
<1> QED  BY <1>5, <1>6

(* The three methods of the stub.                                          *)
LEMMA StubIs == DOMAIN Stub = {"Upload", "Download", "Delete"}
BY DEF Stub

(* In both services the handler found for a method is the method's, with   *)
(* the stream and types of the stub.                                       *)
LEMMA HandlerIsTheStubs ==
    ASSUME NEW m \in DOMAIN Stub, NEW service \in Services
    PROVE  /\ Handler(service, m).calls = m
           /\ Handler(service, m).kind = Stub[m].kind
           /\ AddMethod[Method(m)].kind = Stub[m].kind
           /\ Handler(service, m).request = Stub[m].request
           /\ Handler(service, m).response = Stub[m].response
           /\ Stub[m].request \in Types /\ Stub[m].response \in Types
<1> DEFINE i == Method(m)
<1>1. m \in {"Upload", "Download", "Delete"}
  BY StubIs
<1>2. Handler(service, m) \in {AddMethod[i], MarkMethodCallback[i]}
  BY Zenon DEF Handler
<1>3. CASE m = "Upload"
  <2>1. i = 1
    BY <1>3, MethodIs
  <2> QED  BY <1>2, <1>3, <2>1, TypesAre DEF AddMethod, MarkMethodCallback, Stub
<1>4. CASE m = "Download"
  <2>1. i = 2
    BY <1>4, MethodIs
  <2> QED  BY <1>2, <1>4, <2>1, TypesAre DEF AddMethod, MarkMethodCallback, Stub
<1>5. CASE m = "Delete"
  <2>1. i = 3
    BY <1>5, MethodIs
  <2> QED  BY <1>2, <1>5, <2>1, TypesAre DEF AddMethod, MarkMethodCallback, Stub
<1> QED  BY <1>1, <1>3, <1>4, <1>5

(* Both ends of a call, and all their message objects, have one type.      *)
LEMMA TypeFacts ==
    ASSUME rpc \in DOMAIN Stub, reply \in BOOLEAN
    PROVE  /\ TypeAt("out") \in Types
           /\ \A o \in Objects : TypeAt(o) = TypeAt("out")
<1> DEFINE server == Handler("CallbackService", rpc)
<1>1. /\ server.request = Stub[rpc].request /\ server.response = Stub[rpc].response
      /\ Stub[rpc].request \in Types /\ Stub[rpc].response \in Types
  BY HandlerIsTheStubs DEF Services
<1>2. \A o : TypeAt(o) = IF reply THEN IF o = "in" THEN Stub[rpc].response ELSE server.response
                         ELSE IF o = "in" THEN server.request ELSE Stub[rpc].request
  BY DEF TypeAt
<1> HIDE DEF server
<1> QED  BY <1>1, <1>2

-----------------------------------------------------------------------------
(* What the objects, the wire and the record of what was written hold, for *)
(* the message type t of the call: the wire, read, is what was written.    *)
Holds(t, objects, w, sum) ==
    /\ objects \in [Objects -> Messages(t)]
    /\ objects["out"].unknown = << >> /\ objects["spare"].unknown = << >>
    /\ w \in Seq(Records)
    /\ sum \in Messages(t) /\ After(t, New(t), w) = sum

(* The inductive invariant: each variable has its type, the sender's       *)
(* objects never have unknown fields (they are never parsed into), and the *)
(* wire reads as what was written.                                         *)
WireInv ==
    /\ rpc \in DOMAIN Stub /\ reply \in BOOLEAN /\ ok \in BOOLEAN
    /\ Holds(TypeAt("out"), msg, wire, written)

(* An accessor that sets a field.                                          *)
LEMMA SetFieldHolds ==
    ASSUME NEW t \in Types, NEW m \in Messages(t), NEW f \in DOMAIN Fields[t],
           NEW v \in IF Fields[t][f] \in BOOLEAN THEN BOOLEAN ELSE Strings
    PROVE  [m EXCEPT !.fields[f] = v] \in Messages(t) /\ [m EXCEPT !.fields[f] = v].unknown = m.unknown
<1>1. PICK e \in Entries(t) : f = e.field
  BY MessageFacts
<1>2. v \in FieldType(e)
  <2>1. Fields[t][f] = Default(e.tag)
    BY <1>1, Tables DEF TablesAgree
  <2>2. CASE e.tag = 8
    <3>1. Fields[t][f] \in BOOLEAN
      BY <2>1, <2>2, Defaults, Zenon
    <3> QED  BY <2>2, <3>1, Zenon DEF FieldType
  <2>3. CASE e.tag # 8
    <3>1. Fields[t][f] \notin BOOLEAN
      <4>1. Fields[t][f] = Empty
        BY <2>1, <2>3, Defaults, Zenon
      <4>2. Empty \in Strings /\ Strings \cap BOOLEAN = {}
        BY StringAssumption
      <4> QED  BY <4>1, <4>2, Zenon
    <3> QED  BY <2>3, <3>1, Zenon DEF FieldType
  <2> QED  BY <2>2, <2>3
<1>3. v \in Strings \cup BOOLEAN
  BY <1>2 DEF FieldType
<1> DEFINE fs == [m.fields EXCEPT ![f] = v]
<1>4. /\ fs \in [DOMAIN Fields[t] -> Strings \cup BOOLEAN]
      /\ \A g \in DOMAIN Fields[t] : fs[g] = IF g = f THEN v ELSE m.fields[g]
  BY <1>3, MessageFacts
<1> HIDE DEF fs
<1>5. ASSUME NEW d \in Entries(t) PROVE fs[d.field] \in FieldType(d)
  <2>1. d.field \in DOMAIN Fields[t] /\ m.fields[d.field] \in FieldType(d)
    BY MessageFacts
  <2>2. d.field = f => d = e
    BY <1>1, EntriesDiffer
  <2> QED  BY <1>2, <1>4, <2>1, <2>2
<1>6. [m EXCEPT !.fields[f] = v] = [fields |-> fs, unknown |-> m.unknown]
  BY MessageFacts DEF fs
<1>7. [fields |-> fs, unknown |-> m.unknown] \in Messages(t)
  BY <1>4, <1>5, MessageFacts DEF Messages
<1> QED  BY <1>6, <1>7

(* Records parsed into a message leave a message.                          *)
LEMMA AfterType ==
    ASSUME NEW t \in Types, NEW m \in Messages(t), NEW w \in Seq(Records)
    PROVE  After(t, m, w) \in Messages(t)
<1>1. PICK v : /\ IsRun(v, Messages(t), Records, Parse(t), m, w)
               /\ After(t, m, w) = v[Len(w)]
  BY AfterRun
<1>2. Len(w) \in 0..Len(w)
  OBVIOUS
<1> QED  BY <1>1, <1>2 DEF IsRun

(* A read leaves a message, also when it stops at a record it refuses.     *)
LEMMA ReadType ==
    ASSUME NEW t \in Types, NEW m, NEW w \in Seq(Records)
    PROVE  Parsed(t, m, w) \in Messages(t)
<1> DEFINE refused == {i \in DOMAIN w : Refused(t, w[i])}
           taken   == IF refused = {} THEN w ELSE SubSeq(w, 1, Min(refused) - 1)
<1>1. taken \in Seq(Records)
  <2>1. CASE refused = {}
    BY <2>1
  <2>2. CASE refused # {}
    <3>1. refused \subseteq 1..Len(w)
      OBVIOUS
    <3>2. Min(refused) \in refused
      <4> HIDE DEF refused
      <4>1. PICK n \in refused : \A i \in refused : n <= i
        BY <2>2, <3>1, LeastElement
      <4> QED  BY <4>1 DEF Min
    <3>3. Min(refused) \in 1..Len(w)
      BY <3>1, <3>2
    <3> HIDE DEF refused
    <3>4. SubSeq(w, 1, Min(refused) - 1) \in Seq(Records)
      BY <3>3
    <3> QED  BY <2>2, <3>4
  <2> QED  BY <2>1, <2>2
<1>2. Parsed(t, m, w) = After(t, New(t), taken)
  BY ClearedIsNew DEF Parsed, ParsedOnto, After
<1> HIDE DEF taken
<1> QED  BY <1>1, <1>2, NewFacts, AfterType

(* The invariant holds at the start.                                       *)
LEMMA InitHolds == Init => WireInv
<1> SUFFICES ASSUME Init PROVE WireInv
  OBVIOUS
<1> DEFINE t == TypeAt("out")
<1>1. rpc \in DOMAIN Stub /\ reply \in BOOLEAN /\ ok \in BOOLEAN
  <2>1. ok = TRUE
    BY Zenon DEF Init
  <2> QED  BY <2>1, Zenon DEF Init
<1>2. t \in Types /\ \A o \in Objects : TypeAt(o) = t
  BY <1>1, TypeFacts
<1>3. /\ msg = [o \in Objects |-> New(TypeAt(o))] /\ wire = << >> /\ written = New(t)
  BY Zenon DEF Init
<1> HIDE DEF t
<1>4. New(t) \in Messages(t) /\ New(t).unknown = << >> /\ After(t, New(t), << >>) = New(t)
  BY <1>2, NewFacts, AfterEmpty
<1>5. Holds(t, msg, wire, written)
  BY <1>2, <1>3, <1>4 DEF Holds, Objects
<1> QED  BY <1>1, <1>5, Zenon DEF WireInv, t

(* A write keeps what Holds says.                                          *)
LEMMA WriteHolds ==
    ASSUME NEW t \in Types, NEW m, NEW w, NEW sum, Holds(t, m, w, sum)
    PROVE  Holds(t, m, w \o Serialized(t, m["out"]), Merged(t, sum, m["out"]))
<1> DEFINE image == Serialized(t, m["out"])
<1>1. /\ m \in [Objects -> Messages(t)] /\ m["out"].unknown = << >> /\ m["spare"].unknown = << >>
      /\ w \in Seq(Records) /\ sum \in Messages(t) /\ After(t, New(t), w) = sum
  BY Zenon DEF Holds
<1>2. m["out"] \in Messages(t)
  BY <1>1 DEF Objects
<1>3. image \in Seq(Records) /\ After(t, New(t), w \o image) = Merged(t, After(t, New(t), w), m["out"])
  BY <1>1, <1>2, NewFacts, SerializedReadsAsMerged
<1>4. Merged(t, sum, m["out"]) \in Messages(t)
  BY <1>1, <1>2, MergedType
<1> HIDE DEF image
<1>5. w \o image \in Seq(Records)
  BY <1>1, <1>3
<1> QED  BY <1>1, <1>3, <1>4, <1>5, Zenon DEF Holds, image

(* A record of a later sender keeps it.                                    *)
LEMMA WriteLaterHolds ==
    ASSUME NEW t \in Types, NEW m, NEW w, NEW sum, Holds(t, m, w, sum)
    PROVE  Holds(t, m, Append(w, [tag |-> 26, value |-> Empty]),
                 [sum EXCEPT !.unknown = Append(@, [tag |-> 26, value |-> Empty])])
<1> DEFINE r == [tag |-> 26, value |-> Empty]
           p == [sum EXCEPT !.unknown = Append(@, r)]
<1>1. /\ m \in [Objects -> Messages(t)] /\ m["out"].unknown = << >> /\ m["spare"].unknown = << >>
      /\ w \in Seq(Records) /\ sum \in Messages(t) /\ After(t, New(t), w) = sum
  BY Zenon DEF Holds
<1>2. r \in Records /\ r.tag = 26
  BY RecordFacts, StringAssumption
<1> HIDE DEF r
<1>3. \A e \in Entries(t) : r.tag # e.tag
  <2>1. TablesAgree(t)
    BY Tables
  <2>2. \A e \in Entries(t) : e.tag \in {8, 10, 18}
    BY <2>1 DEF TablesAgree
  <2> TAKE e \in Entries(t)
  <2>3. e.tag \in {8, 10, 18}
    BY <2>2
  <2> QED  BY <1>2, <2>3
<1>4. p = [fields |-> sum.fields, unknown |-> Append(sum.unknown, r)]
  <2>1. sum = [fields |-> sum.fields, unknown |-> sum.unknown]
    BY <1>1, MessageFacts
  <2> QED  BY <2>1
<1> HIDE DEF p
<1>5. p = ParseRecord(t, sum, r)
  BY <1>1, <1>2, <1>3, <1>4, ParseUnknown
<1>6. p \in Messages(t) /\ After(t, New(t), Append(w, r)) = p
  BY <1>1, <1>2, <1>5, NewFacts, ParseRecordType, AfterAppend
<1>7. Append(w, r) \in Seq(Records)
  BY <1>1, <1>2
<1> QED  BY <1>1, <1>6, <1>7, Zenon DEF Holds, p, r

(* An object that takes another message keeps it; a sender's takes none    *)
(* with unknown fields.                                                    *)
LEMMA ObjectHolds ==
    ASSUME NEW t \in Types, NEW m, NEW w, NEW sum, Holds(t, m, w, sum),
           NEW o \in Objects, NEW n \in Messages(t), o = "in" \/ n.unknown = << >>
    PROVE  Holds(t, [m EXCEPT ![o] = n], w, sum)
<1>1. /\ m \in [Objects -> Messages(t)] /\ m["out"].unknown = << >> /\ m["spare"].unknown = << >>
      /\ w \in Seq(Records) /\ sum \in Messages(t) /\ After(t, New(t), w) = sum
  BY Zenon DEF Holds
<1> DEFINE p == [m EXCEPT ![o] = n]
<1>2. p \in [Objects -> Messages(t)] /\ p[o] = n /\ \A q \in Objects \ {o} : p[q] = m[q]
  BY <1>1
<1> HIDE DEF p
<1>3. p["out"].unknown = << >> /\ p["spare"].unknown = << >>
  BY <1>1, <1>2 DEF Objects
<1> QED  BY <1>1, <1>2, <1>3, Zenon DEF Holds, p

(* A step changes neither the method nor the direction, so no type.        *)
LEMMA TypesStay == Call => \A o : TypeAt(o)' = TypeAt(o)
<1> SUFFICES ASSUME Call, NEW o PROVE TypeAt(o)' = TypeAt(o)
  OBVIOUS
<1>1. rpc' = rpc /\ reply' = reply
  BY DEF Call
<1> QED  BY <1>1 DEF TypeAt

(* Every step keeps the invariant.                                         *)
LEMMA StepHolds == WireInv /\ [Next]_vars => WireInv'
<1> SUFFICES ASSUME WireInv, [Next]_vars PROVE WireInv'
  OBVIOUS
<1> DEFINE t == TypeAt("out")
<1>1. /\ rpc \in DOMAIN Stub /\ reply \in BOOLEAN /\ ok \in BOOLEAN
      /\ Holds(t, msg, wire, written)
  BY Zenon DEF WireInv
<1>2. t \in Types /\ \A o \in Objects : TypeAt(o) = t
  BY <1>1, TypeFacts
<1>3. CASE UNCHANGED vars
  <2>1. UNCHANGED <<rpc, reply, ok, msg, wire, written>>
    BY <1>3, Zenon DEF vars
  <2>2. TypeAt("out")' = t
    BY <2>1, TypesStay, Zenon DEF Call
  <2> HIDE DEF t
  <2> QED  BY <1>1, <2>1, <2>2, Zenon DEF WireInv
<1>4. CASE Next
  <2>1. Call /\ rpc' = rpc /\ reply' = reply
    BY <1>4, Zenon DEF Next, Call
  <2>2. TypeAt("out")' = t
    BY <2>1, TypesStay, Zenon
  <2> HIDE DEF t
  <2>3. /\ msg \in [Objects -> Messages(t)] /\ msg["out"].unknown = << >>
        /\ msg["spare"].unknown = << >> /\ wire \in Seq(Records)
        /\ written \in Messages(t) /\ After(t, New(t), wire) = written
    BY <1>1, Zenon DEF Holds
  <2>4. New(t) \in Messages(t) /\ New(t).unknown = << >>
    BY <1>2, NewFacts
  <2>5. SUFFICES ok' \in BOOLEAN /\ Holds(t, msg', wire', written')
    BY <1>1, <2>1, <2>2, Zenon DEF WireInv
  <2>6. ASSUME NEW o \in {"out", "spare"}, NEW v \in Strings \cup BOOLEAN,
               NEW f \in DOMAIN Fields[TypeAt(o)], SetField(o, f, v)
        PROVE  ok' \in BOOLEAN /\ Holds(t, msg', wire', written')
    <3> DEFINE n == [msg[o] EXCEPT !.fields[f] = v]
    <3>1. o \in Objects /\ TypeAt(o) = t /\ msg[o] \in Messages(t) /\ msg[o].unknown = << >>
      BY <1>2, <2>3 DEF Objects
    <3>2. /\ v \in IF Fields[t][f] \in BOOLEAN THEN BOOLEAN ELSE Strings
          /\ f \in DOMAIN Fields[t]
          /\ UNCHANGED <<wire, ok, written>>
      BY <2>6, <3>1, Zenon DEF SetField
    <3>3. n \in Messages(t) /\ n.unknown = << >>
      BY <1>2, <3>1, <3>2, SetFieldHolds
    <3>4. msg' = [msg EXCEPT ![o] = n]
      BY <2>6 DEF SetField
    <3> HIDE DEF n
    <3>5. Holds(t, [msg EXCEPT ![o] = n], wire, written)
      BY <1>1, <1>2, <3>1, <3>3, ObjectHolds
    <3> QED  BY <1>1, <3>2, <3>4, <3>5, Zenon
  <2>7. ASSUME NEW o \in Objects, Clear(o)
        PROVE  ok' \in BOOLEAN /\ Holds(t, msg', wire', written')
    <3>1. msg' = [msg EXCEPT ![o] = New(t)] /\ UNCHANGED <<wire, ok, written>>
      <4>1. Cleared(TypeAt(o), msg[o]) = New(t)
        BY <1>2, ClearedIsNew
      <4> QED  BY <2>7, <4>1 DEF Clear
    <3>2. Holds(t, [msg EXCEPT ![o] = New(t)], wire, written)
      BY <1>1, <1>2, <2>4, ObjectHolds
    <3> QED  BY <1>1, <3>1, <3>2, Zenon
  <2>8. ASSUME NEW o \in {"out", "spare"}, NEW p \in {"out", "spare"}
        PROVE  /\ o \in Objects /\ p \in Objects
               /\ TypeAt(o) = t /\ TypeAt(p) = t
               /\ msg[o] \in Messages(t) /\ msg[o].unknown = << >>
               /\ msg[p] \in Messages(t) /\ msg[p].unknown = << >>
    BY <1>2, <2>3 DEF Objects
  <2>9. << >> \o << >> = << >>
    OBVIOUS
  <2>10. ASSUME NEW o \in {"out", "spare"}, NEW p \in {"out", "spare"}, MergeFrom(o, p)
         PROVE  ok' \in BOOLEAN /\ Holds(t, msg', wire', written')
    <3> DEFINE n == Merged(t, msg[o], msg[p])
    <3>1. n \in Messages(t) /\ n.unknown = << >>
      <4>1. n \in Messages(t) /\ n.unknown = msg[o].unknown \o msg[p].unknown
        BY <1>2, <2>8, MergedType
      <4> QED  BY <2>8, <2>9, <4>1
    <3>2. msg' = [msg EXCEPT ![o] = n] /\ UNCHANGED <<wire, ok, written>>
      BY <2>8, <2>10 DEF MergeFrom
    <3> HIDE DEF n
    <3>3. Holds(t, [msg EXCEPT ![o] = n], wire, written)
      BY <1>1, <1>2, <2>8, <3>1, ObjectHolds
    <3> QED  BY <1>1, <3>2, <3>3, Zenon
  <2>11. ASSUME NEW o \in {"out", "spare"}, NEW p \in {"out", "spare"}, CopyFrom(o, p)
         PROVE  ok' \in BOOLEAN /\ Holds(t, msg', wire', written')
    <3> DEFINE n == Merged(t, New(t), msg[p])
    <3>1. n \in Messages(t) /\ n.unknown = << >>
      <4>1. n \in Messages(t) /\ n.unknown = New(t).unknown \o msg[p].unknown
        BY <1>2, <2>4, <2>8, MergedType
      <4> QED  BY <2>4, <2>8, <2>9, <4>1
    <3>2. msg' = [msg EXCEPT ![o] = n] /\ UNCHANGED <<wire, ok, written>>
      <4>1. Cleared(t, msg[o]) = New(t)
        BY <1>2, ClearedIsNew
      <4> QED  BY <2>8, <2>11, <4>1 DEF CopyFrom, Copied
    <3> HIDE DEF n
    <3>3. Holds(t, [msg EXCEPT ![o] = n], wire, written)
      BY <1>1, <1>2, <2>8, <3>1, ObjectHolds
    <3> QED  BY <1>1, <3>2, <3>3, Zenon
  <2>12. ASSUME NEW o \in {"out", "spare"}, NEW p \in {"out", "spare"}, MoveFrom(o, p)
         PROVE  ok' \in BOOLEAN /\ Holds(t, msg', wire', written')
    <3> DEFINE first == [msg EXCEPT ![o] = msg[p]]
    <3>1. /\ Swapped(t, msg[o], msg[p]) = msg[p] /\ Swapped(t, msg[p], msg[o]) = msg[o]
      BY <1>2, <2>8, SwappedIs
    <3>2. msg' = [first EXCEPT ![p] = msg[o]] /\ UNCHANGED <<wire, ok, written>>
      BY <2>8, <2>12, <3>1 DEF MoveFrom
    <3>3. Holds(t, first, wire, written)
      BY <1>1, <1>2, <2>8, ObjectHolds
    <3> HIDE DEF first
    <3>4. Holds(t, [first EXCEPT ![p] = msg[o]], wire, written)
      BY <1>2, <2>8, <3>3, ObjectHolds
    <3> QED  BY <1>1, <3>2, <3>4, Zenon
  <2>13. CASE Write("out")
    <3>1. /\ wire' = wire \o Serialized(t, msg["out"])
          /\ written' = Merged(t, written, msg["out"]) /\ UNCHANGED <<msg, ok>>
      BY <2>13, Zenon DEF Write, t
    <3>2. Holds(t, msg, wire \o Serialized(t, msg["out"]), Merged(t, written, msg["out"]))
      BY <1>1, <1>2, WriteHolds
    <3> QED  BY <1>1, <3>1, <3>2, Zenon
  <2>14. CASE WriteLater
    <3> DEFINE r == [tag |-> 26, value |-> Empty]
               later == [written EXCEPT !.unknown = Append(@, r)]
    <3>1. wire' = Append(wire, r) /\ written' = later /\ UNCHANGED <<msg, ok>>
      BY <2>14, Zenon DEF WriteLater
    <3>2. Holds(t, msg, Append(wire, r), later)
      BY <1>1, <1>2, WriteLaterHolds
    <3> HIDE DEF r, later
    <3> QED  BY <1>1, <3>1, <3>2, Zenon
  <2>15. CASE Read
    <3> DEFINE n == Parsed(t, msg["in"], wire)
    <3>1. "in" \in Objects /\ TypeAt("in") = t
      BY <1>2 DEF Objects
    <3>2. msg' = [msg EXCEPT !["in"] = n] /\ wire' = << >> /\ written' = New(t)
      BY <2>15, <3>1 DEF Read, t
    <3>3. ok' \in BOOLEAN
      <4>1. ok' = (\A i \in DOMAIN wire : ~Refused(t, wire[i]))
        BY <2>15, <3>1, Zenon DEF Read, Parses
      <4> QED  BY <4>1, Zenon
    <3>4. n \in Messages(t)
      BY <1>2, <2>3, ReadType
    <3> HIDE DEF n
    <3>5. Holds(t, [msg EXCEPT !["in"] = n], wire, written)
      BY <1>1, <1>2, <3>1, <3>4, ObjectHolds
    <3>6. << >> \in Seq(Records) /\ After(t, New(t), << >>) = New(t)
      BY <1>2, <2>4, AfterEmpty
    <3>7. Holds(t, [msg EXCEPT !["in"] = n], << >>, New(t))
      BY <2>4, <3>5, <3>6, Zenon DEF Holds
    <3> QED  BY <3>2, <3>3, <3>7, Zenon
  <2> QED  BY <1>4, <2>6, <2>7, <2>10, <2>11, <2>12, <2>13, <2>14, <2>15, Zenon DEF Next
<1> QED  BY <1>3, <1>4

-----------------------------------------------------------------------------
(* For all strings and any number of records: every object always holds a  *)
(* message of the type of the call, the sender's one without unknown       *)
(* fields, and what is on the wire reads as what was written to it.        *)
THEOREM TypeCorrect == Spec => []WireInv
BY InitHolds, StepHolds, PTL DEF Spec

(* The size with which a buffer is allocated is always that of what is     *)
(* then serialized into it (SizeExact).                                    *)
THEOREM SizesAreExact == Spec => []SizeExact
<1>1. WireInv => SizeExact
  <2> SUFFICES ASSUME WireInv, NEW o \in Objects
               PROVE  ByteSizeLong(TypeAt(o), msg[o]) = WireSize(Serialized(TypeAt(o), msg[o]))
    BY DEF SizeExact
  <2> DEFINE t == TypeAt("out")
  <2>1. t \in Types /\ TypeAt(o) = t
    BY TypeFacts DEF WireInv
  <2>2. msg[o] \in Messages(t)
    BY DEF WireInv, Holds
  <2> HIDE DEF t
  <2> QED  BY <2>1, <2>2, SizeIsExact
<1> QED  BY <1>1, TypeCorrect, PTL

(* A peer that knows another of the six types and passes a message on      *)
(* loses nothing of it (RelayKeepsAll).                                    *)
THEOREM RelaysKeepAll == Spec => []RelayKeepsAll
<1>1. WireInv => RelayKeepsAll
  <2> SUFFICES ASSUME WireInv PROVE RelayKeepsAll
    OBVIOUS
  <2> DEFINE s == TypeAt("out")
             m == msg["out"]
  <2>1. s \in Types
    BY TypeFacts DEF WireInv
  <2>2. m \in Messages(s) /\ m.unknown = << >>
    BY DEF WireInv, Holds, Objects
  <2> HIDE DEF s, m
  <2>3. ASSUME NEW t \in Types, Sendable(s, m), Parses(t, Serialized(s, m))
        PROVE  Parsed(s, New(s), Serialized(t, Parsed(t, New(t), Serialized(s, m)))) = m
    BY <2>1, <2>2, <2>3, RelayIsRead
  <2> QED  BY <2>3, Zenon DEF RelayKeepsAll, s, m
<1> QED  BY <1>1, TypeCorrect, PTL

(* Every call reaches the handler of its method, in both services          *)
(* (CallsReachTheirHandler).                                               *)
THEOREM CallsArrive == Spec => []CallsReachTheirHandler
<1>1. WireInv => CallsReachTheirHandler
  <2> SUFFICES ASSUME WireInv PROVE CallsReachTheirHandler
    OBVIOUS
  <2>1. rpc \in DOMAIN Stub
    BY Zenon DEF WireInv
  <2> QED  BY <2>1, HandlerIsTheStubs DEF CallsReachTheirHandler
<1> QED  BY <1>1, TypeCorrect, PTL

(* The tags a type verifies are not those of bytes.                        *)
LEMMA VerifiedTags ==
    ASSUME NEW t \in Types, NEW n \in Generated[t].verifies
    PROVE  n \in {10, 18} /\ <<t, n>> \notin BytesTags
<1>1. n \in {10, 18}
  BY Tables DEF TablesAgree
<1>2. CASE t = "UploadChunk"
  <2>1. n = 10
    BY <1>2 DEF Generated, UploadChunk
  <2> QED  BY <1>1, <1>2, <2>1 DEF BytesTags
<1>3. CASE t = "DownloadChunk"
  BY <1>3 DEF Generated, DownloadChunk
<1>4. CASE t \notin {"UploadChunk", "DownloadChunk"}
  BY <1>1, <1>4 DEF BytesTags
<1> QED  BY <1>2, <1>3, <1>4

(* A read leaves exactly what was written, and fails only over a string    *)
(* field that is not UTF-8 (ReadIsExact).                                  *)
THEOREM ReadsAreExact == Spec => ReadIsExact
<1>1. WireInv /\ [Next]_vars =>
          [Read => /\ ok' => msg'["in"] = written
                   /\ ok' \/ \E i \in DOMAIN wire :
                                /\ wire[i].value \notin Utf8 \cup BOOLEAN
                                /\ <<TypeAt("out"), wire[i].tag>> \notin BytesTags]_vars
  <2> SUFFICES ASSUME WireInv, Read
               PROVE  /\ ok' => msg'["in"] = written
                      /\ ok' \/ \E i \in DOMAIN wire :
                                   /\ wire[i].value \notin Utf8 \cup BOOLEAN
                                   /\ <<TypeAt("out"), wire[i].tag>> \notin BytesTags
    OBVIOUS
  <2> DEFINE t == TypeAt("out")
             n == Parsed(t, msg["in"], wire)
  <2>1. t \in Types /\ TypeAt("in") = t
    BY TypeFacts DEF WireInv, Objects
  <2>2. Holds(t, msg, wire, written)
    BY DEF WireInv
  <2>3. msg' = [msg EXCEPT !["in"] = n] /\ ok' = Parses(t, wire)
    BY <2>1 DEF Read
  <2> HIDE DEF t, n
  <2>4. msg \in [Objects -> Messages(t)] /\ wire \in Seq(Records) /\ After(t, New(t), wire) = written
    BY <2>2, Zenon DEF Holds
  <2>5. msg'["in"] = n
    BY <2>3, <2>4 DEF Objects
  <2>6. ASSUME ok' PROVE msg'["in"] = written
    <3>1. Parses(t, wire)
      BY <2>3, <2>6, Zenon
    <3>2. n = After(t, New(t), wire)
      BY <2>1, <2>4, <3>1, ParsedWhole DEF n
    <3> QED  BY <2>4, <2>5, <3>2
  <2>7. ASSUME ~ok'
        PROVE  \E i \in DOMAIN wire : /\ wire[i].value \notin Utf8 \cup BOOLEAN
                                      /\ <<t, wire[i].tag>> \notin BytesTags
    <3>1. PICK i \in DOMAIN wire : Refused(t, wire[i])
      <4>1. ~Parses(t, wire)
        BY <2>3, <2>7, Zenon
      <4> QED  BY <4>1, Zenon DEF Parses
    <3>2. wire[i] \in Records
      BY <2>4
    <3> DEFINE r == wire[i]
    <3>3. r \in Records /\ Refused(t, r)
      BY <3>1, <3>2
    <3> HIDE DEF r
    <3>4. r.tag \in {10, 18} /\ <<t, r.tag>> \notin BytesTags /\ r.value \notin Utf8
      BY <2>1, <3>3, VerifiedTags DEF Refused
    <3>5. r.value \in Strings
      BY <3>3, <3>4, RecordFacts
    <3>6. r.value \notin BOOLEAN
      BY <3>5, StringAssumption
    <3> QED  BY <3>4, <3>6 DEF r
  <2> QED  BY <2>6, <2>7 DEF t
<1> QED  BY <1>1, TypeCorrect, PTL DEF Spec, ReadIsExact
=============================================================================
