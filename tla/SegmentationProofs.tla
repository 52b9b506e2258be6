-------------------------- MODULE SegmentationProofs --------------------------
(***************************************************************************)
(* Theorems about PathSegmentation, for every plan of swaths.              *)
(***************************************************************************)
EXTENDS PathSegmentation, TLAPS, WellFoundedInduction, FiniteSetTheorems,
        SequenceTheorems

----------------------------------------------------------------------------
(* Induction over the naturals, with a set for the predicate.              *)

LEMMA LeastNumber ==
  ASSUME NEW T, T \subseteq Nat, T # {}
  PROVE  \E n \in T : \A m \in T : n <= m
<1> DEFINE R == OpToRel(<, Nat)
<1>1. IsWellFoundedOn(R, Nat)
  BY NatLessThanWellFounded
<1>2. R = {ss \in Nat \X Nat : ss[1] < ss[2]}
  BY DEF OpToRel
<1> HIDE DEF R
<1>3. PICK n \in T : \A m \in T : ~(<<m, n>> \in R)
  BY <1>1, WFMin
<1>4. ASSUME NEW m \in T  PROVE n <= m
  <2>1. <<m, n>> \in Nat \X Nat /\ ~(<<m, n>> \in R)
    BY <1>3
  <2>2. ~(m < n)
    BY <2>1, <1>2
  <2>. QED  BY <2>2
<1>. QED  BY <1>4

\* A set that holds a number whenever it holds the one before holds them all.
LEMMA Induction ==
  ASSUME NEW N \in Int, NEW T,
         \A n \in 1..N : n = 1 \/ n - 1 \in T => n \in T
  PROVE  1..N \subseteq T
<1> DEFINE Missing == (1..N) \ T
<1>1. SUFFICES ASSUME Missing # {}  PROVE FALSE
  OBVIOUS
<1>2. PICK n \in Missing : \A m \in Missing : n <= m
  <2>1. Missing \subseteq Nat
    OBVIOUS
  <2> HIDE DEF Missing
  <2>. QED  BY <1>1, <2>1, LeastNumber
<1>3. n = 1 \/ n - 1 \in T
  BY <1>2
<1>. QED  BY <1>2, <1>3

\* A sequence may be defined by its first element and what follows each.
Follows(Follow, N, V) == Follow \in [(1..N) \X V -> V]
Recurs(f, N, V, base, Follow) ==
  /\ f \in [1..N -> V]
  /\ \A i \in 1..N : f[i] = IF i = 1 THEN base ELSE Follow[<<i, f[i - 1]>>]

LEMMA Recursion ==
  ASSUME NEW N \in Nat, NEW V, NEW base \in V, NEW Follow, Follows(Follow, N, V)
  PROVE  \E f : Recurs(f, N, V, base, Follow)
<1> USE DEF Follows, Recurs
<1> DEFINE Upto(n, f) ==
             /\ f \in [1..n -> V]
             /\ \A i \in 1..n :
                  f[i] = IF i = 1 THEN base ELSE Follow[<<i, f[i - 1]>>]
           T == {n \in 1..N : \E f : Upto(n, f)}
<1>1. ASSUME NEW n \in 1..N, n = 1  PROVE n \in T
  <2>1. Upto(n, [i \in 1..n |-> base])
    BY <1>1
  <2>. QED  BY <2>1
<1>2. ASSUME NEW n \in 1..N, n # 1, n - 1 \in T  PROVE n \in T
  <2>1. PICK f : Upto(n - 1, f)
    BY <1>2
  <2> DEFINE g == [i \in 1..n |-> IF i = n THEN Follow[<<n, f[n - 1]>>] ELSE f[i]]
  <2>2. n - 1 \in 1..(n - 1) /\ f[n - 1] \in V
    BY <1>2, <2>1
  <2>3. Follow[<<n, f[n - 1]>>] \in V
    BY <2>2
  <2>4. g \in [1..n -> V]
    BY <2>1, <2>3
  <2>5. ASSUME NEW i \in 1..n
        PROVE  g[i] = IF i = 1 THEN base ELSE Follow[<<i, g[i - 1]>>]
    <3>1. i # 1 => i - 1 \in 1..n /\ i - 1 # n /\ g[i - 1] = f[i - 1]
      OBVIOUS
    <3>2. CASE i = n
      BY <3>1, <3>2, <1>2
    <3>3. CASE i # n
      <4>1. i \in 1..(n - 1) /\ g[i] = f[i]
        BY <3>3
      <4>. QED  BY <4>1, <3>1, <2>1
    <3>. QED  BY <3>2, <3>3
  <2>6. Upto(n, g)
    BY <2>4, <2>5
  <2>. QED  BY <2>6
<1>3. 1..N \subseteq T
  <2> HIDE DEF T
  <2>. QED  BY <1>1, <1>2, Induction
<1>4. CASE N = 0
  <2>1. [i \in 1..N |-> base] \in [1..N -> V]
    OBVIOUS
  <2>. QED  BY <1>4, <2>1
<1>5. CASE N # 0
  BY <1>3, <1>5
<1>. QED  BY <1>4, <1>5

----------------------------------------------------------------------------
(* The poses of a swath.                                                   *)

LEMMA DistType ==
  ASSUME NEW a \in Int, NEW b \in Int
  PROVE  /\ Dist(a, b) \in Nat
         /\ Dist(a, b) = 0 <=> a = b
         /\ Dist(a, b) = Dist(b, a)
  BY DEF Dist

LEMMA StepsType ==
  ASSUME NEW p \in Int, NEW q \in Int
  PROVE  /\ Steps(p, q) \in Nat \ {0}
         /\ Dist(p, q) <= kPoseSpacing * Steps(p, q)
  BY DEF Steps, Dist, kPoseSpacing

LEMMA LegType ==
  ASSUME NEW p \in Int, NEW q \in Int
  PROVE  /\ Leg(p, q) \in Seq(Int)
         /\ Len(Leg(p, q)) = Steps(p, q)
         /\ \A k \in 1..Steps(p, q) :
              Leg(p, q)[k] = p + ((q - p) * (k - 1)) \div Steps(p, q)
<1>1. Steps(p, q) \in Nat \ {0}
  BY StepsType
<1>2. ASSUME NEW k \in 1..Steps(p, q)
      PROVE  p + ((q - p) * (k - 1)) \div Steps(p, q) \in Int
  <2>1. (q - p) * (k - 1) \in Int
    OBVIOUS
  <2>. QED  BY <1>1, <2>1
<1>. QED  BY <1>1, <1>2 DEF Leg

LEMMA SwathPosesDef ==
  ASSUME NEW swath \in Seq(Int), swath # <<>>
  PROVE  \E legs \in [1..Len(swath) -> Seq(Int)] :
           /\ \A j \in 1..Len(swath) :
                legs[j] = IF j = 1 THEN <<>>
                          ELSE legs[j - 1] \o Leg(swath[j - 1], swath[j])
           /\ SwathPoses(swath) = Append(legs[Len(swath)], Last(swath))
<1> DEFINE N == Len(swath)
           Eq(f) == f = [j \in 1..N |->
                           IF j = 1 THEN <<>>
                           ELSE f[j - 1] \o Leg(swath[j - 1], swath[j])]
           legs == CHOOSE f : Eq(f)
           Follow == [x \in (1..N) \X Seq(Int) |->
                        IF x[1] = 1 THEN <<>>
                        ELSE x[2] \o Leg(swath[x[1] - 1], swath[x[1]])]
<1>0. N \in Nat \ {0} /\ \A j \in 1..N : swath[j] \in Int
  OBVIOUS
<1>1. ASSUME NEW j \in 1..N, j # 1
      PROVE  j - 1 \in 1..N /\ Leg(swath[j - 1], swath[j]) \in Seq(Int)
  <2>1. j - 1 \in 1..N
    BY <1>0, <1>1
  <2>2. swath[j - 1] \in Int /\ swath[j] \in Int
    BY <1>0, <2>1
  <2>. QED  BY <2>1, <2>2, LegType
<1>2. Follow \in [(1..N) \X Seq(Int) -> Seq(Int)]
  <2> SUFFICES ASSUME NEW x \in (1..N) \X Seq(Int)
               PROVE  (IF x[1] = 1 THEN <<>>
                       ELSE x[2] \o Leg(swath[x[1] - 1], swath[x[1]])) \in Seq(Int)
    OBVIOUS
  <2>. QED  BY <1>1
<1>3. PICK f \in [1..N -> Seq(Int)] :
        \A i \in 1..N : f[i] = IF i = 1 THEN <<>> ELSE Follow[<<i, f[i - 1]>>]
  <2> DEFINE V == Seq(Int)
             base == <<>>
  <2>1. base \in V /\ N \in Nat
    BY <1>0
  <2>2. Follows(Follow, N, V)
    BY <1>2 DEF Follows
  <2> HIDE DEF Follow, N, V, base
  <2>3. \E f : Recurs(f, N, V, base, Follow)
    BY <2>1, <2>2, Recursion
  <2>. QED  BY <2>3 DEF V, base, Recurs
<1>4. Eq(f)
  <2>1. ASSUME NEW j \in 1..N, j # 1
        PROVE  Follow[<<j, f[j - 1]>>] = f[j - 1] \o Leg(swath[j - 1], swath[j])
    BY <1>1, <2>1
  <2> HIDE DEF Follow, N
  <2>2. \A j \in 1..N : f[j] = IF j = 1 THEN <<>>
                               ELSE f[j - 1] \o Leg(swath[j - 1], swath[j])
    BY <1>3, <2>1
  <2>. QED  BY <1>3, <2>2
<1>5. Eq(legs)
  <2> HIDE DEF Eq
  <2>. QED  BY <1>4
<1>6. SwathPoses(swath) = Append(legs[N], Last(swath))
  BY DEF SwathPoses
<1> HIDE DEF legs
<1>7. legs \in [1..N -> Seq(Int)]
  <2> DEFINE T == {j \in 1..N : legs[j] \in Seq(Int)}
  <2>1. ASSUME NEW j \in 1..N, j = 1 \/ j - 1 \in T  PROVE j \in T
    <3> HIDE DEF N
    <3>1. legs[j] = IF j = 1 THEN <<>>
                    ELSE legs[j - 1] \o Leg(swath[j - 1], swath[j])
      BY <1>5
    <3>2. CASE j = 1
      <4>1. legs[j] \in Seq(Int)
        BY <3>1, <3>2
      <4>. QED  BY <4>1
    <3>3. CASE j # 1
      <4>1. legs[j - 1] \in Seq(Int) /\ Leg(swath[j - 1], swath[j]) \in Seq(Int)
        BY <3>3, <2>1, <1>0, <1>1
      <4>2. legs[j] \in Seq(Int)
        BY <3>1, <3>3, <4>1
      <4>. QED  BY <4>2
    <3>. QED  BY <3>2, <3>3
  <2>2. N \in Int
    BY <1>0
  <2>3. 1..N \subseteq T
    <3> HIDE DEF T, N
    <3>. QED  BY <2>2, <2>1, Induction
  <2>. QED  BY <2>3, <1>5
<1>. QED  BY <1>5, <1>6, <1>7

LEMMA SwathPosesType ==
  ASSUME NEW swath \in Seq(Int)
  PROVE  SwathPoses(swath) \in Seq(Int)
<1>1. CASE swath = <<>>
  BY <1>1 DEF SwathPoses
<1>2. CASE swath # <<>>
  <2>1. PICK legs \in [1..Len(swath) -> Seq(Int)] :
          SwathPoses(swath) = Append(legs[Len(swath)], Last(swath))
    BY <1>2, SwathPosesDef
  <2>2. legs[Len(swath)] \in Seq(Int) /\ Last(swath) \in Int
    BY <1>2 DEF Last
  <2>. QED  BY <2>1, <2>2
<1>. QED  BY <1>1, <1>2

----------------------------------------------------------------------------
(* The operators on sequences of poses.                                    *)

LEMMA Minimum ==
  ASSUME NEW T, T \subseteq Nat, T # {}
  PROVE  Min(T) \in T /\ \A m \in T : Min(T) <= m
BY LeastNumber DEF Min

LEMMA CutsOf ==
  ASSUME NEW s \in Seq(Int)
  PROVE  Cuts(s) = {} <=>
           \A i \in 2..Len(s) : Dist(s[i - 1], s[i]) <= kMaxSegmentJump
<1>1. ASSUME NEW i \in 2..Len(s)  PROVE Dist(s[i - 1], s[i]) \in Nat
  <2>1. s[i - 1] \in Int /\ s[i] \in Int
    OBVIOUS
  <2>. QED  BY <2>1, DistType
<1>2. \A i \in 2..Len(s) :
        Dist(s[i - 1], s[i]) > kMaxSegmentJump <=> ~(Dist(s[i - 1], s[i]) <= kMaxSegmentJump)
  BY <1>1 DEF kMaxSegmentJump
<1>. QED  BY <1>2 DEF Cuts

LEMMA NextCutType ==
  ASSUME NEW p \in Seq(Int), NEW from \in 1..Len(p)
  PROVE  /\ NextCut(p, from) \in (from + 1)..(Len(p) + 1)
         /\ NextCut(p, from) \in Cuts(p) \cup {Len(p) + 1}
         /\ \A i \in Cuts(p) : i > from => NextCut(p, from) <= i
<1> DEFINE T == {i \in Cuts(p) : i > from} \cup {Len(p) + 1}
<1>1. T \subseteq Nat /\ T # {} /\ T \subseteq (from + 1)..(Len(p) + 1)
  BY DEF Cuts
<1>2. NextCut(p, from) = Min(T)
  BY DEF NextCut
<1>3. Min(T) \in T /\ \A m \in T : Min(T) <= m
  <2> HIDE DEF T
  <2>. QED  BY <1>1, Minimum
<1>. QED  BY <1>1, <1>2, <1>3

LEMMA PieceType ==
  ASSUME NEW p \in Seq(Int), NEW from \in 1..Len(p), NEW end,
         end = NextCut(p, from)
  PROVE  /\ SubSeq(p, from, end - 1) \in Seq(Int)
         /\ Len(SubSeq(p, from, end - 1)) = end - from
         /\ \A k \in 1..(end - from) : SubSeq(p, from, end - 1)[k] = p[from + k - 1]
         /\ SubSeq(p, from, end - 1) # <<>>
         /\ Cuts(SubSeq(p, from, end - 1)) = {}
<1> DEFINE s == SubSeq(p, from, end - 1)
<1>1. end \in (from + 1)..(Len(p) + 1)
  BY NextCutType
<1>2. /\ s \in Seq(Int) /\ Len(s) = end - from
      /\ \A k \in 1..(end - from) : s[k] = p[from + k - 1]
  BY <1>1
<1> HIDE DEF s
<1>3. ASSUME NEW i \in Cuts(s)  PROVE FALSE
  <2>1. /\ i \in 2..(end - from)
        /\ s[i - 1] = p[from + (i - 1) - 1] /\ s[i] = p[from + i - 1]
    <3>1. i \in 2..Len(s)
      BY DEF Cuts
    <3>2. i - 1 \in 1..(end - from) /\ i \in 1..(end - from)
      BY <1>1, <1>2, <3>1
    <3>. QED  BY <1>2, <3>1, <3>2
  <2>2. from + i - 1 \in Cuts(p)
    BY <1>1, <1>3, <2>1 DEF Cuts
  <2>3. end <= from + i - 1
    BY <2>1, <2>2, NextCutType
  <2>. QED  BY <1>1, <2>1, <2>3
<1>4. s # <<>> /\ Cuts(s) = {}
  BY <1>1, <1>2, <1>3
<1>. QED  BY <1>2, <1>4 DEF s

LEMMA JoinType ==
  ASSUME NEW s \in Seq(Int), NEW t \in Seq(Int), s # <<>>, t # <<>>,
         Cuts(s) = {}, Cuts(t) = {}, Gap(s, t) <= kMaxSegmentJump
  PROVE  s \o t \in Seq(Int) /\ s \o t # <<>> /\ Cuts(s \o t) = {}
<1>1. /\ s \o t \in Seq(Int) /\ Len(s \o t) = Len(s) + Len(t)
      /\ \A i \in 1..Len(s) : (s \o t)[i] = s[i]
      /\ \A i \in (Len(s) + 1)..(Len(s) + Len(t)) : (s \o t)[i] = t[i - Len(s)]
  OBVIOUS
<1>2. Len(s) \in Nat \ {0} /\ Len(t) \in Nat \ {0}
  OBVIOUS
<1>3. ASSUME NEW i \in 2..(Len(s) + Len(t))
      PROVE  Dist((s \o t)[i - 1], (s \o t)[i]) <= kMaxSegmentJump
  <2>1. CASE i <= Len(s)
    <3>1. (s \o t)[i - 1] = s[i - 1] /\ (s \o t)[i] = s[i] /\ i \in 2..Len(s)
      BY <1>1, <1>2, <2>1
    <3>. QED  BY <3>1, CutsOf
  <2>2. CASE i = Len(s) + 1
    <3>1. (s \o t)[i - 1] = Last(s) /\ (s \o t)[i] = Head(t)
      BY <1>1, <1>2, <2>2 DEF Last
    <3>. QED  BY <3>1 DEF Gap
  <2>3. CASE i > Len(s) + 1
    <3> DEFINE k == i - Len(s)
    <3>1. (s \o t)[i - 1] = t[k - 1] /\ (s \o t)[i] = t[k] /\ k \in 2..Len(t)
      BY <1>1, <1>2, <2>3
    <3> HIDE DEF k
    <3>. QED  BY <3>1, CutsOf
  <2>. QED  BY <1>2, <2>1, <2>2, <2>3
<1>4. s \o t # <<>>
  BY <1>1, <1>2
<1>. QED  BY <1>1, <1>3, <1>4, CutsOf

LEMMA RemoveAtType ==
  ASSUME NEW s \in Seq(Int), NEW i \in 1..Len(s)
  PROVE  /\ RemoveAt(s, i) \in Seq(Int)
         /\ Len(RemoveAt(s, i)) = Len(s) - 1
         /\ \A k \in 1..(Len(s) - 1) :
              RemoveAt(s, i)[k] = IF k < i THEN s[k] ELSE s[k + 1]
<1> DEFINE t == SubSeq(s, 1, i - 1)
           u == SubSeq(s, i + 1, Len(s))
<1>0. Len(s) \in Nat
  OBVIOUS
<1>1. /\ t \in Seq(Int) /\ Len(t) = i - 1
      /\ \A k \in 1..(i - 1) : t[k] = s[k]
  OBVIOUS
<1>2. /\ u \in Seq(Int) /\ Len(u) = Len(s) - i
      /\ \A k \in 1..(Len(s) - i) : u[k] = s[k + i]
  OBVIOUS
<1>3. RemoveAt(s, i) = t \o u
  BY DEF RemoveAt
<1> HIDE DEF t, u
<1>4. /\ t \o u \in Seq(Int) /\ Len(t \o u) = Len(t) + Len(u)
      /\ \A k \in 1..(Len(t) + Len(u)) :
           (t \o u)[k] = IF k <= Len(t) THEN t[k] ELSE u[k - Len(t)]
  BY <1>1, <1>2, ConcatProperties
<1>5. Len(t \o u) = Len(s) - 1
  BY <1>0, <1>1, <1>2, <1>4
<1>6. ASSUME NEW k \in 1..(Len(s) - 1)
      PROVE  (t \o u)[k] = IF k < i THEN s[k] ELSE s[k + 1]
  <2>1. /\ k \in 1..(Len(t) + Len(u)) /\ (k < i <=> k <= Len(t))
        /\ (k < i => k \in 1..(i - 1))
    BY <1>0, <1>1, <1>2
  <2>2. CASE k < i
    BY <1>1, <1>4, <2>1, <2>2
  <2>3. CASE ~(k < i)
    <3> DEFINE d == k - (i - 1)
    <3>1. (t \o u)[k] = u[d]
      BY <1>1, <1>4, <2>1, <2>3
    <3>2. d \in 1..(Len(s) - i) /\ d + i = k + 1
      BY <1>0, <2>3
    <3> HIDE DEF d
    <3>3. u[d] = s[d + i]
      BY <1>2, <3>2
    <3>. QED  BY <2>3, <3>1, <3>2, <3>3
  <2>. QED  BY <2>2, <2>3
<1>. QED  BY <1>3, <1>4, <1>5, <1>6

\* Taking a reversal out makes no jump: the way from its one neighbour to the
\* other is no longer than the longer leg.
LEMMA SpikeShortens ==
  ASSUME NEW a \in Int, NEW b \in Int, NEW c \in Int, NEW m \in Int,
         (b - a) * (c - b) < 0, Dist(a, b) <= m, Dist(b, c) <= m
  PROVE  Dist(a, c) <= m
<1>1. \/ b - a > 0 /\ c - b < 0
      \/ b - a < 0 /\ c - b > 0
  <2> DEFINE u == b - a
             v == c - b
  <2>1. u \in Int /\ v \in Int /\ u * v < 0
    OBVIOUS
  <2> HIDE DEF u, v
  <2>2. (u > 0 /\ v < 0) \/ (u < 0 /\ v > 0)
    BY <2>1
  <2>. QED  BY <2>2 DEF u, v
<1>. QED  BY <1>1 DEF Dist

LEMMA RemoveSpikeType ==
  ASSUME NEW s \in Seq(Int), NEW i \in Spikes(s), Cuts(s) = {}
  PROVE  /\ RemoveAt(s, i) \in Seq(Int)
         /\ RemoveAt(s, i) # <<>>
         /\ Cuts(RemoveAt(s, i)) = {}
<1> DEFINE t == RemoveAt(s, i)
<1>1. /\ i \in 2..(Len(s) - 1) /\ Len(s) \in Nat
      /\ (s[i] - s[i - 1]) * (s[i + 1] - s[i]) < 0
  BY DEF Spikes, Spike
<1>2. /\ t \in Seq(Int) /\ Len(t) = Len(s) - 1
      /\ \A k \in 1..(Len(s) - 1) : t[k] = IF k < i THEN s[k] ELSE s[k + 1]
  <2>1. i \in 1..Len(s)
    BY <1>1
  <2>. QED  BY <2>1, RemoveAtType
<1> HIDE DEF t
<1>3. ASSUME NEW k \in 2..(Len(s) - 1)
      PROVE  Dist(t[k - 1], t[k]) <= kMaxSegmentJump
  <2>0. /\ t[k] = IF k < i THEN s[k] ELSE s[k + 1]
        /\ t[k - 1] = IF k - 1 < i THEN s[k - 1] ELSE s[(k - 1) + 1]
    <3>1. k \in 1..(Len(s) - 1) /\ k - 1 \in 1..(Len(s) - 1)
      BY <1>1
    <3>. QED  BY <1>2, <3>1
  <2>1. CASE k < i
    <3>1. t[k - 1] = s[k - 1] /\ t[k] = s[k] /\ k \in 2..Len(s)
      BY <1>1, <2>0, <2>1
    <3>. QED  BY <3>1, CutsOf
  <2>2. CASE k = i
    <3>1. t[k - 1] = s[i - 1] /\ t[k] = s[i + 1]
      BY <1>1, <2>0, <2>2
    <3>2. s[i - 1] \in Int /\ s[i] \in Int /\ s[i + 1] \in Int
      BY <1>1
    <3>4. i \in 2..Len(s) /\ i + 1 \in 2..Len(s) /\ (i + 1) - 1 = i
      BY <1>1
    <3>3. Dist(s[i - 1], s[i]) <= kMaxSegmentJump
      BY <3>4, CutsOf
    <3>5. Dist(s[i], s[i + 1]) <= kMaxSegmentJump
      BY <3>4, CutsOf
    <3>6. (s[i] - s[i - 1]) * (s[i + 1] - s[i]) < 0
      BY <1>1
    <3>7. kMaxSegmentJump \in Int
      BY DEF kMaxSegmentJump
    <3>8. Dist(s[i - 1], s[i + 1]) <= kMaxSegmentJump
      BY <3>2, <3>3, <3>5, <3>6, <3>7, SpikeShortens, Zenon
    <3>. QED  BY <3>1, <3>8
  <2>3. CASE k > i
    <3>1. t[k - 1] = s[k] /\ t[k] = s[k + 1] /\ k + 1 \in 2..Len(s)
      BY <1>1, <2>0, <2>3
    <3>2. (k + 1) - 1 = k
      OBVIOUS
    <3>. QED  BY <3>1, <3>2, CutsOf
  <2>. QED  BY <1>1, <2>1, <2>2, <2>3
<1>4. t # <<>>
  BY <1>1, <1>2
<1>5. Cuts(t) = {}
  BY <1>2, <1>3, CutsOf
<1>. QED  BY <1>2, <1>4, <1>5 DEF t

----------------------------------------------------------------------------
(* Lists of segments.                                                      *)

LEMMA AppendType ==
  ASSUME NEW S, NEW s \in Seq(S), NEW e \in S
  PROVE  /\ Append(s, e) \in Seq(S)
         /\ Len(Append(s, e)) = Len(s) + 1
         /\ Append(s, e)[Len(s) + 1] = e
         /\ \A j \in 1..Len(s) : Append(s, e)[j] = s[j]
         /\ Append(s, e) # <<>>
<1>1. Append(s, e) \in Seq(S) /\ Len(Append(s, e)) = Len(s) + 1 /\ Len(s) \in Nat
  OBVIOUS
<1>. QED  BY <1>1

LEMMA ReplaceType ==
  ASSUME NEW S, NEW s \in Seq(S), NEW i \in 1..Len(s), NEW e \in S
  PROVE  /\ [s EXCEPT ![i] = e] \in Seq(S)
         /\ Len([s EXCEPT ![i] = e]) = Len(s)
         /\ [s EXCEPT ![i] = e][i] = e
         /\ \A j \in 1..Len(s) : j # i => [s EXCEPT ![i] = e][j] = s[j]
OBVIOUS

\* A list of segments that are not empty and do not jump.
Unbroken(list) == /\ list \in Seq(Seq(Int))
                  /\ \A j \in 1..Len(list) : list[j] # <<>> /\ Cuts(list[j]) = {}

LEMMA UnbrokenElement ==
  ASSUME NEW list, Unbroken(list), NEW j \in 1..Len(list)
  PROVE  list[j] \in Seq(Int) /\ list[j] # <<>> /\ Cuts(list[j]) = {}
<1> DEFINE V == Seq(Int)
<1>1. list \in Seq(V)
  BY DEF Unbroken
<1>2. list[j] \in V
  <2> HIDE DEF V
  <2>. QED  BY <1>1
<1>. QED  BY <1>2 DEF Unbroken

LEMMA UnbrokenAppend ==
  ASSUME NEW list, Unbroken(list),
         NEW s \in Seq(Int), s # <<>>, Cuts(s) = {}
  PROVE  Unbroken(Append(list, s)) /\ Append(list, s) # <<>>
<1> DEFINE V == Seq(Int)
           new == Append(list, s)
<1>1. list \in Seq(V) /\ s \in V /\ Len(list) \in Nat
  BY DEF Unbroken
<1>2. /\ new \in Seq(V) /\ Len(new) = Len(list) + 1 /\ new[Len(list) + 1] = s
      /\ \A j \in 1..Len(list) : new[j] = list[j]
      /\ new # <<>>
  <2> HIDE DEF V
  <2>. QED  BY <1>1, AppendType
<1> HIDE DEF new
<1>3. ASSUME NEW j \in 1..Len(new)  PROVE new[j] # <<>> /\ Cuts(new[j]) = {}
  <2>1. CASE j \in 1..Len(list)
    BY <1>2, <2>1 DEF Unbroken
  <2>2. CASE j = Len(list) + 1
    BY <1>2, <2>2
  <2>. QED  BY <1>1, <1>2, <2>1, <2>2
<1>. QED  BY <1>2, <1>3 DEF Unbroken, new

LEMMA UnbrokenReplace ==
  ASSUME NEW list, Unbroken(list), NEW i \in 1..Len(list),
         NEW s \in Seq(Int), s # <<>>, Cuts(s) = {}
  PROVE  /\ Unbroken([list EXCEPT ![i] = s])
         /\ Len([list EXCEPT ![i] = s]) = Len(list)
<1> DEFINE V == Seq(Int)
           new == [list EXCEPT ![i] = s]
<1>1. list \in Seq(V) /\ s \in V
  BY DEF Unbroken
<1>2. /\ new \in Seq(V) /\ Len(new) = Len(list) /\ new[i] = s
      /\ \A j \in 1..Len(list) : j # i => new[j] = list[j]
  <2> HIDE DEF V
  <2>. QED  BY <1>1, ReplaceType
<1> HIDE DEF new
<1>3. ASSUME NEW j \in 1..Len(new)  PROVE new[j] # <<>> /\ Cuts(new[j]) = {}
  BY <1>2 DEF Unbroken
<1>. QED  BY <1>2, <1>3 DEF Unbroken, new

----------------------------------------------------------------------------
(* What every loop keeps: segments are not empty and do not jump; a path    *)
(* with poses has a segment, and a list of segments one that is kept; and  *)
(* the segments already scanned have no spikes.                            *)

TypeInv ==
  /\ swaths \in Seq(Seq(Int)) /\ path \in Seq(Int) /\ split \in Seq(Seq(Int))
  /\ next \in Nat \ {0} /\ stage \in Stages

SomeInv ==
  /\ stage = "planning" => segments = <<>>
  /\ stage # "merging" => merged = <<>>
  /\ stage = "splitting" /\ next > 1 => segments # <<>>
  /\ stage = "merging" => next <= Len(segments) + 1
  /\ stage = "merging" /\ next > Len(segments) /\ segments # <<>> => merged # <<>>
  /\ stage \notin {"planning", "splitting"} /\ path # <<>> => segments # <<>>
  /\ stage = "undefined" => segments = <<>>

SpikeInv ==
  /\ stage = "clearing" =>
       \A j \in 1..Len(segments) : j < next => Spikes(segments[j]) = {}
  /\ NoSpikeLeft

SegmentInv ==
  TypeInv /\ Unbroken(segments) /\ Unbroken(merged) /\ SomeInv /\ SpikeInv

LEMMA InitSegmentInv == Init => SegmentInv
<1> SUFFICES ASSUME Init  PROVE SegmentInv
  OBVIOUS
<1> USE DEF Init
<1>1. TypeInv
  BY SegmentationAssumption DEF TypeInv, Stages
<1>2. Unbroken(segments) /\ Unbroken(merged)
  BY DEF Unbroken
<1>3. SomeInv /\ SpikeInv
  BY DEF SomeInv, SpikeInv, NoSpikeLeft, Ended
<1>. QED  BY <1>1, <1>2, <1>3 DEF SegmentInv

LEMMA PlanKeeps ==
  SegmentInv /\ (PlanSwath \/ Respond) => SegmentInv'
<1> SUFFICES ASSUME SegmentInv, PlanSwath \/ Respond  PROVE SegmentInv'
  OBVIOUS
<1> USE DEF SegmentInv, PlanSwath, Respond, Enter
<1>1. TypeInv'
  <2>1. CASE PlanSwath
    <3>1. swaths[next] \in Seq(Int)
      BY <2>1 DEF TypeInv
    <3>2. SwathPoses(swaths[next]) \in Seq(Int)
      BY <3>1, SwathPosesType
    <3>3. path' \in Seq(Int)
      BY <2>1, <3>2 DEF TypeInv
    <3>. QED  BY <2>1, <3>3 DEF TypeInv, Stages
  <2>2. CASE Respond
    BY <2>2 DEF TypeInv, Stages
  <2>. QED  BY <2>1, <2>2
<1>2. Unbroken(segments') /\ Unbroken(merged')
  OBVIOUS
<1>3. SomeInv'
  BY DEF SomeInv, TypeInv
<1>4. SpikeInv'
  BY DEF SpikeInv, NoSpikeLeft, Ended
<1>. QED  BY <1>1, <1>2, <1>3, <1>4 DEF Unbroken

LEMMA SplitKeeps ==
  SegmentInv /\ (SplitOff \/ EndSplit) => SegmentInv'
<1> SUFFICES ASSUME SegmentInv, SplitOff \/ EndSplit  PROVE SegmentInv'
  OBVIOUS
<1> USE DEF SegmentInv, Enter
<1>1. CASE SplitOff
  <2> USE <1>1 DEF SplitOff
  <2>1. path \in Seq(Int) /\ next \in 1..Len(path) /\ next' = NextCut(path, next)
    BY DEF TypeInv
  <2> DEFINE s == SubSeq(path, next, next' - 1)
  <2>2. s \in Seq(Int) /\ s # <<>> /\ Cuts(s) = {}
    BY <2>1, PieceType
  <2>3. segments' = Append(segments, s)
    OBVIOUS
  <2> HIDE DEF s
  <2>4. Unbroken(segments') /\ segments' # <<>>
    BY <2>2, <2>3, UnbrokenAppend
  <2>5. next' \in Nat \ {0}
    BY <2>1, NextCutType
  <2>. QED
    BY <2>4, <2>5 DEF TypeInv, SomeInv, SpikeInv, NoSpikeLeft, Ended, Unbroken
<1>2. CASE EndSplit
  <2> USE <1>2 DEF EndSplit
  <2>1. Len(segments) \in Nat /\ segments \in Seq(Seq(Int))
    BY DEF Unbroken
  <2>2. path # <<>> => next > 1 /\ Len(path) \in Nat
    BY DEF TypeInv
  <2>3. TypeInv'
    BY <2>1 DEF TypeInv, Stages
  <2>4. segments # <<>> => Len(segments) >= 1
    BY <2>1
  <2>5. SomeInv'
    BY <2>1, <2>2, <2>4 DEF SomeInv
  <2>. QED
    BY <2>3, <2>5 DEF SpikeInv, NoSpikeLeft, Ended, Unbroken
<1>. QED  BY <1>1, <1>2

LEMMA KeepKeeps ==
  SegmentInv /\ KeepSegment => SegmentInv'
<1> SUFFICES ASSUME SegmentInv, KeepSegment  PROVE SegmentInv'
  OBVIOUS
<1>0. /\ TypeInv /\ Unbroken(segments) /\ Unbroken(merged) /\ SomeInv
      /\ SpikeInv /\ Merging /\ UNCHANGED segments
      /\ merged' = Append(merged, segments[next])
  BY DEF SegmentInv, KeepSegment
<1>1. Len(segments) \in Nat /\ next \in 1..Len(segments)
  BY <1>0 DEF TypeInv, Unbroken, Merging
<1>2. Unbroken(merged') /\ merged' # <<>>
  <2>1. /\ segments[next] \in Seq(Int) /\ segments[next] # <<>>
        /\ Cuts(segments[next]) = {}
    BY <1>0, <1>1, UnbrokenElement
  <2>. QED  BY <1>0, <2>1, UnbrokenAppend
<1>3. TypeInv' /\ SomeInv'
  BY <1>0, <1>1, <1>2 DEF TypeInv, SomeInv, Merging
<1>4. SpikeInv'
  BY <1>0 DEF SpikeInv, NoSpikeLeft, Ended, Merging
<1>. QED  BY <1>0, <1>2, <1>3, <1>4 DEF Unbroken, SegmentInv

LEMMA MergeForwardKeeps ==
  SegmentInv /\ MergeForward => SegmentInv'
<1> SUFFICES ASSUME SegmentInv, MergeForward  PROVE SegmentInv'
  OBVIOUS
<1>0. /\ TypeInv /\ Unbroken(segments) /\ Unbroken(merged) /\ SomeInv
      /\ SpikeInv /\ Merging /\ UNCHANGED merged /\ next < Len(segments)
  BY DEF SegmentInv, MergeForward
<1>1. /\ Len(segments) \in Nat /\ next \in 1..Len(segments)
      /\ next + 1 \in 1..Len(segments)
  BY <1>0 DEF TypeInv, Unbroken, Merging
<1>2. Unbroken(segments') /\ Len(segments') = Len(segments)
  <2>1. CASE MayMerge(segments[next], segments[next + 1])
    <3> DEFINE s == segments[next]
               t == segments[next + 1]
    <3>1. /\ s \in Seq(Int) /\ s # <<>> /\ Cuts(s) = {}
          /\ t \in Seq(Int) /\ t # <<>> /\ Cuts(t) = {}
      BY <1>0, <1>1, UnbrokenElement
    <3>2. Gap(s, t) <= kMaxSegmentJump
      BY <2>1 DEF MayMerge
    <3>3. segments' = [segments EXCEPT ![next + 1] = s \o t]
      BY <2>1 DEF MergeForward
    <3> HIDE DEF s, t
    <3>4. s \o t \in Seq(Int) /\ s \o t # <<>> /\ Cuts(s \o t) = {}
      BY <3>1, <3>2, JoinType
    <3>. QED  BY <1>0, <1>1, <3>3, <3>4, UnbrokenReplace
  <2>2. CASE ~MayMerge(segments[next], segments[next + 1])
    BY <1>0, <2>2 DEF MergeForward
  <2>. QED  BY <2>1, <2>2
<1>3. segments # <<>> /\ segments' # <<>>
  BY <1>1, <1>2 DEF Unbroken
<1>4. TypeInv' /\ SomeInv'
  BY <1>0, <1>1, <1>2, <1>3 DEF TypeInv, SomeInv, Merging
<1>5. SpikeInv'
  BY <1>0 DEF SpikeInv, NoSpikeLeft, Ended, Merging
<1>. QED  BY <1>0, <1>2, <1>4, <1>5 DEF Unbroken, SegmentInv

LEMMA MergeBackKeeps ==
  SegmentInv /\ MergeBack => SegmentInv'
<1> SUFFICES ASSUME SegmentInv, MergeBack  PROVE SegmentInv'
  OBVIOUS
<1>0. /\ TypeInv /\ Unbroken(segments) /\ Unbroken(merged) /\ SomeInv
      /\ SpikeInv /\ Merging /\ UNCHANGED segments
  BY DEF SegmentInv, MergeBack
<1>1. Len(segments) \in Nat /\ next \in 1..Len(segments)
  BY <1>0 DEF TypeInv, Unbroken, Merging
<1>2. merged # <<>>
  BY DEF MergeBack, Keep
<1>3. Unbroken(merged') /\ merged' # <<>>
  <2>1. CASE MayMerge(Last(merged), segments[next])
    <3> DEFINE s == Last(merged)
               t == segments[next]
    <3>1. Len(merged) \in 1..Len(merged)
      BY <1>0, <1>2 DEF Unbroken
    <3>2. /\ s \in Seq(Int) /\ s # <<>> /\ Cuts(s) = {}
          /\ t \in Seq(Int) /\ t # <<>> /\ Cuts(t) = {}
      BY <1>0, <1>1, <3>1, UnbrokenElement DEF Last
    <3>3. Gap(s, t) <= kMaxSegmentJump
      BY <2>1 DEF MayMerge
    <3>4. merged' = [merged EXCEPT ![Len(merged)] = s \o t]
      BY <1>2, <2>1 DEF Last, MergeBack
    <3> HIDE DEF s, t
    <3>5. s \o t \in Seq(Int) /\ s \o t # <<>> /\ Cuts(s \o t) = {}
      BY <3>2, <3>3, JoinType
    <3>6. Unbroken(merged') /\ Len(merged') = Len(merged)
      BY <1>0, <3>1, <3>4, <3>5, UnbrokenReplace
    <3>7. Len(merged') # 0
      BY <3>1, <3>6
    <3>. QED  BY <3>6, <3>7
  <2>2. CASE ~MayMerge(Last(merged), segments[next])
    BY <1>0, <1>2, <2>2 DEF MergeBack
  <2>. QED  BY <2>1, <2>2
<1>4. TypeInv' /\ SomeInv'
  BY <1>0, <1>1, <1>3 DEF TypeInv, SomeInv, Merging
<1>5. SpikeInv'
  BY <1>0 DEF SpikeInv, NoSpikeLeft, Ended, Merging
<1>. QED  BY <1>0, <1>3, <1>4, <1>5 DEF Unbroken, SegmentInv

LEMMA EndMergeKeeps ==
  SegmentInv /\ EndMerge => SegmentInv'
<1> SUFFICES ASSUME SegmentInv, EndMerge  PROVE SegmentInv'
  OBVIOUS
<1> USE DEF SegmentInv, EndMerge, Enter
<1>1. Unbroken(segments') /\ Unbroken(merged')
  <2>1. Unbroken(merged) /\ segments' = merged /\ merged' = <<>>
    OBVIOUS
  <2>2. Unbroken(<<>>)
    BY DEF Unbroken
  <2>. QED  BY <2>1, <2>2
<1>2. TypeInv' /\ SomeInv'
  BY DEF TypeInv, SomeInv, Stages
<1>3. SpikeInv'
  BY <1>1 DEF SpikeInv, NoSpikeLeft, Ended, Unbroken
<1>. QED  BY <1>1, <1>2, <1>3

LEMMA RemoveSpikeKeeps ==
  SegmentInv /\ RemoveSpike => SegmentInv'
<1> SUFFICES ASSUME SegmentInv, RemoveSpike  PROVE SegmentInv'
  OBVIOUS
<1>0. /\ TypeInv /\ Unbroken(segments) /\ Unbroken(merged) /\ SomeInv
      /\ SpikeInv /\ stage = "clearing" /\ next <= Len(segments)
      /\ next' = next /\ UNCHANGED <<swaths, path, merged, split, stage>>
  BY DEF SegmentInv, RemoveSpike, ScanAgain
<1>1. Len(segments) \in Nat /\ next \in 1..Len(segments)
  BY <1>0 DEF TypeInv, Unbroken
<1> DEFINE s == segments[next]
           i == Min(Spikes(s))
<1>2. s \in Seq(Int) /\ s # <<>> /\ Cuts(s) = {}
  BY <1>0, <1>1, UnbrokenElement
<1>3. segments' = [segments EXCEPT ![next] = RemoveAt(s, i)] /\ Spikes(s) # {}
  BY DEF RemoveSpike
<1> HIDE DEF s
<1>4. i \in Spikes(s)
  <2>1. Spikes(s) \subseteq Nat
    BY DEF Spikes
  <2>. QED  BY <1>3, <2>1, Minimum
<1> HIDE DEF i
<1>5. /\ RemoveAt(s, i) \in Seq(Int) /\ RemoveAt(s, i) # <<>>
      /\ Cuts(RemoveAt(s, i)) = {}
  BY <1>2, <1>4, RemoveSpikeType
<1>6. Unbroken(segments') /\ Len(segments') = Len(segments)
  BY <1>0, <1>1, <1>3, <1>5, UnbrokenReplace
<1>7. \A j \in 1..Len(segments) : j < next => segments'[j] = segments[j]
  BY <1>0, <1>1, <1>3 DEF Unbroken
<1>8. segments # <<>> /\ segments' # <<>>
  <2>1. Len(segments') # 0 /\ Len(segments) # 0
    BY <1>1, <1>6
  <2>. QED  BY <2>1
<1>9. TypeInv' /\ SomeInv'
  BY <1>0, <1>8 DEF TypeInv, SomeInv
<1>10. SpikeInv'
  BY <1>0, <1>6, <1>7 DEF SpikeInv, NoSpikeLeft, Ended
<1>. QED  BY <1>0, <1>6, <1>9, <1>10 DEF Unbroken, SegmentInv

LEMMA EndsKeep ==
  SegmentInv /\ (NextSegment \/ Finish) => SegmentInv'
<1> SUFFICES ASSUME SegmentInv, NextSegment \/ Finish  PROVE SegmentInv'
  OBVIOUS
<1> USE DEF SegmentInv, NextSegment, Finish
<1>1. Len(segments) \in Nat
  BY DEF Unbroken
<1>2. TypeInv'
  BY DEF TypeInv, Stages
<1>3. SomeInv'
  BY DEF SomeInv
<1>4. SpikeInv'
  <2>1. /\ stage = "clearing" /\ Unbroken(segments) /\ UNCHANGED segments
        /\ next \in Nat /\ \A j \in 1..Len(segments) : j < next => Spikes(segments[j]) = {}
    BY DEF SpikeInv, TypeInv
  <2>2. CASE NextSegment
    <3>1. next' = next + 1 /\ Spikes(segments[next]) = {} /\ stage' = "clearing"
      BY <2>2
    <3>2. \A j \in 1..Len(segments) : j < next + 1 => j < next \/ j = next
      BY <1>1, <2>1
    <3>. QED  BY <2>1, <3>1, <3>2 DEF SpikeInv, NoSpikeLeft, Ended
  <2>3. CASE Finish
    <3>1. next > Len(segments) /\ stage' # "clearing"
      BY <2>3
    <3>. QED  BY <1>1, <2>1, <3>1 DEF SpikeInv, NoSpikeLeft, Ended
  <2>. QED  BY <2>2, <2>3
<1>. QED  BY <1>2, <1>3, <1>4 DEF Unbroken

LEMMA NextSegmentInv == SegmentInv /\ [Next]_vars => SegmentInv'
<1> SUFFICES ASSUME SegmentInv, [Next]_vars  PROVE SegmentInv'
  OBVIOUS
<1>1. CASE UNCHANGED vars
  BY <1>1 DEF vars, SegmentInv, TypeInv, Unbroken, SomeInv, SpikeInv,
     NoSpikeLeft, Ended
<1>. QED
  BY <1>1, PlanKeeps, SplitKeeps, KeepKeeps, MergeForwardKeeps, MergeBackKeeps,
     EndMergeKeeps, RemoveSpikeKeeps, EndsKeep DEF Next

LEMMA SegmentInvAlways == Spec => []SegmentInv
BY InitSegmentInv, NextSegmentInv, PTL DEF Spec

\* No segment jumps, for any swaths: neither splitting nor joining fragments
\* nor taking out spikes leaves consecutive poses further apart than
\* kMaxSegmentJump.
THEOREM SegmentsDoNotJump == Spec => []NoJumpInside
<1>1. SegmentInv => NoJumpInside
  BY DEF SegmentInv, Unbroken, NoJumpInside
<1>. QED  BY SegmentInvAlways, <1>1, PTL

\* A path with poses leaves a first segment, and no segment is empty:
\* path_segments_[0] and poses.front() are there for any swaths.
THEOREM SomethingIsLeft == Spec => []SomethingToMow
<1>1. SegmentInv => SomethingToMow
  BY DEF SegmentInv, Unbroken, SomeInv, SomethingToMow
<1>. QED  BY SegmentInvAlways, <1>1, PTL

\* The controller is given no spike, for any swaths.
THEOREM SpikesAreGone == Spec => []NoSpikeLeft
<1>1. SegmentInv => NoSpikeLeft
  BY DEF SegmentInv, SpikeInv
<1>. QED  BY SegmentInvAlways, <1>1, PTL

----------------------------------------------------------------------------
(* The rank of a number in a set.                                          *)

LEMMA RankType ==
  ASSUME NEW n \in Nat, NEW S, S \subseteq 1..n, NEW k \in Int
  PROVE  /\ IsFiniteSet({j \in S : j <= k})
         /\ Rank(S, k) \in Nat
<1>1. IsFiniteSet(1..n)
  BY FS_Interval
<1>2. {j \in S : j <= k} \subseteq 1..n
  OBVIOUS
<1>3. IsFiniteSet({j \in S : j <= k})
  BY <1>1, <1>2, FS_Subset
<1>. QED  BY <1>3, FS_CardinalityType DEF Rank

LEMMA RankStep ==
  ASSUME NEW n \in Nat, NEW S, S \subseteq 1..n, NEW k \in Int
  PROVE  /\ k \in S => Rank(S, k) = Rank(S, k - 1) + 1
         /\ k \notin S => Rank(S, k) = Rank(S, k - 1)
<1> DEFINE Upto(i) == {j \in S : j <= i}
<1>0. \A j \in S : j \in Int
  OBVIOUS
<1>0a. /\ \A j \in S : j <= k <=> j <= k - 1 \/ j = k
      /\ k <= k /\ ~(k <= k - 1)
  BY <1>0
<1>1. k \notin S => Upto(k) = Upto(k - 1)
  BY <1>0a
<1>2. k \in S => Upto(k) = Upto(k - 1) \cup {k} /\ k \notin Upto(k - 1)
  BY <1>0a
<1>3. IsFiniteSet(Upto(k - 1))
  <2>1. k - 1 \in Int
    OBVIOUS
  <2>. QED  BY <2>1, RankType
<1>4. Rank(S, k) = Cardinality(Upto(k)) /\ Rank(S, k - 1) = Cardinality(Upto(k - 1))
  BY DEF Rank
<1> HIDE DEF Upto
<1>5. k \in S => Cardinality(Upto(k)) = Cardinality(Upto(k - 1)) + 1
  BY <1>2, <1>3, FS_AddElement
<1>. QED  BY <1>1, <1>4, <1>5

LEMMA RankMonotone ==
  ASSUME NEW n \in Nat, NEW S, S \subseteq 1..n, NEW i \in Int, NEW k \in Int,
         i <= k
  PROVE  /\ Rank(S, i) <= Rank(S, k)
         /\ k \in S /\ i < k => Rank(S, i) < Rank(S, k)
         /\ (\A j \in S : j <= k => j <= i) => Rank(S, i) = Rank(S, k)
<1> DEFINE Upto(m) == {j \in S : j <= m}
<1>0. \A j \in S : j \in Int
  OBVIOUS
<1>0a. \A j \in S : j <= i => j <= k
  BY <1>0
<1>1. Upto(i) \subseteq Upto(k)
  BY <1>0a
<1>0b. k <= k /\ (i < k => ~(k <= i))
  OBVIOUS
<1>2. /\ k \in S /\ i < k => k \in Upto(k) /\ k \notin Upto(i)
      /\ (\A j \in S : j <= k => j <= i) => Upto(i) = Upto(k)
  BY <1>0a, <1>0b
<1>3. IsFiniteSet(Upto(k)) /\ IsFiniteSet(Upto(i))
  BY RankType
<1>4. Rank(S, k) = Cardinality(Upto(k)) /\ Rank(S, i) = Cardinality(Upto(i))
  BY DEF Rank
<1> HIDE DEF Upto
<1>5. Cardinality(Upto(k)) \in Nat /\ Cardinality(Upto(i)) \in Nat
  BY <1>3, FS_CardinalityType
<1>6. /\ Cardinality(Upto(i)) <= Cardinality(Upto(k))
      /\ Cardinality(Upto(i)) = Cardinality(Upto(k)) => Upto(i) = Upto(k)
  BY <1>1, <1>3, FS_Subset
<1>. QED  BY <1>2, <1>4, <1>5, <1>6

LEMMA RankBounds ==
  ASSUME NEW n \in Nat, NEW S, S \subseteq 1..n
  PROVE  /\ Rank(S, 0) = 0
         /\ Rank(S, n) = Cardinality(S)
         /\ \A k \in S : Rank(S, k) \in 1..Cardinality(S)
<1>0. \A j \in S : j \in Int /\ 0 < j /\ j <= n
  OBVIOUS
<1>0a. \A j \in S : ~(j <= 0) /\ j <= n
  BY <1>0
<1>1. {j \in S : j <= 0} = {} /\ {j \in S : j <= n} = S
  BY <1>0a
<1>2. Rank(S, 0) = 0 /\ Rank(S, n) = Cardinality(S)
  BY <1>1, FS_EmptySet DEF Rank
<1>3. ASSUME NEW k \in S  PROVE Rank(S, k) \in 1..Cardinality(S)
  <2>1. k \in Int /\ n \in Int /\ 0 \in Int /\ 0 <= k /\ 0 < k /\ k <= n
    BY <1>0
  <2>2. Rank(S, 0) < Rank(S, k)
    BY <2>1, RankMonotone
  <2>4. Rank(S, k) <= Rank(S, n)
    BY <2>1, RankMonotone
  <2>3. Rank(S, k) \in Nat /\ Rank(S, n) \in Nat
    BY <2>1, RankType
  <2>. QED  BY <1>2, <2>2, <2>3, <2>4
<1>. QED  BY <1>2, <1>3

LEMMA LargestNumber ==
  ASSUME NEW n \in Nat, NEW S, S \subseteq 1..n, S # {}
  PROVE  \E m \in S : \A k \in S : k <= m
<1> DEFINE T == {n - k : k \in S}
<1>0. \A k \in S : n - k \in Nat
  OBVIOUS
<1>1. T \subseteq Nat /\ T # {}
  BY <1>0
<1>2. PICK d \in T : \A e \in T : d <= e
  <2> HIDE DEF T
  <2>. QED  BY <1>1, LeastNumber
<1>3. PICK m \in S : d = n - m
  OBVIOUS
<1>4. ASSUME NEW k \in S  PROVE k <= m
  <2>1. n - k \in T
    OBVIOUS
  <2>2. n - m <= n - k
    BY <1>2, <1>3, <2>1
  <2>3. m \in 1..n /\ k \in 1..n
    OBVIOUS
  <2>. QED  BY <2>2, <2>3
<1>. QED  BY <1>4

----------------------------------------------------------------------------
(* What merging comes to.  Segments are apart when splitting is done, so   *)
(* that no fragment is ever merged forward; what is kept are the others,   *)
(* in their order.                                                         *)

Apart(list) ==
  \A j \in 1..(Len(list) - 1) : Gap(list[j], list[j + 1]) > kMaxSegmentJump

ApartInv ==
  /\ stage = "splitting" =>
       /\ Apart(segments) /\ next <= Len(path) + 1
       /\ segments # <<>> => /\ next > 1
                             /\ Last(Last(segments)) = path[next - 1]
                             /\ next <= Len(path) => next \in Cuts(path)
  /\ stage = "merging" => Apart(segments) /\ split = segments

\* list holds the segments up to the i-th that are no fragments.
Listed(list, segs, i) ==
  /\ Len(list) = Rank(Whole(segs), i)
  /\ \A k \in Whole(segs) : k <= i => list[Rank(Whole(segs), k)] = segs[k]

MergedInv ==
  /\ stage = "merging" /\ next <= Len(segments) => Listed(merged, segments, next - 1)
  /\ WholeSegmentsStay

LEMMA WholeType ==
  ASSUME NEW segs \in Seq(Seq(Int))
  PROVE  Len(segs) \in Nat /\ Whole(segs) \subseteq 1..Len(segs)
BY DEF Whole

LEMMA ListedNone ==
  ASSUME NEW segs \in Seq(Seq(Int))
  PROVE  Listed(<<>>, segs, 0)
<1>1. Rank(Whole(segs), 0) = 0 /\ \A k \in Whole(segs) : ~(k <= 0)
  BY WholeType, RankBounds
<1>. QED  BY <1>1 DEF Listed

LEMMA ListedSkip ==
  ASSUME NEW segs \in Seq(Seq(Int)), NEW i \in 1..Len(segs), i \notin Whole(segs),
         NEW list, Listed(list, segs, i - 1)
  PROVE  Listed(list, segs, i)
<1>1. Rank(Whole(segs), i) = Rank(Whole(segs), i - 1)
  BY WholeType, RankStep
<1>2. ASSUME NEW k \in Whole(segs), k <= i  PROVE k <= i - 1
  <2>1. k \in Int /\ k # i
    BY WholeType
  <2>. QED  BY <1>2, <2>1
<1>. QED  BY <1>1, <1>2 DEF Listed

LEMMA ListedKeep ==
  ASSUME NEW segs \in Seq(Seq(Int)), NEW i \in Whole(segs),
         NEW list \in Seq(Seq(Int)), Listed(list, segs, i - 1)
  PROVE  Listed(Append(list, segs[i]), segs, i)
<1> DEFINE V == Seq(Int)
           S == Whole(segs)
           n == Len(segs)
           new == Append(list, segs[i])
<1>1. n \in Nat /\ S \subseteq 1..n /\ i \in 1..n
  BY WholeType
<1>2. segs \in Seq(V) /\ list \in Seq(V) /\ segs[i] \in V
  BY <1>1
<1>3. Rank(S, i) = Rank(S, i - 1) + 1 /\ Len(list) = Rank(S, i - 1)
  BY <1>1, RankStep DEF Listed
<1>4. /\ Len(new) = Len(list) + 1 /\ new[Len(list) + 1] = segs[i]
      /\ \A j \in 1..Len(list) : new[j] = list[j]
  <2> HIDE DEF V, S
  <2>. QED  BY <1>2, AppendType
<1>5. ASSUME NEW k \in S, k <= i  PROVE new[Rank(S, k)] = segs[k]
  <2>1. CASE k = i
    BY <1>3, <1>4, <2>1
  <2>2. CASE k # i
    <3>1. k \in Int /\ i - 1 \in Int /\ k <= i - 1
      BY <1>1, <1>5, <2>2
    <3>2. Rank(S, k) <= Rank(S, i - 1) /\ Rank(S, k) \in 1..Cardinality(S)
      BY <1>1, <3>1, RankMonotone, RankBounds
    <3>3. Rank(S, k) \in 1..Len(list)
      <4>1. Len(list) \in Nat
        OBVIOUS
      <4>2. Rank(S, k) \in Nat \ {0}
        BY <3>2
      <4> HIDE DEF S
      <4>. QED  BY <1>3, <3>2, <4>1, <4>2
    <3>. QED  BY <1>4, <3>1, <3>3 DEF Listed
  <2>. QED  BY <2>1, <2>2
<1> HIDE DEF new
<1>6. Len(new) = Rank(S, i)
  BY <1>3, <1>4
<1>. QED  BY <1>5, <1>6 DEF Listed, new

\* Of what is listed the last is the last segment that is no fragment.
LEMMA ListedLast ==
  ASSUME NEW segs \in Seq(Seq(Int)), NEW list \in Seq(Seq(Int)),
         Listed(list, segs, Len(segs)), list # <<>>
  PROVE  \E m \in Whole(segs) :
           /\ \A k \in Whole(segs) : k <= m
           /\ Rank(Whole(segs), m) = Len(list)
           /\ Last(list) = segs[m]
           /\ \A k \in Whole(segs) : k # m => Rank(Whole(segs), k) < Len(list)
<1> DEFINE S == Whole(segs)
           n == Len(segs)
<1>1. n \in Nat /\ S \subseteq 1..n
  BY WholeType
<1>2. Len(list) = Cardinality(S) /\ Rank(S, n) = Cardinality(S)
  BY <1>1, RankBounds DEF Listed
<1>3. S # {}
  <2>1. Len(list) # 0
    OBVIOUS
  <2>. QED  BY <1>2, <2>1, FS_EmptySet
<1> HIDE DEF S, n
<1>4. PICK m \in S : \A k \in S : k <= m
  BY <1>1, <1>3, LargestNumber
<1>5. m \in Int /\ n \in Int /\ m <= n
  BY <1>1
<1>6. Rank(S, m) = Len(list)
  <2>1. \A j \in S : j <= n => j <= m
    BY <1>4
  <2>. QED  BY <1>1, <1>2, <1>5, <2>1, RankMonotone
<1>7. Last(list) = segs[m]
  BY <1>5, <1>6 DEF Listed, Last, S, n
<1>8. ASSUME NEW k \in S, k # m  PROVE Rank(S, k) < Len(list)
  <2>1. k \in Int /\ k <= m /\ k < m
    BY <1>1, <1>4, <1>5, <1>8
  <2>2. Rank(S, k) < Rank(S, m)
    BY <1>1, <1>4, <1>5, <2>1, RankMonotone, Zenon
  <2>. QED  BY <1>6, <2>2
<1>. QED  BY <1>4, <1>6, <1>7, <1>8 DEF S

OrderInv == ApartInv /\ MergedInv

\* Outside the two loops the invariant says nothing.
LEMMA OtherStages ==
  ASSUME stage' \notin {"splitting", "merging"}
  PROVE  OrderInv'
BY DEF OrderInv, ApartInv, MergedInv, WholeSegmentsStay, Merged

LEMMA RespondOrder ==
  SegmentInv /\ Respond => OrderInv'
<1> SUFFICES ASSUME SegmentInv, Respond  PROVE OrderInv'
  OBVIOUS
<1>1. segments' = <<>> /\ next' = 1 /\ stage' = "splitting" /\ path' \in Seq(Int)
  BY DEF SegmentInv, SomeInv, TypeInv, Respond, Enter
<1>2. Apart(segments')
  BY <1>1 DEF Apart
<1>3. next' <= Len(path') + 1
  BY <1>1
<1>. QED
  BY <1>1, <1>2, <1>3 DEF OrderInv, ApartInv, MergedInv, WholeSegmentsStay, Merged

LEMMA SplitOrder ==
  SegmentInv /\ OrderInv /\ SplitOff => OrderInv'
<1> SUFFICES ASSUME SegmentInv, OrderInv, SplitOff  PROVE OrderInv'
  OBVIOUS
<1> DEFINE V == Seq(Int)
           c == NextCut(path, next)
           s == SubSeq(path, next, c - 1)
           n == Len(segments)
<1>1. /\ path \in Seq(Int) /\ Len(path) \in Nat /\ next \in 1..Len(path)
      /\ next' = c /\ segments' = Append(segments, s)
      /\ stage = "splitting" /\ stage' = "splitting" /\ path' = path
  BY DEF SegmentInv, TypeInv, SplitOff
<1>2. /\ c \in (next + 1)..(Len(path) + 1) /\ c \in Cuts(path) \cup {Len(path) + 1}
  BY <1>1, NextCutType
<1>3. /\ s \in V /\ s # <<>> /\ Len(s) = c - next
      /\ \A k \in 1..(c - next) : s[k] = path[next + k - 1]
  BY <1>1, PieceType
<1>4. Head(s) = path[next] /\ Last(s) = path[c - 1]
  <2>1. 1 \in 1..(c - next) /\ c - next \in 1..(c - next)
    BY <1>1, <1>2
  <2>2. s[1] = path[next + 1 - 1] /\ s[c - next] = path[next + (c - next) - 1]
    BY <1>3, <2>1
  <2>3. next + 1 - 1 = next /\ next + (c - next) - 1 = c - 1
    BY <1>1, <1>2
  <2>4. Head(s) = s[1]
    BY <1>3
  <2>. QED  BY <1>3, <2>2, <2>3, <2>4 DEF Last
<1>5. segments \in Seq(V) /\ n \in Nat
  BY DEF SegmentInv, Unbroken
<1>6. /\ segments' \in Seq(V) /\ Len(segments') = n + 1 /\ segments'[n + 1] = s
      /\ \A j \in 1..n : segments'[j] = segments[j]
  <2> HIDE DEF V, s
  <2>. QED  BY <1>1, <1>3, <1>5, AppendType
<1> HIDE DEF s, c, V
<1>7. ASSUME NEW j \in 1..(Len(segments') - 1)
      PROVE  Gap(segments'[j], segments'[j + 1]) > kMaxSegmentJump
  <2>1. CASE j < n
    <3>1. /\ j \in 1..(n - 1)
          /\ segments'[j] = segments[j] /\ segments'[j + 1] = segments[j + 1]
      BY <1>5, <1>6, <2>1
    <3>. QED  BY <1>1, <3>1 DEF OrderInv, ApartInv, Apart
  <2>2. CASE j = n
    <3>1. segments # <<>> /\ segments'[j] = Last(segments) /\ segments'[j + 1] = s
      BY <1>5, <1>6, <2>2 DEF Last
    <3>2. Last(Last(segments)) = path[next - 1] /\ next \in Cuts(path)
      BY <1>1, <3>1 DEF OrderInv, ApartInv
    <3>. QED  BY <1>4, <3>1, <3>2 DEF Gap, Cuts
  <2>. QED  BY <1>5, <1>6, <2>1, <2>2
<1>8. Last(segments') = s
  BY <1>6 DEF Last
<1>9. ApartInv'
  <2>1. Apart(segments')
    BY <1>7 DEF Apart
  <2>2. next' <= Len(path') + 1 /\ next' > 1
    BY <1>1, <1>2
  <2>3. Last(Last(segments')) = path'[next' - 1]
    BY <1>1, <1>4, <1>8
  <2>4. next' <= Len(path') => next' \in Cuts(path')
    BY <1>1, <1>2
  <2>. QED  BY <1>1, <2>1, <2>2, <2>3, <2>4 DEF ApartInv
<1>. QED  BY <1>1, <1>9 DEF OrderInv, MergedInv, WholeSegmentsStay, Merged

LEMMA EndSplitOrder ==
  SegmentInv /\ OrderInv /\ EndSplit => OrderInv'
<1> SUFFICES ASSUME SegmentInv, OrderInv, EndSplit  PROVE OrderInv'
  OBVIOUS
<1>1. /\ Apart(segments) /\ segments \in Seq(Seq(Int)) /\ merged = <<>>
      /\ stage' = "merging" /\ next' = 1 /\ split' = segments
      /\ segments' = segments /\ merged' = merged
  BY DEF SegmentInv, SomeInv, Unbroken, OrderInv, ApartInv, EndSplit, Enter
<1>2. Listed(merged', segments', next' - 1)
  BY <1>1, ListedNone
<1>3. WholeSegmentsStay'
  <2>1. Merged' => segments = <<>>
    <3>1. Len(segments) \in Nat
      BY <1>1
    <3>2. Merged' => Len(segments) = 0
      BY <1>1, <3>1 DEF Merged
    <3>. QED  BY <1>1, <3>2
  <2>. QED  BY <1>1, <2>1 DEF WholeSegmentsStay
<1>. QED  BY <1>1, <1>2, <1>3 DEF OrderInv, ApartInv, MergedInv

\* What a step of the merging loop starts from, and what it has to show.
LEMMA MergingStarts ==
  ASSUME SegmentInv, OrderInv, Merging
  PROVE  /\ segments \in Seq(Seq(Int)) /\ merged \in Seq(Seq(Int))
         /\ Len(segments) \in Nat /\ next \in 1..Len(segments)
         /\ Apart(segments) /\ split = segments /\ split' = split
         /\ Listed(merged, segments, next - 1)
         /\ stage = "merging" /\ stage' = "merging" /\ next' = next + 1
BY DEF SegmentInv, TypeInv, Unbroken, OrderInv, ApartInv, MergedInv, Merging

LEMMA MergingGoesOn ==
  ASSUME SegmentInv, OrderInv, Merging, segments' = segments, next < Len(segments),
         Listed(merged', segments, next)
  PROVE  OrderInv'
<1>1. /\ segments \in Seq(Seq(Int)) /\ merged \in Seq(Seq(Int))
      /\ Len(segments) \in Nat /\ next \in 1..Len(segments)
      /\ Apart(segments) /\ split = segments /\ split' = split
      /\ stage' = "merging" /\ next' = next + 1
  BY MergingStarts
<1>2. next' - 1 = next /\ ~Merged'
  BY <1>1 DEF Merged
<1>. QED  BY <1>1, <1>2 DEF OrderInv, ApartInv, MergedInv, WholeSegmentsStay

LEMMA MergingEnds ==
  ASSUME SegmentInv, OrderInv, Merging, segments' = segments, next = Len(segments),
         WholeSegmentsStay'
  PROVE  OrderInv'
<1>1. /\ Len(segments) \in Nat /\ next \in 1..Len(segments)
      /\ Apart(segments) /\ split = segments /\ split' = split
      /\ stage' = "merging" /\ next' = next + 1
  BY MergingStarts
<1>2. ~(next' <= Len(segments'))
  BY <1>1
<1>. QED  BY <1>1, <1>2 DEF OrderInv, ApartInv, MergedInv

LEMMA MergeForwardOrder ==
  SegmentInv /\ OrderInv /\ MergeForward => OrderInv'
<1> SUFFICES ASSUME SegmentInv, OrderInv, MergeForward  PROVE OrderInv'
  OBVIOUS
<1>0. /\ Merging /\ ~Keep(next) /\ next < Len(segments) /\ merged' = merged
      /\ segments' = IF MayMerge(segments[next], segments[next + 1])
                       THEN [segments EXCEPT ![next + 1] = segments[next] \o @]
                       ELSE segments
  BY DEF MergeForward
<1>1. /\ segments \in Seq(Seq(Int)) /\ merged \in Seq(Seq(Int))
      /\ Len(segments) \in Nat /\ next \in 1..Len(segments)
      /\ Apart(segments) /\ Listed(merged, segments, next - 1)
  BY <1>0, MergingStarts
<1>2. segments' = segments
  <2>1. Gap(segments[next], segments[next + 1]) > kMaxSegmentJump
    BY <1>0, <1>1 DEF Apart
  <2>2. Gap(segments[next], segments[next + 1]) \in Int
    <3>1. /\ segments[next] \in Seq(Int) /\ segments[next] # <<>>
          /\ segments[next + 1] \in Seq(Int) /\ segments[next + 1] # <<>>
      <4>1. next + 1 \in 1..Len(segments) /\ Unbroken(segments)
        BY <1>0, <1>1 DEF SegmentInv
      <4>. QED  BY <1>1, <4>1, UnbrokenElement
    <3>2. Last(segments[next]) \in Int /\ Head(segments[next + 1]) \in Int
      BY <3>1 DEF Last
    <3>. QED  BY <3>2 DEF Gap, Dist
  <2>3. ~MayMerge(segments[next], segments[next + 1])
    BY <2>1, <2>2 DEF MayMerge, kMaxSegmentJump
  <2>. QED  BY <1>0, <2>3
<1>3. next \notin Whole(segments)
  BY <1>0, <1>1 DEF Keep, Whole
<1>4. Listed(merged', segments, next)
  BY <1>0, <1>1, <1>3, ListedSkip
<1>. QED  BY <1>0, <1>2, <1>4, MergingGoesOn

LEMMA KeepOrder ==
  SegmentInv /\ OrderInv /\ KeepSegment => OrderInv'
<1> SUFFICES ASSUME SegmentInv, OrderInv, KeepSegment  PROVE OrderInv'
  OBVIOUS
<1> DEFINE S == Whole(segments)
           n == Len(segments)
<1>0. /\ Merging /\ Keep(next) /\ segments' = segments
      /\ merged' = Append(merged, segments[next])
  BY DEF KeepSegment
<1>1. /\ segments \in Seq(Seq(Int)) /\ merged \in Seq(Seq(Int))
      /\ n \in Nat /\ next \in 1..n
      /\ split = segments /\ split' = split /\ Listed(merged, segments, next - 1)
  BY <1>0, MergingStarts
<1>2. S \subseteq 1..n
  BY <1>1, WholeType
<1>3. CASE next < n
  <2>1. next \in S
    BY <1>0, <1>1, <1>3 DEF Keep, Whole
  <2>2. Listed(merged', segments, next)
    BY <1>0, <1>1, <2>1, ListedKeep
  <2>. QED  BY <1>0, <1>3, <2>2, MergingGoesOn
<1>4. CASE next = n /\ n \in S
  <2>1. Listed(merged', segments, n)
    BY <1>0, <1>1, <1>4, ListedKeep
  <2>2. ~IsDegenerate(Last(segments)) /\ S # {}
    BY <1>4 DEF Whole, Last
  <2>3. Rank(S, n) = Cardinality(S)
    BY <1>1, <1>2, RankBounds
  <2>4. \A k \in S : k <= n
    BY <1>1, <1>2
  <2>5. /\ Len(merged') = Cardinality(S)
        /\ \A k \in S : merged'[Rank(S, k)] = segments[k]
    BY <2>1, <2>3, <2>4 DEF Listed
  <2>6. split' = segments
    BY <1>1
  <2>7. WholeSegmentsStay'
    <3> HIDE DEF S
    <3>. QED  BY <2>2, <2>5, <2>6 DEF WholeSegmentsStay, S
  <2>. QED  BY <1>0, <1>4, <2>7, MergingEnds
<1>5. CASE next = n /\ n \notin S
  <2>1. merged = <<>>
    BY <1>0, <1>1, <1>5 DEF Keep, Whole
  <2>2. S = {}
    <3>1. Listed(merged, segments, n)
      BY <1>1, <1>5, ListedSkip
    <3>2. Rank(S, n) = 0
      BY <2>1, <3>1 DEF Listed
    <3>3. Cardinality(S) = 0
      BY <1>1, <1>2, <3>2, RankBounds
    <3>4. IsFiniteSet(S)
      <4>1. IsFiniteSet(1..n) /\ S \in SUBSET (1..n)
        BY <1>1, <1>2, FS_Interval
      <4>. QED  BY <4>1, FS_Subset
    <3>. QED  BY <3>3, <3>4, FS_EmptySet
  <2>3. merged' = <<segments[n]>>
    BY <1>0, <1>5, <2>1
  <2>4. merged' = <<Last(split')>>
    BY <1>1, <2>3 DEF Last
  <2>5. split' = segments
    BY <1>1
  <2>6. WholeSegmentsStay'
    BY <2>2, <2>4, <2>5 DEF WholeSegmentsStay
  <2>. QED  BY <1>0, <1>5, <2>6, MergingEnds
<1>6. next < n \/ (next = n /\ n \in S) \/ (next = n /\ n \notin S)
  BY <1>1
<1>. QED  BY <1>3, <1>4, <1>5, <1>6

LEMMA MergeBackOrder ==
  SegmentInv /\ OrderInv /\ MergeBack => OrderInv'
<1> SUFFICES ASSUME SegmentInv, OrderInv, MergeBack  PROVE OrderInv'
  OBVIOUS
<1> DEFINE S == Whole(segments)
           n == Len(segments)
           last == segments[n]
           Joins == Gap(Last(merged), last) <= kMaxSegmentJump
<1>0. /\ Merging /\ ~Keep(next) /\ next = n /\ segments' = segments
      /\ merged' = IF merged # <<>> /\ MayMerge(Last(merged), segments[next])
                     THEN [merged EXCEPT ![Len(merged)] = @ \o segments[next]]
                     ELSE merged
  BY DEF MergeBack
<1>1. /\ segments \in Seq(Seq(Int)) /\ merged \in Seq(Seq(Int))
      /\ n \in Nat /\ next \in 1..n
      /\ split = segments /\ split' = split /\ Listed(merged, segments, next - 1)
  BY <1>0, MergingStarts
<1>2. S \subseteq 1..n /\ n \notin S /\ merged # <<>> /\ IsDegenerate(last)
  BY <1>0, <1>1 DEF Keep, Whole
<1>3. Listed(merged, segments, n)
  BY <1>0, <1>1, <1>2, ListedSkip
<1>4. PICK m \in S : /\ \A k \in S : k <= m
                     /\ Rank(S, m) = Len(merged)
                     /\ Last(merged) = segments[m]
                     /\ \A k \in S : k # m => Rank(S, k) < Len(merged)
  BY <1>1, <1>2, <1>3, ListedLast
<1>5. S # {} /\ Len(merged) = Cardinality(S)
  BY <1>1, <1>2, <1>3, <1>4, RankBounds DEF Listed
<1>6. \A k \in S : merged[Rank(S, k)] = segments[k] /\ Rank(S, k) \in 1..Len(merged)
  <2>1. \A k \in S : k <= n
    BY <1>1, <1>2
  <2>2. \A k \in S : Rank(S, k) \in 1..Cardinality(S)
    BY <1>1, <1>2, RankBounds
  <2>. QED  BY <1>3, <1>5, <2>1, <2>2 DEF Listed
<1>7. merged' = IF Joins THEN [merged EXCEPT ![Len(merged)] = @ \o last] ELSE merged
  BY <1>0, <1>2 DEF MayMerge
<1>8. Last(split') = last /\ split' = segments
  BY <1>1 DEF Last
<1>9. /\ Len(merged') = Len(merged)
      /\ \A k \in S : merged'[Rank(S, k)] =
                        IF k = m /\ Joins THEN segments[k] \o last ELSE segments[k]
  <2>1. CASE ~Joins
    <3>1. merged' = merged
      BY <1>7, <2>1
    <3>. QED  BY <1>6, <2>1, <3>1
  <2>2. CASE Joins
    <3>1. merged' = [merged EXCEPT ![Len(merged)] = @ \o last]
      BY <1>7, <2>2
    <3> HIDE DEF Joins, last, S
    <3>2. Len(merged) \in 1..Len(merged) /\ merged[Len(merged)] = segments[m]
      BY <1>4, <1>6
    <3>3. /\ Len(merged') = Len(merged)
          /\ merged'[Len(merged)] = segments[m] \o last
          /\ \A j \in 1..Len(merged) : j # Len(merged) => merged'[j] = merged[j]
      <4> DEFINE joined == segments[m] \o last
      <4>1. joined \in Seq(Int)
        <5>1. m \in 1..n /\ n \in 1..n
          BY <1>1, <1>2
        <5>2. segments[m] \in Seq(Int) /\ segments[n] \in Seq(Int)
          BY <1>1, <5>1
        <5>. QED  BY <5>2 DEF last
      <4>2. merged' = [merged EXCEPT ![Len(merged)] = joined]
        BY <3>1, <3>2
      <4> HIDE DEF joined
      <4>3. /\ Len(merged') = Len(merged) /\ merged'[Len(merged)] = joined
            /\ \A j \in 1..Len(merged) : j # Len(merged) => merged'[j] = merged[j]
        BY <1>1, <3>2, <4>1, <4>2, ReplaceType
      <4>. QED  BY <4>3 DEF joined
    <3>4. ASSUME NEW k \in S, k # m  PROVE merged'[Rank(S, k)] = segments[k]
      <4>1. Rank(S, k) # Len(merged) /\ Rank(S, k) \in 1..Len(merged)
        <5>1. Rank(S, k) < Len(merged) /\ Rank(S, k) \in 1..Len(merged)
          BY <1>4, <1>6, <3>4
        <5>. QED  BY <5>1
      <4>. QED  BY <1>6, <3>3, <4>1
    <3>. QED  BY <1>4, <2>2, <3>3, <3>4
  <2>. QED  BY <2>1, <2>2
<1> HIDE DEF S, last, Joins
<1>10. ASSUME NEW k \in S
       PROVE  (k = m /\ Joins) = /\ \A j \in S : j <= k
                                 /\ IsDegenerate(last)
                                 /\ Gap(segments[k], last) <= kMaxSegmentJump
  <2>1. (\A j \in S : j <= k) <=> k = m
    <3>1. k <= m /\ k \in Int /\ m \in Int
      BY <1>1, <1>2, <1>4
    <3>. QED  BY <1>4, <3>1
  <2>2. k = m => (Joins <=> Gap(segments[k], last) <= kMaxSegmentJump)
    BY <1>4 DEF Joins
  <2>. QED  BY <1>2, <2>1, <2>2
<1>11. WholeSegmentsStay'
  BY <1>5, <1>8, <1>9, <1>10 DEF WholeSegmentsStay, S
<1>. QED  BY <1>0, <1>11, MergingEnds

LEMMA NextOrder ==
  SegmentInv /\ OrderInv /\ [Next]_vars => OrderInv'
<1> SUFFICES ASSUME SegmentInv, OrderInv, [Next]_vars  PROVE OrderInv'
  OBVIOUS
<1>1. CASE PlanSwath
  BY <1>1, OtherStages DEF PlanSwath
<1>2. CASE EndMerge
  BY <1>2, OtherStages DEF EndMerge, Enter
<1>3. CASE RemoveSpike
  BY <1>3, OtherStages DEF RemoveSpike
<1>4. CASE NextSegment
  BY <1>4, OtherStages DEF NextSegment
<1>5. CASE Finish
  BY <1>5, OtherStages DEF Finish
<1>6. CASE UNCHANGED vars
  BY <1>6 DEF vars, OrderInv, ApartInv, MergedInv, WholeSegmentsStay, Merged
<1>. QED
  BY <1>1, <1>2, <1>3, <1>4, <1>5, <1>6, RespondOrder, SplitOrder, EndSplitOrder,
     KeepOrder, MergeForwardOrder, MergeBackOrder DEF Next

LEMMA OrderInvAlways == Spec => []OrderInv
<1>1. Init => OrderInv
  BY DEF Init, OrderInv, ApartInv, MergedInv, WholeSegmentsStay, Merged
<1>. QED  BY <1>1, NextOrder, SegmentInvAlways, PTL DEF Spec

\* Splitting and merging lose no segment that is worth mowing, keep the order
\* of the others, and join at most one fragment to the last of them
\* (mission_manager_node.cpp:256-305).
THEOREM WholeSegmentsAreKept == Spec => []WholeSegmentsStay
<1>1. OrderInv => WholeSegmentsStay
  BY DEF OrderInv, MergedInv
<1>. QED  BY <1>1, OrderInvAlways, PTL

----------------------------------------------------------------------------
(* How long a segment is: the distance travelled up to each pose.          *)

Measures(f, s) ==
  /\ f \in [1..Len(s) -> Nat]
  /\ \A i \in 1..Len(s) : f[i] = IF i = 1 THEN 0 ELSE f[i - 1] + Dist(s[i - 1], s[i])

LEMMA LengthDef ==
  ASSUME NEW s \in Seq(Int), s # <<>>
  PROVE  \E f : Measures(f, s) /\ SegmentLength(s) = f[Len(s)]
<1> DEFINE N == Len(s)
           Eq(f) == f = [i \in 1..N |->
                           IF i = 1 THEN 0 ELSE f[i - 1] + Dist(s[i - 1], s[i])]
           total == CHOOSE f : Eq(f)
           Follow == [x \in (1..N) \X Nat |->
                        IF x[1] = 1 THEN 0 ELSE x[2] + Dist(s[x[1] - 1], s[x[1]])]
<1>0. N \in Nat \ {0}
  OBVIOUS
<1>1. ASSUME NEW i \in 1..N, i # 1  PROVE Dist(s[i - 1], s[i]) \in Nat
  <2>1. s[i - 1] \in Int /\ s[i] \in Int
    BY <1>1
  <2>. QED  BY <2>1, DistType
<1>2. Follow \in [(1..N) \X Nat -> Nat]
  <2> SUFFICES ASSUME NEW x \in (1..N) \X Nat
               PROVE  (IF x[1] = 1 THEN 0
                       ELSE x[2] + Dist(s[x[1] - 1], s[x[1]])) \in Nat
    OBVIOUS
  <2>1. x[1] \in 1..N /\ x[2] \in Nat
    OBVIOUS
  <2>. QED  BY <1>1, <2>1
<1>3. PICK f \in [1..N -> Nat] :
        \A i \in 1..N : f[i] = IF i = 1 THEN 0 ELSE Follow[<<i, f[i - 1]>>]
  <2>1. Follows(Follow, N, Nat)
    BY <1>2 DEF Follows
  <2>2. N \in Nat /\ 0 \in Nat
    BY <1>0
  <2> HIDE DEF Follow, N
  <2>3. \E f : Recurs(f, N, Nat, 0, Follow)
    BY <2>1, <2>2, Recursion
  <2>. QED  BY <2>3 DEF Recurs
<1>4. Eq(f)
  <2>1. ASSUME NEW i \in 1..N, i # 1
        PROVE  Follow[<<i, f[i - 1]>>] = f[i - 1] + Dist(s[i - 1], s[i])
    <3>1. i - 1 \in 1..N
      BY <2>1, <1>0
    <3>. QED  BY <3>1
  <2> HIDE DEF Follow, N
  <2>2. \A i \in 1..N : f[i] = IF i = 1 THEN 0 ELSE f[i - 1] + Dist(s[i - 1], s[i])
    BY <1>3, <2>1
  <2>. QED  BY <1>3, <2>2
<1>5. Eq(total)
  <2> HIDE DEF Eq
  <2>. QED  BY <1>4
<1>6. SegmentLength(s) = total[N]
  BY DEF SegmentLength
<1> HIDE DEF total
<1>7. total \in [1..N -> Nat]
  <2> DEFINE T == {i \in 1..N : total[i] \in Nat}
  <2>1. ASSUME NEW i \in 1..N, i = 1 \/ i - 1 \in T  PROVE i \in T
    <3>1. total[i] = IF i = 1 THEN 0 ELSE total[i - 1] + Dist(s[i - 1], s[i])
      <4> HIDE DEF N
      <4>. QED  BY <1>5
    <3>2. i # 1 => total[i - 1] \in Nat
      BY <2>1
    <3>. QED  BY <3>1, <3>2, <1>1
  <2>2. N \in Int
    BY <1>0
  <2>3. 1..N \subseteq T
    <3> HIDE DEF T, N
    <3>. QED  BY <2>2, <2>1, Induction
  <2>. QED  BY <2>3, <1>5
<1>8. Measures(total, s)
  BY <1>5, <1>7 DEF Measures
<1>. QED  BY <1>6, <1>8

LEMMA MeasuresStep ==
  ASSUME NEW s \in Seq(Int), NEW f, Measures(f, s)
  PROVE  /\ \A i \in 1..Len(s) : f[i] \in Nat
         /\ \A i \in 1..Len(s) : i = 1 => f[i] = 0
         /\ \A i \in 1..Len(s) : i # 1 =>
              /\ i - 1 \in 1..Len(s) /\ s[i - 1] \in Int /\ s[i] \in Int
              /\ f[i - 1] \in Nat /\ Dist(s[i - 1], s[i]) \in Nat
              /\ f[i] = f[i - 1] + Dist(s[i - 1], s[i])
<1>1. Len(s) \in Nat
  OBVIOUS
<1>2. \A i \in 1..Len(s) : f[i] \in Nat
  BY DEF Measures
<1>3. ASSUME NEW i \in 1..Len(s), i # 1
      PROVE  /\ i - 1 \in 1..Len(s) /\ s[i - 1] \in Int /\ s[i] \in Int
             /\ f[i - 1] \in Nat /\ Dist(s[i - 1], s[i]) \in Nat
             /\ f[i] = f[i - 1] + Dist(s[i - 1], s[i])
  <2>1. i - 1 \in 1..Len(s)
    BY <1>1, <1>3
  <2>2. s[i - 1] \in Int /\ s[i] \in Int
    BY <2>1
  <2>3. Dist(s[i - 1], s[i]) \in Nat
    BY <2>2, DistType
  <2>. QED  BY <1>2, <1>3, <2>1, <2>2, <2>3 DEF Measures
<1>. QED  BY <1>2, <1>3 DEF Measures

LEMMA Transitive ==
  ASSUME NEW a \in Int, NEW b \in Int, NEW c \in Int, NEW x \in Int, NEW y \in Int,
         a + x <= b, y <= x + c
  PROVE  a + y <= b + c
OBVIOUS

LEMMA Triangle ==
  ASSUME NEW a \in Int, NEW b \in Int, NEW c \in Int
  PROVE  Dist(a, c) <= Dist(a, b) + Dist(b, c)
BY DEF Dist

\* A run of a segment is no longer than the segment.
LEMMA RunIsShorter ==
  ASSUME NEW s \in Seq(Int), NEW t \in Seq(Int), t # <<>>,
         NEW at \in 0..(Len(s) - Len(t)), \A k \in 1..Len(t) : s[at + k] = t[k]
  PROVE  SegmentLength(t) <= SegmentLength(s) /\ SegmentLength(s) \in Nat
<1> DEFINE N == Len(s)
           M == Len(t)
<1>1. N \in Nat /\ M \in Nat \ {0} /\ at + M <= N /\ at \in Nat /\ s # <<>>
  <2>1. Len(s) \in Nat /\ Len(t) \in Nat \ {0}
    OBVIOUS
  <2>. QED  BY <2>1
<1>2. PICK f : Measures(f, s) /\ SegmentLength(s) = f[N]
  BY <1>1, LengthDef
<1>3. PICK g : Measures(g, t) /\ SegmentLength(t) = g[M]
  BY LengthDef
<1>4. /\ \A i \in 1..N : f[i] \in Nat
      /\ \A i \in 1..N : i # 1 => f[i] = f[i - 1] + Dist(s[i - 1], s[i])
                                  /\ Dist(s[i - 1], s[i]) \in Nat /\ f[i - 1] \in Nat
  BY <1>2, MeasuresStep
<1>5. /\ \A i \in 1..M : g[i] \in Nat /\ (i = 1 => g[i] = 0)
      /\ \A i \in 1..M : i # 1 => g[i] = g[i - 1] + Dist(t[i - 1], t[i])
                                  /\ i - 1 \in 1..M
  BY <1>3, MeasuresStep
<1>6. \A k \in 1..M : at + k \in 1..N
  BY <1>1
<1>7. \A k \in 1..M : g[k] <= f[at + k]
  <2> DEFINE T == {k \in 1..M : g[k] <= f[at + k]}
  <2>1. ASSUME NEW k \in 1..M, k = 1 \/ k - 1 \in T  PROVE k \in T
    <3>1. CASE k = 1
      BY <1>4, <1>5, <1>6, <3>1
    <3>2. CASE k # 1
      <4>1. k - 1 \in 1..M /\ g[k - 1] <= f[at + (k - 1)]
        BY <2>1, <3>2
      <4>2. at + k # 1 /\ at + k \in 1..N /\ at + (k - 1) \in 1..N
            /\ at + k - 1 = at + (k - 1)
        BY <1>1, <1>6, <3>2, <4>1
      <4>3. /\ f[at + k] = f[at + (k - 1)] + Dist(s[at + (k - 1)], s[at + k])
            /\ Dist(s[at + (k - 1)], s[at + k]) \in Nat
        BY <1>4, <4>2
      <4>4. s[at + (k - 1)] = t[k - 1] /\ s[at + k] = t[k]
        BY <4>1
      <4>5. g[k] = g[k - 1] + Dist(t[k - 1], t[k])
        BY <1>5, <3>2
      <4>6. g[k - 1] \in Nat /\ f[at + (k - 1)] \in Nat
        BY <1>4, <1>5, <4>1, <4>2
      <4>7. g[k] <= f[at + k]
        <5> DEFINE d == Dist(t[k - 1], t[k])
                   x == g[k - 1]
                   y == f[at + (k - 1)]
        <5>1. d \in Nat /\ f[at + k] = y + d /\ g[k] = x + d
          BY <4>3, <4>4, <4>5
        <5>2. x \in Nat /\ y \in Nat /\ x <= y
          BY <4>1, <4>6
        <5> HIDE DEF d, x, y
        <5>3. x + d <= y + d
          BY <5>1, <5>2
        <5>. QED  BY <5>1, <5>3
      <4>. QED  BY <4>7
    <3>. QED  BY <3>1, <3>2
  <2>2. M \in Int
    BY <1>1
  <2>3. 1..M \subseteq T
    <3> HIDE DEF T, M, N
    <3>. QED  BY <2>1, <2>2, Induction
  <2>. QED  BY <2>3
<1>8. \A k \in 1..N : at + M <= k => f[at + M] <= f[k]
  <2> DEFINE T == {k \in 1..N : at + M <= k => f[at + M] <= f[k]}
  <2>1. ASSUME NEW k \in 1..N, k = 1 \/ k - 1 \in T  PROVE k \in T
    <3>1. CASE at + M = k
      BY <1>4, <3>1
    <3>2. CASE at + M < k
      <4>1. k # 1 /\ at + M <= k - 1 /\ k - 1 \in 1..N
        BY <1>1, <3>2
      <4>2. f[at + M] <= f[k - 1]
        BY <2>1, <4>1
      <4>3. f[at + M] \in Nat
        BY <1>1, <1>4, <1>6
      <4>4. /\ f[k] = f[k - 1] + Dist(s[k - 1], s[k])
            /\ Dist(s[k - 1], s[k]) \in Nat /\ f[k - 1] \in Nat
        BY <1>4, <4>1
      <4>5. f[at + M] <= f[k]
        <5>1. \A x, y, z \in Nat : x <= y => x <= y + z
          OBVIOUS
        <5>. QED  BY <4>2, <4>3, <4>4, <5>1, Zenon
      <4>. QED  BY <4>5
    <3>. QED  BY <1>1, <3>1, <3>2
  <2>2. N \in Int
    BY <1>1
  <2>3. 1..N \subseteq T
    <3> HIDE DEF T, M, N
    <3>. QED  BY <2>1, <2>2, Induction
  <2>. QED  BY <2>3
<1>9. M \in 1..M /\ N \in 1..N
  BY <1>1
<1>10. g[M] <= f[at + M] /\ f[at + M] <= f[N]
  BY <1>1, <1>7, <1>8, <1>9
<1>11. g[M] \in Nat /\ f[at + M] \in Nat /\ f[N] \in Nat
  BY <1>1, <1>4, <1>5, <1>6, <1>9
<1>. QED  BY <1>2, <1>3, <1>10, <1>11

\* A segment is at least as long as its beginning and the way from where that
\* ends to where the segment ends.
LEMMA Detour ==
  ASSUME NEW s \in Seq(Int), NEW t \in Seq(Int), t # <<>>, Len(t) <= Len(s),
         \A k \in 1..Len(t) : s[k] = t[k]
  PROVE  SegmentLength(t) + Dist(Last(t), Last(s)) <= SegmentLength(s)
<1> DEFINE N == Len(s)
           M == Len(t)
           from == Last(t)
<1>1. N \in Nat /\ M \in Nat \ {0} /\ M <= N /\ s # <<>>
  <2>1. Len(s) \in Nat /\ Len(t) \in Nat \ {0}
    OBVIOUS
  <2>. QED  BY <2>1
<1>2. PICK f : Measures(f, s) /\ SegmentLength(s) = f[N]
  BY <1>1, LengthDef
<1>3. PICK g : Measures(g, t) /\ SegmentLength(t) = g[M]
  BY LengthDef
<1>4. /\ \A i \in 1..N : f[i] \in Nat /\ (i = 1 => f[i] = 0)
      /\ \A i \in 1..N : i # 1 => /\ f[i] = f[i - 1] + Dist(s[i - 1], s[i])
                                  /\ s[i - 1] \in Int /\ s[i] \in Int
                                  /\ Dist(s[i - 1], s[i]) \in Nat /\ f[i - 1] \in Nat
  BY <1>2, MeasuresStep
<1>5. /\ \A i \in 1..M : g[i] \in Nat /\ (i = 1 => g[i] = 0)
      /\ \A i \in 1..M : i # 1 => g[i] = g[i - 1] + Dist(t[i - 1], t[i])
                                  /\ i - 1 \in 1..M
  BY <1>3, MeasuresStep
<1>6. \A k \in 1..M : g[k] = f[k]
  <2> DEFINE T == {k \in 1..M : g[k] = f[k]}
  <2>1. ASSUME NEW k \in 1..M, k = 1 \/ k - 1 \in T  PROVE k \in T
    <3>1. k \in 1..N
      BY <1>1
    <3>2. CASE k = 1
      BY <1>4, <1>5, <3>1, <3>2
    <3>3. CASE k # 1
      <4>1. k - 1 \in 1..M /\ g[k - 1] = f[k - 1]
        BY <2>1, <3>3
      <4>2. s[k - 1] = t[k - 1] /\ s[k] = t[k]
        BY <4>1
      <4>3. f[k] = f[k - 1] + Dist(s[k - 1], s[k])
        BY <1>4, <3>1, <3>3
      <4>4. g[k] = g[k - 1] + Dist(t[k - 1], t[k])
        BY <1>5, <3>3
      <4>. QED  BY <4>1, <4>2, <4>3, <4>4
    <3>. QED  BY <3>2, <3>3
  <2>2. M \in Int
    BY <1>1
  <2>3. 1..M \subseteq T
    <3> HIDE DEF T, M, N
    <3>. QED  BY <2>1, <2>2, Induction
  <2>. QED  BY <2>3
<1>7. from = s[M] /\ from \in Int /\ Last(s) = s[N]
  BY <1>1 DEF Last
<1> HIDE DEF from
<1>8. \A k \in 1..N : M <= k => f[M] + Dist(from, s[k]) <= f[k]
  <2> DEFINE T == {k \in 1..N : M <= k => f[M] + Dist(from, s[k]) <= f[k]}
  <2>0. f[M] \in Nat
    BY <1>1, <1>4
  <2>1. ASSUME NEW k \in 1..N, k = 1 \/ k - 1 \in T  PROVE k \in T
    <3>1. CASE M = k
      <4>1. Dist(from, s[k]) = 0
        BY <1>7, <3>1, DistType
      <4>. QED  BY <2>0, <3>1, <4>1
    <3>2. CASE M < k
      <4>1. k # 1 /\ M <= k - 1 /\ k - 1 \in 1..N
        BY <1>1, <3>2
      <4>2. f[M] + Dist(from, s[k - 1]) <= f[k - 1]
        BY <2>1, <4>1
      <4>3. /\ f[k] = f[k - 1] + Dist(s[k - 1], s[k])
            /\ s[k - 1] \in Int /\ s[k] \in Int
            /\ Dist(s[k - 1], s[k]) \in Nat /\ f[k - 1] \in Nat
        BY <1>4, <4>1
      <4>4. Dist(from, s[k]) <= Dist(from, s[k - 1]) + Dist(s[k - 1], s[k])
        BY <1>7, <4>3, Triangle
      <4>5. Dist(from, s[k]) \in Nat /\ Dist(from, s[k - 1]) \in Nat
        BY <1>7, <4>3, DistType
      <4>6. f[M] + Dist(from, s[k]) <= f[k - 1] + Dist(s[k - 1], s[k])
        <5> HIDE DEF N, M
        <5>1. \A n \in Nat : n \in Int
          OBVIOUS
        <5>. QED  BY <2>0, <4>2, <4>3, <4>4, <4>5, <5>1, Transitive, Zenon
      <4>. QED  BY <4>3, <4>6
    <3>. QED  BY <1>1, <3>1, <3>2
  <2>2. N \in Int
    BY <1>1
  <2>3. 1..N \subseteq T
    <3> HIDE DEF T, M, N
    <3>. QED  BY <2>1, <2>2, Induction
  <2>. QED  BY <2>3
<1>9. f[M] + Dist(from, s[N]) <= f[N]
  <2>1. N \in 1..N /\ M <= N
    BY <1>1
  <2>. QED  BY <1>8, <2>1
<1>10. g[M] = f[M]
  BY <1>1, <1>6
<1>. QED  BY <1>2, <1>3, <1>7, <1>9, <1>10 DEF from

----------------------------------------------------------------------------
(* The poses of a swath are close together and no shorter than the swath.  *)

Dense(s) == \A i \in 2..Len(s) : Dist(s[i - 1], s[i]) <= kPoseSpacing

\* Between p and q, and on q, poses are at most kPoseSpacing apart.
LEMMA LegIsDense ==
  ASSUME NEW p \in Int, NEW q \in Int
  PROVE  /\ Append(Leg(p, q), q) \in Seq(Int)
         /\ Len(Append(Leg(p, q), q)) = Steps(p, q) + 1
         /\ Head(Append(Leg(p, q), q)) = p
         /\ Dense(Append(Leg(p, q), q))
<1> DEFINE n == Steps(p, q)
           d == q - p
           s == Append(Leg(p, q), q)
<1>1. n \in Nat \ {0} /\ d \in Int /\ -(5 * n) <= d /\ d <= 5 * n
  <2>1. n \in Nat \ {0} /\ Dist(p, q) <= 5 * n
    BY StepsType DEF kPoseSpacing
  <2>. QED  BY <2>1 DEF Dist
<1>2. /\ Leg(p, q) \in Seq(Int) /\ Len(Leg(p, q)) = n
      /\ \A k \in 1..n : Leg(p, q)[k] = p + (d * (k - 1)) \div n
  BY LegType
<1>3. /\ s \in Seq(Int) /\ Len(s) = n + 1
      /\ \A k \in 1..n : s[k] = Leg(p, q)[k]
      /\ s[n + 1] = q
  <2> HIDE DEF n
  <2>. QED  BY <1>1, <1>2
<1> HIDE DEF n, d, s
<1>4. p + (d * 0) \div n = p /\ p + (d * n) \div n = q
  <2>1. d * 0 = 0 /\ 0 \div n = 0
    BY <1>1
  <2>2. (d * n) \div n = d
    BY <1>1
  <2>. QED  BY <2>1, <2>2 DEF d
<1>5. \A k \in 1..(n + 1) : s[k] = p + (d * (k - 1)) \div n
  <2>1. ASSUME NEW k \in 1..(n + 1), k # n + 1  PROVE s[k] = p + (d * (k - 1)) \div n
    <3>1. k \in 1..n
      BY <1>1, <2>1
    <3>. QED  BY <1>2, <1>3, <3>1
  <2>2. (n + 1) - 1 = n
    BY <1>1
  <2>. QED  BY <1>3, <1>4, <2>1, <2>2
<1>6. ASSUME NEW i \in 2..(n + 1)  PROVE Dist(s[i - 1], s[i]) <= kPoseSpacing
  <2> DEFINE a == d * (i - 2)
             u == a \div n
             v == (a + d) \div n
  <2>1. a \in Int /\ d * (i - 1) = a + d /\ i - 1 \in 1..(n + 1) /\ (i - 1) - 1 = i - 2
    BY <1>1
  <2>2. s[i - 1] = p + u /\ s[i] = p + v
    <3>1. i \in 1..(n + 1)
      BY <1>1
    <3>. QED  BY <1>5, <2>1, <3>1
  <2> HIDE DEF a
  <2>3. u \in Int /\ n * u <= a /\ a < n * u + n
    BY <1>1, <2>1
  <2>4. v \in Int /\ n * v <= a + d /\ a + d < n * v + n
    BY <1>1, <2>1
  <2> HIDE DEF u, v
  <2>5. n * v - n * u < 6 * n /\ n * u - n * v < 6 * n
    BY <1>1, <2>1, <2>3, <2>4
  <2>6. v - u < 6 /\ u - v < 6
    <3>1. n * (v - u) < n * 6 /\ n * (u - v) < n * 6
      BY <1>1, <2>3, <2>4, <2>5
    <3>2. \A x \in Int : n * x < n * 6 => x < 6
      BY <1>1
    <3>. QED  BY <2>3, <2>4, <3>1, <3>2
  <2>. QED  BY <2>2, <2>3, <2>4, <2>6 DEF Dist, kPoseSpacing
<1>7. Head(s) = p
  <2>1. 1 \in 1..(n + 1) /\ 1 - 1 = 0 /\ Head(s) = s[1]
    BY <1>1, <1>3
  <2>. QED  BY <1>4, <1>5, <2>1
<1>8. Dense(s)
  BY <1>3, <1>6 DEF Dense
<1>. QED  BY <1>3, <1>7, <1>8 DEF s, n

\* Poses that make up for a way of length x.
Covers(s, x) == s \in Seq(Int) /\ Dense(s) /\ x <= SegmentLength(s)

LEMMA LengthType ==
  ASSUME NEW s \in Seq(Int)
  PROVE  SegmentLength(s) \in Nat
<1>1. CASE s = <<>>
  BY <1>1 DEF SegmentLength
<1>2. CASE s # <<>>
  <2>1. 0 \in 0..(Len(s) - Len(s)) /\ \A k \in 1..Len(s) : s[0 + k] = s[k]
    OBVIOUS
  <2>. QED  BY <1>2, <2>1, RunIsShorter
<1>. QED  BY <1>1, <1>2

LEMMA DenseJoin ==
  ASSUME NEW s \in Seq(Int), NEW t \in Seq(Int), t # <<>>,
         Dense(Append(s, Head(t))), Dense(t)
  PROVE  Dense(s \o t)
<1> DEFINE n == Len(s)
           m == Len(t)
           u == s \o t
           v == Append(s, Head(t))
<1>1. n \in Nat /\ m \in Nat \ {0} /\ Head(t) = t[1] /\ Head(t) \in Int
  <2>1. m \in Nat /\ m # 0
    OBVIOUS
  <2>. QED  BY <2>1
<1>2. /\ Len(u) = n + m /\ \A i \in 1..n : u[i] = s[i]
      /\ \A i \in 1..m : u[n + i] = t[i]
  OBVIOUS
<1>3. /\ Len(v) = n + 1 /\ v[n + 1] = t[1]
      /\ \A i \in 1..n : v[i] = s[i]
  BY <1>1
<1>4. /\ \A i \in 2..(n + 1) : Dist(v[i - 1], v[i]) <= kPoseSpacing
      /\ \A i \in 2..m : Dist(t[i - 1], t[i]) <= kPoseSpacing
  BY <1>3 DEF Dense
<1> HIDE DEF n, m, u, v
<1>5. \A i \in 1..(n + 1) : u[i] = v[i]
  <2>1. ASSUME NEW i \in 1..(n + 1), i # n + 1  PROVE u[i] = v[i]
    <3>1. i \in 1..n
      BY <1>1, <2>1
    <3>. QED  BY <1>2, <1>3, <3>1
  <2>2. u[n + 1] = v[n + 1]
    BY <1>1, <1>2, <1>3
  <2>. QED  BY <2>1, <2>2
<1>6. ASSUME NEW i \in 2..(n + m)  PROVE Dist(u[i - 1], u[i]) <= kPoseSpacing
  <2>1. CASE i <= n + 1
    <3>1. i \in 2..(n + 1) /\ i \in 1..(n + 1) /\ i - 1 \in 1..(n + 1)
      BY <1>1, <2>1
    <3>. QED  BY <1>4, <1>5, <3>1
  <2>2. CASE i > n + 1
    <3> DEFINE k == i - n
    <3>1. k \in 2..m /\ k \in 1..m /\ k - 1 \in 1..m /\ i = n + k /\ i - 1 = n + (k - 1)
      BY <1>1, <2>2
    <3>2. u[i] = t[k] /\ u[i - 1] = t[k - 1]
      BY <1>2, <3>1
    <3>. QED  BY <1>4, <3>1, <3>2
  <2>. QED  BY <1>1, <2>1, <2>2
<1>. QED  BY <1>2, <1>6 DEF Dense, u

LEMMA LegCovers ==
  ASSUME NEW s \in Seq(Int), NEW p \in Int, NEW q \in Int, NEW x \in Nat,
         Covers(Append(s, p), x)
  PROVE  Covers(Append(s \o Leg(p, q), q), x + Dist(p, q))
<1> DEFINE t == Append(Leg(p, q), q)
           u == s \o t
           v == Append(s, p)
<1>1. /\ t \in Seq(Int) /\ Len(t) = Steps(p, q) + 1 /\ Head(t) = p /\ Dense(t)
      /\ Steps(p, q) \in Nat \ {0} /\ t # <<>>
  <2>1. Len(t) = Steps(p, q) + 1 /\ Steps(p, q) \in Nat \ {0} /\ t \in Seq(Int)
    BY LegIsDense, StepsType
  <2>2. Len(t) # 0
    BY <2>1
  <2>3. t # <<>>
    BY <2>2
  <2>. QED  BY <2>1, <2>3, LegIsDense
<1>2. Append(s \o Leg(p, q), q) = u
  <2> DEFINE l == Leg(p, q)
  <2>1. l \in Seq(Int)
    BY LegType
  <2> HIDE DEF l
  <2>2. /\ Append(s \o l, q) = (s \o l) \o <<q>>
        /\ Append(l, q) = l \o <<q>>
        /\ (s \o l) \o <<q>> = s \o (l \o <<q>>)
    <3>1. s \o l \in Seq(Int) /\ <<q>> \in Seq(Int)
      BY <2>1
    <3>2. Append(s \o l, q) = (s \o l) \o <<q>>
      BY <3>1, AppendIsConcat, Zenon
    <3>3. Append(l, q) = l \o <<q>>
      BY <2>1, AppendIsConcat, Zenon
    <3>4. (s \o l) \o <<q>> = s \o (l \o <<q>>)
      BY <2>1, <3>1, ConcatAssociative
    <3>. QED  BY <3>2, <3>3, <3>4
  <2>. QED  BY <2>2 DEF l
<1>3. Last(t) = q
  <2>1. Leg(p, q) \in Seq(Int)
    BY LegType
  <2>. QED  BY <2>1 DEF Last
<1> HIDE DEF t
<1>4. u \in Seq(Int) /\ Dense(u)
  <2>1. Dense(Append(s, Head(t)))
    BY <1>1 DEF Covers
  <2>. QED  BY <1>1, <2>1, DenseJoin
<1>5. v \in Seq(Int) /\ v # <<>> /\ Len(v) <= Len(u) /\ Last(v) = p
      /\ Len(v) = Len(s) + 1
  <2>1. Len(t) \in Nat \ {0} /\ Len(s) \in Nat
    BY <1>1
  <2>2. Len(v) = Len(s) + 1 /\ Len(u) = Len(s) + Len(t) /\ v[Len(s) + 1] = p
    BY <1>1
  <2>. QED  BY <2>1, <2>2 DEF Last
<1>6. \A k \in 1..Len(v) : u[k] = v[k]
  <2>1. ASSUME NEW k \in 1..Len(v), k # Len(s) + 1  PROVE u[k] = v[k]
    <3>1. k \in 1..Len(s)
      BY <1>5, <2>1
    <3>. QED  BY <1>1, <3>1
  <2>2. u[Len(s) + 1] = v[Len(s) + 1]
    <3>1. Head(t) = t[1] /\ 1 \in 1..Len(t)
      BY <1>1
    <3>2. u[Len(s) + 1] = t[1]
      BY <1>1, <3>1
    <3>. QED  BY <1>1, <3>1, <3>2
  <2>. QED  BY <2>1, <2>2
<1>7. Last(u) = q
  <2>1. Len(t) \in Nat \ {0} /\ Len(s) \in Nat /\ Last(t) = t[Len(t)]
    BY <1>1 DEF Last
  <2>2. Len(u) = Len(s) + Len(t) /\ u[Len(s) + Len(t)] = t[Len(t)]
    BY <1>1, <2>1
  <2>. QED  BY <1>3, <2>1, <2>2 DEF Last
<1>8. SegmentLength(v) + Dist(p, q) <= SegmentLength(u)
  <2> HIDE DEF u, v
  <2>. QED  BY <1>4, <1>5, <1>6, <1>7, Detour
<1>9. x <= SegmentLength(v)
  BY DEF Covers
<1>10. SegmentLength(v) \in Nat /\ SegmentLength(u) \in Nat /\ Dist(p, q) \in Nat
  BY <1>4, <1>5, LengthType, DistType
<1> HIDE DEF u, v
<1>11. x + Dist(p, q) <= SegmentLength(u)
  BY <1>8, <1>9, <1>10
<1>. QED  BY <1>2, <1>4, <1>11 DEF Covers

LEMMA SwathIsCovered ==
  ASSUME NEW swath \in Seq(Int), swath # <<>>
  PROVE  Covers(SwathPoses(swath), SegmentLength(swath))
<1> DEFINE N == Len(swath)
<1>1. N \in Nat \ {0}
  OBVIOUS
<1>2. PICK legs \in [1..N -> Seq(Int)] :
        /\ \A j \in 1..N : legs[j] = IF j = 1 THEN <<>>
                                     ELSE legs[j - 1] \o Leg(swath[j - 1], swath[j])
        /\ SwathPoses(swath) = Append(legs[N], Last(swath))
  BY SwathPosesDef
<1>3. PICK f : Measures(f, swath) /\ SegmentLength(swath) = f[N]
  BY LengthDef
<1>4. /\ \A i \in 1..N : f[i] \in Nat /\ (i = 1 => f[i] = 0)
      /\ \A i \in 1..N : i # 1 => /\ f[i] = f[i - 1] + Dist(swath[i - 1], swath[i])
                                  /\ swath[i - 1] \in Int /\ swath[i] \in Int
                                  /\ i - 1 \in 1..N
  BY <1>3, MeasuresStep
<1> DEFINE T == {j \in 1..N : Covers(Append(legs[j], swath[j]), f[j])}
<1>5. ASSUME NEW j \in 1..N, j = 1 \/ j - 1 \in T  PROVE j \in T
  <2>1. CASE j = 1
    <3> DEFINE s == Append(<<>>, swath[1])
    <3>1. 1 \in 1..N /\ swath[1] \in Int
      BY <1>1
    <3>2. legs[1] = <<>> /\ f[1] = 0
      BY <1>2, <1>4, <3>1
    <3>3. s \in Seq(Int) /\ Len(s) = 1
      BY <3>1
    <3>4. Dense(s)
      BY <3>3 DEF Dense
    <3>5. 0 <= SegmentLength(s)
      <4> HIDE DEF s
      <4>1. SegmentLength(s) \in Nat
        BY <3>3, LengthType
      <4>. QED  BY <4>1
    <3>6. Covers(s, 0)
      BY <3>3, <3>4, <3>5 DEF Covers
    <3>7. Covers(Append(legs[j], swath[j]), f[j])
      BY <2>1, <3>2, <3>6
    <3>. QED  BY <3>7
  <2>2. CASE j # 1
    <3>1. /\ j - 1 \in 1..N /\ legs[j - 1] \in Seq(Int)
          /\ swath[j - 1] \in Int /\ swath[j] \in Int /\ f[j - 1] \in Nat
      BY <1>2, <1>4, <2>2
    <3>2. Covers(Append(legs[j - 1], swath[j - 1]), f[j - 1])
      BY <1>5, <2>2
    <3>3. Covers(Append(legs[j - 1] \o Leg(swath[j - 1], swath[j]), swath[j]),
                 f[j - 1] + Dist(swath[j - 1], swath[j]))
      BY <3>1, <3>2, LegCovers
    <3>4. /\ legs[j] = legs[j - 1] \o Leg(swath[j - 1], swath[j])
          /\ f[j] = f[j - 1] + Dist(swath[j - 1], swath[j])
      BY <1>2, <1>4, <2>2
    <3>. QED  BY <3>3, <3>4
  <2>. QED  BY <2>1, <2>2
<1>6. 1..N \subseteq T
  <2>1. N \in Int
    BY <1>1
  <2> HIDE DEF T, N
  <2>. QED  BY <1>5, <2>1, Induction
<1>7. N \in T
  BY <1>1, <1>6
<1>8. Last(swath) = swath[N]
  BY DEF Last
<1>. QED  BY <1>2, <1>3, <1>7, <1>8

\* What is dense and longer than the spacing is neither cut nor a fragment.
LEMMA CoveredIsWhole ==
  ASSUME NEW s \in Seq(Int), Dense(s), SegmentLength(s) > kPoseSpacing
  PROVE  s # <<>> /\ Cuts(s) = {} /\ Len(s) >= kMinSegmentPoses
<1>1. s # <<>>
  BY DEF SegmentLength, kPoseSpacing
<1>2. PICK f : Measures(f, s) /\ SegmentLength(s) = f[Len(s)]
  BY <1>1, LengthDef
<1>3. /\ \A i \in 1..Len(s) : i = 1 => f[i] = 0
      /\ \A i \in 1..Len(s) : i # 1 => f[i] = f[i - 1] + Dist(s[i - 1], s[i])
                                       /\ Dist(s[i - 1], s[i]) \in Nat
  BY <1>2, MeasuresStep
<1>4. Len(s) \in Nat \ {0}
  BY <1>1
<1>5. Len(s) # 1
  BY <1>2, <1>3 DEF kPoseSpacing
<1>6. Len(s) # 2
  <2>1. SUFFICES ASSUME Len(s) = 2  PROVE FALSE
    OBVIOUS
  <2>2. 1 \in 1..Len(s) /\ 2 \in 1..Len(s) /\ 2 \in 2..Len(s) /\ 2 - 1 = 1
    BY <2>1
  <2>3. f[2] = Dist(s[1], s[2]) /\ Dist(s[1], s[2]) <= kPoseSpacing
    BY <1>3, <2>2 DEF Dense
  <2>4. f[2] \in Nat
    BY <1>3, <2>2, <2>3
  <2>. QED  BY <1>2, <2>1, <2>3, <2>4 DEF kPoseSpacing
<1>7. Cuts(s) = {}
  <2>1. ASSUME NEW i \in 2..Len(s)  PROVE Dist(s[i - 1], s[i]) <= kMaxSegmentJump
    <3>1. Dist(s[i - 1], s[i]) <= kPoseSpacing /\ Dist(s[i - 1], s[i]) \in Nat
      BY <1>3, <1>4 DEF Dense
    <3>. QED  BY <3>1 DEF kPoseSpacing, kMaxSegmentJump
  <2>. QED  BY <2>1, CutsOf
<1>8. Len(s) >= kMinSegmentPoses
  <2> DEFINE n == Len(s)
  <2>1. n \in Nat /\ n # 0 /\ n # 1 /\ n # 2
    BY <1>4, <1>5, <1>6
  <2> HIDE DEF n
  <2>2. n >= 3
    BY <2>1
  <2>. QED  BY <2>2 DEF n, kMinSegmentPoses
<1>. QED  BY <1>1, <1>7, <1>8

----------------------------------------------------------------------------
(* The way of a swath that is mown: into the path, in one piece into a     *)
(* segment, and through the merging.                                       *)

Mown == {i \in 1..Len(swaths) : SegmentLength(swaths[i]) > kPoseSpacing}
Poses(i) == SwathPoses(swaths[i])
RunsFrom(at, t, s) == at \in 0..(Len(s) - Len(t)) /\ \A k \in 1..Len(t) : s[at + k] = t[k]
Somewhere(t, list) == \E j \in 1..Len(list) : Occurs(t, list[j])

WayInv ==
  /\ stage = "planning" =>
       \A i \in 1..Len(swaths) : i < next => Occurs(Poses(i), path)
  /\ stage = "splitting" =>
       \A i \in Mown :
         /\ Occurs(Poses(i), path)
         /\ \A at \in Nat : RunsFrom(at, Poses(i), path) /\ at + Len(Poses(i)) < next =>
                              Somewhere(Poses(i), segments)
  /\ stage = "merging" => \A i \in Mown : Somewhere(Poses(i), split)

LEMMA OccursLeft ==
  ASSUME NEW t \in Seq(Int), NEW s \in Seq(Int), NEW u \in Seq(Int), Occurs(t, s)
  PROVE  Occurs(t, s \o u)
<1>1. PICK at \in 0..(Len(s) - Len(t)) : \A k \in 1..Len(t) : s[at + k] = t[k]
  BY DEF Occurs
<1>2. /\ Len(s) \in Nat /\ Len(t) \in Nat /\ Len(u) \in Nat
      /\ Len(s \o u) = Len(s) + Len(u) /\ \A k \in 1..Len(s) : (s \o u)[k] = s[k]
  OBVIOUS
<1>3. at \in 0..(Len(s \o u) - Len(t)) /\ \A k \in 1..Len(t) : at + k \in 1..Len(s)
  BY <1>1, <1>2
<1>4. \A k \in 1..Len(t) : (s \o u)[at + k] = t[k]
  BY <1>1, <1>2, <1>3
<1>. QED  BY <1>3, <1>4 DEF Occurs

LEMMA OccursRight ==
  ASSUME NEW t \in Seq(Int), NEW s \in Seq(Int)
  PROVE  Occurs(t, s \o t)
<1>1. /\ Len(s) \in Nat /\ Len(t) \in Nat /\ Len(s \o t) = Len(s) + Len(t)
      /\ \A k \in 1..Len(t) : (s \o t)[Len(s) + k] = t[k]
  OBVIOUS
<1>2. Len(s) \in 0..(Len(s \o t) - Len(t))
  BY <1>1
<1>. QED  BY <1>1, <1>2 DEF Occurs

\* A run that does not jump is not cut in two.
LEMMA RunInPiece ==
  ASSUME NEW p \in Seq(Int), NEW from \in 1..Len(p), from = 1 \/ from \in Cuts(p),
         NEW end, end = NextCut(p, from),
         NEW t \in Seq(Int), t # <<>>, Cuts(t) = {},
         NEW at \in Nat, RunsFrom(at, t, p),
         from <= at + Len(t), at + Len(t) < end
  PROVE  Occurs(t, SubSeq(p, from, end - 1))
<1> DEFINE s == SubSeq(p, from, end - 1)
           m == Len(t)
           off == at + 1 - from
<1>1. /\ end \in (from + 1)..(Len(p) + 1) /\ Len(s) = end - from
      /\ \A k \in 1..(end - from) : s[k] = p[from + k - 1]
  <2>1. end \in (from + 1)..(Len(p) + 1)
    BY NextCutType
  <2> DEFINE c == NextCut(p, from)
  <2>2. /\ Len(SubSeq(p, from, c - 1)) = c - from
        /\ \A k \in 1..(c - from) : SubSeq(p, from, c - 1)[k] = p[from + k - 1]
    BY PieceType
  <2> HIDE DEF c
  <2>3. end = c
    BY DEF c
  <2>. QED  BY <2>1, <2>2, <2>3
<1>2. m \in Nat \ {0} /\ \A k \in 1..m : p[at + k] = t[k]
  <2>1. m \in Nat /\ m # 0
    OBVIOUS
  <2>. QED  BY <2>1 DEF RunsFrom
<1> HIDE DEF s, m
<1>3. from <= at + 1
  <2>1. SUFFICES ASSUME at + 1 < from  PROVE FALSE
    BY <1>2
  <2> DEFINE k == from - at
  <2>2. k \in 2..m /\ k \in 1..m /\ k - 1 \in 1..m
        /\ at + k = from /\ at + (k - 1) = from - 1 /\ from # 1
    BY <1>2, <2>1 DEF m
  <2>3. t[k] = p[from] /\ t[k - 1] = p[from - 1]
    BY <1>2, <2>2
  <2>4. Dist(p[from - 1], p[from]) > kMaxSegmentJump
    BY <2>2 DEF Cuts
  <2>5. k \in Cuts(t)
    BY <2>2, <2>3, <2>4 DEF Cuts, m
  <2>. QED  BY <2>5
<1>4. off \in 0..(Len(s) - m)
  BY <1>1, <1>2, <1>3 DEF m
<1>5. \A k \in 1..m : s[off + k] = t[k]
  <2> TAKE k \in 1..m
  <2>1. off + k \in 1..(end - from) /\ from + (off + k) - 1 = at + k
    <3>1. end - from \in Int /\ from \in Int /\ off \in 0..(end - from - m)
      BY <1>1, <1>4
    <3>. QED  BY <1>2, <3>1
  <2>2. s[off + k] = p[from + (off + k) - 1]
    BY <1>1, <2>1
  <2>. QED  BY <1>2, <2>1, <2>2
<1>. QED  BY <1>4, <1>5 DEF Occurs, s, m

LEMMA MownPoses ==
  ASSUME TypeInv, NEW i \in Mown
  PROVE  /\ Poses(i) \in Seq(Int) /\ Poses(i) # <<>> /\ Cuts(Poses(i)) = {}
         /\ Len(Poses(i)) \in Nat \ {0} /\ Len(Poses(i)) >= kMinSegmentPoses
         /\ SegmentLength(Poses(i)) > kPoseSpacing
<1>1. swaths[i] \in Seq(Int) /\ SegmentLength(swaths[i]) > kPoseSpacing
  <2> DEFINE V == Seq(Int)
  <2>1. swaths \in Seq(V) /\ i \in 1..Len(swaths)
    BY DEF TypeInv, Mown
  <2>2. swaths[i] \in V
    <3> HIDE DEF V
    <3>. QED  BY <2>1
  <2>. QED  BY <2>2 DEF Mown
<1>2. swaths[i] # <<>>
  BY <1>1 DEF SegmentLength, kPoseSpacing
<1>3. Covers(Poses(i), SegmentLength(swaths[i]))
  BY <1>1, <1>2, SwathIsCovered DEF Poses
<1>4. /\ Poses(i) \in Seq(Int) /\ Dense(Poses(i))
      /\ SegmentLength(swaths[i]) <= SegmentLength(Poses(i))
  BY <1>3 DEF Covers
<1>5. SegmentLength(swaths[i]) \in Nat /\ SegmentLength(Poses(i)) \in Nat
  BY <1>1, <1>4, LengthType
<1>6. SegmentLength(Poses(i)) > kPoseSpacing
  BY <1>1, <1>4, <1>5 DEF kPoseSpacing
<1>7. Poses(i) # <<>> /\ Cuts(Poses(i)) = {} /\ Len(Poses(i)) >= kMinSegmentPoses
  BY <1>4, <1>6, CoveredIsWhole
<1>8. Len(Poses(i)) \in Nat \ {0}
  BY <1>4, <1>7
<1>. QED  BY <1>4, <1>6, <1>7, <1>8

LEMMA PlanWay ==
  SegmentInv /\ WayInv /\ PlanSwath => WayInv'
<1> SUFFICES ASSUME SegmentInv, WayInv, PlanSwath  PROVE WayInv'
  OBVIOUS
<1>1. /\ swaths \in Seq(Seq(Int)) /\ path \in Seq(Int) /\ next \in 1..Len(swaths)
      /\ path' = path \o Poses(next) /\ next' = next + 1 /\ swaths' = swaths
      /\ stage = "planning" /\ stage' = "planning"
  BY DEF SegmentInv, TypeInv, PlanSwath, Poses
<1>2. \A i \in 1..Len(swaths) : Poses(i) \in Seq(Int)
  <2> DEFINE V == Seq(Int)
  <2>1. \A i \in 1..Len(swaths) : swaths[i] \in V
    <3>1. swaths \in Seq(V)
      BY <1>1
    <3> HIDE DEF V
    <3>. QED  BY <3>1
  <2>. QED  BY <2>1, SwathPosesType DEF Poses
<1>3. ASSUME NEW i \in 1..Len(swaths), i < next + 1  PROVE Occurs(Poses(i), path')
  <2>1. CASE i < next
    <3>1. Occurs(Poses(i), path)
      BY <1>1, <2>1 DEF WayInv
    <3>. QED  BY <1>1, <1>2, <3>1, OccursLeft
  <2>2. CASE i = next
    BY <1>1, <1>2, <2>2, OccursRight
  <2>. QED  BY <1>1, <1>3, <2>1, <2>2
<1>4. \A i \in 1..Len(swaths') : i < next' => Occurs(Poses(i)', path')
  BY <1>1, <1>3 DEF Poses
<1>. QED  BY <1>1, <1>4 DEF WayInv

LEMMA RespondWay ==
  SegmentInv /\ WayInv /\ Respond => WayInv'
<1> SUFFICES ASSUME SegmentInv, WayInv, Respond  PROVE WayInv'
  OBVIOUS
<1>1. /\ TypeInv /\ next > Len(swaths) /\ path' = path /\ swaths' = swaths /\ next' = 1
      /\ stage = "planning" /\ stage' = "splitting" /\ next \in Nat
  BY DEF SegmentInv, TypeInv, Respond, Enter
<1>2. ASSUME NEW i \in Mown
      PROVE  /\ Occurs(Poses(i), path)
             /\ \A at \in Nat : ~(at + Len(Poses(i)) < 1)
  <2>1. i \in 1..Len(swaths) /\ i < next
    <3>1. swaths \in Seq(Seq(Int)) /\ Len(swaths) \in Nat
      BY <1>1 DEF TypeInv
    <3>. QED  BY <1>1, <3>1 DEF Mown
  <2>2. Len(Poses(i)) \in Nat \ {0}
    BY <1>1, MownPoses
  <2>. QED  BY <1>1, <2>1, <2>2 DEF WayInv
<1>. QED  BY <1>1, <1>2 DEF WayInv, Mown, Poses

LEMMA SplitWay ==
  SegmentInv /\ OrderInv /\ WayInv /\ SplitOff => WayInv'
<1> SUFFICES ASSUME SegmentInv, OrderInv, WayInv, SplitOff  PROVE WayInv'
  OBVIOUS
<1> DEFINE c == NextCut(path, next)
           s == SubSeq(path, next, c - 1)
           n == Len(segments)
           V == Seq(Int)
<1>1. /\ TypeInv /\ path \in Seq(Int) /\ next \in 1..Len(path)
      /\ segments \in Seq(V) /\ n \in Nat
      /\ next' = c /\ segments' = Append(segments, s) /\ path' = path /\ swaths' = swaths
      /\ stage = "splitting" /\ stage' = "splitting"
  BY DEF SegmentInv, Unbroken, TypeInv, SplitOff
<1>2. next = 1 \/ next \in Cuts(path)
  BY <1>1 DEF SegmentInv, SomeInv, OrderInv, ApartInv
<1>3. /\ Len(segments') = n + 1 /\ segments'[n + 1] = s
      /\ \A j \in 1..n : segments'[j] = segments[j]
  <2>1. s \in V
    BY <1>1, PieceType
  <2> HIDE DEF V, s
  <2>. QED  BY <1>1, <2>1, AppendType
<1>4. c \in (next + 1)..(Len(path) + 1)
  BY <1>1, NextCutType
<1>5. ASSUME NEW i \in Mown, NEW at \in Nat, RunsFrom(at, Poses(i), path),
             at + Len(Poses(i)) < c
      PROVE  Somewhere(Poses(i), segments')
  <2>1. /\ Poses(i) \in Seq(Int) /\ Poses(i) # <<>> /\ Cuts(Poses(i)) = {}
        /\ Len(Poses(i)) \in Nat
    BY <1>1, MownPoses
  <2>2. CASE at + Len(Poses(i)) < next
    <3>1. PICK j \in 1..n : Occurs(Poses(i), segments[j])
      BY <1>1, <1>5, <2>2 DEF WayInv, Somewhere
    <3>2. j \in 1..Len(segments') /\ segments'[j] = segments[j]
      BY <1>1, <1>3
    <3>. QED  BY <3>1, <3>2 DEF Somewhere
  <2>3. CASE ~(at + Len(Poses(i)) < next)
    <3>1. next <= at + Len(Poses(i))
      BY <1>1, <2>1, <2>3
    <3>2. Occurs(Poses(i), s)
      <4> HIDE DEF s
      <4>1. Occurs(Poses(i), SubSeq(path, next, c - 1))
        BY <1>1, <1>2, <1>5, <2>1, <3>1, RunInPiece
      <4>. QED  BY <4>1 DEF s
    <3>3. n + 1 \in 1..Len(segments')
      BY <1>1, <1>3
    <3>. QED  BY <1>3, <3>2, <3>3 DEF Somewhere
  <2>. QED  BY <2>2, <2>3
<1> HIDE DEF c, s, n, V
<1>6. \A i \in Mown : Occurs(Poses(i), path)
  BY <1>1 DEF WayInv
<1>7. Mown' = Mown /\ \A i \in Mown : Poses(i)' = Poses(i)
  BY <1>1 DEF Mown, Poses
<1>. QED  BY <1>1, <1>5, <1>6, <1>7 DEF WayInv

LEMMA EndSplitWay ==
  SegmentInv /\ WayInv /\ EndSplit => WayInv'
<1> SUFFICES ASSUME SegmentInv, WayInv, EndSplit  PROVE WayInv'
  OBVIOUS
<1>1. /\ TypeInv /\ path \in Seq(Int) /\ next > Len(path) /\ next \in Nat
      /\ split' = segments /\ swaths' = swaths
      /\ stage = "splitting" /\ stage' = "merging"
  BY DEF SegmentInv, TypeInv, EndSplit, Enter
<1>2. ASSUME NEW i \in Mown  PROVE Somewhere(Poses(i), segments)
  <2>1. Len(Poses(i)) \in Nat \ {0} /\ Len(path) \in Nat
    BY <1>1, MownPoses
  <2>2. PICK at \in 0..(Len(path) - Len(Poses(i))) :
          \A k \in 1..Len(Poses(i)) : path[at + k] = Poses(i)[k]
    BY <1>1 DEF WayInv, Occurs
  <2>3. at \in Nat /\ RunsFrom(at, Poses(i), path)
    BY <2>1, <2>2 DEF RunsFrom
  <2>4. at + Len(Poses(i)) < next
    BY <1>1, <2>1, <2>2
  <2>. QED  BY <1>1, <2>3, <2>4 DEF WayInv
<1>3. Mown' = Mown /\ \A i \in Mown : Poses(i)' = Poses(i)
  BY <1>1 DEF Mown, Poses
<1>. QED  BY <1>1, <1>2, <1>3 DEF WayInv

LEMMA MergeWay ==
  ASSUME WayInv, swaths' = swaths, split' = split, stage' # "planning",
         stage' # "splitting", stage' = "merging" => stage = "merging"
  PROVE  WayInv'
<1>1. Mown' = Mown /\ \A i \in Mown : Poses(i)' = Poses(i)
  BY DEF Mown, Poses
<1>. QED  BY <1>1 DEF WayInv

LEMMA NextWay ==
  SegmentInv /\ OrderInv /\ WayInv /\ [Next]_vars => WayInv'
<1> SUFFICES ASSUME SegmentInv, OrderInv, WayInv, [Next]_vars  PROVE WayInv'
  OBVIOUS
<1>1. CASE KeepSegment
  BY <1>1, MergeWay DEF KeepSegment, Merging
<1>2. CASE MergeForward
  BY <1>2, MergeWay DEF MergeForward, Merging
<1>3. CASE MergeBack
  BY <1>3, MergeWay DEF MergeBack, Merging
<1>4. CASE EndMerge
  BY <1>4, MergeWay DEF EndMerge, Enter
<1>5. CASE RemoveSpike
  BY <1>5, MergeWay DEF RemoveSpike
<1>6. CASE NextSegment
  BY <1>6, MergeWay DEF NextSegment
<1>7. CASE Finish
  BY <1>7, MergeWay DEF Finish
<1>8. CASE UNCHANGED vars
  BY <1>8 DEF vars, WayInv, Mown, Poses
<1>. QED
  BY <1>1, <1>2, <1>3, <1>4, <1>5, <1>6, <1>7, <1>8,
     PlanWay, RespondWay, SplitWay, EndSplitWay DEF Next

LEMMA WayInvAlways == Spec => []WayInv
<1>1. Init => WayInv
  <2> SUFFICES ASSUME Init  PROVE WayInv
    OBVIOUS
  <2>1. stage = "planning" /\ next = 1 /\ \A i \in 1..Len(swaths) : ~(i < 1)
    BY DEF Init
  <2>. QED  BY <2>1 DEF WayInv
<1>. QED  BY <1>1, NextWay, SegmentInvAlways, OrderInvAlways, PTL DEF Spec

LEMMA WaysEnd ==
  SegmentInv /\ OrderInv /\ WayInv => SwathsStayWhole
<1> SUFFICES ASSUME SegmentInv, OrderInv, WayInv, Merged, NEW i \in Mown
             PROVE  Somewhere(Poses(i), merged)
  BY DEF SwathsStayWhole, Mown, Poses, Somewhere
<1> DEFINE S == Whole(split)
           last == Last(split)
           n == Len(split)
<1>1. /\ TypeInv /\ split \in Seq(Seq(Int)) /\ n \in Nat /\ stage = "merging"
  BY DEF SegmentInv, TypeInv, Merged
<1>2. /\ Poses(i) \in Seq(Int) /\ Poses(i) # <<>>
      /\ Len(Poses(i)) \in Nat \ {0} /\ Len(Poses(i)) >= kMinSegmentPoses
      /\ SegmentLength(Poses(i)) > kPoseSpacing
  BY <1>1, MownPoses
<1>3. PICK j \in 1..n : Occurs(Poses(i), split[j])
  BY <1>1 DEF WayInv, Somewhere
<1>4. split # <<>> /\ split[j] \in Seq(Int) /\ last \in Seq(Int)
  <2> DEFINE V == Seq(Int)
  <2>1. split \in Seq(V)
    BY <1>1
  <2> HIDE DEF V
  <2>2. split # <<>> /\ split[j] \in V /\ split[n] \in V
    BY <1>1, <2>1
  <2>. QED  BY <2>2 DEF V, Last
<1>5. j \in S
  <2>1. PICK at \in 0..(Len(split[j]) - Len(Poses(i))) :
          \A k \in 1..Len(Poses(i)) : split[j][at + k] = Poses(i)[k]
    BY <1>3 DEF Occurs
  <2>2. /\ SegmentLength(Poses(i)) <= SegmentLength(split[j])
        /\ SegmentLength(split[j]) \in Nat
    BY <1>2, <1>4, <2>1, RunIsShorter
  <2>3. SegmentLength(Poses(i)) \in Nat
    BY <1>2, LengthType
  <2>4. ~(SegmentLength(split[j]) < kMinSegmentLength)
    BY <1>2, <2>2, <2>3 DEF kMinSegmentLength, kPoseSpacing
  <2>5. ~(Len(split[j]) < kMinSegmentPoses)
    <3>1. Len(split[j]) \in Nat
      BY <1>4
    <3>. QED  BY <1>2, <2>1, <3>1 DEF kMinSegmentPoses
  <2>. QED  BY <2>4, <2>5 DEF Whole, IsDegenerate
<1>6. S \subseteq 1..n
  BY <1>1, WholeType
<1>7. /\ Len(merged) = Cardinality(S)
      /\ \/ merged[Rank(S, j)] = split[j]
         \/ merged[Rank(S, j)] = split[j] \o last
  BY <1>4, <1>5 DEF OrderInv, MergedInv, WholeSegmentsStay
<1>8. Rank(S, j) \in 1..Len(merged)
  <2> HIDE DEF S, n
  <2>1. Rank(S, j) \in 1..Cardinality(S)
    BY <1>1, <1>5, <1>6, RankBounds
  <2>. QED  BY <1>7, <2>1
<1>9. Occurs(Poses(i), split[j] \o last)
  BY <1>2, <1>3, <1>4, OccursLeft
<1>. QED  BY <1>3, <1>7, <1>8, <1>9 DEF Somewhere

\* However a swath longer than the spacing of poses is laid, its poses, densified
\* (utils.h:183-207), come through splitting and merging in one piece and in
\* order (mission_manager_node.cpp:206-305).
THEOREM SwathsAreKeptWhole == Spec => []SwathsStayWhole
BY WaysEnd, SegmentInvAlways, OrderInvAlways, WayInvAlways, PTL

----------------------------------------------------------------------------
(* No loop goes on for ever.  The scan for spikes starts again after every  *)
(* one it takes out, so that it is not `next' alone that comes to an end.   *)

Turn(loop) == CASE loop = "planning"  -> 1
                [] loop = "splitting" -> 2
                [] loop = "merging"   -> 3
                [] loop = "clearing"  -> 4
                [] OTHER              -> 5
LoopEnd == CASE stage = "planning"  -> Len(swaths)
             [] stage = "splitting" -> Len(path)
             [] OTHER               -> Len(segments)

\* A pass, and the next loop; the end of the loop does not move.
GetsOn == \/ Turn(stage') > Turn(stage)
          \/ /\ stage' = stage /\ LoopEnd' = LoopEnd
             /\ next' \in (next + 1)..(LoopEnd + 1)
\* The same segment again, shorter.
GetsShorter == /\ stage' = stage /\ LoopEnd' = LoopEnd
               /\ next' = next /\ next \in 1..Len(segments)
               /\ Len(segments'[next]) < Len(segments[next])

\* Every step comes closer to an end, for any swaths: it goes to a later loop,
\* or on within a loop whose end stays where it is, or it takes a pose out of
\* the segment at hand. No step can be repeated for ever, in particular not
\* the scan for spikes, which starts over after every one it removes.
THEOREM EveryPassCounts == Spec => [][GetsOn \/ GetsShorter]_vars
<1>1. ASSUME SegmentInv, PlanSwath \/ Respond  PROVE GetsOn
  <2>1. TypeInv
    BY <1>1 DEF SegmentInv
  <2>2. Len(swaths) \in Nat /\ next \in Nat
    BY <2>1 DEF TypeInv
  <2>. QED  BY <1>1, <2>2 DEF PlanSwath, Respond, Enter, GetsOn, LoopEnd, Turn
<1>2. ASSUME SegmentInv, SplitOff \/ EndSplit  PROVE GetsOn
  <2>1. TypeInv
    BY <1>2 DEF SegmentInv
  <2>2. path \in Seq(Int) /\ Len(path) \in Nat /\ next \in Nat /\ next >= 1
    BY <2>1 DEF TypeInv
  <2>3. CASE SplitOff
    <3>1. stage = "splitting" /\ stage' = stage /\ path' = path
          /\ next <= Len(path) /\ next' = NextCut(path, next)
      BY <2>3 DEF SplitOff
    <3>2. NextCut(path, next) \in (next + 1)..(Len(path) + 1)
      BY <2>2, <3>1, NextCutType
    <3>. QED  BY <3>1, <3>2 DEF GetsOn, LoopEnd
  <2>4. CASE EndSplit
    BY <2>4 DEF EndSplit, Enter, GetsOn, Turn
  <2>. QED  BY <1>2, <2>3, <2>4
<1>3. ASSUME SegmentInv, KeepSegment \/ MergeForward \/ MergeBack
      PROVE  GetsOn
  <2>1. TypeInv /\ Unbroken(segments)
    BY <1>3 DEF SegmentInv
  <2>2. Len(segments) \in Nat /\ next \in Nat
    BY <2>1 DEF TypeInv, Unbroken
  <2>3. stage = "merging" /\ stage' = stage /\ next <= Len(segments)
        /\ next' = next + 1
    BY <1>3 DEF KeepSegment, MergeForward, MergeBack, Merging
  <2>4. Len(segments') = Len(segments)
    <3>1. CASE KeepSegment \/ MergeBack
      BY <3>1 DEF KeepSegment, MergeBack
    <3>2. CASE MergeForward
      BY <2>1, <3>2 DEF MergeForward, Unbroken
    <3>. QED  BY <1>3, <3>1, <3>2
  <2>. QED  BY <2>2, <2>3, <2>4 DEF GetsOn, LoopEnd
<1>4. ASSUME SegmentInv, EndMerge \/ Finish  PROVE GetsOn
  BY <1>4 DEF EndMerge, Finish, Enter, GetsOn, Turn
<1>5. ASSUME SegmentInv, NextSegment  PROVE GetsOn
  <2>1. Len(segments) \in Nat /\ next \in Nat
    BY <1>5 DEF SegmentInv, TypeInv, Unbroken
  <2>. QED  BY <1>5, <2>1 DEF NextSegment, GetsOn, LoopEnd
<1>6. ASSUME SegmentInv, RemoveSpike  PROVE GetsShorter
  <2>1. /\ TypeInv /\ Unbroken(segments)
        /\ stage = "clearing" /\ stage' = stage /\ next' = next
        /\ next <= Len(segments)
    BY <1>6 DEF SegmentInv, RemoveSpike, ScanAgain
  <2>2. Len(segments) \in Nat /\ next \in 1..Len(segments)
    BY <2>1 DEF TypeInv, Unbroken
  <2> DEFINE s == segments[next]
             i == Min(Spikes(s))
  <2>3. s \in Seq(Int)
    BY <2>1, <2>2, UnbrokenElement
  <2>4. /\ segments' = [segments EXCEPT ![next] = RemoveAt(s, i)]
        /\ Spikes(s) # {}
    BY <1>6 DEF RemoveSpike
  <2> HIDE DEF s
  <2>5. i \in Spikes(s)
    <3>1. Spikes(s) \subseteq Nat
      BY DEF Spikes
    <3>. QED  BY <2>4, <3>1, Minimum
  <2> HIDE DEF i
  <2>6. i \in 1..Len(s) /\ Len(s) \in Nat
    BY <2>3, <2>5 DEF Spikes
  <2>7. Len(RemoveAt(s, i)) = Len(s) - 1
    BY <2>3, <2>6, RemoveAtType
  <2>8. Len(segments') = Len(segments) /\ segments'[next] = RemoveAt(s, i)
    BY <2>1, <2>2, <2>4 DEF Unbroken
  <2>9. Len(segments'[next]) < Len(segments[next])
    BY <2>6, <2>7, <2>8 DEF s
  <2>. QED  BY <2>1, <2>2, <2>8, <2>9 DEF GetsShorter, LoopEnd
<1>7. SegmentInv /\ Next => GetsOn \/ GetsShorter
  BY <1>1, <1>2, <1>3, <1>4, <1>5, <1>6 DEF Next
<1>8. SegmentInv /\ [Next]_vars => [GetsOn \/ GetsShorter]_vars
  BY <1>7
<1>. QED  BY SegmentInvAlways, <1>8, PTL DEF Spec

----------------------------------------------------------------------------
(***************************************************************************)
(* What becomes of a path, from its poses to the segments that are mown.   *)
(* Splitting cuts it where it jumps and nowhere else, and loses no pose;   *)
(* merging leaves the segments that WholeSegmentsStay names; clearing      *)
(* takes poses out of them, but never the first or the last.               *)
(***************************************************************************)

\* list is what lies of the path p before end, cut at every jump.
CutUp(list, p, end) ==
  \E cut \in [1..(Len(list) + 1) -> 1..(Len(p) + 1)] :
    /\ cut[1] = 1 /\ cut[Len(list) + 1] = end
    /\ \A k \in 1..Len(list) :
         cut[k] < cut[k + 1] /\ list[k] = SubSeq(p, cut[k], cut[k + 1] - 1)
    /\ \A i \in 2..(end - 1) :
         i \in Cuts(p) <=> \E k \in 2..Len(list) : cut[k] = i

SplitIsWhole ==
  stage \notin {"planning", "splitting"} => CutUp(split, path, Len(path) + 1)

SplitInv == /\ stage = "splitting" => CutUp(segments, path, next)
            /\ SplitIsWhole

LEMMA CutOnce ==
  ASSUME NEW p \in Seq(Int), NEW list \in Seq(Seq(Int)), NEW from \in 1..Len(p),
         CutUp(list, p, from), list # <<>> => from \in Cuts(p),
         NEW end, end = NextCut(p, from)
  PROVE  CutUp(Append(list, SubSeq(p, from, end - 1)), p, end)
<1> DEFINE n == Len(list)
           s == SubSeq(p, from, end - 1)
           longer == Append(list, s)
<1>1. n \in Nat /\ Len(p) \in Nat
  OBVIOUS
<1>2. PICK cut \in [1..(n + 1) -> 1..(Len(p) + 1)] :
        /\ cut[1] = 1 /\ cut[n + 1] = from
        /\ \A k \in 1..n : /\ cut[k] < cut[k + 1]
                           /\ list[k] = SubSeq(p, cut[k], cut[k + 1] - 1)
        /\ \A i \in 2..(from - 1) :
             i \in Cuts(p) <=> \E k \in 2..n : cut[k] = i
  BY DEF CutUp
<1>3. from \in Nat /\ \A k \in 1..(n + 1) : cut[k] \in Nat
  <2>1. 1..(Len(p) + 1) \subseteq Nat /\ 1..Len(p) \subseteq Nat
    BY <1>1
  <2>. QED  BY <2>1, Zenon
<1>4. /\ end \in (from + 1)..(Len(p) + 1)
      /\ \A i \in Cuts(p) : i > from => end <= i
  BY NextCutType
<1>5. s \in Seq(Int)
  BY PieceType
<1>6. /\ longer \in Seq(Seq(Int)) /\ Len(longer) = n + 1 /\ longer[n + 1] = s
      /\ \A k \in 1..n : longer[k] = list[k]
  <2> HIDE DEF s
  <2>. QED  BY <1>5, AppendType
<1> HIDE DEF s, longer, n
<1> DEFINE more == [k \in 1..(n + 2) |-> IF k <= n + 1 THEN cut[k] ELSE end]
<1>7. /\ more \in [1..(n + 2) -> 1..(Len(p) + 1)]
      /\ \A k \in 1..(n + 1) : more[k] = cut[k]
      /\ more[n + 2] = end
  <2>1. end \in 1..(Len(p) + 1) /\ n + 2 \in 1..(n + 2) /\ ~(n + 2 <= n + 1)
    BY <1>1, <1>4
  <2>2. ASSUME NEW k \in 1..(n + 1)  PROVE k \in 1..(n + 2) /\ k <= n + 1
    BY <1>1
  <2>3. \A k \in 1..(n + 2) : k <= n + 1 => k \in 1..(n + 1)
    BY <1>1
  <2>. QED  BY <2>1, <2>2, <2>3, Zenon
<1> HIDE DEF more
<1>8. more[1] = 1 /\ more[n + 1] = from
  BY <1>1, <1>2, <1>7
<1>9. ASSUME NEW k \in 1..(n + 1)
      PROVE  /\ more[k] < more[k + 1]
             /\ longer[k] = SubSeq(p, more[k], more[k + 1] - 1)
  <2>1. CASE k \in 1..n
    <3>1. k + 1 \in 1..(n + 1)
      BY <1>1, <2>1
    <3>2. more[k] = cut[k] /\ more[k + 1] = cut[k + 1]
      BY <1>7, <3>1
    <3>3. longer[k] = list[k]
      BY <1>6, <2>1
    <3>. QED  BY <1>2, <2>1, <3>2, <3>3
  <2>2. CASE k = n + 1
    <3>1. more[k] = from /\ more[k + 1] = end /\ longer[k] = s
      BY <1>1, <1>6, <1>7, <1>8, <2>2
    <3>. QED  BY <1>4, <3>1 DEF s
  <2>. QED  BY <1>1, <2>1, <2>2
<1>10. ASSUME NEW i \in 2..(end - 1)
      PROVE  i \in Cuts(p) <=> \E k \in 2..(n + 1) : more[k] = i
  <2>1. \A k \in 2..n : more[k] = cut[k] /\ cut[k] < from
    <3> SUFFICES ASSUME NEW k \in 2..n
                 PROVE  more[k] = cut[k] /\ cut[k] < from
      OBVIOUS
    <3>1. more[k] = cut[k]
      BY <1>1, <1>7
    <3> DEFINE F == {m \in 1..n : cut[m] >= from}
    <3>2. F = {}
      <4>1. \A m \in 1..n : m + 1 \in 1..(n + 1)
        BY <1>1
      <4>2. ASSUME F # {}  PROVE FALSE
        <5>1. PICK m \in F : \A l \in F : l <= m
          <6>1. F \subseteq 1..n
            OBVIOUS
          <6> HIDE DEF F
          <6>. QED  BY <1>1, <4>2, <6>1, LargestNumber
        <5>2. /\ m \in 1..n /\ cut[m] >= from /\ cut[m] < cut[m + 1]
              /\ cut[m] \in Nat /\ cut[m + 1] \in Nat /\ from \in Nat
          BY <1>1, <1>2, <1>3, <4>1
        <5>3. m # n
          BY <1>1, <1>2, <5>2
        <5>4. m + 1 \in 1..n /\ cut[m + 1] >= from
          BY <1>1, <5>2, <5>3
        <5>5. m + 1 \in F
          BY <5>4
        <5> HIDE DEF F
        <5>. QED  BY <5>1, <5>2, <5>5
      <4>. QED  BY <4>2
    <3>3. cut[k] \in Nat /\ from \in Nat /\ k \in 1..n
      <4>1. k \in 1..n /\ k \in 1..(n + 1)
        BY <1>1
      <4>. QED  BY <1>3, <4>1
    <3>4. ~(cut[k] >= from)
      BY <3>2, <3>3
    <3>. QED  BY <3>1, <3>3, <3>4
  <2>2. CASE i < from
    <3>1. i \in 2..(from - 1)
      BY <1>1, <2>2
    <3>2. i \in Cuts(p) <=> \E k \in 2..n : cut[k] = i
      BY <1>2, <3>1
    <3>3. \A k \in 2..(n + 1) : k \in 2..n \/ k = n + 1
      BY <1>1
    <3>4. more[n + 1] # i
      BY <1>8, <2>2
    <3>5. \A k \in 2..n : k \in 2..(n + 1)
      BY <1>1
    <3>. QED  BY <2>1, <3>2, <3>3, <3>4, <3>5
  <2>3. CASE i = from
    <3>1. n >= 1
      <4>1. n # 0
        BY <1>2, <1>8, <2>3
      <4>. QED  BY <1>1, <4>1
    <3>2. list # <<>> /\ n + 1 \in 2..(n + 1)
      BY <1>1, <3>1 DEF n
    <3>. QED  BY <1>8, <2>3, <3>2
  <2>4. CASE i > from
    <3>1. i \notin Cuts(p)
      <4>1. ~(end <= i)
        BY <1>1, <1>4
      <4>. QED  BY <1>4, <2>4, <4>1
    <3>2. \A k \in 2..(n + 1) : k \in 2..n \/ k = n + 1
      BY <1>1
    <3>3. more[n + 1] # i
      BY <1>8, <2>4
    <3>4. \A k \in 2..n : cut[k] # i
      <4>1. \A x, y, z \in Int : x < y /\ z > y => x # z
        OBVIOUS
      <4>2. i \in Int /\ from \in Int /\ \A k \in 2..n : cut[k] \in Int
        BY <1>1, <1>2, <1>4
      <4>. QED  BY <2>1, <2>4, <4>1, <4>2, Zenon
    <3>. QED  BY <2>1, <3>1, <3>2, <3>3, <3>4
  <2>5. i < from \/ i = from \/ i > from
    BY <1>1, <1>4
  <2>. QED  BY <2>2, <2>3, <2>4, <2>5
<1>11. /\ n + 2 = Len(longer) + 1 /\ Len(longer) = n + 1
       /\ more[Len(longer) + 1] = end
  BY <1>1, <1>6, <1>7
<1>. QED
  <2>1. more \in [1..(Len(longer) + 1) -> 1..(Len(p) + 1)]
    BY <1>7, <1>11, Zenon
  <2>2. \A k \in 1..Len(longer) :
          /\ more[k] < more[k + 1]
          /\ longer[k] = SubSeq(p, more[k], more[k + 1] - 1)
    BY <1>9, <1>11, Zenon
  <2>3. \A i \in 2..(end - 1) :
          i \in Cuts(p) <=> \E k \in 2..Len(longer) : more[k] = i
    BY <1>10, <1>11, Zenon
  <2>4. CutUp(longer, p, end)
    BY <1>8, <1>11, <2>1, <2>2, <2>3, Zenon DEF CutUp
  <2>. QED  BY <2>4 DEF longer, s

LEMMA NextSplit == SegmentInv /\ OrderInv /\ SplitInv /\ [Next]_vars => SplitInv'
<1> SUFFICES ASSUME SegmentInv, OrderInv, SplitInv, [Next]_vars  PROVE SplitInv'
  OBVIOUS
<1>0. /\ path \in Seq(Int) /\ Len(path) \in Nat /\ segments \in Seq(Seq(Int))
      /\ next \in Nat \ {0}
  BY DEF SegmentInv, TypeInv, Unbroken
<1>1. CASE PlanSwath
  BY <1>1 DEF PlanSwath, SplitInv, SplitIsWhole
<1>2. CASE Respond
  <2>1. /\ segments' = <<>> /\ next' = 1 /\ stage' = "splitting" /\ path' = path
    BY <1>2 DEF Respond, Enter, SegmentInv, SomeInv
  <2>2. CutUp(<<>>, path, 1)
    <3> DEFINE cut == [k \in 1..1 |-> 1]
    <3>1. cut \in [1..(Len(<<>>) + 1) -> 1..(Len(path) + 1)]
      BY <1>0
    <3>2. cut[1] = 1 /\ cut[Len(<<>>) + 1] = 1
      OBVIOUS
    <3>3. 1..Len(<<>>) = {} /\ 2..(1 - 1) = {}
      OBVIOUS
    <3> HIDE DEF cut
    <3>. QED  BY <3>1, <3>2, <3>3, Zenon DEF CutUp
  <2>3. CutUp(segments', path', next')
    BY <2>1, <2>2
  <2>. QED  BY <2>1, <2>3 DEF SplitInv, SplitIsWhole
<1>3. CASE SplitOff
  <2>1. /\ stage = "splitting" /\ stage' = stage /\ path' = path
        /\ next \in 1..Len(path) /\ next' = NextCut(path, next)
        /\ segments' = Append(segments, SubSeq(path, next, next' - 1))
    BY <1>0, <1>3 DEF SplitOff
  <2>2. CutUp(segments, path, next) /\ (segments # <<>> => next \in Cuts(path))
    BY <2>1 DEF SplitInv, OrderInv, ApartInv
  <2>3. CutUp(segments', path', next')
    BY <1>0, <2>1, <2>2, CutOnce
  <2>. QED  BY <2>1, <2>3 DEF SplitInv, SplitIsWhole
<1>4. CASE EndSplit
  <2>1. /\ stage = "splitting" /\ stage' = "merging" /\ path' = path
        /\ split' = segments /\ next > Len(path) /\ next <= Len(path) + 1
    BY <1>4 DEF EndSplit, Enter, OrderInv, ApartInv
  <2>2. next = Len(path) + 1
    BY <1>0, <2>1
  <2>. QED  BY <2>1, <2>2 DEF SplitInv, SplitIsWhole
<1>5. CASE \/ KeepSegment \/ MergeForward \/ MergeBack \/ EndMerge
           \/ RemoveSpike \/ NextSegment \/ Finish
  <2>1. /\ stage \notin {"planning", "splitting"}
        /\ stage' \notin {"planning", "splitting"}
        /\ path' = path /\ split' = split
    BY <1>5 DEF KeepSegment, MergeForward, MergeBack, Merging, EndMerge, Enter,
                RemoveSpike, NextSegment, Finish
  <2>. QED  BY <2>1 DEF SplitInv, SplitIsWhole
<1>6. CASE UNCHANGED vars
  BY <1>6 DEF vars, SplitInv, SplitIsWhole
<1>. QED  BY <1>1, <1>2, <1>3, <1>4, <1>5, <1>6 DEF Next

\* Splitting a path loses no pose of it and doubles none: its segments, one
\* after another, are the path, and a segment begins at the first pose and at
\* every pose more than kMaxSegmentJump from the one before, nowhere else
\* (mission_manager_node.cpp:206, splitPathIntoSegments).
THEOREM SplitLosesNothing == Spec => []SplitIsWhole
<1>1. Init => SplitInv
  BY DEF Init, SplitInv, SplitIsWhole
<1>2. SplitInv => SplitIsWhole
  BY DEF SplitInv
<1>. QED
  BY <1>1, <1>2, NextSplit, SegmentInvAlways, OrderInvAlways, PTL DEF Spec

----------------------------------------------------------------------------
(* Clearing takes poses out of the segments that merging has left.         *)

\* s is t with poses taken out, but not its first nor its last.
Thinned(s, t) ==
  \E at \in [1..Len(s) -> 1..Len(t)] :
    /\ at[1] = 1 /\ at[Len(s)] = Len(t)
    /\ \A i, j \in 1..Len(s) : i < j => at[i] < at[j]
    /\ \A i \in 1..Len(s) : s[i] = t[at[i]]

\* list is what merging makes of split: WholeSegmentsStay, said of a list.
Laid(list) ==
  LET whole == Whole(split)
      last  == Last(split)
      Joined(k) == /\ \A j \in whole : j <= k
                   /\ IsDegenerate(last) /\ Gap(split[k], last) <= kMaxSegmentJump
  IN  IF whole = {} THEN list = <<last>>
      ELSE /\ Len(list) = Cardinality(whole)
           /\ \A k \in whole :
                list[Rank(whole, k)] =
                  IF Joined(k) THEN split[k] \o last ELSE split[k]

SegmentsOfThePath ==
  (stage = "clearing" \/ Ended) /\ split # <<>> =>
    \E list \in Seq(Seq(Int)) :
      /\ Laid(list) /\ Len(segments) = Len(list)
      /\ \A j \in 1..Len(list) : Thinned(segments[j], list[j])

LEMMA ThinnedSame ==
  ASSUME NEW s \in Seq(Int), s # <<>>
  PROVE  Thinned(s, s)
<1> DEFINE at == [i \in 1..Len(s) |-> i]
<1>1. 1 \in 1..Len(s) /\ Len(s) \in 1..Len(s)
  OBVIOUS
<1>2. /\ at \in [1..Len(s) -> 1..Len(s)] /\ at[1] = 1 /\ at[Len(s)] = Len(s)
      /\ \A i, j \in 1..Len(s) : i < j => at[i] < at[j]
      /\ \A i \in 1..Len(s) : s[i] = s[at[i]]
  BY <1>1
<1> HIDE DEF at
<1>. QED  BY <1>2 DEF Thinned

LEMMA ThinnedOnce ==
  ASSUME NEW s \in Seq(Int), NEW t \in Seq(Int), Thinned(s, t),
         NEW m \in 2..(Len(s) - 1)
  PROVE  Thinned(RemoveAt(s, m), t)
<1> DEFINE r == RemoveAt(s, m)
           n == Len(s)
<1>0. n \in Nat /\ m \in Nat /\ m > 1 /\ m < n
  OBVIOUS
<1>1. /\ Len(r) = n - 1
      /\ \A i \in 1..(n - 1) : r[i] = IF i < m THEN s[i] ELSE s[i + 1]
  <2>1. m \in 1..Len(s)
    BY <1>0
  <2>. QED  BY <2>1, RemoveAtType
<1>2. PICK at \in [1..n -> 1..Len(t)] :
        /\ at[1] = 1 /\ at[n] = Len(t)
        /\ \A i, j \in 1..n : i < j => at[i] < at[j]
        /\ \A i \in 1..n : s[i] = t[at[i]]
  BY DEF Thinned
<1> HIDE DEF r, n
<1> DEFINE From(i) == IF i < m THEN i ELSE i + 1
           now == [i \in 1..(n - 1) |-> at[From(i)]]
<1> HIDE DEF now
<1>3. \A i \in 1..(n - 1) : From(i) \in 1..n
  BY <1>0
<1>4. ASSUME NEW i \in 1..(n - 1), NEW j \in 1..(n - 1), i < j
      PROVE  From(i) < From(j)
  BY <1>0, <1>4
<1>5. \A i \in 1..(n - 1) : r[i] = s[From(i)]
  BY <1>1
<1>6. /\ 1 \in 1..(n - 1) /\ n - 1 \in 1..(n - 1)
      /\ From(1) = 1 /\ From(n - 1) = n
  BY <1>0
<1> HIDE DEF From
<1>7. now \in [1..(n - 1) -> 1..Len(t)]
  BY <1>2, <1>3 DEF now
<1>8. \A i \in 1..(n - 1) : now[i] = at[From(i)]
  BY DEF now
<1>9. now[1] = 1 /\ now[n - 1] = Len(t)
  BY <1>2, <1>6, <1>8
<1>10. ASSUME NEW i \in 1..(n - 1), NEW j \in 1..(n - 1), i < j
       PROVE  now[i] < now[j]
  <2>1. From(i) \in 1..n /\ From(j) \in 1..n /\ From(i) < From(j)
    BY <1>3, <1>4, <1>10
  <2>2. at[From(i)] < at[From(j)]
    BY <1>2, <2>1
  <2>. QED  BY <1>8, <2>2
<1>11. \A i \in 1..(n - 1) : r[i] = t[now[i]]
  BY <1>2, <1>3, <1>5, <1>8, Zenon
<1>12. Len(r) = n - 1
  BY <1>1
<1>13. Thinned(r, t)
  BY <1>7, <1>9, <1>10, <1>11, <1>12, Zenon DEF Thinned
<1>. QED  BY <1>13 DEF r

LEMMA RemoveSpikeThins ==
  SegmentInv /\ SegmentsOfThePath /\ RemoveSpike => SegmentsOfThePath'
<1> SUFFICES ASSUME SegmentInv, SegmentsOfThePath, RemoveSpike, split # <<>>
             PROVE  \E list \in Seq(Seq(Int)) :
                      /\ Laid(list) /\ Len(segments') = Len(list)
                      /\ \A j \in 1..Len(list) : Thinned(segments'[j], list[j])
  BY DEF SegmentsOfThePath, RemoveSpike, Laid
<1>0. /\ Unbroken(segments) /\ stage = "clearing"
      /\ next \in Nat \ {0} /\ next <= Len(segments)
  BY DEF SegmentInv, TypeInv, RemoveSpike
<1>1. Len(segments) \in Nat /\ next \in 1..Len(segments)
  BY <1>0 DEF Unbroken
<1> DEFINE s == segments[next]
           m == Min(Spikes(s))
<1>2. s \in Seq(Int)
  BY <1>0, <1>1, UnbrokenElement
<1>3. segments' = [segments EXCEPT ![next] = RemoveAt(s, m)] /\ Spikes(s) # {}
  BY DEF RemoveSpike
<1> HIDE DEF s
<1>4. m \in 2..(Len(s) - 1)
  <2>1. Spikes(s) \subseteq Nat /\ Spikes(s) \subseteq 2..(Len(s) - 1)
    BY DEF Spikes
  <2>2. m \in Spikes(s)
    BY <1>3, <2>1, Minimum
  <2>. QED  BY <2>1, <2>2
<1> HIDE DEF m
<1>5. /\ Len(segments') = Len(segments) /\ segments'[next] = RemoveAt(s, m)
      /\ \A j \in 1..Len(segments) : j # next => segments'[j] = segments[j]
  BY <1>0, <1>1, <1>3 DEF Unbroken
<1>6. PICK list \in Seq(Seq(Int)) :
        /\ Laid(list) /\ Len(segments) = Len(list)
        /\ \A j \in 1..Len(list) : Thinned(segments[j], list[j])
  BY <1>0 DEF SegmentsOfThePath
<1>7. ASSUME NEW j \in 1..Len(list)  PROVE Thinned(segments'[j], list[j])
  <2>1. CASE j = next
    <3>1. Thinned(s, list[next]) /\ list[next] \in Seq(Int)
      BY <1>1, <1>6 DEF s
    <3>2. Thinned(RemoveAt(s, m), list[next])
      BY <1>2, <1>4, <3>1, ThinnedOnce
    <3>. QED  BY <1>5, <2>1, <3>2
  <2>2. CASE j # next
    BY <1>5, <1>6, <2>2
  <2>. QED  BY <2>1, <2>2
<1>. QED  BY <1>5, <1>6, <1>7

LEMMA NextThins ==
  SegmentInv /\ OrderInv /\ SegmentsOfThePath /\ [Next]_vars => SegmentsOfThePath'
<1> SUFFICES ASSUME SegmentInv, OrderInv, SegmentsOfThePath, [Next]_vars
             PROVE  SegmentsOfThePath'
  OBVIOUS
<1>1. CASE EndMerge
  <2>1. /\ stage = "merging" /\ next > Len(segments) /\ segments' = merged
        /\ split' = split
    BY <1>1 DEF EndMerge, Enter
  <2>2. Unbroken(merged)
    BY DEF SegmentInv
  <2>3. SUFFICES ASSUME split # <<>>
                 PROVE  \E list \in Seq(Seq(Int)) :
                          /\ Laid(list) /\ Len(segments') = Len(list)
                          /\ \A j \in 1..Len(list) : Thinned(segments'[j], list[j])
    BY <2>1 DEF SegmentsOfThePath, Laid
  <2>4. Laid(merged)
    BY <2>1, <2>3 DEF OrderInv, MergedInv, WholeSegmentsStay, Merged, Laid
  <2>5. \A j \in 1..Len(merged) : merged[j] \in Seq(Int) /\ merged[j] # <<>>
    BY <2>2, UnbrokenElement
  <2>6. \A j \in 1..Len(merged) : Thinned(merged[j], merged[j])
    BY <2>5, ThinnedSame
  <2>. QED  BY <2>1, <2>2, <2>4, <2>6 DEF Unbroken
<1>2. CASE RemoveSpike
  BY <1>2, RemoveSpikeThins
<1>3. CASE NextSegment \/ Finish
  BY <1>3 DEF NextSegment, Finish, SegmentsOfThePath, Laid, Ended
<1>4. CASE \/ PlanSwath \/ Respond \/ SplitOff \/ EndSplit
           \/ KeepSegment \/ MergeForward \/ MergeBack
  BY <1>4 DEF PlanSwath, Respond, SplitOff, EndSplit, KeepSegment, MergeForward,
              MergeBack, Merging, Enter, SegmentsOfThePath, Ended
<1>5. CASE UNCHANGED vars
  BY <1>5 DEF vars, SegmentsOfThePath, Laid, Ended
<1>. QED  BY <1>1, <1>2, <1>3, <1>4, <1>5 DEF Next

\* What is mown is the path: there is one segment for every piece of it that
\* is no fragment, in their order, and it is that piece (the last one with the
\* fragment behind it joined to it, if that is close) less some of its inner
\* poses.  In particular the robot is sent to the first pose of each piece and
\* given its last one to end at, whatever spikes are taken out between
\* (mission_manager_node.cpp:181-204).
THEOREM SegmentsAreThePath == Spec => []SegmentsOfThePath
<1>1. Init => SegmentsOfThePath
  BY DEF Init, SegmentsOfThePath, Ended
<1>. QED
  BY <1>1, NextThins, SegmentInvAlways, OrderInvAlways, PTL DEF Spec

=============================================================================
