-------------------------- MODULE LoopMemoryProof ---------------------------
(***************************************************************************)
(* Theorems about LoopMemory, alone and in its test bench, for every set   *)
(* of bodies, every number of iterations and units, and every schedule     *)
(* that meets the constraints.                                             *)
(***************************************************************************)
EXTENDS TestBench, FiniteSetTheorems, TLAPS

-----------------------------------------------------------------------------
(* The groups and the dependence distances of LoopBody.                    *)

(* Every nonempty finite set of integers has a least element: its initial  *)
(* segments are finite sets, which strict inclusion orders well.           *)
LEMMA LeastOfFinite ==
    ASSUME NEW D \in SUBSET Int, IsFiniteSet(D), D # {}
    PROVE  \E m \in D : \A e \in D : m <= e
<1> DEFINE R == StrictSubsetOrdering(D)
           Segment(d) == {e \in D : e <= d}
           T == {Segment(d) : d \in D}
<1>1. IsWellFoundedOn(R, FiniteSubsetsOf(D))
    BY FS_StrictSubsetOrderingWellFounded
<1>2. T \subseteq FiniteSubsetsOf(D) /\ T # {}
  <2>1. ASSUME NEW d \in D PROVE Segment(d) \in FiniteSubsetsOf(D)
    <3>1. IsFiniteSet(Segment(d))
        BY FS_Subset
    <3> QED BY <3>1 DEF FiniteSubsetsOf
  <2> QED BY <2>1
<1>3. PICK x \in T : \A y \in T : ~ (<<y, x>> \in R)
  <2> HIDE DEF R, T
  <2> QED BY <1>1, <1>2, WFMin
<1>4. PICK m \in D : x = Segment(m)
    OBVIOUS
<1>5. ASSUME NEW e \in D, e < m PROVE FALSE
  <2>1. Segment(e) \subseteq Segment(m) /\ Segment(e) # Segment(m)
    <3>1. e \in Int /\ m \in Int /\ \A d \in D : d \in Int
        OBVIOUS
    <3>2. \A d \in D : d <= e => d <= m
        BY <1>5, <3>1
    <3>3. m \in Segment(m) /\ m \notin Segment(e)
        BY <1>5, <3>1
    <3> QED BY <3>2, <3>3
  <2>2. <<Segment(e), Segment(m)>> \in R
      BY <2>1 DEF StrictSubsetOrdering
  <2> QED BY <1>3, <1>4, <2>2
<1> QED BY <1>5

(* And a greatest one.                                                     *)
LEMMA GreatestOfFinite ==
    ASSUME NEW D \in SUBSET Int, IsFiniteSet(D), D # {}
    PROVE  \E m \in D : \A e \in D : e <= m
<1> DEFINE M == {- d : d \in D}
           f == [d \in D |-> - d]
<1>1. M \in SUBSET Int /\ M # {}
  <2>1. ASSUME NEW d \in D PROVE - d \in Int
    <3>1. d \in Int
        OBVIOUS
    <3> QED BY <3>1
  <2> QED BY <2>1
<1>2. f \in Surjection(D, M)
    BY DEF Surjection
<1>3. IsFiniteSet(M)
  <2> HIDE DEF M, f
  <2> QED BY <1>2, FS_Surjection
<1>4. PICK k \in M : \A e \in M : k <= e
  <2> HIDE DEF M
  <2> QED BY <1>1, <1>3, LeastOfFinite
<1>5. PICK m \in D : k = - m
    OBVIOUS
<1>6. ASSUME NEW e \in D PROVE e <= m
  <2>1. e \in Int /\ m \in Int /\ - e \in M
      OBVIOUS
  <2>2. - m <= - e
      BY <1>4, <1>5, <2>1
  <2> QED BY <2>1, <2>2
<1> QED BY <1>6

(* The cases the lemmas below need: naturals below a bound.                *)
LEMMA LeastExists ==
    ASSUME NEW n \in Nat, NEW D \in SUBSET (0 .. n), D # {}
    PROVE  \E m \in D : \A e \in D : m <= e
<1>1. IsFiniteSet(0 .. n) /\ 0 .. n \in SUBSET Int
    BY FS_Interval
<1>2. IsFiniteSet(D) /\ D \in SUBSET Int
    BY <1>1, FS_Subset
<1> QED BY <1>2, LeastOfFinite

LEMMA GreatestExists ==
    ASSUME NEW n \in Nat, NEW D \in SUBSET (0 .. n), D # {}
    PROVE  \E m \in D : \A e \in D : e <= m
<1>1. IsFiniteSet(0 .. n) /\ 0 .. n \in SUBSET Int
    BY FS_Interval
<1>2. IsFiniteSet(D) /\ D \in SUBSET Int
    BY <1>1, FS_Subset
<1> QED BY <1>2, GreatestOfFinite

-----------------------------------------------------------------------------
(* Multiplication and division, for the solvers.                           *)

LEMMA TimesSucc ==
    ASSUME NEW a \in Int, NEW c \in Int
    PROVE  (a + 1) * c = a * c + c
OBVIOUS

LEMMA TimesMonotone ==
    ASSUME NEW a \in Int, NEW b \in Int, NEW c \in Nat, a <= b
    PROVE  a * c <= b * c
OBVIOUS

LEMMA TimesCancels ==
    ASSUME NEW a \in Int, NEW b \in Int, NEW c \in Int, c # 0, a * c = b * c
    PROVE  a = b
OBVIOUS

LEMMA Quotient ==
    ASSUME NEW a \in Nat, NEW c \in Nat \ {0}
    PROVE  /\ a \div c \in Nat
           /\ (a \div c) * c <= a
           /\ a < (a \div c) * c + c
OBVIOUS

LEMMA QuotientUnique ==
    ASSUME NEW a \in Nat, NEW c \in Nat \ {0}, NEW q \in Nat,
           q * c <= a, a < q * c + c
    PROVE  a \div c = q
OBVIOUS

LEMMA QuotientMonotone ==
    ASSUME NEW a \in Nat, NEW b \in Nat, NEW c \in Nat \ {0}, a <= b
    PROVE  a \div c <= b \div c
OBVIOUS
-----------------------------------------------------------------------------
(* Ranks and groups, in a loop that is one.                                *)

KindLimit(body, i) == Limit(body, body.ops[i].kind)

LEMMA LimitType ==
    ASSUME NEW body, IsLoop(body), NEW i \in Places(body)
    PROVE  KindLimit(body, i) \in Nat \ {0}
BY CountAssumption DEF IsLoop, Places, KindLimit, Limit, Kinds

LEMMA RankType ==
    ASSUME NEW body, IsLoop(body), NEW i \in Places(body)
    PROVE  /\ IsFiniteSet(UpTo(body, i))
           /\ Rank(body, i) \in Nat \ {0}
<1>1. i \in Nat /\ i \in UpTo(body, i) /\ UpTo(body, i) \in SUBSET (1 .. i)
    BY DEF IsLoop, Places, UpTo
<1>2. IsFiniteSet(UpTo(body, i))
  <2>1. IsFiniteSet(1 .. i)
      BY <1>1, FS_Interval
  <2> QED BY <1>1, <2>1, FS_Subset
<1>3. Cardinality(UpTo(body, i)) \in Nat /\ Cardinality(UpTo(body, i)) # 0
    BY <1>1, <1>2, FS_CardinalityType, FS_EmptySet
<1> QED BY <1>2, <1>3 DEF Rank

(* The rank grows along the accesses of a kind.                            *)
LEMMA RankIncreases ==
    ASSUME NEW body, IsLoop(body), NEW i \in Places(body), NEW j \in Places(body),
           SameKind(body, i, j), i < j
    PROVE  Rank(body, i) < Rank(body, j)
<1>1. UpTo(body, i) \in SUBSET UpTo(body, j)
    BY DEF IsLoop, Places, UpTo, SameKind
<1>2. j \in UpTo(body, j) /\ j \notin UpTo(body, i)
    BY DEF IsLoop, Places, UpTo
<1>3. IsFiniteSet(UpTo(body, j)) /\ Rank(body, i) \in Nat /\ Rank(body, j) \in Nat
    BY RankType
<1>4. /\ Cardinality(UpTo(body, i)) <= Cardinality(UpTo(body, j))
      /\ Cardinality(UpTo(body, i)) # Cardinality(UpTo(body, j))
    BY <1>1, <1>2, <1>3, FS_Subset
<1> QED BY <1>3, <1>4 DEF Rank

LEMMA GroupType ==
    ASSUME NEW body, IsLoop(body), NEW i \in Places(body)
    PROVE  /\ Group(body, i) \in Nat
           /\ Group(body, i) * KindLimit(body, i) < Rank(body, i)
           /\ Rank(body, i) <= Group(body, i) * KindLimit(body, i) + KindLimit(body, i)
<1>1. Rank(body, i) - 1 \in Nat /\ Rank(body, i) \in Nat
    BY RankType
<1>2. KindLimit(body, i) \in Nat \ {0}
    BY LimitType
<1>3. Group(body, i) = (Rank(body, i) - 1) \div KindLimit(body, i)
    BY DEF Group, KindLimit
<1> DEFINE q == Group(body, i)
           c == KindLimit(body, i)
           r == Rank(body, i)
<1>4. q \in Nat /\ q * c <= r - 1 /\ r - 1 < q * c + c
    BY <1>1, <1>2, <1>3, Quotient
<1>5. q * c \in Nat /\ c \in Nat /\ r \in Nat
    BY <1>1, <1>2, <1>4
<1> HIDE DEF q, c, r
<1>6. q * c < r /\ r <= q * c + c
    BY <1>4, <1>5
<1> QED BY <1>4, <1>6 DEF q, c, r

(* Every rank below that of an access is the rank of an earlier one.       *)
LEMMA RankReached ==
    ASSUME NEW body, IsLoop(body), NEW j \in Places(body),
           NEW r \in Nat \ {0}, r < Rank(body, j)
    PROVE  \E i \in Places(body) :
              i < j /\ SameKind(body, i, j) /\ Rank(body, i) = r
<1> DEFINE Enough == {m \in UpTo(body, j) : r <= Rank(body, m)}
<1>1. /\ j \in Nat /\ j >= 1 /\ 1 .. j \subseteq Places(body)
      /\ \A m \in UpTo(body, j) : m \in Places(body) /\ m <= j /\ SameKind(body, m, j)
      /\ j \in UpTo(body, j)
    BY DEF IsLoop, Places, UpTo, SameKind
<1>2. \A m \in Places(body) : m \in Nat /\ m >= 1 /\ Rank(body, m) \in Nat \ {0}
    BY RankType DEF IsLoop, Places
<1>3. Enough \in SUBSET (0 .. j) /\ j \in Enough
  <2>1. ASSUME NEW m \in UpTo(body, j) PROVE m \in 0 .. j
      BY <1>1 DEF UpTo
  <2>2. r <= Rank(body, j)
      BY <1>2
  <2> QED BY <1>1, <2>1, <2>2
<1>4. PICK m \in Enough : \A e \in Enough : m <= e
  <2> HIDE DEF Enough
  <2> QED BY <1>1, <1>3, LeastExists
<1>5. m \in Places(body) /\ m <= j /\ SameKind(body, m, j) /\ r <= Rank(body, m)
    BY <1>1
<1>6. Rank(body, m) <= r
  <2> DEFINE Rest == UpTo(body, m) \ {m}
  <2>1. /\ m \in UpTo(body, m) /\ IsFiniteSet(UpTo(body, m))
        /\ Rest \in SUBSET (0 .. m) /\ \A p \in Rest : p < m /\ p \in 1 .. m
    BY <1>2, <1>5, RankType DEF UpTo
  <2>2. Cardinality(Rest) = Rank(body, m) - 1
    BY <2>1, FS_RemoveElement DEF Rank
  <2>3. CASE Rest = {}
    <3>1. Cardinality(Rest) = 0
        BY <2>3, FS_EmptySet
    <3> QED BY <1>2, <1>5, <2>2, <3>1
  <2>4. CASE Rest # {}
    <3>1. PICK p \in Rest : \A e \in Rest : e <= p
      <4> HIDE DEF Rest
      <4> QED BY <1>2, <1>5, <2>1, <2>4, GreatestExists
    <3>2. p \in UpTo(body, j) /\ p < m
        BY <1>1, <1>2, <1>5, <2>1 DEF UpTo, SameKind
    <3>3. UpTo(body, p) = Rest
      <4>1. p \in UpTo(body, m) /\ p < m /\ p \in Nat
          BY <2>1, <1>1, <1>2, <3>2
      <4>2. ASSUME NEW e \in UpTo(body, p) PROVE e \in Rest
          BY <1>2, <1>5, <4>1 DEF UpTo
      <4>3. ASSUME NEW e \in Rest PROVE e \in UpTo(body, p)
          BY <3>1, <4>1, <2>1, <1>2, <1>5 DEF UpTo
      <4> QED BY <4>2, <4>3
    <3>4. Rank(body, p) = Rank(body, m) - 1
        BY <2>2, <3>3 DEF Rank
    <3>5. p \notin Enough
        BY <1>1, <1>2, <1>4, <1>5, <3>2
    <3>6. ~ (r <= Rank(body, p))
        BY <3>2, <3>5
    <3> QED BY <1>1, <1>2, <1>5, <3>2, <3>4, <3>6
  <2> QED BY <2>3, <2>4
<1>7. Rank(body, m) = r /\ m # j
    BY <1>2, <1>5, <1>6
<1> QED BY <1>1, <1>2, <1>5, <1>7
(* And every group before that of an access has an earlier member.         *)
LEMMA GroupReached ==
    ASSUME NEW body, IsLoop(body), NEW j \in Places(body),
           NEW g \in Nat, g < Group(body, j)
    PROVE  \E i \in Places(body) :
              i < j /\ SameKind(body, i, j) /\ Group(body, i) = g
<1> DEFINE c == KindLimit(body, j)
           r == g * c + 1
<1>1. c \in Nat \ {0} /\ g * c \in Nat
    BY LimitType
<1>2. /\ Group(body, j) \in Nat
      /\ Group(body, j) * c < Rank(body, j)
      /\ Rank(body, j) \in Nat
    BY GroupType, RankType
<1>3. g * c <= Group(body, j) * c
    BY <1>1, <1>2, TimesMonotone
<1>4. r \in Nat \ {0} /\ r < Rank(body, j)
  <2>1. (g + 1) * c <= Group(body, j) * c /\ (g + 1) * c = g * c + c
      BY <1>1, <1>2, TimesMonotone, TimesSucc
  <2>2. Group(body, j) * c \in Nat
      BY <1>1, <1>2
  <2> HIDE DEF c
  <2> QED BY <1>1, <1>2, <2>1, <2>2
<1>5. PICK i \in Places(body) : i < j /\ SameKind(body, i, j) /\ Rank(body, i) = r
  <2> HIDE DEF r
  <2> QED BY <1>4, RankReached
<1>6. Group(body, i) = (r - 1) \div c
    BY <1>5 DEF Group, KindLimit, SameKind
<1>7. (r - 1) \div c = g
  <2>1. r - 1 = g * c
      BY <1>1
  <2> HIDE DEF c, r
  <2> QED BY <1>1, <2>1, QuotientUnique
<1> QED BY <1>5, <1>6, <1>7

LEMMA GroupMonotone ==
    ASSUME NEW body, IsLoop(body), NEW i \in Places(body), NEW j \in Places(body),
           SameKind(body, i, j), i <= j
    PROVE  Group(body, i) <= Group(body, j)
<1>1. /\ Rank(body, i) \in Nat /\ Rank(body, j) \in Nat
      /\ Rank(body, i) - 1 \in Nat /\ Rank(body, j) - 1 \in Nat
  <2>1. Rank(body, i) \in Nat \ {0} /\ Rank(body, j) \in Nat \ {0}
      BY RankType
  <2> QED BY <2>1
<1>2. Rank(body, i) <= Rank(body, j)
  <2>1. CASE i = j
      BY <1>1, <2>1
  <2>2. CASE i # j
      BY <2>2, RankIncreases, RankType DEF IsLoop, Places
  <2> QED BY <2>1, <2>2
<1>3. KindLimit(body, i) \in Nat \ {0} /\ KindLimit(body, j) = KindLimit(body, i)
    BY LimitType DEF KindLimit, SameKind
<1>4. Rank(body, i) - 1 <= Rank(body, j) - 1
    BY <1>1, <1>2
<1> QED BY <1>1, <1>3, <1>4, QuotientMonotone DEF Group, KindLimit

-----------------------------------------------------------------------------
(* What the constraints about groups say of two accesses of a kind.        *)

(* Later groups start later, not only the next one.                        *)
LEMMA GroupsChain ==
    ASSUME NEW body, IsLoop(body), NEW at \in [Places(body) -> Nat],
           NEW ii \in Nat, GroupsInOrder(body, at, ii),
           NEW i \in Places(body), NEW j \in Places(body),
           SameKind(body, i, j), Group(body, i) < Group(body, j)
    PROVE  at[i] < at[j]
<1> DEFINE Bad == {m \in Places(body) : SameKind(body, i, m) /\ Group(body, i) < Group(body, m)
                                         /\ ~ (at[i] < at[m])}
<1>1. SUFFICES ASSUME Bad # {} PROVE FALSE
    BY <1>1
<1>2. body.size \in Nat /\ Bad \in SUBSET (0 .. body.size)
    BY DEF IsLoop, Places
<1>3. PICK m \in Bad : \A e \in Bad : m <= e
  <2> HIDE DEF Bad
  <2> QED BY <1>1, <1>2, LeastExists
<1>4. /\ Group(body, i) \in Nat /\ Group(body, m) \in Nat
      /\ at[i] \in Nat /\ at[m] \in Nat /\ m \in Nat
  <2>1. Group(body, i) \in Nat /\ Group(body, m) \in Nat
      BY GroupType
  <2> QED BY <2>1 DEF Places
<1>5. PICK p \in Places(body) :
          p < m /\ SameKind(body, p, m) /\ Group(body, p) = Group(body, m) - 1
    BY <1>4, GroupReached
<1>6. at[p] + 1 <= at[m] /\ at[p] \in Nat /\ p \in Nat
  <2>1. m \in Places(body) /\ Group(body, p) \in Nat
      BY GroupType
  <2>2. Group(body, m) = Group(body, p) + 1
      BY <1>4, <1>5, <2>1
  <2>3. at[p] + 1 <= at[m]
      BY <1>5, <2>1, <2>2 DEF GroupsInOrder
  <2>4. p \in Nat
      BY DEF IsLoop, Places
  <2> QED BY <2>3, <2>4
<1>7. CASE Group(body, i) = Group(body, p)
  <2>1. Group(body, m) = Group(body, i) + 1
      BY <1>4, <1>5, <1>7
  <2>2. at[i] + 1 <= at[m]
      BY <2>1 DEF GroupsInOrder
  <2> QED BY <1>4, <2>2
<1>8. CASE Group(body, i) < Group(body, p)
  <2>1. SameKind(body, i, p) /\ p \notin Bad
      BY <1>3, <1>4, <1>5, <1>6 DEF SameKind
  <2>2. at[i] < at[p]
      BY <1>8, <2>1
  <2> QED BY <1>4, <1>6, <2>2
<1> QED BY <1>4, <1>5, <1>7, <1>8

(* Some access is in the last group.                                       *)
LEMMA LastGroupExists ==
    ASSUME NEW body, IsLoop(body), NEW i \in Places(body)
    PROVE  \E z \in Places(body) : SameKind(body, i, z) /\ InLastGroup(body, z)
<1> DEFINE Same == {j \in Places(body) : SameKind(body, i, j)}
<1>1. body.size \in Nat /\ Same \in SUBSET (0 .. body.size) /\ Same # {}
    BY DEF IsLoop, Places, SameKind
<1>2. PICK z \in Same : \A e \in Same : e <= z
  <2> HIDE DEF Same
  <2> QED BY <1>1, GreatestExists
<1>3. ASSUME NEW j \in Places(body), SameKind(body, z, j)
      PROVE  Group(body, j) <= Group(body, z)
  <2>1. j \in Same /\ SameKind(body, j, z)
      BY <1>3 DEF SameKind
  <2> QED BY <1>2, <2>1, GroupMonotone
<1> QED BY <1>3 DEF InLastGroup

(* If there is more than one group, every access of the kind starts less   *)
(* than an interval after every other: the next iteration does not catch   *)
(* up with this one.                                                       *)
LEMMA GroupsWithinInterval ==
    ASSUME NEW body, IsLoop(body), NEW at \in [Places(body) -> Nat],
           NEW ii \in Nat, GroupsInOrder(body, at, ii),
           NEW i \in Places(body), NEW j \in Places(body),
           SameKind(body, i, j), Group(body, i) # Group(body, j)
    PROVE  at[i] < at[j] + ii
<1>1. PICK z \in Places(body) : SameKind(body, i, z) /\ InLastGroup(body, z)
    BY LastGroupExists
<1>2. /\ Group(body, i) \in Nat /\ Group(body, j) \in Nat /\ Group(body, z) \in Nat
      /\ Group(body, i) <= Group(body, z) /\ Group(body, j) <= Group(body, z)
      /\ Group(body, z) > 0
  <2>1. Group(body, i) \in Nat /\ Group(body, j) \in Nat /\ Group(body, z) \in Nat
      BY GroupType
  <2>2. Group(body, i) <= Group(body, z) /\ Group(body, j) <= Group(body, z)
      BY <1>1 DEF InLastGroup, SameKind
  <2> QED BY <2>1, <2>2
<1>3. PICK f \in Places(body) :
          SameKind(body, f, j) /\ Group(body, f) = 0 /\ at[f] <= at[j]
  <2>1. CASE Group(body, j) = 0
      BY <2>1 DEF SameKind
  <2>2. CASE Group(body, j) > 0
    <3>1. PICK f \in Places(body) : SameKind(body, f, j) /\ Group(body, f) = 0
        BY <2>2, GroupReached
    <3>2. at[f] < at[j]
        BY <2>2, <3>1, GroupsChain
    <3> QED BY <3>1, <3>2
  <2> QED BY <1>2, <2>1, <2>2
<1>4. PICK y \in Places(body) :
          SameKind(body, y, j) /\ InLastGroup(body, y) /\ Group(body, y) > 0
          /\ at[i] <= at[y]
  <2>1. CASE Group(body, i) = Group(body, z)
    <3>1. InLastGroup(body, i)
        BY <1>1, <2>1 DEF InLastGroup, SameKind
    <3> QED BY <1>2, <2>1, <3>1
  <2>2. CASE Group(body, i) < Group(body, z)
    <3>1. at[i] < at[z]
        BY <1>1, <2>2, GroupsChain
    <3>2. SameKind(body, z, j)
        BY <1>1 DEF SameKind
    <3> QED BY <1>1, <1>2, <3>1, <3>2
  <2> QED BY <1>2, <2>1, <2>2
<1>5. UnitFree(body, at, y) < at[f] + ii
    BY <1>3, <1>4 DEF GroupsInOrder, SameKind
<1>6. at[y] <= UnitFree(body, at, y) /\ UnitFree(body, at, y) \in Nat
  <2>1. Latency(body, y) \in Nat /\ at[y] \in Nat
      BY DEF Latency
  <2> QED BY <2>1 DEF UnitFree, End
<1> QED BY <1>3, <1>4, <1>5, <1>6
(* A group is no larger than the number of units.                          *)
LEMMA GroupSize ==
    ASSUME NEW body, IsLoop(body), NEW i \in Places(body), NEW Members,
           Members = {j \in Places(body) : SameKind(body, i, j) /\ Group(body, j) = Group(body, i)}
    PROVE  IsFiniteSet(Members) /\ Cardinality(Members) <= KindLimit(body, i)
<1> DEFINE c == KindLimit(body, i)
           low == Group(body, i) * c
           f == [j \in Members |-> Rank(body, j)]
<1>1. c \in Nat \ {0} /\ low \in Nat
    BY LimitType, GroupType
<1>2. ASSUME NEW j \in Members PROVE Rank(body, j) \in low + 1 .. low + c
  <2>1. j \in Places(body) /\ KindLimit(body, j) = c /\ Group(body, j) * c = low
      BY DEF KindLimit, SameKind
  <2>2. low < Rank(body, j) /\ Rank(body, j) <= low + c /\ Rank(body, j) \in Nat
      BY <2>1, GroupType, RankType
  <2> HIDE DEF c, low
  <2> QED BY <1>1, <2>2
<1>3. ASSUME NEW j \in Members, NEW k \in Members, Rank(body, j) = Rank(body, k)
      PROVE  j = k
  <2>1. /\ j \in Places(body) /\ k \in Places(body) /\ j \in Nat /\ k \in Nat
        /\ SameKind(body, j, k) /\ SameKind(body, k, j)
      BY DEF SameKind, Places, IsLoop
  <2>2. Rank(body, j) \in Nat /\ Rank(body, k) \in Nat
      BY <2>1, RankType
  <2>3. ~ (j < k) /\ ~ (k < j)
      BY <1>3, <2>1, <2>2, RankIncreases
  <2> QED BY <2>1, <2>3
<1>4. f \in Injection(Members, low + 1 .. low + c)
  <2> HIDE DEF low, c
  <2> QED BY <1>2, <1>3 DEF Injection, IsInjective
<1>5. IsFiniteSet(low + 1 .. low + c) /\ Cardinality(low + 1 .. low + c) = c
  <2> HIDE DEF low, c
  <2>1. low + 1 \in Int /\ low + c \in Int /\ ~ (low + 1 > low + c) /\ (low + c) - (low + 1) + 1 = c
      BY <1>1
  <2> QED BY <2>1, FS_Interval
<1>6. IsFiniteSet(Members) /\ Cardinality(Members) <= Cardinality(low + 1 .. low + c)
  <2> HIDE DEF low, c, f
  <2> QED BY <1>4, <1>5, FS_Injection
<1> QED BY <1>5, <1>6

-----------------------------------------------------------------------------
(* Where it understands them, the solver is asked about the addresses the  *)
(* accesses have: a distance between them is one it finds.                 *)
LEMMA ConstantOfNat ==
    ASSUME NEW c \in 0 .. Word - 1 PROVE Constant(c) = c
BY SolverAssumption DEF Constant

LEMMA ConstantOfNegative ==
    ASSUME NEW c \in -Word .. -1 PROVE Constant(c) = c + Word
<1>1. c + Word \in 0 .. Word - 1 /\ c \in Int /\ Word \in Nat \ {0}
    BY SolverAssumption
<1>2. (c + Word) % Word = c + Word
    BY <1>1
<1>3. c % Word = (c + Word) % Word
    BY <1>1
<1> QED BY <1>2, <1>3 DEF Constant

LEMMA FoundWhereUnderstood ==
    ASSUME NEW body, IsLoop(body), NEW i \in Places(body), NEW j \in Places(body),
           Understood(body, i, j), body.ops[i].step # 0, body.ops[j].step # 0,
           NEW k \in 0 .. Trip - 1, NEW l \in 0 .. Trip - 1, k <= l,
           Address(body, i, k) = Address(body, j, l)
    PROVE  SolverAddress(body, i, k) = SolverAddress(body, j, l)
<1> DEFINE p == body.ops[i]
           q == body.ops[j]
<1>1. /\ p.base \in Int /\ q.base \in Int /\ p.step \in Int /\ q.step \in Int
      /\ k \in Nat /\ l \in Nat /\ Word \in Nat \ {0}
  <2>1. /\ body.ops[i] \in [kind : Kinds, base : Int, step : Int]
        /\ body.ops[j] \in [kind : Kinds, base : Int, step : Int]
      BY DEF IsLoop, Places
  <2>2. k \in Nat /\ l \in Nat
      BY TripAssumption
  <2> QED BY <2>1, <2>2, SolverAssumption
<1>2. p.base + k * p.step = q.base + l * q.step
    BY DEF Address
<1>3. Constant(p.base) + k * Constant(p.step) = Constant(q.base) + l * Constant(q.step)
  <2>1. CASE p.base = q.base /\ p.step = q.step
    <3>1. k * p.step = l * p.step /\ p.step # 0
        BY <1>1, <1>2, <2>1
    <3>2. k = l
      <4> HIDE DEF p, q
      <4> QED BY <1>1, <3>1, TimesCancels
    <3> QED BY <2>1, <3>2
  <2>2. CASE {p.step, q.step} \subseteq 0 .. Word - 1 /\ {p.base, q.base} \subseteq 0 .. Word - 1
    <3>1. /\ Constant(p.base) = p.base /\ Constant(q.base) = q.base
          /\ Constant(p.step) = p.step /\ Constant(q.step) = q.step
        BY <2>2, ConstantOfNat
    <3> QED BY <1>2, <3>1
  <2>3. CASE {p.step, q.step} \subseteq 0 .. Word - 1 /\ {p.base, q.base} \subseteq -Word .. -1
    <3>1. /\ Constant(p.base) = p.base + Word /\ Constant(q.base) = q.base + Word
          /\ Constant(p.step) = p.step /\ Constant(q.step) = q.step
        BY <2>3, ConstantOfNat, ConstantOfNegative
    <3>2. \A a, b, x, y \in Int : a + x = b + y => (a + Word) + x = (b + Word) + y
        BY <1>1
    <3>3. k * p.step \in Int /\ l * q.step \in Int /\ p.base \in Int /\ q.base \in Int
        BY <1>1
    <3> HIDE DEF p, q
    <3>4. (p.base + Word) + k * p.step = (q.base + Word) + l * q.step
        BY <1>2, <3>2, <3>3
    <3> QED BY <3>1, <3>4
  <2>4. \/ p.base = q.base /\ p.step = q.step
        \/ /\ {p.step, q.step} \subseteq 0 .. Word - 1
           /\ \/ {p.base, q.base} \subseteq 0 .. Word - 1
              \/ {p.base, q.base} \subseteq -Word .. -1
      BY DEF Understood
  <2> HIDE DEF p, q
  <2> QED BY <2>1, <2>2, <2>3, <2>4
<1> QED BY <1>3 DEF SolverAddress

(* The one distance that is constrained protects a load from the stores at *)
(* every distance.                                                         *)
LEMMA AllDistancesCovered ==
    ASSUME NEW body, IsLoop(body), NEW at \in [Places(body) -> Nat],
           NEW ii \in Nat, MeetsConstraints(body, at, ii),
           NEW i \in Stores(body), NEW j \in Loads(body), Understood(body, i, j),
           NEW k \in 0 .. Trip - 1, NEW l \in 0 .. Trip - 1,
           k <= l, k = l => i < j,
           Address(body, i, k) = Address(body, j, l)
    PROVE  End(body, at, i) <= at[j] + (l - k) * ii
<1>1. /\ i \in Places(body) /\ j \in Places(body) /\ i \in Nat /\ j \in Nat
      /\ at[i] \in Nat /\ at[j] \in Nat /\ End(body, at, i) \in Nat
      /\ Trip \in Nat /\ k \in Nat /\ l \in Nat /\ l - k \in Nat
      /\ Horizon \in Nat /\ k \in 0 .. Horizon /\ l - k \in 0 .. Horizon
  <2>1. i \in Places(body) /\ j \in Places(body)
      BY DEF Stores, Loads
  <2>2. at[i] \in Nat /\ at[j] \in Nat
      BY <2>1
  <2>3. End(body, at, i) \in Nat
      BY <2>2 DEF End, Latency
  <2> QED BY <2>1, <2>2, <2>3, TripAssumption, SolverAssumption DEF Places
<1>2. MinDistance(i, j) \in {0, 1} /\ MinDistance(i, j) <= l - k
    BY <1>1 DEF MinDistance
<1>3. \E d \in DependenceDistance(body, i, j) :
          d \in Nat /\ MinDistance(i, j) <= d /\ d <= l - k
  <2>1. CASE body.ops[i].step = 0 \/ body.ops[j].step = 0
      BY <1>2, <2>1 DEF DependenceDistance
  <2>2. CASE body.ops[i].step # 0 /\ body.ops[j].step # 0
    <3>1. k + (l - k) = l
        BY <1>1
    <3>2. l - k \in MinDistance(i, j) .. Horizon
        BY <1>1, <1>2
    <3>3. SolverAddress(body, i, k) = SolverAddress(body, j, k + (l - k))
        BY <1>1, <2>2, <3>1, FoundWhereUnderstood
    <3>4. l - k \in Distances(body, i, j)
        BY <1>1, <3>2, <3>3 DEF Distances
    <3>5. /\ Distances(body, i, j) \in SUBSET (0 .. Horizon)
          /\ \A d \in Distances(body, i, j) : MinDistance(i, j) <= d
        BY <1>1, <1>2 DEF Distances
    <3>6. PICK d \in Distances(body, i, j) : \A e \in Distances(body, i, j) : d <= e
        BY <1>1, <3>4, <3>5, LeastExists
    <3>7. d \in DependenceDistance(body, i, j)
        BY <2>2, <3>6 DEF DependenceDistance
    <3> QED BY <3>4, <3>5, <3>6, <3>7
  <2> QED BY <2>1, <2>2
<1>4. PICK d \in DependenceDistance(body, i, j) :
          d \in Nat /\ MinDistance(i, j) <= d /\ d <= l - k
    BY <1>3
<1>5. d \in Nat /\ d * ii <= (l - k) * ii /\ d * ii \in Nat /\ (l - k) * ii \in Nat
    BY <1>1, <1>4, TimesMonotone
<1>6. CASE body.methods
  <2>1. End(body, at, i) <= at[j] + d * ii
      BY <1>4, <1>6 DEF MeetsConstraints, HazardsKept
  <2> QED BY <1>1, <1>5, <2>1
<1>7. CASE ~ body.methods /\ d = 0
  <2>1. i < j
      BY <1>1, <1>4, <1>7 DEF MinDistance
  <2>2. End(body, at, i) <= at[j]
      BY <1>7, <2>1 DEF MeetsConstraints, ReadAfterWriteInBlock
  <2> QED BY <1>1, <1>5, <2>2
<1>8. CASE ~ body.methods /\ d # 0
  <2>1. d > 0
      BY <1>4, <1>8
  <2>2. End(body, at, i) < at[j] + d * ii
      BY <1>4, <1>8, <2>1 DEF MeetsConstraints, ReadAfterWriteCarried
  <2> QED BY <1>1, <1>5, <2>2
<1> QED BY <1>4, <1>6, <1>7, <1>8

-----------------------------------------------------------------------------
(* The runs of a loop.                                                     *)

LEMMA InitEstablishes == Init => IInv
<1> SUFFICES ASSUME Init PROVE IInv
    OBVIOUS
<1>1. TypeOK
    BY TripAssumption, BoundsAssumption DEF Init, TypeOK, Accesses
<1>2. Paced
    BY DEF Init, Paced
<1> QED BY <1>1, <1>2 DEF Init, IInv

LEMMA IssuePreserves == IInv /\ Issue => IInv'
<1> SUFFICES ASSUME IInv, Issue PROVE IInv'
    OBVIOUS
<1>1. /\ issued \in Seq(Nat) /\ Len(issued) \in Nat /\ now \in Nat
      /\ II \in Nat \ {0} /\ Trip \in Nat
      /\ loop' = loop /\ start' = start /\ II' = II /\ now' = now
      /\ reg0' = reg0 /\ reg1' = reg1 /\ got' = got
    BY TripAssumption, IntervalsAssumption DEF IInv, TypeOK, Issue, design
<1>2. /\ issued' \in Seq(Nat) /\ Len(issued') = Len(issued) + 1
      /\ issued'[Len(issued) + 1] = now
      /\ \A k \in 1 .. Len(issued) : issued'[k] = issued[k] /\ issued[k] \in Nat
    BY <1>1 DEF Issue
<1>3. TypeOK'
  <2>1. Accesses \subseteq Accesses'
      BY <1>1, <1>2 DEF Accesses
  <2>2. Len(issued') <= Trip
      BY <1>1, <1>2 DEF Issue
  <2> QED BY <1>1, <1>2, <2>1, <2>2 DEF IInv, TypeOK
<1>4. Paced'
  <2>1. ASSUME NEW k \in 1 .. Len(issued')
        PROVE  issued'[k] <= now'
    <3>1. CASE k = Len(issued) + 1
        BY <1>1, <1>2, <3>1
    <3>2. CASE k # Len(issued) + 1
      <4>1. k \in 1 .. Len(issued)
          BY <1>1, <1>2, <3>2
      <4> QED BY <1>1, <1>2, <4>1 DEF IInv, Paced
    <3> QED BY <3>1, <3>2
  <2>2. ASSUME NEW k \in 1 .. Len(issued'), NEW l \in 1 .. Len(issued'), k <= l
        PROVE  issued'[k] + (l - k) * II <= issued'[l]
    <3>1. CASE l <= Len(issued)
      <4>1. k \in 1 .. Len(issued) /\ l \in 1 .. Len(issued)
          BY <1>1, <1>2, <2>2, <3>1
      <4>2. issued[k] + (l - k) * II <= issued[l]
          BY <2>2, <4>1 DEF IInv, Paced
      <4> QED BY <1>2, <4>1, <4>2
    <3>2. CASE l = Len(issued) + 1 /\ k = l
      <4>1. (l - k) * II = 0
          BY <1>1, <3>2
      <4> QED BY <1>1, <1>2, <3>2, <4>1
    <3>3. CASE l = Len(issued) + 1 /\ k <= Len(issued)
      <4> DEFINE n == Len(issued)
      <4>1. n \in 1 .. Len(issued) /\ k \in 1 .. n /\ issued # <<>>
          BY <1>1, <1>2, <2>2, <3>3
      <4>2. issued[k] + (n - k) * II <= issued[n]
          BY <4>1 DEF IInv, Paced
      <4>3. issued[n] + II <= now
          BY <1>1, <4>1 DEF Issue
      <4>4. (l - k) * II = (n - k) * II + II
        <5>1. l - k = (n - k) + 1 /\ n - k \in Int
            BY <1>1, <3>3, <4>1
        <5> QED BY <1>1, <5>1, TimesSucc
      <4>5. /\ issued[k] \in Nat /\ issued[n] \in Nat /\ (n - k) * II \in Int
            /\ issued'[k] = issued[k] /\ issued'[l] = now
          BY <1>1, <1>2, <3>3, <4>1
      <4> DEFINE x == (n - k) * II
                 y == (l - k) * II
      <4>6. /\ x \in Int /\ y = x + II /\ II \in Nat
            /\ issued[k] + x <= issued[n] /\ issued[n] + II <= now
            /\ issued[k] \in Nat /\ issued[n] \in Nat /\ now \in Nat
          BY <1>1, <4>2, <4>3, <4>4, <4>5
      <4>7. issued[k] + y <= now
        <5> HIDE DEF x, y, n
        <5> QED BY <4>6
      <4> QED BY <4>5, <4>7
    <3> QED BY <1>1, <1>2, <2>2, <3>1, <3>2, <3>3
  <2> QED BY <1>1, <2>1, <2>2 DEF Paced
<1> QED BY <1>1, <1>3, <1>4 DEF IInv

LEMMA PortsPreserve == IInv /\ PortsEdge => IInv'
<1> SUFFICES ASSUME IInv, PortsEdge PROVE IInv'
    OBVIOUS
<1>1. /\ loop' = loop /\ start' = start /\ II' = II /\ issued' = issued
      /\ now' = now + 1 /\ now \in Nat
      /\ \A k \in 1 .. Len(issued) : issued[k] \in Nat
    BY DEF IInv, TypeOK, PortsEdge, design
<1>2. Accesses' = Accesses
    BY <1>1 DEF Accesses
<1>3. reg0' \subseteq Accesses /\ reg1' \subseteq Accesses
  <2>1. reg0' \subseteq Starting("store")
      BY DEF PortsEdge, OnPort
  <2> QED BY <2>1 DEF IInv, TypeOK, PortsEdge, Starting
<1>4. DOMAIN got' \subseteq Accesses
  <2>1. DOMAIN got' = DOMAIN got \cup Starting("load")
      BY DEF PortsEdge
  <2> QED BY <2>1 DEF IInv, TypeOK, Starting
<1>5. TypeOK'
    BY <1>1, <1>2, <1>3, <1>4 DEF IInv, TypeOK
<1>6. Paced'
    BY <1>1 DEF IInv, Paced
<1> QED BY <1>1, <1>5, <1>6 DEF IInv

\* The memory, which the bench writes as well, is no part of the invariant.
LEMMA RestPreserves ==
    IInv /\ UNCHANGED <<design, now, issued, reg0, reg1, got>> => IInv'
BY DEF IInv, TypeOK, Paced, design, Accesses

THEOREM Invariance == Spec => []IInv
<1>1. IInv /\ [Next]_vars => IInv'
    BY IssuePreserves, PortsPreserve, RestPreserves DEF Next, Edge, vars, design
<1> QED BY <1>1, InitEstablishes, PTL DEF Spec

LEMMA BenchAtFirst == BenchInit => IInv
<1> SUFFICES ASSUME BenchInit PROVE IInv
    OBVIOUS
<1>1. loop \in Loops
    BY ExperimentsAssumption DEF BenchInit
<1>2. TypeOK
    BY <1>1, TripAssumption, BoundsAssumption DEF BenchInit, TypeOK, Accesses
<1>3. Paced
    BY DEF BenchInit, Paced
<1> QED BY <1>2, <1>3 DEF BenchInit, IInv

LEMMA BenchStepKeeps == IInv /\ [BenchNext]_allVars => IInv'
<1> SUFFICES ASSUME IInv, [BenchNext]_allVars PROVE IInv'
    OBVIOUS
<1>1. CASE DesignIssues
    BY <1>1, IssuePreserves DEF DesignIssues
<1>2. CASE RunningEdge
    BY <1>2, PortsPreserve DEF RunningEdge
<1>3. CASE RestingEdge
    BY <1>3, RestPreserves DEF RestingEdge
<1>4. CASE UNCHANGED allVars
    BY <1>4, RestPreserves DEF allVars, vars, design
<1> QED BY <1>1, <1>2, <1>3, <1>4 DEF BenchNext

THEOREM BenchInvariance == BenchSpec => []IInv
BY BenchAtFirst, BenchStepKeeps, PTL DEF BenchSpec

(* The loop, its schedule and the RAM's registers keep their types.        *)
THEOREM TypeCorrect == (Spec => []TypeOK) /\ (BenchSpec => []TypeOK)
<1>1. IInv => TypeOK
    BY DEF IInv
<1> QED BY <1>1, Invariance, BenchInvariance, PTL

-----------------------------------------------------------------------------
\* What the two theorems below need of an invariant state.
LEMMA Facts ==
    ASSUME IInv
    PROVE  /\ IsLoop(loop) /\ II \in Nat \ {0}
           /\ start \in [Places(loop) -> Nat]
           /\ MeetsConstraints(loop, start, II)
           /\ \A a \in Accesses :
                 /\ a[1] \in Places(loop) /\ a[2] \in 1 .. Len(issued)
                 /\ a[2] \in Nat /\ a[2] - 1 \in 0 .. Trip - 1
                 /\ issued[a[2]] \in Nat /\ start[a[1]] \in Nat
           /\ \A a, b \in Accesses :
                 a[2] <= b[2] => issued[a[2]] + (b[2] - a[2]) * II <= issued[b[2]]
<1>1. IsLoop(loop) /\ II \in Nat \ {0} /\ start \in [Places(loop) -> Nat]
    BY LoopsAssumption, IntervalsAssumption, BoundsAssumption DEF IInv, TypeOK
<1>2. issued \in Seq(Nat) /\ Len(issued) \in Nat /\ Len(issued) <= Trip /\ Trip \in Nat
    BY TripAssumption DEF IInv, TypeOK
<1>3. ASSUME NEW a \in Accesses
      PROVE  /\ a[1] \in Places(loop) /\ a[2] \in 1 .. Len(issued)
             /\ a[2] \in Nat /\ a[2] - 1 \in 0 .. Trip - 1
             /\ issued[a[2]] \in Nat /\ start[a[1]] \in Nat
  <2>1. a[1] \in Places(loop) /\ a[2] \in 1 .. Len(issued)
      BY DEF Accesses
  <2>2. start[a[1]] \in Nat
      BY <1>1, <2>1
  <2>3. issued[a[2]] \in Nat /\ a[2] \in Nat /\ a[2] - 1 \in 0 .. Trip - 1
      BY <1>2, <2>1
  <2> QED BY <2>1, <2>2, <2>3
<1>4. ASSUME NEW a \in Accesses, NEW b \in Accesses, a[2] <= b[2]
      PROVE  issued[a[2]] + (b[2] - a[2]) * II <= issued[b[2]]
    BY <1>3, <1>4 DEF IInv, Paced
<1> QED BY <1>1, <1>3, <1>4 DEF IInv

LEMMA EveryDependence == IInv => DependencesMet
<1> SUFFICES ASSUME IInv, NEW a \in Accesses, NEW b \in Accesses,
                    loop.ops[a[1]].kind = "store", loop.ops[b[1]].kind = "load",
                    Before(a, b), Where(a) = Where(b), Understood(loop, a[1], b[1])
             PROVE  EndCycle(a) <= StartCycle(b)
    BY DEF DependencesMet, ReadsFrom
<1> DEFINE k == a[2] - 1
           l == b[2] - 1
<1>1. /\ a[1] \in Stores(loop) /\ b[1] \in Loads(loop)
      /\ k \in 0 .. Trip - 1 /\ l \in 0 .. Trip - 1
      /\ a[2] \in Nat /\ b[2] \in Nat /\ II \in Nat
      /\ issued[a[2]] \in Nat /\ issued[b[2]] \in Nat
      /\ start[a[1]] \in Nat /\ start[b[1]] \in Nat
    BY Facts DEF Stores, Loads
<1>2. a[2] <= b[2] /\ k <= l /\ (k = l => a[1] < b[1]) /\ l - k = b[2] - a[2]
    BY <1>1 DEF Before
<1>3. Address(loop, a[1], k) = Address(loop, b[1], l)
    BY DEF Where
<1>4. End(loop, start, a[1]) <= start[b[1]] + (l - k) * II
  <2> HIDE DEF k, l
  <2> QED BY <1>1, <1>2, <1>3, Facts, AllDistancesCovered
<1>5. issued[a[2]] + (l - k) * II <= issued[b[2]]
    BY <1>2, Facts
<1>6. (l - k) * II \in Int /\ End(loop, start, a[1]) \in Nat
    BY <1>1, <1>2 DEF End, Latency
<1> HIDE DEF k, l
<1> QED BY <1>1, <1>4, <1>5, <1>6 DEF EndCycle, StartCycle

(* No load starts before the stores it depends on have ended, at whatever  *)
(* distance: the scheduler constrains the least distance only, and the     *)
(* hardware may issue iterations later than the interval.  For accesses    *)
(* the solver is told the addresses of: where a stride is negative, or the *)
(* bases lie on the two sides of 0, it may find no distance.               *)
THEOREM DependencesAreMet ==
    (Spec => []DependencesMet) /\ (BenchSpec => []DependencesMet)
BY EveryDependence, Invariance, BenchInvariance, PTL

(* Accesses of a kind that start in one cycle are in one group.            *)
LEMMA OneGroupAtATime ==
    ASSUME IInv, NEW kind \in Kinds,
           NEW a \in Starting(kind), NEW b \in Starting(kind)
    PROVE  /\ SameKind(loop, a[1], b[1])
           /\ Group(loop, a[1]) = Group(loop, b[1])
           /\ a[1] = b[1] => a = b
<1>1. /\ a \in Accesses /\ b \in Accesses /\ SameKind(loop, a[1], b[1])
      /\ SameKind(loop, b[1], a[1])
      /\ issued[a[2]] + start[a[1]] = now /\ issued[b[2]] + start[b[1]] = now
    BY DEF Starting, StartCycle, SameKind
<1>2. ASSUME NEW x \in Accesses, NEW y \in Accesses, x[2] < y[2]
      PROVE  issued[x[2]] + II <= issued[y[2]]
  <2>1. /\ x[2] \in Nat /\ y[2] \in Nat /\ II \in Nat \ {0}
        /\ issued[x[2]] \in Nat /\ issued[y[2]] \in Nat
        /\ issued[x[2]] + (y[2] - x[2]) * II <= issued[y[2]]
      BY <1>2, Facts
  <2>2. 1 * II <= (y[2] - x[2]) * II /\ 1 * II = II /\ (y[2] - x[2]) * II \in Int
    <3>1. 1 <= y[2] - x[2] /\ y[2] - x[2] \in Int
        BY <1>2, <2>1
    <3> QED BY <2>1, <3>1, TimesMonotone
  <2> QED BY <2>1, <2>2
<1>3. /\ a[2] \in Nat /\ b[2] \in Nat /\ II \in Nat \ {0}
      /\ issued[a[2]] \in Nat /\ issued[b[2]] \in Nat
      /\ start[a[1]] \in Nat /\ start[b[1]] \in Nat
      /\ a[1] \in Places(loop) /\ b[1] \in Places(loop)
    BY <1>1, Facts
<1>4. Group(loop, a[1]) = Group(loop, b[1])
  <2> SUFFICES ASSUME Group(loop, a[1]) # Group(loop, b[1]) PROVE FALSE
      OBVIOUS
  <2>1. /\ start[a[1]] < start[b[1]] + II
        /\ start[b[1]] < start[a[1]] + II
        /\ Group(loop, a[1]) < Group(loop, b[1]) => start[a[1]] < start[b[1]]
        /\ Group(loop, b[1]) < Group(loop, a[1]) => start[b[1]] < start[a[1]]
    <3>1. GroupsInOrder(loop, start, II) /\ IsLoop(loop) /\ II \in Nat
          /\ start \in [Places(loop) -> Nat]
        BY Facts DEF MeetsConstraints
    <3> QED BY <1>1, <1>3, <3>1, GroupsWithinInterval, GroupsChain
  <2>2. Group(loop, a[1]) \in Nat /\ Group(loop, b[1]) \in Nat
      BY <1>3, Facts, GroupType
  <2>3. CASE a[2] = b[2]
      BY <1>1, <1>3, <2>1, <2>2, <2>3
  <2>4. CASE a[2] < b[2]
      BY <1>1, <1>2, <1>3, <2>1, <2>4
  <2>5. CASE b[2] < a[2]
      BY <1>1, <1>2, <1>3, <2>1, <2>5
  <2> QED BY <1>3, <2>3, <2>4, <2>5
<1>5. a[1] = b[1] => a = b
  <2> SUFFICES ASSUME a[1] = b[1] PROVE a = b
      OBVIOUS
  <2>1. issued[a[2]] = issued[b[2]]
      BY <1>1, <1>3
  <2>2. ~ (a[2] < b[2]) /\ ~ (b[2] < a[2])
      BY <1>1, <1>2, <1>3, <2>1
  <2>3. a[2] = b[2]
      BY <1>3, <2>2
  <2> QED BY <1>1, <2>3 DEF Accesses
<1> QED BY <1>1, <1>4, <1>5

(* No cycle needs more units than there are, however many iterations are   *)
(* in flight: what starts in one cycle is one group at most.               *)
THEOREM UnitsAlwaysSuffice ==
    (Spec => []UnitsSuffice) /\ (BenchSpec => []UnitsSuffice)
<1>1. IInv => UnitsSuffice
  <2> SUFFICES ASSUME IInv, NEW kind \in Kinds
               PROVE  Cardinality(Starting(kind)) <= Limit(loop, kind)
      BY DEF UnitsSuffice
  <2>1. IsLoop(loop) /\ Limit(loop, kind) \in Nat
      BY Facts, CountAssumption DEF Limit, Kinds
  <2>2. CASE Starting(kind) = {}
      BY <2>1, <2>2, FS_EmptySet
  <2>3. CASE Starting(kind) # {}
    <3>1. PICK a \in Starting(kind) : TRUE
        BY <2>3
    <3>2. a[1] \in Places(loop) /\ loop.ops[a[1]].kind = kind
        BY Facts DEF Starting
    <3> DEFINE Members == {j \in Places(loop) : SameKind(loop, a[1], j)
                                                /\ Group(loop, j) = Group(loop, a[1])}
               f == [b \in Starting(kind) |-> b[1]]
    <3>3. IsFiniteSet(Members) /\ Cardinality(Members) <= KindLimit(loop, a[1])
        BY <2>1, <3>2, GroupSize
    <3>4. KindLimit(loop, a[1]) = Limit(loop, kind)
        BY <3>2 DEF KindLimit
    <3>5. ASSUME NEW b \in Starting(kind) PROVE b[1] \in Members
      <4>1. b[1] \in Places(loop)
          BY Facts DEF Starting
      <4> QED BY <4>1, OneGroupAtATime
    <3>6. f \in Injection(Starting(kind), Members)
      <4>1. \A b, c \in Starting(kind) : b[1] = c[1] => b = c
          BY OneGroupAtATime
      <4> HIDE DEF Members
      <4> QED BY <3>5, <4>1 DEF Injection, IsInjective
    <3>7. IsFiniteSet(Starting(kind)) /\ Cardinality(Starting(kind)) <= Cardinality(Members)
      <4> HIDE DEF Members, f
      <4> QED BY <3>3, <3>6, FS_Injection
    <3>8. Cardinality(Members) \in Nat /\ Cardinality(Starting(kind)) \in Nat
      <4> HIDE DEF Members
      <4> QED BY <3>3, <3>7, FS_CardinalityType
    <3> HIDE DEF Members
    <3> QED BY <2>1, <3>3, <3>4, <3>7, <3>8
  <2> QED BY <2>2, <2>3
<1> QED BY <1>1, Invariance, BenchInvariance, PTL

-----------------------------------------------------------------------------
(***************************************************************************)
(* The values the loop reads from its RAM and leaves in it: those of       *)
(* executing the accesses one after the other.                             *)
(***************************************************************************)

(* The counts given to the scheduler are those of the ports of RAM.v.      *)
CountsArePorts == Count["load"] = 1 /\ Count["store"] = 1

-----------------------------------------------------------------------------
(* Time and program order.                                                 *)

\* With one unit, or one port of a method, every group is one access.
LEMMA OneInAGroup ==
    ASSUME IInv, CountsArePorts,
           NEW i \in Places(loop), NEW j \in Places(loop), SameKind(loop, i, j)
    PROVE  i < j => Group(loop, i) < Group(loop, j)
<1> SUFFICES ASSUME i < j PROVE Group(loop, i) < Group(loop, j)
    OBVIOUS
<1>1. IsLoop(loop)
    BY Facts
<1>2. KindLimit(loop, i) = 1 /\ KindLimit(loop, j) = 1
    BY <1>1 DEF CountsArePorts, KindLimit, Limit, IsLoop, Places, Kinds
<1>3. Rank(loop, i) < Rank(loop, j)
    BY <1>1, RankIncreases
<1>4. /\ Group(loop, i) \in Nat /\ Group(loop, j) \in Nat
      /\ Rank(loop, i) \in Nat /\ Rank(loop, j) \in Nat
      /\ Group(loop, i) < Rank(loop, i)
      /\ Rank(loop, j) <= Group(loop, j) + 1
  <2>1. /\ Group(loop, i) \in Nat /\ Group(loop, j) \in Nat
        /\ Group(loop, i) * 1 < Rank(loop, i)
        /\ Rank(loop, j) <= Group(loop, j) * 1 + 1
        /\ Rank(loop, i) \in Nat /\ Rank(loop, j) \in Nat
      BY <1>1, <1>2, GroupType, RankType
  <2> QED BY <2>1
<1> QED BY <1>3, <1>4

\* An iteration starts an interval or more after those before it.
LEMMA IntervalBetween ==
    ASSUME IInv, NEW a \in Accesses, NEW b \in Accesses, a[2] < b[2]
    PROVE  issued[a[2]] + II <= issued[b[2]]
<1>1. /\ a[2] \in Nat /\ b[2] \in Nat /\ II \in Nat \ {0}
      /\ issued[a[2]] \in Nat /\ issued[b[2]] \in Nat
      /\ issued[a[2]] + (b[2] - a[2]) * II <= issued[b[2]]
    BY Facts
<1>2. 1 * II <= (b[2] - a[2]) * II /\ 1 * II = II /\ (b[2] - a[2]) * II \in Int
  <2>1. 1 <= b[2] - a[2] /\ b[2] - a[2] \in Int
      BY <1>1
  <2> QED BY <1>1, <2>1, TimesMonotone
<1> QED BY <1>1, <1>2

\* Accesses of a kind start in program order.
LEMMA KindInOrder ==
    ASSUME IInv, CountsArePorts, NEW a \in Accesses, NEW b \in Accesses,
           loop.ops[a[1]].kind = loop.ops[b[1]].kind, Before(a, b)
    PROVE  StartCycle(a) < StartCycle(b)
<1>1. /\ a[2] \in Nat /\ b[2] \in Nat /\ II \in Nat \ {0}
      /\ issued[a[2]] \in Nat /\ issued[b[2]] \in Nat
      /\ start[a[1]] \in Nat /\ start[b[1]] \in Nat
      /\ a[1] \in Places(loop) /\ b[1] \in Places(loop)
      /\ IsLoop(loop) /\ GroupsInOrder(loop, start, II)
      /\ start \in [Places(loop) -> Nat]
    BY Facts DEF MeetsConstraints
<1>2. SameKind(loop, a[1], b[1]) /\ SameKind(loop, b[1], a[1])
    BY DEF SameKind
<1>3. CASE a[2] = b[2]
  <2>1. start[a[1]] < start[b[1]]
      BY <1>1, <1>2, <1>3, OneInAGroup, GroupsChain DEF Before
  <2> QED BY <1>1, <1>3, <2>1 DEF StartCycle
<1>4. CASE a[2] < b[2]
  <2>1. issued[a[2]] + II <= issued[b[2]]
      BY <1>4, IntervalBetween
  <2>2. start[a[1]] < start[b[1]] + II
    <3>1. CASE a[1] = b[1]
        BY <1>1, <3>1
    <3>2. CASE a[1] # b[1]
      <4>1. /\ Group(loop, a[1]) \in Nat /\ Group(loop, b[1]) \in Nat
            /\ a[1] \in Int /\ b[1] \in Int
          BY <1>1, GroupType DEF Places
      <4>2. Group(loop, a[1]) # Group(loop, b[1])
          BY <1>1, <1>2, <3>2, <4>1, OneInAGroup
      <4> QED BY <1>1, <1>2, <4>2, GroupsWithinInterval
    <3> QED BY <3>1, <3>2
  <2> QED BY <1>1, <2>1, <2>2 DEF StartCycle
<1> QED BY <1>3, <1>4 DEF Before

\* Program order is a strict order in which any two accesses are comparable.
LEMMA BeforeIsOrder ==
    ASSUME IInv, NEW a \in Accesses, NEW b \in Accesses
    PROVE  /\ ~ Before(a, a)
           /\ ~ (Before(a, b) /\ Before(b, a))
           /\ a # b => Before(a, b) \/ Before(b, a)
<1>1. /\ a[2] \in Nat /\ b[2] \in Nat /\ a[1] \in Nat /\ b[1] \in Nat
    BY Facts DEF Places, IsLoop
<1>2. a = <<a[1], a[2]>> /\ b = <<b[1], b[2]>>
    BY DEF Accesses
<1>3. a # b => a[1] # b[1] \/ a[2] # b[2]
    BY <1>2
<1> QED BY <1>1, <1>3 DEF Before

LEMMA CycleTypes ==
    ASSUME IInv, NEW a \in Accesses
    PROVE  /\ StartCycle(a) \in Nat /\ EndCycle(a) \in Nat
           /\ EndCycle(a) = StartCycle(a) + Latency(loop, a[1])
<1>1. issued[a[2]] \in Nat /\ start[a[1]] \in Nat
    BY Facts
<1>2. Latency(loop, a[1]) \in Nat
    BY DEF Latency
<1> QED BY <1>1, <1>2 DEF StartCycle, EndCycle, End

\* One access of a kind starts in a cycle at most.
LEMMA OneAtATime ==
    ASSUME IInv, CountsArePorts, NEW a \in Accesses, NEW b \in Accesses,
           loop.ops[a[1]].kind = loop.ops[b[1]].kind, StartCycle(a) = StartCycle(b)
    PROVE  a = b
<1>1. StartCycle(a) \in Nat /\ StartCycle(b) \in Nat
    BY CycleTypes
<1>2. ~ Before(a, b) /\ ~ Before(b, a)
    BY <1>1, KindInOrder
<1> QED BY <1>2, BeforeIsOrder

\* A load starts before a store behind it in program order has ended, unless
\* the store is of a later iteration and the load behind it in the block.
LEMMA LoadsBeforeStores ==
    ASSUME IInv, ~ loop.methods, ~ CarriedAntiDependence(loop),
           NEW a \in Accesses, NEW b \in Accesses,
           loop.ops[a[1]].kind = "load", loop.ops[b[1]].kind = "store",
           Before(a, b), Where(a) = Where(b)
    PROVE  StartCycle(a) < EndCycle(b)
<1>1. /\ a[2] \in Nat /\ b[2] \in Nat /\ II \in Nat \ {0}
      /\ issued[a[2]] \in Nat /\ issued[b[2]] \in Nat
      /\ start[a[1]] \in Nat /\ start[b[1]] \in Nat
      /\ a[1] \in Nat /\ b[1] \in Nat
      /\ a[1] \in Loads(loop) /\ b[1] \in Stores(loop)
      /\ a[2] - 1 \in 0 .. Trip - 1 /\ b[2] - 1 \in 0 .. Trip - 1
      /\ WriteAfterReadInBlock(loop, start)
    BY Facts DEF MeetsConstraints, Loads, Stores, Places
<1>2. a[1] < b[1]
  <2>1. a[1] # b[1]
      BY <1>1 DEF Loads, Stores
  <2>2. ~ (b[1] < a[1])
    <3> SUFFICES ASSUME b[1] < a[1] PROVE FALSE
        OBVIOUS
    <3>1. a[2] - 1 < b[2] - 1
        BY <1>1 DEF Before
    <3> QED BY <1>1, <3>1 DEF CarriedAntiDependence, Where
  <2> QED BY <1>1, <2>1, <2>2
<1>3. start[a[1]] <= start[b[1]]
    BY <1>1, <1>2 DEF WriteAfterReadInBlock
<1>4. issued[a[2]] <= issued[b[2]]
    BY <1>1, IntervalBetween DEF Before
<1> QED BY <1>1, <1>3, <1>4 DEF StartCycle, EndCycle, End, Latency

-----------------------------------------------------------------------------
(* What the registers and the memory hold.                                 *)

StartedBefore(cycles) ==
    {a \in Accesses : loop.ops[a[1]].kind = "store" /\ StartCycle(a) + cycles = now}

\* The stores on their way are those of the last two cycles.
DelayHolds == reg0 = StartedBefore(1) /\ reg1 = StartedBefore(2)

EndedStores(address) == {a \in StoresTo(address) : EndCycle(a) <= now}

\* A word holds what the last store of it that has ended left there.
MemoryHolds ==
    /\ \A i \in Places(loop), k \in 0 .. Trip - 1 : Address(loop, i, k) \in DOMAIN data
    /\ \A address \in DOMAIN data : data[address] = LastOf(EndedStores(address))

StoresAhead(b) == {a \in StoresTo(Where(b)) : Before(a, b)}
Orderly == ~ loop.methods /\ ~ CarriedAntiDependence(loop) /\ AllUnderstood(loop)
AnswersHold ==
    Orderly =>
        \A b \in DOMAIN got : got[b] = LastOf(StoresAhead(b))

Values == DelayHolds /\ MemoryHolds /\ AnswersHold

LEMMA OrderlyStays == ASSUME loop' = loop PROVE Orderly' <=> Orderly
BY DEF Orderly, CarriedAntiDependence, AllUnderstood, Understood, Address, Stores, Loads,
       Places

LEMMA LastIs ==
    ASSUME IInv, NEW S \in SUBSET Accesses, NEW c \in S,
           \A b \in S \ {c} : Before(b, c)
    PROVE  LastOf(S) = c
<1>1. ASSUME NEW a \in S, \A b \in S \ {a} : Before(b, a)
      PROVE  a = c
    BY <1>1, BeforeIsOrder
<1>2. LastOf(S) = CHOOSE a \in S : \A b \in S \ {a} : Before(b, a)
    BY DEF LastOf
<1> QED BY <1>1, <1>2

\* A new iteration adds accesses of the future, behind all others.
LEMMA IssueKeeps == ASSUME IInv, Values, Issue PROVE Values'
<1>1. /\ issued \in Seq(Nat) /\ Len(issued) \in Nat /\ now \in Nat
      /\ loop' = loop /\ start' = start /\ II' = II /\ now' = now
      /\ data' = data /\ reg0' = reg0 /\ reg1' = reg1 /\ got' = got
      /\ start \in [Places(loop) -> Nat]
    BY Facts DEF IInv, TypeOK, Issue, design
<1>2. /\ Len(issued') = Len(issued) + 1
      /\ issued'[Len(issued) + 1] = now
      /\ \A k \in 1 .. Len(issued) : issued'[k] = issued[k]
    BY <1>1 DEF Issue
<1>3. Accesses \subseteq Accesses'
    BY <1>1, <1>2 DEF Accesses
<1>4. ASSUME NEW a \in Accesses' \ Accesses
      PROVE  /\ a[2] = Len(issued) + 1
             /\ a[1] \in Places(loop) /\ StartCycle(a)' = now + start[a[1]]
             /\ StartCycle(a)' \in Nat /\ now <= StartCycle(a)' /\ now < EndCycle(a)'
  <2>1. a[1] \in Places(loop) /\ a[2] = Len(issued) + 1
      BY <1>1, <1>2 DEF Accesses
  <2>2. StartCycle(a)' = now + start[a[1]] /\ EndCycle(a)' = now + End(loop, start, a[1])
      BY <1>1, <1>2, <2>1 DEF StartCycle, EndCycle
  <2>3. start[a[1]] \in Nat /\ End(loop, start, a[1]) \in Nat /\ 0 < End(loop, start, a[1])
      BY <1>1, <2>1 DEF End, Latency
  <2> QED BY <1>1, <2>1, <2>2, <2>3
<1>5. ASSUME NEW a \in Accesses
      PROVE  StartCycle(a)' = StartCycle(a) /\ EndCycle(a)' = EndCycle(a)
  <2>1. a[2] \in 1 .. Len(issued)
      BY DEF Accesses
  <2> QED BY <1>1, <1>2, <2>1 DEF StartCycle, EndCycle
<1>6. \A a : Where(a)' = Where(a)
    BY <1>1 DEF Where
<1>7. DelayHolds'
  <2>1. \A n \in {1, 2} : StartedBefore(n)' = StartedBefore(n)
    <3> TAKE n \in {1, 2}
    <3>1. ASSUME NEW a \in Accesses' \ Accesses PROVE StartCycle(a)' + n # now
        BY <1>1, <1>4
    <3> QED BY <1>1, <1>3, <1>5, <3>1 DEF StartedBefore
  <2> QED BY <1>1, <2>1 DEF Values, DelayHolds
<1>8. MemoryHolds'
  <2>1. ASSUME NEW address PROVE EndedStores(address)' = EndedStores(address)
    <3>1. ASSUME NEW a \in Accesses' \ Accesses PROVE ~ (EndCycle(a)' <= now)
      <4>1. EndCycle(a)' \in Int
        <5>1. a[1] \in Places(loop) /\ EndCycle(a)' = now + End(loop, start, a[1])
            BY <1>1, <1>2, <1>4 DEF EndCycle
        <5> QED BY <1>1, <5>1 DEF End, Latency
      <4> QED BY <1>1, <1>4, <4>1
    <3> QED BY <1>1, <1>3, <1>5, <1>6, <3>1 DEF EndedStores, StoresTo
  <2> QED BY <1>1, <2>1 DEF Values, MemoryHolds
<1>9. AnswersHold'
  <2>1. ASSUME NEW b \in Accesses PROVE StoresAhead(b)' = StoresAhead(b)
    <3>1. ASSUME NEW a \in Accesses' \ Accesses PROVE ~ Before(a, b)
      <4>1. b[2] \in 1 .. Len(issued)
          BY DEF Accesses
      <4> QED BY <1>1, <1>4, <4>1 DEF Before
    <3> QED BY <1>1, <1>3, <1>6, <3>1 DEF StoresAhead, StoresTo, Before
  <2>2. DOMAIN got \subseteq Accesses
      BY DEF IInv, TypeOK
  <2>3. Orderly' <=> Orderly
      BY <1>1, OrderlyStays
  <2> QED BY <1>1, <2>1, <2>2, <2>3 DEF Values, AnswersHold
<1> QED BY <1>7, <1>8, <1>9 DEF Values

\* The clock edge: the store that ends is the last one of its word so far, and
\* the word a load finds is the one that program order leaves it.
LEMMA PortsKeep ==
    ASSUME IInv, CountsArePorts, Values, PortsEdge, data' = Stored
    PROVE  Values'
<1>1. /\ loop' = loop /\ start' = start /\ II' = II /\ issued' = issued
      /\ now' = now + 1 /\ now \in Nat /\ reg1' = reg0
    BY DEF IInv, TypeOK, PortsEdge, design
<1>2. /\ Accesses' = Accesses
      /\ \A a : Where(a)' = Where(a)
      /\ \A a : StartCycle(a)' = StartCycle(a) /\ EndCycle(a)' = EndCycle(a)
      /\ \A address : StoresTo(address)' = StoresTo(address)
    BY <1>1 DEF Accesses, Where, StartCycle, EndCycle, StoresTo
<1>3. ASSUME NEW kind, NEW port \in OnPort(Starting(kind)) PROVE port = Starting(kind)
  <2>1. \A a, b \in Starting(kind) : a = b
      BY OneAtATime DEF Starting
  <2> QED BY <2>1 DEF OnPort
<1>4. \A a \in Accesses : StartCycle(a) \in Nat /\ EndCycle(a) \in Nat
    BY CycleTypes
<1>5. DelayHolds'
  <2>1. StartedBefore(1)' = Starting("store")
      BY <1>1, <1>2, <1>4 DEF StartedBefore, Starting
  <2>2. StartedBefore(2)' = StartedBefore(1)
      BY <1>1, <1>2, <1>4 DEF StartedBefore
  <2>3. reg0' = Starting("store")
      BY <1>3 DEF PortsEdge
  <2> QED BY <1>1, <2>1, <2>2, <2>3 DEF Values, DelayHolds
<1>6. MemoryHolds'
  <2>1. ASSUME NEW a \in Accesses, loop.ops[a[1]].kind = "store"
        PROVE  a \in reg1 <=> EndCycle(a) = now + 1
    <3>1. EndCycle(a) = StartCycle(a) + 3
        BY <2>1, CycleTypes DEF Latency
    <3> QED BY <1>1, <1>4, <2>1, <3>1 DEF Values, DelayHolds, StartedBefore
  <2>2. \A a \in reg1 : a \in Accesses /\ loop.ops[a[1]].kind = "store"
      BY DEF Values, DelayHolds, StartedBefore
  <2>3. ASSUME NEW address \in DOMAIN data
        PROVE  data'[address] = LastOf(EndedStores(address)')
    <3>1. EndedStores(address)' = EndedStores(address) \cup {a \in reg1 : Where(a) = address}
      <4>1. ASSUME NEW a \in StoresTo(address)
            PROVE  EndCycle(a) <= now + 1 <=> EndCycle(a) <= now \/ a \in reg1
        <5>1. a \in Accesses /\ loop.ops[a[1]].kind = "store"
            BY DEF StoresTo
        <5> QED BY <1>1, <1>4, <2>1, <5>1
      <4>2. \A a \in reg1 : Where(a) = address => a \in StoresTo(address)
          BY <2>2 DEF StoresTo
      <4>3. \A a \in StoresTo(address) : Where(a) = address
          BY DEF StoresTo
      <4> QED BY <1>1, <1>2, <4>1, <4>2, <4>3 DEF EndedStores
    <3>2. CASE ~ \E a \in reg1 : Where(a) = address
        BY <3>1, <3>2 DEF Stored, Values, MemoryHolds
    <3>3. CASE \E a \in reg1 : Where(a) = address
      <4> DEFINE c == CHOOSE a \in reg1 : Where(a) = address
      <4>1. c \in reg1 /\ Where(c) = address
          BY <3>3
      <4> HIDE DEF c
      <4>2. c \in Accesses /\ loop.ops[c[1]].kind = "store" /\ EndCycle(c) = now + 1
          BY <2>1, <2>2, <4>1
      <4>3. ASSUME NEW b \in EndedStores(address)', b # c
            PROVE  Before(b, c)
        <5>1. b \in Accesses /\ loop.ops[b[1]].kind = "store" /\ EndCycle(b) <= now + 1
            BY <1>1, <1>2 DEF EndedStores, StoresTo
        <5>2. EndCycle(b) = StartCycle(b) + 3 /\ EndCycle(c) = StartCycle(c) + 3
            BY <4>2, <5>1, CycleTypes DEF Latency
        <5>3. ~ (StartCycle(c) < StartCycle(b))
            BY <1>1, <1>4, <4>2, <5>1, <5>2
        <5> QED BY <4>2, <4>3, <5>1, <5>3, KindInOrder, BeforeIsOrder
      <4>4. c \in EndedStores(address)' /\ EndedStores(address)' \in SUBSET Accesses
        <5>1. \A b \in EndedStores(address)' : b \in Accesses
            BY <1>2 DEF EndedStores, StoresTo
        <5> QED BY <3>1, <4>1, <5>1
      <4>5. LastOf(EndedStores(address)') = c
          BY <4>3, <4>4, LastIs
      <4>6. data'[address] = c
          BY <3>3 DEF Stored, c
      <4> QED BY <4>5, <4>6
    <3> QED BY <3>2, <3>3
  <2>4. DOMAIN data' = DOMAIN data
      BY DEF Stored
  <2>5. \A i \in Places(loop), k \in 0 .. Trip - 1 : Address(loop, i, k) \in DOMAIN data
      BY DEF Values, MemoryHolds
  <2>6. \A S : LastOf(S)' = LastOf(S)
      BY DEF LastOf, Before, Initial
  <2> QED BY <1>1, <2>3, <2>4, <2>5 DEF MemoryHolds
<1>7. AnswersHold'
  <2> SUFFICES ASSUME Orderly, NEW b \in DOMAIN got'
               PROVE  got'[b] = LastOf(StoresAhead(b))
    <3>1. \A b : StoresAhead(b)' = StoresAhead(b)
        BY <1>2 DEF StoresAhead, Before
    <3>2. Orderly' <=> Orderly
        BY <1>1, OrderlyStays
    <3>3. \A S : LastOf(S)' = LastOf(S)
        BY DEF LastOf, Before, Initial
    <3> QED BY <1>1, <3>1, <3>2, <3>3 DEF AnswersHold
  <2>1. CASE b \in DOMAIN got
    <3>1. got'[b] = got[b]
        BY <2>1 DEF PortsEdge
    <3> QED BY <2>1, <3>1 DEF Values, AnswersHold
  <2>2. CASE b \notin DOMAIN got
    <3>1. b \in Starting("load")
        BY <2>2 DEF PortsEdge
    <3>2. b \in Accesses /\ loop.ops[b[1]].kind = "load" /\ StartCycle(b) = now
        BY <3>1 DEF Starting
    <3>3. Starting("load") = {b}
        BY <3>1, OneAtATime DEF Starting
    <3>4. got'[b] = data[Where(b)]
      <4>1. PICK port \in OnPort(Starting("load")) :
                got' = [a \in DOMAIN got \cup Starting("load") |->
                           IF a \in DOMAIN got THEN got[a]
                           ELSE data[Where(CHOOSE c \in port : TRUE)]]
          BY DEF PortsEdge
      <4>2. port = {b}
          BY <1>3, <3>3
      <4> QED BY <2>2, <3>3, <4>1, <4>2
    <3>5. EndedStores(Where(b)) = StoresAhead(b)
      <4>1. ASSUME NEW a \in StoresTo(Where(b))
            PROVE  EndCycle(a) <= now <=> Before(a, b)
        <5>1. a \in Accesses /\ loop.ops[a[1]].kind = "store" /\ Where(a) = Where(b)
            BY DEF StoresTo
        <5>2. Before(a, b) => EndCycle(a) <= now
          <6>1. Understood(loop, a[1], b[1])
              BY <3>2, <5>1, Facts DEF Orderly, AllUnderstood, Stores, Loads
          <6> QED BY <3>2, <5>1, <6>1, EveryDependence DEF DependencesMet, ReadsFrom
        <5>3. Before(b, a) => now < EndCycle(a)
            BY <3>2, <5>1, LoadsBeforeStores DEF Orderly
        <5>4. Before(a, b) \/ Before(b, a)
            BY <3>2, <5>1, BeforeIsOrder
        <5> QED BY <1>1, <1>4, <5>1, <5>2, <5>3, <5>4
      <4> QED BY <4>1 DEF EndedStores, StoresAhead
    <3>6. Where(b) \in DOMAIN data
        BY <3>2, Facts DEF Values, MemoryHolds, Where
    <3> QED BY <3>4, <3>5, <3>6 DEF Values, MemoryHolds
  <2> QED BY <2>1, <2>2
<1> QED BY <1>5, <1>6, <1>7 DEF Values

\* What the properties say follows.
Ordered(body) == ~ body.methods => ~ CarriedAntiDependence(body)

LEMMA ValuesSuffice ==
    ASSUME IInv, Values
    PROVE  (Ordered(loop) => ReadsAsInOrder) /\ LeftAsInOrder
<1>1. Ordered(loop) => ReadsAsInOrder
    BY DEF Values, AnswersHold, Orderly, ReadsAsInOrder, StoresAhead, Ordered
<1>2. LeftAsInOrder
  <2> SUFFICES ASSUME Over, NEW address \in DOMAIN data
               PROVE  EndedStores(address) = StoresTo(address)
      BY DEF Values, MemoryHolds, LeftAsInOrder
  <2>1. ASSUME NEW a \in StoresTo(address) PROVE EndCycle(a) <= now
    <3>1. a \in Accesses
        BY DEF StoresTo
    <3> QED BY <3>1, CycleTypes DEF Over, IInv, TypeOK
  <2> QED BY <2>1 DEF EndedStores
<1> QED BY <1>1, <1>2

LEMMA ValuesAtFirst == Init => Values
<1> SUFFICES ASSUME Init PROVE Values
    OBVIOUS
<1>1. Accesses = {}
    BY DEF Init, Accesses
<1>2. DelayHolds /\ AnswersHold
    BY <1>1 DEF Init, DelayHolds, StartedBefore, AnswersHold
<1>3. ASSUME NEW address PROVE LastOf(EndedStores(address)) = Initial
    BY <1>1 DEF EndedStores, StoresTo, LastOf
<1>4. MemoryHolds
    BY <1>3 DEF Init, MemoryHolds
<1> QED BY <1>2, <1>4 DEF Values

\* Where the design rests, what the invariant speaks of stays.
LEMMA DesignRests ==
    ASSUME UNCHANGED <<design, now, issued, reg0, reg1, got>>
    PROVE  /\ Accesses' = Accesses
           /\ \A address : EndedStores(address)' = EndedStores(address)
           /\ \A S : LastOf(S)' = LastOf(S)
           /\ DelayHolds => DelayHolds'
           /\ AnswersHold => AnswersHold'
<1>1. /\ loop' = loop /\ start' = start /\ II' = II /\ issued' = issued
      /\ now' = now /\ reg0' = reg0 /\ reg1' = reg1 /\ got' = got
    BY DEF design
<1>2. /\ Accesses' = Accesses
      /\ \A a : Where(a)' = Where(a)
      /\ \A a : StartCycle(a)' = StartCycle(a) /\ EndCycle(a)' = EndCycle(a)
      /\ \A address : StoresTo(address)' = StoresTo(address)
    BY <1>1 DEF Accesses, Where, StartCycle, EndCycle, StoresTo
<1>3. \A S : LastOf(S)' = LastOf(S)
    BY DEF LastOf, Before, Initial
<1>4. \A address : EndedStores(address)' = EndedStores(address)
    BY <1>1, <1>2 DEF EndedStores
<1>5. DelayHolds => DelayHolds'
    BY <1>1, <1>2 DEF DelayHolds, StartedBefore
<1>6. AnswersHold => AnswersHold'
  <2>1. \A b : StoresAhead(b)' = StoresAhead(b)
      BY <1>2 DEF StoresAhead, Before
  <2>2. Orderly' <=> Orderly
      BY <1>1, OrderlyStays
  <2> QED BY <1>1, <1>3, <2>1, <2>2 DEF AnswersHold
<1> QED BY <1>2, <1>3, <1>4, <1>5, <1>6

LEMMA ValuesStutter ==
    ASSUME Values, UNCHANGED vars PROVE Values'
<1>1. UNCHANGED <<design, now, issued, reg0, reg1, got>> /\ data' = data /\ loop' = loop
    BY DEF vars, design
<1>2. DelayHolds' /\ AnswersHold'
    BY <1>1, DesignRests DEF Values
<1>3. MemoryHolds'
    BY <1>1, DesignRests DEF Values, MemoryHolds
<1> QED BY <1>2, <1>3 DEF Values

LEMMA ValuesInvariance == CountsArePorts => (Spec => [](IInv /\ Values))
<1> SUFFICES ASSUME CountsArePorts PROVE Spec => [](IInv /\ Values)
    OBVIOUS
<1>1. IInv /\ Values /\ [Next]_vars => (IInv /\ Values)'
    BY IssueKeeps, PortsKeep, ValuesStutter, IssuePreserves, PortsPreserve, RestPreserves
       DEF Next, Edge, vars, design
<1> QED BY <1>1, InitEstablishes, ValuesAtFirst, PTL DEF Spec

(* With the counts of the ports, and for bodies in which no load is behind *)
(* a store of a later iteration, every load is answered what it would be   *)
(* if the accesses were executed one after the other, where the solver     *)
(* understands the addresses of the body.                                  *)
THEOREM ReadsInOrder ==
    ASSUME CountsArePorts, \A body \in Loops : Ordered(body)
    PROVE  Spec => []ReadsAsInOrder
<1>1. IInv /\ Values => ReadsAsInOrder
    BY ValuesSuffice DEF IInv, TypeOK
<1> QED BY <1>1, ValuesInvariance, PTL

(* With the counts of the ports, every word is left with the value its     *)
(* last store in program order gave it, for all bodies, methods included.  *)
THEOREM LeftInOrder ==
    ASSUME CountsArePorts
    PROVE  Spec => []LeftAsInOrder
<1>1. IInv /\ Values => LeftAsInOrder
    BY ValuesSuffice
<1> QED BY <1>1, ValuesInvariance, PTL
-----------------------------------------------------------------------------
(* The generated test benches: for every body, schedule and pace, every    *)
(* number of cycles the bench gives the run, and every style.  The         *)
(* inductive invariant: the bench's registers as functions of the time,    *)
(* the design, and the check.                                              *)

\* The edges since the bench took its first step.
Elapsed == IF bench.style = "phases" THEN total ELSE total - 1

BenchTypeOK ==
    /\ bench \in [style : {"phases", "in", "on"}, wait : Nat \ {0}]
    /\ loop.size > 0
    /\ total \in Nat
    /\ verdict \in {"none", "passed", "failed"}
    /\ verdict = "none" => total <= MaxCycles

Setting ==
    dbgWrite = IF Elapsed \in 1 .. Size THEN {Low + Elapsed - 1} ELSE {}

SetPhaseHolds ==
    /\ "set" \in phases <=> total <= Size
    /\ clocks["set"] = IF total <= Size THEN total ELSE Size + 1
RunAndCheckHold ==
    /\ clocks["run"] = IF total <= Size + 1 THEN 0
                       ELSE IF total <= Size + bench.wait + 1 THEN total - Size - 1
                       ELSE bench.wait
    /\ "run" \in phases <=> total > Size /\ total <= Size + bench.wait
    /\ "check" \in phases <=> total > Size + bench.wait
    /\ clocks["check"] = IF total > Size + bench.wait
                         THEN total - (Size + bench.wait + 1) ELSE 0

\* A run of one cycle is over before the memory is set: the clock of the run
\* phase shows the last cycle from the start.
CutShort ==
    /\ total <= 1
    /\ total = 0 => clocks["run"] = 0
    /\ total = 1 => "check" \in phases
PhasesHold ==
    bench.style = "phases" =>
        /\ clocks \in [Phases -> Nat]
        /\ phases \subseteq Phases
        /\ SetPhaseHolds
        /\ bench.wait > 1 => RunAndCheckHold
        /\ bench.wait = 1 /\ verdict = "none" => CutShort

Clockwork == BenchTypeOK /\ Setting /\ PhasesHold

\* The design rests until the memory is filled, and runs without a pause then.
AtRest == issued = <<>> /\ now = 0 /\ got = <<>> /\ reg0 = {} /\ reg1 = {}
Filled ==
    /\ data = [w \in Words |-> data[w]]
    /\ \A w \in Words :
          IF Elapsed <= Size THEN w < Low + Elapsed - 1 => data[w] = Initial
          ELSE data[w] = LastOf(EndedStores(w))
Slowest == II + MaxSlack
InTime ==
    /\ \A k \in 1 .. Len(issued) : issued[k] <= (k - 1) * Slowest
    /\ Len(issued) < Trip => now <= Len(issued) * Slowest
    /\ verdict = "none" /\ Elapsed > Size => Over \/ now = Elapsed - Size - 1
Design ==
    /\ Elapsed <= Size => AtRest
    /\ DelayHolds /\ AnswersHold /\ Filled
    /\ InTime

\* The first edge of the check, and the edge that compares the first word.
CheckStart == Size + bench.wait + (IF bench.style = "phases" THEN 1 ELSE 0)
FirstWord == Size + bench.wait + (IF bench.style = "in" THEN 0 ELSE 2)
Compared == {w \in Words : w < Low + total - FirstWord}
Check ==
    /\ verdict = "none" =>
          /\ total > CheckStart => Over
          /\ bench.style # "in" /\ total - FirstWord \in 0 .. Size - 1 =>
                dbgAddr = {Low + total - FirstWord}
          /\ DOMAIN expected = Compared
    /\ verdict # "failed" => \A w \in DOMAIN expected : expected[w] = data[w]
    /\ VerdictIsTrue

BenchInv == Clockwork /\ Design /\ Check

-----------------------------------------------------------------------------
(* The words of the memory.                                                *)

LEMMA Bounds ==
    ASSUME IInv, loop.size > 0
    PROVE  /\ Low \in Int /\ High \in Int /\ Low <= High
           /\ \A i \in Places(loop), k \in 0 .. Trip - 1 : Address(loop, i, k) \in Words
<1>1. IsLoop(loop) /\ Trip \in Nat \ {0} /\ loop.size \in Nat
    BY Facts, TripAssumption DEF IsLoop
<1> DEFINE Uses == Places(loop) \X (0 .. Trip - 1)
           f == [p \in Uses |-> Address(loop, p[1], p[2])]
<1>2. ASSUME NEW i \in Places(loop), NEW k \in 0 .. Trip - 1
      PROVE  Address(loop, i, k) \in Int
  <2>1. loop.ops[i].base \in Int /\ loop.ops[i].step \in Int /\ k \in Int
      BY <1>1 DEF IsLoop, Places
  <2> QED BY <2>1 DEF Address
<1>3. Used \in SUBSET Int
    BY <1>2 DEF Used
<1>4. Used # {}
  <2>1. 1 \in Places(loop) /\ 0 \in 0 .. Trip - 1
      BY <1>1 DEF Places
  <2> QED BY <2>1 DEF Used
<1>5. IsFiniteSet(Used)
  <2>1. f \in Surjection(Uses, Used)
    <3>1. \A p \in Uses : f[p] \in Used
        BY DEF Used
    <3>2. ASSUME NEW a \in Used PROVE \E p \in Uses : f[p] = a
      <4>1. PICK i \in Places(loop), k \in 0 .. Trip - 1 : a = Address(loop, i, k)
          BY DEF Used
      <4>2. <<i, k>> \in Uses /\ f[<<i, k>>] = a
          BY <4>1
      <4> QED BY <4>2
    <3> QED BY <3>1, <3>2 DEF Surjection
  <2>2. IsFiniteSet(Uses)
    <3>1. IsFiniteSet(Places(loop)) /\ IsFiniteSet(0 .. Trip - 1)
        BY <1>1, FS_Interval DEF Places
    <3> QED BY <3>1, FS_Product
  <2> HIDE DEF f, Uses
  <2> QED BY <2>1, <2>2, FS_Surjection
<1>6. Low \in Used /\ \A b \in Used : Low <= b
    BY <1>3, <1>4, <1>5, LeastOfFinite DEF Low
<1>7. High \in Used /\ \A b \in Used : b <= High
    BY <1>3, <1>4, <1>5, GreatestOfFinite DEF High
<1>8. Low \in Int /\ High \in Int /\ Low <= High
    BY <1>3, <1>6, <1>7
<1>9. ASSUME NEW i \in Places(loop), NEW k \in 0 .. Trip - 1
      PROVE  Address(loop, i, k) \in Words
  <2>1. Address(loop, i, k) \in Used
      BY DEF Used
  <2> QED BY <1>2, <1>6, <1>7, <1>8, <2>1 DEF Words
<1> QED BY <1>8, <1>9

\* What the arguments below need of the numbers.
LEMMA Numbers ==
    ASSUME IInv, BenchTypeOK
    PROVE  /\ Low \in Int /\ Size \in Nat \ {0} /\ Words = Low .. Low + Size - 1
           /\ total \in Nat /\ bench.wait \in Nat \ {0}
           /\ bench.style \in {"phases", "in", "on"}
           /\ Elapsed = (IF bench.style = "phases" THEN total ELSE total - 1)
           /\ Elapsed \in Int
<1>1. Low \in Int /\ High \in Int /\ Low <= High
    BY Bounds DEF BenchTypeOK
<1>2. bench.wait \in Nat \ {0} /\ bench.style \in {"phases", "in", "on"} /\ total \in Nat
    BY DEF BenchTypeOK
<1>3. Size \in Nat \ {0} /\ Words = Low .. Low + Size - 1
    BY <1>1 DEF Size, Words
<1> QED BY <1>1, <1>2, <1>3 DEF Elapsed

LEMMA TheSameBench ==
    ASSUME loop' = loop, bench' = bench
    PROVE  /\ Low' = Low /\ Size' = Size /\ Words' = Words
           /\ MaxCycles' = MaxCycles /\ CheckStart' = CheckStart /\ FirstWord' = FirstWord
           /\ \A w : Result(w)' = Result(w)
<1>1. Used' = Used
    BY DEF Used, Address, Places
<1>2. Low' = Low /\ High' = High
    BY <1>1 DEF Low, High
<1>3. Size' = Size /\ Words' = Words
    BY <1>2 DEF Size, Words
<1>4. CheckMemCycle' = CheckMemCycle
    BY <1>3 DEF CheckMemCycle, StartRunCycle, StartSetCycle
<1>5. \A w : Result(w)' = Result(w)
    BY DEF Result, LastOf, Before, Initial, Where, Address, Places
<1> QED BY <1>2, <1>3, <1>4, <1>5 DEF MaxCycles, LastCheck, CheckStart, FirstWord

-----------------------------------------------------------------------------
(* The bench's own registers.                                              *)

\* What the phases and their clocks are after an edge.
LEMMA PhasesMove ==
    ASSUME PhasesChange, ClocksCount
    PROVE  /\ phases \subseteq Phases => phases' \subseteq Phases
           /\ clocks \in [Phases -> Nat] => clocks' \in [Phases -> Nat]
           /\ "set" \in phases' <=> "set" \in phases /\ clocks["set"] # Size
           /\ "run" \in phases' <=>
                 ("run" \in phases /\ clocks["run"] # bench.wait - 1) \/ clocks["set"] = Size
           /\ "check" \in phases' <=> "check" \in phases \/ clocks["run"] = bench.wait - 1
           /\ \A p \in Phases :
                 clocks'[p] = IF p \in phases THEN clocks[p] + 1 ELSE clocks[p]
<1>1. /\ phases \subseteq Phases => phases' \subseteq Phases
      /\ "set" \in phases' <=> "set" \in phases /\ clocks["set"] # Size
      /\ "run" \in phases' <=>
            ("run" \in phases /\ clocks["run"] # bench.wait - 1) \/ clocks["set"] = Size
      /\ "check" \in phases' <=> "check" \in phases \/ clocks["run"] = bench.wait - 1
    BY DEF PhasesChange, Phases
<1>2. /\ clocks \in [Phases -> Nat] => clocks' \in [Phases -> Nat]
      /\ \A p \in Phases :
            clocks'[p] = IF p \in phases THEN clocks[p] + 1 ELSE clocks[p]
    BY DEF ClocksCount
<1> QED BY <1>1, <1>2

LEMMA PhasesKept ==
    ASSUME IInv, Clockwork, loop' = loop, BenchEdge, PhasesEdge,
           bench.wait = 1 /\ total = 1 => verdict' # "none"
    PROVE  Setting' /\ PhasesHold'
<1>1. /\ bench' = bench /\ total' = total + 1 /\ verdict = "none"
      /\ bench.style = "phases" /\ PhasesChange /\ ClocksCount /\ SetPhase
    BY DEF BenchEdge, PhasesEdge
<1>2. /\ Low' = Low /\ Size' = Size /\ Size \in Nat \ {0} /\ total \in Nat /\ Low \in Int
      /\ bench.wait \in Nat \ {0} /\ Elapsed' = total + 1
    BY <1>1, TheSameBench, Numbers DEF Clockwork, Elapsed
<1>3. /\ clocks \in [Phases -> Nat] /\ phases \subseteq Phases /\ SetPhaseHolds
      /\ bench.wait > 1 => RunAndCheckHold
      /\ bench.wait = 1 => CutShort
    BY <1>1 DEF Clockwork, PhasesHold
<1>4. /\ clocks' \in [Phases -> Nat] /\ phases' \subseteq Phases
      /\ "set" \in phases' <=> "set" \in phases /\ clocks["set"] # Size
      /\ "run" \in phases' <=>
            ("run" \in phases /\ clocks["run"] # bench.wait - 1) \/ clocks["set"] = Size
      /\ "check" \in phases' <=> "check" \in phases \/ clocks["run"] = bench.wait - 1
      /\ clocks'["set"] = IF "set" \in phases THEN clocks["set"] + 1 ELSE clocks["set"]
      /\ clocks'["run"] = IF "run" \in phases THEN clocks["run"] + 1 ELSE clocks["run"]
      /\ clocks'["check"] = IF "check" \in phases THEN clocks["check"] + 1
                            ELSE clocks["check"]
    BY <1>1, <1>3, PhasesMove DEF Phases
<1>5. Setting'
  <2>1. dbgWrite' = IF total < Size THEN {Low + total} ELSE {}
    <3>1. "set" \in phases /\ clocks["set"] < Size <=> total < Size
        BY <1>2, <1>3 DEF SetPhaseHolds
    <3>2. total < Size => clocks["set"] = total
        BY <1>2, <1>3 DEF SetPhaseHolds
    <3> QED BY <1>1, <3>1, <3>2 DEF SetPhase
  <2> QED BY <1>2, <2>1 DEF Setting
<1>6. SetPhaseHolds'
    BY <1>1, <1>2, <1>3, <1>4 DEF SetPhaseHolds
<1>7. bench.wait > 1 => RunAndCheckHold'
  <2> SUFFICES ASSUME bench.wait > 1 PROVE RunAndCheckHold'
      OBVIOUS
  <2>1. /\ "set" \in phases <=> total <= Size
        /\ clocks["set"] = IF total <= Size THEN total ELSE Size + 1
      BY <1>3 DEF SetPhaseHolds
  <2>2. RunAndCheckHold
      BY <1>3
  <2>3. clocks["run"] = bench.wait - 1 <=> total = Size + bench.wait
      BY <1>2, <2>2 DEF RunAndCheckHold
  <2>4. clocks["set"] = Size <=> total = Size
      BY <1>2, <2>1
  <2>5. /\ "run" \in phases' <=> total + 1 > Size /\ total + 1 <= Size + bench.wait
        /\ "check" \in phases' <=> total + 1 > Size + bench.wait
      BY <1>2, <1>4, <2>2, <2>3, <2>4 DEF RunAndCheckHold
  <2>6. /\ clocks'["run"] = IF total + 1 <= Size + 1 THEN 0
                            ELSE IF total + 1 <= Size + bench.wait + 1 THEN total + 1 - Size - 1
                            ELSE bench.wait
        /\ clocks'["check"] = IF total + 1 > Size + bench.wait
                              THEN total + 1 - (Size + bench.wait + 1) ELSE 0
      BY <1>2, <1>4, <2>2 DEF RunAndCheckHold
  <2> QED BY <1>1, <1>2, <2>5, <2>6 DEF RunAndCheckHold
<1>8. bench.wait = 1 /\ verdict' = "none" => CutShort'
    BY <1>1, <1>2, <1>3, <1>4 DEF CutShort
<1> QED BY <1>1, <1>4, <1>5, <1>6, <1>7, <1>8 DEF PhasesHold

LEMMA CyclesKept ==
    ASSUME IInv, Clockwork, loop' = loop, BenchEdge, CyclesEdge
    PROVE  Setting' /\ PhasesHold'
<1>1. /\ bench' = bench /\ total' = total + 1 /\ verdict = "none"
      /\ bench.style # "phases" /\ SetRAM
    BY DEF BenchEdge, CyclesEdge
<1>2. /\ Low' = Low /\ Size' = Size /\ Size \in Nat \ {0} /\ total \in Nat /\ Low \in Int
      /\ Elapsed = total - 1 /\ Elapsed' = total
    BY <1>1, TheSameBench, Numbers DEF Clockwork, Elapsed
<1>3. dbgWrite' = IF total \in 1 .. Size THEN {Low + total - 1}
                  ELSE IF total = Size + 1 THEN {} ELSE dbgWrite
    BY <1>1, <1>2 DEF SetRAM, StartSetCycle
<1>4. total > Size + 1 \/ total = 0 => dbgWrite = {}
    BY <1>2 DEF Clockwork, Setting
<1>5. Setting'
    BY <1>2, <1>3, <1>4 DEF Setting
<1> QED BY <1>1, <1>5 DEF PhasesHold

LEMMA BenchTypesKept ==
    ASSUME IInv, Clockwork, loop' = loop, BenchEdge
    PROVE  BenchTypeOK'
<1>1. /\ bench' = bench /\ total' = total + 1 /\ verdict = "none" /\ total \in Nat
      /\ total <= MaxCycles /\ MaxCycles' = MaxCycles
      /\ bench \in [style : {"phases", "in", "on"}, wait : Nat \ {0}] /\ loop.size > 0
      /\ PhasesEdge \/ CyclesEdge
    BY TheSameBench DEF BenchEdge, Clockwork, BenchTypeOK
<1>2. MaxCycles \in Int
  <2>1. Size \in Nat /\ bench.wait \in Nat /\ bench.style \in {"phases", "in", "on"}
      BY Numbers DEF Clockwork
  <2> QED BY <2>1 DEF MaxCycles, LastCheck, CheckMemCycle, StartRunCycle, StartSetCycle
<1>3. /\ verdict' \in {"none", "passed", "failed"}
      /\ total = MaxCycles => verdict' # "none"
  <2>1. CASE PhasesEdge
      BY <1>1, <2>1 DEF PhasesEdge, CheckPhase, Compare, Go, Fail, Pass
  <2>2. CASE CyclesEdge
      BY <1>1, <2>2 DEF CyclesEdge, CheckRAM, CheckRAMContents, Compare, Go, Fail, Pass
  <2> QED BY <1>1, <2>1, <2>2
<1>4. total < MaxCycles => total + 1 <= MaxCycles
    BY <1>1, <1>2
<1> QED BY <1>1, <1>2, <1>3, <1>4 DEF BenchTypeOK

-----------------------------------------------------------------------------
(* The design in the bench.                                                *)

\* It runs once its memory is filled, and the debug port is quiet then.
LEMMA RunsWhenFilled ==
    ASSUME IInv, Clockwork
    PROVE  /\ Running <=> Elapsed > Size
           /\ Elapsed > Size => dbgWrite = {}
<1>1. /\ Size \in Nat /\ total \in Nat /\ Elapsed \in Int
      /\ Elapsed = (IF bench.style = "phases" THEN total ELSE total - 1)
    BY Numbers DEF Clockwork
<1>2. Running <=> Elapsed > Size
  <2>1. CASE bench.style = "phases"
      BY <1>1, <2>1 DEF Running, Clockwork, PhasesHold, SetPhaseHolds
  <2>2. CASE bench.style # "phases"
      BY <1>1, <2>2 DEF Running, StartRunCycle, StartSetCycle
  <2> QED BY <2>1, <2>2
<1>3. Elapsed > Size => dbgWrite = {}
    BY <1>1 DEF Clockwork, Setting
<1> QED BY <1>2, <1>3

LEMMA RestIsNotOver == IInv /\ AtRest => ~ Over
BY TripAssumption DEF AtRest, Over

\* While the design runs, memory holds what LoopMemoryProof says.
LEMMA FilledHolds ==
    ASSUME IInv, Clockwork, Design, Elapsed > Size
    PROVE  Values
<1>1. Words = Low .. Low + Size - 1 /\ Size \in Nat /\ Elapsed \in Int
    BY Numbers DEF Clockwork
<1>2. \A i \in Places(loop), k \in 0 .. Trip - 1 : Address(loop, i, k) \in Words
    BY Bounds DEF Clockwork, BenchTypeOK
<1>3. MemoryHolds
    BY <1>1, <1>2 DEF Design, Filled, MemoryHolds
<1> QED BY <1>3 DEF Design, Values

LEMMA Quiet == dbgWrite = {} => \A memory : DOMAIN memory = DOMAIN Debugged(memory)
                                          /\ \A w \in DOMAIN memory :
                                                Debugged(memory)[w] = memory[w]
BY DEF Debugged

LEMMA SlowestType ==
    ASSUME IInv
    PROVE  /\ Slowest \in Nat /\ II \in Nat \ {0} /\ Trip \in Nat \ {0}
           /\ issued \in Seq(Nat) /\ Len(issued) \in Nat /\ Len(issued) <= Trip
           /\ now \in Nat
BY Facts, BoundsAssumption, TripAssumption DEF Slowest, IInv, TypeOK

LEMMA IssueInBench ==
    ASSUME IInv, BenchInv, DesignIssues
    PROVE  BenchInv'
<1>1. /\ UNCHANGED benchVars /\ Issue /\ Running /\ verdict = "none"
      /\ loop' = loop /\ start' = start /\ II' = II /\ now' = now /\ data' = data
      /\ issued' = Append(issued, now) /\ Len(issued) < Trip
      /\ bench' = bench /\ total' = total /\ dbgWrite' = dbgWrite /\ phases' = phases
      /\ clocks' = clocks /\ dbgAddr' = dbgAddr /\ expected' = expected
      /\ verdict' = verdict
    BY DEF DesignIssues, Issue, design, benchVars
<1>2. /\ Low' = Low /\ Size' = Size /\ Words' = Words /\ MaxCycles' = MaxCycles
      /\ CheckStart' = CheckStart /\ FirstWord' = FirstWord /\ Elapsed' = Elapsed
      /\ Slowest' = Slowest
    BY <1>1, TheSameBench DEF Elapsed, Slowest
<1>3. Elapsed > Size /\ Values
    BY <1>1, RunsWhenFilled, FilledHolds DEF BenchInv
<1>4. Values' /\ IInv'
    BY <1>1, <1>3, IssueKeeps, IssuePreserves
<1>5. Clockwork'
    BY <1>1, <1>2 DEF BenchInv, Clockwork, BenchTypeOK, Setting, PhasesHold, SetPhaseHolds,
                      RunAndCheckHold, CutShort
<1>6. /\ Len(issued) \in Nat /\ now \in Nat /\ Slowest \in Nat /\ issued \in Seq(Nat)
      /\ Size \in Nat /\ Elapsed \in Int /\ Trip \in Nat
    BY SlowestType, Numbers DEF BenchInv, Clockwork
<1>7. InTime'
  <2>1. now <= Len(issued) * Slowest
      BY <1>1 DEF BenchInv, Design, InTime
  <2>2. /\ Len(issued') = Len(issued) + 1 /\ issued'[Len(issued) + 1] = now
        /\ \A k \in 1 .. Len(issued) : issued'[k] = issued[k]
      BY <1>1, <1>6
  <2>3. ASSUME NEW k \in 1 .. Len(issued') PROVE issued'[k] <= (k - 1) * Slowest
    <3>1. CASE k \in 1 .. Len(issued)
        BY <2>2, <3>1 DEF BenchInv, Design, InTime
    <3>2. CASE k = Len(issued) + 1
      <4>1. k - 1 = Len(issued)
          BY <1>6, <3>2
      <4> QED BY <2>1, <2>2, <3>2, <4>1
    <3> QED BY <1>6, <2>2, <3>1, <3>2
  <2>4. now <= Len(issued') * Slowest
    <3> DEFINE x == Len(issued) * Slowest
    <3>1. (Len(issued) + 1) * Slowest = x + Slowest /\ x \in Int
        BY <1>6, TimesSucc
    <3> HIDE DEF x
    <3>2. now <= x
        BY <2>1 DEF x
    <3> QED BY <1>6, <2>2, <3>1, <3>2
  <2>5. now = Elapsed - Size - 1
    <3>1. ~ Over
        BY <1>1, <1>6 DEF Over
    <3> QED BY <1>1, <1>3, <3>1 DEF BenchInv, Design, InTime
  <2> QED BY <1>1, <1>2, <2>3, <2>4, <2>5 DEF InTime
<1>8. Design'
  <2>1. Filled'
    <3>1. DOMAIN data = Words /\ data = [w \in Words |-> data[w]]
        BY DEF BenchInv, Design, Filled
    <3> QED BY <1>1, <1>2, <1>3, <1>4, <1>6, <3>1 DEF Filled, Values, MemoryHolds
  <2> QED BY <1>2, <1>3, <1>4, <1>6, <1>7, <2>1 DEF Design, Values
<1>9. Check'
  <2>1. ~ Over
      BY <1>1, <1>6 DEF Over
  <2>2. ~ (total > CheckStart)
      BY <1>1, <2>1 DEF BenchInv, Check
  <2>3. VerdictIsTrue'
      BY <1>1 DEF VerdictIsTrue
  <2>4. Compared' = Compared
      BY <1>1, <1>2 DEF Compared
  <2> QED BY <1>1, <1>2, <2>2, <2>3, <2>4 DEF BenchInv, Check
<1> QED BY <1>5, <1>8, <1>9 DEF BenchInv

\* An edge while the design runs.
LEMMA RunInBench ==
    ASSUME IInv, BenchInv, CountsArePorts, RunningEdge
    PROVE  Design'
<1>1. /\ PortsEdge /\ Running /\ verdict = "none" /\ data' = Debugged(Stored)
      /\ loop' = loop /\ II' = II /\ issued' = issued /\ now' = now + 1
      /\ bench' = bench /\ total' = total + 1 /\ ~ Overdue /\ ~ Over
    BY DEF RunningEdge, BenchEdge, PortsEdge, design
<1>2. /\ Size' = Size /\ Words' = Words /\ Slowest' = Slowest
      /\ Elapsed' = Elapsed + 1 /\ Elapsed \in Int /\ Size \in Nat
    BY <1>1, TheSameBench, Numbers DEF Elapsed, Slowest, BenchInv, Clockwork
<1>3. Elapsed > Size /\ Values /\ dbgWrite = {}
    BY <1>1, RunsWhenFilled, FilledHolds DEF BenchInv
<1>4. data' = Stored
    BY <1>1, <1>3 DEF Debugged, Stored
<1>5. Values' /\ IInv'
    BY <1>1, <1>3, <1>4, PortsKeep, PortsPreserve
<1>6. /\ Len(issued) \in Nat /\ now \in Nat /\ Slowest \in Nat /\ issued \in Seq(Nat)
      /\ II \in Nat
    BY SlowestType
<1>7. InTime'
  <2>1. ASSUME Len(issued) < Trip PROVE now + 1 <= Len(issued) * Slowest
    <3> DEFINE n == Len(issued)
               x == (n - 1) * Slowest
    <3>1. issued # <<>> /\ now < issued[n] + Slowest
        BY <1>1, <1>6, <2>1, BoundsAssumption, SlowestType DEF Overdue, Slowest
    <3>2. n \in 1 .. Len(issued) /\ issued[n] \in Nat
        BY <1>6, <3>1
    <3>3. issued[n] <= x
        BY <3>2 DEF BenchInv, Design, InTime
    <3>4. x \in Int /\ n * Slowest = x + Slowest
      <4>1. n - 1 \in Int /\ (n - 1) + 1 = n
          BY <1>6
      <4> QED BY <1>6, <4>1, TimesSucc
    <3>5. now + 1 <= n * Slowest
      <4> HIDE DEF x, n
      <4> QED BY <1>6, <3>1, <3>2, <3>3, <3>4
    <3> QED BY <3>5
  <2>2. now + 1 = Elapsed' - Size - 1
      BY <1>1, <1>2, <1>3, <1>6 DEF BenchInv, Design, InTime
  <2> QED BY <1>1, <1>2, <2>1, <2>2 DEF InTime, BenchInv, Design
<1>8. Filled'
  <2>1. DOMAIN data' = Words /\ data' = [w \in Words |-> data'[w]]
      BY <1>4 DEF Stored, BenchInv, Design, Filled
  <2> QED BY <1>2, <1>3, <1>5, <2>1 DEF Filled, Values, MemoryHolds
<1> QED BY <1>2, <1>3, <1>5, <1>7, <1>8 DEF Design, Values

\* An edge while it rests: before it starts, and when it is over.
LEMMA RestInBench ==
    ASSUME IInv, BenchInv, RestingEdge
    PROVE  /\ Design'
           /\ Over => Over' /\ data' = data
<1>1. /\ UNCHANGED <<design, now, issued, reg0, reg1, got>>
      /\ loop' = loop /\ start' = start /\ II' = II /\ now' = now /\ issued' = issued
      /\ reg0' = reg0 /\ reg1' = reg1 /\ got' = got
      /\ data' = Debugged(data) /\ verdict = "none" /\ (~ Running \/ Over)
      /\ bench' = bench /\ total' = total + 1
    BY DEF RestingEdge, BenchEdge, design
<1>2. /\ Low' = Low /\ Size' = Size /\ Words' = Words /\ Slowest' = Slowest
      /\ Elapsed' = Elapsed + 1 /\ Elapsed \in Int /\ Size \in Nat \ {0} /\ Low \in Int
      /\ Words = Low .. Low + Size - 1
    BY <1>1, TheSameBench, Numbers DEF Elapsed, Slowest, BenchInv, Clockwork
<1>3. Over' <=> Over
    BY <1>1 DEF Over, Accesses, EndCycle
<1>4. DelayHolds' /\ AnswersHold'
    BY <1>1, DesignRests DEF BenchInv, Design
<1>5. /\ DOMAIN data' = Words /\ DOMAIN data = Words
      /\ data' = [w \in Words |-> data'[w]]
    BY <1>1 DEF Debugged, BenchInv, Design, Filled
<1>6. ASSUME Elapsed > Size PROVE Over /\ data' = data
  <2>1. Over /\ dbgWrite = {}
      BY <1>1, <1>6, RunsWhenFilled DEF BenchInv
  <2>2. data = [w \in DOMAIN data |-> data[w]]
      BY DEF BenchInv, Design, Filled
  <2> QED BY <1>1, <2>1, <2>2 DEF Debugged
<1>7. Elapsed <= Size => AtRest /\ ~ Over
    BY RestIsNotOver DEF BenchInv, Design
<1>8. Filled'
  <2>1. CASE Elapsed > Size
    <3>1. \A w : LastOf(EndedStores(w))' = LastOf(EndedStores(w))
        BY <1>1, DesignRests
    <3> QED BY <1>2, <1>5, <1>6, <2>1, <3>1 DEF Filled, BenchInv, Design
  <2>2. CASE Elapsed <= Size
    <3>1. ASSUME NEW w \in Words, w < Low + Elapsed PROVE data'[w] = Initial
      <4>1. w \in Int /\ Low <= w
          BY <1>2
      <4>2. CASE w < Low + Elapsed - 1
        <5>1. data[w] = Initial
            BY <2>2, <4>2 DEF BenchInv, Design, Filled
        <5> QED BY <1>1, <1>5, <5>1 DEF Debugged
      <4>3. CASE w = Low + Elapsed - 1
        <5>1. Elapsed \in 1 .. Size
            BY <1>2, <2>2, <4>1, <4>3
        <5>2. w \in dbgWrite
            BY <4>3, <5>1 DEF BenchInv, Clockwork, Setting
        <5> QED BY <1>1, <1>5, <5>2 DEF Debugged
      <4> QED BY <1>2, <3>1, <4>1, <4>2, <4>3
    <3>2. \A w : LastOf(EndedStores(w))' = Initial
      <4>1. Accesses' = {}
          BY <1>1, <1>7, <2>2 DEF Accesses, AtRest
      <4> QED BY <4>1 DEF EndedStores, StoresTo, LastOf, Initial
    <3> QED BY <1>2, <1>5, <2>2, <3>1, <3>2 DEF Filled
  <2> QED BY <1>2, <2>1, <2>2
<1>9. InTime'
  <2>1. Elapsed' > Size => Over \/ now' = Elapsed' - Size - 1
    <3>1. CASE Elapsed > Size
        BY <1>6, <3>1
    <3>2. CASE Elapsed <= Size
        BY <1>1, <1>2, <1>7, <3>2 DEF AtRest
    <3> QED BY <1>2, <3>1, <3>2
  <2> QED BY <1>1, <1>2, <1>3, <2>1 DEF InTime, BenchInv, Design
<1>10. Elapsed' <= Size => AtRest'
    BY <1>1, <1>2, <1>7 DEF AtRest
<1> QED BY <1>2, <1>3, <1>4, <1>6, <1>7, <1>8, <1>9, <1>10 DEF Design

-----------------------------------------------------------------------------
(* The check.                                                              *)

\* A design that is over has left in every word what executing the loop in
\* order leaves.
LEMMA ResultsLeft ==
    ASSUME IInv, BenchInv, Over
    PROVE  /\ Elapsed > Size
           /\ DOMAIN data = Words /\ \A w \in Words : data[w] = Result(w)
<1>1. Elapsed > Size
    BY RestIsNotOver, Numbers DEF BenchInv, Clockwork, Design
<1>2. Values
    BY <1>1, FilledHolds DEF BenchInv
<1>3. LeftAsInOrder
    BY <1>2, ValuesSuffice
<1>4. ASSUME NEW w PROVE LastOf(StoresTo(w)) = Result(w)
    BY DEF Over, StoresTo, Result, Accesses
<1>5. DOMAIN data = Words
    BY DEF BenchInv, Design, Filled
<1> QED BY <1>1, <1>3, <1>4, <1>5 DEF LeftAsInOrder

\* With time for the slowest run, the design is over when the check begins:
\* an iteration starts at the latest Slowest cycles after the one before.
LEMMA OverInTime ==
    ASSUME IInv, BenchInv, verdict = "none", Generous, total >= CheckStart
    PROVE  Over
<1> SUFFICES ASSUME ~ Over PROVE FALSE
    OBVIOUS
<1>1. /\ Size \in Nat \ {0} /\ total \in Nat /\ bench.wait \in Nat \ {0}
      /\ Elapsed = (IF bench.style = "phases" THEN total ELSE total - 1)
      /\ bench.style \in {"phases", "in", "on"}
    BY Numbers DEF BenchInv, Clockwork
<1>2. /\ Slowest \in Nat /\ II \in Nat /\ Trip \in Nat \ {0} /\ MaxStart \in Nat
      /\ Len(issued) \in Nat /\ Len(issued) <= Trip /\ issued \in Seq(Nat) /\ now \in Nat
    BY SlowestType, BoundsAssumption
<1> DEFINE x == (Trip - 1) * Slowest
<1>3. x \in Nat /\ bench.wait >= x + MaxStart + 6
  <2>1. x \in Nat
    <3>1. Trip - 1 \in Nat
        BY <1>2
    <3> QED BY <1>2, <3>1
  <2>2. bench.wait >= x + MaxStart + 3 + 3
      BY DEF Generous, Slowest
  <2> HIDE DEF x
  <2> QED BY <1>1, <1>2, <2>1, <2>2
<1>4. now >= bench.wait - 2
  <2>1. Elapsed >= Size + bench.wait - 1
      BY <1>1 DEF CheckStart
  <2>2. Elapsed > Size /\ Elapsed \in Int
    <3> HIDE DEF x
    <3> QED BY <1>1, <1>2, <1>3, <2>1
  <2>3. now = Elapsed - Size - 1
      BY <2>2 DEF BenchInv, Design, InTime
  <2> QED BY <1>1, <1>2, <2>1, <2>2, <2>3
<1>5. ASSUME NEW k \in Nat, k <= Trip - 1 PROVE k * Slowest <= x /\ k * Slowest \in Nat
    BY <1>2, <1>5, TimesMonotone
<1>6. Len(issued) = Trip
  <2> SUFFICES ASSUME Len(issued) < Trip PROVE FALSE
      BY <1>2
  <2>1. now <= Len(issued) * Slowest
      BY DEF BenchInv, Design, InTime
  <2>2. Len(issued) * Slowest <= x /\ Len(issued) * Slowest \in Nat
      BY <1>2, <1>5
  <2> DEFINE y == Len(issued) * Slowest
  <2> HIDE DEF x, y
  <2>3. now <= y /\ y <= x /\ y \in Nat
      BY <2>1, <2>2 DEF y
  <2> QED BY <1>1, <1>2, <1>3, <1>4, <2>3
<1>7. ASSUME NEW a \in Accesses PROVE EndCycle(a) < now
  <2>1. /\ a[1] \in Places(loop) /\ a[2] \in 1 .. Len(issued) /\ issued[a[2]] \in Nat
      BY Facts
  <2>2. issued[a[2]] <= (a[2] - 1) * Slowest
      BY <2>1 DEF BenchInv, Design, InTime
  <2>3. (a[2] - 1) * Slowest <= x /\ (a[2] - 1) * Slowest \in Nat
    <3>1. a[2] - 1 \in Nat /\ a[2] - 1 <= Trip - 1
        BY <1>2, <2>1
    <3> QED BY <1>5, <3>1
  <2>4. start[a[1]] \in 0 .. MaxStart
      BY <2>1 DEF IInv, TypeOK
  <2>5. End(loop, start, a[1]) <= MaxStart + 3 /\ End(loop, start, a[1]) \in Nat
    <3>1. Latency(loop, a[1]) \in {1, 3}
        BY DEF Latency
    <3>2. start[a[1]] \in Nat /\ start[a[1]] <= MaxStart /\ MaxStart \in Nat
        BY <1>2, <2>4
    <3> QED BY <3>1, <3>2 DEF End
  <2> DEFINE y == (a[2] - 1) * Slowest
             e == End(loop, start, a[1])
             b == issued[a[2]]
  <2>6. b <= y /\ y <= x /\ y \in Nat /\ e <= MaxStart + 3 /\ e \in Nat /\ b \in Nat
      BY <2>1, <2>2, <2>3, <2>5
  <2>7. x + MaxStart + 4 <= now /\ x \in Nat /\ MaxStart \in Nat /\ now \in Nat
    <3> HIDE DEF x
    <3> QED BY <1>1, <1>2, <1>3, <1>4
  <2> HIDE DEF x, y, e, b
  <2>8. b + e < now
      BY <2>6, <2>7
  <2> QED BY <2>8 DEF EndCycle, b, e
<1> QED BY <1>6, <1>7 DEF Over

\* When the bench checks, in numbers.
LEMMA WhenThings ==
    ASSUME IInv, BenchInv
    PROVE  /\ MaxCycles \in Nat /\ CheckStart \in Nat /\ FirstWord \in Nat
           /\ CheckStart <= FirstWord /\ FirstWord + Size <= MaxCycles
           /\ MaxCycles <= FirstWord + Size + 1 /\ CheckStart < MaxCycles
           /\ bench.style = "phases" =>
                 /\ CheckStart = Size + bench.wait + 1 /\ FirstWord = CheckStart + 1
                 /\ MaxCycles = FirstWord + Size
           /\ bench.style # "phases" =>
                 CheckMemCycle = CheckStart + 1 /\ CheckStart = Size + bench.wait
           /\ bench.style = "in" => FirstWord = CheckStart /\ MaxCycles = FirstWord + Size + 1
           /\ bench.style = "on" => FirstWord = CheckStart + 2 /\ MaxCycles = FirstWord + Size
<1>1. Size \in Nat \ {0} /\ bench.wait \in Nat \ {0} /\ bench.style \in {"phases", "in", "on"}
    BY Numbers DEF BenchInv, Clockwork
<1>2. CASE bench.style = "phases"
  <2>1. /\ MaxCycles = 2 * Size + bench.wait + 1 + 1
        /\ CheckStart = Size + bench.wait + 1 /\ FirstWord = Size + bench.wait + 2
      BY <1>2 DEF MaxCycles, LastCheck, CheckStart, FirstWord
  <2> QED BY <1>1, <1>2, <2>1
<1>3. CASE bench.style = "in"
  <2>1. /\ MaxCycles = CheckMemCycle + Size - 1 + 1 /\ CheckMemCycle = 1 + Size + bench.wait
        /\ CheckStart = Size + bench.wait + 0 /\ FirstWord = Size + bench.wait + 0
      BY <1>3 DEF MaxCycles, LastCheck, CheckMemCycle, StartRunCycle, StartSetCycle,
                  CheckStart, FirstWord
  <2> QED BY <1>1, <1>3, <2>1
<1>4. CASE bench.style = "on"
  <2>1. /\ MaxCycles = CheckMemCycle + Size + 1 /\ CheckMemCycle = 1 + Size + bench.wait
        /\ CheckStart = Size + bench.wait + 0 /\ FirstWord = Size + bench.wait + 2
      BY <1>4 DEF MaxCycles, LastCheck, CheckMemCycle, StartRunCycle, StartSetCycle,
                  CheckStart, FirstWord
  <2> QED BY <1>1, <1>4, <2>1
<1> QED BY <1>1, <1>2, <1>3, <1>4

\* What every edge of the bench does, whatever it checks.
Edges ==
    /\ verdict = "none" /\ loop' = loop /\ II' = II /\ bench' = bench /\ total' = total + 1
    /\ Over => Over' /\ data' = data
Addresses ==
    bench.style # "in" /\ total + 1 - FirstWord \in 0 .. Size - 1 =>
        dbgAddr' = {Low + total + 1 - FirstWord}

\* The four things it can do: nothing, compare a word, pass and fail.
LEMMA Waiting ==
    ASSUME IInv, BenchInv, Edges, Go, Addresses,
           total >= CheckStart => Over,
           total - FirstWord \notin 0 .. Size - 1
    PROVE  Check'
<1>1. /\ CheckStart' = CheckStart /\ FirstWord' = FirstWord /\ Low' = Low /\ Size' = Size
      /\ Words' = Words /\ expected' = expected /\ verdict' = "none" /\ total' = total + 1
    BY TheSameBench DEF Edges, Go
<1>2. /\ Size \in Nat \ {0} /\ total \in Nat /\ bench.wait \in Nat \ {0} /\ Low \in Int
      /\ Words = Low .. Low + Size - 1
    BY Numbers DEF BenchInv, Clockwork
<1>3. CheckStart \in Int /\ FirstWord \in Int /\ CheckStart <= FirstWord
    BY <1>2, WhenThings
<1>4. total' > CheckStart => Over'
    BY <1>1, <1>2, <1>3 DEF Edges
<1>5. Compared' = Compared
    BY <1>1, <1>2, <1>3 DEF Compared
<1>6. \A w \in DOMAIN expected' : expected'[w] = data'[w]
  <2>1. CASE Over
      BY <1>1, <2>1 DEF Edges, BenchInv, Check
  <2>2. CASE ~ Over
    <3>1. Compared = {}
        BY <1>2, <1>3, <2>2 DEF Compared
    <3> QED BY <1>1, <3>1 DEF BenchInv, Check, Edges
  <2> QED BY <2>1, <2>2
<1>7. VerdictIsTrue'
    BY <1>1 DEF VerdictIsTrue
<1>8. bench'.style # "in" /\ total' - FirstWord' \in 0 .. Size' - 1 =>
          dbgAddr' = {Low' + total' - FirstWord'}
    BY <1>1, <1>2, <1>3 DEF Addresses, Edges
<1>9. DOMAIN expected' = Compared'
    BY <1>1, <1>5 DEF Edges, BenchInv, Check
<1> QED BY <1>1, <1>4, <1>6, <1>7, <1>8, <1>9 DEF Check

LEMMA Comparing ==
    ASSUME IInv, BenchInv, Edges, Addresses, Over,
           NEW w, w = Low + total - FirstWord, total - FirstWord \in 0 .. Size - 1,
           Compare(w, data[w])
    PROVE  Check'
<1>1. /\ CheckStart' = CheckStart /\ FirstWord' = FirstWord /\ Low' = Low /\ Size' = Size
      /\ Words' = Words /\ total' = total + 1 /\ Over' /\ data' = data
      /\ \A a : Result(a)' = Result(a)
    BY TheSameBench DEF Edges
<1>2. /\ Size \in Nat \ {0} /\ total \in Nat /\ bench.wait \in Nat \ {0} /\ Low \in Int
      /\ Words = Low .. Low + Size - 1
    BY Numbers DEF BenchInv, Clockwork
<1>3. FirstWord \in Int
    BY WhenThings
<1>4. PICK e \in {Result(w), Other} :
          /\ expected' = [a \in DOMAIN expected \cup {w} |-> IF a = w THEN e ELSE expected[a]]
          /\ verdict' = IF data[w] = e THEN "none" ELSE "failed"
    BY DEF Compare
<1>5. w \in Words
    BY <1>2, <1>3
<1>6. DOMAIN expected = Compared /\ \A a \in DOMAIN expected : expected[a] = data[a]
    BY DEF Edges, BenchInv, Check
<1>7. Compared' = Compared \cup {w}
    BY <1>1, <1>2, <1>3 DEF Compared
<1>8. data[w] = Result(w)
    BY <1>5, ResultsLeft
<1>9. VerdictIsTrue'
  <2>1. verdict' = "failed" => expected'[w] # Result(w) /\ w \in DOMAIN expected'
      BY <1>4, <1>8
  <2> QED BY <1>1, <1>4, <2>1 DEF VerdictIsTrue
<1>10. verdict' # "failed" => \A a \in DOMAIN expected' : expected'[a] = data'[a]
    BY <1>1, <1>4, <1>6
<1>11. bench'.style # "in" /\ total' - FirstWord' \in 0 .. Size' - 1 =>
          dbgAddr' = {Low' + total' - FirstWord'}
    BY <1>1, <1>2, <1>3 DEF Addresses, Edges
<1>12. DOMAIN expected' = Compared'
    BY <1>4, <1>6, <1>7
<1> QED BY <1>1, <1>9, <1>10, <1>11, <1>12 DEF Check

LEMMA Passing ==
    ASSUME IInv, BenchInv, Edges, Pass, Over, total = MaxCycles
    PROVE  Check'
<1>1. /\ Words' = Words /\ expected' = expected /\ verdict' = "passed"
      /\ Over' /\ data' = data
    BY TheSameBench DEF Edges, Pass
<1>2. /\ Size \in Nat \ {0} /\ bench.wait \in Nat \ {0} /\ Low \in Int
      /\ Words = Low .. Low + Size - 1 /\ bench.style \in {"phases", "in", "on"}
    BY Numbers DEF BenchInv, Clockwork
<1>3. total - FirstWord >= Size /\ FirstWord \in Int /\ total \in Int
    BY <1>2, WhenThings
<1>4. DOMAIN expected = Words /\ \A w \in DOMAIN expected : expected[w] = data[w]
  <2>1. Compared = Words
      BY <1>2, <1>3 DEF Compared
  <2> QED BY <2>1 DEF Edges, BenchInv, Check
<1>5. VerdictIsTrue'
    BY <1>1, <1>4 DEF VerdictIsTrue
<1> QED BY <1>1, <1>4, <1>5 DEF Check

LEMMA Failing ==
    ASSUME IInv, BenchInv, Edges, Fail, ~ Generous
    PROVE  Check'
<1>1. verdict' = "failed" /\ ~ Generous'
    BY DEF Edges, Fail, Generous
<1> QED BY <1>1 DEF Check, VerdictIsTrue

-----------------------------------------------------------------------------
\* A bench with phases: the check begins when the run phase ends.
LEMMA PhasesCheck ==
    ASSUME IInv, BenchInv, Edges, PhasesEdge
    PROVE  /\ Check'
           /\ bench.wait = 1 /\ total = 1 => verdict' # "none"
<1>1. /\ Size \in Nat \ {0} /\ total \in Nat /\ bench.wait \in Nat \ {0} /\ Low \in Int
      /\ bench.style = "phases" /\ verdict = "none" /\ total <= MaxCycles
      /\ MaxCycles \in Nat /\ CheckStart = Size + bench.wait + 1
      /\ FirstWord = CheckStart + 1 /\ MaxCycles = FirstWord + Size
    BY Numbers, WhenThings DEF BenchInv, Clockwork, BenchTypeOK, Edges, PhasesEdge
<1>2. total > CheckStart => Over
    BY DEF BenchInv, Check, Edges
<1>3. clocks \in [Phases -> Nat]
    BY <1>1 DEF BenchInv, Clockwork, PhasesHold
<1>4. CASE bench.wait = 1
  <2>1. total <= 1 /\ (total = 1 => "check" \in phases)
      BY <1>1, <1>4 DEF BenchInv, Clockwork, PhasesHold, CutShort
  <2>2. ~ Over
    <3>1. Elapsed <= Size
        BY <1>1, <2>1 DEF Elapsed
    <3> QED BY <3>1, RestIsNotOver DEF BenchInv, Design
  <2>3. total < MaxCycles /\ CheckPhase
      BY <1>1, <2>1 DEF PhasesEdge
  <2>4. CASE "check" \in phases
    <3>1. Fail
        BY <2>2, <2>3, <2>4 DEF CheckPhase, Valid
    <3>2. ~ Generous
      <4>1. Trip - 1 \in Nat /\ II + MaxSlack \in Nat /\ MaxStart \in Nat
          BY SlowestType, BoundsAssumption
      <4>2. (Trip - 1) * (II + MaxSlack) \in Nat
          BY <4>1
      <4> QED BY <1>4, <4>1, <4>2 DEF Generous
    <3> QED BY <3>1, <3>2, Failing DEF Fail
  <2>5. CASE "check" \notin phases
    <3>1. Go /\ total # 1
        BY <2>1, <2>3, <2>5 DEF CheckPhase
    <3>2. Addresses
        BY <1>1, <2>1 DEF Addresses
    <3>3. ~ (total >= CheckStart) /\ total - FirstWord \notin 0 .. Size - 1
        BY <1>1, <2>1
    <3> QED BY <3>1, <3>2, <3>3, Waiting
  <2> QED BY <2>4, <2>5
<1>5. CASE bench.wait > 1
  <2>1. /\ "check" \in phases <=> total >= CheckStart
        /\ total >= CheckStart => clocks["check"] = total - CheckStart
      BY <1>1, <1>5 DEF BenchInv, Clockwork, PhasesHold, RunAndCheckHold
  <2>2. CASE total < CheckStart
    <3>1. Go /\ CheckPhase
        BY <1>1, <2>1, <2>2 DEF PhasesEdge, CheckPhase
    <3>2. Addresses
        BY <1>1, <2>2 DEF Addresses
    <3> QED BY <1>1, <1>5, <2>2, <3>1, <3>2, Waiting
  <2>3. CASE total >= CheckStart /\ ~ Over
    <3>1. Fail
        BY <1>1, <2>1, <2>3 DEF PhasesEdge, CheckPhase, Valid
    <3> QED BY <1>1, <1>5, <2>3, <3>1, OverInTime, Failing
  <2>4. CASE total >= CheckStart /\ Over /\ total = MaxCycles
    <3>1. Pass
        BY <1>1, <2>1, <2>4 DEF PhasesEdge, Valid
    <3> QED BY <1>5, <2>4, <3>1, Passing
  <2>5. CASE total >= CheckStart /\ Over /\ total < MaxCycles
    <3> DEFINE c == clocks["check"]
    <3>1. /\ c = total - CheckStart
          /\ dbgAddr' = IF c < Size THEN {Low + c} ELSE dbgAddr
          /\ IF c \in 1 .. Size THEN \E a \in dbgAddr : Compare(Low + c - 1, data[a]) ELSE Go
        BY <2>1, <2>5 DEF PhasesEdge, CheckPhase, Valid
    <3>2. Addresses
        BY <1>1, <2>5, <3>1 DEF Addresses
    <3>3. CASE c \in 1 .. Size
      <4>1. total - FirstWord \in 0 .. Size - 1 /\ Low + c - 1 = Low + total - FirstWord
          BY <1>1, <3>1, <3>3
      <4>2. dbgAddr = {Low + total - FirstWord}
          BY <1>1, <4>1 DEF BenchInv, Check
      <4>3. Compare(Low + total - FirstWord, data[Low + total - FirstWord])
          BY <3>1, <3>3, <4>1, <4>2
      <4> QED BY <1>1, <1>5, <2>5, <3>2, <4>1, <4>3, Comparing
    <3>4. CASE c \notin 1 .. Size
      <4>1. total - FirstWord \notin 0 .. Size - 1
          BY <1>1, <2>5, <3>1, <3>4
      <4> QED BY <1>5, <2>5, <3>1, <3>2, <3>4, <4>1, Waiting
    <3> QED BY <3>3, <3>4
  <2> QED BY <1>1, <2>2, <2>3, <2>4, <2>5
<1> QED BY <1>1, <1>4, <1>5

\* A bench by cycles.
LEMMA CyclesCheck ==
    ASSUME IInv, BenchInv, Edges, CyclesEdge
    PROVE  Check'
<1>1. /\ Size \in Nat \ {0} /\ total \in Nat /\ bench.wait \in Nat \ {0} /\ Low \in Int
      /\ bench.style \in {"in", "on"} /\ verdict = "none" /\ total <= MaxCycles
      /\ MaxCycles \in Nat /\ CheckStart \in Nat /\ CheckMemCycle = CheckStart + 1
      /\ bench.style = "in" => FirstWord = CheckStart /\ MaxCycles = FirstWord + Size + 1
      /\ bench.style = "on" => FirstWord = CheckStart + 2 /\ MaxCycles = FirstWord + Size
    BY Numbers, WhenThings DEF BenchInv, Clockwork, BenchTypeOK, Edges, CyclesEdge
<1>2. total > CheckStart => Over
    BY DEF BenchInv, Check, Edges
<1>3. CASE total = CheckStart /\ ~ Over
  <2>1. Fail
      BY <1>1, <1>3 DEF CyclesEdge, Valid
  <2> QED BY <1>1, <1>3, <2>1, OverInTime, Failing
<1>4. CASE total = MaxCycles
  <2>1. total > CheckStart
      BY <1>1, <1>4
  <2>2. Pass
      BY <1>1, <1>4, <2>1 DEF CyclesEdge
  <2> QED BY <1>2, <1>4, <2>1, <2>2, Passing
<1>5. CASE ~ (total = CheckStart /\ ~ Over) /\ total < MaxCycles
  <2>1. total >= CheckStart => Over
      BY <1>1, <1>2, <1>5
  <2>2. CASE bench.style = "in"
    <3> DEFINE word == total + 1 - CheckMemCycle
    <3>1. word = total - FirstWord
        BY <1>1, <2>2
    <3>2. IF word \in 0 .. Size - 1
          THEN dbgAddr' = {Low + word} /\ Compare(Low + word, data'[Low + word])
          ELSE UNCHANGED dbgAddr /\ Go
        BY <1>1, <1>5, <2>2 DEF CyclesEdge, CheckRAM, Valid
    <3>3. Addresses
        BY <2>2 DEF Addresses
    <3>4. CASE word \in 0 .. Size - 1
      <4>1. total >= CheckStart /\ Low + word = Low + total - FirstWord
          BY <1>1, <2>2, <3>1, <3>4
      <4>2. Over /\ data' = data
          BY <2>1, <4>1 DEF Edges
      <4>3. Compare(Low + total - FirstWord, data[Low + total - FirstWord])
          BY <3>2, <3>4, <4>1, <4>2
      <4> QED BY <3>1, <3>3, <3>4, <4>2, <4>3, Comparing
    <3>5. CASE word \notin 0 .. Size - 1
        BY <2>1, <3>1, <3>2, <3>3, <3>5, Waiting
    <3> QED BY <3>4, <3>5
  <2>3. CASE bench.style = "on"
    <3> DEFINE word == total - CheckMemCycle
    <3>1. word - 1 = total - FirstWord /\ word \in Int
        BY <1>1, <2>3
    <3>2. /\ dbgAddr' = IF word \in 0 .. Size - 1 THEN {Low + word} ELSE dbgAddr
          /\ IF word \in 1 .. Size
             THEN \E a \in dbgAddr : Compare(Low + word - 1, data[a]) ELSE Go
        BY <1>1, <1>5, <2>3 DEF CyclesEdge, CheckRAMContents, Valid
    <3>3. Addresses
        BY <1>1, <2>3, <3>1, <3>2 DEF Addresses
    <3>4. CASE word \in 1 .. Size
      <4>1. /\ total >= CheckStart /\ Low + word - 1 = Low + total - FirstWord
            /\ total - FirstWord \in 0 .. Size - 1
          BY <1>1, <2>3, <3>1, <3>4
      <4>2. dbgAddr = {Low + total - FirstWord}
          BY <1>1, <4>1, <2>3 DEF BenchInv, Check
      <4>3. Compare(Low + total - FirstWord, data[Low + total - FirstWord])
          BY <3>2, <3>4, <4>1, <4>2
      <4> QED BY <2>1, <3>3, <4>1, <4>3, Comparing
    <3>5. CASE word \notin 1 .. Size
      <4>1. total - FirstWord \notin 0 .. Size - 1
          BY <1>1, <3>1, <3>5
      <4> QED BY <2>1, <3>2, <3>3, <3>5, <4>1, Waiting
    <3> QED BY <3>4, <3>5
  <2> QED BY <1>1, <2>2, <2>3
<1> QED BY <1>1, <1>3, <1>4, <1>5

-----------------------------------------------------------------------------
LEMMA BenchInvAtFirst == BenchInit => IInv /\ BenchInv
<1> SUFFICES ASSUME BenchInit PROVE IInv /\ BenchInv
    OBVIOUS
<1>1. IInv
    BY BenchAtFirst
<1>2. PICK x \in Experiments : loop = x.loop /\ bench = x.bench
    BY DEF BenchInit
<1>3. /\ loop.size > 0
      /\ bench \in [style : {"phases", "in", "on"}, wait : Nat \ {0}]
    BY <1>2, ExperimentsAssumption
<1>4. /\ total = 0 /\ phases = {"set"} /\ clocks = [p \in Phases |-> 0] /\ dbgWrite = {}
      /\ dbgAddr = {} /\ expected = <<>> /\ verdict = "none" /\ AtRest
      /\ data = [address \in Words |-> Unset]
    BY DEF BenchInit, AtRest
<1>5. /\ Low \in Int /\ High \in Int /\ Low <= High /\ Size \in Nat \ {0}
      /\ Words = Low .. Low + Size - 1
  <2>1. Low \in Int /\ High \in Int /\ Low <= High
      BY <1>1, <1>3, Bounds
  <2> QED BY <2>1 DEF Size, Words
<1>6. bench.wait \in Nat \ {0} /\ bench.style \in {"phases", "in", "on"}
    BY <1>3
<1>7. BenchTypeOK
  <2>1. 0 <= MaxCycles
    <3>1. CheckMemCycle \in Nat
        BY <1>5, <1>6 DEF CheckMemCycle, StartRunCycle, StartSetCycle
    <3>2. MaxCycles \in {2 * Size + bench.wait + 1 + 1, CheckMemCycle + Size - 1 + 1,
                         CheckMemCycle + Size + 1}
        BY <1>6 DEF MaxCycles, LastCheck
    <3> QED BY <1>5, <1>6, <3>1, <3>2
  <2> QED BY <1>3, <1>4, <2>1 DEF BenchTypeOK
<1>8. Clockwork
  <2>1. Setting
      BY <1>4, <1>5, <1>6 DEF Setting, Elapsed
  <2>2. PhasesHold
      BY <1>4, <1>5, <1>6 DEF PhasesHold, SetPhaseHolds, RunAndCheckHold, CutShort, Phases
  <2> QED BY <1>7, <2>1, <2>2 DEF Clockwork
<1>9. Elapsed \in {0, -1} /\ Elapsed <= Size
    BY <1>4, <1>5, <1>6 DEF Elapsed
<1>10. Design
  <2>1. Accesses = {}
      BY <1>4 DEF Accesses, AtRest
  <2>2. DelayHolds /\ AnswersHold
      BY <1>4, <2>1 DEF DelayHolds, StartedBefore, AnswersHold, AtRest
  <2>3. Filled
      BY <1>4, <1>5, <1>9 DEF Filled
  <2>4. InTime
      BY <1>1, <1>4, <1>5, <1>9, SlowestType DEF InTime, AtRest
  <2> QED BY <1>4, <1>9, <2>2, <2>3, <2>4 DEF Design
<1>11. Check
  <2>1. /\ CheckStart \in Nat /\ FirstWord \in Nat /\ FirstWord > 0
      BY <1>5, <1>6 DEF CheckStart, FirstWord
  <2>2. Compared = {}
      BY <1>4, <1>5, <2>1 DEF Compared
  <2>3. VerdictIsTrue
      BY <1>4 DEF VerdictIsTrue
  <2> QED BY <1>4, <1>5, <2>1, <2>2, <2>3 DEF Check
<1> QED BY <1>1, <1>8, <1>10, <1>11 DEF BenchInv

LEMMA BenchStep ==
    ASSUME CountsArePorts, IInv, BenchInv, [BenchNext]_allVars
    PROVE  BenchInv'
<1>1. CASE DesignIssues
    BY <1>1, IssueInBench
<1>2. ASSUME RunningEdge \/ RestingEdge PROVE BenchInv'
  <2>1. BenchEdge /\ loop' = loop /\ II' = II
      BY <1>2 DEF RunningEdge, RestingEdge, PortsEdge, design
  <2>2. Design'
      BY <1>2, RunInBench, RestInBench
  <2>3. Edges
    <3>1. RunningEdge => ~ Over
        BY DEF RunningEdge, PortsEdge
    <3> QED BY <1>2, <2>1, <3>1, RestInBench DEF Edges, BenchEdge
  <2>4. CASE PhasesEdge
    <3>1. Check' /\ (bench.wait = 1 /\ total = 1 => verdict' # "none")
        BY <2>3, <2>4, PhasesCheck
    <3>2. Clockwork'
        BY <2>1, <2>4, <3>1, PhasesKept, BenchTypesKept DEF BenchInv, Clockwork
    <3> QED BY <2>2, <3>1, <3>2 DEF BenchInv
  <2>5. CASE CyclesEdge
    <3>1. Check'
        BY <2>3, <2>5, CyclesCheck
    <3>2. Clockwork'
        BY <2>1, <2>5, CyclesKept, BenchTypesKept DEF BenchInv, Clockwork
    <3> QED BY <2>2, <3>1, <3>2 DEF BenchInv
  <2> QED BY <2>1, <2>4, <2>5 DEF BenchEdge
<1>3. CASE UNCHANGED allVars
  <2>1. /\ UNCHANGED <<design, now, issued, reg0, reg1, got>> /\ UNCHANGED benchVars
        /\ loop' = loop /\ II' = II /\ data' = data /\ now' = now /\ issued' = issued
        /\ bench' = bench /\ total' = total /\ dbgWrite' = dbgWrite /\ phases' = phases
        /\ clocks' = clocks /\ dbgAddr' = dbgAddr /\ expected' = expected
        /\ verdict' = verdict /\ got' = got /\ reg0' = reg0 /\ reg1' = reg1
        /\ start' = start
      BY <1>3 DEF allVars, vars, benchVars, design
  <2>2. /\ Low' = Low /\ Size' = Size /\ Words' = Words /\ MaxCycles' = MaxCycles
        /\ CheckStart' = CheckStart /\ FirstWord' = FirstWord /\ Elapsed' = Elapsed
        /\ Slowest' = Slowest /\ (Over' <=> Over) /\ \A w : Result(w)' = Result(w)
      BY <2>1, TheSameBench DEF Elapsed, Slowest, Over, Accesses, EndCycle
  <2>3. Clockwork'
      BY <2>1, <2>2 DEF BenchInv, Clockwork, BenchTypeOK, Setting, PhasesHold, SetPhaseHolds,
                        RunAndCheckHold, CutShort
  <2>4. Design'
    <3>1. DelayHolds' /\ AnswersHold' /\ \A w : LastOf(EndedStores(w))' = LastOf(EndedStores(w))
        BY <2>1, DesignRests DEF BenchInv, Design
    <3> QED BY <2>1, <2>2, <3>1 DEF BenchInv, Design, Filled, InTime, AtRest
  <2>5. Check'
    <3>1. VerdictIsTrue'
        BY <2>1, <2>2 DEF BenchInv, Check, VerdictIsTrue, Generous
    <3> QED BY <2>1, <2>2, <3>1 DEF BenchInv, Check, Compared
  <2> QED BY <2>3, <2>4, <2>5 DEF BenchInv
<1> QED BY <1>1, <1>2, <1>3 DEF BenchNext

LEMMA BenchValues == CountsArePorts => (BenchSpec => [](IInv /\ BenchInv))
<1> SUFFICES ASSUME CountsArePorts PROVE BenchSpec => [](IInv /\ BenchInv)
    OBVIOUS
<1>1. IInv /\ BenchInv /\ [BenchNext]_allVars => (IInv /\ BenchInv)'
    BY BenchStep, BenchStepKeeps
<1> QED BY <1>1, BenchInvAtFirst, PTL DEF BenchSpec

(* A design passes only if it has finished and memory holds what the bench *)
(* expects; and given time for its slowest run it fails only if the bench  *)
(* expects what executing the loop in order does not leave.  For every     *)
(* style of bench, body, schedule, pace and number of cycles.              *)
THEOREM VerdictsAreTrue ==
    ASSUME CountsArePorts
    PROVE  BenchSpec => []VerdictIsTrue
<1>1. IInv /\ BenchInv => VerdictIsTrue
    BY DEF BenchInv, Check
<1> QED BY <1>1, BenchValues, PTL

\* Before the design runs it has read nothing and is not over; after, the
\* values are those of the loop alone.
LEMMA BenchValuesSuffice ==
    ASSUME IInv, BenchInv
    PROVE  (Ordered(loop) => ReadsAsInOrder) /\ LeftAsInOrder
<1>1. CASE Elapsed > Size
    BY <1>1, FilledHolds, ValuesSuffice DEF BenchInv
<1>2. CASE Elapsed <= Size
  <2>1. AtRest /\ ~ Over
      BY <1>2, RestIsNotOver DEF BenchInv, Design
  <2> QED BY <2>1 DEF AtRest, ReadsAsInOrder, LeftAsInOrder
<1> QED BY <1>1, <1>2, Numbers DEF BenchInv, Clockwork

(* In the bench as well, loads are answered and words are left as if the   *)
(* loop were executed in order: the debug port writes only before the run. *)
THEOREM InOrderInBench ==
    ASSUME CountsArePorts
    PROVE  /\ (\A body \in Loops : Ordered(body)) => (BenchSpec => []ReadsAsInOrder)
           /\ BenchSpec => []LeftAsInOrder
<1>1. ASSUME \A body \in Loops : Ordered(body)
      PROVE  BenchSpec => []ReadsAsInOrder
  <2>1. IInv /\ BenchInv => ReadsAsInOrder
      BY <1>1, BenchValuesSuffice DEF IInv, TypeOK
  <2> QED BY <2>1, BenchValues, PTL
<1>2. BenchSpec => []LeftAsInOrder
  <2>1. IInv /\ BenchInv => LeftAsInOrder
      BY BenchValuesSuffice
  <2> QED BY <2>1, BenchValues, PTL
<1> QED BY <1>1, <1>2
=============================================================================
