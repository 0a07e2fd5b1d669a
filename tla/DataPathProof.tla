--------------------------- MODULE DataPathProof ---------------------------
(***************************************************************************)
(* Theorems about DataPath, for every set of scheduled functions without   *)
(* pipelines or whose pipelines are single loops, and every value: its     *)
(* user finds it in the register the compiler planned, by the wire the     *)
(* compiler chose.                                                         *)
(***************************************************************************)
EXTENDS DataPath, ControlProof

-----------------------------------------------------------------------------
(* The inductive invariant: where the instance made last is kept.          *)

Carried == MadeInPipe => V.at <= G.br[V.blk]

\* The states of the maker's pipeline that come after it.
Behind(s) == InMakersPipe(s) /\ V.at < s

HeldAt(s) == s \in plan.inputs => InputOf(s) = made

Stored == V.at \in plan.stores => store[V.at] = made

Along == \A s \in active : ~Behind(s) => HeldAt(s)

Waiting == \A p \in Pipelines : Pending(p) =>
             lastState[Begin(p)] = Branch(p) /\ HeldAt(Begin(p))

Leaving == \A p \in Pipelines : Inside(p) /\ Draining(p) =>
             lastState[After(p)] = Branch(p) /\ HeldAt(After(p))

\* In the maker's pipeline every iteration past it has its own instance.
Ahead == \A s \in active : Behind(s) /\ s \in plan.inputs => InputOf(s) = iteration[s]

\* The iterations are numbered as the instances they make.
Numbered ==
  \A p \in Pipelines \cap {MakersPipe} :
    /\ \A x \in Front(p) :
         iteration[x] = begun /\ begun = IF x <= V.at THEN Following(made) ELSE made
    /\ Front(p) = {} => made = begun

\* Until the first instance is made control stays where the maker need not
\* have been.
Away == ReachedAround(G, V.blk)
Unmade ==
  made = None =>
    /\ \A s \in active : /\ ~Behind(s)
                         /\ IF InMakersPipe(s) THEN lastBB[s] \in Away
                            ELSE entryBB[s] \in Away
    /\ \A p \in Pipelines : Pending(p) => p # MakersPipe /\ LoopOf(p) \in Away

Entries == \A s \in active : entryBB[s] \in EntryBlocks(G, s)

Held ==
  /\ Entries /\ Stored /\ Ahead
  /\ Carried => Along /\ Waiting /\ Leaving
  /\ MadeInPipe /\ Carried => Numbered /\ Unmade

Typing ==
  /\ AllReached(G) /\ V \in PassingUses(G) /\ plan = Plan(G, V)
  /\ lastState \in [States(G) -> States(G) \cup {0}]
  /\ store \in [States(G) -> 0 .. Instances]
  /\ made \in 0 .. Instances /\ begun \in 0 .. Instances
  /\ iteration \in [States(G) -> 0 .. Instances]

DataInv == PlaceInv /\ Typing /\ (returned \/ Held)
-----------------------------------------------------------------------------
(* Recursive functions that climb in a finite set.                         *)

LEMMA Onwards ==
  ASSUME NEW N \in Nat, NEW S, 0 \in S, \A n \in 1 .. N : n - 1 \in S => n \in S
  PROVE  \A n \in 0 .. N : n \in S
  <1> DEFINE Bad == {n \in Nat : n <= N /\ n \notin S}
  <1> SUFFICES ASSUME Bad # {} PROVE FALSE
    OBVIOUS
  <1>1. PICK m \in Bad : \A n \in Bad : m <= n
    BY LeastOf
  <1>2. m \in Nat /\ m <= N /\ m \notin S /\ m # 0
    BY <1>1
  <1>3. m \in 1 .. N /\ m - 1 \in Nat /\ m - 1 <= N /\ ~(m <= m - 1)
    BY <1>2
  <1> HIDE DEF Bad
  <1>4. m - 1 \in S
    BY <1>1, <1>3 DEF Bad
  <1> QED BY <1>2, <1>3, <1>4

Stepping(N, D, base, F) == N \in Nat /\ base \in D /\ F \in [Nat -> [D -> D]]

Steps(N, D, base, F, f) ==
  f \in [0 .. N -> D] /\ f[0] = base /\ \A n \in 1 .. N : f[n] = F[n][f[n - 1]]

LEMMA IteratesExist ==
  ASSUME NEW N, NEW D, NEW base, NEW F, Stepping(N, D, base, F)
  PROVE  \E f : Steps(N, D, base, F, f)
  <1> DEFINE Upto(f, m) == f \in [0 .. m -> D] /\ f[0] = base
                           /\ \A n \in 1 .. m : f[n] = F[n][f[n - 1]]
             S == {m \in Nat : \E f : Upto(f, m)}
  <1>0. N \in Nat /\ base \in D /\ F \in [Nat -> [D -> D]]
    BY DEF Stepping
  <1>1. 0 \in S
    <2>1. Upto([n \in 0 .. 0 |-> base], 0)
      BY <1>0
    <2> QED BY <2>1
  <1>2. ASSUME NEW m \in 1 .. N, m - 1 \in S PROVE m \in S
    <2>1. PICK f : Upto(f, m - 1)
      BY <1>2
    <2> DEFINE h == [n \in 0 .. m |-> IF n = m THEN F[m][f[m - 1]] ELSE f[n]]
    <2>2. m \in Nat /\ m - 1 \in 0 .. m - 1 /\ F[m] \in [D -> D]
      BY <1>0, <1>2
    <2>3. h \in [0 .. m -> D]
      <3>1. \A n \in 0 .. m : n # m => n \in 0 .. m - 1
        BY <2>2
      <3> QED BY <2>1, <2>2, <3>1
    <2>4. h[0] = base
      BY <2>1, <2>2
    <2>5. ASSUME NEW n \in 1 .. m PROVE h[n] = F[n][h[n - 1]]
      <3>1. n - 1 \in 0 .. m - 1 /\ n - 1 \in 0 .. m /\ n - 1 # m /\ (n # m => n \in 1 .. m - 1)
        BY <2>2
      <3> QED BY <2>1, <3>1
    <2> QED BY <2>2, <2>3, <2>4, <2>5
  <1> HIDE DEF S
  <1>3. N \in S
    <2>1. \A n \in 0 .. N : n \in S
      BY <1>0, <1>1, <1>2, Onwards
    <2> QED BY <1>0, <2>1
  <1>4. PICK f : Upto(f, N)
    BY <1>3 DEF S
  <1> QED BY <1>4 DEF Steps

\* Subsets that never shrink stop growing: as many steps as there are
\* elements are enough.
Climbing(B, N, F, f) ==
  /\ IsFiniteSet(B) /\ N = Cardinality(B)
  /\ F \in [SUBSET B -> SUBSET B] /\ f \in [0 .. N -> SUBSET B]
  /\ \A n \in 1 .. N : f[n] = F[f[n - 1]]
  /\ f[0] \subseteq F[f[0]]
  /\ \A S, T \in SUBSET B : S \subseteq T => F[S] \subseteq F[T]

LEMMA Saturates ==
  ASSUME NEW B, NEW N, NEW F, NEW f, Climbing(B, N, F, f)
  PROVE  F[f[N]] = f[N] /\ f[0] \subseteq f[N]
  <1> USE DEF Climbing
  <1>1. N \in Nat
    BY FS_CardinalityType
  <1>2. \A n \in 0 .. N : f[n] \subseteq F[f[n]]
    <2> DEFINE S == {n \in Nat : n <= N => f[n] \subseteq F[f[n]]}
    <2>1. 0 \in S
      BY <1>1
    <2>2. ASSUME NEW n \in 1 .. N, n - 1 \in S PROVE n \in S
      <3>1. n \in Nat /\ n - 1 \in 0 .. N /\ n \in 0 .. N /\ n - 1 <= N
        BY <1>1
      <3>2. f[n - 1] \subseteq F[f[n - 1]] /\ F[f[n - 1]] = f[n]
        BY <2>2, <3>1
      <3>3. f[n - 1] \in SUBSET B /\ f[n] \in SUBSET B
        BY <3>1
      <3>4. F[f[n - 1]] \subseteq F[f[n]]
        BY <3>2, <3>3
      <3> QED BY <3>1, <3>2, <3>4
    <2> HIDE DEF S
    <2>3. \A n \in 0 .. N : n \in S
      BY <1>1, <2>1, <2>2, Onwards
    <2> QED BY <1>1, <2>3 DEF S
  <1> DEFINE Done(n) == F[f[n]] = f[n] \/ Cardinality(f[n]) >= n
             S == {n \in Nat : n <= N => Done(n) /\ f[0] \subseteq f[n]}
  <1>3. \A n \in 0 .. N : /\ f[n] \in SUBSET B /\ IsFiniteSet(f[n])
                          /\ Cardinality(f[n]) \in Nat /\ Cardinality(f[n]) <= N
                          /\ (Cardinality(f[n]) = N => f[n] = B)
    BY FS_Subset, FS_CardinalityType
  <1>4. 0 \in S
    BY <1>1, <1>3
  <1>5. ASSUME NEW n \in 1 .. N, n - 1 \in S PROVE n \in S
    <2>1. n \in Nat /\ n - 1 \in 0 .. N /\ n \in 0 .. N /\ n - 1 <= N
      BY <1>1
    <2>2. f[n] = F[f[n - 1]] /\ f[n - 1] \subseteq f[n] /\ f[0] \subseteq f[n - 1]
      BY <1>2, <1>5, <2>1
    <2>3. CASE F[f[n - 1]] = f[n - 1]
      BY <2>1, <2>2, <2>3
    <2>4. CASE F[f[n - 1]] # f[n - 1]
      <3>1. Cardinality(f[n - 1]) >= n - 1
        BY <1>5, <2>1, <2>4
      <3>2. Cardinality(f[n - 1]) < Cardinality(f[n])
        <4>1. IsFiniteSet(f[n]) /\ f[n - 1] \subseteq f[n] /\ f[n - 1] # f[n]
          BY <1>3, <2>1, <2>2, <2>4
        <4>2. /\ Cardinality(f[n - 1]) <= Cardinality(f[n])
              /\ Cardinality(f[n - 1]) # Cardinality(f[n])
          BY <4>1, FS_Subset
        <4> QED BY <1>3, <2>1, <4>2
      <3>3. Cardinality(f[n]) >= n
        BY <1>3, <2>1, <3>1, <3>2
      <3> QED BY <2>1, <2>2, <3>3
    <2> QED BY <2>3, <2>4
  <1>6. N \in S
    <2> HIDE DEF S
    <2>1. \A n \in 0 .. N : n \in S
      BY <1>1, <1>4, <1>5, Onwards
    <2> QED BY <1>1, <2>1
  <1>7. N \in 0 .. N /\ f[0] \subseteq f[N]
    BY <1>1, <1>6
  <1>8. CASE F[f[N]] = f[N]
    BY <1>7, <1>8
  <1>9. CASE F[f[N]] # f[N]
    <2>1. Cardinality(f[N]) >= N
      BY <1>1, <1>6, <1>9
    <2>2. f[N] = B
      BY <1>1, <1>3, <1>7, <2>1
    <2>3. F[f[N]] \subseteq B /\ f[N] \subseteq F[f[N]]
      BY <1>2, <1>7
    <2> QED BY <1>9, <2>2, <2>3
  <1> QED BY <1>7, <1>8, <1>9
-----------------------------------------------------------------------------
(* Dominance.                                                              *)

LEMMA ReachedAroundIs ==
  ASSUME NEW g, IsScheduled(g), NEW a
  PROVE  /\ ReachedAround(g, a) \subseteq Blocks(g)
         /\ Entry \in ReachedAround(g, a) \/ Entry = a
         /\ \A c, d \in Blocks(g) :
              c \in ReachedAround(g, a) /\ Edge(g, c, d) => d \in ReachedAround(g, a) \/ d = a
  <1> DEFINE B == Blocks(g)
             N == Cardinality(B)
             F == [S \in SUBSET B |-> Around(g, a, S)]
             base == {Entry} \ {a}
  <1>1. IsFiniteSet(B) /\ N \in Nat /\ base \in SUBSET B /\ F \in [SUBSET B -> SUBSET B]
    BY FS_CardinalityType DEF IsScheduled, Around
  <1>2. \E f : f = [n \in 0 .. N |-> IF n = 0 THEN base ELSE Around(g, a, f[n - 1])]
    <2>1. PICK f \in [0 .. N -> SUBSET B] :
            f = [n \in 0 .. N |-> IF n = 0 THEN base ELSE F[f[n - 1]]]
      <3> DEFINE D == SUBSET B
                 E == [n \in Nat |-> F]
      <3>1. base \in D /\ E \in [Nat -> [D -> D]] /\ N \in Nat
        BY <1>1
      <3>2. \A n \in 0 .. N : E[n] = F
        OBVIOUS
      <3> HIDE DEF F, base, N, D, E
      <3>3. Stepping(N, D, base, E)
        BY <3>1 DEF Stepping
      <3>4. PICK f : Steps(N, D, base, E, f)
        BY <3>3, IteratesExist
      <3>5. f \in [0 .. N -> D] /\ f = [n \in 0 .. N |-> IF n = 0 THEN base ELSE F[f[n - 1]]]
        <4>1. \A n \in 0 .. N : n # 0 => n \in 1 .. N
          BY <3>1
        <4> QED BY <3>2, <3>4, <4>1 DEF Steps
      <3> QED BY <3>5 DEF D
    <2>2. ASSUME NEW n \in 0 .. N, n # 0 PROVE F[f[n - 1]] = Around(g, a, f[n - 1])
      <3>1. n - 1 \in 0 .. N
        BY <1>1, <2>2
      <3>2. f[n - 1] \in SUBSET B
        BY <3>1
      <3> QED BY <3>2
    <2> HIDE DEF F, base, N
    <2>3. [n \in 0 .. N |-> IF n = 0 THEN base ELSE F[f[n - 1]]]
            = [n \in 0 .. N |-> IF n = 0 THEN base ELSE Around(g, a, f[n - 1])]
      BY <2>2
    <2> QED BY <2>1, <2>3
  <1> DEFINE r == CHOOSE f : f = [n \in 0 .. N |-> IF n = 0 THEN base
                                                   ELSE Around(g, a, f[n - 1])]
  <1>3. r = [n \in 0 .. N |-> IF n = 0 THEN base ELSE Around(g, a, r[n - 1])]
    <2> HIDE DEF base, N
    <2> QED BY <1>2
  <1>4. ReachedAround(g, a) = r[N]
    BY DEF ReachedAround
  <1> HIDE DEF r
  <1>5. r \in [0 .. N -> SUBSET B] /\ r[0] = base /\ \A n \in 1 .. N : r[n] = F[r[n - 1]]
    <2> DEFINE S == {n \in Nat : n <= N => r[n] \in SUBSET B}
    <2>1. 0 \in S /\ r[0] = base
      BY <1>1, <1>3
    <2>2. ASSUME NEW n \in 1 .. N, n - 1 \in S PROVE n \in S /\ r[n] = F[r[n - 1]]
      <3>1. n \in Nat /\ n \in 0 .. N /\ n # 0 /\ n - 1 \in Nat /\ n - 1 <= N
        BY <1>1
      <3>2. r[n] = Around(g, a, r[n - 1])
        BY <1>3, <3>1
      <3>3. r[n - 1] \in SUBSET B
        BY <2>2, <3>1
      <3> QED BY <3>1, <3>2, <3>3 DEF Around
    <2> HIDE DEF S
    <2>3. \A n \in 0 .. N : n \in S
      BY <1>1, <2>1, <2>2, Onwards
    <2>4. \A n \in 0 .. N : r[n] \in SUBSET B
      BY <1>1, <2>3 DEF S
    <2>5. \A n \in 1 .. N : n - 1 \in 0 .. N
      BY <1>1
    <2> HIDE DEF N, base, F
    <2> QED BY <1>3, <2>1, <2>2, <2>3, <2>4, <2>5
  <1>6. F[r[N]] = r[N] /\ r[0] \subseteq r[N]
    <2>1. r[0] \subseteq F[r[0]]
      BY <1>1, <1>5 DEF Around
    <2>2. \A S, T \in SUBSET B : S \subseteq T => F[S] \subseteq F[T]
      BY DEF Around
    <2>3. N = Cardinality(B)
      OBVIOUS
    <2> HIDE DEF F, base, N, B
    <2>4. Climbing(B, N, F, r)
      BY <1>1, <1>5, <2>1, <2>2, <2>3 DEF Climbing
    <2> QED BY <2>4, Saturates
  <1>7. N \in 0 .. N /\ r[N] \in SUBSET B
    BY <1>1, <1>5
  <1>8. \A c, d \in B : c \in r[N] /\ Edge(g, c, d) => d \in r[N] \/ d = a
    BY <1>6, <1>7 DEF Around
  <1> QED BY <1>4, <1>5, <1>6, <1>7, <1>8
-----------------------------------------------------------------------------
(* The states a value is live in: what uses it, and where it is not made   *)
(* on every way, what comes before.                                        *)

LEMMA LiveInIs ==
  ASSUME NEW g, IsScheduled(g), NEW v, v.uat \in States(g)
  PROVE  /\ LiveIn(g, v) \subseteq States(g) /\ MaybeUsed(g, v) \subseteq LiveIn(g, v)
         /\ LiveOut(g, LiveIn(g, v)) \ AlwaysDefined(g, v) \subseteq LiveIn(g, v)
  <1> DEFINE B == States(g)
             N == Cardinality(B)
             base == MaybeUsed(g, v)
             Next(S) == base \cup (LiveOut(g, S) \ AlwaysDefined(g, v))
             F == [S \in SUBSET B |-> Next(S)]
             E == [n \in Nat |-> F]
  <1>1. /\ IsFiniteSet(B) /\ N \in Nat /\ base \in SUBSET B
        /\ F \in [SUBSET B -> SUBSET B] /\ E \in [Nat -> [SUBSET B -> SUBSET B]]
        /\ \A n \in 0 .. N : E[n] = F
    BY FS_CardinalityType DEF IsScheduled, MaybeUsed, LiveOut
  <1> DEFINE r == CHOOSE f : f = [n \in 0 .. N |-> IF n = 0 THEN base ELSE Next(f[n - 1])]
  <1>2. \E f : f = [n \in 0 .. N |-> IF n = 0 THEN base ELSE Next(f[n - 1])]
    <2>1. PICK f \in [0 .. N -> SUBSET B] :
            f = [n \in 0 .. N |-> IF n = 0 THEN base ELSE E[n][f[n - 1]]]
      <3> DEFINE D == SUBSET B
      <3>1. base \in D /\ E \in [Nat -> [D -> D]] /\ N \in Nat
        BY <1>1
      <3> HIDE DEF E, base, N, D
      <3>2. Stepping(N, D, base, E)
        BY <3>1 DEF Stepping
      <3>3. PICK f : Steps(N, D, base, E, f)
        BY <3>2, IteratesExist
      <3>4. f \in [0 .. N -> D] /\ f = [n \in 0 .. N |-> IF n = 0 THEN base ELSE E[n][f[n - 1]]]
        <4>1. \A n \in 0 .. N : n # 0 => n \in 1 .. N
          BY <3>1
        <4> QED BY <3>3, <4>1 DEF Steps
      <3> QED BY <3>4 DEF D
    <2>2. ASSUME NEW n \in 0 .. N, n # 0 PROVE E[n][f[n - 1]] = Next(f[n - 1])
      <3>1. n - 1 \in 0 .. N
        BY <1>1, <2>2
      <3>2. f[n - 1] \in SUBSET B
        BY <3>1
      <3> QED BY <1>1, <3>2
    <2> HIDE DEF E, base, N, Next
    <2>3. f = [n \in 0 .. N |-> IF n = 0 THEN base ELSE Next(f[n - 1])]
      BY <2>1, <2>2
    <2> QED BY <2>3
  <1>3. r = [n \in 0 .. N |-> IF n = 0 THEN base ELSE Next(r[n - 1])]
    <2> HIDE DEF base, N, Next
    <2> QED BY <1>2
  <1>4. LiveIn(g, v) = r[N]
    BY DEF LiveIn
  <1> HIDE DEF r
  <1>5. r \in [0 .. N -> SUBSET B] /\ r[0] = base /\ \A n \in 1 .. N : r[n] = F[r[n - 1]]
    <2> DEFINE S == {n \in Nat : n <= N => r[n] \in SUBSET B}
    <2>1. 0 \in S /\ r[0] = base
      BY <1>1, <1>3
    <2>2. ASSUME NEW n \in 1 .. N, n - 1 \in S PROVE n \in S /\ r[n] = F[r[n - 1]]
      <3>1. n \in Nat /\ n \in 0 .. N /\ n # 0 /\ n - 1 \in Nat /\ n - 1 <= N
        BY <1>1
      <3>2. r[n] = Next(r[n - 1])
        BY <1>3, <3>1
      <3>3. r[n - 1] \in SUBSET B
        BY <2>2, <3>1
      <3>4. r[n] = F[r[n - 1]]
        BY <3>2, <3>3
      <3>5. F[r[n - 1]] \in SUBSET B
        BY <1>1, <3>3
      <3> HIDE DEF F
      <3> QED BY <3>1, <3>4, <3>5
    <2> HIDE DEF S
    <2>3. \A n \in 0 .. N : n \in S
      BY <1>1, <2>1, <2>2, Onwards
    <2>4. \A n \in 0 .. N : r[n] \in SUBSET B
      BY <1>1, <2>3 DEF S
    <2>5. \A n \in 1 .. N : n - 1 \in 0 .. N
      BY <1>1
    <2> HIDE DEF N, base, F, Next
    <2> QED BY <1>3, <2>1, <2>2, <2>3, <2>4, <2>5
  <1>6. F[r[N]] = r[N] /\ r[0] \subseteq r[N]
    <2>1. r[0] \subseteq F[r[0]]
      BY <1>1, <1>5
    <2>2. \A S, T \in SUBSET B : S \subseteq T => F[S] \subseteq F[T]
      BY DEF LiveOut
    <2>3. N = Cardinality(B)
      OBVIOUS
    <2> HIDE DEF F, base, N, B
    <2>4. Climbing(B, N, F, r)
      BY <1>1, <1>5, <2>1, <2>2, <2>3 DEF Climbing
    <2> QED BY <2>4, Saturates
  <1>7. N \in 0 .. N /\ r[N] \in SUBSET B
    BY <1>1, <1>5
  <1>8. Next(r[N]) = r[N]
    BY <1>6, <1>7
  <1> QED BY <1>4, <1>5, <1>6, <1>7, <1>8

-----------------------------------------------------------------------------
(* Topological levels: they rise along the edges in a state, and a block   *)
(* has one if all its predecessors have.                                   *)

LevelsRise(g, s, e, l) ==
  /\ l \in [Blocks(g) -> Int] /\ l[e] = 0
  /\ \A b \in Blocks(g) : l[b] = NoLevel \/ l[b] >= 0
  /\ \A b \in Blocks(g) \ {e} : l[b] # NoLevel =>
       /\ SameStatePredecessors(g, s, b) # {}
       /\ \A p \in SameStatePredecessors(g, s, b) : l[p] # NoLevel /\ l[p] < l[b]

LEMMA LevelsAre ==
  ASSUME NEW g, IsScheduled(g), NEW s, NEW e \in Blocks(g)
  PROVE  LevelsRise(g, s, e, TopologicalLevels(g, s, e))
  <1> DEFINE B == Blocks(g)
             N == Cardinality(B)
             D == [B -> Int]
             base == [b \in B |-> IF b = e THEN 0 ELSE NoLevel]
             Next(n, l) == [b \in B |-> IF Ready(g, s, l, b) THEN n ELSE l[b]]
             F == [n \in Nat |-> [l \in D |-> Next(n, l)]]
             Made(f) == f = [n \in 0 .. N |-> IF n = 0 THEN base ELSE Next(n, f[n - 1])]
             r == CHOOSE f : Made(f)
  <1>1. N \in Nat /\ base \in D /\ F \in [Nat -> [D -> D]]
    BY FS_CardinalityType DEF IsScheduled, NoLevel
  <1>2. \E f : Made(f)
    <2>1. PICK f \in [0 .. N -> D] :
            f = [n \in 0 .. N |-> IF n = 0 THEN base ELSE F[n][f[n - 1]]]
      <3> HIDE DEF F, base, N, D
      <3>1. Stepping(N, D, base, F)
        BY <1>1 DEF Stepping
      <3>2. PICK f : Steps(N, D, base, F, f)
        BY <3>1, IteratesExist
      <3>3. f \in [0 .. N -> D] /\ f = [n \in 0 .. N |-> IF n = 0 THEN base ELSE F[n][f[n - 1]]]
        <4>1. \A n \in 0 .. N : n # 0 => n \in 1 .. N
          BY <1>1
        <4> QED BY <3>2, <4>1 DEF Steps
      <3> QED BY <3>3
    <2>2. ASSUME NEW n \in 0 .. N, n # 0 PROVE F[n][f[n - 1]] = Next(n, f[n - 1])
      <3>1. n - 1 \in 0 .. N /\ n \in Nat
        BY <1>1, <2>2
      <3>2. f[n - 1] \in D
        BY <3>1
      <3> HIDE DEF Next, D
      <3> QED BY <3>1, <3>2
    <2> HIDE DEF F, base, N, Next, D
    <2>3. Made(f)
      BY <2>1, <2>2
    <2> QED BY <2>3
  <1>3. Made(r)
    <2> HIDE DEF Made
    <2> QED BY <1>2
  <1>4. TopologicalLevels(g, s, e) = r[N]
    BY DEF TopologicalLevels
  <1> HIDE DEF r
  <1>5. r[0] = base /\ \A n \in 1 .. N : r[n] = Next(n, r[n - 1])
    <2>1. 0 \in 0 .. N /\ \A n \in 1 .. N : n \in 0 .. N /\ n # 0
      BY <1>1
    <2> HIDE DEF base, N, Next
    <2> QED BY <1>3, <2>1
  <1> DEFINE Good(n) == LevelsRise(g, s, e, r[n]) /\ \A b \in B : r[n][b] <= n
             S == {n \in Nat : Good(n)}
  <1>6. 0 \in S
    BY <1>5 DEF LevelsRise, NoLevel
  <1>7. ASSUME NEW n \in 1 .. N, n - 1 \in S PROVE n \in S
    <2> DEFINE l == r[n - 1]
               h == r[n]
    <2>1. n \in Nat /\ n >= 1 /\ LevelsRise(g, s, e, l) /\ h = Next(n, l)
          /\ \A b \in B : l[b] <= n - 1
      BY <1>1, <1>5, <1>7
    <2> HIDE DEF l, h
    <2>2. /\ \A b \in B : h[b] = IF Ready(g, s, l, b) THEN n ELSE l[b]
          /\ h \in [B -> Int]
      BY <2>1 DEF LevelsRise
    <2>3. \A b \in B : Ready(g, s, l, b) => l[b] = NoLevel
      BY DEF Ready
    <2>4. h[e] = 0
      BY <2>1, <2>2, <2>3 DEF LevelsRise, NoLevel
    <2>5. ASSUME NEW b \in B PROVE h[b] <= n /\ (h[b] = NoLevel \/ h[b] >= 0)
      <3>1. l[b] \in Int /\ l[b] <= n - 1 /\ (l[b] = NoLevel \/ l[b] >= 0)
        BY <2>1 DEF LevelsRise
      <3> QED BY <2>1, <2>2, <3>1
    <2>6. ASSUME NEW b \in B \ {e}, h[b] # NoLevel
          PROVE  /\ SameStatePredecessors(g, s, b) # {}
                 /\ \A p \in SameStatePredecessors(g, s, b) : h[p] # NoLevel /\ h[p] < h[b]
      <3>1. ASSUME NEW p \in B, l[p] # NoLevel
            PROVE  h[p] = l[p] /\ l[p] \in Int /\ l[p] <= n - 1
        BY <2>1, <2>2, <2>3, <3>1 DEF LevelsRise
      <3>2. SameStatePredecessors(g, s, b) \subseteq B
        BY ZenonT(40) DEF SameStatePredecessors, ControlPreds, IsScheduled
      <3>3. CASE Ready(g, s, l, b)
        <4>1. SameStatePredecessors(g, s, b) # {}
              /\ \A p \in SameStatePredecessors(g, s, b) : l[p] # NoLevel
          BY <3>3 DEF Ready
        <4>2. h[b] = n
          BY <2>2, <3>3
        <4> QED BY <2>1, <3>1, <3>2, <4>1, <4>2
      <3>4. CASE ~Ready(g, s, l, b)
        <4>1. h[b] = l[b] /\ l[b] # NoLevel
          BY <2>2, <2>6, <3>4
        <4>2. SameStatePredecessors(g, s, b) # {}
              /\ \A p \in SameStatePredecessors(g, s, b) : l[p] # NoLevel /\ l[p] < l[b]
          BY <2>1, <4>1 DEF LevelsRise
        <4> QED BY <3>1, <3>2, <4>1, <4>2
      <3> QED BY <3>3, <3>4
    <2>7. LevelsRise(g, s, e, h) /\ \A b \in B : h[b] <= n
      BY <2>2, <2>4, <2>5, <2>6 DEF LevelsRise
    <2> QED BY <2>1, <2>7 DEF h
  <1>8. N \in S
    <2> HIDE DEF S
    <2>1. \A n \in 0 .. N : n \in S
      BY <1>1, <1>6, <1>7, Onwards
    <2> QED BY <1>1, <2>1
  <1> QED BY <1>4, <1>8
-----------------------------------------------------------------------------
(* Where the plan finds the value.                                         *)

Planned ==
  design \in {Elaborate(g) : g \in Functions} /\ V \in Values(G) /\ plan = Plan(G, V)

LEMMA PlannedAlways == DataSpec => []Planned
  <1>1. DataInit => Planned
    <2> SUFFICES ASSUME DataInit PROVE Planned
      OBVIOUS
    <2>1. PICK v \in Values(G) : plan = Plan(G, v)
      BY DEF DataInit
    <2>2. V = v
      BY <2>1 DEF V, Plan
    <2> QED BY <2>1, <2>2 DEF Planned, DataInit, Init
  <1>2. Planned /\ [DataCycle]_dataVars => Planned'
    BY DEF Planned, DataCycle, Cycle, dataVars, vars, V, G
  <1> QED BY <1>1, <1>2, PTL DEF DataSpec

LEMMA EntriesInState ==
  ASSUME NEW g, NEW s, NEW e \in EntryBlocks(g, s)
  PROVE  e \in Blocks(g) /\ e \in BlocksIn(g, s)
  BY DEF EntryBlocks, BlocksIn

LEMMA StoredIsLive ==
  ASSUME NEW g, IsScheduled(g), NEW v \in AllUses(g),
         NEW e \in EntryBlocks(g, v.uat), Route(g, v)[e] = "stored"
  PROVE  MayNeedStorage(v) /\ v.uat \in LiveIn(g, v)
  <1> DEFINE l == TopologicalLevels(g, v.uat, e)
  <1>1. /\ v.uat \in States(g) /\ v.at \in States(g) /\ v.blk \in Blocks(g)
        /\ v.user \in Blocks(g) /\ v.phi \in BOOLEAN /\ v.ahead \in BOOLEAN
    BY DEF AllUses, PlainUses, PhiUses
  <1>2. MaybeUsed(g, v) \subseteq LiveIn(g, v)
    BY <1>1, LiveInIs
  <1>3. LevelsRise(g, v.uat, e, l)
    BY EntriesInState, LevelsAre
  <1>4. l[v.user] \in Int /\ l[v.blk] \in Int
    BY <1>1, <1>3 DEF LevelsRise
  <1> HIDE DEF l
  <1>5. CASE v.at # v.uat
    BY <1>1, <1>2, <1>5 DEF MaybeUsed, MayNeedStorage
  <1>6. CASE v.at = v.uat /\ v.blk = v.user
    <2>1. v.phi
      BY <1>1, <1>6 DEF Route
    <2> QED BY <1>2, <1>6, <2>1 DEF MaybeUsed, MayNeedStorage, DefDominatesUse
  <1>7. CASE v.at = v.uat /\ v.blk # v.user
    <2>1. l[v.user] # NoLevel
      BY <1>7 DEF Route, l
    <2>2. l[v.blk] = NoLevel \/ ~(l[v.user] > l[v.blk])
      BY <1>7 DEF Route, l
    <2>3. ~PrecedesInOrder(v.blk, v.user, l)
      BY <1>4, <1>7, <2>1, <2>2 DEF PrecedesInOrder
    <2>4. v.uat \in MaybeUsed(g, v)
      BY <2>3 DEF MaybeUsed, l
    <2> QED BY <1>2, <1>7, <2>4 DEF MayNeedStorage
  <1> QED BY <1>5, <1>6, <1>7

(* Whatever is read from storage has an input in the state that reads it:  *)
(* mostRecentStorageLocation finds a place for every wire outputWire takes *)
(* from storage, as its assertions say, for every schedule and value.      *)
THEOREM StorageIsFound ==
  ASSUME \A g \in Functions : Values(g) \subseteq AllUses(g)
  PROVE  DataSpec => []StorageFound
  <1>1. Planned => StorageFound
    <2> SUFFICES ASSUME Planned, NEW e \in DOMAIN plan.route, plan.route[e] = "stored"
                 PROVE  V.uat \in plan.inputs
      BY DEF StorageFound
    <2>1. IsScheduled(G) /\ V \in AllUses(G)
      BY DesignFacts DEF Planned
    <2>2. plan.route = Route(G, V) /\ DOMAIN plan.route = EntryBlocks(G, V.uat)
      BY DEF Planned, Plan, Route
    <2>3. plan.inputs = IF MayNeedStorage(V) THEN LiveIn(G, V) ELSE {}
      BY DEF Planned, Plan
    <2> QED BY <2>1, <2>2, <2>3, StoredIsLive
  <1> QED BY <1>1, PlannedAlways, PTL
-----------------------------------------------------------------------------
(* The value and the pipeline it is made in.                               *)

LEMMA ValueIs ==
  ASSUME Typed, Typing
  PROVE  /\ V.blk \in Blocks(G) /\ V.user \in Blocks(G) /\ V.phi \in BOOLEAN
         /\ V.at \in States(G) /\ V.uat \in States(G) /\ V.at \in Nat /\ V.uat \in Nat
         /\ V.blk \in BlocksIn(G, V.at) /\ V.user \in BlocksIn(G, V.uat)
         /\ States(G) \subseteq Nat
  <1>1. IsScheduled(G)
    BY Scheduled
  <1>2. V \in AllUses(G)
    BY DEF Typing, PassingUses
  <1>3. /\ V.blk \in Blocks(G) /\ V.user \in Blocks(G) /\ V.phi \in BOOLEAN
        /\ V.at \in States(G) /\ V.uat \in States(G)
        /\ G.first[V.blk] <= V.at /\ V.at <= G.last[V.blk]
        /\ G.first[V.user] <= V.uat /\ V.uat <= G.last[V.user]
    BY <1>2 DEF AllUses, PlainUses, PhiUses
  <1> QED BY <1>1, <1>3 DEF IsScheduled, BlocksIn

LEMMA MakerIs ==
  ASSUME Typed, Typing, MadeInPipe
  PROVE  /\ MakersPipe \in Pipelines /\ V.at \in Stages(MakersPipe)
         /\ V.blk = LoopOf(MakersPipe)
         /\ Starts(MakersPipe) = Begin(MakersPipe) /\ Begin(MakersPipe) <= V.at
  <1>1. MakersPipe \in Pipelines /\ V.at \in Stages(MakersPipe)
    BY ValueIs, StateIs DEF MadeInPipe, MakersPipe
  <1> QED BY <1>1, ValueIs, StageFacts, PipeEnds, LoopFacts DEF Stages

LEMMA InMakersPipeIs ==
  ASSUME Typed, Typing, NEW s \in States(G)
  PROVE  /\ InMakersPipe(s) <=> MadeInPipe /\ s \in Stages(MakersPipe)
         /\ \A p \in Pipelines : s \in Stages(p) => (InMakersPipe(s) <=> p = MakersPipe)
         /\ G.pipe[s] = NoPipeline => ~InMakersPipe(s)
  <1>1. InMakersPipe(s) => MadeInPipe /\ s \in Stages(MakersPipe)
    BY StateIs DEF InMakersPipe, MadeInPipe
  <1>2. MadeInPipe /\ s \in Stages(MakersPipe) => InMakersPipe(s)
    BY MakerIs, StageFacts DEF InMakersPipe
  <1>3. ASSUME NEW p \in Pipelines, s \in Stages(p)
        PROVE  InMakersPipe(s) <=> p = MakersPipe
    BY <1>3, StageFacts, LoopFacts DEF InMakersPipe, MadeInPipe
  <1> QED BY <1>1, <1>2, <1>3 DEF InMakersPipe, MadeInPipe

LEMMA PlanIs ==
  ASSUME Typed, Typing
  PROVE  /\ plan.inputs \subseteq States(G) /\ plan.stores \subseteq States(G)
         /\ \A s \in plan.inputs : MayNeedStorage(V) /\ s \in LiveIn(G, V)
         /\ MayNeedStorage(V) => /\ plan.inputs = LiveIn(G, V)
                                 /\ plan.stores = LiveOut(G, LiveIn(G, V))
         /\ plan.route = Route(G, V)
         /\ plan.prior = [s \in States(G) |-> PossiblePriorStates(G, s)]
  <1>1. IsScheduled(G) /\ V.uat \in States(G)
    BY Scheduled, ValueIs
  <1>2. LiveIn(G, V) \subseteq States(G)
    BY <1>1, LiveInIs
  <1>3. plan = Plan(G, V)
    BY DEF Typing
  <1> QED BY <1>2, <1>3 DEF Plan, LiveOut
-----------------------------------------------------------------------------
(* How control hands the value from state to state.                        *)

\* A state that needs it gets it from the state control comes from.
LEMMA Carries ==
  ASSUME Typed, Typing, NEW j \in Jumps(G), j.kind # "return", j.target \in plan.inputs
  PROVE  /\ j.at \in plan.stores /\ j.at \in plan.prior[j.target]
         /\ j.at # V.at => j.at \in plan.inputs
  <1>1. /\ IsScheduled(G) /\ V.uat \in States(G) /\ j.at \in States(G) /\ j.target \in States(G)
        /\ j.at \in Nat /\ ~j.outOfTask
    BY Scheduled, ValueIs, JumpTypes, OneTask DEF IsScheduled
  <1>2. MayNeedStorage(V) /\ j.target \in LiveIn(G, V)
    BY PlanIs
  <1>3. G.task[j.src] = G.task[j.dest]
    <2>1. j = Jump(G, j.kind, j.at, j.src, j.dest, j.target)
      BY JumpShape
    <2>2. j.outOfTask = (G.task[j.src] # G.task[j.dest])
      BY <2>1, JumpFields
    <2> QED BY <1>1, <2>2
  <1>4. ASSUME j.kind = "branch"
        PROVE  j.target \in NextStates(G, j.at) /\ j.at \in PossiblePriorStates(G, j.target)
    <2>1. <<j.src, j.dest>> \in OutOfStateTransitions(G, j.at) /\ j.target = G.first[j.dest]
      BY <1>4, JumpShape
    <2>2. j.target \in NextStates(G, j.at)
      <3>1. <<j.src, j.dest>> \in {f \in OutOfStateTransitions(G, j.at) :
                                     G.task[f[1]] = G.task[f[2]]}
        BY <1>3, <2>1
      <3> QED BY <2>1, <3>1 DEF NextStates
    <2>3. G.br[j.src] = j.at
      BY <2>1 DEF OutOfStateTransitions, AllTransitions
    <2>4. j.at \in PossiblePriorStates(G, j.target)
      BY <1>1, <2>1, <2>3 DEF PossiblePriorStates
    <2> QED BY <2>2, <2>4
  <1>5. ASSUME j.kind = "stay"
        PROVE  j.target \in NextStates(G, j.at) /\ j.at \in PossiblePriorStates(G, j.target)
    <2>1. j.src \in InProgress(G, j.at) /\ j.target = j.at + 1
      BY <1>5, JumpShape
    <2>2. j.target \in NextStates(G, j.at)
      BY <2>1 DEF NextStates
    <2>3. j.at \in PossiblePriorStates(G, j.target)
      BY <1>1, <2>1 DEF PossiblePriorStates
    <2> QED BY <2>2, <2>3
  <1>6. j.target \in NextStates(G, j.at) /\ j.at \in PossiblePriorStates(G, j.target)
    BY <1>1, <1>4, <1>5, JumpTypes
  <1>7. j.at \in LiveOut(G, LiveIn(G, V))
    BY <1>1, <1>2, <1>6 DEF LiveOut
  <1>8. j.at # V.at => j.at \in LiveIn(G, V)
    BY <1>1, <1>7, LiveInIs DEF AlwaysDefined
  <1> QED BY <1>1, <1>2, <1>6, <1>7, <1>8, PlanIs

\* The blocks control jumps to are those the plan counts on.
LEMMA JumpEntries ==
  ASSUME Typed, NEW j \in Jumps(G), j.kind # "return"
  PROVE  j.dest \in EntryBlocks(G, j.target)
  <1>1. /\ IsScheduled(G) /\ j.at \in States(G) /\ j.target \in States(G) /\ j.at \in Nat
        /\ j.src \in Blocks(G) /\ j.dest \in Blocks(G)
        /\ \A b \in Blocks(G) : /\ G.first[b] \in Nat /\ G.last[b] \in Nat
                                /\ G.first[b] <= G.last[b]
    BY Scheduled, JumpTypes DEF IsScheduled
  <1>2. CASE j.kind = "stay"
    <2>1. j.src \in InProgress(G, j.at) /\ j.target = j.at + 1 /\ j.dest = j.src
      BY <1>2, JumpShape
    <2>2. G.first[j.src] <= j.at /\ j.at <= G.last[j.src] /\ G.last[j.src] # j.at
      BY <2>1 DEF InProgress, BlocksIn
    <2> QED BY <1>1, <2>1, <2>2 DEF EntryBlocks, BlocksIn
  <1>3. CASE j.kind = "branch"
    <2>1. <<j.src, j.dest>> \in OutOfStateTransitions(G, j.at) /\ j.target = G.first[j.dest]
      BY <1>3, JumpShape
    <2>2. /\ G.br[j.src] = j.at /\ Edge(G, j.src, j.dest)
          /\ <<j.src, j.dest>> \notin InStateTransitions(G, j.at)
      BY <2>1 DEF OutOfStateTransitions, AllTransitions
    <2>3. <<j.src, j.dest>> \notin InStateTransitions(G, j.target)
      <3> SUFFICES ASSUME <<j.src, j.dest>> \in InStateTransitions(G, j.target) PROVE FALSE
        OBVIOUS
      <3>1. G.last[j.src] = j.target
        BY DEF InStateTransitions
      <3>2. CASE G.pipe[j.at] = NoPipeline
        <4>1. Straight(j.at)
          BY <3>2, StraightJumps
        <4>2. j.src \in BlocksIn(G, j.at)
          BY <1>1, <2>2, Scheduled
        <4> QED BY <2>2, <3>1, <4>1, <4>2 DEF Straight
      <3>3. CASE G.pipe[j.at] # NoPipeline
        <4> DEFINE p == G.pipe[j.at]
        <4>1. p \in Pipelines /\ j.at \in Stages(p)
          BY <1>1, <3>3, StateIs
        <4>2. j = Back(p) \/ j = Out(p)
          BY <1>3, <3>3, <4>1, LoopJumps, StayIs
        <4> HIDE DEF p
        <4>3. j # Back(p)
          BY <4>1, BackIs, NothingInside, PipeEnds
        <4>4. End(p) = After(p)
          BY <3>1, <4>1, <4>2, <4>3, OutIs DEF End
        <4> QED BY <4>1, <4>4, ExitFacts, PipeEnds, StageFacts, LoopFacts
      <3> QED BY <3>2, <3>3
    <2> QED BY <1>1, <2>1, <2>2, <2>3 DEF EntryBlocks, BlocksIn
  <1> QED BY <1>2, <1>3, JumpTypes, Scheduled
-----------------------------------------------------------------------------
(* One clock edge, before the function returns.                            *)

Moves == DataInv /\ ~returned /\ DataCycle /\ ~returned'

InputNext(s) ==
  IF lastState'[s] \in plan.prior[s] \cap plan.stores THEN store'[lastState'[s]] ELSE None
HeldNext(s) == s \in plan.inputs => InputNext(s) = made'

LEMMA ValueSteady ==
  ASSUME UNCHANGED <<design, plan>>
  PROVE  /\ G' = G /\ V' = V /\ Pipelines' = Pipelines /\ MakersPipe' = MakersPipe
         /\ MadeInPipe' = MadeInPipe /\ Carried' = Carried /\ Away' = Away
         /\ \A s : InMakersPipe(s)' = InMakersPipe(s) /\ Behind(s)' = Behind(s)
         /\ \A p : Starts(p)' = Starts(p)
  <1>1. G' = G /\ V' = V /\ Pipelines' = Pipelines /\ \A p : Starts(p)' = Starts(p)
    BY DEF G, V, Pipelines, Starts
  <1>2. MakersPipe' = MakersPipe /\ MadeInPipe' = MadeInPipe
    BY <1>1 DEF MakersPipe, MadeInPipe
  <1>3. \A s : InMakersPipe(s)' = InMakersPipe(s)
    BY <1>1, <1>2 DEF InMakersPipe
  <1>4. Carried' = Carried /\ Away' = Away
    BY <1>1, <1>2 DEF Carried, Away
  <1>5. \A s : Behind(s)' = Behind(s)
    BY <1>1, <1>3 DEF Behind
  <1> QED BY <1>1, <1>2, <1>3, <1>4, <1>5

LEMMA InputPrime ==
  ASSUME UNCHANGED <<design, plan>>, NEW s
  PROVE  InputOf(s)' = InputNext(s) /\ HeldAt(s)' = HeldNext(s)
  BY DEF InputOf, InputNext, HeldAt, HeldNext, None

LEMMA MovesIs ==
  ASSUME Moves
  PROVE  /\ PlaceInv /\ Typed /\ Placed /\ Typing /\ Held /\ Cycle
         /\ UNCHANGED <<design, plan>> /\ PlaceInv'
         /\ design.jumps = Jumps(G)
         /\ \A j \in Jumps(G) : Happens(j) => j.kind # "return"
  <1>1. PlaceInv /\ Typing /\ Held /\ Cycle
    BY DEF Moves, DataInv, DataCycle
  <1>2. design.jumps = Jumps(G)
    BY <1>1, Scheduled DEF PlaceInv
  <1>3. \A j \in Jumps(G) : Happens(j) => j.kind # "return"
    BY <1>2 DEF Moves, DataCycle
  <1> QED BY <1>1, <1>2, <1>3, PlaceStep DEF PlaceInv, Cycle, DataCycle, Moves

\* Where the maker is, the instance made last is kept.
LEMMA StoreIs ==
  ASSUME Moves, NEW s \in plan.stores
  PROVE  IF s = V.at THEN store'[s] = made'
         ELSE store'[s] = IF s \in active /\ s \in plan.inputs THEN InputOf(s) ELSE store[s]
  <1>1. s \in States(G) /\ store'[s] = StoreNext(s)
    BY MovesIs, PlanIs DEF Moves, DataCycle
  <1>2. made' = IF Making THEN Instance ELSE made
    BY DEF Moves, DataCycle
  <1>3. V.at \in plan.stores => store[V.at] = made
    BY MovesIs DEF Held, Stored
  <1> QED BY <1>1, <1>2, <1>3 DEF StoreNext

LEMMA HandsOver ==
  ASSUME Moves, NEW j \in Jumps(G), Happens(j), j.target \in plan.inputs
  PROVE  /\ lastState'[j.target] = j.at
         /\ InputNext(j.target) = IF j.at = V.at THEN made' ELSE InputOf(j.at)
         /\ j.at # V.at => j.at \in plan.inputs
  <1>1. /\ Typed /\ Typing /\ Placed /\ j.kind # "return" /\ j.at \in active
        /\ j.at \in States(G) /\ j.target \in States(G) /\ design.jumps = Jumps(G)
    BY MovesIs, HappensAt, JumpTypes, Scheduled
  <1>2. LastWrites(j.target) = {j}
    BY <1>1, PlacedOneJump DEF LastWrites
  <1>3. lastState'[j.target] = j.at
    <2>1. lastState'[j.target] = LastStateNext(j.target)
      BY <1>1 DEF Moves, DataCycle
    <2> QED BY <1>2, <2>1 DEF LastStateNext
  <1>4. j.at \in plan.stores /\ j.at \in plan.prior[j.target] /\ (j.at # V.at => j.at \in plan.inputs)
    BY <1>1, Carries
  <1>5. InputNext(j.target) = store'[j.at]
    BY <1>3, <1>4 DEF InputNext
  <1> QED BY <1>1, <1>3, <1>4, <1>5, StoreIs

\* A jump that waits: what it is to hand over stays where it is.
LEMMA StaysHeld ==
  ASSUME Moves, NEW j \in Jumps(G), j.kind # "return", j.at \notin active, made' = made,
         lastState[j.target] = j.at, HeldAt(j.target),
         \A k \in Jumps(G) : Happens(k) => k.target # j.target
  PROVE  lastState'[j.target] = j.at /\ HeldNext(j.target)
  <1>1. /\ Typed /\ Typing /\ j.target \in States(G) /\ design.jumps = Jumps(G)
    BY MovesIs, JumpTypes, Scheduled
  <1>2. lastState'[j.target] = j.at
    <2>1. LastWrites(j.target) = {}
      BY <1>1 DEF LastWrites
    <2>2. lastState'[j.target] = LastStateNext(j.target)
      BY <1>1 DEF Moves, DataCycle
    <2> QED BY <2>1, <2>2 DEF LastStateNext
  <1>3. ASSUME j.target \in plan.inputs PROVE InputNext(j.target) = made'
    <2>1. j.at \in plan.stores /\ j.at \in plan.prior[j.target]
      BY <1>1, <1>3, Carries
    <2>2. InputNext(j.target) = store'[j.at] /\ InputOf(j.target) = store[j.at]
      BY <1>2, <2>1 DEF InputNext, InputOf
    <2>3. store[j.at] = made
      BY <1>3, <2>2 DEF HeldAt
    <2> QED BY <2>1, <2>2, <2>3, StoreIs
  <1> QED BY <1>2, <1>3 DEF HeldNext
-----------------------------------------------------------------------------
(* Inside a pipeline.                                                      *)

LEMMA NotMaking ==
  ASSUME Moves, V.at \notin active
  PROVE  ~Making /\ made' = made
  BY DEF Moves, DataCycle, Making, BlockActive

LEMMA InsideIs ==
  ASSUME Typed, Typing, NEW p \in Pipelines, Inside(p), NEW s \in active
  PROVE  /\ s \in Stages(p) /\ s \in States(G) /\ s \in Nat
         /\ entryBB[s] = LoopOf(p)
         /\ InMakersPipe(s) <=> p = MakersPipe
         /\ s = V.at => MadeInPipe /\ p = MakersPipe /\ Making
         /\ s \notin Front(p) => Branch(p) < s
  <1>1. s \in Stages(p) /\ entryBB[s] = LoopOf(p)
    BY DEF Inside
  <1>2. s \in States(G) /\ s \in Nat /\ (InMakersPipe(s) <=> p = MakersPipe)
    BY <1>1, StageFacts, InMakersPipeIs
  <1>3. s = V.at => MadeInPipe /\ p = MakersPipe /\ Making
    <2>1. s = V.at => MadeInPipe /\ p = MakersPipe
      BY <1>1, StageFacts, LoopFacts DEF MadeInPipe, MakersPipe
    <2> QED BY <1>1, <2>1, MakerIs, StageRuns DEF Making
  <1>4. s \notin Front(p) => Branch(p) < s
    BY <1>1, <1>2, LoopFacts DEF Front, Stages
  <1> QED BY <1>1, <1>2, <1>3, <1>4

LEMMA OneFront ==
  ASSUME NEW p, Inside(p), NEW x \in Front(p)
  PROVE  Deciding(p) /\ ~Pending(p) /\ Front(p) = {x}
  BY DEF Inside, Deciding, Holding, Draining

LEMMA BranchFront ==
  ASSUME Typed, NEW p \in Pipelines
  PROVE  Branch(p) \in active <=> Branch(p) \in Front(p)
  BY LoopFacts DEF Front

LEMMA MakersFront ==
  ASSUME Typed, Typing, MadeInPipe, Carried
  PROVE  /\ V.at <= Branch(MakersPipe)
         /\ V.at \in active <=> V.at \in Front(MakersPipe)
  BY MakerIs, ValueIs, LoopFacts DEF Carried, Front, Branch

\* At its branch, and once it is past it, an iteration has made its instance.
LEMMA MadeBegun ==
  ASSUME Moves, Carried, MadeInPipe, Inside(MakersPipe),
         Branch(MakersPipe) \in active \/ Front(MakersPipe) = {}
  PROVE  made' = begun
  <1> DEFINE p == MakersPipe
  <1>1. Typed /\ Typing /\ p \in Pipelines /\ Numbered
    BY MovesIs, MakerIs DEF Held
  <1>2. V.at <= Branch(p) /\ (V.at \in active <=> V.at \in Front(p))
        /\ Branch(p) \in Nat /\ V.at \in Nat
    BY <1>1, MakersFront, LoopFacts, ValueIs
  <1>3. CASE Front(p) = {}
    BY <1>1, <1>2, <1>3, NotMaking DEF Numbered
  <1>4. CASE Branch(p) \in active
    <2>1. Branch(p) \in Front(p) /\ Front(p) = {Branch(p)}
      BY <1>1, <1>4, BranchFront, OneFront
    <2>2. /\ iteration[Branch(p)] = begun
          /\ begun = IF Branch(p) <= V.at THEN Following(made) ELSE made
      BY <1>1, <2>1 DEF Numbered
    <2>3. CASE V.at = Branch(p)
      <3>1. Making
        BY <1>1, <1>4, <2>3, InsideIs
      <3> QED BY <2>2, <2>3, <3>1 DEF Moves, DataCycle, Instance
    <2>4. CASE V.at # Branch(p)
      <3>1. V.at \notin active
        BY <1>2, <2>1, <2>4
      <3> QED BY <1>2, <2>2, <2>4, <3>1, NotMaking
    <2> QED BY <2>3, <2>4
  <1> QED BY <1>3, <1>4

\* What its branch hands over, at once or later.
LEMMA BranchHands ==
  ASSUME Moves, Carried, NEW p \in Pipelines, Inside(p), NEW j \in {Back(p), Out(p)},
         \/ Happens(j)
         \/ Front(p) = {} /\ lastState[j.target] = Branch(p) /\ HeldAt(j.target)
  PROVE  lastState'[j.target] = Branch(p) /\ HeldNext(j.target)
  <1>1. /\ Typed /\ Typing /\ Held
        /\ j \in Jumps(G) /\ j.kind # "return" /\ j.at = Branch(p)
    BY MovesIs, BackIs, OutIs
  <1>2. Branch(p) \in Nat /\ V.at \in Nat /\ Branch(p) \in Stages(p) /\ G.pipe[Branch(p)] = p
    BY <1>1, LoopFacts, ValueIs, PipeEnds, StageFacts
  <1>3. CASE Happens(j)
    <2>1. Branch(p) \in active
      BY <1>1, <1>3, HappensAt
    <2>2. ASSUME j.target \in plan.inputs
          PROVE  /\ lastState'[j.target] = Branch(p)
                 /\ InputNext(j.target) = IF Branch(p) = V.at THEN made' ELSE InputOf(Branch(p))
                 /\ Branch(p) # V.at => Branch(p) \in plan.inputs
      BY <1>1, <1>3, <2>2, HandsOver
    <2>3. ASSUME Branch(p) # V.at, Branch(p) \in plan.inputs
          PROVE  InputOf(Branch(p)) = made'
      <3>1. CASE Behind(Branch(p))
        <4>1. MadeInPipe /\ p = MakersPipe
          BY <1>1, <2>1, <3>1, InsideIs DEF Behind, InMakersPipe
        <4>2. Branch(p) \in Front(p) /\ ~(Branch(p) <= V.at)
          BY <1>1, <1>2, <2>1, <3>1, BranchFront DEF Behind
        <4>3. iteration[Branch(p)] = begun
          BY <1>1, <4>1, <4>2 DEF Held, Numbered
        <4>4. made' = begun
          BY <2>1, <4>1, MadeBegun
        <4> QED BY <1>1, <2>1, <2>3, <3>1, <4>3, <4>4 DEF Held, Ahead
      <3>2. CASE ~Behind(Branch(p))
        <4>1. InputOf(Branch(p)) = made
          BY <1>1, <2>1, <2>3, <3>2 DEF Held, Along, HeldAt
        <4>2. V.at \notin active
          <5> SUFFICES ASSUME V.at \in active PROVE FALSE
            OBVIOUS
          <5>1. MadeInPipe /\ p = MakersPipe
            BY <1>1, InsideIs
          <5>2. V.at < Branch(p) /\ V.at \in Front(p)
            BY <1>1, <1>2, <2>3, <5>1, MakersFront
          <5>3. Branch(p) \in Front(p)
            BY <1>1, <2>1, BranchFront
          <5> QED BY <2>3, <5>2, <5>3, OneFront
        <4> QED BY <4>1, <4>2, NotMaking
      <3> QED BY <3>1, <3>2
    <2>4. lastState'[j.target] = Branch(p)
      <3>1. LastWrites(j.target) = {j} /\ j.target \in States(G)
        BY <1>1, <1>3, MovesIs, PlacedOneJump, JumpTypes, Scheduled DEF LastWrites
      <3>2. lastState'[j.target] = LastStateNext(j.target)
        BY <3>1 DEF Moves, DataCycle
      <3> QED BY <1>1, <3>1, <3>2 DEF LastStateNext
    <2> QED BY <2>2, <2>3, <2>4 DEF HeldNext
  <1>4. CASE Front(p) = {} /\ lastState[j.target] = Branch(p) /\ HeldAt(j.target)
    <2>1. Branch(p) \notin active
      BY <1>1, <1>4, BranchFront
    <2>2. V.at \notin active
      <3> SUFFICES ASSUME V.at \in active PROVE FALSE
        OBVIOUS
      <3>1. MadeInPipe /\ p = MakersPipe
        BY <1>1, InsideIs
      <3> QED BY <1>1, <1>4, <3>1, MakersFront
    <2>3. ASSUME NEW k \in Jumps(G), Happens(k) PROVE k.target # j.target
      <3>1. G.pipe[k.at] = p /\ k.at \in active
        BY <1>1, <2>3, InsideJumps, HappensAt
      <3> QED BY <1>1, <1>2, <2>1, <3>1, SameTarget
    <2>4. made' = made
      BY <2>2, NotMaking
    <2> QED BY <1>1, <1>4, <2>1, <2>3, <2>4, StaysHeld
  <1> QED BY <1>3, <1>4
-----------------------------------------------------------------------------
(* Where control goes.                                                     *)

LEMMA OutsideMoves ==
  ASSUME Moves, Outside, NEW s \in active'
  PROVE  \E j \in Jumps(G) :
            /\ Happens(j) /\ j.kind # "return" /\ j.target = s
            /\ j.at \in active /\ j.at \in States(G) /\ G.pipe[j.at] = NoPipeline
            /\ Straight(j.at) /\ entryBB'[s] = j.dest /\ lastBB'[s] = LastBlock(j)
            /\ \A p \in Pipelines : s \in Stages(p) =>
                 j.kind = "branch" /\ j.dest = LoopOf(p) /\ s = Begin(p)
  <1>1. Typed /\ Placed /\ Cycle
    BY MovesIs
  <1>2. PICK j \in Jumps(G) : Arrives(j) /\ j.target = s
    BY <1>1, ActiveNext
  <1>3. /\ Happens(j) /\ j.at \in active /\ G.pipe[j.at] = NoPipeline /\ Straight(j.at)
        /\ j.kind # "return" /\ j.at \in States(G)
    BY <1>1, <1>2, OutsideJumps, MovesIs, JumpTypes, Scheduled
  <1>4. ~j.leaves /\ \A p \in Pipelines : j.target \in Stages(p) =>
                       j.kind = "branch" /\ j.dest = LoopOf(p) /\ j.target = Begin(p)
    BY <1>1, <1>3, StraightJumps
  <1>5. entryBB'[s] = j.dest /\ lastBB'[s] = LastBlock(j)
    BY <1>1, <1>2, <1>3, <1>4, EntryNextIs, LastNextIs
  <1> QED BY <1>2, <1>3, <1>4, <1>5

LEMMA InsideMoves ==
  ASSUME Moves, NEW p \in Pipelines, Inside(p), NEW s \in active'
  PROVE  \/ \E x \in active : /\ x # End(p) /\ s = x + 1 /\ s \in Stages(p)
                              /\ entryBB'[s] = LoopOf(p) /\ lastBB'[s] = lastBB[x]
                              /\ Happens(Stay(p, x))
         \/ s = Begin(p) /\ Arrives(Back(p)) /\ entryBB'[s] = LoopOf(p)
         \/ s = After(p) /\ Arrives(Out(p)) /\ entryBB'[s] = ExitOf(p)
  <1>1. Typed /\ Placed /\ Cycle
    BY MovesIs
  <1>2. ASSUME NEW x \in active, x # End(p), s = x + 1
        PROVE  /\ s \in Stages(p) /\ entryBB'[s] = LoopOf(p) /\ lastBB'[s] = lastBB[x]
               /\ Happens(Stay(p, x))
    <2>1. x \in Stages(p) /\ Runs(p, x)
      BY <1>2 DEF Inside, Runs
    <2> QED BY <1>1, <1>2, <2>1, InsideNext, StayHappens
  <1>3. ASSUME Arrives(Back(p)) PROVE entryBB'[Begin(p)] = LoopOf(p)
    <2>1. CASE Happens(Back(p))
      BY <1>1, <2>1, BackEnters
    <2>2. CASE ~Happens(Back(p))
      <3>1. Pending(p)
        BY <1>1, <1>3, <2>2, LoopArrives
      <3>2. entryBB[Begin(p)] = LoopOf(p)
        BY <3>1 DEF Inside, Deciding, Holding, Draining
      <3> QED BY <1>1, <2>2, <3>2, BackEnters
    <2> QED BY <2>1, <2>2
  <1> QED BY <1>1, <1>2, <1>3, InsideNext

LEMMA StayHands ==
  ASSUME Moves, NEW p \in Pipelines, Inside(p), NEW x \in active, x # End(p),
         Happens(Stay(p, x)), x + 1 \in plan.inputs
  PROVE  /\ InputNext(x + 1) = IF x = V.at THEN made' ELSE InputOf(x)
         /\ x # V.at => x \in plan.inputs
  <1>1. Typed /\ x \in Stages(p)
    BY MovesIs DEF Inside
  <1>2. Stay(p, x) \in Jumps(G) /\ Stay(p, x).at = x /\ Stay(p, x).target = x + 1
    BY <1>1, StayIs
  <1> QED BY <1>2, HandsOver

LEMMA EntriesNext ==
  ASSUME Moves
  PROVE  Entries'
  <1>1. Typed /\ Placed /\ G' = G
    BY MovesIs, ValueSteady
  <1>2. ASSUME NEW s \in active', Outside PROVE entryBB'[s] \in EntryBlocks(G, s)
    BY <1>1, <1>2, OutsideMoves, JumpEntries
  <1>3. ASSUME NEW s \in active', NEW p \in Pipelines, Inside(p)
        PROVE  entryBB'[s] \in EntryBlocks(G, s)
    <2>1. CASE \E x \in active : x # End(p) /\ s = x + 1 /\ entryBB'[s] = LoopOf(p)
      <3>1. PICK x \in active : x # End(p) /\ s = x + 1 /\ entryBB'[s] = LoopOf(p)
        BY <2>1
      <3>2. x \in Stages(p)
        BY <1>3 DEF Inside
      <3>3. /\ Stay(p, x) \in Jumps(G) /\ Stay(p, x).kind # "return"
            /\ Stay(p, x).target = s /\ Stay(p, x).dest = LoopOf(p)
        BY <1>1, <3>1, <3>2, StayIs
      <3> QED BY <1>1, <3>1, <3>3, JumpEntries
    <2>2. CASE s = Begin(p) /\ entryBB'[s] = LoopOf(p)
      <3>1. /\ Back(p) \in Jumps(G) /\ Back(p).kind # "return"
            /\ Back(p).target = s /\ Back(p).dest = LoopOf(p)
        BY <1>1, <2>2, BackIs
      <3> QED BY <1>1, <2>2, <3>1, JumpEntries
    <2>3. CASE s = After(p) /\ entryBB'[s] = ExitOf(p)
      <3>1. /\ Out(p) \in Jumps(G) /\ Out(p).kind # "return"
            /\ Out(p).target = s /\ Out(p).dest = ExitOf(p)
        BY <1>1, <2>3, OutIs
      <3> QED BY <1>1, <2>3, <3>1, JumpEntries
    <2> QED BY <1>3, <2>1, <2>2, <2>3, InsideMoves
  <1>4. \A s \in active' : entryBB'[s] \in EntryBlocks(G, s)
    BY <1>1, <1>2, <1>3 DEF Placed
  <1> QED BY <1>1, <1>4 DEF Entries

LEMMA StoredNext ==
  ASSUME Moves
  PROVE  Stored'
  BY MovesIs, ValueSteady, StoreIs DEF Stored

LEMMA AheadNext ==
  ASSUME Moves
  PROVE  Ahead'
  <1>1. /\ Typed /\ Typing /\ Placed /\ Held /\ UNCHANGED <<design, plan>>
        /\ active' \subseteq States(G)
    <2>1. (active \subseteq States(G))' /\ G' = G
      BY MovesIs, ValueSteady DEF PlaceInv, Typed, TypeInv
    <2> QED BY <2>1, MovesIs
  <1>2. SUFFICES ASSUME NEW s \in active', Behind(s), s \in plan.inputs
                 PROVE  InputNext(s) = iteration'[s]
    BY <1>1, ValueSteady, InputPrime DEF Ahead
  <1> DEFINE p == MakersPipe
  <1>3. /\ p \in Pipelines /\ s \in Stages(p) /\ InMakersPipe(s) /\ V.at < s /\ s \in States(G)
        /\ Begin(p) <= V.at /\ Begin(p) \in Nat /\ V.at \in Nat /\ s \in Nat
        /\ Starts(p) = Begin(p)
    BY <1>1, <1>2, MakerIs, ValueIs, InMakersPipeIs, LoopFacts, StageFacts
       DEF Behind, InMakersPipe
  <1>4. ~Outside
    BY <1>2, <1>3, OutsideMoves
  <1>5. PICK q \in Pipelines : Inside(q)
    BY <1>1, <1>4 DEF Placed
  <1>6. PICK x \in active : x # End(q) /\ s = x + 1 /\ s \in Stages(q) /\ Happens(Stay(q, x))
    <2>1. s # Begin(q)
      <3>1. s = Begin(q) => q = p
        BY <1>1, <1>3, PipeEnds, StageFacts
      <3> QED BY <1>3, <3>1
    <2>2. s # After(q)
      BY <1>1, <1>3, ExitFacts, StageFacts, LoopFacts
    <2> QED BY <1>5, <2>1, <2>2, InsideMoves
  <1>7. q = p /\ x \in Nat /\ InMakersPipe(x)
    <2>1. q = p
      BY <1>1, <1>3, <1>6, StageFacts
    <2> QED BY <1>1, <1>5, <2>1, InsideIs
  <1>8. iteration'[s] = iteration[x]
    <2>1. s # Starts(p) /\ s - 1 = x
      BY <1>3, <1>6, <1>7
    <2> QED BY <1>3, <2>1 DEF Moves, DataCycle
  <1>9. /\ InputNext(s) = IF x = V.at THEN made' ELSE InputOf(x)
        /\ x # V.at => x \in plan.inputs
    BY <1>2, <1>5, <1>6, StayHands
  <1>10. CASE x = V.at
    <2>1. Making /\ MadeInPipe
      BY <1>1, <1>5, <1>10, InsideIs
    <2> QED BY <1>8, <1>9, <1>10, <2>1 DEF Moves, DataCycle, Instance
  <1>11. CASE x # V.at
    <2>1. Behind(x)
      BY <1>3, <1>6, <1>7, <1>11 DEF Behind
    <2> QED BY <1>1, <1>8, <1>9, <1>11, <2>1 DEF Held, Ahead
  <1> QED BY <1>10, <1>11
-----------------------------------------------------------------------------
(* The instance made last follows control.                                 *)

LEMMA AlongNext ==
  ASSUME Moves, Carried
  PROVE  Along'
  <1>1. /\ Typed /\ Typing /\ Placed /\ PlaceInv /\ Held /\ Along /\ Waiting /\ Leaving
        /\ UNCHANGED <<design, plan>> /\ active' \subseteq States(G)
    <2>1. (active \subseteq States(G))' /\ G' = G
      BY MovesIs, ValueSteady DEF PlaceInv, Typed, TypeInv
    <2> QED BY <2>1, MovesIs DEF Held
  <1>2. SUFFICES ASSUME NEW s \in active', ~Behind(s)
                 PROVE  HeldNext(s)
    BY <1>1, ValueSteady, InputPrime DEF Along
  <1>3. s \in States(G) /\ V.at \in Nat /\ s \in Nat
    BY <1>1, ValueIs
  <1>4. CASE Outside
    <2>1. PICK j \in Jumps(G) : /\ Happens(j) /\ j.target = s /\ j.at \in active
                                /\ j.at \in States(G) /\ G.pipe[j.at] = NoPipeline
      BY <1>4, OutsideMoves
    <2>2. ASSUME s \in plan.inputs
          PROVE  /\ InputNext(s) = IF j.at = V.at THEN made' ELSE InputOf(j.at)
                 /\ j.at # V.at => j.at \in plan.inputs
      BY <2>1, <2>2, HandsOver
    <2>3. ASSUME j.at # V.at, j.at \in plan.inputs PROVE InputOf(j.at) = made'
      <3>1. ~Behind(j.at)
        BY <1>1, <2>1, InMakersPipeIs DEF Behind
      <3>2. V.at \notin active
        BY <1>4, <2>1, <2>3 DEF Outside, AtMostOne
      <3> QED BY <1>1, <2>1, <2>3, <3>1, <3>2, NotMaking DEF Along, HeldAt
    <2> QED BY <2>2, <2>3 DEF HeldNext
  <1>5. ASSUME NEW p \in Pipelines, Inside(p) PROVE HeldNext(s)
    <2>1. ASSUME NEW x \in active, x # End(p), s = x + 1, s \in Stages(p), Happens(Stay(p, x))
          PROVE  HeldNext(s)
      <3>1. /\ x \in Nat /\ x \in Stages(p) /\ (InMakersPipe(x) <=> p = MakersPipe)
            /\ (InMakersPipe(s) <=> p = MakersPipe)
        BY <1>1, <1>3, <1>5, <2>1, InsideIs, InMakersPipeIs
      <3>2. x # V.at /\ ~Behind(x)
        <4>1. x = V.at => p = MakersPipe
          BY <1>1, <1>5, InsideIs
        <4> QED BY <1>2, <1>3, <2>1, <3>1, <4>1 DEF Behind
      <3>3. V.at \notin active
        <4> SUFFICES ASSUME V.at \in active PROVE FALSE
          OBVIOUS
        <4>1. MadeInPipe /\ p = MakersPipe
          BY <1>1, <1>5, InsideIs
        <4>2. V.at <= Branch(p) /\ V.at \in Front(p) /\ Branch(p) \in Nat /\ Begin(p) \in Nat
          BY <1>1, <4>1, MakersFront, LoopFacts
        <4>3. x < V.at
          BY <1>3, <3>1, <3>2, <4>1 DEF Behind
        <4>4. x \in Front(p)
          BY <1>3, <2>1, <3>1, <4>2, <4>3 DEF Front, Stages
        <4> QED BY <1>5, <3>2, <4>2, <4>4, OneFront
      <3>4. ASSUME s \in plan.inputs PROVE InputNext(s) = InputOf(x) /\ x \in plan.inputs
        BY <1>5, <2>1, <3>2, <3>4, StayHands
      <3> QED BY <1>1, <3>2, <3>3, <3>4, NotMaking DEF Along, HeldAt, HeldNext
    <2>2. CASE s = Begin(p) /\ Arrives(Back(p))
      <3>1. Back(p).target = s
        BY <1>1, <2>2, BackIs
      <3>2. Happens(Back(p)) \/ Pending(p)
        BY <1>1, <2>2, LoopArrives
      <3>3. Pending(p) => Front(p) = {} /\ lastState[s] = Branch(p) /\ HeldAt(s)
        BY <1>1, <1>5, <2>2 DEF Waiting, Inside, Deciding, Holding, Draining
      <3> QED BY <1>5, <3>1, <3>2, <3>3, BranchHands
    <2>3. CASE s = After(p) /\ Arrives(Out(p))
      <3>1. Out(p).target = s
        BY <1>1, <2>3, OutIs
      <3>2. Draining(p)
        BY <1>1, <1>5, <2>3, LeavesDrained
      <3>3. Front(p) = {} /\ lastState[s] = Branch(p) /\ HeldAt(s)
        BY <1>1, <1>5, <2>3, <3>2 DEF Leaving, Draining
      <3> QED BY <1>5, <3>1, <3>3, BranchHands
    <2> QED BY <1>5, <2>1, <2>2, <2>3, InsideMoves
  <1> QED BY <1>1, <1>4, <1>5 DEF Placed

LEMMA PendingOnly ==
  ASSUME Moves, NEW q \in Pipelines, Pending(q)'
  PROVE  /\ Inside(q)
         /\ Happens(Back(q)) \/ (Pending(q) /\ Branch(q) \notin active)
  <1>1. Typed /\ Placed /\ Cycle
    BY MovesIs
  <1>2. Inside(q)
    <2>1. ~Outside
      <3> SUFFICES ASSUME Outside PROVE FALSE
        OBVIOUS
      <3>1. active \cap Stages(q) = {} /\ ~Pending(q)
        BY <1>1, StageFacts, LoopFacts DEF Outside
      <3> QED BY <1>1, <3>1, OthersWaitNot
    <2>2. PICK p \in Pipelines : Inside(p)
      BY <1>1, <2>1 DEF Placed
    <2>3. ASSUME p # q PROVE FALSE
      <3>1. active \cap Stages(q) = {} /\ ~Pending(q)
        BY <1>1, <2>2, <2>3, StageFacts DEF Inside
      <3> QED BY <1>1, <3>1, OthersWaitNot
    <2> QED BY <2>2, <2>3
  <1> QED BY <1>1, <1>2, PendingNext

LEMMA WaitingNext ==
  ASSUME Moves, Carried
  PROVE  Waiting'
  <1>1. Typed /\ Waiting /\ UNCHANGED <<design, plan>> /\ UNCHANGED design
    BY MovesIs DEF Held
  <1>2. ASSUME NEW q \in Pipelines, Pending(q)'
        PROVE  lastState'[Begin(q)] = Branch(q) /\ HeldNext(Begin(q))
    <2>1. /\ Inside(q)
          /\ Happens(Back(q)) \/ (Pending(q) /\ Branch(q) \notin active)
      BY <1>2, PendingOnly
    <2>2. Back(q).target = Begin(q)
      BY <1>1, BackIs
    <2>3. Pending(q) => Front(q) = {} /\ lastState[Begin(q)] = Branch(q) /\ HeldAt(Begin(q))
      BY <1>1, <2>1 DEF Waiting, Inside, Deciding, Holding, Draining
    <2> QED BY <2>1, <2>2, <2>3, BranchHands
  <1>3. /\ Pipelines' = Pipelines
        /\ \A q : Begin(q)' = Begin(q) /\ Branch(q)' = Branch(q)
    BY <1>1, Steady
  <1>4. \A q : HeldAt(Begin(q))' = HeldNext(Begin(q))
    BY <1>1, <1>3 DEF HeldAt, HeldNext, InputOf, InputNext, None
  <1> QED BY <1>2, <1>3, <1>4 DEF Waiting

LEMMA LeavingNext ==
  ASSUME Moves, Carried
  PROVE  Leaving'
  <1>1. /\ Typed /\ PlaceInv /\ Placed /\ Cycle /\ Leaving
        /\ UNCHANGED <<design, plan>> /\ UNCHANGED design
    BY MovesIs DEF Held
  <1>2. ASSUME NEW q \in Pipelines, Inside(q)', Draining(q)'
        PROVE  lastState'[After(q)] = Branch(q) /\ HeldNext(After(q))
    <2>1. /\ Front(q)' = {} /\ ~Pending(q)' /\ active' # {} /\ active' \subseteq Stages(q)
      BY <1>1, <1>2, Steady DEF Inside, Draining
    <2>2. Front(q)' = active' \cap (Begin(q) .. Branch(q))
      BY <1>1, Steady DEF Front
    <2>3. Begin(q) \notin active'
      BY <1>1, <2>1, <2>2, LoopFacts
    <2>4. ~Outside
      BY <2>1, <2>3, OutsideMoves
    <2>5. PICK p \in Pipelines : Inside(p)
      BY <1>1, <2>4 DEF Placed
    <2>6. ~Arrives(Out(p))
      <3>1. After(p) \notin Stages(q)
        BY <1>1, ExitFacts, StageFacts, LoopFacts
      <3> QED BY <1>1, <2>1, <2>5, <3>1, InsideStep
    <2>7. p = q
      <3>1. active' \subseteq Stages(p)
        BY <1>1, <2>5, <2>6, FrontNext
      <3> QED BY <1>1, <2>1, <3>1, StageFacts
    <2>8. Out(q).target = After(q)
      BY <1>1, OutIs
    <2>9. CASE Draining(q)
      <3>1. Front(q) = {} /\ lastState[After(q)] = Branch(q) /\ HeldAt(After(q))
        BY <1>1, <2>5, <2>7, <2>9 DEF Leaving, Draining
      <3> QED BY <2>5, <2>7, <2>8, <3>1, BranchHands
    <2>10. CASE Holding(q)
      <3>1. Deciding(q)' \/ Holding(q)'
        BY <1>1, <2>5, <2>6, <2>7, <2>10, HoldingStep
      <3>2. Deciding(q)' => Front(q)' # {}
        BY DEF Deciding
      <3> QED BY <2>1, <3>1, <3>2 DEF Holding
    <2>11. CASE Deciding(q)
      <3>1. PICK x \in active : Front(q) = {x} /\ ~Pending(q)
        BY <2>11 DEF Deciding
      <3>2. x = Branch(q)
        BY <1>1, <2>1, <2>5, <2>6, <2>7, <3>1, FrontNext
      <3>3. ~Arrives(Back(q))
        BY <1>1, <2>3, <2>5, <2>7, InsideNext
      <3>4. ~Happens(Back(q))
        <4>1. Wait(q) \in Nat
          BY <1>1, WaitIs
        <4> QED BY <1>1, <2>1, <3>1, <3>2, <3>3, <4>1, LoopArrives, PendingNext
      <3>5. Happens(Out(q))
        <4>1. Runs(q, Branch(q))
          BY <2>5, <2>7, <3>1, <3>2 DEF Runs, Inside
        <4> QED BY <1>1, <3>4, <4>1, LoopHappens
      <3> QED BY <2>5, <2>7, <2>8, <3>5, BranchHands
    <2> QED BY <2>5, <2>7, <2>9, <2>10, <2>11 DEF Inside
  <1>3. /\ Pipelines' = Pipelines
        /\ \A q : After(q)' = After(q) /\ Branch(q)' = Branch(q)
    BY <1>1, Steady
  <1>4. \A q : HeldAt(After(q))' = HeldNext(After(q))
    BY <1>1, <1>3 DEF HeldAt, HeldNext, InputOf, InputNext, None
  <1> QED BY <1>2, <1>3, <1>4 DEF Leaving
-----------------------------------------------------------------------------
(* The iterations are numbered as their instances.                         *)

LEMMA FollowingIs ==
  ASSUME NEW i \in 0 .. Instances
  PROVE  Following(i) \in 1 .. Instances
  BY InstancesAssumption DEF Following

LEMMA NumbersNext ==
  ASSUME Moves, MadeInPipe
  PROVE  /\ begun' = IF Begin(MakersPipe) \in active' THEN Following(begun) ELSE begun
         /\ \A x \in Stages(MakersPipe) :
              iteration'[x] = IF x = Begin(MakersPipe) THEN begun' ELSE iteration[x - 1]
  <1>1. Typed /\ Typing /\ Starts(MakersPipe) = Begin(MakersPipe) /\ MakersPipe \in Pipelines
    BY MovesIs, MakerIs
  <1>2. \A x \in Stages(MakersPipe) : x \in States(G) /\ InMakersPipe(x)
    BY <1>1, StageFacts, InMakersPipeIs
  <1> QED BY <1>1, <1>2 DEF Moves, DataCycle

\* As long as the pipeline is not run, nothing is made.
LEMMA NumberedElsewhere ==
  ASSUME Moves, Carried, MadeInPipe, ~Inside(MakersPipe)
  PROVE  /\ made' = begun /\ made' = made
         /\ \A x \in Stages(MakersPipe) : x \in active' => x = Begin(MakersPipe)
  <1> DEFINE p == MakersPipe
  <1>1. /\ Typed /\ Typing /\ Placed /\ p \in Pipelines /\ V.at \in Stages(p) /\ Numbered
    BY MovesIs, MakerIs DEF Held
  <1>2. active \cap Stages(p) = {}
    <2>1. CASE Outside
      BY <1>1, <2>1, StageFacts, LoopFacts DEF Outside
    <2>2. CASE ~Outside
      <3>1. PICK q \in Pipelines : Inside(q)
        BY <1>1, <2>2 DEF Placed
      <3> QED BY <1>1, <3>1, StageFacts DEF Inside
    <2> QED BY <2>1, <2>2
  <1>3. Front(p) = {}
    BY <1>1, <1>2, LoopFacts DEF Front, Stages
  <1>4. made' = made /\ made = begun
    BY <1>1, <1>2, <1>3, NotMaking DEF Numbered
  <1>5. ASSUME NEW x \in Stages(p), x \in active' PROVE x = Begin(p)
    <2>1. CASE Outside
      BY <1>1, <1>5, <2>1, OutsideMoves
    <2>2. CASE ~Outside
      <3>1. PICK q \in Pipelines : Inside(q)
        BY <1>1, <2>2 DEF Placed
      <3>2. x \notin Stages(q) /\ x # Begin(q) /\ x # After(q)
        BY <1>1, <1>5, <3>1, StageFacts, PipeEnds, ExitFacts, LoopFacts
      <3> QED BY <1>5, <3>1, <3>2, InsideMoves
    <2> QED BY <2>1, <2>2
  <1> QED BY <1>4, <1>5

LEMMA FrontPrime ==
  ASSUME Moves, NEW p
  PROVE  Front(p)' = active' \cap (Begin(p) .. Branch(p))
  BY MovesIs, Steady DEF Front

LEMMA NumberedNext ==
  ASSUME Moves, Carried, MadeInPipe
  PROVE  Numbered'
  <1>0. UNCHANGED <<design, plan>> /\ V' = V /\ MakersPipe' = MakersPipe /\ Pipelines' = Pipelines
    BY MovesIs, ValueSteady
  <1>1. SUFFICES ASSUME NEW p \in Pipelines, p = MakersPipe
        PROVE  /\ \A x \in Front(p)' : /\ iteration'[x] = begun'
                                       /\ begun' = IF x <= V.at THEN Following(made') ELSE made'
               /\ Front(p)' = {} => made' = begun'
    BY <1>0 DEF Numbered, Following
  <1> DEFINE F == active' \cap (Begin(p) .. Branch(p))
  <1>2. /\ Typed /\ Typing /\ Placed /\ Cycle /\ PlaceInv /\ V.at \in Stages(p)
        /\ Numbered /\ Front(p)' = F
        /\ Begin(p) \in Nat /\ Branch(p) \in Nat /\ V.at \in Nat
        /\ Begin(p) <= V.at /\ V.at <= Branch(p) /\ Begin(p) <= Branch(p)
        /\ Branch(p) < End(p) /\ End(p) \in Nat
        /\ (V.at \in active <=> V.at \in Front(p))
    BY <1>1, MovesIs, MakerIs, LoopFacts, ValueIs, MakersFront, FrontPrime DEF Held
  <1>3. /\ begun' = IF Begin(p) \in active' THEN Following(begun) ELSE begun
        /\ \A x \in Stages(p) : iteration'[x] = IF x = Begin(p) THEN begun' ELSE iteration[x - 1]
    BY <1>1, NumbersNext
  <1>5. \A x \in F : x \in active' /\ x \in Nat /\ x \in Stages(p) /\ x <= Branch(p) /\ x >= Begin(p)
    BY <1>1, <1>2 DEF Stages
  <1>6. Begin(p) \in active' <=> Begin(p) \in F
    BY <1>1, <1>2
  <1>4. SUFFICES
          /\ \A x \in F : /\ iteration'[x] = begun'
                          /\ begun' = IF x <= V.at THEN Following(made') ELSE made'
          /\ F = {} => made' = begun'
    BY <1>2
  <1> HIDE DEF F
  <1>7. CASE ~Inside(p)
    <2>1. made' = begun /\ \A x \in F : x = Begin(p)
      BY <1>1, <1>5, <1>7, NumberedElsewhere
    <2> QED BY <1>1, <1>2, <1>3, <1>5, <1>6, <2>1
  <1>8. CASE Inside(p)
    <2>1. ASSUME NEW x \in F, x # Begin(p)
          PROVE  \E y \in Front(p) : y # Branch(p) /\ x = y + 1
      <3>1. x # After(p)
        BY <1>1, <1>2, <1>5, ExitFacts, StageFacts, LoopFacts
      <3>2. PICK y \in active : x = y + 1
        BY <1>5, <1>8, <2>1, <3>1, InsideMoves
      <3>3. y \in Stages(p) /\ y \in Nat
        BY <1>1, <1>2, <1>8, InsideIs
      <3>4. y < Branch(p) /\ y >= Begin(p)
        BY <1>1, <1>2, <1>5, <3>2, <3>3 DEF Stages
      <3> QED BY <1>1, <1>2, <3>2, <3>3, <3>4 DEF Front
    <2>2. Begin(p) \in F => Branch(p) \in active \/ Front(p) = {}
      <3> SUFFICES ASSUME Begin(p) \in F PROVE Branch(p) \in active \/ Front(p) = {}
        OBVIOUS
      <3>1. ~ \E y \in active : Begin(p) = y + 1
        <4>1. \A y \in active : y \in Stages(p) /\ y \in Nat
          BY <1>1, <1>2, <1>8, InsideIs
        <4> QED BY <1>1, <1>2, <4>1 DEF Stages
      <3>2. Begin(p) # After(p)
        BY <1>1, <1>2, PipeEnds, ExitFacts, StageFacts, LoopFacts
      <3>3. Arrives(Back(p))
        BY <1>5, <1>8, <3>1, <3>2, InsideMoves
      <3>4. Happens(Back(p)) \/ Pending(p)
        BY <1>1, <1>2, <3>3, LoopArrives
      <3>5. Happens(Back(p)) => Branch(p) \in active
        BY <1>1, <1>2, BackIs, HappensAt
      <3> QED BY <1>8, <3>4, <3>5 DEF Inside, Deciding, Holding, Draining
    <2>3. F = {} => Branch(p) \in active \/ Front(p) = {}
      <3> SUFFICES ASSUME F = {}, NEW y \in Front(p), y # Branch(p) PROVE FALSE
        BY <1>1, <1>2, BranchFront
      <3>1. y \in active /\ y \in Nat /\ Begin(p) <= y /\ y < Branch(p)
        BY <1>1, <1>2 DEF Front
      <3>2. y + 1 \in active'
        BY <1>1, <1>2, <1>8, <3>1, InsideNext
      <3> QED BY <1>1, <1>2, <3>1, <3>2 DEF F
    <2>4. ASSUME NEW y \in Front(p), y # Branch(p)
          PROVE  Begin(p) \notin F /\ begun' = begun
      <3>1. Branch(p) \notin active
        BY <1>1, <1>2, <1>8, <2>4, BranchFront, OneFront
      <3> QED BY <1>3, <1>6, <2>2, <2>4, <3>1
    <2>5. Branch(p) \in active \/ Front(p) = {} => made' = begun
      BY <1>1, <1>8, MadeBegun
    <2>6. ASSUME NEW x \in F, x # Begin(p)
          PROVE  /\ iteration'[x] = begun'
                 /\ begun' = IF x <= V.at THEN Following(made') ELSE made'
      <3>1. PICK y \in Front(p) : y # Branch(p) /\ x = y + 1
        BY <2>1, <2>6
      <3>2. /\ y \in active /\ y \in Nat /\ iteration[y] = begun
            /\ begun = IF y <= V.at THEN Following(made) ELSE made
        BY <1>1, <1>2, <3>1 DEF Front, Numbered
      <3>3. begun' = begun /\ iteration'[x] = begun
        BY <1>3, <1>5, <2>4, <2>6, <3>1, <3>2
      <3>4. CASE y = V.at
        <4>1. Making
          BY <1>1, <1>2, <1>8, <3>2, <3>4, InsideIs
        <4>2. made' = begun
          BY <3>2, <3>4, <4>1 DEF Moves, DataCycle, Instance
        <4> QED BY <1>1, <1>2, <3>1, <3>2, <3>3, <3>4, <4>2
      <3>5. CASE y # V.at
        <4>1. V.at \notin active
          BY <1>1, <1>2, <1>8, <3>1, <3>5, OneFront
        <4>2. made' = made
          BY <4>1, NotMaking
        <4> QED BY <1>1, <1>2, <3>1, <3>2, <3>3, <3>5, <4>2
      <3> QED BY <3>4, <3>5
    <2>7. ASSUME Begin(p) \in F
          PROVE  /\ iteration'[Begin(p)] = begun'
                 /\ begun' = Following(made')
      BY <1>3, <1>5, <1>6, <2>2, <2>5, <2>7
    <2>8. F = {} => made' = begun'
      BY <1>3, <1>6, <2>3, <2>5
    <2> QED BY <1>1, <1>2, <2>6, <2>7, <2>8
  <1> QED BY <1>7, <1>8
-----------------------------------------------------------------------------
(* Until an instance is made, control is where the maker need not have     *)
(* been.                                                                   *)

LEMMA ChainAvoids ==
  ASSUME Typed, NEW s, NEW c, IsChain(c, s), NEW a, c[1] \in ReachedAround(G, a),
         NEW k \in 1 .. Len(c), \A i \in 1 .. k : c[i] # a
  PROVE  c[k] \in ReachedAround(G, a)
  <1> DEFINE S == {n \in Nat : n + 1 <= k => c[n + 1] \in ReachedAround(G, a)}
  <1>1. IsScheduled(G) /\ Len(c) \in Nat /\ k \in Nat /\ c \in Seq(Blocks(G)) /\ 1 <= k
        /\ k <= Len(c)
    BY Scheduled DEF IsChain
  <1>2. 0 \in S
    OBVIOUS
  <1>3. ASSUME NEW n \in 1 .. k, n - 1 \in S PROVE n \in S
    <2> SUFFICES ASSUME n + 1 <= k PROVE c[n + 1] \in ReachedAround(G, a)
      BY <1>1
    <2>1. c[n] \in ReachedAround(G, a)
      BY <1>1, <1>3
    <2>2. n \in 1 .. Len(c) - 1 /\ n + 1 \in 1 .. k /\ n \in DOMAIN c /\ n + 1 \in DOMAIN c
      BY <1>1
    <2>3. Onto(s, c[n], c[n + 1]) /\ c[n] \in Blocks(G) /\ c[n + 1] \in Blocks(G)
      BY <1>1, <2>2 DEF IsChain
    <2>4. Edge(G, c[n], c[n + 1])
      BY <2>3, Scheduled DEF Onto, InStateTransitions, Constrained, Forward
    <2>5. c[n + 1] # a
      BY <2>2
    <2> QED BY <1>1, <2>1, <2>3, <2>4, <2>5, ReachedAroundIs
  <1> HIDE DEF S
  <1>4. \A n \in 0 .. k : n \in S
    BY <1>1, <1>2, <1>3, Onwards
  <1>5. k - 1 \in S
    BY <1>1, <1>4
  <1> QED BY <1>1, <1>5 DEF S

LEMMA RunsAvoids ==
  ASSUME Typed, NEW s, Straight(s), NEW a, entryBB[s] \in ReachedAround(G, a),
         ~BlockActive(s, a), NEW b, BlockActive(s, b)
  PROVE  b \in ReachedAround(G, a)
  <1>1. s \in active /\ entryBB[s] \in BlocksIn(G, s)
    BY NothingRuns DEF Typed, BlockActive
  <1>2. PICK c : RunsThrough(c, s)
    BY <1>1, Scheduled, ChainInState DEF Typed, RunsThrough
  <1>3. PICK k \in 1 .. Len(c) : b = c[k]
    BY <1>2 DEF RunsThrough
  <1>4. IsChain(c, s) /\ c[1] = entryBB[s] /\ Len(c) \in Nat
    BY <1>2 DEF RunsThrough, IsChain
  <1>5. \A i \in 1 .. k : c[i] # a
    BY <1>2, <1>3, <1>4 DEF RunsThrough
  <1> QED BY <1>3, <1>4, <1>5, ChainAvoids

LEMMA NoneMade ==
  ASSUME Moves, Carried, MadeInPipe, made' = None
  PROVE  made = None /\ V.at \notin active
  <1>1. Typed /\ Typing /\ Placed /\ Numbered /\ MakersPipe \in Pipelines
        /\ V.at \in Stages(MakersPipe)
    BY MovesIs, MakerIs DEF Held
  <1>2. V.at \notin active
    <2> SUFFICES ASSUME V.at \in active PROVE FALSE
      OBVIOUS
    <2>1. Inside(MakersPipe)
      <3>1. G.pipe[V.at] = MakersPipe /\ MakersPipe # NoPipeline
        BY <1>1, StageFacts, LoopFacts
      <3>2. PICK q \in Pipelines : Inside(q)
        BY <1>1, <3>1 DEF Placed, Outside
      <3> QED BY <1>1, <3>2, InsideIs
    <2>2. Making
      BY <1>1, <2>1, InsideIs
    <2>3. made' = iteration[V.at]
      BY <2>2 DEF Moves, DataCycle, Instance
    <2>4. iteration[V.at] = Following(made)
      BY <1>1, MakersFront, ValueIs DEF Numbered
    <2>5. Following(made) \in 1 .. Instances
      BY <1>1, FollowingIs DEF Typing
    <2> QED BY <2>3, <2>4, <2>5, InstancesAssumption DEF None
  <1> QED BY <1>2, NotMaking

LEMMA UnmadeNext ==
  ASSUME Moves, Carried, MadeInPipe
  PROVE  Unmade'
  <1>1. UNCHANGED <<design, plan>> /\ UNCHANGED design /\ MakersPipe' = MakersPipe /\ Away' = Away
        /\ Pipelines' = Pipelines
    BY MovesIs, ValueSteady
  <1>2. SUFFICES ASSUME made' = None
        PROVE  /\ \A s \in active' : /\ ~Behind(s)
                                     /\ IF InMakersPipe(s) THEN lastBB'[s] \in Away
                                        ELSE entryBB'[s] \in Away
               /\ \A p \in Pipelines : Pending(p)' => p # MakersPipe /\ LoopOf(p) \in Away
    <2>1. \A p : LoopOf(p)' = LoopOf(p)
      BY <1>1, Steady
    <2>2. \A s : InMakersPipe(s)' = InMakersPipe(s) /\ Behind(s)' = Behind(s)
      BY <1>1, ValueSteady
    <2>3. None' = None
      BY DEF None
    <2> QED BY <1>1, <2>1, <2>2, <2>3 DEF Unmade
  <1>3. /\ Typed /\ Typing /\ Placed /\ PlaceInv /\ Held /\ Unmade /\ MakersPipe \in Pipelines
        /\ V.blk = LoopOf(MakersPipe) /\ Begin(MakersPipe) <= V.at /\ V.at <= Branch(MakersPipe)
        /\ V.at \in Nat /\ made = None /\ V.at \notin active
    BY <1>2, MovesIs, MakerIs, MakersFront, ValueIs, NoneMade DEF Held
  <1>4. /\ \A s \in active : /\ ~Behind(s)
                             /\ IF InMakersPipe(s) THEN lastBB[s] \in Away
                                ELSE entryBB[s] \in Away
        /\ \A p \in Pipelines : Pending(p) => p # MakersPipe /\ LoopOf(p) \in Away
    BY <1>3 DEF Unmade
  <1>5. \A b, d \in Blocks(G) : b \in Away /\ Edge(G, b, d) => d \in Away \/ d = V.blk
    BY <1>3, Scheduled, ReachedAroundIs DEF Away
  <1>6. IsScheduled(G) /\ active' \subseteq States(G)
    <2>1. (active \subseteq States(G))' /\ G' = G
      BY MovesIs, ValueSteady DEF PlaceInv, Typed, TypeInv
    <2> QED BY <1>3, <2>1, Scheduled
  \* The maker's pipeline gets to no branch.
  <1>7. ASSUME Inside(MakersPipe)
        PROVE  Branch(MakersPipe) \notin active /\ End(MakersPipe) \notin active
               /\ ~Pending(MakersPipe)
    <2>1. \A s \in active : s \in Nat /\ s <= V.at /\ s # V.at
      BY <1>3, <1>4, <1>7, InsideIs DEF Behind
    <2> QED BY <1>3, <1>4, <2>1, LoopFacts
  <1>8. ASSUME NEW p \in Pipelines, Pending(p)' PROVE p # MakersPipe /\ LoopOf(p) \in Away
    <2>1. /\ Inside(p)
          /\ Happens(Back(p)) \/ Pending(p)
      BY <1>8, PendingOnly
    <2>2. Happens(Back(p)) => Branch(p) \in active
      BY <1>3, BackIs, HappensAt
    <2>3. p # MakersPipe
      BY <1>7, <2>1, <2>2
    <2>4. Branch(p) \in active => LoopOf(p) \in Away
      BY <1>3, <1>4, <2>1, <2>3, InsideIs
    <2> QED BY <1>4, <2>1, <2>2, <2>3, <2>4
  <1>9. ASSUME NEW s \in active', Outside
        PROVE  ~Behind(s) /\ IF InMakersPipe(s) THEN lastBB'[s] \in Away ELSE entryBB'[s] \in Away
    <2>1. PICK j \in Jumps(G) :
            /\ Happens(j) /\ j.kind # "return" /\ j.target = s
            /\ j.at \in active /\ j.at \in States(G) /\ G.pipe[j.at] = NoPipeline
            /\ Straight(j.at) /\ entryBB'[s] = j.dest /\ lastBB'[s] = LastBlock(j)
            /\ \A p \in Pipelines : s \in Stages(p) =>
                 j.kind = "branch" /\ j.dest = LoopOf(p) /\ s = Begin(p)
      BY <1>9, OutsideMoves
    <2>2. entryBB[j.at] \in Away
      BY <1>3, <1>4, <2>1, InMakersPipeIs
    <2>3. ~BlockActive(j.at, V.blk)
      <3> SUFFICES ASSUME BlockActive(j.at, V.blk) PROVE FALSE
        OBVIOUS
      <3>1. V.blk \in BlocksIn(G, j.at) /\ j.at \in Nat
        BY <1>3, <1>6, <2>1, ActiveBlock DEF Typed, IsScheduled
      <3>2. j.at \in Stages(MakersPipe)
        BY <1>3, <3>1, LoopFacts DEF BlocksIn, Stages, Begin, End
      <3> QED BY <1>3, <2>1, <3>2, StageFacts, LoopFacts
    <2>4. j.src \in Away
      <3>1. BlockActive(j.at, j.src)
        BY <1>3, <2>1, HappensAt
      <3> QED BY <1>3, <2>1, <2>2, <2>3, <3>1, RunsAvoids DEF Away
    <2>5. s \in States(G) /\ (InMakersPipe(s) => s = Begin(MakersPipe) /\ j.kind = "branch")
      BY <1>3, <1>6, <2>1, InMakersPipeIs
    <2>6. ~Behind(s)
      BY <1>3, <2>5, LoopFacts DEF Behind
    <2>7. CASE InMakersPipe(s)
      BY <2>1, <2>4, <2>5, <2>6, <2>7 DEF LastBlock
    <2>8. CASE ~InMakersPipe(s)
      <3>1. j.dest \in Away
        <4>1. CASE j.kind = "stay"
          <5>1. j.dest = j.src
            BY <4>1, JumpShape
          <5> QED BY <2>4, <5>1
        <4>2. CASE j.kind = "branch"
          <5>1. <<j.src, j.dest>> \in OutOfStateTransitions(G, j.at) /\ s = G.first[j.dest]
            BY <2>1, <4>2, JumpShape
          <5>2. Edge(G, j.src, j.dest) /\ j.src \in Blocks(G) /\ j.dest \in Blocks(G)
            BY <1>6, <5>1, JumpTypes DEF OutOfStateTransitions, AllTransitions
          <5>3. j.dest # V.blk
            <6> SUFFICES ASSUME j.dest = V.blk PROVE FALSE
              OBVIOUS
            <6>1. s = Begin(MakersPipe)
              BY <1>3, <5>1 DEF Begin
            <6> QED BY <1>3, <2>5, <2>8, <6>1, PipeEnds, InMakersPipeIs
          <5> QED BY <1>5, <2>4, <5>2, <5>3
        <4> QED BY <1>6, <2>1, <4>1, <4>2, JumpTypes
      <3> QED BY <2>1, <2>6, <2>8, <3>1
    <2> QED BY <2>7, <2>8
  <1>10. ASSUME NEW s \in active', NEW p \in Pipelines, Inside(p)
         PROVE  ~Behind(s) /\ IF InMakersPipe(s) THEN lastBB'[s] \in Away ELSE entryBB'[s] \in Away
    <2>1. s \in States(G) /\ s \in Nat
      BY <1>6 DEF IsScheduled
    <2>2. ASSUME p # MakersPipe, NEW x \in active PROVE LoopOf(p) \in Away
      BY <1>3, <1>4, <1>10, <2>2, InsideIs
    <2>3. ASSUME NEW x \in active, s = x + 1, s \in Stages(p),
                 entryBB'[s] = LoopOf(p), lastBB'[s] = lastBB[x]
          PROVE  ~Behind(s) /\ IF InMakersPipe(s) THEN lastBB'[s] \in Away
                               ELSE entryBB'[s] \in Away
      <3>1. x \in Nat /\ (InMakersPipe(x) <=> p = MakersPipe) /\ (InMakersPipe(s) <=> p = MakersPipe)
        BY <1>3, <1>10, <2>1, <2>3, InsideIs, InMakersPipeIs
      <3>2. x # V.at /\ ~Behind(x)
        BY <1>3, <1>4
      <3> QED BY <1>3, <1>4, <2>2, <2>3, <3>1, <3>2 DEF Behind
    <2>4. CASE s = Begin(p) /\ Arrives(Back(p)) /\ entryBB'[s] = LoopOf(p)
      <3>1. Happens(Back(p)) \/ Pending(p)
        BY <1>3, <2>4, LoopArrives
      <3>2. Happens(Back(p)) => Branch(p) \in active
        BY <1>3, BackIs, HappensAt
      <3>3. p # MakersPipe
        BY <1>7, <1>10, <3>1, <3>2
      <3>4. ~InMakersPipe(s)
        BY <1>3, <2>1, <2>4, <3>3, PipeEnds, InMakersPipeIs
      <3> QED BY <1>4, <2>2, <2>4, <3>1, <3>2, <3>3, <3>4 DEF Behind
    <2>5. CASE s = After(p) /\ Arrives(Out(p)) /\ entryBB'[s] = ExitOf(p)
      <3>1. active = {End(p)}
        BY <1>3, <1>10, <2>5, LeavesDrained
      <3>2. p # MakersPipe
        BY <1>7, <1>10, <3>1
      <3>3. G.pipe[s] = NoPipeline /\ ExitOf(p) \in Blocks(G) /\ Edge(G, LoopOf(p), ExitOf(p))
            /\ LoopOf(p) \in Blocks(G)
        BY <1>3, <2>5, ExitFacts, LoopFacts
      <3>4. ~InMakersPipe(s)
        BY <1>3, <2>1, <3>3, InMakersPipeIs
      <3>5. ExitOf(p) # V.blk
        <4> SUFFICES ASSUME ExitOf(p) = V.blk PROVE FALSE
          OBVIOUS
        <4>1. s = Begin(MakersPipe)
          BY <1>3, <2>5 DEF Begin, After
        <4> QED BY <1>3, <3>3, <4>1, PipeEnds, StageFacts, LoopFacts
      <3>6. LoopOf(p) \in Away
        BY <2>2, <3>1, <3>2
      <3> QED BY <1>5, <2>5, <3>3, <3>4, <3>5, <3>6 DEF Behind
    <2> QED BY <1>10, <2>3, <2>4, <2>5, InsideMoves
  <1> QED BY <1>3, <1>8, <1>9, <1>10 DEF Placed
-----------------------------------------------------------------------------
(* The invariant.                                                          *)

LEMMA TypingNext ==
  ASSUME DataInv, DataCycle
  PROVE  Typing'
  <1>1. /\ Typed /\ Typing /\ UNCHANGED <<design, plan>> /\ design.jumps = Jumps(G)
        /\ IsScheduled(G) /\ plan.stores \subseteq States(G)
    BY Scheduled, PlanIs DEF DataInv, PlaceInv, DataCycle, Cycle
  <1>2. /\ lastState \in [States(G) -> States(G) \cup {0}]
        /\ store \in [States(G) -> 0 .. Instances]
        /\ made \in 0 .. Instances /\ begun \in 0 .. Instances
        /\ iteration \in [States(G) -> 0 .. Instances]
        /\ AllReached(G) /\ V \in PassingUses(G) /\ plan = Plan(G, V)
    BY <1>1 DEF Typing
  <1>3. ASSUME NEW s \in States(G) PROVE LastStateNext(s) \in States(G) \cup {0}
    <2>1. ASSUME NEW j \in LastWrites(s) PROVE j.at \in States(G)
      BY <1>1, <2>1, JumpTypes DEF LastWrites
    <2> QED BY <1>2, <2>1 DEF LastStateNext
  <1>4. None \in 0 .. Instances /\ Instance \in 0 .. Instances
    <2>1. None \in 0 .. Instances
      BY InstancesAssumption DEF None
    <2>2. V.at \in States(G)
      BY <1>1, ValueIs
    <2>3. Following(made) \in 0 .. Instances
      BY <1>2, FollowingIs
    <2> QED BY <1>2, <2>1, <2>2, <2>3 DEF Instance
  <1>5. ASSUME NEW s \in States(G) PROVE StoreNext(s) \in 0 .. Instances
    <2>1. InputOf(s) \in 0 .. Instances
      BY <1>1, <1>2, <1>4 DEF InputOf
    <2> QED BY <1>2, <1>4, <2>1 DEF StoreNext
  <1>6. made' \in 0 .. Instances /\ begun' \in 0 .. Instances
    <2>1. Following(begun) \in 0 .. Instances
      BY <1>2, FollowingIs
    <2> QED BY <1>2, <1>4, <2>1 DEF DataCycle
  <1>7. iteration' \in [States(G) -> 0 .. Instances]
    <2>1. ASSUME NEW s \in States(G), InMakersPipe(s), s # Starts(MakersPipe)
          PROVE  s - 1 \in States(G)
      <3>1. /\ MakersPipe \in Pipelines /\ s \in Stages(MakersPipe)
            /\ Starts(MakersPipe) = Begin(MakersPipe)
        BY <1>1, <2>1, InMakersPipeIs, MakerIs
      <3>2. s - 1 \in Stages(MakersPipe)
        BY <1>1, <2>1, <3>1, LoopFacts DEF Stages
      <3> QED BY <1>1, <3>1, <3>2, StageFacts
    <2> QED BY <1>2, <1>4, <1>6, <2>1 DEF DataCycle
  <1>8. /\ lastState' \in [States(G) -> States(G) \cup {0}]
        /\ store' \in [States(G) -> 0 .. Instances]
    BY <1>3, <1>5 DEF DataCycle
  <1>9. G' = G /\ V' = V
    BY <1>1, ValueSteady
  <1> QED BY <1>1, <1>2, <1>6, <1>7, <1>8, <1>9 DEF Typing

LEMMA DataStep ==
  ASSUME DataInv, DataCycle
  PROVE  DataInv'
  <1>1. PlaceInv'
    BY PlaceStep DEF DataInv, DataCycle
  <1>2. ASSUME ~returned' PROVE Held'
    <2>1. Moves
      BY <1>2 DEF Moves, DataCycle
    <2>2. Carried' = Carried /\ MadeInPipe' = MadeInPipe
      BY <2>1, MovesIs, ValueSteady
    <2>3. Entries' /\ Stored' /\ Ahead'
      BY <2>1, EntriesNext, StoredNext, AheadNext
    <2>4. Carried => Along' /\ Waiting' /\ Leaving'
      BY <2>1, AlongNext, WaitingNext, LeavingNext
    <2>5. MadeInPipe /\ Carried => Numbered' /\ Unmade'
      BY <2>1, NumberedNext, UnmadeNext
    <2> QED BY <2>2, <2>3, <2>4, <2>5 DEF Held
  <1> QED BY <1>1, <1>2, TypingNext DEF DataInv

LEMMA DataStutter ==
  ASSUME DataInv, UNCHANGED dataVars
  PROVE  DataInv'
  <1>1. /\ UNCHANGED vars /\ UNCHANGED design /\ UNCHANGED <<design, plan>>
        /\ active' = active /\ entryBB' = entryBB
        /\ lastBB' = lastBB /\ outOfPipe' = outOfPipe /\ stored' = stored /\ waited' = waited
        /\ lastState' = lastState /\ store' = store /\ made' = made /\ begun' = begun
        /\ iteration' = iteration /\ returned' = returned
    BY DEF dataVars, vars, registers
  <1>2. PlaceInv'
    BY <1>1, PlaceStutter DEF DataInv
  <1>3. /\ G' = G /\ V' = V /\ Pipelines' = Pipelines /\ MakersPipe' = MakersPipe
        /\ MadeInPipe' = MadeInPipe /\ Carried' = Carried /\ Away' = Away
        /\ \A s : InMakersPipe(s)' = InMakersPipe(s) /\ Behind(s)' = Behind(s)
    BY <1>1, ValueSteady
  <1>4. Typing'
    BY <1>1, <1>3 DEF Typing, DataInv
  <1>5. \A p : /\ LoopOf(p)' = LoopOf(p) /\ Begin(p)' = Begin(p) /\ Branch(p)' = Branch(p)
               /\ After(p)' = After(p) /\ Back(p)' = Back(p) /\ Wait(p)' = Wait(p)
               /\ Stages(p)' = Stages(p) /\ End(p)' = End(p) /\ Way(p)' = Way(p)
    BY <1>1, Steady
  <1>6. ASSUME NEW p PROVE Pending(p)' = Pending(p) /\ Front(p)' = Front(p) /\ Lead(p)' = Lead(p)
    BY <1>1, <1>5 DEF Pending, Front, Lead
  <1>7. ASSUME NEW p
        PROVE  Deciding(p)' = Deciding(p) /\ Holding(p)' = Holding(p) /\ Draining(p)' = Draining(p)
    BY <1>1, <1>5, <1>6 DEF Deciding, Holding, Draining
  <1>8. ASSUME NEW p PROVE Inside(p)' = Inside(p)
    BY <1>1, <1>3, <1>5, <1>6, <1>7 DEF Inside
  <1>9. ASSUME NEW s PROVE InputOf(s)' = InputOf(s) /\ HeldAt(s)' = HeldAt(s)
    BY <1>1 DEF InputOf, HeldAt, None
  <1>10. ASSUME Held PROVE Held'
    <2>1. Entries' /\ Stored' /\ Ahead'
      BY <1>1, <1>3, <1>9, <1>10 DEF Held, Entries, Stored, Ahead
    <2>2. Carried => Along' /\ Waiting' /\ Leaving'
      <3>1. Carried => Along'
        BY <1>1, <1>3, <1>9, <1>10 DEF Held, Along
      <3>2. \A p : HeldAt(Begin(p))' = HeldAt(Begin(p)) /\ HeldAt(After(p))' = HeldAt(After(p))
        BY <1>1, <1>5 DEF HeldAt, InputOf, None
      <3>3. Carried => Waiting'
        BY <1>1, <1>3, <1>5, <1>6, <1>10, <3>2 DEF Held, Waiting
      <3>4. Carried => Leaving'
        BY <1>1, <1>3, <1>5, <1>7, <1>8, <1>10, <3>2 DEF Held, Leaving
      <3> QED BY <3>1, <3>3, <3>4
    <2>3. MadeInPipe /\ Carried => Numbered'
      BY <1>1, <1>3, <1>6, <1>10 DEF Held, Numbered, Following
    <2>4. MadeInPipe /\ Carried => Unmade'
      BY <1>1, <1>3, <1>5, <1>6, <1>10 DEF Held, Unmade, None
    <2> QED BY <1>3, <2>1, <2>2, <2>3, <2>4 DEF Held
  <1> QED BY <1>1, <1>2, <1>4, <1>10 DEF DataInv

LEMMA DataFirst ==
  ASSUME DataInit, \A g \in Functions : PipelinedLoops(g) /\ AllReached(g),
         \A g \in Functions : Values(g) \subseteq PassingUses(g)
  PROVE  DataInv
  <1>1. /\ Init /\ PlaceInv /\ active # {} /\ \A s \in active : G.pipe[s] = NoPipeline
    BY PlaceFirst DEF DataInit
  <1>2. Typed /\ IsScheduled(G) /\ G \in Functions
    BY <1>1, Scheduled DEF PlaceInv
  <1>3. PICK v \in Values(G) : plan = Plan(G, v)
    BY DEF DataInit
  <1>4. V = v
    BY <1>3 DEF V, Plan
  <1>5. None \in 0 .. Instances
    BY InstancesAssumption DEF None
  <1>6. Typing
    BY <1>2, <1>3, <1>4, <1>5 DEF Typing, DataInit
  <1>7. \A s \in States(G) : InputOf(s) = made
    <2>1. plan.stores \subseteq States(G)
      BY <1>2, <1>6, PlanIs
    <2> QED BY <2>1 DEF InputOf, DataInit
  <1>8. active \subseteq States(G)
    BY <1>1 DEF PlaceInv, Typed, TypeInv
  <1>9. \A p \in Pipelines : ~Pending(p) /\ ~Inside(p) /\ Front(p) = {}
    <2> SUFFICES ASSUME NEW p \in Pipelines PROVE ~Pending(p) /\ ~Inside(p) /\ Front(p) = {}
      OBVIOUS
    <2>1. active \cap Stages(p) = {}
      BY <1>1, <1>2, StageFacts, LoopFacts
    <2>2. ~Pending(p)
      BY <1>1 DEF Init, Pending
    <2>3. Front(p) = {}
      BY <1>2, <2>1, LoopFacts DEF Front, Stages
    <2> QED BY <1>1, <2>1, <2>2, <2>3 DEF Inside
  <1>10. \A s \in active : ~InMakersPipe(s) /\ ~Behind(s)
    BY <1>1, <1>2, <1>6, <1>8, InMakersPipeIs DEF Behind
  <1>11. \A s \in active : s = G.first[Entry] /\ entryBB[s] = Entry
    <2>1. \A t : StartState(G, t) = G.first[Entry]
      <3>1. ASSUME NEW t PROVE {j \in Jumps(G) : /\ j.kind = "branch" /\ j.outOfTask
                                                 /\ G.task[j.dest] = t} = {}
        BY <1>2, OneTask
      <3> QED BY <3>1 DEF StartState
    <2>2. active = {StartState(G, G.task[b]) : b \in Blocks(G)}
      BY <1>1, <1>2, DesignFacts DEF Init
    <2> QED BY <1>1, <1>8, <2>1, <2>2 DEF Init
  <1>12. Entry \in Blocks(G) /\ \A b \in Blocks(G) : ~Edge(G, b, Entry)
    BY <1>2, Scheduled DEF IsScheduled, Constrained, EntryFirst
  <1>13. Entries
    <2>1. ControlPreds(G, Entry) = {}
      <3>1. \A e \in G.preds : e[1] \in Blocks(G) /\ Edge(G, e[1], e[2])
        BY <1>2, Scheduled DEF IsScheduled, Constrained, Forward
      <3> QED BY <1>12, <3>1 DEF ControlPreds
    <2>2. Entry \in BlocksIn(G, G.first[Entry])
      BY <1>2, <1>12, Scheduled
    <2> QED BY <1>11, <1>12, <2>1, <2>2 DEF Entries, EntryBlocks
  <1>14. MadeInPipe => Unmade
    <2> SUFFICES ASSUME MadeInPipe PROVE Entry \in Away
      BY <1>9, <1>10, <1>11 DEF Unmade
    <2>1. Edge(G, V.blk, V.blk) /\ V.blk \in Blocks(G)
      BY <1>2, <1>6, MakerIs, ExitFacts, ValueIs
    <2> QED BY <1>2, <1>12, <2>1, ReachedAroundIs DEF Away
  <1>15. Stored
    <2>1. plan.stores \subseteq States(G)
      BY <1>2, <1>6, PlanIs
    <2> QED BY <1>6, <2>1 DEF Stored, DataInit
  <1>16. Ahead /\ Along /\ Waiting /\ Leaving
    BY <1>7, <1>8, <1>9, <1>10 DEF Ahead, Along, Waiting, Leaving, HeldAt
  <1>17. Numbered
    BY <1>9 DEF Numbered, DataInit
  <1> QED BY <1>1, <1>6, <1>13, <1>14, <1>15, <1>16, <1>17 DEF DataInv, Held
-----------------------------------------------------------------------------
(* The order of the blocks run through in a cycle.                         *)

\* What runs after a block is the least set that the edges taken stay in.
LEMMA RunsBeforeIs ==
  ASSUME Typed, NEW b \in Blocks(G),
         \A e \in design.inState[V.uat] : e[2] \in Blocks(G)
  PROVE  \E A \in SUBSET Blocks(G) :
           /\ \A c : RunsBefore(b, c) <=> c # b /\ c \in A
           /\ b \in A /\ Further(A) = A
           /\ \A T \in SUBSET Blocks(G) : b \in T /\ Further(T) \subseteq T => A \subseteq T
  <1> DEFINE B == Blocks(G)
             N == Cardinality(B)
             F == [S \in SUBSET B |-> Further(S)]
             base == {b}
  <1>1. /\ IsFiniteSet(B) /\ N \in Nat /\ base \in SUBSET B
        /\ \A S \in SUBSET B : Further(S) \in SUBSET B
    <2>1. IsFiniteSet(B)
      BY Scheduled DEF IsScheduled
    <2>2. \A S \in SUBSET B : Further(S) \in SUBSET B
      BY DEF Further
    <2> QED BY <2>1, <2>2, FS_CardinalityType
  <1>2. F \in [SUBSET B -> SUBSET B] /\ \A S \in SUBSET B : F[S] = Further(S)
    BY <1>1
  <1>3. \E f : f = [n \in 0 .. N |-> IF n = 0 THEN base ELSE Further(f[n - 1])]
    <2> DEFINE D == SUBSET B
               E == [n \in Nat |-> F]
    <2>1. base \in D /\ E \in [Nat -> [D -> D]] /\ N \in Nat /\ \A n \in 0 .. N : E[n] = F
      BY <1>1, <1>2
    <2>2. \A S \in D : F[S] = Further(S)
      BY <1>2
    <2> HIDE DEF F, base, N, D, E
    <2>3. Stepping(N, D, base, E)
      BY <2>1 DEF Stepping
    <2>4. PICK f : Steps(N, D, base, E, f)
      BY <2>3, IteratesExist
    <2>5. ASSUME NEW n \in 0 .. N, n # 0 PROVE f[n] = Further(f[n - 1])
      <3>1. n \in 1 .. N /\ n - 1 \in 0 .. N
        BY <2>1, <2>5
      <3>2. f[n] = E[n][f[n - 1]] /\ f[n - 1] \in D
        BY <2>4, <3>1 DEF Steps
      <3> QED BY <2>1, <2>2, <3>2
    <2>6. f = [n \in 0 .. N |-> IF n = 0 THEN base ELSE Further(f[n - 1])]
      BY <2>4, <2>5 DEF Steps
    <2> QED BY <2>6
  <1> DEFINE r == CHOOSE f : f = [n \in 0 .. N |-> IF n = 0 THEN base ELSE Further(f[n - 1])]
  <1>4. r = [n \in 0 .. N |-> IF n = 0 THEN base ELSE Further(r[n - 1])]
    <2> HIDE DEF base, N
    <2> QED BY <1>3
  <1>5. \A c : RunsBefore(b, c) <=> c # b /\ c \in r[N]
    BY DEF RunsBefore
  <1> HIDE DEF r
  <1>6. /\ r \in [0 .. N -> SUBSET B] /\ r[0] = base
        /\ \A n \in 1 .. N : r[n] = Further(r[n - 1]) /\ r[n] = F[r[n - 1]]
    <2> DEFINE S == {n \in Nat : n <= N => r[n] \in SUBSET B}
    <2>1. r[0] = base /\ \A n \in 1 .. N : r[n] = Further(r[n - 1])
      <3>1. 0 \in 0 .. N /\ \A n \in 1 .. N : n \in 0 .. N /\ n # 0
        BY <1>1
      <3> HIDE DEF base, N
      <3> QED BY <1>4, <3>1
    <2>2. 0 \in S
      BY <1>1, <2>1
    <2>3. ASSUME NEW n \in 1 .. N, n - 1 \in S PROVE n \in S
      <3>1. n \in Nat /\ n - 1 \in Nat /\ n - 1 <= N
        BY <1>1
      <3>2. r[n - 1] \in SUBSET B
        BY <2>3, <3>1
      <3>3. r[n] \in SUBSET B
        BY <1>1, <2>1, <3>2
      <3> QED BY <3>1, <3>3
    <2> HIDE DEF S
    <2>4. \A n \in 0 .. N : n \in S
      BY <1>1, <2>2, <2>3, Onwards
    <2>5. \A n \in 0 .. N : r[n] \in SUBSET B
      BY <1>1, <2>4 DEF S
    <2>6. \A n \in 1 .. N : n - 1 \in 0 .. N
      BY <1>1
    <2> HIDE DEF N, base, F
    <2>7. r \in [0 .. N -> SUBSET B]
      BY <1>4, <2>5
    <2> QED BY <1>2, <2>1, <2>5, <2>6, <2>7
  <1>7. F[r[N]] = r[N] /\ r[0] \subseteq r[N]
    <2>1. r[0] \subseteq F[r[0]]
      BY <1>1, <1>6 DEF Further
    <2>2. \A S, T \in SUBSET B : S \subseteq T => F[S] \subseteq F[T]
      BY DEF Further
    <2>3. N = Cardinality(B)
      OBVIOUS
    <2> HIDE DEF F, base, N, B
    <2>4. Climbing(B, N, F, r)
      BY <1>1, <1>2, <1>6, <2>1, <2>2, <2>3 DEF Climbing
    <2> QED BY <2>4, Saturates
  <1>8. r[N] \in SUBSET B
    BY <1>1, <1>6
  <1>9. ASSUME NEW T \in SUBSET B, b \in T, Further(T) \subseteq T PROVE r[N] \subseteq T
    <2> DEFINE S == {n \in Nat : n <= N => r[n] \subseteq T}
    <2>1. 0 \in S
      BY <1>6, <1>9
    <2>2. ASSUME NEW n \in 1 .. N, n - 1 \in S PROVE n \in S
      <3>1. n \in Nat /\ n - 1 \in Nat /\ n - 1 <= N
        BY <1>1
      <3>2. r[n - 1] \subseteq T /\ r[n] = Further(r[n - 1])
        BY <1>6, <2>2, <3>1
      <3>3. r[n] \subseteq T
        BY <1>9, <3>2 DEF Further
      <3> QED BY <3>1, <3>3
    <2> HIDE DEF S
    <2>3. \A n \in 0 .. N : n \in S
      BY <1>1, <2>1, <2>2, Onwards
    <2>4. N \in S
      BY <1>1, <2>3
    <2> QED BY <1>1, <2>4 DEF S
  <1>10. b \in r[N]
    BY <1>6, <1>7
  <1>11. Further(r[N]) = r[N]
    BY <1>2, <1>7, <1>8
  <1> QED BY <1>5, <1>8, <1>9, <1>10, <1>11
LEMMA ChainGoes ==
  ASSUME Typed, NEW s, Straight(s), NEW c, RunsThrough(c, s), NEW k \in 1 .. Len(c)
  PROVE  /\ c[k] \in Blocks(G) /\ BlockActive(s, c[k]) /\ Len(c) \in Nat
         /\ k < Len(c) => /\ <<c[k], c[k + 1]>> \in InStateTransitions(G, s)
                          /\ EdgeTaken(c[k], c[k + 1])
         /\ \A d : <<c[k], d>> \in InStateTransitions(G, s) /\ EdgeTaken(c[k], d)
                     => k < Len(c) /\ d = c[k + 1]
  <1>1. /\ IsChain(c, s) /\ Final(c, s) /\ c \in Seq(Blocks(G)) /\ Len(c) \in Nat
        /\ IsScheduled(G)
    BY Scheduled DEF RunsThrough, IsChain
  <1>2. c[k] \in Blocks(G) /\ BlockActive(s, c[k])
    BY <1>1 DEF RunsThrough
  <1>3. ASSUME k < Len(c)
        PROVE  <<c[k], c[k + 1]>> \in InStateTransitions(G, s) /\ EdgeTaken(c[k], c[k + 1])
    <2>1. Onto(s, c[k], c[k + 1])
      BY <1>1, <1>3 DEF IsChain
    <2>2. G.last[c[k]] = s
      BY <2>1 DEF Onto, InStateTransitions
    <2>3. c[k] \in BlocksIn(G, s)
      BY <1>2, ActiveBlock DEF Typed
    <2>4. G.br[c[k]] = s
      BY <2>2, <2>3 DEF Straight
    <2> QED BY <1>2, <2>1, <2>4 DEF Onto, EdgeTaken
  <1>4. ASSUME NEW d, <<c[k], d>> \in InStateTransitions(G, s), EdgeTaken(c[k], d)
        PROVE  k < Len(c) /\ d = c[k + 1]
    <2>1. Onto(s, c[k], d) /\ Chosen(c[k], d)
      BY <1>4 DEF Onto, EdgeTaken
    <2>2. k # Len(c)
      BY <1>1, <2>1 DEF Final
    <2>3. k < Len(c) /\ k \in 1 .. Len(c) - 1
      BY <1>1, <2>2
    <2>4. Chosen(c[k], c[k + 1])
      BY <1>1, <2>3 DEF IsChain, Onto
    <2> QED BY <1>1, <1>2, <2>1, <2>3, <2>4, ChosenOne
  <1> QED BY <1>1, <1>2, <1>3, <1>4

LEMMA RunsBeforeInChain ==
  ASSUME Typed, Straight(V.uat), NEW c, RunsThrough(c, V.uat), NEW i \in 1 .. Len(c),
         NEW d
  PROVE  RunsBefore(c[i], d) <=> \E k \in 1 .. Len(c) : i < k /\ d = c[k]
  <1> DEFINE s == V.uat
             T == {c[k] : k \in i .. Len(c)}
  <1>1. /\ Len(c) \in Nat /\ c \in Seq(Blocks(G)) /\ s \in States(G)
        /\ \A m, n \in 1 .. Len(c) : c[m] = c[n] => m = n
    BY DEF RunsThrough, IsChain, Straight
  <1>2. design.inState[s] = InStateTransitions(G, s)
    BY <1>1, DesignFacts DEF Typed, TypeInv
  <1>3. ASSUME NEW e \in design.inState[s]
        PROVE  e = <<e[1], e[2]>> /\ e[1] \in Blocks(G) /\ e[2] \in Blocks(G)
    BY <1>3, InsideEdge DEF Typed
  <1>4. c[i] \in Blocks(G) /\ T \in SUBSET Blocks(G)
    BY <1>1
  <1>5. PICK A \in SUBSET Blocks(G) :
           /\ \A x : RunsBefore(c[i], x) <=> x # c[i] /\ x \in A
           /\ c[i] \in A /\ Further(A) = A
           /\ \A S \in SUBSET Blocks(G) : c[i] \in S /\ Further(S) \subseteq S => A \subseteq S
    BY <1>3, <1>4, RunsBeforeIs
  <1>6. A \subseteq T
    <2>1. c[i] \in T
      BY <1>1
    <2>2. ASSUME NEW x \in Further(T) PROVE x \in T
      <3>1. CASE x \in T
        BY <3>1
      <3>2. CASE x \notin T
        <4>1. PICK e \in design.inState[s] : e[1] \in T /\ EdgeTaken(e[1], e[2]) /\ x = e[2]
          BY <3>2, <2>2 DEF Further
        <4>2. PICK k \in i .. Len(c) : e[1] = c[k]
          BY <4>1
        <4>3. <<c[k], x>> \in InStateTransitions(G, s) /\ EdgeTaken(c[k], x)
          BY <1>2, <1>3, <4>1, <4>2
        <4>4. k \in 1 .. Len(c)
          BY <1>1, <4>2
        <4>5. k < Len(c) /\ x = c[k + 1]
          <5>1. \A z : <<c[k], z>> \in InStateTransitions(G, s) /\ EdgeTaken(c[k], z)
                       => k < Len(c) /\ z = c[k + 1]
            BY <1>1, <4>4, ChainGoes, ZenonT(40)
          <5> QED BY <4>3, <5>1
        <4> QED BY <1>1, <4>2, <4>5
      <3> QED BY <3>1, <3>2
    <2> HIDE DEF T
    <2> QED BY <1>4, <1>5, <2>1, <2>2
  <1>7. T \subseteq A
    <2> DEFINE S == {n \in Nat : n >= i /\ n <= Len(c) => c[n] \in A}
    <2>1. 0 \in S
      BY <1>1
    <2>2. ASSUME NEW n \in 1 .. Len(c), n - 1 \in S PROVE n \in S
      <3>1. CASE n <= i
        BY <1>1, <1>5, <3>1
      <3>2. CASE n > i
        <4>1. n - 1 \in 1 .. Len(c) /\ n - 1 < Len(c) /\ n - 1 >= i /\ (n - 1) + 1 = n
          BY <1>1, <3>2
        <4>2. c[n - 1] \in A
          BY <1>1, <2>2, <4>1
        <4>3. <<c[n - 1], c[n]>> \in design.inState[s] /\ EdgeTaken(c[n - 1], c[n])
          BY <1>2, <4>1, ChainGoes
        <4>4. c[n] \in Further(A)
          <5>1. <<c[n - 1], c[n]>>[1] = c[n - 1] /\ <<c[n - 1], c[n]>>[2] = c[n]
            OBVIOUS
          <5> QED BY <4>2, <4>3, <5>1 DEF Further
        <4> QED BY <1>1, <1>5, <4>4
      <3> QED BY <1>1, <3>1, <3>2
    <2> HIDE DEF S
    <2>3. \A n \in 0 .. Len(c) : n \in S
      BY <1>1, <2>1, <2>2, Onwards
    <2>4. \A n \in i .. Len(c) : n \in 0 .. Len(c) /\ n >= i /\ n <= Len(c)
      BY <1>1
    <2> QED BY <2>3, <2>4 DEF S
  <1>8. \A x : x \in A /\ x # c[i] <=> \E k \in 1 .. Len(c) : i < k /\ x = c[k]
    <2>1. ASSUME NEW x, x \in A, x # c[i] PROVE \E k \in 1 .. Len(c) : i < k /\ x = c[k]
      <3>1. PICK k \in i .. Len(c) : x = c[k]
        BY <1>6, <2>1
      <3>2. k \in 1 .. Len(c) /\ i < k
        BY <1>1, <2>1, <3>1
      <3> QED BY <3>1, <3>2
    <2>2. ASSUME NEW k \in 1 .. Len(c), i < k PROVE c[k] \in A /\ c[k] # c[i]
      <3>1. k \in i .. Len(c)
        BY <1>1, <2>2
      <3> QED BY <1>1, <1>7, <2>2, <3>1
    <2> QED BY <2>1, <2>2
  <1> QED BY <1>5, <1>8

LEMMA PredecessorInChain ==
  ASSUME Typed, NEW s, Straight(s), NEW c, RunsThrough(c, s), NEW k \in 1 .. Len(c), k # 1
  PROVE  k - 1 \in 1 .. Len(c) /\ Predecessor(s, c[k]) = c[k - 1]
  <1>1. /\ Len(c) \in Nat /\ c \in Seq(Blocks(G)) /\ s \in States(G) /\ c[1] = entryBB[s]
        /\ \A m, n \in 1 .. Len(c) : c[m] = c[n] => m = n
    BY DEF RunsThrough, IsChain, Straight
  <1>2. /\ 1 \in 1 .. Len(c) /\ k - 1 \in 1 .. Len(c) /\ k - 1 < Len(c) /\ (k - 1) + 1 = k
    BY <1>1
  <1>3. entryBB[s] # c[k]
    BY <1>1, <1>2
  <1>4. design.inState[s] = InStateTransitions(G, s)
    BY <1>1, DesignFacts DEF Typed, TypeInv
  <1> DEFINE inside == {e[1] : e \in {f \in design.inState[s] :
                                        f[2] = c[k] /\ EdgeTaken(f[1], c[k])}}
  <1>5. c[k - 1] \in inside
    <2>1. <<c[k - 1], c[k]>> \in design.inState[s] /\ EdgeTaken(c[k - 1], c[k])
      <3>1. PICK m \in 1 .. Len(c) : m = k - 1
        BY <1>2
      <3>2. m < Len(c) /\ m + 1 = k
        BY <1>1, <3>1
      <3>3. <<c[m], c[m + 1]>> \in InStateTransitions(G, s) /\ EdgeTaken(c[m], c[m + 1])
        BY <3>2, ChainGoes
      <3> QED BY <1>4, <3>1, <3>2, <3>3
    <2>2. <<c[k - 1], c[k]>>[1] = c[k - 1] /\ <<c[k - 1], c[k]>>[2] = c[k]
      OBVIOUS
    <2> QED BY <2>1, <2>2
  <1>6. ASSUME NEW p \in inside PROVE p = c[k - 1]
    <2>1. PICK e \in design.inState[s] : e[1] = p /\ e[2] = c[k] /\ EdgeTaken(p, c[k])
      BY <1>6
    <2>2. <<p, c[k]>> \in InStateTransitions(G, s) /\ G.br[p] = s
      BY <1>4, <2>1, InsideEdge DEF Typed
    <2>3. BlockActive(s, p)
      BY <2>1, <2>2 DEF EdgeTaken
    <2>4. PICK m \in 1 .. Len(c) : p = c[m]
      BY <2>3 DEF RunsThrough
    <2>5. m < Len(c) /\ c[k] = c[m + 1]
      <3>1. <<c[m], c[k]>> \in InStateTransitions(G, s) /\ EdgeTaken(c[m], c[k])
        BY <2>1, <2>2, <2>4
      <3>2. \A d : <<c[m], d>> \in InStateTransitions(G, s) /\ EdgeTaken(c[m], d)
                     => m < Len(c) /\ d = c[m + 1]
        BY ChainGoes
      <3> QED BY <3>1, <3>2
    <2>6. m + 1 \in 1 .. Len(c)
      BY <1>1, <2>5
    <2>7. k = m + 1
      BY <1>1, <2>5, <2>6
    <2> QED BY <1>1, <2>4, <2>7
  <1>7. Predecessor(s, c[k]) = IF inside = {} THEN NoBlock ELSE CHOOSE p \in inside : TRUE
    BY <1>3 DEF Predecessor
  <1> HIDE DEF inside
  <1> QED BY <1>2, <1>5, <1>6, <1>7
\* Levels rise along it.
LEMMA LevelsInChain ==
  ASSUME Typed, NEW s, Straight(s), NEW c, RunsThrough(c, s), NEW l, LevelsRise(G, s, c[1], l),
         NEW k \in 1 .. Len(c), l[c[k]] # NoLevel, NEW i \in 1 .. Len(c), i < k
  PROVE  l[c[i]] # NoLevel /\ l[c[i]] < l[c[k]]
  <1>1. /\ Len(c) \in Nat /\ c \in Seq(Blocks(G)) /\ s \in States(G)
        /\ \A m, n \in 1 .. Len(c) : c[m] = c[n] => m = n
    BY DEF RunsThrough, IsChain, Straight
  <1>2. \A n \in 1 .. Len(c) : c[n] \in Blocks(G) /\ l[c[n]] \in Int
    BY <1>1 DEF LevelsRise
  <1>3. ASSUME NEW m \in 1 .. Len(c), m < Len(c), l[c[m + 1]] # NoLevel
        PROVE  l[c[m]] # NoLevel /\ l[c[m]] < l[c[m + 1]]
    <2>1. <<c[m], c[m + 1]>> \in InStateTransitions(G, s) /\ EdgeTaken(c[m], c[m + 1])
      BY <1>3, ChainGoes
    <2>2. m + 1 \in 1 .. Len(c) /\ 1 \in 1 .. Len(c) /\ c[m + 1] # c[1]
      BY <1>1, <1>3
    <2>3. G.br[c[m]] = s
      <3>1. c[m] \in BlocksIn(G, s)
        BY ChainGoes, ActiveBlock DEF Typed
      <3>2. G.last[c[m]] = s
        BY <2>1 DEF InStateTransitions
      <3> QED BY <3>1, <3>2 DEF Straight
    <2>4. c[m] \in SameStatePredecessors(G, s, c[m + 1])
      <3>1. <<c[m], c[m + 1]>> \in G.preds
        BY <2>1 DEF InStateTransitions
      <3>2. <<c[m], c[m + 1]>>[1] = c[m] /\ <<c[m], c[m + 1]>>[2] = c[m + 1]
        OBVIOUS
      <3> QED BY <2>3, <3>1, <3>2 DEF SameStatePredecessors, ControlPreds
    <2> QED BY <1>2, <1>3, <2>2, <2>4 DEF LevelsRise
  <1> DEFINE S == {n \in Nat : n < k => /\ l[c[k - n]] # NoLevel
                                        /\ n > 0 => l[c[k - n]] < l[c[k]]}
  <1>4. 0 \in S
    BY <1>1
  <1>5. ASSUME NEW n \in 1 .. k, n - 1 \in S PROVE n \in S
    <2> SUFFICES ASSUME n < k
                 PROVE  l[c[k - n]] # NoLevel /\ l[c[k - n]] < l[c[k]]
      BY <1>1
    <2>1. PICK m \in 1 .. Len(c) : m = k - n
      BY <1>1
    <2>2. m < Len(c) /\ m + 1 = k - (n - 1) /\ n - 1 \in Nat /\ n - 1 < k /\ m + 1 \in 1 .. Len(c)
      BY <1>1, <2>1
    <2>3. l[c[m + 1]] # NoLevel /\ (n - 1 > 0 => l[c[m + 1]] < l[c[k]])
      BY <1>5, <2>2
    <2>4. l[c[m]] # NoLevel /\ l[c[m]] < l[c[m + 1]]
      BY <1>3, <2>2, <2>3
    <2>5. n - 1 = 0 => m + 1 = k
      BY <1>1, <2>2
    <2>6. l[c[m]] \in Int /\ l[c[m + 1]] \in Int /\ l[c[k]] \in Int
      BY <1>1, <1>2, <2>2
    <2>7. CASE n - 1 = 0
      BY <2>1, <2>4, <2>5, <2>7
    <2>8. CASE n - 1 > 0
      BY <2>1, <2>3, <2>4, <2>6, <2>8
    <2> QED BY <1>5, <2>2, <2>7, <2>8
  <1> HIDE DEF S
  <1>6. \A n \in 0 .. k : n \in S
    <2>1. k \in Nat
      BY <1>1
    <2> QED BY <1>4, <1>5, <2>1, Onwards
  <1>7. k - i \in S /\ k - i \in Nat /\ k - i > 0 /\ k - i < k /\ k - (k - i) = i
    BY <1>1, <1>6
  <1> QED BY <1>7 DEF S

-----------------------------------------------------------------------------
(* Blocks that cannot be reached around d come after it.                   *)

LEMMA PastRank ==
  ASSUME Typed, AllReached(G), NEW rank \in [Blocks(G) -> Nat], Forward(G, rank),
         NEW d \in Blocks(G), NEW e \in Blocks(G), e \notin ReachedAround(G, d), e # d
  PROVE  rank[d] < rank[e]
  <1> DEFINE Past(b) == b \in Blocks(G) /\ b \notin ReachedAround(G, d) /\ b # d
                        /\ ~(rank[d] < rank[b])
             S == {n \in Nat : \E b : Past(b) /\ rank[b] = n}
  <1>1. S = {}
    <2> SUFFICES ASSUME S # {} PROVE FALSE
      OBVIOUS
    <2>1. PICK m \in S : \A n \in S : m <= n
      BY LeastOf
    <2>2. PICK b : Past(b) /\ rank[b] = m
      BY <2>1
    <2>3. b # Entry
      BY <2>2, Scheduled, ReachedAroundIs
    <2>4. PICK a \in Blocks(G) : <<a, b>> \in G.preds
      BY <2>2, <2>3 DEF AllReached
    <2>5. Edge(G, a, b) /\ rank[a] < rank[b]
      <3>1. Edge(G, <<a, b>>[1], <<a, b>>[2]) /\ rank[<<a, b>>[1]] < rank[<<a, b>>[2]]
        BY <2>4 DEF Forward
      <3> QED BY <3>1
    <2>6. a \notin ReachedAround(G, d)
      BY <2>2, <2>5, Scheduled, ReachedAroundIs
    <2>7. a # d
      BY <2>2, <2>5
    <2>8. ~(rank[d] < rank[a])
      BY <2>2, <2>5
    <2>9. rank[a] \in S
      BY <2>6, <2>7, <2>8
    <2> HIDE DEF S
    <2> QED BY <2>1, <2>2, <2>5, <2>9
  <1> QED BY <1>1

\* Blocks with a level come after the entry block of the state.
LEMMA LevelRank ==
  ASSUME Typed, NEW s, NEW e \in Blocks(G), NEW l, LevelsRise(G, s, e, l),
         NEW rank \in [Blocks(G) -> Nat], Forward(G, rank),
         NEW d \in Blocks(G), l[d] # NoLevel, d # e
  PROVE  rank[e] < rank[d]
  <1> DEFINE Early(b) == b \in Blocks(G) /\ l[b] # NoLevel /\ b # e /\ ~(rank[e] < rank[b])
             S == {n \in Nat : \E b : Early(b) /\ rank[b] = n}
  <1>1. S = {}
    <2> SUFFICES ASSUME S # {} PROVE FALSE
      OBVIOUS
    <2>1. PICK m \in S : \A n \in S : m <= n
      BY LeastOf
    <2>2. PICK b : Early(b) /\ rank[b] = m
      BY <2>1
    <2>3. PICK a \in SameStatePredecessors(G, s, b) : l[a] # NoLevel
      BY <2>2 DEF LevelsRise
    <2>4. PICK x \in G.preds : x[1] = a /\ x[2] = b
      BY <2>3 DEF SameStatePredecessors, ControlPreds
    <2>5. a \in Blocks(G) /\ rank[a] < rank[b]
      BY <2>4, Scheduled DEF IsScheduled, Forward
    <2>6. a # e
      BY <2>2, <2>5
    <2>7. rank[a] \in S
      BY <2>2, <2>3, <2>5, <2>6
    <2> HIDE DEF S
    <2> QED BY <2>1, <2>2, <2>5, <2>7
  <1> QED BY <1>1
-----------------------------------------------------------------------------
(* What the user reads.                                                    *)

LEMMA UseDominated ==
  ASSUME Typed, Typing
  PROVE  /\ ~V.phi => Dominates(G, V.blk, V.user) /\ V.at <= V.uat
         /\ V.phi => Dominates(G, V.blk, V.pred)
         /\ Levelled(G, V) /\ PhiFirst(V) /\ PhisApart(V) /\ BranchLast(G, V)
  <1>1. V \in PassingUses(G)
    BY DEF Typing
  <1>2. /\ V \in AllUses(G) /\ Levelled(G, V) /\ PhiFirst(V) /\ PhisApart(V)
        /\ BranchLast(G, V)
    BY <1>1 DEF PassingUses
  <1> QED BY <1>2 DEF AllUses, PlainUses, PhiUses

\* Where outputWire takes the wire of the maker, it has run before.
LEMMA MadeFirst ==
  ASSUME Typed, Typing, V.at = V.uat, V.blk # V.user, Straight(V.uat), Using,
         NEW c, RunsThrough(c, V.uat), NEW l, LevelsRise(G, V.uat, c[1], l),
         l[V.user] # NoLevel, l[V.blk] # NoLevel, l[V.blk] < l[V.user]
  PROVE  \E i, k \in 1 .. Len(c) : i < k /\ V.blk = c[i] /\ V.user = c[k]
  <1>1. /\ IsChain(c, V.uat) /\ Len(c) \in Nat /\ c \in Seq(Blocks(G)) /\ Len(c) >= 1
        /\ \A i \in 1 .. Len(c) : c[i] \in Blocks(G)
        /\ V.blk \in Blocks(G) /\ V.user \in Blocks(G) /\ V.phi \in BOOLEAN /\ AllReached(G)
        /\ c[1] \in Blocks(G)
    BY ValueIs DEF RunsThrough, IsChain, Typing
  <1>2. PICK k \in 1 .. Len(c) : V.user = c[k]
    BY DEF RunsThrough, Using
  <1>3. k # 1
    BY <1>1, <1>2 DEF LevelsRise, NoLevel
  <1>4. PICK rank \in [Blocks(G) -> Nat] : Forward(G, rank)
    <2>1. PICK rank \in [Blocks(G) -> 0 .. Cardinality(Blocks(G)) - 1] : Forward(G, rank)
      BY Scheduled DEF Constrained
    <2>2. rank \in [Blocks(G) -> Nat]
      BY <2>1
    <2> QED BY <2>1, <2>2
  <1> SUFFICES ASSUME \A i \in 1 .. Len(c) : i < k => V.blk # c[i] PROVE FALSE
    BY <1>2
  <1>5. c[1] # V.blk /\ \A i \in 1 .. k : c[i] # V.blk
    <2>1. k \in Nat /\ 1 < k /\ 1 \in 1 .. Len(c) /\ c[k] # V.blk
      BY <1>1, <1>2, <1>3
    <2>2. ASSUME NEW i \in 1 .. k PROVE c[i] # V.blk
      <3>1. i = k \/ (i \in 1 .. Len(c) /\ i < k)
        BY <1>1, <1>2, <2>1
      <3> QED BY <2>1, <3>1
    <2> QED BY <2>1, <2>2
  <1>6. c[1] \in ReachedAround(G, V.blk)
    <2> SUFFICES ASSUME c[1] \notin ReachedAround(G, V.blk) PROVE FALSE
      OBVIOUS
    <2>1. rank[V.blk] < rank[c[1]]
      BY <1>1, <1>4, <1>5, PastRank
    <2>2. rank[c[1]] < rank[V.blk]
      BY <1>1, <1>4, <1>5, LevelRank
    <2> QED BY <1>1, <1>4, <2>1, <2>2
  <1>7. \A n \in 1 .. k : c[n] \in ReachedAround(G, V.blk)
    <2> SUFFICES ASSUME NEW n \in 1 .. k PROVE c[n] \in ReachedAround(G, V.blk)
      OBVIOUS
    <2>1. n \in 1 .. Len(c) /\ \A i \in 1 .. n : c[i] # V.blk
      BY <1>1, <1>5
    <2> QED BY <1>1, <1>6, <2>1, ChainAvoids
  <1>8. CASE ~V.phi
    <2>1. V.user \in ReachedAround(G, V.blk)
      BY <1>1, <1>2, <1>7
    <2> QED BY <1>8, <2>1, UseDominated DEF Dominates
  <1>9. CASE V.phi
    <2>1. V.pred = c[k - 1] /\ k - 1 \in 1 .. Len(c)
      BY <1>2, <1>3, <1>9, PredecessorInChain DEF Using
    <2>2. k - 1 \in 1 .. k
      BY <1>1, <2>1
    <2> QED BY <1>7, <1>9, <2>1, <2>2, UseDominated DEF Dominates
  <1> QED BY <1>1, <1>8, <1>9

LEMMA WireIs ==
  ASSUME DataInv, ~returned, Using
  PROVE  /\ entryBB[V.uat] \in EntryBlocks(G, V.uat) /\ entryBB[V.uat] \in Blocks(G)
         /\ V.uat \in active /\ V.uat \in States(G)
         /\ Wire = Route(G, V)[entryBB[V.uat]]
         /\ Wire = "stored" => V.uat \in plan.inputs /\ Read = InputOf(V.uat)
         /\ Wire = "stored" /\ Carried /\ ~Behind(V.uat) => Read = made
  <1>1. Typed /\ Typing /\ Held /\ IsScheduled(G) /\ V \in AllUses(G)
    BY Scheduled DEF DataInv, PlaceInv, Typing, PassingUses
  <1>2. V.uat \in active /\ V.uat \in States(G)
    BY <1>1, ValueIs DEF Using, BlockActive
  <1>3. entryBB[V.uat] \in EntryBlocks(G, V.uat)
    BY <1>1, <1>2 DEF Held, Entries
  <1>4. plan.route = Route(G, V) /\ DOMAIN plan.route = EntryBlocks(G, V.uat)
    BY <1>1, PlanIs DEF Route
  <1>5. Wire = Route(G, V)[entryBB[V.uat]]
    BY <1>3, <1>4 DEF Wire
  <1>6. ASSUME Wire = "stored" PROVE V.uat \in plan.inputs /\ Read = InputOf(V.uat)
    <2>1. MayNeedStorage(V) /\ V.uat \in LiveIn(G, V)
      BY <1>1, <1>3, <1>5, <1>6, StoredIsLive
    <2> QED BY <1>1, <1>6, <2>1, PlanIs DEF Read
  <1>7. Wire = "stored" /\ Carried /\ ~Behind(V.uat) => Read = made
    BY <1>1, <1>2, <1>6 DEF Held, Along, HeldAt
  <1> QED BY <1>2, <1>3, <1>5, <1>6, <1>7, EntriesInState

LEMMA ReadsInPipe ==
  ASSUME DataInv, ~returned, Using, InMakersPipe(V.uat)
  PROVE  Read \in Meant
  <1> DEFINE p == MakersPipe
  <1>1. /\ Typed /\ Typing /\ Placed /\ Held /\ MadeInPipe /\ p \in Pipelines
        /\ V.at \in Stages(p) /\ V.uat \in Stages(p) /\ V.blk = LoopOf(p) /\ V.user = V.blk
        /\ V.at \in Nat /\ V.uat \in Nat /\ V.phi \in BOOLEAN
        /\ V.uat \in active /\ V.uat \in States(G)
    <2>1. Typed /\ Typing /\ Placed /\ Held /\ MadeInPipe
      BY DEF DataInv, PlaceInv, InMakersPipe
    <2>2. /\ p \in Pipelines /\ V.at \in Stages(p) /\ V.blk = LoopOf(p)
          /\ V.at \in Nat /\ V.uat \in Nat /\ V.phi \in BOOLEAN
          /\ V.user \in BlocksIn(G, V.uat)
      BY <2>1, MakerIs, ValueIs
    <2>3. V.uat \in active /\ V.uat \in States(G)
      BY WireIs
    <2>4. V.uat \in Stages(p)
      BY <2>1, <2>3, InMakersPipeIs
    <2>5. V.user = LoopOf(p)
      BY <2>1, <2>2, <2>4, StageFacts
    <2> QED BY <2>1, <2>2, <2>3, <2>4, <2>5
  <1>2. PhiFirst(V) /\ PhisApart(V) /\ BranchLast(G, V)
        /\ (V.phi => Dominates(G, V.blk, V.pred)) /\ (~V.phi => V.at <= V.uat)
    BY <1>1, UseDominated
  <1>3. V.at # V.uat \/ V.phi => Wire = "stored"
    BY <1>1, <1>2, WireIs DEF Route, PhisApart
  <1>4. CASE V.phi
    <2>1. V.uat <= V.at /\ Carried
      BY <1>1, <1>2, <1>4 DEF PhiFirst, BranchLast, Carried, MadeInPipe, MakersPipe
    <2>2. ~Behind(V.uat)
      BY <1>1, <2>1 DEF Behind
    <2>3. Read = made
      BY <1>3, <1>4, <2>1, <2>2, WireIs
    <2>4. V.uat \in Front(p) /\ p \in Pipelines \cap {MakersPipe}
      <3>1. V.at <= Branch(p)
        BY <1>1, <2>1, MakersFront
      <3> QED BY <1>1, <2>1, <3>1, LoopFacts DEF Front, Stages
    <2>5. iteration[V.uat] = Following(made)
      BY <1>1, <2>1, <2>4 DEF Held, Numbered
    <2>6. made # None
      <3> SUFFICES ASSUME made = None PROVE FALSE
        OBVIOUS
      <3>1. lastBB[V.uat] \in Away
        BY <1>1, <2>1 DEF Held, Unmade
      <3>2. entryBB[V.uat] = V.user
        BY <1>1, StageRuns DEF Using
      <3>3. V.pred = lastBB[V.uat]
        BY <1>4, <3>2 DEF Using, Predecessor
      <3> QED BY <1>2, <1>4, <3>1, <3>3 DEF Dominates, Away
    <2>7. made \in 1 .. Instances
      BY <1>1, <2>6, InstancesAssumption DEF Typing, None
    <2> QED BY <1>4, <2>3, <2>5, <2>7 DEF Meant, InMakersPipe
  <1>5. CASE ~V.phi /\ V.at # V.uat
    <2>1. Behind(V.uat)
      BY <1>1, <1>2, <1>5 DEF Behind
    <2>2. Read = InputOf(V.uat) /\ V.uat \in plan.inputs
      BY <1>3, <1>5, WireIs
    <2>3. Read = iteration[V.uat]
      BY <1>1, <2>1, <2>2 DEF Held, Ahead
    <2> QED BY <1>5, <2>3 DEF Meant, InMakersPipe
  <1>6. CASE ~V.phi /\ V.at = V.uat
    <2>1. Wire = "live"
      BY <1>1, <1>6, WireIs DEF Route
    <2>2. Making
      BY <1>1, <1>6 DEF Using, Making
    <2>3. Read = iteration[V.uat]
      BY <1>1, <1>6, <2>1, <2>2 DEF Read, Instance
    <2> QED BY <1>6, <2>3 DEF Meant, InMakersPipe
  <1> QED BY <1>4, <1>5, <1>6

LEMMA ReadsElsewhere ==
  ASSUME DataInv, ~returned, Using, ~InMakersPipe(V.uat)
  PROVE  Read \in Meant
  <1>1. /\ Typed /\ Typing /\ Held /\ IsScheduled(G)
        /\ V.blk \in Blocks(G) /\ V.user \in Blocks(G) /\ V.phi \in BOOLEAN
        /\ V.at \in States(G) /\ V.uat \in States(G) /\ V.uat \in Nat /\ V.at \in Nat
        /\ V.blk \in BlocksIn(G, V.at) /\ V.user \in BlocksIn(G, V.uat)
    BY Scheduled, ValueIs DEF DataInv, PlaceInv
  <1>2. ~Behind(V.uat)
    BY DEF Behind
  \* A user outside of the maker's pipeline is not in the maker's block.
  <1>3. ASSUME MadeInPipe PROVE V.user # V.blk /\ V.at # V.uat
    <2>1. /\ MakersPipe \in Pipelines /\ V.at \in Stages(MakersPipe)
          /\ V.blk = LoopOf(MakersPipe) /\ V.uat \notin Stages(MakersPipe)
      BY <1>1, <1>3, MakerIs, InMakersPipeIs
    <2>2. V.user = V.blk => V.uat \in Stages(MakersPipe)
      BY <1>1, <2>1, LoopFacts DEF BlocksIn, Stages, Begin, End
    <2> QED BY <2>1, <2>2
  <1>4. Carried
    <2>1. BranchLast(G, V)
      BY <1>1, UseDominated
    <2> QED BY <1>3, <2>1 DEF BranchLast, Carried, MadeInPipe, MakersPipe
  <1>5. Wire = "stored" => Read = made
    BY <1>2, <1>4, WireIs
  <1>6. CASE V.at # V.uat
    <2>1. Wire = "stored"
      BY <1>6, WireIs DEF Route
    <2> QED BY <1>5, <1>6, <2>1 DEF Meant
  <1>7. CASE V.at = V.uat /\ V.blk = V.user /\ V.phi
    <2>1. Wire = "stored"
      BY <1>1, <1>7, WireIs, UseDominated DEF Route, PhisApart
    <2>2. ~RunsBefore(V.blk, V.user)
      BY <1>7 DEF RunsBefore
    <2> QED BY <1>5, <1>7, <2>1, <2>2 DEF Meant
  <1>8. CASE V.at = V.uat /\ V.blk = V.user /\ ~V.phi
    <2>1. Wire = "live"
      BY <1>8, WireIs DEF Route
    <2>2. Making
      BY <1>8 DEF Using, Making
    <2>3. Read = Instance
      BY <2>1, <2>2 DEF Read
    <2> QED BY <1>3, <1>8, <2>2, <2>3 DEF Meant
  <1>9. CASE V.at = V.uat /\ V.blk # V.user
    <2>1. G.pipe[V.uat] = NoPipeline /\ ~MadeInPipe
      BY <1>3, <1>9 DEF MadeInPipe, MakersPipe
    <2>2. Straight(V.uat) /\ BlockActive(V.uat, V.user) /\ V.uat \in active
      BY <1>1, <2>1, StateIs, WireIs DEF Using
    <2>3. entryBB[V.uat] \in BlocksIn(G, V.uat)
      BY <1>1, <2>2, NothingRuns DEF Typed
    <2>4. PICK c : RunsThrough(c, V.uat)
      BY <1>1, <2>2, <2>3, Scheduled, ChainInState DEF Typed, RunsThrough
    <2>5. /\ c[1] = entryBB[V.uat] /\ Len(c) \in Nat
          /\ \A i, k \in 1 .. Len(c) : c[i] = c[k] => i = k
      BY <2>4 DEF RunsThrough, IsChain
    <2> DEFINE e == entryBB[V.uat]
               l == TopologicalLevels(G, V.uat, e)
    <2>6. e \in Blocks(G) /\ e \in EntryBlocks(G, V.uat) /\ LevelsRise(G, V.uat, e, l)
      BY <1>1, WireIs, LevelsAre
    <2>7. l[V.user] # NoLevel
      BY <1>1, <1>9, <2>6, UseDominated DEF Levelled
    <2>8. l[V.user] \in Int /\ l[V.blk] \in Int
      BY <1>1, <2>6 DEF LevelsRise
    <2>9. Wire = IF l[V.blk] = NoLevel THEN "stored"
                 ELSE IF l[V.user] > l[V.blk] THEN "live" ELSE "stored"
      BY <1>9, <2>6, <2>7, WireIs DEF Route
    <2> HIDE DEF l, e
    <2>10. CASE l[V.blk] # NoLevel /\ l[V.user] > l[V.blk]
      <3>1. LevelsRise(G, V.uat, c[1], l)
        BY <2>5, <2>6 DEF e
      <3>2. PICK i, k \in 1 .. Len(c) : i < k /\ V.blk = c[i] /\ V.user = c[k]
        BY <1>1, <1>9, <2>2, <2>4, <2>7, <2>8, <2>10, <3>1, MadeFirst
      <3>3. Making
        BY <1>9, <2>4, <3>2 DEF RunsThrough, Making
      <3>4. RunsBefore(V.blk, V.user)
        <4>1. RunsBefore(c[i], V.user)
          BY <1>1, <2>2, <2>4, <3>2, RunsBeforeInChain
        <4> QED BY <3>2, <4>1
      <3>5. Read = Instance
        BY <2>9, <2>10, <3>3 DEF Read
      <3> QED BY <1>9, <2>1, <3>3, <3>4, <3>5 DEF Meant
    <2>11. CASE ~(l[V.blk] # NoLevel /\ l[V.user] > l[V.blk])
      <3>1. Wire = "stored"
        BY <2>9, <2>11
      <3>2. ~(Making /\ RunsBefore(V.blk, V.user))
        <4> SUFFICES ASSUME Making, RunsBefore(V.blk, V.user) PROVE FALSE
          OBVIOUS
        <4>1. PICK i \in 1 .. Len(c) : V.blk = c[i]
          BY <1>9, <2>4 DEF RunsThrough, Making
        <4>2. PICK k \in 1 .. Len(c) : i < k /\ V.user = c[k]
          <5>1. RunsBefore(c[i], V.user)
            BY <4>1
          <5>2. \A d : RunsBefore(c[i], d) <=> \E k \in 1 .. Len(c) : i < k /\ d = c[k]
            BY <1>1, <2>2, <2>4, <4>1, RunsBeforeInChain
          <5>3. \E k \in 1 .. Len(c) : i < k /\ V.user = c[k]
            BY <5>1, <5>2
          <5> QED BY <5>3
        <4>3. LevelsRise(G, V.uat, c[1], l) /\ l[c[k]] # NoLevel
          BY <2>5, <2>6, <2>7, <4>2 DEF e
        <4>4. l[c[i]] # NoLevel /\ l[c[i]] < l[c[k]]
          BY <1>1, <2>2, <2>4, <4>2, <4>3, LevelsInChain
        <4> QED BY <2>8, <2>11, <4>1, <4>2, <4>4
      <3> QED BY <1>5, <1>9, <3>1, <3>2 DEF Meant
    <2> QED BY <2>10, <2>11
  <1> QED BY <1>1, <1>6, <1>7, <1>8, <1>9
-----------------------------------------------------------------------------
(* The theorem.                                                            *)

(* An instruction reads the instance of its operand that the program means *)
(* there, by the wire outputWire chose and from the registers              *)
(* findLiveValues planned: whichever blocks a state runs through and       *)
(* however many iterations are in flight, it is neither overwritten by a   *)
(* younger one nor left behind on some way through the states.             *)
THEOREM ReadsAreRight ==
  ASSUME \A g \in Functions : PipelinedLoops(g) /\ AllReached(g),
         \A g \in Functions : Values(g) \subseteq PassingUses(g)
  PROVE  DataSpec => []ReadsWhatIsMeant
  <1>1. DataInit => DataInv
    BY DataFirst
  <1>2. DataInv /\ [DataCycle]_dataVars => DataInv'
    BY DataStep, DataStutter
  <1>3. DataInv => ReadsWhatIsMeant
    BY ReadsInPipe, ReadsElsewhere DEF ReadsWhatIsMeant
  <1> QED BY <1>1, <1>2, <1>3, PTL DEF DataSpec
=============================================================================
