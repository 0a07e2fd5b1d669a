---------------------------- MODULE ControlProof ----------------------------
(***************************************************************************)
(* Facts about the control path that hold for every set of scheduled       *)
(* functions: types, jumps, wires, and what runs in a state outside of the *)
(* pipelines.                                                              *)
(***************************************************************************)
EXTENDS Control, BlockSchedule, FiniteSetTheorems, WellFoundedInduction, TLAPS

-----------------------------------------------------------------------------
(* Numbers.                                                                *)

LEMMA LeastOf ==
  ASSUME NEW S \in SUBSET Nat, S # {}
  PROVE  \E m \in S : \A n \in S : m <= n
  <1> DEFINE R == OpToRel(<, Nat)
  <1>1. ASSUME NEW x \in Nat, NEW y \in Nat, y < x PROVE <<y, x>> \in R
    BY <1>1 DEF OpToRel
  <1>2. IsWellFoundedOn(R, Nat)
    BY NatLessThanWellFounded
  <1> HIDE DEF R
  <1>3. PICK m \in S : \A n \in S : <<n, m>> \notin R
    BY <1>2, WFMin
  <1>4. ASSUME NEW n \in S PROVE m <= n
    <2>1. m \in Nat /\ n \in Nat
      OBVIOUS
    <2>2. ~(n < m)
      BY <1>1, <1>3, <2>1
    <2> QED BY <2>1, <2>2
  <1> QED BY <1>4

-----------------------------------------------------------------------------
(* The jumps of a design.                                                  *)

LEMMA JumpFields ==
  ASSUME NEW g, NEW kind, NEW at, NEW src, NEW dest, NEW target,
         NEW j, j = Jump(g, kind, at, src, dest, target)
  PROVE  /\ j.kind = kind /\ j.at = at /\ j.src = src /\ j.dest = dest /\ j.target = target
         /\ j.outOfTask = (g.task[src] # g.task[dest])
         /\ g.pipe[at] = NoPipeline => ~j.leaves /\ j.delay = 0
         /\ j.leaves = (g.pipe[at] # NoPipeline /\ g.pipe[target] = NoPipeline)
         /\ target \in j.sets
         /\ \A s \in j.sets : s # target =>
              g.pipe[target] # NoPipeline /\ s = EntryState(g, g.pipe[target])
         /\ j.delay # 0 => /\ g.pipe[at] # NoPipeline /\ g.pipe[target] = g.pipe[at]
                           /\ kind # "stay" /\ j.delay = Hazard(g, at) /\ Hazard(g, at) > 0
  BY DEF Jump

LEMMA JumpForms ==
  ASSUME NEW g, NEW j
  PROVE  j \in Jumps(g) <=>
           \E s \in States(g) :
             \/ \E e \in OutOfStateTransitions(g, s) :
                  j = Jump(g, "branch", s, e[1], e[2], g.first[e[2]])
             \/ \E b \in Returning(g, s) :
                  j = Jump(g, "return", s, b, b, IF g.retState = NoState THEN s ELSE g.retState)
             \/ \E b \in InProgress(g, s) : j = Jump(g, "stay", s, b, b, s + 1)
  BY DEF Jumps
\* The three kinds of jump.
LEMMA JumpShape ==
  ASSUME NEW g, NEW j \in Jumps(g)
  PROVE  /\ j.at \in States(g)
         /\ j = Jump(g, j.kind, j.at, j.src, j.dest, j.target)
         /\ \/ /\ j.kind = "branch" /\ <<j.src, j.dest>> \in OutOfStateTransitions(g, j.at)
               /\ j.target = g.first[j.dest]
            \/ /\ j.kind = "return" /\ j.dest = j.src /\ j.src \in Returning(g, j.at)
               /\ j.target = IF g.retState = NoState THEN j.at ELSE g.retState
            \/ /\ j.kind = "stay" /\ j.dest = j.src /\ j.src \in InProgress(g, j.at)
               /\ j.target = j.at + 1
  <1>1. PICK s \in States(g) :
          \/ \E e \in OutOfStateTransitions(g, s) :
               j = Jump(g, "branch", s, e[1], e[2], g.first[e[2]])
          \/ \E b \in Returning(g, s) :
               j = Jump(g, "return", s, b, b, IF g.retState = NoState THEN s ELSE g.retState)
          \/ \E b \in InProgress(g, s) : j = Jump(g, "stay", s, b, b, s + 1)
    BY JumpForms
  <1>2. ASSUME NEW e \in OutOfStateTransitions(g, s),
               j = Jump(g, "branch", s, e[1], e[2], g.first[e[2]])
        PROVE  <<e[1], e[2]>> = e
    BY DEF OutOfStateTransitions, AllTransitions
  <1> QED BY <1>1, <1>2, JumpFields

LEMMA EntryStateIs ==
  ASSUME NEW g, IsScheduled(g), NEW s \in States(g)
  PROVE  /\ EntryState(g, g.pipe[s]) \in PipelineStates(g, g.pipe[s])
         /\ EntryState(g, g.pipe[s]) \in States(g)
  <1>1. PipelineStates(g, g.pipe[s]) \in SUBSET Nat /\ PipelineStates(g, g.pipe[s]) # {}
    BY DEF PipelineStates, IsScheduled, States
  <1> QED BY <1>1, LeastOf DEF EntryState, PipelineStates

LEMMA JumpTypes ==
  ASSUME NEW g, IsScheduled(g), NEW j \in Jumps(g)
  PROVE  /\ j.at \in States(g) /\ j.target \in States(g)
         /\ j.src \in Blocks(g) /\ j.dest \in Blocks(g)
         /\ j.sets \subseteq States(g)
         /\ j.kind \in {"branch", "return", "stay"}
  <1>1. j.src \in Blocks(g) /\ j.dest \in Blocks(g) /\ j.at \in States(g)
    BY JumpShape DEF OutOfStateTransitions, AllTransitions, Returning, InProgress, BlocksIn
  <1>2. j.target \in States(g)
    <2>1. CASE j.kind = "branch"
      <3>1. j.target = g.first[j.dest]
        BY <2>1, JumpShape
      <3> QED BY <1>1, <3>1 DEF IsScheduled
    <2>2. CASE j.kind = "return"
      BY <1>1, <2>2, JumpShape DEF IsScheduled
    <2>3. CASE j.kind = "stay"
      <3>1. j.src \in InProgress(g, j.at) /\ j.target = j.at + 1
        BY <2>3, JumpShape
      <3>2. g.first[j.src] \in Nat /\ g.last[j.src] \in Nat /\ j.at \in Nat
        BY <1>1 DEF IsScheduled
      <3>3. j.at + 1 \in g.first[j.src] .. g.last[j.src]
        BY <3>1, <3>2 DEF InProgress, BlocksIn
      <3> QED BY <1>1, <3>1, <3>3 DEF IsScheduled
    <2> QED BY <2>1, <2>2, <2>3, JumpShape
  <1>3. j.sets \subseteq States(g)
    <2>1. \A s \in j.sets : s # j.target => s = EntryState(g, g.pipe[j.target])
      <3>1. j = Jump(g, j.kind, j.at, j.src, j.dest, j.target)
        BY JumpShape
      <3> QED BY <3>1, JumpFields
    <2> QED BY <1>2, <2>1, EntryStateIs
  <1> QED BY <1>1, <1>2, <1>3, JumpShape

-----------------------------------------------------------------------------
(* The wires of a cycle.                                                   *)

Depth == Cardinality(Blocks(G))

\* The recursive function exists: the least bound without one has one.
LEMMA SettledExists ==
  ASSUME NEW N \in Nat
  PROVE  \E f : f = [n \in 0 .. N |-> IF n = 0 THEN Entered ELSE Spread(f[n - 1])]
  <1> DEFINE Upto(f, m) == f = [n \in 0 .. m |-> IF n = 0 THEN Entered ELSE Spread(f[n - 1])]
             Missing == {m \in Nat : ~ \E f : Upto(f, m)}
  <1> SUFFICES ASSUME Missing # {} PROVE FALSE
    OBVIOUS
  <1>1. PICK m \in Missing : \A n \in Missing : m <= n
    BY LeastOf
  <1>2. CASE m = 0
    <2> DEFINE f == [n \in 0 .. 0 |-> Entered]
    <2>1. Upto(f, 0)
      OBVIOUS
    <2> QED BY <1>1, <1>2, <2>1
  <1>3. CASE m # 0
    <2>1. m \in Nat /\ m - 1 \in Nat /\ m - 1 \notin Missing
      <3> HIDE DEF Missing
      <3>1. m \in Nat
        BY DEF Missing
      <3> QED BY <1>1, <1>3, <3>1
    <2>2. PICK f : Upto(f, m - 1)
      BY <2>1
    <2> DEFINE h == [n \in 0 .. m |-> IF n = m THEN Spread(f[m - 1]) ELSE f[n]]
    <2> HIDE DEF Missing
    <2>3. \A n \in 0 .. m - 1 : f[n] = IF n = 0 THEN Entered ELSE Spread(f[n - 1])
      BY <2>2
    <2>4. \A n \in 0 .. m : h[n] = IF n = 0 THEN Entered ELSE Spread(h[n - 1])
      BY <1>3, <2>1, <2>3
    <2>5. Upto(h, m)
      BY <2>4
    <2> QED BY <1>1, <2>5 DEF Missing
  <1> QED BY <1>2, <1>3

LEMMA SettledSteps ==
  ASSUME IsFiniteSet(Blocks(G))
  PROVE  /\ Depth \in Nat
         /\ Settled[0] = Entered
         /\ \A n \in 1 .. Depth : Settled[n] = Spread(Settled[n - 1])
  <1>1. Depth \in Nat
    BY FS_CardinalityType DEF Depth
  <1>2. Settled = [n \in 0 .. Depth |-> IF n = 0 THEN Entered ELSE Spread(Settled[n - 1])]
    BY <1>1, SettledExists, Zenon DEF Settled, Depth
  <1> QED BY <1>1, <1>2

LEMMA SettledGrows ==
  ASSUME IsFiniteSet(Blocks(G)), NEW n \in 0 .. Depth
  PROVE  Settled[n] \subseteq Settled[Depth]
  <1>1. Depth \in Nat /\ n \in Nat
    BY SettledSteps
  <1> DEFINE Without == {m \in Nat : m >= n /\ m <= Depth /\ ~ (Settled[n] \subseteq Settled[m])}
  <1> SUFFICES ASSUME Without # {} PROVE FALSE
    BY <1>1
  <1>2. PICK m \in Without : \A k \in Without : m <= k
    BY LeastOf
  <1>3. m \in Nat /\ m # n /\ m - 1 \in Nat /\ m - 1 >= n /\ m \in 1 .. Depth
    BY <1>1
  <1>4. m - 1 \notin Without
    BY <1>2, <1>3
  <1>5. Settled[n] \subseteq Settled[m - 1]
    BY <1>1, <1>3, <1>4
  <1>6. Settled[m - 1] \subseteq Settled[m]
    BY <1>3, SettledSteps DEF Spread
  <1> QED BY <1>5, <1>6

\* An active block is its state's entry block, or an edge into it is taken.
LEMMA WiresSupported ==
  ASSUME IsFiniteSet(Blocks(G)), bbActive = ActiveWires, NEW s, NEW b, <<s, b>> \in bbActive
  PROVE  /\ s \in active
         /\ \/ b \in BlocksIn(G, s) /\ entryBB[s] = b
            \/ \E e \in design.inState[s] : e[2] = b /\ Onward(e, bbActive)
  <1>1. Depth \in Nat /\ bbActive = Settled[Depth]
    BY SettledSteps DEF ActiveWires, Depth
  <1> DEFINE Times == {n \in Nat : n <= Depth /\ <<s, b>> \in Settled[n]}
  <1>2. PICK n \in Times : \A k \in Times : n <= k
    <2>1. Depth \in Times
      BY <1>1
    <2> HIDE DEF Times
    <2> QED BY <2>1, LeastOf DEF Times
  <1>3. CASE n = 0
    <2>1. <<s, b>> \in Entered
      BY <1>3, SettledSteps
    <2> QED BY <2>1 DEF Entered
  <1>4. CASE n # 0
    <2>1. n \in Nat /\ n - 1 \in 0 .. Depth /\ n \in 1 .. Depth
      BY <1>1, <1>4
    <2>2. n - 1 \notin Times
      BY <1>2, <2>1
    <2>3. <<s, b>> \in Spread(Settled[n - 1]) /\ <<s, b>> \notin Settled[n - 1]
      BY <2>1, <2>2, SettledSteps
    <2>4. PICK r \in active : \E e \in design.inState[r] :
            Onward(e, Settled[n - 1]) /\ <<s, b>> = <<r, e[2]>>
      BY <2>3 DEF Spread
    <2>5. \A e \in design.inState[s] : Onward(e, Settled[n - 1]) => Onward(e, bbActive)
      BY <1>1, <2>1, <2>4, SettledGrows DEF Onward
    <2> QED BY <2>4, <2>5
  <1> QED BY <1>3, <1>4
-----------------------------------------------------------------------------
(* Types.                                                                  *)

(* The inductive invariant: the design is one of those given, and the      *)
(* wires are those of the registers.                                       *)
TypeInv ==
  /\ design \in {Elaborate(g) : g \in Functions}
  /\ active \subseteq States(G)
  /\ entryBB \in [States(G) -> Blocks(G)]
  /\ lastBB \in [States(G) -> Blocks(G)]
  /\ outOfPipe \subseteq States(G) \X States(G)
  /\ stored \subseteq design.jumps
  /\ waited \in [States(G) -> 0 .. MaxCount]
  /\ condTrue \subseteq Conditional
  /\ bbActive = ActiveWires

LEMMA DesignFacts ==
  ASSUME design \in {Elaborate(g) : g \in Functions}
  PROVE  /\ G \in Functions /\ IsScheduled(G) /\ design = Elaborate(G)
         /\ design.jumps = Jumps(G)
         /\ design.inState = [s \in States(G) |-> InStateTransitions(G, s)]
         /\ design.starts = {StartState(G, G.task[b]) : b \in Blocks(G)}
         /\ IsFiniteSet(Blocks(G))
  <1>1. PICK g \in Functions : design = Elaborate(g)
    OBVIOUS
  <1>2. G = g
    BY <1>1 DEF G, Elaborate
  <1>3. IsScheduled(g)
    BY FunctionAssumption
  <1>4. IsFiniteSet(Blocks(g))
    BY <1>3 DEF IsScheduled
  <1> QED BY <1>1, <1>2, <1>3, <1>4 DEF Elaborate

LEMMA ActiveBlock ==
  ASSUME TypeInv, NEW s, NEW b, BlockActive(s, b)
  PROVE  /\ s \in active /\ s \in States(G) /\ b \in BlocksIn(G, s) /\ b \in Blocks(G)
         /\ \/ entryBB[s] = b
            \/ \E e \in InStateTransitions(G, s) : e[2] = b /\ EdgeTaken(e[1], b)
  <1>1. IsScheduled(G) /\ IsFiniteSet(Blocks(G)) /\ s \in States(G)
    BY DesignFacts DEF TypeInv, BlockActive
  <1>2. CASE b \in BlocksIn(G, s) /\ entryBB[s] = b
    BY <1>1, <1>2 DEF BlockActive, BlocksIn
  <1>3. ASSUME NEW e \in InStateTransitions(G, s), e[2] = b, Onward(e, bbActive)
        PROVE  b \in BlocksIn(G, s) /\ EdgeTaken(e[1], b)
    <2>1. G.first[b] = s /\ b \in Blocks(G)
      BY <1>1, <1>3 DEF InStateTransitions, IsScheduled
    <2>2. G.first[b] <= s /\ s <= G.last[b]
      BY <1>1, <2>1 DEF IsScheduled
    <2> QED BY <1>3, <2>1, <2>2 DEF Onward, EdgeTaken, BlockActive, BlocksIn
  <1> QED BY <1>1, <1>2, <1>3, WiresSupported, DesignFacts DEF TypeInv, BlockActive, BlocksIn

LEMMA StartStateIs ==
  ASSUME NEW g, IsScheduled(g), NEW t
  PROVE  StartState(g, t) \in States(g)
  <1> DEFINE into == {j \in Jumps(g) : /\ j.kind = "branch" /\ j.outOfTask
                                       /\ g.task[j.dest] = t}
  <1>1. CASE into # {}
    <2>1. (CHOOSE j \in into : TRUE) \in Jumps(g)
      BY <1>1
    <2> QED BY <1>1, <2>1, JumpTypes DEF StartState
  <1>2. CASE into = {}
    BY <1>2 DEF StartState, IsScheduled
  <1> QED BY <1>1, <1>2

LEMMA TypeInvAtFirst == Init => TypeInv
  <1> SUFFICES ASSUME Init PROVE TypeInv
    OBVIOUS
  <1>1. IsScheduled(G) /\ design.starts = {StartState(G, G.task[b]) : b \in Blocks(G)}
    BY DesignFacts DEF Init
  <1>2. active \subseteq States(G)
    BY <1>1, StartStateIs DEF Init
  <1>3. Entry \in Blocks(G) /\ 0 \in 0 .. MaxCount
    BY <1>1, FunctionAssumption DEF IsScheduled
  <1> QED BY <1>2, <1>3 DEF Init, TypeInv

\* What comes before an active block is a block.
LEMMA PredecessorIs ==
  ASSUME TypeInv, NEW s, NEW b, BlockActive(s, b)
  PROVE  Predecessor(s, b) \in Blocks(G)
  <1>1. IsScheduled(G) /\ s \in States(G)
        /\ design.inState = [r \in States(G) |-> InStateTransitions(G, r)]
    BY DesignFacts, ActiveBlock DEF TypeInv
  <1>2. CASE entryBB[s] = b
    BY <1>1, <1>2 DEF Predecessor, TypeInv
  <1>3. CASE entryBB[s] # b
    <2> DEFINE inside == {e[1] : e \in {f \in design.inState[s] :
                                          f[2] = b /\ EdgeTaken(f[1], b)}}
    <2>1. inside # {}
      BY <1>1, <1>3, ActiveBlock
    <2>2. inside \subseteq Blocks(G)
      <3>1. design.inState[s] \subseteq Blocks(G) \X Blocks(G)
        BY <1>1 DEF InStateTransitions, IsScheduled
      <3> QED BY <3>1
    <2>3. Predecessor(s, b) = CHOOSE p \in inside : TRUE
      BY <1>3, <2>1 DEF Predecessor
    <2> QED BY <2>1, <2>2, <2>3
  <1> QED BY <1>2, <1>3

LEMMA CycleKeepsTypes ==
  ASSUME TypeInv, Cycle
  PROVE  TypeInv'
  <1>1. /\ IsScheduled(G) /\ G' = G /\ design' = design /\ design.jumps = Jumps(G)
    BY DesignFacts DEF TypeInv, Cycle, G
  <1>2. \A j \in design.jumps :
          /\ j.at \in States(G) /\ j.target \in States(G)
          /\ j.src \in Blocks(G) /\ j.dest \in Blocks(G) /\ j.sets \subseteq States(G)
          /\ j.kind \in {"branch", "return", "stay"}
    BY <1>1, JumpTypes
  <1>3. (active \subseteq States(G))'
    BY <1>1, <1>2 DEF Cycle
  <1>4. (entryBB \in [States(G) -> Blocks(G)])'
    <2>1. ASSUME NEW s \in States(G) PROVE EntryNext(s) \in Blocks(G)
      <3>1. EntryWrites(s) \subseteq design.jumps
        BY DEF EntryWrites
      <3> QED BY <1>2, <3>1 DEF EntryNext, TypeInv
    <2> QED BY <1>1, <2>1 DEF Cycle
  <1>5. (lastBB \in [States(G) -> Blocks(G)])'
    <2>1. ASSUME NEW s \in States(G) PROVE LastNext(s) \in Blocks(G)
      <3>1. CASE LastWrites(s) = {}
        BY <3>1 DEF LastNext, TypeInv
      <3>2. CASE LastWrites(s) # {}
        <4>1. PICK j \in LastWrites(s) : LastNext(s) = LastBlock(j)
          BY <3>2 DEF LastNext
        <4>2. j \in design.jumps /\ Happens(j)
          BY <4>1 DEF LastWrites
        <4>3. CASE j.kind = "branch"
          BY <1>2, <4>1, <4>2, <4>3 DEF LastBlock
        <4>4. CASE j.kind # "branch"
          BY <4>1, <4>2, <4>4, PredecessorIs DEF LastBlock, Happens
        <4> QED BY <4>3, <4>4
      <3> QED BY <3>1, <3>2
    <2> QED BY <1>1, <2>1 DEF Cycle
  <1>6. (outOfPipe \subseteq States(G) \X States(G))'
    BY <1>1, <1>2 DEF Cycle, TypeInv
  <1>7. (stored \subseteq design.jumps)'
    BY <1>1 DEF Cycle
  <1>8. (waited \in [States(G) -> 0 .. MaxCount])'
    <2>1. MaxCount \in Nat
      BY FunctionAssumption
    <2>2. ASSUME NEW s \in States(G), waited[s] # MaxCount
          PROVE  waited[s] + 1 \in 0 .. MaxCount
      BY <2>1, <2>2 DEF TypeInv
    <2> QED BY <1>1, <2>1, <2>2 DEF Cycle
  <1>9. (condTrue \subseteq Conditional)'
    BY <1>1 DEF Cycle, Conditional
  <1> QED BY <1>1, <1>3, <1>4, <1>5, <1>6, <1>7, <1>8, <1>9 DEF TypeInv, Cycle

LEMMA TypeInvariance == Spec => []TypeInv
  <1>1. TypeInv /\ [Cycle]_vars => TypeInv'
    <2> SUFFICES ASSUME TypeInv, UNCHANGED vars PROVE TypeInv'
      BY CycleKeepsTypes
    <2>1. bbActive' = bbActive /\ ActiveWires' = ActiveWires
      BY DEF vars, registers, wires, ActiveWires, Settled, Spread, Entered, Onward, Chosen, G
    <2> QED BY <2>1 DEF TypeInv, vars, registers, wires, G, Conditional
  <1> QED BY <1>1, TypeInvAtFirst, PTL DEF Spec

LEMMA WiresArePairs ==
  ASSUME TypeInv
  PROVE  bbActive \subseteq active \X Blocks(G)
  <1>1. /\ IsScheduled(G) /\ active \subseteq States(G) /\ Depth \in Nat
        /\ design.inState = [s \in States(G) |-> InStateTransitions(G, s)]
    BY DesignFacts, SettledSteps DEF TypeInv
  <1> DEFINE Odd == {n \in Nat : n <= Depth /\ ~ (Settled[n] \subseteq active \X Blocks(G))}
  <1>2. Odd = {}
    <2> SUFFICES ASSUME Odd # {} PROVE FALSE
      OBVIOUS
    <2>1. PICK n \in Odd : \A k \in Odd : n <= k
      BY LeastOf
    <2>2. n # 0
      BY <2>1, SettledSteps, DesignFacts DEF Entered, TypeInv
    <2>3. n \in Nat /\ n - 1 \in Nat /\ n \in 1 .. Depth /\ n - 1 \notin Odd
      <3>1. n \in Nat /\ n <= Depth
        BY <2>1
      <3>2. \A k \in Odd : n <= k /\ k \in Nat
        BY <2>1
      <3> HIDE DEF Odd
      <3> QED BY <1>1, <2>2, <3>1, <3>2
    <2>4. Settled[n - 1] \subseteq active \X Blocks(G)
      BY <1>1, <2>3
    <2>5. \A s \in active : \A e \in design.inState[s] : e[2] \in Blocks(G)
      BY <1>1 DEF InStateTransitions, IsScheduled
    <2>6. Spread(Settled[n - 1]) \subseteq active \X Blocks(G)
      BY <2>4, <2>5 DEF Spread
    <2> QED BY <2>1, <2>3, <2>6, SettledSteps, DesignFacts DEF TypeInv
  <1> QED BY <1>1, <1>2 DEF TypeInv, ActiveWires, Depth

LEMMA TypesFollow == TypeInv => TypeOK
  <1> SUFFICES ASSUME TypeInv PROVE TypeOK
    OBVIOUS
  <1>1. IsScheduled(G)
    BY DesignFacts DEF TypeInv
  <1>2. bbActive \subseteq States(G) \X Blocks(G)
    BY WiresArePairs DEF TypeInv
  <1> QED BY <1>1, <1>2 DEF TypeInv, TypeOK

(* The registers and wires of the control path keep their types: control   *)
(* never leaves the states and blocks of the schedule, and what a phi      *)
(* function is told is a block, for every set of scheduled functions.      *)
THEOREM TypeCorrect == Spec => []TypeOK
  BY TypeInvariance, TypesFollow, PTL
-----------------------------------------------------------------------------
(* The blocks a state outside of the pipelines runs through in one cycle.  *)

\* There a block ends with its terminator.
Straight(s) ==
  /\ s \in States(G) /\ G.pipe[s] = NoPipeline
  /\ \A b \in BlocksIn(G, s) : G.br[b] = G.last[b]

LEMMA ChosenOne ==
  ASSUME IsScheduled(G), NEW b \in Blocks(G), NEW c, Chosen(b, c)
  PROVE  G.succ[b] # <<>> /\ (\A d : Chosen(b, d) => c = d)
  <1>1. G.succ[b] \in Seq(Blocks(G))
    BY DEF IsScheduled
  <1> QED BY <1>1 DEF Chosen

\* b runs, and its terminator leads on to c in the same cycle.
Onto(s, b, c) == <<b, c>> \in InStateTransitions(G, s) /\ Chosen(b, c)

\* The blocks run through in state s, in order.
IsChain(c, s) ==
  /\ c \in Seq(Blocks(G)) /\ Len(c) >= 1 /\ c[1] = entryBB[s]
  /\ \A i \in 1 .. Len(c) - 1 : Onto(s, c[i], c[i + 1])
  /\ \A i, j \in 1 .. Len(c) : c[i] = c[j] => i = j

Through(c, n, s) == \A b : <<s, b>> \in Settled[n] <=> \E i \in 1 .. Len(c) : b = c[i]
Final(c, s) == \A b : ~Onto(s, c[Len(c)], b)

Climbs(c, rank) ==
  /\ \A i \in 1 .. Len(c) : rank[c[i]] >= i - 1
  /\ \A i, j \in 1 .. Len(c) : i < j => rank[c[i]] < rank[c[j]]

\* The edges inside such a state.
LEMMA InsideEdge ==
  ASSUME TypeInv, NEW s, Straight(s), NEW e \in design.inState[s]
  PROVE  /\ e = <<e[1], e[2]>> /\ e \in InStateTransitions(G, s) /\ e \in G.preds
         /\ e[1] \in Blocks(G) /\ e[2] \in Blocks(G)
         /\ G.last[e[1]] = s /\ G.br[e[1]] = s
  <1>1. IsScheduled(G) /\ s \in States(G) /\ e \in InStateTransitions(G, s)
    BY DesignFacts DEF TypeInv, Straight
  <1>2. /\ e = <<e[1], e[2]>> /\ e[1] \in Blocks(G) /\ e[2] \in Blocks(G)
        /\ G.last[e[1]] = s /\ e \in G.preds
    <2>1. e \in G.preds /\ G.last[e[1]] = s
      BY <1>1 DEF InStateTransitions
    <2>2. G.preds \subseteq Blocks(G) \X Blocks(G)
      BY <1>1 DEF IsScheduled
    <2> QED BY <2>1, <2>2
  <1>3. e[1] \in BlocksIn(G, s)
    <2>1. G.first[e[1]] <= G.last[e[1]] /\ G.last[e[1]] \in Nat
      BY <1>1, <1>2 DEF IsScheduled
    <2> QED BY <1>2, <2>1 DEF BlocksIn
  <1>4. G.br[e[1]] = s
    BY <1>2, <1>3 DEF Straight
  <1> QED BY <1>1, <1>2, <1>4

LEMMA OnwardInside ==
  ASSUME TypeInv, NEW s, Straight(s), s \in active, NEW on,
         NEW e \in design.inState[s]
  PROVE  Onward(e, on) <=> <<s, e[1]>> \in on /\ Chosen(e[1], e[2])
  BY InsideEdge DEF Onward

LEMMA ChainGrows ==
  ASSUME TypeInv, NEW s, Straight(s), s \in active,
         entryBB[s] \in BlocksIn(G, s),
         NEW rank \in [Blocks(G) -> Int], Forward(G, rank),
         NEW n \in 1 .. Depth, NEW c, IsChain(c, s), Through(c, n - 1, s), Climbs(c, rank),
         Len(c) = n \/ Final(c, s)
  PROVE  \E d : /\ IsChain(d, s) /\ Through(d, n, s) /\ Climbs(d, rank)
                /\ Len(d) = n + 1 \/ Final(d, s)
  <1>1. /\ IsScheduled(G) /\ Depth \in Nat /\ n - 1 \in 0 .. Depth
        /\ Settled[n] = Spread(Settled[n - 1])
        /\ design.inState[s] = InStateTransitions(G, s)
    BY DesignFacts, SettledSteps DEF TypeInv, Straight
  <1>2. c \in Seq(Blocks(G)) /\ Len(c) \in Nat \ {0} /\ \A i \in 1 .. Len(c) : c[i] \in Blocks(G)
    BY DEF IsChain
  <1> DEFINE l == c[Len(c)]
  <1>3. \A b : <<s, b>> \in Settled[n] <=>
               <<s, b>> \in Settled[n - 1]
               \/ \E i \in 1 .. Len(c) : Onto(s, c[i], b)
    <2>1. ASSUME NEW b
          PROVE  <<s, b>> \in Settled[n] <=>
                   <<s, b>> \in Settled[n - 1]
                   \/ \E e \in design.inState[s] : e[2] = b /\ Onward(e, Settled[n - 1])
      BY <1>1 DEF Spread
    <2>2. ASSUME NEW b
          PROVE  (\E e \in design.inState[s] : e[2] = b /\ Onward(e, Settled[n - 1]))
                   <=> \E i \in 1 .. Len(c) : Onto(s, c[i], b)
      <3>1. ASSUME NEW e \in design.inState[s], e[2] = b, Onward(e, Settled[n - 1])
            PROVE  \E i \in 1 .. Len(c) : Onto(s, c[i], b)
        <4>1. <<e[1], e[2]>> \in InStateTransitions(G, s)
          BY InsideEdge
        <4>2. <<s, e[1]>> \in Settled[n - 1] /\ Chosen(e[1], e[2])
          BY <3>1, OnwardInside
        <4>3. PICK i \in 1 .. Len(c) : e[1] = c[i]
          BY <4>2 DEF Through
        <4> QED BY <3>1, <4>1, <4>2, <4>3 DEF Onto
      <3>2. ASSUME NEW i \in 1 .. Len(c), Onto(s, c[i], b)
            PROVE  \E e \in design.inState[s] : e[2] = b /\ Onward(e, Settled[n - 1])
        <4>1. <<c[i], b>> \in design.inState[s] /\ <<s, c[i]>> \in Settled[n - 1]
          BY <1>1, <3>2 DEF Onto, Through
        <4> QED BY <3>2, <4>1, OnwardInside DEF Onto
      <3> QED BY <3>1, <3>2
    <2> QED BY <2>1, <2>2
  <1>4. ASSUME NEW i \in 1 .. Len(c) - 1, NEW b, Onto(s, c[i], b)
        PROVE  b = c[i + 1]
    <2>1. i \in 1 .. Len(c) /\ Onto(s, c[i], c[i + 1])
      <3>1. i \in 1 .. Len(c)
        BY <1>2
      <3>2. Onto(s, c[i], c[i + 1])
        BY Zenon DEF IsChain
      <3> QED BY <3>1, <3>2
    <2>2. Chosen(c[i], c[i + 1]) /\ Chosen(c[i], b) /\ c[i] \in Blocks(G)
      BY <1>2, <1>4, <2>1 DEF Onto
    <2> QED BY <1>1, <2>2, ChosenOne
  <1>5. CASE Final(c, s)
    <2>1. Through(c, n, s)
      <3>1. ASSUME NEW b, NEW i \in 1 .. Len(c), Onto(s, c[i], b)
            PROVE  \E k \in 1 .. Len(c) : b = c[k]
        <4>1. i \in 1 .. Len(c) - 1
          BY <1>2, <1>5, <3>1 DEF Final
        <4>2. b = c[i + 1]
          BY <1>4, <3>1, <4>1
        <4>3. i + 1 \in 1 .. Len(c)
          BY <1>2, <4>1
        <4> QED BY <4>2, <4>3
      <3> QED BY <1>3, <3>1 DEF Through
    <2> QED BY <1>5, <2>1
  <1>6. CASE ~Final(c, s)
    <2>1. PICK z : Onto(s, l, z)
      BY <1>6 DEF Final
    <2>2. /\ l \in Blocks(G) /\ z \in Blocks(G) /\ rank[l] < rank[z]
          /\ \A b : Onto(s, l, b) => b = z
      <3>1. l \in Blocks(G) /\ Chosen(l, z) /\ <<l, z>> \in G.preds
        BY <1>2, <2>1 DEF Onto, InStateTransitions
      <3>2. z \in Blocks(G) /\ rank[l] < rank[z]
        BY <1>1, <3>1 DEF IsScheduled, Forward
      <3> QED BY <1>1, <3>1, <3>2, ChosenOne DEF Onto
    <2> DEFINE d == Append(c, z)
    <2>3. /\ d \in Seq(Blocks(G)) /\ Len(d) = Len(c) + 1 /\ d[Len(d)] = z
          /\ \A i \in 1 .. Len(c) : d[i] = c[i]
      BY <1>2, <2>2
    <2>4. Climbs(d, rank)
      <3>1. ASSUME NEW i \in 1 .. Len(c) PROVE rank[c[i]] <= rank[l]
        <4>1. Len(c) \in 1 .. Len(c) /\ i <= Len(c)
          BY <1>2
        <4>2. rank[l] \in Int
          BY <1>2, <4>1
        <4>3. CASE i < Len(c)
          <5>1. rank[c[i]] < rank[c[Len(c)]]
            BY <4>1, <4>3 DEF Climbs
          <5>2. rank[c[i]] \in Int
            BY <1>2
          <5> QED BY <4>2, <5>1, <5>2
        <4>4. CASE i = Len(c)
          BY <4>2, <4>4
        <4> QED BY <1>2, <4>1, <4>3, <4>4
      <3>2. rank[z] \in Int /\ rank[l] \in Int /\ rank[l] >= Len(c) - 1
            /\ \A i \in 1 .. Len(c) : rank[c[i]] \in Int
        BY <1>2, <2>2 DEF Climbs
      <3>3. ASSUME NEW i \in 1 .. Len(d) PROVE rank[d[i]] >= i - 1
        BY <1>2, <2>2, <2>3, <3>2 DEF Climbs
      <3>4. ASSUME NEW i \in 1 .. Len(d), NEW j \in 1 .. Len(d), i < j
            PROVE  rank[d[i]] < rank[d[j]]
        <4>1. CASE j = Len(d)
          BY <1>2, <2>2, <2>3, <3>1, <3>2, <3>4, <4>1
        <4>2. CASE j # Len(d)
          <5>1. i \in 1 .. Len(c) /\ j \in 1 .. Len(c)
            <6>1. Len(c) \in Nat /\ Len(d) = Len(c) + 1 /\ i \in Nat /\ j \in Nat
                  /\ 1 <= i /\ 1 <= j /\ j <= Len(d) /\ j # Len(d)
              BY <1>2, <2>3, <4>2
            <6> HIDE DEF d
            <6> QED BY <3>4, <6>1
          <5> QED BY <2>3, <3>4, <5>1 DEF Climbs
        <4> QED BY <4>1, <4>2
      <3> QED BY <3>3, <3>4 DEF Climbs
    <2>5. IsChain(d, s)
      <3>1. ASSUME NEW i \in 1 .. Len(d) - 1 PROVE Onto(s, d[i], d[i + 1])
        <4>1. CASE i = Len(c)
          BY <1>2, <2>1, <2>3, <4>1
        <4>2. CASE i # Len(c)
          <5>1. i \in 1 .. Len(c) - 1 /\ i + 1 \in 1 .. Len(c) /\ i \in 1 .. Len(c)
            BY <1>2, <2>3, <4>2
          <5> QED BY <2>3, <5>1 DEF IsChain
        <4> QED BY <4>1, <4>2
      <3>2. ASSUME NEW i \in 1 .. Len(d), NEW j \in 1 .. Len(d), d[i] = d[j] PROVE i = j
        <4>1. d[i] \in Blocks(G) /\ rank[d[i]] \in Int
          BY <2>3
        <4>2. ~(i < j) /\ ~(j < i)
          <5>1. ~(rank[d[i]] < rank[d[j]]) /\ ~(rank[d[j]] < rank[d[i]])
            BY <3>2, <4>1
          <5> QED BY <2>4, <5>1 DEF Climbs
        <4> QED BY <2>3, <4>2
      <3>3. Len(d) >= 1 /\ d[1] = entryBB[s]
        BY <1>2, <2>3 DEF IsChain
      <3> QED BY <2>3, <3>1, <3>2, <3>3 DEF IsChain
    <2>6. Through(d, n, s)
      <3>1. ASSUME NEW b
            PROVE  <<s, b>> \in Settled[n] <=> (b = z \/ \E i \in 1 .. Len(c) : b = c[i])
        <4>1. (\E i \in 1 .. Len(c) : Onto(s, c[i], b))
                => b = z \/ \E i \in 1 .. Len(c) : b = c[i]
          <5> SUFFICES ASSUME NEW i \in 1 .. Len(c), Onto(s, c[i], b)
                       PROVE  b = z \/ \E k \in 1 .. Len(c) : b = c[k]
            OBVIOUS
          <5>1. CASE i = Len(c)
            BY <2>2, <5>1
          <5>2. CASE i # Len(c)
            <6>1. i \in 1 .. Len(c) - 1 /\ i + 1 \in 1 .. Len(c)
              BY <1>2, <5>2
            <6>2. b = c[i + 1]
              BY <1>4, <6>1
            <6> QED BY <6>1, <6>2
          <5> QED BY <5>1, <5>2
        <4>2. b = z => \E i \in 1 .. Len(c) : Onto(s, c[i], b)
          BY <1>2, <2>1
        <4> QED BY <1>3, <4>1, <4>2 DEF Through
      <3>2. ASSUME NEW b
            PROVE  (b = z \/ \E i \in 1 .. Len(c) : b = c[i]) <=> \E i \in 1 .. Len(d) : b = d[i]
        <4>1. \A i \in 1 .. Len(d) : i = Len(d) \/ i \in 1 .. Len(c)
          BY <1>2, <2>3
        <4>2. Len(d) \in 1 .. Len(d) /\ \A i \in 1 .. Len(c) : i \in 1 .. Len(d)
          BY <1>2, <2>3
        <4> HIDE DEF d
        <4> QED BY <2>3, <4>1, <4>2
      <3> QED BY <3>1, <3>2 DEF Through
    <2> QED BY <1>6, <2>3, <2>4, <2>5, <2>6
  <1> QED BY <1>5, <1>6

LEMMA ChainInState ==
  ASSUME TypeInv, Constrained(G), NEW s, Straight(s), s \in active,
         entryBB[s] \in BlocksIn(G, s)
  PROVE  \E c : /\ IsChain(c, s) /\ Final(c, s)
                /\ \A b : BlockActive(s, b) <=> \E i \in 1 .. Len(c) : b = c[i]
  <1>1. /\ IsScheduled(G) /\ Constrained(G) /\ Depth \in Nat
        /\ Settled[0] = Entered /\ bbActive = Settled[Depth]
    BY DesignFacts, SettledSteps DEF TypeInv, ActiveWires, Depth
  <1>2. PICK rank \in [Blocks(G) -> 0 .. Depth - 1] : Forward(G, rank)
    BY <1>1 DEF Constrained, Depth
  <1>3. rank \in [Blocks(G) -> Int] /\ \A b \in Blocks(G) : rank[b] >= 0 /\ rank[b] < Depth
    BY <1>1, <1>2
  <1> DEFINE Good(n) == \E c : /\ IsChain(c, s) /\ Through(c, n, s) /\ Climbs(c, rank)
                               /\ Len(c) = n + 1 \/ Final(c, s)
             Bad == {n \in Nat : n <= Depth /\ ~Good(n)}
  <1>4. Good(0)
    <2> DEFINE c == <<entryBB[s]>>
    <2>1. entryBB[s] \in Blocks(G)
      BY DEF BlocksIn
    <2>2. IsChain(c, s)
      BY <2>1 DEF IsChain
    <2>3. Through(c, 0, s)
      BY <1>1, <2>1 DEF Through, Entered
    <2>4. Climbs(c, rank)
      BY <1>3, <2>1 DEF Climbs
    <2> QED BY <2>2, <2>3, <2>4
  <1>5. ASSUME NEW n \in 1 .. Depth, Good(n - 1) PROVE Good(n)
    <2>1. PICK c : /\ IsChain(c, s) /\ Through(c, n - 1, s) /\ Climbs(c, rank)
                   /\ Len(c) = n \/ Final(c, s)
      BY <1>1, <1>5
    <2> QED BY <1>2, <1>3, <2>1, ChainGrows
  <1>6. Good(Depth)
    <2> HIDE DEF Good
    <2> SUFFICES ASSUME Depth \in Bad PROVE FALSE
      BY <1>1
    <2>1. PICK n \in Bad : \A k \in Bad : n <= k
      BY LeastOf
    <2>2. n \in Nat /\ n <= Depth /\ n # 0 /\ \A k \in Nat : k <= Depth /\ ~Good(k) => n <= k
      BY <1>4, <2>1
    <2>3. n - 1 \in Nat /\ n - 1 <= Depth /\ ~(n <= n - 1) /\ n \in 1 .. Depth
      BY <1>1, <2>2
    <2> QED BY <1>5, <2>1, <2>2, <2>3
  <1>7. PICK c : /\ IsChain(c, s) /\ Through(c, Depth, s) /\ Climbs(c, rank)
                 /\ Len(c) = Depth + 1 \/ Final(c, s)
    BY <1>6
  <1>8. Len(c) # Depth + 1
    <2> SUFFICES ASSUME Len(c) = Depth + 1 PROVE FALSE
      OBVIOUS
    <2>1. Len(c) \in 1 .. Len(c) /\ c[Len(c)] \in Blocks(G)
      BY <1>1, <1>7 DEF IsChain
    <2>2. rank[c[Len(c)]] >= Depth
      BY <1>1, <1>7, <2>1 DEF Climbs
    <2> QED BY <1>1, <1>3, <2>1, <2>2
  <1>9. \A b : BlockActive(s, b) <=> \E i \in 1 .. Len(c) : b = c[i]
    BY <1>1, <1>7 DEF Through, BlockActive
  <1> QED BY <1>7, <1>8, <1>9

\* Nothing runs in such a state if its entry block is not in it.
LEMMA NothingRuns ==
  ASSUME TypeInv, NEW s, Straight(s), NEW b, BlockActive(s, b)
  PROVE  entryBB[s] \in BlocksIn(G, s)
  <1>1. /\ Depth \in Nat /\ Settled[0] = Entered /\ bbActive = Settled[Depth] /\ s \in active
    BY DesignFacts, SettledSteps DEF TypeInv, ActiveWires, Depth, BlockActive
  <1> DEFINE Some == {n \in Nat : n <= Depth /\ \E c : <<s, c>> \in Settled[n]}
  <1>2. Depth \in Some
    <2>1. <<s, b>> \in Settled[Depth]
      BY <1>1 DEF BlockActive
    <2> QED BY <1>1, <2>1
  <1> HIDE DEF Some
  <1>3. PICK n \in Some : \A k \in Some : n <= k
    BY <1>2, LeastOf DEF Some
  <1>4. n \in Nat /\ n <= Depth
    BY <1>3 DEF Some
  <1>5. PICK c : <<s, c>> \in Settled[n]
    BY <1>3 DEF Some
  <1>6. CASE n = 0
    BY <1>1, <1>5, <1>6 DEF Entered
  <1>7. CASE n # 0
    <2>1. n \in 1 .. Depth /\ n - 1 \in Nat /\ ~(n <= n - 1) /\ n - 1 <= Depth
      BY <1>1, <1>4, <1>7
    <2>2. \A d : <<s, d>> \notin Settled[n - 1]
      BY <1>3, <2>1 DEF Some
    <2>3. <<s, c>> \in Spread(Settled[n - 1])
      BY <1>5, <2>1, SettledSteps, DesignFacts DEF TypeInv
    <2>4. PICK e \in design.inState[s] : Onward(e, Settled[n - 1])
      BY <2>2, <2>3 DEF Spread
    <2> QED BY <1>1, <2>2, <2>4, OnwardInside
  <1> QED BY <1>6, <1>7
\* The blocks run through in a cycle, as the wires show them.
RunsThrough(c, s) ==
  /\ IsChain(c, s) /\ Final(c, s)
  /\ \A b : BlockActive(s, b) <=> \E i \in 1 .. Len(c) : b = c[i]

\* Only the last of them jumps.
LEMMA LastJumps ==
  ASSUME TypeInv, NEW j \in Jumps(G), Straight(j.at), ~j.outOfTask, Happens(j)
  PROVE  /\ j.at \in active /\ entryBB[j.at] \in BlocksIn(G, j.at) /\ BlockActive(j.at, j.src)
         /\ j.kind = "branch" => Chosen(j.src, j.dest)
         /\ \A c : RunsThrough(c, j.at) => j.src = c[Len(c)]
  <1>1. IsScheduled(G) /\ j.src \in Blocks(G)
    BY DesignFacts, JumpTypes DEF TypeInv
  <1>2. BlockActive(j.at, j.src) /\ (j.kind = "branch" => Chosen(j.src, j.dest))
    <2>1. CASE j.kind = "branch"
      <3>1. G.br[j.src] = j.at
        BY <2>1, JumpShape DEF OutOfStateTransitions, AllTransitions
      <3> QED BY <2>1, <3>1 DEF Happens, EdgeTaken
    <2>2. CASE j.kind # "branch"
      BY <2>2 DEF Happens
    <2> QED BY <2>1, <2>2
  <1>3. ASSUME NEW c, RunsThrough(c, j.at)
        PROVE  j.src = c[Len(c)]
    <2>1. PICK i \in 1 .. Len(c) : j.src = c[i]
      BY <1>2, <1>3 DEF RunsThrough
    <2> SUFFICES ASSUME i # Len(c) PROVE FALSE
      BY <2>1
    <2>2. Len(c) \in Nat /\ i \in 1 .. Len(c) - 1
      BY <1>3 DEF RunsThrough, IsChain
    <2>3. Onto(j.at, j.src, c[i + 1])
      BY <1>3, <2>1, <2>2, Zenon DEF RunsThrough, IsChain
    <2>4. /\ G.last[j.src] = j.at /\ Chosen(j.src, c[i + 1]) /\ j.src \in Blocks(G)
          /\ <<j.src, c[i + 1]>> \in InStateTransitions(G, j.at)
      BY <1>1, <2>3 DEF Onto, InStateTransitions
    <2>5. CASE j.kind = "stay"
      BY <2>4, <2>5, JumpShape DEF InProgress
    <2>6. CASE j.kind = "return"
      <3>1. G.succ[j.src] = <<>>
        BY <2>6, JumpShape DEF Returning
      <3> QED BY <1>1, <2>4, <3>1, ChosenOne
    <2>7. CASE j.kind = "branch"
      <3>1. j.dest = c[i + 1]
        BY <1>1, <1>2, <2>4, <2>7, ChosenOne
      <3> QED BY <2>4, <2>7, <3>1, JumpShape DEF OutOfStateTransitions
    <2> QED BY <2>5, <2>6, <2>7, JumpShape
  <1> QED BY <1>1, <1>2, <1>3, NothingRuns DEF BlockActive

LEMMA OneJump ==
  ASSUME TypeInv, Constrained(G),
         NEW j \in Jumps(G), Straight(j.at), ~j.outOfTask, Happens(j),
         NEW k \in Jumps(G), ~k.outOfTask, Happens(k), j.at = k.at
  PROVE  j = k
  <1>1. IsScheduled(G) /\ Straight(k.at)
    BY DesignFacts DEF TypeInv
  <1>2. PICK c : RunsThrough(c, j.at)
    BY <1>1, LastJumps, ChainInState DEF RunsThrough
  <1>3. j.src = k.src /\ j.src \in Blocks(G) /\ j.src \in BlocksIn(G, j.at)
    <2>1. j.src = c[Len(c)] /\ BlockActive(j.at, j.src)
      BY <1>2, LastJumps
    <2>2. k.src = c[Len(c)]
      BY <1>2, LastJumps
    <2>3. j.src \in Blocks(G) /\ j.src \in BlocksIn(G, j.at)
      BY <2>1, ActiveBlock
    <2> QED BY <2>1, <2>2, <2>3
  <1>4. G.br[j.src] = G.last[j.src]
    BY <1>3 DEF Straight
  <1>5. /\ j = Jump(G, j.kind, j.at, j.src, j.dest, j.target)
        /\ k = Jump(G, k.kind, k.at, k.src, k.dest, k.target)
    BY JumpShape
  <1>6. CASE j.kind = "stay"
    <2>1. G.br[j.src] # j.at
      BY <1>4, <1>6, JumpShape DEF InProgress
    <2>2. k.kind = "stay"
      <3>1. k.kind = "branch" => G.br[k.src] = k.at
        BY JumpShape DEF OutOfStateTransitions, AllTransitions
      <3>2. k.kind = "return" => G.br[k.src] = k.at
        BY JumpShape DEF Returning
      <3>3. k.kind \in {"branch", "return", "stay"}
        BY JumpShape
      <3> QED BY <1>3, <2>1, <3>1, <3>2, <3>3
    <2>3. j.dest = k.dest /\ j.target = k.target
      BY <1>3, <1>6, <2>2, JumpShape
    <2> QED BY <1>3, <1>5, <1>6, <2>2, <2>3
  <1>7. CASE j.kind = "return"
    <2>1. G.br[j.src] = j.at /\ G.succ[j.src] = <<>>
      BY <1>7, JumpShape DEF Returning
    <2>2. k.kind = "return"
      <3>1. k.kind # "branch"
        BY <1>1, <1>3, <2>1, LastJumps, ChosenOne
      <3>2. k.kind # "stay"
        <4>1. k.kind = "stay" => G.last[k.src] # k.at
          BY JumpShape DEF InProgress
        <4> QED BY <1>3, <1>4, <2>1, <4>1
      <3> QED BY <3>1, <3>2, JumpShape
    <2>3. j.dest = k.dest /\ j.target = k.target
      BY <1>3, <1>7, <2>2, JumpShape
    <2> QED BY <1>3, <1>5, <1>7, <2>2, <2>3
  <1>8. CASE j.kind = "branch"
    <2>1. G.br[j.src] = j.at /\ Chosen(j.src, j.dest) /\ G.succ[j.src] # <<>>
      BY <1>1, <1>3, <1>8, LastJumps, ChosenOne, JumpShape DEF OutOfStateTransitions, AllTransitions
    <2>2. k.kind = "branch"
      <3>1. k.kind # "stay"
        <4>1. k.kind = "stay" => G.last[k.src] # k.at
          BY JumpShape DEF InProgress
        <4> QED BY <1>3, <1>4, <2>1, <4>1
      <3>2. k.kind # "return"
        BY <1>3, <2>1, JumpShape DEF Returning
      <3> QED BY <3>1, <3>2, JumpShape
    <2>3. j.dest = k.dest /\ j.target = k.target
      <3>1. Chosen(j.src, k.dest)
        BY <1>3, <2>2, LastJumps
      <3>2. j.dest = k.dest
        BY <1>1, <1>3, <2>1, <3>1, ChosenOne
      <3>3. j.target = G.first[j.dest]
        BY <1>8, JumpShape
      <3>4. k.target = G.first[k.dest]
        BY <2>2, JumpShape
      <3> QED BY <3>2, <3>3, <3>4
    <2> QED BY <1>3, <1>5, <1>8, <2>2, <2>3
  <1> QED BY <1>6, <1>7, <1>8, JumpShape
-----------------------------------------------------------------------------
(* The loop of a pipeline and its three kinds of jump.                     *)

LoopOf(p) == CHOOSE b \in Blocks(G) :
               IsLoop(G, p, b) /\ (RunOnce(G, b) \/ FollowClosely(G, p, b))
ExitOf(p) == CHOOSE c \in Blocks(G) \ {LoopOf(p)} : Edge(G, LoopOf(p), c)

Begin(p) == G.first[LoopOf(p)]
Branch(p) == G.br[LoopOf(p)]
End(p) == G.last[LoopOf(p)]
Stages(p) == Begin(p) .. End(p)
After(p) == G.first[ExitOf(p)]

\* The cycles the jump back waits.
Wait(p) == LET w == G.II[p] - 1 - (Branch(p) - Begin(p)) IN IF w > 0 THEN w ELSE 0

Stay(p, s) == Jump(G, "stay", s, LoopOf(p), LoopOf(p), s + 1)
Back(p) == Jump(G, "branch", Branch(p), LoopOf(p), LoopOf(p), Begin(p))
Out(p) == Jump(G, "branch", Branch(p), LoopOf(p), ExitOf(p), After(p))

Typed == TypeInv /\ PipelinedLoops(G)

LEMMA Scheduled ==
  ASSUME Typed
  PROVE  /\ TypeInv /\ G \in Functions /\ IsScheduled(G) /\ Constrained(G)
         /\ design = Elaborate(G) /\ design.jumps = Jumps(G)
         /\ \A b \in Blocks(G) : /\ G.first[b] \in Nat /\ G.br[b] \in Nat /\ G.last[b] \in Nat
                                 /\ G.first[b] \in States(G) /\ G.last[b] \in States(G)
                                 /\ G.first[b] <= G.br[b] /\ G.br[b] <= G.last[b]
                                 /\ b \in BlocksIn(G, G.first[b])
                                 /\ b \in BlocksIn(G, G.br[b]) /\ G.br[b] \in States(G)
  <1>1. TypeInv /\ G \in Functions /\ IsScheduled(G) /\ Constrained(G)
        /\ design = Elaborate(G) /\ design.jumps = Jumps(G)
    BY DesignFacts DEF Typed, TypeInv, PipelinedLoops
  <1>2. ASSUME NEW b \in Blocks(G)
        PROVE  /\ G.first[b] \in Nat /\ G.br[b] \in Nat /\ G.last[b] \in Nat
               /\ G.first[b] \in States(G) /\ G.last[b] \in States(G) /\ G.br[b] \in States(G)
               /\ G.first[b] <= G.br[b] /\ G.br[b] <= G.last[b]
    <2>1. /\ G.first[b] \in Nat /\ G.br[b] \in Nat /\ G.last[b] \in Nat
          /\ G.first[b] \in States(G) /\ G.last[b] \in States(G) /\ G.br[b] \in States(G)
          /\ b \in DOMAIN G.first
      BY <1>1 DEF IsScheduled
    <2>2. G.first[b] <= G.br[b] /\ (G.br[b] <= G.last[b] \/ G.br[b] = G.last[b])
      BY <1>1, <2>1 DEF Constrained, BlockTimes
    <2> QED BY <2>1, <2>2
  <1> QED BY <1>1, <1>2 DEF BlocksIn

LEMMA LoopFacts ==
  ASSUME Typed, NEW p \in Pipelines
  PROVE  /\ LoopOf(p) \in Blocks(G) /\ IsLoop(G, p, LoopOf(p))
         /\ RunOnce(G, LoopOf(p)) \/ FollowClosely(G, p, LoopOf(p))
         /\ p # NoPipeline /\ G.II[p] \in Nat \ {0}
         /\ Begin(p) \in Nat /\ Branch(p) \in Nat /\ End(p) \in Nat
         /\ Begin(p) <= Branch(p) /\ Branch(p) < End(p)
         /\ Stages(p) = PipelineStates(G, p) /\ design.pipes[p].states = Stages(p)
  <1>1. /\ design.pipes = [q \in {G.pipe[s] : s \in States(G)} \ {NoPipeline} |->
                             [states |-> PipelineStates(G, q), entry |-> EntryState(G, q),
                              terminal |-> TerminalState(G, q)]]
    BY Scheduled DEF Elaborate
  <1>2. p \in {G.pipe[s] : s \in States(G)} \ {NoPipeline}
    BY <1>1 DEF Pipelines
  <1>3. /\ LoopOf(p) \in Blocks(G) /\ IsLoop(G, p, LoopOf(p))
        /\ RunOnce(G, LoopOf(p)) \/ FollowClosely(G, p, LoopOf(p))
    <2>1. \E b \in Blocks(G) : IsLoop(G, p, b) /\ (RunOnce(G, b) \/ FollowClosely(G, p, b))
      BY <1>2 DEF Typed, PipelinedLoops
    <2> QED BY <2>1 DEF LoopOf
  <1>4. G.II[p] \in Nat \ {0}
    <2>1. p \in DOMAIN G.II
      BY <1>2, Scheduled DEF IsScheduled
    <2> QED BY <2>1, Scheduled DEF IsScheduled
  <1>5. Stages(p) = PipelineStates(G, p) /\ Branch(p) < End(p)
    BY <1>3 DEF IsLoop, Stages, Begin, Branch, End
  <1> QED BY <1>1, <1>2, <1>3, <1>4, <1>5, Scheduled DEF Begin, Branch, End

LEMMA StageFacts ==
  ASSUME Typed, NEW p \in Pipelines, NEW s \in Stages(p)
  PROVE  /\ s \in States(G) /\ s \in Nat /\ G.pipe[s] = p
         /\ \A b \in Blocks(G) : G.first[b] <= s /\ s <= G.last[b] => b = LoopOf(p)
         /\ \A b \in BlocksIn(G, s) : b = LoopOf(p)
  <1>1. s \in PipelineStates(G, p) /\ BlocksIn(G, s) = {LoopOf(p)}
    BY LoopFacts DEF IsLoop
  <1> QED BY <1>1, Scheduled DEF PipelineStates, BlocksIn, IsScheduled

\* A state is one of a pipeline's or outside of all.
LEMMA StateIs ==
  ASSUME Typed, NEW s \in States(G)
  PROVE  /\ G.pipe[s] # NoPipeline => G.pipe[s] \in Pipelines /\ s \in Stages(G.pipe[s])
         /\ G.pipe[s] = NoPipeline => Straight(s)
  <1>1. CASE G.pipe[s] # NoPipeline
    <2>1. G.pipe[s] \in Pipelines
      BY <1>1, Scheduled DEF Pipelines, Elaborate
    <2> QED BY <1>1, <2>1, LoopFacts DEF PipelineStates
  <1>2. CASE G.pipe[s] = NoPipeline
    <2>1. ASSUME NEW b \in BlocksIn(G, s) PROVE G.br[b] = G.last[b]
      <3>1. b \in Blocks(G) /\ G.first[b] <= s /\ s <= G.last[b] /\ b \in DOMAIN G.first
        BY Scheduled DEF BlocksIn, IsScheduled
      <3>2. G.pipe[G.first[b]] = NoPipeline
        <4> SUFFICES ASSUME G.pipe[G.first[b]] # NoPipeline PROVE FALSE
          OBVIOUS
        <4> DEFINE q == G.pipe[G.first[b]]
        <4>1. q \in Pipelines /\ G.first[b] \in PipelineStates(G, q)
          BY <3>1, Scheduled DEF Pipelines, Elaborate, PipelineStates
        <4>2. b = LoopOf(q)
          BY <3>1, <4>1, Scheduled, LoopFacts, StageFacts
        <4>3. s \in Stages(q)
          BY <3>1, <4>2, Scheduled DEF Stages, Begin, End, IsScheduled
        <4> QED BY <1>2, <4>1, <4>3, StageFacts, LoopFacts
      <3> QED BY <3>1, <3>2, Scheduled DEF Constrained, BlockTimes
    <2> QED BY <1>2, <2>1 DEF Straight
  <1> QED BY <1>1, <1>2

LEMMA PipeEnds ==
  ASSUME Typed, NEW p \in Pipelines
  PROVE  /\ EntryState(G, p) = Begin(p) /\ Starts(p) = Begin(p)
         /\ design.pipes[p].terminal = End(p)
         /\ Begin(p) \in Stages(p) /\ Branch(p) \in Stages(p) /\ End(p) \in Stages(p)
  <1>1. /\ Begin(p) \in Nat /\ Branch(p) \in Nat /\ End(p) \in Nat
        /\ Begin(p) <= Branch(p) /\ Branch(p) < End(p) /\ Stages(p) = PipelineStates(G, p)
    BY LoopFacts
  <1>2. /\ Begin(p) \in Stages(p) /\ End(p) \in Stages(p) /\ Branch(p) \in Stages(p)
        /\ \A t \in Stages(p) : t \in Nat /\ Begin(p) <= t /\ t <= End(p)
    BY <1>1 DEF Stages
  <1>3. EntryState(G, p) = Begin(p)
    <2>1. \E s \in PipelineStates(G, p) : \A t \in PipelineStates(G, p) : s <= t
      BY <1>1, <1>2
    <2>2. /\ EntryState(G, p) \in PipelineStates(G, p)
          /\ \A t \in PipelineStates(G, p) : EntryState(G, p) <= t
      BY <2>1 DEF EntryState
    <2> QED BY <1>1, <1>2, <2>2
  <1>4. TerminalState(G, p) = End(p)
    <2>1. \E s \in PipelineStates(G, p) : \A t \in PipelineStates(G, p) : t <= s
      BY <1>1, <1>2
    <2>2. /\ TerminalState(G, p) \in PipelineStates(G, p)
          /\ \A t \in PipelineStates(G, p) : t <= TerminalState(G, p)
      BY <2>1 DEF TerminalState
    <2> QED BY <1>1, <1>2, <2>2
  <1>5. p \in {G.pipe[s] : s \in States(G)} \ {NoPipeline}
    BY Scheduled DEF Pipelines, Elaborate
  <1> QED BY <1>2, <1>3, <1>4, <1>5, Scheduled DEF Elaborate, Starts

LEMMA ExitFacts ==
  ASSUME Typed, NEW p \in Pipelines
  PROVE  /\ ExitOf(p) \in Blocks(G) /\ ExitOf(p) # LoopOf(p)
         /\ Edge(G, LoopOf(p), ExitOf(p)) /\ Edge(G, LoopOf(p), LoopOf(p))
         /\ After(p) \in States(G) /\ G.pipe[After(p)] = NoPipeline
         /\ \A d : Edge(G, LoopOf(p), d) => d = LoopOf(p) \/ d = ExitOf(p)
         /\ G.succ[LoopOf(p)] # <<>>
  <1> DEFINE b == LoopOf(p)
  <1>1. /\ b \in Blocks(G) /\ Len(G.succ[b]) = 2 /\ G.succ[b][1] # G.succ[b][2]
        /\ Edge(G, b, b)
        /\ \A c \in Blocks(G) \ {b} : Edge(G, b, c) => G.pipe[G.first[c]] = NoPipeline
    BY LoopFacts DEF IsLoop
  <1>2. G.succ[b] \in Seq(Blocks(G)) /\ DOMAIN G.succ[b] = 1 .. 2
    <2>1. G.succ[b] \in Seq(Blocks(G))
      BY <1>1, Scheduled DEF IsScheduled
    <2> QED BY <1>1, <2>1
  <1>3. \A d : Edge(G, b, d) <=> d = G.succ[b][1] \/ d = G.succ[b][2]
    BY <1>2 DEF Edge
  <1>4. G.succ[b][1] \in Blocks(G) /\ G.succ[b][2] \in Blocks(G)
    BY <1>2
  <1>5. \E c \in Blocks(G) \ {b} : Edge(G, b, c)
    BY <1>1, <1>3, <1>4
  <1>6. ExitOf(p) \in Blocks(G) \ {b} /\ Edge(G, b, ExitOf(p))
    BY <1>5 DEF ExitOf
  <1>7. \A d : Edge(G, b, d) => d = b \/ d = ExitOf(p)
    BY <1>1, <1>3, <1>6
  <1>8. G.succ[b] # <<>>
    BY <1>1, <1>2
  <1> QED BY <1>1, <1>6, <1>7, <1>8, Scheduled DEF After

\* The condition of the branch decides between the two.
LEMMA LoopChooses ==
  ASSUME Typed, NEW p \in Pipelines
  PROVE  /\ Chosen(LoopOf(p), LoopOf(p)) <=> ~Chosen(LoopOf(p), ExitOf(p))
         /\ \A d : Chosen(LoopOf(p), d) => d = LoopOf(p) \/ d = ExitOf(p)
  <1> DEFINE b == LoopOf(p)
  <1>1. /\ b \in Blocks(G) /\ Len(G.succ[b]) = 2 /\ G.succ[b][1] # G.succ[b][2]
        /\ G.succ[b] \in Seq(Blocks(G)) /\ DOMAIN G.succ[b] = 1 .. 2
    <2>1. b \in Blocks(G) /\ Len(G.succ[b]) = 2 /\ G.succ[b][1] # G.succ[b][2]
      BY LoopFacts DEF IsLoop
    <2>2. G.succ[b] \in Seq(Blocks(G))
      BY <2>1, Scheduled DEF IsScheduled
    <2> QED BY <2>1, <2>2
  <1>2. {G.succ[b][1], G.succ[b][2]} = {b, ExitOf(p)}
    <2>1. Edge(G, b, G.succ[b][1]) /\ Edge(G, b, G.succ[b][2])
      BY <1>1 DEF Edge
    <2> QED BY <1>1, <2>1, ExitFacts
  <1>3. \A d : Chosen(b, d) <=> \/ d = G.succ[b][1] /\ b \in condTrue
                                \/ d = G.succ[b][2] /\ b \notin condTrue
    BY <1>1 DEF Chosen
  <1> QED BY <1>1, <1>2, <1>3, ExitFacts

\* No block starts in the state in which another of a pipeline ends.
LEMMA NothingInside ==
  ASSUME Typed, NEW p \in Pipelines, NEW s \in Stages(p)
  PROVE  InStateTransitions(G, s) = {}
  <1> SUFFICES ASSUME NEW e \in InStateTransitions(G, s) PROVE FALSE
    OBVIOUS
  <1>1. /\ e[1] \in Blocks(G) /\ e[2] \in Blocks(G)
        /\ G.first[e[2]] = s /\ G.last[e[1]] = s
    <2>1. e \in G.preds /\ G.preds \subseteq Blocks(G) \X Blocks(G)
      BY Scheduled DEF InStateTransitions, IsScheduled
    <2> QED BY <2>1 DEF InStateTransitions
  <1>2. \A b \in Blocks(G) : G.first[b] <= G.last[b]
    BY Scheduled DEF IsScheduled
  <1>3. e[1] = LoopOf(p) /\ e[2] = LoopOf(p)
    <2>1. s \in Nat
      BY StageFacts
    <2>2. G.first[e[2]] <= s /\ s <= G.last[e[2]] /\ G.first[e[1]] <= s /\ s <= G.last[e[1]]
      BY <1>1, <1>2, <2>1
    <2> QED BY <1>1, <2>2, StageFacts
  <1> QED BY <1>1, <1>3, LoopFacts DEF Begin, End

LEMMA BackIs ==
  ASSUME Typed, NEW p \in Pipelines
  PROVE  /\ Back(p) \in Jumps(G)
         /\ Back(p).kind = "branch" /\ Back(p).at = Branch(p) /\ Back(p).target = Begin(p)
         /\ Back(p).src = LoopOf(p) /\ Back(p).dest = LoopOf(p)
         /\ Back(p).sets = {Begin(p)} /\ Back(p).delay = Wait(p)
         /\ ~Back(p).leaves /\ ~Back(p).outOfTask
  <1> DEFINE j == Back(p)
  <1>1. /\ G.pipe[Branch(p)] = p /\ G.pipe[Begin(p)] = p /\ p # NoPipeline
        /\ Branch(p) \in States(G) /\ EntryState(G, p) = Begin(p)
    BY PipeEnds, StageFacts, LoopFacts
  <1>2. j \in Jumps(G)
    <2>1. <<LoopOf(p), LoopOf(p)>> \in OutOfStateTransitions(G, Branch(p))
      BY PipeEnds, NothingInside, ExitFacts, LoopFacts
         DEF OutOfStateTransitions, AllTransitions, Branch
    <2>2. j = Jump(G, "branch", Branch(p), <<LoopOf(p), LoopOf(p)>>[1], <<LoopOf(p), LoopOf(p)>>[2],
                   G.first[<<LoopOf(p), LoopOf(p)>>[2]])
      BY DEF Back, Begin
    <2> QED BY <1>1, <2>1, <2>2, JumpForms
  <1>3. /\ j.kind = "branch" /\ j.at = Branch(p) /\ j.target = Begin(p)
        /\ j.src = LoopOf(p) /\ j.dest = LoopOf(p)
    BY JumpFields DEF Back
  <1>4. j.sets = {Begin(p)} /\ j.delay = Wait(p)
    BY <1>1 DEF Back, Jump, Hazard, Wait
  <1>5. ~j.leaves
    <2>1. j.leaves = (G.pipe[Branch(p)] # NoPipeline /\ G.pipe[Begin(p)] = NoPipeline)
      BY JumpFields DEF Back
    <2> QED BY <1>1, <2>1
  <1>6. ~j.outOfTask
    <2>1. j.outOfTask = (G.task[LoopOf(p)] # G.task[LoopOf(p)])
      BY JumpFields DEF Back
    <2> QED BY <2>1
  <1> QED BY <1>2, <1>3, <1>4, <1>5, <1>6

LEMMA OneTask ==
  ASSUME Typed, NEW j \in Jumps(G)
  PROVE  ~j.outOfTask
  <1>1. j.src \in Blocks(G) /\ j.dest \in Blocks(G)
    BY Scheduled, JumpTypes
  <1>2. G.task[j.src] = G.task[j.dest]
    BY <1>1 DEF Typed, PipelinedLoops
  <1>3. j.outOfTask = (G.task[j.src] # G.task[j.dest])
    <2>1. j = Jump(G, j.kind, j.at, j.src, j.dest, j.target)
      BY JumpShape
    <2> QED BY <2>1, JumpFields
  <1> QED BY <1>2, <1>3

LEMMA OutIs ==
  ASSUME Typed, NEW p \in Pipelines
  PROVE  /\ Out(p) \in Jumps(G)
         /\ Out(p).kind = "branch" /\ Out(p).at = Branch(p) /\ Out(p).target = After(p)
         /\ Out(p).src = LoopOf(p) /\ Out(p).dest = ExitOf(p)
         /\ Out(p).sets = {After(p)} /\ Out(p).delay = 0
         /\ Out(p).leaves /\ ~Out(p).outOfTask
  <1> DEFINE j == Out(p)
  <1>1. /\ G.pipe[Branch(p)] = p /\ G.pipe[After(p)] = NoPipeline /\ p # NoPipeline
        /\ Branch(p) \in States(G)
    BY PipeEnds, StageFacts, LoopFacts, ExitFacts
  <1>2. j \in Jumps(G)
    <2>1. <<LoopOf(p), ExitOf(p)>> \in OutOfStateTransitions(G, Branch(p))
      BY PipeEnds, NothingInside, ExitFacts, LoopFacts
         DEF OutOfStateTransitions, AllTransitions, Branch
    <2>2. j = Jump(G, "branch", Branch(p), <<LoopOf(p), ExitOf(p)>>[1], <<LoopOf(p), ExitOf(p)>>[2],
                   G.first[<<LoopOf(p), ExitOf(p)>>[2]])
      BY DEF Out, After
    <2> QED BY <1>1, <2>1, <2>2, JumpForms
  <1>3. /\ j.kind = "branch" /\ j.at = Branch(p) /\ j.target = After(p)
        /\ j.src = LoopOf(p) /\ j.dest = ExitOf(p)
    BY JumpFields DEF Out
  <1>4. j.sets = {After(p)} /\ j.delay = 0
    BY <1>1 DEF Out, Jump
  <1>5. j.leaves
    <2>1. j.leaves = (G.pipe[Branch(p)] # NoPipeline /\ G.pipe[After(p)] = NoPipeline)
      BY JumpFields DEF Out
    <2> QED BY <1>1, <2>1
  <1> QED BY <1>2, <1>3, <1>4, <1>5, OneTask

LEMMA StayIs ==
  ASSUME Typed, NEW p \in Pipelines, NEW s \in Stages(p), s # End(p)
  PROVE  /\ Stay(p, s) \in Jumps(G)
         /\ Stay(p, s).kind = "stay" /\ Stay(p, s).at = s /\ Stay(p, s).target = s + 1
         /\ Stay(p, s).src = LoopOf(p) /\ Stay(p, s).dest = LoopOf(p)
         /\ Stay(p, s).sets = {s + 1} /\ Stay(p, s).delay = 0
         /\ ~Stay(p, s).leaves /\ ~Stay(p, s).outOfTask
         /\ s + 1 \in Stages(p)
  <1> DEFINE j == Stay(p, s)
  <1>1. s + 1 \in Stages(p)
    BY LoopFacts DEF Stages
  <1>2. /\ G.pipe[s] = p /\ G.pipe[s + 1] = p /\ p # NoPipeline /\ s \in States(G)
    BY <1>1, StageFacts, LoopFacts
  <1>3. j \in Jumps(G)
    <2>1. LoopOf(p) \in InProgress(G, s)
      BY LoopFacts DEF InProgress, BlocksIn, Stages, Begin, End
    <2> QED BY <1>2, <2>1, JumpForms DEF Stay
  <1>4. /\ j.kind = "stay" /\ j.at = s /\ j.target = s + 1
        /\ j.src = LoopOf(p) /\ j.dest = LoopOf(p)
    BY JumpFields DEF Stay
  <1>5. j.sets = {s + 1} /\ j.delay = 0
    BY <1>2 DEF Stay, Jump
  <1>6. ~j.leaves
    <2>1. j.leaves = (G.pipe[s] # NoPipeline /\ G.pipe[s + 1] = NoPipeline)
      BY JumpFields DEF Stay
    <2> QED BY <1>2, <2>1
  <1> QED BY <1>1, <1>3, <1>4, <1>5, <1>6, OneTask

\* There are no other jumps in a pipeline.
LEMMA LoopJumps ==
  ASSUME Typed, NEW j \in Jumps(G), NEW p, p = G.pipe[j.at], p # NoPipeline
  PROVE  /\ p \in Pipelines /\ j.at \in Stages(p)
         /\ j = Back(p) \/ j = Out(p) \/ (j.at # End(p) /\ j = Stay(p, j.at))
  <1>1. p \in Pipelines /\ j.at \in Stages(p) /\ j.src \in Blocks(G)
    BY Scheduled, JumpTypes, StateIs
  <1>2. \A b \in Blocks(G) : G.br[b] = j.at => b = LoopOf(p)
    BY <1>1, Scheduled, StageFacts
  <1>3. j = Jump(G, j.kind, j.at, j.src, j.dest, j.target)
    BY JumpShape
  <1>4. CASE j.kind = "branch"
    <2>1. G.br[j.src] = j.at /\ Edge(G, j.src, j.dest) /\ j.target = G.first[j.dest]
      BY <1>4, JumpShape DEF OutOfStateTransitions, AllTransitions
    <2>2. j.src = LoopOf(p) /\ j.at = Branch(p)
      BY <1>1, <1>2, <2>1 DEF Branch
    <2>3. j.dest = LoopOf(p) \/ j.dest = ExitOf(p)
      BY <1>1, <2>1, <2>2, ExitFacts
    <2> QED BY <1>1, <1>3, <1>4, <2>1, <2>2, <2>3 DEF Back, Out, Begin, After
  <1>5. CASE j.kind = "return"
    <2>1. G.br[j.src] = j.at /\ G.succ[j.src] = <<>>
      BY <1>5, JumpShape DEF Returning
    <2> QED BY <1>1, <1>2, <2>1, ExitFacts
  <1>6. CASE j.kind = "stay"
    <2>1. /\ j.src \in BlocksIn(G, j.at) /\ G.last[j.src] # j.at /\ j.dest = j.src
          /\ j.target = j.at + 1
      BY <1>6, JumpShape DEF InProgress
    <2>2. j.src = LoopOf(p)
      BY <1>1, <2>1, StageFacts
    <2> QED BY <1>1, <1>3, <1>6, <2>1, <2>2 DEF Stay, End
  <1> QED BY <1>4, <1>5, <1>6, JumpShape

\* A jump from outside of the pipelines enters one at its first state.
LEMMA StraightJumps ==
  ASSUME Typed, NEW j \in Jumps(G), G.pipe[j.at] = NoPipeline
  PROVE  /\ Straight(j.at) /\ ~j.leaves /\ j.delay = 0 /\ j.sets = {j.target}
         /\ \A p \in Pipelines : j.target \in Stages(p) =>
              j.kind = "branch" /\ j.dest = LoopOf(p) /\ j.target = Begin(p)
         /\ j.target \in States(G)
  <1>1. /\ j.at \in States(G) /\ j.at \in Nat /\ j.target \in States(G)
        /\ j.src \in Blocks(G) /\ j.dest \in Blocks(G)
    BY Scheduled, JumpTypes DEF IsScheduled
  <1>2. ASSUME NEW p \in Pipelines, j.target \in Stages(p)
        PROVE  j.kind = "branch" /\ j.dest = LoopOf(p) /\ j.target = Begin(p)
    <2>1. G.pipe[j.target] = p /\ p # NoPipeline
      BY <1>2, StageFacts, LoopFacts
    <2>2. CASE j.kind = "branch"
      <3>1. j.target = G.first[j.dest]
        BY <2>2, JumpShape
      <3>2. j.dest = LoopOf(p)
        BY <1>1, <1>2, <3>1, StageFacts, Scheduled
      <3> QED BY <2>2, <3>1, <3>2 DEF Begin
    <2>3. CASE j.kind = "return"
      <3>1. j.target = j.at
        <4>1. G.retState = NoState
          BY DEF Typed, PipelinedLoops
        <4> QED BY <2>3, <4>1, JumpShape
      <3> QED BY <2>1, <3>1
    <2>4. CASE j.kind = "stay"
      <3>1. /\ j.src \in BlocksIn(G, j.at) /\ G.last[j.src] # j.at /\ j.target = j.at + 1
        BY <2>4, JumpShape DEF InProgress
      <3>2. G.first[j.src] <= j.at /\ j.at <= G.last[j.src] /\ G.last[j.src] \in Nat
            /\ G.first[j.src] \in Nat
        BY <1>1, <3>1, Scheduled DEF BlocksIn
      <3>3. j.src = LoopOf(p)
        <4>1. G.first[j.src] <= j.target /\ j.target <= G.last[j.src]
          BY <1>1, <3>1, <3>2
        <4> QED BY <1>1, <1>2, <4>1, StageFacts
      <3>4. j.at \in Stages(p)
        BY <1>1, <3>2, <3>3 DEF Stages, Begin, End
      <3> QED BY <2>1, <3>4, StageFacts
    <2> QED BY <2>2, <2>3, <2>4, JumpShape
  <1>7. j = Jump(G, j.kind, j.at, j.src, j.dest, j.target)
    BY JumpShape
  <1>3. j.sets = {j.target}
    <2>1. \A s \in j.sets : s # j.target =>
            G.pipe[j.target] # NoPipeline /\ s = EntryState(G, G.pipe[j.target])
      BY <1>7, JumpFields
    <2>2. ASSUME G.pipe[j.target] # NoPipeline
          PROVE  EntryState(G, G.pipe[j.target]) = j.target
      <3>1. G.pipe[j.target] \in Pipelines /\ j.target \in Stages(G.pipe[j.target])
        BY <1>1, <2>2, StateIs
      <3> QED BY <1>2, <3>1, PipeEnds
    <2>3. j.target \in j.sets
      BY <1>7, JumpFields
    <2> QED BY <2>1, <2>2, <2>3
  <1>4. ~j.leaves /\ j.delay = 0
    BY <1>7, JumpFields
  <1> QED BY <1>1, <1>2, <1>3, <1>4, StateIs
-----------------------------------------------------------------------------
(* Which jumps happen and arrive.                                          *)

LEMMA HappensAt ==
  ASSUME Typed, NEW j \in Jumps(G), Happens(j)
  PROVE  /\ j.at \in active /\ BlockActive(j.at, j.src)
         /\ j.kind = "branch" => Chosen(j.src, j.dest)
  <1>1. ~j.outOfTask
    BY OneTask
  <1>2. CASE j.kind = "branch"
    <2>1. G.br[j.src] = j.at
      BY <1>2, JumpShape DEF OutOfStateTransitions, AllTransitions
    <2> QED BY <1>1, <1>2, <2>1 DEF Happens, EdgeTaken, BlockActive
  <1>3. CASE j.kind # "branch"
    BY <1>3 DEF Happens, BlockActive
  <1> QED BY <1>2, <1>3

\* In a stage runs its loop, if the entry register says so, or nothing.
LEMMA StageRuns ==
  ASSUME Typed, NEW p \in Pipelines, NEW s \in Stages(p), NEW b
  PROVE  BlockActive(s, b) <=> s \in active /\ entryBB[s] = LoopOf(p) /\ b = LoopOf(p)
  <1>1. ASSUME BlockActive(s, b)
        PROVE  s \in active /\ entryBB[s] = LoopOf(p) /\ b = LoopOf(p)
    <2>1. /\ s \in active /\ b \in BlocksIn(G, s)
          /\ entryBB[s] = b \/ \E e \in InStateTransitions(G, s) : TRUE
      BY <1>1, ActiveBlock DEF Typed
    <2> QED BY <2>1, NothingInside, StageFacts
  <1>2. ASSUME s \in active, entryBB[s] = LoopOf(p), b = LoopOf(p)
        PROVE  BlockActive(s, b)
    <2>1. /\ bbActive = Settled[Depth] /\ Settled[0] = Entered /\ Depth \in Nat
          /\ IsFiniteSet(Blocks(G))
      BY SettledSteps, DesignFacts DEF Typed, TypeInv, ActiveWires, Depth
    <2>2. LoopOf(p) \in BlocksIn(G, s) /\ LoopOf(p) \in Blocks(G)
      BY LoopFacts DEF BlocksIn, Stages, Begin, End
    <2>3. <<s, b>> \in Entered
      BY <1>2, <2>2 DEF Entered
    <2>4. Entered \subseteq bbActive
      BY <2>1, SettledGrows
    <2> QED BY <1>2, <2>3, <2>4 DEF BlockActive
  <1> QED BY <1>1, <1>2

Runs(p, s) == s \in active /\ entryBB[s] = LoopOf(p)

LEMMA LoopHappens ==
  ASSUME Typed, NEW p \in Pipelines
  PROVE  /\ Happens(Back(p)) <=> Runs(p, Branch(p)) /\ Chosen(LoopOf(p), LoopOf(p))
         /\ Happens(Out(p)) <=> Runs(p, Branch(p)) /\ Chosen(LoopOf(p), ExitOf(p))
         /\ Runs(p, Branch(p)) => Happens(Back(p)) \/ Happens(Out(p))
  <1>1. G.br[LoopOf(p)] = Branch(p) /\ Branch(p) \in Stages(p)
    BY PipeEnds DEF Branch
  <1>2. Happens(Back(p)) <=> Runs(p, Branch(p)) /\ Chosen(LoopOf(p), LoopOf(p))
    BY <1>1, BackIs, StageRuns DEF Happens, EdgeTaken, Runs
  <1>3. Happens(Out(p)) <=> Runs(p, Branch(p)) /\ Chosen(LoopOf(p), ExitOf(p))
    BY <1>1, OutIs, StageRuns DEF Happens, EdgeTaken, Runs
  <1> QED BY <1>2, <1>3, LoopChooses

LEMMA StayHappens ==
  ASSUME Typed, NEW p \in Pipelines, NEW s \in Stages(p), s # End(p)
  PROVE  /\ Happens(Stay(p, s)) <=> Runs(p, s)
         /\ Arrives(Stay(p, s)) <=> Runs(p, s)
  <1>1. Happens(Stay(p, s)) <=> Runs(p, s)
    BY StayIs, StageRuns DEF Happens, Runs
  <1> QED BY <1>1, StayIs DEF Arrives

\* What out_of_pipe remembers of a pipeline.
Way(p) == <<Branch(p), After(p)>>

\* The jump back is held until the initiation interval has passed.
Pending(p) == Wait(p) > 0 /\ Back(p) \in stored /\ waited[Branch(p)] <= Wait(p)

LEMMA WaitIs ==
  ASSUME Typed, NEW p \in Pipelines
  PROVE  /\ Wait(p) \in Nat /\ Wait(p) < MaxCount /\ MaxCount \in Nat
         /\ Wait(p) > 0 => /\ Branch(p) + 1 + Wait(p) = Begin(p) + G.II[p]
                           /\ Branch(p) \in design.waits
         /\ Wait(p) = 0 => G.II[p] <= (Branch(p) - Begin(p)) + 1
         /\ waited[Branch(p)] \in 0 .. MaxCount
  <1>1. /\ Begin(p) \in Nat /\ Branch(p) \in Nat /\ G.II[p] \in Nat \ {0}
        /\ Back(p) \in Jumps(G) /\ Back(p).delay = Wait(p) /\ Back(p).at = Branch(p)
    BY LoopFacts, BackIs
  <1>2. Wait(p) \in Nat
    BY <1>1 DEF Wait
  <1>3. Wait(p) < MaxCount /\ MaxCount \in Nat
    BY <1>1, Scheduled, FunctionAssumption
  <1>4. Wait(p) > 0 => Branch(p) + 1 + Wait(p) = Begin(p) + G.II[p]
    BY <1>1 DEF Wait
  <1>5. Wait(p) = 0 => G.II[p] <= (Branch(p) - Begin(p)) + 1
    BY <1>1 DEF Wait
  <1>6. Wait(p) > 0 => Branch(p) \in design.waits
    BY <1>1, Scheduled DEF Elaborate
  <1>7. waited[Branch(p)] \in 0 .. MaxCount
    BY PipeEnds, StageFacts DEF Typed, TypeInv
  <1> QED BY <1>2, <1>3, <1>4, <1>5, <1>6, <1>7

LEMMA LoopArrives ==
  ASSUME Typed, NEW p \in Pipelines
  PROVE  /\ Arrives(Back(p)) <=> IF Wait(p) > 0 THEN Pending(p) /\ waited[Branch(p)] = Wait(p)
                                 ELSE Happens(Back(p))
         /\ Arrives(Out(p)) <=> /\ Way(p) \in outOfPipe /\ active \cap Stages(p) # {}
                                /\ active \cap Stages(p) \subseteq {End(p)}
  <1>1. Arrives(Back(p)) <=> IF Wait(p) > 0 THEN Pending(p) /\ waited[Branch(p)] = Wait(p)
                             ELSE Happens(Back(p))
    BY BackIs, WaitIs DEF Arrives, Pending
  <1>2. G.pipe[Branch(p)] = p /\ design.pipes[p].states = Stages(p)
        /\ design.pipes[p].terminal = End(p)
    BY PipeEnds, StageFacts, LoopFacts
  <1>3. Arrives(Out(p)) <=> <<Branch(p), After(p)>> \in outOfPipe /\ ExitNextCycle(p)
    BY <1>2, OutIs DEF Arrives
  <1> QED BY <1>1, <1>2, <1>3 DEF Way, ExitNextCycle, InPipe

\* What arrives happens, waits, or drains.
LEMMA ArrivesFrom ==
  ASSUME Typed, NEW j \in Jumps(G), Arrives(j)
  PROVE  \/ Happens(j) /\ j.at \in active
         \/ \E p \in Pipelines : j = Back(p) /\ Pending(p) /\ G.pipe[j.at] = p
         \/ \E p \in Pipelines : j = Out(p) /\ active \cap Stages(p) # {} /\ G.pipe[j.at] = p
  <1>1. CASE G.pipe[j.at] = NoPipeline
    <2>1. ~j.leaves /\ j.delay = 0
      BY <1>1, StraightJumps
    <2>2. Happens(j)
      BY <2>1 DEF Arrives
    <2> QED BY <2>2, HappensAt
  <1>2. CASE G.pipe[j.at] # NoPipeline
    <2> DEFINE p == G.pipe[j.at]
    <2>1. /\ p \in Pipelines /\ j.at \in Stages(p)
          /\ j = Back(p) \/ j = Out(p) \/ (j.at # End(p) /\ j = Stay(p, j.at))
      BY <1>2, LoopJumps
    <2>2. CASE j = Back(p)
      BY <2>1, <2>2, LoopArrives, HappensAt
    <2>3. CASE j = Out(p)
      BY <2>1, <2>3, LoopArrives
    <2>4. CASE j.at # End(p) /\ j = Stay(p, j.at)
      BY <2>1, <2>4, StayHappens DEF Runs
    <2> QED BY <2>1, <2>2, <2>3, <2>4
  <1> QED BY <1>1, <1>2

LEMMA SameTarget ==
  ASSUME Typed, NEW p \in Pipelines,
         NEW j \in Jumps(G), G.pipe[j.at] = p, NEW k \in Jumps(G), G.pipe[k.at] = p,
         j.target = k.target
  PROVE  j = k
  <1>1. p # NoPipeline /\ Begin(p) \in Nat /\ Begin(p) \in Stages(p)
        /\ After(p) \notin Stages(p)
    BY LoopFacts, PipeEnds, ExitFacts, StageFacts
  <1>2. ASSUME NEW i \in Jumps(G), G.pipe[i.at] = p
        PROVE  \/ i = Back(p) /\ i.target = Begin(p)
               \/ i = Out(p) /\ i.target = After(p)
               \/ /\ i = Stay(p, i.at) /\ i.target = i.at + 1 /\ i.at \in Stages(p)
                  /\ i.target \in Stages(p)
    <2>1. /\ i.at \in Stages(p)
          /\ i = Back(p) \/ i = Out(p) \/ (i.at # End(p) /\ i = Stay(p, i.at))
      BY <1>1, <1>2, LoopJumps
    <2> QED BY <2>1, BackIs, OutIs, StayIs
  <1>3. ASSUME NEW s \in Stages(p) PROVE s + 1 # Begin(p) /\ s \in Nat
    BY LoopFacts DEF Stages
  <1>4. j.at = k.at \/ j = Back(p) \/ j = Out(p) \/ k = Back(p) \/ k = Out(p)
    <2> SUFFICES ASSUME j.target = j.at + 1, k.target = k.at + 1, j.at \in Stages(p), k.at \in Stages(p)
                 PROVE  j.at = k.at
      BY <1>2
    <2>1. j.at \in Nat /\ k.at \in Nat
      BY <1>3
    <2>2. j.at + 1 = k.at + 1
      OBVIOUS
    <2>3. \A m, n \in Nat : m + 1 = n + 1 => m = n
      OBVIOUS
    <2> QED BY <2>1, <2>2, <2>3
  <1> QED BY <1>1, <1>2, <1>3, <1>4, BackIs, OutIs
-----------------------------------------------------------------------------
(* Where control is: in one state outside of the pipelines, or in the      *)
(* stages of one of them.                                                  *)

Outside ==
  /\ AtMostOne(active) /\ \A s \in active : G.pipe[s] = NoPipeline
  /\ \A p \in Pipelines : ~Pending(p)

\* The states up to the branch: at most one iteration is there.
Front(p) == active \cap (Begin(p) .. Branch(p))

\* Where the last iteration is while the next waits, if it has not ended.
Lead(p) == Branch(p) + 1 + waited[Branch(p)]

Deciding(p) == ~Pending(p) /\ \E x \in active : Front(p) = {x}
Holding(p) ==
  /\ Pending(p) /\ Front(p) = {}
  /\ entryBB[Begin(p)] = LoopOf(p) /\ lastBB[Begin(p)] = LoopOf(p)
  /\ Lead(p) <= End(p) => Lead(p) \in active
Draining(p) ==
  ~Pending(p) /\ Front(p) = {} /\ active # {} /\ Way(p) \in outOfPipe

Inside(p) ==
  /\ active \subseteq Stages(p) /\ \A s \in active : entryBB[s] = LoopOf(p)
  /\ \A q \in Pipelines \ {p} : ~Pending(q)
  /\ Deciding(p) \/ Holding(p) \/ Draining(p)

Placed == Outside \/ \E p \in Pipelines : Inside(p)

LEMMA OutsideJumps ==
  ASSUME Typed, Outside, NEW j \in Jumps(G), Arrives(j) \/ Happens(j)
  PROVE  /\ Happens(j) /\ j.at \in active /\ G.pipe[j.at] = NoPipeline
         /\ Straight(j.at)
         /\ \A k \in Jumps(G) : Arrives(k) \/ Happens(k) => j = k
  <1>1. ASSUME NEW k \in Jumps(G), Arrives(k) \/ Happens(k)
        PROVE  Happens(k) /\ k.at \in active /\ G.pipe[k.at] = NoPipeline /\ Straight(k.at)
    <2>1. active \subseteq States(G) /\ \A s \in active : G.pipe[s] = NoPipeline
      BY DEF Outside, Typed, TypeInv
    <2>2. \A p \in Pipelines : ~Pending(p) /\ active \cap Stages(p) = {}
      BY <2>1, StageFacts, LoopFacts DEF Outside
    <2>3. Happens(k) /\ k.at \in active
      BY <1>1, <2>2, ArrivesFrom, HappensAt
    <2> QED BY <2>1, <2>3, StateIs
  <1>2. ASSUME NEW k \in Jumps(G), Arrives(k) \/ Happens(k) PROVE j = k
    <2>1. Happens(k) /\ k.at \in active
      BY <1>1, <1>2
    <2>2. Happens(j) /\ j.at \in active /\ Straight(j.at)
      BY <1>1
    <2>3. j.at = k.at
      BY <2>1, <2>2 DEF Outside, AtMostOne
    <2> QED BY <2>1, <2>2, <2>3, OneJump, OneTask, Scheduled
  <1> QED BY <1>1, <1>2

LEMMA InsideJumps ==
  ASSUME Typed, NEW p \in Pipelines, Inside(p), NEW j \in Jumps(G), Arrives(j) \/ Happens(j)
  PROVE  G.pipe[j.at] = p
  <1>1. active \subseteq Stages(p) /\ \A q \in Pipelines \ {p} : ~Pending(q)
    BY DEF Inside
  <1>2. j.at \in active => G.pipe[j.at] = p
    BY <1>1, StageFacts
  <1>3. \A q \in Pipelines \ {p} : active \cap Stages(q) = {}
    BY <1>1, StageFacts
  <1>4. CASE Happens(j)
    BY <1>2, <1>4, HappensAt
  <1>5. CASE Arrives(j)
    BY <1>1, <1>2, <1>3, <1>5, ArrivesFrom
  <1> QED BY <1>4, <1>5

\* No two conditions of one register are up.
LEMMA PlacedOneJump ==
  ASSUME Typed, Placed, NEW j \in Jumps(G), Arrives(j) \/ Happens(j),
         NEW k \in Jumps(G), Arrives(k) \/ Happens(k), j.target = k.target
  PROVE  j = k
  <1>1. CASE Outside
    BY <1>1, OutsideJumps
  <1>2. ASSUME NEW p \in Pipelines, Inside(p) PROVE j = k
    BY <1>2, InsideJumps, SameTarget
  <1> QED BY <1>1, <1>2 DEF Placed

LEMMA SetsTarget ==
  ASSUME Typed, NEW j \in Jumps(G)
  PROVE  j.sets = {j.target}
  <1>1. CASE G.pipe[j.at] = NoPipeline
    BY <1>1, StraightJumps
  <1>2. CASE G.pipe[j.at] # NoPipeline
    BY <1>2, LoopJumps, BackIs, OutIs, StayIs
  <1> QED BY <1>1, <1>2

LEMMA PlacedNoOverlap ==
  ASSUME Typed, Placed
  PROVE  NoOverlappingTransitions
  <1>1. design.jumps = Jumps(G)
    BY Scheduled
  <1>2. ASSUME NEW s PROVE noOverlappingStateTransitions(s)
    BY <1>1, SetsTarget, PlacedOneJump DEF noOverlappingStateTransitions, AtMostOne
  <1>3. ASSUME NEW s PROVE noOverlappingBlockTransitions(s)
    <2>1. \A j \in EntryWrites(s) : j \in Jumps(G) /\ j.target = s /\ (Arrives(j) \/ Happens(j))
      BY <1>1 DEF EntryWrites
    <2> QED BY <2>1, PlacedOneJump DEF noOverlappingBlockTransitions, AtMostOne
  <1>4. ASSUME NEW s PROVE noOverlappingLastBlockTransitions(s)
    <2>1. \A j \in LastWrites(s) : j \in Jumps(G) /\ j.target = s /\ (Arrives(j) \/ Happens(j))
      BY <1>1 DEF LastWrites
    <2> QED BY <2>1, PlacedOneJump DEF noOverlappingLastBlockTransitions, AtMostOne
  <1> QED BY <1>2, <1>3, <1>4 DEF NoOverlappingTransitions

-----------------------------------------------------------------------------
(* One clock edge.                                                         *)

LEMMA Steady ==
  ASSUME UNCHANGED design
  PROVE  /\ G' = G /\ Pipelines' = Pipelines
         /\ \A p : /\ LoopOf(p)' = LoopOf(p) /\ ExitOf(p)' = ExitOf(p) /\ Begin(p)' = Begin(p)
                   /\ Branch(p)' = Branch(p) /\ End(p)' = End(p) /\ Stages(p)' = Stages(p)
                   /\ After(p)' = After(p) /\ Wait(p)' = Wait(p) /\ Back(p)' = Back(p)
                   /\ Way(p)' = Way(p)
  <1>1. G' = G /\ Pipelines' = Pipelines
    BY DEF G, Pipelines
  <1>2. ASSUME NEW p PROVE LoopOf(p)' = LoopOf(p)
    BY <1>1 DEF LoopOf
  <1>3. ASSUME NEW p PROVE ExitOf(p)' = ExitOf(p)
    BY <1>1, <1>2 DEF ExitOf
  <1>4. ASSUME NEW p
        PROVE /\ Begin(p)' = Begin(p) /\ Branch(p)' = Branch(p) /\ End(p)' = End(p)
              /\ After(p)' = After(p)
    BY <1>1, <1>2, <1>3 DEF Begin, Branch, End, After
  <1>5. ASSUME NEW p
        PROVE /\ Stages(p)' = Stages(p) /\ Wait(p)' = Wait(p) /\ Way(p)' = Way(p)
              /\ Back(p)' = Back(p)
    BY <1>1, <1>2, <1>4 DEF Stages, Wait, Way, Back
  <1> QED BY <1>1, <1>2, <1>3, <1>4, <1>5

\* The wires and registers after an edge.
LEMMA TypedNext ==
  ASSUME Typed, Cycle
  PROVE  Typed' /\ UNCHANGED design /\ G' = G
  <1>1. UNCHANGED design /\ G' = G
    BY DEF Cycle, G
  <1> QED BY <1>1, CycleKeepsTypes DEF Typed

LEMMA ActiveNext ==
  ASSUME Typed, Cycle, NEW s
  PROVE  s \in active' <=> \E j \in Jumps(G) : Arrives(j) /\ j.target = s
  <1>1. s \in active' <=> \E j \in Jumps(G) : Arrives(j) /\ s \in j.sets
    BY Scheduled DEF Cycle
  <1>2. \A j \in Jumps(G) : s \in j.sets <=> j.target = s
    BY SetsTarget
  <1> QED BY <1>1, <1>2

LEMMA EntryNextIs ==
  ASSUME Typed, Placed, Cycle, NEW j \in Jumps(G),
         IF j.leaves THEN Arrives(j) ELSE Happens(j)
  PROVE  entryBB'[j.target] = j.dest
  <1>1. j.leaves => j.kind = "branch"
    <2>1. CASE G.pipe[j.at] = NoPipeline
      BY <2>1, StraightJumps
    <2>2. CASE G.pipe[j.at] # NoPipeline
      BY <2>2, LoopJumps, BackIs, OutIs, StayIs
    <2> QED BY <2>1, <2>2
  <1>2. G.retState = NoState
    BY DEF Typed, PipelinedLoops
  <1>3. j \in EntryWrites(j.target)
    BY <1>1, <1>2, Scheduled DEF EntryWrites
  <1>4. \A k \in EntryWrites(j.target) : k = j
    <2>1. \A k \in EntryWrites(j.target) :
            k \in Jumps(G) /\ k.target = j.target /\ (Arrives(k) \/ Happens(k))
      BY Scheduled DEF EntryWrites
    <2> QED BY <2>1, PlacedOneJump
  <1>5. EntryNext(j.target) = j.dest
    BY <1>3, <1>4 DEF EntryNext
  <1>6. j.target \in States(G)
    BY Scheduled, JumpTypes
  <1> QED BY <1>5, <1>6 DEF Cycle

LEMMA LastNextIs ==
  ASSUME Typed, Placed, Cycle, NEW j \in Jumps(G), Happens(j)
  PROVE  lastBB'[j.target] = LastBlock(j)
  <1>1. j \in LastWrites(j.target)
    BY Scheduled DEF LastWrites
  <1>2. \A k \in LastWrites(j.target) : k = j
    <2>1. \A k \in LastWrites(j.target) : k \in Jumps(G) /\ k.target = j.target /\ Happens(k)
      BY Scheduled DEF LastWrites
    <2> QED BY <2>1, PlacedOneJump
  <1>3. LastNext(j.target) = LastBlock(j)
    <2>1. (CHOOSE k \in LastWrites(j.target) : TRUE) = j
      BY <1>1, <1>2
    <2> QED BY <1>1, <2>1 DEF LastNext
  <1>4. j.target \in States(G)
    BY Scheduled, JumpTypes
  <1> QED BY <1>3, <1>4 DEF Cycle

LEMMA BlocksKept ==
  ASSUME Typed, Cycle, NEW s \in States(G),
         \A j \in Jumps(G) : j.target = s => ~Happens(j) /\ ~j.leaves
  PROVE  entryBB'[s] = entryBB[s] /\ lastBB'[s] = lastBB[s]
  <1>1. EntryWrites(s) = {} /\ LastWrites(s) = {}
    BY Scheduled DEF EntryWrites, LastWrites
  <1>2. EntryNext(s) = entryBB[s] /\ LastNext(s) = lastBB[s]
    BY <1>1 DEF EntryNext, LastNext
  <1> QED BY <1>2 DEF Cycle

\* The register and the counter of a delayed jump.
LEMMA PendingNext ==
  ASSUME Typed, Cycle, NEW p \in Pipelines
  PROVE  /\ Branch(p) \in active =>
              /\ Pending(p)' <=> Wait(p) > 0 /\ Happens(Back(p))
              /\ Pending(p)' => waited'[Branch(p)] = 0
         /\ Branch(p) \notin active =>
              /\ Pending(p)' <=> Pending(p) /\ waited[Branch(p)] < Wait(p)
              /\ Pending(p)' => waited'[Branch(p)] = waited[Branch(p)] + 1
  <1>1. Pending(p)' <=> Wait(p) > 0 /\ Back(p) \in stored' /\ waited'[Branch(p)] <= Wait(p)
    BY TypedNext, Steady DEF Pending
  <1>2. /\ Wait(p) \in Nat /\ MaxCount \in Nat /\ Wait(p) < MaxCount
        /\ waited[Branch(p)] \in 0 .. MaxCount
        /\ Wait(p) > 0 => Branch(p) \in design.waits
        /\ Branch(p) \in States(G)
    BY WaitIs, PipeEnds, StageFacts
  <1>3. Wait(p) > 0 =>
          (Back(p) \in stored' <=> IF Branch(p) \in active THEN Happens(Back(p))
                                   ELSE Back(p) \in stored)
    BY BackIs, Scheduled DEF Cycle
  <1>4. Wait(p) > 0 => waited'[Branch(p)] =
          IF Branch(p) \in active THEN 0
          ELSE IF waited[Branch(p)] = MaxCount THEN MaxCount ELSE waited[Branch(p)] + 1
    BY <1>2 DEF Cycle
  <1>5. CASE Branch(p) \in active
    BY <1>1, <1>2, <1>3, <1>4, <1>5
  <1>6. CASE Branch(p) \notin active
    BY <1>1, <1>2, <1>3, <1>4, <1>6 DEF Pending
  <1> QED BY <1>5, <1>6

LEMMA InsideNext ==
  ASSUME Typed, NEW p \in Pipelines, Inside(p), Cycle
  PROVE  /\ \A x \in active : x # End(p) =>
              /\ x + 1 \in active' /\ entryBB'[x + 1] = LoopOf(p) /\ x + 1 \in Stages(p)
              /\ lastBB'[x + 1] = lastBB[x]
         /\ \A s \in active' : \/ \E x \in active : x # End(p) /\ s = x + 1
                               \/ s = Begin(p) /\ Arrives(Back(p))
                               \/ s = After(p) /\ Arrives(Out(p))
         /\ Arrives(Back(p)) => Begin(p) \in active'
         /\ Arrives(Out(p)) => After(p) \in active' /\ entryBB'[After(p)] = ExitOf(p)
  <1>1. Placed /\ active \subseteq Stages(p) /\ \A s \in active : entryBB[s] = LoopOf(p)
    BY DEF Placed, Inside
  <1>2. ASSUME NEW x \in active, x # End(p)
        PROVE  /\ x + 1 \in active' /\ entryBB'[x + 1] = LoopOf(p) /\ x + 1 \in Stages(p)
               /\ lastBB'[x + 1] = lastBB[x]
    <2>1. x \in Stages(p) /\ Happens(Stay(p, x)) /\ Arrives(Stay(p, x))
      BY <1>1, <1>2, StayHappens DEF Runs
    <2>2. /\ Stay(p, x) \in Jumps(G) /\ Stay(p, x).target = x + 1 /\ Stay(p, x).kind = "stay"
          /\ ~Stay(p, x).leaves /\ Stay(p, x).dest = LoopOf(p) /\ Stay(p, x).at = x
          /\ Stay(p, x).src = LoopOf(p) /\ x + 1 \in Stages(p)
      BY <1>2, <2>1, StayIs
    <2>3. x + 1 \in active'
      BY <2>1, <2>2, ActiveNext
    <2>4. entryBB'[x + 1] = LoopOf(p)
      BY <1>1, <2>1, <2>2, EntryNextIs
    <2>5. lastBB'[x + 1] = lastBB[x]
      <3>1. lastBB'[x + 1] = LastBlock(Stay(p, x))
        BY <1>1, <2>1, <2>2, LastNextIs
      <3>2. LastBlock(Stay(p, x)) = Predecessor(x, LoopOf(p))
        BY <2>2 DEF LastBlock
      <3> QED BY <1>1, <3>1, <3>2 DEF Predecessor
    <2> QED BY <2>2, <2>3, <2>4, <2>5
  <1>3. ASSUME NEW s \in active'
        PROVE  \/ \E x \in active : x # End(p) /\ s = x + 1
               \/ s = Begin(p) /\ Arrives(Back(p))
               \/ s = After(p) /\ Arrives(Out(p))
    <2>1. PICK j \in Jumps(G) : Arrives(j) /\ j.target = s
      BY ActiveNext
    <2>2. G.pipe[j.at] = p /\ p # NoPipeline
      BY <2>1, InsideJumps, LoopFacts
    <2>3. /\ j.at \in Stages(p)
          /\ j = Back(p) \/ j = Out(p) \/ (j.at # End(p) /\ j = Stay(p, j.at))
      BY <2>2, LoopJumps
    <2>4. ASSUME j.at # End(p), j = Stay(p, j.at)
          PROVE  j.at \in active /\ s = j.at + 1
      BY <2>1, <2>3, <2>4, StayIs, StayHappens DEF Runs
    <2> QED BY <2>1, <2>3, <2>4, BackIs, OutIs
  <1>4. Arrives(Back(p)) => Begin(p) \in active'
    BY BackIs, ActiveNext
  <1>5. Arrives(Out(p)) => After(p) \in active' /\ entryBB'[After(p)] = ExitOf(p)
    BY <1>1, OutIs, ActiveNext, EntryNextIs
  <1> QED BY <1>2, <1>3, <1>4, <1>5

\* A new iteration runs the loop and comes from it.
LEMMA BackEnters ==
  ASSUME Typed, NEW p \in Pipelines, Inside(p), Cycle
  PROVE  /\ Happens(Back(p)) =>
              entryBB'[Begin(p)] = LoopOf(p) /\ lastBB'[Begin(p)] = LoopOf(p)
         /\ ~Happens(Back(p)) =>
              entryBB'[Begin(p)] = entryBB[Begin(p)] /\ lastBB'[Begin(p)] = lastBB[Begin(p)]
  <1>1. Placed /\ Begin(p) \in States(G) /\ p # NoPipeline /\ G.pipe[Begin(p)] = p
    BY PipeEnds, StageFacts, LoopFacts DEF Placed
  <1>2. ASSUME Happens(Back(p))
        PROVE  entryBB'[Begin(p)] = LoopOf(p) /\ lastBB'[Begin(p)] = LoopOf(p)
    <2>1. entryBB'[Begin(p)] = LoopOf(p)
      BY <1>1, <1>2, BackIs, EntryNextIs
    <2>2. lastBB'[Begin(p)] = LastBlock(Back(p))
      BY <1>1, <1>2, BackIs, LastNextIs
    <2> QED BY <2>1, <2>2, BackIs DEF LastBlock
  <1>3. ASSUME ~Happens(Back(p))
        PROVE  entryBB'[Begin(p)] = entryBB[Begin(p)] /\ lastBB'[Begin(p)] = lastBB[Begin(p)]
    <2>1. ASSUME NEW j \in Jumps(G), j.target = Begin(p)
          PROVE  ~Happens(j) /\ ~j.leaves
      <3>1. ~Happens(j)
        <4> SUFFICES ASSUME Happens(j) PROVE FALSE
          OBVIOUS
        <4>1. G.pipe[j.at] = p
          BY InsideJumps
        <4>2. G.pipe[Back(p).at] = p
          BY BackIs, PipeEnds, StageFacts
        <4>3. j = Back(p)
          BY <2>1, <4>1, <4>2, BackIs, SameTarget
        <4> QED BY <1>3, <4>3
      <3>2. ~j.leaves
        <4>1. CASE G.pipe[j.at] = NoPipeline
          BY <4>1, StraightJumps
        <4>2. CASE G.pipe[j.at] # NoPipeline
          BY <1>1, <2>1, <4>2, LoopJumps, BackIs, OutIs, StayIs, ExitFacts
        <4> QED BY <4>1, <4>2
      <3> QED BY <3>1, <3>2
    <2> QED BY <1>1, <2>1, BlocksKept
  <1> QED BY <1>2, <1>3
-----------------------------------------------------------------------------
(* Control goes from one place to another.                                 *)

\* Control has got into a set of blocks: what runs and what waits is of it.
Within(B) ==
  /\ \A s \in active : entryBB[s] \in B
  /\ \A p \in Pipelines : Pending(p) => LoopOf(p) \in B

(* Once a loop has been left, its pipeline drains or control is where it   *)
(* leads to.                                                               *)
LeftBehind(p) == \A B \in Beyond(G, LoopOf(p)) : Within(B)
WaysOut == \A p \in Pipelines : Way(p) \in outOfPipe =>
                                  (Inside(p) /\ Draining(p)) \/ LeftBehind(p)

PlaceInv == Typed /\ Placed /\ WaysOut

\* An exit is not taken while an iteration is still to come.
LEMMA LeavesDrained ==
  ASSUME PlaceInv, NEW p \in Pipelines, Inside(p), Arrives(Out(p))
  PROVE  Draining(p) /\ active = {End(p)}
  <1>1. /\ Typed /\ active \subseteq Stages(p) /\ active # {} /\ active \subseteq {End(p)}
        /\ Way(p) \in outOfPipe
    BY LoopArrives DEF PlaceInv, Inside
  <1>2. active = {End(p)}
    BY <1>1
  <1>3. ~Deciding(p)
    <2>1. End(p) \notin Begin(p) .. Branch(p)
      BY <1>1, LoopFacts
    <2> QED BY <1>2, <2>1 DEF Deciding, Front
  <1>4. ~Holding(p)
    <2> SUFFICES ASSUME Holding(p) PROVE FALSE
      OBVIOUS
    <2>1. Pending(p) /\ ~Draining(p) /\ (Lead(p) <= End(p) => Lead(p) \in active)
      BY DEF Holding, Draining
    <2>2. LeftBehind(p)
      BY <1>1, <2>1 DEF PlaceInv, WaysOut
    <2>3. ~RunOnce(G, LoopOf(p))
      BY <2>1, <2>2 DEF RunOnce, LeftBehind, Within
    <2>4. FollowClosely(G, p, LoopOf(p)) /\ LoopOf(p) \in Blocks(G)
      BY <1>1, <2>3, LoopFacts
    <2>5. /\ Wait(p) > 0 /\ Wait(p) \in Nat /\ waited[Branch(p)] <= Wait(p)
          /\ waited[Branch(p)] \in 0 .. MaxCount /\ MaxCount \in Nat
          /\ Branch(p) + 1 + Wait(p) = Begin(p) + G.II[p]
          /\ Begin(p) \in Nat /\ Branch(p) \in Nat /\ End(p) \in Nat /\ G.II[p] \in Nat
      BY <1>1, <2>1, WaitIs, LoopFacts DEF Pending
    <2>6. G.II[p] < End(p) - Begin(p)
      <3>1. G.II[p] <= (Branch(p) - Begin(p)) + 1 \/ G.II[p] < End(p) - Begin(p)
        BY <2>4 DEF FollowClosely, Begin, Branch, End
      <3> QED BY <2>5, <3>1
    <2>7. Lead(p) < End(p)
      BY <2>5, <2>6 DEF Lead
    <2>8. Lead(p) \in active /\ Lead(p) # End(p)
      BY <2>1, <2>5, <2>7 DEF Lead
    <2> QED BY <1>2, <2>8
  <1> QED BY <1>2, <1>3, <1>4 DEF Inside

\* The pipelines that are not run have nothing to wait for.
LEMMA OthersWaitNot ==
  ASSUME Typed, Cycle, NEW p \in Pipelines, ~Pending(p), active \cap Stages(p) = {}
  PROVE  ~Pending(p)'
  <1>1. Branch(p) \notin active
    BY PipeEnds
  <1> QED BY <1>1, PendingNext

LEMMA OutsideStep ==
  ASSUME PlaceInv, Outside, Cycle
  PROVE  Placed'
  <1>1. Typed /\ active \subseteq States(G) /\ \A s \in active : G.pipe[s] = NoPipeline
    BY DEF PlaceInv, Typed, TypeInv, Outside
  <1>2. ASSUME NEW p \in Pipelines PROVE ~Pending(p)'
    <2>1. active \cap Stages(p) = {}
      BY <1>1, StageFacts, LoopFacts
    <2> QED BY <1>1, <2>1, OthersWaitNot DEF Outside
  <1>3. \A p \in Pipelines' : ~Pending(p)'
    <2>1. Pipelines' = Pipelines
      BY <1>1, TypedNext, Steady
    <2> QED BY <1>2, <2>1
  <1>4. G' = G
    BY <1>1, TypedNext
  <1>5. CASE \A s \in active' : G.pipe[s] = NoPipeline
    <2>1. AtMostOne(active')
      <3>1. ASSUME NEW x \in active', NEW y \in active' PROVE x = y
        <4>1. PICK j \in Jumps(G) : Arrives(j) /\ j.target = x
          BY <1>1, ActiveNext
        <4>2. PICK k \in Jumps(G) : Arrives(k) /\ k.target = y
          BY <1>1, ActiveNext
        <4> QED BY <1>1, <4>1, <4>2, OutsideJumps
      <3> QED BY <3>1 DEF AtMostOne
    <2>2. AtMostOne(active)'
      BY <2>1 DEF AtMostOne
    <2>3. Outside'
      BY <1>3, <1>4, <1>5, <2>2 DEF Outside
    <2> QED BY <2>3 DEF Placed
  <1>6. ASSUME NEW t \in active', G.pipe[t] # NoPipeline PROVE Placed'
    <2>1. PICK j \in Jumps(G) : Arrives(j) /\ j.target = t
      BY <1>1, ActiveNext
    <2>2. Happens(j) /\ G.pipe[j.at] = NoPipeline
      BY <1>1, <2>1, OutsideJumps
    <2>3. PICK q \in Pipelines : t \in States(G) /\ t \in Stages(q)
      BY <1>1, <1>6, <2>1, <2>2, StraightJumps, StateIs
    <2>4. ~j.leaves /\ j.dest = LoopOf(q) /\ t = Begin(q)
      BY <1>1, <2>1, <2>2, <2>3, StraightJumps
    <2>5. entryBB'[t] = LoopOf(q)
      BY <1>1, <2>1, <2>2, <2>4, EntryNextIs DEF PlaceInv
    <2>6. ASSUME NEW s \in active' PROVE s = t
      <3>1. PICK k \in Jumps(G) : Arrives(k) /\ k.target = s
        BY <1>1, ActiveNext
      <3> QED BY <1>1, <2>1, <3>1, OutsideJumps
    <2>7. active' = {t}
      BY <2>6
    <2>8. /\ LoopOf(q)' = LoopOf(q) /\ Stages(q)' = Stages(q) /\ Begin(q)' = Begin(q)
          /\ Branch(q)' = Branch(q) /\ q \in Pipelines' /\ Pipelines' = Pipelines
      BY <1>1, <2>3, TypedNext, Steady
    <2>9. Front(q)' = {t}
      <3>1. t \in Begin(q) .. Branch(q)
        BY <1>1, <2>3, <2>4, LoopFacts
      <3>2. Front(q)' = active' \cap (Begin(q) .. Branch(q))
        BY <2>8 DEF Front
      <3> QED BY <2>7, <3>1, <3>2
    <2>10. Deciding(q)'
      BY <1>2, <2>3, <2>7, <2>9 DEF Deciding
    <2>11. Inside(q)'
      <3>1. active' \subseteq Stages(q)' /\ \A s \in active' : entryBB'[s] = LoopOf(q)'
        BY <2>3, <2>5, <2>7, <2>8
      <3>2. \A r \in Pipelines' \ {q} : ~Pending(r)'
        BY <1>3
      <3> QED BY <2>10, <3>1, <3>2 DEF Inside
    <2> QED BY <2>8, <2>11 DEF Placed
  <1> QED BY <1>5, <1>6

\* What the edge does to the first part of the pipeline.
LEMMA FrontNext ==
  ASSUME Typed, NEW p \in Pipelines, Inside(p), Cycle, ~Arrives(Out(p))
  PROVE  /\ active' \subseteq Stages(p) /\ Front(p)' = active' \cap (Begin(p) .. Branch(p))
         /\ \A s \in active' : s \in Front(p)' =>
              \/ \E x \in Front(p) : x # Branch(p) /\ s = x + 1
              \/ s = Begin(p) /\ Arrives(Back(p))
         /\ \A x \in Front(p) : x # Branch(p) => x + 1 \in Front(p)'
         /\ Arrives(Back(p)) => Begin(p) \in Front(p)'
  <1>1. /\ Begin(p) \in Nat /\ Branch(p) \in Nat /\ End(p) \in Nat
        /\ Begin(p) <= Branch(p) /\ Branch(p) < End(p)
        /\ active \subseteq Stages(p) /\ Begin(p) \in Stages(p)
    BY LoopFacts, PipeEnds DEF Inside
  <1>2. Front(p)' = active' \cap (Begin(p) .. Branch(p))
    BY TypedNext, Steady DEF Front
  <1>3. active' \subseteq Stages(p)
    BY <1>1, InsideNext
  <1>4. ASSUME NEW s \in active', s \in Front(p)'
        PROVE  \/ \E x \in Front(p) : x # Branch(p) /\ s = x + 1
               \/ s = Begin(p) /\ Arrives(Back(p))
    <2>1. s \in Begin(p) .. Branch(p)
      BY <1>2, <1>4
    <2> SUFFICES ASSUME NEW x \in active, s = x + 1
                 PROVE  x \in Front(p) /\ x # Branch(p)
      BY InsideNext
    <2>2. x \in Nat /\ Begin(p) <= x
      BY <1>1 DEF Stages
    <2> QED BY <1>1, <2>1, <2>2 DEF Front
  <1>5. ASSUME NEW x \in Front(p), x # Branch(p) PROVE x + 1 \in Front(p)'
    <2>1. x \in active /\ x \in Begin(p) .. Branch(p) /\ x # End(p)
      BY <1>1, <1>5 DEF Front
    <2>2. x + 1 \in active' /\ x + 1 \in Begin(p) .. Branch(p)
      BY <1>1, <1>5, <2>1, InsideNext
    <2> QED BY <1>2, <2>2
  <1>6. Arrives(Back(p)) => Begin(p) \in Front(p)'
    BY <1>1, <1>2, InsideNext
  <1> QED BY <1>2, <1>3, <1>4, <1>5, <1>6

LEMMA DecidingStep ==
  ASSUME PlaceInv, NEW p \in Pipelines, Inside(p), Cycle, ~Arrives(Out(p)), Deciding(p)
  PROVE  Deciding(p)' \/ Holding(p)' \/ Draining(p)'
  <1>1. /\ Typed /\ ~Pending(p) /\ Wait(p) \in Nat
        /\ \A s \in active : s \in Stages(p) /\ entryBB[s] = LoopOf(p)
    BY WaitIs DEF PlaceInv, Deciding, Inside
  <1>2. PICK x \in active : Front(p) = {x}
    BY DEF Deciding
  <1>3. Front(p)' \subseteq active'
    BY DEF Front
  <1>4. CASE x # Branch(p)
    <2>1. Branch(p) \notin active
      <3>1. Branch(p) \in Begin(p) .. Branch(p)
        BY <1>1, LoopFacts
      <3> QED BY <1>2, <1>4, <3>1 DEF Front
    <2>2. ~Pending(p)'
      BY <1>1, <2>1, PendingNext
    <2>3. ~Arrives(Back(p))
      BY <1>1, <2>1, LoopArrives, LoopHappens DEF Runs
    <2>4. Front(p)' = {x + 1}
      BY <1>1, <1>2, <1>3, <1>4, <2>3, FrontNext
    <2> QED BY <1>3, <2>2, <2>4 DEF Deciding
  <1>5. CASE x = Branch(p)
    <2>1. Branch(p) \in active /\ Runs(p, Branch(p)) /\ Branch(p) # End(p)
      BY <1>1, <1>2, <1>5, LoopFacts DEF Runs
    <2>2. Branch(p) + 1 \in active'
      BY <1>1, <2>1, InsideNext
    <2>3. \A s \in Front(p)' : s = Begin(p) /\ Arrives(Back(p))
      BY <1>1, <1>2, <1>3, <1>5, FrontNext
    <2>4. CASE Happens(Back(p)) /\ Wait(p) = 0
      <3>1. Arrives(Back(p)) /\ ~Pending(p)'
        BY <1>1, <2>1, <2>4, LoopArrives, PendingNext
      <3>2. Front(p)' = {Begin(p)}
        BY <1>1, <2>3, <3>1, FrontNext
      <3> QED BY <1>3, <3>1, <3>2 DEF Deciding
    <2>5. CASE Happens(Back(p)) /\ Wait(p) > 0
      <3>1. ~Arrives(Back(p)) /\ Pending(p)' /\ waited'[Branch(p)] = 0
        BY <1>1, <2>1, <2>5, LoopArrives, PendingNext
      <3>2. Front(p)' = {}
        BY <2>3, <3>1
      <3>3. /\ LoopOf(p)' = LoopOf(p) /\ Begin(p)' = Begin(p) /\ Branch(p)' = Branch(p)
            /\ Branch(p) \in Nat
        BY <1>1, TypedNext, Steady, LoopFacts
      <3>4. entryBB'[Begin(p)'] = LoopOf(p)' /\ lastBB'[Begin(p)'] = LoopOf(p)'
        BY <1>1, <2>5, <3>3, BackEnters
      <3>5. Lead(p)' = Branch(p) + 1
        BY <3>1, <3>3 DEF Lead
      <3> QED BY <2>2, <3>1, <3>2, <3>4, <3>5 DEF Holding
    <2>6. CASE ~Happens(Back(p))
      <3>1. Happens(Out(p))
        BY <1>1, <2>1, <2>6, LoopHappens
      <3>2. ~Arrives(Back(p)) /\ ~Pending(p)'
        BY <1>1, <2>1, <2>6, LoopArrives, PendingNext
      <3>3. Front(p)' = {}
        BY <2>3, <3>2
      <3>4. Way(p)' \in outOfPipe'
        <4>1. <<Out(p).at, Out(p).target>> \in outOfPipe'
          BY <1>1, <3>1, OutIs, Scheduled DEF Cycle
        <4>2. Way(p)' = <<Out(p).at, Out(p).target>>
          BY <1>1, TypedNext, Steady, OutIs DEF Way
        <4> QED BY <4>1, <4>2
      <3> QED BY <2>2, <3>2, <3>3, <3>4 DEF Draining
    <2> QED BY <1>1, <2>4, <2>5, <2>6
  <1> QED BY <1>4, <1>5

LEMMA HoldingStep ==
  ASSUME PlaceInv, NEW p \in Pipelines, Inside(p), Cycle, ~Arrives(Out(p)), Holding(p)
  PROVE  Deciding(p)' \/ Holding(p)'
  <1>1. /\ Typed /\ Pending(p) /\ Front(p) = {} /\ Wait(p) \in Nat /\ Wait(p) > 0
        /\ waited[Branch(p)] \in Nat /\ waited[Branch(p)] <= Wait(p)
    BY WaitIs DEF PlaceInv, Holding, Pending
  <1>2. Branch(p) \notin active
    <2>1. Branch(p) \in Begin(p) .. Branch(p)
      BY <1>1, LoopFacts
    <2> QED BY <1>1, <2>1 DEF Front
  <1>3. Front(p)' \subseteq active' /\ \A s \in Front(p)' : s = Begin(p) /\ Arrives(Back(p))
    <2>1. Front(p)' \subseteq active'
      BY DEF Front
    <2> QED BY <1>1, <2>1, FrontNext
  <1>4. CASE waited[Branch(p)] = Wait(p)
    <2>1. Arrives(Back(p)) /\ ~Pending(p)'
      BY <1>1, <1>2, <1>4, LoopArrives, PendingNext
    <2>2. Front(p)' = {Begin(p)}
      BY <1>1, <1>3, <2>1, FrontNext
    <2> QED BY <1>3, <2>1, <2>2 DEF Deciding
  <1>5. CASE waited[Branch(p)] < Wait(p)
    <2>1. ~Arrives(Back(p)) /\ Pending(p)' /\ waited'[Branch(p)] = waited[Branch(p)] + 1
      BY <1>1, <1>2, <1>5, LoopArrives, PendingNext
    <2>2. Front(p)' = {}
      BY <1>3, <2>1
    <2>3. /\ LoopOf(p)' = LoopOf(p) /\ Begin(p)' = Begin(p) /\ Branch(p)' = Branch(p)
          /\ End(p)' = End(p) /\ Branch(p) \in Nat /\ End(p) \in Nat
      BY <1>1, TypedNext, Steady, LoopFacts
    <2>4. entryBB'[Begin(p)'] = LoopOf(p)' /\ lastBB'[Begin(p)'] = LoopOf(p)'
      <3>1. ~Happens(Back(p))
        BY <1>1, <1>2, LoopHappens DEF Runs
      <3> QED BY <1>1, <2>3, <3>1, BackEnters DEF Holding
    <2>5. Lead(p)' = Lead(p) + 1 /\ Lead(p) \in Nat
      <3>1. Lead(p)' = Branch(p) + 1 + (waited[Branch(p)] + 1)
        BY <2>1, <2>3 DEF Lead
      <3> QED BY <1>1, <2>3, <3>1 DEF Lead
    <2>6. Lead(p)' <= End(p)' => Lead(p)' \in active'
      <3> SUFFICES ASSUME Lead(p)' <= End(p)' PROVE Lead(p)' \in active'
        OBVIOUS
      <3>1. Lead(p) < End(p) /\ Lead(p) <= End(p) /\ Lead(p) # End(p)
        BY <2>3, <2>5
      <3>2. Lead(p) \in active
        BY <3>1 DEF Holding
      <3> QED BY <1>1, <2>5, <3>1, <3>2, InsideNext
    <2> QED BY <2>1, <2>2, <2>4, <2>6 DEF Holding
  <1> QED BY <1>1, <1>4, <1>5

LEMMA DrainingStep ==
  ASSUME PlaceInv, NEW p \in Pipelines, Inside(p), Cycle, ~Arrives(Out(p)), Draining(p)
  PROVE  Draining(p)'
  <1>1. /\ Typed /\ ~Pending(p) /\ Front(p) = {} /\ active # {} /\ Way(p) \in outOfPipe
        /\ active \subseteq Stages(p)
    BY DEF PlaceInv, Draining, Inside
  <1>2. Branch(p) \notin active
    <2>1. Branch(p) \in Begin(p) .. Branch(p)
      BY <1>1, LoopFacts
    <2> QED BY <1>1, <2>1 DEF Front
  <1>3. ~Pending(p)' /\ ~Arrives(Back(p))
    BY <1>1, <1>2, PendingNext, LoopArrives, LoopHappens DEF Runs
  <1>4. Front(p)' = {}
    <2>1. Front(p)' \subseteq active'
      BY DEF Front
    <2> QED BY <1>1, <1>3, <2>1, FrontNext
  <1>5. active' # {}
    <2>1. PICK x \in active : x # End(p)
      BY <1>1, LoopArrives
    <2> QED BY <1>1, <2>1, InsideNext
  <1>6. Way(p)' \in outOfPipe'
    <2>1. Way(p)' = Way(p) /\ outOfPipe \subseteq outOfPipe'
      BY <1>1, TypedNext, Steady DEF Cycle
    <2> QED BY <1>1, <2>1
  <1> QED BY <1>3, <1>4, <1>5, <1>6 DEF Draining

LEMMA InsideStep ==
  ASSUME PlaceInv, NEW p \in Pipelines, Inside(p), Cycle
  PROVE  /\ Arrives(Out(p)) => Outside' /\ active' = {After(p)}
         /\ ~Arrives(Out(p)) => Inside(p)'
         /\ Draining(p) /\ ~Arrives(Out(p)) => Draining(p)'
         /\ Branch(p) \in active => ~Arrives(Out(p))
         /\ Branch(p) \in active /\ Happens(Out(p)) => Draining(p)'
  <1>1. Typed /\ active \subseteq Stages(p) /\ \A q \in Pipelines \ {p} : ~Pending(q)
    BY DEF PlaceInv, Inside
  <1>2. Pipelines' = Pipelines /\ G' = G /\ p \in Pipelines'
    BY <1>1, TypedNext, Steady
  <1>3. ASSUME NEW q \in Pipelines \ {p} PROVE ~Pending(q)'
    <2>1. active \cap Stages(q) = {}
      BY <1>1, StageFacts
    <2> QED BY <1>1, <2>1, OthersWaitNot
  <1>4. ASSUME Arrives(Out(p)) PROVE Outside' /\ active' = {After(p)}
    <2>1. active = {End(p)} /\ ~Pending(p) /\ Front(p) = {}
      BY <1>4, LeavesDrained DEF Draining
    <2>2. Branch(p) \notin active
      BY <1>1, <2>1, LoopFacts
    <2>3. ~Pending(p)' /\ ~Arrives(Back(p))
      BY <1>1, <2>1, <2>2, PendingNext, LoopArrives, LoopHappens DEF Runs
    <2>4. active' = {After(p)}
      BY <1>1, <1>4, <2>1, <2>3, InsideNext
    <2>5. AtMostOne(active)'
      BY <2>4 DEF AtMostOne
    <2>6. \A q \in Pipelines' : ~Pending(q)'
      BY <1>2, <1>3, <2>3
    <2>7. \A s \in active' : G'.pipe[s] = NoPipeline
      BY <1>1, <1>2, <2>4, ExitFacts
    <2> QED BY <2>4, <2>5, <2>6, <2>7 DEF Outside
  <1>5. ASSUME ~Arrives(Out(p)) PROVE Inside(p)'
    <2>1. Stages(p)' = Stages(p) /\ LoopOf(p)' = LoopOf(p) /\ Begin(p) \in Stages(p)
      BY <1>1, TypedNext, Steady, PipeEnds
    <2>2. active' \subseteq Stages(p)'
      BY <1>1, <1>5, <2>1, FrontNext
    <2>3. ASSUME NEW s \in active' PROVE entryBB'[s] = LoopOf(p)'
      <3>1. CASE \E x \in active : x # End(p) /\ s = x + 1
        BY <1>1, <2>1, <3>1, InsideNext
      <3>2. CASE s = Begin(p) /\ Arrives(Back(p))
        <4>1. CASE Wait(p) = 0
          BY <1>1, <2>1, <3>2, <4>1, LoopArrives, BackEnters
        <4>2. CASE Wait(p) > 0
          <5>1. Pending(p)
            BY <1>1, <3>2, <4>2, LoopArrives
          <5>2. entryBB[Begin(p)] = LoopOf(p)
            BY <5>1 DEF Inside, Deciding, Holding, Draining
          <5> QED BY <1>1, <2>1, <3>2, <5>2, BackEnters
        <4> QED BY <1>1, <4>1, <4>2, WaitIs
      <3> QED BY <1>1, <1>5, <3>1, <3>2, InsideNext
    <2>4. Deciding(p)' \/ Holding(p)' \/ Draining(p)'
      BY <1>5, DecidingStep, HoldingStep, DrainingStep DEF Inside
    <2>5. \A q \in Pipelines' \ {p} : ~Pending(q)'
      BY <1>2, <1>3
    <2> QED BY <2>2, <2>3, <2>4, <2>5 DEF Inside
  <1>6. ASSUME Branch(p) \in active PROVE ~Arrives(Out(p))
    <2>1. active # {End(p)}
      BY <1>1, <1>6, LoopFacts
    <2> QED BY <2>1, LeavesDrained
  <1>7. ASSUME Branch(p) \in active, Happens(Out(p)) PROVE Draining(p)'
    <2>1. ~Happens(Back(p))
      BY <1>1, <1>7, LoopHappens, LoopChooses
    <2>2. ~Pending(p)'
      BY <1>1, <1>7, <2>1, PendingNext
    <2>3. Branch(p) \in Front(p)
      BY <1>1, <1>7, LoopFacts DEF Front
    <2>4. Deciding(p)
      BY <2>3 DEF Inside, Holding, Draining
    <2>5. Front(p) = {Branch(p)}
      BY <2>3, <2>4 DEF Deciding
    <2>6. ~Arrives(Back(p))
      BY <1>1, <2>1, <2>4, LoopArrives DEF Deciding
    <2>7. Front(p)' = {}
      <3>1. Front(p)' \subseteq active'
        BY DEF Front
      <3> QED BY <1>1, <1>6, <1>7, <2>5, <2>6, <3>1, FrontNext
    <2> QED BY <1>5, <1>6, <1>7, <2>2, <2>7 DEF Inside, Deciding, Holding
  <1> QED BY <1>4, <1>5, <1>6, <1>7, DrainingStep

\* Control stays in a set of blocks that no edge leaves.
LEMMA ChainWithin ==
  ASSUME Typed, NEW s, Straight(s), NEW B \in SUBSET Blocks(G),
         \A c, d \in Blocks(G) : c \in B /\ Edge(G, c, d) => d \in B,
         entryBB[s] \in B, NEW b, BlockActive(s, b)
  PROVE  b \in B
  <1>1. /\ Depth \in Nat /\ Settled[0] = Entered /\ bbActive = Settled[Depth]
        /\ s \in active /\ TypeInv
        /\ \A n \in 1 .. Depth : Settled[n] = Spread(Settled[n - 1])
    BY SettledSteps, DesignFacts DEF Typed, TypeInv, ActiveWires, Depth, BlockActive
  <1> DEFINE Strays == {n \in Nat : n <= Depth /\ \E c : <<s, c>> \in Settled[n] /\ c \notin B}
  <1>2. Strays = {}
    <2> SUFFICES ASSUME Strays # {} PROVE FALSE
      OBVIOUS
    <2>1. Strays \in SUBSET Nat
      OBVIOUS
    <2>2. PICK n \in Strays : \A k \in Strays : n <= k
      BY <2>1, LeastOf
    <2>3. PICK c : <<s, c>> \in Settled[n] /\ c \notin B
      BY <2>2
    <2>4. n \in Nat /\ n <= Depth
      BY <2>2
    <2>5. n # 0
      BY <1>1, <2>3 DEF Entered
    <2>6. n \in 1 .. Depth /\ n - 1 \in Nat /\ n - 1 <= Depth /\ ~(n <= n - 1)
      BY <1>1, <2>4, <2>5
    <2>7. \A d : <<s, d>> \in Settled[n - 1] => d \in B
      <3>1. n - 1 \notin Strays
        <4> HIDE DEF Strays
        <4> QED BY <2>2, <2>6
      <3> QED BY <2>6, <3>1
    <2>8. <<s, c>> \in Spread(Settled[n - 1])
      BY <1>1, <2>3, <2>6
    <2>9. PICK e \in design.inState[s] : Onward(e, Settled[n - 1]) /\ c = e[2]
      BY <2>3, <2>7, <2>8 DEF Spread
    <2>10. <<s, e[1]>> \in Settled[n - 1]
      BY <1>1, <2>9, OnwardInside
    <2>11. e[1] \in Blocks(G) /\ e[2] \in Blocks(G) /\ Edge(G, e[1], e[2])
      BY <1>1, InsideEdge, Scheduled DEF Constrained, Forward
    <2> QED BY <2>3, <2>7, <2>9, <2>10, <2>11
  <1>3. <<s, b>> \in Settled[Depth]
    BY <1>1 DEF BlockActive
  <1> HIDE DEF Strays
  <1>4. b \notin B => Depth \in Strays
    BY <1>1, <1>3 DEF Strays
  <1> QED BY <1>2, <1>4

LEMMA WithinNext ==
  ASSUME PlaceInv, Cycle, NEW B \in SUBSET Blocks(G),
         \A c, d \in Blocks(G) : c \in B /\ Edge(G, c, d) => d \in B,
         Within(B)
  PROVE  Within(B)'
  <1>1. /\ Typed /\ Placed /\ Pipelines' = Pipelines
        /\ \A p \in Pipelines : LoopOf(p)' = LoopOf(p)
    BY TypedNext, Steady DEF PlaceInv
  <1>2. CASE Outside
    <2>1. ASSUME NEW s \in active' PROVE entryBB'[s] \in B
      <3>1. PICK j \in Jumps(G) : Arrives(j) /\ j.target = s
        BY <1>1, ActiveNext
      <3>2. Happens(j) /\ j.at \in active /\ Straight(j.at) /\ G.pipe[j.at] = NoPipeline
        BY <1>1, <1>2, <3>1, OutsideJumps
      <3>3. entryBB'[s] = j.dest
        BY <1>1, <3>1, <3>2, StraightJumps, EntryNextIs
      <3>4. j.src \in B
        BY <1>1, <3>2, HappensAt, ChainWithin DEF Within
      <3>5. j.dest = j.src \/ Edge(G, j.src, j.dest)
        <4>1. j.kind = "branch" => Edge(G, j.src, j.dest)
          BY JumpShape DEF OutOfStateTransitions, AllTransitions
        <4> QED BY <4>1, JumpShape
      <3>6. j.src \in Blocks(G) /\ j.dest \in Blocks(G)
        BY <1>1, Scheduled, JumpTypes
      <3> QED BY <3>3, <3>4, <3>5, <3>6
    <2>2. ASSUME NEW p \in Pipelines PROVE ~Pending(p)'
      <3>1. active \cap Stages(p) = {} /\ ~Pending(p)
        BY <1>1, <1>2, StageFacts, LoopFacts DEF Outside
      <3> QED BY <1>1, <3>1, OthersWaitNot
    <2> QED BY <1>1, <2>1, <2>2 DEF Within
  <1>3. ASSUME NEW p \in Pipelines, Inside(p) PROVE Within(B)'
    <2>1. LoopOf(p) \in B
      <3>1. active # {} \/ Pending(p)
        BY <1>3 DEF Inside, Deciding, Holding, Draining
      <3> QED BY <1>3, <3>1 DEF Inside, Within
    <2>2. CASE Arrives(Out(p))
      <3>1. Outside' /\ active' = {After(p)}
        BY <1>3, <2>2, InsideStep
      <3>2. entryBB'[After(p)] = ExitOf(p) /\ ExitOf(p) \in B
        BY <1>1, <1>3, <2>1, <2>2, InsideNext, ExitFacts, LoopFacts
      <3> QED BY <3>1, <3>2 DEF Within, Outside
    <2>3. CASE ~Arrives(Out(p))
      <3>1. Inside(p)'
        BY <1>3, <2>3, InsideStep
      <3> QED BY <1>1, <2>1, <3>1 DEF Within, Inside
    <2> QED BY <2>2, <2>3
  <1> QED BY <1>1, <1>2, <1>3 DEF Placed

LEMMA WaysOutNext ==
  ASSUME PlaceInv, Cycle
  PROVE  WaysOut'
  <1>1. Typed /\ Placed /\ Pipelines' = Pipelines /\ G' = G
    BY TypedNext, Steady DEF PlaceInv
  <1> SUFFICES ASSUME NEW p \in Pipelines, Way(p)' \in outOfPipe'
               PROVE  (Inside(p)' /\ Draining(p)') \/ LeftBehind(p)'
    BY <1>1 DEF WaysOut
  <1>2. Way(p)' = Way(p) /\ LoopOf(p)' = LoopOf(p)
    BY <1>1, TypedNext, Steady
  <1>3. CASE Way(p) \in outOfPipe /\ Inside(p) /\ Draining(p)
    <2>1. CASE Arrives(Out(p))
      <3>1. Outside' /\ active' = {After(p)} /\ entryBB'[After(p)] = ExitOf(p)
        BY <1>1, <1>3, <2>1, InsideStep, InsideNext
      <3>2. ASSUME NEW B \in Beyond(G, LoopOf(p)) PROVE Within(B)'
        <4>1. ExitOf(p) \in B
          BY <1>1, ExitFacts DEF Beyond
        <4> QED BY <3>1, <4>1 DEF Within, Outside
      <3> QED BY <1>1, <1>2, <3>2 DEF LeftBehind
    <2>2. CASE ~Arrives(Out(p))
      BY <1>3, <2>2, InsideStep
    <2> QED BY <2>1, <2>2
  <1>4. CASE LeftBehind(p)
    <2>1. ASSUME NEW B \in Beyond(G, LoopOf(p)) PROVE Within(B)'
      <3>1. /\ B \in SUBSET Blocks(G)
            /\ \A c, d \in Blocks(G) : c \in B /\ Edge(G, c, d) => d \in B
        BY DEF Beyond
      <3>2. Within(B)
        BY <1>4 DEF LeftBehind
      <3> QED BY <3>1, <3>2, WithinNext
    <2> QED BY <1>1, <1>2, <2>1 DEF LeftBehind
  <1>5. CASE Way(p) \notin outOfPipe
    <2>1. PICK k \in Jumps(G) : k.leaves /\ Happens(k) /\ Way(p) = <<k.at, k.target>>
      BY <1>1, <1>2, <1>5, Scheduled DEF Cycle
    <2>2. k.at = Branch(p)
      BY <2>1 DEF Way
    <2>3. G.pipe[k.at] = p /\ p # NoPipeline
      BY <1>1, <2>2, PipeEnds, StageFacts, LoopFacts
    <2>4. k = Out(p)
      BY <1>1, <2>1, <2>3, LoopJumps, BackIs, StayIs
    <2>5. Branch(p) \in active
      BY <1>1, <2>1, <2>2, HappensAt
    <2>6. Inside(p)
      <3>1. ~Outside
        BY <2>2, <2>3, <2>5 DEF Outside
      <3>2. PICK q \in Pipelines : Inside(q)
        BY <1>1, <3>1 DEF Placed
      <3>3. q = p
        BY <1>1, <2>2, <2>3, <2>5, <3>2, StageFacts DEF Inside
      <3> QED BY <3>2, <3>3
    <2> QED BY <2>1, <2>4, <2>5, <2>6, InsideStep
  <1> QED BY <1>3, <1>4, <1>5 DEF PlaceInv, WaysOut

LEMMA PlaceFirst ==
  ASSUME Init, \A g \in Functions : PipelinedLoops(g)
  PROVE  PlaceInv /\ active # {} /\ \A s \in active : G.pipe[s] = NoPipeline
  <1>1. Typed
    BY TypeInvAtFirst, DesignFacts DEF Typed, TypeInv
  <1>2. active = {G.first[Entry]}
    <2>1. \A t : StartState(G, t) = G.first[Entry]
      <3>1. ASSUME NEW t PROVE {j \in Jumps(G) : /\ j.kind = "branch" /\ j.outOfTask
                                                 /\ G.task[j.dest] = t} = {}
        BY <1>1, OneTask
      <3> QED BY <3>1 DEF StartState
    <2>2. active = {StartState(G, G.task[b]) : b \in Blocks(G)} /\ Entry \in Blocks(G)
      BY <1>1, DesignFacts, Scheduled DEF Init, IsScheduled
    <2> QED BY <2>1, <2>2
  <1>3. G.pipe[G.first[Entry]] = NoPipeline
    <2> SUFFICES ASSUME G.pipe[G.first[Entry]] # NoPipeline PROVE FALSE
      OBVIOUS
    <2>1. Entry \in Blocks(G) /\ G.first[Entry] \in States(G)
      BY <1>1, Scheduled DEF IsScheduled
    <2>2. PICK p \in Pipelines : G.first[Entry] \in Stages(p)
      BY <1>1, <2>1, StateIs
    <2>3. Entry = LoopOf(p)
      BY <1>1, <2>1, <2>2, Scheduled, StageFacts
    <2>4. Edge(G, Entry, Entry)
      BY <1>1, <2>3, ExitFacts
    <2> QED BY <1>1, <2>1, <2>4, Scheduled DEF Constrained, EntryFirst
  <1>4. Outside
    BY <1>2, <1>3 DEF Outside, AtMostOne, Pending, Init
  <1>5. WaysOut
    BY DEF WaysOut, Init
  <1> QED BY <1>1, <1>2, <1>3, <1>4, <1>5 DEF PlaceInv, Placed

LEMMA PlaceStep ==
  ASSUME PlaceInv, Cycle
  PROVE  PlaceInv'
  <1>1. Typed' /\ Pipelines' = Pipelines
    BY TypedNext, Steady DEF PlaceInv
  <1>2. ASSUME NEW p \in Pipelines, Inside(p) PROVE Placed'
    <2>1. Outside' \/ Inside(p)'
      BY <1>2, InsideStep
    <2> QED BY <1>1, <2>1 DEF Placed
  <1>3. Placed'
    BY <1>2, OutsideStep DEF PlaceInv, Placed
  <1> QED BY <1>1, <1>3, WaysOutNext DEF PlaceInv

LEMMA PlaceStutter ==
  ASSUME PlaceInv, UNCHANGED vars
  PROVE  PlaceInv'
  <1>1. /\ G' = G /\ Pipelines' = Pipelines /\ active' = active /\ entryBB' = entryBB
        /\ lastBB' = lastBB /\ outOfPipe' = outOfPipe /\ stored' = stored /\ waited' = waited
        /\ UNCHANGED design
    BY Steady DEF vars, registers
  <1>2. TypeInv'
    <2>1. bbActive' = bbActive /\ ActiveWires' = ActiveWires
      BY DEF vars, registers, wires, ActiveWires, Settled, Spread, Entered, Onward, Chosen, G
    <2> QED BY <2>1 DEF PlaceInv, Typed, TypeInv, vars, registers, wires, G, Conditional
  <1>3. Typed'
    BY <1>1, <1>2 DEF PlaceInv, Typed
  <1>4. ASSUME NEW p PROVE Pending(p)' = Pending(p) /\ Front(p)' = Front(p) /\ Lead(p)' = Lead(p)
    BY <1>1, Steady DEF Pending, Front, Lead
  <1>5. ASSUME NEW p
        PROVE  Deciding(p)' = Deciding(p) /\ Holding(p)' = Holding(p) /\ Draining(p)' = Draining(p)
    BY <1>1, <1>4, Steady DEF Deciding, Holding, Draining
  <1>6. ASSUME NEW p PROVE Inside(p)' = Inside(p)
    BY <1>1, <1>4, <1>5, Steady DEF Inside
  <1>7. Outside' = Outside
    BY <1>1, <1>4 DEF Outside, AtMostOne
  <1>8. Placed'
    BY <1>1, <1>6, <1>7 DEF Placed, PlaceInv
  <1>9. ASSUME NEW B PROVE Within(B)' = Within(B)
    BY <1>1, <1>4, Steady DEF Within
  <1>10. ASSUME NEW p PROVE LeftBehind(p)' = LeftBehind(p)
    BY <1>1, <1>9, Steady DEF LeftBehind
  <1>11. WaysOut'
    BY <1>1, <1>5, <1>6, <1>10, Steady DEF WaysOut, PlaceInv
  <1> QED BY <1>3, <1>8, <1>11 DEF PlaceInv
=============================================================================
