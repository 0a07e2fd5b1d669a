------------------------ MODULE ControlPipelinedProof ------------------------
(***************************************************************************)
(* Theorems about the control path of functions with pipelined loops, for  *)
(* every set of scheduled functions whose pipelines are single loops.      *)
(***************************************************************************)
EXTENDS ControlPipelined, ControlProof

-----------------------------------------------------------------------------
(* The iterations in a pipeline.                                           *)

LEMMA PlacedAlone ==
  ASSUME Typed, Placed
  PROVE  PipelineAlone
  <1> SUFFICES ASSUME NEW p \in Pipelines, InPipe(p)
               PROVE  active \subseteq design.pipes[p].states
    BY DEF PipelineAlone
  <1>1. PICK s \in active : s \in Stages(p)
    BY LoopFacts DEF InPipe
  <1>2. ~Outside
    BY <1>1, StageFacts, LoopFacts DEF Outside
  <1>3. PICK q \in Pipelines : Inside(q)
    BY <1>2 DEF Placed
  <1>4. q = p
    BY <1>1, <1>3, StageFacts DEF Inside
  <1> QED BY <1>3, <1>4, LoopFacts DEF Inside

\* The branches that bring control into a state of a pipeline.
LEMMA JumpingInside ==
  ASSUME Typed, NEW p \in Pipelines, Inside(p), NEW s \in Stages(p)
  PROVE  /\ s # Begin(p) => Jumping(s) = {}
         /\ s = Begin(p) /\ Arrives(Back(p)) => Jumping(s) = {Back(p)}
  <1>1. ASSUME NEW j \in Jumping(s) PROVE j = Back(p) /\ s = Begin(p)
    <2>1. j \in Jumps(G) /\ j.kind = "branch" /\ j.target = s /\ Arrives(j)
      BY Scheduled DEF Jumping
    <2>2. G.pipe[j.at] = p /\ p # NoPipeline
      BY <2>1, InsideJumps, LoopFacts
    <2>3. j = Back(p) \/ j = Out(p) \/ (j.at # End(p) /\ j.at \in Stages(p) /\ j = Stay(p, j.at))
      BY <2>1, <2>2, LoopJumps
    <2>4. j # Out(p)
      BY <2>1, OutIs, ExitFacts, StageFacts, <2>2
    <2>5. ASSUME j.at # End(p), j.at \in Stages(p), j = Stay(p, j.at) PROVE FALSE
      BY <2>1, <2>5, StayIs
    <2>6. j = Back(p)
      BY <2>3, <2>4, <2>5
    <2> QED BY <2>1, <2>6, BackIs
  <1>2. ASSUME s = Begin(p), Arrives(Back(p)) PROVE Back(p) \in Jumping(s)
    BY <1>2, BackIs, Scheduled DEF Jumping
  <1> QED BY <1>1, <1>2

\* Control enters a pipeline from outside by one jump to its first state.
LEMMA EntersFirst ==
  ASSUME Typed, Outside, Cycle, NEW p \in Pipelines, NEW s \in Stages(p), s \in active'
  PROVE  /\ s = Begin(p)
         /\ \E j \in Jumps(G) : /\ Happens(j) /\ Arrives(j) /\ ~j.leaves /\ j.kind = "branch"
                                /\ j.dest = LoopOf(p) /\ j.target = Begin(p)
                                /\ j.sets = {Begin(p)} /\ G.pipe[j.at] = NoPipeline
                                /\ Jumping(s) = {j}
  <1>1. PICK j \in Jumps(G) : Arrives(j) /\ j.target = s
    BY ActiveNext
  <1>2. /\ Happens(j) /\ G.pipe[j.at] = NoPipeline
        /\ \A k \in Jumps(G) : Arrives(k) \/ Happens(k) => j = k
    BY <1>1, OutsideJumps
  <1>3. /\ j.kind = "branch" /\ j.dest = LoopOf(p) /\ j.target = Begin(p)
        /\ ~j.leaves /\ j.sets = {j.target}
    BY <1>1, <1>2, StraightJumps
  <1>4. Jumping(s) = {j}
    BY <1>1, <1>2, <1>3, Scheduled DEF Jumping
  <1> QED BY <1>1, <1>2, <1>3, <1>4

LEMMA PipelinedIs ==
  ASSUME Typed, NEW s
  PROVE  s \in Pipelined <=> \E p \in Pipelines : s \in Stages(p)
  <1>1. ASSUME s \in Pipelined PROVE \E p \in Pipelines : s \in Stages(p)
    BY <1>1, StateIs DEF Pipelined
  <1>2. ASSUME NEW p \in Pipelines, s \in Stages(p) PROVE s \in Pipelined
    BY <1>2, StageFacts, LoopFacts DEF Pipelined
  <1> QED BY <1>1, <1>2

\* A new iteration that was held comes from the loop, too.
LEMMA BackComes ==
  ASSUME Typed, NEW p \in Pipelines, Inside(p), Cycle, Arrives(Back(p))
  PROVE  lastBB'[Begin(p)] = LoopOf(p)
  <1>1. CASE Happens(Back(p))
    BY <1>1, BackEnters
  <1>2. CASE ~Happens(Back(p))
    <2>1. Pending(p)
      BY <1>2, LoopArrives
    <2>2. Holding(p)
      BY <2>1 DEF Inside, Deciding, Draining
    <2> QED BY <1>2, <2>2, BackEnters DEF Holding
  <1> QED BY <1>1, <1>2

LEMMA PhisStep ==
  ASSUME PlaceInv, PhisSeeTheirIteration, PipelinedCycle
  PROVE  PhisSeeTheirIteration'
  <1>1. Typed /\ Placed /\ Cycle /\ Pipelined' = Pipelined
    <2>1. Typed /\ Placed /\ Cycle
      BY DEF PlaceInv, PipelinedCycle
    <2> QED BY <2>1, TypedNext DEF Pipelined
  <1> SUFFICES ASSUME NEW s \in Pipelined, s \in active'
               PROVE  lastBB'[s] = origin'[s]
    BY <1>1 DEF PhisSeeTheirIteration
  <1>2. PICK p \in Pipelines : s \in Stages(p)
    BY <1>1, PipelinedIs
  <1>3. origin'[s] = IF Jumping(s) # {} THEN (CHOOSE j \in Jumping(s) : TRUE).src
                     ELSE IF s - 1 \in Pipelined THEN Before(s - 1, entryBB'[s]) ELSE origin[s]
    BY DEF PipelinedCycle
  <1>4. ASSUME NEW j, Jumping(s) = {j} PROVE origin'[s] = j.src
    <2>1. (CHOOSE k \in Jumping(s) : TRUE) = j
      BY <1>4
    <2> QED BY <1>3, <1>4, <2>1
  <1>5. CASE Outside
    <2>1. PICK j \in Jumps(G) : /\ Happens(j) /\ j.kind = "branch" /\ j.target = Begin(p)
                                /\ Jumping(s) = {j} /\ s = Begin(p)
      BY <1>1, <1>2, <1>5, EntersFirst
    <2>2. lastBB'[s] = LastBlock(j)
      BY <1>1, <2>1, LastNextIs
    <2> QED BY <1>4, <2>1, <2>2 DEF LastBlock
  <1>6. ASSUME NEW q \in Pipelines, Inside(q) PROVE lastBB'[s] = origin'[s]
    <2>1. CASE \E x \in active : x # End(q) /\ s = x + 1
      <3>1. PICK x \in active : x # End(q) /\ s = x + 1
        BY <2>1
      <3>2. /\ x \in Stages(q) /\ x + 1 \in Stages(q) /\ entryBB[x] = LoopOf(q)
            /\ entryBB'[s] = LoopOf(q) /\ lastBB'[s] = lastBB[x]
        BY <1>1, <1>6, <3>1, InsideNext DEF Inside
      <3>3. x \in Nat /\ Begin(q) \in Nat /\ Begin(q) <= x /\ x + 1 # Begin(q)
        BY <1>1, <3>2, LoopFacts DEF Stages
      <3>4. Jumping(s) = {}
        BY <1>1, <1>6, <3>1, <3>2, <3>3, JumpingInside
      <3>5. s - 1 = x /\ x \in Pipelined
        BY <1>1, <3>1, <3>2, <3>3, PipelinedIs
      <3>6. origin'[s] = Before(x, LoopOf(q))
        BY <1>3, <3>2, <3>4, <3>5
      <3>7. origin'[s] = origin[x]
        BY <3>2, <3>6 DEF Before
      <3> QED BY <3>1, <3>2, <3>5, <3>7 DEF PhisSeeTheirIteration
    <2>2. CASE s = Begin(q) /\ Arrives(Back(q))
      <3>1. Jumping(s) = {Back(q)} /\ lastBB'[s] = LoopOf(q) /\ Back(q).src = LoopOf(q)
        BY <1>1, <1>6, <2>2, JumpingInside, BackComes, BackIs, PipeEnds
      <3> QED BY <1>4, <3>1
    <2>3. s # After(q)
      BY <1>1, <1>2, ExitFacts, StageFacts, LoopFacts
    <2> QED BY <1>1, <1>6, <2>1, <2>2, <2>3, InsideNext
  <1> QED BY <1>1, <1>5, <1>6 DEF Placed
\* Who is in a pipeline: control, if one of its stages is active.
LEMMA InsideIt ==
  ASSUME Typed, Placed, NEW p \in Pipelines, NEW x \in Stages(p), x \in active
  PROVE  Inside(p)
  <1>1. ~Outside
    BY StageFacts, LoopFacts DEF Outside
  <1>2. PICK q \in Pipelines : Inside(q)
    BY <1>1 DEF Placed
  <1>3. q = p
    BY <1>2, StageFacts DEF Inside
  <1> QED BY <1>2, <1>3

\* What the property of the steps says of one state.
Advances(s) ==
  /\ s # Starts(G.pipe[s]) /\ s \in active' => s - 1 \in active \/ Jumping(s) # {}
  /\ \A b \in Blocks(G) :
       BlockActive(s, b) /\ s < G.last[b] => s + 1 \in active' /\ entryBB'[s + 1] = b

LEMMA AdvanceStep ==
  ASSUME PlaceInv, Cycle, NEW s \in Pipelined
  PROVE  Advances(s)
  <1>1. Typed /\ Placed
    BY DEF PlaceInv
  <1>2. PICK p \in Pipelines : s \in Stages(p)
    BY <1>1, PipelinedIs
  <1>3. G.pipe[s] = p /\ Starts(p) = Begin(p) /\ s \in Nat
    BY <1>1, <1>2, StageFacts, PipeEnds
  <1>4. ASSUME s # Begin(p), s \in active' PROVE s - 1 \in active
    <2>1. ~Outside
      BY <1>1, <1>2, <1>4, EntersFirst
    <2>2. PICK q \in Pipelines : Inside(q)
      BY <1>1, <2>1 DEF Placed
    <2>3. s # After(q)
      BY <1>1, <1>2, ExitFacts, StageFacts, LoopFacts
    <2>4. s # Begin(q)
      BY <1>1, <1>2, <1>3, <1>4, PipeEnds, StageFacts
    <2>5. PICK x \in active : s = x + 1
      BY <1>1, <1>4, <2>2, <2>3, <2>4, InsideNext
    <2>6. x \in Nat
      BY <1>1, <2>2, LoopFacts, StageFacts DEF Inside
    <2> QED BY <2>5, <2>6
  <1>5. ASSUME NEW b \in Blocks(G), BlockActive(s, b), s < G.last[b]
        PROVE  s + 1 \in active' /\ entryBB'[s + 1] = b
    <2>1. s \in active /\ b = LoopOf(p) /\ s # End(p)
      BY <1>1, <1>2, <1>3, <1>5, StageRuns, LoopFacts DEF End
    <2>2. Inside(p)
      BY <1>1, <1>2, <2>1, InsideIt
    <2> QED BY <1>1, <2>1, <2>2, InsideNext
  <1> QED BY <1>3, <1>4, <1>5 DEF Advances
-----------------------------------------------------------------------------
(* How far apart they are.                                                 *)

Reached(n) == IF n < MaxAge THEN n ELSE MaxAge

\* The iteration in stage y was the last in all stages up to y.
Trail(p, y) == \A t \in Stages(p) : t <= y => age[t] = Reached(y - t)

\* What runs in x will get to no later stage too early.
Spaced(p) ==
  \A x \in active, t \in Stages(p) : x < t => G.II[p] <= age[t] + (t - x)

AgesIn(p) ==
  /\ Spaced(p) /\ \A x \in Front(p) : Trail(p, x)
  /\ Holding(p) => Trail(p, Lead(p))

Ages ==
  /\ age \in [Pipelined -> 0 .. MaxAge]
  /\ \A s \in Pipelined : s \in active => age[s] = 0
  /\ \A p \in Pipelines : Inside(p) => AgesIn(p)

LEMMA AgeBound ==
  ASSUME Typed, NEW p \in Pipelines
  PROVE  MaxAge \in Nat /\ G.II[p] \in Nat /\ 0 < G.II[p] /\ G.II[p] < MaxAge
  <1>1. p \in {G.pipe[s] : s \in States(G)} \ {NoPipeline}
    BY Scheduled DEF Pipelines, Elaborate
  <1>2. p \in DOMAIN G.II /\ G \in Functions
    BY <1>1, Scheduled DEF IsScheduled
  <1>3. G.II[p] \in Nat \ {0}
    BY LoopFacts
  <1>4. MaxAge \in Nat /\ G.II[p] < MaxAge
    BY <1>2, MaxAgeAssumption
  <1> QED BY <1>3, <1>4

LEMMA AgeAt ==
  ASSUME PlaceInv, Ages, PipelinedCycle, NEW p \in Pipelines, NEW t \in Stages(p)
  PROVE  /\ t \in Nat /\ age[t] \in Nat /\ age[t] <= MaxAge
         /\ age'[t] \in Nat /\ age'[t] <= MaxAge
         /\ t \in active => age[t] = 0
         /\ t \in active' => age'[t] = 0
         /\ t \notin active' /\ Entering(p) # {} => age'[t] = MaxAge
         /\ t \notin active' /\ Entering(p) = {} =>
              age'[t] = IF age[t] = MaxAge THEN MaxAge ELSE age[t] + 1
  <1>1. t \in Pipelined /\ G.pipe[t] = p /\ t \in Nat /\ MaxAge \in Nat
    BY PipelinedIs, StageFacts, MaxAgeAssumption DEF PlaceInv
  <1>2. /\ age[t] \in Nat /\ age[t] <= MaxAge
        /\ t \in active => age[t] = 0
    <2>1. age[t] \in 0 .. MaxAge
      BY <1>1 DEF Ages
    <2>2. t \in active => age[t] = 0
      BY <1>1 DEF Ages
    <2> QED BY <1>1, <2>1, <2>2
  <1>3. age'[t] = IF t \in active' THEN 0
                  ELSE IF Entering(p) # {} \/ age[t] = MaxAge THEN MaxAge ELSE age[t] + 1
    BY <1>1 DEF PipelinedCycle
  <1>4. /\ t \in active' => age'[t] = 0
        /\ t \notin active' /\ Entering(p) # {} => age'[t] = MaxAge
        /\ t \notin active' /\ Entering(p) = {} =>
              age'[t] = IF age[t] = MaxAge THEN MaxAge ELSE age[t] + 1
    BY <1>3
  <1>5. age'[t] \in Nat /\ age'[t] <= MaxAge
    BY <1>1, <1>2, <1>3
  <1> QED BY <1>1, <1>2, <1>4, <1>5

LEMMA AgesNext ==
  ASSUME PlaceInv, Ages, PipelinedCycle
  PROVE  /\ Pipelined' = Pipelined /\ age' \in [Pipelined -> 0 .. MaxAge]
         /\ \A s \in Pipelined : s \in active' => age'[s] = 0
  <1>1. Typed /\ Cycle /\ MaxAge \in Nat
    BY MaxAgeAssumption DEF PlaceInv, PipelinedCycle
  <1>2. Pipelined' = Pipelined
    BY <1>1, TypedNext DEF Pipelined
  <1>3. age' = [s \in Pipelined |-> age'[s]]
    BY DEF PipelinedCycle
  <1>4. ASSUME NEW s \in Pipelined
        PROVE  age'[s] \in 0 .. MaxAge /\ (s \in active' => age'[s] = 0)
    <2>1. PICK p \in Pipelines : s \in Stages(p)
      BY <1>1, PipelinedIs
    <2> QED BY <1>1, <2>1, AgeAt
  <1> QED BY <1>2, <1>3, <1>4

LEMMA NoneEnter ==
  ASSUME Typed, NEW p \in Pipelines, Inside(p)
  PROVE  Entering(p) = {}
  <1> SUFFICES ASSUME NEW j \in Entering(p) PROVE FALSE
    OBVIOUS
  <1>1. j \in Jumps(G) /\ G.pipe[j.at] # p /\ Arrives(j)
    BY Scheduled DEF Entering
  <1> QED BY <1>1, InsideJumps

\* Nothing runs behind the last iteration.
LEMMA TrailPast ==
  ASSUME Typed, Ages, NEW p \in Pipelines, NEW y \in Nat, Trail(p, y),
         NEW x \in Stages(p), x \in active
  PROVE  y <= x
  <1> SUFFICES ASSUME x < y PROVE FALSE
    BY StageFacts
  <1>1. x \in Nat /\ x \in Pipelined /\ MaxAge \in Nat /\ 0 < MaxAge
    BY StageFacts, PipelinedIs, AgeBound
  <1>2. age[x] = 0
    BY <1>1 DEF Ages
  <1>3. age[x] = Reached(y - x) /\ y - x \in Nat /\ 0 < y - x
    BY <1>1 DEF Trail
  <1>4. Reached(y - x) # 0
    BY <1>1, <1>3 DEF Reached
  <1> QED BY <1>2, <1>3, <1>4

LEMMA TrailNext ==
  ASSUME PlaceInv, Ages, PipelinedCycle, NEW p \in Pipelines, Inside(p),
         ~Arrives(Back(p)), ~Arrives(Out(p)),
         NEW y \in Nat, Trail(p, y), y <= End(p) => y \in active
  PROVE  \A t \in Stages(p) : t <= y + 1 => age'[t] = Reached((y + 1) - t)
  <1>1. Typed /\ Placed /\ Cycle /\ Entering(p) = {}
    BY NoneEnter DEF PlaceInv, PipelinedCycle
  <1>2. MaxAge \in Nat /\ 0 < MaxAge /\ End(p) \in Nat
    BY <1>1, AgeBound, LoopFacts
  <1> SUFFICES ASSUME NEW t \in Stages(p), t <= y + 1
               PROVE  age'[t] = Reached((y + 1) - t)
    OBVIOUS
  <1>3. t \in Nat /\ t <= End(p)
    BY <1>1, StageFacts, LoopFacts DEF Stages
  <1>4. CASE t = y + 1
    <2>1. y \in active /\ y # End(p)
      BY <1>2, <1>3, <1>4
    <2>2. t \in active'
      BY <1>1, <1>4, <2>1, InsideNext
    <2>3. age'[t] = 0
      BY <2>2, AgeAt
    <2> QED BY <1>2, <1>4, <2>3 DEF Reached
  <1>5. CASE t <= y
    <2>1. t \notin active'
      <3> SUFFICES ASSUME t \in active' PROVE FALSE
        OBVIOUS
      <3>1. PICK x \in active : t = x + 1
        BY <1>1, InsideNext
      <3>2. x \in Stages(p) /\ x \in Nat
        BY <1>1, StageFacts DEF Inside
      <3>3. y <= x
        BY <1>1, <3>2, TrailPast
      <3> QED BY <1>5, <3>1, <3>2, <3>3
    <2>2. age[t] = Reached(y - t) /\ y - t \in Nat
      BY <1>3, <1>5 DEF Trail
    <2>3. age'[t] = IF age[t] = MaxAge THEN MaxAge ELSE age[t] + 1
      BY <1>1, <2>1, AgeAt
    <2>4. (y + 1) - t = (y - t) + 1
      BY <1>3
    <2>5. \A n \in Nat : (IF Reached(n) = MaxAge THEN MaxAge ELSE Reached(n) + 1) = Reached(n + 1)
      BY <1>2 DEF Reached
    <2> QED BY <2>2, <2>3, <2>4, <2>5
  <1> QED BY <1>3, <1>4, <1>5

\* Where the last iteration is when the next starts.
LEMMA LastLead ==
  ASSUME Typed, Ages, NEW p \in Pipelines, Inside(p), Arrives(Back(p))
  PROVE  \E y \in Nat : /\ Trail(p, y) /\ Begin(p) + G.II[p] <= y + 1
                        /\ Wait(p) > 0 => y = Begin(p) + G.II[p]
  <1>1. /\ Begin(p) \in Nat /\ Branch(p) \in Nat /\ G.II[p] \in Nat /\ Wait(p) \in Nat
        /\ Begin(p) <= Branch(p)
    BY LoopFacts, WaitIs
  <1>2. AgesIn(p)
    BY DEF Ages
  <1>3. CASE Wait(p) > 0
    <2>1. Pending(p) /\ waited[Branch(p)] = Wait(p)
      BY <1>3, LoopArrives
    <2>2. Trail(p, Lead(p))
      BY <1>2, <2>1 DEF Inside, Deciding, Draining, AgesIn
    <2>3. Lead(p) = Begin(p) + G.II[p]
      BY <1>3, <2>1, WaitIs DEF Lead
    <2> QED BY <1>1, <2>2, <2>3
  <1>4. CASE Wait(p) = 0
    <2>1. Branch(p) \in active
      BY <1>4, LoopArrives, LoopHappens DEF Runs
    <2>2. Branch(p) \in Front(p)
      BY <1>1, <2>1 DEF Front
    <2>3. Trail(p, Branch(p))
      BY <1>2, <2>2 DEF AgesIn
    <2>4. Begin(p) + G.II[p] <= Branch(p) + 1
      BY <1>1, <1>4, WaitIs
    <2> QED BY <1>1, <1>4, <2>3, <2>4
  <1> QED BY <1>1, <1>3, <1>4

LEMMA SpacedNext ==
  ASSUME PlaceInv, Ages, PipelinedCycle, NEW p \in Pipelines, Inside(p), ~Arrives(Out(p)),
         NEW x \in active', NEW t \in Stages(p), x < t
  PROVE  G.II[p] <= age'[t] + (t - x)
  <1>1. Typed /\ Placed /\ Cycle /\ Entering(p) = {} /\ Spaced(p)
    BY NoneEnter DEF PlaceInv, PipelinedCycle, Ages, AgesIn
  <1>2. /\ MaxAge \in Nat /\ G.II[p] \in Nat /\ G.II[p] < MaxAge /\ t \in Nat
        /\ Begin(p) \in Nat /\ active \subseteq Stages(p) /\ \A u \in Stages(p) : u \in Nat
    BY <1>1, AgeBound, LoopFacts, StageFacts DEF Inside
  <1>3. /\ age[t] \in Nat /\ age[t] <= MaxAge /\ age'[t] \in Nat
        /\ t \notin active' => age'[t] = IF age[t] = MaxAge THEN MaxAge ELSE age[t] + 1
    BY <1>1, AgeAt
  <1>4. t \in active' => (\E u \in active : t = u + 1) \/ t = Begin(p)
    BY <1>1, InsideNext
  <1>5. CASE \E w \in active : x = w + 1
    <2>1. PICK w \in active : x = w + 1
      BY <1>5
    <2>2. w \in Stages(p) /\ w \in Nat /\ Begin(p) <= w
      BY <1>2, <2>1 DEF Stages
    <2>3. CASE t \in active'
      <3>1. PICK u \in active : t = u + 1
        BY <1>2, <1>4, <2>1, <2>2, <2>3
      <3>2. u \in Stages(p) /\ u \in Nat /\ w < u
        <4>1. u \in Stages(p) /\ u \in Nat
          BY <1>2, <3>1
        <4> QED BY <2>1, <2>2, <3>1, <4>1
      <3>3. age[u] = 0
        BY <3>1, <3>2, AgeAt
      <3>4. G.II[p] <= age[u] + (u - w)
        BY <1>1, <2>1, <3>2 DEF Spaced
      <3>5. G.II[p] <= t - x
        BY <1>2, <2>1, <2>2, <3>1, <3>2, <3>3, <3>4
      <3> QED BY <1>2, <1>3, <2>1, <2>2, <3>5
    <2>4. CASE t \notin active'
      <3>1. G.II[p] <= age[t] + (t - w)
        BY <1>1, <1>2, <2>1, <2>2 DEF Spaced
      <3> QED BY <1>2, <1>3, <2>1, <2>2, <2>4, <3>1
    <2> QED BY <2>3, <2>4
  <1>6. CASE x = Begin(p) /\ Arrives(Back(p))
    <2>1. PICK y \in Nat : Trail(p, y) /\ Begin(p) + G.II[p] <= y + 1
      BY <1>1, <1>6, LastLead
    <2>2. CASE t \in active'
      <3>1. PICK u \in active : t = u + 1
        BY <1>2, <1>4, <1>6, <2>2
      <3>2. y <= u /\ u \in Nat
        BY <1>1, <1>2, <2>1, <3>1, TrailPast
      <3>3. G.II[p] <= t - x
        BY <1>2, <1>6, <2>1, <3>1, <3>2
      <3> QED BY <1>2, <1>3, <1>6, <3>3
    <2>3. CASE t \notin active' /\ t <= y
      <3>1. age[t] = Reached(y - t) /\ y - t \in Nat
        BY <1>2, <2>1, <2>3 DEF Trail
      <3>2. CASE y - t < MaxAge
        <4>1. age'[t] = (y - t) + 1
          BY <1>2, <1>3, <2>3, <3>1, <3>2 DEF Reached
        <4> QED BY <1>2, <1>6, <2>1, <4>1
      <3>3. CASE ~(y - t < MaxAge)
        <4>1. age'[t] = MaxAge
          BY <1>2, <1>3, <2>3, <3>1, <3>3 DEF Reached
        <4> QED BY <1>2, <1>6, <4>1
      <3> QED BY <3>2, <3>3
    <2>4. CASE ~(t <= y)
      <3>1. G.II[p] <= t - x
        BY <1>2, <1>6, <2>1, <2>4
      <3> QED BY <1>2, <1>3, <1>6, <3>1
    <2> QED BY <2>2, <2>3, <2>4
  <1> QED BY <1>1, <1>5, <1>6, InsideNext
\* A stay in a pipeline begins with all its stages long at rest.
LEMMA AgesEnter ==
  ASSUME PlaceInv, Ages, PipelinedCycle, Outside, NEW p \in Pipelines, Inside(p)'
  PROVE  AgesIn(p)'
  <1>1. /\ Typed /\ Cycle /\ p # NoPipeline
        /\ Stages(p)' = Stages(p) /\ Begin(p)' = Begin(p) /\ Branch(p)' = Branch(p) /\ G' = G
        /\ Begin(p) \in Nat /\ Begin(p) \in Stages(p)
    BY TypedNext, Steady, LoopFacts, PipeEnds DEF PlaceInv, PipelinedCycle
  <1>2. MaxAge \in Nat /\ 0 < MaxAge /\ G.II[p] \in Nat /\ G.II[p] < MaxAge
    BY <1>1, AgeBound
  <1>3. active \cap Stages(p) = {}
    BY <1>1, StageFacts DEF Outside
  <1>4. ~Holding(p)'
    <2>1. ~Pending(p)'
      BY <1>1, <1>3, OthersWaitNot DEF Outside
    <2> QED BY <2>1 DEF Holding
  <1>5. active' \subseteq {Begin(p)}
    <2>1. active' \subseteq Stages(p)
      BY <1>1 DEF Inside
    <2> QED BY <1>1, <2>1, EntersFirst
  <1>6. \A x \in active' : Entering(p) # {}
    <2> SUFFICES ASSUME NEW x \in active' PROVE Entering(p) # {}
      OBVIOUS
    <2>1. PICK j \in Jumps(G) : Arrives(j) /\ j.sets = {Begin(p)} /\ G.pipe[j.at] = NoPipeline
      BY <1>1, <1>5, EntersFirst
    <2>2. j \in Entering(p)
      BY <1>1, <2>1, PipeEnds, Scheduled DEF Entering
    <2> QED BY <2>2
  <1>7. Spaced(p)'
    <2> SUFFICES ASSUME NEW x \in active', NEW t \in Stages(p), x < t
                 PROVE  G.II[p] <= age'[t] + (t - x)
      BY <1>1 DEF Spaced
    <2>1. x = Begin(p) /\ t \in Nat /\ t \notin active'
      BY <1>1, <1>5, StageFacts
    <2>2. age'[t] = MaxAge
      BY <1>6, <2>1, AgeAt
    <2> QED BY <1>1, <1>2, <2>1, <2>2
  <1>8. ASSUME NEW x \in Front(p)' PROVE Trail(p, x)'
    <2>1. x \in active' /\ x = Begin(p)
      BY <1>5 DEF Front
    <2> SUFFICES ASSUME NEW t \in Stages(p), t <= x PROVE age'[t] = Reached(x - t)
      BY <1>1 DEF Trail, Reached
    <2>2. t = Begin(p)
      BY <1>1, <2>1, LoopFacts DEF Stages
    <2>3. age'[t] = 0
      BY <2>1, <2>2, AgeAt
    <2> QED BY <1>1, <1>2, <2>1, <2>2, <2>3 DEF Reached
  <1> QED BY <1>4, <1>7, <1>8 DEF AgesIn

LEMMA AgesStay ==
  ASSUME PlaceInv, Ages, PipelinedCycle, NEW p \in Pipelines, Inside(p), ~Arrives(Out(p))
  PROVE  AgesIn(p)'
  <1>1. /\ Typed /\ Cycle /\ AgesIn(p)
        /\ Stages(p)' = Stages(p) /\ Begin(p)' = Begin(p) /\ Branch(p)' = Branch(p)
        /\ End(p)' = End(p) /\ G' = G
        /\ Begin(p) \in Nat /\ Branch(p) \in Nat /\ End(p) \in Nat
        /\ Begin(p) <= Branch(p) /\ Branch(p) < End(p) /\ Begin(p) \in Stages(p)
        /\ MaxAge \in Nat /\ 0 < MaxAge
    BY TypedNext, Steady, LoopFacts, PipeEnds, AgeBound DEF PlaceInv, PipelinedCycle, Ages
  <1>2. Spaced(p)'
    <2> SUFFICES ASSUME NEW x \in active', NEW t \in Stages(p), x < t
                 PROVE  G.II[p] <= age'[t] + (t - x)
      BY <1>1 DEF Spaced
    <2> QED BY SpacedNext
  <1>3. ASSUME NEW y \in Nat, \A t \in Stages(p) : t <= y => age'[t] = Reached(y - t)
        PROVE  Trail(p, y)'
    BY <1>1, <1>3 DEF Trail, Reached
  <1>4. ASSUME NEW x \in Front(p)' PROVE Trail(p, x)'
    <2>1. x \in active'
      BY DEF Front
    <2>2. CASE x = Begin(p) /\ Arrives(Back(p))
      <3>1. ASSUME NEW t \in Stages(p), t <= x PROVE age'[t] = Reached(x - t)
        <4>1. t = Begin(p)
          BY <1>1, <2>2, <3>1 DEF Stages
        <4>2. age'[t] = 0
          BY <2>1, <2>2, <4>1, AgeAt
        <4> QED BY <1>1, <2>2, <4>1, <4>2 DEF Reached
      <3> QED BY <1>1, <1>3, <2>2, <3>1
    <2>3. CASE \E w \in Front(p) : w # Branch(p) /\ x = w + 1
      <3>1. PICK w \in Front(p) : w # Branch(p) /\ x = w + 1
        BY <2>3
      <3>2. w \in active /\ w \in Nat /\ Trail(p, w) /\ x \in Nat
        BY <1>1, <3>1 DEF Front, AgesIn
      <3>3. ~Arrives(Back(p))
        <4>1. Branch(p) \notin active /\ ~Pending(p)
          <5>1. Deciding(p)
            BY <3>1 DEF Inside, Holding, Draining
          <5>2. Front(p) = {w} /\ ~Pending(p)
            BY <3>1, <5>1 DEF Deciding
          <5>3. Branch(p) \in Begin(p) .. Branch(p)
            BY <1>1
          <5> QED BY <3>1, <5>2, <5>3 DEF Front
        <4> QED BY <1>1, <4>1, LoopArrives, LoopHappens DEF Runs
      <3>4. \A t \in Stages(p) : t <= w + 1 => age'[t] = Reached((w + 1) - t)
        BY <3>2, <3>3, TrailNext
      <3> QED BY <1>3, <3>1, <3>2, <3>4
    <2> QED BY <1>1, <2>1, <2>2, <2>3, FrontNext
  <1>5. ASSUME Holding(p)' PROVE Trail(p, Lead(p))'
    <2>1. Begin(p) \notin active' /\ ~Arrives(Back(p)) /\ Pending(p)'
      <3>1. Front(p)' = {} /\ Pending(p)'
        BY <1>5 DEF Holding
      <3> QED BY <1>1, <3>1, FrontNext, InsideNext
    <2>2. Lead(p)' = Branch(p) + 1 + waited'[Branch(p)]
      BY <1>1 DEF Lead
    <2>3. CASE Branch(p) \in active
      <3>1. Trail(p, Branch(p))
        <4>1. Branch(p) \in Front(p)
          BY <1>1, <2>3 DEF Front
        <4> QED BY <1>1, <4>1 DEF AgesIn
      <3>2. Lead(p)' = Branch(p) + 1
        BY <1>1, <2>1, <2>2, <2>3, PendingNext
      <3>3. \A t \in Stages(p) : t <= Branch(p) + 1 => age'[t] = Reached((Branch(p) + 1) - t)
        BY <1>1, <2>1, <2>3, <3>1, TrailNext
      <3> QED BY <1>1, <3>2, <3>3 DEF Trail, Reached
    <2>4. CASE Branch(p) \notin active
      <3>1. /\ Pending(p) /\ waited'[Branch(p)] = waited[Branch(p)] + 1
            /\ waited[Branch(p)] \in Nat
        BY <1>1, <2>1, <2>4, PendingNext, WaitIs
      <3>2. Holding(p)
        BY <3>1 DEF Inside, Deciding, Draining
      <3>3. /\ Lead(p) \in Nat /\ Lead(p)' = Lead(p) + 1 /\ Trail(p, Lead(p))
            /\ Lead(p) <= End(p) => Lead(p) \in active
        BY <1>1, <2>2, <3>1, <3>2 DEF Lead, AgesIn, Holding
      <3>4. \A t \in Stages(p) : t <= Lead(p) + 1 => age'[t] = Reached((Lead(p) + 1) - t)
        BY <2>1, <3>3, TrailNext
      <3> QED BY <1>1, <3>3, <3>4 DEF Trail, Reached
    <2> QED BY <2>3, <2>4
  <1> QED BY <1>2, <1>4, <1>5 DEF AgesIn
LEMMA AgesStep ==
  ASSUME PlaceInv, Ages, PipelinedCycle
  PROVE  Ages'
  <1>1. Typed /\ Placed /\ Cycle /\ Pipelines' = Pipelines
    BY TypedNext, Steady DEF PlaceInv, PipelinedCycle
  <1>2. ASSUME NEW p \in Pipelines, Inside(p)' PROVE AgesIn(p)'
    <2>1. CASE Outside
      BY <1>2, <2>1, AgesEnter
    <2>2. ASSUME NEW q \in Pipelines, Inside(q), Arrives(Out(q)) PROVE FALSE
      <3>1. active' = {After(q)} /\ G' = G /\ Stages(p)' = Stages(p)
        BY <1>1, <2>2, InsideStep, TypedNext, Steady
      <3>2. After(q) \in Stages(p)
        BY <1>2, <3>1 DEF Inside
      <3> QED BY <1>1, <2>2, <3>2, ExitFacts, StageFacts, LoopFacts
    <2>3. ASSUME NEW q \in Pipelines, Inside(q), ~Arrives(Out(q)) PROVE p = q
      <3> SUFFICES ASSUME p # q PROVE FALSE
        OBVIOUS
      <3>1. Inside(q)'
        BY <1>1, <2>3, InsideStep
      <3>2. ~Pending(p)'
        BY <1>1, <3>1 DEF Inside
      <3>3. active' # {}
        <4>1. Deciding(p)' \/ Draining(p)'
          BY <1>2, <3>2 DEF Inside, Holding
        <4> QED BY <4>1 DEF Deciding, Draining
      <3>4. active' \subseteq Stages(p) /\ active' \subseteq Stages(q)
        <4>1. Stages(p)' = Stages(p) /\ Stages(q)' = Stages(q)
          BY <1>1, TypedNext, Steady
        <4> QED BY <1>2, <3>1, <4>1 DEF Inside
      <3> QED BY <1>1, <3>3, <3>4, StageFacts
    <2> QED BY <1>1, <2>1, <2>2, <2>3, AgesStay DEF Placed
  <1>3. \A p \in Pipelines' : Inside(p)' => AgesIn(p)'
    BY <1>1, <1>2
  <1> QED BY <1>3, AgesNext DEF Ages

LEMMA AgesStutter ==
  ASSUME PlaceInv, Ages, UNCHANGED pipelinedVars
  PROVE  Ages'
  <1>1. /\ active' = active /\ age' = age /\ entryBB' = entryBB /\ lastBB' = lastBB
        /\ outOfPipe' = outOfPipe /\ stored' = stored /\ waited' = waited /\ UNCHANGED design
    BY DEF pipelinedVars, vars, registers
  <1>2. G' = G /\ Pipelines' = Pipelines /\ Pipelined' = Pipelined
    BY <1>1, Steady DEF Pipelined
  <1>3. ASSUME NEW p
        PROVE  /\ Pending(p)' = Pending(p) /\ Front(p)' = Front(p) /\ Lead(p)' = Lead(p)
               /\ Stages(p)' = Stages(p)
    BY <1>1, Steady DEF Pending, Front, Lead
  <1>4. ASSUME NEW p
        PROVE  Deciding(p)' = Deciding(p) /\ Holding(p)' = Holding(p) /\ Draining(p)' = Draining(p)
    BY <1>1, <1>3, Steady DEF Deciding, Holding, Draining
  <1>5. ASSUME NEW p PROVE Inside(p)' = Inside(p)
    BY <1>1, <1>2, <1>3, <1>4, Steady DEF Inside
  <1>6. ASSUME NEW p, NEW y PROVE Trail(p, y)' = Trail(p, y)
    BY <1>1, <1>3 DEF Trail, Reached
  <1>7. ASSUME NEW p, AgesIn(p) PROVE AgesIn(p)'
    <2>1. Spaced(p)'
      BY <1>1, <1>2, <1>3, <1>7 DEF AgesIn, Spaced
    <2>2. \A x \in Front(p)' : Trail(p, x)'
      BY <1>3, <1>6, <1>7 DEF AgesIn
    <2>3. Holding(p)' => Trail(p, Lead(p))'
      <3>1. Trail(p, Lead(p))' = Trail(p, Lead(p))
        BY <1>1, <1>3 DEF Trail, Reached
      <3> QED BY <1>4, <1>7, <3>1 DEF AgesIn
    <2> QED BY <2>1, <2>2, <2>3 DEF AgesIn
  <1>8. \A p \in Pipelines' : Inside(p)' => AgesIn(p)'
    BY <1>2, <1>5, <1>7 DEF Ages
  <1> QED BY <1>1, <1>2, <1>8 DEF Ages

LEMMA AgesFirst ==
  ASSUME PipelinedInit, \A g \in Functions : PipelinedLoops(g)
  PROVE  PlaceInv /\ Ages /\ PhisSeeTheirIteration
  <1>1. /\ PlaceInv /\ Typed /\ active # {} /\ MaxAge \in Nat
        /\ \A s \in active : G.pipe[s] = NoPipeline
    BY PlaceFirst, MaxAgeAssumption DEF PipelinedInit, PlaceInv
  <1>2. \A s \in Pipelined : s \notin active
    BY <1>1 DEF Pipelined
  <1>3. \A p \in Pipelines : ~Inside(p)
    BY <1>1, StageFacts, LoopFacts DEF Inside
  <1>4. age \in [Pipelined -> 0 .. MaxAge]
    BY <1>1 DEF PipelinedInit
  <1> QED BY <1>1, <1>2, <1>3, <1>4 DEF Ages, PhisSeeTheirIteration

\* The steps are as far apart as the ages say.
LEMMA ApartStep ==
  ASSUME PlaceInv, Ages, PipelinedCycle, NEW p \in Pipelines, Entering(p) = {}
  PROVE  /\ \A s \in design.pipes[p].states \cap active' : age[s] + 1 >= G.II[p]
         /\ \A j \in design.jumps :
              j.delay > 0 /\ j.target = Starts(p) /\ Arrives(j)
                => age[Starts(p)] = G.II[p]
  <1>1. /\ Typed /\ Placed /\ Cycle /\ design.jumps = Jumps(G) /\ Starts(p) = Begin(p)
        /\ design.pipes[p].states = Stages(p) /\ p # NoPipeline
        /\ Begin(p) \in Stages(p) /\ Begin(p) \in Nat
        /\ MaxAge \in Nat /\ G.II[p] \in Nat /\ 0 < G.II[p] /\ G.II[p] < MaxAge
    BY Scheduled, LoopFacts, PipeEnds, AgeBound DEF PlaceInv, PipelinedCycle
  <1>2. ASSUME Inside(p), Arrives(Back(p))
        PROVE  /\ G.II[p] <= age[Begin(p)] + 1
               /\ Wait(p) > 0 => age[Begin(p)] = G.II[p]
    <2>1. PICK y \in Nat : /\ Trail(p, y) /\ Begin(p) + G.II[p] <= y + 1
                           /\ Wait(p) > 0 => y = Begin(p) + G.II[p]
      BY <1>1, <1>2, LastLead
    <2>2. Begin(p) <= y
      BY <1>1, <2>1
    <2>3. age[Begin(p)] = Reached(y - Begin(p))
      BY <1>1, <2>1, <2>2 DEF Trail
    <2> QED BY <1>1, <2>1, <2>2, <2>3 DEF Reached
  <1>3. ASSUME NEW s \in Stages(p), s \in active' PROVE age[s] + 1 >= G.II[p]
    <2>1. ~Outside
      <3> SUFFICES ASSUME Outside PROVE FALSE
        OBVIOUS
      <3>1. PICK j \in Jumps(G) : /\ Arrives(j) /\ j.sets = {Begin(p)}
                                  /\ G.pipe[j.at] = NoPipeline
        BY <1>1, <1>3, EntersFirst
      <3> QED BY <1>1, <3>1 DEF Entering
    <2>2. PICK q \in Pipelines : Inside(q)
      BY <1>1, <2>1 DEF Placed
    <2>3. s # After(q)
      BY <1>1, ExitFacts, StageFacts
    <2>4. CASE \E x \in active : x # End(q) /\ s = x + 1
      <3>1. PICK x \in active : x # End(q) /\ s = x + 1
        BY <2>4
      <3>2. x \in Stages(q) /\ s \in Stages(q)
        BY <1>1, <2>2, <3>1, InsideNext DEF Inside
      <3>3. q = p /\ x \in Nat /\ x < s
        <4>1. x \in Nat
          BY <1>1, <3>2, StageFacts
        <4>2. G.pipe[s] = p /\ G.pipe[s] = q
          BY <1>1, <1>3, <3>2, StageFacts
        <4> QED BY <3>1, <4>1, <4>2
      <3>4. G.II[p] <= age[s] + (s - x)
        BY <2>2, <3>1, <3>3 DEF Ages, AgesIn, Spaced
      <3>5. s - x = 1
        BY <3>1, <3>3
      <3> QED BY <1>1, <3>4, <3>5, AgeAt
    <2>5. CASE s = Begin(q) /\ Arrives(Back(q))
      <3>1. q = p
        BY <1>1, <2>5, PipeEnds, StageFacts
      <3> QED BY <1>1, <1>2, <2>2, <2>5, <3>1, AgeAt
    <2> QED BY <1>1, <1>3, <2>2, <2>3, <2>4, <2>5, InsideNext
  <1>4. ASSUME NEW j \in Jumps(G), j.delay > 0, j.target = Begin(p), Arrives(j)
        PROVE  age[Begin(p)] = G.II[p]
    <2>1. G.pipe[j.at] # NoPipeline
      BY <1>1, <1>4, StraightJumps
    <2>2. PICK q \in Pipelines : Inside(q)
      <3>1. ~Outside
        BY <1>1, <1>4, <2>1, OutsideJumps
      <3> QED BY <1>1, <3>1 DEF Placed
    <2>3. G.pipe[j.at] = q
      BY <1>1, <1>4, <2>2, InsideJumps
    <2>4. j = Back(q) /\ j.delay = Wait(q)
      BY <1>1, <1>4, <2>1, <2>3, LoopJumps, OutIs, StayIs, BackIs
    <2>5. q = p
      BY <1>1, <1>4, <2>4, BackIs, PipeEnds, StageFacts
    <2> QED BY <1>2, <1>4, <2>2, <2>4, <2>5
  <1> QED BY <1>1, <1>3, <1>4
-----------------------------------------------------------------------------
(* The theorems: whatever the loops, their initiation intervals, the       *)
(* stages of their bodies and the conditions of the branches.              *)

THEOREM PipelinedInvariance ==
  ASSUME \A g \in Functions : PipelinedLoops(g)
  PROVE  PipelinedSpec => [](PlaceInv /\ Ages /\ PhisSeeTheirIteration)
  <1> DEFINE Inv == PlaceInv /\ Ages /\ PhisSeeTheirIteration
  <1>1. PipelinedInit => Inv
    BY AgesFirst
  <1>2. Inv /\ [PipelinedCycle]_pipelinedVars => Inv'
    <2> SUFFICES ASSUME Inv, [PipelinedCycle]_pipelinedVars PROVE Inv'
      OBVIOUS
    <2>1. CASE PipelinedCycle
      BY <2>1, PlaceStep, AgesStep, PhisStep DEF PipelinedCycle
    <2>2. CASE UNCHANGED pipelinedVars
      <3>1. UNCHANGED vars
        BY <2>2 DEF pipelinedVars
      <3>2. PhisSeeTheirIteration'
        BY <2>2 DEF pipelinedVars, vars, registers, PhisSeeTheirIteration, Pipelined, G
      <3> QED BY <2>2, <3>1, <3>2, PlaceStutter, AgesStutter
    <2> QED BY <2>1, <2>2
  <1> QED BY <1>1, <1>2, PTL DEF PipelinedSpec

(* A phi function in any stage sees the block its own iteration came from, *)
(* in the last_BB register that emitStateCode hands from state to state,   *)
(* however many iterations are in flight.                                  *)
THEOREM PhisInFlight ==
  ASSUME \A g \in Functions : PipelinedLoops(g)
  PROVE  PipelinedSpec => []PhisSeeTheirIteration
  BY PipelinedInvariance, PTL

(* Of the conditions that set a register of the control path no two are up *)
(* at once (the assertions verilog_backend.cpp can add), so the order in   *)
(* which the assignments are printed is irrelevant: with jumps back that   *)
(* wait, and exits held until the pipeline is empty, too.                  *)
THEOREM NoOverlapsInPipelines ==
  ASSUME \A g \in Functions : PipelinedLoops(g)
  PROVE  PipelinedSpec => []NoOverlappingTransitions
  <1>1. PlaceInv => NoOverlappingTransitions
    BY PlacedNoOverlap DEF PlaceInv
  <1> QED BY <1>1, PipelinedInvariance, PTL

(* While an iteration is in flight nothing outside of its pipeline runs:   *)
(* pipelineClearOnNextCycleCondition and out_of_pipe hold the code after   *)
(* the loop back until the last iteration has reached the last state.      *)
THEOREM PipelinesRunAlone ==
  ASSUME \A g \in Functions : PipelinedLoops(g)
  PROVE  PipelinedSpec => []PipelineAlone
  <1>1. PlaceInv => PipelineAlone
    BY PlacedAlone DEF PlaceInv
  <1> QED BY <1>1, PipelinedInvariance, PTL

(* Every step keeps the distance of an initiation interval between two     *)
(* runs of a stage: cyclesToWaitForHazards and the delay registers give    *)
(* the spacing the memory and resource constraints were solved for.        *)
THEOREM IterationsKeepApart ==
  ASSUME \A g \in Functions : PipelinedLoops(g)
  PROVE  PipelinedSpec => IterationsApart
  <1>1. PlaceInv /\ Ages /\ [PipelinedCycle]_pipelinedVars =>
          [\A p \in Pipelines :
             Entering(p) = {} =>
               /\ \A s \in design.pipes[p].states \cap active' : age[s] + 1 >= G.II[p]
               /\ \A j \in design.jumps :
                    j.delay > 0 /\ j.target = Starts(p) /\ Arrives(j)
                      => age[Starts(p)] = G.II[p]]_pipelinedVars
    BY ApartStep
  <1> QED BY <1>1, PipelinedInvariance, PTL DEF IterationsApart, PipelinedSpec

(* A block in flight goes on a stage per cycle, as itself, and no stage    *)
(* starts out of nothing: the stays among the transitions never lose or    *)
(* mix the iterations of a pipeline.                                       *)
THEOREM IterationsGoOn ==
  ASSUME \A g \in Functions : PipelinedLoops(g)
  PROVE  PipelinedSpec => IterationsAdvance
  <1>1. PlaceInv /\ [PipelinedCycle]_pipelinedVars =>
          [\A s \in Pipelined :
             /\ s # Starts(G.pipe[s]) /\ s \in active' =>
                  s - 1 \in active \/ Jumping(s) # {}
             /\ \A b \in Blocks(G) :
                  BlockActive(s, b) /\ s < G.last[b] =>
                    s + 1 \in active' /\ entryBB'[s + 1] = b]_pipelinedVars
    BY AdvanceStep DEF Advances, PipelinedCycle
  <1> QED BY <1>1, PipelinedInvariance, PTL DEF IterationsAdvance, PipelinedSpec
=============================================================================
