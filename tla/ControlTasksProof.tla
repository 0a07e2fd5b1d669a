-------------------------- MODULE ControlTasksProof --------------------------
(***************************************************************************)
(* Theorems about the control path of functions divided into tasks, for    *)
(* every set of scheduled functions.                                       *)
(***************************************************************************)
EXTENDS ControlTasks, ControlProof

-----------------------------------------------------------------------------
(* Tasks without pipelines.                                                *)

\* The states of task t.
Span(t) == {s \in States(G) : \E b \in TaskBlocks(t) : s \in G.first[b] .. G.last[b]}

\* A state belongs to one task, and to none with pipelines if it is one of t.
LEMMA SpanStates ==
  ASSUME design \in {Elaborate(g) : g \in Functions}, NEW t, Sequentially(t), NEW s \in Span(t)
  PROVE  /\ s \in States(G) /\ G.pipe[s] = NoPipeline
         /\ \A b \in BlocksIn(G, s) : b \in TaskBlocks(t) /\ G.br[b] = G.last[b]
  <1>1. IsScheduled(G) /\ Constrained(G)
    BY DesignFacts, ScheduleAssumption
  <1>2. \A b \in Blocks(G) : /\ G.first[b] \in Nat /\ G.last[b] \in Nat /\ G.br[b] \in Nat
                            /\ G.task[b] \in Nat
    BY <1>1 DEF IsScheduled
  <1>3. s \in States(G) /\ s \in Nat
    BY <1>1 DEF Span, IsScheduled
  <1>4. PICK a \in TaskBlocks(t) : s \in G.first[a] .. G.last[a]
    BY DEF Span
  <1>5. \A b, c \in Blocks(G) : G.task[b] < G.task[c] => G.last[b] < G.first[c]
    BY <1>1 DEF Constrained, TaskOrder, IsScheduled
  <1>6. ASSUME NEW b \in BlocksIn(G, s)
        PROVE  b \in TaskBlocks(t)
    <2>1. b \in Blocks(G) /\ G.first[b] <= s /\ s <= G.last[b]
      BY DEF BlocksIn
    <2>2. a \in Blocks(G) /\ G.first[a] <= s /\ s <= G.last[a] /\ G.task[a] = t
      BY <1>2, <1>3, <1>4 DEF TaskBlocks
    <2>3. ~(G.task[a] < G.task[b]) /\ ~(G.task[b] < G.task[a])
      BY <1>2, <1>3, <1>5, <2>1, <2>2
    <2>4. G.task[a] = G.task[b]
      BY <1>2, <2>1, <2>2, <2>3
    <2> QED BY <2>1, <2>2, <2>4 DEF TaskBlocks
  <1>7. G.pipe[s] = NoPipeline
    <2> SUFFICES ASSUME G.pipe[s] # NoPipeline PROVE FALSE
      OBVIOUS
    <2>1. PICK b \in BlocksIn(G, s) : G.pipe[G.first[b]] = G.pipe[s]
      BY <1>1, <1>3 DEF Constrained
    <2> QED BY <1>6, <2>1 DEF Sequentially, WithoutPipelines, TaskBlocks
  <1>8. ASSUME NEW b \in BlocksIn(G, s)
        PROVE  G.br[b] = G.last[b]
    <2>1. b \in Blocks(G) /\ G.pipe[G.first[b]] = NoPipeline
      BY <1>6 DEF Sequentially, WithoutPipelines, TaskBlocks
    <2>2. b \in DOMAIN G.first
      BY <1>1, <2>1 DEF IsScheduled
    <2> QED BY <1>1, <2>1, <2>2 DEF Constrained, BlockTimes
  <1> QED BY <1>3, <1>6, <1>7, <1>8

LEMMA SpanIsStraight ==
  ASSUME TypeInv, NEW t, Sequentially(t), NEW s \in Span(t)
  PROVE  Straight(s) /\ Constrained(G)
  BY SpanStates, DesignFacts, ScheduleAssumption DEF TypeInv, Straight

\* The jumps that activate a state of such a task are of its own blocks, or
\* lead into it; they wait for nothing.
Own(j, t) == j.src \in TaskBlocks(t) /\ ~j.outOfTask /\ j.at \in Span(t)
Inward(j, t) == j.kind = "branch" /\ j.outOfTask /\ <<j.src, j.dest>> \in EdgesInto(G, t)

LEMMA SpanJumps ==
  ASSUME design \in {Elaborate(g) : g \in Functions}, StartsOnce(G),
         NEW t, Sequentially(t), NEW j \in Jumps(G), NEW s \in j.sets \cap Span(t)
  PROVE  /\ s = j.target /\ ~j.leaves /\ j.delay = 0
         /\ Own(j, t) \/ Inward(j, t)
  <1>1. /\ IsScheduled(G) /\ Constrained(G) /\ s \in States(G) /\ s \in Nat
        /\ G.pipe[s] = NoPipeline
        /\ j = Jump(G, j.kind, j.at, j.src, j.dest, j.target)
    BY DesignFacts, ScheduleAssumption, SpanStates, JumpShape DEF IsScheduled
  <1>2. /\ j.at \in States(G) /\ j.at \in Nat /\ j.target \in States(G)
        /\ j.src \in Blocks(G) /\ j.dest \in Blocks(G)
        /\ G.task[j.src] # G.task[j.dest] <=> j.outOfTask
    <2>1. j.outOfTask = (G.task[j.src] # G.task[j.dest])
      BY <1>1, JumpFields
    <2> QED BY <1>1, <2>1, JumpTypes DEF IsScheduled
  <1>3. s = j.target
    <2> SUFFICES ASSUME s # j.target PROVE FALSE
      OBVIOUS
    <2>1. G.pipe[j.target] # NoPipeline /\ s = EntryState(G, G.pipe[j.target])
      BY <1>1, JumpFields
    <2> QED BY <1>1, <1>2, <2>1, EntryStateIs DEF PipelineStates
  <1>4. \A b \in Blocks(G) :
          /\ G.first[b] \in Nat /\ G.br[b] \in Nat /\ G.last[b] \in Nat
          /\ G.first[b] <= G.br[b] /\ G.br[b] <= G.last[b]
    <2>1. /\ DOMAIN G.first = Blocks(G)
          /\ \A b \in Blocks(G) : G.first[b] \in Nat /\ G.br[b] \in Nat /\ G.last[b] \in Nat
      BY <1>1 DEF IsScheduled
    <2>2. BlockTimes(G.first, G.br, G.last, {b \in Blocks(G) : G.pipe[G.first[b]] # NoPipeline})
      BY <1>1 DEF Constrained
    <2>3. ASSUME NEW b \in Blocks(G)
          PROVE  G.first[b] <= G.br[b] /\ (G.br[b] <= G.last[b] \/ G.br[b] = G.last[b])
      BY <2>1, <2>2 DEF BlockTimes
    <2> QED BY <2>1, <2>3
  <1>5. ASSUME Own(j, t) PROVE ~j.leaves /\ j.delay = 0
    <2>1. G.pipe[j.at] = NoPipeline
      BY <1>5, SpanStates DEF Own
    <2> QED BY <1>1, <2>1, JumpFields
  <1>6. CASE j.kind = "stay"
    <2>1. /\ j.dest = j.src /\ s = j.at + 1 /\ G.last[j.src] # j.at
          /\ G.first[j.src] <= j.at /\ j.at <= G.last[j.src]
      BY <1>3, <1>6, JumpShape DEF InProgress, BlocksIn
    <2>2. j.src \in BlocksIn(G, s) /\ j.at \in G.first[j.src] .. G.last[j.src]
      BY <1>1, <1>2, <1>4, <2>1 DEF BlocksIn
    <2>3. Own(j, t)
      BY <1>2, <2>1, <2>2, SpanStates DEF Own, Span
    <2> QED BY <1>3, <1>5, <2>3
  <1>7. CASE j.kind = "return"
    <2>1. /\ j.dest = j.src /\ G.br[j.src] = j.at
          /\ s = IF G.retState = NoState THEN j.at ELSE G.retState
      BY <1>3, <1>7, JumpShape DEF Returning
    <2>2. j.src \in TaskBlocks(t)
      <3>1. CASE G.retState = NoState
        <4>1. j.src \in BlocksIn(G, s)
          BY <1>2, <1>4, <2>1, <3>1 DEF BlocksIn
        <4> QED BY <4>1, SpanStates
      <3>2. CASE G.retState # NoState
        <4>1. \A b \in Blocks(G) : G.task[b] = G.task[Entry]
          BY <3>2 DEF StartsOnce
        <4>2. PICK b \in Blocks(G) : G.task[b] = t
          BY DEF Sequentially, Tasks
        <4> QED BY <1>2, <4>1, <4>2 DEF TaskBlocks
      <3> QED BY <3>1, <3>2
    <2>3. j.at \in G.first[j.src] .. G.last[j.src]
      BY <1>2, <1>4, <2>1
    <2>4. Own(j, t)
      BY <1>2, <2>1, <2>2, <2>3 DEF Own, Span
    <2> QED BY <1>3, <1>5, <2>4
  <1>8. CASE j.kind = "branch"
    <2>1. s = G.first[j.dest] /\ G.br[j.src] = j.at /\ Edge(G, j.src, j.dest)
      BY <1>3, <1>8, JumpShape DEF OutOfStateTransitions, AllTransitions
    <2>2. j.dest \in BlocksIn(G, s)
      BY <1>2, <1>4, <2>1 DEF BlocksIn
    <2>3. G.task[j.dest] = t
      BY <2>2, SpanStates DEF TaskBlocks
    <2>4. CASE ~j.outOfTask
      <3>1. j.src \in TaskBlocks(t)
        BY <1>2, <2>3, <2>4 DEF TaskBlocks
      <3>2. j.at \in G.first[j.src] .. G.last[j.src]
        BY <1>2, <1>4, <2>1
      <3>3. Own(j, t)
        BY <1>2, <2>4, <3>1, <3>2 DEF Own, Span
      <3> QED BY <1>3, <1>5, <3>3
    <2>5. CASE j.outOfTask
      <3>1. <<j.src, j.dest>> \in EdgesInto(G, t)
        BY <1>2, <2>1, <2>3, <2>5 DEF EdgesInto
      <3>2. WithoutPipelines(G, G.task[j.dest])
        BY <2>3 DEF Sequentially
      <3>3. G.pipe[j.at] = NoPipeline
        <4>1. t # G.task[Entry]
          BY <3>1 DEF StartsOnce
        <4> QED BY <1>2, <2>1, <2>3, <3>1, <3>2, <4>1 DEF StartsOnce
      <3> QED BY <1>1, <1>3, <1>8, <2>5, <3>1, <3>3, JumpFields DEF Inward
    <2> QED BY <2>4, <2>5
  <1> QED BY <1>2, <1>6, <1>7, <1>8, JumpShape

LEMMA OwnIsStraight ==
  ASSUME TypeInv, NEW t, Sequentially(t), NEW j, Own(j, t)
  PROVE  Straight(j.at) /\ ~j.outOfTask /\ j.at \in Span(t) /\ Constrained(G)
  BY SpanIsStraight DEF Own
-----------------------------------------------------------------------------
(* Tasks are threads.                                                      *)

Several == \E b \in Blocks(G) : G.task[b] # G.task[Entry]
EntryGone == G.first[Entry] \notin active \/ entryBB[G.first[Entry]] # Entry

(* The inductive invariant: a task without pipelines is in one state at    *)
(* most, and where there are several tasks the entry block, which starts   *)
(* the others, never runs again.                                           *)
ThreadInv ==
  /\ TypeInv
  /\ clock \in 0 .. 2
  /\ clock = 0 => active = design.starts /\ entryBB = [s \in States(G) |-> Entry]
  /\ clock > 0 /\ Several => EntryGone
  /\ \A t : Sequentially(t) => AtMostOne(active \cap Span(t))

LEMMA EntryRests ==
  ASSUME TypeInv, EntryGone
  PROVE  ~BlockActive(G.first[Entry], Entry)
  <1>1. PICK rank : Forward(G, rank)
    BY DesignFacts, ScheduleAssumption DEF TypeInv, Constrained
  <1>2. EntryFirst(G) /\ G.preds \subseteq Blocks(G) \X Blocks(G)
    BY DesignFacts, ScheduleAssumption DEF TypeInv, Constrained, IsScheduled
  <1>3. ASSUME NEW s, NEW e \in InStateTransitions(G, s) PROVE e[2] # Entry
    <2>1. Edge(G, e[1], e[2]) /\ e[1] \in Blocks(G)
      BY <1>1, <1>2 DEF InStateTransitions, Forward
    <2> QED BY <1>2, <2>1 DEF EntryFirst
  <1> QED BY <1>3, ActiveBlock DEF EntryGone

LEMMA EntryOnce ==
  ASSUME TypeInv, Cycle, StartsOnce(G), Several
  PROVE  EntryGone'
  <1> DEFINE f == G.first[Entry]
  <1>1. /\ IsScheduled(G) /\ EntryFirst(G) /\ G' = G /\ design.jumps = Jumps(G)
    BY DesignFacts, ScheduleAssumption DEF TypeInv, Cycle, Constrained, G
  <1>2. G.retState = NoState /\ G.pipe[f] = NoPipeline /\ Blocks(G) # {Entry}
    <2>1. PICK b \in Blocks(G) : G.task[b] # G.task[Entry]
      BY DEF Several
    <2> QED BY <2>1 DEF StartsOnce
  <1>3. f \in States(G) /\ f \in Nat /\ Entry \in Blocks(G) /\ G.succ[Entry] # <<>>
    BY <1>1, <1>2 DEF IsScheduled, EntryFirst
  <1>4. ASSUME NEW j \in Jumps(G), j.target = f
        PROVE  j.dest # Entry /\ j.kind # "stay" /\ j.delay = 0
    <2>1. /\ j = Jump(G, j.kind, j.at, j.src, j.dest, j.target) /\ j.src \in Blocks(G)
          /\ j.dest \in Blocks(G) /\ j.at \in Nat
      BY <1>1, JumpShape, JumpTypes DEF IsScheduled
    <2>2. j.delay = 0
      BY <1>2, <1>4, <2>1, JumpFields
    <2>3. j.kind # "stay"
      <3> SUFFICES ASSUME j.kind = "stay" PROVE FALSE
        OBVIOUS
      <3>1. G.first[j.src] <= j.at /\ j.at + 1 = f
        BY <1>4, JumpShape DEF InProgress, BlocksIn
      <3>2. f <= G.first[j.src] /\ G.first[j.src] \in Nat
        BY <1>1, <2>1 DEF EntryFirst, IsScheduled
      <3> QED BY <1>3, <2>1, <3>1, <3>2
    <2>4. CASE j.kind = "return"
      <3>1. G.succ[j.dest] = <<>>
        BY <2>4, JumpShape DEF Returning
      <3> QED BY <1>3, <2>2, <2>3, <3>1
    <2>5. CASE j.kind = "branch"
      <3>1. Edge(G, j.src, j.dest)
        BY <2>5, JumpShape DEF OutOfStateTransitions, AllTransitions
      <3> QED BY <1>1, <2>1, <2>2, <2>3, <3>1 DEF EntryFirst
    <2> QED BY <2>3, <2>4, <2>5, JumpShape
  <1> SUFFICES ASSUME f \in active' PROVE entryBB'[f] # Entry
    BY <1>1 DEF EntryGone
  <1>5. PICK j \in Jumps(G) : f \in j.sets /\ Arrives(j)
    BY <1>1 DEF Cycle
  <1>6. j.target = f
    <2> SUFFICES ASSUME j.target # f PROVE FALSE
      OBVIOUS
    <2>1. /\ j = Jump(G, j.kind, j.at, j.src, j.dest, j.target) /\ j.target \in States(G)
      BY <1>1, JumpShape, JumpTypes
    <2>2. G.pipe[j.target] # NoPipeline /\ f = EntryState(G, G.pipe[j.target])
      BY <1>5, <2>1, JumpFields
    <2> QED BY <1>1, <1>2, <2>1, <2>2, EntryStateIs DEF PipelineStates
  <1>7. j \in EntryWrites(f)
    <2>1. j.kind # "return" => j.kind = "branch"
      BY <1>4, <1>6, JumpShape
    <2>2. j.kind = "return" => ~j.leaves
      <3> SUFFICES ASSUME j.kind = "return" PROVE ~j.leaves
        OBVIOUS
      <3>1. j = Jump(G, j.kind, j.at, j.src, j.dest, j.target) /\ j.at = f
        BY <1>2, <1>6, JumpShape
      <3> QED BY <1>2, <3>1, JumpFields
    <2>3. ~j.leaves => Happens(j)
      BY <1>4, <1>5, <1>6 DEF Arrives
    <2> QED BY <1>1, <1>2, <1>5, <1>6, <2>1, <2>2, <2>3 DEF EntryWrites
  <1>8. \A k \in EntryWrites(f) : k.dest # Entry
    BY <1>1, <1>4 DEF EntryWrites
  <1>9. entryBB'[f] = EntryNext(f)
    BY <1>1, <1>3 DEF Cycle
  <1> QED BY <1>7, <1>8, <1>9 DEF EntryNext

\* No branch leads into the first task from another.
LEMMA NoneIntoFirst ==
  ASSUME design \in {Elaborate(g) : g \in Functions}, StartsOnce(G),
         NEW j \in Jumps(G), j.kind = "branch", j.outOfTask
  PROVE  G.task[j.dest] # G.task[Entry]
  <1>1. j = Jump(G, j.kind, j.at, j.src, j.dest, j.target) /\ j.src \in Blocks(G) /\ j.dest \in Blocks(G)
    BY DesignFacts, JumpShape, JumpTypes
  <1>2. ASSUME NEW k, k = Jump(G, j.kind, j.at, j.src, j.dest, j.target)
        PROVE  k.outOfTask = (G.task[j.src] # G.task[j.dest])
    BY <1>2, JumpFields
  <1>3. G.task[j.src] # G.task[j.dest]
    BY <1>1, <1>2
  <1>4. Edge(G, j.src, j.dest)
    BY JumpShape DEF OutOfStateTransitions, AllTransitions
  <1>5. G.task[j.dest] = G.task[Entry] => <<j.src, j.dest>> \in EdgesInto(G, G.task[Entry])
    BY <1>1, <1>3, <1>4 DEF EdgesInto
  <1> QED BY <1>5 DEF StartsOnce

\* Where a task without pipelines starts.
LEMMA StartsApart ==
  ASSUME design \in {Elaborate(g) : g \in Functions}, StartsOnce(G),
         NEW t, Sequentially(t), NEW s \in design.starts \cap Span(t)
  PROVE  s = IF t = G.task[Entry] THEN G.first[Entry] ELSE StartState(G, t)
  <1>1. /\ IsScheduled(G) /\ Entry \in Blocks(G)
        /\ design.starts = {StartState(G, G.task[b]) : b \in Blocks(G)}
    BY DesignFacts DEF IsScheduled
  <1>2. PICK a \in Blocks(G) : s = StartState(G, G.task[a])
    BY <1>1
  <1> DEFINE u == G.task[a]
             into(v) == {j \in Jumps(G) : j.kind = "branch" /\ j.outOfTask /\ G.task[j.dest] = v}
  <1>3. \A v : StartState(G, v) = IF into(v) # {} THEN (CHOOSE j \in into(v) : TRUE).target
                                 ELSE G.first[Entry]
    BY DEF StartState
  <1>4. into(G.task[Entry]) = {}
    BY NoneIntoFirst
  <1>5. G.first[Entry] \in Nat /\ Entry \in BlocksIn(G, G.first[Entry])
    BY <1>1 DEF IsScheduled, BlocksIn
  <1>6. ASSUME s = G.first[Entry] PROVE t = G.task[Entry]
    <2>1. Entry \in TaskBlocks(t)
      BY <1>5, <1>6, SpanStates
    <2> QED BY <2>1 DEF TaskBlocks
  <1>7. CASE into(u) = {}
    BY <1>2, <1>3, <1>6, <1>7
  <1>8. CASE into(u) # {}
    <2>1. PICK j \in into(u) : s = j.target
      BY <1>2, <1>3, <1>8
    <2>2. j.dest \in Blocks(G) /\ s = G.first[j.dest] /\ G.task[j.dest] = u
      BY <1>1, <2>1, JumpShape, JumpTypes
    <2>3. j.dest \in BlocksIn(G, s)
      <3>1. G.first[j.dest] \in Nat /\ G.first[j.dest] <= G.last[j.dest]
        BY <1>1, <2>2 DEF IsScheduled
      <3> QED BY <2>2, <3>1 DEF BlocksIn
    <2>4. u = t
      BY <2>2, <2>3, SpanStates DEF TaskBlocks
    <2> QED BY <1>2, <1>4, <1>8, <2>4
  <1> QED BY <1>7, <1>8

LEMMA ThreadInvAtFirst ==
  ASSUME \A g \in Functions : StartsOnce(g), TaskInit
  PROVE  ThreadInv
  <1>1. TypeInv
    BY TypeInvAtFirst DEF TaskInit
  <1>2. StartsOnce(G)
    BY <1>1, DesignFacts DEF TypeInv
  <1>3. ASSUME NEW t, Sequentially(t) PROVE AtMostOne(active \cap Span(t))
    BY <1>1, <1>2, <1>3, StartsApart DEF TypeInv, TaskInit, Init, AtMostOne
  <1> QED BY <1>1, <1>3 DEF ThreadInv, TaskInit, Init

\* What a jump that activates a state of the task means for its thread.
LEMMA ActivatedBy ==
  ASSUME TypeInv, StartsOnce(G), Cycle, NEW t, Sequentially(t), NEW s \in active' \cap Span(t)
  PROVE  \E j \in Jumps(G) : /\ s = j.target /\ Happens(j) /\ Arrives(j)
                             /\ ~j.leaves /\ j.delay = 0
                             /\ Own(j, t) \/ Inward(j, t)
  <1>1. design.jumps = Jumps(G)
    BY DesignFacts DEF TypeInv
  <1>2. PICK j \in Jumps(G) : s \in j.sets /\ Arrives(j)
    BY <1>1 DEF Cycle
  <1>3. /\ s = j.target /\ ~j.leaves /\ j.delay = 0
        /\ Own(j, t) \/ Inward(j, t)
    BY <1>2, SpanJumps DEF TypeInv
  <1> QED BY <1>2, <1>3 DEF Arrives

\* Of the jumps into a task at most one happens.
LEMMA OneArrival ==
  ASSUME ThreadInv, StartsOnce(G), NEW t, Sequentially(t),
         NEW j \in Jumps(G), Happens(j), Own(j, t) \/ Inward(j, t),
         NEW k \in Jumps(G), Happens(k), Own(k, t) \/ Inward(k, t)
  PROVE  j = k
  <1>1. TypeInv /\ IsScheduled(G)
    BY DesignFacts DEF ThreadInv, TypeInv
  <1>2. CASE Own(j, t) /\ Own(k, t)
    <2>1. j.at \in active \cap Span(t) /\ k.at \in active \cap Span(t)
      BY <1>1, <1>2, OwnIsStraight, LastJumps DEF Own
    <2>2. j.at = k.at
      BY <2>1 DEF ThreadInv, AtMostOne
    <2> QED BY <1>1, <1>2, <2>2, OwnIsStraight, OneJump
  <1>3. CASE Inward(j, t) /\ Inward(k, t)
    <2>1. PICK b \in Blocks(G) : G.task[b] = t
      BY DEF Sequentially, Tasks
    <2>2. t # G.task[Entry]
      BY <1>3 DEF StartsOnce, Inward
    <2>3. PICK e : EdgesInto(G, t) = {e}
      BY <2>1, <2>2 DEF StartsOnce
    <2>4. <<j.src, j.dest>> = <<k.src, k.dest>>
      BY <1>3, <2>3 DEF Inward
    <2>5. /\ G.br[j.src] = j.at /\ G.br[k.src] = k.at
          /\ j.target = G.first[j.dest] /\ k.target = G.first[k.dest]
      BY <1>3, JumpShape DEF Inward, OutOfStateTransitions, AllTransitions
    <2>6. /\ j = Jump(G, j.kind, j.at, j.src, j.dest, j.target)
          /\ k = Jump(G, k.kind, k.at, k.src, k.dest, k.target)
      BY JumpShape
    <2> QED BY <1>3, <2>4, <2>5, <2>6 DEF Inward
  <1>4. ASSUME NEW i \in Jumps(G), Happens(i), Inward(i, t),
               NEW o \in Jumps(G), Happens(o), Own(o, t)
        PROVE  FALSE
    <2>1. BlockActive(G.first[Entry], Entry)
      BY <1>4 DEF Happens, Inward
    <2>2. i.src \in Blocks(G) /\ i.dest \in Blocks(G) /\ G.task[i.src] # t /\ G.task[i.dest] = t
      BY <1>4 DEF Inward, EdgesInto
    <2>3. Several
      BY <2>2 DEF Several
    <2>4. clock = 0
      BY <1>1, <2>1, <2>3, EntryRests DEF ThreadInv
    <2>5. entryBB = [x \in States(G) |-> Entry] /\ o.at \in States(G)
      BY <1>1, <2>4, JumpTypes DEF ThreadInv
    <2>6. Entry \in BlocksIn(G, o.at) /\ o.at \in Span(t)
      BY <1>1, <1>4, <2>5, OwnIsStraight, LastJumps DEF Own
    <2>7. t = G.task[Entry]
      BY <1>1, <2>6, SpanStates DEF TypeInv, TaskBlocks
    <2>8. <<i.src, i.dest>> \in EdgesInto(G, G.task[Entry])
      BY <1>4, <2>7 DEF Inward
    <2> QED BY <2>8 DEF StartsOnce
  <1> QED BY <1>2, <1>3, <1>4

LEMMA ThreadsStay ==
  ASSUME ThreadInv, StartsOnce(G), Cycle, NEW t, Sequentially(t)
  PROVE  AtMostOne(active' \cap Span(t))
  <1> SUFFICES ASSUME NEW r \in active' \cap Span(t), NEW s \in active' \cap Span(t)
               PROVE  r = s
    BY DEF AtMostOne
  <1>1. TypeInv
    BY DEF ThreadInv
  <1>2. PICK j \in Jumps(G) : r = j.target /\ Happens(j) /\ (Own(j, t) \/ Inward(j, t))
    BY <1>1, ActivatedBy
  <1>3. PICK k \in Jumps(G) : s = k.target /\ Happens(k) /\ (Own(k, t) \/ Inward(k, t))
    BY <1>1, ActivatedBy
  <1> QED BY <1>2, <1>3, OneArrival

LEMMA CycleKeepsThreads ==
  ASSUME ThreadInv, StartsOnce(G), TaskCycle
  PROVE  ThreadInv'
  <1>1. TypeInv /\ Cycle /\ TypeInv'
    BY CycleKeepsTypes DEF ThreadInv, TaskCycle
  <1>2. G' = G /\ design' = design
    BY <1>1 DEF Cycle, G
  <1>3. clock' \in 0 .. 2 /\ clock' # 0
    BY DEF ThreadInv, TaskCycle
  <1>4. clock' > 0 /\ Several' => EntryGone'
    BY <1>1, <1>2, EntryOnce DEF Several
  <1>5. ASSUME NEW t, Sequentially(t)' PROVE AtMostOne(active' \cap Span(t)')
    <2>1. Sequentially(t) /\ Span(t)' = Span(t)
      BY <1>2, <1>5 DEF Sequentially, Span, Tasks, TaskBlocks
    <2> QED BY <1>1, <2>1, ThreadsStay
  <1> QED BY <1>1, <1>3, <1>4, <1>5 DEF ThreadInv, AtMostOne

LEMMA ThreadsRest ==
  ASSUME ThreadInv, UNCHANGED taskVars
  PROVE  ThreadInv'
  <1>1. bbActive' = bbActive /\ ActiveWires' = ActiveWires /\ UNCHANGED <<vars, clock>>
    BY DEF taskVars, vars, registers, wires, ActiveWires, Settled, Spread, Entered, Onward,
           Chosen, G
  <1>2. TypeInv'
    BY <1>1 DEF ThreadInv, TypeInv, vars, registers, wires, G, Conditional
  <1> QED BY <1>1, <1>2 DEF ThreadInv, vars, registers, wires, G, Several, EntryGone,
                            Sequentially, Span, Tasks, TaskBlocks, AtMostOne

LEMMA ThreadInvariance ==
  ASSUME \A g \in Functions : StartsOnce(g)
  PROVE  TaskSpec => []ThreadInv
  <1>1. ThreadInv /\ [TaskCycle]_taskVars => ThreadInv'
    <2>1. ASSUME ThreadInv, TaskCycle PROVE ThreadInv'
      BY <2>1, CycleKeepsThreads, DesignFacts DEF ThreadInv, TypeInv
    <2> QED BY <2>1, ThreadsRest
  <1> QED BY <1>1, ThreadInvAtFirst, PTL DEF TaskSpec

\* The states a task runs in, as the registers show them.
RunsIn(act, entry, t) == {s \in act : entry[s] \in TaskBlocks(t) \cap BlocksIn(G, s)}

LEMMA RunsInSpan ==
  ASSUME design \in {Elaborate(g) : g \in Functions}, NEW t, NEW act, act \subseteq States(G), NEW entry
  PROVE  RunsIn(act, entry, t) \subseteq act \cap Span(t)
  <1> SUFFICES ASSUME NEW s \in RunsIn(act, entry, t) PROVE s \in Span(t)
    BY DEF RunsIn
  <1>1. s \in States(G) /\ s \in Nat
    BY DesignFacts DEF RunsIn, IsScheduled
  <1>2. PICK b \in TaskBlocks(t) : G.first[b] <= s /\ s <= G.last[b]
    BY DEF RunsIn, BlocksIn
  <1>3. G.first[b] \in Nat /\ G.last[b] \in Nat
    BY DesignFacts DEF IsScheduled, TaskBlocks
  <1> QED BY <1>1, <1>2, <1>3 DEF Span

(* A task without pipelines is a single thread of control, however the     *)
(* others proceed, for every design the constraints allow: if each task is *)
(* entered once, control neither splits nor leaks from one to another.     *)
THEOREM ThreadsOfTasks ==
  ASSUME \A g \in Functions : StartsOnce(g)
  PROVE  TaskSpec => []TasksAreThreads
  <1>1. ASSUME ThreadInv PROVE TasksAreThreads
    <2> SUFFICES ASSUME NEW t \in Tasks, Sequentially(t)
                 PROVE  Cardinality(Running(t)) <= 1
      BY DEF TasksAreThreads
    <2>1. Running(t) \subseteq active \cap Span(t)
      <3>1. Running(t) = RunsIn(active, entryBB, t)
        BY DEF Running, RunsIn
      <3> QED BY <1>1, <3>1, RunsInSpan DEF ThreadInv, TypeInv
    <2>2. \A r, s \in Running(t) : r = s
      BY <1>1, <2>1 DEF ThreadInv, AtMostOne
    <2>3. CASE Running(t) = {}
      BY <2>3, FS_EmptySet
    <2>4. CASE Running(t) # {}
      <3>1. PICK s : Running(t) = {s}
        BY <2>2, <2>4
      <3> QED BY <3>1, FS_Singleton
    <2> QED BY <2>3, <2>4
  <1> QED BY <1>1, ThreadInvariance, PTL
-----------------------------------------------------------------------------
(* Where control arrives.                                                  *)

LEMMA BlockStates ==
  ASSUME design \in {Elaborate(g) : g \in Functions}, NEW b \in Blocks(G)
  PROVE  /\ G.first[b] \in Nat /\ G.br[b] \in Nat /\ G.last[b] \in Nat
         /\ G.first[b] <= G.br[b] /\ G.br[b] <= G.last[b]
         /\ G.first[Entry] <= G.first[b] /\ ~Edge(G, b, Entry)
         /\ b \in BlocksIn(G, G.first[b])
         /\ \A s \in G.first[b] .. G.last[b] : s \in States(G) /\ b \in BlocksIn(G, s)
  <1>1. IsScheduled(G) /\ Constrained(G)
    BY DesignFacts, ScheduleAssumption
  <1>2. /\ DOMAIN G.first = Blocks(G) /\ G.first[b] <= G.last[b]
        /\ G.first[b] \in Nat /\ G.br[b] \in Nat /\ G.last[b] \in Nat
        /\ G.first[b] .. G.last[b] \subseteq States(G)
    BY <1>1 DEF IsScheduled
  <1>3. G.first[b] <= G.br[b] /\ (G.br[b] <= G.last[b] \/ G.br[b] = G.last[b])
    BY <1>1, <1>2 DEF Constrained, BlockTimes
  <1>4. G.first[Entry] <= G.first[b] /\ ~Edge(G, b, Entry)
    BY <1>1 DEF Constrained, EntryFirst
  <1> QED BY <1>2, <1>3, <1>4 DEF BlocksIn

\* The jumps of a task without pipelines, and those into it, stay in its states.
LEMMA TargetInSpan ==
  ASSUME design \in {Elaborate(g) : g \in Functions}, StartsOnce(G), RestartsAtEntry(G),
         NEW t, Sequentially(t), NEW j \in Jumps(G), Own(j, t) \/ Inward(j, t)
  PROVE  /\ j.target \in Span(t)
         /\ j.kind = "branch" => j.dest \in TaskBlocks(t) /\ Edge(G, j.src, j.dest)
         /\ j.kind = "return" /\ G.retState # NoState =>
              t = G.task[Entry] /\ j.target = G.first[Entry]
         /\ j.kind = "stay" => j.target \in G.first[j.src] + 1 .. G.last[j.src]
  <1>1. IsScheduled(G) /\ Entry \in Blocks(G) /\ j.src \in Blocks(G) /\ j.dest \in Blocks(G)
        /\ j.at \in Nat
    BY DesignFacts, JumpTypes DEF IsScheduled
  <1>2. CASE j.kind = "branch"
    <2>1. j.target = G.first[j.dest] /\ Edge(G, j.src, j.dest)
      BY <1>2, JumpShape DEF OutOfStateTransitions, AllTransitions
    <2>2. G.task[j.dest] = t
      <3>1. CASE Own(j, t)
        <4>1. j = Jump(G, j.kind, j.at, j.src, j.dest, j.target)
          BY JumpShape
        <4>2. j.outOfTask = (G.task[j.src] # G.task[j.dest])
          BY <4>1, JumpFields
        <4> QED BY <3>1, <4>2 DEF Own, TaskBlocks
      <3>2. CASE Inward(j, t)
        BY <3>2 DEF Inward, EdgesInto
      <3> QED BY <3>1, <3>2
    <2>3. G.first[j.dest] \in G.first[j.dest] .. G.last[j.dest] /\ G.first[j.dest] \in States(G)
      BY <1>1, BlockStates
    <2> QED BY <1>1, <1>2, <2>1, <2>2, <2>3 DEF Span, TaskBlocks
  <1>3. CASE j.kind = "return"
    <2>1. Own(j, t) /\ j.target = IF G.retState = NoState THEN j.at ELSE G.retState
      BY <1>3, JumpShape DEF Inward
    <2>2. CASE G.retState = NoState
      BY <1>3, <2>1, <2>2 DEF Own
    <2>3. CASE G.retState # NoState
      <3>1. t = G.task[Entry] /\ j.target = G.first[Entry]
        <4>1. \A b \in Blocks(G) : G.task[b] = G.task[Entry]
          BY <2>3 DEF StartsOnce
        <4> QED BY <2>1, <2>3, <4>1 DEF RestartsAtEntry, Own, TaskBlocks
      <3>2. G.first[Entry] \in G.first[Entry] .. G.last[Entry] /\ G.first[Entry] \in States(G)
        BY <1>1, BlockStates
      <3> QED BY <1>1, <1>3, <3>1, <3>2 DEF Span, TaskBlocks
    <2> QED BY <2>2, <2>3
  <1>4. CASE j.kind = "stay"
    <2>1. /\ Own(j, t) /\ j.target = j.at + 1 /\ G.last[j.src] # j.at
          /\ G.first[j.src] <= j.at /\ j.at <= G.last[j.src]
      BY <1>4, JumpShape DEF Inward, InProgress, BlocksIn
    <2>2. j.target \in G.first[j.src] + 1 .. G.last[j.src]
          /\ j.target \in G.first[j.src] .. G.last[j.src] /\ j.target \in States(G)
      BY <1>1, <2>1, BlockStates
    <2> QED BY <1>4, <2>1, <2>2 DEF Span, Own
  <1> QED BY <1>2, <1>3, <1>4, JumpShape

\* What the registers show of the one jump that happens.
LEMMA Landing ==
  ASSUME ThreadInv, StartsOnce(G), RestartsAtEntry(G), Cycle, NEW t, Sequentially(t),
         NEW j \in Jumps(G), Happens(j), Own(j, t) \/ Inward(j, t)
  PROVE  /\ j.target \in active'
         /\ entryBB'[j.target] = IF j.kind = "return" /\ G.retState # NoState
                                   THEN entryBB[j.target] ELSE j.dest
         /\ lastBB'[j.target] = LastBlock(j)
  <1> DEFINE s == j.target
  <1>1. /\ design \in {Elaborate(g) : g \in Functions} /\ design.jumps = Jumps(G)
        /\ s \in Span(t) /\ s \in States(G)
    BY DesignFacts, TargetInSpan, SpanStates DEF ThreadInv, TypeInv
  <1>2. ASSUME NEW k \in Jumps(G), k.target = s
        PROVE  s \in k.sets /\ ~k.leaves /\ k.delay = 0 /\ (Own(k, t) \/ Inward(k, t))
    <2>1. s \in k.sets
      <3>1. k = Jump(G, k.kind, k.at, k.src, k.dest, k.target)
        BY JumpShape
      <3> QED BY <1>2, <3>1, JumpFields
    <2> QED BY <1>1, <2>1, SpanJumps
  <1>3. Arrives(j) /\ s \in j.sets
    BY <1>2 DEF Arrives
  <1>4. \A k \in EntryWrites(s) \cup LastWrites(s) : k = j
    BY <1>1, <1>2, OneArrival DEF EntryWrites, LastWrites
  <1>5. j \in LastWrites(s)
    BY <1>1 DEF LastWrites
  <1>6. IF j.kind = "return" /\ G.retState # NoState THEN EntryWrites(s) = {}
                                                     ELSE j \in EntryWrites(s)
    BY <1>1, <1>2, <1>4 DEF EntryWrites
  <1>7. active' = UNION {k.sets : k \in {i \in design.jumps : Arrives(i)}}
        /\ entryBB'[s] = EntryNext(s) /\ lastBB'[s] = LastNext(s)
    BY <1>1 DEF Cycle
  <1>8. s \in active'
    BY <1>1, <1>3, <1>7
  <1>9. lastBB'[s] = LastBlock(j)
    BY <1>4, <1>5, <1>7 DEF LastNext
  <1>10. entryBB'[s] = IF j.kind = "return" /\ G.retState # NoState
                         THEN entryBB[s] ELSE j.dest
    BY <1>4, <1>6, <1>7 DEF EntryNext
  <1> QED BY <1>8, <1>9, <1>10
-----------------------------------------------------------------------------
(* What an active state of such a task executes.                           *)

Executing(t) ==
  \A s \in active \cap Span(t) :
    LET b == entryBB[s]
    IN  /\ b \in BlocksIn(G, s)
        /\ s = G.first[b] /\ b # Entry /\ G.succ[b] # <<>> => Edge(G, lastBB[s], b)

ExecInv ==
  /\ ThreadInv
  /\ G.retState # NoState /\ Sequentially(G.task[Entry]) => entryBB[G.first[Entry]] = Entry
  /\ clock > 0 => \A t : Sequentially(t) => Executing(t)

LEMMA EntryStays ==
  ASSUME TypeInv, Cycle, RestartsAtEntry(G), G.retState # NoState
  PROVE  entryBB'[G.first[Entry]] = entryBB[G.first[Entry]]
  <1> DEFINE f == G.first[Entry]
  <1>1. /\ IsScheduled(G) /\ f \in States(G) /\ design.jumps = Jumps(G) /\ Entry \in Blocks(G)
        /\ f \in Nat
    BY DesignFacts DEF TypeInv, IsScheduled
  <1>2. ASSUME NEW k \in EntryWrites(f) PROVE FALSE
    <2>1. k \in Jumps(G) /\ k.target = f /\ k.kind # "return" /\ k.kind # "branch"
      BY <1>1 DEF EntryWrites, RestartsAtEntry
    <2>2. /\ k.src \in Blocks(G) /\ k.at \in Nat /\ G.first[k.src] <= k.at /\ f = k.at + 1
      BY <1>1, <2>1, JumpShape, JumpTypes DEF InProgress, BlocksIn, IsScheduled
    <2>3. f <= G.first[k.src] /\ G.first[k.src] \in Nat
      BY <2>2, BlockStates DEF TypeInv
    <2> QED BY <1>1, <2>2, <2>3
  <1> QED BY <1>1, <1>2 DEF Cycle, EntryNext

LEMMA CycleKeepsExecuting ==
  ASSUME ExecInv, StartsOnce(G), RestartsAtEntry(G), Cycle, NEW t, Sequentially(t),
         NEW s \in active' \cap Span(t)
  PROVE  /\ entryBB'[s] \in BlocksIn(G, s)
         /\ s = G.first[entryBB'[s]] /\ entryBB'[s] # Entry /\ G.succ[entryBB'[s]] # <<>>
              => Edge(G, lastBB'[s], entryBB'[s])
  <1>1. /\ ThreadInv /\ TypeInv /\ IsScheduled(G) /\ Entry \in Blocks(G)
        /\ design \in {Elaborate(g) : g \in Functions}
    BY DesignFacts DEF ExecInv, ThreadInv, TypeInv, IsScheduled
  <1>2. PICK j \in Jumps(G) : s = j.target /\ Happens(j) /\ (Own(j, t) \/ Inward(j, t))
    BY <1>1, ActivatedBy
  <1>3. /\ entryBB'[s] = IF j.kind = "return" /\ G.retState # NoState THEN entryBB[s] ELSE j.dest
        /\ lastBB'[s] = LastBlock(j)
        /\ j.src \in Blocks(G) /\ j.dest \in Blocks(G)
    BY <1>1, <1>2, Landing, JumpTypes
  <1>4. CASE j.kind = "branch"
    <2>1. s = G.first[j.dest] /\ Edge(G, j.src, j.dest) /\ j.dest \in BlocksIn(G, s)
      BY <1>1, <1>2, <1>3, <1>4, JumpShape, TargetInSpan, BlockStates
    <2> QED BY <1>3, <1>4, <2>1 DEF LastBlock
  <1>5. CASE j.kind = "stay"
    <2>1. j.dest = j.src /\ s \in G.first[j.src] + 1 .. G.last[j.src] /\ G.first[j.src] \in Nat
          /\ G.last[j.src] \in Nat
      BY <1>1, <1>2, <1>3, <1>5, JumpShape, TargetInSpan, BlockStates
    <2>2. s \in G.first[j.src] .. G.last[j.src] /\ s # G.first[j.src]
      BY <2>1
    <2>3. j.src \in BlocksIn(G, s)
      BY <1>1, <1>3, <2>2, BlockStates
    <2> QED BY <1>3, <1>5, <2>1, <2>2, <2>3
  <1>6. CASE j.kind = "return" /\ G.retState = NoState
    <2>1. j.dest = j.src /\ s = j.at /\ G.br[j.src] = j.at /\ G.succ[j.src] = <<>>
      BY <1>2, <1>6, JumpShape DEF Returning
    <2>2. s \in G.first[j.src] .. G.last[j.src]
      BY <1>1, <1>3, <2>1, BlockStates
    <2>3. j.src \in BlocksIn(G, s)
      BY <1>1, <1>3, <2>2, BlockStates
    <2> QED BY <1>3, <1>6, <2>1, <2>3
  <1>7. CASE j.kind = "return" /\ G.retState # NoState
    <2>1. t = G.task[Entry] /\ s = G.first[Entry]
      BY <1>1, <1>2, <1>7, TargetInSpan
    <2>2. entryBB'[s] = Entry
      BY <1>3, <1>7, <2>1 DEF ExecInv
    <2> QED BY <1>1, <2>1, <2>2, BlockStates
  <1> QED BY <1>4, <1>5, <1>6, <1>7, JumpShape

LEMMA ExecInvAtFirst ==
  ASSUME \A g \in Functions : StartsOnce(g) /\ RestartsAtEntry(g), TaskInit
  PROVE  ExecInv
  <1>1. ThreadInv
    BY ThreadInvAtFirst
  <1>2. Entry \in Blocks(G) /\ G.first[Entry] \in States(G)
    BY <1>1, DesignFacts DEF ThreadInv, TypeInv, IsScheduled
  <1> QED BY <1>1, <1>2 DEF ExecInv, TaskInit, Init

LEMMA CycleKeepsExec ==
  ASSUME ExecInv, StartsOnce(G), RestartsAtEntry(G), TaskCycle
  PROVE  ExecInv'
  <1>1. ThreadInv /\ ThreadInv' /\ Cycle
    BY CycleKeepsThreads DEF ExecInv, TaskCycle
  <1>2. G' = G
    BY <1>1 DEF Cycle, G
  <1>3. G.retState # NoState /\ Sequentially(G.task[Entry]) =>
          entryBB'[G.first[Entry]] = Entry
    BY <1>1, EntryStays DEF ExecInv, ThreadInv
  <1>4. ASSUME NEW t, Sequentially(t) PROVE Executing(t)'
    <2>1. ASSUME NEW s \in active' \cap Span(t)
          PROVE  /\ entryBB'[s] \in BlocksIn(G, s)
                 /\ s = G.first[entryBB'[s]] /\ entryBB'[s] # Entry /\ G.succ[entryBB'[s]] # <<>>
                      => Edge(G, lastBB'[s], entryBB'[s])
      BY <1>1, <1>4, CycleKeepsExecuting
    <2>2. Span(t)' = Span(t)
      BY <1>2 DEF Span, TaskBlocks
    <2> QED BY <1>2, <2>1, <2>2 DEF Executing
  <1>5. ASSUME NEW t, Sequentially(t)' PROVE Executing(t)'
    <2>1. Sequentially(t)
      BY <1>2, <1>5 DEF Sequentially, Tasks
    <2> QED BY <1>4, <2>1
  <1>6. Sequentially(G.task[Entry])' => Sequentially(G.task[Entry])
    BY <1>2 DEF Sequentially, Tasks
  <1> QED BY <1>1, <1>2, <1>3, <1>5, <1>6 DEF ExecInv

LEMMA ExecRests ==
  ASSUME ExecInv, UNCHANGED taskVars
  PROVE  ExecInv'
  <1>1. ThreadInv'
    BY ThreadsRest DEF ExecInv
  <1> QED BY <1>1 DEF ExecInv, taskVars, vars, registers, wires, G, Executing, Sequentially, Span,
                      Tasks, TaskBlocks

LEMMA ExecInvariance ==
  ASSUME \A g \in Functions : StartsOnce(g) /\ RestartsAtEntry(g)
  PROVE  TaskSpec => []ExecInv
  <1>1. TaskInit => ExecInv
    BY ExecInvAtFirst
  <1>2. ExecInv /\ [TaskCycle]_taskVars => ExecInv'
    <2>1. ASSUME ExecInv, TaskCycle PROVE ExecInv'
      BY <2>1, CycleKeepsExec, DesignFacts DEF ExecInv, ThreadInv, TypeInv
    <2> QED BY <2>1, ExecRests
  <1> QED BY <1>1, <1>2, PTL DEF TaskSpec
-----------------------------------------------------------------------------
(* Functions without pipelines.                                            *)

Plain(g) == \A s \in States(g) : g.pipe[s] = NoPipeline

LEMMA PlainTasks ==
  ASSUME TypeInv, Plain(G), NEW b \in Blocks(G)
  PROVE  Sequentially(G.task[b])
  BY DesignFacts DEF TypeInv, Plain, Sequentially, Tasks, WithoutPipelines, IsScheduled

\* Every jump is one of a task or leads into one.
LEMMA PlainJumps ==
  ASSUME TypeInv, Plain(G), NEW j \in Jumps(G)
  PROVE  /\ j.sets = {j.target} /\ ~j.leaves /\ j.delay = 0
         /\ \E t : Sequentially(t) /\ (Own(j, t) \/ Inward(j, t))
  <1>1. /\ IsScheduled(G) /\ j.src \in Blocks(G) /\ j.dest \in Blocks(G)
        /\ j.at \in States(G) /\ j.target \in States(G)
        /\ j = Jump(G, j.kind, j.at, j.src, j.dest, j.target)
    BY DesignFacts, JumpTypes, JumpShape DEF TypeInv
  <1>2. j.sets = {j.target} /\ ~j.leaves /\ j.delay = 0
    BY <1>1, JumpFields DEF Plain
  <1>3. j.outOfTask = (G.task[j.src] # G.task[j.dest])
    BY <1>1, JumpFields
  <1>4. j.at \in G.first[j.src] .. G.last[j.src]
    <2>1. G.first[j.src] <= j.at /\ j.at <= G.last[j.src]
      <3>1. j.at \in Nat
        BY <1>1 DEF IsScheduled
      <3>2. G.br[j.src] = j.at \/ j.src \in BlocksIn(G, j.at)
        BY JumpShape DEF OutOfStateTransitions, AllTransitions, Returning, InProgress
      <3> QED BY <1>1, <3>1, <3>2, BlockStates DEF TypeInv, BlocksIn
    <2>2. j.at \in Nat /\ G.first[j.src] \in Nat /\ G.last[j.src] \in Nat
      BY <1>1 DEF IsScheduled
    <2> QED BY <2>1, <2>2
  <1>5. CASE ~j.outOfTask
    <2>1. Own(j, G.task[j.src])
      BY <1>1, <1>4, <1>5 DEF Own, Span, TaskBlocks
    <2> QED BY <1>1, <1>2, <2>1, PlainTasks
  <1>6. CASE j.outOfTask
    <2>1. j.kind = "branch" /\ Edge(G, j.src, j.dest)
      BY <1>3, <1>6, JumpShape DEF OutOfStateTransitions, AllTransitions
    <2>2. Inward(j, G.task[j.dest])
      BY <1>1, <1>3, <1>6, <2>1 DEF Inward, EdgesInto
    <2> QED BY <1>1, <1>2, <2>2, PlainTasks
  <1>7. j.outOfTask \in BOOLEAN
    BY <1>3
  <1> QED BY <1>5, <1>6, <1>7

\* Two jumps to one state are jumps of one task.
LEMMA PlainOneJump ==
  ASSUME ThreadInv, Plain(G), StartsOnce(G), RestartsAtEntry(G),
         NEW j \in Jumps(G), Happens(j), NEW k \in Jumps(G), Happens(k), j.target = k.target
  PROVE  j = k
  <1>1. TypeInv
    BY DEF ThreadInv
  <1>2. PICK t : Sequentially(t) /\ (Own(j, t) \/ Inward(j, t))
    BY <1>1, PlainJumps
  <1>3. k.target \in Span(t)
    BY <1>1, <1>2, TargetInSpan DEF TypeInv
  <1>4. k.target \in k.sets
    BY <1>1, PlainJumps
  <1>5. Own(k, t) \/ Inward(k, t)
    BY <1>1, <1>2, <1>3, <1>4, SpanJumps DEF TypeInv
  <1> QED BY <1>2, <1>5, OneArrival

(* In a function without pipelines no register of the control path gets    *)
(* two values in one cycle: the assertions of the Verilog back end hold,   *)
(* for every design in which tasks start once and returns lead to the      *)
(* entry.                                                                  *)
THEOREM NoOverlaps ==
  ASSUME \A g \in Functions : StartsOnce(g) /\ RestartsAtEntry(g) /\ Plain(g)
  PROVE  TaskSpec => []NoOverlappingTransitions
  <1>1. ASSUME ThreadInv PROVE NoOverlappingTransitions
    <2>1. TypeInv /\ G \in Functions /\ design.jumps = Jumps(G)
      BY <1>1, DesignFacts DEF ThreadInv, TypeInv
    <2>2. StartsOnce(G) /\ RestartsAtEntry(G) /\ Plain(G)
      BY <2>1
    <2>3. \A s : \A j \in Jumps(G) : s \in j.sets /\ Arrives(j) => j.target = s /\ Happens(j)
      BY <2>1, <2>2, PlainJumps DEF Arrives
    <2>4. \A s : \A j \in EntryWrites(s) \cup LastWrites(s) :
            j \in Jumps(G) /\ j.target = s /\ Happens(j)
      BY <2>1, <2>2, PlainJumps DEF EntryWrites, LastWrites
    <2> QED BY <1>1, <2>1, <2>2, <2>3, <2>4, PlainOneJump
            DEF NoOverlappingTransitions, AtMostOne, noOverlappingStateTransitions,
                noOverlappingBlockTransitions, noOverlappingLastBlockTransitions
  <1>2. \A g \in Functions : StartsOnce(g)
    OBVIOUS
  <1> QED BY <1>1, <1>2, ThreadInvariance, PTL

\* Where there are no pipelines, every active state is one of a task.
PlacedInv ==
  /\ ExecInv
  /\ clock > 0 => \A s \in active : \E t : Sequentially(t) /\ s \in Span(t)

LEMMA PlacedInvariance ==
  ASSUME \A g \in Functions : StartsOnce(g) /\ RestartsAtEntry(g) /\ Plain(g)
  PROVE  TaskSpec => []PlacedInv
  <1>1. TaskInit => PlacedInv
    BY ExecInvAtFirst DEF PlacedInv, TaskInit
  <1>2. PlacedInv /\ [TaskCycle]_taskVars => PlacedInv'
    <2>1. ASSUME PlacedInv, TaskCycle PROVE PlacedInv'
      <3>1. /\ ExecInv /\ TypeInv /\ Cycle /\ design.jumps = Jumps(G)
            /\ StartsOnce(G) /\ RestartsAtEntry(G) /\ Plain(G)
        BY <2>1, DesignFacts DEF PlacedInv, ExecInv, ThreadInv, TypeInv, TaskCycle
      <3>2. ExecInv' /\ G' = G
        BY <2>1, <3>1, CycleKeepsExec DEF Cycle, G
      <3>3. ASSUME NEW s \in active' PROVE (\E t : Sequentially(t) /\ s \in Span(t))'
        <4>1. PICK j \in Jumps(G) : s \in j.sets
          BY <3>1 DEF Cycle
        <4>2. PICK t : Sequentially(t) /\ (Own(j, t) \/ Inward(j, t))
          BY <3>1, PlainJumps
        <4>3. s \in Span(t)
          BY <3>1, <4>1, <4>2, PlainJumps, TargetInSpan DEF TypeInv
        <4>4. Sequentially(t)' /\ s \in Span(t)'
          BY <3>2, <4>2, <4>3 DEF Sequentially, Span, Tasks, TaskBlocks
        <4> QED BY <4>4
      <3> QED BY <3>2, <3>3 DEF PlacedInv
    <2>2. ASSUME PlacedInv, UNCHANGED taskVars PROVE PlacedInv'
      <3>1. ExecInv'
        BY <2>2, ExecRests DEF PlacedInv
      <3> QED BY <2>2, <3>1 DEF PlacedInv, taskVars, vars, registers, G, Sequentially, Span, Tasks,
                                 TaskBlocks
    <2> QED BY <2>1, <2>2
  <1> QED BY <1>1, <1>2, PTL DEF TaskSpec

(* In a function without pipelines every active state executes a block,    *)
(* from the cycle after the reset on: control is never in a state that     *)
(* does nothing and leads nowhere.                                         *)
THEOREM StatesExecute ==
  ASSUME \A g \in Functions : StartsOnce(g) /\ RestartsAtEntry(g) /\ Plain(g)
  PROVE  TaskSpec => []StartedStatesExecute
  <1>1. PlacedInv => StartedStatesExecute
    BY DEF PlacedInv, ExecInv, Executing, StartedStatesExecute, ActiveStatesExecute
  <1> QED BY <1>1, PlacedInvariance, PTL

(* In a function without pipelines a block that starts was reached along   *)
(* an edge of the graph from the block its phi functions are told of.      *)
THEOREM EntriesAlongEdges ==
  ASSUME \A g \in Functions : StartsOnce(g) /\ RestartsAtEntry(g) /\ Plain(g)
  PROVE  TaskSpec => []EntriesFollowEdges
  <1>1. PlacedInv => EntriesFollowEdges
    BY DEF PlacedInv, ExecInv, Executing, EntriesFollowEdges
  <1> QED BY <1>1, PlacedInvariance, PTL
-----------------------------------------------------------------------------
(* Each task implements the sequential execution of its part of the graph. *)

Task(t) == INSTANCE Sequential
             WITH targets <- G.succ,
                  length  <- [b \in Blocks(G) |-> G.last[b] - G.first[b]],
                  again   <- G.retState # NoState,
                  mine    <- BlocksOf(t), start <- StartOf(t),
                  cur     <- BlockOf(t), from  <- CameFrom(t), stage <- StageOf(t)

LEMMA ConstantsStay ==
  ASSUME G' = G, NEW t
  PROVE  (Task(t)!constants)' = Task(t)!constants
  BY DEF Task!constants, BlocksOf, StartOf, Sequentially, Tasks, TaskBlocks, Into

LEMMA RunsInOne ==
  ASSUME design \in {Elaborate(g) : g \in Functions}, NEW t, Sequentially(t),
         NEW act, act \subseteq States(G), NEW entry, AtMostOne(act \cap Span(t)),
         NEW s \in act \cap Span(t), entry[s] \in BlocksIn(G, s)
  PROVE  RunsIn(act, entry, t) = {s}
  <1>1. s \in RunsIn(act, entry, t)
    BY SpanStates DEF RunsIn
  <1>2. \A r \in RunsIn(act, entry, t) : r = s
    BY RunsInSpan DEF AtMostOne
  <1> QED BY <1>1, <1>2

\* What the abstract execution sees of a thread, and of one that is gone.
LEMMA Shown ==
  ASSUME NEW t, NEW s, Sequentially(t), Running(t) = {s}
  PROVE  /\ BlockOf(t) = entryBB[s] /\ CameFrom(t) = lastBB[s]
         /\ StageOf(t) = s - G.first[entryBB[s]]
  <1>1. Here(t) = s /\ ~Gone(t) /\ ~Waiting(t)
    BY DEF Here, Gone, Waiting
  <1> QED BY <1>1 DEF BlockOf, CameFrom, StageOf

LEMMA ShownNext ==
  ASSUME NEW t, NEW s, Sequentially(t)', Running(t)' = {s}, G' = G
  PROVE  /\ BlockOf(t)' = entryBB'[s] /\ CameFrom(t)' = lastBB'[s]
         /\ StageOf(t)' = s - G.first[entryBB'[s]]
  <1>1. Here(t)' = s /\ ~Gone(t)' /\ ~Waiting(t)'
    BY DEF Here, Gone, Waiting
  <1> QED BY <1>1 DEF BlockOf, CameFrom, StageOf

LEMMA GoneNext ==
  ASSUME NEW t, Gone(t)'
  PROVE  BlockOf(t)' = NoBlock /\ CameFrom(t)' = NoBlock /\ StageOf(t)' = 0
  <1> ~Waiting(t)'
    BY DEF Gone, Waiting
  <1>1. BlockOf(t)' = NoBlock
    BY DEF BlockOf
  <1>2. CameFrom(t)' = NoBlock
    BY DEF CameFrom
  <1>3. StageOf(t)' = 0
    BY DEF StageOf
  <1> QED BY <1>1, <1>2, <1>3

\* Where a jump takes the thread.
LEMMA Shift ==
  ASSUME ExecInv, StartsOnce(G), RestartsAtEntry(G), TaskCycle, NEW t, Sequentially(t),
         NEW j \in Jumps(G), Happens(j), Own(j, t) \/ Inward(j, t)
  PROVE  LET b == IF j.kind = "return" /\ G.retState # NoState THEN Entry ELSE j.dest
         IN  /\ BlockOf(t)' = b /\ CameFrom(t)' = LastBlock(j)
             /\ StageOf(t)' = j.target - G.first[b]
  <1>1. /\ ExecInv' /\ ThreadInv /\ Cycle /\ G' = G
        /\ design \in {Elaborate(g) : g \in Functions}
    BY CycleKeepsExec DEF ExecInv, ThreadInv, TypeInv, TaskCycle, Cycle, G
  <1>2. /\ j.target \in active' /\ j.target \in Span(t)
        /\ entryBB'[j.target] = IF j.kind = "return" /\ G.retState # NoState
                                  THEN entryBB[j.target] ELSE j.dest
        /\ lastBB'[j.target] = LastBlock(j)
    BY <1>1, Landing, TargetInSpan
  <1>3. j.kind = "return" /\ G.retState # NoState => entryBB[j.target] = Entry
    BY <1>1, TargetInSpan DEF ExecInv
  <1>4. Running(t)' = RunsIn(active', entryBB', t) /\ Sequentially(t)'
    BY <1>1 DEF Running, RunsIn, TaskBlocks, Sequentially, Tasks
  <1>5. active' \subseteq States(G) /\ AtMostOne(active' \cap Span(t))
    <2>1. ThreadInv' /\ Span(t)' = Span(t)
      BY <1>1 DEF ExecInv, Span, TaskBlocks
    <2> QED BY <1>1, <1>4, <2>1 DEF ThreadInv, TypeInv, AtMostOne
  <1>6. entryBB'[j.target] \in BlocksIn(G, j.target)
    BY <1>1, <1>2, CycleKeepsExecuting
  <1>7. Running(t)' = {j.target}
    BY <1>1, <1>2, <1>4, <1>5, <1>6, RunsInOne
  <1> QED BY <1>1, <1>2, <1>3, <1>4, <1>7, ShownNext

-----------------------------------------------------------------------------
(* A step of a task is one of the sequential execution.                    *)

\* The blocks run through are distinct blocks of the task, all but the outer
\* two with a single stage.
LEMMA ChainFacts ==
  ASSUME TypeInv, NEW t, Sequentially(t), NEW s \in Span(t), s \in active,
         NEW c, RunsThrough(c, s)
  PROVE  /\ c \in Seq(Blocks(G)) /\ Len(c) \in Nat \ {0} /\ c[1] = entryBB[s]
         /\ \A i \in 1 .. Len(c) : c[i] \in TaskBlocks(t) /\ c[i] \in BlocksIn(G, s)
         /\ \A i, j \in 1 .. Len(c) : c[i] = c[j] => i = j
         /\ \A i \in 1 .. Len(c) - 1 : G.last[c[i]] = s /\ Edge(G, c[i], c[i + 1])
         /\ \A i \in 2 .. Len(c) : G.first[c[i]] = s
         /\ Len(c) <= Cardinality(TaskBlocks(t))
  <1>1. IsScheduled(G) /\ Constrained(G)
    BY DesignFacts, ScheduleAssumption DEF TypeInv
  <1>2. /\ c \in Seq(Blocks(G)) /\ Len(c) \in Nat \ {0} /\ c[1] = entryBB[s]
        /\ \A i, j \in 1 .. Len(c) : c[i] = c[j] => i = j
        /\ \A b : BlockActive(s, b) <=> \E i \in 1 .. Len(c) : b = c[i]
    BY DEF RunsThrough, IsChain
  <1>3. ASSUME NEW i \in 1 .. Len(c)
        PROVE  c[i] \in TaskBlocks(t) /\ c[i] \in BlocksIn(G, s)
    <2>1. c[i] \in BlocksIn(G, s)
      BY <1>2, ActiveBlock
    <2> QED BY <2>1, SpanStates DEF TypeInv
  <1>4. ASSUME NEW i \in 1 .. Len(c) - 1
        PROVE  G.last[c[i]] = s /\ Edge(G, c[i], c[i + 1]) /\ G.first[c[i + 1]] = s
    <2>1. Onto(s, c[i], c[i + 1])
      BY Zenon DEF RunsThrough, IsChain
    <2>2. <<c[i], c[i + 1]>> \in G.preds /\ G.last[c[i]] = s /\ G.first[c[i + 1]] = s
      BY <2>1 DEF Onto, InStateTransitions
    <2> QED BY <1>1, <2>2 DEF Constrained, Forward
  <1>5. ASSUME NEW i \in 2 .. Len(c) PROVE G.first[c[i]] = s
    <2>1. i - 1 \in 1 .. Len(c) - 1 /\ (i - 1) + 1 = i
      BY <1>2
    <2> QED BY <1>4, <2>1
  <1>6. Len(c) <= Cardinality(TaskBlocks(t))
    <2> DEFINE f == [i \in 1 .. Len(c) |-> c[i]]
    <2>1. f \in Injection(1 .. Len(c), TaskBlocks(t))
      BY <1>2, <1>3 DEF Injection, IsInjective
    <2>2. IsFiniteSet(TaskBlocks(t))
      BY <1>1, FS_Subset DEF TaskBlocks, IsScheduled
    <2>3. Cardinality(1 .. Len(c)) = Len(c)
      <3>1. 1 \in Int /\ Len(c) \in Int /\ ~(1 > Len(c)) /\ Len(c) - 1 + 1 = Len(c)
        BY <1>2
      <3> QED BY <3>1, FS_Interval
    <2> HIDE DEF f
    <2> QED BY <2>1, <2>2, <2>3, FS_Injection
  <1> QED BY <1>2, <1>3, <1>4, <1>5, <1>6

\* They are what the abstract execution can run through in a step.
Path(d, n, t) ==
  /\ n \in 2 .. Cardinality(TaskBlocks(t)) + 1
  /\ d \in [1 .. n -> TaskBlocks(t)] /\ d[1] = BlockOf(t)
  /\ \A i \in 1 .. n - 1 : Edge(G, d[i], d[i + 1])
  /\ \A i \in 2 .. n - 1 : /\ G.first[d[i]] = G.last[d[i]]
                            /\ \A j \in 1 .. i - 1 : d[i] # d[j]

LEMMA ChainIn ==
  ASSUME TypeInv, NEW t, Sequentially(t), NEW n, NEW d, Path(d, n, t)
  PROVE  d \in Task(t)!Chains /\ Len(d) = n
  <1>1. IsScheduled(G) /\ BlocksOf(t) = TaskBlocks(t) /\ TaskBlocks(t) \subseteq Blocks(G)
    BY DesignFacts DEF BlocksOf, TypeInv, TaskBlocks
  <1>2. n \in Nat /\ Len(d) = n
    <2>1. Cardinality(TaskBlocks(t)) \in Nat
      BY <1>1, FS_Subset, FS_CardinalityType DEF IsScheduled
    <2>2. n \in Nat /\ d \in [1 .. n -> TaskBlocks(t)]
      BY <2>1 DEF Path
    <2>3. d \in Seq(TaskBlocks(t))
      BY <2>2 DEF Seq
    <2> QED BY <2>2, <2>3
  <1>3. ASSUME NEW i \in 1 .. n - 1 PROVE Task(t)!Edge(d[i], d[i + 1])
    BY <1>3 DEF Path, Task!Edge, Edge
  <1>4. ASSUME NEW i \in 2 .. n - 1
        PROVE  [b \in Blocks(G) |-> G.last[b] - G.first[b]][d[i]] = 0
    <2>1. d[i] \in Blocks(G) /\ G.first[d[i]] = G.last[d[i]]
      BY <1>1, <1>2 DEF Path
    <2>2. G.last[d[i]] \in Nat
      BY <1>1, <2>1 DEF IsScheduled
    <2> QED BY <2>1, <2>2
  <1>5. d \in UNION {[1 .. k -> BlocksOf(t)] : k \in 2 .. Cardinality(BlocksOf(t)) + 1}
    BY <1>1 DEF Path
  <1>6. \A i \in 1 .. Len(d) - 1 : Task(t)!Edge(d[i], d[i + 1])
    BY <1>2, <1>3
  <1>7. \A i \in 2 .. Len(d) - 1 :
          /\ [b \in Blocks(G) |-> G.last[b] - G.first[b]][d[i]] = 0
          /\ \A j \in 1 .. i - 1 : d[i] # d[j]
    BY <1>2, <1>4 DEF Path
  <1>8. d \in Task(t)!Chains
    <2>1. Task(t)!Cardinality(BlocksOf(t)) = Cardinality(BlocksOf(t))
      BY DEF Task!Cardinality, Cardinality
    <2> QED BY <1>5, <1>6, <1>7, <2>1, Zenon DEF Task!Chains, Path
  <1> QED BY <1>2, <1>8

\* What the block run through last came from.
LEMMA LastCameFrom ==
  ASSUME TypeInv, NEW t, Sequentially(t), NEW s \in Span(t), s \in active,
         NEW c, RunsThrough(c, s)
  PROVE  Predecessor(s, c[Len(c)]) = IF Len(c) = 1 THEN lastBB[s] ELSE c[Len(c) - 1]
  <1> DEFINE l == c[Len(c)]
             inside == {e[1] : e \in {f \in design.inState[s] : f[2] = l /\ EdgeTaken(f[1], l)}}
  <1>1. /\ IsScheduled(G) /\ Len(c) \in Nat \ {0} /\ c[1] = entryBB[s]
        /\ design.inState[s] = InStateTransitions(G, s)
        /\ \A i \in 1 .. Len(c) : c[i] \in Blocks(G)
        /\ \A i, j \in 1 .. Len(c) : c[i] = c[j] => i = j
    <2>1. IsScheduled(G) /\ design.inState[s] = InStateTransitions(G, s)
      BY SpanStates, DesignFacts DEF TypeInv
    <2>2. /\ Len(c) \in Nat \ {0} /\ c[1] = entryBB[s]
          /\ \A i \in 1 .. Len(c) : c[i] \in TaskBlocks(t)
          /\ \A i, j \in 1 .. Len(c) : c[i] = c[j] => i = j
      BY ChainFacts
    <2> QED BY <2>1, <2>2 DEF TaskBlocks
  <1>2. CASE Len(c) = 1
    BY <1>1, <1>2 DEF Predecessor
  <1>3. CASE Len(c) # 1
    <2> DEFINE m == Len(c) - 1
    <2>1. m \in 1 .. Len(c) - 1 /\ m \in 1 .. Len(c) /\ m + 1 = Len(c) /\ entryBB[s] # l
      <3>1. m \in 1 .. Len(c) - 1 /\ m \in 1 .. Len(c) /\ m + 1 = Len(c)
            /\ 1 \in 1 .. Len(c) /\ Len(c) \in 1 .. Len(c)
        <4>1. ASSUME NEW n \in Nat \ {0}, n # 1
              PROVE  n - 1 \in 1 .. n - 1 /\ n - 1 \in 1 .. n /\ n - 1 + 1 = n /\ 1 \in 1 .. n
                     /\ n \in 1 .. n
          BY <4>1
        <4> QED BY <1>1, <1>3, <4>1
      <3> QED BY <1>1, <1>3, <3>1
    <2>2. Onto(s, c[m], l)
      <3>1. Onto(s, c[m], c[m + 1])
        BY <2>1, Zenon DEF RunsThrough, IsChain
      <3> QED BY <2>1, <3>1
    <2>3. ASSUME NEW e \in design.inState[s], e[2] = l
          PROVE  EdgeTaken(e[1], l) <=> e[1] = c[m]
      <3>1. /\ e = <<e[1], e[2]>> /\ e \in InStateTransitions(G, s) /\ e[1] \in Blocks(G)
            /\ G.br[e[1]] = s
        BY SpanIsStraight, InsideEdge
      <3>2. EdgeTaken(e[1], l) <=> BlockActive(s, e[1]) /\ Chosen(e[1], l)
        BY <3>1 DEF EdgeTaken
      <3>3. ASSUME BlockActive(s, e[1]), Chosen(e[1], l) PROVE e[1] = c[m]
        <4>1. PICK i \in 1 .. Len(c) : e[1] = c[i]
          BY <3>3 DEF RunsThrough
        <4>2. Onto(s, c[i], l)
          BY <2>3, <3>1, <3>3, <4>1 DEF Onto
        <4>3. i # Len(c)
          BY <4>2 DEF RunsThrough, Final
        <4>4. i \in 1 .. Len(c) - 1 /\ i + 1 \in 1 .. Len(c) /\ Len(c) \in 1 .. Len(c)
          BY <1>1, <4>3
        <4>5. Onto(s, c[i], c[i + 1])
          BY <4>4, Zenon DEF RunsThrough, IsChain
        <4>6. c[i + 1] = l
          BY <1>1, <4>2, <4>5, ChosenOne DEF Onto
        <4>7. i + 1 = Len(c)
          BY <1>1, <4>4, <4>6
        <4> QED BY <4>1, <4>4, <4>7
      <3>4. e[1] = c[m] => BlockActive(s, e[1]) /\ Chosen(e[1], l)
        BY <2>1, <2>2 DEF RunsThrough, Onto
      <3> QED BY <3>2, <3>3, <3>4
    <2>4. <<c[m], l>> \in design.inState[s]
      BY <1>1, <2>2 DEF Onto
    <2>5. inside = {c[m]}
      <3>1. c[m] \in inside
        BY <2>3, <2>4
      <3>2. \A p \in inside : p = c[m]
        BY <2>3
      <3> QED BY <3>1, <3>2
    <2>6. Predecessor(s, l) = CHOOSE p \in inside : TRUE
      BY <2>1, <2>5 DEF Predecessor
    <2> QED BY <1>3, <2>5, <2>6
  <1> QED BY <1>2, <1>3

\* Control goes on from the block that runs last: it stays in a block of several
\* states, returns, or takes the one edge that is chosen, to another state.
LEMMA GoesOn ==
  ASSUME TypeInv, BranchesDiffer(G), NEW t, Sequentially(t), NEW s \in Span(t), s \in active,
         NEW c, RunsThrough(c, s), NEW l, l = c[Len(c)]
  PROVE  /\ l \in TaskBlocks(t) /\ l \in BlocksIn(G, s) /\ G.br[l] = G.last[l] /\ BlockActive(s, l)
         /\ \/ G.last[l] # s /\ Jump(G, "stay", s, l, l, s + 1) \in Jumps(G)
            \/ /\ G.last[l] = s /\ G.succ[l] = <<>>
               /\ Jump(G, "return", s, l, l, IF G.retState = NoState THEN s ELSE G.retState)
                    \in Jumps(G)
            \/ /\ G.last[l] = s /\ G.succ[l] # <<>>
               /\ \E d \in Blocks(G) :
                    /\ Edge(G, l, d) /\ EdgeTaken(l, d) /\ Chosen(l, d)
                    /\ Jump(G, "branch", s, l, d, G.first[d]) \in Jumps(G)
  <1>1. /\ IsScheduled(G) /\ s \in States(G) /\ Len(c) \in 1 .. Len(c)
        /\ l \in TaskBlocks(t) /\ l \in BlocksIn(G, s) /\ l \in Blocks(G)
    <2>1. Len(c) \in 1 .. Len(c)
      BY ChainFacts
    <2> QED BY <2>1, ChainFacts, SpanStates, DesignFacts DEF TypeInv, TaskBlocks
  <1>2. G.br[l] = G.last[l] /\ BlockActive(s, l)
    BY <1>1, SpanStates DEF TypeInv, RunsThrough
  <1>3. CASE G.last[l] # s
    <2>1. l \in InProgress(G, s)
      BY <1>1, <1>3 DEF InProgress
    <2> QED BY <1>1, <1>2, <1>3, <2>1, JumpForms
  <1>4. CASE G.last[l] = s /\ G.succ[l] = <<>>
    <2>1. l \in Returning(G, s)
      BY <1>1, <1>2, <1>4 DEF Returning
    <2> QED BY <1>1, <1>2, <1>4, <2>1, JumpForms
  <1>5. CASE G.last[l] = s /\ G.succ[l] # <<>>
    <2>1. PICK d \in Blocks(G) : Chosen(l, d) /\ Edge(G, l, d)
      <3> DEFINE q == G.succ[l]
      <3>1. q \in Seq(Blocks(G)) /\ Len(q) <= 2 /\ q # <<>>
        BY <1>1, <1>5 DEF IsScheduled
      <3>2. /\ Len(q) = 1 \/ Len(q) = 2
            /\ 1 \in DOMAIN q /\ q[1] \in Blocks(G)
            /\ Len(q) = 2 => 2 \in DOMAIN q /\ q[2] \in Blocks(G)
        <4> HIDE DEF q
        <4>1. Len(q) \in Nat /\ DOMAIN q = 1 .. Len(q) /\ \A i \in DOMAIN q : q[i] \in Blocks(G)
          BY <3>1
        <4>2. Len(q) # 0
          BY <3>1
        <4>3. Len(q) = 1 \/ Len(q) = 2
          BY <3>1, <4>1, <4>2
        <4> QED BY <4>1, <4>3
      <3>3. Len(q) = 2 => q[1] # q[2]
        BY <1>1 DEF BranchesDiffer
      <3>4. CASE Len(q) = 1 \/ l \in condTrue
        <4>1. Chosen(l, q[1])
          BY <3>2, <3>4 DEF Chosen
        <4> QED BY <3>2, <4>1 DEF Edge
      <3>5. CASE Len(q) = 2 /\ l \notin condTrue
        <4>1. Chosen(l, q[2])
          BY <3>3, <3>5 DEF Chosen
        <4> QED BY <3>2, <3>5, <4>1 DEF Edge
      <3> QED BY <3>2, <3>4, <3>5
    <2>2. EdgeTaken(l, d)
      BY <1>2, <1>5, <2>1 DEF EdgeTaken
    <2>3. <<l, d>> \notin InStateTransitions(G, s)
      BY <2>1 DEF RunsThrough, Final, Onto
    <2>4. <<l, d>> \in OutOfStateTransitions(G, s)
      BY <1>1, <1>2, <1>5, <2>1, <2>3 DEF OutOfStateTransitions, AllTransitions
    <2>5. Jump(G, "branch", s, l, d, G.first[d]) \in Jumps(G)
      BY <1>1, <2>4, JumpForms
    <2> QED BY <1>1, <1>2, <1>5, <2>1, <2>2, <2>5
  <1> QED BY <1>3, <1>4, <1>5

\* The chain that leads to a further block d, and the one that ends with l.
LEMMA ChainOnward ==
  ASSUME TypeInv, NEW t, Sequentially(t), NEW s \in Span(t), s \in active,
         NEW c, RunsThrough(c, s), BlockOf(t) = c[1],
         G.last[c[Len(c)]] = s, NEW d \in TaskBlocks(t), Edge(G, c[Len(c)], d)
  PROVE  \E chain \in Task(t)!Chains :
           /\ Len(chain) \in Nat /\ chain[Len(chain)] = d
           /\ chain[Len(chain) - 1] = c[Len(c)]
  <1> DEFINE n == Len(c) + 1
             e == [i \in 1 .. n |-> IF i = n THEN d ELSE c[i]]
  <1>1. /\ Len(c) \in Nat \ {0} /\ Cardinality(TaskBlocks(t)) \in Nat
        /\ Len(c) <= Cardinality(TaskBlocks(t))
        /\ \A i \in 1 .. Len(c) : c[i] \in TaskBlocks(t)
        /\ \A i, j \in 1 .. Len(c) : c[i] = c[j] => i = j
        /\ \A i \in 1 .. Len(c) - 1 : G.last[c[i]] = s /\ Edge(G, c[i], c[i + 1])
        /\ \A i \in 2 .. Len(c) : G.first[c[i]] = s
    <2>1. TaskBlocks(t) \subseteq Blocks(G) /\ IsFiniteSet(Blocks(G))
      BY DesignFacts DEF TaskBlocks, TypeInv
    <2> QED BY <2>1, ChainFacts, FS_Subset, FS_CardinalityType
  <1>2. n \in Nat /\ n - 1 = Len(c) /\ n \in 2 .. Cardinality(TaskBlocks(t)) + 1
    BY <1>1
  <1>3. e \in [1 .. n -> TaskBlocks(t)] /\ e[1] = BlockOf(t) /\ e[n] = d /\ e[n - 1] = c[Len(c)]
    <2>1. /\ 1 \in 1 .. n /\ 1 # n /\ n \in 1 .. n /\ n - 1 \in 1 .. n /\ n - 1 # n
          /\ \A i \in 1 .. n : i # n => i \in 1 .. Len(c)
      <3>1. ASSUME NEW k \in Nat \ {0}
            PROVE  /\ 1 \in 1 .. k + 1 /\ 1 # k + 1 /\ k + 1 \in 1 .. k + 1
                   /\ k + 1 - 1 \in 1 .. k + 1 /\ k + 1 - 1 # k + 1
                   /\ \A i \in 1 .. k + 1 : i # k + 1 => i \in 1 .. k
        OBVIOUS
      <3> QED BY <1>1, <3>1
    <2> HIDE DEF n
    <2>2. e \in [1 .. n -> TaskBlocks(t)]
      BY <1>1, <2>1
    <2> QED BY <1>2, <2>1, <2>2
  <1>4. ASSUME NEW i \in 1 .. n - 1 PROVE Edge(G, e[i], e[i + 1])
    <2>1. i \in 1 .. n /\ i + 1 \in 1 .. n /\ i # n
      BY <1>2
    <2>2. CASE i = n - 1
      BY <1>2, <2>1, <2>2
    <2>3. CASE i # n - 1
      <3>1. i \in 1 .. Len(c) - 1 /\ i + 1 # n
        BY <1>1, <1>2, <2>3
      <3> QED BY <1>1, <2>1, <3>1
    <2> QED BY <2>2, <2>3
  <1>5. ASSUME NEW i \in 2 .. n - 1
        PROVE  G.first[e[i]] = G.last[e[i]] /\ \A j \in 1 .. i - 1 : e[i] # e[j]
    <2>1. i \in 1 .. n /\ i # n /\ i \in 2 .. Len(c) /\ i \in 1 .. Len(c) /\ e[i] = c[i]
      BY <1>1, <1>2
    <2>2. G.last[c[i]] = s
      <3>1. CASE i = Len(c)
        BY <3>1
      <3>2. CASE i # Len(c)
        <4>1. i \in 1 .. Len(c) - 1
          BY <1>1, <2>1, <3>2
        <4> QED BY <1>1, <4>1
      <3> QED BY <3>1, <3>2
    <2>3. ASSUME NEW j \in 1 .. i - 1 PROVE e[i] # e[j]
      <3>1. j \in 1 .. Len(c) /\ j \in 1 .. n /\ j # n /\ j # i
        BY <1>1, <1>2, <2>1
      <3> QED BY <1>1, <2>1, <3>1
    <2> QED BY <1>1, <2>1, <2>2, <2>3
  <1> HIDE DEF e, n
  <1>6. e \in Task(t)!Chains /\ Len(e) = n
    <2>1. Path(e, n, t)
      BY <1>2, <1>3, <1>4, <1>5 DEF Path
    <2> QED BY <2>1, ChainIn
  <1> QED BY <1>2, <1>3, <1>6

LEMMA ChainSoFar ==
  ASSUME TypeInv, NEW t, Sequentially(t), NEW s \in Span(t), s \in active,
         NEW c, RunsThrough(c, s), BlockOf(t) = c[1], Len(c) # 1
  PROVE  \E chain \in Task(t)!Chains :
           /\ Len(chain) \in Nat /\ chain[Len(chain)] = c[Len(c)]
           /\ chain[Len(chain) - 1] = c[Len(c) - 1]
  <1>0. Cardinality(TaskBlocks(t)) \in Nat
    <2>1. TaskBlocks(t) \subseteq Blocks(G) /\ IsFiniteSet(Blocks(G))
      BY DesignFacts DEF TaskBlocks, TypeInv
    <2>2. IsFiniteSet(TaskBlocks(t))
      BY <2>1, FS_Subset
    <2> QED BY <2>2, FS_CardinalityType
  <1>1. /\ Len(c) \in Nat \ {0}
        /\ Len(c) <= Cardinality(TaskBlocks(t)) /\ c \in Seq(Blocks(G))
        /\ \A i \in 1 .. Len(c) : c[i] \in TaskBlocks(t)
        /\ \A i, j \in 1 .. Len(c) : c[i] = c[j] => i = j
        /\ \A i \in 1 .. Len(c) - 1 : G.last[c[i]] = s /\ Edge(G, c[i], c[i + 1])
        /\ \A i \in 2 .. Len(c) : G.first[c[i]] = s
    <2>1. /\ Len(c) \in Nat \ {0} /\ c \in Seq(Blocks(G)) /\ Len(c) <= Cardinality(TaskBlocks(t))
          /\ \A i, j \in 1 .. Len(c) : c[i] = c[j] => i = j
      BY ChainFacts
    <2>2. \A i \in 1 .. Len(c) : c[i] \in TaskBlocks(t)
      BY ChainFacts
    <2>3. /\ \A i \in 1 .. Len(c) - 1 : G.last[c[i]] = s /\ Edge(G, c[i], c[i + 1])
          /\ \A i \in 2 .. Len(c) : G.first[c[i]] = s
      BY ChainFacts
    <2> QED BY <2>1, <2>2, <2>3
  <1>2. Len(c) \in 2 .. Cardinality(TaskBlocks(t)) + 1
    <2>1. ASSUME NEW n \in Nat \ {0}, n # 1, NEW m \in Nat, n <= m PROVE n \in 2 .. m + 1
      BY <2>1
    <2> QED BY <1>0, <1>1, <2>1
  <1>3. c \in [1 .. Len(c) -> TaskBlocks(t)]
    BY <1>1
  <1>4. ASSUME NEW i \in 2 .. Len(c) - 1
        PROVE  G.first[c[i]] = G.last[c[i]] /\ \A j \in 1 .. i - 1 : c[i] # c[j]
    <2>1. i \in 2 .. Len(c) /\ i \in 1 .. Len(c) - 1 /\ i \in 1 .. Len(c)
      BY <1>1
    <2>2. \A j \in 1 .. i - 1 : j \in 1 .. Len(c) /\ j # i
      BY <1>1, <2>1
    <2> QED BY <1>1, <2>1, <2>2
  <1>5. c \in Task(t)!Chains
    <2>1. Path(c, Len(c), t)
      BY <1>1, <1>2, <1>3, <1>4 DEF Path
    <2> QED BY <2>1, ChainIn
  <1> QED BY <1>1, <1>5

\* A step of a thread is one of the abstract execution.
LEMMA ThreadStep ==
  ASSUME ExecInv, StartsOnce(G), RestartsAtEntry(G), BranchesDiffer(G), TaskCycle,
         NEW t, Sequentially(t), NEW s, Running(t) = {s}
  PROVE  [Task(t)!Next]_(Task(t)!vars)
  <1> DEFINE stages(b) == [x \in Blocks(G) |-> G.last[x] - G.first[x]][b]
  <1>1. /\ TypeInv /\ ThreadInv /\ Cycle /\ G' = G /\ IsScheduled(G)
        /\ design \in {Elaborate(g) : g \in Functions}
    BY DesignFacts DEF ExecInv, ThreadInv, TypeInv, TaskCycle, Cycle, G
  <1>2. s \in active \cap Span(t) /\ entryBB[s] \in TaskBlocks(t) \cap BlocksIn(G, s)
    <2>1. Running(t) = RunsIn(active, entryBB, t) /\ active \subseteq States(G)
      BY <1>1 DEF Running, RunsIn, TypeInv
    <2> QED BY <1>1, <2>1, RunsInSpan DEF RunsIn
  <1>3. PICK c : RunsThrough(c, s)
    BY <1>1, <1>2, SpanIsStraight, ChainInState DEF RunsThrough
  <1>4. /\ Len(c) \in Nat \ {0} /\ c[1] = entryBB[s]
        /\ \A i \in 1 .. Len(c) - 1 : G.last[c[i]] = s
        /\ \A i \in 2 .. Len(c) : G.first[c[i]] = s
        /\ c[1] \in Blocks(G)
    <2>1. /\ Len(c) \in Nat \ {0} /\ c[1] = entryBB[s]
          /\ \A i \in 1 .. Len(c) - 1 : G.last[c[i]] = s
          /\ \A i \in 2 .. Len(c) : G.first[c[i]] = s
      BY <1>1, <1>2, <1>3, ChainFacts
    <2> QED BY <1>2, <2>1 DEF TaskBlocks
  <1> DEFINE l == c[Len(c)]
             before == IF Len(c) = 1 THEN lastBB[s] ELSE c[Len(c) - 1]
  <1>5. /\ l \in TaskBlocks(t) /\ l \in Blocks(G) /\ G.br[l] = G.last[l]
        /\ BlockActive(s, l) /\ Predecessor(s, l) = before
    BY <1>1, <1>2, <1>3, GoesOn, LastCameFrom DEF TaskBlocks
  <1>6. BlockOf(t) = c[1] /\ CameFrom(t) = lastBB[s] /\ StageOf(t) = s - G.first[c[1]]
    BY <1>4, Shown
  <1>7. (Task(t)!constants)' = Task(t)!constants
    BY <1>1, ConstantsStay
  <1>8. Len(c) # 1 => G.first[l] = s /\ G.last[c[1]] = s
    <2>1. ASSUME NEW n \in Nat \ {0}, n # 1 PROVE 1 \in 1 .. n - 1 /\ n \in 2 .. n
      BY <2>1
    <2> QED BY <1>4, <2>1
  <1>9. /\ s \in Nat /\ G.first[c[1]] \in Nat /\ G.last[c[1]] \in Nat
        /\ G.first[l] \in Nat /\ G.last[l] \in Nat
        /\ G.first[l] <= s /\ s <= G.last[l] /\ G.first[c[1]] <= s
    <2>1. l \in BlocksIn(G, s) /\ c[1] \in BlocksIn(G, s) /\ s \in States(G)
      BY <1>1, <1>2, <1>3, <1>4, GoesOn, SpanStates
    <2> QED BY <1>1, <2>1, BlockStates DEF BlocksIn, IsScheduled
  <1>10. BlockOf(t) # NoBlock /\ BlocksOf(t) = TaskBlocks(t)
    BY <1>1, <1>4, <1>6 DEF IsScheduled, BlocksOf
  <1>11. (G.last[l] = s => G.last[c[1]] = s) /\ (G.last[c[1]] = s => Task(t)!AtEnd)
    <2>1. G.last[l] = s => G.last[c[1]] = s
      BY <1>8
    <2>2. G.last[c[1]] = s => StageOf(t) = stages(BlockOf(t))
      BY <1>4, <1>6
    <2> QED BY <1>10, <2>1, <2>2 DEF Task!AtEnd, Task!Nowhere, NoBlock
  <1>12. ASSUME NEW kind \in {"stay", "return"}, NEW r, Jump(G, kind, s, l, l, r) \in Jumps(G)
         PROVE  LET b == IF kind = "return" /\ G.retState # NoState THEN Entry ELSE l
                IN  BlockOf(t)' = b /\ CameFrom(t)' = before /\ StageOf(t)' = r - G.first[b]
    <2> DEFINE j == Jump(G, kind, s, l, l, r)
    <2>1. /\ j.kind = kind /\ j.at = s /\ j.src = l /\ j.dest = l /\ j.target = r
          /\ j.outOfTask = (G.task[l] # G.task[l]) /\ j \in Jumps(G)
      BY <1>12, JumpFields
    <2> HIDE DEF j
    <2>2. ~j.outOfTask
      BY <2>1
    <2>3. Happens(j) /\ Own(j, t) /\ LastBlock(j) = before
      BY <1>2, <1>5, <2>1, <2>2 DEF Happens, Own, LastBlock
    <2> QED BY <2>1, <2>3, Shift
  <1>13. ASSUME NEW r, Jump(G, "stay", s, l, l, r) \in Jumps(G)
         PROVE  BlockOf(t)' = l /\ CameFrom(t)' = before /\ StageOf(t)' = r - G.first[l]
    <2> "stay" \in {"stay", "return"} /\ ~("stay" = "return")
      OBVIOUS
    <2> HIDE DEF l, before
    <2> QED BY <1>12, <1>13
  <1>14. ASSUME Len(c) # 1, BlockOf(t)' = l, CameFrom(t)' = before,
                StageOf(t)' = 0 \/ (StageOf(t)' = 1 /\ G.last[l] > s)
         PROVE  Task(t)!Next
    <2>1. PICK chain \in Task(t)!Chains : /\ chain[Len(chain)] = l
                                          /\ chain[Len(chain) - 1] = before
      BY <1>1, <1>2, <1>3, <1>6, <1>14, ChainSoFar
    <2>2. StageOf(t)' \in {0} \cup (IF stages(BlockOf(t)') > 0 THEN {1} ELSE {})
      <3>1. stages(BlockOf(t)') = G.last[l] - s
        BY <1>5, <1>8, <1>14
      <3> HIDE DEF stages
      <3> QED BY <1>9, <1>14, <3>1
    <2>3. Task(t)!Move
      BY <1>7, <1>8, <1>11, <1>14, <2>1, <2>2 DEF Task!Move
    <2> QED BY <2>3 DEF Task!Next
  <1>15. CASE G.last[l] # s /\ Jump(G, "stay", s, l, l, s + 1) \in Jumps(G)
    <2>1. BlockOf(t)' = l /\ CameFrom(t)' = before /\ StageOf(t)' = (s + 1) - G.first[l]
      <3> HIDE DEF l, before
      <3> QED BY <1>13, <1>15
    <2>2. CASE Len(c) = 1
      <3>1. /\ StageOf(t) < stages(BlockOf(t)) /\ StageOf(t)' = StageOf(t) + 1
            /\ BlockOf(t)' = BlockOf(t) /\ CameFrom(t)' = CameFrom(t)
        BY <1>4, <1>6, <1>9, <1>15, <2>1, <2>2
      <3>2. Task(t)!Advance
        BY <1>7, <1>10, <3>1 DEF Task!Advance, Task!Nowhere, NoBlock, Task!constants
      <3> QED BY <3>2 DEF Task!Next
    <2>3. CASE Len(c) # 1
      <3>1. StageOf(t)' = 1 /\ G.last[l] > s
        BY <1>8, <1>9, <1>15, <2>1, <2>3
      <3> QED BY <1>14, <2>1, <2>3, <3>1
    <2> QED BY <2>2, <2>3
  <1>16. CASE /\ G.last[l] = s /\ G.succ[l] = <<>> /\ G.retState = NoState
              /\ Jump(G, "return", s, l, l, s) \in Jumps(G)
    <2>1. BlockOf(t)' = l /\ CameFrom(t)' = before /\ StageOf(t)' = s - G.first[l]
      <3> HIDE DEF l, before
      <3>1. "return" \in {"stay", "return"}
        OBVIOUS
      <3> QED BY <1>12, <1>16, <3>1
    <2>2. CASE Len(c) = 1
      <3>1. UNCHANGED <<BlockOf(t), CameFrom(t), StageOf(t)>>
        BY <1>6, <2>1, <2>2
      <3> QED BY <1>7, <3>1 DEF Task!vars
    <2>3. CASE Len(c) # 1
      <3>1. StageOf(t)' = 0
        BY <1>8, <1>9, <2>1, <2>3
      <3> QED BY <1>14, <2>1, <2>3, <3>1
    <2> QED BY <2>2, <2>3
  <1>17. <<l, before>> \in Task(t)!Lasts \/ G.last[l] # s
    <2>1. CASE Len(c) = 1
      BY <1>6, <2>1 DEF Task!Lasts
    <2>2. CASE Len(c) # 1 /\ G.last[l] = s
      <3>1. PICK chain \in Task(t)!Chains : /\ chain[Len(chain)] = l
                                            /\ chain[Len(chain) - 1] = before
        BY <1>1, <1>2, <1>3, <1>6, <2>2, ChainSoFar
      <3>2. stages(l) = 0
        BY <1>5, <1>8, <1>9, <2>2
      <3> QED BY <3>1, <3>2 DEF Task!Lasts
    <2> QED BY <2>1, <2>2
  <1>18. CASE /\ G.last[l] = s /\ G.succ[l] = <<>> /\ G.retState # NoState
              /\ Jump(G, "return", s, l, l, G.retState) \in Jumps(G)
    <2>1. /\ BlockOf(t)' = Entry /\ CameFrom(t)' = before
          /\ StageOf(t)' = G.retState - G.first[Entry]
      <3> HIDE DEF l, before
      <3>1. "return" \in {"stay", "return"}
        OBVIOUS
      <3> QED BY <1>12, <1>18, <3>1
    <2>2. G.retState = G.first[Entry] /\ G.first[Entry] \in Nat /\ t = G.task[Entry]
      <3>1. \A b \in Blocks(G) : G.task[b] = G.task[Entry]
        BY <1>18 DEF StartsOnce
      <3> QED BY <1>1, <1>5, <1>18, <3>1 DEF RestartsAtEntry, TaskBlocks, IsScheduled
    <2>3. StageOf(t)' = 0 /\ StartOf(t)[1] = Entry
      BY <2>1, <2>2 DEF StartOf, Into
    <2>4. Task(t)!Restart
      <3>1. <<l, before>> \in Task(t)!Lasts /\ Task(t)!AtEnd
        BY <1>11, <1>17, <1>18
      <3> HIDE DEF l, before
      <3> QED BY <1>7, <1>18, <2>1, <2>3, <3>1 DEF Task!Restart
    <2> QED BY <2>4 DEF Task!Next
  <1>19. ASSUME NEW d \in Blocks(G), G.last[l] = s, G.succ[l] # <<>>, Edge(G, l, d),
                EdgeTaken(l, d), Chosen(l, d), Jump(G, "branch", s, l, d, G.first[d]) \in Jumps(G)
         PROVE  Task(t)!Next
    <2> DEFINE j == Jump(G, "branch", s, l, d, G.first[d])
    <2>1. /\ j.kind = "branch" /\ j.at = s /\ j.src = l /\ j.dest = d /\ j.target = G.first[d]
          /\ j.outOfTask = (G.task[l] # G.task[d]) /\ j \in Jumps(G)
      BY <1>19, JumpFields
    <2> HIDE DEF j
    <2>2. CASE G.task[d] = t
      <3>1. ~j.outOfTask
        BY <1>5, <2>1, <2>2 DEF TaskBlocks
      <3>2. Happens(j) /\ Own(j, t) /\ LastBlock(j) = l
        BY <1>2, <1>5, <1>19, <2>1, <3>1 DEF Happens, Own, LastBlock
      <3>3. BlockOf(t)' = d /\ CameFrom(t)' = l /\ StageOf(t)' = G.first[d] - G.first[d]
        BY <2>1, <3>2, Shift
      <3>4. StageOf(t)' = 0
        BY <1>1, <3>3, BlockStates
      <3>5. PICK chain \in Task(t)!Chains : /\ chain[Len(chain)] = d
                                            /\ chain[Len(chain) - 1] = l
        BY <1>1, <1>2, <1>3, <1>6, <1>19, <2>2, ChainOnward DEF TaskBlocks
      <3>6. Task(t)!Move
        BY <1>7, <1>11, <1>19, <3>3, <3>4, <3>5 DEF Task!Move
      <3> QED BY <3>6 DEF Task!Next
    <2>3. CASE G.task[d] # t
      <3>1. ASSUME NEW r \in active' \cap Span(t) PROVE FALSE
        <4>1. PICK k \in Jumps(G) : Happens(k) /\ (Own(k, t) \/ Inward(k, t))
          BY <1>1, ActivatedBy
        <4>2. CASE Inward(k, t)
          <5>1. t # G.task[Entry]
            BY <4>2 DEF StartsOnce, Inward
          <5>2. Several /\ BlockActive(G.first[Entry], Entry)
            BY <1>5, <4>1, <4>2, <5>1 DEF Several, Inward, Happens, TaskBlocks
          <5>3. clock = 0
            BY <1>1, <5>2, EntryRests DEF ThreadInv
          <5>4. entryBB[s] = Entry
            BY <1>1, <1>2, <5>3, SpanStates DEF ThreadInv
          <5> QED BY <1>2, <5>1, <5>4 DEF TaskBlocks
        <4>3. CASE Own(k, t)
          <5>1. k.at \in active /\ k.at \in Span(t) /\ k.at = s
            BY <1>1, <1>2, <4>1, <4>3, OwnIsStraight, LastJumps DEF ThreadInv, AtMostOne, Own
          <5>2. k.src = l /\ (k.kind = "branch" => Chosen(l, k.dest))
            BY <1>1, <1>3, <4>1, <4>3, <5>1, OwnIsStraight, LastJumps
          <5>3. k.kind = "branch"
            <6>1. k.kind = "stay" => G.last[k.src] # k.at
              BY JumpShape DEF InProgress
            <6>2. k.kind = "return" => G.succ[k.src] = <<>>
              BY JumpShape DEF Returning
            <6>3. k.kind \in {"branch", "return", "stay"}
              BY JumpShape
            <6> QED BY <1>19, <5>1, <5>2, <6>1, <6>2, <6>3
          <5>4. k.dest = d
            BY <1>1, <1>5, <1>19, <5>2, <5>3, ChosenOne
          <5>5. k.outOfTask = (G.task[k.src] # G.task[k.dest])
            <6>1. k = Jump(G, k.kind, k.at, k.src, k.dest, k.target)
              BY JumpShape
            <6> QED BY <6>1, JumpFields
          <5>6. G.task[l] = t
            BY <1>5 DEF TaskBlocks
          <5> QED BY <2>3, <4>3, <5>2, <5>4, <5>5, <5>6 DEF Own
        <4> QED BY <4>1, <4>2, <4>3
      <3>2. Running(t)' = {}
        <4>1. Running(t)' = RunsIn(active', entryBB', t)
          BY <1>1 DEF Running, RunsIn, TaskBlocks
        <4>2. active' \subseteq States(G)
          BY <1>1, CycleKeepsTypes DEF TypeInv
        <4> QED BY <1>1, <3>1, <4>1, <4>2, RunsInSpan
      <3>3. Gone(t)'
        <4>1. clock' > 0
          BY <1>1 DEF ThreadInv, TaskCycle
        <4> QED BY <3>2, <4>1 DEF Gone
      <3>4. BlockOf(t)' = NoBlock /\ CameFrom(t)' = NoBlock /\ StageOf(t)' = 0
        BY <3>3, GoneNext
      <3>5. \E i \in DOMAIN G.succ[l] : G.succ[l][i] \notin BlocksOf(t)
        BY <1>10, <1>19, <2>3 DEF Edge, TaskBlocks
      <3>6. Task(t)!Leave
        BY <1>7, <1>11, <1>17, <1>19, <3>4, <3>5 DEF Task!Leave, Task!Nowhere, NoBlock
      <3> QED BY <3>6 DEF Task!Next
    <2> QED BY <2>2, <2>3
  <1>20. \/ G.last[l] # s /\ Jump(G, "stay", s, l, l, s + 1) \in Jumps(G)
         \/ /\ G.last[l] = s /\ G.succ[l] = <<>>
            /\ Jump(G, "return", s, l, l, IF G.retState = NoState THEN s ELSE G.retState)
                 \in Jumps(G)
         \/ /\ G.last[l] = s /\ G.succ[l] # <<>>
            /\ \E d \in Blocks(G) :
                 /\ Edge(G, l, d) /\ EdgeTaken(l, d) /\ Chosen(l, d)
                 /\ Jump(G, "branch", s, l, d, G.first[d]) \in Jumps(G)
    BY <1>1, <1>2, <1>3, GoesOn
  <1> HIDE DEF l
  <1> QED BY <1>15, <1>16, <1>18, <1>19, <1>20

\* At the reset only the first task runs.
LEMMA FirstRuns ==
  ASSUME ExecInv, StartsOnce(G), clock = 0, NEW t, Sequentially(t)
  PROVE  Running(t) = IF t = G.task[Entry] THEN {G.first[Entry]} ELSE {}
  <1>1. /\ ThreadInv /\ TypeInv /\ Entry \in Blocks(G)
        /\ design \in {Elaborate(g) : g \in Functions}
        /\ design.starts = {StartState(G, G.task[b]) : b \in Blocks(G)}
        /\ active = design.starts /\ active \subseteq States(G)
        /\ \A s \in States(G) : entryBB[s] = Entry
    BY DesignFacts DEF ExecInv, ThreadInv, TypeInv, IsScheduled
  <1>2. Running(t) = RunsIn(active, entryBB, t)
    BY DEF Running, RunsIn
  <1>3. CASE t # G.task[Entry]
    BY <1>1, <1>2, <1>3 DEF RunsIn, TaskBlocks
  <1>4. CASE t = G.task[Entry]
    <2> DEFINE f == G.first[Entry]
    <2>1. f \in active
      <3>1. StartState(G, t) = f
        BY <1>1, <1>4, NoneIntoFirst DEF StartState
      <3> QED BY <1>1, <1>4, <3>1
    <2>2. f \in Span(t) /\ entryBB[f] \in BlocksIn(G, f)
      <3>1. f \in f .. G.last[Entry] /\ f \in States(G) /\ Entry \in BlocksIn(G, f)
        BY <1>1, BlockStates
      <3> QED BY <1>1, <1>4, <3>1 DEF Span, TaskBlocks
    <2>3. RunsIn(active, entryBB, t) = {f}
      BY <1>1, <2>1, <2>2, RunsInOne DEF ThreadInv
    <2> QED BY <1>2, <1>4, <2>3
  <1> QED BY <1>3, <1>4

\* The other tasks start from their edge in the first cycle.
LEMMA WaitingStep ==
  ASSUME ExecInv, StartsOnce(G), RestartsAtEntry(G), TaskCycle, clock = 0,
         NEW t, Sequentially(t), t # G.task[Entry]
  PROVE  UNCHANGED Task(t)!vars
  <1>1. /\ ThreadInv /\ TypeInv /\ Cycle /\ G' = G /\ IsScheduled(G) /\ Constrained(G)
        /\ design \in {Elaborate(g) : g \in Functions} /\ Entry \in Blocks(G)
    BY DesignFacts, ScheduleAssumption DEF ExecInv, ThreadInv, TypeInv, TaskCycle, Cycle, G, IsScheduled
  <1>2. Running(t) = {}
    BY FirstRuns
  <1>3. PICK e \in Blocks(G) \X Blocks(G) : EdgesInto(G, t) = {e}
    <2>1. PICK b \in Blocks(G) : G.task[b] = t
      BY DEF Sequentially, Tasks
    <2> QED BY <2>1 DEF StartsOnce
  <1> DEFINE a == e[1]
             d == e[2]
             j == Jump(G, "branch", G.br[a], a, d, G.first[d])
  <1>4. /\ e = <<a, d>> /\ a \in Blocks(G) /\ d \in Blocks(G)
        /\ Edge(G, a, d) /\ G.task[a] # t /\ G.task[d] = t
    BY <1>3 DEF EdgesInto
  <1>5. Into(t) = <<d, a>>
    <2>1. \A p \in TaskBlocks(t) \X (Blocks(G) \ TaskBlocks(t)) :
            Edge(G, p[2], p[1]) => p = <<d, a>>
      <3> SUFFICES ASSUME NEW x \in TaskBlocks(t), NEW y \in Blocks(G) \ TaskBlocks(t), Edge(G, y, x)
                   PROVE  <<x, y>> = <<d, a>>
        OBVIOUS
      <3>1. <<y, x>> \in EdgesInto(G, t)
        BY DEF EdgesInto, TaskBlocks
      <3> QED BY <1>3, <3>1
    <2>2. <<d, a>> \in TaskBlocks(t) \X (Blocks(G) \ TaskBlocks(t)) /\ Edge(G, a, d)
      BY <1>4 DEF TaskBlocks
    <2> QED BY <2>1, <2>2 DEF Into
  <1>6. BlockOf(t) = d /\ CameFrom(t) = a /\ StageOf(t) = 0
    <2>1. Waiting(t) /\ ~Gone(t)
      BY <1>2 DEF Waiting, Gone
    <2> QED BY <1>5, <2>1 DEF BlockOf, CameFrom, StageOf
  <1>7. <<a, d>> \notin InStateTransitions(G, G.br[a])
    <2>1. /\ G.first[a] \in Nat /\ G.last[a] \in Nat /\ G.first[d] \in Nat /\ G.last[d] \in Nat
          /\ G.first[a] <= G.last[a] /\ G.first[d] <= G.last[d]
      BY <1>1, <1>4 DEF IsScheduled
    <2>2. G.task[a] \in Nat /\ G.task[d] \in Nat /\ DOMAIN G.first = Blocks(G)
      BY <1>1, <1>4 DEF IsScheduled
    <2>3. G.last[a] < G.first[d] \/ G.last[d] < G.first[a]
      BY <1>1, <1>4, <2>2 DEF Constrained, TaskOrder
    <2> QED BY <2>1, <2>3 DEF InStateTransitions
  <1>8. j \in Jumps(G)
    <2>1. G.br[a] \in States(G) /\ <<a, d>> \in OutOfStateTransitions(G, G.br[a])
      BY <1>1, <1>4, <1>7 DEF OutOfStateTransitions, AllTransitions, IsScheduled
    <2> QED BY <2>1, JumpForms
  <1>9. /\ j.kind = "branch" /\ j.src = a /\ j.dest = d /\ j.target = G.first[d]
        /\ j.outOfTask = (G.task[a] # G.task[d])
    BY JumpFields
  <1> HIDE DEF j
  <1>10. BlockActive(G.first[Entry], Entry)
    <2> DEFINE f == G.first[Entry]
    <2>1. /\ active = design.starts /\ StartState(G, G.task[Entry]) = f /\ f \in States(G)
          /\ entryBB[f] = Entry /\ Entry \in BlocksIn(G, f)
      BY <1>1, NoneIntoFirst, BlockStates DEF ThreadInv, StartState, IsScheduled
    <2>2. f \in active
      BY <1>1, <2>1, DesignFacts
    <2>3. <<f, Entry>> \in Entered
      BY <1>1, <2>1, <2>2 DEF Entered
    <2>4. /\ Depth \in Nat /\ 0 \in 0 .. Depth /\ Settled[0] = Entered
          /\ Settled[0] \subseteq Settled[Depth] /\ bbActive = Settled[Depth]
      BY <1>1, DesignFacts, SettledSteps, SettledGrows DEF TypeInv, ActiveWires, Depth
    <2> QED BY <2>2, <2>3, <2>4 DEF BlockActive
  <1>11. Happens(j) /\ Inward(j, t)
    <2>1. j.outOfTask
      BY <1>4, <1>9
    <2> QED BY <1>3, <1>4, <1>9, <1>10, <2>1 DEF Happens, Inward
  <1>12. BlockOf(t)' = d /\ CameFrom(t)' = a /\ StageOf(t)' = G.first[d] - G.first[d]
    BY <1>8, <1>9, <1>11, Shift DEF LastBlock
  <1>13. StageOf(t)' = 0
    BY <1>1, <1>4, <1>12, BlockStates
  <1>14. (Task(t)!constants)' = Task(t)!constants
    BY <1>1, ConstantsStay
  <1> QED BY <1>6, <1>12, <1>13, <1>14 DEF Task!vars

\* A task that is gone does not come back.
LEMMA GoneStep ==
  ASSUME ExecInv, StartsOnce(G), TaskCycle, clock > 0,
         NEW t, Sequentially(t), Running(t) = {}
  PROVE  UNCHANGED Task(t)!vars
  <1>1. /\ ThreadInv /\ TypeInv /\ Cycle /\ G' = G /\ active \subseteq States(G)
        /\ design \in {Elaborate(g) : g \in Functions}
    BY DEF ExecInv, ThreadInv, TypeInv, TaskCycle, Cycle, G
  <1>2. active \cap Span(t) = {}
    <2> SUFFICES ASSUME NEW s \in active \cap Span(t) PROVE FALSE
      OBVIOUS
    <2>1. entryBB[s] \in BlocksIn(G, s)
      BY DEF ExecInv, Executing
    <2>2. entryBB[s] \in TaskBlocks(t)
      BY <1>1, <2>1, SpanStates
    <2> QED BY <2>1, <2>2 DEF Running
  <1>3. active' \cap Span(t) = {}
    <2> SUFFICES ASSUME NEW s \in active' \cap Span(t) PROVE FALSE
      OBVIOUS
    <2>1. PICK j \in Jumps(G) : Happens(j) /\ (Own(j, t) \/ Inward(j, t))
      BY <1>1, ActivatedBy
    <2>2. CASE Own(j, t)
      BY <1>1, <1>2, <2>1, <2>2, OwnIsStraight, LastJumps DEF Own
    <2>3. CASE Inward(j, t)
      <3>1. j.src \in Blocks(G) /\ j.dest \in Blocks(G) /\ G.task[j.src] # t /\ G.task[j.dest] = t
        BY <2>3 DEF Inward, EdgesInto
      <3>2. Several /\ BlockActive(G.first[Entry], Entry)
        BY <2>1, <2>3, <3>1 DEF Several, Inward, Happens
      <3> QED BY <1>1, <3>2, EntryRests DEF ThreadInv
    <2> QED BY <2>1, <2>2, <2>3
  <1>4. Running(t)' = {}
    <2>1. Running(t)' = RunsIn(active', entryBB', t) /\ active' \subseteq States(G)
      BY <1>1, CycleKeepsTypes DEF Running, RunsIn, TaskBlocks, TypeInv
    <2> QED BY <1>1, <1>3, <2>1, RunsInSpan
  <1>5. Gone(t) /\ ~Waiting(t) /\ Gone(t)'
    <2>1. clock' > 0
      BY <1>1 DEF ThreadInv, TaskCycle
    <2> QED BY <1>4, <2>1 DEF Gone, Waiting
  <1>6. BlockOf(t) = NoBlock /\ CameFrom(t) = NoBlock /\ StageOf(t) = 0
    BY <1>5 DEF BlockOf, CameFrom, StageOf
  <1>7. (Task(t)!constants)' = Task(t)!constants
    BY <1>1, ConstantsStay
  <1> QED BY <1>5, <1>6, <1>7, GoneNext DEF Task!vars

\* A task that has pipelines is not looked at.
LEMMA UnseenStep ==
  ASSUME TypeInv, TaskCycle, NEW t, ~Sequentially(t)
  PROVE  UNCHANGED Task(t)!vars
  <1>1. G' = G
    BY DEF TaskCycle, Cycle, G
  <1>2. Gone(t) /\ ~Waiting(t) /\ Gone(t)'
    BY <1>1 DEF Gone, Waiting, Sequentially, Tasks
  <1>3. BlockOf(t) = NoBlock /\ CameFrom(t) = NoBlock /\ StageOf(t) = 0
    BY <1>2 DEF BlockOf, CameFrom, StageOf
  <1>4. (Task(t)!constants)' = Task(t)!constants
    BY <1>1, ConstantsStay
  <1> QED BY <1>2, <1>3, <1>4, GoneNext DEF Task!vars

LEMMA TaskStarts ==
  ASSUME ExecInv, StartsOnce(G), TaskInit, NEW t
  PROVE  Task(t)!Init
  <1>1. CASE ~Sequentially(t)
    <2>1. Gone(t) /\ ~Waiting(t) /\ BlocksOf(t) = {}
      BY <1>1 DEF Gone, Waiting, BlocksOf
    <2>2. BlockOf(t) = NoBlock /\ CameFrom(t) = NoBlock /\ StageOf(t) = 0
      BY <2>1 DEF BlockOf, CameFrom, StageOf
    <2> QED BY <2>1, <2>2 DEF Task!Init, Task!Nowhere, NoBlock
  <1>2. CASE Sequentially(t)
    <2>1. BlocksOf(t) # {} /\ StartOf(t) = Into(t)
      BY <1>2 DEF BlocksOf, StartOf, Sequentially, Tasks, TaskBlocks
    <2>2. clock = 0
      BY DEF TaskInit
    <2>3. CASE t = G.task[Entry]
      <3>1. Running(t) = {G.first[Entry]} /\ Into(t) = <<Entry, Entry>>
        BY <1>2, <2>2, <2>3, FirstRuns DEF Into
      <3>2. /\ BlockOf(t) = entryBB[G.first[Entry]] /\ CameFrom(t) = lastBB[G.first[Entry]]
            /\ StageOf(t) = G.first[Entry] - G.first[entryBB[G.first[Entry]]]
        BY <1>2, <3>1, Shown
      <3>3. G.first[Entry] \in States(G) /\ G.first[Entry] \in Nat
        BY DesignFacts DEF ExecInv, ThreadInv, TypeInv, IsScheduled
      <3>4. entryBB[G.first[Entry]] = Entry /\ lastBB[G.first[Entry]] = Entry
        BY <3>3 DEF TaskInit, Init
      <3>5. StageOf(t) = 0
        BY <3>2, <3>3, <3>4
      <3> QED BY <2>1, <3>1, <3>2, <3>4, <3>5 DEF Task!Init
    <2>4. CASE t # G.task[Entry]
      <3>1. Running(t) = {}
        BY <1>2, <2>2, <2>4, FirstRuns
      <3>2. Waiting(t) /\ ~Gone(t)
        BY <1>2, <2>2, <3>1 DEF Waiting, Gone
      <3>3. BlockOf(t) = Into(t)[1] /\ CameFrom(t) = Into(t)[2] /\ StageOf(t) = 0
        BY <3>2 DEF BlockOf, CameFrom, StageOf
      <3> QED BY <2>1, <3>3 DEF Task!Init
    <2> QED BY <2>3, <2>4
  <1> QED BY <1>1, <1>2

\* What the theorems about the execution ask of a design.
Orderly(g) == StartsOnce(g) /\ RestartsAtEntry(g) /\ BranchesDiffer(g)

LEMMA TaskSteps ==
  ASSUME ExecInv, Orderly(G), [TaskCycle]_taskVars, NEW t
  PROVE  [Task(t)!Next]_(Task(t)!vars)
  <1>1. StartsOnce(G) /\ RestartsAtEntry(G) /\ BranchesDiffer(G) /\ ThreadInv /\ TypeInv
        /\ active \subseteq States(G) /\ design \in {Elaborate(g) : g \in Functions}
    BY DEF Orderly, ExecInv, ThreadInv, TypeInv
  <1>2. CASE UNCHANGED taskVars
    <2>1. UNCHANGED <<design, active, entryBB, lastBB, clock>> /\ G' = G
      BY <1>2 DEF taskVars, vars, registers, G
    <2>2. Running(t)' = Running(t) /\ Sequentially(t)' = Sequentially(t) /\ Into(t)' = Into(t)
      BY <2>1 DEF Running, Sequentially, Tasks, TaskBlocks, Into
    <2>3. UNCHANGED <<BlockOf(t), CameFrom(t), StageOf(t)>>
      BY <2>1, <2>2 DEF BlockOf, CameFrom, StageOf, Gone, Waiting, Here
    <2>4. (Task(t)!constants)' = Task(t)!constants
      BY <2>1, ConstantsStay
    <2> QED BY <2>3, <2>4 DEF Task!vars
  <1>3. CASE TaskCycle
    <2>1. CASE ~Sequentially(t)
      BY <1>1, <1>3, <2>1, UnseenStep
    <2>2. CASE Sequentially(t) /\ Running(t) # {}
      <3>1. PICK s \in Running(t) : TRUE
        BY <2>2
      <3>2. Running(t) = RunsIn(active, entryBB, t)
        BY DEF Running, RunsIn
      <3>3. Running(t) = {s}
        BY <1>1, <2>2, <3>1, <3>2, RunsInSpan DEF ThreadInv, AtMostOne
      <3> QED BY <1>1, <1>3, <2>2, <3>3, ThreadStep
    <2>3. CASE Sequentially(t) /\ Running(t) = {} /\ clock = 0
      <3>1. t # G.task[Entry]
        BY <1>1, <2>3, FirstRuns
      <3> QED BY <1>1, <1>3, <2>3, <3>1, WaitingStep
    <2>4. CASE Sequentially(t) /\ Running(t) = {} /\ clock # 0
      <3>1. clock > 0
        BY <1>1, <2>4 DEF ThreadInv
      <3> QED BY <1>1, <1>3, <2>4, <3>1, GoneStep
    <2> QED BY <2>1, <2>2, <2>3, <2>4
  <1> QED BY <1>2, <1>3

(* Each task without pipelines executes its part of the graph one block    *)
(* after the other, as Sequential says, however the others proceed; for    *)
(* every design in which the tasks start once, returns lead to the entry   *)
(* and branches have two targets.                                          *)
THEOREM TaskImplements ==
  ASSUME \A g \in Functions : Orderly(g), NEW t
  PROVE  TaskSpec => Task(t)!Spec
  <1>1. \A g \in Functions : StartsOnce(g) /\ RestartsAtEntry(g)
    BY DEF Orderly
  <1>2. TaskInit => Task(t)!Init
    BY <1>1, ExecInvAtFirst, TaskStarts, DesignFacts DEF ExecInv, ThreadInv, TypeInv
  <1>3. ExecInv /\ [TaskCycle]_taskVars => [Task(t)!Next]_(Task(t)!vars)
    BY TaskSteps, DesignFacts DEF ExecInv, ThreadInv, TypeInv
  <1> QED BY <1>1, <1>2, <1>3, ExecInvariance, PTL DEF TaskSpec, Task!Spec

(* The first two tasks, as the run of ControlTasks checks it.              *)
THEOREM ExecutionImplements ==
  ASSUME \A g \in Functions : Orderly(g)
  PROVE  TaskSpec => ExecutesTheGraph
  <1>1. /\ Task(1)!Init => First!Init
        /\ Task(2)!Init => Second!Init
    BY DEF First!Init, Second!Init, Task!Init, First!Nowhere, Second!Nowhere, Task!Nowhere
  <1>2. [Task(1)!Next]_(Task(1)!vars) => [First!Next]_(First!vars)
    <2>1. First!Chains = Task(1)!Chains /\ First!constants = Task(1)!constants
      BY DEF First!Chains, Task!Chains, First!Edge, Task!Edge, First!constants, Task!constants,
             First!Cardinality, Task!Cardinality
    <2>2. First!Lasts = Task(1)!Lasts
      BY <2>1 DEF First!Lasts, Task!Lasts
    <2>3. First!constants' = (Task(1)!constants)' /\ First!vars' = (Task(1)!vars)' /\ First!vars = Task(1)!vars
      BY <2>1 DEF First!constants, Task!constants, First!vars, Task!vars
    <2>4. Task(1)!Advance => First!Advance
      BY <2>1, <2>3 DEF First!Advance, Task!Advance, First!constants, Task!constants, First!Nowhere, Task!Nowhere
    <2>5. Task(1)!Move => First!Move
      BY <2>1, <2>3 DEF First!Move, Task!Move, First!AtEnd, Task!AtEnd, First!constants, Task!constants, First!Nowhere, Task!Nowhere
    <2>6. Task(1)!Leave => First!Leave
      BY <2>2, <2>3 DEF First!Leave, Task!Leave, First!AtEnd, Task!AtEnd, First!constants, Task!constants, First!Nowhere, Task!Nowhere
    <2>7. Task(1)!Restart => First!Restart
      BY <2>2, <2>3 DEF First!Restart, Task!Restart, First!AtEnd, Task!AtEnd, First!constants, Task!constants, First!Nowhere, Task!Nowhere
    <2> QED BY <2>3, <2>4, <2>5, <2>6, <2>7 DEF First!Next, Task!Next
  <1>3. [Task(2)!Next]_(Task(2)!vars) => [Second!Next]_(Second!vars)
    <2>1. Second!Chains = Task(2)!Chains /\ Second!constants = Task(2)!constants
      BY DEF Second!Chains, Task!Chains, Second!Edge, Task!Edge, Second!constants, Task!constants,
             Second!Cardinality, Task!Cardinality
    <2>2. Second!Lasts = Task(2)!Lasts
      BY <2>1 DEF Second!Lasts, Task!Lasts
    <2>3. Second!constants' = (Task(2)!constants)' /\ Second!vars' = (Task(2)!vars)' /\ Second!vars = Task(2)!vars
      BY <2>1 DEF Second!constants, Task!constants, Second!vars, Task!vars
    <2>4. Task(2)!Advance => Second!Advance
      BY <2>1, <2>3 DEF Second!Advance, Task!Advance, Second!constants, Task!constants, Second!Nowhere, Task!Nowhere
    <2>5. Task(2)!Move => Second!Move
      BY <2>1, <2>3 DEF Second!Move, Task!Move, Second!AtEnd, Task!AtEnd, Second!constants, Task!constants, Second!Nowhere, Task!Nowhere
    <2>6. Task(2)!Leave => Second!Leave
      BY <2>2, <2>3 DEF Second!Leave, Task!Leave, Second!AtEnd, Task!AtEnd, Second!constants, Task!constants, Second!Nowhere, Task!Nowhere
    <2>7. Task(2)!Restart => Second!Restart
      BY <2>2, <2>3 DEF Second!Restart, Task!Restart, Second!AtEnd, Task!AtEnd, Second!constants, Task!constants, Second!Nowhere, Task!Nowhere
    <2> QED BY <2>3, <2>4, <2>5, <2>6, <2>7 DEF Second!Next, Task!Next
  <1>4. TaskSpec => Task(1)!Spec
    BY TaskImplements
  <1>5. TaskSpec => Task(2)!Spec
    BY TaskImplements
  <1> QED BY <1>1, <1>2, <1>3, <1>4, <1>5, PTL
        DEF ExecutesTheGraph, First!Spec, Second!Spec, Task!Spec
=============================================================================
