----------------------------- MODULE StateGraph -----------------------------
(***************************************************************************)
(* What the compiler works out about a scheduled function before it emits  *)
(* hardware: the state transition graph (scheduling.cpp) and the state     *)
(* transitions of the control path (microarchitecture.cpp).                *)
(*                                                                         *)
(* A scheduled function g is a record:                                     *)
(*   succ      [blocks -> sequences of blocks]  targets of the terminators *)
(*   preds     the pairs of controlPredecessors                            *)
(*   first     [blocks -> states]  blockStartState                         *)
(*   br        [blocks -> states]  end state of the terminator             *)
(*   last      [blocks -> states]  blockEndState                           *)
(*   task      [blocks -> Nat]                                             *)
(*   pipe      [states -> Nat]  the pipeline of a state, NoPipeline if none*)
(*   II        [pipelines -> Nat \ {0}]  initiation intervals              *)
(*   retState  the default return state, or NoState                        *)
(* Block 1 is the entry block.                                             *)
(***************************************************************************)
EXTENDS Integers, Sequences, FiniteSets

Entry == 1
NoBlock == 0
NoState == -1
NoPipeline == 0

Blocks(g) == DOMAIN g.succ
States(g) == DOMAIN g.pipe

IsScheduled(g) ==
  /\ Entry \in Blocks(g) /\ Blocks(g) \subseteq Nat \ {NoBlock}
  /\ States(g) \subseteq Nat
  /\ IsFiniteSet(Blocks(g)) /\ IsFiniteSet(States(g))
  /\ g.succ \in [Blocks(g) -> Seq(Blocks(g))]
  /\ \A b \in Blocks(g) : Len(g.succ[b]) <= 2
  /\ g.preds \subseteq Blocks(g) \X Blocks(g)
  /\ {g.first, g.br, g.last} \subseteq [Blocks(g) -> States(g)]
  /\ \A b \in Blocks(g) :
       g.first[b] <= g.last[b] /\ g.first[b] .. g.last[b] \subseteq States(g)
  /\ g.task \in [Blocks(g) -> Nat]
  /\ g.pipe \in [States(g) -> {NoPipeline} \cup DOMAIN g.II]
  /\ g.II \in [DOMAIN g.II -> Nat \ {0}]
  /\ g.retState \in States(g) \cup {NoState}

-----------------------------------------------------------------------------
BlocksIn(g, s) == {b \in Blocks(g) : g.first[b] <= s /\ s <= g.last[b]}

(* A control edge whose source ends in the state in which its target       *)
(* starts.                                                                 *)
InStateTransitions(g, s) ==
  {e \in g.preds : g.first[e[2]] = s /\ g.last[e[1]] = s}

Edge(g, b, c) == \E i \in DOMAIN g.succ[b] : g.succ[b][i] = c

AllTransitions(g, s) ==
  {e \in Blocks(g) \X Blocks(g) : g.br[e[1]] = s /\ Edge(g, e[1], e[2])}

OutOfStateTransitions(g, s) == AllTransitions(g, s) \ InStateTransitions(g, s)

(* Mutant: a block is over where its terminator ends.                      *)
InProgressToBranch(g, s) == {b \in BlocksIn(g, s) : s < g.br[b]}
InProgress(g, s) == {b \in BlocksIn(g, s) : g.last[b] # s}
Returning(g, s) == {b \in Blocks(g) : g.succ[b] = <<>> /\ g.br[b] = s}

PipelineStates(g, p) == {s \in States(g) : g.pipe[s] = p}
EntryState(g, p) ==
  CHOOSE s \in PipelineStates(g, p) : \A t \in PipelineStates(g, p) : s <= t
TerminalState(g, p) ==
  CHOOSE s \in PipelineStates(g, p) : \A t \in PipelineStates(g, p) : t <= s

-----------------------------------------------------------------------------
(* Mutant: no jump waits for the initiation interval.                      *)
HazardNone(g, at) == 0

(* cyclesToWaitForHazards: a jump inside a pipeline.                       *)
Hazard(g, at) == g.II[g.pipe[at]] - 1 - (at - EntryState(g, g.pipe[at]))

(* A transition of the control path: from state at, in which block src is  *)
(* active, to state target, where block dest is to run.                    *)
Jump(g, kind, at, src, dest, target) ==
  LET inPipe == g.pipe[at] # NoPipeline
      same   == inPipe /\ g.pipe[target] = g.pipe[at]
      hazard == IF same /\ kind # "stay" THEN Hazard(g, at) ELSE 0
  IN [kind |-> kind, at |-> at, src |-> src, dest |-> dest, target |-> target,
      outOfTask |-> g.task[src] # g.task[dest],
      (* addStateTransition: a jump out of a pipeline waits for it to drain *)
      leaves |-> inPipe /\ g.pipe[target] = NoPipeline,
      (* the cycles the jump waits; "stay" is the default transition        *)
      delay |-> IF hazard > 0 THEN hazard ELSE 0,
      (* the states the jump activates: also the entry state of a pipeline  *)
      (* that is entered                                                    *)
      sets |-> {target} \cup
               (IF g.pipe[target] = NoPipeline \/ same THEN {}
                ELSE {EntryState(g, g.pipe[target])})]

(* emitStateCode, for every state: the branches out of it, the returns in  *)
(* it, and the blocks that go on in the next state.                        *)
Jumps(g) ==
  UNION {{Jump(g, "branch", s, e[1], e[2], g.first[e[2]]) :
            e \in OutOfStateTransitions(g, s)}
         \cup {Jump(g, "return", s, b, b,
                    IF g.retState = NoState THEN s ELSE g.retState) :
                 b \in Returning(g, s)}
         \cup {Jump(g, "stay", s, b, b, s + 1) : b \in InProgress(g, s)} :
           s \in States(g)}

(* startState: the target of the only jump into a task, else the first     *)
(* state of the function.                                                  *)
StartState(g, t) ==
  LET into == {j \in Jumps(g) : /\ j.kind = "branch" /\ j.outOfTask
                                /\ g.task[j.dest] = t}
  IN  IF into # {} THEN (CHOOSE j \in into : TRUE).target ELSE g.first[Entry]

(* buildMicroArchitecture: everything the hardware is made from.           *)
Elaborate(g) ==
  [g        |-> g,
   jumps    |-> Jumps(g),
   inState  |-> [s \in States(g) |-> InStateTransitions(g, s)],
   pipes    |-> [p \in {g.pipe[s] : s \in States(g)} \ {NoPipeline} |->
                   [states   |-> PipelineStates(g, p),
                    entry    |-> EntryState(g, p),
                    terminal |-> TerminalState(g, p)]],
   waits    |-> {j.at : j \in {k \in Jumps(g) : k.delay > 0}},
   starts   |-> {StartState(g, g.task[b]) : b \in Blocks(g)}]
=============================================================================
