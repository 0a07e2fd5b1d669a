----------------------------- MODULE LiveValues -----------------------------
(***************************************************************************)
(* How the compiler plans the data path (microarchitecture.cpp): in which  *)
(* states a value is live, which states get a register or an input for it, *)
(* and from which wire an instruction reads it.                            *)
(*                                                                         *)
(* The plan for one value does not depend on any other, and it is the      *)
(* union of the plans for each of its uses, so one value with one use is   *)
(* enough.  A value v of a scheduled function g is a record:               *)
(*   blk, at    the block of its instruction, and the state it ends in     *)
(*   user, uat  the block of its use, and the state that one starts in     *)
(*   phi        the use is a phi function, which takes v if control came   *)
(*   pred       from block pred                                            *)
(*   ahead      and v is itself made by a phi function, that one or one     *)
(*              that stands before it at the head of the same block         *)
(***************************************************************************)
EXTENDS StateGraph

(* Dominance, as LLVM computes it: no way from the entry to b around a.    *)
Around(g, a, S) ==
  S \cup {c \in Blocks(g) \ {a} : \E p \in S : Edge(g, p, c)}

ReachedAround(g, a) ==
  LET reached[n \in 0 .. Cardinality(Blocks(g))] ==
        IF n = 0 THEN {Entry} \ {a} ELSE Around(g, a, reached[n - 1])
  IN  reached[Cardinality(Blocks(g))]

Dominates(g, a, b) == b \notin ReachedAround(g, a)

(* The definition of v dominates its use.  A phi function is at the head   *)
(* of its block.                                                           *)
DefDominatesUse(g, v) ==
  IF v.blk = v.user THEN ~v.phi ELSE Dominates(g, v.blk, v.user)

-----------------------------------------------------------------------------
ControlPreds(g, b) == {e[1] : e \in {f \in g.preds : f[2] = b}}

(* The blocks control may be in when state s begins.                       *)
EntryBlocks(g, s) ==
  {b \in BlocksIn(g, s) :
     \/ ControlPreds(g, b) = {}
     \/ g.first[b] # s
     \/ \E p \in Blocks(g) : Edge(g, p, b) /\ <<p, b>> \notin InStateTransitions(g, s)}

SameStatePredecessors(g, s, b) == {p \in ControlPreds(g, b) : g.br[p] = s}

(* topologicalLevelsAssumingEntry: a block gets a level once all its       *)
(* predecessors in the state have one.                                     *)
NoLevel == -1
Ready(g, s, l, b) ==
  /\ l[b] = NoLevel /\ b \in BlocksIn(g, s) /\ SameStatePredecessors(g, s, b) # {}
  /\ \A p \in SameStatePredecessors(g, s, b) : l[p] # NoLevel

TopologicalLevels(g, s, e) ==
  LET level[n \in 0 .. Cardinality(Blocks(g))] ==
        IF n = 0 THEN [b \in Blocks(g) |-> IF b = e THEN 0 ELSE NoLevel]
        ELSE [b \in Blocks(g) |-> IF Ready(g, s, level[n - 1], b) THEN n
                                  ELSE level[n - 1][b]]
  IN  level[Cardinality(Blocks(g))]

-----------------------------------------------------------------------------
PrecedesInOrder(used, b, levels) ==
  \/ used = b
  \/ levels[b] = NoLevel
  \/ levels[used] # NoLevel /\ levels[used] < levels[b]

(* Mutant: the order of the blocks in the state is not looked at.          *)
MaybeUsedLater(g, v) == {s \in {v.uat} : v.at # s}

(* valuesThatMayBeUsedInState: v may be read here before it is made here.  *)
MaybeUsed(g, v) ==
  {s \in {v.uat} :
     ~ /\ v.at = s /\ DefDominatesUse(g, v)
       /\ \A e \in EntryBlocks(g, s) :
            PrecedesInOrder(v.blk, v.user, TopologicalLevels(g, s, e))}

(* The blocks a state may end in.                                          *)
ActiveOnExit(g, s) ==
  InProgress(g, s) \cup
  {b \in BlocksIn(g, s) :
     /\ g.br[b] = s
     /\ \/ g.succ[b] = <<>>
        \/ \E i \in DOMAIN g.succ[b] :
             <<b, g.succ[b][i]>> \notin InStateTransitions(g, s)}

(* valuesThatAreAlwaysDefinedInState: whichever way the state is run       *)
(* through, v is made.                                                     *)
AlwaysDefined(g, v) ==
  {s \in {v.at} :
     /\ \A b \in ActiveOnExit(g, s) : Dominates(g, v.blk, b)
     /\ \A e \in EntryBlocks(g, s) : TopologicalLevels(g, s, e)[v.blk] # NoLevel}

(* The states that may run after s in the same task.                       *)
NextStates(g, s) ==
  {g.first[e[2]] : e \in {f \in OutOfStateTransitions(g, s) :
                            g.task[f[1]] = g.task[f[2]]}}
  \cup (IF InProgress(g, s) # {} THEN {s + 1} ELSE {})

(* findLiveValues: the states at whose beginning v is live, and those at   *)
(* whose end it is.                                                        *)
LiveOut(g, in) == {s \in States(g) : NextStates(g, s) \cap in # {}}
LiveIn(g, v) ==
  LET in[n \in 0 .. Cardinality(States(g))] ==
        IF n = 0 THEN MaybeUsed(g, v)
        ELSE MaybeUsed(g, v) \cup (LiveOut(g, in[n - 1]) \ AlwaysDefined(g, v))
  IN  in[Cardinality(States(g))]

(* allValuesThatMayNeedStorage.                                            *)
MayNeedStorage(v) == v.phi \/ v.user # v.blk \/ v.uat # v.at

-----------------------------------------------------------------------------
(* Mutant: in the state that makes v, its user always sees the wire.       *)
RouteLive(g, v) ==
  [e \in EntryBlocks(g, v.uat) |-> IF v.at = v.uat THEN "live" ELSE "stored"]

(* outputWire: where the user finds v, by the entry block of its state:    *)
(* on the output of the unit that makes it, or in the state's input.  An   *)
(* entry block from which the user has no level is skipped: the wire is 0. *)
(* Within a block it goes by the order of the instructions only: a phi     *)
(* function does not get the stored value of a phi function ahead of it,   *)
(* but the one that is made in this state.                                 *)
Route(g, v) ==
  LET From(e) == LET l == TopologicalLevels(g, v.uat, e)
                 IN  CASE l[v.user] = NoLevel -> "zero"
                       [] l[v.user] # NoLevel /\ l[v.blk] = NoLevel -> "stored"
                       [] OTHER -> IF l[v.user] > l[v.blk] THEN "live" ELSE "stored"
  IN  [e \in EntryBlocks(g, v.uat) |->
         CASE v.at # v.uat -> "stored"
           [] v.at = v.uat /\ v.blk = v.user ->
                IF v.phi /\ ~v.ahead THEN "stored" ELSE "live"
           [] OTHER -> From(e)]

(* The states that may have handed control to s.                           *)
PossiblePriorStates(g, s) ==
  ({s, s - 1} \cap Nat) \cup
  {g.br[e[1]] : e \in {f \in UNION {OutOfStateTransitions(g, t) : t \in States(g)} :
                         g.first[f[2]] = s}}

(* buildDataPathWires, for one value: the states with a data_in input for  *)
(* it, those with a data_store register, the route to its user, and the    *)
(* registers each input chooses from.                                      *)
Plan(g, v) ==
  LET live == LiveIn(g, v)
  IN  [v      |-> v,
       inputs |-> IF MayNeedStorage(v) THEN live ELSE {},
       stores |-> IF MayNeedStorage(v) THEN LiveOut(g, live) ELSE {},
       route  |-> Route(g, v),
       prior  |-> [s \in States(g) |-> PossiblePriorStates(g, s)]]

-----------------------------------------------------------------------------
(* A value may be used where it dominates the use, after it is made; by a  *)
(* phi function at the end of the edge from pred.                          *)
PlainUses(g) ==
  {v \in [blk : Blocks(g), at : States(g), user : Blocks(g), uat : States(g),
          phi : {FALSE}, pred : {NoBlock}, ahead : {FALSE}] :
     /\ g.first[v.blk] <= v.at /\ v.at <= g.last[v.blk]
     /\ g.first[v.user] <= v.uat /\ v.uat <= g.last[v.user]
     /\ v.at <= v.uat
     /\ Dominates(g, v.blk, v.user)}

(* rawOperandDD: in a pipeline the value is made before the next iteration *)
(* needs it.                                                               *)
PhiUses(g) ==
  {v \in [blk : Blocks(g), at : States(g), user : Blocks(g), uat : States(g),
          phi : {TRUE}, pred : Blocks(g), ahead : BOOLEAN] :
     /\ g.first[v.blk] <= v.at /\ v.at <= g.last[v.blk]
     /\ g.first[v.user] <= v.uat /\ v.uat <= g.last[v.user]
     /\ Edge(g, v.pred, v.user)
     /\ v.ahead => v.blk = v.user
     /\ Dominates(g, v.blk, v.pred)
     /\ v.blk = v.user /\ g.pipe[v.at] # NoPipeline =>
          v.at < v.uat + g.II[g.pipe[v.at]]}

AllUses(g) == PlainUses(g) \cup PhiUses(g)

(* Every block of the user's state that can be entered leads to the user   *)
(* by level.                                                               *)
Levelled(g, v) ==
  \A e \in EntryBlocks(g, v.uat) :
     v.blk # v.user /\ v.at = v.uat =>
        TopologicalLevels(g, v.uat, e)[v.user] # NoLevel
PhiFirst(v) == v.phi /\ v.blk = v.user => v.uat <= v.at
PhisApart(v) == v.ahead => v.at # v.uat
BranchLast(g, v) == g.pipe[v.at] # NoPipeline =>
                      (v.at <= g.br[v.blk] \/ (v.user = v.blk /\ ~v.phi))
PassingUses(g) == {v \in AllUses(g) : /\ Levelled(g, v) /\ PhiFirst(v)
                                       /\ PhisApart(v) /\ BranchLast(g, v)}
=============================================================================
