---------------------------- MODULE ControlPreds ----------------------------
(***************************************************************************)
(* The order the scheduler gives the basic blocks of a function            *)
(* (scheduling.cpp).  buildControlPreds walks the control flow graph       *)
(* breadth first and keeps, of the edges of the graph, those that lead     *)
(* forward; topologicalSortOfBlocks then lists the blocks so that kept     *)
(* predecessors come first, by sweeping the block list again and again     *)
(* until every block is out.                                               *)
(*                                                                         *)
(* Step "walk" is one iteration of the first loop, step "sweep" the visit  *)
(* of one block by the second.                                             *)
(***************************************************************************)
EXTENDS Integers, Sequences, FiniteSets

CONSTANTS
  N,       (* the function has the blocks 1 .. N, in list order; 1 is its  *)
           (* entry                                                        *)
  Graphs   (* the control flow graphs to consider                          *)

Blocks == 1 .. N
Entry  == 1

(* A graph gives each block the successors of its terminator in order: none *)
(* for a return, one or two for a branch.  LLVM forbids branches to the     *)
(* entry block.                                                             *)
IsGraph(g) ==
  g \in [Blocks -> {<<>>} \cup {<<a>> : a \in Blocks}
                          \cup {<<a, b>> : a \in Blocks, b \in Blocks}]

ASSUME GraphAssumption ==
  /\ N \in Nat \ {0}
  /\ \A g \in Graphs : IsGraph(g)

VARIABLES
  graph,                (* the function compiled: it never changes          *)
  phase,                (* "walk", "sweep" or "done"                        *)
  toVisit,              (* the deque of blocks                              *)
  alreadyVisited,
  controlPredecessors,  (* the kept edges <<block, successor>>              *)
  nextBB,               (* the block the sweep looks at                     *)
  sortedOrder,
  visitedAt             (* ghost: when a block was first taken off toVisit  *)

vars == <<graph, phase, toVisit, alreadyVisited, controlPredecessors, nextBB,
          sortedOrder, visitedAt>>

Successors(b) == {graph[b][i] : i \in DOMAIN graph[b]}
Edges == {e \in Blocks \X Blocks : e[2] \in Successors(e[1])}
Preds(b) == {p \in Blocks : <<p, b>> \in controlPredecessors}
Sorted == {sortedOrder[i] : i \in DOMAIN sortedOrder}

Init ==
  /\ graph \in Graphs
  /\ phase = "walk"
  /\ toVisit = <<Entry>>
  /\ alreadyVisited = {}
  /\ controlPredecessors = {}
  /\ nextBB = 1
  /\ sortedOrder = <<>>
  /\ visitedAt = [b \in Blocks |-> 0]

(* The loop over the successors of b, of which there are at most two.      *)
PushUnvisited(queue, b, visited) ==
  LET Push(q, s) == IF s \in visited THEN q ELSE Append(q, s)
      first == IF graph[b] = <<>> THEN queue ELSE Push(queue, graph[b][1])
  IN  IF Len(graph[b]) = 2 THEN Push(first, graph[b][2]) ELSE first

(* Mutants: the block not yet marked when its successors are looked at;    *)
(* successors that wait in toVisit taken for visited.                      *)
KeptUnmarked(b, visited) ==
  {<<b, s>> : s \in Successors(b) \ (visited \ {b})}
KeptUnqueued(b, visited) ==
  {<<b, s>> : s \in {t \in Successors(b) \ visited :
                      \A i \in DOMAIN toVisit : toVisit[i] # t}}

(* The edges kept of block b, which is marked before its successors are    *)
(* looked at, so an edge to itself is dropped.  A successor that waits in  *)
(* toVisit is not yet marked: it is queued again, and its edge is kept.    *)
KeptEdges(b, visited) == {<<b, s>> : s \in Successors(b) \ visited}

Walk ==
  /\ phase = "walk"
  /\ toVisit # <<>>
  /\ LET next    == Head(toVisit)
         visited == alreadyVisited \cup {next}
     IN  /\ alreadyVisited' = visited
         /\ toVisit' = PushUnvisited(Tail(toVisit), next, visited)
         /\ controlPredecessors' =
              controlPredecessors \cup KeptEdges(next, visited)
         /\ visitedAt' = [visitedAt EXCEPT ![next] =
                            IF next \in alreadyVisited
                              THEN @ ELSE Cardinality(visited)]
  /\ UNCHANGED <<graph, phase, nextBB, sortedOrder>>

StartSweep ==
  /\ phase = "walk"
  /\ toVisit = <<>>
  /\ phase' = "sweep"
  /\ UNCHANGED <<graph, toVisit, alreadyVisited, controlPredecessors, nextBB,
                 sortedOrder, visitedAt>>

(* Mutants: predecessors not looked at; no return to the head of the list. *)
PlaceableAlways(b) == b \notin Sorted
FollowingOnce(b) == b + 1

Placeable(b) == b \notin Sorted /\ Preds(b) \subseteq Sorted
Following(b) == IF b = N THEN 1 ELSE b + 1

(* A sweep goes on to the end of the block list even when the last block   *)
(* has been placed; only then is the loop condition tested.                *)
Sweep ==
  /\ phase = "sweep"
  /\ sortedOrder' = IF Placeable(nextBB) THEN Append(sortedOrder, nextBB)
                                          ELSE sortedOrder
  /\ nextBB' = Following(nextBB)
  /\ phase' = IF nextBB = N /\ Len(sortedOrder') = N THEN "done" ELSE "sweep"
  /\ UNCHANGED <<graph, toVisit, alreadyVisited, controlPredecessors,
                 visitedAt>>

Next == Walk \/ StartSweep \/ Sweep

Spec == Init /\ [][Next]_vars
FairSpec == Spec /\ WF_vars(Next)

-----------------------------------------------------------------------------
TypeOK ==
  /\ graph \in Graphs
  /\ phase \in {"walk", "sweep", "done"}
  /\ toVisit \in Seq(Blocks)
  /\ alreadyVisited \subseteq Blocks
  /\ controlPredecessors \subseteq Blocks \X Blocks
  /\ nextBB \in Blocks
  /\ sortedOrder \in Seq(Blocks)
  /\ visitedAt \in [Blocks -> 0 .. N]

(* Every kept edge leads from a block to one visited later (or not yet):   *)
(* whatever loops the function has, what is kept of them has no cycle, so  *)
(* the precedence constraints the scheduler makes of it are satisfiable.   *)
KeptEdgesLeadForward ==
  \A e \in controlPredecessors :
    /\ e \in Edges
    /\ e[1] \in alreadyVisited
    /\ e[2] \in alreadyVisited => visitedAt[e[1]] < visitedAt[e[2]]

(* Once the walk is over every edge of the reachable graph whose target    *)
(* was visited after its source is kept, however often blocks were queued: *)
(* a forward dependence is dropped only if the walk met its target first.  *)
NoForwardEdgeLost ==
  phase # "walk" =>
    controlPredecessors =
      {e \in Edges : /\ {e[1], e[2]} \subseteq alreadyVisited
                     /\ visitedAt[e[1]] < visitedAt[e[2]]}

(* The sorted list repeats no block and puts a block's kept predecessors   *)
(* before it; unreachable blocks, which have none, are placed too.         *)
SortRespectsPreds ==
  \A i \in DOMAIN sortedOrder :
    /\ \A j \in DOMAIN sortedOrder : sortedOrder[i] = sortedOrder[j] => i = j
    /\ \A p \in Preds(sortedOrder[i]) : \E j \in 1 .. i - 1 : sortedOrder[j] = p

(* Neither loop has a bound of its own: the walk ends because queued       *)
(* duplicates add nothing once all their successors are visited, the sweep *)
(* because the kept edges have no cycle.                                   *)
BothLoopsEnd == <>(phase = "done")

(* "it is really just a linearization that tries to respect forward        *)
(* control dependences" (scheduling.cpp:714): an edge that is on no cycle  *)
(* of the function is a forward control dependence, and the list should    *)
(* put its source first.                                                   *)
Reaches(a, b) ==
  LET Onward(S) == S \cup UNION {Successors(c) : c \in S}
      from[n \in 0 .. N] == IF n = 0 THEN {a} ELSE Onward(from[n - 1])
  IN  b \in from[N]

RespectsForwardDependences ==
  phase = "done" =>
    \A e \in Edges : Reaches(Entry, e[1]) /\ ~Reaches(e[2], e[1]) =>
      \E i, j \in 1 .. N :
        i < j /\ sortedOrder[i] = e[1] /\ sortedOrder[j] = e[2]
=============================================================================
