----------------------------- MODULE Sequential -----------------------------
(***************************************************************************)
(* What the control path promises for a task without pipelines: it         *)
(* executes its blocks one after the other along the edges of the control  *)
(* flow graph, and a block that takes several cycles through all of its    *)
(* stages in order.  Control holds one block at the start of a cycle and   *)
(* may run through several within it.  It ends with an edge into another   *)
(* task, whose blocks follow edges of their own, or with a return; where   *)
(* that has a default behaviour the graph is executed again.               *)
(***************************************************************************)
EXTENDS Integers, Sequences, FiniteSets

VARIABLES
  targets, (* the successors of each block: it never changes               *)
  length,  (* stages of each block after its first: it never changes       *)
  again,   (* the function starts again when it returns: it never changes  *)
  mine,    (* the blocks of the task; none, if it has pipelines            *)
  start,   (* its first block and the one its phi functions see then       *)
  cur,     (* the block that has control                                   *)
  from,    (* the block it came from: what the phi functions of cur see    *)
  stage    (* 0 .. length[cur]                                             *)

constants == <<targets, length, again, mine, start>>
vars == <<constants, cur, from, stage>>

Nowhere == 0

Init ==
  /\ IF mine = {} THEN cur = Nowhere /\ from = Nowhere
                  ELSE cur = start[1] /\ from = start[2]
  /\ stage = 0

Edge(b, c) == \E i \in DOMAIN targets[b] : targets[b][i] = c

(* Blocks run through in one cycle: none of them twice, and each but the   *)
(* outer two has a single stage.                                           *)
Chains ==
  {chain \in UNION {[1 .. n -> mine] : n \in 2 .. Cardinality(mine) + 1} :
     /\ chain[1] = cur
     /\ \A i \in 1 .. Len(chain) - 1 : Edge(chain[i], chain[i + 1])
     /\ \A i \in 2 .. Len(chain) - 1 :
          length[chain[i]] = 0 /\ \A j \in 1 .. i - 1 : chain[i] # chain[j]}

Advance ==
  /\ cur # Nowhere /\ stage < length[cur]
  /\ stage' = stage + 1
  /\ UNCHANGED <<constants, cur, from>>

AtEnd == cur # Nowhere /\ stage = length[cur]

(* The new block starts in the next cycle, or its first stage was part of  *)
(* this one.                                                               *)
Move ==
  /\ AtEnd
  /\ \E chain \in Chains :
       /\ cur' = chain[Len(chain)]
       /\ from' = chain[Len(chain) - 1]
  /\ stage' \in {0} \cup (IF length[cur'] > 0 THEN {1} ELSE {})
  /\ UNCHANGED constants

(* The block that has control, or the last of those run through in this    *)
(* cycle, and the block before it.                                         *)
Lasts == {<<cur, from>>} \cup
         {<<chain[Len(chain)], chain[Len(chain) - 1]>> :
            chain \in {c \in Chains : length[c[Len(c)]] = 0}}

Leave ==
  /\ AtEnd
  /\ \E last \in Lasts : \E i \in DOMAIN targets[last[1]] : targets[last[1]][i] \notin mine
  /\ cur' = Nowhere /\ from' = Nowhere /\ stage' = 0
  /\ UNCHANGED constants

Restart ==
  /\ again
  /\ AtEnd
  /\ \E last \in Lasts : targets[last[1]] = <<>> /\ from' = last[2]
  /\ cur' = start[1] /\ stage' = 0
  /\ UNCHANGED constants

Next == Advance \/ Move \/ Leave \/ Restart

Spec == Init /\ [][Next]_vars
=============================================================================
