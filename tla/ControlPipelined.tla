-------------------------- MODULE ControlPipelined --------------------------
(***************************************************************************)
(* The control path of functions with pipelined loops: several iterations  *)
(* run at once, a new one may have to wait for the initiation interval,    *)
(* and the loop is left when the iterations in flight have finished.       *)
(***************************************************************************)
EXTENDS Control

CONSTANT MaxAge  (* ages stop here; greater than the initiation intervals  *)

ASSUME MaxAgeAssumption ==
  /\ MaxAge \in Nat
  /\ \A g \in Functions : \A p \in DOMAIN g.II : g.II[p] < MaxAge

VARIABLES   (* what the properties speak of: not registers of the design   *)
  age,      (* cycles since each pipeline state was last active, in one    *)
            (* stay in the pipeline                                        *)
  origin    (* for each pipeline state, the block before its entry block   *)

pipelinedVars == <<vars, age, origin>>

Pipelined == {s \in States(G) : G.pipe[s] # NoPipeline}

(* The jumps that bring control into pipeline p at this clock edge.        *)
Entering(p) == {j \in design.jumps : /\ Starts(p) \in j.sets
                                     /\ G.pipe[j.at] # p
                                     /\ Arrives(j)}

(* The branches that bring control into state s, and the block before one  *)
(* that goes on from it.                                                   *)
Jumping(s) ==
  {j \in design.jumps : j.kind = "branch" /\ j.target = s /\ Arrives(j)}
Before(s, b) ==
  IF entryBB[s] = b THEN origin[s]
  ELSE CHOOSE c \in Blocks(G) : <<c, b>> \in design.inState[s] \/ c = Entry

PipelinedInit ==
  /\ Init
  /\ age = [s \in Pipelined |-> MaxAge]
  /\ origin = [s \in Pipelined |-> Entry]

PipelinedCycle ==
  /\ Cycle
  /\ age' = [s \in Pipelined |->
       IF s \in active' THEN 0
       ELSE IF Entering(G.pipe[s]) # {} \/ age[s] = MaxAge THEN MaxAge
       ELSE age[s] + 1]
  /\ origin' = [s \in Pipelined |->
       IF Jumping(s) # {} THEN (CHOOSE j \in Jumping(s) : TRUE).src
       ELSE IF s - 1 \in Pipelined THEN Before(s - 1, entryBB'[s]) ELSE origin[s]]

PipelinedSpec == PipelinedInit /\ [][PipelinedCycle]_pipelinedVars
FairPipelinedSpec == PipelinedSpec /\ WF_pipelinedVars(PipelinedCycle)

PipelinedTypeOK ==
  /\ TypeOK
  /\ age \in [Pipelined -> 0 .. MaxAge]
  /\ origin \in [Pipelined -> Blocks(G)]

-----------------------------------------------------------------------------
(* While a pipeline has an iteration in flight nothing outside it runs:    *)
(* the code after the loop never overlaps with it.                         *)
PipelineAlone ==
  \A p \in Pipelines : InPipe(p) => active \subseteq design.pipes[p].states

(* A phi function in any stage of the pipeline sees the block its own      *)
(* iteration came from, however many iterations have started since.        *)
PhisSeeTheirIteration ==
  \A s \in Pipelined : s \in active => lastBB[s] = origin[s]

(* Within a stay in a pipeline no stage runs again before an initiation    *)
(* interval has passed: the spacing the memory and resource constraints of *)
(* the schedule rely on.  An iteration that has to wait for the interval   *)
(* starts exactly a cycle after it: cyclesToWaitForHazards plus the edge   *)
(* it waits at.                                                            *)
IterationsApart ==
  [][\A p \in Pipelines :
       Entering(p) = {} =>
         /\ \A s \in design.pipes[p].states \cap active' : age[s] + 1 >= G.II[p]
         /\ \A j \in design.jumps :
              j.delay > 0 /\ j.target = Starts(p) /\ Arrives(j)
                => age[Starts(p)] = G.II[p]
    ]_pipelinedVars

(* A block in flight goes on one stage per cycle until its last, as itself *)
(* whatever else runs beside it, and no stage starts out of nothing: what  *)
(* is active comes from the stage before or from a jump.                   *)
IterationsAdvance ==
  [][\A s \in Pipelined :
       /\ s # Starts(G.pipe[s]) /\ s \in active' =>
            s - 1 \in active \/ Jumping(s) # {}
       /\ \A b \in Blocks(G) :
            BlockActive(s, b) /\ s < G.last[b] => s + 1 \in active' /\ entryBB'[s + 1] = b
    ]_pipelinedVars

(* A loop that is left is left: once the branch out of it has been taken   *)
(* in state s, its target state t runs.                                    *)
Leaves(s, t) == \E j \in design.jumps :
                  j.leaves /\ j.at = s /\ j.target = t /\ Happens(j)

Exits == {<<j.at, j.target>> :
            j \in {k \in UNION {Jumps(g) : g \in Functions} : k.leaves}}

LeavesEventually ==
  \A exit \in Exits : Leaves(exit[1], exit[2]) ~> exit[2] \in active
=============================================================================
