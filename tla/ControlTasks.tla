---------------------------- MODULE ControlTasks ----------------------------
(***************************************************************************)
(* The control path of functions that are divided into tasks: the branch   *)
(* from one task into another is taken at reset instead of when its block  *)
(* executes, so that the tasks run side by side and meet only in the fifos *)
(* they share.  A function that is not divided is one task.               *)
(***************************************************************************)
EXTENDS Control, BlockSchedule

ASSUME ScheduleAssumption == \A g \in Functions : Constrained(g)

VARIABLE clock  (* cycles since the reset; 2 stands for any larger number  *)

taskVars == <<vars, clock>>

TaskInit == Init /\ clock = 0
TaskCycle == Cycle /\ clock' = IF clock < 2 THEN clock + 1 ELSE 2
TaskSpec == TaskInit /\ [][TaskCycle]_taskVars

Tasks == {G.task[b] : b \in Blocks(G)}
TaskBlocks(t) == {b \in Blocks(G) : G.task[b] = t}

(* The edges from other tasks into task t of design g.                     *)
EdgesInto(g, t) == {e \in Blocks(g) \X Blocks(g) :
                      Edge(g, e[1], e[2]) /\ g.task[e[1]] # t /\ g.task[e[2]] = t}

WithoutPipelines(g, t) ==
  \A b \in Blocks(g) : g.task[b] = t => g.pipe[g.first[b]] = NoPipeline

(* Tasks that start once.  The first is entered by no other, any other by  *)
(* one edge (startState asserts that it is one), not out of a pipeline     *)
(* unless it has one itself; and where there are several the function is   *)
(* not started again.                                                      *)
StartsOnce(g) ==
  /\ EdgesInto(g, g.task[Entry]) = {}
  /\ \A b \in {c \in Blocks(g) : g.task[c] # g.task[Entry]} :
       /\ g.retState = NoState /\ g.pipe[g.first[Entry]] = NoPipeline
       /\ \E e \in Blocks(g) \X Blocks(g) :
            /\ EdgesInto(g, g.task[b]) = {e}
            /\ WithoutPipelines(g, g.task[b]) => g.pipe[g.br[e[1]]] = NoPipeline

(* A function that starts again does so in the first state of its entry    *)
(* block, to which no branch leads.                                        *)
RestartsAtEntry(g) ==
  g.retState # NoState =>
    /\ g.retState = g.first[Entry]
    /\ \A j \in Jumps(g) : j.kind = "branch" => j.target # g.retState

(* No conditional branch has twice the same target: its false side would   *)
(* lead nowhere (see Chosen).                                              *)
BranchesDiffer(g) ==
  \A b \in Blocks(g) : Len(g.succ[b]) = 2 => g.succ[b][1] # g.succ[b][2]

(* The states in which task t executes.                                    *)
Running(t) ==
  {s \in active : entryBB[s] \in TaskBlocks(t) \cap BlocksIn(G, s)}

(* The state task t is in, if it has started and not ended.                *)
Here(t) == CHOOSE s \in Running(t) : TRUE

Sequentially(t) == t \in Tasks /\ WithoutPipelines(G, t)

(* The edge on which a task begins.                                        *)
Into(t) ==
  IF t = G.task[Entry] THEN <<Entry, Entry>>
  ELSE CHOOSE e \in TaskBlocks(t) \X (Blocks(G) \ TaskBlocks(t)) :
         Edge(G, e[2], e[1])

Waiting(t) == Sequentially(t) /\ clock = 0 /\ Running(t) = {}
Gone(t) == ~Sequentially(t) \/ (clock > 0 /\ Running(t) = {})

BlockOf(t) == CASE Gone(t) -> NoBlock [] Waiting(t) -> Into(t)[1] [] OTHER -> entryBB[Here(t)]
CameFrom(t) == CASE Gone(t) -> NoBlock [] Waiting(t) -> Into(t)[2] [] OTHER -> lastBB[Here(t)]
StageOf(t) == IF Gone(t) \/ Waiting(t) THEN 0 ELSE Here(t) - G.first[BlockOf(t)]
BlocksOf(t) == IF Sequentially(t) THEN TaskBlocks(t) ELSE {}
StartOf(t) == IF Sequentially(t) THEN Into(t) ELSE <<NoBlock, NoBlock>>

-----------------------------------------------------------------------------
(* A task without pipelines is a single thread of control, however the     *)
(* others proceed: control neither splits nor leaks from one to another.   *)
TasksAreThreads ==
  \A t \in Tasks : Sequentially(t) => Cardinality(Running(t)) <= 1

(* The registers implement the sequential execution of the graph, in each  *)
(* task: all start at reset ("I want all tasks to start on reset",         *)
(* emitStateCode), blocks follow edges, stages follow each other, and the  *)
(* last-block register that the phi functions read names the block control *)
(* really came from, also when several blocks ran in the cycle before.  A  *)
(* task stops only at the edge that leaves it or at a return, and with a   *)
(* default return state the function starts from its entry block again.    *)
First == INSTANCE Sequential
           WITH targets <- G.succ,
                length  <- [b \in Blocks(G) |-> G.last[b] - G.first[b]],
                again   <- G.retState # NoState,
                mine    <- BlocksOf(1), start <- StartOf(1),
                cur     <- BlockOf(1), from  <- CameFrom(1), stage <- StageOf(1)
Second == INSTANCE Sequential
            WITH targets <- G.succ,
                 length  <- [b \in Blocks(G) |-> G.last[b] - G.first[b]],
                 again   <- G.retState # NoState,
                 mine    <- BlocksOf(2), start <- StartOf(2),
                 cur     <- BlockOf(2), from  <- CameFrom(2), stage <- StageOf(2)

ExecutesTheGraph == First!Spec /\ Second!Spec

(* A block that starts was reached along an edge of the graph from the     *)
(* block its phi functions are told of; the edge between the tasks counts. *)
EntriesFollowEdges ==
  \A s \in active :
    LET b == entryBB[s]
    IN  clock > 0 /\ s = G.first[b] /\ b # Entry /\ G.succ[b] # <<>>
          => Edge(G, lastBB[s], b)

(* After the first cycle, in which the start states of the other tasks are *)
(* active with nothing to do, an active state executes.                    *)
StartedStatesExecute == clock > 0 => ActiveStatesExecute
=============================================================================
