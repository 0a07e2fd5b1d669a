--------------------------- MODULE BlockSchedule ---------------------------
(***************************************************************************)
(* Which schedules the solver can produce: the constraints it is given     *)
(* about blocks, terminators, control edges and tasks (scheduling.cpp),    *)
(* and how the state transition graph reads a solution.                    *)
(* The data is abstracted: a block is its first state, the state of its    *)
(* terminator and its last state.                                          *)
(***************************************************************************)
EXTENDS StateGraph

(* The edges buildControlPreds keeps: those that lead forward in the order *)
(* in which a breadth first walk from block 1 first meets the blocks (see  *)
(* ControlPreds).                                                          *)
ControlPredecessors(succ) ==
  LET N == Cardinality(DOMAIN succ)
      In(b, s) == \E i \in DOMAIN s : s[i] = b
      Fresh(b, s) == IF In(b, s) THEN s ELSE Append(s, b)
      Expand(b, s) == CASE Len(succ[b]) = 0 -> s
                        [] Len(succ[b]) = 1 -> Fresh(succ[b][1], s)
                        [] OTHER -> Fresh(succ[b][2], Fresh(succ[b][1], s))
      order[n \in 0 .. N] ==
        IF n = 0 THEN <<1>>
        ELSE LET before == order[n - 1]
             IN  IF n > Len(before) THEN before
                 ELSE Expand(before[n], before)
      visits == order[N]
  IN  {<<visits[e[1]], visits[e[2]]>> :
         e \in {p \in (1 .. Len(visits)) \X (1 .. Len(visits)) :
                  /\ p[1] < p[2]
                  /\ In(visits[p[2]], succ[visits[p[1]]])}}

(* addBasicBlock and the tightening of block starts in extractModel: only  *)
(* in a pipeline may a block go on after its terminator.                   *)
BlockTimes(first, br, last, pipelined) ==
  \A b \in DOMAIN first :
    /\ first[b] <= br[b]
    /\ IF b \in pipelined THEN br[b] <= last[b] ELSE br[b] = last[b]

(* addStandardConstraints: an edge inside a pipeline or outside all of     *)
(* them may stay in one state; one into or out of a pipeline or a task may *)
(* not, and the tasks follow each other.                                   *)
ControlEdges(preds, first, last, task, pipelineOf) ==
  \A e \in preds :
    IF task[e[1]] = task[e[2]] /\ pipelineOf[e[1]] = pipelineOf[e[2]]
      THEN last[e[1]] <= first[e[2]]
      ELSE last[e[1]] < first[e[2]]

TaskOrder(first, last, task) ==
  \A b, c \in DOMAIN first : task[b] < task[c] => last[b] < first[c]

(* buildSTG: the states of a pipeline are those of its blocks.             *)
PipelineOfState(s, first, last, pipelineOf) ==
  LET owners == {b \in DOMAIN first :
                   pipelineOf[b] # 0 /\ first[b] <= s /\ s <= last[b]}
  IN  IF owners = {} THEN 0 ELSE pipelineOf[CHOOSE b \in owners : TRUE]

(* What these constraints come to for a design, whatever its function: the *)
(* entry block, which no edge leads back to, is the first; the kept edges  *)
(* lead forward in some order of the blocks; a state of a pipeline is one  *)
(* of a block that starts in the pipeline.                                 *)
Forward(g, rank) ==
  \A e \in g.preds : Edge(g, e[1], e[2]) /\ rank[e[1]] < rank[e[2]]

EntryFirst(g) ==
  /\ \A b \in Blocks(g) : ~Edge(g, b, Entry) /\ g.first[Entry] <= g.first[b]
  /\ Blocks(g) # {Entry} => g.succ[Entry] # <<>>

Constrained(g) ==
  /\ EntryFirst(g)
  /\ \E rank \in [Blocks(g) -> 0 .. Cardinality(Blocks(g)) - 1] : Forward(g, rank)
  /\ BlockTimes(g.first, g.br, g.last,
                {b \in Blocks(g) : g.pipe[g.first[b]] # NoPipeline})
  /\ TaskOrder(g.first, g.last, g.task)
  /\ \A s \in States(g) : g.pipe[s] # NoPipeline =>
       \E b \in BlocksIn(g, s) : g.pipe[g.first[b]] = g.pipe[s]

(* The walk comes to every block along the edges it keeps.                 *)
AllReached(g) == \A b \in Blocks(g) \ {Entry} : \E a \in Blocks(g) : <<a, b>> \in g.preds

Design(succ, first, br, last, task, pipelineOf, states, II, retState) ==
  [succ |-> succ, preds |-> ControlPredecessors(succ),
   first |-> first, br |-> br, last |-> last, task |-> task,
   pipe |-> [s \in states |-> PipelineOfState(s, first, last, pipelineOf)],
   II |-> II, retState |-> retState]

(* The designs the constraints allow for one function, its tasks and       *)
(* pipelines; spans are the pairs <<first, last>> to choose from.          *)
Schedules(succ, task, pipelineOf, spans, states, IIs, retState) ==
  LET blocks == DOMAIN succ
      preds  == ControlPredecessors(succ)
      pipelined == {b \in blocks : pipelineOf[b] # 0}
      allowed == {t \in spans :
                    /\ \A b \in blocks : t[1][b] <= t[2][b]
                    /\ ControlEdges(preds, t[1], t[2], task, pipelineOf)
                    /\ TaskOrder(t[1], t[2], task)}
  IN  UNION {{Design(succ, t[1], br, t[2], task, pipelineOf, states, II,
                     retState) :
                br \in {u \in [blocks -> states] :
                          BlockTimes(t[1], u, t[2], pipelined)},
                II \in IIs} : t \in allowed}

-----------------------------------------------------------------------------
(* What most pipelines are: one loop of one block, with the states of its  *)
(* own, that branches before its last state, back to itself or out of all  *)
(* pipelines.                                                              *)
IsLoop(g, p, b) ==
  /\ PipelineStates(g, p) = g.first[b] .. g.last[b]
  /\ \A s \in PipelineStates(g, p) : BlocksIn(g, s) = {b}
  /\ g.br[b] < g.last[b]
  /\ Len(g.succ[b]) = 2 /\ g.succ[b][1] # g.succ[b][2] /\ Edge(g, b, b)
  /\ \A c \in Blocks(g) \ {b} : Edge(g, b, c) => g.pipe[g.first[c]] = NoPipeline

(* The sets of blocks control does not leave, once it is out of loop b.    *)
Beyond(g, b) ==
  {B \in SUBSET Blocks(g) :
     /\ \A c \in Blocks(g) \ {b} : Edge(g, b, c) => c \in B
     /\ \A c, d \in Blocks(g) : c \in B /\ Edge(g, c, d) => d \in B}

(* out_of_pipe is never reset.  So a loop is run once, or its iterations   *)
(* follow so closely that the pipeline is not nearly empty between two.    *)
RunOnce(g, b) == \E B \in Beyond(g, b) : b \notin B
FollowClosely(g, p, b) ==
  \/ g.II[p] <= (g.br[b] - g.first[b]) + 1
  \/ g.II[p] < g.last[b] - g.first[b]

PipelinedLoops(g) ==
  /\ Constrained(g) /\ g.retState = NoState
  /\ \A b \in Blocks(g) : g.task[b] = g.task[Entry]
  /\ \A p \in {g.pipe[s] : s \in States(g)} \ {NoPipeline} :
       \E b \in Blocks(g) : IsLoop(g, p, b) /\ (RunOnce(g, b) \/ FollowClosely(g, p, b))
=============================================================================
