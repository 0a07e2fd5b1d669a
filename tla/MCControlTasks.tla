--------------------------- MODULE MCControlTasks ---------------------------
EXTENDS ControlTasks, BlockSchedule

Times == 0 .. 5

(* Two loops in sequence, the second in a task of its own with the exit.   *)
TwoLoops == {<< <<2>>, <<2, 3>>, <<4, 3>>, <<>> >>,
             << <<2>>, <<3, 2>>, <<3, 4>>, <<>> >>}

(* Each loop takes one or two states.                                      *)
Spans ==
  {<<t[1], t[2]>> : t \in
     {<< <<0, x, y, z>>, <<0, x + d, y + e, z>> >> :
        x \in 0 .. 1, y \in 2 .. 4, z \in 3 .. 5, d \in 0 .. 1, e \in 0 .. 1}}

Designs(pipelineOf) ==
  {g \in UNION {Schedules(succ, <<1, 1, 2, 2>>, pipelineOf, Spans, Times,
                          {<<1, 1>>, <<2, 1>>}, NoState) : succ \in TwoLoops} :
     \A b \in {2, 3} : pipelineOf[b] # 0 => g.br[b] < g.last[b]}

TaskDesigns == Designs(<<0, 0, 0, 0>>) \cup Designs(<<0, 1, 2, 0>>)
FirstLoopPipelined == Designs(<<0, 1, 0, 0>>)
-----------------------------------------------------------------------------
NBlocks == 3
States3 == 0 .. 2

(* Every function of NBlocks blocks whose blocks can all be reached and    *)
(* branch to distinct targets, never to the entry, in every schedule.      *)
Others == 2 .. NBlocks
Terminators == {<<>>} \cup {<<a>> : a \in Others}
                 \cup {p \in Others \X Others : p[1] # p[2]}

Reached(succ) ==
  LET from[n \in 0 .. NBlocks] == IF n = 0 THEN {Entry}
        ELSE LET before == from[n - 1]
             IN  before \cup
                 UNION {{succ[b][i] : i \in DOMAIN succ[b]} : b \in before}
  IN  from[NBlocks]

Graphs3 == {succ \in [1 .. NBlocks -> Terminators] :
              Reached(succ) = 1 .. NBlocks}

Times3 == [1 .. NBlocks -> States3]

Scheduled3(succ, retState) ==
  Schedules(succ, [b \in 1 .. NBlocks |-> 1], [b \in 1 .. NBlocks |-> 0],
            Times3 \X Times3, States3, {<<1>>}, retState)

Functions3(retState) == UNION {Scheduled3(succ, retState) : succ \in Graphs3}

(* A branch whose two targets are the same block.                          *)
EqualTargets == Scheduled3(<< <<2, 2>>, <<3>>, <<>> >>, NoState)

(* Functions that start again in state 0, where their entry block is.  A   *)
(* jump into that state leaves another block in its entry block register.  *)
Restarting == {g \in Functions3(0) : g.first[Entry] = 0}
Reenters(g) == \E j \in Jumps(g) : j.kind = "branch" /\ j.target = 0
RestartingInLoops == {g \in Restarting : Reenters(g)}
SequentialFunctions == Functions3(NoState) \cup (Restarting \ RestartingInLoops)

PassingDesigns == SequentialFunctions \cup TaskDesigns

(* All of them satisfy what the theorems of ControlProof ask for.          *)
ASSUME PassingAssumption ==
  \A g \in PassingDesigns :
    StartsOnce(g) /\ RestartsAtEntry(g) /\ BranchesDiffer(g)
=============================================================================
