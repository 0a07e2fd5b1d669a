------------------------- MODULE MCControlPipelined -------------------------
EXTENDS ControlPipelined, BlockSchedule

Times == 0 .. 5

(* One loop, block 2, that is pipelined; either side of its branch leaves. *)
Loops == {<< <<2>>, <<2, 3>>, <<>> >>, << <<2>>, <<3, 2>>, <<>> >>}

(* The same loop inside a loop: block 3 may start it again.                *)
Nests == {<< <<2>>, <<2, 3>>, <<2, 4>>, <<>> >>}

(* The pipeline starts in state 1; the blocks outside of it take one state *)
(* each.                                                                   *)
Spans(n) ==
  {<<[b \in 1 .. n |-> t[1][b]], [b \in 1 .. n |-> t[2][b]]>> : t \in
     {<< <<0, 1, x, y>>, <<0, d, x, y>> >> :
        d \in 1 .. 4, x \in Times, y \in IF n = 3 THEN {0} ELSE Times}}

Designs(graphs, IIs) ==
  UNION {Schedules(succ, [b \in DOMAIN succ |-> 1],
                   [b \in DOMAIN succ |-> IF b = 2 THEN 1 ELSE 0],
                   Spans(Len(succ)), Times, {<<ii>> : ii \in IIs}, NoState) :
           succ \in graphs}

(* Cycles between two iterations.                                          *)
Interval(g) ==
  IF g.II[1] - 1 > g.br[2] - g.first[2] THEN g.II[1] + 1
  ELSE g.br[2] - g.first[2] + 1

Depth(g) == g.last[2] - g.first[2] + 1

BranchBeforeEnd(g) == g.br[2] < g.last[2]

LoopDesigns == {g \in Designs(Loops, 1 .. 4) : BranchBeforeEnd(g)}
Overlapping == {g \in Designs(Nests, 1 .. 2) :
                  BranchBeforeEnd(g) /\ Interval(g) < Depth(g)}

(* The theorems speak of these, and not of the next two.                   *)
ASSUME SingleLoops ==
  \A g \in LoopDesigns \cup Overlapping : PipelinedLoops(g)

SpacedNests == {g \in Designs(Nests, 1 .. 3) :
                  BranchBeforeEnd(g) /\ Interval(g) >= Depth(g)}
BranchAtEnd == {g \in Designs(Loops, 1 .. 2) : ~BranchBeforeEnd(g)}

(* Pipelines of two blocks, from state 1 on: two loops, one after the      *)
(* other, and a loop that tests before its body.                           *)
TwoLoops == << <<2>>, <<2, 3>>, <<3, 4>>, <<>> >>
TestAndBody == << <<2>>, <<3, 4>>, <<2>>, <<>> >>

TwoBlocks(succ, IIs) ==
  {g \in Schedules(succ, [b \in DOMAIN succ |-> 1],
                   [b \in DOMAIN succ |-> IF b \in {2, 3} THEN 1 ELSE 0],
                   {<< <<0, 1, f, l + 1>>, <<0, d, l, l + 1>> >> :
                      d \in 1 .. 3, f \in 1 .. 4, l \in 1 .. 4},
                   Times, {<<ii>> : ii \in IIs}, NoState) :
     g.br[3] < g.last[3]}

(* As the tests ask for, the first loop ends before the second starts.     *)
(* The cycles a jump waits are counted from the start of the pipeline,     *)
(* which is right for the second loop only if it needs none.               *)
InOrder == {g \in TwoBlocks(TwoLoops, 1 .. 3) : g.last[2] < g.first[3]}
SecondLoopFits(g) == g.br[3] - g.first[3] + 1 >= g.II[1]

PassingDesigns == LoopDesigns \cup Overlapping
                  \cup {g \in InOrder : SecondLoopFits(g)}
CloseSecondLoops == {g \in InOrder : ~SecondLoopFits(g)}
TestsFirst == {g \in TwoBlocks(TestAndBody, {1}) : g.br[2] = g.last[2]}
=============================================================================
