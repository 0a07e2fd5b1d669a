----------------------------- MODULE MCDataPath -----------------------------
EXTENDS DataPath, BlockSchedule

(* With three blocks: a loop of one block, loops that are never left, with *)
(* a body that is run once or repeated itself; with four: a loop with a    *)
(* body and an exit, and a split that joins again.                         *)
Graphs3 == {<< <<2>>, <<2, 3>>, <<>> >>, << <<2>>, <<3>>, <<2>> >>,
            << <<2>>, <<3, 2>>, <<2>> >>}
Graphs4 == {<< <<2>>, <<3, 4>>, <<2>>, <<>> >>, << <<2, 3>>, <<4>>, <<4>>, <<>> >>}

Sequential(succ, states) ==
  LET n == Len(succ)
      spans == [1 .. n -> states]
  IN  Schedules(succ, [b \in 1 .. n |-> 1], [b \in 1 .. n |-> 0],
                spans \X spans, states, {<<1>>}, NoState)

SequentialFunctions == UNION {Sequential(succ, 0 .. 2) : succ \in Graphs3}
                       \cup UNION {Sequential(succ, 0 .. 1) : succ \in Graphs4}

(* Block 2 is a pipelined loop, from state 1 to state d; the blocks around *)
(* it take one state each.  Its branch comes before its last state.        *)
Loop == << <<2>>, <<2, 3>>, <<>> >>
Nest == << <<2>>, <<2, 3>>, <<2, 4>>, <<>> >>

Pipelined(succ, spans, IIs) ==
  {g \in Schedules(succ, [b \in DOMAIN succ |-> 1],
                   [b \in DOMAIN succ |-> IF b = 2 THEN 1 ELSE 0],
                   spans, 0 .. 6, {<<ii>> : ii \in IIs}, NoState) :
     g.br[2] < g.last[2]}

LoopDesigns == Pipelined(Loop, {<< <<0, 1, d + 1>>, <<0, d, d + 1>> >> : d \in 2 .. 4},
                         1 .. 3)
NestDesigns == {g \in Pipelined(Nest, {<< <<0, 1, 4, 5>>, <<0, 3, 4, 5>> >>}, {1}) :
                  g.br[2] = 1}
PipelinedFunctions == LoopDesigns \cup NestDesigns

AllFunctions == SequentialFunctions \cup PipelinedFunctions

UnlevelledUses(g) == {v \in AllUses(g) : ~Levelled(g, v)}
LateUses(g) == {v \in AllUses(g) : Levelled(g, v) /\ PhiFirst(v) /\ PhisApart(v)}
AheadUses(g) == {v \in AllUses(g) : /\ Levelled(g, v) /\ PhiFirst(v)
                                     /\ ~PhisApart(v) /\ BranchLast(g, v)}

(* The theorems about the data path apply to these designs and values.     *)
ASSUME ProvedFor ==
  \A g \in AllFunctions : PipelinedLoops(g) /\ AllReached(g)
=============================================================================
