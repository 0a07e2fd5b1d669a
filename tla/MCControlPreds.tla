--------------------------- MODULE MCControlPreds ---------------------------
EXTENDS ControlPreds

(* Every graph whose branches avoid the entry block and have distinct      *)
(* targets, also those with unreachable blocks.                            *)
Others == Blocks \ {Entry}
AllGraphs ==
  [Blocks -> {<<>>} \cup {<<a>> : a \in Others}
               \cup {<<p[1], p[2]>> : p \in {q \in Others \X Others : q[1] # q[2]}}]
=============================================================================
