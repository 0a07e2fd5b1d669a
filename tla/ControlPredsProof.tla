-------------------------- MODULE ControlPredsProof --------------------------
(***************************************************************************)
(* Proofs about the block order of the scheduler, for every function.      *)
(***************************************************************************)
EXTENDS ControlPreds, FiniteSetTheorems, TLAPS

(* A successor is a block.                                                 *)
LEMMA SuccessorsAreBlocks ==
  ASSUME IsGraph(graph), NEW b \in Blocks
  PROVE  /\ Successors(b) \subseteq Blocks
         /\ graph[b] \in Seq(Blocks)
         /\ Len(graph[b]) \in 0 .. 2
         /\ Successors(b) = {graph[b][i] : i \in 1 .. Len(graph[b])}
  <1>1. CASE graph[b] = <<>>
    BY <1>1 DEF Successors
  <1>2. CASE \E a \in Blocks : graph[b] = <<a>>
    BY <1>2 DEF Successors
  <1>3. CASE \E a \in Blocks, c \in Blocks : graph[b] = <<a, c>>
    BY <1>3 DEF Successors
  <1> QED
    BY <1>1, <1>2, <1>3 DEF IsGraph

(* A set of blocks is finite and has at most N members.                    *)
LEMMA BlockSets ==
  ASSUME NEW S \in SUBSET Blocks
  PROVE  /\ IsFiniteSet(S)
         /\ Cardinality(S) \in 0 .. N
  <1>1. IsFiniteSet(Blocks) /\ Cardinality(Blocks) = N
    BY GraphAssumption, FS_Interval DEF Blocks
  <1>2. IsFiniteSet(S) /\ Cardinality(S) <= Cardinality(Blocks)
    BY <1>1, FS_Subset
  <1>3. Cardinality(S) \in Nat
    BY <1>2, FS_CardinalityType
  <1> QED
    BY <1>1, <1>2, <1>3, GraphAssumption

(* The queue after the loop over the successors: it keeps what it had and  *)
(* gains exactly the unvisited successors.                                 *)
LEMMA PushedQueue ==
  ASSUME IsGraph(graph), NEW b \in Blocks, NEW queue \in Seq(Blocks),
         NEW visited \in SUBSET Blocks
  PROVE  /\ PushUnvisited(queue, b, visited) \in Seq(Blocks)
         /\ \A i \in 1 .. Len(queue) :
              \E j \in 1 .. Len(PushUnvisited(queue, b, visited)) :
                PushUnvisited(queue, b, visited)[j] = queue[i]
         /\ \A s \in Successors(b) \ visited :
              \E j \in 1 .. Len(PushUnvisited(queue, b, visited)) :
                PushUnvisited(queue, b, visited)[j] = s
  <1> DEFINE Push(q, s) == IF s \in visited THEN q ELSE Append(q, s)
  <1>1. ASSUME NEW q \in Seq(Blocks), NEW s \in Blocks
        PROVE  /\ Push(q, s) \in Seq(Blocks)
               /\ \A i \in 1 .. Len(q) :
                    i \in 1 .. Len(Push(q, s)) /\ Push(q, s)[i] = q[i]
               /\ s \notin visited =>
                    /\ Len(Push(q, s)) \in 1 .. Len(Push(q, s))
                    /\ Push(q, s)[Len(Push(q, s))] = s
    OBVIOUS
  <1>2. CASE Len(graph[b]) = 0
    BY <1>2, SuccessorsAreBlocks DEF PushUnvisited
  <1>3. CASE Len(graph[b]) = 1
    <2>1. /\ graph[b] # <<>>
          /\ graph[b][1] \in Blocks
          /\ Successors(b) = {graph[b][1]}
      BY <1>3, SuccessorsAreBlocks
    <2>2. PushUnvisited(queue, b, visited) = Push(queue, graph[b][1])
      BY <1>3, <2>1 DEF PushUnvisited
    <2> DEFINE last == Push(queue, graph[b][1])
    <2> HIDE DEF Push
    <2>3. /\ last \in Seq(Blocks)
          /\ \A i \in 1 .. Len(queue) :
               i \in 1 .. Len(last) /\ last[i] = queue[i]
          /\ graph[b][1] \notin visited =>
               /\ Len(last) \in 1 .. Len(last)
               /\ last[Len(last)] = graph[b][1]
      BY <1>1, <2>1
    <2>4. PushUnvisited(queue, b, visited) = last
      BY <2>2
    <2> HIDE DEF last
    <2> QED
      BY <2>1, <2>3, <2>4
  <1>4. CASE Len(graph[b]) = 2
    <2>1. /\ graph[b] # <<>>
          /\ graph[b][1] \in Blocks
          /\ graph[b][2] \in Blocks
          /\ Successors(b) = {graph[b][1], graph[b][2]}
      <3>1. 1 .. Len(graph[b]) = {1, 2}
        BY <1>4
      <3>2. /\ graph[b] \in Seq(Blocks)
            /\ Successors(b) = {graph[b][i] : i \in {1, 2}}
        BY <3>1, SuccessorsAreBlocks
      <3> QED
        BY <1>4, <3>2
    <2> DEFINE first == Push(queue, graph[b][1])
               last  == Push(first, graph[b][2])
    <2>2. PushUnvisited(queue, b, visited) = last
      BY <1>4, <2>1 DEF PushUnvisited
    <2> HIDE DEF Push
    <2>3. /\ first \in Seq(Blocks)
          /\ \A i \in 1 .. Len(queue) :
               i \in 1 .. Len(first) /\ first[i] = queue[i]
          /\ graph[b][1] \notin visited =>
               /\ Len(first) \in 1 .. Len(first)
               /\ first[Len(first)] = graph[b][1]
      BY <1>1, <2>1
    <2> HIDE DEF first
    <2>4. /\ last \in Seq(Blocks)
          /\ \A i \in 1 .. Len(first) :
               i \in 1 .. Len(last) /\ last[i] = first[i]
          /\ graph[b][2] \notin visited =>
               /\ Len(last) \in 1 .. Len(last)
               /\ last[Len(last)] = graph[b][2]
      BY <1>1, <2>1, <2>3
    <2> HIDE DEF last
    <2> QED
      BY <2>1, <2>2, <2>3, <2>4
  <1> QED
    BY <1>2, <1>3, <1>4, SuccessorsAreBlocks

-----------------------------------------------------------------------------
(* A visited block carries the number of blocks visited when it was.       *)
Stamped ==
  \A b \in alreadyVisited : visitedAt[b] \in 1 .. Cardinality(alreadyVisited)

(* The kept edges, exactly: those out of visited blocks that lead forward. *)
KeptExactly ==
  controlPredecessors =
    {e \in Edges : /\ e[1] \in alreadyVisited
                   /\ e[2] \in alreadyVisited =>
                        visitedAt[e[1]] < visitedAt[e[2]]}

(* The frontier of the walk waits in the queue.                            *)
FrontierWaits ==
  \A e \in Edges :
    e[1] \in alreadyVisited /\ e[2] \notin alreadyVisited =>
      \E i \in 1 .. Len(toVisit) : toVisit[i] = e[2]

PhaseOrder ==
  /\ phase = "walk" => sortedOrder = <<>>
  /\ phase # "walk" => toVisit = <<>>

IInv ==
  /\ TypeOK
  /\ Stamped
  /\ KeptExactly
  /\ FrontierWaits
  /\ PhaseOrder
  /\ SortRespectsPreds

LEMMA InitIInv == Init => IInv
  <1> SUFFICES ASSUME Init PROVE IInv
    OBVIOUS
  <1> USE DEF Init
  <1>1. TypeOK
    BY GraphAssumption DEF TypeOK, Blocks, Entry
  <1>2. Stamped /\ KeptExactly /\ FrontierWaits
    BY DEF Stamped, KeptExactly, FrontierWaits
  <1>3. PhaseOrder /\ SortRespectsPreds
    BY DEF PhaseOrder, SortRespectsPreds
  <1> QED
    BY <1>1, <1>2, <1>3 DEF IInv

LEMMA WalkIInv ==
  ASSUME IInv, Walk
  PROVE  IInv'
  <1> DEFINE next    == Head(toVisit)
             visited == alreadyVisited \cup {next}
             count   == Cardinality(alreadyVisited)
             Follows(i) == /\ i - 1 \in 1 .. Len(Tail(toVisit))
                           /\ Tail(toVisit)[i - 1] = toVisit[i]
  <1>1. /\ TypeOK
        /\ IsGraph(graph)
        /\ next \in Blocks
        /\ Tail(toVisit) \in Seq(Blocks)
        /\ \A i \in 1 .. Len(toVisit) :
             toVisit[i] = next \/ Follows(i)
    <2>1. TypeOK /\ toVisit \in Seq(Blocks) /\ toVisit # <<>>
      BY DEF IInv, TypeOK, Walk
    <2>2. IsGraph(graph)
      BY <2>1, GraphAssumption DEF TypeOK
    <2>3. next \in Blocks /\ Tail(toVisit) \in Seq(Blocks)
      BY <2>1
    <2>4. ASSUME NEW i \in 1 .. Len(toVisit), i # 1
          PROVE  Follows(i)
      BY <2>1, <2>4
    <2>5. toVisit[1] = next
      BY <2>1
    <2>6. ASSUME NEW i \in 1 .. Len(toVisit)
          PROVE  toVisit[i] = next \/ Follows(i)
      <3>1. CASE i = 1
        BY <2>5, <3>1
      <3>2. CASE i # 1
        BY <2>4, <3>2
      <3> QED
        BY <3>1, <3>2
    <2> QED
      BY <2>1, <2>2, <2>3, <2>6
  <1>2. /\ visited \in SUBSET Blocks
        /\ alreadyVisited' = visited
        /\ toVisit' = PushUnvisited(Tail(toVisit), next, visited)
        /\ controlPredecessors' =
             controlPredecessors
               \cup {<<next, s>> : s \in Successors(next) \ visited}
        /\ visitedAt' = [visitedAt EXCEPT ![next] =
             IF next \in alreadyVisited THEN @ ELSE Cardinality(visited)]
        /\ UNCHANGED <<graph, phase, nextBB, sortedOrder>>
        /\ phase = "walk"
    BY <1>1 DEF Walk, KeptEdges, TypeOK
  <1>3. /\ count \in 0 .. N
        /\ Cardinality(visited) \in 0 .. N
        /\ Cardinality(visited) =
             IF next \in alreadyVisited THEN count ELSE count + 1
    <2>1. IsFiniteSet(alreadyVisited) /\ count \in 0 .. N
      BY <1>1, BlockSets DEF TypeOK
    <2>2. Cardinality(visited) \in 0 .. N
      BY <1>2, BlockSets
    <2>3. Cardinality(visited) =
            IF next \in alreadyVisited THEN count ELSE count + 1
      BY <2>1, FS_AddElement
    <2> QED
      BY <2>1, <2>2, <2>3
  <1>4. TypeOK'
    <2>1. toVisit' \in Seq(Blocks)
      BY <1>1, <1>2, PushedQueue
    <2>2. Successors(next) \subseteq Blocks
      BY <1>1, SuccessorsAreBlocks
    <2>3. visitedAt' \in [Blocks -> 0 .. N]
      BY <1>1, <1>2, <1>3 DEF TypeOK
    <2> QED
      BY <1>1, <1>2, <2>1, <2>2, <2>3 DEF TypeOK
  <1>5. /\ \A b \in alreadyVisited : visitedAt'[b] = visitedAt[b]
        /\ next \notin alreadyVisited => visitedAt'[next] = count + 1
    BY <1>1, <1>2, <1>3 DEF TypeOK
  <1>6. Stamped'
    <2>1. \A b \in alreadyVisited : visitedAt[b] \in 1 .. count
      BY DEF IInv, Stamped
    <2> QED
      BY <1>2, <1>3, <1>5, <2>1 DEF Stamped
  <1>7. Edges' = Edges
    BY <1>2 DEF Edges, Successors
  <1>8. KeptExactly'
    <2>1. \A s \in Blocks :
            <<next, s>> \in Edges <=> s \in Successors(next)
      BY <1>1 DEF Edges
    <2>2. Successors(next) \subseteq Blocks
      BY <1>1, SuccessorsAreBlocks
    <2>3. ASSUME NEW e \in Edges
          PROVE  e \in controlPredecessors' <=>
                   /\ e[1] \in visited
                   /\ e[2] \in visited => visitedAt'[e[1]] < visitedAt'[e[2]]
      <3>1. e = <<e[1], e[2]>> /\ e[1] \in Blocks /\ e[2] \in Blocks
        BY DEF Edges
      <3>2. e \in controlPredecessors <=>
              /\ e[1] \in alreadyVisited
              /\ e[2] \in alreadyVisited => visitedAt[e[1]] < visitedAt[e[2]]
        BY DEF IInv, KeptExactly
      <3>3. e \in {<<next, s>> : s \in Successors(next) \ visited} <=>
              e[1] = next /\ e[2] \notin visited
        BY <2>1, <3>1
      <3>4. \A b \in alreadyVisited : visitedAt[b] \in 1 .. count
        BY DEF IInv, Stamped
      <3>5. CASE next \in alreadyVisited
        BY <1>2, <1>5, <3>2, <3>3, <3>5
      <3>6. CASE next \notin alreadyVisited
        <4>1. CASE e[1] = next
          <5>1. CASE e[2] = next
            BY <1>2, <1>3, <1>5, <3>2, <3>3, <3>6, <4>1, <5>1
          <5>2. CASE e[2] \in alreadyVisited
            BY <1>2, <1>3, <1>5, <3>2, <3>3, <3>4, <3>6, <4>1, <5>2
          <5>3. CASE e[2] \notin visited
            BY <1>2, <3>2, <3>3, <4>1, <5>3
          <5> QED
            BY <5>1, <5>2, <5>3
        <4>2. CASE e[1] # next /\ e[2] = next
          BY <1>2, <1>3, <1>5, <3>2, <3>3, <3>4, <3>6, <4>2
        <4>3. CASE e[1] # next /\ e[2] # next
          BY <1>2, <1>5, <3>2, <3>3, <4>3
        <4> QED
          BY <4>1, <4>2, <4>3
      <3> QED
        BY <3>5, <3>6
    <2>4. controlPredecessors' \subseteq Edges
      <3>1. controlPredecessors \subseteq Edges
        BY DEF IInv, KeptExactly
      <3> QED
        BY <1>2, <2>1, <2>2, <3>1
    <2> QED
      BY <1>2, <1>7, <2>3, <2>4 DEF KeptExactly
  <1>9. FrontierWaits'
    <2> DEFINE rest == Tail(toVisit)
               queue == PushUnvisited(rest, next, visited)
    <2>1. /\ \A i \in 1 .. Len(rest) :
               \E j \in 1 .. Len(queue) : queue[j] = rest[i]
          /\ \A s \in Successors(next) \ visited :
               \E j \in 1 .. Len(queue) : queue[j] = s
      BY <1>1, <1>2, PushedQueue
    <2> HIDE DEF queue
    <2>2. ASSUME NEW e \in Edges, e[1] \in visited, e[2] \notin visited
          PROVE  \E j \in 1 .. Len(queue) : queue[j] = e[2]
      <3>1. CASE e[1] = next
        BY <2>1, <2>2, <3>1 DEF Edges
      <3>2. CASE e[1] \in alreadyVisited
        <4>1. PICK i \in 1 .. Len(toVisit) : toVisit[i] = e[2]
          BY <2>2, <3>2 DEF IInv, FrontierWaits
        <4>2. i - 1 \in 1 .. Len(rest) /\ rest[i - 1] = e[2]
          BY <1>1, <2>2, <4>1
        <4> QED
          BY <2>1, <4>2
      <3> QED
        BY <2>2, <3>1, <3>2
    <2>3. toVisit' = queue
      BY <1>2 DEF queue
    <2> QED
      BY <1>2, <1>7, <2>2, <2>3 DEF FrontierWaits
  <1>10. PhaseOrder' /\ SortRespectsPreds'
    BY <1>2 DEF IInv, PhaseOrder, SortRespectsPreds, Preds
  <1> QED
    BY <1>4, <1>6, <1>8, <1>9, <1>10 DEF IInv

LEMMA StartSweepIInv ==
  ASSUME IInv, StartSweep
  PROVE  IInv'
  <1>1. UNCHANGED <<graph, toVisit, alreadyVisited, controlPredecessors,
                    nextBB, sortedOrder, visitedAt>>
        /\ phase' = "sweep" /\ toVisit = <<>>
    BY DEF StartSweep
  <1>2. TypeOK'
    BY <1>1 DEF IInv, TypeOK
  <1>3. Stamped' /\ KeptExactly' /\ FrontierWaits'
    BY <1>1 DEF IInv, Stamped, KeptExactly, FrontierWaits, Edges, Successors
  <1>4. PhaseOrder' /\ SortRespectsPreds'
    BY <1>1 DEF IInv, PhaseOrder, SortRespectsPreds, Preds
  <1> QED
    BY <1>2, <1>3, <1>4 DEF IInv

LEMMA SweepIInv ==
  ASSUME IInv, Sweep
  PROVE  IInv'
  <1>1. UNCHANGED <<graph, toVisit, alreadyVisited, controlPredecessors,
                    visitedAt>>
    BY DEF Sweep
  <1>2. /\ phase = "sweep"
        /\ phase' \in {"sweep", "done"}
        /\ nextBB' \in Blocks
        /\ sortedOrder' \in Seq(Blocks)
    <2>1. sortedOrder \in Seq(Blocks) /\ nextBB \in Blocks
      BY DEF IInv, TypeOK
    <2>2. phase = "sweep" /\ phase' \in {"sweep", "done"}
      BY DEF Sweep
    <2>3. nextBB' \in Blocks
      BY <2>1, GraphAssumption DEF Sweep, Following, Blocks
    <2>4. sortedOrder' \in {sortedOrder, Append(sortedOrder, nextBB)}
      BY DEF Sweep
    <2> QED
      BY <2>1, <2>2, <2>3, <2>4
  <1>3. TypeOK'
    BY <1>1, <1>2 DEF IInv, TypeOK
  <1>4. Stamped' /\ KeptExactly' /\ FrontierWaits'
    BY <1>1 DEF IInv, Stamped, KeptExactly, FrontierWaits, Edges, Successors
  <1>5. PhaseOrder'
    BY <1>1, <1>2 DEF IInv, PhaseOrder
  <1>6. SortRespectsPreds'
    <2>1. \A b : Preds(b)' = Preds(b)
      BY <1>1 DEF Preds
    <2>2. SortRespectsPreds /\ sortedOrder \in Seq(Blocks) /\ nextBB \in Blocks
      BY DEF IInv, TypeOK
    <2>3. CASE sortedOrder' = sortedOrder
      BY <2>1, <2>2, <2>3 DEF SortRespectsPreds
    <2>4. CASE /\ nextBB \notin Sorted
               /\ Preds(nextBB) \subseteq Sorted
               /\ sortedOrder' = Append(sortedOrder, nextBB)
      <3> DEFINE len == Len(sortedOrder)
      <3>1. /\ len \in Nat
            /\ DOMAIN sortedOrder = 1 .. len
            /\ DOMAIN sortedOrder' = 1 .. len + 1
            /\ \A i \in 1 .. len : sortedOrder'[i] = sortedOrder[i]
            /\ sortedOrder'[len + 1] = nextBB
        BY <2>2, <2>4
      <3>2. \A i \in 1 .. len : sortedOrder[i] # nextBB
        BY <2>4, <3>1 DEF Sorted
      <3>3. \A p \in Preds(nextBB) : \E j \in 1 .. len : sortedOrder[j] = p
        BY <2>4, <3>1 DEF Sorted
      <3> HIDE DEF len
      <3>4. ASSUME NEW i \in 1 .. len + 1, NEW j \in 1 .. len + 1,
                   sortedOrder'[i] = sortedOrder'[j]
            PROVE  i = j
        <4>1. CASE i = len + 1 \/ j = len + 1
          BY <3>1, <3>2, <3>4, <4>1
        <4>2. CASE i \in 1 .. len /\ j \in 1 .. len
          BY <2>2, <3>1, <3>4, <4>2 DEF SortRespectsPreds
        <4> QED
          BY <3>1, <4>1, <4>2
      <3>5. ASSUME NEW i \in 1 .. len + 1, NEW p \in Preds(sortedOrder'[i])
            PROVE  \E j \in 1 .. i - 1 : sortedOrder'[j] = p
        <4>1. CASE i = len + 1
          BY <3>1, <3>3, <3>5, <4>1
        <4>2. CASE i \in 1 .. len
          <5>1. p \in Preds(sortedOrder[i])
            BY <3>1, <3>5, <4>2
          <5>2. PICK j \in 1 .. i - 1 : sortedOrder[j] = p
            BY <2>2, <3>1, <4>2, <5>1 DEF SortRespectsPreds
          <5>3. j \in 1 .. len
            BY <3>1, <4>2
          <5> QED
            BY <3>1, <5>2, <5>3
        <4> QED
          BY <3>1, <4>1, <4>2
      <3>6. \A i \in 1 .. len + 1 : Preds(sortedOrder[i])' = Preds(sortedOrder'[i])
        BY <1>1 DEF Preds
      <3> QED
        BY <3>1, <3>4, <3>5, <3>6 DEF SortRespectsPreds
    <2> QED
      BY <2>3, <2>4 DEF Sweep, Placeable
  <1> QED
    BY <1>3, <1>4, <1>5, <1>6 DEF IInv

LEMMA StutterIInv ==
  ASSUME IInv, UNCHANGED vars
  PROVE  IInv'
  <1>1. UNCHANGED <<graph, phase, toVisit, alreadyVisited,
                    controlPredecessors, nextBB, sortedOrder, visitedAt>>
    BY DEF vars
  <1>2. TypeOK'
    BY <1>1 DEF IInv, TypeOK
  <1>3. Stamped' /\ KeptExactly' /\ FrontierWaits'
    BY <1>1 DEF IInv, Stamped, KeptExactly, FrontierWaits, Edges, Successors
  <1>4. PhaseOrder' /\ SortRespectsPreds'
    BY <1>1 DEF IInv, PhaseOrder, SortRespectsPreds, Preds
  <1> QED
    BY <1>2, <1>3, <1>4 DEF IInv

LEMMA InductiveIInv == Spec => []IInv
  <1>1. IInv /\ [Next]_vars => IInv'
    BY WalkIInv, StartSweepIInv, SweepIInv, StutterIInv DEF Next
  <1> QED
    BY InitIInv, <1>1, PTL DEF Spec

(* The walk and the sorting loop keep their data well formed: queued,      *)
(* visited and listed blocks are blocks of the function, and a block is    *)
(* stamped at most with the number of blocks.                              *)
THEOREM TypeCorrect == Spec => []TypeOK
  <1>1. IInv => TypeOK
    BY DEF IInv
  <1> QED
    BY InductiveIInv, <1>1, PTL

(* Whatever the control flow graph, the edges buildControlPreds keeps lead *)
(* from blocks visited earlier to blocks visited later, so they have no    *)
(* cycle.                                                                  *)
THEOREM KeptEdgesAcyclic == Spec => []KeptEdgesLeadForward
  <1>1. IInv => KeptEdgesLeadForward
    BY DEF IInv, KeptExactly, KeptEdgesLeadForward
  <1> QED
    BY InductiveIInv, <1>1, PTL

(* Whatever the graph, the finished walk has kept every edge between       *)
(* reachable blocks that leads from an earlier visited block to a later    *)
(* one: the deque's duplicates lose none.                                  *)
THEOREM ForwardEdgesKept == Spec => []NoForwardEdgeLost
  <1>1. ASSUME IInv, phase # "walk"
        PROVE  controlPredecessors =
                 {e \in Edges : /\ {e[1], e[2]} \subseteq alreadyVisited
                                /\ visitedAt[e[1]] < visitedAt[e[2]]}
    <2>1. toVisit = <<>>
      BY <1>1 DEF IInv, PhaseOrder
    <2>2. \A e \in Edges : e[1] \in alreadyVisited => e[2] \in alreadyVisited
      BY <1>1, <2>1 DEF IInv, FrontierWaits
    <2> QED
      BY <1>1, <2>2 DEF IInv, KeptExactly
  <1>2. IInv => NoForwardEdgeLost
    BY <1>1 DEF NoForwardEdgeLost
  <1> QED
    BY InductiveIInv, <1>2, PTL

(* Whatever the graph, the list topologicalSortOfBlocks builds repeats no  *)
(* block and puts a block after all its kept predecessors.                 *)
THEOREM SortCorrect == Spec => []SortRespectsPreds
  <1>1. IInv => SortRespectsPreds
    BY DEF IInv
  <1> QED
    BY InductiveIInv, <1>1, PTL

=============================================================================
