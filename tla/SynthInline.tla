----------------------------- MODULE SynthInline -----------------------------
(***************************************************************************)
(* Inlining (inlineWireCalls and inlineFunctionWithConstraints in          *)
(* scheduling.cpp): the calls of the function that becomes hardware are    *)
(* replaced by the code of the functions they call, and what is known of   *)
(* the timing of a call becomes constraints on a marker with no code.      *)
(*                                                                         *)
(* The code of the function is a record:                                   *)
(*   blocks, pipes   as the code generator made them, then changed         *)
(*   is              "code": what it is when it has these fields           *)
(*   order           the numbers of the blocks in the order of their list  *)
(*   cons            the constraints on timing                             *)
(*   funs            all functions, as the code generator made them        *)
(* The copy of an instruction has the id of the call followed by its own.  *)
(***************************************************************************)
EXTENDS SynthCodeGen, Integers

AllOf(blocks) == UNION {RangeOf(blocks[b]) : b \in DOMAIN blocks}
Placed(blocks) == UNION {{<<b, i>> : i \in RangeOf(blocks[b])} : b \in DOMAIN blocks}

(* addDataConstraints: an instruction ends before its users start.         *)
DataConstraints(blocks) ==
  {Ordered(EndOf(<<"instr", w[2]>>), "<=", StartOf(<<"instr", w[1].id>>)) :
     w \in UNION {{<<i, used>> : used \in i.uses} : i \in AllOf(blocks)}}

(* The function before inlining.                                           *)
Translated(g, name) ==
  [is |-> "code",
   blocks |-> g.funs[name].blocks, order |-> [b \in DOMAIN g.funs[name].blocks |-> b],
   pipes |-> g.pipes, funs |-> g.funs,
   cons |-> g.funs[name].timing \cup DataConstraints(g.funs[name].blocks)]

-----------------------------------------------------------------------------
CallsIn(c) ==
  {p \in UNION {{<<n, i>> : i \in DOMAIN c.blocks[c.order[n]]} : n \in DOMAIN c.order} :
     c.blocks[c.order[p[1]]][p[2]].op[1] = "call"}

(* The first call in the list of blocks.                                   *)
FirstCall(c) ==
  CHOOSE p \in CallsIn(c) :
    \A q \in CallsIn(c) : p[1] < q[1] \/ (p[1] = q[1] /\ p[2] <= q[2])

(* Mutant: the marker has the name of the function alone.                  *)
MarkerOfCallee(c, call) == <<"tag", <<"call", call.op[2]>>>>

(* The marker is named by the text of the call, in which the number of its *)
(* result is.  The text of a call without a result has only its arguments. *)
(* Numbers are given anew after every call that is inlined: that no two    *)
(* calls get the same one assumes that a function with a result computes   *)
(* something.                                                              *)
MarkerOf(c, call) ==
  <<"tag", IF c.funs[call.op[2]].void THEN <<"void", call.op[2], call.op[4]>>
           ELSE <<"value", call.id>>>>

(* The object an object of the callee is.                                  *)
ObjectIn(f, call, name) ==
  IF \E n \in DOMAIN f.params : f.params[n][2] = name
    THEN LET n == CHOOSE n \in DOMAIN f.params : f.params[n][2] = name
         IN  IF call.op[4][n][1] = "id" THEN call.op[4][n][2] ELSE name
  ELSE name

(* replaceValues, for the operation of a copied instruction; block[b] is   *)
(* the copy of block b.                                                    *)
CopiedOp(f, call, op, block) ==
  LET Value(v) == CASE v[1] = "val" -> <<"val", call.id \o v[2]>>
                    [] v[1] = "id" -> <<"id", ObjectIn(f, call, v[2])>>
                    [] OTHER -> v
  IN  CASE op[1] = "store" /\ op[3][1] = "arg" -> <<"store", op[2], call.op[3][op[3][2]]>>
        [] op[1] = "method" -> <<"method", ObjectIn(f, call, op[2]), op[3], op[4]>>
        [] op[1] = "call" -> <<"call", op[2], op[3], [n \in DOMAIN op[4] |-> Value(op[4][n])]>>
        [] op[1] = "br" -> <<"br", block[op[2]]>>
        [] op[1] = "test" -> <<"test", op[2], block[op[3]], block[op[4]]>>
        [] OTHER -> op

UsedByArgument(call, op) ==
  IF op[1] = "store" /\ op[3][1] = "arg" /\ call.op[4][op[3][2]][1] = "val"
    THEN {call.op[4][op[3][2]][2]} ELSE {}

CopyOf(f, call, instr, block) ==
  [id |-> call.id \o instr.id, op |-> CopiedOp(f, call, instr.op, block),
   uses |-> {call.id \o used : used \in instr.uses} \cup UsedByArgument(call, instr.op)]

(* The result of a call is what the last return of the callee returns.     *)
ResultOf(f, call) ==
  LET rets == {i \in AllOf(f.blocks) : i.op[1] = "ret"}
  IN  {call.id \o used : used \in UNION {i.uses : i \in rets}}

WithResult(result, call, instr) ==
  LET Value(v) == IF v # <<"val", call.id>> THEN v
                  ELSE IF result = {} THEN Nothing
                  ELSE <<"val", CHOOSE id \in result : TRUE>>
  IN  [instr EXCEPT !.uses = IF call.id \in @ THEN (@ \ {call.id}) \cup result ELSE @,
                    !.op = IF @[1] = "call"
                             THEN [@ EXCEPT ![4] = [n \in DOMAIN @ |-> Value(@[n])]]
                           ELSE @]

-----------------------------------------------------------------------------
(* replaceActionBefore, replaceActionAfter: a time in the callee.  The     *)
(* return is the end of the marker.                                        *)
CopiedTime(f, call, marker, t, block) ==
  CASE t.act[1] = "block" -> [t EXCEPT !.act[2] = block[@]]
    [] \E i \in AllOf(f.blocks) : i.op[1] = "ret" /\ t.act = <<"instr", i.id>> ->
         [t EXCEPT !.act = marker, !.isEnd = TRUE]
    [] OTHER -> [t EXCEPT !.act[2] = call.id \o @]

Within(act, outer) ==
  {Ordered(StartOf(outer), "<=", StartOf(act)), Ordered(EndOf(act), "<=", EndOf(outer))}

(* The constraints when a call has been replaced by its marker, and by the *)
(* copies of the blocks.                                                   *)
MarkedConstraints(c, f, call, block) ==
  LET marker == MarkerOf(c, call)
      OnMarker(t) == IF t.act = <<"instr", call.id>> THEN [t EXCEPT !.act = marker] ELSE t
      Copied(t) == CopiedTime(f, call, marker, t, block)
      Exits == {b \in DOMAIN f.blocks : f.blocks[b][Len(f.blocks[b])].op[1] = "ret"}
  IN  {Ordered(OnMarker(k.before), k.rel, OnMarker(k.after)) : k \in c.cons}
      \cup {Ordered(StartOf(<<"block", block[1]>>), "<=", StartOf(marker))}
      \cup {Ordered(EndOf(marker), "<=", EndOf(<<"block", block[b]>>)) : b \in Exits}
      \cup UNION {Within(<<"instr", call.id \o i.id>>, marker) :
                    i \in {j \in AllOf(f.blocks) : j.op[1] # "ret"}}
      \cup {Ordered(StartOf(marker), "<=", EndOf(marker))}
      \cup {Ordered(Copied(k.before), k.rel, Copied(k.after)) : k \in f.timing}

(* inlineFunctionWithConstraints.  A callee of one block is put where the  *)
(* call was; else the block is split at the call, and the copies of the    *)
(* callee's blocks come between its halves.  The second half and the       *)
(* copies are in no pipeline.                                              *)
Inlined(c) ==
  LET p == FirstCall(c)
      b == c.order[p[1]]
      call == c.blocks[b][p[2]]
      f == c.funs[call.op[2]]
      oneBlock == Len(f.blocks) = 1
      rest == Len(c.blocks) + 1
      block == [k \in DOMAIN f.blocks |-> IF oneBlock THEN b ELSE rest + k]
      before == SubSeq(c.blocks[b], 1, p[2] - 1)
      after == SubSeq(c.blocks[b], p[2] + 1, Len(c.blocks[b]))
      Copies(k) == [i \in DOMAIN f.blocks[k] |-> CopyOf(f, call, f.blocks[k][i], block)]
      Body(k) == SelectSeq(Copies(k), LAMBDA i : i.op[1] # "ret")
      To(n, id) == <<[id |-> id, op |-> <<"br", n>>, uses |-> {}]>>
      Returning(k) == IF Len(Body(k)) = Len(Copies(k)) THEN Body(k)
                      ELSE Body(k) \o To(rest, Append(call.id, 0) \o <<k>>)
      blocks == IF oneBlock THEN [c.blocks EXCEPT ![b] = before \o Body(1) \o after]
                ELSE [c.blocks EXCEPT ![b] = before \o To(block[1], Append(call.id, 0))]
                     \o <<after>> \o [k \in DOMAIN f.blocks |-> Returning(k)]
      Result(i) == WithResult(ResultOf(f, call), call, i)
  IN  [c EXCEPT
        !.blocks = [n \in DOMAIN blocks |->
                      [i \in DOMAIN blocks[n] |-> Result(blocks[n][i])]],
        !.order = IF oneBlock THEN @
                  ELSE SubSeq(@, 1, p[1]) \o <<rest>> \o SubSeq(@, p[1] + 1, Len(@))
                       \o block,
        !.cons = MarkedConstraints(c, f, call, block)]

-----------------------------------------------------------------------------
(* What the constraints leave open is compared by the earliest times: each *)
(* instruction starts as soon as they allow.  A method takes a cycle.      *)
Latency(instr) == IF instr.op[1] = "method" THEN 1 ELSE 0
TakesItsTime(act, instr) == Ordered(Time(act, FALSE, Latency(instr)), "==", EndOf(act))

(* Edges <<m, n, d>>: time n is at least d after time m.                   *)
EdgesOf(k) ==
  LET m == <<k.before.act, k.before.isEnd>>
      n == <<k.after.act, k.after.isEnd>>
      d == k.before.off - k.after.off
  IN  CASE k.rel = "<=" -> {<<m, n, d>>}
        [] k.rel = "<" -> {<<m, n, d + 1>>}
        [] k.rel = "==" -> {<<m, n, d>>, <<n, m, -d>>}

Largest(ns) == CHOOSE n \in ns : \A m \in ns : m <= n

RECURSIVE Relaxed(_, _, _)
Relaxed(edges, times, rounds) ==
  LET next == [n \in DOMAIN times |->
                 Largest({times[n]} \cup {times[e[1]] + e[3] : e \in {d \in edges : d[2] = n}})]
  IN  IF next = times \/ rounds = 0 THEN next ELSE Relaxed(edges, next, rounds - 1)

Earliest(cons) ==
  LET edges == UNION {EdgesOf(k) : k \in cons}
      nodes == {e[1] : e \in edges} \cup {e[2] : e \in edges}
  IN  Relaxed(edges, [n \in nodes |-> 0], Cardinality(nodes))

(* All constraints on the code: the instructions are in their blocks.      *)
ConstraintsOn(c) ==
  c.cons \cup DataConstraints(c.blocks)
  \cup UNION {Within(<<"instr", w[2].id>>, <<"block", w[1]>>) : w \in Placed(c.blocks)}
  \cup {TakesItsTime(<<"instr", i.id>>, i) : i \in AllOf(c.blocks)}

(* The constraints meant: every call of function name is an instance with  *)
(* the constraints of the function, and takes the time of the instance.    *)
RECURSIVE MeantFor(_, _, _)
MeantFor(funs, name, call) ==
  LET f == funs[name]
      whole == <<"instr", call>>
      IsEnd(i) == i.op[1] = "ret" /\ call # <<>>
      Act(i) == <<"instr", call \o i.id>>
      At1(t) == CASE t.act[1] = "block" -> [t EXCEPT !.act[2] = Append(call, @)]
                  [] \E i \in AllOf(f.blocks) : IsEnd(i) /\ t.act[2] = i.id ->
                       [t EXCEPT !.act = whole, !.isEnd = TRUE]
                  [] OTHER -> [t EXCEPT !.act[2] = call \o @]
      Meant(k) == Ordered(At1(k.before), k.rel, At1(k.after))
      timed == {i \in AllOf(f.blocks) : ~IsEnd(i)}
      calls == {i \in timed : i.op[1] = "call"}
  IN  {Meant(k) : k \in f.meant \cup DataConstraints(f.blocks)}
      \cup {TakesItsTime(Act(i), i) : i \in timed \ calls}
      \cup {Ordered(StartOf(Act(i)), "<=", EndOf(Act(i))) : i \in calls}
      \cup UNION {Within(Act(w[2]), <<"block", Append(call, w[1])>>) :
                    w \in {v \in Placed(f.blocks) : v[2] \in timed}}
      \cup (IF call = <<>> THEN {} ELSE UNION {Within(Act(i), whole) : i \in timed})
      \cup UNION {MeantFor(funs, i.op[2], call \o i.id) : i \in calls}

(* Inlining keeps the timing that the constraints of the functions give:   *)
(* no constraint gets lost or added between the instructions of different  *)
(* calls, and all can start when they could before.                        *)
SameTiming(c, name) ==
  LET is == Earliest(ConstraintsOn(c))
      meant == Earliest(MeantFor(c.funs, name, <<>>))
  IN  \A i \in AllOf(c.blocks) :
        i.op[1] = "br" \/ is[<<<<"instr", i.id>>, FALSE>>] = meant[<<<<"instr", i.id>>, FALSE>>]
=============================================================================
