---------------------------- MODULE SynthCodeGen ----------------------------
(***************************************************************************)
(* The code generator of Synthesis C++ (genLLVM in parser.h, parser.cpp):  *)
(* from the statements of a function to basic blocks and constraints on    *)
(* their timing.                                                           *)
(*                                                                         *)
(* The state of the generator is a record:                                 *)
(*   blocks   the basic blocks, each a sequence of instructions            *)
(*   active   the number of the block that instructions are appended to    *)
(*   inFunction   activeFunction is there                                  *)
(*   inPipe, pipe   activePipeline: its blocks so far                      *)
(*   pipes    the pipelines of the function, sets of blocks                *)
(*   ok       no assertion has failed                                      *)
(*   next     the number of the next instruction, in all of the module     *)
(*   values   valueMap, with the types of the names                        *)
(*   labels   what a label stands for (eventFromLabel)                     *)
(*   timing   the constraints of the function                              *)
(*   meant    the same constraints about what the labels are written at    *)
(*   funs     the functions generated before                               *)
(* An instruction has an id, an operation and the ids of the instructions  *)
(* whose results it uses.  Operations:                                     *)
(*   <<"load", name>>  <<"op", op>>  <<"alloca", type, name>>              *)
(*   <<"store", name, expr>>  <<"method", object, name, args>>             *)
(*   <<"call", function, args, values>>                                    *)
(*   <<"br", block>>  <<"test", expr, then, else>>  <<"ret">>              *)
(* The value of an expression is <<"val", id>>, or the expression itself   *)
(* when it is a number or an object.                                       *)
(***************************************************************************)
EXTENDS SynthParser, TLC

(* addBB: the new block is the last.                                       *)
AddBlock(g) ==
  [g EXCEPT !.blocks = Append(@, <<>>),
            !.pipe = IF g.inPipe THEN @ \cup {Len(g.blocks) + 1} ELSE @]

Emit(g, b, op, values) ==
  [g EXCEPT !.blocks[b] = Append(@, [id |-> <<g.next>>, op |-> op,
                                     uses |-> {v[2] : v \in {w \in values : w[1] = "val"}}]),
            !.next = @ + 1]
Here(g, op, values) == Emit(g, g.active, op, values)
At(g, b) == [g EXCEPT !.active = b]
Fail(g) == [g EXCEPT !.ok = FALSE]
Insist(g, test) == IF test THEN g ELSE Fail(g)

(* The instruction appended last.                                          *)
Last(g) == LET block == g.blocks[g.active] IN block[Len(block)]

-----------------------------------------------------------------------------
(* Constraints on timing.  An action is <<"instr", id>>, <<"block", b>> or *)
(* <<"tag", name>>, a time its start or its end and an offset.             *)
Time(act, isEnd, off) == [act |-> act, isEnd |-> isEnd, off |-> off]
Ordered(before, rel, after) == [before |-> before, rel |-> rel, after |-> after]
StartOf(act) == Time(act, FALSE, 0)
EndOf(act) == Time(act, TRUE, 0)
Number == [d \in Digits |-> IF d = "1" THEN 1 ELSE 2]

(* parseEventTime, for what a label stands for (which = "is") and for what *)
(* it is written at (which = "meant").  Any operator adds.                 *)
RECURSIVE EventTime(_, _, _)
EventTime(g, e, which) ==
  CASE e[1] = "binop" ->
         LET t == EventTime(g, e[3], which) IN [t EXCEPT !.off = @ + Number[e[4][2]]]
    [] OTHER -> Time(g.labels[e[3][1][2]][which][e[2]], e[2] = "end", 0)

RECURSIVE IsEventTime(_, _)
IsEventTime(g, e) ==
  CASE e[1] = "binop" -> IsEventTime(g, e[3]) /\ e[4][1] = "num"
    [] OTHER -> /\ e[1] = "call" /\ e[2] \in {"start", "end"} /\ Len(e[3]) = 1
                /\ e[3][1][1] = "id" /\ e[3][1][2] \in DOMAIN g.labels

(* parseConstraint.                                                        *)
AddConstraint(g, e) ==
  LET Said(which) ==
        Ordered(EventTime(g, e[3], which), e[2], EventTime(g, e[4], which))
  IN  IF /\ e[1] = "binop" /\ e[2] \in {"==", "<"}
         /\ IsEventTime(g, e[3]) /\ IsEventTime(g, e[4])
        THEN [g EXCEPT !.timing = @ \cup {Said("is")}, !.meant = @ \cup {Said("meant")}]
      ELSE Fail(g)

Both(act) == [start |-> act, end |-> act]
SetLabel(g, label, is, meant) ==
  [g EXCEPT !.labels = label :> [is |-> is, meant |-> meant] @@ @]

(* A label at an expression stands for the instruction that is last in the *)
(* block when the expression has been generated; it is meant for the one   *)
(* that computes the expression.                                           *)
SetLabelAtExpr(g, label, value) ==
  IF label = "" THEN g
  ELSE SetLabel(g, label, Both(<<"instr", Last(g).id>>),
                Both(<<"instr", IF value[1] = "val" THEN value[2] ELSE <<>>>>))

-----------------------------------------------------------------------------
IsData(type) == type[1] = "bit"
IsReference(type) == Len(type) = 2
Declare(g, name, type) ==
  [g EXCEPT !.values = name :> type @@ @]

(* The generator after an expression, and the expression's value.          *)
Valued(g, value) == [g |-> g, value |-> value]
Computed(g, op, values) == Valued(Here(g, op, values), <<"val", <<g.next>>>>)

RECURSIVE Eval(_, _), EvalAll(_, _, _), EvalPassed(_, _, _, _)
EvalAll(g, es, values) ==
  IF es = <<>> THEN [g |-> g, values |-> values]
  ELSE LET r == Eval(g, Head(es)) IN EvalAll(r.g, Tail(es), Append(values, r.value))

RangeOf(seq) == {seq[i] : i \in DOMAIN seq}

(* The arguments of a call.  A number or a computed value is passed to a   *)
(* reference in a variable of its own.                                     *)
EvalPassed(g, params, es, values) ==
  IF es = <<>> THEN [g |-> g, values |-> values]
  ELSE LET r == Eval(g, Head(es))
           type == Head(params)[1]
           copied == IsReference(type) /\ IsData(type)
           stored == IF copied THEN Here(r.g, <<"store", Head(params)[2], Head(es)>>, {r.value})
                     ELSE r.g
       IN  EvalPassed(stored, Tail(params), Tail(es), Append(values, r.value))

EvalCall(g, f, es) ==
  LET args == EvalPassed(g, g.funs[f].params, es, <<>>)
  IN  IF f = "add_constraint" THEN Valued(AddConstraint(g, es[1]), Nothing)
      ELSE IF f \notin DOMAIN g.funs THEN Valued(Fail(g), Nothing)
      ELSE IF Len(es) # Len(g.funs[f].params) THEN Valued(Fail(g), Nothing)
      ELSE Computed(args.g, <<"call", f, es, args.values>>, RangeOf(args.values))

Eval(g, e) ==
  CASE e[1] = "num" -> Valued(g, e)
    [] e[1] = "id" ->
         IF e[2] \notin DOMAIN g.values THEN Valued(Fail(g), e)
         ELSE IF IsData(g.values[e[2]]) THEN Computed(g, <<"load", e[2]>>, {})
         ELSE Valued(g, e)
    [] e[1] = "binop" ->
         LET l == Eval(g, e[3])
             r == Eval(l.g, e[4])
         IN  Computed(Insist(r.g, e[2] # "&"), <<"op", e[2]>>, {l.value, r.value})
    [] e[1] = "call" -> EvalCall(g, e[2], e[3])
    [] e[1] = "method" ->
         LET args == EvalAll(Insist(g, e[2] \in DOMAIN g.values), e[4], <<>>)
         IN  Computed(args.g, <<"method", e[2], e[3], e[4]>>, RangeOf(args.values))

-----------------------------------------------------------------------------
PushPipeline(g) == [g EXCEPT !.inPipe = TRUE, !.pipe = {}]

(* Mutant: the block after the pipeline is made before it is left.         *)
PopPipelineLate(g) ==
  LET next == AddBlock(g)
      left == [next EXCEPT !.ok = @ /\ g.inPipe, !.inPipe = FALSE,
                           !.pipes = @ \cup {next.pipe}]
  IN  At(Here(left, <<"br", Len(left.blocks)>>, {}), Len(left.blocks))

(* Leaving the inner of two pipelines leaves both: the assertion fails     *)
(* when the outer one ends.                                                *)
PopPipeline(g) ==
  LET left == [g EXCEPT !.ok = @ /\ g.inPipe, !.inPipe = FALSE,
                        !.pipes = @ \cup {g.pipe}]
      next == AddBlock(left)
  IN  At(Here(next, <<"br", Len(next.blocks)>>, {}), Len(next.blocks))

RECURSIVE Gen(_, _, _), GenAll(_, _)
GenAll(g, stmts) ==
  IF stmts = <<>> THEN g ELSE GenAll(Gen(g, Head(stmts), ""), Tail(stmts))

(* A branch on an expression.                                              *)
Branch(g, test, yes, no) ==
  LET t == Eval(g, test) IN Here(t.g, <<"test", test, yes, no>>, {t.value})

(* Blocks if_t, if_f and if_end, made after the condition.                 *)
GenIf(g, test, stmt, rest) ==
  LET n == Len(g.blocks)
      cond == Eval(g, test)
      split == Here(AddBlock(AddBlock(AddBlock(cond.g))),
                    <<"test", test, n + 1, n + 2>>, {cond.value})
      yes == Here(Gen(At(split, n + 1), stmt, ""), <<"br", n + 3>>, {})
      no == IF rest = Nothing THEN At(yes, n + 2) ELSE Gen(At(yes, n + 2), rest, "")
  IN  At(Here(no, <<"br", n + 3>>, {}), n + 3)

(* Mutant: the body goes on with its own beginning.                        *)
GenForBody(g, init, test, update, stmts) ==
  LET n == Len(g.blocks)
      begun == Gen(AddBlock(AddBlock(AddBlock(g))), init, "")
      entered == Emit(begun, g.active, <<"br", n + 1>>, {})
      tested == Branch(At(entered, n + 1), test, n + 2, n + 3)
      body == Gen(GenAll(At(tested, n + 2), stmts), update, "")
  IN  At(Here(body, <<"br", n + 2>>, {}), n + 3)

(* Blocks for the test, the body and what follows.  The branch to the test *)
(* is put where the loop began, wherever init ends.                        *)
GenFor(g, init, test, update, stmts) ==
  LET n == Len(g.blocks)
      begun == Gen(AddBlock(AddBlock(AddBlock(g))), init, "")
      entered == Emit(begun, g.active, <<"br", n + 1>>, {})
      tested == Branch(At(entered, n + 1), test, n + 2, n + 3)
      body == Gen(GenAll(At(tested, n + 2), stmts), update, "")
  IN  At(Here(body, <<"br", n + 1>>, {}), n + 3)

(* Blocks while_loop and after_while.  A label stands for the first block  *)
(* of the loop, also for its end.                                          *)
GenDo(g, stmts, test, label) ==
  LET n == Len(g.blocks)
      entered == Here(AddBlock(g), <<"br", n + 1>>, {})
      body == GenAll(AddBlock(At(entered, n + 1)), stmts)
      done == At(Branch(body, test, n + 1, n + 2), n + 2)
  IN  IF label = "" THEN done
      ELSE SetLabel(done, label, Both(<<"block", n + 1>>),
                    [start |-> <<"block", n + 1>>, end |-> <<"block", body.active>>])

GenAssign(g, name, expr, label) ==
  LET v == Eval(g, expr)
  IN  Here(Insist(SetLabelAtExpr(v.g, label, v.value), name \in DOMAIN g.values),
           <<"store", name, expr>>, {v.value})

GenReturn(g, expr, label) ==
  LET v == IF expr = Nothing THEN Valued(g, Nothing) ELSE Eval(g, expr)
      done == Here(v.g, <<"ret">>, {v.value})
  IN  SetLabelAtExpr(done, label, <<"val", Last(done).id>>)

-----------------------------------------------------------------------------
IsTerminator(instr) == instr.op[1] \in {"br", "test", "ret"}

EndsInTerminator(block) == block # <<>> /\ IsTerminator(block[Len(block)])

(* Mutant: a block may end in several terminators.                         *)
SomeTerminatorEach(g) == \A b \in DOMAIN g.blocks : EndsInTerminator(g.blocks[b])

(* sanityCheck: it aborts the compiler otherwise.                          *)
OneTerminatorEach(g) ==
  \A b \in DOMAIN g.blocks :
    Cardinality({i \in DOMAIN g.blocks[b] : IsTerminator(g.blocks[b][i])}) = 1

(* setArgumentSymbols: an argument passed by value is copied.              *)
RECURSIVE GenParams(_, _, _)
GenParams(g, params, n) ==
  IF n > Len(params) THEN g
  ELSE LET type == params[n][1]
           known == Declare(g, params[n][2], type)
       IN  GenParams(IF IsReference(type) THEN known
                     ELSE Here(known, <<"store", params[n][2], <<"arg", n>>>>, {}),
                     params, n + 1)

(* A function is known by its name when its code has been generated.       *)
GenFunction(g, f) ==
  LET start == [g EXCEPT !.blocks = << <<>> >>, !.active = 1, !.inFunction = TRUE,
                         !.inPipe = FALSE, !.pipe = {}, !.pipes = {},
                         !.timing = {}, !.meant = {}]
      body == GenAll(GenParams(start, f[4], 1), f[5])
      done == IF EndsInTerminator(body.blocks[body.active]) THEN body
              ELSE Here(body, <<"ret">>, {})
      fun == [void |-> f[2] = <<"void">>, params |-> f[4], blocks |-> done.blocks,
              timing |-> done.timing, meant |-> done.meant]
  IN  [done EXCEPT !.ok = @ /\ OneTerminatorEach(done), !.inFunction = FALSE,
                   !.funs = f[3] :> fun @@ @]

(* The code of a statement with a label, which may be "".                  *)
Gen(g, s, label) ==
  CASE s[1] = "label" -> Gen(g, s[3], s[2])
    [] s[1] = "assign" -> GenAssign(g, s[2][2], s[3], label)
    [] s[1] = "expr" ->
         LET v == Eval(g, s[2]) IN SetLabelAtExpr(v.g, label, v.value)
    [] s[1] = "decl" -> Here(Declare(g, s[3], s[2]), <<"alloca", s[2], s[3]>>, {})
    [] s[1] = "return" -> GenReturn(g, s[2], label)
    [] s[1] = "block" -> GenAll(g, s[2])
    [] s[1] = "if" -> GenIf(g, s[2], s[3], s[4])
    [] s[1] = "for" -> GenFor(g, s[2], s[3], s[4], s[5])
    [] s[1] = "do" -> GenDo(g, s[2], s[3], label)
    [] s[1] = "pipeline" -> PopPipeline(GenAll(PushPipeline(g), s[3]))
    [] s[1] = "function" /\ ~g.inFunction -> GenFunction(g, s)
    [] OTHER -> Fail(g)

(* The functions of a module, one after the other.                         *)
Generated(functions) ==
  GenAll([blocks |-> << <<>> >>, active |-> 1, inFunction |-> FALSE,
          inPipe |-> FALSE, pipe |-> {}, pipes |-> {}, ok |-> TRUE, next |-> 1,
          values |-> [n \in {} |-> <<>>], labels |-> [l \in {} |-> {}],
          timing |-> {}, meant |-> {}, funs |-> [n \in {} |-> {}]], functions)
=============================================================================
