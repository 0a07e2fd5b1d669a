---------------------------- MODULE SynthProgram ----------------------------
(***************************************************************************)
(* A program of Synthesis C++ from its source to its execution: the text   *)
(* of some functions, of which the last becomes hardware, is parsed and    *)
(* compiled to basic blocks, the calls in them are inlined one by one, and *)
(* the blocks are run in step with the statements.                         *)
(***************************************************************************)
EXTENDS SynthInline
Seqs == INSTANCE SequencesExt

CONSTANT Programs  (* the programs to consider: sequences of functions     *)

VARIABLES
  program,  (* the functions as they were meant                            *)
  code,     (* the code of the last of them, as it has become by now       *)
  at,       (* the block and the instruction that is run next              *)
  todo      (* what is left to do of the program                           *)

vars == <<program, code, at, todo>>

-----------------------------------------------------------------------------
(* The text of a program, with parentheses only where they are needed.     *)
RECURSIVE Text(_), TextOf(_), Arguments(_)

Weaker(e, op) == e[1] = "binop" /\ Precedence(e[2]) < Precedence(op)
AsWeak(e, op) == e[1] = "binop" /\ Precedence(e[2]) <= Precedence(op)
InParens(test, ts) == IF test THEN <<"(">> \o ts \o <<")">> ELSE ts

Text(e) ==
  CASE e[1] \in {"id", "num"} -> <<e[2]>>
    [] e[1] = "call" -> <<e[2], "(">> \o Arguments(e[3]) \o <<")">>
    [] e[1] = "method" -> <<e[2], "->", e[3], "(">> \o Arguments(e[4]) \o <<")">>
    [] OTHER -> InParens(Weaker(e[3], e[2]), Text(e[3])) \o <<e[2]>>
                \o InParens(AsWeak(e[4], e[2]), Text(e[4]))

Arguments(es) ==
  CASE es = <<>> -> <<>>
    [] Len(es) = 1 -> Text(es[1])
    [] OTHER -> Text(es[1]) \o <<",">> \o Arguments(Tail(es))

RECURSIVE TextOfAll(_)
TextOfAll(stmts) ==
  IF stmts = <<>> THEN <<>> ELSE TextOf(Head(stmts)) \o TextOfAll(Tail(stmts))

Braces(stmts) == <<"{">> \o TextOfAll(stmts) \o <<"}">>
NoSemicolon(ts) == SubSeq(ts, 1, Len(ts) - 1)

RECURSIVE ParamText(_)
ParamText(params) ==
  IF params = <<>> THEN <<>>
  ELSE params[1][1] \o <<params[1][2]>>
       \o (IF Len(params) = 1 THEN <<>> ELSE <<",">>) \o ParamText(Tail(params))

TextOf(s) ==
  CASE s[1] = "label" -> <<s[2], ":">> \o TextOf(s[3])
    [] s[1] = "assign" -> Text(s[2]) \o <<"=">> \o Text(s[3]) \o <<";">>
    [] s[1] = "expr" -> Text(s[2]) \o <<";">>
    [] s[1] = "decl" -> s[2] \o <<s[3], ";">>
    [] s[1] = "return" ->
         <<"return">> \o (IF s[2] = Nothing THEN <<>> ELSE Text(s[2])) \o <<";">>
    [] s[1] = "block" -> Braces(s[2])
    [] s[1] = "if" ->
         <<"if", "(">> \o Text(s[2]) \o <<")">> \o TextOf(s[3])
         \o (IF s[4] = Nothing THEN <<>> ELSE <<"else">> \o TextOf(s[4]))
    [] s[1] = "for" ->
         <<"for", "(">> \o TextOf(s[2]) \o Text(s[3]) \o <<";">>
         \o NoSemicolon(TextOf(s[4])) \o <<")">> \o Braces(s[5])
    [] s[1] = "do" ->
         <<"do">> \o Braces(s[2]) \o <<"while", "(">> \o Text(s[3]) \o <<")", ";">>
    [] s[1] = "pipeline" -> <<"pipeline">> \o Text(s[2]) \o Braces(s[3])
    [] s[1] = "function" ->
         s[2] \o <<s[3], "(">> \o ParamText(s[4]) \o <<")">> \o Braces(s[5])

Source(functions) == TextOfAll(functions)

-----------------------------------------------------------------------------
(* What is left of a program is a sequence of steps: statements, loops that*)
(* have begun, ends of pipelines, calls, and events, each in a context.    *)
(* The context of a step says which objects the names stand for, and       *)
(* whether a return there ends the program.                                *)
Step(s, env) == [s |-> s, env |-> env]
StepsOf(stmts, env) == [i \in DOMAIN stmts |-> Step(stmts[i], env)]
Top == [top |-> TRUE, objects |-> [n \in {} |-> ""]]
Object(env, name) == IF name \in DOMAIN env.objects THEN env.objects[name] ELSE name

(* The events of a computation, in the order of their evaluation.          *)
RECURSIVE Effects(_, _)
Effects(e, env) ==
  CASE e[1] = "binop" -> Effects(e[3], env) \o Effects(e[4], env)
    [] e[1] = "call" /\ e[2] # "add_constraint" ->
         Seqs!FlattenSeq([i \in DOMAIN e[3] |-> Effects(e[3][i], env)])
         \o <<Step(<<"enter", e[2], e[3]>>, env)>>
    [] e[1] = "method" ->
         Seqs!FlattenSeq([i \in DOMAIN e[4] |-> Effects(e[4][i], env)])
         \o <<Step(<<"method", Object(env, e[2]), e[3], e[4]>>, env)>>
    [] OTHER -> <<>>

(* A call stores the arguments that are data, does the body of the function*)
(* and goes on when that returns.                                          *)
Enter(f, args, env) ==
  LET function == program[CHOOSE i \in DOMAIN program : program[i][3] = f]
      params == function[4]
      data == Seqs!FlattenSeq([n \in DOMAIN params |->
        IF IsData(params[n][1]) THEN <<Step(<<"store", params[n][2], args[n]>>, env)>> ELSE <<>>])
      objects == [x \in {params[n][2] : n \in {m \in DOMAIN params : ~IsData(params[m][1])}} |->
        Object(env, args[CHOOSE n \in DOMAIN params : params[n][2] = x][2])]
  IN  data \o StepsOf(function[5], [top |-> FALSE, objects |-> objects])

Block(stmts) == <<"block", stmts>>
Tested(test, yes, no, isLoop, env) ==
  Effects(test, env) \o <<Step(<<"tested", test, yes, no, isLoop>>, env)>>

(* The steps a step stands for.                                            *)
Opened(step) ==
  LET s == step.s
      env == step.env
  IN  CASE s[1] = "label" -> StepsOf(<<s[3]>>, env)
        [] s[1] = "block" -> StepsOf(s[2], env)
        [] s[1] = "pipeline" -> StepsOf(Append(s[3], <<"endpipe">>), env)
        [] s[1] = "endpipe" -> <<>>
        [] s[1] = "for" -> StepsOf(<<s[2], <<"entry", s[3], Append(s[5], s[4])>>>>, env)
        [] s[1] = "entry" -> StepsOf(<<<<"loop", s[2], s[3]>>>>, env)
        [] s[1] = "do" -> StepsOf(Append(s[2], <<"loop", s[3], s[2]>>), env)
        [] s[1] = "loop" -> Tested(s[2], Block(Append(s[3], s)), Block(<<>>), TRUE, env)
        [] s[1] = "if" ->
             Tested(s[2], s[3], IF s[4] = Nothing THEN Block(<<>>) ELSE s[4], FALSE, env)
        [] s[1] = "assign" ->
             Append(Effects(s[3], env), Step(<<"store", s[2][2], s[3]>>, env))
        [] s[1] = "expr" -> Effects(s[2], env)
        [] s[1] = "decl" -> <<Step(<<"alloca", s[2], s[3]>>, env)>>
        [] s[1] = "return" ->
             Effects(s[2], env) \o (IF env.top THEN <<Step(<<"ret">>, env)>> ELSE <<>>)
        [] s[1] = "enter" -> Enter(s[2], s[3], env)

Events == {"store", "method", "alloca", "tested", "ret"}

(* What happens next is brought to the head.                               *)
RECURSIVE Now(_)
Now(left) ==
  IF left = <<>> \/ Head(left).s[1] \in Events THEN left
  ELSE Now(Opened(Head(left)) \o Tail(left))

Event(left) ==
  IF left = <<>> THEN <<"ret">>
  ELSE IF Head(left).s[1] = "tested" THEN <<"test", Head(left).s[2]>>
  ELSE Head(left).s

-----------------------------------------------------------------------------
Instruction(p) == code.blocks[p[1]][p[2]].op

(* The code goes over loads, operations and unconditional branches at once.*)
RECURSIVE Along(_, _)
Along(blocks, p) ==
  LET op == blocks[p[1]][p[2]].op
  IN  CASE op[1] = "br" -> Along(blocks, <<op[2], 1>>)
        [] op[1] \in {"load", "op"} -> Along(blocks, <<p[1], p[2] + 1>>)
        [] OTHER -> p

CodeEvent ==
  LET op == Instruction(at) IN IF op[1] = "test" THEN <<"test", op[2]>> ELSE op

NameOfTop == program[Len(program)][3]
Inlining == code.is = "code" /\ CallsIn(code) # {}
Ready == code.is = "code" /\ CallsIn(code) = {}
Started(c) == IF CallsIn(c) = {} THEN Along(c.blocks, <<1, 1>>) ELSE <<1, 1>>
Beginning == Now(StepsOf(program[Len(program)][5], Top))

Init ==
  /\ program \in Programs
  /\ code = [is |-> "text"]
  /\ at = <<1, 1>>
  /\ todo = <<>>

Read ==
  /\ code.is = "text"
  /\ code' = [is |-> "tree", functions |-> Parse(Source(program))]
  /\ UNCHANGED <<at, todo>>

Compile ==
  /\ code.is = "tree"
  /\ LET g == Generated(code.functions)
     IN  code' = IF g.ok THEN Translated(g, NameOfTop) ELSE [is |-> "error"]
  /\ at' = IF code'.is = "code" THEN Started(code') ELSE at
  /\ todo' = Beginning

InlineCall ==
  /\ Inlining
  /\ code' = Inlined(code)
  /\ at' = Started(code')
  /\ UNCHANGED todo

DoStatement ==
  /\ Ready /\ CodeEvent = Event(todo) /\ CodeEvent[1] \notin {"test", "ret"}
  /\ at' = Along(code.blocks, <<at[1], at[2] + 1>>)
  /\ todo' = Now(Tail(todo))
  /\ UNCHANGED code

DoTest(yes) ==
  /\ Ready /\ CodeEvent = Event(todo) /\ CodeEvent[1] = "test"
  /\ at' = Along(code.blocks, <<Instruction(at)[IF yes THEN 3 ELSE 4], 1>>)
  /\ todo' = LET step == Head(todo)
             IN  Now(<<Step(step.s[IF yes THEN 3 ELSE 4], step.env)>> \o Tail(todo))
  /\ UNCHANGED code

Next ==
  /\ Read \/ Compile \/ InlineCall \/ DoStatement \/ \E yes \in BOOLEAN : DoTest(yes)
  /\ UNCHANGED program

Spec == Init /\ [][Next]_vars

-----------------------------------------------------------------------------
(* The text of a program is read as what was written: the kinds of         *)
(* statements are tried in an order in which none takes the text of        *)
(* another, an else goes to the nearest if, and operators of one           *)
(* precedence group to the left.                                           *)
ReadAsWritten == code.is = "tree" => code.functions = program

(* The hardware does what the source says: the stores, the calls of methods*)
(* and the tests in the blocks are those of the program and of the         *)
(* functions it calls, in their order, until it returns.                   *)
RunsTheProgram == Ready => CodeEvent = Event(todo)

(* Control is in the blocks of a pipeline whenever it is in a loop of a    *)
(* pipeline statement, and never when it has left the statement: these are *)
(* the blocks whose iterations the hardware overlaps.                      *)
IsLoop(s) == s[1] = "loop" \/ (s[1] = "tested" /\ s[5])
InPipelinedLoop ==
  \E i, j \in DOMAIN todo : i < j /\ IsLoop(todo[i].s) /\ todo[j].s[1] = "endpipe"
InPipelineStatement == \E j \in DOMAIN todo : todo[j].s[1] = "endpipe"

PipelinesHoldTheirLoops ==
  Ready => /\ InPipelinedLoop => at[1] \in UNION code.pipes
           /\ at[1] \in UNION code.pipes => InPipelineStatement

(* The parts of a statement that are statements.                           *)
Parts(s) ==
  CASE s[1] \in {"block", "do"} -> s[2]
    [] s[1] = "if" -> <<s[3], s[4]>>
    [] s[1] \in {"pipeline", "label"} -> IF s[1] = "label" THEN <<s[3]>> ELSE s[3]
    [] s[1] \in {"for", "function"} -> s[5]
    [] OTHER -> <<>>

RECURSIVE Contains(_, _), NestsPipelines(_), ReturnsEarly(_)
Contains(s, kind) ==
  s[1] = kind \/ \E i \in DOMAIN Parts(s) : Contains(Parts(s)[i], kind)
NestsPipelines(s) ==
  \E i \in DOMAIN Parts(s) :
    NestsPipelines(Parts(s)[i]) \/ (s[1] = "pipeline" /\ Contains(Parts(s)[i], "pipeline"))
IsConstraint(s) == s[1] = "expr" /\ s[2][1] = "call" /\ s[2][2] = "add_constraint"
ReturnsEarly(stmts) ==
  \E i \in DOMAIN stmts :
    /\ Contains(stmts[i], "return")
    /\ ~ /\ \A j \in i + 1 .. Len(stmts) : IsConstraint(stmts[j])
         /\ \/ stmts[i][1] = "return"
            \/ stmts[i][1] \in {"block", "label"} /\ ~ReturnsEarly(Parts(stmts[i]))

(* Every program is compiled, except that nothing but constraints may      *)
(* follow a return, if only the branch to the end of an if, and no pipeline*)
(* holds another: the compiler stops there, and makes no code that is      *)
(* wrong.                                                                  *)
CompilesAllElse ==
  code.is \notin {"text", "tree"} =>
    (code.is = "error" <=> \E i \in DOMAIN program :
                             ReturnsEarly(program[i][5]) \/ NestsPipelines(program[i]))

(* Inlining keeps the timing that the functions' constraints give: a call  *)
(* takes the time from its start to its return, no constraint between      *)
(* instructions of different calls gets lost or is added, and when all     *)
(* calls are inlined every instruction can start when it could before.     *)
InliningKeepsTiming == Ready /\ todo = Beginning => SameTiming(code, NameOfTop)
=============================================================================
