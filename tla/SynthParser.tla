---------------------------- MODULE SynthParser ----------------------------
(***************************************************************************)
(* The parser of Synthesis C++ (parser.h, parser.cpp): recursive descent   *)
(* that tries one kind of statement after another and goes back, and two   *)
(* stacks for the binary operators.                                        *)
(*                                                                         *)
(* A token is a string.  A syntax tree is a tuple that begins with its     *)
(* kind:                                                                   *)
(*   <<"id", name>>  <<"num", digits>>  <<"binop", op, lhs, rhs>>          *)
(*   <<"call", name, args>>  <<"method", object, name, args>>              *)
(*   <<"assign", lhs, expr>>  <<"expr", expr>>  <<"decl", type, name>>     *)
(*   <<"label", name, stmt>>                                               *)
(*   <<"block", stmts>>  <<"if", test, stmt, else>>                      *)
(*   <<"for", init, test, update, stmts>>  <<"do", stmts, test>>           *)
(*   <<"pipeline", ii, stmts>>  <<"return", expr>>                         *)
(*   <<"function", type, name, params, stmts>>                             *)
(* A parameter is a pair of type and name; a type is the tuple of its      *)
(* tokens.                                                                 *)
(* An else or a returned expression that is not there is Nothing.  A parser*)
(* takes the tokens and a position and returns whether it succeeded, the   *)
(* position it left off at, and the tree.                                  *)
(***************************************************************************)
EXTENDS Naturals, Sequences, FiniteSets

Nothing == <<"nothing">>
Abort == <<"abort">>     (* an assertion of the parser failed              *)

Digits == {"1", "2"}
Keywords == {"void", "for", "return", "do", "while"}
OneCharTokens ==
  {"{", "}", ";", ")", "(", ",", ":", "-", "&", "+", "=", ">", "<", "*"}

(* The tokens of two characters are made like names and count as such, and *)
(* so do the words that isKeyword does not list: if, else and pipeline.    *)
IsId(t) == t \notin Keywords \cup OneCharTokens \cup Digits
IsNum(t) == t \in Digits
IsBinop(t) == t \in {"==", "+", "-", "&", "<", ">", "*"}

Parsed(at, tree) == [ok |-> TRUE, at |-> at, tree |-> tree]
Failed(at) == [ok |-> FALSE, at |-> at, tree |-> Nothing]

NextIs(ts, p, t) == p <= Len(ts) /\ ts[p] = t

(* Success with the tree if the test holds; else tryParse goes back to p.  *)
Given(test, p, at, tree) == IF test THEN Parsed(at, tree) ELSE Failed(p)

(* The first of two ways to parse that succeeds.                           *)
one ?? other == IF one.ok THEN one ELSE other

-----------------------------------------------------------------------------
Precedence(op) == IF op \in {"+", "-", "*"} THEN 100 ELSE 99

(* Mutant: an operator gives way to a later one of its own precedence.     *)
ShuntRight(op, ops, out) ==
  LET kept == Cardinality({i \in DOMAIN ops : Precedence(ops[i]) <= Precedence(op)})
  IN  [ops |-> Append(SubSeq(ops, 1, kept), op),
       out |-> out \o [i \in 1 .. Len(ops) - kept |-> <<"id", ops[Len(ops) + 1 - i]>>]]

(* A binary operator moves those that do not yield to it from the stack to *)
(* the postfix string, the topmost first.  The stack is in increasing      *)
(* order of precedence.                                                    *)
Shunt(op, ops, out) ==
  LET kept == Cardinality({i \in DOMAIN ops : Precedence(ops[i]) < Precedence(op)})
  IN  [ops |-> Append(SubSeq(ops, 1, kept), op),
       out |-> out \o [i \in 1 .. Len(ops) - kept |-> <<"id", ops[Len(ops) + 1 - i]>>]]

(* popOperand: the last operand of a postfix string, and what is left.     *)
RECURSIVE PopOperand(_)
PopOperand(s) ==
  IF s = <<>> THEN [tree |-> Abort, rest |-> <<>>]
  ELSE LET top == s[Len(s)]
           rest == SubSeq(s, 1, Len(s) - 1)
       IN  IF top[1] = "id" /\ IsBinop(top[2])
             THEN LET rhs == PopOperand(rest)
                      lhs == PopOperand(rhs.rest)
                  IN  [tree |-> <<"binop", top[2], lhs.tree, rhs.tree>>,
                       rest |-> lhs.rest]
           ELSE [tree |-> top, rest |-> rest]

(* The operators left on the stack follow from the bottom up.              *)
BuildTree(p, ops, out) ==
  LET postfix == out \o [i \in DOMAIN ops |-> <<"id", ops[i]>>]
      r == PopOperand(postfix)
  IN  IF postfix = <<>> THEN Failed(p)
      ELSE Parsed(p, IF r.rest = <<>> THEN r.tree ELSE Abort)

(* The recursion goes through one operator, in which all kinds meet.       *)
RECURSIVE ParseAny(_, _, _)
ParseExpression(ts, p) == ParseAny("expression", ts, p)
ParseStatement(ts, p) == ParseAny("statement", ts, p)

RECURSIVE ParseTerms(_, _, _, _), ParseArguments(_, _, _)

ParseCall(ts, p) ==
  LET args == ParseArguments(ts, p + 2, <<>>)
  IN  Given(IsId(ts[p]) /\ NextIs(ts, p + 1, "(") /\ NextIs(ts, args.at, ")"), p,
            args.at + 1, <<"call", ts[p], args.tree>>)

ParseMethodCall(ts, p) ==
  LET call == ParseCall(ts, p + 2)
  IN  Given(IsId(ts[p]) /\ NextIs(ts, p + 1, "->") /\ p + 2 <= Len(ts) /\ call.ok, p,
            call.at, <<"method", ts[p], call.tree[2], call.tree[3]>>)

(* parsePrimitiveExpressionMaybe.                                          *)
ParsePrimitive(ts, p) ==
  LET inner == ParseExpression(ts, p + 1)
  IN  IF p > Len(ts) THEN Failed(p)
      ELSE IF ts[p] = "("
        THEN Given(inner.ok /\ NextIs(ts, inner.at, ")"), inner.at,
                   inner.at + 1, inner.tree)
      ELSE ParseCall(ts, p) ?? ParseMethodCall(ts, p)
           ?? Given(IsId(ts[p]), p, p + 1, <<"id", ts[p]>>)
           ?? Given(IsNum(ts[p]), p, p + 1, <<"num", ts[p]>>)

(* The loop of parseExpressionMaybe.                                       *)
AfterTerm(ts, t, ops, out) ==
  LET operands == Append(out, t.tree)
      moved == Shunt(ts[t.at], ops, operands)
  IN  IF ~t.ok THEN BuildTree(t.at, ops, out)
      ELSE IF t.at <= Len(ts) /\ IsBinop(ts[t.at])
        THEN ParseTerms(ts, t.at + 1, moved.ops, moved.out)
      ELSE BuildTree(t.at, ops, operands)

ParseTerms(ts, p, ops, out) == AfterTerm(ts, ParsePrimitive(ts, p), ops, out)

(* sepBtwn0 with parseComma: after a comma an argument is asserted.        *)
ParseArguments(ts, p, args) ==
  LET e == ParseExpression(ts, p)
  IN  IF ~e.ok THEN Parsed(e.at, IF args = <<>> THEN <<>> ELSE Append(args, Abort))
      ELSE IF NextIs(ts, e.at, ",")
        THEN ParseArguments(ts, e.at + 1, Append(args, e.tree))
      ELSE Parsed(e.at, Append(args, e.tree))

-----------------------------------------------------------------------------
RECURSIVE Many(_, _, _)

(* many: the statements up to the first position where none begins.        *)
Many(ts, p, stmts) ==
  LET s == ParseStatement(ts, p)
  IN  IF s.ok THEN Many(ts, s.at, Append(stmts, s.tree)) ELSE Parsed(s.at, stmts)

ParseBraces(ts, p) ==
  LET body == Many(ts, p + 1, <<>>)
  IN  Given(NextIs(ts, p, "{") /\ NextIs(ts, body.at, "}"), p,
            body.at + 1, body.tree)

ParseBlock(ts, p) ==
  LET b == ParseBraces(ts, p) IN Given(b.ok, p, b.at, <<"block", b.tree>>)

ParseIf(ts, p) ==
  LET test == ParseExpression(ts, p + 1)
      stmt == ParseStatement(ts, test.at)
      rest == ParseStatement(ts, stmt.at + 1)
  IN  IF ~(NextIs(ts, p, "if") /\ test.ok /\ stmt.ok) THEN Failed(p)
      ELSE IF NextIs(ts, stmt.at, "else")
        THEN Given(rest.ok, p, rest.at, <<"if", test.tree, stmt.tree, rest.tree>>)
      ELSE Parsed(stmt.at, <<"if", test.tree, stmt.tree, Nothing>>)

ParseDo(ts, p) ==
  LET body == ParseBraces(ts, p + 1)
      test == ParseExpression(ts, body.at + 1)
  IN  Given(/\ NextIs(ts, p, "do") /\ body.ok /\ NextIs(ts, body.at, "while")
            /\ test.ok /\ NextIs(ts, test.at, ";"), p,
            test.at + 1, <<"do", body.tree, test.tree>>)

ParseFor(ts, p) ==
  LET init == ParseStatement(ts, p + 2)
      test == ParseExpression(ts, init.at)
      update == ParseStatement(ts, test.at + 1)
      body == ParseBraces(ts, update.at + 1)
  IN  Given(/\ NextIs(ts, p, "for") /\ NextIs(ts, p + 1, "(") /\ init.ok
            /\ test.ok /\ NextIs(ts, test.at, ";")
            /\ update.ok /\ NextIs(ts, update.at, ")") /\ body.ok, p,
            body.at, <<"for", init.tree, test.tree, update.tree, body.tree>>)

ParsePipeline(ts, p) ==
  LET ii == ParseExpression(ts, p + 1)
      body == ParseBraces(ts, ii.at)
  IN  Given(NextIs(ts, p, "pipeline") /\ ii.ok /\ body.ok, p,
            body.at, <<"pipeline", ii.tree, body.tree>>)

ParseReturn(ts, p) ==
  LET e == ParseExpression(ts, p + 1)
      value == IF e.ok THEN e.tree ELSE Nothing
  IN  Given(NextIs(ts, p, "return") /\ NextIs(ts, e.at, ";"), p,
            e.at + 1, <<"return", value>>)

(* A type is void or a name that no < follows, and may be a reference.     *)
ParseType(ts, p) ==
  LET base == ts[p] = "void" \/ (IsId(ts[p]) /\ ~NextIs(ts, p + 1, "<"))
  IN  IF p > Len(ts) THEN Failed(p)
      ELSE Given(base /\ NextIs(ts, p + 1, "&"), p, p + 2, <<ts[p], "&">>)
           ?? Given(base, p, p + 1, <<ts[p]>>)

(* A parameter or a declaration, without its semicolon.                    *)
ParseArg(ts, p) ==
  LET tp == ParseType(ts, p)
  IN  Given(tp.ok /\ tp.at <= Len(ts) /\ IsId(ts[tp.at]), p,
            tp.at + 1, <<tp.tree, ts[tp.at]>>)

RECURSIVE ParseParams(_, _, _)
ParseParams(ts, p, params) ==
  LET arg == ParseArg(ts, p)
  IN  IF ~arg.ok THEN Parsed(p, IF params = <<>> THEN <<>> ELSE Append(params, Abort))
      ELSE IF NextIs(ts, arg.at, ",")
        THEN ParseParams(ts, arg.at + 1, Append(params, arg.tree))
      ELSE Parsed(arg.at, Append(params, arg.tree))

(* From its first parenthesis on a function is no longer tried but         *)
(* asserted.                                                               *)
ParseFuncDecl(ts, p) ==
  LET tp == ParseType(ts, p)
      params == ParseParams(ts, tp.at + 2, <<>>)
      body == ParseBraces(ts, params.at + 1)
  IN  IF ~(tp.ok /\ tp.at + 1 <= Len(ts) /\ IsId(ts[tp.at]) /\ ts[tp.at + 1] = "(")
        THEN Failed(p)
      ELSE IF NextIs(ts, params.at, ")") /\ body.ok
        THEN Parsed(body.at, <<"function", tp.tree, ts[tp.at], params.tree, body.tree>>)
      ELSE Parsed(Len(ts) + 1, Abort)

(* type name = value; the code generator takes it outside of functions.    *)
ParseAssignDeclare(ts, p) ==
  LET tp == ParseType(ts, p)
      lhs == ParseExpression(ts, tp.at)
      rhs == ParseExpression(ts, lhs.at + 1)
  IN  Given(/\ tp.ok /\ lhs.ok /\ NextIs(ts, lhs.at, "=")
            /\ rhs.ok /\ NextIs(ts, rhs.at, ";"), p,
            rhs.at + 1, <<"assigndecl", tp.tree, lhs.tree, rhs.tree>>)

(* An assignment, and the semicolon if there is one.                       *)
ParseAssign(ts, p) ==
  LET lhs == ParseExpression(ts, p)
      rhs == ParseExpression(ts, lhs.at + 1)
  IN  Given(lhs.ok /\ NextIs(ts, lhs.at, "=") /\ rhs.ok, p,
            IF NextIs(ts, rhs.at, ";") THEN rhs.at + 1 ELSE rhs.at,
            <<"assign", lhs.tree, rhs.tree>>)

ParseArgDecl(ts, p) ==
  LET arg == ParseArg(ts, p)
  IN  Given(arg.ok /\ NextIs(ts, arg.at, ";"), p,
            arg.at + 1, <<"decl", arg.tree[1], arg.tree[2]>>)

ParseExprStmt(ts, p) ==
  LET e == ParseExpression(ts, p)
  IN  Given(e.ok /\ NextIs(ts, e.at, ";"), p, e.at + 1, <<"expr", e.tree>>)

(* The kinds of statements, in the order in which they are tried.          *)
ParseStatementNoLabel(ts, p) ==
  IF p > Len(ts) THEN Failed(p)
  ELSE ParseBlock(ts, p) ?? ParseIf(ts, p) ?? ParseDo(ts, p) ?? ParseFor(ts, p)
       ?? ParsePipeline(ts, p) ?? ParseReturn(ts, p) ?? ParseFuncDecl(ts, p)
       ?? ParseAssignDeclare(ts, p) ?? ParseAssign(ts, p) ?? ParseArgDecl(ts, p)
       ?? ParseExprStmt(ts, p)

(* parseStatement: a label is a name and a colon.                          *)
ParseLabelled(ts, p) ==
  LET labelled == p + 1 <= Len(ts) /\ IsId(ts[p]) /\ ts[p + 1] = ":"
      stmt == ParseAny("no label", ts, IF labelled THEN p + 2 ELSE p)
  IN  IF labelled /\ stmt.ok THEN Parsed(stmt.at, <<"label", ts[p], stmt.tree>>)
      ELSE stmt

(* What is looked for at position p.                                       *)
ParseAny(kind, ts, p) ==
  CASE kind = "expression" -> ParseTerms(ts, p, <<>>, <<>>)
    [] kind = "statement" -> ParseLabelled(ts, p)
    [] kind = "no label" -> ParseStatementNoLabel(ts, p)

(* parse: a module of functions, of which all tokens must be used up.      *)
Parse(ts) ==
  LET r == Many(ts, 1, <<>>) IN IF r.at = Len(ts) + 1 THEN r.tree ELSE <<Abort>>
=============================================================================
