--------------------------- MODULE MCSynthProgram ---------------------------
EXTENDS SynthProgram

a == <<"id", "a">>
b == <<"id", "b">>
one == <<"num", "1">>
Binop(op, l, r) == <<"binop", op, l, r>>

(* Expressions of up to three operators, and calls with them.              *)
Atoms == {a, one}
Ops == {"+", "*", "<", "=="}
Over(ls, rs) == {Binop(op, l, r) : op \in Ops, l \in ls, r \in rs}
Pairs == Over(Atoms, Atoms)
Expressions == Atoms \cup Over(Atoms \cup Pairs, Atoms \cup Pairs)
Call(f, args) == <<"call", f, args>>
Calls == {Call("g", <<e>>) : e \in Pairs}
         \cup {<<"method", "p", "m", <<e, a>>>> : e \in Pairs}
         \cup {Call("h", <<>>)}

(* The functions that are called.                                          *)
Bit == <<"bit">>
Reference(name) == <<<<"P", "&">>, name>>
Function(type, name, params, stmts) == <<"function", <<type>>, name, params, stmts>>
Label(l, s) == <<"label", l, s>>
Expr(e) == <<"expr", e>>
Returned(e) == <<"return", e>>
x == <<"id", "x">>
Use(object, e) == <<"method", object, "m", <<e>>>>

TimeOf(which, l) == Call(which, <<<<"id", l>>>>)
Later(t) == Binop("+", t, one)
Constraint(l, rel, r) == Expr(Call("add_constraint", <<Binop(rel, l, r)>>))

G == Function("bit", "g", <<<<Bit, "x">>>>, <<Returned(Binop("+", x, one))>>)
H == Function("bit", "h", <<>>, <<Returned(one)>>)

(* No comparison has a sum or a product on its right.                      *)
RECURSIVE SumsFirst(_)
SumsFirst(e) ==
  CASE e[1] = "binop" ->
         /\ SumsFirst(e[3]) /\ SumsFirst(e[4])
         /\ ~(Precedence(e[2]) = 99 /\ e[4][1] = "binop" /\ Precedence(e[4][2]) = 100)
    [] e[1] = "call" -> \A i \in DOMAIN e[3] : SumsFirst(e[3][i])
    [] e[1] = "method" -> \A i \in DOMAIN e[4] : SumsFirst(e[4][i])
    [] OTHER -> TRUE

Assign(e) == <<"assign", a, e>>
Main(stmts) ==
  Function("void", "f", <<<<<<"bit", "&">>, "a">>, <<<<"bit", "&">>, "b">>,
                          Reference("p"), Reference("r")>>, stmts)
ExpressionBodies ==
  {<<Assign(e)>> : e \in Expressions \cup Over(Atoms, Calls) \cup Calls}
  \cup {<<Expr(c)>> : c \in Calls}
  \cup {<<Returned(e)>> : e \in Pairs}
ExpressionPrograms == {<<G, H, Main(body)>> : body \in ExpressionBodies}
SumsFirstPrograms ==
  {<<G, H, Main(body)>> : body \in
     {s \in ExpressionBodies : \A i \in 2 .. Len(s[1]) : SumsFirst(s[1][i])}}

(* Statements in statements.                                               *)
Test == Binop("<", a, b)
A == Assign(Binop("+", a, one))
B == Expr(Use("p", a))
C == <<"decl", Bit, "c">>
Return == Returned(Nothing)

Around(stmts) ==
  {<<"block", <<s>>>> : s \in stmts}
  \cup {<<"for", Assign(one), Test, A, <<s, B>>>> : s \in stmts}
  \cup {<<"do", <<s, A>>, Test>> : s \in stmts}
  \cup {<<"pipeline", one, <<s, B>>>> : s \in stmts}
  \cup {<<"if", Test, s, Nothing>> : s \in stmts}
  \cup {<<"if", Test, s, t>> : s \in stmts, t \in stmts}

Inner == Around({A, B, Return}) \cup {A, <<"do", <<>>, Test>>, <<"block", <<>>>>}
Outer == Around(Inner)

(* An if with an else cannot have an open if before the else.              *)
RECURSIVE Open(_), Writable(_)
Open(s) == s[1] = "if" /\ (s[4] = Nothing \/ Open(s[4]))
Writable(s) ==
  /\ s[1] = "if" /\ s[4] # Nothing => ~Open(s[3])
  /\ \A i \in DOMAIN Parts(s) : Writable(Parts(s)[i])

StatementBodies ==
  {<<C, s, B>> : s \in {t \in Outer : Writable(t)}}
  \cup {<<s, t, Return>> : s \in Inner, t \in Inner}
  \cup {<<A, <<"pipeline", one, <<s, B>>>>, B>> :
          s \in {t \in Outer : Writable(t) /\ ~Contains(t, "return")}}
StatementPrograms == {<<Main(body)>> : body \in StatementBodies}

(* Functions with objects, constraints, several blocks, and calls.         *)
Q == Reference("q")
X == <<Bit, "x">>
Poke == Function("void", "poke", <<Q, X>>,
  <<Label("l", Expr(Use("q", x))), Label("k", Expr(Use("q", x))),
    Constraint(Later(TimeOf("end", "l")), "<", TimeOf("start", "k"))>>)
Ask == Function("bit", "ask", <<X, Q>>,
  <<Label("l", Expr(Use("q", x))),
    Label("k", Returned(Use("q", one))),
    Constraint(Later(TimeOf("end", "l")), "==", TimeOf("start", "k"))>>)
Repeat == Function("void", "repeat", <<Q, X>>,
  <<Label("d", <<"do", <<Label("l", <<"assign", x, Use("q", x)>>)>>, Binop("<", x, one)>>),
    Label("k", Expr(Use("q", x))),
    Constraint(TimeOf("end", "d"), "<", TimeOf("start", "k"))>>)
Twice == Function("void", "twice", <<Q, X>>,
  <<Label("l", Expr(Call("poke", <<<<"id", "q">>, x>>))),
    Label("k", Expr(Call("poke", <<<<"id", "q">>, Binop("+", x, one)>>))),
    Constraint(TimeOf("end", "l"), "<", TimeOf("start", "k"))>>)
Library == <<G, H, Poke, Ask, Repeat, Twice>>

Object2 == <<"id", "r">>
CallStatements ==
  {Expr(Call(f, <<<<"id", o>>, e>>)) : f \in {"poke", "repeat", "twice"},
                                       o \in {"p", "r"}, e \in {a, Call("g", <<b>>)}}
  \cup {Assign(Call("ask", <<e, Object2>>)) : e \in {b, Call("ask", <<a, <<"id", "p">>>>)}}
Timed(s, t) ==
  {<<Label("u", s), Label("v", t), c>> :
     c \in {Constraint(TimeOf("end", "u"), "<", TimeOf("start", "v")),
            Constraint(Later(TimeOf("start", "u")), "==", TimeOf("start", "v"))}}
OfSeveralBlocks(s) == s[1] = "expr" /\ s[2][2] = "repeat"
LabelledLoops(several) ==
  UNION {Timed(<<"do", <<s>>, Test>>, B) : s \in {t \in CallStatements : OfSeveralBlocks(t) = several}}
PipelinesOneBlock(s) == s[1] = "pipeline" => ~OfSeveralBlocks(s[3][1])
InlinePrograms ==
  {Append(Library, Main(body)) : body \in
     UNION {Timed(s, t) : s, t \in CallStatements} \cup LabelledLoops(FALSE)
     \cup {<<s>> : s \in {u \in UNION {Around({t}) : t \in CallStatements} : PipelinesOneBlock(u)}}}

(* Two calls with one text, and a loop whose label is split by a call.     *)
SameCalls ==
  LET s == Expr(Call("poke", <<<<"id", "p">>, one>>))
  IN  {Append(Library, Main(body)) : body \in Timed(s, s)}
SplitLoops == {Append(Library, Main(body)) : body \in LabelledLoops(TRUE)}
(* A function that uses the result of a call before the call has ended.    *)
NestedResults ==
  LET Nest == Function("bit", "nest", <<X, Q>>,
        <<<<"assign", x, Call("ask", <<x, <<"id", "q">>>>)>>, Returned(x)>>)
  IN  {<<Ask, Nest, Main(<<Assign(Call("nest", <<a, Object2>>))>>)>>}
MarkerPrograms == SameCalls \cup SplitLoops \cup NestedResults

AllPrograms == SumsFirstPrograms \cup StatementPrograms \cup InlinePrograms
=============================================================================
