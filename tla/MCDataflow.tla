------------------------------ MODULE MCDataflow ------------------------------
EXTENDS Dataflow

Read(reg, ch)  == [op |-> "read", reg |-> reg, ch |-> ch]
Write(ch, reg) == [op |-> "write", reg |-> reg, ch |-> ch]
Copy(to, from) == [op |-> "copy", reg |-> to, from |-> from]
Compute(reg, name, args) == [op |-> "compute", reg |-> reg, name |-> name, args |-> args]

Loop(trips, body) == [trips |-> trips, body |-> body, latency |-> 0]
SlowLoop(trips, latency, body) == [trips |-> trips, body |-> body, latency |-> latency]

\* ch.write(from.read()), and dispatch_stream with a temporary stencil.
PassOn(trips, to, from) == Loop(trips, <<Read("r", from), Write(to, "r")>>)
Dispatch(trips, to, from) ==
  Loop(trips, <<Read("tmp", from), Copy("arg", "tmp"), Write(to, "arg")>>)

\* A stage of a pipeline: reads a stencil into a copy, computes, writes.
Stage(trips, to, from, name, args) ==
  Loop(trips, <<Read("tmp", from), Copy("s", "tmp"), Compute("c", name, args), Write(to, "c")>>)

Ports == [in |-> StreamOf, out |-> StreamOf]

\* Loops of a line buffer: every pixel, and every window, wrapped ones too.
Wrapped(lb) == lb.rows * lb.cols - ((lb.height - 1) * lb.cols + lb.width) + 1

LB3 == LineBufferOf(3, 3, 2, 2)
LB4 == LineBufferOf(4, 4, 2, 2)
LB5 == LineBufferOf(5, 5, 3, 3)

\* test/ll_files/cascade.cpp in small: a window, passed on, a convolution.
Convolution(lb, kernel) ==
  LET image == <<lb.rows * lb.cols>>
      inner == <<lb.rows - lb.height + 1, lb.cols - lb.width + 1>>
  IN [chans |-> [lb |-> lb, win |-> StreamOf, toconv |-> StreamOf, conv |-> StreamOf] @@ Ports,
      pixels |-> lb.rows * lb.cols, kernel |-> kernel,
      loops |-> <<PassOn(image, "lb", "in"),
                  PassOn(<<Wrapped(lb)>>, "win", "lb"),
                  Dispatch(inner, "toconv", "win"),
                  Stage(inner, "conv", "toconv", "conv", <<"s", "kernel">>),
                  PassOn(inner, "out", "conv")>>]

\* Two convolutions, a window of windows.
Cascade ==
  [chans |-> [lb1 |-> LB4, win1 |-> StreamOf, c1 |-> StreamOf, lb2 |-> LB3,
              win2 |-> StreamOf, hop |-> StreamOf, more |-> StreamOf, conv |-> StreamOf] @@ Ports,
   pixels |-> 16, kernel |-> <<0, 3>>,
   loops |-> <<PassOn(<<16>>, "lb1", "in"),
               PassOn(<<Wrapped(LB4)>>, "win1", "lb1"),
               Stage(<<3, 3>>, "c1", "win1", "conv1", <<"s", "kernel">>),
               PassOn(<<9>>, "lb2", "c1"),
               PassOn(<<Wrapped(LB3)>>, "win2", "lb2"),
               Dispatch(<<2, 2>>, "hop", "win2"),
               Dispatch(<<2, 2>>, "more", "hop"),
               Stage(<<2, 2>>, "conv", "more", "conv2", <<"s", "kernel">>),
               Dispatch(<<2, 2>>, "out", "conv")>>]

\* A stream sent two ways and joined; one way may be longer by transfers.
ForkJoin(left, right) ==
  LET Way(name, n) == name \o ToString(n)
      Names(name, k) == {Way(name, n) : n \in 0..k}
      Side(name, k, n) == IF n = 1 THEN Stage(<<4>>, Way(name, 1), Way(name, 0), name, <<"s">>)
                          ELSE Dispatch(<<4>>, Way(name, n), Way(name, n - 1))
  IN [chans |-> [c \in Names("f", left) \cup Names("g", right) |-> StreamOf] @@ Ports,
      pixels |-> 4, kernel |-> <<>>,
      loops |-> <<Loop(<<4>>, <<Read("r", "in"), Write("f0", "r"), Write("g0", "r")>>)>>
                \o [n \in 1..left |-> Side("f", left, n)]
                \o [n \in 1..right |-> Side("g", right, n)]
                \o <<Loop(<<2, 2>>, <<Read("a", Way("f", left)), Read("b", Way("g", right)),
                                      Compute("c", "sum", <<"a", "b">>), Write("out", "c")>>)>>]

\* A stream that meets the windows it is the source of, each two ways.
TwoWindows ==
  [chans |-> [l1 |-> LB3, l2 |-> LB3, w |-> StreamOf] @@ Ports,
   pixels |-> 9, kernel |-> <<>>,
   loops |-> <<Loop(<<9>>, <<Read("r", "in"), Compute("d", "dx", <<"r">>),
                             Write("l1", "r"), Write("l2", "d")>>),
               Loop(<<2, 2>>, <<Read("x", "l1"), Read("y", "l2"),
                                Compute("p", "product", <<"x", "y">>), Write("w", "p")>>),
               PassOn(<<2, 2>>, "out", "w")>>]

\* An index where it may be used, and a loop that takes only the first pixels.
Indexed ==
  [chans |-> [s |-> StreamOf] @@ Ports, pixels |-> 5, kernel |-> <<>>,
   loops |-> <<Loop(<<3>>, <<Read("r", "in"), Compute("c", "at", <<"r", "outer">>),
                             Write("s", "c")>>),
               PassOn(<<3>>, "out", "s")>>]

\* Floating point in front of a line buffer.
Slow ==
  [chans |-> [lb |-> LB3, win |-> StreamOf] @@ Ports, pixels |-> 9, kernel |-> <<0>>,
   loops |-> <<SlowLoop(<<9>>, 2, <<Read("r", "in"), Compute("c", "fadd", <<"r", "kernel">>),
                                    Write("lb", "c")>>),
               PassOn(<<Wrapped(LB3)>>, "win", "lb"),
               Dispatch(<<2, 2>>, "out", "win")>>]

MCPrograms == {Convolution(LB3, k) : k \in {<<0, 5>>, <<0, 0>>, <<5>>}}
              \cup {Convolution(LB4, <<0, 5>>), Convolution(LB5, <<0, 5>>)}
              \cup {Cascade, TwoWindows, Indexed, Slow}
              \cup {ForkJoin(1, 1), ForkJoin(1, 2), ForkJoin(2, 1), ForkJoin(2, 3), ForkJoin(2, 2)}
=============================================================================
