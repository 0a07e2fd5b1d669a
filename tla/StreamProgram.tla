---------------------------- MODULE StreamProgram ----------------------------
(* The stream programs the Halide front end compiles, and what they mean.    *)
(* A program reads the pixels of one image from the stream "in" and writes   *)
(* the stream "out". Between them it declares streams and line buffers; its  *)
(* loops run one after the other, each over one or two constant ranges, and  *)
(* a body calls methods of streams, line buffers and stencils:               *)
(*                                                                           *)
(*   read     reg = ch.read()        (lb_read for a line buffer)             *)
(*   write    ch.write(reg)          (lb_write)                              *)
(*   copy     to.copy(from)          for stencils                            *)
(*   compute  to.set(name(args))     arithmetic on what args.get() return    *)
(*                                                                           *)
(* An argument of compute is a stencil, the word of the kernel RAM, or the   *)
(* index of one of the loops. Values are terms, so that two of them are      *)
(* equal only when they were computed the same way from the same pixels.     *)
(*                                                                           *)
(* Streams and line buffers are classes of Halide's library; the repository  *)
(* holds only the programs that use them (test/ll_files/cascade.cpp).        *)
EXTENDS Integers, Sequences, FiniteSets, SequencesExt, TLC

Unknown == <<"unknown">>
Pixel(k) == <<"pixel", k>>
Computed(name, values) == <<"computed", name, values>>
IndexWord(n) == <<"index", n>>
KernelWord(n) == <<"kernel", n>>

StreamOf == [kind |-> "fifo"]
LineBufferOf(rows, cols, height, width) ==
  [kind |-> "lb", rows |-> rows, cols |-> cols, height |-> height, width |-> width]

Product(trips) == FoldLeft(LAMBDA a, b : a * b, 1, trips)

ReadBy(body)    == {body[i].ch : i \in {j \in DOMAIN body : body[j].op = "read"}}
WrittenBy(body) == {body[i].ch : i \in {j \in DOMAIN body : body[j].op = "write"}}

----------------------------------------------------------------------------
(* What a reader of a channel gets, of what was written to it: a line buffer *)
(* returns the windows that lie within the image, in the order of their last *)
(* pixel, each row by row.                                                   *)

ClosesWindow(lb, k) ==
  LET row == (k - 1) \div lb.cols
      col == (k - 1) % lb.cols
  IN /\ k <= lb.rows * lb.cols
     /\ row >= lb.height - 1
     /\ col >= lb.width - 1

WindowTo(lb, pixels, k) ==
  FlattenSeq([r \in 1..lb.height |->
    LET end == k - (lb.height - r) * lb.cols IN SubSeq(pixels, end - lb.width + 1, end)])

Received(chan, written) ==
  IF chan.kind = "fifo" THEN written
  ELSE FlattenSeq([k \in DOMAIN written |->
         IF ClosesWindow(chan, k) THEN <<WindowTo(chan, written, k)>> ELSE <<>>])

----------------------------------------------------------------------------
(* One pass through a body: what it leaves in the stencils and writes.       *)

Holds(env, name) == IF name \in DOMAIN env THEN env[name] ELSE Unknown

\* The index of loop d of a nest in its n-th pass.
IndexIn(trips, d, n) ==
  (((n - 1) \div Product(SubSeq(trips, d + 1, Len(trips)))) % trips[d])

ArgumentIn(env, trips, kernel, n, arg) ==
  CASE arg = "kernel" -> kernel
    [] arg = "outer"  -> IndexWord(IndexIn(trips, 1, n))
    [] arg = "inner"  -> IndexWord(IndexIn(trips, 2, n))
    [] OTHER          -> Holds(env, arg)

\* Stencils and written channels live in one environment.
Pass(loop, kernel, n, inputs) ==
  LET Call(env, c) ==
        CASE c.op = "read"    -> (c.reg :> inputs[c.ch]) @@ env
          [] c.op = "write"   -> (c.ch :> Holds(env, c.reg)) @@ env
          [] c.op = "copy"    -> (c.reg :> Holds(env, c.from)) @@ env
          [] c.op = "compute" ->
               (c.reg :> Computed(c.name,
                           [i \in DOMAIN c.args |->
                              ArgumentIn(env, loop.trips, kernel, n, c.args[i])])) @@ env
  IN FoldLeft(Call, <<>>, loop.body)

----------------------------------------------------------------------------
(* The program: loop after loop. A loop that asks a channel for more than it *)
(* ever gets is left waiting, as the loops that read line buffers are: their *)
(* bound counts the windows that wrap around the image too.                  *)

Passes(loop, inputs) ==
  Min({Len(inputs[c]) : c \in ReadBy(loop.body)} \cup {Product(loop.trips)})

\* The RAM of the kernel keeps the last word written.
KernelOf(p) == IF p.kernel = <<>> THEN Unknown ELSE KernelWord(Last(p.kernel))

Streams(p) ==
  LET Run(streams, loop) ==
        LET inputs == [c \in ReadBy(loop.body) |-> Received(p.chans[c], streams[c])]
            done == [n \in 1..Passes(loop, inputs) |->
                       Pass(loop, KernelOf(p), n, [c \in DOMAIN inputs |-> inputs[c][n]])]
        IN [c \in DOMAIN streams |->
              IF c \in WrittenBy(loop.body) THEN streams[c] \o [n \in DOMAIN done |-> done[n][c]]
              ELSE streams[c]]
      start == [c \in DOMAIN p.chans |->
                  IF c = "in" THEN [k \in 1..p.pixels |-> Pixel(k)] ELSE <<>>]
  IN FoldLeft(Run, start, p.loops)

Meaning(p) == Streams(p)["out"]
=============================================================================
