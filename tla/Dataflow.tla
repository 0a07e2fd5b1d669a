------------------------------- MODULE Dataflow -------------------------------
(* The hardware halideArch builds: loops that run side by side, a pass in    *)
(* every cycle, connected by push_fifo and push_linebuf. Neither of these    *)
(* can make its writer wait: what a fifo holds is there for one cycle, and   *)
(* a window for the cycle after the pixel that completes it. A loop whose    *)
(* inputs do not all have something in the same cycle loses what they have.  *)
(*                                                                           *)
(* One action is one cycle of the clock, in which the outside presents the   *)
(* next pixel or nothing, and takes what is written to "out".                *)
EXTENDS StreamPasses

CONSTANT Programs

VARIABLES expected,  \* what the program compiled writes
          design,    \* what halideArch makes of it
          fed,       \* how many pixels the outside has presented
          chan,      \* per channel inside, its registers
          loop,      \* per loop, its counter, whether it has ended, its pipeline
          received,  \* what the outside has taken from "out"
          quiet      \* cycles since the last pixel of the image, to Depth

vars == <<expected, design, fed, chan, loop, received, quiet>>

Inside(d) == DOMAIN d.chans \ {"in", "out"}

----------------------------------------------------------------------------
(* What the design supports: the front end and the library refuse or check   *)
(* none of this, and a program or a setting outside of it gets hardware that *)
(* computes something else. The README names each condition.                 *)

\* Every stream has one reader and one writer, each once in a pass.
PlainStreams(p) ==
  \A c \in DOMAIN p.chans :
    LET uses(op) == {<<l, i>> \in (DOMAIN p.loops) \X (1..8) :
                       /\ i \in DOMAIN p.loops[l].body
                       /\ p.loops[l].body[i].op = op /\ p.loops[l].body[i].ch = c}
    IN Cardinality(uses("read")) <= 1 /\ Cardinality(uses("write")) <= 1

SquareImages(p) ==
  \A c \in DOMAIN p.chans : p.chans[c].kind = "lb" => p.chans[c].rows = p.chans[c].cols

\* Not two constants other than 0 for the kernel, nor a 0 after another.
PlainKernel(p) ==
  /\ Cardinality(ToSet(p.kernel) \ {0}) <= 1
  /\ ToSet(p.kernel) \ {0} # {} => Last(p.kernel) # 0

\* The index of a loop is used only where one range is kept with its bound.
PlainIndices(p, d) ==
  \A l \in DOMAIN p.loops : \A i \in DOMAIN p.loops[l].body :
    LET c == p.loops[l].body[i] IN
    (c.op = "compute" /\ ToSet(c.args) \cap {"outer", "inner"} # {})
      => d.bounded /\ Len(p.loops[l].trips) = 1

\* No loop whose arithmetic takes cycles writes a stream.
LatencyBehindBuffers(d) ==
  \A l \in DOMAIN d.loops : d.loops[l].latency > 0 =>
    \A i \in DOMAIN d.loops[l].body : d.loops[l].body[i].op # "fifo_write_ref"

\* When the element of a channel that a pixel gives rise to comes out: cycles
\* after the pixel, and the line buffers that held some of them back.
Timing(d) ==
  LET Of(t, l) ==
        LET ins == {t[c] : c \in l.inputs \cap DOMAIN t}
            outs == {l.body[i].ch : i \in {j \in DOMAIN l.body : IsWrite(l.body[j])}}
            After(c) == IF Cardinality(ins) # 1 THEN <<0, <<"none">>>>
                        ELSE LET at == CHOOSE x \in ins : TRUE
                                 lb == d.chans[c].kind = "lb"
                             IN <<at[1] + 1 + IF lb THEN l.latency ELSE 0,
                                  IF lb THEN Append(at[2], d.chans[c]) ELSE at[2]>>
        IN [c \in outs |-> After(c)] @@ t
  IN FoldLeft(Of, ("in" :> <<0, <<>>>>), d.loops)

\* All inputs of a loop have something in the same cycles. A loop left without
\* inputs writes nothing, and what a loop reads is written: transfers in a row
\* must be handled from the first on, and none may read the input itself.
Balanced(d) ==
  LET timing == Timing(d) IN
  \A l \in DOMAIN d.loops :
    /\ d.loops[l].inputs = {} => \A i \in DOMAIN d.loops[l].body : ~IsWrite(d.loops[l].body[i])
    /\ d.loops[l].inputs \subseteq DOMAIN timing
    /\ \A a, b \in d.loops[l].inputs : timing[a] = timing[b]

\* A loop that has lost its bound, or been taken away, must not be offered
\* more than it would take.
BoundsHold(p, d) ==
  LET streams == Streams(p) IN
  \A l \in DOMAIN p.loops : (~d.bounded \/ d.loops[l].inputs = {}) =>
    \A c \in ReadBy(p.loops[l].body) :
      Len(Received(p.chans[c], streams[c])) <= Product(p.loops[l].trips)

Supported(p, d) ==
  /\ PlainStreams(p) /\ SquareImages(p) /\ PlainKernel(p)
  /\ PlainIndices(p, d)
  /\ LatencyBehindBuffers(d) /\ Balanced(d) /\ BoundsHold(p, d)

----------------------------------------------------------------------------
(* push_fifo and push_linebuf: what their readers see.                       *)

Idle == [valid |-> FALSE, data |-> Unknown]

FifoOut(s) == [valid |-> s.last_wv, data |-> s.data]

Memory(lb, s, address) ==
  IF address \in 0..(lb.rows * lb.cols - 1) /\ address < Len(s.memory)
  THEN s.memory[address + 1] ELSE Unknown

LineBufOut(lb, s) ==
  LET warmup  == (lb.height - 1) * lb.cols + lb.width
      topLeft == Len(s.memory) - warmup
      leftCol == topLeft % lb.rows
      inImage == /\ topLeft \div lb.cols + lb.height <= lb.rows
                 /\ leftCol + lb.width <= lb.cols
  IN [valid |-> s.last_wen /\ topLeft >= 0 /\ inImage,
      data  |-> [n \in 1..(lb.height * lb.width) |->
                   Memory(lb, s, topLeft + ((n - 1) \div lb.width) * lb.rows
                                         + ((n - 1) % lb.width))]]

\* implementPushFifoReadRef and implementLBPop, and the reads of read_valid
\* and valid in front of them; the input of the design is a stream outside.
ReadFifo(c) == FifoOut(chan[c])
PopBuffer(c) == LineBufOut(design.chans[c], chan[c])

Seen(c, pixel) ==
  IF c = "in" THEN pixel
  ELSE IF design.chans[c].kind = "lb" THEN PopBuffer(c) ELSE ReadFifo(c)

----------------------------------------------------------------------------
(* One pass of a loop after inlining, with its registers promoted: a value   *)
(* for every port it writes.                                                 *)

Operand(env, l, n, arg) ==
  CASE arg = "kernel" -> design.kernel
    [] arg \in {"outer", "inner"} -> IndexBuilt(l, design.bounded, arg, n)
    [] OTHER -> Holds(env, arg)

Execute(l, n, pixel) ==
  LET Step(env, i) ==
        CASE IsRead(i)     -> (i.reg :> Seen(i.ch, pixel).data) @@ env
          [] IsWrite(i)    -> (i.ch :> Holds(env, i.reg)) @@ env
          [] i.op = "load" -> (i.to :> Holds(env, i.reg)) @@ env
          [] i.op = "store" -> (i.reg :> Holds(env, i.value)) @@ env
          [] i.op = "eval" -> (i.reg :> Computed(i.name,
                                 [k \in DOMAIN i.args |-> Operand(env, l, n, i.args[k])])) @@ env
      env == FoldLeft(Step, <<>>, l.body)
  IN [c \in {l.body[i].ch : i \in {j \in DOMAIN l.body : IsWrite(l.body[j])}} |-> env[c]]

\* allInputsValid, in a loop that has not ended.
Fires(l, pixel) ==
  /\ ~loop[l].ended
  /\ \A c \in design.loops[l].inputs : Seen(c, pixel).valid

\* The pass that starts this cycle, and the one in the last stage: the same
\* when arithmetic takes no time.
Issued(l, pixel) ==
  [valid |-> Fires(l, pixel), writes |-> Execute(design.loops[l], loop[l].counter, pixel)]

Leaving(l, pixel) ==
  IF design.loops[l].latency = 0 THEN Issued(l, pixel) ELSE Last(loop[l].pipe)

WritersOf(c) ==
  {l \in DOMAIN design.loops :
     \E i \in DOMAIN design.loops[l].body :
       IsWrite(design.loops[l].body[i]) /\ design.loops[l].body[i].ch = c}

\* The ports of a stream: write_valid needs only the test of the inputs and is
\* set in the first stage, in_data in the stage that has the data.
FifoIn(c, pixel) ==
  [valid |-> \E l \in WritersOf(c) : Fires(l, pixel),
   data  |-> IF WritersOf(c) = {} THEN Unknown
             ELSE LET l == CHOOSE w \in WritersOf(c) : TRUE
                  IN Leaving(l, pixel).writes[c]]

\* The ports of a line buffer: wen and wdata are set in the same state.
LineBufIn(c, pixel) ==
  IF WritersOf(c) = {} THEN Idle
  ELSE LET l == CHOOSE w \in WritersOf(c) : TRUE
       IN [valid |-> Leaving(l, pixel).valid, data |-> Leaving(l, pixel).writes[c]]

----------------------------------------------------------------------------

Init ==
  /\ \E p \in Programs, optimize, bounded \in BOOLEAN :
     \E order \in OrdersFor(p, optimize), kernel \in KernelsFor(p) :
       /\ design = halideArch(p, optimize, bounded, order, kernel)
       /\ Supported(p, design)
       /\ expected = Meaning(p)
  /\ fed = 0
  /\ chan = [c \in Inside(design) |->
               IF design.chans[c].kind = "lb" THEN [last_wen |-> FALSE, memory |-> <<>>]
               ELSE [last_wv |-> FALSE, data |-> Unknown]]
  /\ loop = [l \in DOMAIN design.loops |->
               [counter |-> 0, ended |-> FALSE,
                pipe |-> [s \in 1..design.loops[l].latency |->
                            [valid |-> FALSE,
                             writes |-> [c \in DOMAIN design.chans |-> Unknown]]]]]
  /\ received = <<>>
  /\ quiet = 0

\* A bound of the model: quiet counts no further.
Depth(d) == FoldLeft(LAMBDA sum, l : sum + 1 + l.latency, 0, d.loops)

push_fifo(s, port) ==
  [last_wv |-> port.valid, data |-> IF port.valid THEN port.data ELSE s.data]

push_linebuf(s, port) ==
  [last_wen |-> port.valid,
   memory |-> IF port.valid THEN Append(s.memory, port.data) ELSE s.memory]

\* The counter moves with a pass that fires; without its bound a loop has none.
Advance(l, pixel) ==
  LET s == loop[l]
      fires == Fires(l, pixel)
      counts == fires /\ design.bounded
      latency == design.loops[l].latency
  IN [counter |-> IF counts THEN s.counter + 1 ELSE s.counter,
      ended   |-> s.ended \/ (counts /\ s.counter + 1 = design.loops[l].total),
      pipe    |-> SubSeq(<<Issued(l, pixel)>> \o s.pipe, 1, latency)]

Cycle(feed) ==
  LET pixel == IF feed THEN [valid |-> TRUE, data |-> Pixel(fed + 1)] ELSE Idle
      out == FifoIn("out", pixel)
  IN /\ feed => fed < design.pixels
     /\ fed' = IF feed THEN fed + 1 ELSE fed
     /\ chan' = [c \in Inside(design) |->
                   IF design.chans[c].kind = "lb" THEN push_linebuf(chan[c], LineBufIn(c, pixel))
                   ELSE push_fifo(chan[c], FifoIn(c, pixel))]
     /\ loop' = [l \in DOMAIN loop |-> Advance(l, pixel)]
     /\ received' = IF out.valid THEN Append(received, out.data) ELSE received
     /\ quiet' = IF fed = design.pixels THEN Min({quiet + 1, Depth(design)}) ELSE 0
     /\ UNCHANGED <<expected, design>>

Next == \E feed \in BOOLEAN : Cycle(feed)

Spec == Init /\ [][Next]_vars

----------------------------------------------------------------------------

\* What the hardware has written to its output is what the program writes
\* first, value by value: no input of a loop is missed, taken twice or paired
\* with one of another pass, whatever gaps the pixels come with and whichever
\* streams optimizeFifos took away.
OutputsAsProgram == IsPrefix(received, expected)

\* When the image is in, everything the program writes comes out, after no
\* more cycles than it takes to pass every loop and every channel once.
OutputsInTime == quiet = Depth(design) => received = expected
=============================================================================
