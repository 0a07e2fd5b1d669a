----------------------------- MODULE StreamPasses -----------------------------
(* halideArch: the passes that turn a stream program into loops that run     *)
(* side by side, each a task and a pipeline of its own.                      *)
(*                                                                           *)
(* After rewriteHalideStencils a body is a sequence of LLVM instructions:    *)
(* calls of fifo_read_ref, lb_pop, fifo_write_ref and lb_push on registers   *)
(* (the stencils), loads and stores of registers, and arithmetic ("eval",    *)
(* with the loads of its operands and the store of its result).              *)
EXTENDS StreamProgram

IsRead(i)  == i.op \in {"fifo_read_ref", "lb_pop"}
IsWrite(i) == i.op \in {"fifo_write_ref", "lb_push"}

\* rewriteInstr, call by call; id keeps the loads of a body apart.
StreamCall(c) ==
  <<[op |-> IF c.op = "read" THEN "fifo_read_ref" ELSE "fifo_write_ref", reg |-> c.reg, ch |-> c.ch]>>
BufferCall(c) ==
  <<[op |-> IF c.op = "read" THEN "lb_pop" ELSE "lb_push", reg |-> c.reg, ch |-> c.ch]>>
CopyCall(c, id) ==
  <<[op |-> "load", reg |-> c.from, to |-> id], [op |-> "store", reg |-> c.reg, value |-> id]>>
Arithmetic(c) == <<[op |-> "eval", reg |-> c.reg, name |-> c.name, args |-> c.args]>>

Rewritten(p, c, id) ==
  CASE c.op = "copy"    -> CopyCall(c, id)
    [] c.op = "compute" -> Arithmetic(c)
    [] OTHER -> IF p.chans[c.ch].kind = "lb" THEN BufferCall(c) ELSE StreamCall(c)

RewrittenBody(p, body) ==
  FlattenSeq([i \in DOMAIN body |-> Rewritten(p, body[i], ToString(i))])

----------------------------------------------------------------------------
(* optimizeRAMs: a word of a kernel RAM becomes the constant written to it.  *)
(* Of two values, the one that is not 0; otherwise the one whose LLVM value  *)
(* has the lower address, which may be either.                               *)

KernelChoices(p) ==
  LET values == ToSet(p.kernel) IN
  IF Cardinality(values) = 2 /\ 0 \in values THEN values \ {0} ELSE values

KernelsFor(p) == IF p.kernel = <<>> THEN {Unknown} ELSE {KernelWord(v) : v \in KernelChoices(p)}

----------------------------------------------------------------------------
(* optimizeFifos: a loop that only passes a stream on is removed, and what   *)
(* was written to the stream it reads is written where it wrote.             *)

\* read r; load r; store to s; write s  becomes  ...; write r.
IsCopyChain(body, i) ==
  /\ i + 3 <= Len(body)
  /\ IsRead(body[i])
  /\ body[i + 1].op = "load" /\ body[i + 1].reg = body[i].reg
  /\ body[i + 2].op = "store" /\ body[i + 2].value = body[i + 1].to
  /\ IsWrite(body[i + 3]) /\ body[i + 3].reg = body[i + 2].reg

peepholeOptimizeFifoWrites(body) ==
  [i \in DOMAIN body |->
     IF i > 3 /\ IsCopyChain(body, i - 3) THEN [body[i] EXCEPT !.reg = body[i - 3].reg]
     ELSE body[i]]

\* Mutant of Transfers: the registers are not compared, so that a loop that
\* computes something on the way counts as one that passes it on.
TransfersOfAnything(loops) ==
  UNION {{<<loops[l].body[i].ch, loops[l].body[j].ch>> :
            i \in {k \in DOMAIN loops[l].body : loops[l].body[k].op = "fifo_read_ref"},
            j \in {k \in DOMAIN loops[l].body : loops[l].body[k].op = "fifo_write_ref"}} :
         l \in {m \in DOMAIN loops :
                  Cardinality({i \in DOMAIN loops[m].body :
                                 IsRead(loops[m].body[i]) \/ IsWrite(loops[m].body[i])}) = 2}}

\* What writeReplacements holds after the loops have been looked at.
Transfers(loops) ==
  LET Moves(body) ==
        LET reads  == {i \in DOMAIN body : IsRead(body[i])}
            writes == {i \in DOMAIN body : IsWrite(body[i])}
        IN {<<body[i].ch, body[j].ch>> : <<i, j>> \in
              {ij \in reads \X writes :
                 /\ Cardinality(reads) = 1 /\ Cardinality(writes) = 1
                 /\ ij[1] < ij[2]
                 /\ body[ij[1]].reg = body[ij[2]].reg
                 /\ body[ij[1]].op = "fifo_read_ref"
                 /\ body[ij[2]].op = "fifo_write_ref"}}
  IN UNION {Moves(loops[l].body) : l \in DOMAIN loops}

\* One entry of writeReplacements, over all instructions of the function.
Replace(s, move) ==
  LET old == move[1]
      new == move[2]
      At(l, i) == s.loops[l].body[i]
      places == UNION {{l} \X DOMAIN s.loops[l].body : l \in DOMAIN s.loops}
      erase == {li \in places :
                  LET instr == At(li[1], li[2]) IN
                  \/ IsRead(instr)  /\ instr.ch = old
                  \/ IsWrite(instr) /\ instr.ch = new}
      Retargeted(instr) == IF IsWrite(instr) /\ instr.ch = old
                           THEN [instr EXCEPT !.ch = new] ELSE instr
  IN [loops |-> [l \in DOMAIN s.loops |->
                   [s.loops[l] EXCEPT !.body = [i \in DOMAIN @ |-> Retargeted(@[i])]]],
      erased |-> s.erased \cup erase]

OptimizedFifos(loops, order) ==
  LET s == FoldLeft(Replace, [loops |-> loops, erased |-> {}], order)
      Kept(l) == LET left == SelectSeq([i \in DOMAIN s.loops[l].body |-> i],
                                       LAMBDA i : <<l, i>> \notin s.erased)
                 IN [n \in DOMAIN left |-> s.loops[l].body[left[n]]]
  IN [l \in DOMAIN loops |-> [loops[l] EXCEPT !.body = Kept(l)]]

\* The entries are visited by the addresses of the streams: in any order.
Orders(S) == {q \in [1..Cardinality(S) -> S] : ToSet(q) = S}

----------------------------------------------------------------------------
(* forToWhileLoopOpt: a nest of two loops becomes one loop of as many        *)
(* passes, its inner index 0, and the operations of a pass wait until every  *)
(* input has something (liftBlockingOps); a pass that waits does not count.  *)
(* With predicateFifoWrites the waiting is in the enables of the writes and  *)
(* in what the counter becomes. removeLoopBounds makes a loop endless and    *)
(* its index 0.                                                              *)

BlockingOn(body) == {body[i].ch : i \in {j \in DOMAIN body : IsRead(body[j])}}

\* Mutant of TotalTrips: the bound stays that of the outer loop.
OuterTripsOnly(trips) == Head(trips)

TotalTrips(trips) == Product(trips)

WhileLoop(loop) ==
  [body |-> loop.body, total |-> TotalTrips(loop.trips), depth |-> Len(loop.trips),
   inputs |-> BlockingOn(loop.body), latency |-> loop.latency]

\* What the index of loop d of a nest is when the counter stands at n.
IndexBuilt(loop, bounded, d, n) ==
  IF d = "inner" \/ ~bounded THEN IndexWord(0) ELSE IndexWord(n)

(* halideArch with optimizeFifos, removeLoopBounds, an order of the entries  *)
(* of writeReplacements and a choice of optimizeRAMs. The other settings are *)
(* as in every test that builds hardware: pushFifos, forToWhile,             *)
(* predicateFifoWrites, loopTasks and pipelineLoops.                         *)

Lowered(p) == [l \in DOMAIN p.loops |->
                 [trips |-> p.loops[l].trips, latency |-> p.loops[l].latency,
                  body |-> RewrittenBody(p, p.loops[l].body)]]

PeepholeAll(loops) == [l \in DOMAIN loops |-> [loops[l] EXCEPT !.body = peepholeOptimizeFifoWrites(@)]]

halideArch(p, optimize, bounded, order, kernel) ==
  LET loops == IF optimize THEN OptimizedFifos(PeepholeAll(Lowered(p)), order) ELSE Lowered(p)
  IN [chans |-> p.chans, pixels |-> p.pixels, loops |-> [l \in DOMAIN loops |-> WhileLoop(loops[l])],
      bounded |-> bounded, kernel |-> kernel]

OrdersFor(p, optimize) ==
  IF optimize THEN Orders(Transfers(PeepholeAll(Lowered(p)))) ELSE {<<>>}
=============================================================================
