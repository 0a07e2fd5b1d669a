---------------------------- MODULE AxiTransfer ----------------------------
(***************************************************************************)
(* A generated function that reads and writes a memory over AXI4-Lite, in  *)
(* the two ways the compiler offers (scheduling.cpp): through the handlers *)
(* of the runtime library (axi_read_handler and axi_write_handler, called  *)
(* by what implementAXIRead and implementAXIWrite build), or by driving    *)
(* the bus itself (implementRawAXIRead, implementRawAXIWrite).             *)
(*                                                                         *)
(* Each call is two blocks that wait in a loop: the first offers the       *)
(* request, the second waits for the answer.  The schedule fixes how many  *)
(* cycles lie between the blocks of a call, and between a call and the     *)
(* next one; with none between them, blocks run in the same cycle.         *)
(***************************************************************************)
EXTENDS AxiRam, Sequences

CONSTANTS
  Programs,  \* sequences of accesses [kind, addr, data]
  MaxGap     \* bound on the cycles between two blocks

Gaps == 0..MaxGap
Access == [kind : {"read", "write"}, addr : WordAddresses, data : Data]

\* What the constraints admit, but for calls that offer two requests in one
\* state.  implementRawAXIRead fixes its own gap; nothing fixes the others.
Schedules == {s \in [raw : BOOLEAN, write : Gaps, read : Gaps, next : Gaps] :
                /\ s.write + s.next > 0 /\ s.read + s.next > 0
                /\ s.raw => s.read = 1}

ASSUME ProgramAssumption == Programs \subseteq Seq(Access)
ASSUME GapAssumption == MaxGap \in Nat

VARIABLES
  program, sched,
  at,        \* the access, its block, and the cycles until that block runs
  writer,    \* registers of axi_write_handler
  reader,    \* registers of axi_read_handler
  returned   \* history: what each read returned, by its place in the program

vars == <<ramVars, program, sched, at, writer, reader, returned>>

-----------------------------------------------------------------------------
(* The blocks.                                                             *)

Finished(p) == p.access > Len(program)
Kind(p) == program[p.access].kind

\* The branch out of the first block: stall_ready, stall_awready_block and
\* stall_raddr_block, which never stalls.
Granted(p) == CASE sched.raw /\ Kind(p) = "write" -> awready
                [] sched.raw /\ Kind(p) = "read" -> TRUE
                [] ~sched.raw /\ Kind(p) = "write" -> writer.ready
                [] ~sched.raw /\ Kind(p) = "read" -> reader.ready

\* The branch out of the second one.
Answered(p) == CASE sched.raw /\ Kind(p) = "write" -> bvalid
                 [] sched.raw /\ Kind(p) = "read" -> rvalid
                 [] ~sched.raw /\ Kind(p) = "write" -> writer.valid
                 [] ~sched.raw /\ Kind(p) = "read" -> reader.valid

Answer == IF sched.raw THEN rdata ELSE reader.data

\* Where control is after the block at p, within the cycle.
Onward(p) ==
  CASE p.wait = 0 /\ ~Finished(p) /\ p.block = "request" /\ Granted(p) ->
         [p EXCEPT !.block = "answer",
                   !.wait = IF Kind(p) = "write" THEN sched.write ELSE sched.read]
    [] p.wait = 0 /\ ~Finished(p) /\ p.block = "answer" /\ Answered(p) ->
         [access |-> p.access + 1, block |-> "request", wait |-> sched.next]
    [] OTHER -> p

\* At most two blocks run in a cycle, because two gaps in a row are not both
\* zero; Last is where the cycle leaves control.
Second == Onward(at)
Ran == {p \in {at, Second} : p.wait = 0 /\ ~Finished(p)}
Last == Onward(Second)
Requests(kind) == {p \in Ran : p.block = "request" /\ Kind(p) = kind}
Requested(kind) == program[(CHOOSE p \in Requests(kind) : TRUE).access]
Requesting(kind) == Requests(kind) # {}

-----------------------------------------------------------------------------
(* The handlers: a start overrules everything; the write handler holds its *)
(* request until the response, the read handler offers it for one cycle.   *)

Offered(ok) ==    \* the registers of the write handler after a start
  [ready |-> FALSE, valid |-> ok, awvalid |-> TRUE,
   addr |-> OnBus(Requested("write").addr), data |-> Requested("write").data]

WriterHeld(start) ==   \* mutant: a start leaves valid up
  writer' = IF start THEN Offered(writer.valid)
            ELSE IF bvalid THEN [writer EXCEPT !.ready = TRUE, !.valid = TRUE,
                                               !.awvalid = FALSE]
            ELSE writer

WriterSpent(start) ==  \* mutant: not ready again, like the read handler
  writer' = IF start THEN Offered(FALSE)
            ELSE IF bvalid THEN [writer EXCEPT !.valid = TRUE, !.awvalid = FALSE]
            ELSE writer

WriterClock(start) ==
  writer' = IF start THEN Offered(FALSE)
            ELSE IF bvalid THEN [writer EXCEPT !.ready = TRUE, !.valid = TRUE,
                                               !.awvalid = FALSE]
            ELSE writer

ReaderClock(start) ==
  IF start
    THEN reader' = [reader EXCEPT !.ready = FALSE, !.valid = FALSE, !.arvalid = TRUE,
                                  !.rready = TRUE,
                                  !.addr = OnBus(Requested("read").addr)]
    ELSE IF arready /\ rvalid
      THEN reader' = [reader EXCEPT !.valid = TRUE, !.data = rdata]
      ELSE reader' = [reader EXCEPT !.valid = FALSE, !.arvalid = FALSE]

-----------------------------------------------------------------------------
Init ==
  /\ RamInit
  /\ program \in Programs
  /\ sched \in Schedules
  /\ at = [access |-> 1, block |-> "request", wait |-> 0]
  /\ writer = [ready |-> TRUE, valid |-> FALSE, awvalid |-> FALSE,
               addr |-> 0, data |-> InitialWord]
  /\ reader = [ready |-> TRUE, valid |-> FALSE, arvalid |-> FALSE,
               rready |-> FALSE, addr |-> 0, data |-> InitialWord]
  /\ returned = [k \in {} |-> InitialWord]

\* The ports default to no request and to being ready for responses.
RawBus ==
  /\ RamClock(Requesting("write"),
              IF Requesting("write") THEN OnBus(Requested("write").addr) ELSE 0,
              IF Requesting("write") THEN Requested("write").data ELSE InitialWord,
              TRUE,
              Requesting("read"),
              IF Requesting("read") THEN OnBus(Requested("read").addr) ELSE 0,
              TRUE)
  /\ UNCHANGED <<writer, reader>>

HandledBus ==
  /\ RamClock(writer.awvalid, writer.addr, writer.data, TRUE,
              reader.arvalid, reader.addr, reader.rready)
  /\ WriterClock(Requesting("write"))
  /\ ReaderClock(Requesting("read"))

\* The reads whose second block found its answer.
Returning == {p.access : p \in {q \in Ran : q.block = "answer" /\ Kind(q) = "read"
                                            /\ Answered(q)}}

Tick ==
  /\ ~Finished(at)
  /\ IF sched.raw THEN RawBus ELSE HandledBus
  /\ at' = IF Last.wait > 0 THEN [Last EXCEPT !.wait = @ - 1] ELSE Last
  /\ returned' = [k \in DOMAIN returned \cup Returning |->
                    IF k \in Returning THEN Answer ELSE returned[k]]
  /\ UNCHANGED <<program, sched>>

Next == Tick
Spec == Init /\ [][Next]_vars
FairSpec == Spec /\ WF_vars(Next)   \* the clock does not stop

-----------------------------------------------------------------------------
(* What the accesses mean.                                                 *)

\* The memory after the first k accesses: the last write of each word.
Memory(k) ==
  [w \in WordAddresses |->
     LET writes == {i \in 1..k : program[i].kind = "write" /\ program[i].addr = w}
     IN IF writes = {} THEN InitialWord
        ELSE program[CHOOSE i \in writes : \A j \in writes : j <= i].data]

Reads == {k \in 1..Len(program) : program[k].kind = "read"}

\* The schedules under which the answers are there when they are looked for.
\* A raw write is answered in the cycle in which it is granted, and a raw
\* read must not be offered while the one before is being answered.  A
\* handler takes one cycle to forget its last answer and answers a read for
\* one cycle, the third after the start; it is never ready to read again.
Timely ==
  IF sched.raw THEN sched.write = 0 /\ sched.next > 0
  ELSE sched.write > 0 /\ sched.read \in 0..3 /\ (\A j, k \in Reads : j = k)

(* A call returns when its effect is there: in the cycle of the answer a   *)
(* write is in the memory, and nothing else in it has changed since the    *)
(* call before.                                                            *)
WritesAreDone ==
  Timely => \A p \in Ran : p.block = "answer" /\ Answered(p) => mem = Memory(p.access)

(* Every read returns, once its call is over, the word the last write      *)
(* before it put at its address, although requests, responses and calls    *)
(* overlap with the bus.                                                   *)
ReadsAsWritten ==
  Timely =>
    /\ DOMAIN returned = {k \in Reads : k < at.access}
    /\ \A k \in DOMAIN returned : returned[k] = Memory(k)[program[k].addr]

(* No call waits for an answer that has come and gone.                     *)
AllFinish == Timely => <>Finished(at)
=============================================================================
