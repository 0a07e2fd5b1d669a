------------------------------- MODULE AxiRam -------------------------------
(***************************************************************************)
(* The AXI4-Lite memory the generated functions talk to (axil_ram.v).      *)
(* Every output is a register: a request is accepted at an edge, and its   *)
(* ready and its response are up in the next cycle, for one cycle if the   *)
(* client is ready for the response.  Responses are always OKAY, and the   *)
(* address and the data of a write are offered together.                   *)
(***************************************************************************)
EXTENDS Integers

CONSTANTS WordCount,  \* the words of the memory, 2^VALID_ADDR_WIDTH
          Data, InitialWord

ASSUME RamAssumption == WordCount \in Nat \ {0} /\ InitialWord \in Data

VARIABLES mem,
          awready,   \* s_axil_awready and s_axil_wready, which are equal
          bvalid, arready, rvalid, rdata

ramVars == <<mem, awready, bvalid, arready, rvalid, rdata>>

\* The address bus addresses bytes, four to a word: 2^ADDR_WIDTH.
BusRange == 4 * WordCount

\* What a word address is on the bus, and the word the memory finds there.
OnBusWord(addr) == addr % BusRange   \* mutant: no shift
OnBus(addr) == (addr * 4) % BusRange
Word(busAddr) == busAddr \div 4
WordAddresses == 0..(WordCount - 1)

RamInit ==
  /\ mem = [w \in WordAddresses |-> InitialWord]
  /\ awready = FALSE /\ bvalid = FALSE
  /\ arready = FALSE /\ rvalid = FALSE /\ rdata = InitialWord

AcceptsWrite(awvalid, bready) == awvalid /\ (~bvalid \/ bready) /\ ~awready
AcceptsRead(arvalid, rready) == arvalid /\ (~rvalid \/ rready) /\ ~arready

\* A read in the cycle of a write to its address gets the old word.
RamClock(awvalid, awaddr, wdata, bready, arvalid, araddr, rready) ==
  /\ awready' = AcceptsWrite(awvalid, bready)
  /\ bvalid' = (AcceptsWrite(awvalid, bready) \/ (bvalid /\ ~bready))
  /\ mem' = IF AcceptsWrite(awvalid, bready)
              THEN [mem EXCEPT ![Word(awaddr)] = wdata] ELSE mem
  /\ arready' = AcceptsRead(arvalid, rready)
  /\ rvalid' = (AcceptsRead(arvalid, rready) \/ (rvalid /\ ~rready))
  /\ rdata' = IF AcceptsRead(arvalid, rready) THEN mem[Word(araddr)] ELSE rdata
=============================================================================
