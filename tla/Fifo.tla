-------------------------------- MODULE Fifo --------------------------------
(***************************************************************************)
(* The hardware queue of the runtime library, module fifo of builtins.v.   *)
(* One step is one rising clock edge: every always block reads the old     *)
(* registers and the input ports, and assigns the new registers together.  *)
(* Clock(...) is that edge for arbitrary inputs; Next restricts the inputs *)
(* to what generated clients drive (a port is only raised when the fifo    *)
(* says it is ready).                                                      *)
(***************************************************************************)
EXTENDS Integers, Sequences

CONSTANTS
  Data,      (* the words                                                  *)
  X,         (* the unknown value of a register nobody has assigned        *)
  DEPTH,     (* parameter DEPTH of the Verilog module                      *)
  AddrRange  (* 2^width of the address registers, width = $clog2(DEPTH)    *)

ASSUME DepthAssumption ==
  /\ DEPTH \in Nat \ {0}
  /\ AddrRange \in Nat
  /\ DEPTH <= AddrRange

VARIABLES
  ram,           (* reg [WIDTH - 1 : 0] ram [DEPTH - 1 : 0]  *)
  empty,         (* the flag that tells full from empty      *)
  write_addr,
  read_addr,
  out_data_reg

vars == <<ram, empty, write_addr, read_addr, out_data_reg>>

Addresses == 0 .. AddrRange - 1

TypeOK ==
  /\ ram \in [0 .. DEPTH - 1 -> Data \cup {X}]
  /\ empty \in BOOLEAN
  /\ write_addr \in 0 .. DEPTH - 1
  /\ read_addr \in 0 .. DEPTH - 1
  /\ out_data_reg \in Data \cup {X}

(* next_read_addr and next_write_addr: the comparison is made in 32 bits,  *)
(* the sum is cut to the width of the register it is stored in.            *)
NextAddr(addr) == IF DEPTH = addr + 1 THEN 0 ELSE (addr + 1) % AddrRange

fullNever == FALSE  (* mutant: writes accepted whatever is inside *)
full == ~empty /\ write_addr = read_addr
write_ready == ~full
read_ready == ~empty

(* The state the reset leaves: the memory and the output register hold     *)
(* whatever they powered up with.                                          *)
Init ==
  /\ ram = [a \in 0 .. DEPTH - 1 |-> X]
  /\ empty = TRUE
  /\ write_addr = 0
  /\ read_addr = 0
  /\ out_data_reg = X

(* The output register is not under the reset, and is the only consumer of *)
(* read_valid that also looks at read_ready.                               *)
LatchOutput(read_valid) ==
  out_data_reg' = IF read_valid /\ read_ready THEN ram[read_addr]
                                              ELSE out_data_reg

(* Mutant: the word being written while the last one leaves is forgotten.  *)
DrainedByAnyRead(read_valid, write_valid) ==
  read_valid /\ ~empty /\ NextAddr(read_addr) = write_addr

(* The last word leaves.  The read block looks at write_valid, not at      *)
(* whether the write is accepted.                                          *)
Drained(read_valid, write_valid) ==
  read_valid /\ ~empty /\ ~write_valid /\ NextAddr(read_addr) = write_addr

(* The read address advances whether or not there is a word to read.       *)
Clock(read_valid, write_valid, in_data) ==
  LET writes  == write_valid /\ write_ready
      drained == Drained(read_valid, write_valid)
  IN  /\ ram' = IF writes THEN [ram EXCEPT ![write_addr] = in_data] ELSE ram
      /\ write_addr' = IF writes THEN NextAddr(write_addr) ELSE write_addr
      /\ read_addr' = IF read_valid THEN NextAddr(read_addr) ELSE read_addr
      /\ empty' = IF drained THEN TRUE ELSE IF writes THEN FALSE ELSE empty
      /\ LatchOutput(read_valid)

(* Mutant: the read address survives the reset.                            *)
ResetWriteOnly(read_valid) ==
  /\ empty' = TRUE
  /\ write_addr' = 0
  /\ LatchOutput(read_valid)
  /\ UNCHANGED <<ram, read_addr>>

(* The edge while rst is high; the ports still carry what the clients put  *)
(* there.                                                                  *)
Reset(read_valid) ==
  /\ empty' = TRUE
  /\ write_addr' = 0
  /\ read_addr' = 0
  /\ LatchOutput(read_valid)
  /\ UNCHANGED ram

(* What the two disabled assertions of the module ask of its clients.      *)
Write(d) == write_ready /\ Clock(FALSE, TRUE, d)
Read     == read_ready /\ \E d \in Data : Clock(TRUE, FALSE, d)
Both(d)  == read_ready /\ write_ready /\ Clock(TRUE, TRUE, d)

Next ==
  \/ Read
  \/ \E d \in Data : Write(d) \/ Both(d)
  \/ \E read_valid \in BOOLEAN : Reset(read_valid)

Spec == Init /\ [][Next]_vars

-----------------------------------------------------------------------------
(* The words inside, oldest first, read off the two addresses.             *)
Occupancy ==
  IF empty THEN 0
  ELSE IF read_addr < write_addr THEN write_addr - read_addr
  ELSE DEPTH - read_addr + write_addr

Slot(i) == IF read_addr + i < DEPTH THEN read_addr + i
                                    ELSE read_addr + i - DEPTH

Contents == [i \in 1 .. Occupancy |-> ram[Slot(i - 1)]]

Queue == INSTANCE FifoQueue
           WITH queue <- Contents, out <- out_data_reg, Depth <- DEPTH

(* Two addresses and one flag implement a bounded queue: for clients that  *)
(* wait for the ready signals, no word is lost, repeated or reordered,     *)
(* also when a read and a write meet in one cycle and when the addresses   *)
(* wrap at a depth that is not a power of two.                             *)
ImplementsQueue == Queue!Spec

(* Every slot between the two addresses holds a written word: an X can     *)
(* never reach the output.                                                 *)
NoUnknownInside == \A i \in 1 .. Occupancy : Contents[i] \in Data

(* The flag is the only thing that tells an empty fifo from a full one: it *)
(* is set exactly when the addresses meet for want of words, so that       *)
(* "empty" with distinct addresses never arises.                           *)
EmptyMeansMet == empty => write_addr = read_addr
=============================================================================
