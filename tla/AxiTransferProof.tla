--------------------------- MODULE AxiTransferProof ---------------------------
(***************************************************************************)
(* Proofs about the generated functions that read and write a memory over  *)
(* AXI4-Lite: for every program, size of the memory and spacing of the     *)
(* blocks that Timely admits, calls return when their effect is there.     *)
(***************************************************************************)
EXTENDS AxiTransfer, TLAPS

Positions == [access : 1 .. Len(program) + 1, block : {"request", "answer"}, wait : Nat]
BusAddresses == 0 .. BusRange - 1
WriterRegisters == [ready : BOOLEAN, valid : BOOLEAN, awvalid : BOOLEAN,
                    addr : BusAddresses, data : Data]
ReaderRegisters == [ready : BOOLEAN, valid : BOOLEAN, arvalid : BOOLEAN,
                    rready : BOOLEAN, addr : BusAddresses, data : Data]

TypeOK ==
  /\ program \in Programs /\ sched \in Schedules
  /\ at \in Positions /\ (Finished(at) => at.block = "request")
  /\ mem \in [WordAddresses -> Data] /\ rdata \in Data
  /\ awready \in BOOLEAN /\ bvalid \in BOOLEAN /\ arready \in BOOLEAN /\ rvalid \in BOOLEAN
  /\ writer \in WriterRegisters /\ reader \in ReaderRegisters

-----------------------------------------------------------------------------
(* The phases of a call, as the registers of bus and handlers show them.   *)

Here == program[at.access]
WriteQuiet == ~awready /\ ~bvalid
ReadQuiet  == ~arready /\ ~rvalid

\* Driving the bus: no call is under way, or a write is answered while it is
\* offered, or a read the cycle after.
RawRest ==
  /\ at.block = "request" /\ WriteQuiet /\ ReadQuiet /\ mem = Memory(at.access - 1)
RawWritten ==
  /\ at.block = "request" /\ at.wait = 0 /\ ~Finished(at) /\ Kind(at) = "write"
  /\ awready /\ bvalid /\ ReadQuiet /\ mem = Memory(at.access)
RawRead ==
  /\ at.block = "answer" /\ at.wait = 0 /\ ~Finished(at) /\ Kind(at) = "read"
  /\ WriteQuiet /\ arready /\ rvalid /\ mem = Memory(at.access) /\ rdata = mem[Here.addr]

RawPhase == RawRest \/ RawWritten \/ RawRead

\* Through the handlers a request takes a cycle to the bus, one to the memory
\* and one back.
WriterRest == writer.ready /\ ~writer.awvalid /\ WriteQuiet
ReaderRest == ~reader.valid /\ ~reader.arvalid /\ ReadQuiet
ReaderNew(k) == (\A j \in Reads : k <= j) => reader.ready

Rest ==
  /\ at.block = "request" /\ WriterRest /\ ReaderRest /\ ReaderNew(at.access)
  /\ mem = Memory(at.access - 1)

WriteUnderWay ==
  /\ writer.awvalid /\ ~writer.valid
  /\ writer.addr = OnBus(Here.addr) /\ writer.data = Here.data
  /\ \/ WriteQuiet /\ mem = Memory(at.access - 1)
     \/ awready /\ bvalid /\ mem = Memory(at.access)
WriteDone == WriterRest /\ mem = Memory(at.access)

Writing ==
  /\ at.block = "answer" /\ Kind(at) = "write" /\ ReaderRest /\ ReaderNew(at.access)
  /\ WriteUnderWay \/ WriteDone

ReadOffered ==
  /\ at.wait <= 2 /\ reader.arvalid /\ reader.rready /\ ~reader.valid /\ ReadQuiet
  /\ reader.addr = OnBus(Here.addr)
ReadAnswered ==
  /\ at.wait <= 1 /\ ~reader.arvalid /\ reader.rready /\ ~reader.valid
  /\ arready /\ rvalid /\ rdata = mem[Here.addr]
ReadDone ==
  /\ at.wait = 0 /\ ~reader.arvalid /\ reader.valid /\ ReadQuiet
  /\ reader.data = mem[Here.addr]

Reading ==
  /\ at.block = "answer" /\ Kind(at) = "read" /\ WriterRest /\ mem = Memory(at.access)
  /\ ReadOffered \/ ReadAnswered \/ ReadDone

HandledPhase == Rest \/ Writing \/ Reading

\* The inductive invariant.
ReturnedRight ==
  /\ DOMAIN returned = {k \in Reads : k < at.access}
  /\ \A k \in DOMAIN returned : returned[k] = Memory(k)[program[k].addr]

Inv ==
  /\ TypeOK
  /\ Timely => ReturnedRight /\ (IF sched.raw THEN RawPhase ELSE HandledPhase)

-----------------------------------------------------------------------------
(* Addresses and the memory.                                               *)

\* The memory finds the word the client means.
LEMMA AddressesArrive ==
  ASSUME NEW w \in WordAddresses
  PROVE  OnBus(w) \in BusAddresses /\ Word(OnBus(w)) = w
  <1>1. w \in Nat /\ w * 4 \in 0 .. BusRange - 1 /\ BusRange \in Nat \ {0}
    BY RamAssumption DEF WordAddresses, BusRange
  <1>2. (w * 4) % BusRange = w * 4
    BY <1>1
  <1> QED
    BY <1>1, <1>2 DEF OnBus, Word, BusAddresses

LEMMA WordsOfTheBus ==
  /\ 0 \in BusAddresses
  /\ \A a \in BusAddresses : Word(a) \in WordAddresses
  BY RamAssumption DEF BusAddresses, BusRange, Word, WordAddresses

LEMMA ProgramTypes ==
  ASSUME TypeOK
  PROVE  /\ program \in Seq(Access) /\ Len(program) \in Nat
         /\ \A k \in 1 .. Len(program) :
               /\ program[k] \in Access /\ program[k].kind \in {"read", "write"}
               /\ program[k].addr \in WordAddresses /\ program[k].data \in Data
  <1>1. program \in Seq(Access)
    BY ProgramAssumption DEF TypeOK
  <1>2. Len(program) \in Nat /\ \A k \in 1 .. Len(program) : program[k] \in Access
    BY <1>1
  <1> QED
    BY <1>1, <1>2 DEF Access

\* What one more access does to the memory.
LEMMA MemoryStep ==
  ASSUME TypeOK, NEW k \in 1 .. Len(program)
  PROVE  Memory(k) = IF program[k].kind = "write"
                     THEN [Memory(k - 1) EXCEPT ![program[k].addr] = program[k].data]
                     ELSE Memory(k - 1)
  <1> DEFINE W(n, w) == {i \in 1..n : program[i].kind = "write" /\ program[i].addr = w}
             Value(S) == IF S = {} THEN InitialWord
                         ELSE program[CHOOSE i \in S : \A j \in S : j <= i].data
  <1>1. \A n : Memory(n) = [w \in WordAddresses |-> Value(W(n, w))]
    BY DEF Memory
  <1>2. k \in Nat /\ 1 .. k = (1 .. k - 1) \cup {k} /\ program[k].addr \in WordAddresses
    BY ProgramTypes
  <1>3. ASSUME NEW w \in WordAddresses,
               ~ (program[k].kind = "write" /\ program[k].addr = w)
        PROVE  W(k, w) = W(k - 1, w)
    BY <1>2, <1>3
  <1>4. CASE program[k].kind = "write"
    <2> DEFINE a == program[k].addr
    <2>1. k \in W(k, a) /\ \A j \in W(k, a) : j \in Int /\ j <= k
      BY <1>2, <1>4
    <2>2. (CHOOSE i \in W(k, a) : \A j \in W(k, a) : j <= i) = k
      <3> HIDE DEF W
      <3>1. \A i \in W(k, a) : (\A j \in W(k, a) : j <= i) => i = k
        BY <1>2, <2>1
      <3> QED
        BY <2>1, <3>1
    <2>3. Value(W(k, a)) = program[k].data
      BY <2>1, <2>2
    <2>4. \A w \in WordAddresses : w # a => Value(W(k, w)) = Value(W(k - 1, w))
      <3> HIDE DEF W, Value
      <3> QED
        BY <1>3
    <2> HIDE DEF W, Value
    <2>5. Memory(k) = [w \in WordAddresses |-> Value(W(k, w))]
      BY <1>1
    <2>6. Memory(k - 1) = [w \in WordAddresses |-> Value(W(k - 1, w))]
      BY <1>1
    <2> QED
      BY <1>2, <1>4, <2>3, <2>4, <2>5, <2>6
  <1>5. CASE program[k].kind # "write"
    <2> HIDE DEF W, Value
    <2>1. \A w \in WordAddresses : Value(W(k, w)) = Value(W(k - 1, w))
      BY <1>3, <1>5
    <2> QED
      BY <1>1, <1>5, <2>1
  <1> QED
    BY <1>4, <1>5

-----------------------------------------------------------------------------
(* Where control goes in a cycle.                                          *)

LEMMA OnwardTypes ==
  ASSUME TypeOK, NEW p \in Positions, Finished(p) => p.block = "request"
  PROVE  /\ Onward(p) \in Positions
         /\ Finished(Onward(p)) => Onward(p).block = "request"
  <1>1. /\ p.access \in 1 .. Len(program) + 1 /\ p.wait \in Nat
        /\ p.block \in {"request", "answer"} /\ Len(program) \in Nat
        /\ sched.write \in Nat /\ sched.read \in Nat /\ sched.next \in Nat
    BY ProgramTypes, GapAssumption DEF Positions, TypeOK, Schedules, Gaps
  <1>2. ASSUME NEW n \in Nat, ~ Finished(p)
        PROVE  /\ [p EXCEPT !.block = "answer", !.wait = n] \in Positions
               /\ ~ Finished([p EXCEPT !.block = "answer", !.wait = n])
    BY <1>1, <1>2 DEF Positions, Finished
  <1>3. ASSUME ~ Finished(p)
        PROVE  [access |-> p.access + 1, block |-> "request", wait |-> sched.next] \in Positions
    BY <1>1, <1>3 DEF Positions, Finished
  <1>4. CASE p.wait = 0 /\ ~ Finished(p) /\ p.block = "request" /\ Granted(p)
    BY <1>1, <1>2, <1>4 DEF Onward
  <1>5. CASE p.wait = 0 /\ ~ Finished(p) /\ p.block = "answer" /\ Answered(p)
    <2>1. Onward(p) = [access |-> p.access + 1, block |-> "request", wait |-> sched.next]
      BY <1>5 DEF Onward
    <2> QED
      BY <1>3, <1>5, <2>1
  <1>6. CASE /\ ~ (p.wait = 0 /\ ~ Finished(p) /\ p.block = "request" /\ Granted(p))
             /\ ~ (p.wait = 0 /\ ~ Finished(p) /\ p.block = "answer" /\ Answered(p))
    <2>1. Onward(p) = p
      BY <1>6 DEF Onward
    <2> QED
      BY <2>1
  <1> QED
    BY <1>4, <1>5, <1>6

LEMMA CycleTypes ==
  ASSUME TypeOK
  PROVE  /\ Second \in Positions /\ (Finished(Second) => Second.block = "request")
         /\ Last \in Positions /\ (Finished(Last) => Last.block = "request")
         /\ Ran \subseteq Positions
         /\ \A kind : Requesting(kind) => \E k \in 1 .. Len(program) :
                                             Requested(kind) = program[k]
  <1>1. Second \in Positions /\ (Finished(Second) => Second.block = "request")
    BY OnwardTypes DEF TypeOK, Second
  <1>2. Last \in Positions /\ (Finished(Last) => Last.block = "request")
    BY <1>1, OnwardTypes DEF Last
  <1>3. \A p \in Ran : p \in Positions /\ p.access \in 1 .. Len(program)
    BY <1>1, ProgramTypes DEF Ran, TypeOK, Finished, Positions
  <1>4. ASSUME NEW kind, Requesting(kind)
        PROVE  \E k \in 1 .. Len(program) : Requested(kind) = program[k]
    <2>1. (CHOOSE p \in Requests(kind) : TRUE) \in Ran
      BY <1>4 DEF Requesting, Requests
    <2> QED
      BY <1>3, <2>1 DEF Requested
  <1> QED
    BY <1>1, <1>2, <1>3, <1>4

LEMMA TickKeepsTypes ==
  ASSUME TypeOK, Tick
  PROVE  TypeOK'
  <1>1. program' = program /\ sched' = sched
    BY DEF Tick
  <1>2. at' \in Positions' /\ (Finished(at)' => at'.block = "request")
    <2>1. at' = IF Last.wait > 0 THEN [Last EXCEPT !.wait = Last.wait - 1] ELSE Last
      BY DEF Tick
    <2>2. Last \in Positions /\ (Finished(Last) => Last.block = "request")
      BY CycleTypes
    <2> HIDE DEF Last
    <2>3. Positions' = Positions
      BY <1>1 DEF Positions
    <2>4. at' \in Positions /\ at'.access = Last.access /\ at'.block = Last.block
      BY <2>1, <2>2 DEF Positions
    <2> QED
      BY <1>1, <2>2, <2>3, <2>4 DEF Finished
  <1>3. ASSUME NEW kind, Requesting(kind)
        PROVE  OnBus(Requested(kind).addr) \in BusAddresses /\ Requested(kind).data \in Data
    BY <1>3, CycleTypes, ProgramTypes, AddressesArrive
  <1>4. /\ mem \in [WordAddresses -> Data] /\ rdata \in Data
        /\ bvalid \in BOOLEAN /\ rvalid \in BOOLEAN
        /\ \A ra \in BusAddresses : mem[Word(ra)] \in Data
    BY WordsOfTheBus DEF TypeOK
  <1>5. CASE sched.raw
    <2>1. /\ RawBus /\ InitialWord \in Data
          /\ writer' = writer /\ reader' = reader
      BY <1>5, RamAssumption DEF Tick, RawBus
    <2>2. /\ (IF Requesting("write") THEN Requested("write").data ELSE InitialWord) \in Data
          /\ (IF Requesting("read") THEN OnBus(Requested("read").addr) ELSE 0) \in BusAddresses
      BY <1>3, <2>1, WordsOfTheBus
    <2>3. /\ mem' \in [WordAddresses -> Data] /\ rdata' \in Data
          /\ awready' \in BOOLEAN /\ bvalid' \in BOOLEAN
          /\ arready' \in BOOLEAN /\ rvalid' \in BOOLEAN
      <3> DEFINE aa == IF Requesting("write") THEN OnBus(Requested("write").addr) ELSE 0
                 wd == IF Requesting("write") THEN Requested("write").data ELSE InitialWord
                 ra == IF Requesting("read") THEN OnBus(Requested("read").addr) ELSE 0
      <3>1. RamClock(Requesting("write"), aa, wd, TRUE, Requesting("read"), ra, TRUE)
        BY <2>1 DEF RawBus
      <3>2. wd \in Data /\ ra \in BusAddresses
        BY <2>2
      <3> HIDE DEF aa, wd, ra
      <3> QED
        BY <1>4, <3>1, <3>2 DEF RamClock, AcceptsWrite, AcceptsRead
    <2> QED
      BY <1>1, <1>2, <2>1, <2>3 DEF TypeOK, WriterRegisters, ReaderRegisters
  <1>6. CASE ~ sched.raw
    <2>1. HandledBus /\ writer \in WriterRegisters /\ reader \in ReaderRegisters
      BY <1>6 DEF Tick, TypeOK
    <2>2. /\ mem' \in [WordAddresses -> Data] /\ rdata' \in Data
          /\ awready' \in BOOLEAN /\ bvalid' \in BOOLEAN
          /\ arready' \in BOOLEAN /\ rvalid' \in BOOLEAN
      <3>1. /\ RamClock(writer.awvalid, writer.addr, writer.data, TRUE,
                        reader.arvalid, reader.addr, reader.rready)
            /\ writer.awvalid \in BOOLEAN /\ writer.data \in Data
            /\ reader.arvalid \in BOOLEAN /\ reader.rready \in BOOLEAN
            /\ reader.addr \in BusAddresses
        BY <2>1 DEF HandledBus, WriterRegisters, ReaderRegisters
      <3> QED
        BY <1>4, <3>1 DEF RamClock, AcceptsWrite, AcceptsRead
    <2>3. writer' \in WriterRegisters
      BY <1>3, <2>1 DEF HandledBus, WriterClock, Offered, WriterRegisters
    <2>4. reader' \in ReaderRegisters
      <3>1. rdata \in Data /\ ReaderClock(Requesting("read"))
        BY <2>1 DEF TypeOK, HandledBus
      <3>2. CASE Requesting("read")
        <4>1. OnBus(Requested("read").addr) \in BusAddresses
          BY <1>3, <3>2
        <4> QED
          BY <2>1, <3>1, <3>2, <4>1 DEF ReaderClock, ReaderRegisters
      <3>3. CASE ~ Requesting("read")
        BY <2>1, <3>1, <3>3 DEF ReaderClock, ReaderRegisters
      <3> QED
        BY <3>2, <3>3
    <2>5. WriterRegisters' = WriterRegisters /\ ReaderRegisters' = ReaderRegisters
      BY DEF WriterRegisters, ReaderRegisters
    <2> QED
      BY <1>1, <1>2, <2>2, <2>3, <2>4, <2>5 DEF TypeOK
  <1> QED
    BY <1>5, <1>6

-----------------------------------------------------------------------------
(* The cycles of a call.  Each lemma says where control goes, which request *)
(* is made on the way, and whether a read returns.                          *)

Offers(kind, access) == Requesting(kind) /\ Requested(kind) = access
NextCycle(p) == IF p.wait > 0 THEN [p EXCEPT !.wait = p.wait - 1] ELSE p

LEMMA Position ==
  ASSUME TypeOK
  PROVE  /\ at = [access |-> at.access, block |-> at.block, wait |-> at.wait]
         /\ at.access \in 1 .. Len(program) + 1 /\ at.access \in Nat /\ at.wait \in Nat
         /\ at.block \in {"request", "answer"}
         /\ ~ Finished(at) => at.access \in 1 .. Len(program) /\ Kind(at) = Here.kind
         /\ sched.write \in Nat /\ sched.read \in Nat /\ sched.next \in Nat
         /\ sched.write + sched.next > 0 /\ sched.read + sched.next > 0
  BY ProgramTypes, GapAssumption
     DEF TypeOK, Positions, Finished, Kind, Here, Schedules, Gaps

\* A block that does not run, or that loops.
LEMMA Stays ==
  ASSUME TypeOK, ~ Finished(at), Onward(at) = at
  PROVE  /\ Last = at /\ Returning = {}
         /\ \A p \in Ran : p.block = "answer" => ~ Answered(p)
         /\ \A kind : Requesting(kind) <=>
                         at.wait = 0 /\ at.block = "request" /\ Kind(at) = kind
         /\ \A kind : Requesting(kind) => Requested(kind) = Here
  <1>1. Second = at /\ Last = at
    BY DEF Second, Last
  <1>2. Ran = {p \in {at} : at.wait = 0}
    BY <1>1 DEF Ran
  <1>3. at.block = "answer" /\ at.wait = 0 => ~ Answered(at)
    <2> SUFFICES ASSUME at.block = "answer", at.wait = 0, Answered(at) PROVE FALSE
      OBVIOUS
    <2>1. Onward(at) = [access |-> at.access + 1, block |-> "request", wait |-> sched.next]
      BY <1>1 DEF Onward
    <2> QED
      BY <2>1
  <1>4. ASSUME NEW kind
        PROVE  Requests(kind) = IF at.wait = 0 /\ at.block = "request" /\ Kind(at) = kind
                                THEN {at} ELSE {}
    BY <1>2 DEF Requests
  <1>5. \A kind : Requesting(kind) => Requested(kind) = Here
    BY <1>4 DEF Requesting, Requested, Here
  <1>6. Returning = {}
    BY <1>2, <1>3 DEF Returning
  <1> QED
    BY <1>1, <1>2, <1>3, <1>4, <1>5, <1>6 DEF Requesting

\* The first block is left, and the second one waits.
LEMMA GrantedThenWait ==
  ASSUME TypeOK, ~ Finished(at), at.wait = 0, at.block = "request", Granted(at),
         NEW gap, gap = (IF Kind(at) = "write" THEN sched.write ELSE sched.read),
         gap > 0 \/ ~ Answered(at)
  PROVE  /\ Last = [access |-> at.access, block |-> "answer", wait |-> gap]
         /\ Returning = {}
         /\ \A p \in Ran : p.block = "answer" => ~ Answered(p)
         /\ \A kind : Requesting(kind) <=> Kind(at) = kind
         /\ Offers(Kind(at), Here)
  <1> DEFINE next == [access |-> at.access, block |-> "answer", wait |-> gap]
  <1>1. Second = next
    BY Position DEF Second, Onward
  <1>2. Kind(next) = Kind(at) /\ (Answered(next) <=> Answered(at))
    BY DEF Kind, Answered
  <1>3. Last = next
    BY <1>1, <1>2 DEF Last, Onward
  <1>4. Ran = {p \in {at, next} : p.wait = 0}
    BY <1>1 DEF Ran, Finished
  <1>5. \A p \in Ran : p.block = "answer" => ~ Answered(p)
    BY <1>2, <1>4
  <1>6. \A kind : Requests(kind) = IF Kind(at) = kind THEN {at} ELSE {}
    BY <1>4 DEF Requests
  <1>7. Requested(Kind(at)) = Here
    BY <1>6 DEF Requested, Here
  <1> QED
    BY <1>1, <1>3, <1>5, <1>6, <1>7 DEF Returning, Requesting, Offers

\* The second block is left, and the next call waits.
LEMMA AnswerThenWait ==
  ASSUME TypeOK, ~ Finished(at), at.wait = 0, at.block = "answer", Answered(at),
         sched.next > 0 \/ at.access = Len(program)
  PROVE  /\ Last = [access |-> at.access + 1, block |-> "request", wait |-> sched.next]
         /\ Returning = (IF Kind(at) = "read" THEN {at.access} ELSE {})
         /\ \A p \in Ran : p.block = "answer" => p = at
         /\ \A kind : ~ Requesting(kind)
  <1> DEFINE next == [access |-> at.access + 1, block |-> "request", wait |-> sched.next]
  <1>1. Second = next
    BY Position DEF Second, Onward
  <1>2. next.wait # 0 \/ Finished(next)
    BY Position, ProgramTypes DEF Finished
  <1>3. Last = next
    BY <1>1, <1>2 DEF Last, Onward
  <1>4. Ran = {at}
    BY <1>1, <1>2 DEF Ran
  <1>5. Returning = (IF Kind(at) = "read" THEN {at.access} ELSE {})
    BY <1>4 DEF Returning
  <1> QED
    BY <1>1, <1>3, <1>4, <1>5 DEF Requests, Requesting

\* The second block is left, and the first one of the next call in the same cycle.
LEMMA AnswerThenRequest ==
  ASSUME TypeOK, ~ Finished(at), at.wait = 0, at.block = "answer", Answered(at), sched.next = 0,
         NEW k, k = at.access + 1, k <= Len(program),
         Granted([access |-> k, block |-> "request", wait |-> 0]),
         NEW gap, gap = (IF program[k].kind = "write" THEN sched.write ELSE sched.read)
  PROVE  /\ Last = [access |-> k, block |-> "answer", wait |-> gap] /\ gap > 0
         /\ Returning = (IF Kind(at) = "read" THEN {at.access} ELSE {})
         /\ \A p \in Ran : p.block = "answer" => p = at
         /\ \A kind : Requesting(kind) <=> program[k].kind = kind
         /\ Offers(program[k].kind, program[k])
  <1> DEFINE next == [access |-> k, block |-> "request", wait |-> 0]
             last == [access |-> k, block |-> "answer", wait |-> gap]
  <1>1. Second = next
    BY Position DEF Second, Onward
  <1>2. ~ Finished(next) /\ Kind(next) = program[k].kind /\ gap > 0
    BY Position, ProgramTypes DEF Finished, Kind
  <1>3. Last = last
    BY <1>1, <1>2 DEF Last, Onward
  <1>4. Ran = {at, next}
    BY <1>1, <1>2 DEF Ran
  <1>5. Returning = (IF Kind(at) = "read" THEN {at.access} ELSE {})
    BY <1>4 DEF Returning
  <1>6. \A kind : Requests(kind) = IF program[k].kind = kind THEN {next} ELSE {}
    BY <1>2, <1>4 DEF Requests
  <1>7. Requested(program[k].kind) = program[k]
    BY <1>6 DEF Requested
  <1>8. \A kind : Requesting(kind) <=> program[k].kind = kind
    BY <1>6 DEF Requesting
  <1>9. \A p \in Ran : p.block = "answer" => p = at
    BY <1>4
  <1>10. Offers(program[k].kind, program[k])
    BY <1>7, <1>8 DEF Offers
  <1> QED
    BY <1>2, <1>3, <1>5, <1>8, <1>9, <1>10

\* Driving the bus, a write is answered where it is granted.
LEMMA GrantedAndAnswered ==
  ASSUME TypeOK, ~ Finished(at), sched.raw, Timely, at.wait = 0, at.block = "request",
         Kind(at) = "write", awready, bvalid
  PROVE  /\ Last = [access |-> at.access + 1, block |-> "request", wait |-> sched.next]
         /\ Returning = {}
         /\ \A p \in Ran : p.access = at.access
         /\ \A kind : Requesting(kind) <=> kind = "write"
         /\ Offers("write", Here)
  <1> DEFINE next == [access |-> at.access, block |-> "answer", wait |-> 0]
             last == [access |-> at.access + 1, block |-> "request", wait |-> sched.next]
  <1>1. Second = next
    BY Position DEF Second, Onward, Granted, Timely
  <1>2. Kind(next) = "write" /\ ~ Finished(next)
    BY <1>1 DEF Kind, Finished
  <1>3. Last = last
    BY <1>1, <1>2 DEF Last, Onward, Answered
  <1>4. Ran = {at, next}
    BY <1>1, <1>2 DEF Ran
  <1>5. Returning = {}
    BY <1>2, <1>4 DEF Returning
  <1>6. \A kind : Requests(kind) = IF "write" = kind THEN {at} ELSE {}
    BY <1>4 DEF Requests
  <1>7. Requested("write") = Here
    BY <1>6 DEF Requested, Here
  <1> QED
    BY <1>1, <1>3, <1>4, <1>5, <1>6, <1>7 DEF Requesting, Offers

-----------------------------------------------------------------------------
(* The memory in a cycle.                                                  *)

LEMMA RawBusDoes ==
  ASSUME TypeOK, Tick, sched.raw
  PROVE  /\ awready' <=> Requesting("write") /\ ~ awready
         /\ bvalid' <=> Requesting("write") /\ ~ awready
         /\ mem' = IF Requesting("write") /\ ~ awready
                   THEN [mem EXCEPT ![Requested("write").addr] = Requested("write").data]
                   ELSE mem
         /\ arready' <=> Requesting("read") /\ ~ arready
         /\ rvalid' <=> Requesting("read") /\ ~ arready
         /\ Requesting("read") /\ ~ arready => rdata' = mem[Requested("read").addr]
  <1>1. RawBus
    BY DEF Tick
  <1>2. \A kind : Requesting(kind) => Word(OnBus(Requested(kind).addr)) = Requested(kind).addr
    BY CycleTypes, ProgramTypes, AddressesArrive
  <1> QED
    BY <1>1, <1>2 DEF RawBus, RamClock, AcceptsWrite, AcceptsRead

LEMMA HandledBusDoes ==
  ASSUME TypeOK, Tick, ~ sched.raw
  PROVE  /\ awready' <=> writer.awvalid /\ ~ awready
         /\ bvalid' <=> writer.awvalid /\ ~ awready
         /\ mem' = IF writer.awvalid /\ ~ awready
                   THEN [mem EXCEPT ![Word(writer.addr)] = writer.data] ELSE mem
         /\ arready' <=> reader.arvalid /\ (~ rvalid \/ reader.rready) /\ ~ arready
         /\ rvalid' <=> \/ reader.arvalid /\ (~ rvalid \/ reader.rready) /\ ~ arready
                        \/ rvalid /\ ~ reader.rready
         /\ reader.arvalid /\ (~ rvalid \/ reader.rready) /\ ~ arready
               => rdata' = mem[Word(reader.addr)]
         /\ WriterClock(Requesting("write")) /\ ReaderClock(Requesting("read"))
  <1>1. HandledBus
    BY DEF Tick
  <1> QED
    BY <1>1 DEF HandledBus, RamClock, AcceptsWrite, AcceptsRead

LEMMA TickFixes ==
  ASSUME Tick
  PROVE  /\ program' = program /\ sched' = sched /\ ~ Finished(at) /\ at' = NextCycle(Last)
         /\ \A k : Memory(k)' = Memory(k)
         /\ Reads' = Reads /\ (Timely' <=> Timely)
  <1>1. program' = program /\ sched' = sched /\ ~ Finished(at) /\ at' = NextCycle(Last)
    BY DEF Tick, NextCycle
  <1>2. \A k : Memory(k)' = Memory(k)
    BY <1>1 DEF Memory
  <1>3. Reads' = Reads
    BY <1>1 DEF Reads
  <1> QED
    BY <1>1, <1>2, <1>3 DEF Timely

\* What the reads have returned, if a cycle returns none, or the one it ends.
LEMMA NoneReturns ==
  ASSUME TypeOK, Tick, ReturnedRight, Returning = {},
         \/ at'.access = at.access
         \/ at'.access = at.access + 1 /\ Kind(at) # "read"
  PROVE  ReturnedRight'
  <1>1. {k \in Reads : k < at'.access} = {k \in Reads : k < at.access}
    <2>1. ASSUME at'.access = at.access + 1, Kind(at) # "read"
          PROVE  \A k \in Reads : k < at'.access <=> k < at.access
      BY <2>1, Position DEF Reads, Kind
    <2> QED
      BY <2>1
  <1>2. DOMAIN returned' = DOMAIN returned /\ \A k \in DOMAIN returned : returned'[k] = returned[k]
    BY DEF Tick
  <1> QED
    BY <1>1, <1>2, TickFixes DEF ReturnedRight

LEMMA OneReturns ==
  ASSUME TypeOK, Tick, ReturnedRight, Returning = {at.access}, Kind(at) = "read",
         at'.access = at.access + 1, Answer = Memory(at.access)[Here.addr]
  PROVE  ReturnedRight'
  <1>1. at.access \in Reads /\ at.access \in Nat
    BY Position, TickFixes DEF Reads, Kind
  <1>2. {k \in Reads : k < at'.access} = {k \in Reads : k < at.access} \cup {at.access}
    BY <1>1 DEF Reads
  <1>3. /\ DOMAIN returned' = DOMAIN returned \cup {at.access}
        /\ returned'[at.access] = Answer
        /\ \A k \in DOMAIN returned : k # at.access => returned'[k] = returned[k]
    BY DEF Tick
  <1>4. at.access \notin DOMAIN returned
    BY <1>1 DEF ReturnedRight
  <1> QED
    BY <1>2, <1>3, <1>4, TickFixes DEF ReturnedRight, Here

-----------------------------------------------------------------------------
(* Phase after phase, when the function drives the bus.                    *)

Done == \A p \in Ran : p.block = "answer" /\ Answered(p) => mem = Memory(p.access)

LEMMA FromRawRest ==
  ASSUME TypeOK, ~ Finished(at), sched.raw, Timely, RawRest
  PROVE  Done /\ (Tick /\ ReturnedRight => RawPhase' /\ ReturnedRight')
  <1>1. /\ at = [access |-> at.access, block |-> "request", wait |-> at.wait]
        /\ at.wait \in Nat /\ at.access \in 1 .. Len(program) /\ at.access \in Nat
        /\ Kind(at) = Here.kind /\ Kind(at) \in {"read", "write"}
        /\ sched.read = 1
    BY Position, ProgramTypes DEF RawRest, Kind, TypeOK, Schedules
  <1>2. CASE at.wait > 0
    <2>1. Onward(at) = at
      BY <1>1, <1>2 DEF Onward
    <2>2. Last = at /\ Done /\ Returning = {} /\ \A kind : ~ Requesting(kind)
      BY <1>1, <1>2, <2>1, Stays DEF Done
    <2>3. ASSUME Tick, ReturnedRight PROVE RawPhase' /\ ReturnedRight'
      <3>1. at' = [at EXCEPT !.wait = at.wait - 1]
        BY <1>2, <2>2, <2>3, TickFixes DEF NextCycle
      <3>2. at'.access = at.access /\ at'.block = "request"
        BY <1>1, <3>1
      <3>3. RawRest'
        BY <2>2, <2>3, <3>2, RawBusDoes, TickFixes DEF RawRest, WriteQuiet, ReadQuiet
      <3> QED
        BY <2>2, <2>3, <3>2, <3>3, NoneReturns DEF RawPhase
    <2> QED
      BY <2>2, <2>3
  <1>3. CASE at.wait = 0 /\ Kind(at) = "write"
    <2>1. Onward(at) = at
      BY <1>1, <1>3 DEF Onward, Granted, RawRest, WriteQuiet
    <2>2. /\ Last = at /\ Done /\ Returning = {}
          /\ Requesting("write") /\ Requested("write") = Here /\ ~ Requesting("read")
      BY <1>1, <1>3, <2>1, Stays DEF Done
    <2>3. ASSUME Tick, ReturnedRight PROVE RawPhase' /\ ReturnedRight'
      <3>1. at' = at
        BY <1>3, <2>2, <2>3, TickFixes DEF NextCycle
      <3>2. mem' = Memory(at.access)
        BY <1>1, <1>3, <2>2, <2>3, RawBusDoes, MemoryStep DEF RawRest, WriteQuiet, Here
      <3>3. ~ Finished(at)' /\ Kind(at)' = "write"
        BY <1>3, <2>3, <3>1, TickFixes DEF Finished, Kind
      <3>4. RawWritten'
        BY <1>1, <1>3, <2>2, <2>3, <3>1, <3>2, <3>3, RawBusDoes, TickFixes
           DEF RawRest, RawWritten, WriteQuiet, ReadQuiet
      <3> QED
        BY <2>2, <2>3, <3>1, <3>4, NoneReturns DEF RawPhase
    <2> QED
      BY <2>2, <2>3
  <1>4. CASE at.wait = 0 /\ Kind(at) = "read"
    <2>1. Granted(at)
      BY <1>4 DEF Granted
    <2>2. /\ Last = [access |-> at.access, block |-> "answer", wait |-> 1]
          /\ Done /\ Returning = {}
          /\ Requesting("read") /\ Requested("read") = Here /\ ~ Requesting("write")
      BY <1>1, <1>4, <2>1, GrantedThenWait DEF Done, Offers
    <2>3. ASSUME Tick, ReturnedRight PROVE RawPhase' /\ ReturnedRight'
      <3>1. at' = [access |-> at.access, block |-> "answer", wait |-> 0]
        BY <2>2, <2>3, TickFixes DEF NextCycle
      <3>2. mem' = mem /\ mem = Memory(at.access) /\ rdata' = mem[Here.addr]
        BY <1>1, <1>4, <2>2, <2>3, RawBusDoes, MemoryStep DEF RawRest, ReadQuiet, Here
      <3>3. ~ Finished(at)' /\ Kind(at)' = "read" /\ Here' = Here
        BY <1>4, <2>3, <3>1, TickFixes DEF Finished, Kind, Here
      <3>4. RawRead'
        BY <2>2, <2>3, <3>1, <3>2, <3>3, RawBusDoes, TickFixes
           DEF RawRest, RawRead, WriteQuiet, ReadQuiet
      <3> QED
        BY <2>2, <2>3, <3>1, <3>4, NoneReturns DEF RawPhase
    <2> QED
      BY <2>2, <2>3
  <1> QED
    BY <1>1, <1>2, <1>3, <1>4

LEMMA FromRawWritten ==
  ASSUME TypeOK, ~ Finished(at), sched.raw, Timely, RawWritten
  PROVE  Done /\ (Tick /\ ReturnedRight => RawPhase' /\ ReturnedRight')
  <1>1. /\ Last = [access |-> at.access + 1, block |-> "request", wait |-> sched.next]
        /\ Returning = {} /\ \A p \in Ran : p.access = at.access
        /\ \A kind : Requesting(kind) <=> kind = "write"
        /\ sched.next \in Nat /\ sched.next > 0 /\ at.access \in Nat
    BY GrantedAndAnswered, Position DEF RawWritten, Timely
  <1>2. Done
    BY <1>1 DEF Done, RawWritten
  <1>3. ASSUME Tick, ReturnedRight PROVE RawPhase' /\ ReturnedRight'
    <2>1. at' = [access |-> at.access + 1, block |-> "request", wait |-> sched.next - 1]
      BY <1>1, <1>3, TickFixes DEF NextCycle
    <2>2. mem' = mem /\ WriteQuiet' /\ ReadQuiet'
      BY <1>1, <1>3, RawBusDoes DEF RawWritten, WriteQuiet, ReadQuiet
    <2>3. RawRest'
      BY <1>1, <1>3, <2>1, <2>2, TickFixes DEF RawRest, RawWritten
    <2> QED
      BY <1>1, <1>3, <2>1, <2>3, NoneReturns DEF RawPhase, RawWritten
  <1> QED
    BY <1>2, <1>3

LEMMA FromRawRead ==
  ASSUME TypeOK, ~ Finished(at), sched.raw, Timely, RawRead
  PROVE  Done /\ (Tick /\ ReturnedRight => RawPhase' /\ ReturnedRight')
  <1>1. Answered(at) /\ Answer = rdata
    BY DEF RawRead, Answered, Answer
  <1>2. /\ Last = [access |-> at.access + 1, block |-> "request", wait |-> sched.next]
        /\ Returning = {at.access} /\ \A p \in Ran : p.block = "answer" => p = at
        /\ \A kind : ~ Requesting(kind)
        /\ sched.next \in Nat /\ sched.next > 0 /\ at.access \in Nat
    BY <1>1, AnswerThenWait, Position DEF RawRead, Timely
  <1>3. Done
    BY <1>2 DEF Done, RawRead
  <1>4. ASSUME Tick, ReturnedRight PROVE RawPhase' /\ ReturnedRight'
    <2>1. at' = [access |-> at.access + 1, block |-> "request", wait |-> sched.next - 1]
      BY <1>2, <1>4, TickFixes DEF NextCycle
    <2>2. mem' = mem /\ WriteQuiet' /\ ReadQuiet'
      BY <1>2, <1>4, RawBusDoes DEF WriteQuiet, ReadQuiet
    <2>3. RawRest'
      BY <1>2, <1>4, <2>1, <2>2, TickFixes DEF RawRest, RawRead
    <2> QED
      BY <1>1, <1>2, <1>4, <2>1, <2>3, OneReturns DEF RawPhase, RawRead
  <1> QED
    BY <1>3, <1>4

-----------------------------------------------------------------------------
(* Phase after phase, through the handlers.                                *)

\* A handler nobody starts comes to rest, and so does its side of the bus.
LEMMA WriterIdles ==
  ASSUME TypeOK, Tick, ~ sched.raw, ~ Requesting("write"), WriterRest
  PROVE  WriterRest' /\ mem' = mem
  <1>1. writer' = writer
    BY HandledBusDoes DEF WriterRest, WriteQuiet, WriterClock
  <1> QED
    BY <1>1, HandledBusDoes DEF WriterRest, WriteQuiet

LEMMA ReaderIdles ==
  ASSUME TypeOK, Tick, ~ sched.raw, ~ Requesting("read"), ~ reader.arvalid, ReadQuiet
  PROVE  ReaderRest' /\ (reader.ready => reader'.ready)
  <1>1. reader' = [reader EXCEPT !.valid = FALSE, !.arvalid = FALSE]
    BY HandledBusDoes DEF ReadQuiet, ReaderClock
  <1>2. ~ reader'.valid /\ ~ reader'.arvalid /\ reader'.ready = reader.ready
    BY <1>1 DEF TypeOK, ReaderRegisters
  <1> QED
    BY <1>2, HandledBusDoes DEF ReaderRest, ReadQuiet

\* A read is the only one.
LEMMA OnlyRead ==
  ASSUME TypeOK, ~ sched.raw, Timely, NEW k \in 1 .. Len(program), program[k].kind = "read"
  PROVE  Reads = {k}
  BY DEF Timely, Reads

\* The request of access k, in the cycle in which all is at rest.
LEMMA StartWrite ==
  ASSUME TypeOK, Tick, ~ sched.raw, NEW k \in 1 .. Len(program), program[k].kind = "write",
         WriterRest, ~ reader.arvalid, ReadQuiet, ReaderNew(k), mem = Memory(k - 1),
         Offers("write", program[k]), ~ Requesting("read"),
         at'.access = k, at'.block = "answer"
  PROVE  Writing'
  <1>1. writer' = [ready |-> FALSE, valid |-> FALSE, awvalid |-> TRUE,
                   addr |-> OnBus(program[k].addr), data |-> program[k].data]
    BY HandledBusDoes DEF Offers, WriterClock, Offered
  <1>2. mem' = mem /\ WriteQuiet'
    BY HandledBusDoes DEF WriterRest, WriteQuiet
  <1>3. ReaderRest' /\ ReaderNew(k)'
    BY ReaderIdles, TickFixes DEF ReaderNew
  <1>4. Kind(at)' = "write" /\ Here' = program[k]
    BY TickFixes DEF Kind, Here
  <1>5. OnBus(Here.addr)' = OnBus(program[k].addr)
    BY <1>4 DEF OnBus
  <1>6. WriteUnderWay'
    BY <1>1, <1>2, <1>4, <1>5, TickFixes DEF WriteUnderWay
  <1> QED
    BY <1>3, <1>4, <1>6 DEF Writing, ReaderNew

LEMMA StartRead ==
  ASSUME TypeOK, Tick, ~ sched.raw, NEW k \in 1 .. Len(program), program[k].kind = "read",
         WriterRest, ReaderRest, mem = Memory(k - 1),
         Offers("read", program[k]), ~ Requesting("write"),
         at'.access = k, at'.block = "answer", at'.wait <= 2
  PROVE  Reading'
  <1>1. reader' = [reader EXCEPT !.ready = FALSE, !.valid = FALSE, !.arvalid = TRUE,
                                 !.rready = TRUE, !.addr = OnBus(program[k].addr)]
    BY HandledBusDoes DEF Offers, ReaderClock
  <1>2. /\ ~ reader'.valid /\ reader'.arvalid /\ reader'.rready
        /\ reader'.addr = OnBus(program[k].addr)
    BY <1>1 DEF TypeOK, ReaderRegisters
  <1>3. ReadQuiet'
    BY HandledBusDoes DEF ReaderRest, ReadQuiet
  <1>4. WriterRest' /\ mem' = mem /\ mem = Memory(k)
    BY WriterIdles, MemoryStep
  <1>5. Kind(at)' = "read" /\ Here' = program[k]
    BY TickFixes DEF Kind, Here
  <1>6. OnBus(Here.addr)' = OnBus(program[k].addr)
    BY <1>5 DEF OnBus
  <1>7. ReadOffered'
    BY <1>2, <1>3, <1>6 DEF ReadOffered
  <1> QED
    BY <1>4, <1>5, <1>7, TickFixes DEF Reading

LEMMA FromRest ==
  ASSUME TypeOK, ~ Finished(at), ~ sched.raw, Timely, Rest
  PROVE  Done /\ (Tick /\ ReturnedRight => HandledPhase' /\ ReturnedRight')
  <1>1. /\ at = [access |-> at.access, block |-> "request", wait |-> at.wait]
        /\ at.wait \in Nat /\ at.access \in 1 .. Len(program) /\ at.access \in Nat
        /\ Kind(at) = Here.kind /\ Kind(at) \in {"read", "write"}
        /\ sched.write \in Nat /\ sched.write > 0 /\ sched.read \in 0 .. 3
    BY Position, ProgramTypes DEF Rest, Kind, Timely
  <1>2. CASE at.wait > 0
    <2>1. Onward(at) = at
      BY <1>1, <1>2 DEF Onward
    <2>2. Last = at /\ Done /\ Returning = {} /\ \A kind : ~ Requesting(kind)
      BY <1>1, <1>2, <2>1, Stays DEF Done
    <2>3. ASSUME Tick, ReturnedRight PROVE HandledPhase' /\ ReturnedRight'
      <3>1. at' = [at EXCEPT !.wait = at.wait - 1]
        BY <1>2, <2>2, <2>3, TickFixes DEF NextCycle
      <3>2. at'.access = at.access /\ at'.block = "request"
        BY <1>1, <3>1
      <3>3. WriterRest' /\ mem' = mem /\ ReaderRest' /\ (reader.ready => reader'.ready)
        BY <2>2, <2>3, WriterIdles, ReaderIdles DEF Rest, ReaderRest
      <3>4. Rest'
        BY <2>2, <2>3, <3>2, <3>3, TickFixes DEF Rest, ReaderNew
      <3> QED
        BY <2>2, <2>3, <3>2, <3>4, NoneReturns DEF HandledPhase
    <2> QED
      BY <2>2, <2>3
  <1>3. CASE at.wait = 0 /\ Kind(at) = "write"
    <2>1. Granted(at)
      BY <1>3 DEF Granted, Rest, WriterRest
    <2>2. /\ Last = [access |-> at.access, block |-> "answer", wait |-> sched.write]
          /\ Done /\ Returning = {} /\ Offers("write", Here) /\ ~ Requesting("read")
      BY <1>1, <1>3, <2>1, GrantedThenWait DEF Done
    <2>3. ASSUME Tick, ReturnedRight PROVE HandledPhase' /\ ReturnedRight'
      <3>1. at' = [access |-> at.access, block |-> "answer", wait |-> sched.write - 1]
        BY <1>1, <2>2, <2>3, TickFixes DEF NextCycle
      <3>2. Writing'
        BY <1>1, <1>3, <2>2, <2>3, <3>1, StartWrite DEF Rest, ReaderRest, Here
      <3> QED
        BY <2>2, <2>3, <3>1, <3>2, NoneReturns DEF HandledPhase
    <2> QED
      BY <2>2, <2>3
  <1>4. CASE at.wait = 0 /\ Kind(at) = "read"
    <2>1. Granted(at) /\ ~ Answered(at)
      <3>1. Reads = {at.access}
        BY <1>1, <1>4, OnlyRead DEF Here
      <3>2. reader.ready /\ ~ reader.valid
        BY <1>1, <3>1 DEF Rest, ReaderRest, ReaderNew
      <3> QED
        BY <1>4, <3>2 DEF Granted, Answered
    <2>2. /\ Last = [access |-> at.access, block |-> "answer", wait |-> sched.read]
          /\ Done /\ Returning = {} /\ Offers("read", Here) /\ ~ Requesting("write")
      BY <1>1, <1>4, <2>1, GrantedThenWait DEF Done
    <2>3. ASSUME Tick, ReturnedRight PROVE HandledPhase' /\ ReturnedRight'
      <3>1. at' = [access |-> at.access, block |-> "answer",
                   wait |-> IF sched.read > 0 THEN sched.read - 1 ELSE 0]
        BY <1>1, <2>2, <2>3, TickFixes DEF NextCycle
      <3>2. at'.access = at.access /\ at'.block = "answer" /\ at'.wait <= 2
        BY <1>1, <3>1
      <3>3. Here = program[at.access] /\ program[at.access].kind = "read"
        BY <1>1, <1>4 DEF Here
      <3>4. Reading'
        BY <1>1, <2>2, <2>3, <3>2, <3>3, StartRead DEF Rest
      <3> QED
        BY <2>2, <2>3, <3>2, <3>4, NoneReturns DEF HandledPhase
    <2> QED
      BY <2>2, <2>3
  <1> QED
    BY <1>1, <1>2, <1>3, <1>4

LEMMA FromWriteUnderWay ==
  ASSUME TypeOK, ~ Finished(at), ~ sched.raw, Timely, Writing, WriteUnderWay
  PROVE  Done /\ (Tick /\ ReturnedRight => HandledPhase' /\ ReturnedRight')
  <1>1. /\ at = [access |-> at.access, block |-> "answer", wait |-> at.wait]
        /\ at.wait \in Nat /\ at.access \in 1 .. Len(program) /\ Here.kind = "write"
        /\ Here.addr \in WordAddresses
    BY Position, ProgramTypes DEF Writing, Here
  <1>2. Onward(at) = at
    BY <1>1 DEF Onward, Answered, Writing, WriteUnderWay
  <1>3. Last = at /\ Done /\ Returning = {} /\ \A kind : ~ Requesting(kind)
    BY <1>1, <1>2, Stays DEF Done
  <1>4. ASSUME Tick, ReturnedRight PROVE HandledPhase' /\ ReturnedRight'
    <2>1. at' = NextCycle(at)
      BY <1>3, <1>4, TickFixes
    <2>2. at'.access = at.access /\ at'.block = "answer"
      BY <1>1, <2>1 DEF NextCycle
    <2>3. Kind(at)' = "write" /\ Here' = Here /\ OnBus(Here.addr)' = OnBus(Here.addr)
      BY <1>1, <1>4, <2>2, TickFixes DEF Kind, Here, OnBus
    <2>4. ReaderRest' /\ ReaderNew(at.access)'
      BY <1>3, <1>4, <2>2, ReaderIdles, TickFixes DEF Writing, ReaderRest, ReaderNew
    <2>5. ASSUME WriteQuiet, mem = Memory(at.access - 1) PROVE Writing'
      <3>1. writer' = writer
        BY <1>3, <1>4, <2>5, HandledBusDoes DEF WriterClock, WriteQuiet
      <3>2. mem' = [mem EXCEPT ![Here.addr] = Here.data]
        BY <1>1, <1>4, <2>5, HandledBusDoes, AddressesArrive DEF WriteUnderWay, WriteQuiet
      <3>3. mem' = Memory(at.access)
        BY <1>1, <2>5, <3>2, MemoryStep DEF Here
      <3>4. awready' /\ bvalid'
        BY <1>4, <2>5, HandledBusDoes DEF WriteUnderWay, WriteQuiet
      <3>5. WriteUnderWay'
        BY <1>4, <2>2, <2>3, <3>1, <3>3, <3>4, TickFixes DEF WriteUnderWay
      <3> QED
        BY <2>2, <2>3, <2>4, <3>5 DEF Writing, ReaderNew
    <2>6. ASSUME awready, bvalid, mem = Memory(at.access) PROVE Writing'
      <3>1. writer' = [writer EXCEPT !.ready = TRUE, !.valid = TRUE, !.awvalid = FALSE]
        BY <1>3, <1>4, <2>6, HandledBusDoes DEF WriterClock
      <3>2. writer'.ready /\ ~ writer'.awvalid
        BY <3>1 DEF TypeOK, WriterRegisters
      <3>3. WriteQuiet' /\ mem' = mem
        BY <1>4, <2>6, HandledBusDoes DEF WriteQuiet
      <3>4. WriteDone'
        BY <1>4, <2>2, <2>6, <3>2, <3>3, TickFixes DEF WriteDone, WriterRest
      <3> QED
        BY <2>2, <2>3, <2>4, <3>4 DEF Writing, ReaderNew
    <2>7. Writing'
      BY <2>5, <2>6 DEF WriteUnderWay
    <2> QED
      BY <1>3, <1>4, <2>2, <2>7, NoneReturns DEF HandledPhase
  <1> QED
    BY <1>3, <1>4

\* The call before may still have been a read, whose handler needs a cycle more.
LEMMA NextRests ==
  ASSUME TypeOK, Tick, ~ sched.raw, Timely, at.access \in 1 .. Len(program),
         \A kind : ~ Requesting(kind), WriterRest, ~ reader.arvalid, ReadQuiet,
         ReaderNew(at.access + 1), mem = Memory(at.access),
         at'.access = at.access + 1, at'.block = "request"
  PROVE  Rest'
  <1>1. WriterRest' /\ mem' = mem /\ ReaderRest' /\ (reader.ready => reader'.ready)
    BY WriterIdles, ReaderIdles
  <1>2. (at.access + 1) - 1 = at.access
    OBVIOUS
  <1> QED
    BY <1>1, <1>2, TickFixes DEF Rest, ReaderNew

LEMMA NextStarts ==
  ASSUME TypeOK, Tick, ~ sched.raw, Timely, NEW k \in 1 .. Len(program), k = at.access + 1,
         at.access \in Nat, WriterRest, ~ reader.arvalid, ReadQuiet,
         ReaderNew(k), mem = Memory(at.access),
         program[k].kind = "read" => ReaderRest /\ sched.read <= 3,
         Offers(program[k].kind, program[k]),
         \A kind : Requesting(kind) <=> program[k].kind = kind,
         Last = [access |-> k, block |-> "answer",
                 wait |-> IF program[k].kind = "write" THEN sched.write ELSE sched.read]
  PROVE  HandledPhase' /\ at'.access = k
  <1>1. mem = Memory(k - 1) /\ program[k].kind \in {"read", "write"}
        /\ sched.write \in Nat /\ sched.read \in Nat
    BY ProgramTypes, Position
  <1>2. at' = NextCycle(Last)
    BY TickFixes
  <1>3. at'.access = k /\ at'.block = "answer"
    BY <1>2 DEF NextCycle
  <1>4. CASE program[k].kind = "write"
    <2>1. Writing'
      BY <1>1, <1>3, <1>4, StartWrite
    <2> QED
      BY <1>3, <2>1 DEF HandledPhase
  <1>5. CASE program[k].kind = "read"
    <2>1. at'.wait <= 2
      BY <1>1, <1>2, <1>5 DEF NextCycle
    <2>2. Reading'
      BY <1>1, <1>3, <1>5, <2>1, StartRead
    <2> QED
      BY <1>3, <2>2 DEF HandledPhase
  <1> QED
    BY <1>1, <1>4, <1>5

LEMMA FromWriteDone ==
  ASSUME TypeOK, ~ Finished(at), ~ sched.raw, Timely, Writing, WriteDone
  PROVE  Done /\ (Tick /\ ReturnedRight => HandledPhase' /\ ReturnedRight')
  <1>1. /\ at = [access |-> at.access, block |-> "answer", wait |-> at.wait]
        /\ at.wait \in Nat /\ at.access \in 1 .. Len(program) /\ at.access \in Nat
        /\ Len(program) \in Nat /\ sched.next \in Nat /\ sched.read <= 3
        /\ Kind(at) = "write" /\ WriterRest /\ ReaderRest /\ ~ reader.arvalid /\ ReadQuiet
        /\ ReaderNew(at.access) /\ ReaderNew(at.access + 1) /\ mem = Memory(at.access)
    <2>1. ReaderNew(at.access) => ReaderNew(at.access + 1)
      <3>1. Reads \subseteq Int /\ at.access \in Nat
        BY Position DEF Reads
      <3> QED
        BY <3>1 DEF ReaderNew
    <2>2. sched.read <= 3
      BY DEF Timely
    <2> QED
      BY <2>1, <2>2, Position, ProgramTypes DEF Writing, WriteDone, ReaderRest
  <1>2. CASE at.wait > 0 \/ ~ Answered(at)
    <2>1. Onward(at) = at
      BY <1>1, <1>2 DEF Onward
    <2>2. Last = at /\ Done /\ Returning = {} /\ \A kind : ~ Requesting(kind)
      BY <1>1, <2>1, Stays DEF Done
    <2>3. ASSUME Tick, ReturnedRight PROVE HandledPhase' /\ ReturnedRight'
      <3>1. at' = NextCycle(at)
        BY <2>2, <2>3, TickFixes
      <3>2. at'.access = at.access /\ at'.block = "answer"
        BY <1>1, <3>1 DEF NextCycle
      <3>3. WriterRest' /\ mem' = mem /\ ReaderRest' /\ (reader.ready => reader'.ready)
        BY <1>1, <2>2, <2>3, WriterIdles, ReaderIdles
      <3>4. Kind(at)' = "write"
        BY <1>1, <2>3, <3>2, TickFixes DEF Kind
      <3>5. Writing'
        BY <1>1, <2>3, <3>2, <3>3, <3>4, TickFixes DEF Writing, WriteDone, ReaderNew
      <3> QED
        BY <2>2, <2>3, <3>2, <3>5, NoneReturns DEF HandledPhase
    <2> QED
      BY <2>2, <2>3
  <1>3. CASE at.wait = 0 /\ Answered(at) /\ (sched.next > 0 \/ at.access = Len(program))
    <2>1. /\ Last = [access |-> at.access + 1, block |-> "request", wait |-> sched.next]
          /\ Returning = {} /\ \A p \in Ran : p.block = "answer" => p = at
          /\ \A kind : ~ Requesting(kind)
      BY <1>1, <1>3, AnswerThenWait
    <2>2. Done
      BY <1>1, <2>1 DEF Done
    <2>3. ASSUME Tick, ReturnedRight PROVE HandledPhase' /\ ReturnedRight'
      <3>1. at'.access = at.access + 1 /\ at'.block = "request"
        BY <2>1, <2>3, TickFixes DEF NextCycle
      <3>2. Rest'
        BY <1>1, <2>1, <2>3, <3>1, NextRests
      <3> QED
        BY <1>1, <2>1, <2>3, <3>1, <3>2, NoneReturns DEF HandledPhase
    <2> QED
      BY <2>2, <2>3
  <1>4. CASE at.wait = 0 /\ Answered(at) /\ sched.next = 0 /\ at.access # Len(program)
    <2> DEFINE k == at.access + 1
    <2>1. k \in 1 .. Len(program) /\ k <= Len(program) /\ k = at.access + 1
      BY <1>1, <1>4
    <2>2. program[k].kind \in {"read", "write"}
      BY <2>1, ProgramTypes
    <2> HIDE DEF k
    <2>3. Granted([access |-> k, block |-> "request", wait |-> 0])
      <3>1. program[k].kind = "read" => reader.ready
        <4>1. program[k].kind = "read" => Reads = {k}
          BY <2>1, OnlyRead
        <4> QED
          BY <1>1, <2>1, <4>1 DEF ReaderNew
      <3> QED
        BY <1>1, <2>2, <3>1 DEF Granted, Kind, WriterRest
    <2>4. /\ Last = [access |-> k, block |-> "answer",
                     wait |-> IF program[k].kind = "write" THEN sched.write ELSE sched.read]
          /\ Returning = {} /\ \A p \in Ran : p.block = "answer" => p = at
          /\ \A kind : Requesting(kind) <=> program[k].kind = kind
          /\ Offers(program[k].kind, program[k])
      BY <1>1, <1>4, <2>1, <2>3, AnswerThenRequest
    <2>5. Done
      BY <1>1, <2>4 DEF Done
    <2>6. ASSUME Tick, ReturnedRight PROVE HandledPhase' /\ ReturnedRight'
      <3>1. HandledPhase' /\ at'.access = at.access + 1
        BY <1>1, <2>1, <2>4, <2>6, NextStarts
      <3> QED
        BY <1>1, <2>4, <2>6, <3>1, NoneReturns
    <2> QED
      BY <2>5, <2>6
  <1> QED
    BY <1>1, <1>2, <1>3, <1>4

LEMMA FromReadOffered ==
  ASSUME TypeOK, ~ Finished(at), ~ sched.raw, Timely, Reading, ReadOffered
  PROVE  Done /\ (Tick /\ ReturnedRight => HandledPhase' /\ ReturnedRight')
  <1>1. /\ at = [access |-> at.access, block |-> "answer", wait |-> at.wait]
        /\ at.wait \in 0 .. 2 /\ at.access \in 1 .. Len(program) /\ at.access \in Nat
        /\ Kind(at) = "read" /\ Here.addr \in WordAddresses
    BY Position, ProgramTypes DEF Reading, ReadOffered, Here
  <1>2. Onward(at) = at
    <2>1. ~ Answered(at)
      BY <1>1 DEF Answered, ReadOffered
    <2> QED
      BY <1>1, <2>1 DEF Onward
  <1>3. Last = at /\ Done /\ Returning = {} /\ \A kind : ~ Requesting(kind)
    BY <1>1, <1>2, Stays DEF Done
  <1>4. ASSUME Tick, ReturnedRight PROVE HandledPhase' /\ ReturnedRight'
    <2>1. at' = NextCycle(at)
      BY <1>3, <1>4, TickFixes
    <2>2. at'.access = at.access /\ at'.block = "answer" /\ at'.wait <= 1
      BY <1>1, <2>1 DEF NextCycle
    <2>3. Kind(at)' = "read" /\ Here' = Here
      BY <1>1, <1>4, <2>2, TickFixes DEF Kind, Here
    <2>4. WriterRest' /\ mem' = mem
      BY <1>3, <1>4, WriterIdles DEF Reading
    <2>5. arready' /\ rvalid' /\ rdata' = mem[Here.addr]
      BY <1>1, <1>4, HandledBusDoes, AddressesArrive DEF ReadOffered, ReadQuiet
    <2>6. reader' = [reader EXCEPT !.valid = FALSE, !.arvalid = FALSE]
      BY <1>3, <1>4, HandledBusDoes DEF ReaderClock, ReadOffered, ReadQuiet
    <2>7. ~ reader'.valid /\ ~ reader'.arvalid /\ reader'.rready
      BY <2>6 DEF TypeOK, ReaderRegisters, ReadOffered
    <2>8. ReadAnswered'
      BY <2>2, <2>3, <2>4, <2>5, <2>7 DEF ReadAnswered
    <2>9. Reading'
      BY <1>4, <2>2, <2>3, <2>4, <2>8, TickFixes DEF Reading
    <2> QED
      BY <1>3, <1>4, <2>2, <2>9, NoneReturns DEF HandledPhase
  <1> QED
    BY <1>3, <1>4

LEMMA FromReadAnswered ==
  ASSUME TypeOK, ~ Finished(at), ~ sched.raw, Timely, Reading, ReadAnswered
  PROVE  Done /\ (Tick /\ ReturnedRight => HandledPhase' /\ ReturnedRight')
  <1>1. /\ at = [access |-> at.access, block |-> "answer", wait |-> at.wait]
        /\ at.wait \in 0 .. 1 /\ at.access \in 1 .. Len(program) /\ at.access \in Nat
        /\ Kind(at) = "read"
    BY Position DEF Reading, ReadAnswered
  <1>2. Onward(at) = at
    <2>1. ~ Answered(at)
      BY <1>1 DEF Answered, ReadAnswered
    <2> QED
      BY <1>1, <2>1 DEF Onward
  <1>3. Last = at /\ Done /\ Returning = {} /\ \A kind : ~ Requesting(kind)
    BY <1>1, <1>2, Stays DEF Done
  <1>4. ASSUME Tick, ReturnedRight PROVE HandledPhase' /\ ReturnedRight'
    <2>1. at' = NextCycle(at)
      BY <1>3, <1>4, TickFixes
    <2>2. at'.access = at.access /\ at'.block = "answer" /\ at'.wait = 0
      BY <1>1, <2>1 DEF NextCycle
    <2>3. Kind(at)' = "read" /\ Here' = Here
      BY <1>1, <1>4, <2>2, TickFixes DEF Kind, Here
    <2>4. WriterRest' /\ mem' = mem
      BY <1>3, <1>4, WriterIdles DEF Reading
    <2>5. ReadQuiet'
      BY <1>4, HandledBusDoes DEF ReadAnswered, ReadQuiet
    <2>6. reader' = [reader EXCEPT !.valid = TRUE, !.data = rdata]
      BY <1>3, <1>4, HandledBusDoes DEF ReaderClock, ReadAnswered
    <2>7. reader'.valid /\ ~ reader'.arvalid /\ reader'.data = mem[Here.addr]
      BY <2>6 DEF TypeOK, ReaderRegisters, ReadAnswered
    <2>8. ReadDone'
      BY <2>2, <2>3, <2>4, <2>5, <2>7 DEF ReadDone
    <2>9. Reading'
      BY <1>4, <2>2, <2>3, <2>4, <2>8, TickFixes DEF Reading
    <2> QED
      BY <1>3, <1>4, <2>2, <2>9, NoneReturns DEF HandledPhase
  <1> QED
    BY <1>3, <1>4

LEMMA FromReadDone ==
  ASSUME TypeOK, ~ Finished(at), ~ sched.raw, Timely, Reading, ReadDone
  PROVE  Done /\ (Tick /\ ReturnedRight => HandledPhase' /\ ReturnedRight')
  <1>1. /\ at.wait = 0 /\ at.block = "answer" /\ Kind(at) = "read" /\ Answered(at)
        /\ Answer = mem[Here.addr] /\ at.access \in 1 .. Len(program) /\ at.access \in Nat
        /\ Len(program) \in Nat /\ sched.next \in Nat
        /\ WriterRest /\ ~ reader.arvalid /\ ReadQuiet /\ mem = Memory(at.access)
    BY Position, ProgramTypes DEF Reading, ReadDone, Answered, Answer
  <1>2. Reads = {at.access}
    BY <1>1, OnlyRead DEF Kind
  <1>3. ReaderNew(at.access + 1)
    BY <1>1, <1>2 DEF ReaderNew
  <1>4. CASE sched.next > 0 \/ at.access = Len(program)
    <2>1. /\ Last = [access |-> at.access + 1, block |-> "request", wait |-> sched.next]
          /\ Returning = {at.access} /\ \A p \in Ran : p.block = "answer" => p = at
          /\ \A kind : ~ Requesting(kind)
      BY <1>1, <1>4, AnswerThenWait
    <2>2. Done
      BY <1>1, <2>1 DEF Done
    <2>3. ASSUME Tick, ReturnedRight PROVE HandledPhase' /\ ReturnedRight'
      <3>1. at'.access = at.access + 1 /\ at'.block = "request"
        BY <2>1, <2>3, TickFixes DEF NextCycle
      <3>2. Rest'
        BY <1>1, <1>3, <2>1, <2>3, <3>1, NextRests
      <3> QED
        BY <1>1, <2>1, <2>3, <3>1, <3>2, OneReturns DEF HandledPhase
    <2> QED
      BY <2>2, <2>3
  <1>5. CASE sched.next = 0 /\ at.access # Len(program)
    <2> DEFINE k == at.access + 1
    <2>1. k \in 1 .. Len(program) /\ k <= Len(program) /\ k = at.access + 1 /\ k \notin Reads
      BY <1>1, <1>2, <1>5
    <2>2. program[k].kind = "write"
      BY <2>1, ProgramTypes DEF Reads
    <2> HIDE DEF k
    <2>3. Granted([access |-> k, block |-> "request", wait |-> 0])
      BY <1>1, <2>2 DEF Granted, Kind, WriterRest
    <2>4. /\ Last = [access |-> k, block |-> "answer",
                     wait |-> IF program[k].kind = "write" THEN sched.write ELSE sched.read]
          /\ Returning = {at.access} /\ \A p \in Ran : p.block = "answer" => p = at
          /\ \A kind : Requesting(kind) <=> program[k].kind = kind
          /\ Offers(program[k].kind, program[k])
      BY <1>1, <1>5, <2>1, <2>3, AnswerThenRequest
    <2>5. Done
      BY <1>1, <2>4 DEF Done
    <2>6. ASSUME Tick, ReturnedRight PROVE HandledPhase' /\ ReturnedRight'
      <3>1. HandledPhase' /\ at'.access = at.access + 1
        BY <1>1, <1>3, <2>1, <2>2, <2>4, <2>6, NextStarts
      <3> QED
        BY <1>1, <2>4, <2>6, <3>1, OneReturns
    <2> QED
      BY <2>5, <2>6
  <1> QED
    BY <1>1, <1>4, <1>5

-----------------------------------------------------------------------------
LEMMA InvAtFirst == Init => Inv
  <1> SUFFICES ASSUME Init PROVE Inv
    OBVIOUS
  <1>1. TypeOK
    <2>1. program \in Seq(Access) /\ Len(program) \in Nat
      BY ProgramAssumption DEF Init
    <2>2. at \in Positions
      BY <2>1 DEF Init, Positions
    <2>3. mem \in [WordAddresses -> Data] /\ rdata \in Data
      BY RamAssumption DEF Init, RamInit
    <2>4. writer \in WriterRegisters /\ reader \in ReaderRegisters
      BY RamAssumption, WordsOfTheBus DEF Init, WriterRegisters, ReaderRegisters
    <2> QED
      BY <2>2, <2>3, <2>4 DEF Init, RamInit, TypeOK
  <1>2. ReturnedRight
    BY DEF Init, ReturnedRight, Reads
  <1>3. at.block = "request" /\ at.access = 1 /\ WriteQuiet /\ ReadQuiet
    BY DEF Init, RamInit, WriteQuiet, ReadQuiet
  <1>4. mem = Memory(at.access - 1)
    <2>1. \A i \in 1 .. 0 : FALSE
      OBVIOUS
    <2>2. mem = Memory(0)
      BY <2>1 DEF Init, RamInit, Memory
    <2> QED
      BY <1>3, <2>2
  <1>5. RawPhase
    BY <1>3, <1>4 DEF RawPhase, RawRest
  <1>6. Rest
    BY <1>3, <1>4 DEF Init, Rest, WriterRest, ReaderRest, ReaderNew
  <1> QED
    BY <1>1, <1>2, <1>5, <1>6 DEF Inv, HandledPhase

LEMMA InvDone ==
  ASSUME Inv, Timely
  PROVE  Done /\ (Tick => Inv')
  <1>1. CASE Finished(at)
    <2>1. Ran = {} /\ ~ Tick
      BY <1>1 DEF Ran, Second, Onward, Tick
    <2> QED
      BY <2>1 DEF Done
  <1>2. CASE ~ Finished(at) /\ sched.raw
    <2>1. TypeOK /\ ReturnedRight /\ (RawRest \/ RawWritten \/ RawRead)
      BY <1>2 DEF Inv, RawPhase
    <2>2. Done /\ (Tick => RawPhase' /\ ReturnedRight')
      BY <1>2, <2>1, FromRawRest, FromRawWritten, FromRawRead
    <2> QED
      BY <1>2, <2>1, <2>2, TickKeepsTypes, TickFixes DEF Inv
  <1>3. CASE ~ Finished(at) /\ ~ sched.raw
    <2>1. TypeOK /\ ReturnedRight /\ (Rest \/ Writing \/ Reading)
      BY <1>3 DEF Inv, HandledPhase
    <2>2. CASE Rest
      BY <1>3, <2>1, <2>2, FromRest, TickKeepsTypes, TickFixes DEF Inv
    <2>3. CASE Writing
      <3>1. WriteUnderWay \/ WriteDone
        BY <2>3 DEF Writing
      <3>2. Done /\ (Tick => HandledPhase' /\ ReturnedRight')
        BY <1>3, <2>1, <2>3, <3>1, FromWriteUnderWay, FromWriteDone
      <3> QED
        BY <1>3, <2>1, <3>2, TickKeepsTypes, TickFixes DEF Inv
    <2>4. CASE Reading
      <3>1. ReadOffered \/ ReadAnswered \/ ReadDone
        BY <2>4 DEF Reading
      <3>2. Done /\ (Tick => HandledPhase' /\ ReturnedRight')
        BY <1>3, <2>1, <2>4, <3>1, FromReadOffered, FromReadAnswered, FromReadDone
      <3> QED
        BY <1>3, <2>1, <3>2, TickKeepsTypes, TickFixes DEF Inv
    <2> QED
      BY <2>1, <2>2, <2>3, <2>4
  <1> QED
    BY <1>1, <1>2, <1>3

LEMMA InvStutter ==
  ASSUME Inv, UNCHANGED vars PROVE Inv'
  <1>1. /\ UNCHANGED <<program, sched, at, writer, reader, returned>>
        /\ UNCHANGED <<mem, awready, bvalid, arready, rvalid, rdata>>
    BY DEF vars, ramVars
  <1>2. /\ (TypeOK' <=> TypeOK) /\ (Timely' <=> Timely) /\ (ReturnedRight' <=> ReturnedRight)
    <2>1. Reads' = Reads /\ \A k : Memory(k)' = Memory(k)
      BY <1>1 DEF Reads, Memory
    <2> QED
      BY <1>1, <2>1 DEF TypeOK, Positions, WriterRegisters, ReaderRegisters, Finished,
                        Timely, ReturnedRight
  <1>3. (RawPhase' <=> RawPhase) /\ (HandledPhase' <=> HandledPhase)
    <2>1. /\ \A k : Memory(k)' = Memory(k)
          /\ Here' = Here /\ Kind(at)' = Kind(at) /\ (Finished(at)' <=> Finished(at))
          /\ (WriteQuiet' <=> WriteQuiet) /\ (ReadQuiet' <=> ReadQuiet) /\ Reads' = Reads
      BY <1>1 DEF Reads, Memory, Here, Kind, Finished, WriteQuiet, ReadQuiet
    <2>2. RawPhase' <=> RawPhase
      BY <1>1, <2>1 DEF RawPhase, RawRest, RawWritten, RawRead
    <2>3. Rest' <=> Rest
      BY <1>1, <2>1 DEF Rest, WriterRest, ReaderRest, ReaderNew
    <2>4. Writing' <=> Writing
      <3>1. OnBus(Here.addr)' = OnBus(Here.addr)
        BY <2>1 DEF OnBus
      <3> QED
        BY <1>1, <2>1, <3>1
           DEF Writing, WriteUnderWay, WriteDone, WriterRest, ReaderRest, ReaderNew
    <2>5. Reading' <=> Reading
      <3>1. OnBus(Here.addr)' = OnBus(Here.addr)
        BY <2>1 DEF OnBus
      <3> QED
        BY <1>1, <2>1, <3>1
           DEF Reading, ReadOffered, ReadAnswered, ReadDone, WriterRest
    <2> QED
      BY <2>2, <2>3, <2>4, <2>5 DEF HandledPhase
  <1> QED
    BY <1>1, <1>2, <1>3 DEF Inv

LEMMA Invariance == Spec => []Inv
  <1>1. Inv /\ [Next]_vars => Inv'
    <2> SUFFICES ASSUME Inv, [Next]_vars PROVE Inv'
      OBVIOUS
    <2>1. CASE Tick /\ Timely
      BY <2>1, InvDone
    <2>2. CASE Tick /\ ~ Timely
      BY <2>2, TickKeepsTypes, TickFixes DEF Inv
    <2>3. CASE UNCHANGED vars
      BY <2>3, InvStutter
    <2> QED
      BY <2>1, <2>2, <2>3 DEF Next
  <1> QED
    BY <1>1, InvAtFirst, PTL DEF Spec

-----------------------------------------------------------------------------
(* The registers of the bus and the handlers keep their types, whatever    *)
(* the schedule: no address leaves the memory.                             *)
THEOREM TypesCorrect == Spec => []TypeOK
  <1>1. Inv => TypeOK
    BY DEF Inv
  <1> QED
    BY <1>1, Invariance, PTL

(* A call returns when its effect is there, in every program and for every *)
(* spacing that Timely names.                                              *)
THEOREM CallsAreDone == Spec => []WritesAreDone
  <1>1. Inv => WritesAreDone
    BY InvDone DEF WritesAreDone, Done
  <1> QED
    BY <1>1, Invariance, PTL

(* Every read returns what was written last, as soon as its call is over.  *)
THEOREM ReadsRight == Spec => []ReadsAsWritten
  <1>1. Inv => ReadsAsWritten
    BY DEF Inv, ReturnedRight, ReadsAsWritten
  <1> QED
    BY <1>1, Invariance, PTL
=============================================================================
