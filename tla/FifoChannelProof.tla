--------------------------- MODULE FifoChannelProof ---------------------------
(***************************************************************************)
(* Proofs about two generated tasks and the fifo between them, for every   *)
(* depth, every set of words and every schedule of the calls: the clients  *)
(* keep the promise the fifo asks of them, and no word is lost.            *)
(***************************************************************************)
EXTENDS FifoChannel, SequenceTheorems, TLAPS

-----------------------------------------------------------------------------
(* The fifo.                                                               *)

(* The addresses wrap at DEPTH, whether or not it is a power of two: the   *)
(* cut to the register's width never shows.                                *)
LEMMA NextAddrWraps ==
  ASSUME NEW a \in 0 .. DEPTH - 1
  PROVE  /\ NextAddr(a) = IF a + 1 = DEPTH THEN 0 ELSE a + 1
         /\ NextAddr(a) \in 0 .. DEPTH - 1
  <1>1. a + 1 # DEPTH => a + 1 \in 0 .. AddrRange - 1
    BY DepthAssumption
  <1>2. \A k \in 0 .. AddrRange - 1 : k % AddrRange = k
    BY DepthAssumption
  <1> QED
    BY <1>1, <1>2, DepthAssumption DEF NextAddr

(* The occupancy is a count of slots; it is 0 only when the flag says so   *)
(* and DEPTH exactly when full.                                            *)
LEMMA OccupancyRange ==
  ASSUME TypeOK
  PROVE  /\ Occupancy \in 0 .. DEPTH
         /\ empty <=> Occupancy = 0
         /\ full <=> Occupancy = DEPTH
  BY DepthAssumption DEF TypeOK, Occupancy, full

LEMMA SlotRange ==
  ASSUME TypeOK, NEW i \in 0 .. DEPTH
  PROVE  /\ Slot(i) \in 0 .. DEPTH - 1
         /\ Slot(i) = IF read_addr + i < DEPTH THEN read_addr + i
                                               ELSE read_addr + i - DEPTH
  BY DepthAssumption DEF TypeOK, Slot

(* The next free slot is the one after the last word, and no other.        *)
LEMMA WriteSlot ==
  ASSUME TypeOK, EmptyMeansMet, ~full
  PROVE  /\ Slot(Occupancy) = write_addr
         /\ \A i \in 0 .. Occupancy - 1 : Slot(i) # write_addr
  BY DepthAssumption DEF TypeOK, EmptyMeansMet, full, Occupancy, Slot

(* Every edge keeps the types.                                             *)
LEMMA StepTypeOK ==
  ASSUME TypeOK, [Next]_vars
  PROVE  TypeOK'
  <1>1. ASSUME NEW rv \in BOOLEAN, NEW wv \in BOOLEAN, NEW d \in Data,
               Clock(rv, wv, d)
        PROVE  TypeOK'
    <2>1. /\ NextAddr(read_addr) \in 0 .. DEPTH - 1
          /\ NextAddr(write_addr) \in 0 .. DEPTH - 1
      BY NextAddrWraps DEF TypeOK
    <2>2. ram' \in [0 .. DEPTH - 1 -> Data \cup {X}]
      BY <1>1 DEF Clock, Drained, TypeOK
    <2>3. out_data_reg' \in Data \cup {X}
      BY <1>1 DEF Clock, Drained, LatchOutput, TypeOK
    <2>4. empty' \in BOOLEAN
      BY <1>1 DEF Clock, Drained, TypeOK
    <2> QED
      BY <1>1, <2>1, <2>2, <2>3, <2>4 DEF Clock, Drained, TypeOK
  <1>2. ASSUME NEW rv \in BOOLEAN, Reset(rv)
        PROVE  TypeOK'
    BY <1>2, DepthAssumption DEF Reset, LatchOutput, TypeOK
  <1>3. CASE UNCHANGED vars
    BY <1>3 DEF vars, TypeOK
  <1> QED
    BY <1>1, <1>2, <1>3 DEF Next, Read, Write, Both
-----------------------------------------------------------------------------
(* The inductive invariant: an empty fifo has its addresses together, and  *)
(* the slots between the addresses have been written.                      *)
IInv == TypeOK /\ EmptyMeansMet /\ NoUnknownInside

(* A sequence is the function from its positions to its elements.          *)
LEMMA SeqIsFunction ==
  ASSUME NEW S, NEW s \in Seq(S), NEW n \in Nat, Len(s) = n
  PROVE  s = [i \in 1 .. n |-> s[i]]
  OBVIOUS

(* The contents as a sequence of words.                                    *)
LEMMA ContentsSeq ==
  ASSUME IInv
  PROVE  /\ Contents \in Seq(Data)
         /\ Len(Contents) = Occupancy
         /\ \A i \in 1 .. Occupancy : Contents[i] = ram[Slot(i - 1)]
  <1>1. Occupancy \in Nat
    BY OccupancyRange, DepthAssumption DEF IInv
  <1>2. \A i \in 1 .. Occupancy : Contents[i] \in Data
    BY DEF IInv, NoUnknownInside
  <1> QED
    BY <1>1, <1>2 DEF Contents

(* A legal write appends its word.                                         *)
LEMMA WriteAppends ==
  ASSUME IInv, NEW d \in Data, Write(d)
  PROVE  /\ IInv'
         /\ Len(Contents) < DEPTH
         /\ Contents' = Append(Contents, d)
         /\ out_data_reg' = out_data_reg
  <1>1. /\ TypeOK /\ EmptyMeansMet /\ NoUnknownInside /\ ~full
        /\ TypeOK'
    BY StepTypeOK DEF IInv, Write, write_ready, Next
  <1>2. /\ ram' = [ram EXCEPT ![write_addr] = d]
        /\ write_addr' = NextAddr(write_addr)
        /\ read_addr' = read_addr
        /\ empty' = FALSE
        /\ out_data_reg' = out_data_reg
    BY <1>1 DEF Write, Clock, Drained, LatchOutput, write_ready
  <1>3. /\ write_addr \in 0 .. DEPTH - 1
        /\ read_addr \in 0 .. DEPTH - 1
        /\ NextAddr(write_addr) =
             IF write_addr + 1 = DEPTH THEN 0 ELSE write_addr + 1
        /\ ram \in [0 .. DEPTH - 1 -> Data \cup {X}]
    BY <1>1, NextAddrWraps DEF TypeOK
  <1>4. /\ Occupancy \in 0 .. DEPTH - 1
        /\ Occupancy' = Occupancy + 1
    BY <1>1, <1>2, <1>3, DepthAssumption
       DEF Occupancy, full, EmptyMeansMet, TypeOK
  <1>5. \A i : Slot(i)' = Slot(i)
    BY <1>2 DEF Slot
  <1>6. /\ \A i \in 0 .. Occupancy - 1 :
             Slot(i) \in 0 .. DEPTH - 1 /\ Slot(i) # write_addr
        /\ Slot(Occupancy) = write_addr
    BY <1>1, <1>4, WriteSlot, SlotRange, DepthAssumption
  <1>7. /\ \A i \in 0 .. Occupancy - 1 : ram'[Slot(i)] = ram[Slot(i)]
        /\ ram'[Slot(Occupancy)] = d
    BY <1>2, <1>3, <1>6
  <1> DEFINE n == Occupancy
             new == [i \in 1 .. n + 1 |-> ram'[Slot(i - 1)]]
  <1>8. Contents' = new
    BY <1>4, <1>5 DEF Contents
  <1>9. /\ Contents \in Seq(Data)
        /\ Len(Contents) = n
        /\ \A i \in 1 .. n : Contents[i] = ram[Slot(i - 1)]
    BY ContentsSeq
  <1>10. n \in Nat
    BY <1>4, DepthAssumption
  <1>11. \A i \in 1 .. n : ram'[Slot(i - 1)] = Contents[i]
    <2>1. ASSUME NEW i \in 1 .. n PROVE ram'[Slot(i - 1)] = Contents[i]
      <3>1. i - 1 \in 0 .. n - 1
        BY <1>10
      <3> QED
        BY <1>7, <1>9, <3>1
    <2> QED
      BY <2>1
  <1>12. ram'[Slot((n + 1) - 1)] = d
    <2>1. (n + 1) - 1 = n
      BY <1>10
    <2> QED
      BY <1>7, <2>1
  <1> HIDE DEF n
  <1>13. new = Append(Contents, d)
    <2> DEFINE longer == Append(Contents, d)
    <2>1. longer \in Seq(Data) /\ Len(longer) = n + 1
      BY <1>9
    <2>2. n + 1 \in Nat
      BY <1>10
    <2>3. ASSUME NEW i \in 1 .. n + 1 PROVE ram'[Slot(i - 1)] = longer[i]
      <3>1. CASE i = n + 1
        BY <1>9, <1>10, <1>12, <3>1
      <3>2. CASE i \in 1 .. n
        BY <1>9, <1>10, <1>11, <3>2
      <3>3. i = n + 1 \/ i \in 1 .. n
        BY <1>10
      <3> QED
        BY <3>1, <3>2, <3>3
    <2> HIDE DEF longer
    <2>4. longer = [i \in 1 .. n + 1 |-> longer[i]]
      BY <2>1, <2>2, SeqIsFunction
    <2>5. new = [i \in 1 .. n + 1 |-> longer[i]]
      BY <2>3
    <2> HIDE DEF new
    <2> QED
      BY <2>4, <2>5 DEF longer
  <1>14. Append(Contents, d) \in Seq(Data)
    BY <1>9
  <1>15. NoUnknownInside'
    <2>1. Occupancy' = n + 1
      BY <1>4 DEF n
    <2>2. \A i \in 1 .. n + 1 : Append(Contents, d)[i] \in Data
      BY <1>9, <1>10
    <2> QED
      BY <1>8, <1>13, <2>1, <2>2 DEF NoUnknownInside
  <1>16. EmptyMeansMet'
    BY <1>2 DEF EmptyMeansMet
  <1>17. Len(Contents) < DEPTH
    BY <1>4, <1>9, DepthAssumption DEF n
  <1> QED
    BY <1>1, <1>2, <1>8, <1>13, <1>15, <1>16, <1>17 DEF IInv

(* A legal read takes the head into the output register.                   *)
LEMMA ReadTakesHead ==
  ASSUME IInv, Read
  PROVE  /\ IInv'
         /\ Contents # <<>>
         /\ Contents' = Tail(Contents)
         /\ out_data_reg' = Head(Contents)
  <1>1. /\ TypeOK /\ EmptyMeansMet /\ NoUnknownInside /\ ~empty
        /\ TypeOK'
    BY StepTypeOK DEF IInv, Read, read_ready, Next
  <1>2. /\ ram' = ram
        /\ write_addr' = write_addr
        /\ read_addr' = NextAddr(read_addr)
        /\ empty' = (NextAddr(read_addr) = write_addr)
        /\ out_data_reg' = ram[read_addr]
    BY <1>1 DEF Read, Clock, Drained, LatchOutput, read_ready, TypeOK
  <1>3. /\ write_addr \in 0 .. DEPTH - 1
        /\ read_addr \in 0 .. DEPTH - 1
        /\ NextAddr(read_addr) =
             IF read_addr + 1 = DEPTH THEN 0 ELSE read_addr + 1
    BY <1>1, NextAddrWraps DEF TypeOK
  <1>4. /\ Occupancy \in 1 .. DEPTH
        /\ Occupancy' = Occupancy - 1
    <2>1. Occupancy = IF read_addr < write_addr
                        THEN write_addr - read_addr
                        ELSE DEPTH - read_addr + write_addr
      BY <1>1 DEF Occupancy
    <2>2. Occupancy' = IF NextAddr(read_addr) = write_addr THEN 0
                       ELSE IF NextAddr(read_addr) < write_addr
                         THEN write_addr - NextAddr(read_addr)
                         ELSE DEPTH - NextAddr(read_addr) + write_addr
      BY <1>2 DEF Occupancy
    <2> QED
      BY <1>3, <2>1, <2>2, DepthAssumption
  <1> DEFINE n == Occupancy
             new == [i \in 1 .. n - 1 |-> ram[Slot(i)]]
  <1>5. ASSUME NEW i \in 1 .. n - 1
        PROVE  Slot(i - 1)' = Slot(i)
    <2>1. Slot(i - 1)' = IF NextAddr(read_addr) + (i - 1) < DEPTH
                           THEN NextAddr(read_addr) + (i - 1)
                           ELSE NextAddr(read_addr) + (i - 1) - DEPTH
      BY <1>2 DEF Slot
    <2> HIDE DEF n
    <2>2. i \in 1 .. DEPTH - 1
      BY <1>4, DepthAssumption DEF n
    <2> QED
      BY <1>3, <2>1, <2>2, DepthAssumption DEF Slot
  <1>6. Contents' = new
    BY <1>2, <1>4, <1>5 DEF Contents
  <1>7. /\ Contents \in Seq(Data)
        /\ Len(Contents) = n
        /\ \A i \in 1 .. n : Contents[i] = ram[Slot(i - 1)]
    BY ContentsSeq
  <1>8. n \in Nat /\ n > 0
    BY <1>4, DepthAssumption
  <1>9. Slot(0) = read_addr
    BY <1>3, DepthAssumption DEF Slot
  <1> HIDE DEF n
  <1>10. \A i \in 1 .. n - 1 : Contents[i + 1] = ram[Slot(i)]
    <2>1. ASSUME NEW i \in 1 .. n - 1
          PROVE  Contents[i + 1] = ram[Slot(i)]
      <3>1. i + 1 \in 1 .. n /\ (i + 1) - 1 = i
        BY <1>8
      <3> QED
        BY <1>7, <3>1
    <2> QED
      BY <2>1
  <1>11. Contents # <<>> /\ Head(Contents) = ram[read_addr]
    <2>1. 1 \in 1 .. n /\ 1 - 1 = 0
      BY <1>8
    <2>2. Contents[1] = ram[read_addr]
      BY <1>7, <1>9, <2>1
    <2> QED
      BY <1>7, <1>8, <2>2
  <1>12. new = Tail(Contents)
    <2> DEFINE shorter == Tail(Contents)
    <2>1. shorter \in Seq(Data) /\ Len(shorter) = n - 1
      BY <1>7, <1>11
    <2>2. n - 1 \in Nat
      BY <1>8
    <2>3. \A i \in 1 .. n - 1 : ram[Slot(i)] = shorter[i]
      BY <1>7, <1>8, <1>10, <1>11
    <2> HIDE DEF shorter
    <2>4. shorter = [i \in 1 .. n - 1 |-> shorter[i]]
      BY <2>1, <2>2, SeqIsFunction
    <2>5. new = [i \in 1 .. n - 1 |-> shorter[i]]
      BY <2>3
    <2> HIDE DEF new
    <2> QED
      BY <2>4, <2>5 DEF shorter
  <1>13. NoUnknownInside'
    <2>1. Occupancy' = n - 1
      BY <1>4 DEF n
    <2>2. \A i \in 1 .. n - 1 : Contents[i + 1] \in Data
      BY <1>7, <1>8
    <2> QED
      BY <1>6, <1>10, <2>1, <2>2 DEF NoUnknownInside
  <1>14. EmptyMeansMet'
    BY <1>2 DEF EmptyMeansMet
  <1> QED
    BY <1>1, <1>2, <1>6, <1>11, <1>12, <1>13, <1>14 DEF IInv

(* A read and a write in one edge do both: the queue is neither empty nor  *)
(* full, so the two touch different slots.                                 *)
LEMMA BothMoves ==
  ASSUME IInv, NEW d \in Data, Both(d)
  PROVE  /\ IInv'
         /\ Contents # <<>>
         /\ Len(Contents) < DEPTH
         /\ Contents' = Append(Tail(Contents), d)
         /\ out_data_reg' = Head(Contents)
  <1>1. /\ TypeOK /\ EmptyMeansMet /\ NoUnknownInside /\ ~empty /\ ~full
        /\ TypeOK'
    BY StepTypeOK DEF IInv, Both, read_ready, write_ready, Next
  <1>2. /\ ram' = [ram EXCEPT ![write_addr] = d]
        /\ write_addr' = NextAddr(write_addr)
        /\ read_addr' = NextAddr(read_addr)
        /\ empty' = FALSE
        /\ out_data_reg' = ram[read_addr]
    BY <1>1 DEF Both, Clock, Drained, LatchOutput, read_ready, write_ready, TypeOK
  <1>3. /\ write_addr \in 0 .. DEPTH - 1
        /\ read_addr \in 0 .. DEPTH - 1
        /\ read_addr # write_addr
        /\ NextAddr(read_addr) =
             IF read_addr + 1 = DEPTH THEN 0 ELSE read_addr + 1
        /\ NextAddr(write_addr) =
             IF write_addr + 1 = DEPTH THEN 0 ELSE write_addr + 1
        /\ ram \in [0 .. DEPTH - 1 -> Data \cup {X}]
    BY <1>1, NextAddrWraps DEF TypeOK, full
  <1>4. /\ Occupancy \in 1 .. DEPTH - 1
        /\ Occupancy' = Occupancy
    <2>1. Occupancy = IF read_addr < write_addr
                        THEN write_addr - read_addr
                        ELSE DEPTH - read_addr + write_addr
      BY <1>1 DEF Occupancy
    <2>2. Occupancy' = IF NextAddr(read_addr) < NextAddr(write_addr)
                         THEN NextAddr(write_addr) - NextAddr(read_addr)
                         ELSE DEPTH - NextAddr(read_addr) + NextAddr(write_addr)
      BY <1>2 DEF Occupancy
    <2> QED
      BY <1>3, <2>1, <2>2, DepthAssumption
  <1> DEFINE n == Occupancy
             new == [i \in 1 .. n |-> ram'[Slot(i)]]
  <1>5. ASSUME NEW i \in 1 .. n
        PROVE  Slot(i - 1)' = Slot(i)
    <2>1. Slot(i - 1)' = IF NextAddr(read_addr) + (i - 1) < DEPTH
                           THEN NextAddr(read_addr) + (i - 1)
                           ELSE NextAddr(read_addr) + (i - 1) - DEPTH
      BY <1>2 DEF Slot
    <2> HIDE DEF n
    <2>2. i \in 1 .. DEPTH - 1
      BY <1>4, DepthAssumption DEF n
    <2> QED
      BY <1>3, <2>1, <2>2, DepthAssumption DEF Slot
  <1>6. Contents' = new
    BY <1>2, <1>4, <1>5 DEF Contents
  <1>7. /\ Contents \in Seq(Data)
        /\ Len(Contents) = n
        /\ \A i \in 1 .. n : Contents[i] = ram[Slot(i - 1)]
    BY ContentsSeq
  <1>8. n \in Nat /\ n > 0 /\ n < DEPTH
    BY <1>4, DepthAssumption
  <1>9. Slot(0) = read_addr
    BY <1>3, DepthAssumption DEF Slot
  <1>10. /\ \A i \in 0 .. n - 1 :
              Slot(i) \in 0 .. DEPTH - 1 /\ Slot(i) # write_addr
         /\ Slot(n) = write_addr
    BY <1>1, <1>4, WriteSlot, SlotRange, DepthAssumption
  <1> HIDE DEF n
  <1>11. \A i \in 1 .. n - 1 : ram'[Slot(i)] = Contents[i + 1]
    <2>1. ASSUME NEW i \in 1 .. n - 1
          PROVE  ram'[Slot(i)] = Contents[i + 1]
      <3>1. i + 1 \in 1 .. n /\ (i + 1) - 1 = i /\ i \in 0 .. n - 1
        BY <1>8
      <3>2. Contents[i + 1] = ram[Slot(i)]
        BY <1>7, <3>1
      <3>3. Slot(i) \in 0 .. DEPTH - 1 /\ Slot(i) # write_addr
        BY <1>10, <3>1
      <3> QED
        BY <1>2, <1>3, <3>2, <3>3
    <2> QED
      BY <2>1
  <1>12. ram'[Slot(n)] = d
    BY <1>2, <1>3, <1>10
  <1>13. Contents # <<>> /\ Head(Contents) = ram[read_addr]
    <2>1. 1 \in 1 .. n /\ 1 - 1 = 0
      BY <1>8
    <2>2. Contents[1] = ram[read_addr]
      BY <1>7, <1>9, <2>1
    <2> QED
      BY <1>7, <1>8, <2>2
  <1> DEFINE rest  == Tail(Contents)
             moved == Append(rest, d)
  <1>14. /\ rest \in Seq(Data)
         /\ Len(rest) = n - 1
         /\ \A i \in 1 .. n - 1 : rest[i] = Contents[i + 1]
    BY <1>7, <1>8, <1>13
  <1> HIDE DEF rest
  <1>15. /\ moved \in Seq(Data)
         /\ Len(moved) = n
         /\ \A i \in 1 .. n - 1 : moved[i] = rest[i]
         /\ moved[n] = d
    BY <1>8, <1>14
  <1> HIDE DEF moved
  <1>16. \A i \in 1 .. n : ram'[Slot(i)] = moved[i]
    <2>1. ASSUME NEW i \in 1 .. n PROVE ram'[Slot(i)] = moved[i]
      <3>1. CASE i = n
        BY <1>12, <1>15, <3>1
      <3>2. CASE i \in 1 .. n - 1
        BY <1>11, <1>14, <1>15, <3>2
      <3>3. i = n \/ i \in 1 .. n - 1
        BY <1>8
      <3> QED
        BY <3>1, <3>2, <3>3
    <2> QED
      BY <2>1
  <1>17. new = [i \in 1 .. n |-> moved[i]]
    BY <1>16
  <1> HIDE DEF new
  <1>18. new = moved
    <2>1. moved = [i \in 1 .. n |-> moved[i]]
      BY <1>8, <1>15, SeqIsFunction
    <2> QED
      BY <1>17, <2>1
  <1>19. NoUnknownInside'
    <2>1. Occupancy' = n
      BY <1>4 DEF n
    <2>2. \A i \in 1 .. n : moved[i] \in Data
      BY <1>8, <1>15
    <2> QED
      BY <1>6, <1>18, <2>1, <2>2 DEF NoUnknownInside
  <1>20. EmptyMeansMet'
    BY <1>2 DEF EmptyMeansMet
  <1>21. Contents' = Append(Tail(Contents), d)
    BY <1>6, <1>18 DEF moved, rest
  <1> QED
    BY <1>1, <1>2, <1>7, <1>8, <1>13, <1>19, <1>20, <1>21 DEF IInv

(* A reset empties the queue; the output register may take the head.       *)
LEMMA ResetEmpties ==
  ASSUME IInv, NEW rv \in BOOLEAN, Reset(rv)
  PROVE  /\ IInv'
         /\ Contents' = <<>>
         /\ \/ out_data_reg' = out_data_reg
            \/ Contents # <<>> /\ out_data_reg' = Head(Contents)
  <1>1. TypeOK /\ TypeOK'
    BY StepTypeOK DEF IInv, Next
  <1>2. empty' = TRUE /\ write_addr' = 0 /\ read_addr' = 0
    BY DEF Reset
  <1>3. Occupancy' = 0
    BY <1>2 DEF Occupancy
  <1>4. Contents' = <<>> /\ NoUnknownInside' /\ EmptyMeansMet'
    BY <1>2, <1>3 DEF Contents, NoUnknownInside, EmptyMeansMet
  <1>5. CASE out_data_reg' # out_data_reg
    <2>1. ~empty /\ out_data_reg' = ram[read_addr]
      BY <1>5 DEF Reset, LatchOutput, read_ready
    <2>2. Occupancy \in 1 .. DEPTH
      BY <1>1, <2>1, OccupancyRange, DepthAssumption
    <2>3. Slot(0) = read_addr
      BY <1>1, DepthAssumption DEF Slot, TypeOK
    <2>4. /\ Contents \in Seq(Data)
          /\ Len(Contents) = Occupancy
          /\ \A i \in 1 .. Occupancy : Contents[i] = ram[Slot(i - 1)]
      BY ContentsSeq
    <2>5. 1 \in 1 .. Occupancy /\ 1 - 1 = 0
      BY <2>2, DepthAssumption
    <2>6. Contents[1] = ram[read_addr]
      BY <2>3, <2>4, <2>5
    <2> QED
      BY <1>1, <1>4, <2>1, <2>2, <2>4, <2>6, DepthAssumption DEF IInv
  <1> QED
    BY <1>1, <1>4, <1>5 DEF IInv

LEMMA IInvInit == Init => IInv
  BY DepthAssumption
     DEF Init, IInv, TypeOK, EmptyMeansMet, NoUnknownInside, Occupancy

LEMMA IInvStutter ==
  ASSUME IInv, UNCHANGED vars
  PROVE  IInv' /\ UNCHANGED <<Contents, out_data_reg>>
  <1>1. UNCHANGED <<ram, empty, write_addr, read_addr, out_data_reg>>
    BY DEF vars
  <1>2. Contents' = Contents /\ Occupancy' = Occupancy
    BY <1>1 DEF Contents, Occupancy, Slot
  <1> QED
    BY <1>1, <1>2 DEF IInv, TypeOK, EmptyMeansMet, NoUnknownInside

LEMMA InductiveStep ==
  ASSUME IInv, [Next]_vars
  PROVE  IInv'
  BY WriteAppends, ReadTakesHead, BothMoves, ResetEmpties, IInvStutter DEF Next

LEMMA InductiveIInv == Spec => []IInv
  <1>1. IInv /\ [Next]_vars => IInv'
    BY InductiveStep
  <1> QED
    BY IInvInit, <1>1, PTL DEF Spec

(* At every depth the addresses stay inside the memory, whether or not     *)
(* DEPTH is a power of two.                                                *)
THEOREM TypeCorrect == Spec => []TypeOK
  <1>1. IInv => TypeOK
    BY DEF IInv
  <1> QED
    BY InductiveIInv, <1>1, PTL

(* At every depth no slot between the addresses is unwritten: an unknown   *)
(* value never reaches the output of a fifo whose clients wait for ready.  *)
THEOREM UnknownNeverInside == Spec => []NoUnknownInside
  <1>1. IInv => NoUnknownInside
    BY DEF IInv
  <1> QED
    BY InductiveIInv, <1>1, PTL

(* The empty flag is only up when the addresses have met.                  *)
THEOREM EmptyCorrect == Spec => []EmptyMeansMet
  <1>1. IInv => EmptyMeansMet
    BY DEF IInv
  <1> QED
    BY InductiveIInv, <1>1, PTL

(* At every depth, for every set of words, the two addresses, the flag and *)
(* the memory implement the bounded queue with a registered output.        *)
THEOREM FifoImplementsQueue == Spec => ImplementsQueue
  <1>1. Init => Queue!Init
    BY DEF Init, Queue!Init, Contents, Occupancy
  <1>2. IInv /\ [Next]_vars => [Queue!Next]_(Queue!vars)
    <2> SUFFICES ASSUME IInv, [Next]_vars
                 PROVE  [Queue!Next]_(Queue!vars)
      OBVIOUS
    <2>1. CASE Read
      BY <2>1, ReadTakesHead DEF Queue!Next, Queue!Pop
    <2>2. ASSUME NEW d \in Data, Write(d)
          PROVE  Queue!Push(d)
      BY <2>2, WriteAppends DEF Queue!Push
    <2>3. ASSUME NEW d \in Data, Both(d)
          PROVE  Queue!PushPop(d)
      BY <2>3, BothMoves DEF Queue!PushPop
    <2>4. ASSUME NEW rv \in BOOLEAN, Reset(rv)
          PROVE  Queue!Clear
      BY <2>4, ResetEmpties DEF Queue!Clear
    <2>5. CASE UNCHANGED vars
      BY <2>5, IInvStutter DEF Queue!vars
    <2> QED
      BY <2>1, <2>2, <2>3, <2>4, <2>5 DEF Next, Queue!Next
  <1> QED
    BY <1>1, <1>2, InductiveIInv, PTL DEF ImplementsQueue, Queue!Spec, Spec

-----------------------------------------------------------------------------
(* The channel.                                                            *)

(* What a client has seen stays true until it acts on it: only the         *)
(* producer fills the fifo and only the consumer drains it.  A chained     *)
(* call sees the fifo as it is before the write of its own state.          *)
ReadySeen ==
  /\ ~chained /\ producer = "granted" => ~full
  /\ consumer = "asking" => ~empty
  /\ consumer = "taking" => out_data_reg \in Data

ChannelInv == IInv /\ ChannelTypeOK /\ ReadySeen /\ NothingLost

-----------------------------------------------------------------------------
(* Sequences.                                                              *)

LEMMA AppendToConcat ==
  ASSUME NEW s \in Seq(Data), NEW t \in Seq(Data), NEW d \in Data
  PROVE  Append(s \o t, d) = s \o Append(t, d)
  <1>1. /\ s \o t \in Seq(Data) /\ <<d>> \in Seq(Data)
        /\ Append(s \o t, d) = (s \o t) \o <<d>>
        /\ Append(t, d) = t \o <<d>>
    BY ConcatProperties, AppendIsConcat
  <1> QED
    BY <1>1, ConcatAssociative

LEMMA HeadMoves ==
  ASSUME NEW s \in Seq(Data), NEW t \in Seq(Data), t # <<>>
  PROVE  (s \o <<Head(t)>>) \o Tail(t) = s \o t
  <1>1. Head(t) \in Data /\ Tail(t) \in Seq(Data) /\ <<Head(t)>> \in Seq(Data)
    BY HeadTailProperties
  <1>2. <<Head(t)>> \o Tail(t) = t
    <2>1. /\ Len(<<Head(t)>> \o Tail(t)) = Len(t)
          /\ \A i \in 1 .. Len(t) : (<<Head(t)>> \o Tail(t))[i] = t[i]
      BY <1>1
    <2>2. <<Head(t)>> \o Tail(t) \in Seq(Data)
      BY <1>1, ConcatProperties
    <2> QED
      BY <2>1, <2>2, SeqEqual
  <1> QED
    BY <1>1, <1>2, ConcatAssociative

-----------------------------------------------------------------------------
LEMMA ChannelInvAtFirst == ChannelInit => ChannelInv
  <1> SUFFICES ASSUME ChannelInit PROVE ChannelInv
    OBVIOUS
  <1>1. IInv
    BY IInvInit DEF ChannelInit
  <1>2. ChannelTypeOK
    BY <1>1 DEF ChannelInit, ChannelTypeOK, IInv
  <1>3. ReadySeen
    BY DEF ChannelInit, ReadySeen
  <1>4. NothingLost
    <2>1. Contents = <<>>
      BY DEF ChannelInit, Init, Contents, Occupancy
    <2> QED
      BY <2>1 DEF ChannelInit, NothingLost, Accounted, InFlight
  <1> QED
    BY <1>1, <1>2, <1>3, <1>4 DEF ChannelInv

(* A read, and a write that is not chained, come when the fifo is ready:   *)
(* in the state of the stall block, or a schedule later.                   *)
LEMMA ValidWhenReady ==
  ASSUME ChannelInv
  PROVE  (~chained /\ MayWrite => write_ready) /\ (read_valid => read_ready)
  BY DEF ChannelInv, ReadySeen, MayWrite, read_valid, write_ready, read_ready

(* The words of one state: at most one unless the calls are chained.       *)
LEMMA TickWrites ==
  ASSUME ChannelInv, Tick
  PROVE  \E words \in Seq(Data), d \in Data :
           /\ words # <<>> => MayWrite
           /\ ~chained /\ words # <<>> => words = <<d>>
           /\ Clock(read_valid, words # <<>>, d)
           /\ ProducerTick(words)
  <1>1. PICK words \in Writings :
          /\ \E in_data \in IF words = <<>> THEN Data
                                           ELSE {words[i] : i \in DOMAIN words} :
               Clock(read_valid, words # <<>>, in_data)
          /\ ProducerTick(words)
    BY DEF Tick
  <1>2. PICK in_data \in IF words = <<>> THEN Data
                                       ELSE {words[i] : i \in DOMAIN words} :
          Clock(read_valid, words # <<>>, in_data)
    BY <1>1
  <1>3. CASE words = <<>>
    BY <1>1, <1>2, <1>3, EmptySeq
  <1>4. CASE words # <<>>
    <2>1. MayWrite
      BY <1>4 DEF Writings
    <2>2. PICK n \in Nat : words \in [1 .. n -> Data]
      BY <2>1, ScheduleAssumption DEF Writings
    <2>3. words \in Seq(Data) /\ Len(words) = n /\ DOMAIN words = 1 .. n
      BY <2>2, IsASeq
    <2>4. in_data \in Data
      BY <1>2, <1>4, <2>2, <2>3
    <2>5. ASSUME ~chained PROVE words = <<in_data>>
      <3>1. Len(words) <= 1
        BY <2>1, <2>5, <2>3 DEF Writings
      <3>2. n = 1 /\ in_data = words[1]
        BY <1>2, <1>4, <2>3, <3>1, EmptySeq
      <3> QED
        BY <2>3, <2>4, <3>2, SeqEqual
    <2> QED
      BY <1>1, <1>2, <2>1, <2>3, <2>4, <2>5
  <1> QED
    BY <1>3, <1>4

(* An edge with the ready ports up is a step the fifo allows its clients.  *)
LEMMA ReadyEdge ==
  ASSUME IInv, NEW rv \in BOOLEAN, NEW wv \in BOOLEAN, NEW d \in Data,
         Clock(rv, wv, d), rv => read_ready, wv => write_ready
  PROVE  \/ Write(d) /\ wv /\ ~rv
         \/ Read /\ ~wv /\ rv
         \/ Both(d) /\ wv /\ rv
         \/ UNCHANGED vars /\ ~wv /\ ~rv
  <1>1. CASE wv = TRUE /\ rv = FALSE
    <2>1. Write(d)
      BY <1>1 DEF Write
    <2> QED
      BY <1>1, <2>1
  <1>2. CASE wv = FALSE /\ rv = TRUE
    <2>1. Read
      BY <1>2 DEF Read
    <2> QED
      BY <1>2, <2>1
  <1>3. CASE wv = TRUE /\ rv = TRUE
    <2>1. Both(d)
      BY <1>3 DEF Both
    <2> QED
      BY <1>3, <2>1
  <1>4. CASE wv = FALSE /\ rv = FALSE
    <2>1. UNCHANGED vars
      BY <1>4 DEF Clock, Drained, LatchOutput, vars
    <2> QED
      BY <1>4, <2>1
  <1> QED
    BY <1>1, <1>2, <1>3, <1>4

(* A write into a full fifo is ignored.  Only at DEPTH 1 does it show: the *)
(* read of the same edge then leaves its word inside.                      *)
LEMMA RefusedWrite ==
  ASSUME IInv, NEW rv \in BOOLEAN, NEW d \in Data, Clock(rv, TRUE, d), full
  PROVE  (DEPTH > 1 => Clock(rv, FALSE, d)) /\ (DEPTH = 1 => IInv')
  <1>1. /\ TypeOK /\ EmptyMeansMet /\ NoUnknownInside /\ ~empty
        /\ write_addr = read_addr /\ ~write_ready
    BY DEF IInv, full, write_ready
  <1>2. NextAddr(read_addr) = IF read_addr + 1 = DEPTH THEN 0 ELSE read_addr + 1
    BY <1>1, NextAddrWraps DEF TypeOK
  <1>3. ASSUME DEPTH > 1 PROVE Clock(rv, FALSE, d)
    <2>1. NextAddr(read_addr) # write_addr
      BY <1>1, <1>2, <1>3, DepthAssumption DEF TypeOK
    <2> QED
      BY <1>1, <2>1 DEF Clock, Drained
  <1>4. ASSUME DEPTH = 1 PROVE IInv'
    <2>1. read_addr = 0 /\ NextAddr(read_addr) = 0
      BY <1>1, <1>2, <1>4 DEF TypeOK
    <2>2. /\ ram' = ram /\ write_addr' = write_addr /\ read_addr' = read_addr
          /\ empty' = empty
          /\ out_data_reg' \in {ram[read_addr], out_data_reg}
      BY <1>1, <2>1 DEF Clock, Drained, LatchOutput
    <2>3. TypeOK'
      BY <1>1, <2>1, <2>2 DEF TypeOK
    <2>4. Contents' = Contents /\ Occupancy' = Occupancy
      BY <2>2 DEF Contents, Occupancy, Slot
    <2> QED
      BY <1>1, <2>2, <2>3, <2>4 DEF IInv, EmptyMeansMet, NoUnknownInside
  <1> QED
    BY <1>3, <1>4

(* So a tick keeps the fifo's invariant, and is a step that its clients    *)
(* may take, at once or, for a refused write, in effect.                   *)
LEMMA TickConforms ==
  ASSUME ChannelInv, Tick
  PROVE  /\ IInv'
         /\ ~chained \/ DEPTH > 1 => [Next]_vars
  <1>1. PICK words \in Seq(Data), d \in Data :
          /\ words # <<>> => MayWrite
          /\ Clock(read_valid, words # <<>>, d)
    BY TickWrites
  <1>2. /\ IInv /\ read_valid \in BOOLEAN /\ (words # <<>>) \in BOOLEAN
        /\ read_valid => read_ready
        /\ ~chained /\ words # <<>> => write_ready
        /\ DEPTH \in Nat \ {0} /\ chained \in BOOLEAN
    BY <1>1, ValidWhenReady, DepthAssumption DEF ChannelInv, ChannelTypeOK, read_valid
  <1> DEFINE wv == words # <<>>
  <1>3. CASE wv => write_ready
    <2>1. [Next]_vars
      BY <1>1, <1>2, <1>3, ReadyEdge DEF Next
    <2>2. IInv'
      BY <1>2, <2>1, InductiveStep
    <2> QED
      BY <2>1, <2>2
  <1>4. CASE wv /\ ~write_ready
    <2>1. full /\ Clock(read_valid, TRUE, d)
      <3>1. (words # <<>>) = TRUE
        BY <1>4
      <3> QED
        BY <1>1, <1>4, <3>1 DEF write_ready
    <2>2. /\ DEPTH > 1 => Clock(read_valid, FALSE, d)
          /\ DEPTH = 1 => IInv'
      BY <1>2, <2>1, RefusedWrite
    <2>3. ASSUME DEPTH > 1 PROVE [Next]_vars
      <3>1. Clock(read_valid, FALSE, d)
        BY <2>2, <2>3
      <3> QED
        BY <1>1, <1>2, <3>1, ReadyEdge DEF Next
    <2>4. DEPTH > 1 => IInv'
      BY <1>2, <2>3, InductiveStep
    <2> QED
      BY <1>2, <1>4, <2>2, <2>3, <2>4
  <1> QED
    BY <1>3, <1>4

(* The word a read takes out has been written.                             *)
LEMMA TickLatches ==
  ASSUME ChannelInv, Tick, read_valid
  PROVE  out_data_reg' \in Data
  <1>1. IInv /\ ~empty /\ TypeOK
    BY ValidWhenReady DEF ChannelInv, IInv, read_ready
  <1>2. Occupancy >= 1 /\ Slot(0) = read_addr
    <2>1. Occupancy \in 0 .. DEPTH /\ Occupancy # 0
      BY <1>1, OccupancyRange
    <2>2. read_addr \in 0 .. DEPTH - 1
      BY <1>1 DEF TypeOK
    <2>3. Slot(0) = read_addr
      BY <2>2, DepthAssumption DEF Slot
    <2> QED
      BY <2>1, <2>3, DepthAssumption
  <1>3. ram[read_addr] \in Data
    <2>1. 1 \in 1 .. Occupancy
      BY <1>1, <1>2, OccupancyRange, DepthAssumption
    <2>2. Contents[1] = ram[Slot(1 - 1)] /\ Contents[1] \in Data
      BY <1>1, <2>1, ContentsSeq DEF IInv, NoUnknownInside
    <2> QED
      BY <1>2, <2>2
  <1>4. PICK words, d : Clock(read_valid, words # <<>>, d)
    BY DEF Tick
  <1>5. out_data_reg' = ram[read_addr]
    BY <1>1, <1>4 DEF Clock, LatchOutput, read_ready
  <1> QED
    BY <1>3, <1>5

(* What a tick does to the contents and to what is on its way, when the    *)
(* calls are not chained.                                                  *)
LEMMA TickMoves ==
  ASSUME ChannelInv, NEW wv \in BOOLEAN, NEW d \in Data,
         Clock(read_valid, wv, d), wv => write_ready
  PROVE  /\ Contents \in Seq(Data) /\ Contents' \in Seq(Data)
         /\ read_valid => Contents # <<>> /\ out_data_reg' = Head(Contents)
         /\ LET rest == IF read_valid THEN Tail(Contents) ELSE Contents
            IN  Contents' = IF wv THEN Append(rest, d) ELSE rest
  <1>1. IInv /\ read_valid \in BOOLEAN /\ (read_valid => read_ready)
    BY ValidWhenReady DEF ChannelInv, read_valid
  <1>2. \/ Write(d) /\ wv /\ ~read_valid
        \/ Read /\ ~wv /\ read_valid
        \/ Both(d) /\ wv /\ read_valid
        \/ UNCHANGED vars /\ ~wv /\ ~read_valid
    BY <1>1, ReadyEdge
  <1>3. IInv' /\ Contents \in Seq(Data)
    BY <1>1, <1>2, WriteAppends, ReadTakesHead, BothMoves, IInvStutter, ContentsSeq
       DEF IInv
  <1>4. ASSUME Contents # <<>>
        PROVE  Tail(Contents) \in Seq(Data) /\ Append(Tail(Contents), d) \in Seq(Data)
    BY <1>3, <1>4, HeadTailProperties, AppendProperties
  <1>5. Append(Contents, d) \in Seq(Data)
    BY <1>3, AppendProperties
  <1> QED
    BY <1>1, <1>2, <1>3, <1>4, <1>5, WriteAppends, ReadTakesHead, BothMoves, IInvStutter

(* Nothing is lost between the three places a word can be in.              *)
LEMMA TickLosesNothing ==
  ASSUME ChannelInv, Tick, ChannelTypeOK'
  PROVE  NothingLost'
  <1> SUFFICES ASSUME ~chained' PROVE Accounted'
    BY DEF NothingLost
  <1>u. ~chained
    BY DEF Tick
  <1> DEFINE rest == IF read_valid THEN Tail(Contents) ELSE Contents
  <1>w. PICK words \in Seq(Data), d \in Data :
          /\ words # <<>> => MayWrite /\ words = <<d>>
          /\ Clock(read_valid, words # <<>>, d)
          /\ ProducerTick(words)
    BY <1>u, TickWrites
  <1>0. /\ (words # <<>>) \in BOOLEAN
        /\ words # <<>> => write_ready
    BY <1>u, <1>w, ValidWhenReady
  <1>1. /\ received \in Seq(Data) /\ sent \in Seq(Data)
        /\ received' \in Seq(Data) /\ <<>> \in Seq(Data)
        /\ Contents \in Seq(Data) /\ Contents' \in Seq(Data)
        /\ Contents' = IF words # <<>> THEN Append(rest, d) ELSE rest
        /\ read_valid => Contents # <<>> /\ out_data_reg' = Head(Contents)
        /\ rest \in Seq(Data)
    <2>1. /\ Contents \in Seq(Data) /\ Contents' \in Seq(Data)
          /\ Contents' = IF words # <<>> THEN Append(rest, d) ELSE rest
          /\ read_valid => Contents # <<>> /\ out_data_reg' = Head(Contents)
      BY <1>w, <1>0, TickMoves
    <2>2. rest \in Seq(Data)
      BY <2>1, HeadTailProperties
    <2> QED
      BY <2>1, <2>2, EmptySeq DEF ChannelInv, ChannelTypeOK
  <1>2. sent' = IF words # <<>> THEN Append(sent, d) ELSE sent
    BY <1>1, <1>w, AppendIsConcat, ConcatEmptySeq DEF ProducerTick
  <1>3. sent = (received \o InFlight) \o Contents
    BY <1>u DEF ChannelInv, NothingLost, Accounted
  <1>4. InFlight \in Seq(Data) /\ received \o InFlight \in Seq(Data)
    <2>1. InFlight \in Seq(Data)
      BY <1>1 DEF ChannelInv, ReadySeen, InFlight
    <2> QED
      BY <1>1, <2>1, ConcatProperties
  <1>5. /\ received' \o InFlight' \in Seq(Data)
        /\ sent = (received' \o InFlight') \o rest
    <2>1. CASE read_valid
      <3>1. received' = received /\ InFlight = <<>> /\ InFlight' = <<Head(Contents)>>
        BY <1>1, <2>1 DEF read_valid, Tick, ConsumerTick, InFlight
      <3>2. Head(Contents) \in Data /\ <<Head(Contents)>> \in Seq(Data)
        BY <1>1, <2>1, HeadTailProperties
      <3>3. sent = received \o Contents
        BY <1>1, <1>3, <3>1, ConcatEmptySeq
      <3> QED
        BY <1>1, <2>1, <3>1, <3>2, <3>3, HeadMoves, ConcatProperties
    <2>2. CASE consumer = "taking"
      <3>1. /\ received' = Append(received, out_data_reg) /\ out_data_reg \in Data
            /\ InFlight = <<out_data_reg>> /\ InFlight' = <<>> /\ ~read_valid
        BY <2>2 DEF ChannelInv, ReadySeen, read_valid, Tick, ConsumerTick, InFlight, Stall
      <3>2. received' \o InFlight' = received \o InFlight
        BY <1>1, <3>1, AppendIsConcat, ConcatEmptySeq
      <3> QED
        BY <1>3, <1>4, <3>1, <3>2
    <2>3. CASE consumer \in {"busy", "stalled"}
      <3>1. /\ received' = received /\ InFlight = <<>> /\ InFlight' = <<>> /\ ~read_valid
        BY <2>3 DEF read_valid, Tick, ConsumerTick, InFlight, Stall
      <3> QED
        BY <1>3, <1>4, <3>1
    <2> QED
      BY <2>1, <2>2, <2>3 DEF read_valid, ChannelInv, ChannelTypeOK
  <1> HIDE DEF rest
  <1>6. CASE words # <<>>
    <2> DEFINE out == received' \o InFlight'
    <2>1. out \in Seq(Data) /\ rest \in Seq(Data) /\ d \in Data
      BY <1>1, <1>5
    <2>2. sent' = Append(out \o rest, d) /\ Contents' = Append(rest, d)
      BY <1>1, <1>2, <1>5, <1>6
    <2>3. Append(out \o rest, d) = out \o Append(rest, d)
      <3> HIDE DEF out
      <3> QED
        BY <2>1, AppendToConcat
    <2> QED
      BY <2>2, <2>3 DEF Accounted
  <1>7. CASE words = <<>>
    BY <1>1, <1>2, <1>5, <1>7 DEF Accounted
  <1> QED
    BY <1>6, <1>7

LEMMA TickKeepsTypes ==
  ASSUME ChannelInv, Tick
  PROVE  ChannelTypeOK'
  <1>1. /\ TypeOK' /\ sent \in Seq(Data) /\ received \in Seq(Data)
        /\ producerWait \in Gaps /\ consumerWait \in Gaps /\ chained \in BOOLEAN
        /\ producer \in {"calling", "granted", "finished"}
        /\ consumer \in {"busy", "stalled", "asking", "taking"}
    BY TickConforms DEF IInv, ChannelInv, ChannelTypeOK
  <1>2. /\ \A n \in Gaps : n > 0 => n - 1 \in Gaps
        /\ \A n \in Gaps : n # 0 => n > 0
    BY ScheduleAssumption DEF Gaps
  <1>w. PICK words \in Seq(Data) : ProducerTick(words)
    BY TickWrites
  <1>3. sent' \in Seq(Data)
    BY <1>1, <1>w, ConcatProperties DEF ProducerTick
  <1>4. received' \in Seq(Data)
    <2>1. \/ received' = received
          \/ consumer = "taking" /\ received' = Append(received, out_data_reg)
      <3>1. ConsumerTick
        BY DEF Tick
      <3> QED
        BY <3>1 DEF ConsumerTick
    <2>2. consumer = "taking" => out_data_reg \in Data
      BY DEF ChannelInv, ReadySeen
    <2>3. consumer = "taking" => Append(received, out_data_reg) \in Seq(Data)
      BY <1>1, <2>2, AppendProperties
    <2> QED
      BY <1>1, <2>1, <2>3
  <1>5. consumer' \in {"busy", "stalled", "asking", "taking"} /\ consumerWait' \in Gaps
    <2>1. consumerWait # 0 => consumerWait - 1 \in Gaps
      BY <1>1, <1>2
    <2> QED
      BY <1>1, <2>1 DEF Tick, ConsumerTick, Stall
  <1>6. producer' \in {"calling", "granted", "finished"} /\ producerWait' \in Gaps
    <2>1. producerWait > 0 => producerWait - 1 \in Gaps
      BY <1>1, <1>2
    <2> QED
      BY <1>1, <1>w, <2>1 DEF ProducerTick, NextCall
  <1>7. chained' \in BOOLEAN
    BY <1>1 DEF Tick
  <1> QED
    BY <1>1, <1>3, <1>4, <1>5, <1>6, <1>7 DEF ChannelTypeOK

(* A read makes room, a write makes a word: what a client has seen is not  *)
(* undone by the other one.                                                *)
LEMMA TickKeepsSeen ==
  ASSUME ChannelInv, Tick
  PROVE  ReadySeen'
  <1>1. /\ TypeOK /\ TypeOK' /\ EmptyMeansMet
    BY TickConforms DEF ChannelInv, IInv
  <1>w. PICK words \in Seq(Data), d \in Data :
          /\ words # <<>> => MayWrite
          /\ Clock(read_valid, words # <<>>, d)
          /\ ProducerTick(words)
    BY TickWrites
  <1>2. ~read_valid => (~empty => ~empty')
    BY <1>w DEF Clock, Drained
  <1>3. words = <<>> /\ ~full => ~full'
    <2> SUFFICES ASSUME words = <<>>, ~full PROVE ~full'
      OBVIOUS
    <2>0. Clock(read_valid, FALSE, d)
      <3>1. (words # <<>>) = FALSE
        OBVIOUS
      <3> QED
        BY <1>w, <3>1
    <2>1. write_addr' = write_addr
      BY <2>0 DEF Clock
    <2>2. CASE ~read_valid
      BY <2>0, <2>1, <2>2 DEF Clock, Drained, full
    <2>3. CASE read_valid
      <3>1. ~empty /\ read_addr' = NextAddr(read_addr)
        BY <2>0, <2>3, ValidWhenReady DEF Clock, read_ready
      <3>2. empty' <=> NextAddr(read_addr) = write_addr
        BY <2>0, <2>3, <3>1 DEF Clock, Drained
      <3> QED
        BY <2>1, <3>1, <3>2 DEF full
    <2> QED
      BY <2>2, <2>3
  <1>4. ~chained' /\ producer' = "granted" => ~full'
    <2> SUFFICES ASSUME ~chained', producer' = "granted" PROVE ~full'
      OBVIOUS
    <2>1. ~chained
      BY DEF Tick
    <2>2. words = <<>>
      BY <1>w, <2>1 DEF ProducerTick, NextCall
    <2>3. ~full
      BY <1>w, <2>1, <2>2 DEF ProducerTick, ChannelInv, ReadySeen, write_ready
    <2> QED
      BY <1>3, <2>2, <2>3
  <1>5. consumer' = "asking" => ~empty'
    <2>1. consumer' = "asking" => ~read_valid /\ ~empty
      BY DEF Tick, ConsumerTick, Stall, read_valid, read_ready
    <2> QED
      BY <1>2, <2>1
  <1>6. consumer' = "taking" => out_data_reg' \in Data
    <2>1. consumer' = "taking" => read_valid
      BY DEF Tick, ConsumerTick, Stall, read_valid
    <2> QED
      BY <2>1, TickLatches
  <1> QED
    BY <1>4, <1>5, <1>6 DEF ReadySeen

LEMMA ResetKeeps ==
  ASSUME ChannelInv, ResetTick
  PROVE  ChannelInv' /\ \E rv \in BOOLEAN : Reset(rv)
  <1>1. read_valid \in BOOLEAN /\ Reset(read_valid)
    BY DEF read_valid, ResetTick
  <1>2. IInv' /\ Contents' = <<>>
    BY <1>1, ResetEmpties DEF ChannelInv
  <1>3. ChannelTypeOK'
    BY <1>2 DEF ResetTick, ChannelInv, ChannelTypeOK, IInv
  <1>4. ReadySeen'
    BY DEF ResetTick, ReadySeen
  <1>5. NothingLost'
    BY <1>2 DEF ResetTick, NothingLost, Accounted, InFlight
  <1> QED
    BY <1>1, <1>2, <1>3, <1>4, <1>5 DEF ChannelInv

LEMMA StutterKeeps ==
  ASSUME ChannelInv, UNCHANGED channelVars
  PROVE  ChannelInv'
  <1>1. /\ UNCHANGED vars
        /\ UNCHANGED <<chained, producer, producerWait, consumer, consumerWait, sent, received>>
    BY DEF channelVars
  <1>2. IInv' /\ Contents' = Contents /\ out_data_reg' = out_data_reg
    BY <1>1, IInvStutter DEF ChannelInv
  <1>3. full' = full /\ empty' = empty
    BY <1>1 DEF full, vars
  <1> QED
    BY <1>1, <1>2, <1>3
       DEF ChannelInv, IInv, ChannelTypeOK, ReadySeen, NothingLost, Accounted, InFlight

LEMMA ChannelInvariance == ChannelSpec => []ChannelInv
  <1>1. ChannelInv /\ [ChannelNext]_channelVars => ChannelInv'
    <2> SUFFICES ASSUME ChannelInv, [ChannelNext]_channelVars PROVE ChannelInv'
      OBVIOUS
    <2>1. CASE Tick
      <3>1. ChannelTypeOK'
        BY <2>1, TickKeepsTypes
      <3> QED
        BY <2>1, <3>1, TickConforms, TickLosesNothing, TickKeepsSeen DEF ChannelInv
    <2>2. CASE ResetTick
      BY <2>2, ResetKeeps
    <2>3. CASE UNCHANGED channelVars
      BY <2>3, StutterKeeps
    <2> QED
      BY <2>1, <2>2, <2>3 DEF ChannelNext
  <1> QED
    BY <1>1, ChannelInvAtFirst, PTL DEF ChannelSpec

-----------------------------------------------------------------------------
(* No word is lost, repeated, reordered or invented on its way, whatever   *)
(* the depth, the gaps of the schedules and the resets, as long as the     *)
(* schedule does not chain the calls of the producer.                      *)
THEOREM NeverLost == ChannelSpec => []NothingLost
  <1>1. ChannelInv => NothingLost
    BY DEF ChannelInv
  <1> QED
    BY <1>1, ChannelInvariance, PTL

(* The tasks' states, waits and histories keep their types.                *)
THEOREM ChannelTypeCorrect == ChannelSpec => []ChannelTypeOK
  <1>1. ChannelInv => ChannelTypeOK
    BY DEF ChannelInv
  <1> QED
    BY <1>1, ChannelInvariance, PTL

(* The calls generated for a task never raise a valid port of a fifo that  *)
(* is not ready, unless the schedule chains them: the premise of all the   *)
(* theorems about the fifo alone.                                          *)
THEOREM ChannelConforms == ChannelSpec => ClientsConform
  <1>1. ChannelInit => Init
    BY DEF ChannelInit
  <1>2. ChannelInv /\ [ChannelNext]_channelVars => [chained \/ Next]_vars
    <2> SUFFICES ASSUME ChannelInv, [ChannelNext]_channelVars
                 PROVE  [chained \/ Next]_vars
      OBVIOUS
    <2>1. CASE Tick
      BY <2>1, TickConforms
    <2>2. CASE ResetTick
      BY <2>2, ResetKeeps DEF Next
    <2>3. CASE UNCHANGED channelVars
      BY <2>3 DEF channelVars
    <2> QED
      BY <2>1, <2>2, <2>3 DEF ChannelNext
  <1> QED
    BY <1>1, <1>2, ChannelInvariance, PTL DEF ChannelSpec, ClientsConform

(* Between two generated tasks the hardware is the bounded queue, and an   *)
(* unknown value is never inside: also under a schedule that chains the    *)
(* calls, whose write into a full fifo is as if it had not been tried,     *)
(* except in a fifo of one word.                                           *)
THEOREM ChannelImplementsQueue ==
  ChannelSpec /\ (chained => DEPTH > 1) => ImplementsQueue /\ []NoUnknownInside
  <1> DEFINE Allowed == ~chained \/ DEPTH > 1
  <1>1. ChannelInit => Init
    BY DEF ChannelInit
  <1>2. ChannelInv /\ Allowed /\ [ChannelNext]_channelVars => [Next]_vars /\ Allowed'
    <2> SUFFICES ASSUME ChannelInv, Allowed, [ChannelNext]_channelVars
                 PROVE  [Next]_vars /\ Allowed'
      OBVIOUS
    <2>1. CASE Tick
      BY <2>1, TickConforms DEF Tick
    <2>2. CASE ResetTick
      BY <2>2, ResetKeeps DEF Next, ResetTick
    <2>3. CASE UNCHANGED channelVars
      BY <2>3 DEF channelVars
    <2> QED
      BY <2>1, <2>2, <2>3 DEF ChannelNext
  <1>3. (chained => DEPTH > 1) => Allowed
    OBVIOUS
  <1>4. ChannelSpec /\ Allowed => Spec
    <2> HIDE DEF Allowed
    <2> QED
      BY <1>1, <1>2, ChannelInvariance, PTL DEF ChannelSpec, Spec
  <1> HIDE DEF Allowed
  <1> QED
    BY <1>3, <1>4, FifoImplementsQueue, UnknownNeverInside, PTL
=============================================================================
