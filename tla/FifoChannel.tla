---------------------------- MODULE FifoChannel ----------------------------
(***************************************************************************)
(* Two generated tasks talk through one fifo: the producer makes the calls *)
(* implementRVFifoWrite builds, the consumer those of implementRVFifoRead  *)
(* (scheduling.cpp).  Both calls are a stall block that repeats until the  *)
(* ready port is up, and an exit block that raises the valid port in the   *)
(* state the schedule gives it; the calls that take a reference, or a      *)
(* template argument, drive the same ports in the same states.  Step Tick  *)
(* is one clock cycle: the ports are functions of the tasks' states, then  *)
(* fifo and tasks move together.                                           *)
(*                                                                         *)
(* The schedule fixes how many cycles pass between the stall block and the *)
(* write, and between one call and the next; both are drawn from 0 ..      *)
(* MaxGap when the wait begins.  A block may start in the state in which   *)
(* the one before it ends (end <= start), and the order of accesses to a   *)
(* port is kept within one block only: a schedule may also chain the calls *)
(* of the producer, the stall block of a call, and even its exit block, in *)
(* the very state of the write before it.                                  *)
(***************************************************************************)
EXTENDS Fifo

CONSTANTS
  MaxGap,    (* bound on the cycles a schedule puts between two steps      *)
  MaxChain,  (* bound on the writes a schedule puts in one state           *)
  MaxWrites, (* bound on the words the producer sends                      *)
  MaxResets  (* bound on the resets after the first                        *)

ASSUME ScheduleAssumption == MaxGap \in Nat /\ MaxChain \in Nat \ {0}

VARIABLES
  chained,       (* may the schedule chain the producer's calls?  Never    *)
                 (* changed                                                *)
  producer,      (* "calling", "granted" or "finished"                     *)
  producerWait,  (* cycles until its stall block, or its write             *)
  consumer,      (* "busy", "stalled", "asking" or "taking"                *)
  consumerWait,
  sent,          (* history: the words written                             *)
  received,      (* history: the words the calls of the consumer returned  *)
  resets         (* the resets so far                                      *)

channelVars == <<vars, chained, producer, producerWait, consumer,
                 consumerWait, sent, received, resets>>

Gaps == 0 .. MaxGap

ChannelInit ==
  /\ Init
  /\ chained \in BOOLEAN
  /\ producer = "calling" /\ producerWait \in Gaps
  /\ consumer = "busy" /\ consumerWait \in Gaps
  /\ sent = <<>>
  /\ received = <<>>
  /\ resets = 0

(* Mutants: a write without a look at write_ready; read_valid raised by    *)
(* the stall block already.                                                *)
MayWriteBlind == producerWait = 0 /\ producer \in {"calling", "granted"}
read_validEarly == consumer \in {"stalled", "asking"}

(* The call can write in this cycle: its stall block sees write_ready now, *)
(* or saw it cycles ago.                                                   *)
MayWrite ==
  /\ producerWait = 0
  /\ \/ producer = "calling" /\ write_ready
     \/ producer = "granted"

(* The words written in this cycle.  A stall block may leave the write to  *)
(* a later state; more than one word means that whole calls follow in the  *)
(* state, each with a stall block that sees the write_ready of this cycle. *)
Writings ==
  IF ~MayWrite THEN {<<>>}
  ELSE {words \in UNION {[1 .. n -> Data] : n \in 0 .. MaxChain} :
          /\ words = <<>> => producer = "calling"
          /\ Len(words) > 1 => chained /\ write_ready
          /\ Len(sent) + Len(words) <= MaxWrites}

(* read_valid comes in the cycle after the stall block saw read_ready.     *)
read_valid == consumer = "asking"

(* A write is over.  The stall block of the next call comes later, or in   *)
(* the state of the write: what it sees there is the write_ready from      *)
(* before the word enters.                                                 *)
NextCall ==
  /\ \/ producer' = "calling"
     \/ chained /\ write_ready /\ producer' = "granted"
  /\ producerWait' \in Gaps

ProducerTick(words) ==
  /\ sent' = sent \o words
  /\ IF words # <<>>
     THEN IF Len(sent') = MaxWrites
            THEN producer' = "finished" /\ UNCHANGED producerWait
            ELSE NextCall
     ELSE \/ /\ producerWait > 0
             /\ producerWait' = producerWait - 1
             /\ UNCHANGED producer
          \/ /\ producer = "calling" /\ producerWait = 0
             /\ IF write_ready
                  THEN producer' = "granted" /\ producerWait' \in Gaps
                  ELSE UNCHANGED <<producer, producerWait>>
          \/ /\ producer = "finished"
             /\ UNCHANGED <<producer, producerWait>>

(* The stall block of a call that begins in this cycle.                    *)
Stall == consumer' = IF read_ready THEN "asking" ELSE "stalled"

(* The returned value is read off out_data in the cycle after read_valid;  *)
(* the stall block of the next call may share that cycle's state.          *)
ConsumerTick ==
  \/ /\ consumer = "busy"
     /\ IF consumerWait = 0
          THEN Stall /\ UNCHANGED consumerWait
          ELSE consumerWait' = consumerWait - 1 /\ UNCHANGED consumer
     /\ UNCHANGED received
  \/ /\ consumer = "stalled"
     /\ Stall
     /\ UNCHANGED <<consumerWait, received>>
  \/ /\ consumer = "asking"
     /\ consumer' = "taking"
     /\ UNCHANGED <<consumerWait, received>>
  \/ /\ consumer = "taking"
     /\ received' = Append(received, out_data_reg)
     /\ \/ Stall /\ UNCHANGED consumerWait
        \/ consumer' = "busy" /\ consumerWait' \in Gaps

(* Two writes of one state drive in_data together: either word may win.    *)
Tick ==
  /\ \E words \in Writings :
       /\ \E in_data \in IF words = <<>> THEN Data
                                        ELSE {words[i] : i \in DOMAIN words} :
            Clock(read_valid, words # <<>>, in_data)
       /\ ProducerTick(words)
  /\ ConsumerTick
  /\ UNCHANGED <<chained, resets>>

(* A reset in the middle of it all: both tasks start again, and so do the  *)
(* histories.  The ports still carry what the tasks put there.             *)
ResetTick ==
  /\ resets < MaxResets
  /\ resets' = resets + 1
  /\ Reset(read_valid)
  /\ producer' = "calling" /\ producerWait' \in Gaps
  /\ consumer' = "busy" /\ consumerWait' \in Gaps
  /\ sent' = <<>>
  /\ received' = <<>>
  /\ UNCHANGED chained

ChannelNext == Tick \/ ResetTick

ChannelSpec == ChannelInit /\ [][ChannelNext]_channelVars

(* The clock does not stop: the only fairness hardware needs.              *)
FairChannelSpec == ChannelSpec /\ WF_channelVars(Tick)

-----------------------------------------------------------------------------
(* A word has left the fifo and not been returned yet.                     *)
InFlight == IF consumer = "taking" THEN <<out_data_reg>> ELSE <<>>

ChannelTypeOK ==
  /\ TypeOK
  /\ chained \in BOOLEAN
  /\ producer \in {"calling", "granted", "finished"}
  /\ consumer \in {"busy", "stalled", "asking", "taking"}
  /\ producerWait \in Gaps /\ consumerWait \in Gaps
  /\ sent \in Seq(Data) /\ received \in Seq(Data)

(* What was written is what was returned, what is on the output register   *)
(* and what is in the memory, in this order.                               *)
Accounted == sent = received \o InFlight \o Contents

(* No word is lost, repeated, reordered or invented on its way, although   *)
(* the producer writes cycles after it looked at write_ready and the       *)
(* consumer looks at out_data a cycle after its read was accepted, unless  *)
(* the schedule chains the producer's calls: then a stall block reads a    *)
(* write_ready that the write of its own state is about to withdraw.       *)
NothingLost == ~chained => Accounted

(* Under such a schedule the two clients use the fifo only as its          *)
(* disabled assertions allow.                                              *)
ClientsConform == Init /\ [][chained \/ Next]_vars

(* Neither task waits for ever: the producer gets all of its words out,    *)
(* chained or not and also after a reset in the middle, and every word is  *)
(* returned to the consumer unless the calls are chained.                  *)
AllArrive ==
  <>[](producer = "finished" /\ (~chained => Len(received) = MaxWrites))
=============================================================================
