----------------------------- MODULE LoopMemory -----------------------------
(***************************************************************************)
(* A pipelined loop at run time: iterations that overlap, and the RAM they *)
(* read and write.  The RAM has one read and one write port; a write       *)
(* reaches the memory at the third clock edge, a read is answered from the *)
(* memory as it is before the first.                                       *)
(*                                                                         *)
(* A stored value is named by the access that stored it, <<place,          *)
(* iteration>>; the value an address has at first is Initial.              *)
(***************************************************************************)
EXTENDS LoopBody, Sequences

CONSTANTS Loops,       \* the bodies
          Intervals,   \* the initiation intervals
          MaxStart,    \* bound of the start times the scheduler chooses from
          MaxSlack     \* bound of the cycles by which an iteration may be late

ASSUME LoopsAssumption == \A body \in Loops : IsLoop(body)
ASSUME IntervalsAssumption == Intervals \subseteq Nat \ {0}
ASSUME BoundsAssumption == MaxStart \in Nat /\ MaxSlack \in Nat

VARIABLES loop,     \* the body,
          start,    \* its start times
          II,       \* and initiation interval, fixed at compile time
          now,      \* the cycle
          issued,   \* issued[k] is the cycle in which iteration k started
          data,     \* RAM: the memory
          reg0,     \* RAM: the two delay registers of the write port, sets
          reg1,     \*   of at most one access
          got       \* got[a] is the value the load a was answered

vars == <<loop, start, II, now, issued, data, reg0, reg1, got>>
design == <<loop, start, II>>

Initial == <<0, 0>>
Accesses == Places(loop) \X (1 .. Len(issued))

Where(a) == Address(loop, a[1], a[2] - 1)
StartCycle(a) == issued[a[2]] + start[a[1]]
EndCycle(a) == issued[a[2]] + End(loop, start, a[1])

Starting(kind) ==
    {a \in Accesses : loop.ops[a[1]].kind = kind /\ StartCycle(a) = now}

-----------------------------------------------------------------------------
Init ==
    /\ loop \in Loops
    /\ II \in Intervals
    /\ start \in [Places(loop) -> 0 .. MaxStart]
    /\ MeetsConstraints(loop, start, II)
    /\ now = 0
    /\ issued = <<>>
    /\ data = [address \in {Address(loop, i, k) : i \in Places(loop), k \in 0 .. Trip - 1}
                  |-> Initial]
    /\ reg0 = {}
    /\ reg1 = {}
    /\ got = <<>>

\* The control path starts an iteration II cycles after the last one, or later.
Issue ==
    /\ Len(issued) < Trip
    /\ issued # <<>> => now >= issued[Len(issued)] + II
    /\ issued' = Append(issued, now)
    /\ UNCHANGED <<design, now, data, reg0, reg1, got>>

Overdue ==
    /\ Len(issued) < Trip
    /\ issued # <<>> => now >= issued[Len(issued)] + II + MaxSlack

\* Every access of every iteration has ended.
Over ==
    /\ Len(issued) = Trip
    /\ \A a \in Accesses : EndCycle(a) < now

\* If several accesses drive one port, one of them gets it.
OnPort(accesses) ==
    IF accesses = {} THEN {{}} ELSE {{a} : a \in accesses}

\* The memory, when a write leaves the delay.
Stored ==
    [address \in DOMAIN data |->
        IF \E a \in reg1 : Where(a) = address
        THEN CHOOSE a \in reg1 : Where(a) = address
        ELSE data[address]]

\* The clock edge: another write enters the delay, and what the read port
\* addresses is registered.
PortsEdge ==
    /\ ~ Overdue
    /\ ~ Over
    /\ now' = now + 1
    /\ reg1' = reg0
    /\ reg0' \in OnPort(Starting("store"))
    /\ \E port \in OnPort(Starting("load")) :
          got' = [a \in DOMAIN got \cup Starting("load") |->
                     IF a \in DOMAIN got
                     THEN got[a]
                     ELSE data[Where(CHOOSE b \in port : TRUE)]]
    /\ UNCHANGED <<design, issued>>

Edge == PortsEdge /\ data' = Stored

Next == Issue \/ Edge

Spec == Init /\ [][Next]_vars

-----------------------------------------------------------------------------
(* Executing the loop one access at a time, in program order.              *)

Before(a, b) == a[2] < b[2] \/ (a[2] = b[2] /\ a[1] < b[1])

\* The value the last of a set of stores leaves.
LastOf(stores) ==
    IF stores = {} THEN Initial
    ELSE CHOOSE a \in stores : \A b \in stores \ {a} : Before(b, a)

StoresTo(address) ==
    {a \in Accesses : loop.ops[a[1]].kind = "store" /\ Where(a) = address}

-----------------------------------------------------------------------------
TypeOK ==
    /\ loop \in Loops
    /\ II \in Intervals
    /\ start \in [Places(loop) -> 0 .. MaxStart]
    /\ now \in Nat
    /\ issued \in Seq(Nat)
    /\ Len(issued) <= Trip
    /\ reg0 \subseteq Accesses /\ reg1 \subseteq Accesses
    /\ DOMAIN got \subseteq Accesses

\* The load b reads what the store a, before it in program order, may have
\* stored.
ReadsFrom(b, a) ==
    /\ loop.ops[a[1]].kind = "store"
    /\ loop.ops[b[1]].kind = "load"
    /\ Before(a, b)
    /\ Where(a) = Where(b)

(* A load does not start before every store of its address that precedes   *)
(* it in program order has ended, in whatever iteration.                   *)
EveryDependenceMet ==
    \A a, b \in Accesses : ReadsFrom(b, a) => EndCycle(a) <= StartCycle(b)

\* The solver is asked about the addresses the two accesses have: no stride is
\* negative, and their bases lie on one side of 0; or there is nothing to ask.
Understood(body, i, j) ==
    LET bases == {body.ops[i].base, body.ops[j].base}
        steps == {body.ops[i].step, body.ops[j].step}
    IN  \/ 0 \in steps
        \/ body.ops[i].base = body.ops[j].base /\ body.ops[i].step = body.ops[j].step
        \/ /\ steps \subseteq 0 .. Word - 1
           /\ bases \subseteq 0 .. Word - 1 \/ bases \subseteq -Word .. -1

AllUnderstood(body) ==
    \A i \in Stores(body), j \in Loads(body) : Understood(body, i, j)

(* Every dependence is met whose addresses the solver is given as they     *)
(* are: the constraints name one distance, the least, and must cover all.  *)
(* (Of others it finds none, where a constant is negative: scevToExpr      *)
(* makes it a large positive one.)                                         *)
DependencesMet ==
    \A a, b \in Accesses :
        ReadsFrom(b, a) /\ Understood(loop, a[1], b[1]) => EndCycle(a) <= StartCycle(b)

\* Iterations are issued at least an interval apart, none in the future.
Paced ==
    /\ \A k \in 1 .. Len(issued) : issued[k] <= now
    /\ \A k, l \in 1 .. Len(issued) :
          k <= l => issued[k] + (l - k) * II <= issued[l]

\* The inductive invariant behind the theorems.
IInv == TypeOK /\ MeetsConstraints(loop, start, II) /\ Paced

(* No cycle needs more units of a kind, or more of a method's port, than   *)
(* there are, counting all iterations in flight.                           *)
UnitsSuffice ==
    \A kind \in Kinds : Cardinality(Starting(kind)) <= Limit(loop, kind)

(* A load of what a later iteration stores, behind the store in the block, *)
(* is not constrained at all.                                              *)
CarriedAntiDependence(body) ==
    \E i \in Stores(body), j \in Loads(body) :
        /\ i < j
        /\ \E k, l \in 0 .. Trip - 1 :
              k < l /\ Address(body, i, l) = Address(body, j, k)

(* Each load instruction is answered the value it would be if accesses did *)
(* not overlap, where the solver understands the addresses of the body.    *)
(* (For methods this is up to the hazards declared.)                       *)
ReadsAsInOrder ==
    ~ loop.methods /\ AllUnderstood(loop) =>
        \A b \in DOMAIN got :
            got[b] = LastOf({a \in StoresTo(Where(b)) : Before(a, b)})

(* And the memory is left as if they had not.                              *)
LeftAsInOrder ==
    Over => \A address \in DOMAIN data : data[address] = LastOf(StoresTo(address))
=============================================================================
