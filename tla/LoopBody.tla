------------------------------ MODULE LoopBody ------------------------------
(***************************************************************************)
(* The body of a pipelined loop of one block, as far as it reads and       *)
(* writes one RAM, and the constraints createMemoryConstraints puts on its *)
(* schedule: dependences inside an iteration, dependences carried from one *)
(* iteration to a later one, and the order of operations that share a unit *)
(* or a port.  Iterations are issued at least an initiation interval II    *)
(* apart, so an operation with start time s runs at s + II, s + 2 * II ... *)
(*                                                                         *)
(* Accesses are either load and store instructions, or calls of methods    *)
(* (loop.methods) of a class that declares a hazard from its write to its  *)
(* read method.  An address is affine in the iteration, base + k * step,   *)
(* or invariant (step = 0); its base may be relative to an address that is *)
(* not known.  The alias analysis, asked about accesses of unknown size in *)
(* one RAM, never excludes an alias.                                       *)
(***************************************************************************)
EXTENDS Integers, FiniteSets

CONSTANTS Trip,    \* the number of iterations
          Word,    \* 2^w, where w is the width of an address
          Horizon, \* bound of the iterations, and distances, the solver tries
          Count    \* HardwareConstraints::counts of LOAD_OP and STORE_OP

ASSUME TripAssumption == Trip \in Nat \ {0}
ASSUME SolverAssumption == Word \in Nat \ {0} /\ Horizon \in Nat /\ Trip <= Horizon
ASSUME CountAssumption == Count \in [{"load", "store"} -> Nat \ {0}]

Kinds == {"load", "store"}

\* A body: its accesses in the order they appear in the block.
IsLoop(loop) ==
    /\ loop.methods \in BOOLEAN
    /\ loop.size \in Nat
    /\ loop.ops \in [1 .. loop.size -> [kind : Kinds, base : Int, step : Int]]

Places(loop) == 1 .. loop.size
Stores(loop) == {i \in Places(loop) : loop.ops[i].kind = "store"}
Loads(loop)  == {i \in Places(loop) : loop.ops[i].kind = "load"}

Address(loop, i, k) == loop.ops[i].base + k * loop.ops[i].step

Latency(loop, i) == IF loop.ops[i].kind = "store" THEN 3 ELSE 1
End(loop, start, i) == start[i] + Latency(loop, i)

-----------------------------------------------------------------------------
(* How many iterations lie between a store and a load of what it stored.   *)

\* Mutant: the order of the two in the block is not asked for.
MinDistanceZero(i, j) == 0

\* The least distance worth asking for: an iteration's own store counts only
\* if it appears before the load.
MinDistance(i, j) == IF i < j THEN 0 ELSE 1

\* The solver is given a constant as the unsigned number of the same bits,
\* and then counts in the integers.
Constant(c) == c % Word
SolverAddress(loop, i, k) == Constant(loop.ops[i].base) + k * Constant(loop.ops[i].step)

\* It knows no last iteration.
Distances(loop, i, j) ==
    {d \in MinDistance(i, j) .. Horizon :
        \E k \in 0 .. Horizon : SolverAddress(loop, i, k) = SolverAddress(loop, j, k + d)}

\* What rawMemoryDD and extractHazardDistance return: one distance, or none,
\* for which they say -1.
DependenceDistance(loop, i, j) ==
    IF loop.ops[i].step = 0 \/ loop.ops[j].step = 0
    THEN {MinDistance(i, j)}
    ELSE LET distances == Distances(loop, i, j)
         IN  {d \in distances : \A e \in distances : d <= e}

-----------------------------------------------------------------------------
(* The constraints.                                                        *)

ReadAfterWriteInBlock(loop, start) ==
    \A i \in Stores(loop), j \in Loads(loop) :
        i < j => End(loop, start, i) <= start[j]

WriteAfterWriteInBlock(loop, start) ==
    \A i, j \in Stores(loop) :
        i < j => End(loop, start, i) < End(loop, start, j)

\* Mutant: the store is allowed to end, rather than to start, after the load.
WriteEndsAfterRead(loop, start) ==
    \A i \in Loads(loop), j \in Stores(loop) :
        i < j => start[i] <= End(loop, start, j)

WriteAfterReadInBlock(loop, start) ==
    \A i \in Loads(loop), j \in Stores(loop) :
        i < j => start[i] <= start[j]

\* Between iterations only reads after writes are constrained.
ReadAfterWriteCarried(loop, start, II) ==
    \A i \in Stores(loop), j \in Loads(loop) :
        \A d \in DependenceDistance(loop, i, j) :
            d > 0 => End(loop, start, i) < start[j] + d * II

HazardsKept(loop, start, II) ==
    \A i \in Stores(loop), j \in Loads(loop) :
        \A d \in DependenceDistance(loop, i, j) :
            End(loop, start, i) <= start[j] + d * II

\* The accesses of one kind are put in groups as large as there are units, in
\* the order they appear; a method's port is a unit of its own.
Limit(loop, kind) == IF loop.methods THEN 1 ELSE Count[kind]

UpTo(loop, i) == {j \in 1 .. i : loop.ops[j].kind = loop.ops[i].kind}
Rank(loop, i) == Cardinality(UpTo(loop, i))
Group(loop, i) == (Rank(loop, i) - 1) \div Limit(loop, loop.ops[i].kind)

SameKind(loop, i, j) == loop.ops[i].kind = loop.ops[j].kind
InLastGroup(loop, i) ==
    \A j \in Places(loop) : SameKind(loop, i, j) => Group(loop, j) <= Group(loop, i)

\* A write of a port takes no time, an instruction has its latency.
UnitFree(loop, start, i) == IF loop.methods THEN start[i] ELSE End(loop, start, i)

\* Mutant: the order ends with the iteration.
GroupsInOrderOnce(loop, start, II) ==
    \A i, j \in Places(loop) :
        SameKind(loop, i, j) /\ Group(loop, j) = Group(loop, i) + 1
            => start[i] + 1 <= start[j]

\* Group after group; and the last group before the first one of the next
\* iteration.
GroupsInOrder(loop, start, II) ==
    \A i, j \in Places(loop) :
        SameKind(loop, i, j) =>
            /\ Group(loop, j) = Group(loop, i) + 1 => start[i] + 1 <= start[j]
            /\ Group(loop, i) > 0 /\ InLastGroup(loop, i) /\ Group(loop, j) = 0
                 => UnitFree(loop, start, i) < start[j] + II

MeetsConstraints(loop, start, II) ==
    /\ GroupsInOrder(loop, start, II)
    /\ loop.methods =>
          HazardsKept(loop, start, II)
    /\ ~ loop.methods =>
          /\ ReadAfterWriteInBlock(loop, start)
          /\ WriteAfterWriteInBlock(loop, start)
          /\ WriteAfterReadInBlock(loop, start)
          /\ ReadAfterWriteCarried(loop, start, II)
=============================================================================
