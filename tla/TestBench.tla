----------------------------- MODULE TestBench -----------------------------
(***************************************************************************)
(* A generated loop and its RAM in the test bench emitVerilogTestBench     *)
(* writes for them.  The bench fills the RAM through the debug port while  *)
(* the design is in reset, lets the design run for a number of cycles,     *)
(* reads the RAM back through the debug port, and says whether the words   *)
(* are the expected ones.                                                  *)
(*                                                                         *)
(* There are three of its kind.  With a RAM of its own the bench goes      *)
(* through phases ("phases").  With the RAM of a module specification it   *)
(* does things at given cycles: setRAM or setRAMContents fill the memory,  *)
(* checkRAM ("in") checks a word in the cycle that addresses it,           *)
(* checkRAMContents ("on") at the clock edge after, and checkSignal asks   *)
(* that the design has finished before.                                    *)
(*                                                                         *)
(* Everything in the bench happens at clock edges.  What is combinational, *)
(* the checks of checkRAM, is done with the edge that begins the cycle.    *)
(***************************************************************************)
EXTENDS LoopMemory

CONSTANTS Experiments   \* which bodies are put in which benches
ASSUME ExperimentsAssumption ==
    /\ Experiments \subseteq [loop : Loops,
                              bench : [style : {"phases", "in", "on"}, wait : Nat \ {0}]]
    /\ \A e \in Experiments : e.loop.size > 0   \* it has memory to fill

VARIABLES
    bench,     \* the bench: its style, and the cycles it gives the run
    total,     \* total_cycles
    phases,    \* those of in_set_mem_phase, in_run_phase, in_check_mem_phase
               \*   that hold
    clocks,    \* clocks_in_set_mem_phase, and so on
    dbgWrite,  \* debug write port: the address, if dbg_wr_en is set
    dbgAddr,   \* debug read port: the address, if it has been set
    expected,  \* the words expected, as far as they have been compared
    verdict

benchVars == <<bench, total, phases, clocks, dbgWrite, dbgAddr, expected, verdict>>
allVars == <<vars, benchVars>>

Phases == {"set", "run", "check"}
Unset == <<-1, 0>>     \* the value of a word nobody wrote
Other == <<-2, 0>>     \* a word the bench expects by mistake

-----------------------------------------------------------------------------
(* The memory of the bench: the words from the lowest to the highest the   *)
(* body uses.                                                              *)

Used == {Address(loop, i, k) : i \in Places(loop), k \in 0 .. Trip - 1}
Low == CHOOSE a \in Used : \A b \in Used : a <= b
High == CHOOSE a \in Used : \A b \in Used : b <= a
Words == Low .. High
Size == High - Low + 1

\* What executing the loop in order leaves at an address.
Result(address) ==
    LastOf({a \in Places(loop) \X (1 .. Trip) :
               loop.ops[a[1]].kind = "store" /\ Where(a) = address})

-----------------------------------------------------------------------------
(* When things happen in a bench by cycles.                                *)

StartSetCycle == 1
StartRunCycle == StartSetCycle + Size
CheckMemCycle == StartRunCycle + bench.wait

\* The edge at which the last word is compared.
LastCheck ==
    CASE bench.style = "phases" -> 2 * Size + bench.wait + 1
      [] bench.style = "in"     -> CheckMemCycle + Size - 1
      [] bench.style = "on"     -> CheckMemCycle + Size
MaxCycles == LastCheck + 1

\* rst is low.
Running ==
    IF bench.style = "phases" THEN "set" \notin phases ELSE total > StartRunCycle

\* The valid output of the design.
Valid == Over

-----------------------------------------------------------------------------
(* The debug ports of the RAM.                                             *)

\* A debug write comes after the design's in the same edge.
Debugged(memory) ==
    [address \in DOMAIN memory |-> IF address \in dbgWrite THEN Initial ELSE memory[address]]

\* A word is compared with the one expected, which may be wrong.  The verdict
\* says what failed first.
Compare(address, word) ==
    \E e \in {Result(address), Other} :
        /\ expected' = [a \in DOMAIN expected \cup {address} |->
                           IF a = address THEN e ELSE expected[a]]
        /\ verdict' = IF word = e THEN "none" ELSE "failed"

Go == UNCHANGED <<expected, verdict>>
Fail == verdict' = "failed" /\ UNCHANGED expected
Pass == verdict' = "passed" /\ UNCHANGED expected

-----------------------------------------------------------------------------
(* The bench with phases.                                                  *)

\* Mutant: the last word is not set.
SetPhaseShort ==
    dbgWrite' = IF "set" \in phases /\ clocks["set"] < Size - 1
                THEN {Low + clocks["set"]}
                ELSE {}

SetPhase ==
    dbgWrite' = IF "set" \in phases /\ clocks["set"] < Size
                THEN {Low + clocks["set"]}
                ELSE {}

\* The set phase ends when every word has been set, the run phase when its
\* cycles are over.
PhasesChange ==
    phases' =
        (phases \ ((IF clocks["set"] = Size THEN {"set"} ELSE {})
                   \cup (IF clocks["run"] = bench.wait - 1 THEN {"run"} ELSE {})))
        \cup (IF clocks["set"] = Size THEN {"run"} ELSE {})
        \cup (IF clocks["run"] = bench.wait - 1 THEN {"check"} ELSE {})

ClocksCount ==
    clocks' = [p \in Phases |-> IF p \in phases THEN clocks[p] + 1 ELSE clocks[p]]

\* The word compared is the one addressed an edge ago.
CheckPhase ==
    IF "check" \notin phases
    THEN UNCHANGED dbgAddr /\ Go
    ELSE /\ dbgAddr' = IF clocks["check"] < Size THEN {Low + clocks["check"]} ELSE dbgAddr
         /\ IF ~ Valid THEN Fail
            ELSE IF clocks["check"] \in 1 .. Size
            THEN \E a \in dbgAddr : Compare(Low + clocks["check"] - 1, data[a])
            ELSE Go

PhasesEdge ==
    /\ bench.style = "phases"
    /\ PhasesChange
    /\ ClocksCount
    /\ SetPhase
    /\ IF total < MaxCycles
       THEN CheckPhase
       ELSE /\ UNCHANGED dbgAddr
            /\ IF Valid /\ "check" \in phases THEN Pass ELSE Fail

-----------------------------------------------------------------------------
(* The bench by cycles.                                                    *)

SetRAM ==
    dbgWrite' = IF total \in StartSetCycle .. StartSetCycle + Size - 1
                THEN {Low + total - StartSetCycle}
                ELSE IF total = StartSetCycle + Size THEN {} ELSE dbgWrite

\* The cycle that begins now addresses a word and compares it.
CheckRAM ==
    LET word == total + 1 - CheckMemCycle IN
    IF word \in 0 .. Size - 1
    THEN dbgAddr' = {Low + word} /\ Compare(Low + word, data'[Low + word])
    ELSE UNCHANGED dbgAddr /\ Go

\* The word addressed an edge ago is compared.
CheckRAMContents ==
    LET word == total - CheckMemCycle IN
    /\ dbgAddr' = IF word \in 0 .. Size - 1 THEN {Low + word} ELSE dbgAddr
    /\ IF word \in 1 .. Size
       THEN \E a \in dbgAddr : Compare(Low + word - 1, data[a])
       ELSE Go

CyclesEdge ==
    /\ bench.style # "phases"
    /\ SetRAM
    /\ IF total = CheckMemCycle - 1 /\ ~ Valid
       THEN Fail /\ UNCHANGED dbgAddr
       ELSE IF total < MaxCycles
       THEN IF bench.style = "in" THEN CheckRAM ELSE CheckRAMContents
       ELSE Pass /\ UNCHANGED dbgAddr
    /\ UNCHANGED <<phases, clocks>>

-----------------------------------------------------------------------------
(* The bench and the design.                                               *)

BenchInit ==
    /\ \E e \in Experiments : loop = e.loop /\ bench = e.bench
    /\ II \in Intervals
    /\ start \in [Places(loop) -> 0 .. MaxStart]
    /\ MeetsConstraints(loop, start, II)
    /\ now = 0
    /\ issued = <<>>
    /\ data = [address \in Words |-> Unset]
    /\ reg0 = {} /\ reg1 = {}
    /\ got = <<>>
    /\ total = 0
    /\ phases = {"set"}
    /\ clocks = [p \in Phases |-> 0]
    /\ dbgWrite = {}
    /\ dbgAddr = {}
    /\ expected = <<>>
    /\ verdict = "none"

BenchEdge ==
    /\ verdict = "none"
    /\ total' = total + 1
    /\ PhasesEdge \/ CyclesEdge
    /\ UNCHANGED bench

\* The design starts an iteration.
DesignIssues ==
    /\ verdict = "none"
    /\ Running
    /\ Issue
    /\ UNCHANGED benchVars

\* A clock edge while the design runs, and while it is in reset or finished.
RunningEdge ==
    /\ Running
    /\ PortsEdge
    /\ data' = Debugged(Stored)
    /\ BenchEdge

RestingEdge ==
    /\ ~ Running \/ Over
    /\ data' = Debugged(data)
    /\ UNCHANGED <<design, now, issued, reg0, reg1, got>>
    /\ BenchEdge

BenchNext == DesignIssues \/ RunningEdge \/ RestingEdge

BenchSpec == BenchInit /\ [][BenchNext]_allVars

-----------------------------------------------------------------------------
\* The bench gives the slowest run the time it needs.
Generous ==
    bench.wait >= (Trip - 1) * (II + MaxSlack) + MaxStart + 3 + 3

(* A design passes only if it has finished and every word is the one the   *)
(* bench expects; and one that is given enough time fails only if the      *)
(* bench expects a word that executing the loop in order does not leave.   *)
VerdictIsTrue ==
    /\ verdict = "passed" =>
          /\ Over
          /\ DOMAIN expected = Words
          /\ \A address \in Words : data[address] = expected[address]
    /\ verdict = "failed" /\ Generous =>
          \E address \in DOMAIN expected : expected[address] # Result(address)
=============================================================================
