------------------------------ MODULE Control ------------------------------
(***************************************************************************)
(* The control path of the generated hardware (microarchitecture.cpp):     *)
(* which states of the schedule are active, which basic block an active    *)
(* state executes and from which block control came, cycle by cycle.       *)
(*                                                                         *)
(* The design is a scheduled function as StateGraph elaborates it; it does *)
(* not change while the hardware runs, and BlockSchedule says which ones   *)
(* the scheduler can produce.  Cycle is one clock edge.  The data path is  *)
(* abstracted to the value each branch condition has in the cycle.         *)
(***************************************************************************)
EXTENDS StateGraph

CONSTANTS
  Functions,  (* the scheduled functions to consider                       *)
  MaxCount    (* the delay counters stop here; they are 32 bits wide       *)

ASSUME FunctionAssumption ==
  /\ \A g \in Functions : IsScheduled(g)
  /\ MaxCount \in Nat
  /\ \A g \in Functions : \A j \in Jumps(g) : j.delay < MaxCount

VARIABLES
  design,
  active,     (* the states s with state_<s>_is_active                     *)
  entryBB,    (* state_<s>_entry_BB_reg                                    *)
  lastBB,     (* state_<s>_last_BB_reg                                     *)
  outOfPipe,  (* the pairs <<s, t>> with out_of_pipe_<s>_<t>, which always *)
              (* equals out_of_pipe_bb_<s>_<t>                             *)
  stored,     (* the jumps whose delayed_signal_ register is up            *)
  waited,     (* the counter_ of the delayed jumps out of each state       *)
  condTrue,   (* wires: the blocks whose branch condition is 1             *)
  bbActive    (* wires: the <<s, b>> with bb_<b>_active_in_state_<s>      *)

registers == <<active, entryBB, lastBB, outOfPipe, stored, waited>>
wires == <<condTrue, bbActive>>
vars == <<design, registers, wires>>

G == design.g
Conditional == {b \in Blocks(G) : Len(G.succ[b]) = 2}
-----------------------------------------------------------------------------
(* Mutant: the edge out of a branch taken whatever the condition.          *)
ChosenAlways(b, c) == \E i \in DOMAIN G.succ[b] : G.succ[b][i] = c

(* The condition of the edge b -> c.  The map of these wires keeps the     *)
(* first insertion, so a branch with equal targets keeps its true side.    *)
Chosen(b, c) ==
  LET succ == G.succ[b]
  IN  \/ Len(succ) = 1 /\ c = succ[1]
      \/ Len(succ) = 2 /\ c = succ[1] /\ b \in condTrue
      \/ Len(succ) = 2 /\ c = succ[2] /\ c # succ[1] /\ b \notin condTrue

(* A block is active in a state if it is the state's entry block or an     *)
(* edge into it inside the state is taken; only the wires of active states *)
(* are of use.  They form no loop because the control predecessors do not. *)
Entered == {p \in active \X Blocks(G) :
              p[2] \in BlocksIn(G, p[1]) /\ entryBB[p[1]] = p[2]}

Onward(e, on) ==
  G.br[e[1]] \in active /\ <<G.br[e[1]], e[1]>> \in on /\ Chosen(e[1], e[2])

Spread(on) ==
  on \cup UNION {{<<s, e[2]>> : e \in {f \in design.inState[s] : Onward(f, on)}} :
                   s \in active}

Settled[n \in 0 .. Cardinality(Blocks(G))] ==
  IF n = 0 THEN Entered ELSE Spread(Settled[n - 1])

ActiveWires == Settled[Cardinality(Blocks(G))]

BlockActive(s, b) == s \in active /\ <<s, b>> \in bbActive

EdgeTaken(b, c) == BlockActive(G.br[b], b) /\ Chosen(b, c)

(* bb_<b>_predecessor_in_state_<s>.                                        *)
Predecessor(s, b) ==
  LET inside == {e[1] : e \in {f \in design.inState[s] :
                                 f[2] = b /\ EdgeTaken(f[1], b)}}
  IN  IF entryBB[s] = b THEN lastBB[s]
      ELSE IF inside = {} THEN NoBlock ELSE CHOOSE p \in inside : TRUE

-----------------------------------------------------------------------------
(* All tasks start with the entry block: a jump out of a task is "taken"   *)
(* in the cycle in which that block is active in its first state.          *)
Happens(j) ==
  IF j.kind # "branch" THEN BlockActive(j.at, j.src)
  ELSE IF j.outOfTask THEN BlockActive(G.first[Entry], Entry)
  ELSE EdgeTaken(j.src, j.dest)

Pipelines == DOMAIN design.pipes
Starts(p) == design.pipes[p].entry
InPipe(p) == design.pipes[p].states \cap active # {}
(* Mutants: the exit does not wait for the pipeline to drain; it waits for *)
(* the terminal state too.                                                 *)
ExitAtOnce(p) == InPipe(p)
ExitWhenEmpty(p) == InPipe(p) /\ design.pipes[p].states \cap active = {}

ExitNextCycle(p) ==
  /\ InPipe(p)
  /\ design.pipes[p].states \cap active \subseteq {design.pipes[p].terminal}

(* The condition under which the active registers are set.                 *)
Arrives(j) ==
  IF j.leaves
    THEN <<j.at, j.target>> \in outOfPipe /\ ExitNextCycle(G.pipe[j.at])
  ELSE IF j.delay > 0 THEN j \in stored /\ waited[j.at] = j.delay
  ELSE Happens(j)

(* Mutant: a block that goes on does not hand its number to the next state.*)
EntryWritesNotStay(s) ==
  {j \in design.jumps : j.target = s /\ j.kind = "branch" /\ Happens(j)}

(* addBlockJump holds back the entry block of an exit from a pipeline, but *)
(* not that of a jump that waits inside one.  A return to the default      *)
(* state leaves the entry block of that state alone.                       *)
EntryWrites(s) ==
  {j \in design.jumps :
     /\ j.target = s
     /\ IF j.kind = "branch" /\ j.leaves THEN Arrives(j) ELSE Happens(j)
     /\ j.kind = "return" => G.retState = NoState}

LastWrites(s) == {j \in design.jumps : j.target = s /\ Happens(j)}

(* Mutants: the block itself for one that goes on; its predecessor for one *)
(* that branches.                                                          *)
LastBlockSource(j) == j.src
LastBlockBefore(j) == Predecessor(j.at, j.src)
LastBlock(j) == IF j.kind = "branch" THEN j.src ELSE Predecessor(j.at, j.src)

(* Several assignments in one cycle: the textually last wins, which        *)
(* depends on the names of the wires; NoOverlappingTransitions says where  *)
(* that cannot happen.                                                     *)
EntryNext(s) ==
  IF EntryWrites(s) = {} THEN entryBB[s]
  ELSE (CHOOSE j \in EntryWrites(s) : TRUE).dest

LastNext(s) ==
  IF LastWrites(s) = {} THEN lastBB[s]
  ELSE LastBlock(CHOOSE j \in LastWrites(s) : TRUE)

-----------------------------------------------------------------------------
(* The reset: the entry block has number 0, and 0 is what the last-block   *)
(* registers are reset to.                                                 *)
Init ==
  /\ design \in {Elaborate(g) : g \in Functions}
  /\ active = design.starts
  /\ entryBB = [s \in States(G) |-> Entry]
  /\ lastBB = [s \in States(G) |-> Entry]
  /\ outOfPipe = {}
  /\ stored = {}
  /\ waited = [s \in States(G) |-> 0]
  /\ condTrue \in SUBSET Conditional
  /\ bbActive = ActiveWires

Cycle ==
  /\ active' = UNION {j.sets : j \in {k \in design.jumps : Arrives(k)}}
  /\ entryBB' = [s \in States(G) |-> EntryNext(s)]
  /\ lastBB' = [s \in States(G) |-> LastNext(s)]
  /\ outOfPipe' = outOfPipe \cup
       {<<j.at, j.target>> : j \in {k \in design.jumps : k.leaves /\ Happens(k)}}
  /\ stored' = {j \in design.jumps :
       j.delay > 0 /\ IF j.at \in active THEN Happens(j) ELSE j \in stored}
  /\ waited' = [s \in States(G) |->
       IF s \in active \/ s \notin design.waits THEN 0
       ELSE IF waited[s] = MaxCount THEN MaxCount ELSE waited[s] + 1]
  /\ condTrue' \in SUBSET Conditional
  /\ UNCHANGED design
  /\ bbActive' = ActiveWires'

Spec == Init /\ [][Cycle]_vars
FairSpec == Spec /\ WF_vars(Cycle)

-----------------------------------------------------------------------------
TypeOK ==
  /\ IsScheduled(G)
  /\ active \subseteq States(G)
  /\ entryBB \in [States(G) -> Blocks(G)]
  /\ lastBB \in [States(G) -> Blocks(G)]
  /\ outOfPipe \subseteq States(G) \X States(G)
  /\ stored \subseteq design.jumps
  /\ waited \in [States(G) -> 0 .. MaxCount]
  /\ condTrue \subseteq Conditional
  /\ bbActive \subseteq States(G) \X Blocks(G)

AtMostOne(S) == \A x, y \in S : x = y

(* The checks verilog_backend.cpp can put into a design: of the conditions *)
(* of a register at most one is up.                                        *)
noOverlappingStateTransitions(s) ==
  AtMostOne({j \in design.jumps : s \in j.sets /\ Arrives(j)})
noOverlappingBlockTransitions(s) == AtMostOne(EntryWrites(s))
noOverlappingLastBlockTransitions(s) == AtMostOne(LastWrites(s))

(* None of the three fails in any state of the schedule, so the order in   *)
(* which the assignments are printed does not matter.                      *)
NoOverlappingTransitions ==
  \A s \in States(G) :
    /\ noOverlappingStateTransitions(s)
    /\ noOverlappingBlockTransitions(s)
    /\ noOverlappingLastBlockTransitions(s)

(* An active state executes: the block its register names is scheduled in  *)
(* it.  Otherwise the state is active with no block, does nothing and has  *)
(* no successor.                                                           *)
ActiveStatesExecute == \A s \in active : entryBB[s] \in BlocksIn(G, s)
=============================================================================
