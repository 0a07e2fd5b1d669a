------------------------------ MODULE DataPath ------------------------------
(***************************************************************************)
(* The data path of the generated hardware, for one value: the registers   *)
(* that hold it from state to state beside the control path of Control,    *)
(* and what its user reads.  A run of the instruction that makes the value *)
(* is an instance of it; instances are numbered round and round.           *)
(***************************************************************************)
EXTENDS Control, LiveValues

CONSTANTS
  Values(_),  (* the values to consider for a function                     *)
  Instances   (* as many instances are told apart                          *)

ASSUME InstancesAssumption == Instances \in Nat \ {0, 1}

VARIABLES
  plan,       (* the plan for the value: it does not change                *)
  lastState,  (* state_<s>_last_state                                      *)
  store,      (* data_store_<s>: the instance it holds                     *)
  made,       (* the instance made last: no register of the design         *)
  begun,      (* the iteration of the maker's pipeline begun last, if it   *)
              (* is made in one: likewise                                  *)
  iteration,  (* that of each state of this pipeline: likewise             *)
  returned    (* the function has returned: likewise                       *)

dataVars == <<vars, plan, lastState, store, made, begun, iteration, returned>>

None == 0     (* the reset value of the registers: no instance             *)
Following(i) == (i % Instances) + 1
V == plan.v
MakersPipe == G.pipe[V.at]
MadeInPipe == MakersPipe # NoPipeline
InMakersPipe(s) == MadeInPipe /\ G.pipe[s] = MakersPipe

(* data_in_<s>.                                                            *)
InputOf(s) ==
  IF lastState[s] \in plan.prior[s] \cap plan.stores THEN store[lastState[s]]
  ELSE None

Making == BlockActive(V.at, V.blk)
Instance == IF MadeInPipe THEN iteration[V.at] ELSE Following(made)

(* The user runs and takes the value.                                      *)
Using == /\ BlockActive(V.uat, V.user)
         /\ V.phi => Predecessor(V.uat, V.user) = V.pred

Wire == IF entryBB[V.uat] \in DOMAIN plan.route THEN plan.route[entryBB[V.uat]]
        ELSE "zero"

(* What the user reads.                                                    *)
Read == CASE Wire = "live" -> IF Making THEN Instance ELSE None
          [] Wire = "stored" -> InputOf(V.uat)
          [] OTHER -> None

-----------------------------------------------------------------------------
(* addStateTransition writes the register when the jump is decided, also   *)
(* when it then waits.                                                     *)
LastStateNext(s) ==
  IF LastWrites(s) = {} THEN lastState[s]
  ELSE (CHOOSE j \in LastWrites(s) : TRUE).at

(* buildDataPathSetLogic.                                                  *)
StoreNext(s) ==
  CASE s \notin plan.stores -> None
    [] s \in plan.stores /\ s = V.at -> IF Making THEN Instance ELSE store[s]
    [] OTHER -> IF s \in active /\ s \in plan.inputs THEN InputOf(s) ELSE store[s]

DataInit ==
  /\ Init
  /\ plan \in {Plan(G, v) : v \in Values(G)}
  /\ lastState = [s \in States(G) |-> 0]
  /\ store = [s \in States(G) |-> None]
  /\ made = None
  /\ begun = None
  /\ iteration = [s \in States(G) |-> None]
  /\ returned = FALSE

DataCycle ==
  /\ Cycle
  /\ lastState' = [s \in States(G) |-> LastStateNext(s)]
  /\ store' = [s \in States(G) |-> StoreNext(s)]
  /\ made' = IF Making THEN Instance ELSE made
  /\ begun' = IF MadeInPipe /\ Starts(MakersPipe) \in active' THEN Following(begun)
              ELSE begun
  /\ iteration' = [s \in States(G) |->
       IF ~InMakersPipe(s) THEN None
       ELSE IF s = Starts(MakersPipe) THEN begun'
       ELSE iteration[s - 1]]
  /\ returned' = (returned \/ \E j \in design.jumps : j.kind = "return" /\ Happens(j))
  /\ UNCHANGED plan

DataSpec == DataInit /\ [][DataCycle]_dataVars

-----------------------------------------------------------------------------
DataTypeOK ==
  /\ plan.inputs \subseteq States(G) /\ plan.stores \subseteq States(G)
  /\ lastState \in [States(G) -> States(G)]
  /\ store \in [States(G) -> 0 .. Instances]
  /\ {made, begun} \subseteq 0 .. Instances
  /\ iteration \in [States(G) -> 0 .. Instances]

(* In the order of the program, the blocks of a state run along the edges  *)
(* taken in it.                                                            *)
Further(S) ==
  S \cup {e[2] : e \in {f \in design.inState[V.uat] :
                         f[1] \in S /\ EdgeTaken(f[1], f[2])}}

RunsBefore(b, c) ==
  LET after[n \in 0 .. Cardinality(Blocks(G))] ==
        IF n = 0 THEN {b} ELSE Further(after[n - 1])
  IN  c # b /\ c \in after[Cardinality(Blocks(G))]

(* The instance the program means: in a pipelined loop that of the user's  *)
(* own iteration, or of the one before if the value comes around the loop; *)
(* otherwise the last one made, in this cycle if the maker runs first.     *)
Meant ==
  CASE InMakersPipe(V.uat) ->
         IF V.phi THEN {i \in 1 .. Instances : Following(i) = iteration[V.uat]}
         ELSE {iteration[V.uat]}
    [] ~MadeInPipe /\ Making /\ V.uat = V.at
       /\ (RunsBefore(V.blk, V.user) \/ (V.blk = V.user /\ ~V.phi)) -> {Instance}
    [] OTHER -> {made}

(* An instruction reads the value the program would read there, whatever   *)
(* way control came, however many blocks run in a cycle and iterations in  *)
(* flight: it is neither overwritten by a younger one nor left behind.     *)
(* (A function that has returned repeats its last state, see Control.)     *)
ReadsWhatIsMeant == Using /\ ~returned => Read \in Meant

(* Where outputWire gives the user no wire it does not run: "the user will *)
(* never be referenced in a trace that starts with this block"             *)
(* (microarchitecture.cpp).                                                *)
SkippedEntriesNeverUse == Using /\ ~returned => Wire # "zero"

(* The generator finds a place for every value that is read from storage:  *)
(* the assertions of mostRecentStorageLocation hold.                       *)
StorageFound ==
  (\E e \in DOMAIN plan.route : plan.route[e] = "stored") => V.uat \in plan.inputs
=============================================================================
