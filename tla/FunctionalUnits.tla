-------------------------- MODULE FunctionalUnits --------------------------
(***************************************************************************)
(* From instructions to a working unit: the instructions bound to one unit *)
(* are connected to its ports, each for the cycles in which its block is   *)
(* active in its state (instructionPortAssignments, buildPortControllers), *)
(* the assignments are turned into Verilog (verilog_backend.cpp), and the  *)
(* unit computes (UnitLibrary).  Results are read as many cycles after the *)
(* start as the scheduler was told (getLatency).                           *)
(*                                                                         *)
(* Operands are wires that hold their value.  An operand is a constant, an *)
(* allocation, a value in a register or argument ("reg"), or the output of *)
(* a phi in the same cycle ("phi").  The instructions of one unit become   *)
(* active one after the other, when the one before has ended: that is what *)
(* the schedule's constraints are for (LoopMemory).                        *)
(***************************************************************************)
EXTENDS ModuleSpecs
LOCAL INSTANCE SequencesExt

CONSTANTS
  Jobs,      (* sequences of instructions bound to one unit                *)
  MaxUses    (* bound on how often the unit is used                        *)

VARIABLES
  users,     (* the instructions                                           *)
  stage,     (* "bind", "connect", "run" or "refused"                      *)
  unit,      (* the unit of the first of them                              *)
  setters,   (* for each net, who sets it and to what: portVals            *)
  connected, (* the number of instructions connected                       *)
  current,   (* the one that became active last, 0 before the first        *)
  age,       (* the cycles since then: it is active when this is 0         *)
  uses,
  data,      (* the register of the unit, if it is a memory                *)
  stored     (* history: what the instructions stored in it                *)

vars == <<users, stage, unit, setters, connected, current, age, uses, data, stored>>

-----------------------------------------------------------------------------
(* Wires.  A constant passes through an int of the compiler.               *)
Wire(w, v) == [width |-> w, value |-> Cut(v, w), isConst |-> FALSE]
constWire(w, v) == [width |-> w, value |-> AsSigned(Cut(v, Word), Word), isConst |-> TRUE]

(* The least int has no negation: what is printed is no Verilog.           *)
Printable(wire) == ~(wire.isConst /\ wire.value = -(2^(Word - 1)))

(* A wire assigned to a net: a negative constant is extended before its    *)
(* sign is put in front of it.                                             *)
OnNet(wire, w) ==
  IF wire.isConst /\ wire.value < 0 THEN Cut(-Cut(-wire.value, wire.width), w)
  ELSE Cut(Cut(wire.value, wire.width), w)

outputWire(a) ==
  CASE a.kind = "alloca" -> constWire(Word, 0)
    [] a.kind = "const" -> constWire(a.w, a.v)
    [] a.kind = "phi" -> Wire(Word, a.v)
    [] a.kind = "reg" -> Wire(a.w, a.v)

concatWires(in0, in1) ==
  LET p == concatSpec(in0.width, in1.width).params
  IN  Wire(in0.width + in1.width,
           Evaluate("concat", p, [in0 |-> OnNet(in0, in0.width), in1 |-> OnNet(in1, in1.width)]))

mixWires(main, inner, offset) ==
  LET p == mixSpec(main.width, inner.width, offset).params
  IN  Wire(main.width,
           Evaluate("mixOp", p, [main |-> OnNet(main, main.width),
                                 inner |-> OnNet(inner, inner.width)]))

(* The pairs of a phi: every wire but the first is put below those before. *)
PackedBelow(wires) ==
  FoldLeft(LAMBDA packed, wire : concatWires(wire, packed), Head(wires), Tail(wires))

(* A field is stored in the middle of zeros.                               *)
StoredWire(i) ==
  IF i.x.field THEN mixWires(constWire(Wide, 0), outputWire(i.args[1]), i.x.offset)
  ELSE outputWire(i.args[1])

(* instructionPortAssignments: the wire for each port an instruction sets. *)
instructionPortAssignments(i) ==
  LET wires == [k \in DOMAIN i.args |-> outputWire(i.args[k])]
      two == [in0 |-> wires[1], in1 |-> wires[2]]
  IN CASE i.op = "Ret" -> [valid |-> constWire(1, 1)]
                          @@ IF i.args = <<>> THEN None ELSE [return_value |-> wires[1]]
       [] i.op = "Store" -> [waddr |-> wires[2], wdata |-> StoredWire(i),
                             wen |-> constWire(1, 1)]
       [] i.op = "Load" -> IF i.x.field THEN [in_data |-> wires[1]] ELSE [raddr |-> wires[1]]
       [] i.op \in {"Trunc", "SExt", "ZExt", "Slice", "Field", "checkNotWire"} -> [in |-> wires[1]]
       [] i.op = "FAdd" -> two @@ [en |-> constWire(1, 1)]
       [] i.op \in (BinaryOperators \ {"FAdd"}) \cup {"ICmp", "Min", "Max"} -> two
       [] i.op \in Checks \ {"checkNotWire"} -> two
       [] i.op = "GEP" -> [base_addr |-> wires[1], in1 |-> wires[2]]
                          @@ IF Len(wires) = 2 THEN None ELSE [in2 |-> wires[3]]
       [] i.op = "PHI" -> [in |-> PackedBelow(wires),
                           s |-> PackedBelow([k \in DOMAIN wires |-> constWire(Word, i.x.blocks[k])]),
                           last_block |-> Wire(Word, i.x.last)]
       [] i.op = "Select" -> [in0 |-> wires[3], in1 |-> wires[2], sel |-> wires[1]]
       [] i.op = "PortWrite" -> [p \in {i.x.port} |-> wires[1]]
       [] OTHER -> None

-----------------------------------------------------------------------------
(* The scheduler's view: the cycles from an instruction's start to its end.*)
standardConstraints == [STORE_OP |-> 3, LOAD_OP |-> 1, FADD_OP |-> 20, FMUL_OP |-> 3]
registerSpec == [readLatency |-> 0, writeLatency |-> 1]

getLatency(i) ==
  CASE i.op = "Store" -> IF i.x.spec THEN registerSpec.writeLatency
                                     ELSE standardConstraints.STORE_OP
    [] i.op = "Load" -> IF i.x.spec THEN registerSpec.readLatency
                                    ELSE standardConstraints.LOAD_OP
    [] i.op = "FAdd" -> standardConstraints.FADD_OP
    [] i.op = "FMul" -> standardConstraints.FMUL_OP
    [] OTHER -> 0

-----------------------------------------------------------------------------
(* The Verilog of a net.                                                   *)
stateless(u) ==
  u.module.name \in {"add", "sub", "shlOp", "mul", "phi", "getelementptr_2", "ne", "eq",
                     "trunc", "sext", "slt", "andOp", "notOp", "sgt", "orOp", "concat",
                     "sliceOp", "mixOp"}

Values(net) == {s.wire : s \in setters[net]}

(* Mutant: whatever the unit.                                              *)
OneValue(net) == Cardinality(Values(net)) = 1
(* A port that is given one value only is connected to it for good, if the *)
(* unit keeps nothing from cycle to cycle.  (The ports the module declares *)
(* insensitive are looked up by the name of the net and never found.)      *)
statelessConnection(net) == Cardinality(Values(net)) = 1 /\ stateless(unit)

Active == IF age = 0 THEN current ELSE 0

(* Nets nobody sets are not driven; a write enable that is not does not    *)
(* write.  All defaults, given or not, are zero.                           *)
Driven(p) ==
  LET net == unit.portWires[p]
  IN  CASE net.name \notin DOMAIN setters -> 0
        [] statelessConnection(net.name) -> OnNet(CHOOSE v \in Values(net.name) : TRUE, net.width)
        [] \E s \in setters[net.name] : s.user = Active ->
             OnNet((CHOOSE s \in setters[net.name] : s.user = Active).wire, net.width)
        [] OTHER -> 0

Drive == [p \in DOMAIN unit.portWires |-> Driven(p)]

IsMemory == unit.module.name = "register"

(* What is read from the wire of the instruction's result.                 *)
Result(i) ==
  Cut(CASE IsMemory -> data
        [] i.op = "PortRead" -> i.x.value
        [] OTHER -> Evaluate(unit.module.name, unit.module.params, Drive),
      dataOutputWire(i, unit).width)

-----------------------------------------------------------------------------
Init ==
  /\ users \in Jobs
  /\ stage = "bind"
  /\ unit = None /\ setters = None /\ connected = 0
  /\ current = 0 /\ age = 1 /\ uses = 0
  /\ data = 0 /\ stored = 0     \* what the register holds when it powers up

(* Two ports on one net: the net is declared twice.                        *)
NetsClash(u) ==
  \E p, q \in DOMAIN u.portWires : p # q /\ u.portWires[p].name = u.portWires[q].name

Bind ==
  /\ stage = "bind"
  /\ LET u == createUnit(users[1], "unit")
     IN  IF u.module.name = "assertion" \/ NetsClash(u)
           THEN stage' = "refused" /\ unit' = unit
           ELSE stage' = "connect" /\ unit' = u
  /\ UNCHANGED <<users, setters, connected, current, age, uses, data, stored>>

(* map::insert keeps what is there; the condition is new for every user.   *)
Connect ==
  /\ stage = "connect"
  /\ LET k == connected + 1
         mine == createUnit(users[k], "unit")
         wires == instructionPortAssignments(users[k])
         nets == {mine.portWires[p].name : p \in DOMAIN wires}
         Set(net) == LET p == CHOOSE q \in DOMAIN wires : mine.portWires[q].name = net
                     IN  {[user |-> k, wire |-> wires[p]]}
     IN  /\ connected' = k
         /\ stage' = CASE \E p \in DOMAIN wires : ~Printable(wires[p]) -> "refused"
                       [] k = Len(users) -> "run"
                       [] OTHER -> "connect"
         /\ setters' = [net \in DOMAIN setters \cup nets |->
              (IF net \in DOMAIN setters THEN setters[net] ELSE {})
              \cup (IF net \in nets THEN Set(net) ELSE {})]
  /\ UNCHANGED <<users, unit, current, age, uses, data, stored>>

Edge ==
  /\ data' = IF IsMemory THEN registerEdge(data, Driven("wen"), Driven("wdata")) ELSE data
  /\ stored' = IF Active # 0 /\ users[Active].op = "Store"
                 THEN Cut(users[Active].args[1].v, users[Active].w) ELSE stored
  /\ UNCHANGED <<users, stage, unit, setters, connected>>

(* The next access begins when this one ends, a store's successor in the   *)
(* cycle in which it ends.                                                 *)
Ended(i) == age + (IF i.op = "Store" THEN 1 ELSE 0) >= getLatency(i)

Activate(k) ==
  /\ stage = "run" /\ uses < MaxUses
  /\ current # 0 => Ended(users[current])
  /\ current' = k /\ age' = 0 /\ uses' = uses + 1
  /\ Edge

Wait ==
  /\ stage = "run" /\ current # 0 /\ age <= getLatency(users[current])
  /\ age' = age + 1
  /\ UNCHANGED <<current, uses>>
  /\ Edge

Next == Bind \/ Connect \/ Wait \/ \E k \in DOMAIN users : Activate(k)
Spec == Init /\ [][Next]_vars

-----------------------------------------------------------------------------
(* What an instruction means, in LLVM: operand k as a number without or    *)
(* with sign.                                                              *)
Unsigned(i, k) == Cut(i.args[k].v, i.args[k].w)
Signed(i, k) == AsSigned(Unsigned(i, k), i.args[k].w)
Either(c, a, b) == IF c THEN a ELSE b
BitOf(v, j) == (v \div 2^j) % 2

Predicate(i) ==
  CASE i.x.pred = "eq" -> Signed(i, 1) = Signed(i, 2)
    [] i.x.pred = "ne" -> Signed(i, 1) # Signed(i, 2)
    [] i.x.pred = "sgt" -> Signed(i, 1) > Signed(i, 2)
    [] i.x.pred = "slt" -> Signed(i, 1) < Signed(i, 2)
    [] i.x.pred = "ult" -> Unsigned(i, 1) < Unsigned(i, 2)

(* The remainder with the sign of the dividend and less than the divisor.  *)
SignedRemainder(a, b) ==
  CHOOSE r \in -(2^Word) .. 2^Word :
    /\ r * a >= 0 /\ r * r < b * b
    /\ \E q \in -(2^Word) .. 2^Word : a = q * b + r

Bitwise2(i, both) ==
  LET Bits == {j \in 0..(i.w - 1) :
                 Either(both, BitOf(Unsigned(i, 1), j) = 1 /\ BitOf(Unsigned(i, 2), j) = 1,
                        BitOf(Unsigned(i, 1), j) = 1 \/ BitOf(Unsigned(i, 2), j) = 1)}
  IN  CHOOSE v \in 0..(2^i.w - 1) : Bits = {j \in 0..(i.w - 1) : BitOf(v, j) = 1}

Meaning(i) ==
  Cut(CASE i.op = "Add" -> Signed(i, 1) + Signed(i, 2)
        [] i.op = "Sub" -> Signed(i, 1) - Signed(i, 2)
        [] i.op = "Mul" -> Signed(i, 1) * Signed(i, 2)
        [] i.op = "And" -> Bitwise2(i, TRUE)
        [] i.op = "Or" -> Bitwise2(i, FALSE)
        [] i.op = "SRem" -> SignedRemainder(Signed(i, 1), Signed(i, 2))
        [] i.op = "Shl" -> Unsigned(i, 1) * 2^Unsigned(i, 2)
        [] i.op = "LShr" -> Unsigned(i, 1) \div 2^Unsigned(i, 2)
        [] i.op = "AShr" -> Signed(i, 1) \div 2^Unsigned(i, 2)
        [] i.op = "Min" -> Either(Unsigned(i, 1) < Unsigned(i, 2), Unsigned(i, 1), Unsigned(i, 2))
        [] i.op = "Max" -> Either(Unsigned(i, 1) > Unsigned(i, 2), Unsigned(i, 1), Unsigned(i, 2))
        [] i.op = "ICmp" -> Either(Predicate(i), 1, 0)
        [] i.op \in {"Trunc", "ZExt"} -> Unsigned(i, 1)
        [] i.op = "SExt" -> Signed(i, 1)
        [] i.op \in {"Slice", "Field"} -> Unsigned(i, 1) \div 2^i.x.offset
        [] i.op = "GEP" -> Signed(i, 1) + Signed(i, 2) + Either(Len(i.args) = 2, 0, Signed(i, Len(i.args)))
        [] i.op = "PHI" -> Unsigned(i, CHOOSE k \in DOMAIN i.args : i.x.blocks[k] = i.x.last)
        [] i.op = "Select" -> Either(Unsigned(i, 1) = 1, Unsigned(i, 2), Unsigned(i, 3))
        [] i.op = "checkEqual" -> Either(Signed(i, 1) = Signed(i, 2), 1, 0)
        [] i.op = "checkAnd" -> Bitwise2(i, TRUE)
        [] i.op = "checkOr" -> Bitwise2(i, FALSE)
        [] i.op = "checkNotWire" -> -1 - Signed(i, 1)
        [] i.op = "Load" -> IF i.x.field THEN Unsigned(i, 1) ELSE stored
        [] i.op = "PortRead" -> i.x.value,
      i.w)

(* The ports an instruction without a result of its own is to set.         *)
PortsMeant(i) ==
  CASE i.op = "Ret" -> [valid |-> 1]
                       @@ IF i.args = <<>> THEN None ELSE [return_value |-> Unsigned(i, 1)]
    [] i.op = "Store" -> [wen |-> 1, wdata |-> Unsigned(i, 1)]
    [] i.op = "FAdd" -> [en |-> 1, in0 |-> Unsigned(i, 1), in1 |-> Unsigned(i, 2)]
    [] i.op = "PortWrite" -> [p \in {i.x.port} |-> Unsigned(i, 1)]
    [] OTHER -> None

(* The operands the generated hardware is not right for.                   *)
ConstantFits(a) == a.kind = "const" => Signed([args |-> <<a>>], 1) \in -(2^(Word - 1)) .. 2^(Word - 1) - 1

Unreliable(i) ==
  \/ \E k \in DOMAIN i.args : ~ConstantFits(i.args[k])
  \/ i.op \in {"Min", "Max"} /\ InWidth(i) > 1           \* an output of one bit
  \/ i.op \in {"AShr", "SExt"} /\ Signed(i, 1) < 0        \* zeros, not the sign
  \/ i.op = "PHI" /\ i.w > Word                           \* the result is a word
  \/ i.op = "PHI" /\ i.w < Word                           \* a word among narrower values
       /\ \E k \in DOMAIN i.args : i.args[k].kind = "phi" /\ k # 1
  \/ i.op = "Store" /\ i.x.field                          \* the other fields are lost
  \/ ReadsField(i) /\ getLatency(i) > 0                   \* read when the wire is idle again

Unsupported(i) ==
  \/ i.op \in {"FMul", "Xor", "Select"}
  \/ i.op = "ICmp" /\ i.x.pred \notin DOMAIN cmpName
  \/ i.op = "GEP" /\ Len(i.args) > 3
  \/ \E k \in DOMAIN i.args : i.args[k].kind = "const"
       /\ Cut(i.args[k].v, Word) = 2^(Word - 1)            \* the least int

-----------------------------------------------------------------------------
(* When an instruction's result is read, it is what LLVM says it computes, *)
(* and the ports it is to set are set while it is active: from the choice  *)
(* of the module over the order of a phi's pairs, widths, constants and    *)
(* latencies to the arithmetic of the library.  Only unsupported           *)
(* instructions stop the compiler.                                         *)
ComputesTheInstruction ==
  /\ stage = "refused" => \E k \in DOMAIN users : Unsupported(users[k])
  /\ stage = "run" /\ current # 0 /\ ~Unreliable(users[current]) =>
       LET i == users[current]
       IN  /\ age = 0 => \A p \in DOMAIN PortsMeant(i) : Driven(p) = PortsMeant(i)[p]
           /\ age = getLatency(i) /\ PortsMeant(i) = None => Result(i) = Meaning(i)

(* A port that makes a unit act (writes, starts, says that a result or a   *)
(* word is there) is raised only in the cycles of an instruction that      *)
(* raises it: neither a cycle in which the unit is unused nor one in which *)
(* another instruction uses it may write or start anything.                *)
ControlPorts == {"wen", "valid", "en", "read_valid", "write_valid"}
ActsWhenTold ==
  stage = "run" => \A p \in ControlPorts \cap DOMAIN unit.portWires :
    Driven(p) = 1 => /\ Active # 0
                     /\ p \in DOMAIN PortsMeant(users[Active])
                     /\ PortsMeant(users[Active])[p] = 1
=============================================================================
