---------------------------- MODULE ModuleSpecs ----------------------------
(***************************************************************************)
(* What hardware an instruction gets: the description of its module that   *)
(* buildModSpec binds it to (binding.cpp), and the unit of that module,    *)
(* with a net for every port, that createUnit makes of it                  *)
(* (microarchitecture.cpp).                                                *)
(*                                                                         *)
(* An instruction i is a record: its opcode op, the width w of its result, *)
(* its operands args, each with a kind, a width w and a value v, and in x  *)
(* what only some opcodes have: the predicate of a comparison, the offset  *)
(* of a field, the blocks of a phi, the memory or the port of an access.   *)
(***************************************************************************)
EXTENDS UnitLibrary, Sequences, TLC

CONSTANT Wide      \* the width of mixOp's result, 192 in the source

ASSUME WidthAssumption == Word \in Nat \ {0} /\ Wide \in Nat \ {0}

Double == 2 * Word

inputPort(w, name) == [isInput |-> TRUE, width |-> w, name |-> name]
outputPort(w, name) == [isInput |-> FALSE, width |-> w, name |-> name]

None == <<>>     \* no parameters, no ports, no default values
Spec3(params, name, ports) ==
  [params |-> params, name |-> name, ports |-> ports, defaults |-> None]
Refused == Spec3(None, "assertion", None)   \* the compiler stops

TwoInputs(w, out) == [in0 |-> inputPort(w, "in0"), in1 |-> inputPort(w, "in1"),
                      out |-> outputPort(out, "out")]
OneInput(w, out) == [in |-> inputPort(w, "in"), out |-> outputPort(out, "out")]
Resizing(in, out) == [IN_WIDTH |-> in, OUT_WIDTH |-> out]

(* The width of the first operand.                                         *)
InWidth(i) == i.args[1].w
-----------------------------------------------------------------------------
binopName == [Add |-> "add", Mul |-> "mul", Sub |-> "sub", FAdd |-> "fadd",
              And |-> "andOp", Or |-> "orOp", Shl |-> "shlOp", SRem |-> "sremOp",
              AShr |-> "ashrOp", LShr |-> "lshrOp"]
cmpName == [eq |-> "eq", sgt |-> "sgt", slt |-> "slt", ne |-> "ne", ult |-> "ult"]

BinaryOperators == DOMAIN binopName \cup {"FMul", "Xor"}

BinopSpec(i) ==
  CASE i.op \notin DOMAIN binopName -> Refused
    [] i.op = "FAdd" ->
         [Spec3(None, "fadd", TwoInputs(i.w, i.w) @@ [en |-> inputPort(1, "en")])
            EXCEPT !.defaults = [en |-> 0]]
    [] OTHER -> Spec3([WIDTH |-> i.w], binopName[i.op], TwoInputs(i.w, i.w))

CmpSpec(i) ==
  IF i.x.pred \notin DOMAIN cmpName THEN Refused
  ELSE Spec3([WIDTH |-> InWidth(i)], cmpName[i.x.pred], TwoInputs(InWidth(i), 1))

(* The port of the value is misspelt; createUnit does not look at it.      *)
ReturnSpec(i) ==
  [Spec3(None, "ret", [valid |-> inputPort(1, "valid")]
                       @@ IF i.args = <<>> THEN None
                          ELSE [return_valud |-> inputPort(InWidth(i), "return_value")])
     EXCEPT !.defaults = [valid |-> 0] @@ IF i.args = <<>> THEN None
                                          ELSE [return_value |-> 0]]

SliceSpec(i) ==
  Spec3(Resizing(InWidth(i), i.w) @@ [OFFSET |-> i.x.offset], "sliceOp",
        OneInput(InWidth(i), i.w))

MinMaxSpec(i) ==
  Spec3([WIDTH |-> InWidth(i)], IF i.op = "Min" THEN "minOp" ELSE "maxOp",
        TwoInputs(InWidth(i), InWidth(i)))

TruncSpec(i) == Spec3(Resizing(InWidth(i), i.w), "trunc", OneInput(InWidth(i), i.w))
ZExtSpec(i) == Spec3(Resizing(InWidth(i), i.w), "zext", OneInput(InWidth(i), i.w))
SExtSpec(i) == Spec3(None, "sext", OneInput(Word, Double))

(* The address of an element of a memory: base and indices are added.      *)
GepSpec(i) ==
  LET address == [base_addr |-> inputPort(Word, "base_addr"),
                  in1 |-> inputPort(Word, "in1"), out |-> outputPort(Word, "out")]
  IN  CASE Len(i.args) = 2 -> Spec3(None, "getelementptr_1", address)
        [] Len(i.args) = 3 -> Spec3(None, "getelementptr_2",
                                    address @@ [in2 |-> inputPort(Word, "in2")])
        [] OTHER -> Refused

(* The address of a field of a struct: its bits are cut out.               *)
FieldSpec(i) ==
  Spec3(Resizing(InWidth(i), i.w) @@ [OFFSET |-> i.x.offset], "sliceOp",
        OneInput(InWidth(i), i.w))

(* Mutant: as wide as one value.                                           *)
PhiSpecOfOne(i) ==
  LET n == Len(i.args)
  IN  Spec3([WIDTH |-> i.w, NB_PAIR |-> n], "phi",
            [last_block |-> inputPort(Word, "last_block"),
             s |-> inputPort(Word * n, "s"), in |-> inputPort(i.w, "in"),
             out |-> outputPort(Word, "out")])

(* The result is a word, whatever the width of the phi.                    *)
PhiSpec(i) ==
  LET n == Len(i.args)
  IN  Spec3([WIDTH |-> i.w, NB_PAIR |-> n], "phi",
            [last_block |-> inputPort(Word, "last_block"),
             s |-> inputPort(Word * n, "s"), in |-> inputPort(i.w * n, "in"),
             out |-> outputPort(Word, "out")])

(* Two ports have the same name.                                           *)
SelectSpec(i) ==
  Spec3([WIDTH |-> i.args[2].w], "select",
        TwoInputs(i.args[2].w, 10) @@ [sel |-> inputPort(1, "in1")])

(* The ports of a fifo: its client's reads and writes go to them by name.  *)
fifoSpec(width) ==
  [Spec3([WIDTH |-> width], "fifo",
         [in_data |-> inputPort(width, "in_data"),
          read_valid |-> inputPort(1, "read_valid"),
          write_valid |-> inputPort(1, "write_valid"),
          out_data |-> outputPort(width, "out_data"),
          read_ready |-> outputPort(1, "read_ready"),
          write_ready |-> outputPort(1, "write_ready")])
     EXCEPT !.defaults = [read_valid |-> 0, write_valid |-> 0]]

(* A memory that is not an argument is a register unless it has a          *)
(* specification.  A struct's field is read through a wire.                *)
ReadsField(i) == i.op = "Load" /\ i.x.field

MemorySpec(i) ==
  CASE ReadsField(i) -> Spec3([WIDTH |-> i.w], "hls_wire", None)
    [] i.op = "Store" -> Spec3([WIDTH |-> i.w], i.x.unit, None)
    [] OTHER -> [Spec3([WIDTH |-> i.w], i.x.unit,
                       [raddr |-> inputPort(Word, "raddr"),
                        rdata |-> outputPort(i.w, "rdata"),
                        wen |-> inputPort(1, "wen"),
                        wdata |-> inputPort(i.w, "wdata"),
                        waddr |-> inputPort(Word, "waddr")])
                   EXCEPT !.defaults = [wen |-> 0]]

buildModSpec(i) ==
  CASE i.op \in {"Load", "Store"} -> MemorySpec(i)
    [] i.op \in BinaryOperators -> BinopSpec(i)
    [] i.op = "Ret" -> ReturnSpec(i)
    [] i.op = "Slice" -> SliceSpec(i)
    [] i.op \in {"Min", "Max"} -> MinMaxSpec(i)
    [] i.op = "Trunc" -> TruncSpec(i)
    [] i.op = "ICmp" -> CmpSpec(i)
    [] i.op = "Br" -> Spec3(None, "br_dummy", None)
    [] i.op = "GEP" -> GepSpec(i)
    [] i.op = "Field" -> FieldSpec(i)
    [] i.op = "PHI" -> PhiSpec(i)
    [] i.op = "Select" -> SelectSpec(i)
    [] i.op \in {"PortRead", "PortWrite"} -> fifoSpec(i.w)
    [] i.op \in {"Alloca", "BitCast"} -> Spec3(None, "add", None)
    [] i.op = "SExt" -> SExtSpec(i)
    [] i.op = "ZExt" -> ZExtSpec(i)

-----------------------------------------------------------------------------
(* The logic the generator adds by itself.                                 *)
comparatorSpec(name, w) == Spec3([WIDTH |-> w], name, TwoInputs(w, 1))
binopSpec(name, w) == Spec3([WIDTH |-> w], name, TwoInputs(w, w))
unopSpec(name, w) ==
  Spec3([WIDTH |-> w], name,
        [in |-> inputPort(w, "in0"), out |-> outputPort(w, "out")])
concatSpec(w0, w1) ==
  Spec3([IN0_WIDTH |-> w0, IN1_WIDTH |-> w1], "concat",
        [in0 |-> inputPort(w0, "in0"), in1 |-> inputPort(w1, "in1"),
         out |-> outputPort(w0 + w1, "out")])
mixSpec(w0, w1, offset) ==
  Spec3([IN0_WIDTH |-> w0, IN1_WIDTH |-> w1, MAIN_OFFSET |-> offset], "mixOp",
        [main |-> inputPort(w0, "main"), inner |-> inputPort(w1, "inner"),
         out |-> outputPort(w0, "out")])

Checks == {"checkEqual", "checkAnd", "checkOr", "checkNotWire"}
CheckSpec(i) ==
  CASE i.op = "checkEqual" -> comparatorSpec("eq", i.args[2].w)
    [] i.op = "checkAnd" -> binopSpec("andOp", InWidth(i))
    [] i.op = "checkOr" -> binopSpec("orOp", InWidth(i))
    [] i.op = "checkNotWire" -> unopSpec("notOp", InWidth(i))

-----------------------------------------------------------------------------
(* A unit: its module, and for each port a net of a name and a width.      *)
Net(name, w) == [name |-> name, width |-> w]
PortsThat(spec, isInput) == {p \in DOMAIN spec.ports : spec.ports[p].isInput = isInput}

functionalUnitForSpec(unitName, spec) ==
  LET NetOf(p) == Net(<<unitName, spec.ports[p].name>>, spec.ports[p].width)
  IN  [module |-> spec, instName |-> unitName, external |-> FALSE,
       portWires |-> [p \in PortsThat(spec, TRUE) |-> NetOf(p)],
       outWires |-> [p \in PortsThat(spec, FALSE) |-> NetOf(p)]]

(* The accesses of a memory share its unit.                                *)
createMemUnit(i, unitName) ==
  IF ReadsField(i)
    THEN [module |-> buildModSpec(i), instName |-> unitName, external |-> FALSE,
          portWires |-> [in_data |-> Net(<<unitName, "in">>, i.w)],
          outWires |-> [out_data |-> Net(<<unitName, "out">>, i.w)]]
    ELSE LET mem == i.x.mem
         IN  [module |-> buildModSpec(i), instName |-> mem, external |-> FALSE,
              portWires |-> [wen |-> Net(<<"wen", mem>>, 1),
                             waddr |-> Net(<<"waddr", mem>>, Word),
                             wdata |-> Net(<<"wdata", mem>>, i.w),
                             raddr |-> Net(<<"raddr", mem>>, Word)],
              outWires |-> [rdata |-> Net(<<"rdata", mem>>, i.w)]]

(* A return drives the outputs of the design.                              *)
ReturnUnit(i, unitName) ==
  [module |-> buildModSpec(i), instName |-> unitName, external |-> TRUE,
   portWires |-> [valid |-> Net(<<"valid">>, 1)]
                 @@ IF i.args = <<>> THEN None
                    ELSE [return_value |-> Net(<<"return_value">>, InWidth(i))],
   outWires |-> None]

(* unitName is unlike that of any other instruction.  Instructions that    *)
(* are wires only have a unit without ports.                               *)
createUnit(i, unitName) ==
  CASE i.op \in {"Load", "Store"} -> createMemUnit(i, unitName)
    [] i.op = "Ret" -> ReturnUnit(i, unitName)
    [] i.op \in {"PortRead", "PortWrite"} ->
         [functionalUnitForSpec(i.x.fifo, buildModSpec(i)) EXCEPT !.external = i.x.argument]
    [] i.op \in Checks -> functionalUnitForSpec(unitName, CheckSpec(i))
    [] OTHER -> functionalUnitForSpec(unitName, buildModSpec(i))

(* The wire an instruction's result is read from.                          *)
dataOutputWire(i, unit) ==
  IF i.op = "PortRead" THEN unit.outWires[i.x.port]
  ELSE unit.outWires[CHOOSE p \in DOMAIN unit.outWires : TRUE]
=============================================================================
