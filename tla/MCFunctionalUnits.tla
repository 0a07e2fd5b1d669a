------------------------- MODULE MCFunctionalUnits -------------------------
(* Every kind of instruction, with words of four bits and longs of eight:  *)
(* all operands of one word, and the boundaries of a long.                 *)
EXTENDS FunctionalUnits

I(op, w, args, x) == [op |-> op, w |-> w, args |-> args, x |-> x]
Reg(w, v) == [kind |-> "reg", w |-> w, v |-> v]
Const(w, v) == [kind |-> "const", w |-> w, v |-> v]
LivePhi(w, v) == [kind |-> "phi", w |-> w, v |-> v]
Alloca == [kind |-> "alloca", w |-> Word, v |-> 0]
Nothing == [none |-> TRUE]

Words == 0..(2^Word - 1)
Longs == {0, 1, 2^Word - 1, 2^Word, 2^(Double - 1) - 1, 2^(Double - 1), 2^Double - 1}
Regs(w) == {Reg(w, v) : v \in IF w = Double THEN Longs ELSE 0..(2^w - 1)}
Consts(w) == {Const(w, v) : v \in IF w = Double THEN {-(2^(Word - 1)), -1, 7, 2^Word + 1}
                                  ELSE -(2^(w - 1)) .. 2^(w - 1) - 1}
Operands(w) == Regs(w) \cup Consts(w)

Second(op, w) ==
  CASE op \in {"Shl", "LShr", "AShr"} -> {Reg(w, v) : v \in 0..(w - 1)} \cup {Const(w, 3)}
    [] op = "SRem" -> {r \in Regs(w) : r.v # 0}
    [] OTHER -> Operands(w)

BinaryJobs ==
  UNION {{I(op, w, <<a, b>>, Nothing) : a \in Regs(w), b \in Second(op, w)} :
           <<op, w>> \in {"Add", "Sub", "Mul", "And", "Or", "Shl", "LShr", "AShr"} \X {Word, Double}
                         \cup {<<"SRem", Word>>, <<"FMul", Word>>, <<"Xor", Word>>, <<"FAdd", Word>>}}
CompareJobs ==
  UNION {{I("ICmp", 1, <<a, b>>, [pred |-> p]) : a \in Regs(w), b \in Operands(w)} :
           w \in {Word, Double}, p \in {"eq", "ne", "sgt", "slt", "ult", "sge"}}
ExtremeJobs ==
  UNION {{I(op, w, <<a, b>>, Nothing) : a \in Regs(w), b \in Regs(w)} :
           op \in {"Min", "Max"}, w \in {1, Word}}
ResizeJobs ==
  {I("Trunc", Word, <<a>>, Nothing) : a \in Regs(Double)}
  \cup {I("ZExt", Double, <<a>>, Nothing) : a \in Regs(Word) \cup Regs(1)}
  \cup {I("SExt", Double, <<a>>, Nothing) : a \in Regs(Word) \cup Regs(2)}
  \cup {I(op, 2, <<a>>, [offset |-> n]) : op \in {"Slice", "Field"}, a \in Regs(Double), n \in 0..6}
AddressJobs ==
  {I("GEP", Word, <<b, n>>, Nothing) : b \in {Alloca} \cup Regs(Word), n \in Operands(Word) \cup Operands(Double)}
  \cup {I("GEP", Word, <<b, z, n>>, Nothing) : b \in {Alloca, Reg(Word, 7)}, z \in {Const(Word, 0), Reg(Word, 3)}, n \in Operands(Word)}
  \cup {I("GEP", Word, <<Alloca, Alloca, Alloca, Alloca>>, Nothing)}

Incoming(w) == {Reg(w, 1), Reg(w, 2^w - 1), LivePhi(w, 1), LivePhi(w, 2^w - 1), Const(w, -1), Const(w, 0)}
PhiJobs ==
  UNION {{I("PHI", w, <<a, b>>, [blocks |-> <<2, 1>>, last |-> l]) : a \in Incoming(w), b \in Incoming(w)} :
           w \in {1, Word, Double}, l \in {1, 2}}
  \cup UNION {{I("PHI", w, <<a, b, c>>, [blocks |-> <<5, 0, 3>>, last |-> l]) :
                 a \in Incoming(w), b \in Incoming(w), c \in Incoming(w)} :
           w \in {1, Word}, l \in {0, 3, 5}}

(* Conditions of the control path: which block, which branch.              *)
CheckJobs ==
  {I("checkEqual", 1, <<a, b>>, Nothing) : a \in {Const(Word, n) : n \in 0..7} \cup Regs(Word), b \in Regs(Word)}
  \cup {I(op, 1, <<a, b>>, Nothing) : op \in {"checkAnd", "checkOr"}, a \in Regs(1), b \in Regs(1)}
  \cup {I("checkNotWire", 1, <<a>>, Nothing) : a \in Regs(1)}
SelectJobs == {I("Select", Word, <<Reg(1, c), Reg(Word, 3), Reg(Word, 5)>>, Nothing) : c \in 0..1}
ReturnJobs == {I("Ret", 0, <<>>, Nothing)} \cup {I("Ret", Word, <<a>>, Nothing) : a \in Operands(Word)}

Stores(field, spec) ==
  {I("Store", Word, <<a, Alloca>>, [field |-> field, offset |-> 2, mem |-> "m", unit |-> "register", spec |-> spec]) :
     a \in {Reg(Word, 5), Const(Word, -1)}}
Load(spec) == I("Load", Word, <<Alloca>>, [field |-> FALSE, mem |-> "m", unit |-> "register", spec |-> spec])
FieldLoads == {I("Load", Word, <<a>>, [field |-> TRUE, spec |-> s]) : a \in Regs(Word), s \in BOOLEAN}

Access(op, port, v, args) ==
  I(op, Word, args, [fifo |-> "f", argument |-> TRUE, port |-> port, value |-> v])

MemoryJobs(spec) ==
  {<<a, Load(spec), b>> : a \in Stores(FALSE, spec), b \in Stores(FALSE, spec)}
  \cup {<<Load(spec), a>> : a \in Stores(FALSE, spec)}
  \cup {<<a>> : a \in Stores(FALSE, spec)} \cup {<<Load(spec)>>}
SharedJobs ==
  MemoryJobs(TRUE) \cup MemoryJobs(FALSE)
  \cup {<<a>> : a \in Stores(TRUE, FALSE)}
  \cup {<<Access("PortWrite", "in_data", 0, <<a>>), Access("PortWrite", "write_valid", 0, <<Const(1, 1)>>),
          Access("PortWrite", "read_valid", 0, <<Const(1, 1)>>), Access("PortRead", "out_data", 9, <<>>)>> :
          a \in Operands(Word)}

MCJobs ==
  SharedJobs
  \cup {<<i>> : i \in BinaryJobs \cup CompareJobs \cup ExtremeJobs \cup ResizeJobs \cup AddressJobs
                       \cup PhiJobs \cup CheckJobs \cup SelectJobs \cup ReturnJobs \cup FieldLoads}
=============================================================================
