---------------------------- MODULE UnitLibrary ----------------------------
(***************************************************************************)
(* The modules of the runtime library (builtins.v) that compute: for each  *)
(* the widths of its inputs and of its output, and the output as a         *)
(* function of its inputs.  A value is a number below 2 to its width; p    *)
(* are the parameters an instance is given.                                *)
(***************************************************************************)
EXTENDS Integers, FiniteSets
LOCAL INSTANCE Bitwise

CONSTANT Word      \* the width of addresses and block numbers, 32 in the source

Cut(v, w) == v % 2^w
AsSigned(v, w) == IF v >= 2^(w - 1) THEN v - 2^w ELSE v
Truth(b) == IF b THEN 1 ELSE 0
Field(v, offset, w) == Cut(v \div 2^offset, w)
clog2(n) == CHOOSE k \in 0..n : 2^k >= n /\ \A j \in 0..(k - 1) : 2^j < n

(* What % leaves has the sign of the dividend.                             *)
Remainder(a, b) ==
  LET Abs(n) == IF n < 0 THEN -n ELSE n
  IN  IF a < 0 THEN -(Abs(a) % Abs(b)) ELSE Abs(a) % Abs(b)

Arithmetic == {"add", "sub", "mul", "andOp", "orOp", "sremOp"}
Comparisons == {"eq", "ne", "sgt", "slt", "ult"}
Extremes == {"minOp", "maxOp"}
Shifts == {"shlOp", "lshrOp", "ashrOp"}
Resizers == {"trunc", "zext", "sliceOp"}

InputWidths(module, p) ==
  CASE module \in Arithmetic \cup Comparisons \cup Extremes ->
         [in0 |-> p.WIDTH, in1 |-> p.WIDTH]
    [] module \in Shifts -> [in0 |-> p.WIDTH, in1 |-> clog2(p.WIDTH)]
    [] module \in Resizers -> [in |-> p.IN_WIDTH]
    [] module = "sext" -> [in |-> Word]
    [] module = "notOp" -> [in |-> p.WIDTH]
    [] module = "getelementptr_1" -> [base_addr |-> Word, in1 |-> Word]
    [] module = "getelementptr_2" -> [base_addr |-> Word, in1 |-> Word, in2 |-> Word]
    [] module = "mixOp" -> [main |-> p.IN0_WIDTH, inner |-> p.IN1_WIDTH]
    [] module = "concat" -> [in0 |-> p.IN0_WIDTH, in1 |-> p.IN1_WIDTH]
    [] module = "select" -> [sel |-> 1, in0 |-> p.WIDTH, in1 |-> p.WIDTH]
    [] module = "phi" -> [last_block |-> Word, s |-> Word * p.NB_PAIR,
                          in |-> p.WIDTH * p.NB_PAIR]
    [] module = "hls_wire" -> [in_data |-> p.WIDTH]

(* minOp and maxOp have an output of one bit.                              *)
OutputWidth(module, p) ==
  CASE module \in Arithmetic \cup Shifts \cup {"notOp", "select", "phi", "hls_wire"} -> p.WIDTH
    [] module \in Comparisons \cup Extremes -> 1
    [] module \in Resizers -> p.OUT_WIDTH
    [] module = "sext" -> 2 * Word
    [] module \in {"getelementptr_1", "getelementptr_2"} -> Word
    [] module = "mixOp" -> p.IN0_WIDTH
    [] module = "concat" -> p.IN0_WIDTH + p.IN1_WIDTH

Matches(p, in) == {k \in 0..(p.NB_PAIR - 1) : in.last_block = Field(in.s, Word * k, Word)}
(* The loop over the pairs goes on after it has found one.                 *)
LastMatch(p, in) == CHOOSE k \in Matches(p, in) : \A j \in Matches(p, in) : k >= j

(* A phi entered from a block that is not in its list has no value: 0      *)
(* stands for it.  sext fills up with zeros, and >>> shifts zeros in since *)
(* its operand is not signed.                                              *)
Output(module, p, in) ==
  LET w == p.WIDTH
      signed(port) == AsSigned(in[port], w)
  IN Cut(CASE module = "add" -> in.in0 + in.in1
           [] module = "sub" -> in.in0 - in.in1
           [] module = "mul" -> in.in0 * in.in1
           [] module = "andOp" -> in.in0 & in.in1
           [] module = "orOp" -> in.in0 | in.in1
           [] module = "sremOp" -> Remainder(signed("in0"), signed("in1"))
           [] module = "minOp" -> IF in.in0 >= in.in1 THEN in.in1 ELSE in.in0
           [] module = "maxOp" -> IF in.in0 >= in.in1 THEN in.in0 ELSE in.in1
           [] module = "eq" -> Truth(in.in0 = in.in1)
           [] module = "ne" -> Truth(in.in0 # in.in1)
           [] module = "sgt" -> Truth(signed("in0") > signed("in1"))
           [] module = "slt" -> Truth(signed("in0") < signed("in1"))
           [] module = "ult" -> Truth(in.in0 < in.in1)
           [] module = "shlOp" -> in.in0 * 2^in.in1
           [] module \in {"lshrOp", "ashrOp"} -> in.in0 \div 2^in.in1
           [] module \in {"trunc", "zext", "sext"} -> in.in
           [] module = "sliceOp" -> Field(in.in, p.OFFSET, p.OUT_WIDTH)
           [] module = "notOp" -> 2^w - 1 - in.in
           [] module = "getelementptr_1" -> in.base_addr + in.in1
           [] module = "getelementptr_2" -> in.base_addr + in.in1 + in.in2
           [] module = "mixOp" ->
                Field(in.main, p.MAIN_OFFSET + p.IN1_WIDTH, p.IN0_WIDTH)
                  * 2^(p.MAIN_OFFSET + p.IN1_WIDTH)
                + in.inner * 2^p.MAIN_OFFSET + Cut(in.main, p.MAIN_OFFSET)
           [] module = "concat" -> in.in1 * 2^p.IN0_WIDTH + in.in0
           [] module = "select" -> IF in.sel = 1 THEN in.in1 ELSE in.in0
           [] module = "phi" -> IF Matches(p, in) = {} THEN 0
                                ELSE Field(in.in, w * LastMatch(p, in), w)
           [] module = "hls_wire" -> in.in_data,
         OutputWidth(module, p))

(* An instance whose ports are connected to nets of given values: each     *)
(* port takes the bits it has room for.                                    *)
Evaluate(module, p, nets) ==
  LET widths == InputWidths(module, p)
  IN  Output(module, p, [port \in DOMAIN widths |-> Cut(nets[port], widths[port])])

-----------------------------------------------------------------------------
(* Storage, at a clock edge.                                               *)
registerEdge(data, wen, wdata) == IF wen = 1 THEN wdata ELSE data
=============================================================================
