----------------------------- MODULE FloatAdder -----------------------------
(***************************************************************************)
(* The floating point unit of the runtime library: module adder, a state   *)
(* machine that adds two numbers in as many cycles as their exponents      *)
(* need, and module fadd, which hands it the operands of the last start    *)
(* and gives the generated data path a unit with a start signal and an     *)
(* output that is read a fixed number of cycles later.                     *)
(*                                                                         *)
(* The widths of exponent and fraction (8 and 23 in the source) are        *)
(* parameters.  A word is a record of its sign, exponent and fraction      *)
(* field; bit fields are numbers, shifts are divisions.                    *)
(***************************************************************************)
EXTENDS Integers

CONSTANTS ExpBits,    \* width of the exponent field
          FracBits,   \* width of the fraction field
          Operands,   \* the pairs of words the unit is started with
          Followed,   \* the pairs that another start may follow, and follow with
          MaxClock    \* the clock stops counting here

Words == [s : 0..1, e : 0..(2^ExpBits - 1), f : 0..(2^FracBits - 1)]

ASSUME WidthsAssumption == ExpBits \in Nat \ {0, 1} /\ FracBits \in Nat \ {0}
ASSUME OperandsAssumption == Operands \subseteq Words \X Words
                             /\ Followed \subseteq Operands
ASSUME ClockAssumption == MaxClock \in Nat

VARIABLES
  ctl,    \* state, s_input_a_ack, s_input_b_ack and s_output_z_stb of adder
  wrap,   \* state and out_ack of fadd
  x, y,   \* in0_stored and in1_stored of fadd
  a, b,   \* the words adder has taken
  ua, ub, \* a_s, a_e, a_m and b_s, b_e, b_m
  sum,    \* the sum before it is normalised
  n,      \* z_s, z_e, z_m, guard, round_bit and sticky
  z,      \* the word being assembled
  out,    \* s_output_z, the output of both modules
  clock   \* cycles since the last start

vars == <<ctl, wrap, x, y, a, b, ua, ub, sum, n, z, out, clock>>

Bias == 2^(ExpBits - 1) - 1
EMin == 1 - Bias
Hidden == 2^(FracBits + 3)        \* the leading bit, above fraction and three guard bits
Bit(v, i) == (v \div 2^i) % 2
Or(v, w) == IF v = 0 THEN w ELSE 1
Min(v, w) == IF v < w THEN v ELSE w

NaN(sign) == [s |-> sign, e |-> 2^ExpBits - 1, f |-> 2^(FracBits - 1)]
Inf(sign) == [s |-> sign, e |-> 2^ExpBits - 1, f |-> 0]

IsSpecial(u) == u.e = Bias + 1
IsZero(u) == u.e = -Bias /\ u.m = 0
Repack(u, sign) == [s |-> sign, e |-> (u.e + Bias) % 2^ExpBits, f |-> u.m \div 8]

Idle == [state |-> "get_a", a_ack |-> FALSE, b_ack |-> FALSE, z_stb |-> FALSE]
a_stb == wrap.state = "setting_a"
b_stb == wrap.state # "setting_a"

-----------------------------------------------------------------------------
(* The states of adder.  en is the start signal of fadd, wired to the      *)
(* reset of adder: it overrules the control registers alone.               *)

GotoRunning(c, en) == ctl' = c    \* mutant: a start does not stop the adder
Goto(c, en) == ctl' = IF en THEN Idle ELSE c

GetA(en) ==
  /\ ctl.state = "get_a"
  /\ IF ctl.a_ack /\ a_stb
       THEN a' = x /\ Goto([ctl EXCEPT !.a_ack = FALSE, !.state = "get_b"], en)
       ELSE a' = a /\ Goto([ctl EXCEPT !.a_ack = TRUE], en)
  /\ UNCHANGED <<b, ua, ub, sum, n, z, out>>

GetB(en) ==
  /\ ctl.state = "get_b"
  /\ IF ctl.b_ack /\ b_stb
       THEN b' = y /\ Goto([ctl EXCEPT !.b_ack = FALSE, !.state = "unpack"], en)
       ELSE b' = b /\ Goto([ctl EXCEPT !.b_ack = TRUE], en)
  /\ UNCHANGED <<a, ua, ub, sum, n, z, out>>

Unpack(en) ==
  /\ ctl.state = "unpack"
  /\ ua' = [s |-> a.s, e |-> a.e - Bias, m |-> a.f * 8]
  /\ ub' = [s |-> b.s, e |-> b.e - Bias, m |-> b.f * 8]
  /\ Goto([ctl EXCEPT !.state = "special_cases"], en)
  /\ UNCHANGED <<a, b, sum, n, z, out>>

SpecialWord ==     \* in the order of the tests
  CASE (IsSpecial(ua) /\ ua.m # 0) \/ (IsSpecial(ub) /\ ub.m # 0) -> NaN(1)
    [] IsSpecial(ua) -> IF IsSpecial(ub) /\ ua.s # ub.s THEN NaN(ub.s) ELSE Inf(ua.s)
    [] IsSpecial(ub) -> Inf(ub.s)
    [] IsZero(ua) /\ IsZero(ub) -> Repack(ub, Min(ua.s, ub.s))
    [] IsZero(ua) -> Repack(ub, ub.s)
    [] IsZero(ub) -> Repack(ua, ua.s)

Significant(u) ==  \* a denormalised number has no leading bit
  IF u.e = -Bias THEN [u EXCEPT !.e = EMin] ELSE [u EXCEPT !.m = @ + Hidden]

SpecialCases(en) ==
  /\ ctl.state = "special_cases"
  /\ IF \E u \in {ua, ub} : IsSpecial(u) \/ IsZero(u)
       THEN /\ z' = SpecialWord
            /\ Goto([ctl EXCEPT !.state = "put_z"], en)
            /\ UNCHANGED <<ua, ub>>
       ELSE /\ ua' = Significant(ua) /\ ub' = Significant(ub)
            /\ Goto([ctl EXCEPT !.state = "align"], en)
            /\ z' = z
  /\ UNCHANGED <<a, b, sum, n, out>>

\* mutant: what is shifted out is lost
ShiftOut(u) == [u EXCEPT !.e = @ + 1, !.m = @ \div 2]
\* One bit to the right; what is shifted out sticks to the last bit.
ShiftSticky(u) == [u EXCEPT !.e = @ + 1,
                            !.m = (@ \div 4) * 2 + Or(Bit(@, 0), Bit(@, 1))]

Align(en) ==
  /\ ctl.state = "align"
  /\ ub' = IF ua.e > ub.e THEN ShiftSticky(ub) ELSE ub
  /\ ua' = IF ua.e < ub.e THEN ShiftSticky(ua) ELSE ua
  /\ Goto([ctl EXCEPT !.state = IF ua.e = ub.e THEN "add_0" ELSE "align"], en)
  /\ UNCHANGED <<a, b, sum, n, z, out>>

Add0(en) ==
  /\ ctl.state = "add_0"
  /\ sum' = CASE ua.s = ub.s -> ua.m + ub.m
              [] ua.s # ub.s /\ ua.m >= ub.m -> ua.m - ub.m
              [] OTHER -> ub.m - ua.m
  /\ n' = [n EXCEPT !.e = ua.e,
                    !.s = IF ua.s = ub.s \/ ua.m >= ub.m THEN ua.s ELSE ub.s]
  /\ Goto([ctl EXCEPT !.state = "add_1"], en)
  /\ UNCHANGED <<a, b, ua, ub, z, out>>

Add1(en) ==
  /\ ctl.state = "add_1"
  /\ n' = IF sum >= 2 * Hidden
            THEN [s |-> n.s, e |-> n.e + 1, m |-> sum \div 16, guard |-> Bit(sum, 3),
                  round |-> Bit(sum, 2), sticky |-> Or(Bit(sum, 1), Bit(sum, 0))]
            ELSE [s |-> n.s, e |-> n.e, m |-> sum \div 8, guard |-> Bit(sum, 2),
                  round |-> Bit(sum, 1), sticky |-> Bit(sum, 0)]
  /\ Goto([ctl EXCEPT !.state = "normalise_1"], en)
  /\ UNCHANGED <<a, b, ua, ub, sum, z, out>>

Normalise1(en) ==
  /\ ctl.state = "normalise_1"
  /\ IF n.m < 2^FracBits /\ n.e > EMin
       THEN /\ n' = [n EXCEPT !.e = @ - 1, !.m = @ * 2 + n.guard,
                              !.guard = n.round, !.round = 0]
            /\ Goto(ctl, en)
       ELSE n' = n /\ Goto([ctl EXCEPT !.state = "normalise_2"], en)
  /\ UNCHANGED <<a, b, ua, ub, sum, z, out>>

Normalise2(en) ==
  /\ ctl.state = "normalise_2"
  /\ IF n.e < EMin
       THEN /\ n' = [n EXCEPT !.e = @ + 1, !.m = @ \div 2, !.guard = Bit(n.m, 0),
                              !.round = n.guard, !.sticky = Or(@, n.round)]
            /\ Goto(ctl, en)
       ELSE n' = n /\ Goto([ctl EXCEPT !.state = "round"], en)
  /\ UNCHANGED <<a, b, ua, ub, sum, z, out>>

RoundsUp == n.guard = 1 /\ (n.round = 1 \/ n.sticky = 1 \/ Bit(n.m, 0) = 1)

Round(en) ==       \* z_m keeps its width when it is all ones
  /\ ctl.state = "round"
  /\ n' = IF RoundsUp
            THEN [n EXCEPT !.m = (@ + 1) % 2^(FracBits + 1),
                           !.e = IF n.m = 2^(FracBits + 1) - 1 THEN @ + 1 ELSE @]
            ELSE n
  /\ Goto([ctl EXCEPT !.state = "pack"], en)
  /\ UNCHANGED <<a, b, ua, ub, sum, z, out>>

Pack(en) ==
  /\ ctl.state = "pack"
  /\ z' = IF n.e > Bias
            THEN Inf(n.s)
            ELSE [s |-> n.s,
                  e |-> IF n.e = EMin /\ n.m < 2^FracBits
                          THEN 0 ELSE (n.e + Bias) % 2^ExpBits,
                  f |-> n.m % 2^FracBits]
  /\ Goto([ctl EXCEPT !.state = "put_z"], en)
  /\ UNCHANGED <<a, b, ua, ub, sum, n, out>>

PutZ(en) ==
  /\ ctl.state = "put_z"
  /\ out' = z
  /\ IF ctl.z_stb /\ wrap.out_ack
       THEN Goto([ctl EXCEPT !.z_stb = FALSE, !.state = "get_a"], en)
       ELSE Goto([ctl EXCEPT !.z_stb = TRUE], en)
  /\ UNCHANGED <<a, b, ua, ub, sum, n, z>>

Adder(en) ==
  \/ GetA(en) \/ GetB(en) \/ Unpack(en) \/ SpecialCases(en) \/ Align(en)
  \/ Add0(en) \/ Add1(en) \/ Normalise1(en) \/ Normalise2(en) \/ Round(en)
  \/ Pack(en) \/ PutZ(en)

-----------------------------------------------------------------------------
(* fadd: a start stores the operands; after an answer the same operands    *)
(* are offered again, and again, until the next start.                     *)

Started == [state |-> "setting_a", out_ack |-> FALSE]

Handshake ==
  wrap' = CASE ctl.z_stb -> [state |-> "setting_a", out_ack |-> TRUE]
            [] ~ctl.z_stb /\ ctl.a_ack -> [state |-> "setting_b", out_ack |-> FALSE]
            [] ~ctl.z_stb /\ ~ctl.a_ack /\ ctl.b_ack -> [wrap EXCEPT !.state = "waiting"]
            [] OTHER -> wrap

Init ==            \* after the edge of the first start
  /\ \E p \in Operands : x = p[1] /\ y = p[2]
  /\ ctl = Idle
  /\ wrap = Started
  /\ a = Inf(0) /\ b = Inf(0) /\ z = Inf(0) /\ out = Inf(0)
  /\ ua = [s |-> 0, e |-> 0, m |-> 0] /\ ub = ua /\ sum = 0
  /\ n = [s |-> 0, e |-> 0, m |-> 0, guard |-> 0, round |-> 0, sticky |-> 0]
  /\ clock = 1

Run ==
  /\ Adder(FALSE)
  /\ Handshake
  /\ clock' = Min(clock + 1, MaxClock)
  /\ UNCHANGED <<x, y>>

Start ==           \* whatever the unit is doing
  /\ <<x, y>> \in Followed
  /\ \E p \in Followed : x' = p[1] /\ y' = p[2]
  /\ Adder(TRUE)
  /\ wrap' = Started
  /\ clock' = 1

Next == Run \/ Start

Spec == Init /\ [][Next]_vars

-----------------------------------------------------------------------------
(* What a sum is, without the algorithm: magnitudes are counted in units   *)
(* of the smallest number, and a result is the nearest one there is.       *)

\* The value of a magnitude given by its exponent and fraction fields.
Magnitude(e, f) == IF e = 0 THEN f ELSE (2^FracBits + f) * 2^(e - 1)

\* Fields joined, as in the word: they order the magnitudes.  Infinity
\* stands where the next binade would begin.
MaxJoined == (2^ExpBits - 1) * 2^FracBits
Value == [j \in 0..MaxJoined |-> Magnitude(j \div 2^FracBits, j % 2^FracBits)]
Distance(v, w) == IF v < w THEN w - v ELSE v - w

Nearest == [v \in 0..(2 * Value[MaxJoined]) |->
  CHOOSE j \in 0..MaxJoined :
    \A k \in {j - 1, j + 1} \cap 0..MaxJoined :
      \/ Distance(Value[j], v) < Distance(Value[k], v)
      \/ Distance(Value[j], v) = Distance(Value[k], v) /\ j % 2 = 0]

IsNaN(w) == w.e = 2^ExpBits - 1 /\ w.f # 0
IsInf(w) == w = Inf(w.s)
Number(w) == (IF w.s = 1 THEN -1 ELSE 1) * Magnitude(w.e, w.f)

\* r is the sum of v and w rounded to the nearest number, ties to even; the
\* sign of an exact zero from operands that cancel is left open.
IsSum(r, v, w) ==
  LET exact == Number(v) + Number(w)
      near == Nearest[Distance(exact, 0)]
  IN IF IsNaN(v) \/ IsNaN(w) THEN IsNaN(r)
     ELSE IF IsInf(v) /\ IsInf(w) THEN IF v.s = w.s THEN r = v ELSE IsNaN(r)
     ELSE IF IsInf(v) THEN r = v
     ELSE IF IsInf(w) THEN r = w
     ELSE /\ r.e = near \div 2^FracBits
          /\ r.f = near % 2^FracBits
          /\ exact # 0 => (r.s = 1) = (exact < 0)
          /\ exact = 0 /\ v.s = w.s => r.s = v.s

\* Fifteen cycles, and one for every bit the operands are shifted by: by
\* their distance before they are added, or back when they cancel.
Duration == 16 + 2^ExpBits - 3

-----------------------------------------------------------------------------
(* Every register stays within its width: exponents have two bits more     *)
(* than their field and are signed, significands keep their guard bits     *)
(* (builtins.v 683-689).                                                   *)
TypeOK ==
  /\ ctl.state \in {"get_a", "get_b", "unpack", "special_cases", "align", "add_0",
                    "add_1", "normalise_1", "normalise_2", "round", "pack", "put_z"}
  /\ wrap.state \in {"setting_a", "setting_b", "waiting"}
  /\ {x, y, a, b, z, out} \subseteq Words
  /\ {ua.e, ub.e, n.e} \subseteq -(2^(ExpBits + 1)) .. (2^(ExpBits + 1) - 1)
  /\ {ua.m, ub.m} \subseteq 0..(2^(FracBits + 4) - 1)
  /\ sum \in 0..(2^(FracBits + 5) - 1)
  /\ n.m \in 0..(2^(FracBits + 1) - 1)

(* The word the adder answers with is the correctly rounded sum of the     *)
(* operands of the last start, for all words, denormalised numbers,        *)
(* infinities and NaN included, also when a start interrupts a sum.        *)
AnswersAreSums == ctl.z_stb => IsSum(out, x, y)

(* From Duration cycles after a start on, and for as long as no other      *)
(* start follows, the output is the sum: fadd adds the same operands over  *)
(* and over, and none of this shows at the output the data path reads.     *)
AnswersInTime == clock >= Duration => IsSum(out, x, y)

(* The schedule gives a floating point addition twenty cycles              *)
(* (standardConstraints, scheduling.cpp 111), and the data path reads the  *)
(* output when they have passed.                                           *)
Latency == 20
AnswersWithinLatency == clock >= Latency => IsSum(out, x, y)
=============================================================================
