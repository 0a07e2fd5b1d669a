---------------------------- MODULE MCLoopMemory ----------------------------
(* Instances of LoopMemory. *)
EXTENDS TestBench

OneOfEach == [kind \in Kinds |-> 1]

Ops(bases, steps) == [kind : Kinds, base : bases, step : steps]

Bodies(size, bases, steps) ==
    [methods : BOOLEAN, size : {size}, ops : [1 .. size -> Ops(bases, steps)]]

(* Two accesses up to two iterations apart, also with strides that differ; *)
(* three accesses at neighbouring addresses; addresses before the one the  *)
(* bases are relative to, and loops that go down.                          *)
SmallBodies == Bodies(2, 0 .. 2, {0, 1, 2}) \cup Bodies(3, {0, 1}, {1})
               \cup Bodies(2, -2 .. 0, {1}) \cup Bodies(2, {0, 1}, {-1})

MCLoops ==
    {body \in SmallBodies :
        /\ ~ CarriedAntiDependence(body)
        /\ Stores(body) # {} /\ Loads(body) # {}
        /\ \E i \in Places(body) : body.ops[i].base \in {0, -1}}

\* Each body in a bench that gives it time, of a style that depends on it;
\* those of a store and a load at addresses that do not change, in every
\* style, also with too little time for most schedules.
StyleFor(body) ==
    IF body.methods THEN "phases" ELSE IF body.size = 2 THEN "in" ELSE "on"

MCExperiments ==
    {[loop |-> body, bench |-> [style |-> StyleFor(body), wait |-> 17]] : body \in MCLoops}
    \cup [loop : {body \in MCLoops : \A i \in Places(body) : body.ops[i].step = 0},
          bench : [style : {"phases", "in", "on"}, wait : {8, 17}]]

\* Bodies the constraints do not protect.
AntiLoops ==
    {body \in Bodies(2, 0 .. 2, {1}) : ~ body.methods /\ CarriedAntiDependence(body)}
AntiExperiments ==
    [loop : AntiLoops, bench : {[style |-> "in", wait |-> 17]}]
=============================================================================
