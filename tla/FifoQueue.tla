------------------------------ MODULE FifoQueue ------------------------------
(***************************************************************************)
(* What the hardware fifo promises its two clients: a bounded queue of     *)
(* data words with a registered output.  A clock cycle may push a word,    *)
(* pop the oldest word into the output register, do both, or do neither.   *)
(***************************************************************************)
EXTENDS Naturals, Sequences

CONSTANTS Data, Depth

VARIABLES
  queue,  (* the words inside, oldest first      *)
  out     (* the word popped most recently       *)

vars == <<queue, out>>

Init == queue = <<>>

Push(d) ==
  /\ Len(queue) < Depth
  /\ queue' = Append(queue, d)
  /\ UNCHANGED out

Pop ==
  /\ queue # <<>>
  /\ out' = Head(queue)
  /\ queue' = Tail(queue)

(* One word leaves while another enters: the queue is neither empty nor     *)
(* full when the cycle starts.                                             *)
PushPop(d) ==
  /\ queue # <<>>
  /\ Len(queue) < Depth
  /\ out' = Head(queue)
  /\ queue' = Append(Tail(queue), d)

(* The reset empties the queue; a word being popped still comes out.       *)
Clear ==
  /\ queue' = <<>>
  /\ \/ UNCHANGED out
     \/ queue # <<>> /\ out' = Head(queue)

Next == Pop \/ Clear \/ \E d \in Data : Push(d) \/ PushPop(d)

Spec == Init /\ [][Next]_vars
=============================================================================
