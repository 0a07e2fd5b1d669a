---------------------------- MODULE MCFloatAdder ----------------------------
(* All pairs of words of a small format, and starts in the middle of a sum *)
(* for a few pairs: a long alignment, a cancellation, a special case.      *)
EXTENDS FloatAdder

Word(s, e, f) == [s |-> s, e |-> e, f |-> f]
AllPairs == Words \X Words
Largest == 2^ExpBits - 2
MCFollowed == {<<Word(0, Largest, 0), Word(1, 1, 1)>>,
               <<Word(0, Largest, 0), Word(1, Largest, 1)>>,
               <<Word(0, 0, 0), Word(0, 2, 1)>>}
=============================================================================
