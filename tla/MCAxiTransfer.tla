---------------------------- MODULE MCAxiTransfer ----------------------------
(* All programs of three accesses to two words.                            *)
EXTENDS AxiTransfer

MCData == 0..2
Accesses == [kind : {"write"}, addr : WordAddresses, data : {1, 2}]
            \cup [kind : {"read"}, addr : WordAddresses, data : {0}]
ThreeAccesses == [1..3 -> Accesses]
=============================================================================
