---------------------------- MODULE MCLinkedQueue ----------------------------
(***************************************************************************)
(* Constants for model checking LinkedQueue: two waiting_t with different  *)
(* keys, each of which can be queued several times.                        *)
(***************************************************************************)
EXTENDS LinkedQueue

CONSTANTS w1, w2, k1, k2

KeyOfTwo == [w \in {w1, w2} |-> IF w = w1 THEN k1 ELSE k2]
=============================================================================
