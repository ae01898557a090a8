---------------------------- MODULE MCTwoClients ----------------------------
(***************************************************************************)
(* Constants for model checking TwoClients: each client connects and asks *)
(* for one message.                                                        *)
(***************************************************************************)
EXTENDS TwoClients

OneMessage == [k \in Kinds |-> IF k \in {"connect", "next"} THEN 1 ELSE 0]
OneQos1 == [q \in 0..2 |-> IF q = 1 THEN 1 ELSE 0]
=============================================================================
