----------------------------- MODULE MCLifecycle -----------------------------
(***************************************************************************)
(* Constants for model checking Lifecycle.                                 *)
(***************************************************************************)
EXTENDS Lifecycle, TLC

\* Subscribe calls that meet wrong SUBACK entries, an unsubscribe and a
\* publication, then disconnect.
LeaveCalls ==
  [ping |-> 0, pub0 |-> 0, pub1 |-> 1, pub2 |-> 0, sub |-> 2, unsub |-> 1, disconnect |-> 1]

NoPushes == [q \in 0..2 |-> 0]
=============================================================================
