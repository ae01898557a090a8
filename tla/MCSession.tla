------------------------------ MODULE MCSession ------------------------------
(***************************************************************************)
(* Constants for model checking Session: who calls what, and how often.    *)
(***************************************************************************)
EXTENDS SessionRefines, TLC

Calls(ping, pub0, pub1, pub2, sub, unsub, disconnect) ==
  [ping |-> ping, pub0 |-> pub0, pub1 |-> pub1, pub2 |-> pub2,
   sub |-> sub, unsub |-> unsub, disconnect |-> disconnect]

Pushes(q0, q1, q2) == (0 :> q0) @@ (1 :> q1) @@ (2 :> q2)

NoPushes == Pushes(0, 0, 0)

\* Publishing at QoS 1 and 2, so that acknowledgements can overtake each other,
\* while the broker has two QoS 2 publications of its own in flight.
TrafficCalls  == Calls(0, 0, 2, 1, 0, 0, 0)
TrafficPushes == Pushes(0, 0, 2)

\* Two threads share the client and its packet id counter; one disconnects.
SharedCalls == Calls(1, 0, 2, 0, 0, 0, 1)

\* A subscription, then a publication at QoS 2, while publications of every QoS
\* come in: both directions at once, small enough for the temporal properties.
DuplexCalls  == Calls(0, 0, 0, 1, 1, 0, 0)
DuplexPushes == Pushes(1, 1, 1)

\* The calls of the runs that disagree with the documentation.
FullPoolCalls == Calls(0, 2, 0, 0, 0, 0, 0)
PubThenSub    == Calls(0, 0, 1, 0, 1, 0, 0)
=============================================================================
