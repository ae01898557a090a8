---------------------------- MODULE MCSyncClient ----------------------------
(***************************************************************************)
(* Constants for model checking SyncClient: who calls what, and how often. *)
(***************************************************************************)
EXTENDS SyncClient, TLC

Calls(ping, pub0, pub1, pub2, sub, unsub, nxt) ==
  [connect |-> 1, ping |-> ping, pub0 |-> pub0, pub1 |-> pub1, pub2 |-> pub2,
   sub |-> sub, unsub |-> unsub, next |-> nxt, disconnect |-> 1, drop |-> 1]

Pushes(q0, q1, q2) == (0 :> q0) @@ (1 :> q1) @@ (2 :> q2)
NoPushes == Pushes(0, 0, 0)

\* Requests of every shape, in any order, while a publication comes in.
RequestCalls  == Calls(1, 0, 2, 1, 1, 1, 0)
RequestPushes == Pushes(0, 1, 0)

\* A subscriber that reads what the broker publishes at QoS 1 and 2.
SubscriberCalls  == Calls(0, 0, 0, 0, 1, 0, 3)
SubscriberPushes == Pushes(0, 1, 2)

\* Two reads of one publication.
TwoNext == Calls(0, 0, 0, 0, 0, 0, 2)
OneQos0 == Pushes(1, 0, 0)
=============================================================================
