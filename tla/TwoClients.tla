----------------------------- MODULE TwoClients -----------------------------
(***************************************************************************)
(* Two clients of libsmqttclient in one thread, each with its own          *)
(* connection: send_buffer and receive_buffer of smqttc.c are globals, so  *)
(* a call on one client can find what the other one received last.         *)
(***************************************************************************)
EXTENDS SyncClient

\* The second client; receive_buffer is the one they share.
VARIABLES
  publish_packet_id2, subscribe_packet_id2, unsubscribe_packet_id2,
  pc2, call2, stage2, sz2, resp2, packet_id2,
  link2, toServer2, toClient2, inflight2, prompt2,
  calls2, returned2, answered2, pushes2, handed2, taken2

Second == INSTANCE SyncClient WITH
  publish_packet_id <- publish_packet_id2, subscribe_packet_id <- subscribe_packet_id2,
  unsubscribe_packet_id <- unsubscribe_packet_id2,
  pc <- pc2, call <- call2, stage <- stage2, sz <- sz2, resp <- resp2, packet_id <- packet_id2,
  link <- link2, toServer <- toServer2, toClient <- toClient2, inflight <- inflight2,
  prompt <- prompt2, calls <- calls2, returned <- returned2, answered <- answered2,
  pushes <- pushes2, handed <- handed2, taken <- taken2

firstVars  == <<counters, localVars, netVars, historyVars>>
secondVars ==
  <<publish_packet_id2, subscribe_packet_id2, unsubscribe_packet_id2,
    pc2, call2, stage2, sz2, resp2, packet_id2,
    link2, toServer2, toClient2, inflight2, prompt2,
    calls2, returned2, answered2, pushes2, handed2, taken2>>

\* The one thread is not inside a call on this client, nor is the process dead.
Elsewhere(p) == p \notin {"receive", "parse", "crashed"}

TwoInit == Init /\ Second!Init

TwoNext ==
  \/ AppStep /\ Elsewhere(pc2) /\ UNCHANGED secondVars
  \/ Second!AppStep /\ Elsewhere(pc) /\ UNCHANGED firstVars
  \/ BrokerStep /\ UNCHANGED secondVars
  \/ Second!BrokerStep /\ UNCHANGED firstVars

TwoSpec == TwoInit /\ [][TwoNext]_<<vars, secondVars>>

-----------------------------------------------------------------------------
\* Published(p): the publications of a connection on which p were made.
Published(p) == UNION {{[kind |-> SrvKind[q + 1], n |-> n] : n \in 1..p[q]} : q \in 0..2}

\* smqtt_get_next_message hands out what the broker published on the connection
\* of its client, and nothing that another client received.
EachGetsItsOwn ==
  /\ ToSet(handed) \subseteq Published(pushes)
  /\ ToSet(handed2) \subseteq Published(pushes2)
=============================================================================
