------------------------------- MODULE Session -------------------------------
(***************************************************************************)
(* The multi-threaded MQTT client: libsmqttclient_mt/smqttc_mt.c (the API  *)
(* calls, run by application threads) and libsmqttclient_mt/connection.c   *)
(* (the session thread, the buffer pool and the three queues they share).  *)
(*                                                                         *)
(* One step is what a thread does between two points where another thread  *)
(* can interfere: a critical section of thread_mutex, one access to an     *)
(* unsynchronised field of the client, or one call of the server_t         *)
(* interface.  The broker at the other end is external: it follows MQTT    *)
(* 3.1, as the replies session_thread_loop waits for presuppose.           *)
(*                                                                         *)
(* A request or a delivered publication is identified by a context         *)
(* [kind, n], which stands for the cb_context and for the topic and text   *)
(* of the call; in acknowledgements it is a history component that no      *)
(* guard of the client reads.                                              *)
(***************************************************************************)
EXTENDS Integers, Sequences, SequencesExt

CONSTANTS
  Callers,        \* application threads that call the API
  BufferCount,    \* size of the buffer pool: 10 in the program
  MaxCalls,       \* bound: number of calls of each kind the application makes
  MaxPushes,      \* bound: publications the broker makes, for each QoS
  BrokerIds,      \* packet identifiers the broker uses for its publications
  FirstId,        \* value of the two packet id counters in the first state
  MsgCallback,    \* does the application supply a msg_callback?
  SubscribeFirst, \* does the application subscribe before it publishes?
  Faults,         \* which failures of the connection occur
  MaxEofReads,    \* bound: reads at end of file that see the old buffer
  NoOne,          \* the mutex is free
  NoMsg,          \* a buffer nothing was written to
  NoEntry         \* an unset waiting_t pointer

Kinds == {"ping", "pub0", "pub1", "pub2", "sub", "unsub"}

Slots == 0..(BufferCount - 1)   \* indexes of buffer_slots
NoSlot == -1                    \* a thread holds no slot

ASSUME CountAssumption == BufferCount \in Nat
ASSUME NullAssumption == NoOne \notin Callers
ASSUME BoundAssumption == /\ MaxCalls \in [Kinds \cup {"disconnect"} -> Nat]
                          /\ MaxPushes \in [0..2 -> Nat]
                          /\ MaxEofReads \in Nat
MaxId == 65535                  \* of a uint16_t
PacketIds == 0..MaxId

ASSUME IdAssumption == FirstId \in PacketIds /\ BrokerIds \subseteq PacketIds \ {0}
ASSUME FlagAssumption == /\ MsgCallback \in BOOLEAN /\ SubscribeFirst \in BOOLEAN
                         /\ Faults \subseteq {"send", "close"}

VARIABLES
  \* struct smqtt_mt_client
  mutex, free_queue, send_queue, ack_queue, buffer_slots,
  publish_packet_id, subscribe_packet_id, ready_to_disconnect, receive_buffer,
  process,        \* "running", client "freed", or "crashed"
  \* locals of each application thread
  pc, op, slot, entry, loaded, status,
  \* locals of session_thread_loop
  tpc, position, resp, waiting,
  \* the connection and the broker
  link, toServer, toClient, owed, inflight, eofReads,
  \* history
  calls, accepted, sent, answered, called, pushes, delivered

clientVars  == <<mutex, free_queue, send_queue, ack_queue, buffer_slots,
                 publish_packet_id, subscribe_packet_id, ready_to_disconnect,
                 receive_buffer, process>>
callerVars  == <<pc, op, slot, entry, loaded, status>>
threadVars  == <<tpc, position, resp, waiting>>
netVars     == <<link, toServer, toClient, owed, inflight, eofReads>>
historyVars == <<calls, accepted, sent, answered, called, pushes, delivered>>
vars == <<clientVars, callerVars, threadVars, netVars, historyVars>>

-----------------------------------------------------------------------------
(* Messages, and what the serialisation does to a packet identifier.       *)

\* SER_short writes MSB(s), which casts to uint8_t first and is always 0, and
\* then LSB(s); short_from_buffer shifts the first byte out of its uint16_t.
Wire(id) == id % 256

Requests == {"PINGREQ", "SUBSCRIBE", "UNSUBSCRIBE", "DISCONNECT"}
Replies  == {"PUBACK", "PUBREC", "PUBREL", "PUBCOMP", "PINGRESP", "SUBACK", "UNSUBACK"}

Contexts == [kind : Kinds \cup {"srv0", "srv1", "srv2", "bye"}, n : Nat]
Messages == [type : Requests \cup Replies \cup {"PUBLISH"}, qos : 0..2,
             id : PacketIds, ctx : Contexts]
Msg(t, q, i, x) == [type |-> t, qos |-> q, id |-> i, ctx |-> x]

ASSUME NoMsgAssumption == NoMsg \notin Messages

\* waiting_t: the reply that is expected, its identifier, and for whom.
\* An identifier of -1 is one nobody wrote (see WaitingFor).
Entries == [type : Replies, id : PacketIds \cup {-1}, ctx : Contexts]

Qos(kind) == CASE kind \in {"pub1", "srv1"} -> 1
               [] kind \in {"pub2", "srv2"} -> 2
               [] OTHER -> 0

-----------------------------------------------------------------------------
(* queue_t as a sequence, oldest first; module LinkedQueue has its pointers. *)

\* Mutants: a new element put at the head; dequeue that returns the first
\* element and does not unlink it; remove_from_queue left out after a match.
enqueueAtHead(queue, payload) == <<payload>> \o queue
dequeueNoUnlink(queue) == queue
removeNothing(queue, i) == queue

enqueue(queue, payload) == Append(queue, payload)
dequeue(queue) == Tail(queue)
remove_from_queue(queue, i) == RemoveAt(queue, i)

-----------------------------------------------------------------------------
(* The API calls, each as the order of its steps.                          *)

PingFlow ==
  [get_slot |-> "make", make |-> "fill", fill |-> "wait", wait |-> "send", send |-> "idle"]

\* Mutants: the waiting_t is queued before it is filled in; the slot is queued
\* for sending before the waiting_t is registered.
PublishFlowUnfilled(qos) ==
  IF qos = 0
  THEN [get_slot |-> "make", make |-> "send", send |-> "idle"]
  ELSE [get_slot |-> "make", make |-> "wait", wait |-> "load", load |-> "store",
        store |-> "send", send |-> "idle"]
PublishFlowSendFirst(qos) ==
  IF qos = 0
  THEN [get_slot |-> "make", make |-> "send", send |-> "idle"]
  ELSE [get_slot |-> "make", make |-> "send", send |-> "fill", fill |-> "wait",
        wait |-> "load", load |-> "store", store |-> "idle"]

\* QoS 0 registers nothing, QoS 1 and 2 register and then bump the counter.
PublishFlow(qos) ==
  IF qos = 0
  THEN [get_slot |-> "make", make |-> "send", send |-> "idle"]
  ELSE [get_slot |-> "make", make |-> "fill", fill |-> "wait", wait |-> "load",
        load |-> "store", store |-> "send", send |-> "idle"]

\* Mutant: the slot is queued for sending before the waiting_t is registered.
SubscribeFlowSendFirst ==
  [get_slot |-> "make", make |-> "load", load |-> "store", store |-> "send",
   send |-> "fill", fill |-> "wait", wait |-> "idle"]

\* subscribe_packet_id is bumped before the waiting_t is filled in.
SubscribeFlow ==
  [get_slot |-> "make", make |-> "load", load |-> "store", store |-> "fill",
   fill |-> "wait", wait |-> "send", send |-> "idle"]

UnsubscribeFlow == SubscribeFlow

After(kind) ==
  CASE kind = "ping" -> PingFlow
    [] kind \in {"pub0", "pub1", "pub2"} -> PublishFlow(Qos(kind))
    [] kind = "sub" -> SubscribeFlow
    [] OTHER -> UnsubscribeFlow

\* The message each call serialises into its slot.
RequestFor(x) ==
  CASE x.kind = "ping"  -> Msg("PINGREQ", 0, 0, x)
    [] x.kind = "sub"   -> Msg("SUBSCRIBE", 0, Wire(subscribe_packet_id), x)
    [] x.kind = "unsub" -> Msg("UNSUBSCRIBE", 0, Wire(subscribe_packet_id), x)
    [] OTHER -> Msg("PUBLISH", Qos(x.kind),
                    IF x.kind = "pub0" THEN 0 ELSE Wire(publish_packet_id), x)

\* The waiting_t each call fills in.  smqtt_mt_subscribe takes the identifier
\* from publish_packet_id.  smqtt_mt_unsubscribe sets type SUBACK and stores
\* through unsuback_data, so suback_data.packet_id stays uninitialised.
WaitingFor(x) ==
  [type |-> CASE x.kind = "ping" -> "PINGRESP"
              [] x.kind = "pub1" -> "PUBACK"
              [] x.kind = "pub2" -> "PUBREC"
              [] OTHER -> "SUBACK",
   id   |-> CASE x.kind = "ping" -> 0
              [] x.kind = "unsub" -> -1
              [] OTHER -> publish_packet_id,
   ctx  |-> x]

Usable == process = "running" /\ ~ready_to_disconnect

-----------------------------------------------------------------------------
(* Application threads.                                                    *)

Goto(c, step) == pc' = [pc EXCEPT ![c] = step]
Advance(c) == Goto(c, After(op[c].kind)[pc[c]])

\* An application that subscribes first does so while the two counters agree.
MayCall(k) ==
  (SubscribeFirst /\ k = "sub") => \A j \in {"pub1", "pub2"} : calls[j] = 0

\* smqtt_mt_ping, _publish, _subscribe or _unsubscribe is entered; connected
\* is TRUE from smqtt_mt_connect on, and the application is not past disconnect.
\* (A QoS above 2 is SMQTT_MT_INVALID before the client is touched: no step.)
Call(c, k) ==
  /\ Usable /\ pc[c] = "idle" /\ calls[k] < MaxCalls[k] /\ MayCall(k)
  /\ calls' = [calls EXCEPT ![k] = @ + 1]
  /\ op' = [op EXCEPT ![c] = [kind |-> k, n |-> calls[k] + 1]]
  /\ Goto(c, "get_slot")
  /\ UNCHANGED <<clientVars, slot, entry, loaded, status, threadVars, netVars,
                 accepted, sent, answered, called, pushes, delivered>>

\* get_buffer_slot: with no free slot it keeps trying, and keeps the mutex.
GetBufferSlot(c) ==
  /\ process = "running" /\ pc[c] = "get_slot" /\ mutex \in {NoOne, c}
  /\ \/ /\ free_queue # <<>>
        /\ slot' = [slot EXCEPT ![c] = Head(free_queue)]
        /\ free_queue' = dequeue(free_queue)
        /\ mutex' = NoOne
        /\ Advance(c)
     \/ /\ free_queue = <<>>
        /\ mutex' = c
        /\ UNCHANGED <<slot, free_queue, pc>>
  /\ UNCHANGED <<send_queue, ack_queue, buffer_slots, publish_packet_id,
                 subscribe_packet_id, ready_to_disconnect, receive_buffer, process,
                 op, entry, loaded, status, threadVars, netVars, historyVars>>

\* make_..._message into the slot, reading a packet id counter without lock.
MakeMessage(c) ==
  /\ process = "running" /\ pc[c] = "make"
  /\ buffer_slots' = [buffer_slots EXCEPT ![slot[c]] = RequestFor(op[c])]
  /\ Advance(c)
  /\ UNCHANGED <<mutex, free_queue, send_queue, ack_queue, publish_packet_id,
                 subscribe_packet_id, ready_to_disconnect, receive_buffer, process,
                 op, slot, entry, loaded, status, threadVars, netVars, historyVars>>

\* The waiting_t is filled in, reading publish_packet_id without lock.
FillWaiting(c) ==
  /\ process = "running" /\ pc[c] = "fill"
  /\ entry' = [entry EXCEPT ![c] = WaitingFor(op[c])]
  /\ Advance(c)
  /\ UNCHANGED <<clientVars, op, slot, loaded, status, threadVars, netVars, historyVars>>

\* enqueue_waiting.
EnqueueWaiting(c) ==
  /\ process = "running" /\ pc[c] = "wait" /\ mutex = NoOne
  /\ ack_queue' = enqueue(ack_queue, entry[c])
  /\ Advance(c)
  /\ UNCHANGED <<mutex, free_queue, send_queue, buffer_slots, publish_packet_id,
                 subscribe_packet_id, ready_to_disconnect, receive_buffer, process,
                 op, slot, entry, loaded, status, threadVars, netVars, historyVars>>

Subscribing(c) == op[c].kind \in {"sub", "unsub"}

\* ++ on a uint16_t wraps round.
Bump(id) == IF id = MaxId THEN 0 ELSE id + 1

\* x_packet_id++ is a load and a store with no lock ("TODO: MT safety").
LoadPacketId(c) ==
  /\ process = "running" /\ pc[c] = "load"
  /\ loaded' = [loaded EXCEPT ![c] = IF Subscribing(c) THEN subscribe_packet_id
                                                       ELSE publish_packet_id]
  /\ Advance(c)
  /\ UNCHANGED <<clientVars, op, slot, entry, status, threadVars, netVars, historyVars>>

StorePacketId(c) ==
  /\ process = "running" /\ pc[c] = "store"
  /\ IF Subscribing(c)
     THEN subscribe_packet_id' = Bump(loaded[c]) /\ UNCHANGED publish_packet_id
     ELSE publish_packet_id' = Bump(loaded[c]) /\ UNCHANGED subscribe_packet_id
  /\ Advance(c)
  /\ UNCHANGED <<mutex, free_queue, send_queue, ack_queue, buffer_slots,
                 ready_to_disconnect, receive_buffer, process,
                 op, slot, entry, loaded, status, threadVars, netVars, historyVars>>

\* enqueue_slot_for_send, the last thing an API call does.
EnqueueSlotForSend(c) ==
  /\ process = "running" /\ pc[c] = "send" /\ mutex = NoOne
  /\ send_queue' = enqueue(send_queue, slot[c])
  /\ slot' = [slot EXCEPT ![c] = NoSlot]
  /\ accepted' = Append(accepted, op[c])
  /\ Advance(c)
  /\ UNCHANGED <<mutex, free_queue, ack_queue, buffer_slots, publish_packet_id,
                 subscribe_packet_id, ready_to_disconnect, receive_buffer, process,
                 op, entry, loaded, status, threadVars, netVars,
                 calls, sent, answered, called, pushes, delivered>>

\* Mutant: the flag is not set.
SignalDisconnectNoFlag(c) ==
  /\ Usable /\ calls["disconnect"] < MaxCalls["disconnect"]
  /\ \A d \in Callers : pc[d] = "idle"
  /\ mutex = NoOne
  /\ calls' = [calls EXCEPT !["disconnect"] = @ + 1]
  /\ Goto(c, "join")
  /\ UNCHANGED <<mutex, free_queue, send_queue, ack_queue, buffer_slots,
                 publish_packet_id, subscribe_packet_id, ready_to_disconnect,
                 receive_buffer, process,
                 op, slot, entry, loaded, status, threadVars, netVars,
                 accepted, sent, answered, called, pushes, delivered>>

\* smqtt_mt_disconnect, first part: signal_disconnect.  The application calls
\* it when no other of its threads is inside the API.
SignalDisconnect(c) ==
  /\ Usable /\ calls["disconnect"] < MaxCalls["disconnect"]
  /\ \A d \in Callers : pc[d] = "idle"
  /\ mutex = NoOne
  /\ ready_to_disconnect' = TRUE
  /\ calls' = [calls EXCEPT !["disconnect"] = @ + 1]
  /\ Goto(c, "join")
  /\ UNCHANGED <<mutex, free_queue, send_queue, ack_queue, buffer_slots,
                 publish_packet_id, subscribe_packet_id, receive_buffer, process,
                 op, slot, entry, loaded, status, threadVars, netVars,
                 accepted, sent, answered, called, pushes, delivered>>

\* join_session_thread: pthread_join, then the pool and the client are freed.
\* It has no return statement: the caller sees an arbitrary status.
JoinSessionThread(c) ==
  /\ process = "running" /\ pc[c] = "join" /\ tpc = "exited"
  /\ process' = "freed"
  /\ \/ Goto(c, "bye") /\ UNCHANGED status
     \/ Goto(c, "gone") /\ status' = [status EXCEPT ![c] = "garbage"]
  /\ UNCHANGED <<mutex, free_queue, send_queue, ack_queue, buffer_slots,
                 publish_packet_id, subscribe_packet_id, ready_to_disconnect,
                 receive_buffer, op, slot, entry, loaded, threadVars, netVars, historyVars>>

(* server_send: how a message leaves the client.  A failed send frees the  *)
(* implementation and clears the pointer to it ("null").                   *)
SendOk(m) ==
  /\ link \in {"up", "closed"}
  /\ toServer' = IF link = "up" THEN Append(toServer, m) ELSE toServer
  /\ UNCHANGED link

SendFails ==
  /\ "send" \in Faults /\ link \in {"up", "closed"}
  /\ link' = "null"
  /\ UNCHANGED toServer

\* smqtt_mt_disconnect, last part: DISCONNECT is sent and the socket closed
\* through client->server, read from the freed client.
SendDisconnect(c) ==
  /\ process = "freed" /\ pc[c] = "bye"
  /\ \/ /\ SendOk(Msg("DISCONNECT", 0, 0, [kind |-> "bye", n |-> 1]))
        /\ process' = process
        /\ status' = [status EXCEPT ![c] = "ok"]
        /\ Goto(c, "gone")
     \/ /\ process' = "crashed"  \* the freed memory was reused, or the send
        /\ UNCHANGED <<link, toServer, status, pc>>  \* failed and impl is NULL
  /\ UNCHANGED <<mutex, free_queue, send_queue, ack_queue, buffer_slots,
                 publish_packet_id, subscribe_packet_id, ready_to_disconnect,
                 receive_buffer, op, slot, entry, loaded, threadVars,
                 toClient, owed, inflight, eofReads, historyVars>>

-----------------------------------------------------------------------------
(* The session thread: session_thread_loop.                                *)

\* Entries a dequeue_by_type_and_id can stop at, and the first of a set.
Hits(type, id) ==
  {i \in DOMAIN ack_queue : /\ ack_queue[i].type = type
                            /\ type = "PINGRESP" \/ ack_queue[i].id = id}
First(S) == {i \in S : \A j \in S : i <= j}

ThreadStep(from) == process = "running" /\ tpc = from

\* Top of the loop: leave when asked to, else take a slot from send_queue.
TopOfLoop ==
  /\ ThreadStep("top") /\ mutex = NoOne
  /\ \/ /\ ready_to_disconnect
        /\ tpc' = "exited"
        /\ UNCHANGED <<send_queue, position>>
     \/ /\ ~ready_to_disconnect /\ send_queue # <<>>
        /\ position' = Head(send_queue)
        /\ send_queue' = dequeue(send_queue)
        /\ tpc' = "send"
     \/ /\ ~ready_to_disconnect /\ send_queue = <<>>
        /\ tpc' = "receive"
        /\ UNCHANGED <<send_queue, position>>
  /\ UNCHANGED <<mutex, free_queue, ack_queue, buffer_slots, publish_packet_id,
                 subscribe_packet_id, ready_to_disconnect, receive_buffer, process,
                 callerVars, resp, waiting, netVars, historyVars>>

\* server_send of the slot's buffer; its status is not looked at.
SendSlot ==
  /\ ThreadStep("send")
  /\ SendOk(buffer_slots[position]) \/ SendFails
  /\ sent' = Append(sent, buffer_slots[position].ctx)
  /\ tpc' = "free_slot"
  /\ UNCHANGED <<clientVars, callerVars, position, resp, waiting, toClient, owed,
                 inflight, eofReads, calls, accepted, answered, called, pushes, delivered>>

\* Mutant: the slot is not given back.
FreeSlotLost ==
  /\ ThreadStep("free_slot") /\ mutex = NoOne
  /\ position' = NoSlot
  /\ tpc' = "receive"
  /\ UNCHANGED <<mutex, free_queue, send_queue, ack_queue, buffer_slots, publish_packet_id,
                 subscribe_packet_id, ready_to_disconnect, receive_buffer, process,
                 callerVars, resp, waiting, netVars, historyVars>>

\* The slot goes back to free_queue.
FreeSlot ==
  /\ ThreadStep("free_slot") /\ mutex = NoOne
  /\ free_queue' = enqueue(free_queue, position)
  /\ position' = NoSlot
  /\ tpc' = "receive"
  /\ UNCHANGED <<mutex, send_queue, ack_queue, buffer_slots, publish_packet_id,
                 subscribe_packet_id, ready_to_disconnect, receive_buffer, process,
                 callerVars, resp, waiting, netVars, historyVars>>

\* server_receive and deserialize_response.  At end of file recv returns 0,
\* which is not an error to network_receive: the old contents of the buffer
\* are taken for a message.
ServerReceive ==
  /\ ThreadStep("receive")
  /\ \/ /\ link # "null" /\ toClient # <<>>
        /\ LET m == Head(toClient)
           IN  resp' = [m EXCEPT !.id = Wire(m.id)]
        /\ receive_buffer' = resp'
        /\ toClient' = Tail(toClient)
        /\ tpc' = "dispatch"
        /\ UNCHANGED eofReads
     \/ /\ link # "null" /\ toClient = <<>>  \* timeout, or connection reset
        /\ tpc' = "top"
        /\ UNCHANGED <<resp, receive_buffer, toClient, eofReads>>
     \/ /\ link = "closed" /\ toClient = <<>> /\ eofReads < MaxEofReads
        /\ eofReads' = eofReads + 1
        /\ IF receive_buffer = NoMsg
           THEN tpc' = "top" /\ UNCHANGED resp  \* whatever malloc left in it
           ELSE tpc' = "dispatch" /\ resp' = receive_buffer
        /\ UNCHANGED <<receive_buffer, toClient>>
  /\ UNCHANGED <<mutex, free_queue, send_queue, ack_queue, buffer_slots,
                 publish_packet_id, subscribe_packet_id, ready_to_disconnect, process,
                 callerVars, position, waiting, link, toServer, owed, inflight, historyVars>>

\* case PINGRESP, PUBACK, PUBCOMP, UNSUBACK: the request that waits for this
\* reply is taken off ack_queue and its callback will be called.
OnFinalAck(type) ==
  /\ ThreadStep("dispatch") /\ resp.type = type /\ mutex = NoOne
  /\ \/ \E i \in First(Hits(type, resp.id)) :
          /\ waiting' = ack_queue[i]
          /\ ack_queue' = remove_from_queue(ack_queue, i)
          /\ tpc' = "callback"
     \/ /\ Hits(type, resp.id) = {}
        /\ tpc' = "top"
        /\ UNCHANGED <<waiting, ack_queue>>
  /\ UNCHANGED <<mutex, free_queue, send_queue, buffer_slots, publish_packet_id,
                 subscribe_packet_id, ready_to_disconnect, receive_buffer, process,
                 callerVars, position, resp, netVars, historyVars>>

\* case SUBACK: only the first SUBACK entry is looked at, and when its id is
\* another one dequeue_by_type_and_id returns true without having set
\* *waiting.  The uninitialised pointer is wild (a crash), or is to something
\* whose sub_callback is NULL, or is still the one of the last SUBACK.  An
\* entry of unsubscribe whose uninitialised id happens to match has a wild
\* sub_callback: that outcome is the crash, too.
OnSuback ==
  /\ ThreadStep("dispatch") /\ resp.type = "SUBACK" /\ mutex = NoOne
  /\ LET entries == {i \in DOMAIN ack_queue : ack_queue[i].type = "SUBACK"}
     IN  \/ \E i \in First(entries) :
              /\ ack_queue[i].id = resp.id
              /\ waiting' = ack_queue[i]
              /\ ack_queue' = remove_from_queue(ack_queue, i)
              /\ tpc' = "callback"
              /\ process' = process
         \/ \E i \in First(entries) :
              /\ ack_queue[i].id # resp.id
              /\ \/ process' = "crashed" /\ tpc' = tpc
                 \/ process' = process /\ tpc' = "top"
                 \/ /\ waiting # NoEntry /\ waiting.type = "SUBACK"
                    /\ process' = process /\ tpc' = "callback"
              /\ UNCHANGED <<waiting, ack_queue>>
         \/ /\ entries = {}
            /\ tpc' = "top"
            /\ UNCHANGED <<waiting, ack_queue, process>>
  /\ UNCHANGED <<mutex, free_queue, send_queue, buffer_slots, publish_packet_id,
                 subscribe_packet_id, ready_to_disconnect, receive_buffer,
                 callerVars, position, resp, netVars, historyVars>>

\* Mutant: the waiting_t is freed and nobody called.
InvokeNothing ==
  /\ ThreadStep("callback")
  /\ tpc' = "top"
  /\ UNCHANGED <<clientVars, callerVars, position, resp, waiting, netVars, historyVars>>

\* waiting->callback (or sub_callback) is called and the waiting_t freed.
InvokeCallback ==
  /\ ThreadStep("callback")
  /\ called' = Append(called, waiting.ctx)
  /\ tpc' = "top"
  /\ UNCHANGED <<clientVars, callerVars, position, resp, waiting, netVars,
                 calls, accepted, sent, answered, pushes, delivered>>

\* Mutant: the callback of a QoS 2 publication comes with its PUBREC.
OnHandshakeCallsBack(type) ==
  /\ ThreadStep("dispatch") /\ resp.type = type /\ mutex = NoOne
  /\ \/ \E i \in First(Hits(type, resp.id)) :
          /\ waiting' = ack_queue[i]
          /\ ack_queue' = remove_from_queue(ack_queue, i)
          /\ tpc' = IF type = "PUBREC" THEN "callback" ELSE "reply"
     \/ /\ Hits(type, resp.id) = {}
        /\ tpc' = "top"
        /\ UNCHANGED <<waiting, ack_queue>>
  /\ UNCHANGED <<mutex, free_queue, send_queue, buffer_slots, publish_packet_id,
                 subscribe_packet_id, ready_to_disconnect, receive_buffer, process,
                 callerVars, position, resp, netVars, historyVars>>

\* case PUBREC and case PUBREL, first part: the entry is taken off ack_queue.
OnHandshake(type) ==
  /\ ThreadStep("dispatch") /\ resp.type = type /\ mutex = NoOne
  /\ \/ \E i \in First(Hits(type, resp.id)) :
          /\ waiting' = ack_queue[i]
          /\ ack_queue' = remove_from_queue(ack_queue, i)
          /\ tpc' = "reply"
     \/ /\ Hits(type, resp.id) = {}
        /\ tpc' = "top"
        /\ UNCHANGED <<waiting, ack_queue>>
  /\ UNCHANGED <<mutex, free_queue, send_queue, buffer_slots, publish_packet_id,
                 subscribe_packet_id, ready_to_disconnect, receive_buffer, process,
                 callerVars, position, resp, netVars, historyVars>>

\* case PUBLISH: QoS 0 is delivered at once, QoS 1 and 2 are answered first.
OnPublish ==
  /\ ThreadStep("dispatch") /\ resp.type = "PUBLISH"
  /\ tpc' = IF resp.qos = 0 THEN "deliver" ELSE "reply"
  /\ UNCHANGED <<clientVars, callerVars, position, resp, waiting, netVars, historyVars>>

\* Mutant: QoS 2 publications are answered like those of QoS 1.
ReplyTypeOneStep ==
  CASE resp.type = "PUBREC" -> "PUBREL"
    [] resp.type = "PUBREL" -> "PUBCOMP"
    [] OTHER -> "PUBACK"

\* The reply is built in receive_buffer, over the message it answers.
ReplyType ==
  CASE resp.type = "PUBREC" -> "PUBREL"
    [] resp.type = "PUBREL" -> "PUBCOMP"
    [] resp.type = "PUBLISH" /\ resp.qos = 1 -> "PUBACK"
    [] OTHER -> "PUBREC"

\* Sent or not: after a failed send the loop goes on as if nothing happened.
Reply ==
  /\ ThreadStep("reply")
  /\ LET m == Msg(ReplyType, 0, Wire(resp.id), resp.ctx)
     IN  /\ receive_buffer' = m
         /\ \/ /\ SendOk(m)
               /\ CASE resp.type = "PUBREC" ->
                         /\ waiting' = [waiting EXCEPT !.type = "PUBCOMP", !.id = resp.id]
                         /\ tpc' = "enqueue_waiting"
                    [] resp.type = "PUBLISH" /\ resp.qos = 2 ->
                         /\ waiting' = [type |-> "PUBREL", id |-> resp.id, ctx |-> resp.ctx]
                         /\ tpc' = "enqueue_waiting"
                    [] OTHER -> tpc' = "deliver" /\ UNCHANGED waiting
            \/ /\ SendFails
               /\ tpc' = "top"
               /\ UNCHANGED waiting
  /\ UNCHANGED <<mutex, free_queue, send_queue, ack_queue, buffer_slots,
                 publish_packet_id, subscribe_packet_id, ready_to_disconnect, process,
                 callerVars, position, resp, toClient, owed, inflight, eofReads, historyVars>>

\* Mutant: a QoS 2 publication is delivered with PUBLISH and with PUBREL.
RequeueAndDeliver ==
  /\ ThreadStep("enqueue_waiting") /\ mutex = NoOne
  /\ ack_queue' = enqueue(ack_queue, waiting)
  /\ tpc' = IF resp.type = "PUBLISH" THEN "deliver" ELSE "top"
  /\ UNCHANGED <<mutex, free_queue, send_queue, buffer_slots, publish_packet_id,
                 subscribe_packet_id, ready_to_disconnect, receive_buffer, process,
                 callerVars, position, resp, waiting, netVars, historyVars>>

\* enqueue_waiting, called by the session thread.
RequeueWaiting ==
  /\ ThreadStep("enqueue_waiting") /\ mutex = NoOne
  /\ ack_queue' = enqueue(ack_queue, waiting)
  /\ tpc' = "top"
  /\ UNCHANGED <<mutex, free_queue, send_queue, buffer_slots, publish_packet_id,
                 subscribe_packet_id, ready_to_disconnect, receive_buffer, process,
                 callerVars, position, resp, waiting, netVars, historyVars>>

\* What msg_callback is called with: what PUBLISH said, or for PUBREL the copy
\* that was stored when its PUBLISH came.
Delivering == IF resp.type = "PUBREL" THEN waiting.ctx ELSE resp.ctx

\* maybe_deliver_message, and the msg_callback call of case PUBREL.
Deliver ==
  /\ ThreadStep("deliver")
  /\ delivered' = IF MsgCallback THEN Append(delivered, Delivering) ELSE delivered
  /\ tpc' = "top"
  /\ UNCHANGED <<clientVars, callerVars, position, resp, waiting, netVars,
                 calls, accepted, sent, answered, called, pushes>>

\* server->impl is NULL after a failed send, and the next call of the server
\* interface dereferences it; send to a closed peer may raise SIGPIPE; a
\* buffer nothing was received in may have no message type (resp is NULL).
Crash ==
  /\ process = "running"
  /\ \/ link = "null" /\ tpc \in {"send", "reply", "receive"}
     \/ link = "closed" /\ tpc \in {"send", "reply"}
     \/ link = "closed" /\ tpc = "receive" /\ toClient = <<>> /\ receive_buffer = NoMsg
  /\ process' = "crashed"
  /\ UNCHANGED <<mutex, free_queue, send_queue, ack_queue, buffer_slots,
                 publish_packet_id, subscribe_packet_id, ready_to_disconnect,
                 receive_buffer, callerVars, threadVars, netVars, historyVars>>

-----------------------------------------------------------------------------
(* The broker, external: it answers each request and runs both QoS flows.  *)

\* What the broker owes for a message it received, if anything.
Answer(m) ==
  CASE m.type = "PINGREQ"     -> <<Msg("PINGRESP", 0, 0, m.ctx)>>
    [] m.type = "SUBSCRIBE"   -> <<Msg("SUBACK", 0, m.id, m.ctx)>>
    [] m.type = "UNSUBSCRIBE" -> <<Msg("UNSUBACK", 0, m.id, m.ctx)>>
    [] m.type = "PUBLISH" /\ m.qos = 1 -> <<Msg("PUBACK", 0, m.id, m.ctx)>>
    [] m.type = "PUBLISH" /\ m.qos = 2 -> <<Msg("PUBREC", 0, m.id, m.ctx)>>
    [] m.type = "PUBREL"      -> <<Msg("PUBCOMP", 0, m.id, m.ctx)>>
    [] m.type = "PUBREC"      -> <<Msg("PUBREL", 0, m.id, m.ctx)>>
    [] OTHER -> <<>>

BrokerReceive ==
  /\ link # "closed" /\ toServer # <<>>
  /\ LET m == Head(toServer)
     IN  /\ owed' = owed \o Answer(m)
         /\ inflight' = IF m.type \in {"PUBACK", "PUBCOMP"} THEN inflight \ {m.id} ELSE inflight
         /\ link' = IF m.type = "DISCONNECT" THEN "closed" ELSE link
  /\ toServer' = Tail(toServer)
  /\ UNCHANGED <<clientVars, callerVars, threadVars, toClient, eofReads, historyVars>>

\* Acknowledgements may overtake each other; pings, which carry no identifier,
\* and PUBREL, which MQTT orders, may not overtake their own kind.
BrokerAnswer ==
  /\ link # "closed"
  /\ \E i \in DOMAIN owed :
       LET m == owed[i]
       IN  /\ m.type \in {"PINGRESP", "PUBREL"} => \A j \in 1..(i - 1) : owed[j].type # m.type
           /\ toClient' = Append(toClient, m)
           /\ owed' = RemoveAt(owed, i)
           /\ answered' = IF m.type \in {"PUBREC", "PUBREL"} THEN answered
                                                             ELSE answered \cup {m.ctx}
  /\ UNCHANGED <<clientVars, callerVars, threadVars, link, toServer, inflight, eofReads,
                 calls, accepted, sent, called, pushes, delivered>>

SrvKind == <<"srv0", "srv1", "srv2">>

\* A publication for a subscription of this client.
BrokerPublish(q) ==
  /\ link # "closed" /\ pushes[q] < MaxPushes[q]
  /\ LET x == [kind |-> SrvKind[q + 1], n |-> pushes[q] + 1]
     IN  \/ /\ q = 0
            /\ toClient' = Append(toClient, Msg("PUBLISH", q, 0, x))
            /\ UNCHANGED inflight
         \/ /\ q # 0
            /\ \E id \in BrokerIds \ inflight :
                 /\ toClient' = Append(toClient, Msg("PUBLISH", q, id, x))
                 /\ inflight' = inflight \cup {id}
  /\ pushes' = [pushes EXCEPT ![q] = @ + 1]
  /\ UNCHANGED <<clientVars, callerVars, threadVars, link, toServer, owed, eofReads,
                 calls, accepted, sent, answered, called, delivered>>

BrokerClose ==
  /\ "close" \in Faults /\ link = "up"
  /\ link' = "closed"
  /\ UNCHANGED <<clientVars, callerVars, threadVars, toServer, toClient, owed, inflight,
                 eofReads, historyVars>>

-----------------------------------------------------------------------------
\* start_session_thread puts every slot into free_queue.
FreshPool == [i \in 1..BufferCount |-> i - 1]

\* The state smqtt_mt_connect and start_session_thread leave behind.
Init ==
  /\ mutex = NoOne
  /\ free_queue = FreshPool /\ send_queue = <<>> /\ ack_queue = <<>>
  /\ buffer_slots = [s \in Slots |-> NoMsg]
  /\ publish_packet_id = FirstId /\ subscribe_packet_id = FirstId
  /\ ready_to_disconnect = FALSE /\ receive_buffer = NoMsg /\ process = "running"
  /\ pc = [c \in Callers |-> "idle"]
  /\ op = [c \in Callers |-> [kind |-> "ping", n |-> 0]]
  /\ slot = [c \in Callers |-> NoSlot]
  /\ entry = [c \in Callers |-> NoEntry]
  /\ loaded = [c \in Callers |-> 0]
  /\ status = [c \in Callers |-> "none"]
  /\ tpc = "top" /\ position = NoSlot /\ resp = NoMsg /\ waiting = NoEntry
  /\ link = "up" /\ toServer = <<>> /\ toClient = <<>>
  /\ owed = <<>> /\ inflight = {} /\ eofReads = 0
  /\ calls = [k \in DOMAIN MaxCalls |-> 0]
  /\ accepted = <<>> /\ sent = <<>> /\ answered = {} /\ called = <<>>
  /\ pushes = [q \in 0..2 |-> 0] /\ delivered = <<>>

CallerStep(c) ==
  \/ GetBufferSlot(c) \/ MakeMessage(c) \/ FillWaiting(c) \/ EnqueueWaiting(c)
  \/ LoadPacketId(c) \/ StorePacketId(c) \/ EnqueueSlotForSend(c)
  \/ JoinSessionThread(c) \/ SendDisconnect(c)

SessionStep ==
  \/ TopOfLoop \/ SendSlot \/ FreeSlot \/ ServerReceive
  \/ \E t \in {"PINGRESP", "PUBACK", "PUBCOMP", "UNSUBACK"} : OnFinalAck(t)
  \/ OnSuback \/ InvokeCallback
  \/ \E t \in {"PUBREC", "PUBREL"} : OnHandshake(t)
  \/ OnPublish \/ Reply \/ RequeueWaiting \/ Deliver \/ Crash

BrokerStep == BrokerReceive \/ BrokerAnswer

Next ==
  \/ \E c \in Callers : CallerStep(c) \/ SignalDisconnect(c)
  \/ \E c \in Callers, k \in Kinds : Call(c, k)
  \/ SessionStep
  \/ BrokerStep \/ BrokerClose
  \/ \E q \in 0..2 : BrokerPublish(q)

Spec == Init /\ [][Next]_vars

\* The scheduler runs every thread that can run, a thread inside the API
\* finishes its call, and the broker answers.  Nobody is bound to make a call.
FairSpec ==
  /\ Spec
  /\ \A c \in Callers : WF_vars(CallerStep(c))
  /\ WF_vars(SessionStep) /\ WF_vars(BrokerReceive) /\ WF_vars(BrokerAnswer)

-----------------------------------------------------------------------------
(* Properties.                                                             *)

CallerSteps == {"get_slot", "make", "fill", "wait", "load", "store", "send"}
ThreadSteps == {"top", "send", "free_slot", "receive", "dispatch", "callback",
                "reply", "enqueue_waiting", "deliver", "exited"}

ClientTypeOK ==
  /\ mutex \in Callers \cup {NoOne}
  /\ free_queue \in Seq(Slots) /\ send_queue \in Seq(Slots) /\ ack_queue \in Seq(Entries)
  /\ buffer_slots \in [Slots -> Messages \cup {NoMsg}]
  /\ publish_packet_id \in PacketIds /\ subscribe_packet_id \in PacketIds
  /\ ready_to_disconnect \in BOOLEAN /\ receive_buffer \in Messages \cup {NoMsg}
  /\ process \in {"running", "freed", "crashed"}

CallerTypeOK ==
  /\ pc \in [Callers -> CallerSteps \cup {"idle", "join", "bye", "gone"}]
  /\ op \in [Callers -> [kind : Kinds, n : Nat]]
  /\ slot \in [Callers -> Slots \cup {NoSlot}]
  /\ entry \in [Callers -> Entries \cup {NoEntry}]
  /\ loaded \in [Callers -> PacketIds]
  /\ status \in [Callers -> {"none", "ok", "garbage"}]

ThreadTypeOK ==
  /\ tpc \in ThreadSteps /\ position \in Slots \cup {NoSlot}
  /\ resp \in Messages \cup {NoMsg} /\ waiting \in Entries \cup {NoEntry}

NetTypeOK ==
  /\ link \in {"up", "closed", "null"}
  /\ toServer \in Seq(Messages) /\ toClient \in Seq(Messages) /\ owed \in Seq(Messages)
  /\ inflight \subseteq PacketIds /\ eofReads \in Nat

HistoryTypeOK ==
  /\ calls \in [Kinds \cup {"disconnect"} -> Nat] /\ pushes \in [0..2 -> Nat]
  /\ accepted \in Seq(Contexts) /\ sent \in Seq(Contexts) /\ answered \subseteq Contexts
  /\ called \in Seq(Contexts) /\ delivered \in Seq(Contexts)

\* Type correctness of the client's fields, of every thread's locals and of
\* what is on its way between the client and the broker: in particular no
\* uninitialised buffer is sent and no unset waiting_t is queued.
TypeOK ==
  ClientTypeOK /\ CallerTypeOK /\ ThreadTypeOK /\ NetTypeOK /\ HistoryTypeOK

Injective(s) == \A i, j \in DOMAIN s : s[i] = s[j] => i = j

\* Every buffer slot has exactly one owner: free_queue, send_queue, the one
\* caller that filled it or the session thread that sends it.  So no slot is
\* ever lost, freed twice, or written while it is being sent.
SlotOwnership ==
  /\ Injective(free_queue) /\ Injective(send_queue)
  /\ ToSet(free_queue) \cap ToSet(send_queue) = {}
  /\ position \notin ToSet(free_queue) \cup ToSet(send_queue)
  /\ \A c \in Callers :
       /\ slot[c] \notin ToSet(free_queue) \cup ToSet(send_queue)
       /\ slot[c] # NoSlot => slot[c] # position
       /\ \A d \in Callers : slot[c] = slot[d] /\ slot[c] # NoSlot => c = d
  /\ Slots = (ToSet(free_queue) \cup ToSet(send_queue) \cup {position}
              \cup {slot[c] : c \in Callers}) \ {NoSlot}

(* What makes the two inductive: where a thread is decides whether it      *)
(* holds a slot, and the buffers and entries it reads were written before. *)
Holding == {"make", "fill", "wait", "load", "store", "send"}

CallerOK(c) ==
  /\ pc[c] \in CallerSteps => pc[c] \in DOMAIN After(op[c].kind)
  /\ (slot[c] # NoSlot) <=> (pc[c] \in Holding)
  /\ pc[c] = "wait" => entry[c] \in Entries
  /\ pc[c] \in Holding \ {"make"} => buffer_slots[slot[c]] \in Messages

ThreadOK ==
  /\ (position # NoSlot) <=> (tpc \in {"send", "free_slot"})
  /\ tpc = "send" => buffer_slots[position] \in Messages
  /\ tpc \in {"dispatch", "reply", "deliver"} => resp \in Messages
  /\ tpc \in {"callback", "enqueue_waiting"} => waiting \in Entries
  /\ tpc \in {"reply", "deliver"} /\ resp.type \in {"PUBREC", "PUBREL"} => waiting \in Entries

QueuedOK == \A i \in DOMAIN send_queue : buffer_slots[send_queue[i]] \in Messages

IndInv ==
  TypeOK /\ (\A c \in Callers : CallerOK(c)) /\ ThreadOK /\ QueuedOK /\ SlotOwnership

\* The requests the session thread has still to send, oldest first.
Pending ==
  (IF tpc = "send" THEN <<buffer_slots[position].ctx>> ELSE <<>>)
  \o [i \in DOMAIN send_queue |-> buffer_slots[send_queue[i]].ctx]

\* Requests reach server_send in the order in which the API calls returned,
\* each exactly once and with the contents its caller serialised: no queued
\* slot is overwritten, skipped or sent twice.
SendFifo == accepted = sent \o Pending

(* What makes it inductive: a slot in a caller's hand holds its request.   *)
OwnContents ==
  \A c \in Callers : pc[c] \in Holding \ {"make"} => buffer_slots[slot[c]].ctx = op[c]

FifoInv == IndInv /\ OwnContents /\ SendFifo

AckTypes == {"PINGRESP", "PUBACK", "PUBREC", "PUBCOMP", "SUBACK"}

\* When an acknowledgement is dispatched, the entry dequeue_by_type_and_id
\* finds is that of the request the broker acknowledged: it was registered
\* before the request could be sent, and no other one hides it.
AckMatches ==
  (process = "running" /\ tpc = "dispatch" /\ resp.type \in AckTypes) =>
    \E i \in First(Hits(resp.type, resp.id)) : ack_queue[i].ctx = resp.ctx

\* The callback of a ping, a publish or an unsubscribe is called at most once:
\* threads that share the counter and use the same identifier, replies that
\* are read again at end of file, and SUBACKs nobody waits for do not make it
\* come again.  (A subscribe is another matter: after
\* a SUBACK with another identifier, the waiting_t of the last subscribe may
\* be called back a second time; see OnSuback.)
CallbackOnce ==
  \A i, j \in DOMAIN called : called[i] = called[j] /\ called[i].kind # "sub" => i = j

(* What makes it inductive: a call waits to be registered, is registered   *)
(* in ack_queue, is in the hand of the session thread or has been called   *)
(* back, and is so in one place only.                                      *)
Once == {"ping", "pub1", "pub2"}

Registers(e) == e.type # "PUBREL"
Unregistered(c) == op[c].kind \in Once /\ pc[c] \in {"get_slot", "make", "fill", "wait"}
InHand ==
  \/ tpc = "callback"
  \/ tpc = "reply" /\ resp.type = "PUBREC"
  \/ tpc = "enqueue_waiting" /\ waiting.type # "PUBREL"

\* An unsubscribe waits for a SUBACK with an identifier no message has.
EntryOK(e) ==
  /\ e.type \in AckTypes /\ e.ctx.kind \in Kinds \ {"pub0"} /\ e.ctx.n \in 1..calls[e.ctx.kind]
  /\ e.type = "PINGRESP" <=> e.ctx.kind = "ping"
  /\ e.type = "SUBACK" <=> e.ctx.kind \notin Once
  /\ e.type = "SUBACK" /\ e.ctx.kind # "sub" => e.id = -1

RequestsOK ==
  \A c \in Callers :
    /\ op[c].n <= calls[op[c].kind] /\ (pc[c] \in CallerSteps => op[c].n >= 1)
    /\ pc[c] = "wait" => entry[c].ctx = op[c] /\ Registers(entry[c]) /\ EntryOK(entry[c])

RegisteredOK == \A i \in DOMAIN ack_queue : Registers(ack_queue[i]) => EntryOK(ack_queue[i])

HandOK ==
  /\ waiting # NoEntry /\ waiting.type = "SUBACK" =>
       waiting.ctx.kind = "sub" /\ EntryOK(waiting)
  /\ tpc = "reply" /\ resp.type = "PUBREC" => waiting.type = "PUBREC"
  /\ tpc = "enqueue_waiting" => waiting.type \in {"PUBCOMP", "PUBREL"}
  /\ InHand => waiting.ctx.kind \in Once \cup {"sub"} /\ Registers(waiting) /\ EntryOK(waiting)

CalledOK ==
  \A i \in DOMAIN called :
    called[i].kind \in Once \cup {"sub"} /\ called[i].n \in 1..calls[called[i].kind]

\* Is x a ping or publish that is neither registered nor called back?
Unknown(x) ==
  x.kind \in Once =>
    /\ \A i \in DOMAIN ack_queue : Registers(ack_queue[i]) => ack_queue[i].ctx # x
    /\ \A i \in DOMAIN called : called[i] # x

OnePlace ==
  /\ \A i, j \in DOMAIN ack_queue :
       /\ Registers(ack_queue[i]) /\ Registers(ack_queue[j])
       /\ ack_queue[i].ctx = ack_queue[j].ctx /\ ack_queue[i].ctx.kind \in Once
       => i = j
  /\ \A i \in DOMAIN ack_queue, j \in DOMAIN called :
       Registers(ack_queue[i]) /\ ack_queue[i].ctx.kind \in Once => ack_queue[i].ctx # called[j]
  /\ CallbackOnce
  /\ InHand => Unknown(waiting.ctx)
  /\ \A c \in Callers : Unregistered(c) =>
       /\ Unknown(op[c])
       /\ InHand => waiting.ctx # op[c]
       /\ \A d \in Callers : Unregistered(d) /\ op[d] = op[c] => d = c

CallbackInv ==
  IndInv /\ RequestsOK /\ RegisteredOK /\ HandOK /\ CalledOK /\ OnePlace

\* A callback is only called after the broker sent the final acknowledgement
\* of that very request.
CallbackAfterAnswer == ToSet(called) \subseteq answered

\* msg_callback gets every publication of one QoS in the order in which the
\* broker made them, and none of them twice.
DeliverInOrder ==
  \A i, j \in DOMAIN delivered :
    (i < j /\ delivered[i].kind = delivered[j].kind) => delivered[i].n < delivered[j].n

\* Once the client has taken over a QoS 1 or QoS 2 publication (its PUBACK or
\* PUBCOMP is on its way) the application has it, or is just being called.
HandoverSafe ==
  \A i \in DOMAIN toServer :
    (toServer[i].type \in {"PUBACK", "PUBCOMP"} /\ process = "running") =>
      \/ toServer[i].ctx \in ToSet(delivered)
      \/ tpc = "deliver" /\ toServer[i].ctx = Delivering

(* What makes the two inductive, while the connection is up: the           *)
(* publications of one QoS stand in line, from the delivered ones to the   *)
(* next one, and the copies the client stores of QoS 2 publications are    *)
(* those whose PUBREC or PUBREL is under way.                              *)

\* The numbers of the packets or entries of one type in a sequence that are
\* about publications of one kind, and that they rise.
About(s, type, k) == {i \in DOMAIN s : s[i].type = type /\ s[i].ctx.kind = k}
Numbers(s, type, k) == {s[i].ctx.n : i \in About(s, type, k)}
Rising(s, type, k) == \A i, j \in About(s, type, k) : i < j => s[i].ctx.n < s[j].ctx.n

Handled(type, k) ==
  IF tpc \in {"dispatch", "reply", "deliver"} /\ resp.type = type /\ resp.ctx.kind = k
  THEN {resp.ctx.n} ELSE {}

\* From the publications the application has to the one the broker makes next.
Line(k) ==
  << {delivered[i].n : i \in {j \in DOMAIN delivered : delivered[j].kind = k}},
     Handled("PUBREL", k), Numbers(toClient, "PUBREL", k), Numbers(owed, "PUBREL", k),
     Numbers(toServer, "PUBREC", k), Handled("PUBLISH", k), Numbers(toClient, "PUBLISH", k),
     {pushes[Qos(k)] + 1} >>

InLine(line) == \A a, b \in 1..8 : a < b => \A x \in line[a], y \in line[b] : x < y

SrvKinds == {"srv0", "srv1", "srv2"}

OrderOK ==
  \A k \in SrvKinds :
    /\ InLine(Line(k))
    /\ Rising(toClient, "PUBREL", k) /\ Rising(owed, "PUBREL", k)
    /\ Rising(toServer, "PUBREC", k) /\ Rising(toClient, "PUBLISH", k)

\* What a packet on its way to the client, or in its hand, is about.
PacketOK(m) ==
  /\ m.type = "PUBLISH" => m.ctx.kind \in SrvKinds /\ m.qos = Qos(m.ctx.kind)
  /\ m.type = "PUBREL" => m.ctx.kind = "srv2"

PacketsOK ==
  /\ \A i \in DOMAIN toClient : PacketOK(toClient[i])
  /\ \A i \in DOMAIN owed : PacketOK(owed[i]) /\ owed[i].type # "PUBLISH"
  /\ \A i \in DOMAIN toServer : toServer[i].type = "PUBREC" => toServer[i].ctx.kind = "srv2"
  /\ tpc \in {"dispatch", "reply", "deliver"} => PacketOK(resp) /\ Wire(resp.id) = resp.id
  /\ tpc = "reply" =>
       resp.type \in {"PUBREC", "PUBREL"} \/ (resp.type = "PUBLISH" /\ resp.qos # 0)
  /\ tpc = "deliver" => resp.type = "PUBREL" \/ (resp.type = "PUBLISH" /\ resp.qos # 2)
  /\ tpc \in {"reply", "deliver"} /\ resp.type = "PUBREL" => waiting.ctx = resp.ctx

\* Which publications the packets or entries of one type are about.
Tags(s, type) == {<<s[i].id, s[i].ctx>> : i \in {j \in DOMAIN s : s[j].type = type}}

Storing == tpc = "enqueue_waiting" /\ waiting.type = "PUBREL"
Copies ==
  Tags(ack_queue, "PUBREL") \cup (IF Storing THEN {<<waiting.id, waiting.ctx>>} ELSE {})
Releases ==
  Tags(toServer, "PUBREC") \cup Tags(owed, "PUBREL") \cup Tags(toClient, "PUBREL")
  \cup (IF tpc = "dispatch" /\ resp.type = "PUBREL" THEN {<<resp.id, resp.ctx>>} ELSE {})

CopiesOK ==
  /\ Copies = Releases
  /\ \A tag \in Copies : Wire(tag[1]) = tag[1]
  /\ Rising(ack_queue, "PUBREL", "srv2")
  /\ Storing => \A n \in Numbers(ack_queue, "PUBREL", "srv2") : n < waiting.ctx.n

\* What a slot that is queued or held contains is a request.
SlotsOK ==
  \A s \in Slots :
    buffer_slots[s] # NoMsg =>
      buffer_slots[s].type \in {"PINGREQ", "SUBSCRIBE", "UNSUBSCRIBE", "PUBLISH"}

LineInv == SlotsOK /\ (link = "up" => OrderOK /\ PacketsOK /\ CopiesOK)

\* Once the connection is gone nothing is handled any more, as long as it is
\* the client that ends it.
NothingAfter ==
  /\ link = "null" =>
       tpc \notin {"dispatch", "callback", "reply", "enqueue_waiting", "deliver"}
  /\ (link = "closed" \/ \E i \in DOMAIN toServer : toServer[i].type = "DISCONNECT") =>
       process # "running"

Awaited == {"ping", "pub1", "pub2", "sub"}

\* Every accepted ping, subscribe and QoS 1 or QoS 2 publish is called back.
\* (An unsubscribe never is: its entry waits for a SUBACK.)
EveryCallbackComes ==
  \A k \in Awaited : \A n \in 1..MaxCalls[k] :
    [kind |-> k, n |-> n] \in ToSet(accepted) ~> [kind |-> k, n |-> n] \in ToSet(called)

\* Every publication of the broker reaches msg_callback.
EveryPushDelivered ==
  \A q \in 0..2 : \A n \in 1..MaxPushes[q] :
    pushes[q] >= n ~> [kind |-> SrvKind[q + 1], n |-> n] \in ToSet(delivered)

\* An API call returns.
CallsReturn == \A c \in Callers : pc[c] = "get_slot" ~> pc[c] = "idle"

\* A caller spins with the mutex, and every slot of the pool waits to be sent,
\* is being sent, or is being filled by another caller.
PoolExhausted ==
  /\ mutex \in Callers
  /\ Slots \subseteq ToSet(send_queue) \cup {position} \cup {slot[c] : c \in Callers}

\* A pool whose slots are all on their way to the broker is the only thing that
\* can keep an API call from returning: not sends that failed, a peer that
\* closed, slots used more often than there are, or the session thread at its
\* own work.  (In a dead process no call returns.)
CallsReturnUnlessFull ==
  \A c \in Callers : pc[c] = "get_slot" ~> (pc[c] = "idle" \/ PoolExhausted \/ process = "crashed")

\* smqtt_mt_disconnect returns (or the process is dead): the session thread
\* sees ready_to_disconnect however busy its queues are.
DisconnectReturns ==
  \A c \in Callers : pc[c] = "join" ~> (pc[c] = "gone" \/ process = "crashed")
=============================================================================
