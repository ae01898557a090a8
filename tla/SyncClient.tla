----------------------------- MODULE SyncClient -----------------------------
(***************************************************************************)
(* The single-threaded client, libsmqttclient/smqttc.c, over the socket of *)
(* libsmqttcore/network_server.c.  A call sends its request, waits for one *)
(* packet (two at QoS 2) and judges it; there is no queue, so whatever     *)
(* packet comes first is taken for the answer.                             *)
(*                                                                         *)
(* One step is one call of the server_t interface with the code around it: *)
(* the broker, external, is the only other actor.  Messages are those of   *)
(* module Session: a type, a QoS, the packet identifier as it is on the    *)
(* wire (for CONNACK the return code) and, as history, for which call or   *)
(* publication they are.                                                   *)
(***************************************************************************)
EXTENDS Integers, Sequences, SequencesExt

CONSTANTS
  MaxCalls,      \* bound: number of calls of each kind the application makes
  MaxPushes,     \* bound: publications the broker makes, for each QoS
  BrokerIds,     \* packet identifiers the broker uses for its publications
  ConnackCodes,  \* return codes the broker may answer CONNECT with
  GarbageIds,    \* what malloc may leave in unsubscribe_packet_id
  TopicByte,     \* first character of the topic of the publications
  Faults,        \* which failures of the connection occur
  NoMsg          \* no response: the buffer holds no message type

Requests == {"ping", "pub0", "pub1", "pub2", "sub", "unsub"}
Kinds == Requests \cup {"connect", "next", "disconnect", "drop"}

MaxId == 65535

MessageTypes ==
  {"CONNECT", "CONNACK", "PINGREQ", "PINGRESP", "SUBSCRIBE", "SUBACK", "UNSUBSCRIBE",
   "UNSUBACK", "PUBLISH", "PUBACK", "PUBREC", "PUBREL", "PUBCOMP", "DISCONNECT"}
Contexts == [kind : Kinds \cup {"srv0", "srv1", "srv2"}, n : Nat]
Messages == [type : MessageTypes, qos : 0..2, id : 0..255, ctx : Contexts]

ASSUME BoundAssumption == MaxCalls \in [Kinds -> Nat] /\ MaxPushes \in [0..2 -> Nat]
ASSUME FlagAssumption == Faults \subseteq {"connect", "send", "close"}
ASSUME IdAssumption == BrokerIds \subseteq 1..255
ASSUME GarbageAssumption == GarbageIds \subseteq 0..MaxId
ASSUME CodeAssumption == ConnackCodes \subseteq 0..255 /\ TopicByte \in 1..255
ASSUME NoMsgAssumption == NoMsg \notin Messages

VARIABLES
  \* struct smqtt_client and the global receive_buffer
  publish_packet_id, subscribe_packet_id, unsubscribe_packet_id, receive_buffer,
  \* locals of the call in progress
  pc, call, stage, sz, resp, packet_id,
  \* the connection and the broker
  link, toServer, toClient, inflight,
  prompt,   \* does this broker always answer within the socket timeout?
  \* history
  calls, returned, answered, pushes, handed, taken

counters    == <<publish_packet_id, subscribe_packet_id, unsubscribe_packet_id>>
localVars   == <<pc, call, stage, sz, resp, packet_id>>
netVars     == <<link, toServer, toClient, inflight, prompt>>
historyVars == <<calls, returned, answered, pushes, handed, taken>>
vars == <<counters, receive_buffer, localVars, netVars, historyVars>>

Bump(id) == IF id = MaxId THEN 0 ELSE id + 1
Wire(id) == id % 256

Msg(t, q, i, x) == [type |-> t, qos |-> q, id |-> i, ctx |-> x]

Qos(kind) == CASE kind \in {"pub1", "srv1"} -> 1
               [] kind \in {"pub2", "srv2"} -> 2
               [] OTHER -> 0

-----------------------------------------------------------------------------
(* server_t: how a call sends, and how it ends.                            *)

SendOk(m) ==
  /\ link \in {"up", "closed"}
  /\ toServer' = IF link = "up" THEN Append(toServer, m) ELSE toServer
  /\ UNCHANGED link

\* network_send frees the implementation and clears the pointer to it.
SendFails ==
  /\ "send" \in Faults /\ link \in {"up", "closed"}
  /\ link' = "null"
  /\ UNCHANGED toServer

\* ... which the next send dereferences; a closed peer may raise SIGPIPE.
SendDies ==
  /\ link \in {"null", "closed"}
  /\ UNCHANGED <<link, toServer>>

Return(status) ==
  /\ pc' = "idle"
  /\ returned' = returned \cup {[call |-> call', status |-> status]}
Await == pc' = "receive" /\ UNCHANGED returned
Die == pc' = "crashed" /\ UNCHANGED returned

\* A call is entered.  connected is TRUE in every client smqtt_connect gives
\* out and is never reset, so no call returns SMQTT_NOT_CONNECTED.
Begin(k) ==
  /\ pc = "idle" /\ calls[k] < MaxCalls[k]
  /\ calls' = [calls EXCEPT ![k] = @ + 1]
  /\ call' = [kind |-> k, n |-> calls[k] + 1]
  /\ stage' = 1

-----------------------------------------------------------------------------
(* smqtt_connect_internal.                                                 *)

\* Names that are too long are refused with SMQTT_OK and no client ("none").
\* unsubscribe_packet_id is not initialised.
Connect ==
  /\ pc = "start" /\ calls["connect"] < MaxCalls["connect"]
  /\ calls' = [calls EXCEPT !["connect"] = @ + 1]
  /\ call' = [kind |-> "connect", n |-> calls["connect"] + 1]
  /\ unsubscribe_packet_id' \in GarbageIds
  /\ \/ pc' = "none" /\ UNCHANGED <<link, toServer>>                      \* too long
     \/ "connect" \in Faults /\ pc' = "none" /\ UNCHANGED <<link, toServer>>  \* SMQTT_SOCKET
     \/ /\ link' = "up"
        /\ toServer' = <<Msg("CONNECT", 0, 0, call')>>
        /\ pc' = "receive"
     \/ "send" \in Faults /\ link' = "null" /\ pc' = "none" /\ UNCHANGED toServer
  /\ UNCHANGED <<publish_packet_id, subscribe_packet_id, receive_buffer, stage, sz, resp,
                 packet_id, toClient, inflight, prompt, returned, answered, pushes, handed, taken>>

\* The CONNACK, if it is one: any other message counts as an acceptance.
OnConnack ==
  /\ pc = "parse" /\ call.kind = "connect"
  /\ UNCHANGED call
  /\ \/ ~sz /\ pc' = "none" /\ link' = "closed" /\ UNCHANGED returned      \* SMQTT_NOMESSAGE
     \/ sz /\ resp = NoMsg /\ pc' = "none" /\ UNCHANGED <<link, returned>> \* 99
     \/ /\ sz /\ resp # NoMsg
        /\ IF resp.type = "CONNACK" /\ resp.id # 0
           THEN pc' = "none" /\ link' = "closed" /\ UNCHANGED returned
           ELSE Return("OK") /\ UNCHANGED link
  /\ UNCHANGED <<counters, receive_buffer, stage, sz, resp, packet_id, toServer, toClient,
                 inflight, prompt, calls, answered, pushes, handed, taken>>

-----------------------------------------------------------------------------
(* smqtt_ping, smqtt_subscribe, smqtt_unsubscribe and smqtt_publish.       *)

\* Each kind of request has a counter, which it bumps first; QoS 0 does not.
BumpCounter(k) ==
  /\ publish_packet_id' = IF k \in {"pub1", "pub2"} THEN Bump(publish_packet_id)
                                                    ELSE publish_packet_id
  /\ subscribe_packet_id' = IF k = "sub" THEN Bump(subscribe_packet_id)
                                         ELSE subscribe_packet_id
  /\ unsubscribe_packet_id' = IF k = "unsub" THEN Bump(unsubscribe_packet_id)
                                             ELSE unsubscribe_packet_id

IdOf(k) ==
  CASE k \in {"pub1", "pub2"} -> publish_packet_id
    [] k = "sub" -> subscribe_packet_id
    [] k = "unsub" -> unsubscribe_packet_id
    [] OTHER -> 0

RequestType(k) ==
  CASE k = "ping" -> "PINGREQ"
    [] k = "sub" -> "SUBSCRIBE"
    [] k = "unsub" -> "UNSUBSCRIBE"
    [] OTHER -> "PUBLISH"

\* Mutant: nobody reads the PINGRESP.
FireAndForgetPing(k) == k \in {"pub0", "ping"}

\* No reply is waited for.
FireAndForget(k) == k = "pub0"

\* A request is sent.  A subscribe that cannot be sent returns -1.
Request(k) ==
  /\ Begin(k)
  /\ BumpCounter(k)
  /\ \/ /\ SendOk(Msg(RequestType(k), Qos(k), Wire(IdOf(k)'), call'))
        /\ IF FireAndForget(k) THEN Return("OK") ELSE Await
     \/ SendFails /\ Return(IF k = "sub" THEN "-1" ELSE "SOCKET")
     \/ SendDies /\ Die
  /\ UNCHANGED <<receive_buffer, sz, resp, packet_id, toClient, inflight, prompt, answered,
                 pushes, handed, taken>>

\* What deserialize_response makes of the buffer when nothing was received:
\* with a length of 0 it takes no size byte, so it reads every field one byte
\* early, and an identifier from where the high byte of it was.
Stale(m) ==
  CASE m = NoMsg -> NoMsg
    [] m # NoMsg /\ m.type = "PUBLISH" -> [m EXCEPT !.id = IF m.qos = 0 THEN 0 ELSE TopicByte]
    [] OTHER -> [m EXCEPT !.id = 0]

\* Does the timeout of the socket pass with nothing received?
Quiet == toClient = <<>> /\ (prompt /\ link = "up" => toServer = <<>>)

\* Mutant: the socket has no timeout.
ServerReceiveBlocking ==
  /\ pc = "receive" /\ link # "null" /\ toClient # <<>>
  /\ resp' = [Head(toClient) EXCEPT !.id = Wire(@)]
  /\ receive_buffer' = resp'
  /\ toClient' = Tail(toClient)
  /\ sz' = TRUE
  /\ pc' = "parse"
  /\ UNCHANGED <<counters, call, stage, packet_id, link, toServer, inflight, prompt, historyVars>>

\* server_receive and deserialize_response: a packet, the timeout (or a reset
\* connection), or the end of file, at which network_receive takes the old
\* contents of the buffer for a packet.  sz says whether its result is positive.
ServerReceive ==
  /\ pc = "receive"
  /\ \/ /\ link # "null" /\ toClient # <<>>
        /\ resp' = [Head(toClient) EXCEPT !.id = Wire(@)]
        /\ receive_buffer' = resp'
        /\ toClient' = Tail(toClient)
        /\ sz' = TRUE
        /\ pc' = "parse"
     \/ /\ link # "null" /\ Quiet
        /\ resp' = Stale(receive_buffer)
        /\ sz' = FALSE
        /\ pc' = "parse"
        /\ UNCHANGED <<receive_buffer, toClient>>
     \/ /\ link = "closed" /\ toClient = <<>>
        /\ resp' = receive_buffer
        /\ sz' = TRUE
        /\ pc' = "parse"
        /\ UNCHANGED <<receive_buffer, toClient>>
     \/ /\ link = "null"
        /\ pc' = "crashed"
        /\ UNCHANGED <<resp, sz, receive_buffer, toClient>>
  /\ UNCHANGED <<counters, call, stage, packet_id, link, toServer, inflight, prompt, historyVars>>

ReplyTo ==
  CASE call.kind = "ping" -> "PINGRESP"
    [] call.kind = "sub" -> "SUBACK"
    [] call.kind = "unsub" -> "UNSUBACK"
    [] call.kind = "pub1" -> "PUBACK"
    [] OTHER -> IF stage = 1 THEN "PUBREC" ELSE "PUBCOMP"

\* Mutant: the packet identifier is not looked at.
MatchesType == resp # NoMsg /\ resp.type = ReplyTo

Matches ==
  /\ resp # NoMsg /\ resp.type = ReplyTo
  /\ call.kind = "ping" \/ resp.id = IdOf(call.kind)

\* The response is judged.  A QoS 2 publication goes on with PUBREL.
OnReply ==
  /\ pc = "parse" /\ call.kind \in Requests
  /\ UNCHANGED call
  /\ LET halfway == call.kind = "pub2" /\ stage = 1
     IN  \/ /\ resp = NoMsg
            /\ Return(IF halfway THEN "-1" ELSE "BAD_MESSAGE")
            /\ UNCHANGED <<stage, link, toServer>>
         \/ /\ resp # NoMsg /\ ~Matches
            /\ Return("UNEXPECTED")
            /\ UNCHANGED <<stage, link, toServer>>
         \/ /\ Matches /\ ~halfway
            /\ Return("OK")
            /\ UNCHANGED <<stage, link, toServer>>
         \/ /\ Matches /\ halfway
            /\ \/ SendOk(Msg("PUBREL", 0, Wire(publish_packet_id), call)) /\ stage' = 2 /\ Await
               \/ SendFails /\ Return("SOCKET") /\ UNCHANGED stage
               \/ SendDies /\ Die /\ UNCHANGED stage
  /\ UNCHANGED <<counters, receive_buffer, sz, resp, packet_id, toClient, inflight, prompt,
                 calls, answered, pushes, handed, taken>>

-----------------------------------------------------------------------------
(* smqtt_get_next_message, smqtt_disconnect and mqtt_drop.                 *)

GetNextMessage ==
  /\ Begin("next")
  /\ Await
  /\ UNCHANGED <<counters, receive_buffer, sz, resp, packet_id, netVars, answered, pushes,
                 handed, taken>>

AckFor(qos) == IF qos = 1 THEN "PUBACK" ELSE "PUBREC"

\* The first packet: a publication is copied for the caller and acknowledged.
\* server_receive never returns less than 0, so SMQTT_NOMESSAGE never comes.
OnNextPublish ==
  /\ pc = "parse" /\ call.kind = "next" /\ stage = 1
  /\ UNCHANGED call
  /\ \/ /\ resp = NoMsg
        /\ Return("BAD_MESSAGE")
        /\ UNCHANGED <<stage, packet_id, link, toServer, handed>>
     \/ /\ resp # NoMsg /\ resp.type # "PUBLISH"
        /\ Return("UNEXPECTED")
        /\ UNCHANGED <<stage, packet_id, link, toServer, handed>>
     \/ /\ resp # NoMsg /\ resp.type = "PUBLISH"
        /\ packet_id' = resp.id
        /\ handed' = Append(handed, resp.ctx)
        /\ \/ /\ resp.qos = 0
              /\ Return("OK")
              /\ UNCHANGED <<stage, link, toServer>>
           \/ /\ resp.qos # 0
              /\ \/ /\ SendOk(Msg(AckFor(resp.qos), 0, Wire(resp.id), resp.ctx))
                    /\ IF resp.qos = 1 THEN Return("OK") /\ UNCHANGED stage
                                       ELSE Await /\ stage' = 2
                 \/ SendFails /\ Return("SOCKET") /\ UNCHANGED stage
                 \/ SendDies /\ Die /\ UNCHANGED stage
  /\ UNCHANGED <<counters, receive_buffer, sz, resp, toClient, inflight, prompt, calls,
                 answered, pushes, taken>>

\* Mutant: PUBCOMP answers whatever came.
IsPubrelAny == resp # NoMsg

IsPubrel == resp # NoMsg /\ resp.type = "PUBREL" /\ resp.id = packet_id

\* The second packet of a QoS 2 publication: PUBREL, answered with PUBCOMP.
OnNextPubrel ==
  /\ pc = "parse" /\ call.kind = "next" /\ stage = 2
  /\ UNCHANGED call
  /\ \/ resp = NoMsg /\ Return("BAD_MESSAGE") /\ UNCHANGED <<link, toServer>>
     \/ resp # NoMsg /\ ~IsPubrel /\ Return("UNEXPECTED") /\ UNCHANGED <<link, toServer>>
     \/ /\ IsPubrel
        /\ \/ SendOk(Msg("PUBCOMP", 0, Wire(resp.id), resp.ctx)) /\ Return("OK")
           \/ SendFails /\ Return("SOCKET")
           \/ SendDies /\ Die
  /\ UNCHANGED <<counters, receive_buffer, stage, sz, resp, packet_id, toClient,
                 inflight, prompt, calls, answered, pushes, handed, taken>>

\* After a failed send server_disconnect dereferences the cleared pointer.
\* The application makes no call after it.
Disconnect ==
  /\ Begin("disconnect")
  /\ \/ SendOk(Msg("DISCONNECT", 0, 0, call')) /\ pc' = "gone"
     \/ SendFails /\ pc' = "crashed"
     \/ SendDies /\ pc' = "crashed"
  /\ UNCHANGED <<counters, receive_buffer, sz, resp, packet_id, toClient, inflight, prompt,
                 returned, answered, pushes, handed, taken>>

\* mqtt_drop closes the socket and sends nothing.
Drop ==
  /\ Begin("drop")
  /\ \/ link # "null" /\ pc' = "gone" /\ link' = "closed"
     \/ link = "null" /\ pc' = "crashed" /\ UNCHANGED link
  /\ UNCHANGED <<counters, receive_buffer, sz, resp, packet_id, toServer, toClient, inflight, prompt,
                 returned, answered, pushes, handed, taken>>

-----------------------------------------------------------------------------
(* The broker, external: it answers in order, and publishes to a client    *)
(* whose CONNECT it has accepted.                                          *)

Answers(m) ==
  CASE m.type = "CONNECT"     -> {Msg("CONNACK", 0, c, m.ctx) : c \in ConnackCodes}
    [] m.type = "PINGREQ"     -> {Msg("PINGRESP", 0, 0, m.ctx)}
    [] m.type = "SUBSCRIBE"   -> {Msg("SUBACK", 0, m.id, m.ctx)}
    [] m.type = "UNSUBSCRIBE" -> {Msg("UNSUBACK", 0, m.id, m.ctx)}
    [] m.type = "PUBLISH" /\ m.qos = 1 -> {Msg("PUBACK", 0, m.id, m.ctx)}
    [] m.type = "PUBLISH" /\ m.qos = 2 -> {Msg("PUBREC", 0, m.id, m.ctx)}
    [] m.type = "PUBREL"      -> {Msg("PUBCOMP", 0, m.id, m.ctx)}
    [] m.type = "PUBREC"      -> {Msg("PUBREL", 0, m.id, m.ctx)}
    [] OTHER -> {}

Final(a) ==
  \/ a.type \in {"PINGRESP", "SUBACK", "UNSUBACK", "PUBACK", "PUBCOMP"}
  \/ a.type = "CONNACK" /\ a.id = 0

\* A publication is in flight until the broker has the PUBACK or PUBCOMP that
\* carries its identifier, and is then forgotten.
BrokerReceive ==
  /\ link # "closed" /\ toServer # <<>>
  /\ toServer' = Tail(toServer)
  /\ LET m == Head(toServer)
         done == IF m.type \in {"PUBACK", "PUBCOMP"} THEN {p \in inflight : p.id = m.id} ELSE {}
     IN  /\ \/ /\ Answers(m) = {}
               /\ UNCHANGED <<toClient, answered>>
            \/ \E a \in Answers(m) :
                 /\ toClient' = Append(toClient, a)
                 /\ answered' = IF Final(a) THEN answered \cup {a.ctx} ELSE answered
         /\ inflight' = inflight \ done
         /\ taken' = taken \cup done
         /\ link' = IF m.type = "DISCONNECT" THEN "closed" ELSE link
  /\ UNCHANGED <<counters, receive_buffer, localVars, prompt, calls, returned, pushes, handed>>

SrvKind == <<"srv0", "srv1", "srv2">>

BrokerPublish(q) ==
  /\ link # "closed" /\ [kind |-> "connect", n |-> 1] \in answered
  /\ pushes[q] < MaxPushes[q]
  /\ LET x == [kind |-> SrvKind[q + 1], n |-> pushes[q] + 1]
     IN  \E id \in IF q = 0 THEN {0} ELSE BrokerIds \ {p.id : p \in inflight} :
           /\ toClient' = Append(toClient, Msg("PUBLISH", q, id, x))
           /\ inflight' = IF q = 0 THEN inflight ELSE inflight \cup {[id |-> id, ctx |-> x]}
  /\ pushes' = [pushes EXCEPT ![q] = @ + 1]
  /\ UNCHANGED <<counters, receive_buffer, localVars, link, toServer, prompt,
                 calls, returned, answered, handed, taken>>

BrokerClose ==
  /\ "close" \in Faults /\ link = "up"
  /\ link' = "closed"
  /\ UNCHANGED <<counters, receive_buffer, localVars, toServer, toClient, inflight, prompt, historyVars>>

-----------------------------------------------------------------------------
\* The globals are zero: receive_buffer holds no message.
Init ==
  /\ publish_packet_id = 0 /\ subscribe_packet_id = 1 /\ unsubscribe_packet_id = 0
  /\ receive_buffer = NoMsg
  /\ pc = "start" /\ call = [kind |-> "connect", n |-> 0] /\ stage = 1
  /\ sz = FALSE /\ resp = NoMsg /\ packet_id = 0
  /\ link = "down" /\ toServer = <<>> /\ toClient = <<>> /\ inflight = {}
  /\ prompt \in BOOLEAN
  /\ calls = [k \in Kinds |-> 0] /\ returned = {} /\ answered = {}
  /\ pushes = [q \in 0..2 |-> 0] /\ handed = <<>> /\ taken = {}

\* The application is inside a call of the API, which runs on.
CallStep == ServerReceive \/ OnConnack \/ OnReply \/ OnNextPublish \/ OnNextPubrel

AppStep ==
  \/ Connect \/ \E k \in Requests : Request(k)
  \/ GetNextMessage \/ Disconnect \/ Drop
  \/ CallStep

BrokerStep == BrokerReceive \/ BrokerClose \/ \E q \in 0..2 : BrokerPublish(q)

Next == AppStep \/ BrokerStep

\* The thread that is inside a call keeps running: the socket has a timeout.
\* Of the broker nothing is assumed, unless it is a prompt one.
Spec ==
  /\ Init /\ [][Next]_vars
  /\ WF_vars(CallStep) /\ WF_vars(prompt /\ BrokerReceive)

-----------------------------------------------------------------------------
(* Properties.                                                             *)

Injective(s) == \A i, j \in DOMAIN s : s[i] = s[j] => i = j

OkCalls(kinds) == {r.call : r \in {t \in returned : t.status = "OK" /\ t.call.kind \in kinds}}

Exchanges == {"pub1", "pub2", "sub", "unsub"}

\* A publish at QoS 1 or 2, a subscribe or an unsubscribe that returns SMQTT_OK
\* has been acknowledged by the broker, that very call and to the end of its
\* exchange: late answers to earlier calls, publications that come in between,
\* timeouts and a lost connection do not make it succeed.  (A ping has no
\* identifier: after a timeout it takes an earlier PINGRESP for its own.)
OkMeansAnswered == OkCalls(Exchanges) \subseteq answered

\* The states the client and the connection can be in.
TypeOK ==
  /\ publish_packet_id \in 0..MaxId /\ subscribe_packet_id \in 0..MaxId
  /\ unsubscribe_packet_id \in 0..MaxId
  /\ receive_buffer \in Messages \cup {NoMsg} /\ resp \in Messages \cup {NoMsg}
  /\ pc \in {"start", "none", "idle", "receive", "parse", "gone", "crashed"}
  /\ call \in [kind : Kinds, n : Nat] /\ stage \in {1, 2} /\ packet_id \in 0..255
  /\ link \in {"down", "up", "closed", "null"}
  /\ toServer \in Seq(Messages) /\ toClient \in Seq(Messages)
  /\ calls \in [Kinds -> Nat] /\ pushes \in [0..2 -> Nat] /\ handed \in Seq(Contexts)
  /\ \A p \in inflight : p.id \in BrokerIds

(* What makes OkMeansAnswered inductive: as long as no counter wraps round *)
(* (NoWrap), every message of an exchange has an identifier up to that of  *)
(* the last call of its kind, and one with that very identifier belongs to *)
(* the call in progress.                                                   *)
NoWrap ==
  /\ MaxCalls["pub1"] + MaxCalls["pub2"] <= MaxId
  /\ MaxCalls["sub"] + 1 <= MaxId
  /\ \A g \in GarbageIds : g + MaxCalls["unsub"] <= MaxId

InCall(kinds) == pc \in {"receive", "parse"} /\ call.kind \in kinds

CountersOK ==
  /\ \A k \in Kinds : calls[k] <= MaxCalls[k]
  /\ publish_packet_id = calls["pub1"] + calls["pub2"]
  /\ subscribe_packet_id = calls["sub"] + 1
  /\ \/ pc = "start" /\ calls["unsub"] = 0
     \/ pc # "start" /\ unsubscribe_packet_id - calls["unsub"] \in GarbageIds
  /\ InCall(Kinds) => calls[call.kind] > 0

Own(m, id, kinds) == m.id <= id /\ (InCall(kinds) /\ m.id = id => m.ctx = call)

RequestOK(m) ==
  /\ m.type = "PUBREL" \/ (m.type = "PUBLISH" /\ m.qos # 0) =>
       Own(m, publish_packet_id, {"pub1", "pub2"})
  /\ m.type = "SUBSCRIBE" => Own(m, subscribe_packet_id, {"sub"})
  /\ m.type = "UNSUBSCRIBE" => Own(m, unsubscribe_packet_id, {"unsub"})

ReplyOK(m) ==
  /\ m.type \in {"PUBACK", "PUBREC", "PUBCOMP"} =>
       Own(m, publish_packet_id, {"pub1", "pub2"})
  /\ m.type = "SUBACK" => Own(m, subscribe_packet_id, {"sub"})
  /\ m.type = "UNSUBACK" => Own(m, unsubscribe_packet_id, {"unsub"})
  /\ m.type \in {"PUBACK", "PUBCOMP", "SUBACK", "UNSUBACK"} => m.ctx \in answered

StartOK ==
  pc = "start" => toServer = <<>> /\ toClient = <<>> /\ receive_buffer = NoMsg /\ answered = {}
RequestsOK == \A i \in DOMAIN toServer : RequestOK(toServer[i])
RepliesOK ==
  /\ \A i \in DOMAIN toClient : ReplyOK(toClient[i])
  /\ receive_buffer # NoMsg => ReplyOK(receive_buffer)
  /\ resp # NoMsg /\ pc = "parse" => ReplyOK(resp)

AnswerInv == TypeOK /\ CountersOK /\ StartOK /\ RequestsOK /\ RepliesOK /\ OkMeansAnswered

\* While the connection is up and the broker answers in time and publishes
\* nothing, every call but unsubscribe returns SMQTT_OK: no exchange leaves a
\* reply behind that the next call would take for its own.  (unsubscribe fails
\* when its uninitialised identifier is above 255.)
Healthy == prompt /\ link = "up" /\ \A q \in 0..2 : pushes[q] = 0

HealthyCallsSucceed ==
  Healthy => \A r \in returned : r.call.kind \in Requests \ {"unsub"} => r.status = "OK"

(* What makes it inductive: client and broker go in lockstep.  Outside the *)
(* calls that wait for a reply nothing is under way that will be answered, *)
(* and inside there is one such message, which is answered as expected if  *)
(* its identifier fits into the byte that is sent (SmallIds).              *)
SmallIds == MaxCalls["pub1"] + MaxCalls["pub2"] <= 255 /\ MaxCalls["sub"] + 1 <= 255

SmallCounters ==
  /\ \A k \in Kinds : calls[k] <= MaxCalls[k]
  /\ publish_packet_id = calls["pub1"] + calls["pub2"]
  /\ subscribe_packet_id = calls["sub"] + 1

Silent(m) == Answers(m) = {}
Expected(a) ==
  IF call.kind = "connect"
  THEN a.type = "CONNACK"
  ELSE a.type = ReplyTo /\ (call.kind \in {"pub1", "pub2", "sub"} => a.id = IdOf(call.kind))
Asks(m) == ~Silent(m) /\ \A a \in Answers(m) : Expected(a)

Quiescent == toClient = <<>> /\ \A i \in DOMAIN toServer : Silent(toServer[i])
Asked ==
  /\ toClient = <<>> /\ toServer # <<>> /\ Asks(toServer[Len(toServer)])
  /\ \A i \in DOMAIN toServer : i # Len(toServer) => Silent(toServer[i])
Told ==
  /\ Len(toClient) = 1 /\ Expected(toClient[1])
  /\ \A i \in DOMAIN toServer : Silent(toServer[i])

Lockstep ==
  /\ pc # "receive" \/ call.kind = "next" => Quiescent
  /\ pc = "receive" /\ call.kind \in Requests => Asked \/ Told
  /\ pc = "receive" /\ call.kind = "connect" => Quiescent \/ Asked \/ Told
  /\ pc = "parse" /\ call.kind \in Requests => resp # NoMsg /\ Expected(resp)

NoPublication ==
  /\ \A i \in DOMAIN toClient : toClient[i].type # "PUBLISH"
  /\ receive_buffer # NoMsg => receive_buffer.type # "PUBLISH"
  /\ resp # NoMsg => resp.type # "PUBLISH"

CallOK ==
  pc \in {"receive", "parse"} =>
    /\ call.kind \in (Requests \ {"pub0"}) \cup {"connect", "next"}
    /\ call.kind = "next" => stage = 1

HealthyInv ==
  /\ TypeOK /\ SmallCounters /\ HealthyCallsSucceed
  /\ pc = "start" => /\ link # "up" /\ toServer = <<>> /\ toClient = <<>> /\ answered = {}
                     /\ returned = {} /\ receive_buffer = NoMsg /\ resp = NoMsg
  /\ Healthy => Lockstep /\ NoPublication /\ CallOK

\* Every call returns: nothing the broker does or leaves out blocks it.
ApiReturns == pc \in {"receive", "parse"} ~> pc \notin {"receive", "parse"}

\* The broker forgets a publication only when the application has it, whatever
\* is lost or late, with one exception that the code makes: smqtt_get_next_message
\* goes on after a timeout, takes the PUBLISH still in receive_buffer for a new
\* one, reads its identifier one byte early and acknowledges the first character
\* of the topic.  A publication under way with that identifier is lost, and
\* never another one.
HandoverSafe == \A p \in taken : p.id # TopicByte => p.ctx \in ToSet(handed)

(* What makes it inductive: for each identifier but that one there is one  *)
(* message under way at most, in one direction or in the hand of the call, *)
(* and unless it is the publication itself the application has the         *)
(* publication.                                                            *)
Tracked == BrokerIds \ {TopicByte}
Ack(m) == m.type \in {"PUBACK", "PUBREC", "PUBCOMP"} /\ m.id \in Tracked
Push(m) == m.type \in {"PUBLISH", "PUBREL"} /\ m.id \in Tracked
Fresh == pc = "parse" /\ link = "up" /\ resp # NoMsg /\ Push(resp)

Given(id) == \E p \in inflight : p.id = id /\ p.ctx \in ToSet(handed)
Backed(m) == IF m.type = "PUBLISH" THEN [id |-> m.id, ctx |-> m.ctx] \in inflight
                                   ELSE Given(m.id)

OneUnderWay ==
  /\ \A i, j \in DOMAIN toServer :
       Ack(toServer[i]) /\ Ack(toServer[j]) /\ toServer[i].id = toServer[j].id => i = j
  /\ \A i, j \in DOMAIN toClient :
       Push(toClient[i]) /\ Push(toClient[j]) /\ toClient[i].id = toClient[j].id => i = j
  /\ \A i \in DOMAIN toServer, j \in DOMAIN toClient :
       Ack(toServer[i]) /\ Push(toClient[j]) => toServer[i].id # toClient[j].id
  /\ Fresh => /\ \A i \in DOMAIN toServer : Ack(toServer[i]) => toServer[i].id # resp.id
              /\ \A i \in DOMAIN toClient : Push(toClient[i]) => toClient[i].id # resp.id

AllBacked ==
  /\ \A i \in DOMAIN toServer : Ack(toServer[i]) => Given(toServer[i].id)
  /\ \A i \in DOMAIN toClient : Push(toClient[i]) => Backed(toClient[i])
  /\ Fresh => Backed(resp)

HandoverInv ==
  /\ TypeOK /\ OneUnderWay /\ AllBacked /\ HandoverSafe
  /\ \A p, q \in inflight : p.id = q.id => p = q

\* The broker's publications are handed to the application once each.
HandedOnce == Injective(handed)
=============================================================================
