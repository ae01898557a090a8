-------------------------- MODULE SyncClientProofs --------------------------
(***************************************************************************)
(* The single-threaded client, for any number of calls and publications    *)
(* and with every fault of the connection: what a call that returns        *)
(* SMQTT_OK has been told (OkMeansAnswered), and what the broker has been  *)
(* told about the publications it forgets (HandoverSafe).                  *)
(***************************************************************************)
EXTENDS SyncClient, TLAPS

-----------------------------------------------------------------------------
(* Sequences and messages.                                                 *)

LEMMA AppendFacts ==
  ASSUME NEW S, NEW s \in Seq(S), NEW e \in S
  PROVE  /\ Append(s, e) \in Seq(S)
         /\ DOMAIN Append(s, e) = DOMAIN s \cup {Len(s) + 1}
         /\ Append(s, e)[Len(s) + 1] = e /\ Len(s) + 1 \notin DOMAIN s
         /\ \A i \in DOMAIN s : Append(s, e)[i] = s[i]
  OBVIOUS

LEMMA TailFacts ==
  ASSUME NEW S, NEW s \in Seq(S), s # <<>>
  PROVE  /\ Tail(s) \in Seq(S) /\ Head(s) \in S /\ Head(s) = s[1] /\ 1 \in DOMAIN s
         /\ \A i \in DOMAIN Tail(s) : /\ i + 1 \in DOMAIN s /\ Tail(s)[i] = s[i + 1]
                                      /\ i + 1 # 1 /\ i \in Nat
  OBVIOUS

LEMMA MsgFields ==
  \A t, q, i, x :
    /\ Msg(t, q, i, x).type = t /\ Msg(t, q, i, x).qos = q
    /\ Msg(t, q, i, x).id = i /\ Msg(t, q, i, x).ctx = x
  BY DEF Msg

LEMMA MsgType ==
  \A t \in MessageTypes, q \in 0..2, i \in 0..255, x \in Contexts : Msg(t, q, i, x) \in Messages
  BY DEF Msg, Messages

\* SER_short and short_from_buffer: one byte survives, and a byte does.
LEMMA WireFacts ==
  /\ \A id \in 0..MaxId : Wire(id) \in 0..255 /\ Wire(id) <= id
  /\ \A id \in 0..255 : Wire(id) = id
<1>1. \A id \in Nat : id % 256 \in 0..255 /\ id % 256 <= id
  OBVIOUS
<1>2. \A id \in 0..255 : id % 256 = id
  OBVIOUS
<1>3. 0..MaxId \subseteq Nat
  BY DEF MaxId
<1> QED  BY <1>1, <1>2, <1>3 DEF Wire

\* A received message is what was sent: its identifier fits into a byte.
LEMMA ReceivedAsSent ==
  ASSUME NEW m \in Messages
  PROVE  [m EXCEPT !.id = Wire(@)] = m
<1>1. m.id \in 0..255
  BY DEF Messages
<1>2. Wire(m.id) = m.id
  BY <1>1, WireFacts
<1> QED  BY <1>2 DEF Messages

\* The old buffer, read one byte early.
LEMMA StaleFacts ==
  ASSUME NEW m \in Messages, m # NoMsg
  PROVE  /\ Stale(m) \in Messages
         /\ Stale(m).type = m.type /\ Stale(m).ctx = m.ctx /\ Stale(m).qos = m.qos
         /\ Stale(m).id = IF m.type = "PUBLISH" /\ m.qos # 0 THEN TopicByte ELSE 0
<1>1. TopicByte \in 0..255
  BY CodeAssumption
<1> QED  BY <1>1 DEF Stale, Messages

\* What the broker answers with.
LEMMA AnswersFacts ==
  ASSUME NEW m \in Messages, NEW a \in Answers(m)
  PROVE  /\ a \in Messages /\ a.ctx = m.ctx
         /\ a.type # "CONNACK" => a.id = IF m.type = "PINGREQ" THEN 0 ELSE m.id
         /\ \/ m.type = "CONNECT" /\ a.type = "CONNACK"
            \/ m.type = "PINGREQ" /\ a.type = "PINGRESP"
            \/ m.type = "SUBSCRIBE" /\ a.type = "SUBACK"
            \/ m.type = "UNSUBSCRIBE" /\ a.type = "UNSUBACK"
            \/ m.type = "PUBLISH" /\ m.qos = 1 /\ a.type = "PUBACK"
            \/ m.type = "PUBLISH" /\ m.qos = 2 /\ a.type = "PUBREC"
            \/ m.type = "PUBREL" /\ a.type = "PUBCOMP"
            \/ m.type = "PUBREC" /\ a.type = "PUBREL"
<1>1. m.type \in MessageTypes /\ m.id \in 0..255 /\ m.ctx \in Contexts /\ ConnackCodes \subseteq 0..255
  BY CodeAssumption DEF Messages
<1>3. 0 \in 0..255
  OBVIOUS
<1>5. CASE m.type = "CONNECT"
  <2>1. PICK c \in ConnackCodes : a = Msg("CONNACK", 0, c, m.ctx)
    BY <1>5 DEF Answers
  <2> QED  BY <1>1, <1>5, <2>1 DEF Msg, Messages, MessageTypes
<1>6. CASE m.type = "PINGREQ"
  <2>1. a = Msg("PINGRESP", 0, 0, m.ctx)
    BY <1>6 DEF Answers
  <2> QED  BY <1>1, <1>3, <1>6, <2>1 DEF Msg, Messages, MessageTypes
<1>7. CASE m.type = "SUBSCRIBE"
  <2>1. a = Msg("SUBACK", 0, m.id, m.ctx)
    BY <1>7 DEF Answers
  <2> QED  BY <1>1, <1>3, <1>7, <2>1 DEF Msg, Messages, MessageTypes
<1>8. CASE m.type = "UNSUBSCRIBE"
  <2>1. a = Msg("UNSUBACK", 0, m.id, m.ctx)
    BY <1>8 DEF Answers
  <2> QED  BY <1>1, <1>3, <1>8, <2>1 DEF Msg, Messages, MessageTypes
<1>9. CASE m.type = "PUBREL"
  <2>1. a = Msg("PUBCOMP", 0, m.id, m.ctx)
    BY <1>9 DEF Answers
  <2> QED  BY <1>1, <1>3, <1>9, <2>1 DEF Msg, Messages, MessageTypes
<1>10. CASE m.type = "PUBREC"
  <2>1. a = Msg("PUBREL", 0, m.id, m.ctx)
    BY <1>10 DEF Answers
  <2> QED  BY <1>1, <1>3, <1>10, <2>1 DEF Msg, Messages, MessageTypes
<1>11. CASE m.type = "PUBLISH"
  <2>1. \/ m.qos = 1 /\ a = Msg("PUBACK", 0, m.id, m.ctx)
        \/ m.qos = 2 /\ a = Msg("PUBREC", 0, m.id, m.ctx)
    BY <1>11 DEF Answers
  <2> QED  BY <1>1, <1>11, <2>1 DEF Msg, Messages, MessageTypes
<1> QED  BY <1>5, <1>6, <1>7, <1>8, <1>9, <1>10, <1>11 DEF Answers

LEMMA BrokerIdFacts == \A id \in BrokerIds : id \in 0..255 /\ id # 0
  BY IdAssumption

LEMMA BumpType == \A id \in 0..MaxId : Bump(id) \in 0..MaxId
<1>1. MaxId \in Nat
  BY DEF MaxId
<1> QED  BY <1>1 DEF Bump

LEMMA ZeroId == 0 \in 0..MaxId
  BY DEF MaxId

LEMMA GarbageFacts == \A g \in GarbageIds : g \in 0..MaxId
  BY GarbageAssumption

LEMMA IdNat == MaxId \in Nat /\ \A id \in 0..MaxId : id \in Nat
<1>1. MaxId \in Nat
  BY DEF MaxId
<1> QED  BY <1>1

\* The request a call sends.
LEMMA RequestFacts ==
  ASSUME TypeOK, NEW k \in Requests, BumpCounter(k), NEW x \in Contexts
  PROVE  /\ publish_packet_id' \in 0..MaxId /\ subscribe_packet_id' \in 0..MaxId
         /\ unsubscribe_packet_id' \in 0..MaxId
         /\ IdOf(k)' \in 0..MaxId
         /\ Msg(RequestType(k), Qos(k), Wire(IdOf(k)'), x) \in Messages
<1>1. /\ publish_packet_id' \in 0..MaxId /\ subscribe_packet_id' \in 0..MaxId
      /\ unsubscribe_packet_id' \in 0..MaxId
  BY BumpType DEF TypeOK, BumpCounter
<1>2. IdOf(k)' \in 0..MaxId
  BY <1>1, ZeroId DEF IdOf
<1>3. RequestType(k) \in MessageTypes /\ Qos(k) \in 0..2
  BY DEF RequestType, MessageTypes, Qos
<1> QED  BY <1>1, <1>2, <1>3, MsgType, WireFacts

-----------------------------------------------------------------------------
(* Types.                                                                  *)

LEMMA SendType ==
  ASSUME TypeOK, NEW m \in Messages, SendOk(m) \/ SendFails \/ SendDies
  PROVE  link' \in {"down", "up", "closed", "null"} /\ toServer' \in Seq(Messages)
<1>1. toServer \in Seq(Messages) /\ link \in {"down", "up", "closed", "null"}
  BY DEF TypeOK
<1>2. Append(toServer, m) \in Seq(Messages)
  BY <1>1
<1> QED  BY <1>1, <1>2 DEF SendOk, SendFails, SendDies

LEMMA BeginType ==
  ASSUME TypeOK, NEW k \in Kinds, Begin(k)
  PROVE  /\ calls' \in [Kinds -> Nat] /\ call' \in [kind : Kinds, n : Nat] /\ stage' \in {1, 2}
         /\ call' \in Contexts /\ call'.kind = k
<1>1. calls[k] \in Nat
  BY DEF TypeOK
<1> QED  BY <1>1 DEF TypeOK, Begin, Contexts

LEMMA ConnectType == ASSUME TypeOK, Connect  PROVE TypeOK'
<1>1. calls["connect"] \in Nat /\ "connect" \in Kinds
  BY DEF TypeOK, Kinds
<1>2. call' \in [kind : Kinds, n : Nat] /\ call' \in Contexts
  BY <1>1 DEF Connect, Contexts
<1>3. Msg("CONNECT", 0, 0, call') \in Messages
  BY <1>2, MsgType DEF MessageTypes
<1>4. toServer' \in Seq(Messages) /\ link' \in {"down", "up", "closed", "null"}
  <2>1. toServer \in Seq(Messages) /\ link \in {"down", "up", "closed", "null"}
    BY DEF TypeOK
  <2>2. <<Msg("CONNECT", 0, 0, call')>> \in Seq(Messages)
    BY <1>3
  <2>3. toServer' = toServer \/ toServer' = <<Msg("CONNECT", 0, 0, call')>>
    BY DEF Connect
  <2>4. link' = link \/ link' = "up" \/ link' = "null"
    BY DEF Connect
  <2> QED  BY <2>1, <2>2, <2>3, <2>4
<1>5. calls' \in [Kinds -> Nat]
  BY <1>1 DEF TypeOK, Connect
<1>6. unsubscribe_packet_id' \in 0..MaxId
  <2>1. unsubscribe_packet_id' \in GarbageIds
    BY DEF Connect
  <2> QED  BY <2>1, GarbageFacts
<1>7. pc' \in {"none", "receive"}
  BY DEF Connect
<1> QED  BY <1>2, <1>4, <1>5, <1>6, <1>7 DEF TypeOK, Connect

LEMMA RequestTypeOK == ASSUME TypeOK, NEW k \in Requests, Request(k)  PROVE TypeOK'
<1>1. k \in Kinds /\ Begin(k) /\ BumpCounter(k)
  BY DEF Kinds, Request
<1>2. /\ calls' \in [Kinds -> Nat] /\ call' \in [kind : Kinds, n : Nat] /\ stage' \in {1, 2}
      /\ call' \in Contexts
  BY <1>1, BeginType
<1>3. link' \in {"down", "up", "closed", "null"} /\ toServer' \in Seq(Messages)
  BY <1>1, <1>2, RequestFacts, SendType DEF Request
<1>4. pc' \in {"idle", "receive", "crashed"}
  BY DEF Request, Return, Await, Die
<1> QED  BY <1>1, <1>2, <1>3, <1>4, RequestFacts DEF Request, TypeOK

LEMMA ReceiveType == ASSUME TypeOK, ServerReceive  PROVE TypeOK'
<1>1. toClient # <<>> => Head(toClient) \in Messages /\ Tail(toClient) \in Seq(Messages)
  BY TailFacts DEF TypeOK
<1>2. toClient # <<>> => [Head(toClient) EXCEPT !.id = Wire(@)] \in Messages
  BY <1>1, ReceivedAsSent
<1>3. Stale(receive_buffer) \in Messages \cup {NoMsg}
  BY StaleFacts DEF TypeOK, Stale
<1>4. /\ resp' \in Messages \cup {NoMsg} /\ receive_buffer' \in Messages \cup {NoMsg}
      /\ toClient' \in Seq(Messages) /\ pc' \in {"parse", "crashed"}
  BY <1>1, <1>2, <1>3 DEF ServerReceive, TypeOK
<1> QED  BY <1>4 DEF ServerReceive, TypeOK, counters, historyVars

LEMMA JudgeType ==
  ASSUME TypeOK, OnConnack \/ OnReply \/ OnNextPublish \/ OnNextPubrel
  PROVE  TypeOK'
<1>1. CASE OnConnack
  <2>1. pc' \in {"none", "idle"} /\ link' \in {"down", "up", "closed", "null"}
    BY <1>1 DEF OnConnack, Return, TypeOK
  <2> QED  BY <1>1, <2>1 DEF OnConnack, TypeOK, counters
<1>2. CASE OnReply
  <2>1. Msg("PUBREL", 0, Wire(publish_packet_id), call) \in Messages
    <3>1. Wire(publish_packet_id) \in 0..255
      BY WireFacts DEF TypeOK
    <3>2. call \in Contexts
      BY DEF TypeOK, Contexts
    <3> QED  BY <3>1, <3>2 DEF Msg, Messages, MessageTypes
  <2>2. /\ link' \in {"down", "up", "closed", "null"} /\ toServer' \in Seq(Messages)
        /\ pc' \in {"idle", "receive", "crashed"} /\ stage' \in {1, 2}
    BY <1>2, <2>1, SendType DEF OnReply, Return, Await, Die, TypeOK
  <2> QED  BY <1>2, <2>2 DEF OnReply, TypeOK, counters
<1>3. CASE OnNextPublish
  <2>1. CASE resp = NoMsg \/ resp.type # "PUBLISH"
    <3>1. pc' = "idle" /\ UNCHANGED <<stage, packet_id, link, toServer, handed>>
      BY <1>3, <2>1 DEF OnNextPublish, Return
    <3> QED  BY <1>3, <3>1 DEF OnNextPublish, TypeOK, counters
  <2>2. CASE resp # NoMsg /\ resp.type = "PUBLISH"
    <3>1. resp.id \in 0..255 /\ resp.ctx \in Contexts /\ Wire(resp.id) \in 0..255
      BY <2>2, WireFacts DEF TypeOK, Messages
    <3>2. Msg(AckFor(resp.qos), 0, Wire(resp.id), resp.ctx) \in Messages
      BY <3>1, MsgType DEF AckFor, MessageTypes
    <3>3. handed' \in Seq(Contexts) /\ packet_id' \in 0..255
      <4>1. handed \in Seq(Contexts)
        BY DEF TypeOK
      <4>2. handed' = Append(handed, resp.ctx) /\ packet_id' = resp.id
        BY <1>3, <2>2 DEF OnNextPublish
      <4> QED  BY <3>1, <4>1, <4>2
    <3>4. /\ link' \in {"down", "up", "closed", "null"} /\ toServer' \in Seq(Messages)
          /\ pc' \in {"idle", "receive", "crashed"} /\ stage' \in {1, 2}
      BY <1>3, <2>2, <3>2, SendType DEF OnNextPublish, Return, Await, Die, TypeOK
    <3> QED  BY <1>3, <3>3, <3>4 DEF OnNextPublish, TypeOK, counters
  <2> QED  BY <2>1, <2>2
<1>4. CASE OnNextPubrel
  <2>1. IsPubrel => Msg("PUBCOMP", 0, Wire(resp.id), resp.ctx) \in Messages
    <3> SUFFICES ASSUME resp \in Messages
                 PROVE  Msg("PUBCOMP", 0, Wire(resp.id), resp.ctx) \in Messages
      BY DEF TypeOK, IsPubrel
    <3>1. resp.id \in 0..255 /\ resp.ctx \in Contexts
      BY DEF Messages
    <3>2. Wire(resp.id) \in 0..255
      BY <3>1, WireFacts
    <3> QED  BY <3>1, <3>2 DEF Msg, Messages, MessageTypes
  <2>2. /\ link' \in {"down", "up", "closed", "null"} /\ toServer' \in Seq(Messages)
        /\ pc' \in {"idle", "crashed"}
    BY <1>4, <2>1, SendType DEF OnNextPubrel, Return, Die, TypeOK
  <2> QED  BY <1>4, <2>2 DEF OnNextPubrel, TypeOK, counters
<1> QED  BY <1>1, <1>2, <1>3, <1>4

LEMMA OtherCallsType ==
  ASSUME TypeOK, GetNextMessage \/ Disconnect \/ Drop
  PROVE  TypeOK'
<1>0. {"next", "disconnect", "drop"} \subseteq Kinds
  BY DEF Kinds
<1>1. CASE GetNextMessage
  BY <1>0, <1>1, BeginType DEF GetNextMessage, Await, TypeOK, counters, netVars
<1>2. CASE Disconnect
  <2>1. /\ calls' \in [Kinds -> Nat] /\ call' \in [kind : Kinds, n : Nat] /\ stage' \in {1, 2}
        /\ call' \in Contexts
    BY <1>0, <1>2, BeginType DEF Disconnect
  <2>2. Msg("DISCONNECT", 0, 0, call') \in Messages
    BY <2>1, MsgType DEF MessageTypes
  <2>3. /\ link' \in {"down", "up", "closed", "null"} /\ toServer' \in Seq(Messages)
        /\ pc' \in {"gone", "crashed"}
    BY <1>2, <2>2, SendType DEF Disconnect
  <2> QED  BY <1>2, <2>1, <2>3 DEF Disconnect, TypeOK, counters
<1>3. CASE Drop
  <2>1. /\ calls' \in [Kinds -> Nat] /\ call' \in [kind : Kinds, n : Nat] /\ stage' \in {1, 2}
    BY <1>0, <1>3, BeginType DEF Drop
  <2> QED  BY <1>3, <2>1 DEF Drop, TypeOK, counters
<1> QED  BY <1>1, <1>2, <1>3

LEMMA BrokerReceiveType == ASSUME TypeOK, BrokerReceive  PROVE TypeOK'
<1>1. Head(toServer) \in Messages /\ Tail(toServer) \in Seq(Messages)
  BY TailFacts DEF TypeOK, BrokerReceive
<1>2. toClient' \in Seq(Messages)
  <2>1. toClient \in Seq(Messages)
    BY DEF TypeOK
  <2>2. CASE toClient' = toClient
    BY <2>1, <2>2
  <2>3. ASSUME NEW a \in Answers(Head(toServer)), toClient' = Append(toClient, a)
        PROVE  toClient' \in Seq(Messages)
    <3>1. a \in Messages
      BY <1>1, AnswersFacts
    <3> QED  BY <2>1, <2>3, <3>1
  <2> QED  BY <2>2, <2>3 DEF BrokerReceive
<1>3. inflight' \subseteq inflight
  BY DEF BrokerReceive
<1>4. link' \in {"down", "up", "closed", "null"}
  BY DEF BrokerReceive, TypeOK
<1>5. toServer' \in Seq(Messages)
  BY <1>1 DEF BrokerReceive
<1> QED  BY <1>2, <1>3, <1>4, <1>5 DEF BrokerReceive, TypeOK, counters, localVars

LEMMA SrvContext ==
  ASSUME TypeOK, NEW q \in 0..2
  PROVE  [kind |-> SrvKind[q + 1], n |-> pushes[q] + 1] \in Contexts
<1>1. SrvKind[q + 1] \in {"srv0", "srv1", "srv2"} /\ pushes[q] \in Nat
  BY DEF SrvKind, TypeOK
<1> QED  BY <1>1 DEF Contexts

LEMMA BrokerPublishType == ASSUME TypeOK, NEW q \in 0..2, BrokerPublish(q)  PROVE TypeOK'
<1> DEFINE x == [kind |-> SrvKind[q + 1], n |-> pushes[q] + 1]
<1>1. PICK id :
        /\ IF q = 0 THEN id = 0 ELSE id \in BrokerIds
        /\ toClient' = Append(toClient, Msg("PUBLISH", q, id, x))
        /\ inflight' = IF q = 0 THEN inflight ELSE inflight \cup {[id |-> id, ctx |-> x]}
  BY DEF BrokerPublish
<1>2. id \in 0..255 /\ (q # 0 => id \in BrokerIds)
  <2>1. (q = 0 => id = 0) /\ (q # 0 => id \in BrokerIds)
    BY <1>1
  <2> QED  BY <2>1, BrokerIdFacts
<1>3. Msg("PUBLISH", q, id, x) \in Messages
  BY <1>2, SrvContext, MsgType DEF MessageTypes
<1> HIDE DEF x
<1>4. toClient' \in Seq(Messages)
  BY <1>1, <1>3, AppendFacts DEF TypeOK
<1>5. \A p \in inflight' : p.id \in BrokerIds
  BY <1>1, <1>2 DEF TypeOK
<1>6. pushes' \in [0..2 -> Nat]
  <2>1. pushes[q] \in Nat
    BY DEF TypeOK
  <2> QED  BY <2>1 DEF BrokerPublish, TypeOK
<1> QED  BY <1>4, <1>5, <1>6 DEF BrokerPublish, TypeOK, counters, localVars

LEMMA TypeStep == TypeOK /\ [Next]_vars => TypeOK'
<1> SUFFICES ASSUME TypeOK, [Next]_vars  PROVE TypeOK'
  OBVIOUS
<1>1. CASE AppStep
  BY <1>1, ConnectType, RequestTypeOK, ReceiveType, JudgeType, OtherCallsType
  DEF AppStep, CallStep
<1>2. CASE BrokerReceive \/ \E q \in 0..2 : BrokerPublish(q)
  BY <1>2, BrokerReceiveType, BrokerPublishType
<1>3. CASE BrokerClose
  BY <1>3 DEF BrokerClose, TypeOK, counters, localVars, historyVars
<1>4. CASE UNCHANGED vars
  BY <1>4 DEF vars, TypeOK, counters, localVars, netVars, historyVars
<1> QED  BY <1>1, <1>2, <1>3, <1>4 DEF Next, BrokerStep

LEMMA TypeInit == Init => TypeOK
  BY DEF Init, TypeOK, MaxId, Kinds

-----------------------------------------------------------------------------
(* OkMeansAnswered: the counters.                                          *)

LEMMA BeginCalls ==
  ASSUME TypeOK, NEW k \in Kinds, Begin(k)
  PROVE  /\ calls'[k] = calls[k] + 1 /\ calls'[k] <= MaxCalls[k] /\ calls'[k] > 0
         /\ \A j \in Kinds \ {k} : calls'[j] = calls[j]
<1>1. calls[k] \in Nat /\ MaxCalls[k] \in Nat /\ calls[k] < MaxCalls[k]
  BY BoundAssumption DEF TypeOK, Begin
<1>2. calls'[k] = calls[k] + 1 /\ \A j \in Kinds \ {k} : calls'[j] = calls[j]
  BY DEF TypeOK, Begin
<1> QED  BY <1>1, <1>2

\* A step inside a call, or of the broker.
Inside ==
  /\ UNCHANGED <<counters, calls>>
  /\ (pc # "start" /\ pc' # "start") \/ UNCHANGED pc
  /\ pc' \in {"receive", "parse"} => pc \in {"receive", "parse"} /\ UNCHANGED call

LEMMA InsideSteps ==
  ASSUME \/ ServerReceive \/ OnConnack \/ OnReply \/ OnNextPublish \/ OnNextPubrel
         \/ BrokerReceive \/ BrokerClose \/ (\E q \in 0..2 : BrokerPublish(q)) \/ UNCHANGED vars
  PROVE  Inside
<1>1. CASE ServerReceive
  BY <1>1 DEF ServerReceive, Inside, historyVars
<1>2. CASE OnConnack
  BY <1>2 DEF OnConnack, Inside, Return
<1>3. CASE OnReply
  BY <1>3 DEF OnReply, Inside, Return, Await, Die
<1>4. CASE OnNextPublish
  BY <1>4 DEF OnNextPublish, Inside, Return, Await, Die
<1>5. CASE OnNextPubrel
  BY <1>5 DEF OnNextPubrel, Inside, Return, Die
<1>6. CASE BrokerReceive \/ BrokerClose \/ UNCHANGED vars \/ \E q \in 0..2 : BrokerPublish(q)
  BY <1>6 DEF BrokerReceive, BrokerClose, BrokerPublish, vars, Inside, localVars, historyVars
<1> QED  BY <1>1, <1>2, <1>3, <1>4, <1>5, <1>6

LEMMA CountersInside == ASSUME CountersOK, Inside  PROVE CountersOK'
  BY DEF CountersOK, Inside, InCall, counters

LEMMA CountersConnect == ASSUME TypeOK, CountersOK, Connect  PROVE CountersOK'
<1>1. calls["connect"] \in Nat /\ MaxCalls["connect"] \in Nat
  BY BoundAssumption DEF TypeOK, Kinds
<1>2. /\ calls'["connect"] = calls["connect"] + 1
      /\ \A j \in Kinds \ {"connect"} : calls'[j] = calls[j]
  BY DEF Connect, TypeOK, Kinds
<1>3. \A k \in Kinds : calls'[k] <= MaxCalls[k]
  BY <1>1, <1>2 DEF CountersOK, Connect
<1>4. /\ calls'["pub1"] = calls["pub1"] /\ calls'["pub2"] = calls["pub2"]
      /\ calls'["sub"] = calls["sub"] /\ calls'["unsub"] = 0
  BY <1>2 DEF CountersOK, Connect, Kinds, Requests
<1>5. unsubscribe_packet_id' - calls'["unsub"] \in GarbageIds
  <2>1. unsubscribe_packet_id' \in GarbageIds /\ unsubscribe_packet_id' \in Nat
    BY GarbageFacts, IdNat DEF Connect
  <2> QED  BY <1>4, <2>1
<1>6. calls'[call'.kind] > 0 /\ pc' # "start"
  BY <1>1, <1>2 DEF Connect
<1> QED  BY <1>3, <1>4, <1>5, <1>6 DEF CountersOK, Connect

LEMMA CountersBegin ==
  ASSUME TypeOK, CountersOK, NEW k \in {"next", "disconnect", "drop"}, Begin(k),
         UNCHANGED counters, pc' # "start"
  PROVE  CountersOK'
<1>1. k \in Kinds /\ {"pub1", "pub2", "sub", "unsub"} \subseteq Kinds \ {k}
  BY DEF Kinds, Requests
<1>2. /\ calls'[k] = calls[k] + 1 /\ calls'[k] <= MaxCalls[k] /\ calls'[k] > 0
      /\ \A j \in Kinds \ {k} : calls'[j] = calls[j]
  BY <1>1, BeginCalls
<1>3. call'.kind = k
  BY DEF Begin
<1>4. \A j \in Kinds : calls'[j] <= MaxCalls[j]
  BY <1>2 DEF CountersOK
<1> QED  BY <1>1, <1>2, <1>3, <1>4 DEF CountersOK, counters, Begin

\* Without wrapping round, a counter is bumped by one.
LEMMA BumpFacts ==
  ASSUME NoWrap, TypeOK, CountersOK, NEW k \in Requests, Begin(k), BumpCounter(k)
  PROVE  /\ publish_packet_id' = IF k \in {"pub1", "pub2"} THEN publish_packet_id + 1
                                                            ELSE publish_packet_id
         /\ subscribe_packet_id' = IF k = "sub" THEN subscribe_packet_id + 1
                                                ELSE subscribe_packet_id
         /\ unsubscribe_packet_id' = IF k = "unsub" THEN unsubscribe_packet_id + 1
                                                    ELSE unsubscribe_packet_id
<1>1. {"pub1", "pub2", "sub", "unsub"} \subseteq Kinds /\ k \in Kinds
  BY DEF Kinds, Requests
<1>2. \A j \in {"pub1", "pub2", "sub", "unsub"} :
        /\ calls[j] \in Nat /\ MaxCalls[j] \in Nat /\ calls[j] <= MaxCalls[j]
        /\ j = k => calls[j] < MaxCalls[j]
  BY <1>1, BoundAssumption DEF TypeOK, CountersOK, Begin
<1>3. MaxId \in Nat /\ publish_packet_id \in Nat /\ subscribe_packet_id \in Nat
      /\ unsubscribe_packet_id \in Nat
  BY IdNat DEF TypeOK
<1>4. k \in {"pub1", "pub2"} => publish_packet_id < MaxId
  BY <1>2, <1>3 DEF NoWrap, CountersOK
<1>5. k = "sub" => subscribe_packet_id < MaxId
  BY <1>2, <1>3 DEF NoWrap, CountersOK
<1>6. k = "unsub" => unsubscribe_packet_id < MaxId
  <2>1. SUFFICES ASSUME k = "unsub"  PROVE unsubscribe_packet_id < MaxId
    OBVIOUS
  <2>2. unsubscribe_packet_id - calls["unsub"] \in GarbageIds
    BY DEF CountersOK, Begin
  <2>3. unsubscribe_packet_id - calls["unsub"] + MaxCalls["unsub"] <= MaxId
    BY <2>2 DEF NoWrap
  <2> QED  BY <1>2, <1>3, <2>1, <2>3
<1> QED  BY <1>3, <1>4, <1>5, <1>6 DEF BumpCounter, Bump

LEMMA CountersRequest ==
  ASSUME NoWrap, TypeOK, CountersOK, NEW k \in Requests, Begin(k), BumpCounter(k), pc' # "start"
  PROVE  CountersOK'
<1>1. k \in Kinds /\ {"pub1", "pub2", "sub", "unsub"} \subseteq Kinds
  BY DEF Kinds, Requests
<1>2. /\ calls'[k] = calls[k] + 1 /\ calls'[k] <= MaxCalls[k] /\ calls'[k] > 0
      /\ \A j \in Kinds \ {k} : calls'[j] = calls[j]
  BY <1>1, BeginCalls
<1>3. call'.kind = k /\ pc = "idle"
  BY DEF Begin
<1>4. \A j \in Kinds : calls'[j] <= MaxCalls[j]
  BY <1>2 DEF CountersOK
<1>5. \A j \in {"pub1", "pub2", "sub", "unsub"} : calls[j] \in Nat
  BY <1>1 DEF TypeOK
<1>6. publish_packet_id' = calls'["pub1"] + calls'["pub2"]
  BY <1>1, <1>2, <1>5, BumpFacts DEF CountersOK
<1>7. subscribe_packet_id' = calls'["sub"] + 1
  BY <1>1, <1>2, <1>5, BumpFacts DEF CountersOK
<1>8. unsubscribe_packet_id' - calls'["unsub"] \in GarbageIds
  <2>1. unsubscribe_packet_id - calls["unsub"] \in GarbageIds /\ unsubscribe_packet_id \in Nat
    BY <1>3, IdNat DEF CountersOK, TypeOK
  <2>2. unsubscribe_packet_id' - calls'["unsub"] = unsubscribe_packet_id - calls["unsub"]
    BY <1>1, <1>2, <1>5, <2>1, BumpFacts
  <2> QED  BY <2>1, <2>2
<1> QED  BY <1>2, <1>3, <1>4, <1>6, <1>7, <1>8 DEF CountersOK

-----------------------------------------------------------------------------
(* OkMeansAnswered: the messages.                                          *)

LEMMA ExchangeKinds == Exchanges \subseteq Requests /\ Requests \subseteq Kinds
  BY DEF Exchanges, Requests, Kinds

\* What is known of a message stays known while no call is entered.
LEMMA MessagesFrame ==
  ASSUME UNCHANGED counters, answered \subseteq answered',
         InCall(Exchanges)' => InCall(Exchanges) /\ UNCHANGED call
  PROVE  \A m : (RequestOK(m) => RequestOK(m)') /\ (ReplyOK(m) => ReplyOK(m)')
  BY DEF counters, RequestOK, ReplyOK, Own, InCall, Exchanges

LEMMA CounterNat ==
  ASSUME TypeOK
  PROVE  publish_packet_id \in Nat /\ subscribe_packet_id \in Nat /\ unsubscribe_packet_id \in Nat
  BY IdNat DEF TypeOK

LEMMA MsgIdNat == \A m \in Messages : m.id \in Nat /\ m.id \in 0..255
  BY DEF Messages

\* A new call has an identifier of its own.
LEMMA MessagesRequest ==
  ASSUME NoWrap, TypeOK, CountersOK, NEW k \in Requests, Begin(k), BumpCounter(k),
         UNCHANGED answered, NEW m \in Messages
  PROVE  (RequestOK(m) => RequestOK(m)') /\ (ReplyOK(m) => ReplyOK(m)')
<1>1. m.id \in Nat /\ publish_packet_id \in Nat /\ subscribe_packet_id \in Nat
      /\ unsubscribe_packet_id \in Nat
  BY CounterNat, MsgIdNat
<1>2. call'.kind = k
  BY DEF Begin
<1>3. m.id <= publish_packet_id => Own(m, publish_packet_id, {"pub1", "pub2"})'
  BY <1>1, <1>2, BumpFacts DEF Own, InCall
<1>4. m.id <= subscribe_packet_id => Own(m, subscribe_packet_id, {"sub"})'
  BY <1>1, <1>2, BumpFacts DEF Own, InCall
<1>5. m.id <= unsubscribe_packet_id => Own(m, unsubscribe_packet_id, {"unsub"})'
  BY <1>1, <1>2, BumpFacts DEF Own, InCall
<1>6. \A id, kinds : Own(m, id, kinds) => m.id <= id
  BY DEF Own
<1> QED  BY <1>3, <1>4, <1>5, <1>6 DEF RequestOK, ReplyOK

LEMMA NewRequest ==
  ASSUME TypeOK, NEW k \in Requests, Begin(k), BumpCounter(k)
  PROVE  RequestOK(Msg(RequestType(k), Qos(k), Wire(IdOf(k)), call))'
<1>1. call' \in Contexts /\ call'.kind = k
  BY BeginType, ExchangeKinds
<1>2. Wire(IdOf(k)') <= IdOf(k)'
  BY <1>1, RequestFacts, WireFacts
<1>3. CASE k \in {"pub1", "pub2"}
  <2>1. RequestType(k) = "PUBLISH" /\ IdOf(k)' = publish_packet_id'
    BY <1>3 DEF RequestType, IdOf
  <2> QED  BY <1>2, <2>1 DEF RequestOK, Own, Msg
<1>4. CASE k = "sub"
  <2>1. RequestType(k) = "SUBSCRIBE" /\ IdOf(k)' = subscribe_packet_id'
    BY <1>4 DEF RequestType, IdOf
  <2> QED  BY <1>2, <2>1 DEF RequestOK, Own, Msg
<1>5. CASE k = "unsub"
  <2>1. RequestType(k) = "UNSUBSCRIBE" /\ IdOf(k)' = unsubscribe_packet_id'
    BY <1>5 DEF RequestType, IdOf
  <2> QED  BY <1>2, <2>1 DEF RequestOK, Own, Msg
<1>6. CASE k \in {"ping", "pub0"}
  <2>1. Qos(k) = 0 /\ RequestType(k) \in {"PINGREQ", "PUBLISH"}
    BY <1>6 DEF RequestType, Qos
  <2> QED  BY <2>1 DEF RequestOK, Msg
<1> QED  BY <1>3, <1>4, <1>5, <1>6 DEF Requests

\* A stale buffer has identifier 0, which no call waits for.
LEMMA StaleReply ==
  ASSUME TypeOK, CountersOK, pc # "start", receive_buffer # NoMsg, ReplyOK(receive_buffer)
  PROVE  ReplyOK(Stale(receive_buffer))
<1> DEFINE m == receive_buffer
           s == Stale(receive_buffer)
<1>1. m \in Messages
  BY DEF TypeOK
<1>2. s.type = m.type /\ s.ctx = m.ctx /\ (s.type # "PUBLISH" => s.id = 0)
  BY <1>1, StaleFacts
<1>3. publish_packet_id \in Nat /\ subscribe_packet_id \in Nat /\ unsubscribe_packet_id \in Nat
      /\ \A k \in {"pub1", "pub2", "sub", "unsub"} : calls[k] \in Nat
  BY IdNat DEF TypeOK, Kinds, Requests
<1>4. InCall({"pub1", "pub2"}) => publish_packet_id > 0
  BY <1>3 DEF InCall, CountersOK, Kinds, Requests
<1>5. subscribe_packet_id > 0
  BY <1>3 DEF CountersOK
<1>6. InCall({"unsub"}) => unsubscribe_packet_id > 0
  <2>1. unsubscribe_packet_id - calls["unsub"] \in Nat
    BY GarbageFacts, IdNat DEF CountersOK
  <2>2. InCall({"unsub"}) => calls["unsub"] > 0
    BY DEF InCall, CountersOK, Kinds, Requests
  <2> QED  BY <1>3, <2>1, <2>2
<1> HIDE DEF m, s
<1>7. s.id = 0 => /\ Own(s, publish_packet_id, {"pub1", "pub2"})
                  /\ Own(s, subscribe_packet_id, {"sub"})
                  /\ Own(s, unsubscribe_packet_id, {"unsub"})
  BY <1>3, <1>4, <1>5, <1>6 DEF Own
<1>8. ReplyOK(s)
  BY <1>2, <1>7 DEF ReplyOK, m
<1> QED  BY <1>8 DEF s

LEMMA OkSame ==
  ASSUME OkMeansAnswered, answered \subseteq answered', UNCHANGED returned
  PROVE  OkMeansAnswered'
  BY DEF OkMeansAnswered, OkCalls

LEMMA OkReturn ==
  ASSUME OkMeansAnswered, answered \subseteq answered', NEW status, Return(status),
         status = "OK" /\ call'.kind \in Exchanges => call' \in answered'
  PROVE  OkMeansAnswered'
<1> DEFINE r == [call |-> call', status |-> status]
<1>1. returned' = returned \cup {r} /\ r.call = call' /\ r.status = status
  BY DEF Return
<1> HIDE DEF r
<1> QED  BY <1>1 DEF OkMeansAnswered, OkCalls

LEMMA SameMessages ==
  ASSUME TypeOK, RequestsOK, RepliesOK,
         \A m \in Messages : (RequestOK(m) => RequestOK(m)') /\ (ReplyOK(m) => ReplyOK(m)')
  PROVE  /\ UNCHANGED toServer => RequestsOK'
         /\ UNCHANGED <<toClient, receive_buffer, resp>> /\ (pc' = "parse" => pc = "parse") => RepliesOK'
<1>1. /\ \A i \in DOMAIN toServer : toServer[i] \in Messages
      /\ \A i \in DOMAIN toClient : toClient[i] \in Messages
      /\ receive_buffer # NoMsg => receive_buffer \in Messages
      /\ resp # NoMsg => resp \in Messages
  BY DEF TypeOK
<1>2. \A i \in DOMAIN toServer : RequestOK(toServer[i])
  BY DEF RequestsOK
<1>3. UNCHANGED toServer => RequestsOK'
  BY <1>1, <1>2 DEF RequestsOK
<1> QED  BY <1>1, <1>3 DEF RepliesOK

\* One more request.
LEMMA MoreRequests ==
  ASSUME TypeOK, RequestsOK, NEW e \in Messages, toServer' = Append(toServer, e),
         \A m \in Messages : RequestOK(m) => RequestOK(m)',
         \A m : m = e => RequestOK(m)'
  PROVE  RequestsOK'
<1>1. \A i \in DOMAIN toServer : toServer[i] \in Messages /\ RequestOK(toServer[i])
  BY DEF TypeOK, RequestsOK
<1>2. /\ DOMAIN toServer' = DOMAIN toServer \cup {Len(toServer) + 1}
      /\ toServer'[Len(toServer) + 1] = e
      /\ \A i \in DOMAIN toServer : toServer'[i] = toServer[i]
  BY AppendFacts DEF TypeOK
<1> QED  BY <1>1, <1>2 DEF RequestsOK

\* One more reply.
LEMMA MoreReplies ==
  ASSUME TypeOK, RepliesOK, NEW e \in Messages, toClient' = Append(toClient, e),
         \A m \in Messages : ReplyOK(m) => ReplyOK(m)',
         \A m : m = e => ReplyOK(m)',
         UNCHANGED <<receive_buffer, resp, pc>>
  PROVE  RepliesOK'
<1>1. /\ \A i \in DOMAIN toClient : toClient[i] \in Messages /\ ReplyOK(toClient[i])
      /\ receive_buffer # NoMsg => receive_buffer \in Messages
      /\ resp # NoMsg => resp \in Messages
  BY DEF TypeOK, RepliesOK
<1>2. /\ DOMAIN toClient' = DOMAIN toClient \cup {Len(toClient) + 1}
      /\ toClient'[Len(toClient) + 1] = e
      /\ \A i \in DOMAIN toClient : toClient'[i] = toClient[i]
  BY AppendFacts DEF TypeOK
<1> QED  BY <1>1, <1>2 DEF RepliesOK

LEMMA InsideFrame ==
  ASSUME Inside, answered \subseteq answered'
  PROVE  \A m : (RequestOK(m) => RequestOK(m)') /\ (ReplyOK(m) => ReplyOK(m)')
<1>1. InCall(Exchanges)' => InCall(Exchanges) /\ UNCHANGED call
  BY DEF Inside, InCall
<1> QED  BY <1>1, MessagesFrame DEF Inside

-----------------------------------------------------------------------------
(* OkMeansAnswered: one lemma for each action.                             *)

LEMMA AnswerConnect == ASSUME AnswerInv, Connect  PROVE AnswerInv'
<1>1. TypeOK' /\ CountersOK' /\ StartOK'
  BY ConnectType, CountersConnect DEF AnswerInv, StartOK, Connect
<1>2. RequestsOK'
  <2>1. toServer' = <<>> \/ toServer' = <<Msg("CONNECT", 0, 0, call')>>
    BY DEF AnswerInv, StartOK, Connect
  <2>2. \A i \in DOMAIN toServer' : toServer'[i].type = "CONNECT"
    BY <2>1, MsgFields
  <2> QED  BY <2>2 DEF RequestsOK, RequestOK
<1>3. RepliesOK'
  BY DEF AnswerInv, StartOK, Connect, RepliesOK
<1>4. OkMeansAnswered'
  BY DEF AnswerInv, Connect, OkMeansAnswered, OkCalls
<1> QED  BY <1>1, <1>2, <1>3, <1>4 DEF AnswerInv

LEMMA AnswerRequest ==
  ASSUME NoWrap, AnswerInv, NEW k \in Requests, Request(k)
  PROVE  AnswerInv'
<1>1. TypeOK /\ CountersOK /\ Begin(k) /\ BumpCounter(k) /\ k \in Kinds
  BY ExchangeKinds DEF AnswerInv, Request
<1>2. pc' \in {"idle", "receive", "crashed"}
  BY DEF Request, Return, Await, Die
<1>3. TypeOK' /\ CountersOK' /\ StartOK'
  BY <1>1, <1>2, RequestTypeOK, CountersRequest DEF StartOK
<1>4. \A m \in Messages : (RequestOK(m) => RequestOK(m)') /\ (ReplyOK(m) => ReplyOK(m)')
  BY <1>1, MessagesRequest DEF Request
<1>5. RequestsOK'
  <2> DEFINE e == Msg(RequestType(k), Qos(k), Wire(IdOf(k)'), call')
  <2>1. e \in Messages
    BY <1>1, RequestFacts, BeginType
  <2>2. \A m : m = e => RequestOK(m)'
    BY <1>1, NewRequest
  <2>3. UNCHANGED toServer \/ toServer' = Append(toServer, e)
    BY DEF Request, SendOk, SendFails, SendDies
  <2> HIDE DEF e
  <2> QED  BY <1>1, <1>4, <2>1, <2>2, <2>3, SameMessages, MoreRequests DEF AnswerInv
<1>6. RepliesOK'
  BY <1>1, <1>2, <1>4, SameMessages DEF AnswerInv, Request
<1>7. OkMeansAnswered'
  <2>1. call'.kind = k /\ answered' = answered
    BY <1>1 DEF Request, Begin
  <2>2. \/ UNCHANGED returned \/ Return("-1") \/ Return("SOCKET")
        \/ Return("OK") /\ call'.kind \notin Exchanges
    BY <2>1 DEF Request, Await, Die, FireAndForget, Exchanges
  <2> QED  BY <2>1, <2>2, OkSame, OkReturn DEF AnswerInv
<1> QED  BY <1>3, <1>5, <1>6, <1>7 DEF AnswerInv

LEMMA AnswerReceive == ASSUME AnswerInv, ServerReceive  PROVE AnswerInv'
<1>1. Inside /\ TypeOK /\ CountersOK /\ UNCHANGED <<answered, returned, toServer>>
  BY InsideSteps DEF AnswerInv, ServerReceive, historyVars
<1>2. pc = "receive" /\ pc' \in {"parse", "crashed"}
  BY DEF ServerReceive
<1>3. TypeOK' /\ CountersOK' /\ StartOK'
  BY <1>1, <1>2, ReceiveType, CountersInside DEF StartOK
<1>4. \A m : (RequestOK(m) => RequestOK(m)') /\ (ReplyOK(m) => ReplyOK(m)')
  BY <1>1, InsideFrame
<1>5. RequestsOK'
  BY <1>1, <1>4, SameMessages DEF AnswerInv
<1>6. toClient # <<>> => /\ Head(toClient) \in Messages /\ Head(toClient) = toClient[1]
                         /\ 1 \in DOMAIN toClient
                         /\ \A i \in DOMAIN Tail(toClient) :
                              i + 1 \in DOMAIN toClient /\ Tail(toClient)[i] = toClient[i + 1]
  BY <1>1, TailFacts DEF TypeOK
<1>7. \A i \in DOMAIN toClient' : ReplyOK(toClient[i])'
  <2>1. \A i \in DOMAIN toClient : ReplyOK(toClient[i])
    BY DEF AnswerInv, RepliesOK
  <2>2. toClient' = toClient \/ (toClient # <<>> /\ toClient' = Tail(toClient))
    BY DEF ServerReceive
  <2> QED  BY <1>4, <1>6, <2>1, <2>2
<1>8. /\ receive_buffer' # NoMsg => ReplyOK(receive_buffer)'
      /\ resp' # NoMsg /\ pc' = "parse" => ReplyOK(resp)'
  <2>1. CASE pc' = "crashed"
    <3>1. receive_buffer' = receive_buffer
      BY <2>1 DEF ServerReceive
    <3> QED  BY <1>4, <2>1, <3>1 DEF AnswerInv, RepliesOK
  <2>2. CASE toClient # <<>> /\ resp' = [Head(toClient) EXCEPT !.id = Wire(@)] /\ receive_buffer' = resp'
    <3>1. resp' = toClient[1] /\ 1 \in DOMAIN toClient
      BY <1>6, <2>2, ReceivedAsSent
    <3>2. ReplyOK(toClient[1])
      BY <3>1 DEF AnswerInv, RepliesOK
    <3> QED  BY <1>4, <2>2, <3>1, <3>2
  <2>3. CASE resp' = Stale(receive_buffer) /\ UNCHANGED receive_buffer
    <3>1. receive_buffer # NoMsg => ReplyOK(receive_buffer) /\ ReplyOK(Stale(receive_buffer))
      BY <1>1, <1>2, StaleReply DEF AnswerInv, RepliesOK
    <3>2. receive_buffer = NoMsg => resp' = NoMsg
      BY <2>3 DEF Stale
    <3> QED  BY <1>4, <2>3, <3>1, <3>2
  <2>4. CASE resp' = receive_buffer /\ UNCHANGED receive_buffer
    BY <1>4, <2>4 DEF AnswerInv, RepliesOK
  <2> QED  BY <2>1, <2>2, <2>3, <2>4 DEF ServerReceive
<1>9. OkMeansAnswered'
  BY <1>1 DEF AnswerInv, OkMeansAnswered, OkCalls
<1> QED  BY <1>3, <1>5, <1>7, <1>8, <1>9 DEF AnswerInv, RepliesOK

LEMMA AnswerConnack == ASSUME AnswerInv, OnConnack  PROVE AnswerInv'
<1>1. /\ Inside /\ TypeOK /\ CountersOK
      /\ UNCHANGED <<answered, toServer, toClient, receive_buffer, resp, call>>
      /\ pc = "parse" /\ pc' \in {"none", "idle"} /\ call.kind = "connect"
  BY InsideSteps DEF AnswerInv, OnConnack, Return
<1>2. TypeOK' /\ CountersOK' /\ StartOK'
  BY <1>1, JudgeType, CountersInside DEF StartOK
<1>3. RequestsOK' /\ RepliesOK'
  BY <1>1, InsideFrame, SameMessages DEF AnswerInv
<1>4. UNCHANGED returned \/ Return("OK")
  BY DEF OnConnack
<1>5. OkMeansAnswered'
  BY <1>1, <1>4, OkSame, OkReturn DEF AnswerInv, Exchanges
<1> QED  BY <1>2, <1>3, <1>5 DEF AnswerInv

\* A reply of the right type and identifier is the broker's, to this call.
LEMMA MatchedReply ==
  ASSUME AnswerInv, pc = "parse", call.kind \in Exchanges, Matches,
         ~(call.kind = "pub2" /\ stage = 1)
  PROVE  call \in answered
<1>1. resp # NoMsg /\ ReplyOK(resp) /\ resp.type = ReplyTo /\ resp.id = IdOf(call.kind)
  BY DEF AnswerInv, RepliesOK, Matches, Exchanges
<1>2. stage \in {1, 2}
  BY DEF AnswerInv, TypeOK
<1>3. CASE call.kind \in {"pub1", "pub2"}
  <2>1. resp.type \in {"PUBACK", "PUBCOMP"} /\ resp.id = publish_packet_id
    BY <1>1, <1>2, <1>3 DEF ReplyTo, IdOf
  <2> QED  BY <1>1, <1>3, <2>1 DEF ReplyOK, Own, InCall
<1>4. CASE call.kind = "sub"
  <2>1. resp.type = "SUBACK" /\ resp.id = subscribe_packet_id
    BY <1>1, <1>4 DEF ReplyTo, IdOf
  <2> QED  BY <1>1, <1>4, <2>1 DEF ReplyOK, Own, InCall
<1>5. CASE call.kind = "unsub"
  <2>1. resp.type = "UNSUBACK" /\ resp.id = unsubscribe_packet_id
    BY <1>1, <1>5 DEF ReplyTo, IdOf
  <2> QED  BY <1>1, <1>5, <2>1 DEF ReplyOK, Own, InCall
<1> QED  BY <1>3, <1>4, <1>5 DEF Exchanges

LEMMA AnswerReply == ASSUME AnswerInv, OnReply  PROVE AnswerInv'
<1>1. /\ Inside /\ TypeOK /\ CountersOK
      /\ UNCHANGED <<answered, toClient, receive_buffer, resp, call>>
      /\ pc = "parse" /\ pc' \in {"idle", "receive", "crashed"} /\ call.kind \in Requests
  BY InsideSteps DEF AnswerInv, OnReply, Return, Await, Die
<1>2. TypeOK' /\ CountersOK' /\ StartOK'
  BY <1>1, JudgeType, CountersInside DEF StartOK
<1>3. \A m : (RequestOK(m) => RequestOK(m)') /\ (ReplyOK(m) => ReplyOK(m)')
  BY <1>1, InsideFrame
<1>4. RepliesOK'
  BY <1>1, <1>3, SameMessages DEF AnswerInv
<1>5. RequestsOK'
  <2> DEFINE e == Msg("PUBREL", 0, Wire(publish_packet_id), call)
  <2>1. UNCHANGED toServer \/ toServer' = Append(toServer, e)
    BY DEF OnReply, SendOk, SendFails, SendDies
  <2>2. Wire(publish_packet_id) \in 0..255 /\ Wire(publish_packet_id) <= publish_packet_id
    BY <1>1, WireFacts DEF TypeOK
  <2>3. call \in Contexts
    BY <1>1 DEF TypeOK, Contexts
  <2>4. e \in Messages
    BY <2>2, <2>3 DEF Msg, Messages, MessageTypes
  <2>5. RequestOK(e)
    BY <2>2, MsgFields DEF RequestOK, Own
  <2>6. \A m : m = e => RequestOK(m)'
    BY <1>3, <2>5
  <2> HIDE DEF e
  <2> QED  BY <1>1, <1>3, <2>1, <2>4, <2>6, SameMessages, MoreRequests DEF AnswerInv
<1>6. OkMeansAnswered'
  <2>1. \/ UNCHANGED returned \/ Return("-1") \/ Return("BAD_MESSAGE") \/ Return("UNEXPECTED")
        \/ Return("SOCKET")
        \/ Return("OK") /\ Matches /\ ~(call.kind = "pub2" /\ stage = 1)
    BY DEF OnReply, Await, Die
  <2>2. Matches /\ ~(call.kind = "pub2" /\ stage = 1) /\ call.kind \in Exchanges => call \in answered
    BY <1>1, MatchedReply
  <2> QED  BY <1>1, <2>1, <2>2, OkSame, OkReturn DEF AnswerInv
<1> QED  BY <1>2, <1>4, <1>5, <1>6 DEF AnswerInv

\* smqtt_get_next_message sends acknowledgements only, which are no requests.
LEMMA AnswerNext ==
  ASSUME AnswerInv, OnNextPublish \/ OnNextPubrel
  PROVE  AnswerInv'
<1>1. /\ Inside /\ TypeOK /\ CountersOK
      /\ UNCHANGED <<answered, toClient, receive_buffer, resp, call>>
      /\ pc = "parse" /\ pc' \in {"idle", "receive", "crashed"} /\ call.kind = "next"
  <2>1. CASE OnNextPublish
    BY <2>1, InsideSteps DEF AnswerInv, OnNextPublish, Return, Await, Die
  <2>2. CASE OnNextPubrel
    BY <2>2, InsideSteps DEF AnswerInv, OnNextPubrel, Return, Await, Die
  <2> QED  BY <2>1, <2>2
<1>2. TypeOK' /\ CountersOK' /\ StartOK'
  BY <1>1, JudgeType, CountersInside DEF StartOK
<1>3. \A m : (RequestOK(m) => RequestOK(m)') /\ (ReplyOK(m) => ReplyOK(m)')
  BY <1>1, InsideFrame
<1>4. RepliesOK'
  BY <1>1, <1>3, SameMessages DEF AnswerInv
<1>5. RequestsOK'
  <2>1. \/ UNCHANGED toServer
        \/ \E t \in {"PUBACK", "PUBREC", "PUBCOMP"} :
             resp # NoMsg /\ toServer' = Append(toServer, Msg(t, 0, Wire(resp.id), resp.ctx))
    BY DEF OnNextPublish, OnNextPubrel, IsPubrel, AckFor, SendOk, SendFails, SendDies
  <2>2. CASE UNCHANGED toServer
    BY <1>1, <1>3, <2>2, SameMessages DEF AnswerInv
  <2>3. ASSUME NEW t \in {"PUBACK", "PUBREC", "PUBCOMP"}, resp # NoMsg,
               toServer' = Append(toServer, Msg(t, 0, Wire(resp.id), resp.ctx))
        PROVE  RequestsOK'
    <3>1. resp.id \in 0..255 /\ resp.ctx \in Contexts
      BY <1>1, <2>3 DEF TypeOK, Messages
    <3>2. Wire(resp.id) \in 0..255
      BY <3>1, WireFacts
    <3>3. Msg(t, 0, Wire(resp.id), resp.ctx) \in Messages
      BY <3>1, <3>2 DEF Msg, Messages, MessageTypes
    <3>4. \A m : m = Msg(t, 0, Wire(resp.id), resp.ctx) => RequestOK(m)'
      BY MsgFields DEF RequestOK
    <3> QED  BY <1>1, <1>3, <2>3, <3>3, <3>4, MoreRequests DEF AnswerInv
  <2> QED  BY <2>1, <2>2, <2>3
<1>6. OkMeansAnswered'
  <2>1. UNCHANGED returned \/ \E status : Return(status)
    BY DEF OnNextPublish, OnNextPubrel, Await, Die
  <2>2. call'.kind \notin Exchanges
    BY <1>1 DEF Exchanges
  <2> QED  BY <1>1, <2>1, <2>2, OkSame, OkReturn DEF AnswerInv
<1> QED  BY <1>2, <1>4, <1>5, <1>6 DEF AnswerInv

LEMMA AnswerOtherCalls ==
  ASSUME AnswerInv, GetNextMessage \/ Disconnect \/ Drop
  PROVE  AnswerInv'
<1>1. PICK k \in {"next", "disconnect", "drop"} : Begin(k)
  BY DEF GetNextMessage, Disconnect, Drop
<1>2. /\ UNCHANGED <<counters, answered, returned, toClient, receive_buffer, resp>>
      /\ pc = "idle" /\ pc' \in {"receive", "gone", "crashed"} /\ call'.kind = k
      /\ TypeOK /\ CountersOK
  BY <1>1 DEF GetNextMessage, Disconnect, Drop, Begin, Await, counters, netVars, AnswerInv
<1>3. TypeOK' /\ CountersOK' /\ StartOK'
  BY <1>1, <1>2, OtherCallsType, CountersBegin DEF StartOK
<1>4. \A m : (RequestOK(m) => RequestOK(m)') /\ (ReplyOK(m) => ReplyOK(m)')
  <2>1. ~InCall(Exchanges)'
    BY <1>2 DEF InCall, Exchanges
  <2> QED  BY <1>2, <2>1, MessagesFrame
<1>5. RepliesOK'
  BY <1>2, <1>4, SameMessages DEF AnswerInv
<1>6. RequestsOK'
  <2> DEFINE e == Msg("DISCONNECT", 0, 0, call')
  <2>1. UNCHANGED toServer \/ toServer' = Append(toServer, e)
    BY DEF GetNextMessage, Disconnect, Drop, netVars, SendOk, SendFails, SendDies
  <2>2. call' \in Contexts
    BY <1>3 DEF TypeOK, Contexts
  <2>3. e \in Messages
    BY <2>2 DEF Msg, Messages, MessageTypes
  <2>4. \A m : m = e => RequestOK(m)'
    BY MsgFields DEF RequestOK
  <2> HIDE DEF e
  <2> QED  BY <1>2, <1>4, <2>1, <2>3, <2>4, SameMessages, MoreRequests DEF AnswerInv
<1>7. OkMeansAnswered'
  BY <1>2, OkSame DEF AnswerInv
<1> QED  BY <1>3, <1>5, <1>6, <1>7 DEF AnswerInv

\* An answer has the identifier and the context of its request.
LEMMA AnswerOK ==
  ASSUME NEW m \in Messages, RequestOK(m), NEW a \in Answers(m), UNCHANGED <<counters, pc, call>>,
         answered' = IF Final(a) THEN answered \cup {a.ctx} ELSE answered
  PROVE  \A r : r = a => ReplyOK(r)'
<1>1. /\ a.ctx = m.ctx
      /\ a.type # "CONNACK" => a.id = IF m.type = "PINGREQ" THEN 0 ELSE m.id
      /\ \/ m.type = "CONNECT" /\ a.type = "CONNACK"
         \/ m.type = "PINGREQ" /\ a.type = "PINGRESP"
         \/ m.type = "SUBSCRIBE" /\ a.type = "SUBACK"
         \/ m.type = "UNSUBSCRIBE" /\ a.type = "UNSUBACK"
         \/ m.type = "PUBLISH" /\ m.qos = 1 /\ a.type = "PUBACK"
         \/ m.type = "PUBLISH" /\ m.qos = 2 /\ a.type = "PUBREC"
         \/ m.type = "PUBREL" /\ a.type = "PUBCOMP"
         \/ m.type = "PUBREC" /\ a.type = "PUBREL"
  BY AnswersFacts
<1>2. a.type \in {"PUBACK", "PUBCOMP", "SUBACK", "UNSUBACK"} => a.ctx \in answered'
  BY DEF Final
<1>3. a.type \in {"PUBACK", "PUBREC", "PUBCOMP"} =>
        a.id = m.id /\ Own(m, publish_packet_id, {"pub1", "pub2"})
  BY <1>1 DEF RequestOK
<1>4. a.type = "SUBACK" => a.id = m.id /\ Own(m, subscribe_packet_id, {"sub"})
  BY <1>1 DEF RequestOK
<1>5. a.type = "UNSUBACK" => a.id = m.id /\ Own(m, unsubscribe_packet_id, {"unsub"})
  BY <1>1 DEF RequestOK
<1> QED  BY <1>1, <1>2, <1>3, <1>4, <1>5 DEF ReplyOK, Own, InCall, counters

LEMMA AnswerBrokerReceive == ASSUME AnswerInv, BrokerReceive  PROVE AnswerInv'
<1> DEFINE m == Head(toServer)
<1>1. /\ Inside /\ TypeOK /\ CountersOK /\ toServer # <<>> /\ toServer' = Tail(toServer)
      /\ UNCHANGED <<counters, pc, call, resp, receive_buffer, returned>>
      /\ answered \subseteq answered'
  BY InsideSteps DEF AnswerInv, BrokerReceive, localVars
<1>2. /\ m \in Messages /\ m = toServer[1] /\ 1 \in DOMAIN toServer
      /\ \A i \in DOMAIN Tail(toServer) :
           i + 1 \in DOMAIN toServer /\ Tail(toServer)[i] = toServer[i + 1]
  BY <1>1, TailFacts DEF TypeOK
<1>3. TypeOK' /\ CountersOK'
  BY <1>1, BrokerReceiveType, CountersInside
<1>4. StartOK'
  BY <1>1 DEF AnswerInv, StartOK
<1>5. \A r : (RequestOK(r) => RequestOK(r)') /\ (ReplyOK(r) => ReplyOK(r)')
  BY <1>1, InsideFrame
<1>6. RequestsOK'
  <2>1. \A i \in DOMAIN toServer : RequestOK(toServer[i])
    BY DEF AnswerInv, RequestsOK
  <2> QED  BY <1>1, <1>2, <1>5, <2>1 DEF RequestsOK
<1>7. RepliesOK'
  <2>1. CASE UNCHANGED <<toClient, answered>>
    BY <1>1, <1>5, <2>1, SameMessages DEF AnswerInv
  <2>2. ASSUME NEW a \in Answers(m), toClient' = Append(toClient, a),
               answered' = IF Final(a) THEN answered \cup {a.ctx} ELSE answered
        PROVE  RepliesOK'
    <3>1. RequestOK(m)
      BY <1>2 DEF AnswerInv, RequestsOK
    <3> HIDE DEF m
    <3>2. \A r : r = a => ReplyOK(r)'
      BY <1>1, <1>2, <2>2, <3>1, AnswerOK
    <3>3. a \in Messages
      BY <1>2, AnswersFacts
    <3> QED  BY <1>1, <1>5, <2>2, <3>2, <3>3, MoreReplies DEF AnswerInv
  <2> QED  BY <2>1, <2>2 DEF BrokerReceive
<1>8. OkMeansAnswered'
  BY <1>1, OkSame DEF AnswerInv
<1> QED  BY <1>3, <1>4, <1>6, <1>7, <1>8 DEF AnswerInv

\* What the broker publishes is no reply.
LEMMA AnswerBrokerPublish ==
  ASSUME AnswerInv, NEW q \in 0..2, BrokerPublish(q)
  PROVE  AnswerInv'
<1>1. /\ Inside /\ TypeOK /\ CountersOK /\ answered # {}
      /\ UNCHANGED <<answered, returned, toServer, receive_buffer, resp, pc>>
  BY InsideSteps DEF AnswerInv, BrokerPublish, localVars
<1>2. TypeOK' /\ CountersOK'
  BY <1>1, BrokerPublishType, CountersInside
<1>3. StartOK'
  BY <1>1 DEF AnswerInv, StartOK
<1>4. \A m : (RequestOK(m) => RequestOK(m)') /\ (ReplyOK(m) => ReplyOK(m)')
  BY <1>1, InsideFrame
<1>5. RequestsOK'
  BY <1>1, <1>4, SameMessages DEF AnswerInv
<1>6. RepliesOK'
  <2> DEFINE x == [kind |-> SrvKind[q + 1], n |-> pushes[q] + 1]
  <2>1. PICK id : /\ IF q = 0 THEN id = 0 ELSE id \in BrokerIds
                  /\ toClient' = Append(toClient, Msg("PUBLISH", q, id, x))
    BY DEF BrokerPublish
  <2>2. id \in 0..255
    <3>1. (q = 0 => id = 0) /\ (q # 0 => id \in BrokerIds)
      BY <2>1
    <3> QED  BY <3>1, BrokerIdFacts
  <2>3. Msg("PUBLISH", q, id, x) \in Messages
    BY <1>1, <2>2, SrvContext, MsgType DEF MessageTypes
  <2>4. \A m : m = Msg("PUBLISH", q, id, x) => ReplyOK(m)'
    BY MsgFields DEF ReplyOK
  <2> HIDE DEF x
  <2> QED  BY <1>1, <1>4, <2>1, <2>3, <2>4, MoreReplies DEF AnswerInv
<1>7. OkMeansAnswered'
  BY <1>1, OkSame DEF AnswerInv
<1> QED  BY <1>2, <1>3, <1>5, <1>6, <1>7 DEF AnswerInv

LEMMA AnswerStep == NoWrap /\ AnswerInv /\ [Next]_vars => AnswerInv'
<1> SUFFICES ASSUME NoWrap, AnswerInv, [Next]_vars  PROVE AnswerInv'
  OBVIOUS
<1>1. CASE AppStep
  BY <1>1, AnswerConnect, AnswerRequest, AnswerReceive, AnswerConnack, AnswerReply, AnswerNext,
     AnswerOtherCalls
  DEF AppStep, CallStep
<1>2. CASE BrokerReceive \/ \E q \in 0..2 : BrokerPublish(q)
  BY <1>2, AnswerBrokerReceive, AnswerBrokerPublish
<1>3. CASE BrokerClose \/ UNCHANGED vars
  <2>1. /\ Inside /\ TypeOK' /\ CountersOK
        /\ UNCHANGED <<answered, returned, toServer, toClient, receive_buffer, resp, pc>>
    BY <1>3, InsideSteps, TypeStep
    DEF AnswerInv, BrokerClose, vars, localVars, netVars, historyVars, Next, BrokerStep
  <2>2. RequestsOK' /\ RepliesOK'
    BY <2>1, InsideFrame, SameMessages DEF AnswerInv
  <2> QED  BY <2>1, <2>2, CountersInside, OkSame DEF AnswerInv, StartOK
<1> QED  BY <1>1, <1>2, <1>3 DEF Next, BrokerStep

LEMMA AnswerInit == Init => AnswerInv
<1> SUFFICES ASSUME Init  PROVE AnswerInv
  OBVIOUS
<1>1. CountersOK
  <2>1. \A k \in Kinds : calls[k] = 0 /\ MaxCalls[k] \in Nat
    BY BoundAssumption DEF Init
  <2>2. calls["pub1"] = 0 /\ calls["pub2"] = 0 /\ calls["sub"] = 0 /\ calls["unsub"] = 0
    BY <2>1 DEF Kinds, Requests
  <2> QED  BY <2>1, <2>2 DEF Init, CountersOK, InCall
<1>2. StartOK /\ RequestsOK /\ RepliesOK /\ OkMeansAnswered
  BY DEF Init, StartOK, RequestsOK, RepliesOK, OkMeansAnswered, OkCalls
<1> QED  BY <1>1, <1>2, TypeInit DEF AnswerInv

\* OkMeansAnswered for any number of calls as long as no counter wraps round
\* (65535 publications, 65534 subscriptions): smqtt_publish, smqtt_subscribe
\* and smqtt_unsubscribe return SMQTT_OK only when the broker has answered
\* that very call, whatever the broker publishes, delays or never answers and
\* whatever fails on the connection.
THEOREM OkCallsAnswered == NoWrap => (Spec => []OkMeansAnswered)
<1>1. NoWrap /\ Init => (NoWrap /\ AnswerInv)
  BY AnswerInit
<1>2. (NoWrap /\ AnswerInv) /\ [Next]_vars => (NoWrap /\ AnswerInv)'
  BY AnswerStep DEF NoWrap
<1>3. NoWrap /\ AnswerInv => OkMeansAnswered
  BY DEF AnswerInv
<1> QED  BY <1>1, <1>2, <1>3, PTL DEF Spec

-----------------------------------------------------------------------------
(* HandoverSafe: what a step of the application does.                      *)

LEMMA ToSetAppend ==
  ASSUME NEW S, NEW s \in Seq(S), NEW e \in S
  PROVE  ToSet(s) \subseteq ToSet(Append(s, e)) /\ e \in ToSet(Append(s, e))
<1>1. /\ DOMAIN Append(s, e) = DOMAIN s \cup {Len(s) + 1}
      /\ Append(s, e)[Len(s) + 1] = e
      /\ \A i \in DOMAIN s : Append(s, e)[i] = s[i]
  BY AppendFacts
<1> QED  BY <1>1 DEF ToSet

\* The application has no fewer publications, and the broker the same.
LEMMA BackedFrame ==
  ASSUME UNCHANGED inflight, ToSet(handed) \subseteq ToSet(handed')
  PROVE  /\ \A id : Given(id) => Given(id)'
         /\ \A m : Backed(m) => Backed(m)'
  BY DEF Given, Backed

\* A step of the application that sends nothing, or something that is no
\* acknowledgement, or the acknowledgement of the packet in its hand.
LEMMA HandoverApp ==
  ASSUME HandoverInv, TypeOK', ~Fresh', UNCHANGED <<toClient, inflight, taken>>,
         ToSet(handed) \subseteq ToSet(handed'), NEW e \in Messages,
         UNCHANGED toServer \/ toServer' = Append(toServer, e),
         Ack(e) => Fresh /\ e.id = resp.id /\ Given(e.id)'
  PROVE  HandoverInv'
<1>1. CASE UNCHANGED toServer
  <2>1. OneUnderWay'
    BY <1>1 DEF HandoverInv, OneUnderWay, Ack, Push
  <2>2. AllBacked'
    <3>1. (\A i \in DOMAIN toServer : Ack(toServer[i]) => Given(toServer[i].id))'
      BY <1>1, BackedFrame DEF HandoverInv, AllBacked, Ack
    <3>2. (\A i \in DOMAIN toClient : Push(toClient[i]) => Backed(toClient[i]))'
      BY BackedFrame DEF HandoverInv, AllBacked, Push
    <3> QED  BY <3>1, <3>2 DEF AllBacked
  <2> QED  BY <2>1, <2>2 DEF HandoverInv, HandoverSafe
<1>2. CASE toServer' = Append(toServer, e)
  <2>1. /\ DOMAIN toServer' = DOMAIN toServer \cup {Len(toServer) + 1}
        /\ toServer'[Len(toServer) + 1] = e /\ Len(toServer) + 1 \notin DOMAIN toServer
        /\ \A i \in DOMAIN toServer : toServer'[i] = toServer[i]
    <3>1. toServer \in Seq(Messages)
      BY DEF HandoverInv, TypeOK
    <3> QED  BY <1>2, <3>1, AppendFacts
  <2>2. Ack(e) => /\ \A i \in DOMAIN toServer : Ack(toServer[i]) => toServer[i].id # e.id
                  /\ \A i \in DOMAIN toClient : Push(toClient[i]) => toClient[i].id # e.id
    BY DEF HandoverInv, OneUnderWay
  <2>3. OneUnderWay'
    <3>1. \A i, j \in DOMAIN toServer' :
            Ack(toServer'[i]) /\ Ack(toServer'[j]) /\ toServer'[i].id = toServer'[j].id => i = j
      BY <2>1, <2>2 DEF HandoverInv, OneUnderWay
    <3>2. \A i \in DOMAIN toServer', j \in DOMAIN toClient :
            Ack(toServer'[i]) /\ Push(toClient[j]) => toServer'[i].id # toClient[j].id
      BY <2>1, <2>2 DEF HandoverInv, OneUnderWay
    <3>3. \A i, j \in DOMAIN toClient :
            Push(toClient[i]) /\ Push(toClient[j]) /\ toClient[i].id = toClient[j].id => i = j
      BY DEF HandoverInv, OneUnderWay
    <3> QED  BY <3>1, <3>2, <3>3 DEF OneUnderWay, Ack, Push
  <2>4. AllBacked'
    <3>1. (\A i \in DOMAIN toServer : Ack(toServer[i]) => Given(toServer[i].id))'
      <4>1. \A i \in DOMAIN toServer : Ack(toServer[i]) => Given(toServer[i].id)
        BY DEF HandoverInv, AllBacked
      <4> QED  BY <2>1, <4>1, BackedFrame DEF Ack
    <3>2. (\A i \in DOMAIN toClient : Push(toClient[i]) => Backed(toClient[i]))'
      BY BackedFrame DEF HandoverInv, AllBacked, Push
    <3> QED  BY <3>1, <3>2 DEF AllBacked
  <2> QED  BY <2>3, <2>4 DEF HandoverInv, HandoverSafe
<1> QED  BY <1>1, <1>2

\* An acknowledgement that the client builds.
LEMMA AckMsg ==
  ASSUME TypeOK, resp # NoMsg, NEW t \in {"PUBACK", "PUBREC", "PUBCOMP"}
  PROVE  /\ Msg(t, 0, Wire(resp.id), resp.ctx) \in Messages
         /\ Msg(t, 0, Wire(resp.id), resp.ctx).id = resp.id
<1>1. resp.id \in 0..255 /\ resp.ctx \in Contexts
  BY DEF TypeOK, Messages
<1>2. Wire(resp.id) = resp.id
  BY <1>1, WireFacts
<1> QED  BY <1>1, <1>2 DEF Msg, Messages, MessageTypes

LEMMA NoAck ==
  \A t, q, i, x : t \notin {"PUBACK", "PUBREC", "PUBCOMP"} => ~Ack(Msg(t, q, i, x))
  BY MsgFields DEF Ack

LEMMA HandoverRequest ==
  ASSUME HandoverInv, NEW k \in Requests, Request(k)
  PROVE  HandoverInv'
<1> DEFINE e == Msg(RequestType(k), Qos(k), Wire(IdOf(k)'), call')
<1>1. TypeOK /\ TypeOK' /\ ~Fresh' /\ UNCHANGED <<toClient, inflight, taken, handed>>
  BY RequestTypeOK DEF HandoverInv, Request, Return, Await, Die, Fresh
<1>2. e \in Messages
  BY <1>1, RequestFacts, BeginType, ExchangeKinds DEF Request
<1>3. ~Ack(e)
  BY NoAck DEF RequestType
<1>4. UNCHANGED toServer \/ toServer' = Append(toServer, e)
  BY DEF Request, SendOk, SendFails, SendDies
<1> HIDE DEF e
<1> QED  BY <1>1, <1>2, <1>3, <1>4, HandoverApp

LEMMA HandoverReply == ASSUME HandoverInv, OnReply  PROVE HandoverInv'
<1> DEFINE e == Msg("PUBREL", 0, Wire(publish_packet_id), call)
<1>1. TypeOK /\ TypeOK' /\ ~Fresh' /\ UNCHANGED <<toClient, inflight, taken, handed>>
  BY JudgeType DEF HandoverInv, OnReply, Return, Await, Die, Fresh
<1>2. e \in Messages
  <2>1. Wire(publish_packet_id) \in 0..255
    BY <1>1, WireFacts DEF TypeOK
  <2>2. call \in Contexts
    BY <1>1 DEF TypeOK, Contexts
  <2> QED  BY <2>1, <2>2 DEF Msg, Messages, MessageTypes
<1>3. ~Ack(e)
  BY NoAck
<1>4. UNCHANGED toServer \/ toServer' = Append(toServer, e)
  BY DEF OnReply, SendOk, SendFails, SendDies
<1> HIDE DEF e
<1> QED  BY <1>1, <1>2, <1>3, <1>4, HandoverApp

LEMMA HandoverOtherCalls ==
  ASSUME HandoverInv, GetNextMessage \/ Disconnect \/ Drop \/ OnConnack \/ BrokerClose
  PROVE  HandoverInv'
<1> DEFINE e == Msg("DISCONNECT", 0, 0, call')
<1>1. TypeOK /\ TypeOK' /\ UNCHANGED <<toClient, inflight, taken, handed>>
  BY TypeStep DEF HandoverInv, GetNextMessage, Disconnect, Drop, OnConnack, BrokerClose, netVars,
     historyVars, Next, AppStep, CallStep, BrokerStep
<1>2. ~Fresh'
  BY DEF GetNextMessage, Disconnect, Drop, OnConnack, BrokerClose, Return, Await, Fresh
<1>3. e \in Messages
  <2>1. call' \in Contexts
    BY <1>1 DEF TypeOK, Contexts
  <2> QED  BY <2>1 DEF Msg, Messages, MessageTypes
<1>4. ~Ack(e)
  BY NoAck
<1>5. UNCHANGED toServer \/ toServer' = Append(toServer, e)
  BY DEF GetNextMessage, Disconnect, Drop, OnConnack, BrokerClose, netVars, SendOk, SendFails,
     SendDies
<1> HIDE DEF e
<1> QED  BY <1>1, <1>2, <1>3, <1>4, <1>5, HandoverApp

\* The publication is copied for the application before it is acknowledged.
LEMMA HandoverNextPublish == ASSUME HandoverInv, OnNextPublish  PROVE HandoverInv'
<1>1. TypeOK /\ TypeOK' /\ ~Fresh' /\ UNCHANGED <<toClient, inflight, taken>> /\ pc = "parse"
  BY JudgeType DEF HandoverInv, OnNextPublish, Return, Await, Die, Fresh
<1>2. CASE resp = NoMsg \/ resp.type # "PUBLISH"
  <2>1. UNCHANGED <<toServer, handed>>
    BY <1>2 DEF OnNextPublish
  <2>2. PICK e \in Messages : ~Ack(e)
    <3>1. call \in Contexts
      BY <1>1 DEF TypeOK, Contexts
    <3>2. Msg("CONNECT", 0, 0, call) \in Messages
      BY <3>1 DEF Msg, Messages, MessageTypes
    <3> QED  BY <3>2, NoAck
  <2> QED  BY <1>1, <2>1, <2>2, HandoverApp
<1>3. CASE resp # NoMsg /\ resp.type = "PUBLISH"
  <2>1. AckFor(resp.qos) \in {"PUBACK", "PUBREC", "PUBCOMP"}
    BY DEF AckFor
  <2>2. PICK e \in Messages :
          e = Msg(AckFor(resp.qos), 0, Wire(resp.id), resp.ctx) /\ e.id = resp.id
    BY <1>1, <1>3, <2>1, AckMsg
  <2>3. UNCHANGED toServer \/ (toServer' = Append(toServer, e) /\ link = "up")
    BY <1>3, <2>2 DEF OnNextPublish, SendOk, SendFails, SendDies
  <2>4. ToSet(handed) \subseteq ToSet(handed') /\ resp.ctx \in ToSet(handed')
    <3>1. handed \in Seq(Contexts) /\ resp.ctx \in Contexts
      BY <1>1, <1>3 DEF TypeOK, Messages
    <3>2. handed' = Append(handed, resp.ctx)
      BY <1>3 DEF OnNextPublish
    <3> QED  BY <3>1, <3>2, ToSetAppend
  <2>5. CASE UNCHANGED toServer /\ link # "up"
    <3>1. PICK f \in Messages : ~Ack(f)
      <4>1. call \in Contexts
        BY <1>1 DEF TypeOK, Contexts
      <4>2. Msg("CONNECT", 0, 0, call) \in Messages
        BY <4>1 DEF Msg, Messages, MessageTypes
      <4> QED  BY <4>2, NoAck
    <3> QED  BY <1>1, <2>4, <2>5, <3>1, HandoverApp
  <2>6. CASE link = "up"
    <3>1. Ack(e) => Fresh /\ Given(e.id)'
      <4>1. SUFFICES ASSUME Ack(e)  PROVE Fresh /\ Given(e.id)'
        OBVIOUS
      <4>2. Fresh
        BY <1>1, <1>3, <2>2, <2>6, <4>1 DEF Fresh, Push, Ack
      <4>3. [id |-> resp.id, ctx |-> resp.ctx] \in inflight
        BY <1>3, <4>2 DEF HandoverInv, AllBacked, Backed
      <4> QED  BY <1>1, <2>2, <2>4, <4>2, <4>3 DEF Given
    <3> QED  BY <1>1, <2>2, <2>3, <2>4, <3>1, HandoverApp
  <2> QED  BY <2>3, <2>5, <2>6
<1> QED  BY <1>2, <1>3

LEMMA HandoverNextPubrel == ASSUME HandoverInv, OnNextPubrel  PROVE HandoverInv'
<1>1. /\ TypeOK /\ TypeOK' /\ ~Fresh' /\ UNCHANGED <<toClient, inflight, taken, handed>>
      /\ pc = "parse"
  BY JudgeType DEF HandoverInv, OnNextPubrel, Return, Await, Die, Fresh
<1>2. PICK f \in Messages : ~Ack(f)
  <2>1. call \in Contexts
    BY <1>1 DEF TypeOK, Contexts
  <2>2. Msg("CONNECT", 0, 0, call) \in Messages
    BY <2>1 DEF Msg, Messages, MessageTypes
  <2> QED  BY <2>2, NoAck
<1>3. CASE UNCHANGED toServer
  BY <1>1, <1>2, <1>3, HandoverApp
<1>4. CASE ~UNCHANGED toServer
  <2>1. /\ toServer' = Append(toServer, Msg("PUBCOMP", 0, Wire(resp.id), resp.ctx))
        /\ link = "up" /\ resp # NoMsg /\ resp.type = "PUBREL"
    BY <1>4 DEF OnNextPubrel, IsPubrel, SendOk, SendFails, SendDies
  <2>2. PICK e \in Messages : e = Msg("PUBCOMP", 0, Wire(resp.id), resp.ctx) /\ e.id = resp.id
    BY <1>1, <2>1, AckMsg
  <2>3. Ack(e) => Fresh /\ Given(e.id)'
    <3>1. SUFFICES ASSUME Ack(e)  PROVE Fresh /\ Given(e.id)'
      OBVIOUS
    <3>2. Fresh
      BY <1>1, <2>1, <2>2, <3>1 DEF Fresh, Push, Ack
    <3>3. Given(e.id)
      BY <2>1, <2>2, <3>2 DEF HandoverInv, AllBacked, Backed
    <3> QED  BY <1>1, <3>2, <3>3, BackedFrame
  <2> QED  BY <1>1, <2>1, <2>2, <2>3, HandoverApp
<1> QED  BY <1>3, <1>4

LEMMA HandoverConnect == ASSUME HandoverInv, Connect  PROVE HandoverInv'
<1>1. TypeOK' /\ ~Fresh' /\ UNCHANGED <<toClient, inflight, taken, handed>>
  BY ConnectType DEF HandoverInv, Connect, Fresh
<1>2. CASE UNCHANGED toServer
  BY <1>1, <1>2
  DEF HandoverInv, OneUnderWay, AllBacked, HandoverSafe, Ack, Push, Given, Backed
<1>3. CASE toServer' = <<Msg("CONNECT", 0, 0, call')>>
  <2>1. \A i \in DOMAIN toServer' : ~Ack(toServer'[i])
    BY <1>3, NoAck
  <2> QED  BY <1>1, <2>1
           DEF HandoverInv, OneUnderWay, AllBacked, HandoverSafe, Ack, Push, Given, Backed
<1> QED  BY <1>2, <1>3 DEF Connect

\* A packet is taken out of the socket, or the buffer is read again: then its
\* identifier is that of no publication, or TopicByte.
LEMMA HandoverReceive ==
  ASSUME HandoverInv, ServerReceive
  PROVE  HandoverInv'
<1>1. TypeOK /\ TypeOK' /\ UNCHANGED <<toServer, inflight, taken, handed, link>> /\ ~Fresh
  BY ReceiveType DEF HandoverInv, ServerReceive, historyVars, Fresh
<1>2. CASE toClient # <<>> /\ resp' = [Head(toClient) EXCEPT !.id = Wire(@)]
           /\ toClient' = Tail(toClient)
  <2>1. /\ Head(toClient) \in Messages /\ Head(toClient) = toClient[1] /\ 1 \in DOMAIN toClient
        /\ \A i \in DOMAIN toClient' : /\ i + 1 \in DOMAIN toClient /\ toClient'[i] = toClient[i + 1]
                                       /\ i + 1 # 1 /\ i \in Nat
    <3>1. toClient \in Seq(Messages)
      BY <1>1 DEF TypeOK
    <3> QED  BY <1>2, <3>1, TailFacts
  <2>2. resp' = toClient[1]
    BY <1>2, <2>1, ReceivedAsSent
  <2>3. OneUnderWay'
    <3>1. (\A i, j \in DOMAIN toServer :
            Ack(toServer[i]) /\ Ack(toServer[j]) /\ toServer[i].id = toServer[j].id => i = j)'
      BY <1>1 DEF HandoverInv, OneUnderWay, Ack
    <3>2. (\A i, j \in DOMAIN toClient :
            Push(toClient[i]) /\ Push(toClient[j]) /\ toClient[i].id = toClient[j].id => i = j)'
      <4>1. \A i, j \in DOMAIN toClient' : i + 1 = j + 1 => i = j
        BY <2>1
      <4> QED  BY <2>1, <4>1 DEF HandoverInv, OneUnderWay, Push
    <3>3. (\A i \in DOMAIN toServer, j \in DOMAIN toClient :
            Ack(toServer[i]) /\ Push(toClient[j]) => toServer[i].id # toClient[j].id)'
      BY <1>1, <2>1 DEF HandoverInv, OneUnderWay, Push, Ack
    <3>4. (Fresh => /\ \A i \in DOMAIN toServer : Ack(toServer[i]) => toServer[i].id # resp.id
                    /\ \A i \in DOMAIN toClient : Push(toClient[i]) => toClient[i].id # resp.id)'
      BY <1>1, <2>1, <2>2 DEF HandoverInv, OneUnderWay, Push, Ack, Fresh
    <3> QED  BY <3>1, <3>2, <3>3, <3>4 DEF OneUnderWay
  <2>4. AllBacked'
    BY <1>1, <2>1, <2>2 DEF HandoverInv, AllBacked, Push, Ack, Fresh, Given, Backed
  <2> QED  BY <1>1, <2>3, <2>4 DEF HandoverInv, HandoverSafe
<1>3. CASE UNCHANGED toClient /\ ~Fresh'
  <2>1. OneUnderWay' /\ AllBacked'
    BY <1>1, <1>3 DEF HandoverInv, OneUnderWay, AllBacked, Ack, Push, Given, Backed
  <2> QED  BY <1>1, <2>1 DEF HandoverInv, HandoverSafe
<1>4. resp' = Stale(receive_buffer) => ~Fresh'
  <2>1. receive_buffer = NoMsg => Stale(receive_buffer) = NoMsg
    BY DEF Stale
  <2>2. receive_buffer # NoMsg => Stale(receive_buffer).id \in {0, TopicByte}
    BY <1>1, StaleFacts DEF TypeOK
  <2>3. 0 \notin Tracked /\ TopicByte \notin Tracked
    BY BrokerIdFacts DEF Tracked
  <2> QED  BY <2>1, <2>2, <2>3 DEF Fresh, Push
<1> QED  BY <1>1, <1>2, <1>3, <1>4 DEF ServerReceive, Fresh

-----------------------------------------------------------------------------
(* HandoverSafe: what a step of the broker does.                           *)

\* A new publication has an identifier of its own.
LEMMA HandoverPublish ==
  ASSUME HandoverInv, NEW q \in 0..2, BrokerPublish(q)
  PROVE  HandoverInv'
<1> DEFINE x == [kind |-> SrvKind[q + 1], n |-> pushes[q] + 1]
<1>1. PICK id :
        /\ IF q = 0 THEN id = 0 ELSE id \in BrokerIds \ {p.id : p \in inflight}
        /\ toClient' = Append(toClient, Msg("PUBLISH", q, id, x))
        /\ inflight' = IF q = 0 THEN inflight ELSE inflight \cup {[id |-> id, ctx |-> x]}
  BY DEF BrokerPublish
<1>2. /\ q # 0 => id \in BrokerIds /\ \A p \in inflight : p.id # id
      /\ q = 0 => id \notin BrokerIds
      /\ id \in 0..255
  <2>1. (q = 0 => id = 0) /\ (q # 0 => id \in BrokerIds /\ \A p \in inflight : p.id # id)
    BY <1>1
  <2> QED  BY <2>1, BrokerIdFacts
<1>3. TypeOK /\ TypeOK' /\ UNCHANGED <<toServer, resp, pc, link, taken, handed>>
  BY BrokerPublishType DEF HandoverInv, BrokerPublish, localVars
<1>4. PICK e \in Messages : e = Msg("PUBLISH", q, id, x)
  BY <1>2, <1>3, SrvContext, MsgType DEF MessageTypes
<1>5. e.type = "PUBLISH" /\ e.id = id /\ e.ctx = x /\ (Push(e) => q # 0)
  BY <1>2, <1>4, MsgFields DEF Push, Tracked
<1> HIDE DEF x
<1>6. /\ DOMAIN toClient' = DOMAIN toClient \cup {Len(toClient) + 1}
      /\ toClient'[Len(toClient) + 1] = e /\ Len(toClient) + 1 \notin DOMAIN toClient
      /\ \A i \in DOMAIN toClient : toClient'[i] = toClient[i]
  <2>1. toClient \in Seq(Messages)
    BY <1>3 DEF TypeOK
  <2> QED  BY <1>1, <1>4, <2>1, AppendFacts
<1>7. inflight \subseteq inflight' /\ (q # 0 => [id |-> id, ctx |-> x] \in inflight')
  BY <1>1
<1>8. Push(e) => /\ \A i \in DOMAIN toServer : Ack(toServer[i]) => toServer[i].id # e.id
                 /\ \A i \in DOMAIN toClient : Push(toClient[i]) => toClient[i].id # e.id
                 /\ Fresh => resp.id # e.id
  <2>1. \A y : Given(y) => \E p \in inflight : p.id = y
    BY DEF Given
  <2>2. \A m : Backed(m) => \E p \in inflight : p.id = m.id
    BY <2>1 DEF Backed
  <2> QED  BY <1>2, <1>5, <2>1, <2>2 DEF HandoverInv, AllBacked
<1>9. OneUnderWay'
  <2>1. (\A i, j \in DOMAIN toServer :
          Ack(toServer[i]) /\ Ack(toServer[j]) /\ toServer[i].id = toServer[j].id => i = j)'
    BY <1>3 DEF HandoverInv, OneUnderWay, Ack
  <2>2. (\A i, j \in DOMAIN toClient :
          Push(toClient[i]) /\ Push(toClient[j]) /\ toClient[i].id = toClient[j].id => i = j)'
    BY <1>6, <1>8 DEF HandoverInv, OneUnderWay, Push
  <2>3. (\A i \in DOMAIN toServer, j \in DOMAIN toClient :
          Ack(toServer[i]) /\ Push(toClient[j]) => toServer[i].id # toClient[j].id)'
    BY <1>3, <1>6, <1>8 DEF HandoverInv, OneUnderWay, Push, Ack
  <2>4. (Fresh => /\ \A i \in DOMAIN toServer : Ack(toServer[i]) => toServer[i].id # resp.id
                  /\ \A i \in DOMAIN toClient : Push(toClient[i]) => toClient[i].id # resp.id)'
    BY <1>3, <1>6, <1>8 DEF HandoverInv, OneUnderWay, Push, Ack, Fresh
  <2> QED  BY <2>1, <2>2, <2>3, <2>4 DEF OneUnderWay
<1>10. AllBacked'
  <2>1. /\ \A y : Given(y) => Given(y)'
        /\ \A m : Backed(m) => Backed(m)'
    BY <1>3, <1>7 DEF Given, Backed
  <2>2. Push(e) => Backed(e)'
    BY <1>5, <1>7 DEF Backed
  <2>3. (\A i \in DOMAIN toServer : Ack(toServer[i]) => Given(toServer[i].id))'
    BY <1>3, <2>1 DEF HandoverInv, AllBacked, Ack
  <2>4. (\A i \in DOMAIN toClient : Push(toClient[i]) => Backed(toClient[i]))'
    BY <1>6, <2>1, <2>2 DEF HandoverInv, AllBacked, Push
  <2>5. (Fresh => Backed(resp))'
    BY <1>3, <2>1 DEF HandoverInv, AllBacked, Fresh, Push
  <2> QED  BY <2>3, <2>4, <2>5 DEF AllBacked
<1>11. \A p, r \in inflight' : p.id = r.id => p = r
  BY <1>1, <1>2 DEF HandoverInv
<1> QED  BY <1>3, <1>9, <1>10, <1>11 DEF HandoverInv, HandoverSafe

\* The broker takes a packet from the client, answers it, and forgets the
\* publication that a PUBACK or PUBCOMP acknowledges.
LEMMA HandoverBrokerReceive == ASSUME HandoverInv, BrokerReceive  PROVE HandoverInv'
<1>1. PICK m \in Messages : /\ m = Head(toServer) /\ m = toServer[1] /\ 1 \in DOMAIN toServer
  <2>1. toServer \in Seq(Messages) /\ toServer # <<>>
    BY DEF HandoverInv, TypeOK, BrokerReceive
  <2> QED  BY <2>1, TailFacts
<1>2. \A i \in DOMAIN toServer' : /\ i + 1 \in DOMAIN toServer /\ toServer'[i] = toServer[i + 1]
                                 /\ i + 1 # 1 /\ i \in Nat
  <2>1. toServer \in Seq(Messages) /\ toServer # <<>> /\ toServer' = Tail(toServer)
    BY DEF HandoverInv, TypeOK, BrokerReceive
  <2> QED  BY <2>1, TailFacts
<1>3. TypeOK /\ TypeOK' /\ UNCHANGED <<resp, pc, handed>> /\ (link' = "up" => link = "up")
  BY BrokerReceiveType DEF HandoverInv, BrokerReceive, localVars
<1> DEFINE done == IF m.type \in {"PUBACK", "PUBCOMP"} THEN {p \in inflight : p.id = m.id} ELSE {}
<1>4. /\ inflight' = inflight \ done /\ taken' = taken \cup done
      /\ \/ UNCHANGED toClient
         \/ \E a \in Answers(m) : toClient' = Append(toClient, a)
  BY <1>1 DEF BrokerReceive
\* Every identifier under way elsewhere is another one.
<1>5. Ack(m) => /\ \A i \in DOMAIN toServer' : Ack(toServer'[i]) => toServer'[i].id # m.id
                /\ \A i \in DOMAIN toClient : Push(toClient[i]) => toClient[i].id # m.id
                /\ Fresh => resp.id # m.id
                /\ Given(m.id)
  BY <1>1, <1>2 DEF HandoverInv, OneUnderWay, AllBacked
<1>6. done # {} /\ m.id # TopicByte => Ack(m)
  BY <1>3 DEF TypeOK, Ack, Tracked
<1>7. /\ \A y \in Tracked : Given(y) /\ (Ack(m) => y # m.id) => Given(y)'
      /\ \A r : r.id \in Tracked /\ Backed(r) /\ (Ack(m) => r.id # m.id) => Backed(r)'
  <2>1. \A p \in inflight : p.id \in Tracked /\ (Ack(m) => p.id # m.id) => p \in inflight'
    BY <1>4 DEF Ack
  <2>2. \A y \in Tracked : Given(y) /\ (Ack(m) => y # m.id) => Given(y)'
    BY <1>3, <2>1 DEF Given
  <2>3. \A r : /\ r.id \in Tracked /\ (Ack(m) => r.id # m.id)
               /\ [id |-> r.id, ctx |-> r.ctx] \in inflight
               => [id |-> r.id, ctx |-> r.ctx] \in inflight'
    BY <2>1
  <2> QED  BY <2>2, <2>3 DEF Backed
\* What is left of toServer.
<1>8. (\A i, j \in DOMAIN toServer :
         Ack(toServer[i]) /\ Ack(toServer[j]) /\ toServer[i].id = toServer[j].id => i = j)'
  <2>1. \A i, j \in DOMAIN toServer' : i + 1 = j + 1 => i = j
    BY <1>2
  <2> QED  BY <1>2, <2>1 DEF HandoverInv, OneUnderWay, Ack
<1>9. \A i \in DOMAIN toServer', j \in DOMAIN toClient :
        Ack(toServer'[i]) /\ Push(toClient[j]) => toServer'[i].id # toClient[j].id
  BY <1>2 DEF HandoverInv, OneUnderWay
<1>10. Fresh' => /\ \A i \in DOMAIN toServer' : Ack(toServer'[i]) => toServer'[i].id # resp.id
                 /\ \A i \in DOMAIN toClient : Push(toClient[i]) => toClient[i].id # resp.id
  BY <1>2, <1>3 DEF HandoverInv, OneUnderWay, Fresh, Push
<1>11. (\A i \in DOMAIN toServer : Ack(toServer[i]) => Given(toServer[i].id))'
  BY <1>2, <1>5, <1>7 DEF HandoverInv, AllBacked, Ack
<1>12. (Fresh => Backed(resp))'
  BY <1>3, <1>5, <1>7 DEF HandoverInv, AllBacked, Fresh, Push
\* What is added to toClient: PUBREL, if it is of interest.
<1>13. OneUnderWay' /\ (\A i \in DOMAIN toClient : Push(toClient[i]) => Backed(toClient[i]))'
  <2>1. CASE UNCHANGED toClient
    <3>1. OneUnderWay'
      BY <1>3, <1>8, <1>9, <1>10, <2>1 DEF HandoverInv, OneUnderWay, Push, Ack
    <3>2. (\A i \in DOMAIN toClient : Push(toClient[i]) => Backed(toClient[i]))'
      BY <1>5, <1>7, <2>1 DEF HandoverInv, AllBacked, Push
    <3> QED  BY <3>1, <3>2
  <2>2. ASSUME NEW a \in Answers(m), toClient' = Append(toClient, a)
        PROVE  OneUnderWay' /\ (\A i \in DOMAIN toClient : Push(toClient[i]) => Backed(toClient[i]))'
    <3>1. a \in Messages /\ (Push(a) => m.type = "PUBREC" /\ a.type = "PUBREL" /\ a.id = m.id)
      <4>1. /\ a \in Messages
            /\ a.type # "CONNACK" => a.id = IF m.type = "PINGREQ" THEN 0 ELSE m.id
            /\ \/ a.type \notin {"PUBLISH", "PUBREL"}
               \/ m.type = "PUBREC" /\ a.type = "PUBREL"
        BY <2>2, AnswersFacts
      <4> QED  BY <4>1 DEF Push
    <3>2. Push(a) => Ack(m) /\ done = {}
      BY <3>1 DEF Push, Ack
    <3>3. /\ DOMAIN toClient' = DOMAIN toClient \cup {Len(toClient) + 1}
          /\ toClient'[Len(toClient) + 1] = a /\ Len(toClient) + 1 \notin DOMAIN toClient
          /\ \A i \in DOMAIN toClient : toClient'[i] = toClient[i]
      <4>1. toClient \in Seq(Messages)
        BY <1>3 DEF TypeOK
      <4> QED  BY <2>2, <3>1, <4>1, AppendFacts
    <3>4. (\A i, j \in DOMAIN toClient :
            Push(toClient[i]) /\ Push(toClient[j]) /\ toClient[i].id = toClient[j].id => i = j)'
      BY <1>5, <3>1, <3>2, <3>3 DEF HandoverInv, OneUnderWay, Push
    <3>5. (\A i \in DOMAIN toServer, j \in DOMAIN toClient :
            Ack(toServer[i]) /\ Push(toClient[j]) => toServer[i].id # toClient[j].id)'
      BY <1>5, <1>9, <3>1, <3>2, <3>3 DEF Push, Ack
    <3>6. (Fresh => /\ \A i \in DOMAIN toServer : Ack(toServer[i]) => toServer[i].id # resp.id
                    /\ \A i \in DOMAIN toClient : Push(toClient[i]) => toClient[i].id # resp.id)'
      BY <1>3, <1>5, <1>10, <3>1, <3>2, <3>3 DEF Push, Ack, Fresh
    <3>7. OneUnderWay'
      BY <1>8, <3>4, <3>5, <3>6 DEF OneUnderWay
    <3>8. Push(a) => Backed(a)'
      <4>1. SUFFICES ASSUME Push(a)  PROVE Backed(a)'
        OBVIOUS
      <4>2. Given(a.id) /\ UNCHANGED <<inflight, handed>>
        BY <1>3, <1>4, <1>5, <3>1, <3>2, <4>1
      <4> QED  BY <3>1, <4>1, <4>2 DEF Backed, Given
    <3>9. (\A i \in DOMAIN toClient : Push(toClient[i]) => Backed(toClient[i]))'
      BY <1>4, <1>5, <1>7, <3>2, <3>3, <3>8 DEF HandoverInv, AllBacked, Push
    <3> QED  BY <3>7, <3>9
  <2> QED  BY <1>4, <2>1, <2>2
<1>14. HandoverSafe'
  <2>1. \A p \in done : p.id # TopicByte => p.ctx \in ToSet(handed)
    BY <1>5, <1>6 DEF HandoverInv, Given
  <2> QED  BY <1>3, <1>4, <2>1 DEF HandoverInv, HandoverSafe
<1>15. \A p, q \in inflight' : p.id = q.id => p = q
  BY <1>4 DEF HandoverInv
<1> QED  BY <1>3, <1>11, <1>12, <1>13, <1>14, <1>15 DEF HandoverInv, AllBacked

LEMMA HandoverStep == HandoverInv /\ [Next]_vars => HandoverInv'
<1> SUFFICES ASSUME HandoverInv, [Next]_vars  PROVE HandoverInv'
  OBVIOUS
<1>1. CASE AppStep \/ BrokerClose
  BY <1>1, HandoverConnect, HandoverRequest, HandoverReply, HandoverOtherCalls,
     HandoverNextPublish, HandoverNextPubrel, HandoverReceive
  DEF AppStep, CallStep
<1>2. CASE BrokerReceive \/ \E q \in 0..2 : BrokerPublish(q)
  BY <1>2, HandoverBrokerReceive, HandoverPublish
<1>3. CASE UNCHANGED vars
  BY <1>3, TypeStep
  DEF vars, localVars, netVars, historyVars, HandoverInv, OneUnderWay, AllBacked, HandoverSafe,
      Ack, Push, Fresh, Given, Backed
<1> QED  BY <1>1, <1>2, <1>3 DEF Next, BrokerStep

LEMMA HandoverInit == Init => HandoverInv
  BY TypeInit DEF Init, HandoverInv, OneUnderWay, AllBacked, HandoverSafe, Fresh

\* HandoverSafe for any number of publications and whatever fails: the broker
\* forgets a publication only when smqtt_get_next_message has copied it for the
\* application, unless its identifier is the first byte of a topic, under which
\* the old PUBLISH in receive_buffer is acknowledged after a timeout.
THEOREM ForgottenMeansHanded == Spec => []HandoverSafe
<1>1. HandoverInv => HandoverSafe
  BY DEF HandoverInv
<1> QED  BY <1>1, HandoverInit, HandoverStep, PTL DEF Spec

-----------------------------------------------------------------------------
(* HealthyCallsSucceed: counters, and calls that return.                   *)

LEMMA SmallInside == ASSUME SmallCounters, Inside  PROVE SmallCounters'
  BY DEF SmallCounters, Inside, counters

LEMMA SmallConnect == ASSUME TypeOK, SmallCounters, Connect  PROVE SmallCounters'
<1>1. calls["connect"] \in Nat /\ MaxCalls["connect"] \in Nat
  BY BoundAssumption DEF TypeOK, Kinds
<1>2. /\ calls'["connect"] = calls["connect"] + 1
      /\ \A j \in Kinds \ {"connect"} : calls'[j] = calls[j]
  BY DEF Connect, TypeOK, Kinds
<1>3. \A k \in Kinds : calls'[k] <= MaxCalls[k]
  BY <1>1, <1>2 DEF SmallCounters, Connect
<1>4. calls'["pub1"] = calls["pub1"] /\ calls'["pub2"] = calls["pub2"] /\ calls'["sub"] = calls["sub"]
  BY <1>2 DEF Kinds, Requests
<1> QED  BY <1>3, <1>4 DEF SmallCounters, Connect

LEMMA SmallBegin ==
  ASSUME TypeOK, SmallCounters, NEW k \in {"next", "disconnect", "drop"}, Begin(k), UNCHANGED counters
  PROVE  SmallCounters'
<1>1. k \in Kinds /\ {"pub1", "pub2", "sub"} \subseteq Kinds \ {k}
  BY DEF Kinds, Requests
<1>2. /\ calls'[k] = calls[k] + 1 /\ calls'[k] <= MaxCalls[k] /\ calls'[k] > 0
      /\ \A j \in Kinds \ {k} : calls'[j] = calls[j]
  BY <1>1, BeginCalls
<1>3. \A j \in Kinds : calls'[j] <= MaxCalls[j]
  BY <1>2 DEF SmallCounters
<1> QED  BY <1>1, <1>2, <1>3 DEF SmallCounters, counters

LEMMA SmallRequest ==
  ASSUME SmallIds, TypeOK, SmallCounters, NEW k \in Requests, Begin(k), BumpCounter(k)
  PROVE  SmallCounters' /\ publish_packet_id' \in 0..255 /\ subscribe_packet_id' \in 0..255
<1>1. k \in Kinds /\ {"pub1", "pub2", "sub"} \subseteq Kinds
  BY DEF Kinds, Requests
<1>2. /\ calls'[k] = calls[k] + 1 /\ calls'[k] <= MaxCalls[k] /\ calls'[k] > 0
      /\ \A j \in Kinds \ {k} : calls'[j] = calls[j]
  BY <1>1, BeginCalls
<1>3. \A j \in Kinds : calls'[j] <= MaxCalls[j]
  BY <1>2 DEF SmallCounters
<1>4. \A j \in {"pub1", "pub2", "sub"} : /\ calls[j] \in Nat /\ calls'[j] \in Nat
                                        /\ MaxCalls[j] \in Nat /\ calls'[j] <= MaxCalls[j]
  <2>1. calls \in [Kinds -> Nat] /\ MaxCalls \in [Kinds -> Nat]
    BY BoundAssumption DEF TypeOK
  <2>2. \A j \in Kinds : calls[j] \in Nat /\ MaxCalls[j] \in Nat
    BY <2>1
  <2>3. \A j \in Kinds : calls'[j] \in Nat
    BY <1>2, <2>2
  <2> QED  BY <1>1, <1>3, <2>2, <2>3
<1>5. publish_packet_id < 255 + 1 /\ subscribe_packet_id < 255 + 1
  <2>1. calls["pub1"] <= MaxCalls["pub1"] /\ calls["pub2"] <= MaxCalls["pub2"]
        /\ calls["sub"] <= MaxCalls["sub"]
    BY <1>1 DEF SmallCounters
  <2> QED  BY <1>4, <2>1 DEF SmallIds, SmallCounters
<1>6. publish_packet_id \in Nat /\ subscribe_packet_id \in Nat
  BY CounterNat
<1>7. \A id \in Nat : id < 255 + 1 => Bump(id) = id + 1
  BY DEF Bump, MaxId
<1>8. publish_packet_id' = calls'["pub1"] + calls'["pub2"]
  BY <1>1, <1>2, <1>4, <1>5, <1>6, <1>7 DEF SmallCounters, BumpCounter
<1>9. subscribe_packet_id' = calls'["sub"] + 1
  BY <1>1, <1>2, <1>4, <1>5, <1>6, <1>7 DEF SmallCounters, BumpCounter
<1> QED  BY <1>3, <1>4, <1>8, <1>9 DEF SmallCounters, SmallIds

LEMMA HealthySame ==
  ASSUME HealthyCallsSucceed, Healthy' => Healthy, UNCHANGED returned
  PROVE  HealthyCallsSucceed'
  BY DEF HealthyCallsSucceed

LEMMA HealthyReturn ==
  ASSUME HealthyCallsSucceed, Healthy' => Healthy, NEW status, Return(status),
         Healthy' /\ call'.kind \in Requests \ {"unsub"} => status = "OK"
  PROVE  HealthyCallsSucceed'
<1> DEFINE r == [call |-> call', status |-> status]
<1>1. returned' = returned \cup {r} /\ r.call = call' /\ r.status = status
  BY DEF Return
<1> HIDE DEF r
<1> QED  BY <1>1 DEF HealthyCallsSucceed

\* Only smqtt_connect brings the connection up.
LEMMA HealthyBack ==
  ASSUME TypeOK, [Next]_vars, ~Connect, Healthy'
  PROVE  Healthy
<1>1. CASE \E k \in Requests : Request(k)
  BY <1>1 DEF Request, SendOk, SendFails, SendDies, Healthy
<1>2. CASE GetNextMessage \/ Disconnect \/ Drop
  BY <1>2 DEF GetNextMessage, Disconnect, Drop, SendOk, SendFails, SendDies, netVars, Healthy
<1>3. CASE ServerReceive \/ OnConnack
  BY <1>3 DEF ServerReceive, OnConnack, historyVars, Healthy
<1>4. CASE OnReply
  BY <1>4 DEF OnReply, SendOk, SendFails, SendDies, Healthy
<1>5. CASE OnNextPublish
  BY <1>5 DEF OnNextPublish, SendOk, SendFails, SendDies, Healthy
<1>6. CASE OnNextPubrel
  BY <1>6 DEF OnNextPubrel, SendOk, SendFails, SendDies, Healthy
<1>7. CASE BrokerReceive \/ BrokerClose \/ UNCHANGED vars
  BY <1>7 DEF BrokerReceive, BrokerClose, vars, netVars, historyVars, Healthy
<1>8. ASSUME NEW q \in 0..2, BrokerPublish(q)  PROVE FALSE
  <2>1. pushes[q] \in Nat /\ pushes'[q] = pushes[q] + 1
    BY <1>8 DEF BrokerPublish, TypeOK
  <2> QED  BY <2>1 DEF Healthy
<1> QED  BY <1>1, <1>2, <1>3, <1>4, <1>5, <1>6, <1>7, <1>8
         DEF Next, AppStep, CallStep, BrokerStep

-----------------------------------------------------------------------------
(* HealthyCallsSucceed: lockstep.                                          *)

\* What the broker answers to a request.
LEMMA Asking ==
  ASSUME NEW m
  PROVE  /\ m.type = "PINGREQ" => Answers(m) = {Msg("PINGRESP", 0, 0, m.ctx)}
         /\ m.type = "SUBSCRIBE" => Answers(m) = {Msg("SUBACK", 0, m.id, m.ctx)}
         /\ m.type = "UNSUBSCRIBE" => Answers(m) = {Msg("UNSUBACK", 0, m.id, m.ctx)}
         /\ m.type = "PUBLISH" /\ m.qos = 1 => Answers(m) = {Msg("PUBACK", 0, m.id, m.ctx)}
         /\ m.type = "PUBLISH" /\ m.qos = 2 => Answers(m) = {Msg("PUBREC", 0, m.id, m.ctx)}
         /\ m.type = "PUBREL" => Answers(m) = {Msg("PUBCOMP", 0, m.id, m.ctx)}
         /\ m.type = "PUBLISH" /\ m.qos = 0 => Answers(m) = {}
         /\ m.type = "DISCONNECT" => Answers(m) = {}
  BY DEF Answers

\* A call that waits has asked for the reply that it waits for.
LEMMA RequestAsks ==
  ASSUME SmallIds, TypeOK, SmallCounters, NEW k \in Requests, Begin(k), BumpCounter(k),
         NEW e, e = Msg(RequestType(k), Qos(k), Wire(IdOf(k)'), call')
  PROVE  IF k = "pub0" THEN Silent(e) ELSE Asks(e)'
<1>1. call'.kind = k /\ stage' = 1
  BY DEF Begin
<1>2. publish_packet_id' \in 0..255 /\ subscribe_packet_id' \in 0..255
  BY SmallRequest
<1>3. e.type = RequestType(k) /\ e.qos = Qos(k) /\ e.id = Wire(IdOf(k)')
  BY MsgFields
<1>4. CASE k = "pub0"
  <2>1. e.type = "PUBLISH" /\ e.qos = 0
    BY <1>3, <1>4 DEF RequestType, Qos
  <2> QED  BY <1>4, <2>1, Asking DEF Silent
<1>5. CASE k = "ping"
  <2>1. Answers(e) = {Msg("PINGRESP", 0, 0, e.ctx)}
    BY <1>3, <1>5, Asking DEF RequestType
  <2> QED  BY <1>1, <1>5, <2>1, MsgFields DEF Asks, Silent, Expected, ReplyTo
<1>6. CASE k = "unsub"
  <2>1. Answers(e) = {Msg("UNSUBACK", 0, e.id, e.ctx)}
    BY <1>3, <1>6, Asking DEF RequestType
  <2> QED  BY <1>1, <1>6, <2>1, MsgFields DEF Asks, Silent, Expected, ReplyTo
<1>7. CASE k = "sub"
  <2>1. Answers(e) = {Msg("SUBACK", 0, e.id, e.ctx)}
    BY <1>3, <1>7, Asking DEF RequestType
  <2>2. e.id = subscribe_packet_id' /\ IdOf(call.kind)' = subscribe_packet_id'
    BY <1>1, <1>2, <1>3, <1>7, WireFacts DEF IdOf
  <2> QED  BY <1>1, <1>7, <2>1, <2>2, MsgFields DEF Asks, Silent, Expected, ReplyTo
<1>8. CASE k \in {"pub1", "pub2"}
  <2>1. Answers(e) = {Msg(IF k = "pub1" THEN "PUBACK" ELSE "PUBREC", 0, e.id, e.ctx)}
    BY <1>3, <1>8, Asking DEF RequestType, Qos
  <2>2. e.id = publish_packet_id' /\ IdOf(call.kind)' = publish_packet_id'
    BY <1>1, <1>2, <1>3, <1>8, WireFacts DEF IdOf
  <2> QED  BY <1>1, <1>8, <2>1, <2>2, MsgFields DEF Asks, Silent, Expected, ReplyTo
<1> QED  BY <1>4, <1>5, <1>6, <1>7, <1>8 DEF Requests

\* Something is sent while nothing is under way.
LEMMA QuiescentSend ==
  ASSUME TypeOK, Quiescent, NEW e \in Messages, toServer' = Append(toServer, e), UNCHANGED toClient
  PROVE  /\ Silent(e) => Quiescent'
         /\ Asks(e)' => Asked'
<1>1. toServer \in Seq(Messages)
  BY DEF TypeOK
<1>2. /\ DOMAIN toServer' = DOMAIN toServer \cup {Len(toServer) + 1}
      /\ toServer'[Len(toServer) + 1] = e /\ Len(toServer) + 1 \notin DOMAIN toServer
      /\ \A i \in DOMAIN toServer : toServer'[i] = toServer[i]
  BY <1>1, AppendFacts
<1>3. toServer' # <<>> /\ Len(toServer') = Len(toServer) + 1
  BY <1>1
<1>4. Silent(e) => Quiescent'
  BY <1>2 DEF Quiescent, Silent
<1>5. toServer'[Len(toServer')] = e /\ \A i \in DOMAIN toServer' : i # Len(toServer') => Silent(toServer'[i])
  BY <1>2, <1>3 DEF Quiescent
<1>6. Asks(e)' => Asks(toServer[Len(toServer)])'
  BY <1>5 DEF Asks, Silent, Expected
<1> QED  BY <1>3, <1>4, <1>5, <1>6 DEF Asked, Quiescent, Silent

LEMMA HealthyFromParts ==
  ASSUME TypeOK', SmallCounters', HealthyCallsSucceed', pc' # "start",
         Healthy' => Lockstep' /\ NoPublication' /\ CallOK'
  PROVE  HealthyInv'
  BY DEF HealthyInv

\* A call returns, or ends, with nothing under way, or the thread is gone.
LEMMA LockstepRests ==
  ASSUME Lockstep, NoPublication, pc' \notin {"start", "receive", "parse"}, Quiescent',
         UNCHANGED <<receive_buffer, resp>>
  PROVE  Lockstep' /\ NoPublication' /\ CallOK'
<1>1. Lockstep' /\ CallOK'
  BY DEF Lockstep, CallOK
<1>2. NoPublication'
  BY DEF NoPublication, Quiescent
<1> QED  BY <1>1, <1>2

LEMMA HealthyConnect == ASSUME HealthyInv, Connect  PROVE HealthyInv'
<1>1. TypeOK /\ TypeOK' /\ SmallCounters' /\ pc = "start" /\ pc' # "start" /\ UNCHANGED returned
  BY ConnectType, SmallConnect DEF HealthyInv, Connect
<1>2. HealthyCallsSucceed'
  BY <1>1 DEF HealthyInv, HealthyCallsSucceed
<1>3. ASSUME Healthy'  PROVE Lockstep' /\ NoPublication' /\ CallOK'
  <2>1. /\ toServer' = <<Msg("CONNECT", 0, 0, call')>> /\ pc' = "receive" /\ call'.kind = "connect"
        /\ toClient' = <<>> /\ receive_buffer' = NoMsg /\ resp' = NoMsg
    BY <1>1, <1>3 DEF HealthyInv, Connect, Healthy
  <2>2. PICK e : e = Msg("CONNECT", 0, 0, call')
    OBVIOUS
  <2>3. \A a \in Answers(e) : a.type = "CONNACK"
    BY <2>2, MsgFields DEF Answers
  <2>4. Quiescent' \/ Asked'
    <3>1. CASE Silent(e)
      BY <2>1, <2>2, <3>1 DEF Quiescent, Silent
    <3>2. CASE ~Silent(e)
      <4>1. Asks(e)'
        BY <2>1, <2>3, <3>2 DEF Asks, Expected, Silent
      <4>2. Len(toServer') = 1 /\ toServer'[1] = e /\ DOMAIN toServer' = {1} /\ toServer' # <<>>
        BY <2>1, <2>2
      <4> QED  BY <2>1, <4>1, <4>2 DEF Asked, Asks, Silent, Expected
    <3> QED  BY <3>1, <3>2
  <2>5. Lockstep'
    BY <2>1, <2>4 DEF Lockstep, Requests
  <2>6. NoPublication' /\ CallOK'
    BY <2>1 DEF NoPublication, CallOK
  <2> QED  BY <2>5, <2>6
<1> QED  BY <1>1, <1>2, <1>3, HealthyFromParts

LEMMA HealthyRequest ==
  ASSUME SmallIds, HealthyInv, NEW k \in Requests, Request(k)
  PROVE  HealthyInv'
<1>1. /\ TypeOK /\ TypeOK' /\ SmallCounters /\ Begin(k) /\ BumpCounter(k)
      /\ pc = "idle" /\ call'.kind = k
  BY RequestTypeOK DEF HealthyInv, Request, Begin
<1>2. SmallCounters' /\ pc' # "start"
  BY <1>1, SmallRequest DEF Request, Return, Await, Die
<1>3. Healthy' => Healthy
  <2>1. ~Connect
    BY <1>1 DEF Connect
  <2> QED  BY <1>1, <2>1, HealthyBack DEF Next, AppStep
<1>4. ASSUME Healthy'
      PROVE  /\ toServer' = Append(toServer, Msg(RequestType(k), Qos(k), Wire(IdOf(k)'), call'))
             /\ IF k = "pub0" THEN Return("OK") ELSE Await
  BY <1>4 DEF Request, Healthy, SendOk, SendFails, SendDies, FireAndForget
<1>5. HealthyCallsSucceed'
  <2>1. CASE Healthy'
    BY <1>1, <1>3, <1>4, <2>1, HealthySame, HealthyReturn DEF HealthyInv, Await
  <2>2. CASE ~Healthy'
    BY <2>2 DEF HealthyCallsSucceed
  <2> QED  BY <2>1, <2>2
<1>6. ASSUME Healthy'  PROVE Lockstep' /\ NoPublication' /\ CallOK'
  <2>1. PICK e \in Messages : e = Msg(RequestType(k), Qos(k), Wire(IdOf(k)'), call')
    BY <1>1, RequestFacts, BeginType, ExchangeKinds
  <2>2. /\ Quiescent /\ Lockstep /\ NoPublication /\ UNCHANGED <<toClient, receive_buffer, resp>>
        /\ toServer' = Append(toServer, e)
    BY <1>1, <1>3, <1>4, <1>6, <2>1 DEF HealthyInv, Lockstep, Request
  <2>3. IF k = "pub0" THEN Silent(e) ELSE Asks(e)'
    BY <1>1, <2>1, RequestAsks
  <2>4. CASE k = "pub0"
    <3>1. Quiescent' /\ pc' = "idle"
      BY <1>1, <1>4, <1>6, <2>2, <2>3, <2>4, QuiescentSend DEF Return
    <3> QED  BY <2>2, <3>1, LockstepRests
  <2>5. CASE k # "pub0"
    <3>1. Asked' /\ pc' = "receive"
      BY <1>1, <1>4, <1>6, <2>2, <2>3, <2>5, QuiescentSend DEF Await
    <3>2. Lockstep' /\ CallOK'
      BY <1>1, <2>5, <3>1 DEF Lockstep, CallOK, Requests
    <3>3. NoPublication'
      BY <2>2 DEF NoPublication
    <3> QED  BY <3>2, <3>3
  <2> QED  BY <2>4, <2>5
<1> QED  BY <1>1, <1>2, <1>5, <1>6, HealthyFromParts

LEMMA HealthyReceive == ASSUME HealthyInv, ServerReceive  PROVE HealthyInv'
<1>1. /\ TypeOK /\ TypeOK' /\ SmallCounters' /\ pc = "receive" /\ pc' # "start"
      /\ UNCHANGED <<returned, counters, call, stage, toServer, link, prompt>>
  BY ReceiveType, InsideSteps, SmallInside DEF HealthyInv, ServerReceive, historyVars
<1>2. Healthy' => Healthy
  BY DEF ServerReceive, Healthy, historyVars
<1>3. HealthyCallsSucceed'
  BY <1>1, <1>2, HealthySame DEF HealthyInv
<1>4. ASSUME Healthy'  PROVE Lockstep' /\ NoPublication' /\ CallOK'
  <2>1. Lockstep /\ NoPublication /\ CallOK /\ link = "up" /\ prompt
    BY <1>2, <1>4 DEF HealthyInv, Healthy
  <2>2. pc' = "parse" /\ CallOK'
    BY <1>1, <2>1 DEF ServerReceive, CallOK
  \* The timeout of the socket: no reply is outstanding.
  <2>3. CASE toClient = <<>>
    <3>1. toServer = <<>> /\ resp' = Stale(receive_buffer) /\ UNCHANGED <<receive_buffer, toClient>>
      BY <2>1, <2>3 DEF ServerReceive, Quiet
    <3>2. Quiescent' /\ call.kind \notin Requests
      <4>1. ~Asked
        BY <3>1 DEF Asked
      <4>2. ~Told
        BY <2>3 DEF Told
      <4>3. call.kind \notin Requests
        BY <1>1, <2>1, <4>1, <4>2 DEF Lockstep
      <4> QED  BY <1>1, <2>3, <3>1, <4>3 DEF Quiescent
    <3>3. resp' # NoMsg => resp'.type # "PUBLISH"
      <4>1. receive_buffer = NoMsg => Stale(receive_buffer) = NoMsg
        BY DEF Stale
      <4>2. receive_buffer # NoMsg => Stale(receive_buffer).type = receive_buffer.type
        BY <1>1, StaleFacts DEF TypeOK
      <4> QED  BY <2>1, <3>1, <4>1, <4>2 DEF NoPublication
    <3>4. NoPublication'
      BY <2>1, <3>1, <3>3 DEF NoPublication
    <3> QED  BY <1>1, <2>2, <3>2, <3>4 DEF Lockstep
  \* A packet: it is the reply.
  <2>4. CASE toClient # <<>>
    <3>1. resp' = toClient[1] /\ receive_buffer' = resp' /\ toClient' = Tail(toClient)
      <4>1. Head(toClient) \in Messages /\ Head(toClient) = toClient[1]
        BY <1>1, <2>4, TailFacts DEF TypeOK
      <4>2. resp' = [Head(toClient) EXCEPT !.id = Wire(@)] /\ receive_buffer' = resp' /\ toClient' = Tail(toClient)
        BY <2>1, <2>4 DEF ServerReceive, Quiet
      <4> QED  BY <4>1, <4>2, ReceivedAsSent
    <3>2. ~Quiescent /\ ~Asked
      BY <2>4 DEF Quiescent, Asked
    <3>3. Told
      BY <1>1, <2>1, <2>2, <3>2 DEF Lockstep, CallOK
    <3>4. toClient' = <<>> /\ 1 \in DOMAIN toClient
      <4>1. toClient \in Seq(Messages) /\ Len(toClient) = 1
        BY <1>1, <3>3 DEF TypeOK, Told
      <4> QED  BY <3>1, <4>1
    <3>5. Quiescent'
      BY <1>1, <3>3, <3>4 DEF Quiescent, Told, Silent
    <3>6. Expected(resp)'
      BY <1>1, <3>1, <3>3 DEF Told, Expected, ReplyTo, IdOf, counters
    <3>7. NoPublication'
      BY <2>1, <3>1, <3>4 DEF NoPublication
    <3>8. Lockstep'
      <4>1. resp' # NoMsg
        BY <1>1, <3>1, <3>4, NoMsgAssumption DEF TypeOK
      <4> QED  BY <1>1, <2>2, <3>5, <3>6, <4>1 DEF Lockstep
    <3> QED  BY <2>2, <3>7, <3>8
  <2> QED  BY <2>3, <2>4
<1> QED  BY <1>1, <1>3, <1>4, HealthyFromParts

LEMMA HealthyConnack == ASSUME HealthyInv, OnConnack  PROVE HealthyInv'
<1>1. /\ TypeOK /\ TypeOK' /\ SmallCounters' /\ pc = "parse" /\ pc' \in {"none", "idle"}
      /\ UNCHANGED <<call, toServer, toClient, receive_buffer, resp>> /\ call.kind = "connect"
  BY JudgeType, InsideSteps, SmallInside DEF HealthyInv, OnConnack, Return
<1>2. Healthy' => Healthy
  BY DEF OnConnack, Healthy
<1>3. HealthyCallsSucceed'
  <2>1. UNCHANGED returned \/ Return("OK")
    BY DEF OnConnack
  <2> QED  BY <1>2, <2>1, HealthySame, HealthyReturn DEF HealthyInv
<1>4. ASSUME Healthy'  PROVE Lockstep' /\ NoPublication' /\ CallOK'
  <2>1. Lockstep /\ NoPublication /\ Quiescent
    BY <1>1, <1>2, <1>4 DEF HealthyInv, Lockstep
  <2>2. Quiescent'
    BY <1>1, <2>1 DEF Quiescent, Silent
  <2> QED  BY <1>1, <2>1, <2>2, LockstepRests
<1> QED  BY <1>1, <1>3, <1>4, HealthyFromParts

LEMMA HealthyReply == ASSUME SmallIds, HealthyInv, OnReply  PROVE HealthyInv'
<1>1. /\ TypeOK /\ TypeOK' /\ SmallCounters /\ SmallCounters' /\ pc = "parse"
      /\ pc' \in {"idle", "receive", "crashed"} /\ call.kind \in Requests
      /\ UNCHANGED <<counters, call, toClient, receive_buffer, resp>>
  BY JudgeType, InsideSteps, SmallInside DEF HealthyInv, OnReply, Return, Await, Die
<1>2. Healthy' => Healthy
  BY DEF OnReply, SendOk, SendFails, SendDies, Healthy
<1> DEFINE halfway == call.kind = "pub2" /\ stage = 1
<1>3. ASSUME Healthy'
      PROVE  /\ Lockstep /\ NoPublication /\ CallOK /\ Quiescent /\ resp # NoMsg
             /\ call.kind # "unsub" => Matches
  <2>1. Lockstep /\ NoPublication /\ CallOK /\ Quiescent /\ resp # NoMsg /\ Expected(resp)
    BY <1>1, <1>2, <1>3 DEF HealthyInv, Lockstep
  <2>2. call.kind \in {"ping", "pub1", "pub2", "sub", "unsub"}
    BY <1>1, <2>1 DEF CallOK, Requests
  <2> QED  BY <2>1, <2>2 DEF Expected, Matches
<1>4. HealthyCallsSucceed'
  <2>1. CASE ~Healthy'
    BY <2>1 DEF HealthyCallsSucceed
  <2>2. CASE Healthy' /\ call.kind = "unsub"
    <3>1. UNCHANGED returned \/ \E status : Return(status)
      BY DEF OnReply, Await, Die
    <3> QED  BY <1>1, <1>2, <2>2, <3>1, HealthySame, HealthyReturn DEF HealthyInv
  <2>3. CASE Healthy' /\ call.kind # "unsub"
    <3>1. Matches /\ resp # NoMsg
      BY <1>3, <2>3
    <3>2. UNCHANGED returned \/ Return("OK")
      BY <2>3, <3>1 DEF OnReply, Await, Die, SendFails, Healthy
    <3> QED  BY <1>2, <3>2, HealthySame, HealthyReturn DEF HealthyInv
  <2> QED  BY <2>1, <2>2, <2>3
<1>5. ASSUME Healthy'  PROVE Lockstep' /\ NoPublication' /\ CallOK'
  <2>1. CASE ~(Matches /\ halfway)
    <3>1. pc' = "idle" /\ UNCHANGED toServer
      BY <2>1 DEF OnReply, Return
    <3>2. Quiescent'
      BY <1>1, <1>3, <1>5, <3>1 DEF Quiescent, Silent
    <3> QED  BY <1>1, <1>3, <1>5, <3>1, <3>2, LockstepRests
  <2>2. CASE Matches /\ halfway
    <3>1. /\ toServer' = Append(toServer, Msg("PUBREL", 0, Wire(publish_packet_id), call))
          /\ stage' = 2 /\ pc' = "receive"
      BY <1>3, <1>5, <2>2 DEF OnReply, Await, SendOk, SendFails, SendDies, Healthy, Matches
    <3>2. publish_packet_id \in 0..255 /\ Wire(publish_packet_id) = publish_packet_id
      <4>1. publish_packet_id \in Nat
        BY <1>1, CounterNat
      <4>2. /\ calls["pub1"] \in Nat /\ calls["pub2"] \in Nat
            /\ MaxCalls["pub1"] \in Nat /\ MaxCalls["pub2"] \in Nat
            /\ calls["pub1"] <= MaxCalls["pub1"] /\ calls["pub2"] <= MaxCalls["pub2"]
        <5>1. calls \in [Kinds -> Nat] /\ MaxCalls \in [Kinds -> Nat] /\ {"pub1", "pub2"} \subseteq Kinds
          BY <1>1, BoundAssumption DEF TypeOK, Kinds, Requests
        <5> QED  BY <1>1, <5>1 DEF SmallCounters
      <4>3. publish_packet_id <= 255
        BY <1>1, <4>1, <4>2 DEF SmallCounters, SmallIds
      <4> QED  BY <4>1, <4>3, WireFacts
    <3>3. PICK e \in Messages : e = Msg("PUBREL", 0, publish_packet_id, call)
      <4>1. call \in Contexts
        BY <1>1 DEF TypeOK, Contexts
      <4>2. Msg("PUBREL", 0, publish_packet_id, call) \in Messages
        BY <3>2, <4>1 DEF Msg, Messages, MessageTypes
      <4> QED  BY <4>2
    <3>4. Asks(e)'
      <4>1. e.type = "PUBREL" /\ e.id = publish_packet_id
        BY <3>3, MsgFields
      <4>2. Answers(e) = {Msg("PUBCOMP", 0, e.id, e.ctx)}
        BY <4>1, Asking
      <4>3. e.id = IdOf(call.kind)' /\ call'.kind = "pub2"
        BY <1>1, <2>2, <4>1 DEF IdOf, counters
      <4> QED  BY <3>1, <4>2, <4>3, MsgFields DEF Asks, Silent, Expected, ReplyTo
    <3>5. Asked'
      BY <1>1, <1>3, <1>5, <3>1, <3>2, <3>3, <3>4, QuiescentSend
    <3>6. Lockstep' /\ CallOK'
      BY <1>1, <2>2, <3>1, <3>5 DEF Lockstep, CallOK, Requests
    <3>7. NoPublication'
      BY <1>1, <1>3, <1>5 DEF NoPublication
    <3> QED  BY <3>6, <3>7
  <2> QED  BY <2>1, <2>2
<1> QED  BY <1>1, <1>4, <1>5, HealthyFromParts

\* There is no publication to acknowledge.
LEMMA HealthyNext ==
  ASSUME HealthyInv, OnNextPublish \/ OnNextPubrel
  PROVE  HealthyInv'
<1>1. /\ TypeOK /\ TypeOK' /\ SmallCounters' /\ pc = "parse" /\ pc' # "start"
      /\ UNCHANGED <<call, toClient, receive_buffer, resp>> /\ call.kind = "next"
  <2>1. TypeOK /\ TypeOK' /\ SmallCounters'
    BY JudgeType, InsideSteps, SmallInside DEF HealthyInv
  <2>2. CASE OnNextPublish
    BY <2>1, <2>2 DEF OnNextPublish, Return, Await, Die
  <2>3. CASE OnNextPubrel
    BY <2>1, <2>3 DEF OnNextPubrel, Return, Await, Die
  <2> QED  BY <2>2, <2>3
<1>2. Healthy' => Healthy
  <2>1. ~Connect
    BY <1>1 DEF Connect
  <2> QED  BY <1>1, <2>1, HealthyBack DEF Next, AppStep, CallStep
<1>3. HealthyCallsSucceed'
  <2>1. UNCHANGED returned \/ \E status : Return(status)
    BY DEF OnNextPublish, OnNextPubrel, Await, Die
  <2>2. call'.kind \notin Requests
    BY <1>1 DEF Requests
  <2> QED  BY <1>2, <2>1, <2>2, HealthySame, HealthyReturn DEF HealthyInv
<1>4. ASSUME Healthy'  PROVE Lockstep' /\ NoPublication' /\ CallOK'
  <2>1. Lockstep /\ NoPublication /\ CallOK /\ Quiescent
    BY <1>1, <1>2, <1>4 DEF HealthyInv, Lockstep
  <2>2. stage = 1 /\ (resp = NoMsg \/ resp.type # "PUBLISH")
    BY <1>1, <2>1 DEF CallOK, NoPublication
  <2>3. pc' = "idle" /\ UNCHANGED toServer
    BY <2>2 DEF OnNextPublish, OnNextPubrel, Return
  <2>4. Quiescent'
    BY <1>1, <2>1, <2>3 DEF Quiescent, Silent
  <2> QED  BY <1>1, <2>1, <2>3, <2>4, LockstepRests
<1> QED  BY <1>1, <1>3, <1>4, HealthyFromParts

LEMMA HealthyOtherCalls ==
  ASSUME HealthyInv, GetNextMessage \/ Disconnect \/ Drop
  PROVE  HealthyInv'
<1>1. PICK k \in {"next", "disconnect", "drop"} : Begin(k)
  BY DEF GetNextMessage, Disconnect, Drop
<1>2. /\ TypeOK /\ SmallCounters /\ UNCHANGED <<counters, returned, toClient, receive_buffer, resp>>
      /\ pc = "idle" /\ pc' \in {"receive", "gone", "crashed"} /\ stage' = 1
  BY <1>1 DEF GetNextMessage, Disconnect, Drop, Begin, Await, counters, netVars, HealthyInv
<1>3. TypeOK' /\ SmallCounters'
  BY <1>1, <1>2, OtherCallsType, SmallBegin
<1>4. Healthy' => Healthy
  BY DEF GetNextMessage, Disconnect, Drop, SendOk, SendFails, SendDies, netVars, Healthy
<1>5. HealthyCallsSucceed'
  BY <1>2, <1>4, HealthySame DEF HealthyInv
<1>6. ASSUME Healthy'  PROVE Lockstep' /\ NoPublication' /\ CallOK'
  <2>1. Lockstep /\ NoPublication /\ Quiescent
    BY <1>2, <1>4, <1>6 DEF HealthyInv, Lockstep
  <2>2. CASE GetNextMessage
    <3>1. pc' = "receive" /\ call'.kind = "next" /\ UNCHANGED toServer
      BY <2>2 DEF GetNextMessage, Begin, Await, netVars
    <3>2. Quiescent'
      BY <1>2, <2>1, <3>1 DEF Quiescent, Silent
    <3>3. Lockstep' /\ CallOK'
      BY <1>2, <3>1, <3>2 DEF Lockstep, CallOK, Requests
    <3>4. NoPublication'
      BY <1>2, <2>1 DEF NoPublication
    <3> QED  BY <3>3, <3>4
  <2>3. CASE Disconnect
    <3>1. pc' # "receive" /\ pc' # "parse" /\ toServer' = Append(toServer, Msg("DISCONNECT", 0, 0, call'))
      BY <1>6, <2>3 DEF Disconnect, SendOk, SendFails, SendDies, Healthy
    <3>2. PICK e \in Messages : e = Msg("DISCONNECT", 0, 0, call')
      <4>1. call' \in Contexts
        BY <1>3 DEF TypeOK, Contexts
      <4>2. Msg("DISCONNECT", 0, 0, call') \in Messages
        BY <4>1 DEF Msg, Messages, MessageTypes
      <4> QED  BY <4>2
    <3>3. Silent(e)
      <4>1. e.type = "DISCONNECT"
        BY <3>2, MsgFields
      <4> QED  BY <4>1, Asking DEF Silent
    <3>4. Quiescent'
      BY <1>2, <2>1, <3>1, <3>2, <3>3, QuiescentSend
    <3> QED  BY <1>2, <2>1, <3>1, <3>4, LockstepRests
  <2>4. CASE Drop
    BY <1>6, <2>4 DEF Drop, Healthy
  <2> QED  BY <2>2, <2>3, <2>4
<1> QED  BY <1>2, <1>3, <1>5, <1>6, HealthyFromParts

LEMMA HealthyBrokerReceive == ASSUME HealthyInv, BrokerReceive  PROVE HealthyInv'
<1>1. /\ TypeOK /\ TypeOK' /\ SmallCounters' /\ pc # "start"
      /\ UNCHANGED <<returned, counters, pc, call, stage, resp, receive_buffer>>
      /\ toServer \in Seq(Messages) /\ toServer # <<>> /\ toServer' = Tail(toServer)
  <2>1. TypeOK /\ TypeOK' /\ SmallCounters'
    BY BrokerReceiveType, InsideSteps, SmallInside DEF HealthyInv
  <2>2. toServer \in Seq(Messages) /\ toServer # <<>> /\ toServer' = Tail(toServer)
    BY <2>1 DEF TypeOK, BrokerReceive
  <2> QED  BY <2>1, <2>2 DEF HealthyInv, BrokerReceive, localVars
<1>2. Healthy' => Healthy
  BY DEF BrokerReceive, Healthy
<1>3. HealthyCallsSucceed'
  BY <1>1, <1>2, HealthySame DEF HealthyInv
<1>4. PICK m \in Messages : m = Head(toServer) /\ m = toServer[1] /\ 1 \in DOMAIN toServer
  BY <1>1, TailFacts
<1>5. \A i \in DOMAIN toServer' :
        i + 1 \in DOMAIN toServer /\ toServer'[i] = toServer[i + 1] /\ i + 1 # 1 /\ i \in Nat
  BY <1>1, TailFacts
<1>6. Len(toServer') + 1 = Len(toServer) /\ Len(toServer') \in Nat /\ DOMAIN toServer' = 1..Len(toServer')
  BY <1>1
<1>7. \/ Silent(m) /\ UNCHANGED toClient
      \/ \E a \in Answers(m) : toClient' = Append(toClient, a)
  BY <1>4 DEF BrokerReceive, Silent
<1>8. ASSUME Healthy'  PROVE Lockstep' /\ NoPublication' /\ CallOK'
  <2>1. Lockstep /\ NoPublication /\ CallOK
    BY <1>2, <1>8 DEF HealthyInv
  <2>2. \A a : Expected(a) => Expected(a)'
    BY <1>1 DEF Expected, ReplyTo, IdOf, counters
  <2>3. Quiescent => Quiescent' /\ UNCHANGED toClient
    BY <1>4, <1>5, <1>7 DEF Quiescent, Silent
  <2>4. Told => Told' /\ UNCHANGED toClient
    <3>1. SUFFICES ASSUME Told  PROVE Told' /\ UNCHANGED toClient
      OBVIOUS
    <3>2. UNCHANGED toClient
      BY <1>4, <1>7, <3>1 DEF Told, Silent
    <3>3. \A i \in DOMAIN toServer' : Silent(toServer'[i])
      BY <1>5, <3>1 DEF Told
    <3> QED  BY <2>2, <3>1, <3>2, <3>3 DEF Told, Silent
  <2>5. Asked => (Asked' /\ UNCHANGED toClient) \/ (Told' /\ toClient'[1].type # "PUBLISH")
    <3>1. SUFFICES ASSUME Asked
                   PROVE  (Asked' /\ UNCHANGED toClient) \/ (Told' /\ toClient'[1].type # "PUBLISH")
      OBVIOUS
    <3>2. CASE Len(toServer) = 1
      <4>1. Asks(m) /\ toClient = <<>>
        BY <1>4, <3>1, <3>2 DEF Asked
      <4>2. PICK a \in Answers(m) : toClient' = Append(toClient, a)
        BY <1>7, <4>1 DEF Asks
      <4>3. Expected(a) /\ a.type # "PUBLISH"
        BY <4>1, AnswersFacts DEF Asks
      <4>4. Len(toClient') = 1 /\ toClient'[1] = a
        BY <4>1, <4>2
      <4>5. DOMAIN toServer' = {}
        BY <1>6, <3>2
      <4>6. Expected(toClient[1])'
        BY <2>2, <4>3, <4>4 DEF Expected
      <4> QED  BY <4>3, <4>4, <4>5, <4>6 DEF Told
    <3>3. CASE Len(toServer) # 1
      <4>1. Silent(m) /\ UNCHANGED toClient
        BY <1>4, <1>7, <3>1, <3>3 DEF Asked, Silent
      <4>2. Len(toServer') > 0 /\ Len(toServer') \in DOMAIN toServer' /\ toServer' # <<>>
        BY <1>1, <1>6, <3>3
      <4>3. toServer'[Len(toServer')] = toServer[Len(toServer)]
        BY <1>5, <1>6, <4>2
      <4>4. \A i \in DOMAIN toServer' : i # Len(toServer') => Silent(toServer'[i])
        BY <1>5, <1>6, <3>1 DEF Asked
      <4>5. Asks(toServer[Len(toServer)])'
        BY <2>2, <3>1, <4>3 DEF Asked, Asks, Silent
      <4> QED  BY <3>1, <4>1, <4>2, <4>4, <4>5 DEF Asked, Silent
    <3> QED  BY <3>2, <3>3
  <2>6. Lockstep' /\ CallOK'
    <3>1. pc' = "parse" /\ call'.kind \in Requests => (resp # NoMsg /\ Expected(resp))'
      BY <1>1, <2>1, <2>2 DEF Lockstep
    <3> QED  BY <1>1, <2>1, <2>3, <2>4, <2>5, <3>1 DEF Lockstep, CallOK
  <2>7. NoPublication'
    <3>1. CASE UNCHANGED toClient
      BY <1>1, <2>1, <3>1 DEF NoPublication
    <3>2. CASE Told' /\ toClient'[1].type # "PUBLISH"
      <4>1. toClient' \in Seq(Messages) /\ Len(toClient') = 1
        BY <1>1, <3>2 DEF TypeOK, Told
      <4>2. DOMAIN toClient' = {1}
        BY <4>1
      <4> QED  BY <1>1, <2>1, <3>2, <4>2 DEF NoPublication
    <3>3. Quiescent \/ Asked \/ Told
      BY <2>1 DEF Lockstep, CallOK
    <3> QED  BY <2>3, <2>4, <2>5, <3>1, <3>2, <3>3
  <2> QED  BY <2>6, <2>7
<1> QED  BY <1>1, <1>3, <1>8, HealthyFromParts

LEMMA HealthyStep == SmallIds /\ HealthyInv /\ [Next]_vars => HealthyInv'
<1> SUFFICES ASSUME SmallIds, HealthyInv, [Next]_vars  PROVE HealthyInv'
  OBVIOUS
<1>1. CASE AppStep
  BY <1>1, HealthyConnect, HealthyRequest, HealthyReceive, HealthyConnack, HealthyReply,
     HealthyNext, HealthyOtherCalls
  DEF AppStep, CallStep
<1>2. CASE BrokerReceive
  BY <1>2, HealthyBrokerReceive
<1>3. CASE BrokerClose \/ \E q \in 0..2 : BrokerPublish(q)
  <2>1. /\ TypeOK /\ TypeOK' /\ SmallCounters' /\ pc # "start" /\ UNCHANGED pc
    <3>1. TypeOK /\ TypeOK' /\ SmallCounters'
      BY <1>3, TypeStep, InsideSteps, SmallInside DEF HealthyInv
    <3>2. pc # "start" /\ UNCHANGED pc
      BY <1>3 DEF HealthyInv, BrokerClose, BrokerPublish, localVars
    <3> QED  BY <3>1, <3>2
  <2>2. ~Healthy'
    <3>1. CASE BrokerClose
      BY <3>1 DEF BrokerClose, Healthy
    <3>2. ASSUME NEW q \in 0..2, BrokerPublish(q)  PROVE ~Healthy'
      <4>1. pushes[q] \in Nat /\ pushes'[q] = pushes[q] + 1
        BY <2>1, <3>2 DEF BrokerPublish, TypeOK
      <4> QED  BY <4>1 DEF Healthy
    <3> QED  BY <1>3, <3>1, <3>2
  <2>3. HealthyCallsSucceed'
    BY <2>2 DEF HealthyCallsSucceed
  <2> QED  BY <2>1, <2>2, <2>3, HealthyFromParts
<1>4. CASE UNCHANGED vars
  <2>1. TypeOK'
    BY TypeStep DEF HealthyInv
  <2>2. /\ UNCHANGED <<counters, receive_buffer, pc, call, stage, resp, link, toServer, toClient>>
        /\ UNCHANGED <<prompt, calls, returned, answered, pushes>>
    BY <1>4 DEF vars, localVars, netVars, historyVars
  <2>3. \A a : Expected(a) => Expected(a)'
    BY <2>2 DEF Expected, ReplyTo, IdOf, counters
  <2>4. (Quiescent => Quiescent') /\ (Told => Told') /\ (Asked => Asked')
    BY <2>2, <2>3 DEF Quiescent, Told, Asked, Asks, Silent
  <2>5. Lockstep => Lockstep'
    BY <2>2, <2>3, <2>4 DEF Lockstep
  <2>6. (NoPublication => NoPublication') /\ (CallOK => CallOK') /\ (Healthy' => Healthy)
    BY <2>2 DEF NoPublication, CallOK, Healthy
  <2>7. SmallCounters' /\ HealthyCallsSucceed'
    BY <2>2, <2>6 DEF HealthyInv, SmallCounters, HealthyCallsSucceed, counters
  <2> QED  BY <2>1, <2>2, <2>5, <2>6, <2>7 DEF HealthyInv
<1> QED  BY <1>1, <1>2, <1>3, <1>4 DEF Next, BrokerStep

LEMMA HealthyInit == Init => HealthyInv
<1> SUFFICES ASSUME Init  PROVE HealthyInv
  OBVIOUS
<1>1. SmallCounters
  <2>1. \A k \in Kinds : calls[k] = 0 /\ MaxCalls[k] \in Nat
    BY BoundAssumption DEF Init
  <2>2. calls["pub1"] = 0 /\ calls["pub2"] = 0 /\ calls["sub"] = 0
    BY <2>1 DEF Kinds, Requests
  <2> QED  BY <2>1, <2>2 DEF Init, SmallCounters
<1> QED  BY <1>1, TypeInit DEF Init, HealthyInv, Healthy, HealthyCallsSucceed

\* HealthyCallsSucceed for up to 255 publications at QoS 1 and 2 and up to 254
\* subscriptions, whatever their order: over a connection that stays up, with
\* a broker that answers in time and publishes nothing, smqtt_ping,
\* smqtt_publish and smqtt_subscribe return SMQTT_OK.  The proviso is that of
\* the code: one byte of the identifier is sent, so publication 256 gets a
\* PUBACK for identifier 0 and fails.
THEOREM HealthyCalls == SmallIds => (Spec => []HealthyCallsSucceed)
<1>1. SmallIds /\ Init => (SmallIds /\ HealthyInv)
  BY HealthyInit
<1>2. (SmallIds /\ HealthyInv) /\ [Next]_vars => (SmallIds /\ HealthyInv)'
  BY HealthyStep DEF SmallIds
<1>3. HealthyInv => HealthyCallsSucceed
  BY DEF HealthyInv
<1> QED  BY <1>1, <1>2, <1>3, PTL DEF Spec
=============================================================================
