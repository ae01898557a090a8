-------------------------- MODULE RefinementProofs --------------------------
(***************************************************************************)
(* Session implements AsyncClient, except for the fairness: its initial    *)
(* states and steps are those of AsyncClient under the mapping of          *)
(* SessionRefines.  PromiseInv is inductive relative to AckInv and gives   *)
(* what the abstract guards ask for.                                       *)
(***************************************************************************)
EXTENDS AckProofs, SessionRefines

-----------------------------------------------------------------------------
(* What the abstract guards ask for beyond AckInv.                         *)

\* A call that is being made is none of those that returned.
AcceptedOK ==
  /\ \A k \in Kinds : calls[k] <= MaxCalls[k]
  /\ \A x \in ToSet(accepted) : x.kind \in Kinds /\ x.n \in 1..calls[x.kind]
  /\ \A c \in Callers : pc[c] \in CallerSteps => op[c] \notin ToSet(accepted)

\* Whatever is on its way on behalf of a request belongs to one that was sent,
\* and requests and publications are numbered from 1.
FromClient == {"PINGREQ", "SUBSCRIBE", "UNSUBSCRIBE", "PUBLISH", "PUBREL"}
ServerTraced(m, xs) == m.ctx.n >= 1 /\ (m.type \in FromClient => m.ctx \in xs)
OwedTraced(m, xs)   == m.ctx.n >= 1 /\ (m.type # "PUBREL" => m.ctx \in xs)
ClientTraced(m, xs) == m.ctx.n >= 1 /\ (m.type = "PUBREC" => m.ctx \in xs)

TracedOK ==
  /\ \A s \in Slots : buffer_slots[s] # NoMsg => buffer_slots[s].ctx.n >= 1
  /\ \A m \in ToSet(toServer) : ServerTraced(m, ToSet(sent))
  /\ \A m \in ToSet(owed) : OwedTraced(m, ToSet(sent))
  /\ \A m \in ToSet(toClient) : ClientTraced(m, ToSet(sent))
  /\ tpc \in {"dispatch", "reply", "deliver"} => ClientTraced(resp, ToSet(sent))

\* The subscribe is in its call, registered, about to be called back, or done.
SubEntries == {i \in DOMAIN ack_queue : ack_queue[i].type = "SUBACK" /\ ack_queue[i].ctx.kind = "sub"}
SubInHand == tpc = "callback" /\ waiting.ctx.kind = "sub"
SubCalled == \E i \in DOMAIN called : called[i].kind = "sub"

SubOK ==
  /\ \A i, j \in SubEntries : i = j
  /\ SubCalled => SubEntries = {} /\ ~SubInHand
  /\ SubInHand => SubEntries = {}
  /\ \A c \in Callers : Subscribes(c) => SubEntries = {} /\ ~SubInHand /\ ~SubCalled

\* No publication of the broker is lost while the connection is up.
PushTypes == {"PUBLISH", "PUBREL"}
Underway(x) ==
  \/ x \in ToSet(delivered)
  \/ tpc \in {"dispatch", "reply", "deliver"} /\ resp.type \in PushTypes /\ resp.ctx = x
  \/ \E m \in ToSet(toClient) : m.type \in PushTypes /\ m.ctx = x
  \/ \E m \in ToSet(owed) : m.type = "PUBREL" /\ m.ctx = x
  \/ \E m \in ToSet(toServer) : m.type = "PUBREC" /\ m.ctx = x

UnderwayOK ==
  \A q \in 0..2 : \A n \in 1..pushes[q] : Underway([kind |-> SrvKind[q + 1], n |-> n])

PromiseInv ==
  AcceptedOK /\ TracedOK /\ SubOK /\ (MsgCallback /\ link = "up" => UnderwayOK)

-----------------------------------------------------------------------------
(* Sequences.                                                              *)

LEMMA TailRange ==
  ASSUME NEW S, NEW s \in Seq(S), s # <<>>
  PROVE  \A x : x \in ToSet(s) <=> x = Head(s) \/ x \in ToSet(Tail(s))
<1>1. /\ Head(s) = s[1] /\ 1 \in DOMAIN s
      /\ \A i \in DOMAIN Tail(s) : Tail(s)[i] = s[i + 1] /\ i + 1 \in DOMAIN s
      /\ \A i \in DOMAIN s : i # 1 => i - 1 \in DOMAIN Tail(s) /\ s[i] = Tail(s)[i - 1]
  OBVIOUS
<1>2. ASSUME NEW x \in ToSet(s), x # Head(s)  PROVE x \in ToSet(Tail(s))
  <2>1. PICK i \in DOMAIN s : x = s[i]
    BY DEF ToSet
  <2>2. i - 1 \in DOMAIN Tail(s) /\ x = Tail(s)[i - 1]
    BY <1>1, <1>2, <2>1
  <2> QED  BY <2>2 DEF ToSet
<1>3. ASSUME NEW x \in ToSet(Tail(s))  PROVE x \in ToSet(s)
  <2>1. PICK i \in DOMAIN Tail(s) : x = Tail(s)[i]
    BY DEF ToSet
  <2>2. i + 1 \in DOMAIN s /\ x = s[i + 1]
    BY <1>1, <2>1
  <2> QED  BY <2>2 DEF ToSet
<1>4. Head(s) \in ToSet(s)
  BY <1>1 DEF ToSet
<1> QED  BY <1>2, <1>3, <1>4

\* What follows a common beginning is the same.
LEMMA Cancel ==
  ASSUME NEW S, NEW s \in Seq(S), NEW p \in Seq(S), NEW q \in Seq(S), s \o p = s \o q
  PROVE  p = q
<1>1. /\ Len(s \o p) = Len(s) + Len(p) /\ Len(s \o q) = Len(s) + Len(q)
      /\ Len(s) \in Nat /\ Len(p) \in Nat /\ Len(q) \in Nat
  OBVIOUS
<1>2. Len(p) = Len(q)
  BY <1>1
<1>3. ASSUME NEW i \in 1..Len(p)  PROVE p[i] = q[i]
  <2>1. (s \o p)[Len(s) + i] = p[i]
    OBVIOUS
  <2>2. (s \o q)[Len(s) + i] = q[i]
    BY <1>2
  <2> QED  BY <2>1, <2>2
<1> QED  BY <1>2, <1>3

LEMMA ConcatRange ==
  ASSUME NEW S, NEW s \in Seq(S), NEW t \in Seq(S)
  PROVE  ToSet(s \o t) = ToSet(s) \cup ToSet(t)
<1>1. /\ DOMAIN (s \o t) = 1..(Len(s) + Len(t)) /\ Len(s) \in Nat /\ Len(t) \in Nat
      /\ DOMAIN s = 1..Len(s) /\ DOMAIN t = 1..Len(t)
  OBVIOUS
<1>2. \A j \in 1..(Len(s) + Len(t)) : (s \o t)[j] = IF j <= Len(s) THEN s[j] ELSE t[j - Len(s)]
  OBVIOUS
<1>3. ASSUME NEW x \in ToSet(s \o t)  PROVE x \in ToSet(s) \cup ToSet(t)
  <2>1. PICK j \in 1..(Len(s) + Len(t)) : x = (s \o t)[j]
    BY <1>1 DEF ToSet
  <2>2. CASE j <= Len(s)
    BY <1>1, <1>2, <2>1, <2>2 DEF ToSet
  <2>3. CASE ~(j <= Len(s))
    <3>1. j - Len(s) \in DOMAIN t /\ x = t[j - Len(s)]
      BY <1>1, <1>2, <2>1, <2>3
    <3> QED  BY <3>1 DEF ToSet
  <2> QED  BY <2>2, <2>3
<1>4. ASSUME NEW x \in ToSet(s)  PROVE x \in ToSet(s \o t)
  <2>1. PICK j \in DOMAIN s : x = s[j]
    BY DEF ToSet
  <2>2. j \in DOMAIN (s \o t) /\ x = (s \o t)[j]
    BY <1>1, <1>2, <2>1
  <2> QED  BY <2>2 DEF ToSet
<1>5. ASSUME NEW x \in ToSet(t)  PROVE x \in ToSet(s \o t)
  <2>1. PICK j \in DOMAIN t : x = t[j]
    BY DEF ToSet
  <2>2. Len(s) + j \in DOMAIN (s \o t) /\ x = (s \o t)[Len(s) + j]
    BY <1>1, <1>2, <2>1
  <2> QED  BY <2>2 DEF ToSet
<1> QED  BY <1>3, <1>4, <1>5

-----------------------------------------------------------------------------
(* The calls.                                                              *)

LEMMA AcceptedStep ==
  ASSUME CallbackInv, Orderly, AcceptedOK, [Next]_vars
  PROVE  AcceptedOK'
<1>0. /\ accepted \in Seq(Contexts) /\ calls \in [Kinds \cup {"disconnect"} -> Nat]
      /\ DOMAIN pc = Callers /\ DOMAIN op = Callers
      /\ \A c \in Callers : op[c] \in Contexts
      /\ \A c, d \in Callers : c = d
      /\ \A c \in Callers : op[c].kind \in Kinds /\ op[c].n \in Nat
  BY DEF CallbackInv, IndInv, TypeOK, HistoryTypeOK, CallerTypeOK, Contexts, Orderly
<1>1. ASSUME UNCHANGED <<accepted, op>>, \A k \in Kinds : calls'[k] = calls[k],
             \A c \in Callers : pc'[c] \in CallerSteps => pc[c] \in CallerSteps
      PROVE  AcceptedOK'
  BY <1>1 DEF AcceptedOK
<1>2. ASSUME NEW c \in Callers, NEW k \in Kinds, Call(c, k)  PROVE AcceptedOK'
  <2>1. /\ UNCHANGED accepted /\ calls' = [calls EXCEPT ![k] = @ + 1] /\ calls[k] < MaxCalls[k]
        /\ op' = [op EXCEPT ![c] = [kind |-> k, n |-> calls[k] + 1]]
    BY <1>2 DEF Call
  <2>2. \A j \in Kinds : calls[j] \in Nat /\ MaxCalls[j] \in Nat
                         /\ calls'[j] = IF j = k THEN calls[j] + 1 ELSE calls[j]
    BY <1>0, <2>1, BoundAssumption
  <2>3. \A j \in Kinds : calls'[j] <= MaxCalls[j]
    BY <2>1, <2>2 DEF AcceptedOK
  <2>4. ASSUME NEW x \in ToSet(accepted)  PROVE x.kind \in Kinds /\ x.n \in 1..calls'[x.kind]
    <3>1. x.kind \in Kinds /\ x.n \in 1..calls[x.kind]
      BY DEF AcceptedOK
    <3> QED  BY <2>2, <3>1
  <2>5. op'[c] \notin ToSet(accepted)
    <3>1. ASSUME op'[c] \in ToSet(accepted)  PROVE FALSE
      <4>1. op'[c].kind = k /\ op'[c].n = calls[k] + 1
        BY <1>0, <2>1
      <4>2. op'[c].n \in 1..calls[k]
        BY <3>1, <4>1 DEF AcceptedOK
      <4> QED  BY <2>2, <4>1, <4>2
    <3> QED  BY <3>1
  <2> QED  BY <1>0, <2>1, <2>3, <2>4, <2>5 DEF AcceptedOK
<1>3. ASSUME NEW c \in Callers, EnqueueSlotForSend(c)  PROVE AcceptedOK'
  <2>1. /\ accepted' = Append(accepted, op[c]) /\ UNCHANGED <<calls, op>> /\ pc[c] = "send" /\ Advance(c)
    BY <1>3 DEF EnqueueSlotForSend
  <2>2. pc'[c] = "idle"
    BY <2>1, Flow DEF CallerSteps
  <2>3. ToSet(accepted') = ToSet(accepted) \cup {op[c]}
    BY <1>0, <2>1, AppendFacts
  <2>4. op[c].n \in 1..calls[op[c].kind]
    <3>1. op[c].n <= calls[op[c].kind] /\ op[c].n >= 1
      BY <2>1 DEF CallbackInv, RequestsOK, CallerSteps
    <3> QED  BY <1>0, <3>1
  <2>5. \A d \in Callers : pc'[d] \notin CallerSteps
    BY <1>0, <2>2 DEF CallerSteps
  <2> QED  BY <1>0, <2>1, <2>3, <2>4, <2>5 DEF AcceptedOK
<1>4. ASSUME NEW c \in Callers, CallerStep(c) \/ SignalDisconnect(c), ~EnqueueSlotForSend(c)
      PROVE  AcceptedOK'
  <2>1. UNCHANGED <<accepted, op>> /\ \A k \in Kinds : calls'[k] = calls[k]
    BY <1>0, <1>4 DEF CallerStep, SignalDisconnect, GetBufferSlot, MakeMessage, FillWaiting, EnqueueWaiting,
       LoadPacketId, StorePacketId, JoinSessionThread, SendDisconnect, historyVars, Kinds
  <2>2. pc[c] \in CallerSteps \/ pc'[c] \in {"join", "bye", "gone"} \/ pc' = pc
    BY <1>0, <1>4 DEF CallerStep, SignalDisconnect, GetBufferSlot, MakeMessage, FillWaiting, EnqueueWaiting,
       LoadPacketId, StorePacketId, JoinSessionThread, SendDisconnect, CallerSteps, Goto
  <2>3. \A d \in Callers : pc'[d] \in CallerSteps => pc[d] \in CallerSteps
    BY <1>0, <2>2 DEF CallerSteps
  <2> QED  BY <1>1, <2>1, <2>3
<1>5. ASSUME SessionStep  PROVE UNCHANGED <<accepted, op, calls, pc>>
  BY <1>5 DEF SessionStep, TopOfLoop, SendSlot, FreeSlot, ServerReceive, OnFinalAck, OnSuback,
     InvokeCallback, OnHandshake, OnPublish, Reply, RequeueWaiting, Deliver, Crash, historyVars, callerVars
<1>6. ASSUME BrokerStep \/ BrokerClose \/ \E q \in 0..2 : BrokerPublish(q)
      PROVE  UNCHANGED <<accepted, op, calls, pc>>
  BY <1>6 DEF BrokerStep, BrokerReceive, BrokerAnswer, BrokerClose, BrokerPublish, historyVars, callerVars
<1>7. ASSUME UNCHANGED vars  PROVE UNCHANGED <<accepted, op, calls, pc>>
  BY <1>7 DEF vars, historyVars, callerVars
<1> QED  BY <1>1, <1>2, <1>3, <1>4, <1>5, <1>6, <1>7 DEF Next

-----------------------------------------------------------------------------
(* What is under way.                                                      *)

LEMMA TracedStays ==
  ASSUME TracedOK, ToSet(sent) \subseteq ToSet(sent'),
         \A s \in Slots : buffer_slots'[s] = buffer_slots[s] \/ buffer_slots'[s].ctx.n >= 1,
         \A m \in ToSet(toServer') : m \in ToSet(toServer) \/ ServerTraced(m, ToSet(sent')),
         \A m \in ToSet(owed') : m \in ToSet(owed) \/ OwedTraced(m, ToSet(sent')),
         \A m \in ToSet(toClient') : m \in ToSet(toClient) \/ ClientTraced(m, ToSet(sent')),
         tpc' \in {"dispatch", "reply", "deliver"} =>
           (tpc \in {"dispatch", "reply", "deliver"} /\ resp' = resp) \/ ClientTraced(resp', ToSet(sent'))
  PROVE  TracedOK'
<1>1. ASSUME NEW m
      PROVE  /\ ServerTraced(m, ToSet(sent)) => ServerTraced(m, ToSet(sent'))
             /\ OwedTraced(m, ToSet(sent)) => OwedTraced(m, ToSet(sent'))
             /\ ClientTraced(m, ToSet(sent)) => ClientTraced(m, ToSet(sent'))
  BY DEF ServerTraced, OwedTraced, ClientTraced
<1>2. (\A s \in Slots : buffer_slots[s] # NoMsg => buffer_slots[s].ctx.n >= 1)'
  BY DEF TracedOK
<1>3. /\ \A m \in ToSet(toServer') : ServerTraced(m, ToSet(sent'))
      /\ \A m \in ToSet(owed') : OwedTraced(m, ToSet(sent'))
      /\ \A m \in ToSet(toClient') : ClientTraced(m, ToSet(sent'))
  BY <1>1 DEF TracedOK
<1>4. tpc' \in {"dispatch", "reply", "deliver"} => ClientTraced(resp', ToSet(sent'))
  BY <1>1 DEF TracedOK, ClientTraced
<1> QED  BY <1>2, <1>3, <1>4 DEF TracedOK

LEMMA AnswerTraced ==
  ASSUME NEW m
  PROVE  \/ Answer(m) = <<>> /\ m.type # "PUBREC"
         \/ /\ Answer(m) = <<Answer(m)[1]>> /\ Answer(m)[1].ctx = m.ctx
            /\ Answer(m)[1].type # "PUBREL" => m.type \in FromClient
            /\ m.type = "PUBREC" => Answer(m)[1].type = "PUBREL"
<1>1. ASSUME NEW t, NEW i
      PROVE  /\ Msg(t, 0, i, m.ctx).type = t /\ Msg(t, 0, i, m.ctx).ctx = m.ctx
             /\ <<Msg(t, 0, i, m.ctx)>>[1] = Msg(t, 0, i, m.ctx)
  BY DEF Msg
<1>2. CASE m.type = "PINGREQ"
  <2>1. Answer(m) = <<Msg("PINGRESP", 0, 0, m.ctx)>>
    BY <1>2 DEF Answer
  <2> QED  BY <1>1, <1>2, <2>1 DEF FromClient
<1>3. CASE m.type = "PUBREC"
  <2>1. Answer(m) = <<Msg("PUBREL", 0, m.id, m.ctx)>>
    BY <1>3 DEF Answer
  <2> QED  BY <1>1, <1>3, <2>1
<1>4. CASE m.type \notin {"PINGREQ", "PUBREC"}
  <2>1. \/ Answer(m) = <<>>
        \/ /\ m.type \in FromClient
           /\ \E t \in {"SUBACK", "UNSUBACK", "PUBACK", "PUBREC", "PUBCOMP"} :
                Answer(m) = <<Msg(t, 0, m.id, m.ctx)>>
    BY <1>4 DEF Answer, FromClient
  <2> QED  BY <1>1, <1>4, <2>1
<1> QED  BY <1>2, <1>3, <1>4

LEMMA CallerTraced ==
  ASSUME CallbackInv, TracedOK, NEW c \in Callers,
         CallerStep(c) \/ SignalDisconnect(c) \/ \E k \in Kinds : Call(c, k)
  PROVE  TracedOK'
<1>1. UNCHANGED <<sent, owed, toClient, tpc, resp>>
  BY DEF CallerStep, SignalDisconnect, Call, GetBufferSlot, MakeMessage, FillWaiting, EnqueueWaiting,
     LoadPacketId, StorePacketId, EnqueueSlotForSend, JoinSessionThread, SendDisconnect,
     threadVars, netVars, historyVars
<1>2. \A s \in Slots : buffer_slots'[s] = buffer_slots[s] \/ buffer_slots'[s].ctx.n >= 1
  <2>1. CASE MakeMessage(c)
    <3>1. buffer_slots' = [buffer_slots EXCEPT ![slot[c]] = RequestFor(op[c])] /\ pc[c] = "make"
      BY <2>1 DEF MakeMessage
    <3>2. RequestFor(op[c]).ctx = op[c]
      BY DEF RequestFor, Msg
    <3>3. op[c].n >= 1
      BY <3>1 DEF CallbackInv, RequestsOK, CallerSteps
    <3>4. buffer_slots \in [Slots -> Messages \cup {NoMsg}]
      BY DEF CallbackInv, IndInv, TypeOK, ClientTypeOK
    <3> QED  BY <3>1, <3>2, <3>3, <3>4
  <2>2. CASE ~MakeMessage(c)
    BY <2>2 DEF CallerStep, SignalDisconnect, Call, GetBufferSlot, FillWaiting, EnqueueWaiting,
       LoadPacketId, StorePacketId, EnqueueSlotForSend, JoinSessionThread, SendDisconnect, clientVars
  <2> QED  BY <2>1, <2>2
<1>3. \A m \in ToSet(toServer') : m \in ToSet(toServer) \/ ServerTraced(m, ToSet(sent'))
  <2>1. CASE SendDisconnect(c)
    <3> DEFINE b == Msg("DISCONNECT", 0, 0, [kind |-> "bye", n |-> 1])
    <3>1. b \in Messages /\ b.ctx.n = 1 /\ b.type = "DISCONNECT"
      BY MaxIdType DEF Msg, Messages, Requests, PacketIds, Contexts
    <3>2. toServer' = toServer \/ toServer' = Append(toServer, b)
      BY <2>1 DEF SendDisconnect, SendOk
    <3>3. ServerTraced(b, ToSet(sent'))
      BY <3>1 DEF ServerTraced, FromClient
    <3> HIDE DEF b
    <3>4. toServer \in Seq(Messages)
      BY SeqTypes
    <3>5. toServer' = Append(toServer, b) => ToSet(toServer') = ToSet(toServer) \cup {b}
      BY <3>1, <3>4, AppendFacts
    <3> QED  BY <3>2, <3>3, <3>5
  <2>2. CASE ~SendDisconnect(c)
    <3>1. UNCHANGED toServer
      BY <2>2 DEF CallerStep, SignalDisconnect, Call, GetBufferSlot, MakeMessage, FillWaiting,
         EnqueueWaiting, LoadPacketId, StorePacketId, EnqueueSlotForSend, JoinSessionThread, netVars
    <3> QED  BY <3>1
  <2> QED  BY <2>1, <2>2
<1> QED  BY <1>1, <1>2, <1>3, TracedStays

\* server_send of a message that is traced.
LEMMA SentTraced ==
  ASSUME CallbackInv, NEW m \in Messages, SendOk(m) \/ SendFails
  PROVE  \A x \in ToSet(toServer') : x \in ToSet(toServer) \/ x = m
<1>1. toServer' = toServer \/ toServer' = Append(toServer, m)
  BY DEF SendOk, SendFails
<1>2. ToSet(Append(toServer, m)) = ToSet(toServer) \cup {m}
  BY SeqTypes, AppendFacts
<1> QED  BY <1>1, <1>2

LEMMA SessionTraced ==
  ASSUME CallbackInv, NothingAfter, TracedOK, SessionStep
  PROVE  TracedOK'
<1>1. CASE SendSlot
  <2> DEFINE m == buffer_slots[position]
  <2>1. /\ tpc = "send" /\ (SendOk(m) \/ SendFails) /\ sent' = Append(sent, m.ctx) /\ tpc' = "free_slot"
        /\ UNCHANGED <<buffer_slots, owed, toClient>>
    BY <1>1 DEF SendSlot, ThreadStep, clientVars
  <2>2. m \in Messages /\ position \in Slots /\ m.ctx.n >= 1
    <3>1. m \in Messages
      BY <2>1 DEF CallbackInv, IndInv, ThreadOK
    <3>2. position \in Slots
      BY <2>1 DEF CallbackInv, IndInv, ThreadOK, TypeOK, ThreadTypeOK
    <3> QED  BY <3>1, <3>2, NoMsgAssumption DEF TracedOK
  <2>3. sent \in Seq(Contexts) /\ m.ctx \in Contexts
    BY <2>2 DEF CallbackInv, IndInv, TypeOK, HistoryTypeOK, Messages
  <2> HIDE DEF m
  <2>4. ToSet(sent') = ToSet(sent) \cup {m.ctx}
    BY <2>1, <2>3, AppendFacts
  <2>5. ServerTraced(m, ToSet(sent'))
    BY <2>2, <2>4 DEF ServerTraced
  <2>6. \A x \in ToSet(toServer') : x \in ToSet(toServer) \/ ServerTraced(x, ToSet(sent'))
    BY <2>1, <2>2, <2>5, SentTraced
  <2> QED  BY <2>1, <2>4, <2>6, TracedStays
<1>2. CASE Reply
  <2> DEFINE m == Msg(ReplyType, 0, Wire(resp.id), resp.ctx)
  <2>1. /\ tpc = "reply" /\ (SendOk(m) \/ SendFails) /\ tpc' \in {"enqueue_waiting", "deliver", "top"}
        /\ UNCHANGED <<buffer_slots, owed, toClient, resp, sent>>
    BY <1>2 DEF Reply, ThreadStep, historyVars
  <2>2. m.type = ReplyType /\ m.ctx = resp.ctx /\ m \in Messages
    <3>1. ReplyType \in Replies
      BY DEF ReplyType, Replies
    <3>2. resp \in Messages
      BY <2>1 DEF CallbackInv, IndInv, ThreadOK
    <3>3. Wire(resp.id) \in PacketIds /\ resp.ctx \in Contexts
      BY <3>2, WireType DEF Messages
    <3> QED  BY <3>1, <3>3 DEF Msg, Messages
  <2>3. ReplyType \in FromClient => resp.type = "PUBREC"
    BY DEF ReplyType, FromClient
  <2> HIDE DEF m
  <2>4. ClientTraced(resp, ToSet(sent))
    BY <2>1 DEF TracedOK
  <2>5. ServerTraced(m, ToSet(sent'))
    BY <2>1, <2>2, <2>3, <2>4 DEF ServerTraced, ClientTraced
  <2>6. \A x \in ToSet(toServer') : x \in ToSet(toServer) \/ ServerTraced(x, ToSet(sent'))
    BY <2>1, <2>2, <2>5, SentTraced
  <2> QED  BY <2>1, <2>6, TracedStays
<1>3. CASE ServerReceive
  <2>1. /\ UNCHANGED <<buffer_slots, owed, toServer, sent>> /\ toClient \in Seq(Messages)
        /\ link # "closed"
    BY <1>3, SeqTypes DEF ServerReceive, ThreadStep, NothingAfter, historyVars
  <2>2. CASE toClient = <<>>
    <3>1. UNCHANGED toClient /\ tpc' = "top"
      BY <1>3, <2>1, <2>2 DEF ServerReceive
    <3> QED  BY <2>1, <3>1, TracedStays
  <2>3. CASE toClient # <<>>
    <3>1. resp' = [Head(toClient) EXCEPT !.id = Wire(Head(toClient).id)] /\ toClient' = Tail(toClient)
      BY <1>3, <2>1, <2>3 DEF ServerReceive
    <3>2. Head(toClient) \in Messages /\ Head(toClient) \in ToSet(toClient)
          /\ \A x \in ToSet(toClient') : x \in ToSet(toClient)
      BY <2>1, <2>3, <3>1, TailRange, TailFacts
    <3>3. resp'.ctx = Head(toClient).ctx /\ resp'.type = Head(toClient).type
      BY <3>1, <3>2 DEF Messages
    <3>4. ClientTraced(resp', ToSet(sent'))
      BY <2>1, <3>2, <3>3 DEF TracedOK, ClientTraced
    <3> QED  BY <2>1, <3>2, <3>4, TracedStays
  <2> QED  BY <2>2, <2>3
<1>4. CASE ~(SendSlot \/ Reply \/ ServerReceive)
  <2>1. UNCHANGED <<buffer_slots, owed, toClient, toServer, sent, resp>>
    BY <1>4 DEF SessionStep, TopOfLoop, FreeSlot, OnFinalAck, OnSuback, InvokeCallback, OnHandshake,
       OnPublish, RequeueWaiting, Deliver, Crash, clientVars, threadVars, netVars, historyVars
  <2>2. tpc' \in {"dispatch", "reply", "deliver"} => tpc \in {"dispatch", "reply", "deliver"}
    BY <1>4 DEF SessionStep, TopOfLoop, FreeSlot, OnFinalAck, OnSuback, InvokeCallback, OnHandshake,
       OnPublish, RequeueWaiting, Deliver, Crash, ThreadStep, threadVars
  <2> QED  BY <2>1, <2>2, TracedStays
<1> QED  BY <1>1, <1>2, <1>3, <1>4

LEMMA BrokerTraced ==
  ASSUME CallbackInv, TracedOK, BrokerStep \/ BrokerClose \/ \E q \in 0..2 : BrokerPublish(q)
  PROVE  TracedOK'
<1>0. /\ UNCHANGED <<sent, buffer_slots, tpc, resp>>
      /\ toClient \in Seq(Messages) /\ owed \in Seq(Messages) /\ toServer \in Seq(Messages)
  BY SeqTypes DEF BrokerStep, BrokerReceive, BrokerAnswer, BrokerClose, BrokerPublish,
     clientVars, threadVars, historyVars
<1>1. CASE BrokerReceive
  <2> DEFINE m == Head(toServer)
  <2>1. toServer # <<>> /\ toServer' = Tail(toServer) /\ owed' = owed \o Answer(m) /\ UNCHANGED toClient
    BY <1>1 DEF BrokerReceive
  <2>2. m \in ToSet(toServer) /\ m \in Messages /\ \A x \in ToSet(toServer') : x \in ToSet(toServer)
    BY <1>0, <2>1, TailRange, TailFacts
  <2>3. ServerTraced(m, ToSet(sent))
    BY <2>2 DEF TracedOK
  <2> HIDE DEF m
  <2>4. \A x \in ToSet(owed') : x \in ToSet(owed) \/ OwedTraced(x, ToSet(sent'))
    <3> DEFINE a == Answer(m)[1]
    <3>1. CASE Answer(m) = <<>>
      BY <1>0, <2>1, <3>1
    <3>2. CASE Answer(m) # <<>>
      <4>1. Answer(m) = <<a>> /\ a.ctx = m.ctx /\ (a.type # "PUBREL" => m.type \in FromClient)
        BY <3>2, AnswerTraced
      <4> HIDE DEF a
      <4>2. OwedTraced(a, ToSet(sent'))
        BY <1>0, <2>3, <4>1 DEF ServerTraced, OwedTraced
      <4>3. owed \in Seq(Messages \cup {a}) /\ owed' = Append(owed, a)
        BY <1>0, <2>1, <4>1
      <4>4. ToSet(owed') = ToSet(owed) \cup {a}
        BY <4>3, AppendFacts
      <4> QED  BY <4>2, <4>4
    <3> QED  BY <3>1, <3>2
  <2> QED  BY <1>0, <2>1, <2>2, <2>4, TracedStays
<1>2. CASE BrokerAnswer
  <2>1. PICK i \in DOMAIN owed : toClient' = Append(toClient, owed[i]) /\ owed' = RemoveAt(owed, i)
    BY <1>2 DEF BrokerAnswer
  <2>2. UNCHANGED toServer
    BY <1>2 DEF BrokerAnswer
  <2>3. owed[i] \in Messages /\ owed[i] \in ToSet(owed)
    BY <1>0, <2>1 DEF ToSet
  <2>4. \A x \in ToSet(owed') : x \in ToSet(owed)
    BY <1>0, <2>1, RemoveRange
  <2>5. ToSet(toClient') = ToSet(toClient) \cup {owed[i]}
    BY <1>0, <2>1, <2>3, AppendFacts
  <2>6. ClientTraced(owed[i], ToSet(sent'))
    BY <1>0, <2>3 DEF TracedOK, OwedTraced, ClientTraced
  <2> QED  BY <1>0, <2>2, <2>4, <2>5, <2>6, TracedStays
<1>3. ASSUME NEW q \in 0..2, BrokerPublish(q)  PROVE TracedOK'
  <2> DEFINE x == [kind |-> SrvKind[q + 1], n |-> pushes[q] + 1]
  <2>1. UNCHANGED <<toServer, owed>> /\ \E id : toClient' = Append(toClient, Msg("PUBLISH", q, id, x))
    BY <1>3 DEF BrokerPublish
  <2>2. PICK id : toClient' = Append(toClient, Msg("PUBLISH", q, id, x))
    BY <2>1
  <2> DEFINE m == Msg("PUBLISH", q, id, x)
  <2>3. m.type = "PUBLISH" /\ m.ctx.n = pushes[q] + 1 /\ pushes[q] \in Nat
    BY DEF Msg, CallbackInv, IndInv, TypeOK, HistoryTypeOK
  <2>4. ClientTraced(m, ToSet(sent'))
    BY <2>3 DEF ClientTraced
  <2> HIDE DEF m, x
  <2>5. toClient \in Seq(Messages \cup {m}) /\ toClient' = Append(toClient, m)
    BY <1>0, <2>2 DEF m
  <2>6. ToSet(toClient') = ToSet(toClient) \cup {m}
    BY <2>5, AppendFacts
  <2> QED  BY <1>0, <2>1, <2>4, <2>6, TracedStays
<1>4. CASE BrokerClose
  BY <1>0, <1>4, TracedStays DEF BrokerClose
<1> QED  BY <1>1, <1>2, <1>3, <1>4 DEF BrokerStep

LEMMA TracedStep ==
  ASSUME CallbackInv, NothingAfter, TracedOK, [Next]_vars
  PROVE  TracedOK'
<1>1. ASSUME UNCHANGED vars  PROVE TracedOK'
  <2>1. UNCHANGED <<sent, buffer_slots, tpc, resp, toServer, owed, toClient>>
    BY <1>1 DEF vars, clientVars, threadVars, netVars, historyVars
  <2> QED  BY <2>1, TracedStays
<1> QED  BY <1>1, CallerTraced, SessionTraced, BrokerTraced DEF Next

-----------------------------------------------------------------------------
(* The subscribe.                                                          *)

LEMMA SubStays ==
  ASSUME SubOK, \A i, j \in SubEntries' : i = j, SubEntries = {} => SubEntries' = {},
         SubCalled' => SubCalled, SubInHand' => SubInHand,
         \A c \in Callers : Subscribes(c)' => Subscribes(c)
  PROVE  SubOK'
  BY DEF SubOK

\* An entry that is not that of a subscribe is registered.
LEMMA OtherRegistered ==
  ASSUME SubOK, ack_queue \in Seq(Entries), NEW e \in Entries,
         ~(e.type = "SUBACK" /\ e.ctx.kind = "sub"), ack_queue' = Append(ack_queue, e)
  PROVE  (\A i, j \in SubEntries' : i = j) /\ (SubEntries = {} => SubEntries' = {})
<1>1. \A i \in DOMAIN ack_queue' : (i \in DOMAIN ack_queue /\ ack_queue'[i] = ack_queue[i]) \/ ack_queue'[i] = e
  OBVIOUS
<1>2. \A i \in SubEntries' : i \in SubEntries
  BY <1>1 DEF SubEntries
<1> QED  BY <1>2 DEF SubOK

\* An entry is taken off ack_queue.
LEMMA SubTaken ==
  ASSUME SubOK, ack_queue \in Seq(Entries), NEW p \in DOMAIN ack_queue,
         ack_queue' = RemoveAt(ack_queue, p)
  PROVE  /\ \A i, j \in SubEntries' : i = j
         /\ SubEntries = {} => SubEntries' = {}
         /\ p \in SubEntries => SubEntries' = {}
<1>1. PICK f \in [DOMAIN ack_queue' -> DOMAIN ack_queue \ {p}] :
        /\ \A j \in DOMAIN ack_queue' : ack_queue'[j] = ack_queue[f[j]]
        /\ \A j, k \in DOMAIN ack_queue' : f[j] = f[k] => j = k
  BY RemoveAtElements
<1>2. \A i \in SubEntries' : i \in DOMAIN ack_queue' /\ f[i] \in SubEntries /\ f[i] # p
  BY <1>1 DEF SubEntries
<1>3. \A i, j \in SubEntries : i = j
  BY DEF SubOK
<1> QED  BY <1>1, <1>2, <1>3

LEMMA CallerSub ==
  ASSUME CallbackInv, Orderly, AcceptedOK, SubOK, NEW c \in Callers,
         CallerStep(c) \/ SignalDisconnect(c) \/ \E k \in Kinds : Call(c, k)
  PROVE  SubOK'
<1>0. /\ DOMAIN pc = Callers /\ DOMAIN op = Callers /\ \A d \in Callers : d = c
      /\ ack_queue \in Seq(Entries)
  BY SeqTypes DEF CallbackInv, IndInv, TypeOK, CallerTypeOK, Orderly
<1>1. UNCHANGED <<called, tpc, waiting>>
  BY DEF CallerStep, SignalDisconnect, Call, GetBufferSlot, MakeMessage, FillWaiting, EnqueueWaiting,
     LoadPacketId, StorePacketId, EnqueueSlotForSend, JoinSessionThread, SendDisconnect,
     threadVars, historyVars
<1>2. UNCHANGED <<SubCalled, SubInHand>>
  BY <1>1 DEF SubCalled, SubInHand
<1>3. ASSUME UNCHANGED ack_queue  PROVE UNCHANGED SubEntries
  BY <1>3 DEF SubEntries
<1>4. ASSUME NEW k \in Kinds, Call(c, k)  PROVE SubOK'
  <2>1. UNCHANGED ack_queue /\ op' = [op EXCEPT ![c] = [kind |-> k, n |-> calls[k] + 1]]
        /\ calls[k] < MaxCalls[k]
    BY <1>4 DEF Call, clientVars
  <2>2. CASE k # "sub"
    <3>1. \A d \in Callers : ~Subscribes(d)'
      BY <1>0, <2>1, <2>2 DEF Subscribes
    <3> QED  BY <1>2, <1>3, <2>1, <3>1, SubStays DEF SubOK
  <2>3. CASE k = "sub"
    <3>1. calls["sub"] = 0
      <4>1. calls["sub"] \in Nat /\ (MaxCalls["sub"] = 0 \/ MaxCalls["sub"] = 1)
        BY DEF CallbackInv, IndInv, TypeOK, HistoryTypeOK, Orderly, Kinds
      <4> QED  BY <2>1, <2>3, <4>1
    <3>2. \A e : EntryOK(e) => e.ctx.kind # "sub"
      BY <3>1 DEF EntryOK
    <3>3. SubEntries = {}
      BY <3>2 DEF SubEntries, CallbackInv, RegisteredOK, Registers
    <3>4. ~SubInHand
      BY <3>2 DEF SubInHand, CallbackInv, HandOK, InHand
    <3>5. ~SubCalled
      BY <3>1 DEF SubCalled, CallbackInv, CalledOK
    <3> QED  BY <1>2, <1>3, <2>1, <3>3, <3>4, <3>5 DEF SubOK
  <2> QED  BY <2>2, <2>3
<1>5. CASE EnqueueWaiting(c)
  <2>1. /\ pc[c] = "wait" /\ ack_queue' = Append(ack_queue, entry[c]) /\ Advance(c) /\ UNCHANGED op
    BY <1>5 DEF EnqueueWaiting, enqueue
  <2>2. entry[c] \in Entries /\ entry[c].ctx = op[c]
    BY <2>1 DEF CallbackInv, IndInv, CallerOK, RequestsOK
  <2>3. op[c].kind = "sub" => pc'[c] = "send"
    BY <2>1, Flow DEF CallerSteps, Numbered
  <2>4. \A d \in Callers : ~Subscribes(d)'
    BY <1>0, <2>1, <2>3 DEF Subscribes
  <2>5. CASE op[c].kind # "sub"
    <3>1. (\A i, j \in SubEntries' : i = j) /\ (SubEntries = {} => SubEntries' = {})
      BY <1>0, <2>1, <2>2, <2>5, OtherRegistered
    <3> QED  BY <1>2, <2>4, <3>1, SubStays
  <2>6. CASE op[c].kind = "sub"
    <3>1. Subscribes(c)
      BY <2>1, <2>6 DEF Subscribes, CallerSteps
    <3>2. SubEntries = {} /\ ~SubInHand /\ ~SubCalled
      BY <3>1 DEF SubOK
    <3>3. \A i \in DOMAIN ack_queue' :
            (i \in DOMAIN ack_queue /\ ack_queue'[i] = ack_queue[i]) \/ i = Len(ack_queue) + 1
      BY <1>0, <2>1, <2>2
    <3>4. \A i \in SubEntries' : i = Len(ack_queue) + 1
      BY <3>2, <3>3 DEF SubEntries
    <3> QED  BY <1>2, <2>4, <3>2, <3>4 DEF SubOK
  <2> QED  BY <2>5, <2>6
<1>6. CASE ~EnqueueWaiting(c) /\ (CallerStep(c) \/ SignalDisconnect(c))
  <2>1. UNCHANGED <<ack_queue, op>>
    BY <1>6 DEF CallerStep, SignalDisconnect, GetBufferSlot, MakeMessage, FillWaiting,
       LoadPacketId, StorePacketId, EnqueueSlotForSend, JoinSessionThread, SendDisconnect, clientVars
  <2>2. \/ pc[c] \in CallerSteps \ {"send"} \/ pc' = pc \/ pc'[c] \in {"join", "bye", "gone"}
        \/ pc[c] = "send" /\ Advance(c)
    BY <1>0, <1>6 DEF CallerStep, SignalDisconnect, GetBufferSlot, MakeMessage, FillWaiting,
       LoadPacketId, StorePacketId, EnqueueSlotForSend, JoinSessionThread, SendDisconnect, CallerSteps, Goto
  <2>3. pc[c] = "send" /\ Advance(c) => pc'[c] = "idle"
    BY Flow DEF CallerSteps
  <2>4. \A d \in Callers : Subscribes(d)' => Subscribes(d)
    BY <1>0, <2>1, <2>2, <2>3 DEF Subscribes, CallerSteps
  <2> QED  BY <1>2, <1>3, <2>1, <2>4, SubStays DEF SubOK
<1> QED  BY <1>4, <1>5, <1>6

LEMMA SessionSub ==
  ASSUME CallbackInv, Orderly, NothingAfter, RoundTripInv, SubOK, SessionStep
  PROVE  SubOK'
<1>0. ack_queue \in Seq(Entries) /\ called \in Seq(Contexts)
  BY SeqTypes DEF CallbackInv, IndInv, TypeOK, HistoryTypeOK
<1>1. UNCHANGED <<pc, op>>
  BY DEF SessionStep, TopOfLoop, SendSlot, FreeSlot, ServerReceive, OnFinalAck, OnSuback,
     InvokeCallback, OnHandshake, OnPublish, Reply, RequeueWaiting, Deliver, Crash, callerVars
<1>2. \A c \in Callers : UNCHANGED Subscribes(c)
  BY <1>1 DEF Subscribes
<1>3. UNCHANGED called => UNCHANGED SubCalled
  BY DEF SubCalled
<1>4. UNCHANGED ack_queue => UNCHANGED SubEntries
  BY DEF SubEntries
<1>5. CASE InvokeCallback
  <2>1. tpc = "callback" /\ tpc' = "top" /\ called' = Append(called, waiting.ctx) /\ UNCHANGED ack_queue
    BY <1>5 DEF InvokeCallback, ThreadStep, clientVars
  <2>2. waiting.ctx \in Contexts
    BY <2>1 DEF CallbackInv, IndInv, ThreadOK, Entries
  <2>3. ~SubInHand'
    BY <2>1 DEF SubInHand
  <2>4. SubCalled' => SubCalled \/ waiting.ctx.kind = "sub"
    <3>1. \A i \in DOMAIN called' : (i \in DOMAIN called /\ called'[i] = called[i]) \/ called'[i] = waiting.ctx
      BY <1>0, <2>1, <2>2
    <3> QED  BY <3>1 DEF SubCalled
  <2>5. waiting.ctx.kind = "sub" => SubInHand
    BY <2>1 DEF SubInHand
  <2> QED  BY <1>2, <1>4, <2>1, <2>3, <2>4, <2>5 DEF SubOK
<1>6. CASE OnSuback
  <2>1. /\ tpc = "dispatch" /\ process = "running" /\ resp.type = "SUBACK" /\ UNCHANGED called
    BY <1>6 DEF OnSuback, ThreadStep, historyVars
  <2>2. \A i \in DOMAIN ack_queue : ack_queue[i].type = "SUBACK" => ack_queue[i].id = resp.id
    BY <2>1, HandlingUp, Matches DEF RoundTripInv, AckTypes
  <2>3. \/ UNCHANGED ack_queue /\ tpc' = "top"
        \/ \E i \in DOMAIN ack_queue :
             /\ ack_queue[i].type = "SUBACK" /\ ack_queue' = RemoveAt(ack_queue, i)
             /\ waiting' = ack_queue[i]
    BY <1>6, <2>2 DEF OnSuback, First, remove_from_queue
  <2>4. CASE UNCHANGED ack_queue /\ tpc' = "top"
    BY <1>2, <1>3, <1>4, <2>1, <2>4, SubStays DEF SubInHand, SubOK
  <2>5. ASSUME NEW i \in DOMAIN ack_queue, ack_queue[i].type = "SUBACK",
               ack_queue' = RemoveAt(ack_queue, i), waiting' = ack_queue[i]
        PROVE  SubOK'
    <3>1. /\ \A j, k \in SubEntries' : j = k
          /\ SubEntries = {} => SubEntries' = {}
          /\ i \in SubEntries => SubEntries' = {}
      BY <1>0, <2>5, SubTaken
    <3>2. SubInHand' => i \in SubEntries
      BY <2>5 DEF SubInHand, SubEntries
    <3> QED  BY <1>2, <1>3, <2>1, <3>1, <3>2 DEF SubOK
  <2> QED  BY <2>3, <2>4, <2>5
<1>7. ASSUME NEW t \in {"PINGRESP", "PUBACK", "PUBCOMP", "UNSUBACK", "PUBREC", "PUBREL"},
             OnFinalAck(t) \/ OnHandshake(t), t = "PUBREL" => tpc' # "callback"
      PROVE  SubOK'
  <2>1. UNCHANGED called
    BY <1>7 DEF OnFinalAck, OnHandshake, historyVars
  <2>2. \/ UNCHANGED ack_queue /\ tpc' = "top"
        \/ \E i \in DOMAIN ack_queue :
             ack_queue[i].type = t /\ ack_queue' = RemoveAt(ack_queue, i) /\ waiting' = ack_queue[i]
    BY <1>7 DEF OnFinalAck, OnHandshake, First, Hits, remove_from_queue
  <2>3. CASE UNCHANGED ack_queue /\ tpc' = "top"
    BY <1>2, <1>3, <1>4, <2>1, <2>3, SubStays DEF SubInHand, SubOK
  <2>4. ASSUME NEW i \in DOMAIN ack_queue, ack_queue[i].type = t,
               ack_queue' = RemoveAt(ack_queue, i), waiting' = ack_queue[i]
        PROVE  SubOK'
    <3>1. (\A j, k \in SubEntries' : j = k) /\ (SubEntries = {} => SubEntries' = {})
      BY <1>0, <2>4, SubTaken
    <3>2. t # "PUBREL" => EntryOK(ack_queue[i])
      BY <2>4 DEF CallbackInv, RegisteredOK, Registers
    <3>3. t # "PUBREL" => ack_queue[i].ctx.kind # "sub"
      BY <2>4, <3>2 DEF EntryOK, Once
    <3>4. ~SubInHand'
      BY <1>7, <2>4, <3>3 DEF SubInHand
    <3> QED  BY <1>2, <1>3, <2>1, <3>1, <3>4, SubStays
  <2> QED  BY <2>2, <2>3, <2>4
<1>8. CASE RequeueWaiting
  <2>1. tpc = "enqueue_waiting" /\ tpc' = "top" /\ ack_queue' = Append(ack_queue, waiting) /\ UNCHANGED called
    BY <1>8 DEF RequeueWaiting, ThreadStep, enqueue, historyVars
  <2>2. waiting \in Entries /\ waiting.type # "SUBACK"
    BY <2>1 DEF CallbackInv, IndInv, ThreadOK, HandOK
  <2>3. (\A i, j \in SubEntries' : i = j) /\ (SubEntries = {} => SubEntries' = {})
    BY <1>0, <2>1, <2>2, OtherRegistered
  <2> QED  BY <1>2, <1>3, <2>1, <2>3, SubStays DEF SubInHand
<1>9. CASE TopOfLoop \/ SendSlot \/ FreeSlot \/ ServerReceive \/ OnPublish \/ Reply \/ Deliver \/ Crash
  <2>1. UNCHANGED <<ack_queue, called>>
    BY <1>9 DEF TopOfLoop, SendSlot, FreeSlot, ServerReceive, OnPublish, Reply, Deliver, Crash,
       clientVars, historyVars
  <2>2. tpc' # "callback" \/ UNCHANGED <<tpc, waiting>>
    BY <1>9 DEF TopOfLoop, SendSlot, FreeSlot, ServerReceive, OnPublish, Reply, Deliver, Crash, threadVars
  <2> QED  BY <1>2, <1>3, <1>4, <2>1, <2>2, SubStays DEF SubInHand, SubOK
<1>10. ASSUME NEW t \in {"PUBREC", "PUBREL"}, OnHandshake(t)  PROVE tpc' # "callback"
  BY <1>10 DEF OnHandshake
<1> QED  BY <1>5, <1>6, <1>7, <1>8, <1>9, <1>10 DEF SessionStep

LEMMA SubStep ==
  ASSUME CallbackInv, Orderly, NothingAfter, RoundTripInv, AcceptedOK, SubOK, [Next]_vars
  PROVE  SubOK'
<1>1. ASSUME BrokerStep \/ BrokerClose \/ (\E q \in 0..2 : BrokerPublish(q)) \/ UNCHANGED vars
      PROVE  SubOK'
  <2>1. UNCHANGED <<ack_queue, called, tpc, waiting, pc, op>>
    BY <1>1 DEF BrokerStep, BrokerReceive, BrokerAnswer, BrokerClose, BrokerPublish, vars,
       clientVars, callerVars, threadVars, historyVars
  <2> QED  BY <2>1 DEF SubOK, SubEntries, SubInHand, SubCalled, Subscribes
<1> QED  BY <1>1, CallerSub, SessionSub DEF Next

-----------------------------------------------------------------------------
(* The broker's publications.                                              *)

LEMMA UnderwayStays ==
  ASSUME UnderwayOK, UNCHANGED pushes, \A x : Underway(x) => Underway(x)'
  PROVE  UnderwayOK'
  BY DEF UnderwayOK

\* A step that only sends, or moves the thread outside of the handling of a
\* publication.
LEMMA UnderwayQuiet ==
  ASSUME UNCHANGED <<delivered, toClient, owed>>, ToSet(toServer) \subseteq ToSet(toServer'),
         tpc \in {"dispatch", "reply", "deliver"} /\ resp.type \in PushTypes =>
           tpc' \in {"dispatch", "reply", "deliver"} /\ resp' = resp
  PROVE  \A x : Underway(x) => Underway(x)'
  BY DEF Underway

LEMMA SendKeeps ==
  ASSUME CallbackInv, NEW m \in Messages, SendOk(m) \/ SendFails
  PROVE  ToSet(toServer) \subseteq ToSet(toServer')
<1>1. toServer' = toServer \/ toServer' = Append(toServer, m)
  BY DEF SendOk, SendFails
<1>2. ToSet(Append(toServer, m)) = ToSet(toServer) \cup {m}
  BY SeqTypes, AppendFacts
<1> QED  BY <1>1, <1>2

LEMMA CallerUnderway ==
  ASSUME CallbackInv, NEW c \in Callers,
         CallerStep(c) \/ SignalDisconnect(c) \/ \E k \in Kinds : Call(c, k)
  PROVE  UNCHANGED pushes /\ \A x : Underway(x) => Underway(x)'
<1>1. UNCHANGED <<delivered, owed, toClient, tpc, resp, pushes>>
  BY DEF CallerStep, SignalDisconnect, Call, GetBufferSlot, MakeMessage, FillWaiting, EnqueueWaiting,
     LoadPacketId, StorePacketId, EnqueueSlotForSend, JoinSessionThread, SendDisconnect,
     threadVars, netVars, historyVars
<1>2. ToSet(toServer) \subseteq ToSet(toServer')
  <2>1. CASE SendDisconnect(c)
    <3> DEFINE b == Msg("DISCONNECT", 0, 0, [kind |-> "bye", n |-> 1])
    <3>1. b \in Messages
      BY MaxIdType DEF Msg, Messages, Requests, PacketIds, Contexts
    <3>2. SendOk(b) \/ UNCHANGED toServer
      BY <2>1 DEF SendDisconnect
    <3> HIDE DEF b
    <3> QED  BY <3>1, <3>2, SendKeeps
  <2>2. CASE ~SendDisconnect(c)
    <3>1. UNCHANGED toServer
      BY <2>2 DEF CallerStep, SignalDisconnect, Call, GetBufferSlot, MakeMessage, FillWaiting,
         EnqueueWaiting, LoadPacketId, StorePacketId, EnqueueSlotForSend, JoinSessionThread, netVars
    <3> QED  BY <3>1
  <2> QED  BY <2>1, <2>2
<1> QED  BY <1>1, <1>2, UnderwayQuiet

\* The copy of a publication whose PUBREL has come is there.
LEMMA CopyFound ==
  ASSUME CallbackInv, PacketsOK, CopiesOK, tpc = "dispatch", resp.type = "PUBREL"
  PROVE  Hits("PUBREL", resp.id) # {}
<1>1. <<resp.id, resp.ctx>> \in Copies
  BY DEF CopiesOK, Releases
<1>2. <<resp.id, resp.ctx>> \in Tags(ack_queue, "PUBREL")
  BY <1>1 DEF Copies, Storing
<1>3. PICK i \in DOMAIN ack_queue :
        ack_queue[i].type = "PUBREL" /\ <<resp.id, resp.ctx>> = <<ack_queue[i].id, ack_queue[i].ctx>>
  BY <1>2 DEF Tags
<1> QED  BY <1>3 DEF Hits

LEMMA SessionUnderway ==
  ASSUME CallbackInv, SlotsOK, PacketsOK, CopiesOK, MsgCallback, link = "up", link' = "up", SessionStep
  PROVE  UNCHANGED pushes /\ \A x : Underway(x) => Underway(x)'
<1>0. /\ toClient \in Seq(Messages) /\ owed \in Seq(Messages) /\ toServer \in Seq(Messages)
      /\ delivered \in Seq(Contexts)
  BY SeqTypes DEF CallbackInv, IndInv, TypeOK, HistoryTypeOK
<1>1. UNCHANGED <<pushes, owed>>
  BY DEF SessionStep, TopOfLoop, SendSlot, FreeSlot, ServerReceive, OnFinalAck, OnSuback,
     InvokeCallback, OnHandshake, OnPublish, Reply, RequeueWaiting, Deliver, Crash, netVars, historyVars
<1>2. CASE TopOfLoop \/ FreeSlot \/ InvokeCallback \/ RequeueWaiting \/ Crash \/ OnPublish
  <2>1. UNCHANGED <<delivered, toClient, toServer, resp>>
    BY <1>2 DEF TopOfLoop, FreeSlot, InvokeCallback, RequeueWaiting, Crash, OnPublish,
       threadVars, netVars, historyVars
  <2>2. \/ tpc \notin {"dispatch", "reply", "deliver"} \/ UNCHANGED tpc
        \/ tpc' \in {"dispatch", "reply", "deliver"}
    BY <1>2 DEF TopOfLoop, FreeSlot, InvokeCallback, RequeueWaiting, Crash, OnPublish, ThreadStep, threadVars
  <2> QED  BY <1>1, <2>1, <2>2, UnderwayQuiet
<1>3. CASE SendSlot
  <2>1. /\ tpc = "send" /\ (SendOk(buffer_slots[position]) \/ SendFails)
        /\ UNCHANGED <<delivered, toClient>>
    BY <1>3 DEF SendSlot, ThreadStep
  <2>2. buffer_slots[position] \in Messages
    BY <2>1 DEF CallbackInv, IndInv, ThreadOK
  <2> QED  BY <1>1, <2>1, <2>2, SendKeeps, UnderwayQuiet
<1>4. CASE ServerReceive
  <2>1. tpc = "receive" /\ UNCHANGED <<delivered, toServer>>
    BY <1>4 DEF ServerReceive, ThreadStep, historyVars
  <2>2. CASE toClient = <<>>
    BY <1>1, <1>4, <2>1, <2>2, UnderwayQuiet DEF ServerReceive
  <2>3. CASE toClient # <<>>
    <3>1. /\ resp' = [Head(toClient) EXCEPT !.id = Wire(Head(toClient).id)]
          /\ toClient' = Tail(toClient) /\ tpc' = "dispatch"
      BY <1>4, <2>3 DEF ServerReceive
    <3>2. Head(toClient) \in Messages /\ \A m \in ToSet(toClient) : m = Head(toClient) \/ m \in ToSet(toClient')
      BY <1>0, <2>3, <3>1, TailRange, TailFacts
    <3>3. resp'.ctx = Head(toClient).ctx /\ resp'.type = Head(toClient).type
      BY <3>1, <3>2 DEF Messages
    <3> QED  BY <1>1, <2>1, <3>1, <3>2, <3>3 DEF Underway
  <2> QED  BY <2>2, <2>3
<1>5. ASSUME OnSuback \/ \E t \in {"PINGRESP", "PUBACK", "PUBCOMP", "UNSUBACK"} : OnFinalAck(t)
      PROVE  \A x : Underway(x) => Underway(x)'
  <2>1. UNCHANGED <<delivered, toClient, toServer>> /\ resp.type \notin PushTypes
    BY <1>5 DEF OnSuback, OnFinalAck, netVars, historyVars, PushTypes
  <2> QED  BY <1>1, <2>1, UnderwayQuiet
<1>6. ASSUME NEW t \in {"PUBREC", "PUBREL"}, OnHandshake(t)
      PROVE  \A x : Underway(x) => Underway(x)'
  <2>1. UNCHANGED <<delivered, toClient, toServer, resp>> /\ resp.type = t /\ tpc = "dispatch"
    BY <1>6 DEF OnHandshake, netVars, historyVars, ThreadStep
  <2>2. t = "PUBREL" => tpc' = "reply"
    BY <1>6, <2>1, CopyFound DEF OnHandshake
  <2> QED  BY <1>1, <2>1, <2>2, UnderwayQuiet DEF PushTypes
<1>7. CASE Reply
  <2> DEFINE m == Msg(ReplyType, 0, Wire(resp.id), resp.ctx)
  <2>1. tpc = "reply" /\ SendOk(m) /\ UNCHANGED <<delivered, toClient, resp>>
    BY <1>7 DEF Reply, ThreadStep, SendFails, historyVars
  <2>2. m.type = ReplyType /\ m.ctx = resp.ctx /\ m \in Messages
    <3>1. ReplyType \in Replies
      BY DEF ReplyType, Replies
    <3>2. resp \in Messages
      BY <2>1 DEF CallbackInv, IndInv, ThreadOK
    <3>3. Wire(resp.id) \in PacketIds /\ resp.ctx \in Contexts
      BY <3>2, WireType DEF Messages
    <3> QED  BY <3>1, <3>3 DEF Msg, Messages
  <2> HIDE DEF m
  <2>3. CASE resp.type = "PUBLISH" /\ resp.qos = 2
    <3>1. m.type = "PUBREC"
      BY <2>2, <2>3 DEF ReplyType
    <3>2. toServer' = Append(toServer, m)
      BY <2>1 DEF SendOk
    <3>3. ToSet(toServer') = ToSet(toServer) \cup {m}
      BY <1>0, <2>2, <3>2, AppendFacts
    <3> QED  BY <1>1, <2>1, <2>2, <3>1, <3>3 DEF Underway
  <2>4. CASE ~(resp.type = "PUBLISH" /\ resp.qos = 2)
    <3>1. resp.type \in PushTypes => tpc' = "deliver"
      BY <1>7, <2>4 DEF Reply, PushTypes, SendFails
    <3> QED  BY <1>1, <2>1, <2>2, <3>1, SendKeeps, UnderwayQuiet
  <2> QED  BY <1>1, <2>3, <2>4
<1>8. CASE Deliver
  <2>1. tpc = "deliver" /\ delivered' = Append(delivered, Delivering) /\ UNCHANGED <<toClient, toServer>>
    BY <1>8 DEF Deliver, ThreadStep, netVars
  <2>2. Delivering = resp.ctx /\ resp.ctx \in Contexts
    <3>1. resp \in Messages
      BY <2>1 DEF CallbackInv, IndInv, ThreadOK
    <3> QED  BY <2>1, <3>1 DEF Delivering, PacketsOK, Messages
  <2>3. ToSet(delivered') = ToSet(delivered) \cup {resp.ctx}
    BY <1>0, <2>1, <2>2, AppendFacts
  <2> QED  BY <1>1, <2>1, <2>3 DEF Underway
<1> QED  BY <1>1, <1>2, <1>3, <1>4, <1>5, <1>6, <1>7, <1>8 DEF SessionStep

LEMMA BrokerUnderway ==
  ASSUME CallbackInv, BrokerStep \/ BrokerClose \/ \E q \in 0..2 : BrokerPublish(q)
  PROVE  \A x : Underway(x) => Underway(x)'
<1>0. /\ UNCHANGED <<delivered, tpc, resp>>
      /\ toClient \in Seq(Messages) /\ owed \in Seq(Messages) /\ toServer \in Seq(Messages)
  BY SeqTypes DEF BrokerStep, BrokerReceive, BrokerAnswer, BrokerClose, BrokerPublish,
     threadVars, historyVars
<1>1. CASE BrokerReceive
  <2> DEFINE m == Head(toServer)
  <2>1. toServer # <<>> /\ toServer' = Tail(toServer) /\ owed' = owed \o Answer(m) /\ UNCHANGED toClient
    BY <1>1 DEF BrokerReceive
  <2>2. m \in Messages /\ \A x \in ToSet(toServer) : x = m \/ x \in ToSet(toServer')
    BY <1>0, <2>1, TailRange, TailFacts
  <2> HIDE DEF m
  <2> DEFINE a == Answer(m)[1]
  <2>3. CASE Answer(m) = <<>>
    <3>1. m.type # "PUBREC" /\ owed' = owed
      BY <1>0, <2>1, <2>3, AnswerTraced
    <3> QED  BY <1>0, <2>1, <2>2, <3>1 DEF Underway
  <2>4. CASE Answer(m) # <<>>
    <3>1. Answer(m) = <<a>> /\ a.ctx = m.ctx /\ (m.type = "PUBREC" => a.type = "PUBREL")
      BY <2>4, AnswerTraced
    <3> HIDE DEF a
    <3>2. owed \in Seq(Messages \cup {a}) /\ owed' = Append(owed, a)
      BY <1>0, <2>1, <3>1
    <3>3. ToSet(owed') = ToSet(owed) \cup {a}
      BY <3>2, AppendFacts
    <3> QED  BY <1>0, <2>1, <2>2, <3>1, <3>3 DEF Underway
  <2> QED  BY <2>3, <2>4
<1>2. CASE BrokerAnswer
  <2>1. PICK i \in DOMAIN owed : toClient' = Append(toClient, owed[i]) /\ owed' = RemoveAt(owed, i)
    BY <1>2 DEF BrokerAnswer
  <2>2. UNCHANGED toServer
    BY <1>2 DEF BrokerAnswer
  <2>3. owed[i] \in Messages
    BY <1>0, <2>1
  <2>4. \A x \in ToSet(owed) : x = owed[i] \/ x \in ToSet(owed')
    BY <1>0, <2>1, RemoveRange
  <2>5. ToSet(toClient') = ToSet(toClient) \cup {owed[i]}
    BY <1>0, <2>1, <2>3, AppendFacts
  <2> QED  BY <1>0, <2>2, <2>4, <2>5 DEF Underway, PushTypes
<1>3. ASSUME NEW q \in 0..2, BrokerPublish(q)  PROVE \A x : Underway(x) => Underway(x)'
  <2>1. UNCHANGED <<toServer, owed>> /\ \E m : toClient' = Append(toClient, m)
    BY <1>3 DEF BrokerPublish
  <2>2. PICK m : toClient' = Append(toClient, m)
    BY <2>1
  <2>3. toClient \in Seq(Messages \cup {m})
    BY <1>0
  <2>4. ToSet(toClient') = ToSet(toClient) \cup {m}
    BY <2>2, <2>3, AppendFacts
  <2> QED  BY <1>0, <2>1, <2>4 DEF Underway
<1>4. CASE BrokerClose
  BY <1>0, <1>4, UnderwayQuiet DEF BrokerClose
<1> QED  BY <1>1, <1>2, <1>3, <1>4 DEF BrokerStep

LEMMA UnderwayStep ==
  ASSUME CallbackInv, LineInv, MsgCallback, link' = "up",
         link = "up" => UnderwayOK, [Next]_vars
  PROVE  UnderwayOK'
<1>0. link = "up" /\ SlotsOK /\ PacketsOK /\ CopiesOK /\ UnderwayOK
  BY NeverUpAgain DEF LineInv
<1>1. ASSUME NEW q \in 0..2, BrokerPublish(q)  PROVE UnderwayOK'
  <2> DEFINE y == [kind |-> SrvKind[q + 1], n |-> pushes[q] + 1]
  <2>1. PICK id : toClient' = Append(toClient, Msg("PUBLISH", q, id, y))
    BY <1>1 DEF BrokerPublish
  <2> DEFINE m == Msg("PUBLISH", q, id, y)
  <2>2. m.type = "PUBLISH" /\ m.ctx = y
    BY DEF Msg
  <2>3. pushes' = [pushes EXCEPT ![q] = @ + 1] /\ pushes \in [0..2 -> Nat] /\ toClient \in Seq(Messages)
    BY <1>1, SeqTypes DEF BrokerPublish, CallbackInv, IndInv, TypeOK, HistoryTypeOK
  <2> HIDE DEF m
  <2>4. toClient \in Seq(Messages \cup {m}) /\ toClient' = Append(toClient, m)
    BY <2>1, <2>3 DEF m
  <2>5. m \in ToSet(toClient')
    BY <2>4, AppendFacts
  <2>6. \A x : Underway(x) => Underway(x)'
    BY <1>1, BrokerUnderway
  <2>7. ASSUME NEW p \in 0..2, NEW n \in 1..pushes'[p]
        PROVE  Underway([kind |-> SrvKind[p + 1], n |-> n])'
    <3>1. CASE n \in 1..pushes[p]
      <4>1. Underway([kind |-> SrvKind[p + 1], n |-> n])
        BY <1>0, <3>1 DEF UnderwayOK
      <4> QED  BY <2>6, <4>1 DEF SrvKind
    <3>2. CASE n \notin 1..pushes[p]
      <4>1. p = q /\ n = pushes[q] + 1
        BY <2>3, <2>7, <3>2
      <4>2. \E e \in ToSet(toClient') : e.type \in PushTypes /\ e.ctx = [kind |-> SrvKind[p + 1], n |-> n]
        BY <2>2, <2>5, <4>1 DEF PushTypes
      <4> QED  BY <4>2 DEF Underway, SrvKind
    <3> QED  BY <3>1, <3>2
  <2> QED  BY <2>7 DEF UnderwayOK
<1>2. ASSUME BrokerStep \/ BrokerClose  PROVE UNCHANGED pushes
  BY <1>2 DEF BrokerStep, BrokerReceive, BrokerAnswer, BrokerClose, historyVars
<1>3. ASSUME UNCHANGED vars  PROVE UNCHANGED pushes /\ \A x : Underway(x) => Underway(x)'
  <2>1. UNCHANGED <<delivered, toClient, owed, toServer, tpc, resp, pushes>>
    BY <1>3 DEF vars, threadVars, netVars, historyVars
  <2> QED  BY <2>1, UnderwayQuiet
<1> QED  BY <1>0, <1>1, <1>2, <1>3, CallerUnderway, SessionUnderway, BrokerUnderway, UnderwayStays DEF Next

-----------------------------------------------------------------------------
(* Each step is a step of AsyncClient or none.                             *)

LEMMA PendingType == IndInv => Pending \in Seq(Contexts)
<1> SUFFICES ASSUME IndInv  PROVE Pending \in Seq(Contexts)
  OBVIOUS
<1>1. Queued \in Seq(Contexts)
  BY QueuedType
<1>2. tpc = "send" => buffer_slots[position].ctx \in Contexts
  BY DEF IndInv, ThreadOK, Messages
<1>3. (IF tpc = "send" THEN <<buffer_slots[position].ctx>> ELSE <<>>) \in Seq(Contexts)
  BY <1>2
<1> QED  BY <1>1, <1>3, ConcatFacts DEF Pending, Queued

\* What the abstract queue does follows from SendFifo.
LEMMA PendingStep ==
  ASSUME FifoInv, FifoInv'
  PROVE  /\ UNCHANGED <<accepted, sent>> => UNCHANGED Pending
         /\ \A x \in Contexts :
              UNCHANGED sent /\ accepted' = Append(accepted, x) => Pending' = Append(Pending, x)
         /\ \A x \in Contexts :
              UNCHANGED accepted /\ sent' = Append(sent, x) =>
                Pending # <<>> /\ Head(Pending) = x /\ Pending' = Tail(Pending)
<1>1. /\ Pending \in Seq(Contexts) /\ Pending' \in Seq(Contexts) /\ sent \in Seq(Contexts)
      /\ accepted = sent \o Pending /\ accepted' = sent' \o Pending'
  <2>1. IndInv /\ IndInv'
    BY DEF FifoInv
  <2>2. Pending \in Seq(Contexts)
    BY <2>1, PendingType
  <2>3. (Pending \in Seq(Contexts))'
    BY <2>1, PendingType, PTL
  <2> QED  BY <2>1, <2>2, <2>3 DEF FifoInv, SendFifo, IndInv, TypeOK, HistoryTypeOK
<1> DEFINE p == Pending
           q == Pending'
<1>2. p \in Seq(Contexts) /\ q \in Seq(Contexts) /\ accepted = sent \o p /\ accepted' = sent' \o q
  BY <1>1
<1> HIDE DEF p, q
<1>3. ASSUME UNCHANGED <<accepted, sent>>  PROVE q = p
  <2>1. sent \o q = sent \o p
    BY <1>2, <1>3
  <2> QED  BY <1>1, <1>2, <2>1, Cancel
<1>4. ASSUME NEW x \in Contexts, UNCHANGED sent, accepted' = Append(accepted, x)
      PROVE  q = Append(p, x)
  <2>0. sent \o Append(p, x) = Append(sent \o p, x)
    <3>1. sent \in Seq(Contexts) /\ p \in Seq(Contexts) /\ x \in Contexts
      BY <1>1, <1>2
    <3> QED  BY <3>1, ConcatAppend
  <2>1. sent \o q = sent \o Append(p, x)
    BY <1>2, <1>4, <2>0
  <2>2. Append(p, x) \in Seq(Contexts)
    BY <1>2
  <2> QED  BY <1>1, <1>2, <2>1, <2>2, Cancel
<1>5. ASSUME NEW x \in Contexts, UNCHANGED accepted, sent' = Append(sent, x)
      PROVE  p # <<>> /\ Head(p) = x /\ q = Tail(p)
  <2>0. sent \o (<<x>> \o q) = Append(sent, x) \o q
    <3>1. sent \in Seq(Contexts) /\ q \in Seq(Contexts) /\ x \in Contexts
      BY <1>1, <1>2
    <3> QED  BY ONLY <3>1, ConcatCons, Zenon
  <2>1. sent \o p = sent \o (<<x>> \o q)
    BY <1>2, <1>5, <2>0
  <2>2. <<x>> \o q \in Seq(Contexts)
    BY <1>2
  <2>3. p = <<x>> \o q
    BY <1>1, <1>2, <2>1, <2>2, Cancel
  <2>4. <<x>> \o q # <<>> /\ Head(<<x>> \o q) = x /\ Tail(<<x>> \o q) = q
    BY <1>2
  <2> QED  BY <2>3, <2>4
<1> QED  BY <1>3, <1>4, <1>5 DEF p, q

\* The contexts of calls that were accepted or sent are within the bounds.
LEMMA KnownContexts ==
  ASSUME FifoInv, AcceptedOK
  PROVE  /\ ToSet(sent) \subseteq ToSet(accepted) /\ ToSet(Pending) \subseteq ToSet(accepted)
         /\ \A x \in ToSet(accepted) : x \in CallContexts(Kinds)
<1>1. /\ sent \in Seq(Contexts) /\ Pending \in Seq(Contexts) /\ accepted = sent \o Pending
      /\ accepted \in Seq(Contexts) /\ calls \in [Kinds \cup {"disconnect"} -> Nat]
  BY PendingType DEF FifoInv, SendFifo, IndInv, TypeOK, HistoryTypeOK
<1>2. ToSet(accepted) = ToSet(sent) \cup ToSet(Pending)
  BY <1>1, ConcatRange
<1>3. ASSUME NEW x \in ToSet(accepted)  PROVE x \in CallContexts(Kinds)
  <2>1. x \in Contexts /\ x.kind \in Kinds /\ x.n \in 1..calls[x.kind] /\ calls[x.kind] <= MaxCalls[x.kind]
    BY <1>1, ToSetType DEF AcceptedOK
  <2>2. x = [kind |-> x.kind, n |-> x.n]
    BY <2>1 DEF Contexts
  <2>3. x.n \in 1..MaxCalls[x.kind]
    <3>1. calls[x.kind] \in Nat /\ MaxCalls[x.kind] \in Nat
      BY <1>1, <2>1, BoundAssumption
    <3> QED  BY <2>1, <3>1
  <2> QED  BY <2>1, <2>2, <2>3 DEF CallContexts
<1> QED  BY <1>2, <1>3

\* An API call returns: Accept.
LEMMA AcceptRefines ==
  ASSUME FifoInv, FifoInv', CallbackInv, AcceptedOK, NEW c \in Callers, EnqueueSlotForSend(c)
  PROVE  \E x \in CallContexts(Kinds) : Async!Accept(x)
<1>1. /\ accepted' = Append(accepted, op[c]) /\ pc[c] = "send"
      /\ UNCHANGED <<sent, answered, called, pushes, delivered>>
  BY DEF EnqueueSlotForSend
<1>2. op[c] \in [kind : Kinds, n : Nat] /\ calls \in [Kinds \cup {"disconnect"} -> Nat]
  BY DEF CallbackInv, IndInv, TypeOK, CallerTypeOK, HistoryTypeOK
<1>3. op[c] \in Contexts /\ op[c].kind \in Kinds /\ op[c].n \in Nat /\ op[c] = [kind |-> op[c].kind, n |-> op[c].n]
  BY <1>2 DEF Contexts
<1>4. Pending' = Append(Pending, op[c])
  BY <1>1, <1>3, PendingStep
<1>5. op[c] \notin ToSet(Pending) \cup ToSet(sent)
  BY <1>1, KnownContexts DEF AcceptedOK, CallerSteps
<1>6. op[c].n \in 1..MaxCalls[op[c].kind]
  <2>1. op[c].n >= 1 /\ op[c].n <= calls[op[c].kind]
    BY <1>1 DEF CallbackInv, RequestsOK, CallerSteps
  <2>2. calls[op[c].kind] <= MaxCalls[op[c].kind] /\ calls[op[c].kind] \in Nat /\ MaxCalls[op[c].kind] \in Nat
    BY <1>2, <1>3, BoundAssumption DEF AcceptedOK
  <2> QED  BY <1>3, <2>1, <2>2
<1>7. op[c] \in CallContexts(Kinds)
  BY <1>3, <1>6 DEF CallContexts
<1>8. Async!Accept(op[c])
  BY <1>1, <1>4, <1>5 DEF Async!Accept, Async!ToSet, ToSet
<1> QED  BY <1>7, <1>8

\* A slot is handed to server_send: Transmit.
LEMMA TransmitRefines ==
  ASSUME FifoInv, FifoInv', SendSlot
  PROVE  Async!Transmit
<1>1. /\ sent' = Append(sent, buffer_slots[position].ctx) /\ tpc = "send"
      /\ UNCHANGED <<accepted, answered, called, pushes, delivered>>
  BY DEF SendSlot, ThreadStep
<1>2. buffer_slots[position].ctx \in Contexts
  BY <1>1 DEF FifoInv, IndInv, ThreadOK, Messages
<1>3. Pending # <<>> /\ Head(Pending) = buffer_slots[position].ctx /\ Pending' = Tail(Pending)
  BY <1>1, <1>2, PendingStep
<1> QED  BY <1>1, <1>3 DEF Async!Transmit

\* The broker's acknowledgement: Acknowledge with a final one, else nothing.
LEMMA AcknowledgeRefines ==
  ASSUME FifoInv, FifoInv', CallbackInv, AcceptedOK, TracedOK, BrokerAnswer
  PROVE  (\E x \in CallContexts(Kinds) : Async!Acknowledge(x)) \/ UNCHANGED Async!vars
<1>1. UNCHANGED <<accepted, sent, called, pushes, delivered>> /\ owed \in Seq(Messages)
  BY SeqTypes DEF BrokerAnswer
<1>2. UNCHANGED Pending
  BY <1>1, PendingStep
<1>3. PICK i \in DOMAIN owed :
        answered' = IF owed[i].type \in {"PUBREC", "PUBREL"} THEN answered ELSE answered \cup {owed[i].ctx}
  BY DEF BrokerAnswer
<1> DEFINE m == owed[i]
<1>4. CASE m.type \in {"PUBREC", "PUBREL"} \/ m.ctx \in answered
  <2>1. UNCHANGED answered
    BY <1>3, <1>4
  <2> QED  BY <1>1, <1>2, <2>1 DEF Async!vars
<1>5. CASE m.type \notin {"PUBREC", "PUBREL"} /\ m.ctx \notin answered
  <2>1. answered' = answered \cup {m.ctx}
    BY <1>3, <1>5
  <2>2. m.ctx \in ToSet(sent)
    <3>1. m \in ToSet(owed)
      BY <1>3 DEF ToSet
    <3> QED  BY <1>5, <3>1 DEF TracedOK, OwedTraced
  <2>3. m.ctx \in CallContexts(Kinds)
    BY <2>2, KnownContexts
  <2>4. Async!Acknowledge(m.ctx)
    BY <1>1, <1>2, <1>5, <2>1, <2>2 DEF Async!Acknowledge, Async!ToSet, ToSet
  <2> QED  BY <2>3, <2>4
<1> QED  BY <1>4, <1>5

\* The callback is called: Notify.
LEMMA NotifyRefines ==
  ASSUME FifoInv, FifoInv', CallbackInv, NothingAfter, RoundTripInv, AcceptedOK, SubOK, InvokeCallback
  PROVE  \E x \in CallContexts(Kinds) : Async!Notify(x)
<1>1. /\ process = "running" /\ tpc = "callback" /\ called' = Append(called, waiting.ctx)
      /\ UNCHANGED <<accepted, sent, answered, pushes, delivered>>
  BY DEF InvokeCallback, ThreadStep
<1>2. UNCHANGED Pending
  BY <1>1, PendingStep
<1>3. waiting.ctx \in answered
  BY <1>1, HandlingUp DEF RoundTripInv, RoundOK, AnsweredOK
<1>4. /\ waiting \in Entries /\ waiting.ctx.kind \in Once \cup {"sub"} /\ EntryOK(waiting)
      /\ Unknown(waiting.ctx)
  BY <1>1 DEF CallbackInv, IndInv, ThreadOK, HandOK, OnePlace, InHand
<1>5. waiting.ctx \notin ToSet(called)
  <2>1. CASE waiting.ctx.kind \in Once
    BY <1>4, <2>1 DEF Unknown, ToSet
  <2>2. CASE waiting.ctx.kind = "sub"
    BY <1>1, <2>2 DEF SubOK, SubInHand, SubCalled, ToSet
  <2> QED  BY <1>4, <2>1, <2>2
<1>6. waiting.ctx \in CallContexts(Kinds)
  <2> DEFINE x == waiting.ctx
  <2>1. x \in Contexts /\ x.kind \in Kinds /\ x.n \in 1..calls[x.kind]
    BY <1>4 DEF EntryOK, Entries
  <2> HIDE DEF x
  <2>2. x = [kind |-> x.kind, n |-> x.n]
    BY <2>1 DEF Contexts
  <2>3. calls[x.kind] <= MaxCalls[x.kind] /\ calls[x.kind] \in Nat /\ MaxCalls[x.kind] \in Nat
    BY <2>1, BoundAssumption DEF AcceptedOK, CallbackInv, IndInv, TypeOK, HistoryTypeOK
  <2>4. x.n \in 1..MaxCalls[x.kind]
    BY <2>1, <2>3
  <2>5. x \in CallContexts(Kinds)
    BY <2>1, <2>2, <2>4 DEF CallContexts
  <2> QED  BY <2>5 DEF x
<1>7. Async!Notify(waiting.ctx)
  BY <1>1, <1>2, <1>3, <1>5 DEF Async!Notify, Async!ToSet, ToSet
<1> QED  BY <1>6, <1>7

\* The broker publishes: Publish.
LEMMA PublishRefines ==
  ASSUME FifoInv, FifoInv', NEW q \in 0..2, BrokerPublish(q)
  PROVE  Async!Publish(q)
<1>1. /\ pushes' = [pushes EXCEPT ![q] = @ + 1]
      /\ UNCHANGED <<accepted, sent, answered, called, delivered>>
  BY DEF BrokerPublish
<1>2. UNCHANGED Pending
  BY <1>1, PendingStep
<1> QED  BY <1>1, <1>2 DEF Async!Publish

\* msg_callback is called with the publication after all those delivered.
LEMMA NextDelivered ==
  ASSUME CallbackInv, LineInv, NothingAfter, TracedOK, UnderwayOK, process = "running", tpc = "deliver"
  PROVE  \E q \in 0..2 : \E n \in 1..pushes[q] :
           /\ Delivering = [kind |-> SrvKind[q + 1], n |-> n]
           /\ \A m \in 1..pushes[q] : [kind |-> SrvKind[q + 1], n |-> m] \in ToSet(delivered) <=> m < n
<1>1. link = "up"
  BY DEF NothingAfter, CallbackInv, IndInv, TypeOK, NetTypeOK
<1>2. OrderOK /\ PacketsOK
  BY <1>1 DEF LineInv
<1>3. /\ resp.type = "PUBREL" \/ (resp.type = "PUBLISH" /\ resp.qos # 2)
      /\ Delivering = resp.ctx /\ resp \in Messages /\ PacketOK(resp)
  BY <1>2 DEF PacketsOK, Delivering, CallbackInv, IndInv, ThreadOK
<1> DEFINE k == resp.ctx.kind
           n == resp.ctx.n
<1>4. k \in SrvKinds /\ n \in Nat /\ n >= 1 /\ resp.ctx = [kind |-> k, n |-> n]
  BY <1>3 DEF PacketOK, SrvKinds, Messages, Contexts, TracedOK, ClientTraced
<1> DEFINE q == Qos(k)
<1>5. q \in 0..2 /\ SrvKind[q + 1] = k
  BY <1>4 DEF Qos, SrvKind, SrvKinds
<1>6. pushes[q] \in Nat
  BY <1>5 DEF CallbackInv, IndInv, TypeOK, HistoryTypeOK
<1>7. /\ Line(k)[2] = Handled("PUBREL", k) /\ Line(k)[3] = Numbers(toClient, "PUBREL", k)
      /\ Line(k)[4] = Numbers(owed, "PUBREL", k) /\ Line(k)[5] = Numbers(toServer, "PUBREC", k)
      /\ Line(k)[6] = Handled("PUBLISH", k) /\ Line(k)[7] = Numbers(toClient, "PUBLISH", k)
      /\ Line(k)[8] = {pushes[q] + 1}
  BY DEF Line
<1>8. InLine(Line(k))
  BY <1>2, <1>4 DEF OrderOK
<1>9. n \in Line(k)[2] \/ (n \in Line(k)[6] /\ k # "srv2")
  BY <1>3, <1>7 DEF Handled, PacketOK, Qos
<1>10. n < pushes[q] + 1
  BY <1>7, <1>8, <1>9 DEF InLine
<1>11. n \in 1..pushes[q]
  BY <1>4, <1>6, <1>10
<1>12. \A m \in ToSet(delivered) : m.kind = k => m.n < n
  BY <1>3, DeliveringLast DEF ToSet
\* Whatever is still on its way comes later.
<1>13. \A a \in 3..7 : \A y \in Line(k)[a] : n <= y
  <2>1. CASE n \in Line(k)[2]
    <3>1. \A a \in 3..7 : \A y \in Line(k)[a] : n < y
      BY <1>8, <2>1 DEF InLine
    <3>2. \A a \in 3..7 : Line(k)[a] \subseteq Nat
      BY LineType, <1>4 DEF CallbackInv
    <3> QED  BY <1>4, <3>1, <3>2
  <2>2. CASE n \in Line(k)[6] /\ k # "srv2"
    <3>1. Line(k)[3] = {} /\ Line(k)[4] = {} /\ Line(k)[5] = {}
      BY <1>2, <1>7, <2>2 DEF Numbers, About, PacketsOK, PacketOK
    <3>2. \A y \in Line(k)[7] : n < y
      BY <1>8, <2>2 DEF InLine
    <3>3. Line(k)[7] \subseteq Nat
      BY LineType, <1>4 DEF CallbackInv
    <3>4. \A y \in Line(k)[6] : y = n
      BY <1>7 DEF Handled
    <3>5. \A a \in 3..7 : a = 3 \/ a = 4 \/ a = 5 \/ a = 6 \/ a = 7
      OBVIOUS
    <3> QED  BY <1>4, <3>1, <3>2, <3>3, <3>4, <3>5
  <2> QED  BY <1>9, <2>1, <2>2
<1>14. ASSUME NEW m \in 1..pushes[q], m < n  PROVE [kind |-> k, n |-> m] \in ToSet(delivered)
  <2> DEFINE x == [kind |-> k, n |-> m]
  <2>1. Underway(x)
    BY <1>5 DEF UnderwayOK
  <2>2. ~(resp.ctx = x)
    BY <1>14
  <2>3. ASSUME NEW e \in ToSet(toClient), e.type \in PushTypes, e.ctx = x  PROVE FALSE
    <3>1. m \in Line(k)[3] \cup Line(k)[7]
      BY <1>7, <2>3 DEF Numbers, About, PushTypes, ToSet
    <3> QED  BY <1>4, <1>6, <1>13, <1>14, <3>1
  <2>4. ASSUME NEW e \in ToSet(owed), e.type = "PUBREL", e.ctx = x  PROVE FALSE
    <3>1. m \in Line(k)[4]
      BY <1>7, <2>4 DEF Numbers, About, ToSet
    <3> QED  BY <1>4, <1>6, <1>13, <1>14, <3>1
  <2>5. ASSUME NEW e \in ToSet(toServer), e.type = "PUBREC", e.ctx = x  PROVE FALSE
    <3>1. m \in Line(k)[5]
      BY <1>7, <2>5 DEF Numbers, About, ToSet
    <3> QED  BY <1>4, <1>6, <1>13, <1>14, <3>1
  <2> QED  BY <2>1, <2>2, <2>3, <2>4, <2>5 DEF Underway
<1>15. ASSUME NEW m \in 1..pushes[q], [kind |-> k, n |-> m] \in ToSet(delivered)  PROVE m < n
  BY <1>12, <1>15
<1>16. \A m \in 1..pushes[q] : [kind |-> SrvKind[q + 1], n |-> m] \in ToSet(delivered) <=> m < n
  BY <1>5, <1>14, <1>15
<1> QED  BY <1>3, <1>4, <1>5, <1>11, <1>16

\* maybe_deliver_message: Deliver, or nothing when there is no msg_callback.
LEMMA DeliverRefines ==
  ASSUME FifoInv, FifoInv', CallbackInv, LineInv, NothingAfter, PromiseInv, Deliver
  PROVE  (\E q \in 0..2 : Async!Deliver(q)) \/ UNCHANGED Async!vars
<1>1. /\ process = "running" /\ tpc = "deliver"
      /\ UNCHANGED <<accepted, sent, answered, called, pushes>>
      /\ delivered' = IF MsgCallback THEN Append(delivered, Delivering) ELSE delivered
  BY DEF Deliver, ThreadStep
<1>2. UNCHANGED Pending
  BY <1>1, PendingStep
<1>3. CASE ~MsgCallback
  BY <1>1, <1>2, <1>3 DEF Async!vars
<1>4. CASE MsgCallback
  <2>1. link = "up"
    BY <1>1 DEF NothingAfter, CallbackInv, IndInv, TypeOK, NetTypeOK
  <2>2. PICK q \in 0..2 : \E n \in 1..pushes[q] :
          /\ Delivering = [kind |-> SrvKind[q + 1], n |-> n]
          /\ \A m \in 1..pushes[q] : [kind |-> SrvKind[q + 1], n |-> m] \in ToSet(delivered) <=> m < n
    BY <1>1, <1>4, <2>1, NextDelivered DEF PromiseInv
  <2>3. PICK n \in 1..pushes[q] :
          /\ Delivering = [kind |-> SrvKind[q + 1], n |-> n]
          /\ \A m \in 1..pushes[q] : [kind |-> SrvKind[q + 1], n |-> m] \in ToSet(delivered) <=> m < n
    BY <2>2
  <2>4. delivered' = Append(delivered, [kind |-> SrvKind[q + 1], n |-> n])
    BY <1>1, <1>4, <2>3
  <2>5. Async!Deliver(q)
    BY <1>1, <1>2, <2>3, <2>4 DEF Async!Deliver, Async!ToSet, ToSet
  <2> QED  BY <2>5
<1> QED  BY <1>3, <1>4

\* Every other step changes nothing an application can see.
LEMMA RestStutters ==
  ASSUME FifoInv, FifoInv', Next,
         \A c \in Callers : ~EnqueueSlotForSend(c), ~SendSlot, ~BrokerAnswer, ~InvokeCallback, ~Deliver,
         \A q \in 0..2 : ~BrokerPublish(q)
  PROVE  UNCHANGED Async!vars
<1>1. UNCHANGED <<accepted, sent, answered, called, pushes, delivered>>
  <2>1. ASSUME NEW c \in Callers, CallerStep(c) \/ SignalDisconnect(c)
        PROVE  UNCHANGED <<accepted, sent, answered, called, pushes, delivered>>
    BY <2>1 DEF CallerStep, SignalDisconnect, GetBufferSlot, MakeMessage, FillWaiting, EnqueueWaiting,
       LoadPacketId, StorePacketId, JoinSessionThread, SendDisconnect, historyVars
  <2>2. ASSUME NEW c \in Callers, NEW k \in Kinds, Call(c, k)
        PROVE  UNCHANGED <<accepted, sent, answered, called, pushes, delivered>>
    BY <2>2 DEF Call
  <2>3. ASSUME SessionStep  PROVE UNCHANGED <<accepted, sent, answered, called, pushes, delivered>>
    BY <2>3 DEF SessionStep, TopOfLoop, FreeSlot, ServerReceive, OnFinalAck, OnSuback,
       OnHandshake, OnPublish, Reply, RequeueWaiting, Crash, historyVars
  <2>4. ASSUME BrokerReceive \/ BrokerClose
        PROVE  UNCHANGED <<accepted, sent, answered, called, pushes, delivered>>
    BY <2>4 DEF BrokerReceive, BrokerClose, historyVars
  <2> QED  BY <2>1, <2>2, <2>3, <2>4 DEF Next, BrokerStep
<1>2. UNCHANGED Pending
  BY <1>1, PendingStep
<1> QED  BY <1>1, <1>2 DEF Async!vars

LEMMA StepRefines ==
  ASSUME AckInv, AckInv', PromiseInv, [Next]_vars
  PROVE  [Async!Next]_(Async!vars)
<1>0. FifoInv /\ FifoInv' /\ CallbackInv /\ LineInv /\ NothingAfter /\ RoundTripInv
  BY DEF AckInv
<1>1. AcceptedOK /\ TracedOK /\ SubOK
  BY DEF PromiseInv
<1>2. ASSUME NEW c \in Callers, EnqueueSlotForSend(c)  PROVE Async!Next
  BY <1>0, <1>1, <1>2, AcceptRefines DEF Async!Next
<1>3. ASSUME SendSlot  PROVE Async!Next
  BY <1>0, <1>3, TransmitRefines DEF Async!Next
<1>4. ASSUME BrokerAnswer  PROVE Async!Next \/ UNCHANGED Async!vars
  BY <1>0, <1>1, <1>4, AcknowledgeRefines DEF Async!Next
<1>5. ASSUME InvokeCallback  PROVE Async!Next
  BY <1>0, <1>1, <1>5, NotifyRefines DEF Async!Next
<1>6. ASSUME NEW q \in 0..2, BrokerPublish(q)  PROVE Async!Next
  BY <1>0, <1>6, PublishRefines DEF Async!Next
<1>7. ASSUME Deliver  PROVE Async!Next \/ UNCHANGED Async!vars
  BY <1>0, <1>7, DeliverRefines DEF Async!Next
<1>8. ASSUME UNCHANGED vars  PROVE UNCHANGED Async!vars
  <2>1. UNCHANGED <<accepted, sent, answered, called, pushes, delivered>>
    BY <1>8 DEF vars, historyVars
  <2>2. UNCHANGED Pending
    BY <1>0, <2>1, PendingStep
  <2> QED  BY <2>1, <2>2 DEF Async!vars
<1> QED  BY <1>0, <1>2, <1>3, <1>4, <1>5, <1>6, <1>7, <1>8, RestStutters

LEMMA PromiseInit == Init => PromiseInv
<1> SUFFICES ASSUME Init  PROVE PromiseInv
  OBVIOUS
<1>1. /\ ack_queue = <<>> /\ toServer = <<>> /\ toClient = <<>> /\ owed = <<>> /\ called = <<>>
      /\ accepted = <<>> /\ tpc = "top" /\ buffer_slots = [s \in Slots |-> NoMsg]
      /\ pushes = [q \in 0..2 |-> 0] /\ \A c \in Callers : pc[c] = "idle"
  BY DEF Init
<1>2. ToSet(<<>>) = {}
  BY DEF ToSet
<1>3. AcceptedOK
  <2>1. \A k \in Kinds : calls[k] = 0 /\ MaxCalls[k] \in Nat
    BY BoundAssumption DEF Init
  <2> QED  BY <1>1, <1>2, <2>1 DEF AcceptedOK, CallerSteps
<1>4. TracedOK
  BY <1>1, <1>2 DEF TracedOK
<1>5. SubOK
  BY <1>1 DEF SubOK, SubEntries, SubInHand, SubCalled, Subscribes, CallerSteps
<1>6. UnderwayOK
  BY <1>1 DEF UnderwayOK
<1> QED  BY <1>3, <1>4, <1>5, <1>6 DEF PromiseInv

LEMMA InitRefines == Init => Async!Init
<1> SUFFICES ASSUME Init  PROVE Async!Init
  OBVIOUS
<1>1. Pending = <<>>
  BY DEF Init, Pending
<1> QED  BY <1>1 DEF Init, Async!Init

\* For an orderly application, any number of its calls and of the broker's
\* publications, any pool and any failing sends, the multi-threaded client
\* keeps the promises of AsyncClient: requests leave in the order of the calls
\* that returned, each is called back at most once and only after the broker
\* acknowledged it, and msg_callback gets the publications of each QoS in
\* order, with none left out and none twice.
THEOREM PromisesKept == Orderly => (Spec => KeepsPromises)
<1>1. Orderly /\ Init => PromiseInv /\ Async!Init
  BY PromiseInit, InitRefines
<1>2. Orderly /\ AckInv /\ PromiseInv /\ [Next]_vars => PromiseInv' /\ Orderly'
  <2> SUFFICES ASSUME Orderly, AckInv, PromiseInv, [Next]_vars  PROVE PromiseInv'
    BY DEF Orderly
  <2>1. CallbackInv /\ LineInv /\ NothingAfter /\ RoundTripInv /\ AcceptedOK /\ TracedOK /\ SubOK
    BY DEF AckInv, PromiseInv
  <2>2. AcceptedOK' /\ TracedOK' /\ SubOK'
    BY <2>1, AcceptedStep, TracedStep, SubStep
  <2>3. MsgCallback /\ link' = "up" => UnderwayOK'
    BY <2>1, UnderwayStep DEF PromiseInv
  <2> QED  BY <2>2, <2>3 DEF PromiseInv
<1>3. AckInv /\ AckInv' /\ PromiseInv /\ [Next]_vars => [Async!Next]_(Async!vars)
  BY StepRefines
<1> QED  BY <1>1, <1>2, <1>3, AckInvariant, PTL DEF Spec, KeepsPromises, Async!Safety
=============================================================================
