---------------------------- MODULE SessionProofs ----------------------------
(***************************************************************************)
(* Proofs about Session for any number of callers, slots and calls, and    *)
(* with every fault of the connection: TypeOK, SlotOwnership and SendFifo  *)
(* are invariants.  IndInv is the inductive invariant of the first two,    *)
(* FifoInv that of the third.                                              *)
(***************************************************************************)
EXTENDS Session, SequenceTheorems, TLAPS

-----------------------------------------------------------------------------
(* Facts about queues as sequences.                                        *)

\* enqueue: the new element joins the contents, and is the only new one.
LEMMA AppendFacts ==
  ASSUME NEW S, NEW s \in Seq(S), NEW e \in S
  PROVE  /\ Append(s, e) \in Seq(S)
         /\ ToSet(Append(s, e)) = ToSet(s) \cup {e}
         /\ Injective(s) /\ e \notin ToSet(s) => Injective(Append(s, e))
  BY DEF ToSet, Injective

\* dequeue: of a queue without repetitions the head is gone, the rest stays.
LEMMA TailFacts ==
  ASSUME NEW S, NEW s \in Seq(S), s # <<>>
  PROVE  /\ Tail(s) \in Seq(S) /\ Head(s) \in S /\ Head(s) \in ToSet(s)
         /\ Injective(s) => /\ Injective(Tail(s))
                            /\ ToSet(Tail(s)) = ToSet(s) \ {Head(s)}
<1>1. /\ Tail(s) \in Seq(S) /\ Head(s) \in S /\ Head(s) = s[1] /\ 1 \in DOMAIN s
      /\ DOMAIN Tail(s) = 1..(Len(s) - 1) /\ DOMAIN s = 1..Len(s) /\ Len(s) \in Nat \ {0}
      /\ \A i \in DOMAIN Tail(s) : Tail(s)[i] = s[i + 1]
  OBVIOUS
<1>2. Head(s) \in ToSet(s)
  BY <1>1 DEF ToSet
<1>3. ASSUME Injective(s)
      PROVE  Injective(Tail(s)) /\ ToSet(Tail(s)) = ToSet(s) \ {Head(s)}
  <2>1. Injective(Tail(s))
    BY <1>1, <1>3 DEF Injective
  <2>2. ASSUME NEW x \in ToSet(Tail(s))  PROVE x \in ToSet(s) \ {Head(s)}
    <3>1. PICK i \in DOMAIN Tail(s) : x = Tail(s)[i]
      BY <2>2 DEF ToSet
    <3> QED  BY <1>1, <1>3, <3>1 DEF ToSet, Injective
  <2>3. ASSUME NEW x \in ToSet(s) \ {Head(s)}  PROVE x \in ToSet(Tail(s))
    <3>1. PICK i \in DOMAIN s : x = s[i]
      BY <2>3 DEF ToSet
    <3>2. i # 1 /\ i - 1 \in DOMAIN Tail(s) /\ x = Tail(s)[i - 1]
      BY <1>1, <2>3, <3>1
    <3> QED  BY <3>2 DEF ToSet
  <2> QED  BY <2>1, <2>2, <2>3
<1> QED  BY <1>1, <1>2, <1>3

\* remove_from_queue keeps the type of the queue.
LEMMA RemoveAtType ==
  ASSUME NEW S, NEW s \in Seq(S), NEW i \in DOMAIN s
  PROVE  RemoveAt(s, i) \in Seq(S) /\ s[i] \in S
<1>1. SubSeq(s, 1, i - 1) \in Seq(S) /\ SubSeq(s, i + 1, Len(s)) \in Seq(S)
  OBVIOUS
<1> QED  BY <1>1 DEF RemoveAt

LEMMA ToSetType ==
  ASSUME NEW S, NEW s \in Seq(S)
  PROVE  ToSet(s) \subseteq S
  BY DEF ToSet

LEMMA NoSlotQueued == \A s \in Seq(Slots) : NoSlot \notin ToSet(s)
<1>1. NoSlot \notin Slots
  BY DEF NoSlot, Slots
<1> QED  BY <1>1, ToSetType

-----------------------------------------------------------------------------
(* Facts about the steps of the API calls.                                 *)

\* A step never goes back to get_slot, an entry is filled in before wait, and
\* the call ends with send.
LEMMA FlowFacts ==
  ASSUME NEW k \in Kinds, NEW s \in DOMAIN After(k)
  PROVE  /\ s # "send" => After(k)[s] \in Holding
         /\ After(k)[s] = "make" => s = "get_slot"
         /\ After(k)[s] = "wait" => s = "fill"
         /\ s = "send" => After(k)[s] = "idle"
         /\ s # "send" => After(k)[s] \in DOMAIN After(k)
  BY DEF Kinds, After, PingFlow, PublishFlow, SubscribeFlow, UnsubscribeFlow, Qos, Holding

\* Every call begins with get_slot.
LEMMA FlowStart ==
  \A k \in Kinds : "get_slot" \in DOMAIN After(k) /\ After(k)["get_slot"] = "make"
  BY DEF Kinds, After, PingFlow, PublishFlow, SubscribeFlow, UnsubscribeFlow, Qos

LEMMA MaxIdType == MaxId \in Nat
  BY DEF MaxId

LEMMA WireType == \A id \in PacketIds : Wire(id) \in PacketIds
  BY MaxIdType DEF PacketIds, Wire

\* A packet id counter wraps round and stays a uint16_t.
LEMMA BumpType == \A id \in PacketIds : Bump(id) \in PacketIds
  BY MaxIdType DEF PacketIds, Bump

\* What a call serialises and what it waits for are a message and an entry.
LEMMA RequestType ==
  ASSUME TypeOK, NEW c \in Callers
  PROVE  RequestFor(op[c]) \in Messages /\ WaitingFor(op[c]) \in Entries
<1>z. 0 \in PacketIds
  BY MaxIdType DEF PacketIds
<1>a. op[c] \in [kind : Kinds, n : Nat]
  BY DEF TypeOK, CallerTypeOK
<1>b. op[c].kind \in Kinds /\ op[c] \in Contexts
  BY <1>a DEF Contexts
<1>c. publish_packet_id \in PacketIds /\ subscribe_packet_id \in PacketIds
  BY DEF TypeOK, ClientTypeOK
<1>1. /\ op[c].kind \in Kinds /\ op[c] \in Contexts
      /\ publish_packet_id \in PacketIds /\ 0 \in PacketIds
      /\ Wire(publish_packet_id) \in PacketIds /\ Wire(subscribe_packet_id) \in PacketIds
  BY <1>z, <1>b, <1>c, WireType
<1>2. Qos(op[c].kind) \in 0..2
  BY DEF Qos
<1>3. RequestFor(op[c]) \in Messages
  BY <1>1, <1>2 DEF RequestFor, Messages, Msg, Requests
<1>4. WaitingFor(op[c]) \in Entries
  BY <1>1 DEF WaitingFor, Entries, Replies
<1> QED  BY <1>3, <1>4


-----------------------------------------------------------------------------
(* What a step leaves alone stays true.                                    *)

LEMMA FrameTypes ==
  ASSUME TypeOK
  PROVE  /\ UNCHANGED clientVars  => ClientTypeOK'
         /\ UNCHANGED callerVars  => CallerTypeOK'
         /\ UNCHANGED threadVars  => ThreadTypeOK'
         /\ UNCHANGED netVars     => NetTypeOK'
         /\ UNCHANGED historyVars => HistoryTypeOK'
  BY DEF TypeOK, ClientTypeOK, CallerTypeOK, ThreadTypeOK, NetTypeOK, HistoryTypeOK,
         clientVars, callerVars, threadVars, netVars, historyVars

\* server_send keeps the types of what is under way.
LEMMA SendType ==
  ASSUME TypeOK, NEW m \in Messages, SendOk(m) \/ SendFails,
         UNCHANGED <<toClient, owed, inflight, eofReads>>
  PROVE  NetTypeOK'
<1>1. toServer \in Seq(Messages) /\ Append(toServer, m) \in Seq(Messages)
  BY AppendFacts DEF TypeOK, NetTypeOK
<1>2. toServer' \in Seq(Messages) /\ link' \in {"up", "closed", "null"}
  BY <1>1 DEF SendOk, SendFails
<1> QED  BY <1>2 DEF TypeOK, NetTypeOK

LEMMA FrameSlots ==
  ASSUME IndInv, UNCHANGED <<slot, free_queue, send_queue, position>>
  PROVE  SlotOwnership'
  BY DEF IndInv, SlotOwnership

LEMMA FrameCallers ==
  ASSUME IndInv, UNCHANGED <<callerVars, buffer_slots>>
  PROVE  \A c \in Callers : CallerOK(c)'
  BY DEF IndInv, CallerOK, callerVars

LEMMA FrameThread ==
  ASSUME IndInv, UNCHANGED <<threadVars, buffer_slots>>
  PROVE  ThreadOK'
  BY DEF IndInv, ThreadOK, threadVars

LEMMA FrameQueued ==
  ASSUME IndInv, UNCHANGED <<send_queue, buffer_slots>>
  PROVE  QueuedOK'
  BY DEF IndInv, QueuedOK

\* A caller that makes its next step keeps the slot it holds.
LEMMA AdvanceOK ==
  ASSUME IndInv, NEW c \in Callers, Advance(c), pc[c] \in CallerSteps \ {"send", "get_slot"},
         UNCHANGED <<op, slot>>
  PROVE  /\ pc'[c] \in Holding /\ pc'[c] # "make" /\ pc' = [pc EXCEPT ![c] = pc'[c]]
         /\ pc'[c] = "wait" => pc[c] = "fill"
         /\ pc'[c] \in DOMAIN After(op[c].kind)
         /\ pc' \in [Callers -> CallerSteps \cup {"idle", "join", "bye", "gone"}]
<1>1. op[c].kind \in Kinds /\ pc[c] \in DOMAIN After(op[c].kind)
  BY DEF IndInv, TypeOK, CallerTypeOK, CallerOK
<1>2. pc'[c] = After(op[c].kind)[pc[c]]
  BY DEF IndInv, TypeOK, CallerTypeOK, Advance, Goto
<1>3. Holding \subseteq CallerSteps
  BY DEF Holding, CallerSteps
<1> QED  BY <1>1, <1>2, <1>3, FlowFacts DEF IndInv, TypeOK, CallerTypeOK, Advance, Goto

-----------------------------------------------------------------------------
(* The steps of the application threads.                                   *)

LEMMA CallInv ==
  ASSUME IndInv, NEW c \in Callers, NEW k \in Kinds, Call(c, k)
  PROVE  IndInv'
<1>1. TypeOK'
  <2>1. CallerTypeOK'
    BY DEF IndInv, TypeOK, CallerTypeOK, HistoryTypeOK, Call, Goto, CallerSteps
  <2>2. HistoryTypeOK'
    BY DEF IndInv, TypeOK, HistoryTypeOK, Call
  <2> QED  BY <2>1, <2>2, FrameTypes DEF IndInv, TypeOK, Call
<1>2. ASSUME NEW d \in Callers  PROVE CallerOK(d)'
  <2>1. CASE d = c
    BY <2>1, FlowStart DEF IndInv, TypeOK, CallerTypeOK, CallerOK, Call, Goto, clientVars, Holding
  <2>2. CASE d # c
    BY <2>2 DEF IndInv, TypeOK, CallerTypeOK, CallerOK, Call, Goto, clientVars
  <2> QED  BY <2>1, <2>2
<1>3. ThreadOK' /\ QueuedOK' /\ SlotOwnership'
  BY FrameThread, FrameQueued, FrameSlots DEF Call, clientVars, threadVars
<1> QED  BY <1>1, <1>2, <1>3 DEF IndInv

LEMMA MakeMessageInv ==
  ASSUME IndInv, NEW c \in Callers, MakeMessage(c)
  PROVE  IndInv'
<1> USE DEF MakeMessage
<1>1. /\ slot[c] \in Slots /\ RequestFor(op[c]) \in Messages
      /\ buffer_slots \in [Slots -> Messages \cup {NoMsg}]
      /\ buffer_slots' = [buffer_slots EXCEPT ![slot[c]] = RequestFor(op[c])]
  BY RequestType DEF IndInv, TypeOK, ClientTypeOK, CallerTypeOK, CallerOK, Holding
<1>2. /\ \A s \in Slots : buffer_slots[s] \in Messages => buffer_slots'[s] \in Messages
      /\ buffer_slots'[slot[c]] \in Messages
  BY <1>1
<1>3. TypeOK'
  <2>1. ClientTypeOK'
    BY <1>1 DEF IndInv, TypeOK, ClientTypeOK
  <2>2. CallerTypeOK'
    BY AdvanceOK DEF IndInv, TypeOK, CallerTypeOK, CallerSteps
  <2> QED  BY <2>1, <2>2, FrameTypes DEF IndInv, TypeOK
<1>4. ASSUME NEW d \in Callers  PROVE CallerOK(d)'
  <2>1. CASE d = c
    BY <1>2, <2>1, AdvanceOK DEF IndInv, TypeOK, CallerTypeOK, CallerOK, CallerSteps, Holding
  <2>2. CASE d # c
    BY <1>2, <2>2, AdvanceOK DEF IndInv, TypeOK, CallerTypeOK, CallerOK, CallerSteps
  <2> QED  BY <2>1, <2>2
<1>5. ThreadOK'
  BY <1>2 DEF IndInv, TypeOK, ThreadTypeOK, ThreadOK, threadVars
<1>6. QueuedOK'
  BY <1>2 DEF IndInv, TypeOK, ClientTypeOK, QueuedOK
<1>7. SlotOwnership'
  BY FrameSlots DEF threadVars
<1> QED  BY <1>3, <1>4, <1>5, <1>6, <1>7 DEF IndInv

\* The steps that leave the slots and the buffers alone.
LEMMA AdvanceCallers ==
  ASSUME IndInv, NEW c \in Callers, Advance(c), pc[c] \in {"fill", "wait", "load", "store"},
         UNCHANGED <<op, slot, buffer_slots>>,
         pc[c] = "fill" => entry'[c] \in Entries,
         \A d \in Callers : d # c => entry'[d] = entry[d]
  PROVE  \A d \in Callers : CallerOK(d)'
<1> TAKE d \in Callers
<1>1. CASE d = c
  <2>1. CallerOK(c) /\ pc[c] \in Holding \ {"make"} /\ pc[c] \in CallerSteps \ {"send", "get_slot"}
    BY DEF IndInv, CallerSteps, Holding
  <2>2. /\ pc'[c] \in Holding /\ pc'[c] # "make"
        /\ pc'[c] = "wait" => pc[c] = "fill"
        /\ pc'[c] \in DOMAIN After(op[c].kind)
    BY <2>1, AdvanceOK
  <2> QED  BY <1>1, <2>1, <2>2 DEF CallerOK
<1>2. CASE d # c
  BY <1>2, AdvanceOK DEF IndInv, TypeOK, CallerTypeOK, CallerOK, CallerSteps
<1> QED  BY <1>1, <1>2

LEMMA FillWaitingInv ==
  ASSUME IndInv, NEW c \in Callers, FillWaiting(c)
  PROVE  IndInv'
<1> USE DEF FillWaiting
<1>1. WaitingFor(op[c]) \in Entries
  BY RequestType DEF IndInv
<1>2. CallerTypeOK'
  BY <1>1, AdvanceOK DEF IndInv, TypeOK, CallerTypeOK, CallerSteps
<1>3. \A d \in Callers : CallerOK(d)'
  BY <1>1, AdvanceCallers DEF IndInv, TypeOK, CallerTypeOK, CallerSteps, clientVars
<1>4. ThreadOK' /\ QueuedOK' /\ SlotOwnership'
  BY FrameThread, FrameQueued, FrameSlots DEF clientVars, threadVars
<1> QED  BY <1>2, <1>3, <1>4, FrameTypes DEF IndInv, TypeOK

LEMMA EnqueueWaitingInv ==
  ASSUME IndInv, NEW c \in Callers, EnqueueWaiting(c)
  PROVE  IndInv'
<1> USE DEF EnqueueWaiting
<1>1. ClientTypeOK'
  BY AppendFacts DEF IndInv, TypeOK, ClientTypeOK, CallerOK, enqueue
<1>2. CallerTypeOK'
  BY AdvanceOK DEF IndInv, TypeOK, CallerTypeOK, CallerSteps
<1>3. \A d \in Callers : CallerOK(d)'
  BY AdvanceCallers DEF IndInv, TypeOK, CallerTypeOK, CallerSteps
<1>4. ThreadOK' /\ QueuedOK' /\ SlotOwnership'
  BY FrameThread, FrameQueued, FrameSlots DEF threadVars
<1> QED  BY <1>1, <1>2, <1>3, <1>4, FrameTypes DEF IndInv, TypeOK

LEMMA LoadPacketIdInv ==
  ASSUME IndInv, NEW c \in Callers, LoadPacketId(c)
  PROVE  IndInv'
<1> USE DEF LoadPacketId
<1>1. CallerTypeOK'
  BY AdvanceOK DEF IndInv, TypeOK, CallerTypeOK, ClientTypeOK, CallerSteps
<1>2. \A d \in Callers : CallerOK(d)'
  BY AdvanceCallers DEF IndInv, TypeOK, CallerTypeOK, CallerSteps, clientVars
<1>3. ThreadOK' /\ QueuedOK' /\ SlotOwnership'
  BY FrameThread, FrameQueued, FrameSlots DEF clientVars, threadVars
<1> QED  BY <1>1, <1>2, <1>3, FrameTypes DEF IndInv, TypeOK

LEMMA StorePacketIdInv ==
  ASSUME IndInv, NEW c \in Callers, StorePacketId(c)
  PROVE  IndInv'
<1> USE DEF StorePacketId
<1>0. loaded[c] \in PacketIds
  BY DEF IndInv, TypeOK, CallerTypeOK
<1>1. Bump(loaded[c]) \in PacketIds
  BY <1>0, BumpType
<1>2. ClientTypeOK'
  BY <1>1 DEF IndInv, TypeOK, ClientTypeOK
<1>3. CallerTypeOK'
  BY AdvanceOK DEF IndInv, TypeOK, CallerTypeOK, CallerSteps
<1>4. \A d \in Callers : CallerOK(d)'
  BY AdvanceCallers DEF IndInv, TypeOK, CallerTypeOK, CallerSteps
<1>5. ThreadOK' /\ QueuedOK' /\ SlotOwnership'
  BY FrameThread, FrameQueued, FrameSlots DEF threadVars
<1> QED  BY <1>2, <1>3, <1>4, <1>5, FrameTypes DEF IndInv, TypeOK

\* A slot leaves free_queue for the caller's hand.
LEMMA GetBufferSlotInv ==
  ASSUME IndInv, NEW c \in Callers, GetBufferSlot(c)
  PROVE  IndInv'
<1> USE DEF GetBufferSlot
<1>1. CASE free_queue = <<>>
  <2>1. ClientTypeOK' /\ CallerTypeOK'
    BY <1>1 DEF IndInv, TypeOK, ClientTypeOK, CallerTypeOK
  <2>2. \A d \in Callers : CallerOK(d)'
    BY <1>1, FrameCallers DEF callerVars
  <2>3. ThreadOK' /\ QueuedOK' /\ SlotOwnership'
    BY <1>1, FrameThread, FrameQueued, FrameSlots DEF threadVars
  <2> QED  BY <2>1, <2>2, <2>3, FrameTypes DEF IndInv, TypeOK
<1>2. CASE free_queue # <<>>
  <2> DEFINE s == Head(free_queue)
  <2>1. /\ slot' = [slot EXCEPT ![c] = s] /\ free_queue' = Tail(free_queue) /\ Advance(c)
        /\ mutex' = NoOne
    BY <1>2 DEF dequeue
  <2>2. free_queue \in Seq(Slots) /\ Injective(free_queue)
    BY DEF IndInv, TypeOK, ClientTypeOK, SlotOwnership
  <2>3. /\ free_queue' \in Seq(Slots) /\ s \in Slots /\ s \in ToSet(free_queue)
        /\ Injective(free_queue') /\ ToSet(free_queue') = ToSet(free_queue) \ {s}
    BY <1>2, <2>1, <2>2, TailFacts
  <2>4. slot[c] = NoSlot /\ s # NoSlot
    BY <2>3 DEF IndInv, CallerOK, Holding, Slots, NoSlot
  <2>5. pc' = [pc EXCEPT ![c] = "make"]
    <3>1. op[c].kind \in Kinds
      BY DEF IndInv, TypeOK, CallerTypeOK
    <3> QED  BY <2>1, <3>1, FlowStart DEF Advance, Goto
  <2>6. ClientTypeOK'
    BY <2>1, <2>3 DEF IndInv, TypeOK, ClientTypeOK
  <2>7. CallerTypeOK'
    BY <2>1, <2>3, <2>5 DEF IndInv, TypeOK, CallerTypeOK, CallerSteps
  <2>8. ASSUME NEW d \in Callers  PROVE CallerOK(d)'
    <3>1. CASE d = c
      <4>1. "make" \in DOMAIN After(op[c].kind)
        <5>1. op[c].kind \in Kinds
          BY DEF IndInv, TypeOK, CallerTypeOK
        <5> QED  BY <5>1, FlowStart, FlowFacts
      <4> QED  BY <2>1, <2>4, <2>5, <3>1, <4>1 DEF IndInv, TypeOK, CallerTypeOK, CallerOK, Holding
    <3>2. CASE d # c
      BY <2>1, <2>5, <3>2 DEF IndInv, TypeOK, CallerTypeOK, CallerOK
    <3> QED  BY <3>1, <3>2
  <2>9. ThreadOK' /\ QueuedOK'
    BY FrameThread, FrameQueued DEF threadVars
  <2>10. SlotOwnership'
    <3>1. slot'[c] = s /\ \A d \in Callers : d # c => slot'[d] = slot[d]
      BY <2>1 DEF IndInv, TypeOK, CallerTypeOK
    <3>2. /\ s \notin ToSet(send_queue) /\ s # position
          /\ \A d \in Callers : slot[d] # s
      BY <2>3 DEF IndInv, SlotOwnership
    <3>3. {slot'[d] : d \in Callers} \ {NoSlot} = ({slot[d] : d \in Callers} \cup {s}) \ {NoSlot}
      BY <2>4, <3>1
    <3>4. UNCHANGED <<send_queue, position>>
      BY DEF threadVars
    <3> QED  BY <2>3, <2>4, <3>1, <3>2, <3>3, <3>4 DEF IndInv, SlotOwnership
  <2> QED  BY <2>6, <2>7, <2>8, <2>9, <2>10, FrameTypes DEF IndInv, TypeOK
<1> QED  BY <1>1, <1>2

\* A slot leaves the caller's hand for send_queue.
LEMMA EnqueueSlotForSendInv ==
  ASSUME IndInv, NEW c \in Callers, EnqueueSlotForSend(c)
  PROVE  IndInv'
<1> USE DEF EnqueueSlotForSend
<1> DEFINE s == slot[c]
<1>1. /\ s \in Slots /\ s # NoSlot /\ buffer_slots[s] \in Messages
      /\ send_queue \in Seq(Slots) /\ Injective(send_queue) /\ s \notin ToSet(send_queue)
  BY DEF IndInv, TypeOK, CallerTypeOK, ClientTypeOK, CallerOK, Holding, SlotOwnership
<1>2. /\ send_queue' \in Seq(Slots) /\ Injective(send_queue')
      /\ ToSet(send_queue') = ToSet(send_queue) \cup {s}
  BY <1>1, AppendFacts DEF enqueue
<1>a. pc' = [pc EXCEPT ![c] = "idle"]
  <2>1. op[c].kind \in Kinds /\ "send" \in DOMAIN After(op[c].kind)
    BY DEF IndInv, TypeOK, CallerTypeOK, CallerOK, CallerSteps
  <2> QED  BY <2>1, FlowFacts DEF Advance, Goto
<1>3. ClientTypeOK'
  BY <1>2 DEF IndInv, TypeOK, ClientTypeOK
<1>4. CallerTypeOK'
  BY <1>a DEF IndInv, TypeOK, CallerTypeOK
<1>5. HistoryTypeOK'
  <2>1. op[c] \in Contexts
    BY DEF IndInv, TypeOK, CallerTypeOK, Contexts
  <2> QED  BY <2>1, AppendFacts DEF IndInv, TypeOK, HistoryTypeOK
<1>6. ASSUME NEW d \in Callers  PROVE CallerOK(d)'
  <2>1. CASE d = c
    BY <1>a, <2>1 DEF IndInv, TypeOK, CallerTypeOK, CallerOK, Holding, CallerSteps
  <2>2. CASE d # c
    BY <1>a, <2>2 DEF IndInv, TypeOK, CallerTypeOK, CallerOK
  <2> QED  BY <2>1, <2>2
<1>7. ThreadOK'
  BY FrameThread DEF threadVars
<1>8. QueuedOK'
  BY <1>1 DEF IndInv, QueuedOK, enqueue
<1>9. SlotOwnership'
  <2>1. slot'[c] = NoSlot /\ \A d \in Callers : d # c => slot'[d] = slot[d]
    BY DEF IndInv, TypeOK, CallerTypeOK
  <2>2. /\ s \notin ToSet(free_queue) /\ s # position
        /\ \A d \in Callers : d # c => slot[d] # s
    BY <1>1 DEF IndInv, SlotOwnership
  <2>3. NoSlot \notin ToSet(free_queue) \cup ToSet(send_queue')
    BY <1>2, NoSlotQueued DEF IndInv, TypeOK, ClientTypeOK
  <2>4. {slot'[d] : d \in Callers} \ {NoSlot} = ({slot[d] : d \in Callers} \ {s}) \ {NoSlot}
    BY <2>1, <2>2
  <2>5. UNCHANGED <<free_queue, position>>
    BY DEF threadVars
  <2> QED  BY <1>1, <1>2, <2>1, <2>2, <2>3, <2>4, <2>5 DEF IndInv, SlotOwnership
<1> QED  BY <1>3, <1>4, <1>5, <1>6, <1>7, <1>8, <1>9, FrameTypes DEF IndInv, TypeOK

\* signal_disconnect and the rest of smqtt_mt_disconnect move no slot.
LEMMA DisconnectInv ==
  ASSUME IndInv, NEW c \in Callers,
         SignalDisconnect(c) \/ JoinSessionThread(c) \/ SendDisconnect(c)
  PROVE  IndInv'
<1> USE DEF SignalDisconnect, JoinSessionThread, SendDisconnect
<1>1. UNCHANGED <<op, slot, entry, buffer_slots, free_queue, send_queue, ack_queue, threadVars>>
  OBVIOUS
<1>2. /\ pc[c] \in {"idle", "join", "bye"} /\ pc'[c] \in {"join", "bye", "gone"}
      /\ \A d \in Callers : d # c => pc'[d] = pc[d]
  BY DEF IndInv, TypeOK, CallerTypeOK, Goto
<1>3. ClientTypeOK'
  BY DEF IndInv, TypeOK, ClientTypeOK
<1>4. CallerTypeOK'
  BY DEF IndInv, TypeOK, CallerTypeOK, Goto
<1>5. NetTypeOK'
  <2> DEFINE m == Msg("DISCONNECT", 0, 0, [kind |-> "bye", n |-> 1])
  <2>1. m \in Messages
    BY MaxIdType DEF Msg, Messages, Requests, Contexts, PacketIds
  <2>2. CASE SendOk(m)
    BY <2>1, <2>2, AppendFacts DEF IndInv, TypeOK, NetTypeOK, SendOk, netVars
  <2>3. CASE UNCHANGED <<link, toServer>>
    BY <2>3 DEF IndInv, TypeOK, NetTypeOK, netVars
  <2> QED  BY <2>2, <2>3 DEF netVars
<1>6. HistoryTypeOK'
  BY DEF IndInv, TypeOK, HistoryTypeOK, historyVars
<1>7. ASSUME NEW d \in Callers  PROVE CallerOK(d)'
  BY <1>1, <1>2 DEF IndInv, CallerOK, CallerSteps, Holding
<1>8. ThreadOK' /\ QueuedOK' /\ SlotOwnership'
  BY <1>1, FrameThread, FrameQueued, FrameSlots DEF threadVars
<1> QED  BY <1>1, <1>3, <1>4, <1>5, <1>6, <1>7, <1>8, FrameTypes DEF IndInv, TypeOK

-----------------------------------------------------------------------------
(* The steps of the session thread.                                        *)

\* A slot leaves send_queue for the session thread's hand.
LEMMA TopOfLoopInv ==
  ASSUME IndInv, TopOfLoop
  PROVE  IndInv'
<1> USE DEF TopOfLoop, ThreadStep
<1>1. CASE send_queue = <<>> \/ ready_to_disconnect
  <2>1. UNCHANGED <<send_queue, position, buffer_slots, slot, free_queue, callerVars>>
    BY <1>1 DEF callerVars
  <2>2. ClientTypeOK' /\ ThreadTypeOK'
    BY <1>1 DEF IndInv, TypeOK, ClientTypeOK, ThreadTypeOK, ThreadSteps
  <2>3. ThreadOK'
    BY <1>1, <2>1 DEF IndInv, ThreadOK
  <2>4. (\A c \in Callers : CallerOK(c)') /\ QueuedOK' /\ SlotOwnership'
    BY <2>1, FrameCallers, FrameQueued, FrameSlots
  <2> QED  BY <2>1, <2>2, <2>3, <2>4, FrameTypes DEF IndInv, TypeOK
<1>2. CASE send_queue # <<>> /\ ~ready_to_disconnect
  <2> DEFINE s == Head(send_queue)
  <2>1. position' = s /\ send_queue' = Tail(send_queue) /\ tpc' = "send"
    BY <1>2 DEF dequeue
  <2>2. send_queue \in Seq(Slots) /\ Injective(send_queue) /\ position = NoSlot
    BY DEF IndInv, TypeOK, ClientTypeOK, SlotOwnership, ThreadOK
  <2>3. /\ send_queue' \in Seq(Slots) /\ s \in Slots /\ s \in ToSet(send_queue)
        /\ Injective(send_queue') /\ ToSet(send_queue') = ToSet(send_queue) \ {s}
    BY <1>2, <2>1, <2>2, TailFacts
  <2>4. s # NoSlot
    BY <2>3 DEF Slots, NoSlot
  <2>5. ClientTypeOK' /\ ThreadTypeOK'
    BY <2>1, <2>3 DEF IndInv, TypeOK, ClientTypeOK, ThreadTypeOK, ThreadSteps
  <2>6. \A c \in Callers : CallerOK(c)'
    BY FrameCallers
  <2>7. buffer_slots[s] \in Messages
    BY <1>2, <2>2 DEF IndInv, QueuedOK
  <2>8. ThreadOK'
    BY <2>1, <2>4, <2>7 DEF IndInv, ThreadOK
  <2>9. QueuedOK'
    BY <1>2, <2>1, <2>2 DEF IndInv, QueuedOK
  <2>10. SlotOwnership'
    <3>1. /\ s \notin ToSet(free_queue) /\ \A c \in Callers : slot[c] # s
      BY <2>3 DEF IndInv, SlotOwnership
    <3>2. UNCHANGED <<slot, free_queue>>
      BY DEF callerVars
    <3> QED  BY <2>1, <2>2, <2>3, <2>4, <3>1, <3>2 DEF IndInv, SlotOwnership
  <2> QED  BY <2>5, <2>6, <2>8, <2>9, <2>10, FrameTypes DEF IndInv, TypeOK
<1> QED  BY <1>1, <1>2

LEMMA SendSlotInv ==
  ASSUME IndInv, SendSlot
  PROVE  IndInv'
<1> USE DEF SendSlot, ThreadStep
<1>1. buffer_slots[position] \in Messages /\ buffer_slots[position].ctx \in Contexts
  BY DEF IndInv, ThreadOK, Messages
<1>2. ThreadTypeOK'
  BY DEF IndInv, TypeOK, ThreadTypeOK, ThreadSteps
<1>3. NetTypeOK'
  BY <1>1, SendType DEF IndInv
<1>4. HistoryTypeOK'
  BY <1>1, AppendFacts DEF IndInv, TypeOK, HistoryTypeOK
<1>5. ThreadOK'
  BY DEF IndInv, ThreadOK
<1>6. (\A c \in Callers : CallerOK(c)') /\ QueuedOK' /\ SlotOwnership'
  BY FrameCallers, FrameQueued, FrameSlots DEF clientVars, callerVars
<1> QED  BY <1>2, <1>3, <1>4, <1>5, <1>6, FrameTypes DEF IndInv, TypeOK

\* A slot leaves the session thread's hand for free_queue.
LEMMA FreeSlotInv ==
  ASSUME IndInv, FreeSlot
  PROVE  IndInv'
<1> USE DEF FreeSlot, ThreadStep
<1>1. /\ position \in Slots /\ position # NoSlot /\ free_queue \in Seq(Slots)
      /\ Injective(free_queue) /\ position \notin ToSet(free_queue)
  BY DEF IndInv, TypeOK, ClientTypeOK, ThreadTypeOK, ThreadOK, SlotOwnership
<1>2. /\ free_queue' \in Seq(Slots) /\ Injective(free_queue')
      /\ ToSet(free_queue') = ToSet(free_queue) \cup {position}
  BY <1>1, AppendFacts DEF enqueue
<1>3. ClientTypeOK' /\ ThreadTypeOK'
  BY <1>2 DEF IndInv, TypeOK, ClientTypeOK, ThreadTypeOK, ThreadSteps
<1>4. ThreadOK'
  BY DEF IndInv, ThreadOK
<1>5. (\A c \in Callers : CallerOK(c)') /\ QueuedOK'
  BY FrameCallers, FrameQueued
<1>6. SlotOwnership'
  <2>1. NoSlot \notin ToSet(free_queue') \cup ToSet(send_queue)
    BY <1>2, NoSlotQueued DEF IndInv, TypeOK, ClientTypeOK
  <2>2. UNCHANGED <<slot, send_queue>> /\ position' = NoSlot
    BY DEF callerVars
  <2> QED  BY <1>1, <1>2, <2>1, <2>2 DEF IndInv, SlotOwnership
<1> QED  BY <1>3, <1>4, <1>5, <1>6, FrameTypes DEF IndInv, TypeOK

\* server_receive puts a message into the receive buffer, or leaves it.
LEMMA ServerReceiveInv ==
  ASSUME IndInv, ServerReceive
  PROVE  IndInv'
<1> USE DEF ServerReceive, ThreadStep
<1>1. UNCHANGED <<slot, free_queue, send_queue, position, callerVars, buffer_slots, waiting>>
  BY DEF callerVars
<1>2. resp' \in Messages \cup {NoMsg} /\ (tpc' = "dispatch" => resp' \in Messages)
  <2>1. CASE link # "null" /\ toClient # <<>> /\ resp' = [Head(toClient) EXCEPT !.id = Wire(Head(toClient).id)]
    <3>1. Head(toClient) \in Messages
      BY <2>1, TailFacts DEF IndInv, TypeOK, NetTypeOK
    <3>2. Wire(Head(toClient).id) \in PacketIds
      BY <3>1, WireType DEF Messages
    <3> QED  BY <2>1, <3>1, <3>2 DEF Messages
  <2>2. CASE UNCHANGED resp /\ tpc' = "top"
    BY <2>2 DEF IndInv, TypeOK, ThreadTypeOK
  <2>3. CASE receive_buffer # NoMsg /\ resp' = receive_buffer
    BY <2>3 DEF IndInv, TypeOK, ClientTypeOK
  <2> QED  BY <2>1, <2>2, <2>3
<1>3. tpc' \in {"dispatch", "top"}
  OBVIOUS
<1>4. receive_buffer' = receive_buffer \/ receive_buffer' = resp'
  OBVIOUS
<1>5. ClientTypeOK'
  BY <1>2, <1>4 DEF IndInv, TypeOK, ClientTypeOK
<1>6. ThreadTypeOK'
  BY <1>1, <1>2, <1>3 DEF IndInv, TypeOK, ThreadTypeOK, ThreadSteps
<1>7. NetTypeOK'
  <2>0. toClient \in Seq(Messages) /\ (toClient # <<>> => Tail(toClient) \in Seq(Messages))
    BY TailFacts DEF IndInv, TypeOK, NetTypeOK
  <2>1. toClient' \in Seq(Messages)
    BY <2>0
  <2>2. eofReads' \in Nat
    BY DEF IndInv, TypeOK, NetTypeOK
  <2> QED  BY <2>1, <2>2 DEF IndInv, TypeOK, NetTypeOK
<1>8. ThreadOK'
  BY <1>1, <1>2, <1>3 DEF IndInv, ThreadOK
<1>9. (\A c \in Callers : CallerOK(c)') /\ QueuedOK' /\ SlotOwnership'
  BY <1>1, FrameCallers, FrameQueued, FrameSlots
<1> QED  BY <1>1, <1>5, <1>6, <1>7, <1>8, <1>9, FrameTypes DEF IndInv, TypeOK

\* An entry leaves ack_queue, or nothing is found.
LEMMA DequeueEntry ==
  ASSUME IndInv, NEW S \in SUBSET DOMAIN ack_queue, NEW i \in First(S)
  PROVE  ack_queue[i] \in Entries /\ remove_from_queue(ack_queue, i) \in Seq(Entries)
<1>1. i \in DOMAIN ack_queue /\ ack_queue \in Seq(Entries)
  BY DEF First, IndInv, TypeOK, ClientTypeOK
<1> QED  BY <1>1, RemoveAtType DEF remove_from_queue

\* What the dispatch of an acknowledgement does to the queue and the thread.
LEMMA DispatchInv ==
  ASSUME IndInv, tpc = "dispatch",
         tpc' \in {"callback", "reply", "top", "dispatch"},
         tpc' = "callback" \/ tpc' = "reply" => waiting' \in Entries,
         waiting' \in Entries \cup {NoEntry}, ack_queue' \in Seq(Entries),
         process' \in {"running", "crashed"},
         UNCHANGED <<mutex, free_queue, send_queue, buffer_slots, publish_packet_id,
                     subscribe_packet_id, ready_to_disconnect, receive_buffer,
                     callerVars, position, resp, netVars, historyVars>>
  PROVE  IndInv'
<1>1. ClientTypeOK'
  BY DEF IndInv, TypeOK, ClientTypeOK
<1>2. ThreadTypeOK'
  BY DEF IndInv, TypeOK, ThreadTypeOK, ThreadSteps
<1>3. ThreadOK'
  BY DEF IndInv, ThreadOK
<1>4. (\A c \in Callers : CallerOK(c)') /\ QueuedOK' /\ SlotOwnership'
  BY FrameCallers, FrameQueued, FrameSlots DEF callerVars
<1> QED  BY <1>1, <1>2, <1>3, <1>4, FrameTypes DEF IndInv, TypeOK

LEMMA OnFinalAckInv ==
  ASSUME IndInv, NEW t, OnFinalAck(t)
  PROVE  IndInv'
<1>1. Hits(t, resp.id) \in SUBSET DOMAIN ack_queue
  BY DEF Hits
<1>2. /\ ack_queue' \in Seq(Entries) /\ waiting' \in Entries \cup {NoEntry}
      /\ tpc' \in {"callback", "top"} /\ (tpc' = "callback" => waiting' \in Entries)
  <2>1. CASE Hits(t, resp.id) = {} /\ tpc' = "top" /\ UNCHANGED <<waiting, ack_queue>>
    BY <2>1 DEF IndInv, TypeOK, ClientTypeOK, ThreadTypeOK
  <2>2. ASSUME NEW i \in First(Hits(t, resp.id)), waiting' = ack_queue[i],
               ack_queue' = remove_from_queue(ack_queue, i), tpc' = "callback"
        PROVE  ack_queue' \in Seq(Entries) /\ waiting' \in Entries
    BY <1>1, <2>2, DequeueEntry
  <2> QED  BY <2>1, <2>2 DEF OnFinalAck
<1>3. process = "running"
  BY DEF OnFinalAck, ThreadStep
<1> QED  BY <1>2, <1>3, DispatchInv DEF OnFinalAck, ThreadStep

LEMMA OnHandshakeInv ==
  ASSUME IndInv, NEW t, OnHandshake(t)
  PROVE  IndInv'
<1>1. Hits(t, resp.id) \in SUBSET DOMAIN ack_queue
  BY DEF Hits
<1>2. /\ ack_queue' \in Seq(Entries) /\ waiting' \in Entries \cup {NoEntry}
      /\ tpc' \in {"reply", "top"} /\ (tpc' = "reply" => waiting' \in Entries)
  <2>1. CASE Hits(t, resp.id) = {} /\ tpc' = "top" /\ UNCHANGED <<waiting, ack_queue>>
    BY <2>1 DEF IndInv, TypeOK, ClientTypeOK, ThreadTypeOK
  <2>2. ASSUME NEW i \in First(Hits(t, resp.id)), waiting' = ack_queue[i],
               ack_queue' = remove_from_queue(ack_queue, i), tpc' = "reply"
        PROVE  ack_queue' \in Seq(Entries) /\ waiting' \in Entries
    BY <1>1, <2>2, DequeueEntry
  <2> QED  BY <2>1, <2>2 DEF OnHandshake
<1>3. process = "running"
  BY DEF OnHandshake, ThreadStep
<1> QED  BY <1>2, <1>3, DispatchInv DEF OnHandshake, ThreadStep

\* With the unset pointer of a SUBACK for another packet id too.
LEMMA OnSubackInv ==
  ASSUME IndInv, OnSuback
  PROVE  IndInv'
<1> DEFINE S == {i \in DOMAIN ack_queue : ack_queue[i].type = "SUBACK"}
<1>1. /\ ack_queue \in Seq(Entries) /\ waiting \in Entries \cup {NoEntry}
      /\ tpc = "dispatch" /\ process = "running"
  BY DEF IndInv, TypeOK, ClientTypeOK, ThreadTypeOK, OnSuback, ThreadStep
<1>2. /\ ack_queue' \in Seq(Entries) /\ waiting' \in Entries \cup {NoEntry}
      /\ tpc' \in {"callback", "top", "dispatch"} /\ (tpc' = "callback" => waiting' \in Entries)
      /\ process' \in {"running", "crashed"}
  <2>1. ASSUME NEW i \in First(S), waiting' = ack_queue[i],
               ack_queue' = remove_from_queue(ack_queue, i)
        PROVE  ack_queue' \in Seq(Entries) /\ waiting' \in Entries
    BY <2>1, DequeueEntry
  <2> QED  BY <1>1, <2>1 DEF OnSuback
<1> QED  BY <1>1, <1>2, DispatchInv DEF OnSuback

LEMMA OnPublishInv ==
  ASSUME IndInv, OnPublish
  PROVE  IndInv'
<1> USE DEF OnPublish, ThreadStep
<1>1. ThreadTypeOK'
  BY DEF IndInv, TypeOK, ThreadTypeOK, ThreadSteps
<1>2. ThreadOK'
  BY DEF IndInv, ThreadOK, clientVars
<1>3. (\A c \in Callers : CallerOK(c)') /\ QueuedOK' /\ SlotOwnership'
  BY FrameCallers, FrameQueued, FrameSlots DEF clientVars, callerVars
<1> QED  BY <1>1, <1>2, <1>3, FrameTypes DEF IndInv, TypeOK

LEMMA InvokeCallbackInv ==
  ASSUME IndInv, InvokeCallback
  PROVE  IndInv'
<1> USE DEF InvokeCallback, ThreadStep
<1>1. waiting.ctx \in Contexts
  BY DEF IndInv, ThreadOK, Entries
<1>2. ThreadTypeOK'
  BY DEF IndInv, TypeOK, ThreadTypeOK, ThreadSteps
<1>3. HistoryTypeOK'
  BY <1>1, AppendFacts DEF IndInv, TypeOK, HistoryTypeOK
<1>4. ThreadOK'
  BY DEF IndInv, ThreadOK, clientVars
<1>5. (\A c \in Callers : CallerOK(c)') /\ QueuedOK' /\ SlotOwnership'
  BY FrameCallers, FrameQueued, FrameSlots DEF clientVars, callerVars
<1> QED  BY <1>2, <1>3, <1>4, <1>5, FrameTypes DEF IndInv, TypeOK

LEMMA DeliverInv ==
  ASSUME IndInv, Deliver
  PROVE  IndInv'
<1> USE DEF Deliver, ThreadStep
<1>1. Delivering \in Contexts
  BY DEF IndInv, ThreadOK, Delivering, Entries, Messages
<1>2. ThreadTypeOK'
  BY DEF IndInv, TypeOK, ThreadTypeOK, ThreadSteps
<1>3. HistoryTypeOK'
  BY <1>1, AppendFacts DEF IndInv, TypeOK, HistoryTypeOK
<1>4. ThreadOK'
  BY DEF IndInv, ThreadOK, clientVars
<1>5. (\A c \in Callers : CallerOK(c)') /\ QueuedOK' /\ SlotOwnership'
  BY FrameCallers, FrameQueued, FrameSlots DEF clientVars, callerVars
<1> QED  BY <1>2, <1>3, <1>4, <1>5, FrameTypes DEF IndInv, TypeOK

\* The reply is a message, and the entry it leaves in hand is a full one.
LEMMA ReplyInv ==
  ASSUME IndInv, Reply
  PROVE  IndInv'
<1> DEFINE m == Msg(ReplyType, 0, Wire(resp.id), resp.ctx)
<1>1. /\ tpc = "reply" /\ process = "running" /\ receive_buffer' = m
      /\ SendOk(m) \/ SendFails
      /\ UNCHANGED <<mutex, free_queue, send_queue, ack_queue, buffer_slots,
                     publish_packet_id, subscribe_packet_id, ready_to_disconnect, process,
                     callerVars, position, resp, toClient, owed, inflight, eofReads, historyVars>>
  BY DEF Reply, ThreadStep
<1>2. /\ resp \in Messages /\ resp.id \in PacketIds /\ resp.ctx \in Contexts
      /\ resp.type \in {"PUBREC", "PUBREL"} => waiting \in Entries
  BY <1>1 DEF IndInv, ThreadOK, Messages
<1>3. m \in Messages
  BY <1>2, WireType DEF Msg, ReplyType, Messages, Replies
<1>4. waiting \in Entries \cup {NoEntry}
  BY DEF IndInv, TypeOK, ThreadTypeOK
<1>5. /\ waiting' \in Entries \cup {NoEntry} /\ tpc' \in {"enqueue_waiting", "deliver", "top"}
      /\ tpc' = "enqueue_waiting" => waiting' \in Entries
      /\ tpc' = "deliver" => UNCHANGED waiting
  <2>1. CASE resp.type = "PUBREC" /\ tpc' = "enqueue_waiting"
             /\ waiting' = [waiting EXCEPT !.type = "PUBCOMP", !.id = resp.id]
    BY <1>2, <2>1 DEF Entries, Replies
  <2>2. CASE tpc' = "enqueue_waiting"
             /\ waiting' = [type |-> "PUBREL", id |-> resp.id, ctx |-> resp.ctx]
    BY <1>2, <2>2 DEF Entries, Replies
  <2>3. CASE tpc' \in {"deliver", "top"} /\ UNCHANGED waiting
    BY <1>4, <2>3
  <2> QED  BY <2>1, <2>2, <2>3 DEF Reply
<1>6. ClientTypeOK'
  BY <1>1, <1>3 DEF IndInv, TypeOK, ClientTypeOK
<1>7. ThreadTypeOK'
  BY <1>1, <1>5 DEF IndInv, TypeOK, ThreadTypeOK, ThreadSteps
<1>8. NetTypeOK'
  BY <1>1, <1>3, SendType DEF IndInv
<1>9. ThreadOK'
  BY <1>1, <1>2, <1>5 DEF IndInv, ThreadOK
<1>10. (\A c \in Callers : CallerOK(c)') /\ QueuedOK' /\ SlotOwnership'
  BY <1>1, FrameCallers, FrameQueued, FrameSlots DEF callerVars
<1> QED  BY <1>1, <1>6, <1>7, <1>8, <1>9, <1>10, FrameTypes DEF IndInv, TypeOK

LEMMA RequeueWaitingInv ==
  ASSUME IndInv, RequeueWaiting
  PROVE  IndInv'
<1> USE DEF RequeueWaiting, ThreadStep
<1>1. ClientTypeOK'
  BY AppendFacts DEF IndInv, TypeOK, ClientTypeOK, ThreadOK, enqueue
<1>2. ThreadTypeOK'
  BY DEF IndInv, TypeOK, ThreadTypeOK, ThreadSteps
<1>3. ThreadOK'
  BY DEF IndInv, ThreadOK
<1>4. (\A c \in Callers : CallerOK(c)') /\ QueuedOK' /\ SlotOwnership'
  BY FrameCallers, FrameQueued, FrameSlots DEF callerVars
<1> QED  BY <1>1, <1>2, <1>3, <1>4, FrameTypes DEF IndInv, TypeOK

LEMMA CrashInv ==
  ASSUME IndInv, Crash
  PROVE  IndInv'
<1> USE DEF Crash
<1>1. ClientTypeOK'
  BY DEF IndInv, TypeOK, ClientTypeOK
<1>2. (\A c \in Callers : CallerOK(c)') /\ ThreadOK' /\ QueuedOK' /\ SlotOwnership'
  BY FrameCallers, FrameThread, FrameQueued, FrameSlots DEF callerVars, threadVars
<1> QED  BY <1>1, <1>2, FrameTypes DEF IndInv, TypeOK

-----------------------------------------------------------------------------
(* The steps of the broker touch nothing of the client's.                  *)

LEMMA AnswerType ==
  ASSUME NEW m \in Messages
  PROVE  Answer(m) \in Seq(Messages)
<1>1. m.ctx \in Contexts /\ m.id \in PacketIds /\ 0 \in PacketIds
  BY MaxIdType DEF Messages, PacketIds
<1>2. ASSUME NEW t \in Replies, NEW id \in PacketIds
      PROVE  <<Msg(t, 0, id, m.ctx)>> \in Seq(Messages)
  <2>1. Msg(t, 0, id, m.ctx) \in Messages
    BY <1>1 DEF Msg, Messages
  <2> QED  BY <2>1
<1>3. /\ <<Msg("PINGRESP", 0, 0, m.ctx)>> \in Seq(Messages)
      /\ \A t \in {"SUBACK", "UNSUBACK", "PUBACK", "PUBREC", "PUBCOMP", "PUBREL"} :
           <<Msg(t, 0, m.id, m.ctx)>> \in Seq(Messages)
  BY <1>1, <1>2 DEF Replies
<1> QED  BY <1>3 DEF Answer

LEMMA BrokerInv ==
  ASSUME IndInv,
         BrokerReceive \/ BrokerAnswer \/ BrokerClose \/ \E q \in 0..2 : BrokerPublish(q)
  PROVE  IndInv'
<1>1. UNCHANGED <<clientVars, callerVars, threadVars>>
  BY DEF BrokerReceive, BrokerAnswer, BrokerClose, BrokerPublish
<1>2. NetTypeOK' /\ HistoryTypeOK'
  <2>0. /\ owed \in Seq(Messages) /\ toServer \in Seq(Messages) /\ toClient \in Seq(Messages)
        /\ inflight \subseteq PacketIds /\ NetTypeOK /\ HistoryTypeOK
    BY DEF IndInv, TypeOK, NetTypeOK
  <2>1. CASE BrokerReceive
    <3>1. Head(toServer) \in Messages /\ Tail(toServer) \in Seq(Messages)
      BY <2>0, <2>1, TailFacts DEF BrokerReceive
    <3>2. Answer(Head(toServer)) \in Seq(Messages)
      BY <3>1, AnswerType
    <3>3. owed' \in Seq(Messages)
      BY <2>0, <2>1, <3>2 DEF BrokerReceive
    <3>4. link' \in {"up", "closed", "null"} /\ inflight' \subseteq PacketIds
      BY <2>0, <2>1 DEF BrokerReceive, NetTypeOK
    <3> QED  BY <2>0, <2>1, <3>1, <3>3, <3>4 DEF BrokerReceive, NetTypeOK, HistoryTypeOK, historyVars
  <2>2. CASE BrokerAnswer
    <3>1. PICK i \in DOMAIN owed :
            /\ toClient' = Append(toClient, owed[i]) /\ owed' = RemoveAt(owed, i)
            /\ answered' \in {answered, answered \cup {owed[i].ctx}}
      BY <2>2 DEF BrokerAnswer
    <3>a. owed[i] \in Messages /\ RemoveAt(owed, i) \in Seq(Messages)
      BY <2>0, RemoveAtType
    <3>2. owed[i] \in Messages /\ owed[i].ctx \in Contexts /\ owed' \in Seq(Messages)
      BY <3>a, <3>1 DEF Messages
    <3>3. toClient' \in Seq(Messages)
      BY <2>0, <3>1, <3>2, AppendFacts
    <3> QED  BY <2>0, <2>2, <3>1, <3>2, <3>3 DEF BrokerAnswer, NetTypeOK, HistoryTypeOK
  <2>3. ASSUME NEW q \in 0..2, BrokerPublish(q)  PROVE NetTypeOK' /\ HistoryTypeOK'
    <3>1. [kind |-> SrvKind[q + 1], n |-> pushes[q] + 1] \in Contexts
      BY <2>0 DEF SrvKind, Contexts, HistoryTypeOK
    <3>2. PICK id \in PacketIds :
            toClient' = Append(toClient, Msg("PUBLISH", q, id,
                                             [kind |-> SrvKind[q + 1], n |-> pushes[q] + 1]))
      BY <2>3, MaxIdType, IdAssumption DEF BrokerPublish, PacketIds
    <3>3. toClient' \in Seq(Messages)
      BY <2>0, <3>1, <3>2, AppendFacts DEF Msg, Messages
    <3>4. inflight' \subseteq PacketIds
      BY <2>0, <2>3, IdAssumption DEF BrokerPublish
    <3>5. pushes' \in [0..2 -> Nat]
      <4>1. pushes \in [0..2 -> Nat] /\ pushes' = [pushes EXCEPT ![q] = @ + 1]
        BY <2>0, <2>3 DEF BrokerPublish, HistoryTypeOK
      <4> QED  BY <4>1
    <3> QED  BY <2>0, <2>3, <3>3, <3>4, <3>5 DEF BrokerPublish, NetTypeOK, HistoryTypeOK
  <2>4. CASE BrokerClose
    BY <2>0, <2>4 DEF BrokerClose, NetTypeOK, HistoryTypeOK, historyVars
  <2> QED  BY <2>1, <2>2, <2>3, <2>4
<1>3. (\A c \in Callers : CallerOK(c)') /\ ThreadOK' /\ QueuedOK' /\ SlotOwnership'
  BY <1>1, FrameCallers, FrameThread, FrameQueued, FrameSlots DEF clientVars, callerVars, threadVars
<1> QED  BY <1>1, <1>2, <1>3, FrameTypes DEF IndInv, TypeOK

-----------------------------------------------------------------------------
(* The invariants.                                                         *)

\* start_session_thread puts every slot into free_queue, once.
LEMMA InitInv == Init => IndInv
<1> SUFFICES ASSUME Init  PROVE IndInv
  OBVIOUS
<1> USE DEF Init, FreshPool
<1>1. /\ free_queue \in Seq(Slots) /\ DOMAIN free_queue = 1..BufferCount
      /\ \A i \in 1..BufferCount : free_queue[i] = i - 1
  BY CountAssumption DEF Slots
<1>2. ClientTypeOK
  <2>1. buffer_slots \in [Slots -> Messages \cup {NoMsg}]
    OBVIOUS
  <2>2. send_queue \in Seq(Slots) /\ ack_queue \in Seq(Entries)
    OBVIOUS
  <2>3. publish_packet_id \in PacketIds /\ subscribe_packet_id \in PacketIds
    BY IdAssumption
  <2> QED  BY <1>1, <2>1, <2>2, <2>3 DEF ClientTypeOK
<1>3. CallerTypeOK
  BY MaxIdType DEF CallerTypeOK, Kinds, PacketIds
<1>4. ThreadTypeOK /\ NetTypeOK
  BY DEF ThreadTypeOK, NetTypeOK, ThreadSteps
<1>5. HistoryTypeOK
  BY BoundAssumption DEF HistoryTypeOK
<1>6. (\A c \in Callers : CallerOK(c)) /\ ThreadOK /\ QueuedOK
  BY DEF CallerOK, ThreadOK, QueuedOK, CallerSteps, Holding
<1>7. SlotOwnership
  <2>1. Injective(free_queue) /\ Injective(send_queue) /\ ToSet(send_queue) = {}
    BY <1>1, CountAssumption DEF Injective, ToSet
  <2>2. ToSet(free_queue) = Slots
    <3>1. ASSUME NEW s \in Slots  PROVE s \in ToSet(free_queue)
      <4>1. s + 1 \in 1..BufferCount /\ free_queue[s + 1] = s
        BY <1>1, CountAssumption DEF Slots
      <4> QED  BY <1>1, <4>1 DEF ToSet
    <3>2. ToSet(free_queue) \subseteq Slots
      BY <1>1, ToSetType
    <3> QED  BY <3>1, <3>2
  <2>3. NoSlot \notin Slots
    BY DEF NoSlot, Slots
  <2> QED  BY <2>1, <2>2, <2>3 DEF SlotOwnership
<1> QED  BY <1>2, <1>3, <1>4, <1>5, <1>6, <1>7 DEF IndInv, TypeOK

LEMMA StepInv == IndInv /\ [Next]_vars => IndInv'
<1> SUFFICES ASSUME IndInv, [Next]_vars  PROVE IndInv'
  OBVIOUS
<1>1. ASSUME NEW c \in Callers, CallerStep(c)  PROVE IndInv'
  BY <1>1, GetBufferSlotInv, MakeMessageInv, FillWaitingInv, EnqueueWaitingInv,
     LoadPacketIdInv, StorePacketIdInv, EnqueueSlotForSendInv, DisconnectInv DEF CallerStep
<1>2. ASSUME NEW c \in Callers, SignalDisconnect(c)  PROVE IndInv'
  BY <1>2, DisconnectInv
<1>3. ASSUME NEW c \in Callers, NEW k \in Kinds, Call(c, k)  PROVE IndInv'
  BY <1>3, CallInv
<1>4. ASSUME SessionStep  PROVE IndInv'
  BY <1>4, TopOfLoopInv, SendSlotInv, FreeSlotInv, ServerReceiveInv, OnFinalAckInv,
     OnSubackInv, InvokeCallbackInv, OnHandshakeInv, OnPublishInv, ReplyInv,
     RequeueWaitingInv, DeliverInv, CrashInv DEF SessionStep
<1>5. ASSUME BrokerStep \/ BrokerClose \/ \E q \in 0..2 : BrokerPublish(q)  PROVE IndInv'
  BY <1>5, BrokerInv DEF BrokerStep
<1>6. CASE UNCHANGED vars
  <2>1. UNCHANGED <<clientVars, callerVars, threadVars, netVars, historyVars>>
    BY <1>6 DEF vars
  <2>2. (\A c \in Callers : CallerOK(c)') /\ ThreadOK' /\ QueuedOK' /\ SlotOwnership'
    BY <2>1, FrameCallers, FrameThread, FrameQueued, FrameSlots DEF clientVars, callerVars, threadVars
  <2> QED  BY <2>1, <2>2, FrameTypes DEF IndInv, TypeOK
<1> QED  BY <1>1, <1>2, <1>3, <1>4, <1>5, <1>6 DEF Next

LEMMA Invariance == Spec => []IndInv
<1>1. Init => IndInv
  BY InitInv
<1>2. IndInv /\ [Next]_vars => IndInv'
  BY StepInv
<1> QED  BY <1>1, <1>2, PTL DEF Spec

\* Whatever the threads, the broker and the failures of the connection do, no
\* uninitialised buffer or waiting_t of the client is ever sent or queued, and
\* its fields keep their types.
THEOREM TypeCorrectness == Spec => []TypeOK
<1>1. IndInv => TypeOK
  BY DEF IndInv
<1> QED  BY <1>1, Invariance, PTL

\* For any number of application threads and any pool size, a buffer slot
\* always has exactly one owner among free_queue, send_queue, the callers and
\* the session thread.
THEOREM SlotSafety == Spec => []SlotOwnership
<1>1. IndInv => SlotOwnership
  BY DEF IndInv
<1> QED  BY <1>1, Invariance, PTL

-----------------------------------------------------------------------------
(* SendFifo.  It is inductive together with the ownership of slots, because *)
(* what is queued stays unaltered only as long as nobody else writes to its *)
(* slot, and with OwnContents, which says what a slot holds when it is      *)
(* queued.                                                                  *)

LEMMA ConcatAppend ==
  ASSUME NEW S, NEW s \in Seq(S), NEW t \in Seq(S), NEW e \in S
  PROVE  s \o Append(t, e) = Append(s \o t, e)
  OBVIOUS

LEMMA ConcatCons ==
  ASSUME NEW S, NEW s \in Seq(S), NEW t \in Seq(S), NEW e \in S
  PROVE  s \o (<<e>> \o t) = Append(s, e) \o t
  OBVIOUS

LEMMA ConcatEmpty == \A S : \A s \in Seq(S) : <<>> \o s = s
  OBVIOUS

\* The contents of the slots in send_queue.
Queued == [i \in DOMAIN send_queue |-> buffer_slots[send_queue[i]].ctx]

LEMMA QueuedType ==
  ASSUME IndInv
  PROVE  Queued \in Seq(Contexts) /\ Len(Queued) = Len(send_queue)
<1>1. send_queue \in Seq(Slots)
  BY DEF IndInv, TypeOK, ClientTypeOK
<1>2. \A i \in DOMAIN send_queue : buffer_slots[send_queue[i]].ctx \in Contexts
  BY DEF IndInv, QueuedOK, Messages
<1>3. DOMAIN send_queue = 1..Len(send_queue) /\ Len(send_queue) \in Nat
  BY <1>1
<1> QED  BY <1>2, <1>3 DEF Queued

-----------------------------------------------------------------------------
(* Steps that touch neither the queue nor the buffers.                     *)

LEMMA FifoFrame ==
  ASSUME SendFifo, UNCHANGED <<send_queue, buffer_slots, position, accepted, sent>>,
         (tpc = "send") <=> (tpc' = "send")
  PROVE  SendFifo'
  BY DEF SendFifo, Pending

LEMMA OwnFrame ==
  ASSUME OwnContents, UNCHANGED <<buffer_slots, op, slot, pc>>
  PROVE  OwnContents'
  BY DEF OwnContents

\* An API call goes one step on, and had written its slot before.
LEMMA OwnAdvance ==
  ASSUME IndInv, OwnContents, NEW c \in Callers, Advance(c),
         pc[c] \in Holding \ {"make"}, UNCHANGED <<buffer_slots, op, slot>>
  PROVE  OwnContents'
  BY DEF IndInv, TypeOK, CallerTypeOK, OwnContents, Advance, Goto

-----------------------------------------------------------------------------
(* The API calls.                                                          *)

LEMMA CallFifo ==
  ASSUME FifoInv, NEW c \in Callers, NEW k \in Kinds, Call(c, k)
  PROVE  OwnContents' /\ SendFifo'
<1> USE DEF Call, clientVars, threadVars
<1>1. SendFifo'
  BY FifoFrame DEF FifoInv
<1>2. OwnContents'
  BY DEF FifoInv, IndInv, TypeOK, CallerTypeOK, OwnContents, Goto, Holding
<1> QED  BY <1>1, <1>2

LEMMA GetBufferSlotFifo ==
  ASSUME FifoInv, NEW c \in Callers, GetBufferSlot(c)
  PROVE  OwnContents' /\ SendFifo'
<1> USE DEF GetBufferSlot, threadVars, historyVars
<1>1. SendFifo'
  BY FifoFrame DEF FifoInv
<1>2. CASE free_queue = <<>>
  BY <1>1, <1>2, OwnFrame DEF FifoInv
<1>3. CASE free_queue # <<>>
  <2>1. pc' = [pc EXCEPT ![c] = "make"]
    <3>1. op[c].kind \in Kinds
      BY DEF FifoInv, IndInv, TypeOK, CallerTypeOK
    <3> QED  BY <1>3, <3>1, FlowStart DEF Advance, Goto
  <2>2. OwnContents'
    BY <1>3, <2>1 DEF FifoInv, IndInv, TypeOK, CallerTypeOK, OwnContents
  <2> QED  BY <1>1, <2>2
<1> QED  BY <1>2, <1>3

\* The only step that writes to a slot: nobody else has that slot.
LEMMA MakeMessageFifo ==
  ASSUME FifoInv, NEW c \in Callers, MakeMessage(c)
  PROVE  OwnContents' /\ SendFifo'
<1> USE DEF MakeMessage, threadVars, historyVars
<1>1. /\ slot[c] \in Slots /\ slot[c] # NoSlot
      /\ slot[c] \notin ToSet(send_queue) /\ slot[c] # position
      /\ \A d \in Callers : d # c => slot[d] # slot[c]
  BY DEF FifoInv, IndInv, TypeOK, CallerTypeOK, CallerOK, Holding, SlotOwnership
<1>2. /\ buffer_slots'[slot[c]].ctx = op[c]
      /\ \A s \in Slots : s # slot[c] => buffer_slots'[s] = buffer_slots[s]
  <2>1. buffer_slots' = [buffer_slots EXCEPT ![slot[c]] = RequestFor(op[c])]
    OBVIOUS
  <2>2. RequestFor(op[c]).ctx = op[c]
    BY DEF RequestFor, Msg
  <2> QED  BY <1>1, <2>1, <2>2 DEF FifoInv, IndInv, TypeOK, ClientTypeOK
<1>3. OwnContents'
  <2> SUFFICES ASSUME NEW d \in Callers, pc'[d] \in Holding \ {"make"}
               PROVE  buffer_slots'[slot[d]].ctx = op[d]
    BY DEF OwnContents
  <2>1. CASE d = c
    BY <1>2, <2>1
  <2>2. CASE d # c
    <3>1. pc'[d] = pc[d]
      BY <2>2 DEF Advance, Goto, FifoInv, IndInv, TypeOK, CallerTypeOK
    <3>2. slot[d] \in Slots
      BY <3>1 DEF FifoInv, IndInv, TypeOK, CallerTypeOK, CallerOK
    <3> QED  BY <1>1, <1>2, <2>2, <3>1, <3>2 DEF FifoInv, OwnContents
  <2> QED  BY <2>1, <2>2
<1>4. SendFifo'
  <2>1. \A i \in DOMAIN send_queue : /\ send_queue[i] \in Slots /\ send_queue[i] # slot[c]
    BY <1>1 DEF FifoInv, IndInv, TypeOK, ClientTypeOK, ToSet
  <2>2. \A i \in DOMAIN send_queue : buffer_slots'[send_queue[i]] = buffer_slots[send_queue[i]]
    BY <1>2, <2>1
  <2>3. tpc = "send" => buffer_slots'[position] = buffer_slots[position]
    BY <1>1, <1>2 DEF FifoInv, IndInv, TypeOK, ThreadTypeOK, ThreadOK
  <2>4. Pending' = Pending
    BY <2>2, <2>3 DEF Pending
  <2> QED  BY <2>4 DEF FifoInv, SendFifo
<1> QED  BY <1>3, <1>4

LEMMA MiddleStepsFifo ==
  ASSUME FifoInv, NEW c \in Callers,
         FillWaiting(c) \/ EnqueueWaiting(c) \/ LoadPacketId(c) \/ StorePacketId(c)
  PROVE  OwnContents' /\ SendFifo'
<1> USE DEF FillWaiting, EnqueueWaiting, LoadPacketId, StorePacketId,
            clientVars, threadVars, historyVars
<1>1. SendFifo'
  BY FifoFrame DEF FifoInv
<1>2. pc[c] \in Holding \ {"make"} /\ Advance(c) /\ UNCHANGED <<buffer_slots, op, slot>>
  BY DEF Holding
<1>3. OwnContents'
  BY <1>2, OwnAdvance DEF FifoInv
<1> QED  BY <1>1, <1>3

LEMMA EnqueueSlotForSendFifo ==
  ASSUME FifoInv, NEW c \in Callers, EnqueueSlotForSend(c)
  PROVE  OwnContents' /\ SendFifo'
<1> USE DEF EnqueueSlotForSend, threadVars
<1>1. pc' = [pc EXCEPT ![c] = "idle"]
  <2>1. op[c].kind \in Kinds /\ "send" \in DOMAIN After(op[c].kind)
    BY DEF FifoInv, IndInv, TypeOK, CallerTypeOK, CallerOK, CallerSteps
  <2> QED  BY <2>1, FlowFacts DEF Advance, Goto
<1>2. OwnContents'
  BY <1>1 DEF FifoInv, IndInv, TypeOK, CallerTypeOK, OwnContents, Holding
<1>3. SendFifo'
  <2> DEFINE first == IF tpc = "send" THEN <<buffer_slots[position].ctx>> ELSE <<>>
  <2>1. send_queue \in Seq(Slots) /\ slot[c] \in Slots /\ send_queue' = Append(send_queue, slot[c])
    BY DEF FifoInv, IndInv, TypeOK, ClientTypeOK, CallerTypeOK, CallerOK, Holding, enqueue
  <2>2. buffer_slots[slot[c]].ctx = op[c] /\ op[c] \in Contexts
    BY DEF FifoInv, OwnContents, Holding, IndInv, TypeOK, CallerTypeOK, Contexts
  <2>3. Queued \in Seq(Contexts) /\ Len(Queued) = Len(send_queue)
    BY QueuedType DEF FifoInv
  <2>4. Queued' = Append(Queued, op[c])
    BY <2>1, <2>2, <2>3 DEF Queued
  <2>5. first \in Seq(Contexts) /\ sent \in Seq(Contexts)
    BY DEF FifoInv, IndInv, ThreadOK, Messages, TypeOK, HistoryTypeOK
  <2>6. Pending = first \o Queued /\ Pending' = first \o Queued'
    BY DEF Pending, Queued
  <2>7. Pending \in Seq(Contexts) /\ Pending' = Append(Pending, op[c])
    BY <2>2, <2>3, <2>4, <2>5, <2>6, ConcatAppend
  <2>8. sent \o Append(Pending, op[c]) = Append(sent \o Pending, op[c])
    BY <2>2, <2>5, <2>7, ConcatAppend
  <2> QED  BY <2>7, <2>8 DEF FifoInv, SendFifo
<1> QED  BY <1>2, <1>3

LEMMA DisconnectFifo ==
  ASSUME FifoInv, NEW c \in Callers,
         SignalDisconnect(c) \/ JoinSessionThread(c) \/ SendDisconnect(c)
  PROVE  OwnContents' /\ SendFifo'
<1> USE DEF SignalDisconnect, JoinSessionThread, SendDisconnect, threadVars, historyVars
<1>1. SendFifo'
  BY FifoFrame DEF FifoInv
<1>2. PICK s \in {"join", "bye", "gone", pc[c]} : pc' = [pc EXCEPT ![c] = s]
  BY DEF Goto, FifoInv, IndInv, TypeOK, CallerTypeOK
<1>3. OwnContents'
  BY <1>2 DEF FifoInv, IndInv, TypeOK, CallerTypeOK, OwnContents, Holding
<1> QED  BY <1>1, <1>3

-----------------------------------------------------------------------------
(* The session thread.                                                     *)

\* The head of send_queue is in the session thread's hand: still pending.
LEMMA TopOfLoopFifo ==
  ASSUME FifoInv, TopOfLoop
  PROVE  OwnContents' /\ SendFifo'
<1> USE DEF TopOfLoop, ThreadStep, callerVars, historyVars
<1>1. OwnContents'
  BY OwnFrame DEF FifoInv
<1>2. CASE ready_to_disconnect \/ send_queue = <<>>
  <2>1. SendFifo'
    BY <1>2, FifoFrame DEF FifoInv
  <2> QED  BY <1>1, <2>1
<1>3. CASE ~ready_to_disconnect /\ send_queue # <<>>
  <2>1. /\ position' = Head(send_queue) /\ send_queue' = Tail(send_queue) /\ tpc' = "send"
        /\ tpc = "top" /\ UNCHANGED <<buffer_slots, sent, accepted>>
    BY <1>3 DEF dequeue
  <2>2. send_queue \in Seq(Slots)
    BY DEF FifoInv, IndInv, TypeOK, ClientTypeOK
  <2>3. Queued \in Seq(Contexts) /\ Len(Queued) = Len(send_queue)
    BY QueuedType DEF FifoInv
  <2>4. Queued' = Tail(Queued) /\ Head(Queued) = buffer_slots[Head(send_queue)].ctx
    BY <1>3, <2>1, <2>2, <2>3 DEF Queued
  <2>5. <<Head(Queued)>> \o Tail(Queued) = Queued
    BY <1>3, <2>2, <2>3
  <2>6. Pending = Queued
    BY <2>1, <2>3, ConcatEmpty DEF Pending, Queued
  <2>7. Pending' = <<Head(Queued)>> \o Tail(Queued)
    BY <2>1, <2>4 DEF Pending, Queued
  <2>8. SendFifo'
    BY <2>1, <2>5, <2>6, <2>7 DEF FifoInv, SendFifo
  <2> QED  BY <1>1, <2>8
<1> QED  BY <1>2, <1>3

\* What is handed to server_send is the oldest pending request.
LEMMA SendSlotFifo ==
  ASSUME FifoInv, SendSlot
  PROVE  OwnContents' /\ SendFifo'
<1> USE DEF SendSlot, ThreadStep, callerVars, clientVars
<1>1. OwnContents'
  BY OwnFrame DEF FifoInv
<1> DEFINE x == buffer_slots[position].ctx
<1>2. x \in Contexts /\ sent \in Seq(Contexts)
  BY DEF FifoInv, IndInv, ThreadOK, Messages, TypeOK, HistoryTypeOK
<1>3. Queued \in Seq(Contexts)
  BY QueuedType DEF FifoInv
<1>4. Pending = <<x>> \o Queued
  BY DEF Pending, Queued
<1>5. Pending' = Queued
  <2>1. Queued' = Queued /\ tpc' = "free_slot"
    BY DEF Queued
  <2>2. Pending' = <<>> \o Queued'
    BY <2>1 DEF Pending, Queued
  <2> QED  BY <1>3, <2>1, <2>2, ConcatEmpty
<1>6. sent \o (<<x>> \o Queued) = Append(sent, x) \o Queued
  BY <1>2, <1>3, ConcatCons
<1>7. SendFifo'
  BY <1>4, <1>5, <1>6 DEF FifoInv, SendFifo
<1> QED  BY <1>1, <1>7

\* All other steps of the session thread leave send_queue and slots alone.
LEMMA OtherStepsFifo ==
  ASSUME FifoInv,
         UNCHANGED <<send_queue, buffer_slots, accepted, sent, callerVars>>,
         (tpc = "send") <=> (tpc' = "send"), tpc = "send" => UNCHANGED position
  PROVE  OwnContents' /\ SendFifo'
<1>1. OwnContents'
  BY OwnFrame DEF FifoInv, callerVars
<1>2. SendFifo'
  BY DEF FifoInv, SendFifo, Pending
<1> QED  BY <1>1, <1>2

LEMMA SessionStepFifo ==
  ASSUME FifoInv, SessionStep
  PROVE  OwnContents' /\ SendFifo'
<1> USE DEF ThreadStep, clientVars, historyVars
<1>1. CASE TopOfLoop
  BY <1>1, TopOfLoopFifo
<1>2. CASE SendSlot
  BY <1>2, SendSlotFifo
<1>3. CASE FreeSlot
  BY <1>3, OtherStepsFifo DEF FreeSlot
<1>4. CASE ServerReceive
  <2>1. tpc = "receive" /\ tpc' # "send"
    BY <1>4 DEF ServerReceive
  <2> QED  BY <1>4, <2>1, OtherStepsFifo DEF ServerReceive
<1>5. ASSUME NEW t, OnFinalAck(t) \/ OnHandshake(t)  PROVE OwnContents' /\ SendFifo'
  <2>1. tpc = "dispatch" /\ tpc' # "send"
    BY <1>5 DEF OnFinalAck, OnHandshake
  <2> QED  BY <1>5, <2>1, OtherStepsFifo DEF OnFinalAck, OnHandshake
<1>6. CASE OnSuback
  <2>1. tpc = "dispatch" /\ tpc' # "send"
    BY <1>6 DEF OnSuback
  <2> QED  BY <1>6, <2>1, OtherStepsFifo DEF OnSuback
<1>7. CASE InvokeCallback \/ OnPublish \/ RequeueWaiting \/ Deliver
  BY <1>7, OtherStepsFifo DEF InvokeCallback, OnPublish, RequeueWaiting, Deliver
<1>8. CASE Reply
  <2>1. tpc = "reply" /\ tpc' # "send"
    BY <1>8 DEF Reply
  <2> QED  BY <1>8, <2>1, OtherStepsFifo DEF Reply
<1>9. CASE Crash
  BY <1>9, OtherStepsFifo DEF Crash, threadVars
<1> QED  BY <1>1, <1>2, <1>3, <1>4, <1>5, <1>6, <1>7, <1>8, <1>9 DEF SessionStep

LEMMA BrokerFifo ==
  ASSUME FifoInv, BrokerStep \/ BrokerClose \/ \E q \in 0..2 : BrokerPublish(q)
  PROVE  OwnContents' /\ SendFifo'
<1>1. UNCHANGED <<clientVars, callerVars, threadVars, accepted, sent>>
  BY DEF BrokerStep, BrokerReceive, BrokerAnswer, BrokerClose, BrokerPublish, historyVars
<1> QED  BY <1>1, OtherStepsFifo DEF clientVars, threadVars

-----------------------------------------------------------------------------
LEMMA FifoStep == FifoInv /\ [Next]_vars => FifoInv'
<1> SUFFICES ASSUME FifoInv, [Next]_vars  PROVE FifoInv'
  OBVIOUS
<1>1. IndInv'
  BY StepInv DEF FifoInv
<1>2. ASSUME NEW c \in Callers, CallerStep(c) \/ SignalDisconnect(c)
      PROVE  OwnContents' /\ SendFifo'
  BY <1>2, GetBufferSlotFifo, MakeMessageFifo, MiddleStepsFifo, EnqueueSlotForSendFifo,
     DisconnectFifo DEF CallerStep
<1>3. ASSUME NEW c \in Callers, NEW k \in Kinds, Call(c, k)  PROVE OwnContents' /\ SendFifo'
  BY <1>3, CallFifo
<1>4. ASSUME UNCHANGED vars  PROVE OwnContents' /\ SendFifo'
  <2>1. UNCHANGED <<clientVars, callerVars, threadVars, historyVars>>
    BY <1>4 DEF vars
  <2>2. UNCHANGED <<send_queue, buffer_slots, accepted, sent, tpc, position>>
    BY <2>1 DEF clientVars, threadVars, historyVars
  <2> QED  BY <2>1, <2>2, OtherStepsFifo
<1>5. OwnContents' /\ SendFifo'
  BY <1>2, <1>3, <1>4, SessionStepFifo, BrokerFifo DEF Next
<1> QED  BY <1>1, <1>5 DEF FifoInv

LEMMA FifoInit == Init => FifoInv
<1> SUFFICES ASSUME Init  PROVE FifoInv
  OBVIOUS
<1>1. OwnContents
  BY DEF Init, OwnContents, Holding
<1>2. SendFifo
  BY DEF Init, SendFifo, Pending
<1> QED  BY <1>1, <1>2, InitInv DEF FifoInv

\* For any number of application threads, any pool size and any failures of
\* the connection, requests are handed to server_send in the order in which
\* their calls queued them, each once and with the contents its own caller
\* serialised.
THEOREM SendOrder == Spec => []SendFifo
<1>1. FifoInv => SendFifo
  BY DEF FifoInv
<1> QED  BY <1>1, FifoInit, FifoStep, PTL DEF Spec
=============================================================================
