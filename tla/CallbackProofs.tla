--------------------------- MODULE CallbackProofs ---------------------------
(***************************************************************************)
(* CallbackOnce is an invariant of Session, whatever the broker sends: the *)
(* argument does not look at toClient at all.  Each call of a kind in Once *)
(* is in one place (OnePlace), and the steps that move it take it out of   *)
(* the place where it was: the caller that registers it, the session       *)
(* thread that dequeues it, requeues it or calls it back.                  *)
(***************************************************************************)
EXTENDS SessionProofs

-----------------------------------------------------------------------------
(* Sequences.                                                              *)

LEMMA ConcatFacts ==
  ASSUME NEW S, NEW s \in Seq(S), NEW t \in Seq(S)
  PROVE  /\ s \o t \in Seq(S) /\ Len(s \o t) = Len(s) + Len(t)
         /\ \A j \in 1..(Len(s) + Len(t)) :
              (s \o t)[j] = IF j <= Len(s) THEN s[j] ELSE t[j - Len(s)]
  OBVIOUS

\* remove_from_queue: what is left are the other elements, each from a place
\* of its own.
LEMMA RemoveAtFacts ==
  ASSUME NEW S, NEW s \in Seq(S), NEW i \in DOMAIN s
  PROVE  /\ DOMAIN RemoveAt(s, i) = 1..(Len(s) - 1)
         /\ \A j \in 1..(Len(s) - 1) :
              RemoveAt(s, i)[j] = s[IF j < i THEN j ELSE j + 1]
<1> DEFINE a == SubSeq(s, 1, i - 1)
           b == SubSeq(s, i + 1, Len(s))
<1>1. Len(s) \in Nat /\ DOMAIN s = 1..Len(s) /\ i \in 1..Len(s)
  OBVIOUS
<1>2. /\ a \in Seq(S) /\ Len(a) = i - 1 /\ \A j \in 1..(i - 1) : a[j] = s[j]
      /\ b \in Seq(S) /\ Len(b) = Len(s) - i /\ \A j \in 1..(Len(s) - i) : b[j] = s[i + j]
  BY <1>1
<1>3. RemoveAt(s, i) = a \o b
  BY DEF RemoveAt
<1> HIDE DEF a, b
<1>4. /\ a \o b \in Seq(S) /\ Len(a \o b) = Len(s) - 1
      /\ \A j \in 1..(Len(s) - 1) : (a \o b)[j] = IF j <= i - 1 THEN a[j] ELSE b[j - (i - 1)]
  <2>1. Len(a) + Len(b) = Len(s) - 1
    BY <1>1, <1>2
  <2>2. /\ a \o b \in Seq(S) /\ Len(a \o b) = Len(a) + Len(b)
        /\ \A j \in 1..(Len(a) + Len(b)) :
             (a \o b)[j] = IF j <= Len(a) THEN a[j] ELSE b[j - Len(a)]
    BY <1>2, ConcatFacts, ZenonT(60)
  <2> QED  BY <1>2, <2>1, <2>2
<1>5. ASSUME NEW j \in 1..(Len(s) - 1)
      PROVE  (a \o b)[j] = s[IF j < i THEN j ELSE j + 1]
  <2>1. CASE j < i
    BY <1>1, <1>2, <1>4, <2>1
  <2>2. CASE ~(j < i)
    <3>1. j - (i - 1) \in 1..(Len(s) - i) /\ i + (j - (i - 1)) = j + 1
      BY <1>1, <2>2
    <3>2. (a \o b)[j] = b[j - (i - 1)]
      BY <1>1, <1>4, <2>2
    <3> QED  BY <1>2, <2>2, <3>1, <3>2
  <2> QED  BY <2>1, <2>2
<1> QED  BY <1>3, <1>4, <1>5

\* The same as a fact about any queue and what it contains.
LEMMA RemoveAtElements ==
  ASSUME NEW S, NEW s \in Seq(S), NEW i \in DOMAIN s
  PROVE  \E f \in [DOMAIN RemoveAt(s, i) -> DOMAIN s \ {i}] :
           /\ \A j \in DOMAIN RemoveAt(s, i) : RemoveAt(s, i)[j] = s[f[j]]
           /\ \A j, k \in DOMAIN RemoveAt(s, i) : f[j] = f[k] => j = k
<1> DEFINE f == [j \in 1..(Len(s) - 1) |-> IF j < i THEN j ELSE j + 1]
<1>1. Len(s) \in Nat /\ DOMAIN s = 1..Len(s) /\ i \in 1..Len(s)
  OBVIOUS
<1>2. f \in [1..(Len(s) - 1) -> DOMAIN s \ {i}]
  BY <1>1
<1>3. \A j, k \in 1..(Len(s) - 1) : f[j] = f[k] => j = k
  BY <1>1
<1>4. /\ DOMAIN RemoveAt(s, i) = 1..(Len(s) - 1)
      /\ \A j \in 1..(Len(s) - 1) : RemoveAt(s, i)[j] = s[f[j]]
  BY RemoveAtFacts
<1> HIDE DEF f
<1> QED  BY <1>2, <1>3, <1>4

-----------------------------------------------------------------------------
(* What a step leaves alone stays true.                                    *)

LEMMA UnknownFrame ==
  ASSUME UNCHANGED <<ack_queue, called>>, NEW x
  PROVE  Unknown(x)' <=> Unknown(x)
  BY DEF Unknown

\* Steps of the session thread and the broker that neither register, dequeue
\* nor call back, and put nothing into the thread's hand.
LEMMA QuietThread ==
  ASSUME CallbackInv, UNCHANGED <<ack_queue, called, calls, callerVars>>,
         waiting' = waiting,
         ~InHand' \/ (tpc' = tpc /\ resp' = resp),
         tpc' = "enqueue_waiting" => tpc = "enqueue_waiting"
  PROVE  RequestsOK' /\ RegisteredOK' /\ HandOK' /\ CalledOK' /\ OnePlace'
<1>0. InHand' => InHand
  BY DEF InHand
<1>1. RequestsOK' /\ RegisteredOK' /\ CalledOK'
  BY DEF CallbackInv, RequestsOK, RegisteredOK, CalledOK, EntryOK, callerVars
<1>2. HandOK'
  <2>1. tpc' = "reply" /\ resp'.type = "PUBREC" => waiting'.type = "PUBREC"
    BY DEF CallbackInv, HandOK, InHand
  <2> QED  BY <1>0, <2>1 DEF CallbackInv, HandOK, EntryOK
<1>3. OnePlace'
  <2>1. \A c \in Callers : Unregistered(c)' <=> Unregistered(c)
    BY DEF Unregistered, callerVars
  <2>2. /\ \A c \in Callers : op'[c] = op[c]
        /\ \A x : Unknown(x)' <=> Unknown(x)
    BY UnknownFrame DEF callerVars
  <2> QED  BY <1>0, <2>1, <2>2 DEF CallbackInv, OnePlace, CallbackOnce
<1> QED  BY <1>1, <1>2, <1>3

\* Steps of an API call that register nothing.
LEMMA QuietCaller ==
  ASSUME CallbackInv, NEW c \in Callers, UNCHANGED <<ack_queue, called, calls, op, threadVars>>,
         \A d \in Callers : d # c => pc'[d] = pc[d] /\ entry'[d] = entry[d],
         Unregistered(c)' => Unregistered(c), pc'[c] \in CallerSteps => pc[c] \in CallerSteps,
         pc'[c] = "wait" => entry'[c].ctx = op[c] /\ Registers(entry'[c]) /\ EntryOK(entry'[c])
  PROVE  RequestsOK' /\ RegisteredOK' /\ HandOK' /\ CalledOK' /\ OnePlace'
<1>1. RegisteredOK' /\ CalledOK'
  BY DEF CallbackInv, RegisteredOK, CalledOK, EntryOK
<1>2. (InHand' <=> InHand) /\ waiting' = waiting
  BY DEF InHand, threadVars
<1>3. HandOK'
  BY <1>2 DEF CallbackInv, HandOK, EntryOK, threadVars
<1>4. RequestsOK'
  BY DEF CallbackInv, RequestsOK, EntryOK
<1>5. OnePlace'
  <2>1. \A d \in Callers : Unregistered(d)' => Unregistered(d)
    BY DEF Unregistered
  <2>2. \A x : Unknown(x)' <=> Unknown(x)
    BY UnknownFrame
  <2> QED  BY <1>2, <2>1, <2>2 DEF CallbackInv, OnePlace, CallbackOnce
<1> QED  BY <1>1, <1>3, <1>4, <1>5

-----------------------------------------------------------------------------
(* The API calls.                                                          *)

\* The flow of a call, for the kinds that are called back: they are registered
\* with the step after fill, and never go back to one before it.
LEMMA OnceFlow ==
  ASSUME NEW k \in Once, NEW s \in DOMAIN After(k)
  PROVE  /\ After(k)[s] \in {"get_slot", "make", "fill", "wait"} =>
              s \in {"get_slot", "make", "fill"}
         /\ s = "wait" => After(k)[s] \notin {"get_slot", "make", "fill", "wait"}
  BY DEF Once, After, PingFlow, PublishFlow, Qos

\* A publish at QoS 0 fills in no waiting_t.
LEMMA FillKinds ==
  ASSUME NEW k \in Kinds, "fill" \in DOMAIN After(k)
  PROVE  k # "pub0"
  BY DEF After, PublishFlow, Qos

\* What FillWaiting writes.
LEMMA WaitingShape ==
  ASSUME CallbackInv, NEW c \in Callers, pc[c] = "fill"
  PROVE  /\ WaitingFor(op[c]).ctx = op[c]
         /\ Registers(WaitingFor(op[c])) /\ EntryOK(WaitingFor(op[c]))
<1>1. op[c].kind \in Kinds /\ "fill" \in DOMAIN After(op[c].kind)
  BY DEF CallbackInv, IndInv, TypeOK, CallerTypeOK, CallerOK, CallerSteps
<1>2. op[c].kind \in {"ping", "pub1", "pub2", "sub", "unsub"}
  BY <1>1, FillKinds DEF Kinds
<1>3. op[c].n \in 1..calls[op[c].kind]
  <2>1. op[c].n \in Nat /\ calls[op[c].kind] \in Nat
    BY <1>1 DEF CallbackInv, IndInv, TypeOK, CallerTypeOK, HistoryTypeOK
  <2>2. op[c].n <= calls[op[c].kind] /\ op[c].n >= 1
    BY DEF CallbackInv, RequestsOK, CallerSteps
  <2> QED  BY <2>1, <2>2
<1>4. WaitingFor(op[c]).ctx = op[c]
  BY DEF WaitingFor
<1>5. /\ op[c].kind \in Once => WaitingFor(op[c]).type \in {"PINGRESP", "PUBACK", "PUBREC"}
      /\ op[c].kind = "ping" <=> WaitingFor(op[c]).type = "PINGRESP"
      /\ op[c].kind \notin Once => WaitingFor(op[c]).type = "SUBACK"
      /\ op[c].kind = "unsub" => WaitingFor(op[c]).id = -1
  BY <1>2 DEF WaitingFor, Once
<1> QED  BY <1>1, <1>2, <1>3, <1>4, <1>5 DEF Registers, EntryOK, Once, AckTypes

LEMMA CallOnce ==
  ASSUME CallbackInv, NEW c \in Callers, NEW k \in Kinds, Call(c, k)
  PROVE  RequestsOK' /\ RegisteredOK' /\ HandOK' /\ CalledOK' /\ OnePlace'
<1> DEFINE x == [kind |-> k, n |-> calls[k] + 1]
<1>1. /\ calls \in [Kinds \cup {"disconnect"} -> Nat] /\ op' = [op EXCEPT ![c] = x]
      /\ calls' = [calls EXCEPT ![k] = @ + 1] /\ pc' = [pc EXCEPT ![c] = "get_slot"]
      /\ UNCHANGED <<entry, ack_queue, called, tpc, resp, waiting>>
      /\ op \in [Callers -> [kind : Kinds, n : Nat]] /\ pc[c] = "idle"
      /\ DOMAIN pc = Callers /\ k \in Kinds \cup {"disconnect"}
  BY DEF CallbackInv, IndInv, TypeOK, HistoryTypeOK, CallerTypeOK, Call, Goto, clientVars, threadVars
<1>2. \A j \in Kinds : calls[j] \in Nat /\ calls'[j] \in Nat /\ calls[j] <= calls'[j]
  BY <1>1
<1>3. calls'[k] = calls[k] + 1 /\ op'[c] = x /\ pc'[c] = "get_slot"
  BY <1>1
<1>4. \A d \in Callers : d # c => op'[d] = op[d] /\ pc'[d] = pc[d]
  BY <1>1
<1>5. \A e : /\ e.ctx.kind \in Kinds /\ e.ctx.n \in Nat /\ EntryOK(e) => EntryOK(e)'
  BY <1>2 DEF EntryOK
<1>6. /\ ack_queue \in Seq(Entries) /\ called \in Seq(Contexts)
      /\ \A d \in Callers : entry[d] \in Entries \cup {NoEntry}
      /\ waiting \in Entries \cup {NoEntry}
  BY DEF CallbackInv, IndInv, TypeOK, ClientTypeOK, HistoryTypeOK, CallerTypeOK, ThreadTypeOK
<1>7. RequestsOK'
  <2> SUFFICES ASSUME NEW d \in Callers
               PROVE  /\ op'[d].n <= calls'[op'[d].kind]
                      /\ pc'[d] \in CallerSteps => op'[d].n >= 1
                      /\ pc'[d] = "wait" => /\ entry'[d].ctx = op'[d] /\ Registers(entry'[d])
                                            /\ EntryOK(entry[d])'
    BY <1>1 DEF RequestsOK, Registers
  <2>1. CASE d = c
    BY <1>1, <1>2, <1>3, <2>1
  <2>2. CASE d # c
    <3>1. op[d].kind \in Kinds /\ op[d].n \in Nat
      BY <1>1
    <3>2. op'[d].n <= calls'[op'[d].kind]
      BY <1>2, <1>4, <2>2, <3>1 DEF CallbackInv, RequestsOK
    <3> QED  BY <1>1, <1>4, <1>5, <2>2, <3>1, <3>2 DEF CallbackInv, RequestsOK
  <2> QED  BY <2>1, <2>2
<1>8. RegisteredOK'
  <2> SUFFICES ASSUME NEW i \in DOMAIN ack_queue, Registers(ack_queue[i])
               PROVE  EntryOK(ack_queue[i])'
    BY <1>1 DEF RegisteredOK, Registers
  <2>1. EntryOK(ack_queue[i])
    BY DEF CallbackInv, RegisteredOK
  <2>2. ack_queue[i] \in Entries
    BY <1>6
  <2>3. ack_queue[i].ctx.n \in Nat
    BY <2>2 DEF Entries, Contexts
  <2>4. ack_queue[i].ctx.kind \in Kinds
    BY <2>1 DEF EntryOK
  <2> QED  BY <1>1, <1>5, <2>1, <2>3, <2>4
<1>9. CalledOK'
  <2> SUFFICES ASSUME NEW i \in DOMAIN called
               PROVE  called[i].kind \in Once \cup {"sub"} /\ called[i].n \in 1..calls'[called[i].kind]
    BY <1>1 DEF CalledOK
  <2>1. called[i] \in Contexts
    BY <1>6
  <2>2. called[i].n \in Nat
    BY <2>1 DEF Contexts
  <2>3. called[i].kind \in Kinds
    BY DEF CallbackInv, CalledOK, Once, Kinds
  <2> QED  BY <1>2, <2>2, <2>3 DEF CallbackInv, CalledOK
<1>10. InHand' <=> InHand
  BY <1>1 DEF InHand
<1>11. EntryOK(waiting) /\ waiting \in Entries => EntryOK(waiting)'
  <2>1. waiting \in Entries => waiting.ctx.n \in Nat
    BY DEF Entries, Contexts
  <2>2. EntryOK(waiting) => waiting.ctx.kind \in Kinds
    BY DEF EntryOK
  <2> QED  BY <1>1, <1>5, <2>1, <2>2
<1>12. HandOK'
  <2>1. InHand => waiting \in Entries
    BY DEF CallbackInv, IndInv, ThreadOK, InHand
  <2> QED  BY <1>1, <1>6, <1>10, <1>11, <2>1 DEF CallbackInv, HandOK, Registers
<1>13. OnePlace'
  <2>1. \A y : Unknown(y)' <=> Unknown(y)
    BY <1>1, UnknownFrame
  <2>2. Unknown(x) /\ (InHand => waiting.ctx # x)
    <3>1. ASSUME NEW i \in DOMAIN ack_queue, Registers(ack_queue[i])  PROVE ack_queue[i].ctx # x
      BY <1>2, <3>1 DEF CallbackInv, RegisteredOK, EntryOK
    <3>2. ASSUME NEW i \in DOMAIN called  PROVE called[i] # x
      BY <1>2 DEF CallbackInv, CalledOK
    <3>3. InHand => waiting.ctx # x
      BY <1>2 DEF CallbackInv, HandOK, EntryOK
    <3> QED  BY <3>1, <3>2, <3>3 DEF Unknown
  <2>3. \A d \in Callers : d # c => op[d] # x /\ (Unregistered(d)' <=> Unregistered(d))
    BY <1>2, <1>4 DEF CallbackInv, RequestsOK, Unregistered
  <2> QED  BY <1>1, <1>3, <1>4, <1>10, <2>1, <2>2, <2>3 DEF CallbackInv, OnePlace, CallbackOnce
<1> QED  BY <1>7, <1>8, <1>9, <1>12, <1>13

\* An API call goes on; entry is that of FillWaiting or the old one.
LEMMA AdvanceOnce ==
  ASSUME CallbackInv, NEW c \in Callers, Advance(c), pc[c] \in CallerSteps \ {"wait"},
         UNCHANGED <<ack_queue, called, calls, op, threadVars>>,
         entry' = IF pc[c] = "fill" THEN [entry EXCEPT ![c] = WaitingFor(op[c])] ELSE entry
  PROVE  RequestsOK' /\ RegisteredOK' /\ HandOK' /\ CalledOK' /\ OnePlace'
<1>1. /\ op[c].kind \in Kinds /\ pc[c] \in DOMAIN After(op[c].kind)
      /\ pc' = [pc EXCEPT ![c] = After(op[c].kind)[pc[c]]] /\ DOMAIN pc = Callers
      /\ DOMAIN entry = Callers
  BY DEF CallbackInv, IndInv, TypeOK, CallerTypeOK, CallerOK, Advance, Goto
<1>2. Unregistered(c)' => Unregistered(c)
  BY <1>1, OnceFlow DEF Unregistered
<1>3. pc'[c] = "wait" => pc[c] = "fill"
  BY <1>1, FlowFacts
<1>4. pc'[c] = "wait" => entry'[c].ctx = op[c] /\ Registers(entry'[c]) /\ EntryOK(entry'[c])
  BY <1>1, <1>3, WaitingShape
<1>5. \A d \in Callers : d # c => pc'[d] = pc[d] /\ entry'[d] = entry[d]
  BY <1>1
<1> QED  BY <1>2, <1>4, <1>5, QuietCaller

LEMMA MiddleStepsOnce ==
  ASSUME CallbackInv, NEW c \in Callers,
         \/ GetBufferSlot(c) \/ MakeMessage(c) \/ FillWaiting(c)
         \/ LoadPacketId(c) \/ StorePacketId(c) \/ EnqueueSlotForSend(c)
  PROVE  RequestsOK' /\ RegisteredOK' /\ HandOK' /\ CalledOK' /\ OnePlace'
<1>1. CASE GetBufferSlot(c)
  <2>1. UNCHANGED <<ack_queue, called, calls, op, entry, threadVars>> /\ pc[c] = "get_slot"
    BY <1>1 DEF GetBufferSlot, historyVars
  <2>2. CASE Advance(c)
    BY <2>1, <2>2, AdvanceOnce DEF CallerSteps
  <2>3. CASE pc' = pc
    BY <2>1, <2>3, QuietCaller DEF Unregistered
  <2> QED  BY <1>1, <2>2, <2>3 DEF GetBufferSlot
<1>2. CASE MakeMessage(c)
  BY <1>2, AdvanceOnce DEF MakeMessage, CallerSteps, historyVars
<1>3. CASE FillWaiting(c)
  BY <1>3, AdvanceOnce DEF FillWaiting, CallerSteps, clientVars, historyVars
<1>4. CASE LoadPacketId(c)
  BY <1>4, AdvanceOnce DEF LoadPacketId, CallerSteps, clientVars, historyVars
<1>5. CASE StorePacketId(c)
  BY <1>5, AdvanceOnce DEF StorePacketId, CallerSteps, historyVars
<1>6. CASE EnqueueSlotForSend(c)
  BY <1>6, AdvanceOnce DEF EnqueueSlotForSend, CallerSteps
<1> QED  BY <1>1, <1>2, <1>3, <1>4, <1>5, <1>6

LEMMA DisconnectOnce ==
  ASSUME CallbackInv, NEW c \in Callers,
         SignalDisconnect(c) \/ JoinSessionThread(c) \/ SendDisconnect(c)
  PROVE  RequestsOK' /\ RegisteredOK' /\ HandOK' /\ CalledOK' /\ OnePlace'
<1>1. /\ UNCHANGED <<ack_queue, called, op, entry, threadVars>>
      /\ \E t \in {"join", "bye", "gone"} : pc' = pc \/ pc' = [pc EXCEPT ![c] = t]
  BY DEF SignalDisconnect, JoinSessionThread, SendDisconnect, Goto, historyVars
<1>2. DOMAIN pc = Callers
  BY DEF CallbackInv, IndInv, TypeOK, CallerTypeOK
<1>3. \A d \in Callers : pc'[d] = pc[d] \/ pc'[d] \in {"join", "bye", "gone"}
  BY <1>1, <1>2
<1>4. \A j \in Kinds : calls'[j] = calls[j]
  BY DEF SignalDisconnect, JoinSessionThread, SendDisconnect, historyVars, Kinds,
     CallbackInv, IndInv, TypeOK, HistoryTypeOK
<1>5. InHand' <=> InHand
  BY <1>1 DEF InHand, threadVars
<1>6. \A e : EntryOK(e) => EntryOK(e)'
  BY <1>4 DEF EntryOK
<1>7. RequestsOK'
  <2> SUFFICES ASSUME NEW d \in Callers
               PROVE  /\ op[d].n <= calls'[op[d].kind]
                      /\ pc'[d] \in CallerSteps => op[d].n >= 1
                      /\ pc'[d] = "wait" => /\ entry[d].ctx = op[d] /\ Registers(entry[d])
                                            /\ EntryOK(entry[d])'
    BY <1>1 DEF RequestsOK, Registers
  <2>1. op[d].kind \in Kinds
    BY DEF CallbackInv, IndInv, TypeOK, CallerTypeOK
  <2> QED  BY <1>1, <1>3, <1>4, <1>6, <2>1 DEF CallbackInv, RequestsOK, CallerSteps
<1>8. RegisteredOK'
  BY <1>1, <1>6 DEF CallbackInv, RegisteredOK, Registers
<1>9. HandOK'
  BY <1>1, <1>5, <1>6 DEF CallbackInv, HandOK, Registers, threadVars
<1>10. CalledOK'
  BY <1>1, <1>4 DEF CallbackInv, CalledOK, Once, Kinds
<1>11. OnePlace'
  <2>1. \A d \in Callers : Unregistered(d)' => Unregistered(d)
    BY <1>1, <1>3 DEF Unregistered
  <2>2. (\A x : Unknown(x)' <=> Unknown(x)) /\ waiting' = waiting
    BY <1>1, UnknownFrame DEF threadVars
  <2> QED  BY <1>1, <1>5, <2>1, <2>2 DEF CallbackInv, OnePlace, CallbackOnce
<1> QED  BY <1>7, <1>8, <1>9, <1>10, <1>11

-----------------------------------------------------------------------------
(* Entering ack_queue.                                                     *)

\* What enqueue does to a place in ack_queue, as facts.
LEMMA EnqueueFacts ==
  ASSUME NEW S, NEW s \in Seq(S), NEW e \in S
  PROVE  /\ DOMAIN Append(s, e) = DOMAIN s \cup {Len(s) + 1}
         /\ Append(s, e)[Len(s) + 1] = e /\ Len(s) + 1 \notin DOMAIN s
         /\ \A i \in DOMAIN s : Append(s, e)[i] = s[i]
  OBVIOUS

LEMMA EnqueueWaitingOnce ==
  ASSUME CallbackInv, NEW c \in Callers, EnqueueWaiting(c)
  PROVE  RequestsOK' /\ RegisteredOK' /\ HandOK' /\ CalledOK' /\ OnePlace'
<1> DEFINE n == Len(ack_queue) + 1
<1>1. /\ op[c].kind \in Kinds /\ pc[c] \in DOMAIN After(op[c].kind) /\ pc[c] = "wait"
      /\ pc' = [pc EXCEPT ![c] = After(op[c].kind)[pc[c]]] /\ DOMAIN pc = Callers
  BY DEF CallbackInv, IndInv, TypeOK, CallerTypeOK, CallerOK, Advance, Goto, CallerSteps,
     EnqueueWaiting
<1>2. /\ entry[c] \in Entries /\ ack_queue \in Seq(Entries)
      /\ ack_queue' = Append(ack_queue, entry[c])
      /\ UNCHANGED <<op, entry, calls, called, tpc, resp, waiting>>
  BY DEF CallbackInv, IndInv, CallerOK, TypeOK, ClientTypeOK, EnqueueWaiting, enqueue,
     threadVars, historyVars
<1>3. /\ DOMAIN ack_queue' = DOMAIN ack_queue \cup {n}
      /\ ack_queue'[n] = entry[c] /\ n \notin DOMAIN ack_queue
      /\ \A i \in DOMAIN ack_queue : ack_queue'[i] = ack_queue[i]
  BY <1>2, EnqueueFacts
<1> HIDE DEF n
<1>4. entry[c].ctx = op[c] /\ Registers(entry[c]) /\ EntryOK(entry[c])
  BY <1>1 DEF CallbackInv, RequestsOK
<1>5. pc'[c] # "wait" /\ ~Unregistered(c)' /\ \A d \in Callers : d # c => pc'[d] = pc[d]
  BY <1>1, <1>2, FlowFacts, OnceFlow DEF Unregistered
<1>6. \A e : EntryOK(e)' <=> EntryOK(e)
  BY <1>2 DEF EntryOK
<1>7. RequestsOK'
  BY <1>1, <1>2, <1>5, <1>6 DEF CallbackInv, RequestsOK, Registers, CallerSteps
<1>8. RegisteredOK'
  BY <1>3, <1>4, <1>6 DEF CallbackInv, RegisteredOK, Registers
<1>9. CalledOK'
  BY <1>2 DEF CallbackInv, CalledOK
<1>10. InHand' <=> InHand
  BY <1>2 DEF InHand
<1>11. HandOK'
  BY <1>2, <1>6, <1>10 DEF CallbackInv, HandOK, Registers
<1>12. OnePlace'
  <2>1. op[c].kind \in Once => Unregistered(c)
    BY <1>1 DEF Unregistered
  <2>2. \A x : Unknown(x) /\ (x.kind \in Once => x # op[c]) => Unknown(x)'
    BY <1>2, <1>3, <1>4 DEF Unknown
  <2>3. \A d \in Callers : Unregistered(d)' => /\ Unregistered(d) /\ d # c
    BY <1>2, <1>5 DEF Unregistered
  <2>4. \A d \in Callers : Unregistered(d)' => op[d] # op[c]
    BY <2>1, <2>3 DEF CallbackInv, OnePlace, Unregistered
  <2>5. \A d \in Callers : Unregistered(d)' => Unknown(op[d])'
    BY <1>2, <2>2, <2>3, <2>4 DEF CallbackInv, OnePlace
  <2>6. InHand => Unknown(waiting.ctx)'
    BY <1>2, <2>1, <2>2 DEF CallbackInv, OnePlace
  <2>7. \A i, j \in DOMAIN ack_queue' :
          /\ Registers(ack_queue'[i]) /\ Registers(ack_queue'[j])
          /\ ack_queue'[i].ctx = ack_queue'[j].ctx /\ ack_queue'[i].ctx.kind \in Once
          => i = j
    BY <1>3, <1>4, <2>1 DEF CallbackInv, OnePlace, Unknown
  <2>8. \A i \in DOMAIN ack_queue', j \in DOMAIN called :
          Registers(ack_queue'[i]) /\ ack_queue'[i].ctx.kind \in Once => ack_queue'[i].ctx # called[j]
    BY <1>3, <1>4, <2>1 DEF CallbackInv, OnePlace, Unknown
  <2> QED  BY <1>2, <1>10, <2>3, <2>5, <2>6, <2>7, <2>8
           DEF CallbackInv, OnePlace, CallbackOnce, Registers
<1> QED  BY <1>7, <1>8, <1>9, <1>11, <1>12

\* enqueue_waiting by the session thread: from its hand to the queue.
LEMMA RequeueWaitingOnce ==
  ASSUME CallbackInv, RequeueWaiting
  PROVE  RequestsOK' /\ RegisteredOK' /\ HandOK' /\ CalledOK' /\ OnePlace'
<1> DEFINE n == Len(ack_queue) + 1
<1>1. /\ waiting \in Entries /\ ack_queue \in Seq(Entries)
      /\ ack_queue' = Append(ack_queue, waiting) /\ tpc = "enqueue_waiting" /\ tpc' = "top"
      /\ UNCHANGED <<callerVars, calls, called, resp, waiting>>
  BY DEF CallbackInv, IndInv, ThreadOK, TypeOK, ClientTypeOK, RequeueWaiting, enqueue,
     ThreadStep, historyVars
<1>2. UNCHANGED <<pc, op, entry>>
  BY <1>1 DEF callerVars
<1>3. /\ DOMAIN ack_queue' = DOMAIN ack_queue \cup {n}
      /\ ack_queue'[n] = waiting /\ n \notin DOMAIN ack_queue
      /\ \A i \in DOMAIN ack_queue : ack_queue'[i] = ack_queue[i]
  BY <1>1, EnqueueFacts
<1> HIDE DEF n
<1>4. Registers(waiting) => InHand /\ EntryOK(waiting) /\ Unknown(waiting.ctx)
  BY <1>1 DEF CallbackInv, HandOK, OnePlace, InHand, Registers
<1>5. ~InHand'
  BY <1>1 DEF InHand
<1>6. \A e : EntryOK(e)' <=> EntryOK(e)
  BY <1>1 DEF EntryOK
<1>7. RequestsOK'
  BY <1>1, <1>2, <1>6 DEF CallbackInv, RequestsOK, Registers
<1>8. RegisteredOK'
  BY <1>3, <1>4, <1>6 DEF CallbackInv, RegisteredOK, Registers
<1>9. CalledOK' /\ HandOK'
  BY <1>1, <1>5 DEF CallbackInv, CalledOK, HandOK
<1>10. OnePlace'
  <2>1. \A d \in Callers : Unregistered(d)' => Unregistered(d)
    BY <1>2 DEF Unregistered
  <2>2. \A x : Unknown(x) /\ (Registers(waiting) => x # waiting.ctx) => Unknown(x)'
    BY <1>1, <1>3 DEF Unknown
  <2>3. \A d \in Callers : Unregistered(d)' => Unknown(op[d])'
    BY <1>2, <1>4, <2>1, <2>2 DEF CallbackInv, OnePlace
  <2>4. \A i, j \in DOMAIN ack_queue' :
          /\ Registers(ack_queue'[i]) /\ Registers(ack_queue'[j])
          /\ ack_queue'[i].ctx = ack_queue'[j].ctx /\ ack_queue'[i].ctx.kind \in Once
          => i = j
    BY <1>3, <1>4 DEF CallbackInv, OnePlace, Unknown
  <2>5. \A i \in DOMAIN ack_queue', j \in DOMAIN called :
          Registers(ack_queue'[i]) /\ ack_queue'[i].ctx.kind \in Once => ack_queue'[i].ctx # called[j]
    BY <1>3, <1>4 DEF CallbackInv, OnePlace, Unknown
  <2> QED  BY <1>1, <1>2, <1>5, <2>1, <2>3, <2>4, <2>5
           DEF CallbackInv, OnePlace, CallbackOnce, Registers
<1> QED  BY <1>7, <1>8, <1>9, <1>10

-----------------------------------------------------------------------------
(* Leaving ack_queue.                                                      *)

\* dequeue_by_type_and_id that finds an entry: from the queue into the hand of
\* the session thread.
LEMMA DequeueOnce ==
  ASSUME CallbackInv, NEW i \in DOMAIN ack_queue, tpc = "dispatch",
         waiting' = ack_queue[i], ack_queue' = remove_from_queue(ack_queue, i),
         UNCHANGED <<resp, called, calls, callerVars>>,
         \/ tpc' = "callback" /\ Registers(ack_queue[i])
         \/ tpc' = "reply" /\ ack_queue[i].type = resp.type /\ resp.type \in {"PUBREC", "PUBREL"},
         ack_queue[i].type = "SUBACK" => ack_queue[i].ctx.kind = "sub"
  PROVE  RequestsOK' /\ RegisteredOK' /\ HandOK' /\ CalledOK' /\ OnePlace'
<1>1. UNCHANGED <<pc, op, entry>> /\ ack_queue \in Seq(Entries)
  BY DEF callerVars, CallbackInv, IndInv, TypeOK, ClientTypeOK
<1>2. PICK f \in [DOMAIN ack_queue' -> DOMAIN ack_queue \ {i}] :
        /\ \A j \in DOMAIN ack_queue' : ack_queue'[j] = ack_queue[f[j]]
        /\ \A j, k \in DOMAIN ack_queue' : f[j] = f[k] => j = k
  BY <1>1, RemoveAtElements DEF remove_from_queue
<1>3. \A j \in DOMAIN ack_queue' : f[j] \in DOMAIN ack_queue /\ f[j] # i
  BY <1>2
<1>4. \A e : EntryOK(e)' <=> EntryOK(e)
  BY DEF EntryOK
<1>5. Registers(ack_queue[i]) => EntryOK(ack_queue[i])
  BY DEF CallbackInv, RegisteredOK
<1>6. RequestsOK' /\ CalledOK'
  BY <1>1, <1>4 DEF CallbackInv, RequestsOK, CalledOK, Registers
<1>7. RegisteredOK'
  BY <1>2, <1>3, <1>4 DEF CallbackInv, RegisteredOK, Registers
<1>8. InHand' => Registers(ack_queue[i])
  BY DEF InHand, Registers
<1>9. HandOK'
  <2>1. EntryOK(ack_queue[i]) => ack_queue[i].ctx.kind \in Once \cup {"sub"}
    BY DEF EntryOK
  <2> QED  BY <1>4, <1>5, <1>8, <2>1 DEF HandOK, Registers
<1>10. OnePlace'
  <2>1. \A x : Unknown(x) => Unknown(x)'
    BY <1>2, <1>3 DEF Unknown, Registers
  <2>2. InHand' => Unknown(waiting.ctx)'
    <3> SUFFICES ASSUME InHand', ack_queue[i].ctx.kind \in Once
                 PROVE  /\ \A j \in DOMAIN ack_queue' :
                             Registers(ack_queue'[j]) => ack_queue'[j].ctx # ack_queue[i].ctx
                        /\ \A j \in DOMAIN called : called[j] # ack_queue[i].ctx
      BY DEF Unknown, Registers
    <3> QED  BY <1>2, <1>3, <1>8 DEF CallbackInv, OnePlace
  <2>3. \A c \in Callers : Unregistered(c)' => Unregistered(c)
    BY <1>1 DEF Unregistered
  <2>4. \A c \in Callers : Unregistered(c)' => /\ Unknown(op[c])'
                                               /\ InHand' => waiting' .ctx # op[c]
    BY <1>1, <1>8, <2>1, <2>3 DEF CallbackInv, OnePlace, Unknown, Unregistered
  <2>5. \A c, d \in Callers : Unregistered(c)' /\ Unregistered(d)' /\ op[d] = op[c] => d = c
    BY <2>3 DEF CallbackInv, OnePlace
  <2>6. \A j, k \in DOMAIN ack_queue' :
          /\ Registers(ack_queue'[j]) /\ Registers(ack_queue'[k])
          /\ ack_queue'[j].ctx = ack_queue'[k].ctx /\ ack_queue'[j].ctx.kind \in Once
          => j = k
    <3>1. \A j, k \in DOMAIN ack_queue :
            /\ Registers(ack_queue[j]) /\ Registers(ack_queue[k])
            /\ ack_queue[j].ctx = ack_queue[k].ctx /\ ack_queue[j].ctx.kind \in Once
            => j = k
      BY DEF CallbackInv, OnePlace
    <3> QED  BY <1>2, <1>3, <3>1
  <2>7. \A j \in DOMAIN ack_queue', k \in DOMAIN called :
          Registers(ack_queue'[j]) /\ ack_queue'[j].ctx.kind \in Once => ack_queue'[j].ctx # called[k]
    BY <1>2, <1>3 DEF CallbackInv, OnePlace
  <2> QED  BY <1>1, <2>2, <2>4, <2>5, <2>6, <2>7
           DEF CallbackInv, OnePlace, CallbackOnce, Registers
<1> QED  BY <1>6, <1>7, <1>9, <1>10

LEMMA OnFinalAckOnce ==
  ASSUME CallbackInv, NEW t \in {"PINGRESP", "PUBACK", "PUBCOMP", "UNSUBACK"}, OnFinalAck(t)
  PROVE  RequestsOK' /\ RegisteredOK' /\ HandOK' /\ CalledOK' /\ OnePlace'
<1>1. tpc = "dispatch" /\ UNCHANGED <<resp, called, calls, callerVars>>
  BY DEF OnFinalAck, ThreadStep, historyVars
<1>2. ASSUME NEW i \in First(Hits(t, resp.id)), waiting' = ack_queue[i],
             ack_queue' = remove_from_queue(ack_queue, i), tpc' = "callback"
      PROVE  RequestsOK' /\ RegisteredOK' /\ HandOK' /\ CalledOK' /\ OnePlace'
  <2>1. i \in DOMAIN ack_queue /\ ack_queue[i].type = t
    BY <1>2 DEF First, Hits
  <2> QED  BY <1>1, <1>2, <2>1, DequeueOnce DEF Registers
<1>3. CASE tpc' = "top" /\ UNCHANGED <<waiting, ack_queue>>
  BY <1>1, <1>3, QuietThread DEF InHand
<1> QED  BY <1>2, <1>3 DEF OnFinalAck

LEMMA OnHandshakeOnce ==
  ASSUME CallbackInv, NEW t \in {"PUBREC", "PUBREL"}, OnHandshake(t)
  PROVE  RequestsOK' /\ RegisteredOK' /\ HandOK' /\ CalledOK' /\ OnePlace'
<1>1. tpc = "dispatch" /\ resp.type = t /\ UNCHANGED <<resp, called, calls, callerVars>>
  BY DEF OnHandshake, ThreadStep, historyVars
<1>2. ASSUME NEW i \in First(Hits(t, resp.id)), waiting' = ack_queue[i],
             ack_queue' = remove_from_queue(ack_queue, i), tpc' = "reply"
      PROVE  RequestsOK' /\ RegisteredOK' /\ HandOK' /\ CalledOK' /\ OnePlace'
  <2>1. i \in DOMAIN ack_queue /\ ack_queue[i].type = t
    BY <1>2 DEF First, Hits
  <2> QED  BY <1>1, <1>2, <2>1, DequeueOnce
<1>3. CASE tpc' = "top" /\ UNCHANGED <<waiting, ack_queue>>
  BY <1>1, <1>3, QuietThread DEF InHand
<1> QED  BY <1>2, <1>3 DEF OnHandshake

\* An entry that matches is that of a subscribe, and so is the old one that
\* may be called back when the identifiers differ.
LEMMA OnSubackOnce ==
  ASSUME CallbackInv, OnSuback
  PROVE  RequestsOK' /\ RegisteredOK' /\ HandOK' /\ CalledOK' /\ OnePlace'
<1> DEFINE S == {i \in DOMAIN ack_queue : ack_queue[i].type = "SUBACK"}
<1>1. /\ tpc = "dispatch" /\ UNCHANGED <<resp, called, calls, callerVars>>
      /\ resp.id \in PacketIds
  BY DEF OnSuback, ThreadStep, historyVars, CallbackInv, IndInv, ThreadOK, Messages
<1>2. ASSUME NEW i \in First(S), ack_queue[i].id = resp.id, waiting' = ack_queue[i],
             ack_queue' = remove_from_queue(ack_queue, i), tpc' = "callback"
      PROVE  RequestsOK' /\ RegisteredOK' /\ HandOK' /\ CalledOK' /\ OnePlace'
  <2>1. i \in DOMAIN ack_queue /\ ack_queue[i].type = "SUBACK"
    BY <1>2 DEF First
  <2>2. Registers(ack_queue[i]) /\ EntryOK(ack_queue[i])
    BY <2>1 DEF CallbackInv, RegisteredOK, Registers
  <2>3. ack_queue[i].ctx.kind = "sub"
    BY <1>1, <1>2, <2>1, <2>2, MaxIdType DEF EntryOK, PacketIds
  <2> QED  BY <1>1, <1>2, <2>1, <2>2, <2>3, DequeueOnce
<1>3. CASE tpc' \in {"top", "dispatch"} /\ UNCHANGED <<waiting, ack_queue>>
  BY <1>1, <1>3, QuietThread DEF InHand
<1>4. CASE /\ waiting # NoEntry /\ waiting.type = "SUBACK" /\ tpc' = "callback"
           /\ UNCHANGED <<waiting, ack_queue>>
  <2>1. /\ waiting \in Entries /\ waiting.ctx.kind = "sub" /\ EntryOK(waiting)
        /\ UNCHANGED <<pc, op, entry>>
    BY <1>1, <1>4 DEF CallbackInv, IndInv, TypeOK, ThreadTypeOK, HandOK, callerVars
  <2>2. (\A e : EntryOK(e)' <=> EntryOK(e)) /\ (\A x : Unknown(x)' <=> Unknown(x))
    BY <1>1, <1>4, UnknownFrame DEF EntryOK
  <2>3. RequestsOK' /\ RegisteredOK' /\ CalledOK'
    BY <1>1, <1>4, <2>1, <2>2 DEF CallbackInv, RequestsOK, RegisteredOK, CalledOK, Registers
  <2>4. HandOK'
    BY <1>4, <2>1, <2>2 DEF HandOK, Registers
  <2>5. OnePlace'
    <3>1. Unknown(waiting.ctx)' /\ \A c \in Callers : Unregistered(c) => op[c] # waiting.ctx
      BY <2>1, <1>4 DEF Unknown, Unregistered, Once
    <3>2. \A c \in Callers : Unregistered(c)' <=> Unregistered(c)
      BY <2>1 DEF Unregistered
    <3> QED  BY <1>1, <1>4, <2>1, <2>2, <3>1, <3>2
             DEF CallbackInv, OnePlace, CallbackOnce, Registers
  <2> QED  BY <2>3, <2>4, <2>5
<1> QED  BY <1>1, <1>2, <1>3, <1>4 DEF OnSuback

-----------------------------------------------------------------------------
(* Calling back, and the other steps of the session thread.                *)

\* From the hand of the session thread into the past.
LEMMA InvokeCallbackOnce ==
  ASSUME CallbackInv, InvokeCallback
  PROVE  RequestsOK' /\ RegisteredOK' /\ HandOK' /\ CalledOK' /\ OnePlace'
<1> DEFINE n == Len(called) + 1
<1>1. /\ waiting \in Entries /\ called \in Seq(Contexts) /\ waiting.ctx \in Contexts
      /\ called' = Append(called, waiting.ctx) /\ tpc = "callback" /\ tpc' = "top"
      /\ UNCHANGED <<pc, op, entry, ack_queue, calls, resp, waiting>>
  BY DEF CallbackInv, IndInv, ThreadOK, TypeOK, HistoryTypeOK, InvokeCallback, Entries,
     ThreadStep, callerVars, clientVars
<1>2. /\ DOMAIN called' = DOMAIN called \cup {n}
      /\ called'[n] = waiting.ctx /\ n \notin DOMAIN called
      /\ \A i \in DOMAIN called : called'[i] = called[i]
  BY <1>1, EnqueueFacts
<1> HIDE DEF n
<1>3. /\ InHand /\ ~InHand' /\ EntryOK(waiting) /\ Unknown(waiting.ctx)
      /\ waiting.ctx.kind \in Once \cup {"sub"}
  BY <1>1 DEF CallbackInv, HandOK, OnePlace, InHand
<1>4. \A e : EntryOK(e)' <=> EntryOK(e)
  BY <1>1 DEF EntryOK
<1>5. RequestsOK' /\ RegisteredOK'
  BY <1>1, <1>4 DEF CallbackInv, RequestsOK, RegisteredOK, Registers
<1>6. HandOK'
  BY <1>1, <1>3, <1>4 DEF CallbackInv, HandOK
<1>7. CalledOK'
  BY <1>1, <1>2, <1>3 DEF CallbackInv, CalledOK, EntryOK
<1>8. OnePlace'
  <2>1. \A c \in Callers : Unregistered(c)' <=> Unregistered(c)
    BY <1>1 DEF Unregistered
  <2>2. \A x : Unknown(x) /\ x # waiting.ctx => Unknown(x)'
    BY <1>1, <1>2 DEF Unknown
  <2>3. \A c \in Callers : Unregistered(c) => Unknown(op[c])'
    BY <1>1, <1>3, <2>2 DEF CallbackInv, OnePlace
  <2>4. CallbackOnce'
    BY <1>2, <1>3 DEF CallbackInv, OnePlace, CallbackOnce, Unknown
  <2>5. \A i \in DOMAIN ack_queue, j \in DOMAIN called' :
          Registers(ack_queue[i]) /\ ack_queue[i].ctx.kind \in Once => ack_queue[i].ctx # called'[j]
    BY <1>2, <1>3 DEF CallbackInv, OnePlace, Unknown
  <2> QED  BY <1>1, <1>3, <2>1, <2>3, <2>4, <2>5 DEF CallbackInv, OnePlace, Registers
<1> QED  BY <1>5, <1>6, <1>7, <1>8

\* A PUBREC that is answered turns its entry into one for PUBCOMP, a PUBLISH
\* makes one for PUBREL, and after a failed send the entry is lost.
LEMMA ReplyOnce ==
  ASSUME CallbackInv, Reply
  PROVE  RequestsOK' /\ RegisteredOK' /\ HandOK' /\ CalledOK' /\ OnePlace'
<1>1. /\ tpc = "reply" /\ resp \in Messages
      /\ UNCHANGED <<pc, op, entry, ack_queue, calls, called, resp>>
  BY DEF Reply, ThreadStep, CallbackInv, IndInv, ThreadOK, callerVars, historyVars
<1>2. CASE tpc' \in {"top", "deliver"} /\ waiting' = waiting
  BY <1>1, <1>2, QuietThread DEF InHand, Reply
<1>3. CASE resp.type = "PUBREC" /\ tpc' = "enqueue_waiting"
           /\ waiting' = [waiting EXCEPT !.type = "PUBCOMP", !.id = resp.id]
  <2>1. /\ waiting \in Entries /\ waiting.type = "PUBREC" /\ InHand /\ EntryOK(waiting)
        /\ waiting.ctx.kind \in Once
    BY <1>1, <1>3 DEF CallbackInv, IndInv, ThreadOK, HandOK, InHand, EntryOK
  <2>2. waiting'.type = "PUBCOMP" /\ waiting'.ctx = waiting.ctx
    BY <1>3, <2>1 DEF Entries
  <2>3. \A e : EntryOK(e)' <=> EntryOK(e)
    BY <1>1 DEF EntryOK
  <2>4. EntryOK(waiting)'
    BY <1>1, <2>1, <2>2 DEF EntryOK, AckTypes
  <2>5. RequestsOK' /\ RegisteredOK' /\ CalledOK'
    BY <1>1, <2>3 DEF CallbackInv, RequestsOK, RegisteredOK, CalledOK, Registers
  <2>6. HandOK'
    BY <1>3, <2>1, <2>2, <2>4 DEF HandOK, Registers
  <2>7. OnePlace'
    <3>1. (\A x : Unknown(x)' <=> Unknown(x)) /\ Unknown(waiting.ctx)
      BY <1>1, <2>1, UnknownFrame DEF CallbackInv, OnePlace
    <3>2. \A c \in Callers : (Unregistered(c)' <=> Unregistered(c))
      BY <1>1 DEF Unregistered
    <3> QED  BY <1>1, <2>1, <2>2, <3>1, <3>2
             DEF CallbackInv, OnePlace, CallbackOnce, Registers
  <2> QED  BY <2>5, <2>6, <2>7
<1>4. CASE tpc' = "enqueue_waiting"
           /\ waiting' = [type |-> "PUBREL", id |-> resp.id, ctx |-> resp.ctx]
  <2>1. ~InHand' /\ waiting'.type = "PUBREL"
    BY <1>4 DEF InHand
  <2>2. \A e : EntryOK(e)' <=> EntryOK(e)
    BY <1>1 DEF EntryOK
  <2>3. RequestsOK' /\ RegisteredOK' /\ CalledOK'
    BY <1>1, <2>2 DEF CallbackInv, RequestsOK, RegisteredOK, CalledOK, Registers
  <2>4. HandOK'
    BY <1>4, <2>1 DEF HandOK
  <2>5. OnePlace'
    <3>1. \A x : Unknown(x)' <=> Unknown(x)
      BY <1>1, UnknownFrame
    <3>2. \A c \in Callers : (Unregistered(c)' <=> Unregistered(c))
      BY <1>1 DEF Unregistered
    <3> QED  BY <1>1, <2>1, <3>1, <3>2 DEF CallbackInv, OnePlace, CallbackOnce, Registers
  <2> QED  BY <2>3, <2>4, <2>5
<1> QED  BY <1>2, <1>3, <1>4 DEF Reply

LEMMA OtherSessionStepsOnce ==
  ASSUME CallbackInv,
         TopOfLoop \/ SendSlot \/ FreeSlot \/ ServerReceive \/ OnPublish \/ Deliver \/ Crash
  PROVE  RequestsOK' /\ RegisteredOK' /\ HandOK' /\ CalledOK' /\ OnePlace'
<1>1. UNCHANGED <<ack_queue, called, calls, callerVars>> /\ waiting' = waiting
  BY DEF TopOfLoop, SendSlot, FreeSlot, ServerReceive, OnPublish, Deliver, Crash,
     clientVars, threadVars, historyVars
<1>2. ~InHand' \/ (tpc' = tpc /\ resp' = resp)
  <2>1. CASE TopOfLoop \/ SendSlot \/ FreeSlot \/ ServerReceive \/ Deliver
    BY <2>1 DEF TopOfLoop, SendSlot, FreeSlot, ServerReceive, Deliver, InHand
  <2>2. CASE OnPublish
    BY <2>2 DEF OnPublish, InHand
  <2>3. CASE Crash
    BY <2>3 DEF Crash, threadVars
  <2> QED  BY <2>1, <2>2, <2>3
<1>3. tpc' = "enqueue_waiting" => tpc = "enqueue_waiting"
  BY DEF TopOfLoop, SendSlot, FreeSlot, ServerReceive, OnPublish, Deliver, Crash, threadVars
<1> QED  BY <1>1, <1>2, <1>3, QuietThread

-----------------------------------------------------------------------------
LEMMA OnceStep == CallbackInv /\ [Next]_vars => CallbackInv'
<1> SUFFICES ASSUME CallbackInv, [Next]_vars  PROVE CallbackInv'
  OBVIOUS
<1> DEFINE P == RequestsOK /\ RegisteredOK /\ HandOK /\ CalledOK /\ OnePlace
<1>1. IndInv'
  BY StepInv DEF CallbackInv
<1>2. ASSUME NEW c \in Callers, CallerStep(c) \/ SignalDisconnect(c)  PROVE P'
  BY <1>2, MiddleStepsOnce, EnqueueWaitingOnce, DisconnectOnce DEF CallerStep
<1>3. ASSUME NEW c \in Callers, NEW k \in Kinds, Call(c, k)  PROVE P'
  BY <1>3, CallOnce
<1>4. ASSUME SessionStep  PROVE P'
  BY <1>4, OtherSessionStepsOnce, OnFinalAckOnce, OnSubackOnce, InvokeCallbackOnce,
     OnHandshakeOnce, ReplyOnce, RequeueWaitingOnce DEF SessionStep
<1>5. ASSUME BrokerStep \/ BrokerClose \/ \E q \in 0..2 : BrokerPublish(q)  PROVE P'
  <2>1. UNCHANGED <<clientVars, callerVars, threadVars, calls, called>>
    BY <1>5 DEF BrokerStep, BrokerReceive, BrokerAnswer, BrokerClose, BrokerPublish, historyVars
  <2> QED  BY <2>1, QuietThread DEF clientVars, threadVars
<1>6. ASSUME UNCHANGED vars  PROVE P'
  <2>1. UNCHANGED <<clientVars, callerVars, threadVars, historyVars>>
    BY <1>6 DEF vars
  <2> QED  BY <2>1, QuietThread DEF clientVars, threadVars, historyVars
<1>7. P'
  BY <1>2, <1>3, <1>4, <1>5, <1>6 DEF Next
<1> QED  BY <1>1, <1>7 DEF CallbackInv

LEMMA OnceInit == Init => CallbackInv
<1> SUFFICES ASSUME Init  PROVE CallbackInv
  OBVIOUS
<1>1. IndInv
  BY InitInv
<1>2. RegisteredOK /\ CalledOK
  BY DEF Init, RegisteredOK, CalledOK
<1>3. RequestsOK
  BY BoundAssumption DEF Init, RequestsOK, Kinds, CallerSteps
<1>4. ~InHand /\ \A c \in Callers : ~Unregistered(c)
  BY DEF Init, InHand, Unregistered
<1>5. HandOK
  BY <1>4 DEF Init, HandOK
<1>6. OnePlace
  BY <1>4 DEF Init, OnePlace, CallbackOnce
<1> QED  BY <1>1, <1>2, <1>3, <1>5, <1>6 DEF CallbackInv

\* The session thread never calls the callback of a ping, a publish or an
\* unsubscribe a second time: for any number of application threads, whatever
\* identifiers they race for, whatever the broker sends and however often the
\* old buffer is read again at end of file.
THEOREM AtMostOneCallback == Spec => []CallbackOnce
<1>1. CallbackInv => CallbackOnce
  BY DEF CallbackInv, OnePlace
<1> QED  BY <1>1, OnceInit, OnceStep, PTL DEF Spec
=============================================================================
