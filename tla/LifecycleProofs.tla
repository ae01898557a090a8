--------------------------- MODULE LifecycleProofs ---------------------------
(***************************************************************************)
(* What holds of a client from its first smqtt_mt_connect to its end:      *)
(* OpenMeansAccepted, and the invariants of Session, of which the steps of *)
(* a connecting thread disturb nothing but link.                           *)
(***************************************************************************)
EXTENDS Lifecycle, CallbackProofs

-----------------------------------------------------------------------------
(* The invariants of Session.                                              *)

\* The steps of smqtt_mt_connect_internal leave the session alone: of its
\* variables only link changes.
LEMMA ConnectFrame ==
  ASSUME FifoInv, link' \in {"up", "closed", "null"},
         UNCHANGED <<clientVars, callerVars, threadVars, toServer, toClient, owed,
                     inflight, eofReads, historyVars>>
  PROVE  FifoInv'
<1>1. TypeOK'
  <2>1. ClientTypeOK' /\ CallerTypeOK' /\ ThreadTypeOK' /\ HistoryTypeOK'
    BY FrameTypes DEF FifoInv, IndInv, TypeOK
  <2>2. NetTypeOK'
    BY DEF FifoInv, IndInv, TypeOK, NetTypeOK
  <2> QED  BY <2>1, <2>2 DEF TypeOK
<1>2. (\A c \in Callers : CallerOK(c)') /\ ThreadOK' /\ QueuedOK' /\ SlotOwnership'
  BY FrameCallers, FrameThread, FrameQueued, FrameSlots
  DEF FifoInv, IndInv, clientVars, callerVars, threadVars
<1>3. OwnContents' /\ SendFifo'
  BY OtherStepsFifo DEF clientVars, threadVars, historyVars
<1> QED  BY <1>1, <1>2, <1>3 DEF FifoInv, IndInv

LEMMA LifeFifoStep == FifoInv /\ [LifeNext]_allVars => FifoInv'
<1> SUFFICES ASSUME FifoInv, [LifeNext]_allVars  PROVE FifoInv'
  OBVIOUS
<1>1. link \in {"up", "closed", "null"}
  BY DEF FifoInv, IndInv, TypeOK, NetTypeOK
<1>2. CASE Connect
  BY <1>1, <1>2, ConnectFrame DEF Connect
<1>3. CASE SendConnect
  BY <1>1, <1>3, ConnectFrame DEF SendConnect
<1>4. CASE ReceiveConnack
  BY <1>1, <1>4, ConnectFrame DEF ReceiveConnack
<1>5. CASE JudgeConnack
  BY <1>1, <1>5, ConnectFrame DEF JudgeConnack
<1>6. CASE AnswerConnect
  BY <1>6, FifoStep DEF AnswerConnect
<1>7. CASE CloseWhileConnecting
  BY <1>7, FifoStep DEF CloseWhileConnecting, Next
<1>8. CASE Open(Next)
  BY <1>8, FifoStep DEF Open
<1>9. CASE UNCHANGED allVars
  BY <1>9, FifoStep DEF allVars
<1> QED  BY <1>2, <1>3, <1>4, <1>5, <1>6, <1>7, <1>8, <1>9 DEF LifeNext, ConnectStep

LEMMA LifeFifo == LifeSpec => []FifoInv
<1>1. LifeInit => FifoInv
  BY FifoInit DEF LifeInit
<1> QED  BY <1>1, LifeFifoStep, PTL DEF LifeSpec

\* However many attempts to connect fail, and however the session that follows
\* ends, every buffer slot of the client has exactly one owner.
THEOREM LifeSlotSafety == LifeSpec => []SlotOwnership
<1>1. FifoInv => SlotOwnership
  BY DEF FifoInv, IndInv
<1> QED  BY <1>1, LifeFifo, PTL

\* The same for the order and the contents of the requests server_send gets.
THEOREM LifeSendOrder == LifeSpec => []SendFifo
<1>1. FifoInv => SendFifo
  BY DEF FifoInv
<1> QED  BY <1>1, LifeFifo, PTL

\* The same for CallbackInv: its parts beyond IndInv do not speak of link.
LEMMA LifeOnceStep == FifoInv /\ CallbackInv /\ [LifeNext]_allVars => CallbackInv'
<1> SUFFICES ASSUME FifoInv, CallbackInv, [LifeNext]_allVars  PROVE CallbackInv'
  OBVIOUS
<1>1. IndInv'
  BY LifeFifoStep DEF FifoInv
<1>2. ASSUME UNCHANGED <<clientVars, callerVars, threadVars, historyVars>>
      PROVE  CallbackInv'
  BY <1>1, <1>2, QuietThread DEF CallbackInv, clientVars, threadVars, historyVars
<1>3. CASE Connect \/ ConnectStep
  BY <1>2, <1>3 DEF Connect, ConnectStep, SendConnect, ReceiveConnack, JudgeConnack
<1>4. CASE AnswerConnect \/ CloseWhileConnecting \/ UNCHANGED allVars
  <2>1. UNCHANGED <<clientVars, callerVars, threadVars, historyVars>>
    BY <1>4 DEF AnswerConnect, CloseWhileConnecting, BrokerClose, allVars, vars
  <2> QED  BY <1>2, <2>1
<1>5. CASE Open(Next)
  BY <1>5, OnceStep DEF Open
<1> QED  BY <1>3, <1>4, <1>5 DEF LifeNext

\* In the life of a client that subscribes, unsubscribes, publishes, is closed
\* by its peer and disconnects, no ping, publish or unsubscribe is called back
\* twice.
THEOREM LifeCallbackOnce == LifeSpec => []CallbackOnce
<1>1. LifeInit => CallbackInv
  BY OnceInit DEF LifeInit
<1>2. CallbackInv => CallbackOnce
  BY DEF CallbackInv, OnePlace
<1> QED  BY <1>1, <1>2, LifeFifo, LifeOnceStep, PTL DEF LifeSpec

-----------------------------------------------------------------------------
(* What a connect that succeeds has been told.                             *)

\* No step of a running session brings a lost connection back.
LEMMA LinkStaysDown ==
  ASSUME Next, link # "up"
  PROVE  link' # "up"
<1>1. ASSUME NEW c \in Callers, CallerStep(c) \/ SignalDisconnect(c)  PROVE link' # "up"
  BY <1>1 DEF CallerStep, GetBufferSlot, MakeMessage, FillWaiting, EnqueueWaiting,
     LoadPacketId, StorePacketId, EnqueueSlotForSend, JoinSessionThread, SendDisconnect,
     SignalDisconnect, SendOk, netVars
<1>2. ASSUME NEW c \in Callers, NEW k \in Kinds, Call(c, k)  PROVE link' # "up"
  BY <1>2 DEF Call, netVars
<1>3. CASE SessionStep
  <2>1. CASE TopOfLoop \/ SendSlot \/ FreeSlot \/ ServerReceive
    BY <2>1 DEF TopOfLoop, SendSlot, FreeSlot, ServerReceive, SendOk, SendFails, netVars
  <2>2. CASE \E t \in {"PINGRESP", "PUBACK", "PUBCOMP", "UNSUBACK"} : OnFinalAck(t)
    BY <2>2 DEF OnFinalAck, netVars
  <2>3. CASE \E t \in {"PUBREC", "PUBREL"} : OnHandshake(t)
    BY <2>3 DEF OnHandshake, netVars
  <2>4. CASE OnSuback \/ InvokeCallback \/ OnPublish \/ RequeueWaiting \/ Deliver \/ Crash
    BY <2>4 DEF OnSuback, InvokeCallback, OnPublish, RequeueWaiting, Deliver, Crash, netVars
  <2>5. CASE Reply
    BY <2>5 DEF Reply, SendOk, SendFails
  <2> QED  BY <1>3, <2>1, <2>2, <2>3, <2>4, <2>5 DEF SessionStep
<1>4. CASE BrokerStep \/ BrokerClose \/ \E q \in 0..2 : BrokerPublish(q)
  BY <1>4 DEF BrokerStep, BrokerReceive, BrokerAnswer, BrokerClose, BrokerPublish
<1> QED  BY <1>1, <1>2, <1>3, <1>4 DEF Next

LEMMA ConnectStepInv == ConnectInv /\ [LifeNext]_allVars => ConnectInv'
<1> SUFFICES ASSUME ConnectInv, [LifeNext]_allVars  PROVE ConnectInv'
  OBVIOUS
<1> USE DEF ConnectInv, OpenMeansAccepted
<1>1. CASE Connect
  BY <1>1 DEF Connect, Fail
<1>2. CASE SendConnect
  BY <1>2 DEF SendConnect, Fail
<1>3. CASE ReceiveConnack
  <2>1. stage' # "open" /\ stage' # "send" /\ stage' # "receive" /\ verdict' = verdict
    BY <1>3 DEF ReceiveConnack, Fail
  <2>2. atEof' \in BOOLEAN
    BY <1>3 DEF ReceiveConnack
  <2>3. CASE hello = "CONNACK"
    BY <1>3, <2>1, <2>2, <2>3 DEF ReceiveConnack
  <2>4. CASE hello # "CONNACK"
    <3>1. verdict = None
      BY <1>3, <2>4 DEF ReceiveConnack
    <3> QED  BY <1>3, <2>1, <2>2, <2>4, <3>1 DEF ReceiveConnack, Fail
  <2> QED  BY <2>3, <2>4
<1>4. CASE JudgeConnack
  <2>1. stage' \in {"start", "open"} /\ atEof' = atEof /\ verdict' = verdict
    BY <1>4 DEF JudgeConnack, Fail
  <2>2. stage' = "open" => static_buffer = 0 /\ link' = link
    BY <1>4 DEF JudgeConnack, Fail, Accepts
  <2> QED  BY <1>4, <2>1, <2>2 DEF JudgeConnack
<1>5. CASE AnswerConnect
  BY <1>5 DEF AnswerConnect, vars, netVars
<1>6. CASE CloseWhileConnecting
  BY <1>6 DEF CloseWhileConnecting, BrokerClose, connectVars
<1>7. CASE Open(Next)
  BY <1>7, LinkStaysDown DEF Open, connectVars
<1>8. CASE UNCHANGED allVars
  BY <1>8 DEF allVars, vars, netVars, connectVars
<1> QED  BY <1>1, <1>2, <1>3, <1>4, <1>5, <1>6, <1>7, <1>8 DEF LifeNext, ConnectStep

\* smqtt_mt_connect only hands out a client whose own CONNECT the broker has
\* accepted, although the CONNACK is read from a static buffer that earlier
\* attempts have used; the one exception is a peer that closed before it
\* answered, and then the connection is known to be down, and stays down.
THEOREM OnlyAcceptedOpen == LifeSpec => []OpenMeansAccepted
<1>1. LifeInit => ConnectInv
  BY DEF LifeInit, ConnectInv, OpenMeansAccepted
<1>2. ConnectInv => OpenMeansAccepted
  BY DEF ConnectInv
<1> QED  BY <1>1, <1>2, ConnectStepInv, PTL DEF LifeSpec
=============================================================================
