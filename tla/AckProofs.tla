------------------------------ MODULE AckProofs ------------------------------
(***************************************************************************)
(* AckMatches and CallbackAfterAnswer are invariants of Session for an     *)
(* application that keeps to what the code can bear (Orderly).             *)
(*                                                                         *)
(* Each request that is called back travels: from the call that registered *)
(* it through send_queue to the broker, back as an acknowledgement and,    *)
(* for QoS 2, once more round.  It is in one place at a time, and where it *)
(* is, ack_queue holds the entry for the acknowledgement that comes next.  *)
(* Identifiers tell publishes apart; pings, which have none, stay in line. *)
(***************************************************************************)
EXTENDS DeliveryProofs, WellFoundedInduction

\* What the code needs to match acknowledgements: one thread (the counters
\* are bumped without a lock), identifiers that fit the one byte that goes
\* over the wire, at most one subscribe, made while the two counters agree and
\* with no unsubscribe before it (the entry of a subscribe has the identifier
\* of a publish, the entry of an unsubscribe hides all later ones), and a
\* broker that does not close the connection (at end of file the old message
\* is read again).  Failing sends are allowed.
Orderly ==
  /\ \A c, d \in Callers : c = d
  /\ FirstId + MaxCalls["pub1"] + MaxCalls["pub2"] <= 256 /\ FirstId <= 255
  /\ \/ MaxCalls["sub"] = 0
     \/ SubscribeFirst /\ MaxCalls["sub"] = 1 /\ MaxCalls["unsub"] = 0
  /\ "close" \notin Faults

-----------------------------------------------------------------------------
(* The inductive invariant, while the connection is up.                    *)

Asking(m) == m.ctx.kind \in Awaited

\* The acknowledgement that comes next, and the entry that waits for it.
AckFor(m) ==
  CASE m.type = "PINGREQ"   -> "PINGRESP"
    [] m.type = "SUBSCRIBE" -> "SUBACK"
    [] m.type = "PUBLISH" /\ m.qos = 1 -> "PUBACK"
    [] m.type = "PUBLISH" /\ m.qos # 1 -> "PUBREC"
    [] m.type = "PUBREL"    -> "PUBCOMP"
    [] OTHER -> m.type
Expected(m) == [type |-> AckFor(m), id |-> m.id, ctx |-> m.ctx]

\* Two requests are two, and a ping is after an earlier ping.
Ahead(x, y) == x # y /\ (x.kind = "ping" /\ y.kind = "ping" => x.n < y.n)

\* The entries the messages of a sequence ask for, and that these are in order.
Asked(s) == {Expected(s[i]) : i \in {j \in DOMAIN s : Asking(s[j])}}
Sorted(s) ==
  \A i, j \in DOMAIN s :
    i < j /\ Asking(s[i]) /\ Asking(s[j]) => Ahead(s[i].ctx, s[j].ctx)

\* The acknowledgement in the hand of the session thread, the message it sends,
\* the queued ones, and those of calls that are registered and not queued.
HandMsg ==
  IF tpc = "dispatch" \/ (tpc = "reply" /\ resp.type = "PUBREC") THEN <<resp>> ELSE <<>>
SendMsg == IF tpc = "send" THEN <<buffer_slots[position]>> ELSE <<>>
QueuedMsgs == [i \in DOMAIN send_queue |-> buffer_slots[send_queue[i]]]
Registered(c) ==
  /\ op[c].kind \in Awaited
  /\ pc[c] = "send" \/ (op[c].kind # "sub" /\ pc[c] \in {"load", "store"})
CallMsgs == {Expected(buffer_slots[slot[c]]) : c \in {d \in Callers : Registered(d)}}

\* From the acknowledgement being handled back to the call being made.
Way ==
  << Asked(HandMsg), Asked(toClient), Asked(owed), Asked(toServer),
     Asked(SendMsg), Asked(QueuedMsgs), CallMsgs >>

InOrder(way) ==
  \A a, b \in 1..7 : a < b => \A x \in way[a], y \in way[b] : Ahead(x.ctx, y.ctx)

\* The entries of ack_queue and the one the session thread holds meanwhile.
Held ==
  ToSet(ack_queue) \cup
  {e \in {waiting} : tpc = "enqueue_waiting" \/ (tpc = "reply" /\ resp.type = "PUBREC")}

WayOK ==
  /\ InOrder(Way)
  /\ Sorted(toClient) /\ Sorted(owed) /\ Sorted(toServer) /\ Sorted(QueuedMsgs)
  /\ \A a \in 1..7 : \A x \in Way[a] : x.type \in AckTypes /\ x \in Held
  /\ tpc = "reply" /\ resp.type = "PUBREC" => waiting = Expected(resp)

\* Which packets are about requests that are called back.
ToBroker(m) ==
  Asking(m) <=> \/ m.type \in {"PINGREQ", "SUBSCRIBE", "PUBREL"}
                \/ m.type = "PUBLISH" /\ m.qos # 0
FromBroker(m) == Asking(m) <=> m.type \in AckTypes

KindsOK ==
  /\ \A i \in DOMAIN toServer : ToBroker(toServer[i])
  /\ \A s \in Slots : buffer_slots[s] # NoMsg => ToBroker(buffer_slots[s])
  /\ \A i \in DOMAIN owed : FromBroker(owed[i])
  /\ \A i \in DOMAIN toClient : FromBroker(toClient[i])
  /\ tpc \in {"dispatch", "reply"} => FromBroker(resp)

Numbered == {"pub1", "pub2"}

\* Between the call and the end of publish_packet_id++.
Counting(c) == op[c].kind \in Numbered /\ pc[c] \in CallerSteps \ {"send"}
Subscribes(c) == op[c].kind = "sub" /\ pc[c] \in CallerSteps \ {"send"}
Waits(c) ==
  /\ op[c].kind \in Awaited
  /\ pc[c] \in {"fill", "wait"} \/ (op[c].kind = "sub" /\ pc[c] \in {"load", "store"})

\* The counters count calls, and a call uses one value from end to end.
CountsOK(c) ==
  /\ pc[c] \in CallerSteps => op[c].n = calls[op[c].kind]
  /\ publish_packet_id + (IF Counting(c) THEN 1 ELSE 0) = FirstId + calls["pub1"] + calls["pub2"]
  /\ pc[c] = "store" /\ Counting(c) => loaded[c] = publish_packet_id
  /\ Subscribes(c) => calls["pub1"] = 0 /\ calls["pub2"] = 0
  /\ /\ MaxCalls["sub"] # 0
     /\ calls["sub"] = 0 \/ (op[c].kind = "sub" /\ pc[c] \in {"get_slot", "make"})
     => subscribe_packet_id = FirstId
  /\ Waits(c) => Expected(buffer_slots[slot[c]]) = WaitingFor(op[c])
  /\ Waits(c) /\ pc[c] = "wait" => entry[c] = WaitingFor(op[c])

CountersOK ==
  (\A k \in Kinds : calls[k] <= MaxCalls[k]) /\ (\A c \in Callers : CountsOK(c))

IdsOK ==
  \A e \in Held : e.ctx.kind \in Awaited =>
    /\ e.type \in AckTypes /\ e.id \in 0..255
    /\ e.ctx.kind = "ping" => e.id = 0
    /\ e.ctx.kind = "sub" => e.id = FirstId /\ \A c \in Callers : ~Subscribes(c)
    /\ e.ctx.kind \in Numbered =>
         /\ \/ e.id < publish_packet_id
            \/ e.id = publish_packet_id /\ \E c \in Callers : Counting(c) /\ Registered(c)
         /\ \A f \in Held : f.ctx.kind \in Numbered /\ f.id = e.id => f.ctx = e.ctx

\* Pings are registered in their order, and the registered ones are on the way.
PingsOK ==
  /\ Rising(ack_queue, "PINGRESP", "ping")
  /\ \A i \in DOMAIN ack_queue :
       ack_queue[i].type = "PINGRESP" => \E a \in 1..7 : ack_queue[i] \in Way[a]

\* A final acknowledgement that is under way was counted as an answer.
AnsweredOK ==
  /\ \A i \in DOMAIN toClient :
       Asking(toClient[i]) /\ toClient[i].type # "PUBREC" => toClient[i].ctx \in answered
  /\ tpc = "dispatch" /\ Asking(resp) /\ resp.type # "PUBREC" => resp.ctx \in answered
  /\ tpc = "callback" => waiting.ctx \in answered

RoundOK == WayOK /\ KindsOK /\ CountersOK /\ IdsOK /\ PingsOK /\ AnsweredOK

RoundTripInv == CallbackAfterAnswer /\ (link = "up" => RoundOK)

-----------------------------------------------------------------------------
(* What sequences of messages ask for.                                     *)

LEMMA AskedMember ==
  \A s, e : e \in Asked(s) <=> \E i \in DOMAIN s : Asking(s[i]) /\ e = Expected(s[i])
  BY DEF Asked

LEMMA AskedFew ==
  /\ \A e : e \notin Asked(<<>>)
  /\ \A m, e : e \in Asked(<<m>>) <=> Asking(m) /\ e = Expected(m)
<1>1. \A e : e \notin Asked(<<>>)
  BY AskedMember
<1>2. ASSUME NEW m, NEW e  PROVE e \in Asked(<<m>>) <=> Asking(m) /\ e = Expected(m)
  <2>1. DOMAIN <<m>> = {1} /\ <<m>>[1] = m
    OBVIOUS
  <2> QED  BY <2>1, AskedMember
<1> QED  BY <1>1, <1>2

LEMMA ExpectedContext == \A m : Expected(m).ctx = m.ctx
  BY DEF Expected

LEMMA AskedTail ==
  ASSUME NEW S, NEW s \in Seq(S), s # <<>>
  PROVE  /\ \A e : e \in Asked(s) <=>
              e \in Asked(Tail(s)) \/ (Asking(Head(s)) /\ e = Expected(Head(s)))
         /\ Sorted(s) => /\ Sorted(Tail(s))
                         /\ Asking(Head(s)) => \A y \in Asked(Tail(s)) : Ahead(Head(s).ctx, y.ctx)
<1>1. /\ Head(s) = s[1] /\ 1 \in DOMAIN s /\ DOMAIN s \subseteq Nat /\ DOMAIN Tail(s) \subseteq Nat
      /\ \A i \in DOMAIN Tail(s) : Tail(s)[i] = s[i + 1] /\ i + 1 \in DOMAIN s /\ 1 < i + 1
      /\ \A i \in DOMAIN s : i # 1 => i - 1 \in DOMAIN Tail(s) /\ s[i] = Tail(s)[i - 1]
  OBVIOUS
<1>2. ASSUME NEW e
      PROVE  e \in Asked(s) <=> e \in Asked(Tail(s)) \/ (Asking(Head(s)) /\ e = Expected(Head(s)))
  <2>1. ASSUME e \in Asked(s)
        PROVE  e \in Asked(Tail(s)) \/ (Asking(Head(s)) /\ e = Expected(Head(s)))
    <3>1. PICK i \in DOMAIN s : Asking(s[i]) /\ e = Expected(s[i])
      BY <2>1, AskedMember
    <3> QED  BY <1>1, <3>1, AskedMember
  <2>2. ASSUME e \in Asked(Tail(s))  PROVE e \in Asked(s)
    <3>1. PICK i \in DOMAIN Tail(s) : Asking(Tail(s)[i]) /\ e = Expected(Tail(s)[i])
      BY <2>2, AskedMember
    <3> QED  BY <1>1, <3>1, AskedMember
  <2>3. Asking(Head(s)) => Expected(Head(s)) \in Asked(s)
    BY <1>1, AskedMember
  <2> QED  BY <2>1, <2>2, <2>3
<1>3. ASSUME Sorted(s)  PROVE Sorted(Tail(s))
  <2>1. \A i, j \in DOMAIN Tail(s) : i < j => i + 1 < j + 1
    BY <1>1
  <2> QED  BY <1>1, <1>3, <2>1 DEF Sorted
<1>4. ASSUME Sorted(s), Asking(Head(s)), NEW y \in Asked(Tail(s))  PROVE Ahead(Head(s).ctx, y.ctx)
  <2>1. PICK i \in DOMAIN Tail(s) : Asking(Tail(s)[i]) /\ y = Expected(Tail(s)[i])
    BY AskedMember
  <2> QED  BY <1>1, <1>4, <2>1, ExpectedContext DEF Sorted
<1> QED  BY <1>2, <1>3, <1>4

LEMMA AskedAppend ==
  ASSUME NEW S, NEW s \in Seq(S), NEW m \in S
  PROVE  /\ \A e : e \in Asked(Append(s, m)) <=>
              e \in Asked(s) \/ (Asking(m) /\ e = Expected(m))
         /\ Sorted(s) /\ (Asking(m) => \A x \in Asked(s) : Ahead(x.ctx, m.ctx))
            => Sorted(Append(s, m))
<1> DEFINE r == Append(s, m)
           z == Len(s) + 1
<1>1. /\ DOMAIN r = DOMAIN s \cup {z} /\ r[z] = m /\ z \notin DOMAIN s /\ ~(z < z)
      /\ \A i \in DOMAIN s : r[i] = s[i] /\ ~(z < i)
  OBVIOUS
<1> HIDE DEF r, z
<1>2. \A e : e \in Asked(r) <=> e \in Asked(s) \/ (Asking(m) /\ e = Expected(m))
  BY <1>1, AskedMember
<1>3. ASSUME Sorted(s), Asking(m) => \A x \in Asked(s) : Ahead(x.ctx, m.ctx)
      PROVE  Sorted(r)
  <2>1. ASSUME NEW i \in DOMAIN s, Asking(s[i]), Asking(m)  PROVE Ahead(s[i].ctx, m.ctx)
    <3>1. Expected(s[i]) \in Asked(s)
      BY <2>1, AskedMember
    <3> QED  BY <1>3, <2>1, <3>1, ExpectedContext
  <2> QED  BY <1>1, <1>3, <2>1 DEF Sorted
<1> QED  BY <1>2, <1>3 DEF r

\* The answer that is taken out may be any one, but no ping overtakes a ping.
LEMMA AskedRemove ==
  ASSUME NEW S, NEW s \in Seq(S), NEW p \in DOMAIN s
  PROVE  /\ \A e : e \in Asked(s) <=>
              e \in Asked(RemoveAt(s, p)) \/ (Asking(s[p]) /\ e = Expected(s[p]))
         /\ Sorted(s) => Sorted(RemoveAt(s, p))
         /\ /\ Sorted(s) /\ Asking(s[p])
            /\ s[p].ctx.kind = "ping" => \A j \in 1..(p - 1) : s[j].ctx.kind # "ping"
            => \A y \in Asked(RemoveAt(s, p)) : Ahead(s[p].ctx, y.ctx)
<1> DEFINE r == RemoveAt(s, p)
           f(j) == IF j < p THEN j ELSE j + 1
<1>1. /\ DOMAIN s = 1..Len(s) /\ Len(s) \in Nat /\ p \in 1..Len(s) /\ DOMAIN r = 1..(Len(s) - 1)
      /\ \A j \in DOMAIN r : r[j] = s[f(j)]
  BY RemoveAtFacts
<1>2. \A j \in DOMAIN r : f(j) \in DOMAIN s \ {p} /\ (f(j) < p \/ p < f(j))
  BY <1>1
<1>3. \A i, j \in DOMAIN r : i < j => f(i) < f(j)
  BY <1>1
<1>4. \A i \in DOMAIN s \ {p} : \E j \in DOMAIN r : i = f(j)
  <2> SUFFICES ASSUME NEW i \in DOMAIN s \ {p}  PROVE \E j \in DOMAIN r : i = f(j)
    OBVIOUS
  <2>1. CASE i < p
    BY <1>1, <2>1
  <2>2. CASE i > p
    <3>1. i - 1 \in DOMAIN r /\ i = f(i - 1)
      BY <1>1, <2>2
    <3> QED  BY <3>1
  <2> QED  BY <1>1, <2>1, <2>2
<1>5. \A i \in DOMAIN s : i < p => i \in 1..(p - 1)
  BY <1>1
<1> HIDE DEF r, f
<1>6. ASSUME NEW e
      PROVE  e \in Asked(s) <=> e \in Asked(r) \/ (Asking(s[p]) /\ e = Expected(s[p]))
  <2>1. ASSUME e \in Asked(s)  PROVE e \in Asked(r) \/ (Asking(s[p]) /\ e = Expected(s[p]))
    <3>1. PICK i \in DOMAIN s : Asking(s[i]) /\ e = Expected(s[i])
      BY <2>1, AskedMember
    <3>2. CASE i # p
      <4>1. PICK j \in DOMAIN r : i = f(j)
        BY <1>4, <3>2
      <4> QED  BY <1>1, <3>1, <4>1, AskedMember
    <3> QED  BY <3>1, <3>2
  <2>2. ASSUME e \in Asked(r)  PROVE e \in Asked(s)
    <3>1. PICK j \in DOMAIN r : Asking(r[j]) /\ e = Expected(r[j])
      BY <2>2, AskedMember
    <3> QED  BY <1>1, <1>2, <3>1, AskedMember
  <2>3. Asking(s[p]) => Expected(s[p]) \in Asked(s)
    BY AskedMember
  <2> QED  BY <2>1, <2>2, <2>3
<1>7. ASSUME Sorted(s)  PROVE Sorted(r)
  BY <1>1, <1>2, <1>3, <1>7 DEF Sorted
<1>8. ASSUME Sorted(s), Asking(s[p]), NEW y \in Asked(r),
             s[p].ctx.kind = "ping" => \A j \in 1..(p - 1) : s[j].ctx.kind # "ping"
      PROVE  Ahead(s[p].ctx, y.ctx)
  <2>1. PICK j \in DOMAIN r : Asking(r[j]) /\ y = Expected(r[j])
    BY AskedMember
  <2>2. r[j] = s[f(j)] /\ f(j) \in DOMAIN s /\ y.ctx = s[f(j)].ctx /\ Asking(s[f(j)])
    BY <1>1, <1>2, <2>1, ExpectedContext
  <2>3. CASE p < f(j)
    BY <1>8, <2>2, <2>3 DEF Sorted
  <2>4. CASE f(j) < p
    <3>1. Ahead(s[f(j)].ctx, s[p].ctx)
      BY <1>8, <2>2, <2>4 DEF Sorted
    <3>2. s[p].ctx.kind = "ping" => s[f(j)].ctx.kind # "ping"
      BY <1>5, <1>8, <2>2, <2>4
    <3> QED  BY <2>2, <3>1, <3>2 DEF Ahead
  <2> QED  BY <1>2, <2>1, <2>3, <2>4
<1> QED  BY <1>6, <1>7, <1>8 DEF r

-----------------------------------------------------------------------------
(* The way as a whole.                                                     *)

\* One request appears at a place where it is in order.
LEMMA Travel ==
  ASSUME NEW way, NEW way2, InOrder(way), NEW a \in 1..7, NEW e,
         \A b \in 1..7 : \A x \in way2[b] : x \in way[b] \/ (b = a /\ x = e),
         \A b \in 1..7 : \A x \in way2[b] :
           (b < a => Ahead(x.ctx, e.ctx)) /\ (a < b => Ahead(e.ctx, x.ctx))
  PROVE  InOrder(way2)
<1> SUFFICES ASSUME NEW b \in 1..7, NEW d \in 1..7, b < d, NEW x \in way2[b], NEW y \in way2[d]
             PROVE  Ahead(x.ctx, y.ctx)
  BY DEF InOrder
<1>1. CASE b = a /\ x = e
  BY <1>1
<1>2. CASE d = a /\ y = e
  BY <1>2
<1>3. CASE x \in way[b] /\ y \in way[d]
  BY <1>3 DEF InOrder
<1> QED  BY <1>1, <1>2, <1>3

LEMMA Shrinks ==
  ASSUME NEW way, NEW way2, InOrder(way), \A b \in 1..7 : \A x \in way2[b] : x \in way[b]
  PROVE  InOrder(way2)
  BY DEF InOrder

LEMMA Places ==
  /\ Way[1] = Asked(HandMsg) /\ Way[2] = Asked(toClient) /\ Way[3] = Asked(owed)
  /\ Way[4] = Asked(toServer) /\ Way[5] = Asked(SendMsg) /\ Way[6] = Asked(QueuedMsgs)
  /\ Way[7] = CallMsgs
  BY DEF Way

LEMMA PlacesNext ==
  /\ Way'[1] = Asked(HandMsg') /\ Way'[2] = Asked(toClient') /\ Way'[3] = Asked(owed')
  /\ Way'[4] = Asked(toServer') /\ Way'[5] = Asked(SendMsg') /\ Way'[6] = Asked(QueuedMsgs')
  /\ Way'[7] = CallMsgs'
  BY DEF Way, Asked

\* An entry that waits for an acknowledgement is that of a registered call.
LEMMA HeldEntry ==
  ASSUME CallbackInv, NEW e \in Held, e.type \in AckTypes
  PROVE  e \in Entries /\ EntryOK(e)
<1>1. CASE e \in ToSet(ack_queue)
  <2>1. PICK i \in DOMAIN ack_queue : e = ack_queue[i]
    BY <1>1, ToSetType DEF ToSet
  <2>2. ack_queue \in Seq(Entries)
    BY DEF CallbackInv, IndInv, TypeOK, ClientTypeOK
  <2> QED  BY <2>1, <2>2 DEF CallbackInv, RegisteredOK, Registers, AckTypes
<1>2. CASE e = waiting /\ (tpc = "enqueue_waiting" \/ (tpc = "reply" /\ resp.type = "PUBREC"))
  <2>1. InHand
    BY <1>2 DEF InHand, AckTypes
  <2> QED  BY <1>2, <2>1 DEF CallbackInv, HandOK, IndInv, ThreadOK
<1> QED  BY <1>1, <1>2 DEF Held

\* A request on the way, and the entry that waits for it.
LEMMA OnWay ==
  ASSUME CallbackInv, WayOK, NEW a \in 1..7, NEW x \in Way[a]
  PROVE  x \in Held /\ x \in Entries /\ EntryOK(x) /\ x.type \in AckTypes
<1>1. x.type \in AckTypes /\ x \in Held
  BY DEF WayOK
<1> QED  BY <1>1, HeldEntry

\* A request moves on from place a + 1 to place a.
LEMMA MovesOn ==
  ASSUME WayOK, NEW a \in 1..6, NEW ask \in BOOLEAN, NEW e,
         \A b \in 1..7 : b \notin {a, a + 1} => Way'[b] = Way[b],
         \A x : x \in Way'[a] <=> x \in Way[a] \/ (ask /\ x = e),
         \A x : x \in Way[a + 1] <=> x \in Way'[a + 1] \/ (ask /\ x = e),
         ask => \A y \in Way'[a + 1] : Ahead(e.ctx, y.ctx),
         \A x \in Held : x \in Held'
  PROVE  /\ InOrder(Way')
         /\ \A b \in 1..7 : \A x \in Way'[b] : x.type \in AckTypes /\ x \in Held'
         /\ \A b \in 1..7 : \A x \in Way[b] : \E d \in 1..7 : x \in Way'[d]
<1>1. \A b \in 1..7 : b = a \/ b = a + 1 \/ b \notin {a, a + 1}
  OBVIOUS
<1>2. a \in 1..7 /\ a + 1 \in 1..7 /\ a < a + 1 /\ a # a + 1
  OBVIOUS
<1>3. \A b \in 1..7 : \A x \in Way'[b] : x \in Way[b] \/ (b = a /\ ask /\ x = e)
  BY <1>1
<1>4. ask => e \in Way[a + 1]
  OBVIOUS
<1>5. InOrder(Way)
  BY DEF WayOK
<1>6. InOrder(Way')
  <2>1. CASE ~ask
    <3>1. \A b \in 1..7 : \A x \in Way'[b] : x \in Way[b]
      BY <1>3, <2>1
    <3> QED  BY <1>5, <3>1, Shrinks
  <2>2. CASE ask
    <3>1. ASSUME NEW b \in 1..7, NEW x \in Way'[b], b < a  PROVE Ahead(x.ctx, e.ctx)
      <4>1. x \in Way[b] /\ b < a + 1
        BY <1>3, <3>1
      <4> QED  BY <1>2, <1>4, <1>5, <2>2, <4>1 DEF InOrder
    <3>2. ASSUME NEW b \in 1..7, NEW x \in Way'[b], a < b  PROVE Ahead(e.ctx, x.ctx)
      <4>1. CASE b = a + 1
        BY <2>2, <4>1
      <4>2. CASE b # a + 1
        <5>1. x \in Way[b] /\ a + 1 < b
          BY <1>3, <3>2, <4>2
        <5> QED  BY <1>2, <1>4, <1>5, <2>2, <5>1 DEF InOrder
      <4> QED  BY <4>1, <4>2
    <3>3. \A b \in 1..7 : \A x \in Way'[b] : x \in Way[b] \/ (b = a /\ x = e)
      BY <1>3
    <3>4. \A b \in 1..7 : \A x \in Way'[b] :
            (b < a => Ahead(x.ctx, e.ctx)) /\ (a < b => Ahead(e.ctx, x.ctx))
      BY <3>1, <3>2
    <3> HIDE DEF Way, InOrder
    <3> QED  BY <1>2, <1>5, <3>3, <3>4, Travel
  <2> QED  BY <2>1, <2>2
<1>7. \A b \in 1..7 : \A x \in Way'[b] : \E d \in 1..7 : x \in Way[d]
  BY <1>2, <1>3, <1>4
<1>8. \A b \in 1..7 : \A x \in Way[b] : \E d \in 1..7 : x \in Way'[d]
  BY <1>1, <1>2
<1>9. \A b \in 1..7 : \A x \in Way[b] : x.type \in AckTypes /\ x \in Held
  BY DEF WayOK
<1> QED  BY <1>6, <1>7, <1>8, <1>9

-----------------------------------------------------------------------------
(* What the steps of the session thread and of the broker leave alone.     *)

SameCalls ==
  /\ UNCHANGED <<op, publish_packet_id, subscribe_packet_id, loaded, buffer_slots, slot, entry>>
  /\ \A k \in Kinds : calls'[k] = calls[k]
  /\ \A c \in Callers :
       /\ calls'[op[c].kind] = calls[op[c].kind]
       /\ pc'[c] = pc[c] \/ (pc[c] \notin CallerSteps /\ pc'[c] \notin CallerSteps)

LEMMA CountersStay ==
  ASSUME CountersOK, SameCalls
  PROVE  CountersOK'
<1>1. \A c \in Callers : /\ (Counting(c)' <=> Counting(c)) /\ (Waits(c)' <=> Waits(c))
                         /\ Subscribes(c)' <=> Subscribes(c)
  BY DEF SameCalls, Counting, Waits, Subscribes, CallerSteps
<1>2. \A c \in Callers : WaitingFor(op[c])' = WaitingFor(op[c])
  BY DEF SameCalls, WaitingFor
<1>3. \A c \in Callers : Expected(buffer_slots[slot[c]])' = Expected(buffer_slots[slot[c]])
  BY DEF SameCalls, Expected, AckFor
<1>4. \A k \in Kinds \cup {"pub1", "pub2", "sub"} : calls'[k] = calls[k]
  BY DEF SameCalls, Kinds
<1> QED  BY <1>1, <1>2, <1>3, <1>4 DEF SameCalls, CountersOK, CountsOK, CallerSteps

LEMMA CallsStay ==
  ASSUME SameCalls
  PROVE  CallMsgs' = CallMsgs
<1>1. \A c \in Callers : Registered(c)' <=> Registered(c)
  BY DEF SameCalls, Registered, CallerSteps
<1> QED  BY <1>1 DEF SameCalls, CallMsgs, Expected, AckFor

\* What is held was held, or is of no interest here.
LEMMA IdsStay ==
  ASSUME IdsOK, SameCalls,
         \A e \in Held' : e.ctx.kind \in Awaited =>
           \E f \in Held : f.id = e.id /\ f.ctx = e.ctx /\ (e.type \in AckTypes \/ e.type = f.type)
  PROVE  IdsOK'
<1>1. \A c \in Callers : /\ (Counting(c) /\ Registered(c))' <=> (Counting(c) /\ Registered(c))
                         /\ Subscribes(c)' <=> Subscribes(c)
  BY DEF SameCalls, Counting, Registered, Subscribes, CallerSteps
<1>2. UNCHANGED publish_packet_id
  BY DEF SameCalls
<1>3. \A k : k \in Numbered => k \in Awaited
  BY DEF Numbered, Awaited
<1> SUFFICES ASSUME NEW e \in Held', e.ctx.kind \in Awaited
             PROVE  /\ e.type \in AckTypes /\ e.id \in 0..255
                    /\ e.ctx.kind = "ping" => e.id = 0
                    /\ e.ctx.kind = "sub" => e.id = FirstId /\ \A c \in Callers : ~Subscribes(c)
                    /\ e.ctx.kind \in Numbered =>
                         /\ \/ e.id < publish_packet_id
                            \/ /\ e.id = publish_packet_id
                               /\ \E c \in Callers : Counting(c) /\ Registered(c)
                         /\ \A f \in Held' : f.ctx.kind \in Numbered /\ f.id = e.id => f.ctx = e.ctx
  BY <1>1, <1>2 DEF IdsOK
<1>4. PICK f \in Held : f.id = e.id /\ f.ctx = e.ctx /\ (e.type \in AckTypes \/ e.type = f.type)
  OBVIOUS
<1>5. ASSUME NEW g \in Held', g.ctx.kind \in Numbered, g.id = e.id, e.ctx.kind \in Numbered
      PROVE  g.ctx = e.ctx
  <2>1. PICK h \in Held : h.id = g.id /\ h.ctx = g.ctx
    BY <1>3, <1>5
  <2> QED  BY <1>3, <1>4, <1>5, <2>1 DEF IdsOK
<1> QED  BY <1>4, <1>5 DEF IdsOK

LEMMA PingsStay ==
  ASSUME PingsOK, UNCHANGED ack_queue,
         \A b \in 1..7 : \A x \in Way[b] : \E d \in 1..7 : x \in Way'[d]
  PROVE  PingsOK'
<1>1. Rising(ack_queue, "PINGRESP", "ping")'
  BY DEF PingsOK, Rising, About
<1> QED  BY <1>1 DEF PingsOK

\* The session thread holds an entry of its own.
HoldsEntry == tpc = "enqueue_waiting" \/ (tpc = "reply" /\ resp.type = "PUBREC")

LEMMA HeldMember == \A e : e \in Held <=> e \in ToSet(ack_queue) \/ (HoldsEntry /\ e = waiting)
  BY DEF Held, HoldsEntry

LEMMA HeldStays ==
  ASSUME UNCHANGED ack_queue, ~HoldsEntry, ~HoldsEntry'
  PROVE  Held' = Held
<1>1. Held = ToSet(ack_queue)
  BY DEF Held, HoldsEntry
<1>2. Held' = ToSet(ack_queue')
  BY DEF Held, HoldsEntry
<1> QED  BY <1>1, <1>2

\* Steps that move nothing.
LEMMA QuietRound ==
  ASSUME RoundOK, SameCalls, UNCHANGED <<ack_queue, toClient, owed, toServer, send_queue>>,
         Held' = Held, Asked(HandMsg') = Asked(HandMsg), Asked(SendMsg') = Asked(SendMsg),
         tpc' \in {"dispatch", "reply"} => FromBroker(resp'),
         tpc' = "reply" /\ resp'.type = "PUBREC" => waiting' = Expected(resp'),
         AnsweredOK'
  PROVE  RoundOK'
<1>1. QueuedMsgs' = QueuedMsgs
  BY DEF SameCalls, QueuedMsgs
<1>2. \A b \in 1..7 : Way'[b] = Way[b]
  BY <1>1, CallsStay, Places, PlacesNext
<1>3. WayOK'
  <2>1. InOrder(Way')
    BY <1>2, Shrinks DEF RoundOK, WayOK
  <2>2. (\A a \in 1..7 : \A x \in Way[a] : x.type \in AckTypes /\ x \in Held)'
    BY <1>2 DEF RoundOK, WayOK
  <2>3. Sorted(toClient)' /\ Sorted(owed)' /\ Sorted(toServer)' /\ Sorted(QueuedMsgs')
    BY <1>1 DEF RoundOK, WayOK, Sorted, Asking, Ahead
  <2>4. InOrder(Way)' /\ Sorted(QueuedMsgs)'
    BY <2>1, <2>3 DEF InOrder, Sorted
  <2>5. (tpc = "reply" /\ resp.type = "PUBREC" => waiting = Expected(resp))'
    BY DEF Expected, AckFor
  <2> QED  BY <2>2, <2>3, <2>4, <2>5 DEF WayOK
<1>4. KindsOK'
  BY DEF RoundOK, KindsOK, SameCalls, FromBroker, ToBroker, Asking
<1>5. CountersOK' /\ IdsOK' /\ PingsOK'
  <2>1. \A b \in 1..7 : \A x \in Way[b] : \E d \in 1..7 : x \in Way'[d]
    BY <1>2
  <2> QED  BY <2>1, CountersStay, IdsStay, PingsStay DEF RoundOK
<1> QED  BY <1>3, <1>4, <1>5 DEF RoundOK

LEMMA SeqTypes ==
  ASSUME CallbackInv
  PROVE  /\ toClient \in Seq(Messages) /\ owed \in Seq(Messages) /\ toServer \in Seq(Messages)
         /\ ack_queue \in Seq(Entries) /\ send_queue \in Seq(Slots)
         /\ QueuedMsgs \in Seq(Messages) /\ Len(QueuedMsgs) = Len(send_queue)
<1>1. /\ toClient \in Seq(Messages) /\ owed \in Seq(Messages) /\ toServer \in Seq(Messages)
      /\ ack_queue \in Seq(Entries) /\ send_queue \in Seq(Slots)
  BY DEF CallbackInv, IndInv, TypeOK, NetTypeOK, ClientTypeOK
<1>2. \A i \in DOMAIN send_queue : buffer_slots[send_queue[i]] \in Messages
  BY DEF CallbackInv, IndInv, QueuedOK
<1>3. DOMAIN send_queue = 1..Len(send_queue) /\ Len(send_queue) \in Nat
  BY <1>1
<1>4. QueuedMsgs \in Seq(Messages) /\ Len(QueuedMsgs) = Len(send_queue)
  BY <1>2, <1>3 DEF QueuedMsgs
<1> QED  BY <1>1, <1>4

LEMMA KindsStay ==
  ASSUME KindsOK, UNCHANGED <<toServer, buffer_slots, owed, toClient>>,
         tpc' \in {"dispatch", "reply"} => FromBroker(resp')
  PROVE  KindsOK'
  BY DEF KindsOK, FromBroker, ToBroker, Asking

LEMMA AnsweredStay ==
  ASSUME AnsweredOK, UNCHANGED <<toClient, answered>>, tpc' \notin {"dispatch", "callback"}
  PROVE  AnsweredOK'
  BY DEF AnsweredOK, Asking

\* Steps that move a request one place on.
LEMMA MoveRound ==
  ASSUME RoundOK, SameCalls, UNCHANGED ack_queue, Held' = Held,
         NEW a \in 1..6, NEW ask \in BOOLEAN, NEW e,
         \A b \in 1..7 : b \notin {a, a + 1} => Way'[b] = Way[b],
         \A x : x \in Way'[a] <=> x \in Way[a] \/ (ask /\ x = e),
         \A x : x \in Way[a + 1] <=> x \in Way'[a + 1] \/ (ask /\ x = e),
         ask => \A y \in Way'[a + 1] : Ahead(e.ctx, y.ctx),
         Sorted(toClient'), Sorted(owed'), Sorted(toServer'), Sorted(QueuedMsgs'),
         ~(tpc' = "reply" /\ resp'.type = "PUBREC") \/ UNCHANGED <<tpc, resp, waiting>>,
         KindsOK', AnsweredOK'
  PROVE  RoundOK'
<1>1. WayOK
  BY DEF RoundOK
<1>2. /\ InOrder(Way')
      /\ \A b \in 1..7 : \A x \in Way'[b] : x.type \in AckTypes /\ x \in Held'
      /\ \A b \in 1..7 : \A x \in Way[b] : \E d \in 1..7 : x \in Way'[d]
  <2>1. \A x \in Held : x \in Held'
    OBVIOUS
  <2> QED  BY <1>1, <2>1, MovesOn
<1>3. WayOK'
  <2>1. (tpc = "reply" /\ resp.type = "PUBREC" => waiting = Expected(resp))'
    BY <1>1 DEF WayOK, Expected, AckFor
  <2>2. Sorted(toClient)' /\ Sorted(owed)' /\ Sorted(toServer)' /\ Sorted(QueuedMsgs)' /\ InOrder(Way)'
    BY <1>2 DEF Sorted, InOrder
  <2>3. (\A b \in 1..7 : \A x \in Way[b] : x.type \in AckTypes /\ x \in Held)'
    BY <1>2
  <2> QED  BY <2>1, <2>2, <2>3 DEF WayOK
<1>4. CountersOK' /\ IdsOK' /\ PingsOK'
  BY <1>2, CountersStay, IdsStay, PingsStay DEF RoundOK
<1> QED  BY <1>3, <1>4 DEF RoundOK

-----------------------------------------------------------------------------
(* The session thread.                                                     *)

LEMMA TopOfLoopRound ==
  ASSUME CallbackInv, RoundOK, TopOfLoop
  PROVE  RoundOK'
<1>1. /\ tpc = "top" /\ tpc' \in {"exited", "send", "receive"}
      /\ UNCHANGED <<ack_queue, toClient, owed, toServer, answered, resp, waiting>>
  BY DEF TopOfLoop, ThreadStep, netVars, historyVars
<1>2. SameCalls
  BY DEF TopOfLoop, SameCalls, callerVars, historyVars
<1>3. Held' = Held /\ HandMsg = <<>> /\ HandMsg' = <<>> /\ SendMsg = <<>>
  BY <1>1, HeldStays DEF HoldsEntry, HandMsg, SendMsg
<1>4. KindsOK' /\ AnsweredOK'
  BY <1>1, <1>2, KindsStay, AnsweredStay DEF RoundOK, SameCalls
<1>5. CASE tpc' # "send"
  <2>1. send_queue' = send_queue /\ SendMsg' = <<>>
    BY <1>5 DEF TopOfLoop, SendMsg
  <2> QED  BY <1>1, <1>2, <1>3, <1>4, <2>1, QuietRound
<1>6. CASE tpc' = "send"
  <2> DEFINE m == buffer_slots[Head(send_queue)]
  <2>1. send_queue # <<>> /\ position' = Head(send_queue) /\ send_queue' = Tail(send_queue)
    BY <1>6 DEF TopOfLoop, dequeue
  <2>2. /\ QueuedMsgs \in Seq(Messages) /\ Len(QueuedMsgs) = Len(send_queue)
        /\ send_queue \in Seq(Slots)
    BY SeqTypes
  <2>3. UNCHANGED buffer_slots
    BY <1>2 DEF SameCalls
  <2>4. QueuedMsgs' = Tail(QueuedMsgs) /\ Head(QueuedMsgs) = m /\ QueuedMsgs # <<>>
    BY <2>1, <2>2, <2>3 DEF QueuedMsgs
  <2>5. SendMsg' = <<m>>
    BY <1>6, <2>1, <2>3 DEF SendMsg
  <2> HIDE DEF m
  <2>6. Sorted(QueuedMsgs)
    BY DEF RoundOK, WayOK
  <2>7. /\ \A x : x \in Way[6] <=> x \in Way'[6] \/ (Asking(m) /\ x = Expected(m))
        /\ Asking(m) => \A y \in Way'[6] : Ahead(Expected(m).ctx, y.ctx)
        /\ Sorted(QueuedMsgs')
    BY <2>2, <2>4, <2>6, AskedTail, Places, PlacesNext, ExpectedContext
  <2>8. \A x : x \in Way'[5] <=> x \in Way[5] \/ (Asking(m) /\ x = Expected(m))
    BY <1>3, <2>5, AskedFew, Places, PlacesNext
  <2>9. \A b \in 1..7 : b \notin {5, 5 + 1} => Way'[b] = Way[b]
    BY <1>1, <1>2, <1>3, CallsStay, Places, PlacesNext
  <2>10. Sorted(toClient') /\ Sorted(owed') /\ Sorted(toServer')
    BY <1>1 DEF RoundOK, WayOK
  <2>11. Asking(m) \in BOOLEAN /\ 5 \in 1..6 /\ 5 + 1 = 6
    BY DEF Asking
  <2> QED  BY <1>1, <1>2, <1>3, <1>4, <1>6, <2>7, <2>8, <2>9, <2>10, <2>11, MoveRound
<1> QED  BY <1>5, <1>6

LEMMA SendSlotRound ==
  ASSUME CallbackInv, RoundOK, link' = "up", SendSlot
  PROVE  RoundOK'
<1> DEFINE m == buffer_slots[position]
<1>1. /\ tpc = "send" /\ tpc' = "free_slot" /\ toServer' = Append(toServer, m)
      /\ UNCHANGED <<ack_queue, send_queue, toClient, owed, answered, resp, waiting>>
  BY DEF SendSlot, SendOk, SendFails, ThreadStep, clientVars
<1>2. SameCalls
  BY DEF SendSlot, SameCalls, callerVars, clientVars
<1>3. Held' = Held /\ HandMsg = <<>> /\ HandMsg' = <<>> /\ SendMsg = <<m>> /\ SendMsg' = <<>>
  BY <1>1, HeldStays DEF HoldsEntry, HandMsg, SendMsg
<1>4. m \in Messages /\ toServer \in Seq(Messages) /\ ToBroker(m)
  <2>1. position \in Slots /\ m \in Messages
    BY <1>1 DEF CallbackInv, IndInv, ThreadOK, TypeOK, ThreadTypeOK
  <2>2. m # NoMsg
    BY <2>1, NoMsgAssumption
  <2> QED  BY <2>1, <2>2, SeqTypes DEF RoundOK, KindsOK
<1> HIDE DEF m
<1>5. /\ \A x : x \in Way'[4] <=> x \in Way[4] \/ (Asking(m) /\ x = Expected(m))
      /\ \A x : x \in Way[5] <=> Asking(m) /\ x = Expected(m)
      /\ \A x : x \notin Way'[5]
  BY <1>1, <1>3, <1>4, AskedAppend, AskedFew, Places, PlacesNext
<1>6. Sorted(toServer')
  <2>1. ASSUME Asking(m), NEW x \in Asked(toServer)  PROVE Ahead(x.ctx, m.ctx)
    <3>1. x \in Way[4] /\ Expected(m) \in Way[5]
      BY <1>5, <2>1, Places
    <3> QED  BY <3>1, ExpectedContext DEF RoundOK, WayOK, InOrder
  <2> QED  BY <1>1, <1>4, <2>1, AskedAppend DEF RoundOK, WayOK
<1>7. QueuedMsgs' = QueuedMsgs
  BY <1>1, <1>2 DEF SameCalls, QueuedMsgs
<1>8. \A b \in 1..7 : b \notin {4, 4 + 1} => Way'[b] = Way[b]
  BY <1>1, <1>2, <1>3, <1>7, CallsStay, Places, PlacesNext
<1>9. KindsOK'
  <2>1. \A i \in DOMAIN toServer' : toServer'[i] = m \/ (i \in DOMAIN toServer /\ toServer'[i] = toServer[i])
    BY <1>1, <1>4, EnqueueFacts
  <2>2. \A i \in DOMAIN toServer' : ToBroker(toServer'[i])
    BY <1>4, <2>1 DEF RoundOK, KindsOK
  <2> QED  BY <1>1, <1>2, <2>2 DEF RoundOK, KindsOK, SameCalls, FromBroker, ToBroker, Asking
<1>10. AnsweredOK' /\ Sorted(toClient') /\ Sorted(owed') /\ Sorted(QueuedMsgs')
  BY <1>1, <1>7, AnsweredStay DEF RoundOK, WayOK
<1>11. Asking(m) \in BOOLEAN /\ 4 \in 1..6 /\ 4 + 1 = 5
  BY DEF Asking
<1>12. /\ \A x : x \in Way[5] <=> x \in Way'[5] \/ (Asking(m) /\ x = Expected(m))
       /\ Asking(m) => \A y \in Way'[5] : Ahead(Expected(m).ctx, y.ctx)
       /\ UNCHANGED ack_queue /\ Held' = Held /\ tpc' # "reply"
  BY <1>1, <1>3, <1>5
<1>13. \A x : x \in Way'[4] <=> x \in Way[4] \/ (Asking(m) /\ x = Expected(m))
  BY <1>5
<1> QED  BY <1>2, <1>6, <1>8, <1>9, <1>10, <1>11, <1>12, <1>13, MoveRound

\* Steps that only end the handling of a message.
LEMMA LoopRound ==
  ASSUME CallbackInv, RoundOK, FreeSlot \/ InvokeCallback \/ Deliver \/ Crash
  PROVE  RoundOK'
<1>1. /\ UNCHANGED <<ack_queue, send_queue, toClient, owed, toServer, answered, resp, waiting>>
      /\ \/ tpc \in {"free_slot", "callback", "deliver"} /\ tpc' \in {"receive", "top"}
         \/ tpc' = tpc /\ UNCHANGED position
  BY DEF FreeSlot, InvokeCallback, Deliver, Crash, ThreadStep, clientVars, threadVars, netVars, historyVars
<1>2. SameCalls
  BY DEF FreeSlot, InvokeCallback, Deliver, Crash, SameCalls, callerVars, clientVars, historyVars
<1>3. CASE tpc' = tpc /\ UNCHANGED position
  <2>1. Held' = Held /\ HandMsg' = HandMsg /\ SendMsg' = SendMsg
    BY <1>1, <1>2, <1>3 DEF Held, HandMsg, SendMsg, SameCalls
  <2>2. AnsweredOK' /\ (tpc' \in {"dispatch", "reply"} => FromBroker(resp'))
    BY <1>1, <1>3 DEF RoundOK, AnsweredOK, KindsOK, Asking
  <2>3. tpc' = "reply" /\ resp'.type = "PUBREC" => waiting' = Expected(resp')
    BY <1>1, <1>3 DEF RoundOK, WayOK
  <2> QED  BY <1>1, <1>2, <2>1, <2>2, <2>3, QuietRound
<1>4. CASE tpc \in {"free_slot", "callback", "deliver"} /\ tpc' \in {"receive", "top"}
  <2>1. Held' = Held
    BY <1>1, <1>4, HeldStays DEF HoldsEntry
  <2>2. HandMsg' = HandMsg /\ SendMsg' = SendMsg
    BY <1>4 DEF HandMsg, SendMsg
  <2>3. AnsweredOK'
    BY <1>1, <1>4, AnsweredStay DEF RoundOK
  <2> QED  BY <1>1, <1>2, <1>4, <2>1, <2>2, <2>3, QuietRound
<1> QED  BY <1>1, <1>3, <1>4

\* A publication of the broker is nobody's acknowledgement.
LEMMA OnPublishRound ==
  ASSUME CallbackInv, RoundOK, OnPublish
  PROVE  RoundOK'
<1>1. /\ UNCHANGED <<ack_queue, send_queue, toClient, owed, toServer, answered, resp, waiting>>
      /\ tpc = "dispatch" /\ tpc' \in {"deliver", "reply"} /\ resp.type = "PUBLISH"
  BY DEF OnPublish, ThreadStep, clientVars, netVars, historyVars
<1>2. SameCalls
  BY DEF OnPublish, SameCalls, callerVars, clientVars, historyVars
<1>3. ~Asking(resp) /\ FromBroker(resp')
  BY <1>1 DEF RoundOK, KindsOK, FromBroker, AckTypes
<1>4. Held' = Held
  BY <1>1, HeldStays DEF HoldsEntry
<1>5. HandMsg = <<resp>> /\ HandMsg' = <<>> /\ SendMsg' = SendMsg
  BY <1>1 DEF HandMsg, SendMsg
<1>6. Asked(HandMsg') = Asked(HandMsg)
  <2>1. \A e : e \in Asked(HandMsg') <=> e \in Asked(HandMsg)
    BY <1>3, <1>5, AskedFew
  <2> QED  BY <2>1
<1>7. AnsweredOK'
  BY <1>1, AnsweredStay DEF RoundOK
<1> QED  BY <1>1, <1>2, <1>3, <1>4, <1>5, <1>6, <1>7, QuietRound

\* Identifiers on the way are not changed by another trip over the wire.
LEMMA WireOnWay ==
  ASSUME CallbackInv, RoundOK, NEW a \in 1..7, NEW m, Asking(m), Expected(m) \in Way[a]
  PROVE  Wire(m.id) = m.id /\ (m.type = "PINGREQ" => m.id = 0)
<1>1. Expected(m) \in Held /\ EntryOK(Expected(m))
  BY OnWay DEF RoundOK
<1>2. Expected(m).id = m.id /\ Expected(m).ctx = m.ctx /\ Expected(m).type = AckFor(m)
  BY DEF Expected
<1>3. m.id \in 0..255 /\ (m.ctx.kind = "ping" => m.id = 0)
  BY <1>1, <1>2 DEF RoundOK, IdsOK, Asking
<1>4. Wire(m.id) = m.id
  BY <1>3 DEF Wire
<1>5. m.type = "PINGREQ" => m.ctx.kind = "ping"
  BY <1>1, <1>2 DEF EntryOK, AckFor
<1> QED  BY <1>3, <1>4, <1>5

LEMMA ServerReceiveRound ==
  ASSUME CallbackInv, RoundOK, link = "up", ServerReceive
  PROVE  RoundOK'
<1>1. /\ tpc = "receive" /\ UNCHANGED <<ack_queue, send_queue, owed, toServer, answered, waiting>>
      /\ tpc' \in {"top", "dispatch"}
  BY DEF ServerReceive, ThreadStep, historyVars
<1>2. SameCalls
  BY DEF ServerReceive, SameCalls, callerVars, historyVars
<1>3. Held' = Held /\ HandMsg = <<>> /\ SendMsg = <<>> /\ SendMsg' = <<>>
  BY <1>1, HeldStays DEF HoldsEntry, HandMsg, SendMsg
<1>4. CASE tpc' = "top"
  <2>1. UNCHANGED <<resp, toClient>>
    BY <1>4 DEF ServerReceive
  <2>2. AnsweredOK' /\ HandMsg' = <<>>
    BY <1>1, <1>4, <2>1, AnsweredStay DEF RoundOK, HandMsg
  <2> QED  BY <1>1, <1>2, <1>3, <1>4, <2>1, <2>2, QuietRound
<1>5. CASE tpc' = "dispatch"
  <2> DEFINE m == Head(toClient)
  <2>1. toClient # <<>> /\ resp' = [m EXCEPT !.id = Wire(m.id)] /\ toClient' = Tail(toClient)
    BY <1>5 DEF ServerReceive
  <2>2. toClient \in Seq(Messages)
    BY SeqTypes
  <2>3. m \in Messages /\ m = toClient[1] /\ 1 \in DOMAIN toClient
    BY <2>1, <2>2
  <2>4. resp'.type = m.type /\ resp'.qos = m.qos /\ resp'.ctx = m.ctx /\ resp'.id = Wire(m.id)
    BY <2>1, <2>3 DEF Messages
  <2>5. HandMsg' = <<resp'>>
    BY <1>5 DEF HandMsg
  <2> HIDE DEF m
  <2>6. FromBroker(m) /\ (Asking(m) /\ m.type # "PUBREC" => m.ctx \in answered)
    BY <2>3 DEF RoundOK, KindsOK, AnsweredOK
  <2>7. Sorted(toClient)
    BY DEF RoundOK, WayOK
  <2>8. /\ \A x : x \in Way[2] <=> x \in Way'[2] \/ (Asking(m) /\ x = Expected(m))
        /\ Asking(m) => \A y \in Way'[2] : Ahead(Expected(m).ctx, y.ctx)
        /\ Sorted(toClient')
    <3>1. m = Head(toClient)
      BY DEF m
    <3> QED  BY <2>1, <2>2, <2>7, <3>1, AskedTail, Places, PlacesNext, ExpectedContext
  <2>9. (Asking(resp') <=> Asking(m)) /\ (Asking(m) => Expected(resp') = Expected(m))
    <3>1. Asking(resp') <=> Asking(m)
      BY <2>4 DEF Asking
    <3>2. Asking(m) => Wire(m.id) = m.id
      BY <2>8, WireOnWay
    <3> QED  BY <2>4, <3>1, <3>2 DEF Expected, AckFor
  <2>10. \A x : x \in Way'[1] <=> x \in Way[1] \/ (Asking(m) /\ x = Expected(m))
    BY <1>3, <2>5, <2>9, AskedFew, Places, PlacesNext
  <2>11. QueuedMsgs' = QueuedMsgs
    BY <1>1, <1>2 DEF SameCalls, QueuedMsgs
  <2>12. \A b \in 1..7 : b \notin {1, 1 + 1} => Way'[b] = Way[b]
    BY <1>1, <1>2, <1>3, <2>11, CallsStay, Places, PlacesNext
  <2>13. \A i \in DOMAIN toClient' : \E j \in DOMAIN toClient : toClient'[i] = toClient[j]
    BY <2>1, <2>2
  <2>14. KindsOK'
    <3>1. \A i \in DOMAIN toClient' : FromBroker(toClient'[i])
      BY <2>13 DEF RoundOK, KindsOK
    <3>2. FromBroker(resp')
      BY <2>4, <2>6, <2>9 DEF FromBroker
    <3> QED  BY <1>1, <1>2, <3>1, <3>2 DEF RoundOK, KindsOK, SameCalls, FromBroker, ToBroker, Asking
  <2>15. AnsweredOK'
    <3>1. \A i \in DOMAIN toClient' :
            Asking(toClient'[i]) /\ toClient'[i].type # "PUBREC" => toClient'[i].ctx \in answered
      BY <2>13 DEF RoundOK, AnsweredOK
    <3>2. Asking(resp') /\ resp'.type # "PUBREC" => resp'.ctx \in answered
      BY <2>4, <2>6, <2>9
    <3> QED  BY <1>1, <1>5, <3>1, <3>2 DEF AnsweredOK, Asking
  <2>16. Sorted(owed') /\ Sorted(toServer') /\ Sorted(QueuedMsgs')
    BY <1>1, <2>11 DEF RoundOK, WayOK
  <2>17. /\ Asking(m) \in BOOLEAN /\ 1 \in 1..6 /\ 1 + 1 = 2
         /\ UNCHANGED ack_queue /\ Held' = Held /\ tpc' # "reply"
    BY <1>1, <1>3, <1>5 DEF Asking
  <2> QED  BY <1>2, <2>8, <2>10, <2>12, <2>14, <2>15, <2>16, <2>17, MoveRound
<1> QED  BY <1>1, <1>4, <1>5

-----------------------------------------------------------------------------
(* The broker.                                                             *)

LEMMA BrokerAlone ==
  ASSUME UNCHANGED <<clientVars, callerVars, threadVars, calls>>
  PROVE  /\ SameCalls /\ Held' = Held /\ HandMsg' = HandMsg /\ SendMsg' = SendMsg
         /\ QueuedMsgs' = QueuedMsgs /\ UNCHANGED <<ack_queue, tpc, resp, waiting>>
<1>1. /\ UNCHANGED <<ack_queue, tpc, resp, waiting, position, send_queue, buffer_slots>> /\ SameCalls
  BY DEF clientVars, callerVars, threadVars, SameCalls
<1> QED  BY <1>1 DEF Held, HandMsg, SendMsg, QueuedMsgs

\* The broker answers a request that is called back with the acknowledgement
\* it waits for, and nothing else with an acknowledgement.
LEMMA AnswerAsks ==
  ASSUME NEW m \in Messages, ToBroker(m), Asking(m) /\ m.type = "PINGREQ" => m.id = 0,
         NEW s \in Seq(Messages)
  PROVE  \/ ~Asking(m) /\ s \o Answer(m) = s
         \/ \E r \in Messages : /\ s \o Answer(m) = Append(s, r) /\ FromBroker(r)
                                /\ Asking(r) <=> Asking(m)
                                /\ Asking(m) => Expected(r) = Expected(m)
<1>1. \A a \in Messages : s \o <<a>> = Append(s, a)
  OBVIOUS
<1>2. s \o <<>> = s
  OBVIOUS
<1>3. m.ctx \in Contexts /\ m.id \in PacketIds /\ m.qos \in 0..2
  BY DEF Messages
<1>4. ASSUME NEW t \in Replies, Answer(m) = <<Msg(t, 0, m.id, m.ctx)>>,
             Asking(m) <=> t \in AckTypes, Asking(m) => t = AckFor(m) /\ t # "PUBREL"
      PROVE  \E r \in Messages : /\ s \o Answer(m) = Append(s, r) /\ FromBroker(r)
                                 /\ Asking(r) <=> Asking(m)
                                 /\ Asking(m) => Expected(r) = Expected(m)
  <2> DEFINE r == Msg(t, 0, m.id, m.ctx)
  <2>1. r \in Messages /\ r.type = t /\ r.id = m.id /\ r.ctx = m.ctx
    BY <1>3 DEF Msg, Messages
  <2>2. s \o Answer(m) = Append(s, r)
    BY <1>1, <1>4, <2>1
  <2> HIDE DEF r
  <2>3. Asking(r) <=> Asking(m)
    BY <2>1 DEF Asking
  <2>4. FromBroker(r)
    BY <1>4, <2>1, <2>3 DEF FromBroker
  <2>5. Asking(m) => Expected(r) = Expected(m)
    <3>1. Asking(m) => AckFor(r) = t
      BY <1>4, <2>1 DEF AckFor, AckTypes
    <3> QED  BY <1>4, <2>1, <3>1 DEF Expected
  <2> QED  BY <2>1, <2>2, <2>3, <2>4, <2>5
<1>5. CASE Asking(m)
  <2>1. m.type \in {"PINGREQ", "SUBSCRIBE", "PUBREL"} \/ (m.type = "PUBLISH" /\ m.qos \in {1, 2})
    BY <1>3, <1>5 DEF ToBroker
  <2>2. Answer(m) = <<Msg(AckFor(m), 0, m.id, m.ctx)>> /\ AckFor(m) \in AckTypes \cap Replies
    <3>1. CASE m.type = "PINGREQ"
      BY <1>5, <3>1 DEF Answer, AckFor, AckTypes, Replies
    <3>2. CASE m.type = "PUBLISH"
      BY <2>1, <3>2 DEF Answer, AckFor, AckTypes, Replies
    <3>3. CASE m.type \in {"SUBSCRIBE", "PUBREL"}
      BY <3>3 DEF Answer, AckFor, AckTypes, Replies
    <3> QED  BY <2>1, <3>1, <3>2, <3>3
  <2>3. AckFor(m) # "PUBREL"
    BY <2>2 DEF AckTypes
  <2> QED  BY <1>4, <1>5, <2>2, <2>3
<1>6. CASE ~Asking(m)
  <2>1. m.type \notin {"PINGREQ", "SUBSCRIBE", "PUBREL"} /\ (m.type = "PUBLISH" => m.qos = 0)
    BY <1>6 DEF ToBroker
  <2>2. \/ Answer(m) = <<>> \/ Answer(m) = <<Msg("UNSUBACK", 0, m.id, m.ctx)>>
        \/ Answer(m) = <<Msg("PUBREL", 0, m.id, m.ctx)>>
    BY <2>1 DEF Answer
  <2>3. {"UNSUBACK", "PUBREL"} \cap AckTypes = {} /\ {"UNSUBACK", "PUBREL"} \subseteq Replies
    BY DEF AckTypes, Replies
  <2> QED  BY <1>2, <1>4, <1>6, <2>2, <2>3
<1> QED  BY <1>5, <1>6

LEMMA BrokerReceiveRound ==
  ASSUME CallbackInv, RoundOK, BrokerReceive
  PROVE  RoundOK'
<1> DEFINE m == Head(toServer)
<1>1. /\ toServer # <<>> /\ toServer' = Tail(toServer) /\ owed' = owed \o Answer(m)
      /\ UNCHANGED <<toClient, answered, clientVars, callerVars, threadVars, calls>>
  BY DEF BrokerReceive, historyVars
<1>2. /\ SameCalls /\ Held' = Held /\ HandMsg' = HandMsg /\ SendMsg' = SendMsg
      /\ QueuedMsgs' = QueuedMsgs /\ UNCHANGED <<ack_queue, tpc, resp, waiting>>
  BY <1>1, BrokerAlone
<1>3. toServer \in Seq(Messages) /\ owed \in Seq(Messages)
  BY SeqTypes
<1>4. m \in Messages /\ m = toServer[1] /\ 1 \in DOMAIN toServer
  BY <1>1, <1>3
<1>5. Sorted(toServer) /\ Sorted(owed) /\ InOrder(Way)
  BY DEF RoundOK, WayOK
<1>6. /\ \A x : x \in Way[4] <=> x \in Way'[4] \/ (Asking(m) /\ x = Expected(m))
      /\ Asking(m) => \A y \in Way'[4] : Ahead(Expected(m).ctx, y.ctx)
      /\ Sorted(toServer')
  <2>1. toServer \in Seq(Messages) /\ toServer # <<>> /\ toServer' = Tail(toServer) /\ Sorted(toServer)
    BY <1>1, <1>3, <1>5
  <2>2. /\ Way[4] = Asked(toServer) /\ Way'[4] = Asked(Tail(toServer)) /\ Sorted(toServer')
        /\ Asking(m) => \A y \in Asked(Tail(toServer)) : Ahead(m.ctx, y.ctx)
    BY <2>1, AskedTail, Places, PlacesNext
  <2> QED  BY <2>1, <2>2, AskedTail, ExpectedContext
<1> HIDE DEF m
<1>7. ToBroker(m) /\ (Asking(m) /\ m.type = "PINGREQ" => m.id = 0)
  <2>1. ToBroker(m)
    BY <1>4 DEF RoundOK, KindsOK
  <2>2. Asking(m) => Expected(m) \in Way[4]
    BY <1>6
  <2> QED  BY <2>1, <2>2, WireOnWay
<1>8. \/ ~Asking(m) /\ owed' = owed
      \/ \E r \in Messages : /\ owed' = Append(owed, r) /\ FromBroker(r)
                             /\ Asking(r) <=> Asking(m)
                             /\ Asking(m) => Expected(r) = Expected(m)
  BY <1>1, <1>3, <1>4, <1>7, AnswerAsks
<1>9. /\ \A x : x \in Way'[3] <=> x \in Way[3] \/ (Asking(m) /\ x = Expected(m))
      /\ Sorted(owed') /\ \A i \in DOMAIN owed' : FromBroker(owed'[i])
  <2>0. \A i \in DOMAIN owed : FromBroker(owed[i])
    BY DEF RoundOK, KindsOK
  <2>1. CASE ~Asking(m) /\ owed' = owed
    BY <1>5, <2>0, <2>1, Places, PlacesNext
  <2>2. ASSUME NEW r \in Messages, owed' = Append(owed, r), FromBroker(r),
               Asking(r) <=> Asking(m), Asking(m) => Expected(r) = Expected(m)
        PROVE  /\ \A x : x \in Way'[3] <=> x \in Way[3] \/ (Asking(m) /\ x = Expected(m))
               /\ Sorted(owed') /\ \A i \in DOMAIN owed' : FromBroker(owed'[i])
    <3>1. \A x : x \in Way'[3] <=> x \in Way[3] \/ (Asking(m) /\ x = Expected(m))
      BY <1>3, <2>2, AskedAppend, Places, PlacesNext
    <3>2. ASSUME Asking(r), NEW x \in Asked(owed)  PROVE Ahead(x.ctx, r.ctx)
      <4>1. x \in Way[3] /\ Expected(m) \in Way[4] /\ r.ctx = Expected(m).ctx
        BY <1>6, <2>2, <3>2, Places, ExpectedContext
      <4> QED  BY <1>5, <4>1 DEF InOrder
    <3>3. Sorted(owed')
      BY <1>3, <1>5, <2>2, <3>2, AskedAppend
    <3>4. \A i \in DOMAIN owed' : owed'[i] = r \/ (i \in DOMAIN owed /\ owed'[i] = owed[i])
      BY <1>3, <2>2, EnqueueFacts
    <3> QED  BY <2>0, <2>2, <3>1, <3>3, <3>4
  <2> QED  BY <1>8, <2>1, <2>2
<1>10. \A b \in 1..7 : b \notin {3, 3 + 1} => Way'[b] = Way[b]
  BY <1>1, <1>2, CallsStay, Places, PlacesNext
<1>11. KindsOK'
  <2>1. \A i \in DOMAIN toServer' : \E j \in DOMAIN toServer : toServer'[i] = toServer[j]
    BY <1>1, <1>3
  <2>2. \A i \in DOMAIN toServer' : ToBroker(toServer'[i])
    BY <2>1 DEF RoundOK, KindsOK
  <2> QED  BY <1>1, <1>2, <1>9, <2>2 DEF RoundOK, KindsOK, SameCalls, FromBroker, ToBroker, Asking
<1>12. AnsweredOK' /\ Sorted(toClient') /\ Sorted(QueuedMsgs')
  BY <1>1, <1>2 DEF RoundOK, WayOK, AnsweredOK, Asking
<1>13. Asking(m) \in BOOLEAN /\ 3 \in 1..6 /\ 3 + 1 = 4
  BY DEF Asking
<1> QED  BY <1>2, <1>6, <1>9, <1>10, <1>11, <1>12, <1>13, MoveRound

LEMMA BrokerAnswerRound ==
  ASSUME CallbackInv, RoundOK, BrokerAnswer
  PROVE  RoundOK'
<1>1. PICK i \in DOMAIN owed :
        /\ owed[i].type \in {"PINGRESP", "PUBREL"} => \A j \in 1..(i - 1) : owed[j].type # owed[i].type
        /\ toClient' = Append(toClient, owed[i]) /\ owed' = RemoveAt(owed, i)
        /\ answered' = IF owed[i].type \in {"PUBREC", "PUBREL"} THEN answered
                                                                ELSE answered \cup {owed[i].ctx}
  BY DEF BrokerAnswer
<1>2. UNCHANGED <<toServer, clientVars, callerVars, threadVars, calls>>
  BY DEF BrokerAnswer
<1>3. /\ SameCalls /\ Held' = Held /\ HandMsg' = HandMsg /\ SendMsg' = SendMsg
      /\ QueuedMsgs' = QueuedMsgs /\ UNCHANGED <<ack_queue, tpc, resp, waiting>>
  BY <1>2, BrokerAlone
<1>4. toClient \in Seq(Messages) /\ owed \in Seq(Messages) /\ owed[i] \in Messages
  BY SeqTypes
<1> DEFINE m == owed[i]
<1>5. Sorted(toClient) /\ Sorted(owed) /\ InOrder(Way)
  BY DEF RoundOK, WayOK
<1>6. \A j \in DOMAIN owed : FromBroker(owed[j])
  BY DEF RoundOK, KindsOK
\* An answer about a ping is a PINGRESP.
<1>7. ASSUME NEW j \in DOMAIN owed, Asking(owed[j])
      PROVE  owed[j].ctx.kind = "ping" <=> owed[j].type = "PINGRESP"
  <2>1. Expected(owed[j]) \in Way[3]
    BY <1>7, AskedMember, Places
  <2>2. EntryOK(Expected(owed[j]))
    BY <2>1, OnWay DEF RoundOK
  <2>3. owed[j].type \in AckTypes
    BY <1>6, <1>7 DEF FromBroker
  <2>4. Expected(owed[j]).ctx = owed[j].ctx /\ Expected(owed[j]).type = owed[j].type
    BY <2>3 DEF Expected, AckFor, AckTypes
  <2> QED  BY <2>2, <2>4 DEF EntryOK
<1>8. Asking(m) /\ m.ctx.kind = "ping" => \A j \in 1..(i - 1) : owed[j].ctx.kind # "ping"
  <2> SUFFICES ASSUME Asking(m), m.ctx.kind = "ping", NEW j \in 1..(i - 1), owed[j].ctx.kind = "ping"
               PROVE  FALSE
    OBVIOUS
  <2>1. j \in DOMAIN owed
    BY <1>4
  <2>2. Asking(owed[j])
    BY DEF Asking, Awaited
  <2> QED  BY <1>1, <1>7, <2>1, <2>2
<1>9. /\ \A x : x \in Way[3] <=> x \in Way'[3] \/ (Asking(m) /\ x = Expected(m))
      /\ Asking(m) => \A y \in Way'[3] : Ahead(Expected(m).ctx, y.ctx)
      /\ Sorted(owed')
  BY <1>1, <1>4, <1>5, <1>8, AskedRemove, Places, PlacesNext, ExpectedContext
<1>10. FromBroker(m) /\ (Asking(m) /\ m.type # "PUBREC" => m.ctx \in answered')
  BY <1>1, <1>6 DEF FromBroker, AckTypes
<1>11. \A x : x \in answered => x \in answered'
  BY <1>1
<1>12. toClient' = Append(toClient, m) /\ m \in Messages
  BY <1>1, <1>4
<1>13. \A j \in DOMAIN owed' : \E k \in DOMAIN owed : owed'[j] = owed[k]
  BY <1>1, <1>4, RemoveAtElements
<1> HIDE DEF m
<1>14. \A x : x \in Way'[2] <=> x \in Way[2] \/ (Asking(m) /\ x = Expected(m))
  BY <1>4, <1>12, AskedAppend, Places, PlacesNext
<1>15. Sorted(toClient')
  <2>1. ASSUME Asking(m), NEW x \in Asked(toClient)  PROVE Ahead(x.ctx, m.ctx)
    <3>1. x \in Way[2] /\ Expected(m) \in Way[3]
      BY <1>9, <2>1, Places
    <3> QED  BY <1>5, <3>1, ExpectedContext DEF InOrder
  <2> QED  BY <1>4, <1>5, <1>12, <2>1, AskedAppend
<1>16. \A b \in 1..7 : b \notin {2, 2 + 1} => Way'[b] = Way[b]
  BY <1>2, <1>3, CallsStay, Places, PlacesNext
<1>17. \A j \in DOMAIN toClient' : toClient'[j] = m \/ (j \in DOMAIN toClient /\ toClient'[j] = toClient[j])
  BY <1>4, <1>12, EnqueueFacts
<1>18. KindsOK'
  <2>1. \A j \in DOMAIN toClient' : FromBroker(toClient'[j])
    BY <1>10, <1>17 DEF RoundOK, KindsOK
  <2>2. \A j \in DOMAIN owed' : FromBroker(owed'[j])
    BY <1>6, <1>13
  <2> QED  BY <1>2, <1>3, <2>1, <2>2 DEF RoundOK, KindsOK, SameCalls, FromBroker, ToBroker, Asking
<1>19. AnsweredOK'
  <2>1. \A j \in DOMAIN toClient' :
          Asking(toClient'[j]) /\ toClient'[j].type # "PUBREC" => toClient'[j].ctx \in answered'
    BY <1>10, <1>11, <1>17 DEF RoundOK, AnsweredOK
  <2> QED  BY <1>3, <1>11, <2>1 DEF RoundOK, AnsweredOK, Asking
<1>20. /\ Asking(m) \in BOOLEAN /\ 2 \in 1..6 /\ 2 + 1 = 3
       /\ Sorted(toServer') /\ Sorted(QueuedMsgs')
  BY <1>2, <1>3 DEF Asking, RoundOK, WayOK
<1> QED  BY <1>3, <1>9, <1>14, <1>15, <1>16, <1>18, <1>19, <1>20, MoveRound

LEMMA BrokerPublishRound ==
  ASSUME CallbackInv, RoundOK, NEW q \in 0..2, BrokerPublish(q)
  PROVE  RoundOK'
<1>1. PICK m : /\ m.type = "PUBLISH" /\ m.ctx.kind \in SrvKinds /\ m \in Messages
               /\ toClient' = Append(toClient, m)
  <2> DEFINE x == [kind |-> SrvKind[q + 1], n |-> pushes[q] + 1]
  <2>1. pushes[q] \in Nat /\ 0 \in PacketIds
    BY MaxIdType DEF CallbackInv, IndInv, TypeOK, HistoryTypeOK, PacketIds
  <2>2. x \in Contexts /\ x.kind \in SrvKinds
    BY <2>1 DEF Contexts, SrvKind, SrvKinds
  <2>3. PICK id \in PacketIds : toClient' = Append(toClient, Msg("PUBLISH", q, id, x))
    BY <2>1, IdAssumption DEF BrokerPublish
  <2>4. Msg("PUBLISH", q, id, x) \in Messages
    BY <2>2 DEF Msg, Messages
  <2> QED  BY <2>2, <2>3, <2>4 DEF Msg
<1>2. UNCHANGED <<toServer, owed, answered, clientVars, callerVars, threadVars, calls>>
  BY DEF BrokerPublish
<1>3. /\ SameCalls /\ Held' = Held /\ HandMsg' = HandMsg /\ SendMsg' = SendMsg
      /\ QueuedMsgs' = QueuedMsgs /\ UNCHANGED <<ack_queue, tpc, resp, waiting>>
  BY <1>2, BrokerAlone
<1>4. toClient \in Seq(Messages)
  BY SeqTypes
<1>5. ~Asking(m) /\ FromBroker(m)
  BY <1>1 DEF Asking, FromBroker, Awaited, SrvKinds, AckTypes
<1>6. \A x : x \in Way'[2] <=> x \in Way[2] \/ (FALSE /\ x = m)
  BY <1>1, <1>4, <1>5, AskedAppend, Places, PlacesNext
<1>7. Sorted(toClient')
  BY <1>1, <1>4, <1>5, AskedAppend DEF RoundOK, WayOK
<1>8. \A b \in 1..7 : b # 2 => Way'[b] = Way[b]
  BY <1>2, <1>3, CallsStay, Places, PlacesNext
<1>9. \A j \in DOMAIN toClient' : toClient'[j] = m \/ (j \in DOMAIN toClient /\ toClient'[j] = toClient[j])
  BY <1>1, <1>4, EnqueueFacts
<1>10. KindsOK'
  <2>1. \A j \in DOMAIN toClient' : FromBroker(toClient'[j])
    BY <1>5, <1>9 DEF RoundOK, KindsOK
  <2> QED  BY <1>2, <1>3, <2>1 DEF RoundOK, KindsOK, SameCalls, FromBroker, ToBroker, Asking
<1>11. AnsweredOK'
  <2>1. \A j \in DOMAIN toClient' :
          Asking(toClient'[j]) /\ toClient'[j].type # "PUBREC" => toClient'[j].ctx \in answered'
    BY <1>2, <1>5, <1>9 DEF RoundOK, AnsweredOK
  <2> QED  BY <1>2, <1>3, <2>1 DEF RoundOK, AnsweredOK, Asking
<1>12. Sorted(owed') /\ Sorted(toServer') /\ Sorted(QueuedMsgs') /\ 2 \in 1..6 /\ 2 + 1 = 3
  BY <1>2, <1>3 DEF RoundOK, WayOK
<1>13. /\ \A b \in 1..7 : b \notin {2, 2 + 1} => Way'[b] = Way[b]
       /\ \A x : x \in Way[3] <=> x \in Way'[3] \/ (FALSE /\ x = m)
  BY <1>8
<1>14. FALSE \in BOOLEAN /\ (FALSE => \A y \in Way'[2 + 1] : Ahead(m.ctx, y.ctx))
  OBVIOUS
<1> QED  BY <1>3, <1>6, <1>7, <1>10, <1>11, <1>12, <1>13, <1>14, MoveRound

-----------------------------------------------------------------------------
(* The entry that is found.                                                *)

LEMMA FirstExists ==
  ASSUME NEW S, S \subseteq Nat, S # {}
  PROVE  \E i \in First(S) : i \in S
<1> DEFINE R == OpToRel(<, Nat)
<1>1. PICK i \in S : \A j \in S : <<j, i>> \notin R
  <2>1. IsWellFoundedOn(R, Nat)
    BY NatLessThanWellFounded
  <2> HIDE DEF R
  <2> QED  BY <2>1, WFMin
<1>2. \A j \in S : ~(j < i)
  <2>1. ASSUME NEW j \in S, j < i  PROVE FALSE
    <3>1. <<j, i>> \in R
      BY <2>1 DEF OpToRel
    <3> QED  BY <1>1, <3>1
  <2> QED  BY <2>1
<1>3. \A j \in S : i <= j
  BY <1>2
<1> QED  BY <1>3 DEF First

\* When an acknowledgement is dispatched, the entry that waits for it is in
\* ack_queue, and every entry the search could stop at first is that one.
LEMMA Matches ==
  ASSUME CallbackInv, RoundOK, Orderly, tpc = "dispatch", resp.type \in AckTypes
  PROVE  /\ Asking(resp) /\ Expected(resp) \in Way[1]
         /\ \E i \in First(Hits(resp.type, resp.id)) : ack_queue[i].ctx = resp.ctx
         /\ \A i \in First(Hits(resp.type, resp.id)) :
              ack_queue[i].ctx = resp.ctx /\ ack_queue[i].id = resp.id
         /\ resp.type = "SUBACK" =>
              \A i \in DOMAIN ack_queue : ack_queue[i].type = "SUBACK" => ack_queue[i].id = resp.id
<1> DEFINE e == Expected(resp)
           H == Hits(resp.type, resp.id)
<1>1. Asking(resp)
  BY DEF RoundOK, KindsOK, FromBroker
<1>2. e.type = resp.type /\ e.id = resp.id /\ e.ctx = resp.ctx
  BY DEF Expected, AckFor, AckTypes
<1>3. \A x : x \in Way[1] <=> x = e
  <2>1. HandMsg = <<resp>>
    BY DEF HandMsg
  <2> QED  BY <1>1, <2>1, AskedFew, Places
<1>4. e \in Held /\ e \in Entries /\ EntryOK(e)
  <2>1. e \in Way[1] /\ 1 \in 1..7
    BY <1>3
  <2> QED  BY <2>1, OnWay DEF RoundOK
<1>5. ack_queue \in Seq(Entries) /\ DOMAIN ack_queue \subseteq Nat
  <2>1. ack_queue \in Seq(Entries)
    BY SeqTypes
  <2> QED  BY <2>1
<1>6. \A f : f \in Held <=> \E i \in DOMAIN ack_queue : f = ack_queue[i]
  <2>1. ~HoldsEntry
    BY DEF HoldsEntry
  <2> QED  BY <2>1, HeldMember DEF ToSet
<1>7. PICK j \in DOMAIN ack_queue : ack_queue[j] = e
  BY <1>4, <1>6
<1> HIDE DEF e
<1>8. j \in H
  BY <1>2, <1>7 DEF Hits
<1>9. ASSUME NEW i \in DOMAIN ack_queue, ack_queue[i].type = resp.type
      PROVE  ack_queue[i] \in Held /\ ack_queue[i] \in Entries /\ EntryOK(ack_queue[i])
  BY <1>6, <1>9, HeldEntry
<1>10. e.id \in 0..255 /\ e.ctx.kind \in Awaited
  <2>1. e.ctx.kind \in Awaited
    BY <1>1, <1>2 DEF Asking
  <2> QED  BY <1>4, <2>1 DEF RoundOK, IdsOK
<1>11. ASSUME resp.type = "SUBACK", NEW i \in DOMAIN ack_queue, ack_queue[i].type = "SUBACK"
       PROVE  ack_queue[i].id = resp.id /\ ack_queue[i].ctx = resp.ctx
  <2> DEFINE f == ack_queue[i]
  <2>1. f \in Held /\ f \in Entries /\ EntryOK(f) /\ f.ctx.kind \in {"sub", "unsub"}
    <3>1. f \in Held /\ f \in Entries /\ EntryOK(f)
      BY <1>9, <1>11
    <3> QED  BY <1>11, <3>1 DEF EntryOK, Once, Kinds
  <2>2. e.ctx.kind = "sub"
    BY <1>2, <1>4, <1>10, <1>11 DEF EntryOK, Awaited, Once
  <2>3. /\ e.ctx.n \in 1..calls["sub"] /\ f.ctx.n \in 1..calls[f.ctx.kind]
        /\ calls["sub"] <= MaxCalls["sub"] /\ calls["unsub"] <= MaxCalls["unsub"]
        /\ calls["sub"] \in Nat /\ calls["unsub"] \in Nat
        /\ MaxCalls["sub"] \in Nat /\ MaxCalls["unsub"] \in Nat
    BY <1>4, <2>1, <2>2, BoundAssumption
       DEF EntryOK, RoundOK, CountersOK, Kinds, CallbackInv, IndInv, TypeOK, HistoryTypeOK
  <2>4. MaxCalls["sub"] = 1 /\ MaxCalls["unsub"] = 0
    BY <2>3 DEF Orderly
  <2>6. f.ctx.kind = "sub" /\ f.ctx.n = 1 /\ e.ctx.n = 1
    BY <2>1, <2>3, <2>4
  <2>7. f.ctx = e.ctx
    <3>1. f.ctx \in Contexts /\ e.ctx \in Contexts
      BY <1>4, <2>1 DEF Entries
    <3> QED  BY <2>2, <2>6, <3>1 DEF Contexts
  <2>8. f.id = FirstId /\ e.id = FirstId
    BY <1>4, <2>1, <2>2, <2>6 DEF RoundOK, IdsOK, Awaited
  <2> QED  BY <1>2, <2>7, <2>8
<1>12. ASSUME NEW i \in First(H)
       PROVE  ack_queue[i].ctx = resp.ctx /\ ack_queue[i].id = resp.id
  <2> DEFINE f == ack_queue[i]
  <2>1. /\ i \in DOMAIN ack_queue /\ f.type = resp.type /\ i <= j
        /\ resp.type # "PINGRESP" => f.id = resp.id
    BY <1>8 DEF First, Hits
  <2>2. f \in Held /\ f \in Entries /\ EntryOK(f)
    BY <1>9, <2>1
  <2>3. CASE resp.type = "SUBACK"
    BY <1>11, <2>1, <2>3
  <2>4. CASE resp.type = "PINGRESP"
    <3>1. f.ctx.kind = "ping" /\ e.ctx.kind = "ping" /\ f.type = "PINGRESP" /\ e.type = "PINGRESP"
      BY <1>2, <1>4, <2>1, <2>2, <2>4 DEF EntryOK
    <3>2. f.ctx.n \in Nat /\ e.ctx.n \in Nat
      BY <1>4, <2>2 DEF Entries, Contexts
    <3>3. PICK a \in 1..7 : f \in Way[a]
      BY <2>1, <3>1 DEF RoundOK, PingsOK
    <3>4. CASE a # 1
      <4>1. Ahead(e.ctx, f.ctx)
        BY <1>3, <3>3, <3>4 DEF RoundOK, WayOK, InOrder
      <4>2. e.ctx.n < f.ctx.n
        BY <3>1, <4>1 DEF Ahead
      <4>3. i < j
        BY <1>5, <1>7, <2>1, <3>2, <4>2
      <4>4. f.ctx.n < e.ctx.n
        BY <1>7, <2>1, <3>1, <4>3 DEF RoundOK, PingsOK, Rising, About
      <4> QED  BY <3>2, <4>2, <4>4
    <3> QED  BY <1>2, <1>3, <3>3, <3>4
  <2>5. CASE resp.type \notin {"SUBACK", "PINGRESP"}
    <3>1. f.ctx.kind \in Numbered /\ e.ctx.kind \in Numbered
      BY <1>2, <1>4, <2>1, <2>2, <2>5 DEF EntryOK, Once, Numbered
    <3> QED  BY <1>2, <1>4, <1>10, <2>1, <2>2, <2>5, <3>1 DEF RoundOK, IdsOK
  <2> QED  BY <2>3, <2>4, <2>5
<1>13. \E i \in First(H) : ack_queue[i].ctx = resp.ctx
  <2>1. H \subseteq Nat /\ H # {}
    BY <1>5, <1>8 DEF Hits
  <2>2. PICK i \in First(H) : TRUE
    BY <2>1, FirstExists
  <2> QED  BY <1>12, <2>2
<1> QED  BY <1>1, <1>3, <1>11, <1>12, <1>13 DEF e

LEMMA RemoveRange ==
  ASSUME NEW S, NEW s \in Seq(S), NEW p \in DOMAIN s
  PROVE  /\ \A x \in ToSet(RemoveAt(s, p)) : x \in ToSet(s)
         /\ \A x \in ToSet(s) : x = s[p] \/ x \in ToSet(RemoveAt(s, p))
<1> DEFINE r == RemoveAt(s, p)
           f(j) == IF j < p THEN j ELSE j + 1
<1>1. /\ DOMAIN s = 1..Len(s) /\ Len(s) \in Nat /\ p \in 1..Len(s) /\ DOMAIN r = 1..(Len(s) - 1)
      /\ \A j \in DOMAIN r : r[j] = s[f(j)] /\ f(j) \in DOMAIN s
  BY RemoveAtFacts
<1>2. ASSUME NEW i \in DOMAIN s, i # p  PROVE \E j \in DOMAIN r : i = f(j)
  <2>1. CASE i < p
    BY <1>1, <2>1
  <2>2. CASE i > p
    <3>1. i - 1 \in DOMAIN r /\ i = f(i - 1)
      BY <1>1, <2>2
    <3> QED  BY <3>1
  <2> QED  BY <1>1, <1>2, <2>1, <2>2
<1> HIDE DEF r, f
<1>3. ASSUME NEW x \in ToSet(r)  PROVE x \in ToSet(s)
  BY <1>1 DEF ToSet
<1>4. ASSUME NEW x \in ToSet(s), x # s[p]  PROVE x \in ToSet(r)
  <2>1. PICK i \in DOMAIN s : x = s[i]
    BY DEF ToSet
  <2>2. PICK j \in DOMAIN r : i = f(j)
    BY <1>2, <1>4, <2>1
  <2> QED  BY <1>1, <2>1, <2>2 DEF ToSet
<1> QED  BY <1>3, <1>4 DEF r

\* An entry is taken off ack_queue: what is on the way does not wait for it.
LEMMA TakenRound ==
  ASSUME CallbackInv, RoundOK, tpc = "dispatch", tpc' \in {"callback", "reply", "top"}, SameCalls,
         NEW i \in DOMAIN ack_queue, ack_queue' = RemoveAt(ack_queue, i),
         UNCHANGED <<toClient, owed, toServer, send_queue, resp>>,
         \A x \in Asked(HandMsg') : x \in Asked(HandMsg),
         \A x \in Held' : x \in Held,
         \A a \in 1..7 : \A x \in Way'[a] : x \in Held',
         \A k \in DOMAIN ack_queue \ {i} :
           ack_queue[k].type = "PINGRESP" /\ ack_queue[k] \in Asked(HandMsg)
           => ack_queue[k] \in Asked(HandMsg'),
         tpc' = "reply" /\ resp'.type = "PUBREC" => waiting' = Expected(resp'),
         AnsweredOK'
  PROVE  RoundOK'
<1>1. QueuedMsgs' = QueuedMsgs /\ SendMsg = <<>> /\ SendMsg' = <<>>
  BY DEF SameCalls, QueuedMsgs, SendMsg
<1>2. \A b \in 2..7 : Way'[b] = Way[b]
  BY <1>1, CallsStay, Places, PlacesNext
<1>3. \A b \in 1..7 : \A x \in Way'[b] : x \in Way[b]
  BY <1>2, Places, PlacesNext
<1>4. WayOK'
  <2>1. InOrder(Way')
    BY <1>3, Shrinks DEF RoundOK, WayOK
  <2>2. (\A a \in 1..7 : \A x \in Way[a] : x.type \in AckTypes /\ x \in Held)'
    BY <1>3 DEF RoundOK, WayOK
  <2>3. Sorted(toClient)' /\ Sorted(owed)' /\ Sorted(toServer)' /\ Sorted(QueuedMsgs')
    BY <1>1 DEF RoundOK, WayOK, Sorted, Asking, Ahead
  <2>4. InOrder(Way)' /\ Sorted(QueuedMsgs)'
    BY <2>1, <2>3 DEF InOrder, Sorted
  <2>5. (tpc = "reply" /\ resp.type = "PUBREC" => waiting = Expected(resp))'
    BY DEF Expected, AckFor
  <2> QED  BY <2>2, <2>3, <2>4, <2>5 DEF WayOK
<1>5. KindsOK'
  BY DEF RoundOK, KindsOK, SameCalls, FromBroker, ToBroker, Asking
<1>6. CountersOK' /\ IdsOK'
  BY CountersStay, IdsStay DEF RoundOK
<1>7. PingsOK'
  <2>0. ack_queue \in Seq(Entries)
    BY SeqTypes
  <2>1. Rising(ack_queue', "PINGRESP", "ping")
    BY <2>0, CarriedRemove DEF RoundOK, PingsOK
  <2>2. ASSUME NEW j \in DOMAIN ack_queue', ack_queue'[j].type = "PINGRESP"
        PROVE  \E a \in 1..7 : ack_queue'[j] \in Way'[a]
    <3>1. PICK k \in DOMAIN ack_queue \ {i} : ack_queue'[j] = ack_queue[k]
      BY <2>0, RemoveAtElements
    <3>2. PICK a \in 1..7 : ack_queue[k] \in Way[a]
      BY <2>2, <3>1 DEF RoundOK, PingsOK
    <3>3. CASE a = 1
      BY <2>2, <3>1, <3>2, <3>3, Places, PlacesNext
    <3>4. CASE a # 1
      BY <1>2, <3>1, <3>2, <3>4
    <3> QED  BY <3>3, <3>4
  <2>3. Rising(ack_queue, "PINGRESP", "ping")'
    BY <2>1 DEF Rising, About
  <2> QED  BY <2>2, <2>3 DEF PingsOK
<1> QED  BY <1>4, <1>5, <1>6, <1>7 DEF RoundOK

\* The final acknowledgement of a request.
LEMMA DoneRound ==
  ASSUME CallbackInv, RoundOK, tpc = "dispatch", tpc' = "callback", SameCalls,
         resp.type \in AckTypes \ {"PUBREC"}, Asking(resp), NEW i \in DOMAIN ack_queue,
         ack_queue[i].ctx = resp.ctx, ack_queue[i].type = resp.type,
         ack_queue' = RemoveAt(ack_queue, i), waiting' = ack_queue[i],
         UNCHANGED <<toClient, owed, toServer, send_queue, resp, answered>>
  PROVE  RoundOK'
<1>1. HandMsg = <<resp>> /\ HandMsg' = <<>> /\ ack_queue \in Seq(Entries)
  BY SeqTypes DEF HandMsg
<1>2. \A x \in Asked(HandMsg') : x \in Asked(HandMsg)
  BY <1>1, AskedFew
<1>3. (\A x : x \in Held <=> x \in ToSet(ack_queue)) /\ (\A x : x \in Held' <=> x \in ToSet(ack_queue'))
  <2>1. ~HoldsEntry /\ ~HoldsEntry'
    BY DEF HoldsEntry
  <2>2. \A x : x \in Held <=> x \in ToSet(ack_queue)
    BY <2>1, HeldMember
  <2>3. \A x : x \in Held' <=> x \in ToSet(ack_queue')
    BY <2>1 DEF Held, HoldsEntry
  <2> QED  BY <2>2, <2>3
<1>4. /\ \A x \in Held' : x \in Held
      /\ \A x \in Held : x.ctx # resp.ctx => x \in Held'
  BY <1>1, <1>3, RemoveRange
<1>5. \A x : x \in Way[1] <=> x = Expected(resp)
  BY <1>1, AskedFew, Places
<1>6. ASSUME NEW a \in 1..7, NEW x \in Way'[a]  PROVE x \in Held'
  <2>1. a # 1
    BY <1>1, AskedFew, PlacesNext
  <2>2. x \in Way[a]
    <3>1. QueuedMsgs' = QueuedMsgs /\ SendMsg = <<>> /\ SendMsg' = <<>>
      BY DEF SameCalls, QueuedMsgs, SendMsg
    <3> QED  BY <2>1, <3>1, CallsStay, Places, PlacesNext
  <2>3. Ahead(Expected(resp).ctx, x.ctx)
    BY <1>5, <2>1, <2>2 DEF RoundOK, WayOK, InOrder
  <2>4. x.ctx # resp.ctx /\ x \in Held
    BY <2>2, <2>3, ExpectedContext DEF Ahead, RoundOK, WayOK
  <2> QED  BY <1>4, <2>4
<1>7. ASSUME NEW k \in DOMAIN ack_queue \ {i}, ack_queue[k].type = "PINGRESP",
             ack_queue[k] \in Asked(HandMsg)
      PROVE  FALSE
  <2>1. ack_queue[k] = Expected(resp)
    BY <1>5, <1>7, Places
  <2>2. ack_queue[k].ctx = ack_queue[i].ctx
    BY <2>1, ExpectedContext
  <2>3. EntryOK(ack_queue[k])
    BY <1>7 DEF CallbackInv, RegisteredOK, Registers
  <2>4. ack_queue[k].ctx.kind = "ping"
    BY <1>7, <2>3 DEF EntryOK
  <2>5. Registers(ack_queue[i])
    BY DEF Registers, AckTypes
  <2> QED  BY <1>7, <2>2, <2>4, <2>5 DEF CallbackInv, OnePlace, Registers, Once
<1>8. AnsweredOK'
  BY DEF RoundOK, AnsweredOK, Asking
<1> QED  BY <1>2, <1>4, <1>6, <1>7, <1>8, TakenRound

LEMMA OnFinalAckRound ==
  ASSUME CallbackInv, RoundOK, Orderly,
         NEW t \in {"PINGRESP", "PUBACK", "PUBCOMP", "UNSUBACK"}, OnFinalAck(t)
  PROVE  RoundOK'
<1>1. /\ tpc = "dispatch" /\ resp.type = t
      /\ UNCHANGED <<toClient, owed, toServer, send_queue, resp, answered>>
  BY DEF OnFinalAck, ThreadStep, netVars, historyVars
<1>2. SameCalls
  BY DEF OnFinalAck, SameCalls, callerVars, historyVars
<1>3. CASE t # "UNSUBACK"
  <2>1. resp.type \in AckTypes \ {"PUBREC"}
    BY <1>1, <1>3 DEF AckTypes
  <2>2. Asking(resp) /\ Hits(t, resp.id) # {}
    BY <1>1, <2>1, Matches DEF First
  <2>3. PICK i \in First(Hits(t, resp.id)) :
          tpc' = "callback" /\ waiting' = ack_queue[i] /\ ack_queue' = RemoveAt(ack_queue, i)
    BY <2>2 DEF OnFinalAck, remove_from_queue
  <2>4. i \in DOMAIN ack_queue /\ ack_queue[i].type = resp.type
    BY <1>1 DEF First, Hits
  <2>5. ack_queue[i].ctx = resp.ctx
    BY <1>1, <2>1, Matches
  <2> QED  BY <1>1, <1>2, <2>1, <2>2, <2>3, <2>4, <2>5, DoneRound
<1>4. CASE t = "UNSUBACK"
  <2>1. Hits(t, resp.id) = {}
    <3>1. ASSUME NEW i \in DOMAIN ack_queue, ack_queue[i].type = "UNSUBACK"  PROVE FALSE
      BY <3>1 DEF CallbackInv, RegisteredOK, Registers, EntryOK, AckTypes
    <3> QED  BY <1>4, <3>1 DEF Hits
  <2>2. tpc' = "top" /\ UNCHANGED <<waiting, ack_queue>>
    BY <2>1 DEF OnFinalAck, First
  <2>3. Held' = Held /\ HandMsg = <<resp>> /\ HandMsg' = <<>> /\ SendMsg = <<>> /\ SendMsg' = <<>>
    BY <1>1, <2>2, HeldStays DEF HoldsEntry, HandMsg, SendMsg
  <2>4. ~Asking(resp)
    BY <1>1, <1>4 DEF RoundOK, KindsOK, FromBroker, AckTypes
  <2>5. Asked(HandMsg') = Asked(HandMsg)
    <3>1. \A x : (x \in Asked(HandMsg')) <=> (x \in Asked(HandMsg))
      BY <2>3, <2>4, AskedFew
    <3> QED  BY <3>1
  <2>6. AnsweredOK'
    BY <1>1, <2>2, AnsweredStay DEF RoundOK
  <2> QED  BY <1>1, <1>2, <2>2, <2>3, <2>5, <2>6, QuietRound
<1> QED  BY <1>3, <1>4

LEMMA OnSubackRound ==
  ASSUME CallbackInv, RoundOK, Orderly, OnSuback
  PROVE  RoundOK'
<1> DEFINE entries == {i \in DOMAIN ack_queue : ack_queue[i].type = "SUBACK"}
<1>1. /\ tpc = "dispatch" /\ resp.type = "SUBACK"
      /\ UNCHANGED <<toClient, owed, toServer, send_queue, resp, answered>>
  BY DEF OnSuback, ThreadStep, netVars, historyVars
<1>2. SameCalls
  BY DEF OnSuback, SameCalls, callerVars, historyVars
<1>3. resp.type \in AckTypes \ {"PUBREC"}
  BY <1>1 DEF AckTypes
<1>4. Asking(resp) /\ \A i \in entries : ack_queue[i].id = resp.id
  BY <1>1, <1>3, Matches
<1>5. \A i : i \in entries <=> i \in Hits(resp.type, resp.id)
  BY <1>1, <1>4 DEF Hits
<1>6. \A i : i \in First(entries) <=> i \in First(Hits(resp.type, resp.id))
  BY <1>5 DEF First
<1>7. entries # {} /\ \A i \in First(entries) : ack_queue[i].ctx = resp.ctx
  BY <1>1, <1>3, <1>6, Matches DEF First
<1>8. PICK i \in First(entries) :
        tpc' = "callback" /\ waiting' = ack_queue[i] /\ ack_queue' = RemoveAt(ack_queue, i)
  BY <1>4, <1>7 DEF OnSuback, remove_from_queue, First
<1>9. i \in DOMAIN ack_queue /\ ack_queue[i].type = resp.type
  BY <1>1, <1>8 DEF First
<1> QED  BY <1>1, <1>2, <1>3, <1>4, <1>7, <1>8, <1>9, DoneRound

\* PUBREC: the entry that was taken is that of the acknowledged request.
LEMMA OnPubrecRound ==
  ASSUME CallbackInv, RoundOK, Orderly, OnHandshake("PUBREC")
  PROVE  RoundOK'
<1>1. /\ tpc = "dispatch" /\ resp.type = "PUBREC"
      /\ UNCHANGED <<toClient, owed, toServer, send_queue, resp, answered>>
  BY DEF OnHandshake, ThreadStep, netVars, historyVars
<1>2. SameCalls
  BY DEF OnHandshake, SameCalls, callerVars, historyVars
<1>3. resp.type \in AckTypes
  BY <1>1 DEF AckTypes
<1>4. Asking(resp) /\ Hits("PUBREC", resp.id) # {}
  BY <1>1, <1>3, Matches DEF First
<1>5. PICK i \in First(Hits("PUBREC", resp.id)) :
        tpc' = "reply" /\ waiting' = ack_queue[i] /\ ack_queue' = RemoveAt(ack_queue, i)
  BY <1>4 DEF OnHandshake, remove_from_queue
<1>6. i \in DOMAIN ack_queue /\ ack_queue[i].type = resp.type
  BY <1>1 DEF First, Hits
<1>7. ack_queue[i].ctx = resp.ctx /\ ack_queue[i].id = resp.id
  BY <1>1, <1>3, Matches
<1>8. ack_queue \in Seq(Entries)
  BY SeqTypes
<1>9. waiting' = Expected(resp')
  <2>1. ack_queue[i] \in Entries
    BY <1>6, <1>8
  <2> QED  BY <1>1, <1>5, <1>6, <1>7, <2>1 DEF Expected, AckFor, Entries
<1>10. HandMsg = <<resp>> /\ HandMsg' = <<resp>>
  BY <1>1, <1>5 DEF HandMsg
<1>11. \A x : x \in Held' <=> x \in Held
  <2>1. ~HoldsEntry /\ HoldsEntry'
    BY <1>1, <1>5 DEF HoldsEntry
  <2>2. \A x : x \in Held <=> x \in ToSet(ack_queue)
    BY <2>1, HeldMember
  <2>3. \A x : x \in Held' <=> x \in ToSet(ack_queue') \/ x = waiting'
    BY <2>1 DEF Held, HoldsEntry
  <2>4. ack_queue[i] \in ToSet(ack_queue)
    BY <1>6 DEF ToSet
  <2> QED  BY <1>5, <1>6, <1>8, <2>2, <2>3, <2>4, RemoveRange
<1>12. \A a \in 1..7 : \A x \in Way'[a] : x \in Held'
  <2>1. QueuedMsgs' = QueuedMsgs /\ SendMsg = <<>> /\ SendMsg' = <<>>
    BY <1>1, <1>2, <1>5 DEF SameCalls, QueuedMsgs, SendMsg
  <2>2. \A a \in 1..7 : Way'[a] = Way[a]
    BY <1>1, <1>2, <1>10, <2>1, CallsStay, Places, PlacesNext
  <2> QED  BY <1>11, <2>2 DEF RoundOK, WayOK
<1>13. AnsweredOK'
  BY <1>1, <1>5, AnsweredStay DEF RoundOK
<1>14. \A k \in DOMAIN ack_queue \ {i} :
         ack_queue[k].type = "PINGRESP" /\ ack_queue[k] \in Asked(HandMsg)
         => ack_queue[k] \in Asked(HandMsg')
  BY <1>10
<1>15. (\A x \in Asked(HandMsg') : x \in Asked(HandMsg)) /\ (\A x \in Held' : x \in Held)
  BY <1>10, <1>11
<1> QED  BY <1>1, <1>2, <1>5, <1>6, <1>9, <1>12, <1>13, <1>14, <1>15, TakenRound

\* PUBREL: nobody but the stored publication waits for it.
LEMMA OnPubrelRound ==
  ASSUME CallbackInv, RoundOK, OnHandshake("PUBREL")
  PROVE  RoundOK'
<1>1. /\ tpc = "dispatch" /\ resp.type = "PUBREL" /\ tpc' \in {"reply", "top"}
      /\ UNCHANGED <<toClient, owed, toServer, send_queue, resp, answered>>
  BY DEF OnHandshake, ThreadStep, netVars, historyVars
<1>2. SameCalls
  BY DEF OnHandshake, SameCalls, callerVars, historyVars
<1>3. ~Asking(resp) /\ FromBroker(resp)
  BY <1>1 DEF RoundOK, KindsOK, FromBroker, AckTypes
<1>4. HandMsg = <<resp>> /\ HandMsg' = <<>> /\ SendMsg = <<>> /\ SendMsg' = <<>>
  BY <1>1 DEF HandMsg, SendMsg
<1>5. (\A x : x \notin Asked(HandMsg)) /\ (\A x : x \notin Asked(HandMsg'))
  BY <1>3, <1>4, AskedFew
<1>6. AnsweredOK'
  BY <1>1, AnsweredStay DEF RoundOK
<1>7. ~HoldsEntry /\ ~HoldsEntry'
  BY <1>1 DEF HoldsEntry
<1>8. CASE UNCHANGED ack_queue
  <2>1. Held' = Held
    BY <1>7, <1>8, HeldStays
  <2>2. Asked(HandMsg') = Asked(HandMsg)
    BY <1>5
  <2> QED  BY <1>1, <1>2, <1>3, <1>4, <1>6, <1>8, <2>1, <2>2, QuietRound
<1>9. CASE ~UNCHANGED ack_queue
  <2>1. PICK i \in First(Hits("PUBREL", resp.id)) : ack_queue' = RemoveAt(ack_queue, i)
    BY <1>9 DEF OnHandshake, remove_from_queue
  <2>2. i \in DOMAIN ack_queue /\ ack_queue[i].type = "PUBREL"
    BY DEF First, Hits
  <2>3. \A x : x \in Held <=> x \in ToSet(ack_queue)
    BY <1>7, HeldMember
  <2>4. \A x : x \in Held' <=> x \in ToSet(ack_queue')
    BY <1>7 DEF Held, HoldsEntry
  <2>5. ack_queue \in Seq(Entries)
    BY SeqTypes
  <2>6. (\A x \in Held' : x \in Held) /\ (\A x \in Held : x.type # "PUBREL" => x \in Held')
    BY <2>1, <2>2, <2>3, <2>4, <2>5, RemoveRange
  <2>7. \A a \in 1..7 : \A x \in Way'[a] : x \in Held'
    <3>1. QueuedMsgs' = QueuedMsgs
      BY <1>1, <1>2 DEF SameCalls, QueuedMsgs
    <3>2. \A a \in 1..7 : \A x \in Way'[a] : x \in Way[a]
      BY <1>1, <1>2, <1>4, <1>5, <3>1, CallsStay, Places, PlacesNext
    <3>3. \A x : x.type \in AckTypes => x.type # "PUBREL"
      BY DEF AckTypes
    <3> QED  BY <2>6, <3>2, <3>3 DEF RoundOK, WayOK
  <2> QED  BY <1>1, <1>2, <1>5, <1>6, <2>1, <2>2, <2>6, <2>7, TakenRound
<1> QED  BY <1>8, <1>9

-----------------------------------------------------------------------------
(* The replies of the session thread.                                      *)

\* A message is sent that is about no request.
LEMMA SentRound ==
  ASSUME CallbackInv, RoundOK, SameCalls, NEW m \in Messages, ~Asking(m), ToBroker(m),
         toServer' = Append(toServer, m),
         UNCHANGED <<ack_queue, toClient, owed, send_queue, answered>>,
         Asked(HandMsg') = Asked(HandMsg), Asked(SendMsg') = Asked(SendMsg),
         \A x \in Held : x \in Held', \A x \in Held' : x.ctx.kind \in Awaited => x \in Held,
         tpc' \in {"dispatch", "reply"} => FromBroker(resp'),
         tpc' = "reply" /\ resp'.type = "PUBREC" => waiting' = Expected(resp'),
         AnsweredOK'
  PROVE  RoundOK'
<1>1. QueuedMsgs' = QueuedMsgs /\ toServer \in Seq(Messages)
  BY SeqTypes DEF SameCalls, QueuedMsgs
<1>2. \A x : x \in Asked(toServer') <=> x \in Asked(toServer)
  BY <1>1, AskedAppend
<1>3. \A b \in 1..7 : Way'[b] = Way[b]
  <2>1. Asked(toServer') = Asked(toServer)
    BY <1>2
  <2> QED  BY <1>1, <2>1, CallsStay, Places, PlacesNext
<1>4. WayOK'
  <2>1. InOrder(Way')
    BY <1>3, Shrinks DEF RoundOK, WayOK
  <2>2. (\A a \in 1..7 : \A x \in Way[a] : x.type \in AckTypes /\ x \in Held)'
    BY <1>3 DEF RoundOK, WayOK
  <2>3. Sorted(toServer')
    BY <1>1, AskedAppend DEF RoundOK, WayOK
  <2>4. Sorted(toClient)' /\ Sorted(owed)' /\ Sorted(QueuedMsgs')
    BY <1>1 DEF RoundOK, WayOK, Sorted, Asking, Ahead
  <2>5. InOrder(Way)' /\ Sorted(QueuedMsgs)' /\ Sorted(toServer)'
    BY <2>1, <2>3, <2>4 DEF InOrder, Sorted
  <2>6. (tpc = "reply" /\ resp.type = "PUBREC" => waiting = Expected(resp))'
    BY DEF Expected, AckFor
  <2> QED  BY <2>2, <2>4, <2>5, <2>6 DEF WayOK
<1>5. KindsOK'
  <2>1. \A i \in DOMAIN toServer' : toServer'[i] = m \/ (i \in DOMAIN toServer /\ toServer'[i] = toServer[i])
    BY <1>1, EnqueueFacts
  <2>2. \A i \in DOMAIN toServer' : ToBroker(toServer'[i])
    BY <2>1 DEF RoundOK, KindsOK
  <2> QED  BY <2>2 DEF RoundOK, KindsOK, SameCalls, FromBroker, ToBroker, Asking
<1>6. CountersOK' /\ IdsOK'
  BY CountersStay, IdsStay DEF RoundOK
<1>7. PingsOK'
  <2>1. \A b \in 1..7 : \A x \in Way[b] : \E d \in 1..7 : x \in Way'[d]
    BY <1>3
  <2> QED  BY <2>1, PingsStay DEF RoundOK
<1> QED  BY <1>4, <1>5, <1>6, <1>7 DEF RoundOK

\* The request of a QoS 2 publication sets out a second time.
LEMMA PubrelSentRound ==
  ASSUME CallbackInv, RoundOK, tpc = "reply", resp.type = "PUBREC", Wire(resp.id) = resp.id, SameCalls,
         NEW m, m = Msg("PUBREL", 0, Wire(resp.id), resp.ctx),
         toServer' = Append(toServer, m), tpc' = "enqueue_waiting",
         waiting' = [waiting EXCEPT !.type = "PUBCOMP", !.id = resp.id],
         UNCHANGED <<ack_queue, toClient, owed, send_queue, answered>>
  PROVE  RoundOK'
<1> DEFINE e == Expected(resp)
           w == waiting'
<1>1. resp \in Messages /\ Asking(resp) /\ waiting = e
  BY DEF CallbackInv, IndInv, ThreadOK, RoundOK, KindsOK, FromBroker, AckTypes, WayOK
<1>2. e.type = "PUBREC" /\ e.id = resp.id /\ e.ctx = resp.ctx
  BY DEF Expected, AckFor
<1>3. w = [type |-> "PUBCOMP", id |-> resp.id, ctx |-> resp.ctx]
  BY <1>1 DEF Expected, AckFor
<1>4. /\ m \in Messages /\ m.type = "PUBREL" /\ m.id = resp.id /\ m.ctx = resp.ctx
      /\ Asking(m) /\ ToBroker(m) /\ Expected(m) = w
  <2>1. m \in Messages /\ m.type = "PUBREL" /\ m.id = resp.id /\ m.ctx = resp.ctx
    BY <1>1 DEF Msg, Messages, Replies
  <2>2. Asking(m)
    BY <1>1, <2>1 DEF Asking
  <2>3. Expected(m) = w
    BY <1>3, <2>1 DEF Expected, AckFor
  <2> QED  BY <2>1, <2>2, <2>3 DEF ToBroker
<1>5. /\ HandMsg = <<resp>> /\ HandMsg' = <<>> /\ SendMsg = <<>> /\ SendMsg' = <<>>
      /\ QueuedMsgs' = QueuedMsgs /\ toServer \in Seq(Messages)
  BY SeqTypes DEF HandMsg, SendMsg, QueuedMsgs, SameCalls
<1> HIDE DEF e, w
<1>6. /\ \A x : x \in Way[1] <=> x = e
      /\ \A x : x \notin Way'[1]
      /\ \A x : x \in Way'[4] <=> x \in Way[4] \/ x = w
  <2>1. \A x : x \in Way[1] <=> x = e
    BY <1>1, <1>5, AskedFew, Places DEF e
  <2>2. \A x : x \notin Way'[1]
    BY <1>5, AskedFew, PlacesNext
  <2>3. \A x : x \in Way'[4] <=> x \in Way[4] \/ x = w
    BY <1>4, <1>5, AskedAppend, Places, PlacesNext
  <2> QED  BY <2>1, <2>2, <2>3
<1>7. \A b \in 1..7 : b \notin {1, 4} => Way'[b] = Way[b]
  BY <1>5, CallsStay, Places, PlacesNext
<1>8. InOrder(Way)
  BY DEF RoundOK, WayOK
<1>9. e.ctx.kind # "ping" /\ e \in Held
  <2>1. e \in Way[1]
    BY <1>6
  <2>2. EntryOK(e) /\ e \in Held
    BY <2>1, OnWay DEF RoundOK
  <2> QED  BY <1>2, <2>2 DEF EntryOK
<1>10. ASSUME NEW b \in 2..7, NEW x \in Way[b]
       PROVE  Ahead(w.ctx, x.ctx) /\ Ahead(x.ctx, w.ctx) /\ x.ctx # e.ctx
  <2>1. Ahead(e.ctx, x.ctx)
    BY <1>6, <1>8, <1>10 DEF InOrder
  <2>2. w.ctx = e.ctx
    BY <1>2, <1>3
  <2> QED  BY <1>9, <2>1, <2>2 DEF Ahead
<1>11. \A b \in 1..7 : \A x \in Way'[b] : (b # 1 /\ x \in Way[b]) \/ (b = 4 /\ x = w)
  BY <1>6, <1>7
<1>12. InOrder(Way')
  <2>1. \A b \in 1..7 : \A x \in Way'[b] :
          (b < 4 => Ahead(x.ctx, w.ctx)) /\ (4 < b => Ahead(w.ctx, x.ctx))
    BY <1>10, <1>11
  <2>2. \A b \in 1..7 : \A x \in Way'[b] : x \in Way[b] \/ (b = 4 /\ x = w)
    BY <1>11
  <2>3. 4 \in 1..7
    OBVIOUS
  <2> HIDE DEF Way, InOrder
  <2> QED  BY <1>8, <2>1, <2>2, <2>3, Travel
<1>13. /\ \A x : x \in Held <=> x \in ToSet(ack_queue) \/ x = e
       /\ \A x : x \in Held' <=> x \in ToSet(ack_queue) \/ x = w
  <2>1. HoldsEntry /\ HoldsEntry'
    BY DEF HoldsEntry
  <2>2. \A x : x \in Held <=> x \in ToSet(ack_queue) \/ x = e
    BY <1>1, <2>1, HeldMember DEF e
  <2>3. \A x : x \in Held' <=> x \in ToSet(ack_queue) \/ x = w
    BY <2>1 DEF Held, HoldsEntry, w
  <2> QED  BY <2>2, <2>3
<1>14. ASSUME NEW b \in 1..7, NEW x \in Way'[b]  PROVE x.type \in AckTypes /\ x \in Held'
  <2>1. CASE x = w
    BY <1>3, <1>13, <2>1 DEF AckTypes
  <2>2. CASE b # 1 /\ x \in Way[b]
    <3>1. x.type \in AckTypes /\ x \in Held /\ x # e
      BY <1>10, <2>2 DEF RoundOK, WayOK
    <3> QED  BY <1>13, <3>1
  <2> QED  BY <1>11, <2>1, <2>2
<1>15. WayOK'
  <2>1. Sorted(toServer')
    <3>1. \A x \in Asked(toServer) : Ahead(x.ctx, m.ctx)
      BY <1>3, <1>4, <1>10, Places
    <3> QED  BY <1>4, <1>5, <3>1, AskedAppend DEF RoundOK, WayOK
  <2>2. Sorted(toClient)' /\ Sorted(owed)' /\ Sorted(QueuedMsgs')
    BY <1>5 DEF RoundOK, WayOK, Sorted, Asking, Ahead
  <2>3. InOrder(Way)' /\ Sorted(QueuedMsgs)' /\ Sorted(toServer)'
    BY <1>12, <2>1, <2>2 DEF InOrder, Sorted
  <2>4. (\A b \in 1..7 : \A x \in Way[b] : x.type \in AckTypes /\ x \in Held)'
    BY <1>14
  <2> QED  BY <2>2, <2>3, <2>4 DEF WayOK
<1>16. KindsOK'
  <2>1. \A i \in DOMAIN toServer' : toServer'[i] = m \/ (i \in DOMAIN toServer /\ toServer'[i] = toServer[i])
    BY <1>4, <1>5, EnqueueFacts
  <2>2. \A i \in DOMAIN toServer' : ToBroker(toServer'[i])
    BY <1>4, <2>1 DEF RoundOK, KindsOK
  <2> QED  BY <2>2 DEF RoundOK, KindsOK, SameCalls, FromBroker, ToBroker, Asking
<1>17. CountersOK' /\ IdsOK'
  <2>1. \A x \in Held' : \E f \in Held :
          f.id = x.id /\ f.ctx = x.ctx /\ (x.type \in AckTypes \/ x.type = f.type)
    BY <1>2, <1>3, <1>13 DEF AckTypes
  <2> QED  BY <2>1, CountersStay, IdsStay DEF RoundOK
<1>18. PingsOK'
  <2>1. Rising(ack_queue, "PINGRESP", "ping")'
    BY DEF RoundOK, PingsOK, Rising, About
  <2>2. ASSUME NEW j \in DOMAIN ack_queue, ack_queue[j].type = "PINGRESP"
        PROVE  \E a \in 1..7 : ack_queue[j] \in Way'[a]
    <3>1. PICK a \in 1..7 : ack_queue[j] \in Way[a]
      BY <2>2 DEF RoundOK, PingsOK
    <3>2. a # 1
      BY <1>2, <1>6, <2>2, <3>1
    <3> QED  BY <1>6, <1>7, <3>1, <3>2
  <2> QED  BY <2>1, <2>2 DEF PingsOK
<1>19. AnsweredOK'
  BY AnsweredStay DEF RoundOK
<1> QED  BY <1>15, <1>16, <1>17, <1>18, <1>19 DEF RoundOK

LEMMA ReplyRound ==
  ASSUME CallbackInv, RoundOK, PacketsOK, link = "up", link' = "up", Reply
  PROVE  RoundOK'
<1> DEFINE m == Msg(ReplyType, 0, Wire(resp.id), resp.ctx)
<1>1. /\ tpc = "reply" /\ toServer' = Append(toServer, m)
      /\ UNCHANGED <<ack_queue, toClient, owed, send_queue, answered, resp>>
  BY DEF Reply, ThreadStep, SendOk, SendFails, historyVars
<1>2. SameCalls
  BY DEF Reply, SameCalls, callerVars, historyVars
<1>3. resp \in Messages /\ PacketOK(resp) /\ Wire(resp.id) = resp.id
  BY <1>1 DEF CallbackInv, IndInv, ThreadOK, PacketsOK
<1>4. CASE resp.type = "PUBREC"
  <2>1. m = Msg("PUBREL", 0, Wire(resp.id), resp.ctx)
    BY <1>4 DEF ReplyType
  <2>2. tpc' = "enqueue_waiting" /\ waiting' = [waiting EXCEPT !.type = "PUBCOMP", !.id = resp.id]
    BY <1>4 DEF Reply, SendOk, SendFails
  <2> HIDE DEF m
  <2> QED  BY <1>1, <1>2, <1>3, <1>4, <2>1, <2>2, PubrelSentRound
<1>5. CASE resp.type # "PUBREC"
  <2>1. resp.ctx.kind \in SrvKinds
    BY <1>1, <1>3, <1>5 DEF PacketsOK, PacketOK, SrvKinds
  <2>2. /\ tpc' \in {"enqueue_waiting", "deliver"}
        /\ tpc' = "enqueue_waiting" => waiting' = [type |-> "PUBREL", id |-> resp.id, ctx |-> resp.ctx]
    BY <1>5 DEF Reply, SendOk, SendFails
  <2>3. m.type \in {"PUBCOMP", "PUBACK", "PUBREC"} /\ m.ctx = resp.ctx /\ m \in Messages
    <3>1. ReplyType \in {"PUBCOMP", "PUBACK", "PUBREC"}
      BY <1>5 DEF ReplyType
    <3> QED  BY <1>3, <3>1 DEF Msg, Messages, Replies
  <2> HIDE DEF m
  <2>4. ~Asking(m) /\ ToBroker(m) /\ ~Asking(resp)
    BY <2>1, <2>3 DEF Asking, ToBroker, Awaited, SrvKinds
  <2>5. HandMsg = <<>> /\ HandMsg' = <<>> /\ SendMsg = <<>> /\ SendMsg' = <<>>
    BY <1>1, <1>5, <2>2 DEF HandMsg, SendMsg
  <2>6. ~HoldsEntry /\ (HoldsEntry' => tpc' = "enqueue_waiting")
    BY <1>1, <1>5 DEF HoldsEntry
  <2>7. \A x : x \in Held <=> x \in ToSet(ack_queue)
    BY <2>6, HeldMember
  <2>8. \A x : x \in Held' <=> x \in ToSet(ack_queue) \/ (HoldsEntry' /\ x = waiting')
    BY <1>1 DEF Held, HoldsEntry
  <2>9. HoldsEntry' => waiting'.ctx.kind \notin Awaited
    BY <2>1, <2>2, <2>6 DEF Awaited, SrvKinds
  <2>10. (\A x \in Held : x \in Held') /\ (\A x \in Held' : x.ctx.kind \in Awaited => x \in Held)
    BY <2>7, <2>8, <2>9
  <2>11. AnsweredOK'
    BY <1>1, <2>2, AnsweredStay DEF RoundOK
  <2> QED  BY <1>1, <1>2, <2>2, <2>3, <2>4, <2>5, <2>10, <2>11, SentRound
<1> QED  BY <1>4, <1>5

LEMMA RequeueWaitingRound ==
  ASSUME CallbackInv, RoundOK, RequeueWaiting
  PROVE  RoundOK'
<1>1. /\ tpc = "enqueue_waiting" /\ tpc' = "top" /\ ack_queue' = Append(ack_queue, waiting)
      /\ UNCHANGED <<toClient, owed, toServer, send_queue, answered, resp>>
  BY DEF RequeueWaiting, ThreadStep, netVars, historyVars, enqueue
<1>2. SameCalls
  BY DEF RequeueWaiting, SameCalls, callerVars, historyVars
<1>3. ack_queue \in Seq(Entries) /\ waiting \in Entries /\ waiting.type \in {"PUBCOMP", "PUBREL"}
  BY <1>1, SeqTypes DEF CallbackInv, IndInv, ThreadOK, HandOK
<1>4. \A x : x \in Held' <=> x \in Held
  <2>1. HoldsEntry /\ ~HoldsEntry'
    BY <1>1 DEF HoldsEntry
  <2>2. \A x : x \in Held <=> x \in ToSet(ack_queue) \/ x = waiting
    BY <2>1, HeldMember
  <2>3. \A x : x \in Held' <=> x \in ToSet(ack_queue')
    BY <2>1 DEF Held, HoldsEntry
  <2>4. ToSet(ack_queue') = ToSet(ack_queue) \cup {waiting}
    BY <1>1, <1>3, AppendFacts
  <2> QED  BY <2>2, <2>3, <2>4
<1>5. /\ HandMsg = <<>> /\ HandMsg' = <<>> /\ SendMsg = <<>> /\ SendMsg' = <<>>
      /\ QueuedMsgs' = QueuedMsgs
  BY <1>1, <1>2 DEF HandMsg, SendMsg, QueuedMsgs, SameCalls
<1>6. \A b \in 1..7 : Way'[b] = Way[b]
  BY <1>1, <1>2, <1>5, CallsStay, Places, PlacesNext
<1>7. WayOK'
  <2>1. InOrder(Way')
    BY <1>6, Shrinks DEF RoundOK, WayOK
  <2>2. (\A a \in 1..7 : \A x \in Way[a] : x.type \in AckTypes /\ x \in Held)'
    BY <1>4, <1>6 DEF RoundOK, WayOK
  <2>3. Sorted(toClient)' /\ Sorted(owed)' /\ Sorted(toServer)' /\ Sorted(QueuedMsgs')
    BY <1>1, <1>5 DEF RoundOK, WayOK, Sorted, Asking, Ahead
  <2>4. InOrder(Way)' /\ Sorted(QueuedMsgs)'
    BY <2>1, <2>3 DEF InOrder, Sorted
  <2> QED  BY <1>1, <2>2, <2>3, <2>4 DEF WayOK
<1>8. KindsOK' /\ AnsweredOK'
  BY <1>1, <1>2, KindsStay, AnsweredStay DEF RoundOK, SameCalls
<1>9. CountersOK' /\ IdsOK'
  BY <1>2, <1>4, CountersStay, IdsStay DEF RoundOK
<1>10. PingsOK'
  <2>1. Rising(ack_queue', "PINGRESP", "ping")
    BY <1>1, <1>3, CarriedAppend DEF RoundOK, PingsOK
  <2>2. \A i \in DOMAIN ack_queue' :
          ack_queue'[i] = waiting \/ (i \in DOMAIN ack_queue /\ ack_queue'[i] = ack_queue[i])
    BY <1>1, <1>3, EnqueueFacts
  <2>3. \A i \in DOMAIN ack_queue' :
          ack_queue'[i].type = "PINGRESP" => \E a \in 1..7 : ack_queue'[i] \in Way'[a]
    BY <1>3, <1>6, <2>2 DEF RoundOK, PingsOK
  <2>4. Rising(ack_queue, "PINGRESP", "ping")'
    BY <2>1 DEF Rising, About
  <2> QED  BY <2>3, <2>4 DEF PingsOK
<1> QED  BY <1>7, <1>8, <1>9, <1>10 DEF RoundOK

-----------------------------------------------------------------------------
(* The one application thread.                                             *)

\* Where a call goes from each of its steps.
LEMMA Flow ==
  ASSUME CallbackInv, NEW c \in Callers, pc[c] \in CallerSteps, Advance(c)
  PROVE  /\ op[c].kind \in Kinds /\ op[c] = [kind |-> op[c].kind, n |-> op[c].n] /\ op[c].n \in Nat \ {0}
         /\ pc[c] = "get_slot" => pc'[c] = "make"
         /\ pc[c] = "make" =>
              pc'[c] = CASE op[c].kind = "pub0" -> "send"
                         [] op[c].kind \in {"ping", "pub1", "pub2"} -> "fill"
                         [] OTHER -> "load"
         /\ pc[c] = "fill" => pc'[c] = "wait"
         /\ pc[c] = "wait" => pc'[c] = IF op[c].kind \in Numbered THEN "load" ELSE "send"
         /\ pc[c] = "load" => pc'[c] = "store"
         /\ pc[c] = "store" => pc'[c] = IF op[c].kind \in Numbered THEN "send" ELSE "fill"
         /\ pc[c] = "send" => pc'[c] = "idle"
         /\ pc[c] \in {"load", "store"} => op[c].kind \in {"pub1", "pub2", "sub", "unsub"}
<1>1. /\ op[c].kind \in Kinds /\ pc[c] \in DOMAIN After(op[c].kind)
      /\ pc'[c] = After(op[c].kind)[pc[c]]
  BY DEF CallbackInv, IndInv, CallerOK, TypeOK, CallerTypeOK, Advance, Goto
<1>2. op[c] = [kind |-> op[c].kind, n |-> op[c].n] /\ op[c].n \in Nat \ {0}
  BY DEF CallbackInv, IndInv, TypeOK, CallerTypeOK, RequestsOK
<1>3. CASE op[c].kind = "ping"
  BY <1>1, <1>2, <1>3 DEF After, PingFlow, Numbered
<1>4. CASE op[c].kind = "pub0"
  BY <1>1, <1>2, <1>4 DEF After, PublishFlow, Qos, Numbered
<1>5. CASE op[c].kind \in {"pub1", "pub2"}
  BY <1>1, <1>2, <1>5 DEF After, PublishFlow, Qos, Numbered
<1>6. CASE op[c].kind \in {"sub", "unsub"}
  BY <1>1, <1>2, <1>6 DEF After, SubscribeFlow, UnsubscribeFlow, Numbered
<1> QED  BY <1>1, <1>3, <1>4, <1>5, <1>6 DEF Kinds

LEMMA Numbering ==
  ASSUME CallbackInv, RoundOK, Orderly, NEW c \in Callers
  PROVE  /\ \A k \in Kinds : calls[k] \in Nat /\ MaxCalls[k] \in Nat /\ calls[k] <= MaxCalls[k]
         /\ FirstId \in 0..255 /\ publish_packet_id \in Nat /\ CountsOK(c)
         /\ op[c].kind \in Numbered /\ Counting(c) => publish_packet_id \in 0..255
         /\ Subscribes(c) => publish_packet_id = FirstId
<1>1. \A k \in Kinds : calls[k] \in Nat /\ MaxCalls[k] \in Nat /\ calls[k] <= MaxCalls[k]
  BY BoundAssumption DEF CallbackInv, IndInv, TypeOK, HistoryTypeOK, RoundOK, CountersOK
<1>2. FirstId \in 0..255 /\ publish_packet_id \in Nat
  BY IdAssumption DEF Orderly, PacketIds, CallbackInv, IndInv, TypeOK, ClientTypeOK
<1>3. CountsOK(c)
  BY DEF RoundOK, CountersOK
<1>4. /\ calls["pub1"] \in Nat /\ calls["pub2"] \in Nat /\ MaxCalls["pub1"] \in Nat
      /\ MaxCalls["pub2"] \in Nat
      /\ calls["pub1"] <= MaxCalls["pub1"] /\ calls["pub2"] <= MaxCalls["pub2"]
  BY <1>1 DEF Kinds
<1>5. /\ FirstId + MaxCalls["pub1"] + MaxCalls["pub2"] <= 256
      /\ publish_packet_id + (IF Counting(c) THEN 1 ELSE 0) = FirstId + calls["pub1"] + calls["pub2"]
  BY <1>3 DEF Orderly, CountsOK
<1>6. Counting(c) => publish_packet_id \in 0..255
  BY <1>2, <1>4, <1>5
<1>7. Subscribes(c) => ~Counting(c) /\ calls["pub1"] = 0 /\ calls["pub2"] = 0
  BY <1>3 DEF CountsOK, Subscribes, Counting, Numbered
<1>8. Subscribes(c) => publish_packet_id = FirstId
  BY <1>2, <1>5, <1>7
<1> QED  BY <1>1, <1>2, <1>3, <1>6, <1>8

\* Steps of the caller that neither register nor queue anything.
LEMMA CallerRound ==
  ASSUME RoundOK, UNCHANGED <<ack_queue, tpc, resp, waiting, toClient, owed, toServer, answered>>,
         SendMsg' = SendMsg, QueuedMsgs' = QueuedMsgs, CallMsgs' = CallMsgs,
         KindsOK', CountersOK', IdsOK'
  PROVE  RoundOK'
<1>1. Held' = Held /\ HandMsg' = HandMsg
  BY DEF Held, HandMsg
<1>2. \A b \in 1..7 : Way'[b] = Way[b]
  BY <1>1, Places, PlacesNext
<1>3. WayOK'
  <2>1. InOrder(Way')
    BY <1>2, Shrinks DEF RoundOK, WayOK
  <2>2. (\A a \in 1..7 : \A x \in Way[a] : x.type \in AckTypes /\ x \in Held)'
    BY <1>1, <1>2 DEF RoundOK, WayOK
  <2>3. Sorted(toClient)' /\ Sorted(owed)' /\ Sorted(toServer)' /\ Sorted(QueuedMsgs')
    BY DEF RoundOK, WayOK, Sorted, Asking, Ahead
  <2>4. InOrder(Way)' /\ Sorted(QueuedMsgs)'
    BY <2>1, <2>3 DEF InOrder, Sorted
  <2>5. (tpc = "reply" /\ resp.type = "PUBREC" => waiting = Expected(resp))'
    BY DEF RoundOK, WayOK, Expected, AckFor
  <2> QED  BY <2>2, <2>3, <2>4, <2>5 DEF WayOK
<1>4. PingsOK'
  <2>1. \A b \in 1..7 : \A x \in Way[b] : \E d \in 1..7 : x \in Way'[d]
    BY <1>2
  <2> QED  BY <2>1, PingsStay DEF RoundOK
<1>5. AnsweredOK'
  BY DEF RoundOK, AnsweredOK, Asking
<1> QED  BY <1>3, <1>4, <1>5 DEF RoundOK

\* The identifiers in use, when nothing was registered.
LEMMA IdsKept ==
  ASSUME CallbackInv, RoundOK, Orderly, NEW c \in Callers, Held' = Held,
         publish_packet_id' \in Nat, publish_packet_id' >= publish_packet_id,
         publish_packet_id' = publish_packet_id =>
           (Counting(c) /\ Registered(c) => Counting(c)' /\ Registered(c)'),
         Subscribes(c)' => Subscribes(c) \/ \A e \in Held : e.ctx.kind # "sub"
  PROVE  IdsOK'
<1>1. \A d \in Callers : d = c
  BY DEF Orderly
<1>2. publish_packet_id \in Nat
  BY Numbering
<1> SUFFICES ASSUME NEW e \in Held, e.ctx.kind \in Awaited
             PROVE  /\ e.type \in AckTypes /\ e.id \in 0..255
                    /\ e.ctx.kind = "ping" => e.id = 0
                    /\ e.ctx.kind = "sub" => e.id = FirstId /\ ~Subscribes(c)'
                    /\ e.ctx.kind \in Numbered =>
                         /\ \/ e.id < publish_packet_id'
                            \/ e.id = publish_packet_id' /\ Counting(c)' /\ Registered(c)'
                         /\ \A f \in Held : f.ctx.kind \in Numbered /\ f.id = e.id => f.ctx = e.ctx
  BY <1>1 DEF IdsOK
<1>3. /\ e.type \in AckTypes /\ e.id \in 0..255
      /\ e.ctx.kind = "ping" => e.id = 0
      /\ e.ctx.kind = "sub" => e.id = FirstId /\ ~Subscribes(c)
      /\ e.ctx.kind \in Numbered =>
           /\ e.id < publish_packet_id \/ (e.id = publish_packet_id /\ Counting(c) /\ Registered(c))
           /\ \A f \in Held : f.ctx.kind \in Numbered /\ f.id = e.id => f.ctx = e.ctx
  BY <1>1 DEF RoundOK, IdsOK
<1>4. e.ctx.kind = "sub" => ~Subscribes(c)'
  BY <1>3
<1>5. e.ctx.kind \in Numbered =>
        e.id < publish_packet_id' \/ (e.id = publish_packet_id' /\ Counting(c)' /\ Registered(c)')
  BY <1>2, <1>3
<1> QED  BY <1>3, <1>4, <1>5

LEMMA OneCounts ==
  ASSUME Orderly, NEW c \in Callers, CountsOK(c)', \A k \in Kinds : calls'[k] <= MaxCalls[k]
  PROVE  CountersOK'
<1>1. \A d \in Callers : d = c
  BY DEF Orderly
<1> QED  BY <1>1 DEF CountersOK

LEMMA OneCallMsg ==
  ASSUME Orderly, NEW c \in Callers
  PROVE  /\ \A x : x \in CallMsgs <=> Registered(c) /\ x = Expected(buffer_slots[slot[c]])
         /\ \A x : x \in CallMsgs' <=> Registered(c)' /\ x = Expected(buffer_slots'[slot'[c]])
<1>1. \A d \in Callers : d = c
  BY DEF Orderly
<1>2. \A x : x \in CallMsgs <=> Registered(c) /\ x = Expected(buffer_slots[slot[c]])
  BY <1>1 DEF CallMsgs
<1>3. \A x : x \in CallMsgs' <=> Registered(c)' /\ x = Expected(buffer_slots'[slot'[c]])
  BY <1>1 DEF CallMsgs, Expected, AckFor
<1> QED  BY <1>2, <1>3

LEMMA CallRound ==
  ASSUME CallbackInv, RoundOK, Orderly, NEW c \in Callers, NEW k \in Kinds, Call(c, k)
  PROVE  RoundOK'
<1>1. /\ pc[c] = "idle" /\ pc'[c] = "get_slot" /\ calls[k] < MaxCalls[k] /\ MayCall(k)
      /\ op'[c] = [kind |-> k, n |-> calls[k] + 1] /\ calls' = [calls EXCEPT ![k] = @ + 1]
      /\ UNCHANGED <<ack_queue, tpc, resp, waiting, toClient, owed, toServer, answered, position,
                     send_queue, buffer_slots, publish_packet_id, subscribe_packet_id>>
  BY DEF Call, Usable, Goto, clientVars, threadVars, netVars, CallbackInv, IndInv, TypeOK, CallerTypeOK
<1>2. /\ \A j \in Kinds : calls[j] \in Nat /\ MaxCalls[j] \in Nat /\ calls[j] <= MaxCalls[j]
      /\ CountsOK(c) /\ publish_packet_id \in Nat /\ FirstId \in 0..255
  BY Numbering
<1>3. \A j \in Kinds : calls'[j] = IF j = k THEN calls[j] + 1 ELSE calls[j]
  BY <1>1, <1>2 DEF CallbackInv, IndInv, TypeOK, HistoryTypeOK
<1>4. /\ ~Counting(c) /\ (Counting(c)' <=> k \in Numbered) /\ ~Registered(c) /\ ~Registered(c)'
      /\ (Subscribes(c)' <=> k = "sub") /\ ~Waits(c)'
  BY <1>1 DEF Counting, Registered, Subscribes, Waits, CallerSteps
<1>5. k = "sub" => calls["sub"] = 0 /\ calls["pub1"] = 0 /\ calls["pub2"] = 0
  <2>1. ASSUME k = "sub"  PROVE MaxCalls["sub"] = 1 /\ SubscribeFirst /\ calls["sub"] \in Nat
    BY <1>1, <1>2, <2>1 DEF Orderly
  <2>2. ASSUME k = "sub"  PROVE calls["sub"] = 0
    BY <1>1, <2>1, <2>2
  <2> QED  BY <1>1, <2>1, <2>2 DEF MayCall
<1>6. CountsOK(c)'
  <2>1. /\ "pub1" \in Kinds /\ "pub2" \in Kinds /\ "sub" \in Kinds
        /\ Numbered = {"pub1", "pub2"}
    BY DEF Kinds, Numbered
  <2>2. op'[c].n = calls'[op'[c].kind]
    BY <1>1, <1>3
  <2>3. publish_packet_id = FirstId + calls["pub1"] + calls["pub2"]
    BY <1>2, <1>4 DEF CountsOK
  <2>4. publish_packet_id + (IF k \in Numbered THEN 1 ELSE 0) = FirstId + calls'["pub1"] + calls'["pub2"]
    BY <1>2, <1>3, <2>1, <2>3
  <2>5. k = "sub" => calls'["pub1"] = 0 /\ calls'["pub2"] = 0
    BY <1>3, <1>5, <2>1
  <2>6. calls'["sub"] = 0 \/ k = "sub" => calls["sub"] = 0
    BY <1>2, <1>3, <1>5, <2>1
  <2>7. MaxCalls["sub"] # 0 /\ (calls'["sub"] = 0 \/ k = "sub") => subscribe_packet_id = FirstId
    BY <1>2, <2>6 DEF CountsOK
  <2> QED  BY <1>1, <1>4, <2>2, <2>4, <2>5, <2>7 DEF CountsOK
<1>7. CountersOK'
  <2>1. \A j \in Kinds : calls'[j] <= MaxCalls[j]
    BY <1>1, <1>2, <1>3
  <2> QED  BY <1>6, <2>1, OneCounts
<1>8. Held' = Held /\ SendMsg' = SendMsg /\ QueuedMsgs' = QueuedMsgs
  BY <1>1 DEF Held, SendMsg, QueuedMsgs
<1>9. IdsOK'
  <2>1. k = "sub" => \A e \in Held : e.ctx.kind # "sub"
    <3> SUFFICES ASSUME k = "sub", NEW e \in Held, e.ctx.kind = "sub"  PROVE FALSE
      OBVIOUS
    <3>1. e.type \in AckTypes
      BY DEF RoundOK, IdsOK, Awaited
    <3>2. e.ctx.n \in 1..calls["sub"]
      BY <3>1, HeldEntry DEF EntryOK
    <3> QED  BY <1>5, <3>2
  <2>2. publish_packet_id' \in Nat /\ publish_packet_id' >= publish_packet_id
    BY <1>1, <1>2
  <2>3. Subscribes(c)' => Subscribes(c) \/ \A e \in Held : e.ctx.kind # "sub"
    BY <1>4, <2>1
  <2> QED  BY <1>4, <1>8, <2>2, <2>3, IdsKept
<1>10. KindsOK'
  BY <1>1, KindsStay DEF RoundOK, KindsOK
<1>11. CallMsgs' = CallMsgs
  BY <1>4, OneCallMsg
<1> QED  BY <1>1, <1>7, <1>8, <1>9, <1>10, <1>11, CallerRound

LEMMA GetBufferSlotRound ==
  ASSUME CallbackInv, RoundOK, Orderly, NEW c \in Callers, GetBufferSlot(c)
  PROVE  RoundOK'
<1>1. /\ pc[c] = "get_slot"
      /\ UNCHANGED <<ack_queue, tpc, resp, waiting, toClient, owed, toServer, answered, position, op,
                     send_queue, buffer_slots, publish_packet_id, subscribe_packet_id, calls>>
  BY DEF GetBufferSlot, threadVars, netVars, historyVars
<1>2. pc'[c] \in {"get_slot", "make"}
  <2>1. CASE UNCHANGED pc
    BY <1>1, <2>1
  <2>2. CASE Advance(c)
    BY <1>1, <2>2, Flow DEF CallerSteps
  <2> QED  BY <2>1, <2>2 DEF GetBufferSlot
<1>3. /\ (Counting(c)' <=> Counting(c)) /\ ~Registered(c) /\ ~Registered(c)'
      /\ (Subscribes(c)' <=> Subscribes(c)) /\ ~Waits(c)'
  BY <1>1, <1>2 DEF Counting, Registered, Subscribes, Waits, CallerSteps
<1>4. /\ \A j \in Kinds : calls[j] <= MaxCalls[j]
      /\ CountsOK(c) /\ publish_packet_id \in Nat
  BY Numbering
<1>5. CountsOK(c)'
  BY <1>1, <1>2, <1>3, <1>4 DEF CountsOK, CallerSteps
<1>6. Held' = Held /\ SendMsg' = SendMsg /\ QueuedMsgs' = QueuedMsgs
  BY <1>1 DEF Held, SendMsg, QueuedMsgs
<1>7. publish_packet_id' \in Nat /\ publish_packet_id' >= publish_packet_id
  BY <1>1, <1>4
<1>8. CountersOK' /\ IdsOK'
  BY <1>1, <1>3, <1>4, <1>5, <1>6, <1>7, OneCounts, IdsKept
<1>9. KindsOK'
  BY <1>1, KindsStay DEF RoundOK, KindsOK
<1>10. CallMsgs' = CallMsgs
  BY <1>3, OneCallMsg
<1> QED  BY <1>1, <1>6, <1>8, <1>9, <1>10, CallerRound

\* What a call serialises is what it will wait for: the two uses of the
\* counters agree.
LEMMA RequestAsks ==
  ASSUME CallbackInv, RoundOK, Orderly, NEW c \in Callers, pc[c] = "make"
  PROVE  /\ ToBroker(RequestFor(op[c]))
         /\ op[c].kind \in Awaited => Expected(RequestFor(op[c])) = WaitingFor(op[c])
<1>1. op[c].kind \in Kinds /\ op[c].n >= 1 /\ op[c].n \in Nat /\ pc[c] \in CallerSteps \ {"send"}
  BY DEF CallbackInv, IndInv, TypeOK, CallerTypeOK, RequestsOK, CallerSteps
<1>2. /\ \A k \in Kinds : calls[k] \in Nat /\ MaxCalls[k] \in Nat /\ calls[k] <= MaxCalls[k]
      /\ FirstId \in 0..255 /\ CountsOK(c)
      /\ op[c].kind \in Numbered /\ Counting(c) => publish_packet_id \in 0..255
      /\ Subscribes(c) => publish_packet_id = FirstId
  BY Numbering
<1>3. CASE op[c].kind \in {"ping", "pub0", "unsub"}
  BY <1>3 DEF RequestFor, WaitingFor, Msg, Expected, AckFor, ToBroker, Asking, Awaited, Qos
<1>4. CASE op[c].kind \in {"pub1", "pub2"}
  <2>1. publish_packet_id \in 0..255
    BY <1>1, <1>2, <1>4 DEF Counting, Numbered
  <2>2. Wire(publish_packet_id) = publish_packet_id
    BY <2>1 DEF Wire
  <2> QED  BY <1>4, <2>2
           DEF RequestFor, WaitingFor, Msg, Expected, AckFor, ToBroker, Asking, Awaited, Qos
<1>5. CASE op[c].kind = "sub"
  <2>1. publish_packet_id = FirstId
    BY <1>1, <1>2, <1>5 DEF Subscribes
  <2>2. calls["sub"] >= 1 /\ calls["sub"] \in Nat /\ MaxCalls["sub"] \in Nat
        /\ calls["sub"] <= MaxCalls["sub"]
    BY <1>1, <1>2, <1>5 DEF CountsOK, Kinds
  <2>3. subscribe_packet_id = FirstId
    BY <1>2, <1>5, <2>2 DEF CountsOK
  <2>4. Wire(subscribe_packet_id) = publish_packet_id
    BY <1>2, <2>1, <2>3 DEF Wire
  <2> QED  BY <1>5, <2>4
           DEF RequestFor, WaitingFor, Msg, Expected, AckFor, ToBroker, Asking, Awaited, Qos
<1> QED  BY <1>1, <1>3, <1>4, <1>5 DEF Kinds

LEMMA MakeMessageRound ==
  ASSUME CallbackInv, RoundOK, Orderly, NEW c \in Callers, MakeMessage(c)
  PROVE  RoundOK'
<1>1. /\ pc[c] = "make" /\ Advance(c)
      /\ UNCHANGED <<ack_queue, tpc, resp, waiting, toClient, owed, toServer, answered, position, op,
                     slot, send_queue, publish_packet_id, subscribe_packet_id, calls>>
      /\ buffer_slots' = [buffer_slots EXCEPT ![slot[c]] = RequestFor(op[c])]
  BY DEF MakeMessage, threadVars, netVars, historyVars
<1>2. /\ op[c].kind \in Kinds
      /\ pc'[c] = CASE op[c].kind = "pub0" -> "send"
                    [] op[c].kind \in {"ping", "pub1", "pub2"} -> "fill"
                    [] OTHER -> "load"
  BY <1>1, Flow DEF CallerSteps
<1>3. /\ (Counting(c)' <=> Counting(c)) /\ ~Registered(c) /\ ~Registered(c)'
      /\ (Subscribes(c)' <=> Subscribes(c)) /\ pc'[c] \notin {"get_slot", "make", "store", "wait"}
      /\ Waits(c)' => op[c].kind \in Awaited
  BY <1>1, <1>2 DEF Counting, Registered, Subscribes, Waits, CallerSteps, Numbered, Awaited
<1>4. /\ slot[c] \in Slots /\ slot[c] \notin ToSet(send_queue) /\ slot[c] # position
      /\ buffer_slots \in [Slots -> Messages \cup {NoMsg}]
  BY <1>1 DEF CallbackInv, IndInv, TypeOK, CallerTypeOK, ClientTypeOK, CallerOK, Holding, SlotOwnership
<1>5. /\ buffer_slots'[slot[c]] = RequestFor(op[c])
      /\ \A s \in Slots : s # slot[c] => buffer_slots'[s] = buffer_slots[s]
  BY <1>1, <1>4
<1>6. /\ ToBroker(RequestFor(op[c]))
      /\ op[c].kind \in Awaited => Expected(RequestFor(op[c])) = WaitingFor(op[c])
  BY <1>1, RequestAsks
<1>7. /\ \A j \in Kinds : calls[j] <= MaxCalls[j]
      /\ CountsOK(c) /\ publish_packet_id \in Nat
  BY Numbering
<1>8. CountsOK(c)'
  <2>1. Waits(c)' => Expected(buffer_slots[slot[c]])' = WaitingFor(op[c])'
    <3>1. WaitingFor(op[c])' = WaitingFor(op[c])
      BY <1>1 DEF WaitingFor
    <3>2. Expected(buffer_slots[slot[c]])' = Expected(RequestFor(op[c]))
      BY <1>1, <1>5 DEF Expected, AckFor
    <3> QED  BY <1>3, <1>6, <3>1, <3>2
  <2>2. (pc[c] \in CallerSteps => op[c].n = calls[op[c].kind])'
    BY <1>1, <1>7 DEF CountsOK, CallerSteps
  <2> QED  BY <1>1, <1>3, <1>7, <2>1, <2>2 DEF CountsOK
<1>9. QueuedMsgs' = QueuedMsgs
  <2>1. send_queue \in Seq(Slots)
    BY SeqTypes
  <2>2. \A i \in DOMAIN send_queue : send_queue[i] \in Slots /\ send_queue[i] # slot[c]
    BY <1>4, <2>1 DEF ToSet
  <2> QED  BY <1>1, <1>5, <2>2 DEF QueuedMsgs
<1>10. Held' = Held /\ SendMsg' = SendMsg
  <2>1. tpc = "send" => buffer_slots'[position] = buffer_slots[position]
    BY <1>4, <1>5 DEF CallbackInv, IndInv, ThreadOK, TypeOK, ThreadTypeOK
  <2> QED  BY <1>1, <2>1 DEF Held, SendMsg
<1>11. publish_packet_id' \in Nat /\ publish_packet_id' >= publish_packet_id
  BY <1>1, <1>7
<1>12. CountersOK' /\ IdsOK'
  BY <1>1, <1>3, <1>7, <1>8, <1>10, <1>11, OneCounts, IdsKept
<1>13. KindsOK'
  <2>1. \A s \in Slots : buffer_slots'[s] # NoMsg => ToBroker(buffer_slots'[s])
    BY <1>5, <1>6 DEF RoundOK, KindsOK
  <2> QED  BY <1>1, <2>1 DEF RoundOK, KindsOK, FromBroker, ToBroker, Asking
<1>14. CallMsgs' = CallMsgs
  BY <1>3, OneCallMsg
<1> QED  BY <1>1, <1>9, <1>10, <1>12, <1>13, <1>14, CallerRound

LEMMA FillWaitingRound ==
  ASSUME CallbackInv, RoundOK, Orderly, NEW c \in Callers, FillWaiting(c)
  PROVE  RoundOK'
<1>1. /\ pc[c] = "fill" /\ Advance(c) /\ entry' = [entry EXCEPT ![c] = WaitingFor(op[c])]
      /\ UNCHANGED <<ack_queue, tpc, resp, waiting, toClient, owed, toServer, answered, position, op,
                     slot, send_queue, buffer_slots, publish_packet_id, subscribe_packet_id, calls>>
  BY DEF FillWaiting, clientVars, threadVars, netVars, historyVars
<1>2. pc'[c] = "wait"
  BY <1>1, Flow DEF CallerSteps
<1>3. entry'[c] = WaitingFor(op[c]) /\ WaitingFor(op[c])' = WaitingFor(op[c])
  BY <1>1 DEF CallbackInv, IndInv, TypeOK, CallerTypeOK, WaitingFor
<1>4. /\ (Counting(c)' <=> Counting(c)) /\ ~Registered(c) /\ ~Registered(c)'
      /\ (Subscribes(c)' <=> Subscribes(c)) /\ (Waits(c)' <=> Waits(c))
  BY <1>1, <1>2 DEF Counting, Registered, Subscribes, Waits, CallerSteps
<1>5. /\ \A j \in Kinds : calls[j] <= MaxCalls[j]
      /\ CountsOK(c) /\ publish_packet_id \in Nat
  BY Numbering
<1>6. CountsOK(c)'
  <2>1. Expected(buffer_slots[slot[c]])' = Expected(buffer_slots[slot[c]])
    BY <1>1 DEF Expected, AckFor
  <2> QED  BY <1>1, <1>2, <1>3, <1>4, <1>5, <2>1 DEF CountsOK, CallerSteps
<1>7. Held' = Held /\ SendMsg' = SendMsg /\ QueuedMsgs' = QueuedMsgs
  BY <1>1 DEF Held, SendMsg, QueuedMsgs
<1>8. publish_packet_id' \in Nat /\ publish_packet_id' >= publish_packet_id
  BY <1>1, <1>5
<1>9. CountersOK' /\ IdsOK'
  BY <1>1, <1>4, <1>5, <1>6, <1>7, <1>8, OneCounts, IdsKept
<1>10. KindsOK'
  BY <1>1, KindsStay DEF RoundOK, KindsOK
<1>11. CallMsgs' = CallMsgs
  BY <1>4, OneCallMsg
<1> QED  BY <1>1, <1>7, <1>9, <1>10, <1>11, CallerRound

LEMMA LoadPacketIdRound ==
  ASSUME CallbackInv, RoundOK, Orderly, NEW c \in Callers, LoadPacketId(c)
  PROVE  RoundOK'
<1>1. /\ pc[c] = "load" /\ Advance(c)
      /\ loaded' = [loaded EXCEPT ![c] = IF Subscribing(c) THEN subscribe_packet_id ELSE publish_packet_id]
      /\ UNCHANGED <<ack_queue, tpc, resp, waiting, toClient, owed, toServer, answered, position, op,
                     slot, entry, send_queue, buffer_slots, publish_packet_id, subscribe_packet_id, calls>>
  BY DEF LoadPacketId, clientVars, threadVars, netVars, historyVars
<1>2. pc'[c] = "store"
  BY <1>1, Flow DEF CallerSteps
<1>3. Counting(c)' => loaded'[c] = publish_packet_id
  BY <1>1 DEF CallbackInv, IndInv, TypeOK, CallerTypeOK, Counting, Numbered, Subscribing
<1>4. /\ (Counting(c)' <=> Counting(c)) /\ (Registered(c)' <=> Registered(c))
      /\ (Subscribes(c)' <=> Subscribes(c)) /\ (Waits(c)' <=> Waits(c))
  BY <1>1, <1>2 DEF Counting, Registered, Subscribes, Waits, CallerSteps
<1>5. /\ \A j \in Kinds : calls[j] <= MaxCalls[j]
      /\ CountsOK(c) /\ publish_packet_id \in Nat
  BY Numbering
<1>6. CountsOK(c)'
  <2>1. Expected(buffer_slots[slot[c]])' = Expected(buffer_slots[slot[c]])
    BY <1>1 DEF Expected, AckFor
  <2>2. WaitingFor(op[c])' = WaitingFor(op[c])
    BY <1>1 DEF WaitingFor
  <2> QED  BY <1>1, <1>2, <1>3, <1>4, <1>5, <2>1, <2>2 DEF CountsOK, CallerSteps
<1>7. Held' = Held /\ SendMsg' = SendMsg /\ QueuedMsgs' = QueuedMsgs
  BY <1>1 DEF Held, SendMsg, QueuedMsgs
<1>8. publish_packet_id' \in Nat /\ publish_packet_id' >= publish_packet_id
  BY <1>1, <1>5
<1>9. CountersOK' /\ IdsOK'
  BY <1>1, <1>4, <1>5, <1>6, <1>7, <1>8, OneCounts, IdsKept
<1>10. KindsOK'
  BY <1>1, KindsStay DEF RoundOK, KindsOK
<1>11. CallMsgs' = CallMsgs
  BY <1>1, <1>4, OneCallMsg
<1> QED  BY <1>1, <1>7, <1>9, <1>10, <1>11, CallerRound

LEMMA StorePacketIdRound ==
  ASSUME CallbackInv, RoundOK, Orderly, NEW c \in Callers, StorePacketId(c)
  PROVE  RoundOK'
<1>1. /\ pc[c] = "store" /\ Advance(c)
      /\ IF Subscribing(c)
         THEN subscribe_packet_id' = Bump(loaded[c]) /\ UNCHANGED publish_packet_id
         ELSE publish_packet_id' = Bump(loaded[c]) /\ UNCHANGED subscribe_packet_id
      /\ UNCHANGED <<ack_queue, tpc, resp, waiting, toClient, owed, toServer, answered, position, op,
                     slot, entry, loaded, send_queue, buffer_slots, calls>>
  BY DEF StorePacketId, threadVars, netVars, historyVars
<1>2. /\ op[c].kind \in {"pub1", "pub2", "sub", "unsub"} /\ op[c].n >= 1 /\ op[c].n \in Nat
      /\ pc'[c] = IF op[c].kind \in Numbered THEN "send" ELSE "fill"
  <2>1. /\ op[c].kind \in {"pub1", "pub2", "sub", "unsub"} /\ op[c].n \in Nat \ {0}
        /\ pc'[c] = IF op[c].kind \in Numbered THEN "send" ELSE "fill"
    BY <1>1, Flow DEF CallerSteps
  <2> QED  BY <2>1
<1>3. /\ \A j \in Kinds : calls[j] \in Nat /\ MaxCalls[j] \in Nat /\ calls[j] <= MaxCalls[j]
      /\ FirstId \in 0..255 /\ CountsOK(c) /\ publish_packet_id \in Nat
      /\ op[c].kind \in Numbered /\ Counting(c) => publish_packet_id \in 0..255
  BY Numbering
<1>4. /\ (Registered(c)' <=> Registered(c)) /\ (Subscribes(c)' <=> Subscribes(c))
      /\ Waits(c)' <=> Waits(c)
  BY <1>1, <1>2 DEF Registered, Subscribes, Waits, CallerSteps, Numbered, Awaited
<1>5. Held' = Held /\ SendMsg' = SendMsg /\ QueuedMsgs' = QueuedMsgs
  BY <1>1 DEF Held, SendMsg, QueuedMsgs
<1>6. CallMsgs' = CallMsgs
  BY <1>1, <1>4, OneCallMsg
<1>7. KindsOK'
  BY <1>1, KindsStay DEF RoundOK, KindsOK
<1>8. Expected(buffer_slots[slot[c]])' = Expected(buffer_slots[slot[c]])
  BY <1>1 DEF Expected, AckFor
<1>9. CASE op[c].kind \in Numbered
  <2>1. Counting(c) /\ ~Counting(c)' /\ ~Waits(c) /\ ~Subscribes(c)
    BY <1>1, <1>2, <1>9 DEF Counting, CallerSteps, Waits, Subscribes, Numbered
  <2>2. loaded[c] = publish_packet_id /\ publish_packet_id \in 0..255
    BY <1>1, <1>3, <1>9, <2>1 DEF CountsOK
  <2>3. publish_packet_id' = publish_packet_id + 1 /\ UNCHANGED subscribe_packet_id
    <3>1. ~Subscribing(c)
      BY <1>9 DEF Subscribing, Numbered
    <3>2. \A i \in 0..255 : Bump(i) = i + 1
      BY DEF Bump, MaxId
    <3> QED  BY <1>1, <2>2, <3>1, <3>2
  <2>4. CountsOK(c)'
    <3>1. publish_packet_id' + 0 = FirstId + calls["pub1"] + calls["pub2"]
      BY <1>3, <2>1, <2>2, <2>3 DEF CountsOK
    <3> QED  BY <1>1, <1>2, <1>3, <1>4, <1>9, <2>1, <2>3, <3>1 DEF CountsOK, CallerSteps, Numbered
  <2>5. /\ publish_packet_id' \in Nat /\ publish_packet_id' >= publish_packet_id
        /\ publish_packet_id' # publish_packet_id
    BY <2>2, <2>3
  <2>6. CountersOK' /\ IdsOK'
    BY <1>1, <1>3, <1>4, <1>5, <2>4, <2>5, OneCounts, IdsKept
  <2> QED  BY <1>1, <1>5, <1>6, <1>7, <2>6, CallerRound
<1>10. CASE op[c].kind \notin Numbered
  <2>1. op[c].kind \in {"sub", "unsub"} /\ pc'[c] = "fill" /\ UNCHANGED publish_packet_id
    BY <1>1, <1>2, <1>10 DEF Numbered, Subscribing
  <2>2. ~Counting(c) /\ ~Counting(c)' /\ ~Registered(c)
    BY <1>1, <1>10, <2>1 DEF Counting, Registered, Awaited
  <2>3. MaxCalls["sub"] # 0 => calls["sub"] # 0
    <3>1. op[c].n = calls[op[c].kind] /\ op[c].kind \in Kinds
      BY <1>1, <1>3, <2>1 DEF CountsOK, CallerSteps, Kinds
    <3>2. CASE op[c].kind = "sub"
      BY <1>2, <3>1, <3>2
    <3>3. CASE op[c].kind = "unsub"
      <4>1. MaxCalls["unsub"] # 0
        BY <1>2, <1>3, <3>1, <3>3
      <4> QED  BY <4>1 DEF Orderly
    <3> QED  BY <2>1, <3>2, <3>3
  <2>4. WaitingFor(op[c])' = WaitingFor(op[c])
    BY <1>1, <2>1 DEF WaitingFor
  <2>5. CountsOK(c)'
    BY <1>1, <1>3, <1>4, <1>8, <2>1, <2>2, <2>3, <2>4 DEF CountsOK, CallerSteps
  <2>6. publish_packet_id' \in Nat /\ publish_packet_id' >= publish_packet_id
    BY <1>3, <2>1
  <2>7. CountersOK' /\ IdsOK'
    BY <1>1, <1>3, <1>4, <1>5, <2>2, <2>5, <2>6, OneCounts, IdsKept
  <2> QED  BY <1>1, <1>5, <1>6, <1>7, <2>7, CallerRound
<1> QED  BY <1>9, <1>10

\* What an unregistered call waits for is not waited for yet.
LEMMA NotHeld ==
  ASSUME CallbackInv, RoundOK, NEW c \in Callers, pc[c] = "wait", op[c].kind \in Awaited,
         NEW x \in Held, x.type \in AckTypes
  PROVE  x.ctx # op[c]
<1>1. CASE op[c].kind = "sub"
  <2>1. Subscribes(c)
    BY <1>1 DEF Subscribes, CallerSteps
  <2> QED  BY <1>1, <2>1 DEF RoundOK, IdsOK, Awaited
<1>2. CASE op[c].kind # "sub"
  <2>1. op[c].kind \in Once /\ Unregistered(c)
    BY <1>2 DEF Awaited, Once, Unregistered
  <2>2. Unknown(op[c]) /\ (InHand => waiting.ctx # op[c])
    BY <2>1 DEF CallbackInv, OnePlace
  <2>3. CASE x \in ToSet(ack_queue)
    <3>1. PICK i \in DOMAIN ack_queue : x = ack_queue[i]
      BY <2>3 DEF ToSet
    <3> QED  BY <2>1, <2>2, <3>1 DEF Unknown, Registers, AckTypes
  <2>4. CASE HoldsEntry /\ x = waiting
    <3>1. InHand
      BY <2>4 DEF HoldsEntry, InHand, AckTypes
    <3> QED  BY <2>2, <2>4, <3>1
  <2> QED  BY <2>3, <2>4, HeldMember
<1> QED  BY <1>1, <1>2

\* The call is registered: its entry joins ack_queue, its request the way.
LEMMA EnqueueWaitingRound ==
  ASSUME CallbackInv, RoundOK, Orderly, NEW c \in Callers, EnqueueWaiting(c)
  PROVE  RoundOK'
<1> DEFINE e == entry[c]
<1>1. /\ pc[c] = "wait" /\ Advance(c) /\ ack_queue' = Append(ack_queue, e)
      /\ UNCHANGED <<tpc, resp, waiting, toClient, owed, toServer, answered, position, op, entry, loaded,
                     slot, send_queue, buffer_slots, publish_packet_id, subscribe_packet_id, calls>>
  BY DEF EnqueueWaiting, threadVars, netVars, historyVars, enqueue
<1>2. /\ op[c].kind \in Kinds /\ op[c] = [kind |-> op[c].kind, n |-> op[c].n] /\ op[c].n \in Nat
      /\ pc'[c] = IF op[c].kind \in Numbered THEN "load" ELSE "send"
  BY <1>1, Flow DEF CallerSteps
<1>3. e \in Entries /\ e.ctx = op[c] /\ EntryOK(e) /\ ack_queue \in Seq(Entries)
  BY <1>1, SeqTypes DEF CallbackInv, IndInv, CallerOK, RequestsOK
<1>4. /\ \A j \in Kinds : calls[j] \in Nat /\ calls[j] <= MaxCalls[j]
      /\ FirstId \in 0..255 /\ CountsOK(c) /\ publish_packet_id \in Nat
      /\ op[c].kind \in Numbered /\ Counting(c) => publish_packet_id \in 0..255
      /\ Subscribes(c) => publish_packet_id = FirstId
  BY Numbering
<1>5. /\ (Counting(c)' <=> Counting(c)) /\ (Counting(c) <=> op[c].kind \in Numbered)
      /\ ~Registered(c) /\ (Registered(c)' <=> op[c].kind \in Awaited)
      /\ (Subscribes(c) <=> op[c].kind = "sub") /\ ~Subscribes(c)'
      /\ (Waits(c) <=> op[c].kind \in Awaited) /\ ~Waits(c)'
  BY <1>1, <1>2 DEF Counting, Registered, Subscribes, Waits, CallerSteps, Numbered, Awaited
<1>6. op[c].kind \in Awaited => e = Expected(buffer_slots[slot[c]]) /\ e = WaitingFor(op[c])
  BY <1>1, <1>4, <1>5 DEF CountsOK
<1>7. CountersOK'
  <2>1. CountsOK(c)'
    BY <1>1, <1>2, <1>4, <1>5 DEF CountsOK, CallerSteps
  <2> QED  BY <1>1, <1>4, <2>1, OneCounts
<1> HIDE DEF e
<1>8. \A x : x \in Held' <=> x \in Held \/ x = e
  <2>1. HoldsEntry' <=> HoldsEntry
    BY <1>1 DEF HoldsEntry
  <2>2. \A x : x \in Held' <=> x \in ToSet(ack_queue') \/ (HoldsEntry' /\ x = waiting')
    BY DEF Held, HoldsEntry
  <2>3. ToSet(ack_queue') = ToSet(ack_queue) \cup {e}
    BY <1>1, <1>3, AppendFacts
  <2> QED  BY <1>1, <2>1, <2>2, <2>3, HeldMember
<1>9. /\ \A b \in 1..6 : Way'[b] = Way[b]
      /\ \A x : x \notin Way[7]
      /\ \A x : x \in Way'[7] <=> op[c].kind \in Awaited /\ x = e
  <2>1. HandMsg' = HandMsg /\ SendMsg' = SendMsg /\ QueuedMsgs' = QueuedMsgs
    BY <1>1 DEF HandMsg, SendMsg, QueuedMsgs
  <2>2. \A b \in 1..6 : Way'[b] = Way[b]
    BY <1>1, <2>1, Places, PlacesNext
  <2>3. \A x : x \notin Way[7]
    BY <1>5, OneCallMsg, Places
  <2>4. \A x : x \in Way'[7] <=> op[c].kind \in Awaited /\ x = e
    <3>1. Expected(buffer_slots'[slot'[c]]) = Expected(buffer_slots[slot[c]])
      BY <1>1
    <3> QED  BY <1>5, <1>6, <3>1, OneCallMsg, PlacesNext
  <2> QED  BY <2>2, <2>3, <2>4
\* A registered ping was made before this one.
<1>10. ASSUME op[c].kind \in Awaited, NEW x \in Held, x.type \in AckTypes
       PROVE  Ahead(x.ctx, e.ctx)
  <2>1. x.ctx # op[c]
    BY <1>1, <1>10, NotHeld
  <2>2. x \in Entries /\ EntryOK(x)
    BY <1>10, HeldEntry
  <2>3. ASSUME x.ctx.kind = "ping", op[c].kind = "ping"  PROVE x.ctx.n < op[c].n
    <3>1. x.ctx.n \in 1..calls["ping"] /\ op[c].n = calls["ping"] /\ calls["ping"] \in Nat
      BY <1>1, <1>2, <1>4, <2>2, <2>3 DEF EntryOK, CountsOK, CallerSteps
    <3>2. x.ctx = [kind |-> x.ctx.kind, n |-> x.ctx.n]
      BY <2>2 DEF Entries, Contexts
    <3>3. x.ctx.n # op[c].n
      BY <1>2, <2>1, <2>3, <3>2
    <3> QED  BY <3>1, <3>3
  <2> QED  BY <1>3, <2>1, <2>3 DEF Ahead
<1>11. WayOK'
  <2>0. InOrder(Way)
    BY DEF RoundOK, WayOK
  <2>1. InOrder(Way')
    <3>1. \A b \in 1..7 : \A x \in Way'[b] : x \in Way[b] \/ (b = 7 /\ x = e)
      BY <1>9
    <3>2. CASE op[c].kind \in Awaited
      <4>1. \A b \in 1..7 : \A x \in Way'[b] :
              (b < 7 => Ahead(x.ctx, e.ctx)) /\ (7 < b => Ahead(e.ctx, x.ctx))
        BY <1>9, <1>10, <3>2 DEF RoundOK, WayOK
      <4>2. 7 \in 1..7
        OBVIOUS
      <4> HIDE DEF Way, InOrder
      <4> QED  BY <2>0, <3>1, <4>1, <4>2, Travel
    <3>3. CASE op[c].kind \notin Awaited
      <4>1. \A b \in 1..7 : \A x \in Way'[b] : x \in Way[b]
        BY <1>9, <3>3
      <4> QED  BY <2>0, <4>1, Shrinks
    <3> QED  BY <3>2, <3>3
  <2>2. (\A b \in 1..7 : \A x \in Way[b] : x.type \in AckTypes /\ x \in Held)'
    <3>1. ASSUME NEW b \in 1..7, NEW x \in Way'[b]  PROVE x.type \in AckTypes /\ x \in Held'
      <4>1. CASE x = e
        BY <1>3, <1>8, <4>1 DEF EntryOK
      <4>2. CASE x \in Way[b]
        BY <1>8, <4>2 DEF RoundOK, WayOK
      <4> QED  BY <1>9, <4>1, <4>2
    <3> QED  BY <3>1
  <2>3. Sorted(toClient)' /\ Sorted(owed)' /\ Sorted(toServer)'
    BY <1>1 DEF RoundOK, WayOK, Sorted, Asking, Ahead
  <2>4. QueuedMsgs' = QueuedMsgs
    BY <1>1 DEF QueuedMsgs
  <2>5. InOrder(Way)' /\ Sorted(QueuedMsgs)'
    BY <2>1, <2>4 DEF InOrder, Sorted, RoundOK, WayOK, Asking, Ahead
  <2>6. (tpc = "reply" /\ resp.type = "PUBREC" => waiting = Expected(resp))'
    BY <1>1 DEF RoundOK, WayOK, Expected, AckFor
  <2> QED  BY <2>2, <2>3, <2>5, <2>6 DEF WayOK
<1>12. KindsOK' /\ AnsweredOK'
  BY <1>1, KindsStay DEF RoundOK, KindsOK, AnsweredOK, Asking
<1>13. IdsOK'
  <2>1. \A d \in Callers : d = c
    BY DEF Orderly
  <2>2. op[c].kind \in Awaited =>
          /\ e.type \in AckTypes /\ e.id \in 0..255
          /\ op[c].kind = "ping" => e.id = 0
          /\ op[c].kind = "sub" => e.id = FirstId
          /\ op[c].kind \in Numbered => e.id = publish_packet_id
    <3>1. op[c].kind \in Awaited =>
            /\ op[c].kind = "ping" => e.id = 0
            /\ op[c].kind # "ping" => e.id = publish_packet_id
      BY <1>6 DEF WaitingFor, Awaited
    <3>2. e.type \in AckTypes
      BY <1>3 DEF EntryOK
    <3> QED  BY <1>4, <1>5, <3>1, <3>2 DEF Awaited, Numbered
  <2>3. ASSUME NEW x \in Held, x.ctx.kind \in Awaited
        PROVE  /\ x.type \in AckTypes /\ x.id \in 0..255
               /\ x.ctx.kind = "ping" => x.id = 0
               /\ x.ctx.kind = "sub" => x.id = FirstId
               /\ x.ctx.kind \in Numbered =>
                    /\ x.id < publish_packet_id
                    /\ \A f \in Held : f.ctx.kind \in Numbered /\ f.id = x.id => f.ctx = x.ctx
    BY <1>5, <2>1, <2>3 DEF RoundOK, IdsOK
  <2>4. \A x \in Held : x.ctx.kind \in Numbered => x.id < publish_packet_id /\ x.id # publish_packet_id
    BY <1>4, <2>3 DEF Numbered, Awaited
  <2>5. ASSUME NEW x \in Held', x.ctx.kind \in Awaited
        PROVE  /\ x.type \in AckTypes /\ x.id \in 0..255
               /\ x.ctx.kind = "ping" => x.id = 0
               /\ x.ctx.kind = "sub" => x.id = FirstId
               /\ x.ctx.kind \in Numbered =>
                    /\ x.id < publish_packet_id
                       \/ (x.id = publish_packet_id /\ Counting(c)' /\ Registered(c)')
                    /\ \A f \in Held' : f.ctx.kind \in Numbered /\ f.id = x.id => f.ctx = x.ctx
    <3>1. CASE x \in Held
      BY <1>3, <1>8, <2>2, <2>3, <2>4, <2>5, <3>1 DEF Numbered, Awaited
    <3>2. CASE x = e
      BY <1>3, <1>5, <1>8, <2>2, <2>4, <2>5, <3>2 DEF Numbered, Awaited
    <3> QED  BY <1>8, <3>1, <3>2
  <2> QED  BY <1>1, <1>5, <2>1, <2>5 DEF IdsOK
<1>14. PingsOK'
  <2>1. \A i \in DOMAIN ack_queue' :
          ack_queue'[i] = e \/ (i \in DOMAIN ack_queue /\ ack_queue'[i] = ack_queue[i])
    BY <1>1, <1>3, EnqueueFacts
  <2>2. e.type = "PINGRESP" <=> op[c].kind = "ping"
    BY <1>3 DEF EntryOK
  <2>3. ASSUME NEW i \in DOMAIN ack_queue', ack_queue'[i].type = "PINGRESP"
        PROVE  \E a \in 1..7 : ack_queue'[i] \in Way'[a]
    <3>1. CASE ack_queue'[i] = e
      BY <1>9, <2>2, <2>3, <3>1 DEF Awaited
    <3>2. CASE i \in DOMAIN ack_queue /\ ack_queue'[i] = ack_queue[i]
      <4>1. PICK a \in 1..7 : ack_queue[i] \in Way[a]
        BY <2>3, <3>2 DEF RoundOK, PingsOK
      <4> QED  BY <1>9, <3>2, <4>1
    <3> QED  BY <2>1, <3>1, <3>2
  <2>4. Rising(ack_queue', "PINGRESP", "ping")
    <3>1. Rising(ack_queue, "PINGRESP", "ping")
      BY DEF RoundOK, PingsOK
    <3>2. ASSUME op[c].kind = "ping", NEW y \in Numbers(ack_queue, "PINGRESP", "ping")
          PROVE  y < e.ctx.n
      <4>1. PICK i \in DOMAIN ack_queue : /\ ack_queue[i].type = "PINGRESP"
                                          /\ ack_queue[i].ctx.kind = "ping" /\ y = ack_queue[i].ctx.n
        BY DEF Numbers, About
      <4>2. ack_queue[i] \in Held /\ ack_queue[i].type \in AckTypes /\ op[c].kind \in Awaited
        BY <3>2, <4>1, HeldMember DEF ToSet, AckTypes, Awaited
      <4>3. Ahead(ack_queue[i].ctx, e.ctx)
        BY <1>10, <4>2
      <4> QED  BY <1>3, <3>2, <4>1, <4>3 DEF Ahead
    <3> QED  BY <1>1, <1>3, <2>2, <3>1, <3>2, CarriedAppend
  <2>5. Rising(ack_queue, "PINGRESP", "ping")'
    BY <2>4 DEF Rising, About
  <2> QED  BY <2>3, <2>5 DEF PingsOK
<1> QED  BY <1>7, <1>11, <1>12, <1>13, <1>14 DEF RoundOK

\* The call returns: its request is queued.
LEMMA EnqueueSlotForSendRound ==
  ASSUME CallbackInv, OwnContents, RoundOK, Orderly, NEW c \in Callers, EnqueueSlotForSend(c)
  PROVE  RoundOK'
<1> DEFINE m == buffer_slots[slot[c]]
<1>1. /\ pc[c] = "send" /\ Advance(c) /\ send_queue' = Append(send_queue, slot[c])
      /\ UNCHANGED <<ack_queue, tpc, resp, waiting, toClient, owed, toServer, answered, position, op,
                     entry, loaded, buffer_slots, publish_packet_id, subscribe_packet_id, calls>>
  BY DEF EnqueueSlotForSend, threadVars, netVars, enqueue
<1>2. pc'[c] = "idle"
  BY <1>1, Flow DEF CallerSteps
<1>3. m \in Messages /\ m.ctx = op[c] /\ slot[c] \in Slots /\ send_queue \in Seq(Slots)
  BY <1>1, SeqTypes DEF CallbackInv, IndInv, TypeOK, CallerTypeOK, CallerOK, Holding, OwnContents
<1>4. QueuedMsgs \in Seq(Messages) /\ Len(QueuedMsgs) = Len(send_queue)
  BY SeqTypes
<1>5. QueuedMsgs' = Append(QueuedMsgs, m)
  BY <1>1, <1>3, <1>4 DEF QueuedMsgs
<1> HIDE DEF m
<1>6. /\ ~Counting(c) /\ ~Counting(c)' /\ ~Waits(c)' /\ ~Subscribes(c)' /\ ~Registered(c)'
      /\ Registered(c) <=> Asking(m)
  BY <1>1, <1>2, <1>3 DEF Counting, Waits, Subscribes, Registered, Asking, CallerSteps
<1>7. /\ \A j \in Kinds : calls[j] <= MaxCalls[j]
      /\ CountsOK(c) /\ publish_packet_id \in Nat
  BY Numbering
<1>8. CountsOK(c)'
  BY <1>1, <1>2, <1>6, <1>7 DEF CountsOK, CallerSteps
<1>9. Held' = Held /\ HandMsg' = HandMsg /\ SendMsg' = SendMsg
  BY <1>1 DEF Held, HandMsg, SendMsg
<1>10. CountersOK' /\ IdsOK'
  <2>1. publish_packet_id' \in Nat /\ publish_packet_id' >= publish_packet_id
    BY <1>1, <1>7
  <2> QED  BY <1>1, <1>6, <1>7, <1>8, <1>9, <2>1, OneCounts, IdsKept
<1>11. KindsOK'
  BY <1>1, KindsStay DEF RoundOK, KindsOK
<1>12. /\ \A x : x \in Way[7] <=> Asking(m) /\ x = Expected(m)
       /\ \A x : x \notin Way'[7]
       /\ \A x : x \in Way'[6] <=> x \in Way[6] \/ (Asking(m) /\ x = Expected(m))
  <2>1. \A x : x \in Way[7] <=> Asking(m) /\ x = Expected(m)
    BY <1>6, OneCallMsg, Places DEF m
  <2>2. \A x : x \notin Way'[7]
    BY <1>6, OneCallMsg, PlacesNext
  <2>3. \A x : x \in Way'[6] <=> x \in Way[6] \/ (Asking(m) /\ x = Expected(m))
    BY <1>3, <1>4, <1>5, AskedAppend, Places, PlacesNext
  <2> QED  BY <2>1, <2>2, <2>3
<1>13. \A b \in 1..7 : b \notin {6, 6 + 1} => Way'[b] = Way[b]
  BY <1>1, <1>9, Places, PlacesNext
<1>14. WayOK
  BY DEF RoundOK
<1>15. /\ InOrder(Way')
       /\ \A b \in 1..7 : \A x \in Way'[b] : x.type \in AckTypes /\ x \in Held'
       /\ \A b \in 1..7 : \A x \in Way[b] : \E d \in 1..7 : x \in Way'[d]
  <2>1. Asking(m) \in BOOLEAN /\ 6 \in 1..6 /\ 6 + 1 = 7 /\ \A x \in Held : x \in Held'
    BY <1>9 DEF Asking
  <2>2. \A x : x \in Way[6 + 1] <=> x \in Way'[6 + 1] \/ (Asking(m) /\ x = Expected(m))
    BY <1>12
  <2>3. Asking(m) => \A y \in Way'[6 + 1] : Ahead(Expected(m).ctx, y.ctx)
    BY <1>12
  <2>4. \A x : x \in Way'[6] <=> x \in Way[6] \/ (Asking(m) /\ x = Expected(m))
    BY <1>12
  <2> QED  BY <1>13, <1>14, <2>1, <2>2, <2>3, <2>4, MovesOn
<1>16. WayOK'
  <2>1. Sorted(QueuedMsgs')
    <3>1. ASSUME Asking(m), NEW x \in Asked(QueuedMsgs)  PROVE Ahead(x.ctx, m.ctx)
      <4>1. x \in Way[6] /\ Expected(m) \in Way[7]
        BY <1>12, <3>1, Places
      <4> QED  BY <1>14, <4>1, ExpectedContext DEF WayOK, InOrder
    <3>2. Sorted(QueuedMsgs)
      BY <1>14 DEF WayOK
    <3> QED  BY <1>3, <1>4, <1>5, <3>1, <3>2, AskedAppend
  <2>2. Sorted(toClient)' /\ Sorted(owed)' /\ Sorted(toServer)'
    BY <1>1, <1>14 DEF WayOK, Sorted, Asking, Ahead
  <2>3. InOrder(Way)' /\ Sorted(QueuedMsgs)'
    BY <1>15, <2>1 DEF InOrder, Sorted
  <2>4. (\A b \in 1..7 : \A x \in Way[b] : x.type \in AckTypes /\ x \in Held)'
    BY <1>15
  <2>5. (tpc = "reply" /\ resp.type = "PUBREC" => waiting = Expected(resp))'
    BY <1>1, <1>14 DEF WayOK, Expected, AckFor
  <2> QED  BY <2>2, <2>3, <2>4, <2>5 DEF WayOK
<1>17. PingsOK'
  BY <1>1, <1>15, PingsStay DEF RoundOK
<1>18. AnsweredOK'
  BY <1>1 DEF RoundOK, AnsweredOK, Asking
<1> QED  BY <1>10, <1>11, <1>16, <1>17, <1>18 DEF RoundOK

LEMMA DisconnectRound ==
  ASSUME CallbackInv, RoundOK, link = "up", NEW c \in Callers,
         SignalDisconnect(c) \/ JoinSessionThread(c) \/ SendDisconnect(c)
  PROVE  RoundOK'
<1>1. /\ UNCHANGED <<ack_queue, send_queue, toClient, owed, answered, resp, waiting, tpc, position,
                     op, publish_packet_id, subscribe_packet_id, loaded, buffer_slots, slot, entry>>
      /\ UNCHANGED calls \/ calls' = [calls EXCEPT !["disconnect"] = @ + 1]
      /\ UNCHANGED pc \/ \E s \in {"join", "bye", "gone"} : pc' = [pc EXCEPT ![c] = s]
      /\ pc[c] \notin CallerSteps
  BY DEF SignalDisconnect, JoinSessionThread, SendDisconnect, threadVars, netVars, historyVars, Goto,
         CallerSteps
<1>2. SameCalls
  <2>1. \A k \in Kinds : calls'[k] = calls[k]
    BY <1>1 DEF Kinds, CallbackInv, IndInv, TypeOK, HistoryTypeOK
  <2>2. \A d \in Callers : op[d].kind \in Kinds
    BY DEF CallbackInv, IndInv, TypeOK, CallerTypeOK
  <2>3. \A d \in Callers : pc'[d] = pc[d] \/ (pc[d] \notin CallerSteps /\ pc'[d] \notin CallerSteps)
    BY <1>1 DEF CallbackInv, IndInv, TypeOK, CallerTypeOK, CallerSteps
  <2> QED  BY <1>1, <2>1, <2>2, <2>3 DEF SameCalls
<1>3. Held' = Held /\ HandMsg' = HandMsg /\ SendMsg' = SendMsg
  BY <1>1 DEF Held, HandMsg, SendMsg
<1>4. /\ AnsweredOK' /\ (tpc' \in {"dispatch", "reply"} => FromBroker(resp'))
      /\ tpc' = "reply" /\ resp'.type = "PUBREC" => waiting' = Expected(resp')
  BY <1>1 DEF RoundOK, AnsweredOK, KindsOK, WayOK, Asking
<1>5. CASE UNCHANGED toServer
  BY <1>1, <1>2, <1>3, <1>4, <1>5, QuietRound
<1>6. CASE ~UNCHANGED toServer
  <2> DEFINE m == Msg("DISCONNECT", 0, 0, [kind |-> "bye", n |-> 1])
  <2>1. toServer' = Append(toServer, m)
    BY <1>6 DEF SignalDisconnect, JoinSessionThread, SendDisconnect, SendOk, netVars
  <2>2. m \in Messages /\ ~Asking(m) /\ ToBroker(m)
    <3>1. 0 \in PacketIds
      BY MaxIdType DEF PacketIds
    <3> QED  BY <3>1 DEF Msg, Messages, Requests, Contexts, Asking, Awaited, ToBroker
  <2> HIDE DEF m
  <2> QED  BY <1>1, <1>2, <1>3, <1>4, <2>1, <2>2, SentRound
<1> QED  BY <1>5, <1>6

-----------------------------------------------------------------------------
(* All steps.                                                              *)

LEMMA CallerStepRound ==
  ASSUME CallbackInv, OwnContents, RoundOK, Orderly, link = "up", NEW c \in Callers,
         CallerStep(c) \/ SignalDisconnect(c)
  PROVE  RoundOK'
  BY GetBufferSlotRound, MakeMessageRound, FillWaitingRound, EnqueueWaitingRound, LoadPacketIdRound,
     StorePacketIdRound, EnqueueSlotForSendRound, DisconnectRound DEF CallerStep

LEMMA SessionStepRound ==
  ASSUME CallbackInv, PacketsOK, RoundOK, Orderly, link = "up", link' = "up", SessionStep
  PROVE  RoundOK'
<1>1. CASE TopOfLoop \/ SendSlot \/ FreeSlot \/ ServerReceive \/ InvokeCallback \/ Deliver \/ Crash
  BY <1>1, TopOfLoopRound, SendSlotRound, LoopRound, ServerReceiveRound
<1>2. CASE OnSuback \/ OnPublish \/ Reply \/ RequeueWaiting
  BY <1>2, OnSubackRound, OnPublishRound, ReplyRound, RequeueWaitingRound
<1>3. ASSUME NEW t \in {"PINGRESP", "PUBACK", "PUBCOMP", "UNSUBACK"}, OnFinalAck(t)  PROVE RoundOK'
  BY <1>3, OnFinalAckRound
<1>4. ASSUME NEW t \in {"PUBREC", "PUBREL"}, OnHandshake(t)  PROVE RoundOK'
  BY <1>4, OnPubrecRound, OnPubrelRound
<1> QED  BY <1>1, <1>2, <1>3, <1>4 DEF SessionStep

LEMMA RoundStep ==
  ASSUME CallbackInv, OwnContents, LineInv, Orderly, [Next]_vars, link = "up" => RoundOK, link' = "up"
  PROVE  RoundOK'
<1>1. link = "up" /\ RoundOK /\ PacketsOK
  BY NeverUpAgain DEF LineInv
<1>2. ASSUME NEW c \in Callers, CallerStep(c) \/ SignalDisconnect(c)  PROVE RoundOK'
  BY <1>1, <1>2, CallerStepRound
<1>3. ASSUME NEW c \in Callers, NEW k \in Kinds, Call(c, k)  PROVE RoundOK'
  BY <1>1, <1>3, CallRound
<1>4. ASSUME SessionStep  PROVE RoundOK'
  BY <1>1, <1>4, SessionStepRound
<1>5. ASSUME BrokerStep  PROVE RoundOK'
  BY <1>1, <1>5, BrokerReceiveRound, BrokerAnswerRound DEF BrokerStep
<1>6. ~BrokerClose
  BY DEF BrokerClose, Orderly
<1>7. ASSUME NEW q \in 0..2, BrokerPublish(q)  PROVE RoundOK'
  BY <1>1, <1>7, BrokerPublishRound
<1>8. ASSUME UNCHANGED vars  PROVE RoundOK'
  <2>1. /\ UNCHANGED <<ack_queue, toClient, owed, toServer, send_queue, tpc, resp, waiting, position, answered>>
        /\ SameCalls
    BY <1>8 DEF vars, clientVars, callerVars, threadVars, netVars, historyVars, SameCalls
  <2>2. Held' = Held /\ HandMsg' = HandMsg /\ SendMsg' = SendMsg
    BY <2>1 DEF Held, HandMsg, SendMsg, SameCalls
  <2>3. /\ AnsweredOK' /\ (tpc' \in {"dispatch", "reply"} => FromBroker(resp'))
        /\ tpc' = "reply" /\ resp'.type = "PUBREC" => waiting' = Expected(resp')
    BY <1>1, <2>1 DEF RoundOK, AnsweredOK, KindsOK, WayOK, Asking
  <2> QED  BY <1>1, <2>1, <2>2, <2>3, QuietRound
<1> QED  BY <1>2, <1>3, <1>4, <1>5, <1>6, <1>7, <1>8 DEF Next

LEMMA RoundInit ==
  ASSUME Init
  PROVE  RoundTripInv
<1>1. /\ toClient = <<>> /\ owed = <<>> /\ toServer = <<>> /\ send_queue = <<>> /\ ack_queue = <<>>
      /\ tpc = "top" /\ called = <<>> /\ \A c \in Callers : pc[c] = "idle"
  BY DEF Init
<1>2. HandMsg = <<>> /\ SendMsg = <<>> /\ QueuedMsgs = <<>>
  BY <1>1 DEF HandMsg, SendMsg, QueuedMsgs
<1>3. \A x : x \notin CallMsgs
  BY <1>1 DEF CallMsgs, Registered
<1>4. \A b \in 1..7 : \A x : x \notin Way[b]
  BY <1>1, <1>2, <1>3, AskedFew, Places
<1>5. \A x : x \notin Held
  <2>1. ~HoldsEntry
    BY <1>1 DEF HoldsEntry
  <2> QED  BY <1>1, <2>1, HeldMember DEF ToSet
<1>6. WayOK
  <2>1. Sorted(toClient) /\ Sorted(owed) /\ Sorted(toServer) /\ Sorted(QueuedMsgs)
    BY <1>1, <1>2 DEF Sorted
  <2> QED  BY <1>1, <1>4, <2>1 DEF WayOK, InOrder
<1>7. KindsOK
  BY <1>1 DEF KindsOK, Init
<1>8. CountersOK
  <2>1. \A k \in Kinds : calls[k] = 0 /\ MaxCalls[k] \in Nat
    BY BoundAssumption DEF Init
  <2>2. FirstId \in Nat /\ calls["pub1"] = 0 /\ calls["pub2"] = 0
    BY <2>1, IdAssumption, MaxIdType DEF PacketIds, Kinds
  <2>3. publish_packet_id = FirstId /\ subscribe_packet_id = FirstId
    BY DEF Init
  <2>4. \A c \in Callers : ~Counting(c) /\ ~Subscribes(c) /\ ~Waits(c)
    BY <1>1 DEF Counting, Subscribes, Waits, CallerSteps
  <2>5. \A c \in Callers : CountsOK(c)
    BY <1>1, <2>2, <2>3, <2>4 DEF CountsOK, CallerSteps
  <2> QED  BY <2>1, <2>5 DEF CountersOK
<1>9. IdsOK /\ PingsOK /\ AnsweredOK
  BY <1>1, <1>5 DEF IdsOK, PingsOK, AnsweredOK, Rising, About
<1>10. CallbackAfterAnswer
  BY <1>1 DEF CallbackAfterAnswer, ToSet
<1> QED  BY <1>6, <1>7, <1>8, <1>9, <1>10 DEF RoundTripInv, RoundOK

\* While a message is handled the connection is up.
LEMMA HandlingUp ==
  ASSUME CallbackInv, NothingAfter, process = "running", tpc \in {"dispatch", "callback"}
  PROVE  link = "up"
  BY DEF CallbackInv, IndInv, TypeOK, NetTypeOK, NothingAfter

LEMMA AnswerStep ==
  ASSUME CallbackInv, NothingAfter, RoundTripInv, [Next]_vars
  PROVE  CallbackAfterAnswer'
<1>1. CASE InvokeCallback
  <2>1. /\ process = "running" /\ tpc = "callback" /\ UNCHANGED answered
        /\ called' = Append(called, waiting.ctx)
    BY <1>1 DEF InvokeCallback, ThreadStep
  <2>2. waiting.ctx \in answered
    BY <2>1, HandlingUp DEF RoundTripInv, RoundOK, AnsweredOK
  <2>3. called \in Seq(Contexts) /\ waiting.ctx \in Contexts
    BY <2>1 DEF CallbackInv, IndInv, ThreadOK, Entries, TypeOK, HistoryTypeOK
  <2>4. ToSet(called') = ToSet(called) \cup {waiting.ctx}
    BY <2>1, <2>3, AppendFacts
  <2> QED  BY <2>1, <2>2, <2>4 DEF RoundTripInv, CallbackAfterAnswer
<1>2. CASE ~InvokeCallback
  <2>1. UNCHANGED called /\ answered \subseteq answered'
    <3>1. ASSUME NEW c \in Callers, CallerStep(c) \/ SignalDisconnect(c)  PROVE UNCHANGED <<called, answered>>
      BY <3>1 DEF CallerStep, SignalDisconnect, GetBufferSlot, MakeMessage, FillWaiting, EnqueueWaiting,
         LoadPacketId, StorePacketId, EnqueueSlotForSend, JoinSessionThread, SendDisconnect, historyVars
    <3>2. ASSUME NEW c \in Callers, NEW k \in Kinds, Call(c, k)  PROVE UNCHANGED <<called, answered>>
      BY <3>2 DEF Call
    <3>3. ASSUME SessionStep  PROVE UNCHANGED <<called, answered>>
      BY <1>2, <3>3 DEF SessionStep, TopOfLoop, SendSlot, FreeSlot, ServerReceive, OnFinalAck, OnSuback,
         OnHandshake, OnPublish, Reply, RequeueWaiting, Deliver, Crash, historyVars
    <3>4. ASSUME BrokerStep \/ BrokerClose \/ \E q \in 0..2 : BrokerPublish(q)
          PROVE  UNCHANGED called /\ answered \subseteq answered'
      BY <3>4 DEF BrokerStep, BrokerReceive, BrokerAnswer, BrokerClose, BrokerPublish, historyVars
    <3>5. ASSUME UNCHANGED vars  PROVE UNCHANGED <<called, answered>>
      BY <3>5 DEF vars, historyVars
    <3> QED  BY <3>1, <3>2, <3>3, <3>4, <3>5 DEF Next
  <2> QED  BY <2>1 DEF RoundTripInv, CallbackAfterAnswer
<1> QED  BY <1>1, <1>2

AckInv == FifoInv /\ CallbackInv /\ LineInv /\ NothingAfter /\ RoundTripInv

LEMMA AckInvariant == Orderly => (Spec => []AckInv)
<1> DEFINE Inv == Orderly /\ AckInv
<1>1. Orderly /\ Init => Inv
  <2> SUFFICES ASSUME Orderly, Init  PROVE Inv
    OBVIOUS
  <2>1. NothingAfter
    BY DEF Init, NothingAfter
  <2>2. FifoInv /\ CallbackInv /\ LineInv /\ RoundTripInv
    BY FifoInit, OnceInit, LineInit, RoundInit
  <2> QED  BY <2>1, <2>2 DEF AckInv
<1>2. Inv /\ [Next]_vars => Inv'
  <2> SUFFICES ASSUME Inv, [Next]_vars  PROVE Inv'
    OBVIOUS
  <2>1. FifoInv' /\ CallbackInv' /\ LineInv' /\ NothingAfter'
    BY FifoStep, OnceStep, LineStep, AfterStep DEF AckInv, Orderly
  <2>2. link' = "up" => RoundOK'
    BY RoundStep DEF AckInv, FifoInv, RoundTripInv
  <2>3. CallbackAfterAnswer'
    BY AnswerStep DEF AckInv
  <2>4. Orderly'
    BY DEF Orderly
  <2> QED  BY <2>1, <2>2, <2>3, <2>4 DEF AckInv, RoundTripInv
<1>3. Inv => AckInv
  OBVIOUS
<1> QED  BY <1>1, <1>2, <1>3, PTL DEF Spec

\* For an orderly application, with any number of pings, publishes and broker
\* publications in flight, any pool size and any failing sends: each
\* acknowledgement the session thread dispatches finds an entry in ack_queue,
\* and the first one dequeue_by_type_and_id stops at is that of the request
\* the broker acknowledged.
THEOREM AcksMatch == Orderly => (Spec => []AckMatches)
<1>1. Orderly /\ AckInv => AckMatches
  <2> SUFFICES ASSUME Orderly, AckInv, process = "running", tpc = "dispatch", resp.type \in AckTypes
               PROVE  \E i \in First(Hits(resp.type, resp.id)) : ack_queue[i].ctx = resp.ctx
    BY DEF AckMatches
  <2>1. RoundOK
    BY HandlingUp DEF AckInv, RoundTripInv
  <2> QED  BY <2>1, Matches DEF AckInv
<1>2. Orderly => []Orderly
  <2>1. Orderly => Orderly'
    BY DEF Orderly
  <2> QED  BY <2>1, PTL
<1> QED  BY <1>1, <1>2, AckInvariant, PTL

\* Under the same conditions a callback is only called after the broker sent
\* the final acknowledgement of that very request: neither a PUBREC nor the
\* acknowledgement of another request makes it come early.
THEOREM CallbacksAnswered == Orderly => (Spec => []CallbackAfterAnswer)
<1>1. AckInv => CallbackAfterAnswer
  BY DEF AckInv, RoundTripInv
<1> QED  BY <1>1, AckInvariant, PTL
=============================================================================
