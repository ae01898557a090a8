--------------------------- MODULE DeliveryProofs ---------------------------
(***************************************************************************)
(* HandoverSafe and DeliverInOrder are invariants of Session.  LineInv     *)
(* says where the publications of the broker are: those of one QoS stand   *)
(* in line, no step overtakes, and the copy that belongs to the PUBREL     *)
(* that comes first is the first copy in ack_queue.                        *)
(***************************************************************************)
EXTENDS CallbackProofs

-----------------------------------------------------------------------------
(* What queues carry.                                                      *)

LEMMA CarriedTail ==
  ASSUME NEW S, NEW s \in Seq(S), s # <<>>, NEW t, NEW k
  PROVE  /\ \A y \in Numbers(Tail(s), t, k) : y \in Numbers(s, t, k)
         /\ Rising(s, t, k) => Rising(Tail(s), t, k)
         /\ Head(s).type = t /\ Head(s).ctx.kind = k =>
              /\ Head(s).ctx.n \in Numbers(s, t, k)
              /\ Rising(s, t, k) => \A y \in Numbers(Tail(s), t, k) : Head(s).ctx.n < y
         /\ \A g : g \in Tags(s, t) <=>
              g \in Tags(Tail(s), t) \/ (Head(s).type = t /\ g = <<Head(s).id, Head(s).ctx>>)
<1>1. /\ Head(s) = s[1] /\ 1 \in DOMAIN s /\ DOMAIN s = 1..Len(s) /\ Len(s) \in Nat \ {0}
      /\ DOMAIN Tail(s) = 1..(Len(s) - 1)
      /\ \A i \in DOMAIN Tail(s) : Tail(s)[i] = s[i + 1] /\ i + 1 \in DOMAIN s
  OBVIOUS
<1>a. \A i \in DOMAIN s : i # 1 => i - 1 \in DOMAIN Tail(s) /\ s[i] = Tail(s)[i - 1]
  BY <1>1
<1>2. \A i \in About(Tail(s), t, k) : i + 1 \in About(s, t, k) /\ Tail(s)[i] = s[i + 1]
  BY <1>1 DEF About
<1>3. Numbers(Tail(s), t, k) \subseteq Numbers(s, t, k)
  BY <1>2 DEF Numbers
<1>4. ASSUME Rising(s, t, k)  PROVE Rising(Tail(s), t, k)
  <2>1. SUFFICES ASSUME NEW i \in About(Tail(s), t, k), NEW j \in About(Tail(s), t, k), i < j
                 PROVE  Tail(s)[i].ctx.n < Tail(s)[j].ctx.n
    BY DEF Rising
  <2>2. i \in Nat /\ j \in Nat
    BY <1>1 DEF About
  <2>3. i + 1 < j + 1
    BY <2>1, <2>2
  <2> QED  BY <1>2, <1>4, <2>3 DEF Rising
<1>5. ASSUME Head(s).type = t /\ Head(s).ctx.kind = k
      PROVE  /\ Head(s).ctx.n \in Numbers(s, t, k)
             /\ Rising(s, t, k) => \A y \in Numbers(Tail(s), t, k) : Head(s).ctx.n < y
  <2>1. 1 \in About(s, t, k)
    BY <1>1, <1>5 DEF About
  <2>2. Head(s).ctx.n \in Numbers(s, t, k)
    BY <1>1, <2>1 DEF Numbers
  <2>3. ASSUME Rising(s, t, k), NEW y \in Numbers(Tail(s), t, k)  PROVE Head(s).ctx.n < y
    <3>1. PICK i \in About(Tail(s), t, k) : y = Tail(s)[i].ctx.n
      BY <2>3 DEF Numbers
    <3>2. 1 < i + 1
      BY <1>1, <3>1 DEF About
    <3> QED  BY <1>1, <1>2, <2>1, <2>3, <3>1, <3>2 DEF Rising
  <2> QED  BY <2>2, <2>3
<1>6. \A g : g \in Tags(s, t) <=>
        g \in Tags(Tail(s), t) \/ (Head(s).type = t /\ g = <<Head(s).id, Head(s).ctx>>)
  <2>1. ASSUME NEW p \in Tags(s, t)
        PROVE  p \in Tags(Tail(s), t) \/ (Head(s).type = t /\ p = <<Head(s).id, Head(s).ctx>>)
    <3>1. PICK i \in DOMAIN s : s[i].type = t /\ p = <<s[i].id, s[i].ctx>>
      BY DEF Tags
    <3> QED  BY <1>1, <1>a, <3>1 DEF Tags
  <2>2. ASSUME NEW p \in Tags(Tail(s), t)  PROVE p \in Tags(s, t)
    <3>1. PICK i \in DOMAIN Tail(s) : Tail(s)[i].type = t /\ p = <<Tail(s)[i].id, Tail(s)[i].ctx>>
      BY DEF Tags
    <3> QED  BY <1>1, <3>1 DEF Tags
  <2>3. Head(s).type = t => <<Head(s).id, Head(s).ctx>> \in Tags(s, t)
    BY <1>1 DEF Tags
  <2> QED  BY <2>1, <2>2, <2>3
<1> QED  BY <1>3, <1>4, <1>5, <1>6

LEMMA CarriedHead ==
  ASSUME NEW S, NEW s \in Seq(S), s # <<>>, NEW t, NEW k, Rising(s, t, k),
         1 \in About(s, t, k)
  PROVE  s[1].ctx.n \in Numbers(s, t, k) /\ \A y \in Numbers(Tail(s), t, k) : s[1].ctx.n < y
<1>1. Head(s) = s[1] /\ Head(s).type = t /\ Head(s).ctx.kind = k
  BY DEF About
<1> QED  BY <1>1, CarriedTail

LEMMA CarriedAppend ==
  ASSUME NEW S, NEW s \in Seq(S), NEW e \in S, NEW t, NEW k
  PROVE  /\ \A y : y \in Numbers(Append(s, e), t, k) <=>
              y \in Numbers(s, t, k) \/ (e.type = t /\ e.ctx.kind = k /\ y = e.ctx.n)
         /\ Rising(s, t, k) /\ (\A y \in Numbers(s, t, k) : y < e.ctx.n) => Rising(Append(s, e), t, k)
         /\ Rising(s, t, k) /\ ~(e.type = t /\ e.ctx.kind = k) => Rising(Append(s, e), t, k)
         /\ \A g : g \in Tags(Append(s, e), t) <=>
              g \in Tags(s, t) \/ (e.type = t /\ g = <<e.id, e.ctx>>)
<1> DEFINE r == Append(s, e)
           z == Len(s) + 1
<1>1. /\ DOMAIN s = 1..Len(s) /\ Len(s) \in Nat /\ DOMAIN r = DOMAIN s \cup {z} /\ r[z] = e
      /\ z \notin DOMAIN s /\ \A i \in DOMAIN s : r[i] = s[i] /\ i < z /\ ~(z < i)
  OBVIOUS
<1>b. ~(z < z)
  BY <1>1
<1> HIDE DEF r, z
<1>2. About(r, t, k) = About(s, t, k) \cup (IF e.type = t /\ e.ctx.kind = k THEN {z} ELSE {})
  BY <1>1 DEF About
<1>3. \A i \in About(s, t, k) : r[i] = s[i] /\ i < z /\ ~(z < i)
  BY <1>1 DEF About
<1>4. \A y : y \in Numbers(r, t, k) <=>
        y \in Numbers(s, t, k) \/ (e.type = t /\ e.ctx.kind = k /\ y = e.ctx.n)
  BY <1>1, <1>2, <1>3 DEF Numbers
<1>5. ASSUME Rising(s, t, k),
             (\A y \in Numbers(s, t, k) : y < e.ctx.n) \/ ~(e.type = t /\ e.ctx.kind = k)
      PROVE  Rising(r, t, k)
  BY <1>1, <1>b, <1>2, <1>3, <1>5 DEF Rising, Numbers
<1>6. \A g : g \in Tags(r, t) <=> g \in Tags(s, t) \/ (e.type = t /\ g = <<e.id, e.ctx>>)
  BY <1>1 DEF Tags
<1> QED  BY <1>4, <1>5, <1>6 DEF r

LEMMA CarriedRemove ==
  ASSUME NEW S, NEW s \in Seq(S), NEW p \in DOMAIN s, NEW t, NEW k
  PROVE  /\ \A y \in Numbers(RemoveAt(s, p), t, k) : y \in Numbers(s, t, k)
         /\ Rising(s, t, k) => Rising(RemoveAt(s, p), t, k)
         /\ s[p].type = t /\ s[p].ctx.kind = k =>
              /\ s[p].ctx.n \in Numbers(s, t, k)
              /\ Rising(s, t, k) /\ (\A j \in 1..(p - 1) : s[j].type # t) =>
                   \A y \in Numbers(RemoveAt(s, p), t, k) : s[p].ctx.n < y
         /\ \A g : g \in Tags(s, t) <=>
              g \in Tags(RemoveAt(s, p), t) \/ (s[p].type = t /\ g = <<s[p].id, s[p].ctx>>)
<1> DEFINE r == RemoveAt(s, p)
           f(j) == IF j < p THEN j ELSE j + 1
<1>1. /\ DOMAIN s = 1..Len(s) /\ Len(s) \in Nat /\ p \in 1..Len(s) /\ DOMAIN r = 1..(Len(s) - 1)
      /\ \A j \in DOMAIN r : r[j] = s[f(j)]
  BY RemoveAtFacts
<1>2. /\ \A j \in DOMAIN r : f(j) \in DOMAIN s \ {p}
      /\ \A i, j \in DOMAIN r : i < j => f(i) < f(j)
      /\ \A i \in DOMAIN s \ {p} : \E j \in DOMAIN r : i = f(j)
  <2>1. \A j \in DOMAIN r : f(j) \in DOMAIN s \ {p}
    BY <1>1
  <2>2. \A i, j \in DOMAIN r : i < j => f(i) < f(j)
    BY <1>1
  <2>3. ASSUME NEW i \in DOMAIN s \ {p}  PROVE \E j \in DOMAIN r : i = f(j)
    <3>1. CASE i < p
      <4>1. i \in DOMAIN r /\ i = f(i)
        BY <1>1, <3>1
      <4> QED  BY <4>1
    <3>2. CASE ~(i < p)
      <4>1. i - 1 \in DOMAIN r /\ i = f(i - 1)
        BY <1>1, <3>2
      <4> QED  BY <4>1
    <3> QED  BY <3>1, <3>2
  <2> QED  BY <2>1, <2>2, <2>3
<1> HIDE DEF r, f
<1>3. \A j \in About(r, t, k) : j \in DOMAIN r /\ f(j) \in About(s, t, k) /\ r[j] = s[f(j)] /\ f(j) # p
  BY <1>1, <1>2 DEF About
<1>4. Numbers(r, t, k) \subseteq Numbers(s, t, k)
  BY <1>3 DEF Numbers
<1>5. ASSUME Rising(s, t, k)  PROVE Rising(r, t, k)
  BY <1>2, <1>3, <1>5 DEF Rising
<1>6. ASSUME s[p].type = t /\ s[p].ctx.kind = k
      PROVE  /\ s[p].ctx.n \in Numbers(s, t, k)
             /\ Rising(s, t, k) /\ (\A j \in 1..(p - 1) : s[j].type # t) =>
                  \A y \in Numbers(r, t, k) : s[p].ctx.n < y
  <2>1. p \in About(s, t, k)
    BY <1>6 DEF About
  <2>2. s[p].ctx.n \in Numbers(s, t, k)
    BY <2>1 DEF Numbers
  <2>3. ASSUME Rising(s, t, k), \A j \in 1..(p - 1) : s[j].type # t, NEW y \in Numbers(r, t, k)
        PROVE  s[p].ctx.n < y
    <3>1. PICK j \in About(r, t, k) : y = r[j].ctx.n
      BY DEF Numbers
    <3>2. f(j) \in About(s, t, k) /\ r[j] = s[f(j)] /\ f(j) # p
      BY <1>3
    <3>3. f(j) \in 1..Len(s) /\ s[f(j)].type = t
      BY <1>1, <3>2 DEF About
    <3>4. p < f(j)
      BY <1>1, <2>3, <3>2, <3>3
    <3> QED  BY <2>1, <2>3, <3>1, <3>2, <3>4 DEF Rising
  <2> QED  BY <2>2, <2>3
<1>7. \A g : g \in Tags(s, t) <=>
        g \in Tags(r, t) \/ (s[p].type = t /\ g = <<s[p].id, s[p].ctx>>)
  <2>1. ASSUME NEW g \in Tags(s, t)
        PROVE  g \in Tags(r, t) \/ (s[p].type = t /\ g = <<s[p].id, s[p].ctx>>)
    <3>1. PICK i \in DOMAIN s : s[i].type = t /\ g = <<s[i].id, s[i].ctx>>
      BY DEF Tags
    <3>2. CASE i = p
      BY <3>1, <3>2
    <3>3. CASE i # p
      <4>1. PICK j \in DOMAIN r : i = f(j)
        BY <1>2, <3>3
      <4> QED  BY <1>1, <3>1, <4>1 DEF Tags
    <3> QED  BY <3>2, <3>3
  <2>2. ASSUME NEW g \in Tags(r, t)  PROVE g \in Tags(s, t)
    <3>1. PICK j \in DOMAIN r : r[j].type = t /\ g = <<r[j].id, r[j].ctx>>
      BY DEF Tags
    <3> QED  BY <1>1, <1>2, <3>1 DEF Tags
  <2>3. s[p].type = t => <<s[p].id, s[p].ctx>> \in Tags(s, t)
    BY DEF Tags
  <2> QED  BY <2>1, <2>2, <2>3
<1> QED  BY <1>4, <1>5, <1>6, <1>7 DEF r

\* The same for an element of another type.
LEMMA OtherAppended ==
  ASSUME NEW S, NEW s \in Seq(S), NEW e \in S, NEW t, NEW k, e.type # t
  PROVE  /\ Numbers(Append(s, e), t, k) = Numbers(s, t, k)
         /\ Rising(s, t, k) => Rising(Append(s, e), t, k)
         /\ Tags(Append(s, e), t) = Tags(s, t)
<1> DEFINE r == Append(s, e)
           z == Len(s) + 1
<1>1. /\ DOMAIN r = DOMAIN s \cup {z} /\ r[z] = e
      /\ z \notin DOMAIN s /\ \A i \in DOMAIN s : r[i] = s[i]
  OBVIOUS
<1> HIDE DEF r, z
<1>2. About(r, t, k) = About(s, t, k) /\ \A i \in About(s, t, k) : r[i] = s[i]
  BY <1>1 DEF About
<1>3. Numbers(r, t, k) = Numbers(s, t, k)
  BY <1>2 DEF Numbers
<1>4. Rising(s, t, k) => Rising(r, t, k)
  BY <1>2 DEF Rising
<1>5. Tags(r, t) = Tags(s, t)
  BY <1>1 DEF Tags
<1> QED  BY <1>3, <1>4, <1>5 DEF r

LEMMA OtherRemoved ==
  ASSUME NEW S, NEW s \in Seq(S), NEW p \in DOMAIN s, NEW t, NEW k, s[p].type # t
  PROVE  /\ \A y \in Numbers(RemoveAt(s, p), t, k) : y \in Numbers(s, t, k)
         /\ Rising(s, t, k) => Rising(RemoveAt(s, p), t, k)
         /\ Tags(RemoveAt(s, p), t) = Tags(s, t)
<1>1. \A y \in Numbers(RemoveAt(s, p), t, k) : y \in Numbers(s, t, k)
  BY CarriedRemove, ZenonT(60)
<1>2. Rising(s, t, k) => Rising(RemoveAt(s, p), t, k)
  BY CarriedRemove, ZenonT(60)
<1>3. \A g : g \in Tags(s, t) <=> g \in Tags(RemoveAt(s, p), t)
  BY CarriedRemove, ZenonT(60)
<1> QED  BY <1>1, <1>2, <1>3

-----------------------------------------------------------------------------
(* The line.                                                               *)

\* One publication leaves its place for one further ahead; it was the first in
\* its place and there is none between.  Others may have left the line.
LEMMA MoveUp ==
  ASSUME NEW L, NEW M, NEW x, NEW from \in 1..8, NEW to \in 1..8, to < from,
         \A a \in 1..8 : L[a] \subseteq Nat, x \in L[from],
         \A a \in 1..8 : \A y \in M[a] : y \in L[a] \/ (a = to /\ y = x),
         \A a \in 1..8 : to < a /\ a <= from => \A y \in M[a] : x < y,
         InLine(L)
  PROVE  InLine(M)
<1> SUFFICES ASSUME NEW a \in 1..8, NEW b \in 1..8, a < b, NEW p \in M[a], NEW q \in M[b]
             PROVE  p < q
  BY DEF InLine
<1>1. CASE p \in L[a] /\ q \in L[b]
  BY <1>1 DEF InLine
<1>2. CASE a = to /\ p = x
  <2>1. CASE b <= from
    BY <1>2, <2>1
  <2>2. CASE ~(b <= from)
    <3>1. from < b /\ q \in L[b]
      BY <1>2, <2>2
    <3> QED  BY <1>2, <3>1 DEF InLine
  <2> QED  BY <2>1, <2>2
<1>3. CASE p \in L[a] /\ b = to /\ q = x
  <2>1. a < from
    BY <1>3
  <2> QED  BY <1>3, <2>1 DEF InLine
<1> QED  BY <1>1, <1>2, <1>3

LEMMA StayInLine ==
  ASSUME NEW L, NEW M, \A a \in 1..8 : M[a] \subseteq L[a], InLine(L)
  PROVE  InLine(M)
  BY DEF InLine

LEMMA LineType ==
  ASSUME IndInv, NEW k \in SrvKinds
  PROVE  \A a \in 1..8 : Line(k)[a] \subseteq Nat
<1>1. /\ toClient \in Seq(Messages) /\ owed \in Seq(Messages) /\ toServer \in Seq(Messages)
      /\ delivered \in Seq(Contexts) /\ pushes \in [0..2 -> Nat]
      /\ tpc \in {"dispatch", "reply", "deliver"} => resp \in Messages
  BY DEF IndInv, TypeOK, NetTypeOK, HistoryTypeOK, ThreadOK
<1>2. ASSUME NEW s \in Seq(Messages), NEW t  PROVE Numbers(s, t, k) \subseteq Nat
  <2>1. \A i \in DOMAIN s : s[i] \in Messages
    OBVIOUS
  <2>2. \A i \in DOMAIN s : s[i].ctx.n \in Nat
    BY <2>1 DEF Messages, Contexts
  <2> QED  BY <2>2 DEF Numbers, About
<1>3. {delivered[i].n : i \in {j \in DOMAIN delivered : delivered[j].kind = k}} \subseteq Nat
  <2>1. \A i \in DOMAIN delivered : delivered[i] \in Contexts
    BY <1>1
  <2> QED  BY <2>1 DEF Contexts
<1>4. \A t : Handled(t, k) \subseteq Nat
  <2>1. tpc \in {"dispatch", "reply", "deliver"} => resp.ctx.n \in Nat
    BY <1>1 DEF Messages, Contexts
  <2> QED  BY <2>1 DEF Handled
<1>5. {pushes[Qos(k)] + 1} \subseteq Nat
  BY <1>1 DEF Qos, SrvKinds
<1>6. /\ Numbers(toClient, "PUBREL", k) \subseteq Nat /\ Numbers(owed, "PUBREL", k) \subseteq Nat
      /\ Numbers(toServer, "PUBREC", k) \subseteq Nat /\ Numbers(toClient, "PUBLISH", k) \subseteq Nat
  BY <1>1, <1>2
<1>7. /\ Line(k)[1] \subseteq Nat /\ Line(k)[2] \subseteq Nat /\ Line(k)[3] \subseteq Nat
      /\ Line(k)[4] \subseteq Nat /\ Line(k)[5] \subseteq Nat /\ Line(k)[6] \subseteq Nat
      /\ Line(k)[7] \subseteq Nat /\ Line(k)[8] \subseteq Nat
  BY <1>3, <1>4, <1>5, <1>6 DEF Line
<1> QED  BY <1>7

\* A step that only moves the threads, registers or dequeues something else, or
\* sends a request, leaves the line and the copies alone.
LEMMA Quiet ==
  ASSUME IndInv, OrderOK, PacketsOK, CopiesOK,
         UNCHANGED <<delivered, toClient, owed, pushes>>,
         \A k \in SrvKinds : Numbers(toServer', "PUBREC", k) = Numbers(toServer, "PUBREC", k)
                             /\ Rising(toServer', "PUBREC", k),
         Tags(toServer', "PUBREC") = Tags(toServer, "PUBREC"),
         \A i \in DOMAIN toServer' : toServer'[i].type = "PUBREC" => toServer'[i].ctx.kind = "srv2",
         Tags(ack_queue', "PUBREL") = Tags(ack_queue, "PUBREL"),
         Rising(ack_queue', "PUBREL", "srv2"),
         Numbers(ack_queue', "PUBREL", "srv2") \subseteq Numbers(ack_queue, "PUBREL", "srv2"),
         \/ UNCHANGED <<tpc, resp, waiting>>
         \/ /\ tpc' \notin {"dispatch", "reply", "deliver", "enqueue_waiting"}
            /\ ~Storing /\ ~(tpc = "dispatch" /\ resp.type = "PUBREL")
         \/ /\ tpc = "dispatch" /\ tpc' = "reply" /\ resp.type = "PUBREC" /\ resp' = resp
         \/ /\ tpc = "dispatch" /\ resp.type = "PUBLISH" /\ UNCHANGED <<resp, waiting>>
            /\ tpc' = IF resp.qos = 0 THEN "deliver" ELSE "reply"
         \/ /\ tpc = "reply" /\ tpc' = "enqueue_waiting" /\ waiting'.type = "PUBCOMP"
         \/ /\ tpc = "reply" /\ tpc' = "deliver" /\ UNCHANGED <<resp, waiting>>
            /\ resp.type = "PUBREL" \/ (resp.type = "PUBLISH" /\ resp.qos # 2)
  PROVE  OrderOK' /\ PacketsOK' /\ CopiesOK'
<1>1. ASSUME NEW k \in SrvKinds
      PROVE  (/\ InLine(Line(k))
              /\ Rising(toClient, "PUBREL", k) /\ Rising(owed, "PUBREL", k)
              /\ Rising(toServer, "PUBREC", k) /\ Rising(toClient, "PUBLISH", k))'
  <2>1. Handled("PUBREL", k)' \subseteq Handled("PUBREL", k)
    BY DEF Handled
  <2>2. Handled("PUBLISH", k)' \subseteq Handled("PUBLISH", k)
    BY DEF Handled
  <2>3. \A a \in 1..8 : Line(k)'[a] \subseteq Line(k)[a]
    BY <2>1, <2>2 DEF Line
  <2>4. InLine(Line(k)')
    BY <2>3, StayInLine DEF OrderOK
  <2> QED  BY <2>4 DEF OrderOK
<1>2. OrderOK'
  BY <1>1 DEF OrderOK
<1>3. PacketsOK'
  BY DEF PacketsOK, PacketOK
<1>4. Storing' => Storing /\ waiting' = waiting
  BY DEF Storing
<1>5. Storing => Storing'
  BY DEF Storing
<1>6. Copies' = Copies
  BY <1>4, <1>5 DEF Copies, Storing
<1>7. Releases' = Releases
  BY DEF Releases
<1>8. CopiesOK'
  BY <1>4, <1>6, <1>7 DEF CopiesOK
<1> QED  BY <1>2, <1>3, <1>8
\* What Quiet asks of toServer and of ack_queue.
QuietServer ==
  /\ \A k \in SrvKinds : Numbers(toServer', "PUBREC", k) = Numbers(toServer, "PUBREC", k)
                         /\ Rising(toServer', "PUBREC", k)
  /\ Tags(toServer', "PUBREC") = Tags(toServer, "PUBREC")
  /\ \A i \in DOMAIN toServer' : toServer'[i].type = "PUBREC" => toServer'[i].ctx.kind = "srv2"

QuietQueue ==
  /\ Tags(ack_queue', "PUBREL") = Tags(ack_queue, "PUBREL")
  /\ Rising(ack_queue', "PUBREL", "srv2")
  /\ Numbers(ack_queue', "PUBREL", "srv2") \subseteq Numbers(ack_queue, "PUBREL", "srv2")

LEMMA SameServer ==
  ASSUME OrderOK, PacketsOK, UNCHANGED toServer
  PROVE  QuietServer
  BY DEF OrderOK, PacketsOK, QuietServer

LEMMA SentOther ==
  ASSUME IndInv, OrderOK, PacketsOK, NEW m \in Messages, m.type # "PUBREC",
         toServer' = Append(toServer, m)
  PROVE  QuietServer
<1>1. toServer \in Seq(Messages)
  BY DEF IndInv, TypeOK, NetTypeOK
<1>2. ASSUME NEW k \in SrvKinds
      PROVE  /\ Numbers(toServer', "PUBREC", k) = Numbers(toServer, "PUBREC", k)
             /\ Rising(toServer', "PUBREC", k)
  <2>1. Rising(toServer, "PUBREC", k)
    BY DEF OrderOK
  <2>2. /\ Numbers(Append(toServer, m), "PUBREC", k) = Numbers(toServer, "PUBREC", k)
        /\ Rising(Append(toServer, m), "PUBREC", k)
    BY <1>1, <2>1, OtherAppended, ZenonT(60)
  <2> QED  BY <2>2
<1>3. Tags(toServer', "PUBREC") = Tags(toServer, "PUBREC")
  BY <1>1, OtherAppended, ZenonT(60)
<1>4. \A i \in DOMAIN toServer' : toServer'[i].type = "PUBREC" => toServer'[i].ctx.kind = "srv2"
  BY <1>1 DEF PacketsOK
<1> QED  BY <1>2, <1>3, <1>4 DEF QuietServer

LEMMA SameQueue ==
  ASSUME CopiesOK, UNCHANGED ack_queue
  PROVE  QuietQueue
  BY DEF CopiesOK, QuietQueue

LEMMA CallerLine ==
  ASSUME CallbackInv, OrderOK, PacketsOK, CopiesOK, link = "up", NEW c \in Callers,
         CallerStep(c) \/ SignalDisconnect(c) \/ \E k \in Kinds : Call(c, k)
  PROVE  OrderOK' /\ PacketsOK' /\ CopiesOK'
<1>0. UNCHANGED <<delivered, toClient, owed, pushes, tpc, resp, waiting>>
  BY DEF CallerStep, SignalDisconnect, Call, GetBufferSlot, MakeMessage, FillWaiting, EnqueueWaiting,
     LoadPacketId, StorePacketId, EnqueueSlotForSend, JoinSessionThread, SendDisconnect,
     clientVars, threadVars, netVars, historyVars
<1>1. QuietServer
  <2>1. CASE SendDisconnect(c)
    <3>1. Msg("DISCONNECT", 0, 0, [kind |-> "bye", n |-> 1]) \in Messages
      BY MaxIdType DEF Msg, Messages, Requests, PacketIds, Contexts
    <3>2. Msg("DISCONNECT", 0, 0, [kind |-> "bye", n |-> 1]).type # "PUBREC"
      BY DEF Msg
    <3>3. toServer' = toServer
            \/ toServer' = Append(toServer, Msg("DISCONNECT", 0, 0, [kind |-> "bye", n |-> 1]))
      BY <2>1 DEF SendDisconnect, SendOk
    <3> QED  BY <3>1, <3>2, <3>3, SameServer, SentOther DEF CallbackInv
  <2>2. CASE ~SendDisconnect(c)
    <3>1. UNCHANGED toServer
      BY <2>2 DEF CallerStep, SignalDisconnect, Call, GetBufferSlot, MakeMessage, FillWaiting,
         EnqueueWaiting, LoadPacketId, StorePacketId, EnqueueSlotForSend, JoinSessionThread, netVars
    <3> QED  BY <3>1, SameServer
  <2> QED  BY <2>1, <2>2
<1>2. QuietQueue
  <2>1. CASE EnqueueWaiting(c)
    <3>1. ack_queue \in Seq(Entries) /\ entry[c] \in Entries /\ entry[c].type # "PUBREL"
      BY <2>1 DEF EnqueueWaiting, CallbackInv, IndInv, TypeOK, ClientTypeOK, CallerOK, RequestsOK, Registers
    <3>2. ack_queue' = Append(ack_queue, entry[c])
      BY <2>1 DEF EnqueueWaiting, enqueue
    <3>3. Rising(ack_queue, "PUBREL", "srv2")
      BY DEF CopiesOK
    <3>4. /\ Numbers(Append(ack_queue, entry[c]), "PUBREL", "srv2") = Numbers(ack_queue, "PUBREL", "srv2")
          /\ Rising(Append(ack_queue, entry[c]), "PUBREL", "srv2")
          /\ Tags(Append(ack_queue, entry[c]), "PUBREL") = Tags(ack_queue, "PUBREL")
      BY <3>1, <3>3, OtherAppended, ZenonT(60)
    <3> QED  BY <3>2, <3>4 DEF QuietQueue
  <2>2. CASE ~EnqueueWaiting(c)
    <3>1. UNCHANGED ack_queue
      BY <2>2 DEF CallerStep, SignalDisconnect, Call, GetBufferSlot, MakeMessage, FillWaiting,
         LoadPacketId, StorePacketId, EnqueueSlotForSend, JoinSessionThread, SendDisconnect, clientVars
    <3> QED  BY <3>1, SameQueue
  <2> QED  BY <2>1, <2>2
<1> QED  BY <1>0, <1>1, <1>2, Quiet DEF QuietServer, QuietQueue, CallbackInv

\* The loop outside the handling of a packet of a publication.
LEMMA LoopLine ==
  ASSUME CallbackInv, OrderOK, PacketsOK, CopiesOK, SlotsOK, link = "up", link' = "up",
         TopOfLoop \/ SendSlot \/ FreeSlot \/ InvokeCallback \/ Crash
  PROVE  OrderOK' /\ PacketsOK' /\ CopiesOK'
<1>0. UNCHANGED <<delivered, toClient, owed, pushes, ack_queue, resp, waiting>>
  BY DEF TopOfLoop, SendSlot, FreeSlot, InvokeCallback, Crash,
     clientVars, threadVars, netVars, historyVars
<1>1. QuietServer
  <2>1. CASE SendSlot
    <3> DEFINE m == buffer_slots[position]
    <3>1. m \in Messages /\ position \in Slots
      BY <2>1 DEF SendSlot, ThreadStep, CallbackInv, IndInv, ThreadOK, TypeOK, ThreadTypeOK, NoSlot
    <3>2. m.type # "PUBREC"
      BY <3>1, NoMsgAssumption DEF SlotsOK
    <3>3. toServer' = Append(toServer, m)
      BY <2>1 DEF SendSlot, SendOk, SendFails
    <3> QED  BY <3>1, <3>2, <3>3, SentOther DEF CallbackInv
  <2>2. CASE ~SendSlot
    BY <2>2, SameServer DEF TopOfLoop, FreeSlot, InvokeCallback, Crash, netVars
  <2> QED  BY <2>1, <2>2
<1>2. QuietQueue
  BY <1>0, SameQueue
<1>3. \/ UNCHANGED <<tpc, resp, waiting>>
      \/ /\ tpc' \notin {"dispatch", "reply", "deliver", "enqueue_waiting"}
         /\ ~Storing /\ ~(tpc = "dispatch" /\ resp.type = "PUBREL")
  BY DEF TopOfLoop, SendSlot, FreeSlot, InvokeCallback, Crash, ThreadStep, threadVars, Storing
<1> QED  BY <1>0, <1>1, <1>2, <1>3, Quiet DEF QuietServer, QuietQueue, CallbackInv

\* An entry leaves ack_queue that is no copy of a publication.
LEMMA OtherEntry ==
  ASSUME IndInv, CopiesOK, NEW i \in DOMAIN ack_queue, ack_queue[i].type # "PUBREL",
         ack_queue' = RemoveAt(ack_queue, i)
  PROVE  QuietQueue
<1>1. ack_queue \in Seq(Entries)
  BY DEF IndInv, TypeOK, ClientTypeOK
<1>2. Rising(ack_queue, "PUBREL", "srv2")
  BY DEF CopiesOK
<1>3. /\ Numbers(RemoveAt(ack_queue, i), "PUBREL", "srv2") \subseteq Numbers(ack_queue, "PUBREL", "srv2")
      /\ Rising(RemoveAt(ack_queue, i), "PUBREL", "srv2")
      /\ Tags(RemoveAt(ack_queue, i), "PUBREL") = Tags(ack_queue, "PUBREL")
  BY <1>1, <1>2, OtherRemoved, ZenonT(60)
<1> QED  BY <1>3 DEF QuietQueue

\* Acknowledgements of the client's own requests.
LEMMA AckLine ==
  ASSUME CallbackInv, OrderOK, PacketsOK, CopiesOK,
         \/ \E t \in {"PINGRESP", "PUBACK", "PUBCOMP", "UNSUBACK"} : OnFinalAck(t)
         \/ OnSuback \/ OnHandshake("PUBREC")
  PROVE  OrderOK' /\ PacketsOK' /\ CopiesOK'
<1>0. UNCHANGED <<delivered, toClient, owed, pushes, toServer, resp>> /\ tpc = "dispatch"
  BY DEF OnFinalAck, OnSuback, OnHandshake, netVars, historyVars, ThreadStep
<1>1. QuietServer
  BY <1>0, SameServer
<1>2. QuietQueue
  <2>1. \/ UNCHANGED ack_queue
        \/ \E i \in DOMAIN ack_queue : ack_queue[i].type # "PUBREL" /\ ack_queue' = RemoveAt(ack_queue, i)
    BY DEF OnFinalAck, OnSuback, OnHandshake, First, Hits, remove_from_queue
  <2> QED  BY <2>1, SameQueue, OtherEntry DEF CallbackInv
<1>3. /\ resp.type # "PUBREL"
      /\ \/ tpc' \in {"callback", "top"}
         \/ tpc' = "dispatch" /\ UNCHANGED waiting
         \/ tpc' = "reply" /\ resp.type = "PUBREC"
  BY DEF OnFinalAck, OnSuback, OnHandshake, ThreadStep
<1>4. ~Storing
  BY <1>0 DEF Storing
<1>5. \/ UNCHANGED <<tpc, resp, waiting>>
      \/ /\ tpc' \notin {"dispatch", "reply", "deliver", "enqueue_waiting"}
         /\ ~Storing /\ ~(tpc = "dispatch" /\ resp.type = "PUBREL")
      \/ /\ tpc = "dispatch" /\ tpc' = "reply" /\ resp.type = "PUBREC" /\ resp' = resp
  BY <1>0, <1>3, <1>4
<1> QED  BY <1>0, <1>1, <1>2, <1>5, Quiet DEF QuietServer, QuietQueue, CallbackInv
LEMMA LineMoves ==
  ASSUME IndInv, OrderOK, NEW k \in SrvKinds, NEW x, NEW from \in 1..8, NEW to \in 1..8,
         to < from, x \in Line(k)[from],
         \A a \in 1..8 : \A y \in Line(k)'[a] : y \in Line(k)[a] \/ (a = to /\ y = x),
         \A a \in 1..8 : to < a /\ a <= from => \A y \in Line(k)'[a] : x < y
  PROVE  InLine(Line(k))'
<1>1. (\A a \in 1..8 : Line(k)[a] \subseteq Nat) /\ InLine(Line(k))
  BY LineType DEF OrderOK
<1>2. InLine(Line(k)')
  BY <1>1, MoveUp
<1> QED  BY <1>2

LEMMA LineStays ==
  ASSUME OrderOK, NEW k \in SrvKinds, \A a \in 1..8 : \A y \in Line(k)'[a] : y \in Line(k)[a]
  PROVE  InLine(Line(k))'
<1>1. InLine(Line(k)')
  BY StayInLine DEF OrderOK
<1> QED  BY <1>1

LEMMA WireTwice == \A id \in PacketIds : Wire(Wire(id)) = Wire(id)
<1>1. \A id \in Nat : (id % 256) % 256 = id % 256
  OBVIOUS
<1>2. PacketIds \subseteq Nat
  BY MaxIdType DEF PacketIds
<1> QED  BY <1>1, <1>2 DEF Wire

\* A packet is received: it was the first on its way to the client.
LEMMA ReceiveLine ==
  ASSUME CallbackInv, OrderOK, PacketsOK, CopiesOK, link = "up", ServerReceive
  PROVE  OrderOK' /\ PacketsOK' /\ CopiesOK'
<1>0. /\ UNCHANGED <<delivered, owed, toServer, pushes, ack_queue, waiting>> /\ tpc = "receive"
      /\ toClient \in Seq(Messages)
  BY DEF ServerReceive, ThreadStep, historyVars, CallbackInv, IndInv, TypeOK, NetTypeOK
<1>1. CASE toClient = <<>>
  <2>1. UNCHANGED <<resp, toClient>> /\ tpc' = "top"
    BY <1>1 DEF ServerReceive
  <2> QED  BY <1>0, <2>1, SameServer, SameQueue, Quiet DEF QuietServer, QuietQueue, CallbackInv, Storing
<1>2. CASE toClient # <<>>
  <2> DEFINE m == Head(toClient)
             n == m.ctx.n
  <2>1. /\ resp' = [m EXCEPT !.id = Wire(m.id)] /\ toClient' = Tail(toClient) /\ tpc' = "dispatch"
        /\ m \in Messages /\ m = toClient[1] /\ 1 \in DOMAIN toClient
    BY <1>0, <1>2 DEF ServerReceive
  <2>2. resp'.type = m.type /\ resp'.ctx = m.ctx /\ resp'.qos = m.qos /\ resp'.id = Wire(m.id)
        /\ m.id \in PacketIds
    BY <2>1 DEF Messages
  <2>3. \A i \in DOMAIN Tail(toClient) : \E j \in DOMAIN toClient : Tail(toClient)[i] = toClient[j]
    BY <1>0, <1>2
  <2> HIDE DEF m
  <2>4. ASSUME NEW k \in SrvKinds
        PROVE  (/\ InLine(Line(k))
                /\ Rising(toClient, "PUBREL", k) /\ Rising(owed, "PUBREL", k)
                /\ Rising(toServer, "PUBREC", k) /\ Rising(toClient, "PUBLISH", k))'
    <3>1. /\ Rising(toClient, "PUBREL", k) /\ Rising(owed, "PUBREL", k)
          /\ Rising(toServer, "PUBREC", k) /\ Rising(toClient, "PUBLISH", k)
      BY DEF OrderOK
    <3>2. ASSUME NEW t, Rising(toClient, t, k)
          PROVE  /\ \A y \in Numbers(Tail(toClient), t, k) : y \in Numbers(toClient, t, k)
                 /\ Rising(Tail(toClient), t, k)
                 /\ m.type = t /\ m.ctx.kind = k =>
                      n \in Numbers(toClient, t, k) /\ \A y \in Numbers(Tail(toClient), t, k) : n < y
      <4>1. \A y \in Numbers(Tail(toClient), t, k) : y \in Numbers(toClient, t, k)
        BY <1>0, <1>2, CarriedTail, ZenonT(60)
      <4>2. Rising(Tail(toClient), t, k)
        BY <1>0, <1>2, <3>2, CarriedTail, ZenonT(60)
      <4>3. ASSUME m.type = t /\ m.ctx.kind = k
            PROVE  n \in Numbers(toClient, t, k) /\ \A y \in Numbers(Tail(toClient), t, k) : n < y
        <5>1. 1 \in About(toClient, t, k)
          BY <2>1, <4>3 DEF About
        <5>2. toClient[1].ctx.n \in Numbers(toClient, t, k)
          BY <1>0, <1>2, <3>2, <5>1, CarriedHead, ZenonT(60)
        <5>3. \A y \in Numbers(Tail(toClient), t, k) : toClient[1].ctx.n < y
          BY <1>0, <1>2, <3>2, <5>1, CarriedHead, ZenonT(60)
        <5> QED  BY <2>1, <5>2, <5>3
      <4> QED  BY <4>1, <4>2, <4>3
    <3>3. ASSUME NEW t
          PROVE  Handled(t, k) = {} /\ \A y \in Handled(t, k)' : m.type = t /\ m.ctx.kind = k /\ y = n
      BY <1>0, <2>1, <2>2 DEF Handled
    <3>4. /\ Line(k)'[1] = Line(k)[1] /\ Line(k)'[2] = Handled("PUBREL", k)'
          /\ Line(k)'[3] = Numbers(Tail(toClient), "PUBREL", k) /\ Line(k)'[4] = Line(k)[4]
          /\ Line(k)'[5] = Line(k)[5] /\ Line(k)'[6] = Handled("PUBLISH", k)'
          /\ Line(k)'[7] = Numbers(Tail(toClient), "PUBLISH", k) /\ Line(k)'[8] = Line(k)[8]
          /\ Line(k)[3] = Numbers(toClient, "PUBREL", k) /\ Line(k)[7] = Numbers(toClient, "PUBLISH", k)
      BY <1>0, <2>1 DEF Line
    <3>5. InLine(Line(k))'
      <4>1. CASE m.type = "PUBREL" /\ m.ctx.kind = k
        <5>1. n \in Line(k)[3]
          BY <3>1, <3>2, <3>4, <4>1
        <5>2. \A a \in 1..8 : \A y \in Line(k)'[a] : y \in Line(k)[a] \/ (a = 2 /\ y = n)
          BY <3>1, <3>2, <3>3, <3>4, <4>1
        <5>3. \A a \in 1..8 : 2 < a /\ a <= 3 => \A y \in Line(k)'[a] : n < y
          BY <3>1, <3>2, <3>4, <4>1
        <5> QED  BY <5>1, <5>2, <5>3, LineMoves DEF CallbackInv
      <4>2. CASE m.type = "PUBLISH" /\ m.ctx.kind = k
        <5>1. n \in Line(k)[7]
          BY <3>1, <3>2, <3>4, <4>2
        <5>2. \A a \in 1..8 : \A y \in Line(k)'[a] : y \in Line(k)[a] \/ (a = 6 /\ y = n)
          BY <3>1, <3>2, <3>3, <3>4, <4>2
        <5>3. \A a \in 1..8 : 6 < a /\ a <= 7 => \A y \in Line(k)'[a] : n < y
          BY <3>1, <3>2, <3>4, <4>2
        <5> QED  BY <5>1, <5>2, <5>3, LineMoves DEF CallbackInv
      <4>3. CASE ~(m.type \in {"PUBREL", "PUBLISH"} /\ m.ctx.kind = k)
        <5>1. \A a \in 1..8 : \A y \in Line(k)'[a] : y \in Line(k)[a]
          BY <3>1, <3>2, <3>3, <3>4, <4>3
        <5> QED  BY <5>1, LineStays
      <4> QED  BY <4>1, <4>2, <4>3
    <3> QED  BY <1>0, <2>1, <3>1, <3>2, <3>5
  <2>5. OrderOK'
    BY <2>4 DEF OrderOK
  <2>6. PacketsOK'
    <3>1. (\A i \in DOMAIN toClient : PacketOK(toClient[i]))'
      BY <2>1, <2>3 DEF PacketsOK
    <3>2. PacketOK(resp)' /\ Wire(resp'.id) = resp'.id
      BY <2>1, <2>2, WireTwice DEF PacketsOK, PacketOK, m
    <3> QED  BY <1>0, <2>1, <3>1, <3>2 DEF PacketsOK
  <2>7. CopiesOK'
    <3>1. \A g : g \in Tags(toClient, "PUBREL") <=>
            g \in Tags(toClient', "PUBREL") \/ (m.type = "PUBREL" /\ g = <<m.id, m.ctx>>)
      BY <1>0, <1>2, <2>1, CarriedTail, ZenonT(60) DEF m
    <3>2. m.type = "PUBREL" => Wire(m.id) = m.id
      <4>1. ASSUME m.type = "PUBREL"  PROVE Wire(m.id) = m.id
        <5>1. <<m.id, m.ctx>> \in Copies
          BY <3>1, <4>1 DEF CopiesOK, Releases
        <5> QED  BY <5>1 DEF CopiesOK
      <4> QED  BY <4>1
    <3>3. ~Storing /\ ~Storing'
      BY <1>0, <2>1 DEF Storing
    <3>4. Copies' = Copies
      BY <1>0, <3>3 DEF Copies
    <3>5. Releases' = Releases
      BY <1>0, <2>1, <2>2, <3>1, <3>2 DEF Releases
    <3> QED  BY <1>0, <3>3, <3>4, <3>5 DEF CopiesOK
  <2> QED  BY <2>5, <2>6, <2>7
<1> QED  BY <1>1, <1>2
LEMMA PublishLine ==
  ASSUME CallbackInv, OrderOK, PacketsOK, CopiesOK, OnPublish
  PROVE  OrderOK' /\ PacketsOK' /\ CopiesOK'
<1>1. /\ UNCHANGED <<delivered, toClient, owed, pushes, toServer, ack_queue, resp, waiting>>
      /\ tpc = "dispatch" /\ resp.type = "PUBLISH" /\ tpc' = IF resp.qos = 0 THEN "deliver" ELSE "reply"
  BY DEF OnPublish, ThreadStep, clientVars, netVars, historyVars
<1> QED  BY <1>1, SameServer, SameQueue, Quiet DEF QuietServer, QuietQueue, CallbackInv

\* Of the publications with a PUBREC or PUBREL under way, the one whose PUBREL
\* is being dispatched is the first.
LEMMA ReleasesKind ==
  ASSUME PacketsOK, NEW g \in Releases
  PROVE  g[2].kind = "srv2"
  BY DEF PacketsOK, PacketOK, Releases, Tags

LEMMA TagNumber ==
  ASSUME NEW s, NEW t, NEW k, NEW g \in Tags(s, t), g[2].kind = k
  PROVE  g[2].n \in Numbers(s, t, k)
  BY DEF Tags, Numbers, About

LEMMA FirstRelease ==
  ASSUME IndInv, OrderOK, PacketsOK, tpc = "dispatch", resp.type = "PUBREL",
         NEW g \in Tags(toServer, "PUBREC") \cup Tags(owed, "PUBREL") \cup Tags(toClient, "PUBREL")
  PROVE  resp.ctx.n < g[2].n
<1>1. "srv2" \in SrvKinds /\ g[2].kind = "srv2"
  BY ReleasesKind DEF SrvKinds, Releases
<1>2. InLine(Line("srv2"))
  BY <1>1 DEF OrderOK
<1>3. g[2].n \in Numbers(toServer, "PUBREC", "srv2") \cup Numbers(owed, "PUBREL", "srv2")
              \cup Numbers(toClient, "PUBREL", "srv2")
  BY <1>1, TagNumber
<1>4. g[2].n \in Line("srv2")[5] \cup Line("srv2")[4] \cup Line("srv2")[3]
  BY <1>3 DEF Line
<1>5. resp.ctx.n \in Line("srv2")[2]
  <2>1. resp.ctx.kind = "srv2"
    BY DEF PacketsOK, PacketOK
  <2>2. Line("srv2")[2] = Handled("PUBREL", "srv2")
    BY DEF Line
  <2> QED  BY <2>1, <2>2 DEF Handled
<1> QED  BY <1>2, <1>4, <1>5 DEF InLine

LEMMA RemovedGone ==
  ASSUME NEW S, NEW s \in Seq(S), NEW t, NEW k, NEW p \in About(s, t, k), Rising(s, t, k),
         s[p].ctx.n \in Nat
  PROVE  s[p].ctx.n \notin Numbers(RemoveAt(s, p), t, k)
<1>1. SUFFICES ASSUME s[p].ctx.n \in Numbers(RemoveAt(s, p), t, k)  PROVE FALSE
  OBVIOUS
<1> DEFINE r == RemoveAt(s, p)
           f(j) == IF j < p THEN j ELSE j + 1
<1>2. p \in DOMAIN s /\ p \in 1..Len(s) /\ Len(s) \in Nat /\ DOMAIN s = 1..Len(s)
  BY DEF About
<1>3. DOMAIN r = 1..(Len(s) - 1) /\ \A j \in DOMAIN r : r[j] = s[f(j)]
  BY <1>2, RemoveAtFacts
<1>4. PICK j \in About(r, t, k) : s[p].ctx.n = r[j].ctx.n
  BY <1>1 DEF Numbers
<1>5. j \in DOMAIN r /\ r[j].type = t /\ r[j].ctx.kind = k
  BY <1>4 DEF About
<1>6. f(j) \in DOMAIN s /\ f(j) # p /\ (f(j) < p \/ p < f(j)) /\ r[j] = s[f(j)]
  BY <1>2, <1>3, <1>5
<1> HIDE DEF r, f
<1>7. f(j) \in About(s, t, k)
  BY <1>5, <1>6 DEF About
<1>8. s[f(j)].ctx.n < s[p].ctx.n \/ s[p].ctx.n < s[f(j)].ctx.n
  BY <1>6, <1>7 DEF Rising
<1> QED  BY <1>4, <1>6, <1>8

\* PUBREL: the entry that is found is the copy of the publication that PUBREL
\* releases.
LEMMA PubrelLine ==
  ASSUME CallbackInv, OrderOK, PacketsOK, CopiesOK, OnHandshake("PUBREL")
  PROVE  OrderOK' /\ PacketsOK' /\ CopiesOK'
<1>0. /\ UNCHANGED <<delivered, toClient, owed, pushes, toServer, resp>>
      /\ tpc = "dispatch" /\ resp.type = "PUBREL"
      /\ ack_queue \in Seq(Entries) /\ resp \in Messages /\ resp.ctx.n \in Nat
      /\ ~Storing /\ resp.ctx.kind = "srv2"
  <2>1. /\ UNCHANGED <<delivered, toClient, owed, pushes, toServer, resp>>
        /\ tpc = "dispatch" /\ resp.type = "PUBREL"
    BY DEF OnHandshake, ThreadStep, netVars, historyVars
  <2>2. ack_queue \in Seq(Entries) /\ resp \in Messages
    BY <2>1 DEF CallbackInv, IndInv, TypeOK, ClientTypeOK, ThreadOK
  <2>3. resp.ctx.n \in Nat
    BY <2>2 DEF Messages, Contexts
  <2> QED  BY <2>1, <2>2, <2>3 DEF Storing, PacketsOK, PacketOK
<1> DEFINE r == <<resp.id, resp.ctx>>
           rest == Tags(toServer, "PUBREC") \cup Tags(owed, "PUBREL") \cup Tags(toClient, "PUBREL")
<1>1. Releases = rest \cup {r} /\ Copies = Tags(ack_queue, "PUBREL") /\ Copies = Releases
  BY <1>0 DEF Releases, Copies, CopiesOK
<1>2. \A g \in rest : resp.ctx.n < g[2].n
  BY <1>0, FirstRelease DEF CallbackInv
<1>3. PICK j \in DOMAIN ack_queue :
        ack_queue[j].type = "PUBREL" /\ ack_queue[j].id = resp.id /\ ack_queue[j].ctx = resp.ctx
  <2>1. r \in Tags(ack_queue, "PUBREL")
    BY <1>1
  <2> QED  BY <2>1 DEF Tags
<1>4. j \in Hits("PUBREL", resp.id)
  BY <1>3 DEF Hits
<1>5. PICK i \in First(Hits("PUBREL", resp.id)) :
        waiting' = ack_queue[i] /\ ack_queue' = RemoveAt(ack_queue, i) /\ tpc' = "reply"
  BY <1>0, <1>4 DEF OnHandshake, remove_from_queue
<1>6. /\ i \in DOMAIN ack_queue /\ i <= j /\ i \in Nat /\ j \in Nat
      /\ ack_queue[i].type = "PUBREL" /\ ack_queue[i].id = resp.id
  BY <1>0, <1>4, <1>5 DEF First, Hits
<1>7. i = j
  <2>1. SUFFICES ASSUME i # j  PROVE FALSE
    OBVIOUS
  <2>2. <<ack_queue[i].id, ack_queue[i].ctx>> \in Releases
    BY <1>1, <1>6 DEF Tags
  <2>3. ack_queue[i].ctx.kind = "srv2"
    BY <2>2, ReleasesKind
  <2>4. i \in About(ack_queue, "PUBREL", "srv2") /\ j \in About(ack_queue, "PUBREL", "srv2") /\ i < j
    BY <1>0, <1>3, <1>6, <2>1, <2>3 DEF About
  <2>5. ack_queue[i].ctx.n < resp.ctx.n
    BY <1>3, <2>4 DEF CopiesOK, Rising
  <2>6. ack_queue[i] \in Entries
    BY <1>0, <1>6
  <2>7. ack_queue[i].ctx.n \in Nat
    BY <2>6 DEF Entries, Contexts
  <2>8. <<ack_queue[i].id, ack_queue[i].ctx>> = r \/ resp.ctx.n < ack_queue[i].ctx.n
    BY <1>1, <1>2, <2>2
  <2>9. ack_queue[i].ctx.n = resp.ctx.n \/ resp.ctx.n < ack_queue[i].ctx.n
    BY <2>8
  <2> QED  BY <1>0, <2>5, <2>7, <2>9
<1>8. waiting'.ctx = resp.ctx /\ i \in About(ack_queue, "PUBREL", "srv2") /\ ack_queue[i].ctx.n = resp.ctx.n
  BY <1>0, <1>3, <1>5, <1>7 DEF About
<1>9. /\ Rising(ack_queue, "PUBREL", "srv2") /\ Rising(ack_queue', "PUBREL", "srv2")
      /\ \A g : g \in Tags(ack_queue, "PUBREL") <=> g \in Tags(ack_queue', "PUBREL") \/ g = r
      /\ resp.ctx.n \notin Numbers(ack_queue', "PUBREL", "srv2")
  <2>1. Rising(ack_queue, "PUBREL", "srv2")
    BY DEF CopiesOK
  <2>2. Rising(RemoveAt(ack_queue, i), "PUBREL", "srv2")
    BY <1>0, <1>6, <2>1, CarriedRemove, ZenonT(60)
  <2>3. \A g : g \in Tags(ack_queue, "PUBREL") <=> g \in Tags(RemoveAt(ack_queue, i), "PUBREL")
                \/ (ack_queue[i].type = "PUBREL" /\ g = <<ack_queue[i].id, ack_queue[i].ctx>>)
    BY <1>0, <1>6, CarriedRemove, ZenonT(60)
  <2>4. ack_queue[i].ctx.n \notin Numbers(RemoveAt(ack_queue, i), "PUBREL", "srv2")
    BY <1>0, <1>8, <2>1, RemovedGone
  <2> QED  BY <1>3, <1>5, <1>7, <1>8, <2>1, <2>2, <2>3, <2>4
<1>10. OrderOK'
  <2>1. \A k, t : Handled(t, k)' = Handled(t, k)
    BY <1>0, <1>5 DEF Handled
  <2>2. ASSUME NEW k \in SrvKinds  PROVE InLine(Line(k))'
    <3>1. \A a \in 1..8 : \A y \in Line(k)'[a] : y \in Line(k)[a]
      BY <1>0, <2>1 DEF Line
    <3> QED  BY <3>1, LineStays
  <2> QED  BY <1>0, <2>2 DEF OrderOK
<1>11. PacketsOK'
  BY <1>0, <1>5, <1>8 DEF PacketsOK, PacketOK
<1>12. CopiesOK'
  <2>1. ~Storing'
    BY <1>5 DEF Storing
  <2>2. Copies' = Tags(ack_queue', "PUBREL")
    BY <2>1 DEF Copies
  <2>3. Releases' = rest
    BY <1>0, <1>5 DEF Releases
  <2>4. r \notin rest
    BY <1>0, <1>2
  <2>5. r \notin Tags(ack_queue', "PUBREL")
    <3>1. SUFFICES ASSUME r \in Tags(ack_queue', "PUBREL")  PROVE FALSE
      OBVIOUS
    <3>2. r[2].n \in Numbers(ack_queue', "PUBREL", "srv2")
      BY <1>0, <3>1, TagNumber
    <3> QED  BY <1>9, <3>2
  <2>6. Copies' = Releases'
    BY <1>1, <1>9, <2>2, <2>3, <2>4, <2>5
  <2>7. Copies' \subseteq Copies
    BY <1>1, <1>9, <2>2
  <2> QED  BY <1>9, <2>1, <2>6, <2>7 DEF CopiesOK
<1> QED  BY <1>10, <1>11, <1>12
\* The reply to a QoS 2 PUBLISH: the publication goes from the hand of the
\* thread to toServer, and its copy is made.
LEMMA ReplyPublish2 ==
  ASSUME CallbackInv, OrderOK, PacketsOK, CopiesOK, tpc = "reply",
         resp.type = "PUBLISH", resp.qos = 2,
         UNCHANGED <<delivered, toClient, owed, pushes, ack_queue, resp>>,
         toServer' = Append(toServer, Msg("PUBREC", 0, Wire(resp.id), resp.ctx)),
         waiting' = [type |-> "PUBREL", id |-> resp.id, ctx |-> resp.ctx],
         tpc' = "enqueue_waiting"
  PROVE  OrderOK' /\ PacketsOK' /\ CopiesOK'
<1> DEFINE m == Msg("PUBREC", 0, Wire(resp.id), resp.ctx)
           n == resp.ctx.n
<1>1. /\ resp \in Messages /\ toServer \in Seq(Messages)
  BY DEF CallbackInv, IndInv, TypeOK, NetTypeOK, ThreadOK
<1>2. m \in Messages
  BY <1>1, WireType DEF Msg, Messages, Replies
<1>3. m.type = "PUBREC" /\ m.ctx = resp.ctx /\ m.id = resp.id
  BY DEF Msg, PacketsOK
<1>4. resp.ctx.kind = "srv2" /\ "srv2" \in SrvKinds
  BY DEF PacketsOK, PacketOK, SrvKinds, Qos
<1> HIDE DEF m
<1>5. ASSUME NEW k \in SrvKinds
      PROVE  (\A y : y \in Numbers(toServer', "PUBREC", k) <=>
                y \in Numbers(toServer, "PUBREC", k) \/ (m.type = "PUBREC" /\ m.ctx.kind = k /\ y = m.ctx.n))
  <2>1. toServer' = Append(toServer, m)
    BY DEF m
  <2> QED  BY <1>1, <1>2, <2>1, CarriedAppend
<1>6. ASSUME NEW k \in SrvKinds
      PROVE  /\ Line(k)'[1] = Line(k)[1] /\ Line(k)'[2] = {} /\ Line(k)'[3] = Line(k)[3]
             /\ Line(k)'[4] = Line(k)[4] /\ Line(k)'[5] = Numbers(toServer', "PUBREC", k)
             /\ Line(k)'[6] = {} /\ Line(k)'[7] = Line(k)[7] /\ Line(k)'[8] = Line(k)[8]
             /\ Line(k)[5] = Numbers(toServer, "PUBREC", k) /\ Line(k)[6] = Handled("PUBLISH", k)
  <2>1. Handled("PUBREL", k)' = {} /\ Handled("PUBLISH", k)' = {}
    BY DEF Handled
  <2> QED  BY <2>1 DEF Line
<1>7. ASSUME NEW k \in SrvKinds
      PROVE  InLine(Line(k))'
  <2>1. CASE k = "srv2"
    <3>1. n \in Line(k)[6]
      BY <1>4, <1>6, <2>1 DEF Handled
    <3>2. \A a \in 1..8 : \A y \in Line(k)'[a] : y \in Line(k)[a] \/ (a = 5 /\ y = n)
      BY <1>3, <1>5, <1>6
    <3>3. \A a \in 1..8 : 5 < a /\ a <= 6 => \A y \in Line(k)'[a] : n < y
      BY <1>6
    <3> QED  BY <3>1, <3>2, <3>3, LineMoves DEF CallbackInv
  <2>2. CASE k # "srv2"
    <3>1. \A a \in 1..8 : \A y \in Line(k)'[a] : y \in Line(k)[a]
      BY <1>3, <1>4, <1>5, <1>6, <2>2
    <3> QED  BY <3>1, LineStays
  <2> QED  BY <2>1, <2>2
<1>8. /\ n \in Line("srv2")[6] /\ InLine(Line("srv2"))
      /\ \A a \in 1..5 : \A y \in Line("srv2")[a] : y < n
  <2>1. n \in Line("srv2")[6] /\ InLine(Line("srv2"))
    BY <1>4, <1>6 DEF Handled, OrderOK
  <2> QED  BY <2>1 DEF InLine
<1>9. ASSUME NEW k \in SrvKinds
      PROVE  Rising(toServer', "PUBREC", k)
  <2>0. Rising(toServer, "PUBREC", k) /\ toServer' = Append(toServer, m)
    BY DEF OrderOK, m
  <2>1. CASE k = "srv2"
    <3>1. \A y \in Numbers(toServer, "PUBREC", k) : y < m.ctx.n
      BY <1>3, <1>6, <1>8, <2>1
    <3> QED  BY <1>1, <1>2, <2>0, <3>1, CarriedAppend
  <2>2. CASE k # "srv2"
    <3>1. ~(m.type = "PUBREC" /\ m.ctx.kind = k)
      BY <1>3, <1>4, <2>2
    <3> QED  BY <1>1, <1>2, <2>0, <3>1, CarriedAppend
  <2> QED  BY <2>1, <2>2
<1>10. OrderOK'
  BY <1>7, <1>9 DEF OrderOK
<1>11. PacketsOK'
  <2>1. \A i \in DOMAIN toServer' : toServer'[i].type = "PUBREC" => toServer'[i].ctx.kind = "srv2"
    BY <1>1, <1>3, <1>4 DEF PacketsOK, m
  <2> QED  BY <2>1 DEF PacketsOK
<1>12. CopiesOK'
  <2>1. ~Storing /\ Storing' /\ waiting'.id = resp.id /\ waiting'.ctx = resp.ctx
    BY DEF Storing
  <2>2. \A g : g \in Tags(toServer', "PUBREC") <=>
          g \in Tags(toServer, "PUBREC") \/ (m.type = "PUBREC" /\ g = <<m.id, m.ctx>>)
    <3>1. toServer' = Append(toServer, m)
      BY DEF m
    <3> QED  BY <1>1, <1>2, <3>1, CarriedAppend
  <2>3. Copies = Tags(ack_queue, "PUBREL") /\ Copies' = Copies \cup {<<resp.id, resp.ctx>>}
    BY <2>1 DEF Copies
  <2>4. /\ Releases = Tags(toServer, "PUBREC") \cup Tags(owed, "PUBREL") \cup Tags(toClient, "PUBREL")
        /\ Releases' = Tags(toServer', "PUBREC") \cup Tags(owed, "PUBREL") \cup Tags(toClient, "PUBREL")
    BY DEF Releases
  <2>5. Copies' = Releases'
    BY <1>3, <2>2, <2>3, <2>4 DEF CopiesOK
  <2>6. \A tag \in Copies' : Wire(tag[1]) = tag[1]
    BY <2>3 DEF CopiesOK, PacketsOK
  <2>7. ASSUME NEW y \in Numbers(ack_queue, "PUBREL", "srv2")  PROVE y < n
    <3>1. PICK i \in DOMAIN ack_queue :
            ack_queue[i].type = "PUBREL" /\ ack_queue[i].ctx.kind = "srv2" /\ y = ack_queue[i].ctx.n
      BY DEF Numbers, About
    <3> DEFINE g == <<ack_queue[i].id, ack_queue[i].ctx>>
    <3>2. g \in Releases
      BY <2>3, <3>1 DEF CopiesOK, Tags
    <3>3. y \in Numbers(toServer, "PUBREC", "srv2") \cup Numbers(owed, "PUBREL", "srv2")
                 \cup Numbers(toClient, "PUBREL", "srv2")
      <4>1. g[2].kind = "srv2" /\ g[2].n = y
        BY <3>1
      <4> QED  BY <2>4, <3>2, <4>1, TagNumber
    <3>4. y \in Line("srv2")[5] \cup Line("srv2")[4] \cup Line("srv2")[3]
      BY <3>3 DEF Line
    <3> QED  BY <1>8, <3>4
  <2> QED  BY <2>1, <2>5, <2>6, <2>7 DEF CopiesOK
<1> QED  BY <1>10, <1>11, <1>12
LEMMA ReplyLine ==
  ASSUME CallbackInv, OrderOK, PacketsOK, CopiesOK, link = "up", link' = "up", Reply
  PROVE  OrderOK' /\ PacketsOK' /\ CopiesOK'
<1> DEFINE m == Msg(ReplyType, 0, Wire(resp.id), resp.ctx)
<1>1. /\ UNCHANGED <<delivered, toClient, owed, pushes, ack_queue, resp>> /\ tpc = "reply"
      /\ toServer' = Append(toServer, m)
      /\ CASE resp.type = "PUBREC" ->
                /\ waiting' = [waiting EXCEPT !.type = "PUBCOMP", !.id = resp.id]
                /\ tpc' = "enqueue_waiting"
           [] resp.type = "PUBLISH" /\ resp.qos = 2 ->
                /\ waiting' = [type |-> "PUBREL", id |-> resp.id, ctx |-> resp.ctx]
                /\ tpc' = "enqueue_waiting"
           [] OTHER -> tpc' = "deliver" /\ UNCHANGED waiting
  BY DEF Reply, SendOk, SendFails, ThreadStep, historyVars
<1>2. /\ resp \in Messages /\ (resp.type = "PUBREC" => waiting \in Entries)
  BY <1>1 DEF CallbackInv, IndInv, ThreadOK
<1>3. m \in Messages /\ m.type = ReplyType
  BY <1>2, WireType DEF Msg, ReplyType, Messages, Replies
<1>4. resp.type \in {"PUBREC", "PUBREL"} \/ (resp.type = "PUBLISH" /\ resp.qos # 0)
  BY <1>1 DEF PacketsOK
<1>5. CASE resp.type = "PUBLISH" /\ resp.qos = 2
  <2>1. ReplyType = "PUBREC"
    BY <1>5 DEF ReplyType
  <2>2. /\ waiting' = [type |-> "PUBREL", id |-> resp.id, ctx |-> resp.ctx]
        /\ tpc' = "enqueue_waiting"
    BY <1>1, <1>5
  <2> QED  BY <1>1, <1>5, <2>1, <2>2, ReplyPublish2
<1>6. CASE ~(resp.type = "PUBLISH" /\ resp.qos = 2)
  <2>1. ReplyType # "PUBREC"
    <3>1. resp.type = "PUBLISH" => resp.qos = 1
      BY <1>2, <1>4, <1>6 DEF Messages
    <3> QED  BY <1>4, <3>1 DEF ReplyType
  <2>2. QuietServer
    BY <1>1, <1>3, <2>1, SentOther DEF CallbackInv
  <2>3. QuietQueue
    BY <1>1, SameQueue
  <2>4. CASE resp.type = "PUBREC"
    <3>1. waiting'.type = "PUBCOMP" /\ tpc' = "enqueue_waiting"
      BY <1>1, <1>2, <2>4 DEF Entries
    <3> QED  BY <1>1, <2>2, <2>3, <3>1, Quiet DEF QuietServer, QuietQueue, CallbackInv
  <2>5. CASE resp.type # "PUBREC"
    <3>1. tpc' = "deliver" /\ UNCHANGED waiting
      BY <1>1, <1>6, <2>5
    <3> QED  BY <1>1, <1>4, <1>6, <2>2, <2>3, <2>5, <3>1, Quiet DEF QuietServer, QuietQueue, CallbackInv
  <2> QED  BY <2>4, <2>5
<1> QED  BY <1>5, <1>6

\* The copy is put into ack_queue, behind the others.
LEMMA RequeueLine ==
  ASSUME CallbackInv, OrderOK, PacketsOK, CopiesOK, RequeueWaiting
  PROVE  OrderOK' /\ PacketsOK' /\ CopiesOK'
<1>1. /\ UNCHANGED <<delivered, toClient, owed, pushes, toServer, resp, waiting>>
      /\ tpc = "enqueue_waiting" /\ tpc' = "top" /\ ack_queue' = Append(ack_queue, waiting)
      /\ ack_queue \in Seq(Entries) /\ waiting \in Entries
  BY DEF RequeueWaiting, ThreadStep, netVars, historyVars, enqueue,
     CallbackInv, IndInv, TypeOK, ClientTypeOK, ThreadOK
<1>2. CASE waiting.type # "PUBREL"
  <2>1. QuietQueue
    <3>1. /\ Rising(ack_queue, "PUBREL", "srv2") /\ waiting.type # "PUBREL"
          /\ ack_queue \in Seq(Entries) /\ waiting \in Entries
      BY <1>1, <1>2 DEF CopiesOK
    <3>2. /\ Numbers(Append(ack_queue, waiting), "PUBREL", "srv2") = Numbers(ack_queue, "PUBREL", "srv2")
          /\ Rising(Append(ack_queue, waiting), "PUBREL", "srv2")
          /\ Tags(Append(ack_queue, waiting), "PUBREL") = Tags(ack_queue, "PUBREL")
      BY <3>1, OtherAppended, ZenonT(60)
    <3> QED  BY <1>1, <3>2 DEF QuietQueue
  <2>2. ~Storing
    BY <1>2 DEF Storing
  <2> QED  BY <1>1, <2>1, <2>2, SameServer, Quiet DEF QuietServer, QuietQueue, CallbackInv
<1>3. CASE waiting.type = "PUBREL"
  <2>1. Storing /\ ~Storing'
    BY <1>1, <1>3 DEF Storing
  <2>2. Rising(ack_queue', "PUBREL", "srv2")
    <3>1. Rising(ack_queue, "PUBREL", "srv2") /\ \A y \in Numbers(ack_queue, "PUBREL", "srv2") : y < waiting.ctx.n
      BY <2>1 DEF CopiesOK
    <3>2. Rising(Append(ack_queue, waiting), "PUBREL", "srv2")
      BY <1>1, <3>1, CarriedAppend, ZenonT(60)
    <3> QED  BY <1>1, <3>2
  <2>3. \A g : g \in Tags(ack_queue', "PUBREL") <=>
          g \in Tags(ack_queue, "PUBREL") \/ (waiting.type = "PUBREL" /\ g = <<waiting.id, waiting.ctx>>)
    BY <1>1, CarriedAppend
  <2>4. Copies' = Copies
    BY <1>3, <2>1, <2>3 DEF Copies
  <2>5. Releases' = Releases
    BY <1>1 DEF Releases
  <2>6. CopiesOK'
    BY <2>1, <2>2, <2>4, <2>5 DEF CopiesOK
  <2>7. OrderOK'
    <3>1. \A k, t : Handled(t, k)' = {} /\ Handled(t, k) = {}
      BY <1>1 DEF Handled
    <3>2. ASSUME NEW k \in SrvKinds  PROVE InLine(Line(k))'
      <4>1. \A a \in 1..8 : \A y \in Line(k)'[a] : y \in Line(k)[a]
        BY <1>1, <3>1 DEF Line
      <4> QED  BY <4>1, LineStays
    <3> QED  BY <1>1, <3>2 DEF OrderOK
  <2>8. PacketsOK'
    BY <1>1 DEF PacketsOK
  <2> QED  BY <2>6, <2>7, <2>8
<1> QED  BY <1>2, <1>3

\* What is delivered was the first of the line.
LEMMA DeliverLine ==
  ASSUME CallbackInv, OrderOK, PacketsOK, CopiesOK, Deliver
  PROVE  OrderOK' /\ PacketsOK' /\ CopiesOK'
<1>1. /\ UNCHANGED <<toClient, owed, pushes, toServer, ack_queue, resp, waiting>>
      /\ tpc = "deliver" /\ tpc' = "top" /\ delivered \in Seq(Contexts)
      /\ delivered' = delivered \/ delivered' = Append(delivered, Delivering)
  BY DEF Deliver, ThreadStep, netVars, clientVars, CallbackInv, IndInv, TypeOK, HistoryTypeOK
<1>2. /\ Delivering = resp.ctx /\ resp \in Messages /\ PacketOK(resp)
      /\ resp.type = "PUBREL" \/ (resp.type = "PUBLISH" /\ resp.qos # 2)
  BY <1>1 DEF Delivering, PacketsOK, CallbackInv, IndInv, ThreadOK
<1> DEFINE n == resp.ctx.n
<1>3. resp.ctx \in Contexts
  BY <1>2 DEF Messages
<1>4. \A i \in DOMAIN delivered' : (i \in DOMAIN delivered /\ delivered'[i] = delivered[i]) \/ delivered'[i] = resp.ctx
  BY <1>1, <1>2, <1>3
<1>5. \A k, t : Handled(t, k)' = {}
  BY <1>1 DEF Handled
<1>6. ASSUME NEW k \in SrvKinds  PROVE InLine(Line(k))'
  <2>1. \A y \in Line(k)'[1] : y \in Line(k)[1] \/ (resp.ctx.kind = k /\ y = n)
    BY <1>4 DEF Line
  <2>2. /\ Line(k)'[2] = {} /\ Line(k)'[3] = Line(k)[3] /\ Line(k)'[4] = Line(k)[4]
        /\ Line(k)'[5] = Line(k)[5] /\ Line(k)'[6] = {} /\ Line(k)'[7] = Line(k)[7]
        /\ Line(k)'[8] = Line(k)[8]
        /\ Line(k)[2] = Handled("PUBREL", k) /\ Line(k)[6] = Handled("PUBLISH", k)
        /\ Line(k)[3] = Numbers(toClient, "PUBREL", k) /\ Line(k)[4] = Numbers(owed, "PUBREL", k)
        /\ Line(k)[5] = Numbers(toServer, "PUBREC", k)
    BY <1>1, <1>5 DEF Line
  <2>3. CASE resp.ctx.kind = k /\ resp.type = "PUBREL"
    <3>0. Handled("PUBREL", k) = {n}
      BY <1>1, <2>3 DEF Handled
    <3>1. n \in Line(k)[2]
      BY <2>2, <3>0
    <3>2. \A a \in 1..8 : \A y \in Line(k)'[a] : y \in Line(k)[a] \/ (a = 1 /\ y = n)
      BY <2>1, <2>2
    <3>3. \A a \in 1..8 : 1 < a /\ a <= 2 => \A y \in Line(k)'[a] : n < y
      BY <2>2
    <3> QED  BY <3>1, <3>2, <3>3, LineMoves DEF CallbackInv
  <2>4. CASE resp.ctx.kind = k /\ resp.type = "PUBLISH" /\ resp.qos # 2
    <3>1. n \in Line(k)[6]
      BY <1>1, <2>2, <2>4 DEF Handled
    <3>2. k # "srv2"
      BY <1>2, <2>4 DEF PacketOK, Qos
    <3>3. Line(k)[3] = {} /\ Line(k)[4] = {} /\ Line(k)[5] = {}
      BY <2>2, <3>2 DEF Numbers, About, PacketsOK, PacketOK
    <3>4. \A a \in 1..8 : \A y \in Line(k)'[a] : y \in Line(k)[a] \/ (a = 1 /\ y = n)
      BY <2>1, <2>2
    <3>5. \A a \in 1..8 : 1 < a /\ a <= 6 => \A y \in Line(k)'[a] : n < y
      BY <2>2, <3>3
    <3> QED  BY <3>1, <3>4, <3>5, LineMoves DEF CallbackInv
  <2>5. CASE resp.ctx.kind # k
    <3>1. \A a \in 1..8 : \A y \in Line(k)'[a] : y \in Line(k)[a]
      BY <2>1, <2>2, <2>5
    <3> QED  BY <3>1, LineStays
  <2> QED  BY <1>2, <2>3, <2>4, <2>5
<1>7. OrderOK'
  BY <1>1, <1>6 DEF OrderOK
<1>8. PacketsOK'
  BY <1>1 DEF PacketsOK
<1>9. ~Storing /\ ~Storing'
  BY <1>1 DEF Storing
<1>10. Copies' = Copies /\ Releases' = Releases
  BY <1>1, <1>9 DEF Copies, Releases
<1>11. CopiesOK'
  BY <1>1, <1>9, <1>10 DEF CopiesOK
<1> QED  BY <1>7, <1>8, <1>11
-----------------------------------------------------------------------------
(* The broker.                                                             *)

LEMMA AnswerShape ==
  ASSUME NEW m \in Messages, NEW s \in Seq(Messages)
  PROVE  \/ m.type = "PUBREC" /\ s \o Answer(m) = Append(s, Msg("PUBREL", 0, m.id, m.ctx))
         \/ m.type # "PUBREC" /\ s \o Answer(m) = s
         \/ m.type # "PUBREC" /\ \E a \in Messages :
              a.type \notin {"PUBREL", "PUBLISH"} /\ s \o Answer(m) = Append(s, a)
<1>1. \A a \in Messages : s \o <<a>> = Append(s, a)
  OBVIOUS
<1>2. s \o <<>> = s
  OBVIOUS
<1>3. m.ctx \in Contexts /\ m.id \in PacketIds /\ 0 \in PacketIds
  BY MaxIdType DEF Messages, PacketIds
<1>4. ASSUME NEW t \in Replies, NEW id \in PacketIds
      PROVE  Msg(t, 0, id, m.ctx) \in Messages /\ Msg(t, 0, id, m.ctx).type = t
  BY <1>3 DEF Msg, Messages
<1>5. \/ m.type = "PUBREC" /\ Answer(m) = <<Msg("PUBREL", 0, m.id, m.ctx)>>
      \/ m.type # "PUBREC" /\ Answer(m) = <<>>
      \/ m.type # "PUBREC" /\ \E t \in Replies \ {"PUBREL"}, id \in PacketIds :
           Answer(m) = <<Msg(t, 0, id, m.ctx)>>
  <2>1. CASE m.type = "PUBREC"
    BY <2>1 DEF Answer
  <2>2. CASE m.type # "PUBREC"
    <3>1. CASE m.type = "PINGREQ"
      <4>1. Answer(m) = <<Msg("PINGRESP", 0, 0, m.ctx)>>
        BY <3>1 DEF Answer
      <4> QED  BY <1>3, <2>2, <4>1 DEF Replies
    <3>2. CASE m.type # "PINGREQ"
      <4>1. Answer(m) = <<>> \/ \E t \in {"SUBACK", "UNSUBACK", "PUBACK", "PUBREC", "PUBCOMP"} :
               Answer(m) = <<Msg(t, 0, m.id, m.ctx)>>
        BY <2>2, <3>2 DEF Answer
      <4> QED  BY <1>3, <2>2, <4>1 DEF Replies
    <3> QED  BY <3>1, <3>2
  <2> QED  BY <2>1, <2>2
<1>6. CASE m.type = "PUBREC"
  BY <1>1, <1>3, <1>4, <1>5, <1>6 DEF Replies
<1>7. CASE m.type # "PUBREC" /\ Answer(m) = <<>>
  BY <1>2, <1>7
<1>8. ASSUME m.type # "PUBREC", NEW t \in Replies \ {"PUBREL"}, NEW id \in PacketIds,
             Answer(m) = <<Msg(t, 0, id, m.ctx)>>
      PROVE  \E a \in Messages : a.type \notin {"PUBREL", "PUBLISH"} /\ s \o Answer(m) = Append(s, a)
  <2>1. Msg(t, 0, id, m.ctx) \in Messages /\ Msg(t, 0, id, m.ctx).type = t
    BY <1>4
  <2>2. t \notin {"PUBREL", "PUBLISH"}
    BY DEF Replies
  <2> QED  BY <1>1, <1>8, <2>1, <2>2
<1> QED  BY <1>5, <1>6, <1>7, <1>8

\* A step of the broker leaves the client and its copies alone.
LEMMA BrokerCopies ==
  ASSUME CopiesOK, UNCHANGED <<clientVars, threadVars>>, Releases' = Releases
  PROVE  CopiesOK'
<1>1. UNCHANGED <<ack_queue, tpc, resp, waiting>>
  BY DEF clientVars, threadVars
<1>2. Storing' = Storing /\ Copies' = Copies
  BY <1>1 DEF Storing, Copies
<1> QED  BY <1>1, <1>2 DEF CopiesOK

LEMMA BrokerReceiveLine ==
  ASSUME CallbackInv, OrderOK, PacketsOK, CopiesOK, BrokerReceive
  PROVE  OrderOK' /\ PacketsOK' /\ CopiesOK'
<1> DEFINE m == Head(toServer)
           p == Msg("PUBREL", 0, m.id, m.ctx)
           n == m.ctx.n
<1>1. /\ UNCHANGED <<delivered, toClient, pushes>> /\ UNCHANGED <<clientVars, threadVars>>
      /\ toServer' = Tail(toServer) /\ owed' = owed \o Answer(m) /\ toServer # <<>>
  BY DEF BrokerReceive, historyVars
<1>2. toServer \in Seq(Messages) /\ owed \in Seq(Messages)
  BY DEF CallbackInv, IndInv, TypeOK, NetTypeOK
<1>3. /\ m \in Messages /\ m = toServer[1] /\ 1 \in DOMAIN toServer
      /\ \A i \in DOMAIN Tail(toServer) : \E j \in DOMAIN toServer : Tail(toServer)[i] = toServer[j]
  BY <1>1, <1>2
<1>4. p \in Messages /\ p.type = "PUBREL" /\ p.id = m.id /\ p.ctx = m.ctx
  BY <1>3 DEF Msg, Messages, Replies
<1>5. \/ m.type = "PUBREC" /\ owed' = Append(owed, p)
      \/ m.type # "PUBREC" /\ owed' = owed
      \/ m.type # "PUBREC" /\ \E a \in Messages :
           a.type \notin {"PUBREL", "PUBLISH"} /\ owed' = Append(owed, a)
  BY <1>1, <1>2, <1>3, AnswerShape
<1>6. UNCHANGED <<tpc, resp, waiting, ack_queue>>
  BY <1>1 DEF clientVars, threadVars
<1> HIDE DEF m, p
<1>7. ASSUME m.type # "PUBREC", NEW k \in SrvKinds
      PROVE  /\ Numbers(owed', "PUBREL", k) = Numbers(owed, "PUBREL", k)
             /\ Rising(owed', "PUBREL", k)
             /\ Tags(owed', "PUBREL") = Tags(owed, "PUBREL")
  <2>0. Rising(owed, "PUBREL", k)
    BY DEF OrderOK
  <2>1. CASE owed' = owed
    BY <2>0, <2>1
  <2>2. ASSUME NEW a \in Messages, a.type # "PUBREL", owed' = Append(owed, a)
        PROVE  /\ Numbers(owed', "PUBREL", k) = Numbers(owed, "PUBREL", k)
               /\ Rising(owed', "PUBREL", k)
               /\ Tags(owed', "PUBREL") = Tags(owed, "PUBREL")
    <3>1. /\ Numbers(Append(owed, a), "PUBREL", k) = Numbers(owed, "PUBREL", k)
          /\ Rising(Append(owed, a), "PUBREL", k)
          /\ Tags(Append(owed, a), "PUBREL") = Tags(owed, "PUBREL")
      BY <1>2, <2>0, <2>2, OtherAppended, ZenonT(60)
    <3> QED  BY <2>2, <3>1
  <2> QED  BY <1>5, <1>7, <2>1, <2>2
<1>8. ASSUME NEW k \in SrvKinds
      PROVE  /\ \A y \in Numbers(toServer', "PUBREC", k) : y \in Numbers(toServer, "PUBREC", k)
             /\ Rising(toServer', "PUBREC", k)
  <2>1. Rising(toServer, "PUBREC", k)
    BY DEF OrderOK
  <2>2. \A y \in Numbers(Tail(toServer), "PUBREC", k) : y \in Numbers(toServer, "PUBREC", k)
    BY <1>1, <1>2, CarriedTail, ZenonT(60)
  <2>3. Rising(Tail(toServer), "PUBREC", k)
    BY <1>1, <1>2, <2>1, CarriedTail, ZenonT(60)
  <2> QED  BY <1>1, <2>2, <2>3
<1>9. ASSUME NEW k \in SrvKinds
      PROVE  /\ Line(k)'[1] = Line(k)[1] /\ Line(k)'[2] = Line(k)[2] /\ Line(k)'[3] = Line(k)[3]
             /\ Line(k)'[4] = Numbers(owed', "PUBREL", k) /\ Line(k)'[5] = Numbers(toServer', "PUBREC", k)
             /\ Line(k)'[6] = Line(k)[6] /\ Line(k)'[7] = Line(k)[7] /\ Line(k)'[8] = Line(k)[8]
             /\ Line(k)[4] = Numbers(owed, "PUBREL", k) /\ Line(k)[5] = Numbers(toServer, "PUBREC", k)
  <2>1. \A t : Handled(t, k)' = Handled(t, k)
    BY <1>6 DEF Handled
  <2> QED  BY <1>1, <2>1 DEF Line
<1>10. CASE m.type # "PUBREC"
  <2>1. ASSUME NEW k \in SrvKinds  PROVE InLine(Line(k))'
    <3>1. \A a \in 1..8 : \A y \in Line(k)'[a] : y \in Line(k)[a]
      BY <1>7, <1>8, <1>9, <1>10
    <3> QED  BY <3>1, LineStays
  <2>2. OrderOK'
    BY <1>1, <1>7, <1>8, <1>10, <2>1 DEF OrderOK
  <2>3. PacketsOK'
    <3>1. (\A i \in DOMAIN owed : PacketOK(owed[i]) /\ owed[i].type # "PUBLISH")'
      <4>1. CASE owed' = owed
        BY <4>1 DEF PacketsOK
      <4>2. ASSUME NEW a \in Messages, a.type \notin {"PUBREL", "PUBLISH"}, owed' = Append(owed, a)
            PROVE  (\A i \in DOMAIN owed : PacketOK(owed[i]) /\ owed[i].type # "PUBLISH")'
        <5>1. \A i \in DOMAIN owed' : (i \in DOMAIN owed /\ owed'[i] = owed[i]) \/ owed'[i] = a
          BY <1>2, <4>2
        <5>2. PacketOK(a)
          BY <4>2 DEF PacketOK
        <5> QED  BY <4>2, <5>1, <5>2 DEF PacketsOK
      <4> QED  BY <1>5, <1>10, <4>1, <4>2
    <3>2. \A i \in DOMAIN toServer' : toServer'[i].type = "PUBREC" => toServer'[i].ctx.kind = "srv2"
      BY <1>1, <1>3 DEF PacketsOK
    <3> QED  BY <1>1, <1>6, <3>1, <3>2 DEF PacketsOK
  <2>4. Tags(toServer', "PUBREC") = Tags(toServer, "PUBREC")
    <3>1. \A g : g \in Tags(toServer, "PUBREC") <=>
            g \in Tags(Tail(toServer), "PUBREC") \/ (m.type = "PUBREC" /\ g = <<m.id, m.ctx>>)
      BY <1>1, <1>2, CarriedTail, ZenonT(60) DEF m
    <3> QED  BY <1>1, <1>10, <3>1
  <2>5. Tags(owed', "PUBREL") = Tags(owed, "PUBREL")
    BY <1>7, <1>10 DEF SrvKinds
  <2>6. Releases' = Releases
    BY <1>1, <1>6, <2>4, <2>5 DEF Releases
  <2> QED  BY <1>1, <2>2, <2>3, <2>6, BrokerCopies
<1>11. CASE m.type = "PUBREC"
  <2>1. owed' = Append(owed, p) /\ m.ctx.kind = "srv2" /\ "srv2" \in SrvKinds
    BY <1>3, <1>5, <1>11 DEF PacketsOK, SrvKinds
  <2>2. /\ n \in Numbers(toServer, "PUBREC", "srv2")
        /\ \A y \in Numbers(toServer', "PUBREC", "srv2") : n < y
    <3>1. 1 \in About(toServer, "PUBREC", "srv2") /\ Rising(toServer, "PUBREC", "srv2")
      BY <1>3, <1>11, <2>1 DEF About, OrderOK
    <3>2. toServer[1].ctx.n \in Numbers(toServer, "PUBREC", "srv2")
      BY <1>1, <1>2, <3>1, CarriedHead, ZenonT(60)
    <3>3. \A y \in Numbers(Tail(toServer), "PUBREC", "srv2") : toServer[1].ctx.n < y
      BY <1>1, <1>2, <3>1, CarriedHead, ZenonT(60)
    <3> QED  BY <1>1, <1>3, <3>2, <3>3
  <2>3. ASSUME NEW k \in SrvKinds
        PROVE  \A y : y \in Numbers(owed', "PUBREL", k) <=>
                 y \in Numbers(owed, "PUBREL", k) \/ (k = "srv2" /\ y = n)
    <3>1. \A y : y \in Numbers(Append(owed, p), "PUBREL", k) <=>
            y \in Numbers(owed, "PUBREL", k) \/ (p.type = "PUBREL" /\ p.ctx.kind = k /\ y = p.ctx.n)
      BY <1>2, <1>4, CarriedAppend
    <3> QED  BY <1>4, <2>1, <3>1
  <2>4. ASSUME NEW k \in SrvKinds  PROVE InLine(Line(k))'
    <3>1. CASE k = "srv2"
      <4>1. n \in Line(k)[5]
        BY <1>9, <2>2, <3>1
      <4>2. \A a \in 1..8 : \A y \in Line(k)'[a] : y \in Line(k)[a] \/ (a = 4 /\ y = n)
        BY <1>8, <1>9, <2>3
      <4>3. \A a \in 1..8 : 4 < a /\ a <= 5 => \A y \in Line(k)'[a] : n < y
        BY <1>9, <2>2, <3>1
      <4> QED  BY <4>1, <4>2, <4>3, LineMoves DEF CallbackInv
    <3>2. CASE k # "srv2"
      <4>1. \A a \in 1..8 : \A y \in Line(k)'[a] : y \in Line(k)[a]
        BY <1>8, <1>9, <2>3, <3>2
      <4> QED  BY <4>1, LineStays
    <3> QED  BY <3>1, <3>2
  <2>5. ASSUME NEW k \in SrvKinds  PROVE Rising(owed', "PUBREL", k)
    <3>0. Rising(owed, "PUBREL", k) /\ InLine(Line(k))
      BY DEF OrderOK
    <3>1. CASE k = "srv2"
      <4>1. \A y \in Numbers(owed, "PUBREL", k) : y < p.ctx.n
        <5>1. n \in Line(k)[5]
          BY <1>9, <2>2, <3>1
        <5> QED  BY <1>4, <1>9, <3>0, <5>1 DEF InLine
      <4>2. Rising(Append(owed, p), "PUBREL", k)
        BY <1>2, <1>4, <3>0, <4>1, CarriedAppend
      <4> QED  BY <2>1, <4>2
    <3>2. CASE k # "srv2"
      <4>1. ~(p.type = "PUBREL" /\ p.ctx.kind = k)
        BY <1>4, <2>1, <3>2
      <4>2. Rising(Append(owed, p), "PUBREL", k)
        BY <1>2, <1>4, <3>0, <4>1, CarriedAppend
      <4> QED  BY <2>1, <4>2
    <3> QED  BY <3>1, <3>2
  <2>6. OrderOK'
    BY <1>1, <1>8, <2>4, <2>5 DEF OrderOK
  <2>7. PacketsOK'
    <3>1. \A i \in DOMAIN owed' : (i \in DOMAIN owed /\ owed'[i] = owed[i]) \/ owed'[i] = p
      BY <1>2, <1>4, <2>1
    <3>2. PacketOK(p) /\ p.type # "PUBLISH"
      BY <1>4, <2>1 DEF PacketOK
    <3>3. (\A i \in DOMAIN owed : PacketOK(owed[i]) /\ owed[i].type # "PUBLISH")'
      BY <3>1, <3>2 DEF PacketsOK
    <3>4. \A i \in DOMAIN toServer' : toServer'[i].type = "PUBREC" => toServer'[i].ctx.kind = "srv2"
      BY <1>1, <1>3 DEF PacketsOK
    <3> QED  BY <1>1, <1>6, <3>3, <3>4 DEF PacketsOK
  <2>8. Releases' = Releases
    <3>1. \A g : g \in Tags(toServer, "PUBREC") <=>
            g \in Tags(Tail(toServer), "PUBREC") \/ (m.type = "PUBREC" /\ g = <<m.id, m.ctx>>)
      BY <1>1, <1>2, CarriedTail, ZenonT(60) DEF m
    <3>2. \A g : g \in Tags(Append(owed, p), "PUBREL") <=>
            g \in Tags(owed, "PUBREL") \/ (p.type = "PUBREL" /\ g = <<p.id, p.ctx>>)
      BY <1>2, <1>4, CarriedAppend
    <3> QED  BY <1>1, <1>4, <1>6, <1>11, <2>1, <3>1, <3>2 DEF Releases
  <2> QED  BY <1>1, <2>6, <2>7, <2>8, BrokerCopies
<1> QED  BY <1>10, <1>11
LEMMA BrokerAnswerLine ==
  ASSUME CallbackInv, OrderOK, PacketsOK, CopiesOK, BrokerAnswer
  PROVE  OrderOK' /\ PacketsOK' /\ CopiesOK'
<1>1. /\ UNCHANGED <<delivered, toServer, pushes>> /\ UNCHANGED <<clientVars, threadVars>>
      /\ UNCHANGED <<tpc, resp, waiting, ack_queue>>
  BY DEF BrokerAnswer, clientVars, threadVars
<1>2. toClient \in Seq(Messages) /\ owed \in Seq(Messages)
  BY DEF CallbackInv, IndInv, TypeOK, NetTypeOK
<1>3. PICK i \in DOMAIN owed :
        /\ owed[i].type \in {"PINGRESP", "PUBREL"} => \A j \in 1..(i - 1) : owed[j].type # owed[i].type
        /\ toClient' = Append(toClient, owed[i]) /\ owed' = RemoveAt(owed, i)
  BY DEF BrokerAnswer
<1> DEFINE m == owed[i]
           n == m.ctx.n
<1>4. m \in Messages /\ m.type # "PUBLISH" /\ PacketOK(m)
  BY <1>2, <1>3 DEF PacketsOK
<1>a. /\ DOMAIN RemoveAt(owed, i) = 1..(Len(owed) - 1) /\ DOMAIN owed = 1..Len(owed) /\ Len(owed) \in Nat
      /\ \A j \in 1..(Len(owed) - 1) : RemoveAt(owed, i)[j] = owed[IF j < i THEN j ELSE j + 1]
  BY <1>2, RemoveAtFacts
<1>b. \A j \in DOMAIN owed' : \E l \in DOMAIN owed : owed'[j] = owed[l]
  BY <1>3, <1>a
<1>c. \A j \in DOMAIN toClient' : (j \in DOMAIN toClient /\ toClient'[j] = toClient[j]) \/ toClient'[j] = m
  BY <1>2, <1>3, <1>4
<1>5. ASSUME NEW k \in SrvKinds
      PROVE  /\ \A y \in Numbers(owed', "PUBREL", k) : y \in Numbers(owed, "PUBREL", k)
             /\ Rising(owed', "PUBREL", k)
             /\ Numbers(toClient', "PUBLISH", k) = Numbers(toClient, "PUBLISH", k)
             /\ Rising(toClient', "PUBLISH", k)
  <2>1. Rising(owed, "PUBREL", k) /\ Rising(toClient, "PUBLISH", k)
    BY DEF OrderOK
  <2>2. \A y \in Numbers(RemoveAt(owed, i), "PUBREL", k) : y \in Numbers(owed, "PUBREL", k)
    BY <1>2, CarriedRemove, ZenonT(60)
  <2>3. Rising(RemoveAt(owed, i), "PUBREL", k)
    BY <1>2, <2>1, CarriedRemove, ZenonT(60)
  <2>4. /\ Numbers(Append(toClient, m), "PUBLISH", k) = Numbers(toClient, "PUBLISH", k)
        /\ Rising(Append(toClient, m), "PUBLISH", k)
    BY <1>2, <1>4, <2>1, OtherAppended, ZenonT(60)
  <2> QED  BY <1>3, <2>2, <2>3, <2>4
<1>6. ASSUME NEW k \in SrvKinds
      PROVE  /\ Line(k)'[1] = Line(k)[1] /\ Line(k)'[2] = Line(k)[2]
             /\ Line(k)'[3] = Numbers(toClient', "PUBREL", k) /\ Line(k)'[4] = Numbers(owed', "PUBREL", k)
             /\ Line(k)'[5] = Line(k)[5] /\ Line(k)'[6] = Line(k)[6]
             /\ Line(k)'[7] = Numbers(toClient', "PUBLISH", k) /\ Line(k)'[8] = Line(k)[8]
             /\ Line(k)[3] = Numbers(toClient, "PUBREL", k) /\ Line(k)[4] = Numbers(owed, "PUBREL", k)
             /\ Line(k)[7] = Numbers(toClient, "PUBLISH", k)
  <2>1. \A t : Handled(t, k)' = Handled(t, k)
    BY <1>1 DEF Handled
  <2> QED  BY <1>1, <2>1 DEF Line
<1>7. PacketsOK'
  <2>1. (\A j \in DOMAIN owed : PacketOK(owed[j]) /\ owed[j].type # "PUBLISH")'
    BY <1>b DEF PacketsOK
  <2>2. (\A j \in DOMAIN toClient : PacketOK(toClient[j]))'
    BY <1>4, <1>c DEF PacketsOK
  <2> QED  BY <1>1, <2>1, <2>2 DEF PacketsOK
<1>8. CopiesOK'
  <2>1. \A g : g \in Tags(owed, "PUBREL") <=>
          g \in Tags(RemoveAt(owed, i), "PUBREL") \/ (m.type = "PUBREL" /\ g = <<m.id, m.ctx>>)
    BY <1>2, CarriedRemove, ZenonT(60)
  <2>2. \A g : g \in Tags(Append(toClient, m), "PUBREL") <=>
          g \in Tags(toClient, "PUBREL") \/ (m.type = "PUBREL" /\ g = <<m.id, m.ctx>>)
    BY <1>2, <1>4, CarriedAppend
  <2>3. Releases' = Releases
    BY <1>1, <1>3, <2>1, <2>2 DEF Releases
  <2> QED  BY <1>1, <2>3, BrokerCopies
<1>9. CASE m.type # "PUBREL"
  <2>1. ASSUME NEW k \in SrvKinds
        PROVE  Numbers(toClient', "PUBREL", k) = Numbers(toClient, "PUBREL", k) /\ Rising(toClient', "PUBREL", k)
    <3>1. Rising(toClient, "PUBREL", k)
      BY DEF OrderOK
    <3>2. /\ Numbers(Append(toClient, m), "PUBREL", k) = Numbers(toClient, "PUBREL", k)
          /\ Rising(Append(toClient, m), "PUBREL", k)
      BY <1>2, <1>4, <1>9, <3>1, OtherAppended, ZenonT(60)
    <3> QED  BY <1>3, <3>2
  <2>2. ASSUME NEW k \in SrvKinds  PROVE InLine(Line(k))'
    <3>1. \A a \in 1..8 : \A y \in Line(k)'[a] : y \in Line(k)[a]
      BY <1>5, <1>6, <2>1
    <3> QED  BY <3>1, LineStays
  <2>3. OrderOK'
    BY <1>1, <1>5, <2>1, <2>2 DEF OrderOK
  <2> QED  BY <1>7, <1>8, <2>3
<1>10. CASE m.type = "PUBREL"
  <2>1. m.ctx.kind = "srv2" /\ "srv2" \in SrvKinds /\ \A j \in 1..(i - 1) : owed[j].type # "PUBREL"
    BY <1>3, <1>4, <1>10 DEF PacketOK, SrvKinds
  <2>2. n \in Numbers(owed, "PUBREL", "srv2") /\ \A y \in Numbers(owed', "PUBREL", "srv2") : n < y
    <3>1. Rising(owed, "PUBREL", "srv2")
      BY <2>1 DEF OrderOK
    <3>2. owed[i].ctx.n \in Numbers(owed, "PUBREL", "srv2")
      BY <1>10, <2>1 DEF Numbers, About
    <3>3. \A y \in Numbers(RemoveAt(owed, i), "PUBREL", "srv2") : owed[i].ctx.n < y
      BY <1>2, <1>10, <2>1, <3>1, CarriedRemove
    <3> QED  BY <1>3, <3>2, <3>3
  <2>3. ASSUME NEW k \in SrvKinds
        PROVE  \A y : y \in Numbers(toClient', "PUBREL", k) <=>
                 y \in Numbers(toClient, "PUBREL", k) \/ (k = "srv2" /\ y = n)
    <3>1. \A y : y \in Numbers(Append(toClient, m), "PUBREL", k) <=>
            y \in Numbers(toClient, "PUBREL", k) \/ (m.type = "PUBREL" /\ m.ctx.kind = k /\ y = m.ctx.n)
      BY <1>2, <1>4, CarriedAppend
    <3> QED  BY <1>3, <1>10, <2>1, <3>1
  <2>4. ASSUME NEW k \in SrvKinds  PROVE InLine(Line(k))'
    <3>1. CASE k = "srv2"
      <4>1. n \in Line(k)[4]
        BY <1>6, <2>2, <3>1
      <4>2. \A a \in 1..8 : \A y \in Line(k)'[a] : y \in Line(k)[a] \/ (a = 3 /\ y = n)
        BY <1>5, <1>6, <2>3
      <4>3. \A a \in 1..8 : 3 < a /\ a <= 4 => \A y \in Line(k)'[a] : n < y
        BY <1>6, <2>2, <3>1
      <4> QED  BY <4>1, <4>2, <4>3, LineMoves DEF CallbackInv
    <3>2. CASE k # "srv2"
      <4>1. \A a \in 1..8 : \A y \in Line(k)'[a] : y \in Line(k)[a]
        BY <1>5, <1>6, <2>3, <3>2
      <4> QED  BY <4>1, LineStays
    <3> QED  BY <3>1, <3>2
  <2>5. ASSUME NEW k \in SrvKinds  PROVE Rising(toClient', "PUBREL", k)
    <3>0. Rising(toClient, "PUBREL", k) /\ InLine(Line(k))
      BY DEF OrderOK
    <3>1. CASE k = "srv2"
      <4>1. \A y \in Numbers(toClient, "PUBREL", k) : y < m.ctx.n
        <5>1. n \in Line(k)[4]
          BY <1>6, <2>2, <3>1
        <5> QED  BY <1>6, <3>0, <5>1 DEF InLine
      <4>2. Rising(Append(toClient, m), "PUBREL", k)
        BY <1>2, <1>4, <3>0, <4>1, CarriedAppend
      <4> QED  BY <1>3, <4>2
    <3>2. CASE k # "srv2"
      <4>1. ~(m.type = "PUBREL" /\ m.ctx.kind = k)
        BY <2>1, <3>2
      <4>2. Rising(Append(toClient, m), "PUBREL", k)
        BY <1>2, <1>4, <3>0, <4>1, CarriedAppend
      <4> QED  BY <1>3, <4>2
    <3> QED  BY <3>1, <3>2
  <2>6. OrderOK'
    BY <1>1, <1>5, <2>4, <2>5 DEF OrderOK
  <2> QED  BY <1>7, <1>8, <2>6
<1> QED  BY <1>9, <1>10
LEMMA BrokerPublishLine ==
  ASSUME CallbackInv, OrderOK, PacketsOK, CopiesOK, NEW q \in 0..2, BrokerPublish(q)
  PROVE  OrderOK' /\ PacketsOK' /\ CopiesOK'
<1> DEFINE x == [kind |-> SrvKind[q + 1], n |-> pushes[q] + 1]
<1>1. /\ UNCHANGED <<delivered, toServer, owed>> /\ UNCHANGED <<clientVars, threadVars>>
      /\ UNCHANGED <<tpc, resp, waiting, ack_queue>>
      /\ pushes' = [pushes EXCEPT ![q] = @ + 1]
  BY DEF BrokerPublish, clientVars, threadVars
<1>2. toClient \in Seq(Messages) /\ pushes \in [0..2 -> Nat]
  BY DEF CallbackInv, IndInv, TypeOK, NetTypeOK, HistoryTypeOK
<1>3. PICK id \in PacketIds : toClient' = Append(toClient, Msg("PUBLISH", q, id, x))
  BY MaxIdType, IdAssumption DEF BrokerPublish, PacketIds
<1> DEFINE m == Msg("PUBLISH", q, id, x)
           n == pushes[q] + 1
<1>4. /\ x.kind \in SrvKinds /\ Qos(x.kind) = q /\ x.n = n /\ n \in Nat
      /\ \A k \in SrvKinds : Qos(k) = q => k = x.kind
      /\ \A k \in SrvKinds : Qos(k) \in 0..2
  <2>1. x.kind \in SrvKinds /\ Qos(x.kind) = q
    BY DEF SrvKind, SrvKinds, Qos
  <2>2. x.n = n /\ n \in Nat
    BY <1>2
  <2>3. \A k \in SrvKinds : Qos(k) \in 0..2 /\ (Qos(k) = q => k = x.kind)
    BY DEF SrvKind, SrvKinds, Qos
  <2> QED  BY <2>1, <2>2, <2>3
<1>5. m \in Messages /\ m.type = "PUBLISH" /\ m.ctx = x /\ m.qos = q
  <2>1. x \in Contexts
    BY <1>4 DEF SrvKinds, Contexts
  <2> QED  BY <2>1 DEF Msg, Messages
<1>c. \A j \in DOMAIN toClient' : (j \in DOMAIN toClient /\ toClient'[j] = toClient[j]) \/ toClient'[j] = m
  BY <1>2, <1>3, <1>5
<1>d. \A k \in SrvKinds : pushes'[Qos(k)] = IF k = x.kind THEN n ELSE pushes[Qos(k)]
  BY <1>1, <1>2, <1>4
<1> HIDE DEF x, m
<1>6. ASSUME NEW k \in SrvKinds
      PROVE  /\ Numbers(toClient', "PUBREL", k) = Numbers(toClient, "PUBREL", k)
             /\ Rising(toClient', "PUBREL", k)
             /\ Tags(toClient', "PUBREL") = Tags(toClient, "PUBREL")
  <2>1. Rising(toClient, "PUBREL", k) /\ m.type # "PUBREL"
    BY <1>5 DEF OrderOK
  <2>2. /\ Numbers(Append(toClient, m), "PUBREL", k) = Numbers(toClient, "PUBREL", k)
        /\ Rising(Append(toClient, m), "PUBREL", k)
        /\ Tags(Append(toClient, m), "PUBREL") = Tags(toClient, "PUBREL")
    BY <1>2, <1>5, <2>1, OtherAppended, ZenonT(60)
  <2> QED  BY <1>3, <2>2 DEF m
<1>7. ASSUME NEW k \in SrvKinds
      PROVE  \A y : y \in Numbers(toClient', "PUBLISH", k) <=>
               y \in Numbers(toClient, "PUBLISH", k) \/ (k = x.kind /\ y = n)
  <2>1. \A y : y \in Numbers(Append(toClient, m), "PUBLISH", k) <=>
          y \in Numbers(toClient, "PUBLISH", k) \/ (m.type = "PUBLISH" /\ m.ctx.kind = k /\ y = m.ctx.n)
    BY <1>2, <1>5, CarriedAppend
  <2> QED  BY <1>3, <1>4, <1>5, <2>1 DEF m
<1>8. ASSUME NEW k \in SrvKinds
      PROVE  /\ Line(k)'[1] = Line(k)[1] /\ Line(k)'[2] = Line(k)[2]
             /\ Line(k)'[3] = Numbers(toClient', "PUBREL", k) /\ Line(k)'[4] = Line(k)[4]
             /\ Line(k)'[5] = Line(k)[5] /\ Line(k)'[6] = Line(k)[6]
             /\ Line(k)'[7] = Numbers(toClient', "PUBLISH", k) /\ Line(k)'[8] = {pushes'[Qos(k)] + 1}
             /\ Line(k)[3] = Numbers(toClient, "PUBREL", k) /\ Line(k)[7] = Numbers(toClient, "PUBLISH", k)
             /\ Line(k)[8] = {pushes[Qos(k)] + 1}
  <2>1. \A t : Handled(t, k)' = Handled(t, k)
    BY <1>1 DEF Handled
  <2> QED  BY <1>1, <2>1 DEF Line
<1>9. ASSUME NEW k \in SrvKinds  PROVE InLine(Line(k))'
  <2>1. CASE k = x.kind
    <3>1. n \in Line(k)[8] /\ Line(k)'[8] = {n + 1}
      BY <1>4, <1>8, <1>d, <2>1
    <3>2. InLine(Line(k)) /\ \A a \in 1..8 : Line(k)[a] \subseteq Nat
      BY LineType DEF OrderOK, CallbackInv
    <3>3. \A a \in 1..7 : \A y \in Line(k)[a] : y < n /\ y \in Nat
      BY <3>1, <3>2 DEF InLine
    <3>4. \A a \in 1..7 : \A y \in Line(k)'[a] : y \in Line(k)[a] \/ (a = 7 /\ y = n)
      BY <1>6, <1>7, <1>8
    <3>5. ASSUME NEW a \in 1..8, NEW b \in 1..8, a < b, NEW y \in Line(k)'[a], NEW z \in Line(k)'[b]
          PROVE  y < z
      <4>1. a \in 1..7 /\ (y \in Line(k)[a] \/ (a = 7 /\ y = n))
        BY <3>4, <3>5
      <4>2. CASE b = 8
        <5>1. z = n + 1
          BY <3>1, <3>5, <4>2
        <5>2. y \in Nat /\ y <= n
          BY <1>4, <3>3, <4>1
        <5> QED  BY <1>4, <5>1, <5>2
      <4>3. CASE b # 8
        <5>1. b \in 1..7 /\ a # 7
          BY <3>5, <4>3
        <5>2. y \in Line(k)[a] /\ (z \in Line(k)[b] \/ z = n)
          BY <3>4, <3>5, <4>1, <5>1
        <5> QED  BY <3>2, <3>3, <3>5, <4>1, <5>2 DEF InLine
      <4> QED  BY <4>2, <4>3
    <3> QED  BY <3>5 DEF InLine
  <2>2. CASE k # x.kind
    <3>1. \A a \in 1..8 : \A y \in Line(k)'[a] : y \in Line(k)[a]
      BY <1>6, <1>7, <1>8, <1>d, <2>2
    <3> QED  BY <3>1, LineStays
  <2> QED  BY <2>1, <2>2
<1>10. ASSUME NEW k \in SrvKinds  PROVE Rising(toClient', "PUBLISH", k)
  <2>0. Rising(toClient, "PUBLISH", k) /\ InLine(Line(k))
    BY DEF OrderOK
  <2>1. CASE k = x.kind
    <3>1. \A y \in Numbers(toClient, "PUBLISH", k) : y < m.ctx.n
      <4>1. n \in Line(k)[8]
        BY <1>4, <1>8, <2>1
      <4> QED  BY <1>4, <1>5, <1>8, <2>0, <4>1 DEF InLine
    <3>2. Rising(Append(toClient, m), "PUBLISH", k)
      BY <1>2, <1>5, <2>0, <3>1, CarriedAppend
    <3> QED  BY <1>3, <3>2 DEF m
  <2>2. CASE k # x.kind
    <3>1. ~(m.type = "PUBLISH" /\ m.ctx.kind = k)
      BY <1>5, <2>2
    <3>2. Rising(Append(toClient, m), "PUBLISH", k)
      BY <1>2, <1>5, <2>0, <3>1, CarriedAppend
    <3> QED  BY <1>3, <3>2 DEF m
  <2> QED  BY <2>1, <2>2
<1>11. OrderOK'
  BY <1>1, <1>6, <1>9, <1>10 DEF OrderOK
<1>12. PacketsOK'
  <2>1. PacketOK(m)
    BY <1>4, <1>5 DEF PacketOK
  <2>2. (\A j \in DOMAIN toClient : PacketOK(toClient[j]))'
    BY <1>c, <2>1 DEF PacketsOK
  <2> QED  BY <1>1, <2>2 DEF PacketsOK
<1>13. Releases' = Releases
  <2>1. Tags(toClient', "PUBREL") = Tags(toClient, "PUBREL")
    BY <1>6 DEF SrvKinds
  <2> QED  BY <1>1, <2>1 DEF Releases
<1> QED  BY <1>1, <1>11, <1>12, <1>13, BrokerCopies

-----------------------------------------------------------------------------
(* The invariant.                                                          *)

LEMMA SlotsStep ==
  ASSUME CallbackInv, SlotsOK, [Next]_vars
  PROVE  SlotsOK'
<1>1. CASE UNCHANGED buffer_slots
  BY <1>1 DEF SlotsOK
<1>2. ASSUME NEW c \in Callers, MakeMessage(c)  PROVE SlotsOK'
  <2>1. RequestFor(op[c]).type \in {"PINGREQ", "SUBSCRIBE", "UNSUBSCRIBE", "PUBLISH"}
    BY DEF RequestFor, Msg
  <2>2. buffer_slots' = [buffer_slots EXCEPT ![slot[c]] = RequestFor(op[c])]
    BY <1>2 DEF MakeMessage
  <2>3. buffer_slots \in [Slots -> Messages \cup {NoMsg}]
    BY DEF CallbackInv, IndInv, TypeOK, ClientTypeOK
  <2> QED  BY <2>1, <2>2, <2>3 DEF SlotsOK
<1>3. UNCHANGED buffer_slots \/ \E c \in Callers : MakeMessage(c)
  <2>1. ASSUME NEW c \in Callers, CallerStep(c) \/ SignalDisconnect(c)
        PROVE  UNCHANGED buffer_slots \/ MakeMessage(c)
    BY <2>1 DEF CallerStep, SignalDisconnect, GetBufferSlot, FillWaiting, EnqueueWaiting,
       LoadPacketId, StorePacketId, EnqueueSlotForSend, JoinSessionThread, SendDisconnect, clientVars
  <2>2. ASSUME NEW c \in Callers, NEW k \in Kinds, Call(c, k)  PROVE UNCHANGED buffer_slots
    BY <2>2 DEF Call, clientVars
  <2>3. ASSUME SessionStep  PROVE UNCHANGED buffer_slots
    BY <2>3 DEF SessionStep, TopOfLoop, SendSlot, FreeSlot, ServerReceive, OnFinalAck, OnSuback,
       InvokeCallback, OnHandshake, OnPublish, Reply, RequeueWaiting, Deliver, Crash, clientVars
  <2>4. ASSUME BrokerStep \/ BrokerClose \/ \E q \in 0..2 : BrokerPublish(q)
        PROVE  UNCHANGED buffer_slots
    BY <2>4 DEF BrokerStep, BrokerReceive, BrokerAnswer, BrokerClose, BrokerPublish, clientVars
  <2>5. ASSUME UNCHANGED vars  PROVE UNCHANGED buffer_slots
    BY <2>5 DEF vars, clientVars
  <2> QED  BY <2>1, <2>2, <2>3, <2>4, <2>5 DEF Next
<1> QED  BY <1>1, <1>2, <1>3

\* A connection that is gone does not come back.
LEMMA NeverUpAgain ==
  ASSUME [Next]_vars, link' = "up"
  PROVE  link = "up"
<1>1. ASSUME NEW c \in Callers, CallerStep(c) \/ SignalDisconnect(c)  PROVE link = "up"
  BY <1>1 DEF CallerStep, SignalDisconnect, GetBufferSlot, MakeMessage, FillWaiting, EnqueueWaiting,
     LoadPacketId, StorePacketId, EnqueueSlotForSend, JoinSessionThread, SendDisconnect, SendOk, netVars
<1>2. ASSUME NEW c \in Callers, NEW k \in Kinds, Call(c, k)  PROVE link = "up"
  BY <1>2 DEF Call, netVars
<1>3. ASSUME SessionStep  PROVE link = "up"
  <2>1. CASE Reply \/ SendSlot
    BY <2>1 DEF Reply, SendSlot, SendOk, SendFails
  <2>2. CASE ~(Reply \/ SendSlot)
    BY <1>3, <2>2 DEF SessionStep, TopOfLoop, FreeSlot, ServerReceive, OnFinalAck, OnSuback,
       InvokeCallback, OnHandshake, OnPublish, RequeueWaiting, Deliver, Crash, netVars
  <2> QED  BY <2>1, <2>2
<1>4. ASSUME BrokerStep \/ BrokerClose \/ \E q \in 0..2 : BrokerPublish(q)
      PROVE  link = "up"
  BY <1>4 DEF BrokerStep, BrokerReceive, BrokerAnswer, BrokerClose, BrokerPublish
<1>5. ASSUME UNCHANGED vars  PROVE link = "up"
  BY <1>5 DEF vars, netVars
<1> QED  BY <1>1, <1>2, <1>3, <1>4, <1>5 DEF Next

LEMMA LineStep == CallbackInv /\ LineInv /\ [Next]_vars => LineInv'
<1> SUFFICES ASSUME CallbackInv, LineInv, [Next]_vars  PROVE LineInv'
  OBVIOUS
<1>0. SlotsOK'
  BY SlotsStep DEF LineInv
<1>1. SUFFICES ASSUME link' = "up"  PROVE OrderOK' /\ PacketsOK' /\ CopiesOK'
  BY <1>0 DEF LineInv
<1>2. link = "up" /\ OrderOK /\ PacketsOK /\ CopiesOK /\ SlotsOK
  BY <1>1, NeverUpAgain DEF LineInv
<1>3. ASSUME NEW c \in Callers, CallerStep(c) \/ SignalDisconnect(c) \/ \E k \in Kinds : Call(c, k)
      PROVE  OrderOK' /\ PacketsOK' /\ CopiesOK'
  BY <1>2, <1>3, CallerLine
<1>4. ASSUME SessionStep  PROVE OrderOK' /\ PacketsOK' /\ CopiesOK'
  BY <1>1, <1>2, <1>4, LoopLine, AckLine, ReceiveLine, PublishLine, PubrelLine, ReplyLine,
     RequeueLine, DeliverLine DEF SessionStep
<1>5. ASSUME BrokerStep  PROVE OrderOK' /\ PacketsOK' /\ CopiesOK'
  BY <1>2, <1>5, BrokerReceiveLine, BrokerAnswerLine DEF BrokerStep
<1>6. ~BrokerClose
  BY <1>1 DEF BrokerClose
<1>7. ASSUME NEW q \in 0..2, BrokerPublish(q)  PROVE OrderOK' /\ PacketsOK' /\ CopiesOK'
  BY <1>2, <1>7, BrokerPublishLine
<1>8. ASSUME UNCHANGED vars  PROVE OrderOK' /\ PacketsOK' /\ CopiesOK'
  <2>1. UNCHANGED <<delivered, toClient, owed, pushes, toServer, ack_queue, tpc, resp, waiting>>
    BY <1>8 DEF vars, clientVars, threadVars, netVars, historyVars
  <2> QED  BY <1>2, <2>1, SameServer, SameQueue, Quiet DEF QuietServer, QuietQueue, CallbackInv
<1> QED  BY <1>3, <1>4, <1>5, <1>6, <1>7, <1>8 DEF Next

LEMMA LineInit == Init => LineInv
<1> SUFFICES ASSUME Init  PROVE LineInv
  OBVIOUS
<1>1. SlotsOK
  BY DEF Init, SlotsOK
<1>2. /\ toClient = <<>> /\ owed = <<>> /\ toServer = <<>> /\ ack_queue = <<>> /\ delivered = <<>>
      /\ tpc = "top"
  BY DEF Init
<1>3. \A t, k : Numbers(<<>>, t, k) = {} /\ Rising(<<>>, t, k) /\ Tags(<<>>, t) = {} /\ Handled(t, k) = {}
  BY <1>2 DEF Numbers, Rising, About, Tags, Handled
<1>4. ASSUME NEW k \in SrvKinds  PROVE InLine(Line(k))
  <2>1. \A a \in 1..7 : Line(k)[a] = {}
    BY <1>2, <1>3 DEF Line
  <2> QED  BY <2>1 DEF InLine
<1>5. OrderOK
  BY <1>2, <1>3, <1>4 DEF OrderOK
<1>6. PacketsOK
  BY <1>2 DEF PacketsOK
<1>7. CopiesOK
  BY <1>2, <1>3 DEF CopiesOK, Copies, Releases, Storing
<1> QED  BY <1>1, <1>5, <1>6, <1>7 DEF LineInv

-----------------------------------------------------------------------------
(* What the client has taken over, the application has.                    *)

TakenOver(m) == m.type \in {"PUBACK", "PUBCOMP"}

\* A step that sends no PUBACK or PUBCOMP, and does not take a publication
\* out of the thread's hand.
LEMMA StayHanded ==
  ASSUME HandoverSafe, process' = "running" => process = "running",
         \A i \in DOMAIN toServer' :
           TakenOver(toServer'[i]) => \E j \in DOMAIN toServer : toServer'[i] = toServer[j],
         UNCHANGED delivered,
         tpc = "deliver" => UNCHANGED <<tpc, resp, waiting>>
  PROVE  HandoverSafe'
<1>1. SUFFICES ASSUME process' = "running", NEW i \in DOMAIN toServer', TakenOver(toServer'[i])
               PROVE  \/ toServer'[i].ctx \in ToSet(delivered')
                      \/ tpc' = "deliver" /\ toServer'[i].ctx = Delivering'
  BY DEF HandoverSafe, TakenOver
<1>2. PICK j \in DOMAIN toServer : toServer'[i] = toServer[j]
  BY <1>1
<1>3. toServer[j].ctx \in ToSet(delivered) \/ (tpc = "deliver" /\ toServer[j].ctx = Delivering)
  BY <1>1, <1>2 DEF HandoverSafe, TakenOver
<1>4. tpc = "deliver" => tpc' = "deliver" /\ Delivering' = Delivering
  BY DEF Delivering
<1> QED  BY <1>2, <1>3, <1>4

LEMMA HandedCaller ==
  ASSUME HandoverSafe, NEW c \in Callers,
         CallerStep(c) \/ SignalDisconnect(c) \/ \E k \in Kinds : Call(c, k)
  PROVE  HandoverSafe'
<1>1. CASE SendDisconnect(c) \/ JoinSessionThread(c)
  <2>1. process' # "running"
    BY <1>1 DEF SendDisconnect, JoinSessionThread
  <2> QED  BY <2>1 DEF HandoverSafe
<1>2. CASE ~(SendDisconnect(c) \/ JoinSessionThread(c))
  <2>1. UNCHANGED <<toServer, delivered, process, tpc, resp, waiting>>
    BY <1>2 DEF CallerStep, SignalDisconnect, Call, GetBufferSlot, MakeMessage, FillWaiting,
       EnqueueWaiting, LoadPacketId, StorePacketId, EnqueueSlotForSend,
       clientVars, threadVars, netVars, historyVars
  <2> QED  BY <2>1, StayHanded
<1> QED  BY <1>1, <1>2

LEMMA HandedReply ==
  ASSUME CallbackInv, LineInv, HandoverSafe, Reply
  PROVE  HandoverSafe'
<1>1. /\ tpc = "reply" /\ process = "running" /\ UNCHANGED <<delivered, resp, process>>
      /\ toServer \in Seq(Messages) /\ resp \in Messages
  <2>1. tpc = "reply" /\ process = "running" /\ UNCHANGED <<delivered, resp, process>>
    BY DEF Reply, ThreadStep, historyVars
  <2>2. resp \in Messages
    BY <2>1 DEF CallbackInv, IndInv, ThreadOK
  <2> QED  BY <2>1, <2>2 DEF CallbackInv, IndInv, TypeOK, NetTypeOK
<1> DEFINE m == Msg(ReplyType, 0, Wire(resp.id), resp.ctx)
<1>2. CASE toServer' = toServer
  BY <1>1, <1>2, StayHanded
<1>3. CASE toServer' # toServer
  <2>1. link = "up" /\ SendOk(m) /\ toServer' = Append(toServer, m)
    BY <1>3 DEF Reply, SendOk, SendFails
  <2>2. m.type = ReplyType /\ m.ctx = resp.ctx
    BY DEF Msg
  <2>3. ~TakenOver(m) \/ (tpc' = "deliver" /\ waiting' = waiting /\ resp.type \in {"PUBLISH", "PUBREL"})
    <3>1. CASE resp.type = "PUBREC" \/ (resp.type = "PUBLISH" /\ resp.qos # 1)
      BY <2>2, <3>1 DEF TakenOver, ReplyType
    <3>2. CASE resp.type = "PUBREL" \/ (resp.type = "PUBLISH" /\ resp.qos = 1)
      <4>1. tpc' = "deliver" /\ waiting' = waiting
        BY <1>1, <1>3, <3>2 DEF Reply, SendFails
      <4> QED  BY <3>2, <4>1
    <3>3. resp.type \in {"PUBREC", "PUBREL", "PUBLISH"}
      BY <1>1, <2>1 DEF LineInv, PacketsOK
    <3> QED  BY <3>1, <3>2, <3>3
  <2>4. TakenOver(m) => m.ctx = Delivering'
    <3>1. resp.type = "PUBREL" => waiting.ctx = resp.ctx
      BY <1>1, <2>1 DEF LineInv, PacketsOK
    <3> QED  BY <1>1, <2>2, <2>3, <3>1 DEF Delivering
  <2>5. SUFFICES ASSUME NEW i \in DOMAIN toServer', TakenOver(toServer'[i])
                 PROVE  \/ toServer'[i].ctx \in ToSet(delivered)
                        \/ tpc' = "deliver" /\ toServer'[i].ctx = Delivering'
    BY <1>1 DEF HandoverSafe, TakenOver
  <2> HIDE DEF m
  <2>6. (i \in DOMAIN toServer /\ toServer'[i] = toServer[i]) \/ toServer'[i] = m
    BY <1>1, <2>1, <2>5
  <2>7. CASE toServer'[i] = m
    BY <2>3, <2>4, <2>5, <2>7
  <2>8. CASE i \in DOMAIN toServer /\ toServer'[i] = toServer[i]
    BY <1>1, <2>5, <2>8 DEF HandoverSafe, TakenOver
  <2> QED  BY <2>6, <2>7, <2>8
<1> QED  BY <1>2, <1>3

LEMMA HandedDeliver ==
  ASSUME CallbackInv, HandoverSafe, MsgCallback, Deliver
  PROVE  HandoverSafe'
<1>1. /\ process = "running" /\ UNCHANGED toServer /\ delivered' = Append(delivered, Delivering)
      /\ delivered \in Seq(Contexts)
  BY DEF Deliver, ThreadStep, netVars, CallbackInv, IndInv, TypeOK, HistoryTypeOK
<1>2. \A x : x \in ToSet(delivered) \/ x = Delivering => x \in ToSet(delivered')
  <2>1. /\ Len(delivered) + 1 \in DOMAIN delivered' /\ delivered'[Len(delivered) + 1] = Delivering
        /\ \A i \in DOMAIN delivered : i \in DOMAIN delivered' /\ delivered'[i] = delivered[i]
    BY <1>1
  <2> QED  BY <2>1 DEF ToSet
<1> QED  BY <1>1, <1>2 DEF HandoverSafe

LEMMA HandedSession ==
  ASSUME CallbackInv, LineInv, HandoverSafe, MsgCallback, SessionStep
  PROVE  HandoverSafe'
<1>1. CASE SendSlot
  <2>1. tpc = "send" /\ UNCHANGED <<delivered, process>>
    BY <1>1 DEF SendSlot, ThreadStep, clientVars
  <2> DEFINE m == buffer_slots[position]
  <2>2. m \in Messages /\ ~TakenOver(m)
    <3>1. m \in Messages
      BY <2>1 DEF CallbackInv, IndInv, ThreadOK
    <3>2. position \in Slots
      BY <2>1 DEF CallbackInv, IndInv, ThreadOK, TypeOK, ThreadTypeOK
    <3> QED  BY <3>1, <3>2, NoMsgAssumption DEF LineInv, SlotsOK, TakenOver
  <2>3. toServer \in Seq(Messages)
    BY DEF CallbackInv, IndInv, TypeOK, NetTypeOK
  <2>4. toServer' = toServer \/ toServer' = Append(toServer, m)
    BY <1>1 DEF SendSlot, SendOk, SendFails
  <2> HIDE DEF m
  <2>5. \A i \in DOMAIN toServer' :
          TakenOver(toServer'[i]) => \E j \in DOMAIN toServer : toServer'[i] = toServer[j]
    <3>1. ASSUME NEW i \in DOMAIN toServer', TakenOver(toServer'[i])
          PROVE  i \in DOMAIN toServer /\ toServer'[i] = toServer[i]
      <4>1. (i \in DOMAIN toServer /\ toServer'[i] = toServer[i]) \/ toServer'[i] = m
        BY <2>2, <2>3, <2>4, <3>1
      <4> QED  BY <2>2, <3>1, <4>1
    <3> QED  BY <3>1
  <2> QED  BY <2>1, <2>5, StayHanded
<1>2. CASE Reply
  BY <1>2, HandedReply
<1>3. CASE Deliver
  BY <1>3, HandedDeliver
<1>4. CASE Crash
  <2>1. process' # "running"
    BY <1>4 DEF Crash
  <2> QED  BY <2>1 DEF HandoverSafe
<1>5. ASSUME ~SendSlot, ~Reply, ~Deliver, ~Crash  PROVE HandoverSafe'
  <2>1. UNCHANGED <<delivered, toServer>> /\ tpc # "deliver"
    BY <1>5 DEF SessionStep, TopOfLoop, FreeSlot, ServerReceive, OnFinalAck, OnSuback,
       InvokeCallback, OnHandshake, OnPublish, RequeueWaiting, ThreadStep, netVars, historyVars
  <2>2. process = "running"
    BY <1>5 DEF SessionStep, TopOfLoop, FreeSlot, ServerReceive, OnFinalAck, OnSuback,
       InvokeCallback, OnHandshake, OnPublish, RequeueWaiting, ThreadStep
  <2> QED  BY <2>1, <2>2, StayHanded
<1> QED  BY <1>1, <1>2, <1>3, <1>4, <1>5

LEMMA HandedBroker ==
  ASSUME CallbackInv, HandoverSafe, BrokerStep \/ BrokerClose \/ \E q \in 0..2 : BrokerPublish(q)
  PROVE  HandoverSafe'
<1>1. UNCHANGED <<delivered, process, tpc, resp, waiting>>
  BY DEF BrokerStep, BrokerReceive, BrokerAnswer, BrokerClose, BrokerPublish,
     clientVars, threadVars, historyVars
<1>2. toServer' = toServer \/ (toServer # <<>> /\ toServer' = Tail(toServer))
  BY DEF BrokerStep, BrokerReceive, BrokerAnswer, BrokerClose, BrokerPublish
<1>3. toServer \in Seq(Messages)
  BY DEF CallbackInv, IndInv, TypeOK, NetTypeOK
<1>4. ASSUME NEW i \in DOMAIN toServer'  PROVE \E j \in DOMAIN toServer : toServer'[i] = toServer[j]
  <2>1. CASE toServer' = toServer
    BY <1>4, <2>1
  <2>2. CASE toServer # <<>> /\ toServer' = Tail(toServer)
    <3>1. i + 1 \in DOMAIN toServer /\ toServer'[i] = toServer[i + 1]
      BY <1>3, <1>4, <2>2
    <3> QED  BY <3>1
  <2> QED  BY <1>2, <2>1, <2>2
<1> QED  BY <1>1, <1>4, StayHanded

LEMMA HandoverStep ==
  ASSUME CallbackInv, LineInv, HandoverSafe, MsgCallback, [Next]_vars
  PROVE  HandoverSafe'
<1>1. ASSUME UNCHANGED vars  PROVE HandoverSafe'
  <2>1. UNCHANGED <<delivered, process, toServer, tpc, resp, waiting>>
    BY <1>1 DEF vars, clientVars, threadVars, netVars, historyVars
  <2> QED  BY <2>1, StayHanded
<1> QED  BY <1>1, HandedCaller, HandedSession, HandedBroker DEF Next

\* A PUBACK or PUBCOMP on its way to the broker is about a publication that
\* the application was given, or is just being given: for any number of
\* threads, any identifiers the broker reuses, whatever the wire does to them,
\* and with sends that fail and connections that break.  The proviso is the
\* application's: without a msg_callback nothing is handed over.
THEOREM PublicationsHandedOver == MsgCallback => (Spec => []HandoverSafe)
<1>1. Init => HandoverSafe
  BY DEF Init, HandoverSafe
<1>2. MsgCallback /\ Init => MsgCallback /\ CallbackInv /\ LineInv /\ HandoverSafe
  BY <1>1, OnceInit, LineInit
<1>3. (MsgCallback /\ CallbackInv /\ LineInv /\ HandoverSafe) /\ [Next]_vars
      => (MsgCallback /\ CallbackInv /\ LineInv /\ HandoverSafe)'
  BY OnceStep, LineStep, HandoverStep
<1> QED  BY <1>2, <1>3, PTL DEF Spec

-----------------------------------------------------------------------------
(* Deliveries in order.                                                    *)

Handling == {"dispatch", "callback", "reply", "enqueue_waiting", "deliver"}

\* A step that leaves the connection alone.
LEMMA StayAfter ==
  ASSUME NothingAfter, UNCHANGED link,
         process' = "running" => process = "running",
         tpc' \in Handling => tpc \in Handling \/ link # "null",
         \A i \in DOMAIN toServer' : toServer'[i].type = "DISCONNECT" /\ process' = "running" =>
           \E j \in DOMAIN toServer : toServer'[i] = toServer[j]
  PROVE  NothingAfter'
<1>1. link' = "null" => tpc' \notin Handling
  BY DEF NothingAfter, Handling
<1>2. link' = "closed" => process' # "running"
  BY DEF NothingAfter
<1>3. ASSUME NEW i \in DOMAIN toServer', toServer'[i].type = "DISCONNECT", process' = "running"
      PROVE  FALSE
  <2>1. PICK j \in DOMAIN toServer : toServer'[i] = toServer[j]
    BY <1>3
  <2> QED  BY <1>3, <2>1 DEF NothingAfter
<1> QED  BY <1>1, <1>2, <1>3 DEF NothingAfter, Handling

LEMMA AfterStep ==
  ASSUME CallbackInv, LineInv, NothingAfter, "close" \notin Faults, [Next]_vars
  PROVE  NothingAfter'
<1>0. toServer \in Seq(Messages)
  BY DEF CallbackInv, IndInv, TypeOK, NetTypeOK
<1>1. ASSUME NEW c \in Callers, CallerStep(c) \/ SignalDisconnect(c) \/ \E k \in Kinds : Call(c, k)
      PROVE  NothingAfter'
  <2>1. CASE SendDisconnect(c)
    <3>1. process' # "running" /\ UNCHANGED <<tpc, link>>
      BY <2>1 DEF SendDisconnect, SendOk, threadVars
    <3> QED  BY <3>1, StayAfter
  <2>2. CASE ~SendDisconnect(c)
    <3>1. UNCHANGED <<toServer, link, tpc>> /\ (process' = "running" => process = "running")
      BY <1>1, <2>2 DEF CallerStep, SignalDisconnect, Call, GetBufferSlot, MakeMessage, FillWaiting,
         EnqueueWaiting, LoadPacketId, StorePacketId, EnqueueSlotForSend, JoinSessionThread,
         clientVars, threadVars, netVars
    <3> QED  BY <3>1, StayAfter
  <2> QED  BY <2>1, <2>2
<1>2. ASSUME SessionStep  PROVE NothingAfter'
  <2>1. process = "running"
    BY <1>2 DEF SessionStep, TopOfLoop, SendSlot, FreeSlot, ServerReceive, OnFinalAck, OnSuback,
       InvokeCallback, OnHandshake, OnPublish, Reply, RequeueWaiting, Deliver, Crash, ThreadStep
  <2>2. CASE SendSlot \/ Reply
    <3>1. PICK m : /\ m.type # "DISCONNECT"
                   /\ m \in Messages
                   /\ SendOk(m) \/ (SendFails /\ tpc' \notin Handling)
                   /\ SendOk(m) => tpc' \notin Handling \/ tpc = "reply"
      <4>1. CASE SendSlot
        <5>1. tpc = "send" /\ (SendOk(buffer_slots[position]) \/ SendFails) /\ tpc' = "free_slot"
          BY <4>1 DEF SendSlot, ThreadStep
        <5>2. buffer_slots[position] \in Messages
          BY <5>1 DEF CallbackInv, IndInv, ThreadOK
        <5>3. position \in Slots
          BY <5>1 DEF CallbackInv, IndInv, ThreadOK, TypeOK, ThreadTypeOK
        <5>4. buffer_slots[position].type # "DISCONNECT"
          BY <5>2, <5>3, NoMsgAssumption DEF LineInv, SlotsOK
        <5> QED  BY <5>1, <5>2, <5>4 DEF Handling
      <4>2. CASE Reply
        <5> DEFINE r == Msg(ReplyType, 0, Wire(resp.id), resp.ctx)
        <5>1. tpc = "reply" /\ (SendOk(r) \/ (SendFails /\ tpc' = "top"))
          BY <4>2 DEF Reply, ThreadStep
        <5>2. r.type # "DISCONNECT" /\ r \in Messages
          <6>1. ReplyType \in {"PUBREL", "PUBCOMP", "PUBACK", "PUBREC"}
            BY DEF ReplyType
          <6>2. resp.ctx \in Contexts /\ Wire(resp.id) \in PacketIds
            <7>1. resp \in Messages
              BY <5>1 DEF CallbackInv, IndInv, ThreadOK
            <7> QED  BY <7>1, WireType DEF Messages
          <6> QED  BY <6>1, <6>2 DEF Msg, Messages, Replies
        <5> QED  BY <5>1, <5>2 DEF Handling
      <4> QED  BY <2>2, <4>1, <4>2
    <3>2. process' = process
      BY <2>2 DEF SendSlot, Reply, clientVars
    <3>3. CASE SendFails /\ tpc' \notin Handling
      BY <3>2, <3>3 DEF SendFails, NothingAfter, Handling
    <3>4. CASE SendOk(m)
      <4>1. UNCHANGED link /\ (toServer' = toServer \/ toServer' = Append(toServer, m))
        BY <3>4 DEF SendOk
      <4>2. \A i \in DOMAIN toServer' : toServer'[i] = m \/ (i \in DOMAIN toServer /\ toServer'[i] = toServer[i])
        BY <1>0, <3>1, <4>1
      <4>3. tpc' \in Handling => tpc \in Handling
        BY <3>1, <3>4 DEF Handling
      <4> QED  BY <3>1, <3>2, <4>1, <4>2, <4>3, StayAfter
    <3> QED  BY <3>1, <3>3, <3>4
  <2>3. CASE ~(SendSlot \/ Reply)
    <3>1. UNCHANGED <<toServer, link>>
      BY <1>2, <2>3 DEF SessionStep, TopOfLoop, FreeSlot, ServerReceive, OnFinalAck, OnSuback,
         InvokeCallback, OnHandshake, OnPublish, RequeueWaiting, Deliver, Crash, netVars
    <3>2. tpc' \in Handling => tpc \in Handling \/ link # "null"
      BY <1>2, <2>3 DEF SessionStep, TopOfLoop, FreeSlot, ServerReceive, OnFinalAck, OnSuback,
         InvokeCallback, OnHandshake, OnPublish, RequeueWaiting, Deliver, Crash, ThreadStep,
         threadVars, Handling
    <3> QED  BY <2>1, <3>1, <3>2, StayAfter
  <2> QED  BY <2>2, <2>3
<1>3. ASSUME BrokerReceive  PROVE NothingAfter'
  <2>1. UNCHANGED <<tpc, process>> /\ toServer # <<>> /\ toServer' = Tail(toServer)
    BY <1>3 DEF BrokerReceive, clientVars, threadVars
  <2>2. Head(toServer) = toServer[1] /\ 1 \in DOMAIN toServer
    BY <1>0, <2>1
  <2>3. \A i \in DOMAIN toServer' : i + 1 \in DOMAIN toServer /\ toServer'[i] = toServer[i + 1]
    BY <1>0, <2>1
  <2>4. CASE Head(toServer).type = "DISCONNECT"
    <3>1. process' # "running" /\ link' = "closed"
      BY <1>3, <2>1, <2>2, <2>4 DEF NothingAfter, BrokerReceive
    <3> QED  BY <3>1 DEF NothingAfter
  <2>5. CASE Head(toServer).type # "DISCONNECT"
    <3>1. UNCHANGED link
      BY <1>3, <2>5 DEF BrokerReceive
    <3> QED  BY <2>1, <2>3, <3>1, StayAfter
  <2> QED  BY <2>4, <2>5
<1>4. ASSUME BrokerAnswer \/ \E q \in 0..2 : BrokerPublish(q)  PROVE NothingAfter'
  <2>1. UNCHANGED <<tpc, process, toServer, link>>
    BY <1>4 DEF BrokerAnswer, BrokerPublish, clientVars, threadVars
  <2> QED  BY <2>1, StayAfter
<1>5. ~BrokerClose
  BY DEF BrokerClose
<1>6. ASSUME UNCHANGED vars  PROVE NothingAfter'
  <2>1. UNCHANGED <<tpc, process, toServer, link>>
    BY <1>6 DEF vars, clientVars, threadVars, netVars
  <2> QED  BY <2>1, StayAfter
<1> QED  BY <1>1, <1>2, <1>3, <1>4, <1>5, <1>6 DEF Next, BrokerStep

\* What is just being delivered comes after all that was delivered before.
LEMMA DeliveringLast ==
  ASSUME CallbackInv, LineInv, NothingAfter, process = "running", tpc = "deliver"
  PROVE  \A i \in DOMAIN delivered :
           delivered[i].kind = Delivering.kind => delivered[i].n < Delivering.n
<1>1. link = "up"
  BY DEF NothingAfter, CallbackInv, IndInv, TypeOK, NetTypeOK
<1>2. OrderOK /\ PacketsOK
  BY <1>1 DEF LineInv
<1>3. /\ resp.type \in {"PUBREL", "PUBLISH"} /\ Delivering = resp.ctx
      /\ resp.ctx.kind \in SrvKinds
  BY <1>2 DEF PacketsOK, PacketOK, Delivering, SrvKinds
<1> DEFINE k == resp.ctx.kind
<1>4. InLine(Line(k))
  BY <1>2, <1>3 DEF OrderOK
<1>5. resp.ctx.n \in Handled(resp.type, k)
  BY <1>3 DEF Handled
<1>6. resp.ctx.n \in Line(k)[2] \/ resp.ctx.n \in Line(k)[6]
  BY <1>3, <1>5 DEF Line
<1>7. \A i \in DOMAIN delivered : delivered[i].kind = k => delivered[i].n \in Line(k)[1]
  BY DEF Line
<1>8. \A y \in Line(k)[1] : y < resp.ctx.n
  BY <1>4, <1>6 DEF InLine
<1> QED  BY <1>3, <1>7, <1>8

LEMMA DeliverStep ==
  ASSUME CallbackInv, LineInv, NothingAfter, DeliverInOrder, [Next]_vars
  PROVE  DeliverInOrder'
<1>1. CASE UNCHANGED delivered
  BY <1>1 DEF DeliverInOrder
<1>2. CASE Deliver /\ MsgCallback
  <2>1. /\ process = "running" /\ tpc = "deliver" /\ delivered' = Append(delivered, Delivering)
        /\ delivered \in Seq(Contexts)
    BY <1>2 DEF Deliver, ThreadStep, CallbackInv, IndInv, TypeOK, HistoryTypeOK
  <2>2. \A i \in DOMAIN delivered :
          delivered[i].kind = Delivering.kind => delivered[i].n < Delivering.n
    BY <2>1, DeliveringLast
  <2> DEFINE x == Delivering
  <2> HIDE DEF x
  <2>3. ASSUME NEW i \in DOMAIN delivered', NEW j \in DOMAIN delivered', i < j
        PROVE  /\ i \in DOMAIN delivered /\ delivered'[i] = delivered[i]
               /\ (j \in DOMAIN delivered /\ delivered'[j] = delivered[j]) \/ delivered'[j] = x
    BY <2>1, <2>3 DEF x
  <2> QED  BY <2>2, <2>3 DEF DeliverInOrder, x
<1>3. UNCHANGED delivered \/ (Deliver /\ MsgCallback)
  <2>1. ASSUME NEW c \in Callers, CallerStep(c) \/ SignalDisconnect(c)  PROVE UNCHANGED delivered
    BY <2>1 DEF CallerStep, SignalDisconnect, GetBufferSlot, MakeMessage, FillWaiting, EnqueueWaiting,
       LoadPacketId, StorePacketId, EnqueueSlotForSend, JoinSessionThread, SendDisconnect, historyVars
  <2>2. ASSUME NEW c \in Callers, NEW k \in Kinds, Call(c, k)  PROVE UNCHANGED delivered
    BY <2>2 DEF Call
  <2>3. ASSUME SessionStep  PROVE UNCHANGED delivered \/ (Deliver /\ MsgCallback)
    <3>1. CASE Deliver
      BY <3>1 DEF Deliver
    <3>2. CASE ~Deliver
      BY <2>3, <3>2 DEF SessionStep, TopOfLoop, SendSlot, FreeSlot, ServerReceive, OnFinalAck, OnSuback,
         InvokeCallback, OnHandshake, OnPublish, Reply, RequeueWaiting, Crash, historyVars
    <3> QED  BY <3>1, <3>2
  <2>4. ASSUME BrokerStep \/ BrokerClose \/ \E q \in 0..2 : BrokerPublish(q)
        PROVE  UNCHANGED delivered
    BY <2>4 DEF BrokerStep, BrokerReceive, BrokerAnswer, BrokerClose, BrokerPublish, historyVars
  <2>5. ASSUME UNCHANGED vars  PROVE UNCHANGED delivered
    BY <2>5 DEF vars, historyVars
  <2> QED  BY <2>1, <2>2, <2>3, <2>4, <2>5 DEF Next
<1> QED  BY <1>1, <1>2, <1>3

\* msg_callback gets the publications of one QoS in the order in which the
\* broker made them, and none twice: for any number of application threads,
\* any identifiers the broker reuses and any failures of the client's own
\* sends.  The proviso is that of the code: when the peer closes first,
\* network_receive takes the old contents of the buffer for a new message,
\* and a QoS 0 publication that was delivered is delivered again.
THEOREM PublicationsInOrder == "close" \notin Faults => (Spec => []DeliverInOrder)
<1> DEFINE Inv == /\ "close" \notin Faults
                  /\ CallbackInv /\ LineInv /\ NothingAfter /\ DeliverInOrder
<1>1. "close" \notin Faults /\ Init => Inv
  BY OnceInit, LineInit DEF Init, NothingAfter, DeliverInOrder
<1>2. Inv /\ [Next]_vars => Inv'
  BY OnceStep, LineStep, AfterStep, DeliverStep
<1>3. Inv => DeliverInOrder
  OBVIOUS
<1> QED  BY <1>1, <1>2, <1>3, PTL DEF Spec
=============================================================================
