----------------------------- MODULE AsyncClient -----------------------------
(***************************************************************************)
(* What the multi-threaded client promises an application, with no         *)
(* threads, buffers, packet identifiers or handshakes: accepted requests   *)
(* leave in order, each one that is acknowledged is called back once, and  *)
(* the broker's publications of one QoS are handed over in order.          *)
(***************************************************************************)
EXTENDS Naturals, Sequences, SequencesExt

CONSTANTS
  Contexts,    \* what identifies a request or a publication
  Awaited,     \* the requests that are called back
  PushKind     \* for each QoS, the kind of the contexts of its publications

VARIABLES
  queue,       \* accepted requests that have not been sent
  sent,        \* requests that have been sent, in order
  answered,    \* requests the broker has acknowledged
  notified,    \* callbacks, in the order of the calls
  pushed,      \* number of publications of each QoS
  delivered    \* publications handed to the application, in order

vars == <<queue, sent, answered, notified, pushed, delivered>>

Init ==
  /\ queue = <<>> /\ sent = <<>> /\ answered = {} /\ notified = <<>>
  /\ pushed = [q \in 0..2 |-> 0] /\ delivered = <<>>

\* An API call returns.
Accept(x) ==
  /\ x \notin ToSet(queue) \cup ToSet(sent)
  /\ queue' = Append(queue, x)
  /\ UNCHANGED <<sent, answered, notified, pushed, delivered>>

Transmit ==
  /\ queue # <<>>
  /\ sent' = Append(sent, Head(queue))
  /\ queue' = Tail(queue)
  /\ UNCHANGED <<answered, notified, pushed, delivered>>

\* The broker completes the exchange for a request it received.
Acknowledge(x) ==
  /\ x \in ToSet(sent) \ answered
  /\ answered' = answered \cup {x}
  /\ UNCHANGED <<queue, sent, notified, pushed, delivered>>

\* The application's callback, once and not before the acknowledgement.
Notify(x) ==
  /\ x \in answered \ ToSet(notified)
  /\ notified' = Append(notified, x)
  /\ UNCHANGED <<queue, sent, answered, pushed, delivered>>

Publish(q) ==
  /\ pushed' = [pushed EXCEPT ![q] = @ + 1]
  /\ UNCHANGED <<queue, sent, answered, notified, delivered>>

\* The next publication of QoS q: the application has all before it.
Deliver(q) ==
  /\ LET Item(n) == [kind |-> PushKind[q], n |-> n]
     IN  \E n \in 1..pushed[q] :
           /\ \A m \in 1..pushed[q] : Item(m) \in ToSet(delivered) <=> m < n
           /\ delivered' = Append(delivered, Item(n))
  /\ UNCHANGED <<queue, sent, answered, notified, pushed>>

Next ==
  \/ \E x \in Contexts : Accept(x) \/ Acknowledge(x) \/ Notify(x)
  \/ Transmit
  \/ \E q \in 0..2 : Publish(q) \/ Deliver(q)

\* Requests are sent, answered and called back, publications are delivered.
Fairness ==
  /\ WF_vars(Transmit)
  /\ \A x \in Awaited : WF_vars(Acknowledge(x)) /\ WF_vars(Notify(x))
  /\ \A q \in 0..2 : WF_vars(Deliver(q))

\* What it never does, and with it what it does eventually.
Safety == Init /\ [][Next]_vars
Spec == Safety /\ Fairness
=============================================================================
