----------------------------- MODULE MCTransport -----------------------------
(***************************************************************************)
(* Messages for model checking Transport.                                  *)
(***************************************************************************)
EXTENDS Transport

\* A text of n characters; two texts that start differently are different.
Chars(n, seed) == [i \in 1..n |-> 97 + ((i + seed) % 26)]

Publish(qos, id, topicLen, messageLen) ==
  [type |-> "PUBLISH", qos |-> qos, retain |-> qos = 1, id |-> id,
   topic |-> Chars(topicLen, id), message |-> Chars(messageLen, 7 + qos)]
Ack(type, id) == [type |-> type, id |-> id]
Plain(type) == [type |-> type]
Connack(code) == [type |-> "CONNACK", code |-> code]

Topics(n, length) == [i \in 1..n |-> [topic |-> Chars(length, i), qos |-> i % 3]]
Subscribe(n, length) == [type |-> "SUBSCRIBE", id |-> 9, topics |-> Topics(n, length)]
Unsubscribe(n, length) ==
  [type |-> "UNSUBSCRIBE", id |-> 255,
   topics |-> [i \in 1..n |-> [topic |-> Chars(length, i), qos |-> 0]]]
Suback(n) ==
  [type |-> "SUBACK", id |-> 3,
   results |-> [i \in 1..n |-> [success |-> i % 2 = 1, qos |-> IF i % 2 = 1 THEN i % 3 ELSE 0]]]

Connect(idLen, user, pw, will) ==
  [type |-> "CONNECT", client_id |-> Chars(idLen, 1), user |-> user, pw |-> pw, will |-> will,
   will_qos |-> Len(will), will_retain |-> will # <<>>, clean |-> pw = <<>>, keep_alive |-> 255]
Will(n) == <<[topic |-> Chars(n, 4), message |-> Chars(n, 5)]>>

\* What a broker sends: short packets that arrive in one recv or in several.
SmallPlans ==
  { <<Connack(0), Publish(1, 2, 1, 0)>>,
    <<Connack(5), Publish(0, 0, 2, 2)>>,
    <<Publish(2, 255, 1, 1), Ack("PUBREL", 255)>>,
    <<Ack("PUBREC", 1), Ack("PUBCOMP", 1), Plain("PINGRESP")>>,
    <<Suback(2), Ack("UNSUBACK", 4), Ack("PUBACK", 200)>> }

\* The largest packet of one size byte, and the smallest of two.
EdgePlans == { <<Publish(1, 1, 1, 122), Plain("PINGRESP")>>, <<Publish(1, 1, 1, 123)>> }

\* Every kind of message at the borders of its sizes and counts, and beyond
\* what can be represented.
FormPlans ==
  { <<Connect(0, <<>>, <<>>, <<>>), Connect(23, <<Chars(3, 2)>>, <<>>, <<>>),
      Connect(5, <<>>, <<Chars(1, 3)>>, Will(2)), Connect(23, <<Chars(50, 2)>>, <<Chars(50, 3)>>, Will(0))>>,
    <<Publish(0, 0, 1, 0), Publish(2, 255, 255, 0), Publish(1, 0, 3, 700), Plain("DISCONNECT")>>,
    <<Subscribe(1, 1), Subscribe(32, 0), Subscribe(32, 1), Subscribe(5, 100), Suback(32)>>,
    <<Unsubscribe(1, 1), Unsubscribe(32, 1), Unsubscribe(32, 2), Unsubscribe(3, 255), Plain("PINGREQ")>>,
    <<Ack("PUBACK", 256), Publish(0, 0, 256, 3), Unsubscribe(64, 0), Subscribe(33, 1), Suback(33)>> }

BrokerPlans == SmallPlans \cup EdgePlans

\* Any offset in the short plans; in the others those around headers and ends.
AllCuts == 1..16 \cup 127..130
=============================================================================
