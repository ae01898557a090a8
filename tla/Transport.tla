------------------------------ MODULE Transport ------------------------------
(***************************************************************************)
(* How the bytes of a connection become messages again: network_receive of *)
(* libsmqttcore/network_server.c, deserialize_response of messages.c and   *)
(* the two ways in which the clients use them.  The session thread of      *)
(* libsmqttclient_mt parses what it received and overwrites the buffer     *)
(* with its reply before it copies the texts; the calls of libsmqttclient  *)
(* parse the buffer whether something was received or not.  A third        *)
(* reader takes each message from memory, as test/serialization.c does.    *)
(*                                                                         *)
(* One step is one recv, or one parse.  The peer and the network are       *)
(* external: bytes arrive in order and in pieces of any length.            *)
(***************************************************************************)
EXTENDS Codec

CONSTANTS
  SocketPlans,  \* sequences of messages a peer may send
  MemoryPlans,  \* sequences of messages that are made and parsed in memory
  Cuts,         \* bound: offsets in the stream at which a piece may end
  MaxAstray     \* bound: packets read after a recv came back short

Readers == {"session", "sync", "memory"}

Plans == SocketPlans \cup MemoryPlans

ASSUME PlanAssumption == \A p \in Plans : \A i \in DOMAIN p : p[i].type \in ToSet(message_type_t)
ASSUME BoundAssumption == Cuts \subseteq Nat /\ MaxAstray \in Nat

VARIABLES
  plan, stream, reader,   \* what is sent, its bytes, and who reads it
  arrived, closed,        \* bytes that reached the socket; did the peer close it?
  read,                   \* bytes the reader took
  buffer,                 \* receive_buffer
  step, sz,               \* where the reader is, and what network_receive returns
  astray,                 \* packets read after clean was lost
  \* history
  clean,                  \* no recv has come back short or empty in a packet
  got,                    \* what deserialize_response made of each packet
  stale                   \* what it made of the buffer after the last timeout

inputs == <<plan, stream, reader>>
vars == <<inputs, arrived, closed, read, buffer, step, sz, astray, clean, got, stale>>

-----------------------------------------------------------------------------
(* The network.                                                            *)

Arrive ==
  /\ reader # "memory" /\ ~closed
  /\ arrived' \in ((arrived + 1)..Len(stream)) \cap (Cuts \cup {Len(stream)})
  /\ UNCHANGED <<inputs, closed, read, buffer, step, sz, astray, clean, got, stale>>

Close ==
  /\ reader # "memory" /\ ~closed
  /\ closed' = TRUE
  /\ UNCHANGED <<inputs, arrived, read, buffer, step, sz, astray, clean, got, stale>>

-----------------------------------------------------------------------------
(* network_receive.                                                        *)

\* Bytes written over a buffer from an offset on.
Overwrite(b, offset, bytes) ==
  [i \in 1..Max({Len(b), offset + Len(bytes)}) |->
     IF i \in (offset + 1)..(offset + Len(bytes)) THEN bytes[i - offset] ELSE At(b, i - 1)]

\* recv takes what there is, at most n bytes, and stores it at an offset.  A
\* socket with nothing to give has its timeout, unless it is at end of file.
Recv(n, offset) ==
  LET k == Min({n, arrived - read})
  IN  /\ k > 0 \/ closed
      /\ buffer' = Overwrite(buffer, offset, SubSeq(stream, read + 1, read + k))
      /\ read' = read + k
      /\ clean' = (clean /\ k = n)

Quiet == arrived = read /\ ~closed

\* Mutant: the size byte is counted in.
RemainingPlusOne(b) == At(b, 1) + 1

\* The size in the second byte.
Remaining(b) == At(b, 1)

\* The fixed header.  At end of file its old contents are taken for a new one.
RecvHeader ==
  /\ step = "idle" /\ reader # "memory"
  /\ Recv(2, 0)
  /\ clean \/ astray < MaxAstray
  /\ astray' = IF clean THEN astray ELSE astray + 1
  /\ sz' = 2
  /\ step' = IF Remaining(buffer') > 0 THEN "body" ELSE "parse"
  /\ UNCHANGED <<inputs, arrived, closed, got, stale>>

\* One recv for the rest of the packet, however much of it there is.
RecvBody ==
  /\ step = "body"
  /\ Recv(Remaining(buffer), 2)
  /\ sz' = 2 + (read' - read)
  /\ step' = "parse"
  /\ UNCHANGED <<inputs, arrived, closed, astray, got, stale>>

\* The timeout passes before the header, or between header and body: the
\* result is 0 either way, and a header that was read is lost.  The session
\* thread then goes round its loop, a call of libsmqttclient parses the buffer.
Timeout ==
  /\ step \in {"idle", "body"} /\ reader # "memory" /\ Quiet
  /\ sz' = 0
  /\ step' = IF reader = "sync" THEN "parse" ELSE "idle"
  /\ clean' = (clean /\ step # "body")
  /\ UNCHANGED <<inputs, arrived, closed, read, buffer, astray, got, stale>>

-----------------------------------------------------------------------------
(* The readers.                                                            *)

\* Mutant: the reply is terminated with a zero byte.
ReplyBytesTerminated(type, id) == Append(make_message([type |-> type, id |-> id]), 0)

ReplyBytes(type, id) == make_message([type |-> type, id |-> id])

\* The reply session_thread_loop builds in receive_buffer, if any.
ReplyIn(resp) ==
  CASE resp.type = "PUBLISH" /\ resp.qos = 1 -> ReplyBytes("PUBACK", resp.id)
    [] resp.type = "PUBLISH" /\ resp.qos = 2 -> ReplyBytes("PUBREC", resp.id)
    [] resp.type = "PUBREC" -> ReplyBytes("PUBREL", resp.id)
    [] resp.type = "PUBREL" -> ReplyBytes("PUBCOMP", resp.id)
    [] OTHER -> <<>>

\* session_thread_loop: NULL is dereferenced; otherwise the texts are copied
\* after the reply was written.  An acknowledgement nobody waits for has none.
SessionParse ==
  /\ step = "parse" /\ reader = "session"
  /\ LET resp == deserialize_response(buffer, sz, buffer)
     IN  \/ /\ resp = NoResponse
            /\ step' = "crashed"
            /\ UNCHANGED <<buffer, got>>
         \/ /\ resp # NoResponse
            /\ \/ buffer' = Overwrite(buffer, 0, ReplyIn(resp))
               \/ resp.type \in {"PUBREC", "PUBREL"} /\ UNCHANGED buffer
            /\ got' = Append(got, deserialize_response(buffer, sz, buffer'))
            /\ step' = "idle"
  /\ UNCHANGED <<inputs, arrived, closed, read, sz, astray, clean, stale>>

\* A call of libsmqttclient; its replies are built in send_buffer.
SyncParse ==
  /\ step = "parse" /\ reader = "sync"
  /\ LET resp == deserialize_response(buffer, sz, buffer)
     IN  \/ sz > 0 /\ got' = Append(got, resp) /\ UNCHANGED stale
         \/ sz = 0 /\ stale' = resp /\ UNCHANGED got
  /\ step' = "idle"
  /\ UNCHANGED <<inputs, arrived, closed, read, buffer, sz, astray, clean>>

\* The next message is made and parsed in one buffer.
MemoryParse ==
  /\ reader = "memory" /\ Len(got) < Len(plan)
  /\ buffer' = make_message(plan[Len(got) + 1])
  /\ sz' = Len(buffer')
  /\ got' = Append(got, deserialize_response(buffer', sz', buffer'))
  /\ UNCHANGED <<inputs, arrived, closed, read, step, astray, clean, stale>>

-----------------------------------------------------------------------------
\* Nothing was received yet: receive_buffer counts as zero.
Init ==
  /\ reader \in Readers
  /\ plan \in IF reader = "memory" THEN MemoryPlans ELSE SocketPlans
  /\ stream = FlattenSeq([i \in DOMAIN plan |-> make_message(plan[i])])
  /\ arrived = 0 /\ closed = FALSE /\ read = 0
  /\ buffer = <<>> /\ step = "idle" /\ sz = 0 /\ astray = 0
  /\ clean = TRUE /\ got = <<>> /\ stale = NoResponse

Next ==
  \/ Arrive \/ Close
  \/ RecvHeader \/ RecvBody \/ Timeout
  \/ SessionParse \/ SyncParse \/ MemoryParse

Spec == Init /\ [][Next]_vars

-----------------------------------------------------------------------------
(* Properties.                                                             *)

\* What the receiver should see of a message.
Expected(m) ==
  IF m.type = "CONNECT" THEN [name |-> protocol_name, version |-> 3] @@ m ELSE m

Small(m) == decode_size(make_message(m), 1, 4).size < 128

\* The first n messages are all below 128 bytes.
SmallUpTo(n) == \A j \in 1..Min({n, Len(plan)}) : Small(plan[j])

\* Types; in particular every make_..._message writes bytes, and the reader has
\* never taken more than has arrived.
TypeOK ==
  /\ plan \in Plans /\ reader \in Readers /\ stream \in Seq(0..255)
  /\ arrived \in 0..Len(stream) /\ read \in 0..arrived /\ closed \in BOOLEAN
  /\ buffer \in Seq(0..255) /\ step \in {"idle", "body", "parse", "crashed"}
  /\ sz \in 0..257 \/ reader = "memory"
  /\ astray \in 0..MaxAstray /\ clean \in BOOLEAN

\* However the bytes are cut into pieces, as long as no recv comes back short
\* the reader sees the messages that were sent, whole, in order and none twice,
\* the session thread even though its reply overwrites the buffer in which the
\* topic and the text of a publication still are; and it never meets NULL.
\* This is so up to the first message of 128 bytes or more.
InOrder ==
  (reader # "memory" /\ clean) =>
    /\ \A i \in DOMAIN got : SmallUpTo(i) => i <= Len(plan) /\ got[i] = Expected(plan[i])
    /\ SmallUpTo(Len(got) + 1) => step # "crashed"

\* Between two packets the reader has taken exactly the bytes of the messages
\* it has seen: nothing is skipped, and nothing of a packet is left to be taken
\* for the header of the next one, whatever timeouts come in between.
InStep ==
  (reader # "memory" /\ clean /\ step = "idle" /\ SmallUpTo(Len(got))) =>
    read = Len(FlattenSeq([i \in DOMAIN got |-> make_message(plan[i])]))

\* The texts of a message that are written behind their lengths.
Counted(m) ==
  CASE m.type = "CONNECT" -> {m.client_id} \cup ToSet(m.user \o m.pw)
                             \cup UNION {{w.topic, w.message} : w \in ToSet(m.will)}
    [] m.type = "PUBLISH" -> {m.topic}
    [] m.type \in {"SUBSCRIBE", "UNSUBSCRIBE"} -> {t.topic : t \in ToSet(m.topics)}
    [] OTHER -> {}

\* What fits the one byte that remains of a uint16_t, and into topics[MAX_TOPICS].
Representable(m) ==
  /\ "id" \in DOMAIN m => m.id < 256
  /\ "keep_alive" \in DOMAIN m => m.keep_alive < 256
  /\ "topics" \in DOMAIN m => Len(m.topics) <= MAX_TOPICS
  /\ "results" \in DOMAIN m => Len(m.results) <= MAX_TOPICS
  /\ \A t \in Counted(m) : Len(t) < 256
  /\ m.type = "UNSUBSCRIBE" => <<>> \notin Counted(m)

\* A message that was made is parsed as itself, whatever number of bytes its
\* size takes, in which the segments of topics and results begin elsewhere,
\* and up to the last topic the arrays of a response can hold.
RoundTrip ==
  reader = "memory" =>
    \A i \in DOMAIN got : Representable(plan[i]) => got[i] = Expected(plan[i])

\* What a call of libsmqttclient sees after a timeout, when the message before
\* was received whole: that message once more, but with an identifier (or a
\* return code) of 0, or in a publication with an identifier the first
\* character of the topic.  Module SyncClient takes this as its Stale.
StaleMessage ==
  (clean /\ reader = "sync" /\ stale # NoResponse /\ SmallUpTo(Len(got)) /\ got # <<>>) =>
    LET last == plan[Len(got)]
    IN  /\ stale.type \in {m.type : m \in ToSet(SubSeq(plan, 1, Len(got)))}
        /\ step = "idle" /\ sz = 0 =>
             /\ stale.type = last.type
             /\ "id" \in DOMAIN stale =>
                  stale.id = IF last.type = "PUBLISH" /\ last.qos > 0 THEN last.topic[1] ELSE 0
             /\ "code" \in DOMAIN stale => stale.code = 0
=============================================================================
