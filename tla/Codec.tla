-------------------------------- MODULE Codec --------------------------------
(***************************************************************************)
(* libsmqttcore/messages.c: how messages become bytes and bytes messages.  *)
(*                                                                         *)
(* A buffer is a sequence of bytes and a text a sequence of non-zero ones; *)
(* an offset counts from 0, as in the code.  A message is a record with    *)
(* the arguments of its make_..._message function; optional texts and the  *)
(* will are sequences of length 0 or 1.  Everything fits into the buffers  *)
(* of BUFFER_SIZE (1024) bytes, which the code does not check.             *)
(***************************************************************************)
EXTENDS Integers, Sequences, SequencesExt

CONSTANT NoResponse   \* deserialize_response returns NULL

MAX_TOPICS == 32

\* message_type_t, whose first value is 1.
message_type_t ==
  <<"CONNECT", "CONNACK", "PUBLISH", "PUBACK", "PUBREC", "PUBREL", "PUBCOMP", "SUBSCRIBE",
    "SUBACK", "UNSUBSCRIBE", "UNSUBACK", "PINGREQ", "PINGRESP", "DISCONNECT">>

PACK_MESSAGE_TYPE(t) == 16 * CHOOSE i \in DOMAIN message_type_t : message_type_t[i] = t
UNPACK_MESSAGE_TYPE(byte) ==
  IF byte \div 16 \in DOMAIN message_type_t THEN message_type_t[byte \div 16] ELSE "unknown"

BOOL_TO_BIT(b) == IF b THEN 1 ELSE 0
BIT_TO_BOOL(byte, i) == (byte \div 2^i) % 2 = 1

\* The byte at an offset; what lies behind the bytes of b is taken for zero,
\* and left out of a text.
At(b, offset) == IF offset < Len(b) THEN b[offset + 1] ELSE 0
Text(b, offset, size) == SubSeq(b, offset + 1, Min({offset + size, Len(b)}))

-----------------------------------------------------------------------------
(* Integers and sizes.                                                     *)

\* Mutant: the low byte is not masked.
SER_short_unmasked(n) == <<0, n>>

\* MSB casts to uint8_t before it masks the high byte, which leaves 0.
SER_short(n) == <<0, n % 256>>

\* The first byte is shifted out of the uint16_t.
short_from_buffer(b, offset) == At(b, offset + 1)

Weight == <<1, 128, 16384, 2097152, 268435456>>

\* Digits to base 128, least significant first, with a continuation bit while
\* something remains; at most four of them.
encode_size(size) ==
  LET used == CHOOSE n \in 1..4 : /\ n = 4 \/ size < Weight[n + 1]
                                  /\ \A k \in 1..(n - 1) : size >= Weight[k + 1]
  IN  [bytes |-> [i \in 1..used |-> ((size \div Weight[i]) % 128)
                                    + (IF size >= Weight[i + 1] THEN 128 ELSE 0)],
       ok    |-> size < Weight[5]]

SER_len(n) == encode_size(n).bytes

\* Mutant: the loop runs at least once.
decode_size_do_while(b, first, last) ==
  LET digit(i) == At(b, first + i - 1)
      within  == {1} \cup {i \in 2..4 : first + i - 1 <= last}
      ends    == {i \in within : digit(i) < 128}
      used    == IF ends = {} THEN Cardinality(within) ELSE Min(ends)
      part(i) == IF i <= used THEN (digit(i) % 128) * Weight[i] ELSE 0
  IN  [ok   |-> ~(used = 4 /\ digit(4) >= 128),
       size |-> part(1) + part(2) + part(3) + part(4),
       used |-> used]

\* It reads up to and including offset `last`, at most four digits.  When the
\* bytes run out before a last digit it still succeeds.
decode_size(b, first, last) ==
  LET digit(i) == At(b, first + i - 1)
      within  == {i \in 1..4 : first + i - 1 <= last}
      ends    == {i \in within : digit(i) < 128}
      used    == IF ends = {} THEN Cardinality(within) ELSE Min(ends)
      part(i) == IF i <= used THEN (digit(i) % 128) * Weight[i] ELSE 0
  IN  [ok   |-> ~(used = 4 /\ digit(4) >= 128),
       size |-> part(1) + part(2) + part(3) + part(4),
       used |-> used]

-----------------------------------------------------------------------------
(* make_..._message.  Each length is computed apart from the body.         *)

\* SER_short of the length, then SER_string.
SER_text(text) == SER_short(Len(text)) \o text
SER_optional(o) == IF o = <<>> THEN <<>> ELSE SER_text(o[1])
OptionalLen(o) == IF o = <<>> THEN 0 ELSE 2 + Len(o[1])

protocol_name == <<77, 81, 73, 115, 100, 112>>   \* MQIsdp

PACK_CONNECT_FLAGS(m) ==
  BOOL_TO_BIT(m.user # <<>>) * 128 + BOOL_TO_BIT(m.pw # <<>>) * 64
  + BOOL_TO_BIT(m.will_retain) * 32 + (m.will_qos % 4) * 8
  + BOOL_TO_BIT(m.will # <<>>) * 4 + BOOL_TO_BIT(m.clean) * 2

\* keep_alive_sec is a uint8_t here and a uint16_t in the calls of the API.
make_connect_message(m) ==
  LET will_len == IF m.will = <<>> THEN 0
                  ELSE 2 + Len(m.will[1].topic) + 2 + Len(m.will[1].message)
  IN  <<PACK_MESSAGE_TYPE("CONNECT")>>
      \o SER_len(8 + Len(protocol_name) + Len(m.client_id) + will_len
                 + OptionalLen(m.user) + OptionalLen(m.pw))
      \o SER_text(protocol_name) \o <<3, PACK_CONNECT_FLAGS(m)>>
      \o SER_short(m.keep_alive % 256)
      \o SER_text(m.client_id)
      \o (IF m.will = <<>> THEN <<>>
          ELSE SER_text(m.will[1].topic) \o SER_text(m.will[1].message))
      \o SER_optional(m.user) \o SER_optional(m.pw)

make_connack_message(m) == <<PACK_MESSAGE_TYPE("CONNACK")>> \o SER_len(2) \o <<0, m.code>>

\* PINGREQ, PINGRESP and DISCONNECT have no body.
make_empty_message(m) == <<PACK_MESSAGE_TYPE(m.type)>> \o SER_len(0)

make_publish_message(m) ==
  LET id == IF m.qos >= 1 THEN SER_short(m.id) ELSE <<>>
  IN  <<PACK_MESSAGE_TYPE("PUBLISH") + 2 * m.qos + BOOL_TO_BIT(m.retain)>>
      \o SER_len(2 + Len(m.topic) + (IF m.qos >= 1 THEN 2 ELSE 0) + Len(m.message))
      \o SER_text(m.topic) \o id \o m.message

\* PUBACK, PUBREC, PUBREL, PUBCOMP and UNSUBACK carry an identifier only.
make_ack_message(m) ==
  <<PACK_MESSAGE_TYPE(m.type) + (IF m.type = "PUBREL" THEN 2 ELSE 0)>>
  \o SER_len(2) \o SER_short(m.id)

get_utf8_string_size(topics, include_qos) ==
  FoldSeq(LAMBDA size, total : size + total, 0,
          [i \in DOMAIN topics |-> 2 + Len(topics[i].topic) + BOOL_TO_BIT(include_qos)])

make_subscribe_message(m) ==
  <<PACK_MESSAGE_TYPE("SUBSCRIBE") + 2>>
  \o SER_len(2 + get_utf8_string_size(m.topics, TRUE))
  \o SER_short(m.id)
  \o FlattenSeq([i \in DOMAIN m.topics |-> Append(SER_text(m.topics[i].topic), m.topics[i].qos)])

make_unsubscribe_message(m) ==
  <<PACK_MESSAGE_TYPE("UNSUBSCRIBE") + 2>>
  \o SER_len(2 + get_utf8_string_size(m.topics, FALSE))
  \o SER_short(m.id)
  \o FlattenSeq([i \in DOMAIN m.topics |-> SER_text(m.topics[i].topic)])

make_suback_message(m) ==
  <<PACK_MESSAGE_TYPE("SUBACK")>> \o SER_len(2 + Len(m.results)) \o SER_short(m.id)
  \o [i \in DOMAIN m.results |-> IF m.results[i].success THEN m.results[i].qos ELSE 128]

make_message(m) ==
  CASE m.type = "CONNECT"     -> make_connect_message(m)
    [] m.type = "CONNACK"     -> make_connack_message(m)
    [] m.type = "PUBLISH"     -> make_publish_message(m)
    [] m.type = "SUBSCRIBE"   -> make_subscribe_message(m)
    [] m.type = "SUBACK"      -> make_suback_message(m)
    [] m.type = "UNSUBSCRIBE" -> make_unsubscribe_message(m)
    [] m.type \in {"PINGREQ", "PINGRESP", "DISCONNECT"} -> make_empty_message(m)
    [] OTHER -> make_ack_message(m)

-----------------------------------------------------------------------------
(* deserialize_response.  The texts of a response are pointers into the    *)
(* buffer: `seen` is the buffer at the time they are read.                 *)

\* Mutant: the identifier is taken off the segment once more.
SegmentEndShort(first, bytecount) == first + bytecount - 2

\* bytecount is a uint32_t: a negative one is larger than any buffer.
SegmentEnd(first, bytecount) == IF bytecount >= 0 THEN first + bytecount ELSE 2^30

fill_topic_arrays(b, first, bytecount, with_qos, seen) ==
  LET length(at) == short_from_buffer(b, at)
      next(at) == at + 2 + length(at) + BOOL_TO_BIT(with_qos)
      curr[n \in 0..MAX_TOPICS] == IF n = 0 THEN first ELSE next(curr[n - 1])
      count == Cardinality({n \in 0..(MAX_TOPICS - 1) :
                              curr[n] + 2 <= SegmentEnd(first, bytecount)})
  IN  [i \in 1..count |->
        LET at == curr[i - 1]
        IN  [topic |-> Text(seen, at + 2, length(at)),
             qos   |-> IF with_qos THEN At(b, at + 2 + length(at)) ELSE 0]]

fill_subresult_arrays(b, first, bytecount) ==
  LET count == Min({MAX_TOPICS, SegmentEnd(first, bytecount) - first})
  IN  [i \in 1..count |-> [success |-> At(b, first + i - 1) < 4,
                           qos     |-> At(b, first + i - 1) % 4]]

\* A length and the text behind it.
TextField(b, offset, seen) == Text(seen, offset + 2, short_from_buffer(b, offset))

ConnectBody(b, start, seen) ==
  LET end(offset) == offset + 2 + short_from_buffer(b, offset)
      version == end(start)
      flags   == At(b, version + 1)
      has(i)  == BIT_TO_BOOL(flags, i)
      id      == version + 4
      topic   == end(id)
      user    == IF has(2) THEN end(end(topic)) ELSE topic
      pw      == IF has(7) THEN end(user) ELSE user
  IN  [type |-> "CONNECT", name |-> TextField(b, start, seen), version |-> At(b, version),
       clean |-> has(1), keep_alive |-> short_from_buffer(b, version + 2),
       client_id |-> TextField(b, id, seen),
       will_qos |-> (flags \div 8) % 4, will_retain |-> has(5),
       will |-> IF has(2) THEN <<[topic   |-> TextField(b, topic, seen),
                                  message |-> TextField(b, end(topic), seen)]>>
                ELSE <<>>,
       user |-> IF has(7) THEN <<TextField(b, user, seen)>> ELSE <<>>,
       pw   |-> IF has(6) THEN <<TextField(b, pw, seen)>> ELSE <<>>]

\* message_size is a uint16_t.
PublishBody(b, start, total_size, seen) ==
  LET qos    == (At(b, 0) \div 2) % 4
      topic  == start + 2
      id     == topic + short_from_buffer(b, start)
      offset == IF qos >= 1 THEN id + 2 ELSE id
  IN  [type |-> "PUBLISH", qos |-> qos, retain |-> At(b, 0) % 2 = 1,
       topic |-> TextField(b, start, seen),
       id |-> IF qos >= 1 THEN short_from_buffer(b, id) ELSE 0,
       message |-> Text(seen, offset, (total_size - (offset - start)) % 65536)]

\* The segments of SUBSCRIBE, SUBACK and UNSUBSCRIBE are taken to have
\* total_size - offset bytes: right while the fixed header is as long as the
\* identifier that total_size includes, which is two bytes.
deserialize_response(b, length, seen) ==
  LET type    == UNPACK_MESSAGE_TYPE(At(b, 0))
      total   == decode_size(b, 1, length)
      offset  == 1 + total.used
      id      == short_from_buffer(b, offset)
      segment == total.size - offset
  IN  IF ~total.ok \/ type = "unknown" THEN NoResponse
      ELSE CASE type = "CONNECT" -> ConnectBody(b, offset, seen)
             [] type = "CONNACK" -> [type |-> type, code |-> At(b, offset + 1)]
             [] type = "PUBLISH" -> PublishBody(b, offset, total.size, seen)
             [] type = "SUBACK" ->
                  [type |-> type, id |-> id,
                   results |-> fill_subresult_arrays(b, offset + 2, segment)]
             [] type \in {"SUBSCRIBE", "UNSUBSCRIBE"} ->
                  [type |-> type, id |-> id,
                   topics |-> fill_topic_arrays(b, offset + 2, segment, type = "SUBSCRIBE", seen)]
             [] type \in {"PINGREQ", "PINGRESP", "DISCONNECT"} -> [type |-> type]
             [] OTHER -> [type |-> type, id |-> id]
=============================================================================
