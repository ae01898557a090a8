# A verification project for small-mqtt-client-in-c

TLA+ models of the two MQTT clients of this repository, the TLC runs that check
them on small instances, and TLAPS proofs of the most important invariants for
every instance. Every definition follows the C code; `PROJECT.json` says which
lines each one stands for.

## 1. The system

| Part | State | Operations | Talks to |
| --- | --- | --- | --- |
| Multi-threaded API (`libsmqttclient_mt/smqttc_mt.c`) | locals of each calling thread; the two packet id counters of the client, not locked | connect, ping, publish, subscribe, unsubscribe, disconnect | takes a slot from the pool, serialises into it, registers a `waiting_t`, queues the slot |
| Session thread (`libsmqttclient_mt/connection.c`) | `free_queue`, `send_queue`, `ack_queue`, `buffer_slots`, `receive_buffer`, `ready_to_disconnect`, one mutex | one loop: send a slot, receive a packet, dispatch it | the API through the queues, the broker through `server_t`, the application through callbacks |
| Linked queue (`connection.c`) | `head`, `tail`, entries with `previous` and `next` | `enqueue`, `dequeue`, `dequeue_by_type_and_id`, `remove_from_queue` | used by both of the above under the mutex |
| Single-threaded client (`libsmqttclient/smqttc.c`) | three packet id counters, the global `send_buffer` and `receive_buffer` | connect, ping, publish, subscribe, unsubscribe, get_next_message, disconnect, drop | `server_t`; every call waits for its reply |
| Network server (`libsmqttcore/network_server.c`) | the socket, or a NULL pointer after a failed send | connect, send, receive, disconnect | TCP |
| Message codec (`libsmqttcore/messages.c`) | none | `make_..._message`, `deserialize_response`, `encode_size`, `decode_size` | used by both clients |
| Local server, command line tool, tests | - | - | not modelled |

What is hard about it: in the multi-threaded client callers and the session
thread interleave around one mutex, the packet id counters have none, and a
reply can be handled before the call that asked for it has returned. Replies
come in any order, QoS 2 is a four-way handshake in both directions, and slots
and identifiers are reused. In the single-threaded client whatever packet comes
first is taken for the reply, and after a timeout the previous packet still
lies in the buffer. In both, a failed send leaves a NULL pointer behind and the
end of file is not noticed. The framing takes its length from one byte, a packet
may arrive in pieces, the session thread builds its reply in the buffer it has
not finished reading, and several buffers are globals that every client or every
connect of the process shares. `PROJECT.json` lists each hazard at its line with
the properties that watch it.

What makes each part correct:

* pool: each slot has one owner (`SlotOwnership`); requests leave once, in the
  order the calls returned, unaltered (`SendFifo`); calls return unless every
  slot is in use, and disconnect returns (`CallsReturnUnlessFull`, `DisconnectReturns`).
* acknowledgements: each finds its own request (`AckMatches`), callbacks come
  once, after the final acknowledgement, and come (`CallbackOnce`,
  `CallbackAfterAnswer`, `EveryCallbackComes`). Once is not claimed of a
  subscribe: after a SUBACK with another identifier the pointer that
  `dequeue_by_type_and_id` did not set may still be that of the last subscribe,
  whose callback then comes again (`OnSuback`).
* publications from the broker: handed over in order, once, and before the
  broker may forget them (`DeliverInOrder`, `HandoverSafe`, `EveryPushDelivered`).
* queue: a queue, from which a search takes the oldest entry of its key (`ListShape`, `NoDanglingEntry`, `ImplementsQueue`, `SearchEnds`).
* connecting: a client is handed out only if this attempt was accepted or closed
  without an answer, and connect returns (`OpenMeansAccepted`, `ConnectReturns`).
* bytes: messages come out of a stream as they went in, whatever its pieces
  (`InOrder`, `InStep`), and out of memory at every size (`RoundTrip`); what is
  parsed after a timeout is known (`StaleMessage`).
* single-threaded client: SMQTT_OK means acknowledged, calls and replies stay in
  step, calls return, and the broker forgets no publication the application has
  not got, but for those whose identifier is a topic's first byte (`OkMeansAnswered`, `HealthyCallsSucceed`, `ApiReturns`, `HandoverSafe`).

## 2. The modules

* **Session** - the core: the API calls and the session thread of the
  multi-threaded client, and an external broker. One step is one critical
  section of `thread_mutex`, one access to an unlocked field, or one call of
  `server_t`. `pc[c]` is where application thread `c` is inside a call; the
  order of a call's steps is a record (`PingFlow`, `PublishFlow`,
  `SubscribeFlow`), because the four calls differ only in their order and in
  what they write (`RequestFor`, `WaitingFor`). `tpc` is where the session
  thread is in its loop. `x_packet_id++` is a load and a store.
  `get_buffer_slot` keeps the mutex while the pool is empty, as the code does.
  Serialisation keeps the low byte of an identifier (`Wire`), as `SER_short` and
  `short_from_buffer` do. Undefined outcomes (the pointer `dequeue_by_type_and_id`
  leaves unset, the return value `join_session_thread` does not return, the freed
  client) are nondeterministic choices.
* **AsyncClient** - what the multi-threaded client promises, without threads,
  buffers and handshakes. **SessionRefines** maps Session to it: a request is in
  the abstract queue until its slot has been handed to `server_send`. It states
  the promises as `KeepsPromises` (what no step ever does) and, with the eventual
  ones, as `ImplementsAsyncClient`.
* **SessionProofs**, **CallbackProofs**, **DeliveryProofs**, **AckProofs**,
  **RefinementProofs** - TLAPS proofs about Session, each resting on those before
  it; **LifecycleProofs** and **SyncClientProofs** - about those modules. The
  inductive invariants are defined beside the properties they are for, in the
  modules themselves, so that TLC can check them; those of AckProofs and
  RefinementProofs, which are for one proof only, stand at their beginnings.
* **LinkedQueue** - `queue_t` pointer by pointer, in its two uses: as the free or
  the send queue (`used_as` is "fifo") and as the ack queue ("ack"). **Queue** is its abstract
  specification, in which a removal by key is a request (`Ask`) that ends with
  the oldest element of that very key or, if there is none, with nothing;
  **LinkedQueueProofs** proves that one implements the other. That
  is why Session may use the queues as sequences.
* **SyncClient** - the single-threaded client and its broker. One step is one
  call of `server_t` with the code around it. A timeout parses the old buffer
  with a length of 0 (`Stale`), the end of file parses it as it was.
* **Codec** - `messages.c`, byte by byte: sizes and integers, each
  `make_..._message` and `deserialize_response`. It has no variables. The cursor
  macros become concatenation; the parser works on offsets, as the code does. A
  text of a response is a pointer into the buffer, so the parser takes the buffer
  twice: as it was when it was parsed and as it is when the texts are read.
* **Transport** - `network_receive` over a stream of bytes that arrives in pieces,
  one step per `recv`, with its timeouts and end of file, and the two ways in
  which the clients use it: the session thread writes its reply over the buffer
  before it copies the texts, the single-threaded client parses the buffer after
  a timeout too. A third reader makes and parses each message in memory, as
  `test/serialization.c` does. It justifies two things the clients' modules take
  for granted: that a packet is a message (`InOrder`, `InStep`), and what `Stale`
  of SyncClient says of a buffer parsed with length 0 (`StaleMessage`).
* **Lifecycle** - `smqtt_mt_connect_internal`, composed with Session: each branch
  and early return of the connecting thread, the static buffer that survives from
  one connect to the next, the broker's answer; once `stage` is "open" the steps
  are those of Session (`Open(Next)`), whose `Init` is what `start_session_thread`
  sets up.
* **TwoClients** - two instances of SyncClient in one thread, each with its own
  connection, sharing `receive_buffer`.
* **MCSession**, **MCLifecycle**, **MCLinkedQueue**, **MCSyncClient**,
  **MCTwoClients**, **MCTransport** - constants for TLC.

A request or a publication is a context `[kind, n]`, which stands for topic,
text and `cb_context`; the client never looks at the one in an acknowledgement.
Operators marked "Mutant" are plausible bugs of the definition that follows
them; nothing uses them, `PROJECT.json` says which property each one breaks.

## 3. Assumptions

* The application passes callbacks that return and do not call the API. It calls
  disconnect when none of its threads is inside the API, and nothing after it.
* `malloc` and the pthread calls succeed, and one thread connects at a time.
  In Session, Lifecycle and SyncClient packets arrive whole and are shorter than
  128 bytes; Transport is about the others. Everything fits into its buffer.
* `SubscribeFirst` is a discipline of the application: with it, it subscribes
  before it publishes at QoS 1 or 2, while the two identifier counters agree. The
  run subscribe_after_publish shows why `progress` needs it.
* The broker follows MQTT 3.1. In Session its acknowledgements may overtake each
  other except PINGRESP and PUBREL among themselves; in SyncClient it answers in
  order. In both it publishes at any moment.
* Faults: a send comes back short (`"send"`; the error -1 is taken for a success
  by the comparison in `network_send`, which is `SendOk` on a closed link), the broker closes the connection (`"close"`),
  and in SyncClient the connection is not made (`"connect"`); timeouts are always
  possible in SyncClient unless `prompt`. In Session a timeout is just a turn of
  the loop. Without `"send"` in the fault set the connection is reliable.

## 4. The runs

Passing:

| Run | What happens in it | Checked |
| --- | --- | --- |
| traffic | one caller publishes 3 times at QoS 1 and 2, 3 slots, overtaking acknowledgements; 2 QoS 2 publications with 2 identifiers; any send may fail | TypeOK, SendFifo, AckMatches, CallbackAfterAnswer, DeliverInOrder, HandoverSafe, KeepsPromises |
| shared | two callers, 3 calls and a disconnect, 2 slots, a closed connection: an exhausted pool and equal identifiers occur | SlotOwnership, SendFifo, CallbackOnce |
| leave | Lifecycle: connects that are refused with codes 2, 5 and 6, time out, fail, or meet the old CONNACK at end of file; then 2 subscribes, an unsubscribe, a publish and a disconnect at any time, 2 slots, failing sends, a closed connection | SlotOwnership, SendFifo, CallbackOnce, OpenMeansAccepted, DisconnectReturns, ConnectReturns, CallsReturnUnlessFull |
| progress | a subscribe and a QoS 2 publish, publications at every QoS, 2 slots | AckMatches, EveryCallbackComes, ImplementsAsyncClient, EveryPushDelivered |
| queue | 4 entries, 2 payloads and keys, both uses | ListShape, NoDanglingEntry, ImplementsQueue, SearchEnds |
| sync_requests | 6 requests, a publication in between, timeouts, failed sends, close; prompt brokers and others | OkMeansAnswered, HealthyCallsSucceed |
| sync_subscriber | a subscribe, 3 reads of 3 publications, timeouts, every fault; one of the two identifiers, 116, is the first character of the topic | HandoverSafe, ApiReturns |
| transport | 5 streams of 2 or 3 short packets cut at any byte, packets of 127 and 128 bytes, timeouts and end of file at any point, both clients; 23 messages of every kind in memory, at the borders of one and two size bytes, 255 and 256, 32 and 33 topics | TypeOK, InOrder, InStep, RoundTrip, StaleMessage |

Runs in which the code disagrees with what a document, a comment or a test says;
each is a finding in `PROJECT.json`:

| Run | What TLC finds |
| --- | --- |
| full_pool | with the pool empty a call spins with the mutex held, for ever |
| subscribe_after_publish | the SUBACK entry carries the identifier of publications: no callback |
| sync_timeout | instead of SMQTT_NOMESSAGE the last message comes again |
| two_clients | asked when nothing has come, one client hands out what the other received |

The models also contain these behaviours, for which there is no run, and which
limit what the properties above say:

* an unsubscribe registers an entry of type SUBACK, so its callback never comes
  (`WaitingFor`; `EveryCallbackComes` leaves it out);
* `join_session_thread` frees the client and returns no value, after which
  `smqtt_mt_disconnect` may send through the freed client (`JoinSessionThread`,
  `SendDisconnect`; `DisconnectReturns` accepts a crash);
* at end of file the last packet is dispatched again, so that an old PINGRESP
  calls back a later ping (`ServerReceive` of Session; `CallbackAfterAnswer` is
  only claimed while the connection lasts), and in the single-threaded client a
  timeout has the same effect (`Stale`; `OkMeansAnswered` leaves ping out);
* an identifier or a length of 256 or more loses its high byte (`SER_short`,
  `short_from_buffer`, `Wire`): publish number 256 goes out with identifier 0 and
  its PUBACK finds no entry (`Representable` limits `RoundTrip` to one byte; the
  runs of Session start at identifier 1 and stay below 256);
* a packet of 128 bytes or more loses its framing, and so does everything after a
  `recv` that came back short or a timeout between header and body (`Recv`,
  `RecvBody`, `Timeout`; `InOrder` and `InStep` hold up to there);
* an UNSUBSCRIBE of two size bytes whose last topic is empty loses that topic, and
  topics or results after the 32nd are dropped (`fill_topic_arrays`);
* a `smqtt_mt_connect` with a name that is too long returns SMQTT_MT_OK without a
  client, one that meets an unknown packet returns 99, and one whose broker closes
  the connection without an answer is accepted if the last CONNACK of the process
  was an acceptance (`Connect`, `JudgeConnack`; `OpenMeansAccepted` says so);
* `unsubscribe_packet_id` is never initialised (`Connect` of SyncClient;
  `HealthyCallsSucceed` leaves unsubscribe out);
* after a timeout `smqtt_get_next_message` acknowledges the old PUBLISH under the
  first character of its topic, and the broker then forgets a publication under
  way with that identifier, which the application never gets (`Stale`,
  `OnNextPublish`; it happens in sync_subscriber, and `HandoverSafe` excepts that
  identifier and no other);
* with two QoS 2 publications in flight the second PUBLISH comes where the
  single-threaded client expects PUBREL, and is dropped (`OnNextPubrel`).

**Bounds.** `MaxCalls` and `MaxPushes` bound the calls and publications,
`BufferCount` the pool (10 in the program), `MaxEofReads` how often the end of
file is read. `MaxFailures` bounds the failed connects in a row: one leaves its
CONNACK behind, the next one meets it. `Cuts` are the offsets at which a piece of
a stream may end, all of them in the short streams and those around the borders
in the long ones; `MaxAstray` bounds the packets read once framing is lost, of
which nothing is claimed but the types. The bounds are chosen so that the
interesting cases occur: an exhausted pool needs one call more than slots; a race on the counter two publications of
two threads; an entry hidden by another two requests that wait for one type;
reuse of an identifier two QoS 2 publications and one identifier; a removal in
the middle three queue entries, and one after it four. `FirstId` is 1, as
connect sets it; another value stands for a client that has published before.

The passing runs with AckMatches have one caller: with two, the unlocked counter
really gives two publications one identifier, and then one's acknowledgement may
finish the other; `shared` shows what survives that. `traffic` does
not subscribe and `progress` subscribes first, for the reason
subscribe_after_publish shows. `progress` makes
no more calls than there are slots, for the reason full_pool shows; `leave` makes
twice as many, and `CallsReturnUnlessFull` says that nothing but a pool whose slots
are all on their way to the broker (`PoolExhausted`) keeps a call from returning.

**Fairness** (`FairSpec`): weak fairness of each thread that is inside the API
and of the session thread - the operating system runs a thread that can run, and
no step waits on anything but the mutex, which is free again at once except in
`get_buffer_slot` - and of the broker's receiving and answering. No application
is bound to make a call and no broker to publish. SyncClient assumes that the
thread inside a call runs on, because the socket has a timeout; its broker need
not answer, except that a `prompt` one does, before the timeout passes. In
LinkedQueue the search loop runs on. Lifecycle adds that the thread inside
`smqtt_mt_connect` runs on - `recv` has a timeout - and asks nothing of the broker
that answers it, nor of an application to connect again. Transport states no
fairness: what it says of the bytes is safety, and that a read ends is
`ApiReturns` and `ConnectReturns`. Deadlock is checked except where the
application has made its calls, the peer has sent its bytes, or the client is
disconnected or crashed; the session thread polls, so it never stops.

## 5. The proofs

`SessionProofs` proves, for every set of callers, pool size, bound and fault set:

* `TypeCorrectness`: `Spec => []TypeOK`. The part that is not obvious is that
  nothing unwritten is sent or queued.
* `SlotSafety`: `Spec => []SlotOwnership`.
* `SendOrder`: `Spec => []SendFifo`.

The first two are not inductive alone. `IndInv` adds where each thread is: a caller holds a
slot exactly between `get_buffer_slot` and `enqueue_slot_for_send` and its `pc` is
a step its call has (`CallerOK`); the session thread holds one exactly between
dequeuing and freeing it and has a response while it dispatches (`ThreadOK`); the
buffers of queued slots have been written (`QueuedOK`). There is a lemma per
action, one for steps that touch neither slots nor queues, and lemmas on what
`Append`, `Tail` and `RemoveAt` do to injective sequences. Assumptions: those
named in Session on its constants, nothing else.

As for `SendOrder`, what lies in the send queue stays what was accepted only because nobody else writes to a queued slot,
so the argument rests on `IndInv`. It also needs to know what a slot contains at
the moment it is queued: `OwnContents` says that between serialising and
`enqueue_slot_for_send` a caller's slot holds its own request. `FifoInv` is their
conjunction. The two steps that matter are `EnqueueSlotForSend`, which appends the
same request to both sides of the equation, and `SendSlot`, which moves it from
the front of what is pending to the end of what was sent.

`CallbackProofs` proves `AtMostOneCallback`: `Spec => []CallbackOnce`, for any
number of callers and every fault. The argument (`CallbackInv`) does not look at
identifiers, which the callers may well share: a ping or a publication at QoS 1 or
2 is in one place only. It is inside its call and not yet registered, or in
`ack_queue`, or in the session thread's hand (`InHand`), or called back, and every
step that puts it into the next place takes it out of the last (`OnePlace`). The
waiting_t of a QoS 2 publication goes back into the queue for its PUBCOMP, which
is why "in hand" spans `Reply` and `RequeueWaiting`. Nothing is claimed of a
subscribe, whose waiting_t the session thread keeps a pointer to; an unsubscribe
registers an identifier no message has, so it never leaves the queue.

`DeliveryProofs` proves two theorems about the broker's publications:

* `PublicationsHandedOver`: `MsgCallback => (Spec => []HandoverSafe)`, with any
  faults. `MsgCallback` says that the application supplied a msg_callback; the
  client acknowledges publications without one, too.
* `PublicationsInOrder`: `"close" \notin Faults => (Spec => []DeliverInOrder)`.
  When the broker closes first, `network_receive` takes the old buffer for a
  message and a QoS 0 publication is delivered again (TLC
  finds it), so without the hypothesis the property is false.

Neither assumes anything of the identifiers: the broker may use ones that are
equal on the wire. The question is then why PUBREL, which is matched by
identifier, finds the right copy. `LineInv` answers it while the connection is up.
All publications of one QoS stand in a line of eight places (`Line`): delivered; in
the thread's hand with their PUBREL; PUBREL to the client; PUBREL owed; PUBREC to the
broker; in the thread's hand; PUBLISH to the client; the next one. Whoever is further
on has the lower number (`OrderOK`), because every place is a FIFO queue or holds
one. The copies in `ack_queue` are exactly those whose PUBREC or PUBREL is under
way, with the same identifiers and in order (`CopiesOK`), so the first one with a
PUBREL's identifier is the one it is about. When the connection is gone nothing more
is sent, which is all `HandoverSafe` needs; for the order `NothingAfter` adds that
nothing more is handled either unless the peer closed first. `SlotsOK` says that what
is sent from a slot is a request, never an acknowledgement.

`AckProofs` proves two theorems about the acknowledgements:

* `AcksMatch`: `Orderly => (Spec => []AckMatches)`: the entry found for an
  acknowledgement is that of the request it answers.
* `CallbacksAnswered`: `Orderly => (Spec => []CallbackAfterAnswer)`.

The pool, the number of calls and of publications are arbitrary, and sends may fail. `Orderly` is
what the code needs, and each part is needed. There is one application thread, since
`publish_packet_id++` is not locked and two threads can use one identifier. The
identifiers stay below 256, since one byte of them goes over the wire. There is no
subscribe, or one, made before the publications and with no unsubscribe: the entry
of a subscribe gets the publish counter's identifier (the run
subscribe_after_publish), and the entry of an unsubscribe is never removed. The
peer does not close the connection: at end of file the old buffer is handled again.

`RoundOK` is the inductive part, while the connection is up. A request that is called
back is always in one of seven places (`Way`): acknowledged and in the session thread's hand;
in `toClient`; owed by the broker; in `toServer`; being sent; in `send_queue`; in a
call that has registered it and not yet queued it. For each the next
acknowledgement is determined (`Expected`), and an entry for exactly that one is in
`ack_queue`, or in the thread's hand while a QoS 2 publication is being re-registered
for its PUBCOMP (`WayOK`). To find the right one, entries must not be confused:
publications in flight have different identifiers, because the counter counts calls
and does not pass 255 (`CountersOK`, `IdsOK`); pings have none, and it is order that
identifies them, along the way and in `ack_queue` (`InOrder`, `PingsOK`). That a
callback follows the answer is `AnsweredOK`. Once the connection is lost, the session
thread handles nothing more (`NothingAfter`, from DeliveryProofs). TLC checked
`RoundTripInv` on three instances with all kinds of calls before it was proved.

`RefinementProofs` proves that Session implements AsyncClient, but for the fairness:

* `PromisesKept`: `Orderly => (Spec => KeepsPromises)`, with the same `Orderly`.

The initial states map to initial states (`InitRefines`) and each step to a step or a
stutter (`StepRefines`), with one lemma per abstract action: `EnqueueSlotForSend` is
`Accept`, `SendSlot` is `Transmit`, `BrokerAnswer` is `Acknowledge` when it sends a
final acknowledgement, `InvokeCallback` is `Notify`, `BrokerPublish` is `Publish`, and
`Deliver` is `Deliver`; all the rest stutters. How the abstract queue moves follows
from `SendFifo` alone: `accepted` is `sent` followed by it, before and after
(`PendingStep`). The guards need more than the invariants above, and `PromiseInv` adds
it. A call that is being made is none of those that returned (`AcceptedOK`). What the
broker acknowledges was sent (`TracedOK`). The one subscribe, of which `CallbackOnce`
says nothing, is in one place, too, since its SUBACK always matches (`SubOK`). And, for
`Deliver`, while the connection is up no publication has got lost: each is
delivered, in the thread's hand, or some packet of its handshake is under way
(`UnderwayOK`). With the line of `LineInv` this makes the next one delivered the lowest
that has not been: all before it have been handed over, which is more than
`DeliverInOrder` says. Without a msg_callback nothing is delivered and the step
stutters. TLC checked `PromiseInv` on two instances with failing sends before it was
proved, and checks `KeepsPromises` in the run traffic.

`LifecycleProofs` proves `OnlyAcceptedOpen` (`LifeSpec => []OpenMeansAccepted`) from
`ConnectInv`, which follows one attempt through its stages: what the thread parses
is the answer to this CONNECT, or the old buffer of a connection that was closed
without one. `LifeSlotSafety`, `LifeSendOrder` and `LifeCallbackOnce` carry Session's
invariants over: of Session's variables the connecting thread changes none but `link`,
and once the client is open every step is a step of Session.

`SyncClientProofs` proves, for any number of calls and publications, any
interleaving with the broker, and all faults and timeouts:

* `OkCallsAnswered`: `NoWrap => (Spec => []OkMeansAnswered)`. `AnswerInv`: every
  request and reply under way, and the one in the old buffer, has an identifier no
  greater than the counter it came from, and one that has the counter's belongs to
  the call in progress; a stale read has identifier 0, which no call expects. `NoWrap`
  bounds the calls by the 16 bits of the counters; after them a late reply to
  a call 65536 calls ago could be taken for the reply to this one.
* `ForgottenMeansHanded`: `Spec => []HandoverSafe`. The exception in `HandoverSafe`
  is the code's: after a timeout an old PUBLISH is read one byte early, the first
  character of its topic is taken for its identifier, and the acknowledgement goes
  to whichever publication has that one. `HandoverInv`: for each other identifier
  (`Tracked`) at most one message of the exchange is under way, and an
  acknowledgement only for a publication that was handed over.
* `HealthyCalls`: `SmallIds => (Spec => []HealthyCallsSucceed)`. `HealthyInv`: with a
  prompt broker that publishes nothing, client and broker go in lockstep. Outside a
  call nothing that will be answered is under way; inside there is one such message
  and its answer is the expected one. `SmallIds` keeps identifiers below 256, where
  the serialisation loses no byte.

`LinkedQueueProofs` proves, for any set of addresses, payloads and keys and hence
for any length of queue:

* `ListIntegrity`: `Spec => []ListShape`.
* `NoDangling`: `Spec => []NoDanglingEntry`.
* `Refinement`: `Spec => ImplementsQueue`, where `items` is mapped to the payloads
  of the entries in the order of the list and `asked` to the key of the search in
  progress.

`ListInv` is inductive. It joins the shape of the list to the fact that entries
are distinct - without it, writing one entry's pointers could alter another's -
and to `SearchPosition`: a search stands at the entry after those it has passed,
none of which has the key, and there is a key only during a search. That makes the entry it removes the oldest one with
the key, and a search that runs off the end a miss. `dequeue` does not reset the
new head's `previous`, so the backward pointers are only claimed of the ack
queue, which never uses `dequeue`; `remove_from_queue` is only called on that one.

Only model-checked:

* liveness (`CallsReturnUnlessFull`, `DisconnectReturns`, `ConnectReturns`,
  `EveryCallbackComes`, `EveryPushDelivered`, `ApiReturns`, `SearchEnds`), which
  needs fairness and `ENABLED`, and with it the fairness part of
  `ImplementsAsyncClient`;
* `TypeOK`, `InOrder`, `InStep`, `RoundTrip` and `StaleMessage` of Transport, with Codec: what
  is made of a sequence of bytes is defined by recursion over it, and induction over
  data is beyond the provers used here.

## 6. Not modelled

* What happens past the end of a buffer: texts that do not fit into BUFFER_SIZE
  bytes, the unterminated copies of texts, UTF-8 (the code treats texts as bytes).
* NULL callbacks, `free` of `waiting_t`, topic and message copies, keep-alive (the
  code sends no PINGREQ by itself), and two threads inside `smqtt_mt_connect`.
* The name lookup and socket options of `network_connect`: connecting succeeds or
  fails. `select` before the first `recv`: its result is not used.
* The local server: stubs that nothing calls.
* The command line tool: it parses its arguments in one pass and makes one connect
  and one publish, or one subscribe and a loop of `smqtt_get_next_message`. These
  call sequences are among those of SyncClient.
* The tests, which serve as statements of what is intended.

## 7. Where it stands

Every component but those of section 6 is modelled, and every safety property of
Session, Lifecycle, LinkedQueue and SyncClient that a passing run checks is a
theorem, under the hypotheses section 5 states. What could still be added:

* Transport: its invariants are only model-checked. They would need facts about what
  `Codec` makes of a sequence of any length, and so induction over it.
* Liveness of Session and SyncClient stays with TLC.
