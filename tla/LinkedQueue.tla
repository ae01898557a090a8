----------------------------- MODULE LinkedQueue -----------------------------
(***************************************************************************)
(* queue_t of libsmqttclient_mt/connection.c: a doubly linked list with    *)
(* head and tail pointers, at the level of its pointer assignments.        *)
(*                                                                         *)
(* A client has three of them and each is used in one of two ways: the     *)
(* free and send queues with enqueue and dequeue, the ack queue with       *)
(* enqueue and dequeue_by_type_and_id (ByKey); used_as says in which.      *)
(* Every operation runs under thread_mutex, so one queue sees them one     *)
(* after the other; the search is one step per entry it visits.            *)
(*                                                                         *)
(* The type and packet id an entry is looked up by are its key.  What the  *)
(* SUBACK case does on another packet id is in module Session.             *)
(***************************************************************************)
EXTENDS Naturals, Sequences, SequencesExt

CONSTANTS
  Cells,      \* addresses malloc can return for a queue_entry_t
  Payloads,   \* what the entries point to
  Keys,       \* (type, packet id) pairs
  KeyOf,      \* the key of each payload
  NULL

ASSUME NullAssumption == NULL \notin Cells /\ NULL \notin Payloads
ASSUME KeyAssumption == KeyOf \in [Payloads -> Keys] /\ NULL \notin Keys

VARIABLES
  head, tail,                \* queue_t
  payload, previous, next,   \* the fields of every queue_entry_t
  allocated,                 \* addresses malloc has handed out
  curr_entry, key,           \* locals of a search in progress, or NULL
  out,                       \* what the last removal returned
  used_as,                   \* "fifo" or "ack": which of a client's queues it is
  order,                     \* history: the entries, oldest first
  visited                    \* history: how many entries the search has passed

listVars == <<head, tail, payload, previous, next, allocated, order>>
vars == <<listVars, curr_entry, key, out, used_as, visited>>

ByKey == used_as = "ack"

\* init_queue.  Memory nobody wrote to holds anything; TLC takes NULL.
Init ==
  /\ head = NULL /\ tail = NULL
  /\ payload = [e \in Cells |-> NULL]
  /\ previous = [e \in Cells |-> NULL] /\ next = [e \in Cells |-> NULL]
  /\ allocated = {}
  /\ curr_entry = NULL /\ key = NULL /\ out = NULL
  /\ order = <<>> /\ visited = 0
  /\ used_as \in {"fifo", "ack"}

Idle == curr_entry = NULL

\* enqueue: a fresh entry at the tail.
Enqueue(p) ==
  /\ Idle
  /\ \E entry \in Cells \ allocated :
       /\ allocated' = allocated \cup {entry}
       /\ payload' = [payload EXCEPT ![entry] = p]
       /\ tail' = entry
       /\ IF head = NULL
          THEN /\ head' = entry
               /\ previous' = [previous EXCEPT ![entry] = NULL]
               /\ next' = [next EXCEPT ![entry] = NULL]
          ELSE /\ head' = head
               /\ previous' = [previous EXCEPT ![entry] = tail]
               /\ next' = [next EXCEPT ![entry] = NULL, ![tail] = entry]
       /\ order' = Append(order, entry)
  /\ UNCHANGED <<curr_entry, key, out, used_as, visited>>

\* The new head keeps its old previous pointer.
UnlinkHead ==
  IF tail = head
  THEN head' = NULL /\ tail' = NULL
  ELSE head' = next[head] /\ UNCHANGED tail

\* Mutants: the payload of the tail is returned; free(queue->head) when head
\* has already moved on.
PayloadOfTail == payload[tail]
FreeNewHead == allocated' = allocated \ {head'}

FirstPayload == payload[head]
FreeFirst == allocated' = allocated \ {head}

\* dequeue: the first entry is unlinked, read and freed.
Dequeue ==
  /\ Idle /\ ~ByKey
  /\ \/ /\ head = NULL
        /\ out' = NULL
        /\ UNCHANGED listVars
     \/ /\ head # NULL
        /\ UnlinkHead
        /\ out' = FirstPayload
        /\ FreeFirst
        /\ order' = Tail(order)
        /\ UNCHANGED <<payload, previous, next>>
  /\ UNCHANGED <<curr_entry, key, used_as, visited>>

\* dequeue_by_type_and_id is called: an empty queue is left at once.
StartSearch(k) ==
  /\ Idle /\ ByKey
  /\ visited' = 0
  /\ IF head = NULL
     THEN out' = NULL /\ UNCHANGED <<curr_entry, key>>
     ELSE curr_entry' = head /\ key' = k /\ UNCHANGED out
  /\ UNCHANGED <<listVars, used_as>>

\* Mutant: the entry that follows keeps its previous pointer.
RemoveOneWay(e) ==
  /\ head' = IF previous[e] = NULL THEN next[e] ELSE head
  /\ tail' = IF next[e] = NULL THEN previous[e] ELSE tail
  /\ next' = IF previous[e] = NULL THEN next
                                   ELSE [next EXCEPT ![previous[e]] = next[e]]
  /\ order' = RemoveAt(order, visited + 1)
  /\ UNCHANGED <<payload, previous, allocated>>

\* remove_from_queue: the entry is unlinked, and never freed.
RemoveFromQueue(e) ==
  /\ head' = IF previous[e] = NULL THEN next[e] ELSE head
  /\ tail' = IF next[e] = NULL THEN previous[e] ELSE tail
  /\ next' = IF previous[e] = NULL THEN next
                                   ELSE [next EXCEPT ![previous[e]] = next[e]]
  /\ previous' = IF next[e] = NULL THEN previous
                                   ELSE [previous EXCEPT ![next[e]] = previous[e]]
  /\ order' = RemoveAt(order, visited + 1)
  /\ UNCHANGED <<payload, allocated>>

\* Mutant: a mismatch does not move on to the next entry.
SearchStepStuck ==
  /\ curr_entry # NULL /\ UNCHANGED used_as
  /\ IF KeyOf[payload[curr_entry]] = key
     THEN /\ RemoveFromQueue(curr_entry)
          /\ out' = payload[curr_entry]
          /\ curr_entry' = NULL /\ key' = NULL
          /\ UNCHANGED visited
     ELSE UNCHANGED vars

\* One turn of its loop: the entry has the key, or the search goes on.
SearchStep ==
  /\ curr_entry # NULL /\ UNCHANGED used_as
  /\ IF KeyOf[payload[curr_entry]] = key
     THEN /\ RemoveFromQueue(curr_entry)
          /\ out' = payload[curr_entry]
          /\ curr_entry' = NULL /\ key' = NULL
          /\ UNCHANGED visited
     ELSE /\ curr_entry' = next[curr_entry]
          /\ visited' = visited + 1
          /\ IF next[curr_entry] = NULL
             THEN key' = NULL /\ out' = NULL
             ELSE UNCHANGED <<key, out>>
          /\ UNCHANGED listVars

Next ==
  \/ \E p \in Payloads : Enqueue(p)
  \/ Dequeue
  \/ \E k \in Keys : StartSearch(k)
  \/ SearchStep

Spec == Init /\ [][Next]_vars /\ WF_vars(SearchStep)

-----------------------------------------------------------------------------
\* Types of the pointers and of the fields of the entries.
TypeOK ==
  /\ head \in Cells \cup {NULL} /\ tail \in Cells \cup {NULL}
  /\ payload \in [Cells -> Payloads \cup {NULL}]
  /\ previous \in [Cells -> Cells \cup {NULL}] /\ next \in [Cells -> Cells \cup {NULL}]
  /\ allocated \subseteq Cells
  /\ curr_entry \in Cells \cup {NULL} /\ key \in Keys \cup {NULL}
  /\ out \in Payloads \cup {NULL}
  /\ order \in Seq(Cells) /\ visited \in Nat /\ used_as \in {"fifo", "ack"}

\* The pointers spell out the list of entries: head and tail are its ends,
\* next leads through it to NULL, and where remove_from_queue is used so does
\* previous in the other direction.
ListShape ==
  /\ (order = <<>>) = (head = NULL) /\ (order = <<>>) = (tail = NULL)
  /\ order # <<>> => head = order[1] /\ tail = order[Len(order)]
  /\ \A i \in 1..Len(order) : next[order[i]] = IF i = Len(order) THEN NULL ELSE order[i + 1]
  /\ ByKey => \A i \in 1..Len(order) : previous[order[i]] = IF i = 1 THEN NULL ELSE order[i - 1]

\* Every entry of the list is allocated memory and occurs in it once: no
\* pointer a queue operation follows leads to a freed entry.
NoDanglingEntry ==
  /\ \A i \in 1..Len(order) : order[i] \in allocated /\ payload[order[i]] \in Payloads
  /\ \A i, j \in 1..Len(order) : order[i] = order[j] => i = j

\* A search stands at the entry after those it has passed, and none of these
\* has the key; without a search there is no key.
SearchPosition ==
  IF curr_entry = NULL
  THEN key = NULL
  ELSE /\ ByKey /\ key \in Keys /\ visited < Len(order) /\ curr_entry = order[visited + 1]
       /\ \A i \in 1..visited : KeyOf[payload[order[i]]] # key

\* ListShape is inductive with these.
ListInv == TypeOK /\ ListShape /\ NoDanglingEntry /\ SearchPosition

\* The list behaves as a queue: each operation, when it is complete, has done
\* what Queue says, and a search ends with the oldest entry of the key it was
\* called with, or with none if there is no such entry.
Abstract == INSTANCE Queue WITH items <- [i \in 1..Len(order) |-> payload[order[i]]],
                                asked <- key, None <- NULL
ImplementsQueue == Abstract!Spec

\* A search comes to an end: the next pointers contain no cycle.
SearchEnds == curr_entry # NULL ~> curr_entry = NULL
=============================================================================
