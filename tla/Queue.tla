-------------------------------- MODULE Queue --------------------------------
(***************************************************************************)
(* What a queue_t promises its users: first in, first out, and removal of  *)
(* the oldest element with a given key.                                    *)
(***************************************************************************)
EXTENDS Naturals, Sequences, SequencesExt

CONSTANTS Payloads, Keys, KeyOf, None

VARIABLES
  items,   \* the contents
  asked,   \* the key a removal by key in progress looks for, or None
  out      \* what the last removal returned

vars == <<items, asked, out>>

Init == items = <<>> /\ asked = None /\ out = None

Put(p) ==
  /\ asked = None
  /\ items' = Append(items, p)
  /\ UNCHANGED <<asked, out>>

TakeHead ==
  /\ asked = None /\ items # <<>>
  /\ items' = Tail(items)
  /\ out' = Head(items)
  /\ UNCHANGED asked

\* There is nothing to take, whatever is looked for.
Empty ==
  /\ asked = None /\ items = <<>>
  /\ out' = None
  /\ UNCHANGED <<items, asked>>

\* A removal by key begins; nothing else happens to the queue until it ends.
Ask(k) ==
  /\ asked = None /\ items # <<>>
  /\ asked' = k
  /\ UNCHANGED <<items, out>>

\* It ends with element i, the oldest one with the key asked for ...
TakeAt(i) ==
  /\ asked # None
  /\ KeyOf[items[i]] = asked /\ \A j \in 1..(i - 1) : KeyOf[items[j]] # asked
  /\ items' = RemoveAt(items, i)
  /\ out' = items[i]
  /\ asked' = None

\* ... or with nothing, if no element has that key.
Miss ==
  /\ asked # None
  /\ \A i \in DOMAIN items : KeyOf[items[i]] # asked
  /\ out' = None /\ asked' = None
  /\ UNCHANGED items

Next ==
  \/ \E p \in Payloads : Put(p)
  \/ TakeHead
  \/ Empty
  \/ \E k \in Keys : Ask(k)
  \/ \E i \in DOMAIN items : TakeAt(i)
  \/ Miss

Spec == Init /\ [][Next]_vars
=============================================================================
