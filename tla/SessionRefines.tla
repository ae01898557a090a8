--------------------------- MODULE SessionRefines ---------------------------
(***************************************************************************)
(* Session implements AsyncClient, while its connection lasts.             *)
(***************************************************************************)
EXTENDS Session

\* The contexts of the calls within the bounds, and of those called back.
CallContexts(kinds) ==
  UNION {{[kind |-> k, n |-> n] : n \in 1..MaxCalls[k]} : k \in kinds}

\* A request counts as queued until its slot is handed to server_send, and a
\* publication as delivered once msg_callback is called with it.
Async == INSTANCE AsyncClient WITH
  Contexts <- CallContexts(Kinds),
  Awaited  <- CallContexts(Awaited),
  PushKind <- [q \in 0..2 |-> SrvKind[q + 1]],
  queue    <- Pending,
  notified <- called,
  pushed   <- pushes

\* Requests leave in the order of the calls, each one is called back once and
\* after its acknowledgement, and publications arrive in order with none left
\* out: every step of the threads and the broker is a step of AsyncClient or
\* changes nothing the application can see.
KeepsPromises == Async!Safety

\* The client keeps the promises of AsyncClient, the eventual ones too.
ImplementsAsyncClient == Async!Spec
=============================================================================
