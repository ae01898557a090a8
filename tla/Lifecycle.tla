------------------------------ MODULE Lifecycle ------------------------------
(***************************************************************************)
(* The life of a multi-threaded client from smqtt_mt_connect to the end:   *)
(* smqtt_mt_connect_internal of libsmqttclient_mt/smqttc_mt.c, and after   *)
(* start_session_thread the steps of module Session.                       *)
(*                                                                         *)
(* The connecting thread reads the CONNACK into a static receive_buffer,   *)
(* which every connect of the process uses and nothing clears.  A failed   *)
(* connect may be tried again.  While a thread is connecting, link stands  *)
(* for the socket of the attempt.  The broker is external.                 *)
(***************************************************************************)
EXTENDS Session

CONSTANTS
  ConnackCodes,  \* return codes the broker may answer CONNECT with
  MaxFailures    \* bound: failed attempts in a row after which none is made

ASSUME CodeAssumption == ConnackCodes \subseteq 0..255
ASSUME FailureAssumption == MaxFailures \in Nat

None == -1       \* no CONNACK

VARIABLES
  stage,          \* of the connecting thread: "start", "send", "receive", "parse", "open"
  static_buffer,  \* return code of the CONNACK in the static receive_buffer, or None
  hello,          \* on the wire: "nothing", "CONNECT" or "CONNACK"
  result,         \* what the last smqtt_mt_connect returned
  failures,
  \* history
  verdict,        \* what the broker answered to this attempt, or None
  atEof           \* was the old buffer parsed because the peer had closed?

connectVars == <<stage, static_buffer, hello, result, failures, verdict, atEof>>
allVars == <<vars, connectVars>>

-----------------------------------------------------------------------------
(* smqtt_mt_connect_internal.                                              *)

Fail(res) ==
  /\ stage' = "start" /\ result' = res /\ failures' = failures + 1

\* Names are checked, then the socket is connected.  Names that are too long
\* are refused with SMQTT_MT_OK, and *client is left alone.
Connect ==
  /\ stage = "start" /\ failures < MaxFailures
  /\ verdict' = None /\ atEof' = FALSE /\ hello' = "nothing"
  /\ \/ Fail("OK") /\ UNCHANGED link
     \/ Fail("SOCKET") /\ UNCHANGED link
     \/ stage' = "send" /\ link' = "up" /\ UNCHANGED <<result, failures>>
  /\ UNCHANGED <<clientVars, callerVars, threadVars, toServer, toClient, owed, inflight,
                 eofReads, historyVars, static_buffer>>

\* make_connect_message and server_send, which may still succeed when the
\* peer has closed; nobody reads the CONNECT then.
SendConnect ==
  /\ stage = "send"
  /\ \/ stage' = "receive" /\ hello' = "CONNECT" /\ UNCHANGED <<link, result, failures>>
     \/ "send" \in Faults /\ link' = "null" /\ Fail("SOCKET") /\ UNCHANGED hello
  /\ UNCHANGED <<clientVars, callerVars, threadVars, toServer, toClient, owed, inflight,
                 eofReads, historyVars, static_buffer, verdict, atEof>>

\* Mutant: recv without a timeout.
ReceiveConnackBlocking ==
  /\ stage = "receive"
  /\ \/ /\ hello = "CONNACK"
        /\ static_buffer' = verdict /\ hello' = "nothing"
        /\ stage' = "parse"
        /\ UNCHANGED <<link, result, failures, atEof>>
     \/ /\ hello # "CONNACK" /\ link = "closed"
        /\ atEof' = TRUE
        /\ stage' = "parse"
        /\ UNCHANGED <<static_buffer, hello, link, result, failures>>
  /\ UNCHANGED <<clientVars, callerVars, threadVars, toServer, toClient, owed, inflight,
                 eofReads, historyVars, verdict>>

\* server_receive: a CONNACK, the timeout (SMQTT_MT_NOMESSAGE, and the socket
\* is closed), or end of file, at which the buffer keeps what it held.
ReceiveConnack ==
  /\ stage = "receive"
  /\ \/ /\ hello = "CONNACK"
        /\ static_buffer' = verdict /\ hello' = "nothing"
        /\ stage' = "parse"
        /\ UNCHANGED <<link, result, failures, atEof>>
     \/ /\ hello # "CONNACK" /\ link = "up"
        /\ link' = "closed"
        /\ Fail("NOMESSAGE")
        /\ UNCHANGED <<static_buffer, hello, atEof>>
     \/ /\ hello # "CONNACK" /\ link = "closed"
        /\ atEof' = TRUE
        /\ stage' = "parse"
        /\ UNCHANGED <<static_buffer, hello, link, result, failures>>
  /\ UNCHANGED <<clientVars, callerVars, threadVars, toServer, toClient, owed, inflight,
                 eofReads, historyVars, verdict>>

Statuses == <<"PROTOCOL", "IDENTIFIER", "SERVER", "NOT_AUTHENTICATED", "NOT_AUTHORIZED">>
RefusalStatus(code) == IF code \in DOMAIN Statuses THEN Statuses[code] ELSE "NOACK"

\* Mutant: any CONNACK counts as an acceptance.
AcceptsAny(code) == code # None

Accepts(code) == code = 0

\* deserialize_response and the judgement.  An all-zero buffer has no type:
\* 99, with the socket left open.  Then start_session_thread (see Init).
JudgeConnack ==
  /\ stage = "parse"
  /\ \/ static_buffer = None /\ Fail("99") /\ UNCHANGED link
     \/ /\ static_buffer # None /\ ~Accepts(static_buffer)
        /\ Fail(RefusalStatus(static_buffer))
        /\ link' = "closed"
     \/ /\ static_buffer # None /\ Accepts(static_buffer)
        /\ stage' = "open" /\ result' = "OK" /\ failures' = 0
        /\ UNCHANGED link
  /\ UNCHANGED <<clientVars, callerVars, threadVars, toServer, toClient, owed, inflight,
                 eofReads, historyVars, static_buffer, hello, verdict, atEof>>

\* The broker, external, answers a CONNECT once, on a connection it keeps or
\* closes afterwards.
AnswerConnect ==
  /\ stage = "receive" /\ link = "up" /\ hello = "CONNECT"
  /\ hello' = "CONNACK" /\ verdict' \in ConnackCodes
  /\ UNCHANGED <<vars, stage, static_buffer, result, failures, atEof>>

\* It may close the connection before the CONNECT, or before or after it has
\* answered.
CloseWhileConnecting ==
  /\ stage \in {"send", "receive"} /\ BrokerClose
  /\ UNCHANGED connectVars

-----------------------------------------------------------------------------
\* Init of module Session is what start_session_thread will set up.  An
\* earlier client of the process may have left its CONNACK in the buffer.
LifeInit ==
  /\ Init
  /\ stage = "start" /\ static_buffer \in {None} \cup ConnackCodes
  /\ hello = "nothing" /\ result = "none" /\ failures = 0
  /\ verdict = None /\ atEof = FALSE

ConnectStep == SendConnect \/ ReceiveConnack \/ JudgeConnack

Open(A) == stage = "open" /\ A /\ UNCHANGED connectVars

LifeNext ==
  \/ Connect \/ ConnectStep
  \/ AnswerConnect \/ CloseWhileConnecting
  \/ Open(Next)

\* The fairness of Session once there is one, and a thread inside
\* smqtt_mt_connect goes on; nobody is bound to connect.
LifeSpec ==
  /\ LifeInit /\ [][LifeNext]_allVars
  /\ WF_allVars(ConnectStep)
  /\ \A c \in Callers : WF_allVars(Open(CallerStep(c)))
  /\ WF_allVars(Open(SessionStep))
  /\ WF_allVars(Open(BrokerReceive)) /\ WF_allVars(Open(BrokerAnswer))

-----------------------------------------------------------------------------
\* A client is only handed out when the broker has accepted this very attempt
\* and not an earlier one whose CONNACK the static buffer still holds, unless
\* the broker closed the connection without an answer: then the next read is
\* that of the earlier CONNACK.
OpenMeansAccepted ==
  stage = "open" => verdict = 0 \/ (atEof /\ verdict = None /\ link # "up")

(* What makes it inductive: what each stage of the attempt knows of the    *)
(* answer, and that only a peer that has closed makes the old buffer read. *)
ConnectInv ==
  /\ atEof \in BOOLEAN
  /\ stage = "send" => verdict = None /\ ~atEof
  /\ stage = "receive" =>
       /\ ~atEof
       /\ \/ hello = "CONNECT" /\ verdict = None
          \/ hello = "CONNACK" /\ verdict \in ConnackCodes
  /\ stage = "parse" =>
       \/ ~atEof /\ static_buffer = verdict
       \/ atEof /\ verdict = None /\ link = "closed"
  /\ OpenMeansAccepted

\* smqtt_mt_connect returns, whatever the broker does or leaves out.
ConnectReturns == stage \in {"send", "receive", "parse"} ~> stage \in {"start", "open"}
=============================================================================
