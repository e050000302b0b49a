---------------------------- MODULE SampleClient ----------------------------
(***************************************************************************)
(* The Node.js WebSocket sample of src/util/samples/nodejs/index.js: a    *)
(* ReconnectingWebSocket to the work server; onopen sends one             *)
(* work_generate request, onmessage logs the first message it receives as *)
(* a successful test and exits the process.                               *)
(*                                                                         *)
(* The socket library reconnects whenever the connection is lost (up to   *)
(* maxRetries = 100000 failed attempts, which the model does not reach).  *)
(* A connection is lost when the server goes down; a request or an answer *)
(* on a lost connection is lost with it.  The server answers a request    *)
(* with work or with an error object.                                      *)
(***************************************************************************)
EXTENDS Naturals

CONSTANTS
  Replies,         \* kinds of answer the server sends: "work", "error"
  MaxFaults        \* bound on server outages plus dropped connections

ASSUME Replies \subseteq {"work", "error"} /\ "work" \in Replies
ASSUME MaxFaults \in Nat

VARIABLES
  conn,       \* "connecting" or "open"
  request,    \* a work_generate is outstanding on the open connection
  reply,      \* the answer on its way to the client, or "none"
  exited,     \* process.exit(0) was called
  outcome,    \* the message the client exited on, or "none"
  serverUp,   \* the work server accepts connections
  faults,     \* outages and dropped connections so far
  sent        \* work_generate requests sent so far, duplicates included

vars == <<conn, request, reply, exited, outcome, serverUp, faults, sent>>


-----------------------------------------------------------------------------
\* The socket is created at start-up and starts connecting.
Init ==
  /\ conn = "connecting"
  /\ request = FALSE /\ reply = "none"
  /\ exited = FALSE /\ outcome = "none"
  /\ serverUp \in BOOLEAN
  /\ faults = 0 /\ sent = 0

\* onopen with a slip: the request is sent on the first connection only.
OpenFirstOnly ==
  /\ ~exited /\ conn = "connecting" /\ serverUp
  /\ conn' = "open"
  /\ request' = (sent = 0) /\ sent' = IF sent = 0 THEN 1 ELSE sent
  /\ UNCHANGED <<reply, exited, outcome, serverUp, faults>>

\* onopen with a slip: the request is sent again on an open connection.
OpenAnyTime ==
  /\ ~exited /\ serverUp
  /\ conn' = "open"
  /\ request' = TRUE /\ sent' = sent + 1
  /\ UNCHANGED <<reply, exited, outcome, serverUp, faults>>

\* The connection opens; onopen sends the work_generate request.
Open ==
  /\ ~exited /\ conn = "connecting" /\ serverUp
  /\ conn' = "open"
  /\ request' = TRUE /\ sent' = sent + 1
  /\ UNCHANGED <<reply, exited, outcome, serverUp, faults>>

\* The server answers the outstanding request with some reply.
ServerReplies(r) ==
  /\ conn = "open" /\ request /\ reply = "none"
  /\ request' = FALSE /\ reply' = r
  /\ UNCHANGED <<conn, exited, outcome, serverUp, faults, sent>>

\* onmessage: log the data, parse it, report success and exit.
OnMessage ==
  /\ ~exited /\ conn = "open" /\ reply # "none"
  /\ exited' = TRUE /\ outcome' = reply
  /\ reply' = "none"
  /\ UNCHANGED <<conn, request, serverUp, faults, sent>>

\* The server goes down (the connection, its request and reply are lost
\* and the socket reconnects) or comes back (environment).
ServerDown ==
  /\ serverUp /\ faults < MaxFaults
  /\ serverUp' = FALSE /\ faults' = faults + 1
  /\ conn' = "connecting" /\ request' = FALSE /\ reply' = "none"
  /\ UNCHANGED <<exited, outcome, sent>>

\* The open connection drops while the server stays up (network fault);
\* the request or answer on it is lost and the socket reconnects.
ConnectionDrops ==
  /\ conn = "open" /\ faults < MaxFaults
  /\ faults' = faults + 1
  /\ conn' = "connecting" /\ request' = FALSE /\ reply' = "none"
  /\ UNCHANGED <<exited, outcome, serverUp, sent>>

ServerUp ==
  /\ ~serverUp
  /\ serverUp' = TRUE
  /\ UNCHANGED <<conn, request, reply, exited, outcome, faults, sent>>

Next ==
  \/ Open
  \/ \E r \in Replies : ServerReplies(r)
  \/ OnMessage
  \/ ServerDown
  \/ ConnectionDrops
  \/ ServerUp

(***************************************************************************)
(* Fairness.  The socket keeps reconnecting while the server is up: lines *)
(* 15-21 configure 100000 retries at most 2 s apart and a 1 s connection  *)
(* timeout, so a connection attempt to a server that stays up eventually  *)
(* opens.  An open connection delivers the answer to onmessage, and the   *)
(* work server answers a request it received (it is outside the           *)
(* repository: this is the assumption the sample is written under).  The *)
(* server going down or up is the environment and is not fair.           *)
(***************************************************************************)
Fairness ==
  /\ WF_vars(Open)
  /\ WF_vars(\E r \in Replies : ServerReplies(r))
  /\ WF_vars(OnMessage)

Spec == Init /\ [][Next]_vars /\ Fairness

-----------------------------------------------------------------------------
TypeOK ==
  /\ conn \in {"connecting", "open"}
  /\ request \in BOOLEAN /\ serverUp \in BOOLEAN /\ exited \in BOOLEAN
  /\ reply \in Replies \cup {"none"} /\ outcome \in Replies \cup {"none"}
  /\ faults \in 0..MaxFaults /\ sent \in 0..MaxFaults + 1

(***************************************************************************)
(* The sample finishes after any number of server outages and dropped   *)
(* connections: once the                                                 *)
(* server stays up, the reconnecting socket opens a connection, onopen    *)
(* sends the work request again on it, and the answer reaches onmessage,  *)
(* which exits.  A request or an answer lost with a connection must not   *)
(* leave the client waiting for good.                                      *)
(***************************************************************************)
ClientExits == <>[]serverUp => <>exited

(***************************************************************************)
(* What onmessage logs: the test completed successfully, i.e. the client  *)
(* received generated work.                                                *)
(***************************************************************************)
SuccessMeansWork == exited => outcome = "work"
=============================================================================
