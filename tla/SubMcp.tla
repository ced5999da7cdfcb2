------------------------------- MODULE SubMcp -------------------------------
(***************************************************************************)
(* One sub-MCP server as exec_server/sub-mcp-manager.js keeps it, under    *)
(* the requests bridge-server.js passes on.  Each attempt to connect makes *)
(* a process, a transport and a client, numbered in the order they are     *)
(* spawned.  An action is one event of the JavaScript thread with all the  *)
(* promise continuations it releases.                                      *)
(*                                                                         *)
(* External: the MCP SDK.  A failed handshake starts to close its process  *)
(* without waiting for it, a process that goes away runs onclose and then  *)
(* rejects what its client has pending, and requests time out.             *)
(***************************************************************************)
EXTENDS Naturals

CONSTANTS
  Requests,  \* "call" and "get_schema" lines that reach the bridge
  MaxFaults  \* bound: handshakes that fail and processes that die

ASSUME SubMcpAssumption == MaxFaults \in Nat

\* Every attempt but the first follows a connection marked as crashed: by a
\* fault, or by the late close of a process whose handshake had failed.
Attempts == 1..(2 * MaxFaults + 1)
None == 0

VARIABLES
  status, client, crashCount,  \* ServerState
  connecting, \* connectPromise: "no", waiting out the "backoff", or "handshake"
  spawned,    \* attempts so far
  proc,       \* per attempt: its process
  req,        \* per request: where callTool or getSchema is
  via,        \* per request: the attempt whose client it was sent with
  faults

state == <<status, client, crashCount, connecting>>
vars == <<state, spawned, proc, req, via, faults>>

\* The fields of ServerState agree with each other.
\* closing: the handshake failed, close() was called, 'close' has not come.
TypeOK ==
  /\ status \in {"disconnected", "connecting", "connected", "crashed"}
  /\ client \in Attempts \cup {None}
  /\ crashCount \in 0..(2 * MaxFaults)
  /\ connecting \in {"no", "backoff", "handshake"}
  /\ spawned \in Attempts \cup {0}
  /\ proc \in [Attempts -> {"unborn", "handshake", "live", "closing", "closed"}]
  /\ req \in [Requests -> {"idle", "connecting", "calling", "answered"}]
  /\ via \in [Requests -> Attempts \cup {None}]
  /\ faults \in 0..MaxFaults
  /\ status = "connected" <=> client # None
  /\ connecting # "no" => status = "connecting"

Init ==
  /\ status = "disconnected" /\ client = None /\ crashCount = 0
  /\ connecting = "no"
  /\ spawned = 0
  /\ proc = [a \in Attempts |-> "unborn"]
  /\ req = [r \in Requests |-> "idle"]
  /\ via = [r \in Requests |-> None]
  /\ faults = 0

-----------------------------------------------------------------------------
Waiting == {r \in Requests : req[r] = "connecting"}

\* The connect promise rejects: every request that awaits it gets an error.
Answer(rs) == req' = [r \in Requests |-> IF r \in rs THEN "answered" ELSE req[r]]

\* _doConnect after the backoff: a process is spawned, the handshake begins.
Spawn ==
  /\ spawned < 2 * MaxFaults + 1
  /\ spawned' = spawned + 1
  /\ proc' = [proc EXCEPT ![spawned + 1] = "handshake"]
  /\ connecting' = "handshake"

\* The catch of _doConnect.
ConnectFails ==
  /\ status' = "crashed" /\ crashCount' = crashCount + 1
  /\ client' = None /\ connecting' = "no"

\* A denied tool or an unknown method is answered at once.
Deny(r) ==
  /\ req[r] = "idle"
  /\ Answer({r})
  /\ UNCHANGED <<state, spawned, proc, via, faults>>

\* _ensureConnected finds a connection: the request is sent.
Connected == status = "connected" /\ client # None

Send(r) ==
  /\ req[r] = "idle" /\ Connected
  /\ req' = [req EXCEPT ![r] = "calling"]
  /\ via' = [via EXCEPT ![r] = client]
  /\ UNCHANGED <<state, spawned, proc, faults>>

\* It finds an attempt in flight and awaits its promise.  The status alone does
\* not tell: a lookup that failed leaves "connecting" and no promise.
JoinsNever == FALSE   \* mutated form: the connect mutex is not consulted
Joins == status = "connecting" /\ connecting # "no"

Join(r) ==
  /\ req[r] = "idle" /\ ~Connected /\ Joins
  /\ req' = [req EXCEPT ![r] = "connecting"]
  /\ UNCHANGED <<state, spawned, proc, via, faults>>

\* It starts an attempt: at once, or after the backoff that crashes earned.
Connect(r) ==
  /\ req[r] = "idle" /\ ~Connected /\ ~Joins
  /\ req' = [req EXCEPT ![r] = "connecting"]
  /\ status' = "connecting"
  /\ \/ /\ crashCount = 0 /\ Spawn
     \/ /\ crashCount > 0
        /\ connecting' = "backoff"
        /\ UNCHANGED <<spawned, proc>>
  /\ UNCHANGED <<client, crashCount, via, faults>>

\* _getServerConfig throws, outside the try: the server is not configured, or
\* the configuration, kept once it is read, cannot be read yet.
NotConfigured(r) ==
  /\ req[r] = "idle" /\ ~Connected /\ ~Joins
  /\ spawned = 0
  /\ status' = "connecting"
  /\ Answer({r})
  /\ UNCHANGED <<client, crashCount, connecting, spawned, proc, via, faults>>

BackoffOver ==
  /\ connecting = "backoff"
  /\ Spawn
  /\ UNCHANGED <<status, client, crashCount, req, via, faults>>

-----------------------------------------------------------------------------
\* client.connect resolves: every request that awaits it is sent.
WakeOne(a) ==   \* mutated form: only one of the requests goes on
  \E w \in Waiting :
    /\ req' = [req EXCEPT ![w] = "calling"]
    /\ via' = [via EXCEPT ![w] = a]

WakeAll(a) ==
  /\ req' = [r \in Requests |-> IF r \in Waiting THEN "calling" ELSE req[r]]
  /\ via' = [r \in Requests |-> IF r \in Waiting THEN a ELSE via[r]]

HandshakeDone(a) ==
  /\ proc[a] = "handshake"
  /\ proc' = [proc EXCEPT ![a] = "live"]
  /\ status' = "connected" /\ client' = a /\ connecting' = "no"
  /\ WakeAll(a)
  /\ UNCHANGED <<crashCount, spawned, faults>>

Fault == faults < MaxFaults /\ faults' = faults + 1

\* client.connect rejects: the process cannot be spawned, answers with an
\* error or not at all.  The process is told to go and may take its time.
HandshakeFails(a) ==
  /\ proc[a] = "handshake"
  /\ Fault
  /\ proc' = [proc EXCEPT ![a] = "closing"]
  /\ ConnectFails
  /\ Answer(Waiting)
  /\ UNCHANGED <<spawned, via>>

\* transport.onclose: the handler of any attempt looks at the shared status.
MarkCrashed ==
  /\ status' = "crashed" /\ crashCount' = crashCount + 1
  /\ client' = None /\ UNCHANGED connecting

OnCloseAlways == MarkCrashed   \* mutated form: no test of the status
OnClose == IF status = "connected" THEN MarkCrashed ELSE UNCHANGED state

\* The process is gone: onclose, then its client's pending requests fail, the
\* handshake among them.
Close(a) ==
  /\ proc[a] \in {"handshake", "live", "closing"}
  /\ IF proc[a] = "closing" THEN UNCHANGED faults ELSE Fault
  /\ proc' = [proc EXCEPT ![a] = "closed"]
  /\ IF proc[a] = "handshake" THEN ConnectFails ELSE OnClose
  /\ Answer({r \in Requests : req[r] = "calling" /\ via[r] = a}
            \cup (IF proc[a] = "handshake" THEN Waiting ELSE {}))
  /\ UNCHANGED <<spawned, via>>

\* The tool's result or error, or the SDK's request timeout.
Result(r) ==
  /\ req[r] = "calling" /\ proc[via[r]] = "live"
  /\ Answer({r})
  /\ UNCHANGED <<state, spawned, proc, via, faults>>

-----------------------------------------------------------------------------
Request(r) == Deny(r) \/ Send(r) \/ Join(r) \/ Connect(r) \/ NotConfigured(r)
Handshake(a) == HandshakeDone(a) \/ HandshakeFails(a)

Next ==
  \/ BackoffOver
  \/ \E r \in Requests : Request(r) \/ Result(r)
  \/ \E a \in Attempts : Handshake(a) \/ Close(a)

Spec == Init /\ [][Next]_vars

\* Timers fire: the backoff, the SDK's limits on a handshake and on a request.
\* A process may live, or take to close, as long as it likes.
Fairness ==
  /\ WF_vars(BackoffOver)
  /\ \A a \in Attempts : WF_vars(Handshake(a))
  /\ \A r \in Requests : WF_vars(Result(r))

FairSpec == Spec /\ Fairness

-----------------------------------------------------------------------------
\* The mutex of _ensureConnected: there is one handshake at a time, it is the
\* latest attempt's, and none while a connection is up.
OneHandshake ==
  \A a \in Attempts :
    proc[a] = "handshake" => a = spawned /\ connecting = "handshake" /\ client = None

\* Every attempt that has ended, however many events told of its end, has been
\* counted once: the backoff before the next one is neither skipped nor doubled.
CrashesAreCounted ==
  spawned = crashCount + (IF Connected \/ connecting = "handshake" THEN 1 ELSE 0)

\* No request awaits a connect promise that is settled, and none is sent with
\* a client whose process has closed.
NobodyIsForgotten ==
  \A r \in Requests :
    /\ req[r] = "connecting" => connecting # "no"
    /\ req[r] = "calling" => proc[via[r]] = "live"

\* "Always writes exactly one NDJSON line back": whatever the server does, a
\* request is answered.
EveryRequestAnswered ==
  \A r \in Requests : req[r] # "idle" ~> req[r] = "answered"

\* "When the transport closes unexpectedly, mark as crashed": a connection is
\* marked as crashed only when its own process has closed.
CrashIsReal ==
  [][status = "connected" /\ status' = "crashed" => proc'[client] = "closed"]_vars

=============================================================================
