---------------------------- MODULE SubMcpProofs ----------------------------
(***************************************************************************)
(* Proofs about SubMcp, for any number of requests and any bound on the    *)
(* faults.  The inductive invariant adds to the properties checked by TLC  *)
(* what relates an attempt's process to the fields of ServerState, and a   *)
(* budget: a fault marks at most two crashes, its own and, if it was a     *)
(* failed handshake, the one its late close may mark.                      *)
(***************************************************************************)
EXTENDS SubMcp, FiniteSets, FiniteSetTheorems, TLAPS

Last == 2 * MaxFaults + 1
Closing == {a \in Attempts : proc[a] = "closing"}

\* An attempt has a process once it is spawned, and not before.
Numbered ==
  /\ \A a \in Attempts : a > spawned => proc[a] = "unborn"
  /\ connecting = "handshake" => spawned # 0 /\ proc[spawned] = "handshake"

\* The client in use and the clients requests were sent with are live.
ClientsLive ==
  /\ client # None => proc[client] = "live"
  /\ \A r \in Requests : req[r] = "calling" => via[r] \in Attempts

Budget == crashCount + Cardinality(Closing) <= 2 * faults

IInv ==
  /\ TypeOK /\ OneHandshake /\ CrashesAreCounted /\ NobodyIsForgotten
  /\ Numbered /\ ClientsLive /\ Budget

USE SubMcpAssumption

-----------------------------------------------------------------------------
LEMMA AttemptsFacts ==
  /\ Last \in Nat /\ Attempts = 1..Last /\ None \notin Attempts
  /\ IsFiniteSet(Attempts)
<1>1. Last \in Nat /\ Attempts = 1..Last /\ None \notin Attempts
  BY DEF Last, Attempts, None
<1>2. IsFiniteSet(1..Last)
  BY <1>1, FS_Interval
<1>. QED  BY <1>1, <1>2

LEMMA ClosingCount == Cardinality(Closing) \in Nat /\ IsFiniteSet(Closing)
<1>1. Closing \subseteq Attempts
  BY DEF Closing
<1>2. IsFiniteSet(Closing)
  BY <1>1, AttemptsFacts, FS_Subset
<1>. QED  BY <1>2, FS_CardinalityType

\* How a change of one process changes the number of those that are closing.
LEMMA ClosingSame ==
  ASSUME TypeOK, NEW a \in Attempts, NEW v, v # "closing", proc[a] # "closing",
         proc' = [proc EXCEPT ![a] = v]
  PROVE  Closing' = Closing
BY DEF TypeOK, Closing

LEMMA ClosingGrows ==
  ASSUME TypeOK, NEW a \in Attempts, proc[a] = "handshake",
         proc' = [proc EXCEPT ![a] = "closing"]
  PROVE  Cardinality(Closing') = Cardinality(Closing) + 1
<1>1. Closing' = Closing \cup {a} /\ a \notin Closing
  BY DEF TypeOK, Closing
<1>. QED  BY <1>1, ClosingCount, FS_AddElement

LEMMA ClosingShrinks ==
  ASSUME TypeOK, NEW a \in Attempts, proc[a] = "closing",
         proc' = [proc EXCEPT ![a] = "closed"]
  PROVE  Cardinality(Closing') = Cardinality(Closing) - 1
<1>1. Closing' = Closing \ {a} /\ a \in Closing
  BY DEF TypeOK, Closing
<1>. QED  BY <1>1, ClosingCount, FS_RemoveElement

\* The bound on attempts is never what stops one: when a request finds no
\* connection, or the backoff is over, there is an attempt left.
LEMMA AttemptLeft ==
  ASSUME IInv, ~Connected, connecting # "handshake"
  PROVE  spawned = crashCount /\ spawned < Last
<1>1. spawned = crashCount
  BY DEF IInv, CrashesAreCounted, TypeOK, Attempts
<1>2. crashCount \in Nat /\ faults \in Nat /\ faults <= MaxFaults
  BY DEF IInv, TypeOK
<1>3. crashCount <= 2 * faults
  BY <1>2, ClosingCount DEF IInv, Budget
<1>. QED  BY <1>1, <1>2, <1>3 DEF Last

-----------------------------------------------------------------------------
LEMMA InitIInv == Init => IInv
<1>. SUFFICES ASSUME Init PROVE IInv
  OBVIOUS
<1>. USE DEF Init
<1>1. Closing = {}
  BY DEF Closing
<1>2. Cardinality(Closing) = 0
  BY <1>1, FS_EmptySet
<1>3. TypeOK
  BY AttemptsFacts DEF TypeOK, None
<1>4. OneHandshake /\ NobodyIsForgotten /\ Numbered /\ ClientsLive
  BY DEF OneHandshake, NobodyIsForgotten, Numbered, ClientsLive
<1>5. CrashesAreCounted /\ Budget
  BY <1>2 DEF CrashesAreCounted, Connected, Budget
<1>. QED  BY <1>3, <1>4, <1>5 DEF IInv

\* Only the requests change, and none begins to wait.
LEMMA RequestStep ==
  ASSUME IInv, NEW r \in Requests, Deny(r) \/ Send(r) \/ Join(r) \/ Result(r)
  PROVE  IInv'
<1>1. UNCHANGED <<state, spawned, proc, faults>>
  BY DEF Deny, Send, Join, Result, state
<1>2. UNCHANGED <<status, client, crashCount, connecting>>
  BY <1>1 DEF state
<1>3. Closing' = Closing
  BY <1>1 DEF Closing
<1>4. OneHandshake' /\ CrashesAreCounted' /\ Numbered' /\ Budget'
  BY <1>1, <1>2, <1>3 DEF IInv, OneHandshake, CrashesAreCounted, Connected, Numbered, Budget
<1>5. TypeOK' /\ NobodyIsForgotten' /\ ClientsLive'
  <2>. USE <1>1, <1>2 DEF IInv, TypeOK, NobodyIsForgotten, ClientsLive
  <2>1. CASE Deny(r)
    BY <2>1 DEF Deny, Answer
  <2>2. CASE Send(r)
    BY <2>2 DEF Send, Connected
  <2>3. CASE Join(r)
    BY <2>3 DEF Join, Joins
  <2>4. CASE Result(r)
    BY <2>4 DEF Result, Answer
  <2>. QED  BY <2>1, <2>2, <2>3, <2>4
<1>. QED  BY <1>4, <1>5 DEF IInv

\* A new attempt: nothing was connected and no handshake was going on.
LEMMA SpawnStep ==
  ASSUME IInv, Spawn, ~Connected, connecting # "handshake",
         status' = "connecting", UNCHANGED <<client, crashCount, via, faults>>,
         req' \in [Requests -> {"idle", "connecting", "calling", "answered"}],
         \A r \in Requests : req'[r] = "calling" => req[r] = "calling"
  PROVE  IInv'
<1>. DEFINE a == spawned + 1
<1>1. a \in Attempts /\ spawned \in Nat /\ spawned = crashCount
  BY AttemptLeft, AttemptsFacts DEF IInv, TypeOK
<1>2. proc[a] = "unborn" /\ client = None
  BY <1>1 DEF IInv, Numbered, TypeOK, Connected
<1>3. proc' = [proc EXCEPT ![a] = "handshake"] /\ spawned' = a /\ connecting' = "handshake"
  BY DEF Spawn
<1>4. Closing' = Closing
  BY <1>1, <1>2, <1>3, ClosingSame DEF IInv
<1>. HIDE DEF a
<1>5. TypeOK'
  BY <1>1, <1>2, <1>3 DEF IInv, TypeOK
<1>6. OneHandshake' /\ Numbered'
  <2>1. \A b \in Attempts : b # a => proc'[b] = proc[b] /\ proc[b] # "handshake"
    BY <1>3 DEF IInv, TypeOK, OneHandshake
  <2>2. proc'[a] = "handshake" /\ a # 0
    BY <1>1, <1>3, AttemptsFacts DEF IInv, TypeOK, None
  <2>3. \A b \in Attempts : b > a => b > spawned /\ b # a
    BY <1>1, AttemptsFacts DEF a
  <2>4. OneHandshake'
    BY <1>2, <1>3, <2>1 DEF OneHandshake
  <2>5. Numbered'
    BY <1>3, <2>1, <2>2, <2>3 DEF IInv, Numbered
  <2>. QED  BY <2>4, <2>5
<1>7. NobodyIsForgotten' /\ ClientsLive'
  BY <1>1, <1>2, <1>3 DEF IInv, TypeOK, NobodyIsForgotten, ClientsLive
<1>8. CrashesAreCounted'
  BY <1>1, <1>2, <1>3 DEF IInv, CrashesAreCounted, Connected, a
<1>9. Budget'
  BY <1>4 DEF IInv, Budget
<1>. QED  BY <1>5, <1>6, <1>7, <1>8, <1>9 DEF IInv

\* A request that finds neither a connection nor an attempt.
LEMMA ConnectStep ==
  ASSUME IInv, NEW r \in Requests, Connect(r)
  PROVE  IInv'
<1>1. /\ ~Connected /\ connecting = "no" /\ status' = "connecting"
      /\ req' = [req EXCEPT ![r] = "connecting"]
      /\ UNCHANGED <<client, crashCount, via, faults>>
  BY DEF Connect, Joins, IInv, TypeOK
<1>2. /\ req' \in [Requests -> {"idle", "connecting", "calling", "answered"}]
      /\ \A q \in Requests : req'[q] = "calling" => req[q] = "calling"
  BY <1>1 DEF IInv, TypeOK
<1>3. CASE crashCount = 0 /\ Spawn
  BY <1>1, <1>2, <1>3, SpawnStep
<1>4. CASE crashCount > 0 /\ connecting' = "backoff" /\ UNCHANGED <<spawned, proc>>
  <2>1. client = None /\ Closing' = Closing
    BY <1>1, <1>4 DEF IInv, TypeOK, Connected, Closing
  <2>2. TypeOK' /\ NobodyIsForgotten' /\ ClientsLive'
    BY <1>1, <1>2, <1>4, <2>1 DEF IInv, TypeOK, NobodyIsForgotten, ClientsLive
  <2>3. OneHandshake' /\ Numbered' /\ CrashesAreCounted' /\ Budget'
    BY <1>1, <1>4, <2>1
       DEF IInv, OneHandshake, Numbered, CrashesAreCounted, Connected, Budget
  <2>. QED  BY <2>2, <2>3 DEF IInv
<1>. QED  BY <1>3, <1>4 DEF Connect

\* A request that fails before anything is spawned: only the status is left.
LEMMA NotConfiguredStep ==
  ASSUME IInv, NEW r \in Requests, NotConfigured(r)
  PROVE  IInv'
<1>1. /\ ~Connected /\ connecting = "no" /\ status' = "connecting"
      /\ req' = [q \in Requests |-> IF q \in {r} THEN "answered" ELSE req[q]]
      /\ UNCHANGED <<client, crashCount, connecting, spawned, proc, via, faults>>
  BY DEF NotConfigured, Answer, Joins, IInv, TypeOK
<1>2. client = None /\ Closing' = Closing
  BY <1>1 DEF IInv, TypeOK, Connected, Closing
<1>3. TypeOK' /\ NobodyIsForgotten' /\ ClientsLive'
  BY <1>1, <1>2 DEF IInv, TypeOK, NobodyIsForgotten, ClientsLive
<1>4. OneHandshake' /\ Numbered' /\ CrashesAreCounted' /\ Budget'
  BY <1>1, <1>2
     DEF IInv, OneHandshake, Numbered, CrashesAreCounted, Connected, Budget
<1>. QED  BY <1>3, <1>4 DEF IInv

LEMMA BackoffStep ==
  ASSUME IInv, BackoffOver
  PROVE  IInv'
<1>1. ~Connected /\ connecting # "handshake" /\ status = "connecting"
  BY DEF BackoffOver, IInv, TypeOK, Connected
<1>2. /\ req' \in [Requests -> {"idle", "connecting", "calling", "answered"}]
      /\ \A q \in Requests : req'[q] = "calling" => req[q] = "calling"
  BY DEF BackoffOver, IInv, TypeOK
<1>. QED  BY <1>1, <1>2, SpawnStep DEF BackoffOver

\* The handshake in progress is the latest attempt's and nothing is connected.
LEMMA InHandshake ==
  ASSUME IInv, NEW a \in Attempts, proc[a] = "handshake"
  PROVE  /\ a = spawned /\ connecting = "handshake" /\ client = None /\ ~Connected
         /\ status = "connecting"
         /\ \A b \in Attempts : proc[b] = "handshake" => b = a
         /\ \A q \in Requests : req[q] = "calling" => via[q] # a
BY DEF IInv, TypeOK, OneHandshake, NobodyIsForgotten, Connected

LEMMA HandshakeDoneStep ==
  ASSUME IInv, NEW a \in Attempts, HandshakeDone(a)
  PROVE  IInv'
<1>. USE InHandshake DEF HandshakeDone
<1>1. /\ proc' = [proc EXCEPT ![a] = "live"] /\ a # None
      /\ \A b \in Attempts : b # a => proc'[b] = proc[b] /\ proc[b] # "handshake"
      /\ proc'[a] = "live"
  BY AttemptsFacts DEF IInv, TypeOK
<1>2. Closing' = Closing
  BY <1>1, ClosingSame DEF IInv
<1>3. /\ req' = [q \in Requests |-> IF req[q] = "connecting" THEN "calling" ELSE req[q]]
      /\ via' = [q \in Requests |-> IF req[q] = "connecting" THEN a ELSE via[q]]
  BY DEF WakeAll, Waiting
<1>4. TypeOK'
  BY <1>1, <1>3 DEF IInv, TypeOK
<1>5. OneHandshake' /\ Numbered'
  BY <1>1 DEF IInv, OneHandshake, Numbered
<1>6. NobodyIsForgotten' /\ ClientsLive'
  BY <1>1, <1>3 DEF IInv, TypeOK, NobodyIsForgotten, ClientsLive
<1>7. CrashesAreCounted' /\ Budget'
  BY <1>1, <1>2 DEF IInv, CrashesAreCounted, Connected, Budget
<1>. QED  BY <1>4, <1>5, <1>6, <1>7 DEF IInv

LEMMA HandshakeFailsStep ==
  ASSUME IInv, NEW a \in Attempts, HandshakeFails(a)
  PROVE  IInv'
<1>. USE InHandshake DEF HandshakeFails, Fault, ConnectFails
<1>1. /\ proc' = [proc EXCEPT ![a] = "closing"]
      /\ \A b \in Attempts : b # a => proc'[b] = proc[b] /\ proc[b] # "handshake"
      /\ proc'[a] = "closing"
  BY DEF IInv, TypeOK
<1>2. Cardinality(Closing') = Cardinality(Closing) + 1
  BY <1>1, ClosingGrows DEF IInv
<1>3. req' = [q \in Requests |-> IF req[q] = "connecting" THEN "answered" ELSE req[q]]
  BY DEF Answer, Waiting
<1>4. Budget'
  BY <1>2, ClosingCount DEF IInv, TypeOK, Budget
<1>5. TypeOK'
  <2>1. crashCount + 1 <= 2 * MaxFaults
    BY ClosingCount DEF IInv, TypeOK, Budget
  <2>. QED  BY <1>1, <1>3, <2>1 DEF IInv, TypeOK
<1>6. OneHandshake' /\ Numbered'
  BY <1>1 DEF IInv, TypeOK, OneHandshake, Numbered
<1>7. NobodyIsForgotten' /\ ClientsLive'
  BY <1>1, <1>3 DEF IInv, TypeOK, NobodyIsForgotten, ClientsLive
<1>8. CrashesAreCounted'
  BY <1>1 DEF IInv, TypeOK, CrashesAreCounted, Connected
<1>. QED  BY <1>4, <1>5, <1>6, <1>7, <1>8 DEF IInv

\* What every close of a process has in common.
LEMMA CloseKeeps ==
  ASSUME IInv, NEW a \in Attempts, Close(a)
  PROVE  /\ proc' = [proc EXCEPT ![a] = "closed"] /\ proc'[a] = "closed"
         /\ \A b \in Attempts : b # a => proc'[b] = proc[b]
         /\ spawned' = spawned /\ via' = via
         /\ req' \in [Requests -> {"idle", "connecting", "calling", "answered"}]
         /\ \A q \in Requests : req'[q] # "answered" =>
              /\ req'[q] = req[q]
              /\ req[q] = "calling" => via[q] # a
              /\ req[q] = "connecting" => proc[a] # "handshake"
         /\ proc'  \in [Attempts -> {"unborn", "handshake", "live", "closing", "closed"}]
         /\ faults' \in 0..MaxFaults
         /\ ~(a > spawned)
<1>1. proc[a] # "handshake" => faults' = faults \/ Fault
  BY DEF Close
<1>2. req' = [q \in Requests |->
                IF (req[q] = "calling" /\ via[q] = a)
                   \/ (proc[a] = "handshake" /\ req[q] = "connecting")
                THEN "answered" ELSE req[q]]
  BY DEF Close, Answer, Waiting
<1>3. /\ req' \in [Requests -> {"idle", "connecting", "calling", "answered"}]
      /\ \A q \in Requests : req'[q] # "answered" =>
              /\ req'[q] = req[q]
              /\ req[q] = "calling" => via[q] # a
              /\ req[q] = "connecting" => proc[a] # "handshake"
  BY <1>2 DEF IInv, TypeOK
<1>4. ~(a > spawned)
  BY DEF Close, IInv, Numbered
<1>. QED  BY <1>3, <1>4 DEF Close, Fault, IInv, TypeOK

\* A close leaves as much of the budget as the crash it marks costs.
LEMMA CloseBudget ==
  ASSUME IInv, NEW a \in Attempts, Close(a)
  PROVE  crashCount + 1 + Cardinality(Closing') <= 2 * faults'
<1>1. proc' = [proc EXCEPT ![a] = "closed"]
  BY CloseKeeps
<1>2. /\ crashCount \in Nat /\ faults \in Nat
      /\ crashCount + Cardinality(Closing) <= 2 * faults
  BY DEF IInv, TypeOK, Budget
<1>3. CASE proc[a] = "closing"
  <2>1. Cardinality(Closing') = Cardinality(Closing) - 1 /\ faults' = faults
    BY <1>1, <1>3, ClosingShrinks DEF IInv, Close
  <2>. QED  BY <2>1, <1>2, ClosingCount
<1>4. CASE proc[a] # "closing"
  <2>1. Closing' = Closing /\ faults' = faults + 1
    BY <1>1, <1>4, ClosingSame DEF IInv, Close, Fault
  <2>. QED  BY <2>1, <1>2, ClosingCount
<1>. QED  BY <1>3, <1>4

LEMMA CloseStep ==
  ASSUME IInv, NEW a \in Attempts, Close(a)
  PROVE  IInv'
<1>. USE CloseKeeps
<1>1. /\ Cardinality(Closing') \in Nat /\ faults' <= MaxFaults
      /\ crashCount + 1 <= 2 * MaxFaults
  <2>1. IsFiniteSet(Closing')
    BY AttemptsFacts, FS_Subset DEF Closing
  <2>2. Cardinality(Closing') \in Nat
    BY <2>1, FS_CardinalityType
  <2>. QED  BY <2>2, CloseBudget DEF IInv, TypeOK
<1>2. CASE proc[a] = "handshake"
  <2>1. ConnectFails /\ a = spawned /\ ~Connected /\ connecting = "handshake"
        /\ \A b \in Attempts : proc[b] = "handshake" => b = a
    BY <1>2, InHandshake DEF Close
  <2>2. TypeOK'
    BY <2>1, <1>1 DEF IInv, TypeOK, ConnectFails
  <2>3. OneHandshake'
    BY <2>1 DEF OneHandshake
  <2>6. Numbered'
    BY <2>1 DEF IInv, Numbered, ConnectFails
  <2>7. ClientsLive'
    BY <2>1 DEF IInv, ClientsLive, ConnectFails
  <2>4. NobodyIsForgotten'
    BY <1>2, <2>1 DEF IInv, NobodyIsForgotten, ClientsLive, ConnectFails
  <2>8. CrashesAreCounted'
    BY <2>1 DEF IInv, TypeOK, CrashesAreCounted, Connected, ConnectFails, None
  <2>5. Budget'
    BY <2>1, CloseBudget DEF ConnectFails, Budget
  <2>. QED  BY <2>2, <2>3, <2>4, <2>5, <2>6, <2>7, <2>8 DEF IInv
<1>3. CASE proc[a] # "handshake" /\ status = "connected"
  <2>1. MarkCrashed /\ connecting = "no" /\ Connected
    BY <1>3 DEF Close, OnClose, IInv, TypeOK, Connected
  <2>2. TypeOK'
    BY <2>1, <1>1 DEF IInv, TypeOK, MarkCrashed
  <2>3. OneHandshake' /\ Numbered' /\ ClientsLive'
    BY <1>3, <2>1 DEF IInv, TypeOK, OneHandshake, Numbered, ClientsLive, MarkCrashed
  <2>4. NobodyIsForgotten'
    BY <1>3, <2>1 DEF IInv, NobodyIsForgotten, ClientsLive, MarkCrashed
  <2>6. CrashesAreCounted'
    BY <2>1 DEF IInv, TypeOK, CrashesAreCounted, Connected, MarkCrashed, None
  <2>5. Budget'
    BY <2>1, CloseBudget DEF MarkCrashed, Budget
  <2>. QED  BY <2>2, <2>3, <2>4, <2>5, <2>6 DEF IInv
<1>4. CASE proc[a] # "handshake" /\ status # "connected"
  <2>1. /\ UNCHANGED <<status, client, crashCount, connecting>>
        /\ client = None
    BY <1>4 DEF Close, OnClose, state, IInv, TypeOK
  <2>2. TypeOK'
    BY <2>1, <1>1 DEF IInv, TypeOK
  <2>3. OneHandshake'
    BY <1>4, <2>1 DEF IInv, OneHandshake
  <2>7. Numbered'
    BY <1>4, <2>1 DEF IInv, TypeOK, Numbered
  <2>8. ClientsLive'
    BY <2>1 DEF IInv, ClientsLive
  <2>4. NobodyIsForgotten'
    BY <1>4, <2>1 DEF IInv, NobodyIsForgotten, ClientsLive
  <2>6. CrashesAreCounted'
    BY <2>1 DEF IInv, CrashesAreCounted, Connected
  <2>5. Budget'
    <3>1. crashCount \in Nat /\ faults' \in Nat
      BY DEF IInv, TypeOK
    <3>. QED  BY <2>1, <1>1, <3>1, CloseBudget DEF Budget
  <2>. QED  BY <2>2, <2>3, <2>4, <2>5, <2>6, <2>7, <2>8 DEF IInv
<1>. QED  BY <1>2, <1>3, <1>4

-----------------------------------------------------------------------------
LEMMA NextIInv == IInv /\ [Next]_vars => IInv'
<1>. SUFFICES ASSUME IInv, [Next]_vars PROVE IInv'
  OBVIOUS
<1>1. CASE Next
  <2>1. CASE BackoffOver
    BY <2>1, BackoffStep
  <2>2. CASE \E r \in Requests : Request(r) \/ Result(r)
    BY <2>2, RequestStep, ConnectStep, NotConfiguredStep DEF Request
  <2>3. CASE \E a \in Attempts : Handshake(a) \/ Close(a)
    BY <2>3, HandshakeDoneStep, HandshakeFailsStep, CloseStep DEF Handshake
  <2>. QED  BY <1>1, <2>1, <2>2, <2>3 DEF Next
<1>2. CASE UNCHANGED vars
  <2>1. UNCHANGED <<status, client, crashCount, connecting, spawned, proc, req, via, faults>>
    BY <1>2 DEF vars, state
  <2>2. Closing' = Closing
    BY <2>1 DEF Closing
  <2>. QED
    BY <2>1, <2>2 DEF IInv, TypeOK, OneHandshake, CrashesAreCounted, Connected,
                      NobodyIsForgotten, Numbered, ClientsLive, Budget
<1>. QED  BY <1>1, <1>2

\* The invariant holds in every reachable state.
THEOREM Invariant == Spec => []IInv
BY InitIInv, NextIInv, PTL DEF Spec

\* The fields of ServerState agree, and the crash count is bounded by twice
\* the faults.
THEOREM TypeCorrect == Spec => []TypeOK
<1>1. IInv => TypeOK
  BY DEF IInv
<1>. QED  BY <1>1, Invariant, PTL

\* The connect mutex: never two handshakes, none beside a connection.
THEOREM MutexHolds == Spec => []OneHandshake
<1>1. IInv => OneHandshake
  BY DEF IInv
<1>. QED  BY <1>1, Invariant, PTL

\* Each attempt that ended is counted once, late closes included.
THEOREM CountIsExact == Spec => []CrashesAreCounted
<1>1. IInv => CrashesAreCounted
  BY DEF IInv
<1>. QED  BY <1>1, Invariant, PTL

\* No request is left waiting for an attempt or a client that is gone.
THEOREM NoneForgotten == Spec => []NobodyIsForgotten
<1>1. IInv => NobodyIsForgotten
  BY DEF IInv
<1>. QED  BY <1>1, Invariant, PTL

-----------------------------------------------------------------------------
\* What an unanswered request waits for is under way: a backoff that leads to
\* an attempt, the handshake of the latest attempt, or a live process.
RequestsAreDriven ==
  \A r \in Requests :
    /\ req[r] = "connecting" =>
         \/ connecting = "backoff" /\ spawned + 1 \in Attempts
         \/ connecting = "handshake" /\ spawned \in Attempts /\ proc[spawned] = "handshake"
    /\ req[r] = "calling" => via[r] \in Attempts /\ proc[via[r]] = "live"

\* The safety half of EveryRequestAnswered: no interleaving of failed
\* handshakes, late closes and new requests leaves a request with nothing that
\* will answer it.
THEOREM RequestsStayDriven == Spec => []RequestsAreDriven
<1>1. IInv => RequestsAreDriven
  <2>. SUFFICES ASSUME IInv, NEW r \in Requests
                PROVE  /\ req[r] = "connecting" =>
                            \/ connecting = "backoff" /\ spawned + 1 \in Attempts
                            \/ /\ connecting = "handshake" /\ spawned \in Attempts
                               /\ proc[spawned] = "handshake"
                       /\ req[r] = "calling" => via[r] \in Attempts /\ proc[via[r]] = "live"
    BY DEF RequestsAreDriven
  <2>1. req[r] = "calling" => via[r] \in Attempts /\ proc[via[r]] = "live"
    BY DEF IInv, NobodyIsForgotten, ClientsLive
  <2>2. ASSUME connecting = "backoff"
        PROVE  spawned + 1 \in Attempts
    <3>1. ~Connected
      BY <2>2 DEF IInv, TypeOK, Connected
    <3>2. spawned \in Nat /\ spawned < Last
      BY <2>2, <3>1, AttemptLeft, AttemptsFacts DEF IInv, TypeOK
    <3>. QED  BY <3>2, AttemptsFacts
  <2>3. connecting = "handshake" => spawned \in Attempts /\ proc[spawned] = "handshake"
    BY DEF IInv, TypeOK, Numbered
  <2>4. req[r] = "connecting" => connecting \in {"backoff", "handshake"}
    BY DEF IInv, TypeOK, NobodyIsForgotten
  <2>. QED  BY <2>1, <2>2, <2>3, <2>4
<1>. QED  BY <1>1, Invariant, PTL

\* A fault is counted as one crash, or as two when the close of a failed
\* handshake comes late: the backoff is never driven up further than that.
CrashesAreBounded == crashCount <= 2 * faults

THEOREM CountIsBounded == Spec => []CrashesAreBounded
<1>1. IInv => CrashesAreBounded
  <2>. SUFFICES ASSUME IInv PROVE CrashesAreBounded
    OBVIOUS
  <2>1. crashCount \in Nat /\ faults \in Nat /\ crashCount + Cardinality(Closing) <= 2 * faults
    BY DEF IInv, TypeOK, Budget
  <2>. QED  BY <2>1, ClosingCount DEF CrashesAreBounded
<1>. QED  BY <1>1, Invariant, PTL

\* What was sent stays sent.
Sent == \A r \in Requests : via[r] # None => req[r] \in {"calling", "answered"}

\* A tool call reaches a sub-MCP at most once: no crash, reconnect or late
\* close makes the bridge send it again, on the same connection or on another.
SentAtMostOnce ==
  [][\A r \in Requests : via[r] # None =>
       via'[r] = via[r] /\ req'[r] \in {req[r], "answered"}]_vars

LEMMA SentStep == IInv /\ Sent /\ [Next]_vars => Sent'
<1>. SUFFICES ASSUME IInv, Sent, [Next]_vars PROVE Sent'
  OBVIOUS
<1>. USE DEF IInv, TypeOK, Sent
<1>1. CASE UNCHANGED vars
  BY <1>1 DEF vars
<1>2. CASE BackoffOver
  BY <1>2 DEF BackoffOver
<1>3. ASSUME NEW r \in Requests, Request(r) \/ Result(r)
      PROVE  Sent'
  BY <1>3 DEF Request, Deny, Send, Join, Connect, NotConfigured, Result, Answer
<1>4. ASSUME NEW a \in Attempts, HandshakeDone(a)
      PROVE  Sent'
  BY <1>4 DEF HandshakeDone, WakeAll, Waiting
<1>5. ASSUME NEW a \in Attempts, HandshakeFails(a) \/ Close(a)
      PROVE  Sent'
  BY <1>5 DEF HandshakeFails, Close, Answer, Waiting
<1>. QED  BY <1>1, <1>2, <1>3, <1>4, <1>5 DEF Next, Handshake

THEOREM CallsAreSentOnce == Spec => SentAtMostOnce
<1>. DEFINE Kept == \A r \in Requests : via[r] # None =>
                      via'[r] = via[r] /\ req'[r] \in {req[r], "answered"}
<1>1. IInv /\ Sent /\ [Next]_vars => [Kept]_vars
  <2>. SUFFICES ASSUME IInv, Sent, Next PROVE Kept
    OBVIOUS
  <2>. USE DEF IInv, TypeOK, Sent
  <2>1. CASE BackoffOver
    BY <2>1 DEF BackoffOver
  <2>2. ASSUME NEW r \in Requests, Request(r) \/ Result(r)
        PROVE  Kept
    BY <2>2 DEF Request, Deny, Send, Join, Connect, NotConfigured, Result, Answer
  <2>3. ASSUME NEW a \in Attempts, HandshakeDone(a)
        PROVE  Kept
    BY <2>3 DEF HandshakeDone, WakeAll, Waiting
  <2>4. ASSUME NEW a \in Attempts, HandshakeFails(a) \/ Close(a)
        PROVE  Kept
    BY <2>4 DEF HandshakeFails, Close, Answer, Waiting
  <2>. QED  BY <2>1, <2>2, <2>3, <2>4 DEF Next, Handshake
<1>2. Init => IInv /\ Sent
  BY InitIInv DEF Init, Sent
<1>3. (IInv /\ Sent) /\ [Next]_vars => (IInv /\ Sent)'
  BY NextIInv, SentStep
<1>. QED  BY <1>1, <1>2, <1>3, PTL DEF Spec, SentAtMostOnce

=============================================================================
