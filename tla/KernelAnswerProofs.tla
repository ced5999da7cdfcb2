------------------------- MODULE KernelAnswerProofs -------------------------
(***************************************************************************)
(* Whose answer a call gets, for every number of calls, directories and    *)
(* kernels: what is under way between the server and a kernel, and what    *)
(* each step does to it.                                                   *)
(***************************************************************************)
EXTENDS KernelPoolProofs

\* Of a live kernel whose stdout only the protocol uses: nothing is under way
\* when nobody waits; otherwise the one request or its response, unless the
\* process died.
WireIsClean ==
  \A k \in Kernels : ~handle[k].dead /\ ~proc[k].writer =>
    /\ handle[k].buf = <<>>
    /\ handle[k].pending = NoCall => proc[k].in = <<>> /\ proc[k].out = <<>>
    /\ handle[k].pending # NoCall =>
         \/ proc[k].in = <<handle[k].pending>> /\ proc[k].out = <<>>
         \/ /\ proc[k].in = <<>>
            /\ \E kind \in FrameKinds : proc[k].out = <<Frame(handle[k].pending, kind)>>
         \/ proc[k].in = <<>> /\ proc[k].out = <<>>

\* Only a kernel gives a call a result of user code.
Ended(c) == call[c].pc \in {"resolved", "done"}
KernelAnswers ==
  \A c \in Calls : Ended(c) /\ call[c].kind \in FrameKinds => call[c].kern \in Kernels

AInv == WireIsClean /\ KernelAnswers /\ OwnAnswer

-----------------------------------------------------------------------------
\* What a handle's death does to handles, calls and the registry.
LEMMA RetireEffect ==
  ASSUME IInv, NEW k \in Kernels,
         NEW kind \in {"timeout", "reset", "died", "spawn error"}, NEW armed,
         Retire(k, kind, armed)
  PROVE  /\ handle'[k].dead = TRUE /\ handle'[k].dir = handle[k].dir
         /\ \A j \in Kernels \ {k} : handle'[j] = handle[j]
         /\ \A o \in Calls \ {handle[k].pending} : call'[o] = call[o]
         /\ handle[k].pending # NoCall =>
              /\ handle[k].pending \in Calls
              /\ call[handle[k].pending].pc = "waiting"
              /\ call[handle[k].pending].kern = k
              /\ call'[handle[k].pending].pc = "resolved"
              /\ call'[handle[k].pending].kind = kind
              /\ call'[handle[k].pending].kern = k
              /\ call'[handle[k].pending].dir = call[handle[k].pending].dir
              /\ call'[handle[k].pending].hadReset = call[handle[k].pending].hadReset
              /\ call'[handle[k].pending].notice = call[handle[k].pending].notice
         /\ \A d \in AllDirs : /\ pool[d] = k => pool'[d] = NoKernel
                               /\ pool[d] # k => pool'[d] = pool[d]
<1> DEFINE c == handle[k].pending
<1> USE DEF IInv
<1>1. c \in Calls \cup {NoCall}
  BY PendingIsCall
<1>2. handle' = [handle EXCEPT ![k].dead = TRUE, ![k].pending = NoCall, ![k].buf = <<>>]
  BY DEF Retire
<1>3. /\ handle'[k].dead = TRUE /\ handle'[k].dir = handle[k].dir
      /\ \A j \in Kernels \ {k} : handle'[j] = handle[j]
  <2>1. handle \in [Kernels -> HandleState] /\ handle[k] \in HandleState
    BY DEF TypeOK
  <2>2. QED
    BY <1>2, <2>1 DEF HandleState
<1>4. \A d \in AllDirs : /\ pool[d] = k => pool'[d] = NoKernel
                         /\ pool[d] # k => pool'[d] = pool[d]
  <2>1. pool \in [AllDirs -> Kernels \cup {NoKernel}]
    BY DEF TypeOK
  <2>2. \A d \in AllDirs : pool[d] = k => d = handle[k].dir
    BY IdentityAssumption DEF PoolIsLive
  <2>3. CASE Registered(k)
    BY <2>1, <2>2, <2>3 DEF Retire, Unregister, Registered
  <2>4. CASE ~Registered(k)
    <3>1. pool' = pool
      BY <2>4 DEF Retire, Unregister
    <3>2. \A d \in AllDirs : pool[d] # k
      BY <2>2, <2>4 DEF Registered
    <3>3. QED
      BY <3>1, <3>2
  <2>5. QED
    BY <2>3, <2>4
<1>5. CASE c = NoCall
  <2>1. call' = call
    BY <1>5 DEF Retire
  <2>2. \A o \in Calls : call'[o] = call[o]
    BY <2>1
  <2>3. \A o \in Calls \ {handle[k].pending} : call'[o] = call[o]
    BY <2>2
  <2>4. QED
    BY <1>3, <1>4, <1>5, <2>3
<1>6. CASE c # NoCall
  <2>1. Resolve(c, kind, NoCall)
    BY <1>6 DEF Retire
  <2>2. c \in Calls /\ call[c].pc = "waiting" /\ call[c].kern = k
    BY <1>1, <1>6 DEF NoCallIsDropped
  <2> HIDE DEF c
  <2>3. /\ call'[c] = [call[c] EXCEPT !.pc = "resolved", !.kind = kind, !.from = NoCall]
        /\ \A o \in Calls \ {c} : call'[o] = call[o]
    BY <2>1, <2>2, ResolvedCall
  <2>4. call[c] \in CallState
    BY <2>2 DEF TypeOK
  <2>5. /\ call'[c].pc = "resolved" /\ call'[c].kind = kind /\ call'[c].kern = k
        /\ call'[c].dir = call[c].dir /\ call'[c].hadReset = call[c].hadReset
        /\ call'[c].notice = call[c].notice
    BY <2>2, <2>3, <2>4 DEF CallState
  <2>6. QED
    <3>1. \A o \in Calls \ {handle[k].pending} : call'[o] = call[o]
      BY <2>3 DEF c
    <3>2. handle[k].pending # NoCall =>
              /\ handle[k].pending \in Calls
              /\ call[handle[k].pending].pc = "waiting"
              /\ call[handle[k].pending].kern = k
              /\ call'[handle[k].pending].pc = "resolved"
              /\ call'[handle[k].pending].kind = kind
              /\ call'[handle[k].pending].kern = k
              /\ call'[handle[k].pending].dir = call[handle[k].pending].dir
              /\ call'[handle[k].pending].hadReset = call[handle[k].pending].hadReset
              /\ call'[handle[k].pending].notice = call[handle[k].pending].notice
      BY <2>2, <2>5 DEF c
    <3>3. QED
      BY <1>3, <1>4, <3>1, <3>2
<1>7. QED
  BY <1>5, <1>6

\* The events that end a kernel: an expired timer, output that cannot be
\* parsed, the end of the process, a failed spawn.
Ends(k, kind) ==
  /\ \E armed : Retire(k, kind, armed)
  /\ \A j \in Kernels \ {k} : proc'[j] = proc[j]
  /\ proc'[k].writer = proc[k].writer
  /\ resetPending' = IF kind \in {"timeout", "reset"}
                     THEN resetPending \cup {handle[k].dir} ELSE resetPending

LEMMA KilledProc ==
  ASSUME IInv, NEW k \in Kernels, Killed({k})
  PROVE  /\ \A j \in Kernels \ {k} : proc'[j] = proc[j]
         /\ proc'[k].writer = proc[k].writer
<1>1. proc[k] \in ProcState /\ proc \in [Kernels -> ProcState]
  BY DEF IInv, TypeOK
<1>2. QED
  BY <1>1 DEF Killed, ProcState

LEMMA EndsAKernel ==
  ASSUME IInv,
         \/ \E c \in Calls : TimerFires(c)
         \/ \E k \in Kernels : Garbled(k) \/ Close(k) \/ SpawnError(k)
  PROVE  \E k \in Kernels, kind \in {"timeout", "reset", "died", "spawn error"} :
           Ends(k, kind) /\ (kind \in {"timeout", "reset"} => handle[k].pending # NoCall)
<1> USE DEF IInv
<1>1. ASSUME NEW k \in Kernels, NEW kind \in {"timeout", "reset"}, NEW armed,
             handle[k].pending # NoCall, KillKernel(k, kind, armed)
      PROVE  Ends(k, kind)
  <2>1. ~handle[k].dead
    BY <1>1 DEF NoCallIsDropped
  <2>2. /\ Retire(k, kind, armed) /\ Killed({k})
        /\ resetPending' = resetPending \cup {handle[k].dir}
    BY <1>1, <2>1 DEF KillKernel
  <2>3. QED
    BY <2>2, KilledProc DEF Ends
<1>2. ASSUME NEW c \in Calls, TimerFires(c)
      PROVE  call[c].kern \in Kernels /\ Ends(call[c].kern, "timeout")
             /\ handle[call[c].kern].pending # NoCall
  <2>1. /\ c \in timers /\ KillKernel(call[c].kern, "timeout", timers \ {c})
    BY <1>2 DEF TimerFires
  <2>2. call[c].kern \in Kernels /\ handle[call[c].kern].pending = c
    BY <2>1 DEF TimersWait, NoCallIsDropped, CallIsPlaced
  <2>3. QED
    BY <1>1, <2>1, <2>2, IdentityAssumption
<1>3. ASSUME NEW k \in Kernels, Garbled(k)
      PROVE  Ends(k, "reset") /\ handle[k].pending # NoCall
  BY <1>1, <1>3 DEF Garbled
<1>4. ASSUME NEW k \in Kernels, Close(k) \/ SpawnError(k)
      PROVE  \E kind \in {"died", "spawn error"} : Ends(k, kind)
  <2>1. proc[k] \in ProcState /\ proc \in [Kernels -> ProcState]
    BY DEF TypeOK
  <2>2. PICK at \in {"closed", "reaped"} : proc' = [proc EXCEPT ![k].at = at]
    BY <1>4 DEF Close, SpawnError
  <2>3. /\ \A j \in Kernels \ {k} : proc'[j] = proc[j]
        /\ proc'[k].writer = proc[k].writer
    BY <2>1, <2>2 DEF ProcState
  <2>4. PICK kind \in {"died", "spawn error"} : Retire(k, kind, timers)
    BY <1>4 DEF Close, SpawnError
  <2>5. resetPending' = resetPending
    BY <1>4 DEF Close, SpawnError
  <2>6. QED
    BY <2>3, <2>4, <2>5 DEF Ends
<1>5. QED
  BY <1>2, <1>3, <1>4

\* The steps of a call that leave every kernel and its handle alone, and what
\* each does to the call.
Quiet(c) ==
  Arrive(c) \/ RunOnce(c) \/ MakeTemp(c) \/ Lookup(c) \/ Raises(c)
  \/ Refuse(c) \/ Retry(c) \/ Finish(c)

LEMMA QuietEffect ==
  ASSUME IInv, NEW c \in Calls, Quiet(c)
  PROVE  /\ UNCHANGED <<handle, proc, pool>>
         /\ \A o \in Calls \ {c} : call'[o] = call[o]
<1>1. UNCHANGED <<handle, proc, pool>>
  BY DEF Quiet, Arrive, RunOnce, MakeTemp, Lookup, Raises, Refuse, Retry, Finish, registry
<1>2. call \in [Calls -> CallState]
  BY DEF IInv, TypeOK
<1>3. \A o \in Calls \ {c} : call'[o] = call[o]
  BY <1>2 DEF Quiet, Arrive, RunOnce, MakeTemp, Lookup, Raises, Refuse, Retry, Finish
<1>4. QED
  BY <1>1, <1>3

LEMMA QuietCall ==
  ASSUME IInv, NEW c \in Calls, Quiet(c)
  PROVE  \/ /\ call[c].pc = "idle" /\ call'[c].pc = "runOnce"
            /\ Serial => \A o \in Calls : call[o].pc \in {"idle", "done"}
            /\ UNCHANGED <<call[c].kern, call[c].notice, resetPending>>
         \/ /\ call[c].pc \in {"runOnce", "mkdtemp"} /\ call'[c].pc \in {"mkdtemp", "lookup"}
            /\ UNCHANGED <<call[c].kern, call[c].notice, resetPending>>
         \/ /\ call[c].pc = "lookup" /\ Usable(call[c].dir) /\ turn' = c
            /\ call'[c].pc = "post" /\ call'[c].kern = pool[call[c].dir]
            /\ UNCHANGED <<call[c].dir, call[c].notice, resetPending>>
         \/ /\ call[c].pc = "lookup" /\ ~Usable(call[c].dir) /\ call'[c].pc = "probing"
            /\ UNCHANGED <<call[c].dir, call[c].kern, call[c].notice, resetPending>>
         \/ /\ call[c].pc \in {"mkdtemp", "probing"} /\ call'[c].pc = "done" /\ call'[c].kind = "raised"
            /\ UNCHANGED <<call[c].kern, call[c].notice, resetPending>>
         \/ /\ Running(c, "post") /\ ~CanPost(c) /\ call'[c].pc = "resolved"
            /\ call'[c].kind \in {"unavailable", "busy"}
            /\ UNCHANGED <<call[c].kern, call[c].notice, resetPending>>
         \/ /\ call[c].pc = "resolved" /\ call'[c].pc = "runOnce" /\ Notice(c)
            /\ UNCHANGED <<call[c].kern, call[c].notice>>
         \/ /\ call[c].pc = "resolved" /\ call'[c].pc = "done" /\ Notice(c)
            /\ UNCHANGED <<call[c].kind, call[c].kern, call[c].from>>
            /\ call'[c].notice = call[c].hadReset
<1>0. call[c] \in CallState /\ call \in [Calls -> CallState]
  BY DEF IInv, TypeOK
<1>1. CASE Arrive(c)
  <2>1. PICK d : call' = [call EXCEPT ![c].pc = "runOnce", ![c].asked = d]
    BY <1>1 DEF Arrive
  <2>2. call'[c] = [call[c] EXCEPT !.pc = "runOnce", !.asked = d]
    BY <1>0, <2>1
  <2>3. /\ call[c].pc = "idle" /\ resetPending' = resetPending
        /\ Serial => \A o \in Calls : call[o].pc \in {"idle", "done"}
    BY <1>1 DEF Arrive, registry
  <2>4. QED
    BY <1>0, <2>2, <2>3 DEF CallState
<1>2. CASE RunOnce(c)
  <2>1. \/ call' = [call EXCEPT ![c].pc = "lookup", ![c].dir = call[c].asked]
        \/ call' = [call EXCEPT ![c].pc = "mkdtemp"]
    BY <1>2 DEF RunOnce
  <2>2. \/ call'[c] = [call[c] EXCEPT !.pc = "lookup", !.dir = call[c].asked]
        \/ call'[c] = [call[c] EXCEPT !.pc = "mkdtemp"]
    BY <1>0, <2>1
  <2>3. call[c].pc = "runOnce" /\ resetPending' = resetPending
    BY <1>2 DEF RunOnce, Running, registry
  <2>4. QED
    BY <1>0, <2>2, <2>3 DEF CallState
<1>3. CASE MakeTemp(c)
  <2>1. PICK d : call' = [call EXCEPT ![c].pc = "lookup", ![c].dir = d]
    BY <1>3 DEF MakeTemp
  <2>2. call'[c] = [call[c] EXCEPT !.pc = "lookup", !.dir = d]
    BY <1>0, <2>1
  <2>3. call[c].pc = "mkdtemp" /\ resetPending' = resetPending
    BY <1>3 DEF MakeTemp, registry
  <2>4. QED
    BY <1>0, <2>2, <2>3 DEF CallState
<1>4. CASE Lookup(c)
  <2>1. IF Usable(call[c].dir)
          THEN call' = [call EXCEPT ![c].pc = "post", ![c].kern = pool[call[c].dir]]
          ELSE call' = [call EXCEPT ![c].pc = "probing"]
    BY <1>4 DEF Lookup
  <2>2. IF Usable(call[c].dir)
          THEN call'[c] = [call[c] EXCEPT !.pc = "post", !.kern = pool[call[c].dir]]
          ELSE call'[c] = [call[c] EXCEPT !.pc = "probing"]
    BY <1>0, <2>1
  <2>3. /\ call[c].pc = "lookup" /\ resetPending' = resetPending
        /\ Usable(call[c].dir) => turn' = c
    BY <1>4 DEF Lookup, Running, registry
  <2>4. QED
    BY <1>0, <2>2, <2>3 DEF CallState
<1>5. CASE Raises(c)
  <2>1. /\ call' = [call EXCEPT ![c].pc = "done", ![c].kind = "raised"]
        /\ call[c].pc \in {"mkdtemp", "probing"} /\ resetPending' = resetPending
    BY <1>5 DEF Raises, registry
  <2>2. call'[c] = [call[c] EXCEPT !.pc = "done", !.kind = "raised"]
    BY <1>0, <2>1
  <2>3. QED
    BY <1>0, <2>1, <2>2 DEF CallState
<1>6. CASE Refuse(c)
  <2> DEFINE kind == IF handle[call[c].kern].dead THEN "unavailable" ELSE "busy"
             had == call[c].dir \in resetPending
  <2>1. call' = [call EXCEPT ![c].pc = "resolved", ![c].hadReset = had, ![c].kind = kind]
    BY <1>6 DEF Refuse
  <2>2. call'[c] = [call[c] EXCEPT !.pc = "resolved", !.hadReset = had, !.kind = kind]
    BY <1>0, <2>1
  <2>3. Running(c, "post") /\ ~CanPost(c) /\ resetPending' = resetPending
    BY <1>6 DEF Refuse, registry
  <2>4. QED
    BY <1>0, <2>2, <2>3 DEF CallState
<1>7. CASE Retry(c)
  <2>1. /\ call' = [call EXCEPT ![c].pc = "runOnce", ![c].attempt = @ + 1,
                               ![c].kind = "none", ![c].from = NoCall]
        /\ call[c].pc = "resolved" /\ Notice(c)
    BY <1>7 DEF Retry, Running
  <2>2. call'[c] = [call[c] EXCEPT !.pc = "runOnce", !.attempt = @ + 1,
                                   !.kind = "none", !.from = NoCall]
    BY <1>0, <2>1
  <2>3. QED
    BY <1>0, <2>1, <2>2 DEF CallState
<1>8. CASE Finish(c)
  <2>1. /\ call' = [call EXCEPT ![c].pc = "done", ![c].notice = call[c].hadReset]
        /\ call[c].pc = "resolved" /\ Notice(c)
    BY <1>8 DEF Finish, Running
  <2>2. call'[c] = [call[c] EXCEPT !.pc = "done", !.notice = call[c].hadReset]
    BY <1>0, <2>1
  <2>3. QED
    BY <1>0, <2>1, <2>2 DEF CallState
<1>9. QED
  BY <1>1, <1>2, <1>3, <1>4, <1>5, <1>6, <1>7, <1>8 DEF Quiet

LEMMA QuietKeepsAnswers ==
  ASSUME IInv, AInv, NEW c \in Calls, Quiet(c)
  PROVE  AInv'
<1> USE DEF IInv, AInv
<1>1. UNCHANGED <<handle, proc>> /\ \A o \in Calls \ {c} : call'[o] = call[o]
  BY QuietEffect
<1>2. \/ call'[c].pc \notin {"resolved", "done"}
      \/ call'[c].kind \notin FrameKinds
      \/ /\ Ended(c) /\ call'[c].kind = call[c].kind /\ call'[c].kern = call[c].kern
         /\ call'[c].from = call[c].from
  BY QuietCall DEF FrameKinds, Ended
<1>3. WireIsClean'
  BY <1>1 DEF WireIsClean
<1>4. KernelAnswers' /\ OwnAnswer'
  BY <1>1, <1>2 DEF KernelAnswers, OwnAnswer, Ended
<1>5. QED
  BY <1>3, <1>4

-----------------------------------------------------------------------------
LEMMA EndsKeepAnswers ==
  ASSUME IInv, AInv, NEW k \in Kernels,
         NEW kind \in {"timeout", "reset", "died", "spawn error"}, Ends(k, kind)
  PROVE  AInv'
<1> USE DEF IInv, AInv
<1>1. /\ \A j \in Kernels \ {k} : handle'[j] = handle[j] /\ proc'[j] = proc[j]
      /\ proc'[k].writer = proc[k].writer
      /\ handle'[k].dead
  <2>1. PICK armed :
          /\ Retire(k, kind, armed) /\ proc'[k].writer = proc[k].writer
          /\ \A j \in Kernels \ {k} : proc'[j] = proc[j]
    BY DEF Ends
  <2>2. handle'[k].dead = TRUE /\ \A j \in Kernels \ {k} : handle'[j] = handle[j]
    BY <2>1, RetireEffect
  <2>3. QED
    BY <2>1, <2>2
<1>2. ASSUME NEW c \in Calls
      PROVE  \/ call'[c] = call[c]
             \/ call'[c].kind \notin FrameKinds
  <2>1. CASE c # handle[k].pending
    <3>1. PICK armed : Retire(k, kind, armed)
      BY DEF Ends
    <3>2. QED
      BY <2>1, <3>1, RetireEffect
  <2>2. CASE c = handle[k].pending
    <3>1. call'[c].kind = kind
      <4>1. PICK armed : Retire(k, kind, armed)
        BY DEF Ends
      <4>2. handle[k].pending # NoCall
        BY <2>2, IdentityAssumption
      <4>3. QED
        BY <2>2, <4>1, <4>2, RetireEffect
    <3>2. QED
      BY <3>1 DEF FrameKinds
  <2>3. QED
    BY <2>1, <2>2
<1>3. WireIsClean'
  BY <1>1 DEF WireIsClean
<1>4. KernelAnswers' /\ OwnAnswer'
  <2>1. \A j \in Kernels : proc'[j].writer = proc[j].writer
    BY <1>1
  <2>2. QED
    BY <1>2, <2>1 DEF KernelAnswers, OwnAnswer, Ended
<1>5. QED
  BY <1>3, <1>4

LEMMA SpawnKeepsAnswers ==
  ASSUME IInv, AInv, NEW c \in Calls, Spawn(c)
  PROVE  AInv'
<1> USE DEF IInv, AInv
<1> DEFINE k == NewKernel
<1>1. /\ k \in Kernels /\ proc[k].at = "unborn" /\ call'[c].pc = "post"
      /\ \A o \in Calls \ {c} : call'[o] = call[o]
      /\ handle'[k].pending = handle[k].pending /\ handle'[k].dead = handle[k].dead
      /\ handle'[k].buf = handle[k].buf
      /\ proc'[k].in = proc[k].in /\ proc'[k].out = proc[k].out
      /\ proc'[k].writer = proc[k].writer
      /\ \A j \in Kernels \ {k} : handle'[j] = handle[j] /\ proc'[j] = proc[j]
  BY SpawnEffect
<1> HIDE DEF k
<1>2. WireIsClean'
  BY <1>1 DEF WireIsClean
<1>3. KernelAnswers' /\ OwnAnswer'
  <2>1. \A j \in Kernels : proc'[j].writer = proc[j].writer
    BY <1>1
  <2>2. QED
    BY <1>1, <2>1 DEF KernelAnswers, OwnAnswer, Ended
<1>4. QED
  BY <1>2, <1>3

LEMMA PostKeepsAnswers ==
  ASSUME IInv, AInv, NEW c \in Calls, Post(c)
  PROVE  AInv'
<1> DEFINE k == call[c].kern
<1> USE DEF IInv, AInv
<1>1. /\ k \in Kernels /\ handle[k].pending = NoCall
      /\ call'[c].pc = "waiting"
      /\ \A o \in Calls \ {c} : call'[o] = call[o]
      /\ handle'[k].pending = c /\ handle'[k].dead = handle[k].dead
      /\ handle'[k].buf = handle[k].buf
      /\ proc'[k].out = proc[k].out /\ proc'[k].writer = proc[k].writer
      /\ proc'[k].in = Append(proc[k].in, c) \/ proc'[k].in = proc[k].in
      /\ \A j \in Kernels \ {k} : handle'[j] = handle[j] /\ proc'[j] = proc[j]
  BY PostEffect
<1> HIDE DEF k
<1>2. ASSUME ~handle'[k].dead, ~proc'[k].writer
      PROVE  /\ handle'[k].buf = <<>> /\ proc'[k].out = <<>>
             /\ proc'[k].in = <<c>> \/ proc'[k].in = <<>>
  <2>1. handle[k].buf = <<>> /\ proc[k].out = <<>> /\ proc[k].in = <<>>
    BY <1>1, <1>2 DEF WireIsClean
  <2>2. QED
    BY <1>1, <2>1
<1>3. WireIsClean'
  BY <1>1, <1>2, IdentityAssumption DEF WireIsClean
<1>4. KernelAnswers' /\ OwnAnswer'
  BY <1>1 DEF KernelAnswers, OwnAnswer, Ended
<1>5. QED
  BY <1>3, <1>4

LEMMA DeathKeepsAnswers ==
  ASSUME IInv, AInv, Dies
  PROVE  AInv'
<1> USE DEF IInv, AInv
<1>1. UNCHANGED <<call, handle>> /\ Killed({k \in Kernels : Registered(k)})
  BY DEF Dies
<1>2. ASSUME NEW k \in Kernels
      PROVE  /\ proc'[k].writer = proc[k].writer
             /\ proc'[k] = proc[k] \/ (proc'[k].in = <<>> /\ proc'[k].out = <<>>)
  <2>1. proc[k] \in ProcState
    BY DEF TypeOK
  <2>2. \/ proc'[k] = [proc[k] EXCEPT !.at = "reaped", !.in = <<>>, !.out = <<>>]
        \/ proc'[k] = proc[k]
    BY <1>1 DEF Killed
  <2>3. QED
    BY <2>1, <2>2 DEF ProcState
<1>3. WireIsClean'
  BY <1>1, <1>2 DEF WireIsClean
<1>4. KernelAnswers' /\ OwnAnswer'
  BY <1>1, <1>2 DEF KernelAnswers, OwnAnswer, Ended
<1>5. QED
  BY <1>3, <1>4

-----------------------------------------------------------------------------
\* What the stdout handler finds of a kernel without a writer: the response
\* to the pending call, and nothing else.
LEMMA ArrivedIsOwn ==
  ASSUME IInv, AInv, NEW k \in Kernels, Readable(k), ~proc[k].writer
  PROVE  /\ handle[k].pending \in Calls
         /\ \E kind \in FrameKinds : Arrived(k) = <<Frame(handle[k].pending, kind)>>
         /\ proc[k].in = <<>> /\ Tail(proc[k].out) = <<>>
<1> DEFINE c == handle[k].pending
<1>1. /\ ~handle[k].dead /\ proc[k].out # <<>>
  BY DEF Readable
<1>2. handle[k].buf = <<>> /\ c # NoCall /\ proc[k].in = <<>>
  BY <1>1 DEF AInv, WireIsClean
<1>3. PICK kind \in FrameKinds : proc[k].out = <<Frame(c, kind)>>
  BY <1>1, <1>2 DEF AInv, WireIsClean
<1>4. Arrived(k) = <<Frame(c, kind)>> /\ Tail(proc[k].out) = <<>>
  BY <1>2, <1>3 DEF Arrived
<1>5. c \in Calls
  BY <1>2, PendingIsCall DEF IInv
<1>6. QED
  BY <1>2, <1>4, <1>5

\* A chunk read: the process keeps everything but the output.
LEMMA ReadEffect ==
  ASSUME IInv, NEW k \in Kernels, Read(k), proc[k].out # <<>>
  PROVE  /\ \A j \in Kernels \ {k} : proc'[j] = proc[j]
         /\ proc'[k].writer = proc[k].writer /\ proc'[k].in = proc[k].in
         /\ proc'[k].out = Tail(proc[k].out)
<1>1. proc \in [Kernels -> ProcState] /\ proc[k] \in ProcState
  BY DEF IInv, TypeOK
<1>2. QED
  BY <1>1 DEF Read, ProcState

LEMMA KeepChunkKeepsAnswers ==
  ASSUME IInv, AInv, NEW k \in Kernels, KeepChunk(k)
  PROVE  AInv'
<1> USE DEF IInv, AInv
<1>1. /\ call' = call /\ Read(k) /\ Readable(k) /\ proc[k].out # <<>>
      /\ handle' = [handle EXCEPT ![k].buf = Arrived(k)]
      /\ handle[k].pending = NoCall \/ Head(Arrived(k)) = Noise
  BY DEF KeepChunk, Readable
<1>2. \A j \in Kernels \ {k} : handle'[j] = handle[j] /\ proc'[j] = proc[j]
  BY <1>1, ReadEffect DEF TypeOK
<1>3. proc'[k].writer = proc[k].writer
  BY <1>1, ReadEffect
<1>4. proc[k].writer
  <2> SUFFICES ASSUME ~proc[k].writer PROVE FALSE
    OBVIOUS
  <2>1. PICK kind \in FrameKinds : Arrived(k) = <<Frame(handle[k].pending, kind)>>
    BY <1>1, ArrivedIsOwn
  <2>2. Head(Arrived(k)) = Frame(handle[k].pending, kind) /\ handle[k].pending \in Calls
    BY <1>1, <2>1, ArrivedIsOwn
  <2>3. QED
    BY <1>1, <2>2, IdentityAssumption DEF Noise, Frame
<1>5. WireIsClean'
  BY <1>2, <1>3, <1>4 DEF WireIsClean
<1>6. KernelAnswers' /\ OwnAnswer'
  <2>1. \A j \in Kernels : proc'[j].writer = proc[j].writer
    BY <1>2, <1>3
  <2>2. QED
    BY <1>1, <2>1 DEF KernelAnswers, OwnAnswer, Ended
<1>7. QED
  BY <1>5, <1>6

\* Deliver and Misread: the pending call is resolved with what was read.
LEMMA AnswerKeepsAnswers ==
  ASSUME IInv, AInv, NEW k \in Kernels, Deliver(k) \/ Misread(k)
  PROVE  AInv'
<1> DEFINE c == handle[k].pending
<1> USE DEF IInv, AInv
<1>1. /\ Read(k) /\ Readable(k) /\ proc[k].out # <<>> /\ c # NoCall
  BY DEF Deliver, Misread, Readable
<1>2. c \in Calls /\ call[c].kern = k
  BY <1>1, PendingIsCall DEF NoCallIsDropped
<1>0. \E kind \in FrameKinds, from \in Calls \cup {NoCall} : \E buf :
        /\ Resolve(c, kind, from)
        /\ handle' = [handle EXCEPT ![k].buf = buf, ![k].pending = NoCall]
        /\ ~proc[k].writer => from = c /\ buf = <<>>
  <2>1. CASE Deliver(k)
    <3>1. Head(Arrived(k)) \in Chunks /\ Head(Arrived(k)) # Noise
      BY <1>1, <2>1, ChunkIsTyped DEF Deliver
    <3>2. ASSUME ~proc[k].writer
          PROVE  Head(Arrived(k)).from = c /\ Tail(Arrived(k)) = <<>>
      <4>1. PICK kind \in FrameKinds : Arrived(k) = <<Frame(c, kind)>>
        BY <1>1, <3>2, ArrivedIsOwn
      <4>2. QED
        BY <4>1 DEF Frame
    <3>3. Head(Arrived(k)).kind \in FrameKinds /\ Head(Arrived(k)).from \in Calls \cup {NoCall}
      BY <3>1 DEF Chunks
    <3>4. /\ handle' = [handle EXCEPT ![k].buf = Tail(Arrived(k)), ![k].pending = NoCall]
          /\ Resolve(c, Head(Arrived(k)).kind, Head(Arrived(k)).from)
      BY <2>1 DEF Deliver
    <3>5. QED
      BY <3>2, <3>3, <3>4
  <2>2. CASE Misread(k)
    <3>1. PICK rest : handle' = [handle EXCEPT ![k].pending = NoCall, ![k].buf = rest]
      BY <2>2 DEF Misread
    <3>2. PICK kind \in FrameKinds : Resolve(c, kind, NoCall)
      BY <2>2 DEF Misread
    <3>3. proc[k].writer
      <4>1. Head(Arrived(k)) = Noise
        BY <2>2 DEF Misread
      <4>2. QED
        BY <1>1, <4>1, ArrivedIsOwn, IdentityAssumption DEF Noise, Frame
    <3>4. handle' = [handle EXCEPT ![k].buf = rest, ![k].pending = NoCall]
      BY <3>1 DEF TypeOK
    <3>5. QED
      BY <3>2, <3>3, <3>4
  <2>3. QED
    BY <2>1, <2>2
<1> HIDE DEF c
<1>3. PICK kind \in FrameKinds, from \in Calls \cup {NoCall} : \E buf :
        /\ Resolve(c, kind, from)
        /\ handle' = [handle EXCEPT ![k].buf = buf, ![k].pending = NoCall]
        /\ ~proc[k].writer => from = c /\ buf = <<>>
  BY <1>0
<1>3a. PICK buf :
        /\ Resolve(c, kind, from)
        /\ handle' = [handle EXCEPT ![k].buf = buf, ![k].pending = NoCall]
        /\ ~proc[k].writer => from = c /\ buf = <<>>
  BY <1>3
<1>4. /\ call'[c].from = from /\ call'[c].kern = k
      /\ \A o \in Calls \ {c} : call'[o] = call[o]
  BY <1>2, <1>3a, ResolvedCall
<1>5. /\ \A j \in Kernels \ {k} : handle'[j] = handle[j] /\ proc'[j] = proc[j]
      /\ proc'[k].writer = proc[k].writer /\ proc'[k].in = proc[k].in
      /\ proc'[k].out = Tail(proc[k].out)
      /\ handle'[k].pending = NoCall /\ handle'[k].buf = buf
  <2>1. handle \in [Kernels -> HandleState] /\ handle[k] \in HandleState
    BY DEF TypeOK
  <2>2. handle'[k].pending = NoCall /\ handle'[k].buf = buf
        /\ \A j \in Kernels \ {k} : handle'[j] = handle[j]
    BY <1>3a, <2>1 DEF HandleState
  <2>3. QED
    BY <1>1, <2>2, ReadEffect
<1>6. WireIsClean'
  <2>1. ~proc[k].writer => proc[k].in = <<>> /\ Tail(proc[k].out) = <<>>
    BY <1>1, ArrivedIsOwn
  <2>2. QED
    BY <1>3a, <1>5, <2>1 DEF WireIsClean
<1>7. KernelAnswers' /\ OwnAnswer'
  <2>1. \A j \in Kernels : proc'[j].writer = proc[j].writer
    BY <1>5
  <2>2. QED
    BY <1>2, <1>3a, <1>4, <2>1 DEF KernelAnswers, OwnAnswer, Ended
<1>8. QED
  BY <1>6, <1>7

-----------------------------------------------------------------------------
\* Reap and the kernel's own steps: only its process changes, and never from
\* having a writer to having none.
LEMMA ProcessKeepsAnswers ==
  ASSUME IInv, AInv, NEW k \in Kernels, Reap(k) \/ Process(k)
  PROVE  AInv'
<1> USE DEF IInv, AInv
<1>1. proc \in [Kernels -> ProcState] /\ proc[k] \in ProcState
  BY DEF TypeOK
<1>2. ASSUME UNCHANGED <<call, handle>>, NEW p \in ProcState,
             proc' = [proc EXCEPT ![k] = p], proc[k].writer => p.writer,
             ~handle[k].dead /\ ~p.writer =>
               \/ p.in = proc[k].in /\ p.out = proc[k].out
               \/ p.in = <<>> /\ p.out = proc[k].out
               \/ /\ p.in = <<>> /\ handle[k].pending # NoCall
                  /\ \E kind \in FrameKinds : p.out = <<Frame(handle[k].pending, kind)>>
      PROVE  AInv'
  <2>1. proc'[k] = p /\ \A j \in Kernels \ {k} : proc'[j] = proc[j]
    BY <1>1, <1>2
  <2>2. WireIsClean'
    BY <1>2, <2>1 DEF WireIsClean
  <2>3. \A j \in Kernels : proc[j].writer => proc'[j].writer
    BY <1>2, <2>1
  <2>4. KernelAnswers' /\ OwnAnswer'
    BY <1>2, <2>3 DEF KernelAnswers, OwnAnswer, Ended
  <2>5. QED
    BY <2>2, <2>4
<1>3. CASE Reap(k)
  <2> DEFINE p == [proc[k] EXCEPT !.at = "reaped"]
  <2>1. p \in ProcState /\ p.in = proc[k].in /\ p.out = proc[k].out /\ p.writer = proc[k].writer
    BY <1>1 DEF ProcState
  <2>2. proc' = [proc EXCEPT ![k] = p] /\ UNCHANGED <<call, handle>>
    BY <1>1, <1>3 DEF Reap
  <2> HIDE DEF p
  <2>3. QED
    BY <1>2, <2>1, <2>2
<1>4. CASE KernelReply(k)
  <2>1. PICK kind \in ExitKinds :
          proc' = [proc EXCEPT ![k].in = Tail(@),
                               ![k].out = Append(@, Frame(Head(proc[k].in), kind))]
    BY <1>4 DEF KernelReply
  <2> DEFINE f == Frame(Head(proc[k].in), kind)
             p == [proc[k] EXCEPT !.in = Tail(@), !.out = Append(@, f)]
  <2>2. proc[k].in # <<>> /\ UNCHANGED <<call, handle>>
    BY <1>4 DEF KernelReply, Outside
  <2>3. Tail(proc[k].in) \in Seq(Calls) /\ Head(proc[k].in) \in Calls
    BY <1>1, <2>2, HeadTailProperties DEF ProcState
  <2>4. f \in Chunks /\ kind \in FrameKinds
    BY <2>3, BoundAssumption DEF Frame, Chunks
  <2>5. Append(proc[k].out, f) \in Seq(Chunks)
    <3> HIDE DEF f
    <3>1. QED
      BY <1>1, <2>4, AppendProperties DEF ProcState
  <2>6. /\ p \in ProcState /\ p.in = Tail(proc[k].in)
        /\ p.out = Append(proc[k].out, f) /\ p.writer = proc[k].writer
    <3> HIDE DEF f
    <3>1. QED
      BY <1>1, <2>3, <2>5 DEF ProcState
  <2>7. proc' = [proc EXCEPT ![k] = p]
    BY <1>1, <2>1
  <2>8. ASSUME ~handle[k].dead, ~proc[k].writer
        PROVE  /\ p.in = <<>> /\ handle[k].pending # NoCall
               /\ p.out = <<Frame(handle[k].pending, kind)>>
    <3>1. /\ handle[k].pending # NoCall
          /\ proc[k].in = <<handle[k].pending>> /\ proc[k].out = <<>>
      BY <2>2, <2>8 DEF WireIsClean
    <3>2. Tail(proc[k].in) = <<>> /\ f = Frame(handle[k].pending, kind)
      BY <3>1
    <3> HIDE DEF f, p
    <3>3. QED
      BY <2>6, <3>1, <3>2
  <2> HIDE DEF p, f
  <2>9. QED
    BY <1>2, <2>2, <2>4, <2>6, <2>7, <2>8
<1>5. CASE StartWriter(k)
  <2> DEFINE p == [proc[k] EXCEPT !.writer = TRUE]
  <2>1. p \in ProcState /\ p.writer = TRUE
    BY <1>1 DEF ProcState
  <2>2. proc' = [proc EXCEPT ![k] = p] /\ UNCHANGED <<call, handle>>
    BY <1>1, <1>5 DEF StartWriter, Outside
  <2> HIDE DEF p
  <2>3. QED
    BY <1>2, <2>1, <2>2
<1>6. CASE StrayWrite(k)
  <2> DEFINE p == [proc[k] EXCEPT !.out = Append(@, Noise)]
  <2>1. Append(proc[k].out, Noise) \in Seq(Chunks)
    BY <1>1, AppendProperties DEF ProcState, Chunks
  <2>2. p \in ProcState /\ p.writer = proc[k].writer
    BY <1>1, <2>1 DEF ProcState
  <2>3. proc' = [proc EXCEPT ![k] = p] /\ UNCHANGED <<call, handle>>
    BY <1>1, <1>6 DEF StrayWrite, Outside
  <2>4. proc[k].writer
    BY <1>6 DEF StrayWrite
  <2> HIDE DEF p
  <2>5. QED
    BY <1>2, <2>2, <2>3, <2>4
<1>7. CASE KernelCrash(k)
  <2> DEFINE p == [proc[k] EXCEPT !.at = "exited", !.in = <<>>]
  <2>1. p \in ProcState /\ p.in = <<>> /\ p.out = proc[k].out /\ p.writer = proc[k].writer
    BY <1>1, EmptySeq DEF ProcState
  <2>2. proc' = [proc EXCEPT ![k] = p] /\ UNCHANGED <<call, handle>>
    BY <1>1, <1>7 DEF KernelCrash, Outside
  <2> HIDE DEF p
  <2>3. QED
    BY <1>2, <2>1, <2>2
<1>8. QED
  BY <1>3, <1>4, <1>5, <1>6, <1>7 DEF Process

LEMMA NextKeepsAnswers == IInv /\ AInv /\ [Next]_vars => AInv'
<1> SUFFICES ASSUME IInv, AInv, [Next]_vars PROVE AInv'
  OBVIOUS
<1>1. CASE UNCHANGED vars
  BY <1>1 DEF vars, AInv, WireIsClean, KernelAnswers, OwnAnswer, Ended
<1>2. ASSUME NEW c \in Calls, Arrive(c) \/ Chain(c) \/ Waits(c)
      PROVE  AInv'
  BY <1>2, QuietKeepsAnswers, SpawnKeepsAnswers, PostKeepsAnswers, DeathKeepsAnswers
     DEF Chain, Waits, Quiet, PostBrokenPipe
<1>3. ASSUME \/ \E c \in Calls : TimerFires(c)
             \/ \E k \in Kernels : Garbled(k) \/ Close(k) \/ SpawnError(k)
      PROVE  AInv'
  BY <1>3, EndsAKernel, EndsKeepAnswers
<1>4. ASSUME NEW k \in Kernels, KeepChunk(k) \/ Deliver(k) \/ Misread(k) \/ Reap(k) \/ Process(k)
      PROVE  AInv'
  BY <1>4, KeepChunkKeepsAnswers, AnswerKeepsAnswers, ProcessKeepsAnswers
<1>5. QED
  BY <1>1, <1>2, <1>3, <1>4, DeathKeepsAnswers DEF Next, Data, ReadsNull

LEMMA InitAnswers == Init => AInv
BY DEF Init, AInv, WireIsClean, KernelAnswers, OwnAnswer, Ended, FrameKinds

\* A call is answered with the response to its own request, whatever other
\* calls, timeouts and crashes its kernel has seen, as long as only the
\* protocol writes to the kernel's stdout.
THEOREM AnswersAreOwn == Spec => []OwnAnswer
<1>1. Init => IInv /\ AInv
  BY InitIInv, InitAnswers
<1>2. (IInv /\ AInv) /\ [Next]_vars => (IInv /\ AInv)'
  BY NextIInv, NextKeepsAnswers
<1>3. IInv /\ AInv => OwnAnswer
  BY DEF AInv
<1>4. QED
  BY <1>1, <1>2, <1>3, PTL DEF Spec

-----------------------------------------------------------------------------
(***************************************************************************)
(* No call is forgotten and none goes round more than twice.  A step does  *)
(* everything it does to calls, to the running chain and to the timers to  *)
(* one call, and it does one of four things to it.                         *)
(***************************************************************************)
\* Its attempt is not over, or its second one begins.
Advances(c) ==
  /\ \A o \in Calls \ {c} : call'[o] = call[o]
  /\ StepsLeft(c)' \in 0..(StepsLeft(c) - 1)

RunsOn(c) ==
  /\ turn \in {c, NoCall} /\ turn' = c
  /\ call[c].pc # "waiting" /\ timers' = timers
  /\ call'[c].pc \in {"runOnce", "lookup", "post", "resolved"}

Suspends(c) ==
  /\ turn \in {c, NoCall} /\ turn' = NoCall
  /\ call[c].pc # "waiting" /\ timers' = timers
  /\ call'[c].pc \in {"mkdtemp", "probing", "done"}

StartsToWait(c) ==
  /\ turn = c /\ turn' = NoCall
  /\ timers' = timers \cup {c}
  /\ call'[c].pc = "waiting"

StopsWaiting(c) ==
  /\ turn = NoCall /\ turn' = c
  /\ timers' = timers \ {c}
  /\ call[c].pc = "waiting" /\ call'[c].pc = "resolved"

Moves(c) == Advances(c) /\ (RunsOn(c) \/ Suspends(c) \/ StartsToWait(c) \/ StopsWaiting(c))

LEMMA StageValues ==
  /\ Stage["idle"] = 8 /\ Stage["runOnce"] = 7 /\ Stage["mkdtemp"] = 6
  /\ Stage["lookup"] = 5 /\ Stage["probing"] = 4 /\ Stage["post"] = 3
  /\ Stage["waiting"] = 2 /\ Stage["resolved"] = 1 /\ Stage["done"] = 0
BY DEF Stage

\* A later stage of the same attempt, or the second attempt after the first.
LEMMA LaterStage ==
  ASSUME NEW c \in Calls, call[c] \in CallState, call'[c].pc \in DOMAIN Stage,
         \/ call'[c].attempt = call[c].attempt /\ Stage[call'[c].pc] < Stage[call[c].pc]
         \/ /\ call[c].attempt = 1 /\ call'[c].attempt = 2
            /\ call[c].pc = "resolved" /\ call'[c].pc = "runOnce"
  PROVE  StepsLeft(c)' \in 0..(StepsLeft(c) - 1)
<1>1. DOMAIN Stage = {"idle", "runOnce", "mkdtemp", "lookup", "probing", "post",
                      "waiting", "resolved", "done"}
  BY DEF Stage
<1>2. call[c].attempt \in 1..2 /\ call[c].pc \in DOMAIN Stage
  BY <1>1 DEF CallState
<1>3. Stage[call[c].pc] \in 0..8 /\ Stage[call'[c].pc] \in 0..8
  BY <1>1, <1>2, StageValues
<1>4. StepsLeft(c) = 8 * (2 - call[c].attempt) + Stage[call[c].pc]
  BY DEF StepsLeft
<1>5. StepsLeft(c)' = 8 * (2 - call'[c].attempt) + Stage[call'[c].pc]
  BY DEF StepsLeft, Stage
<1>6. call'[c].attempt \in {1, 2} /\ call[c].attempt \in {1, 2}
  BY <1>2
<1>7. QED
  BY <1>3, <1>4, <1>5, <1>6, StageValues

\* The record of one call changes, as a step of its attempt.
LEMMA AdvancesBy ==
  ASSUME IInv, NEW c \in Calls, NEW r, call' = [call EXCEPT ![c] = r],
         r.pc \in DOMAIN Stage,
         \/ r.attempt = call[c].attempt /\ Stage[r.pc] < Stage[call[c].pc]
         \/ /\ call[c].attempt = 1 /\ r.attempt = 2
            /\ call[c].pc = "resolved" /\ r.pc = "runOnce"
  PROVE  Advances(c) /\ call'[c].pc = r.pc
<1>1. call \in [Calls -> CallState] /\ call[c] \in CallState
  BY DEF IInv, TypeOK
<1>2. call'[c] = r /\ \A o \in Calls \ {c} : call'[o] = call[o]
  BY <1>1
<1>3. QED
  BY <1>1, <1>2, LaterStage DEF Advances

LEMMA StageNames ==
  DOMAIN Stage = {"idle", "runOnce", "mkdtemp", "lookup", "probing", "post",
                  "waiting", "resolved", "done"}
BY DEF Stage

LEMMA QuietMoves ==
  ASSUME IInv, NEW c \in Calls, Quiet(c)
  PROVE  Moves(c)
<1>0. call[c] \in CallState /\ call \in [Calls -> CallState]
  BY DEF IInv, TypeOK
<1>t. timers' = timers
  BY DEF Quiet, Arrive, RunOnce, MakeTemp, Lookup, Raises, Refuse, Retry, Finish, server
<1>1. CASE Arrive(c)
  <2>1. PICK d : call' = [call EXCEPT ![c].pc = "runOnce", ![c].asked = d]
    BY <1>1 DEF Arrive
  <2> DEFINE r == [call[c] EXCEPT !.pc = "runOnce", !.asked = d]
  <2>2. call' = [call EXCEPT ![c] = r] /\ r.pc = "runOnce" /\ r.attempt = call[c].attempt
    BY <1>0, <2>1 DEF CallState
  <2>3. call[c].pc = "idle" /\ turn = NoCall /\ turn' = c
    BY <1>1 DEF Arrive, Settled
  <2> HIDE DEF r
  <2>4. Advances(c) /\ call'[c].pc = "runOnce"
    <3>1. r.pc \in DOMAIN Stage /\ Stage[r.pc] < Stage[call[c].pc]
      BY <2>2, <2>3, StageValues, StageNames
    <3>2. QED
      BY <2>2, <2>3, <3>1, AdvancesBy
  <2>5. QED
    BY <1>t, <2>3, <2>4 DEF Moves, RunsOn
<1>2. CASE RunOnce(c)
  <2> DEFINE r == [call[c] EXCEPT !.pc = "lookup", !.dir = call[c].asked]
             s == [call[c] EXCEPT !.pc = "mkdtemp"]
  <2>1. /\ r.pc = "lookup" /\ r.attempt = call[c].attempt
        /\ s.pc = "mkdtemp" /\ s.attempt = call[c].attempt
    BY <1>0 DEF CallState
  <2>2. /\ call[c].pc = "runOnce" /\ turn = c
        /\ \/ call' = [call EXCEPT ![c] = r] /\ turn' = c
           \/ call' = [call EXCEPT ![c] = s] /\ turn' = NoCall
    BY <1>0, <1>2 DEF RunOnce, Running
  <2> HIDE DEF r, s
  <2>3. \/ Advances(c) /\ call'[c].pc = "lookup" /\ turn' = c
        \/ Advances(c) /\ call'[c].pc = "mkdtemp" /\ turn' = NoCall
    BY <2>1, <2>2, AdvancesBy, StageValues, StageNames
  <2>4. QED
    BY <1>t, <2>2, <2>3 DEF Moves, RunsOn, Suspends
<1>3. CASE MakeTemp(c)
  <2>1. PICK d : call' = [call EXCEPT ![c].pc = "lookup", ![c].dir = d]
    BY <1>3 DEF MakeTemp
  <2> DEFINE r == [call[c] EXCEPT !.pc = "lookup", !.dir = d]
  <2>2. call' = [call EXCEPT ![c] = r] /\ r.pc = "lookup" /\ r.attempt = call[c].attempt
    BY <1>0, <2>1 DEF CallState
  <2>3. call[c].pc = "mkdtemp" /\ turn = NoCall /\ turn' = c
    BY <1>3 DEF MakeTemp, Settled
  <2> HIDE DEF r
  <2>4. Advances(c) /\ call'[c].pc = "lookup"
    <3>1. r.pc \in DOMAIN Stage /\ Stage[r.pc] < Stage[call[c].pc]
      BY <2>2, <2>3, StageValues, StageNames
    <3>2. QED
      BY <2>2, <2>3, <3>1, AdvancesBy
  <2>5. QED
    BY <1>t, <2>3, <2>4 DEF Moves, RunsOn
<1>4. CASE Lookup(c)
  <2> DEFINE r == [call[c] EXCEPT !.pc = "post", !.kern = pool[call[c].dir]]
             s == [call[c] EXCEPT !.pc = "probing"]
  <2>1. /\ r.pc = "post" /\ r.attempt = call[c].attempt
        /\ s.pc = "probing" /\ s.attempt = call[c].attempt
    BY <1>0 DEF CallState
  <2>2. /\ call[c].pc = "lookup" /\ turn = c
        /\ \/ call' = [call EXCEPT ![c] = r] /\ turn' = c
           \/ call' = [call EXCEPT ![c] = s] /\ turn' = NoCall
    BY <1>0, <1>4 DEF Lookup, Running
  <2> HIDE DEF r, s
  <2>3. \/ Advances(c) /\ call'[c].pc = "post" /\ turn' = c
        \/ Advances(c) /\ call'[c].pc = "probing" /\ turn' = NoCall
    BY <2>1, <2>2, AdvancesBy, StageValues, StageNames
  <2>4. QED
    BY <1>t, <2>2, <2>3 DEF Moves, RunsOn, Suspends
<1>5. CASE Raises(c)
  <2> DEFINE r == [call[c] EXCEPT !.pc = "done", !.kind = "raised"]
  <2>1. /\ call' = [call EXCEPT ![c] = r] /\ r.pc = "done" /\ r.attempt = call[c].attempt
        /\ call[c].pc \in {"mkdtemp", "probing"} /\ turn = NoCall /\ turn' = NoCall
    BY <1>0, <1>5 DEF Raises, CallState, Settled, server
  <2> HIDE DEF r
  <2>2. Advances(c) /\ call'[c].pc = "done"
    <3>1. r.pc \in DOMAIN Stage /\ Stage[r.pc] < Stage[call[c].pc]
      BY <2>1, StageValues, StageNames
    <3>2. QED
      BY <2>1, <3>1, AdvancesBy
  <2>3. QED
    BY <1>t, <2>1, <2>2 DEF Moves, Suspends
<1>6. CASE Refuse(c)
  <2> DEFINE kind == IF handle[call[c].kern].dead THEN "unavailable" ELSE "busy"
             had == call[c].dir \in resetPending
             r == [call[c] EXCEPT !.pc = "resolved", !.hadReset = had, !.kind = kind]
  <2>1. call' = [call EXCEPT ![c] = r]
    BY <1>0, <1>6 DEF Refuse
  <2>2. call[c].pc = "post" /\ turn = c /\ turn' = c
    BY <1>6 DEF Refuse, Running, server
  <2> HIDE DEF kind, had
  <2>3. r.pc = "resolved" /\ r.attempt = call[c].attempt
    BY <1>0 DEF CallState
  <2> HIDE DEF r
  <2>4. Advances(c) /\ call'[c].pc = "resolved"
    <3>1. r.pc \in DOMAIN Stage /\ Stage[r.pc] < Stage[call[c].pc]
      BY <2>1, <2>2, <2>3, StageValues, StageNames
    <3>2. QED
      BY <2>1, <2>2, <2>3, <3>1, AdvancesBy
  <2>5. QED
    BY <1>t, <2>2, <2>4 DEF Moves, RunsOn
<1>7. CASE Retry(c)
  <2> DEFINE r == [call[c] EXCEPT !.pc = "runOnce", !.attempt = @ + 1,
                                  !.kind = "none", !.from = NoCall]
  <2>1. /\ call' = [call EXCEPT ![c] = r] /\ call[c].pc = "resolved"
        /\ call[c].attempt = 1 /\ turn = c /\ turn' = c
    BY <1>0, <1>7 DEF Retry, Retries, Running, server
  <2>2. r.pc = "runOnce" /\ r.attempt = 2
    <3>1. r.attempt = call[c].attempt + 1 /\ r.pc = "runOnce"
      BY <1>0 DEF CallState
    <3>2. QED
      BY <2>1, <3>1
  <2> HIDE DEF r
  <2>3. Advances(c) /\ call'[c].pc = "runOnce"
    <3>1. r.pc \in DOMAIN Stage
      BY <2>1, <2>2, StageNames
    <3>2. QED
      BY <2>1, <2>2, <3>1, AdvancesBy
  <2>4. QED
    BY <1>t, <2>1, <2>3 DEF Moves, RunsOn
<1>8. CASE Finish(c)
  <2> DEFINE r == [call[c] EXCEPT !.pc = "done", !.notice = call[c].hadReset]
  <2>1. /\ call' = [call EXCEPT ![c] = r] /\ call[c].pc = "resolved"
        /\ r.pc = "done" /\ r.attempt = call[c].attempt /\ turn = c /\ turn' = NoCall
    BY <1>0, <1>8 DEF Finish, Running, CallState
  <2> HIDE DEF r
  <2>2. Advances(c) /\ call'[c].pc = "done"
    <3>1. r.pc \in DOMAIN Stage /\ Stage[r.pc] < Stage[call[c].pc]
      BY <2>1, StageValues, StageNames
    <3>2. QED
      BY <2>1, <3>1, AdvancesBy
  <2>3. QED
    BY <1>t, <2>1, <2>2 DEF Moves, Suspends
<1>9. QED
  BY <1>1, <1>2, <1>3, <1>4, <1>5, <1>6, <1>7, <1>8 DEF Quiet

\* Spawn and Post change the call's record, the kernel's and the process's.
LEMMA KernelMoves ==
  ASSUME IInv, NEW c \in Calls, Spawn(c) \/ Post(c)
  PROVE  Moves(c)
<1>0. call[c] \in CallState /\ call \in [Calls -> CallState]
  BY DEF IInv, TypeOK
<1>1. CASE Spawn(c)
  <2> DEFINE r == [call[c] EXCEPT !.pc = "post", !.kern = NewKernel]
  <2>1. /\ call' = [call EXCEPT ![c] = r] /\ call[c].pc = "probing"
        /\ turn = NoCall /\ turn' = c /\ timers' = timers
    BY <1>0, <1>1 DEF Spawn, Settled
  <2>2. r.pc = "post" /\ r.attempt = call[c].attempt
    BY <1>0 DEF CallState
  <2> HIDE DEF r
  <2>3. r.pc \in DOMAIN Stage /\ Stage[r.pc] < Stage[call[c].pc]
    BY <2>1, <2>2, StageValues, StageNames
  <2>4. Advances(c) /\ call'[c].pc = "post"
    BY <2>1, <2>2, <2>3, AdvancesBy
  <2>5. QED
    BY <2>1, <2>4 DEF Moves, RunsOn
<1>2. CASE Post(c)
  <2> DEFINE had == call[c].dir \in resetPending
             r == [call[c] EXCEPT !.pc = "waiting", !.hadReset = had]
  <2>1. call' = [call EXCEPT ![c] = r]
    BY <1>0, <1>2 DEF Post
  <2> HIDE DEF had
  <2>2. r.pc = "waiting" /\ r.attempt = call[c].attempt
    BY <1>0 DEF CallState
  <2>3. /\ call[c].pc = "post" /\ turn = c /\ turn' = NoCall
        /\ timers' = timers \cup {c}
    BY <1>2 DEF Post, CanPost, Running
  <2> HIDE DEF r
  <2>4. r.pc \in DOMAIN Stage /\ Stage[r.pc] < Stage[call[c].pc]
    BY <2>2, <2>3, StageValues, StageNames
  <2>5. Advances(c) /\ call'[c].pc = "waiting"
    BY <2>1, <2>2, <2>4, AdvancesBy
  <2>6. QED
    BY <2>3, <2>5 DEF Moves, StartsToWait
<1>3. QED
  BY <1>1, <1>2

LEMMA ResolvedIsNext == "resolved" \in DOMAIN Stage /\ Stage["resolved"] < Stage["waiting"]
BY StageValues, StageNames

LEMMA ResolveMoves ==
  ASSUME IInv, NEW c \in Calls, call[c].pc = "waiting", turn = NoCall,
         NEW kind \in FrameKinds \cup {"timeout", "reset", "died", "spawn error"},
         NEW from \in Calls \cup {NoCall}, Resolve(c, kind, from)
  PROVE  Moves(c)
<1> DEFINE r == [call[c] EXCEPT !.pc = "resolved", !.kind = kind, !.from = from]
<1>1. call[c] \in CallState /\ call \in [Calls -> CallState]
  BY DEF IInv, TypeOK
<1>2. call' = [call EXCEPT ![c] = r]
  BY <1>1 DEF Resolve
<1>3. r.pc = "resolved" /\ r.attempt = call[c].attempt
  BY <1>1 DEF CallState
<1>4. timers' = timers \ {c} /\ turn' = c
  BY DEF Resolve
<1> HIDE DEF r
<1>5. r.pc \in DOMAIN Stage /\ Stage[r.pc] < Stage[call[c].pc]
  BY <1>3, ResolvedIsNext
<1>6. Advances(c) /\ call'[c].pc = "resolved"
  BY <1>2, <1>3, <1>5, AdvancesBy
<1>7. QED
  BY <1>4, <1>6 DEF Moves, StopsWaiting

\* A kernel that ends with a call pending resolves it; otherwise it leaves the
\* calls and every timer alone.
LEMMA RetireMoves ==
  ASSUME IInv, turn = NoCall, NEW k \in Kernels,
         NEW kind \in {"timeout", "reset", "died", "spawn error"}, NEW armed,
         Retire(k, kind, armed), handle[k].pending = NoCall => armed = timers
  PROVE  \/ UNCHANGED <<call, turn, timers>>
         \/ \E c \in Calls : Moves(c)
<1>1. CASE handle[k].pending = NoCall
  BY <1>1 DEF Retire
<1>2. CASE handle[k].pending # NoCall
  <2> DEFINE c == handle[k].pending
  <2>1. c \in Calls /\ call[c].pc = "waiting"
    BY <1>2, PendingIsCall DEF IInv, NoCallIsDropped
  <2>2. Resolve(c, kind, NoCall)
    BY <1>2 DEF Retire
  <2> HIDE DEF c
  <2>3. QED
    BY <2>1, <2>2, ResolveMoves
<1>3. QED
  BY <1>1, <1>2

LEMMA EndsMove ==
  ASSUME IInv,
         \/ \E c \in Calls : TimerFires(c)
         \/ \E k \in Kernels : Garbled(k) \/ Close(k) \/ SpawnError(k)
  PROVE  \/ UNCHANGED <<call, turn, timers>>
         \/ \E c \in Calls : Moves(c)
<1>1. turn = NoCall
  BY DEF TimerFires, Garbled, Close, SpawnError, Readable, Settled
<1>2. ASSUME NEW k \in Kernels, NEW kind \in {"timeout", "reset"}, NEW armed,
             handle[k].pending # NoCall, KillKernel(k, kind, armed)
      PROVE  \/ UNCHANGED <<call, turn, timers>>
             \/ \E c \in Calls : Moves(c)
  <2>1. ~handle[k].dead
    BY <1>2 DEF IInv, NoCallIsDropped
  <2>2. Retire(k, kind, armed)
    BY <1>2, <2>1 DEF KillKernel
  <2>3. QED
    BY <1>1, <1>2, <2>2, RetireMoves
<1>3. ASSUME NEW c \in Calls, TimerFires(c)
      PROVE  \/ UNCHANGED <<call, turn, timers>>
             \/ \E o \in Calls : Moves(o)
  <2>1. c \in timers /\ KillKernel(call[c].kern, "timeout", timers \ {c})
    BY <1>3 DEF TimerFires
  <2>2. call[c].kern \in Kernels /\ handle[call[c].kern].pending = c
    BY <2>1 DEF IInv, TimersWait, NoCallIsDropped, CallIsPlaced
  <2>3. QED
    BY <1>2, <2>1, <2>2, IdentityAssumption
<1>4. ASSUME NEW k \in Kernels, Garbled(k)
      PROVE  \/ UNCHANGED <<call, turn, timers>>
             \/ \E c \in Calls : Moves(c)
  BY <1>2, <1>4 DEF Garbled
<1>5. ASSUME NEW k \in Kernels, Close(k) \/ SpawnError(k)
      PROVE  \/ UNCHANGED <<call, turn, timers>>
             \/ \E c \in Calls : Moves(c)
  BY <1>1, <1>5, RetireMoves DEF Close, SpawnError
<1>6. QED
  BY <1>3, <1>4, <1>5

LEMMA AnswerMoves ==
  ASSUME IInv, NEW k \in Kernels, Deliver(k) \/ Misread(k)
  PROVE  \E c \in Calls : Moves(c)
<1> DEFINE c == handle[k].pending
<1>1. Readable(k) /\ c # NoCall /\ turn = NoCall
  BY DEF Deliver, Misread, Readable, Settled
<1>2. c \in Calls /\ call[c].pc = "waiting"
  BY <1>1, PendingIsCall DEF IInv, NoCallIsDropped
<1>3. CASE Deliver(k)
  <2> DEFINE f == Head(Arrived(k))
  <2>1. f \in Chunks /\ f # Noise
    BY <1>1, <1>3, ChunkIsTyped DEF Deliver, IInv, Readable
  <2>2. f.kind \in FrameKinds /\ f.from \in Calls \cup {NoCall}
    BY <2>1 DEF Chunks
  <2>3. Resolve(c, f.kind, f.from)
    BY <1>3 DEF Deliver
  <2> HIDE DEF f, c
  <2>4. QED
    BY <1>1, <1>2, <2>2, <2>3, ResolveMoves
<1>4. CASE Misread(k)
  <2>1. PICK kind \in FrameKinds : Resolve(c, kind, NoCall)
    BY <1>4 DEF Misread
  <2> HIDE DEF c
  <2>2. QED
    BY <1>1, <1>2, <2>1, ResolveMoves
<1>5. QED
  BY <1>3, <1>4

\* Whatever the server, a kernel or user code does, at most one call is moved,
\* and it is moved on.
LEMMA StepMoves ==
  ASSUME IInv, [Next]_vars
  PROVE  \/ UNCHANGED <<call, turn, timers>>
         \/ \E c \in Calls : Moves(c)
<1>1. CASE UNCHANGED vars
  BY <1>1 DEF vars, server
<1>2. ASSUME NEW c \in Calls, Arrive(c) \/ Chain(c) \/ Waits(c)
      PROVE  \/ UNCHANGED <<call, turn, timers>>
             \/ \E o \in Calls : Moves(o)
  <2>1. CASE PostBrokenPipe(c)
    BY <2>1 DEF PostBrokenPipe, Dies
  <2>2. QED
    BY <1>2, <2>1, QuietMoves, KernelMoves DEF Chain, Waits, Quiet
<1>3. ASSUME NEW k \in Kernels, KeepChunk(k) \/ ReadsNull(k) \/ Reap(k) \/ Process(k)
      PROVE  UNCHANGED <<call, turn, timers>>
  BY <1>3 DEF KeepChunk, ReadsNull, Dies, Reap, Process, KernelReply, StartWriter, StrayWrite,
     KernelCrash, Outside, server
<1>4. QED
  BY <1>1, <1>2, <1>3, EndsMove, AnswerMoves DEF Next, Data

-----------------------------------------------------------------------------
LEMMA InitDriven == Init => CallsAreDriven
BY DEF Init, CallsAreDriven

LEMMA NextKeepsDriven == IInv /\ CallsAreDriven /\ [Next]_vars => CallsAreDriven'
<1> SUFFICES ASSUME IInv, CallsAreDriven, [Next]_vars PROVE CallsAreDriven'
  OBVIOUS
<1>1. NoCallIsDropped' /\ CallIsPlaced' /\ turn \in Calls \cup {NoCall}
  BY NextIInv DEF IInv, TypeOK
<1>2. \A c \in Calls : call'[c].pc = "waiting" => ~handle'[call'[c].kern].dead
  BY <1>1, IdentityAssumption DEF NoCallIsDropped, CallIsPlaced
<1>3. CASE UNCHANGED <<call, turn, timers>>
  BY <1>2, <1>3 DEF CallsAreDriven
<1>4. CASE \E c \in Calls : Moves(c)
  <2>1. PICK c \in Calls : Moves(c)
    BY <1>4
  <2>2. \A o \in Calls \ {c} : call'[o] = call[o]
    BY <2>1 DEF Moves, Advances
  <2>3. timers' \in {timers, timers \cup {c}, timers \ {c}}
    BY <2>1 DEF Moves, RunsOn, Suspends, StartsToWait, StopsWaiting
  <2>4. turn \in {c, NoCall} /\ turn' \in {c, NoCall}
    BY <2>1 DEF Moves, RunsOn, Suspends, StartsToWait, StopsWaiting
  <2>5. ASSUME NEW o \in Calls \ {c}, call'[o].pc \notin {"idle", "done"}
        PROVE  \/ turn' = o
               \/ call'[o].pc \in {"mkdtemp", "probing"}
               \/ call'[o].pc = "waiting" /\ o \in timers' /\ ~handle'[call'[o].kern].dead
    BY <1>2, <2>2, <2>3, <2>4, <2>5, IdentityAssumption DEF CallsAreDriven
  <2>6. /\ call'[c].pc \notin {"idle", "done"} =>
             \/ turn' = c
             \/ call'[c].pc \in {"mkdtemp", "probing"}
             \/ call'[c].pc = "waiting" /\ c \in timers' /\ ~handle'[call'[c].kern].dead
        /\ turn' # NoCall => call'[turn'].pc \in {"runOnce", "lookup", "post", "resolved"}
    BY <1>2, <2>1 DEF Moves, RunsOn, Suspends, StartsToWait, StopsWaiting
  <2>7. QED
    BY <2>5, <2>6 DEF CallsAreDriven
<1>5. QED
  BY <1>3, <1>4, StepMoves

\* Every request that was taken up and not answered is driven by the server
\* itself: its chain runs, its mkdtemp or probe will end, or its timer is armed
\* and its kernel not yet dead.
THEOREM CallsStayDriven == Spec => []CallsAreDriven
<1>1. Init => IInv /\ CallsAreDriven
  BY InitIInv, InitDriven
<1>2. (IInv /\ CallsAreDriven) /\ [Next]_vars => (IInv /\ CallsAreDriven)'
  BY NextIInv, NextKeepsDriven
<1>3. QED
  BY <1>1, <1>2, PTL DEF Spec

\* An armed timer can only kill the kernel of its own call, and no call waits
\* for user code without one.
THEOREM TimersAreSafe == Spec => []TimerGuardsItsCall
<1>1. IInv /\ CallsAreDriven => TimerGuardsItsCall
  <2> SUFFICES ASSUME IInv, CallsAreDriven PROVE TimerGuardsItsCall
    OBVIOUS
  <2>1. \A c \in timers : handle[call[c].kern].pending = c
    BY DEF IInv, TypeOK, TimersWait, NoCallIsDropped
  <2>2. ASSUME NEW c \in Calls, call[c].pc = "waiting"
        PROVE  c \in timers
    <3>1. turn # c
      BY <2>2, IdentityAssumption DEF CallsAreDriven
    <3>2. QED
      BY <2>2, <3>1 DEF CallsAreDriven
  <2>3. QED
    BY <2>1, <2>2 DEF TimerGuardsItsCall
<1>2. QED
  BY <1>1, Invariant, CallsStayDriven, PTL

\* Retry once: every step that touches a call brings it nearer to its answer,
\* so no sequence of timeouts, crashes, refusals and other requests makes the
\* server send it to a kernel a third time.
THEOREM CallsAdvance == Spec => CallsOnlyAdvance
<1> DEFINE Nearer == \A c \in Calls :
             call'[c] # call[c] => StepsLeft(c)' \in 0..(StepsLeft(c) - 1)
<1>1. IInv /\ [Next]_vars => [Nearer]_vars
  <2> SUFFICES ASSUME IInv, [Next]_vars PROVE Nearer
    OBVIOUS
  <2>1. CASE UNCHANGED <<call, turn, timers>>
    BY <2>1
  <2>2. CASE \E c \in Calls : Moves(c)
    <3>1. PICK c \in Calls : Moves(c)
      BY <2>2
    <3>2. StepsLeft(c)' \in 0..(StepsLeft(c) - 1) /\ \A o \in Calls \ {c} : call'[o] = call[o]
      BY <3>1 DEF Moves, Advances
    <3>3. ASSUME NEW o \in Calls, call'[o] # call[o]
          PROVE  StepsLeft(o)' \in 0..(StepsLeft(o) - 1)
      <4>1. o = c
        BY <3>2, <3>3
      <4>2. QED
        BY <3>2, <4>1
    <3>4. QED
      BY <3>3
  <2>3. QED
    BY <2>1, <2>2, StepMoves
<1>2. QED
  BY <1>1, Invariant, PTL DEF Spec, CallsOnlyAdvance

=============================================================================
