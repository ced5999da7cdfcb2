----------------------------- MODULE KernelPool -----------------------------
(***************************************************************************)
(* The persistent Python kernel pool of exec_server/exec-server.js, the    *)
(* retry loop above it and the kernel process (python_kernel.py) below it. *)
(*                                                                         *)
(* The server is one JavaScript thread.  An action is one run of that      *)
(* thread between two awaits: `turn' names the call whose promise chain is *)
(* running, and no timer, data, close or request event is handled until    *)
(* the chain suspends (turn = NoCall).  Kernel processes run on their own. *)
(***************************************************************************)
EXTENDS Naturals, Sequences

CONSTANTS
  Calls,      \* execute_code requests with language "python"
  Dirs,       \* directories a request may name as cwd
  Temps,      \* directories mkdtemp can return ({}: every request names a cwd)
  Kernels,    \* identities of kernel handles, one per spawned process
  NoCall, NoKernel, NoDir,
  ExitKinds,  \* how user code can end, a subset of FrameKinds
  Serial,     \* TRUE: the client sends a request only after the last answer
  MaxCrashes, \* bound: kernel processes that die on their own
  MaxNoise    \* bound: writes to a kernel's stdout other than responses

AllDirs == Dirs \cup Temps
\* What user code can end with: exit 0, exit 137, any other exit code.
FrameKinds == {"ok", "oom", "err"}

ASSUME IdentityAssumption ==
  NoCall \notin Calls /\ NoKernel \notin Kernels /\ NoDir \notin AllDirs
ASSUME BoundAssumption ==
  /\ ExitKinds \subseteq FrameKinds
  /\ Serial \in BOOLEAN
  /\ MaxCrashes \in Nat /\ MaxNoise \in Nat

VARIABLES
  call,         \* per request: the locals of executeWithRetry and below it
  turn,         \* the call whose promise chain is running
  timers,       \* calls whose setTimeout is armed
  fallbacks,    \* fallbackCount
  up,           \* the server process is running
  pool,         \* _pythonKernels
  resetPending, \* _kernelResetPending
  handle,       \* per kernel: its KernelHandle
  proc,         \* per kernel: the process and its pipes
  crashes, noises,
  lost          \* history: directories whose state is gone, not yet told

server == <<turn, timers, fallbacks, up>>
registry == <<pool, resetPending, lost>>
bounds == <<crashes, noises>>
vars == <<call, server, registry, handle, proc, bounds>>

-----------------------------------------------------------------------------
\* On a kernel's stdout: the framed response to a request, or anything else.
Frame(c, kind) == [from |-> c, kind |-> kind]
Noise == Frame(NoCall, "noise")
Chunks == [from : Calls, kind : FrameKinds] \cup {Noise}

\* kind: the result so far; from: the request whose response it was read from;
\* notice: "[kernel was reset before this call]" was put before stderr.
CallState ==
  [pc : {"idle", "runOnce", "mkdtemp", "lookup", "probing", "post", "waiting",
         "resolved", "done"},
   attempt : 1..2, asked : Dirs \cup {NoDir}, dir : AllDirs \cup {NoDir},
   kern : Kernels \cup {NoKernel}, hadReset : BOOLEAN,
   kind : FrameKinds \cup {"none", "timeout", "reset", "died", "spawn error",
                           "busy", "unavailable", "raised"},
   from : Calls \cup {NoCall}, notice : BOOLEAN]

HandleState ==
  [dead : BOOLEAN, pending : Calls \cup {NoCall}, dir : AllDirs \cup {NoDir},
   buf : Seq(Chunks)]

\* at: "exited" until node reaps it, "reaped" until its pipes are drained;
\* writer: user code started a process that holds the kernel's stdout.
ProcState ==
  [at : {"unborn", "alive", "failed", "exited", "reaped", "closed"},
   in : Seq(Calls), out : Seq(Chunks), writer : BOOLEAN]

TypeOK ==
  /\ call \in [Calls -> CallState]
  /\ handle \in [Kernels -> HandleState]
  /\ proc \in [Kernels -> ProcState]
  /\ pool \in [AllDirs -> Kernels \cup {NoKernel}]
  /\ resetPending \subseteq AllDirs /\ lost \subseteq AllDirs
  /\ turn \in Calls \cup {NoCall} /\ timers \subseteq Calls
  /\ fallbacks \in Nat /\ up \in BOOLEAN
  /\ crashes \in Nat /\ noises \in Nat

Init ==
  /\ call = [c \in Calls |->
       [pc |-> "idle", attempt |-> 1, asked |-> NoDir, dir |-> NoDir,
        kern |-> NoKernel, hadReset |-> FALSE, kind |-> "none",
        from |-> NoCall, notice |-> FALSE]]
  /\ handle = [k \in Kernels |->
       [dead |-> FALSE, pending |-> NoCall, dir |-> NoDir, buf |-> <<>>]]
  /\ proc = [k \in Kernels |->
       [at |-> "unborn", in |-> <<>>, out |-> <<>>, writer |-> FALSE]]
  /\ pool = [d \in AllDirs |-> NoKernel]
  /\ resetPending = {} /\ lost = {}
  /\ turn = NoCall /\ timers = {}
  /\ fallbacks = 0 /\ up = TRUE
  /\ crashes = 0 /\ noises = 0

-----------------------------------------------------------------------------
(***************************************************************************)
(* Pieces shared by the handlers.                                          *)
(***************************************************************************)

\* No promise chain is running and no nextTick callback (a failed spawn's
\* 'error' event) is queued before the next event.
Settled == up /\ turn = NoCall /\ \A k \in Kernels : proc[k].at # "failed"

Running(c, pc) == up /\ turn = c /\ call[c].pc = pc

\* The pendingResolve wrapper: clear the timer, resolve the call's promise.
\* The call's chain runs next.
ResolveTimerKept(c, kind, from) ==   \* mutated form: clearTimeout forgotten
  /\ call' = [call EXCEPT ![c].pc = "resolved", ![c].kind = kind, ![c].from = from]
  /\ timers' = timers
  /\ turn' = c

Resolve(c, kind, from) ==
  /\ call' = [call EXCEPT ![c].pc = "resolved", ![c].kind = kind, ![c].from = from]
  /\ timers' = timers \ {c}
  /\ turn' = c

\* Unregister a dead handle if it is still the one its directory names.
Registered(k) == handle[k].dir \in AllDirs /\ pool[handle[k].dir] = k

UnregisterWhoever(k) ==   \* mutated form: delete by directory alone
  /\ pool' = [pool EXCEPT ![handle[k].dir] = NoKernel]
  /\ lost' = lost \cup {handle[k].dir}

UnregisterNever(k) == UNCHANGED <<pool, lost>>   \* mutated form

Unregister(k) ==
  IF Registered(k)
  THEN /\ pool' = [pool EXCEPT ![handle[k].dir] = NoKernel]
       /\ lost' = IF proc[k].at = "failed" THEN lost
                  ELSE lost \cup {handle[k].dir}
  ELSE UNCHANGED <<pool, lost>>

\* Common to _killKernel and the close and error handlers: the handle is dead,
\* what it has pending is resolved, it is unregistered.
RetireUnresolved(k, kind, armed) ==   \* mutated form: the resolver is dropped
  /\ handle' = [handle EXCEPT ![k].dead = TRUE, ![k].buf = <<>>]
  /\ timers' = armed /\ UNCHANGED <<call, turn>>
  /\ Unregister(k)

Retire(k, kind, armed) ==
  /\ handle' = [handle EXCEPT ![k].dead = TRUE, ![k].pending = NoCall, ![k].buf = <<>>]
  /\ IF handle[k].pending # NoCall
     THEN Resolve(handle[k].pending, kind, NoCall)
     ELSE timers' = armed /\ UNCHANGED <<call, turn>>
  /\ Unregister(k)

\* SIGKILL: the process, the requests it had not read and its output are gone
\* (what is left in the pipe of a dead handle is buffered, never parsed).
Killed(ks) ==
  proc' = [k \in Kernels |->
    IF k \in ks THEN [proc[k] EXCEPT !.at = "reaped", !.in = <<>>, !.out = <<>>]
    ELSE proc[k]]

KillKernel(k, kind, armed) ==
  IF handle[k].dead
  THEN timers' = armed /\ UNCHANGED <<call, turn, registry, handle, proc>>
  ELSE /\ Retire(k, kind, armed)
       /\ Killed({k})
       /\ resetPending' = resetPending \cup {handle[k].dir}

-----------------------------------------------------------------------------
(***************************************************************************)
(* The request handler's promise chain.                                    *)
(***************************************************************************)

\* CallToolRequestSchema handler: a valid python request reaches
\* executeWithRetry.  The SDK starts a handler per message and waits for none.
Arrive(c) ==
  /\ Settled
  /\ call[c].pc = "idle"
  /\ Serial => \A o \in Calls : call[o].pc \in {"idle", "done"}
  /\ \E d \in (IF Temps = {} THEN Dirs ELSE Dirs \cup {NoDir}) :
       call' = [call EXCEPT ![c].pc = "runOnce", ![c].asked = d]
  /\ turn' = c
  /\ UNCHANGED <<timers, fallbacks, up, registry, handle, proc, bounds>>

\* runOnce: without a cwd the attempt waits for a directory of its own.
RunOnce(c) ==
  /\ Running(c, "runOnce")
  /\ \/ /\ call[c].asked # NoDir
        /\ call' = [call EXCEPT ![c].pc = "lookup", ![c].dir = call[c].asked]
        /\ UNCHANGED turn
     \/ /\ call[c].asked = NoDir
        /\ call' = [call EXCEPT ![c].pc = "mkdtemp"]
        /\ turn' = NoCall
  /\ UNCHANGED <<timers, fallbacks, up, registry, handle, proc, bounds>>

MakeTemp(c) ==
  /\ Settled
  /\ call[c].pc = "mkdtemp"
  /\ \E d \in Temps :
       /\ \A o \in Calls : call[o].dir # d
       /\ \A k \in Kernels : handle[k].dir # d
       /\ call' = [call EXCEPT ![c].pc = "lookup", ![c].dir = d]
  /\ turn' = c
  /\ UNCHANGED <<timers, fallbacks, up, registry, handle, proc, bounds>>

\* _getOrSpawnKernel up to its await: reuse a live registered kernel, or start
\* the unshare probe of _spawnPythonKernel.
Usable(d) == pool[d] # NoKernel /\ ~handle[pool[d]].dead

Lookup(c) ==
  /\ Running(c, "lookup")
  /\ \/ /\ Usable(call[c].dir)
        /\ call' = [call EXCEPT ![c].pc = "post", ![c].kern = pool[call[c].dir]]
        /\ UNCHANGED turn
     \/ /\ ~Usable(call[c].dir)
        /\ call' = [call EXCEPT ![c].pc = "probing"]
        /\ turn' = NoCall
  /\ UNCHANGED <<timers, fallbacks, up, registry, handle, proc, bounds>>

\* mkdtemp is rejected, or neither unshare variant works: the call fails, no
\* kernel is made.
Raises(c) ==
  /\ Settled
  /\ call[c].pc \in {"mkdtemp", "probing"}
  /\ call' = [call EXCEPT ![c].pc = "done", ![c].kind = "raised"]
  /\ UNCHANGED <<server, registry, handle, proc, bounds>>

\* The probe succeeded: spawn the kernel and register it, in one chain.
\* The spawn itself may fail, which its 'error' event tells afterwards.
Unborn == {k \in Kernels : proc[k].at = "unborn"}
NewKernel == CHOOSE k \in Unborn : TRUE

Spawn(c) ==
  /\ Settled
  /\ call[c].pc = "probing"
  /\ Unborn # {}
  /\ \E how \in {"alive", "failed"} : proc' = [proc EXCEPT ![NewKernel].at = how]
  /\ handle' = [handle EXCEPT ![NewKernel].dir = call[c].dir]
  /\ pool' = [pool EXCEPT ![call[c].dir] = NewKernel]
  /\ call' = [call EXCEPT ![c].pc = "post", ![c].kern = NewKernel]
  /\ turn' = c
  /\ UNCHANGED <<timers, fallbacks, up, resetPending, lost, bounds>>

\* executePythonStateful: the early returns of the promise body.
CanPostAnyway(c) == Running(c, "post") /\ ~handle[call[c].kern].dead  \* mutated form
CanPost(c) ==
  /\ Running(c, "post")
  /\ ~handle[call[c].kern].dead
  /\ handle[call[c].kern].pending = NoCall

Refuse(c) ==
  /\ Running(c, "post")
  /\ ~CanPost(c)
  /\ call' = [call EXCEPT ![c].pc = "resolved",
       ![c].hadReset = call[c].dir \in resetPending,
       ![c].kind = IF handle[call[c].kern].dead THEN "unavailable" ELSE "busy"]
  /\ UNCHANGED <<server, registry, handle, proc, bounds>>

\* executePythonStateful: arm the timer, register the resolver, write the
\* request.  A request written to a process that is gone is lost.
Post(c) ==
  /\ CanPost(c)
  /\ call' = [call EXCEPT ![c].pc = "waiting",
                          ![c].hadReset = call[c].dir \in resetPending]
  /\ handle' = [handle EXCEPT ![call[c].kern].pending = c]
  /\ timers' = timers \cup {c}
  /\ IF proc[call[c].kern].at = "alive"
     THEN proc' = [proc EXCEPT ![call[c].kern].in = Append(@, c)]
     ELSE UNCHANGED proc
  /\ turn' = NoCall
  /\ UNCHANGED <<fallbacks, up, registry, bounds>>

\* An exception nobody catches, or an 'error' event without a listener: the
\* server dies, its exit handler kills the registered kernels.
Dies ==
  /\ up' = FALSE
  /\ Killed({k \in Kernels : Registered(k)})
  /\ UNCHANGED <<call, turn, timers, fallbacks, registry, handle, bounds>>

\* The kernel has exited, nobody holds the read end of its stdin and node has
\* not reaped it: the write fails with EPIPE, an 'error' event of stdin.
PostBrokenPipe(c) ==
  /\ CanPost(c)
  /\ proc[call[c].kern].at = "exited"
  /\ Dies

\* Back in executePythonStateful: the notice is put on and the flag cleared.
NoticeForever(c) == UNCHANGED resetPending   \* mutated form: never cleared
Notice(c) == resetPending' =
  IF call[c].hadReset THEN resetPending \ {call[c].dir} ELSE resetPending

\* executeWithRetry: classifyResult finds a timeout or exit code 137.
WorthRetrying(c) == call[c].kind \in {"timeout", "oom"}
RetriesForever(c) == WorthRetrying(c)   \* mutated form: no limit
Retries(c) == WorthRetrying(c) /\ call[c].attempt = 1

\* The first result is dropped, with the notice it may have carried.
Retry(c) ==
  /\ Running(c, "resolved")
  /\ Retries(c)
  /\ Notice(c)
  /\ call' = [call EXCEPT ![c].pc = "runOnce", ![c].attempt = @ + 1,
                          ![c].kind = "none", ![c].from = NoCall]
  /\ UNCHANGED <<server, pool, lost, handle, proc, bounds>>

\* The answer says "kernel reset" or "kernel died", or carries the notice.
Tells(c) == call[c].hadReset \/ call[c].kind \in {"timeout", "reset", "died"}

Finish(c) ==
  /\ Running(c, "resolved")
  /\ ~Retries(c)
  /\ Notice(c)
  /\ call' = [call EXCEPT ![c].pc = "done", ![c].notice = call[c].hadReset]
  /\ fallbacks' = IF call[c].attempt = 2 /\ call[c].kind # "ok"
                  THEN fallbacks + 1 ELSE fallbacks
  /\ lost' = IF Tells(c) THEN lost \ {call[c].dir} ELSE lost
  /\ turn' = NoCall
  /\ UNCHANGED <<timers, up, pool, handle, proc, bounds>>

-----------------------------------------------------------------------------
(***************************************************************************)
(* Events of the server's loop.                                            *)
(***************************************************************************)

TimerFires(c) ==
  /\ Settled
  /\ c \in timers
  /\ KillKernel(call[c].kern, "timeout", timers \ {c})
  /\ UNCHANGED <<fallbacks, up, bounds>>

\* The stdout 'data' handler.  A chunk is one response or one stray write.
Readable(k) == Settled /\ proc[k].out # <<>> /\ ~handle[k].dead
Arrived(k) == Append(handle[k].buf, Head(proc[k].out))
Read(k) == proc' = [proc EXCEPT ![k].out = Tail(@)]

\* Kept in the buffer: nobody is waiting and the parser does not look, or
\* stray output reads as a length larger than what has arrived.
KeepChunk(k) ==
  /\ Readable(k) /\ Read(k)
  /\ handle[k].pending = NoCall \/ Head(Arrived(k)) = Noise
  /\ handle' = [handle EXCEPT ![k].buf = Arrived(k)]
  /\ UNCHANGED <<call, server, registry, bounds>>

Deliver(k) ==
  /\ Readable(k) /\ Read(k)
  /\ handle[k].pending # NoCall
  /\ Head(Arrived(k)) # Noise
  /\ handle' = [handle EXCEPT ![k].buf = Tail(Arrived(k)), ![k].pending = NoCall]
  /\ Resolve(handle[k].pending, Head(Arrived(k)).kind, Head(Arrived(k)).from)
  /\ UNCHANGED <<fallbacks, up, registry, bounds>>

\* Stray output where a length is expected: not a number, or a number that
\* makes the payload something other than JSON.
Garbled(k) ==
  /\ Readable(k)
  /\ handle[k].pending # NoCall
  /\ Head(Arrived(k)) = Noise
  /\ KillKernel(k, "reset", timers)
  /\ UNCHANGED <<fallbacks, up, bounds>>

\* Stray output that reads as a length whose payload happens to be JSON, by
\* itself or with what follows it: some result.  The rest is left over, of the
\* chunk it ends in too.
Rests(arrived) == {part \o SubSeq(arrived, n, Len(arrived)) :
                     part \in {<<>>, <<Noise>>}, n \in 2..(Len(arrived) + 1)}

Misread(k) ==
  /\ Readable(k) /\ Read(k)
  /\ handle[k].pending # NoCall
  /\ Head(Arrived(k)) = Noise
  /\ \E rest \in Rests(Arrived(k)) :
       handle' = [handle EXCEPT ![k].pending = NoCall, ![k].buf = rest]
  /\ \E kind \in FrameKinds : Resolve(handle[k].pending, kind, NoCall)
  /\ UNCHANGED <<fallbacks, up, registry, bounds>>

\* The JSON is `null': reading its fields is an exception.
ReadsNull(k) ==
  /\ Readable(k)
  /\ handle[k].pending # NoCall
  /\ Head(Arrived(k)) = Noise
  /\ Dies

\* Node reaps the process; its stdin is destroyed, its stdout still drains.
Reap(k) ==
  /\ Settled
  /\ proc[k].at = "exited"
  /\ proc' = [proc EXCEPT ![k].at = "reaped"]
  /\ UNCHANGED <<call, server, registry, handle, bounds>>

\* 'close': the process is gone and its pipes are drained.  A background
\* process that inherited them delays it, for ever if it never ends.
Close(k) ==
  /\ Settled
  /\ proc[k].at = "reaped" /\ proc[k].out = <<>>
  /\ proc' = [proc EXCEPT ![k].at = "closed"]
  /\ Retire(k, "died", timers)
  /\ UNCHANGED <<fallbacks, up, resetPending, bounds>>

\* 'error': the process could not be started.  Runs before any other event.
SpawnError(k) ==
  /\ up /\ turn = NoCall
  /\ proc[k].at = "failed"
  /\ proc' = [proc EXCEPT ![k].at = "reaped"]
  /\ Retire(k, "spawn error", timers)
  /\ UNCHANGED <<fallbacks, up, resetPending, bounds>>

-----------------------------------------------------------------------------
(***************************************************************************)
(* The kernel process: python_kernel.py and the code it runs.              *)
(***************************************************************************)
Outside == UNCHANGED <<call, server, registry, handle>>

\* Run the oldest request to its end and write the framed response.
KernelReply(k) ==
  /\ proc[k].at = "alive" /\ proc[k].in # <<>>
  /\ \E kind \in ExitKinds :
       proc' = [proc EXCEPT ![k].in = Tail(@),
                            ![k].out = Append(@, Frame(Head(proc[k].in), kind))]
  /\ Outside /\ UNCHANGED bounds

\* User code starts a process that inherits the kernel's stdout pipe: only
\* sys.stdout is redirected, the descriptor is the protocol stream.
StartWriter(k) ==
  /\ proc[k].at = "alive" /\ proc[k].in # <<>>
  /\ noises < MaxNoise
  /\ ~proc[k].writer
  /\ proc' = [proc EXCEPT ![k].writer = TRUE]
  /\ Outside /\ UNCHANGED bounds

\* The writer may outlive the kernel.  A dead handle parses nothing.
StrayWrite(k) ==
  /\ proc[k].at \in {"alive", "exited", "reaped"} /\ proc[k].writer
  /\ ~handle[k].dead
  /\ noises < MaxNoise
  /\ noises' = noises + 1
  /\ proc' = [proc EXCEPT ![k].out = Append(@, Noise)]
  /\ Outside /\ UNCHANGED crashes

\* The interpreter dies: os._exit, a segmentation fault, the OOM killer.
KernelCrash(k) ==
  /\ proc[k].at = "alive"
  /\ crashes < MaxCrashes
  /\ crashes' = crashes + 1
  /\ proc' = [proc EXCEPT ![k].at = "exited", ![k].in = <<>>]
  /\ Outside /\ UNCHANGED noises

-----------------------------------------------------------------------------
Chain(c) == RunOnce(c) \/ Lookup(c) \/ Refuse(c) \/ Post(c)
            \/ PostBrokenPipe(c) \/ Retry(c) \/ Finish(c)
Waits(c) == MakeTemp(c) \/ Spawn(c) \/ Raises(c)
Data(k) == KeepChunk(k) \/ Deliver(k) \/ Garbled(k) \/ Misread(k) \/ ReadsNull(k)
Process(k) == KernelReply(k) \/ StartWriter(k) \/ StrayWrite(k) \/ KernelCrash(k)

Next ==
  \/ \E c \in Calls : Arrive(c) \/ Chain(c) \/ Waits(c) \/ TimerFires(c)
  \/ \E k \in Kernels : Data(k) \/ Reap(k) \/ Close(k) \/ SpawnError(k) \/ Process(k)

Spec == Init /\ [][Next]_vars

\* The event loop runs a ready promise chain, a finished mkdtemp or probe, an
\* expired timer and a queued nextTick callback.  Nothing is assumed of user
\* code, of kernel processes or of the 'data' and 'close' events.
Fairness ==
  /\ \A c \in Calls : WF_vars(Chain(c)) /\ WF_vars(Waits(c)) /\ WF_vars(TimerFires(c))
  /\ \A k \in Kernels : WF_vars(SpawnError(k))

FairSpec == Spec /\ Fairness

-----------------------------------------------------------------------------
(***************************************************************************)
(* Properties.                                                             *)
(***************************************************************************)

\* A call waits exactly while a live handle holds its resolver: no promise is
\* dropped by a kill, a close, an error or a second request, and no handle
\* resolves a call that is gone.
NoCallIsDropped ==
  /\ \A c \in Calls : call[c].pc = "waiting" => handle[call[c].kern].pending = c
  /\ \A k \in Kernels : handle[k].pending # NoCall =>
       /\ ~handle[k].dead
       /\ call[handle[k].pending].pc = "waiting"
       /\ call[handle[k].pending].kern = k

\* A timer is armed exactly while its call's kernel works on it: the timer of an
\* answered call never kills the kernel under a later call, and no call waits
\* for user code without a limit.
TimerGuardsItsCall ==
  /\ \A c \in timers : handle[call[c].kern].pending = c
  /\ \A c \in Calls : call[c].pc = "waiting" => c \in timers

\* A call that was taken up is moved on by the code itself, whatever user code
\* does: its chain runs, the end of its mkdtemp or probe will resume it, or its
\* timer will end its wait.
CallsAreDriven ==
  /\ \A c \in Calls : call[c].pc \notin {"idle", "done"} =>
       \/ turn = c
       \/ call[c].pc \in {"mkdtemp", "probing"}
       \/ call[c].pc = "waiting" /\ c \in timers /\ ~handle[call[c].kern].dead
  /\ turn # NoCall => call[turn].pc \in {"runOnce", "lookup", "post", "resolved"}

\* How far a call is from its answer: two attempts of so many stages.
Stage == [idle |-> 8, runOnce |-> 7, mkdtemp |-> 6, lookup |-> 5, probing |-> 4,
          post |-> 3, waiting |-> 2, resolved |-> 1, done |-> 0]
StepsLeft(c) == 8 * (2 - call[c].attempt) + Stage[call[c].pc]

\* "Retry once": whatever happens to a call brings it nearer to its answer, so
\* that its code is sent to a kernel at most twice.
CallsOnlyAdvance ==
  [][\A c \in Calls :
       call'[c] # call[c] => StepsLeft(c)' \in 0..(StepsLeft(c) - 1)]_vars

\* What is registered can be used: a live handle made for that directory.
PoolIsLive ==
  \A d \in AllDirs :
    pool[d] # NoKernel => ~handle[pool[d]].dead /\ handle[pool[d]].dir = d

\* A call answered by a kernel whose stdout only the protocol uses was
\* answered with the response to its own request.
OwnAnswer ==
  \A c \in Calls :
    /\ call[c].pc \in {"resolved", "done"}
    /\ call[c].kind \in FrameKinds
    /\ ~proc[call[c].kern].writer
    => call[c].from = c

\* Every kernel that can still serve is registered: a later call finds its
\* state and the exit handler can kill it.  Holds for a serial client.
NoOrphan ==
  \A k \in Kernels :
    handle[k].dir # NoDir /\ ~handle[k].dead => pool[handle[k].dir] = k

\* "One kernel per cwd, lives for the session": no two kernel handles of one
\* directory are usable at a time.
OneKernelPerCwd ==
  \A j, k \in Kernels :
    /\ j # k /\ handle[j].dir # NoDir /\ handle[j].dir = handle[k].dir
    => handle[j].dead \/ handle[k].dead

Finishes(c) == call[c].pc # "done" /\ call'[c].pc = "done"

\* An answer from user code on a directory whose kernel was lost since the
\* client was last told says so ("stderr will say kernel reset").
LossIsTold ==
  [][\A c \in Calls :
       Finishes(c) /\ call'[c].kind \in FrameKinds /\ call[c].dir \in lost
       => call'[c].notice]_vars

\* A notice is never false: "prior state lost" is said only of a kernel that
\* has not answered another call yet.  Holds for a serial client.
NoticeIsTrue ==
  [][\A c \in Calls :
       Finishes(c) /\ call'[c].notice
       => \A o \in Calls : call[o].pc = "done" => call[o].kern # call[c].kern]_vars

\* Whatever user code, kernels and the client do, a request that arrived is
\* answered, or the whole server is gone.
EveryCallAnswered ==
  \A c \in Calls : call[c].pc # "idle" ~> (call[c].pc = "done" \/ ~up)

=============================================================================
