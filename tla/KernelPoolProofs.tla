-------------------------- MODULE KernelPoolProofs --------------------------
(***************************************************************************)
(* Proofs about KernelPool, for every number of calls, directories and     *)
(* kernels, for concurrent and serial clients, with any number of crashes  *)
(* and stray writes.                                                       *)
(***************************************************************************)
EXTENDS KernelPool, SequenceTheorems, TLAPS

\* A kernel that was not spawned has a handle nobody has touched.
UnbornIsFresh ==
  \A k \in Kernels : proc[k].at = "unborn" =>
    /\ ~handle[k].dead
    /\ handle[k].pending = NoCall
    /\ handle[k].dir = NoDir
    /\ handle[k].buf = <<>>
    /\ proc[k].in = <<>>
    /\ proc[k].out = <<>>
    /\ ~proc[k].writer

\* A call past runOnce has a directory; past the lookup it has a kernel that
\* was spawned.
CallIsPlaced ==
  \A c \in Calls :
    /\ call[c].pc \in {"lookup", "probing", "post", "waiting", "resolved"}
       => call[c].dir \in AllDirs
    /\ call[c].pc \in {"post", "waiting", "resolved"}
       => call[c].kern \in Kernels /\ handle[call[c].kern].dir # NoDir

\* Armed timers belong to waiting calls.
TimersWait == \A c \in timers : call[c].pc = "waiting"

IInv == TypeOK /\ NoCallIsDropped /\ PoolIsLive /\ UnbornIsFresh /\ CallIsPlaced /\ TimersWait

-----------------------------------------------------------------------------
(***************************************************************************)
(* The three shapes of step that leave most of the state alone.            *)
(***************************************************************************)

LEMMA PendingIsCall ==
  ASSUME TypeOK, NEW k \in Kernels
  PROVE  handle[k].pending \in Calls \cup {NoCall}
<1>1. handle[k] \in HandleState
  BY DEF TypeOK
<1>2. QED
  BY <1>1 DEF HandleState

\* What an update of one record of a typed function does.
LEMMA CallUpdate ==
  ASSUME TypeOK, NEW c \in Calls, NEW r \in CallState, call' = [call EXCEPT ![c] = r]
  PROVE  /\ call' \in [Calls -> CallState]
         /\ call'[c] = r
         /\ \A o \in Calls \ {c} : call'[o] = call[o]
BY DEF TypeOK

LEMMA HandleUpdate ==
  ASSUME TypeOK, NEW k \in Kernels, NEW h \in HandleState,
         handle' = [handle EXCEPT ![k] = h]
  PROVE  /\ handle' \in [Kernels -> HandleState]
         /\ handle'[k] = h
         /\ \A j \in Kernels \ {k} : handle'[j] = handle[j]
BY DEF TypeOK

LEMMA ProcUpdate ==
  ASSUME TypeOK, NEW k \in Kernels, NEW p \in ProcState,
         proc' = [proc EXCEPT ![k] = p]
  PROVE  /\ proc' \in [Kernels -> ProcState]
         /\ proc'[k] = p
         /\ \A j \in Kernels \ {k} : proc'[j] = proc[j]
BY DEF TypeOK

\* A call resolved by Resolve: its new record.
LEMMA ResolvedCall ==
  ASSUME TypeOK, NEW c \in Calls,
         NEW kind \in FrameKinds \cup {"timeout", "reset", "died", "spawn error"},
         NEW from \in Calls \cup {NoCall}, Resolve(c, kind, from)
  PROVE  /\ call' \in [Calls -> CallState]
         /\ call'[c] = [call[c] EXCEPT !.pc = "resolved", !.kind = kind, !.from = from]
         /\ call'[c].pc = "resolved" /\ call'[c].kind = kind /\ call'[c].from = from
         /\ call'[c].kern = call[c].kern /\ call'[c].dir = call[c].dir
         /\ \A o \in Calls \ {c} : call'[o] = call[o]
         /\ timers' = timers \ {c} /\ turn' = c
<1> DEFINE r == [call[c] EXCEPT !.pc = "resolved", !.kind = kind, !.from = from]
<1>1. call[c] \in CallState
  BY DEF TypeOK
<1>2. r \in CallState
  BY <1>1 DEF CallState
<1>3. call' = [call EXCEPT ![c] = r]
  BY DEF Resolve, TypeOK
<1>4. /\ r.pc = "resolved" /\ r.kind = kind /\ r.from = from
      /\ r.kern = call[c].kern /\ r.dir = call[c].dir
  BY <1>1 DEF CallState
<1>5. timers' = timers \ {c} /\ turn' = c
  BY DEF Resolve
<1> HIDE DEF r
<1>6. QED
  BY <1>2, <1>3, <1>4, <1>5, CallUpdate DEF r

\* A step of the processes keeps the invariant: nothing it reads but whether
\* a kernel was born depends on them.
LEMMA ProcStep ==
  ASSUME IInv,
         UNCHANGED <<call, turn, timers, fallbacks, registry, handle>>,
         up' \in BOOLEAN, crashes' \in Nat, noises' \in Nat,
         proc' \in [Kernels -> ProcState],
         \A k \in Kernels : proc'[k].at = "unborn" => proc'[k] = proc[k]
  PROVE  IInv'
<1> USE DEF IInv, registry
<1>1. TypeOK'
  BY DEF TypeOK
<1>2. NoCallIsDropped' /\ PoolIsLive' /\ CallIsPlaced' /\ TimersWait'
  BY DEF NoCallIsDropped, PoolIsLive, CallIsPlaced, TimersWait
<1>3. UnbornIsFresh'
  BY DEF UnbornIsFresh
<1>4. QED
  BY <1>1, <1>2, <1>3

\* A step of one call's chain that neither starts nor ends a wait keeps it.
LEMMA CallStep ==
  ASSUME IInv, NEW c \in Calls,
         call' \in [Calls -> CallState],
         \A o \in Calls \ {c} : call'[o] = call[o],
         call[c].pc # "waiting", call'[c].pc # "waiting",
         call'[c].pc \in {"lookup", "probing", "post", "resolved"}
           => call'[c].dir \in AllDirs,
         call'[c].pc \in {"post", "resolved"}
           => call'[c].kern \in Kernels /\ handle[call'[c].kern].dir # NoDir,
         turn' \in Calls \cup {NoCall}, fallbacks' \in Nat,
         resetPending' \subseteq AllDirs, lost' \subseteq AllDirs,
         UNCHANGED <<timers, up, pool, handle, proc, bounds>>
  PROVE  IInv'
<1> USE DEF IInv, bounds
<1>1. TypeOK'
  BY DEF TypeOK
<1>2. NoCallIsDropped'
  <2>1. \A o \in Calls : call'[o].pc = "waiting" => handle'[call'[o].kern].pending = o
    BY DEF NoCallIsDropped
  <2>2. ASSUME NEW k \in Kernels, handle'[k].pending # NoCall
        PROVE  /\ ~handle'[k].dead
               /\ call'[handle'[k].pending].pc = "waiting"
               /\ call'[handle'[k].pending].kern = k
    <3>1. handle[k].pending \in Calls \ {c}
      BY <2>2, PendingIsCall DEF NoCallIsDropped
    <3>2. QED
      BY <2>2, <3>1 DEF NoCallIsDropped
  <2>3. QED
    BY <2>1, <2>2 DEF NoCallIsDropped
<1>3. PoolIsLive' /\ UnbornIsFresh'
  BY DEF PoolIsLive, UnbornIsFresh
<1>4. CallIsPlaced'
  BY DEF CallIsPlaced
<1>5. TimersWait'
  BY DEF TimersWait, TypeOK
<1>6. QED
  BY <1>1, <1>2, <1>3, <1>4, <1>5

\* A handle's pending call is answered: its resolver and its timer go away.
LEMMA ResolveStep ==
  ASSUME IInv, NEW k \in Kernels, NEW kind \in FrameKinds,
         NEW from \in Calls \cup {NoCall}, NEW buf \in Seq(Chunks),
         handle[k].pending # NoCall,
         handle' = [handle EXCEPT ![k].buf = buf, ![k].pending = NoCall],
         Resolve(handle[k].pending, kind, from),
         Read(k), proc[k].out # <<>>,
         UNCHANGED <<fallbacks, up, registry, bounds>>
  PROVE  IInv'
<1> DEFINE c == handle[k].pending
<1> USE DEF IInv, registry, bounds
<1>1. c \in Calls /\ call[c].pc = "waiting" /\ call[c].kern = k /\ ~handle[k].dead
  BY PendingIsCall DEF NoCallIsDropped
<1> HIDE DEF c
<1>2. Resolve(c, kind, from)
  BY DEF c
<1>3. call' \in [Calls -> CallState] /\ timers' = timers \ {c} /\ turn' = c
  BY <1>1, <1>2, ResolvedCall
<1>4. /\ call'[c].pc = "resolved" /\ call'[c].kern = k /\ call'[c].dir = call[c].dir
      /\ \A o \in Calls \ {c} : call'[o] = call[o]
  BY <1>1, <1>2, ResolvedCall
<1>5. handle[k] \in HandleState /\ proc[k] \in ProcState
  BY DEF TypeOK
<1>6. /\ handle' \in [Kernels -> HandleState]
      /\ handle'[k].pending = NoCall /\ handle'[k].dead = handle[k].dead
      /\ handle'[k].dir = handle[k].dir
      /\ \A j \in Kernels \ {k} : handle'[j] = handle[j]
  <2> DEFINE h == [handle[k] EXCEPT !.buf = buf, !.pending = NoCall]
  <2>1. /\ h \in HandleState
        /\ h.pending = NoCall /\ h.dead = handle[k].dead /\ h.dir = handle[k].dir
    BY <1>5 DEF HandleState
  <2>2. handle' = [handle EXCEPT ![k] = h]
    BY DEF TypeOK
  <2> HIDE DEF h
  <2>3. QED
    BY <2>1, <2>2, HandleUpdate
<1>7. /\ proc' \in [Kernels -> ProcState]
      /\ proc'[k].at = proc[k].at
      /\ \A j \in Kernels \ {k} : proc'[j] = proc[j]
  <2> DEFINE p == [proc[k] EXCEPT !.out = Tail(@)]
  <2>1. Tail(proc[k].out) \in Seq(Chunks)
    BY <1>5 DEF ProcState
  <2>2. p \in ProcState /\ p.at = proc[k].at
    BY <1>5, <2>1 DEF ProcState
  <2>3. proc' = [proc EXCEPT ![k] = p]
    BY DEF Read, TypeOK
  <2> HIDE DEF p
  <2>4. QED
    BY <2>2, <2>3, ProcUpdate
<1>8. proc[k].at # "unborn"
  BY DEF UnbornIsFresh
<1>9. TypeOK'
  BY <1>1, <1>3, <1>6, <1>7 DEF TypeOK
<1>10. NoCallIsDropped'
  <2>1. \A o \in Calls : call'[o].pc = "waiting" => handle'[call'[o].kern].pending = o
    BY <1>1, <1>4, <1>6 DEF NoCallIsDropped, CallIsPlaced, c
  <2>2. ASSUME NEW j \in Kernels, handle'[j].pending # NoCall
        PROVE  /\ ~handle'[j].dead
               /\ call'[handle'[j].pending].pc = "waiting"
               /\ call'[handle'[j].pending].kern = j
    <3>1. j # k /\ handle'[j] = handle[j]
      BY <1>6, <2>2
    <3>2. handle[j].pending \in Calls \ {c}
      BY <1>1, <2>2, <3>1, PendingIsCall DEF NoCallIsDropped
    <3>3. QED
      BY <1>4, <2>2, <3>1, <3>2 DEF NoCallIsDropped
  <2>3. QED
    BY <2>1, <2>2 DEF NoCallIsDropped
<1>11. PoolIsLive'
  BY <1>6 DEF PoolIsLive, TypeOK
<1>12. UnbornIsFresh'
  BY <1>6, <1>7, <1>8 DEF UnbornIsFresh
<1>13. CallIsPlaced'
  BY <1>1, <1>4, <1>6 DEF CallIsPlaced
<1>14. TimersWait'
  BY <1>3, <1>4 DEF TimersWait, TypeOK
<1>15. QED
  BY <1>9, <1>10, <1>11, <1>12, <1>13, <1>14

\* A handle dies: what it had pending is resolved, and it is unregistered.
LEMMA RetireStep ==
  ASSUME IInv, NEW k \in Kernels,
         NEW kind \in {"timeout", "reset", "died", "spawn error"},
         NEW armed, armed \subseteq timers,
         Retire(k, kind, armed),
         proc[k].at # "unborn",
         proc' \in [Kernels -> ProcState],
         \A j \in Kernels : proc'[j].at = "unborn" => proc'[j] = proc[j],
         resetPending' \subseteq AllDirs,
         UNCHANGED <<fallbacks, up, bounds>>
  PROVE  IInv'
<1> DEFINE c == handle[k].pending
<1> USE DEF IInv, bounds
<1>1. c \in Calls \cup {NoCall}
  BY PendingIsCall
<1>2. /\ handle' \in [Kernels -> HandleState]
      /\ handle'[k].dead = TRUE /\ handle'[k].pending = NoCall
      /\ handle'[k].dir = handle[k].dir
      /\ \A j \in Kernels \ {k} : handle'[j] = handle[j]
  <2> DEFINE h == [handle[k] EXCEPT !.dead = TRUE, !.pending = NoCall, !.buf = <<>>]
  <2>1. handle[k] \in HandleState
    BY DEF TypeOK
  <2>2. /\ h \in HandleState
        /\ h.dead = TRUE /\ h.pending = NoCall /\ h.dir = handle[k].dir
    <3>1. <<>> \in Seq(Chunks)
      BY EmptySeq
    <3>2. QED
      BY <2>1, <3>1 DEF HandleState
  <2>3. handle' = [handle EXCEPT ![k] = h]
    BY DEF Retire, TypeOK
  <2> HIDE DEF h
  <2>4. QED
    BY <2>2, <2>3, HandleUpdate
<1>3. /\ pool' \in [AllDirs -> Kernels \cup {NoKernel}] /\ lost' \subseteq AllDirs
      /\ \A d \in AllDirs : pool'[d] # NoKernel => pool'[d] = pool[d] /\ pool[d] # k
  <2>1. pool \in [AllDirs -> Kernels \cup {NoKernel}] /\ lost \subseteq AllDirs
    BY DEF TypeOK
  <2>2. CASE Registered(k)
    <3>1. /\ handle[k].dir \in AllDirs
          /\ pool' = [pool EXCEPT ![handle[k].dir] = NoKernel]
          /\ lost' \subseteq lost \cup {handle[k].dir}
      BY <2>2 DEF Retire, Unregister, Registered
    <3>2. \A d \in AllDirs : pool[d] = k => d = handle[k].dir
      BY IdentityAssumption DEF PoolIsLive
    <3>3. QED
      BY <2>1, <3>1, <3>2
  <2>3. CASE ~Registered(k)
    <3>1. pool' = pool /\ lost' = lost
      BY <2>3 DEF Retire, Unregister
    <3>2. ASSUME NEW d \in AllDirs, pool[d] = k
          PROVE  FALSE
      <4>1. handle[k].dir = d
        BY <3>2, IdentityAssumption DEF PoolIsLive
      <4>2. QED
        BY <2>3, <3>2, <4>1 DEF Registered
    <3>3. QED
      BY <2>1, <3>1, <3>2
  <2>4. QED
    BY <2>2, <2>3
<1>4. /\ call' \in [Calls -> CallState]
      /\ timers' \subseteq timers /\ c \notin timers'
      /\ turn' \in Calls \cup {NoCall}
      /\ \A o \in Calls \ {c} : call'[o] = call[o]
      /\ c # NoCall => /\ call'[c].pc = "resolved" /\ call'[c].kern = call[c].kern
                       /\ call'[c].dir = call[c].dir
  <2>1. CASE c = NoCall
    BY <2>1, IdentityAssumption DEF Retire, TypeOK
  <2>2. CASE c # NoCall
    <3>1. Resolve(c, kind, NoCall)
      BY <2>2 DEF Retire
    <3>2. c \in Calls
      BY <1>1, <2>2
    <3> HIDE DEF c
    <3>3. QED
      BY <3>1, <3>2, ResolvedCall DEF TypeOK
  <2>3. QED
    BY <2>1, <2>2
<1>5. c # NoCall => call[c].pc = "waiting" /\ call[c].kern = k
  BY DEF NoCallIsDropped
<1> HIDE DEF c
<1>6. TypeOK'
  BY <1>2, <1>3, <1>4 DEF TypeOK
<1>7. NoCallIsDropped'
  <2>1. ASSUME NEW o \in Calls, call'[o].pc = "waiting"
        PROVE  handle'[call'[o].kern].pending = o
    <3>1. o # c /\ call'[o] = call[o]
      BY <1>1, <1>4, <2>1, IdentityAssumption
    <3>2. call[o].kern \in Kernels /\ handle[call[o].kern].pending = o
      BY <2>1, <3>1 DEF NoCallIsDropped, CallIsPlaced
    <3>3. call[o].kern # k
      BY <3>1, <3>2 DEF c
    <3>4. QED
      BY <1>2, <3>1, <3>2, <3>3
  <2>2. ASSUME NEW j \in Kernels, handle'[j].pending # NoCall
        PROVE  /\ ~handle'[j].dead
               /\ call'[handle'[j].pending].pc = "waiting"
               /\ call'[handle'[j].pending].kern = j
    <3>1. j # k /\ handle'[j] = handle[j]
      BY <1>2, <2>2
    <3>2. handle[j].pending \in Calls \ {c}
      BY <1>5, <2>2, <3>1, PendingIsCall DEF NoCallIsDropped
    <3>3. call'[handle[j].pending] = call[handle[j].pending]
      BY <1>4, <3>2
    <3>4. /\ handle[j].dead = FALSE /\ call[handle[j].pending].pc = "waiting"
          /\ call[handle[j].pending].kern = j
      <4>1. handle[j] \in HandleState
        BY DEF TypeOK
      <4>2. handle[j].dead \in BOOLEAN
        BY <4>1 DEF HandleState
      <4>3. QED
        BY <2>2, <3>1, <4>2 DEF NoCallIsDropped
    <3>5. QED
      BY <3>1, <3>3, <3>4
  <2>3. QED
    BY <2>1, <2>2 DEF NoCallIsDropped
<1>8. PoolIsLive'
  <2>1. ASSUME NEW d \in AllDirs, pool'[d] # NoKernel
        PROVE  ~handle'[pool'[d]].dead /\ handle'[pool'[d]].dir = d
    <3>1. pool'[d] = pool[d] /\ pool[d] \in Kernels \ {k}
      BY <1>3, <2>1
    <3>2. handle'[pool[d]] = handle[pool[d]]
      BY <1>2, <3>1
    <3>3. QED
      BY <2>1, <3>1, <3>2 DEF PoolIsLive
  <2>2. QED
    BY <2>1 DEF PoolIsLive
<1>9. UnbornIsFresh'
  <2>1. \A j \in Kernels : proc'[j].at = "unborn" => j # k /\ handle'[j] = handle[j]
    BY <1>2
  <2>2. QED
    BY <2>1 DEF UnbornIsFresh
<1>10. CallIsPlaced'
  <2>1. ASSUME NEW o \in Calls
        PROVE  /\ call'[o].kern = call[o].kern /\ call'[o].dir = call[o].dir
               /\ \/ call'[o].pc = call[o].pc
                  \/ call'[o].pc = "resolved" /\ call[o].pc = "waiting"
    <3>1. CASE o = c
      BY <1>4, <1>5, <3>1, IdentityAssumption
    <3>2. CASE o # c
      <4>1. call'[o] = call[o]
        BY <1>4, <3>2
      <4>2. QED
        BY <4>1
    <3>3. QED
      BY <3>1, <3>2
  <2>2. \A j \in Kernels : handle'[j].dir = handle[j].dir
    BY <1>2
  <2>3. \A o \in Calls :
          /\ call'[o].pc \in {"lookup", "probing", "post", "waiting", "resolved"}
             => call[o].pc \in {"lookup", "probing", "post", "waiting", "resolved"}
          /\ call'[o].pc \in {"post", "waiting", "resolved"}
             => call[o].pc \in {"post", "waiting", "resolved"}
    BY <2>1
  <2>4. ASSUME NEW o \in Calls,
               call'[o].pc \in {"post", "waiting", "resolved"}
        PROVE  call'[o].kern \in Kernels /\ handle'[call'[o].kern].dir # NoDir
    <3>1. call[o].kern \in Kernels /\ handle[call[o].kern].dir # NoDir
      BY <2>3, <2>4 DEF CallIsPlaced
    <3>2. QED
      BY <2>1, <2>2, <3>1
  <2>5. ASSUME NEW o \in Calls,
               call'[o].pc \in {"lookup", "probing", "post", "waiting", "resolved"}
        PROVE  call'[o].dir \in AllDirs
    BY <2>1, <2>3, <2>5 DEF CallIsPlaced
  <2>6. QED
    BY <2>4, <2>5 DEF CallIsPlaced
<1>11. TimersWait'
  BY <1>4 DEF TimersWait, TypeOK
<1>12. QED
  BY <1>6, <1>7, <1>8, <1>9, <1>10, <1>11

-----------------------------------------------------------------------------
(***************************************************************************)
(* The invariant is inductive: one lemma per group of actions.             *)
(***************************************************************************)

LEMMA InitIInv == Init => IInv
<1> SUFFICES ASSUME Init PROVE IInv
  OBVIOUS
<1>1. TypeOK
  BY EmptySeq DEF Init, TypeOK, CallState, HandleState, ProcState
<1>2. NoCallIsDropped /\ UnbornIsFresh /\ CallIsPlaced /\ TimersWait
  BY DEF Init, NoCallIsDropped, UnbornIsFresh, CallIsPlaced, TimersWait
<1>3. PoolIsLive
  BY DEF Init, PoolIsLive
<1>4. QED
  BY <1>1, <1>2, <1>3 DEF IInv

\* Arrive, RunOnce, MakeTemp, Lookup, Raises, Refuse, Retry, Finish.
LEMMA ChainKeeps ==
  ASSUME IInv, NEW c \in Calls,
         Arrive(c) \/ RunOnce(c) \/ MakeTemp(c) \/ Lookup(c) \/ Raises(c)
         \/ Refuse(c) \/ Retry(c) \/ Finish(c)
  PROVE  IInv'
<1> USE DEF IInv
<1>0. call[c] \in CallState
  BY DEF TypeOK
<1>1. CASE Arrive(c)
  <2>1. PICK d \in Dirs \cup {NoDir} :
          call' = [call EXCEPT ![c].pc = "runOnce", ![c].asked = d]
    BY <1>1 DEF Arrive
  <2> DEFINE r == [call[c] EXCEPT !.pc = "runOnce", !.asked = d]
  <2>2. r \in CallState /\ r.pc = "runOnce"
    BY <1>0 DEF CallState
  <2>3. call' = [call EXCEPT ![c] = r]
    BY <2>1 DEF TypeOK
  <2> HIDE DEF r
  <2>4. /\ call' \in [Calls -> CallState] /\ call'[c].pc = "runOnce"
        /\ \A o \in Calls \ {c} : call'[o] = call[o]
    BY <2>2, <2>3, CallUpdate
  <2>5. /\ call[c].pc = "idle" /\ turn' = c
        /\ UNCHANGED <<timers, fallbacks, up, registry, handle, proc, bounds>>
    BY <1>1 DEF Arrive
  <2>6. QED
    BY <2>4, <2>5, CallStep DEF TypeOK, registry
<1>2. CASE RunOnce(c)
  <2>1. CASE call[c].asked # NoDir
    <3> DEFINE r == [call[c] EXCEPT !.pc = "lookup", !.dir = call[c].asked]
    <3>1. r \in CallState /\ r.pc = "lookup" /\ r.dir \in AllDirs
      BY <1>0, <2>1 DEF CallState, AllDirs
    <3>2. call' = [call EXCEPT ![c] = r]
      BY <1>2, <2>1 DEF RunOnce, TypeOK
    <3> HIDE DEF r
    <3>3. /\ call' \in [Calls -> CallState] /\ call'[c].pc = "lookup"
          /\ call'[c].dir \in AllDirs
          /\ \A o \in Calls \ {c} : call'[o] = call[o]
      BY <3>1, <3>2, CallUpdate
    <3>4. /\ call[c].pc = "runOnce" /\ turn' \in Calls \cup {NoCall}
          /\ UNCHANGED <<timers, fallbacks, up, registry, handle, proc, bounds>>
      BY <1>2, <2>1 DEF RunOnce, Running, TypeOK
    <3>5. QED
      BY <3>3, <3>4, CallStep DEF TypeOK, registry
  <2>2. CASE call[c].asked = NoDir
    <3> DEFINE r == [call[c] EXCEPT !.pc = "mkdtemp"]
    <3>1. r \in CallState /\ r.pc = "mkdtemp"
      BY <1>0 DEF CallState
    <3>2. call' = [call EXCEPT ![c] = r]
      BY <1>2, <2>2 DEF RunOnce, TypeOK
    <3> HIDE DEF r
    <3>3. /\ call' \in [Calls -> CallState] /\ call'[c].pc = "mkdtemp"
          /\ \A o \in Calls \ {c} : call'[o] = call[o]
      BY <3>1, <3>2, CallUpdate
    <3>4. /\ call[c].pc = "runOnce" /\ turn' \in Calls \cup {NoCall}
          /\ UNCHANGED <<timers, fallbacks, up, registry, handle, proc, bounds>>
      BY <1>2, <2>2 DEF RunOnce, Running, TypeOK
    <3>5. QED
      BY <3>3, <3>4, CallStep DEF TypeOK, registry
  <2>3. QED
    BY <2>1, <2>2
<1>3. CASE MakeTemp(c)
  <2>1. PICK d \in Temps : call' = [call EXCEPT ![c].pc = "lookup", ![c].dir = d]
    BY <1>3 DEF MakeTemp
  <2> DEFINE r == [call[c] EXCEPT !.pc = "lookup", !.dir = d]
  <2>2. r \in CallState /\ r.pc = "lookup" /\ r.dir \in AllDirs
    BY <1>0 DEF CallState, AllDirs
  <2>3. call' = [call EXCEPT ![c] = r]
    BY <2>1 DEF TypeOK
  <2> HIDE DEF r
  <2>4. /\ call' \in [Calls -> CallState] /\ call'[c].pc = "lookup"
        /\ call'[c].dir \in AllDirs
        /\ \A o \in Calls \ {c} : call'[o] = call[o]
    BY <2>2, <2>3, CallUpdate
  <2>5. /\ call[c].pc = "mkdtemp" /\ turn' = c
        /\ UNCHANGED <<timers, fallbacks, up, registry, handle, proc, bounds>>
    BY <1>3 DEF MakeTemp
  <2>6. QED
    BY <2>4, <2>5, CallStep DEF TypeOK, registry
<1>4. CASE Lookup(c)
  <2>1. /\ call[c].pc = "lookup" /\ call[c].dir \in AllDirs
        /\ turn' \in Calls \cup {NoCall}
        /\ UNCHANGED <<timers, fallbacks, up, registry, handle, proc, bounds>>
    BY <1>4 DEF Lookup, Running, CallIsPlaced, TypeOK
  <2>2. CASE Usable(call[c].dir)
    <3> DEFINE r == [call[c] EXCEPT !.pc = "post", !.kern = pool[call[c].dir]]
    <3>1. /\ pool[call[c].dir] \in Kernels
          /\ handle[pool[call[c].dir]].dir = call[c].dir
      BY <2>1, <2>2 DEF Usable, PoolIsLive, TypeOK
    <3>2. /\ r \in CallState /\ r.pc = "post" /\ r.dir = call[c].dir
          /\ r.kern = pool[call[c].dir]
      BY <1>0, <3>1 DEF CallState
    <3>3. call' = [call EXCEPT ![c] = r]
      BY <1>4, <2>2 DEF Lookup, TypeOK
    <3> HIDE DEF r
    <3>4. /\ call' \in [Calls -> CallState] /\ call'[c].pc = "post"
          /\ call'[c].dir = call[c].dir /\ call'[c].kern = pool[call[c].dir]
          /\ \A o \in Calls \ {c} : call'[o] = call[o]
      BY <3>2, <3>3, CallUpdate
    <3>5. QED
      BY <2>1, <3>1, <3>4, CallStep, IdentityAssumption DEF TypeOK, registry
  <2>3. CASE ~Usable(call[c].dir)
    <3> DEFINE r == [call[c] EXCEPT !.pc = "probing"]
    <3>1. r \in CallState /\ r.pc = "probing" /\ r.dir = call[c].dir
      BY <1>0 DEF CallState
    <3>2. call' = [call EXCEPT ![c] = r]
      BY <1>4, <2>3 DEF Lookup, TypeOK
    <3> HIDE DEF r
    <3>3. /\ call' \in [Calls -> CallState] /\ call'[c].pc = "probing"
          /\ call'[c].dir = call[c].dir
          /\ \A o \in Calls \ {c} : call'[o] = call[o]
      BY <3>1, <3>2, CallUpdate
    <3>4. QED
      BY <2>1, <3>3, CallStep DEF TypeOK, registry
  <2>4. QED
    BY <2>2, <2>3
<1>5. CASE Raises(c)
  <2> DEFINE r == [call[c] EXCEPT !.pc = "done", !.kind = "raised"]
  <2>1. r \in CallState /\ r.pc = "done"
    BY <1>0 DEF CallState
  <2>2. call' = [call EXCEPT ![c] = r]
    BY <1>5 DEF Raises, TypeOK
  <2> HIDE DEF r
  <2>3. /\ call' \in [Calls -> CallState] /\ call'[c].pc = "done"
        /\ \A o \in Calls \ {c} : call'[o] = call[o]
    BY <2>1, <2>2, CallUpdate
  <2>4. /\ call[c].pc \in {"mkdtemp", "probing"}
        /\ UNCHANGED <<server, registry, handle, proc, bounds>>
    BY <1>5 DEF Raises
  <2>5. QED
    BY <2>3, <2>4, CallStep DEF TypeOK, registry, server
<1>6. CASE Refuse(c)
  <2> DEFINE kind == IF handle[call[c].kern].dead THEN "unavailable" ELSE "busy"
             had == call[c].dir \in resetPending
             r == [call[c] EXCEPT !.pc = "resolved", !.hadReset = had, !.kind = kind]
  <2>1. kind \in {"unavailable", "busy"} /\ had \in BOOLEAN
    OBVIOUS
  <2>2. call' = [call EXCEPT ![c] = r]
    BY <1>6 DEF Refuse, TypeOK
  <2> HIDE DEF kind, had
  <2>3. /\ r \in CallState /\ r.pc = "resolved" /\ r.dir = call[c].dir
        /\ r.kern = call[c].kern
    BY <1>0, <2>1 DEF CallState
  <2> HIDE DEF r
  <2>4. /\ call' \in [Calls -> CallState] /\ call'[c].pc = "resolved"
        /\ call'[c].dir = call[c].dir /\ call'[c].kern = call[c].kern
        /\ \A o \in Calls \ {c} : call'[o] = call[o]
    BY <2>2, <2>3, CallUpdate
  <2>5. /\ call[c].pc = "post"
        /\ UNCHANGED <<server, registry, handle, proc, bounds>>
    BY <1>6 DEF Refuse, Running
  <2>6. QED
    BY <2>4, <2>5, CallStep DEF TypeOK, registry, server, CallIsPlaced
<1>7. CASE Retry(c)
  <2> DEFINE n == call[c].attempt + 1
             r == [call[c] EXCEPT !.pc = "runOnce", !.attempt = n,
                                  !.kind = "none", !.from = NoCall]
  <2>1. n \in 1..2
    BY <1>0, <1>7 DEF Retry, Retries
  <2>2. call' = [call EXCEPT ![c] = r]
    BY <1>7 DEF Retry, TypeOK
  <2> HIDE DEF n
  <2>3. r \in CallState /\ r.pc = "runOnce"
    BY <1>0, <2>1 DEF CallState
  <2> HIDE DEF r
  <2>4. /\ call' \in [Calls -> CallState] /\ call'[c].pc = "runOnce"
        /\ \A o \in Calls \ {c} : call'[o] = call[o]
    BY <2>2, <2>3, CallUpdate
  <2>5. /\ call[c].pc = "resolved" /\ resetPending' \subseteq AllDirs
        /\ UNCHANGED <<server, pool, lost, handle, proc, bounds>>
    BY <1>7 DEF Retry, Running, Notice, TypeOK
  <2>6. QED
    BY <2>4, <2>5, CallStep DEF TypeOK, server
<1>8. CASE Finish(c)
  <2> DEFINE r == [call[c] EXCEPT !.pc = "done", !.notice = call[c].hadReset]
  <2>1. r \in CallState /\ r.pc = "done"
    BY <1>0 DEF CallState
  <2>2. call' = [call EXCEPT ![c] = r]
    BY <1>8 DEF Finish, TypeOK
  <2> HIDE DEF r
  <2>3. /\ call' \in [Calls -> CallState] /\ call'[c].pc = "done"
        /\ \A o \in Calls \ {c} : call'[o] = call[o]
    BY <2>1, <2>2, CallUpdate
  <2>4. /\ call[c].pc = "resolved" /\ turn' = NoCall
        /\ fallbacks' \in Nat
        /\ resetPending' \subseteq AllDirs /\ lost' \subseteq AllDirs
        /\ UNCHANGED <<timers, up, pool, handle, proc, bounds>>
    BY <1>8 DEF Finish, Running, Notice, TypeOK
  <2>5. QED
    BY <2>3, <2>4, CallStep DEF TypeOK
<1>9. QED
  BY <1>1, <1>2, <1>3, <1>4, <1>5, <1>6, <1>7, <1>8

\* The kernel of a new handle was not born before, so nothing names it yet.
LEMMA NewKernelIsUnborn ==
  ASSUME Unborn # {}
  PROVE  NewKernel \in Kernels /\ proc[NewKernel].at = "unborn"
<1>1. NewKernel \in Unborn
  BY DEF NewKernel
<1>2. QED
  BY <1>1 DEF Unborn

\* What Spawn does to the three records it writes.
LEMMA SpawnEffect ==
  ASSUME IInv, NEW c \in Calls, Spawn(c)
  PROVE  /\ call[c].pc = "probing" /\ call[c].dir \in AllDirs
         /\ NewKernel \in Kernels /\ proc[NewKernel].at = "unborn"
         /\ call' \in [Calls -> CallState]
         /\ call'[c].pc = "post" /\ call'[c].kern = NewKernel
         /\ call'[c].dir = call[c].dir /\ call'[c].kind = call[c].kind
         /\ \A o \in Calls \ {c} : call'[o] = call[o]
         /\ handle' \in [Kernels -> HandleState]
         /\ handle'[NewKernel] = [handle[NewKernel] EXCEPT !.dir = call[c].dir]
         /\ handle'[NewKernel].dir = call[c].dir
         /\ handle'[NewKernel].pending = handle[NewKernel].pending
         /\ handle'[NewKernel].dead = handle[NewKernel].dead
         /\ handle'[NewKernel].buf = handle[NewKernel].buf
         /\ \A k \in Kernels \ {NewKernel} : handle'[k] = handle[k]
         /\ proc' \in [Kernels -> ProcState]
         /\ proc'[NewKernel].at \in {"alive", "failed"}
         /\ proc'[NewKernel].in = proc[NewKernel].in
         /\ proc'[NewKernel].out = proc[NewKernel].out
         /\ proc'[NewKernel].writer = proc[NewKernel].writer
         /\ \A k \in Kernels \ {NewKernel} : proc'[k] = proc[k]
<1> DEFINE k == NewKernel
<1> USE DEF IInv
<1>1. k \in Kernels /\ proc[k].at = "unborn"
  BY NewKernelIsUnborn DEF Spawn
<1>2. call[c].pc = "probing" /\ call[c].dir \in AllDirs
  BY DEF Spawn, CallIsPlaced
<1>3. call[c] \in CallState /\ handle[k] \in HandleState /\ proc[k] \in ProcState
  BY <1>1 DEF TypeOK
<1>4. PICK how \in {"alive", "failed"} : proc' = [proc EXCEPT ![k].at = how]
  BY DEF Spawn
<1>5. /\ handle' = [handle EXCEPT ![k].dir = call[c].dir]
      /\ call' = [call EXCEPT ![c].pc = "post", ![c].kern = k]
  BY DEF Spawn
<1> HIDE DEF k
<1> DEFINE r == [call[c] EXCEPT !.pc = "post", !.kern = k]
           h == [handle[k] EXCEPT !.dir = call[c].dir]
           p == [proc[k] EXCEPT !.at = how]
<1>6. /\ r \in CallState /\ r.pc = "post" /\ r.kern = k /\ r.dir = call[c].dir
      /\ r.kind = call[c].kind
  BY <1>1, <1>3 DEF CallState
<1>7. /\ h \in HandleState /\ h.dir = call[c].dir /\ h.pending = handle[k].pending
      /\ h.dead = handle[k].dead /\ h.buf = handle[k].buf
  BY <1>2, <1>3 DEF HandleState
<1>8. /\ p \in ProcState /\ p.at \in {"alive", "failed"}
      /\ p.in = proc[k].in /\ p.out = proc[k].out /\ p.writer = proc[k].writer
  BY <1>3 DEF ProcState
<1>9. /\ call' = [call EXCEPT ![c] = r]
      /\ handle' = [handle EXCEPT ![k] = h]
      /\ proc' = [proc EXCEPT ![k] = p]
  BY <1>4, <1>5 DEF TypeOK
<1> HIDE DEF r, h, p
<1>10. /\ call' \in [Calls -> CallState] /\ call'[c] = r
       /\ \A o \in Calls \ {c} : call'[o] = call[o]
  BY <1>6, <1>9, CallUpdate
<1>11. /\ handle' \in [Kernels -> HandleState] /\ handle'[k] = h
       /\ \A j \in Kernels \ {k} : handle'[j] = handle[j]
  BY <1>1, <1>7, <1>9, HandleUpdate
<1>12. /\ proc' \in [Kernels -> ProcState] /\ proc'[k] = p
       /\ \A j \in Kernels \ {k} : proc'[j] = proc[j]
  BY <1>1, <1>8, <1>9, ProcUpdate
<1>13. handle'[k] = [handle[k] EXCEPT !.dir = call[c].dir]
  BY <1>11 DEF h
<1>14. QED
  BY <1>1, <1>2, <1>6, <1>7, <1>8, <1>10, <1>11, <1>12, <1>13 DEF k

LEMMA SpawnKeeps ==
  ASSUME IInv, NEW c \in Calls, Spawn(c)
  PROVE  IInv'
<1> DEFINE k == NewKernel
<1>1. /\ call[c].pc = "probing" /\ call[c].dir \in AllDirs
      /\ k \in Kernels /\ proc[k].at = "unborn"
      /\ call' \in [Calls -> CallState]
      /\ call'[c].pc = "post" /\ call'[c].kern = k /\ call'[c].dir = call[c].dir
      /\ \A o \in Calls \ {c} : call'[o] = call[o]
  BY SpawnEffect
<1>2. /\ handle' \in [Kernels -> HandleState]
      /\ handle'[k].dir = call[c].dir
      /\ handle'[k].pending = handle[k].pending /\ handle'[k].dead = handle[k].dead
      /\ \A j \in Kernels \ {k} : handle'[j] = handle[j]
  BY SpawnEffect
<1>3. /\ proc' \in [Kernels -> ProcState] /\ proc'[k].at \in {"alive", "failed"}
      /\ \A j \in Kernels \ {k} : proc'[j] = proc[j]
  BY SpawnEffect
<1>4. /\ pool' = [pool EXCEPT ![call[c].dir] = k]
      /\ turn' = c
      /\ UNCHANGED <<timers, fallbacks, up, resetPending, lost, bounds>>
  BY DEF Spawn
<1> HIDE DEF k
<1> USE DEF IInv, bounds
<1>5. /\ handle[k].pending = NoCall /\ ~handle[k].dead /\ handle[k].dir = NoDir
  BY <1>1 DEF UnbornIsFresh
<1>6. \A d \in AllDirs : pool[d] # k
  BY <1>1, <1>5, IdentityAssumption DEF PoolIsLive
<1>7. TypeOK'
  BY <1>1, <1>2, <1>3, <1>4 DEF TypeOK
<1>8. NoCallIsDropped'
  <2>1. ASSUME NEW o \in Calls, call'[o].pc = "waiting"
        PROVE  handle'[call'[o].kern].pending = o
    <3>1. o # c /\ call'[o] = call[o]
      BY <1>1, <2>1
    <3>2. call[o].kern \in Kernels \ {k} /\ handle[call[o].kern].pending = o
      BY <1>5, <2>1, <3>1, IdentityAssumption DEF NoCallIsDropped, CallIsPlaced
    <3>3. QED
      BY <1>2, <3>1, <3>2
  <2>2. ASSUME NEW j \in Kernels, handle'[j].pending # NoCall
        PROVE  /\ ~handle'[j].dead
               /\ call'[handle'[j].pending].pc = "waiting"
               /\ call'[handle'[j].pending].kern = j
    <3>1. j # k /\ handle'[j] = handle[j]
      BY <1>2, <1>5, <2>2
    <3>2. handle[j].pending \in Calls \ {c}
      BY <1>1, <2>2, <3>1, PendingIsCall DEF NoCallIsDropped
    <3>3. QED
      BY <1>1, <2>2, <3>1, <3>2 DEF NoCallIsDropped
  <2>3. QED
    BY <2>1, <2>2 DEF NoCallIsDropped
<1>9. PoolIsLive'
  <2>1. ASSUME NEW d \in AllDirs, pool'[d] # NoKernel
        PROVE  ~handle'[pool'[d]].dead /\ handle'[pool'[d]].dir = d
    <3>1. CASE d = call[c].dir
      BY <1>1, <1>2, <1>4, <1>5, <3>1 DEF TypeOK
    <3>2. CASE d # call[c].dir
      <4>1. pool'[d] = pool[d] /\ pool[d] \in Kernels \ {k}
        BY <1>4, <1>6, <2>1, <3>2 DEF TypeOK
      <4>2. handle'[pool[d]] = handle[pool[d]]
        BY <1>2, <4>1
      <4>3. QED
        BY <2>1, <4>1, <4>2 DEF PoolIsLive
    <3>3. QED
      BY <3>1, <3>2
  <2>2. QED
    BY <2>1 DEF PoolIsLive
<1>10. UnbornIsFresh'
  BY <1>2, <1>3 DEF UnbornIsFresh
<1>11. CallIsPlaced'
  <2>1. \A j \in Kernels : handle[j].dir # NoDir => handle'[j].dir # NoDir
    BY <1>1, <1>2, IdentityAssumption
  <2>2. QED
    BY <1>1, <1>2, <2>1, IdentityAssumption DEF CallIsPlaced
<1>12. TimersWait'
  BY <1>1, <1>4 DEF TimersWait, TypeOK
<1>13. QED
  BY <1>7, <1>8, <1>9, <1>10, <1>11, <1>12

\* What Post does to the three records it writes.
LEMMA PostEffect ==
  ASSUME IInv, NEW c \in Calls, Post(c)
  PROVE  LET k == call[c].kern IN
         /\ k \in Kernels
         /\ call[c].pc = "post" /\ handle[k].pending = NoCall /\ ~handle[k].dead
         /\ call' \in [Calls -> CallState]
         /\ call'[c].pc = "waiting" /\ call'[c].kern = k
         /\ call'[c].dir = call[c].dir /\ call'[c].kind = call[c].kind
         /\ \A o \in Calls \ {c} : call'[o] = call[o]
         /\ handle' \in [Kernels -> HandleState]
         /\ handle'[k].pending = c
         /\ handle'[k].dir = handle[k].dir /\ handle'[k].dead = handle[k].dead
         /\ handle'[k].buf = handle[k].buf
         /\ \A j \in Kernels \ {k} : handle'[j] = handle[j]
         /\ proc' \in [Kernels -> ProcState]
         /\ proc'[k].at = proc[k].at /\ proc'[k].out = proc[k].out
         /\ proc'[k].writer = proc[k].writer
         /\ proc'[k].in = Append(proc[k].in, c) \/ proc'[k].in = proc[k].in
         /\ \A j \in Kernels \ {k} : proc'[j] = proc[j]
<1> DEFINE k == call[c].kern
           had == call[c].dir \in resetPending
           r == [call[c] EXCEPT !.pc = "waiting", !.hadReset = had]
           h == [handle[k] EXCEPT !.pending = c]
           p == [proc[k] EXCEPT !.in = Append(@, c)]
<1> USE DEF IInv
<1>1. k \in Kernels /\ call[c].pc = "post" /\ handle[k].pending = NoCall
      /\ ~handle[k].dead
  BY DEF Post, CanPost, Running, CallIsPlaced
<1>2. call[c] \in CallState /\ handle[k] \in HandleState /\ proc[k] \in ProcState
  BY <1>1 DEF TypeOK
<1>3. call' = [call EXCEPT ![c] = r] /\ handle' = [handle EXCEPT ![k] = h]
  BY DEF Post, TypeOK
<1>4. proc' = [proc EXCEPT ![k] = p] \/ proc' = proc
  BY DEF Post, TypeOK
<1>5. had \in BOOLEAN
  OBVIOUS
<1> HIDE DEF had, k
<1>6. /\ r \in CallState /\ r.pc = "waiting" /\ r.kern = k /\ r.dir = call[c].dir
      /\ r.kind = call[c].kind
  BY <1>2, <1>5 DEF CallState, k
<1>7. /\ h \in HandleState /\ h.pending = c /\ h.dir = handle[k].dir
      /\ h.dead = handle[k].dead /\ h.buf = handle[k].buf
  BY <1>2 DEF HandleState
<1>8. /\ p \in ProcState /\ p.at = proc[k].at /\ p.out = proc[k].out
      /\ p.writer = proc[k].writer /\ p.in = Append(proc[k].in, c)
  <2>1. Append(proc[k].in, c) \in Seq(Calls)
    BY <1>2, AppendProperties DEF ProcState
  <2>2. QED
    BY <1>2, <2>1 DEF ProcState
<1> HIDE DEF r, h, p
<1>9. /\ call' \in [Calls -> CallState] /\ call'[c] = r
      /\ \A o \in Calls \ {c} : call'[o] = call[o]
  BY <1>3, <1>6, CallUpdate
<1>10. /\ handle' \in [Kernels -> HandleState] /\ handle'[k] = h
       /\ \A j \in Kernels \ {k} : handle'[j] = handle[j]
  BY <1>1, <1>3, <1>7, HandleUpdate
<1>11. /\ proc' \in [Kernels -> ProcState]
       /\ proc'[k] = p \/ proc'[k] = proc[k]
       /\ \A j \in Kernels \ {k} : proc'[j] = proc[j]
  BY <1>1, <1>4, <1>8, ProcUpdate DEF TypeOK
<1>12. QED
  BY <1>1, <1>6, <1>7, <1>8, <1>9, <1>10, <1>11 DEF k

LEMMA PostKeeps ==
  ASSUME IInv, NEW c \in Calls, Post(c)
  PROVE  IInv'
<1> DEFINE k == call[c].kern
<1>1. /\ k \in Kernels
      /\ call[c].pc = "post" /\ handle[k].pending = NoCall /\ ~handle[k].dead
      /\ call' \in [Calls -> CallState]
      /\ call'[c].pc = "waiting" /\ call'[c].kern = k /\ call'[c].dir = call[c].dir
      /\ \A o \in Calls \ {c} : call'[o] = call[o]
  BY PostEffect
<1>2. /\ handle' \in [Kernels -> HandleState]
      /\ handle'[k].pending = c
      /\ handle'[k].dir = handle[k].dir /\ handle'[k].dead = handle[k].dead
      /\ \A j \in Kernels \ {k} : handle'[j] = handle[j]
  BY PostEffect
<1>3. /\ proc' \in [Kernels -> ProcState]
      /\ proc'[k].at = proc[k].at
      /\ \A j \in Kernels \ {k} : proc'[j] = proc[j]
  BY PostEffect
<1>4. /\ timers' = timers \cup {c} /\ turn' = NoCall
      /\ UNCHANGED <<fallbacks, up, registry, bounds>>
  BY DEF Post
<1> USE DEF IInv, bounds, registry
<1>5. handle[k].dir # NoDir /\ proc[k].at # "unborn"
  BY <1>1 DEF CallIsPlaced, UnbornIsFresh
<1> HIDE DEF k
<1>6. TypeOK'
  BY <1>1, <1>2, <1>3, <1>4 DEF TypeOK
<1>7. NoCallIsDropped'
  <2>1. ASSUME NEW o \in Calls, call'[o].pc = "waiting"
        PROVE  handle'[call'[o].kern].pending = o
    <3>1. CASE o = c
      BY <1>1, <1>2, <3>1
    <3>2. CASE o # c
      <4>1. call'[o] = call[o]
        BY <1>1, <3>2
      <4>2. call[o].kern \in Kernels /\ handle[call[o].kern].pending = o
        BY <2>1, <4>1 DEF NoCallIsDropped, CallIsPlaced
      <4>3. call[o].kern # k
        BY <1>1, <4>2, IdentityAssumption
      <4>4. QED
        BY <1>2, <4>1, <4>2, <4>3
    <3>3. QED
      BY <3>1, <3>2
  <2>2. ASSUME NEW j \in Kernels, handle'[j].pending # NoCall
        PROVE  /\ ~handle'[j].dead
               /\ call'[handle'[j].pending].pc = "waiting"
               /\ call'[handle'[j].pending].kern = j
    <3>1. CASE j = k
      BY <1>1, <1>2, <3>1
    <3>2. CASE j # k
      <4>1. handle'[j] = handle[j]
        BY <1>2, <3>2
      <4>2. handle[j].pending \in Calls \ {c}
        BY <1>1, <2>2, <4>1, PendingIsCall DEF NoCallIsDropped
      <4>3. QED
        BY <1>1, <2>2, <4>1, <4>2 DEF NoCallIsDropped
    <3>3. QED
      BY <3>1, <3>2
  <2>3. QED
    BY <2>1, <2>2 DEF NoCallIsDropped
<1>8. PoolIsLive'
  BY <1>2, <1>4 DEF PoolIsLive, TypeOK
<1>9. UnbornIsFresh'
  BY <1>2, <1>3, <1>5 DEF UnbornIsFresh
<1>10. CallIsPlaced'
  <2>1. \A j \in Kernels : handle'[j].dir = handle[j].dir
    BY <1>2
  <2>2. QED
    BY <1>1, <1>5, <2>1 DEF CallIsPlaced
<1>11. TimersWait'
  BY <1>1, <1>4 DEF TimersWait, TypeOK
<1>12. QED
  BY <1>6, <1>7, <1>8, <1>9, <1>10, <1>11

\* A kill, once the handle is known to be that of a spawned kernel.
LEMMA KillKeeps ==
  ASSUME IInv, NEW k \in Kernels, NEW kind \in {"timeout", "reset"},
         NEW armed, armed \subseteq timers,
         handle[k].pending # NoCall, KillKernel(k, kind, armed),
         UNCHANGED <<fallbacks, up, bounds>>
  PROVE  IInv'
<1> USE DEF IInv
<1>1. ~handle[k].dead /\ handle[k].dir # NoDir
  BY PendingIsCall DEF NoCallIsDropped, CallIsPlaced
<1>2. Retire(k, kind, armed) /\ Killed({k})
  BY <1>1 DEF KillKernel
<1>3. proc[k].at # "unborn"
  BY <1>1 DEF UnbornIsFresh
<1>4. handle[k].dir \in AllDirs
  <2>1. handle[k] \in HandleState
    BY DEF TypeOK
  <2>2. QED
    BY <1>1, <2>1 DEF HandleState
<1>5. resetPending' \subseteq AllDirs
  BY <1>1, <1>4 DEF KillKernel, TypeOK
<1>6. proc' \in [Kernels -> ProcState]
      /\ \A j \in Kernels : proc'[j].at = "unborn" => proc'[j] = proc[j]
  <2> DEFINE p == [proc[k] EXCEPT !.at = "reaped", !.in = <<>>, !.out = <<>>]
  <2>1. proc[k] \in ProcState
    BY DEF TypeOK
  <2>2. <<>> \in Seq(Calls) /\ <<>> \in Seq(Chunks)
    BY EmptySeq
  <2>3. p \in ProcState /\ p.at = "reaped"
    BY <2>1, <2>2 DEF ProcState
  <2>4. proc' = [proc EXCEPT ![k] = p]
    BY <1>2 DEF Killed, TypeOK
  <2> HIDE DEF p
  <2>5. QED
    BY <2>3, <2>4, ProcUpdate
<1>7. QED
  BY <1>2, <1>3, <1>5, <1>6, RetireStep

\* TimerFires, Garbled, Close and SpawnError.
LEMMA TimerKeeps ==
  ASSUME IInv, NEW c \in Calls, TimerFires(c)
  PROVE  IInv'
<1>1. c \in timers /\ KillKernel(call[c].kern, "timeout", timers \ {c})
      /\ UNCHANGED <<fallbacks, up, bounds>>
  BY DEF TimerFires
<1>2. call[c].kern \in Kernels /\ handle[call[c].kern].pending = c
  BY <1>1 DEF IInv, TimersWait, NoCallIsDropped, CallIsPlaced
<1>3. QED
  BY <1>1, <1>2, KillKeeps, IdentityAssumption

LEMMA GarbledKeeps ==
  ASSUME IInv, NEW k \in Kernels, Garbled(k)
  PROVE  IInv'
<1>1. handle[k].pending # NoCall /\ KillKernel(k, "reset", timers)
      /\ UNCHANGED <<fallbacks, up, bounds>>
  BY DEF Garbled
<1>2. QED
  BY <1>1, KillKeeps

LEMMA ProcessEventKeeps ==
  ASSUME IInv, NEW k \in Kernels, Close(k) \/ SpawnError(k)
  PROVE  IInv'
<1> USE DEF IInv
<1>1. proc[k] \in ProcState
  BY DEF TypeOK
<1>2. CASE Close(k)
  <2> DEFINE p == [proc[k] EXCEPT !.at = "closed"]
  <2>1. p \in ProcState /\ p.at = "closed"
    BY <1>1 DEF ProcState
  <2>2. proc' = [proc EXCEPT ![k] = p]
    BY <1>2 DEF Close, TypeOK
  <2> HIDE DEF p
  <2>3. /\ proc' \in [Kernels -> ProcState]
        /\ \A j \in Kernels : proc'[j].at = "unborn" => proc'[j] = proc[j]
    BY <2>1, <2>2, ProcUpdate
  <2>4. /\ proc[k].at # "unborn" /\ Retire(k, "died", timers)
        /\ UNCHANGED <<fallbacks, up, bounds>> /\ resetPending' \subseteq AllDirs
    BY <1>2 DEF Close, TypeOK
  <2>5. QED
    BY <2>3, <2>4, RetireStep
<1>3. CASE SpawnError(k)
  <2> DEFINE p == [proc[k] EXCEPT !.at = "reaped"]
  <2>1. p \in ProcState /\ p.at = "reaped"
    BY <1>1 DEF ProcState
  <2>2. proc' = [proc EXCEPT ![k] = p]
    BY <1>3 DEF SpawnError, TypeOK
  <2> HIDE DEF p
  <2>3. /\ proc' \in [Kernels -> ProcState]
        /\ \A j \in Kernels : proc'[j].at = "unborn" => proc'[j] = proc[j]
    BY <2>1, <2>2, ProcUpdate
  <2>4. /\ proc[k].at # "unborn" /\ Retire(k, "spawn error", timers)
        /\ UNCHANGED <<fallbacks, up, bounds>> /\ resetPending' \subseteq AllDirs
    BY <1>3 DEF SpawnError, TypeOK
  <2>5. QED
    BY <2>3, <2>4, RetireStep
<1>4. QED
  BY <1>2, <1>3

\* The stdout handler: a chunk is kept, or it answers the pending call.
LEMMA ChunkIsTyped ==
  ASSUME IInv, NEW k \in Kernels, Readable(k)
  PROVE  /\ Arrived(k) \in Seq(Chunks) /\ Arrived(k) # <<>>
         /\ Head(Arrived(k)) \in Chunks
         /\ Tail(Arrived(k)) \in Seq(Chunks)
<1>1. handle[k].buf \in Seq(Chunks) /\ proc[k].out \in Seq(Chunks)
  <2>1. handle[k] \in HandleState /\ proc[k] \in ProcState
    BY DEF IInv, TypeOK
  <2>2. QED
    BY <2>1 DEF HandleState, ProcState
<1>2. Head(proc[k].out) \in Chunks
  BY <1>1 DEF Readable
<1> DEFINE b == handle[k].buf
           x == Head(proc[k].out)
           s == Append(b, x)
<1>3. s \in Seq(Chunks) /\ s # <<>>
  <2> HIDE DEF b, x
  <2>1. QED
    BY <1>1, <1>2, AppendProperties DEF b, x
<1> HIDE DEF s
<1>4. Head(s) \in Chunks /\ Tail(s) \in Seq(Chunks)
  BY <1>3, HeadTailProperties
<1>5. QED
  BY <1>3, <1>4 DEF Arrived, s

\* Whatever a misread frame leaves in the buffer is made of chunks.
LEMMA RestsAreTyped ==
  ASSUME NEW s \in Seq(Chunks), NEW rest \in Rests(s)
  PROVE  rest \in Seq(Chunks)
<1>1. PICK part \in {<<>>, <<Noise>>}, n \in 2..(Len(s) + 1) :
        rest = part \o SubSeq(s, n, Len(s))
  BY DEF Rests
<1>2. part \in Seq(Chunks)
  <2>1. Noise \in Chunks
    BY DEF Noise, Frame, Chunks
  <2>2. <<Noise>> \in Seq(Chunks) /\ <<>> \in Seq(Chunks)
    BY <2>1, EmptySeq
  <2>3. QED
    BY <2>2
<1>3. SubSeq(s, n, Len(s)) \in Seq(Chunks)
  <2>1. Len(s) \in Nat /\ n \in Int
    BY LenProperties
  <2>2. \A i \in n..Len(s) : s[i] \in Chunks
    BY <2>1, ElementOfSeq
  <2>3. QED
    BY <2>1, <2>2, SubSeqProperties
<1>4. QED
  BY <1>1, <1>2, <1>3, ConcatProperties

LEMMA KeepChunkKeeps ==
  ASSUME IInv, NEW k \in Kernels, KeepChunk(k)
  PROVE  IInv'
<1> USE DEF IInv, registry, server, bounds
<1> DEFINE buf == Arrived(k)
           h == [handle[k] EXCEPT !.buf = buf]
           p == [proc[k] EXCEPT !.out = Tail(@)]
<1>1. handle[k] \in HandleState /\ proc[k] \in ProcState
  BY DEF TypeOK
<1>2. /\ proc[k].out # <<>> /\ proc[k].at # "unborn"
      /\ UNCHANGED <<call, server, registry, bounds>>
  BY DEF KeepChunk, Readable, UnbornIsFresh
<1>3. buf \in Seq(Chunks)
  BY ChunkIsTyped DEF KeepChunk
<1>4. Tail(proc[k].out) \in Seq(Chunks)
  BY <1>1, <1>2 DEF ProcState
<1>5. handle' = [handle EXCEPT ![k] = h] /\ proc' = [proc EXCEPT ![k] = p]
  BY DEF KeepChunk, Read, TypeOK
<1> HIDE DEF buf
<1>6. /\ h \in HandleState /\ h.pending = handle[k].pending
      /\ h.dead = handle[k].dead /\ h.dir = handle[k].dir
  BY <1>1, <1>3 DEF HandleState
<1>7. p \in ProcState /\ p.at = proc[k].at
  BY <1>1, <1>4 DEF ProcState
<1> HIDE DEF h, p
<1>8. /\ handle' \in [Kernels -> HandleState] /\ handle'[k] = h
      /\ \A j \in Kernels \ {k} : handle'[j] = handle[j]
  BY <1>5, <1>6, HandleUpdate
<1>9. /\ proc' \in [Kernels -> ProcState] /\ proc'[k] = p
      /\ \A j \in Kernels \ {k} : proc'[j] = proc[j]
  BY <1>5, <1>7, ProcUpdate
<1>10. \A j \in Kernels : /\ handle'[j].pending = handle[j].pending
                          /\ handle'[j].dead = handle[j].dead
                          /\ handle'[j].dir = handle[j].dir
  BY <1>6, <1>8
<1>11. TypeOK'
  BY <1>2, <1>8, <1>9 DEF TypeOK
<1>12. NoCallIsDropped'
  <2>1. \A c \in Calls : call[c].pc = "waiting" => call[c].kern \in Kernels
    BY DEF CallIsPlaced
  <2>2. QED
    BY <1>2, <1>10, <2>1 DEF NoCallIsDropped
<1>13. PoolIsLive'
  BY <1>2, <1>10 DEF PoolIsLive, TypeOK
<1>14. UnbornIsFresh'
  BY <1>2, <1>7, <1>8, <1>9 DEF UnbornIsFresh
<1>15. CallIsPlaced' /\ TimersWait'
  BY <1>2, <1>10 DEF CallIsPlaced, TimersWait
<1>16. QED
  BY <1>11, <1>12, <1>13, <1>14, <1>15

LEMMA AnswerKeeps ==
  ASSUME IInv, NEW k \in Kernels, Deliver(k) \/ Misread(k)
  PROVE  IInv'
<1>1. CASE Deliver(k)
  <2>1. /\ Readable(k) /\ Read(k) /\ handle[k].pending # NoCall
        /\ handle' = [handle EXCEPT ![k].buf = Tail(Arrived(k)), ![k].pending = NoCall]
        /\ Resolve(handle[k].pending, Head(Arrived(k)).kind, Head(Arrived(k)).from)
        /\ UNCHANGED <<fallbacks, up, registry, bounds>>
    BY <1>1 DEF Deliver
  <2>2. Head(Arrived(k)) \in Chunks /\ Head(Arrived(k)) # Noise
    BY <1>1, <2>1, ChunkIsTyped DEF Deliver
  <2>3. Tail(Arrived(k)) \in Seq(Chunks)
    BY <2>1, ChunkIsTyped
  <2>4. /\ Head(Arrived(k)).from \in Calls \cup {NoCall}
        /\ Head(Arrived(k)).kind \in FrameKinds
    BY <2>2 DEF Chunks
  <2>5. QED
    BY <2>1, <2>3, <2>4, ResolveStep DEF Readable
<1>2. CASE Misread(k)
  <2>1. /\ Readable(k) /\ Read(k) /\ handle[k].pending # NoCall
        /\ UNCHANGED <<fallbacks, up, registry, bounds>>
    BY <1>2 DEF Misread
  <2>2. PICK rest \in Rests(Arrived(k)) :
          handle' = [handle EXCEPT ![k].pending = NoCall, ![k].buf = rest]
    BY <1>2 DEF Misread
  <2>3. PICK kind \in FrameKinds : Resolve(handle[k].pending, kind, NoCall)
    BY <1>2 DEF Misread
  <2>4. rest \in Seq(Chunks)
    BY <2>1, ChunkIsTyped, RestsAreTyped
  <2>5. handle' = [handle EXCEPT ![k].buf = rest, ![k].pending = NoCall]
    BY <2>2 DEF TypeOK, IInv
  <2>6. QED
    BY <2>1, <2>3, <2>4, <2>5, ResolveStep DEF Readable
<1>3. QED
  BY <1>1, <1>2

\* Reap, KernelReply, StartWriter, StrayWrite, KernelCrash.
LEMMA ProcessKeeps ==
  ASSUME IInv, NEW k \in Kernels, Reap(k) \/ Process(k)
  PROVE  IInv'
<1> USE DEF IInv
<1>1. proc[k] \in ProcState
  BY DEF TypeOK
<1>2. ASSUME NEW p \in ProcState, proc' = [proc EXCEPT ![k] = p], p.at # "unborn",
             UNCHANGED <<call, server, registry, handle>>,
             crashes' \in Nat, noises' \in Nat
      PROVE  IInv'
  <2>1. /\ proc' \in [Kernels -> ProcState]
        /\ \A j \in Kernels : proc'[j].at = "unborn" => proc'[j] = proc[j]
    BY <1>2, ProcUpdate
  <2>2. QED
    BY <1>2, <2>1, ProcStep DEF server, TypeOK
<1>3. CASE Reap(k)
  <2> DEFINE p == [proc[k] EXCEPT !.at = "reaped"]
  <2>1. p \in ProcState /\ p.at # "unborn"
    BY <1>1 DEF ProcState
  <2>2. proc' = [proc EXCEPT ![k] = p]
    BY <1>3 DEF Reap, TypeOK
  <2>3. /\ UNCHANGED <<call, server, registry, handle>>
        /\ crashes' \in Nat /\ noises' \in Nat
    BY <1>3 DEF Reap, bounds, TypeOK
  <2> HIDE DEF p
  <2>4. QED
    BY <1>2, <2>1, <2>2, <2>3
<1>4. CASE KernelReply(k)
  <2>1. PICK kind \in ExitKinds :
          proc' = [proc EXCEPT ![k].in = Tail(@),
                               ![k].out = Append(@, Frame(Head(proc[k].in), kind))]
    BY <1>4 DEF KernelReply
  <2> DEFINE f == Frame(Head(proc[k].in), kind)
             p == [proc[k] EXCEPT !.in = Tail(@), !.out = Append(@, f)]
  <2>2. proc[k].in # <<>> /\ proc[k].at = "alive"
    BY <1>4 DEF KernelReply
  <2>3. Tail(proc[k].in) \in Seq(Calls) /\ Head(proc[k].in) \in Calls
    BY <1>1, <2>2, HeadTailProperties DEF ProcState
  <2>4. f \in Chunks
    BY <2>3, BoundAssumption DEF Frame, Chunks
  <2>5. proc' = [proc EXCEPT ![k] = p]
    BY <2>1 DEF TypeOK
  <2> HIDE DEF f
  <2>6. Append(proc[k].out, f) \in Seq(Chunks)
    BY <1>1, <2>4, AppendProperties DEF ProcState
  <2>7. p \in ProcState /\ p.at # "unborn"
    BY <1>1, <2>2, <2>3, <2>6 DEF ProcState
  <2>8. /\ UNCHANGED <<call, server, registry, handle>>
        /\ crashes' \in Nat /\ noises' \in Nat
    BY <1>4 DEF KernelReply, Outside, bounds, TypeOK
  <2> HIDE DEF p
  <2>9. QED
    BY <1>2, <2>5, <2>7, <2>8
<1>5. CASE StartWriter(k)
  <2> DEFINE p == [proc[k] EXCEPT !.writer = TRUE]
  <2>1. p \in ProcState /\ p.at # "unborn"
    BY <1>1, <1>5 DEF ProcState, StartWriter
  <2>2. proc' = [proc EXCEPT ![k] = p]
    BY <1>5 DEF StartWriter, TypeOK
  <2>3. /\ UNCHANGED <<call, server, registry, handle>>
        /\ crashes' \in Nat /\ noises' \in Nat
    BY <1>5 DEF StartWriter, Outside, bounds, TypeOK
  <2> HIDE DEF p
  <2>4. QED
    BY <1>2, <2>1, <2>2, <2>3
<1>6. CASE StrayWrite(k)
  <2> DEFINE p == [proc[k] EXCEPT !.out = Append(@, Noise)]
  <2>1. Append(proc[k].out, Noise) \in Seq(Chunks)
    BY <1>1, AppendProperties DEF ProcState, Chunks
  <2>2. p \in ProcState /\ p.at # "unborn"
    BY <1>1, <1>6, <2>1 DEF ProcState, StrayWrite
  <2>3. proc' = [proc EXCEPT ![k] = p]
    BY <1>6 DEF StrayWrite, TypeOK
  <2>4. /\ UNCHANGED <<call, server, registry, handle>>
        /\ crashes' \in Nat /\ noises' \in Nat
    BY <1>6 DEF StrayWrite, Outside, TypeOK
  <2> HIDE DEF p
  <2>5. QED
    BY <1>2, <2>2, <2>3, <2>4
<1>7. CASE KernelCrash(k)
  <2> DEFINE p == [proc[k] EXCEPT !.at = "exited", !.in = <<>>]
  <2>1. <<>> \in Seq(Calls)
    BY EmptySeq
  <2>2. p \in ProcState /\ p.at # "unborn"
    BY <1>1, <2>1 DEF ProcState
  <2>3. proc' = [proc EXCEPT ![k] = p]
    BY <1>7 DEF KernelCrash, TypeOK
  <2>4. /\ UNCHANGED <<call, server, registry, handle>>
        /\ crashes' \in Nat /\ noises' \in Nat
    BY <1>7 DEF KernelCrash, Outside, TypeOK
  <2> HIDE DEF p
  <2>5. QED
    BY <1>2, <2>2, <2>3, <2>4
<1>8. QED
  BY <1>3, <1>4, <1>5, <1>6, <1>7 DEF Process

\* The server dies with the registered kernels: PostBrokenPipe, ReadsNull.
LEMMA DeathKeeps ==
  ASSUME IInv, Dies
  PROVE  IInv'
<1>1. /\ UNCHANGED <<call, turn, timers, fallbacks, registry, handle, bounds>>
      /\ up' \in BOOLEAN /\ Killed({k \in Kernels : Registered(k)})
  BY DEF Dies
<1>2. ASSUME NEW k \in Kernels
      PROVE  /\ proc'[k] \in ProcState
             /\ proc'[k].at = "unborn" => proc'[k] = proc[k]
  <2> DEFINE p == [proc[k] EXCEPT !.at = "reaped", !.in = <<>>, !.out = <<>>]
  <2>1. proc[k] \in ProcState
    BY DEF IInv, TypeOK
  <2>2. <<>> \in Seq(Calls) /\ <<>> \in Seq(Chunks)
    BY EmptySeq
  <2>3. p \in ProcState /\ p.at = "reaped"
    BY <2>1, <2>2 DEF ProcState
  <2>4. proc'[k] = p \/ proc'[k] = proc[k]
    BY <1>1 DEF Killed
  <2> HIDE DEF p
  <2>5. QED
    BY <2>1, <2>3, <2>4
<1>3. proc' \in [Kernels -> ProcState]
  <2>1. proc' = [k \in Kernels |-> proc'[k]]
    BY <1>1 DEF Killed
  <2>2. QED
    BY <1>2, <2>1
<1>4. crashes' \in Nat /\ noises' \in Nat
  BY <1>1 DEF IInv, TypeOK, bounds
<1>5. QED
  BY <1>1, <1>2, <1>3, <1>4, ProcStep

LEMMA NextIInv == IInv /\ [Next]_vars => IInv'
<1> SUFFICES ASSUME IInv, [Next]_vars PROVE IInv'
  OBVIOUS
<1>1. CASE UNCHANGED vars
  BY <1>1 DEF vars, server, registry, bounds, IInv, TypeOK, NoCallIsDropped,
     PoolIsLive, UnbornIsFresh, CallIsPlaced, TimersWait
<1>2. ASSUME NEW c \in Calls, Arrive(c) \/ Chain(c) \/ Waits(c) \/ TimerFires(c)
      PROVE  IInv'
  BY <1>2, ChainKeeps, SpawnKeeps, PostKeeps, DeathKeeps, TimerKeeps
     DEF Chain, Waits, PostBrokenPipe
<1>3. ASSUME NEW k \in Kernels, Data(k) \/ Reap(k) \/ Close(k) \/ SpawnError(k) \/ Process(k)
      PROVE  IInv'
  BY <1>3, KeepChunkKeeps, AnswerKeeps, GarbledKeeps, ProcessEventKeeps, ProcessKeeps,
     DeathKeeps DEF Data, ReadsNull
<1>4. QED
  BY <1>1, <1>2, <1>3 DEF Next

\* IInv holds in every reachable state.
THEOREM Invariant == Spec => []IInv
BY InitIInv, NextIInv, PTL DEF Spec

-----------------------------------------------------------------------------
\* Every variable keeps the type the code gives it, whatever the number of
\* requests, kernels, crashes and stray writes.
THEOREM TypeCorrect == Spec => []TypeOK
<1>1. IInv => TypeOK
  BY DEF IInv
<1>2. QED
  BY <1>1, Invariant, PTL

\* A request whose promise is pending is held by exactly the live handle it
\* was written to: no kill, exit, spawn error or second request drops it.
THEOREM NoneDropped == Spec => []NoCallIsDropped
<1>1. IInv => NoCallIsDropped
  BY DEF IInv
<1>2. QED
  BY <1>1, Invariant, PTL

\* The registry of kernels never names a dead handle or one of another directory.
THEOREM PoolStaysLive == Spec => []PoolIsLive
<1>1. IInv => PoolIsLive
  BY DEF IInv
<1>2. QED
  BY <1>1, Invariant, PTL

=============================================================================
