------------------------- MODULE KernelSerialProofs -------------------------
(***************************************************************************)
(* What a client that sends one request at a time can rely on, for every   *)
(* number of calls, directories and kernels: no kernel is orphaned, and    *)
(* "prior state lost" is never said falsely.                               *)
(***************************************************************************)
EXTENDS KernelAnswerProofs

Active(c) == call[c].pc \notin {"idle", "done"}

OneAtATime == \A c, o \in Calls : Active(c) /\ Active(o) => c = o

\* While a call probes, its directory has no kernel.
ProbesAlone == \A c \in Calls : call[c].pc = "probing" => pool[call[c].dir] = NoKernel

\* Between the lookup and the write no event intervenes.
HoldsItsKernel == \A c \in Calls :
  call[c].pc = "post" => turn = c /\ handle[call[c].kern].dead = FALSE

\* A call's kernel was made for its directory; it was spawned in any case.
KernelFits == \A c \in Calls :
  /\ call[c].pc \in {"post", "waiting", "resolved"} => handle[call[c].kern].dir = call[c].dir
  /\ call[c].kern \in Kernels => handle[call[c].kern].dir # NoDir

\* A live kernel of a directory that was reset is the successor of the one that
\* was killed: no call has ended on it, and the call it serves knows.
FreshAfterReset == \A c \in Calls, k \in Kernels :
  ~handle[k].dead /\ handle[k].dir \in resetPending /\ call[c].kern = k
  => \/ call[c].pc = "post"
     \/ call[c].pc \in {"waiting", "resolved"} /\ call[c].hadReset

NoticeHolds == \A c, o \in Calls :
  /\ call[c].pc \in {"waiting", "resolved"} /\ call[c].hadReset
  /\ call[o].pc = "done"
  => call[o].kern # call[c].kern

NoticeComesLast == \A c \in Calls : call[c].pc # "done" => ~call[c].notice

SInv == /\ OneAtATime /\ NoOrphan /\ ProbesAlone /\ HoldsItsKernel /\ KernelFits
        /\ FreshAfterReset /\ NoticeHolds /\ NoticeComesLast

-----------------------------------------------------------------------------
LEMMA InitSerial == Init => SInv
<1> SUFFICES ASSUME Init PROVE SInv
  OBVIOUS
<1>1. \A c \in Calls : /\ call[c].pc = "idle" /\ call[c].kern = NoKernel
                       /\ call[c].notice = FALSE
  BY DEF Init
<1>2. \A k \in Kernels : handle[k].dir = NoDir
  BY DEF Init
<1>3. resetPending = {}
  BY DEF Init
<1>4. QED
  BY <1>1, <1>2, <1>3, IdentityAssumption
     DEF SInv, OneAtATime, Active, NoOrphan, ProbesAlone, HoldsItsKernel, KernelFits,
         FreshAfterReset, NoticeHolds, NoticeComesLast

LEMMA DirIsTyped ==
  ASSUME TypeOK
  PROVE  \A k \in Kernels : handle[k].dir \in AllDirs \cup {NoDir}
<1>1. \A k \in Kernels : handle[k] \in HandleState
  BY DEF TypeOK
<1>2. QED
  BY <1>1 DEF HandleState

\* A step that at most answers a waiting call, and kills nothing.
LEMMA MildStep ==
  ASSUME SInv,
         UNCHANGED <<pool, resetPending>>,
         \A k \in Kernels : handle'[k].dead = handle[k].dead /\ handle'[k].dir = handle[k].dir,
         \A c \in Calls :
           \/ call'[c] = call[c]
           \/ /\ call[c].pc = "waiting" /\ call'[c].pc = "resolved"
              /\ UNCHANGED <<call[c].kern, call[c].dir, call[c].hadReset, call[c].notice>>,
         turn' = turn \/ turn = NoCall,
         CallIsPlaced
  PROVE  SInv'
<1> USE DEF SInv
<1>1. OneAtATime'
  BY DEF OneAtATime, Active
<1>2. NoOrphan' /\ ProbesAlone'
  BY DEF NoOrphan, ProbesAlone
<1>3. HoldsItsKernel'
  <2>1. \A c \in Calls : call'[c].pc = "post" => call'[c] = call[c] /\ call[c].kern \in Kernels
    BY DEF CallIsPlaced
  <2>2. turn = NoCall => \A c \in Calls : call[c].pc # "post"
    BY IdentityAssumption DEF HoldsItsKernel
  <2>3. QED
    BY <2>1, <2>2 DEF HoldsItsKernel
<1>4. KernelFits'
  BY DEF KernelFits, CallIsPlaced
<1>5. FreshAfterReset'
  BY DEF FreshAfterReset
<1>6. NoticeHolds'
  BY DEF NoticeHolds
<1>7. NoticeComesLast'
  BY DEF NoticeComesLast
<1>8. QED
  BY <1>1, <1>2, <1>3, <1>4, <1>5, <1>6, <1>7

LEMMA QuietKeepsSerial ==
  ASSUME IInv, SInv, Serial, NEW c \in Calls, Quiet(c)
  PROVE  SInv'
<1> USE DEF SInv
<1>1. UNCHANGED <<handle, pool>> /\ \A o \in Calls \ {c} : call'[o] = call[o]
  BY QuietEffect
<1>2. ~(Running(c, "post") /\ ~CanPost(c))
  <2> SUFFICES ASSUME Running(c, "post"), ~CanPost(c) PROVE FALSE
    OBVIOUS
  <2>1. handle[call[c].kern].dead = FALSE /\ call[c].kern \in Kernels /\ call[c].pc = "post"
    BY DEF Running, HoldsItsKernel, IInv, CallIsPlaced
  <2>2. handle[call[c].kern].pending \in Calls
    BY <2>1, PendingIsCall DEF CanPost, IInv
  <2>3. call[handle[call[c].kern].pending].pc = "waiting"
    BY <2>1, <2>2, IdentityAssumption DEF IInv, NoCallIsDropped
  <2>4. QED
    BY <2>1, <2>2, <2>3 DEF OneAtATime, Active
<1>3. call[c].pc # "post" /\ call[c].pc # "waiting" /\ call'[c].pc # "waiting"
  BY <1>2, QuietCall
<1>4. \A o \in Calls \ {c} : ~Active(o)
  BY QuietCall, <1>2 DEF OneAtATime, Active
<1>5. OneAtATime'
  BY <1>1, <1>4 DEF OneAtATime, Active
<1>6. NoOrphan'
  BY <1>1 DEF NoOrphan
<1>7. ProbesAlone'
  <2>1. ASSUME call'[c].pc = "probing"
        PROVE  pool[call'[c].dir] = NoKernel
    <3>1. /\ call[c].pc = "lookup" /\ ~Usable(call[c].dir) /\ call'[c].dir = call[c].dir
      BY <2>1, <1>2, QuietCall
    <3>2. call[c].dir \in AllDirs
      BY <3>1 DEF IInv, CallIsPlaced
    <3>3. QED
      BY <3>1, <3>2 DEF Usable, IInv, PoolIsLive
  <2>2. QED
    BY <1>1, <2>1 DEF ProbesAlone
<1>8. ASSUME call'[c].pc = "post"
      PROVE  /\ turn' = c /\ call'[c].kern \in Kernels
             /\ handle[call'[c].kern].dead = FALSE
             /\ handle[call'[c].kern].dir = call'[c].dir /\ call'[c].dir \in AllDirs
  <2>1. /\ call[c].pc = "lookup" /\ Usable(call[c].dir) /\ turn' = c
        /\ call'[c].kern = pool[call[c].dir] /\ call'[c].dir = call[c].dir
    BY <1>2, <1>8, QuietCall
  <2>2. call[c].dir \in AllDirs
    BY <2>1 DEF IInv, CallIsPlaced
  <2>3. pool[call[c].dir] \in Kernels
    BY <2>1, <2>2 DEF Usable, IInv, TypeOK
  <2>4. handle[pool[call[c].dir]] \in HandleState
    BY <2>3 DEF IInv, TypeOK
  <2>5. handle[pool[call[c].dir]].dead = FALSE
    BY <2>1, <2>4 DEF Usable, HandleState
  <2>6. handle[pool[call[c].dir]].dir = call[c].dir
    BY <2>1, <2>2 DEF Usable, IInv, PoolIsLive
  <2>7. QED
    BY <2>1, <2>2, <2>3, <2>5, <2>6
<1>9. HoldsItsKernel'
  BY <1>1, <1>4, <1>8 DEF HoldsItsKernel, Active
<1>10. KernelFits'
  <2>1. call'[c].pc # "post" => call'[c].pc # "resolved" /\ call'[c].kern = call[c].kern
    BY <1>2, QuietCall
  <2>2. \A o \in Calls : /\ call'[o].pc \in {"post", "waiting", "resolved"}
                           => handle[call'[o].kern].dir = call'[o].dir
                         /\ call'[o].kern \in Kernels => handle[call'[o].kern].dir # NoDir
    BY <1>1, <1>3, <1>4, <1>8, <2>1, IdentityAssumption DEF KernelFits, Active
  <2>3. QED
    BY <1>1, <2>2 DEF KernelFits
<1>11. resetPending' \subseteq resetPending
  BY QuietCall DEF Notice
<1>12. FreshAfterReset'
  <2>1. ASSUME NEW k \in Kernels, ~handle[k].dead, handle[k].dir \in resetPending',
               call'[c].kern = k, call'[c].pc # "post"
        PROVE  FALSE
    <3>1. handle[k].dir \in resetPending /\ call[c].kern = k
      BY <1>2, <1>11, <2>1, QuietCall
    <3>2. call[c].pc = "resolved" /\ call[c].hadReset /\ Notice(c)
      BY <1>2, <1>3, <2>1, <3>1, QuietCall DEF FreshAfterReset
    <3>3. handle[k].dir = call[c].dir
      BY <3>1, <3>2 DEF KernelFits
    <3>4. QED
      BY <2>1, <3>2, <3>3 DEF Notice
  <2>2. QED
    BY <1>1, <1>11, <2>1 DEF FreshAfterReset
<1>13. NoticeHolds'
  <2>1. call'[c].pc # "resolved"
    BY <1>2, QuietCall
  <2>2. QED
    BY <1>1, <1>3, <1>4, <2>1 DEF NoticeHolds, Active
<1>14. NoticeComesLast'
  <2>1. call'[c].pc # "done" => call'[c].notice = call[c].notice /\ call[c].pc # "done"
    BY <1>2, QuietCall
  <2>2. QED
    BY <1>1, <2>1 DEF NoticeComesLast
<1>15. QED
  BY <1>5, <1>6, <1>7, <1>9, <1>10, <1>12, <1>13, <1>14

-----------------------------------------------------------------------------
LEMMA SpawnKeepsSerial ==
  ASSUME IInv, SInv, NEW c \in Calls, Spawn(c)
  PROVE  SInv'
<1> DEFINE k == NewKernel
           d == call[c].dir
<1> USE DEF SInv
<1>1. /\ k \in Kernels /\ proc[k].at = "unborn" /\ call[c].pc = "probing" /\ d \in AllDirs
      /\ call'[c].pc = "post" /\ call'[c].kern = k /\ call'[c].dir = d
      /\ \A o \in Calls \ {c} : call'[o] = call[o]
      /\ handle'[k].dir = d /\ handle'[k].dead = handle[k].dead
      /\ \A j \in Kernels \ {k} : handle'[j] = handle[j]
  BY SpawnEffect
<1>2. handle[k].dir = NoDir /\ handle[k].dead = FALSE
  <2>1. handle[k] \in HandleState
    BY <1>1 DEF IInv, TypeOK
  <2>2. QED
    BY <1>1, <2>1 DEF IInv, UnbornIsFresh, HandleState
<1>3. /\ pool' = [pool EXCEPT ![d] = k] /\ turn' = c /\ resetPending' = resetPending
  BY DEF Spawn
<1>4. call'[c].notice = call[c].notice
  <2>1. call[c] \in CallState /\ call \in [Calls -> CallState]
    BY DEF IInv, TypeOK
  <2>2. call' = [call EXCEPT ![c].pc = "post", ![c].kern = NewKernel]
    BY DEF Spawn
  <2>3. call'[c] = [call[c] EXCEPT !.pc = "post", !.kern = NewKernel]
    BY <2>1, <2>2
  <2>4. QED
    BY <2>1, <2>3 DEF CallState
<1>5. pool'[d] = k /\ \A e \in AllDirs \ {d} : pool'[e] = pool[e]
  BY <1>1, <1>3 DEF IInv, TypeOK
<1> HIDE DEF k
<1>6. pool[d] = NoKernel
  BY <1>1 DEF ProbesAlone
<1>7. d # NoDir
  BY <1>1, IdentityAssumption
<1>8. \A o \in Calls \ {c} : ~Active(o)
  BY <1>1 DEF OneAtATime, Active
<1>9. \A o \in Calls : call[o].kern # k
  BY <1>1, <1>2 DEF KernelFits
<1>10. OneAtATime'
  BY <1>1, <1>8 DEF OneAtATime, Active
<1>11. NoOrphan'
  <2>1. ASSUME NEW j \in Kernels \ {k}, handle[j].dir # NoDir, ~handle[j].dead
        PROVE  pool'[handle[j].dir] = j
    <3>1. pool[handle[j].dir] = j /\ handle[j].dir \in AllDirs
      BY <2>1, DirIsTyped DEF NoOrphan, IInv
    <3>2. handle[j].dir # d
      BY <1>6, <3>1, IdentityAssumption
    <3>3. QED
      BY <1>5, <3>1, <3>2
  <2>2. QED
    BY <1>1, <1>5, <2>1 DEF NoOrphan
<1>12. ProbesAlone' /\ HoldsItsKernel'
  BY <1>1, <1>2, <1>3, <1>8 DEF ProbesAlone, HoldsItsKernel, Active
<1>13. KernelFits'
  <2>1. \A o \in Calls \ {c} : call[o].pc \notin {"post", "waiting", "resolved"}
    BY <1>8 DEF Active
  <2>2. QED
    BY <1>1, <1>7, <1>9, <2>1 DEF KernelFits
<1>14. FreshAfterReset'
  BY <1>1, <1>3, <1>9 DEF FreshAfterReset
<1>15. NoticeHolds'
  BY <1>1, <1>8 DEF NoticeHolds, Active
<1>16. NoticeComesLast'
  BY <1>1, <1>4 DEF NoticeComesLast
<1>17. QED
  BY <1>10, <1>11, <1>12, <1>13, <1>14, <1>15, <1>16

LEMMA PostKeepsSerial ==
  ASSUME IInv, SInv, NEW c \in Calls, Post(c)
  PROVE  SInv'
<1> DEFINE k == call[c].kern
<1> USE DEF SInv
<1>1. /\ k \in Kernels /\ call[c].pc = "post" /\ ~handle[k].dead
      /\ call'[c].pc = "waiting" /\ call'[c].kern = k /\ call'[c].dir = call[c].dir
      /\ \A o \in Calls \ {c} : call'[o] = call[o]
      /\ handle'[k].dir = handle[k].dir /\ handle'[k].dead = handle[k].dead
      /\ \A j \in Kernels \ {k} : handle'[j] = handle[j]
  BY PostEffect
<1>2. /\ call'[c].notice = call[c].notice
      /\ call'[c].hadReset <=> call[c].dir \in resetPending
      /\ pool' = pool /\ resetPending' = resetPending
  <2> DEFINE had == call[c].dir \in resetPending
  <2>1. call[c] \in CallState /\ call \in [Calls -> CallState]
    BY DEF IInv, TypeOK
  <2>2. call' = [call EXCEPT ![c].pc = "waiting", ![c].hadReset = had]
    BY DEF Post
  <2>3. call'[c] = [call[c] EXCEPT !.pc = "waiting", !.hadReset = had]
    BY <2>1, <2>2
  <2>4. call'[c].notice = call[c].notice /\ call'[c].hadReset = had
    <3> HIDE DEF had
    <3>1. QED
      BY <2>1, <2>3 DEF CallState
  <2>5. QED
    BY <2>4 DEF Post, registry
<1>3. handle[k].dir = call[c].dir
  BY <1>1 DEF KernelFits
<1> HIDE DEF k
<1>4. \A o \in Calls \ {c} : ~Active(o)
  BY <1>1 DEF OneAtATime, Active
<1>5. \A j \in Kernels : handle'[j].dead = handle[j].dead /\ handle'[j].dir = handle[j].dir
  BY <1>1
<1>6. OneAtATime'
  BY <1>1, <1>4 DEF OneAtATime, Active
<1>7. NoOrphan' /\ ProbesAlone'
  BY <1>1, <1>2, <1>5 DEF NoOrphan, ProbesAlone
<1>8. HoldsItsKernel'
  BY <1>1, <1>4 DEF HoldsItsKernel, Active
<1>9. KernelFits'
  <2>1. \A o \in Calls \ {c} : call[o].pc \notin {"post", "waiting", "resolved"}
    BY <1>4 DEF Active
  <2>2. call'[c].dir = handle'[k].dir /\ handle'[k].dir # NoDir
    BY <1>1, <1>3 DEF KernelFits, k
  <2>3. \A o \in Calls \ {c} : call[o].kern \in Kernels => handle'[call[o].kern].dir # NoDir
    BY <1>5 DEF KernelFits
  <2>4. QED
    BY <1>1, <2>1, <2>2, <2>3 DEF KernelFits
<1>10. FreshAfterReset'
  BY <1>1, <1>2, <1>3, <1>5 DEF FreshAfterReset
<1>11. NoticeHolds'
  <2>1. ASSUME NEW o \in Calls, call[o].pc = "done", call'[c].hadReset
        PROVE  call[o].kern # k
    BY <1>1, <1>2, <1>3, <2>1 DEF FreshAfterReset
  <2>2. QED
    BY <1>1, <1>4, <2>1 DEF NoticeHolds, Active
<1>12. NoticeComesLast'
  BY <1>1, <1>2 DEF NoticeComesLast
<1>13. QED
  BY <1>6, <1>7, <1>8, <1>9, <1>10, <1>11, <1>12

LEMMA EndsKeepSerial ==
  ASSUME IInv, SInv, turn = NoCall, NEW k \in Kernels,
         NEW kind \in {"timeout", "reset", "died", "spawn error"}, Ends(k, kind),
         kind \in {"timeout", "reset"} => handle[k].pending # NoCall
  PROVE  SInv'
<1> USE DEF SInv
<1>1. /\ handle'[k].dead = TRUE /\ handle'[k].dir = handle[k].dir
      /\ \A j \in Kernels \ {k} : handle'[j] = handle[j]
      /\ \A d \in AllDirs : /\ pool[d] = k => pool'[d] = NoKernel
                            /\ pool[d] # k => pool'[d] = pool[d]
  <2>1. PICK armed : Retire(k, kind, armed)
    BY DEF Ends
  <2>2. QED
    BY <2>1, RetireEffect
<1>2. ASSUME NEW c \in Calls
      PROVE  \/ call'[c] = call[c]
             \/ /\ call[c].pc = "waiting" /\ call'[c].pc = "resolved" /\ call[c].kern = k
                /\ UNCHANGED <<call[c].kern, call[c].dir, call[c].hadReset, call[c].notice>>
  <2>1. PICK armed : Retire(k, kind, armed)
    BY DEF Ends
  <2>2. CASE c # handle[k].pending
    BY <2>1, <2>2, RetireEffect
  <2>3. CASE c = handle[k].pending
    <3>1. handle[k].pending # NoCall
      BY <2>3, IdentityAssumption
    <3>2. /\ call[c].pc = "waiting" /\ call'[c].pc = "resolved" /\ call[c].kern = k
          /\ call'[c].kern = k /\ call'[c].dir = call[c].dir
          /\ call'[c].hadReset = call[c].hadReset /\ call'[c].notice = call[c].notice
      BY <2>1, <2>3, <3>1, RetireEffect
    <3>3. QED
      BY <3>2
  <2>4. QED
    BY <2>2, <2>3
<1>3. OneAtATime'
  BY <1>2 DEF OneAtATime, Active
<1>4. NoOrphan'
  <2>1. ASSUME NEW j \in Kernels, handle'[j].dir # NoDir, ~handle'[j].dead
        PROVE  pool'[handle'[j].dir] = j
    <3>1. j # k /\ handle'[j] = handle[j]
      BY <1>1, <2>1
    <3>2. pool[handle[j].dir] = j /\ handle[j].dir \in AllDirs
      BY <2>1, <3>1, DirIsTyped DEF NoOrphan, IInv
    <3>3. QED
      BY <1>1, <3>1, <3>2
  <2>2. QED
    BY <2>1 DEF NoOrphan
<1>5. ProbesAlone'
  <2>1. ASSUME NEW c \in Calls, call'[c].pc = "probing"
        PROVE  pool'[call'[c].dir] = NoKernel
    <3>1. call'[c] = call[c] /\ call[c].dir \in AllDirs
      BY <1>2, <2>1 DEF IInv, CallIsPlaced
    <3>2. pool[call[c].dir] = NoKernel
      BY <2>1, <3>1 DEF ProbesAlone
    <3>3. QED
      BY <1>1, <3>1, <3>2
  <2>2. QED
    BY <2>1 DEF ProbesAlone
<1>6. HoldsItsKernel'
  <2>1. \A c \in Calls : call[c].pc # "post"
    BY IdentityAssumption DEF HoldsItsKernel
  <2>2. QED
    BY <1>2, <2>1 DEF HoldsItsKernel
<1>7. \A j \in Kernels : handle'[j].dir = handle[j].dir
  BY <1>1
<1>8. KernelFits'
  <2>1. \A c \in Calls : /\ call'[c].kern = call[c].kern
                         /\ call'[c].pc \in {"post", "waiting", "resolved"} =>
                              /\ call[c].pc \in {"post", "waiting", "resolved"}
                              /\ call[c].kern \in Kernels /\ call'[c].dir = call[c].dir
    BY <1>2 DEF IInv, CallIsPlaced
  <2>2. ASSUME NEW c \in Calls, call'[c].pc \in {"post", "waiting", "resolved"}
        PROVE  handle'[call'[c].kern].dir = call'[c].dir
    <3>1. /\ call[c].pc \in {"post", "waiting", "resolved"} /\ call[c].kern \in Kernels
          /\ call'[c].kern = call[c].kern /\ call'[c].dir = call[c].dir
      BY <2>1, <2>2
    <3>2. QED
      BY <1>7, <3>1 DEF KernelFits
  <2>3. ASSUME NEW c \in Calls, call'[c].kern \in Kernels
        PROVE  handle'[call'[c].kern].dir # NoDir
    BY <1>7, <2>1, <2>3 DEF KernelFits
  <2>4. QED
    BY <2>2, <2>3 DEF KernelFits
<1>9. FreshAfterReset'
  <2>1. ASSUME NEW c \in Calls, NEW j \in Kernels,
               ~handle'[j].dead, handle'[j].dir \in resetPending', call'[c].kern = j
        PROVE  \/ call'[c].pc = "post"
               \/ call'[c].pc \in {"waiting", "resolved"} /\ call'[c].hadReset
    <3>1. j # k /\ handle'[j] = handle[j]
      BY <1>1, <2>1
    <3>2. handle[j].dir \in resetPending
      <4> SUFFICES ASSUME handle[j].dir \notin resetPending PROVE FALSE
        OBVIOUS
      <4>1. kind \in {"timeout", "reset"} /\ handle[j].dir = handle[k].dir
        BY <2>1, <3>1 DEF Ends
      <4>2. ~handle[k].dead /\ handle[k].dir # NoDir
        <5>1. handle[k].pending # NoCall /\ handle[k].pending \in Calls
          BY <4>1, PendingIsCall DEF IInv
        <5>2. /\ ~handle[k].dead /\ call[handle[k].pending].pc = "waiting"
              /\ call[handle[k].pending].kern = k
          BY <5>1 DEF IInv, NoCallIsDropped
        <5>3. QED
          BY <5>1, <5>2 DEF IInv, CallIsPlaced
      <4>3. pool[handle[k].dir] = k /\ pool[handle[j].dir] = j
        BY <2>1, <3>1, <4>1, <4>2 DEF NoOrphan
      <4>4. QED
        BY <3>1, <4>1, <4>3
    <3>3. call[c].kern = j
      BY <1>2, <2>1
    <3>4. call'[c] = call[c]
      BY <1>2, <3>1, <3>3
    <3>5. QED
      BY <2>1, <3>1, <3>2, <3>3, <3>4 DEF FreshAfterReset
  <2>2. QED
    BY <2>1 DEF FreshAfterReset
<1>10. NoticeHolds'
  <2>1. \A c \in Calls :
          /\ call'[c].kern = call[c].kern /\ call'[c].hadReset = call[c].hadReset
          /\ call'[c].pc \in {"waiting", "resolved"} => call[c].pc \in {"waiting", "resolved"}
          /\ call'[c].pc = "done" => call[c].pc = "done"
    BY <1>2
  <2>2. ASSUME NEW c \in Calls, NEW o \in Calls, call'[c].pc \in {"waiting", "resolved"},
               call'[c].hadReset, call'[o].pc = "done"
        PROVE  call'[o].kern # call'[c].kern
    <3>1. /\ call[c].pc \in {"waiting", "resolved"} /\ call[c].hadReset
          /\ call[o].pc = "done"
      BY <2>1, <2>2
    <3>2. QED
      BY <2>1, <3>1 DEF NoticeHolds
  <2>3. QED
    BY <2>2 DEF NoticeHolds
<1>11. NoticeComesLast'
  BY <1>2 DEF NoticeComesLast
<1>12. QED
  BY <1>3, <1>4, <1>5, <1>6, <1>8, <1>9, <1>10, <1>11

-----------------------------------------------------------------------------
\* A response read: the pending call is resolved, all else of it kept.
LEMMA ReadAnswers ==
  ASSUME IInv, NEW k \in Kernels, Deliver(k) \/ Misread(k)
  PROVE  \E o \in Calls :
           /\ call[o].pc = "waiting" /\ call'[o].pc = "resolved"
           /\ UNCHANGED <<call[o].kern, call[o].dir, call[o].hadReset, call[o].notice>>
           /\ \A c \in Calls \ {o} : call'[c] = call[c]
<1>0. PICK o : o = handle[k].pending
  OBVIOUS
<1>1. /\ Readable(k) /\ o # NoCall
      /\ \/ Head(Arrived(k)) # Noise /\ Resolve(o, Head(Arrived(k)).kind, Head(Arrived(k)).from)
         \/ \E kind \in FrameKinds : Resolve(o, kind, NoCall)
  BY <1>0 DEF Deliver, Misread
<1>2. o \in Calls /\ call[o].pc = "waiting"
  BY <1>0, <1>1, PendingIsCall DEF IInv, NoCallIsDropped
<1>3. Head(Arrived(k)) \in Chunks
  BY <1>1, ChunkIsTyped
<1>4. PICK kind \in FrameKinds, from \in Calls \cup {NoCall} : Resolve(o, kind, from)
  BY <1>1, <1>3 DEF Chunks, FrameKinds
<1>5. /\ call'[o] = [call[o] EXCEPT !.pc = "resolved", !.kind = kind, !.from = from]
      /\ call'[o].pc = "resolved"
      /\ \A c \in Calls \ {o} : call'[c] = call[c]
  BY <1>2, <1>4, ResolvedCall DEF IInv
<1>6. call[o] \in CallState
  BY <1>2 DEF IInv, TypeOK
<1>7. /\ call'[o].kern = call[o].kern /\ call'[o].dir = call[o].dir
      /\ call'[o].hadReset = call[o].hadReset /\ call'[o].notice = call[o].notice
  <2> DEFINE r == [call[o] EXCEPT !.pc = "resolved", !.kind = kind, !.from = from]
  <2>1. /\ r.kern = call[o].kern /\ r.dir = call[o].dir
        /\ r.hadReset = call[o].hadReset /\ r.notice = call[o].notice
    BY <1>6 DEF CallState
  <2> HIDE DEF r
  <2>2. call'[o] = r
    BY <1>5 DEF r
  <2>3. QED
    BY <2>1, <2>2
<1>8. UNCHANGED <<call[o].kern, call[o].dir, call[o].hadReset, call[o].notice>>
  BY <1>7
<1>9. QED
  BY <1>2, <1>5, <1>8

LEMMA DataKeepsSerial ==
  ASSUME IInv, SInv, NEW k \in Kernels, KeepChunk(k) \/ Deliver(k) \/ Misread(k)
  PROVE  SInv'
<1>1. turn = NoCall
  BY DEF KeepChunk, Deliver, Misread, Readable, Settled
<1>2. UNCHANGED <<pool, resetPending>>
  BY DEF KeepChunk, Deliver, Misread, registry
<1>3. \A j \in Kernels : handle'[j].dead = handle[j].dead /\ handle'[j].dir = handle[j].dir
  <2>1. handle \in [Kernels -> HandleState] /\ handle[k] \in HandleState
    BY DEF IInv, TypeOK
  <2>2. PICK buf, pending : handle' = [handle EXCEPT ![k].buf = buf, ![k].pending = pending]
    <3>1. CASE KeepChunk(k)
      <4>1. handle' = [handle EXCEPT ![k].buf = Arrived(k)]
        BY <3>1 DEF KeepChunk
      <4>2. handle' = [handle EXCEPT ![k].buf = Arrived(k), ![k].pending = handle[k].pending]
        BY <2>1, <4>1 DEF HandleState
      <4>3. QED
        BY <4>2
    <3>2. CASE Deliver(k)
      BY <3>2 DEF Deliver
    <3>3. CASE Misread(k)
      <4>1. PICK rest : handle' = [handle EXCEPT ![k].pending = NoCall, ![k].buf = rest]
        BY <3>3 DEF Misread
      <4>2. handle' = [handle EXCEPT ![k].buf = rest, ![k].pending = NoCall]
        BY <2>1, <4>1
      <4>3. QED
        BY <4>2
    <3>4. QED
      BY <3>1, <3>2, <3>3
  <2>3. handle'[k] = [handle[k] EXCEPT !.buf = buf, !.pending = pending]
        /\ \A j \in Kernels \ {k} : handle'[j] = handle[j]
    BY <2>1, <2>2
  <2>4. QED
    BY <2>1, <2>3 DEF HandleState
<1>4. ASSUME NEW c \in Calls
      PROVE  \/ call'[c] = call[c]
             \/ /\ call[c].pc = "waiting" /\ call'[c].pc = "resolved"
                /\ UNCHANGED <<call[c].kern, call[c].dir, call[c].hadReset, call[c].notice>>
  <2>1. CASE KeepChunk(k)
    BY <2>1 DEF KeepChunk
  <2>2. CASE Deliver(k) \/ Misread(k)
    BY <2>2, ReadAnswers
  <2>3. QED
    BY <2>1, <2>2
<1>5. CallIsPlaced
  BY DEF IInv
<1>6. QED
  BY <1>1, <1>2, <1>3, <1>4, <1>5, MildStep

LEMMA NextKeepsSerial == IInv /\ SInv /\ Serial /\ [Next]_vars => SInv'
<1> SUFFICES ASSUME IInv, SInv, Serial, [Next]_vars PROVE SInv'
  OBVIOUS
<1>1. ASSUME UNCHANGED <<call, turn, pool, resetPending, handle>>
      PROVE  SInv'
  BY <1>1, MildStep DEF IInv
<1>2. CASE UNCHANGED vars
  BY <1>1, <1>2 DEF vars, server, registry
<1>d. CASE Dies
  BY <1>1, <1>d DEF Dies, registry
<1>3. ASSUME NEW c \in Calls, Arrive(c) \/ Chain(c) \/ Waits(c)
      PROVE  SInv'
  <2>1. CASE PostBrokenPipe(c)
    BY <1>d, <2>1 DEF PostBrokenPipe
  <2>2. QED
    BY <1>3, <2>1, QuietKeepsSerial, SpawnKeepsSerial, PostKeepsSerial
       DEF Chain, Waits, Quiet
<1>4. ASSUME \/ \E c \in Calls : TimerFires(c)
             \/ \E k \in Kernels : Garbled(k) \/ Close(k) \/ SpawnError(k)
      PROVE  SInv'
  <2>1. turn = NoCall
    BY <1>4 DEF TimerFires, Garbled, Close, SpawnError, Readable, Settled
  <2>2. QED
    BY <1>4, <2>1, EndsAKernel, EndsKeepSerial
<1>5. ASSUME NEW k \in Kernels, KeepChunk(k) \/ Deliver(k) \/ Misread(k)
      PROVE  SInv'
  BY <1>5, DataKeepsSerial
<1>6. ASSUME NEW k \in Kernels, Reap(k) \/ Process(k)
      PROVE  SInv'
  BY <1>1, <1>6
     DEF Reap, Process, KernelReply, StartWriter, StrayWrite, KernelCrash, Outside,
         server, registry
<1>7. QED
  BY <1>2, <1>d, <1>3, <1>4, <1>5, <1>6 DEF Next, Data, ReadsNull

LEMMA SerialInvariant == ASSUME Serial PROVE Spec => [](IInv /\ SInv)
<1>1. Init => IInv /\ SInv
  BY InitIInv, InitSerial
<1>2. (IInv /\ SInv) /\ [Next]_vars => (IInv /\ SInv)'
  BY NextIInv, NextKeepsSerial
<1>3. QED
  BY <1>1, <1>2, PTL DEF Spec

-----------------------------------------------------------------------------
\* With a client that sends one request at a time every kernel that can still
\* serve is registered: a later call finds its state, the exit handler kills it.
THEOREM NoneOrphaned == ASSUME Serial PROVE Spec => []NoOrphan
<1>1. IInv /\ SInv => NoOrphan
  BY DEF SInv
<1>2. QED
  BY <1>1, SerialInvariant, PTL

\* The notice "prior state lost" is only put on the first answer of a kernel
\* whose predecessor was killed.
THEOREM NoticesAreTrue == ASSUME Serial PROVE Spec => NoticeIsTrue
<1> DEFINE Truly == \A c \in Calls :
             Finishes(c) /\ call'[c].notice
             => \A o \in Calls : call[o].pc = "done" => call[o].kern # call[c].kern
<1>1. IInv /\ SInv /\ [Next]_vars => [Truly]_vars
  <2> SUFFICES ASSUME IInv, SInv, [Next]_vars, NEW c \in Calls,
                      Finishes(c), call'[c].notice,
                      NEW o \in Calls, call[o].pc = "done"
               PROVE  call[o].kern # call[c].kern
    OBVIOUS
  <2>1. call[c].pc # "done" /\ call'[c].pc = "done"
    BY DEF Finishes
  <2>2. Quiet(c)
    <3>1. CASE UNCHANGED vars
      BY <2>1, <3>1 DEF vars
    <3>2. ASSUME NEW x \in Calls, Quiet(x)
          PROVE  x = c
      BY <2>1, <3>2, QuietEffect
    <3>3. ASSUME NEW x \in Calls, Spawn(x) \/ Post(x) \/ PostBrokenPipe(x)
          PROVE  FALSE
      <4>1. CASE Spawn(x)
        BY <2>1, <4>1, SpawnEffect
      <4>2. CASE Post(x)
        BY <2>1, <4>2, PostEffect
      <4>3. CASE PostBrokenPipe(x)
        BY <2>1, <4>3 DEF PostBrokenPipe, Dies
      <4>4. QED
        BY <3>3, <4>1, <4>2, <4>3
    <3>4. ASSUME \/ \E x \in Calls : TimerFires(x)
                 \/ \E k \in Kernels : Garbled(k) \/ Close(k) \/ SpawnError(k)
          PROVE  FALSE
      <4>1. PICK k \in Kernels, kind \in {"timeout", "reset", "died", "spawn error"} :
              Ends(k, kind)
        BY <3>4, EndsAKernel
      <4>2. PICK armed : Retire(k, kind, armed)
        BY <4>1 DEF Ends
      <4>3. c = handle[k].pending
        BY <2>1, <4>2, RetireEffect
      <4>4. handle[k].pending # NoCall
        BY <4>3, IdentityAssumption
      <4>5. QED
        BY <2>1, <4>2, <4>3, <4>4, RetireEffect
    <3>5. ASSUME NEW k \in Kernels, Deliver(k) \/ Misread(k)
          PROVE  FALSE
      <4>1. PICK x \in Calls : call'[x].pc = "resolved"
                              /\ \A y \in Calls \ {x} : call'[y] = call[y]
        BY <3>5, ReadAnswers
      <4>2. QED
        BY <2>1, <4>1
    <3>6. ASSUME NEW k \in Kernels, KeepChunk(k) \/ ReadsNull(k) \/ Reap(k) \/ Process(k)
          PROVE  FALSE
      <4>1. call' = call
        BY <3>6 DEF KeepChunk, ReadsNull, Dies, Reap, Process, KernelReply, StartWriter, StrayWrite,
                    KernelCrash, Outside
      <4>2. QED
        BY <2>1, <4>1
    <3>7. QED
      BY <3>1, <3>2, <3>3, <3>4, <3>5, <3>6
         DEF Next, Data, Chain, Waits, Quiet
  <2>3. call[c].pc = "resolved" /\ call[c].hadReset
    <3>1. ~call[c].notice
      BY <2>1 DEF SInv, NoticeComesLast
    <3>2. QED
      BY <2>1, <2>2, <3>1, QuietCall
  <2>4. QED
    BY <2>3 DEF SInv, NoticeHolds
<1>2. QED
  BY <1>1, SerialInvariant, PTL DEF Spec, NoticeIsTrue

\* "One kernel per cwd" holds for a client that waits for each answer: what
\* run kernel_one_per_cwd refutes needs two requests under way.
THEOREM SerialOneKernelPerCwd == ASSUME Serial PROVE Spec => []OneKernelPerCwd
<1>1. NoOrphan => OneKernelPerCwd
  BY DEF NoOrphan, OneKernelPerCwd
<1>2. QED
  BY <1>1, NoneOrphaned, PTL

=============================================================================
