-------------------------- MODULE ImageStoreProofs --------------------------
(***************************************************************************)
(* Proofs about ImageStore, for any instances, digests, workers and moves  *)
(* of a tag: pins are of pulled images, a snapshot is whole and is never   *)
(* replaced, and without a move a record names what ran.  The inductive    *)
(* invariant follows a thread from the pin to the snapshot.                *)
(***************************************************************************)
EXTENDS ImageStore, TLAPS

\* What may stand in the manifest for instance j.
Known(j) == {None, committed[j]} \cup pulled[j]

\* The thread that records a pin has pulled the image, and merges the pin into
\* what the file said.
PinInv(i) ==
  /\ pc[i] \in {"pull", "read", "truncate", "write"} => digest[i] \in Digests
  /\ pc[i] \in {"read", "truncate", "write"} => digest[i] \in pulled[i]
  /\ pc[i] \in {"truncate", "write"} => \A j \in Instances : copy[i][j] \in Known(j)

\* A prep container is worked on only while the instance has no snapshot, and is
\* committed when all was done to it.
PrepInv(i) ==
  /\ pc[i] \in {"run", "strip", "setup", "commit"} => snapshot[i] = Nothing
  /\ pc[i] = "run" => latest[i] \in Digests
  /\ pc[i] \in {"strip", "setup", "commit"} => prep[i] \in Layers
  /\ pc[i] = "commit" => prep[i].done = "set up"

IInv ==
  /\ TypeOK /\ PinIsReal /\ SnapshotIsWhole
  /\ \A i \in Instances : PinInv(i) /\ PrepInv(i)

-----------------------------------------------------------------------------
USE StoreAssumption

\* `Nothing' is no layer, so a snapshot is told from its absence.
LEMMA NothingIsNoLayer == Nothing \notin Layers
  BY DEF Nothing, Layers

\* What `docker run' makes of an image and a command makes of a container.
LEMMA LayersGrow ==
  /\ \A d \in Digests : [of |-> d, done |-> "base"] \in Layers
  /\ \A l \in Layers : /\ [l EXCEPT !.done = "stripped"] \in Layers
                       /\ [l EXCEPT !.done = "set up"] \in Layers
                       /\ [l EXCEPT !.done = "set up"].done = "set up"
  BY DEF Layers

LEMMA InitInv == Init => IInv
<1> SUFFICES ASSUME Init PROVE IInv
  OBVIOUS
<1>1. Empty \in Pins /\ [i \in Instances |-> None] \in Pins
  BY DEF Pins, Empty
<1>2. tag \in [Instances -> Digests] /\ manifest \in Pins
  BY DEF Init, Pins
<1>3. TypeOK
  <2>1. tag \in [Instances -> Digests] /\ moves \in 0..MaxMoves
    BY <1>2 DEF Init
  <2>2. /\ manifest \in Pins /\ committed \in Pins /\ latest \in Pins /\ digest \in Pins
        /\ copy \in [Instances -> Pins]
    BY <1>1, <1>2 DEF Init
  <2> QED
    BY <2>1, <2>2 DEF Init, TypeOK
<1>4. PinIsReal /\ SnapshotIsWhole
  BY DEF Init, PinIsReal, SnapshotIsWhole
<1>5. \A i \in Instances : PinInv(i) /\ PrepInv(i)
  BY DEF Init, PinInv, PrepInv
<1> QED
  BY <1>3, <1>4, <1>5 DEF IInv

\* ensure_image, pull_pinned and record_digest.
LEMMA EnsureStep == ASSUME IInv, NEW i \in Instances, Ensure(i) PROVE IInv'
<1> USE DEF IInv, TypeOK, PinIsReal, SnapshotIsWhole, PinInv, PrepInv, Known, Pins, At, Goes,
            registry, thread, file, store
<1>1. CASE Begin(i)
  BY <1>1 DEF Begin, Read
<1>2. CASE Resolve(i)
  BY <1>2 DEF Resolve
<1>3. CASE Pull(i)
  BY <1>3 DEF Pull
<1>4. CASE ReadManifest(i)
  BY <1>4 DEF ReadManifest, Read
<1>5. CASE Truncate(i)
  BY <1>5 DEF Truncate
<1>6. CASE Write(i)
  BY <1>6 DEF Write, Empty
<1> QED
  BY <1>1, <1>2, <1>3, <1>4, <1>5, <1>6 DEF Ensure

\* A thread that leaves an instance keeps nothing of it.
LEMMA LeavesStep ==
  ASSUME IInv, NEW i \in Instances, Leaves(i),
         prep' = prep \/ prep' = [prep EXCEPT ![i] = Nothing],
         UNCHANGED <<registry, file, store, committed>>
  PROVE  IInv'
<1>1. TypeOK'
  BY DEF IInv, TypeOK, Leaves, Goes, Pins, Empty, registry, file, store
<1>2. PinIsReal' /\ SnapshotIsWhole'
  BY DEF IInv, PinIsReal, SnapshotIsWhole, file, store
<1>3. ASSUME NEW j \in Instances PROVE PinInv(j)' /\ PrepInv(j)'
  <2>1. CASE j = i
    BY <2>1 DEF IInv, TypeOK, PinInv, PrepInv, Leaves, Goes
  <2>2. CASE j # i
    <3>1. /\ pc'[j] = pc[j] /\ digest'[j] = digest[j] /\ copy'[j] = copy[j] /\ prep'[j] = prep[j]
          /\ pulled' = pulled /\ committed' = committed /\ snapshot' = snapshot /\ latest' = latest
      BY <2>2 DEF IInv, TypeOK, Leaves, Goes, store
    <3> QED
      BY <3>1 DEF IInv, PinInv, PrepInv, Known
  <2> QED
    BY <2>1, <2>2
<1> QED
  BY <1>1, <1>2, <1>3 DEF IInv

\* prepare_instance.
LEMMA RemoveStep == ASSUME IInv, NEW i \in Instances, Remove(i) PROVE IInv'
<1>1. CASE Leaves(i)
  BY <1>1, LeavesStep DEF Remove
<1>2. CASE At(i, "remove") /\ Goes(i, "start") /\ UNCHANGED <<digest, fresh, copy>>
  <2>1. TypeOK'
    BY <1>2 DEF IInv, TypeOK, Remove, Goes, registry, file, store
  <2>2. PinIsReal' /\ SnapshotIsWhole'
    BY <1>2 DEF Remove, IInv, PinIsReal, SnapshotIsWhole, file, store
  <2>3. ASSUME NEW j \in Instances PROVE PinInv(j)' /\ PrepInv(j)'
    BY <1>2 DEF IInv, TypeOK, Remove, PinInv, PrepInv, Known, Goes, file, store
  <2> QED
    BY <2>1, <2>2, <2>3 DEF IInv
<1> QED
  BY <1>1, <1>2 DEF Remove

LEMMA PrepareStep == ASSUME IInv, NEW i \in Instances, Prepare(i) PROVE IInv'
<1> USE NothingIsNoLayer DEF IInv, TypeOK, PinIsReal, SnapshotIsWhole, PinInv, PrepInv, Known,
            Pins, At, Goes, registry, thread, file, store
<1>1. CASE Base(i)
  BY <1>1 DEF Base
<1>2. CASE RunPrep(i)
  BY <1>2, LayersGrow DEF RunPrep
<1>3. CASE Strip(i)
  BY <1>3, LayersGrow DEF Strip
<1>4. CASE Setup(i)
  BY <1>4, LayersGrow DEF Setup
<1>5. CASE Commit(i)
  BY <1>5 DEF Commit
<1>6. CASE PrepFails(i)
  BY <1>6 DEF PrepFails
<1> QED
  BY <1>1, <1>2, <1>3, <1>4, <1>5, <1>6, RemoveStep DEF Prepare

LEMMA TagMoves ==
  ASSUME TypeOK, NEW i \in Instances, MoveTag(i)
  PROVE  tag' \in [Instances -> Digests] /\ moves' \in 0..MaxMoves
<1>1. moves \in 0..MaxMoves /\ moves < MaxMoves /\ moves' = moves + 1
  BY DEF TypeOK, MoveTag
<1>2. moves' \in 0..MaxMoves
  BY <1>1
<1>3. tag' \in [Instances -> Digests]
  BY DEF TypeOK, MoveTag
<1> QED
  BY <1>2, <1>3

\* Arms, exceptions, kills and the registry.
LEMMA OtherStep ==
  ASSUME IInv, Kill \/ \E i \in Instances : Arm(i) \/ Abort(i) \/ MoveTag(i) PROVE IInv'
<1>1. ASSUME NEW i \in Instances, EndArm(i), Leaves(i) PROVE IInv'
  BY <1>1, LeavesStep DEF EndArm
<1>2. ASSUME NEW i \in Instances, Abort(i) PROVE IInv'
  BY <1>2, LeavesStep DEF Abort
<1> USE DEF IInv, TypeOK, PinIsReal, SnapshotIsWhole, PinInv, PrepInv, Known,
            Pins, At, Goes, registry, thread, file, store, Empty
<1>3. CASE Kill
  BY <1>3 DEF Kill
<1>4. ASSUME NEW i \in Instances, StartArm(i) PROVE IInv'
  BY <1>4 DEF StartArm
<1>5. ASSUME NEW i \in Instances, EndArm(i), ~Leaves(i) PROVE IInv'
  <2>1. /\ pc[i] = "arm" /\ pc' = [pc EXCEPT ![i] = "start"]
        /\ UNCHANGED <<digest, fresh, copy, registry, file, store, prep, committed>>
    BY <1>5 DEF EndArm
  <2> QED
    BY <2>1
<1>6. ASSUME NEW i \in Instances, MoveTag(i) PROVE IInv'
  <2>1. tag' \in [Instances -> Digests] /\ moves' \in 0..MaxMoves
    BY <1>6, TagMoves
  <2>2. UNCHANGED <<thread, file, store, prep, committed>>
    BY <1>6 DEF MoveTag
  <2> QED
    BY <2>1, <2>2
<1> QED
  BY <1>1, <1>2, <1>3, <1>4, <1>5, <1>6 DEF Arm

LEMMA StepInv == IInv /\ [Next]_vars => IInv'
<1> SUFFICES ASSUME IInv, [Next]_vars PROVE IInv'
  OBVIOUS
<1>1. CASE Next
  BY <1>1, EnsureStep, PrepareStep, OtherStep DEF Next
<1>2. CASE UNCHANGED vars
  BY <1>2 DEF vars, registry, thread, file, store, IInv, TypeOK, PinIsReal, SnapshotIsWhole,
              PinInv, PrepInv, Known
<1> QED
  BY <1>1, <1>2

\* The inductive invariant holds.
THEOREM Invariant == Spec => []IInv
  BY InitInv, StepInv, PTL DEF Spec

\* Type correctness: a commit is never of no container, a prep container is of
\* an image that `docker run' found.
THEOREM TypeCorrect == Spec => []TypeOK
  BY Invariant, PTL DEF IInv

\* Whoever reads, merges and writes the manifest in whatever order, and
\* whenever the process is killed, a pin in it is of an image that was pulled.
THEOREM PinsAreReal == Spec => []PinIsReal
  BY Invariant, PTL DEF IInv

\* No failed strip or set-up command leads to a snapshot.
THEOREM SnapshotsAreWhole == Spec => []SnapshotIsWhole
  BY Invariant, PTL DEF IInv

\* All arms of an instance start from one image: a snapshot is never replaced.
THEOREM ArmsCompare == Spec => ArmsAreComparable
<1> DEFINE Kept == \A i \in Instances : snapshot[i] # Nothing => snapshot'[i] = snapshot[i]
<1>1. IInv /\ [Next]_vars => [Kept]_vars
  <2> SUFFICES ASSUME IInv, Next PROVE Kept
    OBVIOUS
  <2>1. ASSUME NEW i \in Instances, Commit(i) PROVE Kept
    BY <2>1 DEF Commit, IInv, TypeOK, PrepInv, At
  <2>2. UNCHANGED snapshot => Kept
    OBVIOUS
  <2> QED
    BY <2>1, <2>2 DEF Next, Ensure, Prepare, Arm, Begin, Resolve, Pull, ReadManifest, Truncate,
       Write, Base, RunPrep, Strip, Setup, PrepFails, Remove, StartArm, EndArm, Abort, MoveTag,
       Kill, store
<1> QED
  BY <1>1, Invariant, PTL DEF Spec, ArmsAreComparable

-----------------------------------------------------------------------------
(***************************************************************************)
(* The record names one digest, the agent runs another: only a tag that    *)
(* moves can bring that about.  As long as none has, everything that is    *)
(* pinned, pulled, tagged, snapshotted or merged is what `latest' means.   *)
(***************************************************************************)
Same(i, d) == d \in {None, tag[i]}

Pinning == {"pull", "read", "truncate", "write", "base", "run", "strip", "setup", "commit"}

\* The thread has its digest from the pin to the last arm, and from the commit
\* on there is a snapshot.
PinnedInv(i) ==
  /\ Same(i, manifest[i]) /\ Same(i, digest[i]) /\ Same(i, latest[i])
  /\ Same(i, snapshot[i].of) /\ Same(i, prep[i].of)
  /\ \A j \in Instances : Same(i, copy[j][i])
  /\ pc[i] \in Pinning \cup {"remove", "start", "arm"} => digest[i] = tag[i]
  /\ pc[i] \in {"remove", "start", "arm"} => snapshot[i] # Nothing

StillInv == moves = 0 => \A i \in Instances : PinnedInv(i)

LEMMA LeavesStill ==
  ASSUME IInv, StillInv, NEW i \in Instances, Leaves(i),
         prep' = prep \/ prep' = [prep EXCEPT ![i] = Nothing],
         UNCHANGED <<registry, file, store>>
  PROVE  StillInv'
<1> SUFFICES ASSUME moves = 0, NEW j \in Instances PROVE PinnedInv(j)'
  BY DEF StillInv, registry
<1>1. /\ UNCHANGED <<tag, manifest, latest, snapshot>>
      /\ \A k \in Instances : copy'[k] = copy[k] \/ copy'[k] = Empty
      /\ prep'[j] = prep[j] \/ prep'[j] = Nothing
  BY DEF Leaves, IInv, TypeOK, registry, file, store
<1>2. \A k \in Instances : Same(j, copy'[k][j])
  BY <1>1 DEF StillInv, PinnedInv, Same, Empty
<1>3. \/ pc'[j] = "idle" /\ digest'[j] = None
      \/ pc'[j] = pc[j] /\ digest'[j] = digest[j]
  BY DEF Leaves, Goes, IInv, TypeOK, Pins
<1>4. PinnedInv(j) /\ Nothing.of = None
  BY DEF StillInv, Nothing
<1>5. Same(j, manifest[j])' /\ Same(j, digest[j])' /\ Same(j, latest[j])'
  BY <1>1, <1>3, <1>4 DEF PinnedInv, Same
<1>6. Same(j, snapshot[j].of)' /\ Same(j, prep[j].of)'
  BY <1>1, <1>4 DEF PinnedInv, Same
<1>7. (\A k \in Instances : Same(j, copy[k][j]))'
  BY <1>1, <1>2 DEF Same
<1>q. QED BY <1>1, <1>3, <1>4, <1>5, <1>6, <1>7 DEF PinnedInv, Pinning

LEMMA EnsureStill == ASSUME IInv, StillInv, NEW i \in Instances, Ensure(i) PROVE StillInv'
<1> SUFFICES ASSUME moves = 0, NEW j \in Instances PROVE PinnedInv(j)'
  BY DEF StillInv, Ensure, Begin, Resolve, Pull, ReadManifest, Truncate, Write, registry
<1> USE DEF IInv, TypeOK, StillInv, PinnedInv, Same, Pins, Pinning, At, Goes,
            registry, thread, file, store
<1>1. CASE Begin(i)
  BY <1>1 DEF Begin, Read
<1>2. CASE Resolve(i)
  BY <1>2 DEF Resolve
<1>3. CASE Pull(i)
  BY <1>3 DEF Pull
<1>4. CASE ReadManifest(i)
  BY <1>4 DEF ReadManifest, Read
<1>5. CASE Truncate(i)
  BY <1>5 DEF Truncate
<1>6. CASE Write(i)
  BY <1>6 DEF Write, Empty
<1>q. QED BY <1>1, <1>2, <1>3, <1>4, <1>5, <1>6 DEF Ensure

LEMMA RemoveStill == ASSUME IInv, StillInv, NEW i \in Instances, Remove(i) PROVE StillInv'
<1>1. CASE Leaves(i)
  BY <1>1, LeavesStill DEF Remove
<1>2. CASE At(i, "remove") /\ Goes(i, "start") /\ UNCHANGED <<digest, fresh, copy>>
  BY <1>2 DEF Remove, IInv, TypeOK, StillInv, PinnedInv, Same, Pinning, Nothing, At, Goes,
              registry, file, store
<1>q. QED BY <1>1, <1>2 DEF Remove

\* A step of the prep container, whose image the tag has named.
LEMMA ByPrep ==
  ASSUME StillInv, NEW i \in Instances, NEW l \in Pinning, pc[i] \in Pinning,
         IInv, Goes(i, l), UNCHANGED <<registry, digest, fresh, copy, file, store>>,
         \A j \in Instances : prep'[j].of \in {prep[j].of, latest[j]}
  PROVE  StillInv'
BY DEF StillInv, PinnedInv, Same, Pinning, Goes, IInv, TypeOK, registry, file, store

\* The base is what is tagged here, else what is tagged in the registry; a
\* thread that goes straight to its arms has found the snapshot.
LEMMA PrepareStill == ASSUME IInv, StillInv, NEW i \in Instances, Prepare(i) PROVE StillInv'
<1>0. pc[i] = "commit" => prep[i] # Nothing
  BY NothingIsNoLayer DEF IInv, PrepInv
<1>1a. pc[i] \in {"strip", "setup"} => prep[i] \in Layers
  BY DEF IInv, PrepInv
<1>1b. prep \in [Instances -> Layers \cup {Nothing}]
  BY DEF IInv, TypeOK
<1>3. CASE Strip(i) \/ Setup(i)
  <2>1. PICK done : prep' = [prep EXCEPT ![i].done = done]
    BY <1>3 DEF Strip, Setup
  <2>2. [prep[i] EXCEPT !.done = done].of = prep[i].of
    BY <1>3, <1>1a DEF Strip, Setup, At, Layers
  <2>3. \A j \in Instances : prep'[j].of = prep[j].of
    BY <2>1, <2>2, <1>1b
  <2>q. QED BY <1>3, <2>3, ByPrep DEF Strip, Setup, At, Pinning
<1> USE DEF IInv, TypeOK, StillInv, PinnedInv, Same, Pins, Pinning, At, Goes, registry, thread,
            file, store
<1>1. CASE Base(i)
  BY <1>1 DEF Base
<1>2. CASE RunPrep(i)
  <2>1. \A j \in Instances : prep'[j].of \in {prep[j].of, latest[j]}
    BY <1>2 DEF RunPrep
  <2>q. QED BY <1>2, <2>1, ByPrep DEF RunPrep
<1>5. CASE Commit(i)
  BY <1>0, <1>5 DEF Commit
<1>6. CASE PrepFails(i)
  BY <1>6 DEF PrepFails
<1>q. QED BY <1>1, <1>2, <1>3, <1>5, <1>6, RemoveStill DEF Prepare

\* Arms, exceptions and kills leave what is pinned alone; a tag that moves ends
\* the claim.
LEMMA OtherStill ==
  ASSUME IInv, StillInv, Kill \/ \E i \in Instances : Arm(i) \/ Abort(i) \/ MoveTag(i)
  PROVE  StillInv'
<1>1. ASSUME NEW i \in Instances, Abort(i) \/ (EndArm(i) /\ Leaves(i)) PROVE StillInv'
  BY <1>1, LeavesStill DEF Abort, EndArm
<1>2. ASSUME NEW i \in Instances, StartArm(i) \/ (EndArm(i) /\ ~Leaves(i)) PROVE StillInv'
  BY <1>2 DEF StartArm, EndArm, IInv, TypeOK, StillInv, PinnedInv, Same, Pinning, At, Goes,
              registry, file, store
<1>3. CASE Kill
  BY <1>3 DEF Kill, IInv, TypeOK, StillInv, PinnedInv, Same, Pinning, Nothing, Empty, registry,
              store
<1>4. ASSUME NEW i \in Instances, MoveTag(i) PROVE StillInv'
  <2>1. moves \in Nat /\ moves' = moves + 1
    BY <1>4 DEF MoveTag, IInv, TypeOK
  <2>q. QED BY <2>1 DEF StillInv
<1>q. QED BY <1>1, <1>2, <1>3, <1>4 DEF Arm

LEMMA StepStill == IInv /\ StillInv /\ [Next]_vars => StillInv'
<1>1. ASSUME StillInv, UNCHANGED vars PROVE StillInv'
  BY <1>1 DEF StillInv, PinnedInv, Same, vars, registry, thread, file, store
<1>q. QED BY <1>1, EnsureStill, PrepareStill, OtherStill DEF Next

\* "Runs are reproducible against an exact image, not a moving tag": an arm's
\* record names the image its agent ran on for as long as no tag has moved in
\* the registry; the run image_digest shows what one move is enough for.
THEOREM UnmovedIsRecorded == Spec => [](moves = 0 => RanWhatIsRecorded)
<1>1. Init => StillInv
  BY DEF Init, StillInv, PinnedInv, Same, Nothing, Empty, Pinning
<1>2. IInv /\ StillInv => (moves = 0 => RanWhatIsRecorded)
  <2> SUFFICES ASSUME IInv, StillInv, moves = 0, NEW i \in Instances, pc[i] = "arm"
               PROVE  digest[i] = snapshot[i].of
    BY DEF RanWhatIsRecorded
  <2>1. snapshot[i] \in Layers
    BY DEF IInv, TypeOK, StillInv, PinnedInv
  <2>2. snapshot[i].of # None
    BY <2>1 DEF Layers
  <2>q. QED BY <2>2 DEF StillInv, PinnedInv, Same
<1>q. QED BY <1>1, <1>2, InitInv, StepInv, StepStill, PTL DEF Spec

=============================================================================
