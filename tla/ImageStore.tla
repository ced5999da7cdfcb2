----------------------------- MODULE ImageStore -----------------------------
(***************************************************************************)
(* Images of the campaign (swebench/image_store.py and container.py): each *)
(* thread of the pool pins an instance's image in the digest manifest,     *)
(* pulls it, prepares the stripped snapshot once, and runs arm containers  *)
(* from it.  Every docker command may fail; the process may be killed and  *)
(* started again; the registry's `latest' tag may move at any time.        *)
(***************************************************************************)
EXTENDS Naturals, FiniteSets

CONSTANTS
  Instances,  \* one thread works on an instance at a time
  Digests,    \* the images the registry has had under an instance's tag
  None,
  Workers,    \* agent_max_workers
  MaxMoves    \* bound: times a tag moves in the registry

ASSUME StoreAssumption ==
  None \notin Digests /\ Workers \in Nat \ {0} /\ MaxMoves \in Nat

VARIABLES
  tag, moves, \* per instance: what `latest' means in the registry
  manifest, torn,  \* the manifest file; torn: its text is not JSON
  pulled,    \* per instance: the digests present in Docker's store
  latest,    \* per instance: what `latest' means in Docker's store, or None
  snapshot,  \* per instance: the image onlycodes/prepared:<instance>
  pc, digest, fresh, \* per instance: the locals of its thread
  copy,      \* per instance: the manifest as record_digest read it
  mixed,     \* threads whose truncated manifest another one has written to
  prep,      \* per instance: the prep container its thread works on
  committed  \* history: the manifest the repository came with

registry == <<tag, moves>>
thread == <<pc, digest, fresh, copy>>
file == <<manifest, torn, mixed>>
store == <<pulled, latest, snapshot>>
vars == <<registry, thread, file, store, prep, committed>>

\* A container or an image made of it: its base and what has been done to it.
Layers == [of : Digests, done : {"base", "stripped", "set up"}]
Nothing == [of |-> None, done |-> "base"]
Pins == [Instances -> Digests \cup {None}]
Empty == [i \in Instances |-> None]

TypeOK ==
  /\ tag \in [Instances -> Digests] /\ moves \in 0..MaxMoves
  /\ manifest \in Pins /\ committed \in Pins /\ latest \in Pins
  /\ torn \in BOOLEAN /\ mixed \subseteq Instances
  /\ pulled \in [Instances -> SUBSET Digests]
  /\ snapshot \in [Instances -> Layers \cup {Nothing}]
  /\ pc \in [Instances -> {"idle", "resolve", "pull", "read", "truncate", "write",
                           "base", "run", "strip", "setup", "commit", "remove",
                           "abandon", "start", "arm"}]
  /\ digest \in Pins /\ fresh \in [Instances -> BOOLEAN]
  /\ copy \in [Instances -> Pins]
  /\ prep \in [Instances -> Layers \cup {Nothing}]

Init ==
  /\ \E d \in Digests : tag = [i \in Instances |-> d]
  /\ moves = 0
  /\ \E known \in SUBSET Instances :
       manifest = [i \in Instances |-> IF i \in known THEN tag[i] ELSE None]
  /\ committed = manifest
  /\ torn = FALSE /\ mixed = {}
  /\ pulled = [i \in Instances |-> {}]
  /\ latest = [i \in Instances |-> None]
  /\ snapshot = [i \in Instances |-> Nothing]
  /\ pc = [i \in Instances |-> "idle"]
  /\ digest = [i \in Instances |-> None]
  /\ fresh = [i \in Instances |-> FALSE]
  /\ copy = [i \in Instances |-> Empty]
  /\ prep = [i \in Instances |-> Nothing]

-----------------------------------------------------------------------------
At(i, l) == pc[i] = l
Goes(i, l) == pc' = [pc EXCEPT ![i] = l]

\* The thread is done with the instance, in order or by an exception.
Leaves(i) ==
  /\ Goes(i, "idle")
  /\ digest' = [digest EXCEPT ![i] = None]
  /\ fresh' = [fresh EXCEPT ![i] = FALSE]
  /\ copy' = [copy EXCEPT ![i] = Empty]

\* A manifest whose text is not JSON reads as an empty one.
Read == [i \in Instances |-> IF torn THEN None ELSE manifest[i]]

Busy == {i \in Instances : pc[i] # "idle"}

\* ensure_image and pull_pinned: the pin of the manifest, if there is one.
Begin(i) ==
  /\ At(i, "idle") /\ Cardinality(Busy) < Workers
  /\ digest' = [digest EXCEPT ![i] = Read[i]]
  /\ fresh' = [fresh EXCEPT ![i] = Read[i] = None]
  /\ Goes(i, IF Read[i] = None THEN "resolve" ELSE "pull")
  /\ UNCHANGED <<registry, copy, file, store, prep, committed>>

Resolve(i) ==
  /\ At(i, "resolve")
  /\ digest' = [digest EXCEPT ![i] = tag[i]]
  /\ Goes(i, "pull")
  /\ UNCHANGED <<registry, fresh, copy, file, store, prep, committed>>

\* The pull by digest, unless the image is there; its retries are one step.
RecordFirst(i) ==   \* mutated form: the pin is recorded whether or not it is pulled
  /\ At(i, "pull")
  /\ \E got \in BOOLEAN : pulled' = IF got THEN [pulled EXCEPT ![i] = @ \cup {digest[i]}] ELSE pulled
  /\ Goes(i, IF fresh[i] THEN "read" ELSE "base")
  /\ UNCHANGED <<registry, digest, fresh, copy, file, latest, snapshot, prep, committed>>

Pull(i) ==
  /\ At(i, "pull")
  /\ pulled' = [pulled EXCEPT ![i] = @ \cup {digest[i]}]
  /\ Goes(i, IF fresh[i] THEN "read" ELSE "base")
  /\ UNCHANGED <<registry, digest, fresh, copy, file, latest, snapshot, prep, committed>>

\* Not enough disk, no digest, no image, no base, no container: an exception
\* before there is anything to clean up.
Abort(i) ==
  /\ \/ pc[i] \in {"resolve", "pull", "run", "start"}
     \/ At(i, "base") /\ snapshot[i] = Nothing /\ latest[i] = None
  /\ Leaves(i)
  /\ UNCHANGED <<registry, file, store, prep, committed>>

\* record_digest: read the file, truncate it, write what was read and the pin.
ReadManifest(i) ==
  /\ At(i, "read")
  /\ copy' = [copy EXCEPT ![i] = Read]
  /\ Goes(i, "truncate")
  /\ UNCHANGED <<registry, digest, fresh, file, store, prep, committed>>

Truncate(i) ==
  /\ At(i, "truncate")
  /\ torn' = TRUE
  /\ Goes(i, "write")
  /\ UNCHANGED <<registry, digest, fresh, copy, manifest, mixed, store, prep, committed>>

\* Over what another thread wrote meanwhile, the text may be left longer than
\* it should be, and then it is not JSON.
Write(i) ==
  /\ At(i, "write")
  /\ manifest' = [copy[i] EXCEPT ![i] = digest[i]]
  /\ torn' \in (IF i \in mixed THEN BOOLEAN ELSE {FALSE})
  /\ mixed' = {j \in Instances \ {i} : j \in mixed \/ pc[j] = "write"}
  /\ Goes(i, "base")
  /\ copy' = [copy EXCEPT ![i] = Empty]
  /\ UNCHANGED <<registry, digest, fresh, store, prep, committed>>

-----------------------------------------------------------------------------
\* prepare_instance: the snapshot is reused, else `latest' is, else pulled.
BaseAnew(i) ==   \* mutated form: neither the snapshot nor the local image is looked for
  /\ At(i, "base")
  /\ latest' = [latest EXCEPT ![i] = tag[i]]
  /\ Goes(i, "run")
  /\ UNCHANGED <<registry, digest, fresh, copy, file, pulled, snapshot, prep, committed>>

BaseUnpulled(i) ==   \* mutated form: the pinned pull is taken to provide `latest'
  /\ At(i, "base")
  /\ Goes(i, IF snapshot[i] # Nothing THEN "start" ELSE "run")
  /\ UNCHANGED <<registry, digest, fresh, copy, file, store, prep, committed>>

Base(i) ==
  /\ At(i, "base")
  /\ latest' = IF snapshot[i] # Nothing \/ latest[i] # None THEN latest
               ELSE [latest EXCEPT ![i] = tag[i]]
  /\ Goes(i, IF snapshot[i] # Nothing THEN "start" ELSE "run")
  /\ UNCHANGED <<registry, digest, fresh, copy, file, pulled, snapshot, prep, committed>>

RunPrep(i) ==
  /\ At(i, "run")
  /\ prep' = [prep EXCEPT ![i] = [of |-> latest[i], done |-> "base"]]
  /\ Goes(i, "strip")
  /\ UNCHANGED <<registry, digest, fresh, copy, file, store, committed>>

\* The history is stripped, then the agent's user and file owners are set up, as
\* far as exit codes tell: the script passes over a ref it could not delete.
Strip(i) ==
  /\ At(i, "strip")
  /\ prep' = [prep EXCEPT ![i].done = "stripped"]
  /\ Goes(i, "setup")
  /\ UNCHANGED <<registry, digest, fresh, copy, file, store, committed>>

Setup(i) ==
  /\ At(i, "setup")
  /\ prep' = [prep EXCEPT ![i].done = "set up"]
  /\ Goes(i, "commit")
  /\ UNCHANGED <<registry, digest, fresh, copy, file, store, committed>>

Commit(i) ==
  /\ At(i, "commit")
  /\ snapshot' = [snapshot EXCEPT ![i] = prep[i]]
  /\ Goes(i, "remove")
  /\ UNCHANGED <<registry, digest, fresh, copy, file, pulled, latest, prep, committed>>

\* A failed command of the three, a strip that fails half-way included: the
\* `finally' runs and the exception goes on.
ToCommit(i) ==   \* mutated form: a failed set-up command is not noticed
  /\ pc[i] \in {"strip", "setup"}
  /\ Goes(i, "commit")
  /\ UNCHANGED <<registry, digest, fresh, copy, file, store, prep, committed>>

PrepFails(i) ==
  /\ pc[i] \in {"strip", "setup", "commit"}
  /\ Goes(i, "abandon")
  /\ UNCHANGED <<registry, digest, fresh, copy, file, store, prep, committed>>

\* _rm_force: the thread is done with the container, whether or not `docker rm'
\* could remove it; what stays is never looked for again.
Remove(i) ==
  /\ prep' = [prep EXCEPT ![i] = Nothing]
  /\ \/ At(i, "remove") /\ Goes(i, "start") /\ UNCHANGED <<digest, fresh, copy>>
     \/ At(i, "abandon") /\ Leaves(i)
  /\ UNCHANGED <<registry, file, store, committed>>

-----------------------------------------------------------------------------
\* start_arm_container, from the snapshot.
StartArm(i) ==
  /\ At(i, "start")
  /\ Goes(i, "arm")
  /\ UNCHANGED <<registry, digest, fresh, copy, file, store, prep, committed>>

\* The turn is over: its record names `digest'; teardown.  The next arm starts,
\* or the thread is done with the instance.
EndArm(i) ==
  /\ At(i, "arm")
  /\ \/ Goes(i, "start") /\ UNCHANGED <<digest, fresh, copy>>
     \/ Leaves(i)
  /\ UNCHANGED <<registry, file, store, prep, committed>>

\* The process is killed: the file and the images stay (as do its containers,
\* which nothing removes and nothing uses).
Kill ==
  /\ Busy # {}
  /\ pc' = [i \in Instances |-> "idle"]
  /\ digest' = Empty /\ copy' = [i \in Instances |-> Empty]
  /\ fresh' = [i \in Instances |-> FALSE]
  /\ prep' = [i \in Instances |-> Nothing]
  /\ mixed' = {}
  /\ UNCHANGED <<registry, manifest, torn, store, committed>>

MoveTag(i) ==
  /\ moves < MaxMoves /\ moves' = moves + 1
  /\ \E d \in Digests \ {tag[i]} : tag' = [tag EXCEPT ![i] = d]
  /\ UNCHANGED <<thread, file, store, prep, committed>>

Ensure(i) == Begin(i) \/ Resolve(i) \/ Pull(i) \/ ReadManifest(i) \/ Truncate(i) \/ Write(i)
Prepare(i) == Base(i) \/ RunPrep(i) \/ Strip(i) \/ Setup(i) \/ Commit(i) \/ PrepFails(i) \/ Remove(i)
Arm(i) == StartArm(i) \/ EndArm(i)

Next == Kill \/ \E i \in Instances : Ensure(i) \/ Prepare(i) \/ Arm(i) \/ Abort(i) \/ MoveTag(i)

Spec == Init /\ [][Next]_vars

-----------------------------------------------------------------------------
\* A digest enters the manifest only after its image was pulled, whoever reads,
\* merges and writes the file: what is pinned can be run again.
PinIsReal ==
  \A i \in Instances : manifest[i] \in {None, committed[i]} \cup pulled[i]

\* A snapshot is used for ever once it exists, so one made half-way must never
\* exist: every command that strips it and gives it to the agent's user succeeded.
SnapshotIsWhole ==
  \A i \in Instances : snapshot[i] # Nothing => snapshot[i].done = "set up"

\* All arms and runs of an instance start from the same image, restarts and
\* moved tags notwithstanding: their results can be compared.
ArmsAreComparable ==
  [][\A i \in Instances : snapshot[i] # Nothing => snapshot'[i] = snapshot[i]]_vars

\* "Runs are reproducible against an exact image, not a moving tag": the digest
\* an arm's record will name is that of the image its agent runs on.
RanWhatIsRecorded ==
  \A i \in Instances : pc[i] = "arm" => digest[i] = snapshot[i].of

=============================================================================
