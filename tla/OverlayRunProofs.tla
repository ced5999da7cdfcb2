-------------------------- MODULE OverlayRunProofs --------------------------
(***************************************************************************)
(* Proofs about OverlayRun, for every number of problems, triples,         *)
(* commands and faults: what an agent's tree and environment are, whether  *)
(* what a verdict says was earned, what is left mounted, and that the      *)
(* results directory implements Campaign.                                  *)
(***************************************************************************)
EXTENDS OverlayRun, TLAPS

\* Where a problem's thread can be while a command runs.
OffArms == {"idle", "remove"} \cup Building
PlaceFits(p) ==
  /\ job[p].at \in OffArms => job[p].has = "nothing" /\ job[p].todo = {}
  /\ cmd.is = "none" => job[p].at = "idle"
  /\ cmd.is = "build" => job[p].at \in {"idle"} \cup Building
  /\ cmd.is \in {"clean", "clean bare"} => job[p].at \in {"idle", "remove"}
  /\ cmd.is = "setup" => job[p].at \in Setting
  /\ cmd.is = "arms" => job[p].at \in Arming

\* Before the bare repository goes, so does every checkout.
RepoFits(p) ==
  /\ entry[p].repo => bare = "whole"
  /\ cmd.is = "clean bare" /\ job[p].at = "idle" => ~entry[p].repo

\* Nothing is mounted where something is about to be.  What an arm starts from
\* is fresh; what it starts from used, nothing refreshes: a clone, or an overlay
\* without a handle, which only a failed refresh makes.
Touched == {"used", "edited", "tested"}
LeftOver(p) ==
  \/ tree[p] \in Touched /\ Unrefreshed(p) /\ HadTurn(p)
  \/ tree[p] = "none" /\ broke
TreeFits(p) ==
  /\ job[p].at \in {"look", "purge", "refill", "relock", "mount"} =>
       tree[p] = "none" /\ job[p].has = "nothing"
  /\ job[p].at = "set" /\ job[p].has # "nothing" => tree[p] = "pristine"
  /\ job[p].at = "remount" => tree[p] = "none"
  /\ job[p].at \in {"wait", "next", "agent", "remount"} => job[p].has # "nothing"
  /\ job[p].at \in {"wait", "next", "agent"} => tree[p] = "pristine" \/ LeftOver(p)
  /\ job[p].at = "agent" => tree[p] # "used"
  /\ job[p].has = "overlay" /\ p \notin handles => broke

\* An environment that was verified or built in this invocation is whole, and
\* it is known how an agent's packages came to be in it.
Vouched(e, iso) ==
  LET base == Base(e, iso) IN
    /\ base.is \in {"whole", "spoiled"}
    /\ iso /\ base.is = "spoiled" => base.home = "lower" \/ e.lock = "spoiled"
EnvironmentFits(p) ==
  /\ job[p].at = "relock" => Base(entry[p], cmd.iso).is = "whole"
  /\ job[p].at = "mount" \/ job[p].has = "overlay" => Vouched(entry[p], cmd.iso)

TasksFit(p) ==
  /\ \A t \in job[p].todo : verdict[p][t] = "open"
  /\ job[p].at = "agent" => job[p].now \in job[p].todo /\ turns[p][job[p].now] > 0

\* A lockfile is written over an environment that was built.
LockFits(p) == job[p].at \in {"lock", "write"} /\ ~mounted[p] => Reused(entry[p].venv)

Fits(p) == PlaceFits(p) /\ RepoFits(p) /\ LockFits(p)
           /\ TreeFits(p) /\ EnvironmentFits(p) /\ TasksFit(p)

\* Only a pool goes on after a refresh has failed.
BrokeInPool == cmd.is \in {"setup", "arms"} /\ broke => cmd.wide

IInv == TypeOK /\ BrokeInPool /\ \A p \in Problems : Fits(p)

-----------------------------------------------------------------------------
(***************************************************************************)
(* The cache's entries.                                                    *)
(***************************************************************************)
LEMMA EntryIsTyped ==
  ASSUME NEW e \in Entries
  PROVE  /\ e.repo \in BOOLEAN /\ e.lower \in Environments /\ e.venv \in Environments
         /\ e.lock \in {"none", "cut", "whole", "spoiled"}
BY DEF Entries

LEMMA EnvironmentsAreTyped ==
  /\ None \in Environments /\ Hollow \in Environments /\ Torn \in Environments
  /\ \A w \in {"venv", "lower"} : Built(w) \in Environments
  /\ \A v \in Environments : Spoil(v) \in Environments
BY DEF None, Hollow, Torn, Built, Spoil, Environments, Contents

LEMMA EntriesAreTyped == {Absent, Legacy, SpoiledLegacy} \subseteq Entries
<1>1. None \in Environments /\ Built("venv") \in Environments
  BY EnvironmentsAreTyped
<1>2. Absent \in Entries /\ Legacy \in Entries
  BY <1>1 DEF Absent, Legacy, Entries
<1>3. SpoiledLegacy = [Legacy EXCEPT !.venv = [Legacy.venv EXCEPT !.is = "spoiled"]]
  BY <1>2 DEF SpoiledLegacy
<1>4. Legacy.venv \in Environments
  BY <1>2 DEF Entries
<1>5. [Legacy.venv EXCEPT !.is = "spoiled"] \in Environments
  BY <1>4 DEF Environments, Contents
<1>6. SpoiledLegacy \in Entries
  BY <1>2, <1>3, <1>5 DEF Entries
<1>7. QED
  BY <1>2, <1>6

LEMMA MigrateKeeps ==
  ASSUME NEW e \in Entries
  PROVE  /\ Migrate(e) \in Entries
         /\ Migrate(e).repo = e.repo /\ Migrate(e).lock = e.lock
<1>1. None \in Environments
  BY EnvironmentsAreTyped
<1>2. QED
  BY <1>1 DEF Migrate, Entries

LEMMA WithBaseKeeps ==
  ASSUME NEW e \in Entries, NEW iso, NEW env \in Environments
  PROVE  /\ WithBase(e, iso, env) \in Entries
         /\ WithBase(e, iso, env).repo = e.repo /\ WithBase(e, iso, env).lock = e.lock
         /\ Base(WithBase(e, iso, env), iso) = env
BY DEF WithBase, Base, Entries

\* verify_lockfile finds no difference only where there is none.
LEMMA VerifiedIsWhole ==
  ASSUME NEW e \in Entries, NEW iso, e.lock # "none", "match" \in Verify(e, iso)
  PROVE  Base(e, iso).is = e.lock /\ e.lock \in {"whole", "spoiled"}
<1>2. Base(e, iso).is = e.lock
  BY DEF Verify
<1>1. e.lock \in {"whole", "spoiled"}
  <2>1. Base(e, iso) \in Environments
    BY EntryIsTyped DEF Base
  <2>2. Base(e, iso).is \in Contents
    BY <2>1 DEF Environments
  <2>3. e.lock # "hollow" /\ e.lock # "torn"
    BY EntryIsTyped
  <2>4. QED
    BY <1>2, <2>2, <2>3 DEF Contents
<1>3. QED
  BY <1>1, <1>2

-----------------------------------------------------------------------------
(***************************************************************************)
(* Steps of one problem's thread.                                          *)
(***************************************************************************)
LEMMA JobIsTyped ==
  ASSUME NEW j \in Jobs
  PROVE  /\ j.at \in {"idle", "remove"} \cup Building \cup Setting \cup Arming
         /\ j.has \in {"nothing", "overlay", "clone"} /\ j.todo \in SUBSET Triples
         /\ j.now \in Triples \cup {NoTriple} /\ j.venv \in {"shared", "mount", "copy"}
         /\ j.dirty \in BOOLEAN
BY DEF Jobs

LEMMA IdleIsTyped ==
  /\ Idle \in Jobs /\ Idle.at = "idle" /\ Idle.has = "nothing" /\ Idle.todo = {}
  /\ Idle.venv = "shared" /\ Idle.dirty = FALSE
BY DEF Idle, Jobs

\* What Fits reads of a problem that a step leaves alone.
LEMMA Elsewhere ==
  ASSUME NEW q \in Problems, Fits(q), cmd' = cmd, broke' = broke, bare = "whole" => bare' = "whole",
         entry'[q] = entry[q], tree'[q] = tree[q], job'[q] = job[q],
         mounted'[q] = mounted[q],
         verdict'[q] = verdict[q], turns'[q] = turns[q],
         q \in handles => q \in handles'
  PROVE  Fits(q)'
<1> USE DEF Fits
<1>1. PlaceFits(q)' /\ RepoFits(q)' /\ LockFits(q)'
  BY DEF PlaceFits, RepoFits, LockFits
<1>2. TreeFits(q)'
  BY DEF TreeFits, LeftOver, Unrefreshed, HadTurn
<1>3. EnvironmentFits(q)'
  BY DEF EnvironmentFits
<1>4. TasksFit(q)'
  BY DEF TasksFit
<1>5. QED
  BY <1>1, <1>2, <1>3, <1>4

LEMMA LocalStep ==
  ASSUME IInv, NEW p \in Problems,
         NEW j \in Jobs, job' = [job EXCEPT ![p] = j],
         NEW e \in Entries, entry' = [entry EXCEPT ![p] = e],
         NEW shown \in Trees, tree' = [tree EXCEPT ![p] = shown],
         mounted' \in [Problems -> BOOLEAN], scratch' \in [Problems -> SUBSET Triples],
         verdict' \in [Problems -> [Triples -> {"open", "PASS", "FAIL", "unearned"}]],
         turns' \in [Problems -> [Triples -> Nat]],
         \A q \in Problems \ {p} :
           mounted'[q] = mounted[q] /\ verdict'[q] = verdict[q] /\ turns'[q] = turns[q],
         handles' \subseteq Problems, handles \subseteq handles',
         stop' \in BOOLEAN, faults' \in 0..MaxFaults, bare' \in {"none", "half", "whole"}, bare = "whole" => bare' = "whole",
         UNCHANGED <<cmd, broke, commands>>,
         Fits(p)'
  PROVE  IInv'
<1> USE DEF IInv
<1>1. TypeOK'
  BY DEF TypeOK
<1>2. BrokeInPool'
  BY DEF BrokeInPool
<1>3. ASSUME NEW q \in Problems \ {p}
      PROVE  Fits(q)'
  <2>1. entry'[q] = entry[q] /\ tree'[q] = tree[q] /\ job'[q] = job[q]
    BY DEF TypeOK
  <2>2. QED
    BY <2>1, Elsewhere
<1>4. QED
  BY <1>1, <1>2, <1>3

\* A step of a thread that changes its place and its entry, and no more.
LEMMA EntryStep ==
  ASSUME IInv, NEW p \in Problems, NEW l, NEW e \in Entries,
         l \in {"idle", "remove"} \cup Building \cup Setting \cup Arming,
         Goes(p, l), entry' = [entry EXCEPT ![p] = e],
         bare' \in {"none", "half", "whole"}, bare = "whole" => bare' = "whole",
         faults' \in 0..MaxFaults,
         UNCHANGED <<cmd, layers, tree, memory, results, commands>>,
         \A j \in Jobs : j = [job[p] EXCEPT !.at = l] /\ job'[p] = j
           => Fits(p)'
  PROVE  IInv'
<1> DEFINE j == [job[p] EXCEPT !.at = l]
<1> USE DEF IInv
<1>1. job[p] \in Jobs /\ tree[p] \in Trees
  BY DEF TypeOK
<1>2. j \in Jobs
  BY <1>1 DEF Jobs
<1>3. job' = [job EXCEPT ![p] = j]
  BY DEF Goes, TypeOK
<1>4. job'[p] = j
  BY <1>3 DEF TypeOK
<1>5. Fits(p)'
  BY <1>2, <1>4
<1> HIDE DEF j
<1>6. tree' = [tree EXCEPT ![p] = tree[p]]
  BY DEF TypeOK
<1>7. /\ mounted' \in [Problems -> BOOLEAN] /\ scratch' \in [Problems -> SUBSET Triples]
      /\ verdict' \in [Problems -> [Triples -> {"open", "PASS", "FAIL", "unearned"}]]
      /\ turns' \in [Problems -> [Triples -> Nat]]
      /\ \A q \in Problems \ {p} :
           mounted'[q] = mounted[q] /\ verdict'[q] = verdict[q] /\ turns'[q] = turns[q]
      /\ handles' \subseteq Problems /\ handles \subseteq handles' /\ stop' \in BOOLEAN
      /\ UNCHANGED <<cmd, broke, commands>>
  BY DEF TypeOK, layers, memory, results
<1>8. QED
  BY <1>1, <1>2, <1>3, <1>5, <1>6, <1>7, LocalStep


-----------------------------------------------------------------------------
(***************************************************************************)
(* Building and cleaning.                                                  *)
(***************************************************************************)
\* A step of a build or a removal: from one such place to another.
LEMMA BuildStep ==
  ASSUME IInv, NEW p \in Problems, NEW l \in OffArms, NEW e \in Entries,
         job[p].at \in OffArms, job[p].at # "idle",
         Goes(p, l), entry' = [entry EXCEPT ![p] = e],
         bare' \in {"none", "half", "whole"}, bare = "whole" => bare' = "whole", e.repo => bare' = "whole",
         cmd.is = "build" => l # "remove",
         cmd.is \in {"clean", "clean bare"} => l = "idle" /\ ~e.repo,
         l \in {"lock", "write"} /\ ~mounted[p] => Reused(e.venv),
         faults' \in 0..MaxFaults,
         UNCHANGED <<cmd, layers, tree, memory, results, commands>>
  PROVE  IInv'
<1> USE DEF IInv
<1>1. /\ cmd.is \in {"build", "clean", "clean bare"}
      /\ job[p].has = "nothing" /\ job[p].todo = {}
      /\ cmd \in Commands
  BY DEF Fits, PlaceFits, OffArms, Building, Setting, Arming, TypeOK, Commands
<1>2. ASSUME NEW j \in Jobs, j = [job[p] EXCEPT !.at = l], job'[p] = j
      PROVE  Fits(p)'
  <2>1. job[p] \in Jobs
    BY DEF TypeOK
  <2>2. job'[p].at = l /\ job'[p].has = "nothing" /\ job'[p].todo = {}
    BY <1>1, <1>2, <2>1 DEF Jobs
  <2>3. entry'[p] = e
    BY DEF TypeOK
  <2>4. PlaceFits(p)' /\ RepoFits(p)' /\ LockFits(p)'
    BY <1>1, <2>2, <2>3 DEF PlaceFits, RepoFits, LockFits, OffArms, Building, layers
  <2>5. TreeFits(p)'
    BY <1>1, <2>2 DEF TreeFits, OffArms, Building
  <2>6. EnvironmentFits(p)'
    BY <2>2 DEF EnvironmentFits, OffArms, Building
  <2>7. TasksFit(p)'
    BY <2>2 DEF TasksFit, OffArms, Building
  <2>8. QED
    BY <2>4, <2>5, <2>6, <2>7 DEF Fits
<1>3. l \in {"idle", "remove"} \cup Building \cup Setting \cup Arming
  BY DEF OffArms
<1>4. QED
  BY <1>2, <1>3, EntryStep


LEMMA Builds ==
  ASSUME IInv, NEW p \in Problems, Build(p) \/ BuildFails(p)
  PROVE  IInv'
<1> USE DEF IInv
<1>1. entry[p] \in Entries /\ bare \in {"none", "half", "whole"} /\ bare' \in {"none", "half", "whole"} /\ (entry[p].repo => bare = "whole")
  BY DEF TypeOK, Fits, RepoFits, Build, BuildFails, Unlock, Fetch, FetchFails, Fill, Lock, Write, Rename, Remove,
         Rewrites, Writes, cache
<1>2. /\ entry[p].lower \in Environments /\ entry[p].venv \in Environments
      /\ None \in Environments /\ Torn \in Environments /\ Built("venv") \in Environments
      /\ Absent \in Entries
  BY <1>1, EntryIsTyped, EnvironmentsAreTyped, EntriesAreTyped
<1>3. faults \in 0..MaxFaults
  BY DEF TypeOK
<1>4. job[p].at \in Building => cmd.is \notin {"clean", "clean bare"}
  BY DEF Fits, PlaceFits, Building
<1>5. job[p].at = "remove" => cmd.is # "build"
  BY DEF Fits, PlaceFits, Building
<1>6. CASE Unlock(p)
  <2>1. PICK e : e = [entry[p] EXCEPT !.lock = "none"]
    OBVIOUS
  <2>2. e \in Entries /\ e.repo = entry[p].repo
    BY <1>1, <2>1 DEF Entries
  <2>3. job[p].at = "unlock" /\ Goes(p, "refetch") /\ entry' = [entry EXCEPT ![p] = e] /\ bare' = bare
        /\ UNCHANGED <<cmd, layers, tree, memory, results, commands>> /\ faults' = faults
    BY <1>6, <2>1 DEF Unlock, Rewrites, Writes, At
  <2>4. QED
    BY <1>1, <1>3, <1>4, <2>2, <2>3, BuildStep DEF OffArms, Building
<1>7. CASE Fetch(p)
  <2>1. PICK again \in BOOLEAN : entry' = [entry EXCEPT ![p] = [entry[p] EXCEPT
          !.repo = TRUE,
          !.lower = IF At(p, "refetch") THEN None ELSE @,
          !.venv = IF mounted[p] \/ (At(p, "fetch") /\ again /\ Reused(@)) THEN @ ELSE Torn]]
    BY <1>7 DEF Fetch
  <2>2. PICK e : e = [entry[p] EXCEPT
          !.repo = TRUE,
          !.lower = IF At(p, "refetch") THEN None ELSE @,
          !.venv = IF mounted[p] \/ (At(p, "fetch") /\ again /\ Reused(@)) THEN @ ELSE Torn]
    OBVIOUS
  <2>3. e \in Entries
    BY <1>1, <1>2, <2>2 DEF Entries
  <2>4. job[p].at \in {"fetch", "refetch"} /\ Goes(p, "fill") /\ bare' = "whole"
        /\ UNCHANGED <<cmd, layers, tree, memory, results, commands>> /\ faults' = faults
    BY <1>7 DEF Fetch
  <2>5. entry' = [entry EXCEPT ![p] = e]
    BY <2>1, <2>2
  <2>6. QED
    BY <1>1, <1>3, <1>4, <2>3, <2>4, <2>5, BuildStep DEF OffArms, Building
<1>8. CASE Fill(p)
  <2>1. PICK e : e = IF mounted[p] \/ Reused(entry[p].venv) THEN entry[p]
                     ELSE [entry[p] EXCEPT !.venv = Built("venv")]
    OBVIOUS
  <2>2. e \in Entries /\ e.repo = entry[p].repo
    BY <1>1, <1>2, <2>1 DEF Entries
  <2>5. ~mounted[p] => Reused(e.venv)
    BY <1>1, <2>1 DEF Reused, Built, Entries
  <2>3. job[p].at = "fill" /\ Goes(p, "lock") /\ entry' = [entry EXCEPT ![p] = e] /\ bare' = bare
        /\ UNCHANGED <<cmd, layers, tree, memory, results, commands>> /\ faults' = faults
    BY <1>8, <2>1 DEF Fill, Rewrites, Writes, At
  <2>4. QED
    BY <1>1, <1>3, <1>4, <2>2, <2>3, <2>5, BuildStep DEF OffArms, Building
<1>9. CASE Lock(p)
  <2>1. PICK e : e = [entry[p] EXCEPT !.lock = "cut"]
    OBVIOUS
  <2>2. job[p].at = "lock" /\ Goes(p, "write") /\ entry' = [entry EXCEPT ![p] = e] /\ bare' = bare
        /\ UNCHANGED <<cmd, layers, tree, memory, results, commands>> /\ faults' = faults
    BY <1>9, <2>1 DEF Lock, Rewrites, Writes, At
  <2>3. e \in Entries /\ e.repo = entry[p].repo /\ e.venv = entry[p].venv
    BY <1>1, <2>1 DEF Entries
  <2>4. ~mounted[p] => Reused(e.venv)
    BY <2>2, <2>3 DEF Fits, LockFits
  <2>5. QED
    BY <1>1, <1>3, <1>4, <2>2, <2>3, <2>4, BuildStep DEF OffArms, Building
<1>14. CASE Write(p)
  <2>1. PICK e : e = [entry[p] EXCEPT !.lock = IF mounted[p] THEN "whole" ELSE entry[p].venv.is]
    OBVIOUS
  <2>2. job[p].at = "write" /\ Goes(p, "rename") /\ entry' = [entry EXCEPT ![p] = e] /\ bare' = bare
        /\ UNCHANGED <<cmd, layers, tree, memory, results, commands>> /\ faults' = faults
    BY <1>14, <2>1 DEF Write, Rewrites, Writes, At
  <2>3. ~mounted[p] => entry[p].venv.is \in {"whole", "spoiled"}
    BY <2>2 DEF Fits, LockFits, Reused
  <2>4. e \in Entries /\ e.repo = entry[p].repo
    BY <1>1, <2>1, <2>3 DEF Entries
  <2>5. QED
    BY <1>1, <1>3, <1>4, <2>2, <2>4, BuildStep DEF OffArms, Building
<1>10. CASE Rename(p)
  <2>1. PICK e : e = IF mounted[p] THEN entry[p]
                     ELSE [entry[p] EXCEPT !.lower = entry[p].venv, !.venv = None]
    OBVIOUS
  <2>2. e \in Entries /\ e.repo = entry[p].repo
    BY <1>1, <1>2, <2>1 DEF Entries
  <2>3. job[p].at = "rename" /\ Goes(p, "idle") /\ entry' = [entry EXCEPT ![p] = e] /\ bare' = bare
        /\ UNCHANGED <<cmd, layers, tree, memory, results, commands>> /\ faults' = faults
    BY <1>10, <2>1 DEF Rename, Rewrites, Writes, At
  <2>4. QED
    BY <1>1, <1>3, <1>4, <2>2, <2>3, BuildStep DEF OffArms, Building
<1>11. CASE Remove(p)
  <2>1. PICK e : e = IF mounted[p] THEN [Absent EXCEPT !.venv = Hollow] ELSE Absent
    OBVIOUS
  <2>2. Absent.repo = FALSE
    BY DEF Absent
  <2>3. e \in Entries /\ ~e.repo
    BY <1>2, <2>1, <2>2, EnvironmentsAreTyped DEF Entries
  <2>4. job[p].at = "remove" /\ Goes(p, "idle") /\ entry' = [entry EXCEPT ![p] = e] /\ bare' = bare
        /\ UNCHANGED <<cmd, layers, tree, memory, results, commands>> /\ faults' = faults
    BY <1>11, <2>1 DEF Remove, Rewrites, Writes, At
  <2>5. QED
    BY <1>1, <1>3, <1>5, <2>3, <2>4, BuildStep DEF OffArms, Building
<1>12. CASE BuildFails(p) \/ FetchFails(p)
  <2>1. entry' = [entry EXCEPT ![p] = entry[p]] /\ bare' = bare
    BY <1>12 DEF BuildFails, FetchFails, cache, TypeOK
  <2>2. faults' \in 0..MaxFaults
    BY <1>3, <1>12, OverlayAssumption DEF BuildFails, FetchFails, Fault
  <2>3. job[p].at \in {"refetch", "fetch", "fill", "lock", "write"} /\ Goes(p, "idle")
        /\ UNCHANGED <<cmd, layers, tree, memory, results, commands>>
    BY <1>12 DEF BuildFails, FetchFails
  <2>4. QED
    BY <1>1, <1>4, <2>1, <2>2, <2>3, BuildStep DEF OffArms, Building
<1>13. QED
  BY <1>6, <1>7, <1>8, <1>9, <1>10, <1>11, <1>12, <1>14 DEF Build


-----------------------------------------------------------------------------
(***************************************************************************)
(* Setting up.                                                             *)
(***************************************************************************)
\* What is known of a thread that has not mounted or cloned yet.
LEMMA NotSetYet ==
  ASSUME IInv, NEW p \in Problems, job[p].at \in {"look", "purge", "refill", "relock", "mount"}
  PROVE  /\ cmd.is = "setup" /\ job[p].has = "nothing" /\ tree[p] = "none"
         /\ entry[p] \in Entries /\ (entry[p].repo => bare = "whole") /\ bare \in {"none", "half", "whole"}
         /\ job[p] \in Jobs /\ faults \in 0..MaxFaults
         /\ \A t \in job[p].todo : verdict[p][t] = "open"
<1>1. cmd.is = "setup"
  BY DEF IInv, Fits, PlaceFits, Building, Arming, TypeOK, Commands
<1>2. QED
  BY <1>1 DEF IInv, Fits, TreeFits, RepoFits, TasksFit, TypeOK

\* A step towards the mount, or back from it.
LEMMA SetUpStep ==
  ASSUME IInv, NEW p \in Problems, NEW e \in Entries,
         NEW l \in {"purge", "refill", "relock", "mount", "set"},
         job[p].at \in {"look", "purge", "refill", "relock"},
         Goes(p, l), entry' = [entry EXCEPT ![p] = e], bare' = bare,
         e.repo => bare = "whole", l = "mount" => Vouched(e, cmd.iso),
         l = "relock" => Base(e, cmd.iso).is = "whole",
         faults' \in 0..MaxFaults,
         UNCHANGED <<cmd, layers, tree, memory, results, commands>>
  PROVE  IInv'
<1>1. /\ cmd.is = "setup" /\ job[p].has = "nothing" /\ tree[p] = "none" /\ bare \in {"none", "half", "whole"}
      /\ job[p] \in Jobs /\ \A t \in job[p].todo : verdict[p][t] = "open"
  BY NotSetYet
<1>2. ASSUME NEW j \in Jobs, j = [job[p] EXCEPT !.at = l], job'[p] = j
      PROVE  Fits(p)'
  <2>1. job'[p].at = l /\ job'[p].has = "nothing" /\ job'[p].todo = job[p].todo
    BY <1>1, <1>2 DEF Jobs
  <2>2. entry'[p] = e
    BY DEF IInv, TypeOK
  <2>3. PlaceFits(p)' /\ RepoFits(p)' /\ LockFits(p)'
    BY <1>1, <2>1, <2>2 DEF PlaceFits, RepoFits, LockFits, OffArms, Building, Setting
  <2>4. TreeFits(p)'
    BY <1>1, <2>1 DEF TreeFits
  <2>5. EnvironmentFits(p)'
    BY <2>1, <2>2 DEF EnvironmentFits
  <2>6. TasksFit(p)'
    BY <1>1, <2>1 DEF TasksFit, results
  <2>7. QED
    BY <2>3, <2>4, <2>5, <2>6 DEF Fits
<1>3. l \in {"idle", "remove"} \cup Building \cup Setting \cup Arming
  BY DEF Setting
<1>4. QED
  BY <1>1, <1>2, <1>3, EntryStep

\* A step that sets a problem up, or gives it up.
LEMMA IsSetStep ==
  ASSUME IInv, NEW p \in Problems, NEW with \in {"nothing", "overlay", "clone"},
         NEW e \in Entries, NEW shown \in Trees,
         job[p].at \in {"look", "mount"},
         IsSet(p, with), entry' = [entry EXCEPT ![p] = e], bare' = bare,
         tree' = [tree EXCEPT ![p] = shown],
         e.repo = entry[p].repo, with # "nothing" => shown = "pristine",
         with = "overlay" => Vouched(e, cmd.iso) /\ p \in handles',
         handles' \subseteq Problems, handles \subseteq handles',
         faults' \in 0..MaxFaults,
         UNCHANGED <<cmd, layers, stop, broke, results, commands>>
  PROVE  IInv'
<1> DEFINE j == [job[p] EXCEPT !.at = "set", !.has = with]
<1>1. /\ cmd.is = "setup" /\ bare \in {"none", "half", "whole"} /\ job[p] \in Jobs
      /\ (entry[p].repo => bare = "whole") /\ \A t \in job[p].todo : verdict[p][t] = "open"
  BY NotSetYet
<1>2. /\ j \in Jobs
      /\ j.at = "set" /\ j.has = with /\ j.todo = job[p].todo
  BY <1>1 DEF Jobs, Setting
<1>3. job' = [job EXCEPT ![p] = j]
  BY DEF IsSet, IInv, TypeOK
<1> HIDE DEF j
<1>4. job'[p] = j /\ entry'[p] = e /\ tree'[p] = shown
  BY <1>3 DEF IInv, TypeOK
<1>5. PlaceFits(p)' /\ RepoFits(p)' /\ LockFits(p)'
  BY <1>1, <1>2, <1>4 DEF PlaceFits, RepoFits, LockFits, OffArms, Building, Setting
<1>6. TreeFits(p)'
  BY <1>2, <1>4 DEF TreeFits
<1>7. EnvironmentFits(p)'
  BY <1>2, <1>4 DEF EnvironmentFits
<1>8. TasksFit(p)'
  BY <1>1, <1>2, <1>4 DEF TasksFit, results
<1>9. Fits(p)'
  BY <1>5, <1>6, <1>7, <1>8 DEF Fits
<1>10. /\ mounted' \in [Problems -> BOOLEAN] /\ scratch' \in [Problems -> SUBSET Triples]
       /\ verdict' \in [Problems -> [Triples -> {"open", "PASS", "FAIL", "unearned"}]]
       /\ turns' \in [Problems -> [Triples -> Nat]]
       /\ \A q \in Problems \ {p} :
           mounted'[q] = mounted[q] /\ verdict'[q] = verdict[q] /\ turns'[q] = turns[q]
       /\ stop' \in BOOLEAN /\ UNCHANGED <<cmd, broke, commands>>
  BY DEF IInv, TypeOK, layers, results
<1>11. QED
  BY <1>1, <1>2, <1>3, <1>9, <1>10, LocalStep


\* A whole environment is vouched for by the
\* lockfile that is written next.
LEMMA RelockedIsVouched ==
  ASSUME NEW e \in Entries, NEW iso \in BOOLEAN, Base(e, iso).is = "whole",
         NEW f, f = [e EXCEPT !.lock = "whole"]
  PROVE  f \in Entries /\ f.repo = e.repo /\ Vouched(f, iso)
<1>1. f \in Entries /\ f.repo = e.repo /\ f.lower = e.lower /\ f.venv = e.venv
  BY DEF Entries
<1>2. QED
  BY <1>1 DEF Vouched, Base

LEMMA SetsUp ==
  ASSUME IInv, NEW p \in Problems, SetUp(p) \/ SetUpFails(p)
  PROVE  IInv'
<1>1. ASSUME job[p].at \in {"look", "purge", "refill", "relock", "mount"}
      PROVE  /\ cmd.is = "setup" /\ job[p].has = "nothing" /\ tree[p] = "none"
             /\ entry[p] \in Entries /\ (entry[p].repo => bare = "whole") /\ faults \in 0..MaxFaults
  BY <1>1, NotSetYet
<1>2. /\ cmd.iso \in BOOLEAN /\ handles \subseteq Problems
      /\ entry = [entry EXCEPT ![p] = entry[p]] /\ tree = [tree EXCEPT ![p] = tree[p]]
  BY DEF IInv, TypeOK, Commands
<1>3. Fault => faults' \in 0..MaxFaults
  BY OverlayAssumption DEF Fault, IInv, TypeOK
<1>4. CASE Look(p)
  <2>1. PICK e : e = IF HasCached(entry[p], cmd.iso) THEN entry[p] ELSE Migrate(entry[p])
    OBVIOUS
  <2>2. job[p].at = "look" /\ UNCHANGED <<cmd, layers, memory, results, commands>>
    BY <1>4 DEF Look, At
  <2>3. e \in Entries /\ e.repo = entry[p].repo /\ e.lock = entry[p].lock
    BY <1>1, <2>1, <2>2, MigrateKeeps
  <2>4. CASE Clones(p) /\ UNCHANGED cache
    <3>1. entry' = [entry EXCEPT ![p] = entry[p]] /\ bare' = bare
      BY <1>2, <2>4 DEF cache
    <3>2. handles' = handles /\ UNCHANGED <<cmd, layers, stop, broke, results, commands>>
      BY <2>2 DEF memory
    <3>3. CASE /\ IsSet(p, "clone") /\ tree' = [tree EXCEPT ![p] = "pristine"]
               /\ UNCHANGED faults
      BY <1>1, <1>2, <2>2, <3>1, <3>2, <3>3, IsSetStep DEF Trees
    <3>4. CASE Fault /\ IsSet(p, "nothing") /\ UNCHANGED tree
      <4>1. tree' = [tree EXCEPT ![p] = "none"]
        BY <1>1, <1>2, <2>2, <3>4
      <4>2. QED
        BY <1>1, <1>2, <1>3, <2>2, <3>1, <3>2, <3>4, <4>1, IsSetStep DEF Trees
    <3>5. QED
      BY <2>4, <3>3, <3>4 DEF Clones
  <2>5. CASE /\ HasCached(entry[p], cmd.iso) \/ HasCached(entry[p], FALSE)
             /\ Writes(p, e)
             /\ \E answer \in Verify(e, cmd.iso) :
                  Goes(p, CASE answer = "match"  -> "mount"
                            [] answer = "drift"  -> "purge"
                            [] answer = "raises" -> "set")
             /\ UNCHANGED <<tree, faults>>
    <3>1. e.lock # "none"
      BY <2>3, <2>5 DEF HasCached
    <3>2. PICK answer \in Verify(e, cmd.iso) :
            Goes(p, CASE answer = "match"  -> "mount"
                      [] answer = "drift"  -> "purge"
                      [] answer = "raises" -> "set")
      BY <2>5
    <3>3. answer \in {"match", "drift", "raises"}
      BY DEF Verify
    <3>4. PICK l : /\ l = CASE answer = "match"  -> "mount"
                            [] answer = "drift"  -> "purge"
                            [] answer = "raises" -> "set"
                   /\ Goes(p, l)
      BY <3>2
    <3>5. l \in {"purge", "mount", "set"} /\ (l = "mount" => answer = "match")
      BY <3>3, <3>4
    <3>6. l = "mount" => Vouched(e, cmd.iso)
      BY <2>3, <3>1, <3>5, VerifiedIsWhole DEF Vouched
    <3>7. entry' = [entry EXCEPT ![p] = e] /\ bare' = bare /\ tree' = tree /\ faults' = faults
      BY <2>5 DEF Writes
    <3>8. QED
      BY <1>1, <2>2, <2>3, <3>4, <3>5, <3>6, <3>7, SetUpStep
  <2>6. QED
    BY <1>4, <2>1, <2>4, <2>5 DEF Look
<1>5. CASE Purge(p)
  <2>1. PICK left \in {None, Torn} : Rewrites(p, "purge", "refill", WithBase(entry[p], cmd.iso, left))
    BY <1>5 DEF Purge
  <2>2. PICK e : e = WithBase(entry[p], cmd.iso, left)
    OBVIOUS
  <2>3. job[p].at = "purge" /\ Goes(p, "refill") /\ entry' = [entry EXCEPT ![p] = e] /\ bare' = bare
        /\ UNCHANGED <<cmd, layers, tree, memory, results, commands>> /\ faults' = faults
    BY <2>1, <2>2 DEF Rewrites, Writes, At
  <2>4. e \in Entries /\ e.repo = entry[p].repo
    BY <1>1, <2>2, <2>3, WithBaseKeeps, EnvironmentsAreTyped
  <2>5. QED
    BY <1>1, <2>3, <2>4, SetUpStep
<1>6. CASE Refill(p)
  <2>1. PICK env : env = Built(IF cmd.iso THEN "lower" ELSE "venv")
    OBVIOUS
  <2>2. env \in Environments /\ env.is = "whole"
    BY <2>1, EnvironmentsAreTyped DEF Built
  <2>3. PICK e : e = [WithBase(entry[p], cmd.iso, env) EXCEPT !.lock = "cut"]
    OBVIOUS
  <2>4. job[p].at = "refill" /\ Goes(p, "relock") /\ entry' = [entry EXCEPT ![p] = e] /\ bare' = bare
        /\ UNCHANGED <<cmd, layers, tree, memory, results, commands>> /\ faults' = faults
    BY <1>6, <2>1, <2>3 DEF Refill, Rewrites, Writes, At
  <2>5. e \in Entries /\ e.repo = entry[p].repo /\ Base(e, cmd.iso).is = "whole"
    <3>1. entry[p] \in Entries /\ cmd.iso \in BOOLEAN
      BY <1>1, <1>2, <2>4
    <3>2. PICK g : g = WithBase(entry[p], cmd.iso, env)
      OBVIOUS
    <3>3. e = [g EXCEPT !.lock = "cut"]
      BY <2>3, <3>2
    <3>4. g \in Entries /\ g.repo = entry[p].repo /\ Base(g, cmd.iso) = env
      BY <2>2, <3>1, <3>2, WithBaseKeeps
    <3>5. e \in Entries /\ e.repo = g.repo /\ e.lower = g.lower /\ e.venv = g.venv
      BY <3>3, <3>4 DEF Entries
    <3>6. QED
      BY <2>2, <3>4, <3>5 DEF Base
  <2>6. QED
    BY <1>1, <2>4, <2>5, SetUpStep
<1>10. CASE Relock(p)
  <2>1. PICK e : e = [entry[p] EXCEPT !.lock = "whole"]
    OBVIOUS
  <2>2. job[p].at = "relock" /\ Goes(p, "mount") /\ entry' = [entry EXCEPT ![p] = e] /\ bare' = bare
        /\ UNCHANGED <<cmd, layers, tree, memory, results, commands>> /\ faults' = faults
    BY <1>10, <2>1 DEF Relock, Rewrites, Writes, At
  <2>3. Base(entry[p], cmd.iso).is = "whole"
    BY <2>2 DEF IInv, Fits, EnvironmentFits
  <2>4. e \in Entries /\ e.repo = entry[p].repo /\ Vouched(e, cmd.iso)
    BY <1>1, <1>2, <2>1, <2>2, <2>3, RelockedIsVouched
  <2>5. QED
    BY <1>1, <2>2, <2>4, SetUpStep
<1>7. CASE Mount(p)
  <2>1. PICK e : e = IF entry[p].venv = None THEN [entry[p] EXCEPT !.venv = Hollow] ELSE entry[p]
    OBVIOUS
  <2>2. job[p].at = "mount" /\ entry' = [entry EXCEPT ![p] = e] /\ bare' = bare
        /\ UNCHANGED <<cmd, layers, stop, broke, results, commands>>
    BY <1>7, <2>1 DEF Mount, Writes, At
  <2>3. Vouched(entry[p], cmd.iso)
    BY <2>2 DEF IInv, Fits, EnvironmentFits
  <2>4. e \in Entries /\ e.repo = entry[p].repo /\ e.lower = entry[p].lower /\ e.lock = entry[p].lock
    BY <1>1, <2>1, <2>2, EnvironmentsAreTyped DEF Entries
  <2>5. ~cmd.iso => e.venv = entry[p].venv
    BY <2>1, <2>3 DEF Vouched, Base, None
  <2>6. Vouched(e, cmd.iso)
    BY <2>3, <2>4, <2>5 DEF Vouched, Base
  <2>7. CASE /\ tree' = [tree EXCEPT ![p] = "pristine"] /\ IsSet(p, "overlay")
             /\ handles' = handles \cup {p} /\ UNCHANGED faults
    BY <1>1, <1>2, <2>2, <2>4, <2>6, <2>7, IsSetStep DEF Trees
  <2>8. CASE /\ Fault /\ UNCHANGED handles
             /\ \/ tree' = [tree EXCEPT ![p] = "pristine"] /\ IsSet(p, "clone")
                \/ tree' = [tree EXCEPT ![p] = "history"] /\ IsSet(p, "nothing")
    <3>1. handles' = handles
      BY <2>8
    <3>2. QED
      BY <1>1, <1>2, <1>3, <2>2, <2>4, <2>8, <3>1, IsSetStep DEF Trees
  <2>9. QED
    BY <1>7, <2>7, <2>8 DEF Mount
<1>8. CASE SetUpFails(p)
  <2>1. job[p].at \in {"purge", "refill", "relock"} /\ Goes(p, "set") /\ Fault
        /\ UNCHANGED <<cmd, layers, tree, memory, results, commands>>
    BY <1>8 DEF SetUpFails
  <2>2. entry' = [entry EXCEPT ![p] = entry[p]] /\ bare' = bare
    BY <1>2, <1>8 DEF SetUpFails, cache
  <2>3. QED
    BY <1>1, <1>3, <2>1, <2>2, SetUpStep
<1>9. QED
  BY <1>4, <1>5, <1>6, <1>7, <1>8, <1>10 DEF SetUp


-----------------------------------------------------------------------------
(***************************************************************************)
(* The arms.                                                               *)
(***************************************************************************)
\* A step that leaves the cache alone leaves the checkouts their objects.
LEMMA CacheStays ==
  ASSUME IInv, cache' = cache
  PROVE  /\ entry' = entry /\ bare' = bare /\ bare' \in {"none", "half", "whole"}
         /\ \A p \in Problems : entry[p].repo => bare' = "whole"
BY DEF IInv, TypeOK, Fits, RepoFits, cache

\* The end of an invocation, of whatever it took down.
LEMMA EndsStep ==
  ASSUME IInv, NEW hs, Ends(hs), entry' = entry,
         bare' \in {"none", "half", "whole"},
         \A p \in Problems : entry[p].repo => bare' = "whole",
         mounted' \in [Problems -> BOOLEAN], scratch' \in [Problems -> SUBSET Triples],
         verdict' \in [Problems -> [Triples -> {"open", "PASS", "FAIL", "unearned"}]],
         turns' \in [Problems -> [Triples -> Nat]],
         broke' \in BOOLEAN, faults' \in 0..MaxFaults
  PROVE  IInv'
<1> USE DEF IInv
<1>1. NoCommand \in Commands /\ NoCommand.is = "none"
  BY DEF NoCommand, Commands
<1>2. cmd' = NoCommand /\ handles' = {} /\ stop' = FALSE /\ commands' = commands
  BY DEF Ends
<1>3. job' \in [Problems -> Jobs] /\ \A p \in Problems : job'[p] = Idle
  BY IdleIsTyped DEF Ends
<1>4. tree' \in [Problems -> Trees]
  BY DEF Ends, TypeOK, Trees
<1>5. TypeOK'
  BY <1>1, <1>2, <1>3, <1>4 DEF TypeOK
<1>6. BrokeInPool'
  BY <1>1, <1>2 DEF BrokeInPool
<1>7. ASSUME NEW p \in Problems
      PROVE  Fits(p)'
  <2>1. job'[p].at = "idle" /\ job'[p].has = "nothing" /\ job'[p].todo = {} /\ cmd'.is = "none"
    BY <1>1, <1>2, <1>3, IdleIsTyped
  <2>3. PlaceFits(p)' /\ RepoFits(p)' /\ LockFits(p)'
    BY <1>2, <2>1 DEF PlaceFits, RepoFits, LockFits
  <2>4. TreeFits(p)' /\ EnvironmentFits(p)' /\ TasksFit(p)'
    BY <2>1 DEF TreeFits, EnvironmentFits, TasksFit
  <2>5. QED
    BY <2>3, <2>4 DEF Fits
<1>8. QED
  BY <1>5, <1>6, <1>7

\* What is known of a thread in its second phase.
LEMMA ArmsAreSetUp ==
  ASSUME IInv, NEW p \in Problems, job[p].at \in {"wait", "next", "agent", "remount"}
  PROVE  /\ cmd.is = "arms" /\ cmd \in Commands /\ job[p] \in Jobs /\ job[p].has # "nothing"
         /\ entry[p] \in Entries /\ (entry[p].repo => bare = "whole") /\ bare \in {"none", "half", "whole"}
         /\ (job[p].has = "overlay" => Vouched(entry[p], cmd.iso))
         /\ (job[p].has = "overlay" /\ p \notin handles => broke)
         /\ tree[p] \in Trees /\ (job[p].at = "remount" => tree[p] = "none")
         /\ (job[p].at # "remount" => tree[p] = "pristine" \/ LeftOver(p))
         /\ (job[p].at = "agent" => /\ tree[p] # "used" /\ job[p].now \in job[p].todo
                                    /\ turns[p][job[p].now] > 0)
         /\ \A t \in job[p].todo : t \in Triples /\ verdict[p][t] = "open"
         /\ faults \in 0..MaxFaults
<1>1. cmd.is = "arms"
  BY DEF IInv, Fits, PlaceFits, Building, Setting, TypeOK, Commands
<1>2. job[p] \in Jobs /\ job[p].todo \in SUBSET Triples
  BY JobIsTyped DEF IInv, TypeOK
<1>3. TreeFits(p) /\ EnvironmentFits(p) /\ TasksFit(p) /\ RepoFits(p)
  BY DEF IInv, Fits
<1>4. QED
  BY <1>1, <1>2, <1>3 DEF TreeFits, EnvironmentFits, TasksFit, RepoFits, IInv, TypeOK

LEMMA ArmStep ==
  ASSUME IInv, NEW p \in Problems, job[p].at \in {"wait", "next", "agent", "remount"},
         NEW j \in Jobs, job' = [job EXCEPT ![p] = j],
         NEW e \in Entries, entry' = [entry EXCEPT ![p] = e], e.repo = entry[p].repo,
         NEW shown \in Trees, tree' = [tree EXCEPT ![p] = shown],
         j.at \in {"next", "agent", "remount", "done"}, j.has = job[p].has,
         j.has = "overlay" => Vouched(e, cmd.iso),
         j.at = "remount" => shown = "none",
         j.at \in {"next", "agent"} => shown = "pristine" \/ LeftOver(p)',
         j.at = "agent" => shown # "used" /\ j.now \in j.todo /\ turns'[p][j.now] > 0,
         \A t \in j.todo : verdict'[p][t] = "open",
         mounted' \in [Problems -> BOOLEAN], scratch' \in [Problems -> SUBSET Triples],
         verdict' \in [Problems -> [Triples -> {"open", "PASS", "FAIL", "unearned"}]],
         turns' \in [Problems -> [Triples -> Nat]],
         \A q \in Problems \ {p} :
           mounted'[q] = mounted[q] /\ verdict'[q] = verdict[q] /\ turns'[q] = turns[q],
         stop' \in BOOLEAN, faults' \in 0..MaxFaults,
         UNCHANGED <<cmd, bare, handles, broke, commands>>
  PROVE  IInv'
<1>1. /\ cmd.is = "arms" /\ job[p].has # "nothing" /\ bare \in {"none", "half", "whole"} /\ (entry[p].repo => bare = "whole")
      /\ (job[p].has = "overlay" /\ p \notin handles => broke) /\ handles \subseteq Problems
  BY ArmsAreSetUp DEF IInv, TypeOK
<1>2. job'[p] = j /\ entry'[p] = e /\ tree'[p] = shown
  BY DEF IInv, TypeOK
<1>3. PlaceFits(p)' /\ RepoFits(p)' /\ LockFits(p)'
  BY <1>1, <1>2 DEF PlaceFits, RepoFits, LockFits, OffArms, Building, Arming
<1>4. TreeFits(p)'
  BY <1>1, <1>2 DEF TreeFits
<1>5. EnvironmentFits(p)'
  BY <1>2 DEF EnvironmentFits
<1>6. TasksFit(p)'
  BY <1>2 DEF TasksFit
<1>7. Fits(p)'
  BY <1>3, <1>4, <1>5, <1>6 DEF Fits
<1>8. QED
  BY <1>1, <1>7, LocalStep


LEMMA EndArmStep ==
  ASSUME IInv, NEW p \in Problems, job[p].at \in {"wait", "next", "agent"},
         NEW t \in job[p].todo, NEW kind \in {"shared", "mount", "copy"},
         NEW v \in {"PASS", "FAIL", "unearned", "ERROR"}, NEW shown \in Trees,
         shown = tree[p] \/ (shown \in Touched /\ turns[p][t] > 0),
         EndArm(p, t, kind, v, shown), UNCHANGED <<cache, turns, broke>>,
         faults' \in 0..MaxFaults
  PROVE  IInv'
<1> DEFINE left == job[p].todo \ {t}
<1> DEFINE j == [Idle EXCEPT !.has = job[p].has, !.todo = left,
                             !.at = IF left = {} THEN "done"
                                    ELSE IF p \in handles THEN "remount" ELSE "next"]
<1> DEFINE s == IF p \in handles /\ left # {} THEN "none" ELSE shown
<1>1. /\ job[p] \in Jobs /\ job[p].has # "nothing" /\ entry[p] \in Entries /\ t \in Triples
      /\ (job[p].has = "overlay" => Vouched(entry[p], cmd.iso))
      /\ (job[p].has = "overlay" /\ p \notin handles => broke)
      /\ (tree[p] = "pristine" \/ LeftOver(p))
      /\ \A u \in job[p].todo : u \in Triples /\ verdict[p][u] = "open"
  BY ArmsAreSetUp
<1>2. mounted' \in [Problems -> BOOLEAN] /\ scratch' \in [Problems -> SUBSET Triples]
      /\ \A q \in Problems \ {p} : mounted'[q] = mounted[q]
  BY <1>1 DEF EndArm, IInv, TypeOK
<1>3. PICK w : w = [verdict[p] EXCEPT ![t] = Recorded(@, v)]
  OBVIOUS
<1>4. /\ w \in [Triples -> {"open", "PASS", "FAIL", "unearned"}]
      /\ \A u \in Triples \ {t} : w[u] = verdict[p][u]
  BY <1>1, <1>3 DEF Recorded, IInv, TypeOK
<1>5. verdict' = [verdict EXCEPT ![p] = w]
  BY <1>1, <1>3 DEF EndArm, IInv, TypeOK
<1>6. /\ verdict' \in [Problems -> [Triples -> {"open", "PASS", "FAIL", "unearned"}]]
      /\ verdict'[p] = w /\ \A q \in Problems \ {p} : verdict'[q] = verdict[q]
  BY <1>4, <1>5 DEF IInv, TypeOK
<1>7. turns' \in [Problems -> [Triples -> Nat]]
  BY DEF IInv, TypeOK
<1>8. CASE Ends(handles)
  <2>1. broke' \in BOOLEAN
    BY DEF IInv, TypeOK
  <2>2. QED
    BY <1>2, <1>6, <1>7, <1>8, <2>1, CacheStays, EndsStep
<1>9. CASE /\ job' = [job EXCEPT ![p] = j] /\ stop' = (stop \/ (cmd.strict /\ v \in Failed))
           /\ tree' = After(p, left, v, shown)
           /\ UNCHANGED <<cmd, handles, commands>>
  <2>1. job[p].has \in {"nothing", "overlay", "clone"} /\ left \in SUBSET Triples
    BY <1>1, JobIsTyped
  <2>2. /\ j \in Jobs /\ j.has = job[p].has /\ j.todo = left
        /\ j.at = IF left = {} THEN "done" ELSE IF p \in handles THEN "remount" ELSE "next"
    BY <2>1, IdleIsTyped DEF Jobs, Arming
  <2>3. tree' = [tree EXCEPT ![p] = s] /\ s \in Trees
    BY <1>9 DEF After, Trees
  <2>4. entry' = [entry EXCEPT ![p] = entry[p]] /\ bare' = bare
    BY DEF cache, IInv, TypeOK
  <2>5. stop' \in BOOLEAN
    BY <1>9
  <2>6. job' = [job EXCEPT ![p] = j] /\ UNCHANGED <<cmd, handles, broke, commands>>
    BY <1>9
  <2> HIDE DEF j
  <2>7. \A u \in left : verdict'[p][u] = "open"
    BY <1>1, <1>4, <1>6
  <2>8. j.at = "remount" => s = "none"
    BY <2>2
  <2>9. j.at = "next" => p \notin handles /\ s = shown
    BY <2>2
  <2>10. ASSUME j.at = "next"
         PROVE  s = "pristine" \/ LeftOver(p)'
    <3>1. /\ job'[p] = j /\ tree'[p] = shown /\ s = shown /\ broke' = broke /\ turns' = turns
          /\ job'[p].has = "clone" \/ broke
      BY <1>1, <2>1, <2>2, <2>3, <2>6, <2>9, <2>10 DEF IInv, TypeOK
    <3>2. job'[p].has = job[p].has /\ job'[p].todo = left
      BY <2>2, <3>1
    <3>3. CASE shown = tree[p]
      BY <1>1, <3>1, <3>2, <3>3 DEF LeftOver, Unrefreshed, HadTurn
    <3>4. CASE shown \in Touched /\ turns[p][t] > 0
      BY <1>1, <3>1, <3>2, <3>4 DEF LeftOver, Unrefreshed, HadTurn
    <3>5. QED
      BY <3>3, <3>4
  <2> HIDE DEF s, left
  <2>11. j.at \in {"next", "remount", "done"}
    BY <2>2
  <2>12. j \in Jobs /\ j.has = job[p].has /\ (\A u \in j.todo : verdict'[p][u] = "open")
    BY <2>2, <2>7
  <2>13. \A q \in Problems \ {p} :
           mounted'[q] = mounted[q] /\ verdict'[q] = verdict[q] /\ turns'[q] = turns[q]
    BY <1>2, <1>6
  <2>14. j.has = "overlay" => Vouched(entry[p], cmd.iso)
    BY <1>1, <2>12
  <2>15. /\ entry[p] \in Entries /\ mounted' \in [Problems -> BOOLEAN]
         /\ scratch' \in [Problems -> SUBSET Triples]
         /\ verdict' \in [Problems -> [Triples -> {"open", "PASS", "FAIL", "unearned"}]]
         /\ UNCHANGED <<cmd, bare, handles, broke, commands>>
    BY <1>1, <1>2, <1>6, <2>4, <2>6
  <2>16. j.at # "agent" /\ j.at \in {"next", "agent", "remount", "done"}
    BY <2>11
  <2>17. QED
    BY <1>7, <2>3, <2>4, <2>5, <2>6, <2>8, <2>10, <2>12, <2>13, <2>14, <2>15, <2>16, ArmStep
<1>10. QED
  BY <1>8, <1>9 DEF EndArm


\* An agent's packages get into the instance's environment only where it was
\* rebuilt in place, or is shared.
LEMMA SpoiledIsVouched ==
  ASSUME NEW e \in Entries, NEW iso \in BOOLEAN, NEW base, base = Base(e, iso),
         WritesThrough(iso, base)
  PROVE  /\ WithBase(e, iso, Spoil(base)) \in Entries
         /\ WithBase(e, iso, Spoil(base)).repo = e.repo
         /\ Vouched(WithBase(e, iso, Spoil(base)), iso)
<1>1. base \in Environments
  BY EntryIsTyped DEF Base
<1>2. PICK env : env = Spoil(base)
  OBVIOUS
<1>3. env \in Environments /\ env.is = "spoiled" /\ env.home = base.home
  BY <1>1, <1>2, EnvironmentsAreTyped DEF Spoil, Environments
<1>4. PICK g : g = WithBase(e, iso, env)
  OBVIOUS
<1>5. g \in Entries /\ g.repo = e.repo /\ Base(g, iso) = env
  BY <1>3, <1>4, WithBaseKeeps
<1>6. Vouched(g, iso)
  BY <1>3, <1>5 DEF Vouched, WritesThrough
<1>7. QED
  BY <1>2, <1>4, <1>5, <1>6

LEMMA ArmBegins ==
  ASSUME IInv, NEW p \in Problems, BeginArm(p)
  PROVE  IInv'
<1>1. job[p].at \in {"wait", "next"} /\ UNCHANGED <<cache, broke>>
  BY DEF BeginArm, MayBegin, At
<1>2. PICK t \in job[p].todo, kind \in {"shared", "mount", "copy"} :
        /\ Layer(p, kind)
        /\ IF Works(p, kind)
             THEN Turn(p, t, kind)
             ELSE EndArm(p, t, kind, "ERROR", tree[p]) /\ UNCHANGED turns
  BY DEF BeginArm
<1>3. /\ job[p] \in Jobs /\ job[p].has # "nothing" /\ entry[p] \in Entries /\ t \in Triples
      /\ (job[p].has = "overlay" => Vouched(entry[p], cmd.iso)) /\ tree[p] \in Trees
      /\ (tree[p] = "pristine" \/ LeftOver(p))
      /\ \A u \in job[p].todo : u \in Triples /\ verdict[p][u] = "open"
  BY <1>1, ArmsAreSetUp
<1>4. faults' \in 0..MaxFaults
  BY <1>2, OverlayAssumption DEF Layer, Fault, IInv, TypeOK
<1>5. CASE Works(p, kind)
  <2> DEFINE j == [job[p] EXCEPT !.at = "agent", !.now = t, !.venv = kind,
                                 !.dirty = (kind = "mount" /\ t \in scratch[p])]
  <2>1. job' = [job EXCEPT ![p] = j]
    BY <1>2, <1>5 DEF Turn, IInv, TypeOK
  <2>2. /\ j \in Jobs /\ j.at = "agent" /\ j.has = job[p].has /\ j.now = t
        /\ j.todo = job[p].todo
    BY <1>3 DEF Jobs, Arming
  <2> HIDE DEF j
  <2>3. PICK s : s = Reset(tree[p])
    OBVIOUS
  <2>4. tree' = [tree EXCEPT ![p] = s] /\ s \in Trees /\ s # "used"
    BY <1>2, <1>3, <1>5, <2>3 DEF Turn, Reset, Trees
  <2>6. /\ mounted' \in [Problems -> BOOLEAN] /\ scratch' \in [Problems -> SUBSET Triples]
        /\ \A q \in Problems \ {p} : mounted'[q] = mounted[q]
    <3>1. PICK b \in BOOLEAN : b = (kind = "mount" \/ (mounted[p] /\ kind = "shared"))
      OBVIOUS
    <3>2. mounted' = [mounted EXCEPT ![p] = b]
      BY <1>2, <1>5, <3>1 DEF Turn
    <3>3. PICK left : left = IF kind = "copy" THEN scratch[p] \ {t} ELSE scratch[p]
      OBVIOUS
    <3>4. left \in SUBSET Triples
      BY <3>3 DEF IInv, TypeOK
    <3>5. scratch' = [scratch EXCEPT ![p] = left]
      BY <1>2, <1>5, <3>3 DEF Turn
    <3>6. QED
      BY <3>1, <3>2, <3>4, <3>5 DEF IInv, TypeOK
  <2>7. /\ turns' \in [Problems -> [Triples -> Nat]] /\ turns'[p][t] > 0
        /\ \A q \in Problems \ {p} : turns'[q] = turns[q]
    <3>1. turns \in [Problems -> [Triples -> Nat]]
      BY DEF IInv, TypeOK
    <3>2. turns[p] \in [Triples -> Nat]
      BY <3>1
    <3>3. PICK f : f = [turns[p] EXCEPT ![t] = @ + 1]
      OBVIOUS
    <3>4. f \in [Triples -> Nat] /\ f[t] > 0
      BY <1>3, <3>2, <3>3
    <3>5. turns' = [turns EXCEPT ![p] = f]
      BY <1>2, <1>5, <3>3 DEF Turn
    <3>6. QED
      BY <3>1, <3>4, <3>5
  <2>5. s = "pristine" \/ LeftOver(p)'
    <3>1. CASE s = "pristine"
      BY <3>1
    <3>2. CASE s # "pristine"
      <4>1. s = tree[p] /\ LeftOver(p)
        BY <1>3, <2>3, <3>2 DEF Reset
      <4>2. /\ job'[p].has = job[p].has /\ job'[p].todo = job[p].todo /\ tree'[p] = tree[p]
            /\ broke' = broke
        BY <1>1, <2>1, <2>2, <2>4, <4>1 DEF IInv, TypeOK
      <4>3. \A u \in Triples : turns[p][u] > 0 => turns'[p][u] > 0
        <5>1. turns' = [turns EXCEPT ![p][t] = @ + 1]
          BY <1>2, <1>5 DEF Turn
        <5>2. \A u \in Triples : turns[p][u] \in Nat
          BY DEF IInv, TypeOK
        <5>3. \A u \in Triples : turns'[p][u] = turns[p][u] \/ turns'[p][u] = turns[p][u] + 1
          BY <1>3, <5>1 DEF IInv, TypeOK
        <5>4. QED
          BY <5>2, <5>3
      <4>4. QED
        BY <4>1, <4>2, <4>3 DEF LeftOver, Unrefreshed, HadTurn
    <3>3. QED
      BY <3>1, <3>2
  <2>8. /\ verdict' = verdict /\ handles' = handles /\ stop' \in BOOLEAN
        /\ verdict' \in [Problems -> [Triples -> {"open", "PASS", "FAIL", "unearned"}]]
        /\ UNCHANGED <<cmd, commands>>
    BY <1>2, <1>5 DEF Turn, IInv, TypeOK
  <2>9. entry' = [entry EXCEPT ![p] = entry[p]] /\ UNCHANGED <<cmd, bare, handles, broke, commands>>
    BY <1>1, <2>8 DEF cache, IInv, TypeOK
  <2>10. /\ j.at \in {"next", "agent", "remount", "done"} /\ j.at # "remount"
         /\ (j.has = "overlay" => Vouched(entry[p], cmd.iso))
         /\ (j.at = "agent" => s # "used" /\ j.now \in j.todo /\ turns'[p][j.now] > 0)
         /\ \A u \in j.todo : verdict'[p][u] = "open"
    BY <1>3, <2>2, <2>4, <2>7, <2>8
  <2>11. \A q \in Problems \ {p} :
           mounted'[q] = mounted[q] /\ verdict'[q] = verdict[q] /\ turns'[q] = turns[q]
    BY <2>6, <2>7, <2>8
  <2>12. QED
    BY <1>1, <1>3, <1>4, <2>1, <2>2, <2>4, <2>5, <2>6, <2>7, <2>8, <2>9, <2>10, <2>11, ArmStep
<1>6. CASE EndArm(p, t, kind, "ERROR", tree[p]) /\ UNCHANGED turns
  BY <1>1, <1>2, <1>3, <1>4, <1>6, EndArmStep
<1>7. QED
  BY <1>2, <1>5, <1>6

\* What the end of an arm may be, seen from its turn: a verdict, or a fault.
LEMMA JudgeEnds ==
  ASSUME NEW p \in Problems, Judge(p)
  PROVE  \E v \in {"PASS", "FAIL", "unearned", "ERROR"}, shown \in Trees :
           /\ EndArm(p, job[p].now, job[p].venv, v, shown)
           /\ shown \in Touched \/ (shown = "none" /\ tree[p] = "none")
           /\ v = "unearned" => tree[p] = "none"
           /\ IF v = "ERROR" /\ tree[p] # "none" THEN Fault ELSE faults' = faults
<1>1. CASE faults' = faults /\ \E outcome \in Outcomes(tree[p]) :
             EndArm(p, job[p].now, job[p].venv, outcome[1], outcome[2])
  <2>1. PICK outcome \in Outcomes(tree[p]) :
          EndArm(p, job[p].now, job[p].venv, outcome[1], outcome[2])
    BY <1>1
  <2>2. PICK v, shown : v = outcome[1] /\ shown = outcome[2]
    OBVIOUS
  <2>3. CASE tree[p] = "none"
    <3>1. v \in {"unearned", "ERROR"} /\ shown = "none"
      BY <2>2, <2>3 DEF Outcomes
    <3>2. QED
      BY <1>1, <2>1, <2>2, <2>3, <3>1 DEF Trees
  <2>4. CASE tree[p] # "none"
    <3>1. v \in {"PASS", "FAIL"} /\ shown \in Touched
      BY <2>2, <2>4 DEF Outcomes, Worked, Touched
    <3>2. shown \in Trees
      BY <3>1 DEF Touched, Trees
    <3>3. QED
      BY <1>1, <2>1, <2>2, <3>1, <3>2
  <2>5. QED
    BY <2>3, <2>4
<1>2. CASE /\ tree[p] # "none" /\ Fault
           /\ \E shown \in Worked(tree[p]) :
                EndArm(p, job[p].now, job[p].venv, "ERROR", shown)
  <2>1. PICK shown \in Worked(tree[p]) : EndArm(p, job[p].now, job[p].venv, "ERROR", shown)
    BY <1>2
  <2>2. shown \in Touched /\ shown \in Trees
    BY DEF Worked, Touched, Trees
  <2>3. QED
    BY <1>2, <2>1, <2>2
<1>3. QED
  BY <1>1, <1>2 DEF Judge

LEMMA ArmIsJudged ==
  ASSUME IInv, NEW p \in Problems, Judge(p)
  PROVE  IInv'
<1>1. job[p].at = "agent" /\ UNCHANGED <<cache, turns, broke>>
  BY DEF Judge, At
<1>2. PICK v \in {"PASS", "FAIL", "unearned", "ERROR"}, shown \in Trees :
        /\ EndArm(p, job[p].now, job[p].venv, v, shown)
        /\ shown \in Touched \/ (shown = "none" /\ tree[p] = "none")
        /\ IF v = "ERROR" /\ tree[p] # "none" THEN Fault ELSE faults' = faults
  BY JudgeEnds
<1>3. job[p] \in Jobs /\ job[p].now \in job[p].todo /\ turns[p][job[p].now] > 0
  BY <1>1, ArmsAreSetUp
<1>4. faults' \in 0..MaxFaults
  BY <1>2, OverlayAssumption DEF Fault, IInv, TypeOK
<1>5. PICK t, kind : t = job[p].now /\ kind = job[p].venv
  OBVIOUS
<1>6. t \in job[p].todo /\ turns[p][t] > 0 /\ kind \in {"shared", "mount", "copy"}
  BY <1>3, <1>5, JobIsTyped
<1>7. EndArm(p, t, kind, v, shown)
  BY <1>2, <1>5
<1>8. shown = tree[p] \/ (shown \in Touched /\ turns[p][t] > 0)
  BY <1>2, <1>6
<1>9. QED
  BY <1>1, <1>4, <1>6, <1>7, <1>8, EndArmStep

LEMMA ArmIsLost ==
  ASSUME IInv, NEW p \in Problems, ArmFails(p)
  PROVE  IInv'
<1>1. job[p].at \in {"wait", "next"} /\ UNCHANGED <<cache, turns, broke>>
  BY DEF ArmFails, MayBegin, At
<1>2. PICK kind \in {"shared", "mount", "copy"} :
        kind = IF cmd.iso /\ p \in handles THEN "mount" ELSE "shared"
  OBVIOUS
<1>3. PICK t \in job[p].todo : EndArm(p, t, kind, "ERROR", tree[p])
  BY <1>2 DEF ArmFails
<1>4. faults' \in 0..MaxFaults
  BY OverlayAssumption DEF ArmFails, Fault, IInv, TypeOK
<1>5. tree[p] \in Trees
  BY DEF IInv, TypeOK
<1>6. QED
  BY <1>1, <1>3, <1>4, <1>5, EndArmStep


LEMMA ArmMoves ==
  ASSUME IInv, NEW p \in Problems, Cancelled(p) \/ Install(p) \/ Remount(p)
  PROVE  IInv'
<1>1. /\ job[p].at \in {"wait", "next", "agent", "remount"}
      /\ UNCHANGED <<cmd, layers, memory, results, commands, faults>>
  BY DEF Cancelled, Install, Remount, MayBegin, At
<1>2. /\ cmd.iso \in BOOLEAN /\ job[p] \in Jobs /\ job[p].has # "nothing" /\ entry[p] \in Entries
      /\ (job[p].has = "overlay" => Vouched(entry[p], cmd.iso)) /\ tree[p] \in Trees
      /\ (job[p].at = "agent" => tree[p] = "pristine" \/ LeftOver(p))
      /\ (job[p].at = "agent" => /\ tree[p] # "used" /\ job[p].now \in job[p].todo
                                 /\ turns[p][job[p].now] > 0)
      /\ \A t \in job[p].todo : t \in Triples /\ verdict[p][t] = "open"
  BY <1>1, ArmsAreSetUp DEF Commands
<1>3. /\ mounted' \in [Problems -> BOOLEAN] /\ scratch' \in [Problems -> SUBSET Triples]
      /\ verdict' \in [Problems -> [Triples -> {"open", "PASS", "FAIL", "unearned"}]]
      /\ turns' \in [Problems -> [Triples -> Nat]] /\ turns' = turns /\ verdict' = verdict
      /\ \A q \in Problems \ {p} :
           mounted'[q] = mounted[q] /\ verdict'[q] = verdict[q] /\ turns'[q] = turns[q]
      /\ stop' \in BOOLEAN /\ faults' \in 0..MaxFaults
  BY <1>1 DEF layers, memory, results, IInv, TypeOK
<1>4. /\ tree = [tree EXCEPT ![p] = tree[p]] /\ entry = [entry EXCEPT ![p] = entry[p]]
      /\ handles' = handles /\ broke' = broke
  BY <1>1 DEF memory, IInv, TypeOK
<1>5. CASE Cancelled(p)
  <2>1. PICK j : j = [job[p] EXCEPT !.at = "done", !.todo = {}]
    OBVIOUS
  <2>2. j \in Jobs /\ j.at = "done" /\ j.has = job[p].has /\ j.todo = {}
    BY <1>2, <2>1 DEF Jobs, Arming
  <2>3. job' = [job EXCEPT ![p] = j]
    BY <1>5, <2>1 DEF Cancelled, IInv, TypeOK
  <2>4. tree' = tree /\ entry' = entry /\ bare' = bare
    BY <1>5 DEF Cancelled, cache
  <2>5. /\ UNCHANGED <<cmd, bare, handles, broke, commands>> /\ tree' = [tree EXCEPT ![p] = tree[p]]
        /\ entry' = [entry EXCEPT ![p] = entry[p]] /\ job[p].at \in {"wait", "next", "agent", "remount"}
    BY <1>1, <1>4, <2>4
  <2>6. /\ j.at \in {"next", "agent", "remount", "done"} /\ j.at \notin {"next", "agent", "remount"}
        /\ (j.has = "overlay" => Vouched(entry[p], cmd.iso))
        /\ \A u \in j.todo : verdict'[p][u] = "open"
    BY <1>2, <2>2
  <2>7. QED
    BY <1>2, <1>3, <2>2, <2>3, <2>5, <2>6, ArmStep
<1>6. CASE Install(p)
  <2>1. PICK base : base = Base(entry[p], cmd.iso)
    OBVIOUS
  <2>2. PICK own \in BOOLEAN : own = (job[p].venv = "copy" \/ ~WritesThrough(cmd.iso, base))
    OBVIOUS
  <2>3. PICK e : e = IF own THEN entry[p] ELSE WithBase(entry[p], cmd.iso, Spoil(base))
    OBVIOUS
  <2>4. PICK j : j = [job[p] EXCEPT !.dirty = @ \/ own]
    OBVIOUS
  <2>5. /\ job[p].at = "agent" /\ job[p].has = "overlay" /\ tree' = tree /\ bare' = bare
        /\ entry' = [entry EXCEPT ![p] = e]
    BY <1>6, <2>1, <2>2, <2>3 DEF Install, Writes, At
  <2>6. job' = [job EXCEPT ![p] = j]
    <3>1. job' = [job EXCEPT ![p].dirty = @ \/ own]
      BY <1>6, <2>1, <2>2 DEF Install
    <3>2. QED
      BY <2>4, <3>1 DEF IInv, TypeOK
  <2>7. /\ j \in Jobs /\ j.at = "agent" /\ j.has = "overlay" /\ j.now = job[p].now
        /\ j.todo = job[p].todo
    BY <1>2, <2>4, <2>5 DEF Jobs
  <2>8. e \in Entries /\ e.repo = entry[p].repo /\ Vouched(e, cmd.iso)
    BY <1>2, <2>1, <2>2, <2>3, <2>5, SpoiledIsVouched
  <2>9. /\ UNCHANGED <<cmd, bare, handles, broke, commands>> /\ tree' = [tree EXCEPT ![p] = tree[p]]
        /\ job[p].at \in {"wait", "next", "agent", "remount"} /\ tree[p] \in Trees
    BY <1>1, <1>2, <1>4, <2>5
  <2>10. /\ j.at \in {"next", "agent", "remount", "done"} /\ j.at # "remount" /\ j.has = job[p].has
         /\ j.now \in j.todo /\ turns'[p][j.now] > 0 /\ tree[p] # "used"
         /\ \A u \in j.todo : verdict'[p][u] = "open"
    BY <1>2, <1>3, <2>5, <2>7
  <2>11. tree[p] = "pristine" \/ LeftOver(p)'
    <3>1. /\ job'[p].has = job[p].has /\ job'[p].todo = job[p].todo /\ turns' = turns
          /\ tree' = tree /\ broke' = broke
      BY <1>3, <1>4, <2>5, <2>6, <2>7 DEF IInv, TypeOK
    <3>2. QED
      BY <1>2, <2>5, <3>1 DEF LeftOver, Unrefreshed, HadTurn
  <2>12. QED
    <3>1. entry' = [entry EXCEPT ![p] = e] /\ j \in Jobs
      BY <2>5, <2>7
    <3>2. QED
      BY <1>3, <2>6, <2>8, <2>9, <2>10, <2>11, <3>1, ArmStep
<1>7. CASE Remount(p)
  <2>1. PICK j : j = [job[p] EXCEPT !.at = "next"]
    OBVIOUS
  <2>2. j \in Jobs /\ j.at = "next" /\ j.has = job[p].has /\ j.todo = job[p].todo
    BY <1>2, <2>1 DEF Jobs, Arming
  <2>3. job' = [job EXCEPT ![p] = j]
    BY <1>7, <2>1 DEF Remount, Goes, IInv, TypeOK
  <2>4. tree' = [tree EXCEPT ![p] = "pristine"] /\ entry' = entry /\ bare' = bare
        /\ "pristine" \in Trees
    BY <1>7 DEF Remount, cache, Trees
  <2>5. /\ UNCHANGED <<cmd, bare, handles, broke, commands>>
        /\ entry' = [entry EXCEPT ![p] = entry[p]] /\ job[p].at \in {"wait", "next", "agent", "remount"}
    BY <1>1, <1>4, <2>4
  <2>6. /\ j.at \in {"next", "agent", "remount", "done"} /\ j.at \notin {"agent", "remount"}
        /\ (j.has = "overlay" => Vouched(entry[p], cmd.iso))
        /\ \A u \in j.todo : verdict'[p][u] = "open"
    BY <1>2, <1>3, <2>2
  <2>7. QED
    BY <1>2, <1>3, <2>2, <2>3, <2>4, <2>5, <2>6, ArmStep
<1>8. QED
  BY <1>5, <1>6, <1>7

\* A refresh that fails in a pool reaches the other threads' overlays.
LEMMA RefreshIsLost ==
  ASSUME IInv, NEW p \in Problems, RefreshFails(p)
  PROVE  IInv'
<1>1. /\ job[p].at = "remount" /\ broke' = TRUE /\ UNCHANGED <<cache, layers, results>>
      /\ faults' \in 0..MaxFaults
  BY OverlayAssumption DEF RefreshFails, At, Fault, IInv, TypeOK
<1>2. /\ mounted' \in [Problems -> BOOLEAN] /\ scratch' \in [Problems -> SUBSET Triples]
      /\ verdict' \in [Problems -> [Triples -> {"open", "PASS", "FAIL", "unearned"}]]
      /\ turns' \in [Problems -> [Triples -> Nat]]
      /\ mounted' = mounted /\ verdict' = verdict /\ turns' = turns
      /\ entry' = entry /\ bare' = bare /\ scratch' = scratch
  BY <1>1 DEF cache, layers, results, IInv, TypeOK
<1>3. CASE Ends(handles)
  <2>1. broke' \in BOOLEAN
    BY <1>1
  <2>2. QED
    BY <1>1, <1>2, <1>3, <2>1, CacheStays, EndsStep
<1>4. CASE /\ cmd.wide
           /\ \E left \in {"none", "history"} :
                 tree' = [q \in Problems |-> IF q \in handles THEN "none"
                                             ELSE IF q = p THEN left ELSE tree[q]]
           /\ job' = [job EXCEPT ![p].at = "done", ![p].todo = {}]
           /\ handles' = {}
           /\ UNCHANGED <<cmd, stop, commands>>
  <2>1. PICK left \in {"none", "history"} :
          tree' = [q \in Problems |-> IF q \in handles THEN "none"
                                      ELSE IF q = p THEN left ELSE tree[q]]
    BY <1>4
  <2>2. PICK j : j = [job[p] EXCEPT !.at = "done", !.todo = {}]
    OBVIOUS
  <2>3. cmd.is = "arms" /\ job[p] \in Jobs
    BY <1>1, ArmsAreSetUp
  <2>4. j \in Jobs /\ j.at = "done" /\ j.has = job[p].has /\ j.todo = {}
    BY <2>2, <2>3 DEF Jobs, Arming
  <2>5. job' = [job EXCEPT ![p] = j]
    BY <1>4, <2>2 DEF IInv, TypeOK
  <2>6. tree' \in [Problems -> Trees]
    BY <2>1 DEF Trees, IInv, TypeOK
  <2>7. TypeOK'
    <3>1. job' \in [Problems -> Jobs]
      BY <2>4, <2>5 DEF IInv, TypeOK
    <3>2. handles' \subseteq Problems /\ broke' \in BOOLEAN /\ UNCHANGED <<cmd, stop, commands>>
      BY <1>1, <1>4
    <3>3. QED
      BY <1>1, <1>2, <2>6, <3>1, <3>2 DEF IInv, TypeOK
  <2>8. BrokeInPool'
    BY <1>4 DEF BrokeInPool
  <2>9. ASSUME NEW q \in Problems
        PROVE  Fits(q)'
    <3>1. Fits(q) /\ cmd' = cmd
      BY <1>4 DEF IInv
    <3>2. CASE q = p
      <4>1. job'[q].at = "done" /\ job'[q].has = job[q].has /\ job'[q].todo = {}
        BY <2>4, <2>5, <3>2 DEF IInv, TypeOK
      <4>2. PlaceFits(q)' /\ RepoFits(q)' /\ LockFits(q)'
        BY <1>2, <2>3, <3>1, <4>1 DEF Fits, PlaceFits, RepoFits, LockFits, OffArms, Building, Arming
      <4>3. TreeFits(q)'
        BY <1>1, <4>1 DEF TreeFits
      <4>4. EnvironmentFits(q)'
        BY <1>2, <3>1, <4>1 DEF Fits, EnvironmentFits
      <4>5. TasksFit(q)'
        BY <4>1 DEF TasksFit
      <4>6. QED
        BY <4>2, <4>3, <4>4, <4>5 DEF Fits
    <3>3. CASE q # p
      <4>1. job'[q] = job[q] /\ (tree'[q] = tree[q] \/ tree'[q] = "none")
        BY <2>1, <2>5, <3>3 DEF IInv, TypeOK
      <4>2. PlaceFits(q)' /\ RepoFits(q)' /\ LockFits(q)'
        BY <1>2, <3>1, <4>1 DEF Fits, PlaceFits, RepoFits, LockFits
      <4>3. job[q].at \in Arming
        BY <2>3, <3>1 DEF Fits, PlaceFits
      <4>4. TreeFits(q)'
        <5>1. turns' = turns
          BY <1>2
        <5>2. TreeFits(q) /\ job[q].at \notin {"look", "purge", "refill", "relock", "mount", "set"}
          BY <3>1, <4>3 DEF Fits, Arming
        <5>3. QED
          BY <1>1, <4>1, <5>1, <5>2 DEF TreeFits, LeftOver, Unrefreshed, HadTurn
      <4>5. EnvironmentFits(q)'
        BY <1>2, <3>1, <4>1 DEF Fits, EnvironmentFits
      <4>6. TasksFit(q)'
        BY <1>2, <3>1, <4>1 DEF Fits, TasksFit
      <4>7. QED
        BY <4>2, <4>4, <4>5, <4>6 DEF Fits
    <3>4. QED
      BY <3>2, <3>3
  <2>10. QED
    BY <2>7, <2>8, <2>9 DEF IInv
<1>5. QED
  BY <1>3, <1>4 DEF RefreshFails


-----------------------------------------------------------------------------
(***************************************************************************)
(* The operator's commands, and the invariant.                             *)
(***************************************************************************)
LEMMA NothingRuns ==
  ASSUME IInv, cmd.is = "none", NEW p \in Problems
  PROVE  /\ job[p].at = "idle" /\ entry[p] \in Entries /\ (entry[p].repo => bare = "whole")
BY DEF IInv, Fits, PlaceFits, RepoFits, TypeOK

LEMMA Issued ==
  ASSUME IInv, NEW c, Issue(c)
  PROVE  cmd.is = "none" /\ cmd' = c /\ commands' \in 0..MaxCommands
<1>1. commands \in 0..MaxCommands /\ MaxCommands \in Nat
  BY OverlayAssumption DEF IInv, TypeOK
<1>2. cmd.is = "none" /\ cmd' = c /\ commands < MaxCommands /\ commands' = commands + 1
  BY DEF Issue
<1>3. QED
  BY <1>1, <1>2

\* A command that starts with every thread where no arm is set up.
LEMMA StartStep ==
  ASSUME IInv, NEW c \in {"build", "clean", "clean bare"}, Issue(Does(c)),
         NEW g \in [Problems -> OffArms \ {"lock", "write"}],
         job' = [p \in Problems |-> [Idle EXCEPT !.at = g[p]]],
         \A p \in Problems : IF c = "build" THEN g[p] # "remove" ELSE g[p] \in {"idle", "remove"},
         \A p \in Problems : c = "clean bare" /\ g[p] = "idle" => ~entry[p].repo,
         UNCHANGED <<cache, layers, tree, memory, results, faults>>
  PROVE  IInv'
<1>1. NoCommand \in Commands
  BY DEF NoCommand, Commands
<1>2. Does(c) \in Commands /\ Does(c).is = c
  BY <1>1 DEF Does, Commands
<1>3. cmd.is = "none" /\ cmd' = Does(c) /\ commands' \in 0..MaxCommands
  BY Issued
<1>4. \A p \in Problems : /\ job'[p] \in Jobs /\ job'[p].at = g[p]
                          /\ job'[p].has = "nothing" /\ job'[p].todo = {}
  BY IdleIsTyped DEF OffArms, Jobs
<1>5. job' \in [Problems -> Jobs]
  BY <1>4
<1>6. TypeOK'
  BY <1>2, <1>3, <1>5 DEF IInv, TypeOK, cache, layers, memory, results
<1>7. BrokeInPool'
  BY <1>2, <1>3 DEF BrokeInPool
<1>8. ASSUME NEW p \in Problems
      PROVE  Fits(p)'
  <2>1. /\ job'[p].at = g[p] /\ g[p] \in OffArms \ {"lock", "write"}
        /\ job'[p].has = "nothing" /\ job'[p].todo = {} /\ cmd'.is = c
        /\ entry'[p] = entry[p] /\ bare' = bare /\ (entry[p].repo => bare = "whole")
    BY <1>2, <1>3, <1>4, NothingRuns DEF cache
  <2>2. PlaceFits(p)' /\ RepoFits(p)' /\ LockFits(p)'
    BY <2>1 DEF PlaceFits, RepoFits, LockFits, OffArms
  <2>3. TreeFits(p)'
    BY <2>1 DEF TreeFits, OffArms, Building
  <2>4. EnvironmentFits(p)'
    BY <2>1 DEF EnvironmentFits, OffArms, Building
  <2>5. TasksFit(p)'
    BY <2>1 DEF TasksFit, OffArms, Building
  <2>6. QED
    BY <2>2, <2>3, <2>4, <2>5 DEF Fits
<1>9. QED
  BY <1>6, <1>7, <1>8 DEF IInv

LEMMA BuildStarts ==
  ASSUME IInv, NEW force \in BOOLEAN, StartBuild(force)
  PROVE  IInv'
<1> DEFINE place(p) == IF force THEN "unlock"
       ELSE IF HasCached(entry[p], TRUE) \/ HasCached(entry[p], FALSE) THEN "idle" ELSE "fetch"
<1>1. PICK g : g = [p \in Problems |-> place(p)]
  OBVIOUS
<1>2. g \in [Problems -> OffArms \ {"lock", "write"}] /\ \A p \in Problems : g[p] # "remove"
  BY <1>1 DEF OffArms, Building
<1>3. job' = [p \in Problems |-> [Idle EXCEPT !.at = g[p]]]
  BY <1>1 DEF StartBuild
<1>4. Issue(Does("build")) /\ UNCHANGED <<cache, layers, tree, memory, results, faults>>
  BY DEF StartBuild
<1> HIDE DEF place
<1>5. QED
  BY <1>2, <1>3, <1>4, StartStep

LEMMA CleanStarts ==
  ASSUME IInv, NEW targets \in SUBSET Problems, NEW withBare \in BOOLEAN,
         StartClean(targets, withBare)
  PROVE  IInv'
<1>1. PICK c : c = IF withBare THEN "clean bare" ELSE "clean"
  OBVIOUS
<1>2. PICK g : g = [p \in Problems |->
                      IF p \in targets /\ Present(entry[p]) THEN "remove" ELSE "idle"]
  OBVIOUS
<1>3. g \in [Problems -> OffArms \ {"lock", "write"}] /\ \A p \in Problems : g[p] \in {"idle", "remove"}
  BY <1>2 DEF OffArms, Building
<1>4. job' = [p \in Problems |-> [Idle EXCEPT !.at = g[p]]]
  <2>1. Idle = [Idle EXCEPT !.at = "idle"]
    BY IdleIsTyped DEF Idle
  <2>2. QED
    BY <1>2, <2>1 DEF StartClean
<1>5. ASSUME NEW p \in Problems, c = "clean bare", g[p] = "idle"
      PROVE  ~entry[p].repo
  <2>1. ~Present(entry[p])
    BY <1>1, <1>2, <1>5 DEF StartClean
  <2>2. QED
    BY <2>1 DEF Present, Absent
<1>6. Issue(Does(c)) /\ UNCHANGED <<cache, layers, tree, memory, results, faults>>
  BY <1>1 DEF StartClean
<1>7. c \in {"build", "clean", "clean bare"} /\ c # "build"
  BY <1>1
<1>8. QED
  BY <1>3, <1>4, <1>5, <1>6, <1>7, StartStep

LEMMA RunStarts ==
  ASSUME IInv, NEW f \in Flags, StartRun(f.iso, f.wide, f.strict)
  PROVE  IInv'
<1>1. PICK c : c = [is |-> "setup", wide |-> f.wide, iso |-> f.iso, strict |-> f.strict]
  OBVIOUS
<1>2. c \in Commands /\ c.is = "setup"
  BY <1>1, OverlayAssumption DEF Commands
<1>3. cmd.is = "none" /\ cmd' = c /\ commands' \in 0..MaxCommands
  BY <1>1, Issued DEF StartRun
<1>4. \A p \in Problems : Tasks(p) \in SUBSET Triples /\ \A t \in Tasks(p) : verdict[p][t] = "open"
  BY DEF Tasks
<1>5. \A p \in Problems : /\ job'[p] \in Jobs /\ job'[p].at = "look"
                          /\ job'[p].has = "nothing" /\ job'[p].todo = Tasks(p)
  BY <1>4, IdleIsTyped DEF StartRun, Jobs, Setting
<1>6. job' \in [Problems -> Jobs]
  BY <1>5 DEF StartRun
<1>7. /\ tree' = [p \in Problems |-> "none"] /\ broke' = FALSE
      /\ UNCHANGED <<cache, layers, handles, stop, results, faults>>
  BY DEF StartRun
<1>8. TypeOK'
  BY <1>2, <1>3, <1>6, <1>7 DEF IInv, TypeOK, cache, layers, results, Trees
<1>9. BrokeInPool'
  BY <1>7 DEF BrokeInPool
<1>10. ASSUME NEW p \in Problems
       PROVE  Fits(p)'
  <2>1. /\ job'[p].at = "look" /\ job'[p].has = "nothing" /\ cmd'.is = "setup" /\ tree'[p] = "none"
        /\ entry'[p] = entry[p] /\ bare' = bare /\ (entry[p].repo => bare = "whole")
    BY <1>2, <1>3, <1>5, <1>7, NothingRuns DEF cache
  <2>2. \A t \in job'[p].todo : verdict'[p][t] = "open"
    BY <1>4, <1>5, <1>7 DEF results
  <2>3. PlaceFits(p)' /\ RepoFits(p)' /\ LockFits(p)'
    BY <2>1 DEF PlaceFits, RepoFits, LockFits, OffArms, Building, Setting
  <2>4. TreeFits(p)'
    BY <2>1 DEF TreeFits
  <2>5. EnvironmentFits(p)'
    BY <2>1 DEF EnvironmentFits
  <2>6. TasksFit(p)'
    BY <2>1, <2>2 DEF TasksFit
  <2>7. QED
    BY <2>3, <2>4, <2>5, <2>6 DEF Fits
<1>11. QED
  BY <1>8, <1>9, <1>10 DEF IInv


LEMMA EndsIdle ==
  ASSUME IInv, EndBuild \/ EndClean
  PROVE  IInv'
<1> USE DEF IInv
<1>1. /\ cmd' = NoCommand /\ All("idle") /\ NoCommand \in Commands /\ NoCommand.is = "none"
      /\ UNCHANGED <<entry, layers, tree, job, memory, results, commands, faults>>
      /\ bare' \in {"none", "half", "whole"}
  BY DEF EndBuild, EndClean, NoCommand, Commands, cache, TypeOK
<1>2. TypeOK'
  BY <1>1 DEF TypeOK, layers, memory, results
<1>3. BrokeInPool'
  BY <1>1 DEF BrokeInPool
<1>4. ASSUME NEW p \in Problems
      PROVE  Fits(p)'
  <2>1. /\ job'[p].at = "idle" /\ job'[p].has = "nothing" /\ job'[p].todo = {}
        /\ cmd'.is = "none" /\ entry'[p] = entry[p]
    BY <1>1 DEF All, Fits, PlaceFits, OffArms
  <2>2. entry[p].repo => bare' = "whole"
    <3>1. (entry[p].repo => bare = "whole") /\ (cmd.is = "clean bare" => ~entry[p].repo)
      BY <1>1 DEF All, Fits, RepoFits
    <3>2. CASE EndBuild
      BY <3>1, <3>2 DEF EndBuild, cache
    <3>3. CASE EndClean
      BY <3>1, <3>3 DEF EndClean
    <3>4. QED
      BY <3>2, <3>3
  <2>3. PlaceFits(p)' /\ RepoFits(p)' /\ LockFits(p)'
    BY <2>1, <2>2 DEF PlaceFits, RepoFits, LockFits
  <2>4. TreeFits(p)' /\ EnvironmentFits(p)' /\ TasksFit(p)'
    BY <2>1 DEF TreeFits, EnvironmentFits, TasksFit
  <2>5. QED
    BY <2>3, <2>4 DEF Fits
<1>5. QED
  BY <1>2, <1>3, <1>4

LEMMA RunEnds ==
  ASSUME IInv, NEW hs, Ends(hs), cache' = cache, mounted' = mounted,
         scratch' \in [Problems -> SUBSET Triples], broke' = broke, results' = results,
         faults' \in 0..MaxFaults
  PROVE  IInv'
<1>1. /\ mounted' \in [Problems -> BOOLEAN] /\ broke' \in BOOLEAN
      /\ verdict' \in [Problems -> [Triples -> {"open", "PASS", "FAIL", "unearned"}]]
      /\ turns' \in [Problems -> [Triples -> Nat]]
  BY DEF results, IInv, TypeOK
<1>2. QED
  BY <1>1, CacheStays, EndsStep

LEMMA SetUpEnds ==
  ASSUME IInv, EndSetUp
  PROVE  IInv'
<1>1. /\ cmd.is = "setup" /\ All("set") /\ UNCHANGED <<cache, layers, broke, results, faults>>
      /\ cmd \in Commands
  BY DEF EndSetUp, IInv, TypeOK
<1>2. CASE Ends(handles)
  <2>1. /\ mounted' = mounted /\ scratch' \in [Problems -> SUBSET Triples] /\ broke' = broke
        /\ results' = results /\ faults' \in 0..MaxFaults /\ cache' = cache
    BY <1>1 DEF layers, IInv, TypeOK
  <2>2. QED
    BY <1>2, <2>1, RunEnds
<1>3. CASE /\ cmd' = [cmd EXCEPT !.is = "arms"]
           /\ job' = [p \in Problems |-> [job[p] EXCEPT !.at =
                IF job[p].has = "nothing" \/ job[p].todo = {} THEN "done" ELSE "wait"]]
           /\ UNCHANGED <<tree, handles, stop, commands>>
  <2>1. /\ cmd' \in Commands /\ cmd'.is = "arms" /\ cmd'.wide = cmd.wide /\ cmd'.iso = cmd.iso
    BY <1>1, <1>3 DEF Commands
  <2>2. \A p \in Problems :
          /\ job'[p] \in Jobs /\ job'[p].has = job[p].has /\ job'[p].todo = job[p].todo
          /\ job'[p].at = IF job[p].has = "nothing" \/ job[p].todo = {} THEN "done" ELSE "wait"
    <3>1. TAKE p \in Problems
    <3>2. job[p] \in Jobs
      BY DEF IInv, TypeOK
    <3>3. PICK l : l = IF job[p].has = "nothing" \/ job[p].todo = {} THEN "done" ELSE "wait"
      OBVIOUS
    <3>4. job'[p] = [job[p] EXCEPT !.at = l] /\ l \in Arming
      BY <1>3, <3>3 DEF Arming
    <3>5. QED
      BY <3>2, <3>3, <3>4 DEF Jobs
  <2>3. job' \in [Problems -> Jobs]
    BY <1>3, <2>2
  <2>4. TypeOK'
    BY <1>1, <1>3, <2>1, <2>3 DEF IInv, TypeOK, cache, layers, results
  <2>5. BrokeInPool'
    BY <1>1, <2>1 DEF IInv, BrokeInPool
  <2>6. ASSUME NEW p \in Problems
        PROVE  Fits(p)'
    <3>1. /\ job[p].at = "set" /\ Fits(p) /\ entry'[p] = entry[p] /\ bare' = bare /\ tree' = tree
          /\ handles' = handles /\ verdict' = verdict /\ turns' = turns /\ broke' = broke
      BY <1>1, <1>3 DEF All, IInv, cache, results
    <3>2. /\ job'[p].at \in {"done", "wait"} /\ (job'[p].at = "wait" => job[p].has # "nothing")
          /\ job'[p].has = job[p].has /\ job'[p].todo = job[p].todo
      BY <2>2
    <3>3. PlaceFits(p)' /\ RepoFits(p)' /\ LockFits(p)'
      BY <2>1, <3>1, <3>2 DEF Fits, PlaceFits, RepoFits, LockFits, OffArms, Building, Arming
    <3>4. TreeFits(p)'
      BY <3>1, <3>2 DEF Fits, TreeFits
    <3>5. EnvironmentFits(p)'
      BY <2>1, <3>1, <3>2 DEF Fits, EnvironmentFits
    <3>6. TasksFit(p)'
      BY <3>1, <3>2 DEF Fits, TasksFit
    <3>7. QED
      BY <3>3, <3>4, <3>5, <3>6 DEF Fits
  <2>7. QED
    BY <2>4, <2>5, <2>6 DEF IInv
<1>4. QED
  BY <1>2, <1>3 DEF EndSetUp

LEMMA EndsOrKill ==
  ASSUME IInv, EndRun \/ Kill
  PROVE  IInv'
<1>1. CASE EndRun
  <2>1. /\ Ends(handles) /\ cache' = cache /\ mounted' = mounted /\ broke' = broke
        /\ scratch' \in [Problems -> SUBSET Triples]
        /\ results' = results /\ faults' \in 0..MaxFaults
    BY <1>1 DEF EndRun, layers, IInv, TypeOK
  <2>2. QED
    BY <2>1, RunEnds
<1>2. CASE Kill
  <2>1. ASSUME NEW p \in Problems, job[p].at = "agent"
        PROVE  job[p].now \in Triples
    BY <2>1, ArmsAreSetUp
  <2>2. scratch' \in [Problems -> SUBSET Triples]
    BY <1>2, <2>1 DEF Kill, At, IInv, TypeOK
  <2>3. /\ Ends({}) /\ entry' = entry /\ mounted' \in [Problems -> BOOLEAN] /\ broke' \in BOOLEAN
        /\ verdict' \in [Problems -> [Triples -> {"open", "PASS", "FAIL", "unearned"}]]
        /\ turns' \in [Problems -> [Triples -> Nat]] /\ faults' \in 0..MaxFaults
    BY <1>2, OverlayAssumption DEF Kill, Fault, results, IInv, TypeOK
  <2>4. bare' \in {"none", "half", "whole"}
    BY <1>2 DEF Kill, IInv, TypeOK
  <2>5. ASSUME NEW p \in Problems, entry[p].repo
        PROVE  bare' = "whole"
    <3>1. bare = "whole" /\ ~(cmd.is = "clean bare" /\ job[p].at = "idle")
      BY <2>5 DEF IInv, Fits, RepoFits
    <3>2. ~Halves
      BY <3>1 DEF Halves, All
    <3>3. QED
      BY <1>2, <3>1, <3>2 DEF Kill
  <2>6. QED
    BY <2>2, <2>3, <2>4, <2>5, EndsStep
<1>3. QED
  BY <1>1, <1>2


LEMMA InitHolds == Init => IInv
<1> SUFFICES ASSUME Init
             PROVE  IInv
  OBVIOUS
<1> USE DEF Init
<1>1. NoCommand \in Commands /\ NoCommand.is = "none"
  BY DEF NoCommand, Commands
<1>2. TypeOK
  <2>1. entry \in [Problems -> Entries]
    BY EntriesAreTyped
  <2>2. /\ tree \in [Problems -> Trees] /\ mounted \in [Problems -> BOOLEAN]
        /\ scratch \in [Problems -> SUBSET Triples] /\ turns \in [Problems -> [Triples -> Nat]]
        /\ verdict \in [Problems -> [Triples -> {"open", "PASS", "FAIL", "unearned"}]]
    BY DEF Trees
  <2>3. job \in [Problems -> Jobs]
    BY IdleIsTyped
  <2>4. commands \in 0..MaxCommands /\ faults \in 0..MaxFaults
    BY OverlayAssumption
  <2>5. QED
    BY <1>1, <2>1, <2>2, <2>3, <2>4 DEF TypeOK
<1>3. BrokeInPool
  BY DEF BrokeInPool
<1>4. ASSUME NEW p \in Problems
      PROVE  Fits(p)
  <2>1. job[p].at = "idle" /\ job[p].has = "nothing" /\ job[p].todo = {} /\ cmd.is = "none" /\ bare = "whole"
    BY <1>1, IdleIsTyped
  <2>2. PlaceFits(p) /\ RepoFits(p) /\ LockFits(p)
    BY <2>1 DEF PlaceFits, RepoFits, LockFits
  <2>3. TreeFits(p) /\ EnvironmentFits(p) /\ TasksFit(p)
    BY <2>1 DEF TreeFits, EnvironmentFits, TasksFit
  <2>4. QED
    BY <2>2, <2>3 DEF Fits
<1>5. QED
  BY <1>2, <1>3, <1>4 DEF IInv

LEMMA Stutters ==
  ASSUME IInv, UNCHANGED vars
  PROVE  IInv'
<1>1. TypeOK'
  BY DEF IInv, TypeOK, vars, cache, layers, memory, results
<1>2. BrokeInPool'
  BY DEF IInv, BrokeInPool, vars, memory
<1>3. ASSUME NEW p \in Problems
      PROVE  Fits(p)'
  <2>1. Fits(p)
    BY DEF IInv
  <2>2. QED
    BY <2>1, Elsewhere DEF vars, cache, layers, memory, results
<1>4. QED
  BY <1>1, <1>2, <1>3 DEF IInv

\* IInv is inductive.
THEOREM Invariant == Spec => []IInv
<1>1. Init => IInv
  BY InitHolds
<1>2. IInv /\ [Next]_vars => IInv'
  <2> SUFFICES ASSUME IInv, [Next]_vars
               PROVE  IInv'
    OBVIOUS
  <2>1. CASE Command
    <3>1. CASE StartForced \/ StartLazy
      BY <3>1, BuildStarts DEF StartForced, StartLazy
    <3>2. CASE \E targets \in SUBSET Problems, withBare \in BOOLEAN : StartClean(targets, withBare)
      BY <3>2, CleanStarts
    <3>3. CASE \E f \in Flags : StartRun(f.iso, f.wide, f.strict)
      BY <3>3, RunStarts
    <3>4. QED
      BY <2>1, <3>1, <3>2, <3>3 DEF Command
  <2>2. CASE Ending
    BY <2>2, EndsIdle, SetUpEnds, EndsOrKill DEF Ending
  <2>3. CASE Kill
    BY <2>3, EndsOrKill
  <2>4. ASSUME NEW p \in Problems, Build(p) \/ SetUp(p) \/ Arm(p) \/ Fails(p)
        PROVE  IInv'
    <3>1. CASE Build(p) \/ BuildFails(p)
      BY <3>1, Builds
    <3>2. CASE SetUp(p) \/ SetUpFails(p)
      BY <3>2, SetsUp
    <3>3. CASE Arm(p)
      BY <3>3, ArmBegins, ArmMoves, ArmIsJudged DEF Arm
    <3>4. CASE RefreshFails(p) \/ ArmFails(p)
      BY <3>4, RefreshIsLost, ArmIsLost
    <3>5. QED
      BY <2>4, <3>1, <3>2, <3>3, <3>4 DEF Fails
  <2>5. CASE UNCHANGED vars
    BY <2>5, Stutters
  <2>6. QED
    BY <2>1, <2>2, <2>3, <2>4, <2>5 DEF Next
<1>3. QED
  BY <1>1, <1>2, PTL DEF Spec

THEOREM TypeCorrect == Spec => []TypeOK
<1>1. IInv => TypeOK
  BY DEF IInv
<1>2. QED
  BY <1>1, Invariant, PTL

-----------------------------------------------------------------------------
(***************************************************************************)
(* What it is for.                                                         *)
(***************************************************************************)
\* The tree an agent is given (git_reset in _run_arm, _refresh_overlay between
\* arms) is the base commit; where nothing refreshes it, it may be what an
\* earlier agent and the harness committed, never an agent's uncommitted edits.
THEOREM TreesAreBase == Spec => []AgentSeesBase
<1>1. IInv => AgentSeesBase
  BY DEF IInv, Fits, TreeFits, LeftOver, Touched, AgentSeesBase, At
<1>2. QED
  BY <1>1, Invariant, PTL

\* verify_lockfile and the rebuild in _setup_problem_cached: an arm over an
\* overlay runs in a whole environment, whatever was killed before.
THEOREM EnvironmentsAreWhole == Spec => []EnvironmentIsWhole
<1>1. IInv => EnvironmentIsWhole
  BY DEF IInv, Fits, EnvironmentFits, Vouched, EnvironmentIsWhole, At
<1>2. QED
  BY <1>1, Invariant, PTL

\* mount_overlay never covers another overlay of the instance.
THEOREM OneMountEach == Spec => []MountsDoNotStack
<1>1. IInv => MountsDoNotStack
  BY DEF IInv, Fits, TreeFits, MountsDoNotStack
<1>2. QED
  BY <1>1, Invariant, PTL

\* cache clean removes the bare repository last, and only alone.
THEOREM CheckoutsHaveObjects == Spec => []BareOutlivesCheckouts
<1>1. IInv => BareOutlivesCheckouts
  BY DEF IInv, Fits, RepoFits, BareOutlivesCheckouts
<1>2. QED
  BY <1>1, Invariant, PTL


\* Who writes the results: an arm that begins counts a turn, an arm that ends
\* leaves a verdict or, after an exception, nothing.
LEMMA WhoWritesResults ==
  ASSUME [Next]_vars, \A p \in Problems : ~BeginArm(p) /\ ~Judge(p) /\ ~ArmFails(p)
  PROVE  UNCHANGED results
<1>1. CASE Command \/ Ending \/ Kill \/ UNCHANGED vars
  BY <1>1 DEF Command, StartForced, StartLazy, StartBuild, StartClean, StartRun, Ending, EndBuild,
              EndClean, EndSetUp, EndRun, Kill, vars
<1>2. ASSUME NEW p \in Problems, Build(p) \/ SetUp(p) \/ Fails(p)
      PROVE  UNCHANGED results
  BY <1>2 DEF Build, Unlock, Fetch, FetchFails, Fill, Lock, Write, Rename, Remove, Rewrites, SetUp, Look, Purge,
              Refill, Relock, Mount, Fails, BuildFails, SetUpFails, RefreshFails
<1>3. ASSUME NEW p \in Problems, Arm(p)
      PROVE  UNCHANGED results
  BY <1>3 DEF Arm, Cancelled, Install, Remount
<1>4. QED
  BY <1>1, <1>2, <1>3 DEF Next

LEMMA BeginWrites ==
  ASSUME NEW p \in Problems, BeginArm(p)
  PROVE  \E t \in job[p].todo :
           \/ verdict' = verdict /\ turns' = [turns EXCEPT ![p][t] = @ + 1]
           \/ verdict' = [verdict EXCEPT ![p][t] = Recorded(@, "ERROR")] /\ turns' = turns
BY DEF BeginArm, Turn, EndArm

LEMMA FailureWrites ==
  ASSUME IInv, NEW p \in Problems, ArmFails(p)
  PROVE  UNCHANGED results
<1>1. PICK t \in job[p].todo : verdict' = [verdict EXCEPT ![p][t] = Recorded(@, "ERROR")]
  BY DEF ArmFails, EndArm
<1>2. turns' = turns /\ job[p].todo \in SUBSET Triples
  BY JobIsTyped DEF ArmFails, IInv, TypeOK
<1>3. verdict' = verdict
  BY <1>1, <1>2 DEF Recorded, IInv, TypeOK
<1>4. QED
  BY <1>2, <1>3 DEF results

LEMMA JudgeWrites ==
  ASSUME NEW p \in Problems, Judge(p)
  PROVE  /\ job[p].at = "agent" /\ turns' = turns
         /\ \E v \in {"PASS", "FAIL", "unearned", "ERROR"} :
              /\ verdict' = [verdict EXCEPT ![p][job[p].now] = Recorded(@, v)]
              /\ v = "unearned" => tree[p] = "none"
<1>1. job[p].at = "agent" /\ turns' = turns
  BY DEF Judge, At
<1>2. PICK v \in {"PASS", "FAIL", "unearned", "ERROR"}, shown \in Trees :
        /\ EndArm(p, job[p].now, job[p].venv, v, shown)
        /\ v = "unearned" => tree[p] = "none"
  BY JudgeEnds
<1>5. verdict' = [verdict EXCEPT ![p][job[p].now] = Recorded(@, v)]
  BY <1>2 DEF EndArm
<1>6. QED
  BY <1>1, <1>2, <1>5

\* A verdict without a tree behind it is a failed refresh's doing
\* (_teardown_all_overlays in one thread, apply_test_patch in another).
THEOREM VerdictsAreEarned == Spec => VerdictIsEarned
<1>1. ASSUME IInv, [Next]_vars, NEW p \in Problems, NEW t \in Triples,
             verdict'[p][t] = "unearned", verdict[p][t] # "unearned"
      PROVE  broke /\ cmd.wide
  <2>1. verdict \in [Problems -> [Triples -> {"open", "PASS", "FAIL", "unearned"}]]
    BY <1>1 DEF IInv, TypeOK
  <2>2. PICK q \in Problems : BeginArm(q) \/ Judge(q)
    BY <1>1, WhoWritesResults, FailureWrites DEF results
  <2>3. CASE BeginArm(q)
    <3>1. PICK u \in job[q].todo :
            \/ verdict' = verdict
            \/ verdict' = [verdict EXCEPT ![q][u] = Recorded(@, "ERROR")]
      BY <2>3, BeginWrites
    <3>2. job[q].todo \in SUBSET Triples
      BY <1>1, JobIsTyped DEF IInv, TypeOK
    <3>3. QED
      BY <1>1, <2>1, <3>1, <3>2 DEF Recorded
  <2>4. CASE Judge(q)
    <3>1. PICK v \in {"PASS", "FAIL", "unearned", "ERROR"} :
            /\ verdict' = [verdict EXCEPT ![q][job[q].now] = Recorded(@, v)]
            /\ v = "unearned" => tree[q] = "none"
      BY <2>4, JudgeWrites
    <3>2. job[q].at = "agent"
      BY <2>4, JudgeWrites
    <3>3. job[q].now \in Triples /\ cmd.is = "arms" /\ (tree[q] = "none" => broke)
      BY <1>1, <3>2, ArmsAreSetUp DEF LeftOver, Touched
    <3>4. tree[q] = "none"
      BY <1>1, <2>1, <3>1, <3>3 DEF Recorded
    <3>5. QED
      BY <1>1, <3>3, <3>4 DEF IInv, BrokeInPool
  <2>5. QED
    BY <2>2, <2>3, <2>4
<1>2. IInv /\ [Next]_vars =>
        [\A p \in Problems, t \in Triples : verdict'[p][t] = "unearned" =>
           verdict[p][t] = "unearned" \/ (broke /\ cmd.wide)]_vars
  BY <1>1
<1>3. QED
  BY <1>2, Invariant, PTL DEF Spec, VerdictIsEarned

\* _teardown_all_overlays takes down what overlay_handles names, which is every
\* overlay of the invocation until a refresh fails.
THEOREM OverlaysAreTakenDown == Spec => NothingLeaks
<1> DEFINE Down == \A p \in Problems : tree'[p] = "none" \/ job[p].has = "nothing" \/ broke
<1>1. ASSUME IInv, Ends(handles)
      PROVE  Down
  <2>1. TAKE p \in Problems
  <2>2. job[p].has \in {"nothing", "overlay", "clone"}
    BY <1>1, JobIsTyped DEF IInv, TypeOK
  <2>3. job[p].has = "overlay" /\ p \notin handles => broke
    BY <1>1 DEF IInv, Fits, TreeFits
  <2>4. p \in handles \/ job[p].has = "clone" => tree'[p] = "none"
    BY <1>1 DEF Ends
  <2>5. QED
    BY <2>2, <2>3, <2>4
<1>2. ASSUME IInv, [Next]_vars, cmd.is \in {"setup", "arms"}, cmd'.is = "none", ~Kill
      PROVE  Ends(handles)
  <2>1. cmd'.is # cmd.is
    BY <1>2
  <2>3. CASE Command \/ EndBuild \/ EndClean \/ UNCHANGED vars
    BY <1>2, <2>3 DEF Command, StartForced, StartLazy, StartBuild, StartClean, StartRun, Issue,
                      EndBuild, EndClean, vars
  <2>4. CASE EndSetUp
    <3>1. CASE cmd' = [cmd EXCEPT !.is = "arms"]
      BY <1>2, <3>1 DEF IInv, TypeOK, Commands
    <3>2. QED
      BY <2>4, <3>1 DEF EndSetUp
  <2>5. CASE EndRun
    BY <2>5 DEF EndRun
  <2>7. ASSUME NEW p \in Problems, Build(p) \/ SetUp(p) \/ Arm(p) \/ Fails(p)
        PROVE  Ends(handles)
    <3>1. CASE Build(p) \/ SetUp(p)
      BY <2>1, <3>1 DEF Build, Unlock, Fetch, FetchFails, Fill, Lock, Write, Rename, Remove, Rewrites, SetUp, Look,
                        Purge, Refill, Relock, Mount
    <3>2. CASE Fails(p)
      BY <2>1, <3>2 DEF Fails, BuildFails, SetUpFails, RefreshFails, ArmFails, EndArm
    <3>3. CASE Cancelled(p) \/ Install(p) \/ Remount(p)
      BY <2>1, <3>3 DEF Cancelled, Install, Remount
    <3>4. CASE BeginArm(p)
      BY <2>1, <3>4 DEF BeginArm, Turn, EndArm
    <3>5. CASE Judge(p)
      BY <2>1, <3>5 DEF Judge, EndArm
    <3>6. QED
      BY <2>7, <3>1, <3>2, <3>3, <3>4, <3>5 DEF Arm
  <2>8. QED
    BY <1>2, <2>3, <2>4, <2>5, <2>7 DEF Next, Ending
<1>3. IInv /\ [Next]_vars =>
        [cmd.is \in {"setup", "arms"} /\ cmd'.is = "none" /\ ~Kill => Down]_vars
  BY <1>1, <1>2
<1>4. QED
  BY <1>3, Invariant, PTL DEF Spec, NothingLeaks, Down


\* Only an arm that begins puts a thread in an agent's hands.
LEMMA WhoStartsAgents ==
  ASSUME IInv, [Next]_vars, NEW p \in Problems,
         job[p].at \in {"wait", "next"}, job'[p].at = "agent"
  PROVE  BeginArm(p)
<1>1. job \in [Problems -> Jobs] /\ cmd.is = "arms"
  BY ArmsAreSetUp DEF IInv, TypeOK
<1>2. job'[p] # job[p]
  OBVIOUS
<1>3. ASSUME NEW hs, Ends(hs)
      PROVE  FALSE
  BY <1>3, IdleIsTyped DEF Ends
<1>4. CASE Command \/ Ending \/ Kill \/ UNCHANGED vars
  BY <1>1, <1>2, <1>3, <1>4
  DEF Command, StartForced, StartLazy, StartBuild, StartClean, StartRun, Issue,
      Ending, EndBuild, EndClean, EndSetUp, EndRun, Kill, vars
<1>5. ASSUME NEW q \in Problems, NEW l, Goes(q, l), l # "agent"
      PROVE  FALSE
  BY <1>1, <1>2, <1>5 DEF Goes
<1>6. ASSUME NEW q \in Problems, NEW j, job' = [job EXCEPT ![q] = j]
      PROVE  p = q /\ j.at = "agent"
  BY <1>1, <1>2, <1>6
<1>7. ASSUME NEW q \in Problems, Build(q) \/ SetUp(q) \/ BuildFails(q) \/ SetUpFails(q)
      PROVE  FALSE
  <2>1. CASE Build(q) \/ BuildFails(q)
    BY <1>5, <2>1 DEF Build, Unlock, Fetch, FetchFails, Fill, Lock, Write, Rename, Remove, Rewrites, BuildFails
  <2>2. CASE SetUp(q) \/ SetUpFails(q)
    <3>1. job[q].at \in {"look", "purge", "refill", "relock", "mount"}
      BY <2>2 DEF SetUp, Look, Purge, Refill, Relock, Mount, Rewrites, SetUpFails, At
    <3>2. QED
      BY <1>1, <3>1, NotSetYet
  <2>3. QED
    BY <1>7, <2>1, <2>2
<1>8. ASSUME NEW q \in Problems, Arm(q) \/ RefreshFails(q) \/ ArmFails(q), ~BeginArm(q)
      PROVE  FALSE
  <2>1. CASE Cancelled(q) \/ RefreshFails(q)
    <3>1. job' = [job EXCEPT ![q].at = "done", ![q].todo = {}]
      BY <1>3, <2>1 DEF Cancelled, RefreshFails
    <3>2. PICK j : j = [job[q] EXCEPT !.at = "done", !.todo = {}]
      OBVIOUS
    <3>3. j.at = "done"
      BY <1>1, <3>2 DEF Jobs
    <3>4. job' = [job EXCEPT ![q] = j]
      BY <1>1, <3>1, <3>2
    <3>5. QED
      BY <1>6, <3>3, <3>4
  <2>2. CASE Install(q)
    BY <1>1, <1>2, <2>2 DEF Install, At
  <2>3. CASE Remount(q)
    BY <1>5, <2>3 DEF Remount
  <2>4. CASE Judge(q) \/ ArmFails(q)
    <3>1. PICK t, kind, v, shown : EndArm(q, t, kind, v, shown)
      BY <2>4 DEF Judge, ArmFails
    <3>2. PICK left, l \in {"done", "remount", "next"} :
            job' = [job EXCEPT ![q] = [Idle EXCEPT !.has = job[q].has, !.todo = left, !.at = l]]
      <4>1. PICK left : left = job[q].todo \ {t}
        OBVIOUS
      <4>2. PICK l \in {"done", "remount", "next"} :
              l = IF left = {} THEN "done" ELSE IF q \in handles THEN "remount" ELSE "next"
        OBVIOUS
      <4>3. job' = [job EXCEPT ![q] = [Idle EXCEPT !.has = job[q].has, !.todo = left, !.at = l]]
        BY <1>3, <3>1, <4>1, <4>2 DEF EndArm
      <4>4. QED
        BY <4>2, <4>3
    <3>3. PICK j : j = [Idle EXCEPT !.has = job[q].has, !.todo = left, !.at = l]
      OBVIOUS
    <3>4. j.at = l
      BY <3>3 DEF Idle
    <3>5. QED
      BY <1>6, <3>2, <3>3, <3>4
  <2>5. QED
    BY <1>8, <2>1, <2>2, <2>3, <2>4 DEF Arm
<1>9. ASSUME NEW q \in Problems, BeginArm(q)
      PROVE  q = p
  <2>1. CASE q # p
    BY <1>1, <1>2, <1>3, <1>9, <2>1 DEF BeginArm, Turn, EndArm
  <2>2. QED
    BY <2>1
<1>10. QED
  BY <1>4, <1>7, <1>8, <1>9 DEF Next, Fails

\* venv_overlay gives each isolated arm a fresh upper layer over an environment
\* the lockfile vouches for; its exceptions are the three named.
THEOREM ArmsStartClean == Spec => ArmStartsClean
<1>1. ASSUME IInv, [Next]_vars, NEW p \in Problems,
             job[p].at \in {"wait", "next"}, job'[p].at = "agent",
             cmd.iso, job[p].has = "overlay"
      PROVE  \/ ~job'[p].dirty /\ entry[p].lower.is = "whole"
             \/ job'[p].now \in scratch[p]
             \/ entry[p].lower.home = "lower" \/ entry[p].lock = "spoiled"
  <2>1. BeginArm(p)
    BY <1>1, WhoStartsAgents
  <2>2. job[p] \in Jobs /\ Vouched(entry[p], cmd.iso)
    BY <1>1, ArmsAreSetUp
  <2>3. entry[p].lower.is = "whole" \/ entry[p].lower.home = "lower" \/ entry[p].lock = "spoiled"
    BY <1>1, <2>2 DEF Vouched, Base
  <2>4. PICK t \in job[p].todo, kind \in {"shared", "mount", "copy"} :
          IF Works(p, kind)
            THEN job' = [job EXCEPT ![p] = [@ EXCEPT
                      !.at = "agent", !.now = t, !.venv = kind,
                      !.dirty = (kind = "mount" /\ t \in scratch[p])]]
            ELSE EndArm(p, t, kind, "ERROR", tree[p])
    BY <2>1 DEF BeginArm, Turn
  <2>5. CASE EndArm(p, t, kind, "ERROR", tree[p])
    <3>1. job'[p].at # "agent"
      <4>1. CASE Ends(handles)
        BY <4>1, IdleIsTyped DEF Ends
      <4>2. CASE ~Ends(handles)
        <5>1. PICK l \in {"done", "remount", "next"} :
                job' = [job EXCEPT ![p] = [Idle EXCEPT !.has = job[p].has,
                                             !.todo = job[p].todo \ {t}, !.at = l]]
          BY <2>5, <4>2 DEF EndArm
        <5>2. job'[p] = [Idle EXCEPT !.has = job[p].has, !.todo = job[p].todo \ {t}, !.at = l]
          BY <1>1, <5>1 DEF IInv, TypeOK
        <5>3. QED
          BY <5>2, IdleIsTyped DEF Jobs
      <4>3. QED
        BY <4>1, <4>2
    <3>2. QED
      BY <1>1, <3>1
  <2>6. CASE Works(p, kind)
    <3>1. PICK j : j = [job[p] EXCEPT !.at = "agent", !.now = t, !.venv = kind,
                                      !.dirty = (kind = "mount" /\ t \in scratch[p])]
      OBVIOUS
    <3>2. job'[p] = j
      <4>1. job' = [job EXCEPT ![p] = [@ EXCEPT
              !.at = "agent", !.now = t, !.venv = kind,
              !.dirty = (kind = "mount" /\ t \in scratch[p])]]
        BY <2>4, <2>6
      <4>2. job' = [job EXCEPT ![p] = j]
        BY <3>1, <4>1
      <4>3. QED
        BY <1>1, <4>2 DEF IInv, TypeOK
    <3>3. j.now = t /\ j.dirty = (kind = "mount" /\ t \in scratch[p])
      BY <2>2, <3>1 DEF Jobs
    <3>4. QED
      BY <2>3, <3>2, <3>3
  <2>7. QED
    BY <2>4, <2>5, <2>6
<1>2. IInv /\ [Next]_vars =>
        [\A p \in Problems :
          /\ job[p].at \in {"wait", "next"} /\ job'[p].at = "agent"
          /\ cmd.iso /\ job[p].has = "overlay"
          => \/ ~job'[p].dirty /\ entry[p].lower.is = "whole"
             \/ job'[p].now \in scratch[p]
             \/ entry[p].lower.home = "lower" \/ entry[p].lock = "spoiled"]_vars
  BY <1>1
<1>3. QED
  BY <1>2, Invariant, PTL DEF Spec, ArmStartsClean


-----------------------------------------------------------------------------
(***************************************************************************)
(* The results directory implements Campaign.                              *)
(***************************************************************************)
\* A turn of one triple is a turn of the campaign.
LEMMA TurnMaps ==
  ASSUME IInv, NEW p \in Problems, NEW t \in Triples, verdict[p][t] = "open",
         verdict' = verdict, turns' = [turns EXCEPT ![p][t] = @ + 1]
  PROVE  Campaigns!Next
<1> DEFINE u == <<p, t>>
           All2 == Problems \X Triples
           v0 == [w \in All2 |-> LET v == verdict[w[1]][w[2]] IN IF v = "unearned" THEN "FAIL" ELSE v]
           n0 == [w \in All2 |-> turns[w[1]][w[2]]]
           n1 == [w \in All2 |-> turns'[w[1]][w[2]]]
           c0 == [w \in All2 |-> turns[w[1]][w[2]] > 0]
           c1 == [w \in All2 |-> turns'[w[1]][w[2]] > 0]
<1>1. turns \in [Problems -> [Triples -> Nat]]
  BY DEF IInv, TypeOK
<1>2. u \in All2 /\ v0[u] = "open"
  OBVIOUS
<1>3. \A w \in All2 : turns'[w[1]][w[2]] =
        IF w = u THEN turns[p][t] + 1 ELSE turns[w[1]][w[2]]
  <2>1. ASSUME NEW q \in Problems, NEW s \in Triples
        PROVE  turns'[q][s] = IF q = p /\ s = t THEN turns[p][t] + 1 ELSE turns[q][s]
    BY <1>1
  <2>2. QED
    BY <2>1
<1>4. n1 = [n0 EXCEPT ![u] = @ + 1]
  BY <1>2, <1>3
<1>5. turns[p][t] + 1 > 0
  BY <1>1
<1>6. c1 = [c0 EXCEPT ![u] = TRUE]
  <2>1. ASSUME NEW w \in All2
        PROVE  (turns'[w[1]][w[2]] > 0) = IF w = u THEN TRUE ELSE turns[w[1]][w[2]] > 0
    <3>1. turns'[w[1]][w[2]] = IF w = u THEN turns[p][t] + 1 ELSE turns[w[1]][w[2]]
      BY <1>3
    <3>2. CASE w = u
      <4>1. turns'[w[1]][w[2]] = turns[p][t] + 1
        BY <3>1, <3>2
      <4>2. turns'[w[1]][w[2]] > 0
        BY <1>5, <4>1
      <4>3. QED
        BY <3>2, <4>2, Zenon
    <3>3. CASE w # u
      <4>1. turns'[w[1]][w[2]] = turns[w[1]][w[2]]
        BY <3>1, <3>3
      <4>2. (turns'[w[1]][w[2]] > 0) = (turns[w[1]][w[2]] > 0)
        BY <4>1
      <4>3. (IF w = u THEN TRUE ELSE turns[w[1]][w[2]] > 0) = (turns[w[1]][w[2]] > 0)
        BY <3>3
      <4>4. QED
        BY <4>2, <4>3
    <3>4. QED
      BY <3>2, <3>3
  <2>2. c1 = [w \in All2 |-> IF w = u THEN TRUE ELSE turns[w[1]][w[2]] > 0]
    BY <2>1, Zenon
  <2>3. [c0 EXCEPT ![u] = TRUE] = [w \in All2 |-> IF w = u THEN TRUE ELSE turns[w[1]][w[2]] > 0]
    BY Zenon
  <2>4. QED
    BY <2>2, <2>3
<1>7. Campaigns!Turn(u)
  BY <1>2, <1>4, <1>6 DEF Campaigns!Turn
<1>8. QED
  BY <1>2, <1>7 DEF Campaigns!Next

\* So is a verdict on a triple that has had a turn and no verdict.
LEMMA VerdictMaps ==
  ASSUME IInv, NEW p \in Problems, NEW t \in Triples, verdict[p][t] = "open", turns[p][t] > 0,
         NEW x \in {"PASS", "FAIL", "unearned"},
         verdict' = [verdict EXCEPT ![p][t] = x], turns' = turns
  PROVE  Campaigns!Next
<1> DEFINE u == <<p, t>>
           All2 == Problems \X Triples
           v0 == [w \in All2 |-> LET v == verdict[w[1]][w[2]] IN IF v = "unearned" THEN "FAIL" ELSE v]
           v1 == [w \in All2 |-> LET v == verdict'[w[1]][w[2]] IN IF v = "unearned" THEN "FAIL" ELSE v]
           c0 == [w \in All2 |-> turns[w[1]][w[2]] > 0]
<1>1. verdict \in [Problems -> [Triples -> {"open", "PASS", "FAIL", "unearned"}]]
  BY DEF IInv, TypeOK
<1>2. u \in All2 /\ v0[u] = "open" /\ c0[u]
  OBVIOUS
<1>3. \A w \in All2 : verdict'[w[1]][w[2]] = IF w = u THEN x ELSE verdict[w[1]][w[2]]
  <2>1. ASSUME NEW q \in Problems, NEW s \in Triples
        PROVE  verdict'[q][s] = IF q = p /\ s = t THEN x ELSE verdict[q][s]
    BY <1>1
  <2>2. QED
    BY <2>1
<1>4. PICK y \in {"PASS", "FAIL"} : y = IF x = "unearned" THEN "FAIL" ELSE x
  OBVIOUS
<1>5. v1 = [v0 EXCEPT ![u] = y]
  <2>1. ASSUME NEW w \in All2
        PROVE  v1[w] = IF w = u THEN y ELSE v0[w]
    BY <1>3, <1>4, <2>1
  <2>2. v1 = [w \in All2 |-> IF w = u THEN y ELSE v0[w]]
    BY <2>1
  <2>3. QED
    BY <1>2, <2>2
<1>6. Campaigns!Settle(u)
  BY <1>2, <1>4, <1>5 DEF Campaigns!Settle
<1>7. QED
  BY <1>2, <1>6 DEF Campaigns!Next

\* An exception leaves no verdict.
LEMMA ErrorIsUnseen ==
  ASSUME IInv, NEW p \in Problems, NEW t \in Triples,
         verdict' = [verdict EXCEPT ![p][t] = Recorded(@, "ERROR")]
  PROVE  verdict' = verdict
BY DEF Recorded, IInv, TypeOK

\* --resume: what has a verdict is neither run nor judged again, by any
\* invocation, whatever is killed.
THEOREM Refines == Spec => ImplementsCampaign
<1>1. Init => Campaigns!Init
  <2> SUFFICES ASSUME Init
               PROVE  Campaigns!Init
    OBVIOUS
  <2>1. \A u \in Problems \X Triples :
          verdict[u[1]][u[2]] = "open" /\ turns[u[1]][u[2]] = 0
    BY DEF Init
  <2>2. \A u \in Problems \X Triples : (turns[u[1]][u[2]] > 0) = FALSE
    BY <2>1
  <2>3. /\ [u \in Problems \X Triples |->
              LET v == verdict[u[1]][u[2]] IN IF v = "unearned" THEN "FAIL" ELSE v]
             = [u \in Problems \X Triples |-> "open"]
        /\ [u \in Problems \X Triples |-> turns[u[1]][u[2]]] = [u \in Problems \X Triples |-> 0]
    BY <2>1
  <2>4. [u \in Problems \X Triples |-> turns[u[1]][u[2]] > 0]
          = [u \in Problems \X Triples |-> FALSE]
    BY <2>2, Zenon
  <2>5. QED
    BY <2>3, <2>4 DEF Campaigns!Init
<1>2. IInv /\ [Next]_vars => [Campaigns!Next]_Campaigns!vars
  <2> SUFFICES ASSUME IInv, [Next]_vars
               PROVE  [Campaigns!Next]_Campaigns!vars
    OBVIOUS
  <2>1. ASSUME UNCHANGED results
        PROVE  UNCHANGED Campaigns!vars
    BY <2>1 DEF results, Campaigns!vars
  <2>2. ASSUME NEW p \in Problems, BeginArm(p)
        PROVE  [Campaigns!Next]_Campaigns!vars
    <3>1. PICK t \in job[p].todo :
            \/ verdict' = verdict /\ turns' = [turns EXCEPT ![p][t] = @ + 1]
            \/ verdict' = [verdict EXCEPT ![p][t] = Recorded(@, "ERROR")] /\ turns' = turns
      BY <2>2, BeginWrites
    <3>2. t \in Triples /\ verdict[p][t] = "open"
      <4>1. job[p].at \in {"wait", "next", "agent", "remount"}
        BY <2>2 DEF BeginArm, MayBegin, At
      <4>2. QED
        BY <4>1, ArmsAreSetUp
    <3>3. CASE verdict' = verdict /\ turns' = [turns EXCEPT ![p][t] = @ + 1]
      BY <3>2, <3>3, TurnMaps
    <3>4. CASE verdict' = [verdict EXCEPT ![p][t] = Recorded(@, "ERROR")] /\ turns' = turns
      BY <2>1, <3>2, <3>4, ErrorIsUnseen DEF results
    <3>5. QED
      BY <3>1, <3>3, <3>4
  <2>3. ASSUME NEW p \in Problems, Judge(p)
        PROVE  [Campaigns!Next]_Campaigns!vars
    <3>1. PICK t : t = job[p].now
      OBVIOUS
    <3>2. job[p].at = "agent" /\ turns' = turns
      BY <2>3, JudgeWrites
    <3>3. PICK v \in {"PASS", "FAIL", "unearned", "ERROR"} :
            verdict' = [verdict EXCEPT ![p][t] = Recorded(@, v)]
      BY <2>3, <3>1, JudgeWrites
    <3>4. t \in Triples /\ verdict[p][t] = "open" /\ turns[p][t] > 0
      BY <3>1, <3>2, ArmsAreSetUp
    <3>5. CASE v = "ERROR"
      BY <2>1, <3>2, <3>3, <3>4, <3>5, ErrorIsUnseen DEF results
    <3>6. CASE v # "ERROR"
      <4>1. verdict' = [verdict EXCEPT ![p][t] = v]
        BY <3>3, <3>6 DEF Recorded
      <4>2. QED
        BY <3>2, <3>4, <3>6, <4>1, VerdictMaps
    <3>7. QED
      BY <3>5, <3>6
  <2>4. QED
    BY <2>1, <2>2, <2>3, WhoWritesResults, FailureWrites
<1>3. QED
  BY <1>1, <1>2, Invariant, PTL DEF Spec, Campaigns!Spec, ImplementsCampaign

-----------------------------------------------------------------------------
(***************************************************************************)
(* What the results directory has from Campaign, by the refinement alone.  *)
(***************************************************************************)
Earned == \A p \in Problems, t \in Triples : verdict[p][t] # "open" => turns[p][t] > 0

\* A step of Campaign is a turn of an open triple, its settlement, or nothing.
LEMMA CampaignKeeps ==
  ASSUME TypeOK, [Campaigns!Next]_Campaigns!vars
  PROVE  Campaigns!KeepsSettled /\ (Earned => Earned')
<1> DEFINE Pairs == Problems \X Triples
           v == [u \in Pairs |-> LET w == verdict[u[1]][u[2]] IN IF w = "unearned" THEN "FAIL" ELSE w]
           n == [u \in Pairs |-> turns[u[1]][u[2]]]
           c == [u \in Pairs |-> turns[u[1]][u[2]] > 0]
<1>1. \/ UNCHANGED Campaigns!vars
      \/ \E u \in Pairs : Campaigns!Turn(u) \/ Campaigns!Settle(u)
  BY DEF Campaigns!Next
<1>2. UNCHANGED Campaigns!vars => v' = v /\ n' = n /\ c' = c
  BY DEF Campaigns!vars
<1>3. \A u \in Pairs : Campaigns!Turn(u) =>
        v[u] = "open" /\ v' = v /\ n' = [n EXCEPT ![u] = @ + 1]
        /\ \E ok \in BOOLEAN : c' = [c EXCEPT ![u] = ok]
  BY DEF Campaigns!Turn
<1>4. \A u \in Pairs : Campaigns!Settle(u) =>
        v[u] = "open" /\ c[u] /\ n' = n /\ c' = c
        /\ \E w \in {"PASS", "FAIL"} : v' = [v EXCEPT ![u] = w]
  BY DEF Campaigns!Settle
<1>5. /\ \A p \in Problems, t \in Triples :
           /\ (v[<<p, t>>] # "open") <=> (verdict[p][t] # "open")
           /\ n[<<p, t>>] = turns[p][t] /\ n[<<p, t>>] \in Nat
           /\ c[<<p, t>>] <=> turns[p][t] > 0
      /\ \A p \in Problems, t \in Triples :
           /\ (v'[<<p, t>>] # "open") <=> (verdict'[p][t] # "open")
           /\ n'[<<p, t>>] = turns'[p][t]
           /\ c'[<<p, t>>] <=> turns'[p][t] > 0
  BY DEF TypeOK
<1>6. n \in [Pairs -> Nat]
  BY DEF TypeOK
<1>7. Campaigns!KeepsSettled <=>
        \A u \in Pairs : v[u] # "open" => v'[u] = v[u] /\ n'[u] = n[u] /\ c'[u] = c[u]
  BY DEF Campaigns!KeepsSettled
<1>8. v \in [Pairs -> {v[u] : u \in Pairs}] /\ c \in [Pairs -> BOOLEAN]
  OBVIOUS
<1> HIDE DEF v, n, c
<1>9. CASE v' = v /\ n' = n /\ c' = c
  BY <1>5, <1>7, <1>9 DEF Earned
<1>10. ASSUME NEW u \in Pairs, Campaigns!Turn(u)
       PROVE  Campaigns!KeepsSettled /\ (Earned => Earned')
  <2>1. v[u] = "open" /\ v' = v /\ \A x \in Pairs \ {u} : n'[x] = n[x] /\ c'[x] = c[x]
    BY <1>3, <1>6, <1>8, <1>10
  <2>q. QED BY <1>5, <1>7, <2>1 DEF Earned
<1>11. ASSUME NEW u \in Pairs, Campaigns!Settle(u)
       PROVE  Campaigns!KeepsSettled /\ (Earned => Earned')
  <2>1. v[u] = "open" /\ c[u] /\ n' = n /\ c' = c /\ \A x \in Pairs \ {u} : v'[x] = v[x]
    BY <1>4, <1>8, <1>11
  <2>2. Campaigns!KeepsSettled
    BY <1>7, <2>1
  <2>3. ASSUME Earned, NEW p \in Problems, NEW t \in Triples, verdict'[p][t] # "open"
        PROVE  turns'[p][t] > 0
    <3>1. <<p, t>> \in Pairs /\ turns'[p][t] = turns[p][t]
      BY <1>5, <2>1
    <3>2. CASE <<p, t>> = u
      BY <1>5, <2>1, <3>1, <3>2
    <3>3. CASE <<p, t>> # u
      <4>1. verdict[p][t] # "open"
        BY <1>5, <2>1, <2>3, <3>1, <3>3
      <4>q. QED BY <2>3, <3>1, <4>1 DEF Earned
    <3>q. QED BY <3>2, <3>3
  <2>q. QED BY <2>2, <2>3 DEF Earned
<1>q. QED BY <1>1, <1>2, <1>9, <1>10, <1>11

\* A verdict in the results directory is final: no invocation, killed or not,
\* changes it or runs its triple again.
THEOREM VerdictsAreFinal == Spec => Campaigns!SettledIsFinal
<1>1. IInv /\ [Campaigns!Next]_Campaigns!vars => Campaigns!KeepsSettled
  BY CampaignKeeps DEF IInv
<1>q. QED
  BY <1>1, Invariant, Refines, PTL
  DEF Campaigns!Spec, Campaigns!SettledIsFinal, ImplementsCampaign

\* No verdict is of a triple whose agent never ran.  (Whether its last turn was
\* a good one is not said: run.py judges any turn that has ended.)
THEOREM VerdictsFollowTurns == Spec => []Earned
<1>1. Init => Earned
  BY DEF Init, Earned
<1>2. IInv /\ Earned /\ [Campaigns!Next]_Campaigns!vars => Earned'
  BY CampaignKeeps DEF IInv
<1>q. QED
  BY <1>1, <1>2, Invariant, Refines, PTL DEF Spec, Campaigns!Spec, ImplementsCampaign

-----------------------------------------------------------------------------
(***************************************************************************)
(* No turn is repeated for nothing.  A turn without a verdict was killed,  *)
(* was followed by an exception, or lost its tree to a refresh that        *)
(* failed; one failed refresh may cost several problems a turn each, but   *)
(* only once, as the invocation does not come back to a triple.            *)
(***************************************************************************)
Running(p, t) == job[p].at = "agent" /\ job[p].now = t

TurnInv(p, t) ==
  /\ turns[p][t] <= faults + 1
  /\ verdict[p][t] = "open" =>
       /\ ~Running(p, t) => turns[p][t] <= faults
       /\ broke /\ Running(p, t) => turns[p][t] <= faults
       /\ broke /\ t \in job[p].todo /\ ~Running(p, t) => turns[p][t] + 1 <= faults

\* --parallel 1 has no pool: an exception there ends no other problem's turn.
OneAtATime ==
  cmd.is = "arms" /\ ~cmd.wide =>
    \A p, q \in Problems :
      p # q /\ job[p].at \in {"next", "agent", "remount"} => job[q].at \in {"wait", "done"}

TurnsInv == OneAtATime /\ \A p \in Problems, t \in Triples : TurnInv(p, t)

LEMMA CountsAreTyped ==
  ASSUME TypeOK
  PROVE  faults \in Nat /\ \A p \in Problems, t \in Triples : turns[p][t] \in Nat
BY OverlayAssumption DEF TypeOK

\* A triple to which nothing happens, whatever faults there are elsewhere.
LEMMA KeptOne ==
  ASSUME TypeOK, NEW p \in Problems, NEW t \in Triples, TurnInv(p, t),
         faults' \in Nat, faults' >= faults, turns'[p][t] = turns[p][t],
         verdict'[p][t] = verdict[p][t],
         broke' => broke /\ (t \in job'[p].todo => t \in job[p].todo),
         Running(p, t)' <=> Running(p, t)
  PROVE  TurnInv(p, t)'
BY CountsAreTyped DEF TurnInv

\* A fault pays for every turn it may have cost.
LEMMA FaultPays ==
  ASSUME TypeOK, NEW p \in Problems, NEW t \in Triples, TurnInv(p, t),
         faults' = faults + 1, turns' = turns, verdict' = verdict,
         Running(p, t)' => Running(p, t),
         t \in job'[p].todo => (Running(p, t)' <=> Running(p, t))
  PROVE  TurnInv(p, t)'
BY CountsAreTyped DEF TurnInv

\* What Goes, and nothing else, does to the jobs.
LEMMA JobGoes ==
  ASSUME TypeOK, NEW p \in Problems, NEW l, Goes(p, l)
  PROVE  /\ \A q \in Problems \ {p} : job'[q] = job[q]
         /\ job'[p].at = l /\ job'[p].now = job[p].now /\ job'[p].todo = job[p].todo
BY DEF Goes, TypeOK, Jobs

\* Ends lets go of every job.
LEMMA EndsJobs ==
  ASSUME NEW hs, Ends(hs)
  PROVE  /\ \A q \in Problems : job'[q].at = "idle" /\ job'[q].todo = {}
         /\ cmd'.is = "none"
BY IdleIsTyped DEF Ends, NoCommand

LEMMA BuildTurns ==
  ASSUME IInv, TurnsInv, NEW p \in Problems,
         Build(p) \/ SetUp(p) \/ BuildFails(p) \/ SetUpFails(p)
  PROVE  TurnsInv'
<1>1. /\ turns' = turns /\ verdict' = verdict /\ broke' = broke /\ cmd' = cmd
      /\ faults' = faults \/ faults' = faults + 1
  BY DEF Build, Unlock, Fetch, FetchFails, Fill, Lock, Write, Rename, Remove, Rewrites, SetUp, Look, Purge, Refill, Relock,
         Mount, Clones, BuildFails, SetUpFails, Fault, memory, results
<1>2. job[p].at \notin Arming
  BY DEF Build, Unlock, Fetch, FetchFails, Fill, Lock, Write, Rename, Remove, Rewrites, SetUp, Look, Purge, Refill, Relock,
         Mount, BuildFails, SetUpFails, At, Arming
<1>3. /\ \A q \in Problems \ {p} : job'[q] = job[q]
      /\ job'[p].at # "agent" /\ job'[p].todo = job[p].todo
  <2>1. CASE Build(p) \/ BuildFails(p) \/ SetUpFails(p)
    <3>1. \E l : l # "agent" /\ Goes(p, l)
      BY <2>1 DEF Build, Unlock, Fetch, FetchFails, Fill, Lock, Write, Rename, Remove, Rewrites, BuildFails, SetUpFails
    <3>q. QED BY <3>1, JobGoes DEF IInv
  <2>2. CASE SetUp(p)
    <3>1. \/ \E l : l # "agent" /\ Goes(p, l)
          \/ \E with : IsSet(p, with)
      <4>1. CASE Purge(p) \/ Refill(p) \/ Relock(p)
        BY <4>1 DEF Purge, Refill, Relock, Rewrites
      <4>2. CASE Mount(p) \/ Clones(p)
        BY <4>2 DEF Mount, Clones
      <4>3. CASE Look(p) /\ ~Clones(p)
        <5>0. PICK e : e = IF HasCached(entry[p], cmd.iso) THEN entry[p] ELSE Migrate(entry[p])
          OBVIOUS
        <5>1. PICK answer \in Verify(e, cmd.iso) :
                Goes(p, CASE answer = "match"  -> "mount"
                          [] answer = "drift"  -> "purge"
                          [] answer = "raises" -> "set")
          BY <4>3, <5>0 DEF Look
        <5>2. answer \in {"match", "drift", "raises"}
          BY DEF Verify
        <5>3. PICK l : /\ l = CASE answer = "match"  -> "mount"
                                [] answer = "drift"  -> "purge"
                                [] answer = "raises" -> "set"
                       /\ Goes(p, l)
          BY <5>1
        <5>q. QED BY <5>2, <5>3
      <4>q. QED BY <2>2, <4>1, <4>2, <4>3 DEF SetUp
    <3>2. ASSUME NEW with, IsSet(p, with)
          PROVE  /\ \A q \in Problems \ {p} : job'[q] = job[q]
                 /\ job'[p].at = "set" /\ job'[p].todo = job[p].todo
      BY <3>2 DEF IsSet, IInv, TypeOK, Jobs
    <3>q. QED BY <3>1, <3>2, JobGoes DEF IInv
  <2>q. QED BY <2>1, <2>2
<1>4. OneAtATime'
  BY <1>1, <1>2 DEF OneAtATime, IInv, Fits, PlaceFits
<1>5. \A q \in Problems, t \in Triples : Running(q, t)' <=> Running(q, t)
  BY <1>2, <1>3 DEF Running, Arming
<1>6. \A q \in Problems, t \in Triples : t \in job'[q].todo => t \in job[q].todo
  BY <1>3
<1>7. faults' \in Nat /\ faults' >= faults
  BY <1>1, CountsAreTyped DEF IInv
<1>8. ASSUME NEW q \in Problems, NEW t \in Triples PROVE TurnInv(q, t)'
  BY <1>1, <1>5, <1>6, <1>7, KeptOne DEF IInv, TurnsInv
<1>q. QED BY <1>4, <1>8 DEF TurnsInv

\* Commands that begin, end or are killed.
LEMMA CommandTurns ==
  ASSUME IInv, TurnsInv, Command \/ Ending \/ Kill \/ UNCHANGED vars
  PROVE  TurnsInv'
<1>1. turns' = turns /\ verdict' = verdict
  BY DEF Command, StartForced, StartLazy, StartBuild, StartClean, StartRun, Ending, EndBuild,
         EndClean, EndSetUp, EndRun, Kill, vars, results
<1>2. CASE UNCHANGED vars
  BY <1>2 DEF vars, memory, results, TurnsInv, OneAtATime, TurnInv, Running
<1>3. CASE Kill
  <2>1. PICK hs : Ends(hs)
    BY <1>3 DEF Kill
  <2>2. faults' = faults + 1
    BY <1>3 DEF Kill, Fault
  <2>3. \A p \in Problems, t \in Triples : ~Running(p, t)' /\ t \notin job'[p].todo
    BY <2>1, EndsJobs DEF Running
  <2>4. OneAtATime'
    BY <2>1, EndsJobs DEF OneAtATime
  <2>q. QED BY <1>1, <2>2, <2>3, <2>4, FaultPays DEF IInv, TurnsInv
<1>4. CASE Command \/ Ending
  <2>1. faults' = faults /\ faults \in Nat
    BY <1>4, CountsAreTyped
    DEF IInv, Command, StartForced, StartLazy, StartBuild, StartClean, StartRun, Ending, EndBuild,
        EndClean, EndSetUp, EndRun
  <2>2. \A p \in Problems, t \in Triples : ~Running(p, t)
    <3>1. cmd.is # "arms" \/ All("done")
      BY <1>4 DEF Command, StartForced, StartLazy, StartBuild, StartClean, StartRun, Issue, Ending,
                  EndBuild, EndClean, EndSetUp, EndRun
    <3>q. QED BY <3>1 DEF All, Running, IInv, TypeOK, Commands, Fits, PlaceFits, Building, Setting
  <2>3. /\ \A p \in Problems : job'[p].at \notin {"next", "agent", "remount"}
        /\ broke' => broke /\ \A p \in Problems : job'[p].todo \subseteq job[p].todo
    <3>1. CASE Command
      <4>1. \A p \in Problems : /\ job'[p].at \in {"unlock", "idle", "fetch", "remove", "look"}
                                /\ job'[p].todo = {} \/ ~broke'
        <5>1. CASE StartForced \/ StartLazy
          <6>1. PICK force \in BOOLEAN : StartBuild(force)
            BY <5>1 DEF StartForced, StartLazy
          <6>2. \A p \in Problems : \E l \in {"unlock", "idle", "fetch"} :
                  job'[p] = [Idle EXCEPT !.at = l]
            BY <6>1 DEF StartBuild
          <6>q. QED BY <6>2 DEF Idle
        <5>2. CASE \E targets \in SUBSET Problems, withBare \in BOOLEAN :
                     StartClean(targets, withBare)
          <6>1. PICK targets \in SUBSET Problems, withBare \in BOOLEAN : StartClean(targets, withBare)
            BY <5>2
          <6>2. \A p \in Problems : job'[p] = [Idle EXCEPT !.at = "remove"] \/ job'[p] = Idle
            BY <6>1 DEF StartClean
          <6>q. QED BY <6>2 DEF Idle
        <5>3. CASE \E f \in Flags : StartRun(f.iso, f.wide, f.strict)
          <6>1. PICK f \in Flags : StartRun(f.iso, f.wide, f.strict)
            BY <5>3
          <6>2. ~broke' /\ \A p \in Problems : job'[p] = [Idle EXCEPT !.at = "look", !.todo = Tasks(p)]
            BY <6>1 DEF StartRun
          <6>q. QED BY <6>2 DEF Idle
        <5>q. QED BY <3>1, <5>1, <5>2, <5>3 DEF Command
      <4>2. broke' = broke \/ broke' = FALSE
        BY <3>1 DEF Command, StartForced, StartLazy, StartBuild, StartClean, StartRun, memory
      <4>q. QED BY <4>1, <4>2
    <3>2. CASE EndBuild \/ EndClean
      <4>1. job' = job /\ broke' = broke /\ \A p \in Problems : job[p].at = "idle"
        BY <3>2 DEF EndBuild, EndClean, All, memory
      <4>q. QED BY <4>1
    <3>3. ASSUME NEW hs, Ends(hs), broke' = broke
          PROVE  /\ \A p \in Problems : job'[p].at \notin {"next", "agent", "remount"}
                 /\ broke' => broke /\ \A p \in Problems : job'[p].todo \subseteq job[p].todo
      BY <3>3, EndsJobs
    <3>4. CASE EndSetUp \/ EndRun
      <4>1. broke' = broke
        BY <3>4 DEF EndSetUp, EndRun
      <4>2. CASE \E hs : Ends(hs)
        BY <3>3, <4>1, <4>2
      <4>3. CASE job' = [p \in Problems |-> [job[p] EXCEPT !.at =
                   IF job[p].has = "nothing" \/ job[p].todo = {} THEN "done" ELSE "wait"]]
        BY <4>1, <4>3 DEF IInv, TypeOK, Jobs
      <4>q. QED BY <3>4, <4>2, <4>3 DEF EndSetUp, EndRun
    <3>q. QED BY <1>4, <3>1, <3>2, <3>4 DEF Ending
  <2>4. \A p \in Problems, t \in Triples : ~Running(p, t)'
    BY <2>3 DEF Running
  <2>5. OneAtATime'
    BY <2>3 DEF OneAtATime
  <2>6. ASSUME NEW p \in Problems, NEW t \in Triples PROVE TurnInv(p, t)'
    BY <1>1, <2>1, <2>2, <2>3, <2>4, KeptOne DEF IInv, TurnsInv
  <2>q. QED BY <2>5, <2>6 DEF TurnsInv
<1>q. QED BY <1>2, <1>3, <1>4

\* What the steps of a thread between its arms, and of an agent, do to jobs.
LEMMA QuietArmTurns ==
  ASSUME IInv, TurnsInv, NEW p \in Problems, Cancelled(p) \/ Install(p) \/ Remount(p)
  PROVE  TurnsInv'
<1>1. /\ turns' = turns /\ verdict' = verdict /\ broke' = broke /\ cmd' = cmd
      /\ faults' = faults /\ faults \in Nat
  BY CountsAreTyped DEF IInv, Cancelled, Install, Remount, memory, results
<1>2. \A q \in Problems \ {p} : job'[q] = job[q]
  BY DEF Cancelled, Install, Remount, Goes, IInv, TypeOK
<1>3. \/ job[p].at \in {"wait", "next"} /\ job'[p].at = "done" /\ job'[p].todo = {}
      \/ /\ job[p].at = "agent" /\ job'[p].at = "agent"
         /\ job'[p].now = job[p].now /\ job'[p].todo = job[p].todo
      \/ job[p].at = "remount" /\ job'[p].at = "next" /\ job'[p].todo = job[p].todo
  BY DEF Cancelled, MayBegin, Install, Remount, Goes, At, IInv, TypeOK, Jobs
<1>4. OneAtATime'
  BY <1>1, <1>2, <1>3 DEF OneAtATime, TurnsInv
<1>5. ASSUME NEW q \in Problems, NEW t \in Triples
      PROVE  (Running(q, t)' <=> Running(q, t)) /\ (t \in job'[q].todo => t \in job[q].todo)
  BY <1>2, <1>3 DEF Running
<1>q. QED BY <1>1, <1>4, <1>5, KeptOne DEF IInv, TurnsInv

\* A refresh that fails may take the trees of others down, once.
LEMMA RefreshTurns ==
  ASSUME IInv, TurnsInv, NEW p \in Problems, RefreshFails(p)
  PROVE  TurnsInv'
<1>1. turns' = turns /\ verdict' = verdict /\ faults' = faults + 1
  BY DEF RefreshFails, Fault, results
<1>2. CASE Ends(handles)
  <2>1. \A q \in Problems, t \in Triples : ~Running(q, t)' /\ t \notin job'[q].todo
    BY <1>2, EndsJobs DEF Running
  <2>2. OneAtATime'
    BY <1>2, EndsJobs DEF OneAtATime
  <2>q. QED BY <1>1, <2>1, <2>2, FaultPays DEF IInv, TurnsInv
<1>3. CASE cmd.wide /\ cmd' = cmd /\ job' = [job EXCEPT ![p].at = "done", ![p].todo = {}]
  <2>1. /\ \A q \in Problems \ {p} : job'[q] = job[q]
        /\ job'[p].at = "done" /\ job'[p].todo = {}
    BY <1>3 DEF IInv, TypeOK, Jobs
  <2>2. ASSUME NEW q \in Problems, NEW t \in Triples
        PROVE  /\ Running(q, t)' => Running(q, t)
               /\ t \in job'[q].todo => (Running(q, t)' <=> Running(q, t))
    BY <2>1 DEF Running
  <2>3. OneAtATime'
    BY <1>3 DEF OneAtATime
  <2>q. QED BY <1>1, <2>2, <2>3, FaultPays DEF IInv, TurnsInv
<1>q. QED BY <1>2, <1>3 DEF RefreshFails

\* An arm ends with a verdict, or with an exception that some fault explains.
LEMMA EndArmTurns ==
  ASSUME IInv, TurnsInv, NEW p \in Problems, NEW t \in Triples, NEW kind, NEW v, NEW shown,
         EndArm(p, t, kind, v, shown), turns' = turns, broke' = broke,
         faults' \in Nat, faults' >= faults,
         MayBegin(p) \/ (job[p].at = "agent" /\ job[p].now = t),
         verdict[p][t] = "open", v # "open",
         v = "ERROR" => job[p].at # "agent" \/ broke \/ faults' = faults + 1
  PROVE  TurnsInv'
<1>1. cmd.is = "arms" /\ job[p].at \in {"wait", "next", "agent"}
  BY ArmsAreSetUp DEF MayBegin, At
<1>2. ~cmd.wide => \A q \in Problems \ {p} : job[q].at \in {"wait", "done"}
  BY <1>1 DEF MayBegin, Free, At, OneAtATime, TurnsInv
<1>3. \A q \in Problems, s \in Triples :
        q # p \/ s # t => verdict'[q][s] = verdict[q][s]
  BY DEF EndArm, IInv, TypeOK
<1>4. verdict'[p][t] = Recorded(verdict[p][t], v)
  BY DEF EndArm, IInv, TypeOK
<1>5. \/ Ends(handles) /\ ~cmd.wide
      \/ /\ \A q \in Problems \ {p} : job'[q] = job[q]
         /\ job'[p].at \in {"done", "remount", "next"} /\ job'[p].todo = job[p].todo \ {t}
         /\ cmd' = cmd
  <2>1. CASE Ends(handles) /\ ~cmd.wide
    BY <2>1
  <2>2. CASE /\ cmd' = cmd
             /\ job' = [job EXCEPT ![p] =
                  [Idle EXCEPT !.has = job[p].has, !.todo = job[p].todo \ {t},
                               !.at = IF job[p].todo \ {t} = {} THEN "done"
                                      ELSE IF p \in handles THEN "remount" ELSE "next"]]
    BY <2>2 DEF IInv, TypeOK, Idle
  <2>q. QED BY <2>1, <2>2 DEF EndArm
<1>6. /\ \A q \in Problems, s \in Triples :
           (q # p \/ s # t => (Running(q, s)' <=> Running(q, s)))
           /\ (s \in job'[q].todo => s \in job[q].todo)
      /\ ~Running(p, t)' /\ t \notin job'[p].todo
  <2>1. CASE Ends(handles) /\ ~cmd.wide
    BY <1>1, <1>2, <2>1, EndsJobs DEF Running, MayBegin, At
  <2>2. CASE /\ \A q \in Problems \ {p} : job'[q] = job[q]
             /\ job'[p].at \in {"done", "remount", "next"} /\ job'[p].todo = job[p].todo \ {t}
    BY <1>1, <2>2 DEF Running, MayBegin, At
  <2>q. QED BY <1>5, <2>1, <2>2
<1>7. OneAtATime'
  <2>1. CASE Ends(handles)
    BY <2>1, EndsJobs DEF OneAtATime
  <2>2. CASE /\ \A q \in Problems \ {p} : job'[q] = job[q] /\ job'[p].at \in {"done", "remount", "next"}
             /\ cmd' = cmd
    BY <1>2, <2>2 DEF OneAtATime
  <2>q. QED BY <1>2, <1>5, <2>1, <2>2 DEF OneAtATime
<1>8. TurnInv(p, t)'
  <2>1. /\ turns[p][t] \in Nat /\ turns'[p][t] = turns[p][t] /\ faults \in Nat
        /\ TurnInv(p, t)
    BY CountsAreTyped DEF IInv, TurnsInv
  <2>2. ASSUME verdict'[p][t] = "open"
        PROVE  turns[p][t] <= faults'
    <3>1. v = "ERROR"
      BY <1>4, <2>2 DEF Recorded
    <3>q. QED BY <2>1, <3>1 DEF TurnInv, Running, MayBegin, At
  <2>q. QED BY <1>6, <2>1, <2>2 DEF TurnInv
<1>9. ASSUME NEW q \in Problems, NEW s \in Triples, q # p \/ s # t
      PROVE  TurnInv(q, s)'
  BY <1>3, <1>6, <1>9, KeptOne DEF IInv, TurnsInv
<1>q. QED BY <1>7, <1>8, <1>9 DEF TurnsInv

\* An arm begins: its triple is open, and no earlier turn of it was for nothing.
LEMMA BeginTurns ==
  ASSUME IInv, TurnsInv, NEW p \in Problems, BeginArm(p)
  PROVE  TurnsInv'
<1>1. PICK t \in job[p].todo, kind \in {"shared", "mount", "copy"} :
        /\ Layer(p, kind)
        /\ IF Works(p, kind)
             THEN /\ job' = [job EXCEPT ![p] = [@ EXCEPT
                       !.at = "agent", !.now = t, !.venv = kind,
                       !.dirty = (kind = "mount" /\ t \in scratch[p])]]
                  /\ turns' = [turns EXCEPT ![p][t] = @ + 1]
                  /\ UNCHANGED <<cmd, verdict, handles, stop, commands>>
             ELSE EndArm(p, t, kind, "ERROR", tree[p]) /\ UNCHANGED turns
  BY DEF BeginArm, Turn
<1>2. MayBegin(p) /\ job[p].at \in {"wait", "next"} /\ broke' = broke
  BY DEF BeginArm, MayBegin, At
<1>3. cmd.is = "arms" /\ t \in Triples /\ verdict[p][t] = "open"
  BY <1>2, ArmsAreSetUp
<1>4. faults \in Nat /\ faults' \in Nat /\ faults' >= faults
  <2>1. faults \in Nat
    BY CountsAreTyped DEF IInv
  <2>2. faults' = faults \/ faults' = faults + 1
    BY <1>1 DEF Layer, Fault
  <2>q. QED BY <2>1, <2>2
<1>5. CASE ~Works(p, kind)
  <2>1. PICK v, shown : v = "ERROR" /\ shown = tree[p]
    OBVIOUS
  <2>2. EndArm(p, t, kind, v, shown) /\ turns' = turns
    BY <1>1, <1>5, <2>1
  <2>3. v # "open" /\ (v = "ERROR" => job[p].at # "agent" \/ broke)
    BY <1>2, <2>1
  <2>4. broke' = broke /\ (MayBegin(p) \/ (job[p].at = "agent" /\ job[p].now = t))
    BY <1>2
  <2>q. QED BY <1>3, <1>4, <2>2, <2>3, <2>4, EndArmTurns
<1>6. CASE Works(p, kind)
  <2>1. /\ turns' = [turns EXCEPT ![p][t] = @ + 1] /\ verdict' = verdict /\ cmd' = cmd
        /\ \A q \in Problems \ {p} : job'[q] = job[q]
    BY <1>1, <1>6 DEF IInv, TypeOK
  <2>2. job'[p].at = "agent" /\ job'[p].now = t /\ job'[p].todo = job[p].todo
    <3>1. PICK dirty : job' = [job EXCEPT ![p] = [@ EXCEPT
            !.at = "agent", !.now = t, !.venv = kind, !.dirty = dirty]]
      BY <1>1, <1>6
    <3>2. PICK j : j = [job[p] EXCEPT !.at = "agent", !.now = t, !.venv = kind, !.dirty = dirty]
      OBVIOUS
    <3>3. job'[p] = j
      BY <3>1, <3>2 DEF IInv, TypeOK
    <3>4. j.at = "agent" /\ j.now = t /\ j.todo = job[p].todo
      BY <3>2 DEF IInv, TypeOK, Jobs
    <3>q. QED BY <3>3, <3>4
  <2>3. ASSUME NEW q \in Problems, NEW s \in Triples, q # p \/ s # t
        PROVE  TurnInv(q, s)'
    <3>1. turns'[q][s] = turns[q][s]
      BY <2>1, <2>3 DEF IInv, TypeOK
    <3>2. Running(q, s)' <=> Running(q, s)
      BY <1>2, <2>1, <2>2, <2>3 DEF Running
    <3>q. QED BY <1>2, <1>4, <2>1, <2>2, <3>1, <3>2, KeptOne DEF IInv, TurnsInv
  <2>4. TurnInv(p, t)'
    <3>1. turns'[p][t] = turns[p][t] + 1 /\ turns[p][t] \in Nat
      BY <1>3, <2>1, CountsAreTyped DEF IInv, TypeOK
    <3>2. turns[p][t] <= faults /\ (broke => turns[p][t] + 1 <= faults)
      BY <1>2, <1>3 DEF TurnsInv, TurnInv, Running
    <3>q. QED BY <1>2, <1>4, <2>2, <3>1, <3>2 DEF TurnInv, Running
  <2>5. OneAtATime'
    <3>1. ~cmd.wide => \A q \in Problems \ {p} : job[q].at \in {"wait", "done"}
      BY <1>2, <1>3 DEF MayBegin, Free, At, OneAtATime, TurnsInv
    <3>q. QED BY <2>1, <2>2, <3>1 DEF OneAtATime
  <2>q. QED BY <2>3, <2>4, <2>5 DEF TurnsInv
<1>q. QED BY <1>5, <1>6

\* An agent's turn ends without a verdict where the tree is gone, and only a
\* failed refresh takes it, or after an exception, which is a fault.
LEMMA JudgeTurns ==
  ASSUME IInv, TurnsInv, NEW p \in Problems, Judge(p)
  PROVE  TurnsInv'
<1>1. PICK v \in {"PASS", "FAIL", "unearned", "ERROR"}, shown \in Trees :
        /\ EndArm(p, job[p].now, job[p].venv, v, shown)
        /\ IF v = "ERROR" /\ tree[p] # "none" THEN Fault ELSE faults' = faults
  BY JudgeEnds
<1>2. job[p].at = "agent" /\ turns' = turns /\ broke' = broke
  BY DEF Judge, At
<1>3. faults \in Nat
  BY CountsAreTyped DEF IInv
<1>4. faults' \in Nat /\ faults' >= faults
  BY <1>1, <1>3 DEF Fault
<1>5. /\ job[p].now \in Triples /\ verdict[p][job[p].now] = "open"
      /\ v = "ERROR" => broke \/ faults' = faults + 1
  <2>1. job[p].now \in Triples /\ verdict[p][job[p].now] = "open" /\ (tree[p] = "none" => broke)
    BY <1>2, ArmsAreSetUp DEF LeftOver, Touched
  <2>q. QED BY <1>1, <2>1 DEF Fault
<1>q. QED BY <1>1, <1>2, <1>4, <1>5, EndArmTurns

LEMMA FailureTurns ==
  ASSUME IInv, TurnsInv, NEW p \in Problems, ArmFails(p)
  PROVE  TurnsInv'
<1>1. PICK kind : kind = IF cmd.iso /\ p \in handles THEN "mount" ELSE "shared"
  OBVIOUS
<1>2. PICK t \in job[p].todo : EndArm(p, t, kind, "ERROR", tree[p])
  BY <1>1 DEF ArmFails
<1>3. MayBegin(p) /\ job[p].at \in {"wait", "next"} /\ turns' = turns /\ broke' = broke
  BY DEF ArmFails, MayBegin, At
<1>4. faults' \in Nat /\ faults' >= faults
  BY CountsAreTyped DEF ArmFails, Fault, IInv
<1>5. t \in Triples /\ verdict[p][t] = "open"
  BY <1>3, ArmsAreSetUp
<1>6. PICK v, shown : v = "ERROR" /\ shown = tree[p]
  OBVIOUS
<1>7. EndArm(p, t, kind, v, shown) /\ v # "open" /\ (v = "ERROR" => job[p].at # "agent")
  BY <1>2, <1>3, <1>6
<1>q. QED BY <1>3, <1>4, <1>5, <1>7, EndArmTurns

LEMMA TurnsInductive == IInv /\ TurnsInv /\ [Next]_vars => TurnsInv'
<1> SUFFICES ASSUME IInv, TurnsInv, [Next]_vars PROVE TurnsInv'
  OBVIOUS
<1>1. CASE Command \/ Ending \/ Kill \/ UNCHANGED vars
  BY <1>1, CommandTurns
<1>2. ASSUME NEW p \in Problems, Build(p) \/ SetUp(p) \/ Fails(p) PROVE TurnsInv'
  BY <1>2, BuildTurns, RefreshTurns, FailureTurns DEF Fails
<1>3. ASSUME NEW p \in Problems, Arm(p) PROVE TurnsInv'
  BY <1>3, BeginTurns, JudgeTurns, QuietArmTurns DEF Arm
<1>q. QED BY <1>1, <1>2, <1>3 DEF Next

\* An agent turn is paid for: over all commands, kills and restarts an arm is
\* repeated at most once for each thing that went wrong.
THEOREM TurnsBounded == Spec => []TurnsAreBounded
<1>1. Init => TurnsInv
  <2> SUFFICES ASSUME Init PROVE TurnsInv
    OBVIOUS
  <2>1. cmd.is = "none" /\ faults = 0 /\ ~broke
    BY DEF Init, NoCommand
  <2>2. \A p \in Problems, t \in Triples : turns[p][t] = 0
    BY DEF Init
  <2>q. QED BY <2>1, <2>2 DEF TurnsInv, OneAtATime, TurnInv
<1>2. TurnsInv => TurnsAreBounded
  BY DEF TurnsInv, TurnInv, TurnsAreBounded
<1>q. QED BY <1>1, <1>2, InitHolds, Invariant, TurnsInductive, PTL DEF Spec

=============================================================================
