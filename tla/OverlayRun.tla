----------------------------- MODULE OverlayRun -----------------------------
(***************************************************************************)
(* The overlay runtime (swebench/run.py, cache_cli.py, harness.py): the    *)
(* operator warms the cache up, cleans it, and runs campaigns over it.  An *)
(* invocation sets each problem up, mounts an overlay of its checkout, or  *)
(* clones it, runs the arms of a problem one after the other, and takes    *)
(* the overlays down.  Commands come one at a time; each may be killed.    *)
(***************************************************************************)
EXTENDS InstanceCache, Naturals

CONSTANTS
  Problems, Triples,  \* Triples: the (arm, run_idx) pairs of each problem
  NoTriple,
  Flags,              \* --no-venv-isolation, --parallel, --fail-fast as the operator combines them
  MaxCommands,        \* bound: commands of the operator
  MaxFaults           \* bound: kills, exceptions in an arm, failed mounts,
                      \* strips, builds and clones

ASSUME OverlayAssumption ==
  /\ NoTriple \notin Triples
  /\ Flags \subseteq [iso : BOOLEAN, wide : BOOLEAN, strict : BOOLEAN]
  /\ MaxCommands \in Nat /\ MaxFaults \in Nat

VARIABLES
  cmd,       \* the command that runs, with its flags
  entry, bare, \* the cache: per problem its entry; how far the bare repository is there
  mounted,   \* per problem: an environment overlay is mounted on `venv'
  scratch,   \* per problem: triples whose upper layer a killed arm left behind
  tree,      \* per problem: what its merged view, or its clone, shows
  job,       \* per problem: the thread that works on it
  handles,   \* overlay_handles
  stop,      \* _fail_event
  verdict,   \* per problem and triple: what the results directory says
  commands, faults,
  turns,     \* history: agent turns so far
  broke      \* history: a refresh has failed in this invocation

cache == <<entry, bare>>
layers == <<mounted, scratch>>
memory == <<handles, stop, broke>>
results == <<verdict, turns>>
vars == <<cmd, cache, layers, tree, job, memory, results, commands, faults>>

-----------------------------------------------------------------------------
Commands == [is : {"none", "build", "clean", "clean bare", "setup", "arms"},
             wide : BOOLEAN, iso : BOOLEAN, strict : BOOLEAN]
NoCommand == [is |-> "none", wide |-> FALSE, iso |-> FALSE, strict |-> FALSE]
Does(c) == [NoCommand EXCEPT !.is = c]

Building == {"unlock", "refetch", "fetch", "fill", "lock", "write", "rename"}
Setting == {"look", "purge", "refill", "relock", "mount", "set"}
Arming == {"wait", "next", "agent", "remount", "done"}

\* has: what setup_map holds; venv: what venv_overlay gives the arm;
\* dirty: an agent's packages are in the arm's own layer.
Jobs == [at : {"idle", "remove"} \cup Building \cup Setting \cup Arming,
         has : {"nothing", "overlay", "clone"}, todo : SUBSET Triples,
         now : Triples \cup {NoTriple}, venv : {"shared", "mount", "copy"},
         dirty : BOOLEAN]
Idle == [at |-> "idle", has |-> "nothing", todo |-> {}, now |-> NoTriple,
         venv |-> "shared", dirty |-> FALSE]

\* none: not mounted; history: git log still shows the upstream fix; used: an
\* agent has worked in it and HEAD is the base; edited: HEAD has commits of an
\* agent; tested: HEAD has the held-out tests, committed with the agent's edits.
\* Files that git ignores are not part of a tree.
Trees == {"none", "history", "pristine", "used", "edited", "tested"}

TypeOK ==
  /\ cmd \in Commands
  /\ entry \in [Problems -> Entries] /\ bare \in {"none", "half", "whole"}
  /\ mounted \in [Problems -> BOOLEAN]
  /\ scratch \in [Problems -> SUBSET Triples]
  /\ tree \in [Problems -> Trees]
  /\ job \in [Problems -> Jobs]
  /\ handles \subseteq Problems /\ stop \in BOOLEAN /\ broke \in BOOLEAN
  /\ verdict \in [Problems -> [Triples -> {"open", "PASS", "FAIL", "unearned"}]]
  /\ turns \in [Problems -> [Triples -> Nat]]
  /\ commands \in 0..MaxCommands /\ faults \in 0..MaxFaults

Init ==
  /\ cmd = NoCommand
  /\ entry \in [Problems -> {Absent, Legacy, SpoiledLegacy}] /\ bare = "whole"
  /\ mounted = [p \in Problems |-> FALSE]
  /\ scratch = [p \in Problems |-> {}]
  /\ tree = [p \in Problems |-> "none"]
  /\ job = [p \in Problems |-> Idle]
  /\ handles = {} /\ stop = FALSE /\ broke = FALSE
  /\ verdict = [p \in Problems |-> [t \in Triples |-> "open"]]
  /\ turns = [p \in Problems |-> [t \in Triples |-> 0]]
  /\ commands = 0 /\ faults = 0

-----------------------------------------------------------------------------
At(p, l) == job[p].at = l
Goes(p, l) == job' = [job EXCEPT ![p].at = l]
All(l) == \A p \in Problems : job[p].at = l
Writes(p, e) == entry' = [entry EXCEPT ![p] = e] /\ UNCHANGED bare

Fault == faults < MaxFaults /\ faults' = faults + 1

Issue(c) ==
  /\ cmd.is = "none" /\ commands < MaxCommands
  /\ cmd' = c /\ commands' = commands + 1

\* What is mounted, or cloned for this invocation only, when it has taken the
\* overlays in hs down and ended.
Ends(hs) ==
  /\ cmd' = NoCommand
  /\ job' = [p \in Problems |-> Idle]
  /\ handles' = {} /\ stop' = FALSE
  /\ tree' = [p \in Problems |->
       IF p \in hs \/ job[p].has = "clone" THEN "none" ELSE tree[p]]
  /\ UNCHANGED commands

\* SIGKILL: mounts, scratch directories and files stay as they are, a bare
\* repository that is being cloned or removed stays in part.
Halves == \/ bare = "none" /\ \E p \in Problems : job[p].at \in {"fetch", "refetch"}
          \/ bare = "whole" /\ cmd.is = "clean bare" /\ All("idle")

Kill ==
  /\ cmd.is # "none" /\ Fault
  /\ Ends({})
  /\ scratch' = [p \in Problems |->
       IF At(p, "agent") /\ job[p].venv = "mount" /\ job[p].dirty
         THEN scratch[p] \cup {job[p].now} ELSE scratch[p]]
  /\ bare' \in {bare} \cup (IF Halves THEN {"half"} ELSE {})
  /\ UNCHANGED <<entry, mounted, broke, results>>

-----------------------------------------------------------------------------
(***************************************************************************)
(* cache setup: _setup_one builds an entry in place, in a thread each.     *)
(***************************************************************************)
StartBuild(force) ==
  /\ Issue(Does("build"))
  /\ job' = [p \in Problems |-> [Idle EXCEPT !.at =
       IF force THEN "unlock"
       ELSE IF HasCached(entry[p], TRUE) \/ HasCached(entry[p], FALSE) THEN "idle"
       ELSE "fetch"]]
  /\ UNCHANGED <<cache, layers, tree, memory, results, faults>>

StartForced == StartBuild(TRUE)
StartLazy == StartBuild(FALSE)

Rewrites(p, l, next, e) ==
  /\ At(p, l) /\ Goes(p, next) /\ Writes(p, e)
  /\ UNCHANGED <<cmd, layers, tree, memory, results, commands, faults>>

Unlock(p) == Rewrites(p, "unlock", "refetch", [entry[p] EXCEPT !.lock = "none"])

\* The bare repository, a checkout that borrows its objects, and the start of
\* setup_venv, which uses an environment with its sentinel, written last, again,
\* or of setup_conda_env, which makes any anew.  --force removes the old
\* environments first, but nothing is removed or renamed under a mount.
Reused(env) == env.is \in {"whole", "spoiled"}
Fetch(p) ==
  /\ job[p].at \in {"fetch", "refetch"} /\ Goes(p, "fill")
  /\ bare # "half" /\ bare' = "whole"
  /\ \E again \in BOOLEAN : entry' = [entry EXCEPT ![p] = [entry[p] EXCEPT
       !.repo = TRUE,
       !.lower = IF At(p, "refetch") THEN None ELSE @,
       !.venv = IF mounted[p] \/ (At(p, "fetch") /\ again /\ Reused(@)) THEN @ ELSE Torn]]
  /\ UNCHANGED <<cmd, layers, tree, memory, results, commands, faults>>

\* A bare repository that is there in part is taken for whole, or cloned over:
\* the checkout or the clone raises, and nothing but a clean mends it.
FetchFails(p) ==
  /\ job[p].at \in {"fetch", "refetch"} /\ bare = "half" /\ Goes(p, "idle")
  /\ UNCHANGED <<cmd, cache, layers, tree, memory, results, commands, faults>>

Fill(p) == Rewrites(p, "fill", "lock",
  IF mounted[p] \/ Reused(entry[p].venv) THEN entry[p]
  ELSE [entry[p] EXCEPT !.venv = Built("venv")])

\* write_lockfile, through the mount if there is one: the file is cut off, then
\* written.
Lock(p) == Rewrites(p, "lock", "write", [entry[p] EXCEPT !.lock = "cut"])
Write(p) == Rewrites(p, "write", "rename",
  [entry[p] EXCEPT !.lock = IF mounted[p] THEN "whole" ELSE entry[p].venv.is])
Rename(p) == Rewrites(p, "rename", "idle",
  IF mounted[p] THEN entry[p] ELSE [entry[p] EXCEPT !.lower = entry[p].venv, !.venv = None])

BuildFails(p) ==
  /\ job[p].at \in {"refetch", "fetch", "fill", "lock", "write"} /\ Fault
  /\ Goes(p, "idle")
  /\ UNCHANGED <<cmd, cache, layers, tree, memory, results, commands>>

EndBuild ==
  /\ cmd.is = "build" /\ All("idle")
  /\ cmd' = NoCommand
  /\ UNCHANGED <<cache, layers, tree, job, memory, results, commands, faults>>

-----------------------------------------------------------------------------
(***************************************************************************)
(* cache clean: the instances asked for, then the bare repository, which   *)
(* the checkouts of other instances may still borrow from.                 *)
(***************************************************************************)
Present(e) == e # Absent
CleansBare(targets, withBare) ==   \* mutated form: no guard
  /\ Issue(Does(IF withBare THEN "clean bare" ELSE "clean"))
  /\ job' = [p \in Problems |->
       IF p \in targets /\ Present(entry[p]) THEN [Idle EXCEPT !.at = "remove"] ELSE Idle]
  /\ UNCHANGED <<cache, layers, tree, memory, results, faults>>

StartClean(targets, withBare) ==
  /\ withBare => \A p \in Problems \ targets : ~Present(entry[p])
  /\ Issue(Does(IF withBare THEN "clean bare" ELSE "clean"))
  /\ job' = [p \in Problems |->
       IF p \in targets /\ Present(entry[p]) THEN [Idle EXCEPT !.at = "remove"] ELSE Idle]
  /\ UNCHANGED <<cache, layers, tree, memory, results, faults>>

Remove(p) ==
  Rewrites(p, "remove", "idle",
    IF mounted[p] THEN [Absent EXCEPT !.venv = Hollow] ELSE Absent)

EndClean ==
  /\ cmd.is \in {"clean", "clean bare"} /\ All("idle")
  /\ cmd' = NoCommand
  /\ bare' = IF cmd.is = "clean" THEN bare ELSE "none"
  /\ UNCHANGED <<entry, layers, tree, job, memory, results, commands, faults>>

-----------------------------------------------------------------------------
(***************************************************************************)
(* swebench run, phase 1: _setup_one and _setup_problem_cached.            *)
(***************************************************************************)
TasksAll(p) == Triples   \* mutated form: what is complete is run again
Tasks(p) == {t \in Triples : verdict[p][t] = "open"}

\* _cleanup_stale_overlays unmounts what the last invocation left, and the
\* tasks are those --resume finds no verdict for.  Without isolation the
\* shared directory is used as it is: nothing may be mounted on it.
KeepsStale(iso, wide, strict) ==   \* mutated form: no clean-up
  /\ iso \/ \A p \in Problems : ~mounted[p]
  /\ Issue([is |-> "setup", wide |-> wide, iso |-> iso, strict |-> strict])
  /\ job' = [p \in Problems |-> [Idle EXCEPT !.at = "look", !.todo = Tasks(p)]]
  /\ broke' = FALSE
  /\ UNCHANGED <<cache, layers, tree, handles, stop, results, faults>>

StartRun(iso, wide, strict) ==
  /\ iso \/ \A p \in Problems : ~mounted[p]
  /\ Issue([is |-> "setup", wide |-> wide, iso |-> iso, strict |-> strict])
  /\ tree' = [p \in Problems |-> "none"]
  /\ job' = [p \in Problems |-> [Idle EXCEPT !.at = "look", !.todo = Tasks(p)]]
  /\ broke' = FALSE
  /\ UNCHANGED <<cache, layers, handles, stop, results, faults>>

\* --parallel 1 has no pool: one problem at a time.
Free(p, waiting) == cmd.wide \/ \A q \in Problems \ {p} : job[q].at \in waiting

IsSet(p, with) == job' = [job EXCEPT ![p].at = "set", ![p].has = with]

\* _setup_problem: a clone of the instance's own, stripped, and an environment.
Clones(p) ==
  \/ IsSet(p, "clone") /\ tree' = [tree EXCEPT ![p] = "pristine"] /\ UNCHANGED faults
  \/ Fault /\ IsSet(p, "nothing") /\ UNCHANGED tree

\* The entry is migrated if it has the old layout, then its lockfile verified;
\* what is not cached, or is to be migrated under a mount, is cloned.
Look(p) ==
  LET e == IF HasCached(entry[p], cmd.iso) THEN entry[p] ELSE Migrate(entry[p])
      found == \/ HasCached(entry[p], cmd.iso)
               \/ HasCached(entry[p], FALSE) /\ ~mounted[p]
  IN /\ At(p, "look") /\ Free(p, {"look", "set"})
     /\ \/ /\ ~found /\ Clones(p)
           /\ UNCHANGED cache
        \/ /\ found /\ Writes(p, e)
           /\ \E answer \in Verify(e, cmd.iso) :
                Goes(p, CASE answer = "match"  -> "mount"
                          [] answer = "drift"  -> "purge"
                          [] answer = "raises" -> "set")
           /\ UNCHANGED <<tree, faults>>
     /\ UNCHANGED <<cmd, layers, memory, results, commands>>

\* A drifted environment is removed and built again where it lies, then a new
\* lockfile is written; until then the old one stays.  A process killed here
\* leaves nothing of it, or half.
Purge(p) == \E left \in {None, Torn} :
  Rewrites(p, "purge", "refill", WithBase(entry[p], cmd.iso, left))
Refill(p) == Rewrites(p, "refill", "relock",
  [WithBase(entry[p], cmd.iso, Built(IF cmd.iso THEN "lower" ELSE "venv"))
   EXCEPT !.lock = "cut"])
Relock(p) == Rewrites(p, "relock", "mount", [entry[p] EXCEPT !.lock = "whole"])

\* The mount point is made, then the overlay, then the history is stripped.  A
\* failed mount means a clone; a failed strip fails the set-up, leaves the
\* overlay mounted, and no handle names it.
Mount(p) ==
  /\ At(p, "mount")
  /\ Writes(p, IF entry[p].venv = None THEN [entry[p] EXCEPT !.venv = Hollow] ELSE entry[p])
  /\ \/ /\ tree' = [tree EXCEPT ![p] = "pristine"]
        /\ IsSet(p, "overlay")
        /\ handles' = handles \cup {p}
        /\ UNCHANGED faults
     \/ /\ Fault
        /\ \/ tree' = [tree EXCEPT ![p] = "pristine"] /\ IsSet(p, "clone")
           \/ tree' = [tree EXCEPT ![p] = "history"] /\ IsSet(p, "nothing")
        /\ UNCHANGED handles
  /\ UNCHANGED <<cmd, layers, stop, broke, results, commands>>

SetUpFails(p) ==
  /\ job[p].at \in {"purge", "refill", "relock"} /\ Fault
  /\ Goes(p, "set")
  /\ UNCHANGED <<cmd, cache, layers, tree, memory, results, commands>>

EndSetUp ==
  /\ cmd.is = "setup" /\ All("set")
  /\ IF \A p \in Problems : job[p].has = "nothing"
       THEN Ends(handles)
       ELSE /\ cmd' = [cmd EXCEPT !.is = "arms"]
            /\ job' = [p \in Problems |-> [job[p] EXCEPT !.at =
                 IF job[p].has = "nothing" \/ job[p].todo = {} THEN "done" ELSE "wait"]]
            /\ UNCHANGED <<tree, handles, stop, commands>>
  /\ UNCHANGED <<cache, layers, broke, results, faults>>

-----------------------------------------------------------------------------
(***************************************************************************)
(* Phase 2: one thread a problem, its arms one after the other.            *)
(***************************************************************************)
\* --resume lets an arm begin only when the last has ended; run_idx and
\* --shuffle-arms decide the order, which is left open.
MayBegin(p) ==
  \/ At(p, "wait") /\ Free(p, {"wait", "done"})
  \/ At(p, "next")

\* venv_overlay: a stale mount is taken down and this arm's put there, over
\* the upper layer of its name, or the environment is copied; without a handle
\* or without isolation the shared directory is used.
Layer(p, kind) ==
  IF cmd.iso /\ p \in handles
    THEN \/ kind = "mount" /\ UNCHANGED faults
         \/ kind = "copy" /\ Fault
    ELSE kind = "shared" /\ UNCHANGED faults

\* git_reset, reinstall_editable: they need the tree, and a pip that names an
\* interpreter which is there.
Works(p, kind) ==
  /\ tree[p] # "none"
  /\ job[p].has = "overlay" =>
       CASE kind = "mount"  -> TRUE
         [] kind = "copy"   -> entry[p].lower.home = "lower"
         [] kind = "shared" -> ~cmd.iso

\* git reset --hard HEAD undoes no commit.
ResetNever(shown) == shown   \* mutated form: the arm takes the tree as it is
Reset(shown) == IF shown = "used" THEN "pristine" ELSE shown

Failed == {"FAIL", "unearned"}

RecordedAlways(old, v) == v   \* mutated form: an exception is recorded as well
Recorded(old, v) == IF v = "ERROR" THEN old ELSE v

\* What is mounted when an arm of p has ended and triples are left: an unmount
\* takes effect, the lazy one at the latest.
AfterTeardown(p, left, v, shown) ==   \* mutated form: a FAIL takes all down
  [q \in Problems |->
     IF ((q = p /\ left # {}) \/ (cmd.strict /\ v \in Failed)) /\ q \in handles THEN "none"
     ELSE IF q = p THEN shown ELSE tree[q]]
After(p, left, v, shown) ==
  [tree EXCEPT ![p] = IF p \in handles /\ left # {} THEN "none" ELSE shown]

\* Triple t leaves _run_arm and venv_overlay: what was mounted or copied for it
\* is removed, and the tree shows what the arm made of it.  An exception, or a
\* FAIL under --fail-fast, ends a serial invocation; a pool goes on, or cancels
\* what has not begun.  Between two arms _refresh_overlay looks the handle up,
\* unmounts the overlay and removes its upper layer.
EndArm(p, t, kind, v, shown) ==
  LET left == job[p].todo \ {t} IN
  /\ mounted' = [mounted EXCEPT ![p] = @ /\ kind = "shared"]
  /\ scratch' = [scratch EXCEPT ![p] = IF kind = "shared" THEN @ ELSE @ \ {t}]
  /\ verdict' = [verdict EXCEPT ![p][t] = Recorded(@, v)]
  /\ IF ~cmd.wide /\ (v = "ERROR" \/ (cmd.strict /\ v \in Failed))
       THEN Ends(handles)
       ELSE /\ job' = [job EXCEPT ![p] =
                 [Idle EXCEPT !.has = job[p].has, !.todo = left,
                              !.at = IF left = {} THEN "done"
                                     ELSE IF p \in handles THEN "remount" ELSE "next"]]
            /\ stop' = (stop \/ (cmd.strict /\ v \in Failed))
            /\ tree' = After(p, left, v, shown)
            /\ UNCHANGED <<cmd, handles, commands>>

\* The arm is set up and the agent started.
Turn(p, t, kind) ==
  /\ mounted' = [mounted EXCEPT ![p] = kind = "mount" \/ (@ /\ kind = "shared")]
  /\ scratch' = [scratch EXCEPT ![p] = IF kind = "copy" THEN @ \ {t} ELSE @]
  /\ tree' = [tree EXCEPT ![p] = Reset(@)]
  /\ job' = [job EXCEPT ![p] = [@ EXCEPT
       !.at = "agent", !.now = t, !.venv = kind,
       !.dirty = (kind = "mount" /\ t \in scratch[p])]]
  /\ turns' = [turns EXCEPT ![p][t] = @ + 1]
  /\ UNCHANGED <<cmd, verdict, handles, stop, commands>>

BeginArm(p) ==
  /\ MayBegin(p) /\ ~stop
  /\ \E t \in job[p].todo, kind \in {"shared", "mount", "copy"} :
       /\ Layer(p, kind)
       /\ IF Works(p, kind)
            THEN Turn(p, t, kind)
            ELSE EndArm(p, t, kind, "ERROR", tree[p]) /\ UNCHANGED turns
  /\ UNCHANGED <<cache, broke>>

\* Any other step of the set-up may raise as well, before the agent's turn.
ArmFails(p) ==
  /\ MayBegin(p) /\ ~stop /\ Fault
  /\ \E t \in job[p].todo :
       EndArm(p, t, IF cmd.iso /\ p \in handles THEN "mount" ELSE "shared", "ERROR", tree[p])
  /\ UNCHANGED <<cache, turns, broke>>

Cancelled(p) ==
  /\ MayBegin(p) /\ stop
  /\ job' = [job EXCEPT ![p].at = "done", ![p].todo = {}]
  /\ UNCHANGED <<cmd, cache, layers, tree, memory, results, commands, faults>>

\* An agent that installs a package writes its own layer, or the instance's.
Install(p) ==
  LET base == Base(entry[p], cmd.iso)
      own == job[p].venv = "copy" \/ ~WritesThrough(cmd.iso, base)
  IN
  /\ At(p, "agent") /\ job[p].has = "overlay"
  /\ Writes(p, IF own THEN entry[p] ELSE WithBase(entry[p], cmd.iso, Spoil(base)))
  /\ job' = [job EXCEPT ![p].dirty = @ \/ own]
  /\ UNCHANGED <<cmd, layers, tree, memory, results, commands, faults>>

\* The agent has worked in the tree, and committed if it liked; then come
\* apply_test_patch, which commits everything with the tests if the problem has
\* a patch and it applies, run_preflight_collect and run_tests.  Where the tree
\* is gone, the patch does not apply, or nothing can be started there any more.
Worked(shown) ==
  CASE shown = "tested" -> {"tested"}
    [] shown = "edited" -> {"edited", "tested"}
    [] OTHER            -> {"used", "edited", "tested"}
Outcomes(shown) ==
  IF shown = "none" THEN {<<"unearned", "none">>, <<"ERROR", "none">>}
  ELSE {"PASS", "FAIL"} \X Worked(shown)

\* An exception after the turn is a fault: a commit of nothing, a missing
\* interpreter, a disk that is full.
Judge(p) ==
  /\ At(p, "agent")
  /\ \/ /\ \E outcome \in Outcomes(tree[p]) :
             EndArm(p, job[p].now, job[p].venv, outcome[1], outcome[2])
        /\ UNCHANGED faults
     \/ /\ tree[p] # "none" /\ Fault
        /\ \E shown \in Worked(tree[p]) :
             EndArm(p, job[p].now, job[p].venv, "ERROR", shown)
  /\ UNCHANGED <<cache, turns, broke>>

\* The second half of _refresh_overlay: mount and strip again, even what another
\* thread has taken down and out of overlay_handles since.
Remount(p) ==
  /\ At(p, "remount")
  /\ tree' = [tree EXCEPT ![p] = "pristine"]
  /\ Goes(p, "next")
  /\ UNCHANGED <<cmd, cache, layers, memory, results, commands, faults>>

\* Whichever thread fails takes every overlay down that has a handle; in a pool
\* the others run on.
RefreshFails(p) ==
  /\ At(p, "remount") /\ Fault
  /\ broke' = TRUE
  /\ IF cmd.wide
       THEN /\ \E left \in {"none", "history"} :
                 tree' = [q \in Problems |-> IF q \in handles THEN "none"
                                             ELSE IF q = p THEN left ELSE tree[q]]
            /\ job' = [job EXCEPT ![p].at = "done", ![p].todo = {}]
            /\ handles' = {}
            /\ UNCHANGED <<cmd, stop, commands>>
       ELSE Ends(handles)
  /\ UNCHANGED <<cache, layers, results>>

EndRunBare ==   \* mutated form: no teardown at the end
  /\ cmd.is = "arms" /\ All("done")
  /\ Ends({})
  /\ UNCHANGED <<cache, layers, broke, results, faults>>

EndRun ==
  /\ cmd.is = "arms" /\ All("done")
  /\ Ends(handles)
  /\ UNCHANGED <<cache, layers, broke, results, faults>>

-----------------------------------------------------------------------------
Command ==
  \/ StartForced \/ StartLazy
  \/ \E targets \in SUBSET Problems, withBare \in BOOLEAN : StartClean(targets, withBare)
  \/ \E f \in Flags : StartRun(f.iso, f.wide, f.strict)

Build(p) ==
  \/ Unlock(p) \/ Fetch(p) \/ FetchFails(p) \/ Fill(p) \/ Lock(p) \/ Write(p)
  \/ Rename(p) \/ Remove(p)

SetUp(p) == Look(p) \/ Purge(p) \/ Refill(p) \/ Relock(p) \/ Mount(p)

Arm(p) == BeginArm(p) \/ Cancelled(p) \/ Install(p) \/ Judge(p) \/ Remount(p)

Ending == EndBuild \/ EndClean \/ EndSetUp \/ EndRun

Fails(p) == BuildFails(p) \/ SetUpFails(p) \/ ArmFails(p) \/ RefreshFails(p)

Next ==
  \/ Command \/ Ending \/ Kill
  \/ \E p \in Problems : Build(p) \/ SetUp(p) \/ Arm(p) \/ Fails(p)

Spec == Init /\ [][Next]_vars

-----------------------------------------------------------------------------
\* The tree an agent works in is the base commit without its history, without
\* another arm's work and without the held-out tests, unless nothing refreshes
\* it: then an agent that comes after another one of its problem may find what
\* that one committed, or the tests with all its edits.  So it is in a clone,
\* and after a refresh that failed, when the tree may also be gone.
Unrefreshed(p) == job[p].has = "clone" \/ broke
HadTurn(p) == \E t \in Triples \ job[p].todo : turns[p][t] > 0
AgentSeesBase == \A p \in Problems :
  At(p, "agent") =>
    \/ tree[p] = "pristine"
    \/ tree[p] \in {"edited", "tested"} /\ Unrefreshed(p) /\ HadTurn(p)
    \/ tree[p] = "none" /\ broke

\* An arm over an overlay runs in a whole environment, whatever was killed
\* while it was being built.
EnvironmentIsWhole == \A p \in Problems :
  At(p, "agent") /\ job[p].has = "overlay" =>
    Base(entry[p], cmd.iso).is \in {"whole", "spoiled"}

\* An isolated arm starts without another agent's packages, unless a killed
\* attempt at the same triple left its upper layer, the instance was rebuilt
\* in place, or a lockfile was written over them.
ArmStartsClean == [][\A p \in Problems :
  /\ job[p].at \in {"wait", "next"} /\ job'[p].at = "agent"
  /\ cmd.iso /\ job[p].has = "overlay"
  => \/ ~job'[p].dirty /\ entry[p].lower.is = "whole"
     \/ job'[p].now \in scratch[p]
     \/ entry[p].lower.home = "lower" \/ entry[p].lock = "spoiled"]_vars

\* A verdict is about a tree that was there, unless a refresh of another thread
\* failed and took it down.
VerdictIsEarned == [][\A p \in Problems, t \in Triples :
  verdict'[p][t] = "unearned" => verdict[p][t] = "unearned" \/ (broke /\ cmd.wide)]_vars

\* An invocation that is not killed, however it ends, leaves no overlay
\* mounted, except one that could not be stripped, or that was mounted again
\* after a failed refresh.
NothingLeaks == [][
  cmd.is \in {"setup", "arms"} /\ cmd'.is = "none" /\ ~Kill =>
    \A p \in Problems : tree'[p] = "none" \/ job[p].has = "nothing" \/ broke]_vars

\* No overlay is mounted over another one.
MountsDoNotStack == \A p \in Problems :
  job[p].at \in {"mount", "remount"} => tree[p] = "none"

\* The checkouts borrow their objects from the bare repository.
BareOutlivesCheckouts == \A p \in Problems : entry[p].repo => bare = "whole"

\* An agent turn is paid for: over all commands, an arm is repeated at most
\* once for each kill, exception after a turn, failed mount, strip, build or
\* clone.
TurnsAreBounded == \A p \in Problems, t \in Triples : turns[p][t] <= faults + 1

\* run.py judges every turn that ends: that a triple's work may be graded says
\* here no more than that it has had a turn.
Campaigns == INSTANCE Campaign WITH
  Triples <- Problems \X Triples, Verdicts <- {"PASS", "FAIL"}, Open <- "open",
  verdict <- [u \in Problems \X Triples |->
    LET v == verdict[u[1]][u[2]] IN IF v = "unearned" THEN "FAIL" ELSE v],
  turns <- [u \in Problems \X Triples |-> turns[u[1]][u[2]]],
  clean <- [u \in Problems \X Triples |-> turns[u[1]][u[2]] > 0]

\* The results directory of a resumed campaign implements Campaign: a triple
\* that has a verdict is neither run nor judged again.
ImplementsCampaign == Campaigns!Spec

=============================================================================
