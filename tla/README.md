# onlycodes in TLA+

Models of the parts of this repository that run concurrently, restart, or hold
state across calls; TLC configurations that check them on small instances; and
TLAPS proofs of what matters most for every size. `PROJECT.json` maps each
definition to the lines it models.

## The system

The repository measures coding agents with and without a code-execution tool.

| Component | State it keeps | Operations | Modelled by |
|---|---|---|---|
| Persistent Python kernel pool (`exec_server/exec-server.js`, `python_kernel.py`) | registry cwd -> kernel handle, pending resolver and buffer per handle, reset flags, timers, fallback count | execute_code, retry, kill on timeout, spawn, parse, close, error | `KernelPool`, `KernelPoolProofs` |
| Sub-MCP manager and bridge (`sub-mcp-manager.js`, `bridge-server.js`) | connection state per server, connect promise, crash count | call, get_schema, connect with backoff, onclose | `SubMcp`, `SubMcpProofs` |
| Image campaign orchestrator (`swebench/image_run.py`) | todo per problem, stop event, predictions, record files | agent pass, record writing, grading pass, merge, resume | `ImageRun`, `ImageRunProofs`, abstract `Campaign` |
| Image store and containers (`image_store.py`, `container.py`) | digest manifest, local images, snapshots, containers | ensure_image, prepare_instance, start/teardown | `ImageStore` |
| Official grading, in-container agent, run audit | temporary files | grade a group, run a turn, classify a transcript | by their outcomes, in `ImageRun` |
| OverlayFS cache (`cache.py`, `cache_cli.py`) | per instance a checkout, an environment in one of two layouts, a lockfile; one bare repository | build, migrate, verify, rebuild, clean, environment overlays | `InstanceCache`, `OverlayRun`, `OverlayRunProofs` |
| Overlay orchestrator (`run.py`, `harness.py`) | overlay handles, mounts, working trees, results | set-up or clone, arms, refresh, teardown, resume | `OverlayRun`, `OverlayRunProofs`, abstract `Campaign` |
| Transcript analysis (`swebench/analyze/`) | sidecar files per review, `patterns.json` | triage, two pools of reviews, synthesis, merge | `Analysis`, `AnalysisProofs` |
| Stateless execution (`executeCode` in `exec-server.js`) | none between calls | run one process with a time limit | not modelled |
| Artifact benchmark (`artifact_*.py`) | a scratch directory per run | materialise, run, grade | no concurrency: not modelled |
| Interceptor, configuration, codebox, specs, add, statistics, scripts, tools | files they are given | lookups, parsing, reports | pure or one-off: not modelled |

How they interact: an agent in a container calls `execute_code` of the
exec-server over MCP; user code it runs may call sub-MCP servers through a Unix
socket served by the same JavaScript process. The orchestrator starts such
agents from a thread pool, each in a container made from the image store's
snapshot, and has their patches graded by a subprocess. The only durable state
is the results directory, the digest manifest and Docker's store. The overlay
orchestrator runs the same campaign on the host instead: its agents work in an
overlay of a cached checkout, or in a clone. The analysis reads the transcripts
either of them left and writes what its reviews found to the registry of the
repository.

What is hard: handlers of the exec-server interleave at every `await`; kernels
and sub-MCP servers die at any time and their `close` events come late; the
orchestrator is killed, throttled, or out of disk at any step and must carry on
from its files; several of its threads rewrite one manifest. The overlay
runtime keeps mounts, upper layers and half-built environments across kills and
recognises them by name or by a lockfile, and one thread's failure takes the
overlays of all down. The analysis trusts any sidecar that exists, and holds a
copy of the registry during a model call of minutes. `PROJECT.json` lists each
hazard at its line with the properties that cover it, or a note when none does.

What makes each part correct:

- kernel pool: no request loses its resolver, every request is answered with
  its own response, an armed timer can only kill the kernel of its own call,
  the registry names live kernels, the client learns of lost state;
- sub-MCP manager: one handshake at a time, crashes counted once, no request
  without an answer, a late event of an old process touches nothing;
- campaign: a triple that has a verdict is never paid for again, a verdict is
  about the last turn's patch, throttled work is never judged, clean work is
  judged before the program stops, everything is settled in the end;
- image store: what is pinned was pulled, snapshots are whole and never
  change, what a record names is what ran;
- overlay runtime: where the tree is refreshed, an agent sees the base commit
  without its history, another arm's edits or the held-out tests; its
  environment is whole and without another agent's packages; overlays do not
  stack and are taken down; a verdict is about a tree that was there; the
  directory is a campaign's as above;
- analysis: a clean exit means that every flagged transcript was reviewed, what
  was paid for is not paid for again nor written over, the synthesizer sees
  every valid review, a registry entry is never lost.

## Modules

| Module | What it is | Runs | Proofs |
|---|---|---|---|
| `KernelPool` | requests, registry, timers, framing, kernel processes | `kernel_serial`, `kernel_concurrent`, `kernel_one_per_cwd`, `kernel_loss_told` | `KernelPoolProofs`, `KernelAnswerProofs`, `KernelSerialProofs` |
| `SubMcp` | one sub-MCP server, its attempts and the requests on it | `sub_mcp`, `sub_mcp_stale_close` | `SubMcpProofs` |
| `Campaign` | abstract: what a resumable campaign promises | through `ImageRun` and `OverlayRun` | `ImageRunProofs`, `OverlayRunProofs` (`Refines` in each) |
| `ImageRun` | agent pass, grading pass, records, crash, `--resume` | `image_run`, `image_transcript` | `ImageRunProofs` |
| `ImageStore` | digest manifest, Docker's images, prep and arm containers | `image_store`, `image_digest` | `ImageStoreProofs` |
| `InstanceCache` | operators: one cached instance on disk | through `OverlayRun` | through `OverlayRunProofs` |
| `OverlayRun`, `MCOverlay` | cache commands and campaigns over the overlay cache; its instance | `overlay` | `OverlayRunProofs` |
| `Analysis`, `MCAnalysis` | invocations of `analyze pathology`, sidecars, registry; its instance | `analysis` | `AnalysisProofs` |

`ImageRun` and `OverlayRun` instantiate `Campaign`, each under a refinement
mapping of its own: two runtimes, one promise. `OverlayRun` extends
`InstanceCache`, whose entries its commands build, verify and spoil. The
components meet only at outcomes, which are nondeterministic on the using side:
what `ImageStore` does for an instance is `Prepare` in `ImageRun` (ready, disk
full, another exception), the grader is `Grade`, and an agent turn ends clean,
throttled or aborted. Definitions marked "mutated form" are not part of a
model: they are plausible bugs that `PROJECT.json`'s mutants put in the place
of a definition, to show that each property can fail.

### KernelPool

The server is one JavaScript thread, so an action is what runs between two
awaits. `turn` is the request whose promise chain runs; while it is set no
timer, `data`, `close` or request event is handled. A request goes
`runOnce` (-> `mkdtemp`) -> `lookup` (-> `probing`) -> `post` -> `waiting` ->
`resolved` -> `done`, which are the awaits of `runOnce`,
`_getOrSpawnKernel`, `_spawnPythonKernel` and `executePythonStateful`;
`Retry` and `Finish` are `executeWithRetry`. `Retire` is what `_killKernel`,
`close` and `error` have in common, `Unregister` its check that the registry
still names this handle. `handle[k]` is the closure and object of one spawned
kernel; `proc[k]` is the process, which runs by itself (`KernelReply`,
`KernelCrash`), is reaped, and closes only when its pipes are drained.
`Raises` is what leaves an attempt before there is a kernel: `mkdtemp` is
rejected, or the probe finds no way to start one.

User code may leave a process that writes to the inherited stdout
(`StartWriter`, `StrayWrite`), also after the kernel itself has gone. What it
writes is then where a length is expected: no number, or the payload is no JSON
(`Garbled`); one write or several that happen to form a whole frame, with a
rest left over in the buffer (`Misread`); or a frame whose payload is `null`,
whose fields the handler reads outside its `try` (`ReadsNull`). That exception
ends the server (`Dies`), as does a write to a process that has exited and was
not reaped (`PostBrokenPipe`), since nothing listens to that stream's `error`.

Abstracted: code and output (a response carries the request it answers and one
of three exit kinds), the length of a timeout (a timer fires whenever it is
armed), how a chunk is split (a chunk is one frame or one stray write).

### SubMcp

One server: the manager keeps servers independent. `status`, `client`,
`crashCount` and `connecting` are its `ServerState`; `proc[a]` is the process
of the a-th attempt to connect; `req[r]` is where `callTool` or `getSchema`
stands. An action is an event with every continuation it releases:
`HandshakeDone` sends all requests that awaited the promise, `Close` runs
`onclose` and then rejects what is pending. The SDK is external: a failed
handshake begins to close its process and does not wait, which is why `closing`
processes overlap with later attempts. A server that is not configured, or a
configuration that cannot be read yet, makes `_getServerConfig` throw outside
the `try` (`NotConfigured`): the status stays "connecting" with no promise
behind it, and only the test for the promise in `_ensureConnected` lets the
next request try again. `closeAll` is left out: only a test calls it. The
client's own 30 s limit ends nothing on the server.

### ImageRun and Campaign

`pc`, `todo`, `slot`, `how` are the locals of the threads of
`_process_problem`; `predictions` and `reports` what the main thread grades and
merges; `rec` the record files; everything else in memory vanishes in `Ends`,
which every exit, exception and crash goes through. `TurnEnds` opens the record
for writing (torn), `WriteRecord` completes it as PENDING, `Judge` decides on
back-off or grading, `Grade` is `grade_predictions` on one (arm, run) group,
and `OpenRecord`, `FlushMeta`, `CloseRecord` are the in-place rewrite of
`_finalize_record` as the file system shows it. `StartFails`, `WriteFails`,
`MergeFails`, `GradeFails` and `Prepare`'s second branch are the exceptions
that leave these steps, `Crash` is the process dying anywhere. `turns`,
`clean`, `said` and `fresh` are history variables.

Every start after the first is taken to be a `--resume` on the same directory,
the way the operator continues a campaign. Threads take problems, and the main
thread groups, in any order: more behaviours than submission order has.
Problems without a statement are skipped by the code and are not in `Problems`.

`Campaign` says what the results directory shows of this: a triple is open or
has a verdict; `Turn` works on an open triple, `Settle` gives a clean one its
verdict, once.

### ImageStore

A thread per instance walks through `ensure_image` (`Begin` to `Write`),
`prepare_instance` (`Base` to `Remove`) and its arms (`StartArm`, `EndArm`).
`record_digest` is three steps, read, truncate and write, because threads share
the file; two writers that overlap may leave text that is not JSON (`torn`),
which reads as an empty manifest. `pull` by digest makes the image present and
moves no tag; `Base` looks for the snapshot, then the local `latest`, then
pulls `latest` from the registry, whose tag `MoveTag` moves. `Kill` is the
process dying: files and images stay. The retries of a pull are one step, too
little disk is a thread leaving, and locals that are not used again are cleared
to keep states few. Steps succeed or fail by their exit codes: `update-ref -d
... || true` hides a ref that was not deleted (`container.py:195-197`), so a
strip is whole as far as the code can tell; and `docker rm -f` is run with
`check=False` (`container.py:246-247`), so a prep container may outlive
`prepare_instance`, as it does when the process is killed or when `docker run`
fails after creating it. Nothing is claimed about containers that are left
over. Manifests and pinned images that the repository came with count as real
(`committed`).

### OverlayRun and InstanceCache

`InstanceCache` has no variables: an entry is a record of what is on disk for
one instance (`cache_paths`): the checkout, the environment at `venv_lower` and
the one at `venv`, how far each has come (`Contents`), which of the two its
scripts name (`home`), and what the lockfile was written about, if it is not
cut off. `Verify` says what `verify_lockfile` may answer.

`OverlayRun` has one command at a time (`cmd`) and a thread per problem
(`job`). `cache setup` walks `Unlock`, `Fetch`, `Fill`, `Lock`, `Write`,
`Rename`, one step per change a kill may separate; `cache clean` is `Remove`
and `EndClean`. The bare repository is `whole`, `none`, or `half` there, cloned
or removed in part by a process that was killed; its `HEAD` is all
`clone_bare_repo` looks at, so every later build of the repository raises
(`FetchFails`). A campaign sets its problems up (`Look` migrates and verifies,
`Purge`, `Refill` and `Relock` rebuild where the environment lies, `Mount`
mounts and strips) and runs their arms: `BeginArm` is the tree's reset, the
environment overlay, the reinstall and the agent's start (`Turn`), or the
exception where one of them must fail; `ArmFails` is any other exception before
the turn, `Install` an agent using pip, `Judge` the test patch, the tests and
the exit, or an exception after the turn, `Remount` the second half of
`_refresh_overlay`. `EndArm` is everything that happens when a triple leaves
`_run_arm`, whichever way. `mounted` and `scratch` are what a killed arm leaves
behind. `tree` is what the merged view of a problem, or its clone, shows: the
base commit (`pristine`), with an agent's uncommitted edits (`used`), with its
commits (`edited`), or with the commit of the held-out tests and of everything
else that lay there (`tested`). `turns` and `broke` are history variables.
`MaxFaults` counts kills, failed builds, mounts, strips, clones and refreshes,
and exceptions in an arm that its state does not force.

The properties name, as exceptions, what the code does against its comments:

- an agent's work survives the reset once it is committed (`AgentSeesBase`).
  `run.py:277-282` says that `git_reset(repo_dir, "HEAD")` has "discard agent
  edits, clean untracked" semantics, and `run.py:444-450` that holding the
  patch back keeps `tests/test_*.py` invisible to the agent. But
  `apply_test_patch` commits with `git add -A` (`harness.py:1698-1707`), the
  agent's edits along with the tests, and a reset to HEAD undoes no commit, an
  agent's own ones included. Between two arms of an overlay `_refresh_overlay`
  throws all of it away; nothing refreshes a clone, so there the next agent of
  the problem finds an earlier one's fix and the tests. A patch that only adds
  files then commits nothing and raises, one that changes files no longer
  applies;
- after a failed refresh in a pool every overlay is unmounted: innocent arms
  end in an exception, or in a FAIL about no tree ("unearned"), and one of them
  may mount again what nobody will take down (`VerdictIsEarned`,
  `NothingLeaks`);
- when the history cannot be stripped, the overlay stays mounted until the next
  campaign, which unmounts it by its name (`NothingLeaks`);
- the upper layer of a killed arm is mounted again when its triple is run
  again; an environment rebuilt in place names `venv_lower` in its scripts, so
  that pip writes the lower directory; a forced build that is killed after
  `Unlock`, followed by a lazy one, vouches for an agent's packages
  (`ArmStartsClean`).

Limits of the model:

- commands come one at a time (the comment at `run.py:1350-1354` rules
  concurrent ones out), so a checkout made while `cache clean` removes the bare
  repository is not covered;
- an unmount takes effect. The code does not know: `unmount_overlay` ignores
  the result of its lazy fallback (`cache.py:631-646`) and `_teardown_overlay`
  swallows exceptions (`run.py:739-742`). `NothingLeaks` and
  `MountsDoNotStack` say that the code asks for every unmount it owes;
- `pip freeze` reads metadata only: a half-removed environment whose `dist-info`
  is all there matches its lockfile, and would count as whole in `Verify`;
- campaigns are resumed ones with the cache on; a clone, a teardown and a reset
  are one step; `wide` is a pool at least as large as the problems; the
  environment copied when a mount fails leaves nothing behind; a campaign
  without isolation is not started over a stale environment mount; pip writes
  where its scripts' shebang points and nowhere else; a drifted conda
  environment is rebuilt as any other; files that git ignores and the vendored
  patch of cloudpickle are not part of a tree.

### Analysis

One invocation at a time per results directory and `--run-id` (`job[r]`), any
number of directories at the same time. A review is a transcript and an
extractor that matches it, or the transcript in full; `review` says what its
sidecar file holds. `Scan` is discovery, the mechanical stage and triage.
`SemiPool` and `FullPool` submit all reviews of a stage; `TakeUp` is a worker
that starts one and may find its file, `Write`, `Fail` and `Break` the three
ways one ends, `Drained` the end of the pool, where failures are counted. Then
`Load` collects the sidecars and reads the registry, the model is asked, and
`Synthesize` writes what it merged into the registry as it had been read.
`Kill` may cut any file that was being written; `Rewrite` is a campaign that
writes a transcript again, `HandEdit` somebody who breaks or mends
`patterns.json`. `stale` and the job's `raced` are history.

The exceptions the properties name: an existing sidecar of the excerpts counts
as "flagged" even when it cleared the transcript (`semi_mechanical.py:254`,
while the docstring at lines 317-319 says "with non-empty findings"), and any
text is a review in full (`run.py:459`); a registry written by somebody else
between `Load` and `Synthesize` is written over; `--force` over a malformed
registry starts a new one.

Limits: what the extractors match is fixed, and which transcripts rank first is
any choice of the right number; a full review that finds nothing is not told
apart from one that finds something; the mechanical sidecars repair themselves
and are left out; writing a temporary file and replacing the registry is one
step; `--dry-run` writes nothing and is left out; a directory without
transcripts is left by an early return before any stage.

## Runs

`MaxCrashes`, `MaxNoise`, `MaxFaults` and `MaxMoves` bound how often the
environment misbehaves; all other state is finite because the sets are.

| Run | Bounds | What it shows |
|---|---|---|
| `kernel_serial` | 2 requests one after the other, 1 directory or a temporary one, 4 kernels, 1 crash, 1 stray write | type; every usable kernel is registered; the reset notice is never false |
| `kernel_concurrent` | 2 concurrent requests on one directory, 4 kernels, 1 crash, no stray write, exit 0 and 137 | no resolver is dropped, timers guard their own call, the registry is live, answers are own answers, every request is answered (liveness) |
| `kernel_one_per_cwd` | 2 concurrent requests | **violated**: both pass the registry check before either registers, two live kernels for one directory |
| `kernel_loss_told` | 2 serial requests, 1 crash | **violated**: a kernel that dies between two requests is replaced without a notice (without a crash, an attempt that carries the notice and times out loses it to its retry) |
| `sub_mcp` | 5 requests, 3 faults (7 attempts), configured or not | mutex, exact crash count, nobody forgotten, every request answered (liveness) |
| `sub_mcp_stale_close` | 3 requests, 2 faults | **violated**: the late close of a failed attempt marks the healthy connection as crashed |
| `image_run` | 2 problems x 2 slots, 2 workers, 2 faults | type; verdicts match patches; clean work is judged; a turn is repeated only for a fault; the directory implements `Campaign`; the campaign completes (liveness) |
| `image_transcript` | the same, 1 fault | **violated**: dying inside the rewrite leaves a terminal record with a cut transcript, which `--resume` takes for done |
| `image_store` | 2 instances, 2 digests, 2 workers, the tag moves once | type; pins are of pulled images; snapshots are whole; the arms of an instance share one image |
| `image_digest` | 1 instance, the tag moves once | **violated**: the agent runs on the moved `latest`, its record names the pinned digest |
| `overlay` | 2 problems x 2 (arm, run) pairs, 3 commands, 1 fault, 3 combinations of flags; entries start absent, legacy or spoiled; symmetry | type; what tree and which environment an agent gets; overlays neither stack nor leak; the bare repository outlives its borrowers; verdicts are earned; the directory implements `Campaign` |
| `analysis` | 2 directories, 3 transcripts, 2 extractors, 2 workers, 3 events (invocations, rewrites, edits) | type; a clean exit is a review of all that was flagged; nothing is paid for twice or written over; forced runs judge the transcripts as they are; the registry keeps its patterns and its validity |

Why these bounds are enough to be interesting. Two requests suffice for every
race in the pool, since a handle has at most one pending request and the
registry is per directory; each request spawns at most two kernels (its retry),
so four kernels never run out; a crash and a retry can meet. Stray output is in
`kernel_serial` and, without a bound, in the proofs: the answers it spoils are
those `OwnAnswer` excludes. Five sub-MCP requests cover the four places a
request can be at once, and three faults give the late close of one attempt two
later attempts to meet. In `image_run` two slots per problem make a thread work
on a triple while another waits, two problems make the pool concurrent, and two
faults let a second failure hit the recovery from the first (a crash while a
resumed campaign halts on the rate limit, for example). `Terminal = {"PASS"}`:
the code treats PASS and FAIL alike. In `overlay` three commands let a killed
build be followed by a lazy one and then by a campaign, or a killed campaign by
two more; two problems let the refresh of one fail under the arms of the other;
two pairs give an arm a predecessor whose tree, packages and layers it could
see. Problems and pairs are compared for equality only and there is no
liveness, so symmetry is sound; the three combinations of flags are a pool and
a single thread over isolated environments, and a single thread over shared
ones. In `analysis` three events are a failed or killed invocation, a rewritten
transcript or a broken registry, and an invocation that has to live with it;
the second directory has one transcript, and the constraint `Few` keeps its
invocations to unforced ones of all stages or of the synthesis: it is there to
write the registry at the same time. One pattern is enough, since a merge
treats each by itself. `CHECK_DEADLOCK FALSE` everywhere: finished requests, a
dead server, a completed campaign, an idle store, an operator without commands
left and an ended analysis are ends.

Each finding is quoted and explained in `PROJECT.json` beside its run.

## Fairness

- `KernelPool`: the event loop runs a ready continuation, a finished probe or
  `mkdtemp`, an expired timer and a queued `error`. Nothing is assumed of user
  code, kernels, or `data` and `close` events: the timer is what must save a
  request, which is how the code is meant to work.
- `SubMcp`: the backoff timer and the SDK's limits on a handshake and on a
  request fire. A process may live or take to close for ever.
- `ImageRun`: a runnable thread runs, the main thread proceeds, and an operator
  restarts the program while something is left to do. Faults are finite
  (`MaxFaults`), never forced. Weak fairness is enough: what a step waits
  for (a free worker) is taken away by others only finitely often.
- `ImageStore`, `OverlayRun` and `Analysis` state no liveness: an agent, a test
  suite, a pip and a model call run as long as they like (only some of them
  have a time limit), and nothing makes an operator repeat a command. What a
  campaign owes in the end is stated where restarts are modelled with fairness,
  in `ImageRun`.

## Proofs

For all values of the constants that satisfy the named assumptions
(`IdentityAssumption`, `BoundAssumption`, `SubMcpAssumption`,
`ImageAssumption`, `StoreAssumption`, `OverlayAssumption`,
`AnalysisAssumption`: sentinels are not members, bounds are naturals, the
campaign's sets are finite, the orchestrator's flags are flags). Each module
proves one inductive invariant (`IInv`, or `SInv`), one lemma per action, and
reads the theorems off it. Every safety property that a passing run checks has
its theorem.

- `KernelPoolProofs`: `TypeCorrect`, `NoneDropped`, `PoolStaysLive`. None of
  the three is inductive. `IInv` adds that an unborn kernel's handle is
  untouched, that a request past its lookup has a directory and a spawned
  kernel, and that the running chain is the only one that is not suspended. No
  assumption about the client: it may be concurrent.
- `KernelAnswerProofs`: `AnswersAreOwn`. An answer is the call's own if only
  the protocol uses the kernel's stdout; the strengthening (`WireIsClean`)
  follows one response from the kernel through the pipe and the buffer to the
  resolver, and says there is never a second one on the way. Then what a step
  may do to a call (`Moves`: its chain runs on, suspends, starts or stops
  waiting): the lemma `StepMoves` says that every step moves at most one call,
  and moves it on. Three theorems use it. `CallsStayDriven`: a call that was
  taken up has its chain running, an await that ends by itself, or a timer
  armed on a live kernel. `TimersAreSafe`: an armed timer is of the call its
  kernel works on, and a call that waits has its timer. `CallsAdvance`: each
  step that changes a call brings it nearer to its answer, over two attempts of
  eight stages. Together they are `EveryCallAnswered` up to fairness: as long
  as the server is up, there is always a step of it that is due, and only
  finitely many are left.
- `KernelSerialProofs`: `NoneOrphaned`, `NoticesAreTrue`,
  `SerialOneKernelPerCwd`, under the assumption that the client awaits each
  answer (`Serial`); `SInv` adds that all calls but one are over or not begun,
  and what the one has found in the registry. For a concurrent client the first
  and the third are false: that is `kernel_one_per_cwd`.
- `SubMcpProofs`: `TypeCorrect`, `MutexHolds`, `CountIsExact`, `NoneForgotten`.
  `IInv` adds that attempts are numbered in the order they are spawned, that
  the client's process is live, and a budget: crash marks are paid for by
  faults or by processes still closing. From the budget, `CountIsBounded`: a
  fault is marked at most twice. `RequestsStayDriven`: a request without an
  answer waits for a backoff, the latest handshake or a live process.
  `CallsAreSentOnce`: what was sent is never sent again, on whatever
  connection.
- `ImageRunProofs`: `TypeCorrect`, `VerdictsMatch`, `CleanIsGraded` and
  `Refines` (`Spec => ImplementsCampaign`). `IInv` says where a triple is: in
  its thread's `todo`, in that thread's hands, among `predictions`, or settled,
  never two of them (`TripleInv`, `GradeInv`); what memory holds when no
  process runs (`DownInv`); and that a clean turn of this invocation is waiting
  for the grader or has its verdict (`FreshInv`). `Refines` maps `TurnEnds` to
  `Turn`, the first step that writes a terminal verdict to `Settle`, all others
  to stuttering. `TurnsBounded` needs more than the count: `TurnsInv` says that
  a triple with a turn more than there were faults is settled or its result is
  still held (`InProgress`), and that once the invocation cannot end with a
  grading pass (`Doomed`) no triple is that far, nor will be after the turn it
  may still get (`MayTurn`). `DoneHolds` is the other half of `CleanIsGraded`:
  a program that returns has passed over nothing. Its `LeftInv` follows what an
  ending pass has left behind, down to the merge.
- `ImageStoreProofs`: `TypeCorrect`, `PinsAreReal`, `SnapshotsAreWhole` and
  `ArmsCompare`, for any number of threads that overwrite each other's
  manifests. A pin is real because every text a writer holds was read from a
  manifest of real pins and extended by one pulled digest. `UnmovedIsRecorded`
  is what is left of the property `image_digest` refutes: as long as no tag has
  moved, what a record names is what ran. Its `StillInv` says that everything
  pinned, pulled, tagged, snapshotted or merged is then what `latest` means.
- `OverlayRunProofs`: all nine properties of the run. `IInv` says where a
  problem stands (`PlaceFits`, `RepoFits`), what a lockfile of each step can
  vouch for (`LockFits`, `EnvironmentFits`), which trees are possible at each
  step (`TreeFits`), that a failed refresh outside a pool ends the invocation
  (`BrokeInPool`), and that what is to be done has no verdict (`TasksFit`).
  `Refines` maps `BeginArm` to `Turn`, an arm that ends with a verdict to
  `Settle`, all else, exceptions included, to stuttering. `TurnsBounded`: a
  triple's turns exceed the faults by one only while it runs or is settled
  (`TurnInv`). An exception after a turn counts as a fault of its own; where
  the tree is gone, the failed refresh that took it has been counted. One
  failed refresh may cost several problems of a pool a turn each, but each only
  once, as an invocation does not come back to a triple; outside a pool one
  problem at a time is beyond waiting (`OneAtATime`), and no other loses a
  turn.
- `Campaign`'s own promises are proved once for each runtime, from its
  refinement: no settled triple has another verdict or another turn
  (`VerdictsAreFinal` in both), and a settled triple has had a turn: the last of
  them clean in `ImageRunProofs` (`VerdictsAreEarned`), and no more than that in
  `OverlayRunProofs` (`VerdictsFollowTurns`), since `run.py` judges every turn
  that ends. The lemma `CampaignKeeps` of each module argues about
  `Campaign` alone.
- `AnalysisProofs`: all eight properties of the run. What an invocation knows
  is stated of its job and its own directory's files (`Local`: each flagged
  transcript is in a pool, answered, shown guilty by the excerpts, or a failure
  was counted), so `Frame` carries it over the steps of other directories;
  what they share is the registry, and `BaseFits` says that the copy an
  invocation holds is the registry unless it was overtaken or forced.

Some theorems state a property that no configuration lists: `CallsAreDriven`,
`CallsOnlyAdvance`, `RequestsAreDriven`, `CrashesAreBounded`, `SentAtMostOnce`,
`DoneIsDone`, `TurnsAreBounded` of `OverlayRun`, the two of `Campaign`, and
`moves = 0 => RanWhatIsRecorded`. They hold on the instances of the runs too,
where TLC checked them before they were proved; no run lists them, since each
follows from a theorem for every size.

Only model-checked: the liveness properties (`EveryCallAnswered`,
`EveryRequestAnswered`, `CampaignCompletes`), which need fairness and
`ENABLED`; and, by their nature, the violations. Of the first two,
`CallsStayDriven`, `CallsAdvance` and `RequestsStayDriven` prove what does not
need fairness.

## Not modelled

The stateless path of the exec-server keeps nothing between calls; its one
hazard, a background process that holds the pipes open, has no bound in the
code, so there is nothing it promises that could be stated. The artifact
benchmark is sequential: one triple after the other, a result file each. What
is hard about it is one piece of state, the scratch directory that no attempt
at a triple empties (`artifact_materialize.py:107`); it is listed as a hazard
and covered by no property. Of the transcript analysis, what the extractors,
the compression and the summary compute from a text is left out. Interceptor,
configuration loading, codebox, specs, statistics and scripts are lookups,
parsing and reports, or run once by hand. How the official grader and the agent
CLI work inside is external: their outcomes are in `ImageRun` and `OverlayRun`.

Most of the repository's implementation lines are of this kind: the graders and
generators of the benchmark's problems alone, each a pure function of files it
is given, are more than half of them. The modelled share is small for that
reason; what is modelled is what runs concurrently, restarts, or keeps state.

That concurrent first pins lose one another in `image_store.py` (`record_digest`
rewrites the manifest without a lock) is in the model, where `PinIsReal` and its
proof hold all the same; that none is lost is not stated.

## Plan

Done, in this order: `KernelPool` and its proofs; `Campaign`, `ImageRun`;
`SubMcp` and its proofs; `ImageStore`; the proofs of `ImageRun`; `InstanceCache`
and `OverlayRun` with their proofs; the proofs of `ImageStore`; `OwnAnswer`,
`NoOrphan` and `NoticeIsTrue` of `KernelPool`; `Analysis` with its proofs; and
the second round of proofs: what drives calls and requests on, bounds on turns
and crash counts, what `Campaign` promises of both runtimes, and under which
condition the refuted properties hold.

What a later stage could add: commands of the overlay runtime that overlap, if
the code comes to allow them; campaigns that restart without `--resume` on a
directory that holds verdicts, once it is documented what a later `--resume`
owes them; the clones of `OverlayRun` in more than one step.
