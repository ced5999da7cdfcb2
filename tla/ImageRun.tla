------------------------------ MODULE ImageRun ------------------------------
(***************************************************************************)
(* The image runtime's orchestrator (swebench/image_run.py): a pool of     *)
(* threads runs the agent over the problems and writes PENDING records,    *)
(* then one thread has them graded and rewrites each record with its       *)
(* verdict.  The process may die at any step; the operator starts it again *)
(* with --resume until every triple has a terminal verdict.                *)
(***************************************************************************)
EXTENDS Naturals, FiniteSets

CONSTANTS
  Problems,    \* the problems with a problem_statement: others are skipped
  Slots,       \* the (arm, run_idx) pairs of the campaign
  NoSlot,
  Workers,     \* agent_max_workers
  HaltOnLimit, \* halt_on_rate_limit
  Terminal,    \* the grader's verdicts on a patch: PASS and FAIL
  MaxFaults    \* bound: crashes, throttled turns, full disks, errors

Triples == Problems \X Slots

ASSUME ImageAssumption ==
  /\ IsFiniteSet(Problems) /\ IsFiniteSet(Slots) /\ NoSlot \notin Slots
  /\ Terminal \cap {"absent", "torn", "PENDING", "ERROR", "none", "open"} = {}
  /\ Workers \in Nat \ {0} /\ HaltOnLimit \in BOOLEAN /\ MaxFaults \in Nat

VARIABLES
  run,         \* what the main thread does
  exit,        \* how the last invocation ended
  pc, todo, slot, how,   \* per problem: the locals of _process_problem
  stop,        \* stop_event
  diskFull, limited, raised,   \* disk_full, rate_limited, a worker's exception
  predictions, \* per triple: the turn whose patch waits to be graded, or 0
  reports,     \* per triple: the verdict to merge, of the group being graded
  writing,     \* the triple whose record _finalize_record rewrites
  rec,         \* the record files
  faults,
  turns, clean, \* history: agent turns so far; the last one may be graded
  said,        \* history: the last verdict the grader gave, and on which turn
  fresh        \* history: triples with a clean turn in this invocation

threads == <<pc, todo, slot, how>>
flags == <<stop, diskFull, limited, raised>>
grading == <<predictions, reports, writing>>
history == <<turns, clean, said, fresh>>
vars == <<run, exit, threads, flags, grading, rec, faults, history>>

-----------------------------------------------------------------------------
\* at: "torn" once the file is truncated; of: the turn whose patch and
\* transcript it holds; whole: the transcript and the verdict line are there.
Records == [at : {"absent", "torn", "PENDING", "ERROR"} \cup Terminal,
            of : Nat, whole : BOOLEAN, throttled : BOOLEAN]

Outcomes == {"none", "clean", "throttled", "aborted"}

TypeOK ==
  /\ run \in {"down", "agents", "grading"}
  /\ exit \in {"none", "done", "raised", "disk", "limit", "crash"}
  /\ pc \in [Problems -> {"queued", "preparing", "looping", "turn", "writing",
                          "judging", "ended"}]
  /\ todo \in [Problems -> SUBSET Slots]
  /\ slot \in [Problems -> Slots \cup {NoSlot}]
  /\ how \in [Problems -> Outcomes]
  /\ stop \in BOOLEAN /\ diskFull \in BOOLEAN
  /\ limited \in BOOLEAN /\ raised \in BOOLEAN
  /\ predictions \in [Triples -> Nat]
  /\ reports \in [Triples -> {"none", "ERROR"} \cup Terminal]
  /\ writing \subseteq Triples
  /\ rec \in [Triples -> Records]
  /\ faults \in Nat
  /\ turns \in [Triples -> Nat] /\ clean \in [Triples -> BOOLEAN]
  /\ said \in [Triples -> Nat \X ({"none", "ERROR"} \cup Terminal)]
  /\ fresh \subseteq Triples

Init ==
  /\ run = "down" /\ exit = "none"
  /\ pc = [p \in Problems |-> "queued"]
  /\ todo = [p \in Problems |-> {}]
  /\ slot = [p \in Problems |-> NoSlot]
  /\ how = [p \in Problems |-> "none"]
  /\ stop = FALSE /\ diskFull = FALSE /\ limited = FALSE /\ raised = FALSE
  /\ predictions = [t \in Triples |-> 0]
  /\ reports = [t \in Triples |-> "none"]
  /\ writing = {}
  /\ rec = [t \in Triples |->
       [at |-> "absent", of |-> 0, whole |-> FALSE, throttled |-> FALSE]]
  /\ faults = 0
  /\ turns = [t \in Triples |-> 0] /\ clean = [t \in Triples |-> FALSE]
  /\ said = [t \in Triples |-> <<0, "none">>] /\ fresh = {}

-----------------------------------------------------------------------------
\* _record_verdict: the meta line parses and its verdict is terminal.
Settled(t) == rec[t].at \in Terminal

\* --resume: the triples of a problem without a terminal verdict.
TodoAll(p) == Slots   \* mutated form: no filter
TodoUnseen(p) == {s \in Slots : rec[<<p, s>>].at = "absent"}   \* mutated form
Todo(p) == {s \in Slots : ~Settled(<<p, s>>)}

Fault(n) == faults + n <= MaxFaults /\ faults' = faults + n

\* The process is gone: what it held in memory is, its files are not.
Ends(x) ==
  /\ run' = "down" /\ exit' = x
  /\ pc' = [p \in Problems |-> "queued"]
  /\ todo' = [p \in Problems |-> {}]
  /\ slot' = [p \in Problems |-> NoSlot]
  /\ how' = [p \in Problems |-> "none"]
  /\ stop' = FALSE /\ diskFull' = FALSE /\ limited' = FALSE /\ raised' = FALSE
  /\ predictions' = [t \in Triples |-> 0]
  /\ reports' = [t \in Triples |-> "none"]
  /\ writing' = {}
  /\ UNCHANGED <<rec, history>>

\* The operator starts the program while there is something left to do.
Start ==
  /\ run = "down"
  /\ exit = "none" \/ \E t \in Triples : ~Settled(t)
  /\ run' = "agents" /\ exit' = "none"
  /\ fresh' = {}
  /\ UNCHANGED <<threads, flags, grading, rec, faults, turns, clean, said>>

-----------------------------------------------------------------------------
(***************************************************************************)
(* The agent pass: _process_problem and run_one_arm, one thread a problem. *)
(***************************************************************************)
Busy == {p \in Problems : pc[p] \notin {"queued", "ended"}}

\* With one worker there is no pool: an exception ends the pass at once.
Abandoned == Workers = 1 /\ raised

Begin(p) ==
  /\ run = "agents" /\ pc[p] = "queued"
  /\ Cardinality(Busy) < Workers /\ ~Abandoned
  /\ LET left == IF stop THEN {} ELSE Todo(p) IN
       /\ todo' = [todo EXCEPT ![p] = left]
       /\ pc' = [pc EXCEPT ![p] = IF left = {} THEN "ended" ELSE "preparing"]
  /\ UNCHANGED <<run, exit, slot, how, flags, grading, rec, faults, history>>

\* ensure_image and prepare_instance: ready, disk full, or another exception.
Prepare(p) ==
  /\ run = "agents" /\ pc[p] = "preparing"
  /\ \/ /\ pc' = [pc EXCEPT ![p] = "looping"]
        /\ UNCHANGED <<flags, faults>>
     \/ /\ Fault(1)
        /\ pc' = [pc EXCEPT ![p] = "ended"]
        /\ \/ diskFull' = TRUE /\ stop' = TRUE /\ UNCHANGED <<limited, raised>>
           \/ raised' = TRUE /\ UNCHANGED <<stop, diskFull, limited>>
  /\ UNCHANGED <<run, exit, todo, slot, how, grading, rec, history>>

\* The loop over todo: stop, or start a container and the agent.
NextArm(p) ==
  /\ run = "agents" /\ pc[p] = "looping"
  /\ \/ /\ stop \/ todo[p] = {}
        /\ pc' = [pc EXCEPT ![p] = "ended"]
        /\ UNCHANGED <<todo, slot>>
     \/ /\ ~stop
        /\ \E s \in todo[p] :
             /\ slot' = [slot EXCEPT ![p] = s]
             /\ todo' = [todo EXCEPT ![p] = @ \ {s}]
        /\ pc' = [pc EXCEPT ![p] = "turn"]
  /\ UNCHANGED <<run, exit, how, flags, grading, rec, faults, history>>

\* The container does not start: an exception before there is any record.
StartFails(p) ==
  /\ run = "agents" /\ pc[p] = "looping"
  /\ ~stop /\ todo[p] # {}
  /\ Fault(1)
  /\ raised' = TRUE
  /\ pc' = [pc EXCEPT ![p] = "ended"]
  /\ UNCHANGED <<run, exit, todo, slot, how, stop, diskFull, limited, grading, rec,
                 history>>

\* The turn is over: its diff is captured, the record is opened for writing.
TurnEnds(p) ==
  LET t == <<p, slot[p]>> IN
  /\ run = "agents" /\ pc[p] = "turn"
  /\ \E o \in {"clean", "throttled", "aborted"} :
       /\ IF o = "clean" THEN UNCHANGED faults ELSE Fault(1)
       /\ how' = [how EXCEPT ![p] = o]
       /\ clean' = [clean EXCEPT ![t] = o = "clean" \/ (o = "throttled" /\ ~HaltOnLimit)]
       /\ fresh' = IF o = "clean" THEN fresh \cup {t} ELSE fresh \ {t}
  /\ turns' = [turns EXCEPT ![t] = @ + 1]
  /\ said' = [said EXCEPT ![t] = <<0, "none">>]
  /\ rec' = [rec EXCEPT ![t] = [at |-> "torn", of |-> 0, whole |-> FALSE, throttled |-> FALSE]]
  /\ pc' = [pc EXCEPT ![p] = "writing"]
  /\ UNCHANGED <<run, exit, todo, slot, flags, grading>>

\* The `finally' of run_one_arm: the PENDING record is complete, an exception
\* of the turn goes on.
WriteRecord(p) ==
  LET t == <<p, slot[p]>> IN
  /\ run = "agents" /\ pc[p] = "writing"
  /\ rec' = [rec EXCEPT ![t] = [at |-> "PENDING", of |-> turns[t], whole |-> TRUE,
                                throttled |-> how[p] = "throttled"]]
  /\ raised' = (raised \/ how[p] = "aborted")
  /\ pc' = [pc EXCEPT ![p] = IF how[p] = "aborted" THEN "ended" ELSE "judging"]
  /\ UNCHANGED <<run, exit, todo, slot, how, stop, diskFull, limited, grading,
                 faults, history>>

\* The write fails: the exception goes on and the record stays torn.
WriteFails(p) ==
  /\ run = "agents" /\ pc[p] = "writing"
  /\ Fault(1)
  /\ raised' = TRUE
  /\ pc' = [pc EXCEPT ![p] = "ended"]
  /\ UNCHANGED <<run, exit, todo, slot, how, stop, diskFull, limited, grading, rec,
                 history>>

\* A throttled turn stops the pass; any other is put up for grading.
BacksOff(t) == HaltOnLimit /\ rec[t].throttled

Judge(p) ==
  LET t == <<p, slot[p]>> IN
  /\ run = "agents" /\ pc[p] = "judging"
  /\ \/ /\ BacksOff(t)
        /\ limited' = TRUE /\ stop' = TRUE
        /\ pc' = [pc EXCEPT ![p] = "ended"]
        /\ UNCHANGED predictions
     \/ /\ ~BacksOff(t)
        /\ predictions' = [predictions EXCEPT ![t] = rec[t].of]
        /\ pc' = [pc EXCEPT ![p] = "looping"]
        /\ UNCHANGED <<stop, limited>>
  /\ UNCHANGED <<run, exit, todo, slot, how, diskFull, raised, reports, writing,
                 rec, faults, history>>

-----------------------------------------------------------------------------
(***************************************************************************)
(* The main thread: drain the pool, grade group by group, merge verdicts.  *)
(***************************************************************************)

\* The pool has drained; an exception or a full disk ends the invocation here.
Drained == Busy = {} /\ (Abandoned \/ \A p \in Problems : pc[p] = "ended")

DrainAndHalt ==   \* mutated form: the rate limit halts before the grading
  /\ run = "agents" /\ Drained
  /\ IF raised \/ diskFull \/ limited
     THEN Ends(IF raised THEN "raised" ELSE IF diskFull THEN "disk" ELSE "limit")
     ELSE run' = "grading" /\ UNCHANGED <<exit, threads, flags, grading, rec, history>>
  /\ UNCHANGED faults

Drain ==
  /\ run = "agents" /\ Drained
  /\ IF raised \/ diskFull
     THEN Ends(IF raised THEN "raised" ELSE "disk")
     ELSE run' = "grading" /\ UNCHANGED <<exit, threads, flags, grading, rec, history>>
  /\ UNCHANGED faults

\* grade_predictions on the group of one slot: a verdict for each, some of
\* them errors, or GradingError for the whole program.
Group(s) == {t \in Triples : t[2] = s /\ predictions[t] # 0}

Grade(s) ==
  /\ run = "grading" /\ Group(s) # {}
  /\ \A t \in Triples : reports[t] = "none"
  /\ \E v \in [Group(s) -> {"ERROR"} \cup Terminal] :
       /\ LET errors == Cardinality({t \in Group(s) : v[t] = "ERROR"}) IN
            IF errors = 0 THEN UNCHANGED faults ELSE Fault(errors)
       /\ reports' = [t \in Triples |-> IF t \in Group(s) THEN v[t] ELSE "none"]
       /\ said' = [t \in Triples |-> IF t \in Group(s) THEN <<predictions[t], v[t]>>
                                     ELSE said[t]]
  /\ UNCHANGED <<run, exit, threads, flags, predictions, writing, rec, turns, clean, fresh>>

GradeFails(s) ==
  /\ run = "grading" /\ Group(s) # {}
  /\ \A t \in Triples : reports[t] = "none"
  /\ Fault(1) /\ Ends("raised")

\* _finalize_record: read the lines, truncate the file ...
OpenAndForget(t) ==   \* mutated form: the report is dropped before its use
  /\ run = "grading" /\ reports[t] # "none" /\ writing = {}
  /\ rec' = [rec EXCEPT ![t].at = "torn"]
  /\ writing' = {t}
  /\ reports' = [reports EXCEPT ![t] = "none"]
  /\ UNCHANGED <<run, exit, threads, flags, predictions, faults, history>>

OpenRecord(t) ==
  /\ run = "grading" /\ reports[t] # "none" /\ writing = {}
  /\ rec' = [rec EXCEPT ![t].at = "torn"]
  /\ writing' = {t}
  /\ UNCHANGED <<run, exit, threads, flags, predictions, reports, faults, history>>

\* ... the first buffer reaches the file, the transcript's rest does not yet ...
FlushMeta(t) ==
  /\ run = "grading" /\ t \in writing /\ rec[t].at = "torn"
  /\ rec' = [rec EXCEPT ![t].at = reports[t], ![t].whole = FALSE]
  /\ UNCHANGED <<run, exit, threads, flags, grading, faults, history>>

\* ... and the file is closed.
CloseAnother(t) ==   \* mutated form: the verdict of another prediction
  /\ run = "grading" /\ t \in writing
  /\ \E o \in Triples : reports[o] # "none" /\
       rec' = [rec EXCEPT ![t].at = reports[o], ![t].whole = TRUE]
  /\ writing' = {}
  /\ reports' = [reports EXCEPT ![t] = "none"]
  /\ predictions' = [predictions EXCEPT ![t] = 0]
  /\ UNCHANGED <<run, exit, threads, flags, faults, history>>

CloseRecord(t) ==
  /\ run = "grading" /\ t \in writing
  /\ rec' = [rec EXCEPT ![t].at = reports[t], ![t].whole = TRUE]
  /\ writing' = {}
  /\ reports' = [reports EXCEPT ![t] = "none"]
  /\ predictions' = [predictions EXCEPT ![t] = 0]
  /\ UNCHANGED <<run, exit, threads, flags, faults, history>>

\* A record cannot be rewritten: the exception ends the program there.
MergeFails ==
  /\ run = "grading" /\ writing # {}
  /\ Fault(1) /\ Ends("raised")

\* Everything captured is graded: return, or raise AccountLimitHalt.
FinishEarly ==   \* mutated form: the first group without predictions ends it
  /\ run = "grading" /\ \E s \in Slots : Group(s) = {}
  /\ Ends(IF limited THEN "limit" ELSE "done")
  /\ UNCHANGED faults

Finish ==
  /\ run = "grading" /\ \A s \in Slots : Group(s) = {}
  /\ Ends(IF limited THEN "limit" ELSE "done")
  /\ UNCHANGED faults

\* The process dies: killed, out of memory, the host reboots.
Crash ==
  /\ run # "down" /\ Fault(1) /\ Ends("crash")

-----------------------------------------------------------------------------
Thread(p) == Begin(p) \/ Prepare(p) \/ NextArm(p) \/ StartFails(p) \/ TurnEnds(p)
             \/ WriteRecord(p) \/ WriteFails(p) \/ Judge(p)
GradeAny == \E s \in Slots : Grade(s) \/ GradeFails(s)
Merge(t) == OpenRecord(t) \/ FlushMeta(t) \/ CloseRecord(t)

Next ==
  \/ Start \/ Drain \/ GradeAny \/ MergeFails \/ Finish \/ Crash
  \/ \E p \in Problems : Thread(p)
  \/ \E t \in Triples : Merge(t)

Spec == Init /\ [][Next]_vars

\* Threads of the pool and the main thread run; the operator starts again.
Fairness ==
  /\ WF_vars(Start) /\ WF_vars(Drain) /\ WF_vars(GradeAny) /\ WF_vars(Finish)
  /\ \A p \in Problems : WF_vars(Thread(p))
  /\ \A t \in Triples : WF_vars(Merge(t))

FairSpec == Spec /\ Fairness

-----------------------------------------------------------------------------
(***************************************************************************)
(* Properties.                                                             *)
(***************************************************************************)

\* What a reader of the results directory sees implements Campaign: across
\* crashes, halts and resumes a settled triple is never run or graded again,
\* and a turn that was throttled or aborted is never settled.
C == INSTANCE Campaign WITH
       Verdicts <- Terminal, Open <- "open",
       verdict <- [t \in Triples |-> IF Settled(t) THEN rec[t].at ELSE "open"]

ImplementsCampaign == C!Spec

\* A terminal verdict is what the grader said of the patch of the record, and
\* that patch is of the triple's last turn.
VerdictIsOfItsPatch ==
  \A t \in Triples :
    Settled(t) => rec[t].of = turns[t] /\ said[t] = <<rec[t].of, rec[t].at>>

\* "The clean agent work captured so far is graded and committed first": when
\* the program returns or raises AccountLimitHalt, every clean turn of the
\* invocation has been judged by the grader, on a complete record.
CleanWorkIsGraded ==
  run = "down" /\ exit \in {"limit", "done"} =>
    \A t \in fresh : rec[t].at \in Terminal \cup {"ERROR"} /\ rec[t].whole

\* "Preserving the transcript lines in between": a record that --resume takes
\* for done, found when no process is running, is complete.
TranscriptIsKept ==
  \A t \in Triples : run = "down" /\ Settled(t) => rec[t].whole

\* An agent turn is paid for: over all restarts a triple's turn is repeated at
\* most once for each thing that went wrong, never because a verdict that was
\* due was not merged.
TurnsAreBounded == \A t \in Triples : turns[t] <= faults + 1

\* A program that returns, rather than raises, has passed over nothing: for
\* every triple of the campaign the grader has spoken, now or earlier.
DoneIsDone ==
  run = "down" /\ exit = "done" =>
    \A t \in Triples : rec[t].at \in Terminal \cup {"ERROR"}

\* With finitely many faults and an operator who resumes, every triple gets a
\* terminal verdict and the program returns.
CampaignCompletes == <>[](run = "down" /\ \A t \in Triples : Settled(t))

=============================================================================
