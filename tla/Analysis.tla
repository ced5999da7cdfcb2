------------------------------ MODULE Analysis ------------------------------
(***************************************************************************)
(* `analyze pathology' (swebench/analyze/): the transcripts of a results   *)
(* directory are ranked, those an extractor matches are reviewed on their  *)
(* excerpts, the ranked ones no extractor flagged are reviewed in full, and *)
(* what the reviews found is merged into the one registry of patterns the  *)
(* repository has.  Reviews are calls of a model, run by a thread pool, and *)
(* are kept as sidecar files.  An invocation may fail or be killed; it is   *)
(* repeated with the same --run-id.  Invocations on other directories run  *)
(* at the same time and write the same registry.                           *)
(***************************************************************************)
EXTENDS Naturals, FiniteSets

CONSTANTS
  Roots,       \* results directories, each analysed under one --run-id
  Logs, Home,  \* transcripts, and the directory of each
  Extractors, Matches,  \* <<log, extractor>>: the filter finds an excerpt
  Patterns,    \* candidate ids
  None,
  Workers,     \* --concurrency
  TopShare,    \* 1 / TRIAGE_TOP_PERCENTILE
  MaxEvents    \* bound: what operators do, invocations, rewrites and edits

ASSUME AnalysisAssumption ==
  /\ IsFiniteSet(Logs) /\ Home \in [Logs -> Roots]
  /\ Matches \subseteq Logs \X Extractors /\ IsFiniteSet(Matches)
  /\ "full" \notin Extractors
  /\ None \notin Roots \cup {"committed"}
  /\ Workers \in Nat \ {0} /\ TopShare \in Nat \ {0} /\ MaxEvents \in Nat

VARIABLES
  review,    \* per review: its sidecar
  stale,     \* history: sidecars older than their transcript
  registry,  \* patterns.json
  job,       \* per directory: the last invocation on it
  events     \* counts towards MaxEvents

vars == <<review, stale, registry, job, events>>

Full(l) == <<l, "full">>
Reviews == Matches \cup {Full(l) : l \in Logs}
\* "junk" is a file that is cut off, not JSON, or not of the schema.
Sidecars == {"none", "junk", "clear", "found"}
Stages == {"mechanical", "semi-mechanical", "subagents", "synthesize", "all"}

\* Who described each pattern of a registry.
Vocabulary == [Patterns -> Roots \cup {"committed", None}]
Blank == [x \in Patterns |-> None]

\* "bad": load_patterns names the error; "keyless": validate raises, because an
\* entry has no id.  What a repair of the file restores is kept in `has'.
Files == [is : {"absent", "valid", "bad", "keyless"}, has : Vocabulary]

Jobs == [at : {"off", "scan", "semi", "sub", "load", "ask", "clean"},
         stage : Stages, force : BOOLEAN,
         flagged : SUBSET Logs,             \* by triage
         todo : SUBSET Reviews, busy : SUBSET Reviews,  \* of the running pool
         skip : SUBSET Logs,                \* semi_matched
         cached : SUBSET Reviews,           \* answered by the file on disk
         failed : BOOLEAN,                  \* stage 2 counted a failure, or a worker raised
         seen : SUBSET Reviews,             \* outputs, as collected
         base : Vocabulary, blank : BOOLEAN,  \* existing; for want of a valid one
         raced : BOOLEAN]  \* history: the registry was written since it was read

Off == [at |-> "off", stage |-> "all", force |-> FALSE, flagged |-> {},
        todo |-> {}, busy |-> {}, skip |-> {}, cached |-> {},
        failed |-> FALSE,
        seen |-> {}, base |-> Blank, blank |-> FALSE, raced |-> FALSE]

TypeOK ==
  /\ review \in [Reviews -> Sidecars] /\ stale \subseteq Reviews
  /\ registry \in Files /\ job \in [Roots -> Jobs] /\ events \in 0..MaxEvents

Init ==
  /\ stale = {}
  /\ review = [t \in Reviews |-> "none"]
  /\ \/ \E has \in [Patterns -> {"committed", None}] : registry = [is |-> "valid", has |-> has]
     \/ registry = [is |-> "absent", has |-> Blank]
  /\ job = [r \in Roots |-> Off] /\ events = 0

-----------------------------------------------------------------------------
At(r, l) == job[r].at = l
Becomes(r, j) == job' = [job EXCEPT ![r] = j]
Happens == events < MaxEvents /\ events' = events + 1
Ended(r) == job[r].at \in {"off", "clean"}

\* Exit 1, an exception or a signal; and exit 0, with what it vouches for if it
\* was to reach the registry.
Quits(r) == Becomes(r, Off)
Vouched(j) == [Off EXCEPT !.at = "clean", !.stage = j.stage, !.force = j.force,
                          !.flagged = j.flagged, !.cached = j.cached, !.seen = j.seen]

Transcripts(r) == {l \in Logs : Home[l] = r}
Own(r) == {t \in Reviews : Home[t[1]] = r}

\* The file exists, and --force does not ask for another.
CachedAlways(r, t) == review[t] # "none"   \* mutated form: --force is not looked at
CachedNever(r, t) == FALSE                 \* mutated form: nothing is resumed
Cached(r, t) == review[t] # "none" /\ ~job[r].force

Start(r) ==
  /\ Happens
  /\ Ended(r)
  /\ \E stage \in Stages, force \in BOOLEAN :
       Becomes(r, [Off EXCEPT !.at = "scan", !.stage = stage, !.force = force])
  /\ UNCHANGED <<review, stale, registry>>

\* round(n * TRIAGE_TOP_PERCENTILE), at least 1.
Cutoff(n) ==
  LET near == (n + TopShare \div 2) \div TopShare
  IN  IF n = 0 \/ near > 0 THEN near ELSE 1

\* The stage after triage; a pool starts with all its reviews submitted.
SemiPool(r, j) == [j EXCEPT !.at = "semi", !.todo = Own(r) \cap Matches]
FullPoolOfAll(j) ==   \* mutated form: semi_matched is not taken out
  [j EXCEPT !.at = "sub", !.skip = {}, !.todo = {Full(l) : l \in j.flagged}]
FullPool(j) ==
  [j EXCEPT !.at = "sub", !.skip = {}, !.todo = {Full(l) : l \in j.flagged \ j.skip}]

\* _discover_logs, _stage_mechanical and triage.  Which transcripts rank first
\* depends on turns, costs and missing counterparts: any may.
Scan(r) ==
  /\ At(r, "scan")
  /\ IF job[r].stage = "synthesize"
       THEN Becomes(r, [job[r] EXCEPT !.at = "load"])
     ELSE \E top \in SUBSET Transcripts(r) :
       LET j == [job[r] EXCEPT !.flagged = top]
       IN  /\ Cardinality(top) = Cutoff(Cardinality(Transcripts(r)))
           /\ Becomes(r, CASE j.stage \in {"all", "semi-mechanical"} -> SemiPool(r, j)
                           [] j.stage = "subagents" -> FullPool(j)
                           [] OTHER -> Off)
  /\ UNCHANGED <<review, stale, registry, events>>

\* A Codex transcript, an unreadable file, or no claude binary on the path.
Raise(r) ==
  /\ job[r].at \in {"scan", "load"}
  /\ Quits(r)
  /\ UNCHANGED <<review, stale, registry, events>>

-----------------------------------------------------------------------------
(* _run_one and _process_one in the pool of their stage. *)
Pooled(r) == job[r].at \in {"semi", "sub"}

\* Any file on disk, whatever is in it, counts: as flagged, or as reviewed.
TakeUp(r, t) ==
  /\ Pooled(r) /\ t \in job[r].todo /\ Cardinality(job[r].busy) < Workers
  /\ Becomes(r, IF Cached(r, t)
       THEN [job[r] EXCEPT !.todo = @ \ {t}, !.cached = @ \cup {t},
                           !.skip = IF At(r, "semi") THEN @ \cup {t[1]} ELSE @]
       ELSE [job[r] EXCEPT !.todo = @ \ {t}, !.busy = @ \cup {t}])
  /\ UNCHANGED <<review, stale, registry, events>>

\* The reply is good and the sidecar is written.  A review in full writes
\* whatever the model printed, and is valid or not; one of excerpts is parsed
\* and validated first, and flags the transcript or not.
Write(r, t, found) ==
  /\ Pooled(r) /\ t \in job[r].busy
  /\ found \in IF At(r, "semi") THEN {"clear", "found"} ELSE {"junk", "found"}
  /\ review' = [review EXCEPT ![t] = found]
  /\ stale' = stale \ {t}
  /\ Becomes(r, [job[r] EXCEPT !.busy = @ \ {t},
       !.skip = IF At(r, "semi") /\ found = "found" THEN @ \cup {t[1]} ELSE @])
  /\ UNCHANGED <<registry, events>>

CountsNothing(r) == FALSE   \* mutated form: a failed review in full is only reported
Counts(r) == At(r, "sub")

\* The model exits with an error, or the reply to excerpts is of no use.  What
\* an earlier review wrote stays.
Fail(r, t) ==
  /\ Pooled(r) /\ t \in job[r].busy
  /\ Becomes(r, [job[r] EXCEPT !.busy = @ \ {t}, !.failed = @ \/ Counts(r)])
  /\ UNCHANGED <<review, stale, registry, events>>

\* An exception of the worker, the disk full as it writes for one.
Break(r, t) ==
  /\ Pooled(r) /\ t \in job[r].busy
  /\ \E cut \in BOOLEAN : review' = IF cut THEN [review EXCEPT ![t] = "junk"] ELSE review
  /\ Becomes(r, [job[r] EXCEPT !.busy = @ \ {t}, !.failed = TRUE])
  /\ UNCHANGED <<stale, registry, events>>

\* The pool has drained, also after an exception: what was submitted has run.
Drained(r) ==
  /\ Pooled(r) /\ job[r].todo = {} /\ job[r].busy = {}
  /\ LET j == job[r]
     IN  Becomes(r, CASE j.failed \/ j.stage # "all" -> Off
                      [] OTHER -> IF At(r, "semi") THEN FullPool(j) ELSE [j EXCEPT !.at = "load"])
  /\ UNCHANGED <<review, stale, registry, events>>

-----------------------------------------------------------------------------
(* _stage_synthesize *)
Valid(t) == review[t] \in {"clear", "found"}
CollectedInFull(r) ==   \* mutated form: only the directory of stage 2 is read
  {t \in Own(r) : Valid(t) /\ t \notin Matches}
Collected(r) == {t \in Own(r) : Valid(t)}

RefusesKeyless(r) == registry.is = "keyless"   \* mutated form: --force is implied
Refuses(r) == registry.is = "keyless" \/ (registry.is = "bad" /\ ~job[r].force)

\* _collect_subagent_outputs, then load_patterns.
Load(r) ==
  /\ At(r, "load")
  /\ LET j == [job[r] EXCEPT !.seen = Collected(r),
                 !.base = IF registry.is = "valid" THEN registry.has ELSE Blank,
                 !.blank = registry.is = "bad"]
     IN  Becomes(r, CASE Refuses(r) -> Off
                      [] ~Refuses(r) /\ j.seen = {} -> Vouched(j)
                      [] OTHER -> [j EXCEPT !.at = "ask"])
  /\ UNCHANGED <<review, stale, registry, events>>

\* registry.merge: known ids keep their description.
MergeAnew(base, found, r) == [x \in found |-> r]   \* mutated form: what was known is dropped
MergeOver(base, found, r) ==   \* mutated form: the last description wins
  [x \in Patterns |-> IF x \in found THEN r ELSE base[x]]
Merge(base, found, r) ==
  [x \in Patterns |-> IF base[x] = None /\ x \in found THEN r ELSE base[x]]

\* Whoever is between its read and its write has read an older registry.
Overtaken(r) ==
  [q \in Roots |-> IF q # r /\ At(q, "ask") THEN [job[q] EXCEPT !.raced = TRUE] ELSE job[q]]

\* The reply is merged into the registry as it was read; what validates (an id
\* may not be a slug) replaces the file at once.
Synthesize(r) ==
  /\ At(r, "ask")
  /\ \E found \in SUBSET Patterns, is \in {"valid", "bad"} :
       LET merged == [is |-> is, has |-> Merge(job[r].base, found, r)]
       IN  merged.is = "valid" /\ registry' = merged
  /\ job' = [Overtaken(r) EXCEPT ![r] = Vouched(@)]
  /\ UNCHANGED <<review, stale, events>>

\* The model exits with an error, its reply is not JSON or has no findings, or
\* the merged registry does not validate.
SynthesisFails(r) ==
  /\ At(r, "ask")
  /\ Quits(r)
  /\ UNCHANGED <<review, stale, registry, events>>

-----------------------------------------------------------------------------
(* Around the program. *)

\* The process is killed; a sidecar that was being written is cut off.
Kill(r) ==
  /\ ~Ended(r)
  /\ \E cut \in SUBSET job[r].busy :
       review' = [t \in Reviews |-> IF t \in cut THEN "junk" ELSE review[t]]
  /\ Quits(r)
  /\ UNCHANGED <<stale, registry, events>>

\* A campaign writes a transcript again, between two invocations: what the last
\* one reported is then of no account.
Rewrite(l) ==
  /\ Happens
  /\ Ended(Home[l])
  /\ stale' = stale \cup {t \in Reviews : t[1] = l /\ review[t] # "none"}
  /\ Becomes(Home[l], Off)
  /\ UNCHANGED <<review, registry>>

\* Somebody edits or merges patterns.json, and mends it.
HandEdit ==
  /\ Happens
  /\ \/ registry.is = "valid" /\ registry' \in {[registry EXCEPT !.is = is] : is \in {"bad", "keyless"}}
     \/ registry.is \in {"bad", "keyless"} /\ registry' = [registry EXCEPT !.is = "valid"]
  /\ job' = [q \in Roots |-> IF At(q, "ask") THEN [job[q] EXCEPT !.raced = TRUE] ELSE job[q]]
  /\ UNCHANGED <<review, stale>>

Worker(r) ==
  \/ \E t \in job[r].todo : TakeUp(r, t)
  \/ \E t \in job[r].busy : Fail(r, t) \/ Break(r, t) \/ \E found \in Sidecars : Write(r, t, found)

Invocation(r) ==
  \/ Start(r) \/ Scan(r) \/ Raise(r) \/ Worker(r) \/ Drained(r)
  \/ Load(r) \/ Synthesize(r) \/ SynthesisFails(r) \/ Kill(r)

Next ==
  \/ \E r \in Roots : Invocation(r)
  \/ \E l \in Logs : Rewrite(l)
  \/ HandEdit

Spec == Init /\ [][Next]_vars

-----------------------------------------------------------------------------
(* An invocation of all stages that exits 0 leaves none of the flagged       *)
(* transcripts without a review that found or cleared it, except where the   *)
(* code takes a file on trust: a reply to a full review that is not a review, *)
(* or a file an earlier invocation left for the excerpts, whatever is in it.  *)
Reviewed(l) == Valid(Full(l)) \/ \E t \in Matches : t[1] = l /\ review[t] = "found"

TakenOnTrust(r, l) ==
  review[Full(l)] = "junk" \/ \E t \in job[r].cached \cap Matches : t[1] = l

CleanExitIsReviewed ==
  \A r \in Roots : At(r, "clean") /\ job[r].stage = "all" =>
    \A l \in job[r].flagged : Reviewed(l) \/ TakenOnTrust(r, l)

\* Stage 2 reviews in full no transcript that the excerpts have shown guilty in
\* this invocation or an earlier one: what they paid for replaces it.  (Under
\* --force a failed review of excerpts leaves the older file, and both count.)
SupersededIsSkipped ==
  \A r \in Roots : At(r, "sub") /\ job[r].stage = "all" /\ ~job[r].force =>
    \A t \in job[r].todo \cup job[r].busy, u \in Matches :
      u[1] = t[1] => review[u] \notin {"found", "junk"}

\* The synthesizer, and with it the registry, is shown every valid review of the
\* directory: no stage-2 worker finishes after the sidecars were collected.
FindingsReachSynthesis ==
  \A r \in Roots :
    job[r].at \in {"ask", "clean"} => job[r].seen = {t \in Own(r) : Valid(t)}

\* After a forced invocation of all stages that exits 0, every flagged transcript
\* has a verdict or a reply no older than the transcript: a cached file, or a
\* review that failed over one, never stands in for it.
ForcedIsFresh ==
  \A r \in Roots : At(r, "clean") /\ job[r].stage = "all" /\ job[r].force =>
    \A l \in job[r].flagged :
      \E t \in Reviews \ stale : t[1] = l /\ review[t] \in (IF t = Full(l) THEN Sidecars \ {"none"} ELSE {"found"})

\* Without --force nothing that was paid for is touched again, by a second
\* invocation, a failure, an exception or a kill in the middle of a write.
PaidWorkIsKept ==
  [][\A t \in Reviews : review[t] # "none" /\ ~job[Home[t[1]]].force => review'[t] = review[t]]_vars

\* A pattern stays in the registry under its first description.  The exceptions
\* are an invocation that another one, or a hand, overtook between its read and
\* its write, and a forced one that found no valid registry.
Lossy(r) == At(r, "ask") /\ (job[r].raced \/ (job[r].blank /\ job[r].force))

RegistryGrows ==
  [][(\A x \in Patterns : registry.has[x] # None => registry'.has[x] = registry.has[x])
     \/ \E r \in Roots : Lossy(r) /\ job'[r].at = "clean"]_vars

\* What the program writes is valid whatever the model replied, and it replaces
\* a malformed registry only when forced to or overtaken by the edit.
RegistryIsRespected ==
  [][\A r \in Roots : At(r, "ask") /\ registry' # registry =>
       \/ job'[r].at = "ask"
       \/ registry'.is = "valid" /\ (registry.is \in {"valid", "absent"} \/ Lossy(r))]_vars

=============================================================================
