--------------------------- MODULE AnalysisProofs ---------------------------
(***************************************************************************)
(* Proofs about Analysis, for any directories, transcripts and extractors.  *)
(* What an invocation knows is stated of its job and of the sidecars of its *)
(* own directory only (Local), so that a step of one directory leaves the   *)
(* others' part alone (Frame); what they share is the registry (BaseFits).  *)
(***************************************************************************)
EXTENDS Analysis, TLAPS

\* A full review is done for l, and under --force it is of the transcript as it is.
Answered(j, l, rv, st) ==
  /\ rv[Full(l)] # "none" /\ Full(l) \notin j.todo \cup j.busy
  /\ j.force => Full(l) \notin st

\* A review of excerpts flags l, or the code takes an old file for one that does.
Excerpted(j, l, rv, st) ==
  \E t \in Matches \ (j.todo \cup j.busy) :
    /\ t[1] = l
    /\ \/ rv[t] = "found" /\ (j.force => t \notin st)
       \/ t \in j.cached /\ ~j.force

PoolFits(r, j) ==
  /\ j.flagged \cup j.skip \subseteq Transcripts(r)
  /\ j.at = "semi" => j.todo \cup j.busy \subseteq Own(r) \cap Matches
  /\ j.at = "sub" => j.todo \cup j.busy \subseteq {Full(l) : l \in j.flagged}
  /\ j.at \notin {"semi", "sub"} => j.todo = {} /\ j.busy = {}
  /\ j.at = "scan" => j.skip = {}
  /\ j.todo \cap j.busy = {}

PaidFits(j, rv) == ~j.force => \A t \in j.busy : rv[t] = "none"

SkipFits(j, rv, st) == j.at = "semi" => \A l \in j.skip : Excerpted(j, l, rv, st)

ClearFits(r, j, rv) ==
  j.at = "semi" /\ ~j.force /\ ~j.failed =>
    \A t \in Own(r) \cap Matches :
      t \in j.todo \cup j.busy \/ rv[t] \in {"none", "clear"} \/ t[1] \in j.skip

FullFits(j, rv, st) ==
  j.at = "sub" /\ j.stage = "all" =>
    \A l \in j.flagged :
      j.failed \/ Full(l) \in j.todo \cup j.busy \/ Answered(j, l, rv, st) \/ Excerpted(j, l, rv, st)

SkippedFits(j, rv) ==
  j.at = "sub" /\ j.stage = "all" /\ ~j.force =>
    \A t \in j.todo \cup j.busy, u \in Matches : u[1] = t[1] => rv[u] \notin {"found", "junk"}

AccountFits(j, rv, st) ==
  j.at \in {"load", "ask", "clean"} /\ j.stage = "all" =>
    \A l \in j.flagged : Answered(j, l, rv, st) \/ Excerpted(j, l, rv, st)

SeenFits(r, j, rv) ==
  j.at \in {"ask", "clean"} => j.seen = {t \in Own(r) : rv[t] \in {"clear", "found"}}

Local(r, j, rv, st) ==
  /\ PoolFits(r, j) /\ PaidFits(j, rv) /\ SkipFits(j, rv, st) /\ ClearFits(r, j, rv)
  /\ FullFits(j, rv, st) /\ SkippedFits(j, rv) /\ AccountFits(j, rv, st) /\ SeenFits(r, j, rv)

\* What an invocation merges into is the registry, unless it was overtaken.
BaseFits(j, reg) ==
  j.at = "ask" /\ ~j.raced =>
    \/ j.blank /\ j.force
    \/ j.base = reg.has /\ reg.is \in {"valid", "absent"}

IInv ==
  /\ TypeOK
  /\ registry.is = "absent" => registry.has = Blank
  /\ \A r \in Roots : Local(r, job[r], review, stale)
  /\ \A r \in Roots : BaseFits(job[r], registry)

-----------------------------------------------------------------------------
(* What the steps do to types, and what they leave to others. *)

LEMMA BlankIsVocabulary == Blank \in Vocabulary
BY DEF Blank, Vocabulary

LEMMA OffIsJob == Off \in Jobs
BY BlankIsVocabulary DEF Off, Jobs, Stages

\* A full review is of no extractor.
LEMMA FullIsApart ==
  /\ \A l \in Logs : Full(l) \in Reviews /\ Full(l) \notin Matches /\ Full(l)[1] = l
  /\ \A t \in Reviews : t[1] \in Logs
  /\ \A l, m \in Logs : Full(l) = Full(m) => l = m
BY AnalysisAssumption DEF Full, Reviews

LEMMA VouchedFields ==
  ASSUME NEW j \in Jobs
  PROVE  LET v == Vouched(j)
         IN  /\ v \in Jobs /\ v.at = "clean" /\ v.stage = j.stage /\ v.force = j.force
             /\ v.flagged = j.flagged /\ v.cached = j.cached /\ v.seen = j.seen
             /\ v.todo = {} /\ v.busy = {} /\ v.skip = {} /\ ~v.failed
BY OffIsJob DEF Vouched, Jobs, Off

LEMMA OffFields == Off.at = "off" /\ Off.todo = {} /\ Off.busy = {} /\ Off.skip = {} /\ Off.flagged = {}
BY DEF Off

\* An ended invocation that vouches for nothing has no part to keep.
LEMMA OffIsLocal ==
  ASSUME NEW r \in Roots, NEW rv, NEW st, NEW reg
  PROVE  Local(r, Off, rv, st) /\ BaseFits(Off, reg)
BY OffIsJob, OffFields DEF Local, PoolFits, PaidFits, SkipFits, ClearFits, FullFits, SkippedFits,
  AccountFits, SeenFits, BaseFits, Jobs

\* A directory's part depends on its own files and on nothing else: not on those
\* of another, nor on whether its invocation was overtaken.
LEMMA Frame ==
  ASSUME NEW r \in Roots, NEW j \in Jobs, NEW rv, NEW st, NEW k \in Jobs, NEW rw, NEW su,
         Local(r, j, rv, st),
         \A t \in Own(r) : rw[t] = rv[t] /\ (t \in su <=> t \in st),
         k.at = j.at, k.stage = j.stage, k.force = j.force, k.flagged = j.flagged,
         k.todo = j.todo, k.busy = j.busy, k.skip = j.skip, k.cached = j.cached,
         k.failed = j.failed, k.seen = j.seen
  PROVE  Local(r, k, rw, su)
<1>1. \A l \in j.flagged : l \in Logs /\ Full(l) \in Own(r)
  BY FullIsApart DEF Local, PoolFits, Own, Transcripts
<1>2. \A t \in Matches, l \in j.flagged : t[1] = l => t \in Own(r)
  BY DEF Local, PoolFits, Own, Transcripts, Reviews
<1>3. j.at \in {"semi", "sub"} => j.todo \cup j.busy \subseteq Own(r)
  BY <1>1 DEF Local, PoolFits
<1>4. \A l \in j.flagged : Answered(j, l, rv, st) => Answered(k, l, rw, su)
  BY <1>1 DEF Answered
<1>5. \A l \in Logs : Home[l] = r /\ Excerpted(j, l, rv, st) => Excerpted(k, l, rw, su)
  BY DEF Excerpted, Own, Reviews
<1>6. PoolFits(r, k) /\ SeenFits(r, k, rw)
  BY DEF Local, PoolFits, SeenFits
<1>7. PaidFits(k, rw) /\ ClearFits(r, k, rw)
  BY <1>3 DEF Local, PaidFits, ClearFits, PoolFits
<1>8. SkippedFits(k, rw)
  <2>1. \A t \in j.todo \cup j.busy, u \in Matches : j.at = "sub" /\ u[1] = t[1] => u \in Own(r)
    BY <1>3 DEF Own, Reviews
  <2> QED
    BY <2>1 DEF Local, SkippedFits
<1>9. FullFits(k, rw, su) /\ AccountFits(k, rw, su)
  BY <1>1, <1>4, <1>5 DEF Local, PoolFits, FullFits, AccountFits, Transcripts
<1>10. SkipFits(k, rw, su)
  BY <1>5 DEF Local, SkipFits, PoolFits, Transcripts
<1> QED
  BY <1>6, <1>7, <1>8, <1>9, <1>10 DEF Local

-----------------------------------------------------------------------------
(* One lemma per step: what it does to the part of its own directory. *)

LEMMA OwnOrOthers ==
  ASSUME NEW r \in Roots, NEW q \in Roots, q # r
  PROVE  Own(r) \cap Own(q) = {}
BY DEF Own

LEMMA StartKeeps ==
  ASSUME NEW r \in Roots, NEW stage \in Stages, NEW force \in BOOLEAN, NEW rv, NEW st, NEW reg
  PROVE  LET j == [Off EXCEPT !.at = "scan", !.stage = stage, !.force = force]
         IN  j \in Jobs /\ Local(r, j, rv, st) /\ BaseFits(j, reg)
<1> DEFINE j == [Off EXCEPT !.at = "scan", !.stage = stage, !.force = force]
<1>1. j \in Jobs /\ j.at = "scan" /\ j.todo = {} /\ j.busy = {} /\ j.skip = {} /\ j.flagged = {}
  BY OffIsJob, OffFields DEF Jobs
<1> HIDE DEF j
<1>2. Local(r, j, rv, st) /\ BaseFits(j, reg)
  BY <1>1 DEF Local, PoolFits, PaidFits, SkipFits, ClearFits, FullFits, SkippedFits,
    AccountFits, SeenFits, BaseFits
<1> QED
  BY <1>1, <1>2 DEF j

\* Triage and the start of the first pool.
LEMMA ScanKeeps ==
  ASSUME IInv, NEW r \in Roots, At(r, "scan"), NEW top \in SUBSET Transcripts(r), NEW k,
         LET j == [job[r] EXCEPT !.flagged = top]
         IN  k = CASE j.stage \in {"all", "semi-mechanical"} -> SemiPool(r, j)
                   [] j.stage = "subagents" -> FullPool(j)
                   [] OTHER -> Off
  PROVE  k \in Jobs /\ Local(r, k, review, stale) /\ BaseFits(k, registry)
<1> DEFINE j == [job[r] EXCEPT !.flagged = top]
<1>1. /\ j \in Jobs /\ job[r].skip = {} /\ j.skip = {} /\ j.flagged = top /\ j.todo = {} /\ j.busy = {}
      /\ j.stage = job[r].stage
  <2>1. job[r] \in Jobs /\ PoolFits(r, job[r]) /\ job[r].at = "scan" /\ top \subseteq Logs
    BY DEF IInv, TypeOK, Local, At, Transcripts
  <2> QED
    BY <2>1 DEF PoolFits, Jobs
<1> HIDE DEF j
<1>2. CASE j.stage \in {"all", "semi-mechanical"}
  <2>1. /\ k \in Jobs /\ k.at = "semi" /\ k.skip = {} /\ k.flagged = top /\ k.busy = {}
        /\ k.todo = Own(r) \cap Matches
    BY <1>1, <1>2 DEF j, SemiPool, Jobs, Own
  <2>2. PoolFits(r, k)
    BY <2>1 DEF PoolFits
  <2> QED
    BY <2>1, <2>2 DEF Local, PaidFits, SkipFits, ClearFits, FullFits, SkippedFits, AccountFits,
      SeenFits, BaseFits
<1>3. CASE j.stage = "subagents"
  <2>1. /\ k.at = "sub" /\ k.skip = {} /\ k.flagged = top /\ k.busy = {}
        /\ k.stage = "subagents" /\ k.todo = {Full(l) : l \in top} /\ k \in Jobs
    <3> DEFINE F == {Full(l) : l \in top}
    <3>1. k = [j EXCEPT !.at = "sub", !.skip = {}, !.todo = F]
      BY <1>1, <1>3 DEF j, FullPool
    <3>2. F \in SUBSET Reviews
      BY FullIsApart DEF Transcripts
    <3> HIDE DEF F
    <3>3. /\ k.at = "sub" /\ k.skip = {} /\ k.flagged = top /\ k.busy = {}
          /\ k.stage = "subagents" /\ k.todo = F /\ k \in Jobs
      BY <1>1, <1>3, <3>1, <3>2 DEF Jobs
    <3> QED
      BY <3>3 DEF F
  <2>2. PoolFits(r, k)
    BY <2>1 DEF PoolFits
  <2> QED
    BY <2>1, <2>2 DEF Local, PaidFits, SkipFits, ClearFits, FullFits, SkippedFits, AccountFits,
      SeenFits, BaseFits
<1>4. CASE j.stage \notin {"all", "semi-mechanical", "subagents"}
  BY <1>4, OffIsLocal, OffIsJob DEF j
<1> QED
  BY <1>2, <1>3, <1>4

\* Where a review of a running pool stands.
LEMMA TaskFits ==
  ASSUME IInv, NEW r \in Roots, Pooled(r), NEW t \in job[r].todo \cup job[r].busy
  PROVE  /\ job[r] \in Jobs /\ Local(r, job[r], review, stale)
         /\ t \in Own(r) /\ t[1] \in Transcripts(r) /\ t[1] \in Logs
         /\ At(r, "semi") => t \in Matches
         /\ At(r, "sub") => t \notin Matches /\ t = Full(t[1]) /\ t[1] \in job[r].flagged
<1>1. job[r] \in Jobs /\ Local(r, job[r], review, stale) /\ PoolFits(r, job[r])
  BY DEF IInv, TypeOK, Local
<1>2. CASE At(r, "semi")
  BY <1>1, <1>2, FullIsApart DEF PoolFits, Own, Transcripts, At
<1>3. CASE At(r, "sub")
  BY <1>1, <1>3, FullIsApart DEF PoolFits, Own, Transcripts, At
<1> QED
  BY <1>1, <1>2, <1>3 DEF Pooled, At

LEMMA TakeUpKeeps ==
  ASSUME IInv, NEW r \in Roots, NEW t \in job[r].todo, Pooled(r), NEW k,
         k = IF Cached(r, t)
             THEN [job[r] EXCEPT !.todo = @ \ {t}, !.cached = @ \cup {t},
                                 !.skip = IF At(r, "semi") THEN @ \cup {t[1]} ELSE @]
             ELSE [job[r] EXCEPT !.todo = @ \ {t}, !.busy = @ \cup {t}]
  PROVE  k \in Jobs /\ Local(r, k, review, stale) /\ BaseFits(k, registry)
<1> DEFINE j == job[r]
<1>1. /\ j \in Jobs /\ Local(r, j, review, stale) /\ j.at \in {"semi", "sub"}
      /\ t \in Own(r) /\ t \in Reviews /\ t[1] \in Transcripts(r) /\ t[1] \in Logs
      /\ j.at = "semi" => t \in Matches
      /\ j.at = "sub" => t = Full(t[1]) /\ t[1] \in j.flagged
  BY TaskFits DEF Pooled, At, Own
<1>2. /\ k \in Jobs /\ k.at = j.at /\ k.stage = j.stage /\ k.force = j.force
      /\ k.flagged = j.flagged /\ k.failed = j.failed
      /\ k.todo = j.todo \ {t}
      /\ Cached(r, t) => /\ k.busy = j.busy /\ k.cached = j.cached \cup {t}
                         /\ k.skip = IF j.at = "semi" THEN j.skip \cup {t[1]} ELSE j.skip
      /\ ~Cached(r, t) => k.busy = j.busy \cup {t} /\ k.skip = j.skip /\ k.cached = j.cached
  BY <1>1 DEF Jobs, At
<1>3. PoolFits(r, j) /\ t \notin j.busy
  BY <1>1 DEF Local, PoolFits
<1> HIDE DEF j
<1>4. Cached(r, t) <=> review[t] # "none" /\ ~j.force
  BY DEF Cached, j
<1>5. PoolFits(r, k) /\ k.todo \cup k.busy \subseteq j.todo \cup j.busy /\ j.cached \subseteq k.cached
  <2> /\ k.todo = j.todo \ {t} /\ (k.busy = j.busy \/ k.busy = j.busy \cup {t})
      /\ t \in j.todo /\ j.todo \cap j.busy = {}
    BY <1>2, <1>3 DEF PoolFits, j
  <2>1. k.todo \cup k.busy \subseteq j.todo \cup j.busy /\ k.todo \cap k.busy = {}
    OBVIOUS
  <2>2. j.cached \subseteq k.cached /\ k.skip \subseteq j.skip \cup {t[1]}
    BY <1>2
  <2>3. PoolFits(r, k)
    BY <1>1, <1>2, <1>3, <2>1, <2>2 DEF PoolFits
  <2> QED
    BY <2>1, <2>2, <2>3
<1>6. PaidFits(k, review)
  <2>1. review[t] = "none" \/ Cached(r, t) \/ j.force
    BY <1>4
  <2> QED
    BY <1>1, <1>2, <2>1 DEF Local, PaidFits
<1>7. \A l \in Logs : Excerpted(j, l, review, stale) => Excerpted(k, l, review, stale)
  BY <1>2, <1>5 DEF Excerpted
<1>8. Cached(r, t) /\ j.at = "semi" => Excerpted(k, t[1], review, stale)
  BY <1>1, <1>2, <1>3, <1>4 DEF Excerpted
<1>9. SkipFits(k, review, stale)
  BY <1>1, <1>2, <1>3, <1>7, <1>8 DEF Local, SkipFits, PoolFits, Transcripts
<1>10. ClearFits(r, k, review)
  BY <1>1, <1>2 DEF Local, ClearFits
<1>11. \A l \in Logs : Answered(j, l, review, stale) => Answered(k, l, review, stale)
  BY <1>2, <1>5 DEF Answered
<1>12. Cached(r, t) /\ j.at = "sub" => Answered(k, t[1], review, stale)
  BY <1>1, <1>2, <1>3, <1>4 DEF Answered
<1>13. FullFits(k, review, stale)
  <2>1. \A l \in j.flagged : l \in Logs
    BY <1>3 DEF PoolFits, Transcripts
  <2>2. \A l \in j.flagged : Full(l) = t => l = t[1]
    BY <2>1, FullIsApart
  <2> QED
    BY <1>1, <1>2, <1>7, <1>11, <1>12, <2>1, <2>2 DEF Local, FullFits
<1>14. SkippedFits(k, review)
  BY <1>1, <1>2, <1>5 DEF Local, SkippedFits
<1>15. AccountFits(k, review, stale) /\ SeenFits(r, k, review) /\ BaseFits(k, registry)
  BY <1>1, <1>2 DEF AccountFits, SeenFits, BaseFits
<1> QED
  BY <1>2, <1>5, <1>6, <1>9, <1>10, <1>13, <1>14, <1>15 DEF Local
\* A review that leaves the pool: what must hold of its file for the part to stay.
LEMMA DoneKeeps ==
  ASSUME IInv, NEW r \in Roots, NEW t \in job[r].busy, Pooled(r), NEW k \in Jobs,
         NEW rw, NEW su,
         \A u \in Reviews \ {t} : rw[u] = review[u] /\ (u \in su <=> u \in stale),
         k.at = job[r].at, k.stage = job[r].stage, k.force = job[r].force,
         k.flagged = job[r].flagged, k.cached = job[r].cached, k.todo = job[r].todo,
         k.busy = job[r].busy \ {t}, job[r].failed => k.failed,
         \/ k.skip = job[r].skip
         \/ /\ k.skip = job[r].skip \cup {t[1]} /\ At(r, "semi")
            /\ rw[t] = "found" /\ t \notin su,
         At(r, "semi") => k.failed \/ k.force \/ rw[t] \in {"none", "clear"} \/ t[1] \in k.skip,
         At(r, "sub") => k.failed \/ (rw[t] # "none" /\ t \notin su)
  PROVE  Local(r, k, rw, su) /\ BaseFits(k, registry)
<1> DEFINE j == job[r]
<1>1. /\ j \in Jobs /\ Local(r, j, review, stale) /\ j.at \in {"semi", "sub"}
      /\ t \in Own(r) /\ t \in Reviews /\ t[1] \in Transcripts(r) /\ t[1] \in Logs
      /\ j.at = "semi" => t \in Matches
      /\ j.at = "sub" => t \notin Matches /\ t = Full(t[1])
  BY TaskFits DEF Pooled, At, Own
<1>2. /\ PoolFits(r, j) /\ t \in j.busy /\ t \notin k.todo \cup k.busy
      /\ k.todo \cup k.busy \subseteq j.todo \cup j.busy
      /\ j.skip \subseteq k.skip
  BY <1>1 DEF Local, PoolFits
<1>3. k.todo \cup k.busy \subseteq Own(r) /\ k.todo \cup k.busy \subseteq Reviews
  <2>1. \A u \in j.todo \cup j.busy : u \in Own(r)
    BY TaskFits
  <2> QED
    BY <1>2, <2>1 DEF Own
<1>4. PoolFits(r, k)
  BY <1>1, <1>2 DEF PoolFits
<1>5. PaidFits(k, rw)
  BY <1>1, <1>3 DEF Local, PaidFits
<1>6. \A l \in Logs : Excerpted(j, l, review, stale) => Excerpted(k, l, rw, su)
  <2> SUFFICES ASSUME NEW l \in Logs, NEW u \in Matches \ (j.todo \cup j.busy), u[1] = l,
                      \/ review[u] = "found" /\ (j.force => u \notin stale)
                      \/ u \in j.cached /\ ~j.force
               PROVE  Excerpted(k, l, rw, su)
    BY DEF Excerpted
  <2>1. u \in Reviews \ {t} /\ u \notin k.todo \cup k.busy
    BY <1>2 DEF Reviews
  <2> QED
    BY <2>1 DEF Excerpted
<1>7. \A l \in Logs : Answered(j, l, review, stale) => Answered(k, l, rw, su)
  BY <1>2, FullIsApart DEF Answered
<1>8. SkipFits(k, rw, su)
  <2>1. rw[t] = "found" /\ t \notin su /\ j.at = "semi" => Excerpted(k, t[1], rw, su)
    BY <1>1, <1>2 DEF Excerpted
  <2> QED
    BY <1>1, <1>2, <1>6, <2>1 DEF Local, SkipFits, PoolFits, Transcripts, At
<1>9. ClearFits(r, k, rw)
  <2> SUFFICES ASSUME k.at = "semi", ~k.force, ~k.failed, NEW u \in Own(r) \cap Matches
               PROVE  u \in k.todo \cup k.busy \/ rw[u] \in {"none", "clear"} \/ u[1] \in k.skip
    BY DEF ClearFits
  <2>1. CASE u = t
    BY <2>1 DEF At
  <2>2. CASE u # t
    BY <1>1, <1>2, <2>2 DEF Local, ClearFits, Own
  <2> QED
    BY <2>1, <2>2
<1>10. FullFits(k, rw, su)
  <2> SUFFICES ASSUME k.at = "sub", k.stage = "all", NEW l \in k.flagged, ~k.failed
               PROVE  \/ Full(l) \in k.todo \cup k.busy \/ Answered(k, l, rw, su)
                      \/ Excerpted(k, l, rw, su)
    BY DEF FullFits
  <2>1. l \in Logs
    BY <1>2 DEF PoolFits, Transcripts
  <2>2. \/ Full(l) \in j.todo \cup j.busy \/ Answered(j, l, review, stale)
        \/ Excerpted(j, l, review, stale)
    BY <1>1 DEF Local, FullFits
  <2>3. CASE Full(l) = t
    BY <1>2, <2>3 DEF Answered, At
  <2> QED
    BY <1>6, <1>7, <2>1, <2>2, <2>3
<1>11. SkippedFits(k, rw)
  <2> SUFFICES ASSUME k.at = "sub", k.stage = "all", ~k.force,
                      NEW u \in k.todo \cup k.busy, NEW w \in Matches, w[1] = u[1]
               PROVE  rw[w] \notin {"found", "junk"}
    BY DEF SkippedFits
  <2>1. w \in Reviews \ {t}
    BY <1>1 DEF Reviews
  <2> QED
    BY <1>1, <1>2, <2>1 DEF Local, SkippedFits
<1>12. AccountFits(k, rw, su) /\ SeenFits(r, k, rw) /\ BaseFits(k, registry)
  BY <1>1 DEF AccountFits, SeenFits, BaseFits
<1> QED
  BY <1>4, <1>5, <1>8, <1>9, <1>10, <1>11, <1>12 DEF Local

LEMMA WriteKeeps ==
  ASSUME IInv, NEW r \in Roots, NEW t \in job[r].busy, NEW found, Write(r, t, found)
  PROVE  /\ review' \in [Reviews -> Sidecars] /\ stale' \subseteq Reviews /\ job'[r] \in Jobs
         /\ Local(r, job'[r], review', stale') /\ BaseFits(job'[r], registry)
<1> DEFINE k == [job[r] EXCEPT !.busy = @ \ {t},
                   !.skip = IF At(r, "semi") /\ found = "found" THEN @ \cup {t[1]} ELSE @]
<1>1. /\ Pooled(r) /\ review' = [review EXCEPT ![t] = found] /\ stale' = stale \ {t}
      /\ job' = [job EXCEPT ![r] = k]
      /\ found \in IF At(r, "semi") THEN {"clear", "found"} ELSE {"junk", "found"}
  BY DEF Write, Becomes
<1>2. /\ job[r] \in Jobs /\ t \in Reviews /\ t[1] \in Logs /\ review \in [Reviews -> Sidecars]
      /\ stale \subseteq Reviews
  BY <1>1, TaskFits DEF IInv, TypeOK, Own
<1>3. job'[r] = k
  BY <1>1 DEF IInv, TypeOK
<1>4. /\ k \in Jobs /\ k.at = job[r].at /\ k.stage = job[r].stage /\ k.force = job[r].force
      /\ k.flagged = job[r].flagged /\ k.cached = job[r].cached /\ k.todo = job[r].todo
      /\ k.busy = job[r].busy \ {t} /\ k.failed = job[r].failed
      /\ k.skip = IF At(r, "semi") /\ found = "found" THEN job[r].skip \cup {t[1]} ELSE job[r].skip
  BY <1>2 DEF Jobs
<1>5. review'[t] = found /\ found \in Sidecars \ {"none"} /\ t \notin stale'
  BY <1>1, <1>2 DEF Sidecars
<1> HIDE DEF k
<1>6. At(r, "semi") => found = "clear" \/ t[1] \in k.skip
  BY <1>1, <1>4
<1>7. \A u \in Reviews \ {t} : review'[u] = review[u] /\ (u \in stale' <=> u \in stale)
  BY <1>1, <1>2
<1>8. /\ job[r].failed => k.failed
      /\ \/ k.skip = job[r].skip
         \/ /\ k.skip = job[r].skip \cup {t[1]} /\ At(r, "semi")
            /\ review'[t] = "found" /\ t \notin stale'
      /\ At(r, "semi") => k.failed \/ k.force \/ review'[t] \in {"none", "clear"} \/ t[1] \in k.skip
      /\ At(r, "sub") => k.failed \/ (review'[t] # "none" /\ t \notin stale')
  BY <1>4, <1>5, <1>6
<1>9. Local(r, k, review', stale') /\ BaseFits(k, registry)
  <2> DEFINE rw == review'
             su == stale'
  <2>1. Pooled(r)
    BY <1>1
  <2> HIDE DEF rw, su
  <2>2. Local(r, k, rw, su) /\ BaseFits(k, registry)
    BY <2>1, <1>4, <1>7, <1>8, DoneKeeps, SMTT(40) DEF rw, su
  <2> QED
    BY <2>2 DEF rw, su
<1> QED
  BY <1>1, <1>2, <1>3, <1>4, <1>5, <1>9

LEMMA FailKeeps ==
  ASSUME IInv, NEW r \in Roots, NEW t \in job[r].busy, Fail(r, t)
  PROVE  job'[r] \in Jobs /\ Local(r, job'[r], review, stale) /\ BaseFits(job'[r], registry)
<1> DEFINE k == [job[r] EXCEPT !.busy = @ \ {t}, !.failed = @ \/ Counts(r)]
<1>1. Pooled(r) /\ job' = [job EXCEPT ![r] = k]
  BY DEF Fail, Becomes
<1>2. job[r] \in Jobs /\ job'[r] = k /\ Local(r, job[r], review, stale)
  BY <1>1, TaskFits DEF IInv, TypeOK
<1>3. Counts(r) \in BOOLEAN /\ (Counts(r) <=> At(r, "sub"))
  BY DEF Counts, At
<1>4. /\ k \in Jobs /\ k.at = job[r].at /\ k.stage = job[r].stage /\ k.force = job[r].force
      /\ k.flagged = job[r].flagged /\ k.cached = job[r].cached /\ k.todo = job[r].todo
      /\ k.busy = job[r].busy \ {t} /\ k.failed = (job[r].failed \/ Counts(r))
      /\ k.skip = job[r].skip
  BY <1>2, <1>3 DEF Jobs
<1> HIDE DEF k
<1>5. k.force \/ review[t] = "none"
  BY <1>2, <1>4 DEF Local, PaidFits
<1>6. Local(r, k, review, stale) /\ BaseFits(k, registry)
  BY <1>1, <1>3, <1>4, <1>5, DoneKeeps
<1> QED
  BY <1>2, <1>4, <1>6

LEMMA BreakKeeps ==
  ASSUME IInv, NEW r \in Roots, NEW t \in job[r].busy, Break(r, t)
  PROVE  /\ review' \in [Reviews -> Sidecars] /\ job'[r] \in Jobs
         /\ Local(r, job'[r], review', stale) /\ BaseFits(job'[r], registry)
<1> DEFINE k == [job[r] EXCEPT !.busy = @ \ {t}, !.failed = TRUE]
<1>1. /\ Pooled(r) /\ job' = [job EXCEPT ![r] = k]
      /\ review' = [review EXCEPT ![t] = "junk"] \/ review' = review
  BY DEF Break, Becomes
<1>2. /\ job[r] \in Jobs /\ job'[r] = k /\ t \in Reviews /\ review \in [Reviews -> Sidecars]
  BY <1>1, TaskFits DEF IInv, TypeOK, Own
<1>3. /\ k \in Jobs /\ k.at = job[r].at /\ k.stage = job[r].stage /\ k.force = job[r].force
      /\ k.flagged = job[r].flagged /\ k.cached = job[r].cached /\ k.todo = job[r].todo
      /\ k.busy = job[r].busy \ {t} /\ k.failed = TRUE /\ k.skip = job[r].skip
  BY <1>2 DEF Jobs
<1> HIDE DEF k
<1>4. review' \in [Reviews -> Sidecars] /\ \A u \in Reviews \ {t} : review'[u] = review[u]
  BY <1>1, <1>2 DEF Sidecars
<1>5. Local(r, k, review', stale) /\ BaseFits(k, registry)
  BY <1>1, <1>3, <1>4, DoneKeeps
<1> QED
  BY <1>2, <1>3, <1>4, <1>5

\* The pool is empty: what was flagged is answered for, or goes to the next pool.
LEMMA DrainedKeeps ==
  ASSUME IInv, NEW r \in Roots, Pooled(r), job[r].todo = {}, job[r].busy = {}, NEW k,
         LET j == job[r]
         IN  k = CASE j.failed \/ j.stage # "all" -> Off
                   [] OTHER -> IF At(r, "semi") THEN FullPool(j) ELSE [j EXCEPT !.at = "load"]
  PROVE  k \in Jobs /\ Local(r, k, review, stale) /\ BaseFits(k, registry)
<1> DEFINE j == job[r]
<1>1. /\ j \in Jobs /\ Local(r, j, review, stale) /\ j.todo = {} /\ j.busy = {}
      /\ PoolFits(r, j) /\ j.at \in {"semi", "sub"}
  BY DEF IInv, TypeOK, Local, Pooled, At
<1>2. CASE j.failed \/ j.stage # "all"
  BY <1>2, OffIsLocal, OffIsJob
<1>3. CASE ~j.failed /\ j.stage = "all" /\ j.at = "semi"
  <2> DEFINE F == {Full(l) : l \in j.flagged \ j.skip}
  <2>1. k = [j EXCEPT !.at = "sub", !.skip = {}, !.todo = F]
    BY <1>3 DEF FullPool, At
  <2>2. /\ j.flagged \subseteq Transcripts(r) /\ j.flagged \subseteq Logs /\ F \in SUBSET Reviews
        /\ F \cap Matches = {}
    <3>1. j.flagged \subseteq Transcripts(r) /\ j.flagged \subseteq Logs
      BY <1>1 DEF PoolFits, Transcripts
    <3> QED
      BY <3>1, FullIsApart
  <2>3. \A l \in j.flagged : l \in j.skip \/ Full(l) \in F
    OBVIOUS
  <2>4. \A t \in F : \E l \in j.flagged \ j.skip : t = Full(l)
    OBVIOUS
  <2> HIDE DEF F
  <2>5. /\ k \in Jobs /\ k.at = "sub" /\ k.skip = {} /\ k.todo = F /\ k.busy = {}
        /\ k.stage = "all" /\ k.force = j.force /\ k.flagged = j.flagged /\ k.cached = j.cached
        /\ k.failed = j.failed
    BY <1>1, <1>3, <2>1, <2>2 DEF Jobs
  <2>6. PoolFits(r, k)
    BY <2>2, <2>4, <2>5 DEF PoolFits
  <2>7. FullFits(k, review, stale)
    <3>1. \A l \in j.skip : Excerpted(j, l, review, stale)
      BY <1>1, <1>3 DEF Local, SkipFits
    <3>2. \A l \in j.skip : Excerpted(k, l, review, stale)
      BY <3>1, <2>2, <2>5 DEF Excerpted
    <3> QED
      BY <2>3, <2>5, <3>2 DEF FullFits
  <2>8. SkippedFits(k, review)
    <3> SUFFICES ASSUME ~j.force, NEW t \in F, NEW u \in Matches, u[1] = t[1]
                 PROVE  review[u] \notin {"found", "junk"}
      BY <2>5 DEF SkippedFits
    <3>1. PICK l \in j.flagged \ j.skip : t = Full(l)
      BY <2>4
    <3>2. u[1] = l /\ Home[l] = r
      BY <2>2, <3>1, FullIsApart DEF Transcripts
    <3>3. u \in Own(r) \cap Matches
      BY <3>2 DEF Own, Reviews
    <3> QED
      BY <1>1, <1>3, <3>1, <3>2, <3>3 DEF Local, ClearFits
  <2> QED
    BY <2>5, <2>6, <2>7, <2>8 DEF Local, PaidFits, SkipFits, ClearFits, AccountFits, SeenFits, BaseFits
<1>4. CASE ~j.failed /\ j.stage = "all" /\ j.at = "sub"
  <2>1. /\ k \in Jobs /\ k.at = "load" /\ k.skip = j.skip /\ k.todo = {} /\ k.busy = {}
        /\ k.stage = "all" /\ k.force = j.force /\ k.flagged = j.flagged /\ k.cached = j.cached
    BY <1>1, <1>4 DEF Jobs, At
  <2>2. PoolFits(r, k)
    BY <1>1, <2>1 DEF PoolFits
  <2>3. \A l \in j.flagged : Answered(j, l, review, stale) => Answered(k, l, review, stale)
    BY <1>1, <2>1 DEF Answered
  <2>4. \A l \in j.flagged : Excerpted(j, l, review, stale) => Excerpted(k, l, review, stale)
    BY <1>1, <2>1 DEF Excerpted
  <2>5. AccountFits(k, review, stale)
    BY <1>1, <1>4, <2>1, <2>3, <2>4 DEF Local, FullFits, AccountFits
  <2> QED
    BY <2>1, <2>2, <2>5 DEF Local, PaidFits, SkipFits, ClearFits, FullFits, SkippedFits, SeenFits,
      BaseFits
<1> QED
  BY <1>1, <1>2, <1>3, <1>4

\* From the load on, the account of what was flagged is carried along.
LEMMA Carried ==
  ASSUME NEW r \in Roots, NEW j, NEW k, NEW rv, NEW st,
         Local(r, j, rv, st), j.at \in {"load", "ask"}, k.at \in {"ask", "clean"},
         k.stage = j.stage, k.force = j.force, k.flagged = j.flagged, k.cached = j.cached,
         k.todo = {}, k.busy = {}, k.skip \subseteq j.skip,
         k.seen = {t \in Own(r) : rv[t] \in {"clear", "found"}}
  PROVE  Local(r, k, rv, st)
<1>1. PoolFits(r, j) /\ j.todo = {} /\ j.busy = {} /\ AccountFits(j, rv, st)
  BY DEF Local, PoolFits
<1>2. PoolFits(r, k)
  BY <1>1 DEF PoolFits
<1>3. \A l \in j.flagged : Answered(j, l, rv, st) => Answered(k, l, rv, st)
  BY <1>1 DEF Answered
<1>4. \A l \in j.flagged : Excerpted(j, l, rv, st) => Excerpted(k, l, rv, st)
  BY <1>1 DEF Excerpted
<1>5. AccountFits(k, rv, st)
  BY <1>1, <1>3, <1>4 DEF AccountFits
<1> QED
  BY <1>2, <1>5 DEF Local, PaidFits, SkipFits, ClearFits, FullFits, SkippedFits, SeenFits

LEMMA LoadKeeps ==
  ASSUME IInv, NEW r \in Roots, At(r, "load"), NEW k,
         LET j == [job[r] EXCEPT !.seen = Collected(r),
                     !.base = IF registry.is = "valid" THEN registry.has ELSE Blank,
                     !.blank = registry.is = "bad"]
         IN  k = CASE Refuses(r) -> Off
                   [] ~Refuses(r) /\ j.seen = {} -> Vouched(j)
                   [] OTHER -> [j EXCEPT !.at = "ask"]
  PROVE  k \in Jobs /\ Local(r, k, review, stale) /\ BaseFits(k, registry)
<1> DEFINE old == IF registry.is = "valid" THEN registry.has ELSE Blank
           C == Collected(r)
           j == [job[r] EXCEPT !.seen = C, !.base = old, !.blank = registry.is = "bad"]
<1>1. /\ C \in SUBSET Reviews /\ old \in Vocabulary /\ (registry.is = "bad") \in BOOLEAN
      /\ C = {t \in Own(r) : review[t] \in {"clear", "found"}}
  BY BlankIsVocabulary DEF IInv, TypeOK, Files, Collected, Own, Valid
<1>2. job[r] \in Jobs /\ Local(r, job[r], review, stale) /\ job[r].at = "load"
      /\ PoolFits(r, job[r])
  BY DEF IInv, TypeOK, At, Local
<1>3. \/ Refuses(r) /\ k = Off
      \/ ~Refuses(r) /\ k = Vouched(j)
      \/ ~Refuses(r) /\ k = [j EXCEPT !.at = "ask"]
  OBVIOUS
<1>4. \/ old = registry.has /\ registry.is \in {"valid", "absent"}
      \/ registry.is = "bad" \/ registry.is = "keyless"
  BY DEF IInv, TypeOK, Files
<1> HIDE DEF old, C
<1>5. /\ j \in Jobs /\ j.stage = job[r].stage /\ j.force = job[r].force
      /\ j.flagged = job[r].flagged /\ j.cached = job[r].cached /\ j.seen = C /\ j.base = old
      /\ j.blank = (registry.is = "bad") /\ j.todo = {} /\ j.busy = {} /\ j.skip = job[r].skip
  BY <1>1, <1>2 DEF Jobs, PoolFits
<1> HIDE DEF j
<1>6. CASE k = Off
  BY <1>6, OffIsLocal, OffIsJob
<1>7. CASE k = Vouched(j)
  <2>1. /\ k \in Jobs /\ k.at = "clean" /\ k.stage = j.stage /\ k.force = j.force
        /\ k.flagged = j.flagged /\ k.cached = j.cached /\ k.seen = j.seen
        /\ k.todo = {} /\ k.busy = {} /\ k.skip = {}
    BY <1>5, <1>7, VouchedFields
  <2>2. Local(r, k, review, stale)
    BY <1>1, <1>2, <1>5, <2>1, Carried
  <2> QED
    BY <2>1, <2>2 DEF BaseFits
<1>8. CASE ~Refuses(r) /\ k = [j EXCEPT !.at = "ask"]
  <2>1. /\ k \in Jobs /\ k.at = "ask" /\ k.stage = j.stage /\ k.force = j.force
        /\ k.flagged = j.flagged /\ k.cached = j.cached /\ k.seen = j.seen /\ k.base = j.base
        /\ k.blank = j.blank /\ k.todo = {} /\ k.busy = {} /\ k.skip = j.skip
    BY <1>5, <1>8 DEF Jobs
  <2>2. Local(r, k, review, stale)
    <3>1. /\ k.stage = job[r].stage /\ k.force = job[r].force /\ k.flagged = job[r].flagged
          /\ k.cached = job[r].cached /\ k.skip \subseteq job[r].skip
          /\ k.seen = {t \in Own(r) : review[t] \in {"clear", "found"}}
      BY <1>1, <1>5, <2>1
    <3> QED
      BY <1>2, <2>1, <3>1, Carried
  <2>3. BaseFits(k, registry)
    BY <1>4, <1>5, <1>8, <2>1 DEF BaseFits, Refuses
  <2> QED
    BY <2>1, <2>2, <2>3
<1> QED
  BY <1>3, <1>6, <1>7, <1>8

-----------------------------------------------------------------------------
(* The parts together: a step of one directory, and the steps they share. *)

LEMMA OneMoves ==
  ASSUME IInv, NEW r \in Roots, NEW k \in Jobs, job' = [job EXCEPT ![r] = k],
         registry' = registry, review' \in [Reviews -> Sidecars], stale' \subseteq Reviews,
         events' \in 0..MaxEvents,
         \A t \in Reviews \ Own(r) : review'[t] = review[t] /\ (t \in stale' <=> t \in stale),
         Local(r, k, review', stale'), BaseFits(k, registry)
  PROVE  IInv'
<1>1. TypeOK'
  BY DEF IInv, TypeOK
<1>2. job'[r] = k /\ \A q \in Roots \ {r} : job'[q] = job[q]
  BY DEF IInv, TypeOK
<1>3. \A q \in Roots : Local(q, job'[q], review', stale')
  <2> SUFFICES ASSUME NEW q \in Roots, q # r
               PROVE  Local(q, job'[q], review', stale')
    BY <1>2
  <2>1. \A t \in Own(q) : review'[t] = review[t] /\ (t \in stale' <=> t \in stale)
    BY OwnOrOthers DEF Own
  <2>2. job[q] \in Jobs /\ Local(q, job[q], review, stale)
    BY DEF IInv, TypeOK
  <2>3. Local(q, job[q], review', stale')
    BY <2>1, <2>2, Frame
  <2> QED
    BY <1>2, <2>3
<1>4. \A q \in Roots : BaseFits(job'[q], registry')
  BY <1>2 DEF IInv
<1> QED
  BY <1>1, <1>3, <1>4 DEF IInv

LEMMA BusyIsOwn == ASSUME IInv, NEW r \in Roots PROVE job[r].busy \subseteq Own(r)
<1>1. CASE Pooled(r)
  BY <1>1, TaskFits
<1>2. CASE ~Pooled(r)
  BY <1>2 DEF IInv, Local, PoolFits, Pooled, At
<1> QED
  BY <1>1, <1>2

\* Every pattern of a merged registry has a description.
LEMMA MergeIsVocabulary ==
  ASSUME NEW base \in Vocabulary, NEW found \in SUBSET Patterns, NEW r \in Roots
  PROVE  Merge(base, found, r) \in Vocabulary
BY DEF Merge, Vocabulary

\* An overtaken invocation knows what it knew.
LEMMA Raced ==
  ASSUME NEW r \in Roots, NEW j \in Jobs, NEW k, k = [j EXCEPT !.raced = TRUE],
         Local(r, j, review, stale), j.at = "ask"
  PROVE  k \in Jobs /\ k.at = "ask" /\ k.raced /\ Local(r, k, review, stale)
<1>1. /\ k \in Jobs /\ k.at = j.at /\ k.stage = j.stage /\ k.force = j.force
      /\ k.flagged = j.flagged /\ k.todo = j.todo /\ k.busy = j.busy /\ k.skip = j.skip
      /\ k.cached = j.cached /\ k.failed = j.failed /\ k.seen = j.seen /\ k.raced = TRUE
  BY DEF Jobs
<1>2. Local(r, k, review, stale)
  BY <1>1, Frame
<1> QED
  BY <1>1, <1>2

LEMMA SynthesizeKeeps == ASSUME IInv, NEW r \in Roots, Synthesize(r) PROVE IInv'
<1> DEFINE o == Overtaken(r)
           k == Vouched(job[r])
<1>1. /\ At(r, "ask") /\ UNCHANGED <<review, stale, events>>
      /\ \E found \in SUBSET Patterns :
           registry' = [is |-> "valid", has |-> Merge(job[r].base, found, r)]
      /\ job' = [o EXCEPT ![r] = Vouched(o[r])]
  BY DEF Synthesize
<1>2. job \in [Roots -> Jobs] /\ Local(r, job[r], review, stale)
  BY DEF IInv, TypeOK
<1>3. \A q \in Roots : o[q] = IF q # r /\ At(q, "ask") THEN [job[q] EXCEPT !.raced = TRUE] ELSE job[q]
  BY DEF Overtaken
<1>4. o = [q \in Roots |-> o[q]]
  BY DEF Overtaken
<1> HIDE DEF o
<1>5. job' = [q \in Roots |-> job'[q]] /\ job'[r] = k /\ \A q \in Roots \ {r} : job'[q] = o[q]
  BY <1>1, <1>3, <1>4
<1>6. registry' \in Files /\ registry'.is = "valid"
  <2>1. PICK found \in SUBSET Patterns :
          registry' = [is |-> "valid", has |-> Merge(job[r].base, found, r)]
    BY <1>1
  <2>2. job[r].base \in Vocabulary
    BY <1>2 DEF Jobs
  <2> QED
    BY <2>1, <2>2, MergeIsVocabulary DEF Files
<1>7. k \in Jobs /\ Local(r, k, review, stale) /\ BaseFits(k, registry')
  <2>1. /\ k \in Jobs /\ k.at = "clean" /\ k.stage = job[r].stage /\ k.force = job[r].force
        /\ k.flagged = job[r].flagged /\ k.cached = job[r].cached /\ k.seen = job[r].seen
        /\ k.todo = {} /\ k.busy = {} /\ k.skip = {}
    BY <1>2, VouchedFields
  <2> HIDE DEF k
  <2>2. job[r].seen = {t \in Own(r) : review[t] \in {"clear", "found"}} /\ job[r].at = "ask"
    BY <1>1, <1>2 DEF Local, SeenFits, At
  <2>3. Local(r, k, review, stale)
    BY <1>2, <2>1, <2>2, Carried
  <2> QED
    BY <2>1, <2>3 DEF BaseFits
<1>8. ASSUME NEW q \in Roots, q # r
      PROVE  job'[q] \in Jobs /\ Local(q, job'[q], review, stale) /\ BaseFits(job'[q], registry')
  <2>1. job[q] \in Jobs /\ Local(q, job[q], review, stale)
    BY <1>2 DEF IInv
  <2>2. CASE At(q, "ask")
    <3>1. job'[q] = [job[q] EXCEPT !.raced = TRUE]
      BY <1>3, <1>5, <1>8, <2>2
    <3>2. job'[q] \in Jobs /\ Local(q, job'[q], review, stale) /\ job'[q].raced
      BY <2>1, <2>2, <3>1, Raced DEF At
    <3> QED
      BY <3>2 DEF BaseFits
  <2>3. CASE ~At(q, "ask")
    <3>1. job'[q] = job[q]
      BY <1>3, <1>5, <1>8, <2>3
    <3> QED
      BY <2>1, <2>3, <3>1 DEF BaseFits, At
  <2> QED
    BY <2>2, <2>3
<1> HIDE DEF k
<1>9. TypeOK'
  BY <1>1, <1>5, <1>6, <1>7, <1>8 DEF IInv, TypeOK
<1> QED
  BY <1>1, <1>5, <1>6, <1>7, <1>8, <1>9 DEF IInv

LEMMA HandEditKeeps == ASSUME IInv, HandEdit PROVE IInv'
<1>1. /\ registry' \in Files /\ registry'.has = registry.has /\ registry'.is # "absent"
      /\ events' \in 0..MaxEvents
      /\ job' = [q \in Roots |-> IF At(q, "ask") THEN [job[q] EXCEPT !.raced = TRUE] ELSE job[q]]
      /\ UNCHANGED <<review, stale>>
  BY AnalysisAssumption DEF HandEdit, IInv, TypeOK, Files, Happens
<1>2. ASSUME NEW q \in Roots
      PROVE  job'[q] \in Jobs /\ Local(q, job'[q], review, stale) /\ BaseFits(job'[q], registry')
  <2>1. job[q] \in Jobs /\ Local(q, job[q], review, stale)
    BY DEF IInv, TypeOK
  <2>2. CASE At(q, "ask")
    <3>1. job'[q] = [job[q] EXCEPT !.raced = TRUE]
      BY <1>1, <2>2
    <3>2. job'[q] \in Jobs /\ Local(q, job'[q], review, stale) /\ job'[q].raced
      BY <2>1, <2>2, <3>1, Raced DEF At
    <3> QED
      BY <3>2 DEF BaseFits
  <2>3. CASE ~At(q, "ask")
    <3>1. job'[q] = job[q]
      BY <1>1, <2>3
    <3> QED
      BY <2>1, <2>3, <3>1 DEF BaseFits, At
  <2> QED
    BY <2>2, <2>3
<1>3. TypeOK'
  BY <1>1, <1>2 DEF IInv, TypeOK
<1> QED
  BY <1>1, <1>2, <1>3 DEF IInv

\* The steps that write no sidecar.
LEMMA JobOnly ==
  ASSUME IInv, NEW r \in Roots, NEW k \in Jobs, Becomes(r, k), UNCHANGED <<review, stale, registry>>,
         events' \in 0..MaxEvents, Local(r, k, review, stale), BaseFits(k, registry)
  PROVE  IInv'
<1>1. review' \in [Reviews -> Sidecars] /\ stale' \subseteq Reviews
  BY DEF IInv, TypeOK
<1>2. Local(r, k, review', stale') /\ \A t \in Reviews : review'[t] = review[t] /\ (t \in stale' <=> t \in stale)
  OBVIOUS
<1> QED
  BY <1>1, <1>2, OneMoves DEF Becomes

LEMMA WorkerKeeps == ASSUME IInv, NEW r \in Roots, Worker(r) PROVE IInv'
<1>1. ASSUME NEW t \in job[r].todo, TakeUp(r, t)
      PROVE  IInv'
  <2> DEFINE k == IF Cached(r, t)
                  THEN [job[r] EXCEPT !.todo = @ \ {t}, !.cached = @ \cup {t},
                                      !.skip = IF At(r, "semi") THEN @ \cup {t[1]} ELSE @]
                  ELSE [job[r] EXCEPT !.todo = @ \ {t}, !.busy = @ \cup {t}]
  <2>1. Pooled(r) /\ Becomes(r, k) /\ UNCHANGED <<review, stale, registry, events>>
    BY <1>1 DEF TakeUp
  <2>2. k \in Jobs /\ Local(r, k, review, stale) /\ BaseFits(k, registry)
    BY <2>1, TakeUpKeeps
  <2>3. events' \in 0..MaxEvents
    BY <2>1 DEF IInv, TypeOK
  <2> HIDE DEF k
  <2> QED
    BY <2>1, <2>2, <2>3, JobOnly
<1>2. ASSUME NEW t \in job[r].busy, NEW found, Write(r, t, found) \/ Fail(r, t) \/ Break(r, t)
      PROVE  IInv'
  <2>1. /\ review' \in [Reviews -> Sidecars] /\ stale' \subseteq Reviews /\ job'[r] \in Jobs
        /\ Local(r, job'[r], review', stale') /\ BaseFits(job'[r], registry)
    <3>1. CASE Write(r, t, found)
      BY <3>1, WriteKeeps
    <3>2. CASE Fail(r, t)
      BY <3>2, FailKeeps DEF Fail, IInv, TypeOK
    <3>3. CASE Break(r, t)
      BY <3>3, BreakKeeps DEF Break, IInv, TypeOK
    <3> QED
      BY <1>2, <3>1, <3>2, <3>3
  <2>2. /\ \A u \in Reviews \ {t} : review'[u] = review[u] /\ (u \in stale' <=> u \in stale)
        /\ registry' = registry /\ events' \in 0..MaxEvents
        /\ job' = [job EXCEPT ![r] = job'[r]]
    BY <1>2 DEF Write, Fail, Break, Becomes, IInv, TypeOK
  <2>3. t \in Own(r)
    BY BusyIsOwn
  <2> QED
    BY <2>1, <2>2, <2>3, OneMoves
<1> QED
  BY <1>1, <1>2 DEF Worker

LEMMA InvocationKeeps == ASSUME IInv, NEW r \in Roots, Invocation(r) PROVE IInv'
<1> USE DEF Happens
<1>0. events' = events => events' \in 0..MaxEvents
  BY DEF IInv, TypeOK
<1>1. CASE Start(r)
  <2>1. PICK stage \in Stages, force \in BOOLEAN :
          Becomes(r, [Off EXCEPT !.at = "scan", !.stage = stage, !.force = force])
    BY <1>1 DEF Start
  <2>2. events' \in 0..MaxEvents /\ UNCHANGED <<review, stale, registry>>
    BY <1>1, AnalysisAssumption DEF Start, IInv, TypeOK
  <2> QED
    BY <2>1, <2>2, StartKeeps, JobOnly
<1>2. CASE Scan(r)
  <2>1. UNCHANGED <<review, stale, registry, events>> /\ At(r, "scan")
    BY <1>2 DEF Scan
  <2>2. CASE job[r].stage = "synthesize"
    <3> DEFINE k == [job[r] EXCEPT !.at = "load"]
    <3>1. Becomes(r, k)
      BY <1>2, <2>2 DEF Scan
    <3>2. job[r] \in Jobs /\ PoolFits(r, job[r]) /\ job[r].at = "scan"
      BY <2>1 DEF IInv, TypeOK, Local, At
    <3>3. /\ k \in Jobs /\ k.at = "load" /\ k.todo = {} /\ k.busy = {} /\ k.skip = {}
          /\ k.flagged = job[r].flagged /\ k.stage = "synthesize"
      BY <2>2, <3>2 DEF Jobs, PoolFits
    <3> HIDE DEF k
    <3>4. Local(r, k, review, stale) /\ BaseFits(k, registry)
      BY <3>2, <3>3 DEF Local, PoolFits, PaidFits, SkipFits, ClearFits, FullFits, SkippedFits,
        AccountFits, SeenFits, BaseFits
    <3> QED
      BY <1>0, <2>1, <3>1, <3>3, <3>4, JobOnly
  <2>3. CASE job[r].stage # "synthesize"
    <3>1. PICK top \in SUBSET Transcripts(r) :
            LET j == [job[r] EXCEPT !.flagged = top]
            IN  Becomes(r, CASE j.stage \in {"all", "semi-mechanical"} -> SemiPool(r, j)
                             [] j.stage = "subagents" -> FullPool(j)
                             [] OTHER -> Off)
      BY <1>2, <2>3 DEF Scan
    <3> DEFINE j == [job[r] EXCEPT !.flagged = top]
               k == CASE j.stage \in {"all", "semi-mechanical"} -> SemiPool(r, j)
                      [] j.stage = "subagents" -> FullPool(j)
                      [] OTHER -> Off
    <3>2. Becomes(r, k)
      BY <3>1
    <3>3. k \in Jobs /\ Local(r, k, review, stale) /\ BaseFits(k, registry)
      BY <2>1, ScanKeeps
    <3> HIDE DEF k
    <3> QED
      BY <1>0, <2>1, <3>2, <3>3, JobOnly
  <2> QED
    BY <2>2, <2>3
<1>3. CASE Raise(r) \/ SynthesisFails(r)
  BY <1>0, <1>3, OffIsJob, OffIsLocal, JobOnly DEF Raise, SynthesisFails, Quits
<1>4. CASE Worker(r)
  BY <1>4, WorkerKeeps
<1>5. CASE Drained(r)
  <2> DEFINE k == CASE job[r].failed \/ job[r].stage # "all" -> Off
                    [] OTHER -> IF At(r, "semi") THEN FullPool(job[r]) ELSE [job[r] EXCEPT !.at = "load"]
  <2>1. /\ Pooled(r) /\ job[r].todo = {} /\ job[r].busy = {} /\ Becomes(r, k)
        /\ UNCHANGED <<review, stale, registry, events>>
    BY <1>5 DEF Drained
  <2>2. k \in Jobs /\ Local(r, k, review, stale) /\ BaseFits(k, registry)
    BY <2>1, DrainedKeeps
  <2> HIDE DEF k
  <2> QED
    BY <1>0, <2>1, <2>2, JobOnly
<1>6. CASE Load(r)
  <2> DEFINE j == [job[r] EXCEPT !.seen = Collected(r),
                     !.base = IF registry.is = "valid" THEN registry.has ELSE Blank,
                     !.blank = registry.is = "bad"]
             k == CASE Refuses(r) -> Off
                    [] ~Refuses(r) /\ j.seen = {} -> Vouched(j)
                    [] OTHER -> [j EXCEPT !.at = "ask"]
  <2>1. At(r, "load") /\ Becomes(r, k) /\ UNCHANGED <<review, stale, registry, events>>
    BY <1>6 DEF Load
  <2>2. k \in Jobs /\ Local(r, k, review, stale) /\ BaseFits(k, registry)
    BY <2>1, LoadKeeps
  <2> HIDE DEF k
  <2> QED
    BY <1>0, <2>1, <2>2, JobOnly
<1>7. CASE Synthesize(r)
  BY <1>7, SynthesizeKeeps
<1>8. CASE Kill(r)
  <2>1. PICK cut \in SUBSET job[r].busy :
          review' = [t \in Reviews |-> IF t \in cut THEN "junk" ELSE review[t]]
    BY <1>8 DEF Kill
  <2>2. job' = [job EXCEPT ![r] = Off] /\ UNCHANGED <<stale, registry, events>>
    BY <1>8 DEF Kill, Quits, Becomes
  <2>3. review' \in [Reviews -> Sidecars] /\ \A t \in Reviews \ Own(r) : review'[t] = review[t]
    BY <2>1, BusyIsOwn DEF IInv, TypeOK, Sidecars
  <2>4. stale' \subseteq Reviews
    BY <2>2 DEF IInv, TypeOK
  <2> QED
    BY <1>0, <2>2, <2>3, <2>4, OffIsJob, OffIsLocal, OneMoves
<1> QED
  BY <1>1, <1>2, <1>3, <1>4, <1>5, <1>6, <1>7, <1>8 DEF Invocation

LEMMA RewriteKeeps == ASSUME IInv, NEW l \in Logs, Rewrite(l) PROVE IInv'
<1>1. Home[l] \in Roots
  BY AnalysisAssumption
<1>2. /\ job' = [job EXCEPT ![Home[l]] = Off] /\ UNCHANGED <<review, registry>>
      /\ stale' = stale \cup {t \in Reviews : t[1] = l /\ review[t] # "none"}
  BY DEF Rewrite, Becomes
<1>3. events' \in 0..MaxEvents /\ review' \in [Reviews -> Sidecars] /\ stale' \subseteq Reviews
  BY <1>2, AnalysisAssumption DEF Rewrite, Happens, IInv, TypeOK
<1>4. \A t \in Reviews \ Own(Home[l]) : t \in stale' <=> t \in stale
  BY <1>2 DEF Own
<1> QED
  BY <1>1, <1>2, <1>3, <1>4, OffIsJob, OffIsLocal, OneMoves

LEMMA Inductive == IInv /\ [Next]_vars => IInv'
<1> SUFFICES ASSUME IInv, [Next]_vars
             PROVE  IInv'
  OBVIOUS
<1>1. CASE \E r \in Roots : Invocation(r)
  BY <1>1, InvocationKeeps
<1>2. CASE \E l \in Logs : Rewrite(l)
  BY <1>2, RewriteKeeps
<1>3. CASE HandEdit
  BY <1>3, HandEditKeeps
<1>4. CASE UNCHANGED vars
  BY <1>4 DEF vars, IInv, TypeOK
<1> QED
  BY <1>1, <1>2, <1>3, <1>4 DEF Next

LEMMA Initially == Init => IInv
<1> SUFFICES ASSUME Init
             PROVE  IInv
  OBVIOUS
<1>1. TypeOK
  BY OffIsJob, BlankIsVocabulary, AnalysisAssumption
     DEF Init, TypeOK, Sidecars, Files, Vocabulary
<1>2. \A r \in Roots : job[r] = Off
  BY DEF Init
<1>3. registry.is = "absent" => registry.has = Blank
  BY DEF Init
<1> QED
  BY <1>1, <1>2, <1>3, OffIsLocal DEF IInv

LEMMA Invariant == Spec => []IInv
BY Initially, Inductive, PTL DEF Spec

-----------------------------------------------------------------------------
(* The theorems: the properties the run checks, for any constants. *)

\* Every variable keeps its type.
THEOREM TypeCorrect == Spec => []TypeOK
<1>1. IInv => TypeOK
  BY DEF IInv
<1> QED
  BY <1>1, Invariant, PTL

\* A clean run of all stages leaves no flagged transcript without a verdict,
\* except by the two files the code takes on trust (FullFits, AccountFits).
THEOREM CleanExit == Spec => []CleanExitIsReviewed
<1>1. IInv => CleanExitIsReviewed
  <2> SUFFICES ASSUME IInv, NEW r \in Roots, At(r, "clean"), job[r].stage = "all",
                      NEW l \in job[r].flagged
               PROVE  Reviewed(l) \/ TakenOnTrust(r, l)
    BY DEF CleanExitIsReviewed
  <2>1. /\ Answered(job[r], l, review, stale) \/ Excerpted(job[r], l, review, stale)
        /\ PoolFits(r, job[r])
    BY DEF IInv, Local, AccountFits, At
  <2>2. Full(l) \in Reviews
    BY <2>1, FullIsApart DEF PoolFits, Transcripts
  <2>3. CASE Answered(job[r], l, review, stale)
    BY <2>2, <2>3 DEF Answered, Reviewed, TakenOnTrust, Valid, IInv, TypeOK, Sidecars
  <2>4. CASE Excerpted(job[r], l, review, stale)
    BY <2>4 DEF Excerpted, Reviewed, TakenOnTrust
  <2> QED
    BY <2>1, <2>3, <2>4
<1> QED
  BY <1>1, Invariant, PTL

\* What the excerpts have shown is not paid for again in full (SkippedFits).
THEOREM Superseded == Spec => []SupersededIsSkipped
<1>1. IInv => SupersededIsSkipped
  BY DEF IInv, Local, SkippedFits, SupersededIsSkipped, At
<1> QED
  BY <1>1, Invariant, PTL

\* No sidecar changes between its collection and the end of its invocation.
THEOREM Findings == Spec => []FindingsReachSynthesis
<1>1. IInv => FindingsReachSynthesis
  BY DEF IInv, Local, SeenFits, FindingsReachSynthesis, Valid
<1> QED
  BY <1>1, Invariant, PTL

\* A forced run that exits 0 has judged the transcripts as they are.
THEOREM Fresh == Spec => []ForcedIsFresh
<1>1. IInv => ForcedIsFresh
  <2> SUFFICES ASSUME IInv, NEW r \in Roots, At(r, "clean"), job[r].stage = "all", job[r].force,
                      NEW l \in job[r].flagged
               PROVE  \E t \in Reviews \ stale :
                        t[1] = l /\ review[t] \in (IF t = Full(l) THEN Sidecars \ {"none"} ELSE {"found"})
    BY DEF ForcedIsFresh
  <2>1. /\ Answered(job[r], l, review, stale) \/ Excerpted(job[r], l, review, stale)
        /\ PoolFits(r, job[r])
    BY DEF IInv, Local, AccountFits, At
  <2>2. Full(l) \in Reviews /\ Full(l) \notin Matches /\ Full(l)[1] = l
    BY <2>1, FullIsApart DEF PoolFits, Transcripts
  <2>3. CASE Answered(job[r], l, review, stale)
    BY <2>2, <2>3 DEF Answered, IInv, TypeOK
  <2>4. CASE Excerpted(job[r], l, review, stale)
    BY <2>2, <2>4 DEF Excerpted, Reviews
  <2> QED
    BY <2>1, <2>3, <2>4
<1> QED
  BY <1>1, Invariant, PTL

\* No step without --force writes over a sidecar: only one under review is
\* written, and it was not there (PaidFits).
THEOREM PaidWork == Spec => PaidWorkIsKept
<1> DEFINE A == \A t \in Reviews :
                  review[t] # "none" /\ ~job[Home[t[1]]].force => review'[t] = review[t]
<1>1. IInv /\ [Next]_vars => [A]_vars
  <2> SUFFICES ASSUME IInv, Next
               PROVE  A
    OBVIOUS
  <2> SUFFICES ASSUME NEW t \in Reviews, review[t] # "none", ~job[Home[t[1]]].force
               PROVE  review'[t] = review[t]
    OBVIOUS
  <2>1. ASSUME NEW r \in Roots PROVE t \notin job[r].busy
    <3> SUFFICES ASSUME t \in job[r].busy
                 PROVE  FALSE
      OBVIOUS
    <3>1. Home[t[1]] = r
      BY BusyIsOwn DEF Own
    <3> QED
      BY <3>1 DEF IInv, Local, PaidFits
  <2>2. review \in [Reviews -> Sidecars]
    BY DEF IInv, TypeOK
  <2>3. CASE \E r \in Roots : Invocation(r)
    <3>1. PICK r \in Roots : Invocation(r)
      BY <2>3
    <3>2. CASE Worker(r)
      BY <2>1, <2>2, <3>2 DEF Worker, TakeUp, Write, Fail, Break
    <3>3. CASE Kill(r)
      BY <2>1, <3>3 DEF Kill
    <3> QED
      BY <3>1, <3>2, <3>3 DEF Invocation, Start, Scan, Raise, Drained, Load, Synthesize, SynthesisFails
  <2> QED
    BY <2>3 DEF Next, Rewrite, HandEdit
<1> QED
  BY <1>1, Invariant, PTL DEF Spec, PaidWorkIsKept

\* The registry changes in two ways.
LEMMA WhoWrites ==
  ASSUME IInv, Next, registry' # registry
  PROVE  \/ HandEdit
         \/ \E r \in Roots : Synthesize(r)
BY DEF Next, Invocation, Start, Scan, Raise, Worker, TakeUp, Write, Fail, Break, Drained, Load,
  SynthesisFails, Kill, Rewrite

\* What a synthesis does to the jobs.
LEMMA WhoIsOvertaken ==
  ASSUME IInv, NEW r \in Roots, Synthesize(r)
  PROVE  /\ job[r].at = "ask" /\ job'[r].at = "clean"
         /\ \A q \in Roots \ {r} : At(q, "ask") => job'[q].at = "ask"
<1>1. job \in [Roots -> Jobs] /\ job[r].at = "ask"
  BY DEF IInv, TypeOK, Synthesize, At
<1>2. Overtaken(r)[r] = job[r]
  BY DEF Overtaken
<1>3. job'[r] = Vouched(job[r])
  BY <1>2 DEF Synthesize, Overtaken
<1>4. \A q \in Roots \ {r} : At(q, "ask") => job'[q] = [job[q] EXCEPT !.raced = TRUE]
  BY DEF Synthesize, Overtaken
<1>5. job'[r].at = "clean"
  BY <1>1, <1>3, VouchedFields
<1>6. \A q \in Roots : job[q] \in Jobs /\ [job[q] EXCEPT !.raced = TRUE].at = job[q].at
  BY <1>1 DEF Jobs
<1> QED
  BY <1>1, <1>4, <1>5, <1>6 DEF At

\* A pattern stays under its first description, but for the two ways the code
\* has of losing it (BaseFits).
THEOREM RegistryOnlyGrows == Spec => RegistryGrows
<1> DEFINE A == \/ \A x \in Patterns : registry.has[x] # None => registry'.has[x] = registry.has[x]
                \/ \E r \in Roots : Lossy(r) /\ job'[r].at = "clean"
<1>1. IInv /\ [Next]_vars => [A]_vars
  <2> SUFFICES ASSUME IInv, Next, registry' # registry
               PROVE  A
    OBVIOUS
  <2>1. CASE HandEdit
    BY <2>1 DEF HandEdit, IInv, TypeOK, Files
  <2>2. ASSUME NEW r \in Roots, Synthesize(r)
        PROVE  A
    <3>1. PICK found \in SUBSET Patterns :
            registry' = [is |-> "valid", has |-> Merge(job[r].base, found, r)]
      BY <2>2 DEF Synthesize
    <3>2. job[r].at = "ask" /\ job'[r].at = "clean"
      BY <2>2, WhoIsOvertaken
    <3>3. Lossy(r) \/ job[r].base = registry.has
      BY <3>2 DEF IInv, BaseFits, Lossy, At
    <3>4. job[r].base = registry.has =>
            \A x \in Patterns : registry.has[x] # None => registry'.has[x] = registry.has[x]
      BY <3>1 DEF Merge
    <3> QED
      BY <3>2, <3>3, <3>4
  <2> QED
    BY <2>1, <2>2, WhoWrites
<1> QED
  BY <1>1, Invariant, PTL DEF Spec, RegistryGrows

\* The program writes a valid registry, over a valid one unless forced or
\* overtaken (BaseFits).
THEOREM RegistryRespected == Spec => RegistryIsRespected
<1> DEFINE A == \A r \in Roots : At(r, "ask") /\ registry' # registry =>
                  \/ job'[r].at = "ask"
                  \/ registry'.is = "valid" /\ (registry.is \in {"valid", "absent"} \/ Lossy(r))
<1>1. IInv /\ [Next]_vars => [A]_vars
  <2> SUFFICES ASSUME IInv, Next, registry' # registry, NEW r \in Roots, At(r, "ask")
               PROVE  \/ job'[r].at = "ask"
                      \/ registry'.is = "valid" /\ (registry.is \in {"valid", "absent"} \/ Lossy(r))
    OBVIOUS
  <2>1. CASE HandEdit
    <3>1. job'[r] = [job[r] EXCEPT !.raced = TRUE] /\ job[r] \in Jobs
      BY <2>1 DEF HandEdit, IInv, TypeOK
    <3> QED
      BY <3>1 DEF At, Jobs
  <2>2. ASSUME NEW q \in Roots, Synthesize(q), q # r
        PROVE  job'[r].at = "ask"
    BY <2>2, WhoIsOvertaken
  <2>3. CASE Synthesize(r)
    <3>1. registry'.is = "valid"
      BY <2>3 DEF Synthesize
    <3>2. Lossy(r) \/ registry.is \in {"valid", "absent"}
      BY DEF IInv, BaseFits, Lossy, At
    <3> QED
      BY <3>1, <3>2
  <2> QED
    BY <2>1, <2>2, <2>3, WhoWrites
<1> QED
  BY <1>1, Invariant, PTL DEF Spec, RegistryIsRespected

=============================================================================
