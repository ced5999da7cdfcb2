--------------------------- MODULE ImageRunProofs ---------------------------
(***************************************************************************)
(* Proofs about ImageRun, for any numbers of problems, slots, workers and  *)
(* faults: verdicts belong to the last turn's patch, clean work is graded  *)
(* before the program returns, and the results directory implements        *)
(* Campaign.  The inductive invariant says where a triple can be: waiting  *)
(* in a thread's todo, in the hands of that thread, among the predictions, *)
(* or settled, and never in two of these places.                           *)
(***************************************************************************)
EXTENDS ImageRun, FiniteSetTheorems, TLAPS

Verdict == {"ERROR"} \cup Terminal

\* The thread of the triple's problem works on it and is at one of the labels.
At(t, labels) == pc[t[1]] \in labels /\ slot[t[1]] = t[2]
Held == {"turn", "writing", "judging"}

\* What its thread does on the triple's last turn may be graded.
Judgement(t) ==
  /\ how[t[1]] # "none"
  /\ clean[t] = (how[t[1]] = "clean" \/ (how[t[1]] = "throttled" /\ ~HaltOnLimit))

Graded(t) == rec[t].at \in Verdict /\ rec[t].whole

\* No process: nothing is in memory.
DownInv ==
  run = "down" =>
    /\ \A p \in Problems : pc[p] = "queued" /\ todo[p] = {}
    /\ \A t \in Triples : predictions[t] = 0
    /\ ~raised /\ ~diskFull

\* What is known of a triple while threads run, by where it is.
TripleInv(t) ==
  /\ t[2] \in todo[t[1]] \/ At(t, Held) \/ pc[t[1]] = "queued" => predictions[t] = 0
  /\ t[2] \in todo[t[1]] \/ At(t, Held) => ~Settled(t)
  /\ At(t, {"writing", "judging"}) => turns[t] # 0 /\ Judgement(t)
  /\ At(t, {"writing"}) => rec[t].at = "torn"
  /\ At(t, {"judging"}) =>
       /\ rec[t].at = "PENDING" /\ rec[t].of = turns[t] /\ rec[t].whole
       /\ rec[t].throttled = (how[t[1]] = "throttled")
       /\ how[t[1]] \in {"clean", "throttled"}

\* What a thread works on is not in its todo any more.
ThreadInv ==
  run = "agents" =>
    /\ \A p \in Problems : pc[p] \in Held => slot[p] \in Slots \ todo[p]
    /\ \A t \in Triples : TripleInv(t)

\* A prediction waits with the patch of the last turn, a report is the
\* grader's word on it, and only one record at a time is being rewritten.
GradeInv ==
  /\ \A t \in Triples :
       /\ predictions[t] # 0 =>
            /\ clean[t] /\ turns[t] = predictions[t] /\ rec[t].of = turns[t]
            /\ t \notin writing => rec[t].at = "PENDING" /\ rec[t].whole
       /\ reports[t] # "none" =>
            /\ run = "grading" /\ predictions[t] # 0
            /\ said[t] = <<predictions[t], reports[t]>>
       /\ t \in writing => reports[t] # "none" /\ rec[t].at \in {"torn", reports[t]}
  /\ \A t, u \in writing : t = u

\* A clean turn of this invocation is in its thread's hands, waits for the
\* grader, or has its verdict, unless an exception or a full disk is pending.
FreshInv ==
  /\ run = "grading" => ~raised /\ ~diskFull
  /\ run # "down" /\ ~raised /\ ~diskFull =>
       \A t \in fresh :
         \/ predictions[t] # 0 \/ Graded(t)
         \/ run = "agents" /\ At(t, {"writing", "judging"}) /\ how[t[1]] = "clean"

IInv ==
  /\ TypeOK /\ DownInv /\ ThreadInv /\ GradeInv /\ FreshInv
  /\ VerdictIsOfItsPatch /\ CleanWorkIsGraded

-----------------------------------------------------------------------------
USE ImageAssumption

\* A triple is its problem and its slot.
LEMMA TripleParts ==
  /\ \A t \in Triples : t[1] \in Problems /\ t[2] \in Slots /\ t = <<t[1], t[2]>>
  /\ \A p \in Problems, s \in Slots : <<p, s>> \in Triples
BY DEF Triples

\* The triple a thread works on, and what is known of it.
InHand(p, u) ==
  /\ u \in Triples /\ u[1] = p /\ u[2] = slot[p] /\ slot[p] \in Slots \ todo[p]
  /\ \A t \in Triples : t[1] = p /\ t[2] = slot[p] => t = u
  /\ predictions[u] = 0 /\ reports[u] = "none" /\ u \notin writing /\ ~Settled(u)
  /\ pc[p] \in {"writing", "judging"} =>
       turns[u] \in Nat \ {0} /\ Judgement(u) /\ how[p] \in Outcomes
  /\ pc[p] = "writing" => rec[u].at = "torn"
  /\ pc[p] = "judging" =>
       /\ rec[u].at = "PENDING" /\ rec[u].of = turns[u] /\ rec[u].whole
       /\ rec[u].throttled = (how[p] = "throttled")
       /\ how[p] \in {"clean", "throttled"}

\* What the invariant says of the triple in a thread's hands.
LEMMA TheHeldOne ==
  ASSUME IInv, run = "agents", NEW p \in Problems, pc[p] \in Held
  PROVE  InHand(p, <<p, slot[p]>>)
<1> DEFINE u == <<p, slot[p]>>
<1>1. slot[p] \in Slots \ todo[p]
  BY DEF IInv, ThreadInv
<1>2. u \in Triples /\ u[1] = p /\ u[2] = slot[p]
  BY <1>1, TripleParts
<1>3. \A t \in Triples : t[1] = p /\ t[2] = slot[p] => t = u
  BY TripleParts
<1> HIDE DEF u
<1>4. At(u, Held)
  BY <1>2 DEF At
<1>5. predictions[u] = 0 /\ ~Settled(u)
  BY <1>2, <1>4 DEF IInv, ThreadInv, TripleInv
<1>6. reports[u] = "none" /\ u \notin writing
  BY <1>2, <1>5 DEF IInv, GradeInv
<1>7. turns[u] \in Nat /\ how[p] \in Outcomes
  BY <1>2 DEF IInv, TypeOK
<1>8. pc[p] \in {"writing", "judging"} => turns[u] # 0 /\ Judgement(u)
  BY <1>2 DEF IInv, ThreadInv, TripleInv, At
<1>9. pc[p] = "writing" => rec[u].at = "torn"
  BY <1>2 DEF IInv, ThreadInv, TripleInv, At
<1>10. pc[p] = "judging" =>
       /\ rec[u].at = "PENDING" /\ rec[u].of = turns[u] /\ rec[u].whole
       /\ rec[u].throttled = (how[p] = "throttled")
       /\ how[p] \in {"clean", "throttled"}
  BY <1>2 DEF IInv, ThreadInv, TripleInv, At
<1>11. InHand(p, u)
  BY <1>1, <1>2, <1>3, <1>5, <1>6, <1>7, <1>8, <1>9, <1>10 DEF InHand
<1>q. QED BY <1>11 DEF u

\* Rewriting the state of a record leaves a record.
LEMMA Marked ==
  ASSUME TypeOK, NEW t \in Triples, NEW v \in {"torn"} \cup Verdict, NEW w \in BOOLEAN
  PROVE  /\ [rec EXCEPT ![t].at = v] \in [Triples -> Records]
         /\ [rec EXCEPT ![t].at = v, ![t].whole = w] \in [Triples -> Records]
<1>1. rec[t] \in Records /\ rec \in [Triples -> Records]
  BY DEF TypeOK
<1>2. [rec[t] EXCEPT !.at = v] \in Records
  BY <1>1 DEF Records, Verdict
<1>3. [rec[t] EXCEPT !.at = v, !.whole = w] \in Records
  BY <1>1 DEF Records, Verdict
<1>4. [rec EXCEPT ![t].at = v] = [rec EXCEPT ![t] = [rec[t] EXCEPT !.at = v]]
  BY <1>1
<1>5. [rec EXCEPT ![t].at = v, ![t].whole = w]
      = [rec EXCEPT ![t] = [rec[t] EXCEPT !.at = v, !.whole = w]]
  BY <1>1
<1>q. QED BY <1>1, <1>2, <1>3, <1>4, <1>5

\* A new invocation has nothing in memory but an empty set of fresh turns.
LEMMA StartStep ==
  ASSUME IInv, Start
  PROVE  IInv'
<1>1. TypeOK'
  BY DEF IInv, TypeOK, Start, threads, flags, grading
<1>2. DownInv'
  BY DEF DownInv, Start
<1>3. ThreadInv'
  BY TripleParts
  DEF IInv, TypeOK, ThreadInv, TripleInv, DownInv, At, Held, Start, threads, grading
<1>4. GradeInv'
  BY DEF IInv, TypeOK, GradeInv, Start, grading
<1>5. FreshInv'
  BY DEF IInv, TypeOK, FreshInv, Start
<1>6. VerdictIsOfItsPatch'
  BY DEF IInv, TypeOK, VerdictIsOfItsPatch, Settled, Start
<1>7. CleanWorkIsGraded'
  BY DEF CleanWorkIsGraded, Start
<1>q. QED BY <1>1, <1>2, <1>3, <1>4, <1>5, <1>6, <1>7 DEF IInv

\* A thread takes a problem and finds what --resume leaves of it.
LEMMA BeginStep ==
  ASSUME IInv, NEW p \in Problems, Begin(p)
  PROVE  IInv'
<1>1. TypeOK'
  BY DEF IInv, TypeOK, Begin, Todo, flags, grading, history
<1>2. DownInv'
  BY DEF DownInv, Begin
<1>3. ThreadInv'
  BY TripleParts
  DEF IInv, TypeOK, ThreadInv, TripleInv, At, Held, Judgement, Settled, Begin, Todo,
      grading, history
<1>4. GradeInv'
  BY DEF IInv, TypeOK, GradeInv, Begin, Todo, grading, history
<1>5. FreshInv'
  BY DEF IInv, TypeOK, FreshInv, At, Graded, Begin, Todo, flags, grading, history
<1>6. VerdictIsOfItsPatch'
  BY DEF IInv, TypeOK, VerdictIsOfItsPatch, Settled, Begin, Todo, history
<1>7. CleanWorkIsGraded'
  BY DEF CleanWorkIsGraded, Begin
<1>q. QED BY <1>1, <1>2, <1>3, <1>4, <1>5, <1>6, <1>7 DEF IInv

\* The image is ready, or the thread ends with a full disk or an exception.
LEMMA PrepareStep ==
  ASSUME IInv, NEW p \in Problems, Prepare(p)
  PROVE  IInv'
<1>1. TypeOK'
  <2>1. pc' \in [Problems -> {"queued", "preparing", "looping", "turn", "writing",
                              "judging", "ended"}]
    BY DEF IInv, TypeOK, Prepare
  <2>2. /\ stop' \in BOOLEAN /\ diskFull' \in BOOLEAN
        /\ limited' \in BOOLEAN /\ raised' \in BOOLEAN
    BY DEF IInv, TypeOK, Prepare, flags
  <2>3. faults' \in Nat
    BY DEF IInv, TypeOK, Prepare, Fault
  <2>q. QED BY <2>1, <2>2, <2>3 DEF IInv, TypeOK, Prepare, grading, history
<1>2. DownInv'
  BY DEF DownInv, Prepare
<1>3. ThreadInv'
  BY TripleParts
  DEF IInv, TypeOK, ThreadInv, TripleInv, At, Held, Judgement, Settled, Prepare, grading, history
<1>4. GradeInv'
  BY DEF IInv, TypeOK, GradeInv, Prepare, grading, history
<1>5. FreshInv'
  BY TripleParts
  DEF IInv, TypeOK, FreshInv, At, Graded, Prepare, flags, grading, history
<1>6. VerdictIsOfItsPatch'
  BY DEF IInv, TypeOK, VerdictIsOfItsPatch, Settled, Prepare, history
<1>7. CleanWorkIsGraded'
  BY DEF CleanWorkIsGraded, Prepare
<1>q. QED BY <1>1, <1>2, <1>3, <1>4, <1>5, <1>6, <1>7 DEF IInv

\* The next triple moves from todo into the hands of its thread.
LEMMA NextArmStep ==
  ASSUME IInv, NEW p \in Problems, NextArm(p)
  PROVE  IInv'
<1>1. ASSUME stop \/ todo[p] = {}, UNCHANGED <<todo, slot>>, pc' = [pc EXCEPT ![p] = "ended"]
      PROVE  TypeOK' /\ ThreadInv'
  <2>1. TypeOK'
    BY <1>1 DEF NextArm, IInv, TypeOK, flags, grading, history
  <2>2. /\ pc'[p] = "ended" /\ \A q \in Problems \ {p} : pc'[q] = pc[q]
        /\ run = "agents" /\ UNCHANGED <<slot, todo, how, turns, rec, clean, predictions>>
    BY <1>1 DEF NextArm, IInv, TypeOK, grading, history
  <2>3. \A q \in Problems : pc'[q] \in Held => slot'[q] \in Slots \ todo'[q]
    BY <2>2 DEF IInv, ThreadInv, Held
  <2>4. ASSUME NEW t \in Triples
        PROVE  TripleInv(t)'
    <3>1. t[1] \in Problems /\ TripleInv(t)
      BY <2>2, TripleParts DEF IInv, ThreadInv
    <3>q. QED BY <2>2, <3>1 DEF TripleInv, At, Held, Judgement, Settled
  <2>5. ThreadInv'
    BY <2>3, <2>4 DEF ThreadInv
  <2>q. QED BY <2>1, <2>5
<1>2. ASSUME ~stop, NEW s \in todo[p], slot' = [slot EXCEPT ![p] = s],
             todo' = [todo EXCEPT ![p] = @ \ {s}], pc' = [pc EXCEPT ![p] = "turn"]
      PROVE  TypeOK' /\ ThreadInv'
  <2>1. /\ s \in Slots /\ todo' \in [Problems -> SUBSET Slots]
        /\ slot' \in [Problems -> Slots \cup {NoSlot}]
    BY <1>2 DEF IInv, TypeOK
  <2>2. TypeOK'
    BY <1>2, <2>1 DEF NextArm, IInv, TypeOK, flags, grading, history
  <2>3. /\ pc'[p] = "turn" /\ slot'[p] = s /\ todo'[p] = todo[p] \ {s}
        /\ \A q \in Problems \ {p} : pc'[q] = pc[q] /\ slot'[q] = slot[q] /\ todo'[q] = todo[q]
    BY <1>2 DEF IInv, TypeOK
  <2>4. run = "agents" /\ UNCHANGED <<how, turns, rec, clean, predictions>>
    BY DEF NextArm, grading, history
  <2>5. ThreadInv'
    BY <1>2, <2>1, <2>3, <2>4 DEF IInv, ThreadInv, TripleInv, At, Judgement, Settled
  <2>q. QED BY <2>2, <2>5
<1>3. TypeOK' /\ ThreadInv'
  <2>1. CASE pc' = [pc EXCEPT ![p] = "ended"] /\ UNCHANGED <<todo, slot>> /\ (stop \/ todo[p] = {})
    BY <1>1, <2>1
  <2>2. CASE /\ ~stop /\ pc' = [pc EXCEPT ![p] = "turn"]
             /\ \E s \in todo[p] : /\ slot' = [slot EXCEPT ![p] = s]
                                   /\ todo' = [todo EXCEPT ![p] = @ \ {s}]
    BY <1>2, <2>2
  <2>q. QED BY <2>1, <2>2, Zenon DEF NextArm
<1>4. DownInv'
  BY DEF DownInv, NextArm
<1>5. GradeInv'
  BY DEF IInv, TypeOK, GradeInv, NextArm, grading, history
<1>6. FreshInv'
  BY TripleParts DEF IInv, TypeOK, FreshInv, At, Graded, NextArm, flags, grading, history
<1>7. VerdictIsOfItsPatch'
  BY DEF IInv, TypeOK, VerdictIsOfItsPatch, Settled, NextArm, history
<1>8. CleanWorkIsGraded'
  BY DEF CleanWorkIsGraded, NextArm
<1>q. QED BY <1>3, <1>4, <1>5, <1>6, <1>7, <1>8 DEF IInv

\* No container: the thread ends, the triple stays open.
LEMMA StartFailsStep ==
  ASSUME IInv, NEW p \in Problems, StartFails(p)
  PROVE  IInv'
<1>1. TypeOK'
  BY DEF IInv, TypeOK, StartFails, Fault, grading, history
<1>2. DownInv'
  BY DEF DownInv, StartFails
<1>3. ThreadInv'
  BY DEF IInv, TypeOK, ThreadInv, TripleInv, At, Held, Judgement, Settled, StartFails,
         grading, history
<1>4. GradeInv'
  BY DEF IInv, TypeOK, GradeInv, StartFails, grading, history
<1>5. FreshInv'
  BY DEF IInv, TypeOK, FreshInv, StartFails
<1>6. VerdictIsOfItsPatch'
  BY DEF IInv, TypeOK, VerdictIsOfItsPatch, Settled, StartFails, history
<1>7. CleanWorkIsGraded'
  BY DEF CleanWorkIsGraded, StartFails
<1>q. QED BY <1>1, <1>2, <1>3, <1>4, <1>5, <1>6, <1>7 DEF IInv

\* The turn opens its record anew: whatever it held is gone.
LEMMA TurnEndsStep ==
  ASSUME IInv, NEW p \in Problems, TurnEnds(p)
  PROVE  IInv'
<1>1. TypeOK'
  <2>1. rec' \in [Triples -> Records]
    BY DEF IInv, TypeOK, TurnEnds, Records
  <2>2. faults' \in Nat
    BY DEF IInv, TypeOK, TurnEnds, Fault
  <2>3. pc' \in [Problems -> {"queued", "preparing", "looping", "turn", "writing",
                              "judging", "ended"}]
    BY DEF IInv, TypeOK, TurnEnds
  <2>4. how' \in [Problems -> Outcomes] /\ clean' \in [Triples -> BOOLEAN]
    BY DEF IInv, TypeOK, TurnEnds, Outcomes
  <2>5. turns' \in [Triples -> Nat]
    BY TheHeldOne DEF IInv, TypeOK, TurnEnds, InHand, Held
  <2> DEFINE Words == Nat \X ({"none", "ERROR"} \cup Terminal)
             silence == <<0, "none">>
  <2>6. silence \in Words /\ said \in [Triples -> Words]
    BY DEF IInv, TypeOK
  <2>7. said' = [said EXCEPT ![<<p, slot[p]>>] = silence]
    BY DEF TurnEnds
  <2> HIDE DEF Words, silence
  <2>8. said' \in [Triples -> Words]
    BY <2>6, <2>7
  <2>9. fresh' \subseteq Triples
    BY TheHeldOne DEF InHand, Held, IInv, TypeOK, TurnEnds
  <2>q. QED BY <2>1, <2>2, <2>3, <2>4, <2>5, <2>8, <2>9
            DEF IInv, TypeOK, TurnEnds, Words, flags, grading
<1>2. DownInv'
  BY DEF DownInv, TurnEnds
<1>3. ThreadInv'
  <2> DEFINE u == <<p, slot[p]>>
  <2>1. InHand(p, u) /\ run = "agents"
    BY TheHeldOne DEF TurnEnds, Held
  <2>2. u \in Triples
    BY <2>1 DEF InHand
  <2>3. /\ pc'[p] = "writing" /\ \A q \in Problems \ {p} : pc'[q] = pc[q] /\ how'[q] = how[q]
        /\ UNCHANGED <<run, todo, slot, predictions>>
    BY DEF TurnEnds, IInv, TypeOK, grading
  <2>4. /\ turns'[u] # 0
        /\ clean'[u] = (how'[p] = "clean" \/ (how'[p] = "throttled" /\ ~HaltOnLimit))
        /\ rec'[u].at = "torn" /\ ~Settled(u)' /\ how'[p] # "none"
    BY <2>2 DEF TurnEnds, IInv, TypeOK, Settled
  <2>5. \A t \in Triples \ {u} : turns'[t] = turns[t] /\ clean'[t] = clean[t] /\ rec'[t] = rec[t]
    BY <2>2 DEF TurnEnds, IInv, TypeOK
  <2> HIDE DEF u
  <2>6. \A q \in Problems : pc'[q] \in Held => slot'[q] \in Slots \ todo'[q]
    BY <2>1, <2>3 DEF IInv, ThreadInv, InHand
  <2>7. ASSUME NEW t \in Triples
        PROVE  TripleInv(t)'
    <3>0. t[1] \in Problems
      BY TripleParts
    <3>1. CASE t = u
      BY <2>1, <2>3, <2>4, <3>0, <3>1 DEF IInv, TripleInv, At, Judgement, Settled, InHand
    <3>2. CASE t[1] = p /\ t # u
      BY <2>1, <2>3, <2>5, <3>0, <3>2 DEF IInv, ThreadInv, TripleInv, At, Settled, InHand
    <3>3. CASE t[1] # p /\ t # u
      BY <2>1, <2>3, <2>5, <3>0, <3>3 DEF IInv, ThreadInv, TripleInv, At, Judgement, Settled
    <3>q. QED BY <2>1, <3>1, <3>2, <3>3
  <2>q. QED BY <2>6, <2>7 DEF ThreadInv
<1>4. GradeInv'
  BY DEF IInv, TypeOK, GradeInv, ThreadInv, TripleInv, At, Held, TurnEnds, grading
<1>5. FreshInv'
  BY DEF IInv, TypeOK, FreshInv, At, Graded, TurnEnds, flags, grading
<1>6. VerdictIsOfItsPatch'
  BY DEF IInv, TypeOK, VerdictIsOfItsPatch, Settled, TurnEnds
<1>7. CleanWorkIsGraded'
  BY DEF CleanWorkIsGraded, TurnEnds
<1>q. QED BY <1>1, <1>2, <1>3, <1>4, <1>5, <1>6, <1>7 DEF IInv

\* The PENDING record is of the last turn.
LEMMA WriteRecordStep ==
  ASSUME IInv, NEW p \in Problems, WriteRecord(p)
  PROVE  IInv'
<1> DEFINE u == <<p, slot[p]>>
<1>1. InHand(p, u) /\ run = "agents" /\ pc[p] = "writing"
  BY TheHeldOne DEF WriteRecord, Held
<1>2. u \in Triples
  BY <1>1 DEF InHand
<1>3. /\ pc'[p] = IF how[p] = "aborted" THEN "ended" ELSE "judging"
      /\ \A q \in Problems \ {p} : pc'[q] = pc[q]
      /\ raised' = (raised \/ how[p] = "aborted")
      /\ UNCHANGED <<run, todo, slot, how, predictions, turns, clean, fresh, diskFull>>
  BY DEF WriteRecord, IInv, TypeOK, grading, history
<1>4. /\ rec'[u] = [at |-> "PENDING", of |-> turns[u], whole |-> TRUE,
                    throttled |-> how[p] = "throttled"]
      /\ \A t \in Triples \ {u} : rec'[t] = rec[t]
      /\ rec' \in [Triples -> Records]
  BY <1>2 DEF WriteRecord, IInv, TypeOK, Records
<1>5. how[p] \in {"clean", "throttled", "aborted"} /\ raised \in BOOLEAN
  BY <1>1 DEF InHand, Judgement, Outcomes, IInv, TypeOK
<1> HIDE DEF u
<1>6. \A q \in Problems : pc'[q] \in Held => slot'[q] \in Slots \ todo'[q]
  BY <1>1, <1>3 DEF IInv, ThreadInv, Held
<1>7. TypeOK'
  <2>1. pc' \in [Problems -> {"queued", "preparing", "looping", "turn", "writing",
                              "judging", "ended"}]
    BY DEF IInv, TypeOK, WriteRecord
  <2>2. raised' \in BOOLEAN
    BY <1>3, <1>5 DEF IInv, TypeOK
  <2>q. QED BY <1>4, <2>1, <2>2 DEF IInv, TypeOK, WriteRecord, grading, history
<1>8. DownInv'
  BY DEF DownInv, WriteRecord
<1>9. ThreadInv'
  BY <1>1, <1>3, <1>4, <1>5, <1>6, TripleParts
  DEF IInv, ThreadInv, TripleInv, At, Judgement, Settled, InHand
<1>10. GradeInv'
  BY DEF IInv, TypeOK, GradeInv, WriteRecord, grading, history
<1>11. FreshInv'
  <2>1. ASSUME ~raised', ~diskFull, NEW t \in fresh
        PROVE  \/ predictions'[t] # 0 \/ Graded(t)'
               \/ run' = "agents" /\ At(t, {"writing", "judging"})' /\ how'[t[1]] = "clean"
    <3>0. t \in Triples /\ t[1] \in Problems
      BY TripleParts DEF IInv, TypeOK
    <3>1. CASE t = u
      BY <1>1, <1>3, <1>4, <1>5, <2>1, <3>0, <3>1
      DEF IInv, FreshInv, At, Graded, InHand, Verdict
    <3>2. CASE t # u
      BY <1>1, <1>3, <1>4, <1>5, <2>1, <3>0, <3>2 DEF IInv, FreshInv, At, Graded
    <3>q. QED BY <3>1, <3>2
  <2>q. QED BY <1>1, <1>3, <2>1 DEF FreshInv
<1>12. VerdictIsOfItsPatch'
  BY DEF IInv, TypeOK, VerdictIsOfItsPatch, Settled, WriteRecord, history
<1>13. CleanWorkIsGraded'
  BY DEF CleanWorkIsGraded, WriteRecord
<1>q. QED BY <1>7, <1>8, <1>9, <1>10, <1>11, <1>12, <1>13 DEF IInv

\* The record stays torn and the invocation will not return normally.
LEMMA WriteFailsStep ==
  ASSUME IInv, NEW p \in Problems, WriteFails(p)
  PROVE  IInv'
<1>1. TypeOK'
  BY DEF IInv, TypeOK, WriteFails, Fault, grading, history
<1>2. DownInv'
  BY DEF DownInv, WriteFails
<1>3. ThreadInv'
  BY DEF IInv, TypeOK, ThreadInv, TripleInv, At, Held, Judgement, Settled, WriteFails,
         grading, history
<1>4. GradeInv'
  BY DEF IInv, TypeOK, GradeInv, WriteFails, grading, history
<1>5. FreshInv'
  BY DEF IInv, TypeOK, FreshInv, WriteFails
<1>6. VerdictIsOfItsPatch'
  BY DEF IInv, TypeOK, VerdictIsOfItsPatch, Settled, WriteFails, history
<1>7. CleanWorkIsGraded'
  BY DEF CleanWorkIsGraded, WriteFails
<1>q. QED BY <1>1, <1>2, <1>3, <1>4, <1>5, <1>6, <1>7 DEF IInv

\* Only a turn that may be graded is put among the predictions.
LEMMA JudgeStep ==
  ASSUME IInv, NEW p \in Problems, Judge(p)
  PROVE  IInv'
<1> DEFINE u == <<p, slot[p]>>
<1>1. InHand(p, u) /\ run = "agents" /\ pc[p] = "judging"
  BY TheHeldOne DEF Judge, Held
<1>2. u \in Triples /\ rec[u].of = turns[u] /\ turns[u] \in Nat
  BY <1>1 DEF InHand
<1>3. /\ pc'[p] \in {"looping", "ended"}
      /\ \A q \in Problems \ {p} : pc'[q] = pc[q]
      /\ UNCHANGED <<run, todo, slot, how, reports, writing, rec, turns, clean, said, fresh,
                     diskFull, raised>>
  BY DEF Judge, IInv, TypeOK, history
<1>4. /\ \A t \in Triples \ {u} : predictions'[t] = predictions[t]
      /\ IF BacksOff(u) THEN predictions'[u] = 0 ELSE predictions'[u] = turns[u]
      /\ predictions' \in [Triples -> Nat]
  <2>1. CASE BacksOff(u)
    BY <1>1, <2>1 DEF Judge, IInv, TypeOK, InHand
  <2>2. CASE ~BacksOff(u)
    BY <1>2, <2>2 DEF Judge, IInv, TypeOK
  <2>q. QED BY <2>1, <2>2
<1>5. /\ pc' \in [Problems -> {"queued", "preparing", "looping", "turn",
                              "writing", "judging", "ended"}]
      /\ stop' \in BOOLEAN /\ limited' \in BOOLEAN
  BY DEF Judge, IInv, TypeOK
<1> HIDE DEF u
<1>6. ~BacksOff(u) => clean[u]
  BY <1>1 DEF InHand, BacksOff, Judgement
<1>7. how[p] = "clean" => ~BacksOff(u)
  BY <1>1 DEF InHand, BacksOff
<1>8. TypeOK'
  BY <1>4, <1>5 DEF Judge, IInv, TypeOK, history
<1>9. DownInv'
  BY DEF DownInv, Judge
<1>10. ThreadInv'
  BY TripleParts
  DEF IInv, TypeOK, ThreadInv, TripleInv, At, Held, Judgement, Settled, Judge, history
<1>11. GradeInv'
  <2>1. ASSUME NEW t \in Triples, predictions'[t] # 0
        PROVE  /\ clean'[t] /\ turns'[t] = predictions'[t] /\ rec'[t].of = turns'[t]
               /\ t \notin writing' => rec'[t].at = "PENDING" /\ rec'[t].whole
    BY <1>1, <1>2, <1>3, <1>4, <1>6, <2>1 DEF IInv, GradeInv, InHand
  <2>2. ASSUME NEW t \in Triples
        PROVE  /\ reports'[t] # "none" =>
                    /\ run' = "grading" /\ predictions'[t] # 0
                    /\ said'[t] = <<predictions'[t], reports'[t]>>
               /\ t \in writing' => reports'[t] # "none" /\ rec'[t].at \in {"torn", reports'[t]}
    BY <1>1, <1>3, <1>4 DEF IInv, GradeInv
  <2>q. QED BY <1>3, <2>1, <2>2 DEF IInv, GradeInv
<1>12. FreshInv'
  <2>1. ASSUME ~raised /\ ~diskFull, NEW t \in fresh
        PROVE  \/ predictions'[t] # 0 \/ Graded(t)'
               \/ run' = "agents" /\ At(t, {"writing", "judging"})' /\ how'[t[1]] = "clean"
    <3>0. t \in Triples /\ t[1] \in Problems
      BY TripleParts DEF IInv, TypeOK
    <3>1. CASE t = u
      BY <1>1, <1>3, <1>4, <1>7, <2>1, <3>0, <3>1 DEF IInv, FreshInv, Graded, InHand
    <3>2. CASE t # u
      BY <1>1, <1>3, <1>4, <1>5, <2>1, <3>0, <3>2 DEF IInv, FreshInv, At, Graded, InHand
    <3>q. QED BY <3>1, <3>2
  <2>q. QED BY <1>1, <1>3, <2>1 DEF FreshInv
<1>13. VerdictIsOfItsPatch'
  BY DEF IInv, TypeOK, VerdictIsOfItsPatch, Settled, Judge, history
<1>14. CleanWorkIsGraded'
  BY DEF CleanWorkIsGraded, Judge
<1>q. QED BY <1>8, <1>9, <1>10, <1>11, <1>12, <1>13, <1>14 DEF IInv

\* The end of a process, whatever ended it.
LEMMA EndsStep ==
  ASSUME IInv, NEW x \in {"done", "raised", "disk", "limit", "crash"}, Ends(x),
         faults' \in Nat, x \in {"limit", "done"} => \A t \in fresh : Graded(t)
  PROVE  IInv'
<1>1. TypeOK'
  BY DEF IInv, TypeOK, Ends, history, Outcomes
<1>2. DownInv' /\ ThreadInv' /\ FreshInv'
  BY DEF Ends, DownInv, ThreadInv, FreshInv
<1>3. GradeInv'
  BY DEF Ends, GradeInv
<1>4. VerdictIsOfItsPatch'
  BY DEF IInv, VerdictIsOfItsPatch, Ends, history, Settled
<1>5. CleanWorkIsGraded'
  BY DEF CleanWorkIsGraded, Ends, history, Graded, Verdict
<1>q. QED BY <1>1, <1>2, <1>3, <1>4, <1>5 DEF IInv

\* The pool has drained: no turn is in the hands of a thread.
LEMMA DrainStep ==
  ASSUME IInv, Drain
  PROVE  IInv'
<1>1. CASE raised \/ diskFull
  <2>1. faults' \in Nat
    BY DEF Drain, IInv, TypeOK
  <2>q. QED BY <1>1, <2>1, EndsStep DEF Drain
<1>2. CASE ~(raised \/ diskFull)
  <2>1. /\ run = "agents" /\ run' = "grading" /\ Drained
        /\ UNCHANGED <<exit, threads, flags, grading, rec, history, faults>>
    BY <1>2 DEF Drain
  <2>2. TypeOK' /\ DownInv' /\ ThreadInv' /\ CleanWorkIsGraded'
    BY <2>1
    DEF IInv, TypeOK, DownInv, ThreadInv, CleanWorkIsGraded, threads, flags, grading,
        history
  <2>3. GradeInv' /\ VerdictIsOfItsPatch'
    BY <2>1 DEF IInv, GradeInv, VerdictIsOfItsPatch, Settled, grading, history
  <2>4. \A t \in fresh : predictions[t] # 0 \/ Graded(t)
    BY <1>2, <2>1, TripleParts DEF IInv, TypeOK, FreshInv, Drained, Busy, At
  <2>5. FreshInv'
    BY <1>2, <2>1, <2>4 DEF FreshInv, flags, grading, history, Graded
  <2>q. QED BY <2>2, <2>3, <2>5 DEF IInv
<1>q. QED BY <1>1, <1>2

\* The grader speaks on each prediction of one group.
LEMMA GradeStep ==
  ASSUME IInv, NEW s \in Slots, Grade(s)
  PROVE  IInv'
<1>1. PICK v \in [Group(s) -> {"ERROR"} \cup Terminal] :
        /\ LET errors == Cardinality({t \in Group(s) : v[t] = "ERROR"}) IN
             IF errors = 0 THEN UNCHANGED faults ELSE Fault(errors)
        /\ reports' = [t \in Triples |-> IF t \in Group(s) THEN v[t] ELSE "none"]
        /\ said' = [t \in Triples |-> IF t \in Group(s) THEN <<predictions[t], v[t]>>
                                      ELSE said[t]]
  BY DEF Grade
<1>2. /\ run = "grading" /\ \A t \in Triples : reports[t] = "none"
      /\ UNCHANGED <<run, exit, threads, flags, predictions, writing, rec, turns, clean, fresh>>
  BY DEF Grade
<1>3. \A t \in Group(s) : t \in Triples /\ predictions[t] # 0 /\ v[t] \in Verdict
  BY <1>1 DEF Group, Verdict
<1>4. faults' \in Nat
  <2>1. IsFiniteSet(Triples)
    BY FS_Product DEF Triples
  <2>2. Cardinality({t \in Group(s) : v[t] = "ERROR"}) \in Nat
    BY <1>3, <2>1, FS_Subset, FS_CardinalityType
  <2>q. QED BY <1>1, <2>2 DEF Fault, IInv, TypeOK
<1>5. /\ reports' \in [Triples -> {"none"} \cup Verdict]
      /\ said' \in [Triples -> Nat \X ({"none"} \cup Verdict)]
  BY <1>1, <1>3 DEF IInv, TypeOK, Verdict
<1>6. TypeOK'
  BY <1>2, <1>4, <1>5 DEF IInv, TypeOK, threads, flags, Verdict
<1>7. DownInv' /\ ThreadInv' /\ CleanWorkIsGraded'
  BY <1>2 DEF DownInv, ThreadInv, CleanWorkIsGraded
<1>8. writing = {}
  BY <1>2 DEF IInv, GradeInv, TypeOK
<1>9. GradeInv'
  BY <1>1, <1>2, <1>3, <1>8 DEF IInv, GradeInv
<1>10. FreshInv'
  BY <1>2 DEF IInv, FreshInv, flags, Graded
<1>11. VerdictIsOfItsPatch'
  <2>1. \A t \in Group(s) : ~Settled(t)
    BY <1>3, <1>8 DEF IInv, GradeInv, Settled
  <2>q. QED BY <1>1, <1>2, <2>1 DEF IInv, VerdictIsOfItsPatch, Settled
<1>q. QED BY <1>6, <1>7, <1>9, <1>10, <1>11 DEF IInv

\* The record to rewrite is torn while its verdict is merged.
LEMMA OpenRecordStep ==
  ASSUME IInv, NEW t \in Triples, OpenRecord(t)
  PROVE  IInv'
<1>1. TypeOK'
  <2>1. rec' \in [Triples -> Records]
    BY Marked DEF IInv, OpenRecord
  <2>q. QED BY <2>1 DEF IInv, TypeOK, OpenRecord, threads, flags, history
<1>2. DownInv'
  BY DEF DownInv, OpenRecord
<1>3. ThreadInv'
  BY DEF IInv, TypeOK, ThreadInv, OpenRecord
<1>4. GradeInv'
  BY DEF IInv, TypeOK, GradeInv, OpenRecord, history
<1>5. FreshInv'
  BY DEF IInv, TypeOK, FreshInv, Graded, GradeInv, OpenRecord, flags, history
<1>6. VerdictIsOfItsPatch'
  BY DEF IInv, TypeOK, VerdictIsOfItsPatch, Settled, OpenRecord, history
<1>7. CleanWorkIsGraded'
  BY DEF CleanWorkIsGraded, OpenRecord
<1>q. QED BY <1>1, <1>2, <1>3, <1>4, <1>5, <1>6, <1>7 DEF IInv

\* A torn record gets the verdict it is owed.
LEMMA FlushMetaStep ==
  ASSUME IInv, NEW t \in Triples, FlushMeta(t)
  PROVE  IInv'
<1>1. TypeOK'
  <2>1. reports[t] \in Verdict
    BY DEF IInv, GradeInv, FlushMeta, TypeOK, Verdict
  <2>2. rec' \in [Triples -> Records]
    BY <2>1, Marked DEF IInv, FlushMeta
  <2>q. QED BY <2>2 DEF IInv, TypeOK, FlushMeta, threads, flags, grading, history
<1>2. DownInv'
  BY DEF DownInv, FlushMeta
<1>3. ThreadInv'
  BY DEF IInv, TypeOK, ThreadInv, FlushMeta
<1>4. GradeInv'
  BY DEF IInv, TypeOK, GradeInv, FlushMeta, grading, history
<1>5. FreshInv'
  BY DEF IInv, TypeOK, FreshInv, Graded, GradeInv, FlushMeta, flags, grading, history
<1>6. VerdictIsOfItsPatch'
  BY DEF IInv, TypeOK, VerdictIsOfItsPatch, Settled, GradeInv, FlushMeta, history
<1>7. CleanWorkIsGraded'
  BY DEF CleanWorkIsGraded, FlushMeta
<1>q. QED BY <1>1, <1>2, <1>3, <1>4, <1>5, <1>6, <1>7 DEF IInv

\* The rewritten record is complete, its prediction is used up.
LEMMA CloseRecordStep ==
  ASSUME IInv, NEW t \in Triples, CloseRecord(t)
  PROVE  IInv'
<1>1. TypeOK'
  <2>1. reports[t] \in Verdict
    BY DEF IInv, GradeInv, CloseRecord, TypeOK, Verdict
  <2>2. rec' \in [Triples -> Records]
    BY <2>1, Marked DEF IInv, CloseRecord
  <2>q. QED BY <2>2 DEF IInv, TypeOK, CloseRecord, threads, flags, history
<1>2. DownInv'
  BY DEF DownInv, CloseRecord
<1>3. ThreadInv'
  BY DEF IInv, TypeOK, ThreadInv, CloseRecord
<1>4. GradeInv'
  BY DEF IInv, TypeOK, GradeInv, CloseRecord, history
<1>5. FreshInv'
  BY DEF IInv, TypeOK, FreshInv, Graded, GradeInv, Verdict, CloseRecord, flags, history
<1>6. VerdictIsOfItsPatch'
  BY DEF IInv, TypeOK, VerdictIsOfItsPatch, Settled, GradeInv, CloseRecord, history
<1>7. CleanWorkIsGraded'
  BY DEF CleanWorkIsGraded, CloseRecord
<1>q. QED BY <1>1, <1>2, <1>3, <1>4, <1>5, <1>6, <1>7 DEF IInv

\* Nothing is left to grade: every fresh turn has its verdict.
LEMMA FinishStep ==
  ASSUME IInv, Finish
  PROVE  IInv'
<1>1. \A t \in Triples : predictions[t] = 0
  BY TripleParts DEF Finish, Group
<1>2. \A t \in fresh : Graded(t)
  BY <1>1 DEF IInv, TypeOK, FreshInv, Finish
<1>3. faults' \in Nat
  BY DEF Finish, IInv, TypeOK
<1>q. QED BY <1>2, <1>3, EndsStep DEF Finish

\* The failures that end a process.
LEMMA FailureStep ==
  ASSUME IInv, MergeFails \/ Crash \/ \E s \in Slots : GradeFails(s)
  PROVE  IInv'
<1>1. faults' \in Nat
  BY DEF MergeFails, Crash, GradeFails, Fault, IInv, TypeOK
<1>2. Ends("raised") \/ Ends("crash")
  BY DEF MergeFails, Crash, GradeFails
<1>q. QED BY <1>1, <1>2, EndsStep

\* A step that changes nothing keeps the invariant.
LEMMA StutterStep ==
  ASSUME IInv, UNCHANGED vars
  PROVE  IInv'
BY DEF vars, threads, flags, grading, history, IInv, TypeOK, DownInv, ThreadInv, TripleInv,
       GradeInv, FreshInv, VerdictIsOfItsPatch, CleanWorkIsGraded, At, Judgement, Graded,
       Settled

\* Every step keeps the invariant.
LEMMA Inductive == IInv /\ [Next]_vars => IInv'
<1> SUFFICES ASSUME IInv, [Next]_vars
             PROVE  IInv'
  OBVIOUS
<1>1. ASSUME NEW p \in Problems, Thread(p)
      PROVE  IInv'
  BY <1>1, BeginStep, PrepareStep, NextArmStep, StartFailsStep, TurnEndsStep,
     WriteRecordStep, WriteFailsStep, JudgeStep
  DEF Thread
<1>2. ASSUME NEW t \in Triples, Merge(t)
      PROVE  IInv'
  BY <1>2, OpenRecordStep, FlushMetaStep, CloseRecordStep DEF Merge
<1>3. CASE Start
  BY <1>3, StartStep
<1>4. CASE Drain
  BY <1>4, DrainStep
<1>5. CASE GradeAny
  BY <1>5, GradeStep, FailureStep DEF GradeAny
<1>6. CASE MergeFails \/ Crash
  BY <1>6, FailureStep
<1>7. CASE Finish
  BY <1>7, FinishStep
<1>8. CASE UNCHANGED vars
  BY <1>8, StutterStep
<1>q. QED BY <1>1, <1>2, <1>3, <1>4, <1>5, <1>6, <1>7, <1>8 DEF Next

\* The invariant holds before the first invocation.
LEMMA Initial == Init => IInv
<1> SUFFICES ASSUME Init
             PROVE  IInv
  OBVIOUS
<1>1. \A t \in Triples : rec[t].at = "absent" /\ ~Settled(t)
  BY DEF Init, Settled
<1>2. rec \in [Triples -> Records]
  BY DEF Init, Records
<1>3. TypeOK
  BY <1>2 DEF Init, TypeOK, Outcomes
<1>4. DownInv /\ ThreadInv /\ GradeInv /\ FreshInv
  BY DEF Init, DownInv, ThreadInv, GradeInv, FreshInv
<1>5. VerdictIsOfItsPatch /\ CleanWorkIsGraded
  BY <1>1 DEF Init, VerdictIsOfItsPatch, CleanWorkIsGraded
<1>q. QED BY <1>3, <1>4, <1>5 DEF IInv

-----------------------------------------------------------------------------
\* Where a triple can be, in every reachable state: see IInv's parts.
THEOREM Invariant == Spec => []IInv
BY Initial, Inductive, PTL DEF Spec

\* The variables keep their types (every step of image_run.py).
THEOREM TypeCorrect == Spec => []TypeOK
<1>1. IInv => TypeOK
  BY DEF IInv
<1>q. QED BY <1>1, Invariant, PTL

\* A terminal verdict in a record is the grader's word on the patch of the
\* triple's last turn (_finalize_record, run_one_arm).
THEOREM VerdictsMatch == Spec => []VerdictIsOfItsPatch
<1>1. IInv => VerdictIsOfItsPatch
  BY DEF IInv
<1>q. QED BY <1>1, Invariant, PTL

\* When the program returns or halts on the rate limit, every clean turn of the
\* invocation has its grader's verdict (run_image_arms' halt after the grading).
THEOREM CleanIsGraded == Spec => []CleanWorkIsGraded
<1>1. IInv => CleanWorkIsGraded
  BY DEF IInv
<1>q. QED BY <1>1, Invariant, PTL

-----------------------------------------------------------------------------
(***************************************************************************)
(* The results directory implements Campaign.                              *)
(***************************************************************************)
\* A step that moves records among the unsettled states, or not at all.
LEMMA Unseen ==
  ASSUME UNCHANGED <<turns, clean>>,
         \A t \in Triples : (Settled(t) <=> Settled(t)') /\ (Settled(t) => rec'[t].at = rec[t].at)
  PROVE  UNCHANGED C!vars
BY DEF C!vars

\* Merging a verdict settles the triple, once, or is not seen.
LEMMA SettleStep ==
  ASSUME IInv, NEW t \in Triples, FlushMeta(t) \/ CloseRecord(t)
  PROVE  [C!Next]_C!vars
<1> DEFINE old == [u \in Triples |-> IF Settled(u) THEN rec[u].at ELSE "open"]
           new == [u \in Triples |-> IF Settled(u)' THEN rec'[u].at ELSE "open"]
<1>1. /\ UNCHANGED <<turns, clean>> /\ rec'[t].at = reports[t]
      /\ \A u \in Triples \ {t} : rec'[u] = rec[u]
  BY DEF FlushMeta, CloseRecord, history, IInv, TypeOK, Records
<1>2. clean[t] /\ rec[t].at \in {"torn", reports[t]} /\ reports[t] \in Verdict
  BY DEF FlushMeta, CloseRecord, IInv, GradeInv, TypeOK, Verdict
<1>3. CASE rec[t].at = reports[t] \/ reports[t] = "ERROR"
  BY <1>1, <1>2, <1>3, Unseen DEF Settled
<1>4. CASE rec[t].at = "torn" /\ reports[t] \in Terminal
  <2>1. old[t] = "open" /\ new = [old EXCEPT ![t] = reports[t]]
    BY <1>1, <1>4 DEF Settled
  <2>2. C!Settle(t)
    BY <1>1, <1>2, <1>4, <2>1 DEF C!Settle
  <2>q. QED BY <2>2 DEF C!Next
<1>q. QED BY <1>2, <1>3, <1>4 DEF Verdict

\* The end of a turn is a turn of the campaign.
LEMMA TurnStep ==
  ASSUME IInv, NEW p \in Problems, TurnEnds(p)
  PROVE  [C!Next]_C!vars
<1> DEFINE u == <<p, slot[p]>>
<1>1. InHand(p, u)
  BY TheHeldOne DEF TurnEnds, Held
<1>2. u \in Triples /\ ~Settled(u)
  BY <1>1 DEF InHand
<1>3. \A t \in Triples : (Settled(t) <=> Settled(t)') /\ (Settled(t) => rec'[t].at = rec[t].at)
  BY <1>2 DEF TurnEnds, IInv, TypeOK, Settled
<1>4. /\ turns' = [turns EXCEPT ![u] = @ + 1]
      /\ \E ok \in BOOLEAN : clean' = [clean EXCEPT ![u] = ok]
  BY DEF TurnEnds
<1> HIDE DEF u
<1>5. C!Turn(u)
  BY <1>2, <1>3, <1>4 DEF C!Turn
<1>q. QED BY <1>2, <1>5 DEF C!Next

\* No other step is seen by a reader of the results.
LEMMA QuietStep ==
  ASSUME IInv, [Next]_vars,
         \A p \in Problems : ~TurnEnds(p), \A t \in Triples : ~FlushMeta(t) /\ ~CloseRecord(t)
  PROVE  UNCHANGED C!vars
<1>1. CASE UNCHANGED <<rec, turns, clean>>
  BY <1>1, Unseen DEF Settled
<1>2. ASSUME NEW p \in Problems, WriteRecord(p)
      PROVE  UNCHANGED C!vars
  <2> DEFINE u == <<p, slot[p]>>
  <2>1. InHand(p, u)
    BY <1>2, TheHeldOne DEF WriteRecord, Held
  <2>2. u \in Triples /\ ~Settled(u)
    BY <2>1 DEF InHand
  <2>q. QED BY <1>2, <2>2, Unseen DEF WriteRecord, IInv, TypeOK, Settled, history
<1>3. ASSUME NEW t \in Triples, OpenRecord(t)
      PROVE  UNCHANGED C!vars
  <2>1. ~Settled(t)
    BY <1>3 DEF OpenRecord, IInv, GradeInv, Settled
  <2>q. QED BY <1>3, <2>1, Unseen DEF OpenRecord, IInv, TypeOK, Settled, history
<1>4. ASSUME NEW p \in Problems, Thread(p), ~WriteRecord(p)
      PROVE  UNCHANGED <<rec, turns, clean>>
  BY <1>4 DEF Thread, Begin, Prepare, NextArm, StartFails, WriteFails, Judge, history
<1>5. ASSUME Start \/ Drain \/ GradeAny \/ MergeFails \/ Finish \/ Crash \/ UNCHANGED vars
      PROVE  UNCHANGED <<rec, turns, clean>>
  BY <1>5
  DEF Start, Drain, GradeAny, Grade, GradeFails, MergeFails, Finish, Crash, Ends, vars,
      history
<1>q. QED BY <1>1, <1>2, <1>3, <1>4, <1>5 DEF Next, Merge, Thread

\* Across crashes, halts and resumes a settled triple is never run or graded
\* again, and only a turn that may be graded is settled (--resume's filter).
THEOREM Refines == Spec => ImplementsCampaign
<1>1. Init => C!Init
  BY DEF Init, C!Init, Settled
<1>2. IInv /\ [Next]_vars => [C!Next]_C!vars
  <2> SUFFICES ASSUME IInv, [Next]_vars
               PROVE  [C!Next]_C!vars
    OBVIOUS
  <2>1. CASE \E p \in Problems : TurnEnds(p)
    BY <2>1, TurnStep
  <2>2. CASE \E t \in Triples : FlushMeta(t) \/ CloseRecord(t)
    BY <2>2, SettleStep
  <2>q. QED BY <2>1, <2>2, QuietStep
<1>q. QED BY <1>1, <1>2, Invariant, PTL DEF Spec, C!Spec, ImplementsCampaign

-----------------------------------------------------------------------------
(***************************************************************************)
(* What the results directory has from Campaign, by the refinement alone.  *)
(***************************************************************************)
Final == \A t \in Triples :
  Settled(t) => /\ Settled(t)' /\ rec'[t].at = rec[t].at
                /\ turns'[t] = turns[t] /\ clean'[t] = clean[t]

Earned == \A t \in Triples : (Settled(t) => clean[t]) /\ (clean[t] => turns[t] > 0)

\* A step of Campaign is a turn of an open triple, its settlement, or nothing.
LEMMA CampaignKeeps ==
  ASSUME TypeOK, [C!Next]_C!vars
  PROVE  Final /\ (Earned => Earned')
<1> DEFINE v == [t \in Triples |-> IF Settled(t) THEN rec[t].at ELSE "open"]
<1>1. /\ \A t \in Triples : (v[t] # "open") <=> Settled(t)
      /\ \A t \in Triples : (v'[t] # "open") <=> Settled(t)'
      /\ \A t \in Triples : Settled(t) => v[t] = rec[t].at
      /\ \A t \in Triples : Settled(t)' => v'[t] = rec'[t].at
  BY ImageAssumption DEF Settled
<1>2. \A w : v = w => \A t \in Triples : v[t] = w[t]
  OBVIOUS
<1>3. v \in [Triples -> {"open"} \cup Terminal]
  BY DEF Settled
<1>4. \/ UNCHANGED C!vars
      \/ \E u \in Triples : C!Turn(u) \/ C!Settle(u)
  BY DEF C!Next
<1>5. UNCHANGED C!vars => v' = v /\ turns' = turns /\ clean' = clean
  BY DEF C!vars
<1>6. \A u \in Triples : C!Turn(u) =>
        /\ v[u] = "open" /\ v' = v /\ turns' = [turns EXCEPT ![u] = @ + 1]
        /\ \E ok \in BOOLEAN : clean' = [clean EXCEPT ![u] = ok]
  BY DEF C!Turn
<1>7. \A u \in Triples : C!Settle(u) =>
        /\ v[u] = "open" /\ clean[u] /\ turns' = turns /\ clean' = clean
        /\ \E w \in Terminal : v' = [v EXCEPT ![u] = w]
  BY DEF C!Settle
<1> HIDE DEF v
<1>8. CASE v' = v /\ turns' = turns /\ clean' = clean
  BY <1>1, <1>8 DEF Final, Earned
<1>9. ASSUME NEW u \in Triples, C!Turn(u)
      PROVE  Final /\ (Earned => Earned')
  <2>1. \A t \in Triples \ {u} : turns'[t] = turns[t] /\ clean'[t] = clean[t]
    BY <1>6, <1>9 DEF TypeOK
  <2>2. turns[u] \in Nat /\ turns'[u] = turns[u] + 1 /\ ~Settled(u) /\ ~Settled(u)'
    BY <1>1, <1>6, <1>9 DEF TypeOK
  <2>3. v' = v
    BY <1>6, <1>9
  <2>q. QED BY <1>1, <2>1, <2>2, <2>3 DEF Final, Earned
<1>10. ASSUME NEW u \in Triples, C!Settle(u)
       PROVE  Final /\ (Earned => Earned')
  <2>1. \A t \in Triples \ {u} : v'[t] = v[t]
    BY <1>3, <1>7, <1>10
  <2>2. ~Settled(u) /\ clean[u] /\ turns' = turns /\ clean' = clean
    BY <1>1, <1>7, <1>10
  <2>q. QED BY <1>1, <2>1, <2>2 DEF Final, Earned
<1>q. QED BY <1>4, <1>5, <1>8, <1>9, <1>10

\* A terminal verdict in the results directory is final: no crash, halt or
\* resume changes it, and the triple gets no other agent turn.
THEOREM VerdictsAreFinal == Spec => C!SettledIsFinal
<1>1. IInv /\ [C!Next]_C!vars => Final
  BY CampaignKeeps DEF IInv
<1>2. Final => C!KeepsSettled
  BY ImageAssumption DEF Final, Settled, C!KeepsSettled
<1>q. QED
  BY <1>1, <1>2, Invariant, Refines, PTL DEF C!Spec, C!SettledIsFinal, ImplementsCampaign

\* Nothing is settled that was never run: a terminal verdict is of a triple
\* whose last turn was neither throttled nor aborted.
THEOREM VerdictsAreEarned == Spec => []C!SettledIsEarned
<1>1. Init => Earned
  BY ImageAssumption DEF Init, Earned, Settled
<1>2. IInv /\ Earned /\ [C!Next]_C!vars => Earned'
  BY CampaignKeeps DEF IInv
<1>3. Earned => C!SettledIsEarned
  BY DEF Earned, C!SettledIsEarned, Settled
<1>q. QED
  BY <1>1, <1>2, <1>3, Invariant, Refines, PTL DEF Spec, C!Spec, ImplementsCampaign

-----------------------------------------------------------------------------
(***************************************************************************)
(* No turn is repeated for nothing.  A triple that has had a turn for each *)
(* fault and one more is settled or about to be; and once an exception or  *)
(* a full disk is bound to end the invocation, no triple is that far, nor  *)
(* will it be after the turn it may still get.                             *)
(***************************************************************************)
\* Its last turn was a result that the invocation still holds.
InProgress(t) ==
  \/ predictions[t] # 0 /\ reports[t] # "ERROR"
  \/ run = "agents" /\ At(t, {"writing", "judging"}) /\ how[t[1]] = "clean"

\* The invocation will end without grading what it holds.
Doomed ==
  run = "agents" /\ (raised \/ diskFull
                     \/ \E p \in Problems : pc[p] = "writing" /\ how[p] = "aborted")

MayTurn(t) ==
  \/ pc[t[1]] = "queued" /\ ~Settled(t)
  \/ t[2] \in todo[t[1]]
  \/ At(t, {"turn"})

TurnInv(t) ==
  /\ turns[t] <= faults + 1
  /\ turns[t] = faults + 1 => Settled(t) \/ InProgress(t)
  /\ Doomed => turns[t] <= faults /\ (MayTurn(t) => turns[t] + 1 <= faults)

TurnsInv == \A t \in Triples : TurnInv(t)

\* A triple that may still get a turn in this invocation has one in hand.
LEMMA MayTurnIsOpen ==
  ASSUME IInv, TurnsInv, run = "agents", NEW t \in Triples, MayTurn(t)
  PROVE  turns[t] <= faults
<1>1. t[1] \in Problems /\ t[2] \in Slots
  BY TripleParts
<1>2. predictions[t] = 0 /\ ~Settled(t)
  BY DEF IInv, ThreadInv, TripleInv, MayTurn, At, Held
<1>3. ~At(t, {"writing", "judging"})
  BY <1>1 DEF IInv, ThreadInv, MayTurn, At, Held
<1>4. turns[t] # faults + 1
  BY <1>2, <1>3 DEF TurnsInv, TurnInv, InProgress
<1>5. turns[t] \in Nat /\ faults \in Nat /\ turns[t] <= faults + 1
  BY DEF IInv, TypeOK, TurnsInv, TurnInv
<1>q. QED BY <1>4, <1>5

\* A count at its limit leaves no room for a fault.
LEMMA NoneLeft ==
  ASSUME NEW n \in Nat, NEW f \in Nat, NEW g \in Nat, n <= f + 1, g >= f, n = g + 1
  PROVE  g = f
OBVIOUS

\* A step without a turn: what was in progress still is, or there was a fault.
LEMMA TurnsKept ==
  ASSUME IInv, TurnsInv, turns' = turns, faults' \in Nat, faults' >= faults,
         \A t \in Triples : Settled(t) \/ InProgress(t)
           => Settled(t)' \/ InProgress(t)' \/ faults' > faults,
         \A t \in Triples : MayTurn(t)' => MayTurn(t),
         Doomed' => Doomed \/ (run = "agents" /\ faults' > faults)
  PROVE  TurnsInv'
<1> SUFFICES ASSUME NEW t \in Triples PROVE TurnInv(t)'
  BY DEF TurnsInv
<1>1. turns[t] \in Nat /\ faults \in Nat /\ TurnInv(t)
  BY DEF IInv, TypeOK, TurnsInv
<1>2. turns'[t] <= faults' + 1
  BY <1>1 DEF TurnInv
<1>3. ASSUME turns'[t] = faults' + 1
      PROVE  Settled(t)' \/ InProgress(t)'
  <2>0. turns'[t] = turns[t] /\ turns[t] <= faults + 1
    BY <1>1 DEF TurnInv
  <2>1. faults' = faults
    BY <1>1, <1>3, <2>0, NoneLeft
  <2>2. Settled(t) \/ InProgress(t)
    BY <1>1, <1>3, <2>0, <2>1 DEF TurnInv
  <2>q. QED BY <1>1, <2>1, <2>2
<1>4. ASSUME Doomed'
      PROVE  turns'[t] <= faults' /\ (MayTurn(t)' => turns'[t] + 1 <= faults')
  <2>1. CASE Doomed
    BY <1>1, <2>1 DEF TurnInv
  <2>2. CASE run = "agents" /\ faults' > faults
    BY <1>1, <2>2, MayTurnIsOpen DEF TurnInv
  <2>q. QED BY <1>4, <2>1, <2>2
<1>q. QED BY <1>2, <1>3, <1>4 DEF TurnInv

\* The end of a process: what it held in memory was bought by a fault.
LEMMA TurnsEnd ==
  ASSUME IInv, TurnsInv, NEW x, Ends(x), faults' \in Nat, faults' >= faults,
         \A t \in Triples : turns[t] <= faults' \/ Settled(t)
  PROVE  TurnsInv'
<1> SUFFICES ASSUME NEW t \in Triples PROVE TurnInv(t)'
  BY DEF TurnsInv
<1>1. /\ turns[t] \in Nat /\ faults \in Nat /\ turns[t] <= faults + 1
  BY DEF IInv, TypeOK, TurnsInv, TurnInv
<1>2. turns' = turns /\ (Settled(t) => Settled(t)') /\ ~Doomed'
  BY DEF Ends, history, Settled, Doomed
<1>q. QED BY <1>1, <1>2 DEF TurnInv

\* The steps of the agent pass that leave the records alone.
LEMMA ThreadTurns ==
  ASSUME IInv, TurnsInv, NEW p \in Problems,
         Begin(p) \/ Prepare(p) \/ NextArm(p) \/ StartFails(p)
  PROVE  TurnsInv'
<1>1. /\ turns' = turns /\ run = "agents" /\ rec' = rec
      /\ UNCHANGED <<run, how, predictions, reports>>
  BY DEF Begin, Prepare, NextArm, StartFails, grading, history
<1>2. \A q \in Problems \ {p} : /\ pc'[q] = pc[q] /\ todo'[q] = todo[q] /\ slot'[q] = slot[q]
  BY DEF IInv, TypeOK, Begin, Prepare, NextArm, StartFails
<1>3. pc[p] \in {"queued", "preparing", "looping"} /\ pc'[p] \notin {"writing", "judging"}
  BY DEF IInv, TypeOK, Begin, Prepare, NextArm, StartFails
<1>4. /\ faults' \in Nat /\ faults' >= faults
      /\ faults' > faults \/ UNCHANGED <<raised, diskFull>>
  BY DEF IInv, TypeOK, Begin, Prepare, NextArm, StartFails, Fault, flags
<1>5. ASSUME NEW t \in Triples
      PROVE  /\ Settled(t) \/ InProgress(t) => Settled(t)' \/ InProgress(t)'
             /\ MayTurn(t)' => MayTurn(t)
  <2>1. t[1] \in Problems /\ t[2] \in Slots /\ t = <<t[1], t[2]>>
    BY TripleParts
  <2>2. Settled(t)' <=> Settled(t)
    BY <1>1 DEF Settled
  <2>3. InProgress(t) => InProgress(t)'
    BY <1>1, <1>2, <1>3, <2>1 DEF InProgress, At
  <2>4. MayTurn(t)' => MayTurn(t)
    <3>1. CASE t[1] # p
      BY <1>2, <2>1, <2>2, <3>1 DEF MayTurn, At
    <3>2. CASE t[1] = p /\ Begin(p)
      <4>1. /\ pc[p] = "queued" /\ pc'[p] \in {"ended", "preparing"}
            /\ todo'[p] \subseteq Todo(p)
        BY <3>2 DEF Begin, IInv, TypeOK
      <4>2. t[2] \in Todo(p) => ~Settled(t)
        BY <2>1, <3>2 DEF Todo
      <4>q. QED BY <2>2, <3>2, <4>1, <4>2 DEF MayTurn, At
    <3>3. CASE t[1] = p /\ (Prepare(p) \/ StartFails(p))
      <4>1. pc'[p] \in {"looping", "ended"} /\ todo' = todo
        BY <3>3 DEF Prepare, StartFails, IInv, TypeOK
      <4>q. QED BY <3>3, <4>1 DEF MayTurn, At
    <3>4. CASE t[1] = p /\ NextArm(p)
      <4>1. \/ pc'[p] = "ended" /\ todo' = todo
            \/ /\ pc'[p] = "turn" /\ slot'[p] \in todo[p]
               /\ todo'[p] \subseteq todo[p]
        BY <3>4 DEF NextArm, IInv, TypeOK
      <4>q. QED BY <3>4, <4>1 DEF MayTurn, At
    <3>q. QED BY <2>1, <3>1, <3>2, <3>3, <3>4
  <2>q. QED BY <2>2, <2>3, <2>4
<1>6. Doomed' => Doomed \/ faults' > faults
  BY <1>1, <1>2, <1>3, <1>4 DEF Doomed
<1>q. QED BY <1>1, <1>4, <1>5, <1>6, TurnsKept

\* A turn: the triple had one to spare, and now its result is in hand or the
\* turn was itself a fault.
LEMMA TurnEndsTurns ==
  ASSUME IInv, TurnsInv, NEW p \in Problems, TurnEnds(p)
  PROVE  TurnsInv'
<1>1. PICK u \in Triples :
        u = <<p, slot[p]>> /\ InHand(p, u) /\ run = "agents" /\ pc[p] = "turn"
  BY TheHeldOne DEF TurnEnds, Held, InHand
<1>2. PICK o \in {"clean", "throttled", "aborted"} :
        /\ IF o = "clean" THEN UNCHANGED faults ELSE Fault(1)
        /\ how' = [how EXCEPT ![p] = o]
  BY DEF TurnEnds
<1>3. u \in Triples /\ u[1] = p /\ u[2] = slot[p]
  BY <1>1 DEF InHand
<1>4. /\ turns'[u] = turns[u] + 1
      /\ \A t \in Triples \ {u} : turns'[t] = turns[t] /\ rec'[t] = rec[t]
  BY <1>1, <1>3 DEF TurnEnds, IInv, TypeOK
<1>5. /\ pc'[p] = "writing" /\ how'[p] = o
      /\ \A q \in Problems \ {p} : pc'[q] = pc[q] /\ how'[q] = how[q]
      /\ UNCHANGED <<run, todo, slot, predictions, reports, raised, diskFull>>
  BY <1>2 DEF TurnEnds, IInv, TypeOK, flags, grading
<1>6. /\ faults \in Nat /\ faults' \in Nat
      /\ o = "clean" => faults' = faults
      /\ o # "clean" => faults' = faults + 1
  BY <1>2 DEF Fault, IInv, TypeOK
<1>7. MayTurn(u) /\ turns[u] \in Nat /\ turns[u] <= faults
  BY <1>1, <1>3, MayTurnIsOpen DEF MayTurn, At, IInv, TypeOK
<1>8. slot[p] \notin todo[p] /\ \A t \in Triples : t[1] = p /\ t[2] = slot[p] => t = u
  BY <1>1 DEF InHand
<1>9. Doomed' => Doomed \/ faults' = faults + 1
  BY <1>1, <1>5, <1>6 DEF Doomed
<1>10. TurnInv(u)'
  <2>1. turns'[u] <= faults' + 1
    BY <1>4, <1>6, <1>7
  <2>2. turns'[u] = faults' + 1 => InProgress(u)'
    BY <1>1, <1>3, <1>4, <1>5, <1>6, <1>7 DEF InProgress, At
  <2>3. ASSUME Doomed' PROVE turns'[u] <= faults'
    <3>1. CASE Doomed
      BY <1>3, <1>4, <1>6, <1>7, <3>1 DEF TurnsInv, TurnInv
    <3>2. CASE faults' = faults + 1
      BY <1>4, <1>6, <1>7, <3>2
    <3>q. QED BY <1>9, <2>3, <3>1, <3>2
  <2>4. ~MayTurn(u)'
    BY <1>3, <1>5, <1>8 DEF MayTurn, At
  <2>q. QED BY <2>1, <2>2, <2>3, <2>4 DEF TurnInv
<1>11. ASSUME NEW t \in Triples \ {u} PROVE TurnInv(t)'
  <2>0. t[1] \in Problems /\ TurnInv(t) /\ turns[t] \in Nat
    BY TripleParts DEF TurnsInv, IInv, TypeOK
  <2>1. (Settled(t) => Settled(t)') /\ (InProgress(t) => InProgress(t)')
    BY <1>1, <1>4, <1>5, <2>0 DEF Settled, InProgress, At
  <2>2. MayTurn(t)' => MayTurn(t)
    BY <1>1, <1>4, <1>5, <2>0 DEF MayTurn, At, Settled
  <2>3. MayTurn(t) => turns[t] <= faults
    BY <1>1, MayTurnIsOpen
  <2>q. QED BY <1>4, <1>6, <1>9, <2>0, <2>1, <2>2, <2>3 DEF TurnInv
<1>q. QED BY <1>10, <1>11 DEF TurnsInv

\* The record of a turn is written, or cannot be.
LEMMA WriteTurns ==
  ASSUME IInv, TurnsInv, NEW p \in Problems, WriteRecord(p) \/ WriteFails(p)
  PROVE  TurnsInv'
<1>1. PICK u \in Triples :
        u = <<p, slot[p]>> /\ InHand(p, u) /\ run = "agents" /\ pc[p] = "writing"
  BY TheHeldOne DEF WriteRecord, WriteFails, Held, InHand
<1>2. /\ turns' = turns /\ UNCHANGED <<run, todo, slot, how, predictions, reports, diskFull>>
      /\ \A q \in Problems \ {p} : pc'[q] = pc[q]
      /\ \A t \in Triples \ {u} : rec'[t] = rec[t]
      /\ rec[u].at = "torn" /\ rec'[u].at \in {"torn", "PENDING"}
  BY <1>1 DEF WriteRecord, WriteFails, IInv, TypeOK, grading, history, InHand
<1>3. \/ WriteFails(p) /\ faults' = faults + 1 /\ pc'[p] = "ended"
      \/ /\ faults' = faults /\ raised' = (raised \/ how[p] = "aborted")
         /\ pc'[p] = IF how[p] = "aborted" THEN "ended" ELSE "judging"
  BY DEF WriteRecord, WriteFails, Fault, IInv, TypeOK
<1>4. faults \in Nat /\ faults' \in Nat /\ faults' >= faults
      /\ (faults' = faults + 1 => faults' > faults)
  BY <1>3 DEF IInv, TypeOK
<1>5. ASSUME NEW t \in Triples
      PROVE  /\ Settled(t) \/ InProgress(t) => Settled(t)' \/ InProgress(t)' \/ faults' > faults
             /\ MayTurn(t)' => MayTurn(t)
  <2>1. t[1] \in Problems /\ (t[1] = p /\ t[2] = slot[p] => t = u)
    BY <1>1, TripleParts DEF InHand
  <2>2. Settled(t)' <=> Settled(t)
    BY <1>2 DEF Settled
  <2>3. InProgress(t) => InProgress(t)' \/ faults' > faults
    BY <1>1, <1>2, <1>3, <1>4, <2>1 DEF InProgress, At
  <2>4. MayTurn(t)' => MayTurn(t)
    BY <1>1, <1>2, <1>3, <2>1, <2>2 DEF MayTurn, At
  <2>q. QED BY <2>2, <2>3, <2>4
<1>6. Doomed' => Doomed \/ (run = "agents" /\ faults' > faults)
  BY <1>1, <1>2, <1>3, <1>4 DEF Doomed
<1>q. QED BY <1>2, <1>4, <1>5, <1>6, TurnsKept

\* A clean turn goes from its thread's hands to the grader.
LEMMA JudgeTurns ==
  ASSUME IInv, TurnsInv, NEW p \in Problems, Judge(p)
  PROVE  TurnsInv'
<1>1. PICK u \in Triples :
        u = <<p, slot[p]>> /\ InHand(p, u) /\ run = "agents" /\ pc[p] = "judging"
  BY TheHeldOne DEF Judge, Held, InHand
<1>2. /\ turns' = turns /\ faults' = faults /\ rec' = rec
      /\ UNCHANGED <<run, todo, slot, how, reports, raised, diskFull>>
      /\ pc'[p] \in {"looping", "ended"} /\ \A q \in Problems \ {p} : pc'[q] = pc[q]
  BY DEF Judge, IInv, TypeOK, history
<1>3. /\ \A t \in Triples \ {u} : predictions'[t] = predictions[t]
      /\ how[p] = "clean" => predictions'[u] # 0
  <2>1. CASE BacksOff(u)
    <3>1. predictions' = predictions /\ how[p] # "clean"
      BY <1>1, <2>1 DEF Judge, BacksOff, InHand
    <3>q. QED BY <3>1
  <2>2. CASE ~BacksOff(u)
    <3>1. predictions' = [predictions EXCEPT ![u] = rec[u].of] /\ rec[u].of # 0
      BY <1>1, <2>2 DEF Judge, InHand
    <3>q. QED BY <3>1 DEF IInv, TypeOK
  <2>q. QED BY <2>1, <2>2
<1>4. ASSUME NEW t \in Triples
      PROVE  /\ Settled(t) \/ InProgress(t) => Settled(t)' \/ InProgress(t)'
             /\ MayTurn(t)' => MayTurn(t)
  <2>1. t[1] \in Problems /\ (t[1] = p /\ t[2] = slot[p] => t = u)
    BY <1>1, TripleParts DEF InHand
  <2>2. Settled(t)' <=> Settled(t)
    BY <1>2 DEF Settled
  <2>3. InProgress(t) => InProgress(t)'
    BY <1>1, <1>2, <1>3, <2>1 DEF InProgress, At, InHand
  <2>4. MayTurn(t)' => MayTurn(t)
    BY <1>1, <1>2, <2>1, <2>2 DEF MayTurn, At
  <2>q. QED BY <2>2, <2>3, <2>4
<1>5. Doomed' => Doomed
  BY <1>1, <1>2 DEF Doomed
<1>6. faults' \in Nat /\ faults' >= faults
  BY <1>2 DEF IInv, TypeOK
<1>q. QED BY <1>2, <1>4, <1>5, <1>6, TurnsKept

\* What ends a process before its time is a fault, and what ends it in time
\* finds nothing in progress.
LEMMA EndTurns ==
  ASSUME IInv, TurnsInv, MergeFails \/ Crash \/ Finish \/ \E s \in Slots : GradeFails(s)
  PROVE  TurnsInv'
<1>1. faults \in Nat
  BY DEF IInv, TypeOK
<1>2. CASE MergeFails \/ Crash \/ \E s \in Slots : GradeFails(s)
  <2>1. faults' = faults + 1 /\ \E x : Ends(x)
    BY <1>2 DEF MergeFails, Crash, GradeFails, Fault
  <2>2. \A t \in Triples : turns[t] <= faults'
    BY <2>1 DEF TurnsInv, TurnInv
  <2>3. faults' \in Nat /\ faults' >= faults
    BY <1>1, <2>1
  <2>q. QED BY <2>1, <2>2, <2>3, TurnsEnd
<1>3. CASE Finish
  <2>1. /\ faults' = faults /\ run = "grading" /\ \E x : Ends(x)
        /\ \A t \in Triples : predictions[t] = 0
    BY <1>3, TripleParts DEF Finish, Group
  <2>2. ASSUME NEW t \in Triples PROVE turns[t] <= faults' \/ Settled(t)
    <3>1. ~InProgress(t)
      BY <2>1 DEF InProgress
    <3>2. turns[t] <= faults + 1 /\ (turns[t] = faults + 1 => Settled(t)) /\ turns[t] \in Nat
      BY <3>1 DEF TurnsInv, TurnInv, IInv, TypeOK
    <3>q. QED BY <1>1, <2>1, <3>2
  <2>3. faults' \in Nat /\ faults' >= faults
    BY <1>1, <2>1
  <2>q. QED BY <2>1, <2>2, <2>3, TurnsEnd
<1>q. QED BY <1>2, <1>3

\* The pool has drained: an exception ends it, or the grading begins.
LEMMA DrainTurns ==
  ASSUME IInv, TurnsInv, Drain
  PROVE  TurnsInv'
<1>1. faults' = faults /\ faults \in Nat /\ run = "agents" /\ Drained
  BY DEF Drain, IInv, TypeOK
<1>2. faults' \in Nat /\ faults' >= faults
  BY <1>1
<1>3. CASE raised \/ diskFull
  <2>1. Doomed /\ \E x : Ends(x)
    BY <1>1, <1>3 DEF Doomed, Drain
  <2>2. \A t \in Triples : turns[t] <= faults'
    BY <1>1, <2>1 DEF TurnsInv, TurnInv
  <2>q. QED BY <1>2, <2>1, <2>2, TurnsEnd
<1>4. CASE ~(raised \/ diskFull)
  <2>1. run' = "grading" /\ UNCHANGED <<threads, grading, rec, history>>
    BY <1>4 DEF Drain
  <2>2. \A q \in Problems : pc[q] \in {"queued", "ended"}
    BY <1>1 DEF Drained, Busy
  <2>3. ASSUME NEW t \in Triples
        PROVE  /\ Settled(t) \/ InProgress(t) => Settled(t)' \/ InProgress(t)'
               /\ MayTurn(t)' => MayTurn(t)
    <3>1. t[1] \in Problems
      BY TripleParts
    <3>2. (Settled(t)' <=> Settled(t)) /\ (MayTurn(t)' <=> MayTurn(t))
      BY <2>1 DEF MayTurn, At, Settled, threads
    <3>3. InProgress(t) => InProgress(t)'
      BY <2>1, <2>2, <3>1 DEF InProgress, At, grading
    <3>q. QED BY <3>2, <3>3
  <2>4. ~Doomed'
    BY <2>1 DEF Doomed
  <2>5. turns' = turns
    BY <2>1 DEF history
  <2>q. QED BY <1>2, <2>3, <2>4, <2>5, TurnsKept
<1>q. QED BY <1>3, <1>4

\* An error of the grader is a fault; a verdict is on its way to the record.
LEMMA GradeTurns ==
  ASSUME IInv, TurnsInv, NEW s \in Slots, Grade(s)
  PROVE  TurnsInv'
<1>1. PICK v \in [Group(s) -> {"ERROR"} \cup Terminal] :
        /\ LET errors == Cardinality({t \in Group(s) : v[t] = "ERROR"}) IN
             IF errors = 0 THEN UNCHANGED faults ELSE Fault(errors)
        /\ reports' = [t \in Triples |-> IF t \in Group(s) THEN v[t] ELSE "none"]
  BY DEF Grade
<1> DEFINE E == {t \in Group(s) : v[t] = "ERROR"}
<1>2. /\ run = "grading" /\ \A t \in Triples : reports[t] = "none"
      /\ turns' = turns /\ run' = run
      /\ UNCHANGED <<pc, todo, slot, how, predictions, rec>>
  BY DEF Grade, threads
<1>3. Cardinality(E) \in Nat /\ (E # {} => Cardinality(E) # 0)
  <2>1. IsFiniteSet(Triples)
    BY FS_Product DEF Triples
  <2>2. E \subseteq Triples
    BY DEF Group
  <2>q. QED BY <2>1, <2>2, FS_Subset, FS_CardinalityType, FS_EmptySet
<1>4. /\ faults \in Nat /\ faults' \in Nat /\ faults' >= faults
      /\ E # {} => faults' > faults
  <2>1. IF Cardinality(E) = 0 THEN faults' = faults ELSE faults' = faults + Cardinality(E)
    BY <1>1 DEF Fault
  <2>2. faults \in Nat
    BY DEF IInv, TypeOK
  <2> HIDE DEF E
  <2>q. QED BY <1>3, <2>1, <2>2
<1>5. ASSUME NEW t \in Triples
      PROVE  /\ Settled(t) \/ InProgress(t) => Settled(t)' \/ InProgress(t)' \/ faults' > faults
             /\ MayTurn(t)' => MayTurn(t)
  <2>1. (Settled(t)' <=> Settled(t)) /\ (MayTurn(t)' <=> MayTurn(t))
    BY <1>2 DEF MayTurn, At, Settled
  <2>2. ASSUME predictions[t] # 0, reports'[t] = "ERROR" PROVE faults' > faults
    <3>1. t \in E
      BY <1>1, <2>2, ImageAssumption
    <3>q. QED BY <1>4, <3>1
  <2>3. InProgress(t) => InProgress(t)' \/ faults' > faults
    BY <1>2, <2>2 DEF InProgress
  <2>q. QED BY <2>1, <2>3
<1>6. ~Doomed'
  BY <1>2 DEF Doomed
<1>q. QED BY <1>2, <1>4, <1>5, <1>6, TurnsKept

\* The merge of a verdict settles the triple it is of.
LEMMA MergeTurns ==
  ASSUME IInv, TurnsInv, NEW t \in Triples, OpenRecord(t) \/ FlushMeta(t) \/ CloseRecord(t)
  PROVE  TurnsInv'
<1>1. /\ run = "grading" /\ run' = run /\ turns' = turns /\ faults' = faults
      /\ UNCHANGED <<pc, todo, slot, how>>
      /\ \A u \in Triples \ {t} :
           rec'[u] = rec[u] /\ predictions'[u] = predictions[u] /\ reports'[u] = reports[u]
  BY DEF OpenRecord, FlushMeta, CloseRecord, IInv, TypeOK, grading, threads, history
<1>2. faults' \in Nat /\ faults' >= faults
  BY <1>1 DEF IInv, TypeOK
<1>3. /\ reports[t] # "none" /\ predictions[t] # 0 /\ reports[t] \in Verdict
      /\ rec[t].at \in {"PENDING", "torn", reports[t]}
  BY DEF OpenRecord, FlushMeta, CloseRecord, IInv, TypeOK, GradeInv, Verdict
<1>4. \/ /\ UNCHANGED <<predictions, reports>> /\ rec[t].at \in {"PENDING", "torn"}
         /\ rec'[t].at \in {"torn", reports[t]}
      \/ rec'[t].at = reports[t]
  BY DEF OpenRecord, FlushMeta, CloseRecord, IInv, TypeOK, GradeInv, grading, Records
<1>5. Settled(t) \/ InProgress(t) => Settled(t)' \/ InProgress(t)'
  <2>1. CASE reports[t] = "ERROR"
    BY <1>1, <1>3, <1>4, <2>1 DEF Settled, InProgress
  <2>2. CASE reports[t] \in Terminal
    BY <1>1, <1>3, <1>4, <2>2 DEF Settled, InProgress
  <2>q. QED BY <1>3, <2>1, <2>2 DEF Verdict
<1>6. ASSUME NEW u \in Triples
      PROVE  Settled(u) \/ InProgress(u) => Settled(u)' \/ InProgress(u)'
  BY <1>1, <1>5 DEF Settled, InProgress
<1>7. ~Doomed' /\ ~Doomed
  BY <1>1 DEF Doomed
<1> QED
  <2> SUFFICES ASSUME NEW u \in Triples PROVE TurnInv(u)'
    BY DEF TurnsInv
  <2>q. QED BY <1>1, <1>6, <1>7 DEF TurnsInv, TurnInv

LEMMA StartTurns ==
  ASSUME IInv, TurnsInv, Start \/ UNCHANGED vars
  PROVE  TurnsInv'
<1>1. /\ turns' = turns /\ faults' = faults
      /\ UNCHANGED <<pc, todo, slot, how, raised, diskFull, predictions, reports, rec>>
      /\ run' = run \/ Start
  BY DEF Start, vars, threads, flags, grading, history
<1>2. faults' \in Nat /\ faults' >= faults
  BY <1>1 DEF IInv, TypeOK
<1>3. ASSUME NEW t \in Triples
      PROVE  /\ Settled(t) \/ InProgress(t) => Settled(t)' \/ InProgress(t)'
             /\ MayTurn(t)' => MayTurn(t)
  BY <1>1 DEF Start, Settled, InProgress, MayTurn, At
<1>4. Doomed' => Doomed
  <2>1. CASE Start
    BY <1>1, <2>1 DEF Start, Doomed, IInv, DownInv
  <2>2. CASE run' = run
    BY <1>1, <2>2 DEF Doomed
  <2>q. QED BY <1>1, <2>1, <2>2
<1>q. QED BY <1>1, <1>2, <1>3, <1>4, TurnsKept

LEMMA TurnsInductive == IInv /\ TurnsInv /\ [Next]_vars => TurnsInv'
<1> SUFFICES ASSUME IInv, TurnsInv, [Next]_vars PROVE TurnsInv'
  OBVIOUS
<1>1. ASSUME NEW p \in Problems, Thread(p) PROVE TurnsInv'
  BY <1>1, ThreadTurns, TurnEndsTurns, WriteTurns, JudgeTurns DEF Thread
<1>2. ASSUME NEW t \in Triples, Merge(t) PROVE TurnsInv'
  BY <1>2, MergeTurns DEF Merge
<1>3. CASE Start \/ UNCHANGED vars
  BY <1>3, StartTurns
<1>4. CASE Drain
  BY <1>4, DrainTurns
<1>5. CASE GradeAny \/ MergeFails \/ Finish \/ Crash
  BY <1>5, GradeTurns, EndTurns DEF GradeAny
<1>q. QED BY <1>1, <1>2, <1>3, <1>4, <1>5 DEF Next

\* However often the program is killed, halted and resumed, a triple's agent
\* turn is repeated at most once for each thing that went wrong.
THEOREM TurnsBounded == Spec => []TurnsAreBounded
<1>1. Init => TurnsInv
  <2> SUFFICES ASSUME Init, NEW t \in Triples PROVE TurnInv(t)
    BY DEF TurnsInv
  <2>1. turns[t] = 0 /\ faults = 0 /\ run = "down"
    BY DEF Init
  <2>q. QED BY <2>1 DEF TurnInv, Doomed
<1>2. IInv /\ TurnsInv => TurnsAreBounded
  BY DEF TurnsInv, TurnInv, TurnsAreBounded
<1>q. QED BY <1>1, <1>2, Initial, Inductive, TurnsInductive, PTL DEF Spec

-----------------------------------------------------------------------------
(***************************************************************************)
(* Nothing is passed over.  As long as nothing has gone wrong, every       *)
(* triple without a verdict is waiting, in a thread's hands, or put up for *)
(* grading; the rate limit is what remains to be told apart at the end.    *)
(***************************************************************************)
Waits(t) == pc[t[1]] = "queued" \/ t[2] \in todo[t[1]] \/ At(t, Held)

PassInv ==
  run = "agents" /\ ~raised /\ ~diskFull /\ ~limited =>
    /\ ~stop
    /\ \A p \in Problems : pc[p] = "ended" => todo[p] = {}
    /\ \A t \in Triples : Settled(t) \/ predictions[t] # 0 \/ Waits(t)

MergeInv ==
  run = "grading" /\ ~limited =>
    \A t \in Triples : predictions[t] # 0 \/ rec[t].at \in Verdict

LeftInv == PassInv /\ MergeInv /\ DoneIsDone /\ (run = "down" => ~stop)

\* The agent pass.  p's thread moves; what the others have stays where it is.
LEMMA ThreadLeaves ==
  ASSUME IInv, LeftInv, NEW p \in Problems, Thread(p)
  PROVE  LeftInv'
<1>1. run = "agents" /\ run' = "agents" /\ exit' = exit
  BY DEF Thread, Begin, Prepare, NextArm, StartFails, TurnEnds, WriteRecord, WriteFails, Judge
<1>2. \A q \in Problems \ {p} : pc'[q] = pc[q] /\ todo'[q] = todo[q] /\ slot'[q] = slot[q]
  BY DEF IInv, TypeOK, Thread, Begin, Prepare, NextArm, StartFails, TurnEnds, WriteRecord,
         WriteFails, Judge
<1> SUFFICES ASSUME ~raised', ~diskFull', ~limited' PROVE PassInv'
  BY <1>1 DEF LeftInv, PassInv, MergeInv, DoneIsDone
<1>3. ~raised /\ ~diskFull /\ ~limited
  BY DEF Thread, Begin, Prepare, NextArm, StartFails, TurnEnds, WriteRecord, WriteFails, Judge,
         flags, IInv, TypeOK
<1>4. ~stop /\ ~stop'
  BY <1>1, <1>3
  DEF LeftInv, PassInv, Thread, Begin, Prepare, NextArm, StartFails, TurnEnds, WriteRecord,
      WriteFails, Judge, flags
<1>5. ~StartFails(p) /\ ~WriteFails(p)
  BY DEF StartFails, WriteFails
<1>6. pc'[p] = "ended" => todo'[p] = {}
  BY <1>4, <1>5
  DEF IInv, TypeOK, Thread, Begin, Prepare, NextArm, TurnEnds, WriteRecord, Judge, flags
<1>7. ASSUME NEW t \in Triples PROVE (Settled(t) \/ predictions[t] # 0 \/ Waits(t))'
  <2>0. t[1] \in Problems /\ t[2] \in Slots /\ t = <<t[1], t[2]>>
    BY TripleParts
  <2>1. Settled(t) \/ predictions[t] # 0 \/ Waits(t)
    BY <1>1, <1>3 DEF LeftInv, PassInv
  <2>2. CASE Begin(p)
    <3>1. /\ rec' = rec /\ predictions' = predictions
          /\ todo'[p] = Todo(p) \/ pc'[p] = "queued"
      BY <1>4, <2>2 DEF Begin, IInv, TypeOK, grading
    <3>2. t[1] = p => t[2] \in Todo(p) \/ Settled(t)
      BY <2>0 DEF Todo
    <3>q. QED BY <1>2, <2>0, <2>1, <3>1, <3>2 DEF Waits, At, Settled
  <2>3. CASE Prepare(p)
    BY <1>2, <2>0, <2>1, <2>3 DEF Prepare, Waits, At, Held, Settled, IInv, TypeOK, grading
  <2>4. CASE NextArm(p)
    BY <1>2, <1>4, <2>0, <2>1, <2>4 DEF NextArm, Waits, At, Held, Settled, IInv, TypeOK, grading
  <2>5. CASE TurnEnds(p) \/ WriteRecord(p)
    <3>1. PICK u : u = <<p, slot[p]>>
      OBVIOUS
    <3>2. \/ t = u
          \/ rec'[t] = rec[t]
      BY <2>5, <3>1 DEF TurnEnds, WriteRecord, IInv, TypeOK
    <3>3. /\ pc[p] \in {"turn", "writing"} /\ pc'[p] \in {"writing", "judging", "ended"}
          /\ UNCHANGED <<slot, todo, predictions>>
      BY <2>5 DEF TurnEnds, WriteRecord, IInv, TypeOK, grading
    <3>4. pc'[p] # "ended"
      BY <2>5 DEF TurnEnds, WriteRecord, IInv, TypeOK
    <3>q. QED BY <1>2, <2>0, <2>1, <3>1, <3>2, <3>3, <3>4 DEF Waits, At, Held, Settled
  <2>6. CASE Judge(p)
    <3>1. PICK u \in Triples :
            u = <<p, slot[p]>> /\ InHand(p, u) /\ pc[p] = "judging"
      BY <1>1, <2>6, TheHeldOne DEF Judge, Held, InHand
    <3>2. /\ predictions' = [predictions EXCEPT ![u] = rec[u].of] /\ rec[u].of # 0
          /\ pc'[p] = "looping" /\ UNCHANGED <<slot, todo, rec>>
      BY <2>6, <3>1 DEF Judge, InHand, IInv, TypeOK
    <3>3. \/ t = u /\ predictions'[t] # 0
          \/ t # u /\ predictions'[t] = predictions[t]
      BY <3>1, <3>2 DEF IInv, TypeOK
    <3>q. QED BY <1>2, <2>0, <2>1, <3>1, <3>2, <3>3 DEF Waits, At, Held, Settled
  <2>q. QED BY <1>5, <2>2, <2>3, <2>4, <2>5, <2>6 DEF Thread
<1>8. \A q \in Problems : pc'[q] = "ended" => todo'[q] = {}
  BY <1>1, <1>2, <1>3, <1>6 DEF LeftInv, PassInv
<1>q. QED BY <1>4, <1>7, <1>8 DEF PassInv

\* The pool has drained without a loss: all the rest is put up for grading.
LEMMA DrainLeaves ==
  ASSUME IInv, LeftInv, Drain
  PROVE  LeftInv'
<1>1. CASE raised \/ diskFull
  BY <1>1 DEF Drain, Ends, LeftInv, PassInv, MergeInv, DoneIsDone
<1>2. CASE ~(raised \/ diskFull)
  <2>1. /\ run = "agents" /\ run' = "grading" /\ Drained
        /\ UNCHANGED <<predictions, rec, limited>>
    BY <1>2 DEF Drain, flags, grading
  <2>2. \A p \in Problems : pc[p] = "ended"
    BY <1>2, <2>1 DEF Drained, Abandoned
  <2>3. ASSUME ~limited, NEW t \in Triples PROVE predictions[t] # 0 \/ rec[t].at \in Verdict
    BY <1>2, <2>1, <2>2, <2>3, TripleParts
    DEF LeftInv, PassInv, Waits, At, Held, Settled, Verdict
  <2>q. QED BY <2>1, <2>3 DEF LeftInv, PassInv, MergeInv, DoneIsDone
<1>q. QED BY <1>1, <1>2

\* A record loses its place among the predictions to a verdict only.
LEMMA GradeLeaves ==
  ASSUME IInv, LeftInv,
         (\E s \in Slots : Grade(s)) \/ (\E t \in Triples : Merge(t))
  PROVE  LeftInv'
<1>1. run = "grading" /\ run' = "grading" /\ limited' = limited
  BY DEF Grade, Merge, OpenRecord, FlushMeta, CloseRecord, flags
<1>2. CASE \E s \in Slots : Grade(s)
  <2>1. UNCHANGED <<predictions, rec>>
    BY <1>2 DEF Grade
  <2>q. QED BY <1>1, <2>1 DEF LeftInv, PassInv, MergeInv, DoneIsDone
<1>3. ASSUME NEW t \in Triples, Merge(t) PROVE LeftInv'
  <2>1. \A u \in Triples \ {t} : rec'[u] = rec[u] /\ predictions'[u] = predictions[u]
    BY <1>3 DEF Merge, OpenRecord, FlushMeta, CloseRecord, grading, IInv, TypeOK
  <2>2. reports[t] \in Verdict /\ predictions[t] # 0
    BY <1>3 DEF Merge, OpenRecord, FlushMeta, CloseRecord, IInv, TypeOK, GradeInv, Verdict
  <2>3. predictions'[t] = predictions[t] \/ rec'[t].at = reports[t]
    BY <1>3 DEF Merge, OpenRecord, FlushMeta, CloseRecord, grading, IInv, TypeOK, Records
  <2>q. QED BY <1>1, <2>1, <2>2, <2>3 DEF LeftInv, PassInv, MergeInv, DoneIsDone
<1>q. QED BY <1>2, <1>3

LEMMA EndLeaves ==
  ASSUME IInv, LeftInv,
         MergeFails \/ Crash \/ Finish \/ Start \/ UNCHANGED vars \/ \E s \in Slots : GradeFails(s)
  PROVE  LeftInv'
<1>1. ASSUME NEW x, Ends(x), x = "done" => \A t \in Triples : rec[t].at \in Verdict
      PROVE  LeftInv'
  BY <1>1 DEF Ends, LeftInv, PassInv, MergeInv, DoneIsDone, Verdict
<1>2. CASE MergeFails \/ Crash \/ \E s \in Slots : GradeFails(s)
  BY <1>1, <1>2 DEF MergeFails, Crash, GradeFails
<1>3. CASE Finish
  <2>1. run = "grading" /\ \A t \in Triples : predictions[t] = 0
    BY <1>3, TripleParts DEF Finish, Group
  <2>2. ~limited => \A t \in Triples : rec[t].at \in Verdict
    BY <2>1 DEF LeftInv, MergeInv
  <2>3. Ends(IF limited THEN "limit" ELSE "done")
    BY <1>3 DEF Finish
  <2>q. QED BY <1>1, <2>2, <2>3
<1>4. CASE Start
  <2>1. \A t \in Triples : Waits(t)'
    BY <1>4, TripleParts DEF Start, Waits, IInv, DownInv, threads
  <2>2. /\ run' = "agents" /\ stop' = stop
        /\ \A p \in Problems : pc'[p] = "queued"
    BY <1>4 DEF Start, IInv, DownInv, threads, flags
  <2>3. ~stop
    BY <1>4 DEF Start, LeftInv
  <2>q. QED BY <2>1, <2>2, <2>3 DEF LeftInv, PassInv, MergeInv, DoneIsDone
<1>5. CASE UNCHANGED vars
  BY <1>5 DEF vars, threads, flags, grading, LeftInv, PassInv, MergeInv, DoneIsDone, Waits, At,
              Settled
<1>q. QED BY <1>2, <1>3, <1>4, <1>5

\* A program that returns has the grader's word on every triple.
THEOREM DoneHolds == Spec => []DoneIsDone
<1>1. Init => LeftInv
  BY DEF Init, LeftInv, PassInv, MergeInv, DoneIsDone
<1>2. IInv /\ LeftInv /\ [Next]_vars => LeftInv'
  BY ThreadLeaves, DrainLeaves, GradeLeaves, EndLeaves DEF Next, GradeAny
<1>3. LeftInv => DoneIsDone
  BY DEF LeftInv
<1>q. QED BY <1>1, <1>2, <1>3, Initial, Inductive, PTL DEF Spec

=============================================================================
