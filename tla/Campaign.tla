------------------------------ MODULE Campaign ------------------------------
(***************************************************************************)
(* What a resumable benchmark campaign promises, whatever runs it: every   *)
(* (instance, arm, run) triple is settled at most once, by a verdict on    *)
(* the work of its last agent turn, which was not throttled or aborted.    *)
(***************************************************************************)
EXTENDS Naturals

CONSTANTS
  Triples,
  Verdicts, \* terminal verdicts
  Open      \* no verdict yet, not one of them

VARIABLES
  verdict,  \* per triple: the verdict a reader of the results finds, or Open
  turns,    \* per triple: agent turns so far
  clean     \* per triple: its last turn is a result that may be graded

vars == <<verdict, turns, clean>>

Init ==
  /\ verdict = [t \in Triples |-> Open]
  /\ turns = [t \in Triples |-> 0]
  /\ clean = [t \in Triples |-> FALSE]

\* An agent turn on an open triple ends.
Turn(t) ==
  /\ verdict[t] = Open
  /\ turns' = [turns EXCEPT ![t] = @ + 1]
  /\ \E ok \in BOOLEAN : clean' = [clean EXCEPT ![t] = ok]
  /\ UNCHANGED verdict

Settle(t) ==
  /\ verdict[t] = Open
  /\ clean[t]
  /\ \E v \in Verdicts : verdict' = [verdict EXCEPT ![t] = v]
  /\ UNCHANGED <<turns, clean>>

Next == \E t \in Triples : Turn(t) \/ Settle(t)

Spec == Init /\ [][Next]_vars

-----------------------------------------------------------------------------
\* A settled triple has had a turn, and the last one was a result that may be
\* graded.
SettledIsEarned ==
  \A t \in Triples : verdict[t] # Open => clean[t] /\ turns[t] > 0

\* What is settled stays as it is: no other verdict, and no other turn.
KeepsSettled ==
  \A t \in Triples : verdict[t] # Open =>
    verdict'[t] = verdict[t] /\ turns'[t] = turns[t] /\ clean'[t] = clean[t]

SettledIsFinal == [][KeepsSettled]_vars

=============================================================================
