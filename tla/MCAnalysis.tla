----------------------------- MODULE MCAnalysis -----------------------------
(***************************************************************************)
(* Two directories: in one, two transcripts, one of them matched by both    *)
(* extractors; in the other, one transcript that none matches.              *)
(***************************************************************************)
EXTENDS Analysis

CONSTANTS swe, artifact, a, b, c, archaeology, stall

MCHome == [l \in Logs |-> IF l = c THEN artifact ELSE swe]
MCMatches == {<<a, archaeology>>, <<a, stall>>}

\* The other directory is analysed in one go and without --force: it is there to
\* write the registry at the same time.
Few == job[artifact].stage \in {"all", "synthesize"} /\ ~job[artifact].force

=============================================================================
