----------------------------- MODULE MCTaskStreams -----------------------------
(* Instances of TaskStreams for TLC: one task in a request of its own.     *)
EXTENDS TaskStreams
CONSTANT t1

OneTask == {{t1}}

\* the task is delivered twice: each keeper may do both
BothOutcomes == {t1} \X {1, 2}
\* it is delivered once
OnlyFirst == {<<t1, 1>>}
================================================================================
