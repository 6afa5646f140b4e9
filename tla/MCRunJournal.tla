---------------------------- MODULE MCRunJournal ----------------------------
(* Two callers and two runs of one instance.                               *)
EXTENDS RunJournal, TLC

CONSTANTS c1, c2, r1, r2, d1, d2

\* Callers, runs and digests are interchangeable.
Symmetry == Permutations({c1, c2}) \cup Permutations({r1, r2})
                \cup Permutations({d1, d2})
============================================================================
