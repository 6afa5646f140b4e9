---------------------------- MODULE MCActivation ----------------------------
(* Two attempts of one identity that race, crash and are recovered.        *)
EXTENDS Activation, TLC

CONSTANTS a1, a2

\* The two attempts are interchangeable.
Symmetry == Permutations({a1, a2})
============================================================================
