-------------------------- MODULE MCIdentityLease --------------------------
(* The lease store on its own, driven by arbitrary callers.                *)
EXTENDS IdentityLease, TLC

CONSTANTS a1, a2

\* The two attempts are interchangeable.
Symmetry == Permutations({a1, a2})
============================================================================
