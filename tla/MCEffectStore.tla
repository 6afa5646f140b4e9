---------------------------- MODULE MCEffectStore ----------------------------
(* Two effects compete for one domain; a third, in a domain of its own, is  *)
(* made to inspect, to compensate or to clean up after the first.           *)
EXTENDS EffectStore, TLC

CONSTANTS e1, e2, e3, p1, p2, p3, d1, d2, k1, k2, k3, g1, g2

Plain(d, k) == [domain |-> d, key |-> k, purpose |-> "own", original |-> e1,
                residual |-> FALSE, cleanup |-> FALSE]

MCIntents ==
    e1 :> {[Plain(d1, k1) EXCEPT !.residual = TRUE],
           [Plain(d1, k1) EXCEPT !.cleanup = TRUE]}
 @@ e2 :> {Plain(d1, k2)}
 @@ e3 :> {[Plain(d2, k3) EXCEPT !.purpose = "inspects"],
           [Plain(d2, k3) EXCEPT !.purpose = "compensates"],
           [Plain(d2, k2) EXCEPT !.purpose = "cleans"]}

\* Three effects of one domain.
MCCrowdedIntents ==
    e1 :> {Plain(d1, k1)} @@ e2 :> {Plain(d1, k2)} @@ e3 :> {Plain(d1, k3)}

MCAttempts == e1 :> {p1, p2} @@ e2 :> {p2} @@ e3 :> {p3}
MCGrantExpires == e1 :> 1 @@ e2 :> 2 @@ e3 :> 2
MCSymmetry == Permutations(Gateways)
=============================================================================
