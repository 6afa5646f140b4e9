---------------------------- MODULE MCCommandLog ----------------------------
(* Two callers and the bundles that meet every rule of the log: commands   *)
(* that supersede each other, one ID with two contents, one idempotency    *)
(* key under two IDs, and precondition revisions that come too early, in   *)
(* time or too late.                                                       *)
EXTENDS CommandLog, TLC

CONSTANTS c1, c2

Command(id, kind, payload, expected, expires) ==
    [id |-> id, kind |-> kind, effect |-> "e1", key |-> "k", payload |-> payload,
     expected |-> expected, expires |-> expires]

Bundle(command, planExpires, optional) ==
    [command |-> command, planExpires |-> planExpires, optional |-> optional]

MCBundles ==
    {Bundle(Command("start", "start", "p1", n, 1), 2, FALSE) : n \in {1, 3}}
    \cup {Bundle(Command("input", "provide_input", "p1", 1, 2), 2, TRUE),
          Bundle(Command("input2", "provide_input", "p2", 2, 2), 2, FALSE),
          Bundle(Command("stop", "stop_instance", "p1", 1, 2), 1, FALSE),
          Bundle(Command("fence", "fence", "p1", 2, 2), 1, FALSE),
          Bundle(Command("cancel", "cancel_run", "p1", 2, 2), 2, FALSE)}

\* The two callers are interchangeable.
Symmetry == Permutations({c1, c2})
============================================================================
