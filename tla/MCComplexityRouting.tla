------------------------ MODULE MCComplexityRouting ------------------------
(***************************************************************************)
(* Small instance: four models, three provider keys, two settings.         *)
(***************************************************************************)
EXTENDS ComplexityRouting, TLC

CONSTANTS cheap, small, good, best, mine, yours, k1, k2, k3, r1, r2, c1

MCConfigs == 1 .. 2
MCModels == {cheap, small, good, best}
MCScore == (cheap :> 50) @@ (small :> 55) @@ (good :> 82) @@ (best :> 100)
MCMinScore == (0 :> 0) @@ (1 :> 50) @@ (2 :> 65) @@ (3 :> 80) @@ (4 :> 90)
\* The name of good is part of the name of small.
MCAlike == {<<m, m>> : m \in MCModels} \cup {<<good, small>>, <<small, good>>}
MCKeys == {k1, k2, k3}
MCOffer == (k1 :> {cheap, good}) @@ (k2 :> {small}) @@ (k3 :> {best})
MCSettings == {
  [classifier |-> mine, toolMin |-> 1, models |-> [l \in Levels |-> IF l = 2 THEN good ELSE best]],
  [classifier |-> yours, toolMin |-> None, models |-> [l \in Levels |-> IF l < 2 THEN cheap ELSE best]]}
World == [serial |-> TRUE, faults |-> FALSE, crashes |-> FALSE, dels |-> FALSE, reqs |-> {r1}, calls |-> Calls]
MCWorlds == {
  [World EXCEPT !.crashes = TRUE],
  [World EXCEPT !.faults = TRUE, !.dels = TRUE, !.reqs = {}],
  [World EXCEPT !.faults = TRUE, !.serial = FALSE, !.calls = {}],
  [World EXCEPT !.serial = FALSE, !.reqs = Reqs, !.calls = {}]}

=============================================================================
