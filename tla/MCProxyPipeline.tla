-------------------------- MODULE MCProxyPipeline --------------------------
(* Instances of ProxyPipeline, and of ProxyToken in it, for TLC. *)
EXTENDS ProxyPipeline

CONSTANTS b1, b2, k1, k2, k3, t1, t2, tag

\* Every bot uses the same provider key; two others are of another vendor, and
\* one of the first vendor has the bots' tag.
FirstKey == [b \in Bots |-> k1]
TwoVendors == (k1 :> "openai") @@ (k2 :> "anthropic") @@ (k3 :> "anthropic")
NoTags == [k \in Keys |-> None]
JustTag == <<tag>>
\* Requests and calls are interchangeable.
Symmetry == Permutations(Reqs) \cup Permutations(Calls)

Limits == [daily |-> 2, monthly |-> 2]
Warnings == [daily |-> 1, monthly |-> 2]

Base == [serial |-> TRUE, faults |-> FALSE, crashes |-> FALSE, admin |-> FALSE, bots |-> {b1, b2},
         keys |-> {k1}, mortal |-> {k1}, tokens |-> Tokens, calls |-> {}, urls |-> {"openai"}, direct |-> FALSE, routing |-> FALSE,
         midnight |-> FALSE]

\* Requests one by one on two bots, and overlapping ones on one bot with
\* everything that can go wrong; no calls.
Overlapping ==
  [Base EXCEPT !.serial = FALSE, !.faults = TRUE, !.crashes = TRUE, !.admin = TRUE, !.bots = {b1},
               !.tokens = Tokens \ {t1}]
TokenWorlds == {[Base EXCEPT !.crashes = c, !.admin = c] : c \in BOOLEAN} \cup {Overlapping}

\* Calls beside requests one by one: routed; while admin endpoints are used; in
\* direct mode with crashes; of two bots over midnight; with failing queries.
Calling == [Base EXCEPT !.bots = {b1}, !.tokens = {t1, t2}, !.calls = Calls]
Routed ==
  [Calling EXCEPT !.routing = TRUE, !.keys = {k1, k2, k3}, !.mortal = {k2}, !.tokens = {t1}, !.urls = Vendors]
CallWorlds ==
  {Routed, [Calling EXCEPT !.admin = TRUE],
   [Calling EXCEPT !.direct = TRUE, !.keys = {k1, k2, k3}, !.mortal = {k2}, !.tokens = {t1}, !.urls = Vendors,
                   !.crashes = TRUE],
   [Calling EXCEPT !.bots = {b1, b2}, !.mortal = {}, !.midnight = TRUE],
   [Calling EXCEPT !.faults = TRUE, !.mortal = {}, !.tokens = {t1}]}

AllWorlds == TokenWorlds \cup CallWorlds
=============================================================================
