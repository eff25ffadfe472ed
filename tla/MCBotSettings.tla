--------------------------- MODULE MCBotSettings ---------------------------
(* Instances of BotSettings for TLC. *)
EXTENDS BotSettings, TLC

CONSTANTS k1, k2, k3, name, soul

Distinct == (k1 :> "openai") @@ (k2 :> "anthropic") @@ (k3 :> "custom")
JustName == {name}

\* Provider rows alone, with settings and starts, requests one by one, without
\* and with failing queries.
OneByOne ==
  {[serial |-> TRUE, faults |-> f, settings |-> FALSE, keys |-> Keys] : f \in BOOLEAN}
    \cup {[serial |-> TRUE, faults |-> f, settings |-> TRUE, keys |-> {k1, k2}] : f \in BOOLEAN}
=============================================================================
