--------------------------- MODULE MCModelRouter ----------------------------
(* Instances of ModelRouter for TLC. *)
EXTENDS ModelRouter

CONSTANTS k1, k2, a, b

Two == [type |-> "round_robin", targets |-> <<k1, k2>>]
Three == [type |-> "round_robin", targets |-> <<k1, k2, k1>>]
Rules == [type |-> "function", targets |-> <<k2, k1>>]
Backup == [type |-> "failover", targets |-> <<k1, k2>>]

RingConfigs == {Two, Three}
AllConfigs == RingConfigs \cup {Rules, Backup}

\* Writers alone on two routings, and everything at once on one, with and
\* without a primary provider key or any.
World(serial, ids, configs, primary, first) ==
  [serial |-> serial, faults |-> ~serial, ids |-> ids, configs |-> configs,
   primary |-> primary, first |-> first]
AllWorlds ==
  {World(TRUE, {a, b}, RingConfigs, None, k1),
   World(FALSE, {a}, {Rules}, None, None),
   World(FALSE, {a}, {Backup, Rules}, None, k2),
   World(FALSE, {a}, {Backup, Two}, k2, k2)}
=============================================================================
