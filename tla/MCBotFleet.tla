----------------------------- MODULE MCBotFleet -----------------------------
(* Instances of BotFleet for TLC. *)
EXTENDS BotFleet, TLC

CONSTANTS h1, h2, h3, ann, ben

Users == (h1 :> ann) @@ (h2 :> ann) @@ (h3 :> ben)

Base == [faults |-> FALSE, crashes |-> FALSE, cleanup |-> FALSE,
         checks |-> {}, hangs |-> FALSE, hosts |-> {h1, h2}, bots |-> 3]

\* One user's bots and cleanups, with crashes, or with removals that fail; two
\* users; rounds of probes beside starts given up, of two bots in turn with
\* crashes, of one with failing queries too, and two rounds that overlap.
Environments ==
  {[Base EXCEPT !.cleanup = TRUE, !.crashes = TRUE, !.bots = 2],
   [Base EXCEPT !.cleanup = TRUE, !.faults = TRUE, !.bots = 2],
   [Base EXCEPT !.hosts = {h1, h2, h3}], [Base EXCEPT !.crashes = TRUE],
   [Base EXCEPT !.checks = {1}, !.hangs = TRUE, !.crashes = TRUE, !.bots = 2, !.hosts = {h1}],
   [Base EXCEPT !.checks = {1}, !.hangs = TRUE, !.crashes = TRUE, !.faults = TRUE, !.bots = 1, !.hosts = {h1}],
   [Base EXCEPT !.checks = {1, 2}, !.hangs = TRUE, !.bots = 1, !.hosts = {h1}]}

TwoUsers == {[Base EXCEPT !.cleanup = TRUE, !.hosts = {h1, h3}, !.bots = 2]}
=============================================================================
