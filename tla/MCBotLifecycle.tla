--------------------------- MODULE MCBotLifecycle ---------------------------
(* Instances of BotLifecycle for TLC. *)
EXTENDS BotLifecycle, TLC

CONSTANTS b1, b2, b3, k1, k2, r1, r2

\* Two rows come to carry the same hostname one after the other, so that they
\* share the name of their container; a third one is another user's.
SameHostname == [b \in Bots |-> IF b = b3 THEN k2 ELSE k1]

\* Requests are interchangeable.
ReqSymmetry == Permutations(Reqs)

\* One user on two bots whom nothing disturbs; r stands for one request after
\* the other.
Calm(r) == [serial |-> TRUE, slow |-> FALSE, faults |-> FALSE, deaths |-> FALSE, drops |-> FALSE,
            crashes |-> FALSE, polled |-> FALSE, bots |-> Bots \ {b3}, ops |-> Sent,
            port |-> [b \in Bots |-> IF b = b3 THEN 2 ELSE 1],
            writers |-> {r}, readers |-> {r}]

\* Bots of two users have the same port.
OnePort(r) == [Calm(r) EXCEPT !.bots = {b1, b3}, !.port = [b \in Bots |-> 1],
                              !.ops = {"start", "delete"}, !.readers = {}]

\* Containers die, or the process crashes, or not, on bots of one port, or
\* two starts, stops and deletes overlap on one bot with slow starts and
\* crashes. Closed under ReqSymmetry.
SafetyWorlds ==
  UNION {{[Calm(r) EXCEPT !.deaths = TRUE], [Calm(r) EXCEPT !.crashes = TRUE],
          OnePort(r), [OnePort(r) EXCEPT !.crashes = TRUE],
          [Calm(r) EXCEPT !.crashes = TRUE, !.deaths = TRUE, !.bots = {b1},
                          !.ops = {"start", "stop", "delete"}],
          [Calm(r) EXCEPT !.serial = FALSE, !.slow = TRUE, !.crashes = TRUE,
                          !.bots = {b1}, !.ops = {"start", "stop", "delete"},
                          !.writers = Reqs, !.readers = Reqs]} : r \in Reqs}

\* The process crashes and Docker calls fail, or an open page polls the list
\* and events get lost.
LivenessWorlds ==
  {[Calm(r1) EXCEPT !.serial = FALSE, !.slow = TRUE, !.faults = TRUE, !.crashes = TRUE],
   [Calm(r1) EXCEPT !.drops = TRUE, !.polled = TRUE, !.ops = Sent \ {"delete"}, !.readers = {r2}]}

=============================================================================
