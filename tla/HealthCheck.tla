----------------------------- MODULE HealthCheck -----------------------------
(***************************************************************************)
(* The health column of the Bot table. Every 30 s checkAllBots of          *)
(* health-check.service.ts lists the running bots and probes them one      *)
(* after the other, for as long as that takes: a second round may begin    *)
(* before the first has ended. Failures in a row are counted in memory.    *)
(* Every minute handleStuckStates gives up the starts that take too long,  *)
(* and writes the column as well, without a probe. Which bots run, which   *)
(* answer and which starts are overdue is for the module that instantiates *)
(* this one to say (BotFleet).                                             *)
(***************************************************************************)
EXTENDS Naturals

CONSTANTS Bots, Rounds, Threshold, None

VARIABLES
  running,     \* bots listed as running, with a port
  existing,    \* bots whose row is not deleted
  answering,   \* bots on whose port something answers
  overdue,     \* bots that have been `starting` for longer than the timeout
  health,      \* the column
  fails,       \* failureCountMap (at most Threshold: it is only compared with it)
  round,       \* rounds of checkAllBots under way
  stuck,       \* bots handleStuckStates has listed and not yet written
  streak       \* history: probes in a row nothing answered (at most Threshold)

vars == <<health, fails, round, stuck, streak>>

Resting == [pc |-> "idle", todo |-> {}, bot |-> None, ok |-> FALSE]
At(c, pc) == round[c].pc = pc
Set(c, q) == round' = [round EXCEPT ![c] = q]

OneMore(n) == IF n = Threshold THEN n ELSE n + 1

ListRunning(c) ==
  /\ At(c, "idle") /\ running # {}
  /\ Set(c, [Resting EXCEPT !.pc = "probe", !.todo = running])
  /\ UNCHANGED <<health, fails, stuck, streak>>

\* updateHealthStatus that forgets no failures.
CountOn(c) ==
  /\ At(c, "probe")
  /\ \E b \in round[c].todo :
       LET ok == b \in answering IN
       /\ fails' = [fails EXCEPT ![b] = IF ok THEN @ ELSE OneMore(@)]
       /\ streak' = [streak EXCEPT ![b] = IF ok THEN 0 ELSE OneMore(@)]
       /\ Set(c, [pc |-> IF ok \/ fails'[b] = Threshold THEN "read" ELSE "next",
                  todo |-> round[c].todo \ {b}, bot |-> b, ok |-> ok])
  /\ UNCHANGED <<health, stuck>>

\* The probe, and updateHealthStatus up to its first await.
Probe(c) ==
  /\ At(c, "probe")
  /\ \E b \in round[c].todo :
       LET ok == b \in answering IN
       /\ fails' = [fails EXCEPT ![b] = IF ok THEN 0 ELSE OneMore(@)]
       /\ streak' = [streak EXCEPT ![b] = IF ok THEN 0 ELSE OneMore(@)]
       /\ Set(c, [pc |-> IF ok \/ fails'[b] = Threshold THEN "read" ELSE "next",
                  todo |-> round[c].todo \ {b}, bot |-> b, ok |-> ok])
  /\ UNCHANGED <<health, stuck>>

Verdict(c) == IF round[c].ok THEN "HEALTHY" ELSE "UNHEALTHY"

\* A verdict that is written once, when the count reaches the threshold.
ReadOnce(c) ==
  /\ At(c, "read")
  /\ Set(c, [round[c] EXCEPT !.pc =
       IF round[c].bot \in existing /\ health[round[c].bot] = "UNKNOWN" THEN "write" ELSE "next"])
  /\ UNCHANGED <<health, fails, stuck, streak>>

\* getById finds no deleted row; a row that says so already is left alone.
ReadHealth(c) ==
  /\ At(c, "read")
  /\ Set(c, [round[c] EXCEPT !.pc =
       IF round[c].bot \in existing /\ health[round[c].bot] # Verdict(c) THEN "write" ELSE "next"])
  /\ UNCHANGED <<health, fails, stuck, streak>>

WriteHealth(c) ==
  /\ At(c, "write")
  /\ health' = [health EXCEPT ![round[c].bot] = Verdict(c)]
  /\ Set(c, [round[c] EXCEPT !.pc = "next"])
  /\ UNCHANGED <<fails, stuck, streak>>

NextBot(c) ==
  /\ At(c, "next")
  /\ Set(c, IF round[c].todo = {} THEN Resting ELSE [round[c] EXCEPT !.pc = "probe", !.bot = None])
  /\ UNCHANGED <<health, fails, stuck, streak>>

\* A query fails: checkAllBots catches that once, and gives up the round.
Abort(c) ==
  /\ round[c].pc \in {"read", "write"} /\ Set(c, Resting)
  /\ UNCHANGED <<health, fails, stuck, streak>>

\* handleStuckStates: a bot whose start takes too long is listed, and written
\* whatever has become of it since.
ListStuck(b) ==
  /\ b \in overdue /\ stuck' = stuck \cup {b}
  /\ UNCHANGED <<health, fails, round, streak>>

WriteStuck(b) ==
  /\ b \in stuck /\ stuck' = stuck \ {b}
  /\ health' = [health EXCEPT ![b] = "UNHEALTHY"]
  /\ UNCHANGED <<fails, round, streak>>

\* The process restarts: the counts are lost.
Restart ==
  /\ fails' = [b \in Bots |-> 0] /\ round' = [c \in Rounds |-> Resting] /\ stuck' = {}
  /\ UNCHANGED <<health, streak>>

Init ==
  /\ health = [b \in Bots |-> "UNKNOWN"] /\ fails = [b \in Bots |-> 0]
  /\ round = [c \in Rounds |-> Resting] /\ streak = [b \in Bots |-> 0] /\ stuck = {}

Step(c) ==
  ListRunning(c) \/ Probe(c) \/ ReadHealth(c) \/ WriteHealth(c) \/ NextBot(c)

-----------------------------------------------------------------------------
\* Every variable keeps its type.
TypeOK ==
  /\ health \in [Bots -> {"UNKNOWN", "HEALTHY", "UNHEALTHY"}]
  /\ {fails, streak} \subseteq [Bots -> 0 .. Threshold]
  /\ round \in [Rounds -> [pc : {"idle", "probe", "read", "write", "next"}, todo : SUBSET Bots,
                           bot : Bots \cup {None}, ok : BOOLEAN]]
  /\ stuck \in SUBSET Bots
=============================================================================
