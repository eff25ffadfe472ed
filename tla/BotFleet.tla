------------------------------ MODULE BotFleet ------------------------------
(***************************************************************************)
(* The bots of a host and their health: checkAllBots (HealthCheck) probes  *)
(* the ports of the bots that BotResources creates, starts and deletes,    *)
(* and handleStuckStates ends the starts that take too long.               *)
(***************************************************************************)
EXTENDS BotResources

CONSTANTS
  Rounds,      \* rounds of the 30 s cron that may be under way at a time
  Threshold    \* FAILURE_THRESHOLD

ASSUME BotFleetAssumption ==
  /\ Threshold \in Nat \ {0} /\ IsFiniteSet(Rounds)
  /\ \A w \in Worlds : w.checks \subseteq Rounds

VARIABLES health, fails, round, stuck, streak    \* see HealthCheck

RunningBots == {b \in Bots : Live(b) /\ row[b].status = "running" /\ row[b].port # None}
LiveBots == {b \in Bots : Live(b)}
Answering ==
  {b \in Bots : \E h \in Hosts : box[h] # None /\ box[h].up /\ ~box[h].deaf /\ box[h].port = row[b].port}

\* A start that a crash cut short stays `starting`; where containers hang, one
\* under way may take longer than STARTING_TIMEOUT_MS as well, as long as it is
\* not at its own last write.
Overdue ==
  {b \in LiveBots : /\ row[b].status = "starting"
                    /\ req.op = "start" /\ req.bot = b => world.hangs /\ ~At("running")}

Health == INSTANCE HealthCheck WITH
            running <- RunningBots, existing <- LiveBots, answering <- Answering, overdue <- Overdue

checks == <<health, fails, round, stuck, streak>>

\* A container that hangs, or restarts, or is not ready answers again later.
Hang(h) ==
  /\ world.hangs /\ box[h] # None /\ box[h].up
  /\ \E deaf \in BOOLEAN \ {box[h].deaf} : box' = [box EXCEPT ![h].deaf = deaf]
  /\ UNCHANGED <<row, dirs, memory, req, checks>>

Round(c) == Health!Step(c) /\ UNCHANGED vars

FailRound(c) == Faults /\ Health!Abort(c) /\ UNCHANGED vars

\* handleStuckStates, beside the rounds: both columns are one write.
FindStuck(b) == world.checks # {} /\ Health!ListStuck(b) /\ UNCHANGED vars

TimeOut(b) ==
  /\ Health!WriteStuck(b) /\ SetRow(b, "status", "error")
  /\ UNCHANGED <<box, dirs, memory, req>>

FleetInit == Init /\ Health!Init

FleetNext ==
  \/ Step /\ UNCHANGED checks
  \/ Crash /\ Health!Restart
  \/ \E h \in Hosts : Hang(h)
  \/ \E c \in world.checks : Round(c) \/ FailRound(c)
  \/ \E b \in Bots : FindStuck(b) \/ TimeOut(b)

FleetSpec ==
  /\ FleetInit /\ [][FleetNext /\ UNCHANGED world]_<<vars, checks, world>>
  /\ \A c \in Rounds : WF_<<vars, checks>>(c \in world.checks /\ Round(c))

-----------------------------------------------------------------------------
\* Every variable keeps its type.
FleetTypeOK == TypeOK /\ Health!TypeOK

\* Bots of a user share no name, no port and no memory, with each other or with
\* bots that were deleted.
BotsShareNothing == FleetTypeOK /\ NamesAndPortsDiffer /\ FreshMemory

\* A bot becomes unhealthy only after Threshold failed probes in a row, or along
\* with its status when a start that took too long is given up, though the bot
\* may be stopped, replaced and deleted while the round goes on with its list,
\* and the process may restart. (Rounds that overlap break this.)
UnhealthyIsEarned ==
  [][Cardinality(world.checks) = 1 => \A b \in Bots :
       health'[b] = "UNHEALTHY" /\ health[b] # "UNHEALTHY" =>
         \/ streak[b] = Threshold
         \/ b \in stuck \ stuck' /\ row'[b].status = "error"]_<<vars, checks>>

\* Overlapping rounds may write what is no longer so; in the end a running bot
\* that answers is called healthy, and one that does not is called unhealthy.
HealthConverges ==
  world.checks # {} /\ ~Faults /\ ~world.crashes =>
    \A b \in Bots :
      /\ <>[](b \in RunningBots \cap Answering) => <>[](health[b] = "HEALTHY")
      /\ <>[](b \in RunningBots \ Answering) => <>[](health[b] = "UNHEALTHY")
=============================================================================
