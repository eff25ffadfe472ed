---------------------------- MODULE BotLifecycle ----------------------------
(***************************************************************************)
(* The life of a bot: its row in PostgreSQL, its container in the Docker   *)
(* daemon, and everything in the API process that writes both.             *)
(*                                                                         *)
(* The API is one Node process, so a step of the model runs from one       *)
(* `await` to the next and everything else may run in between:             *)
(*   - HTTP requests createBot / startBot / stopBot / deleteBot / listBots *)
(*     of bot-api.service.ts, each a program with a pc;                    *)
(*   - handlers of Docker events (docker-event.service.ts), which are not  *)
(*     awaited and so may finish in any order;                             *)
(*   - the cron that times out `starting` bots (health-check.service.ts);  *)
(*   - startup reconciliation (reconciliation.service.ts), which NestJS    *)
(*     awaits before it listens, so no request runs beside it.             *)
(* The process may crash between any two steps; containers survive it.     *)
(***************************************************************************)
EXTENDS Naturals, FiniteSets

CONSTANTS
  Bots,        \* rows of the Bot table (primary keys)
  Keys,        \* isolation keys `userId[0..8]-hostname`; they name containers
  KeyOf,       \* KeyOf[b]: the isolation key of row b
  Cids,        \* container ids the daemon can hand out (bounds creations)
  Reqs,        \* HTTP requests that can be in flight together
  None,
  Worlds       \* the environments considered

\* The requests that begin with a read of the row.
Sent == {"configure", "start", "stop", "delete", "list"}

ASSUME BotLifecycleAssumption ==
  /\ KeyOf \in [Bots -> Keys]
  /\ None \notin Bots \cup Cids
  /\ Worlds \subseteq [serial : BOOLEAN, slow : BOOLEAN, faults : BOOLEAN, deaths : BOOLEAN,
                       drops : BOOLEAN, crashes : BOOLEAN, polled : BOOLEAN,
                       bots : SUBSET Bots, ops : SUBSET Sent, port : [Bots -> Nat],
                       writers : SUBSET Reqs, readers : SUBSET Reqs]

VARIABLES
  row,         \* the Bot table: status, containerId, existence
  ctr,         \* the daemon: owner and state of every container id
  req,         \* in-flight requests: operation, pc and local variables
  ev,          \* in-flight handleContainerEvent calls
  stream,      \* is the Docker event stream connected?
  cron,        \* rows handleStuckStates has listed and not yet written
  boot,        \* reconciliation: phase, list snapshot, keys seen, rows left
  world        \* the environment, which never changes

vars == <<row, ctr, req, ev, stream, cron, boot>>

\* Users create the rows world.bots and send requests of the kinds world.ops;
\* world.writers are the requests that change a bot and world.readers those
\* that list the bots, each sent over and over; world.polled says whether a page
\* of the web client is open. world.port is the host port of each row:
\* allocatePort (BotResources) keeps apart only those of one user.
Serial == world.serial    \* do users wait for one mutating request before the next?
Slow == world.slow        \* may startBot outlast STARTING_TIMEOUT_MS (120 s)?
Faults == world.faults    \* may a Docker call fail by itself?
Deaths == world.deaths    \* may a container exit on its own?
Drops == world.drops      \* may the event stream break?
Crashes == world.crashes  \* may the API process crash and restart?

Status == {"draft", "created", "starting", "running", "stopped", "error"}

\* "exited" and "failed": stopped with a zero or a non-zero exit code.
\* "restarting": died by itself, and the daemon is about to run it again.
CtrState == {"unused", "created", "running", "restarting", "exited", "failed", "removed"}

Exists(c) == c \in Cids /\ ctr[c].state \notin {"unused", "removed"}

\* The `running` flag of docker inspect, which a restarting container keeps.
Running(c) == ctr[c].state \in {"running", "restarting"}

\* The containers that carry the name `clawbot-manager-<key>`.
Named(k) == {c \in Cids : Exists(c) /\ KeyOf[ctr[c].bot] = k}

Live(b) == row[b].state = "live"

\* botService.get / list / getById only see rows that are not deleted.
LiveRows == {b \in Bots : Live(b)}

NoRow == [state |-> "none", status |-> "draft", cid |-> None]

\* A process that serves requests: reconciliation is over.
Booted == [phase |-> "up", rows |-> [b \in Bots |-> NoRow], keys |-> {}, todo |-> {}]

Idle == [op |-> "none", pc |-> "idle", bot |-> None, cid |-> None, val |-> "draft"]

-----------------------------------------------------------------------------
(* Docker daemon.                                                          *)

MapEventToStatus(act) ==
  CASE act \in {"start", "restart"} -> "running"
    [] act = "stop" -> "stopped"
    [] act \in {"die", "kill", "oom"} -> "error"

\* The daemon reports acts of container c to the connected stream, and each
\* event becomes a handler call at once. Calls of one container that will
\* write the same status are one element: `kill` and `die` of a stop.
Emit(c, acts) ==
  ev' = IF stream
          THEN ev \cup {[to |-> MapEventToStatus(a), cid |-> c, bot |-> None] : a \in acts}
          ELSE ev

\* docker stop: a running container is killed, dies and is stopped. The exit
\* code depends on how the container treats SIGTERM.
DockerStop(c) ==
  IF Running(c)
    THEN /\ \E s \in {"exited", "failed"} : ctr' = [ctr EXCEPT ![c].state = s]
         /\ Emit(c, {"kill", "die", "stop"})
    ELSE UNCHANGED <<ctr, ev>>

\* docker rm --force.
DockerRemove(c) ==
  /\ ctr' = [ctr EXCEPT ![c].state = "removed"]
  /\ IF Running(c) THEN Emit(c, {"kill", "die"}) ELSE UNCHANGED ev

\* A container exits by itself, and RestartPolicy `unless-stopped` has the
\* daemon run it again.
ContainerDies(c) ==
  /\ Deaths /\ ctr[c].state = "running"
  /\ ctr' = [ctr EXCEPT ![c].state = "restarting"]
  /\ Emit(c, {"die"})
  /\ UNCHANGED <<row, req, stream, cron, boot>>

ContainerRestarts(c) ==
  /\ ctr[c].state = "restarting"
  /\ ctr' = [ctr EXCEPT ![c].state = "running"]
  /\ Emit(c, {"start"})
  /\ UNCHANGED <<row, req, stream, cron, boot>>

-----------------------------------------------------------------------------
(* HTTP requests. Goto and Done move one request; the rest of the state a  *)
(* step changes is named in the step.                                      *)

Goto(r, pc) == req' = [req EXCEPT ![r].pc = pc]
Done(r) == req' = [req EXCEPT ![r] = Idle]
At(r, pc) == boot.phase = "up" /\ req[r].pc = pc

\* Bound: a request that creates a container is admitted only while an unused
\* container id is left for it and for those already under way.
Admitted ==
  Cardinality({r \in Reqs : req[r].op \in {"create", "start"}})
    < Cardinality({c \in Cids : ctr[c].state = "unused"})

\* With Serial, a mutating request waits for the one before it.
MayMutate(r) ==
  r \in world.writers /\ (Serial => \A q \in Reqs : req[q].op \in {"none", "list"})

\* The row as getBotByHostname / list returned it to request r.
ReadRow(r, op, b, pc) ==
  /\ At(r, "idle") /\ Live(b) /\ op \in world.ops
  /\ req' = [req EXCEPT ![r] = [op |-> op, pc |-> pc, bot |-> b,
                                cid |-> row[b].cid,
                                val |-> IF op = "list" THEN row[b].status ELSE "draft"]]
  /\ UNCHANGED <<row, ctr, ev, stream, cron, boot>>

(* createBot: the row first, then the container, then its id in the row.   *)

CreateRow(r, b) ==
  /\ At(r, "idle") /\ Admitted /\ MayMutate(r)
  /\ b \in world.bots /\ row[b].state = "none"
  /\ \A a \in LiveRows : KeyOf[a] # KeyOf[b]      \* hostname unique per user
  /\ row' = [row EXCEPT ![b] = [state |-> "live", status |-> "created", cid |-> None]]
  /\ req' = [req EXCEPT ![r] = [op |-> "create", pc |-> "clear", bot |-> b,
                                cid |-> None, val |-> "draft"]]
  /\ UNCHANGED <<ctr, ev, stream, cron, boot>>

(* createBotSimple writes a draft and no container. Once the draft has a    *)
(* channel and a provider, checkAndUpdateBotStatus makes it `created`.      *)

CreateDraft(r, b) ==
  /\ At(r, "idle") /\ MayMutate(r)
  /\ b \in world.bots /\ row[b].state = "none"
  /\ \A a \in LiveRows : KeyOf[a] # KeyOf[b]
  /\ row' = [row EXCEPT ![b].state = "live"]
  /\ UNCHANGED <<ctr, req, ev, stream, cron, boot>>

ConfigureRead(r, b) == MayMutate(r) /\ row[b].status = "draft" /\ ReadRow(r, "configure", b, "configured")

ConfigureFinish(r) ==
  /\ At(r, "configured")
  /\ row' = [row EXCEPT ![req[r].bot].status = "created"]
  /\ Done(r)
  /\ UNCHANGED <<ctr, ev, stream, cron, boot>>

(* startBot *)

StartRead(r, b) == Admitted /\ MayMutate(r) /\ ReadRow(r, "start", b, "mark")

StartMark(r) ==
  /\ At(r, "mark")
  /\ row' = [row EXCEPT ![req[r].bot].status = "starting"]
  /\ Goto(r, IF req[r].cid = None THEN "clear" ELSE "inspect")
  /\ UNCHANGED <<ctr, ev, stream, cron, boot>>

\* getContainerStatus: null when the container is gone or the call fails.
StartInspect(r) ==
  /\ At(r, "inspect")
  /\ \/ Exists(req[r].cid) /\ Goto(r, IF Running(req[r].cid) THEN "stopold" ELSE "removeold")
     \/ (Faults \/ ~Exists(req[r].cid)) /\ Goto(r, "clear")
  /\ UNCHANGED <<row, ctr, ev, stream, cron, boot>>

\* An error of stop or remove only warns, and skips to the new container.
StartStopOld(r) ==
  /\ At(r, "stopold")
  /\ \/ Exists(req[r].cid) /\ DockerStop(req[r].cid) /\ Goto(r, "removeold")
     \/ (Faults \/ ~Exists(req[r].cid)) /\ Goto(r, "clear") /\ UNCHANGED <<ctr, ev>>
  /\ UNCHANGED <<row, stream, cron, boot>>

StartRemoveOld(r) ==
  /\ At(r, "removeold")
  /\ \/ Exists(req[r].cid) /\ DockerRemove(req[r].cid)
     \/ (Faults \/ ~Exists(req[r].cid)) /\ UNCHANGED <<ctr, ev>>
  /\ Goto(r, "clear")
  /\ UNCHANGED <<row, stream, cron, boot>>

(* dockerService.createContainer, in createBot and startBot                *)

\* createContainer without the removal of a leftover.
KeepName(r) ==
  /\ At(r, "clear") /\ Goto(r, "create")
  /\ UNCHANGED <<row, ctr, ev, stream, cron, boot>>

\* A container that already has the name is inspected and removed; any error
\* of that is swallowed.
ClearName(r) ==
  /\ At(r, "clear")
  /\ \/ \E c \in Named(KeyOf[req[r].bot]) : DockerRemove(c)
     \/ (Faults \/ Named(KeyOf[req[r].bot]) = {}) /\ UNCHANGED <<ctr, ev>>
  /\ Goto(r, "create")
  /\ UNCHANGED <<row, stream, cron, boot>>

\* Ids are interchangeable, so the daemon's choice of an unused one is fixed.
FreshId == LET unused == {c \in Cids : ctr[c].state = "unused"}
           IN  IF unused = {} THEN {} ELSE {CHOOSE c \in unused : TRUE}

\* The daemon refuses a name that is taken. createBot then keeps its row
\* without a container; startBot goes to its catch.
CreateContainer(r) ==
  /\ At(r, "create")
  /\ \/ /\ Named(KeyOf[req[r].bot]) = {}
        /\ \E c \in FreshId :
             /\ ctr' = [ctr EXCEPT ![c] = [bot |-> req[r].bot, state |-> "created"]]
             /\ req' = [req EXCEPT ![r].cid = c,
                                   ![r].pc = IF req[r].op = "create" THEN "record" ELSE "launch"]
     \/ /\ Faults \/ Named(KeyOf[req[r].bot]) # {}
        /\ IF req[r].op = "create" THEN Done(r) ELSE Goto(r, "fail")
        /\ UNCHANGED ctr
  /\ UNCHANGED <<row, ev, stream, cron, boot>>

\* Containers are created with a HostPort, which the daemon binds when it starts
\* one. A container that restarts keeps its port.
PortTaken(b) ==
  \E c \in Cids : Running(c) /\ KeyOf[ctr[c].bot] # KeyOf[b] /\ world.port[ctr[c].bot] = world.port[b]

\* A container whose port another one has is not started; it is left behind.
StartLaunch(r) ==
  /\ At(r, "launch")
  /\ \/ /\ Exists(req[r].cid) /\ ~PortTaken(req[r].bot)
        /\ ctr' = [ctr EXCEPT ![req[r].cid].state = "running"]
        /\ Emit(req[r].cid, {"start"})
        /\ Goto(r, "record")
     \/ /\ Faults \/ ~Exists(req[r].cid) \/ PortTaken(req[r].bot)
        /\ Goto(r, "fail")
        /\ UNCHANGED <<ctr, ev>>
  /\ UNCHANGED <<row, stream, cron, boot>>

\* The update addressed by hostname instead of id.
RecordByHostname(r) ==
  /\ At(r, "record")
  /\ row' = [b \in Bots |-> IF KeyOf[b] = KeyOf[req[r].bot]
                               THEN [row[b] EXCEPT !.cid = req[r].cid] ELSE row[b]]
  /\ IF req[r].op = "create" THEN Done(r) ELSE Goto(r, "finish")
  /\ UNCHANGED <<ctr, ev, stream, cron, boot>>

\* botService.update({ id }, { containerId }), the last write of createBot.
RecordContainer(r) ==
  /\ At(r, "record")
  /\ row' = [row EXCEPT ![req[r].bot].cid = req[r].cid]
  /\ IF req[r].op = "create" THEN Done(r) ELSE Goto(r, "finish")
  /\ UNCHANGED <<ctr, ev, stream, cron, boot>>

StartFinish(r) ==
  /\ At(r, "finish")
  /\ row' = [row EXCEPT ![req[r].bot].status = "running"]
  /\ Done(r)
  /\ UNCHANGED <<ctr, ev, stream, cron, boot>>

StartFail(r) ==
  /\ At(r, "fail")
  /\ row' = [row EXCEPT ![req[r].bot].status = "error"]
  /\ Done(r)
  /\ UNCHANGED <<ctr, ev, stream, cron, boot>>

(* stopBot *)

StopRead(r, b) == MayMutate(r) /\ ReadRow(r, "stop", b, IF row[b].cid = None THEN "stopped" ELSE "halt")

\* stopContainer throws when the container is gone: the request then answers
\* `error` and leaves the row as it is.
StopHalt(r) ==
  /\ At(r, "halt")
  /\ \/ Exists(req[r].cid) /\ DockerStop(req[r].cid) /\ Goto(r, "stopped")
     \/ (Faults \/ ~Exists(req[r].cid)) /\ Done(r) /\ UNCHANGED <<ctr, ev>>
  /\ UNCHANGED <<row, stream, cron, boot>>

StopFinish(r) ==
  /\ At(r, "stopped")
  /\ row' = [row EXCEPT ![req[r].bot].status = "stopped"]
  /\ Done(r)
  /\ UNCHANGED <<ctr, ev, stream, cron, boot>>

(* deleteBot *)

DeleteRead(r, b) == MayMutate(r) /\ ReadRow(r, "delete", b, IF row[b].cid = None THEN "erase" ELSE "delstop")

\* "already stopped" (304) thrown like any other error.
DeleteStopRunning(r) ==
  /\ At(r, "delstop")
  /\ \/ Running(req[r].cid) /\ DockerStop(req[r].cid) /\ Goto(r, "delremove")
     \/ ~Running(req[r].cid) /\ Goto(r, "erase") /\ UNCHANGED <<ctr, ev>>
  /\ UNCHANGED <<row, stream, cron, boot>>

DeleteStop(r) ==
  /\ At(r, "delstop")
  /\ \/ Exists(req[r].cid) /\ DockerStop(req[r].cid) /\ Goto(r, "delremove")
     \/ (Faults \/ ~Exists(req[r].cid)) /\ Goto(r, "erase") /\ UNCHANGED <<ctr, ev>>
  /\ UNCHANGED <<row, stream, cron, boot>>

DeleteRemove(r) ==
  /\ At(r, "delremove")
  /\ \/ Exists(req[r].cid) /\ DockerRemove(req[r].cid)
     \/ (Faults \/ ~Exists(req[r].cid)) /\ UNCHANGED <<ctr, ev>>
  /\ Goto(r, "erase")
  /\ UNCHANGED <<row, stream, cron, boot>>

DeleteRow(r) ==
  /\ At(r, "erase")
  /\ row' = [row EXCEPT ![req[r].bot].state = "deleted", ![req[r].bot].status = "stopped"]
  /\ Done(r)
  /\ UNCHANGED <<ctr, ev, stream, cron, boot>>

(* listBots: one bot of the listing. A status of `error` is left alone.    *)

ListRead(r, b) == r \in world.readers /\ row[b].cid # None /\ ReadRow(r, "list", b, "look")

\* The listing trusts `stopped` as it trusts `error`.
ListLookTrusting(r) ==
  /\ At(r, "look")
  /\ LET actual == IF Running(req[r].cid) THEN "running" ELSE "stopped"
         trusted == {actual, "error", "stopped"}
     IN  \/ /\ Exists(req[r].cid) /\ req[r].val \notin trusted
            /\ req' = [req EXCEPT ![r].pc = "sync", ![r].val = actual]
         \/ /\ ~Exists(req[r].cid) \/ req[r].val \in trusted
            /\ Done(r)
  /\ UNCHANGED <<row, ctr, ev, stream, cron, boot>>

ListLook(r) ==
  /\ At(r, "look")
  /\ LET actual == IF Running(req[r].cid) THEN "running" ELSE "stopped"
     IN  \/ /\ Exists(req[r].cid)
            /\ req[r].val \notin {actual, "error"}
            /\ req' = [req EXCEPT ![r].pc = "sync", ![r].val = actual]
         \/ /\ Faults \/ ~Exists(req[r].cid) \/ req[r].val \in {actual, "error"}
            /\ Done(r)
  /\ UNCHANGED <<row, ctr, ev, stream, cron, boot>>

ListSync(r) ==
  /\ At(r, "sync")
  /\ row' = [row EXCEPT ![req[r].bot].status = req[r].val]
  /\ Done(r)
  /\ UNCHANGED <<ctr, ev, stream, cron, boot>>

-----------------------------------------------------------------------------
(* Docker events.                                                          *)

\* The handler looks its container id up among the live rows, and goes on to
\* write only when the status it read differs.
EventLookup(e) ==
  /\ e.bot = None
  /\ \/ \E b \in LiveRows :
          /\ row[b].cid = e.cid
          /\ row[b].status # e.to
          /\ ev' = (ev \ {e}) \cup {[e EXCEPT !.bot = b]}
     \/ /\ \A b \in LiveRows :
             row[b].cid = e.cid => row[b].status = e.to
        /\ ev' = ev \ {e}
  /\ UNCHANGED <<row, ctr, req, stream, cron, boot>>

EventWrite(e) ==
  /\ e.bot # None
  /\ row' = [row EXCEPT ![e.bot].status = e.to]
  /\ ev' = ev \ {e}
  /\ UNCHANGED <<ctr, req, stream, cron, boot>>

\* The stream errors or ends; scheduleReconnect opens a new one 5 s later.
\* Events in between are never delivered.
StreamDrop ==
  /\ Drops /\ stream /\ stream' = FALSE
  /\ UNCHANGED <<row, ctr, req, ev, cron, boot>>

StreamConnect ==
  /\ ~stream /\ stream' = TRUE
  /\ UNCHANGED <<row, ctr, req, ev, cron, boot>>

-----------------------------------------------------------------------------
(* handleStuckStates: list the `starting` rows that are overdue, then      *)
(* write each of them, whatever has become of it since. (The healthStatus   *)
(* written with the status is in HealthCheck.)                             *)

\* Overdue on the assumption that every start records its container first.
OverdueWithContainer ==
  {b \in LiveRows : row[b].status = "starting" /\ row[b].cid # None}

\* Rows whose status has been `starting` and whose updatedAt is older than the
\* timeout. Unless startBot may be Slow (it waits for Docker, not for its own
\* last write), it has been abandoned by then.
Overdue == {b \in LiveRows : /\ row[b].status = "starting"
                             /\ \A r \in Reqs : req[r].op = "start" /\ req[r].bot = b
                                   => Slow /\ req[r].pc # "finish"}

CronList ==
  /\ boot.phase = "up"
  /\ \E overdue \in SUBSET Overdue : overdue # {} /\ cron' = cron \cup overdue
  /\ UNCHANGED <<row, ctr, req, ev, stream, boot>>

\* The same write sets healthStatus, which is in HealthCheck and BotFleet.
CronWrite(b) ==
  /\ b \in cron
  /\ row' = [row EXCEPT ![b].status = "error"]
  /\ cron' = cron \ {b}
  /\ UNCHANGED <<ctr, req, ev, stream, boot>>

-----------------------------------------------------------------------------
(* Crash, restart and reconciliation.                                      *)

Crash ==
  /\ Crashes
  /\ req' = [r \in Reqs |-> Idle]
  /\ ev' = {} /\ cron' = {} /\ stream' = FALSE
  /\ boot' = [phase |-> "list", rows |-> row, keys |-> {}, todo |-> LiveRows]
  /\ UNCHANGED <<row, ctr>>

\* listManagedContainersWithIsolationKeys; on an error the list is empty.
ReconcileKeys ==
  /\ boot.phase = "list"
  /\ \E keys \in {{KeyOf[ctr[c].bot] : c \in {d \in Cids : Exists(d)}}} \cup (IF Faults THEN {{}} ELSE {}) :
       boot' = [boot EXCEPT !.phase = "sync", !.keys = keys]
  /\ UNCHANGED <<row, ctr, req, ev, stream, cron>>

\* The container that vanished between list and inspect is left alone.
SyncIfFound(b, old, has) ==
  IF KeyOf[b] \notin boot.keys
    THEN row' = [row EXCEPT ![b].cid = None,
                            ![b].status = IF old.status = "running" THEN "stopped" ELSE @]
    ELSE row' = IF has /\ Running(old.cid) THEN [row EXCEPT ![b].status = "running"] ELSE row

\* syncBotStatus of one listed bot: `old` is the listed row. `has` says
\* whether inspect found the recorded container.
SyncBotStatus(b, old, has) ==
  IF KeyOf[b] \notin boot.keys
    THEN row' = [row EXCEPT ![b].cid = None,
                            ![b].status = IF old.status = "running" THEN "stopped" ELSE @]
  ELSE IF ~has
    THEN row' = IF old.status = "running"
                  THEN [row EXCEPT ![b].cid = None, ![b].status = "stopped"]
                  ELSE row
  ELSE row' = [row EXCEPT ![b].status =
                 IF Running(old.cid) THEN (IF old.status = "running" THEN @ ELSE "running")
                 ELSE IF old.status # "running" THEN @
                 ELSE IF ctr[old.cid].state = "failed" THEN "error" ELSE "stopped"]

ReconcileBot(b) ==
  /\ boot.phase = "sync" /\ b \in boot.todo
  /\ LET old == boot.rows[b]
     IN  \/ Exists(old.cid) /\ SyncBotStatus(b, old, TRUE)
         \/ (Faults \/ ~Exists(old.cid)) /\ SyncBotStatus(b, old, FALSE)
  /\ boot' = [boot EXCEPT !.todo = @ \ {b}]
  /\ UNCHANGED <<ctr, req, ev, stream, cron>>

\* onModuleInit is done; the HTTP server listens and the crons are registered.
Listen ==
  /\ boot.phase = "sync" /\ boot.todo = {}
  /\ boot' = Booted
  /\ UNCHANGED <<row, ctr, req, ev, stream, cron>>

-----------------------------------------------------------------------------
Init ==
  /\ world \in Worlds
  /\ row = [b \in Bots |-> NoRow]
  /\ ctr = [c \in Cids |-> [bot |-> None, state |-> "unused"]]
  /\ req = [r \in Reqs |-> Idle]
  /\ ev = {} /\ stream = TRUE /\ cron = {}
  /\ boot = Booted

RequestStep(r) ==
  \/ StartMark(r) \/ StartInspect(r) \/ StartStopOld(r) \/ StartRemoveOld(r)
  \/ ClearName(r) \/ CreateContainer(r) \/ StartLaunch(r) \/ RecordContainer(r)
  \/ StartFinish(r) \/ StartFail(r)
  \/ StopHalt(r) \/ StopFinish(r)
  \/ DeleteStop(r) \/ DeleteRemove(r) \/ DeleteRow(r)
  \/ ListLook(r) \/ ListSync(r) \/ ConfigureFinish(r)

RequestArrives(r, b) ==
  \/ CreateRow(r, b) \/ CreateDraft(r, b) \/ ConfigureRead(r, b) \/ StartRead(r, b) \/ StopRead(r, b) \/ DeleteRead(r, b)
  \/ ListRead(r, b)

EventStep == \E e \in ev : EventLookup(e) \/ EventWrite(e)

Next ==
  \/ \E r \in Reqs, b \in Bots : RequestArrives(r, b)
  \/ \E r \in Reqs : RequestStep(r)
  \/ EventStep
  \/ \E c \in Cids : ContainerDies(c) \/ ContainerRestarts(c)
  \/ StreamDrop \/ StreamConnect
  \/ CronList \/ \E b \in Bots : CronWrite(b)
  \/ Crash \/ ReconcileKeys \/ \E b \in Bots : ReconcileBot(b)
  \/ Listen

Spec == Init /\ [][Next /\ UNCHANGED world]_<<vars, world>>

\* Code that is ready to run is run: the event loop schedules every pending
\* continuation, Docker answers or fails, the stream reconnects on a timer,
\* crons fire every minute, and an overdue row stays overdue until written. An
\* open page of the web client polls the bot list every 5 s.
Fairness ==
  /\ \A r \in Reqs : WF_vars(RequestStep(r))
  /\ WF_vars(EventStep) /\ WF_vars(StreamConnect)
  /\ \A c \in Cids : WF_vars(ContainerRestarts(c))
  /\ \A b \in Bots : WF_vars(CronList /\ b \in cron') /\ WF_vars(CronWrite(b))
  /\ WF_vars(ReconcileKeys) /\ WF_vars(Listen)
  /\ \A b \in Bots : WF_vars(ReconcileBot(b))
  /\ \A b \in Bots : WF_vars(world.polled /\ \E r \in Reqs : ListRead(r, b))

FairSpec == Spec /\ Fairness

-----------------------------------------------------------------------------
(* Properties.                                                             *)

PCs == {"idle", "configured", "mark", "inspect", "stopold", "removeold",
        "clear", "create", "launch", "record", "finish", "fail", "halt",
        "stopped", "delstop", "delremove", "erase", "look", "sync"}
Ops == Sent \cup {"none", "create"}
Request == [op : Ops, pc : PCs, bot : Bots \cup {None}, cid : Cids \cup {None},
            val : Status]
Handler == [to : Status, cid : Cids, bot : Bots \cup {None}]
Row == [state : {"none", "live", "deleted"}, status : Status, cid : Cids \cup {None}]

StateOK ==
  /\ row \in [Bots -> Row]
  /\ ctr \in [Cids -> [bot : Bots \cup {None}, state : CtrState]]
  /\ req \in [Reqs -> Request]
  /\ ev \in SUBSET Handler
  /\ stream \in BOOLEAN
  /\ cron \in SUBSET Bots
  /\ boot \in [phase : {"up", "list", "sync"}, rows : [Bots -> Row],
               keys : SUBSET Keys, todo : SUBSET Bots]

\* Every variable keeps its type.
TypeOK == world \in Worlds /\ StateOK

\* The containerId a row records is that of a container made for this very
\* row, whatever requests, crashes and reconciliations overlap: two rows never
\* share one, so an event looked up by containerId has one bot to update.
RecordedContainerIsOwn ==
  \A b \in Bots : row[b].cid # None =>
    ctr[row[b].cid].bot = b /\ ctr[row[b].cid].state # "unused"

\* While Docker answers, startup reconciliation never reports a bot as running
\* without its container: once a live row has been synced and until requests
\* are served again, a status of `running` means that the recorded container
\* runs. (A listing that fails counts as empty; the row then loses its
\* containerId, and an event looked up before still writes `running`.)
ReconciledRunningIsReal ==
  (~Faults /\ boot.phase = "sync") =>
    \A b \in LiveRows \ boot.todo : row[b].status = "running" =>
      row[b].cid # None /\ Running(row[b].cid)

\* A user who issues one request at a time sees startBot fail, while Docker
\* works, only over a port: another bot's container runs on it (ports are kept
\* apart per user). It never fails over what was left under the bot's own name,
\* also when the process crashed halfway through a create, start or delete.
NoStartFailsAlone ==
  (Serial /\ ~Faults) => \A r \in Reqs : req[r].pc = "fail" => PortTaken(req[r].bot)

\* Bots of different names have different ports.
PortsDiffer == \A a, b \in Bots : KeyOf[a] # KeyOf[b] => world.port[a] # world.port[b]

\* deleteBot leaves no container behind when requests are serial, Docker works
\* and the process has not crashed: the row always knows its container. Only one
\* that never ran, as its port was taken when it was to start, may outlast its
\* row: startBot records a container after it has started it.
NoContainerAfterDelete ==
  (Serial /\ ~Faults /\ ~Crashes) =>
    \A c \in Cids : Exists(c) /\ row[ctr[c].bot].state # "live" =>
      ctr[c].state = "created" /\ ~PortsDiffer

\* A bot does not stay in `starting` for ever: startBot finishes, or the cron
\* times it out, also when the process crashed in the middle of startBot.
StartingResolves ==
  <>[](boot.phase = "up") =>
    \A b \in Bots : (Live(b) /\ row[b].status = "starting")
                      ~> (~Live(b) \/ row[b].status # "starting")

\* Once users issue no more requests than the polling of the list, every bot
\* that is not in `error` ends up with the status of its container, however
\* late and in whatever order the handlers of Docker events wrote.
PollingConverges ==
  (world.polled /\ <>[](\A r \in Reqs : req[r].op \in {"none", "list"})) =>
    <>[](\A b \in LiveRows : row[b].status # "error" /\ row[b].cid # None =>
           (row[b].status = "running" <=> Running(row[b].cid)))
=============================================================================
