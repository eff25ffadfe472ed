---------------------------- MODULE BotResources ----------------------------
(***************************************************************************)
(* What the bots of one host share: ports, containers by name, and the     *)
(* directories of workspaces, secrets and OpenClaw data, all named by the  *)
(* bot's isolation key (user and hostname). createBot, createBotSimple,    *)
(* startBot, stopBot, deleteBot and cleanupOrphans claim and release them  *)
(* between their reads and writes of the Bot table.                        *)
(***************************************************************************)
EXTENDS Naturals, FiniteSets

CONSTANTS
  Hosts,       \* isolation keys
  Owner,       \* the user of each
  MaxBots,     \* bound: rows of the Bot table
  PortStart, None,
  Worlds

Bots == 1 .. MaxBots
Ports == PortStart .. PortStart + MaxBots
Containers == [port : Ports \cup {None}, up : BOOLEAN, deaf : BOOLEAN]

ASSUME BotResourcesAssumption ==
  /\ MaxBots \in Nat /\ PortStart \in Nat \ {0} /\ DOMAIN Owner = Hosts
  /\ None \notin Hosts \cup Nat \cup Containers
  /\ Worlds \subseteq [faults : BOOLEAN, crashes : BOOLEAN, cleanup : BOOLEAN, checks : SUBSET Nat,
                       hangs : BOOLEAN, hosts : SUBSET Hosts, bots : Bots]

VARIABLES
  row,         \* the Bot table, in the order of creation
  box,         \* the container of each name
  dirs,        \* the isolation keys with a directory: workspaces, secrets
  memory,      \* the bots whose conversations are in the OpenClaw directory
  req,         \* the request under way (bound: users send them one by one)
  world        \* the environment, which never changes

vars == <<row, box, dirs, memory, req>>

Faults == world.faults    \* may a Docker call or a removal fail?

\* cid: whether containerId is empty, the id of the container of the bot's name,
\* or of one that was replaced.
NoRow == [state |-> "none", host |-> None, port |-> None, status |-> "off", cid |-> "none"]
Live(b) == row[b].state = "live"
LiveHosts == {row[b].host : b \in {b \in Bots : Live(b)}}
BotsOf(u) == {b \in Bots : Live(b) /\ Owner[row[b].host] = u}
Unused == {b \in 1 .. world.bots : row[b].state = "none"}
OneUser == \A g, h \in world.hosts : Owner[g] = Owner[h]
Recorded(b) == row[b].cid = "own" /\ box[row[b].host] # None

Idle == [op |-> "none", pc |-> "idle", host |-> None, bot |-> None, port |-> None,
         todo |-> {}, known |-> {}, clean |-> TRUE]
At(pc) == req.pc = pc
Goto(pc) == req' = [req EXCEPT !.pc = pc]
Arrive(q) == At("idle") /\ req' = q
SetRow(b, f, v) == row' = [row EXCEPT ![b][f] = v]
Without(h) == [box EXCEPT ![h] = None]
EndWith(b, f, v) == SetRow(b, f, v) /\ req' = Idle

-----------------------------------------------------------------------------
(* createBot and createBotSimple                                           *)

StartCreate(h, op) ==
  /\ Unused # {} /\ h \in world.hosts \ LiveHosts
  /\ Arrive([Idle EXCEPT !.op = op, !.host = h, !.pc = IF op = "draft" THEN "insert" ELSE "ports"])
  /\ UNCHANGED <<row, box, dirs, memory>>

\* allocatePort that begins behind the last bot's port.
NextPort(u) == PortStart + Cardinality(BotsOf(u))

\* allocatePort: the first port that no listed bot of the user has.
FreePort(u) ==
  LET used == {row[b].port : b \in BotsOf(u)}
  IN  CHOOSE p \in Ports : p \notin used /\ \A q \in PortStart .. p - 1 : q \in used

ListPorts ==
  /\ At("ports")
  /\ req' = [req EXCEPT !.port = FreePort(Owner[req.host]),
                        !.pc = IF req.op = "create" THEN "workspace" ELSE "saveport"]
  /\ UNCHANGED <<row, box, dirs, memory>>

\* What a bot of the same name left behind is removed, but for its OpenClaw data.
CreateWorkspace ==
  /\ At("workspace") /\ Goto("insert")
  /\ dirs' = [d \in DOMAIN dirs |-> dirs[d] \cup {req.host}]
  /\ UNCHANGED <<row, box, memory>>

InsertRow ==
  /\ At("insert")
  /\ LET b == CHOOSE x \in Unused : \A y \in Unused : x <= y
     IN  /\ row' = [row EXCEPT ![b] = [NoRow EXCEPT !.state = "live", !.host = req.host, !.port = req.port]]
         /\ req' = IF req.op = "draft" THEN Idle ELSE [req EXCEPT !.bot = b, !.pc = "container"]
  /\ UNCHANGED <<box, dirs, memory>>

(* startBot, and the container of createBot                                *)

StartStart(b) ==
  /\ Live(b)
  /\ Arrive([Idle EXCEPT !.op = "start", !.host = row[b].host, !.bot = b, !.port = row[b].port,
                         !.pc = "mark"])
  /\ UNCHANGED <<row, box, dirs, memory>>

MarkStarting ==
  /\ At("mark") /\ SetRow(req.bot, "status", "starting")
  /\ Goto(IF req.port = None THEN "ports" ELSE "remove")
  /\ UNCHANGED <<box, dirs, memory>>

SavePort ==
  /\ At("saveport") /\ SetRow(req.bot, "port", req.port) /\ Goto("remove")
  /\ UNCHANGED <<box, dirs, memory>>

\* The recorded container is removed, or not: that only warns; ensureOpenclawDir.
RemoveOld ==
  /\ At("remove") /\ Goto("container")
  /\ \/ box' = IF Recorded(req.bot) THEN Without(req.host) ELSE box
     \/ Faults /\ UNCHANGED box
  /\ UNCHANGED <<row, dirs, memory>>

\* A container of that name is replaced. createBot goes on without one if it
\* cannot be created, startBot fails.
CreateContainer ==
  /\ At("container")
  /\ \/ /\ box' = [box EXCEPT ![req.host] = [port |-> req.port, up |-> FALSE, deaf |-> FALSE]]
        /\ row' = [row EXCEPT ![req.bot].cid = IF @ = "own" THEN "gone" ELSE @]
        /\ Goto(IF req.op = "create" THEN "record" ELSE "launch")
     \/ /\ Faults /\ UNCHANGED <<row, box>>
        /\ IF req.op = "create" THEN req' = Idle ELSE Goto("error")
  /\ UNCHANGED <<dirs, memory>>

PortTaken == \E g \in Hosts \ {req.host} : box[g] # None /\ box[g].up /\ box[g].port = req.port

\* Docker creates the directories that are bound, and does not start a container
\* whose port another one has.
Launch ==
  /\ At("launch")
  /\ IF PortTaken
       THEN Goto("error") /\ UNCHANGED <<box, dirs, memory>>
       ELSE /\ box' = [box EXCEPT ![req.host].up = TRUE]
            /\ dirs' = [d \in DOMAIN dirs |-> dirs[d] \cup {req.host}]
            /\ memory' = [memory EXCEPT ![req.host] = @ \cup {req.bot}]
            /\ Goto("record")
  /\ UNCHANGED row

Record ==
  /\ At("record") /\ SetRow(req.bot, "cid", "own")
  /\ IF req.op = "create" THEN req' = Idle ELSE Goto("running")
  /\ UNCHANGED <<box, dirs, memory>>

MarkRunning == At("running") /\ EndWith(req.bot, "status", "running") /\ UNCHANGED <<box, dirs, memory>>

MarkError == At("error") /\ EndWith(req.bot, "status", "error") /\ UNCHANGED <<box, dirs, memory>>

(* stopBot and deleteBot                                                   *)

\* To stop a container that has gone is an error, which ends the request.
StopContainer(b) ==
  /\ Live(b) /\ (row[b].cid = "none" \/ Recorded(b))
  /\ box' = IF Recorded(b) THEN [box EXCEPT ![row[b].host].up = FALSE] ELSE box
  /\ Arrive([Idle EXCEPT !.op = "stop", !.bot = b, !.pc = "stopped"])
  /\ UNCHANGED <<row, dirs, memory>>

MarkStopped == At("stopped") /\ EndWith(req.bot, "status", "off") /\ UNCHANGED <<box, dirs, memory>>

\* Stopping and removing the recorded container; an error only warns.
StartDelete(b) ==
  /\ Live(b)
  /\ \/ box' = IF Recorded(b) THEN Without(row[b].host) ELSE box
     \/ Faults /\ UNCHANGED box
  /\ Arrive([Idle EXCEPT !.op = "delete", !.host = row[b].host, !.bot = b, !.pc = "rmdirs"])
  /\ UNCHANGED <<row, dirs, memory>>

\* deleteWorkspace: the three directories; an error only warns.
DeleteWorkspace ==
  /\ At("rmdirs") /\ Goto("erase")
  /\ \/ /\ dirs' = [d \in DOMAIN dirs |-> dirs[d] \ {req.host}]
        /\ memory' = [memory EXCEPT ![req.host] = {}]
     \/ Faults /\ UNCHANGED <<dirs, memory>>
  /\ UNCHANGED <<row, box>>

EraseRow ==
  /\ At("erase")
  /\ row' = [row EXCEPT ![req.bot].state = "deleted", ![req.bot].status = "off"]
  /\ req' = Idle /\ UNCHANGED <<box, dirs, memory>>

(* cleanupOrphans: everything that is not of a bot of the calling user     *)

\* Bots known by another name than their directories.
KnownToNobody(u) == {}
KnownTo(u) == {row[b].host : b \in BotsOf(u)}

StartCleanup(u) ==
  /\ world.cleanup
  /\ Arrive([Idle EXCEPT !.op = "cleanup", !.known = KnownTo(u), !.pc = "containers"])
  /\ UNCHANGED <<row, box, dirs, memory>>

\* In four passes something is listed, and what is listed is removed one by one.
Pass == CASE At("containers") -> {h \in Hosts : box[h] # None}
          [] At("secrets") -> dirs.secrets
          [] OTHER -> dirs.workspace

RemovePass == [containers |-> "rmcontainers", workspaces |-> "rmworkspaces",
               secrets |-> "rmsecrets", leftovers |-> "rmleftovers"]
NextPass == [rmcontainers |-> "workspaces", rmworkspaces |-> "secrets",
             rmsecrets |-> "leftovers", rmleftovers |-> "idle"]

FindOrphans ==
  /\ req.pc \in DOMAIN RemovePass
  /\ req' = [req EXCEPT !.todo = Pass \ req.known, !.pc = RemovePass[@]]
  /\ UNCHANGED <<row, box, dirs, memory>>

\* A container by its name, a directory with all that is in it, and what is left
\* with deleteWorkspaceByKey.
RemoveOrphan ==
  /\ req.pc \in DOMAIN NextPass
  /\ \E h \in req.todo :
       \/ /\ req' = [req EXCEPT !.todo = @ \ {h}]
          /\ box' = IF At("rmcontainers") THEN Without(h) ELSE box
          /\ dirs' = [workspace |-> IF At("rmworkspaces") \/ At("rmleftovers")
                                      THEN dirs.workspace \ {h} ELSE dirs.workspace,
                      secrets |-> IF At("rmsecrets") \/ At("rmleftovers")
                                      THEN dirs.secrets \ {h} ELSE dirs.secrets]
          /\ memory' = IF At("rmleftovers") THEN [memory EXCEPT ![h] = {}] ELSE memory
       \/ /\ Faults /\ req' = [req EXCEPT !.todo = @ \ {h}, !.clean = FALSE]
          /\ UNCHANGED <<box, dirs, memory>>
  /\ UNCHANGED row

EndPass ==
  /\ req.pc \in DOMAIN NextPass /\ req.todo = {}
  /\ IF At("rmleftovers") THEN req' = Idle ELSE Goto(NextPass[req.pc])
  /\ UNCHANGED <<row, box, dirs, memory>>

\* The process dies; containers and directories do not.
Crash ==
  /\ world.crashes /\ ~At("idle") /\ req' = Idle
  /\ UNCHANGED <<row, box, dirs, memory>>

-----------------------------------------------------------------------------
Init ==
  /\ row = [b \in Bots |-> NoRow] /\ box = [h \in Hosts |-> None]
  /\ dirs = [workspace |-> {}, secrets |-> {}] /\ memory = [h \in Hosts |-> {}]
  /\ req = Idle /\ world \in Worlds

Step ==
  \/ \E h \in Hosts : StartCreate(h, "create") \/ StartCreate(h, "draft")
  \/ \E b \in Bots : StartStart(b) \/ StopContainer(b) \/ StartDelete(b)
  \/ \E h \in world.hosts : StartCleanup(Owner[h])
  \/ ListPorts \/ CreateWorkspace \/ InsertRow \/ MarkStarting \/ SavePort \/ RemoveOld
  \/ CreateContainer \/ Launch \/ Record \/ MarkRunning \/ MarkError \/ MarkStopped
  \/ DeleteWorkspace \/ EraseRow \/ FindOrphans \/ RemoveOrphan \/ EndPass

-----------------------------------------------------------------------------
PCs == {"idle", "insert", "ports", "workspace", "container", "mark", "saveport", "remove", "launch",
        "record", "running", "error", "stopped", "rmdirs", "erase"}
         \cup DOMAIN RemovePass \cup DOMAIN NextPass

\* Every variable keeps its type.
TypeOK ==
  /\ row \in [Bots -> [state : {"none", "live", "deleted"}, host : Hosts \cup {None},
                       port : Ports \cup {None}, status : {"off", "starting", "running", "error"},
                       cid : {"none", "own", "gone"}]]
  /\ box \in [Hosts -> Containers \cup {None}]
  /\ dirs \in [workspace : SUBSET Hosts, secrets : SUBSET Hosts]
  /\ memory \in [Hosts -> SUBSET Bots]
  /\ req \in [op : {"none", "create", "draft", "start", "stop", "delete", "cleanup"},
              pc : PCs, host : Hosts \cup {None}, bot : Bots \cup {None},
              port : Ports \cup {None}, todo : SUBSET Hosts, known : SUBSET Hosts, clean : BOOLEAN]
  /\ world \in Worlds

\* No two bots of a user have one hostname or one port, whatever creation,
\* first start, deletion or crash came before; nothing in the schema says so.
NamesAndPortsDiffer ==
  \A a, b \in Bots : Live(a) /\ Live(b) /\ a # b /\ Owner[row[a].host] = Owner[row[b].host] =>
    row[a].host # row[b].host /\ (row[a].port = None \/ row[a].port # row[b].port)

\* A bot never finds the conversations of an earlier bot of its name, also when
\* the deletion of that bot was cut short by a crash.
FreshMemory == ~Faults => \A b \in Bots : Live(b) => memory[row[b].host] \subseteq {b}

\* With one user, cleanupOrphans touches nothing of a bot that exists.
CleanupSparesBots ==
  [][OneUser /\ req.op = "cleanup" =>
       \A h \in LiveHosts :
         /\ box[h] # None => box'[h] # None /\ box'[h].port = box[h].port /\ box'[h].up = box[h].up
         /\ memory'[h] = memory[h]
         /\ \A d \in DOMAIN dirs : h \in dirs[d] => h \in dirs'[d]]_vars

\* When it is done and could remove what it found, no container, workspace or
\* secret is left that is not of a bot, whichever request or crash left it.
CleanupIsThorough ==
  [][At("rmleftovers") /\ req'.pc = "idle" /\ req.todo = {} /\ req.clean =>
       /\ {h \in Hosts : box'[h] # None} \subseteq LiveHosts
       /\ \A d \in DOMAIN dirs : dirs'[d] \subseteq LiveHosts]_vars

\* Cleanup removes what no bot has: that, and all of that.
CleanupRemovesOrphans == CleanupSparesBots /\ CleanupIsThorough

-----------------------------------------------------------------------------
(* A claim of a comment that holds of one user only.                       *)

\* Orphans are "containers without corresponding database entries".
OnlyOrphansAreRemoved ==
  [][req.op = "cleanup" => \A h \in LiveHosts : box[h] # None => box'[h] # None]_vars
=============================================================================
