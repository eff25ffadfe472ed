--------------------------- MODULE BotFleet_proofs ---------------------------
(***************************************************************************)
(* For any bots, hosts, users and threshold: bots share no name, port or   *)
(* memory; cleanup removes what no bot has, that and all of that; and as   *)
(* long as rounds of checks do not overlap, a bot is called unhealthy only *)
(* after that many failures in a row, or when its start is given up.       *)
(***************************************************************************)
EXTENDS BotFleet, FiniteSetTheorems, WellFoundedInduction, TLAPS

Sole == Cardinality(world.checks) = 1

\* The count in memory never runs ahead of the failures in a row, only rounds
\* of this environment are under way, and a round that is about to call a bot
\* unhealthy has just seen the last of them.
Counted ==
  /\ \A b \in Bots : fails[b] <= streak[b]
  /\ \A c \in Rounds : round[c].pc # "idle" => c \in world.checks
  /\ \A c \in Rounds : round[c].pc \in {"read", "write"} =>
       round[c].bot \in Bots /\ (~round[c].ok => streak[round[c].bot] = Threshold)

FInv == Health!TypeOK /\ world.checks \subseteq Rounds /\ (Sole => Counted)

-----------------------------------------------------------------------------
(* The invariant of names, ports and directories                           *)

PortIsFree == \A b \in Bots : Live(b) /\ Owner[row[b].host] = Owner[req.host] => row[b].port # req.port

Rows ==
  /\ \A b \in Bots : Live(b) => row[b].host \in world.hosts
  /\ \A a, b \in Bots : Live(a) /\ Live(b) /\ row[a].host = row[b].host => a = b
  /\ \A a, b \in Bots : Live(a) /\ Live(b) /\ a # b /\ Owner[row[a].host] = Owner[row[b].host] =>
       row[a].port = None \/ row[a].port # row[b].port

\* A bot on its way into the table has a name and a port of its own.
Creating == req.pc \in {"workspace", "insert"} \/ (At("ports") /\ req.op = "create")
Arriving ==
  Creating =>
    /\ req.host \in world.hosts /\ (\A b \in Bots : Live(b) => row[b].host # req.host)
    /\ Unused # {} /\ req.op \in {"create", "draft"} /\ (At("workspace") => req.op = "create")
    /\ ~At("ports") /\ req.op = "create" => PortIsFree
    /\ req.op = "draft" => req.port = None

\* Other requests are about a bot that is there.
AboutABot ==
  \/ req.pc \in {"mark", "saveport", "remove", "container", "launch", "record", "running", "error",
                 "stopped", "rmdirs", "erase"}
  \/ At("ports") /\ req.op # "create"
Serving ==
  AboutABot =>
    /\ req.bot \in Bots /\ Live(req.bot) /\ (~At("stopped") => row[req.bot].host = req.host)
    /\ At("saveport") => PortIsFree
    /\ At("launch") => box[req.host] # None
    /\ At("mark") => req.op # "create"

\* What conversations are kept are those of a bot that is there.
Remembered ==
  ~Faults => /\ \A h \in Hosts : \A b \in memory[h] : Live(b) /\ row[b].host = h
             /\ At("erase") => memory[req.host] = {}

CleanupPCs == DOMAIN RemovePass \cup DOMAIN NextPass
Left(S, pc) == \A h \in S : h \in req.known \/ (At(pc) /\ h \in req.todo)

\* How far a cleanup has come.
Cleaning ==
  /\ req.pc \in CleanupPCs <=> req.op = "cleanup"
  /\ req.op = "cleanup" =>
       /\ req.known \subseteq LiveHosts /\ (OneUser => LiveHosts \subseteq req.known)
       /\ req.todo \cap req.known = {}
       /\ req.clean =>
            /\ ~At("containers") => Left({h \in Hosts : box[h] # None}, "rmcontainers")
            /\ req.pc \notin {"containers", "rmcontainers", "workspaces"} => Left(dirs.workspace, "rmworkspaces")
            /\ req.pc \in {"rmsecrets", "leftovers", "rmleftovers"} => Left(dirs.secrets, "rmsecrets")

RInv == TypeOK /\ Rows /\ Arriving /\ Serving /\ Remembered /\ Cleaning

-----------------------------------------------------------------------------
(* The first free port                                                     *)

LEMMA Least ==
  ASSUME NEW S \in SUBSET Nat, S # {}
  PROVE  \E x \in S : \A y \in S : x <= y
<1>1. PICK n \in S : TRUE
  OBVIOUS
<1> DEFINE I == 0 .. n
           T == {0 .. x : x \in S \cap I}
<1>2. T \subseteq SUBSET I /\ T # {}
  <2>1. n \in S \cap I
    OBVIOUS
  <2>2. \A x \in S \cap I : 0 .. x \subseteq I
    OBVIOUS
  <2> QED
    BY <2>1, <2>2
<1>3. IsWellFoundedOn(StrictSubsetOrdering(I), SUBSET I)
  <2>1. IsFiniteSet(I)
    BY FS_Interval
  <2> QED
    BY <2>1, FS_FiniteSubsetsOfFinite, FS_StrictSubsetOrderingWellFounded
<1> HIDE DEF T, I
<1>4. PICK X \in T : \A Y \in T : <<Y, X>> \notin StrictSubsetOrdering(I)
  BY <1>2, <1>3, WFMin
<1>5. PICK x \in S \cap I : X = 0 .. x
  BY DEF T
<1>6. ASSUME NEW y \in S, y < x PROVE FALSE
  <2>1. y \in S \cap I /\ 0 .. y \in T
    BY <1>6 DEF T, I
  <2>2. 0 .. y \subseteq X /\ 0 .. y # X
    <3>1. x \in X /\ x \notin 0 .. y
      BY <1>5, <1>6
    <3> QED
      BY <1>5, <1>6, <3>1
  <2> QED
    BY <1>2, <1>4, <2>1, <2>2 DEF StrictSubsetOrdering
<1> QED
  BY <1>5, <1>6

\* There is one port more than there can be bots.
LEMMA APortIsLeft ==
  ASSUME NEW S \in SUBSET Bots
  PROVE  \E p \in Ports : p \notin {row[b].port : b \in S}
<1>1. /\ MaxBots \in Nat /\ PortStart \in Nat
      /\ IsFiniteSet(Ports) /\ Cardinality(Ports) = MaxBots + 1
      /\ IsFiniteSet(Bots) /\ Cardinality(Bots) = MaxBots
  BY BotResourcesAssumption, FS_Interval DEF Ports, Bots
<1>2. SUFFICES ASSUME \A p \in Ports : \E b \in S : row[b].port = p PROVE FALSE
  OBVIOUS
<1> DEFINE f == [p \in Ports |-> CHOOSE b \in S : row[b].port = p]
<1>3. \A p \in Ports : f[p] \in S /\ row[f[p]].port = p
  BY <1>2
<1>4. f \in [Ports -> Bots]
  BY <1>3
<1> HIDE DEF f
<1>5. \E p, q \in Ports : p # q /\ f[p] = f[q]
  BY <1>1, <1>4, FS_PigeonHole
<1> QED
  BY <1>3, <1>5

LEMMA FreePortIsFree ==
  ASSUME NEW u
  PROVE  /\ FreePort(u) \in Ports
         /\ \A b \in Bots : Live(b) /\ Owner[row[b].host] = u => row[b].port # FreePort(u)
<1> DEFINE used == {row[b].port : b \in BotsOf(u)}
           free == Ports \ used
<1>1. free # {} /\ free \in SUBSET Nat
  <2>1. BotsOf(u) \in SUBSET Bots
    BY DEF BotsOf
  <2>2. \E p \in Ports : p \notin used
    BY <2>1, APortIsLeft
  <2>3. Ports \subseteq Nat
    BY BotResourcesAssumption DEF Ports
  <2> QED
    BY <2>2, <2>3
<1>2. PICK p \in free : \A q \in free : p <= q
  BY <1>1, Least
<1>3. \A q \in PortStart .. p - 1 : q \in used
  <2>1. \A q \in PortStart .. p - 1 : q \in Ports /\ ~(p <= q)
    BY BotResourcesAssumption DEF Ports
  <2> QED
    BY <1>2, <2>1
<1>4. FreePort(u) \in Ports /\ FreePort(u) \notin used
  BY <1>2, <1>3 DEF FreePort
<1> QED
  BY <1>4 DEF BotsOf

-----------------------------------------------------------------------------
(* Names, ports and directories                                            *)

RowType == [state : {"none", "live", "deleted"}, host : Hosts \cup {None}, port : Ports \cup {None},
            status : {"off", "starting", "running", "error"}, cid : {"none", "own", "gone"}]
DirsType == [workspace : SUBSET Hosts, secrets : SUBSET Hosts]
ReqType == [op : {"none", "create", "draft", "start", "stop", "delete", "cleanup"},
            pc : PCs, host : Hosts \cup {None}, bot : Bots \cup {None}, port : Ports \cup {None},
            todo : SUBSET Hosts, known : SUBSET Hosts, clean : BOOLEAN]

LEMMA PassesAre ==
  /\ DOMAIN RemovePass = {"containers", "workspaces", "secrets", "leftovers"}
  /\ DOMAIN NextPass = {"rmcontainers", "rmworkspaces", "rmsecrets", "rmleftovers"}
  /\ RemovePass["containers"] = "rmcontainers" /\ RemovePass["workspaces"] = "rmworkspaces"
  /\ RemovePass["secrets"] = "rmsecrets" /\ RemovePass["leftovers"] = "rmleftovers"
  /\ NextPass["rmcontainers"] = "workspaces" /\ NextPass["rmworkspaces"] = "secrets"
  /\ NextPass["rmsecrets"] = "leftovers" /\ NextPass["rmleftovers"] = "idle"
BY DEF RemovePass, NextPass

LEMMA PCsAre ==
  PCs = {"idle", "insert", "ports", "workspace", "container", "mark", "saveport", "remove", "launch",
         "record", "running", "error", "stopped", "rmdirs", "erase",
         "containers", "workspaces", "secrets", "leftovers",
         "rmcontainers", "rmworkspaces", "rmsecrets", "rmleftovers"}
BY PassesAre DEF PCs

LEMMA Shapes ==
  ASSUME TypeOK
  PROVE  /\ row \in [Bots -> RowType] /\ box \in [Hosts -> Containers \cup {None}]
         /\ dirs \in DirsType /\ memory \in [Hosts -> SUBSET Bots] /\ req \in ReqType
         /\ world \in Worlds /\ world.hosts \subseteq Hosts /\ world.bots \in Bots
         /\ \A h \in Hosts : h # None
BY BotResourcesAssumption DEF TypeOK, RowType, DirsType, ReqType

\* A step goes on with the request it is at.
LEMMA GoesOn ==
  ASSUME req \in ReqType, NEW pc \in PCs, Goto(pc)
  PROVE  /\ req' \in ReqType /\ req'.pc = pc
         /\ req'.op = req.op /\ req'.host = req.host /\ req'.bot = req.bot /\ req'.port = req.port
         /\ req'.todo = req.todo /\ req'.known = req.known /\ req'.clean = req.clean
BY DEF Goto, ReqType

LEMMA Ends ==
  ASSUME req' = Idle
  PROVE  req' \in ReqType /\ req'.pc = "idle" /\ req'.op = "none" /\ req'.todo = {} /\ req'.clean = TRUE
BY PCsAre DEF Idle, ReqType

LEMMA NextBotFree ==
  ASSUME TypeOK, Unused # {}
  PROVE  LET b == CHOOSE x \in Unused : \A y \in Unused : x <= y
         IN  b \in Bots /\ row[b].state = "none"
<1>1. Unused \in SUBSET Nat /\ Unused \subseteq Bots
  BY Shapes, BotResourcesAssumption DEF Unused, Bots
<1>2. \E x \in Unused : \A y \in Unused : x <= y
  BY <1>1, Least
<1> QED
  BY <1>1, <1>2 DEF Unused

\* In every step but these three each bot keeps its row's state, name and port.
SameBots ==
  \A b \in Bots : row'[b].state = row[b].state /\ row'[b].host = row[b].host /\ row'[b].port = row[b].port

LEMMA OneColumn ==
  ASSUME row \in [Bots -> RowType], NEW b \in Bots
  PROVE  /\ \A x \in {"off", "starting", "running", "error"} :
              SetRow(b, "status", x) => row' \in [Bots -> RowType] /\ SameBots
         /\ \A x \in {"none", "own", "gone"} :
              SetRow(b, "cid", x) => row' \in [Bots -> RowType] /\ SameBots
         /\ \A x \in Ports \cup {None} :
              SetRow(b, "port", x) => /\ row' \in [Bots -> RowType]
                                      /\ row' = [row EXCEPT ![b].port = x]
BY DEF SetRow, RowType, SameBots

LEMMA SameAsBefore ==
  ASSUME TypeOK, SameBots, UNCHANGED world
  PROVE  /\ Rows => Rows'
         /\ \A b \in Bots : Live(b)' = Live(b)
         /\ LiveHosts' = LiveHosts /\ Unused' = Unused /\ OneUser' = OneUser /\ Faults' = Faults
<1>1. \A b \in Bots : Live(b)' = Live(b)
  BY DEF SameBots, Live
<1>2. LiveHosts' = LiveHosts
  BY <1>1 DEF SameBots, LiveHosts
<1>3. Unused' = Unused
  <2>1. 1 .. world.bots \subseteq Bots
    BY Shapes, BotResourcesAssumption DEF Bots
  <2> QED
    BY <2>1 DEF SameBots, Unused
<1>4. Rows => Rows'
  BY <1>1 DEF SameBots, Rows
<1> QED
  BY <1>1, <1>2, <1>3, <1>4 DEF OneUser, Faults

LEMMA TypedByStep ==
  ASSUME RInv, Step, UNCHANGED world
  PROVE  TypeOK'
<1>1. /\ row \in [Bots -> RowType] /\ box \in [Hosts -> Containers \cup {None}]
      /\ dirs \in DirsType /\ memory \in [Hosts -> SUBSET Bots] /\ req \in ReqType
      /\ world \in Worlds /\ world.hosts \subseteq Hosts /\ world.bots \in Bots
      /\ TypeOK
  BY Shapes DEF RInv
<1>2. AboutABot => /\ req.bot \in Bots /\ Live(req.bot)
                   /\ (~At("stopped") => req.host \in Hosts)
  <2>1. \A b \in Bots : Live(b) => row[b].host \in Hosts
    BY <1>1 DEF RInv, Rows
  <2> QED
    BY <2>1 DEF RInv, Serving
<1>3. Creating => req.host \in Hosts /\ Unused # {}
  BY <1>1 DEF RInv, Arriving
<1>4. SUFFICES /\ row' \in [Bots -> RowType] /\ box' \in [Hosts -> Containers \cup {None}]
               /\ dirs' \in DirsType /\ memory' \in [Hosts -> SUBSET Bots] /\ req' \in ReqType
  BY <1>1 DEF TypeOK, RowType, DirsType, ReqType
<1>5. req' = Idle => req' \in ReqType
  BY Ends
<1>6. ASSUME NEW h \in Hosts, StartCreate(h, "create") \/ StartCreate(h, "draft")
      PROVE  row' = row /\ box' = box /\ dirs' = dirs /\ memory' = memory /\ req' \in ReqType
  BY <1>6, PCsAre DEF StartCreate, Arrive, Idle, ReqType
<1>7. ASSUME NEW b \in Bots, StartStart(b)
      PROVE  row' = row /\ box' = box /\ dirs' = dirs /\ memory' = memory /\ req' \in ReqType
  <2>1. row[b].host \in Hosts \cup {None} /\ row[b].port \in Ports \cup {None}
    BY <1>1 DEF RowType
  <2> QED
    BY <1>7, <2>1, PCsAre DEF StartStart, Arrive, Idle, ReqType
<1>8. ASSUME NEW b \in Bots, StopContainer(b) \/ StartDelete(b)
      PROVE  row' = row /\ dirs' = dirs /\ memory' = memory /\ req' \in ReqType
             /\ box' \in [Hosts -> Containers \cup {None}]
  <2>1. row[b].host \in Hosts \cup {None}
    BY <1>1 DEF RowType
  <2>2. req' \in ReqType
    BY <1>8, <2>1, PCsAre DEF StopContainer, StartDelete, Arrive, Idle, ReqType
  <2>3. \A h \in Hosts : box[h] # None => [box[h] EXCEPT !.up = FALSE] \in Containers
    BY <1>1 DEF Containers
  <2>4. box' \in [Hosts -> Containers \cup {None}]
    <3>1. row[b].host \in Hosts
      BY <1>1, <1>8 DEF StopContainer, StartDelete, RInv, Rows
    <3>2. Without(row[b].host) \in [Hosts -> Containers \cup {None}]
      BY <1>1 DEF Without
    <3>3. Recorded(b) => [box EXCEPT ![row[b].host].up = FALSE] \in [Hosts -> Containers \cup {None}]
      BY <1>1, <2>3, <3>1 DEF Recorded
    <3> QED
      BY <1>1, <1>8, <3>2, <3>3 DEF StopContainer, StartDelete
  <2> QED
    BY <1>8, <2>2, <2>4 DEF StopContainer, StartDelete
<1>9. ASSUME NEW h \in world.hosts, StartCleanup(Owner[h])
      PROVE  row' = row /\ box' = box /\ dirs' = dirs /\ memory' = memory /\ req' \in ReqType
  <2>1. KnownTo(Owner[h]) \subseteq Hosts
    BY <1>1 DEF KnownTo, BotsOf, RInv, Rows
  <2> QED
    BY <1>9, <2>1, PCsAre DEF StartCleanup, Arrive, Idle, ReqType
<1>10. CASE ListPorts
  <2>1. FreePort(Owner[req.host]) \in Ports
    BY FreePortIsFree
  <2> DEFINE port == FreePort(Owner[req.host])
             pc == IF req.op = "create" THEN "workspace" ELSE "saveport"
  <2>2. pc \in PCs /\ req \in ReqType
    BY <1>1, PCsAre
  <2>3. req' = [req EXCEPT !.port = port, !.pc = pc] /\ UNCHANGED <<row, box, dirs, memory>>
    BY <1>10 DEF ListPorts
  <2> HIDE DEF port, pc
  <2>4. req' \in ReqType
    BY <2>1, <2>2, <2>3 DEF ReqType, port
  <2> QED
    BY <1>1, <2>3, <2>4
<1>11. CASE CreateWorkspace
  <2>1. req.host \in Hosts
    BY <1>3, <1>11 DEF CreateWorkspace, Creating, At
  <2>2. dirs' \in DirsType
    BY <1>1, <1>11, <2>1 DEF CreateWorkspace, DirsType
  <2> QED
    BY <1>1, <1>11, <2>2, GoesOn, PCsAre DEF CreateWorkspace
<1>12. CASE InsertRow
  <2> DEFINE b == CHOOSE x \in Unused : \A y \in Unused : x <= y
  <2>1. b \in Bots
    BY <1>1, <1>3, <1>12, NextBotFree DEF InsertRow, Creating, At
  <2>2. /\ row' = [row EXCEPT ![b] = [NoRow EXCEPT !.state = "live", !.host = req.host, !.port = req.port]]
        /\ req' = IF req.op = "draft" THEN Idle ELSE [req EXCEPT !.bot = b, !.pc = "container"]
        /\ UNCHANGED <<box, dirs, memory>>
    BY <1>12 DEF InsertRow
  <2> HIDE DEF b
  <2>3. req.host \in Hosts \cup {None} /\ req.port \in Ports \cup {None}
    BY <1>1 DEF ReqType
  <2>4. [NoRow EXCEPT !.state = "live", !.host = req.host, !.port = req.port] \in RowType
    BY <2>3 DEF NoRow, RowType
  <2>5. row' \in [Bots -> RowType]
    BY <1>1, <2>1, <2>2, <2>4
  <2>6. [req EXCEPT !.bot = b, !.pc = "container"] \in ReqType
    BY <1>1, <2>1, PCsAre DEF ReqType
  <2> QED
    BY <1>1, <1>5, <2>2, <2>5, <2>6
<1>13. CASE MarkStarting
  <2>1. req.bot \in Bots
    BY <1>2, <1>13 DEF MarkStarting, AboutABot, At
  <2> QED
    BY <1>1, <1>13, <2>1, OneColumn, GoesOn, PCsAre DEF MarkStarting
<1>14. CASE SavePort
  <2>1. req.bot \in Bots /\ req.port \in Ports \cup {None}
    BY <1>1, <1>2, <1>14 DEF SavePort, AboutABot, At, ReqType
  <2> QED
    BY <1>1, <1>14, <2>1, OneColumn, GoesOn, PCsAre DEF SavePort
<1>15. CASE RemoveOld
  <2>1. box' = Without(req.host) \/ box' = box
    BY <1>15 DEF RemoveOld
  <2> QED
    BY <1>1, <1>15, <2>1, GoesOn, PCsAre DEF RemoveOld, Without
<1>16. CASE CreateContainer
  <2>1. req.bot \in Bots /\ req.host \in Hosts /\ req.port \in Ports \cup {None}
    BY <1>1, <1>2, <1>16 DEF CreateContainer, AboutABot, At, ReqType
  <2>2. [port |-> req.port, up |-> FALSE, deaf |-> FALSE] \in Containers
    BY <2>1 DEF Containers
  <2>3. req' \in ReqType
    BY <1>1, <1>5, <1>16, GoesOn, PCsAre DEF CreateContainer
  <2>4. row' \in [Bots -> RowType] /\ box' \in [Hosts -> Containers \cup {None}]
    BY <1>1, <1>16, <2>1, <2>2 DEF CreateContainer, RowType
  <2> QED
    BY <1>1, <1>16, <2>3, <2>4 DEF CreateContainer
<1>17. CASE Launch
  <2>1. req.bot \in Bots /\ req.host \in Hosts
    BY <1>1, <1>2, <1>17 DEF Launch, AboutABot, At
  <2>2. req' \in ReqType
    BY <1>1, <1>17, GoesOn, PCsAre DEF Launch
  <2>3. \A h \in Hosts : box[h] # None => [box[h] EXCEPT !.up = TRUE] \in Containers
    BY <1>1 DEF Containers
  <2>4. box[req.host] # None => [box EXCEPT ![req.host].up = TRUE] \in [Hosts -> Containers \cup {None}]
    BY <1>1, <2>1, <2>3
  <2>5. dirs' \in DirsType /\ memory' \in [Hosts -> SUBSET Bots]
    BY <1>1, <1>17, <2>1 DEF Launch, DirsType
  <2> QED
    BY <1>1, <1>17, <2>2, <2>4, <2>5 DEF Launch, RInv, Serving, AboutABot, At
<1>18. CASE Record
  <2>1. req.bot \in Bots
    BY <1>2, <1>18 DEF Record, AboutABot, At
  <2> QED
    BY <1>1, <1>5, <1>18, <2>1, OneColumn, GoesOn, PCsAre DEF Record
<1>19. CASE MarkRunning \/ MarkError \/ MarkStopped
  <2>1. req.bot \in Bots
    BY <1>2, <1>19 DEF MarkRunning, MarkError, MarkStopped, AboutABot, At
  <2> QED
    BY <1>1, <1>5, <1>19, <2>1, OneColumn DEF MarkRunning, MarkError, MarkStopped, EndWith
<1>20. CASE DeleteWorkspace
  <2>1. dirs' \in DirsType /\ memory' \in [Hosts -> SUBSET Bots]
    BY <1>1, <1>20 DEF DeleteWorkspace, DirsType
  <2> QED
    BY <1>1, <1>20, <2>1, GoesOn, PCsAre DEF DeleteWorkspace
<1>21. CASE EraseRow
  <2> DEFINE b == req.bot
             r == [row[b] EXCEPT !.state = "deleted", !.status = "off"]
  <2>2. b \in Bots
    BY <1>2, <1>21 DEF EraseRow, AboutABot, At
  <2>3. r \in RowType
    <3>1. row[b] \in RowType
      BY <1>1, <2>2
    <3> QED
      BY <3>1 DEF RowType
  <2>4. row' = [row EXCEPT ![b] = r]
    BY <1>1, <1>21, <2>2 DEF EraseRow
  <2> HIDE DEF r
  <2>1. row' \in [Bots -> RowType]
    BY <1>1, <2>2, <2>3, <2>4
  <2> QED
    BY <1>1, <1>5, <1>21, <2>1 DEF EraseRow
<1>22. CASE FindOrphans
  <2>1. Pass \subseteq Hosts
    BY <1>1 DEF Pass, DirsType
  <2>2. req.pc \in {"containers", "workspaces", "secrets", "leftovers"} /\ RemovePass[req.pc] \in PCs
    BY <1>22, PassesAre, PCsAre DEF FindOrphans
  <2>3. req' = [req EXCEPT !.todo = Pass \ req.known, !.pc = RemovePass[req.pc]]
    BY <1>1, <1>22 DEF FindOrphans, ReqType
  <2>4. req' \in ReqType
    BY <1>1, <2>1, <2>2, <2>3 DEF ReqType
  <2> QED
    BY <1>1, <1>22, <2>4 DEF FindOrphans
<1>23. CASE RemoveOrphan
  <2>1. PICK h \in req.todo :
          \/ /\ req' = [req EXCEPT !.todo = @ \ {h}]
             /\ box' = IF At("rmcontainers") THEN Without(h) ELSE box
             /\ dirs' = [workspace |-> IF At("rmworkspaces") \/ At("rmleftovers")
                                         THEN dirs.workspace \ {h} ELSE dirs.workspace,
                         secrets |-> IF At("rmsecrets") \/ At("rmleftovers")
                                         THEN dirs.secrets \ {h} ELSE dirs.secrets]
             /\ memory' = IF At("rmleftovers") THEN [memory EXCEPT ![h] = {}] ELSE memory
          \/ /\ Faults /\ req' = [req EXCEPT !.todo = @ \ {h}, !.clean = FALSE]
             /\ UNCHANGED <<box, dirs, memory>>
    BY <1>23 DEF RemoveOrphan
  <2>2. req' \in ReqType
    BY <1>1, <2>1 DEF ReqType
  <2>3. box' \in [Hosts -> Containers \cup {None}] /\ memory' \in [Hosts -> SUBSET Bots]
    BY <1>1, <2>1 DEF Without
  <2>4. dirs' \in DirsType
    BY <1>1, <2>1 DEF DirsType
  <2> QED
    BY <1>1, <1>23, <2>2, <2>3, <2>4 DEF RemoveOrphan
<1>24. CASE EndPass
  <2>1. req.pc \in {"rmcontainers", "rmworkspaces", "rmsecrets", "rmleftovers"} /\ NextPass[req.pc] \in PCs
    BY <1>24, PassesAre, PCsAre DEF EndPass
  <2> QED
    BY <1>1, <1>5, <1>24, <2>1, GoesOn DEF EndPass
<1> QED
  BY <1>1, <1>6, <1>7, <1>8, <1>9, <1>10, <1>11, <1>12, <1>13, <1>14, <1>15, <1>16, <1>17, <1>18, <1>19,
     <1>20, <1>21, <1>22, <1>23, <1>24 DEF Step

LEMMA BotsStay ==
  ASSUME RInv, Step, ~InsertRow, ~SavePort, ~EraseRow
  PROVE  SameBots
<1>1. row \in [Bots -> RowType]
  BY Shapes DEF RInv
<1>2. AboutABot => req.bot \in Bots
  BY DEF RInv, Serving
<1>3. CASE row' = row
  BY <1>3 DEF SameBots
<1>4. CASE MarkStarting
  <2>1. req.bot \in Bots
    BY <1>2, <1>4 DEF MarkStarting, AboutABot, At
  <2> QED
    BY <1>1, <1>4, <2>1, OneColumn DEF MarkStarting
<1>5. CASE CreateContainer
  <2>1. req.bot \in Bots
    BY <1>2, <1>5 DEF CreateContainer, AboutABot, At
  <2> QED
    BY <1>1, <1>5, <2>1 DEF CreateContainer, RowType, SameBots
<1>6. CASE Record
  <2>1. req.bot \in Bots
    BY <1>2, <1>6 DEF Record, AboutABot, At
  <2> QED
    BY <1>1, <1>6, <2>1, OneColumn DEF Record
<1>7. CASE MarkRunning \/ MarkError \/ MarkStopped
  <2>1. req.bot \in Bots
    BY <1>2, <1>7 DEF MarkRunning, MarkError, MarkStopped, AboutABot, At
  <2> QED
    BY <1>1, <1>7, <2>1, OneColumn DEF MarkRunning, MarkError, MarkStopped, EndWith
<1> QED
  BY <1>3, <1>4, <1>5, <1>6, <1>7 DEF Step, StartCreate, StartStart, StopContainer, StartDelete, StartCleanup,
     ListPorts, CreateWorkspace, RemoveOld, Launch, DeleteWorkspace, FindOrphans, RemoveOrphan, EndPass

\* Nothing is remembered or forgotten, and no deletion is on its last step.
LEMMA RememberedStays ==
  ASSUME RInv, SameBots, UNCHANGED <<memory, world>>, ~At("erase")'
  PROVE  Remembered'
<1>1. TypeOK /\ memory \in [Hosts -> SUBSET Bots]
  BY Shapes DEF RInv
<1>2. \A b \in Bots : Live(b)' = Live(b) /\ row'[b].host = row[b].host
  BY <1>1, SameAsBefore DEF SameBots
<1> QED
  BY <1>1, <1>2 DEF RInv, Remembered, Faults

LEMMA Ending ==
  ASSUME req' = Idle
  PROVE  Arriving' /\ Serving' /\ Cleaning' /\ ~At("erase")'
<1>1. req'.pc = "idle" /\ req'.op = "none"
  BY DEF Idle
<1> QED
  BY <1>1, PassesAre DEF Arriving, Creating, Serving, AboutABot, Cleaning, CleanupPCs, At

\* A step of a request about a bot.
LEMMA GoingOn ==
  ASSUME RInv, SameBots, UNCHANGED world, AboutABot, ~At("stopped"),
         req'.op = req.op, req'.host = req.host, req'.bot = req.bot,
         \/ req'.pc \in {"remove", "container", "record", "running", "error", "erase"}
         \/ req'.pc = "ports" /\ req.op # "create"
         \/ req'.pc = "saveport" /\ PortIsFree'
         \/ req'.pc = "launch" /\ box'[req.host] # None
  PROVE  Arriving' /\ Serving' /\ Cleaning'
<1>1. req.bot \in Bots /\ Live(req.bot) /\ row[req.bot].host = req.host
  BY DEF RInv, Serving
<1>2. Live(req.bot)' /\ row'[req.bot].host = req.host
  BY <1>1 DEF SameBots, Live
<1>3. Arriving'
  BY DEF Arriving, Creating, At
<1>4. Serving'
  BY <1>1, <1>2 DEF Serving, At, SameBots, Live
<1>5. req.op # "cleanup" /\ req.pc \notin CleanupPCs
  BY PassesAre DEF RInv, Cleaning, CleanupPCs, AboutABot, At
<1>6. Cleaning'
  BY <1>5, PassesAre DEF Cleaning, CleanupPCs
<1> QED
  BY <1>3, <1>4, <1>6

LEMMA ByArrival ==
  ASSUME RInv, UNCHANGED world, NEW b \in Bots, NEW h \in Hosts,
         \/ StartCreate(h, "create") \/ StartCreate(h, "draft")
         \/ StartStart(b) \/ StopContainer(b) \/ StartDelete(b)
  PROVE  Arriving' /\ Serving' /\ Remembered' /\ Cleaning'
<1>1. TypeOK /\ row' = row /\ memory' = memory
  BY DEF RInv, StartCreate, StartStart, StopContainer, StartDelete
<1>2. SameBots /\ (\A a \in Bots : Live(a)' = Live(a)) /\ Unused' = Unused
  BY <1>1, SameAsBefore DEF SameBots
<1>3. CASE StartCreate(h, "create") \/ StartCreate(h, "draft")
  <2>1. /\ req'.host = h /\ req'.port = None
        /\ \/ req'.op = "create" /\ req'.pc = "ports"
           \/ req'.op = "draft" /\ req'.pc = "insert"
    BY <1>3 DEF StartCreate, Arrive, Idle
  <2>2. h \in world.hosts /\ Unused # {} /\ \A a \in Bots : Live(a) => row[a].host # h
    BY <1>3 DEF StartCreate, LiveHosts
  <2>3. Arriving'
    BY <1>1, <1>2, <2>1, <2>2 DEF Arriving, At
  <2>4. Serving' /\ Cleaning' /\ ~At("erase")'
    BY <2>1, PassesAre DEF Serving, AboutABot, Cleaning, CleanupPCs, At
  <2> QED
    BY <1>1, <1>2, <2>3, <2>4, RememberedStays
<1>4. CASE StartStart(b) \/ StopContainer(b) \/ StartDelete(b)
  <2>1. /\ req'.bot = b /\ req'.op \in {"start", "stop", "delete"} /\ Live(b)
        /\ \/ req'.pc \in {"mark", "rmdirs"} /\ req'.host = row[b].host
           \/ req'.pc = "stopped"
    BY <1>4 DEF StartStart, StopContainer, StartDelete, Arrive, Idle
  <2>2. Live(b)'
    BY <1>2, <2>1
  <2>3. Serving'
    BY <1>1, <2>1, <2>2 DEF Serving, At
  <2>4. Arriving' /\ Cleaning' /\ ~At("erase")'
    BY <2>1, PassesAre DEF Arriving, Creating, Cleaning, CleanupPCs, At
  <2> QED
    BY <1>1, <1>2, <2>3, <2>4, RememberedStays
<1> QED
  BY <1>3, <1>4

LEMMA ByInsert ==
  ASSUME RInv, UNCHANGED world, InsertRow, TypeOK'
  PROVE  Rows' /\ Arriving' /\ Serving' /\ Remembered' /\ Cleaning'
<1>1. /\ row \in [Bots -> RowType] /\ memory \in [Hosts -> SUBSET Bots] /\ req \in ReqType /\ TypeOK
      /\ world.hosts \subseteq Hosts
  BY Shapes DEF RInv
<1>2. /\ Creating /\ req.host \in world.hosts /\ \A a \in Bots : Live(a) => row[a].host # req.host
      /\ req.op \in {"create", "draft"} /\ (req.op = "create" => PortIsFree)
      /\ (req.op = "draft" => req.port = None) /\ Unused # {}
  BY DEF RInv, Arriving, Creating, At, InsertRow
<1>3. PICK b \in Bots : row[b].state = "none" /\ b = CHOOSE x \in Unused : \A y \in Unused : x <= y
  BY <1>1, <1>2, NextBotFree
<1>4. /\ row' = [row EXCEPT ![b] = [NoRow EXCEPT !.state = "live", !.host = req.host, !.port = req.port]]
      /\ req' = IF req.op = "draft" THEN Idle ELSE [req EXCEPT !.bot = b, !.pc = "container"]
      /\ memory' = memory /\ box' = box
  BY <1>3 DEF InsertRow
<1>5. /\ row'[b].state = "live" /\ row'[b].host = req.host /\ row'[b].port = req.port
      /\ \A a \in Bots \ {b} : row'[a] = row[a]
  BY <1>1, <1>3, <1>4 DEF NoRow
<1>6. ~Live(b) /\ Live(b)' /\ \A a \in Bots \ {b} : Live(a)' = Live(a)
  BY <1>3, <1>5 DEF Live
<1>7. Rows'
  <2>1. \A a \in Bots : Live(a)' => row'[a].host \in world'.hosts
    BY <1>2, <1>5, <1>6 DEF RInv, Rows
  <2>2. \A a, c \in Bots : Live(a)' /\ Live(c)' /\ row'[a].host = row'[c].host => a = c
    BY <1>2, <1>5, <1>6 DEF RInv, Rows
  <2>3. \A a, c \in Bots : Live(a)' /\ Live(c)' /\ a # c /\ Owner[row'[a].host] = Owner[row'[c].host] =>
          row'[a].port = None \/ row'[a].port # row'[c].port
    BY <1>2, <1>5, <1>6 DEF RInv, Rows, PortIsFree
  <2> QED
    BY <2>1, <2>2, <2>3 DEF Rows
<1>8. Remembered'
  <2>1. ~At("erase")'
    BY <1>1, <1>4 DEF At, Idle, ReqType
  <2>2. \A h \in Hosts : \A a \in memory[h] : a \in Bots
    BY <1>1
  <2> QED
    BY <1>4, <1>5, <1>6, <2>1, <2>2 DEF RInv, Remembered, Faults
<1>9. CASE req.op = "draft"
  BY <1>4, <1>7, <1>8, <1>9, Ending
<1>10. CASE req.op = "create"
  <2>1. req'.op = "create" /\ req'.host = req.host /\ req'.bot = b /\ req'.pc = "container"
    BY <1>1, <1>4, <1>10 DEF ReqType
  <2>2. Arriving' /\ Serving' /\ Cleaning'
    BY <1>3, <1>5, <1>6, <2>1, PassesAre DEF Arriving, Creating, Serving, AboutABot, Cleaning, CleanupPCs, At
  <2> QED
    BY <1>7, <1>8, <2>2
<1> QED
  BY <1>2, <1>9, <1>10

LEMMA BySavePort ==
  ASSUME RInv, UNCHANGED world, SavePort
  PROVE  Rows' /\ Arriving' /\ Serving' /\ Remembered' /\ Cleaning'
<1>1. /\ row \in [Bots -> RowType] /\ memory \in [Hosts -> SUBSET Bots] /\ req \in ReqType
  BY Shapes DEF RInv
<1>2. /\ req.bot \in Bots /\ Live(req.bot) /\ row[req.bot].host = req.host /\ PortIsFree
      /\ req.pc \notin CleanupPCs /\ req.op # "cleanup"
  BY PassesAre DEF RInv, Serving, AboutABot, At, SavePort, Cleaning, CleanupPCs
<1>3. row' = [row EXCEPT ![req.bot].port = req.port] /\ memory' = memory /\ box' = box
  BY <1>1, <1>2 DEF SavePort, SetRow, RowType
<1>4. /\ \A a \in Bots : row'[a].state = row[a].state /\ row'[a].host = row[a].host
      /\ \A a \in Bots : row'[a].port = IF a = req.bot THEN req.port ELSE row[a].port
  BY <1>1, <1>2, <1>3 DEF RowType
<1>5. \A a \in Bots : Live(a)' = Live(a)
  BY <1>4 DEF Live
<1>6. Rows'
  <2>1. \A a, c \in Bots : Live(a) /\ Live(c) /\ a # c /\ Owner[row[a].host] = Owner[row[c].host] =>
          row'[a].port = None \/ row'[a].port # row'[c].port
    BY <1>2, <1>4 DEF RInv, Rows, PortIsFree
  <2> QED
    BY <1>4, <1>5, <2>1 DEF RInv, Rows
<1>7. req'.pc = "remove" /\ req'.op = req.op /\ req'.host = req.host /\ req'.bot = req.bot
  BY <1>1, PCsAre, GoesOn DEF SavePort
<1>8. Remembered'
  <2>1. \A h \in Hosts : \A a \in memory[h] : a \in Bots
    BY <1>1
  <2> QED
    BY <1>3, <1>4, <1>5, <1>7, <2>1 DEF RInv, Remembered, Faults, At
<1>9. Arriving' /\ Serving' /\ Cleaning'
  BY <1>2, <1>4, <1>5, <1>7, PassesAre DEF Arriving, Creating, Serving, AboutABot, Cleaning, CleanupPCs, At
<1> QED
  BY <1>6, <1>8, <1>9

\* With the row goes the last trace of the bot.
LEMMA ByErase ==
  ASSUME RInv, UNCHANGED world, EraseRow
  PROVE  Rows' /\ Arriving' /\ Serving' /\ Remembered' /\ Cleaning'
<1>1. /\ row \in [Bots -> RowType] /\ memory \in [Hosts -> SUBSET Bots] /\ req \in ReqType
  BY Shapes DEF RInv
<1>2. PICK b \in Bots : b = req.bot /\ Live(b) /\ row[b].host = req.host
  BY DEF RInv, Serving, AboutABot, At, EraseRow
<1>3. /\ row' = [row EXCEPT ![b].state = "deleted", ![b].status = "off"]
      /\ req' = Idle /\ memory' = memory
  BY <1>2 DEF EraseRow
<1>4. /\ \A a \in Bots \ {b} : row'[a] = row[a]
      /\ row'[b].state = "deleted"
  BY <1>1, <1>2, <1>3 DEF RowType
<1>5. ~Live(b)' /\ \A a \in Bots \ {b} : Live(a)' = Live(a)
  BY <1>4 DEF Live
<1>6. Rows'
  BY <1>4, <1>5 DEF RInv, Rows
<1>7. Remembered'
  <2>1. ASSUME ~Faults, NEW h \in Hosts, NEW a \in memory[h]
        PROVE  a \in Bots /\ a # b /\ Live(a) /\ row[a].host = h
    BY <1>1, <1>2, <2>1 DEF RInv, Remembered, EraseRow, At
  <2>2. ~At("erase")'
    BY <1>3, Ending
  <2> QED
    BY <1>3, <1>4, <1>5, <2>1, <2>2 DEF Remembered, Faults
<1> QED
  BY <1>3, <1>6, <1>7, Ending

LEMMA ByBot ==
  ASSUME RInv, UNCHANGED world, SameBots,
         \/ ListPorts \/ CreateWorkspace \/ MarkStarting \/ RemoveOld \/ CreateContainer \/ Launch
         \/ Record \/ MarkRunning \/ MarkError \/ MarkStopped \/ DeleteWorkspace
  PROVE  Arriving' /\ Serving' /\ Remembered' /\ Cleaning'
<1>1. /\ row \in [Bots -> RowType] /\ memory \in [Hosts -> SUBSET Bots] /\ req \in ReqType /\ TypeOK
      /\ box \in [Hosts -> Containers \cup {None}]
  BY Shapes DEF RInv
<1>2. (\A a \in Bots : Live(a)' = Live(a) /\ row'[a].host = row[a].host /\ row'[a].port = row[a].port)
      /\ Unused' = Unused
  BY <1>1, SameAsBefore DEF SameBots
<1>3. AboutABot => /\ req.bot \in Bots /\ Live(req.bot)
                   /\ (~At("stopped") => row[req.bot].host = req.host /\ req.host \in Hosts)
  <2>1. \A c \in Bots : Live(c) => row[c].host \in Hosts
    BY <1>1, Shapes DEF RInv, Rows
  <2> QED
    BY <2>1 DEF RInv, Serving
<1>4. CASE ListPorts
  <2>1. /\ req'.port = FreePort(Owner[req.host]) /\ req'.host = req.host /\ req'.op = req.op
        /\ req'.bot = req.bot /\ memory' = memory
        /\ req'.pc = IF req.op = "create" THEN "workspace" ELSE "saveport"
    BY <1>1, <1>4 DEF ListPorts, ReqType
  <2>2. PortIsFree'
    BY <1>2, <2>1, FreePortIsFree DEF PortIsFree
  <2>3. CASE req.op = "create"
    <3>1. /\ req.host \in world.hosts /\ (\A c \in Bots : Live(c) => row[c].host # req.host)
          /\ Unused # {}
      BY <1>4, <2>3 DEF RInv, Arriving, Creating, ListPorts
    <3>2. Arriving'
      BY <1>2, <2>1, <2>2, <2>3, <3>1 DEF Arriving, At
    <3>3. Serving' /\ Cleaning' /\ ~At("erase")'
      BY <2>1, <2>3, PassesAre DEF Serving, AboutABot, Cleaning, CleanupPCs, At
    <3> QED
      BY <2>1, <3>2, <3>3, RememberedStays
  <2>4. CASE req.op # "create"
    <3>1. AboutABot /\ ~At("stopped")
      BY <1>4, <2>4 DEF ListPorts, AboutABot, At
    <3>2. Arriving' /\ Serving' /\ Cleaning'
      BY <2>1, <2>2, <2>4, <3>1, GoingOn
    <3> QED
      BY <2>1, <2>4, <3>2, RememberedStays DEF At
  <2> QED
    BY <2>3, <2>4
<1>5. CASE CreateWorkspace
  <2>1. req'.pc = "insert" /\ req'.op = req.op /\ req'.host = req.host /\ req'.port = req.port /\ memory' = memory
    BY <1>1, <1>5, PCsAre, GoesOn DEF CreateWorkspace
  <2>2. /\ req.host \in world.hosts /\ (\A c \in Bots : Live(c) => row[c].host # req.host)
        /\ Unused # {} /\ req.op = "create" /\ PortIsFree
    BY <1>5 DEF RInv, Arriving, Creating, CreateWorkspace, At
  <2>3. PortIsFree'
    BY <1>2, <2>1, <2>2 DEF PortIsFree
  <2>4. Arriving'
    BY <1>2, <2>1, <2>2, <2>3 DEF Arriving, At
  <2>5. Serving' /\ Cleaning' /\ ~At("erase")'
    BY <2>1, <2>2, PassesAre DEF Serving, AboutABot, Cleaning, CleanupPCs, At
  <2> QED
    BY <2>1, <2>4, <2>5, RememberedStays
<1>6. CASE req' = Idle /\ memory' = memory
  BY <1>6, Ending, RememberedStays
<1>7. ASSUME AboutABot, ~At("stopped"), memory' = memory, NEW pc \in {"ports", "remove", "container", "launch",
                "record", "running", "error"}, Goto(pc),
             pc = "ports" => req.op # "create", pc = "launch" => box'[req.host] # None
      PROVE  Arriving' /\ Serving' /\ Remembered' /\ Cleaning'
  <2>1. req'.pc = pc /\ req'.op = req.op /\ req'.host = req.host /\ req'.bot = req.bot
    BY <1>1, <1>7, PCsAre, GoesOn
  <2>2. Arriving' /\ Serving' /\ Cleaning'
    BY <1>7, <2>1, GoingOn
  <2> QED
    BY <1>7, <2>1, <2>2, RememberedStays DEF At
<1>8. CASE MarkStarting
  <2>1. AboutABot /\ ~At("stopped") /\ memory' = memory
    BY <1>8 DEF MarkStarting, AboutABot, At
  <2>2. req.op # "create"
    BY <1>8, <2>1 DEF RInv, Serving, MarkStarting
  <2>3. Goto("ports") \/ Goto("remove")
    BY <1>8 DEF MarkStarting
  <2> QED
    BY <1>7, <2>1, <2>2, <2>3
<1>9. CASE RemoveOld
  BY <1>7, <1>9 DEF RemoveOld, AboutABot, At
<1>10. CASE CreateContainer
  <2>1. AboutABot /\ ~At("stopped") /\ memory' = memory
    BY <1>10 DEF CreateContainer, AboutABot, At
  <2>2. \/ req' = Idle \/ Goto("error") \/ Goto("record")
        \/ /\ Goto("launch")
           /\ box' = [box EXCEPT ![req.host] = [port |-> req.port, up |-> FALSE, deaf |-> FALSE]]
    BY <1>10 DEF CreateContainer
  <2>3. [port |-> req.port, up |-> FALSE, deaf |-> FALSE] # None
    <3>1. req.port \in Ports \cup {None}
      BY <1>1 DEF ReqType
    <3>2. [port |-> req.port, up |-> FALSE, deaf |-> FALSE] \in Containers
      BY <3>1 DEF Containers
    <3> QED
      BY <3>2, BotResourcesAssumption
  <2>4. Goto("launch") => box'[req.host] # None \/ Goto("error") \/ Goto("record") \/ req' = Idle
    BY <1>1, <1>3, <2>1, <2>2, <2>3
  <2> QED
    BY <1>6, <1>7, <2>1, <2>2, <2>4
<1>11. CASE Launch
  <2>1. AboutABot /\ ~At("stopped")
    BY <1>11 DEF Launch, AboutABot, At
  <2>2. CASE PortTaken
    BY <1>7, <1>11, <2>1, <2>2 DEF Launch
  <2>3. CASE ~PortTaken
    <3>1. Goto("record") /\ memory' = [memory EXCEPT ![req.host] = @ \cup {req.bot}]
      BY <1>11, <2>3 DEF Launch
    <3>2. req'.pc = "record" /\ req'.op = req.op /\ req'.host = req.host /\ req'.bot = req.bot
      BY <1>1, <3>1, PCsAre, GoesOn
    <3>3. Arriving' /\ Serving' /\ Cleaning'
      BY <2>1, <3>2, GoingOn
    <3>4. ASSUME ~Faults, NEW h \in Hosts, NEW c \in memory'[h]
          PROVE  Live(c)' /\ row'[c].host = h
      <4>1. c \in memory[h] \/ (h = req.host /\ c = req.bot)
        BY <1>1, <1>3, <2>1, <3>1, <3>4
      <4>2. CASE c \in memory[h]
        <5>1. c \in Bots /\ Live(c) /\ row[c].host = h
          BY <1>1, <3>4, <4>2 DEF RInv, Remembered
        <5> QED
          BY <1>2, <5>1
      <4>3. CASE h = req.host /\ c = req.bot
        <5>1. c \in Bots /\ Live(c) /\ row[c].host = h
          BY <1>3, <2>1, <4>3
        <5> QED
          BY <1>2, <5>1
      <4> QED
        BY <4>1, <4>2, <4>3
    <3>5. Remembered'
      BY <3>2, <3>4 DEF Remembered, Faults, At
    <3> QED
      BY <3>3, <3>5
  <2> QED
    BY <2>2, <2>3
<1>12. CASE Record
  <2>1. AboutABot /\ ~At("stopped") /\ memory' = memory /\ (req' = Idle \/ Goto("running"))
    BY <1>12 DEF Record, AboutABot, At
  <2> QED
    BY <1>6, <1>7, <2>1
<1>13. CASE MarkRunning \/ MarkError \/ MarkStopped
  BY <1>6, <1>13 DEF MarkRunning, MarkError, MarkStopped, EndWith
<1>14. CASE DeleteWorkspace
  <2>1. AboutABot /\ ~At("stopped") /\ Goto("erase")
    BY <1>14 DEF DeleteWorkspace, AboutABot, At
  <2>2. req'.pc = "erase" /\ req'.op = req.op /\ req'.host = req.host /\ req'.bot = req.bot
    BY <1>1, <2>1, PCsAre, GoesOn
  <2>3. Arriving' /\ Serving' /\ Cleaning'
    BY <2>1, <2>2, GoingOn
  <2>4. ~Faults => memory' = [memory EXCEPT ![req.host] = {}]
    BY <1>14 DEF DeleteWorkspace
  <2>5. ASSUME ~Faults, NEW h \in Hosts, NEW c \in memory'[h]
        PROVE  Live(c)' /\ row'[c].host = h
    <3>1. c \in memory[h]
      BY <1>1, <2>4, <2>5
    <3>2. c \in Bots /\ Live(c) /\ row[c].host = h
      BY <1>1, <2>5, <3>1 DEF RInv, Remembered
    <3> QED
      BY <1>2, <3>2
  <2>6. ~Faults => memory'[req.host] = {}
    BY <1>1, <1>3, <2>1, <2>4
  <2>7. Remembered'
    BY <2>2, <2>5, <2>6 DEF Remembered, Faults
  <2> QED
    BY <2>3, <2>7
<1> QED
  BY <1>4, <1>5, <1>8, <1>9, <1>10, <1>11, <1>12, <1>13, <1>14

LEMMA ByCleanup ==
  ASSUME RInv, UNCHANGED world,
         (\E h \in world.hosts : StartCleanup(Owner[h])) \/ FindOrphans \/ RemoveOrphan \/ EndPass
  PROVE  Arriving' /\ Serving' /\ Remembered' /\ Cleaning'
<1>1. /\ row \in [Bots -> RowType] /\ memory \in [Hosts -> SUBSET Bots] /\ req \in ReqType /\ TypeOK
      /\ dirs \in DirsType /\ box \in [Hosts -> Containers \cup {None}]
  BY Shapes DEF RInv
<1>2. row' = row /\ SameBots
  BY DEF StartCleanup, FindOrphans, RemoveOrphan, EndPass, SameBots
<1>3. (\A a \in Bots : Live(a)' = Live(a)) /\ LiveHosts' = LiveHosts /\ OneUser' = OneUser
  BY <1>1, <1>2, SameAsBefore
<1>4. ASSUME req'.op = "cleanup", req'.pc \in CleanupPCs
      PROVE  Arriving' /\ Serving' /\ ~At("erase")'
  BY <1>4, PassesAre DEF Arriving, Creating, Serving, AboutABot, CleanupPCs, At
<1>5. ASSUME NEW g \in world.hosts, NEW u, u = Owner[g], StartCleanup(u)
      PROVE  Arriving' /\ Serving' /\ Remembered' /\ Cleaning'
  <2>1. /\ req'.op = "cleanup" /\ req'.known = KnownTo(u) /\ req'.todo = {} /\ req'.pc = "containers"
        /\ memory' = memory
    BY <1>5 DEF StartCleanup, Arrive, Idle
  <2>2. KnownTo(u) \subseteq LiveHosts
    BY DEF KnownTo, LiveHosts, BotsOf
  <2>3. OneUser => LiveHosts \subseteq KnownTo(u)
    BY <1>5 DEF KnownTo, LiveHosts, BotsOf, OneUser, RInv, Rows
  <2>4. Cleaning'
    BY <1>3, <2>1, <2>2, <2>3, PassesAre DEF Cleaning, CleanupPCs, At
  <2> QED
    BY <1>2, <1>4, <2>1, <2>4, PassesAre, RememberedStays DEF CleanupPCs
<1>6. CASE FindOrphans
  <2>1. /\ req.pc \in {"containers", "workspaces", "secrets", "leftovers"}
        /\ req' = [req EXCEPT !.todo = Pass \ req.known, !.pc = RemovePass[req.pc]]
        /\ UNCHANGED <<box, dirs, memory>>
    BY <1>1, <1>6, PassesAre DEF FindOrphans, ReqType
  <2>2. /\ req'.op = req.op /\ req'.known = req.known /\ req'.clean = req.clean
        /\ req'.todo = Pass \ req.known /\ req'.pc = RemovePass[req.pc]
    BY <1>1, <2>1 DEF ReqType
  <2>3. req.op = "cleanup"
    BY <2>1, PassesAre DEF RInv, Cleaning, CleanupPCs
  <2>4. /\ req.known \subseteq LiveHosts /\ (OneUser => LiveHosts \subseteq req.known)
        /\ req.clean =>
            /\ ~At("containers") => Left({h \in Hosts : box[h] # None}, "rmcontainers")
            /\ req.pc \notin {"containers", "rmcontainers", "workspaces"} => Left(dirs.workspace, "rmworkspaces")
            /\ req.pc \in {"rmsecrets", "leftovers", "rmleftovers"} => Left(dirs.secrets, "rmsecrets")
    BY <2>3 DEF RInv, Cleaning
  <2>5. Cleaning'
    BY <1>3, <2>1, <2>2, <2>3, <2>4, PassesAre DEF Cleaning, CleanupPCs, At, Left, Pass
  <2> QED
    BY <1>2, <1>4, <2>1, <2>2, <2>3, <2>5, PassesAre, RememberedStays DEF CleanupPCs
<1>7. CASE RemoveOrphan
  <2>1. PICK h \in req.todo :
          \/ /\ req' = [req EXCEPT !.todo = @ \ {h}]
             /\ box' = IF At("rmcontainers") THEN Without(h) ELSE box
             /\ dirs' = [workspace |-> IF At("rmworkspaces") \/ At("rmleftovers")
                                         THEN dirs.workspace \ {h} ELSE dirs.workspace,
                         secrets |-> IF At("rmsecrets") \/ At("rmleftovers")
                                         THEN dirs.secrets \ {h} ELSE dirs.secrets]
             /\ memory' = IF At("rmleftovers") THEN [memory EXCEPT ![h] = {}] ELSE memory
          \/ /\ Faults /\ req' = [req EXCEPT !.todo = @ \ {h}, !.clean = FALSE]
             /\ UNCHANGED <<box, dirs, memory>>
    BY <1>7 DEF RemoveOrphan
  <2>2. req.pc \in {"rmcontainers", "rmworkspaces", "rmsecrets", "rmleftovers"} /\ req.op = "cleanup"
    BY <1>7, PassesAre DEF RemoveOrphan, RInv, Cleaning, CleanupPCs
  <2>3. /\ req'.op = req.op /\ req'.known = req.known /\ req'.pc = req.pc /\ req'.todo = req.todo \ {h}
    BY <1>1, <2>1 DEF ReqType
  <2>4. req'.clean => /\ req.clean /\ \A g \in Hosts : g # h => (box'[g] # None => box[g] # None)
                      /\ \A g \in Hosts : box'[g] # None => box[g] # None
                      /\ At("rmcontainers") => box'[h] = None
                      /\ dirs'.workspace \subseteq dirs.workspace /\ dirs'.secrets \subseteq dirs.secrets
                      /\ At("rmworkspaces") => h \notin dirs'.workspace
                      /\ At("rmsecrets") => h \notin dirs'.secrets
    <3>1. h \in Hosts
      BY <1>1 DEF ReqType
    <3>2. ASSUME req'.clean
          PROVE  /\ req.clean /\ h \in Hosts
                 /\ box' = IF At("rmcontainers") THEN Without(h) ELSE box
                 /\ dirs'.workspace = IF At("rmworkspaces") \/ At("rmleftovers")
                                        THEN dirs.workspace \ {h} ELSE dirs.workspace
                 /\ dirs'.secrets = IF At("rmsecrets") \/ At("rmleftovers")
                                      THEN dirs.secrets \ {h} ELSE dirs.secrets
      <4>1. ~[req EXCEPT !.todo = @ \ {h}, !.clean = FALSE].clean /\ [req EXCEPT !.todo = @ \ {h}].clean = req.clean
        BY <1>1 DEF ReqType
      <4>2. req' # [req EXCEPT !.todo = @ \ {h}, !.clean = FALSE]
        BY <3>2, <4>1
      <4>3. /\ req' = [req EXCEPT !.todo = @ \ {h}]
            /\ box' = IF At("rmcontainers") THEN Without(h) ELSE box
            /\ dirs' = [workspace |-> IF At("rmworkspaces") \/ At("rmleftovers")
                                        THEN dirs.workspace \ {h} ELSE dirs.workspace,
                        secrets |-> IF At("rmsecrets") \/ At("rmleftovers")
                                        THEN dirs.secrets \ {h} ELSE dirs.secrets]
        BY <2>1, <4>2
      <4>4. req.clean
        BY <3>2, <4>1, <4>3, Zenon
      <4> QED
        BY <3>1, <4>3, <4>4
    <3> QED
      BY <1>1, <3>1, <3>2 DEF Without, At
  <2>5. Cleaning'
    <3>1. /\ req.known \subseteq LiveHosts /\ (OneUser => LiveHosts \subseteq req.known)
          /\ req.todo \cap req.known = {}
          /\ req.clean =>
              /\ ~At("containers") => Left({g \in Hosts : box[g] # None}, "rmcontainers")
              /\ req.pc \notin {"containers", "rmcontainers", "workspaces"} => Left(dirs.workspace, "rmworkspaces")
              /\ req.pc \in {"rmsecrets", "leftovers", "rmleftovers"} => Left(dirs.secrets, "rmsecrets")
      BY <2>2 DEF RInv, Cleaning
    <3>2. ASSUME req'.clean
          PROVE  /\ Left({g \in Hosts : box[g] # None}, "rmcontainers")'
                 /\ req.pc \notin {"rmcontainers"} => Left(dirs.workspace, "rmworkspaces")'
                 /\ req.pc \in {"rmsecrets", "rmleftovers"} => Left(dirs.secrets, "rmsecrets")'
      BY <2>2, <2>3, <2>4, <3>1, <3>2 DEF Left, At
    <3> QED
      BY <1>3, <2>2, <2>3, <3>1, <3>2, PassesAre DEF Cleaning, CleanupPCs, At
  <2>6. Remembered'
    <3>1. \A g \in Hosts : memory'[g] \subseteq memory[g]
      BY <1>1, <2>1
    <3>2. \A g \in Hosts : \A c \in memory[g] : c \in Bots
      BY <1>1
    <3>3. req'.pc # "erase"
      BY <2>2, <2>3
    <3> QED
      BY <1>2, <1>3, <3>1, <3>2, <3>3 DEF RInv, Remembered, Faults, At
  <2> QED
    BY <1>4, <2>2, <2>3, <2>5, <2>6, PassesAre DEF CleanupPCs
<1>8. CASE EndPass
  <2>1. /\ req.pc \in {"rmcontainers", "rmworkspaces", "rmsecrets", "rmleftovers"} /\ req.todo = {}
        /\ UNCHANGED <<box, dirs, memory>> /\ req.op = "cleanup"
    BY <1>8, PassesAre DEF EndPass, RInv, Cleaning, CleanupPCs
  <2>2. CASE At("rmleftovers")
    BY <1>2, <1>8, <2>1, <2>2, Ending, RememberedStays DEF EndPass
  <2>3. CASE ~At("rmleftovers")
    <3>1. /\ req'.op = req.op /\ req'.known = req.known /\ req'.clean = req.clean /\ req'.todo = req.todo
          /\ req'.pc = NextPass[req.pc]
      BY <1>1, <1>8, <2>1, <2>3, GoesOn, PassesAre, PCsAre DEF EndPass, At
    <3>2. Cleaning'
      BY <1>3, <2>1, <2>3, <3>1, PassesAre DEF RInv, Cleaning, CleanupPCs, At, Left
    <3> QED
      BY <1>2, <1>4, <2>1, <2>3, <3>1, <3>2, PassesAre, RememberedStays DEF CleanupPCs, At
  <2> QED
    BY <2>2, <2>3
<1> QED
  BY <1>5, <1>6, <1>7, <1>8

LEMMA RInvAtFirst ==
  ASSUME Init
  PROVE  RInv
<1>1. /\ \A b \in Bots : row[b].state = "none" /\ NoRow \in RowType
      /\ \A h \in Hosts : memory[h] = {}
      /\ req \in ReqType /\ req.pc = "idle" /\ req.op = "none"
  BY Ends, PCsAre DEF Init, NoRow, RowType, Idle, ReqType
<1>2. TypeOK
  BY <1>1 DEF Init, TypeOK, RowType, ReqType
<1>3. \A b \in Bots : ~Live(b)
  BY <1>1 DEF Live
<1>4. Rows /\ Arriving /\ Serving /\ Remembered /\ Cleaning
  BY <1>1, <1>3, PassesAre DEF Rows, Arriving, Creating, Serving, AboutABot, Remembered, Cleaning,
     CleanupPCs, At
<1> QED
  BY <1>2, <1>4 DEF RInv

LEMMA RInvByStep ==
  ASSUME RInv, Step, UNCHANGED world
  PROVE  RInv'
<1>1. TypeOK' /\ TypeOK
  BY TypedByStep DEF RInv
<1>2. CASE InsertRow \/ SavePort \/ EraseRow
  BY <1>1, <1>2, ByInsert, BySavePort, ByErase DEF RInv
<1>3. CASE ~InsertRow /\ ~SavePort /\ ~EraseRow
  <2>1. SameBots
    BY <1>3, BotsStay
  <2>2. Rows'
    BY <1>1, <2>1, SameAsBefore DEF RInv
  <2>3. ASSUME NEW h \in Hosts, StartCreate(h, "create") \/ StartCreate(h, "draft")
        PROVE  Arriving' /\ Serving' /\ Remembered' /\ Cleaning'
    <3>1. world.bots \in Bots
      BY <1>1, Shapes
    <3> QED
      BY <2>3, <3>1, ByArrival
  <2>4. ASSUME NEW b \in Bots, StartStart(b) \/ StopContainer(b) \/ StartDelete(b)
        PROVE  Arriving' /\ Serving' /\ Remembered' /\ Cleaning'
    <3>1. row[b].host \in Hosts
      BY <1>1, <2>4, Shapes DEF StartStart, StopContainer, StartDelete, RInv, Rows
    <3> QED
      BY <2>4, <3>1, ByArrival
  <2>5. ASSUME (\E h \in world.hosts : StartCleanup(Owner[h])) \/ FindOrphans \/ RemoveOrphan \/ EndPass
        PROVE  Arriving' /\ Serving' /\ Remembered' /\ Cleaning'
    BY <2>5, ByCleanup
  <2> QED
    BY <1>1, <1>3, <2>1, <2>2, <2>3, <2>4, <2>5, ByBot DEF Step, RInv
<1> QED
  BY <1>2, <1>3

-----------------------------------------------------------------------------
(* The health of bots                                                      *)

LEMMA FleetAtFirst == ASSUME FleetInit PROVE FInv
<1>1. Health!Resting.pc = "idle" /\ Health!Resting \in
        [pc : {"idle", "probe", "read", "write", "next"}, todo : SUBSET Bots, bot : Bots \cup {None}, ok : BOOLEAN]
  BY DEF Health!Resting
<1> QED
  BY <1>1, BotFleetAssumption DEF FleetInit, Init, Health!Init, FInv, Health!TypeOK, Counted

\* One round at a time.
LEMMA OnlyOne ==
  ASSUME FInv, Sole, NEW c \in world.checks, NEW d \in world.checks
  PROVE  c = d
<1>1. IsFiniteSet(world.checks)
  BY BotFleetAssumption, FS_Subset DEF FInv
<1>2. \E x : world.checks = {x}
  BY <1>1, FS_Singleton DEF Sole
<1> QED
  BY <1>2

RoundType ==
  [pc : {"idle", "probe", "read", "write", "next"}, todo : SUBSET Bots, bot : Bots \cup {None}, ok : BOOLEAN]

LEMMA RoundSet ==
  ASSUME FInv, NEW c \in Rounds, NEW q \in RoundType, Health!Set(c, q)
  PROVE  round' \in [Rounds -> RoundType] /\ \A d \in Rounds \ {c} : round'[d] = round[d]
<1>1. round \in [Rounds -> RoundType]
  BY DEF FInv, Health!TypeOK, RoundType
<1> QED
  BY <1>1 DEF Health!Set

\* A step of a round keeps types.
LEMMA RoundTypes ==
  ASSUME FInv, UNCHANGED world, NEW c \in world.checks, Health!Step(c) \/ Health!Abort(c)
  PROVE  Health!TypeOK' /\ \A d \in Rounds \ {c} : round'[d] = round[d]
<1> USE DEF FInv, Health!TypeOK, Health!At, Health!Set
<1>0. c \in Rounds /\ Threshold \in Nat \ {0}
  BY BotFleetAssumption
<1>1. CASE Health!ListRunning(c)
  BY <1>0, <1>1 DEF Health!ListRunning, Health!Resting, RunningBots
<1>2. CASE Health!Probe(c)
  <2>1. PICK b \in round[c].todo :
          /\ fails' = [fails EXCEPT ![b] = IF b \in Answering THEN 0 ELSE Health!OneMore(@)]
          /\ streak' = [streak EXCEPT ![b] = IF b \in Answering THEN 0 ELSE Health!OneMore(@)]
          /\ round' = [round EXCEPT ![c] =
               [pc |-> IF b \in Answering \/ fails'[b] = Threshold THEN "read" ELSE "next",
                todo |-> round[c].todo \ {b}, bot |-> b, ok |-> b \in Answering]]
    BY <1>2 DEF Health!Probe
  <2>2. b \in Bots /\ round[c].todo \in SUBSET Bots
    BY <1>0, <2>1
  <2>3. Health!OneMore(fails[b]) \in 0 .. Threshold /\ Health!OneMore(streak[b]) \in 0 .. Threshold
    BY <1>0, <2>2 DEF Health!OneMore
  <2>4. fails' \in [Bots -> 0 .. Threshold] /\ streak' \in [Bots -> 0 .. Threshold]
    <3>1. /\ fails \in [Bots -> 0 .. Threshold] /\ streak \in [Bots -> 0 .. Threshold]
          /\ 0 \in 0 .. Threshold
      BY <1>0
    <3> HIDE DEF FInv, Health!TypeOK
    <3>2. ASSUME NEW x \in 0 .. Threshold, NEW y \in 0 .. Threshold
          PROVE  [fails EXCEPT ![b] = x] \in [Bots -> 0 .. Threshold] /\ [streak EXCEPT ![b] = y] \in [Bots -> 0 .. Threshold]
      BY <3>1
    <3> QED
      BY <2>1, <2>3, <3>1, <3>2
  <2>5. (b \in Answering) \in BOOLEAN
    OBVIOUS
  <2>6. round' \in [Rounds -> [pc : {"idle", "probe", "read", "write", "next"}, todo : SUBSET Bots,
                               bot : Bots \cup {None}, ok : BOOLEAN]]
    <3> DEFINE new == [pc |-> IF b \in Answering \/ fails'[b] = Threshold THEN "read" ELSE "next",
                       todo |-> round[c].todo \ {b}, bot |-> b, ok |-> b \in Answering]
    <3>1. new \in RoundType
      BY <2>2, <2>5 DEF RoundType
    <3>2. Health!Set(c, new)
      BY <2>1
    <3> HIDE DEF new, Health!TypeOK, Health!Set, FInv
    <3> QED
      BY <1>0, <3>1, <3>2, RoundSet DEF RoundType
  <2>7. UNCHANGED <<health, stuck>>
    BY <1>2 DEF Health!Probe
  <2> QED
    BY <2>1, <2>4, <2>6, <2>7
<1>3. CASE Health!ReadHealth(c)
  <2>1. PICK pc \in {"write", "next"} : Health!Set(c, [round[c] EXCEPT !.pc = pc])
    BY <1>3 DEF Health!ReadHealth
  <2>2. round[c] \in RoundType
    BY <1>0 DEF RoundType
  <2>3. [round[c] EXCEPT !.pc = pc] \in RoundType
    BY <2>2 DEF RoundType
  <2>4. round' \in [Rounds -> RoundType] /\ \A d \in Rounds \ {c} : round'[d] = round[d]
    BY <1>0, <2>1, <2>3, RoundSet
  <2> QED
    BY <1>3, <2>4 DEF Health!ReadHealth, RoundType
<1>4. CASE Health!WriteHealth(c)
  <2>1. Health!Set(c, [round[c] EXCEPT !.pc = "next"])
    BY <1>4 DEF Health!WriteHealth
  <2>2. round[c] \in RoundType
    BY <1>0 DEF RoundType
  <2>3. [round[c] EXCEPT !.pc = "next"] \in RoundType
    BY <2>2 DEF RoundType
  <2>4. round' \in [Rounds -> RoundType] /\ \A d \in Rounds \ {c} : round'[d] = round[d]
    BY <1>0, <2>1, <2>3, RoundSet
  <2>5. health' \in [Bots -> {"UNKNOWN", "HEALTHY", "UNHEALTHY"}] /\ UNCHANGED <<fails, stuck, streak>>
    BY <1>4 DEF Health!WriteHealth, Health!Verdict
  <2> QED
    BY <2>4, <2>5 DEF RoundType
<1>5. CASE Health!NextBot(c)
  <2> DEFINE new == IF round[c].todo = {} THEN Health!Resting ELSE [round[c] EXCEPT !.pc = "probe", !.bot = None]
  <2>1. round[c] \in RoundType
    BY <1>0 DEF RoundType
  <2>2. new \in RoundType
    BY <2>1 DEF RoundType, Health!Resting
  <2>3. Health!Set(c, new)
    BY <1>5 DEF Health!NextBot
  <2>4. round' \in [Rounds -> RoundType] /\ \A d \in Rounds \ {c} : round'[d] = round[d]
    <3> HIDE DEF new, FInv, Health!TypeOK, Health!Set
    <3> QED
      BY <1>0, <2>2, <2>3, RoundSet
  <2> QED
    BY <1>5, <2>4 DEF Health!NextBot, RoundType
<1>6. CASE Health!Abort(c)
  <2>1. Health!Resting \in RoundType
    BY DEF Health!Resting, RoundType
  <2>2. round' \in [Rounds -> RoundType] /\ \A d \in Rounds \ {c} : round'[d] = round[d]
    BY <1>0, <1>6, <2>1, RoundSet DEF Health!Abort
  <2> QED
    BY <1>6, <2>2 DEF Health!Abort, RoundType
<1> QED
  BY <1>1, <1>2, <1>3, <1>4, <1>5, <1>6 DEF Health!Step

LEMMA RoundCounts ==
  ASSUME FInv, Sole, UNCHANGED world, NEW c \in world.checks, Health!Step(c) \/ Health!Abort(c)
  PROVE  Counted'
<1> USE DEF FInv, Health!TypeOK, Health!At, Health!Set
<1>0. c \in Rounds /\ Threshold \in Nat \ {0} /\ Counted
  BY BotFleetAssumption
<1>1. \A d \in Rounds \ {c} : round'[d] = round[d] /\ round[d].pc = "idle"
  BY <1>0, RoundTypes, OnlyOne DEF Counted
<1>2. SUFFICES /\ \A b \in Bots : fails'[b] <= streak'[b]
               /\ round'[c].pc \in {"read", "write"} =>
                    round'[c].bot \in Bots /\ (~round'[c].ok => streak'[round'[c].bot] = Threshold)
  BY <1>0, <1>1 DEF Counted
<1>3. CASE Health!Probe(c)
  <2>1. PICK b \in round[c].todo :
          /\ fails' = [fails EXCEPT ![b] = IF b \in Answering THEN 0 ELSE Health!OneMore(@)]
          /\ streak' = [streak EXCEPT ![b] = IF b \in Answering THEN 0 ELSE Health!OneMore(@)]
          /\ round' = [round EXCEPT ![c] =
               [pc |-> IF b \in Answering \/ fails'[b] = Threshold THEN "read" ELSE "next",
                todo |-> round[c].todo \ {b}, bot |-> b, ok |-> b \in Answering]]
    BY <1>3 DEF Health!Probe
  <2>2. b \in Bots /\ fails[b] \in 0 .. Threshold /\ streak[b] \in 0 .. Threshold /\ fails[b] <= streak[b]
    BY <1>0, <2>1 DEF Counted
  <2>3. Health!OneMore(fails[b]) <= Health!OneMore(streak[b]) /\ Health!OneMore(streak[b]) \in 0 .. Threshold
    BY <1>0, <2>2 DEF Health!OneMore
  <2>4. \A d \in Bots : fails'[d] <= streak'[d]
    BY <1>0, <2>1, <2>2, <2>3 DEF Counted
  <2>5. /\ round'[c].pc = (IF b \in Answering \/ fails'[b] = Threshold THEN "read" ELSE "next")
        /\ round'[c].bot = b /\ (round'[c].ok <=> b \in Answering)
    BY <1>0, <2>1
  <2>6. fails'[b] \in 0 .. Threshold /\ streak'[b] \in 0 .. Threshold
    BY <2>2, RoundTypes
  <2>7. b \notin Answering /\ fails'[b] = Threshold => streak'[b] = Threshold
    <3>1. fails'[b] <= streak'[b]
      BY <2>2, <2>4
    <3> HIDE DEF FInv, Health!TypeOK
    <3> QED
      BY <1>0, <2>6, <3>1
  <2> QED
    BY <2>2, <2>4, <2>5, <2>7
<1>4. CASE Health!ListRunning(c)
  BY <1>0, <1>4 DEF Health!ListRunning, Health!Resting, Counted
<1>5. CASE Health!ReadHealth(c)
  BY <1>0, <1>5 DEF Health!ReadHealth, Counted
<1>6. CASE Health!WriteHealth(c)
  BY <1>0, <1>6 DEF Health!WriteHealth, Counted
<1>7. CASE Health!NextBot(c)
  BY <1>0, <1>7 DEF Health!NextBot, Health!Resting, Counted
<1>8. CASE Health!Abort(c)
  BY <1>0, <1>8 DEF Health!Abort, Health!Resting, Counted
<1> QED
  BY <1>3, <1>4, <1>5, <1>6, <1>7, <1>8 DEF Health!Step

LEMMA FleetKept ==
  ASSUME FInv, [FleetNext /\ UNCHANGED world]_<<vars, checks, world>>
  PROVE  FInv'
<1>1. CASE UNCHANGED <<checks, world>>
  BY <1>1 DEF checks, FInv, Health!TypeOK, Sole, Counted
<1>4. ASSUME NEW b \in Bots, FindStuck(b) \/ TimeOut(b), UNCHANGED world
      PROVE  FInv'
  <2>1. /\ UNCHANGED <<fails, round, streak>> /\ stuck' \in SUBSET Bots
        /\ health' \in [Bots -> {"UNKNOWN", "HEALTHY", "UNHEALTHY"}]
    BY <1>4 DEF FindStuck, TimeOut, Health!ListStuck, Health!WriteStuck, FInv, Health!TypeOK
  <2> QED
    BY <1>4, <2>1 DEF FInv, Health!TypeOK, Sole, Counted
<1>2. CASE Health!Restart /\ UNCHANGED world
  <2>1. Health!Resting.pc = "idle" /\ Health!Resting \in
          [pc : {"idle", "probe", "read", "write", "next"}, todo : SUBSET Bots, bot : Bots \cup {None}, ok : BOOLEAN]
    BY DEF Health!Resting
  <2>2. Threshold \in Nat
    BY BotFleetAssumption
  <2>3. Health!TypeOK'
    BY <1>2, <2>1, <2>2 DEF FInv, Health!TypeOK, Health!Restart
  <2>4. Counted'
    BY <1>2, <2>1, <2>2 DEF FInv, Health!TypeOK, Health!Restart, Counted
  <2> QED
    BY <1>2, <2>3, <2>4 DEF FInv
<1>3. ASSUME NEW c \in world.checks, Health!Step(c) \/ Health!Abort(c), UNCHANGED world
      PROVE  FInv'
  <2>1. Health!TypeOK'
    BY <1>3, RoundTypes
  <2>2. Sole => Counted'
    BY <1>3, RoundCounts
  <2> QED
    BY <1>3, <2>1, <2>2 DEF FInv, Sole
<1> QED
  BY <1>1, <1>2, <1>3, <1>4 DEF FleetNext, Round, FailRound, Hang, vars, checks

-----------------------------------------------------------------------------
(* What bots share                                                         *)

\* A start that is given up changes nothing but the row's status.
LEMMA RInvByTimeOut ==
  ASSUME RInv, NEW b \in Bots, TimeOut(b), UNCHANGED world
  PROVE  RInv'
<1>0. /\ TypeOK /\ row \in [Bots -> RowType]
      /\ UNCHANGED <<box, dirs, memory, req, world>> /\ SetRow(b, "status", "error")
  BY Shapes DEF RInv, TimeOut
<1>1. row' \in [Bots -> RowType] /\ SameBots
  BY <1>0, OneColumn
<1>2. TypeOK'
  BY <1>0, <1>1 DEF TypeOK, RowType
<1>3. /\ Rows' /\ (\A a \in Bots : Live(a)' = Live(a))
      /\ LiveHosts' = LiveHosts /\ Unused' = Unused /\ OneUser' = OneUser
  BY <1>0, <1>1, SameAsBefore DEF RInv
<1>4. PortIsFree' = PortIsFree
  BY <1>0, <1>1, <1>3 DEF PortIsFree, SameBots
<1>5. Arriving'
  BY <1>0, <1>1, <1>3, <1>4 DEF RInv, Arriving, Creating, At, SameBots
<1>6. Serving'
  BY <1>0, <1>1, <1>3, <1>4 DEF RInv, Serving, AboutABot, At, SameBots
<1>7. Remembered'
  BY <1>0, <1>1, <1>3, Shapes DEF RInv, Remembered, Faults, At, SameBots
<1>8. Cleaning'
  BY <1>0, <1>3 DEF RInv, Cleaning, At, Left
<1> QED
  BY <1>2, <1>3, <1>5, <1>6, <1>7, <1>8 DEF RInv

\* Health rounds and containers that hang leave names, ports and directories
\* alone; so does a crash, which only forgets the request.
LEMMA RInvKept ==
  ASSUME RInv, [FleetNext /\ UNCHANGED world]_<<vars, checks, world>>
  PROVE  RInv'
<1>0. TypeOK /\ box \in [Hosts -> Containers \cup {None}]
  BY Shapes DEF RInv
<1>1. CASE Step /\ UNCHANGED world
  BY <1>1, RInvByStep
<1>2. CASE Crash /\ UNCHANGED world
  <2>1. req' = Idle /\ UNCHANGED <<row, box, dirs, memory, world>>
    BY <1>2 DEF Crash
  <2>2. SameBots
    BY <2>1 DEF SameBots
  <2>3. TypeOK'
    BY <1>0, <2>1, Ends DEF TypeOK, ReqType
  <2>4. Rows'
    BY <1>0, <2>1, <2>2, SameAsBefore DEF RInv
  <2>5. Arriving' /\ Serving' /\ Cleaning' /\ Remembered'
    BY <2>1, <2>2, Ending, RememberedStays
  <2> QED
    BY <2>3, <2>4, <2>5 DEF RInv
<1>3. ASSUME NEW h \in Hosts, Hang(h), UNCHANGED world PROVE RInv'
  <2>1. /\ UNCHANGED <<row, dirs, memory, req, world>> /\ box[h] # None
        /\ \E deaf \in BOOLEAN : box' = [box EXCEPT ![h].deaf = deaf]
    BY <1>3 DEF Hang
  <2>2. \A deaf \in BOOLEAN : [box[h] EXCEPT !.deaf = deaf] \in Containers
    BY <1>0, <2>1 DEF Containers
  <2>3. box' \in [Hosts -> Containers \cup {None}]
    BY <1>0, <2>1, <2>2
  <2>4. \A g \in Hosts : box'[g] # None <=> box[g] # None
    BY <1>0, <2>1, <2>2, BotResourcesAssumption
  <2>5. SameBots
    BY <2>1 DEF SameBots
  <2>6. TypeOK'
    BY <1>0, <2>1, <2>3 DEF TypeOK
  <2>7. Rows' /\ (\A b \in Bots : Live(b)' = Live(b)) /\ LiveHosts' = LiveHosts /\ Unused' = Unused
        /\ OneUser' = OneUser
    BY <1>0, <2>1, <2>5, SameAsBefore DEF RInv
  <2>8. Arriving'
    BY <2>1, <2>7 DEF RInv, Arriving, Creating, At, PortIsFree
  <2>9. Serving'
    <3>1. AboutABot' = AboutABot /\ PortIsFree' = PortIsFree
      BY <2>1, <2>7 DEF AboutABot, At, PortIsFree
    <3>2. At("launch") => req.host \in Hosts
      BY <1>0, Shapes DEF RInv, Serving, AboutABot, At, Rows
    <3> QED
      BY <2>1, <2>4, <2>7, <3>1, <3>2 DEF RInv, Serving, At
  <2>10. Remembered'
    BY <1>0, <2>1, <2>7, Shapes DEF RInv, Remembered, Faults, At
  <2>11. Cleaning'
    BY <2>1, <2>4, <2>7 DEF RInv, Cleaning, At, Left
  <2> QED
    BY <2>6, <2>7, <2>8, <2>9, <2>10, <2>11 DEF RInv
<1>4. CASE UNCHANGED <<vars, world>>
  <2>1. UNCHANGED <<row, box, dirs, memory, req, world>>
    BY <1>4 DEF vars
  <2> QED
    BY <2>1 DEF RInv, TypeOK, Rows, Live, Arriving, Creating, At, Unused, PortIsFree, Serving, AboutABot,
       Remembered, Faults, Cleaning, Left, LiveHosts, OneUser
<1>5. ASSUME NEW b \in Bots, TimeOut(b), UNCHANGED world PROVE RInv'
  BY <1>5, RInvByTimeOut
<1> QED
  BY <1>1, <1>2, <1>3, <1>4, <1>5 DEF FleetNext, Round, FailRound, FindStuck, vars, checks

LEMMA FleetInvariant == FleetSpec => [](FInv /\ RInv)
<1>1. FleetInit => RInv
  BY RInvAtFirst DEF FleetInit
<1> QED
  BY <1>1, FleetAtFirst, FleetKept, RInvKept, PTL DEF FleetSpec

\* No two bots of a user ever have one name or one port, and as long as removals
\* do not fail none finds the conversations of another, whatever creations,
\* starts, deletions, cleanups and crashes came before, for any number of bots,
\* names and users. That a port is always left is part of it.
THEOREM NothingIsShared == FleetSpec => []BotsShareNothing
<1>1. ASSUME FInv, RInv PROVE BotsShareNothing
  <2>1. NamesAndPortsDiffer
    BY <1>1 DEF RInv, Rows, NamesAndPortsDiffer
  <2>2. FreshMemory
    <3>1. TypeOK /\ memory \in [Hosts -> SUBSET Bots] /\ \A b \in Bots : Live(b) => row[b].host \in Hosts
      BY <1>1, Shapes DEF RInv, Rows
    <3> QED
      BY <1>1, <3>1 DEF RInv, Remembered, Rows, FreshMemory
  <2> QED
    BY <1>1, <2>1, <2>2 DEF FInv, RInv, BotsShareNothing, FleetTypeOK
<1> QED
  BY <1>1, FleetInvariant, PTL

LEMMA CleanupSteps ==
  ASSUME RInv, req.op = "cleanup", [FleetNext /\ UNCHANGED world]_<<vars, checks, world>>
  PROVE  \/ UNCHANGED <<box, dirs, memory, world>>
         \/ RemoveOrphan
         \/ (\E h \in Hosts : Hang(h)) /\ UNCHANGED <<req, dirs, memory, world>>
<1>1. req.pc \in {"containers", "workspaces", "secrets", "leftovers",
                  "rmcontainers", "rmworkspaces", "rmsecrets", "rmleftovers"}
  BY PassesAre DEF RInv, Cleaning, CleanupPCs
<1>2. CASE Step /\ UNCHANGED world
  BY <1>1, <1>2, PassesAre DEF Step, StartCreate, StartStart, StopContainer, StartDelete, StartCleanup,
     ListPorts, CreateWorkspace, InsertRow, MarkStarting, SavePort, RemoveOld, CreateContainer, Launch,
     Record, MarkRunning, MarkError, MarkStopped, DeleteWorkspace, EraseRow, FindOrphans, EndPass, Arrive, At
<1>3. CASE Crash /\ UNCHANGED world
  BY <1>3 DEF Crash
<1>4. CASE (\E h \in Hosts : Hang(h)) /\ UNCHANGED world
  BY <1>4 DEF Hang
<1> QED
  BY <1>2, <1>3, <1>4 DEF FleetNext, Round, FailRound, FindStuck, TimeOut, vars, checks

LEMMA CleanupSpares ==
  ASSUME RInv, [FleetNext /\ UNCHANGED world]_<<vars, checks, world>>,
         OneUser, req.op = "cleanup", NEW h \in LiveHosts
  PROVE  /\ box[h] # None => box'[h] # None /\ box'[h].port = box[h].port /\ box'[h].up = box[h].up
         /\ memory'[h] = memory[h]
         /\ \A d \in DOMAIN dirs : h \in dirs[d] => h \in dirs'[d]
<1>1. /\ box \in [Hosts -> Containers \cup {None}] /\ memory \in [Hosts -> SUBSET Bots]
      /\ dirs \in DirsType /\ req \in ReqType /\ TypeOK
  BY Shapes DEF RInv
<1>2. h \in Hosts /\ h \notin req.todo
  <2>1. h \in Hosts
    BY <1>1, Shapes DEF LiveHosts, RInv, Rows
  <2> QED
    BY <2>1 DEF RInv, Cleaning
<1>3. CASE UNCHANGED <<box, dirs, memory>>
  BY <1>3
<1>4. CASE RemoveOrphan
  <2>1. PICK g \in req.todo :
          \/ /\ box' = IF At("rmcontainers") THEN Without(g) ELSE box
             /\ dirs' = [workspace |-> IF At("rmworkspaces") \/ At("rmleftovers")
                                         THEN dirs.workspace \ {g} ELSE dirs.workspace,
                         secrets |-> IF At("rmsecrets") \/ At("rmleftovers")
                                         THEN dirs.secrets \ {g} ELSE dirs.secrets]
             /\ memory' = IF At("rmleftovers") THEN [memory EXCEPT ![g] = {}] ELSE memory
          \/ UNCHANGED <<box, dirs, memory>>
    BY <1>4 DEF RemoveOrphan
  <2>2. g # h
    BY <1>2
  <2>3. box'[h] = box[h] /\ memory'[h] = memory[h]
    BY <1>1, <1>2, <2>1, <2>2 DEF Without
  <2>4. /\ DOMAIN dirs = {"workspace", "secrets"}
        /\ h \in dirs.workspace => h \in dirs'.workspace
        /\ h \in dirs.secrets => h \in dirs'.secrets
    BY <1>1, <2>1, <2>2 DEF DirsType
  <2> QED
    BY <2>3, <2>4
<1>5. ASSUME NEW g \in Hosts, Hang(g), UNCHANGED <<dirs, memory>>
      PROVE  /\ box[h] # None => box'[h] # None /\ box'[h].port = box[h].port /\ box'[h].up = box[h].up
             /\ UNCHANGED <<dirs, memory>>
  <2>1. PICK deaf \in BOOLEAN : box' = [box EXCEPT ![g].deaf = deaf] /\ box[g] # None
    BY <1>5 DEF Hang
  <2>2. /\ [box[g] EXCEPT !.deaf = deaf] \in Containers
        /\ [box[g] EXCEPT !.deaf = deaf].port = box[g].port /\ [box[g] EXCEPT !.deaf = deaf].up = box[g].up
    BY <1>1, <2>1 DEF Containers
  <2>3. box' = [box EXCEPT ![g] = [box[g] EXCEPT !.deaf = deaf]]
    BY <1>1, <2>1
  <2> QED
    BY <1>1, <1>2, <1>5, <2>2, <2>3, BotResourcesAssumption
<1> QED
  BY <1>3, <1>4, <1>5, CleanupSteps

LEMMA CleanupFinds ==
  ASSUME RInv, [FleetNext /\ UNCHANGED world]_<<vars, checks, world>>,
         At("rmleftovers"), req'.pc = "idle", req.todo = {}, req.clean
  PROVE  /\ {h \in Hosts : box'[h] # None} \subseteq LiveHosts
         /\ \A d \in DOMAIN dirs : dirs'[d] \subseteq LiveHosts
<1>1. /\ req.op = "cleanup" /\ req.known \subseteq LiveHosts
      /\ {h \in Hosts : box[h] # None} \subseteq req.known
      /\ dirs.workspace \subseteq req.known /\ dirs.secrets \subseteq req.known
  BY PassesAre DEF RInv, Cleaning, CleanupPCs, Left, At
<1>2. UNCHANGED <<box, dirs>>
  <2>1. ~RemoveOrphan
    BY DEF RemoveOrphan
  <2>2. req' # req
    BY DEF At
  <2> QED
    BY <1>1, <2>1, <2>2, CleanupSteps
<1>3. DOMAIN dirs = {"workspace", "secrets"} /\ dirs["workspace"] = dirs.workspace /\ dirs["secrets"] = dirs.secrets
  BY Shapes DEF RInv, DirsType
<1> QED
  BY <1>1, <1>2, <1>3

\* With one user, cleanup leaves each bot that exists its container, up or down
\* as it was, its directories and its conversations; and with any users, a
\* cleanup that could remove what it found leaves nothing behind that is not of a
\* bot, however many requests and crashes there were before it.
THEOREM CleanupIsExact == FleetSpec => CleanupRemovesOrphans
<1>1. ASSUME RInv, [FleetNext /\ UNCHANGED world]_<<vars, checks, world>>
      PROVE  /\ [OneUser /\ req.op = "cleanup" =>
                  \A h \in LiveHosts :
                    /\ box[h] # None => box'[h] # None /\ box'[h].port = box[h].port /\ box'[h].up = box[h].up
                    /\ memory'[h] = memory[h]
                    /\ \A d \in DOMAIN dirs : h \in dirs[d] => h \in dirs'[d]]_vars
             /\ [At("rmleftovers") /\ req'.pc = "idle" /\ req.todo = {} /\ req.clean =>
                  /\ {h \in Hosts : box'[h] # None} \subseteq LiveHosts
                  /\ \A d \in DOMAIN dirs : dirs'[d] \subseteq LiveHosts]_vars
  BY <1>1, CleanupSpares, CleanupFinds
<1> QED
  BY <1>1, FleetInvariant, PTL DEF FleetSpec, CleanupRemovesOrphans, CleanupSparesBots, CleanupIsThorough

-----------------------------------------------------------------------------
(* When a bot is called unhealthy                                          *)

\* A bot is called unhealthy only by a check, after Threshold failures in a row,
\* or along with its status when its start is given up, for any bots, hosts,
\* users and threshold, as long as rounds do not overlap: bots are created,
\* stopped, replaced and deleted meanwhile, containers hang, queries fail and the
\* process restarts.
THEOREM UnhealthyAfterFailures == FleetSpec => UnhealthyIsEarned
<1>1. ASSUME FInv, RInv, [FleetNext /\ UNCHANGED world]_<<vars, checks, world>>
      PROVE  [Sole => \A b \in Bots :
                health'[b] = "UNHEALTHY" /\ health[b] # "UNHEALTHY" =>
                  \/ streak[b] = Threshold
                  \/ b \in stuck \ stuck' /\ row'[b].status = "error"]_<<vars, checks>>
  <2> SUFFICES ASSUME Sole, NEW b \in Bots, health'[b] = "UNHEALTHY", health[b] # "UNHEALTHY"
               PROVE  \/ streak[b] = Threshold
                      \/ b \in stuck \ stuck' /\ row'[b].status = "error"
    OBVIOUS
  <2>1. health' # health
    OBVIOUS
  <2>2. \/ \E c \in world.checks : Health!Step(c) \/ Health!Abort(c)
        \/ \E a \in Bots : TimeOut(a)
    BY <1>1, <2>1 DEF FleetNext, Round, FailRound, Hang, FindStuck, vars, checks, Health!Restart,
                      Health!ListStuck
  <2>3. ASSUME NEW c \in world.checks, Health!Step(c) \/ Health!Abort(c)
        PROVE  streak[b] = Threshold
    <3>1. Health!WriteHealth(c)
      BY <2>1, <2>3 DEF Health!Step, Health!Abort, Health!ListRunning, Health!Probe, Health!ReadHealth,
                        Health!NextBot
    <3>2. c \in Rounds /\ b = round[c].bot /\ ~round[c].ok
      BY <1>1, <3>1 DEF FInv, Health!TypeOK, Health!WriteHealth, Health!Verdict
    <3> QED
      BY <1>1, <3>1, <3>2 DEF FInv, Counted, Health!WriteHealth, Health!At
  <2>4. ASSUME NEW a \in Bots, TimeOut(a)
        PROVE  b \in stuck \ stuck' /\ row'[b].status = "error"
    <3>1. /\ health' = [health EXCEPT ![a] = "UNHEALTHY"] /\ a \in stuck /\ stuck' = stuck \ {a}
          /\ SetRow(a, "status", "error")
      BY <2>4 DEF TimeOut, Health!WriteStuck
    <3>2. a = b
      BY <1>1, <3>1 DEF FInv, Health!TypeOK
    <3>3. row'[a].status = "error"
      BY <1>1, <3>1, Shapes DEF RInv, SetRow, RowType
    <3> QED
      BY <3>1, <3>2, <3>3
  <2> QED
    BY <2>2, <2>3, <2>4
<1> QED
  BY <1>1, FleetInvariant, PTL DEF FleetSpec, UnhealthyIsEarned, Sole
=============================================================================
