------------------------ MODULE BotLifecycle_proofs ------------------------
(***************************************************************************)
(* Type correctness of BotLifecycle, and that a row never records a        *)
(* container of another row, for any number of bots, requests and          *)
(* containers and in every environment. Then, while Docker works: that     *)
(* when requests come one at a time a start fails only over a port that is *)
(* taken and a deletion leaves no container behind that ever ran, and that *)
(* reconciliation reports only what runs.                                  *)
(***************************************************************************)
EXTENDS BotLifecycle, TLAPS

\* What the local variables of a request are worth while it is in flight: it
\* works on a row, and between createContainer and the write of containerId
\* it holds the id of a container made for that row.
InFlight ==
  \A r \in Reqs :
    /\ req[r].pc # "idle" => req[r].bot \in Bots
    /\ req[r].pc \in {"launch", "record"} =>
         /\ req[r].cid \in Cids
         /\ ctr[req[r].cid].bot = req[r].bot
         /\ ctr[req[r].cid].state # "unused"

\* The daemon labels every container with the row it was made for.
Labelled == \A c \in Cids : ctr[c].state # "unused" => ctr[c].bot \in Bots

IInv == StateOK /\ Labelled /\ InFlight /\ RecordedContainerIsOwn

USE DEF Status, CtrState, Row, Handler

\* A step that may change the state of containers but neither makes one nor
\* gives it to another row.
KeepsContainers ==
  /\ ctr' \in [Cids -> [bot : Bots \cup {None}, state : CtrState]]
  /\ \A d \in Cids : /\ ctr'[d].bot = ctr[d].bot
                     /\ (ctr'[d].state = "unused") <=> (ctr[d].state = "unused")

-----------------------------------------------------------------------------
\* The handler calls that an event of a container starts are well formed.
LEMMA EmitType ==
  ASSUME StateOK, NEW c \in Cids,
         NEW acts \in SUBSET {"start", "stop", "die", "kill"}, Emit(c, acts)
  PROVE  ev' \in SUBSET Handler
<1>1. ASSUME NEW a \in acts
      PROVE  [to |-> MapEventToStatus(a), cid |-> c, bot |-> None]
               \in Handler
  <2>1. MapEventToStatus(a) \in Status
    BY DEF MapEventToStatus
  <2>2. QED BY <2>1
<1>2. ev \in SUBSET Handler
  BY DEF StateOK
<1>3. CASE stream
  BY <1>1, <1>2, <1>3 DEF Emit
<1>4. CASE ~stream
  BY <1>2, <1>4 DEF Emit
<1>5. QED BY <1>3, <1>4

\* One container changes to a state that is not `unused`.
LEMMA StateChange ==
  ASSUME StateOK, NEW c \in Cids, ctr[c].state # "unused",
         NEW s \in CtrState \ {"unused"}, ctr' = [ctr EXCEPT ![c].state = s]
  PROVE  KeepsContainers
<1>1. ctr \in [Cids -> [bot : Bots \cup {None}, state : CtrState]]
  BY DEF StateOK
<1>2. QED BY <1>1 DEF KeepsContainers

\* The steps of the Docker daemon keep the labels of the containers, and never
\* make a container unused again.
LEMMA DaemonStep ==
  ASSUME StateOK, NEW c \in Cids, DockerStop(c) \/ DockerRemove(c), Exists(c)
  PROVE  KeepsContainers /\ ev' \in SUBSET Handler
<1>1. UNCHANGED <<ctr, ev>> => KeepsContainers /\ ev' \in SUBSET Handler
  BY DEF StateOK, KeepsContainers
<1>2. ctr[c].state # "unused"
  BY DEF Exists
<1>3. CASE DockerStop(c)
  <2>1. CASE Running(c)
    <3>1. PICK s \in {"exited", "failed"} : ctr' = [ctr EXCEPT ![c].state = s]
      BY <1>3, <2>1 DEF DockerStop
    <3>2. ev' \in SUBSET Handler
      BY <1>3, <2>1, EmitType DEF DockerStop
    <3>3. KeepsContainers
      <4>1. s \in CtrState \ {"unused"} OBVIOUS
      <4>2. QED BY <1>2, <3>1, <4>1, StateChange
    <3>4. QED BY <3>2, <3>3
  <2>2. CASE ~Running(c)
    BY <1>1, <1>3, <2>2 DEF DockerStop
  <2>3. QED BY <2>1, <2>2
<1>4. CASE DockerRemove(c)
  <2>1. ev' \in SUBSET Handler
    <3>1. CASE Running(c) BY <1>4, <3>1, EmitType DEF DockerRemove
    <3>2. CASE ~Running(c) BY <1>4, <3>2 DEF DockerRemove, StateOK
    <3>3. QED BY <3>1, <3>2
  <2>2. ctr' = [ctr EXCEPT ![c].state = "removed"]
    BY <1>4 DEF DockerRemove
  <2>3. KeepsContainers
    BY <1>2, <2>2, StateChange
  <2>4. QED BY <2>1, <2>3
<1>5. QED BY <1>3, <1>4

\* The invariant holds at the start.
LEMMA InitInv == Init => IInv
  BY BotLifecycleAssumption
     DEF Init, IInv, StateOK, Labelled, InFlight, RecordedContainerIsOwn, Idle, NoRow, Booted,
         Request, PCs, Ops

-----------------------------------------------------------------------------
\* A step that only writes the status of one row keeps the recorded ids.
LEMMA StatusWrite ==
  ASSUME StateOK, NEW b \in Bots, NEW s \in Status, row' = [row EXCEPT ![b].status = s]
  PROVE  /\ row' \in [Bots -> Row]
         /\ \A x \in Bots : row'[x].cid = row[x].cid
<1>1. row \in [Bots -> Row]
  BY DEF StateOK
<1>2. [row[b] EXCEPT !.status = s] \in Row
  BY <1>1
<1>3. /\ row'[b].cid = row[b].cid
      /\ \A x \in Bots \ {b} : row'[x] = row[x]
  BY <1>1
<1>4. QED BY <1>1, <1>2, <1>3

\* Steps that keep the containers, and record at most what was recorded, keep
\* the labels and the ownership of the records.
LEMMA SameContainers ==
  ASSUME IInv, KeepsContainers,
         \A x \in Bots : row'[x].cid \in {row[x].cid, None}
  PROVE  Labelled' /\ RecordedContainerIsOwn'
<1>1. \A x \in Bots : row[x].cid # None => row[x].cid \in Cids
  BY DEF IInv, StateOK
<1>2. QED BY <1>1 DEF IInv, KeepsContainers, Labelled, RecordedContainerIsOwn

\* A step that leaves the requests alone keeps what is true of them.
LEMMA SameRequests ==
  ASSUME IInv, KeepsContainers, req' = req
  PROVE  req' \in [Reqs -> Request] /\ InFlight'
  BY DEF IInv, StateOK, KeepsContainers, InFlight

\* A step of one request to a place where it holds no new container.
LEMMA RequestMoves ==
  ASSUME IInv, KeepsContainers, NEW r \in Reqs, req[r].pc # "idle",
         NEW pc \in PCs \ {"launch", "record"}, Goto(r, pc)
  PROVE  req' \in [Reqs -> Request] /\ InFlight'
<1>1. req \in [Reqs -> Request]
  BY DEF IInv, StateOK
<1>2. [req[r] EXCEPT !.pc = pc] \in Request
  BY <1>1 DEF Request
<1>3. req' \in [Reqs -> Request]
  BY <1>1, <1>2 DEF Goto
<1>4. /\ req'[r].pc = pc /\ req'[r].bot = req[r].bot
      /\ \A q \in Reqs \ {r} : req'[q] = req[q]
  BY <1>1 DEF Request, Goto
<1>5. InFlight'
  BY <1>4 DEF IInv, InFlight, KeepsContainers
<1>6. QED BY <1>3, <1>5

\* The end of a request.
LEMMA RequestEnds ==
  ASSUME IInv, KeepsContainers, NEW r \in Reqs, Done(r)
  PROVE  req' \in [Reqs -> Request] /\ InFlight'
<1>1. req \in [Reqs -> Request]
  BY DEF IInv, StateOK
<1>2. Idle \in Request
  BY DEF Idle, Request, PCs, Ops
<1>3. /\ req'[r].pc = "idle"
      /\ \A q \in Reqs \ {r} : req'[q] = req[q]
  BY <1>1 DEF Done, Idle
<1>4. InFlight'
  BY <1>3 DEF IInv, InFlight, KeepsContainers
<1>5. QED BY <1>1, <1>2, <1>4 DEF Done

\* A request that arrives, or moves on with new local variables, without a
\* container of its own.
LEMMA RequestSet ==
  ASSUME IInv, KeepsContainers, NEW r \in Reqs, NEW q \in Request,
         q.bot \in Bots, q.pc \notin {"launch", "record"}, req' = [req EXCEPT ![r] = q]
  PROVE  req' \in [Reqs -> Request] /\ InFlight'
<1>1. req \in [Reqs -> Request]
  BY DEF IInv, StateOK
<1>2. /\ req'[r] = q
      /\ \A p \in Reqs \ {r} : req'[p] = req[p]
  BY <1>1
<1>3. InFlight'
  BY <1>2 DEF IInv, InFlight, KeepsContainers
<1>4. QED BY <1>1, <1>3

\* A step that keeps the containers' owners and the process's other variables
\* keeps the invariant if it keeps requests, rows and handlers well formed.
LEMMA Frame ==
  ASSUME IInv, KeepsContainers, UNCHANGED <<cron, boot>>, stream' \in BOOLEAN,
         req' \in [Reqs -> Request], InFlight', ev' \in SUBSET Handler,
         row' \in [Bots -> Row], \A x \in Bots : row'[x].cid \in {row[x].cid, None}
  PROVE  IInv'
<1>1. StateOK'
  BY DEF IInv, StateOK, KeepsContainers
<1>2. QED BY <1>1, SameContainers DEF IInv

\* A step without a daemon call keeps the containers.
LEMMA CtrUnchanged ==
  ASSUME StateOK, ctr' = ctr
  PROVE  KeepsContainers
  BY DEF StateOK, KeepsContainers

-----------------------------------------------------------------------------
\* The steps that end a request with the write of a status.
LEMMA StatusSteps ==
  ASSUME IInv, NEW r \in Reqs,
         \/ StartFinish(r) \/ StartFail(r) \/ StopFinish(r) \/ ListSync(r) \/ ConfigureFinish(r)
  PROVE  IInv'
<1> DEFINE b == req[r].bot
<1>1. PICK s \in Status : row' = [row EXCEPT ![b].status = s]
  <2>1. req[r].val \in Status
    BY DEF IInv, StateOK, Request
  <2>2. QED BY <2>1 DEF StartFinish, StartFail, StopFinish, ListSync, ConfigureFinish
<1>2. Done(r) /\ UNCHANGED <<ctr, ev, stream, cron, boot>>
  BY DEF StartFinish, StartFail, StopFinish, ListSync, ConfigureFinish
<1>3. req[r].pc # "idle"
  BY DEF StartFinish, StartFail, StopFinish, ListSync, ConfigureFinish, At
<1>4. b \in Bots
  BY <1>3 DEF IInv, InFlight
<1>5. KeepsContainers
  BY <1>2, CtrUnchanged DEF IInv
<1>6. row' \in [Bots -> Row] /\ \A x \in Bots : row'[x].cid = row[x].cid
  BY <1>1, <1>4, StatusWrite DEF IInv
<1>7. req' \in [Reqs -> Request] /\ InFlight'
  BY <1>2, <1>5, RequestEnds
<1>8. ev' \in SUBSET Handler /\ stream' \in BOOLEAN
  BY <1>2 DEF IInv, StateOK
<1>9. QED BY <1>2, <1>5, <1>6, <1>7, <1>8, Frame

\* The last step of deleteBot.
LEMMA DeleteRowStep ==
  ASSUME IInv, NEW r \in Reqs, DeleteRow(r)
  PROVE  IInv'
<1> DEFINE b == req[r].bot
<1>1. b \in Bots
  BY DEF IInv, InFlight, DeleteRow, At
<1>2. row \in [Bots -> Row]
  BY DEF IInv, StateOK
<1>3. row' = [row EXCEPT ![b] = [[row[b] EXCEPT !.state = "deleted"] EXCEPT !.status = "stopped"]]
  BY <1>1, <1>2 DEF DeleteRow
<1>4. row' \in [Bots -> Row] /\ \A x \in Bots : row'[x].cid = row[x].cid
  <2> DEFINE new == [[row[b] EXCEPT !.state = "deleted"] EXCEPT !.status = "stopped"]
  <2>1. row[b] \in Row
    BY <1>1, <1>2
  <2>2. new \in Row /\ new.cid = row[b].cid
    BY <2>1
  <2>3. row' = [row EXCEPT ![b] = new]
    BY <1>3
  <2> HIDE DEF new, b
  <2> QED
    BY <1>1, <1>2, <2>2, <2>3
<1>5. Done(r) /\ UNCHANGED <<ctr, ev, stream, cron, boot>>
  BY DEF DeleteRow
<1>6. KeepsContainers
  BY <1>5, CtrUnchanged DEF IInv
<1>7. req' \in [Reqs -> Request] /\ InFlight'
  BY <1>5, <1>6, RequestEnds
<1>8. ev' \in SUBSET Handler /\ stream' \in BOOLEAN
  BY <1>5 DEF IInv, StateOK
<1>9. QED BY <1>4, <1>5, <1>6, <1>7, <1>8, Frame

\* The steps that move a request, with or without a call of the daemon.
LEMMA MoveSteps ==
  ASSUME IInv, NEW r \in Reqs, req[r].pc # "idle",
         NEW pc \in PCs \ {"launch", "record"}, Goto(r, pc) \/ Done(r),
         \/ UNCHANGED <<ctr, ev>>
         \/ \E c \in Cids : Exists(c) /\ (DockerStop(c) \/ DockerRemove(c)),
         UNCHANGED <<row, stream, cron, boot>>
  PROVE  IInv'
<1>1. KeepsContainers /\ ev' \in SUBSET Handler
  <2>1. CASE UNCHANGED <<ctr, ev>>
    BY <2>1, CtrUnchanged DEF IInv, StateOK
  <2>2. CASE \E c \in Cids : Exists(c) /\ (DockerStop(c) \/ DockerRemove(c))
    BY <2>2, DaemonStep DEF IInv
  <2>3. QED BY <2>1, <2>2
<1>2. req' \in [Reqs -> Request] /\ InFlight'
  BY <1>1, RequestMoves, RequestEnds
<1>3. row' \in [Bots -> Row] /\ stream' \in BOOLEAN
  BY DEF IInv, StateOK
<1>4. QED BY <1>1, <1>2, <1>3, Frame

\* The steps of a request that only move it, with or without a daemon call.
LEMMA MovingSteps ==
  ASSUME IInv, NEW r \in Reqs,
         \/ StartInspect(r) \/ StartStopOld(r) \/ StartRemoveOld(r) \/ ClearName(r)
         \/ StopHalt(r) \/ DeleteStop(r) \/ DeleteRemove(r)
  PROVE  IInv'
<1>1. UNCHANGED <<row, stream, cron, boot>>
  BY DEF StartInspect, StartStopOld, StartRemoveOld, ClearName, StopHalt, DeleteStop, DeleteRemove
<1>2. req[r].pc # "idle"
  BY DEF StartInspect, StartStopOld, StartRemoveOld, ClearName, StopHalt, DeleteStop, DeleteRemove, At
<1>3. \E pc \in PCs \ {"launch", "record"} : Goto(r, pc) \/ Done(r)
  BY DEF StartInspect, StartStopOld, StartRemoveOld, ClearName, StopHalt, DeleteStop, DeleteRemove, PCs
<1>4. \/ UNCHANGED <<ctr, ev>>
      \/ \E c \in Cids : Exists(c) /\ (DockerStop(c) \/ DockerRemove(c))
  <2>1. CASE ClearName(r)
    BY <2>1 DEF ClearName, Named
  <2>2. CASE ~ClearName(r)
    <3>1. Exists(req[r].cid) => req[r].cid \in Cids
      BY DEF Exists
    <3>2. QED
      BY <2>2, <3>1 DEF StartInspect, StartStopOld, StartRemoveOld, StopHalt, DeleteStop, DeleteRemove
  <2>3. QED BY <2>1, <2>2
<1>5. QED BY <1>1, <1>2, <1>3, <1>4, MoveSteps

\* A look of listBots at the container, which keeps what the row should say.
LEMMA ListLookStep ==
  ASSUME IInv, NEW r \in Reqs, ListLook(r)
  PROVE  IInv'
<1>1. UNCHANGED <<row, ctr, ev, stream, cron, boot>> /\ req[r].pc # "idle"
  BY DEF ListLook, At
<1>2. CASE Done(r)
  <2>1. "idle" \in PCs \ {"launch", "record"} BY DEF PCs
  <2>2. QED BY <1>1, <1>2, <2>1, MoveSteps
<1>3. CASE ~Done(r)
  <2>1. PICK v \in Status : req' = [req EXCEPT ![r].pc = "sync", ![r].val = v]
    BY <1>3 DEF ListLook
  <2>2. req \in [Reqs -> Request] /\ req[r].bot \in Bots
    BY <1>1 DEF IInv, StateOK, InFlight
  <2>3. [[req[r] EXCEPT !.pc = "sync"] EXCEPT !.val = v] \in Request
    BY <2>2 DEF Request, PCs
  <2>4. req' = [req EXCEPT ![r] = [[req[r] EXCEPT !.pc = "sync"] EXCEPT !.val = v]]
    BY <2>1, <2>2
  <2>5. KeepsContainers
    BY <1>1, CtrUnchanged DEF IInv
  <2>6. req' \in [Reqs -> Request] /\ InFlight'
    <3> DEFINE q == [[req[r] EXCEPT !.pc = "sync"] EXCEPT !.val = v]
    <3>1. q.bot \in Bots /\ q.pc \notin {"launch", "record"}
      BY <2>2, <2>3 DEF Request
    <3>2. q \in Request /\ req' = [req EXCEPT ![r] = q]
      BY <2>3, <2>4
    <3> HIDE DEF q
    <3>3. QED BY <2>5, <3>1, <3>2, RequestSet
  <2>7. row' \in [Bots -> Row] /\ ev' \in SUBSET Handler /\ stream' \in BOOLEAN
    BY <1>1 DEF IInv, StateOK
  <2>8. QED BY <1>1, <2>5, <2>6, <2>7, Frame
<1>4. QED BY <1>2, <1>3

\* startBot writes `starting` before it touches the old container.
LEMMA StartMarkStep ==
  ASSUME IInv, NEW r \in Reqs, StartMark(r)
  PROVE  IInv'
<1> DEFINE b == req[r].bot
<1>1. b \in Bots /\ req[r].pc # "idle" /\ UNCHANGED <<ctr, ev, stream, cron, boot>>
  BY DEF IInv, InFlight, StartMark, At
<1>2. KeepsContainers
  BY <1>1, CtrUnchanged DEF IInv
<1>3. row' \in [Bots -> Row] /\ \A x \in Bots : row'[x].cid = row[x].cid
  <2>1. row' = [row EXCEPT ![b].status = "starting"]
    BY DEF StartMark
  <2>2. QED BY <1>1, <2>1, StatusWrite DEF IInv
<1>4. \E pc \in PCs \ {"launch", "record"} : Goto(r, pc)
  BY DEF StartMark, PCs
<1>5. req' \in [Reqs -> Request] /\ InFlight'
  BY <1>1, <1>2, <1>4, RequestMoves
<1>6. ev' \in SUBSET Handler /\ stream' \in BOOLEAN
  BY <1>1 DEF IInv, StateOK
<1>7. QED BY <1>1, <1>2, <1>3, <1>5, <1>6, Frame

-----------------------------------------------------------------------------
\* The daemon hands out a container id that nothing refers to yet: rows record
\* ids of containers that are not unused.
LEMMA CreateContainerStep ==
  ASSUME IInv, NEW r \in Reqs, CreateContainer(r)
  PROVE  IInv'
<1>1. UNCHANGED <<row, ev, stream, cron, boot>> /\ req[r].pc = "create"
  BY DEF CreateContainer, At
<1>2. CASE (Done(r) \/ Goto(r, "fail")) /\ UNCHANGED ctr
  <2>1. "fail" \in PCs \ {"launch", "record"} BY DEF PCs
  <2>2. QED BY <1>1, <1>2, <2>1, MoveSteps
<1>3. CASE ~((Done(r) \/ Goto(r, "fail")) /\ UNCHANGED ctr)
  <2>1. PICK c \in Cids, pc \in {"record", "launch"} :
          /\ ctr[c].state = "unused"
          /\ ctr' = [ctr EXCEPT ![c] = [bot |-> req[r].bot, state |-> "created"]]
          /\ req' = [req EXCEPT ![r].cid = c, ![r].pc = pc]
    BY <1>3 DEF CreateContainer, FreshId
  <2>2. /\ req \in [Reqs -> Request] /\ req[r].bot \in Bots
        /\ ctr \in [Cids -> [bot : Bots \cup {None}, state : CtrState]]
    BY <1>1 DEF IInv, StateOK, InFlight
  <2>3. /\ ctr' \in [Cids -> [bot : Bots \cup {None}, state : CtrState]]
        /\ ctr'[c].bot = req[r].bot /\ ctr'[c].state = "created"
        /\ \A d \in Cids \ {c} : ctr'[d] = ctr[d]
    <3>1. [bot |-> req[r].bot, state |-> "created"] \in [bot : Bots \cup {None}, state : CtrState]
      BY <2>2 DEF CtrState
    <3> QED
      BY <2>1, <2>2, <3>1
  <2>4. [[req[r] EXCEPT !.cid = c] EXCEPT !.pc = pc] \in Request
    <3>1. req[r] \in Request
      BY <2>2
    <3>2. [req[r] EXCEPT !.cid = c] \in Request
      BY <3>1 DEF Request
    <3>3. pc \in PCs
      BY DEF PCs
    <3> QED
      BY <3>2, <3>3 DEF Request
  <2>5. req' = [req EXCEPT ![r] = [[req[r] EXCEPT !.cid = c] EXCEPT !.pc = pc]]
    BY <2>1, <2>2
  <2>6. /\ req' \in [Reqs -> Request]
        /\ \A q \in Reqs \ {r} : req'[q] = req[q]
    BY <2>2, <2>4, <2>5
  <2>7. req'[r].bot = req[r].bot /\ req'[r].cid = c
    BY <2>2, <2>5 DEF Request
  <2>8. StateOK'
    BY <1>1, <2>3, <2>6 DEF IInv, StateOK
  <2>9. Labelled'
    BY <2>2, <2>3 DEF IInv, Labelled
  <2>10. InFlight'
    <3>1. ASSUME NEW q \in Reqs \ {r}, req[q].pc \in {"launch", "record"}
          PROVE  req[q].cid \in Cids /\ req[q].cid # c
      BY <2>1, <3>1 DEF IInv, InFlight
    <3>2. QED BY <2>2, <2>3, <2>6, <2>7, <3>1 DEF IInv, InFlight
  <2>11. RecordedContainerIsOwn'
    <3>1. ASSUME NEW b \in Bots, row[b].cid # None
          PROVE  row[b].cid \in Cids /\ row[b].cid # c
      BY <2>1, <3>1 DEF IInv, StateOK, RecordedContainerIsOwn
    <3>2. QED BY <1>1, <2>3, <3>1 DEF IInv, RecordedContainerIsOwn
  <2>12. QED BY <2>8, <2>9, <2>10, <2>11 DEF IInv
<1>4. QED BY <1>2, <1>3

\* startContainer runs the container the request has just made, and the
\* request goes on to record that container.
LEMMA StartLaunchStep ==
  ASSUME IInv, NEW r \in Reqs, StartLaunch(r)
  PROVE  IInv'
<1>1. UNCHANGED <<row, stream, cron, boot>> /\ req[r].pc = "launch"
  BY DEF StartLaunch, At
<1>2. CASE Goto(r, "fail") /\ UNCHANGED <<ctr, ev>>
  <2>1. "fail" \in PCs \ {"launch", "record"} BY DEF PCs
  <2>2. QED BY <1>1, <1>2, <2>1, MoveSteps
<1>3. CASE ~(Goto(r, "fail") /\ UNCHANGED <<ctr, ev>>)
  <2> DEFINE c == req[r].cid
  <2>1. /\ Exists(c) /\ Goto(r, "record")
        /\ ctr' = [ctr EXCEPT ![c].state = "running"]
        /\ Emit(c, {"start"})
    BY <1>3 DEF StartLaunch
  <2>2. c \in Cids /\ ctr[c].state # "unused" /\ ctr[c].bot = req[r].bot
    BY <1>1 DEF IInv, InFlight
  <2>3. KeepsContainers
    <3>1. "running" \in CtrState \ {"unused"} OBVIOUS
    <3>2. QED BY <2>1, <2>2, <3>1, StateChange DEF IInv
  <2>4. ev' \in SUBSET Handler
    BY <2>1, <2>2, EmitType DEF IInv
  <2>5. req \in [Reqs -> Request]
    BY DEF IInv, StateOK
  <2>6. [req[r] EXCEPT !.pc = "record"] \in Request
    BY <2>5 DEF Request, PCs
  <2>7. req' \in [Reqs -> Request] /\ \A q \in Reqs \ {r} : req'[q] = req[q]
    BY <2>1, <2>5, <2>6 DEF Goto
  <2>8. req'[r].bot = req[r].bot /\ req'[r].cid = c
    BY <2>1, <2>5 DEF Request, Goto
  <2>9. InFlight'
    BY <1>1, <2>2, <2>3, <2>7, <2>8 DEF IInv, InFlight, KeepsContainers
  <2>10. row' \in [Bots -> Row] /\ stream' \in BOOLEAN
    BY <1>1 DEF IInv, StateOK
  <2>11. QED BY <1>1, <2>3, <2>4, <2>7, <2>9, <2>10, Frame
<1>4. QED BY <1>2, <1>3

\* The write of containerId records the container the request made for the row.
LEMMA RecordContainerStep ==
  ASSUME IInv, NEW r \in Reqs, RecordContainer(r)
  PROVE  IInv'
<1> DEFINE b == req[r].bot
           c == req[r].cid
<1>1. /\ b \in Bots /\ c \in Cids
      /\ ctr[c].bot = b /\ ctr[c].state # "unused"
  BY DEF RecordContainer, At, IInv, InFlight
<1>2. UNCHANGED <<ctr, ev, stream, cron, boot>> /\ req[r].pc # "idle"
  BY DEF RecordContainer, At
<1>3. KeepsContainers
  BY <1>2, CtrUnchanged DEF IInv
<1>4. req' \in [Reqs -> Request] /\ InFlight'
  <2>1. "finish" \in PCs \ {"launch", "record"} BY DEF PCs
  <2>2. Done(r) \/ Goto(r, "finish") BY DEF RecordContainer
  <2>3. QED BY <1>2, <1>3, <2>1, <2>2, RequestMoves, RequestEnds
<1>5. row \in [Bots -> Row] /\ row' = [row EXCEPT ![b].cid = c]
  BY DEF IInv, StateOK, RecordContainer
<1>6. row' \in [Bots -> Row]
  <2>1. [row[b] EXCEPT !.cid = c] \in Row BY <1>1, <1>5
  <2>2. QED BY <1>1, <1>5, <2>1
<1>7. row'[b].cid = c /\ \A x \in Bots \ {b} : row'[x] = row[x]
  BY <1>1, <1>5
<1>8. RecordedContainerIsOwn'
  BY <1>1, <1>2, <1>7 DEF IInv, RecordedContainerIsOwn
<1>9. Labelled'
  BY <1>2 DEF IInv, Labelled
<1>10. StateOK'
  BY <1>2, <1>3, <1>4, <1>6 DEF IInv, StateOK, KeepsContainers
<1>11. QED BY <1>4, <1>8, <1>9, <1>10 DEF IInv

-----------------------------------------------------------------------------
\* A request that arrives has read a live row.
LEMMA ReadRowStep ==
  ASSUME IInv, NEW r \in Reqs, NEW b \in Bots, NEW op \in Ops,
         NEW pc \in PCs \ {"launch", "record"}, ReadRow(r, op, b, pc)
  PROVE  IInv'
<1>1. UNCHANGED <<row, ctr, ev, stream, cron, boot>>
  BY DEF ReadRow
<1>2. row[b].cid \in Cids \cup {None} /\ row[b].status \in Status
  BY DEF IInv, StateOK
<1>3. PICK val \in Status :
        req' = [req EXCEPT ![r] = [op |-> op, pc |-> pc, bot |-> b, cid |-> row[b].cid, val |-> val]]
  BY <1>2 DEF ReadRow
<1>4. [op |-> op, pc |-> pc, bot |-> b, cid |-> row[b].cid, val |-> val] \in Request
  BY <1>2 DEF Request
<1>5. KeepsContainers
  BY <1>1, CtrUnchanged DEF IInv
<1>6. req' \in [Reqs -> Request] /\ InFlight'
  BY <1>3, <1>4, <1>5, RequestSet
<1>7. row' \in [Bots -> Row] /\ ev' \in SUBSET Handler /\ stream' \in BOOLEAN
  BY <1>1 DEF IInv, StateOK
<1>8. QED BY <1>1, <1>5, <1>6, <1>7, Frame

\* createBot inserts a row that records no container.
LEMMA CreateRowStep ==
  ASSUME IInv, NEW r \in Reqs, NEW b \in Bots, CreateRow(r, b)
  PROVE  IInv'
<1> DEFINE new == [state |-> "live", status |-> "created", cid |-> None]
           q == [op |-> "create", pc |-> "clear", bot |-> b, cid |-> None, val |-> "draft"]
<1>1. UNCHANGED <<ctr, ev, stream, cron, boot>> /\ row' = [row EXCEPT ![b] = new]
  BY DEF CreateRow
<1>2. row' \in [Bots -> Row] /\ \A x \in Bots : row'[x].cid \in {row[x].cid, None}
  <2>1. new \in Row /\ row \in [Bots -> Row] BY DEF IInv, StateOK
  <2>2. QED BY <1>1, <2>1
<1>3. KeepsContainers
  BY <1>1, CtrUnchanged DEF IInv
<1>4. req' \in [Reqs -> Request] /\ InFlight'
  <2>1. q \in Request BY DEF Request, Ops, PCs
  <2>2. req' = [req EXCEPT ![r] = q] BY DEF CreateRow
  <2>3. QED BY <1>3, <2>1, <2>2, RequestSet
<1>5. ev' \in SUBSET Handler /\ stream' \in BOOLEAN
  BY <1>1 DEF IInv, StateOK
<1>6. QED BY <1>1, <1>2, <1>3, <1>4, <1>5, Frame

\* createBotSimple makes a row live.
LEMMA CreateDraftStep ==
  ASSUME IInv, NEW r \in Reqs, NEW b \in Bots, CreateDraft(r, b)
  PROVE  IInv'
<1>1. UNCHANGED <<ctr, req, ev, stream, cron, boot>>
  BY DEF CreateDraft
<1>2. row' \in [Bots -> Row] /\ \A x \in Bots : row'[x].cid = row[x].cid
  <2>1. row \in [Bots -> Row] /\ row' = [row EXCEPT ![b].state = "live"]
    BY DEF IInv, StateOK, CreateDraft
  <2>2. QED BY <2>1
<1>3. KeepsContainers
  BY <1>1, CtrUnchanged DEF IInv
<1>4. ev' \in SUBSET Handler /\ stream' \in BOOLEAN
  BY <1>1 DEF IInv, StateOK
<1>5. QED BY <1>1, <1>2, <1>3, <1>4, SameRequests, Frame

\* Every arrival keeps the invariant.
LEMMA ArrivalStep ==
  ASSUME IInv, NEW r \in Reqs, NEW b \in Bots, RequestArrives(r, b)
  PROVE  IInv'
<1>1. {"configured", "mark", "stopped", "halt", "erase", "delstop", "look"}
        \subseteq PCs \ {"launch", "record"}
  BY DEF PCs
<1>2. {"configure", "start", "stop", "delete", "list"} \subseteq Ops
  BY DEF Ops, Sent
<1>3. CASE ConfigureRead(r, b) BY <1>1, <1>2, <1>3, ReadRowStep DEF ConfigureRead
<1>4. CASE StartRead(r, b) BY <1>1, <1>2, <1>4, ReadRowStep DEF StartRead
<1>5. CASE StopRead(r, b)
  <2>1. PICK pc \in {"stopped", "halt"} : ReadRow(r, "stop", b, pc) BY <1>5 DEF StopRead
  <2>2. QED BY <1>1, <1>2, <2>1, ReadRowStep
<1>6. CASE DeleteRead(r, b)
  <2>1. PICK pc \in {"erase", "delstop"} : ReadRow(r, "delete", b, pc) BY <1>6 DEF DeleteRead
  <2>2. QED BY <1>1, <1>2, <2>1, ReadRowStep
<1>7. CASE ListRead(r, b) BY <1>1, <1>2, <1>7, ReadRowStep DEF ListRead
<1>8. QED BY <1>3, <1>4, <1>5, <1>6, <1>7, CreateRowStep, CreateDraftStep DEF RequestArrives

\* Every later step of a request keeps the invariant.
LEMMA RequestStepInv ==
  ASSUME IInv, NEW r \in Reqs, RequestStep(r)
  PROVE  IInv'
  BY StatusSteps, DeleteRowStep, MovingSteps, ListLookStep, StartMarkStep,
     CreateContainerStep, StartLaunchStep, RecordContainerStep DEF RequestStep

-----------------------------------------------------------------------------
\* Handlers of Docker events write nothing but the status of a row.
LEMMA EventStepInv ==
  ASSUME IInv, NEW e \in ev, EventLookup(e) \/ EventWrite(e)
  PROVE  IInv'
<1>1. UNCHANGED <<ctr, req, stream, cron, boot>> /\ e \in Handler
  BY DEF EventLookup, EventWrite, IInv, StateOK
<1>2. KeepsContainers
  BY <1>1, CtrUnchanged DEF IInv
<1>3. CASE EventLookup(e)
  <2>1. \A b \in Bots : [e EXCEPT !.bot = b] \in Handler
    BY <1>1
  <2>2. ev' \in SUBSET Handler
    BY <1>3, <2>1 DEF EventLookup, LiveRows, IInv, StateOK
  <2>3. row' = row
    BY <1>3 DEF EventLookup
  <2>4. row' \in [Bots -> Row] /\ stream' \in BOOLEAN
    BY <1>1, <2>3 DEF IInv, StateOK
  <2>5. QED BY <1>1, <1>2, <2>2, <2>3, <2>4, SameRequests, Frame
<1>4. CASE EventWrite(e)
  <2>1. e.bot \in Bots /\ e.to \in Status /\ row' = [row EXCEPT ![e.bot].status = e.to]
    BY <1>1, <1>4 DEF EventWrite
  <2>2. row' \in [Bots -> Row] /\ \A x \in Bots : row'[x].cid = row[x].cid
    BY <2>1, StatusWrite DEF IInv
  <2>3. ev' \in SUBSET Handler /\ stream' \in BOOLEAN
    BY <1>1, <1>4 DEF EventWrite, IInv, StateOK
  <2>4. QED BY <1>1, <1>2, <2>2, <2>3, SameRequests, Frame
<1>5. QED BY <1>3, <1>4

\* A container dies and the daemon runs it again.
LEMMA ContainerStepInv ==
  ASSUME IInv, NEW c \in Cids, ContainerDies(c) \/ ContainerRestarts(c)
  PROVE  IInv'
<1>1. UNCHANGED <<row, req, stream, cron, boot>> /\ ctr[c].state # "unused"
  BY DEF ContainerDies, ContainerRestarts
<1>2. PICK s \in {"restarting", "running"} : ctr' = [ctr EXCEPT ![c].state = s]
  BY DEF ContainerDies, ContainerRestarts
<1>3. KeepsContainers
  <2>1. s \in CtrState \ {"unused"} OBVIOUS
  <2>2. QED BY <1>1, <1>2, <2>1, StateChange DEF IInv
<1>4. ev' \in SUBSET Handler
  BY EmitType DEF IInv, ContainerDies, ContainerRestarts
<1>5. row' \in [Bots -> Row] /\ stream' \in BOOLEAN
  BY <1>1 DEF IInv, StateOK
<1>6. QED BY <1>1, <1>3, <1>4, <1>5, SameRequests, Frame

\* The event stream breaks and reconnects.
LEMMA StreamStepInv ==
  ASSUME IInv, StreamDrop \/ StreamConnect
  PROVE  IInv'
<1>1. UNCHANGED <<row, ctr, req, ev, cron, boot>> /\ stream' \in BOOLEAN
  BY DEF StreamDrop, StreamConnect
<1>2. KeepsContainers
  BY <1>1, CtrUnchanged DEF IInv
<1>3. row' \in [Bots -> Row] /\ ev' \in SUBSET Handler
  BY <1>1 DEF IInv, StateOK
<1>4. QED BY <1>1, <1>2, <1>3, SameRequests, Frame

\* The stuck-state cron writes nothing but a status.
LEMMA CronStepInv ==
  ASSUME IInv, CronList \/ \E b \in Bots : CronWrite(b)
  PROVE  IInv'
<1>1. UNCHANGED <<ctr, req, ev, stream, boot>>
  BY DEF CronList, CronWrite
<1>2. KeepsContainers
  BY <1>1, CtrUnchanged DEF IInv
<1>3. row' \in [Bots -> Row] /\ \A x \in Bots : row'[x].cid = row[x].cid
  <2>1. CASE CronList BY <2>1 DEF CronList, IInv, StateOK
  <2>2. ASSUME NEW b \in Bots, CronWrite(b)
        PROVE  row' \in [Bots -> Row] /\ \A x \in Bots : row'[x].cid = row[x].cid
    <3>1. row' = [row EXCEPT ![b].status = "error"] BY <2>2 DEF CronWrite
    <3>2. QED BY <3>1, StatusWrite DEF IInv
  <2>3. QED BY <2>1, <2>2
<1>4. cron' \in SUBSET Bots
  BY DEF CronList, CronWrite, Overdue, LiveRows, IInv, StateOK
<1>5. Labelled' /\ RecordedContainerIsOwn'
  BY <1>2, <1>3, SameContainers
<1>6. InFlight'
  BY <1>1, <1>2, SameRequests
<1>7. StateOK'
  BY <1>1, <1>3, <1>4 DEF IInv, StateOK
<1>8. QED BY <1>5, <1>6, <1>7 DEF IInv

\* After a crash no request is in flight, and the containers are as they were.
LEMMA CrashStepInv ==
  ASSUME IInv, Crash
  PROVE  IInv'
<1>1. UNCHANGED <<row, ctr>> /\ req' = [r \in Reqs |-> Idle]
  BY DEF Crash
<1>2. KeepsContainers
  BY <1>1, CtrUnchanged DEF IInv
<1>3. Labelled' /\ RecordedContainerIsOwn'
  BY <1>1, <1>2, SameContainers
<1>4. Idle \in Request
  BY DEF Idle, Request, PCs, Ops
<1>5. InFlight'
  BY <1>1 DEF InFlight, Idle
<1>6. boot' \in [phase : {"up", "list", "sync"}, rows : [Bots -> Row],
                 keys : SUBSET Keys, todo : SUBSET Bots]
  BY DEF Crash, IInv, StateOK, LiveRows
<1>7. StateOK'
  <2>1. req' \in [Reqs -> Request] BY <1>1, <1>4
  <2>2. row' \in [Bots -> Row] BY <1>1 DEF IInv, StateOK
  <2>3. ev' \in SUBSET Handler /\ stream' \in BOOLEAN /\ cron' \in SUBSET Bots BY DEF Crash
  <2>4. QED BY <1>2, <1>6, <2>1, <2>2, <2>3 DEF KeepsContainers, StateOK
<1>8. QED BY <1>3, <1>5, <1>7 DEF IInv

\* Reconciliation may clear a recorded id and never writes another one.
LEMMA SyncBotStatusKeeps ==
  ASSUME StateOK, NEW b \in Bots, NEW has \in BOOLEAN, SyncBotStatus(b, boot.rows[b], has)
  PROVE  row' \in [Bots -> Row] /\ \A x \in Bots : row'[x].cid \in {row[x].cid, None}
<1> DEFINE old == boot.rows[b]
<1>1. row \in [Bots -> Row] /\ old \in Row
  BY DEF StateOK
<1>2. ASSUME NEW s \in Status, NEW cid \in {row[b].cid, None},
             row' = [row EXCEPT ![b] = [[row[b] EXCEPT !.cid = cid] EXCEPT !.status = s]]
      PROVE  row' \in [Bots -> Row] /\ \A x \in Bots : row'[x].cid \in {row[x].cid, None}
  <2>1. [[row[b] EXCEPT !.cid = cid] EXCEPT !.status = s] \in Row
    BY <1>1
  <2>2. row' \in [Bots -> Row]
    BY <1>1, <1>2, <2>1
  <2>3. row'[b].cid = cid /\ \A x \in Bots \ {b} : row'[x] = row[x]
    BY <1>1, <1>2
  <2>4. QED BY <2>2, <2>3
<1>3. ASSUME NEW s \in Status, row' = [row EXCEPT ![b].cid = None, ![b].status = s]
      PROVE  row' \in [Bots -> Row] /\ \A x \in Bots : row'[x].cid \in {row[x].cid, None}
  BY <1>1, <1>2, <1>3
<1>4. CASE KeyOf[b] \notin boot.keys
  <2>1. PICK s \in Status : row' = [row EXCEPT ![b].cid = None, ![b].status = s]
    BY <1>1, <1>4 DEF SyncBotStatus
  <2>2. QED BY <1>3, <2>1
<1>5. CASE KeyOf[b] \in boot.keys /\ ~has
  <2>1. CASE row' = row BY <1>1, <2>1
  <2>2. CASE row' # row
    <3>1. row' = [row EXCEPT ![b].cid = None, ![b].status = "stopped"]
      BY <1>5, <2>2 DEF SyncBotStatus
    <3>2. QED BY <1>3, <3>1
  <2>3. QED BY <2>1, <2>2
<1>6. CASE KeyOf[b] \in boot.keys /\ has
  <2>1. PICK s \in Status : row' = [row EXCEPT ![b].status = s]
    BY <1>1, <1>6 DEF SyncBotStatus
  <2>2. QED BY <2>1, StatusWrite
<1>7. QED BY <1>4, <1>5, <1>6

\* The steps of reconciliation after a restart.
LEMMA ReconcileStepInv ==
  ASSUME IInv, ReconcileKeys \/ (\E b \in Bots : ReconcileBot(b)) \/ Listen
  PROVE  IInv'
<1>1. UNCHANGED <<ctr, req, ev, stream, cron>>
  BY DEF ReconcileKeys, ReconcileBot, Listen
<1>2. KeepsContainers
  BY <1>1, CtrUnchanged DEF IInv
<1>3. row' \in [Bots -> Row] /\ \A x \in Bots : row'[x].cid \in {row[x].cid, None}
  <2>1. CASE row' = row
    <3>1. row \in [Bots -> Row] BY DEF IInv, StateOK
    <3>2. QED BY <2>1, <3>1
  <2>2. ASSUME NEW b \in Bots, ReconcileBot(b)
        PROVE  row' \in [Bots -> Row] /\ \A x \in Bots : row'[x].cid \in {row[x].cid, None}
    <3>1. PICK has \in BOOLEAN : SyncBotStatus(b, boot.rows[b], has)
      BY <2>2 DEF ReconcileBot
    <3>2. QED BY <3>1, SyncBotStatusKeeps DEF IInv
  <2>3. (ReconcileKeys \/ Listen) => row' = row
    BY DEF ReconcileKeys, Listen
  <2>4. QED BY <2>1, <2>2, <2>3
<1>4. boot' \in [phase : {"up", "list", "sync"}, rows : [Bots -> Row],
                 keys : SUBSET Keys, todo : SUBSET Bots]
  <2>1. CASE ReconcileKeys
    <3>1. \A c \in Cids : Exists(c) => KeyOf[ctr[c].bot] \in Keys
      BY BotLifecycleAssumption DEF Exists, IInv, Labelled
    <3>2. {KeyOf[ctr[c].bot] : c \in {d \in Cids : Exists(d)}} \in SUBSET Keys
      BY <3>1
    <3>3. PICK keys \in SUBSET Keys : boot' = [boot EXCEPT !.phase = "sync", !.keys = keys]
      BY <2>1, <3>2 DEF ReconcileKeys
    <3>4. QED BY <3>3 DEF IInv, StateOK
  <2>2. ASSUME NEW b \in Bots, ReconcileBot(b)
        PROVE  boot' \in [phase : {"up", "list", "sync"}, rows : [Bots -> Row],
                          keys : SUBSET Keys, todo : SUBSET Bots]
    <3>1. boot' = [boot EXCEPT !.todo = boot.todo \ {b}]
      BY <2>2 DEF ReconcileBot
    <3>2. QED BY <3>1 DEF IInv, StateOK
  <2>3. CASE Listen
    BY <2>3 DEF Listen, Booted, NoRow
  <2>4. QED BY <2>1, <2>2, <2>3
<1>5. Labelled' /\ RecordedContainerIsOwn'
  BY <1>2, <1>3, SameContainers
<1>6. InFlight'
  BY <1>1, <1>2, SameRequests
<1>7. StateOK'
  BY <1>1, <1>3, <1>4 DEF IInv, StateOK
<1>8. QED BY <1>5, <1>6, <1>7 DEF IInv

-----------------------------------------------------------------------------
\* The strengthened invariant is inductive.
LEMMA NextInv == IInv /\ [Next]_vars => IInv'
<1> SUFFICES ASSUME IInv, [Next]_vars PROVE IInv'
  OBVIOUS
<1>1. CASE UNCHANGED vars
  BY <1>1 DEF vars, IInv, StateOK, Labelled, InFlight, RecordedContainerIsOwn
<1>2. CASE Next
  BY <1>2, ArrivalStep, RequestStepInv, EventStepInv, ContainerStepInv, StreamStepInv,
     CronStepInv, CrashStepInv, ReconcileStepInv DEF Next, EventStep
<1>3. QED BY <1>1, <1>2

\* A step of the specification is a step of Next in an unchanged environment.
LEMMA Steps ==
  ASSUME IInv, world \in Worlds, [Next /\ UNCHANGED world]_<<vars, world>>
  PROVE  IInv' /\ (world \in Worlds)'
<1>1. [Next]_vars /\ world' = world
  OBVIOUS
<1>2. QED BY <1>1, NextInv

\* IInv holds in every reachable state, in an environment of Worlds.
LEMMA AlwaysInv == Spec => [](IInv /\ world \in Worlds)
<1>1. Init => world \in Worlds
  BY DEF Init
<1>2. QED BY InitInv, <1>1, Steps, PTL DEF Spec

\* Every variable keeps its type, for every number of bots, requests and
\* containers and in every environment.
THEOREM TypeCorrect == Spec => []TypeOK
<1>1. IInv /\ world \in Worlds => TypeOK BY DEF IInv, TypeOK
<1>2. QED BY AlwaysInv, <1>1, PTL

\* A row never records a container that was made for another row, whatever
\* requests, event handlers, crons, crashes and reconciliations interleave.
THEOREM OwnContainers == Spec => []RecordedContainerIsOwn
<1>1. IInv => RecordedContainerIsOwn BY DEF IInv
<1>2. QED BY AlwaysInv, <1>1, PTL

-----------------------------------------------------------------------------
(* One request at a time                                                   *)

Mutating(r) == req[r].op \notin {"none", "list"}

\* The daemon has at most one container of a name; a create or start that is
\* about to make one has cleared the name, the one it made is still there, and
\* it fails only while another one has its port.
OnTrack(r) ==
  LET q == req[r]
  IN  /\ q.op = "none" <=> q.pc = "idle"
      /\ q.op = "list" <=> q.pc \in {"look", "sync"}
      /\ q.pc = "create" => Named(KeyOf[q.bot]) = {}
      /\ q.pc \in {"launch", "record"} => Exists(q.cid)
      /\ q.pc = "launch" => ctr[q.cid].state = "created"
      /\ q.pc = "fail" => PortTaken(q.bot)

OneOfAName ==
  \A c, d \in Cids : Exists(c) /\ Exists(d) /\ KeyOf[ctr[c].bot] = KeyOf[ctr[d].bot] => c = d

Sole ==
  /\ \A r, s \in Reqs : Mutating(r) /\ Mutating(s) => r = s
  /\ OneOfAName
  /\ \A r \in Reqs : OnTrack(r)

\* Places at which a mutating request owes nothing to the containers.
Free == {"configured", "mark", "inspect", "stopold", "removeold", "clear", "finish", "halt", "stopped",
         "delstop", "delremove", "erase"}

\* A step that makes and starts no container; one that removes or stops none
\* either.
Fewer == \A c \in Cids : /\ ctr'[c].bot = ctr[c].bot
                         /\ Exists(c)' => Exists(c)
                         /\ ctr[c].state = "created" => ctr'[c].state \in {"created", "removed"}
Same == \A c \in Cids : /\ ctr'[c].bot = ctr[c].bot
                        /\ Exists(c)' <=> Exists(c)
                        /\ Running(c)' <=> Running(c)
                        /\ ctr[c].state = "created" => ctr'[c].state = "created"

LEMMA NoStep == ASSUME ctr' = ctr PROVE Same /\ Fewer
BY DEF Same, Fewer, Exists, Running

LEMMA StopsAndRemoves ==
  ASSUME StateOK, NEW c \in Cids, Exists(c)
  PROVE  /\ DockerStop(c) => Fewer
         /\ DockerRemove(c) => /\ Fewer /\ ~Exists(c)'
                               /\ \A d \in Cids \ {c} : Exists(d)' <=> Exists(d)
<1>1. ctr \in [Cids -> [bot : Bots \cup {None}, state : CtrState]]
  BY DEF StateOK
<1>2. ASSUME NEW s, ctr' = [ctr EXCEPT ![c].state = s]
      PROVE  /\ ctr'[c].bot = ctr[c].bot /\ ctr'[c].state = s
             /\ \A d \in Cids \ {c} : ctr'[d] = ctr[d]
  BY <1>1, <1>2
<1>3. CASE DockerStop(c) /\ Running(c)
  <2>1. PICK s \in {"exited", "failed"} : ctr' = [ctr EXCEPT ![c].state = s]
    BY <1>3 DEF DockerStop
  <2>2. Fewer
    BY <1>2, <1>3, <2>1 DEF Fewer, Exists, Running
  <2>3. ctr'[c].state # "removed"
    BY <1>2, <2>1
  <2>4. ~DockerRemove(c)
    BY <1>2, <2>3 DEF DockerRemove
  <2> QED BY <2>2, <2>4
<1>4. CASE DockerStop(c) /\ ~Running(c)
  <2>1. ctr' = ctr
    BY <1>4 DEF DockerStop
  <2>2. ~DockerRemove(c)
    BY <1>2, <2>1 DEF DockerRemove, Exists
  <2> QED BY <2>1, <2>2, NoStep
<1>5. CASE ~DockerStop(c) /\ DockerRemove(c)
  BY <1>2, <1>5 DEF DockerRemove, Fewer, Exists
<1> QED BY <1>3, <1>4, <1>5

\* The others of a request that changes a bot only list.
LEMMA OthersList ==
  ASSUME Sole, NEW r \in Reqs, Mutating(r), \A s \in Reqs \ {r} : req'[s] = req[s]
  PROVE  \A s \in Reqs \ {r} : ~Mutating(s) /\ OnTrack(s)'
BY DEF Sole, OnTrack, Mutating

\* A mutating request ends, or goes to a place where it owes nothing.
LEMMA GoesFree ==
  ASSUME IInv, Sole, Fewer, NEW r \in Reqs, Mutating(r), Done(r) \/ \E pc \in Free : Goto(r, pc)
  PROVE  Sole'
<1>1. /\ \A s \in Reqs \ {r} : req'[s] = req[s]
      /\ \/ req'[r] = Idle
         \/ req'[r].op = req[r].op /\ req'[r].pc \in Free
  BY DEF IInv, StateOK, Request, Done, Goto
<1>2. OnTrack(r)'
  BY <1>1 DEF OnTrack, Free, Idle, Mutating, Sole
<1>3. \A p, q \in Reqs : Mutating(p)' /\ Mutating(q)' => p = q
  BY <1>1 DEF Sole, Mutating, Idle
<1>4. OneOfAName'
  BY DEF Sole, OneOfAName, Fewer
<1> QED BY <1>1, <1>2, <1>3, <1>4, OthersList DEF Sole

\* A step that keeps requests and containers as they are keeps Sole.
LEMMA Apart ==
  ASSUME IInv, Sole, Same, UNCHANGED <<req, world>>
  PROVE  Sole'
<1>1. OneOfAName'
  BY DEF Sole, OneOfAName, Same
<1>2. ASSUME NEW r \in Reqs
      PROVE  OnTrack(r)'
  <2>1. req[r].pc = "create" => Named(KeyOf[req[r].bot])' = {}
    BY DEF Sole, OnTrack, Named, Same
  <2>2. req[r].pc \in {"launch", "record"} => Exists(req[r].cid)'
    BY DEF Sole, OnTrack, Same, IInv, InFlight
  <2>3. req[r].pc = "launch" => ctr'[req[r].cid].state = "created"
    BY DEF Sole, OnTrack, Same, IInv, InFlight
  <2>4. req[r].pc = "fail" => PortTaken(req[r].bot)'
    BY DEF Sole, OnTrack, Same, PortTaken
  <2> QED BY <2>1, <2>2, <2>3, <2>4 DEF Sole, OnTrack
<1> QED BY <1>1, <1>2 DEF Sole, Mutating

LEMMA ListingSole ==
  ASSUME IInv, Sole, UNCHANGED world, NEW r \in Reqs, ListLook(r) \/ ListSync(r)
  PROVE  Sole'
<1>0. DOMAIN req = Reqs
  BY DEF IInv, StateOK
<1>1. /\ ctr' = ctr /\ \A s \in Reqs \ {r} : req'[s] = req[s]
      /\ req[r].op = "list"
  BY <1>0 DEF ListLook, ListSync, Done, At, Sole, OnTrack
<1>2. req'[r] = Idle \/ (req'[r].op = "list" /\ req'[r].pc = "sync")
  <2>1. CASE Done(r)
    BY <1>0, <2>1 DEF Done
  <2>2. CASE ~Done(r)
    <3>1. PICK v : req' = [req EXCEPT ![r].pc = "sync", ![r].val = v]
      BY <2>2 DEF ListLook, ListSync
    <3> QED BY <1>1, <3>1 DEF IInv, StateOK, Request
  <2> QED BY <2>1, <2>2
<1>3. OnTrack(r)'
  BY <1>2 DEF OnTrack, Idle
<1>4. \A s \in Reqs \ {r} : OnTrack(s)'
  BY <1>1 DEF Sole, OnTrack, Named, Exists, PortTaken, Running
<1>5. OneOfAName'
  BY <1>1 DEF Sole, OneOfAName, Exists
<1>6. ~Mutating(r)'
  BY <1>2 DEF Mutating, Idle
<1> QED BY <1>1, <1>3, <1>4, <1>5, <1>6 DEF Sole, Mutating

LEMMA ClearNameSole ==
  ASSUME IInv, Sole, ~Faults, NEW r \in Reqs, ClearName(r)
  PROVE  Sole'
<1>1. /\ Mutating(r) /\ req[r].pc = "clear" /\ Goto(r, "create") /\ req[r].bot \in Bots
  BY DEF ClearName, At, Sole, OnTrack, Mutating, IInv, InFlight
<1>2. /\ \A s \in Reqs \ {r} : req'[s] = req[s]
      /\ req'[r].pc = "create" /\ req'[r].bot = req[r].bot /\ req'[r].op = req[r].op
  BY <1>1 DEF IInv, StateOK, Request, Goto
<1>3. Fewer /\ Named(KeyOf[req[r].bot])' = {}
  <2> DEFINE k == KeyOf[req[r].bot]
  <2>1. PICK b \in Bots : b = req[r].bot
    BY <1>1
  <2>2. CASE ctr' = ctr /\ Named(KeyOf[b]) = {}
    BY <1>2, <2>1, <2>2, NoStep DEF Named, Exists
  <2>3. CASE \E c \in Named(KeyOf[b]) : DockerRemove(c)
    <3>1. PICK c \in Named(KeyOf[b]) : DockerRemove(c)
      BY <2>3
    <3>2. c \in Cids /\ Exists(c) /\ KeyOf[ctr[c].bot] = KeyOf[b]
      BY <3>1 DEF Named
    <3>3. /\ Fewer /\ ~Exists(c)'
          /\ \A d \in Cids \ {c} : Exists(d)' <=> Exists(d)
      BY <3>1, <3>2, StopsAndRemoves DEF IInv
    <3>4. \A d \in Cids : Exists(d)' => KeyOf[ctr'[d].bot] # KeyOf[b]
      BY <3>2, <3>3 DEF Fewer, Sole, OneOfAName
    <3> QED BY <1>2, <2>1, <3>3, <3>4 DEF Named
  <2> QED BY <2>1, <2>2, <2>3 DEF ClearName
<1>4. OnTrack(r)'
  BY <1>1, <1>2, <1>3 DEF OnTrack, Sole, Mutating
<1>5. OneOfAName'
  BY <1>3 DEF Sole, OneOfAName, Fewer
<1>6. \A p, q \in Reqs : Mutating(p)' /\ Mutating(q)' => p = q
  BY <1>2 DEF Sole, Mutating
<1> QED BY <1>1, <1>2, <1>4, <1>5, <1>6, OthersList DEF Sole

LEMMA CreateContainerSole ==
  ASSUME IInv, Sole, ~Faults, NEW r \in Reqs, CreateContainer(r)
  PROVE  Sole'
<1>1. /\ Mutating(r) /\ req[r].pc = "create" /\ Named(KeyOf[req[r].bot]) = {}
  BY DEF CreateContainer, At, Sole, OnTrack, Mutating
<1>2. PICK c \in Cids, pc \in {"record", "launch"} :
        /\ ctr' = [ctr EXCEPT ![c] = [bot |-> req[r].bot, state |-> "created"]]
        /\ req' = [req EXCEPT ![r].cid = c, ![r].pc = pc]
  BY <1>1 DEF CreateContainer, FreshId
<1>3. PICK b \in Bots : b = req[r].bot
  BY <1>1 DEF IInv, InFlight
<1>4. /\ ctr'[c].bot = b /\ ctr'[c].state = "created" /\ \A d \in Cids \ {c} : ctr'[d] = ctr[d]
  BY <1>2, <1>3 DEF IInv, StateOK
<1>5. /\ \A s \in Reqs \ {r} : req'[s] = req[s]
      /\ req'[r].pc = pc /\ req'[r].cid = c /\ req'[r].op = req[r].op
  BY <1>2 DEF IInv, StateOK, Request
<1>6. OnTrack(r)'
  BY <1>1, <1>4, <1>5 DEF OnTrack, Sole, Mutating, Exists
<1>7. OneOfAName'
  <2>1. \A d \in Cids : Exists(d) => KeyOf[ctr[d].bot] # KeyOf[b]
    BY <1>1, <1>3 DEF Named
  <2> QED BY <1>4, <2>1 DEF Sole, OneOfAName, Exists
<1>8. \A p, q \in Reqs : Mutating(p)' /\ Mutating(q)' => p = q
  BY <1>5 DEF Sole, Mutating
<1> QED BY <1>1, <1>5, <1>6, <1>7, <1>8, OthersList DEF Sole

\* The container is started, or another one has its port.
LEMMA StartLaunchSole ==
  ASSUME IInv, Sole, UNCHANGED world, ~Faults, NEW r \in Reqs, StartLaunch(r)
  PROVE  Sole'
<1>1. /\ Mutating(r) /\ req[r].pc = "launch" /\ Exists(req[r].cid)
  BY DEF StartLaunch, At, Sole, OnTrack, Mutating
<1>2. PICK c \in Cids : c = req[r].cid
  BY <1>1 DEF Exists
<1>3. PICK pc \in {"record", "fail"} :
        /\ Goto(r, pc)
        /\ IF pc = "record" THEN ctr' = [ctr EXCEPT ![c].state = "running"]
                            ELSE ctr' = ctr /\ PortTaken(req[r].bot)
  BY <1>1, <1>2 DEF StartLaunch
<1>4. \A d \in Cids : ctr'[d].bot = ctr[d].bot /\ (Exists(d)' <=> Exists(d))
  BY <1>1, <1>2, <1>3 DEF Exists, IInv, StateOK
<1>5. /\ \A s \in Reqs \ {r} : req'[s] = req[s]
      /\ req'[r].pc = pc /\ req'[r].cid = c /\ req'[r].op = req[r].op /\ req'[r].bot = req[r].bot
  BY <1>2, <1>3 DEF IInv, StateOK, Request, Goto
<1>6. OnTrack(r)'
  BY <1>1, <1>2, <1>3, <1>4, <1>5 DEF OnTrack, Sole, Mutating, PortTaken, Running
<1>7. OneOfAName'
  BY <1>4 DEF Sole, OneOfAName
<1>8. \A p, q \in Reqs : Mutating(p)' /\ Mutating(q)' => p = q
  BY <1>5 DEF Sole, Mutating
<1> QED BY <1>1, <1>5, <1>6, <1>7, <1>8, OthersList DEF Sole

LEMMA StepSole ==
  ASSUME IInv, Sole, UNCHANGED world, ~Faults, NEW r \in Reqs, RequestStep(r)
  PROVE  Sole'
<1>1. CASE \/ StartMark(r) \/ StartInspect(r) \/ StartFinish(r) \/ StartFail(r) \/ StopFinish(r)
           \/ DeleteRow(r) \/ ConfigureFinish(r) \/ RecordContainer(r)
  <2>1. ctr' = ctr /\ (Done(r) \/ \E pc \in Free : Goto(r, pc))
    BY <1>1 DEF StartMark, StartInspect, StartFinish, StartFail, StopFinish, DeleteRow, ConfigureFinish,
       RecordContainer, Free
  <2>2. Mutating(r)
    BY <1>1 DEF StartMark, StartInspect, StartFinish, StartFail, StopFinish, DeleteRow, ConfigureFinish,
       RecordContainer, At, Sole, OnTrack, Mutating
  <2>3. Fewer
    BY <2>1, NoStep
  <2> QED BY <2>1, <2>2, <2>3, GoesFree
<1>2. CASE StartStopOld(r) \/ StartRemoveOld(r) \/ StopHalt(r) \/ DeleteStop(r) \/ DeleteRemove(r)
  <2>1. Done(r) \/ \E pc \in Free : Goto(r, pc)
    BY <1>2 DEF StartStopOld, StartRemoveOld, StopHalt, DeleteStop, DeleteRemove, Free
  <2>2. Mutating(r)
    BY <1>2 DEF StartStopOld, StartRemoveOld, StopHalt, DeleteStop, DeleteRemove, At, Sole, OnTrack, Mutating
  <2>3. Fewer
    <3>1. CASE ctr' = ctr
      BY <3>1, NoStep
    <3>2. CASE Exists(req[r].cid) /\ (DockerStop(req[r].cid) \/ DockerRemove(req[r].cid))
      BY <3>2, StopsAndRemoves DEF IInv, Exists
    <3> QED BY <1>2, <3>1, <3>2 DEF StartStopOld, StartRemoveOld, StopHalt, DeleteStop, DeleteRemove
  <2> QED BY <2>1, <2>2, <2>3, GoesFree
<1> QED
  BY <1>1, <1>2, ListingSole, ClearNameSole, CreateContainerSole, StartLaunchSole DEF RequestStep

LEMMA ArrivalSole ==
  ASSUME IInv, Sole, Serial, UNCHANGED world, NEW r \in Reqs, NEW b \in Bots, RequestArrives(r, b)
  PROVE  Sole'
<1>0. DOMAIN req = Reqs
  BY DEF IInv, StateOK
<1>1. /\ ctr' = ctr /\ (CreateDraft(r, b) \/ req[r].pc = "idle")
      /\ \A s \in Reqs \ {r} : req'[s] = req[s]
  BY <1>0 DEF RequestArrives, CreateRow, CreateDraft, ConfigureRead, StartRead, StopRead, DeleteRead, ListRead, ReadRow, At
<1>2. CASE CreateDraft(r, b)
  <2>1. req' = req /\ Same
    BY <1>1, <1>2, NoStep DEF CreateDraft
  <2> QED BY <2>1, Apart
<1>3. CASE ~CreateDraft(r, b)
  <2>1. CASE ListRead(r, b)
    <3>1. req'[r].op = "list" /\ req'[r].pc = "look"
      BY <2>1 DEF ListRead, ReadRow, IInv, StateOK
    <3> QED BY <1>1, <3>1 DEF Sole, OnTrack, OneOfAName, Mutating, Named, Exists, PortTaken, Running
  <2>2. CASE ~ListRead(r, b)
    <3>1. req'[r].op \notin {"none", "list"} /\ req'[r].pc \in Free
      BY <1>3, <2>2 DEF RequestArrives, CreateRow, ConfigureRead, StartRead, StopRead, DeleteRead, ReadRow, Free,
         IInv, StateOK
    <3>2. \A q \in Reqs : ~Mutating(q)
      BY <1>3, <2>2 DEF RequestArrives, CreateRow, ConfigureRead, StartRead, StopRead, DeleteRead, MayMutate, Mutating
    <3> QED BY <1>1, <3>1, <3>2 DEF Sole, OnTrack, OneOfAName, Mutating, Named, Exists, Free
  <2> QED BY <2>1, <2>2
<1> QED BY <1>2, <1>3

LEMMA SoleKept ==
  ASSUME IInv, Sole, Serial, ~Faults, [Next /\ UNCHANGED world]_<<vars, world>>
  PROVE  Sole'
<1>0. UNCHANGED world
  OBVIOUS
<1>1. CASE UNCHANGED <<ctr, req>>
  BY <1>0, <1>1, Apart, NoStep
<1>2. ASSUME NEW c \in Cids, ContainerDies(c) \/ ContainerRestarts(c)
      PROVE  Sole'
  <2>1. PICK s \in {"restarting", "running"} : ctr' = [ctr EXCEPT ![c].state = s]
    BY <1>2 DEF ContainerDies, ContainerRestarts
  <2>2. Exists(c) /\ Running(c) /\ req' = req
    BY <1>2 DEF ContainerDies, ContainerRestarts, Exists, Running
  <2>3. ctr \in [Cids -> [bot : Bots \cup {None}, state : CtrState]]
    BY DEF IInv, StateOK
  <2>4. ctr'[c].bot = ctr[c].bot /\ ctr'[c].state = s /\ \A d \in Cids \ {c} : ctr'[d] = ctr[d]
    BY <2>1, <2>3
  <2>5. Same
    BY <2>2, <2>4 DEF Same, Exists, Running
  <2> QED BY <1>0, <2>2, <2>5, Apart
<1>3. CASE Crash
  BY <1>3 DEF Crash, Sole, OnTrack, OneOfAName, Mutating, Idle, Exists
<1>4. CASE \/ EventStep \/ StreamDrop \/ StreamConnect \/ CronList \/ (\E b \in Bots : CronWrite(b))
           \/ ReconcileKeys \/ (\E b \in Bots : ReconcileBot(b)) \/ Listen
  BY <1>1, <1>4 DEF EventStep, EventLookup, EventWrite, StreamDrop, StreamConnect, CronList, CronWrite,
     ReconcileKeys, ReconcileBot, Listen
<1> QED BY <1>0, <1>1, <1>2, <1>3, <1>4, ArrivalSole, StepSole DEF Next, vars

SoleInv == Serial /\ ~Faults => Sole

LEMMA AlwaysSole == Spec => []SoleInv
<1>1. Init => SoleInv
  BY DEF Init, SoleInv, Sole, OnTrack, OneOfAName, Mutating, Idle, Exists
<1>2. IInv /\ SoleInv /\ [Next /\ UNCHANGED world]_<<vars, world>> => SoleInv'
  <2> SUFFICES ASSUME IInv, SoleInv, [Next /\ UNCHANGED world]_<<vars, world>>, Serial', ~Faults'
               PROVE  Sole'
    BY DEF SoleInv
  <2>1. Serial /\ ~Faults
    BY DEF Serial, Faults
  <2> QED BY <2>1, SoleKept DEF SoleInv
<1> QED BY <1>1, <1>2, AlwaysInv, PTL DEF Spec

\* A user who issues one request at a time sees startBot fail, while Docker
\* works, only when a running container of another bot has the port, for any
\* bots, ports, containers and readers, whatever a crash, dying containers and
\* late events left behind.
THEOREM StartsSucceed == Spec => []NoStartFailsAlone
<1>1. SoleInv => NoStartFailsAlone
  BY DEF SoleInv, Sole, OnTrack, NoStartFailsAlone
<1> QED BY <1>1, AlwaysSole, PTL

-----------------------------------------------------------------------------
(* What deleteBot leaves behind                                            *)

\* A container that its row has to know: one whose port was taken is left as
\* it was created, and only where ports are shared.
Owed(c) == Exists(c) /\ (ctr[c].state # "created" \/ PortsDiffer)

\* A container belongs to a live row that records it, or is about to.
Homed(c) ==
  /\ row[ctr[c].bot].state = "live"
  /\ \/ row[ctr[c].bot].cid = c
     \/ \E r \in Reqs : req[r].pc \in {"launch", "record"} /\ req[r].cid = c

\* A request that changes a bot has a live row, and a deletion knows the
\* container that its row records until none is left.
Hold(r) ==
  LET q == req[r]
  IN  /\ q.pc \notin {"idle", "look", "sync"} => row[q.bot].state = "live"
      /\ q.pc \in {"delstop", "delremove"} => q.cid = row[q.bot].cid
      /\ q.pc = "erase" => \A c \in Cids : Owed(c) => ctr[c].bot # q.bot

Tracked ==
  /\ boot.phase = "up"
  /\ \A c \in Cids : Owed(c) => Homed(c)
  /\ \A r \in Reqs : Hold(r)

KeepsRows == \A b \in Bots : row'[b].cid = row[b].cid /\ row'[b].state = row[b].state

\* Containers that exist have a bot.
LEMMA HasBot ==
  ASSUME IInv, NEW c \in Cids, Exists(c)
  PROVE  ctr[c].bot \in Bots
BY DEF IInv, Labelled, Exists

\* A step that makes and starts no container owes no more than before.
LEMMA OwedBefore ==
  ASSUME IInv, Fewer, UNCHANGED world, NEW c \in Cids, Owed(c)'
  PROVE  Owed(c) /\ ctr'[c].bot = ctr[c].bot /\ ctr[c].bot \in Bots
<1>1. Exists(c) /\ ctr'[c].bot = ctr[c].bot
  BY DEF Owed, Fewer
<1>2. ctr'[c].state # "created" => ctr[c].state # "created"
  BY DEF Owed, Fewer, Exists
<1>3. PortsDiffer' <=> PortsDiffer
  BY DEF PortsDiffer
<1> QED BY <1>1, <1>2, <1>3, HasBot DEF Owed

\* While a request that changes a bot holds no container, rows record them all.
LEMMA RowsRecord ==
  ASSUME Sole, Tracked, NEW r \in Reqs, Mutating(r), req[r].pc \notin {"launch", "record"},
         NEW c \in Cids, Owed(c)
  PROVE  row[ctr[c].bot].cid = c /\ row[ctr[c].bot].state = "live"
<1>1. ASSUME NEW s \in Reqs, req[s].pc \in {"launch", "record"}
      PROVE  FALSE
  <2>1. Mutating(s)
    BY <1>1 DEF Sole, OnTrack, Mutating
  <2> QED BY <1>1, <2>1 DEF Sole
<1> QED BY <1>1 DEF Tracked, Homed

\* A step that leaves requests, records and existence of rows alone.
LEMMA TrackedApart ==
  ASSUME IInv, Tracked, Fewer, KeepsRows, UNCHANGED <<req, boot, world>>
  PROVE  Tracked'
<1>1. ASSUME NEW c \in Cids, Owed(c)'
      PROVE  Homed(c)'
  <2>1. Owed(c) /\ ctr'[c].bot = ctr[c].bot /\ ctr[c].bot \in Bots
    BY <1>1, OwedBefore
  <2> QED BY <2>1 DEF Tracked, Homed, KeepsRows
<1>2. ASSUME NEW r \in Reqs
      PROVE  Hold(r)'
  <2>1. req[r].pc # "idle" => req[r].bot \in Bots
    BY DEF IInv, InFlight
  <2>2. \A c \in Cids : Owed(c)' => Owed(c) /\ ctr'[c].bot = ctr[c].bot
    BY OwedBefore
  <2> QED BY <2>1, <2>2 DEF Tracked, Hold, KeepsRows
<1> QED BY <1>1, <1>2 DEF Tracked

\* Nobody but the request itself owes anything.
LEMMA OthersHold ==
  ASSUME Sole, NEW r \in Reqs, Mutating(r), \A s \in Reqs \ {r} : req'[s] = req[s]
  PROVE  \A s \in Reqs \ {r} : Hold(s)'
BY DEF Sole, OnTrack, Mutating, Hold

\* A mutating request without a container of its own moves on or ends.
LEMMA TrackedMove ==
  ASSUME IInv, Sole, Tracked, Fewer, KeepsRows, UNCHANGED <<boot, world>>, NEW r \in Reqs, Mutating(r),
         req[r].pc \notin {"launch", "record"},
         Done(r) \/ \E pc \in (Free \cup {"create"}) \ {"delstop", "delremove", "erase"} : Goto(r, pc)
  PROVE  Tracked'
<1>1. /\ \A s \in Reqs \ {r} : req'[s] = req[s]
      /\ \/ req'[r] = Idle
         \/ /\ req'[r].bot = req[r].bot /\ req[r].bot \in Bots /\ req[r].pc \notin {"idle", "look", "sync"}
            /\ req'[r].pc \in (Free \cup {"create"}) \ {"delstop", "delremove", "erase"}
  BY DEF IInv, StateOK, InFlight, Request, Done, Goto, Sole, OnTrack, Mutating
<1>2. ASSUME NEW c \in Cids, Owed(c)'
      PROVE  Homed(c)'
  <2>1. Owed(c) /\ ctr'[c].bot = ctr[c].bot /\ ctr[c].bot \in Bots
    BY <1>2, OwedBefore
  <2> QED BY <2>1, RowsRecord DEF Homed, KeepsRows
<1>3. Hold(r)'
  BY <1>1 DEF Tracked, Hold, KeepsRows, Free, Idle
<1> QED BY <1>1, <1>2, <1>3, OthersHold DEF Tracked

LEMMA StatusKeepsRows ==
  ASSUME IInv, NEW b \in Bots, NEW s, row' = [row EXCEPT ![b].status = s]
  PROVE  KeepsRows
<1>1. row \in [Bots -> Row]
  BY DEF IInv, StateOK
<1> QED BY <1>1 DEF KeepsRows

\* The steps of a request that move it on beside its container.
LEMMA MoveTracked ==
  ASSUME IInv, Sole, Tracked, UNCHANGED world, NEW r \in Reqs,
         \/ StartMark(r) \/ StartInspect(r) \/ StartStopOld(r) \/ StartRemoveOld(r) \/ ClearName(r)
         \/ StartFinish(r) \/ StartFail(r) \/ StopHalt(r) \/ StopFinish(r) \/ ConfigureFinish(r)
  PROVE  Tracked'
<1>1. /\ req[r].pc \in Free \cup {"fail"} /\ boot' = boot
      /\ Done(r) \/ \E pc \in (Free \cup {"create"}) \ {"delstop", "delremove", "erase"} : Goto(r, pc)
  BY DEF StartMark, StartInspect, StartStopOld, StartRemoveOld, ClearName, StartFinish, StartFail, StopHalt,
         StopFinish, ConfigureFinish, At, Free
<1>2. Mutating(r) /\ req[r].pc \notin {"launch", "record"} /\ req[r].bot \in Bots
  BY <1>1 DEF Sole, OnTrack, Mutating, Free, IInv, InFlight
<1>3. KeepsRows
  <2>1. row' = row \/ \E s : row' = [row EXCEPT ![req[r].bot].status = s]
    BY DEF StartMark, StartInspect, StartStopOld, StartRemoveOld, ClearName, StartFinish, StartFail, StopHalt,
           StopFinish, ConfigureFinish
  <2> QED BY <1>2, <2>1, StatusKeepsRows DEF KeepsRows
<1>4. Fewer
  <2>1. \/ ctr' = ctr
        \/ \E c \in Cids : Exists(c) /\ (DockerStop(c) \/ DockerRemove(c))
    BY DEF StartMark, StartInspect, StartStopOld, StartRemoveOld, ClearName, StartFinish, StartFail, StopHalt,
           StopFinish, ConfigureFinish, Exists, Named
  <2> QED BY <2>1, StopsAndRemoves, NoStep DEF IInv
<1> QED BY <1>1, <1>2, <1>3, <1>4, TrackedMove

\* deleteBot stops and removes what the row records: then nothing is left.
LEMMA DeleteTracked ==
  ASSUME IInv, Sole, Tracked, UNCHANGED world, ~Faults, NEW r \in Reqs, DeleteStop(r) \/ DeleteRemove(r)
  PROVE  Tracked'
<1>1. /\ Mutating(r) /\ req[r].pc \in {"delstop", "delremove"} /\ UNCHANGED <<row, boot>>
      /\ req[r].cid = row[req[r].bot].cid
  BY DEF DeleteStop, DeleteRemove, At, Sole, OnTrack, Mutating, Tracked, Hold
<1>2. PICK b \in Bots : b = req[r].bot
  BY <1>1 DEF IInv, InFlight
<1>3. row[b].state = "live" /\ \A c \in Cids : Owed(c) => row[ctr[c].bot].cid = c /\ row[ctr[c].bot].state = "live"
  BY <1>1, <1>2, RowsRecord DEF Tracked, Hold
<1>4. ASSUME Fewer, NEW pc \in {"delremove", "erase"}, Goto(r, pc),
             pc = "erase" => \A c \in Cids : Owed(c)' => ctr'[c].bot # b
      PROVE  Tracked'
  <2>1. /\ \A s \in Reqs \ {r} : req'[s] = req[s]
        /\ req'[r].pc = pc /\ req'[r].bot = b /\ req'[r].cid = req[r].cid
    BY <1>2, <1>4 DEF IInv, StateOK, Request, Goto
  <2>2. Hold(r)'
    BY <1>1, <1>2, <1>3, <1>4, <2>1 DEF Hold
  <2>3. ASSUME NEW c \in Cids, Owed(c)'
        PROVE  Homed(c)'
    BY <1>1, <1>3, <1>4, <2>3, OwedBefore DEF Homed
  <2> QED BY <1>1, <2>1, <2>2, <2>3, OthersHold DEF Tracked
<1>5. CASE ~Exists(req[r].cid) /\ ctr' = ctr /\ Goto(r, "erase")
  <2>0. Fewer
    BY <1>5, NoStep
  <2>1. Fewer /\ \A c \in Cids : Owed(c)' => ctr'[c].bot # b
    BY <1>1, <1>2, <1>3, <1>5, <2>0, OwedBefore DEF Owed
  <2> QED BY <1>4, <1>5, <2>1
<1>6. CASE Exists(req[r].cid) /\ DeleteStop(r)
  <2>1. PICK c \in Cids : c = req[r].cid
    BY <1>6 DEF Exists
  <2>2. DockerStop(c) /\ Goto(r, "delremove")
    BY <1>6, <2>1 DEF DeleteStop
  <2>3. Fewer
    BY <1>6, <2>1, <2>2, StopsAndRemoves DEF IInv
  <2> QED BY <1>4, <2>2, <2>3
<1>7. CASE Exists(req[r].cid) /\ DeleteRemove(r)
  <2>1. PICK c \in Cids : c = req[r].cid
    BY <1>7 DEF Exists
  <2>2. DockerRemove(c) /\ Goto(r, "erase")
    BY <1>7, <2>1 DEF DeleteRemove
  <2>3. Fewer /\ ~Exists(c)'
    BY <1>7, <2>1, <2>2, StopsAndRemoves DEF IInv
  <2>4. \A d \in Cids : Owed(d)' => ctr'[d].bot # b
    BY <1>1, <1>2, <1>3, <2>1, <2>3, OwedBefore DEF Owed
  <2> QED BY <1>4, <2>2, <2>3, <2>4
<1> QED BY <1>5, <1>6, <1>7 DEF DeleteStop, DeleteRemove

LEMMA DeleteRowTracked ==
  ASSUME IInv, Sole, Tracked, UNCHANGED world, NEW r \in Reqs, DeleteRow(r)
  PROVE  Tracked'
<1>1. Mutating(r) /\ req[r].pc = "erase" /\ UNCHANGED <<ctr, boot>> /\ Done(r)
  BY DEF DeleteRow, At, Sole, OnTrack, Mutating
<1>2. PICK b \in Bots : b = req[r].bot
  BY <1>1 DEF IInv, InFlight
<1>3. \A a \in Bots \ {b} : row'[a] = row[a]
  BY <1>2 DEF DeleteRow, IInv, StateOK
<1>4. (\A s \in Reqs \ {r} : req'[s] = req[s]) /\ req'[r] = Idle
  BY <1>1 DEF IInv, StateOK, Done
<1>5. ASSUME NEW c \in Cids, Owed(c)'
      PROVE  Homed(c)'
  <2>1. Owed(c) /\ ctr'[c] = ctr[c] /\ ctr[c].bot \in Bots \ {b}
    BY <1>1, <1>2, <1>5, NoStep, OwedBefore DEF Tracked, Hold
  <2> QED BY <1>1, <1>3, <2>1, RowsRecord DEF Homed
<1>6. Hold(r)'
  BY <1>4 DEF Hold, Idle
<1> QED BY <1>1, <1>4, <1>5, <1>6, OthersHold DEF Tracked

LEMMA CreateTracked ==
  ASSUME IInv, Sole, Tracked, UNCHANGED world, ~Faults, NEW r \in Reqs, CreateContainer(r)
  PROVE  Tracked'
<1>1. /\ Mutating(r) /\ req[r].pc = "create" /\ Named(KeyOf[req[r].bot]) = {} /\ UNCHANGED <<row, boot>>
  BY DEF CreateContainer, At, Sole, OnTrack, Mutating
<1>2. PICK c \in Cids, pc \in {"record", "launch"} :
        /\ ctr' = [ctr EXCEPT ![c] = [bot |-> req[r].bot, state |-> "created"]]
        /\ req' = [req EXCEPT ![r].cid = c, ![r].pc = pc]
  BY <1>1 DEF CreateContainer, FreshId
<1>3. PICK b \in Bots : b = req[r].bot
  BY <1>1 DEF IInv, InFlight
<1>4. ctr'[c].bot = b /\ \A d \in Cids \ {c} : ctr'[d] = ctr[d]
  BY <1>2, <1>3 DEF IInv, StateOK
<1>5. /\ \A s \in Reqs \ {r} : req'[s] = req[s]
      /\ req'[r].pc = pc /\ req'[r].cid = c /\ req'[r].bot = b
  BY <1>2, <1>3 DEF IInv, StateOK, Request
<1>6. row[b].state = "live"
  BY <1>1, <1>3 DEF Tracked, Hold
<1>7. ASSUME NEW d \in Cids, Owed(d)'
      PROVE  Homed(d)'
  <2>1. CASE d = c
    BY <1>1, <1>4, <1>5, <1>6, <2>1 DEF Homed
  <2>2. CASE d # c
    <3>1. Owed(d) /\ ctr'[d] = ctr[d]
      BY <1>4, <1>7, <2>2 DEF Owed, Exists, PortsDiffer
    <3> QED BY <1>1, <3>1, RowsRecord DEF Homed
  <2> QED BY <2>1, <2>2
<1>8. Hold(r)'
  BY <1>1, <1>5, <1>6 DEF Hold
<1> QED BY <1>1, <1>5, <1>7, <1>8, OthersHold DEF Tracked

\* A port that is taken is shared by bots of different names.
LEMMA TakenIsShared ==
  ASSUME IInv, NEW b \in Bots, PortTaken(b)
  PROVE  ~PortsDiffer
<1>1. PICK c \in Cids : Running(c) /\ KeyOf[ctr[c].bot] # KeyOf[b] /\ world.port[ctr[c].bot] = world.port[b]
  BY DEF PortTaken
<1>2. ctr[c].bot \in Bots
  BY <1>1 DEF Running, IInv, Labelled
<1> QED BY <1>1, <1>2 DEF PortsDiffer

\* Between them, launch and record keep the new container homed; one that is
\* refused its port has not run.
LEMMA LaunchTracked ==
  ASSUME IInv, Sole, Tracked, UNCHANGED world, ~Faults, NEW r \in Reqs, StartLaunch(r)
  PROVE  Tracked'
<1>1. /\ Mutating(r) /\ req[r].pc = "launch" /\ Exists(req[r].cid) /\ UNCHANGED <<row, boot>>
      /\ row[req[r].bot].state = "live" /\ req[r].bot \in Bots
      /\ ctr[req[r].cid].state = "created"
  BY DEF StartLaunch, At, Sole, OnTrack, Mutating, Tracked, Hold, IInv, InFlight
<1>2. PICK c \in Cids : c = req[r].cid
  BY <1>1 DEF Exists
<1>3. PICK pc \in {"record", "fail"} :
        /\ Goto(r, pc)
        /\ IF pc = "record" THEN ctr' = [ctr EXCEPT ![c].state = "running"]
                            ELSE ctr' = ctr /\ PortTaken(req[r].bot)
  BY <1>1, <1>2 DEF StartLaunch
<1>4. \A d \in Cids : ctr'[d].bot = ctr[d].bot /\ (d # c => ctr'[d] = ctr[d])
  BY <1>1, <1>2, <1>3 DEF IInv, StateOK
<1>5. /\ \A s \in Reqs \ {r} : req'[s] = req[s]
      /\ req'[r].pc = pc /\ req'[r].cid = c /\ req'[r].bot = req[r].bot
  BY <1>2, <1>3 DEF IInv, StateOK, Request, Goto
<1>6. ASSUME NEW d \in Cids, Owed(d)'
      PROVE  Homed(d)'
  <2>1. PortsDiffer' <=> PortsDiffer
    BY DEF PortsDiffer
  <2>2. CASE d = c /\ pc = "record"
    BY <1>1, <1>2, <1>4, <1>5, <2>2, HasBot DEF Homed, IInv, InFlight
  <2>3. ~(d = c /\ pc = "fail")
    BY <1>1, <1>2, <1>3, <1>6, <2>1, TakenIsShared DEF Owed
  <2>4. CASE d # c
    <3>1. Homed(d)
      BY <1>4, <1>6, <2>1, <2>4 DEF Owed, Exists, Tracked
    <3>2. \A s \in Reqs : req[s].pc \in {"launch", "record"} => s = r
      BY <1>1 DEF Sole, OnTrack, Mutating
    <3>3. row[ctr[d].bot].cid = d
      BY <1>2, <2>4, <3>1, <3>2 DEF Homed
    <3> QED BY <1>1, <1>4, <3>1, <3>3 DEF Homed
  <2> QED BY <2>2, <2>3, <2>4
<1>7. Hold(r)'
  BY <1>1, <1>5 DEF Hold
<1> QED BY <1>1, <1>5, <1>6, <1>7, OthersHold DEF Tracked

LEMMA RecordTracked ==
  ASSUME IInv, Sole, Tracked, UNCHANGED world, NEW r \in Reqs, RecordContainer(r)
  PROVE  Tracked'
<1>1. /\ Mutating(r) /\ req[r].pc = "record" /\ Exists(req[r].cid) /\ UNCHANGED <<ctr, boot>>
      /\ row[req[r].bot].state = "live" /\ req[r].bot \in Bots /\ req[r].cid \in Cids
      /\ ctr[req[r].cid].bot = req[r].bot
  BY DEF RecordContainer, At, Sole, OnTrack, Mutating, Tracked, Hold, IInv, InFlight
<1>2. PICK b \in Bots, c \in Cids : b = req[r].bot /\ c = req[r].cid
  BY <1>1
<1>3. /\ row'[b].cid = c /\ row'[b].state = "live"
      /\ \A a \in Bots \ {b} : row'[a] = row[a]
  BY <1>1, <1>2 DEF RecordContainer, IInv, StateOK
<1>4. /\ \A s \in Reqs \ {r} : req'[s] = req[s]
      /\ \/ req'[r] = Idle
         \/ req'[r].pc = "finish" /\ req'[r].bot = b
  BY <1>2 DEF RecordContainer, IInv, StateOK, Request, Done, Goto
<1>5. ASSUME NEW d \in Cids, Owed(d)'
      PROVE  Homed(d)'
  <2>1. Exists(d) /\ ctr'[d] = ctr[d] /\ ctr[d].bot \in Bots /\ Homed(d)
    BY <1>1, <1>5, NoStep, OwedBefore DEF Owed, Tracked
  <2>2. CASE ctr[d].bot = b
    <3>1. d = c
      BY <1>1, <1>2, <2>1, <2>2 DEF Sole, OneOfAName
    <3> QED BY <1>3, <2>1, <2>2, <3>1 DEF Homed
  <2>3. CASE ctr[d].bot # b
    <3>1. \A s \in Reqs : req[s].pc \in {"launch", "record"} => s = r
      BY <1>1 DEF Sole, OnTrack, Mutating
    <3>2. row[ctr[d].bot].cid = d /\ row[ctr[d].bot].state = "live"
      BY <1>1, <1>2, <2>1, <2>3, <3>1 DEF Homed
    <3> QED BY <1>3, <2>1, <2>3, <3>2 DEF Homed
  <2> QED BY <2>2, <2>3
<1>6. Hold(r)'
  BY <1>3, <1>4 DEF Hold, Idle
<1> QED BY <1>1, <1>4, <1>5, <1>6, OthersHold DEF Tracked

LEMMA ListingTracked ==
  ASSUME IInv, Sole, Tracked, UNCHANGED world, NEW r \in Reqs, ListLook(r) \/ ListSync(r)
  PROVE  Tracked'
<1>0. DOMAIN req = Reqs
  BY DEF IInv, StateOK
<1>1. /\ UNCHANGED <<ctr, boot>> /\ \A s \in Reqs \ {r} : req'[s] = req[s]
      /\ req[r].pc \in {"look", "sync"}
  BY <1>0 DEF ListLook, ListSync, Done, At
<1>2. req'[r].pc \in {"idle", "sync"}
  <2>1. CASE Done(r)
    BY <1>0, <2>1 DEF Done, Idle
  <2>2. CASE ~Done(r)
    <3>1. PICK v : req' = [req EXCEPT ![r].pc = "sync", ![r].val = v]
      BY <2>2 DEF ListLook, ListSync
    <3> QED BY <1>1, <3>1 DEF IInv, StateOK, Request
  <2> QED BY <2>1, <2>2
<1>3. KeepsRows
  <2>1. row' = row \/ \E s : row' = [row EXCEPT ![req[r].bot].status = s]
    BY DEF ListLook, ListSync
  <2>2. req[r].bot \in Bots
    BY <1>1 DEF IInv, InFlight
  <2> QED BY <2>1, <2>2, StatusKeepsRows DEF KeepsRows
<1>4. ASSUME NEW c \in Cids, Owed(c)'
      PROVE  Homed(c)'
  <2>1. ctr' = ctr /\ ctr[c].bot \in Bots /\ Homed(c)
    BY <1>1, <1>4, NoStep, OwedBefore DEF Tracked
  <2>2. CASE row[ctr[c].bot].cid = c
    BY <1>3, <2>1, <2>2 DEF Homed, KeepsRows
  <2>3. CASE \E s \in Reqs : req[s].pc \in {"launch", "record"} /\ req[s].cid = c
    <3>1. PICK s \in Reqs : req[s].pc \in {"launch", "record"} /\ req[s].cid = c
      BY <2>3
    <3>2. req'[s] = req[s]
      BY <1>1, <3>1
    <3> QED BY <1>3, <2>1, <3>1, <3>2 DEF Homed, KeepsRows
  <2> QED BY <2>1, <2>2, <2>3 DEF Homed
<1>5. ASSUME NEW s \in Reqs \ {r}
      PROVE  Hold(s)'
  <2>1. req[s].pc # "idle" => req[s].bot \in Bots
    BY DEF IInv, InFlight
  <2>2. \A c \in Cids : Owed(c)' => Owed(c) /\ ctr'[c].bot = ctr[c].bot
    BY <1>1, NoStep, OwedBefore
  <2> QED BY <1>1, <1>3, <2>1, <2>2 DEF Tracked, Hold, KeepsRows
<1>6. Hold(r)'
  BY <1>2 DEF Hold
<1> QED BY <1>1, <1>4, <1>5, <1>6 DEF Tracked

LEMMA StepTracked ==
  ASSUME IInv, Sole, Tracked, UNCHANGED world, ~Faults, NEW r \in Reqs, RequestStep(r)
  PROVE  Tracked'
BY MoveTracked, DeleteTracked, DeleteRowTracked, CreateTracked, LaunchTracked, RecordTracked, ListingTracked
   DEF RequestStep

LEMMA ArrivalTracked ==
  ASSUME IInv, Sole, Tracked, Serial, UNCHANGED world, NEW r \in Reqs, NEW b \in Bots, RequestArrives(r, b)
  PROVE  Tracked'
<1>0. DOMAIN req = Reqs /\ row \in [Bots -> Row]
  BY DEF IInv, StateOK
<1>1. UNCHANGED <<ctr, boot>>
  BY DEF RequestArrives, CreateRow, CreateDraft, ConfigureRead, StartRead, StopRead, DeleteRead, ListRead, ReadRow
<1>2. ASSUME NEW c \in Cids, Owed(c)'
      PROVE  Owed(c) /\ ctr[c].bot \in Bots
  BY <1>1, <1>2, NoStep, OwedBefore
<1>3. ASSUME row[b].state = "none", NEW c \in Cids, Owed(c)
      PROVE  ctr[c].bot \in Bots \ {b} /\ Homed(c)
  BY <1>3, HasBot DEF Tracked, Homed, Owed
<1>4. CASE CreateDraft(r, b)
  <2>1. req' = req /\ row[b].state = "none" /\ row' = [row EXCEPT ![b].state = "live"]
    BY <1>4 DEF CreateDraft
  <2>2. \A a \in Bots : row'[a].cid = row[a].cid /\ (a # b => row'[a] = row[a]) /\ row'[b].state = "live"
    BY <1>0, <2>1
  <2>3. ASSUME NEW c \in Cids, Owed(c)'
        PROVE  Homed(c)'
    BY <1>1, <1>2, <1>3, <2>1, <2>2, <2>3 DEF Homed
  <2>4. ASSUME NEW s \in Reqs
        PROVE  Hold(s)'
    <3>1. req[s].pc # "idle" => req[s].bot \in Bots
      BY DEF IInv, InFlight
    <3> QED BY <1>1, <1>2, <2>1, <2>2, <3>1 DEF Tracked, Hold
  <2> QED BY <1>1, <2>3, <2>4 DEF Tracked
<1>5. CASE ListRead(r, b)
  <2>1. /\ row' = row /\ req'[r].pc = "look" /\ req[r].pc = "idle"
        /\ \A s \in Reqs \ {r} : req'[s] = req[s]
    BY <1>0, <1>5 DEF ListRead, ReadRow, At
  <2>2. ASSUME NEW c \in Cids, Owed(c)'
        PROVE  Homed(c)'
    <3>1. Homed(c)
      BY <1>2, <2>2 DEF Tracked
    <3>2. \A s \in Reqs : req[s].pc \in {"launch", "record"} => req'[s] = req[s]
      BY <2>1
    <3> QED BY <1>1, <2>1, <3>1, <3>2 DEF Homed
  <2>3. \A s \in Reqs : Hold(s)'
    BY <1>1, <1>2, <2>1 DEF Tracked, Hold
  <2> QED BY <1>1, <2>2, <2>3 DEF Tracked
<1>6. CASE ~CreateDraft(r, b) /\ ~ListRead(r, b)
  <2>1. \A s \in Reqs : ~Mutating(s)
    BY <1>6 DEF RequestArrives, CreateRow, ConfigureRead, StartRead, StopRead, DeleteRead, MayMutate, Mutating
  <2>2. \A s \in Reqs : req[s].pc \in {"idle", "look", "sync"}
    BY <2>1 DEF Sole, OnTrack, Mutating
  <2>3. \A c \in Cids : Owed(c) => row[ctr[c].bot].cid = c /\ row[ctr[c].bot].state = "live"
    BY <2>2 DEF Tracked, Homed
  <2>4. \A s \in Reqs \ {r} : req'[s] = req[s]
    BY <1>0, <1>6 DEF RequestArrives, CreateRow, ConfigureRead, StartRead, StopRead, DeleteRead, ReadRow
  <2>5. \A s \in Reqs \ {r} : Hold(s)'
    BY <2>2, <2>4 DEF Hold
  <2>6. CASE CreateRow(r, b)
    <3>1. /\ row[b].state = "none" /\ row'[b].state = "live" /\ \A a \in Bots \ {b} : row'[a] = row[a]
          /\ req'[r].pc = "clear" /\ req'[r].bot = b
      BY <1>0, <2>6 DEF CreateRow
    <3>2. ASSUME NEW c \in Cids, Owed(c)'
          PROVE  Homed(c)'
      BY <1>1, <1>2, <1>3, <2>3, <3>1, <3>2 DEF Homed
    <3>3. Hold(r)'
      BY <3>1 DEF Hold
    <3> QED BY <1>1, <2>5, <3>2, <3>3 DEF Tracked
  <2>7. CASE ~CreateRow(r, b)
    <3>1. /\ row' = row /\ row[b].state = "live" /\ req'[r].bot = b /\ req'[r].cid = row[b].cid
          /\ req'[r].pc \in {"configured", "mark", "stopped", "halt", "delstop", "erase"}
          /\ req'[r].pc = "erase" => row[b].cid = None
      BY <1>0, <1>6, <2>7 DEF RequestArrives, ConfigureRead, StartRead, StopRead, DeleteRead, ReadRow, Live
    <3>2. \A c \in Cids : Owed(c)' => Homed(c)'
      BY <1>1, <1>2, <2>3, <3>1 DEF Homed
    <3>3. Hold(r)'
      <4>1. req'[r].pc = "erase" => \A c \in Cids : Owed(c) => ctr[c].bot # b
        BY <2>3, <3>1, BotLifecycleAssumption
      <4> QED BY <1>1, <1>2, <3>1, <4>1 DEF Hold
    <3> QED BY <1>1, <2>5, <3>2, <3>3 DEF Tracked
  <2> QED BY <2>6, <2>7
<1> QED BY <1>4, <1>5, <1>6

LEMMA TrackedKept ==
  ASSUME IInv, Sole, Tracked, Serial, ~Faults, ~Crashes, [Next /\ UNCHANGED world]_<<vars, world>>
  PROVE  Tracked'
<1>0. UNCHANGED world
  OBVIOUS
<1>1. CASE UNCHANGED <<row, ctr, req, boot>>
  BY <1>0, <1>1, TrackedApart, NoStep DEF KeepsRows
<1>2. ASSUME NEW c \in Cids, ContainerDies(c) \/ ContainerRestarts(c)
      PROVE  Tracked'
  <2>1. PICK s \in {"restarting", "running"} : ctr' = [ctr EXCEPT ![c].state = s]
    BY <1>2 DEF ContainerDies, ContainerRestarts
  <2>2. Exists(c) /\ ctr[c].state # "created" /\ UNCHANGED <<row, req, boot>>
    BY <1>2 DEF ContainerDies, ContainerRestarts, Exists
  <2>3. ctr \in [Cids -> [bot : Bots \cup {None}, state : CtrState]]
    BY DEF IInv, StateOK
  <2>4. ctr'[c].bot = ctr[c].bot /\ \A d \in Cids \ {c} : ctr'[d] = ctr[d]
    BY <2>1, <2>3
  <2>5. Fewer
    BY <2>2, <2>4 DEF Fewer, Exists
  <2> QED BY <1>0, <2>2, <2>5, TrackedApart DEF KeepsRows
<1>3. CASE EventStep \/ \E b \in Bots : CronWrite(b)
  <2>1. UNCHANGED <<ctr, req, boot>>
    BY <1>3 DEF EventStep, EventLookup, EventWrite, CronWrite
  <2>2. row' = row \/ \E b \in Bots : \E s : row' = [row EXCEPT ![b].status = s]
    <3>1. \A e \in ev : e.bot # None => e.bot \in Bots
      BY DEF IInv, StateOK
    <3> QED BY <1>3, <3>1 DEF EventStep, EventLookup, EventWrite, CronWrite
  <2>3. KeepsRows
    BY <2>2, StatusKeepsRows DEF KeepsRows
  <2> QED BY <1>0, <2>1, <2>3, TrackedApart, NoStep
<1>4. CASE StreamDrop \/ StreamConnect \/ CronList
  BY <1>1, <1>4 DEF StreamDrop, StreamConnect, CronList
<1>5. ~Crash /\ ~ReconcileKeys /\ (\A b \in Bots : ~ReconcileBot(b)) /\ ~Listen
  BY DEF Crash, ReconcileKeys, ReconcileBot, Listen, Tracked
<1> QED BY <1>0, <1>1, <1>2, <1>3, <1>4, <1>5, ArrivalTracked, StepTracked DEF Next, vars

TrackedInv == Serial /\ ~Faults /\ ~Crashes => Tracked

\* deleteBot leaves no container behind that ever ran, and none at all where no
\* two bots share a port, for any bots, containers and readers, when requests
\* that change a bot come one at a time, Docker works and the process does not
\* crash: containers may die and events come late or never.
THEOREM DeletedLeavesNothing == Spec => []NoContainerAfterDelete
<1>1. Init => TrackedInv
  BY DEF Init, TrackedInv, Tracked, Homed, Hold, Idle, Owed, Exists, Booted
<1>2. IInv /\ SoleInv /\ TrackedInv /\ [Next /\ UNCHANGED world]_<<vars, world>> => TrackedInv'
  <2> SUFFICES ASSUME IInv, SoleInv, TrackedInv, [Next /\ UNCHANGED world]_<<vars, world>>,
                      Serial', ~Faults', ~Crashes'
               PROVE  Tracked'
    BY DEF TrackedInv
  <2>1. Serial /\ ~Faults /\ ~Crashes
    BY DEF Serial, Faults, Crashes
  <2> QED BY <2>1, TrackedKept DEF TrackedInv, SoleInv
<1>3. TrackedInv => NoContainerAfterDelete
  BY DEF TrackedInv, Tracked, Homed, Owed, NoContainerAfterDelete
<1> QED BY <1>1, <1>2, <1>3, AlwaysInv, AlwaysSole, PTL DEF Spec

-----------------------------------------------------------------------------
(* What startup reconciliation reports                                     *)

\* A bot reported as running has a running container.
Real(b) == row[b].status = "running" => row[b].cid # None /\ Running(row[b].cid)

\* Events that come in during the startup are of containers that run, and the
\* row a handler has looked up records that container.
EventReal(e) ==
  /\ e.cid \in Cids /\ Running(e.cid)
  /\ e.bot # None => row[e.bot].cid = e.cid

\* A row that is still to be synced has not changed since it was listed, except
\* that an event of its running container may have written `running`.
Unsynced(b) ==
  /\ row[b].cid = boot.rows[b].cid
  /\ row[b].status = "running" /\ boot.rows[b].status # "running" => Real(b)

\* The state between the crash and the first request. No cron is under way,
\* and the list of keys has those of all containers.
Waking ==
  /\ cron = {}
  /\ \A e \in ev : EventReal(e)
  /\ boot.todo \subseteq LiveRows
  /\ boot.phase = "sync" => \A c \in Cids : Exists(c) => KeyOf[ctr[c].bot] \in boot.keys
  /\ \A b \in LiveRows : IF b \in boot.todo THEN Unsynced(b) ELSE Real(b)

WakingInv == ~Faults => (boot.phase # "up" => Waking)

\* An event is looked up or written: it is of a container that runs.
LEMMA EventWaking ==
  ASSUME IInv, Waking, NEW e \in ev, EventLookup(e) \/ EventWrite(e)
  PROVE  Waking'
<1>0. UNCHANGED <<ctr, cron, boot>> /\ row \in [Bots -> Row] /\ EventReal(e)
      /\ (e.bot # None => e.bot \in Bots)
  BY DEF EventLookup, EventWrite, IInv, StateOK, Waking
<1>1. \A b \in Bots : /\ row'[b].cid = row[b].cid /\ row'[b].state = row[b].state
                      /\ row'[b].status = row[b].status
                           \/ row'[b].cid = e.cid
  <2>1. CASE EventLookup(e)
    BY <2>1 DEF EventLookup
  <2>2. CASE EventWrite(e)
    BY <1>0, <2>2 DEF EventWrite, EventReal
  <2> QED BY <2>1, <2>2
<1>2. \A d \in ev' : EventReal(d)'
  <2>1. ASSUME NEW d \in ev PROVE EventReal(d)'
    <3>1. EventReal(d) /\ (d.bot # None => d.bot \in Bots)
      BY DEF Waking, IInv, StateOK
    <3> QED BY <1>0, <1>1, <3>1 DEF EventReal, Running
  <2>2. ASSUME NEW b \in LiveRows, row[b].cid = e.cid
        PROVE  EventReal([e EXCEPT !.bot = b])'
    <3>1. e \in Handler
      BY DEF IInv, StateOK
    <3>2. [e EXCEPT !.bot = b].cid = e.cid /\ [e EXCEPT !.bot = b].bot = b
      BY <3>1
    <3> QED BY <1>0, <1>1, <2>2, <3>2 DEF EventReal, Running, LiveRows
  <2> QED BY <2>1, <2>2 DEF EventLookup, EventWrite
<1>3. LiveRows' = LiveRows
  BY <1>1 DEF LiveRows, Live
<1>4. e.cid # None
  BY <1>0, BotLifecycleAssumption DEF EventReal
<1>5. \A b \in Bots : Real(b) => Real(b)'
  BY <1>0, <1>1, <1>4 DEF Real, Running, EventReal
<1>6. ASSUME NEW b \in LiveRows, b \in boot.todo
      PROVE  Unsynced(b)'
  <2>1. Unsynced(b) /\ b \in Bots
    BY <1>6 DEF Waking, LiveRows
  <2>2. CASE row'[b].status = row[b].status
    BY <1>0, <1>1, <1>5, <2>1, <2>2 DEF Unsynced
  <2>3. CASE row'[b].cid = e.cid
    BY <1>0, <1>1, <1>4, <2>1, <2>3 DEF Unsynced, Real, Running, EventReal
  <2> QED BY <1>1, <2>1, <2>2, <2>3
<1>7. ASSUME NEW b \in LiveRows, b \notin boot.todo
      PROVE  Real(b)'
  BY <1>5, <1>7 DEF Waking, LiveRows
<1> QED BY <1>0, <1>2, <1>3, <1>6, <1>7 DEF Waking, Exists

\* A container that dies or restarts keeps its `running` flag.
LEMMA DaemonWaking ==
  ASSUME IInv, Waking, NEW c \in Cids, ContainerDies(c) \/ ContainerRestarts(c)
  PROVE  Waking'
<1>1. PICK s \in {"restarting", "running"} : ctr' = [ctr EXCEPT ![c].state = s]
  BY DEF ContainerDies, ContainerRestarts
<1>2. UNCHANGED <<row, cron, boot>> /\ Running(c) /\ Exists(c)
  BY DEF ContainerDies, ContainerRestarts, Running, Exists
<1>3. ctr \in [Cids -> [bot : Bots \cup {None}, state : CtrState]]
  BY DEF IInv, StateOK
<1>4. ctr'[c].bot = ctr[c].bot /\ ctr'[c].state = s /\ \A d \in Cids \ {c} : ctr'[d] = ctr[d]
  BY <1>1, <1>3
<1>5. \A d \in Cids : /\ Running(d)' <=> Running(d)
                      /\ Exists(d)' <=> Exists(d)
                      /\ ctr'[d].bot = ctr[d].bot
  BY <1>2, <1>4 DEF Running, Exists
<1>6. \A b \in Bots : row[b].cid \in Cids \cup {None}
  BY DEF IInv, StateOK
<1>7. \A b \in Bots : Real(b) => Real(b)'
  BY <1>2, <1>5, <1>6 DEF Real
<1>8. ASSUME NEW e \in ev' PROVE EventReal(e)'
  <2>1. CASE e \in ev
    BY <1>2, <1>5, <2>1 DEF Waking, EventReal
  <2>2. CASE e \notin ev
    <3>1. e.cid = c /\ e.bot = None
      BY <2>2 DEF ContainerDies, ContainerRestarts, Emit
    <3> QED BY <1>2, <1>5, <3>1 DEF EventReal
  <2> QED BY <2>1, <2>2
<1>9. LiveRows' = LiveRows /\ LiveRows \subseteq Bots
  BY <1>2 DEF LiveRows, Live
<1>10. ASSUME NEW b \in LiveRows
       PROVE  IF b \in boot.todo THEN Unsynced(b)' ELSE Real(b)'
  BY <1>2, <1>7, <1>9 DEF Waking, Unsynced
<1> QED BY <1>2, <1>5, <1>8, <1>9, <1>10 DEF Waking

\* The process has just died, and the rows are listed.
LEMMA CrashWaking == ASSUME Crash PROVE Waking'
BY DEF Crash, Waking, LiveRows, Live, Unsynced

\* The listing of containers, while Docker answers.
LEMMA KeysWaking ==
  ASSUME IInv, Waking, ~Faults, ReconcileKeys
  PROVE  Waking'
<1>1. UNCHANGED <<row, ctr, ev, cron>>
      /\ boot' = [boot EXCEPT !.phase = "sync",
                              !.keys = {KeyOf[ctr[c].bot] : c \in {d \in Cids : Exists(d)}}]
  BY DEF ReconcileKeys
<1>2. boot'.phase = "sync" /\ boot'.todo = boot.todo /\ boot'.rows = boot.rows
      /\ boot'.keys = {KeyOf[ctr[c].bot] : c \in {d \in Cids : Exists(d)}}
  BY <1>1 DEF IInv, StateOK
<1>3. LiveRows' = LiveRows
  BY <1>1 DEF LiveRows, Live
<1> QED
  BY <1>1, <1>2, <1>3 DEF Waking, EventReal, Unsynced, Real, Running, Exists

\* A row whose recorded container runs keeps it, and one whose does not is not
\* reported as running.
LEMMA BotWaking ==
  ASSUME IInv, Waking, ~Faults, NEW b \in Bots, ReconcileBot(b)
  PROVE  Waking'
<1> DEFINE old == boot.rows[b]
           Gone == row' = [row EXCEPT ![b].cid = None, ![b].status = "stopped"]
<1>0. /\ UNCHANGED <<ctr, ev, cron>> /\ row \in [Bots -> Row] /\ boot.phase = "sync" /\ b \in boot.todo
      /\ boot'.phase = "sync" /\ boot'.todo = boot.todo \ {b}
      /\ boot'.rows = boot.rows /\ boot'.keys = boot.keys
  BY DEF ReconcileBot, IInv, StateOK
<1>1. PICK has \in BOOLEAN : SyncBotStatus(b, old, has) /\ (has <=> Exists(old.cid))
  BY DEF ReconcileBot
<1>2. /\ \A a \in Bots \ {b} : row'[a] = row[a]
      /\ row'[b].state = row[b].state
  BY <1>0, <1>1 DEF SyncBotStatus
<1>3. LiveRows' = LiveRows /\ LiveRows \subseteq Bots
  BY <1>0, <1>2 DEF LiveRows, Live
<1>4. ASSUME Live(b)
      PROVE  Real(b)' /\ (row[b].cid \in Cids /\ Running(row[b].cid) => row'[b].cid = row[b].cid)
  <2>1. Unsynced(b)
    BY <1>0, <1>4 DEF Waking, LiveRows
  <2>2. row[b].cid = old.cid /\ row[b].cid \in Cids \cup {None}
    BY <2>1 DEF Unsynced, IInv, StateOK
  <2>3. row[b].cid \in Cids /\ Running(row[b].cid) => Exists(old.cid) /\ KeyOf[b] \in boot.keys
    <3>1. row[b].cid \in Cids => ctr[row[b].cid].bot = b
      BY BotLifecycleAssumption DEF IInv, RecordedContainerIsOwn
    <3> QED BY <1>0, <2>2, <3>1 DEF Waking, Exists, Running
  <2>4. CASE ~(row[b].cid \in Cids /\ Running(row[b].cid))
    <3>1. row[b].status = "running" => old.status = "running"
      BY <2>1, <2>2, <2>4 DEF Unsynced, Real
    <3>2. row'[b].status # "running"
      BY <1>0, <1>1, <2>2, <2>4, <3>1 DEF SyncBotStatus, Exists
    <3> QED BY <2>4, <3>2 DEF Real
  <2>5. CASE row[b].cid \in Cids /\ Running(row[b].cid)
    <3>1. row'[b].cid = row[b].cid
      BY <1>0, <1>1, <2>2, <2>3, <2>5 DEF SyncBotStatus
    <3>2. row'[b].cid # None
      BY <2>5, <3>1, BotLifecycleAssumption
    <3> QED BY <1>0, <2>5, <3>1, <3>2 DEF Real, Running
  <2> QED BY <2>4, <2>5
<1>5. ASSUME NEW e \in ev PROVE EventReal(e)'
  <2>1. EventReal(e) /\ (e.bot # None => e.bot \in Bots)
    BY DEF Waking, IInv, StateOK
  <2>2. e.bot = b => row'[b].cid = row[b].cid
    <3>1. Live(b)
      BY <1>0 DEF Waking, LiveRows
    <3>2. e.bot = b => row[b].cid = e.cid
      BY <2>1, BotLifecycleAssumption DEF EventReal
    <3> QED BY <1>4, <2>1, <3>1, <3>2 DEF EventReal
  <2> QED BY <1>0, <1>2, <2>1, <2>2 DEF EventReal, Running
<1>6. \A a \in LiveRows : a \in boot.todo \ {b} => Unsynced(a)'
  BY <1>0, <1>2, <1>3 DEF Waking, Unsynced, Real, Running
<1>7. \A a \in LiveRows : a \notin boot.todo \ {b} => Real(a)'
  BY <1>0, <1>2, <1>3, <1>4 DEF Waking, Real, Running, LiveRows
<1> QED BY <1>0, <1>3, <1>5, <1>6, <1>7 DEF Waking, Exists

\* No request is served during the startup, and none goes back to it.
LEMMA RequestsWait ==
  ASSUME NEW r \in Reqs, RequestStep(r) \/ \E b \in Bots : RequestArrives(r, b)
  PROVE  boot.phase = "up" /\ boot' = boot
<1>1. ASSUME NEW b \in Bots, RequestArrives(r, b)
      PROVE  boot.phase = "up" /\ boot' = boot
  BY <1>1 DEF At, RequestArrives, CreateRow, CreateDraft, ConfigureRead, StartRead, StopRead, DeleteRead,
     ListRead, ReadRow
<1>2. CASE StartMark(r) \/ StartInspect(r) \/ StartStopOld(r) \/ StartRemoveOld(r) \/ ClearName(r)
  BY <1>2 DEF At, StartMark, StartInspect, StartStopOld, StartRemoveOld, ClearName
<1>3. CASE CreateContainer(r) \/ StartLaunch(r) \/ RecordContainer(r) \/ StartFinish(r) \/ StartFail(r)
  BY <1>3 DEF At, CreateContainer, StartLaunch, RecordContainer, StartFinish, StartFail
<1>4. CASE StopHalt(r) \/ StopFinish(r) \/ DeleteStop(r) \/ DeleteRemove(r) \/ DeleteRow(r)
  BY <1>4 DEF At, StopHalt, StopFinish, DeleteStop, DeleteRemove, DeleteRow
<1>5. CASE ListLook(r) \/ ListSync(r) \/ ConfigureFinish(r)
  BY <1>5 DEF At, ListLook, ListSync, ConfigureFinish
<1> QED BY <1>1, <1>2, <1>3, <1>4, <1>5 DEF RequestStep

LEMMA WakingKept ==
  ASSUME IInv, ~Faults, boot.phase # "up" => Waking, [Next /\ UNCHANGED world]_<<vars, world>>,
         boot'.phase # "up"
  PROVE  Waking'
<1>1. CASE UNCHANGED <<row, ctr, ev, cron, boot>> /\ Waking
  BY <1>1 DEF Waking, LiveRows, Live, Unsynced, Real, EventReal, Running, Exists
<1>2. CASE Crash
  BY <1>2, CrashWaking
<1>3. boot' = boot => Waking
  OBVIOUS
<1>4. ASSUME NEW b \in Bots, ReconcileBot(b)
      PROVE  Waking'
  BY <1>4, BotWaking DEF ReconcileBot
<1>5. CASE ReconcileKeys
  BY <1>5, KeysWaking DEF ReconcileKeys
<1>6. ~Listen
  BY DEF Listen, Booted
<1>7. ASSUME NEW r \in Reqs, RequestStep(r) \/ \E b \in Bots : RequestArrives(r, b)
      PROVE  FALSE
  BY <1>7, RequestsWait
<1>8. ASSUME NEW c \in Cids, ContainerDies(c) \/ ContainerRestarts(c)
      PROVE  Waking'
  BY <1>3, <1>8, DaemonWaking DEF ContainerDies, ContainerRestarts
<1>9. CASE EventStep
  BY <1>3, <1>9, EventWaking DEF EventStep, EventLookup, EventWrite
<1>10. CASE StreamDrop \/ StreamConnect
  BY <1>1, <1>3, <1>10 DEF StreamDrop, StreamConnect
<1>11. ~CronList /\ \A b \in Bots : ~CronWrite(b)
  BY <1>3 DEF CronList, CronWrite, Waking
<1>12. CASE UNCHANGED vars
  BY <1>1, <1>3, <1>12 DEF vars
<1> QED
  BY <1>2, <1>4, <1>5, <1>6, <1>7, <1>8, <1>9, <1>10, <1>11, <1>12 DEF Next

\* While Docker answers, startup reconciliation reports no bot as running whose
\* container does not run, for any bots and containers, whatever a crash left
\* behind and with containers dying and events arriving during the startup.
THEOREM ReconciliationIsTrue == Spec => []ReconciledRunningIsReal
<1>1. Init => WakingInv
  BY DEF Init, WakingInv, Booted
<1>2. IInv /\ WakingInv /\ [Next /\ UNCHANGED world]_<<vars, world>> => WakingInv'
  <2> SUFFICES ASSUME IInv, WakingInv, [Next /\ UNCHANGED world]_<<vars, world>>, ~Faults',
                      boot'.phase # "up"
               PROVE  Waking'
    BY DEF WakingInv
  <2>1. ~Faults
    BY DEF Faults
  <2> QED BY <2>1, WakingKept DEF WakingInv
<1>3. IInv /\ WakingInv => ReconciledRunningIsReal
  BY DEF WakingInv, Waking, Real, ReconciledRunningIsReal
<1> QED BY <1>1, <1>2, <1>3, AlwaysInv, PTL DEF Spec
=============================================================================
