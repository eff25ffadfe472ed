--------------------------- MODULE FeishuChannel ----------------------------
(***************************************************************************)
(* The long connections of Feishu channels: the BotChannel rows, the map   *)
(* of connections in feishu-client.service.ts, the SDK clients in it       *)
(* (feishu-sdk.client.ts) and the WebSocket clients those create.          *)
(*                                                                         *)
(* The requests of bot-channel-api.service.ts and the reconnection at      *)
(* startup (bot-channel-startup.service.ts) share one path: drop the old   *)
(* connection, make a new one, dial, write the outcome in the row. A step  *)
(* runs from one `await` to the next; requests interleave in between.      *)
(***************************************************************************)
EXTENDS FeishuWorld, Naturals, FiniteSets

CONSTANTS
  Channels,    \* rows of BotChannel, each of a bot of its own
  Clients,     \* FeishuSdkClient objects (unreferenced ones are reused)
  Sockets,     \* lark.WSClient objects (closed ones are reused)
  Reqs,        \* HTTP requests in flight
  Startup,     \* the process of BotChannelStartupService
  MaxRetries   \* CONNECTION_CONFIG.maxRetries

ASSUME FeishuChannelAssumption ==
  /\ MaxRetries \in Nat \ {0}
  /\ None \notin Channels \cup Clients \cup Sockets
  /\ Startup \notin Reqs
  /\ \A w \in Worlds : {w.serial, w.faults, w.crashes} \subseteq BOOLEAN /\ w.chans \subseteq Channels

VARIABLES
  row,         \* the BotChannel table
  conn,        \* FeishuClientService.connections: channel -> client or None
  client,      \* client -> its WSClient and isStarted
  sock,        \* WSClient -> channel and state: an "open" one was started and not
               \* closed (autoReconnect: the library reopens it when it breaks)
  proc,        \* requests, and the startup service, with their local variables
  boot         \* channels startup has still to connect, and whether it runs

vars == <<row, conn, client, sock, proc, boot>>

\* Users create the rows world.chans.
Serial == world.serial    \* does a request wait for the one before it?

Procs == Reqs \cup {Startup}
NoRow == [state |-> "none", enabled |-> FALSE, status |-> "DISCONNECTED", bot |-> "live"]
NewClient == [ws |-> None, started |-> FALSE]
NoSocket == [chan |-> None, state |-> "free"]
Idle == [op |-> "none", pc |-> "idle", chan |-> None, client |-> None, ws |-> None, try |-> 0]

LiveRow(c) == row[c].state = "live"
IsConnected(c) == conn[c] # None /\ client[conn[c]].started

\* Objects nothing refers to any more.
FreeClients == {i \in Clients : /\ \A c \in Channels : conn[c] # i
                                /\ \A p \in Procs : proc[p].client # i}
FreeSockets == {w \in Sockets : /\ sock[w].state = "free"
                                /\ \A i \in Clients \ FreeClients : client[i].ws # w
                                /\ \A p \in Procs : proc[p].ws # w}

At(p, pc) == proc[p].pc = pc
Goto(p, pc) == proc' = [proc EXCEPT ![p].pc = pc]
Done(p) == proc' = [proc EXCEPT ![p] = Idle]

\* Prisma's update throws when the row is gone.
SetStatus(c, s) == row' = IF row[c].state = "none" THEN row ELSE [row EXCEPT ![c].status = s]

-----------------------------------------------------------------------------
(* FeishuSdkClient                                                         *)

\* WSClient.close() closes an open socket; whether it catches one that is
\* still being opened is up to the library, see DialOk.
Closed(w) == [sock EXCEPT ![w] = IF @.state = "open" THEN NoSocket
                                 ELSE IF @.state = "starting" THEN [@ EXCEPT !.state = "aborted"]
                                 ELSE @]

\* FeishuSdkClient.stop
StopClient(i) ==
  /\ client' = [client EXCEPT ![i] = NewClient]
  /\ sock' = IF client[i].ws = None THEN sock ELSE Closed(client[i].ws)

(* connectFeishuChannel: createConnection and connect                      *)

\* createConnection that puts the new connection over the old one.
KeepOld(p) ==
  /\ At(p, "drop") /\ Goto(p, "make")
  /\ UNCHANGED <<row, conn, client, sock, boot>>

\* The connection the channel has is destroyed first.
DropOld(p) ==
  /\ At(p, "drop")
  /\ LET c == proc[p].chan
     IN  IF conn[c] = None
           THEN UNCHANGED <<conn, client, sock>>
           ELSE StopClient(conn[c]) /\ conn' = [conn EXCEPT ![c] = None]
  /\ Goto(p, "make")
  /\ UNCHANGED <<row, boot>>

MakeConnection(p) ==
  /\ At(p, "make") /\ FreeClients # {}
  /\ LET i == CHOOSE x \in FreeClients : TRUE
     IN  /\ conn' = [conn EXCEPT ![proc[p].chan] = i]
         /\ client' = [client EXCEPT ![i] = NewClient]
  /\ Goto(p, "dial")
  /\ UNCHANGED <<row, sock, boot>>

\* connect() takes the channel's connection of this moment, whoever made it.
Dial(p) ==
  /\ At(p, "dial")
  /\ LET i == conn[proc[p].chan]
         w == CHOOSE x \in FreeSockets : TRUE
     IN  \/ /\ i = None
            /\ Goto(p, "err") /\ UNCHANGED <<client, sock>>
         \/ /\ i # None /\ client[i].started
            /\ Goto(p, "ok") /\ UNCHANGED <<client, sock>>
         \/ /\ i # None /\ ~client[i].started /\ FreeSockets # {}
            /\ client' = [client EXCEPT ![i].ws = w]
            /\ sock' = [sock EXCEPT ![w] = [chan |-> proc[p].chan, state |-> "starting"]]
            /\ proc' = [proc EXCEPT ![p].pc = "await", ![p].client = i, ![p].ws = w]
  /\ UNCHANGED <<row, conn, boot>>

\* WSClient.start resolves, and the client counts as started even when stop()
\* has meanwhile taken its WSClient away. A socket that was closed while it
\* was opening may have been caught or not.
DialOk(p) ==
  /\ At(p, "await")
  /\ LET w == proc[p].ws
     IN  \E s \in {[sock[w] EXCEPT !.state = "open"]} \cup (IF sock[w].state = "aborted" THEN {NoSocket} ELSE {}) :
           sock' = [sock EXCEPT ![w] = s]
  /\ client' = [client EXCEPT ![proc[p].client].started = TRUE]
  /\ proc' = [proc EXCEPT ![p].pc = "ok", ![p].client = None, ![p].ws = None]
  /\ UNCHANGED <<row, conn, boot>>

DialFail(p) ==
  /\ At(p, "await") /\ Faults
  /\ sock' = [sock EXCEPT ![proc[p].ws] = NoSocket]
  /\ proc' = [proc EXCEPT ![p].pc = "err", ![p].client = None, ![p].ws = None]
  /\ UNCHANGED <<row, conn, client, boot>>

-----------------------------------------------------------------------------
(* Requests. During startup the server does not listen yet.                *)

MayArrive(p) ==
  /\ ~boot.running /\ p \in Reqs /\ At(p, "idle")
  /\ Serial => \A q \in Reqs : At(q, "idle")

Arrive(p, op, c, pc) ==
  /\ MayArrive(p)
  /\ proc' = [proc EXCEPT ![p] = [Idle EXCEPT !.op = op, !.pc = pc, !.chan = c]]

CreateChannel(p, c) ==
  /\ c \in world.chans /\ row[c].state = "none" /\ row[c].bot = "live"
  /\ Arrive(p, "create", c, "drop")
  /\ \E on \in BOOLEAN : row' = [row EXCEPT ![c].state = "live", ![c].enabled = on,
                                            ![c].status = "DISCONNECTED"]
  /\ UNCHANGED <<conn, client, sock, boot>>

\* With new credentials or config the channel is reconnected, enabled or not.
\* disconnect() and createConnection stop the old client one after the other.
UpdateChannel(p, c) ==
  /\ LiveRow(c)
  /\ \E on \in BOOLEAN : row' = [row EXCEPT ![c].enabled = on]
  /\ Arrive(p, "update", c, "drop") \/ (MayArrive(p) /\ UNCHANGED proc)
  /\ UNCHANGED <<conn, client, sock, boot>>

ConnectChannel(p, c) ==
  /\ LiveRow(c) /\ Arrive(p, "connect", c, "drop")
  /\ SetStatus(c, "CONNECTING")
  /\ UNCHANGED <<conn, client, sock, boot>>

\* disconnect() stops the client and keeps it in the map.
DisconnectChannel(p, c) ==
  /\ LiveRow(c) /\ Arrive(p, "disconnect", c, "off")
  /\ IF conn[c] = None THEN UNCHANGED <<client, sock>> ELSE StopClient(conn[c])
  /\ UNCHANGED <<row, conn, boot>>

DisconnectWrite(p) ==
  /\ At(p, "off") /\ SetStatus(proc[p].chan, "DISCONNECTED") /\ Done(p)
  /\ UNCHANGED <<conn, client, sock, boot>>

DeleteChannel(p, c) ==
  /\ LiveRow(c) /\ Arrive(p, "delete", c, "rm")
  /\ IF conn[c] = None THEN UNCHANGED <<client, sock>> ELSE StopClient(conn[c])
  /\ UNCHANGED <<row, conn, boot>>

DeleteWrite(p) ==
  /\ At(p, "rm")
  /\ row' = [row EXCEPT ![proc[p].chan].state = "none"]
  /\ Done(p)
  /\ UNCHANGED <<conn, client, sock, boot>>

\* deleteBot soft-deletes the channel rows, then its own; no connection is
\* touched.
DeleteBot(p, c) ==
  /\ LiveRow(c) /\ Arrive(p, "deletebot", c, "rmbot")
  /\ row' = [row EXCEPT ![c].state = "erased", ![c].enabled = FALSE, ![c].status = "DISCONNECTED"]
  /\ UNCHANGED <<conn, client, sock, boot>>

DeleteBotWrite(p) ==
  /\ At(p, "rmbot")
  /\ row' = [row EXCEPT ![proc[p].chan].bot = "deleted"]
  /\ Done(p)
  /\ UNCHANGED <<conn, client, sock, boot>>

ConnectOk(p) ==
  /\ p \in Reqs /\ At(p, "ok")
  /\ SetStatus(proc[p].chan, "CONNECTED") /\ Done(p)
  /\ UNCHANGED <<conn, client, sock, boot>>

\* The failure is logged and the row left as it was.
FailQuietly(p) ==
  /\ p \in Reqs /\ At(p, "err") /\ Done(p)
  /\ UNCHANGED <<row, conn, client, sock, boot>>

ConnectFailed(p) ==
  /\ p \in Reqs /\ At(p, "err")
  /\ SetStatus(proc[p].chan, "ERROR") /\ Done(p)
  /\ UNCHANGED <<conn, client, sock, boot>>

\* The row is written, and the connection stays.
MessageNoted(w) ==
  /\ sock[w].state = "open" /\ row[sock[w].chan].bot = "deleted"
  /\ SetStatus(sock[w].chan, "DISCONNECTED")
  /\ UNCHANGED <<conn, client, sock, proc, boot>>

\* A message for a bot that has been deleted makes the handler destroy the
\* channel's connection. (Other messages: module FeishuMessages.)
MessageForDeleted(w) ==
  /\ sock[w].state = "open"
  /\ LET c == sock[w].chan
     IN  /\ row[c].bot = "deleted"
         /\ IF conn[c] = None
              THEN UNCHANGED <<conn, client, sock>>
              ELSE StopClient(conn[c]) /\ conn' = [conn EXCEPT ![c] = None]
         /\ SetStatus(c, "DISCONNECTED")
  /\ UNCHANGED <<proc, boot>>

-----------------------------------------------------------------------------
(* Crash and BotChannelStartupService.                                     *)

\* The list of channels to connect is a page of 500, and has them all if there
\* are no more.
Crash ==
  /\ Crashes
  /\ conn' = [c \in Channels |-> None] /\ client' = [i \in Clients |-> NewClient]
  /\ sock' = [w \in Sockets |-> NoSocket] /\ proc' = [p \in Procs |-> Idle]
  /\ boot' = [running |-> TRUE,
              todo |-> {c \in Channels : LiveRow(c) /\ row[c].enabled /\ row[c].bot = "live"}]
  /\ UNCHANGED row

StartupNext(c) ==
  /\ boot.running /\ At(Startup, "idle") /\ c \in boot.todo
  /\ proc' = [proc EXCEPT ![Startup] = [Idle EXCEPT !.op = "boot", !.pc = "drop", !.chan = c, !.try = 1]]
  /\ boot' = [boot EXCEPT !.todo = @ \ {c}]
  /\ UNCHANGED <<row, conn, client, sock>>

\* verifyConnection, a second after connect.
StartupVerify ==
  /\ At(Startup, "ok")
  /\ IF IsConnected(proc[Startup].chan)
       THEN SetStatus(proc[Startup].chan, "CONNECTED") /\ Done(Startup)
       ELSE Goto(Startup, "err") /\ UNCHANGED row
  /\ UNCHANGED <<conn, client, sock, boot>>

\* Gives up without writing the row.
RetryQuietly ==
  /\ At(Startup, "err")
  /\ IF proc[Startup].try < MaxRetries
       THEN proc' = [proc EXCEPT ![Startup].pc = "drop", ![Startup].try = @ + 1]
       ELSE Done(Startup)
  /\ UNCHANGED <<row, conn, client, sock, boot>>

StartupRetry ==
  /\ At(Startup, "err")
  /\ IF proc[Startup].try < MaxRetries
       THEN proc' = [proc EXCEPT ![Startup].pc = "drop", ![Startup].try = @ + 1] /\ UNCHANGED row
       ELSE SetStatus(proc[Startup].chan, "ERROR") /\ Done(Startup)
  /\ UNCHANGED <<conn, client, sock, boot>>

StartupEnd ==
  /\ boot.running /\ At(Startup, "idle") /\ boot.todo = {}
  /\ boot' = [boot EXCEPT !.running = FALSE]
  /\ UNCHANGED <<row, conn, client, sock, proc>>

-----------------------------------------------------------------------------
Init ==
  /\ world \in Worlds
  /\ row = [c \in Channels |-> NoRow] /\ conn = [c \in Channels |-> None]
  /\ client = [i \in Clients |-> NewClient] /\ sock = [w \in Sockets |-> NoSocket]
  /\ proc = [p \in Procs |-> Idle]
  /\ boot = [running |-> FALSE, todo |-> {}]

Step(p) ==
  \/ DropOld(p) \/ MakeConnection(p) \/ Dial(p) \/ DialOk(p) \/ DialFail(p)
  \/ ConnectOk(p) \/ ConnectFailed(p)
  \/ DisconnectWrite(p) \/ DeleteWrite(p) \/ DeleteBotWrite(p)

StartupStep == (\E c \in Channels : StartupNext(c)) \/ StartupVerify \/ StartupRetry \/ StartupEnd

Next ==
  \/ \E p \in Reqs, c \in Channels :
       \/ CreateChannel(p, c) \/ UpdateChannel(p, c) \/ ConnectChannel(p, c)
       \/ DisconnectChannel(p, c) \/ DeleteChannel(p, c) \/ DeleteBot(p, c)
  \/ \E p \in Procs : Step(p)
  \/ \E w \in Sockets : MessageForDeleted(w)
  \/ StartupStep
  \/ Crash

Spec == Init /\ [][Next /\ UNCHANGED world]_<<vars, world>>

\* The event loop runs what is ready, WSClient.start resolves or rejects, and
\* messages keep coming in on open sockets.
FairSpec ==
  /\ Spec
  /\ \A p \in Procs : WF_vars(Step(p))
  /\ WF_vars(StartupStep)
  /\ \A w \in Sockets : WF_vars(MessageForDeleted(w))

-----------------------------------------------------------------------------
(* Properties.                                                             *)

PCs == {"idle", "drop", "make", "dial", "await", "ok", "err", "off", "rm", "rmbot"}
Ops == {"none", "create", "update", "connect", "disconnect", "delete", "deletebot", "boot"}
Statuses == {"DISCONNECTED", "CONNECTING", "CONNECTED", "ERROR"}

\* Every variable keeps its type.
TypeOK ==
  /\ world \in Worlds
  /\ row \in [Channels -> [state : {"none", "live", "erased"}, enabled : BOOLEAN,
                           status : Statuses, bot : {"live", "deleted"}]]
  /\ conn \in [Channels -> Clients \cup {None}]
  /\ client \in [Clients -> [ws : Sockets \cup {None}, started : BOOLEAN]]
  /\ sock \in [Sockets -> [chan : Channels, state : {"starting", "open", "aborted"}] \cup {NoSocket}]
  /\ proc \in [Procs -> [op : Ops, pc : PCs, chan : Channels \cup {None},
                         client : Clients \cup {None}, ws : Sockets \cup {None},
                         try : 0 .. MaxRetries]]
  /\ boot \in [running : BOOLEAN, todo : SUBSET Channels]

OpenSockets(c) == {w \in Sockets : sock[w].chan = c /\ sock[w].state = "open"}
Quiet == ~boot.running /\ \A p \in Procs : At(p, "idle")

\* "If a connection exists already, disconnect it first": one request at a
\* time never leaves a channel with two sockets, across retries at startup,
\* reconnections after failed ones and stops of half-open clients.
OneSocketPerChannel ==
  TypeOK /\ (Serial => \A c \in Channels : Cardinality(OpenSockets(c)) <= 1)

\* Between requests, in a process that has not crashed, a row that says
\* CONNECTED has an open socket, and a row that does not has none.
StatusIsTruth ==
  (Serial /\ ~Crashes /\ Quiet) => \A c \in Channels :
    LiveRow(c) => (row[c].status = "CONNECTED" <=> OpenSockets(c) # {})

\* createConnection and the writes of the status keep map, socket and row
\* together: no socket is open beside the one that is shown.
SocketsAreTrue == OneSocketPerChannel /\ StatusIsTruth

\* Startup leaves no enabled channel of a live bot undecided: when the server
\* begins to listen each of them is connected and says so, or is in ERROR,
\* whatever overlapping requests and the crash left behind.
StartupDecides ==
  [][(boot.running /\ ~boot'.running) =>
       \A c \in Channels : (LiveRow(c) /\ row[c].enabled /\ row[c].bot = "live") =>
         \/ row[c].status = "CONNECTED" /\ OpenSockets(c) # {}
         \/ row[c].status = "ERROR" /\ OpenSockets(c) = {}]_vars

\* However often connecting fails, startup ends and the server listens, once
\* the process no longer crashes.
StartupEnds == (<>[][~Crash]_vars) => (boot.running ~> ~boot.running)

\* The server comes to listen after a restart, and not before every channel is
\* decided.
StartupSettles == StartupDecides /\ StartupEnds

\* The open socket of a deleted bot is closed in the end, if messages keep
\* coming: deleteBot itself leaves it open.
DeletedBotCloses ==
  Serial => \A c \in Channels : (row[c].bot = "deleted" /\ Quiet) ~> OpenSockets(c) = {}

\* A channel's socket is opened, closed and shown only by a request that is
\* busy with that channel, from its beginning, when at most one is there, to
\* its end, when the row says what became of it, and the socket of an erased
\* row is only ever closed. Requests that overlap may confuse the sockets of a
\* channel they share, but none touches another channel's.
Busy(c) == \E p \in Procs : ~At(p, "idle") /\ proc[p].chan = c
Sight(c) ==
  CASE ~LiveRow(c) -> "none"
    [] LiveRow(c) /\ Busy(c) -> "busy"
    [] LiveRow(c) /\ ~Busy(c) -> IF row[c].status = "CONNECTED" THEN "on" ELSE "off"
OpenLines == [c \in Channels |-> OpenSockets(c)]
Shown == [c \in Channels |-> Sight(c)]
Line == INSTANCE ChannelLines
          WITH Lines <- Sockets, open <- OpenLines, shown <- Shown, orderly <- Serial, steady <- ~Crashes
LinesHold == Line!Spec
=============================================================================
