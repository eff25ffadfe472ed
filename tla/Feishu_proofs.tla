--------------------------- MODULE Feishu_proofs ----------------------------
(***************************************************************************)
(* For any channels, connections and requests: with one request at a time  *)
(* a channel has at most one open socket, and between requests its row     *)
(* says whether it has one; and startup, in every environment, leaves each *)
(* channel it was to connect connected or in error.                        *)
(* For any messages and handler calls: no message is answered twice, and   *)
(* the handler implements MessageDelivery.                                 *)
(***************************************************************************)
EXTENDS FeishuChannel, FeishuMessages, FiniteSetTheorems, TLAPS

\* A request, and the startup, hold a socket only while it is being opened, and
\* the startup runs while nothing else does.
Typed ==
  /\ TypeOK
  /\ \A p \in Procs :
       /\ ~At(p, "idle") => proc[p].chan \in Channels /\ (boot.running <=> p = Startup)
       /\ At(p, "await") => /\ proc[p].ws \in Sockets /\ proc[p].client \in Clients
                            /\ sock[proc[p].ws].state \in {"starting", "aborted"}
       /\ ~At(p, "await") => proc[p].ws = None
       /\ proc[p].pc \in {"off", "rm", "rmbot"} => p # Startup
  /\ \A p, q \in Procs : proc[p].ws = proc[q].ws /\ proc[p].ws # None => p = q
  /\ boot.running => Crashes

\* One after the other: as the environment has it, or during startup.
Calm == Serial \/ boot.running

\* An open socket is the one of the client its channel has.
Owned ==
  /\ \A c, d \in Channels : conn[c] = conn[d] /\ conn[c] # None => c = d
  /\ \A c \in Channels : conn[c] # None /\ client[conn[c]].ws # None =>
       sock[client[conn[c]].ws] = NoSocket \/ sock[client[conn[c]].ws].chan = c
  /\ \A w \in Sockets : sock[w].state = "open" =>
       /\ conn[sock[w].chan] # None
       /\ client[conn[sock[w].chan]].started /\ client[conn[sock[w].chan]].ws = w

\* How far the request under way has come with its channel.
Stage(p) ==
  LET c == proc[p].chan
  IN  /\ At(p, "make") => conn[c] = None
      /\ At(p, "dial") => conn[c] # None /\ client[conn[c]] = NewClient
      /\ At(p, "await") => /\ conn[c] = proc[p].client /\ client[conn[c]].ws = proc[p].ws
                           /\ sock[proc[p].ws] = [chan |-> c, state |-> "starting"]
      /\ At(p, "ok") => OpenSockets(c) # {}
      /\ proc[p].pc \in {"err", "off", "rm"} => OpenSockets(c) = {}
      /\ IF At(p, "rmbot") THEN row[c].state = "erased"
                           ELSE LiveRow(c) /\ row[c].bot = "live"

InTurn ==
  /\ \A p, q \in Procs : ~At(p, "idle") /\ ~At(q, "idle") => p = q
  /\ Owned
  /\ \A p \in Procs : ~At(p, "idle") => Stage(p)

Untouched(c) == \A p \in Procs : At(p, "idle") \/ proc[p].chan # c

SaysSo(c) == row[c].status = "CONNECTED" <=> OpenSockets(c) # {}

\* The row of a channel that nobody is busy with is true.
Truthful ==
  /\ \A c \in Channels : row[c].bot = "deleted" => row[c].state = "erased"
  /\ ~Crashes => \A c \in Channels : LiveRow(c) /\ Untouched(c) => SaysSo(c)

Wanted(c) == LiveRow(c) /\ row[c].enabled /\ row[c].bot = "live"
Decided(c) ==
  \/ row[c].status = "CONNECTED" /\ OpenSockets(c) # {}
  \/ row[c].status = "ERROR" /\ OpenSockets(c) = {}

Starting ==
  /\ \A c \in boot.todo : Wanted(c)
  /\ \A c \in Channels \ boot.todo : Wanted(c) /\ Untouched(c) => Decided(c)

IInv ==
  /\ Typed
  /\ Calm => InTurn
  /\ Serial => Truthful
  /\ boot.running => Starting

-----------------------------------------------------------------------------
(* Types                                                                   *)

RowType == [state : {"none", "live", "erased"}, enabled : BOOLEAN,
            status : Statuses, bot : {"live", "deleted"}]
ClientType == [ws : Sockets \cup {None}, started : BOOLEAN]
SocketType == [chan : Channels, state : {"starting", "open", "aborted"}] \cup {NoSocket}
ProcType == [op : Ops, pc : PCs, chan : Channels \cup {None}, client : Clients \cup {None},
             ws : Sockets \cup {None}, try : 0 .. MaxRetries]
Opening == {"starting", "aborted"}

LEMMA Nothings ==
  /\ NewClient \in ClientType /\ NewClient.ws = None /\ ~NewClient.started
  /\ NoSocket \in SocketType /\ NoSocket.state = "free"
  /\ Idle \in ProcType /\ Idle.pc = "idle" /\ Idle.ws = None /\ Idle.client = None
  /\ Idle.op = "none" /\ Idle.chan = None
  /\ None \notin Channels /\ None \notin Clients /\ None \notin Sockets
  /\ Startup \notin Reqs /\ MaxRetries \in Nat /\ 1 \in 0 .. MaxRetries
BY FeishuChannelAssumption DEF NewClient, ClientType, NoSocket, SocketType, Idle, ProcType, Ops, PCs

LEMMA Types ==
  ASSUME Typed
  PROVE  /\ row \in [Channels -> RowType] /\ conn \in [Channels -> Clients \cup {None}]
         /\ client \in [Clients -> ClientType] /\ sock \in [Sockets -> SocketType]
         /\ proc \in [Procs -> ProcType]
         /\ boot.running \in BOOLEAN /\ boot.todo \subseteq Channels /\ world \in Worlds
BY DEF Typed, TypeOK, RowType, ClientType, SocketType, ProcType

\* A socket is either not in use or belongs to a channel.
LEMMA SocketKinds ==
  ASSUME NEW x \in SocketType
  PROVE  /\ x.state \in {"free", "starting", "open", "aborted"}
         /\ x.state # "free" => x.chan \in Channels /\ [x EXCEPT !.state = "open"] \in SocketType
                                /\ [x EXCEPT !.state = "aborted"] \in SocketType
         /\ x.state = "free" => x = NoSocket
BY DEF SocketType, NoSocket

\* stop() changes the socket of the client and no other; one that is being
\* opened remains so.
LEMMA Stops ==
  ASSUME Typed, NEW i \in Clients, StopClient(i)
  PROVE  /\ client' \in [Clients -> ClientType] /\ sock' \in [Sockets -> SocketType]
         /\ client' = [client EXCEPT ![i] = NewClient]
         /\ \A w \in Sockets : /\ sock[w].state \in Opening => sock'[w].state \in Opening
                               /\ w # client[i].ws => sock'[w] = sock[w]
                               /\ sock'[w].state = "open" => sock'[w] = sock[w]
                               /\ w = client[i].ws => sock'[w].state # "open"
                               /\ sock'[w] = NoSocket \/ sock'[w].chan = sock[w].chan
                               /\ sock[w] = NoSocket => sock'[w] = NoSocket
<1>1. client \in [Clients -> ClientType] /\ sock \in [Sockets -> SocketType] /\ NewClient \in ClientType
  BY Types, Nothings
<1>2. client' = [client EXCEPT ![i] = NewClient] /\ client' \in [Clients -> ClientType]
  BY <1>1 DEF StopClient
<1>3. CASE client[i].ws = None
  BY <1>1, <1>2, <1>3, Nothings DEF StopClient
<1>4. CASE client[i].ws # None
  <2> DEFINE v == client[i].ws
  <2>1. v \in Sockets
    BY <1>1, <1>4 DEF ClientType
  <2>2. sock' = Closed(v)
    BY <1>4 DEF StopClient
  <2> HIDE DEF v
  <2>3. sock' = [sock EXCEPT ![v] = IF sock[v].state = "open" THEN NoSocket
                                    ELSE IF sock[v].state = "starting" THEN [sock[v] EXCEPT !.state = "aborted"]
                                    ELSE sock[v]]
    BY <1>1, <2>1, <2>2 DEF Closed
  <2>4. CASE sock[v].state = "open"
    BY <1>1, <1>2, <2>1, <2>3, <2>4, Nothings DEF Opening, v
  <2>5. CASE sock[v].state = "starting"
    <3>1. sock[v] \in SocketType /\ sock[v].chan \in Channels
      BY <1>1, <2>1, <2>5, SocketKinds
    <3> DEFINE x == [sock[v] EXCEPT !.state = "aborted"]
    <3>2. x \in SocketType /\ x.state = "aborted" /\ x.chan = sock[v].chan
      BY <2>5, <3>1, SocketKinds, Nothings DEF SocketType
    <3>3. sock' = [sock EXCEPT ![v] = x]
      BY <2>3, <2>5
    <3> HIDE DEF x
    <3> QED
      BY <1>1, <1>2, <2>1, <2>5, <3>2, <3>3, Nothings DEF Opening, v
  <2>6. CASE sock[v].state \notin {"open", "starting"}
    <3>1. sock' = sock
      BY <1>1, <2>1, <2>3, <2>6
    <3> QED
      BY <1>1, <1>2, <2>6, <3>1 DEF v
  <2> QED
    BY <2>4, <2>5, <2>6
<1> QED
  BY <1>3, <1>4

\* What a step of p makes of the types.
LEMMA TypedByProc ==
  ASSUME Typed, NEW p \in Procs, NEW q \in ProcType, proc' = [proc EXCEPT ![p] = q],
         row' \in [Channels -> RowType], conn' \in [Channels -> Clients \cup {None}],
         client' \in [Clients -> ClientType], sock' \in [Sockets -> SocketType],
         boot' \in [running : BOOLEAN, todo : SUBSET Channels],
         boot'.running = boot.running, UNCHANGED world,
         \A s \in Procs \ {p} : At(s, "await") => sock'[proc[s].ws].state \in Opening,
         q.pc # "idle" => q.chan \in Channels /\ (boot.running <=> p = Startup),
         q.pc = "await" => q.ws \in Sockets /\ q.client \in Clients /\ sock'[q.ws].state \in Opening,
         q.pc # "await" => q.ws = None,
         q.pc \in {"off", "rm", "rmbot"} => p # Startup,
         \A s \in Procs \ {p} : q.ws # None => proc[s].ws # q.ws
  PROVE  Typed'
<1>1. proc' \in [Procs -> ProcType] /\ \A s \in Procs : proc'[s] = IF s = p THEN q ELSE proc[s]
  BY Types
<1>2. TypeOK'
  BY <1>1, Types DEF TypeOK, RowType, ClientType, SocketType, ProcType
<1>3. Crashes' = Crashes
  BY DEF Crashes
<1>4. ASSUME NEW s \in Procs
      PROVE  /\ proc'[s].pc # "idle" => proc'[s].chan \in Channels /\ (boot'.running <=> s = Startup)
             /\ proc'[s].pc = "await" => /\ proc'[s].ws \in Sockets /\ proc'[s].client \in Clients
                                         /\ sock'[proc'[s].ws].state \in {"starting", "aborted"}
             /\ proc'[s].pc # "await" => proc'[s].ws = None
             /\ proc'[s].pc \in {"off", "rm", "rmbot"} => s # Startup
  BY <1>1 DEF Typed, At, Opening
<1>5. \A s, t \in Procs : proc'[s].ws = proc'[t].ws /\ proc'[s].ws # None => s = t
  BY <1>1 DEF Typed
<1> QED
  BY <1>2, <1>3, <1>4, <1>5 DEF Typed, At
LEMMA StatusOnly ==
  ASSUME Typed, NEW c \in Channels, NEW x \in Statuses, SetStatus(c, x)
  PROVE  /\ row' \in [Channels -> RowType]
         /\ \A d \in Channels : /\ row'[d].state = row[d].state /\ row'[d].enabled = row[d].enabled
                                /\ row'[d].bot = row[d].bot /\ (d # c => row'[d] = row[d])
         /\ row[c].state # "none" => row'[c].status = x
BY Types DEF SetStatus, RowType

\* A step that leaves the sockets alone, or only stops a client.
LEMMA TypedBySimple ==
  ASSUME Typed, NEW p \in Procs, NEW q \in ProcType, proc' = [proc EXCEPT ![p] = q],
         row' \in [Channels -> RowType], conn' \in [Channels -> Clients \cup {None}],
         UNCHANGED <<client, sock>> \/ \E i \in Clients : StopClient(i),
         UNCHANGED <<boot, world>>,
         q.pc \notin {"idle", "await"}, q.ws = None, q.chan \in Channels,
         boot.running <=> p = Startup,
         q.pc \in {"off", "rm", "rmbot"} => p # Startup
  PROVE  Typed'
<1>1. /\ client' \in [Clients -> ClientType] /\ sock' \in [Sockets -> SocketType]
      /\ \A s \in Procs \ {p} : At(s, "await") => sock'[proc[s].ws].state \in Opening
  <2>1. CASE UNCHANGED <<client, sock>>
    BY <2>1, Types DEF Typed, Opening
  <2>2. ASSUME NEW i \in Clients, StopClient(i)
        PROVE  /\ client' \in [Clients -> ClientType] /\ sock' \in [Sockets -> SocketType]
               /\ \A s \in Procs \ {p} : At(s, "await") => sock'[proc[s].ws].state \in Opening
    BY <2>2, Stops DEF Typed, Opening
  <2> QED
    BY <2>1, <2>2
<1>2. boot' \in [running : BOOLEAN, todo : SUBSET Channels] /\ boot'.running = boot.running
  BY DEF Typed, TypeOK
<1> QED
  BY <1>1, <1>2, TypedByProc

LEMMA TypedByEnd ==
  ASSUME Typed, NEW p \in Procs, Done(p) \/ UNCHANGED proc,
         row' \in [Channels -> RowType], conn' \in [Channels -> Clients \cup {None}],
         UNCHANGED <<client, sock>> \/ \E i \in Clients : StopClient(i),
         UNCHANGED <<boot, world>>
  PROVE  Typed'
<1>1. /\ client' \in [Clients -> ClientType] /\ sock' \in [Sockets -> SocketType]
      /\ \A s \in Procs : At(s, "await") => sock'[proc[s].ws].state \in Opening
  <2>1. CASE UNCHANGED <<client, sock>>
    BY <2>1, Types DEF Typed, Opening
  <2>2. ASSUME NEW i \in Clients, StopClient(i)
        PROVE  /\ client' \in [Clients -> ClientType] /\ sock' \in [Sockets -> SocketType]
               /\ \A s \in Procs : At(s, "await") => sock'[proc[s].ws].state \in Opening
    BY <2>2, Stops DEF Typed, Opening
  <2> QED
    BY <2>1, <2>2
<1>2. boot' \in [running : BOOLEAN, todo : SUBSET Channels] /\ boot'.running = boot.running
  BY DEF Typed, TypeOK
<1>3. CASE Done(p)
  BY <1>1, <1>2, <1>3, Nothings, TypedByProc DEF Done
<1>4. CASE UNCHANGED proc
  <2>1. TypeOK'
    BY <1>1, <1>2, <1>4, Types DEF TypeOK, RowType, ClientType, SocketType, ProcType
  <2> QED
    BY <1>1, <1>2, <1>4, <2>1 DEF Typed, Opening, At, Crashes
<1> QED
  BY <1>3, <1>4

\* A process that takes a step of its own has something to do, and leaves what
\* startup still has to do alone.
LEMMA Working ==
  ASSUME NEW p \in Procs, Step(p)
  PROVE  ~At(p, "idle") /\ boot' = boot
<1>1. CASE DropOld(p) \/ MakeConnection(p)
  <2>1. (At(p, "drop") \/ At(p, "make")) /\ boot' = boot
    BY <1>1 DEF DropOld, MakeConnection
  <2> QED
    BY <2>1 DEF At
<1>2. CASE Dial(p)
  <2>1. At(p, "dial") /\ boot' = boot
    BY <1>2 DEF Dial
  <2> QED
    BY <2>1 DEF At
<1>3. CASE DialOk(p) \/ DialFail(p)
  <2>1. At(p, "await") /\ boot' = boot
    BY <1>3 DEF DialOk, DialFail
  <2> QED
    BY <2>1 DEF At
<1>4. CASE ConnectOk(p) \/ ConnectFailed(p)
  <2>1. (At(p, "ok") \/ At(p, "err")) /\ boot' = boot
    BY <1>4 DEF ConnectOk, ConnectFailed
  <2> QED
    BY <2>1 DEF At
<1>5. CASE DisconnectWrite(p) \/ DeleteWrite(p) \/ DeleteBotWrite(p)
  <2>1. (At(p, "off") \/ At(p, "rm") \/ At(p, "rmbot")) /\ boot' = boot
    BY <1>5 DEF DisconnectWrite, DeleteWrite, DeleteBotWrite
  <2> QED
    BY <2>1 DEF At
<1> QED
  BY <1>1, <1>2, <1>3, <1>4, <1>5 DEF Step

\* What a request does when it comes in.
LEMMA Arriving ==
  ASSUME NEW p \in Reqs, NEW c \in Channels,
         \/ CreateChannel(p, c) \/ UpdateChannel(p, c) \/ ConnectChannel(p, c)
         \/ DisconnectChannel(p, c) \/ DeleteChannel(p, c) \/ DeleteBot(p, c)
  PROVE  /\ MayArrive(p) /\ UNCHANGED <<conn, boot>>
         /\ UNCHANGED <<client, sock>> \/ (conn[c] # None /\ StopClient(conn[c]))
         /\ UNCHANGED proc \/ \E op \in Ops, pc \in {"drop", "off", "rm", "rmbot"} : Arrive(p, op, c, pc)
<1>1. \A op, pc : Arrive(p, op, c, pc) => MayArrive(p)
  BY DEF Arrive
<1>2. CASE CreateChannel(p, c)
  <2>1. Arrive(p, "create", c, "drop") /\ UNCHANGED <<conn, client, sock, boot>>
    BY <1>2 DEF CreateChannel
  <2> QED
    BY <1>1, <2>1 DEF Ops
<1>3. CASE UpdateChannel(p, c)
  <2>1. /\ Arrive(p, "update", c, "drop") \/ (MayArrive(p) /\ UNCHANGED proc)
        /\ UNCHANGED <<conn, client, sock, boot>>
    BY <1>3 DEF UpdateChannel
  <2> QED
    BY <1>1, <2>1 DEF Ops
<1>4. CASE ConnectChannel(p, c)
  <2>1. Arrive(p, "connect", c, "drop") /\ UNCHANGED <<conn, client, sock, boot>>
    BY <1>4 DEF ConnectChannel
  <2> QED
    BY <1>1, <2>1 DEF Ops
<1>5. CASE DeleteBot(p, c)
  <2>1. Arrive(p, "deletebot", c, "rmbot") /\ UNCHANGED <<conn, client, sock, boot>>
    BY <1>5 DEF DeleteBot
  <2> QED
    BY <1>1, <2>1 DEF Ops
<1>6. CASE DisconnectChannel(p, c)
  <2>1. /\ Arrive(p, "disconnect", c, "off") /\ UNCHANGED <<conn, boot>>
        /\ UNCHANGED <<client, sock>> \/ (conn[c] # None /\ StopClient(conn[c]))
    BY <1>6 DEF DisconnectChannel
  <2> QED
    BY <1>1, <2>1 DEF Ops
<1>7. CASE DeleteChannel(p, c)
  <2>1. /\ Arrive(p, "delete", c, "rm") /\ UNCHANGED <<conn, boot>>
        /\ UNCHANGED <<client, sock>> \/ (conn[c] # None /\ StopClient(conn[c]))
    BY <1>7 DEF DeleteChannel
  <2> QED
    BY <1>1, <2>1 DEF Ops
<1> QED
  BY <1>2, <1>3, <1>4, <1>5, <1>6, <1>7

LEMMA TypedByStep ==
  ASSUME Typed, Next, UNCHANGED world
  PROVE  Typed'
<1> USE Nothings
<1>0. /\ row \in [Channels -> RowType] /\ conn \in [Channels -> Clients \cup {None}]
      /\ client \in [Clients -> ClientType] /\ sock \in [Sockets -> SocketType]
      /\ proc \in [Procs -> ProcType] /\ boot.running \in BOOLEAN /\ boot.todo \subseteq Channels
      /\ boot \in [running : BOOLEAN, todo : SUBSET Channels]
      /\ \A r \in Reqs : r \in Procs /\ r # Startup
      /\ Startup \in Procs
  BY Types DEF Typed, TypeOK, Procs
<1>1. ASSUME NEW p \in Procs, ~At(p, "idle"), ~At(p, "await"), NEW pc \in PCs \ {"idle", "await", "off", "rm", "rmbot"},
             Goto(p, pc), row' \in [Channels -> RowType], conn' \in [Channels -> Clients \cup {None}],
             UNCHANGED <<client, sock>> \/ \E i \in Clients : StopClient(i), UNCHANGED <<boot, world>>
      PROVE  Typed'
  <2> DEFINE q == [proc[p] EXCEPT !.pc = pc]
  <2>1. q \in ProcType /\ q.pc = pc /\ q.ws = proc[p].ws /\ q.chan = proc[p].chan
    BY <1>0, <1>1 DEF ProcType
  <2>2. proc' = [proc EXCEPT ![p] = q]
    BY <1>0, <1>1 DEF Goto
  <2>3. q.ws = None /\ q.chan \in Channels /\ (boot.running <=> p = Startup)
    BY <1>1, <2>1 DEF Typed
  <2> HIDE DEF q
  <2> QED
    BY <1>1, <2>1, <2>2, <2>3, TypedBySimple
<1>2. ASSUME NEW p \in Procs, DropOld(p)
      PROVE  Typed'
  <2>1. ~At(p, "idle") /\ ~At(p, "await") /\ Goto(p, "make") /\ UNCHANGED <<row, boot>>
    BY <1>2 DEF DropOld, At
  <2>2. /\ conn' \in [Channels -> Clients \cup {None}]
        /\ UNCHANGED <<client, sock>> \/ \E i \in Clients : StopClient(i)
    <3>1. proc[p].chan \in Channels
      BY <2>1 DEF Typed
    <3> QED
      BY <1>0, <1>2, <3>1 DEF DropOld
  <2> QED
    BY <1>0, <1>1, <2>1, <2>2 DEF PCs
<1>3. ASSUME NEW p \in Procs, MakeConnection(p)
      PROVE  Typed'
  <2> DEFINE i == CHOOSE x \in FreeClients : TRUE
  <2>1. i \in Clients /\ proc[p].chan \in Channels /\ proc[p].ws = None /\ (boot.running <=> p = Startup)
    BY <1>3 DEF MakeConnection, FreeClients, Typed, At
  <2>2. /\ conn' = [conn EXCEPT ![proc[p].chan] = i] /\ client' = [client EXCEPT ![i] = NewClient]
        /\ Goto(p, "dial") /\ UNCHANGED <<row, sock, boot>>
    BY <1>3 DEF MakeConnection
  <2> HIDE DEF i
  <2>3. conn' \in [Channels -> Clients \cup {None}] /\ client' \in [Clients -> ClientType]
    BY <1>0, <2>1, <2>2
  <2> DEFINE q == [proc[p] EXCEPT !.pc = "dial"]
  <2>4. q \in ProcType /\ q.pc = "dial" /\ q.ws = None /\ q.chan \in Channels /\ proc' = [proc EXCEPT ![p] = q]
    BY <1>0, <2>1, <2>2 DEF ProcType, Goto, PCs
  <2> HIDE DEF q
  <2>5. \A s \in Procs \ {p} : At(s, "await") => sock'[proc[s].ws].state \in Opening
    BY <2>2 DEF Typed, Opening
  <2> QED
    BY <1>0, <2>1, <2>2, <2>3, <2>4, <2>5, TypedByProc
<1>4. ASSUME NEW p \in Procs, Dial(p)
      PROVE  Typed'
  <2> DEFINE c == proc[p].chan
             w == CHOOSE x \in FreeSockets : TRUE
  <2>1. c \in Channels /\ ~At(p, "idle") /\ ~At(p, "await") /\ UNCHANGED <<row, conn, boot>>
        /\ (boot.running <=> p = Startup)
    BY <1>4 DEF Dial, At, Typed
  <2>2. CASE (Goto(p, "err") \/ Goto(p, "ok")) /\ UNCHANGED <<client, sock>>
    BY <1>0, <1>1, <2>1, <2>2 DEF PCs
  <2>3. CASE /\ conn[c] # None /\ FreeSockets # {}
             /\ client' = [client EXCEPT ![conn[c]].ws = w]
             /\ sock' = [sock EXCEPT ![w] = [chan |-> c, state |-> "starting"]]
             /\ proc' = [proc EXCEPT ![p].pc = "await", ![p].client = conn[c], ![p].ws = w]
    <3>1. w \in Sockets /\ conn[c] \in Clients /\ \A s \in Procs : proc[s].ws # w
      BY <1>0, <2>1, <2>3 DEF FreeSockets
    <3> DEFINE q == [proc[p] EXCEPT !.pc = "await", !.client = conn[c], !.ws = w]
               x == [chan |-> c, state |-> "starting"]
    <3> HIDE DEF w
    <3>2. q \in ProcType /\ q.pc = "await" /\ q.ws = w /\ q.client = conn[c] /\ q.chan = c
      BY <1>0, <2>1, <3>1 DEF ProcType, PCs
    <3>3. proc' = [proc EXCEPT ![p] = q]
      BY <1>0, <2>3
    <3>4. x \in SocketType /\ x.state \in Opening
      BY <2>1 DEF SocketType, Opening
    <3>5. sock' = [sock EXCEPT ![w] = x]
      BY <2>3
    <3>6. client' \in [Clients -> ClientType]
      BY <1>0, <2>3, <3>1 DEF ClientType
    <3> HIDE DEF x, q, c
    <3>7. sock' \in [Sockets -> SocketType] /\ sock'[w].state \in Opening
          /\ \A s \in Procs \ {p} : At(s, "await") => sock'[proc[s].ws].state \in Opening
      BY <1>0, <3>1, <3>4, <3>5 DEF Typed, Opening
    <3> QED
      BY <1>0, <2>1, <3>1, <3>2, <3>3, <3>6, <3>7, TypedByProc
  <2> QED
    BY <1>4, <2>2, <2>3 DEF Dial
<1>5. ASSUME NEW p \in Procs, DialOk(p) \/ DialFail(p)
      PROVE  Typed'
  <2> DEFINE w == proc[p].ws
  <2>1. /\ w \in Sockets /\ proc[p].client \in Clients /\ At(p, "await") /\ sock[w].state \in Opening
        /\ proc[p].chan \in Channels /\ (boot.running <=> p = Startup) /\ UNCHANGED <<row, conn, boot>>
    BY <1>5 DEF DialOk, DialFail, Typed, At, Opening
  <2>2. \A s \in Procs \ {p} : At(s, "await") => proc[s].ws # w
    BY <2>1 DEF Typed
  <2>3. /\ client' \in [Clients -> ClientType]
        /\ sock' \in [Sockets -> SocketType] /\ \A v \in Sockets \ {w} : sock'[v] = sock[v]
    <3>1. [sock[w] EXCEPT !.state = "open"] \in SocketType
      BY <1>0, <2>1, SocketKinds DEF Opening
    <3>2. CASE DialOk(p)
      <4>1. PICK x \in SocketType : sock' = [sock EXCEPT ![w] = x]
        BY <3>1, <3>2 DEF DialOk
      <4>2. client' = [client EXCEPT ![proc[p].client].started = TRUE]
        BY <3>2 DEF DialOk
      <4>3. client' \in [Clients -> ClientType]
        BY <1>0, <2>1, <4>2 DEF ClientType
      <4> HIDE DEF w
      <4> QED
        BY <1>0, <2>1, <4>1, <4>3
    <3>3. CASE DialFail(p)
      BY <1>0, <2>1, <3>3 DEF DialFail
    <3> QED
      BY <1>5, <3>2, <3>3
  <2>4. PICK pc \in {"ok", "err"} : proc' = [proc EXCEPT ![p].pc = pc, ![p].client = None, ![p].ws = None]
    BY <1>5 DEF DialOk, DialFail
  <2> DEFINE q == [proc[p] EXCEPT !.pc = pc, !.client = None, !.ws = None]
  <2>5. q \in ProcType /\ q.pc \in {"ok", "err"} /\ q.ws = None /\ q.chan = proc[p].chan
        /\ proc' = [proc EXCEPT ![p] = q]
    BY <1>0, <2>4 DEF ProcType, PCs
  <2> HIDE DEF q, w
  <2>6. \A s \in Procs \ {p} : At(s, "await") => sock'[proc[s].ws].state \in Opening
    BY <2>2, <2>3 DEF Typed, Opening
  <2> QED
    BY <1>0, <2>1, <2>3, <2>5, <2>6, TypedByProc
<1>6. ASSUME NEW p \in Procs,
             ConnectOk(p) \/ ConnectFailed(p) \/ DisconnectWrite(p) \/ DeleteWrite(p) \/ DeleteBotWrite(p)
      PROVE  Typed'
  <2>1. Done(p) /\ UNCHANGED <<conn, client, sock, boot>> /\ proc[p].chan \in Channels
    BY <1>6 DEF ConnectOk, ConnectFailed, DisconnectWrite, DeleteWrite, DeleteBotWrite, Typed, At
  <2>2. row' \in [Channels -> RowType]
    <3>1. CASE \E x \in Statuses : SetStatus(proc[p].chan, x)
      BY <2>1, <3>1, StatusOnly
    <3>2. CASE DeleteWrite(p) \/ DeleteBotWrite(p)
      BY <1>0, <2>1, <3>2 DEF DeleteWrite, DeleteBotWrite, RowType
    <3> QED
      BY <1>6, <3>1, <3>2 DEF ConnectOk, ConnectFailed, DisconnectWrite, Statuses
  <2> QED
    BY <1>0, <2>1, <2>2, TypedByEnd
<1>7. ASSUME NEW p \in Reqs, NEW c \in Channels,
             \/ CreateChannel(p, c) \/ UpdateChannel(p, c) \/ ConnectChannel(p, c)
             \/ DisconnectChannel(p, c) \/ DeleteChannel(p, c) \/ DeleteBot(p, c)
      PROVE  Typed'
  <2>1. UNCHANGED <<conn, boot>> /\ (UNCHANGED <<client, sock>> \/ \E i \in Clients : StopClient(i))
    BY <1>0, <1>7, Arriving
  <2>2. row' \in [Channels -> RowType]
    <3>1. row[c] \in RowType
      BY <1>0
    <3>2. CASE ConnectChannel(p, c)
      BY <3>2, StatusOnly DEF ConnectChannel, Statuses
    <3>3. CASE CreateChannel(p, c)
      <4>1. PICK on \in BOOLEAN : row' = [row EXCEPT ![c].state = "live", ![c].enabled = on,
                                                   ![c].status = "DISCONNECTED"]
        BY <3>3 DEF CreateChannel
      <4> QED
        BY <1>0, <3>1, <4>1 DEF RowType, Statuses
    <3>4. CASE UpdateChannel(p, c)
      <4>1. PICK on \in BOOLEAN : row' = [row EXCEPT ![c].enabled = on]
        BY <3>4 DEF UpdateChannel
      <4> QED
        BY <1>0, <3>1, <4>1 DEF RowType
    <3>5. CASE DisconnectChannel(p, c) \/ DeleteChannel(p, c)
      BY <1>0, <3>5 DEF DisconnectChannel, DeleteChannel
    <3>6. CASE DeleteBot(p, c)
      BY <1>0, <3>1, <3>6 DEF DeleteBot, RowType, Statuses
    <3> QED
      BY <1>7, <3>2, <3>3, <3>4, <3>5, <3>6
  <2>3. MayArrive(p) /\ \/ UNCHANGED proc
                        \/ \E op \in Ops, pc \in {"drop", "off", "rm", "rmbot"} : Arrive(p, op, c, pc)
    BY <1>7, Arriving
  <2>4. ASSUME NEW op \in Ops, NEW pc \in {"drop", "off", "rm", "rmbot"}, Arrive(p, op, c, pc)
        PROVE  Typed'
    <3> DEFINE q == [Idle EXCEPT !.op = op, !.pc = pc, !.chan = c]
    <3>1. q \in ProcType /\ q.pc = pc /\ q.ws = None /\ q.chan = c
      BY DEF ProcType, PCs, Idle
    <3>2. p \in Procs /\ p # Startup /\ (boot.running <=> p = Startup) /\ UNCHANGED <<boot, world>>
      BY <1>0, <2>1, <2>3 DEF MayArrive
    <3>3. proc' = [proc EXCEPT ![p] = q]
      BY <2>4 DEF Arrive
    <3>4. q.pc \notin {"idle", "await"} /\ q.chan \in Channels /\ conn' \in [Channels -> Clients \cup {None}]
      BY <1>0, <2>1, <3>1
    <3> HIDE DEF q
    <3> QED
      BY <2>1, <2>2, <3>1, <3>2, <3>3, <3>4, TypedBySimple
  <2>5. CASE UNCHANGED proc
    BY <1>0, <2>1, <2>2, <2>5, TypedByEnd
  <2> QED
    BY <2>3, <2>4, <2>5
<1>8. ASSUME NEW w \in Sockets, MessageForDeleted(w)
      PROVE  Typed'
  <2>1. sock[w].chan \in Channels
    BY <1>0, <1>8, SocketKinds DEF MessageForDeleted
  <2>2. UNCHANGED <<proc, boot>> /\ row' \in [Channels -> RowType]
    BY <1>8, <2>1, StatusOnly DEF MessageForDeleted, Statuses
  <2>3. conn' \in [Channels -> Clients \cup {None}]
        /\ (UNCHANGED <<client, sock>> \/ \E i \in Clients : StopClient(i))
    BY <1>0, <1>8, <2>1 DEF MessageForDeleted
  <2> QED
    BY <1>0, <2>2, <2>3, TypedByEnd
<1>9. CASE Crash
  <2>1. proc' = [p \in Procs |-> Idle]
    BY <1>9 DEF Crash
  <2>2. TypeOK'
    <3>1. conn' \in [Channels -> Clients \cup {None}] /\ client' \in [Clients -> ClientType]
          /\ sock' \in [Sockets -> SocketType] /\ proc' \in [Procs -> ProcType] /\ row' = row
      BY <1>9 DEF Crash
    <3>2. boot' \in [running : BOOLEAN, todo : SUBSET Channels]
      BY <1>9 DEF Crash
    <3> QED
      BY <1>0, <3>1, <3>2, Types DEF TypeOK, RowType, ClientType, SocketType, ProcType
  <2> QED
    BY <1>9, <2>1, <2>2 DEF Typed, At, Crash, Crashes
<1>10. ASSUME NEW c \in Channels, StartupNext(c)
       PROVE  Typed'
  <2> DEFINE q == [Idle EXCEPT !.op = "boot", !.pc = "drop", !.chan = c, !.try = 1]
  <2>1. q \in ProcType /\ q.pc = "drop" /\ q.ws = None /\ q.chan = c
    BY DEF ProcType, PCs, Idle, Ops
  <2>2. /\ proc' = [proc EXCEPT ![Startup] = q] /\ UNCHANGED <<row, conn, client, sock>> /\ boot.running
        /\ boot' = [boot EXCEPT !.todo = @ \ {c}]
    BY <1>10 DEF StartupNext
  <2>3. boot' \in [running : BOOLEAN, todo : SUBSET Channels] /\ boot'.running = boot.running
    BY <1>0, <2>2
  <2> HIDE DEF q
  <2>4. \A s \in Procs \ {Startup} : At(s, "await") => sock'[proc[s].ws].state \in Opening
    BY <2>2 DEF Typed, Opening
  <2> QED
    BY <1>0, <2>1, <2>2, <2>3, <2>4, TypedByProc
<1>11. CASE StartupVerify
  <2>1. ~At(Startup, "idle") /\ ~At(Startup, "await") /\ UNCHANGED <<conn, client, sock, boot>>
        /\ proc[Startup].chan \in Channels
    BY <1>0, <1>11 DEF StartupVerify, At, Typed
  <2>2. CASE SetStatus(proc[Startup].chan, "CONNECTED") /\ Done(Startup)
    BY <1>0, <2>1, <2>2, StatusOnly, TypedByEnd DEF Statuses
  <2>3. CASE Goto(Startup, "err") /\ UNCHANGED row
    BY <1>0, <1>1, <2>1, <2>3 DEF PCs
  <2> QED
    BY <1>11, <2>2, <2>3 DEF StartupVerify
<1>12. CASE StartupRetry
  <2>1. ~At(Startup, "idle") /\ ~At(Startup, "await") /\ UNCHANGED <<conn, client, sock, boot>>
        /\ proc[Startup].chan \in Channels /\ proc[Startup].ws = None /\ boot.running
    BY <1>0, <1>12 DEF StartupRetry, At, Typed
  <2>2. CASE /\ proc[Startup].try < MaxRetries /\ UNCHANGED row
             /\ proc' = [proc EXCEPT ![Startup].pc = "drop", ![Startup].try = @ + 1]
    <3> DEFINE q == [proc[Startup] EXCEPT !.pc = "drop", !.try = @ + 1]
    <3>1. proc[Startup].try \in 0 .. MaxRetries /\ proc[Startup].try + 1 \in 0 .. MaxRetries
      BY <1>0, <2>2 DEF ProcType
    <3>2. q \in ProcType /\ q.pc = "drop" /\ q.ws = None /\ q.chan \in Channels
      BY <1>0, <2>1, <3>1 DEF ProcType, PCs
    <3>3. proc' = [proc EXCEPT ![Startup] = q]
      BY <1>0, <2>2
    <3> HIDE DEF q
    <3> QED
      BY <1>0, <2>1, <2>2, <3>2, <3>3, TypedBySimple
  <2>3. CASE SetStatus(proc[Startup].chan, "ERROR") /\ Done(Startup)
    BY <1>0, <2>1, <2>3, StatusOnly, TypedByEnd DEF Statuses
  <2> QED
    BY <1>12, <2>2, <2>3 DEF StartupRetry
<1>13. CASE StartupEnd
  <2>1. boot' \in [running : BOOLEAN, todo : SUBSET Channels] /\ ~boot'.running
    BY <1>0, <1>13 DEF StartupEnd
  <2>2. UNCHANGED <<row, conn, client, sock, proc>> /\ \A p \in Procs : At(p, "idle")
    BY <1>0, <1>13 DEF StartupEnd, Typed
  <2>3. TypeOK'
    BY <2>1, <2>2 DEF Typed, TypeOK
  <2> QED
    BY <2>1, <2>2, <2>3 DEF Typed, At
<1> QED
  BY <1>2, <1>3, <1>4, <1>5, <1>6, <1>7, <1>8, <1>9, <1>10, <1>11, <1>12, <1>13 DEF Next, Step, StartupStep

-----------------------------------------------------------------------------
(* One socket per channel                                                  *)

LEMMA OpenIsOwned ==
  ASSUME Owned, NEW c \in Channels, NEW w \in OpenSockets(c)
  PROVE  conn[c] # None /\ client[conn[c]].started /\ client[conn[c]].ws = w
BY DEF Owned, OpenSockets

\* A step on channel c leaves the others alone.
Local(c) ==
  \A d \in Channels \ {c} :
    row'[d] = row[d] /\ conn'[d] = conn[d] /\ OpenSockets(d)' = OpenSockets(d)

\* What a step of p, busy with channel c, leaves behind.
Follows(p, c) ==
  /\ Owned' /\ Local(c)
  /\ \A q \in Procs \ {p} : proc'[q] = proc[q]
  /\ At(p, "idle")' \/ (proc'[p].chan = c /\ Stage(p)')

\* To stop the client of a channel closes the socket of the channel, and no other.
LEMMA StopOwned ==
  ASSUME Typed, Owned, NEW c \in Channels, conn[c] # None, StopClient(conn[c]),
         conn' = conn \/ conn' = [conn EXCEPT ![c] = None]
  PROVE  /\ Owned' /\ OpenSockets(c)' = {}
         /\ \A d \in Channels \ {c} : OpenSockets(d)' = OpenSockets(d) /\ conn'[d] = conn[d]
                                      /\ (conn[d] # None => client'[conn[d]] = client[conn[d]])
         /\ \A w \in Sockets : sock[w].state # "free" /\ sock[w].chan # c => sock'[w] = sock[w]
<1> DEFINE i == conn[c]
           v == client[i].ws
<1>1. /\ i \in Clients /\ conn \in [Channels -> Clients \cup {None}]
      /\ client \in [Clients -> ClientType] /\ sock \in [Sockets -> SocketType]
  BY Types
<1>2. /\ client' = [client EXCEPT ![i] = NewClient]
      /\ \A w \in Sockets : /\ w # v => sock'[w] = sock[w]
                            /\ sock'[w].state = "open" => sock'[w] = sock[w]
                            /\ w = v => sock'[w].state # "open"
                            /\ sock'[w] = NoSocket \/ sock'[w].chan = sock[w].chan
                            /\ sock[w] = NoSocket => sock'[w] = NoSocket
  BY <1>1, Stops
<1>3. \A d \in Channels \ {c} : conn'[d] = conn[d] /\ (conn[d] # None => conn[d] # i /\ client'[conn[d]] = client[conn[d]])
  BY <1>1, <1>2 DEF Owned
<1>4. v # None => v \in Sockets /\ (sock[v] = NoSocket \/ sock[v].chan = c)
  BY <1>1 DEF Owned, ClientType
<1>5. NewClient.ws = None /\ None \notin Sockets /\ NoSocket.state = "free"
  BY Nothings
<1>6. client'[i] = NewClient /\ (conn'[c] = i \/ conn'[c] = None)
  BY <1>1, <1>2
<1> HIDE DEF i, v
<1>7. \A d, e \in Channels : conn'[d] = conn'[e] /\ conn'[d] # None => d = e
  BY <1>1, <1>3, <1>6 DEF Owned, i
<1>8. ASSUME NEW d \in Channels, conn'[d] # None, client'[conn'[d]].ws # None
      PROVE  sock'[client'[conn'[d]].ws] = NoSocket \/ sock'[client'[conn'[d]].ws].chan = d
  <2>1. d # c
    BY <1>5, <1>6, <1>8
  <2>2. conn'[d] = conn[d] /\ client'[conn'[d]] = client[conn[d]] /\ conn[d] \in Clients
    BY <1>1, <1>3, <1>8, <2>1
  <2> DEFINE u == client[conn[d]].ws
  <2>3. u \in Sockets /\ (sock[u] = NoSocket \/ sock[u].chan = d)
    BY <1>1, <1>8, <2>2 DEF Owned, ClientType
  <2> HIDE DEF u
  <2>4. sock'[u] = NoSocket \/ sock'[u].chan = d
    BY <1>2, <2>3, <1>4, <1>5
  <2> QED
    BY <2>2, <2>4 DEF u
<1>9. ASSUME NEW w \in Sockets, sock'[w].state = "open"
      PROVE  /\ sock'[w].chan # c /\ sock'[w] = sock[w]
             /\ conn'[sock'[w].chan] # None
             /\ client'[conn'[sock'[w].chan]].started /\ client'[conn'[sock'[w].chan]].ws = w
  <2> DEFINE d == sock[w].chan
  <2>1. sock'[w] = sock[w] /\ w # v
    BY <1>2, <1>9
  <2>2. d \in Channels /\ conn[d] # None /\ client[conn[d]].started /\ client[conn[d]].ws = w
    BY <1>1, <1>9, <2>1, SocketKinds DEF Owned
  <2>3. d # c
    BY <2>1, <2>2 DEF v, i
  <2> QED
    BY <1>3, <2>1, <2>2, <2>3
<1>10. Owned'
  BY <1>7, <1>8, <1>9 DEF Owned
<1>11. OpenSockets(c)' = {}
  BY <1>9 DEF OpenSockets
<1>12. ASSUME NEW w \in Sockets, sock[w].state # "free", sock[w].chan # c
       PROVE  sock'[w] = sock[w]
  BY <1>2, <1>4, <1>5, <1>12
<1>13. \A d \in Channels \ {c} : OpenSockets(d)' = OpenSockets(d)
  BY <1>9, <1>12 DEF OpenSockets
<1> QED
  BY <1>3, <1>10, <1>11, <1>12, <1>13 DEF i

\* Where nothing of the connections changes, nothing of them has to be shown.
LEMMA OwnedStays ==
  ASSUME UNCHANGED <<conn, client, sock>>
  PROVE  /\ Owned => Owned'
         /\ \A d : OpenSockets(d)' = OpenSockets(d)
BY DEF Owned, OpenSockets
\* A connection is made for a channel that has none.
LEMMA MakeOwned ==
  ASSUME Typed, Owned, NEW p \in Procs, MakeConnection(p),
         NEW c \in Channels, proc[p].chan = c, conn[c] = None
  PROVE  /\ Owned' /\ conn'[c] # None /\ client'[conn'[c]] = NewClient
         /\ \A d \in Channels \ {c} : conn'[d] = conn[d]
<1> DEFINE i == CHOOSE x \in FreeClients : TRUE
<1>1. /\ conn \in [Channels -> Clients \cup {None}] /\ client \in [Clients -> ClientType]
      /\ sock \in [Sockets -> SocketType]
      /\ None \notin Clients /\ NewClient.ws = None /\ NoSocket.state = "free"
  BY Types, Nothings
<1>2. /\ conn' = [conn EXCEPT ![c] = i] /\ client' = [client EXCEPT ![i] = NewClient] /\ UNCHANGED sock
  BY DEF MakeConnection
<1>3. i \in Clients /\ \A d \in Channels : conn[d] # i
  BY DEF MakeConnection, FreeClients
<1> HIDE DEF i
<1>5. /\ conn'[c] = i /\ client'[i] = NewClient
      /\ \A d \in Channels \ {c} : conn'[d] = conn[d] /\ (conn[d] # None => client'[conn[d]] = client[conn[d]])
  BY <1>1, <1>2, <1>3
<1>6. \A d, e \in Channels : conn'[d] = conn'[e] /\ conn'[d] # None => d = e
  BY <1>3, <1>5 DEF Owned
<1>7. \A d \in Channels : conn'[d] # None /\ client'[conn'[d]].ws # None =>
        sock'[client'[conn'[d]].ws] = NoSocket \/ sock'[client'[conn'[d]].ws].chan = d
  BY <1>1, <1>2, <1>5 DEF Owned
<1>8. ASSUME NEW w \in Sockets, sock'[w].state = "open"
      PROVE  /\ conn'[sock'[w].chan] # None
             /\ client'[conn'[sock'[w].chan]].started /\ client'[conn'[sock'[w].chan]].ws = w
  <2> DEFINE d == sock[w].chan
  <2>1. d \in Channels /\ conn[d] # None /\ client[conn[d]].started /\ client[conn[d]].ws = w
    BY <1>1, <1>2, <1>8, SocketKinds DEF Owned
  <2>2. d # c
    BY <2>1
  <2> QED
    BY <1>2, <1>5, <2>1, <2>2
<1>9. Owned'
  BY <1>6, <1>7, <1>8 DEF Owned
<1> QED
  BY <1>1, <1>3, <1>5, <1>9

\* A new socket is dialled by the client of its channel, which has none open.
LEMMA DialOwned ==
  ASSUME Typed, Owned, NEW p \in Procs, Dial(p), Stage(p), NEW c \in Channels, proc[p].chan = c
  PROVE  /\ Owned' /\ UNCHANGED <<row, conn>> /\ At(p, "await")'
         /\ \A d \in Channels : OpenSockets(d)' = OpenSockets(d)
         /\ \A q \in Procs \ {p} : proc'[q] = proc[q]
         /\ proc'[p].chan = c /\ Stage(p)'
<1> DEFINE w == CHOOSE x \in FreeSockets : TRUE
           i == conn[c]
<1>1. /\ conn \in [Channels -> Clients \cup {None}] /\ client \in [Clients -> ClientType]
      /\ sock \in [Sockets -> SocketType] /\ proc \in [Procs -> ProcType]
      /\ None \notin Clients /\ None \notin Sockets /\ NewClient.ws = None /\ ~NewClient.started
      /\ NoSocket.state = "free"
  BY Types, Nothings
<1>2. i # None /\ client[i] = NewClient /\ i \in Clients /\ LiveRow(c) /\ row[c].bot = "live"
  BY <1>1 DEF Dial, Stage, At
<1>3. /\ FreeSockets # {} /\ client' = [client EXCEPT ![i].ws = w]
      /\ sock' = [sock EXCEPT ![w] = [chan |-> c, state |-> "starting"]]
      /\ proc' = [proc EXCEPT ![p].pc = "await", ![p].client = i, ![p].ws = w]
      /\ UNCHANGED <<row, conn>>
  BY <1>1, <1>2 DEF Dial
<1>4. w \in Sockets /\ sock[w].state = "free" /\ \A j \in Clients \ FreeClients : client[j].ws # w
  BY <1>3 DEF FreeSockets
<1>5. \A d \in Channels : conn[d] # None => conn[d] \in Clients \ FreeClients
  BY <1>1 DEF FreeClients
<1>6. \A d \in Channels \ {c} : conn[d] # i
  BY <1>2 DEF Owned
<1>14. conn[c] = i
  OBVIOUS
<1> HIDE DEF w, i
<1>7. /\ client'[i] = [client[i] EXCEPT !.ws = w] /\ client'[i].ws = w
      /\ \A j \in Clients \ {i} : client'[j] = client[j]
      /\ sock'[w] = [chan |-> c, state |-> "starting"]
      /\ \A v \in Sockets \ {w} : sock'[v] = sock[v]
  BY <1>1, <1>2, <1>3, <1>4 DEF ClientType
<1>8. ASSUME NEW d \in Channels, conn[d] # None, client'[conn[d]].ws # None
      PROVE  sock'[client'[conn[d]].ws] = NoSocket \/ sock'[client'[conn[d]].ws].chan = d
  <2>1. CASE d = c
    <3>1. client'[conn[d]].ws = w
      BY <1>7, <1>14, <2>1
    <3>2. sock'[w].chan = d
      BY <1>7, <2>1
    <3> QED
      BY <3>1, <3>2
  <2>2. CASE d # c
    <3>1. conn[d] \in Clients /\ client'[conn[d]] = client[conn[d]] /\ client[conn[d]].ws # w
      BY <1>1, <1>4, <1>5, <1>6, <1>7, <1>8, <2>2
    <3>2. client[conn[d]].ws \in Sockets
      BY <1>1, <1>8, <3>1 DEF ClientType
    <3> QED
      BY <1>7, <1>8, <3>1, <3>2 DEF Owned
  <2> QED
    BY <2>1, <2>2
<1>9. ASSUME NEW v \in Sockets, sock'[v].state = "open"
      PROVE  /\ sock'[v] = sock[v] /\ conn[sock'[v].chan] # None
             /\ client'[conn[sock'[v].chan]].started /\ client'[conn[sock'[v].chan]].ws = v
  <2>1. v # w /\ sock'[v] = sock[v]
    BY <1>7, <1>9
  <2> DEFINE d == sock[v].chan
  <2>2. d \in Channels /\ conn[d] # None /\ client[conn[d]].started /\ client[conn[d]].ws = v
    BY <1>1, <1>9, <2>1, SocketKinds DEF Owned
  <2>3. conn[d] # i /\ conn[d] \in Clients
    BY <1>1, <1>2, <2>2
  <2> QED
    BY <1>7, <2>1, <2>2, <2>3
<1>10. Owned'
  BY <1>3, <1>8, <1>9 DEF Owned
<1>11. \A d \in Channels : OpenSockets(d)' = OpenSockets(d)
  BY <1>4, <1>7 DEF OpenSockets
<1>12. /\ proc'[p].pc = "await" /\ proc'[p].client = i /\ proc'[p].ws = w /\ proc'[p].chan = c
       /\ \A q \in Procs \ {p} : proc'[q] = proc[q]
  BY <1>1, <1>3 DEF ProcType
<1>13. Stage(p)'
  BY <1>2, <1>3, <1>7, <1>12, <1>14 DEF Stage, At, LiveRow
<1> QED
  BY <1>3, <1>10, <1>11, <1>12, <1>13 DEF At

\* The socket that was being opened is open, or has failed to.
LEMMA AwaitOwned ==
  ASSUME Typed, Owned, NEW p \in Procs, DialOk(p) \/ DialFail(p), Stage(p),
         NEW c \in Channels, proc[p].chan = c
  PROVE  Follows(p, c) /\ UNCHANGED row /\ proc'[p].pc \in {"ok", "err"}
<1> DEFINE w == proc[p].ws
           i == proc[p].client
<1>1. /\ conn \in [Channels -> Clients \cup {None}] /\ client \in [Clients -> ClientType]
      /\ sock \in [Sockets -> SocketType] /\ proc \in [Procs -> ProcType]
      /\ None \notin Clients /\ None \notin Sockets
      /\ NoSocket.state = "free"
  BY Types, Nothings
<1>2. /\ w \in Sockets /\ i \in Clients /\ conn[c] = i /\ client[i].ws = w
      /\ sock[w] = [chan |-> c, state |-> "starting"] /\ LiveRow(c) /\ row[c].bot = "live"
  BY DEF DialOk, DialFail, Typed, Stage, At
<1>3. UNCHANGED <<row, conn>>
  BY DEF DialOk, DialFail
<1>4. /\ \/ /\ sock' = [sock EXCEPT ![w] = [sock[w] EXCEPT !.state = "open"]]
            /\ client' = [client EXCEPT ![i].started = TRUE]
            /\ proc' = [proc EXCEPT ![p].pc = "ok", ![p].client = None, ![p].ws = None]
         \/ /\ sock' = [sock EXCEPT ![w] = NoSocket]
            /\ client' = client
            /\ proc' = [proc EXCEPT ![p].pc = "err", ![p].client = None, ![p].ws = None]
  <2>1. CASE DialOk(p)
    <3>1. sock[w].state # "aborted"
      BY <1>2
    <3> QED
      BY <2>1, <3>1 DEF DialOk
  <2>2. CASE DialFail(p)
    BY <2>2 DEF DialFail
  <2> QED
    BY <2>1, <2>2
<1> HIDE DEF w, i
<1>5. /\ sock'[w] = [chan |-> c, state |-> "open"] \/ sock'[w] = NoSocket
      /\ \A v \in Sockets \ {w} : sock'[v] = sock[v]
      /\ client'[i].ws = w /\ (sock'[w] # NoSocket => client'[i].started)
      /\ \A j \in Clients \ {i} : client'[j] = client[j]
      /\ proc'[p].chan = c /\ (\A q \in Procs \ {p} : proc'[q] = proc[q])
      /\ \/ proc'[p].pc = "ok" /\ sock'[w] = [chan |-> c, state |-> "open"]
         \/ proc'[p].pc = "err" /\ sock'[w] = NoSocket
  <2>1. CASE /\ sock' = [sock EXCEPT ![w] = [sock[w] EXCEPT !.state = "open"]]
             /\ client' = [client EXCEPT ![i].started = TRUE]
             /\ proc' = [proc EXCEPT ![p].pc = "ok", ![p].client = None, ![p].ws = None]
    <3>1. sock'[w] = [chan |-> c, state |-> "open"] /\ \A v \in Sockets \ {w} : sock'[v] = sock[v]
      BY <1>1, <1>2, <2>1
    <3>2. client'[i].ws = w /\ client'[i].started /\ \A j \in Clients \ {i} : client'[j] = client[j]
      BY <1>1, <1>2, <2>1 DEF ClientType
    <3>3. proc'[p].chan = c /\ (\A q \in Procs \ {p} : proc'[q] = proc[q]) /\ proc'[p].pc = "ok"
      BY <1>1, <2>1 DEF ProcType
    <3> QED
      BY <3>1, <3>2, <3>3
  <2>2. CASE /\ sock' = [sock EXCEPT ![w] = NoSocket]
             /\ client' = client
             /\ proc' = [proc EXCEPT ![p].pc = "err", ![p].client = None, ![p].ws = None]
    BY <1>1, <1>2, <2>2 DEF ProcType
  <2> QED
    BY <1>4, <2>1, <2>2
<1>6. \A d \in Channels \ {c} : conn[d] # i
  BY <1>1, <1>2 DEF Owned
<1>7. ASSUME NEW d \in Channels, conn[d] # None, client'[conn[d]].ws # None
      PROVE  sock'[client'[conn[d]].ws] = NoSocket \/ sock'[client'[conn[d]].ws].chan = d
  <2>1. CASE d = c
    BY <1>2, <1>5, <2>1
  <2>2. CASE d # c
    <3>1. conn[d] \in Clients /\ client'[conn[d]] = client[conn[d]]
      BY <1>1, <1>5, <1>6, <1>7, <2>2
    <3>2. client[conn[d]].ws # w /\ client[conn[d]].ws \in Sockets
      BY <1>1, <1>2, <1>7, <2>2, <3>1 DEF Owned, ClientType
    <3> QED
      BY <1>5, <1>7, <3>1, <3>2 DEF Owned
  <2> QED
    BY <2>1, <2>2
<1>8. ASSUME NEW v \in Sockets \ {w}, sock[v].state = "open"
      PROVE  /\ sock[v].chan \in Channels \ {c} /\ conn[sock[v].chan] # None
             /\ client'[conn[sock[v].chan]].started /\ client'[conn[sock[v].chan]].ws = v
  <2> DEFINE d == sock[v].chan
  <2>1. d \in Channels /\ conn[d] # None /\ client[conn[d]].started /\ client[conn[d]].ws = v
    BY <1>1, <1>8, SocketKinds DEF Owned
  <2>2. d # c
    BY <1>2, <2>1
  <2> QED
    BY <1>1, <1>5, <1>6, <2>1, <2>2
<1>9. Owned'
  <2>1. ASSUME NEW v \in Sockets, sock'[v].state = "open"
        PROVE  /\ conn'[sock'[v].chan] # None
               /\ client'[conn'[sock'[v].chan]].started /\ client'[conn'[sock'[v].chan]].ws = v
    <3>1. CASE v = w
      BY <1>1, <1>2, <1>3, <1>5, <2>1, <3>1
    <3>2. CASE v # w
      BY <1>3, <1>5, <1>8, <2>1, <3>2
    <3> QED
      BY <3>1, <3>2
  <2> QED
    BY <1>3, <1>7, <2>1 DEF Owned
<1>10. \A d \in Channels \ {c} : OpenSockets(d)' = OpenSockets(d)
  <2>1. sock[w].chan = c /\ (sock'[w].chan = c \/ sock'[w].state = "free")
    BY <1>1, <1>2, <1>5
  <2> QED
    BY <1>5, <2>1 DEF OpenSockets
<1>11. Stage(p)'
  <2>1. CASE proc'[p].pc = "ok" /\ sock'[w] = [chan |-> c, state |-> "open"]
    <3>1. w \in OpenSockets(c)'
      BY <1>2, <2>1 DEF OpenSockets
    <3> QED
      BY <1>2, <1>3, <1>5, <2>1, <3>1 DEF Stage, At, LiveRow
  <2>2. CASE proc'[p].pc = "err" /\ sock'[w] = NoSocket
    <3>1. OpenSockets(c)' = {}
      BY <1>1, <1>5, <1>8, <2>2 DEF OpenSockets
    <3> QED
      BY <1>2, <1>3, <1>5, <2>2, <3>1 DEF Stage, At, LiveRow
  <2> QED
    BY <1>5, <2>1, <2>2
<1> QED
  BY <1>3, <1>5, <1>9, <1>10, <1>11 DEF Follows, Local
\* A step of a request, or of the startup, on its channel.
LEMMA StepFollows ==
  ASSUME Typed, Owned, NEW p \in Procs, Step(p), Stage(p), NEW c \in Channels, proc[p].chan = c
  PROVE  /\ Follows(p, c)
         /\ row'[c].bot = "deleted" => row'[c].state = "erased"
         /\ At(p, "idle")' => p # Startup /\ (row'[c].state = "live" => SaysSo(c)')
         /\ p = Startup => UNCHANGED row
<1>1. /\ row \in [Channels -> RowType] /\ proc \in [Procs -> ProcType] /\ Idle.pc = "idle"
      /\ Startup \notin Reqs
  BY Types, Nothings
<1>2. CASE DropOld(p)
  <2>1. LiveRow(c) /\ row[c].bot = "live" /\ UNCHANGED row
    BY <1>2 DEF DropOld, Stage, At
  <2>2. proc'[p].pc = "make" /\ proc'[p].chan = c /\ \A q \in Procs \ {p} : proc'[q] = proc[q]
    BY <1>1, <1>2 DEF DropOld, Goto, ProcType
  <2>3. /\ Owned' /\ conn'[c] = None
        /\ \A d \in Channels \ {c} : OpenSockets(d)' = OpenSockets(d) /\ conn'[d] = conn[d]
    <3>1. CASE conn[c] = None
      BY <1>2, <3>1, OwnedStays DEF DropOld
    <3>2. CASE conn[c] # None
      <4>1. StopClient(conn[c]) /\ conn' = [conn EXCEPT ![c] = None]
        BY <1>2, <3>2 DEF DropOld
      <4> QED
        BY <3>2, <4>1, StopOwned, Types
    <3> QED
      BY <3>1, <3>2
  <2>4. Stage(p)'
    BY <2>1, <2>2, <2>3 DEF Stage, At, LiveRow
  <2> QED
    BY <2>1, <2>2, <2>3, <2>4 DEF Follows, Local, At
<1>3. CASE MakeConnection(p)
  <2>1. LiveRow(c) /\ row[c].bot = "live" /\ UNCHANGED <<row, sock>> /\ conn[c] = None
    BY <1>3 DEF MakeConnection, Stage, At
  <2>2. proc'[p].pc = "dial" /\ proc'[p].chan = c /\ \A q \in Procs \ {p} : proc'[q] = proc[q]
    BY <1>1, <1>3 DEF MakeConnection, Goto, ProcType
  <2>3. /\ Owned' /\ conn'[c] # None /\ client'[conn'[c]] = NewClient
        /\ \A d \in Channels \ {c} : conn'[d] = conn[d]
    BY <1>3, <2>1, MakeOwned
  <2>4. \A d \in Channels : OpenSockets(d)' = OpenSockets(d)
    BY <2>1 DEF OpenSockets
  <2>5. Stage(p)'
    BY <2>1, <2>2, <2>3 DEF Stage, At, LiveRow, NewClient
  <2> QED
    BY <2>1, <2>2, <2>3, <2>4, <2>5 DEF Follows, Local, At
<1>4. CASE Dial(p)
  <2>1. LiveRow(c) /\ row[c].bot = "live"
    BY <1>4 DEF Dial, Stage, At
  <2>2. /\ Owned' /\ UNCHANGED <<row, conn>> /\ At(p, "await")'
        /\ \A d \in Channels : OpenSockets(d)' = OpenSockets(d)
        /\ \A q \in Procs \ {p} : proc'[q] = proc[q]
        /\ proc'[p].chan = c /\ Stage(p)'
    BY <1>4, DialOwned
  <2> QED
    BY <2>1, <2>2 DEF Follows, Local, At
<1>5. CASE DialOk(p) \/ DialFail(p)
  <2>1. LiveRow(c) /\ row[c].bot = "live"
    BY <1>5 DEF DialOk, DialFail, Stage, At
  <2>2. Follows(p, c) /\ UNCHANGED row /\ proc'[p].pc \in {"ok", "err"}
    BY <1>5, AwaitOwned
  <2> QED
    BY <2>1, <2>2 DEF At, LiveRow
<1>6. CASE ConnectOk(p) \/ ConnectFailed(p) \/ DisconnectWrite(p) \/ DeleteWrite(p) \/ DeleteBotWrite(p)
  <2>1. /\ UNCHANGED <<conn, client, sock>> /\ Done(p) /\ p # Startup
        /\ proc[p].pc \in {"ok", "err", "off", "rm", "rmbot"}
    BY <1>1, <1>6 DEF ConnectOk, ConnectFailed, DisconnectWrite, DeleteWrite, DeleteBotWrite, At, Typed
  <2>2. Owned' /\ (\A d \in Channels : OpenSockets(d)' = OpenSockets(d)) /\ conn' = conn
    BY <2>1, OwnedStays
  <2>3. proc'[p].pc = "idle" /\ \A q \in Procs \ {p} : proc'[q] = proc[q]
    BY <1>1, <2>1 DEF Done
  <2>4. /\ \A d \in Channels \ {c} : row'[d] = row[d]
        /\ row'[c].bot = "deleted" => row'[c].state = "erased"
        /\ row'[c].state = "live" => (row'[c].status = "CONNECTED" <=> OpenSockets(c) # {})
    <3>1. CASE ConnectOk(p)
      <4>1. LiveRow(c) /\ row[c].bot = "live" /\ OpenSockets(c) # {} /\ SetStatus(c, "CONNECTED")
        BY <3>1 DEF ConnectOk, Stage, At
      <4> QED
        BY <4>1, StatusOnly DEF LiveRow, Statuses
    <3>2. CASE ConnectFailed(p)
      <4>1. LiveRow(c) /\ row[c].bot = "live" /\ OpenSockets(c) = {} /\ SetStatus(c, "ERROR")
        BY <3>2 DEF ConnectFailed, Stage, At
      <4> QED
        BY <4>1, StatusOnly DEF LiveRow, Statuses
    <3>3. CASE DisconnectWrite(p)
      <4>1. LiveRow(c) /\ row[c].bot = "live" /\ OpenSockets(c) = {} /\ SetStatus(c, "DISCONNECTED")
        BY <3>3 DEF DisconnectWrite, Stage, At
      <4> QED
        BY <4>1, StatusOnly DEF LiveRow, Statuses
    <3>4. CASE DeleteWrite(p)
      <4>1. row[c].bot = "live" /\ row' = [row EXCEPT ![c].state = "none"]
        BY <3>4 DEF DeleteWrite, Stage, At
      <4> QED
        BY <1>1, <4>1 DEF RowType
    <3>5. CASE DeleteBotWrite(p)
      <4>1. row[c].state = "erased" /\ row' = [row EXCEPT ![c].bot = "deleted"]
        BY <3>5 DEF DeleteBotWrite, Stage, At
      <4> QED
        BY <1>1, <4>1 DEF RowType
    <3> QED
      BY <1>6, <3>1, <3>2, <3>3, <3>4, <3>5
  <2>5. row'[c].state = "live" => SaysSo(c)'
    BY <2>2, <2>4 DEF SaysSo
  <2> QED
    BY <2>1, <2>2, <2>3, <2>4, <2>5 DEF Follows, Local, At
<1> QED
  BY <1>2, <1>3, <1>4, <1>5, <1>6 DEF Step

\* A request comes in, and finds everything at rest.
LEMMA ArrivalFollows ==
  ASSUME Typed, Owned, NEW p \in Reqs, NEW c \in Channels, At(p, "idle"),
         row[c].bot = "deleted" => row[c].state = "erased",
         \/ CreateChannel(p, c) \/ UpdateChannel(p, c) \/ ConnectChannel(p, c)
         \/ DisconnectChannel(p, c) \/ DeleteChannel(p, c) \/ DeleteBot(p, c)
  PROVE  /\ Follows(p, c)
         /\ row'[c].bot = "deleted" => row'[c].state = "erased"
         /\ At(p, "idle")' => LiveRow(c) /\ (SaysSo(c) => SaysSo(c)')
<1>1. /\ row \in [Channels -> RowType] /\ proc \in [Procs -> ProcType] /\ Idle.pc = "idle"
      /\ conn \in [Channels -> Clients \cup {None}] /\ p \in Procs
  BY Types, Nothings DEF Procs
<1>2. ASSUME NEW op \in Ops, NEW pc \in PCs \ {"idle", "make", "dial", "await", "ok", "err"},
             Arrive(p, op, c, pc)
      PROVE  /\ proc'[p].chan = c /\ proc'[p].pc = pc
             /\ \A q \in Procs \ {p} : proc'[q] = proc[q]
  BY <1>1, <1>2 DEF Arrive, Idle
<1>3. CASE CreateChannel(p, c) \/ UpdateChannel(p, c) \/ ConnectChannel(p, c) \/ DeleteBot(p, c)
  <2>1. UNCHANGED <<conn, client, sock>>
    BY <1>3 DEF CreateChannel, UpdateChannel, ConnectChannel, DeleteBot
  <2>2. Owned' /\ (\A d \in Channels : OpenSockets(d)' = OpenSockets(d)) /\ conn' = conn
    BY <2>1, OwnedStays
  <2>3. CASE CreateChannel(p, c)
    <3>1. /\ row[c].bot = "live" /\ Arrive(p, "create", c, "drop")
          /\ \E on \in BOOLEAN : row' = [row EXCEPT ![c].state = "live", ![c].enabled = on,
                                                    ![c].status = "DISCONNECTED"]
      BY <2>3 DEF CreateChannel
    <3>2. /\ row'[c].bot = "live" /\ row'[c].state = "live" /\ \A d \in Channels \ {c} : row'[d] = row[d]
      BY <1>1, <3>1 DEF RowType
    <3>3. proc'[p].chan = c /\ proc'[p].pc = "drop" /\ \A q \in Procs \ {p} : proc'[q] = proc[q]
      BY <1>2, <3>1 DEF Ops, PCs
    <3> QED
      BY <2>2, <3>2, <3>3 DEF Follows, Local, Stage, At, LiveRow
  <2>4. CASE UpdateChannel(p, c)
    <3>1. LiveRow(c) /\ \E on \in BOOLEAN : row' = [row EXCEPT ![c].enabled = on]
      BY <2>4 DEF UpdateChannel
    <3>2. /\ row'[c].bot = row[c].bot /\ row'[c].state = "live" /\ row'[c].status = row[c].status
          /\ row[c].bot = "live" /\ \A d \in Channels \ {c} : row'[d] = row[d]
      BY <1>1, <3>1 DEF RowType, LiveRow
    <3>3. CASE Arrive(p, "update", c, "drop")
      <4>1. proc'[p].chan = c /\ proc'[p].pc = "drop" /\ \A q \in Procs \ {p} : proc'[q] = proc[q]
        BY <1>2, <3>3 DEF Ops, PCs
      <4> QED
        BY <2>2, <3>2, <4>1 DEF Follows, Local, Stage, At, LiveRow
    <3>4. CASE UNCHANGED proc
      BY <2>2, <3>1, <3>2, <3>4 DEF Follows, Local, At, SaysSo
    <3> QED
      BY <2>4, <3>3, <3>4 DEF UpdateChannel
  <2>5. CASE ConnectChannel(p, c)
    <3>1. LiveRow(c) /\ SetStatus(c, "CONNECTING") /\ Arrive(p, "connect", c, "drop")
      BY <2>5 DEF ConnectChannel
    <3>2. /\ row'[c].bot = "live" /\ row'[c].state = "live" /\ \A d \in Channels \ {c} : row'[d] = row[d]
      BY <1>1, <3>1, StatusOnly DEF RowType, LiveRow, Statuses
    <3>3. proc'[p].chan = c /\ proc'[p].pc = "drop" /\ \A q \in Procs \ {p} : proc'[q] = proc[q]
      BY <1>2, <3>1 DEF Ops, PCs
    <3> QED
      BY <2>2, <3>2, <3>3 DEF Follows, Local, Stage, At, LiveRow
  <2>6. CASE DeleteBot(p, c)
    <3>1. /\ row' = [row EXCEPT ![c].state = "erased", ![c].enabled = FALSE, ![c].status = "DISCONNECTED"]
          /\ Arrive(p, "deletebot", c, "rmbot")
      BY <2>6 DEF DeleteBot
    <3>2. row'[c].state = "erased" /\ \A d \in Channels \ {c} : row'[d] = row[d]
      BY <1>1, <3>1 DEF RowType
    <3>3. proc'[p].chan = c /\ proc'[p].pc = "rmbot" /\ \A q \in Procs \ {p} : proc'[q] = proc[q]
      BY <1>2, <3>1 DEF Ops, PCs
    <3> QED
      BY <2>2, <3>2, <3>3 DEF Follows, Local, Stage, At, LiveRow
  <2> QED
    BY <1>3, <2>3, <2>4, <2>5, <2>6
<1>4. CASE DisconnectChannel(p, c) \/ DeleteChannel(p, c)
  <2>1. PICK op \in Ops, pc \in {"off", "rm"} : Arrive(p, op, c, pc)
    BY <1>4 DEF DisconnectChannel, DeleteChannel, Ops
  <2>2. proc'[p].chan = c /\ proc'[p].pc = pc /\ \A q \in Procs \ {p} : proc'[q] = proc[q]
    BY <1>2, <2>1 DEF PCs
  <2>3. /\ LiveRow(c) /\ UNCHANGED <<row, conn>> /\ row[c].bot = "live"
    BY <1>1, <1>4 DEF DisconnectChannel, DeleteChannel, LiveRow, RowType
  <2>4. /\ Owned' /\ OpenSockets(c)' = {}
        /\ \A d \in Channels \ {c} : OpenSockets(d)' = OpenSockets(d)
    <3>1. CASE conn[c] = None
      <4>1. OpenSockets(c) = {}
        BY <3>1, OpenIsOwned
      <4> QED
        BY <1>4, <3>1, <4>1, OwnedStays DEF DisconnectChannel, DeleteChannel
    <3>2. CASE conn[c] # None
      <4>1. StopClient(conn[c]) /\ conn' = conn
        BY <1>4, <3>2 DEF DisconnectChannel, DeleteChannel
      <4> QED
        BY <3>2, <4>1, StopOwned
    <3> QED
      BY <3>1, <3>2
  <2> QED
    BY <2>2, <2>3, <2>4 DEF Follows, Local, Stage, At, LiveRow
<1> QED
  BY <1>3, <1>4, Zenon
LEMMA InTurnKeeps ==
  ASSUME InTurn, NEW p \in Procs, NEW c \in Channels, Follows(p, c),
         \A q \in Procs \ {p} : At(q, "idle")
  PROVE  InTurn'
BY DEF InTurn, Follows, At

LEMMA TruthKeeps ==
  ASSUME Truthful, NEW p \in Procs, NEW c \in Channels, Follows(p, c), UNCHANGED world,
         \A q \in Procs \ {p} : At(q, "idle"), At(p, "idle") \/ proc[p].chan = c,
         row'[c].bot = "deleted" => row'[c].state = "erased",
         ~Crashes /\ At(p, "idle")' /\ LiveRow(c)' => SaysSo(c)'
  PROVE  Truthful'
<1>1. Crashes' = Crashes
  BY DEF Crashes
<1>2. ASSUME NEW d \in Channels PROVE row'[d].bot = "deleted" => row'[d].state = "erased"
  BY DEF Truthful, Follows, Local
<1>3. ASSUME ~Crashes, NEW d \in Channels, LiveRow(d)', Untouched(d)'
      PROVE  SaysSo(d)'
  <2>1. CASE d = c
    BY <1>3, <2>1 DEF Untouched, Follows, At
  <2>2. CASE d # c
    <3>1. LiveRow(d) /\ row'[d] = row[d] /\ OpenSockets(d)' = OpenSockets(d)
      BY <1>3, <2>2 DEF Follows, Local, LiveRow
    <3>2. Untouched(d)
      BY <2>2 DEF Untouched
    <3> QED
      BY <1>3, <3>1, <3>2 DEF Truthful, SaysSo
  <2> QED
    BY <2>1, <2>2
<1> QED
  BY <1>1, <1>2, <1>3 DEF Truthful

LEMMA StartingKeeps ==
  ASSUME Starting, NEW c \in Channels, Startup \in Procs, Follows(Startup, c),
         \A q \in Procs \ {Startup} : At(q, "idle"),
         At(Startup, "idle") \/ proc[Startup].chan = c,
         boot'.todo \subseteq boot.todo, boot.todo \ {c} \subseteq boot'.todo, boot.todo \subseteq Channels,
         row'[c].state = row[c].state, row'[c].enabled = row[c].enabled, row'[c].bot = row[c].bot,
         At(Startup, "idle")' /\ Wanted(c)' => Decided(c)'
  PROVE  Starting'
<1>1. \A d \in Channels : Wanted(d)' = Wanted(d)
  BY DEF Follows, Local, Wanted, LiveRow
<1>2. ASSUME NEW d \in Channels \ boot'.todo, Wanted(d), Untouched(d)'
      PROVE  Decided(d)'
  <2>1. CASE d = c
    BY <1>1, <1>2, <2>1 DEF Untouched, Follows, At
  <2>2. CASE d # c
    <3>1. row'[d] = row[d] /\ OpenSockets(d)' = OpenSockets(d) /\ d \notin boot.todo
      BY <1>2, <2>2 DEF Follows, Local
    <3>2. Untouched(d)
      BY <2>2 DEF Untouched
    <3> QED
      BY <1>2, <3>1, <3>2 DEF Starting, Decided
  <2> QED
    BY <2>1, <2>2
<1> QED
  BY <1>1, <1>2 DEF Starting

\* What p has reached with its channel d does not depend on other channels.
LEMMA StageStays ==
  ASSUME NEW p \in Procs, Stage(p), NEW d \in Channels, proc[p].chan = d,
         proc'[p] = proc[p], row'[d] = row[d], conn'[d] = conn[d],
         conn[d] # None => client'[conn[d]] = client[conn[d]],
         OpenSockets(d)' = OpenSockets(d),
         At(p, "await") => sock'[proc[p].ws] = sock[proc[p].ws] /\ conn[d] # None
  PROVE  Stage(p)'
<1>1. proc'[p].chan = d /\ proc'[p].pc = proc[p].pc /\ proc'[p].ws = proc[p].ws
      /\ proc'[p].client = proc[p].client
  OBVIOUS
<1>2. \A x : OpenSockets(x)' = {w \in Sockets : sock'[w].chan = x /\ sock'[w].state = "open"}
  BY DEF OpenSockets
<1> QED
  BY <1>1, <1>2 DEF Stage, At, LiveRow, NewClient

\* A message for a deleted bot ends the connection of its channel, with which
\* nobody is busy.
LEMMA MessageFollows ==
  ASSUME Typed, InTurn, NEW w \in Sockets, MessageForDeleted(w), UNCHANGED world
  PROVE  /\ InTurn' /\ UNCHANGED boot
         /\ Truthful => Truthful'
         /\ Starting => Starting'
<1> DEFINE c == sock[w].chan
<1>1. /\ conn \in [Channels -> Clients \cup {None}] /\ client \in [Clients -> ClientType]
      /\ sock \in [Sockets -> SocketType] /\ row \in [Channels -> RowType]
      /\ sock[w].state = "open" /\ c \in Channels /\ row[c].bot = "deleted" /\ UNCHANGED <<proc, boot>>
      /\ boot.todo \subseteq Channels
  BY Types, SocketKinds DEF MessageForDeleted
<1>2. conn[c] # None /\ StopClient(conn[c]) /\ conn' = [conn EXCEPT ![c] = None] /\ SetStatus(c, "DISCONNECTED")
  BY <1>1 DEF MessageForDeleted, InTurn, Owned
<1> HIDE DEF c
<1>3. /\ Owned' /\ \A d \in Channels \ {c} : OpenSockets(d)' = OpenSockets(d) /\ conn'[d] = conn[d]
                                             /\ (conn[d] # None => client'[conn[d]] = client[conn[d]])
      /\ \A v \in Sockets : sock[v].state # "free" /\ sock[v].chan # c => sock'[v] = sock[v]
  BY <1>1, <1>2, StopOwned DEF InTurn
<1>4. \A d \in Channels : /\ row'[d].state = row[d].state /\ row'[d].enabled = row[d].enabled
                          /\ row'[d].bot = row[d].bot /\ (d # c => row'[d] = row[d])
  BY <1>1, <1>2, StatusOnly DEF Statuses
<1>5. ASSUME NEW p \in Procs, ~At(p, "idle"), NEW d \in Channels, proc[p].chan = d
      PROVE  Stage(p)'
  <2>1. Stage(p) /\ proc'[p] = proc[p]
    BY <1>1, <1>5 DEF InTurn
  <2>2. CASE At(p, "rmbot")
    BY <1>4, <1>5, <2>1, <2>2 DEF Stage, At
  <2>3. CASE ~At(p, "rmbot")
    <3>1. d # c /\ row'[d] = row[d]
      BY <1>1, <1>4, <1>5, <2>1, <2>3 DEF Stage
    <3>2. At(p, "await") => sock'[proc[p].ws] = sock[proc[p].ws] /\ conn[d] # None
      <4>1. At(p, "await") => /\ proc[p].ws \in Sockets /\ sock[proc[p].ws] = [chan |-> d, state |-> "starting"]
                              /\ conn[d] = proc[p].client /\ proc[p].client \in Clients
        BY <1>5, <2>1 DEF Stage, Typed
      <4> QED
        BY <1>3, <3>1, <4>1, Nothings
    <3> QED
      BY <1>3, <1>5, <2>1, <3>1, <3>2, StageStays
  <2> QED
    BY <2>2, <2>3
<1>6. InTurn'
  <2>1. \A p \in Procs : ~At(p, "idle") => proc[p].chan \in Channels
    BY DEF Typed
  <2> QED
    BY <1>1, <1>3, <1>5, <2>1 DEF InTurn, At
<1>7. ASSUME Truthful PROVE Truthful'
  <2>1. row[c].state = "erased"
    BY <1>1, <1>7 DEF Truthful
  <2>2. Crashes' = Crashes /\ \A d \in Channels : Untouched(d)' = Untouched(d)
    BY <1>1 DEF Crashes, Untouched, At
  <2>3. \A d \in Channels \ {c} : SaysSo(d)' = SaysSo(d)
    BY <1>3, <1>4 DEF SaysSo
  <2> QED
    BY <1>4, <1>7, <2>1, <2>2, <2>3 DEF Truthful, LiveRow
<1>8. ASSUME Starting PROVE Starting'
  <2>1. \A d \in Channels : Wanted(d)' = Wanted(d) /\ Untouched(d)' = Untouched(d)
    BY <1>1, <1>4 DEF Wanted, LiveRow, Untouched, At
  <2>2. \A d \in Channels \ {c} : Decided(d)' = Decided(d)
    BY <1>3, <1>4 DEF Decided
  <2>3. ~Wanted(c)
    BY <1>1 DEF Wanted
  <2> QED
    BY <1>1, <1>8, <2>1, <2>2, <2>3 DEF Starting
<1> QED
  BY <1>1, <1>6, <1>7, <1>8
-----------------------------------------------------------------------------
(* The invariant                                                           *)

LEMMA IInvAtFirst ==
  ASSUME Init
  PROVE  IInv
<1>1. /\ NewClient.ws = None /\ NoSocket.state = "free" /\ Idle.pc = "idle" /\ Idle.ws = None
      /\ NoRow.state = "none" /\ NoRow.bot = "live" /\ NoRow \in RowType
      /\ NewClient \in ClientType /\ NoSocket \in SocketType /\ Idle \in ProcType
  BY Nothings DEF NoRow, RowType, Statuses
<1>2. /\ \A c \in Channels : row[c] = NoRow /\ conn[c] = None
      /\ \A w \in Sockets : sock[w] = NoSocket
      /\ \A p \in Procs : proc[p] = Idle
      /\ boot.running = FALSE /\ boot.todo = {}
  BY DEF Init
<1>3. TypeOK
  BY <1>1 DEF Init, TypeOK, RowType, ClientType, SocketType, ProcType
<1>4. Typed
  BY <1>1, <1>2, <1>3 DEF Typed, At
<1>5. InTurn
  BY <1>1, <1>2 DEF InTurn, Owned, At
<1>6. Truthful
  BY <1>1, <1>2 DEF Truthful, LiveRow
<1> QED
  BY <1>2, <1>4, <1>5, <1>6 DEF IInv

\* Of several processes only one can be at work.
LEMMA Alone ==
  ASSUME InTurn, NEW p \in Procs, ~At(p, "idle")
  PROVE  \A q \in Procs \ {p} : At(q, "idle")
BY DEF InTurn

LEMMA IInvByRequest ==
  ASSUME IInv, UNCHANGED world, Next, NEW p \in Procs, Step(p)
  PROVE  IInv'
<1>1. Typed /\ Typed' /\ boot' = boot
  BY TypedByStep, Working DEF IInv
<1>2. Calm' = Calm /\ Serial' = Serial
  BY <1>1 DEF Calm, Serial
<1>3. ASSUME Calm
      PROVE  InTurn' /\ (Serial => Truthful') /\ (boot.running => Starting')
  <2>1. ~At(p, "idle")
    BY Working
  <2>2. PICK c \in Channels : proc[p].chan = c
    BY <1>1, <2>1 DEF Typed
  <2>3. InTurn /\ Owned /\ Stage(p) /\ \A q \in Procs \ {p} : At(q, "idle")
    BY <1>3, <2>1, Alone DEF IInv, InTurn
  <2>4. /\ Follows(p, c) /\ (row'[c].bot = "deleted" => row'[c].state = "erased")
        /\ At(p, "idle")' => p # Startup /\ (row'[c].state = "live" => SaysSo(c)')
        /\ p = Startup => UNCHANGED row
    BY <1>1, <2>2, <2>3, StepFollows
  <2>5. InTurn'
    BY <2>3, <2>4, InTurnKeeps
  <2>6. Serial => Truthful'
    BY <2>2, <2>3, <2>4, TruthKeeps DEF IInv, LiveRow
  <2>7. boot.running => Starting'
    <3>1. boot.running => p = Startup /\ boot.todo \subseteq Channels
      BY <1>1, <2>1, Types DEF Typed
    <3> QED
      BY <1>1, <2>2, <2>3, <2>4, <3>1, StartingKeeps DEF IInv
  <2> QED
    BY <2>5, <2>6, <2>7
<1> QED
  BY <1>1, <1>2, <1>3 DEF IInv, Calm

LEMMA IInvByArrival ==
  ASSUME IInv, UNCHANGED world, Next, NEW p \in Reqs, NEW c \in Channels,
         \/ CreateChannel(p, c) \/ UpdateChannel(p, c) \/ ConnectChannel(p, c)
         \/ DisconnectChannel(p, c) \/ DeleteChannel(p, c) \/ DeleteBot(p, c)
  PROVE  IInv'
<1>1. Typed /\ Typed' /\ boot' = boot
  BY TypedByStep, Arriving DEF IInv
<1>2. MayArrive(p)
  BY Arriving
<1>3. ~boot.running /\ At(p, "idle") /\ p \in Procs /\ (Serial => \A q \in Procs : At(q, "idle"))
  <2>1. At(Startup, "idle")
    BY <1>1, <1>2 DEF Typed, MayArrive, Procs
  <2> QED
    BY <1>2, <2>1 DEF MayArrive, Procs
<1>4. Serial' = Serial
  BY DEF Serial
<1>5. ASSUME Serial PROVE InTurn' /\ Truthful'
  <2>1. InTurn /\ Owned /\ Truthful
    BY <1>5 DEF IInv, Calm, InTurn
  <2>2. row[c].bot = "deleted" => row[c].state = "erased"
    BY <2>1 DEF Truthful
  <2>3. /\ Follows(p, c)
        /\ row'[c].bot = "deleted" => row'[c].state = "erased"
        /\ At(p, "idle")' => LiveRow(c) /\ (SaysSo(c) => SaysSo(c)')
    BY <1>1, <1>3, <2>1, <2>2, ArrivalFollows
  <2>4. InTurn'
    BY <1>3, <1>5, <2>1, <2>3, InTurnKeeps
  <2>5. ~Crashes /\ LiveRow(c) => SaysSo(c)
    BY <1>3, <1>5, <2>1 DEF Truthful, Untouched
  <2> QED
    BY <1>3, <1>5, <2>1, <2>3, <2>4, <2>5, TruthKeeps
<1> QED
  BY <1>1, <1>3, <1>4, <1>5 DEF IInv, Calm
\* A step that changes no more than what startup has still to do.
LEMMA AtRest ==
  ASSUME Typed, UNCHANGED <<row, conn, client, sock, proc, world>>
  PROVE  /\ InTurn => InTurn'
         /\ Truthful => Truthful'
         /\ boot' = boot /\ Starting => Starting'
<1>1. /\ \A d \in Channels : OpenSockets(d)' = OpenSockets(d)
      /\ Owned => Owned'
      /\ \A d \in Channels : Untouched(d)' = Untouched(d) /\ LiveRow(d)' = LiveRow(d)
      /\ Crashes' = Crashes
  BY OwnedStays DEF Untouched, LiveRow, At, Crashes
<1>2. \A d \in Channels : /\ SaysSo(d)' = SaysSo(d) /\ Decided(d)' = Decided(d)
                          /\ Wanted(d)' = Wanted(d)
  BY <1>1 DEF SaysSo, Decided, Wanted
<1>3. ASSUME InTurn, NEW p \in Procs, ~At(p, "idle"), NEW d \in Channels, proc[p].chan = d
      PROVE  Stage(p)'
  <2>1. Stage(p)
    BY <1>3 DEF InTurn
  <2>2. At(p, "await") => conn[d] # None
    BY <1>3, <2>1, Nothings DEF Stage, Typed
  <2> QED
    BY <1>1, <1>3, <2>1, <2>2, StageStays
<1>4. \A p \in Procs : ~At(p, "idle") => proc[p].chan \in Channels
  BY DEF Typed
<1>5. InTurn => InTurn'
  BY <1>1, <1>3, <1>4 DEF InTurn, At
<1>6. Truthful => Truthful'
  BY <1>1, <1>2 DEF Truthful
<1>7. ASSUME boot' = boot, Starting PROVE Starting'
  <2>1. boot.todo \subseteq Channels
    BY Types
  <2> QED
    BY <1>1, <1>2, <1>7, <2>1 DEF Starting
<1> QED
  BY <1>5, <1>6, <1>7

LEMMA IInvByStartup ==
  ASSUME IInv, UNCHANGED world, Next, StartupStep
  PROVE  IInv'
<1>1. /\ Typed /\ Typed' /\ Startup \in Procs /\ boot.todo \subseteq Channels
      /\ boot \in [running : BOOLEAN, todo : SUBSET Channels]
      /\ row \in [Channels -> RowType] /\ proc \in [Procs -> ProcType] /\ boot.running \in BOOLEAN
      /\ Idle.pc = "idle"
  BY TypedByStep, Types, Nothings DEF IInv, Procs, Typed, TypeOK
<1>2. Serial' = Serial
  BY DEF Serial
<1>3. ASSUME boot.running
      PROVE  /\ InTurn /\ Owned /\ Starting /\ \A q \in Procs \ {Startup} : At(q, "idle")
             /\ Serial => Truthful
  BY <1>1, <1>3 DEF IInv, Calm, InTurn, Typed
<1>4. ASSUME boot.running, NEW c \in Channels, Follows(Startup, c), boot'.running = boot.running,
             At(Startup, "idle") \/ proc[Startup].chan = c,
             boot'.todo \subseteq boot.todo, boot.todo \ {c} \subseteq boot'.todo,
             row'[c].state = row[c].state, row'[c].enabled = row[c].enabled, row'[c].bot = row[c].bot,
             row[c].bot = "live",
             At(Startup, "idle")' => Decided(c)'
      PROVE  IInv'
  <2>1. InTurn'
    BY <1>1, <1>3, <1>4, InTurnKeeps
  <2>2. Starting'
    BY <1>1, <1>3, <1>4, StartingKeeps
  <2>3. At(Startup, "idle")' => SaysSo(c)'
    BY <1>4 DEF Decided, SaysSo
  <2>4. Serial => Truthful'
    BY <1>1, <1>3, <1>4, <2>3, TruthKeeps
  <2> QED
    BY <1>1, <1>2, <1>4, <2>1, <2>2, <2>4 DEF IInv
<1>5. ASSUME NEW c \in Channels, StartupNext(c) PROVE IInv'
  <2>1. /\ boot.running /\ At(Startup, "idle") /\ c \in boot.todo /\ UNCHANGED <<row, conn, client, sock>>
        /\ boot' = [boot EXCEPT !.todo = boot.todo \ {c}]
        /\ proc' = [proc EXCEPT ![Startup] = [Idle EXCEPT !.op = "boot", !.pc = "drop", !.chan = c, !.try = 1]]
    BY <1>5 DEF StartupNext
  <2>2. boot'.running = boot.running /\ boot'.todo = boot.todo \ {c}
    BY <1>1, <2>1
  <2>3. /\ proc'[Startup].pc = "drop" /\ proc'[Startup].chan = c
        /\ \A q \in Procs \ {Startup} : proc'[q] = proc[q]
    BY <1>1, <2>1 DEF Idle
  <2>4. Owned' /\ (\A d \in Channels : OpenSockets(d)' = OpenSockets(d)) /\ conn' = conn
    BY <1>3, <2>1, OwnedStays
  <2>5. LiveRow(c) /\ row[c].bot = "live" /\ row' = row
    BY <1>3, <2>1 DEF Starting, Wanted
  <2>6. Follows(Startup, c)
    BY <2>3, <2>4, <2>5 DEF Follows, Local, Stage, At, LiveRow
  <2> QED
    BY <1>4, <2>1, <2>2, <2>3, <2>5, <2>6 DEF At
<1>6. ASSUME At(Startup, "ok") \/ At(Startup, "err"), StartupVerify \/ StartupRetry
      PROVE  IInv'
  <2>1. ~At(Startup, "idle") /\ boot.running /\ UNCHANGED <<conn, client, sock, boot>>
    BY <1>1, <1>6 DEF At, Typed, StartupVerify, StartupRetry
  <2>2. PICK c \in Channels : proc[Startup].chan = c
    BY <1>1, <2>1 DEF Typed
  <2>3. Stage(Startup) /\ LiveRow(c) /\ row[c].bot = "live"
    BY <1>1, <1>3, <1>6, <2>1, <2>2 DEF InTurn, Stage, At
  <2>4. Owned' /\ (\A d \in Channels : OpenSockets(d)' = OpenSockets(d)) /\ conn' = conn
    BY <1>3, <2>1, OwnedStays
  <2>5. ASSUME NEW x \in {"CONNECTED", "ERROR"}, SetStatus(c, x), Done(Startup),
               x = "CONNECTED" <=> OpenSockets(c) # {}
        PROVE  IInv'
    <3>1. /\ row'[c].state = row[c].state /\ row'[c].enabled = row[c].enabled
          /\ row'[c].bot = row[c].bot /\ row'[c].status = x
          /\ \A d \in Channels \ {c} : row'[d] = row[d]
      BY <1>1, <2>3, <2>5, StatusOnly DEF LiveRow, Statuses
    <3>2. At(Startup, "idle")' /\ \A q \in Procs \ {Startup} : proc'[q] = proc[q]
      BY <1>1, <2>5 DEF Done, At
    <3>3. Follows(Startup, c)
      BY <2>4, <3>1, <3>2 DEF Follows, Local
    <3>4. Decided(c)'
      BY <2>4, <2>5, <3>1 DEF Decided
    <3> QED
      BY <1>4, <2>1, <2>2, <2>3, <3>1, <3>3, <3>4
  <2>6. CASE StartupVerify
    <3>1. OpenSockets(c) # {} /\ IsConnected(c)
      BY <1>3, <2>1, <2>2, <2>3, <2>6, OpenIsOwned DEF Stage, StartupVerify, At, IsConnected
    <3> QED
      BY <2>2, <2>5, <2>6, <3>1 DEF StartupVerify
  <2>7. CASE StartupRetry
    <3>1. OpenSockets(c) = {}
      BY <2>2, <2>3, <2>7 DEF Stage, StartupRetry, At
    <3>2. CASE SetStatus(c, "ERROR") /\ Done(Startup)
      BY <2>5, <3>1, <3>2
    <3>3. CASE /\ proc' = [proc EXCEPT ![Startup].pc = "drop", ![Startup].try = @ + 1]
               /\ UNCHANGED row
      <4>1. /\ proc'[Startup].pc = "drop" /\ proc'[Startup].chan = c
            /\ \A q \in Procs \ {Startup} : proc'[q] = proc[q]
        BY <1>1, <2>2, <3>3 DEF ProcType
      <4>2. Follows(Startup, c)
        BY <2>3, <2>4, <3>3, <4>1 DEF Follows, Local, Stage, At, LiveRow
      <4> QED
        BY <1>4, <2>1, <2>2, <2>3, <3>3, <4>1, <4>2 DEF At
    <3> QED
      BY <2>2, <2>7, <3>2, <3>3 DEF StartupRetry
  <2> QED
    BY <1>6, <2>6, <2>7
<1>7. ASSUME StartupEnd PROVE IInv'
  <2>1. boot.running /\ boot'.running = FALSE /\ UNCHANGED <<row, conn, client, sock, proc>>
    BY <1>1, <1>7 DEF StartupEnd
  <2>2. InTurn' /\ (Serial => Truthful')
    BY <1>1, <1>3, <2>1, AtRest
  <2> QED
    BY <1>1, <1>2, <2>1, <2>2 DEF IInv
<1> QED
  BY <1>5, <1>6, <1>7 DEF StartupStep, StartupVerify, StartupRetry

LEMMA IInvByCrash ==
  ASSUME IInv, UNCHANGED world, Next, Crash
  PROVE  IInv'
<1>1. Typed /\ Typed'
  BY TypedByStep DEF IInv
<1>2. NewClient.ws = None /\ NoSocket.state = "free" /\ Idle.pc = "idle" /\ Idle.ws = None
  BY Nothings
<1>3. /\ \A c \in Channels : conn'[c] = None
      /\ \A w \in Sockets : sock'[w] = NoSocket
      /\ \A p \in Procs : proc'[p] = Idle
      /\ boot'.todo = {c \in Channels : Wanted(c)} /\ row' = row /\ Crashes'
  BY DEF Crash, Wanted, Crashes
<1>4. InTurn'
  BY <1>2, <1>3 DEF InTurn, Owned, At
<1>5. Serial' => Truthful'
  <2>1. Serial' = Serial
    BY DEF Serial
  <2> QED
    BY <1>3, <2>1 DEF IInv, Truthful
<1>6. Starting'
  <2>1. \A c \in Channels : Wanted(c)' = Wanted(c)
    BY <1>3 DEF Wanted, LiveRow
  <2> QED
    BY <1>3, <2>1 DEF Starting
<1> QED
  BY <1>1, <1>4, <1>5, <1>6 DEF IInv

LEMMA IInvByMessage ==
  ASSUME IInv, UNCHANGED world, Next, NEW w \in Sockets, MessageForDeleted(w)
  PROVE  IInv'
<1>1. Typed /\ Typed' /\ boot' = boot
  BY TypedByStep DEF IInv, MessageForDeleted
<1>2. Calm' = Calm /\ Serial' = Serial
  BY <1>1 DEF Calm, Serial
<1>3. ASSUME Calm PROVE InTurn' /\ (Truthful => Truthful') /\ (Starting => Starting')
  BY <1>1, <1>3, MessageFollows DEF IInv
<1> QED
  BY <1>1, <1>2, <1>3 DEF IInv, Calm

LEMMA IInvByStep ==
  ASSUME IInv, [Next /\ UNCHANGED world]_<<vars, world>>
  PROVE  IInv'
<1>1. CASE Next /\ UNCHANGED world
  BY <1>1, IInvByRequest, IInvByArrival, IInvByStartup, IInvByCrash, IInvByMessage DEF Next
<1>2. CASE UNCHANGED <<vars, world>>
  <2>1. UNCHANGED <<row, conn, client, sock, proc, boot, world>>
    BY <1>2 DEF vars
  <2>2. Typed'
    BY <2>1 DEF IInv, Typed, TypeOK, At, Crashes
  <2> QED
    BY <2>1, <2>2, AtRest DEF IInv, Calm, Serial
<1> QED
  BY <1>1, <1>2

LEMMA Invariant == Spec => []IInv
BY IInvAtFirst, IInvByStep, PTL DEF Spec

-----------------------------------------------------------------------------
(* What follows                                                            *)

\* While requests wait for one another no channel is ever left with two open
\* sockets: not across retries at startup, reconnections after failed ones,
\* stops of half-open clients, or crashes.
THEOREM SocketsAreSingle == Spec => []OneSocketPerChannel
<1>1. ASSUME IInv PROVE OneSocketPerChannel
  <2>1. TypeOK
    BY <1>1 DEF IInv, Typed
  <2>2. ASSUME Serial, NEW c \in Channels PROVE Cardinality(OpenSockets(c)) <= 1
    <3>1. Owned
      BY <1>1, <2>2 DEF IInv, Calm, InTurn
    <3>2. CASE OpenSockets(c) = {}
      BY <3>2, FS_EmptySet
    <3>3. CASE OpenSockets(c) # {}
      <4>1. PICK w : OpenSockets(c) = {w}
        BY <3>1, <3>3, OpenIsOwned
      <4>2. Cardinality({w}) = 1
        BY FS_Singleton
      <4> QED
        BY <4>1, <4>2
    <3> QED
      BY <3>2, <3>3
  <2> QED
    BY <2>1, <2>2 DEF OneSocketPerChannel
<1> QED
  BY <1>1, Invariant, PTL

\* Between requests, in a process that never crashes, the status in a channel's
\* row is CONNECTED exactly when the channel has an open socket.
THEOREM StatusHolds == Spec => []StatusIsTruth
<1>1. ASSUME IInv PROVE StatusIsTruth
  BY <1>1 DEF IInv, Truthful, Untouched, SaysSo, StatusIsTruth, Quiet, LiveRow
<1> QED
  BY <1>1, Invariant, PTL

\* Hence, with requests that wait for one another, a channel has no socket but
\* the one that its row shows.
COROLLARY SocketsStayTrue == Spec => []SocketsAreTrue
<1>1. OneSocketPerChannel /\ StatusIsTruth => SocketsAreTrue
  BY DEF SocketsAreTrue
<1> QED
  BY <1>1, SocketsAreSingle, StatusHolds, PTL

\* Whatever requests and the crash left behind, with any overlap of requests,
\* startup hands over to the server with each enabled channel of a live bot
\* connected and saying so, or in error and without a socket.
THEOREM StartupLeavesNoneUndecided == Spec => StartupDecides
<1>1. ASSUME IInv, [Next /\ UNCHANGED world]_<<vars, world>>
      PROVE  [(boot.running /\ ~boot'.running) =>
               \A c \in Channels : (LiveRow(c) /\ row[c].enabled /\ row[c].bot = "live") =>
                 \/ row[c].status = "CONNECTED" /\ OpenSockets(c) # {}
                 \/ row[c].status = "ERROR" /\ OpenSockets(c) = {}]_vars
  <2>1. SUFFICES ASSUME Next, boot.running, ~boot'.running, NEW c \in Channels, Wanted(c)
                 PROVE  Decided(c)
    BY <1>1 DEF vars, Wanted, Decided
  <2>2. boot' = boot \/ StartupEnd \/ Crash \/ \E d \in Channels : StartupNext(d)
    <3>1. CASE \E p \in Procs : Step(p)
      BY <3>1, Working
    <3>2. CASE \E w \in Sockets : MessageForDeleted(w)
      BY <3>2 DEF MessageForDeleted
    <3>3. CASE StartupStep
      BY <3>3 DEF StartupStep, StartupVerify, StartupRetry
    <3>4. CASE \E p \in Reqs, d \in Channels :
                 \/ CreateChannel(p, d) \/ UpdateChannel(p, d) \/ ConnectChannel(p, d)
                 \/ DisconnectChannel(p, d) \/ DeleteChannel(p, d) \/ DeleteBot(p, d)
      BY <3>4, Arriving
    <3> QED
      BY <2>1, <3>1, <3>2, <3>3, <3>4 DEF Next
  <2>3. StartupEnd
    <3>1. boot \in [running : BOOLEAN, todo : SUBSET Channels]
      BY <1>1 DEF IInv, Typed, TypeOK
    <3>2. ~Crash
      BY <2>1 DEF Crash
    <3>3. ASSUME NEW d \in Channels PROVE ~StartupNext(d)
      BY <2>1, <3>1 DEF StartupNext
    <3> QED
      BY <2>1, <2>2, <3>2, <3>3
  <2>4. boot.todo = {} /\ Starting /\ \A p \in Procs : At(p, "idle")
    BY <1>1, <2>1, <2>3 DEF StartupEnd, IInv, Typed
  <2> QED
    BY <2>1, <2>4 DEF Starting, Untouched
<1> QED
  BY <1>1, Invariant, PTL DEF Spec, StartupDecides

-----------------------------------------------------------------------------
(* Lines. Whatever overlaps, a client and its sockets are of one channel,  *)
(* so that a step on a channel leaves the sockets of the others alone.     *)

Linked ==
  /\ \A c, d \in Channels : conn[c] = conn[d] /\ conn[c] # None => c = d
  /\ \A c \in Channels : conn[c] # None /\ client[conn[c]].ws # None =>
       sock[client[conn[c]].ws] = NoSocket \/ sock[client[conn[c]].ws].chan = c
  /\ \A p \in Procs : At(p, "await") => sock[proc[p].ws].chan = proc[p].chan

\* Only sockets of c change.
SocketsOf(c) ==
  \A w \in Sockets : \/ sock'[w] = sock[w]
                     \/ /\ sock[w].state = "free" \/ sock[w].chan = c
                        /\ sock'[w].state = "free" \/ sock'[w].chan = c

\* What a step of p, which is or was busy with c, does not touch.
Apart(p, c) ==
  /\ SocketsOf(c)
  /\ \A d \in Channels \ {c} : row'[d] = row[d]
  /\ \A q \in Procs \ {p} : proc'[q] = proc[q]
  /\ At(p, "idle") \/ proc[p].chan = c
  /\ At(p, "idle")' \/ proc'[p].chan = c

\* A socket that is being opened stays with its channel.
AwaitedStay == \A w \in Sockets : sock[w].state \in Opening => sock'[w].chan = sock[w].chan

\* The client of c is stopped, if it has one.
LEMMA StopLinked ==
  ASSUME Typed, Linked, NEW c \in Channels,
         \/ UNCHANGED <<conn, client, sock>>
         \/ conn[c] # None /\ StopClient(conn[c]) /\ (conn' = conn \/ conn' = [conn EXCEPT ![c] = None])
  PROVE  /\ SocketsOf(c) /\ AwaitedStay
         /\ \A d, e \in Channels : conn'[d] = conn'[e] /\ conn'[d] # None => d = e
         /\ \A d \in Channels : conn'[d] # None /\ client'[conn'[d]].ws # None =>
              sock'[client'[conn'[d]].ws] = NoSocket \/ sock'[client'[conn'[d]].ws].chan = d
<1>1. CASE UNCHANGED <<conn, client, sock>>
  BY <1>1 DEF Linked, SocketsOf, AwaitedStay
<1>2. CASE conn[c] # None /\ StopClient(conn[c]) /\ (conn' = conn \/ conn' = [conn EXCEPT ![c] = None])
  <2> DEFINE i == conn[c]
             v == client[i].ws
  <2>1. /\ i \in Clients /\ conn \in [Channels -> Clients \cup {None}] /\ i # None
        /\ client \in [Clients -> ClientType] /\ sock \in [Sockets -> SocketType]
        /\ NewClient.ws = None /\ NoSocket.state = "free"
    BY <1>2, Types, Nothings
  <2>2. /\ client' = [client EXCEPT ![i] = NewClient]
        /\ \A w \in Sockets : /\ sock[w].state \in Opening => sock'[w].state \in Opening
                              /\ w # v => sock'[w] = sock[w]
                              /\ sock'[w] = NoSocket \/ sock'[w].chan = sock[w].chan
                              /\ sock[w] = NoSocket => sock'[w] = NoSocket
    BY <1>2, <2>1, Stops
  <2>3. v # None => sock[v] = NoSocket \/ sock[v].chan = c
    BY <2>1 DEF Linked
  <2>4. \A d \in Channels : conn'[d] \in {conn[d], None} /\ (conn'[d] # None /\ d # c => conn'[d] # i)
    BY <1>2, <2>1 DEF Linked
  <2>5. None \notin Sockets
    BY Nothings
  <2> HIDE DEF i, v
  <2>6. SocketsOf(c)
    BY <2>1, <2>2, <2>3, <2>5 DEF SocketsOf
  <2>7. AwaitedStay
    BY <2>1, <2>2 DEF AwaitedStay, Opening
  <2>8. \A d, e \in Channels : conn'[d] = conn'[e] /\ conn'[d] # None => d = e
    BY <2>4 DEF Linked
  <2>9. ASSUME NEW d \in Channels, conn'[d] # None, client'[conn'[d]].ws # None
        PROVE  sock'[client'[conn'[d]].ws] = NoSocket \/ sock'[client'[conn'[d]].ws].chan = d
    <3>1. conn'[d] = conn[d] /\ conn[d] \in Clients /\ conn[d] # None
      BY <2>1, <2>4, <2>9
    <3>2. conn[d] # i
      BY <2>1, <2>2, <2>9, <3>1
    <3>3. client'[conn[d]] = client[conn[d]] /\ client[conn[d]].ws \in Sockets
      BY <2>1, <2>2, <2>9, <3>1, <3>2 DEF ClientType
    <3>4. sock[client[conn[d]].ws] = NoSocket \/ sock[client[conn[d]].ws].chan = d
      BY <2>9, <3>1, <3>3 DEF Linked
    <3> DEFINE u == client[conn[d]].ws
    <3>5. u \in Sockets /\ (sock[u] = NoSocket \/ sock[u].chan = d) /\ client'[conn'[d]].ws = u
      BY <3>1, <3>3, <3>4
    <3> HIDE DEF u
    <3>6. sock'[u] = NoSocket \/ sock'[u].chan = d
      BY <2>2, <3>5
    <3> QED
      BY <3>5, <3>6
  <2> QED
    BY <2>6, <2>7, <2>8, <2>9
<1> QED
  BY <1>1, <1>2

\* The last part of Linked, where nobody begins to open a socket.
LEMMA AwaitsLinked ==
  ASSUME Typed, Linked, AwaitedStay, NEW p \in Procs, \A q \in Procs \ {p} : proc'[q] = proc[q],
         proc'[p] = proc[p] \/ ~At(p, "await")'
  PROVE  \A q \in Procs : At(q, "await")' => sock'[proc'[q].ws].chan = proc'[q].chan
<1> SUFFICES ASSUME NEW q \in Procs, At(q, "await")' PROVE sock'[proc'[q].ws].chan = proc'[q].chan
  OBVIOUS
<1>1. proc'[q] = proc[q] /\ At(q, "await")
  BY DEF At
<1>2. proc[q].ws \in Sockets /\ sock[proc[q].ws].state \in Opening /\ sock[proc[q].ws].chan = proc[q].chan
  BY <1>1 DEF Typed, Linked, Opening
<1> QED
  BY <1>1, <1>2 DEF AwaitedStay

\* A request, or the startup, goes on with its channel.
LEMMA StepApart ==
  ASSUME Typed, Linked, NEW p \in Procs, Step(p)
  PROVE  Linked' /\ \E c \in Channels : Apart(p, c)
<1>1. ~At(p, "idle")
  BY Working
<1>2. PICK c \in Channels : proc[p].chan = c
  BY <1>1 DEF Typed
<1>3. /\ conn \in [Channels -> Clients \cup {None}] /\ client \in [Clients -> ClientType]
      /\ sock \in [Sockets -> SocketType] /\ proc \in [Procs -> ProcType] /\ row \in [Channels -> RowType]
      /\ None \notin Clients /\ None \notin Sockets /\ NewClient.ws = None /\ NoSocket.state = "free"
      /\ Idle.pc = "idle"
  BY Types, Nothings
<1>4. ASSUME NEW pc \in PCs \ {"await"}, Goto(p, pc)
      PROVE  proc'[p].chan = c /\ proc'[p].pc = pc /\ \A q \in Procs \ {p} : proc'[q] = proc[q]
  BY <1>2, <1>3, <1>4 DEF Goto, ProcType
<1>5. CASE DropOld(p)
  <2>1. /\ \/ UNCHANGED <<conn, client, sock>>
           \/ conn[c] # None /\ StopClient(conn[c]) /\ conn' = [conn EXCEPT ![c] = None]
        /\ Goto(p, "make") /\ UNCHANGED row
    BY <1>2, <1>5 DEF DropOld
  <2>2. proc'[p].chan = c /\ proc'[p].pc = "make" /\ \A q \in Procs \ {p} : proc'[q] = proc[q]
    BY <1>4, <2>1 DEF PCs
  <2>3. Apart(p, c)
    BY <1>2, <2>1, <2>2, StopLinked DEF Apart
  <2>4. Linked'
    <3>1. AwaitedStay
      BY <2>1, StopLinked
    <3>2. \A q \in Procs : At(q, "await")' => sock'[proc'[q].ws].chan = proc'[q].chan
      BY <2>2, <3>1, AwaitsLinked DEF At
    <3> QED
      BY <2>1, <3>2, StopLinked DEF Linked, At
  <2> QED
    BY <2>3, <2>4
<1>6. CASE MakeConnection(p)
  <2> DEFINE i == CHOOSE x \in FreeClients : TRUE
  <2>1. /\ conn' = [conn EXCEPT ![c] = i] /\ client' = [client EXCEPT ![i] = NewClient]
        /\ UNCHANGED <<sock, row>> /\ Goto(p, "dial")
    BY <1>2, <1>6 DEF MakeConnection
  <2>2. i \in Clients /\ \A d \in Channels : conn[d] # i
    BY <1>6 DEF MakeConnection, FreeClients
  <2> HIDE DEF i
  <2>3. /\ conn'[c] = i /\ client'[i] = NewClient
        /\ \A d \in Channels \ {c} : conn'[d] = conn[d] /\ (conn[d] # None => client'[conn[d]] = client[conn[d]])
    BY <1>3, <2>1, <2>2
  <2>4. proc'[p].chan = c /\ proc'[p].pc = "dial" /\ \A q \in Procs \ {p} : proc'[q] = proc[q]
    BY <1>4, <2>1 DEF PCs
  <2>5. Apart(p, c)
    BY <1>2, <2>1, <2>4 DEF Apart, SocketsOf
  <2>6. \A d, e \in Channels : conn'[d] = conn'[e] /\ conn'[d] # None => d = e
    BY <2>2, <2>3 DEF Linked
  <2>7. \A d \in Channels : conn'[d] # None /\ client'[conn'[d]].ws # None =>
          sock'[client'[conn'[d]].ws] = NoSocket \/ sock'[client'[conn'[d]].ws].chan = d
    BY <1>3, <2>1, <2>3 DEF Linked
  <2>8. \A q \in Procs : At(q, "await")' => sock'[proc'[q].ws].chan = proc'[q].chan
    BY <2>1, <2>4, AwaitsLinked DEF At, AwaitedStay
  <2> QED
    BY <2>5, <2>6, <2>7, <2>8 DEF Linked, At
<1>7. CASE Dial(p) /\ (Goto(p, "err") \/ Goto(p, "ok")) /\ UNCHANGED <<client, sock>>
  <2>1. PICK pc \in {"err", "ok"} : Goto(p, pc)
    BY <1>7
  <2>2. UNCHANGED <<row, conn, client, sock>>
    BY <1>7 DEF Dial
  <2>3. proc'[p].chan = c /\ proc'[p].pc = pc /\ \A q \in Procs \ {p} : proc'[q] = proc[q]
    BY <1>4, <2>1 DEF PCs
  <2>4. \A q \in Procs : At(q, "await")' => sock'[proc'[q].ws].chan = proc'[q].chan
    BY <2>2, <2>3, AwaitsLinked DEF At, AwaitedStay
  <2> QED
    BY <1>2, <2>2, <2>3, <2>4 DEF Linked, Apart, SocketsOf, At
<1>8. CASE Dial(p) /\ ~((Goto(p, "err") \/ Goto(p, "ok")) /\ UNCHANGED <<client, sock>>)
  <2> DEFINE i == conn[c]
             w == CHOOSE x \in FreeSockets : TRUE
  <2>1. /\ i # None /\ FreeSockets # {}
        /\ client' = [client EXCEPT ![i].ws = w]
        /\ sock' = [sock EXCEPT ![w] = [chan |-> c, state |-> "starting"]]
        /\ proc' = [proc EXCEPT ![p].pc = "await", ![p].client = i, ![p].ws = w]
        /\ UNCHANGED <<row, conn>>
    BY <1>2, <1>8 DEF Dial
  <2>2. /\ w \in Sockets /\ sock[w].state = "free"
        /\ \A j \in Clients \ FreeClients : client[j].ws # w
        /\ \A q \in Procs : proc[q].ws # w
    BY <2>1 DEF FreeSockets
  <2>3. \A d \in Channels : conn[d] # None => conn[d] \in Clients \ FreeClients
    BY <1>3 DEF FreeClients
  <2>4. i \in Clients /\ conn[c] = i /\ \A d \in Channels \ {c} : conn[d] # i
    BY <1>3, <2>1 DEF Linked
  <2> HIDE DEF i, w
  <2>5. /\ client'[i].ws = w /\ \A j \in Clients \ {i} : client'[j] = client[j]
        /\ sock'[w] = [chan |-> c, state |-> "starting"] /\ \A v \in Sockets \ {w} : sock'[v] = sock[v]
    BY <1>3, <2>1, <2>2, <2>4 DEF ClientType
  <2>6. /\ proc'[p].chan = c /\ proc'[p].ws = w /\ \A q \in Procs \ {p} : proc'[q] = proc[q]
    BY <1>2, <1>3, <2>1 DEF ProcType
  <2>7. Apart(p, c)
    <3>1. sock'[w].chan = c
      BY <2>5
    <3>2. SocketsOf(c)
      BY <2>2, <2>5, <3>1 DEF SocketsOf
    <3> QED
      BY <1>2, <2>1, <2>6, <3>2 DEF Apart
  <2>8. ASSUME NEW d \in Channels, conn[d] # None, client'[conn[d]].ws # None
        PROVE  sock'[client'[conn[d]].ws] = NoSocket \/ sock'[client'[conn[d]].ws].chan = d
    <3>1. CASE d = c
      BY <2>4, <2>5, <3>1
    <3>2. CASE d # c
      <4>1. conn[d] \in Clients \ FreeClients /\ conn[d] # i
        BY <2>3, <2>4, <2>8, <3>2
      <4>2. client'[conn[d]] = client[conn[d]] /\ client[conn[d]].ws # w
        BY <2>2, <2>5, <4>1
      <4>3. client[conn[d]].ws \in Sockets \ {w}
        BY <1>3, <2>8, <4>1, <4>2 DEF ClientType
      <4> QED
        BY <2>5, <2>8, <4>2, <4>3 DEF Linked
    <3> QED
      BY <3>1, <3>2
  <2>9. ASSUME NEW q \in Procs, At(q, "await")'
        PROVE  sock'[proc'[q].ws].chan = proc'[q].chan
    <3>1. CASE q = p
      BY <2>5, <2>6, <3>1
    <3>2. CASE q # p
      <4>1. proc'[q] = proc[q] /\ At(q, "await")
        BY <2>6, <2>9, <3>2 DEF At
      <4>2. proc[q].ws \in Sockets \ {w}
        BY <2>2, <4>1 DEF Typed
      <4> QED
        BY <2>5, <4>1, <4>2 DEF Linked
    <3> QED
      BY <3>1, <3>2
  <2>10. conn' = conn
    BY <2>1
  <2> QED
    BY <2>7, <2>8, <2>9, <2>10 DEF Linked, At
<1>9. CASE DialOk(p) \/ DialFail(p)
  <2> DEFINE w == proc[p].ws
             i == proc[p].client
  <2>1. /\ w \in Sockets /\ i \in Clients /\ At(p, "await") /\ sock[w].chan = c
        /\ sock[w].state \in Opening
    BY <1>2, <1>9 DEF DialOk, DialFail, Typed, Linked, At, Opening
  <2>2. \A q \in Procs \ {p} : At(q, "await") => proc[q].ws \in Sockets \ {w}
    BY <2>1, <1>3 DEF Typed
  <2>3. UNCHANGED <<row, conn>>
    BY <1>9 DEF DialOk, DialFail
  <2>4. /\ \A v \in Sockets \ {w} : sock'[v] = sock[v]
        /\ sock'[w] = NoSocket \/ sock'[w].chan = c
    <3>1. CASE DialFail(p)
      BY <1>3, <2>1, <3>1 DEF DialFail
    <3>2. CASE DialOk(p)
      <4>1. PICK x \in {[sock[w] EXCEPT !.state = "open"], NoSocket} : sock' = [sock EXCEPT ![w] = x]
        BY <3>2 DEF DialOk
      <4>2. sock[w] \in SocketType /\ sock[w].state # "free"
        BY <1>3, <2>1 DEF Opening
      <4>3. [sock[w] EXCEPT !.state = "open"].chan = c
        BY <2>1, <4>2 DEF SocketType, NoSocket
      <4> QED
        BY <1>3, <2>1, <4>1, <4>3
    <3> QED
      BY <1>9, <3>1, <3>2
  <2>5. \A j \in Clients : client'[j].ws = client[j].ws
    BY <1>3, <1>9, <2>1 DEF DialOk, DialFail, ClientType
  <2>6. /\ proc'[p].pc \in {"ok", "err"} /\ proc'[p].chan = c
        /\ \A q \in Procs \ {p} : proc'[q] = proc[q]
    BY <1>2, <1>3, <1>9 DEF DialOk, DialFail, ProcType
  <2> HIDE DEF w, i
  <2>7. Apart(p, c)
    BY <1>2, <1>3, <2>1, <2>3, <2>4, <2>6 DEF Apart, SocketsOf
  <2>8. ASSUME NEW d \in Channels, conn[d] # None, client'[conn[d]].ws # None
        PROVE  sock'[client'[conn[d]].ws] = NoSocket \/ sock'[client'[conn[d]].ws].chan = d
    <3> DEFINE u == client[conn[d]].ws
    <3>1. conn[d] \in Clients /\ client'[conn[d]].ws = u
      BY <1>3, <2>5, <2>8
    <3>2. u \in Sockets /\ (sock[u] = NoSocket \/ sock[u].chan = d)
      BY <1>3, <2>8, <3>1 DEF Linked, ClientType
    <3> HIDE DEF u
    <3>3. u = w => d = c
      BY <1>3, <2>1, <3>2 DEF Opening
    <3> QED
      BY <2>4, <3>1, <3>2, <3>3
  <2>9. \A q \in Procs : At(q, "await")' => sock'[proc'[q].ws].chan = proc'[q].chan
    BY <2>2, <2>4, <2>6 DEF Linked, At
  <2> QED
    BY <2>3, <2>7, <2>8, <2>9 DEF Linked, At
<1>10. CASE ConnectOk(p) \/ ConnectFailed(p) \/ DisconnectWrite(p) \/ DeleteWrite(p) \/ DeleteBotWrite(p)
  <2>1. UNCHANGED <<conn, client, sock>> /\ Done(p)
    BY <1>10 DEF ConnectOk, ConnectFailed, DisconnectWrite, DeleteWrite, DeleteBotWrite
  <2>2. proc'[p].pc = "idle" /\ \A q \in Procs \ {p} : proc'[q] = proc[q]
    BY <1>3, <2>1 DEF Done
  <2>3. \A d \in Channels \ {c} : row'[d] = row[d]
    <3>1. CASE ConnectOk(p) \/ ConnectFailed(p) \/ DisconnectWrite(p)
      <4>1. PICK x \in Statuses : SetStatus(c, x)
        BY <1>2, <3>1 DEF ConnectOk, ConnectFailed, DisconnectWrite, Statuses
      <4> QED
        BY <4>1, StatusOnly
    <3>2. CASE DeleteWrite(p) \/ DeleteBotWrite(p)
      BY <1>2, <1>3, <3>2 DEF DeleteWrite, DeleteBotWrite
    <3> QED
      BY <1>10, <3>1, <3>2
  <2>4. \A q \in Procs : At(q, "await")' => sock'[proc'[q].ws].chan = proc'[q].chan
    BY <2>1, <2>2, AwaitsLinked DEF At, AwaitedStay
  <2> QED
    BY <1>2, <2>1, <2>2, <2>3, <2>4 DEF Linked, Apart, SocketsOf, At
<1> QED
  BY <1>5, <1>6, <1>7, <1>8, <1>9, <1>10 DEF Step

\* A request that comes in finds a process idle.
LEMMA ArrivalApart ==
  ASSUME Typed, Linked, NEW p \in Reqs, NEW c \in Channels,
         \/ CreateChannel(p, c) \/ UpdateChannel(p, c) \/ ConnectChannel(p, c)
         \/ DisconnectChannel(p, c) \/ DeleteChannel(p, c) \/ DeleteBot(p, c)
  PROVE  Linked' /\ p \in Procs /\ Apart(p, c)
<1>1. /\ MayArrive(p) /\ UNCHANGED <<conn, boot>>
      /\ UNCHANGED <<client, sock>> \/ (conn[c] # None /\ StopClient(conn[c]))
      /\ UNCHANGED proc \/ \E op \in Ops, pc \in {"drop", "off", "rm", "rmbot"} : Arrive(p, op, c, pc)
  BY Arriving
<1>2. /\ p \in Procs /\ proc \in [Procs -> ProcType] /\ row \in [Channels -> RowType] /\ At(p, "idle")
  BY <1>1, Types DEF Procs, MayArrive
<1>3. /\ \A q \in Procs \ {p} : proc'[q] = proc[q]
      /\ proc'[p] = proc[p] \/ (proc'[p].chan = c /\ ~At(p, "await")')
  <2>1. CASE UNCHANGED proc
    BY <2>1
  <2>2. ASSUME NEW op \in Ops, NEW pc \in {"drop", "off", "rm", "rmbot"}, Arrive(p, op, c, pc)
        PROVE  /\ \A q \in Procs \ {p} : proc'[q] = proc[q]
               /\ proc'[p].chan = c /\ proc'[p].pc = pc
    BY <1>2, <2>2 DEF Arrive, Idle
  <2> QED
    BY <1>1, <2>1, <2>2 DEF At
<1>4. \A d \in Channels \ {c} : row'[d] = row[d]
  <2>1. CASE CreateChannel(p, c)
    <3>1. PICK on \in BOOLEAN : row' = [row EXCEPT ![c].state = "live", ![c].enabled = on,
                                                   ![c].status = "DISCONNECTED"]
      BY <2>1 DEF CreateChannel
    <3> QED
      BY <1>2, <3>1
  <2>2. CASE UpdateChannel(p, c)
    <3>1. PICK on \in BOOLEAN : row' = [row EXCEPT ![c].enabled = on]
      BY <2>2 DEF UpdateChannel
    <3> QED
      BY <1>2, <3>1
  <2>3. CASE ConnectChannel(p, c)
    <3>1. SetStatus(c, "CONNECTING")
      BY <2>3 DEF ConnectChannel
    <3> QED
      BY <3>1, StatusOnly DEF Statuses
  <2>4. CASE DisconnectChannel(p, c) \/ DeleteChannel(p, c)
    BY <2>4 DEF DisconnectChannel, DeleteChannel
  <2>5. CASE DeleteBot(p, c)
    <3>1. row' = [row EXCEPT ![c].state = "erased", ![c].enabled = FALSE, ![c].status = "DISCONNECTED"]
      BY <2>5 DEF DeleteBot
    <3> QED
      BY <1>2, <3>1
  <2> QED
    BY <2>1, <2>2, <2>3, <2>4, <2>5
<1>5. /\ SocketsOf(c) /\ AwaitedStay
      /\ \A d, e \in Channels : conn'[d] = conn'[e] /\ conn'[d] # None => d = e
      /\ \A d \in Channels : conn'[d] # None /\ client'[conn'[d]].ws # None =>
           sock'[client'[conn'[d]].ws] = NoSocket \/ sock'[client'[conn'[d]].ws].chan = d
  BY <1>1, StopLinked
<1>6. \A q \in Procs : At(q, "await")' => sock'[proc'[q].ws].chan = proc'[q].chan
  BY <1>2, <1>3, <1>5, AwaitsLinked
<1> QED
  BY <1>2, <1>3, <1>4, <1>5, <1>6 DEF Linked, Apart, At

\* The startup turns to a channel, or is done with it.
LEMMA StartupApart ==
  ASSUME Typed, Linked, StartupStep
  PROVE  Linked' /\ Startup \in Procs /\ (UNCHANGED <<row, conn, client, sock, proc>> \/ \E c \in Channels : Apart(Startup, c))
<1>1. /\ proc \in [Procs -> ProcType] /\ Startup \in Procs /\ Idle.pc = "idle" /\ boot.todo \subseteq Channels
  BY Types, Nothings DEF Procs
<1>2. UNCHANGED <<conn, client, sock>>
  BY DEF StartupStep, StartupNext, StartupVerify, StartupRetry, StartupEnd
<1>3. ASSUME \A q \in Procs \ {Startup} : proc'[q] = proc[q], ~At(Startup, "await")'
      PROVE  Linked'
  <2>1. \A q \in Procs : At(q, "await")' => sock'[proc'[q].ws].chan = proc'[q].chan
    BY <1>1, <1>2, <1>3, AwaitsLinked DEF AwaitedStay
  <2> QED
    BY <1>2, <2>1 DEF Linked, At
<1>4. ASSUME NEW c \in Channels, StartupNext(c) PROVE Linked' /\ Apart(Startup, c)
  <2>1. /\ At(Startup, "idle") /\ UNCHANGED row
        /\ proc' = [proc EXCEPT ![Startup] = [Idle EXCEPT !.op = "boot", !.pc = "drop", !.chan = c, !.try = 1]]
    BY <1>4 DEF StartupNext
  <2>2. /\ proc'[Startup].pc = "drop" /\ proc'[Startup].chan = c
        /\ \A q \in Procs \ {Startup} : proc'[q] = proc[q]
    BY <1>1, <2>1 DEF Idle
  <2> QED
    BY <1>2, <1>3, <2>1, <2>2 DEF Apart, SocketsOf, At
<1>5. CASE StartupVerify \/ StartupRetry
  <2>1. ~At(Startup, "idle")
    BY <1>5 DEF StartupVerify, StartupRetry, At
  <2>2. PICK c \in Channels : proc[Startup].chan = c
    BY <1>1, <2>1 DEF Typed
  <2>3. \A d \in Channels \ {c} : row'[d] = row[d]
    <3>1. UNCHANGED row \/ \E x \in Statuses : SetStatus(c, x)
      BY <1>5, <2>2 DEF StartupVerify, StartupRetry, Statuses
    <3> QED
      BY <3>1, StatusOnly
  <2>4. /\ \A q \in Procs \ {Startup} : proc'[q] = proc[q]
        /\ proc'[Startup].pc = "idle" \/ (proc'[Startup].pc \in {"err", "drop"} /\ proc'[Startup].chan = c)
    <3>1. \/ Done(Startup) \/ Goto(Startup, "err")
          \/ proc' = [proc EXCEPT ![Startup].pc = "drop", ![Startup].try = @ + 1]
      BY <1>5 DEF StartupVerify, StartupRetry
    <3>2. CASE Done(Startup)
      BY <1>1, <3>2 DEF Done
    <3>3. CASE Goto(Startup, "err")
      BY <1>1, <2>2, <3>3 DEF Goto, ProcType
    <3>4. CASE proc' = [proc EXCEPT ![Startup].pc = "drop", ![Startup].try = @ + 1]
      BY <1>1, <2>2, <3>4 DEF ProcType
    <3> QED
      BY <3>1, <3>2, <3>3, <3>4
  <2>5. Linked'
    BY <1>3, <2>4 DEF At
  <2>6. SocketsOf(c)
    BY <1>2 DEF SocketsOf
  <2>7. Apart(Startup, c)
    BY <2>2, <2>3, <2>4, <2>6 DEF Apart, At
  <2> QED
    BY <1>1, <2>5, <2>7
<1>6. CASE StartupEnd
  <2>1. UNCHANGED <<row, conn, client, sock, proc>>
    BY <1>6 DEF StartupEnd
  <2> QED
    BY <1>1, <2>1 DEF Linked, At
<1> QED
  BY <1>1, <1>4, <1>5, <1>6 DEF StartupStep

\* A message for a deleted bot ends the line of its own channel.
LEMMA MessageApart ==
  ASSUME Typed, Linked, NEW w \in Sockets, MessageForDeleted(w)
  PROVE  /\ Linked' /\ UNCHANGED proc
         /\ \E c \in Channels : SocketsOf(c) /\ \A d \in Channels \ {c} : row'[d] = row[d]
<1> DEFINE c == sock[w].chan
<1>1. sock[w] \in SocketType /\ sock[w].state = "open" /\ UNCHANGED proc
  BY Types DEF MessageForDeleted
<1>2. c \in Channels
  BY <1>1, SocketKinds
<1>3. /\ SetStatus(c, "DISCONNECTED")
      /\ \/ UNCHANGED <<conn, client, sock>>
         \/ conn[c] # None /\ StopClient(conn[c]) /\ conn' = [conn EXCEPT ![c] = None]
  BY DEF MessageForDeleted
<1> HIDE DEF c
<1>4. \A d \in Channels \ {c} : row'[d] = row[d]
  BY <1>2, <1>3, StatusOnly DEF Statuses
<1>5. /\ SocketsOf(c) /\ AwaitedStay
      /\ \A d, e \in Channels : conn'[d] = conn'[e] /\ conn'[d] # None => d = e
      /\ \A d \in Channels : conn'[d] # None /\ client'[conn'[d]].ws # None =>
           sock'[client'[conn'[d]].ws] = NoSocket \/ sock'[client'[conn'[d]].ws].chan = d
  BY <1>2, <1>3, StopLinked
<1>6. \A q \in Procs : At(q, "await")' => sock'[proc'[q].ws].chan = proc'[q].chan
  BY <1>1, <1>5, AwaitsLinked
<1> QED
  BY <1>1, <1>2, <1>4, <1>5, <1>6 DEF Linked, At

LEMMA LinkedKept ==
  ASSUME Typed, Linked, [Next /\ UNCHANGED world]_<<vars, world>>
  PROVE  Linked'
<1>1. CASE UNCHANGED <<vars, world>>
  BY <1>1 DEF vars, Linked, At
<1>2. CASE Crash
  <2>1. /\ \A c \in Channels : conn'[c] = None
        /\ \A p \in Procs : proc'[p] = Idle
    BY <1>2 DEF Crash
  <2> QED
    BY <2>1, Nothings DEF Linked, At
<1> QED
  BY <1>1, <1>2, StepApart, ArrivalApart, StartupApart, MessageApart DEF Next

LEMMA AlwaysLinked == Spec => []Linked
<1>1. Init => Linked
  BY Nothings DEF Init, Linked, At
<1>2. IInv => Typed
  BY DEF IInv
<1> QED
  BY <1>1, <1>2, LinkedKept, Invariant, PTL DEF Spec

\* What is seen of the channels other than c stays.
Elsewhere(c) ==
  \A d \in Channels \ {c} : OpenSockets(d)' = OpenSockets(d) /\ Sight(d)' = Sight(d)

\* What a step may do with what is seen of c.
Moves(c) ==
  \/ OpenSockets(c)' = OpenSockets(c) /\ Sight(c)' = Sight(c)
  \/ Sight(c) # "busy" /\ Sight(c)' = "busy" /\ OpenSockets(c)' \in {OpenSockets(c), {}}
  \/ Sight(c) \in {"busy", "none"} /\ Sight(c)' = Sight(c) /\ OpenSockets(c)' = {}
  \/ /\ Sight(c) = "busy" /\ Sight(c)' = "busy"
     /\ OpenSockets(c) = {} /\ \E w \in Sockets : OpenSockets(c)' = {w}
  \/ /\ Sight(c) = "busy" /\ OpenSockets(c)' = OpenSockets(c)
     /\ \/ Sight(c)' = IF OpenSockets(c) # {} THEN "on" ELSE "off"
        \/ OpenSockets(c) = {} /\ Sight(c)' = "none"
  \/ Sight(c) \in {"on", "off"} /\ Sight(c)' = "none" /\ OpenSockets(c)' = OpenSockets(c)

LineVars == <<OpenLines, Shown, Serial, ~Crashes>>

LEMMA SightIs ==
  ASSUME NEW c
  PROVE  /\ ~LiveRow(c) => Sight(c) = "none"
         /\ LiveRow(c) /\ Busy(c) => Sight(c) = "busy"
         /\ LiveRow(c) /\ ~Busy(c) => Sight(c) = IF row[c].status = "CONNECTED" THEN "on" ELSE "off"
BY DEF Sight

LEMMA SightIsThen ==
  ASSUME NEW c
  PROVE  /\ ~LiveRow(c)' => Sight(c)' = "none"
         /\ LiveRow(c)' /\ Busy(c)' => Sight(c)' = "busy"
         /\ LiveRow(c)' /\ ~Busy(c)' => Sight(c)' = IF row'[c].status = "CONNECTED" THEN "on" ELSE "off"
BY DEF Sight

LEMMA SightStays ==
  ASSUME NEW c, row'[c] = row[c], Busy(c)' = Busy(c)
  PROVE  Sight(c)' = Sight(c)
BY DEF Sight, LiveRow

\* Where only sockets of c change, those of others do not open or close.
LEMMA SocketsElsewhere ==
  ASSUME NEW c, SocketsOf(c), NEW d \in Channels \ {c}
  PROVE  OpenSockets(d)' = OpenSockets(d)
BY DEF SocketsOf, OpenSockets

LEMMA ApartElsewhere ==
  ASSUME NEW p \in Procs, NEW c \in Channels, Apart(p, c)
  PROVE  Elsewhere(c)
<1> SUFFICES ASSUME NEW d \in Channels \ {c}
             PROVE  OpenSockets(d)' = OpenSockets(d) /\ Sight(d)' = Sight(d)
  BY DEF Elsewhere
<1>1. OpenSockets(d)' = OpenSockets(d)
  BY SocketsElsewhere DEF Apart
<1>2. row'[d] = row[d]
  BY DEF Apart
<1>3. \A q \in Procs : (~At(q, "idle") /\ proc[q].chan = d) <=> (~At(q, "idle")' /\ proc'[q].chan = d)
  BY DEF Apart, At
<1>4. Busy(d)' = Busy(d)
  BY <1>3 DEF Busy, At
<1> QED
  BY <1>1, <1>2, <1>4, SightStays

LEMMA OneLine ==
  ASSUME NEW c \in Channels, Elsewhere(c)
  PROVE  /\ OpenLines[c] = OpenSockets(c) /\ Shown[c] = Sight(c)
         /\ OpenLines' = [OpenLines EXCEPT ![c] = OpenSockets(c)']
         /\ Shown' = [Shown EXCEPT ![c] = Sight(c)']
<1>1. OpenLines[c] = OpenSockets(c) /\ Shown[c] = Sight(c)
  BY DEF OpenLines, Shown
<1>2. OpenLines' = [OpenLines EXCEPT ![c] = OpenSockets(c)']
  BY DEF OpenLines, Elsewhere
<1>3. Shown' = [Shown EXCEPT ![c] = Sight(c)']
  BY DEF Shown, Elsewhere
<1> QED
  BY <1>1, <1>2, <1>3

\* Whatever overlapping requests do to c, they do to no other.
LEMMA Overlaps ==
  ASSUME NEW c \in Channels, Elsewhere(c), UNCHANGED world, ~Serial
  PROVE  Line!Next
<1>1. Sight(c)' \in {"none", "busy", "on", "off"} /\ OpenSockets(c)' \in SUBSET Sockets
  BY SightIsThen DEF OpenSockets
<1>2. Line!Overlap(c)
  BY <1>1, OneLine DEF Line!Overlap, Line!Words
<1> QED
  BY <1>2 DEF Line!Next, Serial, Crashes

LEMMA LineMoves ==
  ASSUME NEW c \in Channels, Elsewhere(c), UNCHANGED world, Moves(c)
  PROVE  [Line!Next]_LineVars
<1> DEFINE o == OpenSockets(c)
           x == Sight(c)
           oo == OpenSockets(c)'
           xx == Sight(c)'
<1>1. /\ OpenLines[c] = o /\ Shown[c] = x
      /\ OpenLines' = [OpenLines EXCEPT ![c] = oo] /\ Shown' = [Shown EXCEPT ![c] = xx]
  BY OneLine
<1>2. (oo = o => OpenLines' = OpenLines) /\ (xx = x => Shown' = Shown)
  BY <1>1 DEF OpenLines, Shown
<1>3. UNCHANGED <<Serial, ~Crashes>>
  BY DEF Serial, Crashes
<1>4. /\ (Line!Take(c) \/ Line!HangUp(c) \/ Line!Release(c) \/ Line!Withdraw(c)) => Line!Next
      /\ \A w \in Sockets : Line!Connect(c, w) => Line!Next
  BY <1>3 DEF Line!Next
<1>5. Moves(c) <=>
        \/ oo = o /\ xx = x
        \/ x # "busy" /\ xx = "busy" /\ oo \in {o, {}}
        \/ x \in {"busy", "none"} /\ xx = x /\ oo = {}
        \/ /\ x = "busy" /\ xx = "busy"
           /\ o = {} /\ \E w \in Sockets : oo = {w}
        \/ /\ x = "busy" /\ oo = o
           /\ \/ xx = IF o # {} THEN "on" ELSE "off"
              \/ o = {} /\ xx = "none"
        \/ x \in {"on", "off"} /\ xx = "none" /\ oo = o
  BY DEF Moves
<1> HIDE DEF o, x, oo, xx
<1>6. CASE oo = o /\ xx = x
  BY <1>2, <1>3, <1>6 DEF LineVars
<1>7. CASE x # "busy" /\ xx = "busy" /\ oo \in {o, {}}
  BY <1>1, <1>2, <1>4, <1>7 DEF Line!Take
<1>8. CASE x \in {"busy", "none"} /\ xx = x /\ oo = {}
  BY <1>1, <1>2, <1>4, <1>8 DEF Line!HangUp
<1>9. ASSUME x = "busy" /\ xx = "busy" /\ o = {}, NEW w \in Sockets, oo = {w}
      PROVE  Line!Next
  BY <1>1, <1>2, <1>4, <1>9 DEF Line!Connect
<1>10. CASE x = "busy" /\ oo = o /\ (xx = (IF o # {} THEN "on" ELSE "off") \/ (o = {} /\ xx = "none"))
  BY <1>1, <1>2, <1>4, <1>10 DEF Line!Release
<1>11. CASE x \in {"on", "off"} /\ xx = "none" /\ oo = o
  BY <1>1, <1>2, <1>4, <1>11 DEF Line!Withdraw
<1> QED
  BY <1>5, <1>6, <1>7, <1>8, <1>9, <1>10, <1>11

\* One after the other, a request on its way opens one line where there is
\* none, closes it, or ends and says what is there.
LEMMA RequestMoves ==
  ASSUME IInv, Linked, Serial, UNCHANGED world, NEW p \in Procs, Step(p)
  PROVE  \E c \in Channels : Elsewhere(c) /\ Moves(c)
<1>1. ~At(p, "idle")
  BY Working
<1>2. PICK c \in Channels : Apart(p, c)
  BY StepApart DEF IInv
<1>3. proc[p].chan = c /\ Elsewhere(c)
  BY <1>1, <1>2, ApartElsewhere DEF Apart
<1>4. Typed /\ InTurn /\ Owned /\ Stage(p) /\ \A q \in Procs \ {p} : At(q, "idle")
  BY <1>1, Alone DEF IInv, Calm, InTurn
<1>5. /\ Owned'
      /\ At(p, "idle")' \/ (proc'[p].chan = c /\ Stage(p)')
      /\ \A q \in Procs \ {p} : At(q, "idle")'
      /\ At(p, "idle")' => (row'[c].state = "live" => SaysSo(c)')
  BY <1>3, <1>4, StepFollows DEF Follows, At
<1>6. Busy(c) /\ (~At(p, "idle")' => Busy(c)') /\ (At(p, "idle")' => ~Busy(c)')
  BY <1>1, <1>3, <1>5 DEF Busy, At
<1>7. CASE DropOld(p) \/ MakeConnection(p) \/ Dial(p)
  <2>1. LiveRow(c) /\ UNCHANGED row
    BY <1>3, <1>4, <1>7 DEF DropOld, MakeConnection, Dial, Stage, At
  <2>2. LiveRow(c)'
    BY <2>1 DEF LiveRow
  <2>3. ~At(p, "idle")' /\ (DropOld(p) => At(p, "make")')
    <3>1. proc \in [Procs -> ProcType]
      BY <1>4, Types
    <3>2. CASE DropOld(p)
      BY <3>1, <3>2 DEF DropOld, Goto, At, ProcType
    <3>3. CASE MakeConnection(p)
      BY <1>4, <3>1, <3>3 DEF MakeConnection, Goto, At, ProcType, DropOld
    <3>4. CASE Dial(p)
      <4>1. At(p, "await")'
        BY <1>3, <1>4, <3>4, DialOwned
      <4>2. ~DropOld(p)
        BY <3>4 DEF Dial, DropOld, At
      <4> QED
        BY <4>1, <4>2 DEF At
    <3> QED
      BY <1>7, <3>2, <3>3, <3>4
  <2>4. Sight(c) = "busy" /\ Sight(c)' = "busy"
    BY <1>6, <2>1, <2>2, <2>3, SightIs, SightIsThen
  <2>5. CASE DropOld(p)
    <3>1. conn'[c] = None
      BY <1>5, <2>3, <2>5 DEF Stage, At
    <3>2. OpenSockets(c)' = {}
      BY <1>5, <3>1 DEF Owned, OpenSockets
    <3> QED
      BY <1>3, <2>4, <3>2 DEF Moves
  <2>6. CASE MakeConnection(p)
    <3>1. OpenSockets(c)' = OpenSockets(c)
      BY <2>6 DEF MakeConnection, OpenSockets
    <3> QED
      BY <1>3, <2>4, <3>1 DEF Moves
  <2>7. CASE Dial(p)
    <3>1. OpenSockets(c)' = OpenSockets(c)
      BY <1>3, <1>4, <2>7, DialOwned
    <3> QED
      BY <1>3, <2>4, <3>1 DEF Moves
  <2> QED
    BY <1>7, <2>5, <2>6, <2>7
<1>8. CASE DialOk(p) \/ DialFail(p)
  <2>1. UNCHANGED row /\ proc'[p].pc \in {"ok", "err"} /\ At(p, "await")
    BY <1>3, <1>4, <1>8, AwaitOwned DEF DialOk, DialFail
  <2>2. LiveRow(c) /\ LiveRow(c)' /\ ~At(p, "idle")'
    BY <1>3, <1>4, <2>1 DEF Stage, At, LiveRow
  <2>3. Sight(c) = "busy" /\ Sight(c)' = "busy"
    BY <1>6, <2>2, SightIs, SightIsThen
  <2>4. CASE proc'[p].pc = "err"
    <3>1. OpenSockets(c)' = {}
      BY <1>5, <2>2, <2>4 DEF Stage
    <3> QED
      BY <1>3, <2>3, <3>1 DEF Moves
  <2>5. CASE proc'[p].pc = "ok"
    <3>1. OpenSockets(c)' # {}
      BY <1>5, <2>2, <2>5 DEF Stage, At
    <3>2. PICK w \in Sockets : w \in OpenSockets(c)'
      BY <3>1 DEF OpenSockets
    <3>3. \A v \in OpenSockets(c)' : v = client'[conn'[c]].ws
      BY <1>5 DEF Owned, OpenSockets
    <3>4. OpenSockets(c)' = {w}
      BY <3>2, <3>3
    <3>5. OpenSockets(c) = {}
      <4>1. conn[c] = proc[p].client /\ client[conn[c]].ws = proc[p].ws /\ sock[proc[p].ws].state = "starting"
        BY <1>3, <1>4, <2>1 DEF Stage
      <4>2. ASSUME NEW v \in OpenSockets(c) PROVE FALSE
        BY <1>4, <4>1, <4>2, OpenIsOwned DEF OpenSockets
      <4> QED
        BY <4>2
    <3> QED
      BY <1>3, <2>3, <3>2, <3>4, <3>5 DEF Moves
  <2> QED
    BY <2>1, <2>4, <2>5
<1>9. CASE ConnectOk(p) \/ ConnectFailed(p) \/ DisconnectWrite(p) \/ DeleteWrite(p) \/ DeleteBotWrite(p)
  <2>1. UNCHANGED sock /\ Done(p) /\ proc[p].pc \in {"ok", "err", "off", "rm", "rmbot"}
    BY <1>9 DEF ConnectOk, ConnectFailed, DisconnectWrite, DeleteWrite, DeleteBotWrite, At
  <2>2. OpenSockets(c)' = OpenSockets(c) /\ At(p, "idle")'
    <3>1. proc \in [Procs -> ProcType] /\ Idle.pc = "idle"
      BY <1>4, Types, Nothings
    <3> QED
      BY <2>1, <3>1 DEF OpenSockets, Done, At
  <2>3. row \in [Channels -> RowType]
    BY <1>4, Types
  <2>4. CASE ConnectOk(p) \/ ConnectFailed(p) \/ DisconnectWrite(p)
    <3>1. LiveRow(c)
      BY <1>3, <1>4, <2>4 DEF ConnectOk, ConnectFailed, DisconnectWrite, Stage, At
    <3>2. PICK x \in Statuses : SetStatus(c, x)
      BY <1>3, <2>4 DEF ConnectOk, ConnectFailed, DisconnectWrite, Statuses
    <3>3. LiveRow(c)'
      BY <1>4, <3>1, <3>2, StatusOnly DEF LiveRow
    <3>4. SaysSo(c)'
      BY <1>5, <2>2, <3>3 DEF LiveRow
    <3>5. Sight(c) = "busy" /\ Sight(c)' = IF OpenSockets(c) # {} THEN "on" ELSE "off"
      BY <1>6, <2>2, <3>1, <3>3, <3>4, SightIs, SightIsThen DEF SaysSo
    <3> QED
      BY <1>3, <2>2, <3>5 DEF Moves
  <2>5. CASE DeleteWrite(p)
    <3>1. LiveRow(c) /\ OpenSockets(c) = {} /\ row' = [row EXCEPT ![c].state = "none"]
      BY <1>3, <1>4, <2>5 DEF DeleteWrite, Stage, At
    <3>2. ~LiveRow(c)'
      BY <2>3, <3>1 DEF LiveRow, RowType
    <3>3. Sight(c) = "busy" /\ Sight(c)' = "none"
      BY <1>6, <3>1, <3>2, SightIs, SightIsThen
    <3> QED
      BY <1>3, <2>2, <3>1, <3>3 DEF Moves
  <2>6. CASE DeleteBotWrite(p)
    <3>1. row[c].state = "erased" /\ row' = [row EXCEPT ![c].bot = "deleted"]
      BY <1>3, <1>4, <2>6 DEF DeleteBotWrite, Stage, At
    <3>2. ~LiveRow(c) /\ ~LiveRow(c)'
      BY <2>3, <3>1 DEF LiveRow, RowType
    <3>3. Sight(c) = "none" /\ Sight(c)' = "none"
      BY <3>2, SightIs, SightIsThen
    <3> QED
      BY <1>3, <2>2, <3>3 DEF Moves
  <2> QED
    BY <1>9, <2>4, <2>5, <2>6
<1> QED
  BY <1>7, <1>8, <1>9 DEF Step

\* A request that comes in takes a channel that nobody has taken, and at most
\* hangs up its line.
LEMMA ArrivalMoves ==
  ASSUME IInv, Linked, Serial, UNCHANGED world, NEW p \in Reqs, NEW c \in Channels,
         \/ CreateChannel(p, c) \/ UpdateChannel(p, c) \/ ConnectChannel(p, c)
         \/ DisconnectChannel(p, c) \/ DeleteChannel(p, c) \/ DeleteBot(p, c)
  PROVE  Elsewhere(c) /\ Moves(c)
<1>1. MayArrive(p) /\ p \in Procs /\ Apart(p, c)
  BY Arriving, ArrivalApart DEF IInv
<1>2. Elsewhere(c)
  BY <1>1, ApartElsewhere
<1>3. Typed /\ InTurn /\ Owned /\ Truthful
  BY DEF IInv, Calm, InTurn
<1>4. \A q \in Procs : At(q, "idle")
  <2>1. At(Startup, "idle")
    BY <1>1, <1>3 DEF Typed, MayArrive, Procs
  <2> QED
    BY <1>1, <2>1 DEF MayArrive, Procs
<1>5. /\ row[c].bot = "deleted" => row[c].state = "erased"
      /\ ~Busy(c)
      /\ row \in [Channels -> RowType] /\ proc \in [Procs -> ProcType]
  BY <1>3, <1>4, Types DEF Truthful, Busy
<1>6. Follows(p, c)
  BY <1>1, <1>3, <1>4, <1>5, ArrivalFollows
<1>7. Sight(c) # "busy"
  BY <1>5, SightIs
<1>8. ASSUME NEW op \in Ops, NEW pc \in {"drop", "off", "rm"}, Arrive(p, op, c, pc)
      PROVE  Sight(c)' = "busy" /\ proc'[p].chan = c /\ proc'[p].pc = pc
  <2>1. proc'[p].chan = c /\ proc'[p].pc = pc
    BY <1>1, <1>5, <1>8 DEF Arrive, Idle
  <2>2. Busy(c)'
    BY <1>1, <2>1 DEF Busy, At
  <2>3. LiveRow(c)'
    BY <1>6, <2>1 DEF Follows, Stage, At
  <2> QED
    BY <2>1, <2>2, <2>3, SightIsThen
<1>9. UNCHANGED <<client, sock>> => OpenSockets(c)' = OpenSockets(c)
  BY DEF OpenSockets
<1>10. CASE CreateChannel(p, c) \/ ConnectChannel(p, c)
  <2>1. PICK op \in Ops : Arrive(p, op, c, "drop")
    BY <1>10 DEF CreateChannel, ConnectChannel, Ops
  <2>2. UNCHANGED <<client, sock>>
    BY <1>10 DEF CreateChannel, ConnectChannel
  <2> QED
    BY <1>2, <1>7, <1>8, <1>9, <2>1, <2>2 DEF Moves
<1>11. CASE UpdateChannel(p, c)
  <2>1. UNCHANGED <<client, sock>>
    BY <1>11 DEF UpdateChannel
  <2>2. CASE Arrive(p, "update", c, "drop")
    <3>1. Sight(c)' = "busy"
      BY <1>8, <2>2 DEF Ops
    <3> QED
      BY <1>2, <1>7, <1>9, <2>1, <3>1 DEF Moves
  <2>3. CASE UNCHANGED proc
    <3>1. LiveRow(c) /\ \E on \in BOOLEAN : row' = [row EXCEPT ![c].enabled = on]
      BY <1>11 DEF UpdateChannel
    <3>2. row'[c].state = row[c].state /\ row'[c].status = row[c].status
      BY <1>5, <3>1 DEF RowType
    <3>3. LiveRow(c)' /\ ~Busy(c)'
      BY <1>5, <2>3, <3>1, <3>2 DEF LiveRow, Busy, At
    <3>4. Sight(c)' = Sight(c)
      BY <1>5, <3>1, <3>2, <3>3, SightIs, SightIsThen
    <3> QED
      BY <1>2, <1>9, <2>1, <3>4 DEF Moves
  <2> QED
    BY <1>11, <2>2, <2>3 DEF UpdateChannel
<1>12. CASE DisconnectChannel(p, c) \/ DeleteChannel(p, c)
  <2>1. PICK op \in Ops, pc \in {"off", "rm"} : Arrive(p, op, c, pc)
    BY <1>12 DEF DisconnectChannel, DeleteChannel, Ops
  <2>2. Sight(c)' = "busy" /\ proc'[p].chan = c /\ proc'[p].pc \in {"off", "rm"}
    BY <1>8, <2>1
  <2>3. OpenSockets(c)' = {}
    BY <1>6, <2>2 DEF Follows, Stage, At
  <2> QED
    BY <1>2, <1>7, <2>2, <2>3 DEF Moves
<1>13. CASE DeleteBot(p, c)
  <2>1. /\ UNCHANGED <<client, sock>> /\ LiveRow(c)
        /\ row' = [row EXCEPT ![c].state = "erased", ![c].enabled = FALSE, ![c].status = "DISCONNECTED"]
    BY <1>13 DEF DeleteBot
  <2>2. row'[c].state = "erased"
    BY <1>5, <2>1 DEF RowType
  <2>3. ~LiveRow(c)'
    BY <2>2 DEF LiveRow
  <2>4. Sight(c) \in {"on", "off"} /\ Sight(c)' = "none"
    BY <1>5, <2>1, <2>3, SightIs, SightIsThen
  <2> QED
    BY <1>2, <1>9, <2>1, <2>4 DEF Moves
<1> QED
  BY <1>10, <1>11, <1>12, <1>13

\* Startup takes the next channel, and releases it when its line is verified or
\* the retries are used up.
LEMMA StartupMoves ==
  ASSUME IInv, Linked, Serial, UNCHANGED world, StartupStep, NEW c \in Channels, Apart(Startup, c)
  PROVE  Elsewhere(c) /\ Moves(c)
<1>1. /\ Startup \in Procs /\ Typed /\ InTurn /\ Owned
      /\ row \in [Channels -> RowType] /\ proc \in [Procs -> ProcType] /\ Idle.pc = "idle"
  BY Types, Nothings DEF IInv, Calm, InTurn, Procs
<1>2. Elsewhere(c)
  BY <1>1, ApartElsewhere
<1>3. OpenSockets(c)' = OpenSockets(c)
  BY DEF OpenSockets, StartupStep, StartupNext, StartupVerify, StartupRetry, StartupEnd
<1>4. ASSUME NEW d \in Channels, StartupNext(d) PROVE Moves(c)
  <2>1. /\ boot.running /\ At(Startup, "idle") /\ d \in boot.todo /\ UNCHANGED row
        /\ proc' = [proc EXCEPT ![Startup] = [Idle EXCEPT !.op = "boot", !.pc = "drop", !.chan = d, !.try = 1]]
    BY <1>4 DEF StartupNext
  <2>2. proc'[Startup].pc = "drop" /\ proc'[Startup].chan = d
    BY <1>1, <2>1 DEF Idle
  <2>3. d = c
    BY <2>2 DEF Apart, At
  <2>4. LiveRow(c) /\ LiveRow(c)'
    BY <2>1, <2>3 DEF IInv, Starting, Wanted, LiveRow
  <2>5. ~Busy(c) /\ Busy(c)'
    <3>1. \A q \in Procs : At(q, "idle")
      BY <1>1, <2>1 DEF Typed
    <3> QED
      BY <1>1, <2>2, <2>3, <3>1 DEF Busy, At
  <2>6. Sight(c) # "busy" /\ Sight(c)' = "busy"
    BY <2>4, <2>5, SightIs, SightIsThen
  <2> QED
    BY <1>3, <2>6 DEF Moves
<1>5. ASSUME StartupVerify \/ StartupRetry PROVE Moves(c)
  <2>1. At(Startup, "ok") \/ At(Startup, "err")
    BY <1>5 DEF StartupVerify, StartupRetry
  <2>2. ~At(Startup, "idle")
    BY <2>1 DEF At
  <2>3. proc[Startup].chan = c /\ Busy(c) /\ Stage(Startup) /\ \A q \in Procs \ {Startup} : At(q, "idle")
    BY <1>1, <2>2, Alone DEF Apart, Busy, InTurn
  <2>4. LiveRow(c)
    BY <2>1, <2>3 DEF Stage, At
  <2>5. Sight(c) = "busy"
    BY <2>3, <2>4, SightIs
  <2>6. ASSUME NEW x \in {"CONNECTED", "ERROR"}, SetStatus(c, x), Done(Startup),
               x = "CONNECTED" <=> OpenSockets(c) # {}
        PROVE  Moves(c)
    <3>1. LiveRow(c)' /\ row'[c].status = x
      BY <1>1, <2>4, <2>6, StatusOnly DEF LiveRow, Statuses
    <3>2. ~Busy(c)'
      <4>1. \A q \in Procs : At(q, "idle")'
        BY <1>1, <2>3, <2>6 DEF Done, At
      <4> QED
        BY <4>1 DEF Busy
    <3>3. Sight(c)' = IF OpenSockets(c) # {} THEN "on" ELSE "off"
      BY <2>6, <3>1, <3>2, SightIsThen
    <3> QED
      BY <1>3, <2>5, <3>3 DEF Moves
  <2>7. CASE StartupVerify
    <3>1. OpenSockets(c) # {}
      BY <2>3, <2>7 DEF Stage, StartupVerify
    <3>2. IsConnected(c)
      BY <1>1, <3>1, OpenIsOwned DEF IsConnected
    <3> QED
      BY <2>3, <2>6, <2>7, <3>1, <3>2 DEF StartupVerify
  <2>8. CASE StartupRetry
    <3>1. OpenSockets(c) = {}
      BY <2>3, <2>8 DEF Stage, StartupRetry, At
    <3>2. CASE SetStatus(c, "ERROR") /\ Done(Startup)
      BY <2>6, <3>1, <3>2
    <3>3. CASE /\ proc' = [proc EXCEPT ![Startup].pc = "drop", ![Startup].try = @ + 1]
               /\ UNCHANGED row
      <4>1. proc'[Startup].pc = "drop" /\ proc'[Startup].chan = c
        BY <1>1, <2>3, <3>3 DEF ProcType
      <4>2. Busy(c)' /\ LiveRow(c)'
        BY <1>1, <2>4, <3>3, <4>1 DEF Busy, At, LiveRow
      <4> QED
        BY <1>3, <2>5, <4>2, SightIsThen DEF Moves
    <3> QED
      BY <2>3, <2>8, <3>2, <3>3 DEF StartupRetry
  <2> QED
    BY <1>5, <2>7, <2>8
<1>6. ASSUME StartupEnd PROVE Moves(c)
  <2>1. UNCHANGED <<row, proc>>
    BY <1>6 DEF StartupEnd
  <2>2. Sight(c)' = Sight(c)
    BY <2>1, SightStays DEF Busy, At
  <2> QED
    BY <1>3, <2>2 DEF Moves
<1> QED
  BY <1>2, <1>4, <1>5, <1>6 DEF StartupStep

\* A message for a deleted bot hangs up the line of a channel that is withdrawn.
LEMMA MessageMoves ==
  ASSUME IInv, Linked, UNCHANGED world, NEW w \in Sockets, MessageForDeleted(w)
  PROVE  \E c \in Channels : Elsewhere(c) /\ (Serial => Moves(c))
<1>1. /\ sock[w] \in SocketType /\ sock[w].state = "open" /\ UNCHANGED proc
      /\ row \in [Channels -> RowType] /\ Typed
  BY Types DEF MessageForDeleted, IInv
<1>2. PICK c \in Channels : sock[w].chan = c /\ row[c].bot = "deleted"
  BY <1>1, SocketKinds DEF MessageForDeleted
<1>3. \A d : Busy(d)' = Busy(d)
  BY <1>1 DEF Busy, At
<1>4. /\ SetStatus(c, "DISCONNECTED")
      /\ IF conn[c] = None
           THEN UNCHANGED <<conn, client, sock>>
           ELSE StopClient(conn[c]) /\ conn' = [conn EXCEPT ![c] = None]
  BY <1>2 DEF MessageForDeleted
<1>5. \A d \in Channels : row'[d].state = row[d].state /\ (d # c => row'[d] = row[d])
  BY <1>1, <1>2, <1>4, StatusOnly DEF Statuses
<1>6. SocketsOf(c)
  BY <1>1, <1>2, <1>4, StopLinked
<1>7. Elsewhere(c)
  BY <1>3, <1>5, <1>6, SocketsElsewhere, SightStays DEF Elsewhere
<1>8. ASSUME Serial PROVE Moves(c)
  <2>1. Owned /\ Truthful
    BY <1>8 DEF IInv, Calm, InTurn
  <2>2. ~LiveRow(c) /\ ~LiveRow(c)'
    BY <1>1, <1>2, <1>5, <2>1 DEF Truthful, LiveRow
  <2>3. Sight(c) = "none" /\ Sight(c)' = "none"
    BY <2>2, SightIs, SightIsThen
  <2>4. CASE conn[c] = None
    <3>1. OpenSockets(c)' = OpenSockets(c)
      BY <1>4, <2>4 DEF OpenSockets
    <3> QED
      BY <2>3, <3>1 DEF Moves
  <2>5. CASE conn[c] # None
    <3>1. OpenSockets(c)' = {}
      BY <1>1, <1>2, <1>4, <2>1, <2>5, StopOwned
    <3> QED
      BY <2>3, <3>1 DEF Moves
  <2> QED
    BY <2>4, <2>5
<1> QED
  BY <1>2, <1>7, <1>8

\* A crash closes every line. Whoever had taken a channel is gone.
LEMMA CrashRestarts ==
  ASSUME Crash, UNCHANGED world
  PROVE  Line!Next
<1>1. /\ \A w \in Sockets : sock'[w] = NoSocket
      /\ \A p \in Procs : proc'[p] = Idle
      /\ row' = row /\ Crashes
  BY DEF Crash
<1>2. NoSocket.state = "free" /\ Idle.pc = "idle"
  BY Nothings
<1>3. \A c \in Channels : OpenSockets(c)' = {}
  BY <1>1, <1>2 DEF OpenSockets
<1>4. ASSUME NEW c \in Channels
      PROVE  /\ Sight(c)' \in {"none", "busy", "on", "off"}
             /\ Sight(c)' = Sight(c) \/ (Sight(c) = "busy" /\ Sight(c)' \in {"on", "off"})
  <2>1. ~Busy(c)' /\ (LiveRow(c)' <=> LiveRow(c)) /\ row'[c] = row[c]
    BY <1>1, <1>2 DEF Busy, At, LiveRow
  <2> QED
    BY <2>1, SightIs, SightIsThen
<1>5. OpenLines' = [c \in Channels |-> {}]
  BY <1>3 DEF OpenLines
<1>6. /\ Shown' \in [Channels -> Line!Words]
      /\ \A c \in Channels : Shown'[c] = Shown[c] \/ (Shown[c] = "busy" /\ Shown'[c] \in {"on", "off"})
  BY <1>4 DEF Shown, Line!Words
<1>7. Line!Restart
  BY <1>1, <1>5, <1>6 DEF Line!Restart
<1> QED
  BY <1>7 DEF Line!Next, Serial, Crashes

LEMMA LineStep ==
  ASSUME IInv, Linked, [Next /\ UNCHANGED world]_<<vars, world>>
  PROVE  [Line!Next]_LineVars
<1>1. ASSUME UNCHANGED <<row, sock, proc, world>> PROVE UNCHANGED LineVars
  <2>1. \A c : Busy(c)' = Busy(c) /\ OpenSockets(c)' = OpenSockets(c)
    BY <1>1 DEF Busy, At, OpenSockets
  <2>2. \A c : Sight(c)' = Sight(c)
    BY <1>1, <2>1, SightStays
  <2> QED
    BY <1>1, <2>1, <2>2 DEF LineVars, OpenLines, Shown, Serial, Crashes
<1>2. CASE UNCHANGED <<vars, world>>
  BY <1>1, <1>2 DEF vars
<1>3. ASSUME UNCHANGED world, NEW c \in Channels, Elsewhere(c), Serial => Moves(c)
      PROVE  [Line!Next]_LineVars
  BY <1>3, Overlaps, LineMoves
<1>4. ASSUME UNCHANGED world, NEW p \in Procs, Step(p) PROVE [Line!Next]_LineVars
  <2>1. \E c \in Channels : Elsewhere(c) /\ (Serial => Moves(c))
    <3>1. CASE Serial
      BY <1>4, <3>1, RequestMoves
    <3>2. CASE ~Serial
      BY <1>4, <3>2, StepApart, ApartElsewhere DEF IInv
    <3> QED
      BY <3>1, <3>2
  <2> QED
    BY <1>3, <1>4, <2>1
<1>5. ASSUME UNCHANGED world, NEW p \in Reqs, NEW c \in Channels,
             \/ CreateChannel(p, c) \/ UpdateChannel(p, c) \/ ConnectChannel(p, c)
             \/ DisconnectChannel(p, c) \/ DeleteChannel(p, c) \/ DeleteBot(p, c)
      PROVE  [Line!Next]_LineVars
  <2>1. Elsewhere(c)
    BY <1>5, ArrivalApart, ApartElsewhere DEF IInv
  <2>2. Serial => Moves(c)
    BY <1>5, ArrivalMoves
  <2> QED
    BY <1>3, <1>5, <2>1, <2>2
<1>6. ASSUME UNCHANGED world, StartupStep PROVE [Line!Next]_LineVars
  <2>1. CASE UNCHANGED <<row, conn, client, sock, proc>>
    BY <1>1, <1>6, <2>1
  <2>2. ASSUME NEW c \in Channels, Apart(Startup, c) PROVE [Line!Next]_LineVars
    <3>1. Startup \in Procs
      BY DEF Procs
    <3>2. Elsewhere(c) /\ (Serial => Moves(c))
      BY <1>6, <2>2, <3>1, StartupMoves, ApartElsewhere
    <3> QED
      BY <1>3, <1>6, <3>2
  <2> QED
    BY <1>6, <2>1, <2>2, StartupApart DEF IInv
<1>7. ASSUME UNCHANGED world, NEW w \in Sockets, MessageForDeleted(w) PROVE [Line!Next]_LineVars
  BY <1>3, <1>7, MessageMoves
<1> QED
  BY <1>2, <1>4, <1>5, <1>6, <1>7, CrashRestarts DEF Next

LEMMA LineInit ==
  ASSUME Init
  PROVE  Line!Init
<1>1. NoSocket.state = "free" /\ NoRow.state = "none"
  BY Nothings DEF NoRow
<1>2. \A c \in Channels : OpenSockets(c) = {} /\ ~LiveRow(c)
  BY <1>1 DEF Init, OpenSockets, LiveRow
<1>3. \A c \in Channels : Sight(c) = "none"
  BY <1>2, SightIs
<1>4. {Serial, ~Crashes} \subseteq BOOLEAN
  BY FeishuChannelAssumption DEF Init, Serial, Crashes
<1> QED
  BY <1>2, <1>3, <1>4 DEF Line!Init, OpenLines, Shown

\* What users are promised of the lines holds of the real connections: while
\* requests wait for one another a socket is opened, closed and shown only by
\* the request, or startup, that has the channel, and in any case none touches
\* another channel's.
THEOREM LinesAreKept == Spec => LinesHold
<1>1. [Line!Next]_LineVars <=> [Line!Next]_<<OpenLines, Shown, Serial, ~Crashes>>
  BY DEF LineVars
<1> QED
  BY <1>1, LineInit, LineStep, Invariant, AlwaysLinked, PTL DEF Spec, LinesHold, Line!Spec

-----------------------------------------------------------------------------
(* Messages. HandlerInv is inductive; NoDoubleReply alone is not, because   *)
(* it does not say that a call that is about to reply is the only one.     *)

\* The invariant holds at the start: nothing is in flight or answered.
LEMMA InitInv == HandlerInit => HandlerInv
<1> SUFFICES ASSUME HandlerInit PROVE HandlerInv
  OBVIOUS
<1> USE FeishuMessagesAssumption
<1>1. HandlerTypeOK
  BY DEF HandlerInit, HandlerTypeOK, NoCall
<1>2. \A m \in Messages : Handled(m)
  BY DEF HandlerInit, Handled, NoCall
<1> QED BY <1>1, <1>2 DEF HandlerInv

\* Every step keeps the type of every variable.
LEMMA TypeStep == HandlerTypeOK /\ [HandlerNext]_handlerVars /\ world' = world => HandlerTypeOK'
<1> SUFFICES ASSUME HandlerTypeOK, [HandlerNext]_handlerVars, world' = world PROVE HandlerTypeOK'
  OBVIOUS
<1> USE FeishuMessagesAssumption DEF HandlerTypeOK
<1>1. ASSUME NEW k \in Calls, NEW m \in Messages, Deliver(k, m) PROVE HandlerTypeOK'
  BY <1>1 DEF Deliver, CallAt
<1>2. ASSUME NEW k \in Calls, LookupBot(k) PROVE HandlerTypeOK'
  BY <1>2 DEF LookupBot, CallAt, CallGoto, Finish, NoCall
<1>3. ASSUME NEW k \in Calls, Chat(k) PROVE HandlerTypeOK'
  BY <1>3 DEF Chat, CallAt, CallGoto, Finish, NoCall
<1>4. ASSUME NEW k \in Calls, Reply(k) PROVE HandlerTypeOK'
  BY <1>4 DEF Reply, CallAt, CallGoto, Finish, NoCall
<1>5. ASSUME NEW k \in Calls, Acknowledge(k) PROVE HandlerTypeOK'
  BY <1>5 DEF Acknowledge, CallAt, Finish, NoCall
<1>6. ASSUME NEW m \in Messages, Forget(m) PROVE HandlerTypeOK'
  BY <1>6 DEF Forget
<1>7. CASE BotChanges
  BY <1>7 DEF BotChanges
<1>8. CASE HandlerCrash
  BY <1>8 DEF HandlerCrash, NoCall
<1>9. CASE UNCHANGED handlerVars
  BY <1>9 DEF handlerVars
<1> QED BY <1>1, <1>2, <1>3, <1>4, <1>5, <1>6, <1>7, <1>8, <1>9 DEF HandlerNext, CallStep

\* The end of a call leaves every message handled: its message is delivered no
\* more, and the call has it no more.
LEMMA FinishHandled ==
  ASSUME HandlerTypeOK, NEW k \in Calls, Finish(k), call[k].pc # "idle",
         UNCHANGED <<seen, replies>>,
         \A m \in Messages : Handled(m)
  PROVE  \A m \in Messages : Handled(m)'
<1> TAKE m \in Messages
<1>0. Handled(m)
  OBVIOUS
<1>1. \A j \in Calls : call'[j] = IF j = k THEN NoCall ELSE call[j]
  BY DEF Finish, HandlerTypeOK
<1>2. NoCall.msg # m
  BY FeishuMessagesAssumption DEF NoCall
<1>3. unacked' \subseteq unacked
  BY DEF Finish
<1> QED BY <1>0, <1>1, <1>2, <1>3 DEF Handled

\* Every step of a process that neither crashes nor outlasts the marks keeps
\* every message handled.
LEMMA HandledStep ==
  ASSUME HandlerTypeOK, Reliable, [HandlerNext]_handlerVars, \A m \in Messages : Handled(m)
  PROVE  \A m \in Messages : Handled(m)'
<1> USE FeishuMessagesAssumption
<1>1. ASSUME NEW k \in Calls, NEW n \in Messages, Deliver(k, n)
      PROVE  \A m \in Messages : Handled(m)'
  <2> TAKE m \in Messages
  <2>0. Handled(m) /\ n \in unacked /\ call[k].pc = "idle" /\ UNCHANGED replies
    BY <1>1 DEF Deliver, CallAt
  <2>1. CASE n \in seen
    BY <1>1, <2>0, <2>1 DEF Deliver, Handled
  <2>2. CASE n \notin seen
    <3>1. seen' = seen \cup {n} /\ UNCHANGED unacked
      BY <1>1, <2>2 DEF Deliver
    <3>2. \A j \in Calls : call'[j] = IF j = k THEN [msg |-> n, pc |-> "lookup"] ELSE call[j]
      BY <1>1, <2>2 DEF Deliver, HandlerTypeOK
    <3>3. CASE m # n
      BY <2>0, <3>1, <3>2, <3>3 DEF Handled
    <3>4. CASE m = n
      <4>1. replies[m] = 0 /\ \A j \in Calls : call[j].msg # m
        BY <2>0, <2>2, <3>4 DEF Handled, HandlerTypeOK
      <4> QED BY <2>0, <3>1, <3>2, <3>4, <4>1 DEF Handled
    <3> QED BY <3>3, <3>4
  <2> QED BY <2>1, <2>2
<1>2. ASSUME NEW k \in Calls, CallGoto(k, "chat") \/ CallGoto(k, "reply"),
             call[k].pc \in {"lookup", "chat"}, UNCHANGED <<seen, unacked, replies>>
      PROVE  \A m \in Messages : Handled(m)'
  <2> TAKE m \in Messages
  <2>1. \A j \in Calls : call'[j].msg = call[j].msg /\ (call[j].pc = "ack" <=> call'[j].pc = "ack")
    BY <1>2 DEF CallGoto, HandlerTypeOK, NoCall
  <2>2. Handled(m)
    OBVIOUS
  <2> QED BY <1>2, <2>1, <2>2 DEF Handled
<1>3. ASSUME NEW k \in Calls, LookupBot(k) PROVE \A m \in Messages : Handled(m)'
  BY <1>2, <1>3, FinishHandled DEF LookupBot, CallAt
<1>4. ASSUME NEW k \in Calls, Chat(k) PROVE \A m \in Messages : Handled(m)'
  BY <1>2, <1>4, FinishHandled DEF Chat, CallAt
<1>5. ASSUME NEW k \in Calls, Reply(k) PROVE \A m \in Messages : Handled(m)'
  <2>1. CASE Finish(k) /\ UNCHANGED replies
    BY <1>5, <2>1, FinishHandled DEF Reply, CallAt
  <2>2. CASE replies' = [replies EXCEPT ![call[k].msg] = @ + 1] /\ CallGoto(k, "ack") /\ UNCHANGED unacked
    <3> TAKE m \in Messages
    <3>1. \A j \in Calls : call'[j].msg = call[j].msg /\ (call'[j].pc = IF j = k THEN "ack" ELSE call[j].pc)
      BY <2>2 DEF CallGoto, HandlerTypeOK, NoCall
    <3>2. Handled(m) /\ call[k].pc = "reply" /\ UNCHANGED seen
      BY <1>5 DEF Reply, CallAt
    <3>3. call[k].msg \in Messages
      BY <3>2 DEF HandlerTypeOK, NoCall
    <3>4. CASE m # call[k].msg
      <4>1. replies'[m] = replies[m]
        BY <2>2, <3>3, <3>4 DEF HandlerTypeOK
      <4> QED BY <2>2, <3>1, <3>2, <3>4, <4>1 DEF Handled
    <3>5. CASE m = call[k].msg
      <4>1. replies[m] = 0
        BY <3>2, <3>5 DEF Handled
      <4>2. replies'[m] = 1
        BY <2>2, <3>5, <4>1 DEF HandlerTypeOK
      <4> QED BY <2>2, <3>1, <3>2, <3>5, <4>2 DEF Handled
    <3> QED BY <3>4, <3>5
  <2> QED BY <1>5, <2>1, <2>2 DEF Reply
<1>6. ASSUME NEW k \in Calls, Acknowledge(k) PROVE \A m \in Messages : Handled(m)'
  BY <1>6, FinishHandled DEF Acknowledge, CallAt
<1>7. ASSUME NEW n \in Messages, Forget(n) PROVE \A m \in Messages : Handled(m)'
  BY <1>7 DEF Forget, Handled, Reliable
<1>8. CASE BotChanges \/ UNCHANGED handlerVars
  BY <1>8 DEF BotChanges, handlerVars, Handled
<1>9. ~HandlerCrash
  BY DEF HandlerCrash, Reliable
<1> QED BY <1>1, <1>3, <1>4, <1>5, <1>6, <1>7, <1>8, <1>9 DEF HandlerNext, CallStep

\* The inductive step.
LEMMA InvStep == HandlerInv /\ [HandlerNext]_handlerVars /\ world' = world => HandlerInv'
<1> SUFFICES ASSUME HandlerInv, [HandlerNext]_handlerVars, world' = world PROVE HandlerInv'
  OBVIOUS
<1>1. Reliable' = Reliable
  BY DEF Reliable, Slow, Crashes
<1>2. Reliable => \A m \in Messages : Handled(m)'
  BY HandledStep DEF HandlerInv
<1>3. HandlerTypeOK'
  BY TypeStep DEF HandlerInv
<1> QED BY <1>1, <1>2, <1>3 DEF HandlerInv

\* A step of the specification is a step of HandlerNext in an unchanged environment.
LEMMA Steps ==
  ASSUME [HandlerNext /\ UNCHANGED world]_<<handlerVars, world>>
  PROVE  [HandlerNext]_handlerVars /\ world' = world
OBVIOUS

\* HandlerInv holds in every reachable state.
LEMMA AlwaysInv == HandlerSpec => []HandlerInv
<1>1. HandlerInv /\ [HandlerNext /\ UNCHANGED world]_<<handlerVars, world>> => HandlerInv'
  BY InvStep, Steps
<1> QED BY <1>1, InitInv, PTL DEF HandlerSpec

\* No message is answered twice in a process that does not crash, while no
\* call or redelivery outlasts MESSAGE_ID_TTL (feishu-message-handler).
THEOREM RepliesOnce == HandlerSpec => []NoDoubleReply
<1>1. HandlerInv => NoDoubleReply
  BY DEF HandlerInv, NoDoubleReply, Handled
<1> QED BY <1>1, AlwaysInv, PTL

-----------------------------------------------------------------------------
(* The refinement. Fate is the mapped variable `state`.                    *)

Fate == [m \in Messages |-> Outcome(m)]
Mapped == <<Fate, replies, Reliable>>

\* At the start every message is pending and unanswered.
LEMMA RefineInit == HandlerInit => Delivery!Init
<1> SUFFICES ASSUME HandlerInit PROVE Delivery!Init
  OBVIOUS
<1>1. \A m \in Messages : Outcome(m) = "pending"
  BY DEF HandlerInit, Outcome
<1>2. Reliable \in BOOLEAN
  BY DEF Reliable
<1> QED BY <1>1, <1>2 DEF HandlerInit, Delivery!Init

\* The messages that Feishu still delivers or a call has in its hands.
Open(m) == m \in unacked \/ \E k \in Calls : call[k].msg = m

\* A step without a reply that takes up no message but an open one drops
\* those that are then no longer open, or is not seen.
LEMMA DropsClosed ==
  ASSUME HandlerTypeOK, UNCHANGED <<replies, world>>,
         \A m \in Messages : Open(m)' => Open(m)
  PROVE  [Delivery!Next]_Mapped
<1> DEFINE D == {m \in Messages : Outcome(m) = "pending" /\ Outcome(m)' = "dropped"}
<1>1. \A m \in Messages : Outcome(m)' = IF m \in D THEN "dropped" ELSE Outcome(m)
  BY DEF Outcome, Open
<1>2. UNCHANGED Reliable
  BY DEF Reliable, Slow, Crashes
<1>3. CASE D = {}
  BY <1>1, <1>2, <1>3 DEF Mapped, Fate
<1>4. CASE D # {}
  <2>1. Fate' = [m \in Messages |-> IF m \in D THEN "dropped" ELSE Fate[m]]
    BY <1>1 DEF Fate
  <2>2. Delivery!Drop(D)
    BY <1>4, <2>1 DEF Delivery!Drop, Delivery!Pending, Fate
  <2>3. D \in SUBSET Messages
    OBVIOUS
  <2> QED BY <1>2, <2>2, <2>3 DEF Delivery!Next, Mapped
<1> QED BY <1>3, <1>4

\* A reply answers a pending message, or repeats an answer in an unreliable
\* process.
LEMMA ReplyAnswers ==
  ASSUME HandlerInv, UNCHANGED world, NEW k \in Calls, call[k].pc = "reply",
         replies' = [replies EXCEPT ![call[k].msg] = @ + 1], CallGoto(k, "ack"), UNCHANGED unacked
  PROVE  Delivery!Next
<1> USE FeishuMessagesAssumption
<1>0. HandlerTypeOK /\ (Reliable => \A m \in Messages : Handled(m))
  BY DEF HandlerInv
<1>1. PICK n \in Messages : n = call[k].msg
  BY <1>0 DEF HandlerTypeOK, NoCall
<1>2. \A j \in Calls : call'[j].msg = call[j].msg
  BY <1>0 DEF CallGoto, HandlerTypeOK, NoCall
<1>3. replies[n] \in Nat /\ \A m \in Messages : replies'[m] = IF m = n THEN replies[n] + 1 ELSE replies[m]
  BY <1>0, <1>1 DEF HandlerTypeOK
<1>4. Outcome(n)' = "answered" /\ \A m \in Messages : m # n => Outcome(m)' = Outcome(m)
  BY <1>2, <1>3 DEF Outcome
<1>5. UNCHANGED Reliable /\ Fate' = [Fate EXCEPT ![n] = "answered"]
  BY <1>4 DEF Reliable, Slow, Crashes, Fate
<1>6. CASE replies[n] = 0
  <2>1. Fate[n] = "pending"
    BY <1>1, <1>6 DEF Outcome, Fate
  <2>2. Delivery!Answer(n)
    BY <1>1, <1>5, <2>1 DEF Delivery!Answer, Delivery!Pending, Fate
  <2> QED BY <1>5, <2>2 DEF Delivery!Next
<1>7. CASE replies[n] > 0
  <2>1. Fate[n] = "answered"
    BY <1>7 DEF Outcome, Fate
  <2>2. Fate' = Fate /\ ~Reliable
    BY <1>0, <1>1, <1>5, <1>7, <2>1 DEF Handled, Fate
  <2>3. Delivery!Repeat(n)
    BY <1>1, <2>1, <2>2 DEF Delivery!Repeat, Fate
  <2> QED BY <1>5, <2>3 DEF Delivery!Next
<1> QED BY <1>3, <1>6, <1>7

\* Every step of the handler drops, answers or repeats, or is not seen.
LEMMA RefineStep ==
  ASSUME HandlerInv, [HandlerNext]_handlerVars, world' = world
  PROVE  [Delivery!Next]_Mapped
<1> USE FeishuMessagesAssumption
<1>0. HandlerTypeOK
  BY DEF HandlerInv
<1>1. ASSUME NEW k \in Calls, NEW n \in Messages, Deliver(k, n)
      PROVE  [Delivery!Next]_Mapped
  <2>1. \A j \in Calls : call'[j].msg = call[j].msg \/ call'[j].msg = n
    BY <1>0, <1>1 DEF Deliver, HandlerTypeOK
  <2>2. n \in unacked /\ unacked' \subseteq unacked /\ UNCHANGED replies
    BY <1>1 DEF Deliver
  <2> QED BY <1>0, <2>1, <2>2, DropsClosed DEF Open
<1>2. ASSUME NEW k \in Calls, NEW pc, CallGoto(k, pc), UNCHANGED <<unacked, replies>>
      PROVE  [Delivery!Next]_Mapped
  <2>1. \A j \in Calls : call'[j].msg = call[j].msg
    BY <1>0, <1>2 DEF CallGoto, HandlerTypeOK, NoCall
  <2> QED BY <1>0, <1>2, <2>1, DropsClosed DEF Open
<1>3. ASSUME NEW k \in Calls, Finish(k), UNCHANGED replies
      PROVE  [Delivery!Next]_Mapped
  <2>1. unacked' \subseteq unacked /\ \A j \in Calls : call'[j].msg = call[j].msg \/ call'[j].msg = None
    BY <1>0, <1>3 DEF Finish, HandlerTypeOK, NoCall
  <2> QED BY <1>0, <1>3, <2>1, DropsClosed DEF Open
<1>4. ASSUME NEW k \in Calls, LookupBot(k) PROVE [Delivery!Next]_Mapped
  BY <1>2, <1>3, <1>4 DEF LookupBot
<1>5. ASSUME NEW k \in Calls, Chat(k) PROVE [Delivery!Next]_Mapped
  BY <1>2, <1>3, <1>5 DEF Chat
<1>6. ASSUME NEW k \in Calls, Reply(k) PROVE [Delivery!Next]_Mapped
  BY <1>3, <1>6, ReplyAnswers DEF Reply, CallAt
<1>7. ASSUME NEW k \in Calls, Acknowledge(k) PROVE [Delivery!Next]_Mapped
  BY <1>3, <1>7 DEF Acknowledge
<1>8. CASE (\E m \in Messages : Forget(m)) \/ BotChanges \/ UNCHANGED handlerVars
  BY <1>0, <1>8, DropsClosed DEF Forget, BotChanges, handlerVars, Open
<1>9. CASE HandlerCrash
  <2>1. \A j \in Calls : call'[j].msg = None
    BY <1>9 DEF HandlerCrash, NoCall
  <2> QED BY <1>0, <1>9, <2>1, DropsClosed DEF HandlerCrash, Open
<1> QED BY <1>1, <1>4, <1>5, <1>6, <1>7, <1>8, <1>9 DEF HandlerNext, CallStep

\* The handler implements MessageDelivery (feishu-message-handler.service.ts),
\* across crashes and however late an answer is: see Repeat there.
THEOREM Implements == HandlerSpec => DeliveryHolds
<1>1. HandlerInv /\ [HandlerNext /\ UNCHANGED world]_<<handlerVars, world>> => [Delivery!Next]_Mapped
  BY RefineStep, Steps
<1> QED BY <1>1, RefineInit, AlwaysInv, PTL DEF HandlerSpec, DeliveryHolds, Delivery!Spec, Fate, Mapped
=============================================================================
