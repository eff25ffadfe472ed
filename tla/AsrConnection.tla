---------------------------- MODULE AsrConnection ----------------------------
(***************************************************************************)
(* The connection of a session to its provider, kept by                    *)
(* volcengine-streaming.provider.ts: WebSockets that are opened, break and *)
(* are replaced after a delay, audio that is packed (asynchronously) and   *)
(* sent or buffered meanwhile, heartbeats, and results that come in.       *)
(* Socket 0 is that of connect; attempt a of attemptReconnect opens        *)
(* socket a.                                                               *)
(***************************************************************************)
EXTENDS AsrSession, FiniteSets

CONSTANTS
  MaxPackets,    \* bound: packets of audio; the last one says so
  MaxRetries, BufferSize

Packets == 1 .. MaxPackets
Sockets == 0 .. 2 * MaxRetries
Attempts == Sockets \ {0}

\* sendAudio runs for a packet of a client, and for each packet that is
\* buffered when socket i replaces a broken one.
Tasks == ({"packet"} \X Packets) \cup ({"flush"} \X Attempts)

ASSUME ConnectionAssumption == {MaxPackets, MaxRetries, BufferSize} \subseteq Nat \ {0}

VARIABLES
  created,    \* createSession: "no", "pending", "done", "failed"
  conn,       \* the ConnectionInfo; in: whether `connections` has it
  sock,       \* the sockets
  att,        \* attempts to reconnect, and who waits for each
  task,       \* runs of sendAudio
  greeting,   \* sockets that are open and whose first message is being packed
  inbox,      \* messages of the provider that are being unpacked
  spoken,     \* how many messages the provider has sent (at most MaxText)
  beats,      \* whether the heartbeat is on, is being packed, and awaits an answer
  heard,      \* history: packets that were sent, with their socket
  torn        \* history: packets being packed when their socket closed; 0 for any other message

connVars == <<created, conn, sock, att, task, greeting, inbox, spoken, beats, heard, torn>>

NoConn == [in |-> FALSE, status |-> "none", ws |-> 0, reconnecting |-> FALSE, retry |-> 0,
           pending |-> <<>>, text |-> 0]
Silence == [on |-> FALSE, packing |-> FALSE, awaited |-> FALSE]
NoTask == [at |-> "idle", ws |-> 0, pos |-> 0, own |-> <<>>]

IsPacket(t) == t[1] = "packet"
Last(t) == t = <<"packet", MaxPackets>>
IsOpen(i) == sock[i] = "open"

\* stopHeartbeat finds the connection by its id.
StopBeats == IF conn.in THEN [beats EXCEPT !.on = FALSE, !.awaited = FALSE] ELSE beats

(* attemptReconnect up to its delay, as a function of what it changes      *)

State == [conn |-> conn, sess |-> sess, att |-> att]
Become(s) == conn' = s.conn /\ sess' = s.sess /\ att' = s.att

Fresh(s) == CHOOSE a \in Attempts : s.att[a].at = "none" /\ \A b \in 1 .. a - 1 : s.att[b].at # "none"

\* Nobody is told that there will be no more attempts.
GiveUpQuietly(s, by) ==
  IF ~s.conn.in THEN s
  ELSE IF s.conn.retry >= MaxRetries THEN [s EXCEPT !.conn.status = "disconnected"]
  ELSE [s EXCEPT !.conn.reconnecting = TRUE, !.conn.retry = @ + 1,
                 !.att[Fresh(s)] = [at |-> "waiting", by |-> by]]

Attempt(s, by) ==
  IF ~s.conn.in THEN s
  ELSE IF s.conn.retry >= MaxRetries
    THEN [s EXCEPT !.conn.status = "disconnected", !.sess = Disconnected(Errored(@))]
  ELSE [s EXCEPT !.conn.reconnecting = TRUE, !.conn.retry = @ + 1,
                 !.att[Fresh(s)] = [at |-> "waiting", by |-> by]]

Resolved(s, i) == IF s.att[i].at = "opening" THEN [s EXCEPT !.att[i].at = "ended"] ELSE s

\* reconnect fails: the attempt that waits for it begins another.
Rejected(s, i) == IF s.att[i].at = "opening" THEN Attempt(Resolved(s, i), s.att[i].by) ELSE s

(* sendAudio                                                               *)

\* The array a flush goes through, which another flush may have replaced.
Array(t) == IF task[t].own # <<>> THEN task[t].own ELSE conn.pending
Value(t) == IF IsPacket(t) THEN t[2] ELSE Array(t)[task[t].pos]

Buffered(q, x) == IF Len(q.pending) < BufferSize THEN [q EXCEPT !.pending = Append(@, x)] ELSE q

\* The session's sendAudio goes on when the provider's returns.
Return(t) ==
  IF IsPacket(t)
    THEN /\ task' = [task EXCEPT ![t].at = "done"]
         /\ since' = "now" /\ cmds' = Save(sess, "none", 0)
    ELSE /\ task' = [task EXCEPT ![t].at = "next", ![t].pos = @ + 1]
         /\ UNCHANGED <<since, cmds>>

Throw(t) ==
  /\ task' = [task EXCEPT ![t] = IF IsPacket(t) THEN [@ EXCEPT !.at = "failed"] ELSE NoTask]
  /\ Become(IF IsPacket(t) THEN State ELSE Rejected(State, t[2]))
  /\ UNCHANGED <<since, cmds>>

Keep(t) == conn' = Buffered(conn, Value(t)) /\ Return(t) /\ UNCHANGED <<sess, att>>

Pack(t, status) ==
  /\ conn' = [conn EXCEPT !.status = status]
  /\ task' = [task EXCEPT ![t].at = "packing", ![t].ws = conn.ws]
  /\ UNCHANGED <<sess, att, since, cmds>>

ToSocket(t) ==
  \/ IsOpen(conn.ws) /\ Pack(t, conn.status)
  \/ ~IsOpen(conn.ws) /\ IF Last(t) THEN Throw(t) ELSE Keep(t)

SendAudio(t) ==
  \/ (~conn.in \/ (~conn.reconnecting /\ conn.status \in {"connecting", "error"})) /\ Throw(t)
  \/ conn.in /\ conn.reconnecting /\ Keep(t)
  \/ conn.in /\ ~conn.reconnecting /\ conn.status \in Active /\ ToSocket(t)
  \/ /\ conn.in /\ ~conn.reconnecting /\ conn.status \in {"completed", "disconnected"}
     /\ \/ IsOpen(conn.ws) /\ Pack(t, "streaming")
        \/ /\ ~IsOpen(conn.ws)
           /\ Become(Attempt(State, t)) /\ task' = [task EXCEPT ![t].at = "awaiting"]
           /\ UNCHANGED <<since, cmds>>

\* The attempt sendAudio made has ended.
Resume(t) ==
  /\ task[t].at = "awaiting" /\ \A a \in Attempts : att[a].by = t => att[a].at \notin {"waiting", "opening"}
  /\ \/ conn.in /\ conn.status \in Active /\ ToSocket(t)
     \/ /\ ~(conn.in /\ conn.status \in Active)
        /\ IF Last(t) THEN Throw(t) ELSE IF conn.in THEN Keep(t)
             ELSE Return(t) /\ UNCHANGED <<conn, sess, att>>
  /\ UNCHANGED <<created, sock, greeting, inbox, spoken, beats, heard, torn>>

\* What is sent on a socket that is no longer open is dropped without an error.
Packed(t) ==
  /\ task[t].at = "packing"
  /\ heard' = IF IsOpen(task[t].ws) THEN Append(heard, <<task[t].ws, Value(t)>>) ELSE heard
  /\ conn' = [conn EXCEPT !.status = "streaming"]
  /\ Return(t)
  /\ UNCHANGED <<created, sess, sock, att, greeting, inbox, spoken, beats, torn>>

\* A flush that does not empty the buffer.
FlushAndKeep(i) ==
  LET t == <<"flush", i>> IN
  /\ task[t].at = "next"
  /\ \/ task[t].pos <= Len(Array(t)) /\ SendAudio(t)
     \/ /\ task[t].pos > Len(Array(t)) /\ task' = [task EXCEPT ![t] = NoTask]
        /\ Become(Resolved([State EXCEPT !.sess = Connected(@)], i))
        /\ UNCHANGED <<since, cmds>>
  /\ UNCHANGED <<created, sock, greeting, inbox, spoken, beats, heard, torn>>

\* The next buffered packet, or, after the last, a new buffer.
Flush(i) ==
  LET t == <<"flush", i>> IN
  /\ task[t].at = "next"
  /\ \/ task[t].pos <= Len(Array(t)) /\ SendAudio(t)
     \/ /\ task[t].pos > Len(Array(t))
        /\ task' = [u \in Tasks |-> IF u = t THEN NoTask
                      ELSE IF ~IsPacket(u) /\ task[u].at # "idle" THEN [task[u] EXCEPT !.own = Array(u)]
                      ELSE task[u]]
        /\ Become(Resolved([State EXCEPT !.conn.pending = <<>>, !.sess = Connected(@)], i))
        /\ UNCHANGED <<since, cmds>>
  /\ UNCHANGED <<created, sock, greeting, inbox, spoken, beats, heard, torn>>

(* Sockets                                                                 *)

Connect ==
  /\ created = "no" /\ created' = "pending" /\ sock' = [sock EXCEPT ![0] = "connecting"]
  /\ conn' = [NoConn EXCEPT !.in = TRUE, !.status = "connecting"]
  /\ UNCHANGED <<sess, cmds, since, att, task, greeting, inbox, spoken, beats, heard, torn>>

Open(i) ==
  /\ sock[i] = "connecting" /\ sock' = [sock EXCEPT ![i] = "open"] /\ greeting' = greeting \cup {i}
  /\ UNCHANGED <<created, sess, cmds, since, conn, att, task, inbox, spoken, beats, heard, torn>>

Replaced(s, i) == [s EXCEPT !.conn.ws = i, !.conn.status = "connected", !.conn.reconnecting = FALSE]

\* The rest of the open handler: of connect, after which createSession goes on,
\* and of reconnect.
Greet(i) ==
  /\ i \in greeting /\ greeting' = greeting \ {i}
  /\ beats' = IF conn.in THEN [beats EXCEPT !.on = TRUE, !.awaited = FALSE] ELSE beats
  /\ IF i = 0
       THEN /\ conn' = [conn EXCEPT !.status = "connected", !.retry = 0]
            /\ created' = IF created = "pending" THEN "done" ELSE created
            /\ sess' = IF created = "pending" THEN [in |-> TRUE, status |-> "connected", text |-> 0]
                                              ELSE Connected(sess)
            /\ UNCHANGED <<att, task>>
       ELSE LET s == Replaced(State, i)
            IN  /\ IF conn.pending = <<>>
                     THEN Become(Resolved([s EXCEPT !.sess = Connected(@)], i)) /\ UNCHANGED task
                     ELSE Become(s) /\ task' = [task EXCEPT ![<<"flush", i>>] = [NoTask EXCEPT !.at = "next", !.pos = 1]]
                /\ UNCHANGED created
  /\ UNCHANGED <<cmds, since, sock, inbox, spoken, heard, torn>>

\* A socket does not open, or not in time; its close event follows.
Refuse(i) ==
  /\ Can("unreachable") /\ sock[i] = "connecting" /\ sock' = [sock EXCEPT ![i] = "failed"]
  /\ IF i = 0
       THEN Become([State EXCEPT !.conn.status = "error", !.sess = Errored(@)]) /\ created' = "failed"
       ELSE Become(Rejected(State, i)) /\ UNCHANGED created
  /\ UNCHANGED <<cmds, since, task, greeting, inbox, spoken, beats, heard, torn>>

Tear(i) ==
  torn' = torn \cup {Value(t) : t \in {u \in Tasks : task[u].at = "packing" /\ task[u].ws = i}}
               \cup (IF i \in greeting \/ (\E r \in inbox : r.on = i) THEN {0} ELSE {})

\* The close event, with code 1000 or another.
OnClose(i, normal) ==
  LET lives == conn.status \notin {"completed", "disconnected"} /\ ~normal
      ends  == [State EXCEPT !.conn.status = "disconnected", !.sess = Disconnected(@)]
  IN  /\ sock' = [sock EXCEPT ![i] = "closed"] /\ beats' = StopBeats /\ Tear(i)
      /\ Become(IF lives /\ ~(i = 0 /\ conn.reconnecting) THEN Attempt(State, None)
                ELSE IF i = 0 /\ conn.status # "completed" THEN ends ELSE State)
      /\ UNCHANGED <<created, cmds, since, task, greeting, inbox, spoken, heard>>

\* A socket breaks, is closed by the provider, or has been closed here.
Close(i) ==
  \/ sock[i] = "open" /\ i \in world.breaks /\ OnClose(i, FALSE)
  \/ sock[i] = "open" /\ Can("normal") /\ OnClose(i, TRUE)
  \/ sock[i] \in {"failed", "dropping"} /\ OnClose(i, FALSE)
  \/ sock[i] = "closing" /\ \E normal \in BOOLEAN : OnClose(i, normal)

\* A delay of a second or more: what is being packed or unpacked is done by then.
Settled == greeting = {} /\ inbox = {} /\ \A t \in Tasks : task[t].at \notin {"packing", "next"}

AfterDelay(a) ==
  /\ att[a].at = "waiting" /\ Settled
  /\ \/ /\ conn.status \in {"completed", "disconnected"} \/ ~conn.in
        /\ att' = [att EXCEPT ![a].at = "cancelled"] /\ UNCHANGED sock
     \/ /\ conn.status \notin {"completed", "disconnected"} /\ conn.in
        /\ att' = [att EXCEPT ![a].at = "opening"] /\ sock' = [sock EXCEPT ![a] = "connecting"]
  /\ UNCHANGED <<created, sess, cmds, since, conn, task, greeting, inbox, spoken, beats, heard, torn>>

\* disconnect
Disconnect ==
  IF ~conn.in THEN UNCHANGED <<conn, sock, beats, torn>>
  ELSE /\ conn' = [conn EXCEPT !.in = FALSE, !.status = "disconnected", !.reconnecting = FALSE]
       /\ sock' = [sock EXCEPT ![conn.ws] = IF @ = "open" THEN "closing" ELSE @]
       /\ beats' = StopBeats /\ Tear(conn.ws)

(* Heartbeats                                                              *)

Beat ==
  /\ Can("silent") /\ beats.on /\ ~beats.packing /\ ~beats.awaited
  /\ conn.in /\ conn.status \in Active /\ IsOpen(conn.ws)
  /\ beats' = [beats EXCEPT !.packing = TRUE]
  /\ UNCHANGED <<created, sess, cmds, since, conn, sock, att, task, greeting, inbox, spoken, heard, torn>>

Beaten ==
  /\ beats.packing /\ beats' = [beats EXCEPT !.packing = FALSE, !.awaited = TRUE]
  /\ UNCHANGED <<created, sess, cmds, since, conn, sock, att, task, greeting, inbox, spoken, heard, torn>>

\* A timeout that reconnects itself, though the close event does.
ReconnectNow ==
  /\ beats.awaited /\ conn.in /\ beats' = [beats EXCEPT !.awaited = FALSE]
  /\ sock' = [sock EXCEPT ![conn.ws] = IF @ = "open" THEN "dropping" ELSE @] /\ Tear(conn.ws)
  /\ Become(Attempt([State EXCEPT !.conn.status = "error"], None))
  /\ UNCHANGED <<created, cmds, since, task, greeting, inbox, spoken, heard>>

BeatTimeout ==
  /\ beats.awaited /\ conn.in /\ beats' = [beats EXCEPT !.awaited = FALSE]
  /\ conn' = [conn EXCEPT !.status = "error"]
  /\ sock' = [sock EXCEPT ![conn.ws] = IF @ = "open" THEN "dropping" ELSE @] /\ Tear(conn.ws)
  /\ UNCHANGED <<created, sess, cmds, since, att, task, greeting, inbox, spoken, heard>>

(* Results                                                                 *)

\* A result, the last one, an error response, or a message that cannot be read.
Kinds == {"text"} \cup world.kinds

Receive(i, kind) ==
  /\ sock[i] \in {"open", "closing", "dropping"} /\ i \notin greeting /\ spoken < world.texts
  /\ spoken' = spoken + 1
  /\ inbox' = inbox \cup {[on |-> i, n |-> spoken + 1, text |-> IF kind \in {"text", "final"} THEN spoken + 1 ELSE 0,
                           final |-> kind \in {"final", "refusal"}, bad |-> kind = "bad"]}
  /\ beats' = IF conn.in THEN [beats EXCEPT !.awaited = FALSE] ELSE beats
  /\ UNCHANGED <<created, sess, cmds, since, told, conn, sock, att, task, greeting, heard, torn>>

\* Messages are unpacked in the order they came in, unless the world reorders them.
Parse(r) ==
  /\ r \in inbox /\ inbox' = inbox \ {r} /\ (Can("reorder") \/ \A q \in inbox : r.n <= q.n)
  /\ IF r.bad THEN sess' = Errored(sess) /\ UNCHANGED <<cmds, since, told, conn, beats>>
     ELSE /\ conn' = [conn EXCEPT !.text = IF r.text > 0 THEN r.text ELSE @,
                                  !.status = IF r.final THEN "completed" ELSE "streaming"]
          /\ beats' = IF r.final THEN StopBeats ELSE beats
          /\ HandleResult(r)
  /\ UNCHANGED <<created, sock, att, task, greeting, spoken, heard, torn>>

ConnInit ==
  /\ created = "no" /\ conn = NoConn /\ sock = [i \in Sockets |-> "none"]
  /\ att = [a \in Attempts |-> [at |-> "none", by |-> None]] /\ task = [t \in Tasks |-> NoTask]
  /\ greeting = {} /\ inbox = {} /\ spoken = 0 /\ beats = Silence /\ heard = <<>> /\ torn = {}

ConnStep ==
  \/ Connect \/ Beat \/ Beaten \/ BeatTimeout
  \/ \E i \in Sockets : Open(i) \/ Greet(i) \/ Refuse(i) \/ Close(i)
  \/ \E a \in Attempts : AfterDelay(a)
  \/ \E t \in Tasks : Resume(t) \/ Packed(t)
=============================================================================
