------------------------- MODULE StreamingAsr_proofs -------------------------
(***************************************************************************)
(* For any number of results, packets, sockets and attempts:               *)
(*   - every variable keeps its type;                                      *)
(*   - text that a client has been shown is in the record of its session,  *)
(*     as long as Redis answers and messages are unpacked in order;        *)
(*   - a connection opens a bounded number of sockets in all its life, and *)
(*     one at a time as long as the provider accepts connections;          *)
(*   - the end of a connection is shown to the client of a session in use; *)
(*   - audio is sent once, and what was accepted is sent or was on its way *)
(*     when its socket broke.                                              *)
(***************************************************************************)
EXTENDS StreamingAsr, FiniteSetTheorems, SequenceTheorems, TLAPS

SessionType == [in : BOOLEAN, status : Statuses, text : 0 .. MaxText]
RecordType == [text : 0 .. MaxText, status : Statuses]
CommandType == [op : {"save", "get", "delete"}, then : {"none", "tell", "complete", "cleanup"},
                text : 0 .. MaxText, of : SessionType]
ConnType == [in : BOOLEAN, status : Statuses \cup {"connecting"}, ws : Sockets, reconnecting : BOOLEAN,
             retry : 0 .. MaxRetries, pending : Seq(Packets), text : 0 .. MaxText]
AttemptType == [at : {"none", "waiting", "opening", "ended", "cancelled"}, by : Tasks \cup {None}]
TaskType == [at : {"idle", "awaiting", "packing", "next", "done", "failed"}, ws : Sockets,
             pos : Nat, own : Seq(Packets)]
MessageType == [on : Sockets, n : 1 .. MaxText, text : 0 .. MaxText, final : BOOLEAN, bad : BOOLEAN]
SocketStates == {"none", "connecting", "open", "failed", "dropping", "closing", "closed"}

SessionTyped ==
  /\ sess \in SessionType /\ store \in RecordType \cup {None} /\ cmds \in Seq(CommandType)
  /\ told \in 0 .. MaxText /\ since \in {"now", "rest", "idle"} /\ over \in BOOLEAN /\ timer \in BOOLEAN
  /\ finished \in {"no", "user", "sweep", "stop"}

\* What has been packed or waits is one of the packets of the array.
InArray(t) ==
  /\ IsPacket(t) => task[t].at # "next"
  /\ ~IsPacket(t) /\ task[t].at # "idle" => task[t].pos \in Nat \ {0}
  /\ ~IsPacket(t) /\ task[t].at \in {"packing", "awaiting"} => task[t].pos <= Len(Array(t))
  /\ ~IsPacket(t) => task[t].at \notin {"done", "failed"}

ConnTyped ==
  /\ created \in {"no", "pending", "done", "failed"}
  /\ conn \in ConnType /\ Len(conn.pending) <= BufferSize
  /\ sock \in [Sockets -> SocketStates] /\ att \in [Attempts -> AttemptType] /\ task \in [Tasks -> TaskType]
  /\ greeting \subseteq Sockets /\ inbox \subseteq MessageType /\ spoken \in 0 .. MaxText
  /\ beats \in [on : BOOLEAN, packing : BOOLEAN, awaited : BOOLEAN]
  /\ torn \subseteq Packets \cup {0}
  /\ \A t \in Tasks : InArray(t)

Typed == world \in Worlds /\ SessionTyped /\ ConnTyped

\* Nothing happens to a connection before connect.
Blank ==
  created = "no" => /\ ~conn.in /\ greeting = {} /\ \A i \in Sockets : sock[i] = "none"
                    /\ \A a \in Attempts : att[a].at = "none"
                    /\ \A t \in Tasks : task[t].at = "idle"

-----------------------------------------------------------------------------
(* The invariant of what a client has seen                                 *)

Steady == ~Can("faults") /\ ~Can("reorder")

\* A session is in memory from createSession on.
Unborn == created # "done" => ~sess.in /\ store = None /\ told = 0

\* Nothing is under way for a session that memory does not have but to read it:
\* it is one the process had before it crashed.
Absent ==
  ~sess.in => /\ \A k \in DOMAIN cmds : cmds[k].op = "get"
              /\ \A p \in Packets : task[<<"packet", p>>].at \in {"idle", "done", "failed"}
              /\ created = "done" => ~conn.in

\* Nothing is under way for a connection that memory does not have.
Still ==
  ~conn.in => /\ greeting = {} /\ inbox = {} /\ \A i \in Sockets : sock[i] \in {"none", "closed"}
              /\ \A a \in Attempts : att[a].at \notin {"waiting", "opening"}

FirstSocket == sock[0] = "connecting" => created = "pending" /\ 0 \notin greeting

\* Texts get longer: what was told, what waits to be saved, what is in memory,
\* what the connection has, what is still to be unpacked.
SavesGrow ==
  /\ \A k \in DOMAIN cmds : cmds[k].op = "save" =>
       /\ told <= cmds[k].of.text /\ cmds[k].of.text <= sess.text
       /\ cmds[k].then = "tell" => cmds[k].text \in {0, cmds[k].of.text}
  /\ \A j, k \in DOMAIN cmds : j < k /\ cmds[j].op = "save" /\ cmds[k].op = "save" =>
       cmds[j].of.text <= cmds[k].of.text

TextsGrow ==
  /\ sess.in => told <= sess.text /\ (conn.in => sess.text <= conn.text)
  /\ conn.text <= spoken
  /\ \A r \in inbox : conn.text < r.n /\ r.n <= spoken /\ r.text \in {0, r.n}
  /\ \A q, r \in inbox : q.n = r.n => q = r

\* A record is read before there is one, or for want of a session.
Reading ==
  \A k \in DOMAIN cmds :
    /\ cmds[k].op # "delete"
    /\ cmds[k].op = "get" => /\ k = 1
                             /\ (store = None /\ told = 0) \/ (Len(cmds) = 1 /\ ~sess.in /\ ~conn.in)

\* Only the time a record lives takes it away.
Recorded ==
  IF store = None THEN told = 0 \/ over \/ (since = "idle" /\ ~sess.in) ELSE store.text >= told

Seen ==
  /\ ~timer /\ Unborn /\ Absent /\ Still /\ FirstSocket
  /\ SavesGrow /\ TextsGrow /\ Reading /\ Recorded

SeenInv == Steady /\ finished = "no" => Seen
-----------------------------------------------------------------------------
(* The pieces of a step                                                    *)

StateType == [conn : ConnType, sess : SessionType, att : [Attempts -> AttemptType]]

LEMMA Numbers ==
  /\ {MaxPackets, MaxRetries, BufferSize, MaxText} \subseteq Nat \ {0}
  /\ 0 \in Sockets /\ Sockets \subseteq Nat /\ Packets \subseteq Nat /\ 0 \notin Packets /\ Attempts \subseteq Sockets
BY SessionAssumption, ConnectionAssumption DEF Sockets, Packets, Attempts

LEMMA TaskKinds ==
  ASSUME NEW t \in Tasks
  PROVE  \/ IsPacket(t) /\ t[2] \in Packets /\ t = <<"packet", t[2]>>
         \/ ~IsPacket(t) /\ t[2] \in Attempts /\ t = <<"flush", t[2]>>
BY DEF Tasks, IsPacket

\* What the callbacks make of an entry.
LEMMA Callbacks ==
  ASSUME NEW s \in SessionType
  PROVE  /\ {Connected(s), Errored(s), Disconnected(s)} \subseteq SessionType
         /\ \A q \in {Connected(s), Errored(s), Disconnected(s)} : q.in = s.in /\ q.text = s.text
BY DEF Connected, Errored, Disconnected, SessionType, Statuses, Active

LEMMA StateTyped ==
  ASSUME ConnTyped, SessionTyped
  PROVE  State \in StateType
BY DEF ConnTyped, SessionTyped, State, StateType

\* What an attempt leaves as it is.
Tried(s, r) ==
  /\ r \in StateType /\ r.sess.in = s.sess.in /\ r.sess.text = s.sess.text
  /\ r.conn.in = s.conn.in /\ r.conn.text = s.conn.text /\ r.conn.pending = s.conn.pending
  /\ \A a \in Attempts : r.att[a] = s.att[a] \/ (s.conn.in /\ r.att[a].at = "waiting")
                                              \/ (s.att[a].at = "opening" /\ r.att[a].at = "ended")

LEMMA AttemptTyped ==
  ASSUME NEW s \in StateType, NEW by \in Tasks \cup {None}
  PROVE  Tried(s, Attempt(s, by))
<1>1. CASE ~s.conn.in
  BY <1>1 DEF Attempt, Tried
<1>2. CASE s.conn.in /\ s.conn.retry >= MaxRetries
  <2> DEFINE c == [s.conn EXCEPT !.status = "disconnected"]
             q == Disconnected(Errored(s.sess))
  <2>1. Attempt(s, by) = [conn |-> c, sess |-> q, att |-> s.att]
    BY <1>2 DEF Attempt, StateType
  <2>2. c \in ConnType /\ c.in = s.conn.in /\ c.text = s.conn.text /\ c.pending = s.conn.pending
    BY DEF StateType, ConnType, Statuses
  <2>3. q \in SessionType /\ q.in = s.sess.in /\ q.text = s.sess.text
    BY Callbacks DEF StateType
  <2> HIDE DEF c, q
  <2> QED
    BY <2>1, <2>2, <2>3 DEF Tried, StateType
<1>3. CASE s.conn.in /\ ~(s.conn.retry >= MaxRetries)
  <2> DEFINE c == [s.conn EXCEPT !.reconnecting = TRUE, !.retry = @ + 1]
             b == [s.att EXCEPT ![Fresh(s)] = [at |-> "waiting", by |-> by]]
  <2>1. Attempt(s, by) = [conn |-> c, sess |-> s.sess, att |-> b]
    BY <1>3 DEF Attempt, StateType, ConnType
  <2>2. c \in ConnType /\ c.in = s.conn.in /\ c.text = s.conn.text /\ c.pending = s.conn.pending
    <3>1. s.conn.retry + 1 \in 0 .. MaxRetries
      BY <1>3, Numbers DEF StateType, ConnType
    <3> QED
      BY <3>1 DEF StateType, ConnType
  <2>3. b \in [Attempts -> AttemptType] /\ \A a \in Attempts : b[a] = s.att[a] \/ b[a].at = "waiting"
    BY DEF StateType, AttemptType
  <2> HIDE DEF c, b
  <2> DEFINE r == Attempt(s, by)
  <2>4. r \in StateType /\ r.conn = c /\ r.sess = s.sess /\ r.att = b
    BY <2>1, <2>2, <2>3 DEF StateType
  <2> HIDE DEF r
  <2>5. Tried(s, r)
    BY <1>3, <2>2, <2>3, <2>4 DEF Tried
  <2> QED
    BY <2>5 DEF r
<1> QED
  BY <1>1, <1>2, <1>3

LEMMA ResolvedTyped ==
  ASSUME NEW s \in StateType, NEW i \in Attempts
  PROVE  Tried(s, Resolved(s, i)) /\ Resolved(s, i).conn = s.conn /\ Resolved(s, i).sess = s.sess
<1>1. CASE s.att[i].at = "opening"
  <2> DEFINE b == [s.att EXCEPT ![i].at = "ended"]
  <2>1. Resolved(s, i) = [conn |-> s.conn, sess |-> s.sess, att |-> b]
    BY <1>1 DEF Resolved, StateType
  <2>2. b \in [Attempts -> AttemptType] /\ \A a \in Attempts : b[a] = s.att[a] \/ (a = i /\ b[a].at = "ended")
    BY DEF StateType, AttemptType
  <2> HIDE DEF b
  <2> QED
    BY <1>1, <2>1, <2>2 DEF Tried, StateType
<1> QED
  BY <1>1 DEF Resolved, Tried

LEMMA RejectedTyped ==
  ASSUME NEW s \in StateType, NEW i \in Attempts
  PROVE  Tried(s, Rejected(s, i))
<1>1. CASE s.att[i].at = "opening"
  <2>1. s.att[i].by \in Tasks \cup {None}
    BY DEF StateType, AttemptType
  <2>2. Tried(s, Resolved(s, i))
    BY ResolvedTyped
  <2>3. Resolved(s, i) \in StateType
    BY <2>2 DEF Tried
  <2>4. Tried(Resolved(s, i), Attempt(Resolved(s, i), s.att[i].by))
    BY <2>1, <2>3, AttemptTyped
  <2> QED
    BY <1>1, <2>2, <2>4 DEF Rejected, Tried
<1> QED
  BY <1>1 DEF Rejected, Tried
-----------------------------------------------------------------------------
(* sendAudio                                                               *)

\* A command is queued behind the others.
LEMMA Queued ==
  ASSUME SessionTyped, NEW s \in SessionType, NEW then \in {"none", "tell"}, NEW text \in 0 .. MaxText
  PROVE  /\ Save(s, then, text) = Append(cmds, [op |-> "save", then |-> then, text |-> text, of |-> s])
         /\ Save(s, then, text) \in Seq(CommandType)
<1> DEFINE k == [op |-> "save", then |-> then, text |-> text, of |-> s]
<1>1. Save(s, then, text) = Append(cmds, k)
  BY DEF Save, Command
<1>2. k \in CommandType
  BY DEF CommandType
<1> HIDE DEF k
<1>3. Append(cmds, k) \in Seq(CommandType)
  BY <1>2 DEF SessionTyped
<1> QED
  BY <1>1, <1>3 DEF k

Ready(t) == IsPacket(t) \/ task[t].pos \in 1 .. Len(Array(t))

\* The buffer only grows under a run that goes through it.
Longer == Len(conn'.pending) >= Len(conn.pending)

LEMMA ArrayKept ==
  ASSUME ConnTyped, conn' \in ConnType, Longer, NEW u \in Tasks, task'[u] = task[u]
  PROVE  InArray(u)'
<1>1. InArray(u) /\ task[u] \in TaskType
  BY DEF ConnTyped
<1>2. Len(Array(u)) \in Nat /\ Len(Array(u))' \in Nat /\ Len(Array(u))' >= Len(Array(u))
  BY <1>1 DEF Array, ConnTyped, ConnType, TaskType, Longer
<1> QED
  BY <1>1, <1>2 DEF InArray, TaskType

LEMMA ValueTyped ==
  ASSUME ConnTyped, NEW t \in Tasks, Ready(t)
  PROVE  Value(t) \in Packets
<1>1. CASE IsPacket(t)
  BY <1>1, TaskKinds DEF Value
<1>2. CASE ~IsPacket(t)
  <2>1. Array(t) \in Seq(Packets)
    BY DEF ConnTyped, TaskType, ConnType, Array
  <2> QED
    BY <1>2, <2>1 DEF Ready, Value
<1> QED
  BY <1>1, <1>2

\* Only a connection in memory makes attempts.
NoneAfterConn ==
  \A a \in Attempts : att'[a].at \in {"waiting", "opening"} => att[a].at \in {"waiting", "opening"} \/ conn.in

\* What a run of sendAudio leaves as it is, and the types of the rest.
Ran(t) ==
  /\ conn' \in ConnType /\ Len(conn'.pending) <= BufferSize /\ Longer
  /\ conn'.in = conn.in /\ conn'.text = conn.text
  /\ sess' \in SessionType /\ sess'.in = sess.in /\ sess'.text = sess.text
  /\ att' \in [Attempts -> AttemptType]
  /\ NoneAfterConn
  /\ task' \in [Tasks -> TaskType] /\ InArray(t)' /\ \A u \in Tasks \ {t} : task'[u] = task[u]
  /\ \/ cmds' = cmds /\ since' = since
     \/ IsPacket(t) /\ cmds' = Save(sess, "none", 0) /\ since' = "now"

LEMMA BecomesTried ==
  ASSUME ConnTyped, SessionTyped, NEW r, Tried(State, r), Become(r)
  PROVE  /\ conn' \in ConnType /\ conn'.pending = conn.pending /\ conn'.in = conn.in /\ conn'.text = conn.text
         /\ sess' \in SessionType /\ sess'.in = sess.in /\ sess'.text = sess.text
         /\ att' \in [Attempts -> AttemptType] /\ NoneAfterConn
BY DEF Tried, State, Become, StateType, NoneAfterConn

LEMMA ReturnTyped ==
  ASSUME ConnTyped, SessionTyped, NEW t \in Tasks, Return(t), task[t].pos \in Nat \ {0} \/ IsPacket(t)
  PROVE  /\ task' \in [Tasks -> TaskType] /\ InArray(t)' /\ \A u \in Tasks \ {t} : task'[u] = task[u]
         /\ \/ cmds' = cmds /\ since' = since
            \/ IsPacket(t) /\ cmds' = Save(sess, "none", 0) /\ since' = "now"
<1>1. CASE IsPacket(t)
  <2>1. task' = [task EXCEPT ![t].at = "done"] /\ cmds' = Save(sess, "none", 0) /\ since' = "now"
    BY <1>1 DEF Return
  <2>2. task' \in [Tasks -> TaskType] /\ task'[t].at = "done" /\ \A u \in Tasks \ {t} : task'[u] = task[u]
    BY <2>1 DEF ConnTyped, TaskType
  <2>3. InArray(t)'
    BY <1>1, <2>2 DEF InArray
  <2> QED
    BY <1>1, <2>1, <2>2, <2>3
<1>2. CASE ~IsPacket(t)
  <2>1. task' = [task EXCEPT ![t].at = "next", ![t].pos = @ + 1] /\ cmds' = cmds /\ since' = since
    BY <1>2 DEF Return
  <2>2. task[t] \in TaskType /\ task[t].pos \in Nat \ {0}
    BY <1>2 DEF ConnTyped
  <2>3. /\ task' \in [Tasks -> TaskType] /\ task'[t].at = "next" /\ task'[t].pos \in Nat \ {0}
        /\ \A u \in Tasks \ {t} : task'[u] = task[u]
    <3> DEFINE q == [task[t] EXCEPT !.at = "next", !.pos = @ + 1]
    <3>0. task[t].pos + 1 \in Nat
      BY <2>2
    <3>1. q \in TaskType /\ q.at = "next" /\ q.pos = task[t].pos + 1
      BY <2>2, <3>0 DEF TaskType
    <3>2. task' = [task EXCEPT ![t] = q]
      BY <2>1 DEF ConnTyped
    <3> HIDE DEF q
    <3> QED
      BY <2>2, <3>1, <3>2 DEF ConnTyped
  <2>4. InArray(t)'
    BY <1>2, <2>3 DEF InArray
  <2> QED
    BY <2>1, <2>3, <2>4
<1> QED
  BY <1>1, <1>2

LEMMA NoTaskTyped == NoTask \in TaskType /\ NoTask.at = "idle" /\ NoTask.own = <<>>
BY Numbers DEF NoTask, TaskType

LEMMA ThrowRuns ==
  ASSUME ConnTyped, SessionTyped, NEW t \in Tasks, Throw(t)
  PROVE  Ran(t)
<1>1. PICK r : Tried(State, r) /\ Become(r)
  <2>1. Tried(State, State)
    BY StateTyped DEF Tried
  <2>2. ~IsPacket(t) => Tried(State, Rejected(State, t[2]))
    BY StateTyped, RejectedTyped, TaskKinds
  <2> QED
    BY <2>1, <2>2 DEF Throw
<1>2. task' \in [Tasks -> TaskType] /\ \A u \in Tasks \ {t} : task'[u] = task[u]
  BY NoTaskTyped DEF Throw, ConnTyped, TaskType
<1>3. InArray(t)'
  <2>1. CASE IsPacket(t)
    BY <2>1 DEF Throw, ConnTyped, TaskType, InArray
  <2>2. CASE ~IsPacket(t)
    BY <2>2, NoTaskTyped DEF Throw, ConnTyped, InArray
  <2> QED
    BY <2>1, <2>2
<1>4. Longer /\ Len(conn'.pending) <= BufferSize
  BY <1>1, BecomesTried DEF Longer, ConnTyped, ConnType
<1>5. cmds' = cmds /\ since' = since
  BY DEF Throw
<1> QED
  BY <1>1, <1>2, <1>3, <1>4, <1>5, BecomesTried DEF Ran

LEMMA KeepRuns ==
  ASSUME ConnTyped, SessionTyped, NEW t \in Tasks, Keep(t), Ready(t)
  PROVE  Ran(t)
<1>1. Value(t) \in Packets
  BY ValueTyped
<1>2. /\ conn' \in ConnType /\ conn'.in = conn.in /\ conn'.text = conn.text /\ Longer
      /\ Len(conn'.pending) <= BufferSize
  <2> DEFINE x == Value(t)
  <2>0. x \in Packets /\ conn' = Buffered(conn, x)
    BY <1>1 DEF Keep
  <2> HIDE DEF x
  <2>1. CASE Len(conn.pending) < BufferSize
    <3>1. conn' = [conn EXCEPT !.pending = Append(@, x)]
      BY <2>0, <2>1 DEF Buffered
    <3>2. conn \in ConnType /\ conn.pending \in Seq(Packets)
      BY DEF ConnTyped, ConnType
    <3>3. Append(conn.pending, x) \in Seq(Packets) /\ Len(Append(conn.pending, x)) = Len(conn.pending) + 1
      BY <2>0, <3>2
    <3>4. /\ conn' \in ConnType /\ conn'.in = conn.in /\ conn'.text = conn.text
          /\ conn'.pending = Append(conn.pending, x)
      BY <3>1, <3>2, <3>3 DEF ConnType
    <3>5. Len(conn.pending) \in Nat
      BY <3>2
    <3> QED
      BY <2>1, <3>3, <3>4, <3>5, Numbers DEF Longer
  <2>2. CASE ~(Len(conn.pending) < BufferSize)
    BY <2>0, <2>2 DEF Buffered, ConnTyped, ConnType, Longer
  <2> QED
    BY <2>1, <2>2
<1>3. Return(t) /\ sess' = sess /\ att' = att
  BY DEF Keep
<1>4. task[t].pos \in Nat \ {0} \/ IsPacket(t)
  BY DEF Ready
<1>5. NoneAfterConn
  BY <1>3 DEF NoneAfterConn
<1>6. /\ sess' \in SessionType /\ sess'.in = sess.in /\ sess'.text = sess.text
      /\ att' \in [Attempts -> AttemptType]
  BY <1>3 DEF SessionTyped, ConnTyped
<1>7. /\ task' \in [Tasks -> TaskType] /\ InArray(t)' /\ \A u \in Tasks \ {t} : task'[u] = task[u]
      /\ \/ cmds' = cmds /\ since' = since
         \/ IsPacket(t) /\ cmds' = Save(sess, "none", 0) /\ since' = "now"
  BY <1>3, <1>4, ReturnTyped
<1> QED
  BY <1>2, <1>5, <1>6, <1>7 DEF Ran

LEMMA PackRuns ==
  ASSUME ConnTyped, SessionTyped, NEW t \in Tasks, NEW status \in Statuses \cup {"connecting"}, Pack(t, status), Ready(t)
  PROVE  Ran(t)
<1>1. /\ conn' \in ConnType /\ conn'.in = conn.in /\ conn'.text = conn.text /\ conn'.pending = conn.pending
      /\ conn.ws \in Sockets
  BY DEF Pack, ConnTyped, ConnType
<1>2. /\ task' = [task EXCEPT ![t].at = "packing", ![t].ws = conn.ws]
      /\ sess' = sess /\ att' = att /\ since' = since /\ cmds' = cmds
  BY DEF Pack
<1>3. /\ task' \in [Tasks -> TaskType] /\ \A u \in Tasks \ {t} : task'[u] = task[u]
      /\ task'[t].at = "packing" /\ task'[t].pos = task[t].pos /\ task'[t].own = task[t].own
  <2> DEFINE new == [task[t] EXCEPT !.at = "packing", !.ws = conn.ws]
  <2>1. task[t] \in TaskType /\ task \in [Tasks -> TaskType]
    BY DEF ConnTyped
  <2>2. new \in TaskType /\ new.at = "packing" /\ new.pos = task[t].pos /\ new.own = task[t].own
    BY <1>1, <2>1 DEF TaskType
  <2>3. task' = [task EXCEPT ![t] = new]
    BY <1>2, <2>1
  <2> HIDE DEF new
  <2> QED
    BY <2>1, <2>2, <2>3
<1>4. InArray(t)'
  <2>1. Array(t)' = Array(t)
    BY <1>1, <1>3 DEF Array
  <2>2. IsPacket(t) \/ task[t].pos \in 1 .. Len(Array(t))
    BY DEF Ready
  <2>3. Array(t) \in Seq(Packets)
    BY DEF ConnTyped, TaskType, ConnType, Array
  <2> QED
    BY <1>3, <2>1, <2>2, <2>3 DEF InArray
<1> QED
  BY <1>1, <1>2, <1>3, <1>4 DEF Ran, NoneAfterConn, SessionTyped, ConnTyped, Longer, ConnType

LEMMA ToSocketRuns ==
  ASSUME ConnTyped, SessionTyped, NEW t \in Tasks, ToSocket(t), Ready(t)
  PROVE  Ran(t)
<1>1. conn.status \in Statuses \cup {"connecting"}
  BY DEF ConnTyped, ConnType
<1> QED
  BY <1>1, ThrowRuns, KeepRuns, PackRuns DEF ToSocket

LEMMA SendAudioRuns ==
  ASSUME ConnTyped, SessionTyped, NEW t \in Tasks, SendAudio(t), Ready(t)
  PROVE  Ran(t)
<1>1. CASE Throw(t)
  BY <1>1, ThrowRuns
<1>2. CASE Keep(t)
  BY <1>2, KeepRuns
<1>3. CASE ToSocket(t)
  BY <1>3, ToSocketRuns
<1>4. CASE Pack(t, "streaming")
  BY <1>4, PackRuns DEF Statuses, Active
<1>5. CASE /\ Become(Attempt(State, t)) /\ task' = [task EXCEPT ![t].at = "awaiting"]
           /\ UNCHANGED <<since, cmds>>
  <2>1. Tried(State, Attempt(State, t))
    BY StateTyped, AttemptTyped
  <2>2. /\ task' \in [Tasks -> TaskType] /\ \A u \in Tasks \ {t} : task'[u] = task[u]
        /\ task'[t].at = "awaiting" /\ task'[t].pos = task[t].pos /\ task'[t].own = task[t].own
    BY <1>5 DEF ConnTyped, TaskType
  <2>3. conn'.pending = conn.pending
    BY <1>5, <2>1, BecomesTried
  <2>4. InArray(t)'
    <3>1. Array(t)' = Array(t)
      BY <2>2, <2>3 DEF Array
    <3>2. IsPacket(t) \/ task[t].pos \in 1 .. Len(Array(t))
      BY DEF Ready
    <3>3. Array(t) \in Seq(Packets)
      BY DEF ConnTyped, TaskType, ConnType, Array
    <3> QED
      BY <2>2, <3>1, <3>2, <3>3 DEF InArray
  <2>5. Longer /\ Len(conn'.pending) <= BufferSize
    BY <2>3 DEF Longer, ConnTyped, ConnType
  <2> QED
    BY <1>5, <2>1, <2>2, <2>4, <2>5, BecomesTried DEF Ran
<1> QED
  BY <1>1, <1>2, <1>3, <1>4, <1>5 DEF SendAudio
-----------------------------------------------------------------------------
(* Every step keeps the types                                              *)

Rest == <<world, store, told, over, timer, finished>>
Wires == <<created, sock, greeting, inbox, spoken, beats, torn>>

\* With the arrays as they are, runs stay where they are in them.
LEMMA RunsStay ==
  ASSUME ConnTyped, task' = task, conn' \in ConnType, conn'.pending = conn.pending
  PROVE  /\ \A t \in Tasks : InArray(t)'
         /\ Len(conn'.pending) <= BufferSize /\ task' \in [Tasks -> TaskType]
<1>1. Longer /\ Len(conn'.pending) <= BufferSize
  BY DEF Longer, ConnTyped, ConnType
<1>2. ASSUME NEW t \in Tasks PROVE InArray(t)'
  BY <1>1, ArrayKept
<1> QED
  BY <1>1, <1>2 DEF ConnTyped

LEMMA RanTyped ==
  ASSUME Typed, NEW t \in Tasks, Ran(t), UNCHANGED Rest, UNCHANGED Wires
  PROVE  Typed'
<1>1. ASSUME NEW u \in Tasks PROVE InArray(u)'
  <2>1. CASE u = t
    BY <2>1 DEF Ran
  <2>2. CASE u # t
    BY <2>2, ArrayKept DEF Ran, Typed
  <2> QED
    BY <2>1, <2>2
<1>2. cmds' \in Seq(CommandType) /\ since' \in {"now", "rest", "idle"}
  <2>1. Save(sess, "none", 0) \in Seq(CommandType)
    <3>1. SessionTyped /\ sess \in SessionType /\ "none" \in {"none", "tell"} /\ 0 \in 0 .. MaxText
      BY Numbers DEF Typed, SessionTyped
    <3> QED
      BY <3>1, Queued
  <2> QED
    BY <2>1 DEF Ran, Typed, SessionTyped
<1>3. SessionTyped'
  BY <1>2 DEF Ran, Rest, Typed, SessionTyped
<1>4. ConnTyped'
  BY <1>1 DEF Ran, Wires, Typed, ConnTyped
<1> QED
  BY <1>3, <1>4 DEF Typed, Rest

\* Steps that leave connection and runs alone.
LEMMA WiresTyped ==
  ASSUME ConnTyped, conn' = conn, task' = task, created' \in {"no", "pending", "done", "failed"},
         sock' \in [Sockets -> SocketStates], att' \in [Attempts -> AttemptType],
         greeting' \subseteq Sockets, inbox' \subseteq MessageType, spoken' \in 0 .. MaxText,
         beats' \in [on : BOOLEAN, packing : BOOLEAN, awaited : BOOLEAN], torn' \subseteq Packets \cup {0}
  PROVE  ConnTyped'
<1>1. conn' \in ConnType /\ conn'.pending = conn.pending
  BY DEF ConnTyped
<1> QED
  BY <1>1, RunsStay DEF ConnTyped

LEMMA ConnStays ==
  ASSUME ConnTyped, UNCHANGED connVars
  PROVE  ConnTyped'
BY WiresTyped DEF ConnTyped, connVars

LEMMA SessionStays ==
  ASSUME SessionTyped, UNCHANGED sessionVars
  PROVE  SessionTyped'
BY DEF SessionTyped, sessionVars

\* Packets on their way when a socket goes are packets.
LEMMA TearTyped ==
  ASSUME ConnTyped, NEW i \in Sockets, Tear(i)
  PROVE  torn' \subseteq Packets \cup {0}
<1>1. ASSUME NEW t \in Tasks, task[t].at = "packing" PROVE Value(t) \in Packets
  <2>1. Array(t) \in Seq(Packets) /\ task[t] \in TaskType
    BY DEF ConnTyped, TaskType, ConnType, Array
  <2>2. Ready(t)
    BY <1>1, <2>1 DEF Ready, ConnTyped, InArray, TaskType
  <2> QED
    BY <2>2, ValueTyped
<1> QED
  BY <1>1 DEF Tear, ConnTyped

LEMMA StopBeatsTyped ==
  ASSUME ConnTyped
  PROVE  StopBeats \in [on : BOOLEAN, packing : BOOLEAN, awaited : BOOLEAN]
BY DEF ConnTyped, StopBeats

\* disconnect
LEMMA DisconnectTyped ==
  ASSUME ConnTyped, Disconnect, UNCHANGED <<created, att, task, greeting, inbox, spoken>>
  PROVE  ConnTyped'
<1>1. CASE ~conn.in
  BY <1>1, WiresTyped DEF Disconnect, ConnTyped
<1>2. CASE conn.in
  <2>1. /\ conn' = [conn EXCEPT !.in = FALSE, !.status = "disconnected", !.reconnecting = FALSE]
        /\ sock' = [sock EXCEPT ![conn.ws] = IF @ = "open" THEN "closing" ELSE @]
        /\ beats' = StopBeats /\ Tear(conn.ws)
    BY <1>2 DEF Disconnect
  <2>2. conn' \in ConnType /\ conn'.pending = conn.pending /\ conn.ws \in Sockets
    BY <2>1 DEF ConnTyped, ConnType, Statuses
  <2>3. sock' \in [Sockets -> SocketStates]
    BY <2>1, <2>2 DEF ConnTyped, SocketStates
  <2> QED
    BY <2>1, <2>2, <2>3, RunsStay, TearTyped, StopBeatsTyped DEF ConnTyped
<1> QED
  BY <1>1, <1>2

LEMMA AttemptMade ==
  ASSUME ConnTyped, SessionTyped, NEW r, Tried(State, r), Become(r), task' = task,
         created' \in {"no", "pending", "done", "failed"}, sock' \in [Sockets -> SocketStates],
         greeting' \subseteq Sockets, inbox' \subseteq MessageType, spoken' \in 0 .. MaxText,
         beats' \in [on : BOOLEAN, packing : BOOLEAN, awaited : BOOLEAN], torn' \subseteq Packets \cup {0}
  PROVE  ConnTyped' /\ sess' \in SessionType
<1>1. conn' \in ConnType /\ conn'.pending = conn.pending
  BY BecomesTried
<1> QED
  BY <1>1, BecomesTried, RunsStay DEF ConnTyped

\* What a step that is about sockets leaves as it is.
Unheard ==
  /\ sess'.in = sess.in /\ sess'.text = sess.text /\ conn'.in = conn.in /\ conn'.text = conn.text
  /\ \A p \in Packets : task'[<<"packet", p>>] = task[<<"packet", p>>]
  /\ NoneAfterConn

LEMMA TwoFields ==
  ASSUME NEW s \in StateType, NEW c, NEW e
  PROVE  [s EXCEPT !.conn = c, !.sess = e] = [conn |-> c, sess |-> e, att |-> s.att]
<1> DEFINE q == [s EXCEPT !.conn = c]
<1>1. q = [conn |-> c, sess |-> s.sess, att |-> s.att]
  BY DEF StateType
<1>2. [s EXCEPT !.conn = c, !.sess = e] = [q EXCEPT !.sess = e]
  OBVIOUS
<1> HIDE DEF q
<1> QED
  BY <1>1, <1>2

LEMMA CloseTyped ==
  ASSUME Typed, NEW i \in Sockets, Close(i), UNCHANGED Rest
  PROVE  Typed' /\ Unheard
<1>1. PICK normal \in BOOLEAN : OnClose(i, normal)
  BY DEF Close
<1> DEFINE ends == [State EXCEPT !.conn.status = "disconnected", !.sess = Disconnected(@)]
<1>2. Tried(State, ends)
  <2>1. State \in StateType /\ State.conn = conn /\ State.sess = sess /\ State.att = att
    BY StateTyped DEF State, Typed
  <2> DEFINE c == [conn EXCEPT !.status = "disconnected"]
  <2>2. c \in ConnType /\ c.in = conn.in /\ c.text = conn.text /\ c.pending = conn.pending
    BY <2>1 DEF StateType, ConnType, Statuses
  <2>3. ends = [conn |-> c, sess |-> Disconnected(sess), att |-> att]
    <3>1. ends = [State EXCEPT !.conn = c, !.sess = Disconnected(sess)]
      BY <2>1
    <3>2. [State EXCEPT !.conn = c, !.sess = Disconnected(sess)] = [conn |-> c, sess |-> Disconnected(sess), att |-> State.att]
      BY <2>1, TwoFields
    <3> QED
      BY <2>1, <3>1, <3>2
  <2>4. Disconnected(sess) \in SessionType /\ Disconnected(sess).in = sess.in /\ Disconnected(sess).text = sess.text
    BY <2>1, Callbacks DEF StateType
  <2> HIDE DEF c, ends
  <2> QED
    BY <2>1, <2>2, <2>3, <2>4 DEF Tried, StateType
<1>3. Tried(State, State) /\ Tried(State, Attempt(State, None))
  BY StateTyped, AttemptTyped DEF Tried, Typed
<1>4. PICK r : Tried(State, r) /\ Become(r)
  BY <1>1, <1>2, <1>3 DEF OnClose
<1>5. /\ sock' = [sock EXCEPT ![i] = "closed"] /\ beats' = StopBeats /\ Tear(i)
      /\ UNCHANGED <<created, cmds, since, task, greeting, inbox, spoken>>
  BY <1>1 DEF OnClose
<1>6. sock' \in [Sockets -> SocketStates]
  BY <1>5 DEF Typed, ConnTyped, SocketStates
<1>7. torn' \subseteq Packets \cup {0} /\ StopBeats \in [on : BOOLEAN, packing : BOOLEAN, awaited : BOOLEAN]
  BY <1>5, TearTyped, StopBeatsTyped DEF Typed
<1>8. ConnTyped' /\ sess' \in SessionType
  BY <1>4, <1>5, <1>6, <1>7, AttemptMade DEF Typed, ConnTyped
<1>9. Unheard
  BY <1>4, <1>5, BecomesTried DEF Typed, Unheard
<1> QED
  BY <1>5, <1>8, <1>9 DEF Typed, SessionTyped, Rest

LEMMA RefuseTyped ==
  ASSUME Typed, NEW i \in Sockets, Refuse(i), UNCHANGED Rest
  PROVE  Typed' /\ Unheard
<1>1. /\ sock' = [sock EXCEPT ![i] = "failed"]
      /\ UNCHANGED <<cmds, since, task, greeting, inbox, spoken, beats, torn>>
  BY DEF Refuse
<1>2. sock' \in [Sockets -> SocketStates]
  BY <1>1 DEF Typed, ConnTyped, SocketStates
<1>3. PICK r : Tried(State, r) /\ Become(r) /\ (created' = created \/ created' = "failed")
  <2>1. CASE i = 0
    <3> DEFINE c == [conn EXCEPT !.status = "error"]
               r == [State EXCEPT !.conn.status = "error", !.sess = Errored(@)]
    <3>1. State \in StateType /\ State.conn = conn /\ State.sess = sess /\ State.att = att
      BY StateTyped DEF State, Typed
    <3>2. c \in ConnType /\ c.in = conn.in /\ c.text = conn.text /\ c.pending = conn.pending
      BY <3>1 DEF StateType, ConnType, Statuses
    <3>3. r = [conn |-> c, sess |-> Errored(sess), att |-> att]
      <4>1. r = [State EXCEPT !.conn = c, !.sess = Errored(sess)]
        BY <3>1
      <4>2. [State EXCEPT !.conn = c, !.sess = Errored(sess)] = [conn |-> c, sess |-> Errored(sess), att |-> State.att]
        BY <3>1, TwoFields
      <4> QED
        BY <3>1, <4>1, <4>2
    <3>4. Errored(sess) \in SessionType /\ Errored(sess).in = sess.in /\ Errored(sess).text = sess.text
      BY <3>1, Callbacks DEF StateType
    <3>5. Become(r) /\ created' = "failed"
      BY <2>1 DEF Refuse
    <3> HIDE DEF c, r
    <3>6. Tried(State, r)
      BY <3>1, <3>2, <3>3, <3>4 DEF Tried, StateType
    <3> QED
      BY <3>5, <3>6
  <2>2. CASE i # 0
    <3>1. i \in Attempts /\ Become(Rejected(State, i)) /\ created' = created
      BY <2>2 DEF Refuse, Attempts
    <3>2. Tried(State, Rejected(State, i))
      BY <3>1, StateTyped, RejectedTyped DEF Typed
    <3> QED
      BY <3>1, <3>2
  <2> QED
    BY <2>1, <2>2
<1>4. ConnTyped' /\ sess' \in SessionType
  BY <1>1, <1>2, <1>3, AttemptMade DEF Typed, ConnTyped
<1>5. Unheard
  BY <1>1, <1>3, BecomesTried DEF Typed, Unheard
<1> QED
  BY <1>1, <1>4, <1>5 DEF Typed, SessionTyped, Rest

\* The open handler: what becomes of the state, and of the flush it starts.
LEMMA GreetTyped ==
  ASSUME Typed, NEW i \in Sockets, Greet(i), UNCHANGED Rest
  PROVE  Typed' /\ (i # 0 => Unheard)
<1>0. conn \in ConnType /\ sess \in SessionType /\ att \in [Attempts -> AttemptType] /\ task \in [Tasks -> TaskType]
  BY DEF Typed, ConnTyped, SessionTyped
<1>1. /\ greeting' = greeting \ {i} /\ UNCHANGED <<cmds, since, sock, inbox, spoken, torn>>
      /\ beats' = IF conn.in THEN [beats EXCEPT !.on = TRUE, !.awaited = FALSE] ELSE beats
  BY DEF Greet
<1>2. beats' \in [on : BOOLEAN, packing : BOOLEAN, awaited : BOOLEAN]
  BY <1>1 DEF Typed, ConnTyped
<1>3. CASE i = 0
  <2>1. /\ conn' = [conn EXCEPT !.status = "connected", !.retry = 0]
        /\ created' = IF created = "pending" THEN "done" ELSE created
        /\ sess' = IF created = "pending" THEN [in |-> TRUE, status |-> "connected", text |-> 0] ELSE Connected(sess)
        /\ UNCHANGED <<att, task>>
    BY <1>3 DEF Greet
  <2>2. conn' \in ConnType /\ conn'.pending = conn.pending
    <3>1. 0 \in 0 .. MaxRetries /\ "connected" \in Statuses
      BY Numbers DEF Statuses, Active
    <3> QED
      BY <1>0, <2>1, <3>1 DEF ConnType
  <2>3. sess' \in SessionType
    <3>1. [in |-> TRUE, status |-> "connected", text |-> 0] \in SessionType
      BY Numbers DEF SessionType, Statuses, Active
    <3> QED
      BY <1>0, <2>1, <3>1, Callbacks
  <2>4. created' \in {"no", "pending", "done", "failed"}
    BY <2>1 DEF Typed, ConnTyped
  <2>5. ConnTyped'
    BY <1>1, <1>2, <2>1, <2>2, <2>4, RunsStay DEF Typed, ConnTyped
  <2> QED
    BY <1>1, <1>3, <2>3, <2>5 DEF Typed, SessionTyped, Rest
<1>4. CASE i # 0
  <2> DEFINE t == <<"flush", i>>
             s == Replaced(State, i)
             c == [conn EXCEPT !.ws = i, !.status = "connected", !.reconnecting = FALSE]
  <2>1. t \in Tasks /\ ~IsPacket(t) /\ i \in Attempts
    BY <1>4 DEF Tasks, IsPacket, Attempts
  <2>2. c \in ConnType /\ c.pending = conn.pending /\ c.in = conn.in /\ c.text = conn.text
    BY <1>0 DEF ConnType, Statuses, Active
  <2>3. s = [conn |-> c, sess |-> sess, att |-> att]
    <3>1. State \in StateType /\ State.conn = conn /\ State.sess = sess /\ State.att = att
      BY StateTyped DEF State, Typed
    <3> DEFINE x == State
               c1 == [conn EXCEPT !.ws = i]
               c2 == [c1 EXCEPT !.status = "connected"]
    <3>2. s = [[[x EXCEPT !.conn.ws = i] EXCEPT !.conn.status = "connected"] EXCEPT !.conn.reconnecting = FALSE]
      BY <3>1 DEF Replaced, StateType
    <3> QED
      BY <3>1, <3>2 DEF StateType, ConnType
  <2>4. s \in StateType
    BY <1>0, <2>2, <2>3 DEF StateType
  <2> DEFINE q == [s EXCEPT !.sess = Connected(@)]
  <2>5. /\ q = [conn |-> c, sess |-> Connected(sess), att |-> att] /\ q \in StateType
        /\ Connected(sess).in = sess.in /\ Connected(sess).text = sess.text
    <3>1. Connected(sess) \in SessionType /\ Connected(sess).in = sess.in /\ Connected(sess).text = sess.text
      BY <1>0, Callbacks
    <3> QED
      BY <1>0, <2>2, <2>3, <3>1 DEF StateType
  <2>6. created' = created
    BY <1>4 DEF Greet
  <2>7. CASE conn.pending = <<>>
    <3>1. Become(Resolved(q, i)) /\ task' = task
      BY <1>4, <2>7 DEF Greet
    <3> HIDE DEF s, c
    <3>2. /\ Tried(q, Resolved(q, i)) /\ q.conn = c /\ q.sess = Connected(sess) /\ q.att = att
      BY <2>1, <2>2, <2>5, ResolvedTyped
    <3> HIDE DEF q
    <3>3. /\ conn' \in ConnType /\ conn'.pending = conn.pending /\ sess' \in SessionType
          /\ att' \in [Attempts -> AttemptType]
      BY <2>2, <3>1, <3>2 DEF Tried, Become, StateType
    <3>5. Unheard
      BY <2>2, <2>5, <3>1, <3>2 DEF Tried, Become, Unheard, NoneAfterConn
    <3>4. ConnTyped'
      BY <1>1, <1>2, <2>6, <3>1, <3>3, RunsStay DEF Typed, ConnTyped
    <3> QED
      BY <1>1, <3>3, <3>4, <3>5 DEF Typed, SessionTyped, Rest
  <2>8. CASE conn.pending # <<>>
    <3> DEFINE f == [NoTask EXCEPT !.at = "next", !.pos = 1]
    <3>1. Become(s) /\ task' = [task EXCEPT ![t] = f]
      BY <1>4, <2>8 DEF Greet
    <3>2. f \in TaskType /\ f.at = "next" /\ f.pos = 1
      BY NoTaskTyped DEF TaskType
    <3>3. conn' = c /\ sess' = sess /\ att' = att
      BY <2>3, <3>1 DEF Become
    <3> HIDE DEF f, t, s, c
    <3>4. task' \in [Tasks -> TaskType] /\ task'[t] = f /\ \A u \in Tasks \ {t} : task'[u] = task[u]
      BY <1>0, <2>1, <3>1, <3>2
    <3>5. conn' \in ConnType /\ conn'.pending = conn.pending /\ Longer /\ Len(conn'.pending) <= BufferSize
      BY <2>2, <3>3 DEF Longer, Typed, ConnTyped, ConnType
    <3>6. ASSUME NEW u \in Tasks PROVE InArray(u)'
      <4>1. CASE u = t
        BY <2>1, <3>2, <3>4, <4>1 DEF InArray
      <4>2. CASE u # t
        BY <3>4, <3>5, <4>2, ArrayKept DEF Typed
      <4> QED
        BY <4>1, <4>2
    <3>7. ConnTyped'
      BY <1>1, <1>2, <2>6, <3>3, <3>4, <3>5, <3>6 DEF Typed, ConnTyped
    <3>8. ASSUME NEW p \in Packets PROVE <<"packet", p>> \in Tasks \ {t}
      BY <2>1 DEF Tasks, IsPacket
    <3>9. Unheard
      BY <2>2, <3>3, <3>4, <3>8 DEF Unheard, NoneAfterConn
    <3> QED
      BY <1>1, <3>3, <3>7, <3>9 DEF Typed, SessionTyped, Rest
  <2> QED
    BY <2>7, <2>8
<1> QED
  BY <1>3, <1>4

LEMMA ConnectTyped ==
  ASSUME Typed, Blank, Connect, UNCHANGED Rest
  PROVE  Typed'
<1>1. /\ created' = "pending" /\ sock' = [sock EXCEPT ![0] = "connecting"]
      /\ conn' = [NoConn EXCEPT !.in = TRUE, !.status = "connecting"]
      /\ UNCHANGED <<sess, cmds, since, att, task, greeting, inbox, spoken, beats, torn>>
      /\ \A t \in Tasks : task[t].at = "idle"
  BY DEF Connect, Blank
<1>2. conn' \in ConnType /\ Len(conn'.pending) <= BufferSize
  <2>1. 0 \in 0 .. MaxRetries /\ 0 \in 0 .. MaxText /\ 0 \in Sockets /\ 0 <= BufferSize
    BY Numbers
  <2>2. conn' = [in |-> TRUE, status |-> "connecting", ws |-> 0, reconnecting |-> FALSE, retry |-> 0,
                 pending |-> <<>>, text |-> 0]
    BY <1>1 DEF NoConn
  <2> QED
    BY <2>1, <2>2 DEF ConnType
<1>3. sock' \in [Sockets -> SocketStates]
  BY <1>1 DEF Typed, ConnTyped, SocketStates
<1>4. \A t \in Tasks : InArray(t)'
  BY <1>1 DEF InArray
<1>5. ConnTyped'
  BY <1>1, <1>2, <1>3, <1>4 DEF Typed, ConnTyped
<1> QED
  BY <1>1, <1>5 DEF Typed, SessionTyped, Rest

LEMMA OpenTyped ==
  ASSUME Typed, NEW i \in Sockets, Open(i), UNCHANGED Rest
  PROVE  Typed'
<1>1. /\ sock' = [sock EXCEPT ![i] = "open"] /\ greeting' = greeting \cup {i}
      /\ UNCHANGED <<created, sess, cmds, since, conn, att, task, inbox, spoken, beats, torn>>
  BY DEF Open
<1>2. sock' \in [Sockets -> SocketStates] /\ greeting' \subseteq Sockets
  BY <1>1 DEF Typed, ConnTyped, SocketStates
<1>3. ConnTyped'
  BY <1>1, <1>2, WiresTyped DEF Typed, ConnTyped
<1> QED
  BY <1>1, <1>3 DEF Typed, SessionTyped, Rest

LEMMA AfterDelayTyped ==
  ASSUME Typed, NEW a \in Attempts, AfterDelay(a), UNCHANGED Rest
  PROVE  Typed'
<1>1. UNCHANGED <<created, sess, cmds, since, conn, task, greeting, inbox, spoken, beats, torn>>
  BY DEF AfterDelay
<1>2. att' \in [Attempts -> AttemptType]
  <2>1. \E to \in {"cancelled", "opening"} : att' = [att EXCEPT ![a].at = to]
    BY DEF AfterDelay
  <2> QED
    BY <2>1 DEF Typed, ConnTyped, AttemptType
<1>3. sock' \in [Sockets -> SocketStates]
  <2>1. sock' = sock \/ sock' = [sock EXCEPT ![a] = "connecting"]
    BY DEF AfterDelay
  <2> QED
    BY <2>1 DEF Typed, ConnTyped, SocketStates
<1>4. ConnTyped'
  BY <1>1, <1>2, <1>3, WiresTyped DEF Typed, ConnTyped
<1> QED
  BY <1>1, <1>4 DEF Typed, SessionTyped, Rest

LEMMA BeatTyped ==
  ASSUME Typed, Beat \/ Beaten, UNCHANGED Rest
  PROVE  Typed'
<1>1. /\ \/ beats' = [beats EXCEPT !.packing = TRUE]
         \/ beats' = [beats EXCEPT !.packing = FALSE, !.awaited = TRUE]
      /\ UNCHANGED <<created, sess, cmds, since, conn, sock, att, task, greeting, inbox, spoken, torn>>
  BY DEF Beat, Beaten
<1>2. beats' \in [on : BOOLEAN, packing : BOOLEAN, awaited : BOOLEAN]
  BY <1>1 DEF Typed, ConnTyped
<1>3. ConnTyped'
  BY <1>1, <1>2, WiresTyped DEF Typed, ConnTyped
<1> QED
  BY <1>1, <1>3 DEF Typed, SessionTyped, Rest

LEMMA BeatTimeoutTyped ==
  ASSUME Typed, BeatTimeout, UNCHANGED Rest
  PROVE  Typed'
<1>1. /\ beats' = [beats EXCEPT !.awaited = FALSE] /\ conn' = [conn EXCEPT !.status = "error"]
      /\ sock' = [sock EXCEPT ![conn.ws] = IF @ = "open" THEN "dropping" ELSE @] /\ Tear(conn.ws)
      /\ UNCHANGED <<created, sess, cmds, since, att, task, greeting, inbox, spoken>>
  BY DEF BeatTimeout
<1>2. conn' \in ConnType /\ conn'.pending = conn.pending /\ conn.ws \in Sockets
  BY <1>1 DEF Typed, ConnTyped, ConnType, Statuses
<1>3. sock' \in [Sockets -> SocketStates] /\ beats' \in [on : BOOLEAN, packing : BOOLEAN, awaited : BOOLEAN]
  BY <1>1, <1>2 DEF Typed, ConnTyped, SocketStates
<1>4. torn' \subseteq Packets \cup {0}
  BY <1>1, <1>2, TearTyped DEF Typed
<1>5. ConnTyped'
  BY <1>1, <1>2, <1>3, <1>4, RunsStay DEF Typed, ConnTyped
<1> QED
  BY <1>1, <1>5 DEF Typed, SessionTyped, Rest

\* A run that waits or packs has a packet of its array.
LEMMA AtPacket ==
  ASSUME Typed, NEW t \in Tasks, task[t].at \in {"awaiting", "packing"}
  PROVE  Ready(t)
<1>1. Array(t) \in Seq(Packets) /\ task[t] \in TaskType
  BY DEF Typed, ConnTyped, TaskType, ConnType, Array
<1> QED
  BY <1>1 DEF Ready, Typed, ConnTyped, InArray, TaskType

LEMMA ReturnRuns ==
  ASSUME Typed, NEW t \in Tasks, Return(t), Ready(t), conn' \in ConnType,
         conn'.in = conn.in, conn'.text = conn.text, conn'.pending = conn.pending, sess' = sess, att' = att
  PROVE  Ran(t)
<1>1. task[t].pos \in Nat \ {0} \/ IsPacket(t)
  BY DEF Ready
<1>2. Longer /\ Len(conn'.pending) <= BufferSize
  BY DEF Longer, Typed, ConnTyped, ConnType
<1> QED
  BY <1>1, <1>2, ReturnTyped DEF Ran, NoneAfterConn, Typed, SessionTyped, ConnTyped

LEMMA ResumeRuns ==
  ASSUME Typed, NEW t \in Tasks, Resume(t)
  PROVE  Ran(t) /\ UNCHANGED Wires
<1>1. Ready(t)
  BY AtPacket DEF Resume
<1>2. CASE ToSocket(t)
  BY <1>1, <1>2, ToSocketRuns DEF Resume, Wires, Typed
<1>3. CASE Throw(t)
  BY <1>3, ThrowRuns DEF Resume, Wires, Typed
<1>4. CASE Keep(t)
  BY <1>1, <1>4, KeepRuns DEF Resume, Wires, Typed
<1>5. CASE Return(t) /\ UNCHANGED <<conn, sess, att>>
  <2>1. conn' \in ConnType
    BY <1>5 DEF Typed, ConnTyped
  <2>2. Ran(t)
    BY <1>1, <1>5, <2>1, ReturnRuns
  <2> QED
    BY <2>2 DEF Resume, Wires
<1> QED
  BY <1>2, <1>3, <1>4, <1>5 DEF Resume

LEMMA PackedRuns ==
  ASSUME Typed, NEW t \in Tasks, Packed(t)
  PROVE  Ran(t) /\ UNCHANGED Wires
<1>1. Ready(t)
  BY AtPacket DEF Packed
<1>2. /\ conn' = [conn EXCEPT !.status = "streaming"] /\ Return(t)
      /\ UNCHANGED <<created, sess, sock, att, greeting, inbox, spoken, beats, torn>>
  BY DEF Packed
<1>3. conn' \in ConnType /\ conn'.in = conn.in /\ conn'.text = conn.text /\ conn'.pending = conn.pending
  BY <1>2 DEF Typed, ConnTyped, ConnType, Statuses, Active
<1>4. Ran(t)
  BY <1>1, <1>2, <1>3, ReturnRuns
<1> QED
  BY <1>2, <1>4 DEF Wires

LEMMA ReceiveTyped ==
  ASSUME Typed, NEW i \in Sockets, NEW kind \in Kinds, Receive(i, kind), UNCHANGED <<world, store, over, timer, finished>>
  PROVE  Typed'
<1> DEFINE r == [on |-> i, n |-> spoken + 1, text |-> IF kind \in {"text", "final"} THEN spoken + 1 ELSE 0,
                 final |-> kind \in {"final", "refusal"}, bad |-> kind = "bad"]
<1>1. /\ spoken < world.texts /\ spoken' = spoken + 1 /\ inbox' = inbox \cup {r}
      /\ beats' = IF conn.in THEN [beats EXCEPT !.awaited = FALSE] ELSE beats
      /\ UNCHANGED <<created, sess, cmds, since, told, conn, sock, att, task, greeting, torn>>
  BY DEF Receive
<1>2. spoken + 1 \in 1 .. MaxText
  BY <1>1, StreamingAsrAssumption, Numbers DEF Typed, ConnTyped
<1>3. r \in MessageType
  <2>1. (IF kind \in {"text", "final"} THEN spoken + 1 ELSE 0) \in 0 .. MaxText /\ (kind \in {"final", "refusal"}) \in BOOLEAN
        /\ (kind = "bad") \in BOOLEAN
    BY <1>2, Numbers
  <2> QED
    BY <1>2, <2>1 DEF MessageType
<1> HIDE DEF r
<1>4. inbox' \subseteq MessageType /\ spoken' \in 0 .. MaxText
  BY <1>1, <1>2, <1>3 DEF Typed, ConnTyped
<1>5. beats' \in [on : BOOLEAN, packing : BOOLEAN, awaited : BOOLEAN]
  BY <1>1 DEF Typed, ConnTyped
<1>6. ConnTyped'
  BY <1>1, <1>4, <1>5, WiresTyped DEF Typed, ConnTyped
<1> QED
  BY <1>1, <1>6 DEF Typed, SessionTyped

\* handleResult
LEMMA ResultTyped ==
  ASSUME Typed, NEW r \in MessageType, HandleResult(r)
  PROVE  /\ sess' \in SessionType /\ cmds' \in Seq(CommandType) /\ told' = told
         /\ since' \in {"now", "rest", "idle"}
<1>1. CASE ~sess.in
  BY <1>1 DEF HandleResult, Typed, SessionTyped
<1>2. CASE sess.in
  <2>1. /\ sess' = Resulted(sess, r) /\ since' = "now" /\ told' = told /\ cmds' = Save(sess', "tell", r.text)
    BY <1>2 DEF HandleResult
  <2>2. sess' \in SessionType
    BY <2>1 DEF Typed, SessionTyped, SessionType, MessageType, Resulted, Statuses, Active
  <2>3. SessionTyped /\ "tell" \in {"none", "tell"} /\ r.text \in 0 .. MaxText
    BY DEF Typed, MessageType
  <2>4. PICK s \in SessionType : s = sess'
    BY <2>2
  <2>5. Save(s, "tell", r.text) \in Seq(CommandType)
    BY <2>3, Queued
  <2> QED
    BY <2>1, <2>2, <2>4, <2>5
<1> QED
  BY <1>1, <1>2

LEMMA ParseTyped ==
  ASSUME Typed, NEW r \in inbox, Parse(r), UNCHANGED <<world, store, over, timer, finished>>
  PROVE  Typed'
<1>1. r \in MessageType /\ inbox' \subseteq MessageType
  BY DEF Parse, Typed, ConnTyped
<1>2. UNCHANGED <<created, sock, att, task, greeting, spoken, torn>>
  BY DEF Parse
<1>3. /\ sess' \in SessionType /\ cmds' \in Seq(CommandType) /\ told' = told
      /\ since' \in {"now", "rest", "idle"}
  <2>1. CASE r.bad
    BY <2>1, Callbacks DEF Parse, Typed, SessionTyped
  <2>2. CASE ~r.bad
    BY <1>1, <2>2, ResultTyped DEF Parse
  <2> QED
    BY <2>1, <2>2
<1>4. conn' \in ConnType /\ conn'.pending = conn.pending /\ beats' \in [on : BOOLEAN, packing : BOOLEAN, awaited : BOOLEAN]
  <2>1. CASE r.bad
    BY <2>1 DEF Parse, Typed, ConnTyped
  <2>2. CASE ~r.bad
    <3>1. /\ conn' = [conn EXCEPT !.text = IF r.text > 0 THEN r.text ELSE @,
                                  !.status = IF r.final THEN "completed" ELSE "streaming"]
          /\ beats' = IF r.final THEN StopBeats ELSE beats
      BY <2>2 DEF Parse
    <3>2. beats' \in [on : BOOLEAN, packing : BOOLEAN, awaited : BOOLEAN]
      BY <3>1, StopBeatsTyped DEF Typed, ConnTyped
    <3>3. (IF r.text > 0 THEN r.text ELSE conn.text) \in 0 .. MaxText
          /\ (IF r.final THEN "completed" ELSE "streaming") \in Statuses
      BY <1>1 DEF MessageType, Typed, ConnTyped, ConnType, Statuses, Active
    <3> QED
      BY <3>1, <3>2, <3>3 DEF Typed, ConnTyped, ConnType
  <2> QED
    BY <2>1, <2>2
<1>5. ConnTyped'
  BY <1>1, <1>2, <1>4, RunsStay DEF Typed, ConnTyped
<1>6. SessionTyped'
  BY <1>3 DEF Typed, SessionTyped
<1> QED
  BY <1>5, <1>6 DEF Typed

LEMMA SendRuns ==
  ASSUME Typed, NEW p \in Packets, Send(p)
  PROVE  Ran(<<"packet", p>>) /\ UNCHANGED Wires
<1> DEFINE t == <<"packet", p>>
<1>1. t \in Tasks /\ IsPacket(t) /\ Ready(t)
  BY DEF Tasks, IsPacket, Ready
<1>2. UNCHANGED Wires
  BY DEF Send, Wires
<1>3. Ran(t)
  <2>1. CASE SendAudio(t)
    BY <1>1, <2>1, SendAudioRuns DEF Typed
  <2>2. CASE task' = [task EXCEPT ![t].at = "failed"] /\ UNCHANGED <<sess, cmds, since, conn, att>>
    <3>1. /\ task' \in [Tasks -> TaskType] /\ task'[t].at = "failed" /\ \A u \in Tasks \ {t} : task'[u] = task[u]
      BY <1>1, <2>2 DEF Typed, ConnTyped, TaskType
    <3>2. InArray(t)'
      BY <1>1, <3>1 DEF InArray
    <3>3. Longer /\ Len(conn'.pending) <= BufferSize /\ conn' \in ConnType
      BY <2>2 DEF Longer, Typed, ConnTyped, ConnType
    <3> QED
      BY <2>2, <3>1, <3>2, <3>3 DEF Ran, NoneAfterConn, Typed, SessionTyped, ConnTyped
  <2> QED
    BY <2>1, <2>2 DEF Send
<1> HIDE DEF t
<1> QED
  BY <1>2, <1>3 DEF t

LEMMA FlushTyped ==
  ASSUME Typed, NEW i \in Attempts, Flush(i), UNCHANGED Rest
  PROVE  Typed' /\ Unheard /\ UNCHANGED <<cmds, since>>
<1> DEFINE t == <<"flush", i>>
<1>1. t \in Tasks /\ ~IsPacket(t) /\ task[t].at = "next" /\ UNCHANGED Wires
  BY DEF Flush, Tasks, IsPacket, Wires
<1>0. ASSUME NEW p \in Packets PROVE <<"packet", p>> \in Tasks \ {t} /\ IsPacket(<<"packet", p>>)
  BY DEF Tasks, IsPacket
<1>2. CASE task[t].pos <= Len(Array(t)) /\ SendAudio(t)
  <2>1. Array(t) \in Seq(Packets) /\ task[t] \in TaskType
    BY <1>1 DEF Typed, ConnTyped, TaskType, ConnType, Array
  <2>2. Ready(t)
    BY <1>1, <1>2, <2>1 DEF Ready, Typed, ConnTyped, InArray
  <2>3. Ran(t)
    BY <1>1, <1>2, <2>2, SendAudioRuns DEF Typed
  <2> HIDE DEF t
  <2>4. Unheard /\ UNCHANGED <<cmds, since>>
    BY <1>0, <1>1, <2>3 DEF Ran, Unheard
  <2> QED
    BY <1>1, <2>3, <2>4, RanTyped
<1>3. CASE /\ task' = [u \in Tasks |-> IF u = t THEN NoTask
                         ELSE IF ~IsPacket(u) /\ task[u].at # "idle" THEN [task[u] EXCEPT !.own = Array(u)]
                         ELSE task[u]]
           /\ Become(Resolved([State EXCEPT !.conn.pending = <<>>, !.sess = Connected(@)], i))
           /\ UNCHANGED <<since, cmds>>
  <2> DEFINE c == [conn EXCEPT !.pending = <<>>]
             q == [State EXCEPT !.conn.pending = <<>>, !.sess = Connected(@)]
  <2>1. State \in StateType /\ State.conn = conn /\ State.sess = sess /\ State.att = att
    BY StateTyped DEF State, Typed
  <2>2. c \in ConnType /\ c.pending = <<>> /\ c.in = conn.in /\ c.text = conn.text
    <3>1. <<>> \in Seq(Packets) /\ conn \in ConnType
      BY <2>1 DEF StateType
    <3> QED
      BY <3>1 DEF ConnType
  <2>3. Connected(sess) \in SessionType /\ Connected(sess).in = sess.in /\ Connected(sess).text = sess.text
    BY <2>1, Callbacks DEF StateType
  <2>4. q = [conn |-> c, sess |-> Connected(sess), att |-> att]
    <3>1. q = [State EXCEPT !.conn = c, !.sess = Connected(sess)]
      BY <2>1
    <3>2. [State EXCEPT !.conn = c, !.sess = Connected(sess)] = [conn |-> c, sess |-> Connected(sess), att |-> State.att]
      BY <2>1, TwoFields
    <3> QED
      BY <2>1, <3>1, <3>2
  <2>5. Become(Resolved(q, i))
    BY <1>3
  <2> HIDE DEF c, q
  <2>6. q \in StateType
    BY <2>1, <2>2, <2>3, <2>4 DEF StateType
  <2>7. conn' = c /\ sess' = Connected(sess) /\ att' \in [Attempts -> AttemptType] /\ NoneAfterConn
    <3>1. q.conn = c /\ q.sess = Connected(sess) /\ q.att = att
      BY <2>4
    <3>2. Tried(q, Resolved(q, i)) /\ Resolved(q, i).conn = q.conn /\ Resolved(q, i).sess = q.sess
      BY <2>6, ResolvedTyped
    <3> QED
      BY <2>2, <2>5, <3>1, <3>2 DEF Become, Tried, StateType, NoneAfterConn
  <2>8. /\ task' \in [Tasks -> TaskType] /\ task'[t] = NoTask
        /\ \A u \in Tasks \ {t} : /\ task'[u].at = task[u].at /\ task'[u].pos = task[u].pos
                                  /\ ~IsPacket(u) /\ task[u].at # "idle" => task'[u].own = Array(u)
    <3>1. ASSUME NEW u \in Tasks PROVE Array(u) \in Seq(Packets) /\ task[u] \in TaskType
      BY DEF Typed, ConnTyped, TaskType, ConnType, Array
    <3>2. ASSUME NEW u \in Tasks
          PROVE  /\ [task[u] EXCEPT !.own = Array(u)] \in TaskType
                 /\ [task[u] EXCEPT !.own = Array(u)].own = Array(u)
                 /\ [task[u] EXCEPT !.own = Array(u)].at = task[u].at /\ [task[u] EXCEPT !.own = Array(u)].pos = task[u].pos
      BY <3>1 DEF TaskType
    <3> QED
      BY <1>1, <1>3, <3>1, <3>2, NoTaskTyped
  <2>9. ASSUME NEW u \in Tasks PROVE InArray(u)'
    <3>1. CASE u = t
      BY <1>1, <2>8, <3>1, NoTaskTyped DEF InArray
    <3>2. CASE u # t
      <4>1. InArray(u) /\ task[u] \in TaskType /\ Array(u) \in Seq(Packets)
        BY DEF Typed, ConnTyped, TaskType, ConnType, Array
      <4>2. task'[u].at = task[u].at /\ task'[u].pos = task[u].pos
        BY <2>8, <3>2
      <4>3. CASE ~IsPacket(u) /\ task[u].at # "idle"
        <5>1. task'[u].own = Array(u)
          BY <2>8, <3>2, <4>3
        <5>2. Array(u) = <<>> => conn'.pending = <<>>
          BY <2>2, <2>7
        <5>3. Array(u)' = Array(u)
          BY <5>1, <5>2 DEF Array
        <5> QED
          BY <4>1, <4>2, <5>3 DEF InArray
      <4>4. CASE IsPacket(u) \/ task[u].at = "idle"
        BY <4>1, <4>2, <4>4 DEF InArray
      <4> QED
        BY <4>3, <4>4
    <3> QED
      BY <3>1, <3>2
  <2>10. ConnTyped'
    <3>1. conn' \in ConnType /\ Len(conn'.pending) <= BufferSize
      BY <2>2, <2>7, Numbers
    <3> QED
      BY <1>1, <2>7, <2>8, <2>9, <3>1 DEF Typed, ConnTyped, Wires
  <2>11. SessionTyped'
    BY <1>3, <2>3, <2>7 DEF Typed, SessionTyped, Rest
  <2>12. \A p \in Packets : task'[<<"packet", p>>] = task[<<"packet", p>>]
    BY <1>0, <1>3
  <2>13. Unheard
    BY <2>2, <2>3, <2>7, <2>12 DEF Unheard
  <2> QED
    BY <1>3, <2>10, <2>11, <2>13 DEF Typed, Rest
<1> QED
  BY <1>2, <1>3 DEF Flush
-----------------------------------------------------------------------------
(* Steps that need no connection                                           *)

\* Appending a command that reads or deletes.
LEMMA Queues ==
  ASSUME SessionTyped, NEW op \in {"get", "delete"}, NEW then \in {"none", "complete", "cleanup"}
  PROVE  Append(cmds, Command(op, then, 0)) \in Seq(CommandType)
<1>1. Command(op, then, 0) = [op |-> op, then |-> then, text |-> 0, of |-> sess]
  BY DEF Command
<1>2. 0 \in 0 .. MaxText
  BY Numbers
<1>3. Command(op, then, 0) \in CommandType
  BY <1>1, <1>2 DEF CommandType, SessionTyped
<1> QED
  BY <1>3 DEF SessionTyped

\* What Redis answers first is a command, and the others are left.
LEMMA Answers ==
  ASSUME SessionTyped, NEW op, Answered(op)
  PROVE  /\ cmds # <<>> /\ Head(cmds) \in CommandType /\ cmds' \in Seq(CommandType) /\ cmds' = Tail(cmds)
         /\ Head(cmds) = cmds[1] /\ Head(cmds).op = op
BY DEF Answered, SessionTyped

LEMMA AloneTyped ==
  ASSUME SessionTyped, Alone
  PROVE  SessionTyped'
<1>1. CASE Saved
  <2> DEFINE k == Head(cmds)
  <2>1. k \in CommandType /\ cmds' \in Seq(CommandType)
    BY <1>1, Answers DEF Saved
  <2>2. /\ store' = [text |-> k.of.text, status |-> k.of.status] \/ store' = store
        /\ told' = IF k.then = "tell" /\ k.text > 0 THEN k.text ELSE told
        /\ UNCHANGED <<sess, since, over, timer, finished>>
    BY <1>1 DEF Saved
  <2> HIDE DEF k
  <2>3. [text |-> k.of.text, status |-> k.of.status] \in RecordType /\ k.text \in 0 .. MaxText
    BY <2>1 DEF CommandType, SessionType, RecordType
  <2> QED
    BY <2>1, <2>2, <2>3 DEF SessionTyped
<1>2. CASE Restored
  <2>1. cmds' \in Seq(CommandType)
    BY <1>2, Answers DEF Restored
  <2>2. /\ sess' = sess \/ (store # None /\ sess' = [in |-> TRUE, status |-> store.status, text |-> store.text])
        /\ UNCHANGED <<store, told, since, over, timer, finished>>
    BY <1>2 DEF Restored
  <2>3. store # None => [in |-> TRUE, status |-> store.status, text |-> store.text] \in SessionType
    BY DEF SessionTyped, SessionType, RecordType
  <2> QED
    BY <2>1, <2>2, <2>3 DEF SessionTyped
<1>3. CASE Completed
  <2>1. cmds' \in Seq(CommandType)
    BY <1>3, Answers DEF Completed, Forgotten
  <2> QED
    BY <1>3, <2>1 DEF Completed, Forgotten, SessionTyped
<1>4. CASE CleanupTimer
  BY <1>4 DEF CleanupTimer, SessionTyped, SessionType
<1>5. CASE Sweep
  <2>1. finished' = "sweep" /\ cmds' = Append(cmds, Command("delete", "cleanup", 0)) /\ UNCHANGED <<sess, store, told, since, over, timer>>
    BY <1>5 DEF Sweep
  <2>2. cmds' \in Seq(CommandType)
    BY <2>1, Queues
  <2> QED
    BY <2>1, <2>2 DEF SessionTyped
<1>6. CASE Wait
  BY <1>6 DEF Wait, SessionTyped
<1>7. CASE Age
  BY <1>7 DEF Age, SessionTyped
<1>8. CASE Expire
  BY <1>8 DEF Expire, SessionTyped
<1>9. CASE Ping
  <2>1. since' = "now" /\ cmds' = Save(sess, "none", 0) /\ UNCHANGED <<sess, store, told, over, timer, finished>>
    BY <1>9 DEF Ping
  <2>2. sess \in SessionType /\ "none" \in {"none", "tell"} /\ 0 \in 0 .. MaxText
    BY Numbers DEF SessionTyped
  <2>3. Save(sess, "none", 0) \in Seq(CommandType)
    BY <2>2, Queued
  <2> QED
    BY <2>1, <2>3 DEF SessionTyped
<1>10. CASE Restore
  <2>1. cmds' = Append(cmds, Command("get", "none", 0)) /\ UNCHANGED <<sess, store, told, since, over, timer, finished>>
    BY <1>10 DEF Restore
  <2>2. cmds' \in Seq(CommandType)
    BY <2>1, Queues
  <2> QED
    BY <2>1, <2>2 DEF SessionTyped
<1> QED
  BY <1>1, <1>2, <1>3, <1>4, <1>5, <1>6, <1>7, <1>8, <1>9, <1>10 DEF Alone
-----------------------------------------------------------------------------
(* The client and the process                                              *)

LEMMA SyncedTyped ==
  ASSUME Typed
  PROVE  /\ Synced \in SessionType /\ Synced.in = sess.in
         /\ Synced.text = (IF conn.in THEN conn.text ELSE sess.text)
<1>1. sess \in SessionType /\ conn \in ConnType
  BY DEF Typed, SessionTyped, ConnTyped
<1> DEFINE x == IF \/ ProviderStatus \in Active /\ sess.status \notin Active
                   \/ ProviderStatus \in {"completed", "error"}
                THEN ProviderStatus ELSE sess.status
           y == IF conn.in THEN conn.text ELSE sess.text
<1>2. x \in Statuses /\ y \in 0 .. MaxText
  BY <1>1 DEF ConnType, SessionType, Statuses, Active
<1>3. Synced = [sess EXCEPT !.status = x, !.text = y]
  BY <1>1 DEF Synced
<1> HIDE DEF x, y
<1>4. Synced \in SessionType /\ Synced.in = sess.in /\ Synced.text = y
  BY <1>1, <1>2, <1>3 DEF SessionType
<1> QED
  BY <1>4 DEF y

LEMMA CompleteTyped ==
  ASSUME Typed, Complete, UNCHANGED world
  PROVE  Typed'
<1>1. ConnTyped'
  BY DisconnectTyped DEF Complete, Typed
<1>2. sess' = [sess EXCEPT !.text = IF conn.in THEN conn.text ELSE @, !.status = "completed"]
      /\ cmds' = Append(cmds, Command("delete", "complete", 0)) /\ finished' = "user"
      /\ UNCHANGED <<store, told, since, over, timer>>
  BY DEF Complete
<1>3. sess' \in SessionType
  BY <1>2 DEF Typed, SessionTyped, ConnTyped, SessionType, ConnType, Statuses
<1>4. cmds' \in Seq(CommandType)
  BY <1>2, Queues DEF Typed
<1> QED
  BY <1>1, <1>2, <1>3, <1>4 DEF Typed, SessionTyped

LEMMA CancelTyped ==
  ASSUME Typed, Cancel, UNCHANGED world
  PROVE  Typed'
<1>1. ConnTyped'
  BY DisconnectTyped DEF Cancel, Typed
<1>2. sess' \in SessionType
  BY DEF Cancel, Typed, SessionTyped, SessionType, Statuses
<1> QED
  BY <1>1, <1>2 DEF Cancel, Typed, SessionTyped

LEMMA CleanUpTyped ==
  ASSUME Typed, CleanUp, UNCHANGED world
  PROVE  Typed'
<1>1. ConnTyped'
  <2>1. CASE Disconnect
    BY <2>1, DisconnectTyped DEF CleanUp, Typed
  <2>2. CASE UNCHANGED <<conn, sock, beats, torn>>
    BY <2>2, ConnStays DEF CleanUp, Typed, connVars
  <2> QED
    BY <2>1, <2>2 DEF CleanUp
<1>2. sess' \in SessionType
  BY DEF CleanUp, Typed, SessionTyped, SessionType
<1>3. cmds' \in Seq(CommandType) /\ (store' = None \/ store' = store)
  BY Answers DEF CleanUp, Forgotten, Typed
<1> QED
  BY <1>1, <1>2, <1>3 DEF CleanUp, Typed, SessionTyped

LEMMA CrashTyped ==
  ASSUME Typed, Crash, UNCHANGED world
  PROVE  Typed'
<1>1. /\ sess' = NoSession /\ conn' = NoConn /\ beats' = Silence /\ cmds' = <<>> /\ timer' = FALSE
      /\ created' = (IF created = "done" THEN "done" ELSE "failed")
      /\ greeting' = {} /\ inbox' = {}
      /\ UNCHANGED <<store, told, since, over, finished, spoken, heard, torn>>
  BY DEF Crash
<1>2. sock' = [i \in Sockets |-> IF sock[i] = "none" THEN "none" ELSE "closed"]
  BY DEF Crash
<1>3. att' = [a \in Attempts |-> IF att[a].at = "none" THEN att[a] ELSE [att[a] EXCEPT !.at = "cancelled"]]
  BY DEF Crash
<1>4. task' = [t \in Tasks |-> IF task[t].at \in {"done", "failed", "idle"} THEN task[t]
                               ELSE IF IsPacket(t) THEN [NoTask EXCEPT !.at = "failed"] ELSE NoTask]
  BY DEF Crash
<1>5. sock' \in [Sockets -> SocketStates] /\ att' \in [Attempts -> AttemptType]
  BY <1>2, <1>3 DEF SocketStates, Typed, ConnTyped, AttemptType
<1>6. task' \in [Tasks -> TaskType] /\ \A t \in Tasks : InArray(t)'
  <2>1. [NoTask EXCEPT !.at = "failed"] \in TaskType /\ [NoTask EXCEPT !.at = "failed"].at = "failed"
    BY NoTaskTyped DEF TaskType
  <2>2. task' \in [Tasks -> TaskType]
    BY <1>4, <2>1, NoTaskTyped DEF Typed, ConnTyped
  <2>3. ASSUME NEW t \in Tasks PROVE InArray(t)'
    <3>1. InArray(t)
      BY DEF Typed, ConnTyped
    <3>2. task'[t].at \in {"idle", "done", "failed"} /\ (~IsPacket(t) => task'[t].at = "idle" \/ task[t].at \in {"done", "failed"})
      BY <1>4, <2>1, NoTaskTyped
    <3> QED
      BY <3>1, <3>2 DEF InArray
  <2> QED
    BY <2>2, <2>3
<1>7. conn' \in ConnType /\ Len(conn'.pending) <= BufferSize
  <2>1. 0 \in 0 .. MaxRetries /\ 0 \in 0 .. MaxText /\ 0 \in Sockets /\ 0 <= BufferSize
    BY Numbers
  <2> QED
    BY <1>1, <2>1 DEF NoConn, ConnType, Statuses
<1>8. sess' \in SessionType /\ beats' \in [on : BOOLEAN, packing : BOOLEAN, awaited : BOOLEAN]
  <2>1. 0 \in 0 .. MaxText
    BY Numbers
  <2> QED
    BY <1>1, <2>1 DEF NoSession, Silence, SessionType, Statuses
<1>9. ConnTyped'
  BY <1>1, <1>5, <1>6, <1>7, <1>8 DEF Typed, ConnTyped
<1>10. SessionTyped'
  <2>1. cmds' \in Seq(CommandType)
    BY <1>1
  <2> QED
    BY <1>1, <1>8, <2>1 DEF Typed, SessionTyped
<1> QED
  BY <1>9, <1>10 DEF Typed
-----------------------------------------------------------------------------
(* The types, for every step                                               *)

LEMMA InitTyped ==
  ASSUME Init
  PROVE  Typed /\ Blank
<1>1. 0 \in 0 .. MaxRetries /\ 0 \in 0 .. MaxText /\ 0 \in Sockets /\ 0 <= BufferSize
  BY Numbers
<1>2. /\ world \in Worlds /\ sess = NoSession /\ store = None /\ cmds = <<>> /\ told = 0 /\ since = "now"
      /\ over = FALSE /\ timer = FALSE /\ finished = "no"
  BY DEF Init, SessionInit
<1>3. sess \in SessionType /\ cmds \in Seq(CommandType)
  BY <1>1, <1>2 DEF NoSession, SessionType, Statuses
<1>4. SessionTyped
  BY <1>1, <1>2, <1>3 DEF SessionTyped
<1>5. /\ created = "no" /\ conn = NoConn /\ sock = [i \in Sockets |-> "none"]
      /\ att = [a \in Attempts |-> [at |-> "none", by |-> None]] /\ task = [t \in Tasks |-> NoTask]
      /\ greeting = {} /\ inbox = {} /\ spoken = 0 /\ beats = Silence /\ torn = {}
  BY DEF Init, ConnInit
<1>6. conn \in ConnType /\ ~conn.in /\ Len(conn.pending) <= BufferSize
  BY <1>1, <1>5 DEF NoConn, ConnType, Statuses
<1>7. sock \in [Sockets -> SocketStates] /\ att \in [Attempts -> AttemptType] /\ task \in [Tasks -> TaskType]
      /\ beats \in [on : BOOLEAN, packing : BOOLEAN, awaited : BOOLEAN]
  BY <1>5, NoTaskTyped DEF SocketStates, AttemptType, Silence
<1>8. \A t \in Tasks : task[t].at = "idle" /\ InArray(t)
  BY <1>5, NoTaskTyped DEF InArray
<1>9. ConnTyped
  BY <1>1, <1>5, <1>6, <1>7, <1>8 DEF ConnTyped
<1>10. Blank
  BY <1>5, <1>6, <1>8 DEF Blank
<1> QED
  BY <1>2, <1>4, <1>9, <1>10 DEF Typed

LEMMA ConnStepTyped ==
  ASSUME Typed, Blank, ConnStep, UNCHANGED Rest
  PROVE  Typed'
BY ConnectTyped, BeatTyped, BeatTimeoutTyped, OpenTyped, GreetTyped, RefuseTyped, CloseTyped, AfterDelayTyped,
   ResumeRuns, PackedRuns, RanTyped DEF ConnStep

LEMMA TypedKept ==
  ASSUME Typed, Blank, Next, UNCHANGED world
  PROVE  Typed'
<1>1. CASE ConnStep /\ UNCHANGED <<store, told, over, timer, finished>>
  BY <1>1, ConnStepTyped DEF Rest
<1>2. ASSUME NEW i \in Sockets, NEW kind \in Kinds, Receive(i, kind), UNCHANGED <<store, over, timer, finished>>
      PROVE  Typed'
  BY <1>2, ReceiveTyped
<1>3. ASSUME NEW r \in inbox, Parse(r), UNCHANGED <<store, over, timer, finished>>
      PROVE  Typed'
  BY <1>3, ParseTyped
<1>4. ASSUME NEW p \in Packets, Send(p), UNCHANGED <<store, told, over, timer, finished>>
      PROVE  Typed'
  <2>1. Ran(<<"packet", p>>) /\ UNCHANGED Wires
    BY <1>4, SendRuns
  <2>2. <<"packet", p>> \in Tasks /\ UNCHANGED Rest
    BY <1>4 DEF Tasks, Rest
  <2> QED
    BY <2>1, <2>2, RanTyped
<1>5. CASE Alone /\ UNCHANGED connVars
  BY <1>5, AloneTyped, ConnStays DEF Typed
<1>6. CASE Status
  <2>1. sess' = Synced /\ UNCHANGED <<store, cmds, told, since, over, timer, finished>> /\ UNCHANGED connVars
    BY <1>6 DEF Status
  <2> QED
    BY <2>1, SyncedTyped, ConnStays DEF Typed, SessionTyped
<1>7. CASE Complete
  BY <1>7, CompleteTyped
<1>8. CASE Cancel
  BY <1>8, CancelTyped
<1>9. CASE CleanUp
  BY <1>9, CleanUpTyped
<1>10. CASE Crash
  BY <1>10, CrashTyped
<1>11. CASE Shutdown
  <2>1. /\ finished' = "stop" /\ cmds' = Append(cmds, Command("delete", "cleanup", 0))
        /\ UNCHANGED <<sess, store, told, since, over, timer>> /\ UNCHANGED connVars
    BY <1>11 DEF Shutdown
  <2>2. cmds' \in Seq(CommandType)
    BY <2>1, Queues DEF Typed
  <2> QED
    BY <2>1, <2>2, ConnStays DEF Typed, SessionTyped
<1>12. ASSUME NEW a \in Flushes, Flush(a), UNCHANGED <<store, told, over, timer, finished>>
       PROVE  Typed'
  BY <1>12, FlushTyped DEF Rest, Flushes
<1> QED
  BY <1>1, <1>2, <1>3, <1>4, <1>5, <1>6, <1>7, <1>8, <1>9, <1>10, <1>11, <1>12 DEF Next, OfConnection

LEMMA BlankKept ==
  ASSUME Typed, Blank, Next, UNCHANGED world
  PROVE  Blank'
<1> SUFFICES ASSUME created' = "no" PROVE Blank'
  BY DEF Blank
<1>1. CASE created # "no"
  <2> USE <1>1
  <2> QED
    BY DEF Next, OfConnection, ConnStep, Connect, Open, Greet, Refuse, Close, OnClose, AfterDelay, Resume, Packed,
           Beat, Beaten, BeatTimeout, Receive, Parse, Send, Status, Complete, Cancel, CleanUp, Crash, Shutdown,
           Flush, connVars
<1>2. CASE created = "no"
  <2> USE <1>2
  <2>1. /\ ~conn.in /\ greeting = {} /\ \A i \in Sockets : sock[i] = "none"
        /\ \A a \in Attempts : att[a].at = "none"
        /\ \A t \in Tasks : task[t].at = "idle"
    BY DEF Blank
  <2>2. CASE UNCHANGED <<conn, greeting, sock, att, task>>
    BY <2>1, <2>2 DEF Blank
  <2>3. CASE ConnStep
    <3>1. ~Connect
      BY DEF Connect
    <3>2. \A i \in Sockets : ~Open(i) /\ ~Greet(i) /\ ~Refuse(i) /\ ~Close(i)
      BY <2>1 DEF Open, Greet, Refuse, Close
    <3>3. ~Beat /\ ~BeatTimeout /\ \A a \in Attempts : ~AfterDelay(a)
      BY <2>1 DEF Beat, BeatTimeout, AfterDelay
    <3>4. \A t \in Tasks : ~Resume(t) /\ ~Packed(t)
      BY <2>1 DEF Resume, Packed
    <3>5. Beaten
      BY <2>3, <3>1, <3>2, <3>3, <3>4 DEF ConnStep
    <3> QED
      BY <2>2, <3>5 DEF Beaten
  <2>4. ASSUME NEW r \in inbox, Parse(r) PROVE Blank'
    <3>1. conn'.in = conn.in /\ UNCHANGED <<greeting, sock, att, task>>
      BY <2>4 DEF Parse, Typed, ConnTyped, ConnType
    <3> QED
      BY <2>1, <3>1 DEF Blank
  <2>5. ASSUME NEW p \in Packets, Send(p) PROVE FALSE
    BY <2>5 DEF Send
  <2>6. ASSUME NEW i \in Sockets, NEW kind \in Kinds, Receive(i, kind) PROVE FALSE
    BY <2>1, <2>6 DEF Receive
  <2>7. CASE Complete \/ Cancel \/ CleanUp
    BY <2>1, <2>2, <2>7 DEF Complete, Cancel, CleanUp, Disconnect
  <2>8. ASSUME NEW a \in Flushes PROVE FALSE
    <3>1. PICK t \in Tasks : task[t].at = "next"
      BY <2>8 DEF Flushes, Tasks
    <3> QED
      BY <2>1, <3>1
  <2>9. ~Crash
    BY DEF Crash
  <2> QED
    BY <2>2, <2>3, <2>4, <2>5, <2>6, <2>7, <2>8, <2>9 DEF Next, OfConnection, Status, Shutdown, connVars
<1> QED
  BY <1>1, <1>2

AsrInv == Typed /\ Blank

LEMMA AsrInvHolds == Spec => []AsrInv
<1>1. Init => AsrInv
  BY InitTyped DEF AsrInv
<1>2. AsrInv /\ [Next /\ UNCHANGED world]_vars => AsrInv'
  <2> SUFFICES ASSUME AsrInv, [Next /\ UNCHANGED world]_vars PROVE AsrInv'
    OBVIOUS
  <2>1. CASE Next /\ UNCHANGED world
    BY <2>1, TypedKept, BlankKept DEF AsrInv
  <2>2. CASE UNCHANGED vars
    <3>1. UNCHANGED world /\ UNCHANGED sessionVars /\ UNCHANGED connVars
      BY <2>2 DEF vars
    <3>2. Typed'
      BY <3>1, ConnStays, SessionStays DEF AsrInv, Typed
    <3>3. Blank'
      BY <3>1 DEF AsrInv, Blank, connVars
    <3> QED
      BY <3>2, <3>3 DEF AsrInv
  <2> QED
    BY <2>1, <2>2
<1> QED
  BY <1>1, <1>2, PTL DEF Spec

\* Every variable of a session and its connection has its type: attempts stay
\* below MaxRetries, the buffer below BufferSize, and what is torn is a packet.
THEOREM AsrTyped == Spec => []AsrTypeOK
<1>1. AsrInv => AsrTypeOK
  <2> SUFFICES ASSUME Typed PROVE AsrTypeOK
    BY DEF AsrInv
  <2>1. \A k \in 1 .. Len(cmds) : cmds[k] \in CommandType
    BY DEF Typed, SessionTyped
  <2>2. SessionTypeOK
    BY <2>1 DEF SessionTypeOK, Typed, SessionTyped, SessionType, RecordType, CommandType
  <2>3. /\ conn.in \in BOOLEAN /\ conn.status \in Statuses \cup {"connecting"}
        /\ conn.ws \in Sockets /\ conn.retry \in 0 .. MaxRetries /\ Len(conn.pending) <= BufferSize
    BY DEF Typed, ConnTyped, ConnType
  <2>4. \A i \in Sockets : sock[i] \in SocketStates
    BY DEF Typed, ConnTyped
  <2>5. \A a \in Attempts : att[a] \in AttemptType
    BY DEF Typed, ConnTyped
  <2>6. \A t \in Tasks : task[t] \in TaskType
    BY DEF Typed, ConnTyped
  <2> QED
    BY <2>2, <2>3, <2>4, <2>5, <2>6 DEF AsrTypeOK, Typed, ConnTyped, SocketStates, AttemptType, TaskType
<1> QED
  BY <1>1, AsrInvHolds, PTL
-----------------------------------------------------------------------------
(* What a client has seen: steps of the connection that are about no text  *)

Quietly == UNCHANGED <<store, told, over, timer, cmds, since, inbox, spoken>>
Rested == {"idle", "done", "failed"}

LEMMA UnheardSeen ==
  ASSUME Typed, Seen, Unheard, Quietly, created' = created \/ (created # "done" /\ created' # "done"),
         conn.in \/ (greeting' = {} /\ sock' = sock), FirstSocket'
  PROVE  Seen'
<1>1. ~timer' /\ Unborn' /\ Recorded'
  BY DEF Seen, Unborn, Recorded, Unheard, Quietly
<1>2. Absent'
  BY DEF Seen, Absent, Unheard, Quietly
<1>3. Still'
  <2>1. CASE conn.in
    BY <2>1 DEF Still, Unheard
  <2>2. CASE ~conn.in
    BY <2>2 DEF Seen, Still, Unheard, Quietly, NoneAfterConn
  <2> QED
    BY <2>1, <2>2
<1>4. SavesGrow' /\ TextsGrow' /\ Reading'
  BY DEF Seen, SavesGrow, TextsGrow, Reading, Unheard, Quietly
<1> QED
  BY <1>1, <1>2, <1>3, <1>4 DEF Seen

\* The steps of sockets that break, open, are refused or replaced.
LEMMA OpenSeen ==
  ASSUME Typed, Seen, NEW i \in Sockets, Open(i), UNCHANGED Rest
  PROVE  Seen'
<1>1. /\ sock[i] = "connecting" /\ sock' = [sock EXCEPT ![i] = "open"] /\ greeting' = greeting \cup {i}
      /\ UNCHANGED <<created, sess, cmds, since, conn, att, task, inbox, spoken, beats, torn>>
  BY DEF Open
<1>2. conn.in
  BY <1>1 DEF Seen, Still
<1>3. FirstSocket'
  BY <1>1, Numbers DEF Seen, FirstSocket, Typed, ConnTyped
<1> QED
  BY <1>1, <1>2, <1>3, UnheardSeen DEF Unheard, NoneAfterConn, Quietly, Rest

LEMMA AfterDelaySeen ==
  ASSUME Typed, Seen, NEW a \in Attempts, AfterDelay(a), UNCHANGED Rest
  PROVE  Seen'
<1>1. /\ att[a].at = "waiting" /\ (sock' = sock \/ sock' = [sock EXCEPT ![a] = "connecting"])
      /\ UNCHANGED <<created, sess, cmds, since, conn, task, greeting, inbox, spoken, beats, torn>>
  BY DEF AfterDelay
<1>2. conn.in
  BY <1>1 DEF Seen, Still
<1>3. FirstSocket'
  <2>1. a # 0 /\ 0 \in Sockets
    BY Numbers DEF Attempts
  <2> QED
    BY <1>1, <2>1 DEF Seen, FirstSocket, Typed, ConnTyped
<1> QED
  BY <1>1, <1>2, <1>3, UnheardSeen DEF Unheard, NoneAfterConn, Quietly, Rest

LEMMA BeatSeen ==
  ASSUME Typed, Seen, Beat \/ Beaten \/ BeatTimeout, UNCHANGED Rest
  PROVE  Seen'
<1>1. CASE Beat \/ Beaten
  <2>1. UNCHANGED <<created, sess, cmds, since, conn, sock, att, task, greeting, inbox, spoken, torn>>
    BY <1>1 DEF Beat, Beaten
  <2>2. FirstSocket' /\ (conn.in \/ greeting' = {})
    BY <2>1 DEF Seen, FirstSocket, Still
  <2> QED
    BY <2>1, <2>2, UnheardSeen DEF Unheard, NoneAfterConn, Quietly, Rest
<1>2. CASE BeatTimeout
  <2>1. /\ conn.in /\ conn' = [conn EXCEPT !.status = "error"]
        /\ sock' = [sock EXCEPT ![conn.ws] = IF @ = "open" THEN "dropping" ELSE @]
        /\ UNCHANGED <<created, sess, cmds, since, att, task, greeting, inbox, spoken>>
    BY <1>2 DEF BeatTimeout
  <2>2. conn'.in = conn.in /\ conn'.text = conn.text
    BY <2>1 DEF Typed, ConnTyped, ConnType
  <2>3. FirstSocket'
    BY <2>1, Numbers DEF Seen, FirstSocket, Typed, ConnTyped
  <2> QED
    BY <2>1, <2>2, <2>3, UnheardSeen DEF Unheard, NoneAfterConn, Quietly, Rest
<1> QED
  BY <1>1, <1>2

LEMMA CloseSeen ==
  ASSUME Typed, Seen, NEW i \in Sockets, Close(i), UNCHANGED Rest
  PROVE  Seen'
<1>1. /\ sock[i] \in {"open", "failed", "dropping", "closing"} /\ sock' = [sock EXCEPT ![i] = "closed"]
      /\ UNCHANGED <<created, cmds, since, task, greeting, inbox, spoken>>
  BY DEF Close, OnClose
<1>2. conn.in
  BY <1>1 DEF Seen, Still
<1>3. FirstSocket'
  BY <1>1, Numbers DEF Seen, FirstSocket, Typed, ConnTyped
<1>4. Unheard
  BY CloseTyped
<1> QED
  BY <1>1, <1>2, <1>3, <1>4, UnheardSeen DEF Quietly, Rest

LEMMA RefuseSeen ==
  ASSUME Typed, Seen, NEW i \in Sockets, Refuse(i), UNCHANGED Rest
  PROVE  Seen'
<1>1. /\ sock[i] = "connecting" /\ sock' = [sock EXCEPT ![i] = "failed"]
      /\ IF i = 0 THEN created' = "failed" ELSE created' = created
      /\ UNCHANGED <<cmds, since, task, greeting, inbox, spoken>>
  BY DEF Refuse
<1>2. conn.in
  BY <1>1 DEF Seen, Still
<1>3. created' = created \/ (created # "done" /\ created' # "done")
  BY <1>1 DEF Seen, FirstSocket
<1>4. FirstSocket'
  BY <1>1, Numbers DEF Seen, FirstSocket, Typed, ConnTyped
<1>5. Unheard
  BY RefuseTyped
<1> QED
  BY <1>1, <1>2, <1>3, <1>4, <1>5, UnheardSeen DEF Quietly, Rest

LEMMA GreetSeen ==
  ASSUME Typed, Seen, NEW i \in Sockets, Greet(i), UNCHANGED Rest
  PROVE  Seen'
<1>1. /\ i \in greeting /\ greeting' = greeting \ {i}
      /\ UNCHANGED <<cmds, since, sock, inbox, spoken>>
  BY DEF Greet
<1>2. conn.in
  BY <1>1 DEF Seen, Still
<1>3. CASE i # 0
  <2>1. created' = created
    BY <1>3 DEF Greet
  <2>2. FirstSocket'
    BY <1>1, <2>1 DEF Seen, FirstSocket
  <2>3. Unheard
    BY <1>3, GreetTyped
  <2> QED
    BY <1>1, <1>2, <2>1, <2>2, <2>3, UnheardSeen DEF Quietly, Rest
<1>4. CASE i = 0
  <2>1. /\ conn' = [conn EXCEPT !.status = "connected", !.retry = 0]
        /\ created' = IF created = "pending" THEN "done" ELSE created
        /\ sess' = IF created = "pending" THEN [in |-> TRUE, status |-> "connected", text |-> 0] ELSE Connected(sess)
        /\ UNCHANGED <<att, task>>
    BY <1>4 DEF Greet
  <2>2. conn'.in = conn.in /\ conn'.text = conn.text
    BY <2>1 DEF Typed, ConnTyped, ConnType
  <2>3. FirstSocket'
    BY <1>1, <1>4 DEF Seen, FirstSocket
  <2>4. CASE created # "pending"
    <3>1. sess'.in = sess.in /\ sess'.text = sess.text
      BY <2>1, <2>4, Callbacks DEF Typed, SessionTyped
    <3> QED
      BY <1>1, <1>2, <2>1, <2>2, <2>3, <2>4, <3>1, UnheardSeen DEF Unheard, NoneAfterConn, Quietly, Rest
  <2>5. CASE created = "pending"
    <3>1. sess'.in /\ sess'.text = 0 /\ created' = "done"
      BY <2>1, <2>5
    <3>2. ~sess.in /\ store = None /\ told = 0 /\ \A k \in DOMAIN cmds : cmds[k].op = "get"
      BY <2>5 DEF Seen, Unborn, Absent
    <3>3. UNCHANGED <<store, told, over, timer, cmds, since, inbox, spoken>>
      BY <1>1 DEF Rest
    <3>4. ~timer' /\ Unborn' /\ Absent' /\ Still' /\ Recorded'
      BY <1>2, <2>2, <3>1, <3>2, <3>3 DEF Seen, Unborn, Absent, Still, Recorded
    <3>5. SavesGrow' /\ Reading'
      BY <3>2, <3>3, <1>2 DEF Seen, SavesGrow, Reading
    <3>6. TextsGrow'
      <4>1. conn.text \in Nat
        BY Numbers DEF Typed, ConnTyped, ConnType
      <4> QED
        BY <2>2, <3>1, <3>2, <3>3, <4>1 DEF Seen, TextsGrow
    <3> QED
      BY <2>3, <3>4, <3>5, <3>6 DEF Seen
  <2> QED
    BY <2>4, <2>5
<1> QED
  BY <1>3, <1>4

LEMMA ConnectSeen ==
  ASSUME Typed, Blank, Seen, Connect, UNCHANGED Rest
  PROVE  Seen'
<1>1. /\ created = "no" /\ created' = "pending" /\ sock' = [sock EXCEPT ![0] = "connecting"]
      /\ conn' = [NoConn EXCEPT !.in = TRUE, !.status = "connecting"]
      /\ UNCHANGED <<sess, cmds, since, att, task, greeting, inbox, spoken>>
  BY DEF Connect
<1>2. conn'.in /\ conn'.text = 0
  BY <1>1 DEF NoConn
<1>3. UNCHANGED <<store, told, over, timer>>
  BY DEF Rest
<1>4. ~sess.in /\ store = None /\ told = 0 /\ greeting = {}
  BY <1>1 DEF Seen, Unborn, Blank
<1>5. ~timer' /\ Unborn' /\ Absent' /\ Still' /\ FirstSocket' /\ Recorded'
  BY <1>1, <1>2, <1>3, <1>4 DEF Seen, Unborn, Absent, Still, FirstSocket, Recorded
<1>6. SavesGrow' /\ Reading'
  BY <1>1, <1>2, <1>3, <1>4 DEF Seen, SavesGrow, Reading
<1>7. TextsGrow'
  <2>1. spoken \in Nat /\ \A r \in inbox : r.n \in 1 .. MaxText
    BY Numbers DEF Typed, ConnTyped, MessageType
  <2>2. inbox \subseteq MessageType
    BY DEF Typed, ConnTyped
  <2> QED
    BY <1>1, <1>2, <1>3, <1>4, <2>1, <2>2, Numbers DEF Seen, TextsGrow
<1> QED
  BY <1>5, <1>6, <1>7 DEF Seen

LEMMA FlushSeen ==
  ASSUME Typed, Seen, NEW i \in Attempts, Flush(i), UNCHANGED Rest
  PROVE  Seen'
<1>1. Unheard /\ UNCHANGED <<cmds, since>>
  BY FlushTyped
<1>2. UNCHANGED <<created, sock, greeting, inbox, spoken>>
  BY DEF Flush
<1>3. FirstSocket' /\ (conn.in \/ greeting' = {})
  BY <1>2 DEF Seen, FirstSocket, Still
<1> QED
  BY <1>1, <1>2, <1>3, UnheardSeen DEF Quietly, Rest
-----------------------------------------------------------------------------
(* What a client has seen: steps that save, read and tell                  *)

\* A record of the entry in memory is queued behind the other saves.
LEMMA SaveSeen ==
  ASSUME Typed, Seen, sess.in, NEW s \in SessionType, NEW then \in {"none", "tell"}, NEW text \in 0 .. MaxText,
         s.text >= sess.text, text \in {0, s.text}, cmds' = Save(s, then, text),
         sess'.in, sess'.text = s.text, UNCHANGED <<store, told>>
  PROVE  SavesGrow' /\ Reading'
<1> DEFINE k == [op |-> "save", then |-> then, text |-> text, of |-> s]
<1>1. cmds' = Append(cmds, k) /\ cmds \in Seq(CommandType)
  BY Queued DEF Typed, SessionTyped
<1>2. k \in CommandType /\ k.op = "save" /\ k.of.text = s.text /\ k.text \in {0, k.of.text}
  BY DEF CommandType
<1>3. s.text \in Nat /\ sess.text \in Nat /\ told \in Nat /\ told <= sess.text
  BY Numbers DEF Typed, SessionTyped, SessionType, Seen, TextsGrow
<1>4. \A j \in DOMAIN cmds : cmds[j] \in CommandType /\ cmds[j].of.text \in Nat
  <2>1. \A c \in CommandType : c.of.text \in Nat
    BY Numbers DEF CommandType, SessionType
  <2>2. \A j \in DOMAIN cmds : cmds[j] \in CommandType
    BY <1>1
  <2> QED
    BY <2>1, <2>2
<1> HIDE DEF k
<1>5. /\ DOMAIN cmds = 1 .. Len(cmds) /\ DOMAIN cmds' = 1 .. Len(cmds) + 1 /\ Len(cmds) \in Nat
      /\ cmds'[Len(cmds) + 1] = k /\ \A j \in DOMAIN cmds : cmds'[j] = cmds[j]
  BY <1>1, <1>2
<1>6. \A j \in DOMAIN cmds' : j \in DOMAIN cmds \/ (j = Len(cmds) + 1 /\ cmds'[j] = k)
  BY <1>5
<1>7. SavesGrow'
  <2>1. ASSUME NEW j \in DOMAIN cmds', cmds'[j].op = "save"
        PROVE  /\ told' <= cmds'[j].of.text /\ cmds'[j].of.text <= sess'.text
               /\ cmds'[j].then = "tell" => cmds'[j].text \in {0, cmds'[j].of.text}
    <3>1. CASE j \in DOMAIN cmds
      BY <1>3, <1>4, <1>5, <2>1, <3>1 DEF Seen, SavesGrow
    <3>2. CASE cmds'[j] = k
      BY <1>2, <1>3, <3>2
    <3> QED
      BY <1>6, <3>1, <3>2
  <2>2. ASSUME NEW i \in DOMAIN cmds', NEW j \in DOMAIN cmds', i < j, cmds'[i].op = "save", cmds'[j].op = "save"
        PROVE  cmds'[i].of.text <= cmds'[j].of.text
    <3>1. i \in DOMAIN cmds
      BY <1>5, <2>2
    <3>2. CASE j \in DOMAIN cmds
      BY <1>5, <2>2, <3>1, <3>2 DEF Seen, SavesGrow
    <3>3. CASE cmds'[j] = k
      <4>1. cmds[i].of.text <= sess.text /\ cmds[i].of.text \in Nat
        BY <1>4, <1>5, <2>2, <3>1 DEF Seen, SavesGrow
      <4> QED
        BY <1>2, <1>3, <1>5, <3>1, <3>3, <4>1
    <3> QED
      BY <1>6, <3>2, <3>3
  <2> QED
    BY <2>1, <2>2 DEF SavesGrow
<1>8. Reading'
  <2>1. ASSUME NEW j \in DOMAIN cmds'
        PROVE  /\ cmds'[j].op # "delete"
               /\ cmds'[j].op = "get" => j = 1 /\ store' = None /\ told' = 0
    <3>1. CASE j \in DOMAIN cmds
      BY <1>5, <3>1 DEF Seen, Reading
    <3>2. CASE cmds'[j] = k
      BY <1>2, <3>2
    <3> QED
      BY <1>6, <3>1, <3>2
  <2> QED
    BY <2>1 DEF Reading
<1> QED
  BY <1>7, <1>8

\* A run of sendAudio; that of a packet is one of a session in memory.
LEMMA RanSeen ==
  ASSUME Typed, Seen, NEW t \in Tasks, Ran(t), IsPacket(t) => sess.in, UNCHANGED Rest, UNCHANGED Wires
  PROVE  Seen'
<1>1. /\ sess'.in = sess.in /\ sess'.text = sess.text /\ conn'.in = conn.in /\ conn'.text = conn.text
      /\ NoneAfterConn /\ \A u \in Tasks \ {t} : task'[u] = task[u]
  BY DEF Ran
<1>2. UNCHANGED <<store, told, over, timer, inbox, spoken, created, sock, greeting>>
  BY DEF Rest, Wires
<1>3. ~timer' /\ Unborn' /\ Still' /\ FirstSocket' /\ TextsGrow'
  BY <1>1, <1>2 DEF Seen, Unborn, Still, FirstSocket, TextsGrow, NoneAfterConn
<1>4. CASE cmds' = cmds /\ since' = since
  <2>1. SavesGrow' /\ Reading' /\ Recorded'
    BY <1>1, <1>2, <1>4 DEF Seen, SavesGrow, Reading, Recorded
  <2>2. Absent'
    <3>1. CASE sess.in
      BY <1>1, <3>1 DEF Absent
    <3>2. CASE ~sess.in
      <4>1. \A p \in Packets : <<"packet", p>> \in Tasks \ {t}
        BY <3>2, TaskKinds DEF Tasks, IsPacket
      <4> QED
        BY <1>1, <1>2, <1>4, <3>2, <4>1 DEF Seen, Absent
    <3> QED
      BY <3>1, <3>2
  <2> QED
    BY <1>3, <2>1, <2>2 DEF Seen
<1>5. CASE IsPacket(t) /\ cmds' = Save(sess, "none", 0) /\ since' = "now"
  <2>1. sess.in /\ sess'.in
    BY <1>1, <1>5
  <2>2. sess \in SessionType /\ "none" \in {"none", "tell"} /\ 0 \in 0 .. MaxText /\ sess.text >= sess.text
    BY Numbers DEF Typed, SessionTyped, SessionType
  <2>3. SavesGrow' /\ Reading'
    BY <1>1, <1>2, <1>5, <2>1, <2>2, SaveSeen
  <2>4. Absent' /\ Recorded'
    BY <1>2, <2>1 DEF Seen, Absent, Recorded
  <2> QED
    BY <1>3, <2>3, <2>4 DEF Seen
<1> QED
  BY <1>4, <1>5 DEF Ran

LEMMA PacketSeen ==
  ASSUME Typed, Seen, NEW t \in Tasks, Resume(t) \/ Packed(t), UNCHANGED Rest
  PROVE  Seen'
<1>1. Ran(t) /\ UNCHANGED Wires
  BY ResumeRuns, PackedRuns
<1>2. task[t].at \in {"awaiting", "packing"}
  BY DEF Resume, Packed
<1>3. IsPacket(t) => sess.in
  <2> SUFFICES ASSUME IsPacket(t), ~sess.in PROVE FALSE
    OBVIOUS
  <2>1. PICK p \in Packets : t = <<"packet", p>>
    BY TaskKinds
  <2> QED
    BY <1>2, <2>1 DEF Seen, Absent
<1> QED
  BY <1>1, <1>3, RanSeen

LEMMA SendSeen ==
  ASSUME Typed, Seen, NEW p \in Packets, Send(p), UNCHANGED Rest
  PROVE  Seen'
<1> DEFINE t == <<"packet", p>>
<1>1. t \in Tasks /\ Ran(t) /\ UNCHANGED Wires
  BY SendRuns DEF Tasks
<1>2. CASE sess.in
  BY <1>1, <1>2, RanSeen
<1>3. CASE ~sess.in
  <2>1. task' = [task EXCEPT ![t].at = "failed"] /\ UNCHANGED <<sess, cmds, since, conn, att>>
    BY <1>3 DEF Send
  <2>2. UNCHANGED <<created, sock, greeting, inbox, spoken>>
    BY DEF Send
  <2>3. task'[t].at = "failed" /\ \A u \in Tasks \ {t} : task'[u] = task[u]
    BY <1>1, <2>1 DEF Typed, ConnTyped, TaskType
  <2> HIDE DEF t
  <2>4. ~timer' /\ Unborn' /\ Still' /\ FirstSocket' /\ SavesGrow' /\ TextsGrow' /\ Reading' /\ Recorded'
    BY <2>1, <2>2 DEF Rest, Seen, Unborn, Still, FirstSocket, SavesGrow, TextsGrow, Reading, Recorded
  <2>5. \A q \in Packets : <<"packet", q>> \in Tasks
    BY DEF Tasks
  <2>6. Absent'
    BY <2>1, <2>2, <2>3, <2>5 DEF Seen, Absent
  <2> QED
    BY <2>4, <2>6 DEF Seen
<1> QED
  BY <1>2, <1>3

LEMMA ReceiveSeen ==
  ASSUME Typed, Seen, NEW i \in Sockets, NEW kind \in Kinds, Receive(i, kind), UNCHANGED <<world, store, over, timer, finished>>
  PROVE  Seen'
<1> DEFINE r == [on |-> i, n |-> spoken + 1, text |-> IF kind \in {"text", "final"} THEN spoken + 1 ELSE 0,
                 final |-> kind \in {"final", "refusal"}, bad |-> kind = "bad"]
<1>1. /\ sock[i] \in {"open", "closing", "dropping"} /\ spoken' = spoken + 1 /\ inbox' = inbox \cup {r}
      /\ UNCHANGED <<created, sess, cmds, since, told, conn, sock, att, task, greeting>>
  BY DEF Receive
<1>2. conn.in
  BY <1>1 DEF Seen, Still
<1>3. r.n = spoken + 1 /\ r.text \in {0, r.n}
  OBVIOUS
<1> HIDE DEF r
<1>4. ~timer' /\ Unborn' /\ Absent' /\ Still' /\ FirstSocket' /\ SavesGrow' /\ Reading' /\ Recorded'
  BY <1>1, <1>2 DEF Seen, Unborn, Absent, Still, FirstSocket, SavesGrow, Reading, Recorded
<1>5. TextsGrow'
  <2>1. spoken \in Nat /\ conn.text \in Nat /\ \A q \in inbox : q.n \in Nat
    BY Numbers DEF Typed, ConnTyped, ConnType, MessageType
  <2>2. \A q \in inbox : q.n < r.n
    BY <1>3, <2>1 DEF Seen, TextsGrow
  <2>3. conn.text <= spoken /\ \A q \in inbox : conn.text < q.n /\ q.n <= spoken /\ q.text \in {0, q.n}
    BY DEF Seen, TextsGrow
  <2>4. \A q \in inbox' : conn'.text < q.n /\ q.n <= spoken' /\ q.text \in {0, q.n}
    BY <1>1, <1>3, <2>1, <2>3
  <2>5. \A x, y \in inbox' : x.n = y.n => x = y
    BY <1>1, <1>3, <2>1, <2>2 DEF Seen, TextsGrow
  <2>6. (sess.in => told <= sess.text /\ (conn.in => sess.text <= conn.text))'
    BY <1>1 DEF Seen, TextsGrow
  <2>7. conn'.text <= spoken'
    BY <1>1, <2>1, <2>3
  <2> QED
    BY <2>4, <2>5, <2>6, <2>7 DEF TextsGrow
<1> QED
  BY <1>4, <1>5 DEF Seen

\* A result that is unpacked is later than any that was, and than any text.
LEMMA ParseSeen ==
  ASSUME Typed, Seen, Steady, NEW r \in inbox, Parse(r), UNCHANGED <<world, store, over, timer, finished>>
  PROVE  Seen'
<1>1. /\ inbox' = inbox \ {r} /\ \A q \in inbox : r.n <= q.n
      /\ UNCHANGED <<created, sock, att, task, greeting, spoken>>
  BY DEF Parse, Steady
<1>2. conn.in
  BY DEF Seen, Still
<1>3. /\ r \in MessageType /\ r.n \in Nat /\ r.text \in Nat /\ r.text \in 0 .. MaxText
      /\ conn.text \in Nat /\ spoken \in Nat /\ \A q \in inbox : q.n \in Nat
  <2>1. inbox \subseteq MessageType /\ conn.text \in 0 .. MaxText /\ spoken \in 0 .. MaxText
    BY DEF Typed, ConnTyped, ConnType
  <2> QED
    BY <2>1, Numbers DEF MessageType
<1>4. conn.text < r.n /\ r.n <= spoken /\ r.text \in {0, r.n} /\ \A q \in inbox' : r.n < q.n
  <2>1. ASSUME NEW q \in inbox' PROVE r.n < q.n
    <3>1. q \in inbox /\ q # r /\ r.n <= q.n
      BY <1>1
    <3>2. r.n # q.n
      BY <3>1 DEF Seen, TextsGrow
    <3> QED
      BY <1>3, <3>1, <3>2
  <2> QED
    BY <2>1 DEF Seen, TextsGrow
<1>5. conn'.in /\ conn'.text \in Nat /\ conn.text <= conn'.text /\ conn'.text <= r.n
  <2>1. CASE r.bad
    BY <1>2, <1>3, <1>4, <2>1 DEF Parse
  <2>2. CASE ~r.bad
    <3>1. conn' = [conn EXCEPT !.text = IF r.text > 0 THEN r.text ELSE @,
                               !.status = IF r.final THEN "completed" ELSE "streaming"]
      BY <2>2 DEF Parse
    <3>2. conn'.in = conn.in /\ conn'.text = IF r.text > 0 THEN r.text ELSE conn.text
      BY <3>1 DEF Typed, ConnTyped, ConnType
    <3> QED
      BY <1>2, <1>3, <1>4, <3>2
  <2> QED
    BY <2>1, <2>2
<1>6. \* What becomes of the session.
      /\ sess'.in = sess.in /\ told' = told /\ UNCHANGED <<store, over, timer>>
      /\ \/ cmds' = cmds /\ sess'.text = sess.text /\ since' = since
         \/ /\ sess.in /\ ~r.bad /\ sess' \in SessionType /\ since' = "now" /\ cmds' = Save(sess', "tell", r.text)
            /\ sess'.text = IF r.text > 0 THEN r.text ELSE sess.text
  <2>1. CASE r.bad
    BY <2>1, Callbacks DEF Parse, Typed, SessionTyped
  <2>2. CASE ~r.bad /\ ~sess.in
    BY <2>2 DEF Parse, HandleResult
  <2>3. CASE ~r.bad /\ sess.in
    <3>1. HandleResult(r)
      BY <2>3 DEF Parse
    <3>2. /\ sess' = Resulted(sess, r) /\ since' = "now" /\ told' = told /\ cmds' = Save(sess', "tell", r.text)
      BY <2>3, <3>1 DEF HandleResult
    <3>3. sess' \in SessionType
      BY <1>3, <3>1, ResultTyped
    <3>4. sess'.in = sess.in /\ sess'.text = IF r.text > 0 THEN r.text ELSE sess.text
      BY <3>2 DEF Resulted, Typed, SessionTyped, SessionType
    <3> QED
      BY <2>3, <3>2, <3>3, <3>4
  <2> QED
    BY <2>1, <2>2, <2>3
<1>7. ~timer' /\ Unborn' /\ Still' /\ FirstSocket'
  BY <1>1, <1>5, <1>6 DEF Seen, Unborn, Still, FirstSocket
<1>8. CASE cmds' = cmds /\ sess'.text = sess.text /\ since' = since
  <2>1. Absent' /\ SavesGrow' /\ Reading' /\ Recorded'
    BY <1>1, <1>2, <1>5, <1>6, <1>8 DEF Seen, Absent, SavesGrow, Reading, Recorded
  <2>2. sess.in => told <= sess.text /\ sess.text <= conn.text
    BY <1>2 DEF Seen, TextsGrow
  <2>3. sess.text \in Nat
    BY Numbers DEF Typed, SessionTyped, SessionType
  <2>4. TextsGrow'
    BY <1>1, <1>3, <1>4, <1>5, <1>6, <1>8, <2>2, <2>3 DEF Seen, TextsGrow
  <2> QED
    BY <1>7, <2>1, <2>4 DEF Seen
<1>9. CASE /\ sess.in /\ ~r.bad /\ sess' \in SessionType /\ since' = "now" /\ cmds' = Save(sess', "tell", r.text)
           /\ sess'.text = IF r.text > 0 THEN r.text ELSE sess.text
  <2>1. told <= sess.text /\ sess.text <= conn.text /\ sess.text \in Nat /\ told \in Nat
    BY <1>2, <1>9, Numbers DEF Seen, TextsGrow, Typed, SessionTyped, SessionType
  <2>2. conn'.text = IF r.text > 0 THEN r.text ELSE conn.text
    BY <1>9 DEF Parse, Typed, ConnTyped, ConnType
  <2>3. PICK s \in SessionType : s = sess'
    BY <1>9
  <2>4. s.text >= sess.text /\ told <= s.text /\ s.text <= conn'.text /\ s.text \in Nat
    BY <1>3, <1>4, <1>9, <2>1, <2>2, <2>3
  <2>5. SavesGrow' /\ Reading'
    <3>1. CASE r.text > 0
      <4>1. r.text \in {0, s.text}
        BY <1>9, <2>3, <3>1
      <4> QED
        BY <1>3, <1>6, <1>9, <2>3, <2>4, <4>1, SaveSeen
    <3>2. CASE ~(r.text > 0)
      <4>1. r.text = 0
        BY <1>3, <3>2
      <4> QED
        BY <1>3, <1>6, <1>9, <2>3, <2>4, <4>1, SaveSeen
    <3> QED
      BY <3>1, <3>2
  <2>6. TextsGrow'
    BY <1>1, <1>3, <1>4, <1>5, <1>6, <2>3, <2>4 DEF Seen, TextsGrow
  <2>7. Absent' /\ Recorded'
    BY <1>6, <1>9 DEF Seen, Absent, Recorded
  <2> QED
    BY <1>7, <2>5, <2>6, <2>7 DEF Seen
<1> QED
  BY <1>6, <1>8, <1>9

\* Redis has answered the first command.
LEMMA TailOf ==
  ASSUME SessionTyped, cmds # <<>>, cmds' = Tail(cmds)
  PROVE  /\ 1 \in DOMAIN cmds /\ Head(cmds) = cmds[1]
         /\ \A k \in DOMAIN cmds' : /\ k + 1 \in DOMAIN cmds /\ k + 1 > 1 /\ cmds'[k] = cmds[k + 1]
                                    /\ \A j \in DOMAIN cmds' : j < k => j + 1 < k + 1
         /\ Len(cmds) = 1 => cmds' = <<>>
BY DEF SessionTyped

LEMMA SavedSeen ==
  ASSUME Typed, Seen, Steady, Saved, UNCHANGED connVars, UNCHANGED world
  PROVE  Seen'
<1> DEFINE h == Head(cmds)
<1>1. /\ cmds # <<>> /\ h \in CommandType /\ cmds' = Tail(cmds) /\ h = cmds[1] /\ h.op = "save" /\ 1 \in DOMAIN cmds
      /\ \A k \in DOMAIN cmds' : /\ k + 1 \in DOMAIN cmds /\ k + 1 > 1 /\ cmds'[k] = cmds[k + 1]
                                 /\ \A j \in DOMAIN cmds' : j < k => j + 1 < k + 1
  BY Answers, TailOf DEF Saved, Typed
<1>2. /\ store' = [text |-> h.of.text, status |-> h.of.status]
      /\ told' = IF h.then = "tell" /\ h.text > 0 THEN h.text ELSE told
      /\ UNCHANGED <<sess, since, over, timer, finished>>
  BY DEF Saved, Steady
<1>3. h.of.text \in Nat /\ h.of.status \in Statuses /\ sess.text \in Nat
  BY <1>1, Numbers DEF CommandType, SessionType, Typed, SessionTyped
<1>4. store' # None /\ store'.text = h.of.text
  <2>1. [text |-> h.of.text, status |-> h.of.status] \in [text : Nat, status : Statuses]
    BY <1>3
  <2> QED
    BY <1>2, <2>1, SessionAssumption
<1> HIDE DEF h
<1>5. told \in Nat /\ told <= h.of.text /\ h.of.text <= sess.text /\ (h.then = "tell" => h.text \in {0, h.of.text})
  BY <1>1, Numbers DEF Seen, SavesGrow, Typed, SessionTyped
<1>6. told' \in {told, h.of.text} /\ told' <= h.of.text
  BY <1>2, <1>3, <1>5
<1>7. sess.in /\ created = "done"
  BY <1>1 DEF Seen, Absent, Unborn
<1>8. UNCHANGED <<created, conn, sock, att, task, greeting, inbox, spoken>>
  BY DEF connVars
<1>9. ~timer' /\ Unborn' /\ Absent' /\ Still' /\ FirstSocket'
  BY <1>2, <1>7, <1>8 DEF Seen, Unborn, Absent, Still, FirstSocket
<1>10. SavesGrow'
  <2>1. ASSUME NEW k \in DOMAIN cmds', cmds'[k].op = "save"
        PROVE  /\ told' <= cmds'[k].of.text /\ cmds'[k].of.text <= sess'.text
               /\ cmds'[k].then = "tell" => cmds'[k].text \in {0, cmds'[k].of.text}
    <3>1. told <= cmds[k + 1].of.text /\ h.of.text <= cmds[k + 1].of.text
      BY <1>1, <2>1 DEF Seen, SavesGrow
    <3> QED
      BY <1>1, <1>2, <1>6, <2>1, <3>1 DEF Seen, SavesGrow
  <2>2. ASSUME NEW j \in DOMAIN cmds', NEW k \in DOMAIN cmds', j < k, cmds'[j].op = "save", cmds'[k].op = "save"
        PROVE  cmds'[j].of.text <= cmds'[k].of.text
    BY <1>1, <2>2 DEF Seen, SavesGrow
  <2> QED
    BY <2>1, <2>2 DEF SavesGrow
<1>11. TextsGrow'
  <2>1. told' <= sess.text
    BY <1>3, <1>5, <1>6
  <2> QED
    BY <1>2, <1>8, <2>1 DEF Seen, TextsGrow
<1>12. Reading'
  <2>1. ASSUME NEW k \in DOMAIN cmds' PROVE cmds'[k].op # "delete" /\ cmds'[k].op # "get"
    BY <1>1 DEF Seen, Reading
  <2> QED
    BY <2>1 DEF Reading
<1>13. Recorded'
  BY <1>3, <1>4, <1>5, <1>6 DEF Recorded
<1> QED
  BY <1>9, <1>10, <1>11, <1>12, <1>13 DEF Seen

LEMMA RestoredSeen ==
  ASSUME Typed, Seen, Steady, Restored, UNCHANGED connVars, UNCHANGED world
  PROVE  Seen'
<1>1. /\ cmds # <<>> /\ cmds' = Tail(cmds) /\ cmds[1].op = "get" /\ 1 \in DOMAIN cmds
      /\ \A k \in DOMAIN cmds' : /\ k + 1 \in DOMAIN cmds /\ k + 1 > 1 /\ cmds'[k] = cmds[k + 1]
                                 /\ \A j \in DOMAIN cmds' : j < k => j + 1 < k + 1
      /\ Len(cmds) = 1 => cmds' = <<>>
  BY Answers, TailOf DEF Restored, Typed
<1>2. /\ sess' = IF store = None THEN sess ELSE [in |-> TRUE, status |-> store.status, text |-> store.text]
      /\ UNCHANGED <<store, told, since, over, timer, finished>>
  BY DEF Restored, Steady
<1>3. UNCHANGED <<created, conn, sock, att, task, greeting, inbox, spoken>>
  BY DEF connVars
<1>4. \A k \in DOMAIN cmds' : cmds'[k].op # "delete" /\ cmds'[k].op # "get"
  BY <1>1 DEF Seen, Reading
<1>5. Reading'
  BY <1>4 DEF Reading
<1>6. CASE store = None
  <2>1. sess' = sess
    BY <1>2, <1>6
  <2>2. ~timer' /\ Unborn' /\ Still' /\ FirstSocket' /\ TextsGrow' /\ Recorded'
    BY <1>2, <1>3, <2>1 DEF Seen, Unborn, Still, FirstSocket, TextsGrow, Recorded
  <2>3. Absent'
    BY <1>1, <1>2, <1>3, <2>1 DEF Seen, Absent
  <2>4. SavesGrow'
    <3>1. \A k \in DOMAIN cmds' : cmds'[k].op = "save" =>
            /\ told' <= cmds'[k].of.text /\ cmds'[k].of.text <= sess'.text
            /\ cmds'[k].then = "tell" => cmds'[k].text \in {0, cmds'[k].of.text}
      BY <1>1, <1>2, <2>1 DEF Seen, SavesGrow
    <3>2. ASSUME NEW j \in DOMAIN cmds', NEW k \in DOMAIN cmds', j < k, cmds'[j].op = "save", cmds'[k].op = "save"
          PROVE  cmds'[j].of.text <= cmds'[k].of.text
      BY <1>1, <3>2 DEF Seen, SavesGrow
    <3> QED
      BY <3>1, <3>2 DEF SavesGrow
  <2> QED
    BY <1>5, <2>2, <2>3, <2>4 DEF Seen
<1>7. CASE store # None
  <2>1. Len(cmds) = 1 /\ ~sess.in /\ ~conn.in
    BY <1>1, <1>7 DEF Seen, Reading
  <2>2. cmds' = <<>> /\ sess'.in /\ sess'.text = store.text
    BY <1>1, <1>2, <1>7, <2>1
  <2>3. told <= store.text /\ created = "done"
    <3>1. store.text \in Nat /\ told \in Nat
      BY <1>7, Numbers DEF Typed, SessionTyped, RecordType
    <3> QED
      BY <1>7, <3>1 DEF Seen, Recorded, Unborn
  <2>4. ~timer' /\ Unborn' /\ Absent' /\ Still' /\ FirstSocket' /\ SavesGrow' /\ Recorded'
    BY <1>2, <1>3, <1>7, <2>2, <2>3 DEF Seen, Unborn, Absent, Still, FirstSocket, SavesGrow, Recorded
  <2>5. TextsGrow'
    BY <1>2, <1>3, <2>1, <2>2, <2>3 DEF Seen, TextsGrow
  <2> QED
    BY <1>5, <2>4, <2>5 DEF Seen
<1> QED
  BY <1>6, <1>7

LEMMA AloneSeen ==
  ASSUME Typed, Seen, Steady, Alone, finished' = "no", UNCHANGED connVars, UNCHANGED world
  PROVE  Seen'
<1>1. UNCHANGED <<created, conn, sock, att, task, greeting, inbox, spoken>>
  BY DEF connVars
<1>2. CASE Saved
  BY <1>2, SavedSeen
<1>3. CASE Restored
  BY <1>3, RestoredSeen
<1>4. ~Completed /\ ~CleanupTimer /\ ~Sweep
  <2>1. ~Completed
    <3> SUFFICES ASSUME Completed PROVE FALSE
      OBVIOUS
    <3>1. Answered("delete")
      BY DEF Completed, Forgotten
    <3>2. cmds # <<>> /\ Head(cmds) = cmds[1] /\ Head(cmds).op = "delete" /\ cmds \in Seq(CommandType)
      BY <3>1, Answers DEF Typed, SessionTyped
    <3>3. 1 \in DOMAIN cmds
      BY <3>2
    <3> QED
      BY <3>2, <3>3 DEF Seen, Reading
  <2> QED
    BY <2>1 DEF CleanupTimer, Sweep, Seen
<1>5. CASE Wait \/ Age \/ Expire
  <2>1. /\ UNCHANGED <<sess, cmds, told, timer>> /\ (store' = store \/ store' = None)
        /\ over \in BOOLEAN /\ since \in {"now", "rest", "idle"}
    BY <1>5 DEF Wait, Age, Expire, Typed, SessionTyped
  <2>2. ~timer' /\ Unborn' /\ Absent' /\ Still' /\ FirstSocket' /\ SavesGrow' /\ TextsGrow' /\ Reading'
    BY <1>1, <2>1 DEF Seen, Unborn, Absent, Still, FirstSocket, SavesGrow, TextsGrow, Reading
  <2>3. Recorded'
    BY <1>5, <2>1 DEF Wait, Age, Expire, Seen, Recorded
  <2> QED
    BY <2>2, <2>3 DEF Seen
<1>6. CASE Ping
  <2>1. sess.in /\ cmds' = Save(sess, "none", 0) /\ UNCHANGED <<sess, store, told, over, timer>>
    BY <1>6 DEF Ping
  <2>2. sess \in SessionType /\ "none" \in {"none", "tell"} /\ 0 \in 0 .. MaxText /\ sess.text >= sess.text
    BY Numbers DEF Typed, SessionTyped, SessionType
  <2>3. SavesGrow' /\ Reading'
    BY <2>1, <2>2, SaveSeen
  <2>4. ~timer' /\ Unborn' /\ Absent' /\ Still' /\ FirstSocket' /\ TextsGrow' /\ Recorded'
    BY <1>1, <2>1 DEF Seen, Unborn, Absent, Still, FirstSocket, TextsGrow, Recorded
  <2> QED
    BY <2>3, <2>4 DEF Seen
<1>7. CASE Restore /\ created # "no" /\ cmds = <<>>
  <2> DEFINE g == Command("get", "none", 0)
  <2>1. ~sess.in /\ cmds' = Append(<<>>, g) /\ UNCHANGED <<sess, store, told, since, over, timer>>
    BY <1>7 DEF Restore
  <2>2. g.op = "get"
    BY DEF Command
  <2> HIDE DEF g
  <2>3. DOMAIN cmds' = {1} /\ Len(cmds') = 1 /\ cmds'[1] = g
    BY <2>1
  <2>4. (store = None /\ told = 0) \/ ~conn.in
    BY <2>1 DEF Seen, Unborn, Absent
  <2>5. Reading' /\ SavesGrow' /\ Absent'
    BY <1>1, <2>1, <2>2, <2>3, <2>4 DEF Seen, Reading, SavesGrow, Absent
  <2>6. ~timer' /\ Unborn' /\ Still' /\ FirstSocket' /\ TextsGrow' /\ Recorded'
    BY <1>1, <2>1 DEF Seen, Unborn, Still, FirstSocket, TextsGrow, Recorded
  <2> QED
    BY <2>5, <2>6 DEF Seen
<1> QED
  BY <1>2, <1>3, <1>4, <1>5, <1>6, <1>7 DEF Alone

LEMMA StatusSeen ==
  ASSUME Typed, Seen, Status
  PROVE  Seen'
<1>1. /\ sess' = Synced /\ sess.in /\ UNCHANGED <<store, cmds, told, since, over, timer, finished>>
      /\ UNCHANGED <<created, conn, sock, att, task, greeting, inbox, spoken>>
  BY DEF Status, connVars
<1>2. sess'.in /\ sess'.text = (IF conn.in THEN conn.text ELSE sess.text)
  BY <1>1, SyncedTyped
<1>3. sess.text \in Nat /\ conn.text \in Nat /\ told \in Nat /\ \A k \in DOMAIN cmds : cmds[k].of.text \in Nat
  <2>1. \A c \in CommandType : c.of.text \in Nat
    BY Numbers DEF CommandType, SessionType
  <2>2. \A k \in DOMAIN cmds : cmds[k] \in CommandType
    BY DEF Typed, SessionTyped
  <2> QED
    BY <2>1, <2>2, Numbers DEF Typed, SessionTyped, SessionType, ConnTyped, ConnType
<1>4. sess.text <= sess'.text /\ (conn.in => sess'.text <= conn.text) /\ told <= sess.text
  BY <1>1, <1>2, <1>3 DEF Seen, TextsGrow
<1>5. SavesGrow'
  BY <1>1, <1>2, <1>3, <1>4 DEF Seen, SavesGrow
<1>6. TextsGrow'
  BY <1>1, <1>2, <1>3, <1>4 DEF Seen, TextsGrow
<1>7. ~timer' /\ Unborn' /\ Absent' /\ Still' /\ FirstSocket' /\ Reading' /\ Recorded'
  BY <1>1, <1>2 DEF Seen, Unborn, Absent, Still, FirstSocket, Reading, Recorded
<1> QED
  BY <1>5, <1>6, <1>7 DEF Seen

LEMMA CrashSeen ==
  ASSUME Typed, Seen, Crash
  PROVE  Seen'
<1>1. /\ sess' = NoSession /\ conn' = NoConn /\ cmds' = <<>> /\ timer' = FALSE
      /\ created' = (IF created = "done" THEN "done" ELSE "failed") /\ greeting' = {} /\ inbox' = {}
      /\ UNCHANGED <<store, told, since, over, spoken>>
      /\ sock' = [i \in Sockets |-> IF sock[i] = "none" THEN "none" ELSE "closed"]
      /\ att' = [a \in Attempts |-> IF att[a].at = "none" THEN att[a] ELSE [att[a] EXCEPT !.at = "cancelled"]]
      /\ task' = [t \in Tasks |-> IF task[t].at \in {"done", "failed", "idle"} THEN task[t]
                                  ELSE IF IsPacket(t) THEN [NoTask EXCEPT !.at = "failed"] ELSE NoTask]
  BY DEF Crash
<1>2. ~sess'.in /\ ~conn'.in /\ conn'.text = 0
  BY <1>1 DEF NoSession, NoConn
<1>3. Still'
  <2>1. \A i \in Sockets : sock'[i] \in {"none", "closed"}
    BY <1>1
  <2>2. \A a \in Attempts : att'[a].at \in {"none", "cancelled"}
    BY <1>1 DEF Typed, ConnTyped, AttemptType
  <2> QED
    BY <1>1, <2>1, <2>2 DEF Still
<1>4. Absent'
  <2>1. [NoTask EXCEPT !.at = "failed"].at = "failed" /\ NoTask.at = "idle"
    BY DEF NoTask
  <2>2. \A p \in Packets : task'[<<"packet", p>>].at \in {"idle", "done", "failed"}
    <3>1. \A t \in Tasks : task'[t].at \in {"idle", "done", "failed"}
      BY <1>1, <2>1
    <3> QED
      BY <3>1 DEF Tasks
  <2> QED
    BY <1>1, <1>2, <2>2 DEF Absent
<1>5. FirstSocket'
  <2>1. sock'[0] \in {"none", "closed"}
    BY <1>1, Numbers
  <2> QED
    BY <2>1 DEF FirstSocket
<1>6. ~timer' /\ Unborn' /\ SavesGrow' /\ Reading'
  BY <1>1, <1>2 DEF Seen, Unborn, SavesGrow, Reading
<1>7. TextsGrow'
  <2>1. spoken \in Nat
    BY Numbers DEF Typed, ConnTyped
  <2> QED
    BY <1>1, <1>2, <2>1 DEF TextsGrow
<1>8. Recorded'
  BY <1>1, <1>2 DEF Seen, Recorded
<1> QED
  BY <1>3, <1>4, <1>5, <1>6, <1>7, <1>8 DEF Seen
-----------------------------------------------------------------------------
(* What a client has seen, for every step                                  *)

LEMMA ConnStepSeen ==
  ASSUME Typed, Blank, Seen, ConnStep, UNCHANGED Rest
  PROVE  Seen'
BY ConnectSeen, BeatSeen, OpenSeen, GreetSeen, RefuseSeen, CloseSeen, AfterDelaySeen, PacketSeen DEF ConnStep

LEMMA SeenKept ==
  ASSUME Typed, Blank, SeenInv, Next, UNCHANGED world
  PROVE  SeenInv'
<1> SUFFICES ASSUME Steady, finished' = "no" PROVE Seen'
  BY DEF SeenInv, Steady, Can
<1>0. finished = "no"
  BY DEF Next, OfConnection, Alone, Saved, Restored, Completed, CleanupTimer, Sweep, Wait, Age, Expire, Ping, Restore,
         Status, Complete, Cancel, CleanUp, Crash, Shutdown
<1> Seen
  BY <1>0 DEF SeenInv
<1>1. CASE ConnStep /\ UNCHANGED <<store, told, over, timer, finished>>
  BY <1>1, ConnStepSeen DEF Rest
<1>2. ASSUME NEW i \in Sockets, NEW kind \in Kinds, Receive(i, kind), UNCHANGED <<store, over, timer, finished>>
      PROVE  Seen'
  BY <1>2, ReceiveSeen
<1>3. ASSUME NEW r \in inbox, Parse(r), UNCHANGED <<store, over, timer, finished>>
      PROVE  Seen'
  BY <1>3, ParseSeen
<1>4. ASSUME NEW p \in Packets, Send(p), UNCHANGED <<store, told, over, timer, finished>>
      PROVE  Seen'
  BY <1>4, SendSeen DEF Rest
<1>5. CASE Alone /\ UNCHANGED connVars
  BY <1>5, AloneSeen
<1>6. CASE Status
  BY <1>6, StatusSeen
<1>7. CASE Crash
  BY <1>7, CrashSeen
<1>8. ~Complete /\ ~Cancel /\ ~Shutdown
  BY DEF Complete, Cancel, Shutdown
<1>9. ~CleanUp
  <2> SUFFICES ASSUME CleanUp PROVE FALSE
    OBVIOUS
  <2>1. Answered("delete")
    BY DEF CleanUp, Forgotten
  <2>2. cmds # <<>> /\ Head(cmds) = cmds[1] /\ Head(cmds).op = "delete" /\ cmds \in Seq(CommandType)
    BY <2>1, Answers DEF Typed, SessionTyped
  <2>3. 1 \in DOMAIN cmds
    BY <2>2
  <2> QED
    BY <2>2, <2>3 DEF Seen, Reading
<1>10. ASSUME NEW a \in Flushes, Flush(a), UNCHANGED <<store, told, over, timer, finished>>
       PROVE  Seen'
  BY <1>10, FlushSeen DEF Rest, Flushes
<1> QED
  BY <1>1, <1>2, <1>3, <1>4, <1>5, <1>6, <1>7, <1>8, <1>9, <1>10 DEF Next, OfConnection

LEMMA InitSeen ==
  ASSUME Init
  PROVE  SeenInv
<1>1. /\ sess = NoSession /\ store = None /\ cmds = <<>> /\ told = 0 /\ timer = FALSE
      /\ created = "no" /\ conn = NoConn /\ sock = [i \in Sockets |-> "none"]
      /\ att = [a \in Attempts |-> [at |-> "none", by |-> None]] /\ task = [t \in Tasks |-> NoTask]
      /\ greeting = {} /\ inbox = {} /\ spoken = 0
  BY DEF Init, SessionInit, ConnInit
<1>2. ~sess.in /\ ~conn.in /\ conn.text = 0
  BY <1>1 DEF NoSession, NoConn
<1>3. \A p \in Packets : task[<<"packet", p>>].at = "idle"
  BY <1>1 DEF Tasks, NoTask
<1>4. Still /\ FirstSocket
  BY <1>1, Numbers DEF Still, FirstSocket
<1>5. Absent /\ Unborn /\ SavesGrow /\ Reading /\ Recorded
  BY <1>1, <1>2, <1>3 DEF Absent, Unborn, SavesGrow, Reading, Recorded
<1>6. TextsGrow
  BY <1>1, <1>2 DEF TextsGrow
<1> QED
  BY <1>1, <1>4, <1>5, <1>6 DEF SeenInv, Seen

\* As long as Redis answers and messages are unpacked in order, the text a client
\* has been shown is in the record of its session, until someone ends the
\* session or it lasts too long: a crash loses no more than what was not shown.
THEOREM SeenIsKept == Spec => []SeenSurvivesRestart
<1>1. Init => AsrInv /\ SeenInv
  BY InitTyped, InitSeen DEF AsrInv
<1>2. AsrInv /\ SeenInv /\ [Next /\ UNCHANGED world]_vars => AsrInv' /\ SeenInv'
  <2> SUFFICES ASSUME AsrInv, SeenInv, [Next /\ UNCHANGED world]_vars PROVE AsrInv' /\ SeenInv'
    OBVIOUS
  <2>1. CASE Next /\ UNCHANGED world
    BY <2>1, TypedKept, BlankKept, SeenKept DEF AsrInv
  <2>2. CASE UNCHANGED vars
    <3>1. UNCHANGED world /\ UNCHANGED sessionVars /\ UNCHANGED connVars
      BY <2>2 DEF vars
    <3>2. AsrInv'
      BY <3>1, ConnStays, SessionStays DEF AsrInv, Typed, Blank, connVars
    <3>3. SeenInv'
      BY <3>1 DEF SeenInv, Steady, Can, Seen, Unborn, Absent, Still, FirstSocket, SavesGrow, TextsGrow, Reading,
                  Recorded, sessionVars, connVars
    <3> QED
      BY <3>2, <3>3
  <2> QED
    BY <2>1, <2>2
<1>3. AsrInv /\ SeenInv => SeenSurvivesRestart
  <2> SUFFICES ASSUME AsrInv, SeenInv PROVE SeenSurvivesRestart
    OBVIOUS
  <2>1. told \in Nat
    BY Numbers DEF AsrInv, Typed, SessionTyped
  <2> QED
    BY <2>1 DEF SeenSurvivesRestart, SeenInv, Steady, Seen, Recorded
<1> QED
  BY <1>1, <1>2, <1>3, PTL DEF Spec
-----------------------------------------------------------------------------
(* How a connection begins, and how many attempts it has made              *)

\* Until createSession has its connection there is no session and no record.
Unready ==
  created # "done" =>
    /\ ~sess.in /\ store = None /\ (\A k \in DOMAIN cmds : cmds[k].op = "get")
    /\ \A p \in Packets : task[<<"packet", p>>].at = "idle"

\* The first socket: nothing else is under way until its open handler has run,
\* but for the attempt its close makes.
Unused == created \in {"no", "pending"} => inbox = {} /\ ~beats.on /\ ~beats.packing /\ ~beats.awaited

First ==
  IF created = "pending"
    THEN /\ conn.in /\ conn.ws = 0
         /\ \A t \in Tasks : task[t].at = "idle"
         /\ \A a \in Attempts : sock[a] = "none" /\ att[a].at \in {"none", "waiting"}
         /\ IF sock[0] = "connecting" THEN greeting = {} ELSE sock[0] \in {"open", "closed"} /\ greeting = {0}
         /\ sock[0] # "closed" => \A a \in Attempts : att[a].at = "none"
    ELSE sock[0] # "connecting" /\ 0 \notin greeting

\* A flush never waits for an attempt: whatever makes it go on has made the
\* connection active.
FlushesGoOn ==
  \A a \in Attempts : /\ task[<<"flush", a>>].at # "awaiting"
                      /\ task[<<"flush", a>>].at = "next" => conn.status \in Active

\* Attempts are used up in order, and retryCount has counted all but the one that
\* was made before the first socket was greeted.
Count(n) ==
  /\ \A a \in Attempts : att[a].at # "none" <=> a <= n
  /\ conn.in => n <= conn.retry + 1
  /\ created = "pending" => n <= 1

Counted == \E n \in 0 .. MaxRetries + 1 : Count(n)

\* A socket is that of an attempt whose delay is over.
Linked == \A a \in Attempts : att[a].at \in {"none", "waiting"} => sock[a] = "none"

Base == Unready /\ Unused /\ First /\ FlushesGoOn /\ Counted /\ Linked
-----------------------------------------------------------------------------
(* What the steps do to connection and attempts                            *)

\* Attempt b stays as it is, or ends, if it is the one that waits for socket i.
Old(i, b) == att'[b].at = att[b].at \/ (b = i /\ att[b].at = "opening" /\ att'[b].at = "ended")

SameConn == /\ conn'.in = conn.in /\ conn'.ws = conn.ws /\ conn'.status = conn.status
            /\ conn'.reconnecting = conn.reconnecting /\ conn'.retry = conn.retry

\* A new attempt waits.
Waiting(i) ==
  \E a \in Attempts : /\ att[a].at = "none" /\ (\A b \in Attempts : b < a => att[b].at # "none")
                      /\ att'[a].at = "waiting" /\ \A b \in Attempts \ {a} : Old(i, b)

\* attemptReconnect up to its delay, when the attempt for socket i has ended.
Tries(i) ==
  /\ conn'.in = conn.in /\ conn'.ws = conn.ws /\ conn'.pending = conn.pending
  /\ \/ ~conn.in /\ SameConn /\ sess' = sess /\ \A b \in Attempts : Old(i, b)
     \/ /\ conn.in /\ conn.retry >= MaxRetries /\ conn'.status = "disconnected"
        /\ conn'.reconnecting = conn.reconnecting /\ conn'.retry = conn.retry
        /\ sess' = Disconnected(Errored(sess)) /\ \A b \in Attempts : Old(i, b)
     \/ /\ conn.in /\ conn.retry < MaxRetries /\ conn'.status = conn.status
        /\ conn'.reconnecting /\ conn'.retry = conn.retry + 1
        /\ sess' = sess /\ Waiting(i)

\* There is an attempt left for every retry left.
LEMMA FreshIs ==
  ASSUME Typed, Counted, conn.in, conn.retry < MaxRetries, NEW s \in StateType,
         \A b \in Attempts : s.att[b].at # "none" <=> att[b].at # "none"
  PROVE  /\ Fresh(s) \in Attempts /\ att[Fresh(s)].at = "none"
         /\ \A b \in Attempts : b < Fresh(s) => att[b].at # "none"
<1>1. PICK n \in 0 .. MaxRetries + 1 : Count(n)
  BY DEF Counted
<1>2. conn.retry \in Nat /\ MaxRetries \in Nat \ {0} /\ n \in Nat /\ n <= MaxRetries
  BY <1>1, Numbers DEF Typed, ConnTyped, ConnType, Count
<1>3. n + 1 \in Attempts
  BY <1>2 DEF Attempts, Sockets
<1>4. \A b \in 1 .. n : b \in Attempts
  BY <1>2, <1>3 DEF Attempts, Sockets
<1>5. \A b \in Attempts : s.att[b].at # "none" <=> b <= n
  BY <1>1 DEF Count
<1>6. \A b \in Attempts : b \in Nat
  BY Numbers DEF Attempts
<1> DEFINE Is(a) == s.att[a].at = "none" /\ \A b \in 1 .. a - 1 : s.att[b].at # "none"
<1>7. Is(n + 1)
  BY <1>2, <1>3, <1>4, <1>5
<1>8. Fresh(s) = CHOOSE a \in Attempts : Is(a)
  BY DEF Fresh
<1>9. Fresh(s) \in Attempts /\ Is(Fresh(s))
  BY <1>3, <1>7, <1>8
<1>10. ASSUME NEW b \in Attempts, b < Fresh(s) PROVE att[b].at # "none"
  <2>1. b \in 1 .. Fresh(s) - 1
    BY <1>6, <1>9, <1>10 DEF Attempts
  <2> QED
    BY <1>9, <2>1
<1> QED
  BY <1>9, <1>10

LEMMA AttemptDoes ==
  ASSUME Typed, Counted, NEW i, NEW s \in StateType, s.conn = conn, s.sess = sess,
         \A b \in Attempts : s.att[b].at = att[b].at \/ (b = i /\ att[b].at = "opening" /\ s.att[b].at = "ended"),
         NEW by \in Tasks \cup {None}, Become(Attempt(s, by))
  PROVE  Tries(i)
<1>0. conn \in ConnType /\ sess \in SessionType
  BY DEF Typed, ConnTyped, SessionTyped
<1>1. CASE ~conn.in
  <2>1. conn' = conn /\ sess' = sess /\ att' = s.att
    BY <1>1 DEF Attempt, Become
  <2> QED
    BY <1>1, <2>1 DEF Tries, SameConn, Old
<1>2. CASE conn.in /\ conn.retry >= MaxRetries
  <2> DEFINE c == [conn EXCEPT !.status = "disconnected"]
             q == Disconnected(Errored(sess))
  <2>1. Attempt(s, by) = [conn |-> c, sess |-> q, att |-> s.att]
    BY <1>2 DEF Attempt, StateType
  <2>2. conn' = c /\ sess' = q /\ att' = s.att
    BY <2>1 DEF Become
  <2> QED
    BY <1>0, <1>2, <2>2 DEF Tries, Old, ConnType
<1>3. CASE conn.in /\ ~(conn.retry >= MaxRetries)
  <2> DEFINE c == [conn EXCEPT !.reconnecting = TRUE, !.retry = @ + 1]
             a == Fresh(s)
             f == [s.att EXCEPT ![a] = [at |-> "waiting", by |-> by]]
  <2>1. Attempt(s, by) = [conn |-> c, sess |-> sess, att |-> f]
    BY <1>3 DEF Attempt, StateType, ConnType
  <2>2. conn' = c /\ sess' = sess /\ att' = f
    BY <2>1 DEF Become
  <2>3. conn.retry < MaxRetries
    BY <1>0, <1>3, Numbers DEF ConnType
  <2>4. a \in Attempts /\ att[a].at = "none" /\ \A b \in Attempts : b < a => att[b].at # "none"
    BY <1>3, <2>3, FreshIs
  <2> HIDE DEF a
  <2>5. att'[a].at = "waiting" /\ \A b \in Attempts \ {a} : att'[b] = s.att[b]
    BY <2>2, <2>4 DEF StateType
  <2>6. Waiting(i)
    BY <2>4, <2>5 DEF Waiting, Old
  <2>7. /\ conn'.in = conn.in /\ conn'.ws = conn.ws /\ conn'.pending = conn.pending /\ conn'.status = conn.status
        /\ conn'.reconnecting /\ conn'.retry = conn.retry + 1
    BY <1>0, <2>2 DEF ConnType
  <2> QED
    BY <1>3, <2>2, <2>3, <2>6, <2>7 DEF Tries
<1> QED
  BY <1>1, <1>2, <1>3

LEMMA RejectedDoes ==
  ASSUME Typed, Counted, NEW i \in Attempts, Become(Rejected(State, i))
  PROVE  Tries(i) \/ (att[i].at # "opening" /\ UNCHANGED <<conn, sess, att>>)
<1>0. State \in StateType /\ State.conn = conn /\ State.sess = sess /\ State.att = att
  BY StateTyped DEF State, Typed
<1>1. CASE att[i].at = "opening"
  <2> DEFINE s == Resolved(State, i)
  <2>1. s \in StateType /\ s.conn = conn /\ s.sess = sess
    BY <1>0, ResolvedTyped DEF Tried
  <2>2. s = [State EXCEPT !.att[i].at = "ended"]
    BY <1>0, <1>1 DEF Resolved
  <2>3. s.att = [att EXCEPT ![i].at = "ended"]
    BY <1>0, <2>2 DEF StateType
  <2>4. \A b \in Attempts : s.att[b].at = att[b].at \/ (b = i /\ att[b].at = "opening" /\ s.att[b].at = "ended")
    BY <1>0, <1>1, <2>3 DEF StateType, AttemptType
  <2>5. att[i].by \in Tasks \cup {None}
    BY <1>0 DEF StateType, AttemptType
  <2>6. Become(Attempt(s, att[i].by))
    BY <1>0, <1>1 DEF Rejected
  <2> HIDE DEF s
  <2> QED
    BY <2>1, <2>4, <2>5, <2>6, AttemptDoes
<1>2. CASE att[i].at # "opening"
  BY <1>0, <1>2 DEF Rejected, Become
<1> QED
  BY <1>1, <1>2

\* The end of an attempt that succeeded.
LEMMA ResolvedDoes ==
  ASSUME Typed, NEW i \in Attempts, NEW s \in StateType, s.att = att, att' = Resolved(s, i).att
  PROVE  \A b \in Attempts : Old(i, b)
<1>1. CASE att[i].at = "opening"
  <2>1. Resolved(s, i).att = [att EXCEPT ![i].at = "ended"]
    BY <1>1 DEF Resolved, StateType
  <2> QED
    BY <1>1, <2>1 DEF Old, StateType, AttemptType
<1>2. CASE att[i].at # "opening"
  BY <1>2 DEF Resolved, Old
<1> QED
  BY <1>1, <1>2
-----------------------------------------------------------------------------
(* What a run of sendAudio comes to                                        *)

\* It leaves the packet in the buffer, loses it or refuses it.
Rests(t) ==
  /\ SameConn /\ sess' = sess /\ (conn.in => \A b \in Attempts : att'[b].at = att[b].at)
  /\ \A b \in Attempts : att'[b].at = att[b].at \/ (att[b].at = "opening" /\ att'[b].at = "ended")
  /\ IF IsPacket(t) THEN task'[t].at \in {"done", "failed"} ELSE task'[t].at \in {"idle", "next"}

\* It packs it for the open socket.
Starts(t) ==
  /\ IsOpen(conn.ws) /\ conn.in /\ conn'.in /\ conn'.ws = conn.ws /\ conn'.status \in Active
  /\ conn'.reconnecting = conn.reconnecting /\ conn'.retry = conn.retry /\ conn'.pending = conn.pending
  /\ sess' = sess /\ att' = att /\ task'[t].at = "packing" /\ task'[t].ws = conn.ws

\* It begins an attempt, of a connection that is over.
Asks(t) ==
  /\ IsPacket(t) /\ conn.in /\ ~conn.reconnecting /\ conn.status \in {"completed", "disconnected"}
  /\ ~IsOpen(conn.ws) /\ Tries(0) /\ task'[t].at = "awaiting"

Others(t) == \A u \in Tasks \ {t} : task'[u] = task[u]

LEMMA ReturnDoes ==
  ASSUME Typed, NEW t \in Tasks, Return(t)
  PROVE  task'[t].at = IF IsPacket(t) THEN "done" ELSE "next"
<1>1. CASE IsPacket(t)
  BY <1>1 DEF Return, Typed, ConnTyped, TaskType
<1>2. CASE ~IsPacket(t)
  <2>1. task' = [task EXCEPT ![t].at = "next", ![t].pos = @ + 1] /\ task[t] \in TaskType
    BY <1>2 DEF Return, Typed, ConnTyped
  <2>2. task' = [task EXCEPT ![t] = [task[t] EXCEPT !.at = "next", !.pos = @ + 1]]
    BY <2>1 DEF Typed, ConnTyped
  <2> QED
    BY <1>2, <2>1, <2>2 DEF Typed, ConnTyped, TaskType
<1> QED
  BY <1>1, <1>2

LEMMA KeepDoes ==
  ASSUME Typed, NEW t \in Tasks, Keep(t)
  PROVE  Rests(t)
<1>1. task'[t].at = IF IsPacket(t) THEN "done" ELSE "next"
  BY ReturnDoes DEF Keep
<1>2. SameConn
  <2>1. conn' = conn \/ \E q : conn' = [conn EXCEPT !.pending = q]
    BY DEF Keep, Buffered
  <2> QED
    BY <2>1 DEF SameConn, Typed, ConnTyped, ConnType
<1> QED
  BY <1>1, <1>2 DEF Keep, Rests

LEMMA ThrowDoes ==
  ASSUME Typed, Counted, NEW t \in Tasks, Throw(t), IsPacket(t) \/ ~conn.in
  PROVE  Rests(t)
<1>1. CASE IsPacket(t)
  <2>1. task' = [task EXCEPT ![t] = [@ EXCEPT !.at = "failed"]] /\ Become(State)
    BY <1>1 DEF Throw
  <2>2. conn' = conn /\ sess' = sess /\ att' = att /\ task'[t].at = "failed"
    BY <2>1 DEF Become, State, Typed, ConnTyped, TaskType
  <2> QED
    BY <1>1, <2>2 DEF Rests, SameConn
<1>2. CASE ~IsPacket(t)
  <2>1. task' = [task EXCEPT ![t] = NoTask] /\ Become(Rejected(State, t[2])) /\ t[2] \in Attempts
    BY <1>2, TaskKinds DEF Throw
  <2>2. task'[t].at = "idle"
    BY <2>1, NoTaskTyped DEF Typed, ConnTyped
  <2>3. ~conn.in
    BY <1>2
  <2>4. Tries(t[2]) \/ UNCHANGED <<conn, sess, att>>
    BY <2>1, RejectedDoes
  <2> QED
    BY <1>2, <2>2, <2>3, <2>4 DEF Rests, Tries, SameConn, Old
<1> QED
  BY <1>1, <1>2

LEMMA PackDoes ==
  ASSUME Typed, NEW t \in Tasks, NEW status \in Active, Pack(t, status), conn.in, IsOpen(conn.ws)
  PROVE  Starts(t)
BY DEF Pack, Starts, Typed, ConnTyped, ConnType, TaskType

LEMMA ToSocketDoes ==
  ASSUME Typed, Counted, NEW t \in Tasks, ToSocket(t), conn.in, conn.status \in Active
  PROVE  Rests(t) \/ Starts(t)
<1>1. CASE IsOpen(conn.ws) /\ Pack(t, conn.status)
  BY <1>1, PackDoes
<1>2. CASE Last(t) /\ Throw(t)
  BY <1>2, ThrowDoes DEF Last, IsPacket
<1>3. CASE Keep(t)
  BY <1>3, KeepDoes
<1> QED
  BY <1>1, <1>2, <1>3 DEF ToSocket

LEMMA SendAudioDoes ==
  ASSUME Typed, Counted, NEW t \in Tasks, SendAudio(t), IsPacket(t) \/ conn.status \in Active
  PROVE  Rests(t) \/ Starts(t) \/ Asks(t)
<1>1. CASE (~conn.in \/ (~conn.reconnecting /\ conn.status \in {"connecting", "error"})) /\ Throw(t)
  <2>1. IsPacket(t) \/ ~conn.in
    BY <1>1 DEF Active
  <2> QED
    BY <1>1, <2>1, ThrowDoes
<1>2. CASE Keep(t)
  BY <1>2, KeepDoes
<1>3. CASE conn.in /\ conn.status \in Active /\ ToSocket(t)
  BY <1>3, ToSocketDoes
<1>4. CASE conn.in /\ IsOpen(conn.ws) /\ Pack(t, "streaming")
  BY <1>4, PackDoes DEF Active
<1>5. CASE /\ conn.in /\ ~conn.reconnecting /\ conn.status \in {"completed", "disconnected"} /\ ~IsOpen(conn.ws)
           /\ Become(Attempt(State, t)) /\ task' = [task EXCEPT ![t].at = "awaiting"]
  <2>1. State \in StateType /\ State.conn = conn /\ State.sess = sess /\ State.att = att
    BY StateTyped DEF State, Typed
  <2>2. Tries(0)
    BY <1>5, <2>1, AttemptDoes
  <2>3. IsPacket(t)
    BY <1>5 DEF Active
  <2> QED
    BY <1>5, <2>2, <2>3 DEF Asks, Typed, ConnTyped, TaskType
<1> QED
  BY <1>1, <1>2, <1>3, <1>4, <1>5 DEF SendAudio

\* The steps of a run: a packet that is sent, one that waited, one that is packed.
LEMMA SendDoes ==
  ASSUME Typed, Base, NEW p \in Packets, Send(p)
  PROVE  LET t == <<"packet", p>> IN /\ t \in Tasks /\ IsPacket(t) /\ Others(t) /\ created = "done"
                                     /\ Rests(t) \/ Starts(t) \/ Asks(t)
<1> DEFINE t == <<"packet", p>>
<1>1. t \in Tasks /\ IsPacket(t) /\ Others(t)
  BY SendRuns DEF Tasks, IsPacket, Ran, Others
<1>2. CASE task' = [task EXCEPT ![t].at = "failed"] /\ UNCHANGED <<sess, cmds, since, conn, att>>
  <2>1. task'[t].at = "failed"
    BY <1>1, <1>2 DEF Typed, ConnTyped, TaskType
  <2>2. Rests(t)
    BY <1>1, <1>2, <2>1 DEF Rests, SameConn
  <2> QED
    BY <1>1, <2>2 DEF Send
<1>3. CASE SendAudio(t)
  BY <1>1, <1>3, SendAudioDoes DEF Base, Send
<1> QED
  BY <1>2, <1>3 DEF Send

LEMMA ResumeDoes ==
  ASSUME Typed, Base, NEW t \in Tasks, Resume(t)
  PROVE  IsPacket(t) /\ Others(t) /\ (Rests(t) \/ Starts(t))
<1>1. IsPacket(t)
  BY TaskKinds DEF Resume, Base, FlushesGoOn
<1>2. Others(t)
  BY ResumeRuns DEF Ran, Others
<1>3. CASE conn.in /\ conn.status \in Active /\ ToSocket(t)
  BY <1>1, <1>2, <1>3, ToSocketDoes DEF Base
<1>4. CASE Throw(t)
  BY <1>1, <1>2, <1>4, ThrowDoes DEF Base
<1>5. CASE Keep(t)
  BY <1>1, <1>2, <1>5, KeepDoes
<1>6. CASE Return(t) /\ UNCHANGED <<conn, sess, att>>
  <2>1. task'[t].at = "done"
    BY <1>1, <1>6, ReturnDoes
  <2> QED
    BY <1>1, <1>2, <1>6, <2>1 DEF Rests, SameConn
<1> QED
  BY <1>3, <1>4, <1>5, <1>6 DEF Resume

LEMMA PackedDoes ==
  ASSUME Typed, NEW t \in Tasks, Packed(t)
  PROVE  /\ Others(t) /\ task[t].at = "packing" /\ task'[t].at = IF IsPacket(t) THEN "done" ELSE "next"
         /\ conn'.in = conn.in /\ conn'.ws = conn.ws /\ conn'.status = "streaming" /\ conn'.pending = conn.pending
         /\ conn'.reconnecting = conn.reconnecting /\ conn'.retry = conn.retry /\ sess' = sess /\ att' = att
<1>1. Others(t)
  BY PackedRuns DEF Ran, Others
<1>2. task'[t].at = IF IsPacket(t) THEN "done" ELSE "next"
  BY ReturnDoes DEF Packed
<1> QED
  BY <1>1, <1>2 DEF Packed, Typed, ConnTyped, ConnType

\* The end of a flush.
Empties(i) ==
  /\ SameConn /\ conn'.pending = <<>> /\ sess' = Connected(sess) /\ \A b \in Attempts : Old(i, b)
  /\ task'[<<"flush", i>>].at = "idle"
  /\ \A u \in Tasks \ {<<"flush", i>>} : task'[u].at = task[u].at /\ task'[u].ws = task[u].ws

LEMMA FlushDoes ==
  ASSUME Typed, Base, NEW i \in Attempts, Flush(i)
  PROVE  LET t == <<"flush", i>> IN
         /\ t \in Tasks /\ ~IsPacket(t) /\ task[t].at = "next" /\ conn.status \in Active
         /\ (Others(t) /\ (Rests(t) \/ Starts(t))) \/ Empties(i)
         /\ task[t].pos <= Len(Array(t)) => SendAudio(t) /\ Others(t) /\ (Rests(t) \/ Starts(t))
         /\ ~(task[t].pos <= Len(Array(t))) => Empties(i)
<1> DEFINE t == <<"flush", i>>
<1>1. t \in Tasks /\ ~IsPacket(t) /\ task[t].at = "next" /\ conn.status \in Active
  BY DEF Flush, Tasks, IsPacket, Base, FlushesGoOn
<1>0. task[t].pos \in Nat /\ Len(Array(t)) \in Nat
  BY <1>1 DEF Typed, ConnTyped, TaskType, ConnType, Array
<1>2. CASE task[t].pos <= Len(Array(t)) /\ SendAudio(t)
  <2>1. Array(t) \in Seq(Packets) /\ task[t] \in TaskType
    BY <1>1 DEF Typed, ConnTyped, TaskType, ConnType, Array
  <2>2. Ready(t)
    BY <1>1, <1>2, <2>1 DEF Ready, Typed, ConnTyped, InArray
  <2>3. Others(t)
    BY <1>1, <1>2, <2>2, SendAudioRuns DEF Typed, Ran, Others
  <2>4. Rests(t) \/ Starts(t)
    BY <1>1, <1>2, SendAudioDoes DEF Base, Asks
  <2> QED
    BY <1>1, <1>2, <2>3, <2>4
<1>3. CASE /\ task[t].pos > Len(Array(t))
           /\ task' = [u \in Tasks |-> IF u = t THEN NoTask
                         ELSE IF ~IsPacket(u) /\ task[u].at # "idle" THEN [task[u] EXCEPT !.own = Array(u)]
                         ELSE task[u]]
           /\ Become(Resolved([State EXCEPT !.conn.pending = <<>>, !.sess = Connected(@)], i))
  <2> DEFINE c == [conn EXCEPT !.pending = <<>>]
             q == [State EXCEPT !.conn.pending = <<>>, !.sess = Connected(@)]
  <2>1. State \in StateType /\ State.conn = conn /\ State.sess = sess /\ State.att = att
    BY StateTyped DEF State, Typed
  <2>2. c \in ConnType /\ c.pending = <<>> /\ c.in = conn.in /\ c.ws = conn.ws /\ c.status = conn.status
        /\ c.reconnecting = conn.reconnecting /\ c.retry = conn.retry
    <3>1. <<>> \in Seq(Packets) /\ conn \in ConnType
      BY <2>1 DEF StateType
    <3> QED
      BY <3>1 DEF ConnType
  <2>3. Connected(sess) \in SessionType
    BY <2>1, Callbacks DEF StateType
  <2>4. q = [conn |-> c, sess |-> Connected(sess), att |-> att]
    <3>1. q = [State EXCEPT !.conn = c, !.sess = Connected(sess)]
      BY <2>1
    <3>2. [State EXCEPT !.conn = c, !.sess = Connected(sess)] = [conn |-> c, sess |-> Connected(sess), att |-> State.att]
      BY <2>1, TwoFields
    <3> QED
      BY <2>1, <3>1, <3>2
  <2>5. Become(Resolved(q, i))
    BY <1>3
  <2> HIDE DEF c, q
  <2>6. q \in StateType /\ q.conn = c /\ q.sess = Connected(sess) /\ q.att = att
    BY <2>1, <2>2, <2>3, <2>4 DEF StateType
  <2>7. Resolved(q, i).conn = c /\ Resolved(q, i).sess = Connected(sess) /\ att' = Resolved(q, i).att
    BY <2>5, <2>6, ResolvedTyped DEF Become
  <2>8. conn' = c /\ sess' = Connected(sess) /\ \A b \in Attempts : Old(i, b)
    BY <2>5, <2>6, <2>7, ResolvedDoes DEF Become
  <2>9. task'[t].at = "idle" /\ \A u \in Tasks \ {t} : task'[u].at = task[u].at /\ task'[u].ws = task[u].ws
    <3>1. \A u \in Tasks : task[u] \in TaskType
      BY DEF Typed, ConnTyped
    <3>2. \A u \in Tasks : /\ [task[u] EXCEPT !.own = Array(u)].at = task[u].at
                           /\ [task[u] EXCEPT !.own = Array(u)].ws = task[u].ws
      BY <3>1 DEF TaskType
    <3> QED
      BY <1>1, <1>3, <3>2, NoTaskTyped
  <2>10. Empties(i)
    BY <2>2, <2>8, <2>9 DEF Empties, SameConn
  <2> QED
    BY <1>0, <1>1, <1>3, <2>10
<1> QED
  BY <1>2, <1>3 DEF Flush
-----------------------------------------------------------------------------
(* What becomes of a connection when a socket opens or goes                *)

SameState == conn' = conn /\ sess' = sess /\ att' = att

\* The close event of a connection that does not go on.
Ends ==
  /\ conn'.in = conn.in /\ conn'.ws = conn.ws /\ conn'.pending = conn.pending /\ conn'.status = "disconnected"
  /\ conn'.reconnecting = conn.reconnecting /\ conn'.retry = conn.retry /\ sess' = Disconnected(sess) /\ att' = att

LEMMA CloseDoes ==
  ASSUME Typed, Base, NEW i \in Sockets, Close(i)
  PROVE  /\ sock[i] \in {"open", "failed", "dropping", "closing"} /\ sock' = [sock EXCEPT ![i] = "closed"]
         /\ UNCHANGED <<created, cmds, since, task, greeting, inbox, spoken, heard>>
         /\ beats' = StopBeats /\ Tear(i) /\ conn'.pending = conn.pending
         /\ \/ Tries(0) /\ conn.status \notin {"completed", "disconnected"}
            \/ Ends /\ i = 0 /\ conn.status # "completed"
            \/ SameState /\ conn.status \in {"completed", "disconnected"}
            \/ SameState /\ i # 0 /\ (Can("normal") \/ sock[i] = "closing")
<1>1. PICK normal \in BOOLEAN : OnClose(i, normal) /\ (normal => Can("normal") \/ sock[i] = "closing")
  BY DEF Close
<1> DEFINE ends == [State EXCEPT !.conn.status = "disconnected", !.sess = Disconnected(@)]
           c == [conn EXCEPT !.status = "disconnected"]
           lives == conn.status \notin {"completed", "disconnected"} /\ ~normal
<1>2. State \in StateType /\ State.conn = conn /\ State.sess = sess /\ State.att = att
  BY StateTyped DEF State, Typed
<1>3. ends = [conn |-> c, sess |-> Disconnected(sess), att |-> att]
  <2>1. ends = [State EXCEPT !.conn = c, !.sess = Disconnected(sess)]
    BY <1>2
  <2>2. [State EXCEPT !.conn = c, !.sess = Disconnected(sess)] = [conn |-> c, sess |-> Disconnected(sess), att |-> State.att]
    BY <1>2, TwoFields
  <2> QED
    BY <1>2, <2>1, <2>2
<1>4. /\ sock[i] \in {"open", "failed", "dropping", "closing"} /\ sock' = [sock EXCEPT ![i] = "closed"]
      /\ UNCHANGED <<created, cmds, since, task, greeting, inbox, spoken, heard>> /\ beats' = StopBeats /\ Tear(i)
  BY <1>1 DEF Close, OnClose
<1>5. CASE lives /\ ~(i = 0 /\ conn.reconnecting)
  <2>1. Become(Attempt(State, None))
    BY <1>1, <1>5 DEF OnClose
  <2>2. Tries(0)
    BY <1>2, <2>1, AttemptDoes DEF Base
  <2> QED
    BY <1>4, <1>5, <2>2 DEF Tries
<1>6. CASE ~(lives /\ ~(i = 0 /\ conn.reconnecting)) /\ i = 0 /\ conn.status # "completed"
  <2>1. Become(ends)
    BY <1>1, <1>6 DEF OnClose
  <2>2. conn' = c /\ sess' = Disconnected(sess) /\ att' = att
    BY <1>3, <2>1 DEF Become
  <2>3. Ends
    BY <1>2, <2>2 DEF Ends, StateType, ConnType
  <2> QED
    BY <1>4, <1>6, <2>3 DEF Ends
<1>7. CASE ~(lives /\ ~(i = 0 /\ conn.reconnecting)) /\ ~(i = 0 /\ conn.status # "completed")
  <2>1. Become(State)
    BY <1>1, <1>7 DEF OnClose
  <2>2. SameState /\ conn'.pending = conn.pending
    BY <1>2, <2>1 DEF Become, SameState
  <2> QED
    BY <1>1, <1>4, <1>7, <2>2
<1> QED
  BY <1>5, <1>6, <1>7

LEMMA RefuseDoes ==
  ASSUME Typed, Base, NEW i \in Sockets, Refuse(i)
  PROVE  /\ Can("unreachable") /\ sock[i] = "connecting" /\ sock' = [sock EXCEPT ![i] = "failed"]
         /\ UNCHANGED <<cmds, since, task, greeting, inbox, spoken, beats, heard, torn>>
         /\ \/ /\ i = 0 /\ created' = "failed" /\ conn'.in = conn.in /\ conn'.ws = conn.ws /\ conn'.status = "error"
               /\ conn'.reconnecting = conn.reconnecting /\ conn'.retry = conn.retry /\ sess' = Errored(sess) /\ att' = att
            \/ i # 0 /\ created' = created /\ Tries(i)
            \/ i # 0 /\ created' = created /\ SameState /\ att[i].at # "opening"
<1>0. State \in StateType /\ State.conn = conn /\ State.sess = sess /\ State.att = att
  BY StateTyped DEF State, Typed
<1>1. CASE i = 0
  <2> DEFINE c == [conn EXCEPT !.status = "error"]
             r == [State EXCEPT !.conn.status = "error", !.sess = Errored(@)]
  <2>1. r = [conn |-> c, sess |-> Errored(sess), att |-> att]
    <3>1. r = [State EXCEPT !.conn = c, !.sess = Errored(sess)]
      BY <1>0
    <3>2. [State EXCEPT !.conn = c, !.sess = Errored(sess)] = [conn |-> c, sess |-> Errored(sess), att |-> State.att]
      BY <1>0, TwoFields
    <3> QED
      BY <1>0, <3>1, <3>2
  <2>2. Become(r) /\ created' = "failed"
    BY <1>1 DEF Refuse
  <2>3. conn' = c /\ sess' = Errored(sess) /\ att' = att
    BY <2>1, <2>2 DEF Become
  <2> QED
    BY <1>0, <1>1, <2>2, <2>3 DEF Refuse, StateType, ConnType
<1>2. CASE i # 0
  <2>1. i \in Attempts /\ Become(Rejected(State, i)) /\ created' = created
    BY <1>2 DEF Refuse, Attempts
  <2>2. Tries(i) \/ (att[i].at # "opening" /\ UNCHANGED <<conn, sess, att>>)
    BY <2>1, RejectedDoes DEF Base
  <2> QED
    BY <1>2, <2>1, <2>2 DEF Refuse, SameState
<1> QED
  BY <1>1, <1>2

\* connect goes on, or a socket replaces another and a flush may begin.
LEMMA GreetDoes ==
  ASSUME Typed, NEW i \in Sockets, Greet(i)
  PROVE  /\ i \in greeting /\ greeting' = greeting \ {i} /\ UNCHANGED <<cmds, since, sock, inbox, spoken, heard, torn>>
         /\ beats' = IF conn.in THEN [beats EXCEPT !.on = TRUE, !.awaited = FALSE] ELSE beats
         /\ conn'.in = conn.in /\ conn'.status = "connected" /\ conn'.pending = conn.pending
         /\ \/ /\ i = 0 /\ conn'.ws = conn.ws /\ conn'.reconnecting = conn.reconnecting /\ conn'.retry = 0
               /\ UNCHANGED <<att, task>> /\ created' = IF created = "pending" THEN "done" ELSE created
               /\ sess' = IF created = "pending" THEN [in |-> TRUE, status |-> "connected", text |-> 0] ELSE Connected(sess)
            \/ /\ i \in Attempts /\ conn'.ws = i /\ ~conn'.reconnecting /\ conn'.retry = conn.retry /\ created' = created
               /\ \/ /\ conn.pending = <<>> /\ UNCHANGED task /\ sess' = Connected(sess) /\ \A b \in Attempts : Old(i, b)
                  \/ /\ conn.pending # <<>> /\ sess' = sess /\ att' = att
                     /\ task' = [task EXCEPT ![<<"flush", i>>] = [NoTask EXCEPT !.at = "next", !.pos = 1]]
<1>0. conn \in ConnType /\ sess \in SessionType /\ att \in [Attempts -> AttemptType]
  BY DEF Typed, ConnTyped, SessionTyped
<1>1. /\ i \in greeting /\ greeting' = greeting \ {i} /\ UNCHANGED <<cmds, since, sock, inbox, spoken, heard, torn>>
      /\ beats' = IF conn.in THEN [beats EXCEPT !.on = TRUE, !.awaited = FALSE] ELSE beats
  BY DEF Greet
<1>2. CASE i = 0
  <2>1. conn' = [conn EXCEPT !.status = "connected", !.retry = 0]
    BY <1>2 DEF Greet
  <2>2. /\ conn'.in = conn.in /\ conn'.status = "connected" /\ conn'.pending = conn.pending
        /\ conn'.ws = conn.ws /\ conn'.reconnecting = conn.reconnecting /\ conn'.retry = 0
    BY <1>0, <2>1 DEF ConnType
  <2> QED
    BY <1>1, <1>2, <2>2 DEF Greet
<1>3. CASE i # 0
  <2> DEFINE s == Replaced(State, i)
             c == [conn EXCEPT !.ws = i, !.status = "connected", !.reconnecting = FALSE]
  <2>1. i \in Attempts /\ created' = created
    BY <1>3 DEF Attempts, Greet
  <2>2. /\ c \in ConnType /\ c.pending = conn.pending /\ c.in = conn.in /\ c.ws = i /\ c.status = "connected"
        /\ ~c.reconnecting /\ c.retry = conn.retry
    BY <1>0 DEF ConnType, Statuses, Active
  <2>3. s = [conn |-> c, sess |-> sess, att |-> att]
    <3>1. State \in StateType /\ State.conn = conn /\ State.sess = sess /\ State.att = att
      BY StateTyped DEF State, Typed
    <3> DEFINE x == State
    <3>2. s = [[[x EXCEPT !.conn.ws = i] EXCEPT !.conn.status = "connected"] EXCEPT !.conn.reconnecting = FALSE]
      BY <3>1 DEF Replaced, StateType
    <3> QED
      BY <3>1, <3>2 DEF StateType, ConnType
  <2>4. s \in StateType
    BY <1>0, <2>2, <2>3 DEF StateType
  <2>5. CASE conn.pending = <<>>
    <3> DEFINE q == [s EXCEPT !.sess = Connected(@)]
    <3>1. q = [conn |-> c, sess |-> Connected(sess), att |-> att] /\ q \in StateType
      <4>1. Connected(sess) \in SessionType
        BY <1>0, Callbacks
      <4> QED
        BY <1>0, <2>2, <2>3, <4>1 DEF StateType
    <3>2. Become(Resolved(q, i)) /\ task' = task
      BY <1>3, <2>5 DEF Greet
    <3> HIDE DEF s, c
    <3>3. q.conn = c /\ q.sess = Connected(sess) /\ q.att = att
      BY <3>1
    <3> HIDE DEF q
    <3>4. conn' = c /\ sess' = Connected(sess) /\ \A b \in Attempts : Old(i, b)
      <4>1. Resolved(q, i).conn = c /\ Resolved(q, i).sess = Connected(sess) /\ att' = Resolved(q, i).att
        BY <2>1, <3>1, <3>2, <3>3, ResolvedTyped DEF Become
      <4> QED
        BY <2>1, <3>1, <3>2, <3>3, <4>1, ResolvedDoes DEF Become
    <3> QED
      BY <1>1, <2>1, <2>2, <2>5, <3>2, <3>4
  <2>6. CASE conn.pending # <<>>
    <3>1. Become(s) /\ task' = [task EXCEPT ![<<"flush", i>>] = [NoTask EXCEPT !.at = "next", !.pos = 1]]
      BY <1>3, <2>6 DEF Greet
    <3>2. conn' = c /\ sess' = sess /\ att' = att
      BY <2>3, <3>1 DEF Become
    <3> HIDE DEF s, c
    <3> QED
      BY <1>1, <2>1, <2>2, <2>6, <3>1, <3>2
  <2> QED
    BY <2>5, <2>6
<1> QED
  BY <1>2, <1>3
-----------------------------------------------------------------------------
(* The base is kept: its parts                                             *)

\* What a step of the connection is done with when no flush is to go on.
Calm == Flushes = {} /\ UNCHANGED <<store, told, over, timer, finished>>

LEMMA NoneNext ==
  ASSUME Flushes = {}
  PROVE  \A a \in Attempts : <<"flush", a>> \in Tasks /\ task[<<"flush", a>>].at # "next"
BY DEF Flushes, Tasks

PacketsSame == \A p \in Packets : task'[<<"packet", p>>].at = task[<<"packet", p>>].at
FlushesSame == \A a \in Attempts : task'[<<"flush", a>>].at = task[<<"flush", a>>].at

LEMMA TasksSame ==
  ASSUME UNCHANGED task
  PROVE  PacketsSame /\ FlushesSame
BY DEF PacketsSame, FlushesSame

LEMMA UnreadyStays ==
  ASSUME Unready, created # "done", sess'.in = sess.in, UNCHANGED <<store, cmds>>, PacketsSame
  PROVE  Unready'
BY DEF Unready, PacketsSame

LEMMA UnreadyDone ==
  ASSUME created' = "done"
  PROVE  Unready'
BY DEF Unready

LEMMA FlushesStay ==
  ASSUME Flushes = {}, FlushesGoOn, FlushesSame
  PROVE  FlushesGoOn'
BY NoneNext DEF FlushesGoOn, FlushesSame

LEMMA CountedSame ==
  ASSUME Typed, Counted, Typed', \A b \in Attempts : att'[b].at = "none" <=> att[b].at = "none",
         conn'.in => conn.in /\ conn'.retry >= conn.retry, created' = "pending" => created = "pending"
  PROVE  Counted'
<1>1. PICK n \in 0 .. MaxRetries + 1 : Count(n)
  BY DEF Counted
<1>2. n \in Nat /\ conn.retry \in Nat /\ conn'.retry \in Nat
  BY Numbers DEF Typed, ConnTyped, ConnType
<1>3. Count(n)'
  BY <1>1, <1>2 DEF Count
<1> QED
  BY <1>1, <1>3, Numbers DEF Counted

LEMMA CountedMore ==
  ASSUME Typed, Counted, Typed', NEW i, Waiting(i), conn.in, conn.retry < MaxRetries, conn'.retry = conn.retry + 1,
         created' = "pending" => \A b \in Attempts : att[b].at = "none"
  PROVE  Counted'
<1>1. PICK n \in 0 .. MaxRetries + 1 : Count(n)
  BY DEF Counted
<1>2. n \in Nat /\ conn.retry \in Nat /\ MaxRetries \in Nat \ {0} /\ n <= MaxRetries /\ n + 1 \in 0 .. MaxRetries + 1
  BY <1>1, Numbers DEF Typed, ConnTyped, ConnType, Count
<1>3. PICK a \in Attempts : /\ att[a].at = "none" /\ (\A b \in Attempts : b < a => att[b].at # "none")
                            /\ att'[a].at = "waiting" /\ \A b \in Attempts \ {a} : Old(i, b)
  BY DEF Waiting
<1>4. \A b \in Attempts : b \in Nat
  BY Numbers
<1>5. n + 1 \in Attempts
  BY <1>2 DEF Attempts, Sockets
<1>6. a = n + 1
  <2>1. ~(a <= n) /\ ~(n + 1 < a)
    BY <1>1, <1>2, <1>3, <1>4, <1>5 DEF Count
  <2> QED
    BY <1>2, <1>4, <2>1
<1>7. ASSUME NEW b \in Attempts PROVE att'[b].at # "none" <=> b <= n + 1
  <2>1. CASE b = a
    BY <1>3, <1>6, <2>1, <1>2, <1>4
  <2>2. CASE b # a
    BY <1>1, <1>2, <1>3, <1>4, <1>6, <2>2 DEF Count, Old
  <2> QED
    BY <2>1, <2>2
<1>8. created' = "pending" => n = 0
  <2>1. 1 \in Attempts
    BY <1>2 DEF Attempts, Sockets
  <2> QED
    BY <1>1, <1>2, <2>1 DEF Count
<1>9. n + 1 <= conn'.retry + 1
  BY <1>1, <1>2 DEF Count
<1>10. Count(n + 1)'
  BY <1>2, <1>7, <1>8, <1>9 DEF Count
<1> QED
  BY <1>2, <1>10, Numbers DEF Counted

LEMMA CountedTries ==
  ASSUME Typed, Counted, Typed', NEW i, Tries(i),
         created' = "pending" => created = "pending" /\ \A b \in Attempts : att[b].at = "none"
  PROVE  Counted'
<1>1. CASE \A b \in Attempts : Old(i, b)
  <2>1. \A b \in Attempts : att'[b].at = "none" <=> att[b].at = "none"
    BY <1>1 DEF Old
  <2>2. conn'.in => conn.in /\ conn'.retry >= conn.retry
    <3>1. conn.retry \in Nat
      BY DEF Typed, ConnTyped, ConnType
    <3>2. conn'.in => conn.in /\ (conn'.retry = conn.retry \/ conn'.retry = conn.retry + 1)
      BY DEF Tries, SameConn
    <3> QED
      BY <3>1, <3>2
  <2> QED
    BY <2>1, <2>2, CountedSame
<1>2. CASE ~(\A b \in Attempts : Old(i, b))
  BY <1>2, CountedMore DEF Tries
<1> QED
  BY <1>1, <1>2

LEMMA LinkedTries ==
  ASSUME Linked, NEW i, Tries(i), NEW j \in Sockets, sock[j] # "none", NEW x, sock' = [sock EXCEPT ![j] = x]
  PROVE  Linked'
<1>1. ASSUME NEW a \in Attempts, att'[a].at \in {"none", "waiting"} PROVE sock[a] = "none"
  BY <1>1 DEF Linked, Tries, Waiting, Old
<1> QED
  BY <1>1 DEF Linked

LEMMA LinkedSame ==
  ASSUME Linked, \A b \in Attempts : att'[b].at \in {"none", "waiting"} => att[b].at \in {"none", "waiting"},
         \A a \in Attempts : sock[a] = "none" => sock'[a] = "none"
  PROVE  Linked'
BY DEF Linked
-----------------------------------------------------------------------------
(* The base is kept: steps of sockets                                      *)

LEMMA ConnectBase ==
  ASSUME Typed, Blank, Base, Typed', Connect, Calm
  PROVE  Base'
<1>1. /\ created = "no" /\ created' = "pending" /\ sock' = [sock EXCEPT ![0] = "connecting"]
      /\ conn' = [NoConn EXCEPT !.in = TRUE, !.status = "connecting"]
      /\ UNCHANGED <<sess, cmds, since, att, task, greeting, inbox, spoken, beats, heard, torn>>
  BY DEF Connect
<1>2. /\ ~conn.in /\ greeting = {} /\ \A i \in Sockets : sock[i] = "none"
  BY <1>1 DEF Blank
<1>3. /\ \A a \in Attempts : att[a].at = "none"
  BY <1>1 DEF Blank
<1>4. /\ \A t \in Tasks : task[t].at = "idle"
  BY <1>1 DEF Blank
<1>5. conn'.in /\ conn'.ws = 0 /\ conn'.retry = 0
  BY <1>1 DEF NoConn
<1>6. Unready'
  BY <1>1, UnreadyStays, TasksSame DEF Base, Calm, Unready
<1>7. inbox = {} /\ ~beats.on /\ ~beats.packing /\ ~beats.awaited
  BY <1>1 DEF Base, Unused
<1>8. Unused' /\ First'
  <2>1. Unused'
    BY <1>1, <1>7 DEF Unused
  <2>2. \A a \in Attempts : a # 0
    BY Numbers DEF Attempts
  <2>3. 0 \in DOMAIN sock
    BY Numbers DEF Typed, ConnTyped
  <2>4. sock'[0] = "connecting" /\ \A a \in Attempts : sock'[a] = "none"
    BY <1>1, <1>2, <2>2, <2>3, Numbers
  <2>5. created' = "pending" /\ greeting' = {} /\ task' = task /\ att' = att
    BY <1>1, <1>2
  <2> QED
    BY <1>3, <1>4, <1>5, <2>1, <2>4, <2>5 DEF First
<1>9. FlushesGoOn'
  BY <1>1, FlushesStay, TasksSame DEF Base, Calm
<1>10. Linked'
  BY <1>1, <1>2, LinkedSame DEF Base, Typed, ConnTyped, Attempts
<1>11. Counted'
  <2>1. 0 \in 0 .. MaxRetries + 1
    BY Numbers
  <2>2. \A a \in Attempts : ~(a <= 0)
    BY Numbers DEF Attempts
  <2>3. Count(0)'
    BY <1>1, <1>3, <1>5, <2>2 DEF Count
  <2> QED
    BY <2>1, <2>3 DEF Counted
<1> QED
  BY <1>6, <1>8, <1>9, <1>10, <1>11 DEF Base

LEMMA OpenBase ==
  ASSUME Typed, Base, Typed', NEW i \in Sockets, Open(i), Calm
  PROVE  Base'
<1>1. /\ sock[i] = "connecting" /\ sock' = [sock EXCEPT ![i] = "open"] /\ greeting' = greeting \cup {i}
      /\ UNCHANGED <<created, sess, cmds, since, conn, att, task, inbox, spoken, beats, heard, torn>>
  BY DEF Open
<1>2. Unready'
  BY <1>1, UnreadyStays, UnreadyDone, TasksSame DEF Base, Calm
<1>3. Unused'
  BY <1>1 DEF Base, Unused
<1>4. First'
  <2>1. sock' = [sock EXCEPT ![i] = "open"] /\ i \in DOMAIN sock
    BY <1>1 DEF Typed, ConnTyped
  <2>2. \A a \in Attempts : a # 0 /\ (sock[a] = "none" => sock'[a] = "none")
    BY <1>1, <2>1, Numbers DEF Attempts
  <2>3. CASE created # "pending"
    <3>1. i # 0
      BY <1>1, <2>3 DEF Base, First
    <3> QED
      BY <1>1, <2>1, <2>3, <3>1 DEF Base, First
  <2>4. CASE created = "pending"
    <3>1. \A a \in Attempts : sock[a] = "none"
      BY <2>4 DEF Base, First
    <3>2. i = 0
      BY <1>1, <3>1, Numbers DEF Attempts
    <3>3. sock[0] = "connecting" /\ sock'[0] = "open" /\ greeting' = {0}
      BY <1>1, <2>1, <2>4, <3>2 DEF Base, First
    <3> QED
      BY <1>1, <2>2, <2>4, <3>3 DEF Base, First
  <2> QED
    BY <2>3, <2>4
<1>5. FlushesGoOn'
  BY <1>1, FlushesStay, TasksSame DEF Base, Calm
<1>6. Linked'
  BY <1>1, LinkedSame DEF Base, Typed, ConnTyped
<1>7. conn'.in => conn.in /\ conn'.retry >= conn.retry
  BY <1>1 DEF Typed, ConnTyped, ConnType
<1>8. Counted'
  BY <1>1, <1>7, CountedSame DEF Base
<1> QED
  BY <1>2, <1>3, <1>4, <1>5, <1>6, <1>8 DEF Base

LEMMA GreetBase ==
  ASSUME Typed, Blank, Base, Typed', NEW i \in Sockets, Greet(i), Calm
  PROVE  Base'
<1>1. /\ i \in greeting /\ greeting' = greeting \ {i} /\ UNCHANGED <<cmds, since, sock, inbox, spoken, heard, torn>>
      /\ beats' = IF conn.in THEN [beats EXCEPT !.on = TRUE, !.awaited = FALSE] ELSE beats
      /\ conn'.in = conn.in /\ conn'.status = "connected" /\ conn'.pending = conn.pending
  BY GreetDoes
<1>2. CASE i = 0
  <2>1. UNCHANGED <<att, task>> /\ created = "pending" /\ created' = "done" /\ conn'.retry = 0
    BY <1>1, <1>2, GreetDoes DEF Base, First, Attempts
  <2>2. Unready' /\ Unused'
    BY <2>1, UnreadyDone DEF Unused
  <2>3. First'
    BY <1>1, <1>2, <2>1 DEF Base, First
  <2>4. FlushesGoOn'
    BY <2>1, FlushesStay, TasksSame DEF Base, Calm
  <2>5. Linked'
    BY <1>1, <2>1, LinkedSame DEF Base
  <2>6. PICK n \in 0 .. MaxRetries + 1 : Count(n)
    BY DEF Base, Counted
  <2>7. n <= 1 /\ 1 <= 0 + 1
    BY <2>1, <2>6 DEF Count
  <2>8. n <= conn'.retry + 1
    BY <2>1, <2>7
  <2>9. Count(n)'
    BY <2>1, <2>6, <2>8 DEF Count
  <2> QED
    BY <2>2, <2>3, <2>4, <2>5, <2>9, Numbers DEF Base, Counted
<1>3. CASE i # 0
  <2>1. /\ i \in Attempts /\ conn'.ws = i /\ ~conn'.reconnecting /\ conn'.retry = conn.retry /\ created' = created
        /\ \/ /\ conn.pending = <<>> /\ UNCHANGED task /\ sess' = Connected(sess) /\ \A b \in Attempts : Old(i, b)
           \/ /\ conn.pending # <<>> /\ sess' = sess /\ att' = att
              /\ task' = [task EXCEPT ![<<"flush", i>>] = [NoTask EXCEPT !.at = "next", !.pos = 1]]
    BY <1>3, GreetDoes
  <2>2. created # "pending"
    BY <1>1, <1>3 DEF Base, First
  <2>3. sess'.in = sess.in
    BY <2>1, Callbacks DEF Typed, SessionTyped
  <2>4. PacketsSame
    BY <2>1 DEF PacketsSame, Tasks, Typed, ConnTyped
  <2>5. Unready'
    BY <1>1, <2>1, <2>3, <2>4, UnreadyStays, UnreadyDone DEF Calm, Base
  <2>6. created # "no"
    BY <1>1 DEF Blank
  <2>7. Unused' /\ First'
    BY <1>1, <2>1, <2>2, <2>6 DEF Unused, First, Base
  <2>8. FlushesGoOn'
    <3> DEFINE n == [NoTask EXCEPT !.at = "next", !.pos = 1]
    <3>0. n.at = "next"
      BY DEF NoTask
    <3> HIDE DEF n
    <3>1. \A a \in Attempts : task'[<<"flush", a>>].at # "awaiting"
      BY <2>1, <3>0 DEF FlushesGoOn, Base, Typed, ConnTyped, Tasks, n
    <3> QED
      BY <1>1, <3>1 DEF FlushesGoOn, Active
  <2>9. \A b \in Attempts : Old(i, b)
    BY <2>1 DEF Old
  <2>10. Linked'
    BY <1>1, <2>9, LinkedSame DEF Base, Old
  <2>11. conn'.in => conn.in /\ conn'.retry >= conn.retry
    BY <1>1, <2>1 DEF Typed, ConnTyped, ConnType
  <2>12. Counted'
    BY <2>1, <2>9, <2>11, CountedSame DEF Base, Old
  <2> QED
    BY <2>5, <2>7, <2>8, <2>10, <2>12 DEF Base
<1> QED
  BY <1>2, <1>3

LEMMA RefuseBase ==
  ASSUME Typed, Base, Typed', NEW i \in Sockets, Refuse(i), Calm
  PROVE  Base'
<1>1. /\ Can("unreachable") /\ sock[i] = "connecting" /\ sock' = [sock EXCEPT ![i] = "failed"]
      /\ UNCHANGED <<cmds, since, task, greeting, inbox, spoken, beats, heard, torn>>
  BY RefuseDoes
<1>2. FlushesGoOn'
  BY <1>1, FlushesStay, TasksSame DEF Base, Calm
<1>3. CASE i = 0
  <2>1. /\ created' = "failed" /\ conn'.in = conn.in /\ conn'.retry = conn.retry /\ sess' = Errored(sess) /\ att' = att
    BY <1>3, RefuseDoes
  <2>2. created = "pending" /\ greeting = {}
    BY <1>1, <1>3 DEF Base, First
  <2>3. sess'.in = sess.in
    BY <2>1, Callbacks DEF Typed, SessionTyped
  <2>4. Unready'
    BY <1>1, <2>2, <2>3, UnreadyStays, TasksSame DEF Calm, Base
  <2>5. Unused' /\ First'
    BY <1>1, <1>3, <2>1, <2>2, Numbers DEF Unused, First, Typed, ConnTyped
  <2>6. Linked'
    BY <1>1, <2>1, LinkedSame DEF Base, Typed, ConnTyped
  <2>7. conn'.in => conn.in /\ conn'.retry >= conn.retry
    BY <2>1 DEF Typed, ConnTyped, ConnType
  <2>8. Counted'
    BY <2>1, <2>7, CountedSame DEF Base
  <2> QED
    BY <1>2, <2>4, <2>5, <2>6, <2>8 DEF Base
<1>4. CASE i # 0
  <2>0. i \in Attempts
    BY <1>4 DEF Attempts
  <2>1. created' = created /\ (Tries(i) \/ SameState)
    BY <1>4, RefuseDoes
  <2>2. created # "pending"
    BY <1>1, <2>0 DEF Base, First
  <2>3. sess'.in = sess.in
    BY <2>1, Callbacks DEF Typed, SessionTyped, Tries, SameState
  <2>4. Unready'
    BY <1>1, <2>1, <2>3, UnreadyStays, UnreadyDone, TasksSame DEF Calm, Base
  <2>5. sock'[0] = sock[0]
    BY <1>1, <1>4, Numbers DEF Typed, ConnTyped
  <2>6. Unused' /\ First'
    BY <1>1, <2>1, <2>2, <2>5 DEF Base, Unused, First
  <2>7. CASE Tries(i)
    BY <1>1, <1>2, <2>1, <2>2, <2>4, <2>6, <2>7, CountedTries, LinkedTries DEF Base
  <2>8. CASE SameState
    <3>1. Linked'
      BY <1>1, <2>8, LinkedSame DEF Base, Typed, ConnTyped, SameState
    <3>2. conn'.in => conn.in /\ conn'.retry >= conn.retry
      BY <2>8 DEF Typed, ConnTyped, ConnType, SameState
    <3>3. Counted'
      BY <2>1, <2>8, <3>2, CountedSame DEF Base, SameState
    <3> QED
      BY <1>2, <2>4, <2>6, <3>1, <3>3 DEF Base
  <2> QED
    BY <2>1, <2>7, <2>8
<1> QED
  BY <1>3, <1>4

LEMMA CloseBase ==
  ASSUME Typed, Base, Typed', NEW i \in Sockets, Close(i), Calm
  PROVE  Base'
<1>1. /\ sock[i] \in {"open", "failed", "dropping", "closing"} /\ sock' = [sock EXCEPT ![i] = "closed"]
      /\ UNCHANGED <<created, cmds, since, task, greeting, inbox, spoken, heard>> /\ beats' = StopBeats
  BY CloseDoes
<1>2. Tries(0) \/ Ends \/ SameState
  BY CloseDoes
<1>3. sess'.in = sess.in /\ conn'.in = conn.in /\ conn'.ws = conn.ws
  BY <1>2, Callbacks DEF Typed, SessionTyped, Tries, Ends, SameState
<1>4. Unready'
  BY <1>1, <1>3, UnreadyStays, UnreadyDone, TasksSame DEF Calm, Base
<1>5. FlushesGoOn'
  BY <1>1, FlushesStay, TasksSame DEF Base, Calm
<1>6. Unused'
  <2>1. Unused => (created \in {"no", "pending"} => inbox' = {} /\ ~beats'.on /\ ~beats'.packing /\ ~beats'.awaited)
    BY <1>1 DEF Unused, StopBeats, Typed, ConnTyped
  <2> QED
    BY <1>1, <2>1 DEF Base, Unused
<1>7. First'
  <2>1. CASE created = "pending"
    <3>1. i = 0 /\ sock[0] = "open" /\ greeting = {0} /\ \A a \in Attempts : att[a].at = "none"
      BY <1>1, <2>1 DEF Base, First, Attempts
    <3>2. \A a \in Attempts : att'[a].at \in {"none", "waiting"}
      BY <1>2, <3>1 DEF Tries, Waiting, Old, Ends, SameState
    <3> QED
      BY <1>1, <1>3, <2>1, <3>1, <3>2, Numbers DEF Base, First, Typed, ConnTyped, Attempts
  <2>2. CASE created # "pending"
    BY <1>1, <2>2, Numbers DEF Base, First, Typed, ConnTyped
  <2> QED
    BY <2>1, <2>2
<1>8. created' = "pending" => created = "pending" /\ \A b \in Attempts : att[b].at = "none"
  BY <1>1 DEF Base, First, Attempts
<1>9. CASE Tries(0)
  BY <1>1, <1>4, <1>5, <1>6, <1>7, <1>8, <1>9, CountedTries, LinkedTries DEF Base
<1>10. CASE Ends \/ SameState
  <2>1. att' = att /\ conn'.retry = conn.retry
    BY <1>10 DEF Ends, SameState
  <2>2. conn'.in => conn.in /\ conn'.retry >= conn.retry
    BY <1>3, <2>1 DEF Typed, ConnTyped, ConnType
  <2>3. Counted'
    BY <1>8, <2>1, <2>2, CountedSame DEF Base
  <2>4. Linked'
    BY <1>1, <2>1, LinkedSame DEF Base, Typed, ConnTyped
  <2> QED
    BY <1>4, <1>5, <1>6, <1>7, <2>3, <2>4 DEF Base
<1> QED
  BY <1>2, <1>9, <1>10

LEMMA AfterDelayBase ==
  ASSUME Typed, Base, Typed', NEW i \in Attempts, AfterDelay(i), Calm
  PROVE  Base'
<1>1. /\ att[i].at = "waiting" /\ Settled
      /\ UNCHANGED <<created, sess, cmds, since, conn, task, greeting, inbox, spoken, beats, heard, torn>>
      /\ \/ att' = [att EXCEPT ![i].at = "cancelled"] /\ UNCHANGED sock
         \/ att' = [att EXCEPT ![i].at = "opening"] /\ sock' = [sock EXCEPT ![i] = "connecting"]
  BY DEF AfterDelay
<1>2. created # "pending"
  <2>1. greeting = {}
    BY <1>1 DEF Settled
  <2> QED
    BY <1>1, <2>1 DEF Base, First
<1>3. att'[i].at \in {"cancelled", "opening"} /\ \A b \in Attempts \ {i} : att'[b] = att[b]
  BY <1>1 DEF Typed, ConnTyped, AttemptType
<1>4. Unready'
  BY <1>1, UnreadyStays, UnreadyDone, TasksSame DEF Calm, Base
<1>5. FlushesGoOn'
  BY <1>1, FlushesStay, TasksSame DEF Base, Calm
<1>6. Unused' /\ First'
  <2>1. sock'[0] = sock[0]
    BY <1>1, Numbers DEF Typed, ConnTyped, Attempts
  <2> QED
    BY <1>1, <1>2, <2>1 DEF Base, Unused, First
<1>7. Linked'
  <2>1. ASSUME NEW a \in Attempts, att'[a].at \in {"none", "waiting"} PROVE sock'[a] = "none"
    <3>1. a # i /\ sock[a] = "none"
      BY <1>3, <2>1 DEF Base, Linked
    <3> QED
      BY <1>1, <3>1, Numbers DEF Typed, ConnTyped
  <2> QED
    BY <2>1 DEF Linked
<1>8. conn'.in => conn.in /\ conn'.retry >= conn.retry
  BY <1>1 DEF Typed, ConnTyped, ConnType
<1>9. \A b \in Attempts : att'[b].at = "none" <=> att[b].at = "none"
  BY <1>1, <1>3
<1>10. Counted'
  BY <1>1, <1>8, <1>9, CountedSame DEF Base
<1> QED
  BY <1>4, <1>5, <1>6, <1>7, <1>10 DEF Base

\* Heartbeats, and what comes in.
LEMMA WireBase ==
  ASSUME Typed, Base, Typed', Flushes = {}, UNCHANGED <<created, att, task, greeting>>,
         conn'.in = conn.in, conn'.ws = conn.ws, conn'.retry = conn.retry,
         sock' = sock \/ (IsOpen(conn.ws) /\ \E x \in {"dropping", "closing"} : sock' = [sock EXCEPT ![conn.ws] = x]),
         Unused', Unready', created = "pending" => sock' = sock
  PROVE  Base'
<1>1. First'
  <2>1. sock[0] # "connecting" => sock'[0] # "connecting"
    BY Numbers DEF Typed, ConnTyped
  <2> QED
    BY <2>1 DEF Base, First
<1>2. FlushesGoOn'
  BY FlushesStay, TasksSame DEF Base
<1>3. Linked'
  <2>1. ASSUME NEW a \in Attempts, sock[a] = "none" PROVE sock'[a] = "none"
    BY <2>1, Numbers DEF IsOpen, Typed, ConnTyped
  <2> QED
    BY <2>1, LinkedSame DEF Base
<1>4. conn'.in => conn.in /\ conn'.retry >= conn.retry
  BY DEF Typed, ConnTyped, ConnType
<1>5. Counted'
  BY <1>4, CountedSame DEF Base
<1> QED
  BY <1>1, <1>2, <1>3, <1>5 DEF Base

LEMMA BeatBase ==
  ASSUME Typed, Base, Typed', Beat \/ Beaten \/ BeatTimeout, Calm
  PROVE  Base'
<1>1. UNCHANGED <<created, sess, cmds, since, att, task, greeting, inbox, spoken, heard>>
  BY DEF Beat, Beaten, BeatTimeout
<1>2. created \notin {"no", "pending"}
  BY DEF Beat, Beaten, BeatTimeout, Base, Unused
<1>3. Unused'
  BY <1>1, <1>2 DEF Unused
<1>4. Unready'
  BY <1>1, UnreadyStays, UnreadyDone, TasksSame DEF Calm, Base
<1>5. CASE Beat \/ Beaten
  BY <1>1, <1>3, <1>4, <1>5, WireBase DEF Beat, Beaten, Calm
<1>6. CASE BeatTimeout
  <2>1. conn'.in = conn.in /\ conn'.ws = conn.ws /\ conn'.retry = conn.retry
    BY <1>6 DEF BeatTimeout, Typed, ConnTyped, ConnType
  <2>2. sock' = sock \/ (IsOpen(conn.ws) /\ sock' = [sock EXCEPT ![conn.ws] = "dropping"])
    BY <1>6 DEF BeatTimeout, IsOpen, Typed, ConnTyped
  <2> QED
    BY <1>1, <1>2, <1>3, <1>4, <2>1, <2>2, WireBase DEF Calm
<1> QED
  BY <1>5, <1>6

LEMMA ReceiveBase ==
  ASSUME Typed, Blank, Base, Typed', NEW i \in Sockets, NEW kind \in Kinds, Receive(i, kind), Flushes = {}, UNCHANGED store
  PROVE  Base'
<1>1. UNCHANGED <<created, sess, cmds, since, conn, sock, att, task, greeting>>
  BY DEF Receive
<1>2. sock[i] \in {"open", "closing", "dropping"} /\ i \notin greeting
  BY DEF Receive
<1>3. created \notin {"no", "pending"}
  BY <1>2 DEF Blank, Base, First, Attempts
<1>4. Unused'
  BY <1>1, <1>3 DEF Unused
<1>5. Unready'
  BY <1>1, UnreadyStays, UnreadyDone, TasksSame DEF Base
<1> QED
  BY <1>1, <1>4, <1>5, WireBase

LEMMA ParseBase ==
  ASSUME Typed, Base, Typed', NEW r \in inbox, Parse(r), Flushes = {}, UNCHANGED store
  PROVE  Base'
<1>1. UNCHANGED <<created, sock, att, task, greeting>>
  BY DEF Parse
<1>2. created \notin {"no", "pending"}
  BY DEF Base, Unused
<1>3. Unused'
  BY <1>1, <1>2 DEF Unused
<1>4. conn'.in = conn.in /\ conn'.ws = conn.ws /\ conn'.retry = conn.retry
  BY DEF Parse, Typed, ConnTyped, ConnType
<1>5. Unready'
  <2>1. CASE created = "done"
    BY <1>1, <2>1, UnreadyDone
  <2>2. CASE created # "done"
    <3>1. ~sess.in
      BY <2>2 DEF Base, Unready
    <3>2. sess' = sess /\ cmds' = cmds
      BY <3>1 DEF Parse, HandleResult, Errored
    <3> QED
      BY <1>1, <2>2, <3>2, UnreadyStays, TasksSame DEF Base
  <2> QED
    BY <2>1, <2>2
<1> QED
  BY <1>1, <1>2, <1>3, <1>4, <1>5, WireBase

\* An attempt is not made, and one that waits goes on waiting.
NoneMade ==
  /\ conn'.in = conn.in /\ conn'.retry = conn.retry
  /\ \A b \in Attempts : att'[b].at = att[b].at \/ (att[b].at = "opening" /\ att'[b].at = "ended")

\* Runs of sendAudio.
LEMMA RunBase ==
  ASSUME Typed, Blank, Base, Typed', NEW t \in Tasks, UNCHANGED Wires, UNCHANGED store, sess'.in = sess.in,
         IF IsPacket(t) THEN created = "done" ELSE task[t].at # "idle" /\ PacketsSame /\ cmds' = cmds,
         FlushesGoOn', Tries(0) \/ NoneMade
  PROVE  Base'
<1>1. UNCHANGED <<created, sock, greeting, inbox, beats>>
  BY DEF Wires
<1>2. created \notin {"no", "pending"}
  BY DEF Blank, Base, First
<1>3. Unused' /\ First'
  BY <1>1, <1>2 DEF Base, Unused, First
<1>4. Unready'
  BY <1>1, UnreadyStays, UnreadyDone DEF Base
<1>5. CASE Tries(0)
  <2>1. sock' = [sock EXCEPT ![0] = sock[0]] \/ sock[0] = "none"
    BY <1>1 DEF Typed, ConnTyped
  <2>2. Linked'
    <3>1. ASSUME NEW a \in Attempts, att'[a].at \in {"none", "waiting"} PROVE sock[a] = "none"
      BY <1>5, <3>1 DEF Base, Linked, Tries, Waiting, Old
    <3> QED
      BY <1>1, <3>1 DEF Linked
  <2> QED
    BY <1>1, <1>2, <1>3, <1>4, <1>5, <2>2, CountedTries DEF Base
<1>6. CASE NoneMade
  <2>1. Linked'
    BY <1>1, <1>6, LinkedSame DEF Base, NoneMade
  <2>2. conn'.in => conn.in /\ conn'.retry >= conn.retry
    BY <1>6 DEF NoneMade, Typed, ConnTyped, ConnType
  <2>3. Counted'
    BY <1>1, <1>6, <2>2, CountedSame DEF Base, NoneMade
  <2> QED
    BY <1>3, <1>4, <2>1, <2>3 DEF Base
<1> QED
  BY <1>5, <1>6

LEMMA RunTries ==
  ASSUME Typed, NEW t, Rests(t) \/ Starts(t) \/ Asks(t)
  PROVE  (Tries(0) \/ NoneMade) /\ sess'.in = sess.in
<1>1. CASE Rests(t)
  BY <1>1 DEF Rests, NoneMade, SameConn
<1>2. CASE Starts(t)
  BY <1>2 DEF Starts, NoneMade
<1>3. CASE Asks(t)
  BY <1>3, Callbacks DEF Asks, Tries, Typed, SessionTyped
<1> QED
  BY <1>1, <1>2, <1>3

LEMMA PacketRunBase ==
  ASSUME Typed, Blank, Base, Typed', NEW t \in Tasks, IsPacket(t), Others(t), Rests(t) \/ Starts(t) \/ Asks(t),
         created = "done", UNCHANGED Wires, Calm
  PROVE  Base'
<1>1. FlushesSame
  BY DEF Others, FlushesSame, Tasks, IsPacket
<1>2. FlushesGoOn'
  BY <1>1, FlushesStay DEF Base, Calm
<1> QED
  BY <1>2, RunTries, RunBase DEF Calm

LEMMA ResumeBase ==
  ASSUME Typed, Blank, Base, Typed', NEW t \in Tasks, Resume(t), Calm
  PROVE  Base'
<1>1. IsPacket(t) /\ Others(t) /\ (Rests(t) \/ Starts(t))
  BY ResumeDoes
<1>2. UNCHANGED Wires /\ task[t].at = "awaiting"
  BY DEF Resume, Wires
<1>3. created = "done"
  BY <1>1, <1>2, TaskKinds DEF Base, Unready
<1> QED
  BY <1>1, <1>2, <1>3, PacketRunBase

LEMMA SendBase ==
  ASSUME Typed, Blank, Base, Typed', NEW p \in Packets, Send(p), Calm
  PROVE  Base'
<1>1. PICK t \in Tasks : IsPacket(t) /\ Others(t) /\ created = "done" /\ (Rests(t) \/ Starts(t) \/ Asks(t))
  BY SendDoes
<1>2. UNCHANGED Wires
  BY DEF Send, Wires
<1> QED
  BY <1>1, <1>2, PacketRunBase

LEMMA PackedBase ==
  ASSUME Typed, Blank, Base, Typed', NEW t \in Tasks, Packed(t), Calm
  PROVE  Base'
<1>1. /\ Others(t) /\ task[t].at = "packing" /\ task'[t].at = IF IsPacket(t) THEN "done" ELSE "next"
      /\ conn'.in = conn.in /\ conn'.ws = conn.ws /\ conn'.status = "streaming"
      /\ conn'.retry = conn.retry /\ sess' = sess /\ att' = att
  BY PackedDoes
<1>2. UNCHANGED Wires
  BY DEF Packed, Wires
<1>3. NoneMade
  BY <1>1 DEF NoneMade
<1>4. FlushesGoOn'
  <2>1. ASSUME NEW a \in Attempts
        PROVE  task'[<<"flush", a>>].at # "awaiting"
    <3>1. <<"flush", a>> \in Tasks
      BY DEF Tasks
    <3>2. CASE t = <<"flush", a>>
      BY <1>1, <3>2 DEF IsPacket
    <3>3. CASE t # <<"flush", a>>
      BY <1>1, <3>1, <3>3 DEF Base, FlushesGoOn, Others
    <3> QED
      BY <3>2, <3>3
  <2> QED
    BY <1>1, <2>1 DEF FlushesGoOn, Active
<1>5. IsPacket(t) => created = "done"
  BY <1>1, TaskKinds DEF Base, Unready
<1>6. ~IsPacket(t) => PacketsSame /\ cmds' = cmds
  BY <1>1 DEF Packed, Return, PacketsSame, Others, Tasks, IsPacket
<1> QED
  BY <1>1, <1>2, <1>3, <1>4, <1>5, <1>6, RunBase DEF Calm

LEMMA FlushBase ==
  ASSUME Typed, Blank, Base, Typed', NEW i \in Attempts, Flush(i), UNCHANGED store
  PROVE  Base'
<1> DEFINE t == <<"flush", i>>
<1>1. /\ t \in Tasks /\ ~IsPacket(t) /\ task[t].at = "next" /\ conn.status \in Active
      /\ (Others(t) /\ (Rests(t) \/ Starts(t))) \/ Empties(i)
  BY FlushDoes
<1>2. UNCHANGED Wires
  BY DEF Flush, Wires
<1>3. cmds' = cmds
  <2>1. CASE t[1] # "packet" /\ SendAudio(t)
    BY <2>1 DEF SendAudio, ToSocket, Pack, Keep, Throw, Return, IsPacket
  <2> QED
    BY <2>1 DEF Flush
<1>4. CASE Others(t) /\ (Rests(t) \/ Starts(t))
  <2>1. conn'.status \in Active /\ task'[t].at # "awaiting"
    BY <1>1, <1>4 DEF Rests, Starts, SameConn
  <2>2. FlushesGoOn'
    <3>1. ASSUME NEW a \in Attempts PROVE task'[<<"flush", a>>].at # "awaiting"
      <4>1. <<"flush", a>> \in Tasks
        BY DEF Tasks
      <4>2. CASE t = <<"flush", a>>
        BY <2>1, <4>2
      <4>3. CASE t # <<"flush", a>>
        BY <1>4, <4>1, <4>3 DEF Base, FlushesGoOn, Others
      <4> QED
        BY <4>2, <4>3
    <3> QED
      BY <2>1, <3>1 DEF FlushesGoOn
  <2>3. PacketsSame
    BY <1>4 DEF PacketsSame, Others, Tasks
  <2> QED
    BY <1>1, <1>2, <1>3, <1>4, <2>2, <2>3, RunTries, RunBase
<1>5. CASE Empties(i)
  <2>1. conn'.status \in Active /\ NoneMade
    BY <1>1, <1>5 DEF Empties, SameConn, NoneMade, Old
  <2>2. PacketsSame
    BY <1>5 DEF PacketsSame, Empties, Tasks
  <2>3. FlushesGoOn'
    <3>1. ASSUME NEW a \in Attempts PROVE task'[<<"flush", a>>].at # "awaiting"
      <4>1. <<"flush", a>> \in Tasks
        BY DEF Tasks
      <4> QED
        BY <1>5, <4>1 DEF Base, FlushesGoOn, Empties
    <3> QED
      BY <2>1, <3>1 DEF FlushesGoOn
  <2>4. sess'.in = sess.in
    BY <1>5, Callbacks DEF Empties, Typed, SessionTyped
  <2> QED
    BY <1>1, <1>2, <1>3, <2>1, <2>2, <2>3, <2>4, RunBase
<1> QED
  BY <1>1, <1>4, <1>5
-----------------------------------------------------------------------------
(* The base is kept: the session, and all steps                            *)

\* disconnect, of a session that is there or is forgotten.
LEMMA DisconnectBase ==
  ASSUME Typed, Base, Typed', Flushes = {}, created = "done", Disconnect \/ UNCHANGED <<conn, sock, beats>>,
         UNCHANGED <<created, att, task, greeting, inbox>>
  PROVE  Base'
<1>1. Unready' /\ Unused'
  BY UnreadyDone DEF Unused
<1>2. sock' = sock \/ (IsOpen(conn.ws) /\ sock' = [sock EXCEPT ![conn.ws] = "closing"])
  BY DEF Disconnect, IsOpen, Typed, ConnTyped
<1>3. conn'.ws = conn.ws /\ conn'.retry = conn.retry /\ (conn'.in => conn.in)
  BY DEF Disconnect, Typed, ConnTyped, ConnType
<1>4. First'
  <2>1. sock[0] # "connecting" => sock'[0] # "connecting"
    BY <1>2, Numbers DEF Typed, ConnTyped
  <2> QED
    BY <2>1 DEF Base, First
<1>5. FlushesGoOn'
  BY FlushesStay, TasksSame DEF Base
<1>6. Linked'
  <2>1. ASSUME NEW a \in Attempts, sock[a] = "none" PROVE sock'[a] = "none"
    BY <1>2, <2>1, Numbers DEF IsOpen, Typed, ConnTyped
  <2> QED
    BY <2>1, LinkedSame DEF Base
<1>7. conn'.in => conn.in /\ conn'.retry >= conn.retry
  BY <1>3 DEF Typed, ConnTyped, ConnType
<1>8. Counted'
  BY <1>7, CountedSame DEF Base
<1> QED
  BY <1>1, <1>4, <1>5, <1>6, <1>8 DEF Base

\* A command that deletes, or a session in memory, is there only after createSession.
LEMMA ThereIsDone ==
  ASSUME Base, sess.in \/ (\E k \in DOMAIN cmds : cmds[k].op # "get") \/ store # None
  PROVE  created = "done"
BY DEF Base, Unready

LEMMA HeadIsThere ==
  ASSUME Typed, cmds # <<>>
  PROVE  Head(cmds) = cmds[1] /\ 1 \in DOMAIN cmds
BY DEF Typed, SessionTyped

LEMMA CrashBase ==
  ASSUME Typed, Base, Typed', Crash
  PROVE  Base'
<1>1. /\ sess' = NoSession /\ conn' = NoConn /\ beats' = Silence /\ cmds' = <<>> /\ created # "no"
      /\ created' = (IF created = "done" THEN "done" ELSE "failed") /\ greeting' = {} /\ inbox' = {} /\ UNCHANGED store
  BY DEF Crash
<1>2. sock' = [i \in Sockets |-> IF sock[i] = "none" THEN "none" ELSE "closed"]
  BY DEF Crash
<1>3. \A a \in Attempts : att'[a].at = IF att[a].at = "none" THEN "none" ELSE "cancelled"
  BY DEF Crash, Typed, ConnTyped, AttemptType
<1>4. \A t \in Tasks : task'[t].at = IF task[t].at \in {"done", "failed", "idle"} THEN task[t].at
                                     ELSE IF IsPacket(t) THEN "failed" ELSE "idle"
  BY DEF Crash, NoTask
<1>5. Unready'
  <2>1. CASE created = "done"
    BY <1>1, <2>1, UnreadyDone
  <2>2. CASE created # "done"
    <3>1. store = None /\ \A p \in Packets : task[<<"packet", p>>].at = "idle"
      BY <2>2 DEF Base, Unready
    <3>2. \A p \in Packets : task'[<<"packet", p>>].at = "idle"
      BY <1>4, <3>1 DEF Tasks
    <3> QED
      BY <1>1, <3>1, <3>2 DEF Unready, NoSession
  <2> QED
    BY <2>1, <2>2
<1>6. Unused' /\ First'
  BY <1>1, <1>2, Numbers DEF Unused, First
<1>7. FlushesGoOn'
  <2>1. \A a \in Attempts : task'[<<"flush", a>>].at \notin {"awaiting", "next"}
    BY <1>4 DEF Tasks, IsPacket
  <2> QED
    BY <2>1 DEF FlushesGoOn
<1>8. Linked'
  BY <1>2, <1>3, Numbers DEF Base, Linked
<1>9. Counted'
  <2>1. ~conn'.in
    BY <1>1 DEF NoConn
  <2> QED
    BY <1>1, <1>3, <2>1, CountedSame DEF Base
<1> QED
  BY <1>5, <1>6, <1>7, <1>8, <1>9 DEF Base

LEMMA AloneBase ==
  ASSUME Typed, Base, Typed', Flushes = {}, UNCHANGED connVars, Alone \/ Status \/ Shutdown
  PROVE  Base'
<1>1. UNCHANGED <<created, conn, sock, att, task, greeting, inbox, beats>>
  BY DEF connVars
<1>2. CASE created = "done"
  BY <1>1, <1>2, DisconnectBase
<1>3. CASE created # "done"
  <2>1. ~sess.in /\ store = None /\ \A k \in DOMAIN cmds : cmds[k].op = "get"
    BY <1>3 DEF Base, Unready
  <2>2. ~Shutdown /\ ~Status /\ ~Sweep /\ ~Ping /\ ~Expire
    BY <2>1 DEF Shutdown, Status, Sweep, Ping, Expire
  <2>3. ~Saved /\ ~Completed
    BY <2>1, HeadIsThere DEF Saved, Completed, Forgotten, Answered
  <2>4. Restored \/ CleanupTimer \/ Wait \/ Age \/ Restore
    BY <2>2, <2>3 DEF Alone
  <2>5. ~sess'.in /\ store' = None
    BY <2>1, <2>4 DEF Restored, CleanupTimer, Wait, Age, Restore, Typed, SessionTyped, SessionType
  <2>6. \A k \in DOMAIN cmds' : cmds'[k].op = "get"
    <3>1. CASE Restored
      <4>1. cmds # <<>> /\ cmds' = Tail(cmds) /\ cmds \in Seq(CommandType)
        BY <3>1 DEF Restored, Answered, Typed, SessionTyped
      <4> QED
        BY <2>1, <4>1, TailOf
    <3>2. CASE Restore
      <4> DEFINE c == Command("get", "none", 0)
      <4>1. cmds' = Append(cmds, c) /\ c.op = "get" /\ cmds \in Seq(CommandType)
        BY <3>2 DEF Restore, Command, Typed, SessionTyped
      <4> HIDE DEF c
      <4> QED
        BY <2>1, <4>1
    <3>3. CASE CleanupTimer \/ Wait \/ Age
      BY <2>1, <3>3 DEF CleanupTimer, Wait, Age
    <3> QED
      BY <2>4, <3>1, <3>2, <3>3
  <2>7. Unready'
    BY <1>1, <1>3, <2>5, <2>6 DEF Base, Unready
  <2>8. Unused'
    BY <1>1 DEF Base, Unused
  <2> QED
    BY <1>1, <2>7, <2>8, WireBase
<1> QED
  BY <1>2, <1>3

LEMMA BaseKept ==
  ASSUME Typed, Blank, Base, Typed', Next, UNCHANGED world
  PROVE  Base'
<1>1. ASSUME NEW a \in Flushes, Flush(a), UNCHANGED <<store, told, over, timer, finished>> PROVE Base'
  BY <1>1, FlushBase DEF Flushes
<1> SUFFICES ASSUME Flushes = {} PROVE Base'
  BY <1>1 DEF Next
<1>2. CASE ConnStep /\ UNCHANGED <<store, told, over, timer, finished>>
  <2>1. Calm
    BY <1>2 DEF Calm
  <2> QED
    BY <1>2, <2>1, ConnectBase, BeatBase, OpenBase, GreetBase, RefuseBase, CloseBase, AfterDelayBase, ResumeBase,
       PackedBase DEF ConnStep
<1>3. ASSUME NEW i \in Sockets, NEW kind \in Kinds, Receive(i, kind), UNCHANGED <<store, over, timer, finished>>
      PROVE  Base'
  BY <1>3, ReceiveBase
<1>4. ASSUME NEW r \in inbox, Parse(r), UNCHANGED <<store, over, timer, finished>>
      PROVE  Base'
  BY <1>4, ParseBase
<1>5. ASSUME NEW p \in Packets, Send(p), UNCHANGED <<store, told, over, timer, finished>>
      PROVE  Base'
  BY <1>5, SendBase DEF Calm
<1>6. CASE Alone /\ UNCHANGED connVars
  BY <1>6, AloneBase
<1>7. CASE Status \/ Shutdown
  <2>1. UNCHANGED connVars
    BY <1>7 DEF Status, Shutdown, connVars
  <2> QED
    BY <1>7, <2>1, AloneBase
<1>8. CASE Complete \/ Cancel
  BY <1>8, DisconnectBase, ThereIsDone DEF Complete, Cancel
<1>9. CASE CleanUp
  <2>1. created = "done"
    BY <1>9, ThereIsDone, HeadIsThere DEF CleanUp, Forgotten, Answered
  <2> QED
    BY <1>9, <2>1, DisconnectBase DEF CleanUp
<1>10. CASE Crash
  BY <1>10, CrashBase
<1> QED
  BY <1>2, <1>3, <1>4, <1>5, <1>6, <1>7, <1>8, <1>9, <1>10 DEF Next, OfConnection

LEMMA InitBase ==
  ASSUME Init
  PROVE  Base
<1>1. /\ sess = NoSession /\ store = None /\ cmds = <<>>
      /\ created = "no" /\ conn = NoConn /\ sock = [i \in Sockets |-> "none"]
      /\ att = [a \in Attempts |-> [at |-> "none", by |-> None]] /\ task = [t \in Tasks |-> NoTask]
      /\ greeting = {} /\ inbox = {} /\ beats = Silence
  BY DEF Init, SessionInit, ConnInit
<1>2. \A t \in Tasks : task[t].at = "idle"
  BY <1>1, NoTaskTyped
<1>3. Unready
  BY <1>1, <1>2 DEF Unready, NoSession, Tasks
<1>4. Unused /\ First
  BY <1>1, Numbers DEF Unused, First, Silence
<1>5. FlushesGoOn
  BY <1>2 DEF FlushesGoOn, Tasks
<1>6. Linked
  BY <1>1, Numbers DEF Linked
<1>7. Counted
  <2>1. 0 \in 0 .. MaxRetries + 1 /\ \A a \in Attempts : ~(a <= 0)
    BY Numbers DEF Attempts
  <2>2. Count(0)
    BY <1>1, <2>1 DEF Count, NoConn
  <2> QED
    BY <2>1, <2>2 DEF Counted
<1> QED
  BY <1>3, <1>4, <1>5, <1>6, <1>7 DEF Base

BaseInv == AsrInv /\ Base

LEMMA BaseHolds == Spec => []BaseInv
<1>1. Init => Base
  BY InitBase
<1>2. AsrInv /\ AsrInv' /\ Base /\ [Next /\ UNCHANGED world]_vars => Base'
  <2> SUFFICES ASSUME AsrInv, AsrInv', Base, [Next /\ UNCHANGED world]_vars PROVE Base'
    OBVIOUS
  <2>1. CASE Next /\ UNCHANGED world
    BY <2>1, BaseKept DEF AsrInv
  <2>2. CASE UNCHANGED vars
    <3>1. UNCHANGED <<created, conn, sock, att, task, greeting, inbox, beats, sess, store, cmds>>
      BY <2>2 DEF vars, connVars, sessionVars
    <3> QED
      BY <3>1 DEF Base, Unready, Unused, First, FlushesGoOn, Counted, Count, Linked
  <2> QED
    BY <2>1, <2>2
<1> QED
  BY <1>1, <1>2, AsrInvHolds, PTL DEF Spec, BaseInv

\* retryCount bounds the sockets a connection opens in all its life.
THEOREM RetriesBoundSockets == Spec => []SocketsAreBounded
<1>1. BaseInv => SocketsAreBounded
  <2> SUFFICES ASSUME Typed, Counted PROVE SocketsAreBounded
    BY DEF BaseInv, AsrInv, Base
  <2>1. PICK n \in 0 .. MaxRetries + 1 : Count(n)
    BY DEF Counted
  <2>2. n \in Nat /\ MaxRetries \in Nat /\ n <= MaxRetries + 1
    BY Numbers
  <2> DEFINE A == {a \in Attempts : att[a].at # "none"}
  <2>3. A \subseteq 1 .. n
    <3>1. ASSUME NEW a \in Attempts, att[a].at # "none" PROVE a \in 1 .. n
      <4>1. a <= n
        BY <2>1, <3>1 DEF Count
      <4>2. a \in Nat \ {0}
        BY Numbers DEF Attempts
      <4> QED
        BY <2>2, <4>1, <4>2
    <3> QED
      BY <3>1
  <2>4. IsFiniteSet(1 .. n) /\ Cardinality(1 .. n) = n
    BY <2>2, FS_Interval
  <2>5. Cardinality(A) <= n /\ IsFiniteSet(A)
    BY <2>3, <2>4, FS_Subset
  <2>6. Cardinality(A) \in Nat
    BY <2>5, FS_CardinalityType
  <2> QED
    BY <2>2, <2>5, <2>6 DEF SocketsAreBounded
<1> QED
  BY <1>1, BaseHolds, PTL
-----------------------------------------------------------------------------
(* One socket at a time                                                    *)

\* The provider accepts connections, and what falls silent does not end the recognition.
Single == ~Can("unreachable") /\ (~Can("silent") \/ world.kinds \cap {"final", "refusal"} = {})

\* Sockets that are there, or that an attempt is about to open.
Waits(i) == i # 0 /\ att[i].at = "waiting"
Busy(i) == sock[i] \in {"connecting", "open", "dropping", "closing"} \/ Waits(i)
OneBusy == \A i, j \in Sockets : Busy(i) /\ Busy(j) => i = j

Tame ==
  /\ \A i \in Sockets : sock[i] # "failed" /\ (conn.in => sock[i] # "closing")
  /\ Can("silent") => \A r \in inbox : ~r.final

\* All that goes on is on the connection's own socket.
Own == \A i \in Sockets : Busy(i) => i = conn.ws /\ IsOpen(i)

\* Without silence, a socket is given up only when it closes.
Loud ==
  ~Can("silent") =>
    /\ ~beats.packing /\ ~beats.awaited /\ \A i \in Sockets : sock[i] # "dropping"
    /\ conn.in => \A i \in Sockets : IsOpen(i) /\ i \notin greeting => i = conn.ws
    /\ conn.in /\ ~conn.reconnecting /\ inbox # {} => Own

\* A connection that is over, for which sendAudio may begin another attempt.
Over == conn.in /\ ~conn.reconnecting /\ conn.status \in {"completed", "disconnected"} => Own

Idle == inbox = {} /\ \A t \in Tasks : task[t].at \notin {"packing", "next"}

\* A socket is opened, and greeted, when nothing else is done.
Dialing == \A i \in Sockets : sock[i] = "connecting" => greeting = {} /\ Idle
Greeted ==
  /\ \A j \in greeting : /\ Idle /\ sock[j] \notin {"none", "connecting"}
                         /\ \A i \in Sockets : Busy(i) => i = j \/ Waits(i)
  /\ \A i, j \in greeting : i = j

\* The connection has a socket only once it has been greeted.
Behind ==
  \A a \in Attempts : att[a].at \in {"none", "waiting"} \/ sock[a] = "connecting" \/ a \in greeting => conn.ws # a

Sole == OneBusy /\ Tame /\ Loud /\ Over /\ Dialing /\ Greeted /\ Behind

LEMMA WaitsIsNone ==
  ASSUME Linked, NEW i \in Sockets, Waits(i)
  PROVE  i \in Attempts /\ sock[i] = "none"
BY DEF Linked, Waits, Attempts

LEMMA ConnectSole ==
  ASSUME Typed, Blank, Base, Base', Typed', Sole, Connect
  PROVE  Sole'
<1>1. /\ created = "no" /\ sock' = [sock EXCEPT ![0] = "connecting"]
      /\ conn' = [NoConn EXCEPT !.in = TRUE, !.status = "connecting"]
      /\ UNCHANGED <<sess, cmds, since, att, task, greeting, inbox, spoken, beats, heard, torn>>
  BY DEF Connect
<1>2. /\ greeting = {} /\ \A i \in Sockets : sock[i] = "none"
  BY <1>1 DEF Blank
<1>3. /\ \A a \in Attempts : att[a].at = "none"
  BY <1>1 DEF Blank
<1>4. /\ \A t \in Tasks : task[t].at = "idle"
  BY <1>1 DEF Blank
<1>5. conn'.in /\ conn'.ws = 0 /\ conn'.status = "connecting" /\ ~conn'.reconnecting
  BY <1>1 DEF NoConn
<1>6. inbox = {} /\ ~beats.on /\ ~beats.packing /\ ~beats.awaited
  BY <1>1 DEF Base, Unused
<1>7. \A i \in Sockets : sock'[i] = (IF i = 0 THEN "connecting" ELSE "none") /\ ~Waits(i)'
  BY <1>1, <1>2, <1>3 DEF Typed, ConnTyped, Waits, Attempts
<1>8. OneBusy'
  BY <1>7 DEF OneBusy, Busy
<1>9. Tame' /\ Loud' /\ Over'
  BY <1>1, <1>5, <1>6, <1>7 DEF Tame, Loud, Over, IsOpen
<1>10. Dialing' /\ Greeted'
  BY <1>1, <1>2, <1>4, <1>6, <1>7 DEF Dialing, Greeted, Idle
<1>11. Behind'
  BY <1>5 DEF Behind, Attempts
<1> QED
  BY <1>8, <1>9, <1>10, <1>11 DEF Sole

LEMMA OpenSole ==
  ASSUME Typed, Base, Typed', Sole, NEW i \in Sockets, Open(i), UNCHANGED world
  PROVE  Sole'
<1>1. /\ sock[i] = "connecting" /\ sock' = [sock EXCEPT ![i] = "open"] /\ greeting' = greeting \cup {i}
      /\ UNCHANGED <<created, sess, cmds, since, conn, att, task, inbox, spoken, beats, heard, torn>>
  BY DEF Open
<1>2. greeting' = {i} /\ Idle
  BY <1>1 DEF Sole, Dialing
<1>3. \A j \in Sockets : sock'[j] = IF j = i THEN "open" ELSE sock[j]
  BY <1>1 DEF Typed, ConnTyped
<1>4. \A j \in Sockets : (Waits(j)' <=> Waits(j)) /\ (Busy(j)' <=> Busy(j)) /\ (Busy(j) => j = i)
  BY <1>1, <1>3 DEF Sole, OneBusy, Busy, Waits
<1>5. OneBusy'
  BY <1>4 DEF Sole, OneBusy
<1>6. Idle'
  BY <1>1, <1>2 DEF Idle
<1>7. Tame'
  BY <1>1, <1>3 DEF Sole, Tame, Can
<1>8. Loud'
  <2>1. \A j \in Sockets : IsOpen(j)' => j \in greeting'
    BY <1>2, <1>4 DEF Busy, IsOpen
  <2>2. inbox' = {}
    BY <1>6 DEF Idle
  <2>3. \A j \in Sockets : sock'[j] = "dropping" => sock[j] = "dropping"
    BY <1>3
  <2> QED
    BY <1>1, <2>1, <2>2, <2>3 DEF Sole, Loud, Can
<1>9. Over'
  <2>1. Busy(i) /\ ~IsOpen(i)
    BY <1>1 DEF Busy, IsOpen
  <2> QED
    BY <1>1, <2>1 DEF Sole, Over, Own
<1>10. Dialing'
  BY <1>3, <1>4 DEF Dialing, Busy
<1>11. Greeted'
  BY <1>2, <1>3, <1>4, <1>6 DEF Greeted
<1>12. Behind'
  BY <1>1, <1>2, <1>3, Numbers DEF Sole, Behind
<1> QED
  BY <1>5, <1>7, <1>8, <1>9, <1>10, <1>11, <1>12 DEF Sole

LEMMA GreetSole ==
  ASSUME Typed, Blank, Base, Typed', Sole, NEW i \in Sockets, Greet(i), UNCHANGED world
  PROVE  Sole'
<1>1. /\ i \in greeting /\ greeting' = greeting \ {i} /\ UNCHANGED <<sock, inbox>>
      /\ beats' = IF conn.in THEN [beats EXCEPT !.on = TRUE, !.awaited = FALSE] ELSE beats
      /\ conn'.in = conn.in /\ conn'.status = "connected"
  BY GreetDoes
<1>2. greeting' = {} /\ Idle /\ sock[i] \notin {"none", "connecting"} /\ \A j \in Sockets : Busy(j) => j = i \/ Waits(j)
  BY <1>1 DEF Sole, Greeted
<1>3. /\ conn'.ws = i /\ \A b \in Attempts : Old(i, b)
  <2>1. CASE i = 0
    <3>1. created = "pending"
      BY <1>1, <2>1 DEF Base, First
    <3>2. conn.ws = 0
      BY <3>1 DEF Base, First
    <3> QED
      BY <2>1, <3>2, GreetDoes DEF Attempts, Old
  <2>2. CASE i # 0
    BY <2>2, GreetDoes DEF Old
  <2> QED
    BY <2>1, <2>2
<1>4. \A j \in Sockets : Waits(j)' => Waits(j)
  BY <1>3 DEF Waits, Old, Attempts
<1>5. \A j \in Sockets : Busy(j)' => Busy(j)
  BY <1>1, <1>4 DEF Busy
<1>6. OneBusy'
  BY <1>5 DEF Sole, OneBusy
<1>7. \A j \in Sockets : sock[j] # "none" => ~Waits(j)
  BY WaitsIsNone DEF Base
<1>8. \A j \in Sockets : IsOpen(j)' => j = conn'.ws
  BY <1>1, <1>2, <1>3, <1>7 DEF Busy, IsOpen
<1>9. inbox' = {}
  BY <1>1, <1>2 DEF Idle
<1>10. Tame' /\ Loud'
  <2>1. ~Can("silent") => ~beats'.packing /\ ~beats'.awaited
    BY <1>1 DEF Sole, Loud, Typed, ConnTyped
  <2> QED
    BY <1>1, <1>8, <1>9, <2>1 DEF Sole, Tame, Loud, Can
<1>11. Over'
  BY <1>1 DEF Over
<1>12. Dialing' /\ Greeted'
  BY <1>1, <1>2, <1>7 DEF Dialing, Greeted, Busy
<1>13. Behind'
  <2>1. i \in Attempts => att'[i].at \notin {"none", "waiting"}
    BY <1>1, <1>2, <1>3 DEF Base, Linked, Old
  <2> QED
    BY <1>1, <1>2, <1>3, <2>1 DEF Behind
<1> QED
  BY <1>6, <1>10, <1>11, <1>12, <1>13 DEF Sole

\* When nothing is busy but what waits, an attempt may be made.
LEMMA TriesSole ==
  ASSUME Typed, Base, Typed', Sole, NEW i, Tries(i), \A j \in Sockets : ~(sock'[j] \in {"connecting", "open", "dropping", "closing"}),
         \A j \in Sockets : ~Waits(j)
  PROVE  OneBusy' /\ Over' /\ \A j \in Sockets : Busy(j)' => Waits(j)'
<1>1. \A j \in Sockets : Busy(j)' => Waits(j)'
  BY DEF Busy
<1>2. CASE \A b \in Attempts : Old(i, b)
  <2>1. \A j \in Sockets : ~Waits(j)'
    BY <1>2 DEF Waits, Old, Attempts
  <2> QED
    BY <1>1, <2>1 DEF OneBusy, Over, Own
<1>3. CASE Waiting(i) /\ conn'.reconnecting
  <2>1. PICK a \in Attempts : \A b \in Attempts \ {a} : Old(i, b)
    BY <1>3 DEF Waiting
  <2>2. \A j \in Sockets : Waits(j)' => j = a
    BY <2>1 DEF Waits, Old, Attempts
  <2> QED
    BY <1>1, <1>3, <2>2 DEF OneBusy, Over
<1> QED
  BY <1>2, <1>3 DEF Tries

LEMMA TriesBehind ==
  ASSUME Behind, NEW i, Tries(i), \A j \in Sockets : sock'[j] = "connecting" => sock[j] = "connecting", greeting' = greeting
  PROVE  Behind'
<1>1. conn'.ws = conn.ws
  BY DEF Tries
<1>2. \A a \in Attempts : att'[a].at \in {"none", "waiting"} => att[a].at \in {"none", "waiting"}
  BY DEF Tries, Waiting, Old
<1> QED
  BY <1>1, <1>2, Numbers DEF Behind

LEMMA CloseSole ==
  ASSUME Typed, Base, Typed', Sole, NEW i \in Sockets, Close(i), UNCHANGED world
  PROVE  Sole'
<1>1. /\ sock[i] \in {"open", "failed", "dropping", "closing"} /\ sock' = [sock EXCEPT ![i] = "closed"]
      /\ UNCHANGED <<created, task, greeting, inbox>> /\ beats' = StopBeats
  BY CloseDoes
<1>2. Tries(0) \/ Ends \/ SameState
  BY CloseDoes
<1>3. conn'.in = conn.in /\ conn'.ws = conn.ws
  BY <1>2 DEF Tries, Ends, SameState
<1>4. \A j \in Sockets : sock'[j] = IF j = i THEN "closed" ELSE sock[j]
  BY <1>1 DEF Typed, ConnTyped
<1>5. Busy(i)
  BY <1>1 DEF Sole, Tame, Busy
<1>6. \A j \in Sockets : sock'[j] \notin {"connecting", "open", "dropping", "closing"}
  BY <1>4, <1>5 DEF Sole, OneBusy, Busy
<1>7. \A j \in Sockets : ~Waits(j)
  <2>1. ~Waits(i)
    BY <1>1, WaitsIsNone DEF Base
  <2> QED
    BY <1>5, <2>1 DEF Sole, OneBusy, Busy
<1>8. /\ OneBusy' /\ Over' /\ \A j \in Sockets : Busy(j)' => Waits(j)'
  <2>1. CASE Tries(0)
    BY <1>6, <1>7, <2>1, TriesSole
  <2>2. CASE Ends \/ SameState
    <3>1. \A j \in Sockets : ~Busy(j)'
      BY <1>6, <1>7, <2>2 DEF Busy, Waits, Ends, SameState
    <3> QED
      BY <3>1 DEF OneBusy, Over, Own
  <2> QED
    BY <1>2, <2>1, <2>2
<1>9. Tame'
  BY <1>1, <1>3, <1>4, <1>6 DEF Sole, Tame, Can
<1>10. Loud'
  <2>1. ~Can("silent") => ~beats'.packing /\ ~beats'.awaited
    BY <1>1 DEF Sole, Loud, StopBeats, Typed, ConnTyped
  <2>2. conn'.in /\ ~conn'.reconnecting => Own'
    BY <1>2, <1>3, <1>6, <1>7 DEF Own, Busy, Waits, Tries, Old, Waiting, Ends, SameState, Attempts
  <2> QED
    BY <1>6, <2>1, <2>2 DEF Loud, IsOpen, Can
<1>11. Dialing'
  BY <1>6 DEF Dialing
<1>12. Greeted'
  BY <1>1, <1>4, <1>8 DEF Sole, Greeted, Idle
<1>13. Behind'
  <2>1. CASE Tries(0)
    BY <1>1, <1>6, <2>1, TriesBehind DEF Sole
  <2>2. CASE Ends \/ SameState
    BY <1>1, <1>3, <1>6, <2>2, Numbers DEF Sole, Behind, Ends, SameState
  <2> QED
    BY <1>2, <2>1, <2>2
<1> QED
  BY <1>8, <1>9, <1>10, <1>11, <1>12, <1>13 DEF Sole

LEMMA AfterDelaySole ==
  ASSUME Typed, Base, Typed', Sole, NEW i \in Attempts, AfterDelay(i), UNCHANGED world
  PROVE  Sole'
<1>1. /\ att[i].at = "waiting" /\ greeting = {} /\ Idle
      /\ UNCHANGED <<created, sess, cmds, since, conn, task, greeting, inbox, spoken, beats, heard, torn>>
  BY DEF AfterDelay, Settled, Idle
<1>2. i \in Sockets /\ i # 0 /\ sock[i] = "none" /\ Waits(i)
  BY <1>1, Numbers DEF Waits, Base, Linked, Attempts
<1>3. \A j \in Sockets : Busy(j) => j = i
  BY <1>2 DEF Sole, OneBusy, Busy
<1>4. /\ \A j \in Sockets : Waits(j)' => Waits(j) /\ j # i
      /\ \A a \in Attempts : att'[a].at \in {"none", "waiting"} => att[a].at \in {"none", "waiting"}
  BY <1>1, <1>2 DEF AfterDelay, Waits, Typed, ConnTyped, AttemptType, Attempts
<1>5. Idle'
  BY <1>1 DEF Idle
<1>6. CASE UNCHANGED sock
  <2>1. \A j \in Sockets : ~Busy(j)'
    BY <1>2, <1>3, <1>4, <1>6 DEF Busy
  <2>2. OneBusy' /\ Over'
    BY <2>1 DEF OneBusy, Over, Own
  <2>3. Tame' /\ Loud'
    BY <1>1, <1>6, <2>1 DEF Sole, Tame, Loud, Own, Busy, IsOpen, Can
  <2>4. Dialing' /\ Greeted'
    BY <1>1, <1>5 DEF Dialing, Greeted
  <2>5. Behind'
    BY <1>1, <1>4, <1>6 DEF Sole, Behind
  <2> QED
    BY <2>2, <2>3, <2>4, <2>5 DEF Sole
<1>7. CASE /\ conn.status \notin {"completed", "disconnected"} /\ conn.in
           /\ sock' = [sock EXCEPT ![i] = "connecting"]
  <2>1. \A j \in Sockets : sock'[j] = IF j = i THEN "connecting" ELSE sock[j]
    BY <1>7 DEF Typed, ConnTyped
  <2>2. \A j \in Sockets : Busy(j)' => j = i
    BY <1>3, <1>4, <2>1 DEF Busy
  <2>3. OneBusy' /\ Over'
    BY <1>1, <1>7, <2>2 DEF OneBusy, Over
  <2>4. Tame'
    BY <1>1, <2>1 DEF Sole, Tame, Can
  <2>5. Loud'
    <3>1. inbox' = {}
      BY <1>5 DEF Idle
    <3>2. \A j \in Sockets : ~IsOpen(j)'
      BY <2>1, <2>2 DEF Busy, IsOpen
    <3>3. \A j \in Sockets : sock'[j] = "dropping" => sock[j] = "dropping"
      BY <2>1
    <3> QED
      BY <1>1, <3>1, <3>2, <3>3 DEF Sole, Loud, Can
  <2>6. Dialing' /\ Greeted'
    BY <1>1, <1>5 DEF Dialing, Greeted
  <2>7. Behind'
    BY <1>1, <1>4, <2>1, Numbers DEF Sole, Behind
  <2> QED
    BY <2>3, <2>4, <2>5, <2>6, <2>7 DEF Sole
<1> QED
  BY <1>6, <1>7 DEF AfterDelay

\* Steps that leave sockets and attempts alone.
LEMMA StaySole ==
  ASSUME Typed, Typed', Sole, UNCHANGED <<world, sock, greeting>>, inbox' \subseteq inbox,
         \A b \in Attempts : att'[b].at = att[b].at \/ (att[b].at = "opening" /\ att'[b].at = "ended"),
         conn'.ws = conn.ws, conn'.in => conn.in /\ (conn'.reconnecting <=> conn.reconnecting),
         \A t \in Tasks : task'[t].at \in {"packing", "next"} => task[t].at \in {"packing", "next"},
         ~Can("silent") => ~beats'.packing /\ ~beats'.awaited, Over'
  PROVE  Sole'
<1>1. \A j \in Sockets : (Waits(j)' <=> Waits(j)) /\ (Busy(j)' <=> Busy(j)) /\ (IsOpen(j)' <=> IsOpen(j))
  BY DEF Waits, Busy, IsOpen, Attempts
<1>2. OneBusy' /\ (Own <=> Own')
  BY <1>1 DEF Sole, OneBusy, Own
<1>3. Tame' /\ Loud'
  BY <1>1, <1>2 DEF Sole, Tame, Loud, Can
<1>4. Idle => Idle'
  BY DEF Idle
<1>5. Dialing' /\ Greeted'
  BY <1>1, <1>4 DEF Sole, Dialing, Greeted
<1>6. Behind'
  BY DEF Sole, Behind
<1> QED
  BY <1>2, <1>3, <1>5, <1>6, Over' DEF Sole

LEMMA OverSame ==
  ASSUME Sole, UNCHANGED sock, conn'.ws = conn.ws,
         \A b \in Attempts : att'[b].at = "waiting" => att[b].at = "waiting",
         conn'.in /\ ~conn'.reconnecting /\ conn'.status \in {"completed", "disconnected"}
           => conn.in /\ ~conn.reconnecting /\ conn.status \in {"completed", "disconnected"}
  PROVE  Over'
BY DEF Sole, Over, Own, Busy, Waits, IsOpen, Attempts

LEMMA RestsSole ==
  ASSUME Typed, Typed', Sole, NEW t \in Tasks, Rests(t), Others(t), IsPacket(t) \/ task[t].at = "next",
         UNCHANGED Wires, UNCHANGED world
  PROVE  Sole'
<1>1. Over'
  BY OverSame DEF Rests, SameConn, Wires
<1>2. \A u \in Tasks : task'[u].at \in {"packing", "next"} => task[u].at \in {"packing", "next"}
  BY DEF Rests, Others
<1>3. ~Can("silent") => ~beats'.packing /\ ~beats'.awaited
  BY DEF Sole, Loud, Wires
<1> QED
  BY <1>1, <1>2, <1>3, StaySole DEF Rests, SameConn, Wires

LEMMA StartsSole ==
  ASSUME Typed, Blank, Base, Typed', Sole, NEW t \in Tasks, Starts(t), Others(t), task[t].at = "next" \/ created = "done",
         UNCHANGED Wires, UNCHANGED world
  PROVE  Sole'
<1>1. /\ IsOpen(conn.ws) /\ conn.in /\ conn'.in /\ conn'.ws = conn.ws /\ conn'.status \in Active
      /\ conn'.reconnecting = conn.reconnecting /\ att' = att /\ conn.ws \in Sockets
      /\ UNCHANGED <<sock, greeting, inbox, beats, created>>
  BY DEF Starts, Wires, Typed, ConnTyped, ConnType
<1>2. \A j \in Sockets : Busy(j) => j = conn.ws
  BY <1>1 DEF Sole, OneBusy, Busy, IsOpen
<1>3. ~Waits(conn.ws)
  BY <1>1, WaitsIsNone DEF Base, IsOpen
<1>4. greeting = {}
  <2>1. CASE task[t].at = "next"
    BY <2>1 DEF Sole, Greeted, Idle
  <2>2. CASE created = "done"
    <3> SUFFICES ASSUME NEW j \in greeting PROVE FALSE
      OBVIOUS
    <3>1. j = conn.ws
      BY <1>1, <1>3 DEF Sole, Greeted, Busy, IsOpen
    <3>2. j # 0
      BY <2>2 DEF Base, First
    <3> QED
      BY <3>1, <3>2, Numbers DEF Sole, Behind, Typed, ConnTyped, Attempts
  <2> QED
    BY <2>1, <2>2
<1>5. \A j \in Sockets : (Waits(j)' <=> Waits(j)) /\ (Busy(j)' <=> Busy(j)) /\ (IsOpen(j)' <=> IsOpen(j)) /\ sock[j] # "connecting"
  BY <1>1, <1>2 DEF Waits, Busy, IsOpen
<1>6. OneBusy' /\ Over' /\ (Own <=> Own')
  BY <1>1, <1>5 DEF Sole, OneBusy, Over, Own, Active
<1>7. Tame' /\ Loud'
  BY <1>1, <1>5, <1>6 DEF Sole, Tame, Loud, Can
<1>8. Dialing' /\ Greeted'
  BY <1>1, <1>4, <1>5 DEF Dialing, Greeted
<1>9. Behind'
  BY <1>1 DEF Sole, Behind
<1> QED
  BY <1>6, <1>7, <1>8, <1>9 DEF Sole

LEMMA AsksSole ==
  ASSUME Typed, Base, Typed', Sole, NEW t \in Tasks, Asks(t), Others(t), UNCHANGED Wires, UNCHANGED world
  PROVE  Sole'
<1>1. /\ conn.in /\ ~conn.reconnecting /\ conn.status \in {"completed", "disconnected"} /\ ~IsOpen(conn.ws)
      /\ Tries(0) /\ task'[t].at = "awaiting" /\ UNCHANGED <<sock, greeting, inbox, beats, created>>
      /\ conn'.in = conn.in /\ conn'.ws = conn.ws
  BY DEF Asks, Tries, Wires
<1>2. \A j \in Sockets : ~Busy(j)
  BY <1>1 DEF Sole, Over, Own
<1>3. /\ OneBusy' /\ Over' /\ \A j \in Sockets : Busy(j)' => Waits(j)'
  BY <1>1, <1>2, TriesSole DEF Busy
<1>4. Tame'
  BY <1>1 DEF Sole, Tame, Can
<1>5. conn'.in /\ ~conn'.reconnecting => Own'
  BY <1>1, <1>2 DEF Own, Busy, Waits, Tries, Old, Waiting, Attempts
<1>6. Loud'
  BY <1>1, <1>5 DEF Sole, Loud, IsOpen, Can
<1>7. Idle => Idle'
  BY <1>1 DEF Idle, Others
<1>8. Dialing' /\ Greeted'
  BY <1>1, <1>3, <1>7 DEF Sole, Dialing, Greeted
<1>9. Behind'
  BY <1>1, TriesBehind DEF Sole
<1> QED
  BY <1>3, <1>4, <1>6, <1>8, <1>9 DEF Sole

LEMMA SendSole ==
  ASSUME Typed, Blank, Base, Typed', Sole, NEW p \in Packets, Send(p), UNCHANGED world
  PROVE  Sole'
<1>1. PICK t \in Tasks : IsPacket(t) /\ Others(t) /\ created = "done" /\ (Rests(t) \/ Starts(t) \/ Asks(t))
  BY SendDoes
<1>2. UNCHANGED Wires
  BY DEF Send, Wires
<1> QED
  BY <1>1, <1>2, RestsSole, StartsSole, AsksSole

LEMMA ResumeSole ==
  ASSUME Typed, Blank, Base, Typed', Sole, NEW t \in Tasks, Resume(t), UNCHANGED world
  PROVE  Sole'
<1>1. IsPacket(t) /\ Others(t) /\ (Rests(t) \/ Starts(t))
  BY ResumeDoes
<1>2. UNCHANGED Wires /\ task[t].at = "awaiting"
  BY DEF Resume, Wires
<1>3. created = "done"
  BY <1>1, <1>2, TaskKinds DEF Base, Unready
<1> QED
  BY <1>1, <1>2, <1>3, RestsSole, StartsSole

LEMMA PackedSole ==
  ASSUME Typed, Base, Typed', Sole, NEW t \in Tasks, Packed(t), UNCHANGED world
  PROVE  Sole'
<1>1. /\ Others(t) /\ task[t].at = "packing" /\ task'[t].at = IF IsPacket(t) THEN "done" ELSE "next"
      /\ conn'.in = conn.in /\ conn'.ws = conn.ws /\ conn'.status = "streaming"
      /\ conn'.reconnecting = conn.reconnecting /\ att' = att
  BY PackedDoes
<1>2. UNCHANGED <<sock, greeting, inbox, beats>>
  BY DEF Packed
<1>3. Over'
  BY <1>1 DEF Over
<1>4. \A u \in Tasks : task'[u].at \in {"packing", "next"} => task[u].at \in {"packing", "next"}
  BY <1>1 DEF Others
<1>5. ~Can("silent") => ~beats'.packing /\ ~beats'.awaited
  BY <1>2 DEF Sole, Loud
<1> QED
  BY <1>1, <1>2, <1>3, <1>4, <1>5, StaySole

LEMMA FlushSole ==
  ASSUME Typed, Blank, Base, Typed', Sole, NEW i \in Attempts, Flush(i), UNCHANGED world
  PROVE  Sole'
<1> DEFINE t == <<"flush", i>>
<1>1. /\ t \in Tasks /\ ~IsPacket(t) /\ task[t].at = "next"
      /\ (Others(t) /\ (Rests(t) \/ Starts(t))) \/ Empties(i)
  BY FlushDoes
<1>2. UNCHANGED Wires
  BY DEF Flush, Wires
<1>3. CASE Empties(i)
  <2>1. \A u \in Tasks : task'[u].at \in {"packing", "next"} => task[u].at \in {"packing", "next"}
    BY <1>1, <1>3 DEF Empties
  <2>2. ~Can("silent") => ~beats'.packing /\ ~beats'.awaited
    BY <1>2 DEF Sole, Loud, Wires
  <2>3. Over'
    BY <1>2, <1>3, OverSame DEF Empties, SameConn, Old, Wires
  <2> QED
    BY <1>2, <1>3, <2>1, <2>2, <2>3, StaySole DEF Empties, SameConn, Old, Wires
<1> HIDE DEF t
<1> QED
  BY <1>1, <1>2, <1>3, RestsSole, StartsSole

LEMMA BeatSole ==
  ASSUME Typed, Typed', Sole, Beat \/ Beaten \/ BeatTimeout, UNCHANGED world
  PROVE  Sole'
<1>1. UNCHANGED <<created, sess, cmds, since, att, task, greeting, inbox, spoken, heard>> /\ Can("silent")
  BY DEF Beat, Beaten, BeatTimeout, Sole, Loud
<1>2. CASE Beat \/ Beaten
  <2>1. UNCHANGED <<conn, sock>>
    BY <1>2 DEF Beat, Beaten
  <2>2. Over'
    BY <1>1, <2>1, OverSame
  <2> QED
    BY <1>1, <2>1, <2>2, StaySole
<1>3. CASE BeatTimeout
  <2>1. conn'.in = conn.in /\ conn'.ws = conn.ws /\ conn'.status = "error" /\ conn'.reconnecting = conn.reconnecting
    BY <1>3 DEF BeatTimeout, Typed, ConnTyped, ConnType
  <2>2. \A j \in Sockets : sock'[j] = sock[j] \/ (IsOpen(j) /\ sock'[j] = "dropping")
    BY <1>3 DEF BeatTimeout, IsOpen, Typed, ConnTyped
  <2>3. \A j \in Sockets : (Waits(j)' <=> Waits(j)) /\ (Busy(j)' <=> Busy(j))
    BY <1>1, <2>2 DEF Waits, Busy, IsOpen
  <2>4. OneBusy' /\ Over'
    BY <2>1, <2>3 DEF Sole, OneBusy, Over
  <2>5. Tame' /\ Loud'
    BY <1>1, <2>1, <2>2 DEF Sole, Tame, Loud, Can, IsOpen
  <2>6. Idle <=> Idle'
    BY <1>1 DEF Idle
  <2>7. Dialing' /\ Greeted'
    <3>1. greeting \subseteq Sockets
      BY DEF Typed, ConnTyped
    <3> QED
      BY <1>1, <2>2, <2>3, <2>6, <3>1 DEF Sole, Dialing, Greeted, IsOpen
  <2>8. \A j \in Sockets : sock'[j] = "connecting" => sock[j] = "connecting"
    BY <2>2
  <2>9. Behind'
    BY <1>1, <2>1, <2>8, Numbers DEF Sole, Behind
  <2> QED
    BY <2>4, <2>5, <2>7, <2>9 DEF Sole
<1> QED
  BY <1>2, <1>3

LEMMA ReceiveSole ==
  ASSUME Typed, Base, Typed', Sole, Single, NEW i \in Sockets, NEW kind \in Kinds, Receive(i, kind), UNCHANGED world
  PROVE  Sole'
<1>1. /\ UNCHANGED <<created, sess, conn, sock, att, task, greeting>>
      /\ sock[i] \in {"open", "closing", "dropping"} /\ i \notin greeting
      /\ beats' = IF conn.in THEN [beats EXCEPT !.awaited = FALSE] ELSE beats
  BY DEF Receive
<1>2. \A r \in inbox' : r \in inbox \/ (r.final => kind \in {"final", "refusal"})
  <2> DEFINE m == [on |-> i, n |-> spoken + 1, text |-> IF kind \in {"text", "final"} THEN spoken + 1 ELSE 0,
                   final |-> kind \in {"final", "refusal"}, bad |-> kind = "bad"]
  <2>1. inbox' = inbox \cup {m}
    BY DEF Receive
  <2>2. m.final = (kind \in {"final", "refusal"})
    OBVIOUS
  <2> HIDE DEF m
  <2> QED
    BY <2>1, <2>2
<1>3. Busy(i) /\ \A j \in Sockets : Busy(j) => j = i
  BY <1>1 DEF Sole, OneBusy, Busy
<1>4. ~Waits(i)
  BY <1>1, WaitsIsNone DEF Base
<1>5. greeting = {}
  <2> SUFFICES ASSUME NEW j \in greeting PROVE FALSE
    OBVIOUS
  <2> QED
    BY <1>1, <1>3, <1>4 DEF Sole, Greeted
<1>6. \A j \in Sockets : (Waits(j)' <=> Waits(j)) /\ (Busy(j)' <=> Busy(j)) /\ (IsOpen(j)' <=> IsOpen(j))
  BY <1>1 DEF Waits, Busy, IsOpen
<1>7. OneBusy' /\ Over' /\ (Own <=> Own')
  BY <1>1, <1>6 DEF Sole, OneBusy, Over, Own
<1>8. Tame'
  <2>1. Can("silent") => kind \notin {"final", "refusal"}
    BY DEF Single, Kinds
  <2> QED
    BY <1>1, <1>2, <2>1 DEF Sole, Tame, Can
<1>9. Loud'
  <2>1. ~Can("silent") => ~beats'.packing /\ ~beats'.awaited
    BY <1>1 DEF Sole, Loud, Typed, ConnTyped
  <2>2. ~Can("silent") /\ conn.in => Own
    BY <1>1, <1>3 DEF Sole, Tame, Loud, Own, IsOpen
  <2> QED
    BY <1>1, <1>7, <2>1, <2>2 DEF Sole, Loud, Can, IsOpen
<1>10. Dialing' /\ Greeted'
  BY <1>1, <1>3, <1>5 DEF Dialing, Greeted, Busy
<1>11. Behind'
  BY <1>1 DEF Sole, Behind
<1> QED
  BY <1>7, <1>8, <1>9, <1>10, <1>11 DEF Sole

LEMMA ParseSole ==
  ASSUME Typed, Typed', Sole, NEW r \in inbox, Parse(r), UNCHANGED world
  PROVE  Sole'
<1>1. UNCHANGED <<created, sock, att, task, greeting>> /\ inbox' \subseteq inbox
  BY DEF Parse
<1>2. /\ conn'.in = conn.in /\ conn'.ws = conn.ws /\ conn'.reconnecting = conn.reconnecting
      /\ conn'.status = conn.status \/ conn'.status = "streaming" \/ (r.final /\ conn'.status = "completed")
  BY DEF Parse, Typed, ConnTyped, ConnType
<1>3. ~Can("silent") => ~beats'.packing /\ ~beats'.awaited
  BY DEF Parse, StopBeats, Sole, Loud, Typed, ConnTyped
<1>4. Over'
  <2>1. CASE conn'.status = conn.status \/ conn'.status = "streaming"
    BY <1>1, <1>2, <2>1, OverSame
  <2>2. CASE r.final
    <3>1. conn.in /\ ~conn.reconnecting => Own
      BY <2>2 DEF Sole, Tame, Loud
    <3>2. Own => Own'
      BY <1>1, <1>2 DEF Own, Busy, Waits, IsOpen
    <3> QED
      BY <1>2, <3>1, <3>2 DEF Over
  <2> QED
    BY <1>2, <2>1, <2>2
<1> QED
  BY <1>1, <1>2, <1>3, <1>4, StaySole

LEMMA DisconnectSole ==
  ASSUME Typed, Typed', Sole, Disconnect \/ UNCHANGED <<conn, sock, beats>>,
         UNCHANGED <<world, created, att, task, greeting, inbox>>
  PROVE  Sole'
<1>1. CASE UNCHANGED <<conn, sock, beats>>
  <2>1. Over'
    BY <1>1, OverSame
  <2>2. ~Can("silent") => ~beats'.packing /\ ~beats'.awaited
    BY <1>1 DEF Sole, Loud
  <2> QED
    BY <1>1, <2>1, <2>2, StaySole
<1>2. CASE Disconnect /\ conn.in
  <2>1. ~conn'.in /\ conn'.ws = conn.ws
    BY <1>2 DEF Disconnect, Typed, ConnTyped, ConnType
  <2>2. \A j \in Sockets : sock'[j] = sock[j] \/ (IsOpen(j) /\ sock'[j] = "closing")
    BY <1>2 DEF Disconnect, IsOpen, Typed, ConnTyped
  <2>3. \A j \in Sockets : (Waits(j)' <=> Waits(j)) /\ (Busy(j)' <=> Busy(j))
    BY <2>2 DEF Waits, Busy, IsOpen
  <2>4. OneBusy' /\ Over'
    BY <2>1, <2>3 DEF Sole, OneBusy, Over
  <2>5. ~Can("silent") => ~beats'.packing /\ ~beats'.awaited
    BY <1>2 DEF Disconnect, StopBeats, Sole, Loud, Typed, ConnTyped
  <2>6. Tame' /\ Loud'
    BY <2>1, <2>2, <2>5 DEF Sole, Tame, Loud, Can, IsOpen
  <2>7. Idle <=> Idle'
    BY DEF Idle
  <2>8. Dialing' /\ Greeted'
    <3>1. greeting \subseteq Sockets
      BY DEF Typed, ConnTyped
    <3> QED
      BY <2>2, <2>3, <2>7, <3>1 DEF Sole, Dialing, Greeted, IsOpen
  <2>9. \A j \in Sockets : sock'[j] = "connecting" => sock[j] = "connecting"
    BY <2>2
  <2>10. Behind'
    BY <2>1, <2>9, Numbers DEF Sole, Behind
  <2> QED
    BY <2>4, <2>6, <2>8, <2>10 DEF Sole
<1> QED
  BY <1>1, <1>2 DEF Disconnect

LEMMA CrashSole ==
  ASSUME Typed, Crash, UNCHANGED world
  PROVE  Sole'
<1>1. /\ conn' = NoConn /\ beats' = Silence /\ greeting' = {} /\ inbox' = {}
  BY DEF Crash
<1>2. \A i \in Sockets : sock'[i] \in {"none", "closed"}
  BY DEF Crash
<1>3. \A a \in Attempts : att'[a].at # "waiting"
  BY DEF Crash, Typed, ConnTyped, AttemptType
<1>4. \A i \in Sockets : ~Busy(i)'
  BY <1>2, <1>3 DEF Busy, Waits, Attempts
<1>5. ~conn'.in /\ conn'.ws = 0 /\ ~beats'.packing /\ ~beats'.awaited
  BY <1>1 DEF NoConn, Silence
<1>6. OneBusy' /\ Tame' /\ Loud' /\ Over'
  BY <1>1, <1>2, <1>4, <1>5 DEF OneBusy, Tame, Loud, Over
<1>7. Dialing' /\ Greeted' /\ Behind'
  BY <1>1, <1>2, <1>5 DEF Dialing, Greeted, Behind, Attempts
<1> QED
  BY <1>6, <1>7 DEF Sole

SoleInv == BaseInv /\ (Single => Sole)

LEMMA SoleKept ==
  ASSUME Typed, Blank, Base, Typed', Base', Single, Sole, Next, UNCHANGED world
  PROVE  Sole'
<1>1. ASSUME NEW a \in Flushes, Flush(a) PROVE Sole'
  BY <1>1, FlushSole DEF Flushes
<1>2. CASE ConnStep
  <2>1. \A i \in Sockets : ~Refuse(i)
    BY DEF Refuse, Single
  <2> QED
    BY <1>2, <2>1, ConnectSole, BeatSole, OpenSole, GreetSole, CloseSole, AfterDelaySole, ResumeSole,
       PackedSole DEF ConnStep
<1>3. ASSUME NEW i \in Sockets, NEW kind \in Kinds, Receive(i, kind) PROVE Sole'
  BY <1>3, ReceiveSole
<1>4. ASSUME NEW r \in inbox, Parse(r) PROVE Sole'
  BY <1>4, ParseSole
<1>5. ASSUME NEW p \in Packets, Send(p) PROVE Sole'
  BY <1>5, SendSole
<1>6. CASE UNCHANGED connVars
  BY <1>6, DisconnectSole DEF connVars
<1>7. CASE Status \/ Shutdown
  BY <1>6, <1>7 DEF Status, Shutdown, connVars
<1>8. CASE Complete \/ Cancel \/ CleanUp
  BY <1>8, DisconnectSole DEF Complete, Cancel, CleanUp
<1>9. CASE Crash
  BY <1>9, CrashSole
<1> QED
  BY <1>1, <1>2, <1>3, <1>4, <1>5, <1>6, <1>7, <1>8, <1>9 DEF Next, OfConnection

LEMMA InitSole ==
  ASSUME Init
  PROVE  Sole
<1>1. /\ conn = NoConn /\ sock = [i \in Sockets |-> "none"]
      /\ att = [a \in Attempts |-> [at |-> "none", by |-> None]]
      /\ greeting = {} /\ inbox = {} /\ beats = Silence
  BY DEF Init, ConnInit
<1>2. ~conn.in /\ conn.ws = 0 /\ ~beats.packing /\ ~beats.awaited
  BY <1>1 DEF NoConn, Silence
<1>3. \A i \in Sockets : ~Busy(i) /\ sock[i] = "none"
  BY <1>1 DEF Busy, Waits, Attempts
<1> QED
  BY <1>1, <1>2, <1>3 DEF Sole, OneBusy, Tame, Loud, Over, Dialing, Greeted, Behind, Attempts

LEMMA SoleHolds == Spec => []SoleInv
<1> DEFINE One == Single => Sole
<1>1. Init => One
  BY InitSole
<1>2. BaseInv /\ BaseInv' /\ One /\ [Next /\ UNCHANGED world]_vars => One'
  <2> SUFFICES ASSUME BaseInv, BaseInv', One, [Next /\ UNCHANGED world]_vars PROVE One'
    OBVIOUS
  <2>1. UNCHANGED world
    BY DEF vars
  <2>2. Single' <=> Single
    BY <2>1 DEF Single, Can
  <2>3. CASE Next /\ UNCHANGED world
    BY <2>2, <2>3, SoleKept DEF BaseInv, AsrInv
  <2>4. CASE UNCHANGED vars
    <3>1. UNCHANGED <<world, created, conn, sock, att, task, greeting, inbox, beats>>
      BY <2>4 DEF vars, connVars
    <3> QED
      BY <2>2, <3>1, DisconnectSole DEF BaseInv, AsrInv
  <2> QED
    BY <2>3, <2>4
<1> QED
  BY <1>1, <1>2, BaseHolds, PTL DEF Spec, SoleInv

\* As long as the provider accepts connections, a broken socket is replaced by one.
LEMMA OneIsOpen ==
  ASSUME SoleInv
  PROVE  OneSocketOpen
<1> DEFINE O == {i \in Sockets : IsOpen(i)}
<1> SUFFICES ASSUME Sole PROVE Cardinality(O) <= 1
  BY DEF SoleInv, Single, OneSocketOpen
<1>1. \A i, j \in O : i = j
  BY DEF Sole, OneBusy, Busy, IsOpen
<1> HIDE DEF O
<1>2. CASE O = {}
  BY <1>2, FS_EmptySet
<1>3. ASSUME NEW i, i \in O PROVE Cardinality(O) <= 1
  <2>1. O = {i}
    BY <1>1, <1>3
  <2>2. Cardinality({i}) = 1
    BY FS_Singleton
  <2> QED
    BY <2>1, <2>2
<1> QED
  BY <1>2, <1>3

\* Sockets come from breaks: every variable has its type, a connection opens at
\* most MaxRetries + 1 sockets after its first one, whatever makes attempts
\* overlap, and no more than one is open at a time.
THEOREM SocketsFollow == Spec => []SocketsFollowBreaks
<1>1. SoleInv => OneSocketOpen
  BY OneIsOpen
<1> QED
  BY <1>1, AsrTyped, RetriesBoundSockets, SoleHolds, PTL DEF SocketsFollowBreaks
-----------------------------------------------------------------------------
(* The end of a connection                                                 *)

Begun == created = "done" /\ conn.in => conn.status \notin {"connecting", "none"}

\* An end that is reached is told, unless it was the session's.
Fate ==
  finished = "no" /\ conn.in /\ sess.in /\ conn.status = "disconnected" =>
    sess.status \in {"disconnected", "error", "completed"}

\* As long as nobody has ended it, a session is in memory with its connection,
\* and is read from its record for want of one of the two.
Kept ==
  finished = "no" =>
    /\ ~timer
    /\ \A k \in DOMAIN cmds : /\ cmds[k].op # "delete"
                              /\ cmds[k].op = "get" => k = 1 /\ (store = None \/ ~conn.in)
    /\ created = "done" /\ ~sess.in => ~conn.in

\* Sockets are closed here for a connection that goes.
Unclosed == conn.in => \A i \in Sockets : sock[i] # "closing"

Goes(i) == sock[i] \in {"open", "connecting", "failed", "closing", "dropping"}
Alive == (\E i \in Sockets : Goes(i)) \/ (\E a \in Attempts : att[a].at \in {"waiting", "opening"})

\* What is under way has its socket, and an active connection has something to go on with.
Carried ==
  ~Can("normal") /\ torn = {} =>
    /\ \A i \in greeting : IsOpen(i)
    /\ \A r \in inbox : sock[r.on] \in {"open", "closing", "dropping"}
    /\ \A t \in Tasks : task[t].at = "packing" => IsOpen(task[t].ws)
    /\ (\E t \in Tasks : task[t].at = "next") => \E i \in Sockets : Goes(i)
    /\ conn.in /\ created = "done" /\ conn.status \in Active => Alive

Ending == Begun /\ Fate /\ Kept /\ Unclosed /\ Carried
-----------------------------------------------------------------------------
(* The end is kept: the session and its record                             *)

LEMMA SaveIs ==
  ASSUME SessionTyped, NEW s, NEW then, NEW text
  PROVE  /\ DOMAIN Save(s, then, text) = 1 .. Len(cmds) + 1
         /\ Save(s, then, text)[Len(cmds) + 1].op = "save"
         /\ \A k \in DOMAIN cmds : Save(s, then, text)[k] = cmds[k]
<1> DEFINE c == [Command("save", then, text) EXCEPT !.of = s]
<1>1. c.op = "save"
  BY DEF Command
<1>2. Save(s, then, text) = Append(cmds, c)
  BY DEF Save
<1> HIDE DEF c
<1>3. cmds \in Seq(CommandType)
  BY DEF SessionTyped
<1> QED
  BY <1>1, <1>2, <1>3

Saves == cmds' = cmds \/ \E s, then, text : cmds' = Save(s, then, text)

LEMMA KeptStays ==
  ASSUME Typed, Kept, UNCHANGED <<store, timer, finished>>, Saves, sess'.in = sess.in,
         created' = created \/ created' # "done", conn'.in => conn.in
  PROVE  Kept'
<1> SUFFICES ASSUME finished = "no" PROVE Kept'
  BY DEF Kept
<1>1. ASSUME NEW k \in DOMAIN cmds'
      PROVE  /\ cmds'[k].op # "delete"
             /\ cmds'[k].op = "get" => k = 1 /\ (store = None \/ ~conn.in)
  <2>1. CASE k \in DOMAIN cmds /\ cmds'[k] = cmds[k]
    BY <2>1 DEF Kept
  <2>2. CASE cmds'[k].op = "save"
    BY <2>2
  <2>3. cmds \in Seq(CommandType)
    BY DEF Typed, SessionTyped
  <2> QED
    BY <2>1, <2>2, <2>3, SaveIs DEF Saves, Typed
<1> QED
  BY <1>1 DEF Kept

LEMMA KeptAlone ==
  ASSUME Typed, Typed', Base, Kept, Alone, UNCHANGED connVars
  PROVE  Kept'
<1>1. UNCHANGED <<created, conn>>
  BY DEF connVars
<1> SUFFICES ASSUME finished' = "no" PROVE Kept'
  BY DEF Kept
<1>2. finished = "no"
  BY DEF Alone, Saved, Restored, Completed, CleanupTimer, Sweep, Wait, Age, Expire, Ping, Restore
<1>3. ~timer /\ \A k \in DOMAIN cmds : cmds[k].op # "delete"
  BY <1>2 DEF Kept
<1>4. ~Completed /\ ~CleanupTimer /\ ~Sweep
  BY <1>2, <1>3, HeadIsThere DEF Completed, Forgotten, Answered, CleanupTimer, Sweep
<1>5. cmds \in Seq(CommandType)
  BY DEF Typed, SessionTyped
<1>6. CASE Saved \/ Restored
  <2>1. cmds # <<>> /\ cmds' = Tail(cmds) /\ UNCHANGED timer
    BY <1>6 DEF Saved, Restored, Answered
  <2>2. \A k \in DOMAIN cmds' : k + 1 \in DOMAIN cmds /\ k + 1 > 1 /\ cmds'[k] = cmds[k + 1]
    BY <2>1, TailOf DEF Typed
  <2>3. \A k \in DOMAIN cmds' : cmds'[k].op \notin {"delete", "get"}
    BY <1>2, <2>2 DEF Kept
  <2>4. created = "done" /\ ~sess'.in => ~sess.in
    BY <1>6 DEF Saved, Restored
  <2> QED
    BY <1>1, <1>2, <2>1, <2>3, <2>4 DEF Kept
<1>7. CASE Wait \/ Age \/ Expire
  BY <1>1, <1>2, <1>7 DEF Kept, Wait, Age, Expire
<1>8. CASE Ping
  BY <1>1, <1>8, KeptStays DEF Ping, Saves
<1>9. CASE Restore /\ cmds = <<>>
  <2>1. cmds' = <<Command("get", "none", 0)>> /\ UNCHANGED <<sess, store, timer>> /\ ~sess.in
    BY <1>9 DEF Restore
  <2>2. \A k \in DOMAIN cmds' : k = 1 /\ cmds'[k].op = "get"
    BY <2>1 DEF Command
  <2>3. store = None \/ ~conn.in
    BY <1>2, <2>1 DEF Kept, Base, Unready
  <2> QED
    BY <1>1, <1>2, <2>1, <2>2, <2>3 DEF Kept
<1> QED
  BY <1>4, <1>6, <1>7, <1>8, <1>9 DEF Alone
-----------------------------------------------------------------------------
(* The end is kept: sockets                                                *)

LEMMA SessTyped ==
  ASSUME Typed
  PROVE  /\ sess \in SessionType /\ conn \in ConnType /\ conn.ws \in Sockets /\ greeting \subseteq Sockets
         /\ \A r \in inbox : r.on \in Sockets
         /\ \A t \in Tasks : task[t].ws \in Sockets /\ (IsPacket(t) => task[t].at # "next")
BY DEF Typed, ConnTyped, SessionTyped, ConnType, TaskType, MessageType, InArray

LEMMA ConnectEnd ==
  ASSUME Typed, Blank, Base, Typed', Ending, Connect, Calm
  PROVE  Ending'
<1>1. /\ created = "no" /\ created' = "pending" /\ sock' = [sock EXCEPT ![0] = "connecting"]
      /\ conn' = [NoConn EXCEPT !.in = TRUE, !.status = "connecting"]
      /\ UNCHANGED <<sess, cmds, since, att, task, greeting, inbox, spoken, beats, heard, torn>>
  BY DEF Connect
<1>2. /\ greeting = {} /\ \A i \in Sockets : sock[i] = "none"
  BY <1>1 DEF Blank
<1>3. \A t \in Tasks : task[t].at = "idle"
  BY <1>1 DEF Blank
<1>4. conn'.status = "connecting"
  BY <1>1 DEF NoConn
<1>5. inbox = {} /\ ~sess.in /\ store = None
  BY <1>1 DEF Base, Unused, Unready
<1>6. \A i \in Sockets : sock'[i] # "closing"
  BY <1>1, <1>2 DEF Typed, ConnTyped
<1>7. Begun' /\ Fate' /\ Unclosed'
  BY <1>1, <1>5, <1>6 DEF Begun, Fate, Unclosed
<1>8. Carried'
  BY <1>1, <1>2, <1>3, <1>5 DEF Carried
<1>9. Kept'
  BY <1>1, <1>5 DEF Ending, Kept, Calm
<1> QED
  BY <1>7, <1>8, <1>9 DEF Ending

LEMMA OpenEnd ==
  ASSUME Typed, Base, Typed', Ending, NEW i \in Sockets, Open(i), Calm, UNCHANGED world
  PROVE  Ending'
<1>1. /\ sock[i] = "connecting" /\ sock' = [sock EXCEPT ![i] = "open"] /\ greeting' = greeting \cup {i}
      /\ UNCHANGED <<created, sess, cmds, since, conn, att, task, inbox, spoken, beats, heard, torn>>
  BY DEF Open
<1>2. \A j \in Sockets : sock'[j] = IF j = i THEN "open" ELSE sock[j]
  BY <1>1 DEF Typed, ConnTyped
<1>3. \A j \in Sockets : Goes(j) => Goes(j)'
  BY <1>2 DEF Goes
<1>4. Goes(i)'
  BY <1>2 DEF Goes
<1>5. Begun' /\ Fate' /\ Unclosed'
  BY <1>1, <1>2 DEF Ending, Begun, Fate, Unclosed, Calm
<1>6. Kept'
  BY <1>1, KeptStays DEF Ending, Calm, Saves
<1>7. Carried'
  BY <1>1, <1>2, <1>3, <1>4, SessTyped DEF Ending, Carried, IsOpen, Alive, Can
<1> QED
  BY <1>5, <1>6, <1>7 DEF Ending

LEMMA GreetEnd ==
  ASSUME Typed, Blank, Base, Typed', Ending, NEW i \in Sockets, Greet(i), Calm, UNCHANGED world
  PROVE  Ending'
<1>1. /\ i \in greeting /\ greeting' = greeting \ {i} /\ UNCHANGED <<cmds, since, sock, inbox, spoken, heard, torn>>
      /\ conn'.in = conn.in /\ conn'.status = "connected"
  BY GreetDoes
<1>2. Begun' /\ Fate' /\ Unclosed'
  BY <1>1 DEF Ending, Begun, Fate, Unclosed
<1>3. Kept'
  <2>1. CASE i = 0
    <3>1. created = "pending"
      BY <1>1, <2>1 DEF Base, First
    <3>2. sess' = [in |-> TRUE, status |-> "connected", text |-> 0]
      BY <2>1, <3>1, GreetDoes DEF Attempts
    <3>3. sess'.in
      BY <3>2
    <3> QED
      BY <1>1, <3>3 DEF Ending, Kept, Calm
  <2>2. CASE i # 0
    <3>1. created' = created /\ sess'.in = sess.in
      BY <2>2, GreetDoes, Callbacks, SessTyped
    <3> QED
      BY <1>1, <3>1, KeptStays DEF Ending, Calm, Saves
  <2> QED
    BY <2>1, <2>2
<1>4. Carried'
  <2> SUFFICES ASSUME ~Can("normal"), torn = {} PROVE Carried'
    BY <1>1 DEF Carried, Can
  <2>1. Goes(i) /\ \A j \in Sockets : Goes(j)' <=> Goes(j)
    BY <1>1 DEF Ending, Carried, Goes, IsOpen
  <2>2. \A t \in Tasks : task'[t].at = "packing" => task[t].at = "packing" /\ task'[t].ws = task[t].ws
    <3> DEFINE n == [NoTask EXCEPT !.at = "next", !.pos = 1]
    <3>1. n.at = "next"
      BY DEF NoTask
    <3> HIDE DEF n
    <3>2. UNCHANGED task \/ task' = [task EXCEPT ![<<"flush", i>>] = n]
      BY GreetDoes DEF n
    <3> QED
      BY <3>1, <3>2 DEF Typed, ConnTyped
  <2> QED
    BY <1>1, <2>1, <2>2 DEF Ending, Carried, IsOpen, Alive
<1> QED
  BY <1>2, <1>3, <1>4 DEF Ending

\* The status an attempt leaves, and what the session is told.
LEMMA TriesEnd ==
  ASSUME Typed, Ending, NEW i, Tries(i), UNCHANGED <<created, finished>>, created = "done" \/ ~sess.in
  PROVE  /\ Begun' /\ Fate' /\ sess'.in = sess.in
         /\ conn'.in /\ conn'.status \in Active => conn.status \in Active /\ \E a \in Attempts : att'[a].at = "waiting"
<1>1. sess'.in = sess.in
  BY Callbacks, SessTyped DEF Tries
<1>2. Begun'
  BY DEF Ending, Begun, Tries, SameConn
<1>3. Fate'
  BY <1>1, SessTyped DEF Ending, Fate, Tries, SameConn, Disconnected, Errored, SessionType
<1> QED
  BY <1>1, <1>2, <1>3 DEF Tries, Waiting, SameConn, Active

LEMMA RefuseEnd ==
  ASSUME Typed, Base, Typed', Ending, NEW i \in Sockets, Refuse(i), Calm, UNCHANGED world
  PROVE  Ending'
<1>1. /\ sock[i] = "connecting" /\ sock' = [sock EXCEPT ![i] = "failed"]
      /\ UNCHANGED <<cmds, since, task, greeting, inbox, spoken, beats, heard, torn>>
  BY RefuseDoes
<1>2. \A j \in Sockets : sock'[j] = IF j = i THEN "failed" ELSE sock[j]
  BY <1>1 DEF Typed, ConnTyped
<1>3. Goes(i)' /\ \A j \in Sockets : Goes(j) => Goes(j)'
  BY <1>2 DEF Goes
<1>4. Carried'
  BY <1>1, <1>2, <1>3, SessTyped DEF Ending, Carried, IsOpen, Alive, Can
<1>5. CASE i = 0
  <2>1. created' = "failed" /\ conn'.in = conn.in /\ conn'.status = "error" /\ sess' = Errored(sess)
    BY <1>5, RefuseDoes
  <2>2. sess'.in = sess.in
    BY <2>1, Callbacks, SessTyped
  <2>3. Begun' /\ Fate' /\ Unclosed'
    BY <1>2, <2>1 DEF Ending, Begun, Fate, Unclosed
  <2>4. Kept'
    BY <1>1, <2>1, <2>2, KeptStays DEF Ending, Calm, Saves
  <2> QED
    BY <1>4, <2>3, <2>4 DEF Ending
<1>6. CASE i # 0
  <2>1. created' = created /\ (Tries(i) \/ SameState) /\ conn'.in = conn.in
    BY <1>6, RefuseDoes DEF Tries, SameState
  <2>2. created = "done" \/ ~sess.in
    BY DEF Base, Unready
  <2>3. Begun' /\ Fate' /\ sess'.in = sess.in
    BY <2>1, <2>2, TriesEnd DEF SameState, Ending, Begun, Fate, Calm
  <2>4. Unclosed'
    BY <1>2, <2>1 DEF Ending, Unclosed
  <2>5. Kept'
    BY <1>1, <2>1, <2>3, KeptStays DEF Ending, Calm, Saves
  <2> QED
    BY <1>4, <2>3, <2>4, <2>5 DEF Ending
<1> QED
  BY <1>5, <1>6

\* A socket that closes without tearing anything.
LEMMA UntornOnes ==
  ASSUME Typed, NEW i \in Sockets, Tear(i), torn' = {}
  PROVE  /\ torn = {} /\ i \notin greeting /\ \A r \in inbox : r.on # i
         /\ \A t \in Tasks : task[t].at = "packing" => task[t].ws # i
BY DEF Tear

LEMMA CloseEnd ==
  ASSUME Typed, Base, Typed', Ending, NEW i \in Sockets, Close(i), Calm, UNCHANGED world
  PROVE  Ending'
<1>1. /\ sock[i] \in {"open", "failed", "dropping", "closing"} /\ sock' = [sock EXCEPT ![i] = "closed"]
      /\ UNCHANGED <<created, cmds, since, task, greeting, inbox, spoken, heard>> /\ Tear(i)
      /\ \/ Tries(0) /\ conn.status \notin {"completed", "disconnected"}
         \/ Ends /\ i = 0 /\ conn.status # "completed"
         \/ SameState /\ conn.status \in {"completed", "disconnected"}
         \/ SameState /\ i # 0 /\ (Can("normal") \/ sock[i] = "closing")
  BY CloseDoes
<1>2. \A j \in Sockets : sock'[j] = IF j = i THEN "closed" ELSE sock[j]
  BY <1>1 DEF Typed, ConnTyped
<1>3. conn'.in = conn.in
  BY <1>1 DEF Tries, Ends, SameState
<1>4. created = "done" \/ ~sess.in
  BY DEF Base, Unready
<1>5. Begun' /\ Fate' /\ sess'.in = sess.in
  <2>1. CASE Ends
    <3>1. sess'.in = sess.in
      BY <2>1, Callbacks, SessTyped DEF Ends
    <3>2. sess.in => sess'.status \in {"disconnected", "completed"}
      BY <2>1, SessTyped DEF Ends, Disconnected, SessionType
    <3> QED
      BY <1>1, <2>1, <3>1, <3>2 DEF Ending, Begun, Fate, Ends
  <2>2. CASE SameState
    BY <1>1, <2>2 DEF Ending, Begun, Fate, SameState, Calm
  <2> QED
    BY <1>1, <1>4, <2>1, <2>2, TriesEnd DEF Calm
<1>6. Unclosed'
  BY <1>2, <1>3 DEF Ending, Unclosed
<1>7. Kept'
  BY <1>1, <1>3, <1>5, KeptStays DEF Ending, Calm, Saves
<1>8. Carried'
  <2> SUFFICES ASSUME ~Can("normal"), torn' = {} PROVE Carried'
    BY DEF Carried, Can
  <2>1. /\ torn = {} /\ i \notin greeting /\ \A r \in inbox : r.on # i
        /\ \A t \in Tasks : task[t].at = "packing" => task[t].ws # i
    BY <1>1, UntornOnes
  <2>2. /\ \A j \in greeting' : IsOpen(j)'
        /\ \A r \in inbox' : sock'[r.on] \in {"open", "closing", "dropping"}
        /\ \A t \in Tasks : task'[t].at = "packing" => sock'[task'[t].ws] = "open"
    BY <1>1, <1>2, <2>1, SessTyped DEF Ending, Carried, IsOpen
  <2>3. \A t \in Tasks : task[t].at # "next"
    BY SessTyped, NoneNext, TaskKinds DEF Calm
  <2>4. ~(conn'.in /\ created' = "done" /\ conn'.status \in Active) \/ Alive'
    <3>1. CASE Tries(0)
      BY <1>4, <3>1, TriesEnd, <1>1 DEF Alive, Calm
    <3>2. CASE Ends
      BY <3>2 DEF Ends, Active
    <3>3. CASE SameState /\ conn.status \in {"completed", "disconnected"}
      BY <3>3 DEF SameState, Active
    <3>4. CASE SameState /\ (Can("normal") \/ sock[i] = "closing")
      BY <1>3, <3>4 DEF Ending, Unclosed
    <3> QED
      BY <1>1, <3>1, <3>2, <3>3, <3>4
  <2> QED
    BY <1>1, <2>2, <2>3, <2>4 DEF Carried, IsOpen
<1> QED
  BY <1>5, <1>6, <1>7, <1>8 DEF Ending

LEMMA AfterDelayEnd ==
  ASSUME Typed, Base, Typed', Ending, NEW i \in Attempts, AfterDelay(i), Calm, UNCHANGED world
  PROVE  Ending'
<1>1. /\ att[i].at = "waiting" /\ Settled
      /\ UNCHANGED <<created, sess, cmds, since, conn, task, greeting, inbox, spoken, beats, heard, torn>>
  BY DEF AfterDelay
<1>2. greeting = {} /\ inbox = {} /\ \A t \in Tasks : task[t].at \notin {"packing", "next"}
  BY <1>1 DEF Settled
<1>3. \/ ~(conn.in /\ conn.status \in Active) /\ UNCHANGED sock
      \/ att' = [att EXCEPT ![i].at = "opening"] /\ sock' = [sock EXCEPT ![i] = "connecting"]
  BY DEF AfterDelay, Active
<1>4. \A j \in Sockets : sock'[j] = "closing" => sock[j] = "closing"
  BY <1>3 DEF Typed, ConnTyped
<1>5. Begun' /\ Fate' /\ Unclosed'
  BY <1>1, <1>4 DEF Ending, Begun, Fate, Unclosed, Calm
<1>6. Kept'
  BY <1>1, KeptStays DEF Ending, Calm, Saves
<1>7. conn.in /\ conn.status \in Active => att'[i].at = "opening"
  BY <1>3 DEF Typed, ConnTyped, AttemptType
<1>8. Carried'
  BY <1>1, <1>2, <1>7 DEF Carried, Alive
<1> QED
  BY <1>5, <1>6, <1>8 DEF Ending

\* Runs of sendAudio.
LEMMA RestsEnd ==
  ASSUME Typed, Base, Typed', Ending, NEW t \in Tasks, Rests(t), Others(t), IsPacket(t) \/ task[t].at = "next",
         UNCHANGED Wires, Saves, UNCHANGED <<world, store, timer, finished>>
  PROVE  Ending'
<1>1. SameConn /\ sess' = sess /\ UNCHANGED <<created, sock, greeting, inbox, torn>>
  BY DEF Rests, Wires
<1>2. Begun' /\ Fate' /\ Unclosed'
  BY <1>1 DEF Ending, Begun, Fate, Unclosed, SameConn
<1>3. Kept'
  BY <1>1, KeptStays DEF Ending, SameConn
<1>4. /\ \A u \in Tasks : task'[u].at = "packing" => task[u].at = "packing" /\ task'[u].ws = task[u].ws
      /\ (\E u \in Tasks : task'[u].at = "next") => \E u \in Tasks : task[u].at = "next"
  <2>1. task'[t].at # "packing" /\ (task'[t].at = "next" => task[t].at = "next")
    BY DEF Rests
  <2> QED
    BY <2>1 DEF Others
<1>5. conn.in /\ Alive => Alive'
  BY <1>1 DEF Rests, Alive, Goes
<1>6. Carried'
  BY <1>1, <1>4, <1>5 DEF Ending, Carried, IsOpen, Goes, SameConn, Can
<1> QED
  BY <1>2, <1>3, <1>6 DEF Ending

LEMMA StartsEnd ==
  ASSUME Typed, Base, Typed', Ending, NEW t \in Tasks, Starts(t), Others(t),
         UNCHANGED Wires, Saves, UNCHANGED <<world, store, timer, finished>>
  PROVE  Ending'
<1>1. /\ IsOpen(conn.ws) /\ conn.in /\ conn'.in /\ conn'.ws = conn.ws /\ conn'.status \in Active
      /\ sess' = sess /\ att' = att /\ task'[t].at = "packing" /\ task'[t].ws = conn.ws
      /\ UNCHANGED <<created, sock, greeting, inbox, torn>> /\ conn.ws \in Sockets
  BY SessTyped DEF Starts, Wires
<1>2. Begun' /\ Fate' /\ Unclosed'
  BY <1>1 DEF Ending, Begun, Fate, Unclosed, Active
<1>3. Kept'
  BY <1>1, KeptStays DEF Ending
<1>4. Alive' /\ \E i \in Sockets : Goes(i)'
  BY <1>1 DEF Alive, Goes, IsOpen
<1>5. Carried'
  BY <1>1, <1>4 DEF Ending, Carried, IsOpen, Others, Can
<1> QED
  BY <1>2, <1>3, <1>5 DEF Ending

LEMMA AsksEnd ==
  ASSUME Typed, Base, Typed', Ending, NEW t \in Tasks, Asks(t), Others(t), created = "done",
         UNCHANGED Wires, Saves, UNCHANGED <<world, store, timer, finished>>
  PROVE  Ending'
<1>1. /\ conn.in /\ conn.status \in {"completed", "disconnected"} /\ Tries(0) /\ task'[t].at = "awaiting"
      /\ UNCHANGED <<created, sock, greeting, inbox, torn>> /\ conn'.in = conn.in
  BY DEF Asks, Wires, Tries
<1>2. Begun' /\ Fate' /\ sess'.in = sess.in /\ (conn'.in => conn'.status \notin Active)
  BY <1>1, TriesEnd DEF Active
<1>3. Unclosed'
  BY <1>1 DEF Ending, Unclosed
<1>4. Kept'
  BY <1>1, <1>2, KeptStays DEF Ending
<1>5. \A u \in Tasks : task'[u].at \in {"packing", "next"} => task'[u] = task[u]
  BY <1>1 DEF Others
<1>6. Carried'
  BY <1>1, <1>2, <1>5 DEF Ending, Carried, IsOpen, Goes, Can
<1> QED
  BY <1>2, <1>3, <1>4, <1>6 DEF Ending

LEMMA RunSaves ==
  ASSUME NEW t \in Tasks, SendAudio(t) \/ Return(t) \/ Throw(t) \/ Keep(t) \/ ToSocket(t)
  PROVE  Saves
BY DEF SendAudio, ToSocket, Pack, Keep, Throw, Return, Saves

LEMMA SendEnd ==
  ASSUME Typed, Base, Typed', Ending, NEW p \in Packets, Send(p), Calm, UNCHANGED world
  PROVE  Ending'
<1> DEFINE t == <<"packet", p>>
<1>1. t \in Tasks /\ IsPacket(t) /\ Others(t) /\ created = "done" /\ (Rests(t) \/ Starts(t) \/ Asks(t))
  BY SendDoes
<1>2. UNCHANGED Wires
  BY DEF Send, Wires
<1>3. Saves
  BY <1>1, RunSaves DEF Send, Saves
<1> HIDE DEF t
<1> QED
  BY <1>1, <1>2, <1>3, RestsEnd, StartsEnd, AsksEnd DEF Calm

LEMMA ResumeEnd ==
  ASSUME Typed, Base, Typed', Ending, NEW t \in Tasks, Resume(t), Calm, UNCHANGED world
  PROVE  Ending'
<1>1. IsPacket(t) /\ Others(t) /\ (Rests(t) \/ Starts(t))
  BY ResumeDoes
<1>2. UNCHANGED Wires /\ Saves
  BY RunSaves DEF Resume, Wires
<1> QED
  BY <1>1, <1>2, RestsEnd, StartsEnd DEF Calm

LEMMA PackedEnd ==
  ASSUME Typed, Base, Typed', Ending, NEW t \in Tasks, Packed(t), Calm, UNCHANGED world
  PROVE  Ending'
<1>1. /\ Others(t) /\ task[t].at = "packing" /\ task'[t].at = IF IsPacket(t) THEN "done" ELSE "next"
      /\ conn'.in = conn.in /\ conn'.ws = conn.ws /\ conn'.status = "streaming" /\ sess' = sess /\ att' = att
  BY PackedDoes
<1>2. UNCHANGED Wires /\ UNCHANGED <<created, sock, greeting, inbox, torn>> /\ Saves
  BY RunSaves DEF Packed, Wires
<1>3. Begun' /\ Fate' /\ Unclosed'
  BY <1>1, <1>2 DEF Ending, Begun, Fate, Unclosed
<1>4. Kept'
  BY <1>1, <1>2, KeptStays DEF Ending, Calm
<1>5. Carried'
  <2> SUFFICES ASSUME ~Can("normal"), torn = {} PROVE Carried'
    BY <1>2 DEF Carried, Can
  <2>1. IsOpen(task[t].ws) /\ task[t].ws \in Sockets
    BY <1>1, SessTyped DEF Ending, Carried
  <2>2. Alive' /\ \E i \in Sockets : Goes(i)'
    BY <1>2, <2>1 DEF Alive, Goes, IsOpen
  <2>3. \A u \in Tasks : task'[u].at = "packing" => task'[u] = task[u]
    BY <1>1 DEF Others
  <2> QED
    BY <1>2, <2>2, <2>3 DEF Ending, Carried, IsOpen
<1> QED
  BY <1>3, <1>4, <1>5 DEF Ending

LEMMA FlushEnd ==
  ASSUME Typed, Base, Typed', Ending, NEW i \in Attempts, Flush(i), UNCHANGED <<world, store, timer, finished>>
  PROVE  Ending'
<1> DEFINE t == <<"flush", i>>
<1>1. /\ t \in Tasks /\ ~IsPacket(t) /\ task[t].at = "next" /\ conn.status \in Active
      /\ (Others(t) /\ (Rests(t) \/ Starts(t))) \/ Empties(i)
  BY FlushDoes
<1>2. UNCHANGED Wires /\ UNCHANGED <<created, sock, greeting, inbox, torn>> /\ Saves
  BY <1>1, RunSaves DEF Flush, Wires, Saves
<1>3. CASE Empties(i)
  <2>1. SameConn /\ sess'.in = sess.in
    BY <1>3, Callbacks, SessTyped DEF Empties
  <2>2. Begun' /\ Fate' /\ Unclosed'
    BY <1>1, <1>2, <2>1 DEF Ending, Begun, Fate, Unclosed, SameConn, Active
  <2>3. Kept'
    BY <1>2, <2>1, KeptStays DEF Ending, SameConn
  <2>4. \A u \in Tasks : task'[u].at \in {"packing", "next"} => task'[u].at = task[u].at /\ task'[u].ws = task[u].ws
    BY <1>3 DEF Empties
  <2>5. Carried'
    <3> SUFFICES ASSUME ~Can("normal"), torn = {} PROVE Carried'
      BY <1>2 DEF Carried, Can
    <3>1. \E j \in Sockets : Goes(j)
      BY <1>1 DEF Ending, Carried
    <3>2. Alive' /\ \E j \in Sockets : Goes(j)'
      BY <1>2, <3>1 DEF Alive, Goes
    <3> QED
      BY <1>2, <2>4, <3>2 DEF Ending, Carried, IsOpen
  <2> QED
    BY <2>2, <2>3, <2>5 DEF Ending
<1> HIDE DEF t
<1> QED
  BY <1>1, <1>2, <1>3, RestsEnd, StartsEnd
-----------------------------------------------------------------------------
(* The end is kept: heartbeats, results and the session                    *)

\* Steps that leave sockets and what is under way alone.
LEMMA CarriedStays ==
  ASSUME Carried, UNCHANGED <<world, sock, greeting, task, att, torn, created>>, inbox' \subseteq inbox,
         conn'.in => conn.in, conn'.status \in Active /\ conn'.in => conn.status \in Active
  PROVE  Carried'
BY DEF Carried, IsOpen, Goes, Alive, Can

LEMMA BeatEnd ==
  ASSUME Typed, Base, Typed', Ending, Beat \/ Beaten \/ BeatTimeout, Calm, UNCHANGED world
  PROVE  Ending'
<1>1. UNCHANGED <<created, sess, cmds, since, att, task, greeting, inbox, spoken, heard>>
  BY DEF Beat, Beaten, BeatTimeout
<1>2. CASE Beat \/ Beaten
  <2>1. UNCHANGED <<conn, sock, torn>>
    BY <1>2 DEF Beat, Beaten
  <2>2. Begun' /\ Fate' /\ Unclosed' /\ Carried'
    BY <1>1, <2>1, CarriedStays DEF Ending, Begun, Fate, Unclosed, Calm
  <2>3. Kept'
    BY <1>1, <2>1, KeptStays DEF Ending, Calm, Saves
  <2> QED
    BY <2>2, <2>3 DEF Ending
<1>3. CASE BeatTimeout
  <2>1. conn'.in = conn.in /\ conn'.ws = conn.ws /\ conn'.status = "error" /\ Tear(conn.ws) /\ conn.ws \in Sockets
    BY <1>3, SessTyped DEF BeatTimeout, Typed, ConnTyped, ConnType
  <2>2. \A j \in Sockets : sock'[j] = sock[j] \/ (IsOpen(j) /\ j = conn.ws /\ sock'[j] = "dropping")
    BY <1>3, <2>1 DEF BeatTimeout, IsOpen, Typed, ConnTyped
  <2>3. Begun' /\ Fate' /\ Unclosed'
    BY <1>1, <2>1, <2>2 DEF Ending, Begun, Fate, Unclosed
  <2>4. Kept'
    BY <1>1, <2>1, KeptStays DEF Ending, Calm, Saves
  <2>5. Carried'
    <3> SUFFICES ASSUME ~Can("normal"), torn' = {} PROVE Carried'
      BY DEF Carried, Can
    <3>1. /\ torn = {} /\ conn.ws \notin greeting
          /\ \A t \in Tasks : task[t].at = "packing" => task[t].ws # conn.ws
      BY <2>1, UntornOnes
    <3>2. \A j \in Sockets : Goes(j) => Goes(j)'
      BY <2>2 DEF Goes
    <3>3. /\ \A j \in greeting : IsOpen(j)'
          /\ \A t \in Tasks : task[t].at = "packing" => sock'[task[t].ws] = "open"
      BY <2>2, <3>1, SessTyped DEF Ending, Carried, IsOpen
    <3>4. \A r \in inbox : sock'[r.on] \in {"open", "closing", "dropping"}
      BY <2>2, <3>1, SessTyped DEF Ending, Carried
    <3>5. \A t \in Tasks : task'[t].at = "packing" => sock'[task'[t].ws] = "open"
      BY <1>1, <3>3 DEF IsOpen
    <3> QED
      BY <1>1, <2>1, <3>1, <3>2, <3>3, <3>4, <3>5 DEF Ending, Carried, IsOpen, Active
  <2> QED
    BY <2>3, <2>4, <2>5 DEF Ending
<1> QED
  BY <1>2, <1>3

LEMMA ReceiveEnd ==
  ASSUME Typed, Base, Typed', Ending, NEW i \in Sockets, NEW kind \in Kinds, Receive(i, kind),
         UNCHANGED <<world, store, timer, finished>>
  PROVE  Ending'
<1>1. /\ UNCHANGED <<created, sess, cmds, conn, sock, att, task, greeting, torn>>
      /\ sock[i] \in {"open", "closing", "dropping"}
  BY DEF Receive
<1>2. \A r \in inbox' : r \in inbox \/ r.on = i
  BY DEF Receive
<1>3. Begun' /\ Fate' /\ Unclosed'
  BY <1>1 DEF Ending, Begun, Fate, Unclosed
<1>4. Kept'
  BY <1>1, KeptStays DEF Ending, Saves
<1>5. Carried'
  BY <1>1, <1>2 DEF Ending, Carried, IsOpen, Goes, Alive, Can
<1> QED
  BY <1>3, <1>4, <1>5 DEF Ending

LEMMA ParseEnd ==
  ASSUME Typed, Base, Typed', Ending, NEW r \in inbox, Parse(r), UNCHANGED <<world, store, timer, finished>>
  PROVE  Ending'
<1>1. UNCHANGED <<created, sock, att, task, greeting, torn>> /\ inbox' \subseteq inbox
  BY DEF Parse
<1>2. CASE r.bad
  <2>1. sess' = Errored(sess) /\ UNCHANGED <<cmds, conn>>
    BY <1>2 DEF Parse
  <2>2. sess'.in = sess.in /\ (sess.in => sess'.status = "error")
    BY <2>1, SessTyped DEF Errored, SessionType
  <2>3. Begun' /\ Fate' /\ Unclosed' /\ Carried'
    BY <1>1, <2>1, <2>2, CarriedStays DEF Ending, Begun, Fate, Unclosed
  <2>4. Kept'
    BY <1>1, <2>1, <2>2, KeptStays DEF Ending, Saves
  <2> QED
    BY <2>3, <2>4 DEF Ending
<1>3. CASE ~r.bad
  <2>1. conn'.in = conn.in /\ conn'.status = (IF r.final THEN "completed" ELSE "streaming") /\ HandleResult(r)
    BY <1>3 DEF Parse, Typed, ConnTyped, ConnType
  <2>2. sess'.in = sess.in /\ Saves
    <3>1. CASE ~sess.in
      BY <2>1, <3>1 DEF HandleResult, Saves
    <3>2. CASE sess.in
      <4>1. sess' = Resulted(sess, r) /\ cmds' = Save(sess', "tell", r.text)
        BY <2>1, <3>2 DEF HandleResult
      <4>2. Resulted(sess, r).in = sess.in
        BY SessTyped DEF Resulted, SessionType
      <4> QED
        BY <4>1, <4>2 DEF Saves
    <3> QED
      BY <3>1, <3>2
  <2>3. Begun' /\ Fate' /\ Unclosed'
    BY <1>1, <2>1 DEF Ending, Begun, Fate, Unclosed
  <2>4. Kept'
    BY <1>1, <2>1, <2>2, KeptStays DEF Ending
  <2>5. Carried'
    <3> SUFFICES ASSUME ~Can("normal"), torn = {} PROVE Carried'
      BY <1>1 DEF Carried, Can
    <3>1. Goes(r.on)' /\ r.on \in Sockets
      BY <1>1, SessTyped DEF Ending, Carried, Goes
    <3>2. Alive'
      BY <3>1 DEF Alive
    <3> QED
      BY <1>1, <3>1, <3>2 DEF Ending, Carried, IsOpen
  <2> QED
    BY <2>3, <2>4, <2>5 DEF Ending
<1> QED
  BY <1>2, <1>3

\* disconnect, of a session that is ended.
LEMMA DisconnectEnd ==
  ASSUME Typed, Typed', Ending, Disconnect \/ UNCHANGED <<conn, sock, torn>>, finished' # "no",
         UNCHANGED <<world, created, att, task, greeting, inbox>>
  PROVE  Ending'
<1>1. Fate' /\ Kept'
  BY DEF Fate, Kept
<1>2. CASE UNCHANGED <<conn, sock, torn>>
  BY <1>1, <1>2, CarriedStays DEF Ending, Begun, Unclosed
<1>3. CASE Disconnect /\ conn.in
  <2>1. ~conn'.in /\ Tear(conn.ws) /\ conn.ws \in Sockets
    BY <1>3, SessTyped DEF Disconnect, Typed, ConnTyped, ConnType
  <2>2. \A j \in Sockets : sock'[j] = sock[j] \/ (IsOpen(j) /\ j = conn.ws /\ sock'[j] = "closing")
    BY <1>3, <2>1 DEF Disconnect, IsOpen, Typed, ConnTyped
  <2>3. Carried'
    <3> SUFFICES ASSUME ~Can("normal"), torn' = {} PROVE Carried'
      BY DEF Carried, Can
    <3>1. /\ torn = {} /\ conn.ws \notin greeting
          /\ \A t \in Tasks : task[t].at = "packing" => task[t].ws # conn.ws
      BY <2>1, UntornOnes
    <3>2. \A j \in Sockets : Goes(j) => Goes(j)'
      BY <2>2 DEF Goes
    <3>3. \A j \in greeting : IsOpen(j)'
      BY <2>2, <3>1, SessTyped DEF Ending, Carried, IsOpen
    <3>4. \A r \in inbox : sock'[r.on] \in {"open", "closing", "dropping"}
      BY <2>2, <3>1, SessTyped DEF Ending, Carried
    <3>5. \A t \in Tasks : task'[t].at = "packing" => sock'[task'[t].ws] = "open"
      BY <2>2, <3>1, SessTyped DEF Ending, Carried, IsOpen
    <3> QED
      BY <2>1, <3>1, <3>2, <3>3, <3>4, <3>5 DEF Ending, Carried, IsOpen
  <2> QED
    BY <1>1, <2>1, <2>3 DEF Ending, Begun, Unclosed
<1> QED
  BY <1>2, <1>3 DEF Disconnect

LEMMA CrashEnd ==
  ASSUME Typed, Crash
  PROVE  Ending'
<1>1. /\ conn' = NoConn /\ cmds' = <<>> /\ timer' = FALSE /\ greeting' = {} /\ inbox' = {}
  BY DEF Crash
<1>2. ~conn'.in
  BY <1>1 DEF NoConn
<1>3. \A t \in Tasks : task'[t].at \notin {"packing", "next"}
  BY DEF Crash, NoTask
<1> QED
  BY <1>1, <1>2, <1>3 DEF Ending, Begun, Fate, Kept, Unclosed, Carried

LEMMA AloneEnd ==
  ASSUME Typed, Base, Typed', Ending, UNCHANGED connVars, Alone, UNCHANGED world
  PROVE  Ending'
<1>1. UNCHANGED <<created, conn, sock, att, task, greeting, inbox, torn>>
  BY DEF connVars
<1>2. Begun' /\ Unclosed' /\ Carried' /\ Kept'
  BY <1>1, CarriedStays, KeptAlone DEF Ending, Begun, Unclosed
<1>3. Fate'
  <2> SUFFICES ASSUME finished' = "no", conn.in PROVE Fate'
    BY <1>1 DEF Fate
  <2>1. finished = "no"
    BY DEF Alone, Saved, Restored, Completed, CleanupTimer, Sweep, Wait, Age, Expire, Ping, Restore
  <2>2. CASE Restored
    <3>1. cmds # <<>> /\ Head(cmds).op = "get"
      BY <2>2 DEF Restored, Answered
    <3>2. store = None
      BY <2>1, <3>1, HeadIsThere DEF Ending, Kept
    <3>3. sess' = sess
      BY <2>2, <3>2 DEF Restored
    <3> QED
      BY <1>1, <2>1, <3>3 DEF Ending, Fate
  <2>3. ~CleanupTimer
    BY <2>1 DEF CleanupTimer, Ending, Kept
  <2>4. CASE ~Restored
    <3>1. sess' = sess
      BY <2>3, <2>4 DEF Alone, Saved, Completed, Sweep, Wait, Age, Expire, Ping, Restore
    <3> QED
      BY <1>1, <2>1, <3>1 DEF Ending, Fate
  <2> QED
    BY <2>2, <2>4
<1> QED
  BY <1>2, <1>3 DEF Ending

LEMMA StatusEnd ==
  ASSUME Typed, Base, Typed', Ending, Status, UNCHANGED world
  PROVE  Ending'
<1>1. UNCHANGED <<created, conn, sock, att, task, greeting, inbox, torn>>
  BY DEF Status, connVars
<1>2. sess' = Synced /\ UNCHANGED <<store, cmds, timer, finished>>
  BY DEF Status
<1>3. sess'.in = sess.in /\ (conn.in /\ conn.status = "disconnected" => sess'.status = sess.status)
  BY <1>2, SessTyped DEF Synced, ProviderStatus, Active, SessionType
<1>4. Begun' /\ Unclosed' /\ Carried' /\ Fate'
  BY <1>1, <1>2, <1>3, CarriedStays DEF Ending, Begun, Unclosed, Fate
<1>5. Kept'
  BY <1>1, <1>2, <1>3, KeptStays DEF Ending, Saves
<1> QED
  BY <1>4, <1>5 DEF Ending

LEMMA EndingKept ==
  ASSUME Typed, Blank, Base, Typed', Ending, Next, UNCHANGED world
  PROVE  Ending'
<1>1. ASSUME NEW a \in Flushes, Flush(a), UNCHANGED <<store, told, over, timer, finished>> PROVE Ending'
  BY <1>1, FlushEnd DEF Flushes
<1> SUFFICES ASSUME Flushes = {} PROVE Ending'
  BY <1>1 DEF Next
<1>2. CASE ConnStep /\ UNCHANGED <<store, told, over, timer, finished>>
  <2>1. Calm
    BY <1>2 DEF Calm
  <2> QED
    BY <1>2, <2>1, ConnectEnd, BeatEnd, OpenEnd, GreetEnd, RefuseEnd, CloseEnd, AfterDelayEnd, ResumeEnd,
       PackedEnd DEF ConnStep
<1>3. ASSUME NEW i \in Sockets, NEW kind \in Kinds, Receive(i, kind), UNCHANGED <<store, over, timer, finished>>
      PROVE  Ending'
  BY <1>3, ReceiveEnd
<1>4. ASSUME NEW r \in inbox, Parse(r), UNCHANGED <<store, over, timer, finished>>
      PROVE  Ending'
  BY <1>4, ParseEnd
<1>5. ASSUME NEW p \in Packets, Send(p), UNCHANGED <<store, told, over, timer, finished>>
      PROVE  Ending'
  BY <1>5, SendEnd DEF Calm
<1>6. CASE Alone /\ UNCHANGED connVars
  BY <1>6, AloneEnd
<1>7. CASE Complete \/ Cancel
  BY <1>7, DisconnectEnd DEF Complete, Cancel
<1>8. CASE CleanUp
  <2>1. finished # "no"
    BY <1>8, HeadIsThere DEF CleanUp, Forgotten, Answered, Ending, Kept
  <2> QED
    BY <1>8, <2>1, DisconnectEnd DEF CleanUp
<1>9. CASE Shutdown
  BY <1>9, DisconnectEnd DEF Shutdown, connVars
<1> QED
  BY <1>2, <1>3, <1>4, <1>5, <1>6, <1>7, <1>8, <1>9, StatusEnd, CrashEnd DEF Next, OfConnection

LEMMA InitEnding ==
  ASSUME Init
  PROVE  Ending
<1>1. /\ sess = NoSession /\ cmds = <<>> /\ timer = FALSE
      /\ conn = NoConn /\ task = [t \in Tasks |-> NoTask] /\ greeting = {} /\ inbox = {}
  BY DEF Init, SessionInit, ConnInit
<1>2. ~conn.in /\ \A t \in Tasks : task[t].at = "idle"
  BY <1>1, NoTaskTyped DEF NoConn
<1> QED
  BY <1>1, <1>2 DEF Ending, Begun, Fate, Kept, Unclosed, Carried

EndInv == BaseInv /\ Ending

LEMMA EndingHolds == Spec => []EndInv
<1>1. Init => Ending
  BY InitEnding
<1>2. BaseInv /\ BaseInv' /\ Ending /\ [Next /\ UNCHANGED world]_vars => Ending'
  <2> SUFFICES ASSUME BaseInv, BaseInv', Ending, [Next /\ UNCHANGED world]_vars PROVE Ending'
    OBVIOUS
  <2>1. CASE Next /\ UNCHANGED world
    BY <2>1, EndingKept DEF BaseInv, AsrInv
  <2>2. CASE UNCHANGED vars
    <3>1. UNCHANGED <<world, created, conn, sock, att, task, greeting, inbox, torn, sess, store, cmds, timer, finished>>
      BY <2>2 DEF vars, connVars, sessionVars
    <3>2. Begun' /\ Fate' /\ Unclosed' /\ Carried'
      BY <3>1, CarriedStays DEF Ending, Begun, Fate, Unclosed
    <3>3. Kept'
      BY <3>1, KeptStays DEF Ending, BaseInv, AsrInv, Saves
    <3> QED
      BY <3>2, <3>3 DEF Ending
  <2> QED
    BY <2>1, <2>2
<1> QED
  BY <1>1, <1>2, BaseHolds, PTL DEF Spec, EndInv

\* When the last attempt of a session in use has failed, the client's next look at
\* the status shows it.
THEOREM EndsAreShown == Spec => []EndIsShown
<1>1. EndInv => EndIsShown
  <2> SUFFICES ASSUME EndInv, ~Can("normal"), torn = {}, finished = "no", Quiet, sess.in, conn.in,
                      \A i \in Sockets : ~IsOpen(i)
               PROVE  Synced.status \in {"disconnected", "error", "completed"}
    BY DEF EndIsShown
  <2>1. Typed /\ Ending
    BY DEF EndInv, BaseInv, AsrInv
  <2>2. created = "done" /\ ~Alive
    BY DEF Quiet, Alive, Goes, IsOpen
  <2>3. conn.status \notin Active \cup {"connecting", "none"}
    BY <2>1, <2>2 DEF Ending, Begun, Carried
  <2>4. conn.status \in {"completed", "error", "disconnected"}
    BY <2>1, <2>3, SessTyped DEF ConnType, Statuses, Active
  <2>5. conn.status = "disconnected" => sess.status \in {"disconnected", "error", "completed"}
    BY <2>1 DEF Ending, Fate
  <2>6. sess \in SessionType
    BY <2>1, SessTyped
  <2> QED
    BY <2>4, <2>5, <2>6 DEF Synced, ProviderStatus, Active, SessionType
<1> QED
  BY <1>1, EndingHolds, PTL
-----------------------------------------------------------------------------
(* Audio is sent once                                                      *)

\* Recognition is not ended, and the provider accepts connections.
Listening == world.kinds = {} /\ ~Can("unreachable")

Running(a) == task[<<"flush", a>>].at \in {"packing", "next"}

\* One flush at a time goes through the buffer.
Lone ==
  /\ \A t \in Tasks : task[t].own = <<>>
  /\ \A a, b \in Attempts : Running(a) /\ Running(b) => a = b

\* What is packed is for the connection's socket.
Paired == \A t \in Tasks : task[t].at = "packing" => task[t].ws = conn.ws /\ (IsOpen(conn.ws) => conn.in)

\* Positions of the buffer that are still to be sent.
From(k) == k \in 1 .. Len(conn.pending) /\ \A a \in Attempts : Running(a) => task[<<"flush", a>>].pos <= k

\* A flush that buffers what it finds in the buffer, and then empties it.
Doomed ==
  /\ \E a \in Attempts : task[<<"flush", a>>].at = "next"
  /\ ~conn.in \/ conn.reconnecting \/ ~IsOpen(conn.ws)

Heard(p) == \E k \in 1 .. Len(heard) : heard[k][2] = p
Early(p) == task[<<"packet", p>>].at \in {"idle", "awaiting", "packing"}

Once ==
  /\ heard \in Seq(Sockets \X Packets)
  /\ \A j, k \in 1 .. Len(heard) : heard[j][2] = heard[k][2] => j = k

\* A packet is on its way, has been heard, or waits at one place of the buffer.
New == \A p \in Packets : Early(p) => ~Heard(p)
Queue ==
  conn.in /\ ~Doomed => \A k \in 1 .. Len(conn.pending) : From(k) =>
    /\ ~Heard(conn.pending[k]) /\ ~Early(conn.pending[k])
    /\ \A j \in 1 .. Len(conn.pending) : From(j) /\ conn.pending[j] = conn.pending[k] => j = k

Voice == Lone /\ Paired /\ Once /\ New /\ Queue

LEMMA NotDoomed ==
  ASSUME Flushes = {}
  PROVE  ~Doomed
BY NoneNext DEF Doomed

LEMMA VoiceStays ==
  ASSUME Typed, Voice, Flushes = {}, UNCHANGED <<task, heard>>, Paired',
         conn'.pending = <<>> \/ (conn'.pending = conn.pending /\ (conn'.in => conn.in))
  PROVE  Voice'
<1>1. Lone' /\ Once' /\ New'
  BY DEF Voice, Lone, Running, Once, New, Early, Heard
<1>2. Queue'
  <2>1. CASE conn'.pending = <<>>
    BY <2>1 DEF Queue
  <2>2. CASE conn'.pending = conn.pending /\ (conn'.in => conn.in)
    BY <2>2, NotDoomed DEF Voice, Queue, From, Running, Heard, Early
  <2> QED
    BY <2>1, <2>2
<1> QED
  BY <1>1, <1>2, Paired' DEF Voice

LEMMA PairedStays ==
  ASSUME Paired, UNCHANGED task, conn'.ws = conn.ws, IsOpen(conn.ws)' => IsOpen(conn.ws) /\ conn'.in = conn.in
  PROVE  Paired'
BY DEF Paired, IsOpen

LEMMA PairedNone ==
  ASSUME UNCHANGED task, \A t \in Tasks : task[t].at # "packing"
  PROVE  Paired'
BY DEF Paired

LEMMA SocketVoice ==
  ASSUME Typed, Blank, Base, Typed', Sole, Voice, Flushes = {},
         Connect \/ (\E i \in Sockets : Open(i) \/ Close(i)) \/ (\E a \in Attempts : AfterDelay(a))
         \/ Beat \/ Beaten \/ BeatTimeout
  PROVE  Voice'
<1>1. CASE Connect
  <2>1. \A t \in Tasks : task[t].at # "packing"
    BY <1>1 DEF Connect, Blank
  <2>2. UNCHANGED <<task, heard>> /\ conn'.pending = <<>>
    BY <1>1 DEF Connect, NoConn
  <2> QED
    BY <2>1, <2>2, PairedNone, VoiceStays
<1>2. ASSUME NEW i \in Sockets, Open(i) PROVE Voice'
  <2>1. UNCHANGED <<task, heard, conn>> /\ sock[i] = "connecting"
    BY <1>2 DEF Open
  <2>2. \A t \in Tasks : task[t].at # "packing"
    BY <2>1 DEF Sole, Dialing, Idle
  <2> QED
    BY <2>1, <2>2, PairedNone, VoiceStays
<1>3. ASSUME NEW i \in Sockets, Close(i) PROVE Voice'
  <2>1. UNCHANGED <<task, heard>> /\ conn'.pending = conn.pending /\ conn'.in = conn.in /\ conn'.ws = conn.ws
    BY <1>3, CloseDoes DEF Tries, Ends, SameState
  <2>2. sock' = [sock EXCEPT ![i] = "closed"] /\ conn.ws \in Sockets
    BY <1>3, CloseDoes, SessTyped
  <2>3. IsOpen(conn.ws)' => IsOpen(conn.ws)
    BY <2>1, <2>2 DEF IsOpen, Typed, ConnTyped
  <2> QED
    BY <2>1, <2>3, PairedStays, VoiceStays DEF Voice
<1>4. ASSUME NEW a \in Attempts, AfterDelay(a) PROVE Voice'
  <2>1. UNCHANGED <<task, heard, conn>> /\ \A t \in Tasks : task[t].at # "packing"
    BY <1>4 DEF AfterDelay, Settled
  <2> QED
    BY <2>1, PairedNone, VoiceStays
<1>5. CASE Beat \/ Beaten
  <2>1. UNCHANGED <<task, heard, conn, sock>>
    BY <1>5 DEF Beat, Beaten
  <2>2. Paired'
    BY <2>1 DEF Voice, Paired, IsOpen
  <2> QED
    BY <2>1, <2>2, VoiceStays
<1>6. CASE BeatTimeout
  <2>1. UNCHANGED <<task, heard>> /\ conn'.pending = conn.pending /\ conn'.in = conn.in /\ conn'.ws = conn.ws
    BY <1>6 DEF BeatTimeout, Typed, ConnTyped, ConnType
  <2>2. sock' = [sock EXCEPT ![conn.ws] = IF @ = "open" THEN "dropping" ELSE @] /\ conn.ws \in Sockets
    BY <1>6, SessTyped DEF BeatTimeout
  <2>3. IsOpen(conn.ws)' => IsOpen(conn.ws)
    BY <2>1, <2>2 DEF IsOpen, Typed, ConnTyped
  <2> QED
    BY <2>1, <2>3, PairedStays, VoiceStays DEF Voice
<1> QED
  BY <1>1, <1>2, <1>3, <1>4, <1>5, <1>6

LEMMA WireVoice ==
  ASSUME Typed, Typed', Voice, Flushes = {}, UNCHANGED <<task, heard>>, Disconnect \/ UNCHANGED <<conn, sock>>
  PROVE  Voice'
<1>1. CASE UNCHANGED <<conn, sock>>
  <2>1. Paired'
    BY <1>1 DEF Voice, Paired, IsOpen
  <2> QED
    BY <1>1, <2>1, VoiceStays
<1>2. CASE Disconnect /\ conn.in
  <2>1. conn'.pending = conn.pending /\ ~conn'.in /\ conn'.ws = conn.ws
    BY <1>2 DEF Disconnect, Typed, ConnTyped, ConnType
  <2>2. sock' = [sock EXCEPT ![conn.ws] = IF @ = "open" THEN "closing" ELSE @] /\ conn.ws \in Sockets
    BY <1>2, SessTyped DEF Disconnect
  <2>3. ~IsOpen(conn.ws)'
    BY <2>1, <2>2 DEF IsOpen, Typed, ConnTyped
  <2> QED
    BY <2>1, <2>3, PairedStays, VoiceStays DEF Voice
<1> QED
  BY <1>1, <1>2 DEF Disconnect

LEMMA ParseVoice ==
  ASSUME Typed, Typed', Voice, Flushes = {}, NEW r \in inbox, Parse(r)
  PROVE  Voice'
<1>1. UNCHANGED <<task, heard, sock>>
  BY DEF Parse
<1>2. conn'.pending = conn.pending /\ conn'.in = conn.in /\ conn'.ws = conn.ws
  BY DEF Parse, Typed, ConnTyped, ConnType
<1>3. IsOpen(conn.ws)' => IsOpen(conn.ws)
  BY <1>1, <1>2 DEF IsOpen
<1> QED
  BY <1>1, <1>2, <1>3, PairedStays, VoiceStays DEF Voice

LEMMA CrashVoice ==
  ASSUME Typed, Voice, Crash
  PROVE  Voice'
<1>1. conn' = NoConn /\ UNCHANGED heard /\ ~conn'.in
  BY DEF Crash, NoConn
<1>2. \A t \in Tasks : task'[t] = IF task[t].at \in {"done", "failed", "idle"} THEN task[t]
                                  ELSE IF IsPacket(t) THEN [NoTask EXCEPT !.at = "failed"] ELSE NoTask
  BY DEF Crash
<1>3. \A t \in Tasks : /\ task'[t].at \in {"idle", "done", "failed"} /\ task'[t].own = <<>>
                       /\ task'[t].at = "idle" => ~IsPacket(t) \/ task[t].at = "idle"
  BY <1>2 DEF NoTask, Voice, Lone
<1>4. Lone' /\ Paired'
  BY <1>3 DEF Lone, Running, Paired, Tasks
<1>5. \A p \in Packets : Early(p)' => Early(p)
  BY <1>3 DEF Early, Tasks, IsPacket
<1>6. Once' /\ New'
  BY <1>1, <1>5 DEF Voice, Once, New, Heard
<1> QED
  BY <1>1, <1>4, <1>6 DEF Voice, Queue

\* A new flush starts at the first packet.
LEMMA GreetVoice ==
  ASSUME Typed, Base, Typed', Sole, Voice, Flushes = {}, NEW i \in Sockets, Greet(i)
  PROVE  Voice'
<1>1. /\ i \in greeting /\ UNCHANGED <<sock, heard>> /\ conn'.in = conn.in /\ conn'.pending = conn.pending
  BY GreetDoes
<1>2. \A t \in Tasks : task[t].at \notin {"packing", "next"}
  BY <1>1 DEF Sole, Greeted, Idle
<1>3. CASE UNCHANGED task
  BY <1>1, <1>2, <1>3, PairedNone, VoiceStays
<1>4. CASE i \in Attempts /\ task' = [task EXCEPT ![<<"flush", i>>] = [NoTask EXCEPT !.at = "next", !.pos = 1]]
  <2> DEFINE n == [NoTask EXCEPT !.at = "next", !.pos = 1]
             t == <<"flush", i>>
  <2>1. n.at = "next" /\ n.pos = 1 /\ n.own = <<>>
    BY DEF NoTask
  <2>2. t \in Tasks /\ t[1] # "packet"
    BY <1>4 DEF Tasks
  <2> HIDE DEF n
  <2>3. task'[t] = n /\ \A u \in Tasks \ {t} : task'[u] = task[u]
    BY <1>4, <2>2 DEF Typed, ConnTyped, n
  <2>4. \A a \in Attempts : Running(a)' <=> a = i
    <3>1. ASSUME NEW a \in Attempts, a # i PROVE ~Running(a)'
      <4>1. <<"flush", a>> \in Tasks \ {t}
        BY <3>1 DEF Tasks
      <4> QED
        BY <1>2, <2>3, <4>1 DEF Running
    <3>2. Running(i)'
      BY <2>1, <2>3 DEF Running
    <3> QED
      BY <3>1, <3>2
  <2>5. Lone' /\ Paired'
    BY <1>2, <2>1, <2>3, <2>4 DEF Voice, Lone, Paired
  <2>6. \A p \in Packets : Early(p)' <=> Early(p)
    BY <2>3 DEF Early, Tasks
  <2>7. \A p : Heard(p)' <=> Heard(p)
    BY <1>1 DEF Heard
  <2>8. Once' /\ New'
    BY <1>1, <2>6, <2>7 DEF Voice, Once, New
  <2>9. \A k \in 1 .. Len(conn'.pending) : From(k)
    BY <1>1, <1>2 DEF From, Running, Tasks
  <2>10. \A k \in 1 .. Len(conn.pending) : conn.pending[k] \in Packets
    BY DEF Typed, ConnTyped, ConnType
  <2>11. Queue'
    BY <1>1, <2>6, <2>7, <2>9, <2>10, NotDoomed DEF Voice, Queue
  <2> QED
    BY <2>5, <2>8, <2>11 DEF Voice
<1> QED
  BY <1>3, <1>4, GreetDoes

\* What a run of sendAudio for a packet of a client does to the buffer.
Pends(t) ==
  \/ conn'.pending = conn.pending
  \/ task'[t].at = "done" /\ conn'.pending = Append(conn.pending, t[2])

LEMMA RunPends ==
  ASSUME Typed, Typed', Counted, NEW t \in Tasks, IsPacket(t),
         SendAudio(t) \/ ToSocket(t) \/ Throw(t) \/ Keep(t) \/ (Return(t) /\ UNCHANGED conn)
  PROVE  Pends(t) /\ task'[t].own = task[t].own
<1>0. conn \in ConnType /\ task \in [Tasks -> TaskType]
  BY DEF Typed, ConnTyped
<1>1. ASSUME Throw(t) PROVE Pends(t) /\ task'[t].own = task[t].own
  <2>1. conn' = conn /\ task' = [task EXCEPT ![t] = [@ EXCEPT !.at = "failed"]]
    BY <1>1 DEF Throw, Become, State
  <2> QED
    BY <1>0, <2>1 DEF Pends, TaskType
<1>2. ASSUME Keep(t) PROVE Pends(t) /\ task'[t].own = task[t].own
  <2>1. task' = [task EXCEPT ![t].at = "done"] /\ conn' = Buffered(conn, t[2])
    BY <1>2 DEF Keep, Return, Value
  <2> QED
    BY <1>0, <2>1 DEF Pends, Buffered, ConnType, TaskType
<1>3. ASSUME NEW status \in Active, Pack(t, status) PROVE Pends(t) /\ task'[t].own = task[t].own
  BY <1>0, <1>3 DEF Pack, Pends, ConnType, TaskType
<1>4. ASSUME Return(t), UNCHANGED conn PROVE Pends(t) /\ task'[t].own = task[t].own
  BY <1>0, <1>4 DEF Return, Pends, TaskType
<1>5. ASSUME ToSocket(t), conn.status \in Active PROVE Pends(t) /\ task'[t].own = task[t].own
  BY <1>1, <1>2, <1>3, <1>5 DEF ToSocket
<1>6. ASSUME Become(Attempt(State, t)), task' = [task EXCEPT ![t].at = "awaiting"]
      PROVE  Pends(t) /\ task'[t].own = task[t].own
  <2>1. Tried(State, Attempt(State, t)) /\ State.conn = conn
    BY StateTyped, AttemptTyped DEF Typed, State
  <2> QED
    BY <1>0, <1>6, <2>1 DEF Tried, Become, Pends, TaskType
<1>7. ASSUME SendAudio(t) PROVE Pends(t) /\ task'[t].own = task[t].own
  BY <1>1, <1>2, <1>3, <1>5, <1>6, <1>7 DEF SendAudio, Active
<1>8. ASSUME ToSocket(t) PROVE Pends(t) /\ task'[t].own = task[t].own
  <2>1. (conn'.pending = conn.pending /\ task'[t].own = task[t].own) \/ Throw(t) \/ Keep(t)
    BY <1>0, <1>8 DEF ToSocket, Pack, ConnType, TaskType
  <2> QED
    BY <1>1, <1>2, <2>1 DEF Pends
<1> QED
  BY <1>1, <1>2, <1>4, <1>7, <1>8

\* A packet of a client that is sent, buffered, refused, or waits.
LEMMA PacketVoice ==
  ASSUME Typed, Typed', Voice, Flushes = {}, UNCHANGED <<heard, sock>>, NEW p \in Packets,
         LET t == <<"packet", p>> IN
         /\ Others(t) /\ Pends(t) /\ task'[t].own = task[t].own /\ Early(p)
         /\ task'[t].at = "packing" => task'[t].ws = conn.ws /\ conn.in,
         conn'.in = conn.in, conn'.ws = conn.ws
  PROVE  Voice'
<1> DEFINE t == <<"packet", p>>
<1>1. t \in Tasks /\ t[2] = p /\ \A a \in Attempts : <<"flush", a>> \in Tasks \ {t}
  BY DEF Tasks
<1>2. \A a \in Attempts : task'[<<"flush", a>>] = task[<<"flush", a>>]
  BY <1>1 DEF Others
<1>3. \A a \in Attempts : Running(a)' <=> Running(a)
  BY <1>2 DEF Running
<1>4. Lone'
  BY <1>1, <1>3 DEF Voice, Lone, Others
<1>5. Paired'
  BY DEF Voice, Paired, Others, IsOpen
<1>6. \A q \in Packets : q # p => (Early(q)' <=> Early(q))
  <2>1. ASSUME NEW q \in Packets, q # p PROVE task'[<<"packet", q>>] = task[<<"packet", q>>]
    <3>1. <<"packet", q>> \in Tasks \ {t}
      BY <2>1 DEF Tasks
    <3> QED
      BY <3>1 DEF Others
  <2> QED
    BY <2>1 DEF Early
<1>7. \A q : Heard(q)' <=> Heard(q)
  BY DEF Heard
<1>8. Once' /\ New'
  BY <1>6, <1>7 DEF Voice, Once, New
<1>9. Queue'
  <2> SUFFICES ASSUME conn.in PROVE Queue'
    BY DEF Queue
  <2>1. conn.pending \in Seq(Packets)
    BY DEF Typed, ConnTyped, ConnType
  <2>2. \A k \in 1 .. Len(conn.pending) : From(k) =>
          /\ conn.pending[k] \in Packets /\ conn.pending[k] # p /\ ~Heard(conn.pending[k]) /\ ~Early(conn.pending[k])
          /\ \A j \in 1 .. Len(conn.pending) : From(j) /\ conn.pending[j] = conn.pending[k] => j = k
    BY <2>1, NotDoomed DEF Voice, Queue
  <2>3. \A k \in 1 .. Len(conn.pending) : From(k)' => From(k)
    BY <1>2, <1>3 DEF From
  <2>4. CASE conn'.pending = conn.pending
    BY <1>6, <1>7, <2>2, <2>3, <2>4 DEF Queue
  <2>5. CASE task'[t].at = "done" /\ conn'.pending = Append(conn.pending, p)
    <3> DEFINE n == Len(conn.pending) + 1
    <3>1. /\ Len(conn'.pending) = n /\ conn'.pending[n] = p /\ Len(conn.pending) \in Nat
          /\ \A k \in 1 .. Len(conn.pending) : conn'.pending[k] = conn.pending[k]
          /\ \A k \in 1 .. n : k = n \/ k \in 1 .. Len(conn.pending)
      BY <2>1, <2>5
    <3>2. ~Heard(p) /\ ~Early(p)'
      BY <2>5 DEF Voice, New, Early
    <3> HIDE DEF n
    <3> QED
      BY <1>6, <1>7, <2>2, <2>3, <3>1, <3>2 DEF Queue
  <2> QED
    BY <1>1, <2>4, <2>5 DEF Pends
<1> QED
  BY <1>4, <1>5, <1>8, <1>9 DEF Voice

LEMMA SendVoice ==
  ASSUME Typed, Base, Typed', Voice, Flushes = {}, NEW p \in Packets, Send(p)
  PROVE  Voice'
<1> DEFINE t == <<"packet", p>>
<1>1. t \in Tasks /\ IsPacket(t) /\ Others(t) /\ (Rests(t) \/ Starts(t) \/ Asks(t))
  BY SendDoes
<1>2. task[t].at = "idle" /\ UNCHANGED <<heard, sock>>
  BY DEF Send
<1>3. Pends(t) /\ task'[t].own = task[t].own
  <2>1. CASE SendAudio(t)
    BY <1>1, <2>1, RunPends DEF Base
  <2>2. CASE UNCHANGED conn /\ task' = [task EXCEPT ![t].at = "failed"]
    BY <1>1, <2>2 DEF Pends, Typed, ConnTyped, TaskType
  <2> QED
    BY <2>1, <2>2 DEF Send
<1>4. conn'.in = conn.in /\ conn'.ws = conn.ws /\ (task'[t].at = "packing" => task'[t].ws = conn.ws /\ conn.in)
  BY <1>1 DEF Rests, Starts, Asks, Tries, SameConn
<1>5. Early(p)
  BY <1>2 DEF Early
<1> QED
  BY <1>1, <1>2, <1>3, <1>4, <1>5, PacketVoice

LEMMA ResumeVoice ==
  ASSUME Typed, Base, Typed', Voice, Flushes = {}, NEW t \in Tasks, Resume(t)
  PROVE  Voice'
<1>1. IsPacket(t) /\ Others(t) /\ (Rests(t) \/ Starts(t))
  BY ResumeDoes
<1>2. task[t].at = "awaiting" /\ UNCHANGED <<heard, sock>>
  BY DEF Resume
<1>3. Pends(t) /\ task'[t].own = task[t].own
  BY <1>1, RunPends DEF Base, Resume
<1>4. conn'.in = conn.in /\ conn'.ws = conn.ws /\ (task'[t].at = "packing" => task'[t].ws = conn.ws /\ conn.in)
  BY <1>1 DEF Rests, Starts, SameConn
<1>5. PICK p \in Packets : t = <<"packet", p>>
  BY <1>1, TaskKinds
<1>6. Early(p)
  BY <1>2, <1>5 DEF Early
<1> QED
  BY <1>1, <1>2, <1>3, <1>4, <1>5, <1>6, PacketVoice

\* What a flush goes through is the buffer.
LEMMA FlushAt ==
  ASSUME Typed, Base, Lone, NEW i \in Attempts, Running(i)
  PROVE  LET t == <<"flush", i>> IN
         /\ t \in Tasks /\ ~IsPacket(t) /\ Array(t) = conn.pending /\ task[t].pos \in Nat \ {0}
         /\ \A a \in Attempts : Running(a) => a = i
         /\ \A u \in Tasks \ {t} : ~IsPacket(u) => task[u].at = "idle"
<1> DEFINE t == <<"flush", i>>
<1>1. t \in Tasks /\ ~IsPacket(t) /\ task[t].at # "idle"
  BY DEF Tasks, IsPacket, Running
<1>2. Array(t) = conn.pending /\ task[t].pos \in Nat \ {0}
  BY <1>1 DEF Lone, Array, Typed, ConnTyped, InArray
<1>3. ASSUME NEW u \in Tasks \ {t}, ~IsPacket(u) PROVE task[u].at = "idle"
  <2>1. PICK a \in Attempts : u = <<"flush", a>>
    BY <1>3, TaskKinds
  <2>2. ~Running(a)
    BY <1>3, <2>1 DEF Lone
  <2>3. task[u].at \notin {"done", "failed", "awaiting"} /\ task[u] \in TaskType
    BY <1>3, <2>1 DEF Base, FlushesGoOn, Typed, ConnTyped, InArray
  <2> QED
    BY <2>1, <2>2, <2>3 DEF Running, TaskType
<1> QED
  BY <1>1, <1>2, <1>3 DEF Lone

\* What has been packed for an open socket has not been heard.
LEMMA PackedIsNew ==
  ASSUME Typed, Base, Voice, Flushes = {}, NEW t \in Tasks, task[t].at = "packing"
  PROVE  /\ Value(t) \in Packets
         /\ IsOpen(task[t].ws) => conn.in /\ ~Heard(Value(t))
         /\ ~IsPacket(t) => task[t].pos \in 1 .. Len(conn.pending) /\ Value(t) = conn.pending[task[t].pos] /\ From(task[t].pos)
<1>0. IsOpen(task[t].ws) => conn.in
  BY DEF Voice, Paired, IsOpen
<1>1. CASE IsPacket(t)
  <2>1. PICK p \in Packets : t = <<"packet", p>>
    BY <1>1, TaskKinds
  <2>2. Value(t) = p /\ Early(p)
    BY <1>1, <2>1 DEF Value, Early
  <2> QED
    BY <1>0, <1>1, <2>2 DEF Voice, New
<1>2. CASE ~IsPacket(t)
  <2>1. PICK i \in Attempts : t = <<"flush", i>> /\ Running(i)
    BY <1>2, TaskKinds DEF Running
  <2>2. Array(t) = conn.pending /\ \A a \in Attempts : Running(a) => a = i
    BY <2>1, FlushAt DEF Voice
  <2>3. task[t].pos \in Nat \ {0} /\ task[t].pos <= Len(conn.pending) /\ Len(conn.pending) \in Nat
    BY <1>2, <2>2 DEF Typed, ConnTyped, ConnType, InArray
  <2>4. From(task[t].pos) /\ Value(t) = conn.pending[task[t].pos]
    BY <1>2, <2>1, <2>2, <2>3 DEF From, Value
  <2>5. conn.pending[task[t].pos] \in Packets
    BY <2>3 DEF Typed, ConnTyped, ConnType
  <2> QED
    BY <1>0, <2>3, <2>4, <2>5, NotDoomed DEF Voice, Queue
<1> QED
  BY <1>1, <1>2

\* What is sent.
LEMMA PackedHeard ==
  ASSUME Typed, Base, Voice, Flushes = {}, NEW t \in Tasks, Packed(t)
  PROVE  /\ Once'
         /\ \A p : Heard(p)' <=> Heard(p) \/ (IsOpen(task[t].ws) /\ p = Value(t))
<1>1. heard \in Seq(Sockets \X Packets) /\ task[t].at = "packing" /\ task[t].ws \in Sockets
  BY SessTyped DEF Voice, Once, Packed
<1>2. CASE ~IsOpen(task[t].ws)
  <2>1. heard' = heard
    BY <1>2 DEF Packed
  <2> QED
    BY <1>2, <2>1 DEF Voice, Once, Heard
<1>3. CASE IsOpen(task[t].ws)
  <2> DEFINE v == Value(t)
             n == Len(heard) + 1
  <2>1. heard' = Append(heard, <<task[t].ws, v>>) /\ v \in Packets /\ ~Heard(v)
    BY <1>1, <1>3, PackedIsNew DEF Packed
  <2> HIDE DEF v
  <2>2. <<task[t].ws, v>> \in Sockets \X Packets
    BY <1>1, <2>1
  <2>3. /\ heard' \in Seq(Sockets \X Packets) /\ Len(heard') = n /\ heard'[n] = <<task[t].ws, v>>
        /\ \A k \in 1 .. Len(heard) : heard'[k] = heard[k]
        /\ \A k : k \in 1 .. n <=> k = n \/ k \in 1 .. Len(heard)
    BY <1>1, <2>1, <2>2
  <2>4. heard'[n][2] = v
    BY <2>3
  <2> HIDE DEF n
  <2>5. \A k \in 1 .. Len(heard) : heard[k][2] # v
    BY <2>1 DEF Heard
  <2>6. Once'
    <3>1. \A j, k \in 1 .. Len(heard) : heard'[j][2] = heard'[k][2] => j = k
      BY <2>3 DEF Voice, Once
    <3>2. \A k \in 1 .. Len(heard) : heard'[k][2] # heard'[n][2]
      BY <2>3, <2>4, <2>5
    <3>3. \A j, k \in 1 .. n : heard'[j][2] = heard'[k][2] => j = k
      BY <2>3, <3>1, <3>2
    <3> QED
      BY <2>3, <3>3 DEF Once
  <2>7. ASSUME NEW p PROVE Heard(p)' <=> Heard(p) \/ p = v
    <3>1. (\E k \in 1 .. n : heard'[k][2] = p) <=> (\E k \in 1 .. Len(heard) : heard[k][2] = p) \/ p = v
      BY <2>3, <2>4
    <3> QED
      BY <2>3, <3>1 DEF Heard
  <2> QED
    BY <1>3, <2>6, <2>7 DEF v
<1> QED
  BY <1>2, <1>3

\* The packet, or the place of the buffer, that has been sent.
LEMMA PackedMoves ==
  ASSUME Typed, NEW t \in Tasks, Packed(t)
  PROVE  /\ task'[t].own = task[t].own
         /\ ~IsPacket(t) => task'[t].pos = task[t].pos + 1
<1>1. task \in [Tasks -> TaskType] /\ task[t] \in TaskType
  BY DEF Typed, ConnTyped
<1>2. CASE IsPacket(t)
  BY <1>1, <1>2 DEF Packed, Return, TaskType
<1>3. CASE ~IsPacket(t)
  <2>1. task' = [task EXCEPT ![t] = [task[t] EXCEPT !.at = "next", !.pos = @ + 1]]
    BY <1>1, <1>3 DEF Packed, Return
  <2> QED
    BY <1>1, <1>3, <2>1 DEF TaskType
<1> QED
  BY <1>2, <1>3

LEMMA PackedVoice ==
  ASSUME Typed, Base, Voice, Flushes = {}, NEW t \in Tasks, Packed(t)
  PROVE  Voice'
<1> DEFINE v == Value(t)
           open == IsOpen(task[t].ws)
<1>1. /\ Others(t) /\ task[t].at = "packing" /\ task'[t].at = IF IsPacket(t) THEN "done" ELSE "next"
      /\ conn'.in = conn.in /\ conn'.ws = conn.ws /\ conn'.pending = conn.pending
  BY PackedDoes
<1>2. task'[t].own = task[t].own /\ (~IsPacket(t) => task'[t].pos = task[t].pos + 1) /\ sock' = sock
  BY PackedMoves DEF Packed
<1>3. Once' /\ \A p : Heard(p)' <=> Heard(p) \/ (open /\ p = v)
  BY PackedHeard
<1>4. /\ v \in Packets /\ (open => conn.in)
      /\ ~IsPacket(t) => task[t].pos \in 1 .. Len(conn.pending) /\ v = conn.pending[task[t].pos] /\ From(task[t].pos)
  BY <1>1, PackedIsNew
<1> HIDE DEF v, open
<1>5. \A a \in Attempts : (Running(a)' <=> Running(a)) /\ <<"flush", a>> \in Tasks
  BY <1>1 DEF Running, Others, IsPacket, Tasks
<1>6. Lone'
  BY <1>1, <1>2, <1>5 DEF Voice, Lone, Others
<1>7. Paired'
  BY <1>1, <1>2 DEF Voice, Paired, Others, IsOpen
<1>8. \A p \in Packets : Early(p)' => Early(p) /\ (open => p # v)
  <2> SUFFICES ASSUME NEW p \in Packets, Early(p)' PROVE Early(p) /\ (open => p # v)
    OBVIOUS
  <2> DEFINE u == <<"packet", p>>
  <2>1. u \in Tasks /\ IsPacket(u)
    BY DEF Tasks, IsPacket
  <2>2. u # t /\ Early(p)
    BY <1>1, <2>1 DEF Others, Early
  <2>3. CASE IsPacket(t)
    <3>1. PICK q \in Packets : t = <<"packet", q>>
      BY <2>3, TaskKinds
    <3> QED
      BY <2>2, <2>3, <3>1 DEF v, Value
  <2>4. CASE ~IsPacket(t)
    BY <1>4, <2>2, <2>4, NotDoomed DEF Voice, Queue
  <2> QED
    BY <2>3, <2>4
<1>9. New'
  BY <1>3, <1>8 DEF Voice, New
<1>10. Queue'
  <2> SUFFICES ASSUME conn.in, NEW k \in 1 .. Len(conn.pending), From(k)', NEW q, q = conn.pending[k]
               PROVE  /\ ~Heard(q)' /\ ~Early(q)'
                      /\ \A j \in 1 .. Len(conn.pending) : From(j)' /\ conn.pending[j] = q => j = k
    BY <1>1 DEF Queue
  <2>1. \A j \in 1 .. Len(conn.pending) : From(j)' => From(j)
    <3> SUFFICES ASSUME NEW j \in 1 .. Len(conn.pending), From(j)', NEW a \in Attempts, Running(a)
                 PROVE  task[<<"flush", a>>].pos <= j
      BY DEF From
    <3>1. task'[<<"flush", a>>].pos <= j
      BY <1>5 DEF From
    <3>2. CASE t = <<"flush", a>>
      <4>1. task[t].pos \in Nat /\ task'[t].pos = task[t].pos + 1 /\ j \in Nat
        BY <1>2, <3>2 DEF Typed, ConnTyped, TaskType, IsPacket
      <4> QED
        BY <3>1, <3>2, <4>1
    <3>3. CASE t # <<"flush", a>>
      BY <1>1, <1>5, <3>1, <3>3 DEF Others
    <3> QED
      BY <3>2, <3>3
  <2>2. /\ q \in Packets /\ ~Heard(q) /\ ~Early(q)
        /\ \A j \in 1 .. Len(conn.pending) : From(j) /\ conn.pending[j] = q => j = k
    BY <2>1, NotDoomed DEF Voice, Queue, Typed, ConnTyped, ConnType
  <2>3. q # v
    <3>1. CASE IsPacket(t)
      <4>1. PICK p \in Packets : t = <<"packet", p>>
        BY <3>1, TaskKinds
      <4> QED
        BY <1>1, <2>2, <3>1, <4>1 DEF v, Value, Early
    <3>2. CASE ~IsPacket(t)
      <4>1. PICK a \in Attempts : t = <<"flush", a>>
        BY <3>2, TaskKinds
      <4>2. task'[t].pos <= k
        BY <1>1, <1>5, <4>1 DEF From, Running
      <4>3. task[t].pos # k
        BY <1>2, <1>4, <3>2, <4>2
      <4> QED
        BY <1>4, <2>2, <3>2, <4>3
    <3> QED
      BY <3>1, <3>2
  <2> QED
    BY <1>3, <1>8, <2>1, <2>2, <2>3
<1> QED
  BY <1>3, <1>6, <1>7, <1>9, <1>10 DEF Voice

\* A flush goes on, buffers what it finds, is refused, or empties the buffer.
FlushGoes(t) ==
  \/ task'[t].at = "packing" /\ task'[t].ws = conn.ws /\ task'[t].pos = task[t].pos
     /\ conn'.pending = conn.pending /\ conn.in /\ ~conn.reconnecting /\ IsOpen(conn.ws)
  \/ task'[t].at = "next" /\ (conn.reconnecting \/ ~IsOpen(conn.ws))
  \/ task'[t].at = "idle" /\ ~conn.in

LEMMA FlushSends ==
  ASSUME Typed, Base, NEW i \in Attempts, <<"flush", i>> \in Tasks, task[<<"flush", i>>].own = <<>>,
         conn.status \in Active, SendAudio(<<"flush", i>>)
  PROVE  LET t == <<"flush", i>> IN FlushGoes(t) /\ task'[t].own = <<>>
<1> DEFINE t == <<"flush", i>>
<1>0. conn \in ConnType /\ task \in [Tasks -> TaskType] /\ t \in Tasks /\ task[t] \in TaskType
      /\ ~IsPacket(t) /\ ~Last(t)
  BY DEF Typed, ConnTyped, IsPacket, Last
<1> HIDE DEF t
<1>1. CASE ~conn.in /\ Throw(t)
  <2>1. task' = [task EXCEPT ![t] = NoTask]
    BY <1>0, <1>1 DEF Throw
  <2>2. task'[t].at = "idle" /\ task'[t].own = <<>>
    BY <1>0, <2>1, NoTaskTyped
  <2> QED
    BY <1>1, <2>2 DEF FlushGoes, t
<1>2. CASE Keep(t) /\ (conn.reconnecting \/ ~IsOpen(conn.ws))
  <2>1. task' = [task EXCEPT ![t] = [task[t] EXCEPT !.at = "next", !.pos = @ + 1]]
    BY <1>0, <1>2 DEF Keep, Return
  <2>2. task'[t].at = "next" /\ task'[t].own = task[t].own
    BY <1>0, <2>1 DEF TaskType
  <2> QED
    BY <1>2, <2>2 DEF FlushGoes, t
<1>3. CASE Pack(t, conn.status) /\ conn.in /\ ~conn.reconnecting /\ IsOpen(conn.ws)
  <2>1. task' = [task EXCEPT ![t] = [task[t] EXCEPT !.at = "packing", !.ws = conn.ws]]
    BY <1>0, <1>3 DEF Pack
  <2>2. task'[t].at = "packing" /\ task'[t].ws = conn.ws /\ task'[t].pos = task[t].pos /\ task'[t].own = task[t].own
    BY <1>0, <2>1 DEF TaskType
  <2>3. conn'.pending = conn.pending
    BY <1>0, <1>3 DEF Pack, ConnType
  <2> QED
    BY <1>3, <2>2, <2>3 DEF FlushGoes, t
<1> QED
  BY <1>0, <1>1, <1>2, <1>3 DEF SendAudio, ToSocket, Active, t

LEMMA FlushVoice ==
  ASSUME Typed, Base, Typed', Voice, NEW i \in Attempts, Flush(i)
  PROVE  Voice'
<1> DEFINE t == <<"flush", i>>
<1>1. /\ t \in Tasks /\ ~IsPacket(t) /\ task[t].at = "next" /\ conn.status \in Active
      /\ (Others(t) /\ (Rests(t) \/ Starts(t))) \/ Empties(i)
  BY FlushDoes
<1>2. Running(i) /\ Lone /\ UNCHANGED <<heard, sock>>
  BY <1>1 DEF Running, Voice, Flush
<1>3. /\ Array(t) = conn.pending /\ task[t].pos \in Nat \ {0} /\ task[t].own = <<>>
      /\ \A a \in Attempts : Running(a) => a = i
      /\ \A u \in Tasks \ {t} : ~IsPacket(u) => task[u].at = "idle"
  BY <1>1, <1>2, FlushAt DEF Lone
<1>4. \A p \in Packets : <<"packet", p>> \in Tasks \ {t}
  BY DEF Tasks
<1>5. \A a \in Attempts : a # i => <<"flush", a>> \in Tasks \ {t}
  BY DEF Tasks
<1>6. (\A p : Heard(p)' <=> Heard(p)) /\ Once'
  BY <1>2 DEF Heard, Voice, Once
<1>7. ASSUME \A u \in Tasks \ {t} : task'[u] = task[u], task'[t].own = <<>>,
             task'[t].at = "packing" => task'[t].ws = conn.ws /\ conn.in,
             conn'.in = conn.in, conn'.ws = conn.ws
      PROVE  /\ Lone' /\ Paired' /\ New' /\ \A p \in Packets : Early(p)' <=> Early(p)
             /\ \A a \in Attempts : Running(a)' => a = i
  <2>1. \A a \in Attempts : Running(a)' => a = i
    BY <1>3, <1>5, <1>7 DEF Running
  <2>2. Lone'
    BY <1>2, <1>7, <2>1 DEF Lone
  <2>3. Paired'
    BY <1>2, <1>7 DEF Voice, Paired, IsOpen
  <2>4. \A p \in Packets : Early(p)' <=> Early(p)
    BY <1>4, <1>7 DEF Early
  <2>5. New'
    BY <1>6, <2>4 DEF Voice, New
  <2> QED
    BY <2>1, <2>2, <2>3, <2>4, <2>5
<1>8. CASE task[t].pos <= Len(Array(t))
  <2>1. SendAudio(t) /\ Others(t) /\ (Rests(t) \/ Starts(t))
    BY <1>8, FlushDoes
  <2>2. FlushGoes(t) /\ task'[t].own = <<>>
    BY <1>1, <1>3, <2>1, FlushSends
  <2>3. conn'.in = conn.in /\ conn'.ws = conn.ws /\ (Rests(t) => conn'.reconnecting = conn.reconnecting)
    BY <2>1 DEF Rests, Starts, SameConn
  <2>4. /\ Lone' /\ Paired' /\ New' /\ \A p \in Packets : Early(p)' <=> Early(p)
        /\ \A a \in Attempts : Running(a)' => a = i
    BY <1>7, <2>1, <2>2, <2>3 DEF FlushGoes, Others
  <2>5. Queue'
    <3>1. CASE ~conn.in
      BY <2>3, <3>1 DEF Queue
    <3>2. CASE task'[t].at = "next" /\ (conn.reconnecting \/ ~IsOpen(conn.ws))
      <4>1. Rests(t)
        BY <2>1, <3>2 DEF Starts
      <4> QED
        BY <1>2, <2>3, <3>2, <4>1 DEF Queue, Doomed, IsOpen
    <3>3. CASE /\ task'[t].at = "packing" /\ task'[t].pos = task[t].pos
               /\ conn'.pending = conn.pending /\ conn.in /\ ~conn.reconnecting /\ IsOpen(conn.ws)
      <4>1. ~Doomed /\ \A k : From(k)' => From(k)
        BY <1>2, <1>3, <2>4, <3>3 DEF Doomed, From, Running
      <4>2. \A k \in 1 .. Len(conn.pending) : conn.pending[k] \in Packets
        BY DEF Typed, ConnTyped, ConnType
      <4> QED
        BY <1>6, <2>4, <3>3, <4>1, <4>2 DEF Voice, Queue
    <3> QED
      BY <2>2, <3>1, <3>2, <3>3 DEF FlushGoes
  <2> QED
    BY <1>6, <2>4, <2>5 DEF Voice
<1>9. CASE ~(task[t].pos <= Len(Array(t)))
  <2>1. Empties(i)
    BY <1>9, FlushDoes
  <2>2. conn'.in = conn.in /\ conn'.ws = conn.ws /\ conn'.pending = <<>> /\ task'[t].at = "idle"
    BY <2>1 DEF Empties, SameConn
  <2>3. task' = [u \in Tasks |-> IF u = t THEN NoTask
                   ELSE IF ~IsPacket(u) /\ task[u].at # "idle" THEN [task[u] EXCEPT !.own = Array(u)]
                   ELSE task[u]]
    <3>1. task[t].pos \in Nat /\ Len(Array(t)) \in Nat
      BY <1>3 DEF Typed, ConnTyped, ConnType
    <3> QED
      BY <1>9, <3>1 DEF Flush
  <2>4. task'[t].own = <<>> /\ \A u \in Tasks \ {t} : task'[u] = task[u]
    BY <1>1, <1>3, <2>3, NoTaskTyped
  <2>5. Lone' /\ Paired' /\ New'
    BY <1>7, <2>2, <2>4
  <2>6. Queue'
    BY <2>2 DEF Queue
  <2> QED
    BY <1>6, <2>5, <2>6 DEF Voice
<1> QED
  BY <1>8, <1>9
-----------------------------------------------------------------------------
(* Audio is sent once, whatever happens                                    *)

LEMMA VoiceKept ==
  ASSUME Typed, Blank, Base, Typed', Sole, Voice, ~Can("unreachable"), Next
  PROVE  Voice'
<1>1. ASSUME NEW a \in Flushes, Flush(a) PROVE Voice'
  BY <1>1, FlushVoice DEF Flushes
<1> SUFFICES ASSUME Flushes = {}, ~\E a \in Flushes : Flush(a) PROVE Voice'
  BY <1>1 DEF Next
<1>2. CASE ConnStep
  <2>1. \A i \in Sockets : ~Refuse(i)
    BY DEF Refuse
  <2> QED
    BY <1>2, <2>1, SocketVoice, GreetVoice, ResumeVoice, PackedVoice DEF ConnStep
<1>3. ASSUME NEW i \in Sockets, NEW kind \in Kinds, Receive(i, kind) PROVE Voice'
  BY <1>3, WireVoice DEF Receive
<1>4. ASSUME NEW r \in inbox, Parse(r) PROVE Voice'
  BY <1>4, ParseVoice
<1>5. ASSUME NEW p \in Packets, Send(p) PROVE Voice'
  BY <1>5, SendVoice
<1>6. CASE UNCHANGED connVars
  BY <1>6, WireVoice DEF connVars
<1>7. CASE Status \/ Shutdown
  BY <1>6, <1>7 DEF Status, Shutdown
<1>8. CASE Complete \/ Cancel \/ CleanUp
  BY <1>8, WireVoice DEF Complete, Cancel, CleanUp
<1> QED
  BY <1>2, <1>3, <1>4, <1>5, <1>6, <1>7, <1>8, CrashVoice DEF Next, OfConnection

LEMMA InitVoice ==
  ASSUME Init
  PROVE  Voice
<1>1. conn = NoConn /\ heard = <<>> /\ \A t \in Tasks : task[t] = NoTask
  BY DEF Init, ConnInit
<1>2. ~conn.in /\ \A t \in Tasks : task[t].at = "idle" /\ task[t].own = <<>>
  BY <1>1, NoTaskTyped DEF NoConn
<1>3. Lone /\ Paired /\ Queue
  BY <1>2 DEF Lone, Paired, Queue, Running, Tasks
<1>4. Once /\ \A p : ~Heard(p)
  BY <1>1 DEF Once, Heard
<1> QED
  BY <1>3, <1>4 DEF Voice, New

VoiceInv == SoleInv /\ (Listening => Voice)

LEMMA VoiceHolds == Spec => []VoiceInv
<1> DEFINE V == Listening => Voice
<1>1. Init => V
  BY InitVoice
<1>2. SoleInv /\ SoleInv' /\ V /\ [Next /\ UNCHANGED world]_vars => V'
  <2> SUFFICES ASSUME SoleInv, SoleInv', V, [Next /\ UNCHANGED world]_vars PROVE V'
    OBVIOUS
  <2>1. UNCHANGED world
    BY DEF vars
  <2>2. Listening' <=> Listening
    BY <2>1 DEF Listening, Can
  <2>3. CASE Next
    BY <2>2, <2>3, VoiceKept DEF SoleInv, BaseInv, AsrInv, Listening, Single
  <2>4. CASE UNCHANGED vars
    <3>1. UNCHANGED <<conn, sock, task, heard>>
      BY <2>4 DEF vars, connVars
    <3> QED
      BY <2>2, <3>1 DEF Voice, Lone, Running, Paired, IsOpen, Once, New, Early, Heard, Queue, Doomed, From
  <2> QED
    BY <2>3, <2>4
<1> QED
  BY <1>1, <1>2, SoleHolds, PTL DEF Spec, VoiceInv

LEMMA IsSentOnce ==
  ASSUME VoiceInv
  PROVE  SentOnce
BY DEF VoiceInv, Listening, Voice, Once, SentOnce
-----------------------------------------------------------------------------
(* Audio that is accepted is sent: worlds where only the first socket breaks *)

Brief ==
  /\ world.kinds = {} /\ world.breaks = {0} /\ world.can \subseteq {"poll", "serial", "reorder"}
  /\ Cardinality(world.packets) <= BufferSize

Undisturbed == finished = "no" /\ since = "now" /\ ~over /\ \A r \in inbox : ~r.bad /\ ~r.final

\* The one attempt is under way.
Waited == att[1].at \in {"waiting", "opening"}

\* The first socket, none, and the one that replaces it.
Course ==
  /\ conn.in <=> created # "no"
  /\ created # "no" => sock[0] # "none"
  /\ conn.status \notin {"error", "completed", "disconnected"}
  /\ \A a \in Attempts : (a # 1 => att[a].at = "none") /\ sock[a] \in {"none", "connecting", "open"}
  /\ conn.reconnecting => Waited
  /\ IF sock[0] = "closed" THEN conn.reconnecting \/ (conn.ws = 1 /\ IsOpen(1))
     ELSE ~conn.reconnecting /\ conn.pending = <<>> /\ conn.retry = 0 /\ conn.ws = 0 /\ att[1].at = "none"
  /\ \A t \in Tasks : task[t].at # "awaiting"
  /\ conn.pending # <<>> => Waited
  /\ \A a \in Attempts : Running(a) => a = 1 /\ ~conn.reconnecting /\ sock[0] = "closed"

\* A packet that was accepted was on its way when its socket closed, has been
\* heard, or waits in the buffer.
Settles(p) == p \in torn \/ Heard(p) \/ \E k \in 1 .. Len(conn.pending) : From(k) /\ conn.pending[k] = p
Accepted ==
  /\ \A p \in Packets : task[<<"packet", p>>].at # "idle" => p \in world.packets
  /\ \A t \in Tasks : task[t].at = "packing" /\ ~IsOpen(task[t].ws) => Value(t) \in torn
  /\ \A p \in Packets : task[<<"packet", p>>].at = "done" => Settles(p)

Thread == Undisturbed /\ Course /\ Accepted

LEMMA OneIsAttempt == 1 \in Attempts /\ MaxRetries \in Nat /\ 0 < MaxRetries
BY Numbers DEF Attempts, Sockets

\* Where it matters only which sockets are open.
LEMMA AcceptedStays ==
  ASSUME Accepted, UNCHANGED <<world, task, heard>>, conn'.pending = conn.pending, torn \subseteq torn',
         \A i \in Sockets : IsOpen(i) => IsOpen(i)', \A t \in Tasks : task[t].ws \in Sockets
  PROVE  Accepted'
<1>1. \A p : Settles(p) => Settles(p)'
  BY DEF Settles, Heard, From, Running
<1>2. \A t \in Tasks : Value(t)' = Value(t)
  BY DEF Value, Array
<1> QED
  BY <1>1, <1>2 DEF Accepted

LEMMA ConnectThread ==
  ASSUME Typed, Blank, Course, Accepted, Connect, UNCHANGED world
  PROVE  Course' /\ Accepted'
<1>1. /\ created = "no" /\ created' = "pending" /\ sock' = [sock EXCEPT ![0] = "connecting"]
      /\ conn' = [NoConn EXCEPT !.in = TRUE, !.status = "connecting"]
      /\ UNCHANGED <<att, task, greeting, inbox, heard, torn>>
  BY DEF Connect
<1>2. conn'.in /\ conn'.status = "connecting" /\ ~conn'.reconnecting /\ conn'.pending = <<>> /\ conn'.retry = 0 /\ conn'.ws = 0
  BY <1>1 DEF NoConn
<1>3. /\ \A i \in Sockets : sock'[i] = IF i = 0 THEN "connecting" ELSE "none"
      /\ \A a \in Attempts : att[a].at = "none"
      /\ \A t \in Tasks : task[t].at = "idle"
  BY <1>1 DEF Blank, Typed, ConnTyped
<1>4. 0 \in Sockets /\ \A a \in Attempts : a \in Sockets /\ a # 0
  BY Numbers DEF Attempts
<1>5. Course'
  BY <1>1, <1>2, <1>3, <1>4, OneIsAttempt DEF Course, Running, Tasks, Waited
<1>6. Accepted'
  BY <1>1, <1>3 DEF Accepted, Tasks
<1> QED
  BY <1>5, <1>6

LEMMA OpenThread ==
  ASSUME Typed, Course, Accepted, NEW i \in Sockets, Open(i), UNCHANGED world
  PROVE  Course' /\ Accepted'
<1>1. /\ sock[i] = "connecting" /\ sock' = [sock EXCEPT ![i] = "open"]
      /\ UNCHANGED <<created, conn, att, task, inbox, heard, torn>>
  BY DEF Open
<1>2. \A j \in Sockets : sock'[j] = IF j = i THEN "open" ELSE sock[j]
  BY <1>1 DEF Typed, ConnTyped
<1>3. 0 \in Sockets /\ 1 \in Sockets /\ Attempts \subseteq Sockets
  BY Numbers, OneIsAttempt
<1>4. Course'
  BY <1>1, <1>2, <1>3 DEF Course, Waited, Running, IsOpen
<1>5. Accepted'
  BY <1>1, <1>2, AcceptedStays, SessTyped DEF IsOpen
<1> QED
  BY <1>4, <1>5

LEMMA AfterDelayThread ==
  ASSUME Typed, Blank, Base, Course, Accepted, NEW a \in Attempts, AfterDelay(a), UNCHANGED world
  PROVE  Course' /\ Accepted'
<1>1. att[a].at = "waiting" /\ UNCHANGED <<created, conn, task, heard, torn>>
  BY DEF AfterDelay
<1>2. a = 1 /\ created # "no" /\ conn.in /\ sock[1] = "none" /\ sock[0] = "closed"
  BY <1>1 DEF Course, Blank, Base, Linked
<1>3. att' = [att EXCEPT ![a].at = "opening"] /\ sock' = [sock EXCEPT ![a] = "connecting"]
  BY <1>2 DEF AfterDelay, Course
<1>4. /\ \A j \in Sockets : sock'[j] = IF j = 1 THEN "connecting" ELSE sock[j]
      /\ \A b \in Attempts : att'[b].at = IF b = 1 THEN "opening" ELSE att[b].at
  BY <1>2, <1>3, OneIsAttempt, Numbers DEF Typed, ConnTyped, AttemptType
<1>5. 0 \in Sockets /\ 1 \in Sockets /\ Attempts \subseteq Sockets /\ 1 \in Attempts /\ conn.reconnecting
  BY <1>2, Numbers, OneIsAttempt DEF Course, IsOpen
<1>6. Course'
  BY <1>1, <1>2, <1>4, <1>5 DEF Course, Waited, Running, IsOpen
<1>7. Accepted'
  BY <1>1, <1>2, <1>4, AcceptedStays, SessTyped DEF IsOpen
<1> QED
  BY <1>6, <1>7

LEMMA CloseThread ==
  ASSUME Typed, Blank, Base, Sole, Course, Accepted, Brief, NEW i \in Sockets, Close(i), UNCHANGED world
  PROVE  Course' /\ Accepted'
<1>1. sock[i] \in {"open", "failed", "dropping", "closing"} /\ created # "no" /\ conn.in
  BY DEF Close, Blank, Course
<1>2. sock[i] \notin {"failed", "dropping", "closing"}
  BY <1>1 DEF Sole, Tame, Loud, Brief, Can
<1>3. i = 0 /\ sock[0] = "open" /\ OnClose(0, FALSE)
  BY <1>1, <1>2 DEF Close, Brief, Can
<1>4. ~conn.reconnecting /\ conn.pending = <<>> /\ conn.retry = 0 /\ conn.ws = 0 /\ att[1].at = "none"
      /\ conn.status \notin {"completed", "disconnected"}
  BY <1>3 DEF Course
<1>5. /\ sock' = [sock EXCEPT ![0] = "closed"] /\ Tear(0) /\ UNCHANGED <<created, task, heard>>
      /\ Become(Attempt(State, None))
  BY <1>3, <1>4 DEF OnClose
<1>6. Tries(0)
  <2>1. State \in StateType /\ State.conn = conn /\ State.sess = sess /\ State.att = att
    BY StateTyped DEF State, Typed
  <2> QED
    BY <1>5, <2>1, AttemptDoes DEF Base
<1>7. conn'.in /\ conn'.ws = 0 /\ conn'.pending = <<>> /\ conn'.status = conn.status /\ conn'.reconnecting /\ Waiting(0)
  BY <1>1, <1>4, <1>6, OneIsAttempt DEF Tries
<1>8. \A j \in Sockets : sock'[j] = IF j = 0 THEN "closed" ELSE sock[j]
  BY <1>5 DEF Typed, ConnTyped
<1>9. 0 \in Sockets /\ Attempts \subseteq Sockets /\ 1 \in Attempts /\ 0 \notin Attempts /\ Attempts \subseteq Nat
  BY Numbers, OneIsAttempt DEF Attempts
<1>10. att'[1].at = "waiting" /\ \A b \in Attempts : b # 1 => att'[b].at = "none"
  <2>1. PICK a \in Attempts : /\ att[a].at = "none" /\ (\A b \in Attempts : b < a => att[b].at # "none")
                              /\ att'[a].at = "waiting" /\ \A b \in Attempts \ {a} : Old(0, b)
    BY <1>7 DEF Waiting
  <2>2. a = 1
    <3>1. ~(1 < a)
      BY <1>4, <1>9, <2>1
    <3> QED
      BY <1>9, <2>1, <3>1
  <2> QED
    BY <1>9, <2>1, <2>2 DEF Old, Course
<1>11. Course'
  <2>1. \A a \in Attempts : ~Running(a)'
    BY <1>3, <1>5 DEF Course, Running
  <2> QED
    BY <1>1, <1>5, <1>7, <1>8, <1>9, <1>10, <2>1 DEF Course, Waited
<1>12. Accepted'
  <2>1. torn \subseteq torn' /\ \A t \in Tasks : task[t].at = "packing" /\ task[t].ws = 0 => Value(t) \in torn'
    BY <1>5 DEF Tear
  <2>2. \A p : Settles(p) => Settles(p)'
    BY <1>4, <1>5, <1>7, <2>1 DEF Settles, Heard
  <2>3. \A t \in Tasks : Value(t)' = Value(t)
    BY <1>4, <1>5, <1>7 DEF Value, Array
  <2>5. \A t \in Tasks : task'[t].at = "packing" /\ sock'[task'[t].ws] # "open" => Value(t) \in torn'
    BY <1>5, <1>8, <2>1, SessTyped DEF Accepted, IsOpen
  <2> QED
    BY <1>5, <2>2, <2>3, <2>5 DEF Accepted, IsOpen
<1> QED
  BY <1>11, <1>12

LEMMA GreetThread ==
  ASSUME Typed, Blank, Base, Typed', Sole, Voice, Course, Accepted, NEW i \in Sockets, Greet(i), UNCHANGED world
  PROVE  Course' /\ Accepted'
<1>1. /\ i \in greeting /\ UNCHANGED <<sock, heard, torn>>
      /\ conn'.in = conn.in /\ conn'.status = "connected" /\ conn'.pending = conn.pending
  BY GreetDoes
<1>2. Idle /\ created # "no" /\ sock[i] \notin {"none", "connecting"}
  BY <1>1 DEF Sole, Greeted, Blank
<1>3. \A t \in Tasks : task[t].at \notin {"packing", "next"}
  BY <1>2 DEF Idle
<1>4. \A a \in Attempts : ~Running(a) /\ <<"flush", a>> \in Tasks
  BY <1>3 DEF Running, Tasks
<1>5. CASE i = 0
  <2>1. conn'.ws = conn.ws /\ conn'.reconnecting = conn.reconnecting /\ conn'.retry = 0 /\ UNCHANGED <<att, task>>
        /\ created' # "no"
    BY <1>2, <1>5, GreetDoes DEF Attempts
  <2>2. Course'
    BY <1>1, <1>2, <2>1 DEF Course, Waited, Running, IsOpen
  <2>3. Accepted'
    BY <1>1, <2>1, AcceptedStays, SessTyped DEF IsOpen
  <2> QED
    BY <2>2, <2>3
<1>6. CASE i # 0
  <2>0. i \in Attempts
    BY <1>6 DEF Attempts
  <2>1. /\ i = 1 /\ IsOpen(1) /\ att[1].at \notin {"none", "waiting"} /\ sock[0] = "closed"
    <3>1. att[i].at \notin {"none", "waiting"}
      BY <1>2, <2>0 DEF Base, Linked
    <3> QED
      BY <1>2, <2>0, <3>1 DEF Course, IsOpen
  <2>2. conn'.ws = 1 /\ ~conn'.reconnecting /\ created' = created
    BY <1>6, <2>1, GreetDoes
  <2>3. CASE conn.pending = <<>> /\ UNCHANGED task /\ \A b \in Attempts : Old(i, b)
    <3>1. Course'
      BY <1>1, <1>2, <1>4, <2>1, <2>2, <2>3 DEF Course, Waited, Running, IsOpen, Old
    <3>2. Accepted'
      BY <1>1, <2>3, AcceptedStays, SessTyped DEF IsOpen
    <3> QED
      BY <3>1, <3>2
  <2>4. CASE /\ conn.pending # <<>> /\ att' = att
             /\ task' = [task EXCEPT ![<<"flush", i>>] = [NoTask EXCEPT !.at = "next", !.pos = 1]]
    <3> DEFINE n == [NoTask EXCEPT !.at = "next", !.pos = 1]
               t == <<"flush", i>>
    <3>1. n.at = "next" /\ n.pos = 1 /\ n.own = <<>>
      BY DEF NoTask
    <3> HIDE DEF n
    <3>2. t \in Tasks /\ task'[t] = n /\ \A u \in Tasks \ {t} : task'[u] = task[u]
      BY <1>4, <2>0, <2>4 DEF Typed, ConnTyped, n
    <3>3. \A a \in Attempts : a # i => <<"flush", a>> \in Tasks \ {t}
      BY DEF Tasks
    <3>4. \A p \in Packets : <<"packet", p>> \in Tasks \ {t}
      BY DEF Tasks
    <3>5. \A a \in Attempts : Running(a)' => a = 1
      BY <1>4, <2>1, <3>2, <3>3 DEF Running
    <3>6. Course'
      BY <1>1, <1>2, <2>1, <2>2, <2>4, <3>1, <3>2, <3>5 DEF Course, Waited, IsOpen
    <3>7. \A k \in 1 .. Len(conn'.pending) : From(k)'
      BY <1>1, <2>1, <3>1, <3>2, <3>5 DEF From
    <3>8. \A p : Settles(p) => Settles(p)'
      BY <1>1, <3>7 DEF Settles, Heard
    <3>9. Accepted'
      BY <1>3, <3>1, <3>2, <3>4, <3>8 DEF Accepted
    <3> QED
      BY <3>6, <3>9
  <2> QED
    BY <1>6, <2>3, <2>4, GreetDoes
<1> QED
  BY <1>5, <1>6

LEMMA PackedThread ==
  ASSUME Typed, Blank, Base, Voice, Flushes = {}, Course, Accepted, NEW t \in Tasks, Packed(t), UNCHANGED world
  PROVE  Course' /\ Accepted'
<1>1. /\ Others(t) /\ task[t].at = "packing" /\ task'[t].at = IF IsPacket(t) THEN "done" ELSE "next"
      /\ conn'.in = conn.in /\ conn'.ws = conn.ws /\ conn'.status = "streaming" /\ conn'.pending = conn.pending
      /\ conn'.reconnecting = conn.reconnecting /\ conn'.retry = conn.retry /\ att' = att
  BY PackedDoes
<1>2. UNCHANGED <<created, sock, torn>>
  BY DEF Packed
<1>3. task'[t].own = task[t].own /\ (~IsPacket(t) => task'[t].pos = task[t].pos + 1)
  BY PackedMoves
<1> DEFINE v == Value(t)
<1>4. \A p : Heard(p)' <=> Heard(p) \/ (IsOpen(task[t].ws) /\ p = v)
  BY PackedHeard
<1>5. v \in torn \/ IsOpen(task[t].ws)
  BY <1>1 DEF Accepted
<1>6. ~IsPacket(t) => v = conn.pending[task[t].pos]
  BY <1>1, PackedIsNew
<1>7. IsPacket(t) => v = t[2]
  BY DEF Value
<1> HIDE DEF v
<1>8. \A a \in Attempts : (Running(a)' <=> Running(a)) /\ <<"flush", a>> \in Tasks
  BY <1>1 DEF Running, Others, IsPacket, Tasks
<1>9. Course'
  <2>1. \A a \in Attempts : att'[a] = att[a] /\ sock'[a] = sock[a]
    BY <1>1, <1>2
  <2>2. (Waited' <=> Waited) /\ (IsOpen(1)' <=> IsOpen(1))
    BY <1>1, <1>2 DEF Waited, IsOpen
  <2>3. \A u \in Tasks : task'[u].at # "awaiting"
    BY <1>1 DEF Course, Others
  <2>4. \A a \in Attempts : Running(a)' => a = 1 /\ ~conn'.reconnecting /\ sock'[0] = "closed"
    BY <1>1, <1>2, <1>8 DEF Course
  <2> QED
    BY <1>1, <1>2, <2>1, <2>2, <2>3, <2>4 DEF Course
<1>10. ASSUME NEW p, Settles(p) \/ p = v PROVE Settles(p)'
  <2>1. CASE p \in torn \/ Heard(p) \/ p = v
    BY <1>2, <1>4, <1>5, <2>1 DEF Settles
  <2>2. ASSUME NEW k \in 1 .. Len(conn.pending), From(k), conn.pending[k] = p, p # v PROVE Settles(p)'
    <3>1. ASSUME NEW a \in Attempts, Running(a) PROVE task'[<<"flush", a>>].pos <= k
      <4>1. task[<<"flush", a>>].pos <= k
        BY <3>1, <2>2 DEF From
      <4>2. CASE t = <<"flush", a>>
        <5>1. task[t].pos \in Nat /\ task'[t].pos = task[t].pos + 1 /\ task[t].pos # k
          BY <1>3, <1>6, <2>2, <4>2 DEF Typed, ConnTyped, TaskType, IsPacket
        <5> QED
          BY <4>1, <4>2, <5>1
      <4>3. CASE t # <<"flush", a>>
        BY <1>1, <1>8, <4>1, <4>3 DEF Others
      <4> QED
        BY <4>2, <4>3
    <3>2. From(k)'
      BY <1>1, <1>8, <3>1 DEF From
    <3> QED
      BY <1>1, <2>2, <3>2 DEF Settles
  <2> QED
    BY <1>10, <2>1, <2>2 DEF Settles
<1>11. Accepted'
  <2>1. ASSUME NEW p \in Packets, task'[<<"packet", p>>].at # "idle"
        PROVE  p \in world.packets /\ (task'[<<"packet", p>>].at = "done" => Settles(p)')
    <3>1. <<"packet", p>> \in Tasks
      BY DEF Tasks
    <3>2. CASE t = <<"packet", p>>
      BY <1>1, <1>7, <1>10, <3>1, <3>2 DEF Accepted, IsPacket
    <3>3. CASE t # <<"packet", p>>
      BY <1>1, <1>10, <2>1, <3>1, <3>3 DEF Accepted, Others
    <3> QED
      BY <3>2, <3>3
  <2>2. ASSUME NEW u \in Tasks, task'[u].at = "packing", sock'[task'[u].ws] # "open" PROVE Value(u)' \in torn'
    <3>1. task'[u] = task[u]
      BY <1>1, <2>2 DEF Others
    <3>2. Value(u)' = Value(u)
      BY <1>1, <3>1 DEF Value, Array
    <3> QED
      BY <1>2, <2>2, <3>1, <3>2 DEF Accepted, IsOpen
  <2> QED
    BY <2>1, <2>2 DEF Accepted, IsOpen
<1> QED
  BY <1>9, <1>11

LEMMA FlushThread ==
  ASSUME Typed, Blank, Base, Voice, Course, Accepted, NEW i \in Attempts, Flush(i), UNCHANGED world
  PROVE  Course' /\ Accepted'
<1> DEFINE t == <<"flush", i>>
<1>1. /\ t \in Tasks /\ ~IsPacket(t) /\ task[t].at = "next" /\ conn.status \in Active
      /\ task[t].pos <= Len(Array(t)) => SendAudio(t) /\ Others(t) /\ (Rests(t) \/ Starts(t))
      /\ ~(task[t].pos <= Len(Array(t))) => Empties(i)
  BY FlushDoes
<1>2. Running(i) /\ UNCHANGED <<created, heard, sock, torn>>
  BY <1>1 DEF Running, Flush
<1>3. /\ Array(t) = conn.pending /\ task[t].pos \in Nat \ {0} /\ task[t].own = <<>>
      /\ \A a \in Attempts : Running(a) => a = i
      /\ \A u \in Tasks \ {t} : ~IsPacket(u) => task[u].at = "idle"
  BY <1>1, <1>2, FlushAt DEF Voice, Lone
<1>4. i = 1 /\ ~conn.reconnecting /\ sock[0] = "closed" /\ conn.ws = 1 /\ IsOpen(1) /\ conn.in
  BY <1>1, <1>2 DEF Course, Blank
<1>5. \A a \in Attempts : a # i => <<"flush", a>> \in Tasks \ {t}
  BY DEF Tasks
<1>6. \A p \in Packets : <<"packet", p>> \in Tasks \ {t}
  BY DEF Tasks
<1>7. CASE task[t].pos <= Len(Array(t))
  <2>1. SendAudio(t) /\ Others(t) /\ (Rests(t) \/ Starts(t))
    BY <1>1, <1>7
  <2>2. FlushGoes(t) /\ task'[t].own = <<>>
    BY <1>1, <1>3, <2>1, FlushSends
  <2>3. task'[t].at = "packing" /\ task'[t].ws = conn.ws /\ task'[t].pos = task[t].pos /\ conn'.pending = conn.pending
    BY <1>4, <2>2 DEF FlushGoes
  <2>4. Starts(t)
    BY <1>1, <2>1, <2>3 DEF Rests
  <2>5. Course'
    <3>1. \A a \in Attempts : Running(a)' => a = 1
      BY <1>3, <1>4, <1>5, <2>1 DEF Others, Running
    <3> QED
      BY <1>2, <1>4, <2>1, <2>3, <2>4, <3>1 DEF Course, Starts, Waited, Others, IsOpen, Active
  <2>6. \A p : Settles(p) => Settles(p)'
    <3>1. \A a \in Attempts : (Running(a)' => Running(a)) /\ task'[<<"flush", a>>].pos = task[<<"flush", a>>].pos
      BY <1>2, <1>5, <2>1, <2>3 DEF Others, Running
    <3> QED
      BY <1>2, <2>3, <3>1 DEF Settles, Heard, From
  <2>7. ASSUME NEW u \in Tasks, task'[u].at = "packing", sock'[task'[u].ws] # "open" PROVE Value(u)' \in torn'
    <3>1. u # t /\ task'[u] = task[u]
      BY <1>2, <1>4, <2>1, <2>3, <2>7 DEF Others, IsOpen
    <3>2. Value(u)' = Value(u)
      BY <2>3, <3>1 DEF Value, Array
    <3> QED
      BY <1>2, <2>7, <3>1, <3>2 DEF Accepted, IsOpen
  <2>8. Accepted'
    BY <1>6, <2>1, <2>6, <2>7 DEF Accepted, Others, IsOpen
  <2> QED
    BY <2>5, <2>8
<1>8. CASE ~(task[t].pos <= Len(Array(t)))
  <2>1. Empties(i)
    BY <1>1, <1>8
  <2>2. SameConn /\ conn'.pending = <<>> /\ task'[t].at = "idle" /\ \A b \in Attempts : Old(i, b)
    BY <2>1 DEF Empties
  <2>3. \A u \in Tasks \ {t} : task'[u].at = task[u].at /\ task'[u].ws = task[u].ws
    BY <2>1 DEF Empties
  <2>4. Course'
    <3>1. \A a \in Attempts : ~Running(a)'
      BY <1>3, <1>5, <2>2, <2>3 DEF Running
    <3>2. \A a \in Attempts : a # 1 => att'[a].at = "none"
      BY <1>4, <2>2 DEF Course, Old
    <3>3. \A u \in Tasks : task'[u].at # "awaiting"
      BY <2>2, <2>3 DEF Course
    <3> QED
      BY <1>2, <1>4, <2>2, <3>1, <3>2, <3>3 DEF Course, SameConn, IsOpen
  <2>5. \A p : Settles(p) => Settles(p)'
    <3>1. \A k \in 1 .. Len(conn.pending) : ~From(k)
      <4>1. Len(conn.pending) \in Nat /\ ~(task[t].pos <= Len(conn.pending))
        BY <1>3, <1>8 DEF Typed, ConnTyped, ConnType
      <4> QED
        BY <1>2, <1>3, <4>1 DEF From
    <3> QED
      BY <1>2, <3>1 DEF Settles, Heard
  <2>6. ASSUME NEW u \in Tasks, task'[u].at = "packing", sock'[task'[u].ws] # "open" PROVE Value(u)' \in torn'
    <3>1. u # t /\ task[u].at = "packing" /\ task'[u].ws = task[u].ws
      BY <2>2, <2>3, <2>6
    <3>2. IsPacket(u)
      BY <1>3, <3>1
    <3>3. Value(u)' = Value(u)
      BY <3>2 DEF Value
    <3> QED
      BY <1>2, <2>6, <3>1, <3>3 DEF Accepted, IsOpen
  <2>7. Accepted'
    BY <1>6, <2>3, <2>5, <2>6 DEF Accepted, IsOpen
  <2> QED
    BY <2>4, <2>7
<1> QED
  BY <1>7, <1>8

\* As long as nothing goes through the buffer, it has a place for a packet that
\* has not been accepted.
LEMMA Room ==
  ASSUME Typed, Voice, Flushes = {}, Accepted, Brief, conn.in, \A a \in Attempts : ~Running(a),
         NEW p \in world.packets, task[<<"packet", p>>].at = "idle"
  PROVE  Len(conn.pending) < BufferSize
<1> DEFINE T == world.packets \ {p}
           n == Len(conn.pending)
<1>1. conn.pending \in Seq(Packets) /\ n \in Nat /\ world.packets \subseteq Packets
  BY StreamingAsrAssumption DEF Typed, ConnTyped, ConnType
<1>2. \A k \in 1 .. n : /\ conn.pending[k] \in Packets /\ ~Early(conn.pending[k])
                        /\ \A j \in 1 .. n : conn.pending[j] = conn.pending[k] => j = k
  <2>1. \A k \in 1 .. n : From(k)
    BY DEF From
  <2> QED
    BY <1>1, <2>1, NotDoomed DEF Voice, Queue
<1>3. \A k \in 1 .. n : conn.pending[k] \in T
  BY <1>2 DEF Accepted, Early
<1>4. IsFiniteSet(world.packets)
  <2>1. IsFiniteSet(Packets)
    BY Numbers, FS_Interval DEF Packets
  <2> QED
    BY <1>1, <2>1, FS_Subset
<1>5. IsFiniteSet(T) /\ Cardinality(T) = Cardinality(world.packets) - 1
  BY <1>4, FS_RemoveElement
<1>6. Cardinality(world.packets) \in Nat /\ Cardinality(T) \in Nat
  BY <1>4, <1>5, FS_CardinalityType
<1>7. IsFiniteSet(1 .. n) /\ Cardinality(1 .. n) = n
  <2> HIDE DEF n
  <2>1. 1 \in Int /\ n \in Int
    BY <1>1
  <2>2. IsFiniteSet(1 .. n) /\ Cardinality(1 .. n) = IF 1 > n THEN 0 ELSE n - 1 + 1
    BY <2>1, FS_Interval
  <2> QED
    BY <1>1, <2>2
<1> DEFINE g == [k \in 1 .. n |-> conn.pending[k]]
<1>8. g \in [1 .. n -> T] /\ \A k \in 1 .. n : g[k] = conn.pending[k]
  BY <1>3
<1> HIDE DEF T, n, g
<1>9. ~(Cardinality(T) < n)
  <2> SUFFICES ASSUME Cardinality(T) < n PROVE FALSE
    OBVIOUS
  <2> DEFINE S == 1 .. n
  <2>0. IsFiniteSet(S) /\ Cardinality(T) < Cardinality(S) /\ g \in [S -> T]
    BY <1>7, <1>8
  <2>1. PICK j, k \in 1 .. n : j # k /\ g[j] = g[k]
    <3> HIDE DEF S
    <3>1. \E j, k \in S : j # k /\ g[j] = g[k]
      BY <1>5, <2>0, FS_PigeonHole, Zenon
    <3> QED
      BY <3>1 DEF S
  <2> QED
    BY <1>2, <1>8, <2>1
<1>10. BufferSize \in Nat
  BY Numbers
<1> QED
  BY <1>1, <1>5, <1>6, <1>9, <1>10 DEF Brief, n

\* A packet is refused, kept until its socket is replaced, or packed.
LEMMA SendGoes ==
  ASSUME Typed, Base, Sole, Course, Brief, NEW p \in Packets, Send(p)
  PROVE  LET t == <<"packet", p>> IN
         \/ conn' = conn /\ att' = att /\ task'[t].at = "failed"
         \/ conn.reconnecting /\ conn.in /\ conn' = Buffered(conn, p) /\ att' = att /\ task'[t].at = "done"
         \/ Starts(t)
<1> DEFINE t == <<"packet", p>>
<1>1. t \in Tasks /\ IsPacket(t) /\ t[2] = p /\ created = "done"
  BY SendDoes
<1>0. conn \in ConnType /\ task \in [Tasks -> TaskType] /\ task[t] \in TaskType
  BY <1>1 DEF Typed, ConnTyped
<1> HIDE DEF t
<1>2. CASE UNCHANGED <<conn, att>> /\ task' = [task EXCEPT ![t].at = "failed"]
  BY <1>0, <1>1, <1>2 DEF TaskType, t
<1>3. CASE Throw(t)
  BY <1>0, <1>1, <1>3 DEF Throw, Become, State, TaskType, t
<1>4. CASE conn.in /\ conn.reconnecting /\ Keep(t)
  <2>1. task'[t].at = "done" /\ conn' = Buffered(conn, p)
    BY <1>0, <1>1, <1>4 DEF Keep, Return, Value, TaskType
  <2> QED
    BY <1>4, <2>1 DEF Keep, t
<1>5. CASE conn.in /\ ~conn.reconnecting /\ conn.status \in Active /\ ToSocket(t)
  <2>1. IsOpen(conn.ws)
    <3>1. CASE sock[0] = "closed"
      BY <1>5, <3>1 DEF Course
    <3>2. CASE sock[0] # "closed"
      <4>1. conn.ws = 0 /\ sock[0] \notin {"none", "connecting", "closed"}
        BY <1>1, <3>2 DEF Course, Base, First
      <4>2. sock[0] \notin {"failed", "dropping", "closing"} /\ sock[0] \in SocketStates
        BY <1>5, Numbers DEF Sole, Tame, Loud, Brief, Can, Typed, ConnTyped
      <4> QED
        BY <4>1, <4>2 DEF SocketStates, IsOpen
    <3> QED
      BY <3>1, <3>2
  <2>2. Pack(t, conn.status)
    BY <1>5, <2>1 DEF ToSocket
  <2> QED
    BY <1>1, <1>5, <2>1, <2>2, PackDoes DEF t
<1> QED
  BY <1>2, <1>3, <1>4, <1>5 DEF Send, SendAudio, Course, t

LEMMA SendThread ==
  ASSUME Typed, Blank, Base, Sole, Voice, Flushes = {}, Course, Accepted, Brief, NEW p \in Packets, Send(p),
         UNCHANGED world
  PROVE  Course' /\ Accepted'
<1> DEFINE t == <<"packet", p>>
<1>1. t \in Tasks /\ Others(t) /\ created = "done"
  BY SendDoes
<1>2. task[t].at = "idle" /\ p \in world.packets /\ UNCHANGED <<created, sock, heard, torn>>
  BY DEF Send
<1>3. \A a \in Attempts : <<"flush", a>> \in Tasks \ {t}
  BY DEF Tasks
<1>4. \A a \in Attempts : task'[<<"flush", a>>] = task[<<"flush", a>>] /\ (Running(a)' <=> Running(a))
  BY <1>1, <1>3 DEF Others, Running
<1>5. \A q \in Packets : q # p => <<"packet", q>> \in Tasks \ {t}
  BY DEF Tasks
<1>6. conn.in /\ conn.pending \in Seq(Packets) /\ Len(conn.pending) \in Nat
  BY <1>1 DEF Course, Typed, ConnTyped, ConnType
<1>7. ASSUME SameConn, att' = att, task'[t].at \in {"failed", "done", "packing"},
             conn'.pending # <<>> => conn.pending # <<>> \/ conn.reconnecting
      PROVE  Course'
  <2>1. Waited' <=> Waited
    BY <1>7 DEF Waited
  <2>2. sock[0] # "closed" => conn'.pending = <<>>
    BY <1>7 DEF Course
  <2>3. \A u \in Tasks : task'[u].at # "awaiting"
    BY <1>1, <1>7 DEF Course, Others
  <2> QED
    BY <1>2, <1>4, <1>7, <2>1, <2>2, <2>3 DEF Course, SameConn, IsOpen
<1>8. ASSUME \A q \in Packets : Settles(q) => Settles(q)', task'[t].at = "done" => Settles(p)',
             \A u \in Tasks \ {t} : task[u].at = "packing" => Value(u)' = Value(u),
             task'[t].at = "packing" => IsOpen(task'[t].ws)
      PROVE  Accepted'
  <2>1. ASSUME NEW q \in Packets, task'[<<"packet", q>>].at # "idle"
        PROVE  q \in world.packets /\ (task'[<<"packet", q>>].at = "done" => Settles(q)')
    BY <1>1, <1>2, <1>5, <1>8, <2>1 DEF Accepted, Others
  <2>2. ASSUME NEW u \in Tasks, task'[u].at = "packing", sock'[task'[u].ws] # "open" PROVE Value(u)' \in torn'
    <3>1. u # t
      BY <1>2, <1>8, <2>2 DEF IsOpen
    <3> QED
      BY <1>1, <1>2, <1>8, <2>2, <3>1 DEF Accepted, Others, IsOpen
  <2> QED
    BY <2>1, <2>2 DEF Accepted, IsOpen
<1>9. ASSUME conn'.pending = conn.pending
      PROVE  /\ \A q \in Packets : Settles(q) => Settles(q)'
             /\ \A u \in Tasks \ {t} : task[u].at = "packing" => Value(u)' = Value(u)
  <2>1. \A q \in Packets : Settles(q) => Settles(q)'
    BY <1>2, <1>4, <1>9 DEF Settles, Heard, From
  <2>2. \A u \in Tasks \ {t} : Value(u)' = Value(u)
    BY <1>1, <1>9 DEF Value, Array, Others
  <2> QED
    BY <2>1, <2>2
<1>10. CASE conn' = conn /\ att' = att /\ task'[t].at = "failed"
  <2>1. SameConn /\ conn'.pending = conn.pending
    BY <1>10 DEF SameConn
  <2> QED
    BY <1>7, <1>8, <1>9, <1>10, <2>1
<1>11. CASE Starts(t)
  <2>1. /\ conn'.pending = conn.pending /\ att' = att /\ task'[t].at = "packing" /\ task'[t].ws = conn.ws
        /\ IsOpen(conn.ws) /\ conn'.in = conn.in /\ conn'.ws = conn.ws /\ conn'.status \in Active
        /\ conn'.reconnecting = conn.reconnecting /\ conn'.retry = conn.retry
    BY <1>11 DEF Starts
  <2>2. \A u \in Tasks : task'[u].at # "awaiting"
    BY <1>1, <2>1 DEF Course, Others
  <2>3. Course'
    <3>1. (Waited' <=> Waited) /\ (IsOpen(1)' <=> IsOpen(1))
      BY <1>2, <2>1 DEF Waited, IsOpen
    <3>2. conn'.status \notin {"error", "completed", "disconnected"}
      BY <2>1 DEF Active
    <3> QED
      BY <1>2, <1>4, <2>1, <2>2, <3>1, <3>2 DEF Course
  <2> QED
    BY <1>8, <1>9, <2>1, <2>3
<1>12. CASE conn.reconnecting /\ conn' = Buffered(conn, p) /\ att' = att /\ task'[t].at = "done"
  <2>1. \A a \in Attempts : ~Running(a) /\ ~Running(a)'
    BY <1>4, <1>12 DEF Course
  <2>2. conn' = [conn EXCEPT !.pending = Append(@, p)]
    BY <1>2, <1>6, <1>12, <2>1, Room DEF Buffered
  <2>3. SameConn /\ conn'.pending = Append(conn.pending, p)
    BY <2>2 DEF SameConn, Typed, ConnTyped, ConnType
  <2> DEFINE n == Len(conn.pending) + 1
  <2>4. /\ Len(conn'.pending) = n /\ conn'.pending[n] = p /\ n \in 1 .. n
        /\ \A k \in 1 .. Len(conn.pending) : conn'.pending[k] = conn.pending[k] /\ k \in 1 .. n
    BY <1>6, <2>3
  <2> HIDE DEF n
  <2>5. \A k \in 1 .. n : From(k)'
    BY <2>1, <2>4 DEF From
  <2>6. \A q \in Packets : Settles(q) => Settles(q)'
    BY <1>2, <2>4, <2>5 DEF Settles, Heard
  <2>7. Settles(p)'
    BY <2>4, <2>5 DEF Settles
  <2>8. \A u \in Tasks \ {t} : task[u].at = "packing" => Value(u)' = Value(u)
    <3> SUFFICES ASSUME NEW u \in Tasks \ {t}, task[u].at = "packing" PROVE Value(u)' = Value(u)
      OBVIOUS
    <3>1. IsPacket(u)
      BY <2>1, TaskKinds DEF Running
    <3> QED
      BY <3>1 DEF Value
  <2>9. Course'
    BY <1>7, <1>12, <2>3
  <2> QED
    BY <1>8, <1>12, <2>6, <2>7, <2>8, <2>9
<1> QED
  BY <1>10, <1>11, <1>12, SendGoes

LEMMA RunIsNow ==
  ASSUME NEW t \in Tasks, SendAudio(t) \/ ToSocket(t) \/ Throw(t) \/ Keep(t) \/ Return(t)
  PROVE  since' \in {since, "now"}
<1>1. Return(t) => since' \in {since, "now"}
  BY DEF Return
<1>2. Throw(t) \/ Keep(t) => since' \in {since, "now"}
  BY <1>1 DEF Throw, Keep
<1>3. ToSocket(t) => since' \in {since, "now"}
  BY <1>2 DEF ToSocket, Pack
<1>4. SendAudio(t) => since' \in {since, "now"}
  BY <1>2, <1>3 DEF SendAudio, Pack
<1> QED
  BY <1>1, <1>2, <1>3, <1>4

\* Steps of the connection that a brief world has.
LEMMA ConnStepThread ==
  ASSUME Typed, Blank, Base, Typed', Sole, Voice, Flushes = {}, Brief, Thread, ConnStep,
         UNCHANGED <<world, over, finished>>
  PROVE  Thread'
<1>1. \A i \in Sockets : ~Refuse(i)
  BY DEF Refuse, Brief, Can
<1>2. ~Beat /\ ~Beaten /\ ~BeatTimeout
  BY DEF Beat, Beaten, BeatTimeout, Sole, Loud, Brief, Can
<1>3. \A t \in Tasks : ~Resume(t)
  BY DEF Resume, Thread, Course
<1>4. UNCHANGED inbox /\ since' \in {since, "now"}
  <2>1. ASSUME NEW t \in Tasks, Packed(t) PROVE UNCHANGED inbox /\ since' \in {since, "now"}
    BY <2>1, RunIsNow DEF Packed
  <2> QED
    BY <1>1, <1>2, <1>3, <2>1 DEF ConnStep, Connect, Open, Greet, Close, OnClose, AfterDelay
<1>5. Undisturbed'
  BY <1>4 DEF Thread, Undisturbed
<1>6. Course' /\ Accepted'
  BY <1>1, <1>2, <1>3, ConnectThread, OpenThread, GreetThread, CloseThread, AfterDelayThread, PackedThread
     DEF Thread, ConnStep
<1> QED
  BY <1>5, <1>6 DEF Thread

\* Steps that are not the connection's own.
LEMMA ThreadStays ==
  ASSUME Typed, Course, Accepted, UNCHANGED <<world, created, sock, att, task, heard, torn>>,
         conn'.in = conn.in, conn'.ws = conn.ws, conn'.reconnecting = conn.reconnecting, conn'.retry = conn.retry,
         conn'.pending = conn.pending, conn'.status \in {conn.status, "streaming"}
  PROVE  Course' /\ Accepted'
<1>1. Course'
  BY DEF Course, Waited, Running, IsOpen
<1>2. Accepted'
  BY AcceptedStays, SessTyped DEF IsOpen
<1> QED
  BY <1>1, <1>2

LEMMA ResultThread ==
  ASSUME Typed, Brief, Thread, UNCHANGED <<world, over, finished>>,
         (\E i \in Sockets, kind \in Kinds : Receive(i, kind)) \/ (\E r \in inbox : Parse(r))
  PROVE  Thread'
<1>1. ASSUME NEW i \in Sockets, NEW kind \in Kinds, Receive(i, kind) PROVE Thread'
  <2>1. kind = "text" /\ UNCHANGED <<created, conn, sock, att, task, heard, torn, since>>
    BY <1>1 DEF Receive, Kinds, Brief
  <2>2. \A r \in inbox' : r \in inbox \/ (~r.bad /\ ~r.final)
    <3> DEFINE m == [on |-> i, n |-> spoken + 1, text |-> IF kind \in {"text", "final"} THEN spoken + 1 ELSE 0,
                     final |-> kind \in {"final", "refusal"}, bad |-> kind = "bad"]
    <3>1. inbox' = inbox \cup {m}
      BY <1>1 DEF Receive
    <3>2. ~m.final /\ ~m.bad
      BY <2>1
    <3> HIDE DEF m
    <3> QED
      BY <3>1, <3>2
  <2> QED
    BY <2>1, <2>2, ThreadStays DEF Thread, Undisturbed
<1>2. ASSUME NEW r \in inbox, Parse(r) PROVE Thread'
  <2>1. ~r.bad /\ ~r.final
    BY DEF Thread, Undisturbed
  <2>2. /\ UNCHANGED <<created, sock, att, task, heard, torn>> /\ inbox' \subseteq inbox
        /\ conn' = [conn EXCEPT !.text = IF r.text > 0 THEN r.text ELSE @, !.status = "streaming"]
        /\ HandleResult(r)
    BY <1>2, <2>1 DEF Parse
  <2>3. since' \in {since, "now"}
    BY <2>2 DEF HandleResult
  <2>4. Course' /\ Accepted'
    BY <2>2, ThreadStays DEF Thread, Typed, ConnTyped, ConnType
  <2>5. Undisturbed'
    BY <2>2, <2>3 DEF Thread, Undisturbed
  <2> QED
    BY <2>4, <2>5 DEF Thread
<1> QED
  BY <1>1, <1>2

LEMMA AloneThread ==
  ASSUME Typed, Ending, Brief, Thread, UNCHANGED <<world, connVars>>, Alone \/ Status
  PROVE  Thread'
<1>1. UNCHANGED <<created, conn, sock, att, task, inbox, heard, torn>>
  BY DEF connVars
<1>2. ~Wait /\ ~Age /\ ~Sweep
  BY DEF Wait, Age, Sweep, Brief, Can, Thread, Undisturbed
<1>3. finished' = finished /\ over' = over /\ since' \in {since, "now"}
  BY <1>2 DEF Alone, Status, Saved, Restored, Completed, CleanupTimer, Expire, Ping, Restore
<1> QED
  BY <1>1, <1>3, ThreadStays DEF Thread, Undisturbed

LEMMA ThreadKept ==
  ASSUME Typed, Blank, Base, Typed', Sole, Voice, Ending, Brief, Thread, Next, UNCHANGED world
  PROVE  Thread'
<1>1. ASSUME NEW a \in Flushes, Flush(a), UNCHANGED <<store, told, over, timer, finished>> PROVE Thread'
  <2>1. a \in Attempts /\ <<"flush", a>> \in Tasks
    BY DEF Flushes, Tasks
  <2>2. UNCHANGED inbox /\ since' \in {since, "now"}
    BY <1>1, <2>1, RunIsNow DEF Flush
  <2> QED
    BY <1>1, <2>1, <2>2, FlushThread DEF Thread, Undisturbed
<1> SUFFICES ASSUME Flushes = {} PROVE Thread'
  BY <1>1 DEF Next
<1>2. CASE ConnStep /\ UNCHANGED <<store, told, over, timer, finished>>
  BY <1>2, ConnStepThread
<1>3. CASE (\E i \in Sockets, kind \in Kinds : Receive(i, kind) /\ UNCHANGED <<store, over, timer, finished>>)
           \/ (\E r \in inbox : Parse(r) /\ UNCHANGED <<store, over, timer, finished>>)
  BY <1>3, ResultThread
<1>4. ASSUME NEW p \in Packets, Send(p), UNCHANGED <<store, told, over, timer, finished>> PROVE Thread'
  <2>1. <<"packet", p>> \in Tasks
    BY DEF Tasks
  <2>2. UNCHANGED inbox /\ since' \in {since, "now"}
    BY <1>4, <2>1, RunIsNow DEF Send
  <2> QED
    BY <1>4, <2>2, SendThread DEF Thread, Undisturbed
<1>5. CASE (Alone /\ UNCHANGED connVars) \/ Status
  BY <1>5, AloneThread DEF Status
<1>6. ~Complete /\ ~Cancel /\ ~Crash /\ ~Shutdown
  BY DEF Complete, Cancel, Crash, Shutdown, Brief, Can
<1>7. ~CleanUp
  BY HeadIsThere DEF CleanUp, Forgotten, Answered, Ending, Kept, Thread, Undisturbed
<1> QED
  BY <1>2, <1>3, <1>4, <1>5, <1>6, <1>7 DEF Next, OfConnection

LEMMA InitThread ==
  ASSUME Init
  PROVE  Thread
<1>1. /\ created = "no" /\ conn = NoConn /\ sock = [i \in Sockets |-> "none"]
      /\ att = [a \in Attempts |-> [at |-> "none", by |-> None]] /\ task = [t \in Tasks |-> NoTask]
      /\ inbox = {} /\ since = "now" /\ over = FALSE /\ finished = "no"
  BY DEF Init, SessionInit, ConnInit
<1>2. Undisturbed
  BY <1>1 DEF Undisturbed
<1>3. /\ ~conn.in /\ conn.status = "none" /\ ~conn.reconnecting /\ conn.pending = <<>> /\ conn.retry = 0 /\ conn.ws = 0
      /\ \A t \in Tasks : task[t].at = "idle"
      /\ \A a \in Attempts : att[a].at = "none" /\ sock[a] = "none"
  BY <1>1, NoTaskTyped, Numbers DEF NoConn
<1>4. Course
  BY <1>1, <1>3, OneIsAttempt, Numbers DEF Course, Running, Tasks
<1>5. Accepted
  BY <1>3 DEF Accepted, Tasks
<1> QED
  BY <1>2, <1>4, <1>5 DEF Thread

ThreadInv == EndInv /\ VoiceInv /\ (Brief => Thread)

LEMMA ThreadHolds == Spec => []ThreadInv
<1> DEFINE T == Brief => Thread
<1>1. Init => T
  BY InitThread
<1>2. EndInv /\ VoiceInv /\ (EndInv /\ VoiceInv)' /\ T /\ [Next /\ UNCHANGED world]_vars => T'
  <2> SUFFICES ASSUME EndInv, VoiceInv, (EndInv /\ VoiceInv)', T, [Next /\ UNCHANGED world]_vars PROVE T'
    OBVIOUS
  <2>1. UNCHANGED world
    BY DEF vars
  <2>2. Brief' <=> Brief
    BY <2>1 DEF Brief
  <2>3. Brief => Voice /\ Sole
    BY DEF Brief, VoiceInv, SoleInv, Listening, Single, Can
  <2>4. CASE Next
    BY <2>1, <2>2, <2>3, <2>4, ThreadKept DEF EndInv, BaseInv, AsrInv
  <2>5. CASE UNCHANGED vars
    <3>1. UNCHANGED <<world, created, conn, sock, att, task, inbox, heard, torn, since, over, finished>>
      BY <2>5 DEF vars, connVars, sessionVars
    <3> QED
      BY <2>2, <3>1, ThreadStays DEF EndInv, BaseInv, AsrInv, Thread, Undisturbed
  <2> QED
    BY <2>4, <2>5
<1> QED
  BY <1>1, <1>2, EndingHolds, VoiceHolds, PTL DEF Spec, ThreadInv

\* Audio is sent once, whoever sends it and on whatever socket; and what was
\* accepted is sent, at the latest when a socket replaces the first one.
THEOREM AudioIsSent == Spec => []AudioArrivesOnce
<1>1. ThreadInv => SentOnce
  BY IsSentOnce DEF ThreadInv
<1>2. ThreadInv => AcceptedAudioIsSent
  <2> SUFFICES ASSUME ThreadInv, Brief, NEW p \in Packets, task[<<"packet", p>>].at = "done",
                      ~(p \in torn \/ Heard(p))
               PROVE  ~Quiet /\ \E k \in 1 .. Len(conn.pending) : conn.pending[k] = p
    BY DEF AcceptedAudioIsSent, Brief, Heard
  <2>1. Course /\ Settles(p) /\ Typed
    BY DEF ThreadInv, Thread, Accepted, EndInv, BaseInv, AsrInv
  <2>2. PICK k \in 1 .. Len(conn.pending) : conn.pending[k] = p
    BY <2>1 DEF Settles
  <2>3. conn.pending # <<>>
    BY <2>2
  <2>4. ~Quiet
    BY <2>1, <2>3, OneIsAttempt DEF Course, Waited, Quiet
  <2> QED
    BY <2>2, <2>4
<1> QED
  BY <1>1, <1>2, ThreadHolds, PTL DEF AudioArrivesOnce
=============================================================================
