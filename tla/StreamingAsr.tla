---------------------------- MODULE StreamingAsr ----------------------------
(***************************************************************************)
(* A session of streaming-asr.service.ts over its connection               *)
(* (AsrConnection), as its client sees it: a client posts audio through    *)
(* StreamingAsrSessionGuard, polls the status, keeps the session alive and *)
(* ends it; the process crashes or is stopped and starts again.            *)
(***************************************************************************)
EXTENDS AsrConnection

CONSTANT Worlds    \* what can go wrong together

ASSUME StreamingAsrAssumption ==
  \A w \in Worlds : w.breaks \subseteq Sockets /\ w.packets \subseteq Packets /\ w.texts \in 0 .. MaxText

vars == <<world, sessionVars, connVars>>

\* getSessionStatus of a session in memory: what it takes from the connection.
ProviderStatus == IF conn.in THEN conn.status ELSE "disconnected"
Synced ==
  [sess EXCEPT !.status = IF \/ ProviderStatus \in Active /\ @ \notin Active
                             \/ ProviderStatus \in {"completed", "error"}
                          THEN ProviderStatus ELSE @,
               !.text = IF conn.in THEN conn.text ELSE @]

(* The client                                                              *)

Status ==
  /\ Can("poll") /\ sess.in /\ Synced # sess /\ sess' = Synced
  /\ UNCHANGED <<store, cmds, told, since, over, timer, finished, connVars>>

\* The guard asks for the status first and refuses a session with an error.
Send(p) ==
  LET t == <<"packet", p>> IN
  /\ created = "done" /\ task[t].at = "idle" /\ p \in world.packets
  /\ Can("serial") => \A q \in 1 .. p - 1 : task[<<"packet", q>>].at \in {"done", "failed"}
  /\ \/ /\ ~sess.in \/ (Synced = sess /\ sess.status = "error")
        /\ task' = [task EXCEPT ![t].at = "failed"] /\ UNCHANGED <<sess, cmds, since, conn, att>>
     \/ sess.in /\ Synced = sess /\ sess.status # "error" /\ SendAudio(t)
  /\ UNCHANGED <<created, sock, greeting, inbox, spoken, beats, heard, torn>>

\* completeSession up to the deletion of its record.
Complete ==
  /\ Can("complete") /\ sess.in /\ ~timer /\ \A k \in 1 .. Len(cmds) : cmds[k].op # "delete"
  /\ sess' = [sess EXCEPT !.text = IF conn.in THEN conn.text ELSE @, !.status = "completed"]
  /\ Disconnect /\ finished' = "user" /\ cmds' = Append(cmds, Command("delete", "complete", 0))
  /\ UNCHANGED <<store, told, since, over, timer>>
  /\ UNCHANGED <<created, att, task, greeting, inbox, spoken, heard>>

\* cancelSession leaves the record.
Cancel ==
  /\ Can("cancel") /\ sess.in /\ sess' = [sess EXCEPT !.in = FALSE, !.status = "disconnected"]
  /\ Disconnect /\ finished' = "user"
  /\ UNCHANGED <<store, cmds, told, since, over, timer>>
  /\ UNCHANGED <<created, att, task, greeting, inbox, spoken, heard>>

(* The process                                                             *)

\* forceCleanupSession once the record is deleted.
CleanUp ==
  /\ Forgotten("cleanup") /\ sess' = [sess EXCEPT !.in = FALSE]
  /\ IF sess.status \in {"completed", "disconnected"} THEN UNCHANGED <<conn, sock, beats, torn>> ELSE Disconnect
  /\ UNCHANGED <<told, since, over, timer, finished>>
  /\ UNCHANGED <<created, att, task, greeting, inbox, spoken, heard>>

\* Only Redis remembers anything. A packet that was on its way fails.
Crash ==
  /\ Can("crash") /\ created # "no"
  /\ sess' = NoSession /\ conn' = NoConn /\ beats' = Silence /\ cmds' = <<>> /\ timer' = FALSE
  /\ created' = IF created = "done" THEN "done" ELSE "failed"
  /\ sock' = [i \in Sockets |-> IF sock[i] = "none" THEN "none" ELSE "closed"]
  /\ att' = [a \in Attempts |-> IF att[a].at = "none" THEN att[a] ELSE [att[a] EXCEPT !.at = "cancelled"]]
  /\ task' = [t \in Tasks |-> IF task[t].at \in {"done", "failed", "idle"} THEN task[t]
                              ELSE IF IsPacket(t) THEN [NoTask EXCEPT !.at = "failed"] ELSE NoTask]
  /\ greeting' = {} /\ inbox' = {}
  /\ UNCHANGED <<store, told, since, over, finished, spoken, heard, torn>>

\* onModuleDestroy cleans up every session; the process ends after it.
Shutdown ==
  /\ Can("stop") /\ sess.in /\ \A k \in 1 .. Len(cmds) : cmds[k].op # "delete"
  /\ finished' = "stop" /\ cmds' = Append(cmds, Command("delete", "cleanup", 0))
  /\ UNCHANGED <<sess, store, told, since, over, timer, connVars>>

Init == world \in Worlds /\ SessionInit /\ ConnInit

(* A step of the connection, or of the session alone                       *)

OfConnection ==
  \/ ConnStep /\ UNCHANGED <<store, told, over, timer, finished>>
  \/ \E i \in Sockets, kind \in Kinds : Receive(i, kind) /\ UNCHANGED <<store, over, timer, finished>>
  \/ \E r \in inbox : Parse(r) /\ UNCHANGED <<store, over, timer, finished>>
  \/ \E p \in Packets : Send(p) /\ UNCHANGED <<store, told, over, timer, finished>>

Alone ==
  \/ Saved \/ Restored \/ Completed \/ CleanupTimer \/ Sweep \/ Wait \/ Age \/ Expire
  \/ Ping /\ cmds = <<>>
  \/ Restore /\ created # "no" /\ cmds = <<>>

\* A flush goes on at once when it has nothing to wait for.
Flushes == {a \in Attempts : task[<<"flush", a>>].at = "next"}

Next ==
  \/ /\ Flushes = {}
     /\ \/ OfConnection \/ (Alone /\ UNCHANGED connVars)
        \/ Status \/ Complete \/ Cancel \/ CleanUp \/ Crash \/ Shutdown
  \/ \E a \in Flushes : Flush(a) /\ UNCHANGED <<store, told, over, timer, finished>>

Spec == Init /\ [][Next /\ UNCHANGED world]_vars

Fairness ==
  /\ WF_vars(Sweep /\ UNCHANGED <<connVars, world>>) /\ WF_vars(Wait /\ UNCHANGED <<connVars, world>>)
  /\ WF_vars(Saved /\ UNCHANGED <<connVars, world>>) /\ WF_vars(Restored /\ UNCHANGED <<connVars, world>>)
  /\ WF_vars(Completed /\ UNCHANGED <<connVars, world>>) /\ WF_vars(CleanUp /\ UNCHANGED world)

FairSpec == Spec /\ Fairness

(* Properties                                                              *)

\* Every variable has its type.
AsrTypeOK ==
  /\ SessionTypeOK
  /\ created \in {"no", "pending", "done", "failed"}
  /\ conn.in \in BOOLEAN /\ conn.status \in Statuses \cup {"connecting"}
  /\ conn.ws \in Sockets /\ conn.retry \in 0 .. MaxRetries /\ Len(conn.pending) <= BufferSize
  /\ \A i \in Sockets : sock[i] \in {"none", "connecting", "open", "failed", "dropping", "closing", "closed"}
  /\ \A a \in Attempts : att[a].at \in {"none", "waiting", "opening", "ended", "cancelled"}
  /\ \A t \in Tasks : task[t].at \in {"idle", "awaiting", "packing", "next", "done", "failed"}
  /\ greeting \subseteq Sockets /\ torn \subseteq Packets \cup {0}

\* retryCount bounds the sockets a connection opens in all its life, whatever
\* combination of failed and broken sockets makes attempts overlap.
SocketsAreBounded == Cardinality({a \in Attempts : att[a].at # "none"}) <= MaxRetries + 1

\* As long as the provider accepts connections, a broken socket is replaced by
\* one: two are never open at a time. (A last result that comes in on a socket
\* given up for its silence ends the connection, and audio begins it anew beside
\* the attempt that the close of that socket makes.)
OneSocketOpen ==
  ~Can("unreachable") /\ (~Can("silent") \/ world.kinds \cap {"final", "refusal"} = {}) =>
    Cardinality({i \in Sockets : IsOpen(i)}) <= 1

\* Sockets come from breaks: one for each, and no more than the code allows.
SocketsFollowBreaks == AsrTypeOK /\ SocketsAreBounded /\ OneSocketOpen

\* Nothing is going to change the connection.
Quiet ==
  /\ created = "done" /\ Settled
  /\ \A a \in Attempts : att[a].at \notin {"waiting", "opening"}
  /\ \A i \in Sockets : sock[i] \notin {"connecting", "failed", "closing", "dropping"}

\* When the last attempt of a session in use has failed, the client's next look
\* at the status shows it, unless something was being packed or unpacked for a
\* socket as it closed, or a replaced socket was closed normally, of which nobody
\* is told. (A session that was ended, and that the save of an earlier state
\* brings back, is shown as active, though its connection is gone.)
EndIsShown ==
  ~Can("normal") /\ torn = {} /\ finished = "no" /\ Quiet /\ sess.in /\ conn.in /\ (\A i \in Sockets : ~IsOpen(i)) =>
    Synced.status \in {"disconnected", "error", "completed"}

\* Text a client has been shown survives a crash: its record has it.
SeenSurvivesRestart ==
  ~Can("faults") /\ ~Can("reorder") /\ finished = "no" /\ since # "idle" /\ ~over /\ told > 0 => store # None /\ store.text >= told

\* A packet is sent once, whoever sends it, its client or a flush, on whatever
\* socket, as long as the provider accepts connections and does not end the
\* recognition.
SentOnce ==
  world.kinds = {} /\ ~Can("unreachable") =>
    \A j, k \in 1 .. Len(heard) : heard[j][2] = heard[k][2] => j = k

\* Audio the client was told is accepted is sent, at the latest with the socket
\* that replaces the first one, or was on its way when that one broke, if nothing
\* else happens to the session and the buffer holds what is waiting.
AcceptedAudioIsSent ==
  /\ world.kinds = {} /\ world.breaks = {0} /\ world.can \subseteq {"poll", "serial", "reorder"}
  /\ Cardinality(world.packets) <= BufferSize
  => \A p \in Packets :
    task[<<"packet", p>>].at = "done" =>
      \/ p \in torn \/ \E k \in 1 .. Len(heard) : heard[k][2] = p
      \/ ~Quiet /\ \E k \in 1 .. Len(conn.pending) : conn.pending[k] = p

\* Audio is neither lost nor sent twice when a socket breaks and is replaced.
AudioArrivesOnce == SentOnce /\ AcceptedAudioIsSent

\* A session nobody uses leaves memory, in whatever state its connection is.
SessionsLeave == ~Can("meeting") /\ <>[](since # "now") => []<>(~sess.in)

\* The record of a session that is in use outlives the process.
RestartKeepsSession ==
  [][store # None /\ store' = None => finished \in {"user", "sweep"} \/ since = "idle"]_vars
=============================================================================
