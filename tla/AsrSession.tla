----------------------------- MODULE AsrSession -----------------------------
(***************************************************************************)
(* A streaming recognition session of streaming-asr.service.ts: its entry  *)
(* in memory, its record in Redis, the callbacks of the connection to the  *)
(* provider (AsrConnection), and the passing of time. Sessions share       *)
(* nothing, so there is one. A text is the number of the result it came    *)
(* with: every result holds the whole text so far.                         *)
(***************************************************************************)
EXTENDS Naturals, Sequences

CONSTANTS MaxText, None    \* bound: results with a text

VARIABLES
  world,     \* what can go wrong, chosen once
  sess,      \* the SessionInfo; in: whether `sessions` has it
  store,     \* its record in Redis
  cmds,      \* commands to Redis without an answer yet, in the order they were sent
  told,      \* history: the text of the last transcript event
  since,     \* how long ago lastActivityAt is: "now", over 30 s, over 60 min
  over,      \* whether the session was created over 4 hours ago
  timer,     \* whether completeSession's timer of 30 s is set
  finished   \* history: who ended the session last: "no", "user", "sweep", or "stop", the process

sessionVars == <<sess, store, cmds, told, since, over, timer, finished>>
\* What can happen in this world.
Can(x) == x \in world.can

Active == {"connected", "streaming"}
Statuses == Active \cup {"none", "error", "disconnected", "completed"}
ASSUME SessionAssumption == MaxText \in Nat \ {0} /\ None \notin [text : Nat, status : Statuses]

NoSession == [in |-> FALSE, status |-> "none", text |-> 0]

Command(op, then, text) == [op |-> op, then |-> then, text |-> text, of |-> sess]

\* saveSessionToRedis: the record is made when the command is sent.
Save(s, then, text) == Append(cmds, [Command("save", then, text) EXCEPT !.of = s])

(* The callbacks of the connection, as functions of the entry              *)

Connected(s) == IF s.in THEN [s EXCEPT !.status = "connected"] ELSE s
Errored(s) == IF s.in THEN [s EXCEPT !.status = "error"] ELSE s
Disconnected(s) == IF s.in /\ s.status # "completed" THEN [s EXCEPT !.status = "disconnected"] ELSE s
Resulted(s, r) ==
  [s EXCEPT !.text = IF r.text > 0 THEN r.text ELSE @, !.status = IF r.final THEN "completed" ELSE "streaming"]

\* handleResult that tells first and saves afterwards.
TellAtOnce(r) ==
  IF ~sess.in THEN UNCHANGED <<sess, cmds, told, since>>
  ELSE /\ sess' = Resulted(sess, r) /\ since' = "now"
       /\ told' = IF r.text > 0 THEN r.text ELSE told
       /\ cmds' = Save(sess', "none", 0)

\* The event follows when the record is saved.
HandleResult(r) ==
  IF ~sess.in THEN UNCHANGED <<sess, cmds, told, since>>
  ELSE /\ sess' = Resulted(sess, r) /\ since' = "now" /\ UNCHANGED told
       /\ cmds' = Save(sess', "tell", r.text)

(* Redis answers: it executes commands in order, and what waits goes on    *)

Answered(op) == cmds # <<>> /\ Head(cmds).op = op /\ cmds' = Tail(cmds)

Saved ==
  /\ Answered("save")
  /\ LET k == Head(cmds) IN
     /\ store' = [text |-> k.of.text, status |-> k.of.status] \/ (Can("faults") /\ UNCHANGED store)
     /\ told' = IF k.then = "tell" /\ k.text > 0 THEN k.text ELSE told
  /\ UNCHANGED <<sess, since, over, timer, finished>>

\* restoreSessionFromRedis, for getSessionStatus.
Restored ==
  /\ Answered("get")
  /\ sess' \in {IF store = None THEN sess ELSE [in |-> TRUE, status |-> store.status, text |-> store.text]}
               \cup (IF Can("faults") THEN {sess} ELSE {})
  /\ UNCHANGED <<store, told, since, over, timer, finished>>

Forgotten(then) == Answered("delete") /\ Head(cmds).then = then /\ (store' = None \/ (Can("faults") /\ UNCHANGED store))

\* completeSession sets its timer once the record is deleted.
Completed ==
  /\ Forgotten("complete") /\ timer' = TRUE
  /\ UNCHANGED <<sess, told, since, over, finished>>

(* What needs no connection                                                *)

CleanupTimer ==
  /\ timer /\ timer' = FALSE /\ sess' = [sess EXCEPT !.in = FALSE]
  /\ UNCHANGED <<store, cmds, told, since, over, finished>>

\* updateSessionActivity
Ping ==
  /\ Can("ping") /\ sess.in /\ since # "now" /\ since' = "now" /\ cmds' = Save(sess, "none", 0)
  /\ UNCHANGED <<sess, store, told, over, timer, finished>>

\* getSessionStatus of a session memory does not have.
Restore ==
  /\ Can("poll") /\ ~sess.in /\ cmds' = Append(cmds, Command("get", "none", 0))
  /\ UNCHANGED <<sess, store, told, since, over, timer, finished>>

\* checkAndCleanupSessions that leaves broken sessions for their user to end.
SweepWorking ==
  /\ sess.in /\ ~over /\ \A k \in 1 .. Len(cmds) : cmds[k].op # "delete"
  /\ (since = "idle" /\ sess.status \in Active) \/ (since # "now" /\ sess.status = "completed")
  /\ finished' = "sweep" /\ cmds' = Append(cmds, Command("delete", "cleanup", 0))
  /\ UNCHANGED <<sess, store, told, since, over, timer>>

\* checkAndCleanupSessions and forceCleanupSession. A meeting that has lasted
\* 4 hours is only told so, whatever else is true of it.
Sweep ==
  /\ sess.in /\ \A k \in 1 .. Len(cmds) : cmds[k].op # "delete"
  /\ \/ over /\ ~Can("meeting")
     \/ ~over /\ (since = "idle" \/ (sess.status = "completed" /\ since # "now"))
  /\ finished' = "sweep" /\ cmds' = Append(cmds, Command("delete", "cleanup", 0))
  /\ UNCHANGED <<sess, store, told, since, over, timer>>

Wait ==
  /\ Can("wait") /\ since # "idle" /\ since' = IF since = "now" THEN "rest" ELSE "idle"
  /\ UNCHANGED <<sess, store, cmds, told, over, timer, finished>>

Age ==
  /\ Can("age") /\ ~over /\ over' = TRUE
  /\ UNCHANGED <<sess, store, cmds, told, since, timer, finished>>

\* The record lives for 2 hours after the last save; by then a session in
\* memory is swept, except an old meeting.
Expire ==
  /\ since = "idle" /\ (~sess.in \/ (over /\ Can("meeting"))) /\ store # None /\ store' = None
  /\ UNCHANGED <<sess, cmds, told, since, over, timer, finished>>

SessionInit ==
  /\ sess = NoSession /\ store = None /\ cmds = <<>> /\ told = 0 /\ since = "now"
  /\ over = FALSE /\ timer = FALSE /\ finished = "no"

SessionTypeOK ==
  /\ sess.in \in BOOLEAN /\ sess.status \in Statuses
  /\ {sess.text, told} \subseteq 0 .. MaxText /\ since \in {"now", "rest", "idle"}
  /\ {over, timer} \subseteq BOOLEAN /\ finished \in {"no", "user", "sweep", "stop"}
  /\ store = None \/ store.text \in 0 .. MaxText
  /\ \A k \in 1 .. Len(cmds) : cmds[k].op \in {"save", "get", "delete"}
=============================================================================
