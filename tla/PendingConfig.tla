---------------------------- MODULE PendingConfig ----------------------------
(***************************************************************************)
(* The two copies of a bot's settings (name, tags, persona, ...): the      *)
(* columns of its row, and pendingConfig, the changes a user has saved and *)
(* which take effect at the next start. updateBot, applyPendingConfig and  *)
(* clearPendingConfig of bot-api.service.ts read the row in one query and  *)
(* write it in another; startBot applies what is pending before it goes on *)
(* (BotSettings has the rest of it).                                       *)
(***************************************************************************)
EXTENDS Naturals, FiniteSets

CONSTANTS Fields, Values, None, Reqs

VARIABLES
  row,         \* the columns
  pending,     \* pendingConfig: None for a field that is not in it
  req,         \* requests under way
  want,        \* history: what the accepted requests add up to
  serial,      \* does a request wait until no other is under way?
  faults       \* may a query fail?

vars == <<row, pending, req, want>>

Nothing == [f \in Fields |-> None]
Change == [Fields -> Values \cup {None}]

Overlay(base, new) == [f \in Fields |-> IF new[f] = None THEN base[f] ELSE new[f]]

\* What the bot will be configured with once everything pending is applied.
Effective == Overlay(row, pending)

Idle == [op |-> "none", pc |-> "idle", old |-> Nothing, new |-> Nothing]
At(r, pc) == req[r].pc = pc
Set(r, q) == req' = [req EXCEPT ![r] = q]
Goto(r, pc) == Set(r, [req[r] EXCEPT !.pc = pc])
Quiet == \A r \in Reqs : At(r, "idle")

-----------------------------------------------------------------------------
\* Each request begins with getBotByHostname.
Arrive(r, op, pc, new) ==
  /\ At(r, "idle") /\ (serial => Quiet)
  /\ Set(r, [op |-> op, pc |-> pc, old |-> pending, new |-> new])
  /\ UNCHANGED <<row, pending, want>>

StartUpdate(r, ch) == Arrive(r, "update", "merge", ch)
StartClear(r) == Arrive(r, "clear", "clear", Nothing)

\* applyPendingConfig, as an endpoint: nothing to do when nothing is pending.
StartApply(r) == pending # Nothing /\ Arrive(r, "apply", "apply", Nothing)

\* updateBot that stores its own fields only.
ReplacePending(r) ==
  /\ At(r, "merge")
  /\ pending' = req[r].new
  /\ want' = Overlay(want, req[r].new)
  /\ Set(r, Idle) /\ UNCHANGED row

\* updateBot: the fields it was given over the pending ones it read.
MergePending(r) ==
  /\ At(r, "merge")
  /\ pending' = Overlay(req[r].old, req[r].new)
  /\ want' = Overlay(want, req[r].new)
  /\ Set(r, Idle) /\ UNCHANGED row

WriteClear(r) ==
  /\ At(r, "clear")
  /\ pending' = Nothing /\ want' = row
  /\ Set(r, Idle) /\ UNCHANGED row

\* startBot: with something pending it calls applyPendingConfig, which reads
\* the row again, and goes on with the row it reads after that.
StartStart(r) ==
  Arrive(r, "start", IF pending = Nothing THEN "started" ELSE "reload", Nothing)

Reload(r) ==
  /\ At(r, "reload")
  /\ Set(r, [req[r] EXCEPT !.old = pending, !.pc = IF pending = Nothing THEN "reread" ELSE "apply"])
  /\ UNCHANGED <<row, pending, want>>

\* A column for each pending field, and pendingConfig to null, in one update.
WriteApply(r) ==
  /\ At(r, "apply")
  /\ row' = Overlay(row, req[r].old) /\ pending' = Nothing
  /\ IF req[r].op = "start" THEN Goto(r, "reread") ELSE Set(r, Idle)
  /\ UNCHANGED want

Reread(r) ==
  /\ At(r, "reread") /\ Goto(r, "started")
  /\ UNCHANGED <<row, pending, want>>

\* A query fails, or the process crashes: what was written stays.
Fail(r) ==
  /\ faults /\ ~At(r, "idle") /\ ~At(r, "started")
  /\ Set(r, Idle) /\ UNCHANGED <<row, pending, want>>

Init ==
  /\ row \in [Fields -> Values] /\ pending = Nothing
  /\ req = [r \in Reqs |-> Idle] /\ want = row

Step(r) ==
  \/ \E ch \in Change : StartUpdate(r, ch)
  \/ StartClear(r) \/ StartApply(r) \/ StartStart(r)
  \/ MergePending(r) \/ WriteClear(r) \/ Reload(r) \/ WriteApply(r) \/ Reread(r) \/ Fail(r)

\* What startBot does after this touches neither copy, and ends some day.
EndStart(r) ==
  /\ At(r, "started") /\ Set(r, Idle)
  /\ UNCHANGED <<row, pending, want>>

Next == \E r \in Reqs : Step(r) \/ EndStart(r)

Spec ==
  /\ Init /\ serial \in BOOLEAN /\ faults \in BOOLEAN
  /\ [][Next /\ UNCHANGED <<serial, faults>>]_<<vars, serial, faults>>

-----------------------------------------------------------------------------
PCs == {"idle", "merge", "clear", "apply", "reload", "reread", "started"}

\* Every variable keeps its type.
TypeOK ==
  /\ row \in [Fields -> Values] /\ want \in [Fields -> Values] /\ pending \in Change
  /\ req \in [Reqs -> [op : {"none", "update", "clear", "apply", "start"}, pc : PCs,
                       old : Change, new : Change]]

\* A saved setting is in the row or pending, whichever requests and failures
\* came after it: nothing a user saved is lost by applying, starting, saving
\* something else or failing half-way, and nothing discarded comes back.
NoUpdateLost == serial => Effective = want
=============================================================================
