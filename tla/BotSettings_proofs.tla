------------------------- MODULE BotSettings_proofs -------------------------
(***************************************************************************)
(* No saved setting of a bot is lost, for all users, fields, values, keys  *)
(* and environments: first in PendingConfig alone, whose invariant must    *)
(* say that the request under way read what is still there; then in the    *)
(* whole of startBot, which treats the settings as PendingConfig says.     *)
(* Then the provider rows, whose one primary is the key last asked for,    *)
(* and the container, which is created with those settings and that key.   *)
(***************************************************************************)
EXTENDS BotSettings, FiniteSetTheorems, SequenceTheorems, TLAPS

-----------------------------------------------------------------------------
(* PendingConfig                                                           *)

\* One request at a time, and what it read of pendingConfig is still so.
Alone ==
  /\ \A r, s \in Users : ~Config!At(r, "idle") /\ ~Config!At(s, "idle") => r = s
  /\ \A r \in Users : Config!At(r, "merge") \/ Config!At(r, "apply") => creq[r].old = pending

Kept == Config!TypeOK /\ Config!NoUpdateLost /\ (Serial => Alone)

\* Changes lie over each other: to put one over the sum of two others is to put
\* the second and then the first over it.
LEMMA OverlayTwice ==
  ASSUME NEW base \in [Fields -> Values], NEW old \in Config!Change, NEW new \in Config!Change
  PROVE  /\ Config!Overlay(base, old) \in [Fields -> Values]
         /\ Config!Overlay(old, new) \in Config!Change
         /\ Config!Overlay(base, Config!Overlay(old, new)) = Config!Overlay(Config!Overlay(base, old), new)
BY DEF Config!Overlay, Config!Change

\* Nothing over a configuration leaves it as it is.
LEMMA OverlayNothing ==
  ASSUME NEW base \in [Fields -> Values]
  PROVE  Config!Nothing \in Config!Change /\ Config!Overlay(base, Config!Nothing) = base
BY DEF Config!Overlay, Config!Nothing, Config!Change

LEMMA KeptAtFirst == Config!Init /\ Serial \in BOOLEAN => Kept
<1> SUFFICES ASSUME Config!Init PROVE Kept
  OBVIOUS
<1>1. Config!TypeOK
  BY OverlayNothing DEF Config!Init, Config!TypeOK, Config!Idle, Config!PCs
<1>2. Config!Effective = want
  BY OverlayNothing DEF Config!Init, Config!Effective
<1> QED
  BY <1>1, <1>2 DEF Kept, Config!NoUpdateLost, Alone, Config!Init, Config!Idle, Config!At

\* A request comes in: it has read pendingConfig as it is.
LEMMA ArriveKeeps ==
  ASSUME Kept, NEW r \in Users, NEW new \in Config!Change,
         NEW op \in {"update", "clear", "apply", "start"}, NEW pc \in Config!PCs,
         Config!Arrive(r, op, pc, new), UNCHANGED Serial
  PROVE  Kept'
<1> USE DEF Kept
<1>1. Config!TypeOK'
  BY DEF Config!TypeOK, Config!Arrive, Config!Set
<1>2. Config!NoUpdateLost'
  BY DEF Config!NoUpdateLost, Config!Effective, Config!Arrive
<1>3. Serial => Alone'
  BY DEF Alone, Config!Arrive, Config!Set, Config!At, Config!Quiet, Config!TypeOK
<1> QED
  BY <1>1, <1>2, <1>3

\* Steps that write neither copy leave the sum as it is.
LEMMA ReadKeeps ==
  ASSUME Kept, NEW r \in Users, UNCHANGED <<row, pending, want, Serial>>,
         NEW q \in [op : {"none", "update", "clear", "apply", "start"}, pc : Config!PCs,
                    old : Config!Change, new : Config!Change],
         Config!Set(r, q), ~Config!At(r, "idle"), q.pc \in {"merge", "apply"} => q.old = pending
  PROVE  Kept'
<1> USE DEF Kept
<1>1. Config!TypeOK'
  BY DEF Config!TypeOK, Config!Set
<1>2. Config!NoUpdateLost'
  BY DEF Config!NoUpdateLost, Config!Effective
<1>3. Serial => Alone'
  BY DEF Alone, Config!Set, Config!At, Config!TypeOK
<1> QED
  BY <1>1, <1>2, <1>3

\* One step per write: what is written, and that nobody else had read.
LEMMA KeptByStep == Kept /\ [Config!Next /\ UNCHANGED <<Serial, Faults>>]_<<Config!vars, Serial, Faults>> => Kept'
<1> SUFFICES ASSUME Kept, [Config!Next /\ UNCHANGED <<Serial, Faults>>]_<<Config!vars, Serial, Faults>>
             PROVE  Kept'
  OBVIOUS
<1> USE DEF Kept
<1>1. CASE UNCHANGED <<Config!vars, Serial, Faults>>
  BY <1>1 DEF Config!vars, Config!TypeOK, Config!NoUpdateLost, Config!Effective, Alone, Config!At
<1>2. CASE UNCHANGED <<Serial, Faults>> /\ Config!Next
  <2> PICK r \in Users : Config!Step(r) \/ Config!EndStart(r)
    BY <1>2 DEF Config!Next
  <2>0. /\ Config!Nothing \in Config!Change /\ Config!Idle \in [op : {"none", "update", "clear", "apply", "start"},
                                        pc : Config!PCs, old : Config!Change, new : Config!Change]
        /\ row \in [Fields -> Values] /\ want \in [Fields -> Values] /\ pending \in Config!Change
        /\ creq[r].old \in Config!Change /\ creq[r].new \in Config!Change
    BY OverlayNothing DEF Config!TypeOK, Config!Idle, Config!PCs
  <2>1. ASSUME NEW ch \in Config!Change, Config!StartUpdate(r, ch) PROVE Kept'
    BY <1>2, <2>1, ArriveKeeps DEF Config!StartUpdate, Config!PCs
  <2>2. CASE Config!StartClear(r)
    BY <1>2, <2>0, <2>2, ArriveKeeps DEF Config!StartClear, Config!PCs
  <2>3. CASE Config!StartApply(r)
    BY <1>2, <2>0, <2>3, ArriveKeeps DEF Config!StartApply, Config!PCs
  <2>4. CASE Config!StartStart(r)
    BY <1>2, <2>0, <2>4, ArriveKeeps DEF Config!StartStart, Config!PCs
  <2>5. CASE Config!MergePending(r)
    <3>1. Config!TypeOK'
      BY <2>0, <2>5, OverlayTwice DEF Config!MergePending, Config!TypeOK, Config!Set
    <3>2. Serial => Config!Effective' = want'
      BY <2>0, <2>5, OverlayTwice DEF Config!MergePending, Config!NoUpdateLost, Config!Effective, Alone
    <3>3. Serial => Alone'
      BY <2>0, <2>5 DEF Config!MergePending, Alone, Config!Set, Config!At, Config!Idle, Config!TypeOK
    <3> QED
      BY <1>2, <3>1, <3>2, <3>3 DEF Config!NoUpdateLost
  <2>6. CASE Config!WriteClear(r)
    <3>1. Config!TypeOK'
      BY <2>0, <2>6 DEF Config!WriteClear, Config!TypeOK, Config!Set
    <3>2. Config!Effective' = want'
      BY <2>0, <2>6, OverlayNothing DEF Config!WriteClear, Config!Effective
    <3>3. Serial => Alone'
      BY <2>0, <2>6 DEF Config!WriteClear, Alone, Config!Set, Config!At, Config!Idle, Config!TypeOK
    <3> QED
      BY <1>2, <3>1, <3>2, <3>3 DEF Config!NoUpdateLost
  <2>7. CASE Config!Reload(r)
    <3> DEFINE q == [creq[r] EXCEPT !.old = pending,
                        !.pc = IF pending = Config!Nothing THEN "reread" ELSE "apply"]
    <3>1. q \in [op : {"none", "update", "clear", "apply", "start"}, pc : Config!PCs,
                  old : Config!Change, new : Config!Change]
      BY <2>0 DEF Config!TypeOK, Config!PCs
    <3>2. Config!Set(r, q) /\ q.old = pending /\ ~Config!At(r, "idle")
      BY <2>7 DEF Config!Reload, Config!At, Config!TypeOK
    <3> QED
      BY <1>2, <2>7, <3>1, <3>2, ReadKeeps DEF Config!Reload
  <2>8. CASE Config!WriteApply(r)
    <3>1. Config!TypeOK'
      <4>1. Config!Overlay(row, creq[r].old) \in [Fields -> Values]
        BY <2>0, OverlayTwice
      <4>2. creq' = [creq EXCEPT ![r].pc = "reread"] \/ creq' = [creq EXCEPT ![r] = Config!Idle]
        BY <2>8 DEF Config!WriteApply, Config!Set, Config!Goto, Config!TypeOK
      <4> QED
        BY <2>0, <2>8, <4>1, <4>2 DEF Config!WriteApply, Config!TypeOK, Config!PCs
    <3>2. Serial => Config!Effective' = want'
      BY <2>0, <2>8, OverlayTwice, OverlayNothing DEF Config!WriteApply, Config!NoUpdateLost, Config!Effective, Alone
    <3>3. Serial => Alone'
      BY <2>0, <2>8 DEF Config!WriteApply, Alone, Config!Set, Config!Goto, Config!At, Config!Idle, Config!TypeOK
    <3> QED
      BY <1>2, <3>1, <3>2, <3>3 DEF Config!NoUpdateLost
  <2>9. CASE Config!Reread(r)
    <3> DEFINE q == [creq[r] EXCEPT !.pc = "started"]
    <3>1. q \in [op : {"none", "update", "clear", "apply", "start"}, pc : Config!PCs,
                  old : Config!Change, new : Config!Change]
      BY <2>0 DEF Config!TypeOK, Config!PCs
    <3>2. Config!Set(r, q) /\ q.pc = "started" /\ ~Config!At(r, "idle")
      BY <2>9 DEF Config!Reread, Config!Goto, Config!At, Config!TypeOK
    <3> QED
      BY <1>2, <2>9, <3>1, <3>2, ReadKeeps DEF Config!Reread
  <2>10. CASE Config!Fail(r)
    BY <1>2, <2>0, <2>10, ReadKeeps DEF Config!Fail, Config!Idle
  <2>11. CASE Config!EndStart(r)
    <3>1. Config!Set(r, Config!Idle) /\ ~Config!At(r, "idle")
      BY <2>11 DEF Config!EndStart, Config!At
    <3> QED
      BY <1>2, <2>0, <2>11, <3>1, ReadKeeps DEF Config!EndStart, Config!Idle
  <2> QED
    BY <2>1, <2>2, <2>3, <2>4, <2>5, <2>6, <2>7, <2>8, <2>9, <2>10, <2>11 DEF Config!Step
<1> QED
  BY <1>1, <1>2 DEF Config!vars

\* Nothing a user saved is lost, and nothing discarded comes back, whatever
\* fails in updateBot, applyPendingConfig, clearPendingConfig and startBot.
THEOREM SettingsKept == Config!Spec => []NoUpdateLost
<1>1. Config!Init /\ Serial \in BOOLEAN => Kept
  BY KeptAtFirst
<1>2. Kept /\ [Config!Next /\ UNCHANGED <<Serial, Faults>>]_<<Config!vars, Serial, Faults>> => Kept'
  BY KeptByStep
<1>3. Kept => NoUpdateLost
  BY DEF Kept, NoUpdateLost
<1> QED
  BY <1>1, <1>2, <1>3, PTL DEF Config!Spec

-----------------------------------------------------------------------------
(* startBot                                                                *)

\* A request is in the rest of startBot only when its settings are done.
InStart ==
  /\ Kept /\ DOMAIN run = Users
  /\ \A r \in Users : Running(r, "idle") \/ creq[r].pc = "started"

LEMMA Initially ==
  SettingsInit => InStart /\ Config!Init /\ Serial \in BOOLEAN /\ Faults \in BOOLEAN
<1> SUFFICES ASSUME SettingsInit
             PROVE  InStart /\ Config!Init /\ Serial \in BOOLEAN /\ Faults \in BOOLEAN
  OBVIOUS
<1>1. Config!Init
  BY DEF SettingsInit
<1>2. Serial \in BOOLEAN /\ Faults \in BOOLEAN
  BY BotProvidersAssumption DEF SettingsInit, Init, Serial, Faults
<1>3. Kept
  BY <1>1, <1>2, KeptAtFirst
<1>4. \A r \in Users : Running(r, "idle")
  BY DEF SettingsInit, Running, Waiting
<1> QED
  BY <1>1, <1>2, <1>3, <1>4 DEF InStart, SettingsInit

\* A step of a request on the settings begins before the rest of startBot and
\* changes the request only.
LEMMA StepFrame ==
  ASSUME Kept, NEW r \in Users, Config!Step(r)
  PROVE  /\ creq[r].pc # "started"
         /\ \A s \in Users \ {r} : creq'[s] = creq[s]
<1>1. creq[r].pc # "started" /\ \E q : creq' = [creq EXCEPT ![r] = q]
  BY DEF Config!Step, Config!StartUpdate, Config!StartClear, Config!StartApply,
    Config!StartStart, Config!MergePending, Config!WriteClear, Config!Reload,
    Config!WriteApply, Config!Reread, Config!Fail, Config!Arrive, Config!At,
    Config!Set, Config!Goto, Config!Idle
<1> QED
  BY <1>1 DEF Kept, Config!TypeOK

LEMMA StepImplements ==
  InStart /\ [SettingsNext /\ UNCHANGED world]_<<all, world>> =>
    InStart' /\ UNCHANGED <<Serial, Faults>> /\ (Config!Next \/ UNCHANGED Config!vars)
<1> SUFFICES ASSUME InStart, [SettingsNext /\ UNCHANGED world]_<<all, world>>
             PROVE  InStart' /\ UNCHANGED <<Serial, Faults>> /\ (Config!Next \/ UNCHANGED Config!vars)
  OBVIOUS
<1>0. UNCHANGED <<Serial, Faults>> /\ Kept
  BY DEF Serial, Faults, all, InStart
<1>1. CASE UNCHANGED <<settings, run>>
  <2>1. UNCHANGED Config!vars
    BY <1>1 DEF settings, Config!vars
  <2> QED
    BY <1>0, <1>1, <2>1, KeptByStep DEF InStart, Running, settings
<1>2. ASSUME NEW r \in Users, SettingsStep(r)
      PROVE  InStart' /\ Config!Next
  <2>1. Config!Step(r) /\ Config!Next
    BY <1>2 DEF SettingsStep, Config!Next
  <2>2. PICK q : run' = IF creq'[r].pc = "started" /\ creq[r].pc # "started"
                          THEN [run EXCEPT ![r] = q] ELSE run
    BY <1>2 DEF SettingsStep
  <2>3. \A s \in Users : Running(s, "idle")' \/ creq'[s].pc = "started"
    BY <1>0, <2>1, <2>2, StepFrame DEF InStart, Running
  <2> QED
    BY <1>0, <2>1, <2>2, <2>3, KeptByStep DEF InStart
<1>3. ASSUME NEW r \in Users,
             RemoveOld(r) \/ FindPrimary(r) \/ FindKey(r) \/ FindRuntime(r) \/ ResolveVendor(r)
      PROVE  InStart' /\ UNCHANGED Config!vars
  <2>1. PICK q : UNCHANGED settings /\ run' = [run EXCEPT ![r] = q] /\ ~Running(r, "idle")
    BY <1>3 DEF RemoveOld, FindPrimary, FindKey, FindRuntime, ResolveVendor, Step, Running
  <2>2. UNCHANGED Config!vars
    BY <2>1 DEF settings, Config!vars
  <2> QED
    BY <1>0, <2>1, <2>2, KeptByStep DEF settings, InStart, Running
<1>4. ASSUME NEW r \in Users, CreateContainer(r) \/ FailStart(r)
      PROVE  InStart' /\ Config!Next
  <2>1. /\ creq[r].pc = "started" /\ run' = [run EXCEPT ![r] = Waiting]
        /\ creq' = [creq EXCEPT ![r] = Config!Idle] /\ UNCHANGED <<row, pending, want>>
    BY <1>4 DEF CreateContainer, FailStart, Step, InStart, Running
  <2>2. Config!Next
    BY <2>1 DEF Config!Next, Config!EndStart, Config!At, Config!Set
  <2> QED
    BY <1>0, <2>1, <2>2, KeptByStep DEF InStart, Running, Waiting
<1> QED
  BY <1>0, <1>1, <1>2, <1>3, <1>4 DEF SettingsNext, ProvidersStep, all

\* In every environment the settings of a bot are changed as PendingConfig says,
\* whatever startBot, provider requests, failures and crashes do beside.
THEOREM Refines == SettingsSpec => KeepsToConfig
<1>1. SettingsInit => InStart /\ Config!Init /\ Serial \in BOOLEAN /\ Faults \in BOOLEAN
  BY Initially
<1>2. InStart /\ [SettingsNext /\ UNCHANGED world]_<<all, world>> =>
        /\ InStart'
        /\ [Config!Next /\ UNCHANGED <<Serial, Faults>>]_<<Config!vars, Serial, Faults>>
  BY StepImplements
<1> QED
  BY <1>1, <1>2, PTL DEF SettingsSpec, KeepsToConfig, Config!Spec

\* No saved setting is lost while containers are created, provider rows and
\* keys come and go, and starts fail.
THEOREM SettingsSurviveStarts == SettingsSpec => []NoUpdateLost
BY Refines, SettingsKept, PTL DEF KeepsToConfig

-----------------------------------------------------------------------------
(* The provider rows                                                       *)

\* createBot makes every key of the primary vendor primary: no two keys of a
\* vendor, no two primaries.
DistinctVendors == \A k, l \in Keys : Vendor[k] = Vendor[l] => k = l

Request ==
  [pc : {"idle", "seed", "check", "list", "unset", "create", "remove"},
   key : Keys \cup {None}, primary : BOOLEAN, todo : Seq(Keys \cup {None}),
   main : {Vendor[k] : k \in Keys} \cup {None}]

\* What each request brought along or has found out so far.
RowsTyped ==
  /\ link \in [Keys -> {"no", "yes", "primary"}]
  /\ keys \subseteq Keys /\ born \in BOOLEAN /\ asked \in Keys \cup {None}
  /\ world \in Worlds /\ req \in [Reqs -> Request]
  /\ \A r \in Reqs :
       /\ At(r, "seed") => req[r].todo \in Seq(Keys)
       /\ req[r].pc \in {"seed", "unset"} => req[r].todo # <<>>
       /\ req[r].pc \notin {"idle", "seed"} => req[r].key \in Keys
       /\ req[r].pc \in {"list", "unset"} => req[r].primary
  /\ ~born => /\ \A k \in Keys : link[k] = "no"
              /\ asked = None
              /\ \A r \in Reqs : At(r, "idle")

OnePrimary == \A k, l \in Primaries : k = l

\* A request that makes its key primary has unset the one before.
Replacing(r) == req[r].pc \in {"unset", "create"} /\ req[r].primary

Newest == Primaries = IF asked = None THEN {} ELSE {asked}

\* One by one, what a request found out is still so when it writes.
RowsInTurn ==
  /\ \A r, s \in Reqs : ~At(r, "idle") /\ ~At(s, "idle") => r = s
  /\ OnePrimary
  /\ \A r \in Reqs :
       /\ At(r, "seed") => \A k \in Primaries : Vendor[k] = req[r].main
       /\ req[r].pc \in {"list", "unset", "create"} => link[req[r].key] = "no"
       /\ At(r, "unset") => \E k \in Keys : req[r].todo = <<k>> /\ Primaries = {k}
       /\ At(r, "create") /\ req[r].primary => Primaries = {}
  /\ ~Faults /\ (\A r \in Reqs : ~Replacing(r)) => Newest

Rows == RowsTyped /\ (Serial /\ DistinctVendors => RowsInTurn)

\* While a start is under way nothing is changed beside it: it has the row with
\* all that was saved, and the primary key.
Prepared(r) ==
  /\ creq[r].pc \in {"reread", "started"} => pending = Config!Nothing
  /\ ~Running(r, "idle") =>
       /\ Quiet /\ run[r].conf = row
       /\ Running(r, "key") => run[r].link \in SomePrimary
       /\ ~Faults /\ run[r].pc \in {"resolve", "vendor", "create"} =>
            run[r].key = IF asked \in keys THEN asked ELSE None
       /\ run[r].key # None =>
            /\ Running(r, "resolve") => run[r].key \in Primaries \cap keys
            /\ Running(r, "vendor") => run[r].key \in keys /\ run[r].link = run[r].key
            /\ Running(r, "create") => run[r].vendor = Vendor[run[r].key]
       /\ run[r].pc \in {"remove", "primary", "key"} => run[r].key = None

StartInTurn == \A r \in Users : Prepared(r)

StartTyped ==
  /\ run \in [Users -> [pc : {"idle", "remove", "primary", "key", "resolve", "vendor", "create"},
                        conf : [Fields -> Values] \cup {None},
                        link : Keys \cup {None}, key : Keys \cup {None},
                        vendor : {Vendor[k] : k \in Keys} \cup {None}]]
  /\ \A r \in Users : /\ Running(r, "idle") = (creq[r].pc # "started")
                      /\ ~Running(r, "idle") => run[r].conf \in [Fields -> Values]
  /\ box # None => box.conf \in [EnvFields -> Values]

Started ==
  /\ InStart /\ Rows /\ StartTyped
  /\ Serial /\ DistinctVendors => StartInTurn /\ ContainerAsksItsVendor

LEMMA RowsAtFirst == Init => Rows
<1> SUFFICES ASSUME Init PROVE Rows
  OBVIOUS
<1>1. world.keys \subseteq Keys
  BY BotProvidersAssumption DEF Init
<1>2. Idle \in Request
  BY DEF Idle, Request
<1>3. Primaries = {}
  BY DEF Init, Primaries
<1> QED
  BY <1>1, <1>2, <1>3 DEF Init, Rows, RowsTyped, RowsInTurn, OnePrimary, Newest, At, Idle

\* A request that has read or written one more thing keeps what the others know.
LEMMA RowsTypedByRequest ==
  ASSUME RowsTyped, NEW r \in Reqs, NEW q \in Request, Set(r, q), born',
         link' \in [Keys -> {"no", "yes", "primary"}], asked' \in Keys \cup {None},
         UNCHANGED <<world, keys>>, born' \in BOOLEAN,
         q.pc = "seed" => q.todo \in Seq(Keys),
         q.pc \in {"seed", "unset"} => q.todo # <<>>,
         q.pc \notin {"idle", "seed"} => q.key \in Keys,
         q.pc \in {"list", "unset"} => q.primary
  PROVE  RowsTyped'
<1>1. req' \in [Reqs -> Request] /\ \A s \in Reqs : req'[s] = IF s = r THEN q ELSE req[s]
  BY DEF RowsTyped, Set
<1> QED
  BY <1>1 DEF RowsTyped, At

\* A request that moves on is one.
LEMMA RequestMoves ==
  ASSUME NEW p \in Request, NEW todo \in Seq(Keys \cup {None}),
         NEW pc \in {"idle", "seed", "check", "list", "unset", "create", "remove"}
  PROVE  /\ Idle \in Request
         /\ [p EXCEPT !.pc = pc] \in Request
         /\ [p EXCEPT !.todo = todo] \in Request
         /\ [p EXCEPT !.todo = todo, !.pc = pc] \in Request
<1>1. <<>> \in Seq(Keys \cup {None})
  OBVIOUS
<1>2. Idle \in Request
  BY <1>1 DEF Idle, Request
<1>3. [p EXCEPT !.pc = pc] \in Request
  BY DEF Request
<1>4. [p EXCEPT !.todo = todo] \in Request
  BY DEF Request
<1>5. [p EXCEPT !.todo = todo, !.pc = pc] \in Request
  BY DEF Request
<1> QED
  BY <1>2, <1>3, <1>4, <1>5

LEMMA LongTail ==
  ASSUME NEW S, NEW s \in Seq(S), s # <<>>, Len(s) # 1
  PROVE  Tail(s) # <<>>
<1>1. Len(Tail(s)) = Len(s) - 1 /\ Len(s) \in Nat
  OBVIOUS
<1>2. Len(s) # 0 /\ Len(<<>>) = 0
  BY EmptySeq
<1>3. Len(Tail(s)) # Len(<<>>)
  BY <1>1, <1>2
<1> QED
  BY <1>3, Zenon

LEMMA InsertTyped ==
  ASSUME RowsTyped, NEW k \in Keys, NEW p, Insert(k, p)
  PROVE  link' \in [Keys -> {"no", "yes", "primary"}] /\ asked' \in Keys \cup {None}
BY DEF RowsTyped, Insert, Rank

LEMMA RowsTypedByStep ==
  ASSUME RowsTyped, Next, UNCHANGED world
  PROVE  RowsTyped'
<1> USE DEF RowsTyped
<1>0. /\ world.keys \subseteq Keys /\ Idle \in Request /\ Idle.pc = "idle"
      /\ \A r \in Reqs : req[r] \in Request /\ (~At(r, "idle") => born)
  BY BotProvidersAssumption DEF Idle, Request
<1>1. ASSUME NEW r \in Reqs, NEW ks \in Providers, NEW k \in world.keys, CreateBot(r, ks, Vendor[k])
      PROVE  RowsTyped'
  <2> DEFINE q == [Idle EXCEPT !.pc = "seed", !.todo = ks, !.main = Vendor[k]]
  <2>1. ks \in Seq(Keys) /\ ks # <<>> /\ ks \in Seq(Keys \cup {None})
    <3>1. PICK n \in 1 .. 2 : ks \in [1 .. n -> world.keys]
      BY DEF Providers
    <3>2. ks \in Seq(Keys) /\ Len(ks) = n /\ Seq(Keys) \subseteq Seq(Keys \cup {None})
      BY <1>0, <3>1
    <3> QED
      BY <3>2
  <2>2. q \in Request /\ q.pc = "seed" /\ q.todo = ks
    BY <1>0, <2>1 DEF Request, Idle
  <2>3. Set(r, q) /\ born' = TRUE /\ UNCHANGED <<link, keys, asked>>
    BY <1>1 DEF CreateBot
  <2> HIDE DEF q
  <2> QED
    BY <2>1, <2>2, <2>3, RowsTypedByRequest
<1>2. ASSUME NEW r \in Reqs, NEW k \in world.keys, NEW p \in BOOLEAN, StartAdd(r, k, p)
      PROVE  RowsTyped'
  <2> DEFINE q == [Idle EXCEPT !.pc = "check", !.key = k, !.primary = p]
  <2>1. q \in Request /\ q.pc = "check" /\ q.key \in Keys
    BY <1>0 DEF Request, Idle
  <2>2. Set(r, q) /\ born' = TRUE /\ born' \in BOOLEAN /\ UNCHANGED <<link, keys, asked>>
    BY <1>2 DEF StartAdd
  <2> HIDE DEF q
  <2> QED
    BY <2>1, <2>2, RowsTypedByRequest
<1>3. ASSUME NEW r \in Reqs, NEW k \in Keys, StartRemove(r, k)
      PROVE  RowsTyped'
  <2> DEFINE q == [Idle EXCEPT !.pc = "remove", !.key = k]
  <2>1. q \in Request /\ q.pc = "remove" /\ q.key \in Keys
    BY <1>0 DEF Request, Idle
  <2>2. Set(r, q) /\ born' = TRUE /\ UNCHANGED <<link, keys, asked>>
    BY <1>3 DEF StartRemove
  <2> HIDE DEF q
  <2> QED
    BY <2>1, <2>2, RowsTypedByRequest
<1>4. ASSUME NEW r \in Reqs, SeedProvider(r)
      PROVE  RowsTyped'
  <2> DEFINE k == Head(req[r].todo)
             q == IF Len(req[r].todo) = 1 THEN Idle ELSE [req[r] EXCEPT !.todo = Tail(@)]
  <2>0. born /\ req[r].todo \in Seq(Keys) /\ req[r].todo # <<>> /\ req[r].pc = "seed"
    BY <1>0, <1>4 DEF SeedProvider, At
  <2>1. k \in Keys
    BY <2>0
  <2>2. link' \in [Keys -> {"no", "yes", "primary"}] /\ asked' \in Keys \cup {None}
    BY <1>4, <2>1, InsertTyped DEF SeedProvider
  <2>3. Tail(req[r].todo) \in Seq(Keys) /\ Tail(req[r].todo) \in Seq(Keys \cup {None})
    BY <2>0
  <2>4. Len(req[r].todo) # 1 => Tail(req[r].todo) # <<>>
    BY <2>0, LongTail
  <2>5. /\ q \in Request /\ q.pc \in {"idle", "seed"}
        /\ q.pc = "seed" => q.todo \in Seq(Keys) /\ q.todo # <<>>
    <3>1. req[r] \in Request
      BY <1>0
    <3>2. [req[r] EXCEPT !.todo = Tail(req[r].todo)] \in Request /\ Idle \in Request
      BY ONLY <2>3, <3>1, RequestMoves
    <3>3. /\ q.pc = IF Len(req[r].todo) = 1 THEN "idle" ELSE req[r].pc
          /\ Len(req[r].todo) # 1 => q.todo = Tail(req[r].todo)
      BY <3>1 DEF Request, Idle
    <3> QED
      BY <2>0, <2>3, <2>4, <3>2, <3>3
  <2>6. Set(r, q) /\ UNCHANGED <<keys, born>>
    BY <1>4 DEF SeedProvider
  <2> HIDE DEF q, k
  <2> QED
    BY <2>0, <2>2, <2>5, <2>6, RowsTypedByRequest
<1>5. ASSUME NEW r \in Reqs, CheckLink(r)
      PROVE  RowsTyped'
  <2>1. PICK q : /\ Set(r, q)
                 /\ \/ q = Idle
                    \/ q = [req[r] EXCEPT !.pc = "list"] /\ req[r].primary
                    \/ q = [req[r] EXCEPT !.pc = "create"]
    BY <1>5, Zenon DEF CheckLink, Goto
  <2>2. born /\ req[r].key \in Keys /\ UNCHANGED <<link, keys, born, asked>>
    BY <1>0, <1>5 DEF CheckLink, At
  <2>3. q \in Request /\ q.pc \in {"idle", "list", "create"} /\ (q.pc # "idle" => q.key \in Keys)
        /\ (q.pc = "list" => q.primary)
    <3>1. req[r] \in Request /\ req[r].todo \in Seq(Keys \cup {None})
      BY <1>0 DEF Request
    <3>2. Idle \in Request /\ [req[r] EXCEPT !.pc = "list"] \in Request
      BY <3>1, RequestMoves
    <3>3. [req[r] EXCEPT !.pc = "create"] \in Request
      BY <3>1, RequestMoves
    <3>4. \/ q.pc = "idle"
          \/ q.pc = "list" /\ q.key = req[r].key /\ q.primary
          \/ q.pc = "create" /\ q.key = req[r].key
      <4> HIDE DEF RowsTyped
      <4>1. CASE q = [req[r] EXCEPT !.pc = "list"] /\ req[r].primary
        BY <3>1, <4>1 DEF Request
      <4>2. CASE q = [req[r] EXCEPT !.pc = "create"]
        BY <3>1, <4>2 DEF Request
      <4> QED
        BY <2>1, <4>1, <4>2 DEF Idle
    <3> QED
      BY <2>1, <2>2, <3>2, <3>3, <3>4
  <2> QED
    BY <2>1, <2>2, <2>3, RowsTypedByRequest
<1>6. ASSUME NEW r \in Reqs, ListPrimaries(r)
      PROVE  RowsTyped'
  <2>1. PICK s \in [1 .. Cardinality(Primaries) -> Primaries] :
             Set(r, [req[r] EXCEPT !.todo = s, !.pc = IF s = <<>> THEN "create" ELSE "unset"])
    BY <1>6 DEF ListPrimaries
  <2>2. s \in Seq(Keys \cup {None})
    <3>1. Primaries \subseteq Keys /\ Cardinality(Primaries) \in Nat
      BY FS_Subset, FS_CardinalityType, BotProvidersAssumption DEF Primaries
    <3> QED
      BY <3>1
  <2> DEFINE q == [req[r] EXCEPT !.todo = s, !.pc = IF s = <<>> THEN "create" ELSE "unset"]
  <2>3. req[r].primary /\ req[r].key \in Keys /\ born
    BY <1>0, <1>6 DEF ListPrimaries, At
  <2>4. /\ q \in Request /\ q.pc \in {"create", "unset"} /\ q.key \in Keys /\ q.primary
        /\ q.pc = "unset" => q.todo # <<>>
    <3>1. req[r] \in Request
      BY <1>0
    <3> DEFINE pc == IF s = <<>> THEN "create" ELSE "unset"
    <3>2. pc \in {"create", "unset"} /\ (pc = "unset" => s # <<>>)
      OBVIOUS
    <3> HIDE DEF pc
    <3>3. [req[r] EXCEPT !.todo = s, !.pc = pc] \in Request
      BY ONLY <2>2, <3>1, <3>2, RequestMoves
    <3>4. q = [req[r] EXCEPT !.todo = s, !.pc = pc]
      BY DEF pc
    <3>5. q.pc = pc /\ q.todo = s /\ q.key = req[r].key /\ q.primary = req[r].primary
      BY <3>1, <3>4 DEF Request
    <3> HIDE DEF q
    <3> QED
      BY <2>3, <3>2, <3>3, <3>4, <3>5
  <2>5. Set(r, q) /\ UNCHANGED <<link, keys, born, asked>>
    BY <1>6, <2>1 DEF ListPrimaries
  <2> HIDE DEF q
  <2> QED
    BY <2>3, <2>4, <2>5, RowsTypedByRequest
<1>7. ASSUME NEW r \in Reqs, UnsetPrimary(r)
      PROVE  RowsTyped'
  <2> DEFINE k == Head(req[r].todo)
             q == IF k = None THEN Idle
                  ELSE [req[r] EXCEPT !.todo = Tail(@),
                                      !.pc = IF Len(req[r].todo) = 1 THEN "create" ELSE "unset"]
  <2>0. /\ born /\ req[r].key \in Keys /\ req[r].todo \in Seq(Keys \cup {None}) /\ req[r].todo # <<>>
        /\ req[r].primary
    BY <1>0, <1>7 DEF UnsetPrimary, At, Request
  <2>1. Tail(req[r].todo) \in Seq(Keys \cup {None}) /\ (Len(req[r].todo) # 1 => Tail(req[r].todo) # <<>>)
    BY <2>0, LongTail
  <2>2. Set(r, q) /\ UNCHANGED <<keys, born, asked>> /\ link' \in [Keys -> {"no", "yes", "primary"}]
    BY <1>7 DEF UnsetPrimary
  <2>3. /\ q \in Request /\ q.pc \in {"idle", "create", "unset"} /\ (q.pc # "idle" => q.key \in Keys /\ q.primary)
        /\ q.pc = "unset" => q.todo # <<>>
    <3> DEFINE pc == IF Len(req[r].todo) = 1 THEN "create" ELSE "unset"
               todo == Tail(req[r].todo)
    <3>1. req[r] \in Request /\ todo \in Seq(Keys \cup {None})
      BY <1>0, <2>1
    <3>2. pc \in {"create", "unset"} /\ (pc = "unset" => todo # <<>>)
      BY <2>1
    <3>3. q = IF k = None THEN Idle ELSE [req[r] EXCEPT !.todo = todo, !.pc = pc]
      OBVIOUS
    <3> HIDE DEF pc, todo, q
    <3>4. [req[r] EXCEPT !.todo = todo, !.pc = pc] \in Request /\ Idle \in Request
      BY ONLY <3>1, <3>2, RequestMoves
    <3>5. k # None => q.pc = pc /\ q.todo = todo /\ q.key = req[r].key /\ q.primary = req[r].primary
      BY ONLY <3>1, <3>3 DEF Request
    <3>6. k = None => q.pc = "idle"
      BY ONLY <3>3 DEF Idle
    <3> QED
      BY <2>0, <3>2, <3>3, <3>4, <3>5, <3>6
  <2> HIDE DEF q
  <2> QED
    BY <2>0, <2>2, <2>3, RowsTypedByRequest
<1>8. ASSUME NEW r \in Reqs, CreateLink(r)
      PROVE  RowsTyped'
  <2>1. born /\ req[r].key \in Keys /\ req[r].primary \in BOOLEAN
    BY <1>0, <1>8 DEF CreateLink, At, Request
  <2>2. Set(r, Idle) /\ UNCHANGED <<keys, born>> /\ Insert(req[r].key, req[r].primary)
    BY <1>8 DEF CreateLink
  <2> QED
    BY <1>0, <2>1, <2>2, InsertTyped, RowsTypedByRequest
<1>9. ASSUME NEW r \in Reqs, RemoveLink(r)
      PROVE  RowsTyped'
  <2> DEFINE k == req[r].key
  <2>1. k \in Keys /\ born
    BY <1>0, <1>9 DEF RemoveLink, At
  <2>2. ASSUME NEW s \in Reqs
        PROVE  /\ Forget(req[s], k) \in Request
               /\ Forget(req[s], k) = Idle \/ Forget(req[s], k) = req[s]
                  \/ \E t \in Seq(Keys \cup {None}) \ {<<>>} :
                       req[s].pc = "unset" /\ Forget(req[s], k) = [req[s] EXCEPT !.todo = t]
    <3> DEFINE t == [n \in DOMAIN req[s].todo |-> IF req[s].todo[n] = k THEN None ELSE req[s].todo[n]]
    <3>1. req[s].todo \in Seq(Keys \cup {None})
      BY <1>0 DEF Request
    <3>2. CASE req[s].pc = "unset"
      <4>1. t \in Seq(Keys \cup {None}) /\ t # <<>>
        BY <3>1, <3>2, <2>1
      <4>2. Forget(req[s], k) = [req[s] EXCEPT !.todo = t]
        BY <3>2 DEF Forget
      <4> HIDE DEF t
      <4> QED
        BY <1>0, <3>2, <4>1, <4>2 DEF Request
    <3>3. CASE req[s].pc # "unset"
      BY <1>0, <3>3 DEF Forget
    <3> QED
      BY <3>2, <3>3
  <2>3. /\ req' = [s \in Reqs |-> Forget(req[s], k)] /\ UNCHANGED <<keys, born>>
        /\ link' \in [Keys -> {"no", "yes", "primary"}] /\ asked' \in Keys \cup {None}
    BY <1>9 DEF RemoveLink
  <2>4. ASSUME NEW s \in Reqs
        PROVE  /\ At(s, "seed")' => req'[s].todo \in Seq(Keys)
               /\ req'[s].pc \in {"seed", "unset"} => req'[s].todo # <<>>
               /\ req'[s].pc \notin {"idle", "seed"} => req'[s].key \in Keys
               /\ req'[s].pc \in {"list", "unset"} => req'[s].primary
    <3>1. req'[s] = Forget(req[s], k) /\ req[s] \in Request
      BY <2>3
    <3>2. CASE Forget(req[s], k) = Idle \/ Forget(req[s], k) = req[s]
      BY <1>0, <3>1, <3>2 DEF At
    <3>3. CASE \E t \in Seq(Keys \cup {None}) \ {<<>>} :
                 req[s].pc = "unset" /\ Forget(req[s], k) = [req[s] EXCEPT !.todo = t]
      BY <3>1, <3>3 DEF At, Request
    <3> QED
      BY <2>2, <3>2, <3>3
  <2>5. req' \in [Reqs -> Request]
    BY <2>2, <2>3
  <2> QED
    BY <2>1, <2>3, <2>4, <2>5
<1>10. ASSUME NEW r \in Reqs, Fail(r)
       PROVE  RowsTyped'
  BY <1>0, <1>10, RowsTypedByRequest DEF Fail
<1>11. ASSUME NEW k \in Keys, AddKey(k) \/ DeleteKey(k)
       PROVE  RowsTyped'
  BY <1>11 DEF AddKey, DeleteKey, At
<1> QED
  BY <1>1, <1>2, <1>3, <1>4, <1>5, <1>6, <1>7, <1>8, <1>9, <1>10, <1>11 DEF Next
\* The rows when requests come one by one: only the request that took the step
\* has anything to answer for.
LEMMA InTurnByRequest ==
  ASSUME RowsTyped, RowsInTurn, NEW r \in Reqs, ~At(r, "idle") \/ Quiet,
         NEW q \in Request, Set(r, q), UNCHANGED world,
         OnePrimary',
         q.pc = "seed" => \A k \in Primaries' : Vendor[k] = q.main,
         q.pc \in {"list", "unset", "create"} => link'[q.key] = "no",
         q.pc = "unset" => \E k \in Keys : q.todo = <<k>> /\ Primaries' = {k},
         q.pc = "create" /\ q.primary => Primaries' = {},
         ~Faults /\ ~(q.pc \in {"unset", "create"} /\ q.primary) => Newest'
  PROVE  RowsInTurn'
<1>1. \A s \in Reqs : s # r => At(s, "idle") /\ At(s, "idle")'
  BY DEF RowsTyped, RowsInTurn, Quiet, Set, At
<1>2. req'[r] = q /\ Faults' = Faults
  BY DEF RowsTyped, Set, Faults
<1>3. \A s, t \in Reqs : ~At(s, "idle")' /\ ~At(t, "idle")' => s = t
  BY <1>1
<1>4. ASSUME NEW s \in Reqs
      PROVE  /\ At(s, "seed")' => \A k \in Primaries' : Vendor[k] = req'[s].main
             /\ req'[s].pc \in {"list", "unset", "create"} => link'[req'[s].key] = "no"
             /\ At(s, "unset")' => \E k \in Keys : req'[s].todo = <<k>> /\ Primaries' = {k}
             /\ At(s, "create")' /\ req'[s].primary => Primaries' = {}
  BY <1>1, <1>2 DEF At
<1>5. ~Faults' /\ (\A s \in Reqs : ~Replacing(s)') => Newest'
  BY <1>2 DEF Replacing
<1> QED
  BY <1>3, <1>4, <1>5 DEF RowsInTurn

\* Requests that only read leave the newest key where it is.
LEMMA NewestOfReader ==
  ASSUME RowsInTurn, NEW r \in Reqs, ~At(r, "idle") \/ Quiet, ~Replacing(r)
  PROVE  ~Faults => Newest
<1>1. \A s \in Reqs : s # r => At(s, "idle")
  BY DEF RowsInTurn, Quiet, At
<1> QED
  BY <1>1 DEF RowsInTurn, Replacing, At

LEMMA FunctionIsSeq ==
  ASSUME NEW S, NEW n \in Nat, NEW s \in [1 .. n -> S]
  PROVE  s \in Seq(S) /\ Len(s) = n
OBVIOUS

LEMMA OneElement ==
  ASSUME NEW k, NEW s \in [1 .. 1 -> {k}]
  PROVE  s = <<k>>
<1>1. s \in Seq({k}) /\ Len(s) = 1
  BY FunctionIsSeq
<1>2. <<k>> \in Seq({k}) /\ Len(<<k>>) = 1
  OBVIOUS
<1>3. s[1] \in {k}
  OBVIOUS
<1>5. <<k>>[1] = k
  OBVIOUS
<1>4. \A i \in 1 .. Len(s) : s[i] = <<k>>[i]
  BY <1>1, <1>3, <1>5
<1> QED
  BY <1>1, <1>2, <1>4, SeqEqual

LEMMA InsertInTurn ==
  ASSUME RowsTyped, NEW k \in Keys, NEW p, Insert(k, p)
  PROVE  /\ link[k] # "no" => Primaries' = Primaries /\ asked' = asked
         /\ link[k] = "no" /\ p => Primaries' = Primaries \cup {k} /\ asked' = k
         /\ link[k] = "no" /\ ~p => Primaries' = Primaries /\ asked' = asked
BY DEF RowsTyped, Insert, Rank, Primaries

LEMMA RowsInTurnByStep ==
  ASSUME RowsTyped, RowsInTurn, Serial, DistinctVendors, Next, UNCHANGED world
  PROVE  RowsInTurn'
<1>0. /\ world.keys \subseteq Keys /\ Idle \in Request /\ Idle.pc = "idle"
      /\ \A r \in Reqs : req[r] \in Request
      /\ Primaries \subseteq Keys /\ OnePrimary /\ None \notin Keys
  BY BotProvidersAssumption DEF RowsTyped, RowsInTurn, Idle, Request, Primaries
<1>1. ASSUME NEW r \in Reqs, NEW ks \in Providers, NEW k \in world.keys, CreateBot(r, ks, Vendor[k])
      PROVE  RowsInTurn'
  <2> DEFINE q == [Idle EXCEPT !.pc = "seed", !.todo = ks, !.main = Vendor[k]]
  <2>1. ks \in Seq(Keys \cup {None})
    <3>1. PICK n \in 1 .. 2 : ks \in [1 .. n -> world.keys]
      BY DEF Providers
    <3> QED
      BY <1>0, <3>1
  <2>2. q \in Request /\ q.pc = "seed"
    BY <1>0, <2>1 DEF Request, Idle
  <2>3. Set(r, q) /\ Quiet /\ UNCHANGED <<link, asked>> /\ Primaries = {} /\ asked = None
    BY <1>1 DEF CreateBot, MayStart, RowsTyped, Primaries
  <2>4. OnePrimary' /\ Primaries' = {} /\ Newest'
    BY <2>3 DEF OnePrimary, Primaries, Newest
  <2> HIDE DEF q
  <2> QED
    BY <2>2, <2>3, <2>4, InTurnByRequest
<1>2. ASSUME NEW r \in Reqs, NEW q \in Request, Set(r, q), ~At(r, "idle") \/ Quiet, ~Replacing(r),
             q.pc \in {"idle", "check", "remove", "list", "create"},
             q.pc \in {"list", "create"} => link[q.key] = "no",
             q.pc = "create" => ~q.primary, UNCHANGED <<link, asked>>
      PROVE  RowsInTurn'
  <2>1. OnePrimary' /\ (~Faults => Newest')
    BY <1>0, <1>2, NewestOfReader DEF OnePrimary, Newest, Primaries
  <2> QED
    BY <1>2, <2>1, InTurnByRequest
<1>3. ASSUME NEW r \in Reqs,
             \/ \E k \in world.keys, p \in BOOLEAN : StartAdd(r, k, p)
             \/ \E k \in Keys : StartRemove(r, k)
             \/ CheckLink(r)
      PROVE  RowsInTurn'
  <2>1. PICK q : /\ Set(r, q) /\ UNCHANGED <<link, asked>> /\ (~At(r, "idle") \/ Quiet) /\ ~Replacing(r)
                 /\ \/ \E k \in Keys, p \in BOOLEAN : q = [Idle EXCEPT !.pc = "check", !.key = k, !.primary = p]
                    \/ \E k \in Keys : q = [Idle EXCEPT !.pc = "remove", !.key = k]
                    \/ q = Idle
                    \/ q = [req[r] EXCEPT !.pc = "list"] /\ link[req[r].key] = "no"
                    \/ q = [req[r] EXCEPT !.pc = "create"] /\ ~req[r].primary /\ link[req[r].key] = "no"
    <3>1. ASSUME NEW k \in world.keys, NEW p \in BOOLEAN, StartAdd(r, k, p)
          PROVE  /\ Set(r, [Idle EXCEPT !.pc = "check", !.key = k, !.primary = p])
                 /\ UNCHANGED <<link, asked>> /\ Quiet /\ ~Replacing(r) /\ k \in Keys
      BY <1>0, <3>1 DEF StartAdd, MayStart, Replacing, At
    <3>2. ASSUME NEW k \in Keys, StartRemove(r, k)
          PROVE  /\ Set(r, [Idle EXCEPT !.pc = "remove", !.key = k])
                 /\ UNCHANGED <<link, asked>> /\ Quiet /\ ~Replacing(r)
      BY <3>2 DEF StartRemove, MayStart, Replacing, At
    <3>3. CASE CheckLink(r)
      <4>1. UNCHANGED <<link, asked>> /\ ~At(r, "idle") /\ ~Replacing(r)
        BY <3>3 DEF CheckLink, Replacing, At
      <4>2. CASE link[req[r].key] # "no"
        BY <3>3, <4>1, <4>2 DEF CheckLink
      <4>3. CASE link[req[r].key] = "no"
        BY <3>3, <4>1, <4>3 DEF CheckLink, Goto
      <4> QED
        BY <4>2, <4>3
    <3>4. CASE \E k \in world.keys, p \in BOOLEAN : StartAdd(r, k, p)
      BY <3>1, <3>4
    <3>5. CASE \E k \in Keys : StartRemove(r, k)
      BY <3>2, <3>5
    <3> QED
      BY ONLY <1>3, <3>3, <3>4, <3>5
  <2>2. q \in Request /\ q.pc \in {"idle", "check", "remove", "list", "create"}
        /\ (q.pc \in {"list", "create"} => link[q.key] = "no") /\ (q.pc = "create" => ~q.primary)
    <3> HIDE DEF RowsTyped
    <3>1. CASE \E k \in Keys, p \in BOOLEAN : q = [Idle EXCEPT !.pc = "check", !.key = k, !.primary = p]
      BY <1>0, <3>1 DEF Request
    <3>2. CASE \E k \in Keys : q = [Idle EXCEPT !.pc = "remove", !.key = k]
      BY <1>0, <3>2 DEF Request
    <3>3. CASE q = [req[r] EXCEPT !.pc = "list"] /\ link[req[r].key] = "no"
      BY <1>0, <3>3 DEF Request
    <3>4. CASE q = [req[r] EXCEPT !.pc = "create"] /\ ~req[r].primary /\ link[req[r].key] = "no"
      BY <1>0, <3>4 DEF Request
    <3> QED
      BY <1>0, <2>1, <3>1, <3>2, <3>3, <3>4
  <2> QED
    BY <1>2, <2>1, <2>2
<1>4. ASSUME NEW r \in Reqs, SeedProvider(r)
      PROVE  RowsInTurn'
  <2> DEFINE k == Head(req[r].todo)
             q == IF Len(req[r].todo) = 1 THEN Idle ELSE [req[r] EXCEPT !.todo = Tail(@)]
             p == Vendor[k] = req[r].main
  <2>0. /\ req[r].todo \in Seq(Keys) /\ req[r].todo # <<>> /\ req[r].pc = "seed"
        /\ \A l \in Primaries : Vendor[l] = req[r].main
        /\ ~At(r, "idle") /\ ~Replacing(r)
    BY <1>4 DEF SeedProvider, At, RowsTyped, RowsInTurn, Replacing
  <2>1. k \in Keys /\ Tail(req[r].todo) \in Seq(Keys \cup {None})
    BY <2>0
  <2>2. q \in Request /\ q.pc \in {"idle", "seed"} /\ (q.pc = "seed" => q.main = req[r].main)
    BY <1>0, <2>0, <2>1 DEF Request
  <2>3. Set(r, q) /\ (Insert(k, p) \/ (Faults /\ UNCHANGED <<link, asked>>))
    BY <1>4 DEF SeedProvider
  <2>4. ~Faults => Newest
    BY <2>0, NewestOfReader
  <2>5. \/ Primaries' = Primaries /\ (Faults \/ asked' = asked)
        \/ Primaries' = {k} /\ asked' = k /\ p
    <3>1. CASE Faults /\ UNCHANGED <<link, asked>>
      BY <3>1 DEF Primaries
    <3>2. CASE Insert(k, p) /\ link[k] = "no" /\ p
      <4>1. Primaries = {}
        BY <1>0, <2>0, <2>1, <3>2 DEF DistinctVendors, Primaries
      <4> QED
        BY <2>1, <3>2, <4>1, InsertInTurn
    <3>3. CASE Insert(k, p) /\ ~(link[k] = "no" /\ p)
      BY <2>1, <3>3, InsertInTurn
    <3> QED
      BY <2>3, <3>1, <3>2, <3>3
  <2> HIDE DEF k, q
  <2>6. OnePrimary' /\ (\A l \in Primaries' : Vendor[l] = req[r].main) /\ (~Faults => Newest')
    BY <1>0, <2>0, <2>1, <2>4, <2>5 DEF OnePrimary, Newest
  <2> QED
    BY <2>0, <2>2, <2>3, <2>6, InTurnByRequest DEF Next
<1>5. ASSUME NEW r \in Reqs, ListPrimaries(r)
      PROVE  RowsInTurn'
  <2>1. PICK s \in [1 .. Cardinality(Primaries) -> Primaries] :
             Set(r, [req[r] EXCEPT !.todo = s, !.pc = IF s = <<>> THEN "create" ELSE "unset"])
    BY <1>5 DEF ListPrimaries
  <2> DEFINE q == [req[r] EXCEPT !.todo = s, !.pc = IF s = <<>> THEN "create" ELSE "unset"]
  <2>2. /\ ~At(r, "idle") /\ UNCHANGED <<link, asked>> /\ req[r].primary
        /\ link[req[r].key] = "no"
    BY <1>5 DEF ListPrimaries, At, RowsTyped, RowsInTurn
  <2>3. \/ s = <<>> /\ Primaries = {}
        \/ \E k \in Keys : s = <<k>> /\ Primaries = {k}
    <3>1. CASE Primaries = {}
      BY <2>1, <3>1, FS_EmptySet, EmptySeq
    <3>2. ASSUME NEW k \in Primaries PROVE s = <<k>> /\ Primaries = {k} /\ k \in Keys
      <4>1. Primaries = {k} /\ k \in Keys
        BY <1>0, <3>2 DEF OnePrimary
      <4>2. Cardinality({k}) = 1
        BY FS_Singleton
      <4>3. s \in [1 .. 1 -> {k}]
        BY <2>1, <4>1, <4>2
      <4>4. s = <<k>>
        BY <4>3, OneElement
      <4> QED
        BY <4>1, <4>4
    <3> QED
      BY <3>1, <3>2
  <2>4. s \in Seq(Keys \cup {None}) /\ (\A k \in Keys : <<k>> # <<>>)
    <3>1. ASSUME NEW k \in Keys PROVE <<k>> \in Seq(Keys \cup {None}) /\ <<k>> # <<>>
      <4>1. <<k>> \in Seq(Keys \cup {None}) /\ Len(<<k>>) = 1
        OBVIOUS
      <4> QED
        BY <4>1, EmptySeq
    <3> QED
      BY <2>3, <3>1, EmptySeq
  <2>5. /\ q \in Request /\ q.pc \in {"create", "unset"} /\ q.key = req[r].key /\ q.primary
        /\ q.todo = s /\ (q.pc = "create" <=> s = <<>>)
    BY <1>0, <2>2, <2>4 DEF Request
  <2>6. Primaries' = Primaries /\ OnePrimary'
    BY <1>0, <2>2 DEF Primaries, OnePrimary
  <2>7. Set(r, q)
    BY <2>1
  <2> HIDE DEF q
  <2> QED
    BY <2>2, <2>3, <2>4, <2>5, <2>6, <2>7, InTurnByRequest
<1>6. ASSUME NEW r \in Reqs, UnsetPrimary(r)
      PROVE  RowsInTurn'
  <2>1. PICK k \in Keys : req[r].todo = <<k>> /\ Primaries = {k}
    BY <1>6 DEF UnsetPrimary, At, RowsInTurn
  <2>2. ~At(r, "idle") /\ link[req[r].key] = "no" /\ req[r].primary /\ req[r].key \in Keys
    BY <1>6 DEF UnsetPrimary, At, RowsInTurn, RowsTyped
  <2>3. Head(<<k>>) = k /\ Len(<<k>>) = 1 /\ Tail(<<k>>) = <<>>
    OBVIOUS
  <2> DEFINE q == [req[r] EXCEPT !.todo = <<>>, !.pc = "create"]
  <2>4. Set(r, q) /\ link' = [link EXCEPT ![k] = "yes"]
    BY <1>0, <1>6, <2>1, <2>3 DEF UnsetPrimary
  <2>5. q \in Request /\ q.pc = "create" /\ q.primary /\ q.key = req[r].key
    BY <1>0, <2>2, EmptySeq DEF Request
  <2>6. Primaries' = {} /\ link'[req[r].key] = "no"
    BY <2>1, <2>2, <2>4 DEF Primaries, RowsTyped
  <2>7. OnePrimary'
    BY <2>6 DEF OnePrimary
  <2> HIDE DEF q
  <2> QED
    BY <2>2, <2>4, <2>5, <2>6, <2>7, InTurnByRequest
<1>7. ASSUME NEW r \in Reqs, CreateLink(r)
      PROVE  RowsInTurn'
  <2> DEFINE k == req[r].key
  <2>1. /\ k \in Keys /\ link[k] = "no" /\ ~At(r, "idle") /\ (req[r].primary => Primaries = {})
        /\ (~req[r].primary => ~Replacing(r))
    BY <1>7 DEF CreateLink, At, RowsTyped, RowsInTurn, Replacing
  <2>2. ~req[r].primary /\ ~Faults => Newest
    BY <2>1, NewestOfReader
  <2>3. Set(r, Idle) /\ Insert(k, req[r].primary)
    BY <1>7 DEF CreateLink
  <2>4. \/ req[r].primary /\ Primaries' = {k} /\ asked' = k
        \/ ~req[r].primary /\ Primaries' = Primaries /\ asked' = asked
    BY <2>1, <2>3, InsertInTurn
  <2> HIDE DEF k
  <2>5. OnePrimary' /\ (~Faults => Newest')
    BY <1>0, <2>1, <2>2, <2>4 DEF OnePrimary, Newest
  <2> QED
    BY <1>0, <2>1, <2>3, <2>5, InTurnByRequest
<1>8. ASSUME NEW r \in Reqs, RemoveLink(r)
      PROVE  RowsInTurn'
  <2> DEFINE k == req[r].key
  <2>1. k \in Keys /\ ~At(r, "idle") /\ req[r].pc = "remove" /\ ~Replacing(r)
    BY <1>8 DEF RemoveLink, At, RowsTyped, Replacing
  <2>2. Set(r, Idle)
    <3>1. \A s \in Reqs : s # r => req[s].pc = "idle"
      BY <2>1 DEF RowsInTurn, At
    <3>2. \A s \in Reqs : Forget(req[s], k) = IF s = r THEN Idle ELSE req[s]
      BY <2>1, <3>1 DEF Forget
    <3> QED
      BY <1>8, <3>2 DEF RemoveLink, Set, RowsTyped
  <2>3. Primaries' = Primaries \ {k} /\ asked' = IF asked = k THEN None ELSE asked
    BY <1>8, <2>1 DEF RemoveLink, Primaries, RowsTyped
  <2>4. ~Faults => Newest
    BY <2>1, NewestOfReader
  <2> HIDE DEF k
  <2>5. OnePrimary' /\ (~Faults => Newest')
    BY <1>0, <2>1, <2>3, <2>4 DEF OnePrimary, Newest
  <2> QED
    BY <1>0, <2>1, <2>2, <2>5, InTurnByRequest
<1>9. ASSUME NEW r \in Reqs, Fail(r)
      PROVE  RowsInTurn'
  <2>1. Faults /\ ~At(r, "idle") /\ Set(r, Idle) /\ UNCHANGED <<link, asked>>
    BY <1>9 DEF Fail
  <2>2. OnePrimary'
    BY <1>0, <2>1 DEF OnePrimary, Primaries
  <2> QED
    BY <1>0, <2>1, <2>2, InTurnByRequest
<1>10. ASSUME NEW k \in Keys, AddKey(k) \/ DeleteKey(k)
       PROVE  RowsInTurn'
  BY <1>10 DEF AddKey, DeleteKey, At, RowsInTurn, OnePrimary, Newest, Primaries, Replacing, Faults
<1> QED
  BY <1>1, <1>3, <1>4, <1>5, <1>6, <1>7, <1>8, <1>9, <1>10 DEF Next
LEMMA RowsByStep ==
  ASSUME Rows, Next \/ UNCHANGED vars, UNCHANGED world
  PROVE  Rows'
<1>1. CASE Next
  BY <1>1, RowsTypedByStep, RowsInTurnByStep DEF Rows, Serial
<1>2. CASE UNCHANGED vars
  BY <1>2 DEF vars, Rows, RowsTyped, RowsInTurn, OnePrimary, Newest, Replacing, Primaries,
              At, Serial, Faults
<1> QED
  BY <1>1, <1>2

-----------------------------------------------------------------------------
(* The container and what it was created with                              *)

\* A request comes to the end of its settings with nothing pending.
LEMMA NothingIsPending ==
  ASSUME Kept, Serial, NEW r \in Users, Config!Step(r),
         creq[r].pc = "reread" => pending = Config!Nothing
  PROVE  /\ creq'[r].pc \in {"reread", "started"} => pending' = Config!Nothing
         /\ creq'[r].pc = "started" => row' = row
         /\ \A s \in Users \ {r} : creq[s].pc = "idle"
<1>0. /\ creq[r].pc \in Config!PCs /\ (\A q : Config!Set(r, q) => creq'[r] = q)
      /\ \A s \in Users : creq[s].pc # "idle" /\ creq[r].pc # "idle" => s = r
      /\ \A pc : [creq[r] EXCEPT !.pc = pc].pc = pc
  BY DEF Kept, Config!TypeOK, Config!Set, Alone, Config!At
<1>1. ASSUME NEW op, NEW pc, NEW new, Config!Arrive(r, op, pc, new), pc = "started" => pending = Config!Nothing,
             pc # "reread"
      PROVE  /\ creq'[r].pc \in {"reread", "started"} => pending' = Config!Nothing
             /\ creq'[r].pc = "started" => row' = row
             /\ \A s \in Users \ {r} : creq[s].pc = "idle"
  <2>1. creq'[r].pc = pc /\ UNCHANGED <<row, pending>> /\ (\A s \in Users : creq[s].pc = "idle")
    BY <1>0, <1>1 DEF Config!Arrive, Config!Quiet, Config!At
  <2> QED
    BY <1>1, <2>1
<1>2. CASE (\E ch \in Config!Change : Config!StartUpdate(r, ch)) \/ Config!StartClear(r) \/ Config!StartApply(r)
             \/ Config!StartStart(r)
  BY <1>1, <1>2 DEF Config!StartUpdate, Config!StartClear, Config!StartApply, Config!StartStart
<1>3. CASE Config!MergePending(r) \/ Config!WriteClear(r) \/ Config!Fail(r)
  BY <1>0, <1>3 DEF Config!MergePending, Config!WriteClear, Config!Fail, Config!At, Config!Idle
<1>4. CASE Config!Reload(r)
  BY <1>0, <1>4 DEF Config!Reload, Config!At
<1>5. CASE Config!WriteApply(r)
  <2>1. creq[r].pc = "apply" /\ pending' = Config!Nothing
    BY <1>5 DEF Config!WriteApply, Config!At
  <2>2. creq'[r].pc \in {"reread", "idle"}
    <3>1. creq' = [creq EXCEPT ![r].pc = "reread"] \/ creq' = [creq EXCEPT ![r] = Config!Idle]
      BY <1>5 DEF Config!WriteApply, Config!Set, Config!Goto, Kept, Config!TypeOK
    <3> QED
      BY <3>1 DEF Config!Idle, Kept, Config!TypeOK
  <2> QED
    BY <1>0, <2>1, <2>2
<1>6. CASE Config!Reread(r)
  BY <1>0, <1>6 DEF Config!Reread, Config!At, Config!Goto
<1> QED
  BY <1>2, <1>3, <1>4, <1>5, <1>6 DEF Config!Step

\* The steps of startBot that read one more thing.
Lookup(r) == RemoveOld(r) \/ FindPrimary(r) \/ FindKey(r) \/ FindRuntime(r) \/ ResolveVendor(r)

LEMMA StartTypedByStep ==
  ASSUME InStart, Rows, StartTyped, SettingsNext
  PROVE  StartTyped'
<1> DEFINE Start == [pc : {"idle", "remove", "primary", "key", "resolve", "vendor", "create"},
                     conf : [Fields -> Values] \cup {None}, link : Keys \cup {None},
                     key : Keys \cup {None}, vendor : {Vendor[k] : k \in Keys} \cup {None}]
<1>0. /\ run \in [Users -> Start] /\ Waiting \in Start /\ Waiting.pc = "idle"
      /\ \A r \in Users : Running(r, "idle") = (creq[r].pc # "started")
      /\ \A r \in Users : ~Running(r, "idle") => run[r].conf \in [Fields -> Values]
      /\ keys \subseteq Keys /\ Linked \subseteq Keys /\ Primaries \subseteq Keys
      /\ row \in [Fields -> Values] /\ DOMAIN creq = Users
      /\ box # None => box.conf \in [EnvFields -> Values]
  BY DEF StartTyped, Waiting, InStart, Kept, Config!TypeOK, Rows, RowsTyped, Linked, Primaries
<1> SUFFICES /\ run' \in [Users -> Start]
             /\ \A r \in Users : (run'[r].pc = "idle") = (creq'[r].pc # "started")
             /\ \A r \in Users : run'[r].pc # "idle" => run'[r].conf \in [Fields -> Values]
             /\ box' # None => box'.conf \in [EnvFields -> Values]
  BY DEF StartTyped, Running
<1>1. CASE ProvidersStep
  BY <1>0, <1>1 DEF ProvidersStep, settings, Running
<1>2. ASSUME NEW r \in Users, SettingsStep(r)
      PROVE  /\ run' \in [Users -> Start]
             /\ \A s \in Users : (run'[s].pc = "idle") = (creq'[s].pc # "started")
             /\ \A s \in Users : run'[s].pc # "idle" => run'[s].conf \in [Fields -> Values]
             /\ UNCHANGED box
  <2>1. /\ creq[r].pc # "started" /\ run[r].pc = "idle"
        /\ \A s \in Users \ {r} : creq'[s] = creq[s]
    BY <1>0, <1>2, StepFrame DEF SettingsStep, InStart, Running
  <2> DEFINE q == [Waiting EXCEPT !.pc = "remove", !.conf = row]
  <2>2. q \in Start /\ q.pc = "remove" /\ q.conf = row
    BY <1>0 DEF Waiting
  <2>3. /\ creq'[r].pc = "started" => run' = [run EXCEPT ![r] = q]
        /\ creq'[r].pc # "started" => run' = run
        /\ UNCHANGED box
    BY <1>2, <2>1 DEF SettingsStep
  <2> HIDE DEF q, Start
  <2> QED
    BY <1>0, <2>1, <2>2, <2>3 DEF Running
<1>3. ASSUME NEW r \in Users, NEW q \in Start, Step(r, q), UNCHANGED settings,
             q.pc # "idle", q.conf = run[r].conf, ~Running(r, "idle")
      PROVE  /\ run' \in [Users -> Start]
             /\ \A s \in Users : (run'[s].pc = "idle") = (creq'[s].pc # "started")
             /\ \A s \in Users : run'[s].pc # "idle" => run'[s].conf \in [Fields -> Values]
  BY <1>0, <1>3 DEF Step, Running, settings
<1>4. ASSUME NEW r \in Users, Lookup(r)
      PROVE  /\ run' \in [Users -> Start]
             /\ \A s \in Users : (run'[s].pc = "idle") = (creq'[s].pc # "started")
             /\ \A s \in Users : run'[s].pc # "idle" => run'[s].conf \in [Fields -> Values]
             /\ box' \in {box, None}
  <2>1. UNCHANGED settings /\ ~Running(r, "idle") /\ box' \in {box, None} /\ run[r] \in Start
    BY <1>0, <1>4 DEF Lookup, RemoveOld, FindPrimary, FindKey, FindRuntime, ResolveVendor, Running
  <2>2. PICK pc \in {"primary", "key", "resolve", "vendor", "create"},
             l \in Keys \cup {None}, k \in Keys \cup {None}, v \in {Vendor[k] : k \in Keys} \cup {None} :
          \/ Step(r, [run[r] EXCEPT !.pc = pc])
          \/ Step(r, [run[r] EXCEPT !.pc = pc, !.link = l])
          \/ Step(r, [run[r] EXCEPT !.pc = pc, !.key = k])
          \/ Step(r, [run[r] EXCEPT !.pc = pc, !.vendor = v])
    <3>1. CASE RemoveOld(r)
      BY <3>1 DEF RemoveOld
    <3>2. CASE FindPrimary(r)
      BY <1>0, <3>2 DEF FindPrimary, SomePrimary
    <3>3. CASE FindKey(r)
      BY <1>0, <3>3 DEF FindKey
    <3>4. CASE FindRuntime(r)
      BY <1>0, <3>4 DEF FindRuntime
    <3>5. CASE ResolveVendor(r)
      <4> DEFINE v == IF run[r].link \in keys THEN Vendor[run[r].link] ELSE None
      <4>1. v \in {Vendor[k] : k \in Keys} \cup {None} /\ Step(r, [run[r] EXCEPT !.pc = "create", !.vendor = v])
        BY <1>0, <3>5 DEF ResolveVendor
      <4> QED
        BY <4>1
    <3> QED
      BY <1>4, <3>1, <3>2, <3>3, <3>4, <3>5 DEF Lookup
  <2> DEFINE S1 == [run[r] EXCEPT !.pc = pc]
             S2 == [run[r] EXCEPT !.pc = pc, !.link = l]
             S3 == [run[r] EXCEPT !.pc = pc, !.key = k]
             S4 == [run[r] EXCEPT !.pc = pc, !.vendor = v]
  <2>3. /\ S1 \in Start /\ S1.pc = pc /\ S1.conf = run[r].conf
        /\ S2 \in Start /\ S2.pc = pc /\ S2.conf = run[r].conf
        /\ S3 \in Start /\ S3.pc = pc /\ S3.conf = run[r].conf
        /\ S4 \in Start /\ S4.pc = pc /\ S4.conf = run[r].conf
    <3>1. S1 \in Start /\ S1.pc = pc /\ S1.conf = run[r].conf
      BY <2>1
    <3>2. S2 \in Start /\ S2.pc = pc /\ S2.conf = run[r].conf
      BY <2>1
    <3>3. S3 \in Start /\ S3.pc = pc /\ S3.conf = run[r].conf
      BY <2>1
    <3>4. S4 \in Start /\ S4.pc = pc /\ S4.conf = run[r].conf
      BY <2>1
    <3> QED
      BY <3>1, <3>2, <3>3, <3>4
  <2>4. Step(r, S1) \/ Step(r, S2) \/ Step(r, S3) \/ Step(r, S4)
    BY <2>2
  <2> HIDE DEF S1, S2, S3, S4, Start
  <2> QED
    BY <1>3, <2>1, <2>3, <2>4
<1>5. ASSUME NEW r \in Users, CreateContainer(r) \/ FailStart(r)
      PROVE  /\ run' = [run EXCEPT ![r] = Waiting] /\ creq' = [creq EXCEPT ![r] = Config!Idle]
             /\ box' # None => box'.conf \in [EnvFields -> Values]
  <2>1. CASE CreateContainer(r)
    <3>1. run[r].conf \in [Fields -> Values]
      BY <1>0, <2>1 DEF CreateContainer, Running
    <3>2. [f \in EnvFields |-> run[r].conf[f]] \in [EnvFields -> Values]
      BY <3>1, BotSettingsAssumption
    <3> QED
      BY <2>1, <3>2 DEF CreateContainer, Step
  <2>2. CASE FailStart(r)
    BY <1>0, <2>2 DEF FailStart, Step
  <2> QED
    BY <1>5, <2>1, <2>2
<1>6. ASSUME NEW r \in Users, run' = [run EXCEPT ![r] = Waiting], creq' = [creq EXCEPT ![r] = Config!Idle]
      PROVE  /\ run' \in [Users -> Start]
             /\ \A s \in Users : (run'[s].pc = "idle") = (creq'[s].pc # "started")
             /\ \A s \in Users : run'[s].pc # "idle" => run'[s].conf \in [Fields -> Values]
  <2>1. Config!Idle.pc = "idle"
    BY DEF Config!Idle
  <2> HIDE DEF Start
  <2> QED
    BY <1>0, <1>6, <2>1 DEF Running
<1> HIDE DEF Start
<1> QED
  BY <1>0, <1>1, <1>2, <1>4, <1>5, <1>6 DEF SettingsNext, Lookup
\* What holds of one request while it starts the bot.
LEMMA PreparedByLookup ==
  ASSUME InStart, Rows, StartTyped, RowsInTurn, NEW r \in Users, Prepared(r), Lookup(r),
         UNCHANGED world
  PROVE  Prepared(r)'
<1>1. /\ UNCHANGED <<vars, settings>> /\ ~Running(r, "idle") /\ DOMAIN run = Users
      /\ None \notin Keys /\ keys \subseteq Keys /\ Primaries \subseteq Keys /\ OnePrimary
      /\ run[r] \in [pc : {"idle", "remove", "primary", "key", "resolve", "vendor", "create"},
                     conf : [Fields -> Values] \cup {None}, link : Keys \cup {None},
                     key : Keys \cup {None}, vendor : {Vendor[k] : k \in Keys} \cup {None}]
  BY BotProvidersAssumption DEF Lookup, RemoveOld, FindPrimary, FindKey, FindRuntime, ResolveVendor,
     Running, InStart, Step, StartTyped, Rows, RowsTyped, RowsInTurn, Primaries
<1>2. /\ pending' = pending /\ row' = row /\ creq' = creq /\ asked' = asked /\ keys' = keys
      /\ Primaries' = Primaries /\ SomePrimary' = SomePrimary /\ Quiet' = Quiet /\ Faults' = Faults
      /\ Config!Nothing' = Config!Nothing
  BY <1>1 DEF vars, settings, Primaries, SomePrimary, Quiet, At, Faults
<1>3. Quiet /\ run[r].conf = row
  BY <1>1 DEF Prepared
<1>4. ~Faults => Newest
  BY <1>3 DEF RowsInTurn, Replacing, Quiet, At
<1>5. SUFFICES /\ run'[r].conf = run[r].conf
               /\ run'[r].pc = "key" => run'[r].link \in SomePrimary
               /\ ~Faults /\ run'[r].pc \in {"resolve", "vendor", "create"} =>
                    run'[r].key = IF asked \in keys THEN asked ELSE None
               /\ run'[r].key # None =>
                    /\ run'[r].pc = "resolve" => run'[r].key \in Primaries \cap keys
                    /\ run'[r].pc = "vendor" => run'[r].key \in keys /\ run'[r].link = run'[r].key
                    /\ run'[r].pc = "create" => run'[r].vendor = Vendor[run'[r].key]
               /\ run'[r].pc \in {"remove", "primary", "key"} => run'[r].key = None
  BY <1>2, <1>3 DEF Prepared, Running
<1>6. CASE RemoveOld(r)
  <2>1. run'[r] = [run[r] EXCEPT !.pc = "primary"] /\ run[r].key = None
    BY <1>1, <1>6 DEF RemoveOld, Step, Prepared, Running
  <2> QED
    BY <1>1, <2>1
<1>7. CASE FindPrimary(r)
  <2>1. PICK k \in SomePrimary : run'[r] = [run[r] EXCEPT !.pc = "key", !.link = k]
    BY <1>1, <1>7 DEF FindPrimary, Step
  <2>2. run[r].key = None
    BY <1>1, <1>7 DEF FindPrimary, Prepared, Running
  <2> QED
    BY <1>1, <2>1, <2>2
<1>8. CASE FindKey(r)
  <2>1. PICK k \in {run[r].link} \cup (IF Faults THEN {None} ELSE {}) :
          run'[r] = [run[r] EXCEPT !.pc = "resolve", !.key = IF k \in keys THEN k ELSE None]
    BY <1>1, <1>8 DEF FindKey, Step
  <2>2. run[r].link \in SomePrimary
    BY <1>1, <1>8 DEF FindKey, Prepared, Running
  <2>3. run'[r].pc = "resolve" /\ run'[r].conf = run[r].conf
        /\ run'[r].key = IF k \in keys THEN k ELSE None
    BY <1>1, <2>1
  <2>4. k \in keys => k \in Primaries
    BY <1>1, <2>1, <2>2 DEF SomePrimary
  <2>5. ~Faults => (IF k \in keys THEN k ELSE None) = IF asked \in keys THEN asked ELSE None
    BY <1>1, <1>4, <2>1, <2>2 DEF SomePrimary, Newest
  <2> QED
    BY <2>3, <2>4, <2>5
<1>9. CASE FindRuntime(r)
  <2>1. PICK k \in IF Primaries # {} THEN Primaries ELSE IF Linked # {} THEN Linked ELSE {None} :
          run'[r] = [run[r] EXCEPT !.pc = "vendor", !.link = k]
    BY <1>1, <1>9 DEF FindRuntime, Step
  <2>2. run[r].pc = "resolve"
    BY <1>9 DEF FindRuntime, Running
  <2>3. run'[r].pc = "vendor" /\ run'[r].conf = run[r].conf /\ run'[r].key = run[r].key /\ run'[r].link = k
    BY <1>1, <2>1
  <2>4. /\ ~Faults => run[r].key = IF asked \in keys THEN asked ELSE None
        /\ run[r].key # None => run[r].key \in Primaries \cap keys
    BY <1>1, <2>2 DEF Prepared, Running
  <2>5. run[r].key # None => run[r].key = k
    BY <1>1, <2>1, <2>4 DEF OnePrimary
  <2> QED
    BY <2>3, <2>4, <2>5
<1>10. CASE ResolveVendor(r)
  <2> DEFINE v == IF run[r].link \in keys THEN Vendor[run[r].link] ELSE None
  <2>1. run'[r] = [run[r] EXCEPT !.pc = "create", !.vendor = v] /\ run[r].pc = "vendor"
    BY <1>1, <1>10 DEF ResolveVendor, Step, Running
  <2>2. /\ ~Faults => run[r].key = IF asked \in keys THEN asked ELSE None
        /\ run[r].key # None => run[r].key \in keys /\ run[r].link = run[r].key
    BY <1>1, <2>1 DEF Prepared, Running
  <2>3. run[r].key # None => v = Vendor[run[r].key]
    BY <2>2
  <2> HIDE DEF v
  <2>4. run'[r].pc = "create" /\ run'[r].conf = run[r].conf /\ run'[r].key = run[r].key /\ run'[r].vendor = v
    BY <1>1, <2>1
  <2> QED
    BY <2>2, <2>3, <2>4
<1> QED
  BY <1>6, <1>7, <1>8, <1>9, <1>10 DEF Lookup

\* A request that has not come to the rest of startBot has nothing to keep but that
\* nothing is pending.
LEMMA PreparedIfIdle ==
  ASSUME NEW r, Running(r, "idle"), creq[r].pc \in {"reread", "started"} => pending = Config!Nothing
  PROVE  Prepared(r)
BY DEF Prepared

LEMMA StartInTurnByStep ==
  ASSUME Started, Serial, DistinctVendors, SettingsNext, UNCHANGED world,
         InStart', Rows', StartTyped'
  PROVE  StartInTurn' /\ ContainerAsksItsVendor'
<1>0. /\ InStart /\ Rows /\ StartTyped /\ RowsInTurn /\ StartInTurn /\ ContainerAsksItsVendor /\ Kept
      /\ Serial' = Serial /\ DOMAIN run = Users /\ DOMAIN creq = Users
      /\ \A s \in Users : Running(s, "idle") = (creq[s].pc # "started")
      /\ Config!Nothing' = Config!Nothing
  BY DEF Started, Rows, Serial, InStart, Kept, Config!TypeOK, StartTyped
<1>1. CASE ProvidersStep
  <2>1. UNCHANGED <<settings, run, box>> /\ \A s \in Users : creq[s].pc = "idle"
    BY <1>1 DEF ProvidersStep, Config!Quiet, Config!At
  <2>2. \A s \in Users : creq'[s].pc = "idle" /\ run'[s].pc = "idle"
    BY <1>0, <2>1 DEF settings, Running
  <2> QED
    BY <1>0, <2>1, <2>2 DEF StartInTurn, Prepared, Running, ContainerAsksItsVendor
<1>2. ASSUME NEW r \in Users, SettingsStep(r)
      PROVE  StartInTurn' /\ ContainerAsksItsVendor'
  <2>1. UNCHANGED <<vars, box>> /\ Quiet /\ Config!Step(r)
    BY <1>2 DEF SettingsStep
  <2>2. /\ creq'[r].pc \in {"reread", "started"} => pending' = Config!Nothing
        /\ creq'[r].pc = "started" => row' = row
        /\ \A s \in Users \ {r} : creq[s].pc = "idle"
    BY <1>0, <2>1, NothingIsPending DEF StartInTurn, Prepared
  <2>3. creq[r].pc # "started" /\ \A s \in Users \ {r} : creq'[s] = creq[s]
    BY <1>0, <2>1, StepFrame
  <2>4. ASSUME NEW s \in Users \ {r} PROVE Prepared(s)'
    <3>1. run'[s] = run[s]
      BY <1>0, <1>2 DEF SettingsStep
    <3> QED
      BY <1>0, <2>2, <2>3, <3>1 DEF Prepared, Running
  <2>5. Prepared(r)'
    <3>1. CASE creq'[r].pc = "started"
      <4> DEFINE q == [Waiting EXCEPT !.pc = "remove", !.conf = row]
      <4>1. run'[r] = q
        BY <1>0, <1>2, <2>3, <3>1 DEF SettingsStep
      <4>2. q.pc = "remove" /\ q.conf = row /\ q.key = None
        BY DEF Waiting
      <4>3. Quiet'
        BY <2>1 DEF Quiet, At, vars
      <4> HIDE DEF q
      <4> QED
        BY <1>0, <2>2, <3>1, <4>1, <4>2, <4>3 DEF Prepared, Running
    <3>2. CASE creq'[r].pc # "started"
      <4>1. run'[r].pc = "idle"
        BY <1>0, <1>2, <2>3, <3>2 DEF SettingsStep, Running
      <4> QED
        BY <1>0, <2>2, <4>1 DEF Prepared, Running
    <3> QED
      BY <3>1, <3>2
  <2> QED
    BY <1>0, <2>1, <2>4, <2>5 DEF StartInTurn, ContainerAsksItsVendor
<1>3. ASSUME NEW r \in Users, Lookup(r)
      PROVE  StartInTurn' /\ ContainerAsksItsVendor'
  <2>1. /\ UNCHANGED <<vars, settings>> /\ box' \in {box, None}
        /\ \A s \in Users \ {r} : run'[s] = run[s]
    BY <1>0, <1>3 DEF Lookup, RemoveOld, FindPrimary, FindKey, FindRuntime, ResolveVendor, Step
  <2>2. Prepared(r)'
    BY <1>0, <1>3, PreparedByLookup DEF StartInTurn
  <2>3. ASSUME NEW s \in Users \ {r} PROVE Prepared(s)'
    <3>1. /\ Primaries' = Primaries /\ SomePrimary' = SomePrimary /\ Quiet' = Quiet /\ Faults' = Faults
      BY <2>1 DEF vars, Primaries, SomePrimary, Quiet, At, Faults
    <3> QED
      BY <1>0, <2>1, <3>1 DEF StartInTurn, Prepared, Running, settings, vars
  <2> QED
    BY <1>0, <2>1, <2>2, <2>3 DEF StartInTurn, ContainerAsksItsVendor
<1>4. ASSUME NEW r \in Users, CreateContainer(r) \/ FailStart(r)
      PROVE  StartInTurn' /\ ContainerAsksItsVendor'
  <2>1. /\ run' = [run EXCEPT ![r] = Waiting] /\ creq' = [creq EXCEPT ![r] = Config!Idle]
        /\ UNCHANGED <<vars, row, pending>>
    BY <1>4 DEF CreateContainer, FailStart, Step
  <2>2. Prepared(r)'
    BY <1>0, <2>1 DEF Prepared, Running, Waiting, Config!Idle
  <2>3. ASSUME NEW s \in Users \ {r} PROVE Prepared(s)'
    <3>1. /\ Primaries' = Primaries /\ SomePrimary' = SomePrimary /\ Quiet' = Quiet /\ Faults' = Faults
      BY <2>1 DEF vars, Primaries, SomePrimary, Quiet, At, Faults
    <3>2. run'[s] = run[s] /\ creq'[s] = creq[s]
      BY <1>0, <2>1
    <3> QED
      BY <1>0, <2>1, <3>1, <3>2 DEF StartInTurn, Prepared, Running, vars
  <2>4. ContainerAsksItsVendor'
    <3>1. CASE CreateContainer(r)
      <4>1. box'.key = run[r].key /\ box'.vendor = run[r].vendor
        BY <3>1 DEF CreateContainer
      <4>2. run[r].key # None => run[r].vendor = Vendor[run[r].key]
        BY <1>0, <3>1 DEF CreateContainer, StartInTurn, Prepared, Running
      <4> QED
        BY <4>1, <4>2 DEF ContainerAsksItsVendor
    <3>2. CASE FailStart(r)
      BY <1>0, <3>2 DEF FailStart, ContainerAsksItsVendor
    <3> QED
      BY <1>4, <3>1, <3>2
  <2> QED
    BY <2>2, <2>3, <2>4 DEF StartInTurn
<1> QED
  BY <1>1, <1>2, <1>3, <1>4 DEF SettingsNext, Lookup
LEMMA StartedAtFirst == SettingsInit => Started
<1> SUFFICES ASSUME SettingsInit PROVE Started
  OBVIOUS
<1>1. InStart /\ Rows
  BY Initially, RowsAtFirst DEF SettingsInit
<1>2. \A r \in Users : run[r] = Waiting /\ creq[r].pc = "idle"
  BY DEF SettingsInit, Config!Init, Config!Idle
<1>3. StartTyped
  BY <1>2 DEF SettingsInit, StartTyped, Running, Waiting
<1>4. StartInTurn /\ ContainerAsksItsVendor
  BY <1>2 DEF SettingsInit, StartInTurn, Prepared, Running, Waiting, ContainerAsksItsVendor
<1> QED
  BY <1>1, <1>3, <1>4 DEF Started

LEMMA StartedByStep ==
  Started /\ [SettingsNext /\ UNCHANGED world]_<<all, world>> => Started'
<1> SUFFICES ASSUME Started, [SettingsNext /\ UNCHANGED world]_<<all, world>> PROVE Started'
  OBVIOUS
<1>1. InStart'
  BY StepImplements DEF Started
<1>2. CASE UNCHANGED <<all, world>>
  <2>1. UNCHANGED <<vars, world>> /\ run' = run /\ box' = box
        /\ pending' = pending /\ row' = row /\ creq' = creq
    BY <1>2 DEF all, settings
  <2>2. Rows'
    BY <2>1, RowsByStep DEF Started
  <2>3. StartTyped'
    BY <2>1 DEF Started, StartTyped, Running
  <2>4. Primaries' = Primaries /\ SomePrimary' = SomePrimary /\ Quiet' = Quiet /\ Faults' = Faults
        /\ Serial' = Serial /\ asked' = asked /\ keys' = keys
    BY <2>1 DEF vars, Primaries, SomePrimary, Quiet, At, Faults, Serial
  <2>5. Serial /\ DistinctVendors => StartInTurn' /\ ContainerAsksItsVendor'
    BY <2>1, <2>4 DEF Started, StartInTurn, Prepared, Running, ContainerAsksItsVendor
  <2> QED
    BY <1>1, <2>2, <2>3, <2>4, <2>5 DEF Started
<1>3. CASE SettingsNext /\ UNCHANGED world
  <2>1. Next \/ UNCHANGED vars
    BY <1>3 DEF SettingsNext, ProvidersStep, SettingsStep, RemoveOld, FindPrimary, FindKey, FindRuntime,
      ResolveVendor, CreateContainer, FailStart
  <2>2. Rows' /\ StartTyped'
    BY <1>3, <2>1, RowsByStep, StartTypedByStep DEF Started
  <2>3. Serial /\ DistinctVendors => StartInTurn' /\ ContainerAsksItsVendor'
    BY <1>1, <1>3, <2>2, StartInTurnByStep
  <2> QED
    BY <1>1, <1>3, <2>2, <2>3 DEF Started, Serial
<1> QED
  BY <1>2, <1>3

LEMMA StartedMeans ==
  ASSUME Started
  PROVE  SettingsTypeOK /\ (DistinctVendors => NewestPrimaryWins /\ AtMostOnePrimary)
<1>1. SettingsTypeOK
  <2>1. TypeOK
    BY DEF Started, Rows, RowsTyped, TypeOK, Request
  <2>2. Config!TypeOK
    BY DEF Started, InStart, Kept
  <2>3. \A r \in Users : run[r].conf \in [Fields -> Values] \cup {None}
                           /\ {run[r].link, run[r].key} \subseteq Keys \cup {None}
    BY DEF Started, StartTyped
  <2> QED
    BY <2>1, <2>2, <2>3 DEF SettingsTypeOK, Started, StartTyped
<1>2. ASSUME DistinctVendors PROVE NewestPrimaryWins
  BY <1>2 DEF Started, Rows, RowsInTurn, NewestPrimaryWins, Newest, Replacing, Quiet, At
<1>3. ASSUME DistinctVendors, Serial PROVE Cardinality(Primaries) <= 1
  <2>1. Primaries = {} \/ \E k \in Primaries : Primaries = {k}
    BY <1>3 DEF Started, Rows, RowsInTurn, OnePrimary
  <2>2. Cardinality({}) = 0
    BY FS_EmptySet
  <2>3. ASSUME NEW k PROVE Cardinality({k}) = 1
    BY FS_Singleton
  <2>4. Cardinality(Primaries) = 0 \/ Cardinality(Primaries) = 1
    BY <2>1, <2>2, <2>3
  <2> QED
    BY <2>4
<1> QED
  BY <1>1, <1>2, <1>3 DEF AtMostOnePrimary

\* Every variable keeps its type, one by one or overlapping.
THEOREM SettingsTyped == SettingsSpec => []SettingsTypeOK
BY StartedAtFirst, StartedByStep, StartedMeans, PTL DEF SettingsSpec

\* The primary key of a bot is the one last made primary, and there is never a
\* second, when requests come one by one and no two keys are of one vendor:
\* failed requests, deleted keys and starts in between change nothing of it.
THEOREM PrimaryStaysNewest ==
  ASSUME DistinctVendors
  PROVE  SettingsSpec => []PrimaryIsNewest
<1>1. Started => PrimaryIsNewest
  BY StartedMeans DEF PrimaryIsNewest
<1> QED
  BY <1>1, StartedAtFirst, StartedByStep, PTL DEF SettingsSpec

\* The container is given the URL of the vendor its key is of, though startBot
\* looks up the key and the vendor by queries of their own.
THEOREM VendorFitsKey ==
  ASSUME DistinctVendors
  PROVE  SettingsSpec => []ContainerAsksItsVendor
<1>1. Started => ContainerAsksItsVendor
  BY DEF Started, ContainerAsksItsVendor
<1> QED
  BY <1>1, StartedAtFirst, StartedByStep, PTL DEF SettingsSpec

LEMMA CreatedWithSettings ==
  ASSUME Started, DistinctVendors, [SettingsNext /\ UNCHANGED world]_<<all, world>>,
         Serial, box' \notin {box, None}
  PROVE  /\ \A f \in EnvFields : box'.conf[f] = want[f]
         /\ ~Faults => box'.key = IF asked \in keys THEN asked ELSE None
<1>1. PICK r \in Users : CreateContainer(r)
  BY DEF SettingsNext, ProvidersStep, SettingsStep, RemoveOld, FindPrimary, FindKey, FindRuntime,
      ResolveVendor, FailStart, all
<1>2. /\ creq[r].pc = "started" /\ run[r].pc = "create" /\ Prepared(r) /\ Kept
  <2>1. Running(r, "create") /\ ~Running(r, "idle")
    BY <1>1 DEF CreateContainer, Running
  <2> QED
    BY <2>1 DEF Started, InStart, StartInTurn, Running
<1>3. pending = Config!Nothing /\ run[r].conf = row /\ row \in [Fields -> Values] /\ want = Config!Effective
  BY <1>2 DEF Prepared, Running, Kept, Config!NoUpdateLost, Config!TypeOK
<1>4. run[r].conf = want
  BY <1>3, OverlayNothing DEF Config!Effective
<1>5. ~Faults => run[r].key = IF asked \in keys THEN asked ELSE None
  BY <1>2 DEF Prepared, Running
<1> QED
  BY <1>1, <1>4, <1>5, BotSettingsAssumption DEF CreateContainer

\* A container that startBot creates has all that was saved and not discarded,
\* and the key last made primary.
THEOREM ContainersFollowSettings ==
  ASSUME DistinctVendors
  PROVE  SettingsSpec => StartUsesSettings
<1>1. Started /\ [SettingsNext /\ UNCHANGED world]_<<all, world>> =>
        [Serial /\ box' \notin {box, None} =>
           /\ \A f \in EnvFields : box'.conf[f] = want[f]
           /\ ~Faults => box'.key = IF asked \in keys THEN asked ELSE None]_all
  BY CreatedWithSettings
<1> QED
  BY <1>1, StartedAtFirst, StartedByStep, PTL DEF SettingsSpec, StartUsesSettings
=============================================================================
