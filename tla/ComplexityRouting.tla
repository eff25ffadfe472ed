------------------------- MODULE ComplexityRouting -------------------------
(***************************************************************************)
(* Choosing a model by how hard a request is. The configurations live in a *)
(* table that administrators change; configuration.service.ts copies the   *)
(* one in force into memory, after each change and every five minutes, and *)
(* each copy is a listing and, an await later, an assignment. A proxied    *)
(* call reads the models of its bot and the configuration from the tables, *)
(* but is classified with what memory holds.                               *)
(***************************************************************************)
EXTENDS Integers, FiniteSets, FiniteSetsExt

CONSTANTS
  Configs,      \* rows of ComplexityRoutingConfig: numbers, in the order of creation
  Settings,     \* what a row may say: [classifier, models : [Levels -> Models], toolMin]
  Standard,     \* the classifier configuration the program comes with
  Models, Score,\* models, and what MODEL_CAPABILITY_SCORES makes of their names
  Alike,        \* pairs of models of one vendor one of whose names contains the other
  Keys, Offer,  \* the bot's provider keys, and the models each was given
  MinScore,     \* COMPLEXITY_MIN_SCORES
  Reqs, Calls,  \* bounds: administrators' requests, calls (each made once)
  None,
  Worlds

\* super_easy to super_hard
Levels == 0 .. 4
Medium == 2

ASSUME RoutingAssumption ==
  /\ Configs \subseteq Nat /\ Alike \subseteq Models \X Models
  /\ Score \in [Models -> Nat] /\ MinScore \in [Levels -> Nat]
  /\ \A l \in Levels \ {0} : MinScore[l - 1] <= MinScore[l]
  /\ Offer \in [Keys -> SUBSET Models]
  /\ \A s \in Settings : s.models \in [Levels -> Models] /\ s.toolMin \in Levels \cup {None}
  /\ \A w \in Worlds : /\ {w.serial, w.faults, w.crashes, w.dels} \subseteq BOOLEAN
                       /\ w.reqs \subseteq Reqs /\ w.calls \subseteq Calls

VARIABLES
  world,
  table,       \* rows: state and setting
  keys,        \* provider keys that are not deleted
  engine,      \* in memory: is routing on, and which classifier is asked?
  req,         \* administrators' requests
  timer,       \* the refresh every five minutes, and the one at startup
  listening,   \* does the server take requests?
  call         \* calls

vars == <<table, keys, engine, req, timer, listening, call>>

Classifiers == {s.classifier : s \in Settings} \cup {Standard}
Unused == [state |-> "free", set |-> None]
Row == {Unused} \cup [state : {"on", "off", "gone"}, set : Settings]

\* A copy of the table into memory: its place and the row it has read.
Rest == [pc |-> "idle", seen |-> None]
Loading(x) == x.pc \in {"list", "set"}

Silent == [pc |-> "idle", todo |-> {}, avail |-> {}, tools |-> FALSE, calm |-> FALSE,
           set |-> None, asked |-> None, level |-> None, model |-> None]

Idle == [pc |-> "idle", row |-> None, new |-> Unused, load |-> Rest]
Set(r, q) == req' = [req EXCEPT ![r] = q]
Quiet == \A r \in Reqs : req[r].pc = "idle"

\* The first enabled row: the one the code uses.
InForce ==
  LET on == {i \in Configs : table[i].state = "on"}
  IN  IF on = {} THEN None ELSE table[Min(on)].set

Loaded(set) == [on |-> set # None, classifier |-> IF set = None THEN Standard ELSE set.classifier]

-----------------------------------------------------------------------------
(* Calls that have read or are about to read something else than what is   *)
(* in force now are marked: history for ClassifierBelongs.                 *)

Disturb == call' = [c \in Calls |-> IF call[c].pc \in {"idle", "end"} THEN call[c]
                                    ELSE [call[c] EXCEPT !.calm = FALSE]]

(* loadComplexityRoutingConfigs                                            *)

ListConfigs(x) == IF x.pc = "list" THEN {[pc |-> "set", seen |-> InForce]} ELSE {}

\* setComplexityRoutingConfig that is called for a row only.
SetIfAny(x) == engine' = IF x.seen = None THEN engine ELSE Loaded(x.seen)

\* setComplexityRoutingConfig and setClassifierConfig.
SetEngine(x) == engine' = Loaded(x.seen)

\* One step of a copy; a failing query ends it, and what memory holds stays.
Load(x, next) ==
  \/ next \in ListConfigs(x) /\ UNCHANGED engine
  \/ x.pc = "set" /\ SetEngine(x) /\ next = Rest
  \/ x.pc = "list" /\ world.faults /\ next = Rest /\ UNCHANGED engine

(* Requests of administrators: read the row, write it, refresh             *)

Begin(r, row, new, pc) ==
  /\ listening /\ r \in world.reqs /\ req[r].pc = "idle"
  /\ world.serial => Quiet /\ ~Loading(timer)
  /\ Set(r, [Idle EXCEPT !.pc = pc, !.row = row, !.new = new,
                         !.load.pc = IF pc = "refresh" THEN "list" ELSE "idle"])
  /\ Disturb /\ UNCHANGED <<table, keys, engine, timer, listening>>

Create(r) ==
  \E s \in Settings, on \in {"on", "off"} :
    \E i \in {j \in Configs : table[j] = Unused /\ \A h \in Configs : h < j => table[h] # Unused} :
      Begin(r, i, [state |-> on, set |-> s], "write")
Update(r) ==
  \E i \in Configs, s \in Settings, on \in {"on", "off"} :
    table[i].state \in {"on", "off"} /\ Begin(r, i, [state |-> on, set |-> s], "write")
Delete(r) ==
  \E i \in Configs :
    table[i].state \in {"on", "off"} /\ Begin(r, i, [table[i] EXCEPT !.state = "gone"], "write")
Refresh(r) == Begin(r, None, Unused, "refresh")

\* A write that no refresh follows.
WriteOnly(r) ==
  /\ req[r].pc = "write"
  /\ LET i == req[r].row IN
     table' = [table EXCEPT ![i] = IF @.state = "gone" THEN [req[r].new EXCEPT !.state = "gone"]
                                   ELSE req[r].new]
  /\ Set(r, Idle)
  /\ Disturb /\ UNCHANGED <<keys, engine, timer, listening>>

\* An update finds a row that was deleted since, and leaves it deleted.
WriteRow(r) ==
  /\ req[r].pc = "write"
  /\ \/ LET i == req[r].row IN
        /\ table' = [table EXCEPT ![i] = IF @.state = "gone" THEN [req[r].new EXCEPT !.state = "gone"]
                                         ELSE req[r].new]
        /\ Set(r, [req[r] EXCEPT !.pc = "refresh", !.load.pc = "list"])
     \/ world.faults /\ Set(r, Idle) /\ UNCHANGED table
  /\ Disturb /\ UNCHANGED <<keys, engine, timer, listening>>

RefreshStep(r) ==
  /\ req[r].pc = "refresh"
  /\ \E next \in {Rest} \cup [pc : {"set"}, seen : Settings \cup {None}] :
       /\ Load(req[r].load, next)
       /\ Set(r, IF next = Rest THEN Idle ELSE [req[r] EXCEPT !.load = next])
  /\ Disturb /\ UNCHANGED <<table, keys, timer, listening>>

(* startPeriodicRefresh, onModuleInit, and the end of the process          *)

Tick ==
  /\ listening /\ timer = Rest /\ (world.serial => Quiet)
  /\ timer' = [Rest EXCEPT !.pc = "list"]
  /\ UNCHANGED <<table, keys, engine, req, listening, call>>

TimerStep ==
  /\ \E next \in {Rest} \cup [pc : {"set"}, seen : Settings \cup {None}] :
       /\ Load(timer, next) /\ timer' = next
       /\ listening' = (listening \/ next = Rest)
  /\ Disturb /\ UNCHANGED <<table, keys, req>>

\* The constructors set a configuration that is on, and the server listens
\* when the first copy has ended.
Crash ==
  /\ world.crashes /\ listening
  /\ engine' = [on |-> TRUE, classifier |-> Standard]
  /\ req' = [r \in Reqs |-> Idle] /\ timer' = [Rest EXCEPT !.pc = "list"] /\ listening' = FALSE
  /\ call' = [c \in Calls |-> IF call[c].pc = "idle" THEN call[c] ELSE [call[c] EXCEPT !.pc = "end", !.calm = FALSE]]
  /\ UNCHANGED <<table, keys>>

-----------------------------------------------------------------------------
(* Calls: routeByComplexity                                                *)

Put(c, r) == call' = [call EXCEPT ![c] = r]
Calling(c, pc) == call[c].pc = pc /\ UNCHANGED <<table, keys, engine, req, timer, listening>>
End(c) == Put(c, [call[c] EXCEPT !.pc = "end"])

\* The rows of the bot's keys are listed; a row outlives its key.
Call(c) ==
  /\ listening /\ c \in world.calls /\ Calling(c, "idle")
  /\ \E tools \in BOOLEAN :
       Put(c, [Silent EXCEPT !.pc = "keys", !.todo = Keys, !.tools = tools,
                             !.calm = (Quiet /\ ~Loading(timer))])

\* getBotAvailableModels: one query per key. A query that fails ends the routing.
ReadKey(c) ==
  /\ Calling(c, "keys")
  /\ \/ \E k \in call[c].todo :
          Put(c, [call[c] EXCEPT !.todo = @ \ {k}, !.avail = IF k \in keys THEN @ \cup Offer[k] ELSE @])
     \/ call[c].todo = {} /\ IF call[c].avail = {} THEN End(c)
                             ELSE Put(c, [call[c] EXCEPT !.pc = "config"])
     \/ world.faults /\ End(c)

\* getComplexityRoutingConfig: the table, not memory.
ReadConfig(c) ==
  /\ Calling(c, "config")
  /\ \/ IF InForce = None THEN End(c) ELSE Put(c, [call[c] EXCEPT !.pc = "ask", !.set = InForce])
     \/ world.faults /\ End(c)

\* callClassifier takes what memory holds when the row has arrived.
AskClassifier(c) ==
  /\ Calling(c, "ask")
  /\ Put(c, [call[c] EXCEPT !.pc = "select", !.asked = engine.classifier])

\* What classify may say, a failure included, and ensureMinComplexity.
Level(c, said) ==
  LET l == IF call[c].tools /\ said = 0 THEN 1 ELSE said
  IN  IF call[c].tools /\ call[c].set.toolMin # None THEN Max({l, call[c].set.toolMin}) ELSE l

\* The models selectBestModel may take: the rows of the bot come in any order.
Named(avail, set, l) == {m \in avail : <<m, set.models[l]>> \in Alike}
Cheapest(ms) == {m \in ms : \A n \in ms : Score[m] <= Score[n]}
Strongest(ms) == {m \in ms : \A n \in ms : Score[m] >= Score[n]}
Able(avail, l) == {m \in avail : Score[m] >= MinScore[l]}

\* selectBestModel whose last resort is the cheapest model.
BestCheap(avail, set, l) ==
  CASE Named(avail, set, l) # {} -> Named(avail, set, l)
    [] OTHER -> Cheapest(IF Able(avail, l) # {} THEN Able(avail, l) ELSE avail)

Best(avail, set, l) ==
  CASE Named(avail, set, l) # {} -> Named(avail, set, l)
    [] Named(avail, set, l) = {} /\ Able(avail, l) # {} -> Cheapest(Able(avail, l))
    [] OTHER -> Strongest(avail)

Select(c) ==
  /\ Calling(c, "select")
  /\ \E said \in Levels :
       LET l == Level(c, said)
       IN  \E m \in Best(call[c].avail, call[c].set, l) :
             Put(c, [call[c] EXCEPT !.pc = "end", !.level = l, !.model = m])

DeleteKey ==
  /\ world.dels /\ \E k \in keys : keys' = keys \ {k}
  /\ UNCHANGED <<table, engine, req, timer, listening, call>>

-----------------------------------------------------------------------------
Init ==
  /\ world \in Worlds
  /\ table \in [Configs -> {Unused} \cup [state : {"on"}, set : Settings]]
  /\ \A i, j \in Configs : i < j /\ table[i] = Unused => table[j] = Unused
  /\ keys = Keys
  /\ engine = [on |-> TRUE, classifier |-> Standard]
  /\ req = [r \in Reqs |-> Idle]
  /\ timer = [Rest EXCEPT !.pc = "list"]
  /\ listening = FALSE
  /\ call = [c \in Calls |-> Silent]

CallStep(c) == ReadKey(c) \/ ReadConfig(c) \/ AskClassifier(c) \/ Select(c)
ReqStep(r) == WriteRow(r) \/ RefreshStep(r)
Step ==
  \/ \E r \in Reqs : Create(r) \/ Update(r) \/ Delete(r) \/ Refresh(r) \/ ReqStep(r)
  \/ \E c \in Calls : Call(c) \/ CallStep(c)
  \/ Tick \/ TimerStep \/ Crash \/ DeleteKey
Next == Step /\ UNCHANGED world

Spec == Init /\ [][Next]_<<world, vars>>

\* The timer ticks every five minutes, and queries are answered.
FairSpec ==
  /\ Spec
  /\ WF_<<world, vars>>((Tick \/ TimerStep) /\ UNCHANGED world)
  /\ \A r \in Reqs : WF_<<world, vars>>(ReqStep(r) /\ UNCHANGED world)
  /\ \A c \in Calls : WF_<<world, vars>>(CallStep(c) /\ UNCHANGED world)

-----------------------------------------------------------------------------
\* Every variable keeps its type; a call that got a model has read a
\* configuration and was classified.
RoutingTypeOK ==
  /\ world \in Worlds /\ table \in [Configs -> Row] /\ keys \subseteq Keys
  /\ engine \in [on : BOOLEAN, classifier : Classifiers]
  /\ timer.pc \in {"idle", "list", "set"} /\ timer.seen \in Settings \cup {None}
  /\ \A r \in Reqs : req[r].pc \in {"idle", "write", "refresh"} /\ req[r].row \in Configs \cup {None}
  /\ \A c \in Calls :
       /\ call[c].pc \in {"idle", "keys", "config", "ask", "select", "end"}
       /\ (call[c].pc \in {"ask", "select"} => call[c].set \in Settings)
       /\ (call[c].model # None => call[c].set \in Settings /\ call[c].asked \in Classifiers)

\* A call that no change and no copy overlaps is classified by the classifier
\* of the very configuration its model is looked up in, although one comes
\* from memory and the other from the table: whatever administrators and the
\* timer did before, one after the other, while their queries succeeded.
ClassifierBelongs ==
  world.serial /\ ~world.faults =>
    \A c \in Calls : call[c].calm /\ call[c].pc \in {"select", "end"} /\ call[c].set # None
                      => call[c].asked = call[c].set.classifier

\* Where a configuration names no model the bot has, a harder request never
\* gets a weaker model than an easier request of the same bot might.
HarderGetsStronger ==
  \A c \in Calls : call[c].model # None /\ Named(call[c].avail, call[c].set, call[c].level) = {} =>
    \A l \in 0 .. (call[c].level - 1) :
      Named(call[c].avail, call[c].set, l) = {} =>
        \A m \in Best(call[c].avail, call[c].set, l) : Score[m] <= Score[call[c].model]

\* Once administrators are done and the process stays up, memory comes to
\* hold what the table says and keeps it, in whatever order the copies of
\* overlapping requests and of the timer ended.
RoutingConverges ==
  <>[](Quiet /\ listening /\ ~world.faults) => <>[](engine = Loaded(InForce))

=============================================================================
