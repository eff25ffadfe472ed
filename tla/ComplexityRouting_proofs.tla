---------------------- MODULE ComplexityRouting_proofs ----------------------
(***************************************************************************)
(* Types, HarderGetsStronger and ClassifierBelongs for any tables, models  *)
(* and calls. HarderGetsStronger is a fact about Best, of which every call *)
(* took an element. ClassifierBelongs needs that, one request at a time,   *)
(* memory is what the table says whenever nobody is changing either.       *)
(***************************************************************************)
EXTENDS ComplexityRouting, WellFoundedInduction, TLAPS

LoadType == [pc : {"idle", "list", "set"}, seen : Settings \cup {None}]
ReqType == [pc : {"idle", "write", "refresh"}, row : Configs \cup {None}, new : Row, load : LoadType]
CallType ==
  [pc : {"idle", "keys", "config", "ask", "select", "end"}, todo : SUBSET Keys,
   avail : SUBSET Models, tools : BOOLEAN, calm : BOOLEAN, set : Settings \cup {None},
   asked : Classifiers \cup {None}, level : Levels \cup {None}, model : Models \cup {None}]

\* A write has a row to write.
ReadyReq(q) ==
  q.pc = "write" => q.row \in Configs /\ q.new \in [state : {"on", "off", "gone"}, set : Settings]

\* A call that asks has a configuration, and one that got a model one of the best.
ReadyCall(q) ==
  /\ (q.pc \in {"ask", "select"} => q.set \in Settings)
  /\ (q.pc = "select" => q.asked \in Classifiers)
  /\ (q.model # None => /\ q.pc = "end" /\ q.set \in Settings /\ q.asked \in Classifiers /\ q.level \in Levels
                        /\ q.model \in Best(q.avail, q.set, q.level))

ReqsTyped == req \in [Reqs -> ReqType] /\ \A r \in Reqs : ReadyReq(req[r])
CallsTyped == call \in [Calls -> CallType] /\ \A c \in Calls : ReadyCall(call[c])
TableTyped == table \in [Configs -> Row] /\ keys \subseteq Keys /\ world \in Worlds
MemoryTyped ==
  /\ engine \in [on : BOOLEAN, classifier : Classifiers]
  /\ timer \in LoadType /\ listening \in BOOLEAN

TInv == ReqsTyped /\ CallsTyped /\ TableTyped /\ MemoryTyped

-----------------------------------------------------------------------------
(* Helpers                                                                 *)

\* A set of numbers has a least one.
LEMMA MinIsMember ==
  ASSUME NEW S \in SUBSET Nat, S # {}
  PROVE  Min(S) \in S
<1>1. PICK x \in S : \A y \in S : ~(<<y, x>> \in OpToRel(<, Nat))
  BY WFMin, NatLessThanWellFounded, Zenon
<1>2. ASSUME NEW y \in S PROVE x =< y
  <2>1. x \in Nat /\ y \in Nat
    OBVIOUS
  <2>2. y < x => <<y, x>> \in OpToRel(<, Nat)
    BY <2>1, Zenon DEF OpToRel
  <2>3. ~(y < x)
    BY <1>1, <2>2, Zenon
  <2> QED
    BY <2>1, <2>3
<1> QED
  BY <1>2 DEF Min

\* The larger of two levels is one of them.
LEMMA MaxIsLevel ==
  ASSUME NEW a \in Levels, NEW b \in Levels
  PROVE  Max({a, b}) \in Levels
<1>1. \E x \in {a, b} : \A y \in {a, b} : x >= y
  BY DEF Levels
<1> QED
  BY <1>1 DEF Max

LEMMA InForceType ==
  ASSUME table \in [Configs -> Row]
  PROVE  InForce \in Settings \cup {None}
<1> DEFINE on == {i \in Configs : table[i].state = "on"}
<1>1. CASE on = {}
  BY <1>1 DEF InForce
<1>2. CASE on # {}
  <2>1. Min(on) \in on
    BY <1>2, MinIsMember, RoutingAssumption
  <2>2. table[Min(on)] \in Row /\ table[Min(on)].state = "on"
    BY <2>1
  <2>3. table[Min(on)].set \in Settings
    BY <2>2 DEF Row, Unused
  <2> QED
    BY <1>2, <2>3 DEF InForce
<1> QED
  BY <1>1, <1>2

LEMMA LoadedType ==
  ASSUME NEW set \in Settings \cup {None}
  PROVE  Loaded(set) \in [on : BOOLEAN, classifier : Classifiers]
BY DEF Loaded, Classifiers

LEMMA LevelType ==
  ASSUME NEW c \in Calls, NEW said \in Levels, call[c].set \in Settings
  PROVE  Level(c, said) \in Levels
<1> DEFINE l == IF call[c].tools /\ said = 0 THEN 1 ELSE said
<1>1. l \in Levels
  BY DEF Levels
<1>2. call[c].set.toolMin \in Levels \cup {None}
  BY RoutingAssumption
<1>3. call[c].set.toolMin # None => Max({l, call[c].set.toolMin}) \in Levels
  BY <1>1, <1>2, MaxIsLevel
<1> QED
  BY <1>1, <1>3 DEF Level

\* What Best offers the bot has.
LEMMA BestIsOffered ==
  ASSUME NEW avail, NEW set, NEW l
  PROVE  Best(avail, set, l) \subseteq avail
BY DEF Best, Named, Able, Cheapest, Strongest

\* The lowest scores rise with the levels.
LEMMA MinScoreRises ==
  ASSUME NEW l \in Levels, NEW h \in Levels, l < h
  PROVE  MinScore[l] <= MinScore[h]
<1>1. MinScore[0] <= MinScore[1] /\ MinScore[1] <= MinScore[2]
      /\ MinScore[2] <= MinScore[3] /\ MinScore[3] <= MinScore[4]
  BY RoutingAssumption DEF Levels
<1>2. \A i \in Levels : MinScore[i] \in Nat
  BY RoutingAssumption
<1> QED
  BY <1>1, <1>2 DEF Levels

\* Where neither level's configured model is there, the harder level's best is
\* at least as strong as the easier level's.
LEMMA HarderIsStronger ==
  ASSUME NEW avail \in SUBSET Models, NEW set, NEW l \in Levels, NEW h \in Levels, l < h,
         Named(avail, set, l) = {}, Named(avail, set, h) = {},
         NEW m \in Best(avail, set, l), NEW n \in Best(avail, set, h)
  PROVE  Score[m] <= Score[n]
<1>1. m \in avail /\ n \in avail
  BY BestIsOffered
<1>2. CASE Able(avail, h) # {}
  <2>1. n \in Able(avail, h)
    BY <1>2 DEF Best, Cheapest
  <2>2. n \in Able(avail, l)
    BY <2>1, MinScoreRises, RoutingAssumption DEF Able
  <2>3. m \in Cheapest(Able(avail, l))
    BY <2>2 DEF Best
  <2> QED
    BY <2>2, <2>3 DEF Cheapest
<1>3. CASE Able(avail, h) = {}
  <2>1. n \in Strongest(avail)
    BY <1>3 DEF Best
  <2> QED
    BY <1>1, <2>1, RoutingAssumption DEF Strongest
<1> QED
  BY <1>2, <1>3

-----------------------------------------------------------------------------
(* Types                                                                   *)

LEMMA TypesInitially == Init => TInv
<1> SUFFICES ASSUME Init PROVE TInv
  OBVIOUS
<1>1. [on |-> TRUE, classifier |-> Standard] \in [on : BOOLEAN, classifier : Classifiers]
  BY DEF Classifiers
<1>2. Idle \in ReqType /\ [Rest EXCEPT !.pc = "list"] \in LoadType /\ Silent \in CallType
  BY DEF Idle, ReqType, Rest, LoadType, Row, Silent, CallType
<1>3. ReadyReq(Idle) /\ ReadyCall(Silent)
  BY DEF ReadyReq, Idle, ReadyCall, Silent
<1>4. table \in [Configs -> Row]
  BY DEF Init, Row
<1> QED
  BY <1>1, <1>2, <1>3, <1>4 DEF Init, TInv, ReqsTyped, CallsTyped, TableTyped, MemoryTyped

\* Three frames: what a step puts in place of a request or of a call, and what
\* marking the calls does.
LEMMA SetTypes ==
  ASSUME ReqsTyped, NEW r \in Reqs, NEW q \in ReqType, ReadyReq(q), Set(r, q)
  PROVE  ReqsTyped'
BY DEF ReqsTyped, Set, ReadyReq

LEMMA PutTypes ==
  ASSUME CallsTyped, NEW c \in Calls, NEW q \in CallType, ReadyCall(q), Put(c, q)
  PROVE  CallsTyped'
BY DEF CallsTyped, Put

LEMMA DisturbTypes == ASSUME CallsTyped, Disturb PROVE CallsTyped'
<1>1. ASSUME NEW c \in Calls
      PROVE  call'[c] \in CallType /\ ReadyCall(call'[c])
  <2>1. call'[c] = call[c] \/ call'[c] = [call[c] EXCEPT !.calm = FALSE]
    BY DEF Disturb
  <2> QED
    BY <2>1 DEF CallsTyped, CallType, ReadyCall
<1>2. call' = [c \in Calls |-> call'[c]]
  BY DEF Disturb
<1> QED
  BY <1>1, <1>2 DEF CallsTyped

\* A copy under way keeps its type, and so does memory.
LEMMA LoadTypes ==
  ASSUME TInv, NEW x \in LoadType, NEW next \in {Rest} \cup [pc : {"set"}, seen : Settings \cup {None}],
         Load(x, next)
  PROVE  next \in LoadType /\ engine' \in [on : BOOLEAN, classifier : Classifiers]
<1>1. next \in LoadType
  BY DEF LoadType, Rest
<1>2. engine' \in [on : BOOLEAN, classifier : Classifiers]
  BY LoadedType DEF Load, SetEngine, TInv, MemoryTyped, LoadType
<1> QED
  BY <1>1, <1>2

LEMMA BeginTypes ==
  ASSUME TInv, NEW r \in Reqs, NEW row \in Configs \cup {None}, NEW new \in Row, NEW pc \in {"write", "refresh"},
         pc = "write" => row \in Configs /\ new \in [state : {"on", "off", "gone"}, set : Settings],
         Begin(r, row, new, pc), UNCHANGED world
  PROVE  TInv'
<1> DEFINE q == [Idle EXCEPT !.pc = pc, !.row = row, !.new = new,
                             !.load.pc = IF pc = "refresh" THEN "list" ELSE "idle"]
<1>1. q \in ReqType /\ ReadyReq(q)
  BY DEF Idle, Rest, ReqType, LoadType, ReadyReq
<1> QED
  BY <1>1, SetTypes, DisturbTypes DEF Begin, TInv, TableTyped, MemoryTyped

LEMMA RequestTypes ==
  ASSUME TInv, UNCHANGED world, NEW r \in Reqs,
         Create(r) \/ Update(r) \/ Delete(r) \/ Refresh(r) \/ ReqStep(r)
  PROVE  TInv'
<1> USE DEF TInv
<1>1. \A s \in Settings, on \in {"on", "off", "gone"} :
        [state |-> on, set |-> s] \in [state : {"on", "off", "gone"}, set : Settings]
  OBVIOUS
<1>2. [state : {"on", "off", "gone"}, set : Settings] \subseteq Row /\ Unused \in Row
  BY DEF Row
<1>3. CASE Create(r)
  BY <1>1, <1>2, <1>3, BeginTypes DEF Create
<1>4. CASE Update(r)
  BY <1>1, <1>2, <1>4, BeginTypes DEF Update
<1>5. CASE Delete(r)
  <2>1. PICK i \in Configs : /\ table[i].state \in {"on", "off"}
                             /\ Begin(r, i, [table[i] EXCEPT !.state = "gone"], "write")
    BY <1>5 DEF Delete
  <2>2. [table[i] EXCEPT !.state = "gone"] \in [state : {"on", "off", "gone"}, set : Settings]
    BY <2>1 DEF TableTyped, Row, Unused
  <2> QED
    BY <1>2, <2>1, <2>2, BeginTypes
<1>6. CASE Refresh(r)
  BY <1>2, <1>6, BeginTypes DEF Refresh
<1>7. Idle \in ReqType /\ ReadyReq(Idle)
  BY DEF Idle, Rest, ReqType, LoadType, ReadyReq, Row
<1>8. CASE WriteRow(r)
  <2>1. TableTyped'
    <3>1. req[r].row \in Configs /\ req[r].new \in [state : {"on", "off", "gone"}, set : Settings]
      BY <1>8 DEF WriteRow, ReqsTyped, ReadyReq
    <3>2. [req[r].new EXCEPT !.state = "gone"] \in [state : {"on", "off", "gone"}, set : Settings]
      BY <3>1
    <3>3. table' = table \/ \E new \in Row : table' = [table EXCEPT ![req[r].row] = new]
      BY <1>2, <1>8, <3>1, <3>2 DEF WriteRow, TableTyped
    <3> QED
      BY <1>8, <3>1, <3>3 DEF WriteRow, TableTyped
  <2>2. ReqsTyped'
    <3> DEFINE q == [req[r] EXCEPT !.pc = "refresh", !.load.pc = "list"]
    <3>0. req[r] \in ReqType
      BY DEF ReqsTyped
    <3>1. q \in ReqType
      BY <3>0 DEF ReqType, LoadType
    <3>2. ReadyReq(q)
      BY <3>0 DEF ReqType, ReadyReq
    <3> QED
      BY <1>7, <1>8, <3>1, <3>2, SetTypes DEF WriteRow
  <2> QED
    BY <1>8, <2>1, <2>2, DisturbTypes DEF WriteRow, MemoryTyped
<1>9. CASE RefreshStep(r)
  <2>1. PICK next \in {Rest} \cup [pc : {"set"}, seen : Settings \cup {None}] :
          /\ Load(req[r].load, next)
          /\ Set(r, IF next = Rest THEN Idle ELSE [req[r] EXCEPT !.load = next])
    BY <1>9 DEF RefreshStep
  <2>2. req[r].load \in LoadType /\ req[r] \in ReqType /\ req[r].pc = "refresh"
    BY <1>9 DEF ReqsTyped, ReqType, RefreshStep
  <2>3. next \in LoadType /\ engine' \in [on : BOOLEAN, classifier : Classifiers]
    BY <2>1, <2>2, LoadTypes
  <2>4. [req[r] EXCEPT !.load = next] \in ReqType /\ ReadyReq([req[r] EXCEPT !.load = next])
    BY <2>2, <2>3 DEF ReqType, ReadyReq
  <2>5. ReqsTyped'
    BY <1>7, <2>1, <2>4, SetTypes
  <2> QED
    BY <1>9, <2>3, <2>5, DisturbTypes DEF RefreshStep, TableTyped, MemoryTyped
<1> QED
  BY <1>3, <1>4, <1>5, <1>6, <1>8, <1>9 DEF ReqStep

LEMMA CallTypes ==
  ASSUME TInv, UNCHANGED world, NEW c \in Calls, Call(c) \/ CallStep(c)
  PROVE  TInv'
<1> USE DEF TInv
<1>1. UNCHANGED <<table, keys, engine, req, timer, listening>> => ReqsTyped' /\ TableTyped' /\ MemoryTyped'
  BY DEF ReqsTyped, TableTyped, MemoryTyped
<1>2. UNCHANGED <<table, keys, engine, req, timer, listening>>
  BY DEF Call, CallStep, ReadKey, ReadConfig, AskClassifier, Select, Calling
<1>3. call[c] \in CallType /\ ReadyCall(call[c])
  BY DEF CallsTyped
<1>4. CASE Call(c)
  <2>1. PICK tools \in BOOLEAN : Put(c, [Silent EXCEPT !.pc = "keys", !.todo = Keys, !.tools = tools,
                                                       !.calm = (Quiet /\ ~Loading(timer))])
    BY <1>4 DEF Call
  <2>2. (Quiet /\ ~Loading(timer)) \in BOOLEAN
    BY DEF Quiet, Loading
  <2> DEFINE q == [Silent EXCEPT !.pc = "keys", !.todo = Keys, !.tools = tools,
                                 !.calm = (Quiet /\ ~Loading(timer))]
  <2>3. q \in CallType /\ ReadyCall(q)
    BY <2>2 DEF CallType, Silent, ReadyCall
  <2> QED
    BY <1>1, <1>2, <2>1, <2>3, PutTypes
<1>5. ASSUME call[c].pc # "end", NEW pc \in {"config", "end"}
      PROVE  [call[c] EXCEPT !.pc = pc] \in CallType /\ ReadyCall([call[c] EXCEPT !.pc = pc])
  <2>1. call[c].model = None
    BY <1>3, <1>5 DEF ReadyCall
  <2>2. [call[c] EXCEPT !.pc = pc] \in CallType
    BY <1>3 DEF CallType
  <2> QED
    BY <1>3, <2>1, <2>2 DEF ReadyCall, CallType
<1>6. CASE ReadKey(c)
  <2>1. CASE \A k \in call[c].todo :
              ~Put(c, [call[c] EXCEPT !.todo = @ \ {k}, !.avail = IF k \in keys THEN @ \cup Offer[k] ELSE @])
    <3>1. call[c].pc = "keys" /\ \E pc \in {"config", "end"} : Put(c, [call[c] EXCEPT !.pc = pc])
      BY <1>6, <2>1 DEF ReadKey, End, Calling
    <3> QED
      BY <1>1, <1>2, <1>5, <3>1, PutTypes
  <2>2. ASSUME NEW k \in call[c].todo,
               Put(c, [call[c] EXCEPT !.todo = @ \ {k}, !.avail = IF k \in keys THEN @ \cup Offer[k] ELSE @])
        PROVE  CallsTyped'
    <3> DEFINE q == [call[c] EXCEPT !.todo = @ \ {k}, !.avail = IF k \in keys THEN @ \cup Offer[k] ELSE @]
    <3>1. q \in CallType
      BY <1>3, RoutingAssumption DEF CallType
    <3>2. ReadyCall(q)
      BY <1>3, <1>6 DEF ReadyCall, ReadKey, Calling, CallType
    <3> QED
      BY <2>2, <3>1, <3>2, PutTypes
  <2> QED
    BY <1>1, <1>2, <1>6, <2>1, <2>2 DEF ReadKey
<1>7. CASE ReadConfig(c)
  <2> DEFINE q == [call[c] EXCEPT !.pc = "ask", !.set = InForce]
  <2>1. InForce # None => q \in CallType /\ ReadyCall(q)
    BY <1>3, <1>7, InForceType DEF CallType, ReadyCall, ReadConfig, Calling, TableTyped
  <2> QED
    BY <1>1, <1>2, <1>5, <1>7, <2>1, PutTypes DEF ReadConfig, End, Calling
<1>8. CASE AskClassifier(c)
  <2> DEFINE q == [call[c] EXCEPT !.pc = "select", !.asked = engine.classifier]
  <2>1. q \in CallType /\ ReadyCall(q)
    BY <1>3, <1>8 DEF CallType, ReadyCall, AskClassifier, Calling, MemoryTyped
  <2> QED
    BY <1>1, <1>2, <1>8, <2>1, PutTypes DEF AskClassifier
<1>9. CASE Select(c)
  <2>0. PICK said \in Levels : \E m \in Best(call[c].avail, call[c].set, Level(c, said)) :
          Put(c, [call[c] EXCEPT !.pc = "end", !.level = Level(c, said), !.model = m])
    BY <1>9 DEF Select
  <2>1. PICK m \in Best(call[c].avail, call[c].set, Level(c, said)) :
          Put(c, [call[c] EXCEPT !.pc = "end", !.level = Level(c, said), !.model = m])
    BY <2>0
  <2>2. call[c].pc = "select" /\ call[c].set \in Settings
    BY <1>3, <1>9 DEF Select, Calling, ReadyCall
  <2>3. Level(c, said) \in Levels /\ m \in Models
    BY <1>3, <2>2, LevelType, BestIsOffered DEF CallType
  <2> DEFINE q == [call[c] EXCEPT !.pc = "end", !.level = Level(c, said), !.model = m]
  <2>4. q \in CallType /\ ReadyCall(q)
    BY <1>3, <2>2, <2>3 DEF CallType, ReadyCall
  <2> QED
    BY <1>1, <1>2, <2>1, <2>4, PutTypes
<1> QED
  BY <1>4, <1>6, <1>7, <1>8, <1>9 DEF CallStep

LEMMA TypesKept == TInv /\ [Next]_<<world, vars>> => TInv'
<1> SUFFICES ASSUME TInv, [Next]_<<world, vars>> PROVE TInv'
  OBVIOUS
<1> USE DEF TInv
<1>1. CASE UNCHANGED <<world, vars>>
  BY <1>1 DEF vars, ReqsTyped, CallsTyped, TableTyped, MemoryTyped
<1>2. CASE Next
  <2>1. UNCHANGED world
    BY <1>2 DEF Next
  <2>2. ASSUME NEW r \in Reqs, Create(r) \/ Update(r) \/ Delete(r) \/ Refresh(r) \/ ReqStep(r)
        PROVE  TInv'
    BY <2>1, <2>2, RequestTypes
  <2>3. ASSUME NEW c \in Calls, Call(c) \/ CallStep(c) PROVE TInv'
    BY <2>1, <2>3, CallTypes
  <2>4. [Rest EXCEPT !.pc = "list"] \in LoadType
    BY DEF Rest, LoadType
  <2>5. CASE Tick
    BY <2>1, <2>4, <2>5 DEF Tick, ReqsTyped, CallsTyped, TableTyped, MemoryTyped
  <2>6. CASE TimerStep
    <3>1. PICK next \in {Rest} \cup [pc : {"set"}, seen : Settings \cup {None}] :
            /\ Load(timer, next) /\ timer' = next /\ listening' = (listening \/ next = Rest)
      BY <2>6 DEF TimerStep
    <3>2. timer' \in LoadType /\ engine' \in [on : BOOLEAN, classifier : Classifiers]
      BY <3>1, LoadTypes DEF MemoryTyped
    <3>3. listening' \in BOOLEAN
      BY <3>1 DEF MemoryTyped
    <3> QED
      BY <2>1, <2>6, <3>2, <3>3, DisturbTypes DEF TimerStep, ReqsTyped, TableTyped, MemoryTyped
  <2>7. CASE Crash
    <3>1. MemoryTyped'
      BY <2>4, <2>7 DEF Crash, MemoryTyped, Classifiers
    <3>2. ReqsTyped'
      <4>1. Idle \in ReqType /\ ReadyReq(Idle)
        BY DEF ReadyReq, Idle, Rest, ReqType, LoadType, Row
      <4>2. req' = [r \in Reqs |-> Idle]
        BY <2>7 DEF Crash
      <4> QED
        BY <4>1, <4>2 DEF ReqsTyped
    <3>3. ASSUME NEW c \in Calls PROVE call'[c] \in CallType /\ ReadyCall(call'[c])
      <4>1. call'[c] = call[c] \/ call'[c] = [call[c] EXCEPT !.pc = "end", !.calm = FALSE]
        BY <2>7 DEF Crash
      <4> QED
        <5>1. call[c] \in CallType /\ ReadyCall(call[c])
          BY DEF CallsTyped
        <5>2. [call[c] EXCEPT !.pc = "end", !.calm = FALSE] \in CallType
          BY <5>1 DEF CallType
        <5>3. ReadyCall([call[c] EXCEPT !.pc = "end", !.calm = FALSE])
          BY <5>1 DEF CallType, ReadyCall
        <5> QED
          BY <4>1, <5>1, <5>2, <5>3
    <3>4. call' = [c \in Calls |-> call'[c]]
      BY <2>7 DEF Crash
    <3> QED
      BY <2>1, <2>7, <3>1, <3>2, <3>3, <3>4 DEF Crash, TableTyped, CallsTyped
  <2>8. CASE DeleteKey
    BY <2>1, <2>8 DEF DeleteKey, ReqsTyped, CallsTyped, TableTyped, MemoryTyped
  <2> QED
    BY <1>2, <2>2, <2>3, <2>5, <2>6, <2>7, <2>8 DEF Next, Step
<1> QED
  BY <1>1, <1>2

\* Every variable keeps its type, in every environment.
THEOREM TypeCorrect == Spec => []RoutingTypeOK
<1>1. Init => TInv
  BY TypesInitially
<1>2. TInv /\ [Next]_<<world, vars>> => TInv'
  BY TypesKept
<1>3. TInv => RoutingTypeOK
  BY DEF TInv, ReqsTyped, CallsTyped, TableTyped, MemoryTyped, RoutingTypeOK, ReqType, CallType,
         LoadType, ReadyCall
<1> QED
  BY <1>1, <1>2, <1>3, PTL DEF Spec

\* Where a configuration names no model of the bot, a harder request is never
\* given a weaker model than an easier one might be, for any models and scores.
THEOREM HarderIsNotWeaker == Spec => []HarderGetsStronger
<1>1. Init => TInv
  BY TypesInitially
<1>2. TInv /\ [Next]_<<world, vars>> => TInv'
  BY TypesKept
<1>3. TInv => HarderGetsStronger
  <2> SUFFICES ASSUME TInv, NEW c \in Calls, call[c].model # None,
                      Named(call[c].avail, call[c].set, call[c].level) = {},
                      NEW l \in 0 .. (call[c].level - 1), Named(call[c].avail, call[c].set, l) = {},
                      NEW m \in Best(call[c].avail, call[c].set, l)
               PROVE  Score[m] <= Score[call[c].model]
    BY DEF HarderGetsStronger
  <2>1. /\ call[c].avail \in SUBSET Models /\ call[c].level \in Levels
        /\ call[c].model \in Best(call[c].avail, call[c].set, call[c].level)
    BY DEF TInv, CallsTyped, CallType, ReadyCall
  <2>2. l \in Levels /\ l < call[c].level
    BY <2>1 DEF Levels
  <2> QED
    BY <2>1, <2>2, HarderIsStronger
<1> QED
  BY <1>1, <1>2, <1>3, PTL DEF Spec

-----------------------------------------------------------------------------
(* ClassifierBelongs: one request at a time, no query failing              *)

Sane == world.serial /\ ~world.faults

\* At most one request is under way, and no copy by the timer beside it; the
\* server takes none before the first copy.
OneAtATime ==
  /\ \A r, s \in Reqs : req[r].pc # "idle" /\ req[s].pc # "idle" => r = s
  /\ \A r \in Reqs : req[r].pc # "idle" => listening /\ ~Loading(timer)
  /\ ~listening => Loading(timer)

\* What a copy has read is in force until it is assigned.
Fresh(x) == x.pc = "set" => x.seen = InForce
CopiesFresh ==
  /\ Fresh(timer)
  /\ \A r \in Reqs : req[r].pc = "refresh" => Loading(req[r].load) /\ Fresh(req[r].load)

\* When nothing is under way, memory is what the table says.
MemoryCurrent == Quiet /\ ~Loading(timer) => engine = Loaded(InForce)

\* A call that nothing has disturbed sees memory and table agree.
Calm(q) ==
  /\ q.pc \in {"keys", "config"} => q.set = None
  /\ q.calm /\ q.pc \in {"keys", "config", "ask", "select"} =>
       engine = Loaded(InForce) /\ (q.set # None => q.set = InForce)
  /\ q.calm /\ q.pc = "select" => q.asked = engine.classifier
  /\ q.calm /\ q.pc = "end" /\ q.set # None => q.asked = q.set.classifier
CallsCalm == \A c \in Calls : Calm(call[c])

CInv == TInv /\ (Sane => OneAtATime /\ CopiesFresh /\ MemoryCurrent /\ CallsCalm)

\* A disturbed call asks nothing of table and memory any more.
LEMMA DisturbCalm == ASSUME CallsTyped, CallsCalm, Disturb PROVE CallsCalm'
<1> SUFFICES ASSUME NEW c \in Calls PROVE Calm(call[c])'
  BY DEF CallsCalm
<1>1. Calm(call[c]) /\ call[c] \in CallType
  BY DEF CallsCalm, CallsTyped
<1>2. CASE call[c].pc \in {"idle", "end"}
  <2>1. call'[c] = call[c]
    BY <1>2 DEF Disturb
  <2> QED
    BY <1>1, <1>2, <2>1 DEF Calm
<1>3. CASE call[c].pc \notin {"idle", "end"}
  <2>1. call'[c] = [call[c] EXCEPT !.calm = FALSE]
    BY <1>3 DEF Disturb
  <2>2. ~call'[c].calm /\ call'[c].pc = call[c].pc /\ call'[c].set = call[c].set
    BY <1>1, <2>1 DEF CallType
  <2> QED
    BY <1>1, <2>2 DEF Calm
<1> QED
  BY <1>2, <1>3

\* A call that is put in place of another.
LEMMA PutCalm ==
  ASSUME CallsTyped, CallsCalm, UNCHANGED <<table, engine>>, NEW c \in Calls, NEW q, Put(c, q), Calm(q)
  PROVE  CallsCalm'
<1>1. InForce' = InForce
  BY DEF InForce
<1> SUFFICES ASSUME NEW d \in Calls PROVE Calm(call[d])'
  BY DEF CallsCalm
<1>2. call'[d] = IF d = c THEN q ELSE call[d]
  BY DEF Put, CallsTyped
<1>3. Calm(call'[d])
  BY <1>2 DEF CallsCalm
<1> QED
  BY <1>1, <1>3 DEF Calm

LEMMA BeginCalm ==
  ASSUME CInv, Sane, NEW r \in Reqs, NEW row, NEW new, NEW pc \in {"write", "refresh"},
         Begin(r, row, new, pc)
  PROVE  OneAtATime' /\ CopiesFresh' /\ MemoryCurrent' /\ CallsCalm'
<1> DEFINE q == [Idle EXCEPT !.pc = pc, !.row = row, !.new = new,
                             !.load.pc = IF pc = "refresh" THEN "list" ELSE "idle"]
<1>1. Quiet /\ ~Loading(timer) /\ listening /\ UNCHANGED <<table, keys, engine, timer, listening>>
  BY DEF Begin, Sane
<1>2. req' = [req EXCEPT ![r] = q]
  BY DEF Begin, Set
<1>3. q.pc = pc /\ q.load.pc = IF pc = "refresh" THEN "list" ELSE "idle"
  BY DEF Idle, Rest
<1>4. \A s \in Reqs : req'[s] = IF s = r THEN q ELSE req[s]
  BY <1>2 DEF CInv, TInv, ReqsTyped
<1>5. InForce' = InForce
  BY <1>1 DEF InForce
<1>6. OneAtATime'
  BY <1>1, <1>4 DEF OneAtATime, Quiet, Loading
<1>7. CopiesFresh'
  <2>1. Fresh(timer)'
    BY <1>1 DEF Fresh, Loading
  <2>2. ASSUME NEW s \in Reqs, req'[s].pc = "refresh" PROVE req'[s].load.pc = "list"
    <3>1. s = r
      BY <1>1, <1>4, <2>2 DEF Quiet
    <3> QED
      BY <1>3, <1>4, <2>2, <3>1
  <2> QED
    BY <2>1, <2>2 DEF CopiesFresh, Loading, Fresh
<1>8. ~Quiet'
  BY <1>3, <1>4 DEF Quiet
<1>9. CallsCalm'
  BY DisturbCalm DEF Begin, CInv, TInv
<1> QED
  BY <1>6, <1>7, <1>8, <1>9 DEF MemoryCurrent

LEMMA RequestCalm ==
  ASSUME CInv, Sane, NEW r \in Reqs, Create(r) \/ Update(r) \/ Delete(r) \/ Refresh(r) \/ ReqStep(r)
  PROVE  OneAtATime' /\ CopiesFresh' /\ MemoryCurrent' /\ CallsCalm'
<1>1. CASE Create(r) \/ Update(r) \/ Delete(r) \/ Refresh(r)
  BY <1>1, BeginCalm DEF Create, Update, Delete, Refresh
<1>2. CASE WriteRow(r)
  <2> DEFINE q == [req[r] EXCEPT !.pc = "refresh", !.load.pc = "list"]
  <2>1. req' = [req EXCEPT ![r] = q] /\ req[r].pc = "write" /\ UNCHANGED <<keys, engine, timer, listening>>
    BY <1>2 DEF WriteRow, Set, Sane
  <2>2. req[r] \in ReqType
    BY DEF CInv, TInv, ReqsTyped
  <2>3. q.pc = "refresh" /\ q.load.pc = "list"
    BY <2>2 DEF ReqType, LoadType
  <2>4. \A s \in Reqs : req'[s] = IF s = r THEN q ELSE req[s]
    BY <2>1 DEF CInv, TInv, ReqsTyped
  <2>5. /\ \A s \in Reqs \ {r} : req[s].pc = "idle"
        /\ listening /\ ~Loading(timer)
    BY <2>1 DEF CInv, OneAtATime
  <2>6. OneAtATime'
    BY <2>1, <2>3, <2>4, <2>5 DEF OneAtATime, Loading
  <2>7. CopiesFresh'
    BY <2>1, <2>3, <2>4, <2>5 DEF CopiesFresh, Loading, Fresh
  <2>8. ~Quiet'
    BY <2>3, <2>4 DEF Quiet
  <2>9. CallsCalm'
    BY <1>2, DisturbCalm DEF WriteRow, CInv, TInv
  <2> QED
    BY <2>6, <2>7, <2>8, <2>9 DEF MemoryCurrent
<1>3. CASE RefreshStep(r)
  <2>1. PICK next \in {Rest} \cup [pc : {"set"}, seen : Settings \cup {None}] :
          /\ Load(req[r].load, next)
          /\ Set(r, IF next = Rest THEN Idle ELSE [req[r] EXCEPT !.load = next])
    BY <1>3 DEF RefreshStep
  <2>2. req[r] \in ReqType /\ req[r].pc = "refresh" /\ UNCHANGED <<table, keys, timer, listening>>
    BY <1>3 DEF RefreshStep, CInv, TInv, ReqsTyped
  <2>3. /\ \A s \in Reqs \ {r} : req[s].pc = "idle"
        /\ listening /\ ~Loading(timer) /\ Fresh(req[r].load)
    BY <2>2 DEF CInv, OneAtATime, CopiesFresh
  <2>4. InForce' = InForce
    BY <2>2 DEF InForce
  <2>5. CallsCalm'
    BY <1>3, DisturbCalm DEF RefreshStep, CInv, TInv
  <2>6. CASE next = Rest
    <3>1. engine' = Loaded(InForce)
      BY <2>1, <2>3, <2>6 DEF Load, ListConfigs, Rest, SetEngine, Fresh, Sane
    <3>2. \A s \in Reqs : req'[s].pc = "idle"
      BY <2>1, <2>3, <2>6 DEF Set, Idle, CInv, TInv, ReqsTyped
    <3>3. MemoryCurrent'
      BY <2>2, <2>4, <3>1 DEF MemoryCurrent, Loaded
    <3> QED
      BY <2>2, <2>3, <2>4, <2>5, <3>2, <3>3 DEF OneAtATime, CopiesFresh, Loading, Fresh
  <2>7. CASE next # Rest
    <3> DEFINE q == [req[r] EXCEPT !.load = next]
    <3>1. next = [pc |-> "set", seen |-> InForce]
      BY <2>1, <2>7 DEF Load, ListConfigs
    <3>2. q.pc = "refresh" /\ q.load = next
      BY <2>2 DEF ReqType
    <3>3. \A s \in Reqs : req'[s] = IF s = r THEN q ELSE req[s]
      BY <2>1, <2>7 DEF Set, CInv, TInv, ReqsTyped
    <3>4. OneAtATime'
      BY <2>2, <2>3, <3>2, <3>3 DEF OneAtATime, Loading
    <3>5. CopiesFresh'
      <4>1. Fresh(timer)'
        BY <2>2, <2>3 DEF Fresh, Loading
      <4>2. ASSUME NEW s \in Reqs, req'[s].pc = "refresh"
            PROVE  req'[s].load.pc = "set" /\ req'[s].load.seen = InForce
        <5>1. s = r
          BY <2>3, <3>3, <4>2
        <5>2. next.pc = "set" /\ next.seen = InForce
          BY <3>1
        <5>3. req'[s] = q
          BY <3>3, <5>1
        <5> HIDE DEF q
        <5> QED
          BY <3>2, <5>2, <5>3
      <4> QED
        BY <2>4, <4>1, <4>2 DEF CopiesFresh, Loading, Fresh
    <3>6. ~Quiet'
      BY <3>2, <3>3 DEF Quiet
    <3> QED
      BY <2>5, <3>4, <3>5, <3>6 DEF MemoryCurrent
  <2> QED
    BY <2>6, <2>7
<1> QED
  BY <1>1, <1>2, <1>3 DEF ReqStep

LEMMA CallCalm ==
  ASSUME CInv, Sane, NEW c \in Calls, Call(c) \/ CallStep(c)
  PROVE  OneAtATime' /\ CopiesFresh' /\ MemoryCurrent' /\ CallsCalm'
<1>1. UNCHANGED <<table, keys, engine, req, timer, listening>>
  BY DEF Call, CallStep, ReadKey, ReadConfig, AskClassifier, Select, Calling
<1>2. OneAtATime' /\ CopiesFresh' /\ MemoryCurrent'
  <2>1. InForce' = InForce
    BY <1>1 DEF InForce
  <2> QED
    BY <1>1, <2>1 DEF CInv, OneAtATime, CopiesFresh, MemoryCurrent, Quiet, Loading, Fresh, Loaded
<1>3. call[c] \in CallType /\ ReadyCall(call[c]) /\ Calm(call[c])
  BY DEF CInv, TInv, CallsTyped, CallsCalm
<1>4. \A q : Put(c, q) /\ Calm(q) => CallsCalm'
  BY <1>1, PutCalm DEF CInv, TInv
<1>5. CASE Call(c)
  <2> DEFINE Q(tools) == [Silent EXCEPT !.pc = "keys", !.todo = Keys, !.tools = tools,
                                        !.calm = (Quiet /\ ~Loading(timer))]
  <2>1. PICK tools \in BOOLEAN : Put(c, Q(tools))
    BY <1>5 DEF Call
  <2>2. Q(tools).pc = "keys" /\ Q(tools).set = None /\ Q(tools).calm = (Quiet /\ ~Loading(timer))
    BY DEF Silent
  <2>3. Calm(Q(tools))
    BY <2>2 DEF Calm, CInv, MemoryCurrent
  <2> QED
    BY <1>2, <1>4, <2>1, <2>3
<1>6. ASSUME call[c].set = None, NEW pc \in {"config", "end"}, call[c].pc \in {"keys", "config"}
      PROVE  Calm([call[c] EXCEPT !.pc = pc])
  BY <1>3, <1>6 DEF Calm, CallType
<1>7. CASE ReadKey(c)
  <2>1. call[c].pc = "keys" /\ call[c].set = None
    BY <1>3, <1>7 DEF ReadKey, Calling, Calm
  <2>2. ASSUME NEW k \in call[c].todo,
               Put(c, [call[c] EXCEPT !.todo = @ \ {k}, !.avail = IF k \in keys THEN @ \cup Offer[k] ELSE @])
        PROVE  CallsCalm'
    <3> DEFINE q == [call[c] EXCEPT !.todo = @ \ {k}, !.avail = IF k \in keys THEN @ \cup Offer[k] ELSE @]
    <3>1. q.pc = "keys" /\ q.set = None /\ q.calm = call[c].calm
      BY <1>3, <2>1 DEF CallType
    <3>2. Calm(q)
      BY <1>3, <2>1, <3>1 DEF Calm
    <3> QED
      BY <1>4, <2>2, <3>2
  <2>3. ASSUME \E pc \in {"config", "end"} : Put(c, [call[c] EXCEPT !.pc = pc])
        PROVE  CallsCalm'
    BY <1>4, <1>6, <2>1, <2>3
  <2> QED
    BY <1>2, <1>7, <2>2, <2>3 DEF ReadKey, End
<1>8. CASE ReadConfig(c)
  <2>1. call[c].pc = "config" /\ call[c].set = None
    BY <1>3, <1>8 DEF ReadConfig, Calling, Calm
  <2> DEFINE q == [call[c] EXCEPT !.pc = "ask", !.set = InForce]
  <2>2. q.pc = "ask" /\ q.set = InForce /\ q.calm = call[c].calm
    BY <1>3 DEF CallType
  <2>3. Calm(q)
    BY <1>3, <2>1, <2>2 DEF Calm
  <2> QED
    BY <1>2, <1>4, <1>6, <1>8, <2>1, <2>3 DEF ReadConfig, End
<1>9. CASE AskClassifier(c)
  <2>1. call[c].pc = "ask"
    BY <1>9 DEF AskClassifier, Calling
  <2> DEFINE q == [call[c] EXCEPT !.pc = "select", !.asked = engine.classifier]
  <2>2. q.pc = "select" /\ q.set = call[c].set /\ q.calm = call[c].calm /\ q.asked = engine.classifier
    BY <1>3 DEF CallType
  <2>3. Calm(q)
    BY <1>3, <2>1, <2>2 DEF Calm
  <2> QED
    BY <1>2, <1>4, <1>9, <2>3 DEF AskClassifier
<1>10. CASE Select(c)
  <2>1. call[c].pc = "select"
    BY <1>10 DEF Select, Calling
  <2>2. PICK l, m : Put(c, [call[c] EXCEPT !.pc = "end", !.level = l, !.model = m])
    BY <1>10 DEF Select
  <2> DEFINE q == [call[c] EXCEPT !.pc = "end", !.level = l, !.model = m]
  <2>3. q.pc = "end" /\ q.set = call[c].set /\ q.calm = call[c].calm /\ q.asked = call[c].asked
    BY <1>3 DEF CallType
  <2>4. Calm(q)
    BY <1>3, <2>1, <2>3 DEF Calm, Loaded
  <2> QED
    BY <1>2, <1>4, <2>2, <2>4
<1> QED
  BY <1>5, <1>7, <1>8, <1>9, <1>10 DEF CallStep

LEMMA CalmKept == CInv /\ [Next]_<<world, vars>> => CInv'
<1> SUFFICES ASSUME CInv, [Next]_<<world, vars>> PROVE CInv'
  OBVIOUS
<1>1. TInv'
  BY TypesKept DEF CInv
<1>2. UNCHANGED world
  BY DEF Next
<1> SUFFICES ASSUME Sane PROVE OneAtATime' /\ CopiesFresh' /\ MemoryCurrent' /\ CallsCalm'
  BY <1>1, <1>2 DEF CInv, Sane
<1>3. UNCHANGED table => InForce' = InForce
  BY DEF InForce
<1>4. CASE UNCHANGED <<world, vars>>
  BY <1>3, <1>4 DEF CInv, vars, OneAtATime, CopiesFresh, MemoryCurrent, Quiet, Loading, Fresh, Loaded,
     CallsCalm, Calm
<1>5. CASE \E r \in Reqs : Create(r) \/ Update(r) \/ Delete(r) \/ Refresh(r) \/ ReqStep(r)
  BY <1>5, RequestCalm
<1>6. CASE \E c \in Calls : Call(c) \/ CallStep(c)
  BY <1>6, CallCalm
<1>7. CASE Tick
  <2>1. Quiet /\ listening /\ UNCHANGED <<table, keys, engine, req, listening, call>>
    BY <1>7 DEF Tick, Sane
  <2>2. timer'.pc = "list"
    BY <1>7 DEF Tick, Rest
  <2>3. OneAtATime' /\ CopiesFresh' /\ MemoryCurrent'
    BY <1>3, <2>1, <2>2 DEF OneAtATime, CopiesFresh, MemoryCurrent, Quiet, Loading, Fresh
  <2>4. CallsCalm'
    BY <1>3, <2>1 DEF CInv, CallsCalm, Calm, Loaded
  <2> QED
    BY <2>3, <2>4
<1>8. CASE TimerStep
  <2>1. PICK next \in {Rest} \cup [pc : {"set"}, seen : Settings \cup {None}] :
          /\ Load(timer, next) /\ timer' = next /\ listening' = (listening \/ next = Rest)
    BY <1>8 DEF TimerStep
  <2>2. UNCHANGED <<table, keys, req>> /\ CallsCalm'
    BY <1>8, DisturbCalm DEF TimerStep, CInv, TInv
  <2>3. Loading(timer) /\ Fresh(timer)
    BY <2>1 DEF Load, ListConfigs, Loading, CInv, CopiesFresh
  <2>4. Quiet
    BY <2>3 DEF CInv, OneAtATime, Quiet
  <2>5. CASE next = Rest
    <3>1. engine' = Loaded(InForce)
      BY <2>1, <2>3, <2>5 DEF Load, ListConfigs, Rest, SetEngine, Fresh, Sane
    <3> QED
      BY <1>3, <2>1, <2>2, <2>4, <2>5, <3>1
         DEF OneAtATime, CopiesFresh, MemoryCurrent, Quiet, Loading, Fresh, Rest, Loaded
  <2>6. CASE next # Rest
    <3>1. next = [pc |-> "set", seen |-> InForce]
      BY <2>1, <2>6 DEF Load, ListConfigs
    <3> QED
      BY <1>3, <2>1, <2>2, <2>4, <3>1 DEF OneAtATime, CopiesFresh, MemoryCurrent, Quiet, Loading, Fresh
  <2> QED
    BY <2>5, <2>6
<1>9. CASE Crash
  <2>1. /\ \A r \in Reqs : req'[r].pc = "idle"
        /\ timer'.pc = "list"
    BY <1>9 DEF Crash, Idle, Rest
  <2>2. ASSUME NEW c \in Calls PROVE Calm(call[c])'
    <3>1. call[c] \in CallType
      BY DEF CInv, TInv, CallsTyped
    <3>2. call'[c] = IF call[c].pc = "idle" THEN call[c] ELSE [call[c] EXCEPT !.pc = "end", !.calm = FALSE]
      BY <1>9 DEF Crash
    <3>3. call'[c].pc = "idle" \/ (call'[c].pc = "end" /\ ~call'[c].calm)
      BY <3>1, <3>2 DEF CallType
    <3> QED
      BY <3>3 DEF Calm
  <2> QED
    BY <2>1, <2>2 DEF OneAtATime, CopiesFresh, MemoryCurrent, Loading, Fresh, CallsCalm
<1>10. CASE DeleteKey
  BY <1>3, <1>10 DEF DeleteKey, CInv, OneAtATime, CopiesFresh, MemoryCurrent, Quiet, Loading, Fresh, Loaded,
     CallsCalm, Calm
<1> QED
  BY <1>4, <1>5, <1>6, <1>7, <1>8, <1>9, <1>10 DEF Next, Step

\* One request at a time, no query failing: a call that nothing overlaps is
\* classified by the configuration its model is looked up in, for any tables
\* and any number of calls, changes, refreshes and restarts before it.
THEOREM ClassifierIsOfTheConfiguration == Spec => []ClassifierBelongs
<1>1. Init => CInv
  <2> SUFFICES ASSUME Init PROVE CInv
    OBVIOUS
  <2>1. TInv
    BY TypesInitially
  <2>2. \A r \in Reqs : req[r].pc = "idle"
    BY DEF Init, Idle
  <2>3. timer.pc = "list" /\ ~listening
    BY DEF Init, Rest
  <2>4. \A c \in Calls : call[c].pc = "idle"
    BY DEF Init, Silent
  <2> QED
    BY <2>1, <2>2, <2>3, <2>4 DEF CInv, OneAtATime, CopiesFresh, MemoryCurrent, Loading, Fresh, CallsCalm, Calm
<1>2. CInv /\ [Next]_<<world, vars>> => CInv'
  BY CalmKept
<1>3. CInv => ClassifierBelongs
  <2> SUFFICES ASSUME CInv, Sane, NEW c \in Calls, call[c].calm, call[c].pc \in {"select", "end"},
                      call[c].set # None
               PROVE  call[c].asked = call[c].set.classifier
    BY DEF ClassifierBelongs, Sane
  <2>1. Calm(call[c])
    BY DEF CInv, CallsCalm
  <2> QED
    BY <2>1 DEF Calm, Loaded
<1> QED
  BY <1>1, <1>2, <1>3, PTL DEF Spec
=============================================================================
