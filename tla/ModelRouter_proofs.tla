------------------------- MODULE ModelRouter_proofs -------------------------
(***************************************************************************)
(* For any routings, keys, requests and lists of targets: while an index   *)
(* is used with lists of one length only, no request is sent behind the    *)
(* end of its list and the targets take turns; and failover gives up only  *)
(* after every attempt at every target, always.                            *)
(***************************************************************************)
EXTENDS ModelRouter, FiniteSetTheorems, TLAPS

Fields == {"pc", "op", "id", "config", "list", "i", "target", "attempt", "tried"}
Entries == [id : Routings, config : Configs]
AdminOps == {"update", "delete"}
Writing == {"write", "clear"}

\* What a request read of a routing is what users wrote; while it is under way
\* and writers are alone, the routing stays as it was read.
Current(e) ==
  /\ e.config \in world.configs
  /\ Serial => Live(e.id) /\ row[e.id].config = e.config

\* Failover is done with the targets before the i-th, and has not begun with
\* those behind it.
Trying(q) ==
  LET targets == q.config.targets
  IN  /\ q.config \in Configs /\ q.i \in 1 .. Len(targets) /\ DOMAIN q.tried = 1 .. Len(targets)
      /\ q.attempt = q.tried[q.i] /\ q.attempt < MaxAttempts
      /\ \A n \in 1 .. Len(targets) :
           /\ n < q.i => q.tried[n] = MaxAttempts \/ targets[n] \notin keys
           /\ n > q.i => q.tried[n] = 0

Shape(q) ==
  /\ DOMAIN q = Fields
  /\ q.attempt \in 0 .. MaxAttempts /\ \A n \in DOMAIN q.tried : q.tried[n] \in 0 .. MaxAttempts
  /\ q.pc \in {"resolve", "default"} => q.target \in Keys
  /\ q.pc \in Writing <=> q.op \in AdminOps
  /\ q.pc \in Writing => q.id \in Routings
  /\ q.pc = "write" /\ q.op = "update" => q.config \in world.configs
  /\ q.pc = "resolve" =>
       /\ q.list \in Seq(Entries) /\ q.i \in 1 .. Len(q.list)
       /\ \A n \in 1 .. Len(q.list) : Current(q.list[n])
  /\ q.pc \in {"attempt", "operate"} => Trying(q)

Typed ==
  /\ world \in Worlds /\ keys \subseteq Keys /\ DOMAIN row = Routings
  /\ \A id \in Routings :
       \/ row[id] \in {Gone("new"), Gone("gone")}
       \/ /\ row[id] \in [st : {"live"}, enabled : BOOLEAN, prio : Priorities, config : Configs]
          /\ row[id].config \in world.configs
  /\ lb \in [Routings -> Nat \cup {None}] /\ round \in [Routings -> SUBSET Nat]

\* Writers alone are alone.
Alone == Serial => \A r, s \in Reqs : IsAdmin(r) /\ r # s => At(s, "idle")

\* An index kept in memory is one of the list in the row, or about to be
\* cleared; with lists of one length, it is one of every list.
FitsRow(id) ==
  Live(id) /\ row[id].config.type = "round_robin" /\ lb[id] < Len(row[id].config.targets)
Clearing(id) == \E r \in Reqs : At(r, "clear") /\ req[r].id = id
Fits ==
  /\ Serial => \A id \in Routings : lb[id] # None => FitsRow(id) \/ Clearing(id)
  /\ OneLength => \A id \in Routings : \A c \in world.configs :
                    c.type = "round_robin" => Index(id) < Len(c.targets)

\* The targets taken in this round are those before the index.
InTurn == OneCount => \A id \in Routings : round[id] = 0 .. Index(id) - 1

RouterInv ==
  /\ Typed /\ DOMAIN req = Reqs /\ \A r \in Reqs : Shape(req[r])
  /\ Alone /\ Fits /\ InTurn
  /\ OneCount => \A r \in Reqs : ~At(r, "crashed")
-----------------------------------------------------------------------------
(* A request that reads, fails or gives up                                 *)

\* A step of a request touches no other.
LEMMA OneRequest ==
  ASSUME RouterInv, NEW r \in Reqs, NEW q, Set(r, q)
  PROVE  DOMAIN req' = Reqs /\ req'[r] = q /\ \A s \in Reqs \ {r} : req'[s] = req[s]
BY DEF RouterInv, Set

\* A request keeps its shape when keys go and no writer is at work on the rows.
LEMMA ShapeKept ==
  ASSUME RouterInv, NEW q, Shape(q), world' = world, keys' \subseteq keys, row' = row \/ ~Serial
  PROVE  Shape(q)'
<1>1. ASSUME NEW e, Current(e)
      PROVE  Current(e)'
  BY <1>1 DEF Current, Serial, Live
<1>2. ASSUME Trying(q) PROVE Trying(q)'
  BY <1>2 DEF Trying
<1> QED
  BY <1>1, <1>2 DEF Shape

\* The shape of a request that read nothing says nothing of rows and keys.
LEMMA ShapeApart ==
  ASSUME NEW q, Shape(q), world' = world, q.pc \in {"idle", "clear"}
  PROVE  Shape(q)'
BY DEF Shape, Writing

\* Rows, keys and indexes stay; the request was not clearing an index, and
\* where it goes is in order.
LEMMA Reads ==
  ASSUME RouterInv, UNCHANGED <<row, keys, lb, round, world>>, NEW r \in Reqs, NEW q, Set(r, q), Shape(q),
         ~At(r, "clear"), q.pc # "crashed",
         ~Serial \/ \A s \in Reqs \ {r} : ~IsAdmin(s),
         ~Serial \/ q.op \notin AdminOps \/ \A s \in Reqs \ {r} : At(s, "idle")
  PROVE  RouterInv'
<1>1. DOMAIN req' = Reqs /\ req'[r] = q /\ \A s \in Reqs \ {r} : req'[s] = req[s]
  BY OneRequest
<1>2. \A s \in Reqs : Shape(req'[s])
  BY <1>1 DEF RouterInv
<1>3. \A s \in Reqs : Shape(req[s])'
  BY <1>2, ShapeKept
<1>4. Typed'
  BY DEF RouterInv, Typed
<1>5. Alone'
  BY <1>1 DEF Alone, Serial, IsAdmin, At, AdminOps
<1>6. Fits'
  <2>1. \A id \in Routings : Clearing(id) => Clearing(id)'
    BY <1>1 DEF Clearing, At
  <2>2. \A id \in Routings : FitsRow(id) => FitsRow(id)'
    BY DEF FitsRow, Live
  <2> QED
    BY <2>1, <2>2 DEF RouterInv, Fits, Serial, OneLength, Index
<1>7. InTurn'
  BY DEF RouterInv, InTurn, OneCount, Serial, OneLength, Index
<1>8. OneCount' => \A s \in Reqs : ~At(s, "crashed")'
  BY <1>1 DEF RouterInv, OneCount, Serial, OneLength, At
<1> QED
  BY <1>1, <1>3, <1>4, <1>5, <1>6, <1>7, <1>8 DEF RouterInv

\* No writer is at work while a request reads.
LEMMA NoWriter ==
  ASSUME RouterInv, NEW r \in Reqs, ~At(r, "idle"), ~IsAdmin(r)
  PROVE  ~Serial \/ \A s \in Reqs \ {r} : ~IsAdmin(s)
BY DEF RouterInv, Alone

LEMMA Reader ==
  ASSUME RouterInv, NEW r \in Reqs, req[r].pc \notin Writing
  PROVE  ~IsAdmin(r) /\ ~At(r, "clear") /\ DOMAIN req[r] = Fields
BY DEF RouterInv, Shape, IsAdmin, AdminOps, Writing, At

\* A request that reads goes on to where nothing is to be read of a list.
LEMMA ReaderMoves ==
  ASSUME RouterInv, UNCHANGED <<row, keys, lb, round, world>>, NEW r \in Reqs,
         req[r].pc \notin Writing \cup {"idle"},
         NEW pc, pc \notin Writing \cup {"resolve", "default", "attempt", "operate", "crashed"}, Goto(r, pc)
  PROVE  RouterInv'
<1> DEFINE q == [req[r] EXCEPT !.pc = pc]
<1>1. Shape(req[r])
  BY DEF RouterInv
<1>2. /\ DOMAIN q = Fields /\ q.pc = pc /\ q.op = req[r].op /\ q.attempt = req[r].attempt /\ q.tried = req[r].tried
  BY <1>1 DEF Shape, Fields
<1>3. Set(r, q)
  BY DEF Goto
<1> HIDE DEF q
<1>4. Shape(q)
  BY <1>1, <1>2 DEF Shape, Writing
<1>5. ~IsAdmin(r) /\ ~At(r, "clear") /\ ~At(r, "idle")
  BY Reader DEF At
<1>6. ~Serial \/ \A s \in Reqs \ {r} : ~IsAdmin(s)
  BY <1>5, NoWriter
<1>7. q.op \notin AdminOps
  BY <1>2, <1>5 DEF IsAdmin, AdminOps
<1> QED
  BY <1>2, <1>3, <1>4, <1>5, <1>6, <1>7, Reads DEF Writing

LEMMA NoneIsNoName == None \notin AdminOps
BY ModelRouterAssumption DEF AdminOps

LEMMA IdleShape ==
  /\ DOMAIN Idle = Fields /\ Idle.pc = "idle" /\ Idle.op = None /\ Idle.attempt = 0 /\ Idle.tried = <<>>
  /\ Shape(Idle)
<1>1. DOMAIN Idle = Fields /\ Idle.pc = "idle" /\ Idle.op = None /\ Idle.attempt = 0 /\ Idle.tried = <<>>
  BY DEF Idle, Fields
<1>2. DOMAIN <<>> = {}
  OBVIOUS
<1>3. None \notin AdminOps
  BY NoneIsNoName
<1> QED
  BY <1>1, <1>2, <1>3, ModelRouterAssumption DEF Shape, Writing

\* The end of a request, of which the next knows nothing.
LEMMA ReaderEnds ==
  ASSUME RouterInv, UNCHANGED <<row, keys, lb, round, world>>, NEW r \in Reqs,
         req[r].pc \notin Writing \cup {"idle"}, Set(r, Idle)
  PROVE  RouterInv'
<1>1. ~IsAdmin(r) /\ ~At(r, "clear") /\ ~At(r, "idle")
  BY Reader DEF At
<1>2. Idle.op \notin AdminOps
  BY IdleShape, NoneIsNoName
<1> QED
  BY <1>1, <1>2, NoWriter, IdleShape, Reads
-----------------------------------------------------------------------------
(* Requests come in                                                        *)

\* A request that comes in alone, or that only reads, is in order.
LEMMA Arrives ==
  ASSUME RouterInv, UNCHANGED <<row, keys, lb, round, world>>, NEW r \in Reqs, At(r, "idle"),
         NEW q, Set(r, q), Shape(q), q.pc # "crashed",
         \/ q.op \in AdminOps /\ MayStart(TRUE)
         \/ q.op \notin AdminOps /\ MayStart(FALSE)
  PROVE  RouterInv'
<1>1. ~At(r, "clear")
  BY DEF At
<1>2. \A s \in Reqs : At(s, "idle") => ~IsAdmin(s)
  BY DEF RouterInv, Shape, IsAdmin, AdminOps, Writing, At
<1>3. ~Serial \/ \A s \in Reqs \ {r} : ~IsAdmin(s)
  BY <1>2 DEF MayStart, Quiet
<1>4. ~Serial \/ q.op \notin AdminOps \/ \A s \in Reqs \ {r} : At(s, "idle")
  BY DEF MayStart, Quiet
<1> QED
  BY <1>1, <1>3, <1>4, Reads

LEMMA AdminArrives ==
  ASSUME RouterInv, UNCHANGED world, NEW r \in Reqs, NEW id \in Routings,
         StartDelete(r, id) \/ \E c \in Configs : StartUpdate(r, id, c)
  PROVE  RouterInv'
<1>1. ASSUME NEW q, Set(r, q), At(r, "idle"), MayStart(TRUE), UNCHANGED <<Data, Memory>>,
             DOMAIN q = Fields, q.pc = "write", q.op \in AdminOps, q.id = id, q.attempt = 0, q.tried = <<>>,
             q.op = "delete" \/ q.config \in world.configs
      PROVE  RouterInv'
  <2>1. Shape(q)
    <3>1. DOMAIN q.tried = {} /\ q.attempt \in 0 .. MaxAttempts
      BY <1>1, ModelRouterAssumption
    <3> QED
      BY <1>1, <3>1 DEF Shape, Writing
  <2> QED
    BY <1>1, <2>1, Arrives DEF Data, Memory
<1>2. CASE StartDelete(r, id)
  <2> DEFINE q == [Idle EXCEPT !.pc = "write", !.op = "delete", !.id = id]
  <2>1. /\ DOMAIN q = Fields /\ q.pc = "write" /\ q.op = "delete" /\ q.id = id /\ q.attempt = 0
        /\ q.tried = <<>>
    BY DEF Idle, Fields
  <2>2. Set(r, q) /\ At(r, "idle") /\ MayStart(TRUE) /\ UNCHANGED <<Data, Memory>>
    BY <1>2 DEF StartDelete
  <2> HIDE DEF q
  <2> QED
    BY <1>1, <2>1, <2>2 DEF AdminOps
<1>3. ASSUME NEW c \in Configs, StartUpdate(r, id, c)
      PROVE  RouterInv'
  <2> DEFINE q == [Idle EXCEPT !.pc = "write", !.op = "update", !.id = id, !.config = c]
  <2>1. /\ DOMAIN q = Fields /\ q.pc = "write" /\ q.op = "update" /\ q.id = id /\ q.config = c /\ q.attempt = 0
        /\ q.tried = <<>>
    BY DEF Idle, Fields
  <2>2. Set(r, q) /\ At(r, "idle") /\ MayStart(TRUE) /\ UNCHANGED <<Data, Memory>> /\ c \in world.configs
    BY <1>3 DEF StartUpdate
  <2> HIDE DEF q
  <2> QED
    BY <1>1, <2>1, <2>2 DEF AdminOps
<1> QED
  BY <1>2, <1>3

LEMMA ReaderArrives ==
  ASSUME RouterInv, UNCHANGED world, NEW r \in Reqs, NEW op \in {"route", "test"}, Start(r, op)
  PROVE  RouterInv'
<1> DEFINE q == [Idle EXCEPT !.pc = "list", !.op = op]
<1>1. DOMAIN q = Fields /\ q.pc = "list" /\ q.op = op /\ q.attempt = 0 /\ q.tried = <<>>
  BY DEF Idle, Fields
<1>2. Set(r, q) /\ At(r, "idle") /\ MayStart(FALSE) /\ UNCHANGED <<row, keys, lb, round, world>>
  BY DEF Start, Data, Memory
<1> HIDE DEF q
<1>3. Shape(q) /\ q.op \notin AdminOps
  <2>1. DOMAIN q.tried = {} /\ q.attempt \in 0 .. MaxAttempts
    BY <1>1, ModelRouterAssumption
  <2> QED
    BY <1>1, <2>1 DEF Shape, Writing, AdminOps
<1> QED
  BY <1>1, <1>2, <1>3, Arrives

\* The configuration in a row has targets, which are keys.
LEMMA TargetsAreKeys ==
  ASSUME NEW c \in Configs
  PROVE  c.targets \in Seq(Keys) /\ Len(c.targets) \in Nat \ {0}
         /\ \A n \in 1 .. Len(c.targets) : c.targets[n] \in Keys
<1>1. c.targets \in Seq(Keys) /\ c.targets # <<>>
  BY ModelRouterAssumption
<1>2. Len(c.targets) \in Nat /\ Len(c.targets) # 0
  BY <1>1
<1> QED
  BY <1>1, <1>2

LEMMA RowIsWritten ==
  ASSUME RouterInv, NEW id \in Routings, Live(id)
  PROVE  row[id].config \in Configs /\ row[id].config \in world.configs
<1>1. \/ row[id] \in {Gone("new"), Gone("gone")}
      \/ /\ row[id] \in [st : {"live"}, enabled : BOOLEAN, prio : Priorities, config : Configs]
         /\ row[id].config \in world.configs
  BY DEF RouterInv, Typed
<1>2. row[id] \notin {Gone("new"), Gone("gone")}
  BY DEF Live, Gone
<1> QED
  BY <1>1, <1>2

LEMMA FailoverArrives ==
  ASSUME RouterInv, UNCHANGED world, NEW r \in Reqs, NEW id \in Routings, StartFailover(r, id)
  PROVE  RouterInv'
<1>1. At(r, "idle") /\ MayStart(FALSE) /\ UNCHANGED <<row, keys, lb, round, world>>
  BY DEF StartFailover, Data, Memory
<1>2. CASE Live(id) /\ row[id].config.type = "failover"
  <2> DEFINE c == row[id].config
             zero == [n \in 1 .. Len(c.targets) |-> 0]
             q == [Idle EXCEPT !.pc = "attempt", !.op = "failover", !.config = c, !.i = 1, !.tried = zero]
  <2>1. /\ DOMAIN q = Fields /\ q.pc = "attempt" /\ q.op = "failover" /\ q.config = c /\ q.i = 1
        /\ q.tried = zero /\ q.attempt = 0
    BY DEF Idle, Fields
  <2>2. Set(r, q)
    BY <1>2 DEF StartFailover
  <2>3. c \in Configs /\ Len(c.targets) \in Nat \ {0}
    BY <1>2, RowIsWritten, TargetsAreKeys
  <2>4. DOMAIN zero = 1 .. Len(c.targets) /\ \A n \in 1 .. Len(c.targets) : zero[n] = 0
    OBVIOUS
  <2>5. MaxAttempts \in Nat /\ 0 < MaxAttempts
    BY ModelRouterAssumption
  <2> HIDE DEF q, c, zero
  <2>6. Trying(q)
    BY <2>1, <2>3, <2>4, <2>5 DEF Trying
  <2>7. Shape(q) /\ q.op \notin AdminOps
    BY <2>1, <2>4, <2>5, <2>6 DEF Shape, Writing, AdminOps
  <2> QED
    BY <1>1, <2>1, <2>2, <2>7, Arrives
<1>3. CASE ~(Live(id) /\ row[id].config.type = "failover")
  <2> DEFINE q == [Idle EXCEPT !.pc = "primary", !.op = "failover"]
  <2>1. DOMAIN q = Fields /\ q.pc = "primary" /\ q.op = "failover" /\ q.attempt = 0 /\ q.tried = <<>>
    BY DEF Idle, Fields
  <2>2. Set(r, q)
    BY <1>3 DEF StartFailover
  <2> HIDE DEF q
  <2>3. Shape(q) /\ q.op \notin AdminOps
    <3>1. DOMAIN q.tried = {} /\ q.attempt \in 0 .. MaxAttempts
      BY <2>1, ModelRouterAssumption
    <3> QED
      BY <2>1, <3>1 DEF Shape, Writing, AdminOps
  <2> QED
    BY <1>1, <2>1, <2>2, <2>3, Arrives
<1> QED
  BY <1>2, <1>3
-----------------------------------------------------------------------------
(* The default route, and failover                                         *)

\* A request goes on in another shape, without coming to write.
LEMMA ReaderGoesOn ==
  ASSUME RouterInv, UNCHANGED <<row, keys, lb, round, world>>, NEW r \in Reqs,
         req[r].pc \notin Writing \cup {"idle"},
         NEW q, Set(r, q), Shape(q), q.pc # "crashed", q.op = req[r].op
  PROVE  RouterInv'
<1>1. ~IsAdmin(r) /\ ~At(r, "clear") /\ ~At(r, "idle")
  BY Reader DEF At
<1>2. q.op \notin AdminOps
  BY <1>1 DEF IsAdmin, AdminOps
<1> QED
  BY <1>1, <1>2, NoWriter, Reads

LEMMA DefaultIsFound ==
  ASSUME RouterInv, UNCHANGED world, NEW r \in Reqs,
         FindPrimary(r) \/ FindFirst(r) \/ ResolveDefault(r) \/ OperateOnce(r) \/ Operate(r) \/ End(r)
  PROVE  RouterInv'
<1>1. UNCHANGED <<row, keys, lb, round, world>>
  BY DEF FindPrimary, FindFirst, ResolveDefault, OperateOnce, Operate, End, Data, Memory
<1>2. req[r].pc \notin Writing \cup {"idle"}
  BY DEF FindPrimary, FindFirst, ResolveDefault, OperateOnce, Operate, End, At, Writing
<1>3. ASSUME NEW pc \in {"first", "failed", "once", "done"}, Goto(r, pc)
      PROVE  RouterInv'
  BY <1>1, <1>2, <1>3, ReaderMoves DEF Writing
<1>4. ASSUME NEW k \in Keys, Set(r, [req[r] EXCEPT !.pc = "default", !.target = k])
      PROVE  RouterInv'
  <2> DEFINE q == [req[r] EXCEPT !.pc = "default", !.target = k]
  <2>1. Shape(req[r])
    BY DEF RouterInv
  <2>2. /\ DOMAIN q = Fields /\ q.pc = "default" /\ q.op = req[r].op /\ q.attempt = req[r].attempt
        /\ q.tried = req[r].tried /\ q.target = k
    BY <2>1 DEF Shape, Fields
  <2>3. Set(r, q)
    BY <1>4
  <2> HIDE DEF q
  <2>4. Shape(q)
    BY <1>2, <2>1, <2>2 DEF Shape, Writing
  <2> QED
    BY <1>1, <1>2, <2>2, <2>3, <2>4, ReaderGoesOn
<1>5. world.primary \in Keys \cup {None} /\ world.first \in Keys \cup {None}
  BY ModelRouterAssumption DEF RouterInv, Typed
<1>6. CASE FindPrimary(r) \/ FindFirst(r)
  BY <1>3, <1>4, <1>5, <1>6 DEF FindPrimary, FindFirst
<1>7. CASE ResolveDefault(r) \/ OperateOnce(r) \/ Operate(r)
  BY <1>3, <1>7 DEF ResolveDefault, OperateOnce, Operate
<1>8. CASE End(r)
  BY <1>1, <1>2, <1>8, ReaderEnds DEF End
<1> QED
  BY <1>6, <1>7, <1>8

\* With the i-th target done, the next is in its turn, or all are done.
LEMMA NextInTurn ==
  ASSUME NEW q, DOMAIN q = Fields, q.config \in Configs, q.i \in 1 .. Len(q.config.targets),
         DOMAIN q.tried = 1 .. Len(q.config.targets),
         \A n \in 1 .. Len(q.config.targets) :
           /\ q.tried[n] \in 0 .. MaxAttempts
           /\ n <= q.i => q.tried[n] = MaxAttempts \/ q.config.targets[n] \notin keys
           /\ n > q.i => q.tried[n] = 0,
         q.op \notin AdminOps, q.attempt \in 0 .. MaxAttempts
  PROVE  /\ Shape(NextTarget(q)) /\ NextTarget(q).op = q.op
         /\ NextTarget(q).config = q.config /\ NextTarget(q).tried = q.tried
         /\ NextTarget(q).pc \in {"exhausted", "attempt"}
         /\ NextTarget(q).pc = "exhausted" =>
              \A n \in DOMAIN q.tried : q.tried[n] = MaxAttempts \/ q.config.targets[n] \notin keys
<1>0. MaxAttempts \in Nat /\ 0 < MaxAttempts /\ Len(q.config.targets) \in Nat
  BY ModelRouterAssumption, TargetsAreKeys
<1>1. CASE q.i = Len(q.config.targets)
  <2> DEFINE p == [q EXCEPT !.pc = "exhausted"]
  <2>1. /\ DOMAIN p = Fields /\ p.pc = "exhausted" /\ p.op = q.op /\ p.attempt = q.attempt /\ p.tried = q.tried
        /\ p.config = q.config
    BY DEF Fields
  <2>2. NextTarget(q) = p
    BY <1>1 DEF NextTarget
  <2> HIDE DEF p
  <2>3. Shape(p)
    BY <2>1 DEF Shape, Writing
  <2> QED
    BY <1>0, <1>1, <2>1, <2>2, <2>3
<1>2. CASE q.i # Len(q.config.targets)
  <2> DEFINE p == [q EXCEPT !.pc = "attempt", !.i = @ + 1, !.attempt = 0]
  <2>1. /\ DOMAIN p = Fields /\ p.pc = "attempt" /\ p.op = q.op /\ p.attempt = 0 /\ p.tried = q.tried
        /\ p.config = q.config /\ p.i = q.i + 1
    BY DEF Fields
  <2>2. NextTarget(q) = p
    BY <1>2 DEF NextTarget
  <2> HIDE DEF p
  <2>3. Trying(p)
    BY <1>0, <1>2, <2>1 DEF Trying
  <2>4. Shape(p)
    BY <1>0, <2>1, <2>3 DEF Shape, Writing
  <2> QED
    BY <2>1, <2>2, <2>4
<1> QED
  BY <1>1, <1>2

\* An attempt keeps the count of what was tried; at the end, everything was.
LEMMA AttemptIsCounted ==
  ASSUME RouterInv, UNCHANGED world, NEW r \in Reqs, ResolveAttempt(r) \/ FailAttempt(r)
  PROVE  /\ RouterInv'
         /\ \A s \in Reqs \ {r} : req'[s] = req[s]
         /\ req'[r].pc = "exhausted" =>
              \A n \in DOMAIN req'[r].tried :
                req'[r].tried[n] = MaxAttempts \/ req[r].config.targets[n] \notin keys
<1> DEFINE p == req[r]
           Thorough == req'[r].pc = "exhausted" =>
             \A n \in DOMAIN req'[r].tried :
               req'[r].tried[n] = MaxAttempts \/ p.config.targets[n] \notin keys
<1>1. UNCHANGED <<row, keys, lb, round, world>> /\ p.pc \in {"attempt", "operate"}
  BY DEF ResolveAttempt, FailAttempt, At, Data, Memory
<1>2. Shape(p) /\ Trying(p) /\ p.op \notin AdminOps /\ p.pc \notin Writing \cup {"idle"}
  BY <1>1 DEF RouterInv, Shape, Writing
<1>3. Len(p.config.targets) \in Nat /\ MaxAttempts \in Nat /\ DOMAIN p = Fields
  BY <1>2, TargetsAreKeys, ModelRouterAssumption DEF Trying, Shape
<1>4. ASSUME NEW q, Set(r, NextTarget(q)), DOMAIN q = Fields, q.config = p.config, q.i = p.i, q.op = p.op,
             DOMAIN q.tried = DOMAIN p.tried, q.attempt \in 0 .. MaxAttempts,
             \A n \in DOMAIN q.tried \ {p.i} : q.tried[n] = p.tried[n],
             q.tried[p.i] \in 0 .. MaxAttempts,
             q.tried[p.i] = MaxAttempts \/ p.config.targets[p.i] \notin keys
      PROVE  RouterInv' /\ Thorough /\ \A s \in Reqs \ {r} : req'[s] = req[s]
  <2>1. \A n \in 1 .. Len(q.config.targets) :
           /\ q.tried[n] \in 0 .. MaxAttempts
           /\ n <= q.i => q.tried[n] = MaxAttempts \/ q.config.targets[n] \notin keys
           /\ n > q.i => q.tried[n] = 0
    <3>1. \A n \in 1 .. Len(p.config.targets) :
            /\ p.tried[n] \in 0 .. MaxAttempts
            /\ n < p.i => p.tried[n] = MaxAttempts \/ p.config.targets[n] \notin keys
            /\ n > p.i => p.tried[n] = 0
      BY <1>2 DEF Trying, Shape
    <3>2. DOMAIN q.tried = 1 .. Len(p.config.targets) /\ p.i \in 1 .. Len(p.config.targets)
      BY <1>2, <1>4 DEF Trying
    <3> HIDE DEF p
    <3> QED
      BY <1>3, <1>4, <3>1, <3>2
  <2>2. /\ q.config \in Configs /\ q.i \in 1 .. Len(q.config.targets)
        /\ DOMAIN q.tried = 1 .. Len(q.config.targets)
    BY <1>2, <1>4 DEF Trying
  <2>3. /\ Shape(NextTarget(q)) /\ NextTarget(q).op = p.op /\ NextTarget(q).tried = q.tried
        /\ NextTarget(q).pc # "crashed"
        /\ NextTarget(q).pc = "exhausted" =>
             \A n \in DOMAIN q.tried : q.tried[n] = MaxAttempts \/ q.config.targets[n] \notin keys
    BY <1>2, <1>4, <2>1, <2>2, NextInTurn
  <2>4. req'[r] = NextTarget(q) /\ \A s \in Reqs \ {r} : req'[s] = req[s]
    BY <1>4, OneRequest
  <2> QED
    BY <1>1, <1>2, <1>4, <2>3, <2>4, ReaderGoesOn
<1>5. CASE ResolveAttempt(r)
  <2>1. CASE p.config.targets[p.i] \in keys
    <3> DEFINE q == [p EXCEPT !.pc = "operate"]
    <3>1. /\ DOMAIN q = Fields /\ q.pc = "operate" /\ q.op = p.op /\ q.attempt = p.attempt /\ q.tried = p.tried
          /\ q.config = p.config /\ q.i = p.i
      BY <1>3 DEF Fields
    <3>2. Set(r, q)
      BY <1>5, <2>1 DEF ResolveAttempt, Goto
    <3> HIDE DEF q, p
    <3>3. Shape(q)
      BY <1>2, <3>1 DEF Shape, Trying, Writing
    <3>4. req'[r] = q /\ \A s \in Reqs \ {r} : req'[s] = req[s]
      BY <3>2, OneRequest
    <3> QED
      BY <1>1, <1>2, <3>1, <3>2, <3>3, <3>4, ReaderGoesOn DEF p
  <2>2. CASE p.config.targets[p.i] \notin keys
    <3>1. Set(r, NextTarget(p))
      BY <1>5, <2>2 DEF ResolveAttempt
    <3>2. p.attempt \in 0 .. MaxAttempts /\ p.tried[p.i] \in 0 .. MaxAttempts
      BY <1>2 DEF Shape, Trying
    <3> QED
      BY <1>3, <1>4, <2>2, <3>1, <3>2
  <2> QED
    BY <2>1, <2>2
<1>6. CASE FailAttempt(r)
  <2> DEFINE n == p.attempt + 1
             more == [p.tried EXCEPT ![p.i] = @ + 1]
             q == [p EXCEPT !.attempt = n, !.tried[p.i] = @ + 1]
  <2>1. /\ p.i \in DOMAIN p.tried /\ p.attempt = p.tried[p.i] /\ p.attempt \in 0 .. MaxAttempts
        /\ p.attempt < MaxAttempts /\ p.config \in Configs
    BY <1>2 DEF Trying, Shape
  <2>2. /\ DOMAIN q = Fields /\ q.pc = p.pc /\ q.op = p.op /\ q.attempt = n /\ q.tried = more
        /\ q.config = p.config /\ q.i = p.i
    BY <1>3 DEF Fields
  <2>3. DOMAIN more = DOMAIN p.tried /\ more[p.i] = n /\ \A k \in DOMAIN p.tried \ {p.i} : more[k] = p.tried[k]
    BY <2>1
  <2>4. Set(r, IF n < MaxAttempts THEN [q EXCEPT !.pc = "attempt"] ELSE NextTarget(q))
    BY <1>6 DEF FailAttempt
  <2>5. n \in 0 .. MaxAttempts
    BY <1>3, <2>1
  <2>6. CASE n < MaxAttempts
    <3> DEFINE t == [q EXCEPT !.pc = "attempt"]
    <3>1. /\ DOMAIN t = Fields /\ t.pc = "attempt" /\ t.op = p.op /\ t.attempt = n /\ t.tried = more
          /\ t.config = p.config /\ t.i = p.i
      BY <2>2 DEF Fields
    <3>2. Set(r, t)
      BY <2>4, <2>6
    <3> HIDE DEF t, q, more, n, p
    <3>3. Trying(t)
      BY <1>2, <1>3, <2>1, <2>3, <2>6, <3>1 DEF Trying
    <3>4. Shape(t)
      BY <1>2, <2>3, <2>5, <3>1, <3>3 DEF Shape, Trying, Writing
    <3>5. req'[r] = t /\ \A s \in Reqs \ {r} : req'[s] = req[s]
      BY <3>2, OneRequest
    <3> QED
      BY <1>1, <1>2, <3>1, <3>2, <3>4, <3>5, ReaderGoesOn DEF p
  <2>7. CASE ~(n < MaxAttempts)
    <3>1. n = MaxAttempts
      BY <1>3, <2>1, <2>7
    <3>2. Set(r, NextTarget(q))
      BY <2>4, <2>7
    <3>3. /\ DOMAIN q.tried = DOMAIN p.tried /\ q.attempt \in 0 .. MaxAttempts
          /\ \A k \in DOMAIN q.tried \ {p.i} : q.tried[k] = p.tried[k]
          /\ q.tried[p.i] \in 0 .. MaxAttempts /\ q.tried[p.i] = MaxAttempts
      <4> HIDE DEF q, more, n, p
      <4> QED
        BY <2>2, <2>3, <2>5, <3>1
    <3> HIDE DEF q
    <3> QED
      BY <1>4, <2>2, <3>2, <3>3
  <2> QED
    BY <2>6, <2>7
<1> QED
  BY <1>5, <1>6
-----------------------------------------------------------------------------
(* Requests that move an index                                             *)

LEMMA AdvanceTurns ==
  ASSUME NEW n \in Nat \ {0}, NEW i \in Nat
  PROVE  /\ Advance(i, n) \in 0 .. n - 1
         /\ i + 1 < n => Advance(i, n) = i + 1
         /\ i + 1 = n => Advance(i, n) = 0
BY DEF Advance

LEMMA IndexIsNat ==
  ASSUME RouterInv, NEW id \in Routings
  PROVE  Index(id) \in Nat
BY DEF RouterInv, Typed, Index

\* The index of what a request read points into the list it read.
LEMMA PointsIntoList ==
  ASSUME RouterInv, NEW r \in Reqs, ~At(r, "idle"), ~At(r, "clear"), NEW e \in Entries, Current(e), e.config.type = "round_robin",
         OneCount
  PROVE  Index(e.id) < Len(e.config.targets)
<1>1. e.id \in Routings /\ e.config \in Configs /\ Len(e.config.targets) \in Nat \ {0}
  BY TargetsAreKeys DEF Entries
<1>2. CASE Serial
  <2>1. Live(e.id) /\ row[e.id].config = e.config
    BY <1>2 DEF Current
  <2>2. CASE lb[e.id] = None
    BY <1>1, <2>2 DEF Index
  <2>3. CASE lb[e.id] # None
    <3>1. \A s \in Reqs : At(s, "clear") => IsAdmin(s)
      BY DEF RouterInv, Shape, Writing, AdminOps, At, IsAdmin
    <3>2. ASSUME NEW s \in Reqs, At(s, "clear"), s # r PROVE FALSE
      BY <1>2, <3>1, <3>2 DEF RouterInv, Alone
    <3> QED
      BY <1>1, <1>2, <2>1, <2>3, <3>2 DEF RouterInv, Fits, FitsRow, Clearing, Index
  <2> QED
    BY <2>2, <2>3
<1>3. CASE OneLength
  BY <1>1, <1>3 DEF RouterInv, Fits, Current
<1> QED
  BY <1>2, <1>3 DEF OneCount
\* The index moves to the next target of the list, and the round with it.
LEMMA IndexIsTaken ==
  ASSUME RouterInv, UNCHANGED <<row, keys, world>>, NEW r \in Reqs, ~At(r, "idle"), ~At(r, "clear"),
         NEW e \in Entries, Current(e), e.config.type = "round_robin", TakeIndex(e.id, Len(e.config.targets)),
         \A id \in Routings : Clearing(id) => Clearing(id)'
  PROVE  Typed' /\ Fits' /\ InTurn'
<1> DEFINE n == Len(e.config.targets)
           i == Index(e.id)
<1>1. e.id \in Routings /\ e.config \in Configs /\ n \in Nat \ {0} /\ i \in Nat /\ None \notin Nat
  BY TargetsAreKeys, IndexIsNat, ModelRouterAssumption DEF Entries
<1>2. Advance(i, n) \in 0 .. n - 1 /\ (i + 1 < n => Advance(i, n) = i + 1) /\ (i + 1 = n => Advance(i, n) = 0)
  BY <1>1, AdvanceTurns
<1>3. /\ lb' \in [Routings -> Nat \cup {None}] /\ lb'[e.id] = Advance(i, n)
      /\ \A id \in Routings \ {e.id} : lb'[id] = lb[id]
  BY <1>1, <1>2 DEF TakeIndex, RouterInv, Typed
<1>4. Index(e.id)' = Advance(i, n) /\ \A id \in Routings \ {e.id} : Index(id)' = Index(id)
  BY <1>1, <1>2, <1>3 DEF Index
<1> DEFINE now == round[e.id] \cup {i}
<1>5. /\ round' \in [Routings -> SUBSET Nat] /\ \A id \in Routings \ {e.id} : round'[id] = round[id]
      /\ round'[e.id] = IF now = 0 .. n - 1 THEN {} ELSE now
  BY <1>1 DEF TakeIndex, RouterInv, Typed
<1>6. OneCount => i < n
  BY <1>1, PointsIntoList
<1> HIDE DEF n, i, now
<1>7. Typed'
  BY <1>3, <1>5 DEF RouterInv, Typed
<1>8. Fits'
  <2>1. ASSUME Serial, NEW id \in Routings, lb'[id] # None
        PROVE  (FitsRow(id) \/ Clearing(id))'
    <3>1. CASE id = e.id
      BY <1>1, <1>2, <1>3, <2>1, <3>1 DEF FitsRow, Live, Current, n
    <3>2. CASE id # e.id
      BY <1>3, <2>1, <3>2 DEF RouterInv, Fits, FitsRow, Live
    <3> QED
      BY <3>1, <3>2
  <2>2. ASSUME OneLength, NEW id \in Routings, NEW c \in world.configs, c.type = "round_robin"
        PROVE  Index(id)' < Len(c.targets)
    <3>1. CASE id = e.id
      <4>1. Len(c.targets) = n
        BY <2>2 DEF OneLength, Current, n
      <4> QED
        BY <1>1, <1>2, <1>4, <3>1, <4>1
    <3>2. CASE id # e.id
      BY <1>4, <2>2, <3>2 DEF RouterInv, Fits
    <3> QED
      BY <3>1, <3>2
  <2> QED
    BY <2>1, <2>2 DEF Fits, Serial, OneLength
<1>9. InTurn'
  <2> SUFFICES ASSUME OneCount, NEW id \in Routings
               PROVE  round'[id] = 0 .. Index(id)' - 1
    BY DEF InTurn, OneCount, Serial, OneLength
  <2>1. CASE id # e.id
    BY <1>4, <1>5, <2>1 DEF RouterInv, InTurn
  <2>2. CASE id = e.id
    <3>1. round[e.id] = 0 .. i - 1
      BY <1>1 DEF RouterInv, InTurn, i
    <3>2. now = 0 .. i
      BY <1>1, <3>1 DEF now
    <3>3. CASE i + 1 < n
      <4>1. n - 1 \in 0 .. n - 1 /\ n - 1 \notin now
        BY <1>1, <3>2, <3>3
      <4> QED
        BY <1>1, <1>2, <1>4, <1>5, <2>2, <3>2, <3>3, <4>1
    <3>4. CASE i + 1 = n
      <4>1. now = 0 .. n - 1
        BY <1>1, <3>2, <3>4
      <4>2. round'[id] = {} /\ Index(id)' = 0
        BY <1>2, <1>4, <1>5, <2>2, <3>4, <4>1
      <4> QED
        BY <4>2
    <3> QED
      BY <1>1, <1>6, <3>3, <3>4
  <2> QED
    BY <2>1, <2>2
<1> QED
  BY <1>7, <1>8, <1>9

\* The loop over the routings a request read, from the i-th on.
LEMMA Tries ==
  ASSUME RouterInv, UNCHANGED <<row, keys, world>>, NEW r \in Reqs, req[r].pc \notin Writing \cup {"idle"},
         NEW list \in Seq(Entries), \A n \in 1 .. Len(list) : Current(list[n]),
         NEW i \in Nat \ {0}, TryRoute(r, list, i)
  PROVE  RouterInv'
<1> DEFINE q == [req[r] EXCEPT !.list = list, !.i = i]
           e == list[i]
           targets == e.config.targets
<1>1. Shape(req[r]) /\ ~IsAdmin(r) /\ ~At(r, "clear") /\ ~At(r, "idle") /\ req[r].op \notin AdminOps
  BY Reader DEF RouterInv, At, IsAdmin, AdminOps
<1>2. /\ DOMAIN q = Fields /\ q.op = req[r].op /\ q.attempt = req[r].attempt /\ q.tried = req[r].tried
      /\ q.list = list /\ q.i = i
  BY <1>1 DEF Shape, Fields
<1>3. CASE i > Len(list)
  <2> DEFINE p == [q EXCEPT !.pc = "primary"]
  <2>1. /\ DOMAIN p = Fields /\ p.pc = "primary" /\ p.op = req[r].op /\ p.attempt = req[r].attempt
        /\ p.tried = req[r].tried
    BY <1>2 DEF Fields
  <2>2. Set(r, p) /\ UNCHANGED <<lb, round>>
    BY <1>3 DEF TryRoute, Memory
  <2> HIDE DEF p, q
  <2>3. Shape(p)
    BY <1>1, <2>1 DEF Shape, Writing
  <2> QED
    BY <2>1, <2>2, <2>3, ReaderGoesOn
<1>4. CASE ~(i > Len(list))
  <2>1. i \in 1 .. Len(list)
    BY <1>4
  <2>2. e \in Entries /\ Current(e)
    BY <2>1
  <2>3. e.config \in Configs /\ Len(targets) \in Nat \ {0} /\ \A n \in 1 .. Len(targets) : targets[n] \in Keys
    BY <2>2, TargetsAreKeys DEF Entries
  <2>4. ASSUME NEW k \in Keys
        PROVE  LET p == [q EXCEPT !.pc = "resolve", !.target = k]
               IN  Shape(p) /\ p.op = req[r].op /\ p.pc = "resolve"
    <3> DEFINE p == [q EXCEPT !.pc = "resolve", !.target = k]
    <3>1. /\ DOMAIN p = Fields /\ p.pc = "resolve" /\ p.op = req[r].op /\ p.attempt = req[r].attempt
          /\ p.tried = req[r].tried /\ p.list = list /\ p.i = i /\ p.target = k
      BY <1>2 DEF Fields
    <3> HIDE DEF p, q, e
    <3>2. Shape(p)
      BY <1>1, <2>1, <3>1 DEF Shape, Writing
    <3> QED
      BY <3>1, <3>2 DEF p
  <2>5. LET p == [q EXCEPT !.pc = "crashed"]
        IN  Shape(p) /\ p.op = req[r].op /\ p.pc = "crashed"
    <3> DEFINE p == [q EXCEPT !.pc = "crashed"]
    <3>1. /\ DOMAIN p = Fields /\ p.pc = "crashed" /\ p.op = req[r].op /\ p.attempt = req[r].attempt
          /\ p.tried = req[r].tried
      BY <1>2 DEF Fields
    <3> HIDE DEF p, q, e
    <3>2. Shape(p)
      BY <1>1, <3>1 DEF Shape, Writing
    <3> QED
      BY <3>1, <3>2 DEF p
  <2>6. CASE /\ UNCHANGED <<lb, round>>
             /\ \E n \in 1 .. Len(targets) : Set(r, [q EXCEPT !.pc = "resolve", !.target = targets[n]])
    <3>1. PICK n \in 1 .. Len(targets) : Set(r, [q EXCEPT !.pc = "resolve", !.target = targets[n]])
      BY <2>6
    <3> DEFINE p == [q EXCEPT !.pc = "resolve", !.target = targets[n]]
    <3>2. Shape(p) /\ p.op = req[r].op /\ p.pc = "resolve" /\ Set(r, p)
      BY <2>3, <2>4, <3>1
    <3> HIDE DEF p, q, e
    <3> QED
      BY <2>6, <3>2, ReaderGoesOn
  <2>7. CASE /\ e.config.type = "round_robin"
             /\ TakeIndex(e.id, Len(targets))
             /\ IF Index(e.id) < Len(targets)
                  THEN Set(r, [q EXCEPT !.pc = "resolve", !.target = targets[Index(e.id) + 1]])
                  ELSE Set(r, [q EXCEPT !.pc = "crashed"])
    <3>1. OneCount => Index(e.id) < Len(targets)
      BY <1>1, <2>2, <2>7, PointsIntoList
    <3>2. Index(e.id) \in Nat
      BY <2>2, IndexIsNat DEF Entries
    <3>3. PICK p : /\ Set(r, p) /\ Shape(p) /\ p.op = req[r].op /\ p.pc \in {"resolve", "crashed"}
                   /\ OneCount => p.pc # "crashed"
      <4>1. CASE Index(e.id) < Len(targets)
        <5>1. targets[Index(e.id) + 1] \in Keys
          BY <2>3, <3>2, <4>1
        <5> QED
          BY <2>4, <2>7, <4>1, <5>1
      <4>2. CASE ~(Index(e.id) < Len(targets))
        BY <2>5, <2>7, <3>1, <4>2
      <4> QED
        BY <4>1, <4>2
    <3>4. DOMAIN req' = Reqs /\ req'[r] = p /\ \A s \in Reqs \ {r} : req'[s] = req[s]
      BY <3>3, OneRequest
    <3>5. \A id \in Routings : Clearing(id) => Clearing(id)'
      BY <1>1, <3>4 DEF Clearing, At
    <3>6. Typed' /\ Fits' /\ InTurn'
      BY <1>1, <2>2, <2>7, <3>5, IndexIsTaken
    <3>7. \A s \in Reqs : Shape(req[s])'
      BY <3>3, <3>4, ShapeKept DEF RouterInv
    <3>8. ~Serial \/ \A s \in Reqs \ {r} : ~IsAdmin(s)
      BY <1>1, NoWriter
    <3>9. Alone'
      BY <1>1, <3>3, <3>4, <3>8 DEF Alone, Serial, IsAdmin, At, AdminOps
    <3>10. OneCount' => \A s \in Reqs : ~At(s, "crashed")'
      BY <3>3, <3>4 DEF RouterInv, OneCount, Serial, OneLength, At
    <3> QED
      BY <3>4, <3>6, <3>7, <3>9, <3>10 DEF RouterInv
  <2> QED
    <3>1. CASE e.config.type = "failover" /\ Set(r, [q EXCEPT !.pc = "resolve", !.target = targets[1]])
               /\ UNCHANGED <<lb, round>>
      <4>1. 1 \in 1 .. Len(targets)
        BY <2>3
      <4> QED
        BY <2>6, <3>1, <4>1
    <3> QED
      BY <1>4, <2>6, <2>7, <3>1 DEF TryRoute, Memory
<1> QED
  BY <1>3, <1>4
\* What a request reads at first.
LEMMA RoutingsAreListed ==
  ASSUME RouterInv, UNCHANGED world, NEW r \in Reqs, ListRoutings(r)
  PROVE  RouterInv'
<1>1. PICK s \in Listings :
        TryRoute(r, [n \in DOMAIN s |-> [id |-> s[n], config |-> row[s[n]].config]], 1)
  BY DEF ListRoutings
<1> DEFINE size == Cardinality(Enabled)
           list == [n \in 1 .. size |-> [id |-> s[n], config |-> row[s[n]].config]]
<1>2. size \in Nat
  <2>1. IsFiniteSet(Enabled)
    BY ModelRouterAssumption, FS_Subset DEF Enabled
  <2> QED
    BY <2>1, FS_CardinalityType
<1>3. DOMAIN s = 1 .. size /\ \A n \in 1 .. size : s[n] \in Enabled
  BY DEF Listings
<1>4. ASSUME NEW n \in 1 .. size
      PROVE  /\ [id |-> s[n], config |-> row[s[n]].config] \in Entries
             /\ Current([id |-> s[n], config |-> row[s[n]].config])
  <2>1. s[n] \in Routings /\ Live(s[n])
    BY <1>3 DEF Enabled
  <2>2. row[s[n]].config \in Configs /\ row[s[n]].config \in world.configs
    BY <2>1, RowIsWritten
  <2> QED
    BY <2>1, <2>2 DEF Entries, Current
<1>5. list \in Seq(Entries) /\ Len(list) = size
  BY <1>2, <1>4
<1>6. \A n \in 1 .. Len(list) : Current(list[n])
  BY <1>4, <1>5
<1>7. TryRoute(r, list, 1)
  BY <1>1, <1>3
<1>8. UNCHANGED <<row, keys>> /\ req[r].pc \notin Writing \cup {"idle"}
  BY DEF ListRoutings, Data, At, Writing
<1> HIDE DEF list
<1> QED
  BY <1>5, <1>6, <1>7, <1>8, Tries

LEMMA TargetIsResolved ==
  ASSUME RouterInv, UNCHANGED world, NEW r \in Reqs, ResolveTarget(r)
  PROVE  RouterInv'
<1>1. req[r].pc = "resolve" /\ UNCHANGED <<row, keys>> /\ req[r].pc \notin Writing \cup {"idle"}
  BY DEF ResolveTarget, At, Data, Writing
<1>2. CASE Goto(r, "done") /\ UNCHANGED Memory
  BY <1>1, <1>2, ReaderMoves DEF Memory, Writing
<1>3. CASE TryRoute(r, req[r].list, req[r].i + 1)
  <2>1. /\ req[r].list \in Seq(Entries) /\ req[r].i \in 1 .. Len(req[r].list)
        /\ \A n \in 1 .. Len(req[r].list) : Current(req[r].list[n])
    BY <1>1 DEF RouterInv, Shape
  <2>2. req[r].i + 1 \in Nat \ {0}
    BY <2>1
  <2> QED
    BY <1>1, <1>3, <2>1, <2>2, Tries
<1> QED
  BY <1>2, <1>3 DEF ResolveTarget

-----------------------------------------------------------------------------
(* Administration                                                          *)

\* A writer that is at the row or at the index is alone, if writers are.
LEMMA Writer ==
  ASSUME RouterInv, NEW r \in Reqs, req[r].pc \in Writing
  PROVE  /\ Shape(req[r]) /\ req[r].id \in Routings /\ req[r].op \in AdminOps
         /\ Serial => \A s \in Reqs \ {r} : At(s, "idle")
BY DEF RouterInv, Shape, Alone, IsAdmin, AdminOps

LEMMA RowTyped ==
  ASSUME RouterInv, NEW id \in Routings, NEW v,
         DOMAIN row' = Routings, row'[id] = v, \A i \in Routings \ {id} : row'[i] = row[i],
         \/ v = Gone("gone")
         \/ /\ v \in [st : {"live"}, enabled : BOOLEAN, prio : Priorities, config : Configs]
            /\ v.config \in world.configs,
         UNCHANGED <<keys, lb, round, world>>
  PROVE  Typed'
BY DEF RouterInv, Typed, Gone

LEMMA RowIsWrittenAnew ==
  ASSUME RouterInv, UNCHANGED world, NEW r \in Reqs, WriteRow(r)
  PROVE  RouterInv'
<1> DEFINE id == req[r].id
<1>1. At(r, "write") /\ UNCHANGED <<keys, lb, round, world>> /\ req[r].pc \in Writing /\ ~At(r, "idle")
  BY DEF WriteRow, At, Memory, Writing
<1>2. /\ Shape(req[r]) /\ id \in Routings /\ req[r].op \in AdminOps
      /\ Serial => \A s \in Reqs \ {r} : At(s, "idle")
  BY <1>1, Writer
<1>3. CASE ~Live(id)
  <2>1. UNCHANGED row /\ Set(r, Idle)
    BY <1>3 DEF WriteRow
  <2>2. \A s \in Reqs : At(s, "idle") => ~IsAdmin(s)
    BY DEF RouterInv, Shape, IsAdmin, AdminOps, Writing, At
  <2>3. ~At(r, "clear")
    BY <1>1 DEF At
  <2>4. Idle.op \notin AdminOps
    BY IdleShape, NoneIsNoName
  <2> QED
    BY <1>1, <1>2, <2>1, <2>2, <2>3, <2>4, IdleShape, Reads
<1>4. CASE Live(id)
  <2> DEFINE q == [req[r] EXCEPT !.pc = "clear"]
  <2>1. /\ DOMAIN q = Fields /\ q.pc = "clear" /\ q.op = req[r].op /\ q.id = id /\ q.attempt = req[r].attempt
        /\ q.tried = req[r].tried
    BY <1>2 DEF Shape, Fields
  <2>2. Set(r, q)
    BY <1>4 DEF WriteRow, Goto
  <2> HIDE DEF q
  <2>3. Shape(q)
    BY <1>2, <2>1 DEF Shape, Writing
  <2>4. DOMAIN req' = Reqs /\ req'[r] = q /\ \A s \in Reqs \ {r} : req'[s] = req[s]
    BY <2>2, OneRequest
  <2>5. PICK v : /\ row' = [row EXCEPT ![id] = v]
                 /\ \/ v = Gone("gone")
                    \/ /\ v \in [st : {"live"}, enabled : BOOLEAN, prio : Priorities, config : Configs]
                       /\ v.config \in world.configs
    <3>1. CASE req[r].op = "delete" /\ row' = [row EXCEPT ![id] = Gone("gone")]
      BY <3>1
    <3>2. CASE /\ req[r].op = "update"
               /\ \E p \in Priorities, e \in BOOLEAN :
                    row' = [row EXCEPT ![id] = [st |-> "live", enabled |-> e,
                                                prio |-> p, config |-> req[r].config]]
      <4>1. req[r].config \in world.configs /\ world.configs \subseteq Configs
        BY <1>1, <1>2, <3>2, ModelRouterAssumption DEF Shape, At, RouterInv, Typed
      <4>2. PICK p \in Priorities, e \in BOOLEAN :
               row' = [row EXCEPT ![id] = [st |-> "live", enabled |-> e,
                                           prio |-> p, config |-> req[r].config]]
        BY <3>2
      <4> DEFINE v == [st |-> "live", enabled |-> e, prio |-> p, config |-> req[r].config]
      <4>3. v \in [st : {"live"}, enabled : BOOLEAN, prio : Priorities, config : Configs]
            /\ v.config \in world.configs
        BY <4>1
      <4> QED
        BY <4>2, <4>3
    <3> QED
      BY <1>4, <3>1, <3>2 DEF WriteRow
  <2>6. DOMAIN row' = Routings /\ row'[id] = v /\ \A i \in Routings \ {id} : row'[i] = row[i]
    BY <1>2, <2>5 DEF RouterInv, Typed
  <2>7. Typed'
    BY <1>1, <1>2, <2>5, <2>6, RowTyped
  <2>8. \A s \in Reqs : Shape(req[s])'
    <3>1. CASE Serial
      <4>1. \A s \in Reqs : Shape(req'[s]) /\ req'[s].pc \in {"idle", "clear"}
        BY <1>2, <2>1, <2>3, <2>4, <3>1 DEF RouterInv, At
      <4> QED
        BY <1>1, <4>1, ShapeApart
    <3>2. CASE ~Serial
      BY <1>1, <2>3, <2>4, <3>2, ShapeKept DEF RouterInv
    <3> QED
      BY <3>1, <3>2
  <2>9. Alone'
    BY <1>1, <1>2, <2>1, <2>4 DEF RouterInv, Alone, Serial, IsAdmin, At, AdminOps
  <2>10. Fits'
    <3>1. ASSUME Serial, NEW i \in Routings, lb'[i] # None
          PROVE  (FitsRow(i) \/ Clearing(i))'
      <4>1. CASE i = id
        BY <2>1, <2>4, <4>1 DEF Clearing, At
      <4>2. CASE i # id
        <5>1. Clearing(i) => Clearing(i)'
          BY <1>1, <2>4 DEF Clearing, At
        <5>2. FitsRow(i) => FitsRow(i)'
          BY <1>1, <2>6, <4>2 DEF FitsRow, Live
        <5> QED
          BY <1>1, <3>1, <5>1, <5>2 DEF RouterInv, Fits
      <4> QED
        BY <4>1, <4>2
    <3> QED
      BY <1>1, <3>1 DEF RouterInv, Fits, Serial, OneLength, Index
  <2>11. InTurn'
    BY <1>1 DEF RouterInv, InTurn, OneCount, Serial, OneLength, Index
  <2>12. OneCount' => \A s \in Reqs : ~At(s, "crashed")'
    BY <1>1, <2>1, <2>4 DEF RouterInv, OneCount, Serial, OneLength, At
  <2> QED
    BY <2>4, <2>7, <2>8, <2>9, <2>10, <2>11, <2>12 DEF RouterInv
<1> QED
  BY <1>3, <1>4
LEMMA BalanceIsCleared ==
  ASSUME RouterInv, UNCHANGED world, NEW r \in Reqs, ClearBalance(r)
  PROVE  RouterInv'
<1>1. At(r, "clear") /\ UNCHANGED <<row, keys, world>> /\ req[r].pc \in Writing /\ ~At(r, "idle")
  BY DEF ClearBalance, At, Data, Writing
<1>2. PICK id \in Routings : id = req[r].id /\ (Serial => \A s \in Reqs \ {r} : At(s, "idle"))
  BY <1>1, Writer
<1>3. DOMAIN req' = Reqs /\ req'[r] = Idle /\ \A s \in Reqs \ {r} : req'[s] = req[s]
  <2>1. Set(r, Idle)
    BY DEF ClearBalance
  <2> QED
    BY <2>1, OneRequest
<1>4. /\ lb' \in [Routings -> Nat \cup {None}] /\ lb'[id] = None /\ \A i \in Routings \ {id} : lb'[i] = lb[i]
      /\ round' \in [Routings -> SUBSET Nat] /\ round'[id] = {} /\ \A i \in Routings \ {id} : round'[i] = round[i]
  BY <1>2 DEF ClearBalance, RouterInv, Typed
<1>5. Index(id)' = 0 /\ \A i \in Routings \ {id} : Index(i)' = Index(i)
  BY <1>4 DEF Index
<1>6. Typed'
  BY <1>1, <1>4 DEF RouterInv, Typed
<1>7. \A s \in Reqs : Shape(req[s])'
  <2>1. \A s \in Reqs : Shape(req'[s])
    BY <1>3, IdleShape DEF RouterInv
  <2> QED
    BY <1>1, <2>1, ShapeKept
<1>8. Alone'
  <2>1. Idle.op \notin AdminOps
    BY IdleShape, NoneIsNoName
  <2>2. Idle.pc = "idle"
    BY IdleShape
  <2> QED
    BY <1>1, <1>2, <1>3, <2>1, <2>2 DEF RouterInv, Alone, Serial, IsAdmin, At, AdminOps
<1>9. Fits'
  <2>1. ASSUME Serial, NEW i \in Routings, lb'[i] # None
        PROVE  (FitsRow(i) \/ Clearing(i))'
    <3>1. i # id
      BY <1>4, <2>1
    <3>2. Clearing(i) => FALSE
      BY <1>2, <2>1, <3>1 DEF Clearing, At
    <3>3. FitsRow(i) => FitsRow(i)'
      BY <1>1, <1>4, <3>1 DEF FitsRow, Live
    <3> QED
      BY <1>4, <2>1, <3>1, <3>2, <3>3 DEF RouterInv, Fits
  <2>2. ASSUME OneLength, NEW i \in Routings, NEW c \in world.configs, c.type = "round_robin"
        PROVE  Index(i)' < Len(c.targets)
    <3>1. Len(c.targets) \in Nat \ {0}
      BY TargetsAreKeys, ModelRouterAssumption DEF RouterInv, Typed
    <3> QED
      BY <1>5, <2>2, <3>1 DEF RouterInv, Fits
  <2> QED
    BY <1>1, <2>1, <2>2 DEF Fits, Serial, OneLength
<1>10. InTurn'
  <2> SUFFICES ASSUME OneCount, NEW i \in Routings
               PROVE  round'[i] = 0 .. Index(i)' - 1
    BY <1>1 DEF InTurn, OneCount, Serial, OneLength
  <2>1. CASE i = id
    <3>1. 0 .. 0 - 1 = {}
      OBVIOUS
    <3> QED
      BY <1>4, <1>5, <2>1, <3>1
  <2>2. CASE i # id
    BY <1>4, <1>5, <2>2 DEF RouterInv, InTurn
  <2> QED
    BY <2>1, <2>2
<1>11. OneCount' => \A s \in Reqs : ~At(s, "crashed")'
  BY <1>1, <1>3, IdleShape DEF RouterInv, OneCount, Serial, OneLength, At
<1> QED
  BY <1>3, <1>6, <1>7, <1>8, <1>9, <1>10, <1>11 DEF RouterInv

LEMMA RoutingIsCreated ==
  ASSUME RouterInv, UNCHANGED world, NEW id \in Routings, NEW c \in Configs, NEW p \in Priorities,
         CreateRouting(id, c, p)
  PROVE  RouterInv'
<1>1. /\ UNCHANGED <<keys, lb, round, req, world>> /\ row[id].st = "new" /\ c \in world.configs
      /\ Serial => \A r \in Reqs : At(r, "idle")
  BY DEF CreateRouting, Memory, MayStart, Quiet
<1> DEFINE v == [st |-> "live", enabled |-> TRUE, prio |-> p, config |-> c]
<1>2. DOMAIN row' = Routings /\ row'[id] = v /\ \A i \in Routings \ {id} : row'[i] = row[i]
  BY DEF CreateRouting, RouterInv, Typed
<1>3. v \in [st : {"live"}, enabled : BOOLEAN, prio : Priorities, config : Configs] /\ v.config \in world.configs
  BY <1>1
<1> HIDE DEF v
<1>4. Typed'
  BY <1>1, <1>2, <1>3, RowTyped
<1>5. \A s \in Reqs : Shape(req[s])'
  <2>1. CASE Serial
    <3>1. \A s \in Reqs : Shape(req'[s]) /\ req'[s].pc \in {"idle", "clear"}
      BY <1>1, <2>1 DEF RouterInv, At
    <3> QED
      BY <1>1, <3>1, ShapeApart
  <2>2. CASE ~Serial
    <3>1. \A s \in Reqs : Shape(req'[s])
      BY <1>1 DEF RouterInv
    <3> QED
      BY <1>1, <2>2, <3>1, ShapeKept
  <2> QED
    BY <2>1, <2>2
<1>6. Alone'
  BY <1>1 DEF RouterInv, Alone, Serial, IsAdmin, At
<1>7. Fits'
  <2>1. ASSUME Serial, NEW i \in Routings, lb'[i] # None
        PROVE  (FitsRow(i) \/ Clearing(i))'
    <3>1. ~Clearing(i)
      BY <1>1, <2>1 DEF Clearing, At
    <3>2. FitsRow(i)
      BY <1>1, <2>1, <3>1 DEF RouterInv, Fits
    <3>3. i # id
      BY <1>1, <3>2 DEF FitsRow, Live
    <3> QED
      BY <1>1, <1>2, <3>2, <3>3 DEF FitsRow, Live
  <2> QED
    BY <1>1, <2>1 DEF RouterInv, Fits, Serial, OneLength, Index
<1>8. InTurn'
  BY <1>1 DEF RouterInv, InTurn, OneCount, Serial, OneLength, Index
<1>9. OneCount' => \A s \in Reqs : ~At(s, "crashed")'
  BY <1>1 DEF RouterInv, OneCount, Serial, OneLength, At
<1>10. DOMAIN req' = Reqs
  BY <1>1 DEF RouterInv
<1> QED
  BY <1>4, <1>5, <1>6, <1>7, <1>8, <1>9, <1>10 DEF RouterInv

\* Also when nothing happens.
LEMMA KeyIsDeleted ==
  ASSUME RouterInv, UNCHANGED <<row, lb, round, req, world>>, keys' \subseteq keys
  PROVE  RouterInv'
<1>1. Typed' /\ DOMAIN req' = Reqs
  BY DEF RouterInv, Typed
<1>2. \A s \in Reqs : Shape(req[s])'
  <2>1. \A s \in Reqs : Shape(req'[s])
    BY DEF RouterInv
  <2> QED
    BY <2>1, ShapeKept
<1>3. Alone' /\ InTurn'
  BY DEF RouterInv, Alone, Serial, IsAdmin, At, InTurn, OneCount, OneLength, Index
<1>4. Fits'
  BY DEF RouterInv, Fits, FitsRow, Clearing, Live, At, Serial, OneLength, Index
<1>5. OneCount' => \A s \in Reqs : ~At(s, "crashed")'
  BY DEF RouterInv, OneCount, Serial, OneLength, At
<1> QED
  BY <1>1, <1>2, <1>3, <1>4, <1>5 DEF RouterInv

-----------------------------------------------------------------------------
(* The theorems                                                            *)

LEMMA InOrderAtFirst == ASSUME Init PROVE RouterInv
<1>1. \A r \in Reqs : req[r] = Idle
  BY DEF Init
<1>2. \A id \in Routings : row[id] = Gone("new") /\ lb[id] = None /\ round[id] = {} /\ Index(id) = 0
  BY DEF Init, Index
<1>3. Typed
  BY DEF Init, Typed
<1>4. Alone
  BY <1>1, IdleShape DEF Alone, At
<1>5. Fits
  <2>1. ASSUME NEW c \in world.configs
        PROVE  0 < Len(c.targets)
    <3>1. Len(c.targets) \in Nat \ {0}
      BY TargetsAreKeys, ModelRouterAssumption DEF Init
    <3> QED
      BY <3>1
  <2> QED
    BY <1>2, <2>1 DEF Fits
<1>6. InTurn
  <2>1. 0 .. 0 - 1 = {}
    OBVIOUS
  <2> QED
    BY <1>2, <2>1 DEF InTurn
<1>7. \A r \in Reqs : Shape(req[r]) /\ ~At(r, "crashed")
  BY <1>1, IdleShape DEF At
<1>8. DOMAIN req = Reqs
  BY DEF Init
<1> QED
  BY <1>3, <1>4, <1>5, <1>6, <1>7, <1>8 DEF RouterInv

LEMMA InOrderKept ==
  ASSUME RouterInv, [Next /\ UNCHANGED world]_<<vars, world>>
  PROVE  RouterInv'
<1>1. CASE UNCHANGED <<vars, world>>
  BY <1>1, KeyIsDeleted DEF vars
<1>2. ASSUME NEW k \in Keys, DeleteKey(k), UNCHANGED world
      PROVE  RouterInv'
  BY <1>2, KeyIsDeleted DEF DeleteKey, Memory
<1>3. ASSUME NEW r \in Reqs, Step(r), UNCHANGED world
      PROVE  RouterInv'
  BY <1>3, RowIsWrittenAnew, BalanceIsCleared, RoutingsAreListed, TargetIsResolved, DefaultIsFound,
     AttemptIsCounted DEF Step
<1> QED
  BY <1>1, <1>2, <1>3, RoutingIsCreated, AdminArrives, FailoverArrives, ReaderArrives DEF Next

LEMMA AlwaysInOrder == Spec => []RouterInv
<1>1. Init => RouterInv
  BY InOrderAtFirst
<1>2. RouterInv /\ [Next /\ UNCHANGED world]_<<vars, world>> => RouterInv'
  BY InOrderKept
<1> QED
  BY <1>1, <1>2, PTL DEF Spec

\* No request is sent behind the end of a list of targets, for any routings,
\* keys and lists of targets and any number of requests, as long as writers are
\* alone or the lists that take turns have as many targets; and every variable
\* keeps its type.
THEOREM IndexStaysInRange == Spec => []IndexInRange
<1>1. RouterInv => IndexInRange
  <2> SUFFICES ASSUME RouterInv PROVE TypeOK
    BY DEF RouterInv, IndexInRange
  <2> QED
    BY DEF RouterInv, Typed, Shape, TypeOK
<1> QED
  BY <1>1, AlwaysInOrder, PTL

\* The targets of a list take turns, under the same condition, also when
\* requests overlap, targets lose their keys and routings change.
THEOREM TargetsTakeTurns == Spec => []EachTargetOncePerRound
<1>1. ASSUME RouterInv PROVE EachTargetOncePerRound
  <2>1. ASSUME NEW id \in Routings, OneCount
        PROVE  Index(id) \notin round[id]
    BY <1>1, <2>1, IndexIsNat DEF RouterInv, InTurn
  <2> QED
    BY <2>1 DEF EachTargetOncePerRound
<1> QED
  BY <1>1, AlwaysInOrder, PTL

\* Failover gives up only when it has tried every target MaxAttempts times or
\* found its key gone, whatever happens to routings and keys meanwhile.
THEOREM FailoverTriesAll == Spec => FailoverIsThorough
<1> DEFINE Thorough(r) ==
      req'[r].pc = "exhausted" /\ ~At(r, "exhausted") =>
        \A n \in DOMAIN req'[r].tried :
          req'[r].tried[n] = MaxAttempts \/ req[r].config.targets[n] \notin keys
<1>1. ASSUME RouterInv, [Next /\ UNCHANGED world]_<<vars, world>>, NEW r \in Reqs
      PROVE  Thorough(r)
  <2>1. ASSUME NEW s \in Reqs, NEW q, Set(s, q), q.pc # "exhausted"
        PROVE  Thorough(r)
    <3>1. req'[s] = q /\ \A t \in Reqs \ {s} : req'[t] = req[t]
      BY <1>1, <2>1, OneRequest
    <3> QED
      BY <2>1, <3>1 DEF At
  <2>2. CASE UNCHANGED req
    BY <2>2 DEF At
  <2>3. ASSUME NEW s \in Reqs, ResolveAttempt(s) \/ FailAttempt(s), UNCHANGED world
        PROVE  Thorough(r)
    <3>1. /\ \A t \in Reqs \ {s} : req'[t] = req[t]
          /\ req'[s].pc = "exhausted" =>
              \A n \in DOMAIN req'[s].tried :
                req'[s].tried[n] = MaxAttempts \/ req[s].config.targets[n] \notin keys
      BY <1>1, <2>3, AttemptIsCounted
    <3> QED
      BY <3>1 DEF At
  <2>4. ASSUME NEW s \in Reqs
        PROVE  DOMAIN req[s] = Fields /\ Idle.pc # "exhausted"
    BY <1>1, IdleShape DEF RouterInv, Shape
  <2>5. ASSUME NEW s \in Reqs, NEW pc, Goto(s, pc), pc # "exhausted"
        PROVE  Thorough(r)
    <3> DEFINE q == [req[s] EXCEPT !.pc = pc]
    <3>1. q.pc = pc /\ Set(s, q)
      BY <2>4, <2>5 DEF Goto, Fields
    <3> HIDE DEF q
    <3> QED
      BY <2>1, <2>5, <3>1
  <2>6. ASSUME NEW s \in Reqs, NEW id \in Routings, NEW c,
               StartUpdate(s, id, c) \/ StartDelete(s, id) \/ StartFailover(s, id)
        PROVE  Thorough(r)
    <3> DEFINE q1 == [Idle EXCEPT !.pc = "write", !.op = "update", !.id = id, !.config = c]
               q2 == [Idle EXCEPT !.pc = "write", !.op = "delete", !.id = id]
               q3 == [Idle EXCEPT !.pc = "attempt", !.op = "failover", !.config = row[id].config, !.i = 1,
                                  !.tried = [n \in 1 .. Len(row[id].config.targets) |-> 0]]
               q4 == [Idle EXCEPT !.pc = "primary", !.op = "failover"]
    <3>1. q1.pc = "write" /\ q2.pc = "write" /\ q3.pc = "attempt" /\ q4.pc = "primary"
      BY DEF Idle
    <3>2. Set(s, q1) \/ Set(s, q2) \/ Set(s, q3) \/ Set(s, q4)
      BY <2>6 DEF StartUpdate, StartDelete, StartFailover
    <3> HIDE DEF q1, q2, q3, q4
    <3> QED
      BY <2>1, <3>1, <3>2
  <2>7. ASSUME NEW s \in Reqs, NEW op, Start(s, op)
        PROVE  Thorough(r)
    <3> DEFINE q == [Idle EXCEPT !.pc = "list", !.op = op]
    <3>1. q.pc = "list" /\ Set(s, q)
      BY <2>7 DEF Start, Idle
    <3> HIDE DEF q
    <3> QED
      BY <2>1, <3>1
  <2>8. ASSUME NEW s \in Reqs, WriteRow(s) \/ ClearBalance(s) \/ OperateOnce(s) \/ Operate(s) \/ End(s)
        PROVE  Thorough(r)
    BY <2>1, <2>4, <2>5, <2>8 DEF WriteRow, ClearBalance, OperateOnce, Operate, End
  <2>9. ASSUME NEW s \in Reqs, FindPrimary(s) \/ FindFirst(s) \/ ResolveDefault(s)
        PROVE  Thorough(r)
    <3>1. CASE \E k : Set(s, [req[s] EXCEPT !.pc = "default", !.target = k])
      <4>1. PICK k : Set(s, [req[s] EXCEPT !.pc = "default", !.target = k])
        BY <3>1
      <4> DEFINE q == [req[s] EXCEPT !.pc = "default", !.target = k]
      <4>2. Set(s, q) /\ q.pc = "default"
        BY <2>4, <4>1 DEF Fields
      <4> HIDE DEF q
      <4> QED
        BY <2>1, <4>2
    <3> QED
      BY <2>5, <2>9, <3>1 DEF FindPrimary, FindFirst, ResolveDefault
  <2>10. ASSUME NEW s \in Reqs, NEW list, NEW i, TryRoute(s, list, i)
         PROVE  Thorough(r)
    <3> DEFINE q == [req[s] EXCEPT !.list = list, !.i = i]
    <3>1. DOMAIN q = Fields
      BY <2>4
    <3> HIDE DEF q
    <3>2. \A k : [q EXCEPT !.pc = "resolve", !.target = k].pc = "resolve"
      BY <3>1 DEF Fields
    <3>3. [q EXCEPT !.pc = "crashed"].pc = "crashed" /\ [q EXCEPT !.pc = "primary"].pc = "primary"
      BY <3>1 DEF Fields
    <3>4. \/ Set(s, [q EXCEPT !.pc = "primary"]) \/ Set(s, [q EXCEPT !.pc = "crashed"])
          \/ \E k : Set(s, [q EXCEPT !.pc = "resolve", !.target = k])
      BY <2>10 DEF TryRoute, q
    <3>5. PICK p : Set(s, p) /\ p.pc \in {"primary", "crashed", "resolve"}
      BY <3>2, <3>3, <3>4
    <3> QED
      BY <2>1, <3>5
  <2>11. ASSUME NEW s \in Reqs, ListRoutings(s) \/ ResolveTarget(s)
         PROVE  Thorough(r)
    BY <2>5, <2>10, <2>11 DEF ListRoutings, ResolveTarget
  <2>12. CASE Next
    <3>1. CASE (\E id \in Routings, c \in Configs, p \in Priorities : CreateRouting(id, c, p))
               \/ \E k \in Keys : DeleteKey(k)
      BY <2>2, <3>1 DEF CreateRouting, DeleteKey
    <3>2. ASSUME NEW s \in Reqs, NEW id \in Routings, StartDelete(s, id) \/ StartFailover(s, id)
          PROVE  Thorough(r)
      BY <2>6, <3>2
    <3>3. ASSUME NEW s \in Reqs, Step(s)
          PROVE  Thorough(r)
      BY <1>1, <2>3, <2>8, <2>9, <2>11, <3>3 DEF Step, vars
    <3> HIDE DEF Thorough
    <3> QED
      BY <2>6, <2>7, <2>12, <3>1, <3>2, <3>3 DEF Next
  <2> QED
    BY <1>1, <2>2, <2>12 DEF vars
<1>2. RouterInv /\ [Next /\ UNCHANGED world]_<<vars, world>> =>
        [\A r \in Reqs : Thorough(r)]_vars
  BY <1>1
<1> QED
  BY <1>2, AlwaysInOrder, PTL DEF Spec, FailoverIsThorough
=============================================================================
