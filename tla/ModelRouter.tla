---------------------------- MODULE ModelRouter -----------------------------
(***************************************************************************)
(* The routing configurations of one bot (ModelRoutingService) and the     *)
(* router that chooses a provider key for each request by them             *)
(* (ModelRouterService): rules, load balancing with an index kept in       *)
(* memory, and failover. Requests and administration interleave at each    *)
(* `await`. A target stands for its provider key; a message for the        *)
(* targets it may lead to.                                                 *)
(***************************************************************************)
EXTENDS Naturals, Sequences, FiniteSets

CONSTANTS
  Routings, Keys, Reqs, None,
  Configs,      \* configurations users write: [type, targets]
  Priorities,   \* their priorities
  MaxAttempts,  \* retry.maxAttempts of a failover
  Worlds        \* the environments considered

Types == {"function", "round_robin", "weighted", "failover"}

ASSUME ModelRouterAssumption ==
  /\ None \notin Keys \cup Nat \cup {"update", "delete"} /\ IsFiniteSet(Routings)
  /\ \A c \in Configs : /\ c.type \in Types
                        /\ c.targets \in Seq(Keys) /\ c.targets # <<>>
  /\ MaxAttempts \in Nat \ {0}
  /\ Priorities \subseteq Nat
  /\ Worlds \subseteq [serial : BOOLEAN, faults : BOOLEAN, ids : SUBSET Routings,
                       configs : SUBSET Configs,
                       primary : Keys \cup {None}, first : Keys \cup {None}]

VARIABLES
  row,      \* the routing configurations: row[id]
  keys,     \* the provider keys that are not deleted
  lb,       \* loadBalanceStates: the next index, or None
  round,    \* history: the indexes picked in the current round of an index
  req,      \* the requests under way
  world     \* the environment, which never changes

vars == <<row, keys, lb, round, req>>

Serial == world.serial  \* does an update wait until no request is under way?
Faults == world.faults  \* may the operation of a failover fail?
\* Users create the routings world.ids with configurations world.configs; the
\* bot's primary provider key and the first one listed are world.primary and
\* world.first.

\* A row is "new" until it is created and "gone" for good once it is deleted.
Gone(st) == [st |-> st, enabled |-> FALSE, prio |-> 0, config |-> None]
Live(id) == row[id].st = "live"

Idle == [pc |-> "idle", op |-> None, id |-> None, config |-> None, list |-> <<>>,
         i |-> 0, target |-> None, attempt |-> 0, tried |-> <<>>]

At(r, pc) == req[r].pc = pc
Set(r, q) == req' = [req EXCEPT ![r] = q]
Goto(r, pc) == Set(r, [req[r] EXCEPT !.pc = pc])
Data == <<row, keys>>
Memory == <<lb, round>>

IsAdmin(r) == req[r].op \in {"update", "delete"}
Quiet == \A r \in Reqs : At(r, "idle")
\* A request may start beside the others; Serial keeps writers alone.
MayStart(admin) ==
  Serial => IF admin THEN Quiet ELSE \A r \in Reqs : ~IsAdmin(r)

-----------------------------------------------------------------------------
(* Administration: createRouting, updateRouting, deleteRouting.            *)

\* The request finds its routing, and that every key of the new configuration
\* exists. Keys only disappear, so one read stands for the loop's reads.
StartUpdate(r, id, c) ==
  /\ c \in world.configs
  /\ At(r, "idle") /\ MayStart(TRUE) /\ Live(id)
  /\ \A n \in 1 .. Len(c.targets) : c.targets[n] \in keys
  /\ Set(r, [Idle EXCEPT !.pc = "write", !.op = "update", !.id = id, !.config = c])
  /\ UNCHANGED <<Data, Memory>>

StartDelete(r, id) ==
  /\ At(r, "idle") /\ MayStart(TRUE) /\ Live(id)
  /\ Set(r, [Idle EXCEPT !.pc = "write", !.op = "delete", !.id = id])
  /\ UNCHANGED <<Data, Memory>>

\* The write; it fails when the row has gone, and then nothing is cleared.
WriteRow(r) ==
  /\ At(r, "write")
  /\ LET id == req[r].id IN
     IF Live(id)
       THEN /\ \/ /\ req[r].op = "delete"
                  /\ row' = [row EXCEPT ![id] = Gone("gone")]
               \/ /\ req[r].op = "update"
                  /\ \E p \in Priorities, e \in BOOLEAN :
                       row' = [row EXCEPT ![id] = [st |-> "live", enabled |-> e,
                                                   prio |-> p, config |-> req[r].config]]
            /\ Goto(r, "clear")
       ELSE UNCHANGED row /\ Set(r, Idle)
  /\ UNCHANGED <<keys, Memory>>

\* A writer that leaves the index in place.
KeepBalance(r) ==
  /\ At(r, "clear")
  /\ round' = [round EXCEPT ![req[r].id] = {}]
  /\ Set(r, Idle) /\ UNCHANGED <<Data, lb>>

\* clearLoadBalanceState.
ClearBalance(r) ==
  /\ At(r, "clear")
  /\ lb' = [lb EXCEPT ![req[r].id] = None]
  /\ round' = [round EXCEPT ![req[r].id] = {}]
  /\ Set(r, Idle) /\ UNCHANGED Data

CreateRouting(id, c, p) ==
  /\ c \in world.configs
  /\ row[id].st = "new" /\ id \in world.ids /\ MayStart(TRUE)
  /\ \A n \in 1 .. Len(c.targets) : c.targets[n] \in keys
  /\ row' = [row EXCEPT ![id] = [st |-> "live", enabled |-> TRUE, prio |-> p, config |-> c]]
  /\ UNCHANGED <<keys, Memory, req>>

\* deleteProviderKey looks at no routing.
DeleteKey(k) ==
  /\ k \in keys /\ keys' = keys \ {k}
  /\ UNCHANGED <<row, Memory, req>>

-----------------------------------------------------------------------------
(* routeRequest and testRoute.                                             *)

Start(r, op) ==
  /\ At(r, "idle") /\ MayStart(FALSE)
  /\ Set(r, [Idle EXCEPT !.pc = "list", !.op = op])
  /\ UNCHANGED <<Data, Memory>>

\* The enabled routings by priority; the database orders equals as it likes.
Enabled == {id \in Routings : Live(id) /\ row[id].enabled}
Listings ==
  {s \in [1 .. Cardinality(Enabled) -> Enabled] :
     /\ \A id \in Enabled : \E n \in DOMAIN s : s[n] = id
     /\ \A m, n \in DOMAIN s : m < n => row[s[m]].prio <= row[s[n]].prio}

\* The index after i of n, which forgets the first target.
AdvanceSkip(i, n) == IF i + 1 = n THEN 1 ELSE i + 1

\* The index after i of n, counted from 0.
Advance(i, n) == (i + 1) % n

Index(id) == IF lb[id] = None THEN 0 ELSE lb[id]

\* getNextRoundRobinIndex.
TakeIndex(id, n) ==
  /\ lb' = [lb EXCEPT ![id] = Advance(Index(id), n)]
  /\ round' = [round EXCEPT ![id] = LET now == @ \cup {Index(id)} IN
                 IF now = 0 .. n - 1 THEN {} ELSE now]

\* The loop of routeRequest from its i-th routing on, up to the next `await`.
\* A missing target throws; without a routing left the default is looked up.
TryRoute(r, list, i) ==
  LET q == [req[r] EXCEPT !.list = list, !.i = i] IN
  IF i > Len(list) THEN Set(r, [q EXCEPT !.pc = "primary"]) /\ UNCHANGED Memory
  ELSE
    LET id == list[i].id
        targets == list[i].config.targets
        Resolve(k) == Set(r, [q EXCEPT !.pc = "resolve", !.target = k])
    IN \/ /\ list[i].config.type \in {"function", "weighted"}
          /\ \E n \in 1 .. Len(targets) : Resolve(targets[n])
          /\ UNCHANGED Memory
       \/ /\ list[i].config.type = "failover"
          /\ Resolve(targets[1]) /\ UNCHANGED Memory
       \/ /\ list[i].config.type = "round_robin"
          /\ TakeIndex(id, Len(targets))
          /\ IF Index(id) < Len(targets) THEN Resolve(targets[Index(id) + 1])
                                         ELSE Set(r, [q EXCEPT !.pc = "crashed"])

ListRoutings(r) ==
  /\ At(r, "list")
  /\ \E s \in Listings :
       TryRoute(r, [n \in DOMAIN s |-> [id |-> s[n], config |-> row[s[n]].config]], 1)
  /\ UNCHANGED Data

\* resolveTarget; a key that has gone passes the request to the next routing.
ResolveTarget(r) ==
  /\ At(r, "resolve")
  /\ IF req[r].target \in keys THEN Goto(r, "done") /\ UNCHANGED Memory
                              ELSE TryRoute(r, req[r].list, req[r].i + 1)
  /\ UNCHANGED Data

\* The queries of getDefaultRoute; operations of a non-failover run once.
FindPrimary(r) ==
  /\ At(r, "primary")
  /\ IF world.primary = None THEN Goto(r, "first")
       ELSE Set(r, [req[r] EXCEPT !.pc = "default", !.target = world.primary])
  /\ UNCHANGED <<Data, Memory>>

FindFirst(r) ==
  /\ At(r, "first")
  /\ IF world.first = None THEN Goto(r, "failed")
       ELSE Set(r, [req[r] EXCEPT !.pc = "default", !.target = world.first])
  /\ UNCHANGED <<Data, Memory>>

ResolveDefault(r) ==
  /\ At(r, "default")
  /\ IF req[r].target \notin keys THEN Goto(r, "failed")
       ELSE IF req[r].op = "failover" THEN Goto(r, "once") ELSE Goto(r, "done")
  /\ UNCHANGED <<Data, Memory>>

OperateOnce(r) ==
  /\ At(r, "once")
  /\ \/ Goto(r, "done")
     \/ Faults /\ Goto(r, "failed")
  /\ UNCHANGED <<Data, Memory>>

-----------------------------------------------------------------------------
(* executeWithFailover.                                                    *)

StartFailover(r, id) ==
  /\ At(r, "idle") /\ MayStart(FALSE)
  /\ Set(r, IF Live(id) /\ row[id].config.type = "failover"
              THEN [Idle EXCEPT !.pc = "attempt", !.op = "failover", !.config = row[id].config,
                                !.i = 1, !.tried = [n \in 1 .. Len(row[id].config.targets) |-> 0]]
              ELSE [Idle EXCEPT !.pc = "primary", !.op = "failover"])
  /\ UNCHANGED <<Data, Memory>>

\* The attempts of a target carried over to the next one.
NextTargetTired(q) ==
  IF q.i = Len(q.config.targets)
    THEN [q EXCEPT !.pc = "exhausted"]
    ELSE [q EXCEPT !.pc = "attempt", !.i = @ + 1, !.attempt = MaxAttempts - 1]

\* The next target, with its attempts counted from the start.
NextTarget(q) ==
  IF q.i = Len(q.config.targets)
    THEN [q EXCEPT !.pc = "exhausted"]
    ELSE [q EXCEPT !.pc = "attempt", !.i = @ + 1, !.attempt = 0]

ResolveAttempt(r) ==
  /\ At(r, "attempt")
  /\ IF req[r].config.targets[req[r].i] \in keys
       THEN Goto(r, "operate") ELSE Set(r, NextTarget(req[r]))
  /\ UNCHANGED <<Data, Memory>>

\* The operation fails: again after delayMs, or with the next target.
FailAttempt(r) ==
  /\ At(r, "operate") /\ Faults
  /\ LET n == req[r].attempt + 1
         q == [req[r] EXCEPT !.attempt = n, !.tried[req[r].i] = @ + 1]
     IN Set(r, IF n < MaxAttempts THEN [q EXCEPT !.pc = "attempt"] ELSE NextTarget(q))
  /\ UNCHANGED <<Data, Memory>>

Operate(r) == At(r, "operate") /\ Goto(r, "done") /\ UNCHANGED <<Data, Memory>>

-----------------------------------------------------------------------------
End(r) ==
  /\ req[r].pc \in {"done", "failed", "exhausted", "crashed"}
  /\ Set(r, Idle) /\ UNCHANGED <<Data, Memory>>

Step(r) ==
  \/ WriteRow(r) \/ ClearBalance(r)
  \/ ListRoutings(r) \/ ResolveTarget(r)
  \/ FindPrimary(r) \/ FindFirst(r) \/ ResolveDefault(r) \/ OperateOnce(r)
  \/ ResolveAttempt(r) \/ FailAttempt(r) \/ Operate(r)
  \/ End(r)

Init ==
  /\ world \in Worlds
  /\ row = [id \in Routings |-> Gone("new")]
  /\ keys = Keys
  /\ lb = [id \in Routings |-> None] /\ round = [id \in Routings |-> {}]
  /\ req = [r \in Reqs |-> Idle]

Next ==
  \/ \E id \in Routings, c \in Configs, p \in Priorities : CreateRouting(id, c, p)
  \/ \E r \in Reqs, id \in Routings, c \in Configs : StartUpdate(r, id, c)
  \/ \E r \in Reqs, id \in Routings : StartDelete(r, id) \/ StartFailover(r, id)
  \/ \E r \in Reqs, op \in {"route", "test"} : Start(r, op)
  \/ \E r \in Reqs : Step(r)
  \/ \E k \in Keys : DeleteKey(k)

Spec == Init /\ [][Next /\ UNCHANGED world]_<<vars, world>>

\* Queries and operations return: every started request runs on.
FairSpec == Spec /\ \A r \in Reqs : WF_vars(Step(r))

-----------------------------------------------------------------------------
\* Every variable keeps its type.
TypeOK ==
  /\ world \in Worlds
  /\ \A id \in Routings :
       \/ row[id] \in {Gone("new"), Gone("gone")}
       \/ row[id] \in [st : {"live"}, enabled : BOOLEAN, prio : Priorities, config : Configs]
  /\ keys \subseteq Keys
  /\ \A id \in Routings : lb[id] \in Nat \cup {None} /\ round[id] \subseteq Nat
  /\ \A r \in Reqs :
       /\ req[r].attempt \in 0 .. MaxAttempts
       /\ \A n \in DOMAIN req[r].tried : req[r].tried[n] \in 0 .. MaxAttempts
       /\ req[r].pc \in {"resolve", "default"} => req[r].target \in Keys

\* An index is used with lists of one length only: writers are alone, so that
\* the index is cleared before a request reads the new list, or all the lists
\* that take turns have as many targets.
OneLength ==
  \A c, d \in world.configs :
    c.type = "round_robin" /\ d.type = "round_robin" => Len(c.targets) = Len(d.targets)
OneCount == Serial \/ OneLength

\* Router and administration agree on the targets an index counts: no request
\* is sent to a target behind the end of the list.
IndexInRange == TypeOK /\ (OneCount => \A r \in Reqs : ~At(r, "crashed"))

\* Load balancing takes every target once before it takes one again, also when
\* requests overlap, targets lose their keys and configurations change: the
\* next request takes a target not yet taken in this round.
EachTargetOncePerRound == OneCount => \A id \in Routings : Index(id) \notin round[id]

\* Failover gives up only when it has tried every target MaxAttempts times or
\* found its key gone.
FailoverIsThorough ==
  [][\A r \in Reqs : req'[r].pc = "exhausted" /\ ~At(r, "exhausted") =>
       \A n \in DOMAIN req'[r].tried :
         req'[r].tried[n] = MaxAttempts \/ req[r].config.targets[n] \notin keys]_vars

\* Every request ends, with an answer or an error, and with the error of
\* failover only after all its attempts.
FailoverEnds == FailoverIsThorough /\ \A r \in Reqs : ~At(r, "idle") ~> At(r, "idle")
=============================================================================
