---------------------------- MODULE BotProviders ----------------------------
(***************************************************************************)
(* The rows of BotProviderKey of one bot: which provider keys it may use,  *)
(* and which of them is primary, the one startBot gives the container and  *)
(* BotConfigResolverService answers with. createBot writes the first rows, *)
(* addBotProvider and removeBotProvider change them; no transaction joins  *)
(* their queries.                                                          *)
(***************************************************************************)
EXTENDS Naturals, Sequences, FiniteSets

CONSTANTS
  Keys, Reqs, None,
  Vendor,     \* the vendor of each key
  Worlds      \* the environments considered

ASSUME BotProvidersAssumption ==
  /\ None \notin Keys /\ IsFiniteSet(Keys)
  /\ DOMAIN Vendor = Keys
  /\ Worlds \subseteq [serial : BOOLEAN, faults : BOOLEAN, settings : BOOLEAN, keys : SUBSET Keys]

VARIABLES
  link,       \* per key: no row, a row, or the row of a primary
  keys,       \* provider keys that are not deleted
  req,        \* requests under way
  born,       \* has createBot run?
  asked,      \* history: the key last made primary and not removed since
  world       \* the environment, which never changes

vars == <<link, keys, req, born, asked>>

Serial == world.serial   \* does a request wait until no other is under way?
Faults == world.faults   \* may a query fail?

Linked == {k \in Keys : link[k] # "no"}
Primaries == {k \in Keys : link[k] = "primary"}

Idle == [pc |-> "idle", key |-> None, primary |-> FALSE, todo |-> <<>>, main |-> None]
At(r, pc) == req[r].pc = pc
Set(r, q) == req' = [req EXCEPT ![r] = q]
Goto(r, pc) == Set(r, [req[r] EXCEPT !.pc = pc])
Quiet == \A r \in Reqs : At(r, "idle")
MayStart(r) == At(r, "idle") /\ (Serial => Quiet)
Rank(p) == IF p THEN "primary" ELSE "yes"

\* A query of r fails and so does r; what r wrote before stays.
Fail(r) ==
  /\ Faults /\ ~At(r, "idle") /\ ~At(r, "seed")
  /\ Set(r, Idle) /\ UNCHANGED <<link, keys, born, asked>>

\* The unique index on bot and key; a second row is an error.
Insert(k, p) ==
  IF link[k] = "no"
    THEN /\ link' = [link EXCEPT ![k] = Rank(p)]
         /\ asked' = IF p THEN k ELSE asked
    ELSE UNCHANGED <<link, asked>>

\* createBot with providers ks, whose primary is to be of vendor v: the row of
\* the bot exists from here on.
CreateBot(r, ks, v) ==
  /\ MayStart(r) /\ ~born /\ born' = TRUE
  /\ Set(r, [Idle EXCEPT !.pc = "seed", !.todo = ks, !.main = v])
  /\ UNCHANGED <<link, keys, asked>>

\* One turn of its loop: primary are the keys of the primary vendor. Errors
\* are caught and the loop goes on.
SeedProvider(r) ==
  /\ At(r, "seed")
  /\ LET k == Head(req[r].todo) IN
       \/ Insert(k, Vendor[k] = req[r].main)
       \/ Faults /\ UNCHANGED <<link, asked>>
  /\ Set(r, IF Len(req[r].todo) = 1 THEN Idle ELSE [req[r] EXCEPT !.todo = Tail(@)])
  /\ UNCHANGED <<keys, born>>

\* The list without the loop over it.
SkipPrimaries(r) ==
  /\ At(r, "list") /\ Goto(r, "create")
  /\ UNCHANGED <<link, keys, born, asked>>

\* addBotProvider: the key exists,
StartAdd(r, k, p) ==
  /\ MayStart(r) /\ born /\ k \in keys
  /\ Set(r, [Idle EXCEPT !.pc = "check", !.key = k, !.primary = p])
  /\ UNCHANGED <<link, keys, born, asked>>

\* has no row yet,
CheckLink(r) ==
  /\ At(r, "check")
  /\ IF link[req[r].key] # "no" THEN Set(r, Idle)
       ELSE Goto(r, IF req[r].primary THEN "list" ELSE "create")
  /\ UNCHANGED <<link, keys, born, asked>>

\* the primaries are listed,
ListPrimaries(r) ==
  /\ At(r, "list")
  /\ \E s \in [1 .. Cardinality(Primaries) -> Primaries] :
       /\ \A k \in Primaries : \E n \in DOMAIN s : s[n] = k
       /\ Set(r, [req[r] EXCEPT !.todo = s, !.pc = IF s = <<>> THEN "create" ELSE "unset"])
  /\ UNCHANGED <<link, keys, born, asked>>

\* each is unset (an update of a removed row fails the request),
UnsetPrimary(r) ==
  /\ At(r, "unset")
  /\ LET k == Head(req[r].todo) IN
     IF k = None THEN Set(r, Idle) /\ UNCHANGED link
     ELSE /\ link' = [link EXCEPT ![k] = "yes"]
          /\ Set(r, [req[r] EXCEPT !.todo = Tail(@),
                                   !.pc = IF Len(req[r].todo) = 1 THEN "create" ELSE "unset"])
  /\ UNCHANGED <<keys, born, asked>>

\* and the row is created, unless another request did.
CreateLink(r) ==
  /\ At(r, "create")
  /\ Insert(req[r].key, req[r].primary)
  /\ Set(r, Idle) /\ UNCHANGED <<keys, born>>

StartRemove(r, k) ==
  /\ MayStart(r) /\ link[k] # "no"
  /\ Set(r, [Idle EXCEPT !.pc = "remove", !.key = k])
  /\ UNCHANGED <<link, keys, born, asked>>

\* What the requests know of a row that is deleted by its id: another delete of
\* it fails, and so does an update once it is reached.
Forget(q, k) ==
  IF q.pc = "remove" /\ q.key = k THEN Idle
  ELSE IF q.pc = "unset"
    THEN [q EXCEPT !.todo = [n \in DOMAIN @ |-> IF @[n] = k THEN None ELSE @[n]]]
    ELSE q

RemoveLink(r) ==
  /\ At(r, "remove")
  /\ LET k == req[r].key IN
       /\ link' = [link EXCEPT ![k] = "no"]
       /\ asked' = IF asked = k THEN None ELSE asked
       /\ req' = [s \in Reqs |-> Forget(req[s], k)]
  /\ UNCHANGED <<keys, born>>

\* deleteProviderKey leaves the rows of the key.
DeleteKey(k) ==
  /\ k \in keys /\ keys' = keys \ {k}
  /\ UNCHANGED <<link, req, born, asked>>

\* A key is added: a new one, which nothing knows yet.
AddKey(k) ==
  /\ k \in world.keys \ keys /\ link[k] = "no" /\ \A r \in Reqs : At(r, "idle")
  /\ keys' = keys \cup {k}
  /\ UNCHANGED <<link, req, born, asked>>

Init ==
  /\ link = [k \in Keys |-> "no"] /\ world \in Worlds /\ keys = world.keys
  /\ req = [r \in Reqs |-> Idle] /\ born = FALSE /\ asked = None

Providers == UNION {[1 .. n -> world.keys] : n \in 1 .. 2}

Next ==
  \/ \E r \in Reqs :
       \/ \E ks \in Providers, k \in world.keys : CreateBot(r, ks, Vendor[k])
       \/ \E k \in world.keys, p \in BOOLEAN : StartAdd(r, k, p)
       \/ \E k \in Keys : StartRemove(r, k)
       \/ SeedProvider(r) \/ CheckLink(r) \/ ListPrimaries(r) \/ UnsetPrimary(r)
       \/ CreateLink(r) \/ RemoveLink(r) \/ Fail(r)
  \/ \E k \in Keys : AddKey(k) \/ DeleteKey(k)

Spec == Init /\ [][Next /\ UNCHANGED world]_<<vars, world>>

-----------------------------------------------------------------------------
\* Every variable keeps its type.
TypeOK ==
  /\ link \in [Keys -> {"no", "yes", "primary"}]
  /\ keys \subseteq Keys /\ born \in BOOLEAN /\ asked \in Keys \cup {None}
  /\ world \in Worlds
  /\ \A r \in Reqs :
       /\ req[r].key \in Keys \cup {None} /\ req[r].primary \in BOOLEAN
       /\ req[r].todo \in Seq(Keys \cup {None})
       /\ req[r].pc \in {"seed", "unset"} => req[r].todo # <<>>

\* When nothing is under way, requests came one by one and no query failed, the
\* one primary is the key last made primary, or none once that was removed:
\* the container gets the key the user asked for.
NewestPrimaryWins ==
  (Serial /\ ~Faults /\ Quiet) => Primaries = IF asked = None THEN {} ELSE {asked}

\* A failed addBotProvider never leaves more primaries than there were: with
\* failing queries, one by one, the bot has at most one primary.
AtMostOnePrimary == Serial => Cardinality(Primaries) <= 1
=============================================================================
