----------------------------- MODULE ProxyToken -----------------------------
(***************************************************************************)
(* Zero-trust mode: a bot's container gets a proxy token instead of the    *)
(* provider's API key, and the key proxy accepts the token on its behalf.  *)
(*                                                                         *)
(* The table ProxyToken is written by registerBot, revokeBot and           *)
(* deleteByBotId of keyring-proxy.service.ts, which createBot, startBot    *)
(* and deleteBot of bot-api.service.ts and the admin endpoints call. Each  *)
(* is a sequence of awaited queries: a step of the model is one of them,   *)
(* and requests interleave between any two. The process may crash; table,  *)
(* containers and secrets directories survive.                             *)
(***************************************************************************)
EXTENDS Naturals, FiniteSets

CONSTANTS
  Bots, Keys,
  KeyFor,      \* KeyFor[b]: the bot's primary provider key
  Tokens,      \* tokens that can be generated (bounds registrations)
  RealKey,     \* an API key in the clear, whichever it is
  Reqs, None,
  Worlds       \* the environments considered

ASSUME ProxyTokenAssumption ==
  /\ KeyFor \in [Bots -> Keys]
  /\ None \notin Bots \cup Tokens /\ RealKey \notin Tokens \cup {None}
  /\ \A w \in Worlds : /\ {w.serial, w.faults, w.crashes, w.admin} \subseteq BOOLEAN
                       /\ w.bots \subseteq Bots /\ w.keys \cup w.mortal \subseteq Keys /\ w.tokens \subseteq Tokens

VARIABLES
  bot,         \* the Bot table: none, live or deleted
  keys,        \* provider keys that are not deleted
  tok,         \* the ProxyToken table: botId is unique, so at most one per bot
  issued,      \* tokens generated so far
  hash,        \* Bot.proxyTokenHash
  env,         \* the credential in the environment of the bot's container
  secrets,     \* bots whose secrets directory holds the API key
  req,         \* in-flight requests
  world        \* the environment, which never changes

vars == <<bot, keys, tok, issued, hash, env, secrets, req>>

Serial == world.serial    \* does a mutating request wait for the one before it?
Faults == world.faults    \* may a query or a Docker call fail by itself?
Crashes == world.crashes  \* may the API process crash?
Admin == world.admin      \* are the proxy's admin endpoints used?

NoToken == [id |-> None, state |-> "none"]

Idle == [op |-> "none", pc |-> "idle", bot |-> None, row |-> None, cred |-> None]

LiveBot(b) == bot[b] = "live"
KeyLive(b) == KeyFor[b] \in keys

\* validateToken: found by its hash, neither revoked nor expired, and its
\* provider key is not deleted. The bot is not looked at.
Accepts(t) == \E b \in Bots : tok[b] = [id |-> t, state |-> "valid"] /\ KeyLive(b)

-----------------------------------------------------------------------------
At(r, pc) == req[r].pc = pc
Goto(r, pc) == req' = [req EXCEPT ![r].pc = pc]
Done(r) == req' = [req EXCEPT ![r] = Idle]
MayMutate == Serial => \A r \in Reqs : req[r].op = "none"
Arrive(r, op, b, pc) ==
  /\ At(r, "idle") /\ MayMutate
  /\ req' = [req EXCEPT ![r] = [Idle EXCEPT !.op = op, !.pc = pc, !.bot = b]]

\* Bound: a registering request is admitted only while an unused token is left
\* for it and for those already under way.
Admitted ==
  Cardinality({r \in Reqs : req[r].op \in {"create", "start", "register"}})
    < Cardinality(world.tokens \ issued)

(* createBot, startBot: up to the registration                             *)

CreateBot(r, b) ==
  /\ Admitted /\ b \in world.bots /\ bot[b] = "none"
  /\ Arrive(r, "create", b, IF KeyLive(b) THEN "checkbot" ELSE "container")
  /\ bot' = [bot EXCEPT ![b] = "live"]
  /\ UNCHANGED <<keys, tok, issued, hash, env, secrets>>

StartBot(r, b) ==
  /\ Admitted /\ LiveBot(b) /\ Arrive(r, "start", b, "removeold")
  /\ UNCHANGED <<bot, keys, tok, issued, hash, env, secrets>>

\* A container is removed by the id that the row records: one made just before a
\* crash is not found, and errors only warn.
Missed == IF Faults \/ Crashes THEN {env} ELSE {}

\* startBot stops and removes the old container.
RemoveOld(r) ==
  /\ At(r, "removeold")
  /\ env' \in {[env EXCEPT ![req[r].bot] = None]} \cup Missed
  /\ Goto(r, "getkey")
  /\ UNCHANGED <<bot, keys, tok, issued, hash, secrets>>

GetKey(r) ==
  /\ At(r, "getkey")
  /\ \/ KeyLive(req[r].bot) /\ Goto(r, "checkbot")
     \/ (Faults \/ ~KeyLive(req[r].bot)) /\ Goto(r, "container")
  /\ UNCHANGED <<bot, keys, tok, issued, hash, env, secrets>>

(* registerBot                                                             *)

\* Where an error of registerBot leads: bots are started in direct mode.
Failed(r) == IF req[r].op = "register" THEN Done(r) ELSE Goto(r, "direct")

CheckBot(r) ==
  /\ At(r, "checkbot")
  /\ \/ LiveBot(req[r].bot) /\ Goto(r, "checkkey")
     \/ (Faults \/ ~LiveBot(req[r].bot)) /\ Failed(r)
  /\ UNCHANGED <<bot, keys, tok, issued, hash, env, secrets>>

CheckKey(r) ==
  /\ At(r, "checkkey")
  /\ \/ KeyLive(req[r].bot) /\ Goto(r, "read")
     \/ (Faults \/ ~KeyLive(req[r].bot)) /\ Failed(r)
  /\ UNCHANGED <<bot, keys, tok, issued, hash, env, secrets>>

\* registerBot that goes straight to the insert.
ReadNothing(r) ==
  /\ At(r, "read") /\ Goto(r, "insert")
  /\ UNCHANGED <<bot, keys, tok, issued, hash, env, secrets>>

ReadExisting(r) ==
  /\ At(r, "read")
  /\ LET row == tok[req[r].bot]
     IN  \/ IF row = NoToken
              THEN Goto(r, "insert")
              ELSE req' = [req EXCEPT ![r].row = row.id, ![r].pc = "drop"]
         \/ Faults /\ Failed(r)
  /\ UNCHANGED <<bot, keys, tok, issued, hash, env, secrets>>

\* Prisma's delete by id throws when the row is gone.
DropExisting(r) ==
  /\ At(r, "drop")
  /\ \/ /\ tok[req[r].bot].id = req[r].row
        /\ tok' = [tok EXCEPT ![req[r].bot] = NoToken]
        /\ Goto(r, "insert")
     \/ /\ Faults \/ tok[req[r].bot].id # req[r].row
        /\ Failed(r) /\ UNCHANGED tok
  /\ UNCHANGED <<bot, keys, issued, hash, env, secrets>>

\* An upsert where the insert is: the row another registration made is lost.
UpsertToken(r) ==
  /\ At(r, "insert")
  /\ LET t == CHOOSE x \in world.tokens \ issued : TRUE
     IN  /\ world.tokens # issued /\ issued' = issued \cup {t}
         /\ tok' = [tok EXCEPT ![req[r].bot] = [id |-> t, state |-> "valid"]]
         /\ IF req[r].op = "register" THEN Done(r)
            ELSE req' = [req EXCEPT ![r].cred = t, ![r].pc = "hash"]
  /\ UNCHANGED <<bot, keys, hash, env, secrets>>

\* The insert fails on the unique botId when another registration came first.
InsertToken(r) ==
  /\ At(r, "insert")
  /\ LET t == CHOOSE x \in world.tokens \ issued : TRUE
     IN  /\ world.tokens # issued /\ issued' = issued \cup {t}
         /\ \/ /\ tok[req[r].bot] = NoToken
               /\ tok' = [tok EXCEPT ![req[r].bot] = [id |-> t, state |-> "valid"]]
               /\ IF req[r].op = "register" THEN Done(r)
                  ELSE req' = [req EXCEPT ![r].cred = t, ![r].pc = "hash"]
            \/ /\ Faults \/ tok[req[r].bot] # NoToken
               /\ Failed(r) /\ UNCHANGED tok
  /\ UNCHANGED <<bot, keys, hash, env, secrets>>

(* createBot, startBot: after the registration                             *)

\* The hash is lost: the row keeps that of the last registration.
SkipHash(r) ==
  /\ At(r, "hash") /\ Goto(r, "container")
  /\ UNCHANGED <<bot, keys, tok, issued, hash, env, secrets>>

StoreHash(r) ==
  /\ At(r, "hash")
  /\ \/ hash' = [hash EXCEPT ![req[r].bot] = req[r].cred] /\ Goto(r, "container")
     \/ Faults /\ Goto(r, "direct") /\ UNCHANGED hash
  /\ UNCHANGED <<bot, keys, tok, issued, env, secrets>>

\* "Fall back to direct mode": the API key goes to the secrets directory, where
\* the write may fail, and, unless a token was obtained, into the container.
\* createBot reads the key once more, and startBot uses the one it has.
FallBack(r) ==
  /\ At(r, "direct")
  /\ \/ /\ req[r].op = "create" /\ (Faults \/ ~KeyLive(req[r].bot))
        /\ Goto(r, "container") /\ UNCHANGED secrets
     \/ /\ req[r].op = "create" => KeyLive(req[r].bot)
        /\ secrets' \in {secrets \cup {req[r].bot}} \cup (IF Faults THEN {secrets} ELSE {})
        /\ req' = [req EXCEPT ![r].pc = "container",
                              ![r].cred = IF @ = None THEN RealKey ELSE @]
  /\ UNCHANGED <<bot, keys, tok, issued, hash, env>>

\* createContainer and the rest of the request. A container that carries the
\* bot's name is replaced; another request may have it made in between.
CreateContainer(r) ==
  /\ At(r, "container")
  /\ \/ env' = [env EXCEPT ![req[r].bot] = req[r].cred]
     \/ (Faults \/ env[req[r].bot] # None) /\ UNCHANGED env
  /\ Done(r)
  /\ UNCHANGED <<bot, keys, tok, issued, hash, secrets>>

(* deleteBot                                                               *)

DeleteBot(r, b) ==
  /\ LiveBot(b) /\ Arrive(r, "delete", b, "rmcontainer")
  /\ UNCHANGED <<bot, keys, tok, issued, hash, env, secrets>>

DeleteContainer(r) ==
  /\ At(r, "rmcontainer")
  /\ env' \in {[env EXCEPT ![req[r].bot] = None]} \cup Missed
  /\ Goto(r, "rmread")
  /\ UNCHANGED <<bot, keys, tok, issued, hash, secrets>>

\* deleteByBotId, whose errors are swallowed.
DeleteTokenRead(r) ==
  /\ At(r, "rmread")
  /\ LET row == tok[req[r].bot]
     IN  \/ req' = [req EXCEPT ![r].row = row.id, ![r].pc = IF row = NoToken THEN "erase" ELSE "rmtoken"]
         \/ Faults /\ Goto(r, "erase")
  /\ UNCHANGED <<bot, keys, tok, issued, hash, env, secrets>>

DeleteToken(r) ==
  /\ At(r, "rmtoken")
  /\ \/ /\ tok[req[r].bot].id = req[r].row
        /\ tok' = [tok EXCEPT ![req[r].bot] = NoToken]
     \/ (Faults \/ tok[req[r].bot].id # req[r].row) /\ UNCHANGED tok
  /\ Goto(r, "erase")
  /\ UNCHANGED <<bot, keys, issued, hash, env, secrets>>

\* deleteWorkspace, and the soft delete of the row.
EraseBot(r) ==
  /\ At(r, "erase")
  /\ secrets' \in {secrets \ {req[r].bot}} \cup (IF Faults THEN {secrets} ELSE {})
  /\ bot' = [bot EXCEPT ![req[r].bot] = "deleted"]
  /\ Done(r)
  /\ UNCHANGED <<keys, tok, issued, hash, env>>

(* The admin endpoints, deleteProviderKey and the passing of time          *)

AdminRegister(r, b) ==
  /\ Admin /\ Admitted /\ Arrive(r, "register", b, "checkbot")
  /\ UNCHANGED <<bot, keys, tok, issued, hash, env, secrets>>

RevokeBot(r, b) ==
  /\ Admin /\ tok[b].state \in {"valid", "expired"}
  /\ At(r, "idle") /\ MayMutate
  /\ req' = [req EXCEPT ![r] = [op |-> "revoke", pc |-> "revoke", bot |-> b,
                                row |-> tok[b].id, cred |-> None]]
  /\ UNCHANGED <<bot, keys, tok, issued, hash, env, secrets>>

RevokeWrite(r) ==
  /\ At(r, "revoke")
  /\ tok' = IF tok[req[r].bot].id = req[r].row
              THEN [tok EXCEPT ![req[r].bot].state = "revoked"] ELSE tok
  /\ Done(r)
  /\ UNCHANGED <<bot, keys, issued, hash, env, secrets>>

DeleteProviderKey(k) ==
  /\ k \in keys \cap world.mortal /\ MayMutate
  /\ keys' = keys \ {k}
  /\ UNCHANGED <<bot, tok, issued, hash, env, secrets, req>>

\* PROXY_TOKEN_TTL (24 h) has passed.
Expire(b) ==
  /\ tok[b].state = "valid"
  /\ tok' = [tok EXCEPT ![b].state = "expired"]
  /\ UNCHANGED <<bot, keys, issued, hash, env, secrets, req>>

Crash ==
  /\ Crashes
  /\ req' = [r \in Reqs |-> Idle]
  /\ UNCHANGED <<bot, keys, tok, issued, hash, env, secrets>>

-----------------------------------------------------------------------------
Init ==
  /\ world \in Worlds
  /\ bot = [b \in Bots |-> "none"] /\ keys = world.keys
  /\ tok = [b \in Bots |-> NoToken] /\ issued = {}
  /\ hash = [b \in Bots |-> None] /\ env = [b \in Bots |-> None]
  /\ secrets = {} /\ req = [r \in Reqs |-> Idle]

Step ==
  \/ \E r \in Reqs, b \in Bots :
       \/ CreateBot(r, b) \/ StartBot(r, b) \/ DeleteBot(r, b)
       \/ AdminRegister(r, b) \/ RevokeBot(r, b)
  \/ \E r \in Reqs :
       \/ RemoveOld(r) \/ GetKey(r) \/ CheckBot(r) \/ CheckKey(r) \/ ReadExisting(r)
       \/ DropExisting(r) \/ InsertToken(r) \/ StoreHash(r) \/ FallBack(r) \/ CreateContainer(r)
       \/ DeleteContainer(r) \/ DeleteTokenRead(r) \/ DeleteToken(r) \/ EraseBot(r)
       \/ RevokeWrite(r)
  \/ \E k \in Keys : DeleteProviderKey(k)
  \/ \E b \in Bots : Expire(b)

Next == Step \/ Crash

Spec == Init /\ [][Next /\ UNCHANGED world]_<<vars, world>>

-----------------------------------------------------------------------------
PCs == {"idle", "removeold", "getkey", "checkbot", "checkkey", "read", "drop", "insert",
        "hash", "direct", "container", "rmcontainer", "rmread", "rmtoken", "erase", "revoke"}
Ops == {"none", "create", "start", "register", "delete", "revoke"}
Request == [op : Ops, pc : PCs, bot : Bots \cup {None}, row : Tokens \cup {None},
            cred : Tokens \cup {None, RealKey}]
TokenRow == [id : Tokens, state : {"valid", "revoked", "expired"}] \cup {NoToken}

\* Every variable keeps its type.
TypeOK ==
  /\ bot \in [Bots -> {"none", "live", "deleted"}]
  /\ keys \in SUBSET Keys /\ issued \in SUBSET Tokens /\ secrets \in SUBSET Bots
  /\ tok \in [Bots -> TokenRow]
  /\ hash \in [Bots -> Tokens \cup {None}]
  /\ env \in [Bots -> Tokens \cup {None, RealKey}]
  /\ req \in [Reqs -> Request]
  /\ world \in Worlds

\* "The bot container never holds the real API key": with requests one at a
\* time and no failing call, neither the environment nor the secrets directory
\* of a bot ever gets the key, whatever a crash left behind in the table.
ZeroTrustHolds ==
  (Serial /\ ~Faults) => secrets = {} /\ \A b \in Bots : env[b] # RealKey

\* The proxy serves no bot that deleteBot has erased, also when the process
\* crashed in an earlier delete, start or registration of it.
NoTokenAfterDelete ==
  (Serial /\ ~Faults) => \A b \in Bots : bot[b] = "deleted" => tok[b] = NoToken

\* Between requests, the token in a bot's container is the one whose hash the
\* bot's row has, and the one in the table, which nobody has revoked: what ends a
\* running bot's access is 24 hours or the deletion of its provider key, and then
\* it lasts until the bot is started again, but no request that came and went
\* locks it out. (The admin endpoints replace and revoke tokens on purpose; a
\* crash or an error may leave a container that its row does not know of.)
ContainerTokenIsCurrent ==
  (Serial /\ ~Faults /\ ~Crashes /\ \A r \in Reqs : req[r].op = "none") =>
    \A b \in Bots : env[b] \in Tokens =>
      /\ hash[b] = env[b]
      /\ Admin \/ (tok[b].id = env[b] /\ tok[b].state # "revoked")

\* A token that was issued and is not accepted is never accepted again: not
\* after revokeBot, expiry, a new registration, deleteBot or the deletion of
\* its provider key, in whatever order the steps of overlapping requests run.
\* This is a part of TokensAreLeases.
DeadTokenStaysDead ==
  [][\A t \in issued : ~Accepts(t) => ~Accepts(t)']_vars

\* The tokens the proxy accepts are leases of the bots: a registration grants
\* one that was never granted, and only to a bot whose last one has ended,
\* whatever overlapping registrations, revocations and deletions do between.
Granted == [b \in Bots |-> IF tok[b].state = "valid" /\ KeyLive(b) THEN tok[b].id ELSE None]
Lease == INSTANCE TokenLease WITH Holders <- Bots, Leases <- Tokens, lease <- Granted, granted <- issued
TokensAreLeases == Lease!Spec
=============================================================================
