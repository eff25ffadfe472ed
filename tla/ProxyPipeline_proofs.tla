------------------------ MODULE ProxyPipeline_proofs ------------------------
(***************************************************************************)
(* For any bots, keys, tokens and requests: a token that is not accepted   *)
(* is never accepted again, in every environment; and requests that come   *)
(* one at a time, of which none fails by itself, never hand the real key   *)
(* to a container, whatever crashes left behind.                           *)
(* The calls of containers leave the tokens to ProxyToken, so that this    *)
(* holds of the composition; and for any keys, vendors, bots and calls, a  *)
(* provider's key goes out for a token that is accepted, where the address *)
(* or the routing says, in its turn, the call is logged, and a limit that  *)
(* a bot has reached is told, also when the process dies with its calls.   *)
(***************************************************************************)
EXTENDS ProxyPipeline, FiniteSetTheorems, TLAPS

Starting == {"removeold", "getkey", "hash", "direct", "container"}
Registering == {"checkbot", "checkkey", "read", "drop", "insert"}

\* What a request is at depends on what it is, and it has what it needs there.
Sound(q) ==
  /\ q.op = "none" <=> q.pc = "idle"
  /\ q.pc # "idle" => q.bot \in Bots
  /\ q.pc \in Starting => q.op \in {"create", "start"}
  /\ q.pc \in Registering => q.op \in {"create", "start", "register"}
  /\ q.pc = "hash" => q.cred \in Tokens
  /\ q.pc = "revoke" => q.row \in Tokens

TInv ==
  /\ TypeOK /\ issued \subseteq world.tokens
  /\ \A r \in Reqs : Sound(req[r])

-----------------------------------------------------------------------------
(* Types                                                                   *)

\* The frame of every step of a request.
LEMMA SetTypes ==
  ASSUME TInv, NEW r \in Reqs, NEW q \in Request, Sound(q), req' = [req EXCEPT ![r] = q]
  PROVE  req' \in [Reqs -> Request] /\ (\A s \in Reqs : Sound(req[s]))'
BY DEF TInv, TypeOK

LEMMA IdleSound == Idle \in Request /\ Sound(Idle)
BY DEF Idle, Request, PCs, Ops, Sound, Starting, Registering

LEMMA GotoTypes ==
  ASSUME TInv, NEW r \in Reqs, NEW pc \in PCs \ {"idle", "revoke"}, Goto(r, pc), req[r].pc # "idle",
         pc \in Starting => req[r].op \in {"create", "start"},
         pc \in Registering => req[r].op \in {"create", "start", "register"},
         pc = "hash" => req[r].cred \in Tokens
  PROVE  req' \in [Reqs -> Request] /\ (\A s \in Reqs : Sound(req[s]))'
<1> DEFINE q == [req[r] EXCEPT !.pc = pc]
<1>1. req[r] \in Request /\ Sound(req[r])
  BY DEF TInv, TypeOK
<1>2. q \in Request
  BY <1>1 DEF Request
<1>3. q.pc = pc /\ q.op = req[r].op /\ q.bot = req[r].bot /\ q.cred = req[r].cred
  BY <1>1 DEF Request
<1>4. Sound(q)
  BY <1>1, <1>3 DEF Sound
<1>5. req' = [req EXCEPT ![r] = q]
  BY DEF Goto
<1> QED
  BY <1>2, <1>4, <1>5, SetTypes

LEMMA DoneTypes ==
  ASSUME TInv, NEW r \in Reqs, Done(r)
  PROVE  req' \in [Reqs -> Request] /\ (\A s \in Reqs : Sound(req[s]))'
BY IdleSound, SetTypes DEF Done

LEMMA FailedTypes ==
  ASSUME TInv, NEW r \in Reqs, req[r].pc \in Registering, Failed(r)
  PROVE  req' \in [Reqs -> Request] /\ (\A s \in Reqs : Sound(req[s]))'
<1>1. req[r].op \in {"create", "start", "register"} /\ req[r].pc # "idle"
  BY DEF TInv, Sound, Registering
<1>2. CASE req[r].op = "register"
  BY <1>2, DoneTypes DEF Failed
<1>3. CASE req[r].op # "register"
  BY <1>1, <1>3, GotoTypes DEF Failed, PCs, Starting, Registering
<1> QED
  BY <1>2, <1>3

LEMMA ArriveTypes ==
  ASSUME TInv, NEW r \in Reqs, NEW op \in Ops \ {"none"}, NEW b \in Bots, NEW pc \in PCs \ {"idle", "hash", "revoke"},
         pc \in Starting => op \in {"create", "start"},
         pc \in Registering => op \in {"create", "start", "register"},
         Arrive(r, op, b, pc)
  PROVE  req' \in [Reqs -> Request] /\ (\A s \in Reqs : Sound(req[s]))'
<1> DEFINE q == [Idle EXCEPT !.op = op, !.pc = pc, !.bot = b]
<1>1. q \in Request /\ Sound(q)
  BY DEF Idle, Request, Sound
<1> QED
  BY <1>1, SetTypes DEF Arrive

\* Requests arrive.
LEMMA ArrivalTypes ==
  ASSUME TInv, UNCHANGED world, NEW r \in Reqs, NEW b \in Bots,
         CreateBot(r, b) \/ StartBot(r, b) \/ DeleteBot(r, b) \/ AdminRegister(r, b) \/ RevokeBot(r, b)
  PROVE  TInv'
<1> USE DEF TInv, TypeOK
<1>1. CASE CreateBot(r, b)
  <2>1. req' \in [Reqs -> Request] /\ (\A s \in Reqs : Sound(req[s]))'
    BY <1>1, ArriveTypes DEF CreateBot, Ops, PCs, Starting, Registering
  <2> QED
    BY <1>1, <2>1 DEF CreateBot
<1>2. CASE StartBot(r, b)
  <2>1. req' \in [Reqs -> Request] /\ (\A s \in Reqs : Sound(req[s]))'
    BY <1>2, ArriveTypes DEF StartBot, Ops, PCs, Starting, Registering
  <2> QED
    BY <1>2, <2>1 DEF StartBot
<1>3. CASE DeleteBot(r, b)
  <2>1. req' \in [Reqs -> Request] /\ (\A s \in Reqs : Sound(req[s]))'
    BY <1>3, ArriveTypes DEF DeleteBot, Ops, PCs, Starting, Registering
  <2> QED
    BY <1>3, <2>1 DEF DeleteBot
<1>4. CASE AdminRegister(r, b)
  <2>1. req' \in [Reqs -> Request] /\ (\A s \in Reqs : Sound(req[s]))'
    BY <1>4, ArriveTypes DEF AdminRegister, Ops, PCs, Starting, Registering
  <2> QED
    BY <1>4, <2>1 DEF AdminRegister
<1>5. CASE RevokeBot(r, b)
  <2> DEFINE q == [op |-> "revoke", pc |-> "revoke", bot |-> b, row |-> tok[b].id, cred |-> None]
  <2>1. tok[b].id \in Tokens
    BY <1>5 DEF RevokeBot, TokenRow, NoToken
  <2>2. q \in Request /\ Sound(q)
    BY <2>1 DEF Request, PCs, Ops, Sound, Starting, Registering
  <2>3. req' \in [Reqs -> Request] /\ (\A s \in Reqs : Sound(req[s]))'
    BY <1>5, <2>2, SetTypes DEF RevokeBot
  <2> QED
    BY <1>5, <2>3 DEF RevokeBot
<1> QED
  BY <1>1, <1>2, <1>3, <1>4, <1>5
\* A request goes on.
LEMMA StepTypes ==
  ASSUME TInv, UNCHANGED world, NEW r \in Reqs,
         \/ RemoveOld(r) \/ GetKey(r) \/ CheckBot(r) \/ CheckKey(r) \/ ReadExisting(r)
         \/ DropExisting(r) \/ InsertToken(r) \/ StoreHash(r) \/ FallBack(r) \/ CreateContainer(r)
         \/ DeleteContainer(r) \/ DeleteTokenRead(r) \/ DeleteToken(r) \/ EraseBot(r)
         \/ RevokeWrite(r)
  PROVE  TInv'
<1> USE DEF TInv, TypeOK
<1>0. req[r] \in Request /\ Sound(req[r])
  OBVIOUS
<1>1. CASE RemoveOld(r)
  <2>1. req' \in [Reqs -> Request] /\ (\A s \in Reqs : Sound(req[s]))'
    BY <1>0, <1>1, GotoTypes DEF RemoveOld, At, PCs, Sound, Starting, Registering
  <2> QED
    BY <1>1, <2>1 DEF RemoveOld, Missed
<1>2. CASE GetKey(r)
  <2>1. req' \in [Reqs -> Request] /\ (\A s \in Reqs : Sound(req[s]))'
    BY <1>0, <1>2, GotoTypes DEF GetKey, At, PCs, Sound, Starting, Registering
  <2> QED
    BY <1>2, <2>1 DEF GetKey
<1>3. CASE CheckBot(r)
  <2>1. req' \in [Reqs -> Request] /\ (\A s \in Reqs : Sound(req[s]))'
    BY <1>0, <1>3, GotoTypes, FailedTypes DEF CheckBot, At, PCs, Sound, Starting, Registering
  <2> QED
    BY <1>3, <2>1 DEF CheckBot
<1>4. CASE CheckKey(r)
  <2>1. req' \in [Reqs -> Request] /\ (\A s \in Reqs : Sound(req[s]))'
    BY <1>0, <1>4, GotoTypes, FailedTypes DEF CheckKey, At, PCs, Sound, Starting, Registering
  <2> QED
    BY <1>4, <2>1 DEF CheckKey
<1>5. CASE ReadExisting(r)
  <2>1. CASE tok[req[r].bot] = NoToken /\ Goto(r, "insert")
    BY <1>0, <1>5, <2>1, GotoTypes DEF ReadExisting, At, PCs, Sound, Starting, Registering
  <2>2. CASE /\ tok[req[r].bot] # NoToken
             /\ req' = [req EXCEPT ![r].row = tok[req[r].bot].id, ![r].pc = "drop"]
    <3> DEFINE q == [req[r] EXCEPT !.row = tok[req[r].bot].id, !.pc = "drop"]
    <3>1. req[r].bot \in Bots
      BY <1>0, <1>5 DEF ReadExisting, At, Sound
    <3>2. tok[req[r].bot].id \in Tokens
      BY <2>2, <3>1 DEF TokenRow
    <3>3. q \in Request
      BY <1>0, <3>2 DEF Request, PCs
    <3>4. q.pc = "drop" /\ q.op = req[r].op /\ q.bot = req[r].bot
      BY <1>0 DEF Request
    <3>5. req[r].op \in {"create", "start", "register"}
      BY <1>0, <1>5 DEF ReadExisting, At, Sound, Registering
    <3>6. Sound(q)
      BY <3>1, <3>4, <3>5 DEF Sound, Starting
    <3>7. req' = [req EXCEPT ![r] = q]
      BY <2>2
    <3> QED
      BY <1>5, <3>3, <3>6, <3>7, SetTypes DEF ReadExisting
  <2>3. CASE Failed(r)
    BY <1>5, <2>3, FailedTypes DEF ReadExisting, At, Registering
  <2> QED
    BY <1>5, <2>1, <2>2, <2>3 DEF ReadExisting
<1>6. CASE DropExisting(r)
  <2>1. req' \in [Reqs -> Request] /\ (\A s \in Reqs : Sound(req[s]))'
    BY <1>0, <1>6, GotoTypes, FailedTypes DEF DropExisting, At, PCs, Sound, Starting, Registering
  <2>2. tok' \in [Bots -> TokenRow]
    BY <1>6 DEF DropExisting, TokenRow
  <2> QED
    BY <1>6, <2>1, <2>2 DEF DropExisting
<1>7. CASE InsertToken(r)
  <2> DEFINE t == CHOOSE x \in world.tokens \ issued : TRUE
  <2>1. t \in world.tokens \ issued
    BY <1>7 DEF InsertToken
  <2>2. t \in Tokens
    BY <2>1, ProxyTokenAssumption
  <2> HIDE DEF t
  <2>3. issued' = issued \cup {t} /\ issued' \subseteq world.tokens /\ issued' \in SUBSET Tokens
    BY <1>7, <2>1, <2>2 DEF InsertToken, t
  <2>4. tok' = [tok EXCEPT ![req[r].bot] = [id |-> t, state |-> "valid"]] \/ tok' = tok
    BY <1>7 DEF InsertToken, t
  <2>5. tok' \in [Bots -> TokenRow]
    BY <2>2, <2>4 DEF TokenRow
  <2>6. \/ Done(r) \/ Failed(r)
        \/ /\ req[r].op # "register"
           /\ req' = [req EXCEPT ![r].cred = t, ![r].pc = "hash"]
    BY <1>7 DEF InsertToken, t
  <2>7. ASSUME req[r].op # "register", req' = [req EXCEPT ![r].cred = t, ![r].pc = "hash"]
        PROVE  req' \in [Reqs -> Request] /\ (\A s \in Reqs : Sound(req[s]))'
    <3> DEFINE q == [req[r] EXCEPT !.cred = t, !.pc = "hash"]
    <3>1. q \in Request
      BY <1>0, <2>2 DEF Request, PCs
    <3>2. q.pc = "hash" /\ q.op = req[r].op /\ q.bot = req[r].bot /\ q.cred = t
      BY <1>0 DEF Request
    <3>3. Sound(q)
      BY <1>0, <1>7, <2>2, <2>7, <3>2 DEF InsertToken, At, Sound, Starting, Registering
    <3>4. req' = [req EXCEPT ![r] = q]
      BY <2>7
    <3> QED
      BY <3>1, <3>3, <3>4, SetTypes
  <2>8. req' \in [Reqs -> Request] /\ (\A s \in Reqs : Sound(req[s]))'
    BY <1>7, <2>6, <2>7, DoneTypes, FailedTypes DEF InsertToken, At, Registering
  <2> QED
    BY <1>7, <2>3, <2>5, <2>8 DEF InsertToken
<1>8. CASE StoreHash(r)
  <2>1. req' \in [Reqs -> Request] /\ (\A s \in Reqs : Sound(req[s]))'
    BY <1>0, <1>8, GotoTypes DEF StoreHash, At, PCs, Sound, Starting, Registering
  <2>2. req[r].cred \in Tokens
    BY <1>0, <1>8 DEF StoreHash, At, Sound
  <2> QED
    BY <1>8, <2>1, <2>2 DEF StoreHash
<1>9. CASE FallBack(r)
  <2>1. CASE Goto(r, "container") /\ UNCHANGED secrets
    BY <1>0, <1>9, <2>1, GotoTypes DEF FallBack, At, PCs, Sound, Starting, Registering
  <2>2. CASE /\ secrets' \in {secrets, secrets \cup {req[r].bot}}
             /\ req' = [req EXCEPT ![r].pc = "container",
                                   ![r].cred = IF @ = None THEN RealKey ELSE @]
    <3> DEFINE q == [req[r] EXCEPT !.pc = "container", !.cred = IF @ = None THEN RealKey ELSE @]
    <3>1. q \in Request
      BY <1>0 DEF Request, PCs
    <3>2. q.pc = "container" /\ q.op = req[r].op /\ q.bot = req[r].bot
      BY <1>0 DEF Request
    <3>3. req[r].bot \in Bots /\ Sound(q)
      BY <1>0, <1>9, <3>2 DEF FallBack, At, Sound, Starting, Registering
    <3>4. req' = [req EXCEPT ![r] = q]
      BY <2>2
    <3> QED
      BY <1>9, <2>2, <3>1, <3>3, <3>4, SetTypes DEF FallBack
  <2> QED
    BY <1>9, <2>1, <2>2 DEF FallBack
<1>10. CASE CreateContainer(r)
  BY <1>0, <1>10, DoneTypes DEF CreateContainer, Request
<1>11. CASE DeleteContainer(r)
  <2>1. req' \in [Reqs -> Request] /\ (\A s \in Reqs : Sound(req[s]))'
    BY <1>0, <1>11, GotoTypes DEF DeleteContainer, At, PCs, Sound, Starting, Registering
  <2> QED
    BY <1>11, <2>1 DEF DeleteContainer, Missed
<1>12. CASE DeleteTokenRead(r)
  <2>1. CASE Goto(r, "erase")
    <3>1. req' \in [Reqs -> Request] /\ (\A s \in Reqs : Sound(req[s]))'
      BY <1>0, <1>12, <2>1, GotoTypes DEF DeleteTokenRead, At, PCs, Sound, Starting, Registering
    <3> QED
      BY <1>12, <3>1 DEF DeleteTokenRead
  <2>2. CASE req' = [req EXCEPT ![r].row = tok[req[r].bot].id,
                                ![r].pc = IF tok[req[r].bot] = NoToken THEN "erase" ELSE "rmtoken"]
    <3> DEFINE q == [req[r] EXCEPT !.row = tok[req[r].bot].id,
                                   !.pc = IF tok[req[r].bot] = NoToken THEN "erase" ELSE "rmtoken"]
    <3>1. req[r].bot \in Bots
      BY <1>0, <1>12 DEF DeleteTokenRead, At, Sound
    <3>2. tok[req[r].bot].id \in Tokens \cup {None}
      BY <3>1 DEF TokenRow, NoToken
    <3>3. q \in Request
      BY <1>0, <3>2 DEF Request, PCs
    <3>4. q.pc \in {"erase", "rmtoken"} /\ q.op = req[r].op /\ q.bot = req[r].bot
      BY <1>0 DEF Request
    <3>5. Sound(q)
      BY <1>0, <1>12, <3>1, <3>4 DEF DeleteTokenRead, At, Sound, Starting, Registering
    <3>6. req' = [req EXCEPT ![r] = q]
      BY <2>2
    <3> QED
      BY <1>12, <3>3, <3>5, <3>6, SetTypes DEF DeleteTokenRead
  <2> QED
    BY <1>12, <2>1, <2>2 DEF DeleteTokenRead
<1>13. CASE DeleteToken(r)
  <2>1. req' \in [Reqs -> Request] /\ (\A s \in Reqs : Sound(req[s]))'
    BY <1>0, <1>13, GotoTypes DEF DeleteToken, At, PCs, Sound, Starting, Registering
  <2> QED
    BY <1>13, <2>1 DEF DeleteToken, TokenRow
<1>14. CASE EraseBot(r)
  BY <1>0, <1>14, DoneTypes DEF EraseBot
<1>15. CASE RevokeWrite(r)
  <2>1. req[r].row \in Tokens /\ req[r].bot \in Bots
    BY <1>0, <1>15 DEF RevokeWrite, At, Sound
  <2>2. tok' \in [Bots -> TokenRow]
    BY <1>15, <2>1, ProxyTokenAssumption DEF RevokeWrite, TokenRow, NoToken
  <2> QED
    BY <1>15, <2>2, DoneTypes DEF RevokeWrite
<1> QED
  BY <1>1, <1>2, <1>3, <1>4, <1>5, <1>6, <1>7, <1>8, <1>9, <1>10, <1>11, <1>12, <1>13, <1>14, <1>15

LEMMA TypesKept ==
  ASSUME TInv, [Next /\ UNCHANGED world]_<<vars, world>>
  PROVE  TInv'
<1>1. ASSUME NEW k \in Keys, DeleteProviderKey(k), UNCHANGED world
      PROVE  TInv'
  BY <1>1 DEF DeleteProviderKey, TInv, TypeOK
<1>2. ASSUME NEW b \in Bots, Expire(b), UNCHANGED world
      PROVE  TInv'
  BY <1>2 DEF Expire, TInv, TypeOK, TokenRow, NoToken
<1>3. ASSUME Crash, UNCHANGED world
      PROVE  TInv'
  BY <1>3, IdleSound DEF Crash, TInv, TypeOK
<1>4. CASE UNCHANGED <<vars, world>>
  BY <1>4 DEF vars, TInv, TypeOK
<1> QED
  BY <1>1, <1>2, <1>3, <1>4, ArrivalTypes, StepTypes DEF Next, Step

LEMMA TypesAtFirst == ASSUME Init PROVE TInv
BY ProxyTokenAssumption, IdleSound DEF Init, TInv, TypeOK, TokenRow, NoToken

LEMMA Types == Spec => []TInv
BY TypesAtFirst, TypesKept, PTL DEF Spec
-----------------------------------------------------------------------------
(* Dead tokens                                                             *)

\* A step that inserts no row leaves valid only rows that were, and no step
\* brings a provider key back.
LEMMA OnlyInserts ==
  ASSUME TInv, TInv', [Next /\ UNCHANGED world]_<<vars, world>>
  PROVE  \/ \E r \in Reqs : InsertToken(r)
         \/ /\ keys' \subseteq keys /\ issued' = issued
            /\ \A b \in Bots : tok'[b].state = "valid" => tok'[b] = tok[b]
<1> DEFINE Dying == /\ keys' \subseteq keys /\ issued' = issued
                    /\ \A b \in Bots : tok'[b].state = "valid" => tok'[b] = tok[b]
<1>1. CASE UNCHANGED <<keys, tok, issued>>
  BY <1>1
<1>2. \A b \in Bots : tok[b] = NoToken \/ tok[b] \in [id : Tokens, state : {"valid", "revoked", "expired"}]
  BY DEF TInv, TypeOK, TokenRow
<1>3. DOMAIN tok = Bots
  BY DEF TInv, TypeOK
<1>4. ASSUME NEW b, tok' = [tok EXCEPT ![b] = NoToken], UNCHANGED <<keys, issued>>
      PROVE  Dying
  BY <1>3, <1>4 DEF NoToken
<1>5. ASSUME NEW b, NEW st \in {"revoked", "expired"}, tok' = [tok EXCEPT ![b].state = st], UNCHANGED <<keys, issued>>
      PROVE  Dying
  <2>1. \A c \in Bots : tok'[c] = tok[c] \/ tok'[c].state = st
    BY <1>2, <1>3, <1>5 DEF NoToken
  <2> QED
    BY <1>5, <2>1
<1>6. ASSUME NEW r \in Reqs, DropExisting(r) \/ DeleteToken(r)
      PROVE  Dying
  <2>1. UNCHANGED <<keys, issued>> /\ (tok' = tok \/ tok' = [tok EXCEPT ![req[r].bot] = NoToken])
    BY <1>6 DEF DropExisting, DeleteToken
  <2> QED
    BY <1>1, <1>4, <2>1
<1>7. ASSUME NEW r \in Reqs, RevokeWrite(r)
      PROVE  Dying
  <2>1. UNCHANGED <<keys, issued>> /\ (tok' = tok \/ tok' = [tok EXCEPT ![req[r].bot].state = "revoked"])
    BY <1>7 DEF RevokeWrite
  <2> QED
    BY <1>1, <1>5, <2>1
<1>8. ASSUME NEW b \in Bots, Expire(b)
      PROVE  Dying
  BY <1>5, <1>8 DEF Expire
<1>9. ASSUME NEW k \in Keys, DeleteProviderKey(k)
      PROVE  Dying
  BY <1>9 DEF DeleteProviderKey
<1>10. ASSUME NEW r \in Reqs, NEW b \in Bots,
              CreateBot(r, b) \/ StartBot(r, b) \/ DeleteBot(r, b) \/ AdminRegister(r, b) \/ RevokeBot(r, b)
       PROVE  UNCHANGED <<keys, tok, issued>>
  BY <1>10 DEF CreateBot, StartBot, DeleteBot, AdminRegister, RevokeBot
<1>11. ASSUME NEW r \in Reqs,
              \/ RemoveOld(r) \/ GetKey(r) \/ CheckBot(r) \/ CheckKey(r) \/ ReadExisting(r)
              \/ StoreHash(r) \/ FallBack(r) \/ CreateContainer(r)
              \/ DeleteContainer(r) \/ DeleteTokenRead(r) \/ EraseBot(r)
       PROVE  UNCHANGED <<keys, tok, issued>>
  BY <1>11 DEF RemoveOld, GetKey, CheckBot, CheckKey, ReadExisting, StoreHash, FallBack, CreateContainer,
               DeleteContainer, DeleteTokenRead, EraseBot
<1>12. Crash => UNCHANGED <<keys, tok, issued>>
  BY DEF Crash
<1>13. UNCHANGED <<vars, world>> => UNCHANGED <<keys, tok, issued>>
  BY DEF vars
<1> QED
  BY <1>1, <1>6, <1>7, <1>8, <1>9, <1>10, <1>11, <1>12, <1>13 DEF Next, Step

\* What an insert does to the table, if it gets through.
LEMMA Inserted ==
  ASSUME TInv, NEW r \in Reqs, InsertToken(r)
  PROVE  \E t \in world.tokens \ issued :
           /\ keys' = keys /\ issued' = issued \cup {t}
           /\ \/ tok' = tok
              \/ tok[req[r].bot] = NoToken /\ tok' = [tok EXCEPT ![req[r].bot] = [id |-> t, state |-> "valid"]]
<1> DEFINE t == CHOOSE x \in world.tokens \ issued : TRUE
<1>1. world.tokens # issued /\ issued' = issued \cup {t} /\ keys' = keys
  BY DEF InsertToken
<1>2. t \in world.tokens \ issued
  BY <1>1 DEF TInv
<1>3. \/ tok' = tok
      \/ tok[req[r].bot] = NoToken /\ tok' = [tok EXCEPT ![req[r].bot] = [id |-> t, state |-> "valid"]]
  BY DEF InsertToken
<1> QED
  BY <1>1, <1>2, <1>3

\* Whatever a step does to the table, a row it leaves valid was valid before
\* or has a token never seen.
LEMMA RowsOnlyDie ==
  ASSUME TInv, TInv', [Next /\ UNCHANGED world]_<<vars, world>>
  PROVE  /\ keys' \subseteq keys
         /\ \A b \in Bots : tok'[b].state = "valid" => tok'[b] = tok[b] \/ tok'[b].id \notin issued
<1>1. CASE \E r \in Reqs : InsertToken(r)
  <2>1. PICK r \in Reqs : InsertToken(r)
    BY <1>1
  <2>2. PICK t \in world.tokens \ issued :
          /\ keys' = keys
          /\ tok' = tok \/ tok' = [tok EXCEPT ![req[r].bot] = [id |-> t, state |-> "valid"]]
    BY <2>1, Inserted
  <2>3. DOMAIN tok = Bots
    BY DEF TInv, TypeOK
  <2>4. \A b \in Bots : tok'[b] = tok[b] \/ tok'[b].id = t
    BY <2>2, <2>3
  <2> QED
    BY <2>2, <2>4
<1> QED
  BY <1>1, OnlyInserts

\* A token that was issued and is not accepted is never accepted again, in any
\* environment: requests overlap, queries fail and the process crashes.
THEOREM StaysDead == Spec => DeadTokenStaysDead
<1>1. ASSUME TInv, TInv', [Next /\ UNCHANGED world]_<<vars, world>>
      PROVE  [\A t \in issued : ~Accepts(t) => ~Accepts(t)']_vars
  <2> SUFFICES ASSUME NEW t \in issued, Accepts(t)'
               PROVE  Accepts(t)
    OBVIOUS
  <2>1. PICK b \in Bots : tok'[b] = [id |-> t, state |-> "valid"] /\ KeyFor[b] \in keys'
    BY DEF Accepts, KeyLive
  <2>2. tok'[b] = tok[b] /\ KeyFor[b] \in keys
    BY <1>1, <2>1, RowsOnlyDie
  <2> QED
    BY <2>1, <2>2 DEF Accepts, KeyLive
<1> QED
  BY <1>1, Types, PTL DEF Spec, DeadTokenStaysDead

-----------------------------------------------------------------------------
(* Leases                                                                  *)

\* Leases that only end, end together.
LEMMA LeasesEnd ==
  ASSUME UNCHANGED issued, \A b \in Bots : Granted'[b] \in {Granted[b], None}
  PROVE  Lease!Next
<1> DEFINE H == {b \in Bots : Granted[b] # None /\ Granted'[b] = None}
<1>1. H \in SUBSET Bots /\ \A b \in H : Granted[b] # None
  OBVIOUS
<1>2. Granted' = [b \in Bots |-> Granted'[b]]
  BY DEF Granted
<1>3. \A b \in Bots : Granted'[b] = IF b \in H THEN None ELSE Granted[b]
  OBVIOUS
<1>4. Granted' = [b \in Bots |-> IF b \in H THEN None ELSE Granted[b]]
  <2> HIDE DEF H
  <2> QED
    BY <1>2, <1>3
<1>5. Lease!End(H)
  BY <1>1, <1>4 DEF Lease!End
<1> QED
  BY <1>1, <1>5 DEF Lease!Next

\* An insert grants the lease of a bot that has none, unless its provider key
\* is gone or the insert fails: then nobody gets it.
LEMMA LeaseGranted ==
  ASSUME TInv, NEW r \in Reqs, InsertToken(r)
  PROVE  Lease!Next
<1>1. PICK t \in world.tokens \ issued :
        /\ keys' = keys /\ issued' = issued \cup {t}
        /\ \/ tok' = tok
           \/ tok[req[r].bot] = NoToken /\ tok' = [tok EXCEPT ![req[r].bot] = [id |-> t, state |-> "valid"]]
  BY Inserted
<1>2. req[r].bot \in Bots /\ DOMAIN tok = Bots /\ t \in Tokens \ issued
  BY ProxyTokenAssumption DEF InsertToken, At, TInv, TypeOK, Sound
<1> DEFINE b == req[r].bot
<1>3. CASE Granted' = Granted
  <2>1. Lease!Void(t)
    BY <1>1, <1>2, <1>3 DEF Lease!Void
  <2> QED
    BY <1>2, <2>1 DEF Lease!Next
<1>4. CASE tok' = tok
  <2>1. Granted' = Granted
    BY <1>1, <1>4 DEF Granted, KeyLive
  <2> QED
    BY <1>3, <2>1
<1>5. CASE tok[b] = NoToken /\ tok' = [tok EXCEPT ![b] = [id |-> t, state |-> "valid"]]
  <2>1. \A c \in Bots \ {b} : Granted'[c] = Granted[c]
    BY <1>1, <1>2, <1>5 DEF Granted, KeyLive
  <2>2. Granted[b] = None /\ Granted'[b] = IF KeyLive(b) THEN t ELSE None
    BY <1>1, <1>2, <1>5 DEF Granted, KeyLive, NoToken
  <2>3. Granted = [c \in Bots |-> Granted[c]] /\ Granted' = [c \in Bots |-> Granted'[c]]
    BY DEF Granted
  <2>4. CASE KeyLive(b)
    <3>1. Granted' = [Granted EXCEPT ![b] = t]
      BY <2>1, <2>2, <2>3, <2>4
    <3>2. Lease!Grant(b, t)
      BY <1>1, <1>2, <2>2, <3>1 DEF Lease!Grant
    <3> QED
      BY <1>2, <3>2 DEF Lease!Next
  <2>5. CASE ~KeyLive(b)
    <3>1. Granted' = Granted
      BY <2>1, <2>2, <2>3, <2>5
    <3> QED
      BY <1>3, <3>1
  <2> QED
    BY <2>4, <2>5
<1> QED
  BY <1>1, <1>4, <1>5

\* ProxyToken implements TokenLease, in any environment: however the steps of
\* overlapping requests run, a token is granted once, to a bot that has none.
THEOREM TokensLeased == Spec => TokensAreLeases
<1>1. Init => Lease!Init
  BY DEF Init, Lease!Init, Granted, NoToken
<1>2. ASSUME TInv, TInv', [Next /\ UNCHANGED world]_<<vars, world>>
      PROVE  [Lease!Next]_<<Granted, issued>>
  <2>1. CASE /\ keys' \subseteq keys /\ issued' = issued
             /\ \A b \in Bots : tok'[b].state = "valid" => tok'[b] = tok[b]
    <3>1. \A b \in Bots : Granted'[b] \in {Granted[b], None}
      BY <2>1 DEF Granted, KeyLive
    <3> QED
      BY <2>1, <3>1, LeasesEnd
  <2> QED
    BY <1>2, <2>1, OnlyInserts, LeaseGranted
<1> QED
  BY <1>1, <1>2, Types, PTL DEF Spec, TokensAreLeases, Lease!Spec

-----------------------------------------------------------------------------
(* Zero trust                                                              *)

\* A create or start under way has what its registration needs, so that none
\* of its queries is refused, and so none falls back to direct mode.
Provided(r) ==
  LET q == req[r]
  IN  /\ q.pc # "direct" /\ q.cred # RealKey
      /\ q.op \in {"create", "start"} =>
           /\ q.pc \in {"removeold", "getkey"} \cup Registering => LiveBot(q.bot)
           /\ q.pc \in Registering => KeyLive(q.bot)
           /\ q.pc = "drop" => tok[q.bot].id = q.row
           /\ q.pc = "insert" => tok[q.bot] = NoToken

Zero ==
  /\ \A r, s \in Reqs : req[r].op # "none" /\ req[s].op # "none" => r = s
  /\ \A r \in Reqs : Provided(r)
  /\ secrets = {} /\ \A b \in Bots : env[b] # RealKey

\* A request begins while there is no other.
LEMMA ArrivalZero ==
  ASSUME TInv, TInv', Zero, Serial, NEW r \in Reqs, NEW b \in Bots,
         CreateBot(r, b) \/ StartBot(r, b) \/ DeleteBot(r, b) \/ AdminRegister(r, b) \/ RevokeBot(r, b)
  PROVE  Zero'
<1> USE DEF TInv, TypeOK
<1>1. \A s \in Reqs : req[s].op = "none" /\ req[s].pc = "idle"
  BY DEF CreateBot, StartBot, DeleteBot, AdminRegister, RevokeBot, Arrive, MayMutate, Sound
<1>2. \A s \in Reqs \ {r} : req'[s] = req[s]
  BY DEF CreateBot, StartBot, DeleteBot, AdminRegister, RevokeBot, Arrive
<1>3. \A s \in Reqs \ {r} : Provided(s)'
  BY <1>1, <1>2 DEF Zero, Provided
<1>4. secrets' = {} /\ \A c \in Bots : env'[c] # RealKey
  BY DEF Zero, CreateBot, StartBot, DeleteBot, AdminRegister, RevokeBot
<1>5. Provided(r)'
  <2>1. CASE CreateBot(r, b)
    <3>1. /\ req'[r].op = "create" /\ req'[r].bot = b /\ req'[r].cred = None
          /\ req'[r].pc = IF KeyLive(b) THEN "checkbot" ELSE "container"
          /\ bot'[b] = "live" /\ keys' = keys
      BY <2>1 DEF CreateBot, Arrive, Idle
    <3> QED
      BY <3>1, ProxyTokenAssumption DEF Provided, LiveBot, KeyLive, Registering
  <2>2. CASE StartBot(r, b)
    <3>1. /\ req'[r].op = "start" /\ req'[r].bot = b /\ req'[r].cred = None
          /\ req'[r].pc = "removeold" /\ LiveBot(b) /\ bot' = bot
      BY <2>2 DEF StartBot, Arrive, Idle
    <3> QED
      BY <3>1, ProxyTokenAssumption DEF Provided, LiveBot, Registering
  <2>3. CASE DeleteBot(r, b) \/ AdminRegister(r, b) \/ RevokeBot(r, b)
    <3>1. /\ req'[r].op \in {"delete", "register", "revoke"} /\ req'[r].cred = None
          /\ req'[r].pc # "direct"
      <4>1. CASE DeleteBot(r, b)
        BY <4>1 DEF DeleteBot, Arrive, Idle
      <4>2. CASE AdminRegister(r, b)
        BY <4>2 DEF AdminRegister, Arrive, Idle
      <4>3. CASE RevokeBot(r, b)
        BY <4>3 DEF RevokeBot
      <4> QED
        BY <2>3, <4>1, <4>2, <4>3
    <3> QED
      BY <3>1, ProxyTokenAssumption DEF Provided
  <2> QED
    BY <2>1, <2>2, <2>3
<1> QED
  BY <1>1, <1>2, <1>3, <1>4, <1>5 DEF Zero

\* A request that goes on or ends leaves the others alone.
LEMMA Untouched ==
  ASSUME TInv, NEW r \in Reqs, Done(r) \/ Failed(r) \/ \E pc : Goto(r, pc)
  PROVE  \A s \in Reqs \ {r} : req'[s] = req[s]
<1>1. req \in [Reqs -> Request]
  BY DEF TInv, TypeOK
<1> QED
  BY <1>1 DEF Done, Failed, Goto

\* The one request goes on.
LEMMA StepZero ==
  ASSUME TInv, TInv', Zero, Serial, ~Faults, NEW r \in Reqs,
         \/ RemoveOld(r) \/ GetKey(r) \/ CheckBot(r) \/ CheckKey(r) \/ ReadExisting(r)
         \/ DropExisting(r) \/ InsertToken(r) \/ StoreHash(r) \/ FallBack(r) \/ CreateContainer(r)
         \/ DeleteContainer(r) \/ DeleteTokenRead(r) \/ DeleteToken(r) \/ EraseBot(r)
         \/ RevokeWrite(r)
  PROVE  Zero'
<1> USE DEF TInv, TypeOK
<1>0. req[r] \in Request /\ Sound(req[r]) /\ Provided(r)
  BY DEF Zero
<1>1. req[r].pc # "idle"
  BY DEF RemoveOld, GetKey, CheckBot, CheckKey, ReadExisting, DropExisting, InsertToken, StoreHash, FallBack,
         CreateContainer, DeleteContainer, DeleteTokenRead, DeleteToken, EraseBot, RevokeWrite, At
<1>2. \A s \in Reqs \ {r} : req[s].op = "none" /\ req[s].pc = "idle"
  BY <1>0, <1>1 DEF Zero, Sound
<1>3. ASSUME NEW s \in Reqs \ {r}
      PROVE  req'[s] = req[s]
  <2> HIDE DEF TInv, TypeOK
  <2>1. CASE \/ RemoveOld(r) \/ GetKey(r) \/ CheckBot(r) \/ CheckKey(r) \/ DropExisting(r) \/ StoreHash(r)
             \/ CreateContainer(r) \/ DeleteContainer(r) \/ DeleteToken(r) \/ EraseBot(r) \/ RevokeWrite(r)
    BY <2>1, Untouched DEF RemoveOld, GetKey, CheckBot, CheckKey, DropExisting, StoreHash, CreateContainer,
                           DeleteContainer, DeleteToken, EraseBot, RevokeWrite
  <2>2. CASE ReadExisting(r) \/ InsertToken(r) \/ FallBack(r) \/ DeleteTokenRead(r)
    <3>1. DOMAIN req = Reqs
      BY DEF TInv, TypeOK
    <3> QED
      BY <2>2, <3>1, Untouched DEF ReadExisting, InsertToken, FallBack, DeleteTokenRead
  <2> QED
    BY <2>1, <2>2
<1>4. \A s \in Reqs \ {r} : Provided(s)'
  BY <1>2, <1>3 DEF Zero, Provided
<1>5. SUFFICES Provided(r)' /\ secrets' = {} /\ \A b \in Bots : env'[b] # RealKey
  BY <1>2, <1>3, <1>4 DEF Zero
<1>6. ASSUME Done(r)
      PROVE  Provided(r)'
  BY <1>6, ProxyTokenAssumption DEF Done, Idle, Provided
<1>7. ASSUME NEW pc, Goto(r, pc)
      PROVE  /\ req'[r].pc = pc /\ req'[r].op = req[r].op /\ req'[r].bot = req[r].bot
             /\ req'[r].cred = req[r].cred /\ req'[r].row = req[r].row
  BY <1>0, <1>7 DEF Goto, Request
<1>8. CASE RemoveOld(r)
  <2>1. Goto(r, "getkey") /\ req[r].pc = "removeold" /\ secrets' = secrets /\ bot' = bot
    BY <1>8 DEF RemoveOld, At
  <2>2. env' \in {env, [env EXCEPT ![req[r].bot] = None]}
    BY <1>8 DEF RemoveOld, Missed
  <2>3. \A b \in Bots : env'[b] # RealKey
    BY <2>2, ProxyTokenAssumption DEF Zero
  <2>4. Provided(r)'
    BY <1>0, <1>7, <2>1 DEF Provided, Registering, LiveBot
  <2> QED
    BY <2>1, <2>3, <2>4 DEF Zero
<1>9. CASE GetKey(r)
  BY <1>0, <1>7, <1>9 DEF GetKey, At, Zero, Provided, Registering, LiveBot, KeyLive
<1>10. CASE CheckBot(r)
  <2>1. CASE Goto(r, "checkkey")
    BY <1>0, <1>7, <1>10, <2>1 DEF CheckBot, At, Zero, Provided, Registering, LiveBot, KeyLive
  <2>2. CASE ~LiveBot(req[r].bot) /\ Failed(r)
    BY <1>0, <1>6, <1>10, <2>2 DEF CheckBot, At, Zero, Provided, Registering, Sound, Failed
  <2> QED
    BY <1>10, <2>1, <2>2 DEF CheckBot
<1>11. CASE CheckKey(r)
  <2>1. CASE Goto(r, "read")
    BY <1>0, <1>7, <1>11, <2>1 DEF CheckKey, At, Zero, Provided, Registering, LiveBot, KeyLive
  <2>2. CASE ~KeyLive(req[r].bot) /\ Failed(r)
    BY <1>0, <1>6, <1>11, <2>2 DEF CheckKey, At, Zero, Provided, Registering, Sound, Failed
  <2> QED
    BY <1>11, <2>1, <2>2 DEF CheckKey
<1>12. CASE ReadExisting(r)
  <2>1. CASE tok[req[r].bot] = NoToken /\ Goto(r, "insert")
    BY <1>0, <1>7, <1>12, <2>1 DEF ReadExisting, At, Zero, Provided, Registering, LiveBot, KeyLive
  <2>2. CASE req' = [req EXCEPT ![r].row = tok[req[r].bot].id, ![r].pc = "drop"]
    <3>1. /\ req'[r].pc = "drop" /\ req'[r].row = tok[req[r].bot].id /\ req'[r].op = req[r].op
          /\ req'[r].bot = req[r].bot /\ req'[r].cred = req[r].cred
      BY <1>0, <2>2 DEF Request
    <3> QED
      BY <1>0, <1>12, <3>1 DEF ReadExisting, At, Zero, Provided, Registering, LiveBot, KeyLive
  <2> QED
    BY <1>12, <2>1, <2>2 DEF ReadExisting
<1>13. CASE DropExisting(r)
  <2>1. req[r].bot \in Bots
    BY <1>0, <1>13 DEF DropExisting, At, Sound
  <2>2. CASE Goto(r, "insert") /\ tok' = [tok EXCEPT ![req[r].bot] = NoToken]
    BY <1>0, <1>7, <1>13, <2>1, <2>2 DEF DropExisting, At, Zero, Provided, Registering, LiveBot, KeyLive
  <2>3. CASE tok[req[r].bot].id # req[r].row /\ Failed(r)
    BY <1>0, <1>6, <1>13, <2>3 DEF DropExisting, At, Zero, Provided, Registering, Sound, Failed
  <2> QED
    BY <1>13, <2>2, <2>3 DEF DropExisting
<1>14. CASE InsertToken(r)
  <2>1. CASE Done(r)
    BY <1>6, <1>14, <2>1 DEF InsertToken, Zero
  <2>2. CASE tok[req[r].bot] # NoToken /\ Failed(r)
    BY <1>0, <1>6, <1>14, <2>2 DEF InsertToken, At, Zero, Provided, Registering, Sound, Failed
  <2>3. CASE \E t \in world.tokens \ issued : req' = [req EXCEPT ![r].cred = t, ![r].pc = "hash"]
    <3>1. req'[r].pc = "hash" /\ req'[r].cred \in Tokens
      BY <1>0, <2>3, ProxyTokenAssumption DEF Request
    <3> QED
      BY <1>14, <3>1, ProxyTokenAssumption DEF InsertToken, Zero, Provided, Registering
  <2> QED
    BY <1>14, <2>1, <2>2, <2>3 DEF InsertToken
<1>15. CASE StoreHash(r)
  BY <1>0, <1>7, <1>15 DEF StoreHash, At, Zero, Provided, Registering
<1>16. CASE FallBack(r)
  BY <1>0, <1>16 DEF FallBack, At, Provided
<1>17. CASE CreateContainer(r)
  <2>1. req[r].cred # RealKey
    BY <1>0 DEF Provided
  <2> QED
    BY <1>6, <1>17, <2>1 DEF CreateContainer, Zero
<1>18. CASE DeleteContainer(r)
  <2>1. req[r].op \notin {"create", "start"} \/ req'[r].pc = "rmread"
    BY <1>7, <1>18 DEF DeleteContainer
  <2> QED
    BY <1>0, <1>7, <1>18, <2>1, ProxyTokenAssumption DEF DeleteContainer, Missed, At, Zero, Provided, Registering
<1>19. CASE DeleteTokenRead(r)
  <2>1. req'[r].pc \in {"erase", "rmtoken"} /\ req'[r].cred = req[r].cred
    BY <1>0, <1>19 DEF DeleteTokenRead, Goto, Request
  <2> QED
    BY <1>0, <1>19, <2>1 DEF DeleteTokenRead, Zero, Provided, Registering
<1>20. CASE DeleteToken(r)
  BY <1>0, <1>7, <1>20 DEF DeleteToken, At, Zero, Provided, Registering
<1>21. CASE EraseBot(r)
  BY <1>6, <1>21 DEF EraseBot, Zero
<1>22. CASE RevokeWrite(r)
  BY <1>6, <1>22 DEF RevokeWrite, Zero
<1> QED
  BY <1>8, <1>9, <1>10, <1>11, <1>12, <1>13, <1>14, <1>15, <1>16, <1>17, <1>18, <1>19, <1>20, <1>21, <1>22

\* Besides the requests: keys are deleted between them, tokens expire during
\* them, and a crash ends them.
LEMMA ZeroKept ==
  ASSUME TInv, TInv', Zero, Serial, ~Faults, [Next /\ UNCHANGED world]_<<vars, world>>
  PROVE  Zero'
<1> USE DEF TInv, TypeOK
<1>1. ASSUME NEW k \in Keys, DeleteProviderKey(k)
      PROVE  Zero'
  <2>1. \A r \in Reqs : req[r].op = "none"
    BY <1>1 DEF DeleteProviderKey, MayMutate
  <2>2. UNCHANGED <<req, secrets, env>>
    BY <1>1 DEF DeleteProviderKey
  <2> QED
    BY <2>1, <2>2 DEF Zero, Provided
<1>2. ASSUME NEW b \in Bots, Expire(b)
      PROVE  Zero'
  <2>1. \A c \in Bots : tok'[c].id = tok[c].id /\ (tok[c] = NoToken => tok'[c] = NoToken)
    BY <1>2 DEF Expire, TokenRow, NoToken
  <2>2. UNCHANGED <<bot, keys, req, secrets, env>>
    BY <1>2 DEF Expire
  <2>3. \A r \in Reqs : req[r].op \in {"create", "start"} => req[r].bot \in Bots
    BY DEF Sound
  <2>4. \A r \in Reqs : Provided(r)'
    BY <2>1, <2>2, <2>3 DEF Zero, Provided, LiveBot, KeyLive
  <2> QED
    BY <2>2, <2>4 DEF Zero
<1>3. ASSUME Crash
      PROVE  Zero'
  BY <1>3, ProxyTokenAssumption DEF Crash, Zero, Provided, Idle
<1>4. CASE UNCHANGED <<vars, world>>
  BY <1>4 DEF vars, Zero, Provided, LiveBot, KeyLive
<1> QED
  BY <1>1, <1>2, <1>3, <1>4, ArrivalZero, StepZero DEF Next, Step

LEMMA ZeroAtFirst == ASSUME Init PROVE Zero
BY ProxyTokenAssumption DEF Init, Zero, Provided, Idle

ZInv == Serial /\ ~Faults => Zero

\* "The bot container never holds the real API key": with requests one at a
\* time of which none fails by itself, the key reaches neither an environment
\* nor a secrets directory, for any bots, keys and tokens, whatever a crash
\* left in the table and with admin calls and expiry in between.
THEOREM ZeroTrust == Spec => []ZeroTrustHolds
<1>1. Init => ZInv
  BY ZeroAtFirst DEF ZInv
<1>2. TInv /\ TInv' /\ ZInv /\ [Next /\ UNCHANGED world]_<<vars, world>> => ZInv'
  <2> SUFFICES ASSUME TInv, TInv', ZInv, [Next /\ UNCHANGED world]_<<vars, world>>, Serial', ~Faults'
               PROVE  Zero'
    BY DEF ZInv
  <2>1. world' = world
    OBVIOUS
  <2>2. Serial /\ ~Faults
    BY <2>1 DEF Serial, Faults
  <2> QED
    BY <2>2, ZeroKept DEF ZInv
<1>3. ZInv => ZeroTrustHolds
  BY DEF ZInv, Zero, ZeroTrustHolds
<1> QED
  BY <1>1, <1>2, <1>3, Types, PTL DEF Spec
-----------------------------------------------------------------------------
(* Tokens follow bots                                                      *)

\* A step of a request while there is no other: what the request holds, and
\* that the others are idle before and after.
LEMMA StepAlone ==
  ASSUME TInv, Zero, NEW r \in Reqs,
         \/ RemoveOld(r) \/ GetKey(r) \/ CheckBot(r) \/ CheckKey(r) \/ ReadExisting(r)
         \/ DropExisting(r) \/ InsertToken(r) \/ StoreHash(r) \/ FallBack(r) \/ CreateContainer(r)
         \/ DeleteContainer(r) \/ DeleteTokenRead(r) \/ DeleteToken(r) \/ EraseBot(r)
         \/ RevokeWrite(r)
  PROVE  /\ req[r] \in Request /\ Sound(req[r]) /\ Provided(r) /\ req[r].bot \in Bots
         /\ \A s \in Reqs \ {r} : req[s].pc = "idle" /\ req'[s] = req[s]
<1> USE DEF TInv, TypeOK
<1>0. req[r] \in Request /\ Sound(req[r]) /\ Provided(r)
  BY DEF Zero
<1>1. req[r].pc # "idle"
  BY DEF RemoveOld, GetKey, CheckBot, CheckKey, ReadExisting, DropExisting, InsertToken, StoreHash, FallBack,
         CreateContainer, DeleteContainer, DeleteTokenRead, DeleteToken, EraseBot, RevokeWrite, At
<1>2. \A s \in Reqs \ {r} : req[s].pc = "idle"
  BY <1>0, <1>1 DEF Zero, Sound
<1>3. \A s \in Reqs \ {r} : req'[s] = req[s]
  BY DEF RemoveOld, GetKey, CheckBot, CheckKey, ReadExisting, DropExisting, InsertToken, StoreHash, FallBack,
         CreateContainer, DeleteContainer, DeleteTokenRead, DeleteToken, EraseBot, RevokeWrite, Goto, Done, Failed
<1> QED
  BY <1>0, <1>1, <1>2, <1>3 DEF Sound

\* What a step does to the place and the token of its request, when no call fails.
LEMMA StepMoves ==
  ASSUME TInv, Zero, ~Faults, NEW r \in Reqs
  PROVE  /\ Done(r) => req'[r] = Idle
         /\ \A pc : Goto(r, pc) => /\ req'[r].pc = pc /\ req'[r].bot = req[r].bot /\ req'[r].op = req[r].op
                                  /\ req'[r].cred = req[r].cred /\ req'[r].row = req[r].row
         /\ ReadExisting(r) =>
              \/ tok[req[r].bot] = NoToken /\ Goto(r, "insert")
              \/ /\ req'[r].pc = "drop" /\ req'[r].bot = req[r].bot /\ req'[r].cred = req[r].cred
                 /\ req'[r].op = req[r].op
         /\ DeleteTokenRead(r) =>
              /\ req'[r].bot = req[r].bot /\ req'[r].op = req[r].op /\ req'[r].row = tok[req[r].bot].id
              /\ req'[r].pc = IF tok[req[r].bot] = NoToken THEN "erase" ELSE "rmtoken"
         /\ ~FallBack(r)
<1>0. req \in [Reqs -> Request] /\ Provided(r)
  BY DEF TInv, TypeOK, Zero
<1>1. ReadExisting(r) =>
        \/ tok[req[r].bot] = NoToken /\ Goto(r, "insert")
        \/ /\ req'[r].pc = "drop" /\ req'[r].bot = req[r].bot /\ req'[r].cred = req[r].cred
           /\ req'[r].op = req[r].op
  BY <1>0 DEF ReadExisting, Request
<1>2. DeleteTokenRead(r) =>
        /\ req'[r].bot = req[r].bot /\ req'[r].op = req[r].op /\ req'[r].row = tok[req[r].bot].id
        /\ req'[r].pc = IF tok[req[r].bot] = NoToken THEN "erase" ELSE "rmtoken"
  BY <1>0 DEF DeleteTokenRead, Request
<1>3. ~FallBack(r)
  BY <1>0 DEF FallBack, At, Provided
<1> QED
  BY <1>0, <1>1, <1>2, <1>3 DEF Done, Goto, Request

\* A deleted bot has no token, a registration past its check has a live bot,
\* and a deletion about to erase its bot has removed the token.
Clean(r) ==
  LET q == req[r]
  IN  /\ q.pc \in Registering \ {"checkbot"} => LiveBot(q.bot)
      /\ q.pc = "rmtoken" => tok[q.bot].id = q.row
      /\ q.pc = "erase" => tok[q.bot] = NoToken

Tidy ==
  /\ \A b \in Bots : bot[b] = "deleted" => tok[b] = NoToken
  /\ \A r \in Reqs : Clean(r)

LEMMA StepTidy ==
  ASSUME TInv, TInv', Zero, Tidy, Serial, ~Faults, NEW r \in Reqs,
         \/ RemoveOld(r) \/ GetKey(r) \/ CheckBot(r) \/ CheckKey(r) \/ ReadExisting(r)
         \/ DropExisting(r) \/ InsertToken(r) \/ StoreHash(r) \/ FallBack(r) \/ CreateContainer(r)
         \/ DeleteContainer(r) \/ DeleteTokenRead(r) \/ DeleteToken(r) \/ EraseBot(r)
         \/ RevokeWrite(r)
  PROVE  Tidy'
<1> USE DEF TInv, TypeOK
<1>0. /\ req[r] \in Request /\ Sound(req[r]) /\ Provided(r) /\ req[r].bot \in Bots /\ Clean(r)
      /\ \A s \in Reqs \ {r} : req[s].pc = "idle" /\ req'[s] = req[s]
  BY StepAlone DEF Tidy
<1>1. \A s \in Reqs \ {r} : Clean(s)'
  BY <1>0 DEF Clean, Registering
<1>2. SUFFICES Clean(r)' /\ \A b \in Bots : bot'[b] = "deleted" => tok'[b] = NoToken
  BY <1>1 DEF Tidy
<1>3. Done(r) => Clean(r)'
  BY StepMoves DEF Idle, Clean, Registering
<1>4. Failed(r) /\ req[r].op = "register" => Clean(r)'
  BY <1>3 DEF Failed
<1>5. CASE RemoveOld(r) \/ GetKey(r) \/ StoreHash(r) \/ DeleteContainer(r)
  <2>1. UNCHANGED <<bot, tok>>
    BY <1>5 DEF RemoveOld, GetKey, StoreHash, DeleteContainer
  <2>2. \E pc \in {"getkey", "checkbot", "container", "rmread"} : Goto(r, pc)
    BY <1>5 DEF RemoveOld, GetKey, StoreHash, DeleteContainer
  <2>3. Clean(r)'
    BY <2>2, StepMoves DEF Clean, Registering
  <2> QED
    BY <2>1, <2>3 DEF Tidy
<1>6. CASE CheckBot(r)
  <2>1. LiveBot(req[r].bot) /\ Goto(r, "checkkey") => Clean(r)'
    BY <1>6, StepMoves DEF CheckBot, Clean, LiveBot
  <2>2. Failed(r) /\ ~LiveBot(req[r].bot) => req[r].op = "register"
    BY <1>0, <1>6 DEF CheckBot, At, Provided, Sound, Registering
  <2> QED
    BY <1>4, <1>6, <2>1, <2>2 DEF CheckBot, Tidy
<1>7. CASE CheckKey(r)
  <2>1. Goto(r, "read") => Clean(r)'
    BY <1>0, <1>7, StepMoves DEF CheckKey, At, Clean, LiveBot, Registering
  <2>2. Failed(r) /\ ~KeyLive(req[r].bot) => req[r].op = "register"
    BY <1>0, <1>7 DEF CheckKey, At, Provided, Sound, Registering
  <2> QED
    BY <1>4, <1>7, <2>1, <2>2 DEF CheckKey, Tidy
<1>8. CASE ReadExisting(r)
  <2>1. req'[r].pc \in {"drop", "insert"} /\ req'[r].bot = req[r].bot
    BY <1>8, StepMoves
  <2> QED
    BY <1>0, <1>8, <2>1 DEF ReadExisting, At, Clean, LiveBot, Registering, Tidy
<1>9. CASE DropExisting(r)
  <2>1. CASE Goto(r, "insert") /\ tok' = [tok EXCEPT ![req[r].bot] = NoToken]
    BY <1>0, <1>9, <2>1, StepMoves DEF DropExisting, At, Clean, LiveBot, Registering, Tidy
  <2>2. CASE Failed(r) /\ tok[req[r].bot].id # req[r].row /\ tok' = tok
    BY <1>0, <1>4, <1>9, <2>2 DEF DropExisting, At, Provided, Sound, Registering, Tidy
  <2> QED
    BY <1>9, <2>1, <2>2 DEF DropExisting
<1>10. CASE InsertToken(r)
  <2>1. req[r].pc = "insert" /\ LiveBot(req[r].bot) /\ bot' = bot
    BY <1>0, <1>10 DEF InsertToken, At, Clean, Registering
  <2>2. \A b \in Bots \ {req[r].bot} : tok'[b] = tok[b]
    BY <1>10 DEF InsertToken
  <2>3. \A b \in Bots : bot'[b] = "deleted" => tok'[b] = NoToken
    BY <2>1, <2>2 DEF LiveBot, Tidy
  <2>4. CASE Failed(r) /\ tok[req[r].bot] # NoToken
    BY <1>0, <1>4, <2>1, <2>3, <2>4 DEF Provided, Sound, Registering
  <2>5. CASE req'[r].pc = "hash"
    BY <2>3, <2>5 DEF Clean, Registering
  <2>6. Done(r) \/ (Failed(r) /\ tok[req[r].bot] # NoToken) \/ req'[r].pc = "hash"
    BY <1>0, <1>10 DEF InsertToken, Request
  <2> QED
    BY <1>3, <2>3, <2>4, <2>5, <2>6
<1>11. CASE CreateContainer(r)
  BY <1>3, <1>11 DEF CreateContainer, Tidy
<1>12. CASE DeleteTokenRead(r)
  <2>1. tok' = tok /\ bot' = bot
    BY <1>12 DEF DeleteTokenRead
  <2>2. /\ req'[r].bot = req[r].bot /\ req'[r].row = tok[req[r].bot].id
        /\ req'[r].pc = IF tok[req[r].bot] = NoToken THEN "erase" ELSE "rmtoken"
    BY <1>12, StepMoves
  <2> HIDE DEF TInv, TypeOK
  <2> QED
    BY <2>1, <2>2 DEF Clean, Registering, Tidy
<1>13. CASE DeleteToken(r)
  <2>1. Goto(r, "erase") /\ tok' = [tok EXCEPT ![req[r].bot] = NoToken] /\ bot' = bot
    BY <1>0, <1>13 DEF DeleteToken, At, Clean
  <2> QED
    BY <1>0, <2>1, StepMoves DEF Clean, Registering, Tidy
<1>14. CASE EraseBot(r)
  <2>1. /\ tok[req[r].bot] = NoToken /\ tok' = tok /\ bot' = [bot EXCEPT ![req[r].bot] = "deleted"]
        /\ Done(r)
    BY <1>0, <1>14 DEF EraseBot, At, Clean
  <2> QED
    BY <1>3, <2>1 DEF Tidy
<1>15. CASE RevokeWrite(r)
  <2>1. req[r].row \in Tokens /\ Done(r) /\ bot' = bot
    BY <1>0, <1>15 DEF RevokeWrite, At, Sound
  <2>2. \A b \in Bots : tok[b] = NoToken => tok'[b] = NoToken
    BY <1>15, <2>1, ProxyTokenAssumption DEF RevokeWrite, NoToken
  <2> QED
    BY <1>3, <2>1, <2>2 DEF Tidy
<1> QED
  BY <1>5, <1>6, <1>7, <1>8, <1>9, <1>10, <1>11, <1>12, <1>13, <1>14, <1>15, StepMoves
\* A request that begins finds no other, and is at its first step.
LEMMA ArrivesAlone ==
  ASSUME TInv, Serial, NEW r \in Reqs, NEW b \in Bots,
         CreateBot(r, b) \/ StartBot(r, b) \/ DeleteBot(r, b) \/ AdminRegister(r, b) \/ RevokeBot(r, b)
  PROVE  /\ \A s \in Reqs : req[s].pc = "idle"
         /\ \A s \in Reqs \ {r} : req'[s] = req[s]
         /\ UNCHANGED <<keys, tok, issued, hash, env, secrets>>
         /\ req'[r].bot = b /\ req'[r].cred = None
         /\ \/ /\ CreateBot(r, b) /\ req'[r].op = "create" /\ req'[r].pc \in {"checkbot", "container"}
               /\ bot[b] = "none" /\ bot' = [bot EXCEPT ![b] = "live"]
            \/ /\ bot' = bot /\ req'[r].op \in {"start", "delete"}
               /\ req'[r].pc \in {"removeold", "rmcontainer"}
            \/ /\ bot' = bot /\ Admin /\ req'[r].pc \in {"checkbot", "revoke"}
<1> USE DEF TInv, TypeOK
<1>1. \A s \in Reqs : req[s].pc = "idle"
  BY DEF CreateBot, StartBot, DeleteBot, AdminRegister, RevokeBot, Arrive, MayMutate, Sound
<1>2. \A s \in Reqs \ {r} : req'[s] = req[s]
  BY DEF CreateBot, StartBot, DeleteBot, AdminRegister, RevokeBot, Arrive
<1>3. UNCHANGED <<keys, tok, issued, hash, env, secrets>>
  BY DEF CreateBot, StartBot, DeleteBot, AdminRegister, RevokeBot
<1>4. ASSUME NEW op, NEW pc, Arrive(r, op, b, pc)
      PROVE  req'[r].op = op /\ req'[r].pc = pc /\ req'[r].bot = b /\ req'[r].cred = None
  BY <1>4 DEF Arrive, Idle
<1>5. CASE CreateBot(r, b)
  BY <1>1, <1>2, <1>3, <1>4, <1>5 DEF CreateBot
<1>6. CASE StartBot(r, b) \/ DeleteBot(r, b)
  BY <1>1, <1>2, <1>3, <1>4, <1>6 DEF StartBot, DeleteBot
<1>7. CASE AdminRegister(r, b)
  BY <1>1, <1>2, <1>3, <1>4, <1>7 DEF AdminRegister
<1>8. CASE RevokeBot(r, b)
  <2>1. req'[r].bot = b /\ req'[r].cred = None /\ req'[r].pc = "revoke" /\ bot' = bot /\ Admin
    BY <1>8 DEF RevokeBot
  <2> QED
    BY <1>1, <1>2, <1>3, <2>1
<1> QED
  BY <1>5, <1>6, <1>7, <1>8

LEMMA ArrivalTidy ==
  ASSUME TInv, Tidy, Serial, NEW r \in Reqs, NEW b \in Bots,
         CreateBot(r, b) \/ StartBot(r, b) \/ DeleteBot(r, b) \/ AdminRegister(r, b) \/ RevokeBot(r, b)
  PROVE  Tidy'
<1>1. Clean(r)'
  BY ArrivesAlone DEF Clean, Registering
<1>2. \A s \in Reqs \ {r} : Clean(s)'
  BY ArrivesAlone DEF Clean, Registering
<1>3. \A c \in Bots : bot'[c] = "deleted" => tok'[c] = NoToken
  BY ArrivesAlone DEF Tidy, TInv, TypeOK
<1> QED
  BY <1>1, <1>2, <1>3 DEF Tidy

LEMMA TidyKept ==
  ASSUME TInv, TInv', Zero, Tidy, Serial, ~Faults, [Next /\ UNCHANGED world]_<<vars, world>>
  PROVE  Tidy'
<1>1. ASSUME NEW k \in Keys, DeleteProviderKey(k)
      PROVE  Tidy'
  BY <1>1 DEF DeleteProviderKey, Tidy, Clean, LiveBot
<1>2. ASSUME NEW b \in Bots, Expire(b)
      PROVE  Tidy'
  <2>1. \A c \in Bots : tok'[c].id = tok[c].id /\ (tok[c] = NoToken => tok'[c] = NoToken)
    BY <1>2 DEF Expire, TokenRow, NoToken, TInv, TypeOK
  <2>2. UNCHANGED <<bot, req>>
    BY <1>2 DEF Expire
  <2>3. \A r \in Reqs : req[r].pc # "idle" => req[r].bot \in Bots
    BY DEF TInv, Sound
  <2> QED
    BY <2>1, <2>2, <2>3 DEF Tidy, Clean, LiveBot
<1>3. ASSUME Crash
      PROVE  Tidy'
  BY <1>3 DEF Crash, Tidy, Clean, Idle, Registering
<1>4. CASE UNCHANGED <<vars, world>>
  BY <1>4 DEF vars, Tidy, Clean, LiveBot
<1> QED
  BY <1>1, <1>2, <1>3, <1>4, ArrivalTidy, StepTidy DEF Next, Step

TidyInv == Serial /\ ~Faults => Zero /\ Tidy

\* The proxy serves no bot that deleteBot has erased, for any bots, keys and
\* tokens, also when the process crashed in an earlier delete, start or
\* registration of it and with registrations and revocations in between.
THEOREM DeletedHasNoToken == Spec => []NoTokenAfterDelete
<1>1. Init => TidyInv
  <2> SUFFICES ASSUME Init PROVE Zero /\ Tidy
    BY DEF TidyInv
  <2>1. Tidy
    BY DEF Init, Tidy, Clean, Idle, Registering
  <2> QED
    BY <2>1, ZeroAtFirst
<1>2. TInv /\ TInv' /\ TidyInv /\ [Next /\ UNCHANGED world]_<<vars, world>> => TidyInv'
  <2> SUFFICES ASSUME TInv, TInv', TidyInv, [Next /\ UNCHANGED world]_<<vars, world>>, Serial', ~Faults'
               PROVE  (Zero /\ Tidy)'
    BY DEF TidyInv
  <2>1. world' = world
    OBVIOUS
  <2>2. Serial /\ ~Faults
    BY <2>1 DEF Serial, Faults
  <2> QED
    BY <2>2, ZeroKept, TidyKept DEF TidyInv
<1>3. TidyInv => NoTokenAfterDelete
  BY DEF TidyInv, Tidy, NoTokenAfterDelete
<1> QED
  BY <1>1, <1>2, <1>3, Types, PTL DEF Spec

-----------------------------------------------------------------------------
(* Containers hold current tokens                                          *)

Kept(b, t) == Admin \/ (tok[b].id = t /\ tok[b].state # "revoked")
Current(b) == env[b] \in Tokens => hash[b] = env[b] /\ Kept(b, env[b])

\* While its token is replaced or deleted a bot has no container, and the
\* container a request makes gets the token that it registered and whose hash
\* it stored. The requests of the admin endpoints touch neither of the two.
Bare(r) ==
  LET q == req[r]
  IN  /\ (q.op = "register" => Admin /\ q.pc \in Registering) /\ (q.pc = "revoke" => Admin)
      /\ q.pc \in {"removeold", "getkey"} \cup Registering => q.cred = None
      /\ q.op # "register" /\ q.pc \notin {"idle", "revoke"} => bot[q.bot] # "none"
      /\ q.op # "register" /\ q.pc \in {"getkey", "hash", "container", "rmread", "rmtoken", "erase"} \cup Registering
           => env[q.bot] = None
      /\ q.pc = "hash" => Kept(q.bot, q.cred)
      /\ q.pc = "container" /\ q.cred \in Tokens => Kept(q.bot, q.cred) /\ hash[q.bot] = q.cred

Matched ==
  /\ \A b \in Bots : Current(b) /\ (bot[b] = "none" => env[b] = None)
  /\ \A r \in Reqs : Bare(r)

\* The admin endpoints write the table of tokens only.
LEMMA AdminMatched ==
  ASSUME TInv, TInv', Zero, Matched, Serial, ~Faults, UNCHANGED world, NEW r \in Reqs,
         req[r].op = "register" \/ req[r].pc = "revoke",
         \/ RemoveOld(r) \/ GetKey(r) \/ CheckBot(r) \/ CheckKey(r) \/ ReadExisting(r)
         \/ DropExisting(r) \/ InsertToken(r) \/ StoreHash(r) \/ FallBack(r) \/ CreateContainer(r)
         \/ DeleteContainer(r) \/ DeleteTokenRead(r) \/ DeleteToken(r) \/ EraseBot(r)
         \/ RevokeWrite(r)
  PROVE  Matched'
<1>0. /\ req[r] \in Request /\ Sound(req[r]) /\ Provided(r) /\ Bare(r)
      /\ \A s \in Reqs \ {r} : req[s].pc = "idle" /\ req'[s] = req[s]
  BY StepAlone DEF Matched
<1>1. Admin /\ Admin'
  BY <1>0 DEF Bare, Admin
<1>2. \/ CheckBot(r) \/ CheckKey(r) \/ ReadExisting(r) \/ DropExisting(r) \/ InsertToken(r) \/ RevokeWrite(r)
  BY <1>0 DEF Bare, Registering, RemoveOld, GetKey, StoreHash, FallBack, CreateContainer, DeleteContainer,
              DeleteTokenRead, DeleteToken, EraseBot, At
<1>3. UNCHANGED <<bot, hash, env>>
  BY <1>2 DEF CheckBot, CheckKey, ReadExisting, DropExisting, InsertToken, RevokeWrite
<1>4. \A s \in Reqs \ {r} : Bare(s)'
  BY <1>0, <1>1, <1>3 DEF Bare, Matched, Registering
<1>5. Done(r) => Bare(r)'
  BY StepMoves DEF Idle, Bare, Registering
<1>6. RevokeWrite(r) => Done(r)
  BY DEF RevokeWrite
<1>7. ~RevokeWrite(r) => req[r].op = "register" /\ req[r].cred = None /\ req[r].pc \in Registering
  BY <1>0, <1>2 DEF Bare, Registering, CheckBot, CheckKey, ReadExisting, DropExisting, InsertToken, At
<1>8. ~RevokeWrite(r) =>
        Done(r) \/ (req'[r].pc \in Registering /\ req'[r].op = req[r].op /\ req'[r].cred = None)
  BY <1>2, <1>7, StepMoves DEF CheckBot, CheckKey, ReadExisting, DropExisting, InsertToken, Failed, Registering
<1>9. Bare(r)'
  BY <1>1, <1>5, <1>6, <1>7, <1>8 DEF Bare, Registering
<1> QED
  BY <1>1, <1>3, <1>4, <1>9 DEF Matched, Current, Kept

\* What the others do.
LEMMA StepMatched ==
  ASSUME TInv, TInv', Zero, Matched, Serial, ~Faults, ~Crashes, UNCHANGED world, NEW r \in Reqs,
         req[r].op # "register", req[r].pc # "revoke",
         \/ RemoveOld(r) \/ GetKey(r) \/ CheckBot(r) \/ CheckKey(r) \/ ReadExisting(r)
         \/ DropExisting(r) \/ InsertToken(r) \/ StoreHash(r) \/ FallBack(r) \/ CreateContainer(r)
         \/ DeleteContainer(r) \/ DeleteTokenRead(r) \/ DeleteToken(r) \/ EraseBot(r)
         \/ RevokeWrite(r)
  PROVE  Matched'
<1>t. /\ DOMAIN bot = Bots /\ DOMAIN tok = Bots /\ DOMAIN hash = Bots /\ DOMAIN env = Bots
      /\ DOMAIN req = Reqs /\ DOMAIN req[r] = {"op", "pc", "bot", "row", "cred"}
  BY DEF TInv, TypeOK, Request
<1>b. PICK b \in Bots : b = req[r].bot
  BY StepAlone
<1> USE <1>t, <1>b
<1>0. /\ req[r] \in Request /\ Sound(req[r]) /\ Provided(r) /\ Bare(r) /\ Current(b)
      /\ \A s \in Reqs \ {r} : req[s].pc = "idle" /\ req'[s] = req[s]
  BY StepAlone DEF Matched
<1>w. Admin' = Admin /\ ~Faults /\ ~Crashes
  BY DEF Admin
<1>1. \A s \in Reqs \ {r} : Bare(s)'
  BY <1>0, <1>w DEF Bare, Matched, Registering
<1>2. ASSUME Bare(r)', Current(b)', bot'[b] = "none" => env'[b] = None,
             \A c \in Bots \ {b} : tok'[c] = tok[c] /\ hash'[c] = hash[c] /\ env'[c] = env[c] /\ bot'[c] = bot[c]
      PROVE  Matched'
  BY <1>0, <1>1, <1>2, <1>w DEF Matched, Current, Kept
<1>3. Done(r) => Bare(r)'
  BY StepMoves DEF Idle, Bare, Registering
<1>4. bot[b] = "none" => env[b] = None
  BY <1>0 DEF Matched
<1>5. None \notin Tokens
  BY ProxyTokenAssumption
<1>6. CASE RemoveOld(r) \/ DeleteContainer(r)
  <2>1. /\ env' = [env EXCEPT ![b] = None] /\ UNCHANGED <<bot, tok, hash>>
        /\ \/ req[r].pc = "removeold" /\ Goto(r, "getkey")
           \/ req[r].pc = "rmcontainer" /\ Goto(r, "rmread")
    BY <1>6 DEF RemoveOld, DeleteContainer, Missed, At
  <2>2. env'[b] = None
    BY <1>0, <2>1
  <2>3. Bare(r)'
    BY <1>0, <2>1, <2>2, StepMoves DEF Bare, Registering
  <2>4. Current(b)'
    BY <1>5, <2>2 DEF Current
  <2> QED
    BY <1>2, <2>1, <2>2, <2>3, <2>4
<1>7. CASE GetKey(r) \/ CheckBot(r) \/ CheckKey(r) \/ ReadExisting(r) \/ DeleteTokenRead(r)
  <2>1. UNCHANGED <<bot, tok, hash, env>>
    BY <1>7 DEF GetKey, CheckBot, CheckKey, ReadExisting, DeleteTokenRead
  <2>2. env[b] = None
    BY <1>0, <1>7 DEF GetKey, CheckBot, CheckKey, ReadExisting, DeleteTokenRead, At, Bare, Registering
  <2>3. ASSUME GetKey(r) \/ CheckBot(r) \/ CheckKey(r)
        PROVE  Bare(r)'
    <3>1. ~Failed(r) \/ \E pc \in Registering \cup {"container"} : Goto(r, pc)
      BY <1>0, <1>5, <2>3 DEF GetKey, CheckBot, CheckKey, Failed, At, Provided, Sound, Registering
    <3>2. \E pc \in Registering \cup {"container"} : Goto(r, pc)
      BY <1>0, <1>5, <2>3, <3>1 DEF GetKey, CheckBot, CheckKey, At, Provided, Sound, Registering
    <3>3. req[r].cred = None /\ req[r].pc # "idle"
      BY <1>0, <2>3 DEF GetKey, CheckBot, CheckKey, At, Bare, Registering
    <3> QED
      BY <1>0, <1>5, <2>1, <2>2, <3>2, <3>3, StepMoves DEF Bare, Registering
  <2>4. ASSUME ReadExisting(r)
        PROVE  Bare(r)'
    <3>1. req[r].cred = None /\ req[r].pc # "idle"
      BY <1>0, <2>4 DEF ReadExisting, At, Bare, Registering
    <3>2. /\ req'[r].pc \in {"drop", "insert"} /\ req'[r].bot = b /\ req'[r].cred = None
          /\ req'[r].op = req[r].op
      BY <2>4, <3>1, StepMoves
    <3> QED
      BY <1>0, <2>1, <2>2, <3>1, <3>2 DEF Bare, Registering
  <2>5. DeleteTokenRead(r) => Bare(r)'
    BY <1>0, <2>1, <2>2, StepMoves DEF DeleteTokenRead, At, Bare, Registering
  <2>6. Bare(r)'
    BY <1>7, <2>3, <2>4, <2>5
  <2>7. Current(b)' /\ (bot'[b] = "none" => env'[b] = None)
    BY <1>0, <1>4, <1>w, <2>1 DEF Current, Kept
  <2> QED
    BY <1>2, <2>1, <2>6, <2>7
<1>8. CASE DropExisting(r) \/ DeleteToken(r)
  <2>1. env[b] = None /\ UNCHANGED <<bot, hash, env>>
    BY <1>0, <1>8 DEF DropExisting, DeleteToken, At, Bare, Registering
  <2>2. \A c \in Bots \ {b} : tok'[c] = tok[c]
    BY <1>8 DEF DropExisting, DeleteToken
  <2>3. Current(b)'
    BY <1>5, <2>1 DEF Current
  <2>4. ASSUME DropExisting(r)
        PROVE  Bare(r)'
    <3>1. Goto(r, "insert") /\ req[r].cred = None /\ req[r].pc = "drop"
      BY <1>0, <1>5, <2>4 DEF DropExisting, At, Provided, Sound, Bare, Registering
    <3> QED
      BY <1>0, <2>1, <3>1, StepMoves DEF Bare, Registering
  <2>5. ASSUME DeleteToken(r)
        PROVE  Bare(r)'
    <3>1. Goto(r, "erase") /\ req[r].pc = "rmtoken"
      BY <2>5 DEF DeleteToken, At
    <3> QED
      BY <1>0, <2>1, <3>1, StepMoves DEF Bare, Registering
  <2> QED
    BY <1>2, <1>8, <2>1, <2>2, <2>3, <2>4, <2>5
<1>9. CASE InsertToken(r)
  <2> DEFINE t == CHOOSE x \in world.tokens \ issued : TRUE
  <2>1. /\ env[b] = None /\ UNCHANGED <<bot, hash, env>>
        /\ tok[b] = NoToken /\ req[r].op \in {"create", "start"} /\ req[r].pc = "insert"
    BY <1>0, <1>5, <1>9 DEF InsertToken, At, Bare, Provided, Sound, Registering
  <2>2. /\ tok' = [tok EXCEPT ![b] = [id |-> t, state |-> "valid"]]
        /\ req' = [req EXCEPT ![r].cred = t, ![r].pc = "hash"]
    BY <1>5, <1>9, <2>1 DEF InsertToken
  <2> HIDE DEF t
  <2>3. /\ tok'[b].id = t /\ tok'[b].state = "valid" /\ req'[r].cred = t /\ req'[r].pc = "hash" /\ req'[r].bot = b
        /\ req'[r].op = req[r].op
    BY <1>0, <2>2 DEF Request
  <2>4. \A c \in Bots \ {b} : tok'[c] = tok[c]
    BY <2>2
  <2>5. Bare(r)'
    BY <1>0, <2>1, <2>3 DEF Bare, Registering, Kept
  <2>6. Current(b)'
    BY <1>5, <2>1 DEF Current
  <2> QED
    BY <1>2, <2>1, <2>4, <2>5, <2>6
<1>10. CASE StoreHash(r)
  <2>1. /\ hash' = [hash EXCEPT ![b] = req[r].cred] /\ Goto(r, "container") /\ UNCHANGED <<bot, tok, env>>
        /\ req[r].pc = "hash"
    BY <1>10 DEF StoreHash, At
  <2>2. env[b] = None /\ Kept(b, req[r].cred) /\ hash'[b] = req[r].cred
    BY <1>0, <2>1 DEF Bare
  <2>3. Bare(r)'
    BY <1>0, <1>w, <2>1, <2>2, StepMoves DEF Bare, Registering, Kept
  <2>4. Current(b)'
    BY <1>5, <2>1, <2>2 DEF Current
  <2> QED
    BY <1>2, <2>1, <2>2, <2>3, <2>4
<1>11. CASE CreateContainer(r)
  <2>1. UNCHANGED <<bot, tok, hash>> /\ req[r].pc = "container" /\ Done(r) /\ env[b] = None
    BY <1>0, <1>11 DEF CreateContainer, At, Bare
  <2>2. env' = [env EXCEPT ![b] = req[r].cred]
    BY <1>11, <2>1 DEF CreateContainer
  <2>3. env'[b] = req[r].cred /\ \A c \in Bots \ {b} : env'[c] = env[c]
    BY <1>0, <2>2
  <2>4. Current(b)'
    BY <1>0, <1>w, <2>1, <2>3 DEF Bare, Current, Kept
  <2>5. bot[b] # "none"
    BY <1>0, <2>1 DEF Bare
  <2> QED
    BY <1>2, <1>3, <2>1, <2>3, <2>4, <2>5
<1>12. CASE EraseBot(r)
  <2>1. /\ env[b] = None /\ UNCHANGED <<tok, hash, env>> /\ Done(r)
        /\ bot' = [bot EXCEPT ![b] = "deleted"]
    BY <1>0, <1>12 DEF EraseBot, At, Bare
  <2>2. Current(b)'
    BY <1>5, <2>1 DEF Current
  <2> QED
    BY <1>2, <1>3, <2>1, <2>2
<1>13. ~RevokeWrite(r) /\ ~FallBack(r)
  BY StepMoves DEF RevokeWrite, At
<1> QED
  BY <1>6, <1>7, <1>8, <1>9, <1>10, <1>11, <1>12, <1>13

LEMMA ArrivalMatched ==
  ASSUME TInv, Matched, Serial, UNCHANGED world, NEW r \in Reqs, NEW b \in Bots,
         CreateBot(r, b) \/ StartBot(r, b) \/ DeleteBot(r, b) \/ AdminRegister(r, b) \/ RevokeBot(r, b)
  PROVE  Matched'
<1>1. /\ UNCHANGED <<tok, hash, env>> /\ req'[r].bot = b /\ req'[r].cred = None
      /\ \A s \in Reqs : req[s].pc = "idle"
      /\ \A s \in Reqs \ {r} : req'[s] = req[s]
  BY ArrivesAlone
<1>2. DOMAIN bot = Bots /\ DOMAIN req = Reqs /\ None \notin Tokens /\ Admin' = Admin
  BY ProxyTokenAssumption DEF TInv, TypeOK, Admin
<1>i. \A s \in Reqs \ {r} : Bare(s)'
  BY <1>1, <1>2 DEF Bare, Matched, Registering
<1>3. CASE CreateBot(r, b)
  <2>1. /\ bot[b] = "none" /\ bot' = [bot EXCEPT ![b] = "live"]
        /\ req'[r].pc \in {"checkbot", "container"} /\ req'[r].op = "create"
    BY <1>2, <1>3 DEF CreateBot, Arrive, Idle
  <2>2. env[b] = None /\ bot'[b] = "live" /\ \A c \in Bots \ {b} : bot'[c] = bot[c]
    BY <1>2, <2>1 DEF Matched
  <2>3. Bare(r)'
    BY <1>1, <1>2, <2>1, <2>2 DEF Bare, Registering
  <2> QED
    BY <1>1, <1>2, <1>i, <2>2, <2>3 DEF Matched, Current, Kept
<1>4. CASE StartBot(r, b) \/ DeleteBot(r, b)
  <2>1. /\ LiveBot(b) /\ bot' = bot /\ req'[r].pc \in {"removeold", "rmcontainer"}
        /\ req'[r].op \in {"start", "delete"}
    BY <1>2, <1>4 DEF StartBot, DeleteBot, Arrive, Idle
  <2>2. Bare(r)'
    BY <1>1, <2>1 DEF Bare, Registering, LiveBot
  <2> QED
    BY <1>1, <1>2, <1>i, <2>1, <2>2 DEF Matched, Current, Kept
<1>5. CASE AdminRegister(r, b)
  <2>1. Admin /\ bot' = bot /\ req'[r].pc = "checkbot" /\ req'[r].op = "register"
    BY <1>2, <1>5 DEF AdminRegister, Arrive, Idle
  <2>2. Bare(r)'
    BY <1>1, <1>2, <2>1 DEF Bare, Registering
  <2> QED
    BY <1>1, <1>2, <1>i, <2>1, <2>2 DEF Matched, Current, Kept
<1>6. CASE RevokeBot(r, b)
  <2>1. Admin /\ bot' = bot /\ req'[r].pc = "revoke" /\ req'[r].op = "revoke"
    BY <1>2, <1>6 DEF RevokeBot
  <2>2. Bare(r)'
    BY <1>1, <1>2, <2>1 DEF Bare, Registering
  <2> QED
    BY <1>1, <1>2, <1>i, <2>1, <2>2 DEF Matched, Current, Kept
<1> QED
  BY <1>3, <1>4, <1>5, <1>6

LEMMA MatchedKept ==
  ASSUME TInv, TInv', Zero, Matched, Serial, ~Faults, ~Crashes,
         [Next /\ UNCHANGED world]_<<vars, world>>
  PROVE  Matched'
<1>0. Admin' = Admin
  BY DEF Admin
<1>1. ASSUME NEW k \in Keys, DeleteProviderKey(k)
      PROVE  Matched'
  BY <1>0, <1>1 DEF DeleteProviderKey, Matched, Current, Bare, Kept
<1>2. ASSUME NEW b \in Bots, Expire(b)
      PROVE  Matched'
  <2>1. \A c \in Bots : tok'[c].id = tok[c].id /\ (tok'[c].state = "revoked" => tok[c].state = "revoked")
    BY <1>2 DEF Expire, TokenRow, NoToken, TInv, TypeOK
  <2>2. UNCHANGED <<bot, hash, env, req>>
    BY <1>2 DEF Expire
  <2>3. \A r \in Reqs : req[r].pc # "idle" => req[r].bot \in Bots
    BY DEF TInv, Sound
  <2> QED
    BY <1>0, <2>1, <2>2, <2>3 DEF Matched, Current, Bare, Kept
<1>3. CASE UNCHANGED <<vars, world>>
  BY <1>0, <1>3 DEF vars, Matched, Current, Bare, Kept
<1> QED
  BY <1>1, <1>2, <1>3, ArrivalMatched, AdminMatched, StepMatched DEF Next, Step, Crash

MatchedInv == Serial /\ ~Faults /\ ~Crashes => Zero /\ Matched

\* No request that came and went locks a running bot out, for any bots, keys and
\* tokens: between requests, the token in its container is the one whose hash its
\* row has and, unless the admin endpoints replace or revoke tokens, the one in
\* the table, which is not revoked, however many creations, starts, deletions and
\* expiries came before. (Expiry and the deletion of its key do end its access.)
THEOREM ContainersHoldCurrentTokens == Spec => []ContainerTokenIsCurrent
<1>1. Init => MatchedInv
  <2> SUFFICES ASSUME Init PROVE Zero /\ Matched
    BY DEF MatchedInv
  <2>1. Matched
    BY ProxyTokenAssumption DEF Init, Matched, Current, Bare, Idle, Registering
  <2> QED
    BY <2>1, ZeroAtFirst
<1>2. TInv /\ TInv' /\ MatchedInv /\ [Next /\ UNCHANGED world]_<<vars, world>> => MatchedInv'
  <2> SUFFICES ASSUME TInv, TInv', MatchedInv, [Next /\ UNCHANGED world]_<<vars, world>>,
                      Serial', ~Faults', ~Crashes'
               PROVE  (Zero /\ Matched)'
    BY DEF MatchedInv
  <2>1. world' = world
    OBVIOUS
  <2>2. Serial /\ ~Faults /\ ~Crashes
    BY <2>1 DEF Serial, Faults, Crashes
  <2> QED
    BY <2>2, ZeroKept, MatchedKept DEF MatchedInv
<1>3. MatchedInv => ContainerTokenIsCurrent
  BY DEF MatchedInv, Matched, Current, Kept, ContainerTokenIsCurrent
<1> QED
  BY <1>1, <1>2, <1>3, Types, PTL DEF Spec

-----------------------------------------------------------------------------
(* The pipeline and its tokens                                             *)

\* A pipeline of tokens and calls is, seen by its tokens, what ProxyToken
\* specifies.
THEOREM TokensAsSpecified == PipelineSpec => Spec
<1>1. PipelineInit => Init
  BY DEF PipelineInit
<1>2. [PipelineNext /\ UNCHANGED world]_<<vars, callVars, world>> => [Next /\ UNCHANGED world]_<<vars, world>>
  BY DEF PipelineNext, TokenStep, Midnight, Next
<1> QED
  BY <1>1, <1>2, PTL DEF PipelineSpec, Spec

\* And so do the tokens that containers call with.
COROLLARY PipelineLeasesTokens == PipelineSpec => TokensAreLeases
BY TokensAsSpecified, TokensLeased

-----------------------------------------------------------------------------
(* Tokens in hand were issued                                              *)

Given ==
  /\ \A r \in Reqs : req[r].cred \in Tokens => req[r].cred \in issued
  /\ \A b \in Bots : env[b] \in Tokens => env[b] \in issued

LEMMA GivenAtFirst == ASSUME Init PROVE Given
BY ProxyTokenAssumption DEF Init, Given, Idle

\* No token is forgotten.
LEMMA IssuedGrow ==
  ASSUME TInv, TInv', [Next /\ UNCHANGED world]_<<vars, world>>
  PROVE  issued \subseteq issued'
<1>1. ASSUME NEW r \in Reqs, InsertToken(r)
      PROVE  issued \subseteq issued'
  BY <1>1 DEF InsertToken
<1>2. ASSUME NEW r \in Reqs, NEW b \in Bots,
             CreateBot(r, b) \/ StartBot(r, b) \/ DeleteBot(r, b) \/ AdminRegister(r, b) \/ RevokeBot(r, b)
      PROVE  issued \subseteq issued'
  BY <1>2 DEF CreateBot, StartBot, DeleteBot, AdminRegister, RevokeBot
<1>3. ASSUME NEW r \in Reqs,
             \/ RemoveOld(r) \/ GetKey(r) \/ CheckBot(r) \/ CheckKey(r) \/ ReadExisting(r) \/ DropExisting(r)
             \/ StoreHash(r) \/ FallBack(r) \/ CreateContainer(r) \/ DeleteContainer(r)
             \/ DeleteTokenRead(r) \/ DeleteToken(r) \/ EraseBot(r) \/ RevokeWrite(r)
      PROVE  issued \subseteq issued'
  BY <1>3 DEF RemoveOld, GetKey, CheckBot, CheckKey, ReadExisting, DropExisting, StoreHash, FallBack,
              CreateContainer, DeleteContainer, DeleteTokenRead, DeleteToken, EraseBot, RevokeWrite
<1>4. ASSUME (\E k \in Keys : DeleteProviderKey(k)) \/ (\E b \in Bots : Expire(b)) \/ Crash
      PROVE  issued \subseteq issued'
  BY <1>4 DEF DeleteProviderKey, Expire, Crash
<1>5. CASE UNCHANGED <<vars, world>>
  BY <1>5 DEF vars
<1>6. CASE Next
  BY <1>1, <1>2, <1>3, <1>4, <1>6 DEF Next, Step
<1> QED
  BY <1>5, <1>6

\* An insert hands out the token it issues; nothing else makes one.
LEMMA GivenKept ==
  ASSUME TInv, TInv', Given, [Next /\ UNCHANGED world]_<<vars, world>>
  PROVE  Given'
<1> USE DEF TInv, TypeOK
<1>1. issued \subseteq issued'
  BY IssuedGrow
<1>2. None \notin Tokens /\ RealKey \notin Tokens
  BY ProxyTokenAssumption
<1>3. ASSUME NEW r \in Reqs, NEW b \in Bots,
             CreateBot(r, b) \/ StartBot(r, b) \/ DeleteBot(r, b) \/ AdminRegister(r, b) \/ RevokeBot(r, b)
      PROVE  Given'
  <2>1. req'[r].cred = None
    <3>1. ASSUME NEW op, NEW pc, Arrive(r, op, b, pc)
          PROVE  req'[r].cred = None
      BY <3>1 DEF Arrive, Idle
    <3>2. RevokeBot(r, b) => req'[r].cred = None
      BY DEF RevokeBot
    <3> QED
      BY <1>3, <3>1, <3>2 DEF CreateBot, StartBot, DeleteBot, AdminRegister
  <2>2. \A s \in Reqs \ {r} : req'[s] = req[s]
    BY <1>3 DEF CreateBot, StartBot, DeleteBot, AdminRegister, RevokeBot, Arrive
  <2>3. env' = env
    BY <1>3 DEF CreateBot, StartBot, DeleteBot, AdminRegister, RevokeBot
  <2> QED
    BY <1>1, <1>2, <2>1, <2>2, <2>3 DEF Given
<1>4. ASSUME NEW r \in Reqs
      PROVE  /\ Done(r) => req'[r].cred = None /\ \A s \in Reqs \ {r} : req'[s] = req[s]
             /\ \A pc : Goto(r, pc) => \A s \in Reqs : req'[s].cred = req[s].cred
             /\ Failed(r) => req'[r].cred \in {None, req[r].cred} /\ \A s \in Reqs \ {r} : req'[s] = req[s]
  <2>1. req \in [Reqs -> Request]
    OBVIOUS
  <2> HIDE DEF TInv, TypeOK
  <2>2. Done(r) => req'[r].cred = None /\ \A s \in Reqs \ {r} : req'[s] = req[s]
    BY <2>1 DEF Done, Idle
  <2>3. ASSUME NEW pc, Goto(r, pc), NEW s \in Reqs
        PROVE  req'[s].cred = req[s].cred /\ (s # r => req'[s] = req[s])
    BY <2>1, <2>3 DEF Goto, Request
  <2>4. Failed(r) => req'[r].cred \in {None, req[r].cred} /\ \A s \in Reqs \ {r} : req'[s] = req[s]
    BY <2>2, <2>3 DEF Failed
  <2> QED
    BY <2>2, <2>3, <2>4
<1>5. ASSUME NEW r \in Reqs,
             RemoveOld(r) \/ GetKey(r) \/ CheckBot(r) \/ CheckKey(r) \/ DropExisting(r)
               \/ StoreHash(r) \/ DeleteContainer(r) \/ DeleteToken(r) \/ EraseBot(r) \/ RevokeWrite(r)
      PROVE  Given'
  <2>1. env' = env \/ env' = [env EXCEPT ![req[r].bot] = None]
    BY <1>5 DEF RemoveOld, GetKey, CheckBot, CheckKey, DropExisting, StoreHash, DeleteContainer, DeleteToken,
                EraseBot, RevokeWrite, Missed
  <2>2. Done(r) \/ Failed(r) \/ \E pc : Goto(r, pc)
    BY <1>5 DEF RemoveOld, GetKey, CheckBot, CheckKey, DropExisting, StoreHash, DeleteContainer, DeleteToken,
                EraseBot, RevokeWrite
  <2> QED
    BY <1>1, <1>2, <1>4, <2>1, <2>2 DEF Given
<1>6. ASSUME NEW r \in Reqs, ReadExisting(r) \/ DeleteTokenRead(r)
      PROVE  Given'
  <2>1. Failed(r) \/ (\E pc : Goto(r, pc)) \/ \A s \in Reqs : req'[s].cred = req[s].cred
    <3>1. CASE ReadExisting(r)
      BY <3>1 DEF ReadExisting, Request
    <3>2. CASE DeleteTokenRead(r)
      BY <3>2 DEF DeleteTokenRead, Request
    <3> QED
      BY <1>6, <3>1, <3>2
  <2>2. env' = env
    BY <1>6 DEF ReadExisting, DeleteTokenRead
  <2> QED
    BY <1>1, <1>2, <1>4, <2>1, <2>2 DEF Given
<1>7. ASSUME NEW r \in Reqs, InsertToken(r)
      PROVE  Given'
  <2>1. env' = env
    BY <1>7 DEF InsertToken
  <2>2. Done(r) \/ Failed(r) \/ \E t \in issued' : req' = [req EXCEPT ![r].cred = t, ![r].pc = "hash"]
    BY <1>7 DEF InsertToken
  <2>3. ASSUME NEW t \in issued', req' = [req EXCEPT ![r].cred = t, ![r].pc = "hash"]
        PROVE  req'[r].cred \in issued' /\ \A s \in Reqs \ {r} : req'[s] = req[s]
    BY <2>3 DEF Request
  <2> QED
    BY <1>1, <1>2, <1>4, <2>1, <2>2, <2>3 DEF Given
<1>8. ASSUME NEW r \in Reqs, FallBack(r)
      PROVE  Given'
  <2>1. env' = env
    BY <1>8 DEF FallBack
  <2>2. req'[r].cred \in {req[r].cred, RealKey} /\ \A s \in Reqs \ {r} : req'[s] = req[s]
    BY <1>8 DEF FallBack, Goto, Request
  <2> QED
    BY <1>1, <1>2, <2>1, <2>2 DEF Given
<1>9. ASSUME NEW r \in Reqs, CreateContainer(r)
      PROVE  Given'
  <2>1. env' = env \/ env' = [env EXCEPT ![req[r].bot] = req[r].cred]
    BY <1>9 DEF CreateContainer
  <2>2. Done(r)
    BY <1>9 DEF CreateContainer
  <2> QED
    BY <1>1, <1>2, <1>4, <2>1, <2>2 DEF Given
<1>10. CASE Crash
  BY <1>1, <1>2, <1>10 DEF Crash, Given, Idle
<1>11. CASE (\E k \in Keys : DeleteProviderKey(k)) \/ (\E b \in Bots : Expire(b)) \/ UNCHANGED <<vars, world>>
  BY <1>1, <1>11 DEF DeleteProviderKey, Expire, vars, Given
<1> QED
  BY <1>3, <1>5, <1>6, <1>7, <1>8, <1>9, <1>10, <1>11 DEF Next, Step
-----------------------------------------------------------------------------
(* Calls                                                                   *)

\* The key a call takes from a list is of the list.
LEMMA NthIsListed ==
  ASSUME NEW S, IsFiniteSet(S), NEW i \in 0 .. Cardinality(S) - 1
  PROVE  Nth(S, i) \in S
<1>1. Cardinality(S) \in Nat
  BY FS_CardinalityType
<1>2. \E f \in [1 .. Cardinality(S) -> S] : IsInjective(f)
  <2>1. PICK f : f \in Bijection(1 .. Cardinality(S), S)
    BY FS_CardinalityType DEF ExistsBijection
  <2> QED
    BY <2>1 DEF Bijection, Injection, IsInjective
<1> DEFINE g == CHOOSE f \in [1 .. Cardinality(S) -> S] : IsInjective(f)
<1>3. g \in [1 .. Cardinality(S) -> S]
  BY <1>2
<1>4. SetToSeq(S) = g
  BY DEF SetToSeq
<1> QED
  BY <1>1, <1>3, <1>4 DEF Nth

Fields == {"pc", "token", "dead", "url", "bot", "key", "vendor", "conf", "tries", "list", "fate", "usage"}
Classes == {"default", "any"} \cup {BotTags[i] : i \in DOMAIN BotTags}
Early == {"idle", "findtoken", "findkey", "findbot"}

\* What a crash leaves of a call.
LEMMA LostOrOver ==
  ASSUME LoseCalls, NEW c \in Calls
  PROVE  \/ call[c].pc \in Over /\ call'[c] = call[c]
         \/ /\ call[c].pc \notin Over /\ DOMAIN call'[c] = Fields /\ call'[c].pc = "lost"
            /\ call'[c].dead = FALSE /\ call'[c].bot = None /\ call'[c].key = None /\ call'[c].conf = "none"
            /\ call'[c].fate = "none" /\ call'[c].list = {} /\ DOMAIN call'[c].usage = Periods
<1> DEFINE q == [Silent EXCEPT !.pc = "lost"]
<1>1. /\ DOMAIN q = Fields /\ q.pc = "lost" /\ q.dead = FALSE /\ q.bot = None /\ q.key = None /\ q.conf = "none"
      /\ q.fate = "none" /\ q.list = {} /\ DOMAIN q.usage = Periods
  BY DEF Silent, Fields
<1>2. call'[c] = IF call[c].pc \in Over THEN call[c] ELSE q
  BY DEF LoseCalls
<1> HIDE DEF q
<1> QED
  BY <1>1, <1>2

\* A call whose token was dead when it came in has no key: it is refused, or
\* will be, because its token is still not accepted, or its key is gone.
Barred(c) ==
  LET q == call[c]
  IN  ~world.direct /\ q.dead =>
        /\ q.key = None
        /\ \/ q.pc = "refused"
           \/ q.pc = "findtoken" /\ q.token \in issued /\ ~Accepts(q.token)
           \/ q.pc = "findkey" /\ q.bot \in Bots /\ KeyFor[q.bot] \notin keys

\* A call goes out with the configuration of the vendor it was made to, and with
\* a key of that vendor or of the one it is routed to.
Bound(c) ==
  LET q == call[c]
  IN  /\ q.key \in Keys \cup {None} /\ (q.pc \notin {"idle", "lost"} => q.url \in Vendors)
      /\ q.pc \in Early => q.key = None
      /\ q.key = None => q.conf = "none" /\ q.fate = "none"
      /\ q.key # None =>
           /\ q.conf = q.url /\ Vendor[q.key] \in {q.url, q.vendor}
           /\ q.vendor # "none" \/ q.key = KeyFor[q.bot]
      /\ q.pc \in {"route", "send"} => q.key # None
      /\ q.pc \in {"route", "list", "take"} /\ q.key # None => Vendor[q.key] = q.url
      /\ q.pc \in {"list", "take"} =>
           /\ q.vendor \in Vendors /\ q.tries \in Seq(Classes) /\ Len(q.tries) > 0
           /\ q.key = None => q.vendor = q.url
      /\ q.pc = "take" => q.list # {} /\ q.list \subseteq {k \in Keys : Vendor[k] = q.vendor}

Own(c) == DOMAIN call[c] = Fields /\ Barred(c) /\ Bound(c)

CallInv ==
  /\ DOMAIN call = Calls /\ index \in [Caches -> Nat]
  /\ \A c \in Calls : Own(c)

\* A step of a call touches no other.
LEMMA OneCall ==
  ASSUME CallInv, UNCHANGED <<vars, world>>, NEW c \in Calls, NEW q, Put(c, q)
  PROVE  DOMAIN call' = Calls /\ call'[c] = q /\ \A d \in Calls \ {c} : Own(d)'
<1>1. DOMAIN call' = Calls /\ call'[c] = q /\ \A d \in Calls \ {c} : call'[d] = call[d]
  BY DEF Put, CallInv
<1> QED
  BY <1>1 DEF CallInv, Own, Barred, Bound, Accepts, KeyLive, vars

LEMMA Moved ==
  ASSUME CallInv, UNCHANGED <<vars, world>>, NEW c \in Calls, NEW pc, Move(c, pc)
  PROVE  /\ DOMAIN call' = Calls /\ \A d \in Calls \ {c} : Own(d)'
         /\ DOMAIN call'[c] = Fields /\ call'[c].pc = pc
         /\ \A f \in Fields \ {"pc"} : call'[c][f] = call[c][f]
<1> DEFINE q == [call[c] EXCEPT !.pc = pc]
<1>1. DOMAIN q = Fields /\ q.pc = pc /\ \A f \in Fields \ {"pc"} : q[f] = call[c][f]
  BY DEF CallInv, Own, Fields
<1>2. Put(c, q)
  BY DEF Move
<1> HIDE DEF q
<1> QED
  BY <1>1, <1>2, OneCall

LEMMA CallAtFirst == ASSUME PipelineInit PROVE CallInv
<1>1. DOMAIN Silent = Fields /\ Silent.pc = "idle" /\ Silent.key = None /\ Silent.dead = FALSE
      /\ Silent.conf = "none" /\ Silent.fate = "none"
  BY DEF Silent, Fields
<1> QED
  BY <1>1 DEF PipelineInit, CallInv, Own, Barred, Bound, Early

\* The token's part of a step.
LEMMA CallsSeeTokens ==
  ASSUME TInv, TInv', CallInv, TokenStep, UNCHANGED world
  PROVE  CallInv'
<1>1. /\ keys' \subseteq keys
      /\ \A b \in Bots : tok'[b].state = "valid" => tok'[b] = tok[b] \/ tok'[b].id \notin issued
  BY RowsOnlyDie DEF TokenStep, Next
<1>2. issued \subseteq issued'
  BY IssuedGrow DEF TokenStep, Next
<1>3. UNCHANGED <<call, index>>
  BY DEF TokenStep
<1>4. \A t \in issued : ~Accepts(t) => ~Accepts(t)'
  BY <1>1 DEF Accepts, KeyLive
<1> QED
  BY <1>1, <1>2, <1>3, <1>4 DEF CallInv, Own, Barred, Bound

\* What a crash does: a call that is not over is as if it had never been.
LEMMA CallsAreLost ==
  ASSUME CallInv, Crash, LoseCalls, UNCHANGED world
  PROVE  CallInv'
<1>1. UNCHANGED <<keys, tok, issued>>
  BY DEF Crash
<1>2. DOMAIN call' = Calls /\ index' \in [Caches -> Nat]
  BY DEF LoseCalls
<1>3. ASSUME NEW c \in Calls
      PROVE  Own(c)'
  <2>1. CASE call'[c] = call[c]
    BY <1>1, <2>1 DEF CallInv, Own, Barred, Bound, Accepts, KeyLive
  <2>2. CASE call'[c] # call[c]
    BY <2>2, LostOrOver DEF Own, Barred, Bound, Early
  <2> QED
    BY <2>1, <2>2
<1> QED
  BY <1>2, <1>3 DEF CallInv

\* From the container to the key of the token.
LEMMA CallEnters ==
  ASSUME TInv, Given, CallInv, UNCHANGED <<vars, world>>, NEW c \in Calls, Call(c)
  PROVE  CallInv'
<1> USE DEF TInv, TypeOK
<1>1. PICK b \in Bots, v \in world.urls :
        /\ env[b] \in Tokens
        /\ Put(c, [Silent EXCEPT !.token = env[b], !.url = v, !.pc = IF world.direct THEN "findbot" ELSE "findtoken",
                                 !.dead = ~Accepts(env[b])])
  BY DEF Call
<1> DEFINE q == [Silent EXCEPT !.token = env[b], !.url = v, !.pc = IF world.direct THEN "findbot" ELSE "findtoken",
                               !.dead = ~Accepts(env[b])]
<1>2. /\ DOMAIN q = Fields /\ q.token = env[b] /\ q.dead = ~Accepts(env[b]) /\ q.key = None /\ q.url = v
      /\ q.pc = (IF world.direct THEN "findbot" ELSE "findtoken") /\ q.conf = "none" /\ q.fate = "none"
  BY DEF Silent, Fields
<1>3. Put(c, q)
  BY <1>1
<1> HIDE DEF q
<1>4. DOMAIN call' = Calls /\ call'[c] = q /\ \A d \in Calls \ {c} : Own(d)'
  BY <1>3, OneCall
<1>5. env[b] \in issued
  BY <1>1 DEF Given
<1>v. v \in Vendors
  BY PipelineAssumption
<1>6. Bound(c)'
  BY <1>2, <1>4, <1>v DEF Bound
<1>7. Barred(c)'
  BY <1>2, <1>4, <1>5 DEF Barred, Accepts, KeyLive, vars
<1> QED
  BY <1>2, <1>4, <1>6, <1>7 DEF CallInv, Own, Call

LEMMA CallRefused ==
  ASSUME CallInv, UNCHANGED <<vars, world, index>>, NEW c \in Calls, Refuse(c),
         call[c].pc \in (Early \ {"idle"}) \cup {"list", "take"}, call[c].key = None
  PROVE  CallInv'
<1>1. /\ DOMAIN call' = Calls /\ \A d \in Calls \ {c} : Own(d)'
      /\ DOMAIN call'[c] = Fields /\ call'[c].pc = "refused"
      /\ \A f \in Fields \ {"pc"} : call'[c][f] = call[c][f]
  BY Moved DEF Refuse
<1>2. /\ call'[c].key = call[c].key /\ call'[c].url = call[c].url /\ call'[c].conf = call[c].conf /\ call'[c].fate = call[c].fate
      /\ call'[c].dead = call[c].dead
  BY <1>1 DEF Fields
<1>3. Bound(c)' /\ Barred(c)'
  BY <1>1, <1>2 DEF Bound, Barred, CallInv, Own, Early
<1> QED
  BY <1>1, <1>3 DEF CallInv, Own

LEMMA CallFindsToken ==
  ASSUME TInv, CallInv, UNCHANGED <<vars, world>>, NEW c \in Calls, FindToken(c)
  PROVE  CallInv'
<1> USE DEF TInv, TypeOK
<1>1. Own(c) /\ call[c].key = None /\ call[c].pc = "findtoken"
  BY DEF FindToken, In, CallInv, Own, Bound, Early
<1>2. CASE Refuse(c)
  BY <1>1, <1>2, CallRefused DEF FindToken, Early
<1>3. CASE \E b \in Bots : /\ tok[b] = [id |-> call[c].token, state |-> "valid"]
                           /\ Put(c, [call[c] EXCEPT !.bot = b, !.pc = "findkey"])
  <2>1. PICK b \in Bots : /\ tok[b] = [id |-> call[c].token, state |-> "valid"]
                          /\ Put(c, [call[c] EXCEPT !.bot = b, !.pc = "findkey"])
    BY <1>3
  <2> DEFINE q == [call[c] EXCEPT !.bot = b, !.pc = "findkey"]
  <2>2. /\ DOMAIN q = Fields /\ q.bot = b /\ q.pc = "findkey" /\ q.key = None /\ q.dead = call[c].dead
        /\ q.url = call[c].url /\ q.conf = call[c].conf /\ q.fate = call[c].fate
    BY <1>1 DEF Own, Fields
  <2>3. Put(c, q)
    BY <2>1
  <2> HIDE DEF q
  <2>4. DOMAIN call' = Calls /\ call'[c] = q /\ \A d \in Calls \ {c} : Own(d)'
    BY <2>3, OneCall
  <2>5. ~world.direct /\ call[c].dead => KeyFor[b] \notin keys
    BY <1>1, <2>1 DEF Own, Barred, Accepts, KeyLive
  <2>6. Barred(c)'
    BY <2>2, <2>4, <2>5 DEF Barred, vars
  <2>7. Bound(c)'
    BY <1>1, <2>2, <2>4 DEF Own, Bound, Early
  <2> QED
    BY <2>2, <2>4, <2>6, <2>7 DEF CallInv, Own, FindToken
<1> QED
  BY <1>2, <1>3 DEF FindToken

LEMMA CallFindsKey ==
  ASSUME TInv, CallInv, UNCHANGED <<vars, world>>, NEW c \in Calls, FindKey(c)
  PROVE  CallInv'
<1> USE DEF TInv, TypeOK
<1> DEFINE k == KeyFor[call[c].bot]
<1>1. Own(c) /\ call[c].key = None /\ call[c].pc = "findkey"
  BY DEF FindKey, In, CallInv, Own, Bound, Early
<1>2. CASE Refuse(c)
  BY <1>1, <1>2, CallRefused DEF FindKey, Early
<1>3. CASE k \in keys /\ Vendor[k] = call[c].url /\ Put(c, [call[c] EXCEPT !.key = k, !.conf = Vendor[k], !.pc = "route"])
  <2> DEFINE q == [call[c] EXCEPT !.key = k, !.conf = Vendor[k], !.pc = "route"]
  <2>1. /\ DOMAIN q = Fields /\ q.key = k /\ q.conf = Vendor[k] /\ q.pc = "route" /\ q.dead = call[c].dead
        /\ q.url = call[c].url /\ k = KeyFor[q.bot]
    BY <1>1 DEF Own, Fields
  <2>2. Put(c, q)
    BY <1>3
  <2>3. k \in Keys /\ k # None /\ Vendor[k] = call[c].url /\ call[c].url \in Vendors
    BY <1>1, <1>3, PipelineAssumption DEF Own, Bound
  <2> HIDE DEF q, k
  <2>4. DOMAIN call' = Calls /\ call'[c] = q /\ \A d \in Calls \ {c} : Own(d)'
    BY <2>2, OneCall
  <2>5. ~(~world.direct /\ call[c].dead)
    BY <1>1, <1>3 DEF Own, Barred, k
  <2>6. Barred(c)'
    BY <2>1, <2>4, <2>5 DEF Barred
  <2>7. Bound(c)'
    BY <2>1, <2>3, <2>4 DEF Bound, Early
  <2> QED
    BY <2>1, <2>4, <2>6, <2>7 DEF CallInv, Own, FindKey
<1> QED
  BY <1>2, <1>3 DEF FindKey

\* A call that is not barred stays so.
LEMMA NotBarred ==
  ASSUME CallInv, UNCHANGED <<vars, world>>, NEW c \in Calls,
         call[c].pc \notin {"refused", "findtoken", "findkey"}, call'[c].dead = call[c].dead
  PROVE  Barred(c)'
BY DEF CallInv, Own, Barred

LEMMA CallFindsBot ==
  ASSUME TInv, CallInv, UNCHANGED <<vars, world>>, NEW c \in Calls, FindBot(c)
  PROVE  CallInv'
<1>1. Own(c) /\ call[c].key = None /\ call[c].pc = "findbot"
  BY DEF FindBot, In, CallInv, Own, Bound, Early
<1>2. CASE Refuse(c)
  BY <1>1, <1>2, CallRefused DEF FindBot, Early
<1>3. CASE \E b \in Bots : Put(c, [call[c] EXCEPT !.bot = b, !.vendor = call[c].url, !.pc = "list",
                                                  !.tries = BotTags \o <<"default", "any">>])
  <2>1. PICK b \in Bots : Put(c, [call[c] EXCEPT !.bot = b, !.vendor = call[c].url, !.pc = "list",
                                                 !.tries = BotTags \o <<"default", "any">>])
    BY <1>3
  <2> DEFINE all == BotTags \o <<"default", "any">>
             q == [call[c] EXCEPT !.bot = b, !.vendor = call[c].url, !.pc = "list", !.tries = all]
  <2>2. all \in Seq(Classes) /\ Len(all) > 0
    <3>1. BotTags \in Seq(Classes)
      BY PipelineAssumption DEF Classes
    <3>2. <<"default", "any">> \in Seq(Classes) /\ Len(<<"default", "any">>) = 2
      BY DEF Classes
    <3> QED
      BY <3>1, <3>2
  <2>3. call[c].url \in Vendors
    BY <1>1 DEF Own, Bound
  <2> HIDE DEF all
  <2>4. /\ DOMAIN q = Fields /\ q.vendor = call[c].url /\ q.url = call[c].url /\ q.pc = "list" /\ q.tries = all /\ q.key = None
        /\ q.dead = call[c].dead /\ q.conf = call[c].conf /\ q.fate = call[c].fate
    BY <1>1 DEF Own, Fields
  <2>5. Put(c, q)
    BY <2>1 DEF all
  <2> HIDE DEF q
  <2>6. DOMAIN call' = Calls /\ call'[c] = q /\ \A d \in Calls \ {c} : Own(d)'
    BY <2>5, OneCall
  <2>7. Barred(c)'
    BY <1>1, <2>4, <2>6, NotBarred
  <2>8. Bound(c)'
    BY <1>1, <2>2, <2>3, <2>4, <2>6 DEF Own, Bound, Early
  <2> QED
    BY <2>4, <2>6, <2>7, <2>8 DEF CallInv, Own, FindBot
<1> QED
  BY <1>2, <1>3 DEF FindBot
\* A call goes on with the key it has.
LEMMA CallMoves ==
  ASSUME CallInv, UNCHANGED <<vars, world>>, index' \in [Caches -> Nat], NEW c \in Calls,
         NEW pc, Move(c, pc), call[c].pc \notin {"idle", "lost", "refused", "findtoken", "findkey"},
         pc \notin Early \cup {"route", "list", "take"}, pc = "send" => call[c].key # None
  PROVE  CallInv'
<1>1. /\ DOMAIN call' = Calls /\ \A d \in Calls \ {c} : Own(d)'
      /\ DOMAIN call'[c] = Fields /\ call'[c].pc = pc
      /\ \A f \in Fields \ {"pc"} : call'[c][f] = call[c][f]
  BY Moved
<1>2. /\ call'[c].key = call[c].key /\ call'[c].conf = call[c].conf /\ call'[c].fate = call[c].fate
      /\ call'[c].dead = call[c].dead /\ call'[c].vendor = call[c].vendor /\ call'[c].url = call[c].url
      /\ call'[c].bot = call[c].bot
  BY <1>1 DEF Fields
<1>3. Barred(c)'
  BY <1>2, NotBarred
<1>4. Bound(c)'
  BY <1>1, <1>2 DEF Bound, CallInv, Own
<1> QED
  BY <1>1, <1>3, <1>4 DEF CallInv, Own

LEMMA CallIsRouted ==
  ASSUME TInv, CallInv, UNCHANGED <<vars, world>>, NEW c \in Calls, Route(c)
  PROVE  CallInv'
<1>1. /\ Own(c) /\ call[c].pc = "route" /\ call[c].key # None
      /\ call[c].conf = call[c].url /\ Vendor[call[c].key] = call[c].url
  BY DEF Route, In, CallInv, Own, Bound
<1>2. CASE Move(c, "send")
  BY <1>1, <1>2, CallMoves DEF Route, CallInv, Early
<1>3. CASE /\ world.routing
           /\ \E k \in keys : Put(c, [call[c] EXCEPT !.vendor = Vendor[k], !.pc = "list",
                                                     !.tries = <<"default", "any">>])
  <2>1. PICK k \in keys : Put(c, [call[c] EXCEPT !.vendor = Vendor[k], !.pc = "list",
                                                 !.tries = <<"default", "any">>])
    BY <1>3
  <2> DEFINE q == [call[c] EXCEPT !.vendor = Vendor[k], !.pc = "list", !.tries = <<"default", "any">>]
  <2>2. <<"default", "any">> \in Seq(Classes) /\ Len(<<"default", "any">>) > 0
    BY DEF Classes
  <2>3. k \in Keys
    BY DEF TInv, TypeOK
  <2>4. /\ DOMAIN q = Fields /\ q.vendor = Vendor[k] /\ q.pc = "list" /\ q.tries = <<"default", "any">>
        /\ q.key = call[c].key /\ q.dead = call[c].dead /\ q.conf = call[c].conf /\ q.fate = call[c].fate
        /\ q.url = call[c].url /\ Vendor[k] # "none"
    BY <1>1, <2>3, PipelineAssumption DEF Own, Fields, Vendors
  <2>5. Put(c, q)
    BY <2>1
  <2> HIDE DEF q
  <2>6. DOMAIN call' = Calls /\ call'[c] = q /\ \A d \in Calls \ {c} : Own(d)'
    BY <2>5, OneCall
  <2>7. Barred(c)'
    BY <1>1, <2>4, <2>6, NotBarred
  <2>8. Bound(c)'
    BY <1>1, <1>3, <2>2, <2>3, <2>4, <2>6 DEF Own, Bound, Early, Vendors
  <2> QED
    BY <2>4, <2>6, <2>7, <2>8 DEF CallInv, Own, Route
<1> QED
  BY <1>2, <1>3 DEF Route

LEMMA CallGivesUpKey ==
  ASSUME CallInv, UNCHANGED <<vars, world>>, index' = index, NEW c \in Calls, NoKey(c),
         call[c].pc \in {"list", "take"}
  PROVE  CallInv'
<1>1. CASE call[c].key = None
  BY <1>1, CallRefused DEF NoKey
<1>2. CASE call[c].key # None
  BY <1>2, CallMoves DEF NoKey, CallInv, Early
<1> QED
  BY <1>1, <1>2

LEMMA CallLists ==
  ASSUME TInv, CallInv, UNCHANGED <<vars, world>>, NEW c \in Calls, ListKeys(c)
  PROVE  CallInv'
<1>1. Own(c) /\ call[c].pc = "list" /\ index' = index
  BY DEF ListKeys, In, CallInv, Own
<1>2. CASE NoKey(c)
  BY <1>1, <1>2, CallGivesUpKey
<1>3. CASE Listed(c) # {} /\ Put(c, [call[c] EXCEPT !.list = Listed(c), !.pc = "take"])
  <2> DEFINE q == [call[c] EXCEPT !.list = Listed(c), !.pc = "take"]
  <2>1. /\ DOMAIN q = Fields /\ q.list = Listed(c) /\ q.pc = "take" /\ q.key = call[c].key /\ q.dead = call[c].dead
        /\ q.conf = call[c].conf /\ q.fate = call[c].fate /\ q.vendor = call[c].vendor /\ q.tries = call[c].tries
        /\ q.url = call[c].url /\ q.bot = call[c].bot
    BY <1>1 DEF Own, Fields
  <2>2. Put(c, q)
    BY <1>3
  <2>3. Listed(c) \subseteq {k \in Keys : Vendor[k] = call[c].vendor}
    BY DEF Listed, Members, Cache, TInv, TypeOK
  <2> HIDE DEF q
  <2>4. DOMAIN call' = Calls /\ call'[c] = q /\ \A d \in Calls \ {c} : Own(d)'
    BY <2>2, OneCall
  <2>5. Barred(c)'
    BY <1>1, <2>1, <2>4, NotBarred
  <2>6. Bound(c)'
    BY <1>1, <1>3, <2>1, <2>3, <2>4 DEF Own, Bound, Early
  <2> QED
    BY <1>1, <2>1, <2>4, <2>5, <2>6 DEF CallInv, Own
<1>4. CASE Len(call[c].tries) > 1 /\ Put(c, [call[c] EXCEPT !.tries = Tail(@)])
  <2> DEFINE q == [call[c] EXCEPT !.tries = Tail(@)]
  <2>1. /\ DOMAIN q = Fields /\ q.tries = Tail(call[c].tries) /\ q.pc = "list" /\ q.key = call[c].key
        /\ q.dead = call[c].dead /\ q.conf = call[c].conf /\ q.fate = call[c].fate /\ q.vendor = call[c].vendor
        /\ q.url = call[c].url /\ q.bot = call[c].bot
    BY <1>1 DEF Own, Fields
  <2>2. Put(c, q)
    BY <1>4
  <2>3. Tail(call[c].tries) \in Seq(Classes) /\ Len(Tail(call[c].tries)) > 0
    BY <1>1, <1>4 DEF Own, Bound
  <2> HIDE DEF q
  <2>4. DOMAIN call' = Calls /\ call'[c] = q /\ \A d \in Calls \ {c} : Own(d)'
    BY <2>2, OneCall
  <2>5. Barred(c)'
    BY <1>1, <2>1, <2>4, NotBarred
  <2>6. Bound(c)'
    BY <1>1, <2>1, <2>3, <2>4 DEF Own, Bound, Early
  <2> QED
    BY <1>1, <2>1, <2>4, <2>5, <2>6 DEF CallInv, Own
<1> QED
  BY <1>2, <1>3, <1>4 DEF ListKeys

LEMMA TakesFromCache ==
  ASSUME CallInv, NEW c \in Calls, call[c].pc = "take"
  PROVE  Cache(c) \in Caches
<1>1. call[c].vendor \in Vendors /\ Head(call[c].tries) \in Classes
  BY DEF CallInv, Own, Bound
<1> QED
  BY <1>1 DEF Cache, Caches, Vendors, Classes

LEMMA CallTakesKey ==
  ASSUME TInv, CallInv, UNCHANGED <<vars, world>>, NEW c \in Calls, TakeKey(c)
  PROVE  CallInv'
<1> DEFINE k == Nth(call[c].list, index[Cache(c)] % Cardinality(call[c].list))
<1>1. Own(c) /\ call[c].pc = "take"
  BY DEF TakeKey, In, CallInv, Own
<1>2. Cache(c) \in Caches
  BY <1>1, TakesFromCache
<1>3. index' \in [Caches -> Nat]
  <2>1. index[Cache(c)] \in Nat
    BY <1>2 DEF CallInv
  <2>2. (index[Cache(c)] + 1) % Wrap \in Nat
    BY <2>1, PipelineAssumption
  <2> QED
    BY <2>2 DEF TakeKey, CallInv
<1>4. k \in Keys /\ Vendor[k] = call[c].vendor /\ k # None
  <2>1. IsFiniteSet(call[c].list) /\ call[c].list # {}
    BY <1>1, PipelineAssumption, FS_Subset DEF Own, Bound
  <2>2. Cardinality(call[c].list) \in Nat \ {0}
    BY <2>1, FS_CardinalityType, FS_EmptySet
  <2>3. index[Cache(c)] % Cardinality(call[c].list) \in 0 .. Cardinality(call[c].list) - 1
    BY <1>2, <2>2 DEF CallInv
  <2>4. k \in call[c].list
    BY <2>1, <2>3, NthIsListed
  <2> QED
    BY <1>1, <2>4, PipelineAssumption DEF Own, Bound
<1>5. CASE Put(c, [call[c] EXCEPT !.key = k, !.conf = IF @ = "none" THEN call[c].vendor ELSE @,
                                  !.list = {}, !.pc = IF call[c].key = None THEN "route" ELSE "send"])
  <2> DEFINE q == [call[c] EXCEPT !.key = k, !.conf = IF @ = "none" THEN call[c].vendor ELSE @,
                                  !.list = {}, !.pc = IF call[c].key = None THEN "route" ELSE "send"]
  <2>1. /\ DOMAIN q = Fields /\ q.key = k /\ q.dead = call[c].dead /\ q.vendor = call[c].vendor /\ q.url = call[c].url
        /\ q.conf = (IF call[c].conf = "none" THEN call[c].vendor ELSE call[c].conf)
        /\ q.pc = (IF call[c].key = None THEN "route" ELSE "send")
    BY <1>1 DEF Own, Fields
  <2>2. Put(c, q)
    BY <1>5
  <2> HIDE DEF q, k
  <2>3. DOMAIN call' = Calls /\ call'[c] = q /\ \A d \in Calls \ {c} : Own(d)'
    BY <2>2, OneCall
  <2>4. Barred(c)'
    BY <1>1, <2>1, <2>3, NotBarred
  <2>5. Bound(c)'
    <3>0. "none" \notin Vendors
      BY PipelineAssumption
    <3>1. CASE call[c].key = None
      BY <1>1, <1>4, <2>1, <2>3, <3>0, <3>1 DEF Own, Bound, Early
    <3>2. CASE call[c].key # None
      BY <1>1, <1>4, <2>1, <2>3, <3>0, <3>2 DEF Own, Bound, Early
    <3> QED
      BY <3>1, <3>2
  <2> QED
    BY <1>3, <2>1, <2>3, <2>4, <2>5 DEF CallInv, Own
<1>6. CASE NoKey(c)
  <2>1. CASE call[c].key # None
    BY <1>1, <1>3, <1>6, <2>1, CallMoves DEF NoKey, Early
  <2>2. CASE call[c].key = None
    <3>1. /\ DOMAIN call' = Calls /\ \A d \in Calls \ {c} : Own(d)'
          /\ DOMAIN call'[c] = Fields /\ call'[c].pc = "refused"
          /\ \A f \in Fields \ {"pc"} : call'[c][f] = call[c][f]
      BY <1>6, <2>2, Moved DEF NoKey, Refuse
    <3>2. /\ call'[c].key = None /\ call'[c].conf = call[c].conf /\ call'[c].fate = call[c].fate
          /\ call'[c].dead = call[c].dead /\ call'[c].url = call[c].url
      BY <2>2, <3>1 DEF Fields
    <3>3. Barred(c)' /\ Bound(c)'
      BY <1>1, <2>2, <3>1, <3>2, NotBarred DEF Own, Bound, Early
    <3> QED
      BY <1>3, <3>1, <3>3 DEF CallInv, Own
  <2> QED
    BY <2>1, <2>2
<1> QED
  BY <1>5, <1>6 DEF TakeKey
LEMMA CallIsSent ==
  ASSUME CallInv, UNCHANGED <<vars, world>>, NEW c \in Calls, Send(c)
  PROVE  CallInv'
<1>1. Own(c) /\ call[c].pc = "send" /\ call[c].key # None
  BY DEF Send, In, CallInv, Own, Bound
<1>2. PICK f \in Fates : Put(c, [call[c] EXCEPT !.fate = f, !.pc = "upstream"])
  BY DEF Send
<1> DEFINE q == [call[c] EXCEPT !.fate = f, !.pc = "upstream"]
<1>3. /\ DOMAIN q = Fields /\ q.pc = "upstream" /\ q.key = call[c].key /\ q.dead = call[c].dead
      /\ q.conf = call[c].conf /\ q.vendor = call[c].vendor /\ q.url = call[c].url /\ q.bot = call[c].bot
  BY <1>1 DEF Own, Fields
<1>4. Put(c, q)
  BY <1>2
<1> HIDE DEF q
<1>5. DOMAIN call' = Calls /\ call'[c] = q /\ \A d \in Calls \ {c} : Own(d)'
  BY <1>4, OneCall
<1>6. Barred(c)'
  BY <1>1, <1>3, <1>5, NotBarred
<1>7. Bound(c)'
  BY <1>1, <1>3, <1>5 DEF Own, Bound, Early
<1> QED
  BY <1>3, <1>5, <1>6, <1>7 DEF CallInv, Own, Send

\* What comes after the provider's answer.
LEMMA CallEnds ==
  ASSUME CallInv, UNCHANGED <<vars, world>>, NEW c \in Calls,
         \/ Answer(c) \/ Timeout(c) \/ LogUsage(c) \/ GetBot(c) \/ GiveUpCheck(c)
         \/ \E p \in Periods : ReadUsage(c, p) \/ LookForMessage(c, p) \/ SendMessage(c, p)
  PROVE  CallInv'
<1>1. index' = index /\ index \in [Caches -> Nat]
  BY DEF Answer, Timeout, LogUsage, GetBot, GiveUpCheck, ReadUsage, LookForMessage, SendMessage, CallInv
<1>2. call[c].pc \in {"upstream", "log", "getbot", "daily", "monthly", "lookdaily", "lookmonthly",
                      "telldaily", "tellmonthly"}
  BY DEF Answer, Timeout, LogUsage, GetBot, GiveUpCheck, ReadUsage, LookForMessage, SendMessage, In, Periods, Look, Tell
<1>3. CASE \E pc \in {"log", "getbot", "end", "daily", "lookmonthly", "telldaily", "tellmonthly"} : Move(c, pc)
  <2>1. PICK pc \in {"log", "getbot", "end", "daily", "lookmonthly", "telldaily", "tellmonthly"} : Move(c, pc)
    BY <1>3
  <2> QED
    BY <1>1, <1>2, <2>1, CallMoves DEF Early
<1>4. ASSUME NEW p \in Periods, ReadUsage(c, p)
      PROVE  CallInv'
  <2> DEFINE pc == IF p = "daily" THEN "monthly" ELSE "lookdaily"
             q == [call[c] EXCEPT !.usage[p] = Used(call[c].bot, p), !.pc = pc]
  <2>1. /\ DOMAIN q = Fields /\ q.pc = pc /\ q.key = call[c].key /\ q.dead = call[c].dead
        /\ q.conf = call[c].conf /\ q.vendor = call[c].vendor /\ q.fate = call[c].fate
        /\ q.url = call[c].url /\ q.bot = call[c].bot
    BY DEF CallInv, Own, Fields
  <2>2. Put(c, q)
    BY <1>4 DEF ReadUsage
  <2> HIDE DEF q
  <2>3. DOMAIN call' = Calls /\ call'[c] = q /\ \A d \in Calls \ {c} : Own(d)'
    BY <2>2, OneCall
  <2>4. Barred(c)'
    BY <1>2, <2>1, <2>3, NotBarred
  <2>5. Bound(c)'
    BY <1>2, <2>1, <2>3 DEF CallInv, Own, Bound, Early
  <2> QED
    BY <1>1, <2>1, <2>3, <2>4, <2>5 DEF CallInv, Own
<1>5. ASSUME NEW p \in Periods, LookForMessage(c, p) \/ SendMessage(c, p)
      PROVE  \E pc \in {"end", "lookmonthly", "telldaily", "tellmonthly"} : Move(c, pc)
  BY <1>5 DEF LookForMessage, SendMessage, Periods, After, Look, Tell
<1>6. Answer(c) \/ Timeout(c) \/ LogUsage(c) \/ GetBot(c) \/ GiveUpCheck(c)
        => \E pc \in {"log", "getbot", "end", "daily"} : Move(c, pc)
  BY DEF Answer, Timeout, LogUsage, GetBot, GiveUpCheck
<1> QED
  BY <1>3, <1>4, <1>5, <1>6

LEMMA CallsKept ==
  ASSUME TInv, TInv', Given, CallInv, [PipelineNext /\ UNCHANGED world]_<<vars, callVars, world>>
  PROVE  CallInv'
<1>1. CASE UNCHANGED <<vars, callVars, world>>
  BY <1>1 DEF vars, callVars, CallInv, Own, Barred, Bound, Accepts, KeyLive
<1>2. CASE Midnight /\ UNCHANGED world
  BY <1>2 DEF Midnight, vars, CallInv, Own, Barred, Bound, Accepts, KeyLive
<1>3. CASE TokenStep /\ UNCHANGED world
  BY <1>3, CallsSeeTokens
<1>4. ASSUME NEW c \in Calls, UNCHANGED <<vars, world>>, Call(c) \/ CallStep(c) \/ GiveUpCheck(c)
      PROVE  CallInv'
  BY <1>4, CallEnters, CallFindsToken, CallFindsKey, CallFindsBot, CallIsRouted, CallLists, CallTakesKey,
     CallIsSent, CallEnds DEF CallStep
<1> QED
  BY <1>1, <1>2, <1>3, <1>4, CallsAreLost DEF PipelineNext

\* A provider's key goes out only for a call whose token was accepted when it
\* came in, with the configuration of the vendor whose address was called, and is
\* a key of that vendor or of the one the call was routed to; a bot's own key
\* unless a list was read. This for any keys, vendors, bots, calls and requests,
\* whatever is registered, revoked, deleted or lost in a crash between the queries
\* of the call. (Whose the keys of a list are nobody asks.)
THEOREM KeysStayHome == PipelineSpec => []KeysGoWhereTheyMay
<1>1. PipelineInit => Given /\ CallInv
  BY GivenAtFirst, CallAtFirst DEF PipelineInit
<1>2. [PipelineNext /\ UNCHANGED world]_<<vars, callVars, world>> => [Next /\ UNCHANGED world]_<<vars, world>>
  BY DEF PipelineNext, TokenStep, Midnight, Next
<1>3. TInv /\ TInv' /\ Given /\ CallInv /\ [PipelineNext /\ UNCHANGED world]_<<vars, callVars, world>>
        => Given' /\ CallInv'
  BY <1>2, GivenKept, CallsKept
<1>4. CallInv => KeysGoWhereTheyMay
  BY DEF CallInv, Own, Barred, Bound, KeysGoWhereTheyMay, DeadTokenGetsNoKey, KeyMatchesVendor, Sent
<1> QED
  BY <1>1, <1>3, <1>4, TokensAsSpecified, Types, PTL DEF PipelineSpec
-----------------------------------------------------------------------------
(* The usage log                                                           *)

Unlogged == Early \cup {"route", "list", "take", "send", "upstream", "log"}
Checked == {"getbot", "daily", "monthly", "lookdaily", "lookmonthly", "telldaily", "tellmonthly", "end"}

\* A call has no row until it is logged, and one with its key from then on.
Entered(c) ==
  /\ call[c].pc \in Unlogged => log[c].rows = 0
  /\ call[c].pc \in Checked => log[c].rows = 1 /\ log[c].key = call[c].key

LogInv == DOMAIN log = Calls /\ (~Faults => \A c \in Calls : Entered(c))

\* Up to the provider's answer nothing is logged.
LEMMA NotYetLogged ==
  ASSUME CallInv, UNCHANGED <<vars, world>>, NEW c \in Calls,
         \/ Call(c) \/ FindToken(c) \/ FindKey(c) \/ FindBot(c) \/ Route(c) \/ ListKeys(c) \/ TakeKey(c)
         \/ Send(c) \/ Answer(c) \/ Timeout(c)
  PROVE  /\ log' = log /\ call[c].pc \in Unlogged /\ call'[c].pc \in Unlogged \cup {"refused"}
         /\ \A d \in Calls \ {c} : call'[d] = call[d]
<1> DEFINE Forward == /\ call'[c].pc \in Unlogged \cup {"refused"}
                    /\ \A d \in Calls \ {c} : call'[d] = call[d]
<1>0. DOMAIN call = Calls /\ DOMAIN call[c] = Fields
  BY DEF CallInv, Own
<1>1. log' = log
  BY DEF Call, FindToken, FindKey, FindBot, Route, ListKeys, TakeKey, Send, Answer, Timeout
<1>2. call[c].pc \in Unlogged
  BY DEF Call, FindToken, FindKey, FindBot, Route, ListKeys, TakeKey, Send, Answer, Timeout, In, Unlogged, Early
<1> SUFFICES Forward
  BY <1>1, <1>2
<1>3. ASSUME NEW pc \in Unlogged \cup {"refused"}, Move(c, pc)
      PROVE  Forward
  BY <1>0, <1>3 DEF Move, Put, Fields
<1>4. Refuse(c) => Forward
  BY <1>3 DEF Refuse
<1>5. NoKey(c) => Forward
  BY <1>3, <1>4 DEF NoKey, Unlogged
<1>6. CASE Call(c)
  <2>1. PICK b \in Bots, v \in world.urls :
          Put(c, [Silent EXCEPT !.token = env[b], !.url = v, !.pc = IF world.direct THEN "findbot" ELSE "findtoken",
                                !.dead = ~Accepts(env[b])])
    BY <1>6 DEF Call
  <2> DEFINE q == [Silent EXCEPT !.token = env[b], !.url = v, !.pc = IF world.direct THEN "findbot" ELSE "findtoken",
                                 !.dead = ~Accepts(env[b])]
  <2>2. q.pc \in Unlogged
    BY DEF Silent, Unlogged, Early
  <2>3. Put(c, q)
    BY <2>1
  <2> HIDE DEF q
  <2> QED
    BY <1>0, <2>2, <2>3 DEF Put
<1>7. CASE FindToken(c)
  BY <1>0, <1>4, <1>7 DEF FindToken, Put, Fields, Unlogged, Early
<1>8. CASE FindKey(c)
  BY <1>0, <1>4, <1>8 DEF FindKey, Put, Fields, Unlogged
<1>9. CASE FindBot(c)
  BY <1>0, <1>4, <1>9 DEF FindBot, Put, Fields, Unlogged
<1>10. CASE Route(c)
  <2>1. CASE Move(c, "send")
    BY <1>3, <2>1 DEF Unlogged
  <2>2. CASE \E k \in keys : Put(c, [call[c] EXCEPT !.vendor = Vendor[k], !.pc = "list",
                                                    !.tries = <<"default", "any">>])
    BY <1>0, <2>2 DEF Put, Fields, Unlogged
  <2> QED
    BY <1>10, <2>1, <2>2 DEF Route
<1>11. CASE ListKeys(c)
  <2>1. CASE Put(c, [call[c] EXCEPT !.list = Listed(c), !.pc = "take"])
    BY <1>0, <2>1 DEF Put, Fields, Unlogged
  <2>2. CASE Put(c, [call[c] EXCEPT !.tries = Tail(@)])
    BY <1>0, <1>2, <2>2 DEF Put, Fields
  <2> QED
    BY <1>5, <1>11, <2>1, <2>2 DEF ListKeys
<1>12. CASE TakeKey(c)
  <2>1. CASE \E k, f : Put(c, [call[c] EXCEPT !.key = k, !.conf = f, !.list = {},
                                              !.pc = IF call[c].key = None THEN "route" ELSE "send"])
    BY <1>0, <2>1 DEF Put, Fields, Unlogged
  <2>2. NoKey(c) \/ \E k, f : Put(c, [call[c] EXCEPT !.key = k, !.conf = f, !.list = {},
                                              !.pc = IF call[c].key = None THEN "route" ELSE "send"])
    BY <1>12 DEF TakeKey
  <2> QED
    BY <1>5, <2>1, <2>2
<1>13. CASE Send(c)
  BY <1>0, <1>13 DEF Send, Put, Fields, Unlogged
<1>14. CASE Answer(c) \/ Timeout(c)
  BY <1>3, <1>14 DEF Answer, Timeout, Unlogged
<1> QED
  BY <1>6, <1>7, <1>8, <1>9, <1>10, <1>11, <1>12, <1>13, <1>14

\* After it, the check of the quota leaves row and key alone.
LEMMA LoggedForGood ==
  ASSUME CallInv, UNCHANGED <<vars, world>>, NEW c \in Calls,
         \/ GetBot(c) \/ GiveUpCheck(c)
         \/ \E p \in Periods : ReadUsage(c, p) \/ LookForMessage(c, p) \/ SendMessage(c, p)
  PROVE  /\ log' = log /\ call[c].pc \in Checked \ {"end"} /\ call'[c].pc \in Checked
         /\ call'[c].key = call[c].key /\ call'[c].bot = call[c].bot
         /\ \A d \in Calls \ {c} : call'[d] = call[d]
<1> DEFINE Forward == /\ call'[c].pc \in Checked /\ call'[c].key = call[c].key /\ call'[c].bot = call[c].bot
                    /\ \A d \in Calls \ {c} : call'[d] = call[d]
<1>0. DOMAIN call = Calls /\ DOMAIN call[c] = Fields
  BY DEF CallInv, Own
<1>1. log' = log
  BY DEF GetBot, GiveUpCheck, ReadUsage, LookForMessage, SendMessage
<1>2. call[c].pc \in Checked \ {"end"}
  BY DEF GetBot, GiveUpCheck, ReadUsage, LookForMessage, SendMessage, In, Periods, Look, Tell, Checked
<1> SUFFICES Forward
  BY <1>1, <1>2
<1>3. ASSUME NEW pc \in Checked, Move(c, pc)
      PROVE  Forward
  BY <1>0, <1>3 DEF Move, Put, Fields
<1>4. CASE GetBot(c) \/ GiveUpCheck(c)
  BY <1>3, <1>4 DEF GetBot, GiveUpCheck, Checked
<1>5. ASSUME NEW p \in Periods, ReadUsage(c, p)
      PROVE  Forward
  BY <1>0, <1>5 DEF ReadUsage, Put, Fields, Checked
<1>6. ASSUME NEW p \in Periods, LookForMessage(c, p) \/ SendMessage(c, p)
      PROVE  Forward
  BY <1>3, <1>6 DEF LookForMessage, SendMessage, Periods, After, Look, Tell, Checked
<1> QED
  BY <1>4, <1>5, <1>6

LEMMA LogKept ==
  ASSUME CallInv, LogInv, [PipelineNext /\ UNCHANGED world]_<<vars, callVars, world>>
  PROVE  LogInv'
<1>1. CASE UNCHANGED <<call, log, world>>
  BY <1>1 DEF LogInv, Entered, Faults
<1>2. ASSUME NEW c \in Calls, UNCHANGED <<vars, world>>, Call(c) \/ CallStep(c) \/ GiveUpCheck(c)
      PROVE  LogInv'
  <2>1. CASE \/ Call(c) \/ FindToken(c) \/ FindKey(c) \/ FindBot(c) \/ Route(c) \/ ListKeys(c) \/ TakeKey(c)
             \/ Send(c) \/ Answer(c) \/ Timeout(c)
    <3>1. /\ log' = log /\ call[c].pc \in Unlogged /\ call'[c].pc \in Unlogged \cup {"refused"}
          /\ \A d \in Calls \ {c} : call'[d] = call[d]
      BY <1>2, <2>1, NotYetLogged
    <3>2. call'[c].pc \notin Checked
      BY <3>1 DEF Unlogged, Checked, Early
    <3> QED
      BY <1>2, <3>1, <3>2 DEF LogInv, Entered, Faults
  <2>2. CASE \/ GetBot(c) \/ GiveUpCheck(c)
             \/ \E p \in Periods : ReadUsage(c, p) \/ LookForMessage(c, p) \/ SendMessage(c, p)
    <3>1. /\ log' = log /\ call[c].pc \in Checked /\ call'[c].pc \in Checked /\ call'[c].key = call[c].key
          /\ \A d \in Calls \ {c} : call'[d] = call[d]
      BY <1>2, <2>2, LoggedForGood
    <3>2. call'[c].pc \notin Unlogged
      BY <3>1 DEF Unlogged, Checked, Early
    <3> QED
      BY <1>2, <3>1, <3>2 DEF LogInv, Entered, Faults
  <2>3. CASE LogUsage(c)
    <3>1. DOMAIN call = Calls /\ DOMAIN call[c] = Fields
      BY DEF CallInv, Own
    <3>2. /\ call[c].pc = "log" /\ call'[c].pc \in {"getbot", "end"} /\ call'[c].key = call[c].key
          /\ \A d \in Calls \ {c} : call'[d] = call[d]
      BY <2>3, <3>1 DEF LogUsage, In, Move, Put, Fields
    <3>3. CASE Faults
      BY <1>2, <2>3, <3>3 DEF LogUsage, Row, LogInv, Faults
    <3>4. CASE ~Faults
      <4>1. log' = Row(c) /\ log[c].rows = 0
        BY <2>3, <3>2, <3>4 DEF LogUsage, LogInv, Entered, Unlogged
      <4>2. /\ DOMAIN log' = Calls /\ log'[c].rows = 1 /\ log'[c].key = call[c].key
            /\ \A d \in Calls \ {c} : log'[d] = log[d]
        BY <4>1 DEF Row, LogInv
      <4> QED
        BY <3>2, <3>4, <4>2 DEF LogInv, Entered, Unlogged, Early
    <3> QED
      BY <3>3, <3>4
  <2> QED
    BY <1>2, <2>1, <2>2, <2>3 DEF CallStep
<1>3. ASSUME LoseCalls, UNCHANGED world
      PROVE  LogInv'
  <2>1. log' = log
    BY <1>3 DEF LoseCalls
  <2>2. \A c \in Calls : call'[c] = call[c] \/ call'[c].pc = "lost"
    BY <1>3, LostOrOver
  <2> QED
    BY <1>3, <2>1, <2>2 DEF LogInv, Entered, Faults, Unlogged, Checked, Early
<1> QED
  BY <1>1, <1>2, <1>3 DEF PipelineNext, TokenStep, Midnight, callVars

\* Every call that was forwarded is logged exactly once with the key it went
\* out with, whatever the provider makes of it, for any number of calls, unless
\* the process died with it.
THEOREM EveryCallIsLogged == PipelineSpec => []ForwardedIsLogged
<1>1. PipelineInit => Given /\ CallInv
  BY GivenAtFirst, CallAtFirst DEF PipelineInit
<1>2. PipelineInit => LogInv
  BY DEF PipelineInit, LogInv, Entered, Silent, Checked
<1>3. [PipelineNext /\ UNCHANGED world]_<<vars, callVars, world>> => [Next /\ UNCHANGED world]_<<vars, world>>
  BY DEF PipelineNext, TokenStep, Midnight, Next
<1>4. TInv /\ TInv' /\ Given /\ CallInv /\ [PipelineNext /\ UNCHANGED world]_<<vars, callVars, world>>
        => Given' /\ CallInv'
  BY <1>3, GivenKept, CallsKept
<1>5. CallInv /\ LogInv /\ [PipelineNext /\ UNCHANGED world]_<<vars, callVars, world>> => LogInv'
  BY LogKept
<1>6. LogInv => ForwardedIsLogged
  BY DEF LogInv, Entered, Checked, ForwardedIsLogged, In
<1> QED
  BY <1>1, <1>2, <1>4, <1>5, <1>6, TokensAsSpecified, Types, PTL DEF PipelineSpec

-----------------------------------------------------------------------------
(* Types, and the whole of what tokens promise                             *)

Typed(c) == call[c].pc \in Places /\ call[c].bot \in Bots \cup {None} /\ call[c].list \subseteq Keys

Bookkeeping ==
  /\ index \in [Caches -> 0 .. Wrap - 1] /\ day \in Days
  /\ sent \subseteq {"exceeded", "warning"} \X (Bots \cup {None}) \X Periods \X Days
  /\ DOMAIN log = Calls
  /\ \A c \in Calls : log[c].key \in Keys \cup {None} /\ log[c].bot \in Bots \cup {None} /\ log[c].rows \in Nat

CallTypes == Bookkeeping /\ \A c \in Calls : Typed(c)

\* A call stays in its places, and what it finds are bots and keys.
LEMMA StepTyped ==
  ASSUME TInv, CallInv, CallTypes, NEW c \in Calls, Call(c) \/ CallStep(c) \/ GiveUpCheck(c)
  PROVE  Typed(c)' /\ \A d \in Calls \ {c} : call'[d] = call[d]
<1> DEFINE Forward == Typed(c)' /\ \A d \in Calls \ {c} : call'[d] = call[d]
<1> SUFFICES Forward
  OBVIOUS
<1>0. DOMAIN call = Calls /\ DOMAIN call[c] = Fields /\ Typed(c) /\ keys \subseteq Keys
  BY DEF CallInv, Own, CallTypes, TInv, TypeOK
<1>1. ASSUME NEW pc \in Places, Move(c, pc)
      PROVE  Forward
  BY <1>0, <1>1 DEF Move, Put, Fields, Typed
<1>2. /\ {"refused", "send", "log", "end", "getbot", "daily", "monthly", "lookdaily", "lookmonthly",
           "telldaily", "tellmonthly"} \subseteq Places
      /\ {"findtoken", "findbot", "findkey", "route", "list", "take", "upstream"} \subseteq Places
  <2>1. /\ Look["daily"] = "lookdaily" /\ Look["monthly"] = "lookmonthly"
        /\ Tell["daily"] = "telldaily" /\ Tell["monthly"] = "tellmonthly"
        /\ "daily" \in Periods /\ "monthly" \in Periods
    BY DEF Look, Tell, Periods
  <2> QED
    BY <2>1 DEF Places, Over, Periods
<1>3. Refuse(c) \/ NoKey(c) => Forward
  BY <1>1, <1>2 DEF Refuse, NoKey
<1>4. CASE Call(c)
  <2>1. PICK b \in Bots, v \in world.urls :
          Put(c, [Silent EXCEPT !.token = env[b], !.url = v, !.pc = IF world.direct THEN "findbot" ELSE "findtoken",
                                !.dead = ~Accepts(env[b])])
    BY <1>4 DEF Call
  <2> DEFINE q == [Silent EXCEPT !.token = env[b], !.url = v, !.pc = IF world.direct THEN "findbot" ELSE "findtoken",
                                 !.dead = ~Accepts(env[b])]
  <2>2. q.pc \in {"findbot", "findtoken"} /\ q.bot = None /\ q.list = {}
    BY DEF Silent
  <2>3. Put(c, q)
    BY <2>1
  <2> HIDE DEF q
  <2> QED
    BY <1>0, <1>2, <2>2, <2>3 DEF Put, Typed
<1>5. CASE FindToken(c) \/ FindKey(c) \/ FindBot(c)
  <2>1. CASE \E b \in Bots : Put(c, [call[c] EXCEPT !.bot = b, !.pc = "findkey"])
    BY <1>0, <1>2, <2>1 DEF Put, Fields, Typed
  <2>2. CASE \E k, v : Put(c, [call[c] EXCEPT !.key = k, !.conf = v, !.pc = "route"])
    BY <1>0, <1>2, <2>2 DEF Put, Fields, Typed
  <2>3. CASE \E b \in Bots : \E v, t : Put(c, [call[c] EXCEPT !.bot = b, !.vendor = v, !.pc = "list", !.tries = t])
    BY <1>0, <1>2, <2>3 DEF Put, Fields, Typed
  <2> QED
    BY <1>3, <1>5, <2>1, <2>2, <2>3 DEF FindToken, FindKey, FindBot
<1>6. CASE Route(c)
  <2>1. CASE \E v, t : Put(c, [call[c] EXCEPT !.vendor = v, !.pc = "list", !.tries = t])
    BY <1>0, <1>2, <2>1 DEF Put, Fields, Typed
  <2> QED
    BY <1>1, <1>2, <1>6, <2>1 DEF Route
<1>7. CASE ListKeys(c)
  <2>1. CASE Put(c, [call[c] EXCEPT !.list = Listed(c), !.pc = "take"])
    <3>1. Listed(c) \subseteq Keys
      BY <1>0 DEF Listed, Members
    <3> QED
      BY <1>0, <1>2, <2>1, <3>1 DEF Put, Fields, Typed
  <2>2. CASE \E t : Put(c, [call[c] EXCEPT !.tries = t])
    BY <1>0, <2>2 DEF Put, Fields, Typed
  <2> QED
    BY <1>3, <1>7, <2>1, <2>2 DEF ListKeys
<1>8. CASE TakeKey(c)
  <2>1. CASE \E k, v : Put(c, [call[c] EXCEPT !.key = k, !.conf = v, !.list = {},
                                              !.pc = IF call[c].key = None THEN "route" ELSE "send"])
    BY <1>0, <1>2, <2>1 DEF Put, Fields, Typed
  <2>2. NoKey(c) \/ \E k, v : Put(c, [call[c] EXCEPT !.key = k, !.conf = v, !.list = {},
                                                     !.pc = IF call[c].key = None THEN "route" ELSE "send"])
    BY <1>8 DEF TakeKey
  <2> QED
    BY <1>3, <2>1, <2>2
<1>9. CASE Send(c)
  <2>1. CASE \E f : Put(c, [call[c] EXCEPT !.fate = f, !.pc = "upstream"])
    BY <1>0, <1>2, <2>1 DEF Put, Fields, Typed
  <2> QED
    BY <1>9, <2>1 DEF Send
<1>10. CASE Answer(c) \/ Timeout(c) \/ LogUsage(c) \/ GetBot(c) \/ GiveUpCheck(c)
  BY <1>1, <1>2, <1>10 DEF Answer, Timeout, LogUsage, GetBot, GiveUpCheck
<1>11. ASSUME NEW p \in Periods, ReadUsage(c, p)
       PROVE  Forward
  BY <1>0, <1>2, <1>11 DEF ReadUsage, Put, Fields, Typed
<1>12. ASSUME NEW p \in Periods, LookForMessage(c, p) \/ SendMessage(c, p)
       PROVE  Forward
  BY <1>1, <1>2, <1>12 DEF LookForMessage, SendMessage, Periods, After, Look, Tell
<1> QED
  BY <1>4, <1>5, <1>6, <1>7, <1>8, <1>9, <1>10, <1>11, <1>12 DEF CallStep

LEMMA StepKeepsBooks ==
  ASSUME CallInv, CallTypes, NEW c \in Calls, Call(c) \/ CallStep(c) \/ GiveUpCheck(c)
  PROVE  Bookkeeping'
<1> USE DEF CallTypes, Bookkeeping
<1>1. CASE TakeKey(c)
  <2>1. Cache(c) \in Caches
    BY <1>1, TakesFromCache DEF TakeKey, In
  <2>2. index[Cache(c)] \in Nat /\ (index[Cache(c)] + 1) % Wrap \in 0 .. Wrap - 1
    <3>1. index[Cache(c)] \in Nat
      BY <2>1, PipelineAssumption
    <3> QED
      BY <3>1, PipelineAssumption
  <2>3. index' \in [Caches -> 0 .. Wrap - 1]
    BY <1>1, <2>2 DEF TakeKey
  <2> QED
    BY <1>1, <2>3 DEF TakeKey
<1>2. CASE LogUsage(c)
  <2>1. UNCHANGED <<index, sent, day>>
    BY <1>2 DEF LogUsage
  <2>2. CASE log' = Row(c)
    <3>1. /\ DOMAIN log' = Calls /\ log'[c].rows = log[c].rows + 1 /\ log'[c].key = call[c].key
          /\ log'[c].bot = call[c].bot /\ \A d \in Calls \ {c} : log'[d] = log[d]
      BY <2>2 DEF Row
    <3>2. call[c].key \in Keys \cup {None} /\ call[c].bot \in Bots \cup {None}
      BY DEF CallInv, Own, Bound, Typed
    <3> QED
      BY <2>1, <3>1, <3>2
  <2> QED
    BY <1>2, <2>1, <2>2 DEF LogUsage
<1>3. ASSUME NEW p \in Periods, SendMessage(c, p)
      PROVE  Bookkeeping'
  <2>1. Key(c, p) \in {"exceeded", "warning"} \X (Bots \cup {None}) \X Periods \X Days
    BY DEF Key, Kind, Typed, Days
  <2> QED
    BY <1>3, <2>1 DEF SendMessage
<1>4. UNCHANGED <<index, sent, day, log>> => Bookkeeping'
  OBVIOUS
<1> QED
  BY <1>1, <1>2, <1>3, <1>4 DEF CallStep, Call, FindToken, FindKey, FindBot, Route, ListKeys, Send, Answer,
     Timeout, GetBot, GiveUpCheck, ReadUsage, LookForMessage

LEMMA CallTypesKept ==
  ASSUME TInv, CallInv, CallTypes, [PipelineNext /\ UNCHANGED world]_<<vars, callVars, world>>
  PROVE  CallTypes'
<1>1. CASE UNCHANGED <<call, index, log, sent>> /\ day' \in Days
  BY <1>1 DEF CallTypes, Bookkeeping, Typed
<1>2. ASSUME NEW c \in Calls, Call(c) \/ CallStep(c) \/ GiveUpCheck(c)
      PROVE  CallTypes'
  BY <1>2, StepTyped, StepKeepsBooks DEF CallTypes, Typed
<1>3. ASSUME LoseCalls
      PROVE  CallTypes'
  <2>1. index' = [x \in Caches |-> 0] /\ UNCHANGED <<log, sent, day>>
    BY <1>3 DEF LoseCalls
  <2>2. 0 \in 0 .. Wrap - 1
    BY PipelineAssumption
  <2>3. \A c \in Calls : Typed(c)'
    BY <1>3, LostOrOver DEF CallTypes, Typed, Places, Over
  <2> QED
    BY <2>1, <2>2, <2>3 DEF CallTypes, Bookkeeping
<1> QED
  BY <1>1, <1>2, <1>3 DEF PipelineNext, TokenStep, Midnight, callVars, CallTypes, Bookkeeping, Days

\* The first calls are silent ones.
LEMMA CallTypesAtFirst == ASSUME PipelineInit PROVE CallTypes
<1>1. Silent.pc = "idle" /\ Silent.bot = None /\ Silent.list = {}
  BY DEF Silent
<1>2. Bookkeeping
  BY PipelineAssumption DEF PipelineInit, Bookkeeping, Days
<1> QED
  BY <1>1, <1>2 DEF PipelineInit, CallTypes, Typed, Places, Over

\* With calls going on all the time, what a token's row, a container and the
\* Bot table say agrees, for any bots, keys, tokens and calls; and every
\* variable of the proxy keeps its type.
THEOREM TokensFollow == PipelineSpec => []TokensFollowBots
<1>1. PipelineInit => Given /\ CallInv
  BY GivenAtFirst, CallAtFirst DEF PipelineInit
<1>2. PipelineInit => CallTypes
  BY CallTypesAtFirst
<1>3. [PipelineNext /\ UNCHANGED world]_<<vars, callVars, world>> => [Next /\ UNCHANGED world]_<<vars, world>>
  BY DEF PipelineNext, TokenStep, Midnight, Next
<1>4. TInv /\ TInv' /\ Given /\ CallInv /\ [PipelineNext /\ UNCHANGED world]_<<vars, callVars, world>>
        => Given' /\ CallInv'
  BY <1>3, GivenKept, CallsKept
<1>5. TInv /\ CallInv /\ CallTypes /\ [PipelineNext /\ UNCHANGED world]_<<vars, callVars, world>> => CallTypes'
  BY CallTypesKept
<1>6. TInv /\ CallInv /\ CallTypes => PipelineTypeOK
  BY DEF TInv, CallInv, Own, Bound, CallTypes, Bookkeeping, Typed, PipelineTypeOK, Sent
<1>7. PipelineTypeOK /\ NoTokenAfterDelete /\ ContainerTokenIsCurrent => TokensFollowBots
  BY DEF TokensFollowBots
<1> QED
  BY <1>1, <1>2, <1>4, <1>5, <1>6, <1>7, TokensAsSpecified, Types, DeletedHasNoToken,
     ContainersHoldCurrentTokens, PTL DEF PipelineSpec
-----------------------------------------------------------------------------
(* Keys take turns                                                         *)

\* The list of a set of keys names every key of it once.
LEMMA NthIsOnto ==
  ASSUME NEW S, IsFiniteSet(S)
  PROVE  /\ \A k \in S : \E i \in 0 .. Cardinality(S) - 1 : Nth(S, i) = k
         /\ \A i, j \in 0 .. Cardinality(S) - 1 : Nth(S, i) = Nth(S, j) => i = j
<1> DEFINE n == Cardinality(S)
           g == SetToSeq(S)
<1>1. n \in Nat
  BY FS_CardinalityType
<1>2. \E f \in [1 .. n -> S] : IsInjective(f)
  <2>1. PICK f : f \in Bijection(1 .. n, S)
    BY FS_CardinalityType DEF ExistsBijection
  <2> QED
    BY <2>1 DEF Bijection, Injection, IsInjective
<1>3. g \in [1 .. n -> S] /\ IsInjective(g)
  BY <1>2 DEF SetToSeq
<1> HIDE DEF g
<1>4. ASSUME NEW k \in S, \A i \in 1 .. n : g[i] # k
      PROVE  FALSE
  <2>1. IsFiniteSet(S \ {k}) /\ Cardinality(S \ {k}) = n - 1
    BY FS_RemoveElement
  <2>2. IsFiniteSet(1 .. n) /\ Cardinality(1 .. n) = n
    BY <1>1, FS_Interval
  <2>3. g \in [1 .. n -> S \ {k}]
    BY <1>3, <1>4
  <2>4. \E i, j \in 1 .. n : i # j /\ g[i] = g[j]
    BY <1>1, <2>1, <2>2, <2>3, FS_PigeonHole
  <2> QED
    BY <1>3, <2>4 DEF IsInjective
<1>5. \A k \in S : \E i \in 0 .. n - 1 : Nth(S, i) = k
  <2> SUFFICES ASSUME NEW k \in S
               PROVE  \E i \in 0 .. n - 1 : Nth(S, i) = k
    OBVIOUS
  <2>1. PICK j \in 1 .. n : g[j] = k
    BY <1>4
  <2>2. j - 1 \in 0 .. n - 1 /\ (j - 1) + 1 = j
    BY <1>1
  <2>3. Nth(S, j - 1) = g[(j - 1) + 1]
    BY DEF Nth, g
  <2> QED
    BY <2>1, <2>2, <2>3
<1>6. \A i, j \in 0 .. n - 1 : Nth(S, i) = Nth(S, j) => i = j
  <2> SUFFICES ASSUME NEW i \in 0 .. n - 1, NEW j \in 0 .. n - 1, Nth(S, i) = Nth(S, j)
               PROVE  i = j
    OBVIOUS
  <2>1. g[i + 1] = g[j + 1]
    BY DEF Nth, g
  <2>2. i + 1 \in 1 .. n /\ j + 1 \in 1 .. n
    BY <1>1
  <2>3. i + 1 = j + 1
    BY <1>3, <2>1, <2>2 DEF IsInjective
  <2> QED
    BY <1>1, <2>3
<1> QED
  BY <1>5, <1>6

LEMMA Division ==
  ASSUME NEW n \in Nat, n > 0, NEW v \in Nat
  PROVE  v = n * (v \div n) + (v % n)
OBVIOUS

\* The remainder is the one number below n that is left.
LEMMA Remainder ==
  ASSUME NEW n \in Nat \ {0}, NEW v \in Nat
  PROVE  v % n \in 0 .. n - 1 /\ \E d \in Nat : v = n * d + (v % n)
<1>1. v % n \in 0 .. n - 1
  OBVIOUS
<1>2. v \div n \in Nat
  OBVIOUS
<1>3. v = n * (v \div n) + (v % n)
  BY Division
<1> QED
  BY <1>1, <1>2, <1>3

LEMMA RemainderIsOne ==
  ASSUME NEW n \in Nat \ {0}, NEW d \in Nat, NEW r \in 0 .. n - 1
  PROVE  (n * d + r) % n = r
<1>1. n * d + r \in Nat
  OBVIOUS
<1>2. PICK e \in Nat : n * d + r = n * e + ((n * d + r) % n)
  BY <1>1, Remainder
<1> DEFINE s == (n * d + r) % n
<1>3. s \in 0 .. n - 1
  BY <1>1, Remainder
<1> HIDE DEF s
<1>4. n * (d - e) = s - r
  <2>1. n * (d - e) = n * d - n * e
    OBVIOUS
  <2>2. n * d \in Nat /\ n * e \in Nat
    OBVIOUS
  <2>3. n * d + r = n * e + s
    BY <1>2 DEF s
  <2> QED
    BY <1>3, <2>1, <2>2, <2>3
<1>5. d - e = 0
  <2>1. ASSUME d - e >= 1 PROVE n * (d - e) >= n
    BY <2>1
  <2>2. ASSUME d - e <= 0 - 1 PROVE n * (d - e) <= 0 - n
    BY <2>2
  <2> QED
    BY <1>3, <1>4, <2>1, <2>2
<1> QED
  BY <1>3, <1>4, <1>5 DEF s

\* The shared index moves to the next of the n keys, also where it wraps.
LEMMA NextInList ==
  ASSUME NEW n \in Nat \ {0}, Wrap % n = 0, NEW v \in 0 .. Wrap - 1
  PROVE  /\ v % n \in 0 .. n - 1
         /\ ((v + 1) % Wrap) % n = IF (v % n) + 1 = n THEN 0 ELSE (v % n) + 1
<1> DEFINE j == v % n
<1>1. Wrap \in Nat \ {0} /\ v \in Nat
  BY PipelineAssumption
<1>2. PICK d \in Nat : v = n * d + j
  BY <1>1, Remainder
<1>3. j \in 0 .. n - 1
  BY <1>1, Remainder
<1>4. PICK w \in Nat : Wrap = n * w
  <2>1. PICK w \in Nat : Wrap = n * w + (Wrap % n)
    BY <1>1, Remainder
  <2>2. n * w \in Nat /\ Wrap % n = 0
    OBVIOUS
  <2> QED
    BY <2>1, <2>2
<1> HIDE DEF j
<1>5. v + 1 = n * d + (j + 1)
  BY <1>2, <1>3
<1>6. (v + 1) % n = IF j + 1 = n THEN 0 ELSE j + 1
  <2>1. CASE j + 1 = n
    <3>1. v + 1 = n * (d + 1) + 0
      BY <1>5, <2>1
    <3>2. (n * (d + 1) + 0) % n = 0
      BY RemainderIsOne
    <3> QED
      BY <2>1, <3>1, <3>2
  <2>2. CASE j + 1 # n
    <3>1. j + 1 \in 0 .. n - 1
      BY <1>3, <2>2
    <3>2. (n * d + (j + 1)) % n = j + 1
      BY <3>1, RemainderIsOne
    <3> QED
      BY <1>5, <2>2, <3>2
  <2> QED
    BY <2>1, <2>2
<1>7. CASE v + 1 = Wrap
  <2>1. (v + 1) % Wrap = 0
    <3>1. v + 1 = Wrap * 1 + 0
      BY <1>1, <1>7
    <3>2. (Wrap * 1 + 0) % Wrap = 0
      BY <1>1, RemainderIsOne
    <3> QED
      BY <3>1, <3>2
  <2>2. 0 % n = 0 /\ (v + 1) % n = 0
    <3>1. 0 = n * 0 + 0 /\ v + 1 = n * w + 0
      BY <1>4, <1>7
    <3>2. (n * 0 + 0) % n = 0 /\ (n * w + 0) % n = 0
      BY RemainderIsOne
    <3> QED
      BY <3>1, <3>2
  <2> QED
    BY <1>3, <1>6, <2>1, <2>2 DEF j
<1>8. CASE v + 1 # Wrap
  <2>1. (v + 1) % Wrap = v + 1
    <3>1. v + 1 \in 0 .. Wrap - 1 /\ v + 1 = Wrap * 0 + (v + 1)
      BY <1>1, <1>8
    <3>2. (Wrap * 0 + (v + 1)) % Wrap = v + 1
      BY <1>1, <3>1, RemainderIsOne
    <3> QED
      BY <3>1, <3>2
  <2> QED
    BY <1>3, <1>6, <2>1 DEF j
<1> QED
  BY <1>7, <1>8

\* From the a-th on around the list, up to but without the j-th.
Between(a, i, j) == IF a <= j THEN a <= i /\ i < j ELSE i >= a \/ i < j

\* Of the keys of a list, those from the a-th up to the one whose turn is next
\* were taken once more than the others.
Round(x, a, q) ==
  LET S == Members(x)
  IN  \A i \in 0 .. Cardinality(S) - 1 :
        uses[x][Nth(S, i)] = IF Between(a, i, index[x] % Cardinality(S)) THEN q + 1 ELSE q

InRound(x) == Members(x) # {} => \E a \in 0 .. Cardinality(Members(x)) - 1, q \in Nat : Round(x, a, q)

TurnInv == uses \in [Caches -> [Keys -> Nat]] /\ \A x \in Caches : InRound(x)

\* The j-th of n counts goes up by one, in a round that began at the a-th, and
\* the turn passes to the k-th.
Advances(f, g, n, a, j, q, k) ==
  /\ n \in Nat \ {0} /\ {a, j} \subseteq 0 .. n - 1 /\ q \in Nat
  /\ \A i \in 0 .. n - 1 : f[i] = IF Between(a, i, j) THEN q + 1 ELSE q
  /\ g[j] = f[j] + 1
  /\ \A i \in 0 .. n - 1 : i # j => g[i] = f[i]
  /\ k = IF j + 1 = n THEN 0 ELSE j + 1

\* Of n counts, those from the a-th up to the k-th are one ahead.
InStep(g, n, a, k) == \E p \in Nat : \A i \in 0 .. n - 1 : g[i] = IF Between(a, i, k) THEN p + 1 ELSE p

\* One more for the key whose turn it is: the round goes on, or the next begins.
LEMMA OneMore ==
  ASSUME NEW f, NEW g, NEW n, NEW a, NEW j, NEW q, NEW k, Advances(f, g, n, a, j, q, k)
  PROVE  InStep(g, n, a, k)
<1> USE DEF Advances, InStep
<1>1. k \in 0 .. n - 1
  OBVIOUS
<1>2. f[j] = q
  BY DEF Between
<1>3. CASE k = a
  <2>1. ASSUME NEW i \in 0 .. n - 1
        PROVE  g[i] = q + 1 /\ ~Between(a, i, k)
    <3>1. ~Between(a, i, k)
      BY <1>3 DEF Between
    <3>2. i # j => Between(a, i, j)
      BY <1>3 DEF Between
    <3> QED
      BY <1>2, <3>1, <3>2 DEF Advances
  <2>2. q + 1 \in Nat
    OBVIOUS
  <2> QED
    BY <2>1, <2>2
<1>4. CASE k # a
  <2>1. ASSUME NEW i \in 0 .. n - 1
        PROVE  g[i] = IF Between(a, i, k) THEN q + 1 ELSE q
    <3>1. CASE i = j
      BY <1>2, <1>4, <3>1 DEF Between
    <3>2. CASE i # j
      <4>1. Between(a, i, k) <=> Between(a, i, j)
        BY <1>4, <3>2 DEF Between
      <4> QED
        BY <3>2, <4>1 DEF Advances
    <3> QED
      BY <3>1, <3>2
  <2> QED
    BY <2>1
<1> QED
  BY <1>3, <1>4

\* A list whose keys were not taken is at the beginning of a round, wherever
\* the index stands.
LEMMA FreshRound ==
  ASSUME NEW x, Members(x) \subseteq Keys, index[x] \in Nat, uses[x] = Unused
  PROVE  InRound(x)
<1> SUFFICES ASSUME Members(x) # {}
             PROVE  \E a \in 0 .. Cardinality(Members(x)) - 1, q \in Nat : Round(x, a, q)
  BY DEF InRound
<1> DEFINE n == Cardinality(Members(x))
           a == index[x] % n
<1>1. IsFiniteSet(Members(x))
  BY PipelineAssumption, FS_Subset
<1>2. n \in Nat \ {0}
  BY <1>1, FS_CardinalityType, FS_EmptySet
<1>3. a \in 0 .. n - 1
  BY <1>2, Remainder
<1>4. ASSUME NEW i \in 0 .. n - 1
      PROVE  uses[x][Nth(Members(x), i)] = 0 /\ ~Between(a, i, a)
  <2>1. Nth(Members(x), i) \in Keys
    BY <1>1, NthIsListed
  <2>2. ~Between(a, i, a)
    BY <1>3 DEF Between
  <2> QED
    BY <2>1, <2>2 DEF Unused
<1>5. Round(x, a, 0)
  BY <1>4 DEF Round
<1> QED
  BY <1>3, <1>5

\* What the next call finds depends on the keys, the index and the uses.
LEMMA SameRound ==
  ASSUME NEW x, InRound(x), keys' = keys, index'[x] = index[x], uses'[x] = uses[x]
  PROVE  InRound(x)'
BY DEF InRound, Round, Members

LEMMA KeyIsTakenInTurn ==
  ASSUME TInv, CallInv, CallTypes, TurnInv, UNCHANGED <<vars, world>>, NEW c \in Calls, TakeKey(c)
  PROVE  TurnInv'
<1>1. PICK x \in Caches : x = Cache(c)
  BY TakesFromCache DEF TakeKey, In
<1>2. keys' = keys /\ keys \subseteq Keys
  BY DEF vars, TInv, TypeOK
<1>3. index[x] \in 0 .. Wrap - 1 /\ Wrap \in Nat \ {0} /\ index \in [Caches -> 0 .. Wrap - 1]
  BY PipelineAssumption DEF CallTypes, Bookkeeping
<1>4. index' = [index EXCEPT ![x] = (@ + 1) % Wrap]
  BY <1>1 DEF TakeKey
<1>5. PICK k : /\ k = Nth(call[c].list, index[x] % Cardinality(call[c].list))
               /\ uses' = IF call[c].list = Members(x) THEN [uses EXCEPT ![x][k] = @ + 1]
                                                       ELSE [uses EXCEPT ![x] = Unused]
  BY <1>1 DEF TakeKey, Count, Listed
<1>6. \A y \in Caches \ {x} : uses'[y] = uses[y] /\ index'[y] = index[y]
  BY <1>3, <1>4, <1>5 DEF TurnInv
<1>7. \A y \in Caches \ {x} : InRound(y)'
  BY <1>2, <1>6, SameRound DEF TurnInv
<1>8. Members(x) \subseteq Keys /\ IsFiniteSet(Members(x)) /\ Members(x)' = Members(x)
  BY <1>2, PipelineAssumption, FS_Subset DEF Members
<1>9. index'[x] = (index[x] + 1) % Wrap /\ index'[x] \in Nat
  BY <1>3, <1>4
<1>10. CASE call[c].list # Members(x)
  <2>1. uses' = [uses EXCEPT ![x] = Unused]
    BY <1>5, <1>10
  <2>2. uses'[x] = Unused /\ uses' \in [Caches -> [Keys -> Nat]]
    BY <2>1 DEF TurnInv, Unused
  <2>3. InRound(x)'
    <3>1. (Members(x) \subseteq Keys /\ index[x] \in Nat /\ uses[x] = Unused => InRound(x))'
      BY FreshRound, PTL
    <3> QED
      BY <1>8, <1>9, <2>2, <3>1 DEF Unused
  <2> QED
    BY <1>7, <2>2, <2>3 DEF TurnInv
<1>11. CASE call[c].list = Members(x)
  <2> DEFINE S == Members(x)
             n == Cardinality(S)
             j == index[x] % n
  <2>1. S # {} /\ n \in Nat \ {0}
    <3>1. call[c].list # {}
      BY DEF TakeKey, In, CallInv, Own, Bound
    <3> QED
      BY <1>8, <1>11, <3>1, FS_CardinalityType, FS_EmptySet
  <2>2. Wrap % n = 0
    <3>1. PICK l \in S : Vendor[l] = x[1] /\ l \in Keys
      BY <1>8, <2>1 DEF Members
    <3> DEFINE T == {m \in Keys : Vendor[m] = Vendor[l]}
    <3>2. S \subseteq T /\ IsFiniteSet(T)
      BY <1>8, <3>1, PipelineAssumption, FS_Subset DEF Members
    <3>3. n <= Cardinality(T) /\ Cardinality(T) \in Nat
      BY <3>2, FS_Subset, FS_CardinalityType
    <3>4. n \in 1 .. Cardinality(T)
      BY <2>1, <3>3
    <3> QED
      BY <3>1, <3>4, PipelineAssumption
  <2>3. j \in 0 .. n - 1 /\ index'[x] % n = IF j + 1 = n THEN 0 ELSE j + 1
    BY <1>3, <1>9, <2>1, <2>2, NextInList
  <2>4. k = Nth(S, j) /\ k \in S /\ k \in Keys
    BY <1>5, <1>8, <1>11, <2>3, NthIsListed
  <2>5. uses[x] \in [Keys -> Nat] /\ uses'[x] = [uses[x] EXCEPT ![k] = @ + 1] /\ uses' \in [Caches -> [Keys -> Nat]]
    <3>1. uses' = [uses EXCEPT ![x][k] = @ + 1]
      BY <1>5, <1>11
    <3>2. uses[x] \in [Keys -> Nat] /\ uses \in [Caches -> [Keys -> Nat]]
      BY DEF TurnInv
    <3>3. [uses[x] EXCEPT ![k] = @ + 1] \in [Keys -> Nat]
      BY <2>4, <3>2
    <3> QED
      BY <3>1, <3>2, <3>3
  <2>6. PICK a \in 0 .. n - 1, q \in Nat : Round(x, a, q)
    BY <2>1 DEF TurnInv, InRound
  <2> DEFINE f == [i \in 0 .. n - 1 |-> uses[x][Nth(S, i)]]
             g == [i \in 0 .. n - 1 |-> uses'[x][Nth(S, i)]]
  <2>7. \A i \in 0 .. n - 1 : f[i] = IF Between(a, i, j) THEN q + 1 ELSE q
    BY <2>6 DEF Round
  <2>8. g[j] = f[j] + 1
    BY <2>3, <2>4, <2>5
  <2>9. \A i \in 0 .. n - 1 : i # j => g[i] = f[i]
    <3>1. ASSUME NEW i \in 0 .. n - 1, i # j
          PROVE  Nth(S, i) # k /\ Nth(S, i) \in Keys
      BY <1>8, <2>3, <2>4, <3>1, NthIsOnto, NthIsListed
    <3> QED
      BY <2>5, <3>1
  <2>10. PICK p \in Nat : \A i \in 0 .. n - 1 : g[i] = IF Between(a, i, index'[x] % n) THEN p + 1 ELSE p
    <3> DEFINE m == index'[x] % n
    <3>1. m = IF j + 1 = n THEN 0 ELSE j + 1
      BY <2>3
    <3> HIDE DEF f, g, n, j, m
    <3>2. \E p \in Nat : \A i \in 0 .. n - 1 : g[i] = IF Between(a, i, m) THEN p + 1 ELSE p
      <4>1. n \in Nat \ {0} /\ {a, j} \subseteq 0 .. n - 1 /\ q \in Nat
        BY <2>1, <2>3, <2>6
      <4>2. Advances(f, g, n, a, j, q, m)
        BY <2>7, <2>8, <2>9, <3>1, <4>1 DEF Advances
      <4>3. InStep(g, n, a, m)
        BY <4>2, OneMore
      <4> QED
        BY <4>3 DEF InStep
    <3> QED
      BY <3>2 DEF m
  <2>11. \E b \in 0 .. n - 1, r \in Nat : Round(x, b, r)'
    <3>1. Round(x, a, p)'
      BY <1>8, <2>10 DEF Round
    <3> QED
      BY <3>1
  <2>12. InRound(x)'
    BY <1>8, <2>11 DEF InRound
  <2> QED
    BY <1>7, <2>5, <2>12 DEF TurnInv
<1> QED
  BY <1>10, <1>11

\* A round begins where the uses are forgotten.
LEMMA FreshRounds ==
  ASSUME TInv', index' \in [Caches -> Nat], uses' = [x \in Caches |-> Unused]
  PROVE  TurnInv'
<1>1. uses' \in [Caches -> [Keys -> Nat]] /\ \A x \in Caches : uses'[x] = Unused
  BY DEF Unused
<1>2. ASSUME NEW x \in Caches
      PROVE  InRound(x)'
  <2>1. Members(x)' \subseteq Keys /\ index'[x] \in Nat /\ uses'[x] = Unused
    BY <1>1 DEF Members, TInv, TypeOK
  <2>2. (Members(x) \subseteq Keys /\ index[x] \in Nat /\ uses[x] = Unused => InRound(x))'
    BY FreshRound, PTL
  <2> QED
    BY <2>1, <2>2 DEF Unused
<1> QED
  BY <1>1, <1>2 DEF TurnInv

LEMMA TurnsKept ==
  ASSUME TInv, TInv', CallInv, CallTypes, TurnInv, [PipelineNext /\ UNCHANGED world]_<<vars, callVars, world>>
  PROVE  TurnInv'
<1>1. CASE UNCHANGED <<keys, index, uses>>
  BY <1>1, SameRound DEF TurnInv
<1>2. CASE TokenStep
  <2>1. CASE keys' = keys
    BY <1>1, <1>2, <2>1 DEF TokenStep
  <2>2. CASE keys' # keys
    <3>1. uses' = [x \in Caches |-> Unused] /\ index' = index
      BY <1>2, <2>2 DEF TokenStep
    <3>2. index' \in [Caches -> Nat]
      BY <3>1 DEF CallInv
    <3> QED
      BY <3>1, <3>2, FreshRounds
  <2> QED
    BY <2>1, <2>2
<1>4. CASE LoseCalls
  <2>1. uses' = [x \in Caches |-> Unused] /\ index' \in [Caches -> Nat]
    BY <1>4 DEF LoseCalls
  <2> QED
    BY <2>1, FreshRounds
<1>3. ASSUME NEW c \in Calls, UNCHANGED <<vars, world>>, Call(c) \/ CallStep(c) \/ GiveUpCheck(c)
      PROVE  TurnInv'
  <2>1. CASE TakeKey(c)
    BY <1>3, <2>1, KeyIsTakenInTurn
  <2>2. CASE ~TakeKey(c)
    <3>1. UNCHANGED <<index, uses>>
      BY <1>3, <2>2 DEF CallStep, Call, FindToken, FindKey, FindBot, Route, ListKeys, Send, Answer, Timeout,
         LogUsage, GetBot, GiveUpCheck, ReadUsage, LookForMessage, SendMessage
    <3> QED
      BY <1>1, <1>3, <3>1 DEF vars
  <2> QED
    BY <2>1, <2>2
<1> QED
  BY <1>1, <1>2, <1>3, <1>4 DEF PipelineNext, Midnight, vars, callVars

\* Nobody has taken a key yet.
LEMMA TurnsAtFirst ==
  ASSUME PipelineInit, TInv, CallTypes
  PROVE  TurnInv
<1>1. uses = [x \in Caches |-> Unused]
  BY DEF PipelineInit
<1>2. uses \in [Caches -> [Keys -> Nat]] /\ \A x \in Caches : uses[x] = Unused
  BY <1>1 DEF Unused
<1>3. \A x \in Caches : Members(x) \subseteq Keys /\ index[x] \in Nat
  BY PipelineAssumption DEF Members, TInv, TypeOK, CallTypes, Bookkeeping
<1> QED
  BY <1>2, <1>3, FreshRound DEF TurnInv

\* Within a round no key of a list is two calls ahead of another.
LEMMA NobodyIsTwoAhead == ASSUME TInv, TurnInv PROVE KeysTakeTurns
<1> SUFFICES ASSUME NEW x \in Caches, NEW k \in Members(x), NEW l \in Members(x)
             PROVE  uses[x][k] <= uses[x][l] + 1
  BY DEF KeysTakeTurns
<1>1. IsFiniteSet(Members(x))
  BY PipelineAssumption, FS_Subset DEF Members, TInv, TypeOK
<1>2. PICK a \in 0 .. Cardinality(Members(x)) - 1, q \in Nat : Round(x, a, q)
  BY DEF TurnInv, InRound
<1>3. \A m \in Members(x) : uses[x][m] \in {q, q + 1}
  <2>1. \A m \in Members(x) : \E i \in 0 .. Cardinality(Members(x)) - 1 : Nth(Members(x), i) = m
    BY <1>1, NthIsOnto
  <2> QED
    BY <1>2, <2>1 DEF Round
<1> QED
  BY <1>2, <1>3

\* Each key of a vendor and tag is taken in turn: since the list last changed,
\* or was last moved on by a call that held an older one, or the process was
\* restarted and the index with it, no key was handed to two calls more than
\* another, whatever the vendors, the keys and the calls that take keys at the
\* same moment.
THEOREM KeysInTurn == PipelineSpec => []KeysTakeTurns
<1>1. PipelineInit => Given /\ CallInv
  BY GivenAtFirst, CallAtFirst DEF PipelineInit
<1>2. PipelineInit => CallTypes
  BY CallTypesAtFirst
<1>3. TInv /\ PipelineInit /\ CallTypes => TurnInv
  BY TurnsAtFirst
<1>4. [PipelineNext /\ UNCHANGED world]_<<vars, callVars, world>> => [Next /\ UNCHANGED world]_<<vars, world>>
  BY DEF PipelineNext, TokenStep, Midnight, Next
<1>5. TInv /\ TInv' /\ Given /\ CallInv /\ [PipelineNext /\ UNCHANGED world]_<<vars, callVars, world>>
        => Given' /\ CallInv'
  BY <1>4, GivenKept, CallsKept
<1>6. TInv /\ CallInv /\ CallTypes /\ [PipelineNext /\ UNCHANGED world]_<<vars, callVars, world>> => CallTypes'
  BY CallTypesKept
<1>7. TInv /\ TInv' /\ CallInv /\ CallTypes /\ TurnInv
        /\ [PipelineNext /\ UNCHANGED world]_<<vars, callVars, world>> => TurnInv'
  BY TurnsKept
<1>8. TInv /\ TurnInv => KeysTakeTurns
  BY NobodyIsTwoAhead
<1> QED
  BY <1>1, <1>2, <1>3, <1>5, <1>6, <1>7, <1>8, TokensAsSpecified, Types, PTL DEF PipelineSpec
-----------------------------------------------------------------------------
(* A limit that is reached is reported                                     *)

\* A registration past its check, and a token that is accepted, are of a bot
\* that was created.
Born ==
  /\ \A r \in Reqs : req[r].pc \in {"checkkey", "read", "drop", "insert"} => bot[req[r].bot] # "none"
  /\ \A b \in Bots : tok[b].state = "valid" => bot[b] # "none"

Searching == {"idle", "refused", "findtoken", "findbot", "lost"}
Checking == Checked \ {"end"}

\* A call past the search for its bot is of a bot that was created, and what it
\* used is not counted before it is logged, and then as this bot's.
Counted(c) ==
  /\ call[c].pc \notin Searching => call[c].bot \in Bots /\ bot[call[c].bot] # "none"
  /\ DOMAIN call[c].usage = Periods
  /\ call[c].pc \in Unlogged => log[c].tokens # 1
  /\ call[c].pc \in Checking /\ log[c].tokens = 1 => log[c].bot = call[c].bot

Unread(p) == {"getbot", "daily"} \cup IF p = "monthly" THEN {"monthly"} ELSE {}
Untold(p) == IF p = "daily" THEN {"monthly", "lookdaily", "telldaily"}
                            ELSE {"lookdaily", "telldaily", "lookmonthly", "tellmonthly"}

\* A call will read what was used, or has read that it is too much and will
\* tell the user.
Pending(c, p) ==
  \/ call[c].pc \in Unread(p)
  \/ call[c].pc \in Untold(p) /\ call[c].usage[p] >= Limit[p]

Watched == ~Faults /\ day = 1
Owed(b, p) == bot[b] # "deleted" /\ Used(b, p) >= Limit[p]
Told(b, p) == <<"exceeded", b, p, 1>> \in sent

\* Of a limit that was reached the user knows, or one of the calls that count
\* will tell, or the process died with its check.
Reported ==
  Watched => \A b \in Bots, p \in Periods : Owed(b, p) =>
    Told(b, p) \/ \E c \in Calls : Counts(c, b, p) /\ (Pending(c, p) \/ In(c, "lost"))

ReportInv == Born /\ (\A c \in Calls : Counted(c)) /\ Reported

\* A bot that was created stays so, and a deleted bot stays deleted.
LEMMA BotsAge ==
  ASSUME TInv, [Next /\ UNCHANGED world]_<<vars, world>>
  PROVE  \A b \in Bots : (bot[b] # "none" => bot'[b] # "none") /\ (bot[b] = "deleted" => bot'[b] = "deleted")
<1> USE DEF TInv, TypeOK
<1>1. ASSUME NEW r \in Reqs, EraseBot(r)
      PROVE  bot' = [bot EXCEPT ![req[r].bot] = "deleted"]
  BY <1>1 DEF EraseBot
<1>2. ASSUME NEW r \in Reqs, NEW b \in Bots, CreateBot(r, b)
      PROVE  bot[b] = "none" /\ bot' = [bot EXCEPT ![b] = "live"]
  BY <1>2 DEF CreateBot
<1>3. ASSUME NEW r \in Reqs, NEW b \in Bots, StartBot(r, b) \/ DeleteBot(r, b) \/ AdminRegister(r, b) \/ RevokeBot(r, b)
      PROVE  bot' = bot
  BY <1>3 DEF StartBot, DeleteBot, AdminRegister, RevokeBot
<1>4. ASSUME NEW r \in Reqs,
             \/ RemoveOld(r) \/ GetKey(r) \/ CheckBot(r) \/ CheckKey(r) \/ ReadExisting(r) \/ DropExisting(r)
             \/ InsertToken(r) \/ StoreHash(r) \/ FallBack(r) \/ CreateContainer(r) \/ DeleteContainer(r)
             \/ DeleteTokenRead(r) \/ DeleteToken(r) \/ RevokeWrite(r)
      PROVE  bot' = bot
  BY <1>4 DEF RemoveOld, GetKey, CheckBot, CheckKey, ReadExisting, DropExisting, InsertToken, StoreHash, FallBack,
              CreateContainer, DeleteContainer, DeleteTokenRead, DeleteToken, RevokeWrite
<1>5. ASSUME (\E k \in Keys : DeleteProviderKey(k)) \/ (\E b \in Bots : Expire(b)) \/ Crash \/ UNCHANGED <<vars, world>>
      PROVE  bot' = bot
  BY <1>5 DEF DeleteProviderKey, Expire, Crash, vars
<1>6. CASE \E r \in Reqs : EraseBot(r)
  BY <1>1, <1>6
<1>7. CASE \E r \in Reqs, b \in Bots : CreateBot(r, b)
  BY <1>2, <1>7
<1>8. CASE bot' = bot
  BY <1>8
<1> QED
  BY <1>3, <1>4, <1>5, <1>6, <1>7, <1>8 DEF Next, Step

\* A request comes to the queries of a registration by the check of its bot.
LEMMA Checks ==
  ASSUME TInv, NEW r \in Reqs, [Next /\ UNCHANGED world]_<<vars, world>>
  PROVE  LET Past(pc) == pc \in {"checkkey", "read", "drop", "insert"}
         IN  Past(req'[r].pc) => req'[r].bot = req[r].bot /\ (Past(req[r].pc) \/ LiveBot(req[r].bot))
<1> USE DEF TInv, TypeOK
<1> DEFINE Past(pc) == pc \in {"checkkey", "read", "drop", "insert"}
           Forward == Past(req'[r].pc) => req'[r].bot = req[r].bot /\ (Past(req[r].pc) \/ LiveBot(req[r].bot))
<1>0. req \in [Reqs -> Request]
  OBVIOUS
<1>1. Done(r) => ~Past(req'[r].pc)
  BY <1>0 DEF Done, Idle
<1>2. ASSUME NEW pc, Goto(r, pc)
      PROVE  req'[r].pc = pc /\ req'[r].bot = req[r].bot
  BY <1>0, <1>2 DEF Goto, Request
<1>3. Failed(r) => ~Past(req'[r].pc)
  BY <1>1, <1>2 DEF Failed
<1>4. ASSUME NEW op, NEW b, NEW pc, ~Past(pc), Arrive(r, op, b, pc)
      PROVE  Forward
  BY <1>0, <1>4 DEF Arrive, Idle
<1>5. ASSUME NEW b \in Bots, CreateBot(r, b) \/ StartBot(r, b) \/ DeleteBot(r, b) \/ AdminRegister(r, b) \/ RevokeBot(r, b)
      PROVE  Forward
  <2>1. RevokeBot(r, b) => ~Past(req'[r].pc)
    BY <1>0 DEF RevokeBot
  <2> QED
    BY <1>4, <1>5, <2>1 DEF CreateBot, StartBot, DeleteBot, AdminRegister
<1>6. CASE CheckBot(r)
  BY <1>2, <1>3, <1>6 DEF CheckBot
<1>7. CASE CheckKey(r) \/ DropExisting(r)
  BY <1>2, <1>3, <1>7 DEF CheckKey, DropExisting, At
<1>8. CASE ReadExisting(r)
  <2>1. req' = [req EXCEPT ![r].row = tok[req[r].bot].id, ![r].pc = "drop"] => Forward
    BY <1>0, <1>8 DEF ReadExisting, At, Request
  <2> QED
    BY <1>2, <1>3, <1>8, <2>1 DEF ReadExisting, At
<1>9. CASE InsertToken(r)
  <2>1. ASSUME NEW t, req' = [req EXCEPT ![r].cred = t, ![r].pc = "hash"]
        PROVE  ~Past(req'[r].pc)
    BY <1>0, <2>1 DEF Request
  <2> QED
    BY <1>1, <1>3, <1>9, <2>1 DEF InsertToken
<1>10. CASE RemoveOld(r) \/ GetKey(r) \/ StoreHash(r) \/ DeleteContainer(r) \/ DeleteToken(r)
  BY <1>2, <1>10 DEF RemoveOld, GetKey, StoreHash, DeleteContainer, DeleteToken
<1>11. CASE FallBack(r) \/ DeleteTokenRead(r)
  BY <1>0, <1>2, <1>11 DEF FallBack, DeleteTokenRead, Request
<1>12. CASE CreateContainer(r) \/ EraseBot(r) \/ RevokeWrite(r)
  BY <1>1, <1>12 DEF CreateContainer, EraseBot, RevokeWrite
<1>13. CASE Crash
  BY <1>13 DEF Crash, Idle
<1>14. CASE (\E k \in Keys : DeleteProviderKey(k)) \/ (\E b \in Bots : Expire(b)) \/ UNCHANGED <<vars, world>>
  BY <1>14 DEF DeleteProviderKey, Expire, vars
<1>15. ASSUME NEW s \in Reqs \ {r},
              \/ RemoveOld(s) \/ GetKey(s) \/ CheckBot(s) \/ CheckKey(s) \/ ReadExisting(s) \/ DropExisting(s)
              \/ InsertToken(s) \/ StoreHash(s) \/ FallBack(s) \/ CreateContainer(s) \/ DeleteContainer(s)
              \/ DeleteTokenRead(s) \/ DeleteToken(s) \/ EraseBot(s) \/ RevokeWrite(s)
              \/ \E b \in Bots : \/ CreateBot(s, b) \/ StartBot(s, b) \/ DeleteBot(s, b)
                                 \/ AdminRegister(s, b) \/ RevokeBot(s, b)
       PROVE  req'[r] = req[r]
  <2>2. Done(s) \/ Failed(s) \/ (\E pc : Goto(s, pc)) => req'[r] = req[r]
    BY <1>0 DEF Done, Failed, Goto
  <2>3. (\E op, b, pc : Arrive(s, op, b, pc)) => req'[r] = req[r]
    BY <1>0 DEF Arrive
  <2> HIDE DEF TInv, TypeOK
  <2>4. CASE \/ RemoveOld(s) \/ GetKey(s) \/ CheckBot(s) \/ CheckKey(s) \/ DropExisting(s) \/ StoreHash(s)
             \/ CreateContainer(s) \/ DeleteContainer(s) \/ DeleteToken(s) \/ EraseBot(s) \/ RevokeWrite(s)
    BY <2>2, <2>4 DEF RemoveOld, GetKey, CheckBot, CheckKey, DropExisting, StoreHash, CreateContainer,
                      DeleteContainer, DeleteToken, EraseBot, RevokeWrite
  <2>5. CASE ReadExisting(s) \/ InsertToken(s) \/ FallBack(s) \/ DeleteTokenRead(s)
    BY <1>0, <2>2, <2>5 DEF ReadExisting, InsertToken, FallBack, DeleteTokenRead
  <2>6. CASE \E b \in Bots : CreateBot(s, b) \/ StartBot(s, b) \/ DeleteBot(s, b) \/ AdminRegister(s, b)
    BY <2>3, <2>6 DEF CreateBot, StartBot, DeleteBot, AdminRegister
  <2>7. CASE \E b \in Bots : RevokeBot(s, b)
    BY <1>0, <2>7 DEF RevokeBot
  <2> QED
    BY <1>15, <2>4, <2>5, <2>6, <2>7
<1> QED
  BY <1>5, <1>6, <1>7, <1>8, <1>9, <1>10, <1>11, <1>12, <1>13, <1>14, <1>15 DEF Next, Step

\* A token becomes valid where a registration inserts it.
LEMMA InsertsOnly ==
  ASSUME TInv, [Next /\ UNCHANGED world]_<<vars, world>>, NEW b \in Bots, tok'[b].state = "valid"
  PROVE  tok[b].state = "valid" \/ \E r \in Reqs : req[r].pc = "insert" /\ req[r].bot = b
<1> USE DEF TInv, TypeOK
<1>1. ASSUME NEW r \in Reqs, InsertToken(r)
      PROVE  tok[b].state = "valid" \/ (req[r].pc = "insert" /\ req[r].bot = b)
  BY <1>1 DEF InsertToken, At
<1>2. ASSUME NEW r \in Reqs, DropExisting(r) \/ DeleteToken(r) \/ RevokeWrite(r)
      PROVE  tok[b].state = "valid"
  <2>1. tok' \in {tok, [tok EXCEPT ![req[r].bot] = NoToken], [tok EXCEPT ![req[r].bot].state = "revoked"]}
    BY <1>2 DEF DropExisting, DeleteToken, RevokeWrite
  <2>2. tok[b] = NoToken \/ tok[b] \in [id : Tokens, state : {"valid", "revoked", "expired"}]
    BY DEF TokenRow
  <2> QED
    BY <2>1, <2>2 DEF NoToken
<1>3. CASE \E a \in Bots : Expire(a)
  <2>1. tok[b] = NoToken \/ tok[b] \in [id : Tokens, state : {"valid", "revoked", "expired"}]
    BY DEF TokenRow
  <2> QED
    BY <1>3, <2>1 DEF Expire, NoToken
<1>4. ASSUME NEW r \in Reqs, NEW a \in Bots,
             CreateBot(r, a) \/ StartBot(r, a) \/ DeleteBot(r, a) \/ AdminRegister(r, a) \/ RevokeBot(r, a)
      PROVE  tok' = tok
  BY <1>4 DEF CreateBot, StartBot, DeleteBot, AdminRegister, RevokeBot
<1>5. ASSUME NEW r \in Reqs,
             \/ RemoveOld(r) \/ GetKey(r) \/ CheckBot(r) \/ CheckKey(r) \/ ReadExisting(r) \/ StoreHash(r)
             \/ FallBack(r) \/ CreateContainer(r) \/ DeleteContainer(r) \/ DeleteTokenRead(r) \/ EraseBot(r)
      PROVE  tok' = tok
  BY <1>5 DEF RemoveOld, GetKey, CheckBot, CheckKey, ReadExisting, StoreHash, FallBack, CreateContainer,
              DeleteContainer, DeleteTokenRead, EraseBot
<1>6. ASSUME (\E k \in Keys : DeleteProviderKey(k)) \/ Crash \/ UNCHANGED <<vars, world>>
      PROVE  tok' = tok
  BY <1>6 DEF DeleteProviderKey, Crash, vars
<1> QED
  BY <1>1, <1>2, <1>3, <1>4, <1>5, <1>6 DEF Next, Step

LEMMA BornKept ==
  ASSUME TInv, TInv', Born, [Next /\ UNCHANGED world]_<<vars, world>>
  PROVE  Born'
<1>1. ASSUME NEW r \in Reqs, req'[r].pc \in {"checkkey", "read", "drop", "insert"}
      PROVE  bot'[req'[r].bot] # "none"
  <2>1. req'[r].bot \in Bots
    BY <1>1 DEF TInv, Sound
  <2>2. bot[req'[r].bot] # "none"
    BY <1>1, Checks DEF Born, LiveBot
  <2> QED
    BY <2>1, <2>2, BotsAge
<1>2. ASSUME NEW b \in Bots, tok'[b].state = "valid"
      PROVE  bot'[b] # "none"
  <2>1. bot[b] # "none"
    BY <1>2, InsertsOnly DEF Born
  <2> QED
    BY <2>1, BotsAge
<1> QED
  BY <1>1, <1>2 DEF Born

\* What a call searches for is its bot; it then keeps it.
LEMMA StepKeepsBot ==
  ASSUME TInv, CallInv, CallTypes, NEW c \in Calls, DOMAIN call[c].usage = Periods,
         Call(c) \/ CallStep(c) \/ GiveUpCheck(c)
  PROVE  /\ DOMAIN call'[c].usage = Periods
         /\ \/ call'[c].pc \in Searching
            \/ \E b \in Bots : call'[c].bot = b /\ (tok[b].state = "valid" \/ LiveBot(b))
            \/ call'[c].bot = call[c].bot /\ call[c].pc \notin Searching
<1> DEFINE Forward == /\ DOMAIN call'[c].usage = Periods
                      /\ \/ call'[c].pc \in Searching
                         \/ \E b \in Bots : call'[c].bot = b /\ (tok[b].state = "valid" \/ LiveBot(b))
                         \/ call'[c].bot = call[c].bot /\ call[c].pc \notin Searching
<1> SUFFICES Forward
  OBVIOUS
<1>0. DOMAIN call = Calls /\ DOMAIN call[c] = Fields
  BY DEF CallInv, Own
<1>1. ASSUME NEW pc, Move(c, pc), pc \in Searching \/ call[c].pc \notin Searching
      PROVE  Forward
  BY <1>0, <1>1 DEF Move, Put, Fields
<1>2. Refuse(c) => Forward
  BY <1>1 DEF Refuse, Searching
<1>3. NoKey(c) /\ call[c].pc \notin Searching => Forward
  BY <1>1, <1>2 DEF NoKey
<1>4. CASE Call(c)
  <2>1. PICK b \in Bots, v \in world.urls :
          Put(c, [Silent EXCEPT !.token = env[b], !.url = v, !.pc = IF world.direct THEN "findbot" ELSE "findtoken",
                                !.dead = ~Accepts(env[b])])
    BY <1>4 DEF Call
  <2> DEFINE q == [Silent EXCEPT !.token = env[b], !.url = v, !.pc = IF world.direct THEN "findbot" ELSE "findtoken",
                                 !.dead = ~Accepts(env[b])]
  <2>2. q.pc \in Searching /\ DOMAIN q.usage = Periods
    BY DEF Silent, Searching
  <2>3. Put(c, q)
    BY <2>1
  <2> HIDE DEF q
  <2> QED
    BY <1>0, <2>2, <2>3 DEF Put
<1>5. CASE FindToken(c)
  <2>1. ASSUME NEW b \in Bots, tok[b] = [id |-> call[c].token, state |-> "valid"],
               Put(c, [call[c] EXCEPT !.bot = b, !.pc = "findkey"])
        PROVE  Forward
    BY <1>0, <2>1 DEF Put, Fields
  <2> QED
    BY <1>2, <1>5, <2>1 DEF FindToken
<1>6. CASE FindBot(c)
  <2>1. ASSUME NEW b \in Bots, LiveBot(b), NEW v, NEW t,
               Put(c, [call[c] EXCEPT !.bot = b, !.vendor = v, !.pc = "list", !.tries = t])
        PROVE  Forward
    BY <1>0, <2>1 DEF Put, Fields
  <2> QED
    BY <1>2, <1>6, <2>1 DEF FindBot
<1>7. CASE FindKey(c)
  <2>1. CASE \E k, v : Put(c, [call[c] EXCEPT !.key = k, !.conf = v, !.pc = "route"])
    BY <1>0, <1>7, <2>1 DEF FindKey, In, Searching, Put, Fields
  <2> QED
    BY <1>2, <1>7, <2>1 DEF FindKey
<1>8. CASE Route(c)
  <2>1. CASE \E v, t : Put(c, [call[c] EXCEPT !.vendor = v, !.pc = "list", !.tries = t])
    BY <1>0, <1>8, <2>1 DEF Route, In, Searching, Put, Fields
  <2> QED
    BY <1>1, <1>8, <2>1 DEF Route, In, Searching
<1>9. CASE ListKeys(c)
  <2>1. CASE \E l : Put(c, [call[c] EXCEPT !.list = l, !.pc = "take"])
    BY <1>0, <1>9, <2>1 DEF ListKeys, In, Searching, Put, Fields
  <2>2. CASE \E t : Put(c, [call[c] EXCEPT !.tries = t])
    BY <1>0, <1>9, <2>2 DEF ListKeys, In, Searching, Put, Fields
  <2> QED
    BY <1>3, <1>9, <2>1, <2>2 DEF ListKeys, In, Searching
<1>10. CASE TakeKey(c)
  <2>1. CASE \E k, v : Put(c, [call[c] EXCEPT !.key = k, !.conf = v, !.list = {},
                                              !.pc = IF call[c].key = None THEN "route" ELSE "send"])
    BY <1>0, <1>10, <2>1 DEF TakeKey, In, Searching, Put, Fields
  <2>2. NoKey(c) \/ \E k, v : Put(c, [call[c] EXCEPT !.key = k, !.conf = v, !.list = {},
                                                     !.pc = IF call[c].key = None THEN "route" ELSE "send"])
    BY <1>10 DEF TakeKey
  <2> QED
    BY <1>3, <1>10, <2>1, <2>2 DEF TakeKey, In, Searching
<1>11. CASE Send(c)
  <2>1. CASE \E f : Put(c, [call[c] EXCEPT !.fate = f, !.pc = "upstream"])
    BY <1>0, <1>11, <2>1 DEF Send, In, Searching, Put, Fields
  <2> QED
    BY <1>11, <2>1 DEF Send
<1>12. CASE Answer(c) \/ Timeout(c) \/ LogUsage(c) \/ GetBot(c)
  BY <1>1, <1>12 DEF Answer, Timeout, LogUsage, GetBot, In, Searching
<1>13. CASE GiveUpCheck(c)
  BY <1>1, <1>13 DEF GiveUpCheck, Periods, Look, Tell, Searching
<1>14. ASSUME NEW p \in Periods, ReadUsage(c, p)
       PROVE  Forward
  BY <1>0, <1>14 DEF ReadUsage, In, Periods, Searching, Put, Fields
<1>15. ASSUME NEW p \in Periods, LookForMessage(c, p) \/ SendMessage(c, p)
       PROVE  Forward
  BY <1>1, <1>15 DEF LookForMessage, SendMessage, In, Periods, Look, Tell, Searching
<1> QED
  BY <1>4, <1>5, <1>6, <1>7, <1>8, <1>9, <1>10, <1>11, <1>12, <1>13, <1>14, <1>15 DEF CallStep

\* What a call used is counted when it is logged.
LEMMA StepCounted ==
  ASSUME TInv, CallInv, CallTypes, Born, UNCHANGED <<vars, world>>, NEW c \in Calls, \A d \in Calls : Counted(d),
         Call(c) \/ CallStep(c) \/ GiveUpCheck(c)
  PROVE  \A d \in Calls : Counted(d)'
<1>1. \A d \in Calls \ {c} : call'[d] = call[d]
  BY StepTyped
<1>2. \A d \in Calls \ {c} : log'[d] = log[d]
  <2>1. log' = log \/ LogUsage(c)
    BY NotYetLogged, LoggedForGood DEF CallStep
  <2> QED
    BY <2>1 DEF LogUsage, Row, CallTypes, Bookkeeping
<1>3. bot' = bot
  BY DEF vars
<1>4. \A d \in Calls \ {c} : Counted(d)'
  BY <1>1, <1>2, <1>3 DEF Counted
<1>5. /\ call'[c].pc \notin Searching => call'[c].bot \in Bots /\ bot'[call'[c].bot] # "none"
      /\ DOMAIN call'[c].usage = Periods
  BY <1>3, StepKeepsBot DEF Counted, Born, LiveBot
<1>6. call'[c].pc \in Unlogged => log'[c].tokens # 1
  <2>1. CASE LogUsage(c)
    BY <2>1 DEF LogUsage, Move, Put, Unlogged, Early, CallInv, Own, Fields
  <2>2. CASE ~LogUsage(c)
    <3>1. call'[c].pc \in Unlogged => call[c].pc \in Unlogged /\ log' = log
      BY <2>2, NotYetLogged, LoggedForGood DEF CallStep, Unlogged, Checked, Early
    <3> QED
      BY <3>1 DEF Counted
  <2> QED
    BY <2>1, <2>2
<1>7. call'[c].pc \in Checking /\ log'[c].tokens = 1 => log'[c].bot = call'[c].bot
  <2>1. CASE LogUsage(c)
    <3>1. call'[c].bot = call[c].bot /\ call[c].pc = "log" /\ (log' = Row(c) \/ log' = log)
      BY <2>1 DEF LogUsage, In, Move, Put, CallInv, Own, Fields
    <3>2. log[c].tokens # 1
      BY <3>1 DEF Counted, Unlogged
    <3> QED
      BY <3>1, <3>2 DEF Row, CallTypes, Bookkeeping
  <2>2. CASE ~LogUsage(c)
    <3>1. call'[c].pc \in Checking => call[c].pc \in Checking /\ log' = log /\ call'[c].bot = call[c].bot
      BY <2>2, NotYetLogged, LoggedForGood DEF CallStep, Checking, Unlogged, Checked, Early
    <3> QED
      BY <3>1 DEF Counted
  <2> QED
    BY <2>1, <2>2
<1> QED
  BY <1>4, <1>5, <1>6, <1>7 DEF Counted

\* What a bot has used is a matter of the calls that count.
LEMMA SameUse ==
  ASSUME NEW b, NEW p, \A c \in Calls : Counts(c, b, p)' <=> Counts(c, b, p)
  PROVE  Used(b, p)' = Used(b, p)
<1>1. {c \in Calls : Counts(c, b, p)'} = {c \in Calls : Counts(c, b, p)}
  OBVIOUS
<1>2. Used(b, p)' = Cardinality({c \in Calls : Counts(c, b, p)'})
  BY DEF Used
<1> QED
  BY <1>1, <1>2 DEF Used

\* A step of a call that leaves the log alone and takes no message back keeps what
\* is reported if the call still has to report what it had to before.
LEMMA StillPending ==
  ASSUME Reported, UNCHANGED <<vars, world, log, day>>, NEW c \in Calls, \A d \in Calls \ {c} : call'[d] = call[d],
         ~In(c, "lost"), Counted(c), sent \subseteq sent',
         Watched => \A p \in Periods : Owed(call[c].bot, p) /\ Pending(c, p) =>
           Pending(c, p)' \/ <<"exceeded", call[c].bot, p, 1>> \in sent'
  PROVE  Reported'
<1> SUFFICES ASSUME Watched', NEW b \in Bots, NEW p \in Periods, Owed(b, p)'
             PROVE  Told(b, p)' \/ \E d \in Calls : Counts(d, b, p)' /\ (Pending(d, p)' \/ In(d, "lost")')
  BY DEF Reported
<1>1. Watched
  BY DEF Watched, Faults
<1>2. \A d \in Calls : Counts(d, b, p)' <=> Counts(d, b, p)
  BY DEF Counts
<1>3. Owed(b, p)
  BY <1>2, SameUse DEF Owed, vars
<1>4. CASE Told(b, p)
  BY <1>4 DEF Told
<1>5. ASSUME NEW d \in Calls, Counts(d, b, p), Pending(d, p) \/ In(d, "lost")
      PROVE  Told(b, p)' \/ (Counts(d, b, p)' /\ (Pending(d, p)' \/ In(d, "lost")'))
  <2>1. CASE d # c
    BY <1>2, <1>5, <2>1 DEF Pending, In
  <2>2. CASE d = c
    <3>1. Pending(c, p) /\ Counts(c, b, p)
      BY <1>5, <2>2
    <3>2. call[c].pc \in Checking
      BY <3>1 DEF Pending, Unread, Untold, Checking, Checked
    <3>3. call[c].bot = b
      BY <3>1, <3>2 DEF Counts, Counted
    <3>4. Pending(c, p)' \/ <<"exceeded", b, p, 1>> \in sent'
      BY <1>1, <1>3, <3>1, <3>3
    <3> QED
      BY <1>2, <2>2, <3>1, <3>4 DEF Told
  <2> QED
    BY <2>1, <2>2
<1> QED
  BY <1>1, <1>3, <1>4, <1>5 DEF Reported

LEMMA StepReports ==
  ASSUME TInv, CallInv, CallTypes, Reported, UNCHANGED <<vars, world>>, NEW c \in Calls,
         \A d \in Calls : Counted(d), Call(c) \/ CallStep(c) \/ GiveUpCheck(c)
  PROVE  Reported'
<1>0. DOMAIN call = Calls /\ DOMAIN call[c] = Fields /\ DOMAIN call[c].usage = Periods /\ Counted(c)
  BY DEF CallInv, Own, Counted
<1>1. \A d \in Calls \ {c} : call'[d] = call[d]
  BY StepTyped
<1>2. ASSUME NEW pc, Move(c, pc)
      PROVE  call'[c].pc = pc /\ call'[c].usage = call[c].usage
  BY <1>0, <1>2 DEF Move, Put, Fields
<1>3. /\ "daily" \in Periods /\ "monthly" \in Periods /\ \A p \in Periods : p = "daily" \/ p = "monthly"
      /\ Unread("daily") = {"getbot", "daily"} /\ Unread("monthly") = {"getbot", "daily", "monthly"}
      /\ Untold("daily") = {"monthly", "lookdaily", "telldaily"}
      /\ Untold("monthly") = {"lookdaily", "telldaily", "lookmonthly", "tellmonthly"}
      /\ Look["daily"] = "lookdaily" /\ Look["monthly"] = "lookmonthly"
      /\ Tell["daily"] = "telldaily" /\ Tell["monthly"] = "tellmonthly"
      /\ After("daily") = "lookmonthly" /\ After("monthly") = "end"
  BY DEF Periods, Unread, Untold, Look, Tell, After
<1>l. ~In(c, "lost")
  BY NotYetLogged, LoggedForGood DEF CallStep, LogUsage, In, Unlogged, Checked, Early
<1>4. CASE \/ Call(c) \/ FindToken(c) \/ FindKey(c) \/ FindBot(c) \/ Route(c) \/ ListKeys(c) \/ TakeKey(c)
           \/ Send(c) \/ Answer(c) \/ Timeout(c)
  <2>1. UNCHANGED <<log, day, sent>>
    BY <1>4 DEF Call, FindToken, FindKey, FindBot, Route, ListKeys, TakeKey, Send, Answer, Timeout
  <2>2. call[c].pc \in Unlogged
    BY <1>4, NotYetLogged
  <2>3. \A p \in Periods : ~Pending(c, p)
    BY <1>3, <2>2 DEF Pending, Unlogged, Early
  <2> QED
    BY <1>0, <1>1, <1>l, <2>1, <2>3, StillPending
<1>5. CASE LogUsage(c)
  <2> SUFFICES ASSUME Watched', NEW b \in Bots, NEW p \in Periods, Owed(b, p)'
               PROVE  Told(b, p)' \/ \E d \in Calls : Counts(d, b, p)' /\ (Pending(d, p)' \/ In(d, "lost")')
    BY DEF Reported
  <2>1. /\ UNCHANGED <<day, sent>> /\ call[c].pc = "log" /\ (log' = Row(c) \/ log' = log)
        /\ call'[c].pc = IF call[c].fate = "ok" THEN "getbot" ELSE "end"
    BY <1>2, <1>5 DEF LogUsage, In
  <2>2. log[c].tokens # 1 /\ Watched
    <3>1. log[c].tokens # 1
      BY <1>0, <2>1 DEF Counted, Unlogged
    <3>2. Watched
      BY <2>1 DEF Watched, Faults
    <3> QED
      BY <3>1, <3>2
  <2>3. \A d \in Calls \ {c} : log'[d] = log[d]
    BY <2>1 DEF Row, CallTypes, Bookkeeping
  <2>4. CASE Counts(c, b, p)'
    <3>1. call[c].fate = "ok"
      BY <2>1, <2>2, <2>4 DEF Counts, Row, CallTypes, Bookkeeping
    <3>2. Pending(c, p)'
      BY <1>3, <2>1, <3>1 DEF Pending
    <3> QED
      BY <2>4, <3>2
  <2>5. CASE ~Counts(c, b, p)'
    <3>1. \A d \in Calls : Counts(d, b, p)' <=> Counts(d, b, p)
      BY <2>1, <2>2, <2>3, <2>5 DEF Counts
    <3>2. Owed(b, p)
      BY <3>1, SameUse DEF Owed, vars
    <3>3. CASE Told(b, p)
      BY <2>1, <3>3 DEF Told
    <3>4. ASSUME NEW d \in Calls, Counts(d, b, p), Pending(d, p) \/ In(d, "lost")
          PROVE  Counts(d, b, p)' /\ (Pending(d, p)' \/ In(d, "lost")')
      <4>1. d # c
        BY <2>2, <3>4 DEF Counts
      <4> QED
        BY <1>1, <3>1, <3>4, <4>1 DEF Pending, In
    <3> QED
      BY <2>2, <3>2, <3>3, <3>4 DEF Reported
  <2> QED
    BY <2>4, <2>5
<1>6. CASE GetBot(c)
  <2>1. UNCHANGED <<log, day, sent>> /\ call[c].pc = "getbot"
    BY <1>6 DEF GetBot, In
  <2>2. ASSUME NEW p \in Periods, Owed(call[c].bot, p)
        PROVE  Pending(c, p)'
    <3>1. LiveBot(call[c].bot)
      BY <1>0, <2>1, <2>2 DEF Owed, Counted, Searching, LiveBot, TInv, TypeOK
    <3>2. call'[c].pc = "daily"
      BY <1>2, <1>6, <3>1 DEF GetBot
    <3> QED
      BY <1>3, <3>2 DEF Pending
  <2> QED
    BY <1>0, <1>1, <1>l, <2>1, <2>2, StillPending
<1>7. ASSUME NEW o \in Periods, ReadUsage(c, o)
      PROVE  Reported'
  <2> DEFINE b == call[c].bot
  <2>1. UNCHANGED <<log, day, sent>> /\ call[c].pc = o
    BY <1>7 DEF ReadUsage, In
  <2>2. /\ call'[c].pc = IF o = "daily" THEN "monthly" ELSE "lookdaily"
        /\ call'[c].usage = [call[c].usage EXCEPT ![o] = Used(b, o)]
    BY <1>0, <1>7 DEF ReadUsage, Put, Fields
  <2>3. call'[c].usage[o] = Used(b, o) /\ \A p \in Periods \ {o} : call'[c].usage[p] = call[c].usage[p]
    BY <1>0, <2>2
  <2> HIDE DEF b
  <2>4. ASSUME NEW p \in Periods, Owed(b, p), Pending(c, p)
        PROVE  Pending(c, p)'
    <3>1. Used(b, p) >= Limit[p]
      BY <2>4 DEF Owed
    <3>2. CASE o = "daily"
      BY <1>3, <2>1, <2>2, <2>3, <2>4, <3>1, <3>2 DEF Pending
    <3>3. CASE o = "monthly"
      BY <1>3, <2>1, <2>2, <2>3, <2>4, <3>1, <3>3 DEF Pending
    <3> QED
      BY <1>3, <3>2, <3>3
  <2> QED
    BY <1>0, <1>1, <1>l, <2>1, <2>4, StillPending DEF b
<1>9. ASSUME NEW p \in Periods, LookForMessage(c, p)
      PROVE  Reported'
  <2>1. UNCHANGED <<log, day, sent>> /\ call[c].pc = Look[p]
    BY <1>9 DEF LookForMessage, In
  <2>2. /\ call'[c].pc \in {After(p), Tell[p]} /\ call'[c].usage = call[c].usage
        /\ call[c].usage[p] >= Limit[p] => call'[c].pc = Tell[p]
    BY <1>2, <1>9 DEF LookForMessage
  <2>3. \A o \in Periods : Pending(c, o) => Pending(c, o)'
    BY <1>3, <2>1, <2>2 DEF Pending
  <2> QED
    BY <1>0, <1>1, <1>l, <2>1, <2>3, StillPending
<1>10. ASSUME NEW p \in Periods, SendMessage(c, p)
       PROVE  Reported'
  <2>1. UNCHANGED <<log, day>> /\ call[c].pc = Tell[p] /\ call'[c].pc = After(p) /\ call'[c].usage = call[c].usage
    BY <1>2, <1>10 DEF SendMessage, In
  <2>2. sent' = sent \cup {Key(c, p)}
    BY <1>10 DEF SendMessage
  <2>3. Watched /\ call[c].usage[p] >= Limit[p] => Key(c, p) = <<"exceeded", call[c].bot, p, 1>>
    BY <1>3 DEF Watched, Key, Kind
  <2>4. \A o \in Periods : Watched /\ Pending(c, o) =>
          Pending(c, o)' \/ <<"exceeded", call[c].bot, o, 1>> \in sent'
    BY <1>3, <2>1, <2>2, <2>3 DEF Pending
  <2> QED
    BY <1>0, <1>1, <1>l, <2>1, <2>2, <2>4, StillPending
<1>11. CASE GiveUpCheck(c)
  BY <1>11 DEF GiveUpCheck, Reported, Watched, Faults
<1> QED
  BY <1>4, <1>5, <1>6, <1>7, <1>9, <1>10, <1>11 DEF CallStep

\* A crash loses checks, and what it leaves of them is known to be lost.
LEMMA CrashReports ==
  ASSUME Reported, Crash, LoseCalls, UNCHANGED world
  PROVE  Reported'
<1> SUFFICES ASSUME Watched', NEW b \in Bots, NEW p \in Periods, Owed(b, p)'
             PROVE  Told(b, p)' \/ \E c \in Calls : Counts(c, b, p)' /\ (Pending(c, p)' \/ In(c, "lost")')
  BY DEF Reported
<1>1. UNCHANGED <<bot, log, sent, day>>
  BY DEF Crash, LoseCalls
<1>2. Watched /\ \A c \in Calls : Counts(c, b, p)' <=> Counts(c, b, p)
  BY <1>1 DEF Watched, Faults, Counts
<1>3. Owed(b, p)
  BY <1>1, <1>2, SameUse DEF Owed
<1>4. CASE Told(b, p)
  BY <1>1, <1>4 DEF Told
<1>5. ASSUME NEW c \in Calls, Counts(c, b, p), Pending(c, p) \/ In(c, "lost")
      PROVE  Counts(c, b, p)' /\ In(c, "lost")'
  <2>1. Pending(c, p) => call[c].pc \notin Over
    BY DEF Pending, Unread, Untold, Over
  <2> QED
    BY <1>2, <1>5, <2>1, LostOrOver DEF In
<1> QED
  BY <1>2, <1>3, <1>4, <1>5 DEF Reported

LEMMA ReportKept ==
  ASSUME TInv, TInv', CallInv, CallTypes, ReportInv, [PipelineNext /\ UNCHANGED world]_<<vars, callVars, world>>
  PROVE  ReportInv'
<1>1. Born' /\ \A b \in Bots : (bot[b] # "none" => bot'[b] # "none") /\ (bot[b] = "deleted" => bot'[b] = "deleted")
  <2>1. [Next /\ UNCHANGED world]_<<vars, world>>
    BY DEF PipelineNext, TokenStep, Midnight, Next
  <2> QED
    BY <2>1, BornKept, BotsAge DEF ReportInv
<1>2. CASE UNCHANGED <<call, log, sent>> /\ (day' = day \/ day' = 2) /\ world' = world
  <2>1. \A c \in Calls : Counted(c)'
    BY <1>1, <1>2 DEF ReportInv, Counted
  <2>2. Watched' => Watched /\ day' = day
    BY <1>2 DEF Watched, Faults
  <2>3. ASSUME day' = day, NEW b \in Bots, NEW p \in Periods
        PROVE  /\ Owed(b, p)' => Owed(b, p)
               /\ Told(b, p) => Told(b, p)'
               /\ \A c \in Calls : Counts(c, b, p) => Counts(c, b, p)'
    <3>1. \A c \in Calls : Counts(c, b, p)' <=> Counts(c, b, p)
      BY <1>2, <2>3 DEF Counts
    <3> QED
      BY <1>1, <1>2, <3>1, SameUse DEF Owed, Told
  <2>4. \A p \in Periods : \A c \in Calls : (Pending(c, p) => Pending(c, p)') /\ (In(c, "lost") => In(c, "lost")')
    BY <1>2 DEF Pending, In
  <2> QED
    BY <1>1, <2>1, <2>2, <2>3, <2>4 DEF ReportInv, Reported
<1>3. ASSUME NEW c \in Calls, UNCHANGED <<vars, world>>, Call(c) \/ CallStep(c) \/ GiveUpCheck(c)
      PROVE  ReportInv'
  BY <1>1, <1>3, StepCounted, StepReports DEF ReportInv
<1>4. ASSUME Crash, LoseCalls, UNCHANGED world
      PROVE  ReportInv'
  <2>1. bot' = bot /\ log' = log
    BY <1>4 DEF Crash, LoseCalls
  <2>2. \A c \in Calls : Counted(c)'
    BY <1>4, <2>1, LostOrOver DEF ReportInv, Counted, Searching, Checking, Checked, Unlogged, Early
  <2> QED
    BY <1>1, <1>4, <2>2, CrashReports DEF ReportInv
<1> QED
  BY <1>2, <1>3, <1>4 DEF PipelineNext, TokenStep, Midnight, callVars

LEMMA ReportAtFirst == ASSUME PipelineInit PROVE ReportInv
<1>1. Silent.pc = "idle" /\ DOMAIN Silent.usage = Periods
  BY DEF Silent
<1>2. Born
  BY DEF PipelineInit, Init, Born, Idle, NoToken
<1>3. \A c \in Calls : Counted(c)
  BY <1>1 DEF PipelineInit, Counted, Searching, Checking, Checked, Unlogged, Early
<1>4. ASSUME NEW b \in Bots, NEW p \in Periods
      PROVE  ~Owed(b, p)
  <2>1. {c \in Calls : Counts(c, b, p)} = {}
    BY DEF PipelineInit, Counts
  <2>2. Used(b, p) = 0
    BY <2>1, FS_EmptySet DEF Used
  <2>3. Limit[p] \in Nat \ {0}
    BY PipelineAssumption
  <2> QED
    BY <2>2, <2>3 DEF Owed
<1> QED
  BY <1>2, <1>3, <1>4 DEF ReportInv, Reported

\* When every call of a bot that was logged has had its check, the user was told
\* of every limit of today and of this month that they have reached, for any
\* number of bots and calls and any limits, whichever call read the usage before
\* another was logged, and though the process may have died with the checks of
\* other bots; no query fails, the bot is there and the day is not over.
THEOREM LimitsAreTold == PipelineSpec => []LimitIsReported
<1> DEFINE Ind == Given /\ CallInv /\ CallTypes /\ ReportInv
           Moves == [PipelineNext /\ UNCHANGED world]_<<vars, callVars, world>>
<1>1. PipelineInit => Ind
  BY GivenAtFirst, CallAtFirst, CallTypesAtFirst, ReportAtFirst DEF PipelineInit
<1>2. TInv /\ TInv' /\ Ind /\ Moves => Ind'
  <2>1. Moves => [Next /\ UNCHANGED world]_<<vars, world>>
    BY DEF PipelineNext, TokenStep, Midnight, Next
  <2>2. TInv /\ TInv' /\ Given /\ CallInv /\ Moves => Given' /\ CallInv'
    BY <2>1, GivenKept, CallsKept
  <2>3. TInv /\ CallInv /\ CallTypes /\ Moves => CallTypes'
    BY CallTypesKept
  <2>4. TInv /\ TInv' /\ CallInv /\ CallTypes /\ ReportInv /\ Moves => ReportInv'
    BY ReportKept
  <2> QED
    BY <2>2, <2>3, <2>4
<1>3. Ind => LimitIsReported
  BY DEF ReportInv, Reported, Watched, Owed, Told, LimitIsReported, Pending, Unread, Untold, In
<1> HIDE DEF Ind
<1> QED
  BY <1>1, <1>2, <1>3, TokensAsSpecified, Types, PTL DEF PipelineSpec
=============================================================================
