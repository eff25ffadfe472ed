--------------------------- MODULE ProxyPipeline ---------------------------
(***************************************************************************)
(* A container's call to its provider, through the key proxy: the token is *)
(* looked up in the table of ProxyToken (or, in direct mode, by the hash   *)
(* in the bot's row), a key is taken, the request may be routed to another *)
(* vendor by its complexity, it is forwarded and logged, and the bot's     *)
(* quota is checked in the background.                                     *)
(***************************************************************************)
EXTENDS ProxyToken, Sequences, SequencesExt

CONSTANTS
  Calls,          \* bound: calls, each made once
  Vendor, Tag,    \* of each key; a key without a tag has None
  BotTags,        \* the tags of the bots, in order
  Limit, Warning, \* of a [daily, monthly]: tokens at which the user is told
  Wrap            \* a multiple of the lengths of lists of keys

Periods == {"daily", "monthly"}
Vendors == {Vendor[k] : k \in Keys}
Days == {1, 2}

ASSUME PipelineAssumption ==
  /\ {Limit, Warning} \subseteq [Periods -> Nat \ {0}] /\ Wrap \in Nat \ {0}
  /\ \A k \in Keys : \A n \in 1 .. Cardinality({l \in Keys : Vendor[l] = Vendor[k]}) : Wrap % n = 0
  /\ Vendor \in [Keys -> STRING] /\ "none" \notin Vendors /\ None \notin Keys /\ IsFiniteSet(Keys)
  /\ BotTags \in Seq({BotTags[i] : i \in DOMAIN BotTags})
  /\ \A w \in Worlds : /\ w.calls \subseteq Calls /\ w.urls \subseteq Vendors
                       /\ {w.direct, w.routing, w.midnight} \subseteq BOOLEAN

VARIABLES
  call,        \* calls
  index,       \* roundRobinIndex (modulo Wrap: it is used modulo a list's length)
  uses,        \* history: how often each key was taken from a list, since keys
               \* changed, a call moved the index by a list read before that, or
               \* the process started
  log,         \* the usage log: of each call its number of rows, the bot, the day
  sent,        \* messages to the user by kind, bot, period and day
  day          \* today

callVars == <<call, index, uses, log, sent, day>>

Silent == [pc |-> "idle", token |-> None, dead |-> FALSE, url |-> "none", bot |-> None, key |-> None,
           vendor |-> "none", conf |-> "none", tries |-> <<>>, list |-> {}, fate |-> "none",
           usage |-> [p \in Periods |-> 0]]
In(c, pc) == call[c].pc = pc
Put(c, q) == call' = [call EXCEPT ![c] = q]
Move(c, pc) == Put(c, [call[c] EXCEPT !.pc = pc])
Refuse(c) == Move(c, "refused")

\* A container of a bot calls the address of a vendor with the token it was given.
Call(c) ==
  /\ c \in world.calls /\ In(c, "idle")
  /\ \E b \in Bots, v \in world.urls :
       /\ env[b] \in Tokens
       /\ Put(c, [Silent EXCEPT !.token = env[b], !.url = v, !.pc = IF world.direct THEN "findbot" ELSE "findtoken",
                                !.dead = ~Accepts(env[b])])
  /\ UNCHANGED <<index, uses, log, sent, day>>

(* validateToken, or direct mode                                           *)

\* validateToken that does not ask whether the token was revoked or has expired.
FindAnyToken(c) ==
  /\ In(c, "findtoken")
  /\ \/ \E b \in Bots : /\ tok[b].id = call[c].token
                        /\ Put(c, [call[c] EXCEPT !.bot = b, !.pc = "findkey"])
     \/ (\A b \in Bots : tok[b].id # call[c].token) /\ Refuse(c)
  /\ UNCHANGED <<index, uses, log, sent, day>>

FindToken(c) ==
  /\ In(c, "findtoken")
  /\ \/ \E b \in Bots : /\ tok[b] = [id |-> call[c].token, state |-> "valid"]
                        /\ Put(c, [call[c] EXCEPT !.bot = b, !.pc = "findkey"])
     \/ (Faults \/ \A b \in Bots : tok[b] # [id |-> call[c].token, state |-> "valid"]) /\ Refuse(c)
  /\ UNCHANGED <<index, uses, log, sent, day>>

\* The token is for the vendor of its key, and refused at the address of another.
FindKey(c) ==
  /\ In(c, "findkey")
  /\ LET k == KeyFor[call[c].bot]
         fits == k \in keys /\ Vendor[k] = call[c].url
     IN  \/ fits /\ Put(c, [call[c] EXCEPT !.key = k, !.conf = Vendor[k], !.pc = "route"])
         \/ (Faults \/ ~fits) /\ Refuse(c)
  /\ UNCHANGED <<index, uses, log, sent, day>>

FindBot(c) ==
  /\ In(c, "findbot")
  /\ \/ \E b \in Bots :
          /\ LiveBot(b) /\ hash[b] = call[c].token
          /\ Put(c, [call[c] EXCEPT !.bot = b, !.vendor = call[c].url, !.pc = "list",
                                    !.tries = BotTags \o <<"default", "any">>])
     \/ (Faults \/ \A b \in Bots : ~LiveBot(b) \/ hash[b] # call[c].token) /\ Refuse(c)
  /\ UNCHANGED <<index, uses, log, sent, day>>

(* applyComplexityRouting: one of the bot's models, of whatever vendor     *)

Route(c) ==
  /\ In(c, "route")
  /\ \/ Move(c, "send")
     \/ /\ world.routing
        /\ \E k \in keys : Put(c, [call[c] EXCEPT !.vendor = Vendor[k], !.pc = "list",
                                                  !.tries = <<"default", "any">>])
  /\ UNCHANGED <<index, uses, log, sent, day>>

(* selectKeyForBot: nobody asks whose the keys of a vendor are             *)

Class(t, k) == t = "any" \/ Tag[k] = IF t = "default" THEN None ELSE t

Cache(c) == <<call[c].vendor, Head(call[c].tries)>>
Members(x) == {k \in keys : Vendor[k] = x[1] /\ Class(x[2], k)}
Listed(c) == Members(Cache(c))

\* Without a key, a routed call goes on as it was.
NoKey(c) == IF call[c].key = None THEN Refuse(c) ELSE Move(c, "send")

ListKeys(c) ==
  /\ In(c, "list")
  /\ \/ /\ Listed(c) # {}
        /\ Put(c, [call[c] EXCEPT !.list = Listed(c), !.pc = "take"])
     \/ /\ Listed(c) = {} /\ Len(call[c].tries) > 1
        /\ Put(c, [call[c] EXCEPT !.tries = Tail(@)])
     \/ (Faults \/ (Listed(c) = {} /\ Len(call[c].tries) = 1)) /\ NoKey(c)
  /\ UNCHANGED <<index, uses, log, sent, day>>

Nth(list, i) == SetToSeq(list)[i + 1]

Unused == [k \in Keys |-> 0]
Count(c, k) ==
  uses' = IF call[c].list = Listed(c) THEN [uses EXCEPT ![Cache(c)][k] = @ + 1]
                                      ELSE [uses EXCEPT ![Cache(c)] = Unused]

\* The list begins with its first key whenever it is read.
TakeFirst(c) ==
  /\ In(c, "take")
  /\ LET k == Nth(call[c].list, 0)
     IN  /\ Count(c, k)
         /\ Put(c, [call[c] EXCEPT !.key = k, !.conf = IF @ = "none" THEN call[c].vendor ELSE @,
                                   !.list = {}, !.pc = IF call[c].key = None THEN "route" ELSE "send"])
  /\ UNCHANGED <<index, log, sent, day>>

\* selectFromKeys. The vendor configuration was taken before, unless there was
\* no key yet.
TakeKey(c) ==
  /\ In(c, "take")
  /\ LET k == Nth(call[c].list, index[Cache(c)] % Cardinality(call[c].list))
     IN  /\ index' = [index EXCEPT ![Cache(c)] = (@ + 1) % Wrap]
         /\ Count(c, k)
         /\ \/ Put(c, [call[c] EXCEPT !.key = k, !.conf = IF @ = "none" THEN call[c].vendor ELSE @,
                                      !.list = {}, !.pc = IF call[c].key = None THEN "route" ELSE "send"])
            \/ Faults /\ NoKey(c)
  /\ UNCHANGED <<log, sent, day>>

(* forwardToUpstream and logUsage                                          *)

Fates == {"ok", "refused", "silent"}

Send(c) ==
  /\ In(c, "send")
  /\ \E f \in Fates : Put(c, [call[c] EXCEPT !.fate = f, !.pc = "upstream"])
  /\ UNCHANGED <<index, uses, log, sent, day>>

\* The provider answers, or the connection breaks.
Answer(c) ==
  /\ In(c, "upstream") /\ call[c].fate # "silent" /\ Move(c, "log")
  /\ UNCHANGED <<index, uses, log, sent, day>>

\* The provider is silent for 120 s.
Timeout(c) ==
  /\ In(c, "upstream") /\ call[c].fate = "silent" /\ Move(c, "log")
  /\ UNCHANGED <<index, uses, log, sent, day>>

Row(c) == [log EXCEPT ![c] = [rows |-> @.rows + 1, key |-> call[c].key, bot |-> call[c].bot,
                              tokens |-> IF call[c].fate = "ok" THEN 1 ELSE 0, day |-> day]]

\* checkAndNotify, which is not awaited, begins before the row is written.
LogLast(c) ==
  \/ /\ In(c, "log") /\ Move(c, IF call[c].fate = "ok" THEN "getbot" ELSE "end")
     /\ UNCHANGED <<index, uses, log, sent, day>>
  \/ /\ log[c].rows = 0 /\ call[c].pc \notin {"idle", "log"} /\ call[c].fate # "none"
     /\ log' = Row(c) /\ UNCHANGED <<call, index, uses, sent, day>>

\* Only what the provider answered is logged.
LogAnswers(c) ==
  /\ In(c, "log") /\ Move(c, IF call[c].fate = "ok" THEN "getbot" ELSE "end")
  /\ log' = IF call[c].fate = "ok" THEN Row(c) ELSE log
  /\ UNCHANGED <<index, uses, sent, day>>

\* An error in the logging is swallowed. Only a call that succeeds has its
\* bot's quota checked.
LogUsage(c) ==
  /\ In(c, "log") /\ Move(c, IF call[c].fate = "ok" THEN "getbot" ELSE "end")
  /\ log' = Row(c) \/ (Faults /\ UNCHANGED log)
  /\ UNCHANGED <<index, uses, sent, day>>

(* checkAndNotify, while the call is already answered                      *)

\* Every call that succeeds uses as many tokens as every other: one.
Counts(c, b, p) == log[c].bot = b /\ log[c].tokens = 1 /\ (p = "monthly" \/ log[c].day = day)
Used(b, p) == Cardinality({c \in Calls : Counts(c, b, p)})

GetBot(c) ==
  /\ In(c, "getbot") /\ Move(c, IF LiveBot(call[c].bot) THEN "daily" ELSE "end")
  /\ UNCHANGED <<index, uses, log, sent, day>>

ReadUsage(c, p) ==
  /\ In(c, p)
  /\ Put(c, [call[c] EXCEPT !.usage[p] = Used(call[c].bot, p), !.pc = IF p = "daily" THEN "monthly" ELSE "lookdaily"])
  /\ UNCHANGED <<index, uses, log, sent, day>>

Look == [daily |-> "lookdaily", monthly |-> "lookmonthly"]
Tell == [daily |-> "telldaily", monthly |-> "tellmonthly"]
After(p) == IF p = "daily" THEN Look["monthly"] ELSE "end"

Kind(c, p) == IF call[c].usage[p] >= Limit[p] THEN "exceeded" ELSE "warning"
Key(c, p) == <<Kind(c, p), call[c].bot, p, IF p = "daily" THEN day ELSE 1>>

\* A message of the same key is looked for among the NOTIFICATIONs, but they are
\* created as SYSTEM: none is ever found, and every later call tells the user
\* again.
LookForMessage(c, p) ==
  /\ In(c, Look[p])
  /\ Move(c, IF call[c].usage[p] >= Limit[p] \/ call[c].usage[p] >= Warning[p] THEN Tell[p] ELSE After(p))
  /\ UNCHANGED <<index, uses, log, sent, day>>

SendMessage(c, p) ==
  /\ In(c, Tell[p]) /\ Move(c, After(p))
  /\ sent' = sent \cup {Key(c, p)}
  /\ UNCHANGED <<index, uses, log, day>>

\* A query of checkAndNotify fails.
GiveUpCheck(c) ==
  /\ Faults /\ call[c].pc \in {"getbot", "daily", "monthly"} \cup {Look[p] : p \in Periods} \cup {Tell[p] : p \in Periods}
  /\ Move(c, "end")
  /\ UNCHANGED <<index, uses, log, sent, day>>

Midnight ==
  /\ world.midnight /\ day = 1 /\ day' = 2
  /\ UNCHANGED <<vars, call, index, uses, log, sent>>

Over == {"idle", "refused", "end", "lost"}
Caches == Vendors \X ({"default", "any"} \cup {BotTags[i] : i \in DOMAIN BotTags})

\* The process dies with its calls, the checks nobody awaits and the index.
LoseCalls ==
  /\ call' = [c \in Calls |-> IF call[c].pc \in Over THEN call[c] ELSE [Silent EXCEPT !.pc = "lost"]]
  /\ index' = [x \in Caches |-> 0] /\ uses' = [x \in Caches |-> Unused]
  /\ UNCHANGED <<log, sent, day>>

-----------------------------------------------------------------------------
PipelineInit ==
  /\ Init /\ call = [c \in Calls |-> Silent] /\ index = [x \in Caches |-> 0]
  /\ uses = [x \in Caches |-> Unused] /\ day = 1 /\ sent = {}
  /\ log = [c \in Calls |-> [rows |-> 0, key |-> None, bot |-> None, tokens |-> 0, day |-> 1]]

CallStep(c) ==
  \/ FindToken(c) \/ FindKey(c) \/ FindBot(c) \/ Route(c) \/ ListKeys(c) \/ TakeKey(c)
  \/ Send(c) \/ Answer(c) \/ Timeout(c) \/ LogUsage(c) \/ GetBot(c)
  \/ \E p \in Periods : ReadUsage(c, p) \/ LookForMessage(c, p) \/ SendMessage(c, p)

TokenStep ==
  /\ Step /\ UNCHANGED <<call, index, log, sent, day>>
  /\ uses' = IF keys' = keys THEN uses ELSE [x \in Caches |-> Unused]

PipelineNext ==
  \/ TokenStep \/ Midnight \/ (Crash /\ LoseCalls)
  \/ \E c \in Calls : UNCHANGED vars /\ (Call(c) \/ CallStep(c) \/ GiveUpCheck(c))

PipelineSpec == PipelineInit /\ [][PipelineNext /\ UNCHANGED world]_<<vars, callVars, world>>

-----------------------------------------------------------------------------
Places == Over \cup {"findtoken", "findkey", "findbot", "route", "list", "take", "send",
                    "upstream", "log", "getbot"} \cup Periods \cup {Look[p] : p \in Periods}
             \cup {Tell[p] : p \in Periods}
Sent(c) == call[c].fate # "none"

\* Every variable keeps its type.
PipelineTypeOK ==
  /\ TypeOK /\ index \in [Caches -> 0 .. Wrap - 1] /\ day \in Days
  /\ sent \subseteq {"exceeded", "warning"} \X (Bots \cup {None}) \X Periods \X Days
  /\ \A c \in Calls :
       /\ call[c].pc \in Places /\ call[c].bot \in Bots \cup {None} /\ call[c].list \subseteq Keys
       /\ {call[c].key, log[c].key} \subseteq Keys \cup {None}
       /\ log[c].rows \in Nat /\ log[c].bot \in Bots \cup {None}
       /\ Sent(c) => call[c].key # None

\* What the proxy accepts, what a container holds and whether a bot exists agree,
\* with requests one at a time: the proxy serves no erased bot, also after a
\* crash, and where no query fails and the process lives on, no request that came
\* and went locks a running bot out (the end of its token's day or key may).
TokensFollowBots == PipelineTypeOK /\ NoTokenAfterDelete /\ ContainerTokenIsCurrent

\* A token that was no longer accepted when a call came in gets no key and no
\* answer from a provider, whatever is registered, deleted or revoked between
\* the queries of the call.
DeadTokenGetsNoKey == \A c \in Calls : ~world.direct /\ call[c].dead => call[c].key = None

\* A call goes out with the configuration of the vendor whose address was called,
\* and with a key of that vendor or of the one it was routed to; in zero-trust
\* mode, unless it was routed, with the key its bot was registered with. (A key
\* from a list may be anybody's; and routing, which takes another key, leaves the
\* configuration as it was, so that the two need not fit.)
KeyMatchesVendor ==
  \A c \in Calls : Sent(c) =>
    /\ call[c].conf = call[c].url
    /\ Vendor[call[c].key] \in {call[c].url, call[c].vendor}
    /\ world.direct \/ call[c].vendor # "none" \/ call[c].key = KeyFor[call[c].bot]

\* A provider's key goes out only for a token that was accepted when the call
\* came in, and where the address or the routing says, while tokens and keys
\* change between the queries of the call.
KeysGoWhereTheyMay == DeadTokenGetsNoKey /\ KeyMatchesVendor

\* The keys of a list take turns, though every call reads the list, waits, and
\* then moves the index that all calls share. They start anew when the list
\* changes, when a call still moves the index by the old one, and when the
\* process restarts and the index with it.
KeysTakeTurns == \A x \in Caches : \A k, l \in Members(x) : uses[x][k] <= uses[x][l] + 1

\* When every call of a bot that was logged has had its check, the user knows of
\* every limit of today or this month that they have reached, though each check
\* was begun by one call and may have read before another was logged, and the
\* process may have died with the checks of other bots. (A check it died with is
\* not made up for until the bot's next call.)
LimitIsReported ==
  ~Faults /\ day = 1 =>
    \A b \in Bots, p \in Periods :
      /\ bot[b] # "deleted" /\ Used(b, p) >= Limit[p]
      /\ \A c \in Calls : Counts(c, b, p) => In(c, "end")
      => <<"exceeded", b, p, 1>> \in sent

\* Every call that was forwarded is in the usage log, once, with the key it
\* went out with, whether the provider answered or not, unless the process died
\* with it.
ForwardedIsLogged ==
  ~Faults => \A c \in Calls : In(c, "end") => log[c].rows = 1 /\ log[c].key = call[c].key

=============================================================================
