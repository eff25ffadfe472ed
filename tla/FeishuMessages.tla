--------------------------- MODULE FeishuMessages ---------------------------
(***************************************************************************)
(* FeishuMessageHandlerService: every message of every connection comes to *)
(* one handler, which drops ids it has seen in the last MESSAGE_ID_TTL,    *)
(* asks the bot's container for an answer and replies. Feishu delivers a   *)
(* message again as long as it is not acknowledged, and two sockets of one *)
(* channel may each get it. Handler calls run concurrently, one step per   *)
(* `await`; the set of seen ids does not survive a crash.                  *)
(***************************************************************************)
EXTENDS FeishuWorld, Naturals, FiniteSets

CONSTANTS
  Messages,
  Calls,       \* handler calls in flight (a call is reused when it ends)
  MaxReplies   \* bound on the replies counted per message

ASSUME FeishuMessagesAssumption ==
  /\ None \notin Messages
  /\ MaxReplies \in Nat
  /\ \A w \in Worlds : {w.slow, w.faults, w.crashes} \subseteq BOOLEAN

VARIABLES
  seen,        \* processedMessageIds
  unacked,     \* messages Feishu still wants to deliver
  call,        \* handler calls: message and pc
  replies,     \* replies the chat has received, per message
  running      \* is the bot running?

handlerVars == <<seen, unacked, call, replies, running>>

Slow == world.slow        \* may a call, or a redelivery, outlast MESSAGE_ID_TTL (60 s)?

NoCall == [msg |-> None, pc |-> "idle"]
CallAt(k, pc) == call[k].pc = pc
CallGoto(k, pc) == call' = [call EXCEPT ![k].pc = pc]

\* The check without the mark.
DeliverUnmarked(k, m) ==
  /\ CallAt(k, "idle") /\ m \in unacked
  /\ IF m \in seen
       THEN unacked' = unacked \ {m} /\ UNCHANGED call
       ELSE call' = [call EXCEPT ![k] = [msg |-> m, pc |-> "lookup"]] /\ UNCHANGED unacked
  /\ UNCHANGED <<seen, replies, running>>

\* Feishu sends a message that is not acknowledged, over any open socket.
\* Whether it was seen, and the mark, are one synchronous step.
Deliver(k, m) ==
  /\ CallAt(k, "idle") /\ m \in unacked
  /\ IF m \in seen
       THEN unacked' = unacked \ {m} /\ UNCHANGED <<seen, call>>
       ELSE /\ seen' = seen \cup {m}
            /\ call' = [call EXCEPT ![k] = [msg |-> m, pc |-> "lookup"]]
            /\ UNCHANGED unacked
  /\ UNCHANGED <<replies, running>>

\* The end of a call acknowledges the message, whatever came of it.
Finish(k) ==
  /\ call' = [call EXCEPT ![k] = NoCall]
  /\ unacked' = unacked \ {call[k].msg}

\* A bot that does not run has its messages dropped.
LookupBot(k) ==
  /\ CallAt(k, "lookup")
  /\ \/ running /\ CallGoto(k, "chat") /\ UNCHANGED unacked
     \/ (Faults \/ ~running) /\ Finish(k)
  /\ UNCHANGED <<seen, replies, running>>

\* A failed chat that throws out of the handler is never acknowledged.
ChatThrows(k) ==
  /\ CallAt(k, "chat")
  /\ \/ CallGoto(k, "reply")
     \/ Faults /\ call' = [call EXCEPT ![k] = NoCall]
  /\ UNCHANGED <<seen, unacked, replies, running>>

\* openClawClient.chat; errors are logged, and the message is done with.
Chat(k) ==
  /\ CallAt(k, "chat")
  /\ \/ CallGoto(k, "reply") /\ UNCHANGED unacked
     \/ Faults /\ Finish(k)
  /\ UNCHANGED <<seen, replies, running>>

\* replyMessage has reached Feishu; the call has not ended yet.
Reply(k) ==
  /\ CallAt(k, "reply")
  /\ \/ /\ replies[call[k].msg] < MaxReplies
        /\ replies' = [replies EXCEPT ![call[k].msg] = @ + 1]
        /\ CallGoto(k, "ack") /\ UNCHANGED unacked
     \/ Faults /\ Finish(k) /\ UNCHANGED replies
  /\ UNCHANGED <<seen, running>>

Acknowledge(k) ==
  /\ CallAt(k, "ack") /\ Finish(k)
  /\ UNCHANGED <<seen, replies, running>>

\* A timer that may run out while Feishu still delivers the message.
ForgetEarly(m) ==
  /\ m \in seen /\ seen' = seen \ {m}
  /\ UNCHANGED <<unacked, call, replies, running>>

\* The timer set with the mark. Unless Slow, Feishu has no more deliveries of
\* the message by then and its call has ended.
Forget(m) ==
  /\ m \in seen
  /\ ~Slow => m \notin unacked
  /\ seen' = seen \ {m}
  /\ UNCHANGED <<unacked, call, replies, running>>

BotChanges == running' = ~running /\ UNCHANGED <<seen, unacked, call, replies>>

HandlerCrash ==
  /\ Crashes
  /\ seen' = {} /\ call' = [k \in Calls |-> NoCall]
  /\ UNCHANGED <<unacked, replies, running>>

HandlerInit ==
  /\ world \in Worlds
  /\ seen = {} /\ unacked = Messages /\ call = [k \in Calls |-> NoCall]
  /\ replies = [m \in Messages |-> 0] /\ running = TRUE

CallStep(k) == LookupBot(k) \/ Chat(k) \/ Reply(k) \/ Acknowledge(k)

HandlerNext ==
  \/ \E k \in Calls, m \in Messages : Deliver(k, m)
  \/ \E k \in Calls : CallStep(k)
  \/ \E m \in Messages : Forget(m)
  \/ BotChanges \/ HandlerCrash

HandlerSpec == HandlerInit /\ [][HandlerNext /\ UNCHANGED world]_<<handlerVars, world>>

\* Feishu redelivers, and calls run on: chat has a timeout of its own.
FairHandlerSpec ==
  /\ HandlerSpec
  /\ \A k \in Calls : WF_handlerVars(CallStep(k))
  /\ \A m \in Messages : WF_handlerVars(\E k \in Calls : Deliver(k, m))

-----------------------------------------------------------------------------
\* Every variable keeps its type.
HandlerTypeOK ==
  /\ world \in Worlds
  /\ seen \in SUBSET Messages /\ unacked \in SUBSET Messages
  /\ call \in [Calls -> [msg : Messages, pc : {"lookup", "chat", "reply", "ack"}] \cup {NoCall}]
  /\ replies \in [Messages -> 0 .. MaxReplies]
  /\ running \in BOOLEAN

\* "Deduplication, to prevent double replies": redeliveries and copies over
\* other sockets that overlap the answer of the container get no second reply,
\* in a process that does not crash and within the lifetime of the mark.
Reliable == ~Slow /\ ~Crashes
NoDoubleReply == Reliable => \A m \in Messages : replies[m] <= 1

\* The stronger facts NoDoubleReply rests on. A message in the hands of a call,
\* or answered, is marked or no longer delivered; one call has it at most; and
\* until that call has replied nobody has.
Handled(m) ==
  /\ \A j, k \in Calls : call[j].msg = m /\ call[k].msg = m => j = k
  /\ \A k \in Calls : call[k].msg = m => m \in seen \/ m \notin unacked
  /\ \A k \in Calls : call[k].msg = m /\ call[k].pc # "ack" => replies[m] = 0
  /\ replies[m] > 0 => m \in seen \/ m \notin unacked
  /\ replies[m] <= 1

HandlerInv == HandlerTypeOK /\ (Reliable => \A m \in Messages : Handled(m))

\* What has become of a message, as the chat sees it.
Outcome(m) ==
  IF replies[m] > 0 THEN "answered"
  ELSE IF m \in unacked \/ \E k \in Calls : call[k].msg = m THEN "pending"
  ELSE "dropped"

Delivery == INSTANCE MessageDelivery
              WITH state <- [m \in Messages |-> Outcome(m)], answers <- replies,
                   reliable <- Reliable

\* The handler implements MessageDelivery in every environment: a message is
\* answered or dropped, once dropped it is never answered, and only a crash or
\* a delivery that outlasts the marks can repeat an answer.
DeliveryHolds == Delivery!Spec

\* Every message is finished with in the end: a failing container or a stopped
\* bot never makes Feishu redeliver for ever.
AllFinished == (<>[][~HandlerCrash]_handlerVars) => \A m \in Messages : <>(m \notin unacked)
=============================================================================
