-------------------------- MODULE MessageDelivery ---------------------------
(***************************************************************************)
(* What a chat sees of the messages it sends to a bot: each one is         *)
(* answered, or dropped (the bot does not run, or something failed), and   *)
(* nothing happens to it after that, except that an unreliable process may *)
(* repeat an answer.                                                       *)
(***************************************************************************)
EXTENDS Naturals

CONSTANT Messages

VARIABLES
  state,       \* what has become of each message
  answers,     \* answers the chat has received, per message
  reliable     \* does the process live on, and remember what it has handled?

Pending(m) == state[m] = "pending"

Answer(m) ==
  /\ Pending(m)
  /\ state' = [state EXCEPT ![m] = "answered"]
  /\ answers' = [answers EXCEPT ![m] = @ + 1]

Repeat(m) ==
  /\ ~reliable /\ state[m] = "answered"
  /\ answers' = [answers EXCEPT ![m] = @ + 1]
  /\ UNCHANGED state

\* A crash may drop several.
Drop(M) ==
  /\ M # {} /\ \A m \in M : Pending(m)
  /\ state' = [m \in Messages |-> IF m \in M THEN "dropped" ELSE state[m]]
  /\ UNCHANGED answers

Init ==
  /\ state = [m \in Messages |-> "pending"]
  /\ answers = [m \in Messages |-> 0]
  /\ reliable \in BOOLEAN

Next ==
  /\ \/ \E m \in Messages : Answer(m) \/ Repeat(m)
     \/ \E M \in SUBSET Messages : Drop(M)
  /\ UNCHANGED reliable

Spec == Init /\ [][Next]_<<state, answers, reliable>>
=============================================================================
