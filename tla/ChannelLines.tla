---------------------------- MODULE ChannelLines ----------------------------
(***************************************************************************)
(* What users are promised of the lines of their channels. Somebody takes  *)
(* a channel, hangs up its line and opens another, and releases it with a  *)
(* word on whether it has one. Nothing happens to a channel that is not    *)
(* taken, except that a withdrawn one may still be hung up. If changes     *)
(* overlap, all that is promised is that a change concerns one channel.    *)
(***************************************************************************)
CONSTANTS Channels, Lines

VARIABLES
  open,        \* the open lines of each channel
  shown,       \* what is shown of it: nothing, a change, a line, or none
  orderly,     \* does a change wait for the one before it?
  steady       \* does the process live on?

Words == {"none", "busy", "on", "off"}

Take(c) ==
  /\ shown[c] # "busy" /\ shown' = [shown EXCEPT ![c] = "busy"]
  /\ open' \in {open, [open EXCEPT ![c] = {}]}

HangUp(c) ==
  /\ shown[c] \in {"busy", "none"}
  /\ open' = [open EXCEPT ![c] = {}] /\ UNCHANGED shown

Connect(c, l) ==
  /\ shown[c] = "busy" /\ open[c] = {}
  /\ open' = [open EXCEPT ![c] = {l}] /\ UNCHANGED shown

Release(c) ==
  /\ shown[c] = "busy" /\ UNCHANGED open
  /\ \/ shown' = [shown EXCEPT ![c] = IF open[c] # {} THEN "on" ELSE "off"]
     \/ open[c] = {} /\ shown' = [shown EXCEPT ![c] = "none"]

Withdraw(c) ==
  /\ shown[c] \in {"on", "off"} /\ shown' = [shown EXCEPT ![c] = "none"]
  /\ UNCHANGED open

Overlap(c) ==
  /\ ~orderly
  /\ \E L \in SUBSET Lines : open' = [open EXCEPT ![c] = L]
  /\ \E x \in Words : shown' = [shown EXCEPT ![c] = x]

\* Nobody is left to say that the lines are gone.
Restart ==
  /\ ~steady /\ open' = [c \in Channels |-> {}]
  /\ shown' \in [Channels -> Words]
  /\ \A c \in Channels : shown'[c] = shown[c] \/ (shown[c] = "busy" /\ shown'[c] \in {"on", "off"})

Init ==
  /\ open = [c \in Channels |-> {}] /\ shown = [c \in Channels |-> "none"]
  /\ {orderly, steady} \subseteq BOOLEAN

Next ==
  /\ \/ \E c \in Channels :
          \/ Take(c) \/ HangUp(c) \/ Release(c) \/ Withdraw(c) \/ Overlap(c)
          \/ \E l \in Lines : Connect(c, l)
     \/ Restart
  /\ UNCHANGED <<orderly, steady>>

Spec == Init /\ [][Next]_<<open, shown, orderly, steady>>
=============================================================================
