-------------------------- MODULE MCFeishuChannel ---------------------------
(* Instances of FeishuChannel for TLC. *)
EXTENDS FeishuChannel

CONSTANTS c1, c2

\* Requests one at a time on two channels, with and without crashes;
\* overlapping ones on one channel with crashes; and with nothing going wrong.
OneByOne(c) == [serial |-> TRUE, faults |-> TRUE, crashes |-> c, chans |-> {c1, c2}]
Together(bad) == [serial |-> FALSE, faults |-> bad, crashes |-> bad, chans |-> {c1}]
AllWorlds == {OneByOne(TRUE), OneByOne(FALSE), Together(TRUE)}
=============================================================================
