-------------------------- MODULE MCFeishuMessages --------------------------
(* Instances of FeishuMessages for TLC. *)
EXTENDS FeishuMessages

\* A process that lives on and answers in time, and one that does neither.
GoodAndBad == {[slow |-> bad, faults |-> TRUE, crashes |-> bad] : bad \in BOOLEAN}
=============================================================================
