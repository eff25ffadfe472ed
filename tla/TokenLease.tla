----------------------------- MODULE TokenLease -----------------------------
(***************************************************************************)
(* What a bot is promised of its access to the key proxy: a lease, which   *)
(* is its own, never granted before and never again. A bot has at most one *)
(* at a time: it gets another only after the one it had has ended.         *)
(***************************************************************************)
CONSTANTS Holders, Leases, None

VARIABLES
  lease,       \* the lease of each holder
  granted      \* leases used up so far

Grant(h, l) ==
  /\ lease[h] = None /\ l \in Leases \ granted
  /\ lease' = [lease EXCEPT ![h] = l]
  /\ granted' = granted \cup {l}

\* A lease that nobody gets.
Void(l) ==
  /\ l \in Leases \ granted
  /\ granted' = granted \cup {l} /\ UNCHANGED lease

\* The leases of H end: several at once, if they stand on the same key.
End(H) ==
  /\ \A h \in H : lease[h] # None
  /\ lease' = [h \in Holders |-> IF h \in H THEN None ELSE lease[h]]
  /\ UNCHANGED granted

Init == lease = [h \in Holders |-> None] /\ granted = {}

Next ==
  \/ \E h \in Holders, l \in Leases : Grant(h, l)
  \/ \E l \in Leases : Void(l)
  \/ \E H \in SUBSET Holders : End(H)

Spec == Init /\ [][Next]_<<lease, granted>>
=============================================================================
