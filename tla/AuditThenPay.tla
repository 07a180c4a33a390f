----------------------------- MODULE AuditThenPay -----------------------------
(***************************************************************************)
(* What the paid endpoint promises: a call gets at most one audit, and it  *)
(* is charged at most once and only when its audit is anchored.  An audit  *)
(* may stay free; a charge is never taken back.                            *)
(***************************************************************************)
CONSTANTS Calls, Roots, None

VARIABLES audit, charged

Init ==
    /\ audit = [c \in Calls |-> None]
    /\ charged = [c \in Calls |-> FALSE]

Deliver(c, r) ==
    /\ audit[c] = None
    /\ \A d \in Calls : audit[d] # r
    /\ audit' = [audit EXCEPT ![c] = r]
    /\ UNCHANGED charged

Charge(c) ==
    /\ audit[c] # None
    /\ ~charged[c]
    /\ charged' = [charged EXCEPT ![c] = TRUE]
    /\ UNCHANGED audit

Next == \E c \in Calls : Charge(c) \/ \E r \in Roots : Deliver(c, r)

Spec == Init /\ [][Next]_<<audit, charged>>
===============================================================================
