----------------------------- MODULE MCPaidAudit -----------------------------
(* PaidAudit with three calls, two of them for the same contract. *)
EXTENDS PaidAudit

CONSTANTS c1, c2, c3, t1, t2

MCTargetOf == [c \in Calls |-> IF c = c3 THEN t2 ELSE t1]
===============================================================================
