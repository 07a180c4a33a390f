------------------------------- MODULE MCStores -------------------------------
(***************************************************************************)
(* Stores with the receipts, the dispute snapshot and the lists each on    *)
(* their own: they share nothing but the chain's log.                      *)
(***************************************************************************)
EXTENDS Stores

CONSTANTS t1, t2, r1, r2

MCScenes ==
    {[kinds |-> {"audit"}, processes |-> {"api", "backfill"}, events |-> 2],
     [kinds |-> {"audit"}, processes |-> {"api"}, events |-> 3],
     [kinds |-> {"dispute"}, processes |-> {r1, r2}, events |-> 3],
     [kinds |-> {"audit", "decision"}, processes |-> {"triage"}, events |-> 5]}
Symmetry == Permutations(Refreshers)
MCSeverityOf == [i \in 1 .. MaxEvents |-> IF i % 2 = 0 THEN "high" ELSE "low"]
===============================================================================
