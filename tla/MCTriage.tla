------------------------------- MODULE MCTriage -------------------------------
(***************************************************************************)
(* Triage with a scheduler whose cache walk looks back further than the    *)
(* command's (MANTLEPROOF_CACHE_WINDOW_BLOCKS); their feed walks are alike. *)
(***************************************************************************)
EXTENDS Triage

CONSTANTS t1, t2, scheduler, cli

MCFeedWindowOf == [w \in Refreshers |-> 1]
MCWindowOf == [w \in Refreshers |-> IF w = scheduler THEN 1 ELSE 0]
===============================================================================
