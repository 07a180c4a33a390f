------------------------------ MODULE MCFeedback ------------------------------
(***************************************************************************)
(* Feedback with an account that controls the agent at first, a customer,  *)
(* and two runs of the script, which may belong to one account.            *)
(***************************************************************************)
EXTENDS Feedback, TLC

MCScenes == {Scripts} \cup {{s, Verifier} : s \in Scripts}
Symmetry == Permutations(Scripts) \cup Permutations(Targets)
===============================================================================
