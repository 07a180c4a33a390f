------------------------------ MODULE MCRegistry ------------------------------
(***************************************************************************)
(* Registry on small instances.  Targets and roots are interchangeable in  *)
(* the contract (it only compares them), so safety runs use symmetry.      *)
(***************************************************************************)
EXTENDS Registry, TLC

CONSTANTS oracle, owner, alice, bob

MCAccounts == {oracle, owner, alice, bob}
MCStakes   == {0, 2}
DisputeSymmetry == Permutations(Targets) \cup Permutations(Roots)
AgentSymmetry   == DisputeSymmetry \cup Permutations(Agents)
===============================================================================
