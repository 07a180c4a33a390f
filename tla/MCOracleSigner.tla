---------------------------- MODULE MCOracleSigner ----------------------------
(***************************************************************************)
(* Small instances of OracleSigner.  A verdict's hash is the record of     *)
(* what it commits to.                                                     *)
(***************************************************************************)
EXTENDS OracleSigner, TLC

CONSTANTS oracle, alice

MCAccounts == {oracle, alice}
MCVerdicts == [by : Clients, judged : Roots, outcome : Outcomes]
MCStakes   == {1}
ClientSymmetry == Permutations(Clients) \cup Permutations(Roots)
===============================================================================
