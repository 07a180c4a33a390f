------------------------------ MODULE MCTreasury ------------------------------
(***************************************************************************)
(* A small instance of Treasury.  Amounts of 1 and 2 are rounded by both   *)
(* splits; the registry, a contract, accepts no MNT.  Roots are            *)
(* interchangeable.                                                        *)
(***************************************************************************)
EXTENDS Treasury, TLC

CONSTANTS owner1, registry

MCAccounts == {owner1, registry}
MCRefusers == {registry}
MCPayments == {1, 2}
MCPrices   == {1}
MCExpiries == {5}

RootSymmetry == Permutations(Roots)
===============================================================================
