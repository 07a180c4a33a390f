----------------------------- MODULE MCCustomers ------------------------------
(***************************************************************************)
(* A small instance of Customers: one agent, of every kind, next to others *)
(* whose audits are all it sees of them.  There is one address to deploy   *)
(* to, so that a contract given on the command line is that one or Router. *)
(***************************************************************************)
EXTENDS Customers
===============================================================================
