------------------------------- MODULE Amounts -------------------------------
(***************************************************************************)
(* The total of a finite set of natural amounts, without recursion: an     *)
(* amount is counted in units, one element of a set per unit, and a total  *)
(* is the size of that set.                                                *)
(***************************************************************************)
EXTENDS Naturals, FiniteSets

UnitsOf(amount, S) == UNION {{x} \X (1 .. amount[x]) : x \in S}

TotalOf(amount, S) == Cardinality(UnitsOf(amount, S))
===============================================================================
