------------------------------- MODULE Ordering -------------------------------
(***************************************************************************)
(* Sorting: the members of a finite set one after the other, and a         *)
(* sequence sorted by a key as Python's list.sort does it, which keeps     *)
(* what compares equal in the order it had.                                *)
(***************************************************************************)
EXTENDS Integers, FiniteSets, Sequences

(* `before` is the set of pairs whose first comes before their second. *)
Ahead(S, x, before) == {y \in S : <<y, x>> \in before}
Ordered(S, before) ==
    [k \in 1 .. Cardinality(S) |->
        CHOOSE x \in S : Cardinality(Ahead(S, x, before)) = k - 1]

Ascending(S) == Ordered(S, {p \in S \X S : p[1] < p[2]})

(* What is at the positions S of a sequence. *)
Kept(seq, S) == [k \in 1 .. Cardinality(S) |-> seq[Ascending(S)[k]]]

(* The positions D by their keys, which are pairs of integers.  *)
Less(a, b) == a[1] < b[1] \/ (a[1] = b[1] /\ a[2] < b[2])
ByKey(D, key) ==
    {p \in D \X D :
        Less(key[p[1]], key[p[2]]) \/ (key[p[1]] = key[p[2]] /\ p[1] < p[2])}

SortedBy(seq, key) ==
    LET order == Ordered(DOMAIN seq, ByKey(DOMAIN seq, key))
    IN  [k \in DOMAIN seq |-> seq[order[k]]]
===============================================================================
