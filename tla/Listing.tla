------------------------------- MODULE Listing -------------------------------
(* Some of a list, in the order of the list: what a filter over a vector   *)
(* keeps, told by the positions that stay.                                 *)
EXTENDS Integers, Sequences, FiniteSets

(* The members of a finite set of positions, in ascending order.           *)
Nth(S, n)   == CHOOSE i \in S : Cardinality({j \in S : j <= i}) = n
Ordered(S)  == [n \in 1 .. Cardinality(S) |-> Nth(S, n)]

(* What stands at them.                                                    *)
Selected(s, S) == [n \in 1 .. Cardinality(S) |-> s[Nth(S, n)]]
=============================================================================
