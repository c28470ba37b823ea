------------------------------ MODULE CapNamed ------------------------------
(* How the tiers shorten what a finding names: objects are collected in the *)
(* order of their names and the first Cap of them are kept.  Packages       *)
(* removedapi, configbreaker and generated each have this function; the     *)
(* count beside the names is of all of them.                                *)
EXTENDS Naturals, FiniteSets

CONSTANT Cap    \* maxNamed

ASSUME CapAssumption == Cap \in Nat \ {0}

capNamed(S) == {x \in S : Cardinality({y \in S : y < x}) < Cap}
=============================================================================
