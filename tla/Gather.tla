------------------------------- MODULE Gather -------------------------------
(***************************************************************************)
(* What a fan-out over API calls promises its caller, with no goroutine in *)
(* sight: a round asks about a set of items, gathers each of them once, in *)
(* any order, and is joined only when nothing it asked about is missing.   *)
(*                                                                         *)
(* Every collector that reads many things at once (kubelet configurations, *)
(* kubelet metrics, objects of the kinds a catalog names, the deprecated   *)
(* API scan) builds its coverage row by counting what a round gathered, so *)
(* a lost or doubled item is a wrong "complete" in the report.  WorkPool   *)
(* shows that the limiter, the mutex and the wait group deliver this.      *)
(***************************************************************************)
EXTENDS FiniteSets

CONSTANT Items      \* what a round may ask about

VARIABLES
  asked,            \* the items of this round still counted on
  got,              \* the items whose answer has been gathered
  joined            \* TRUE when the caller may look at the result

vars == <<asked, got, joined>>

Init == asked = {} /\ got = {} /\ joined = TRUE

Begin(S) ==
  /\ joined
  /\ asked' = S /\ got' = {} /\ joined' = FALSE

(* An item the round turns out not to have to read. *)
Drop(i) ==
  /\ ~joined /\ i \in asked \ got
  /\ asked' = asked \ {i}
  /\ UNCHANGED <<got, joined>>

Take(i) ==
  /\ ~joined /\ i \in asked \ got
  /\ got' = got \cup {i}
  /\ UNCHANGED <<asked, joined>>

Join ==
  /\ ~joined /\ got = asked
  /\ joined' = TRUE
  /\ UNCHANGED <<asked, got>>

Next ==
  \/ \E S \in SUBSET Items : Begin(S)
  \/ \E i \in Items : Drop(i) \/ Take(i)
  \/ Join

Spec == Init /\ [][Next]_vars
=============================================================================
