----------------------------- MODULE MC_WorkPool -----------------------------
(***************************************************************************)
(* WorkPool for TLC: four items behind a limiter of two, so two goroutines *)
(* wait for a token while two compete for the mutex.                       *)
(***************************************************************************)
EXTENDS WorkPool
=============================================================================
