----------------------------- MODULE MC_Collect -----------------------------
(* Collect for TLC.  The collectors something downstream depends on: nodes   *)
(* (the fleet), standalone pods (the control plane), storage (its last list  *)
(* is the optional one); the other four have the shape of the first two.     *)
(* Storage reads two of its four lists.                                      *)
EXTENDS Collect

MCLists == [c \in {"nodes", "standalone pods", "storage"} |->
              IF c = "storage" THEN 2 ELSE 1]
=============================================================================
