----------------------------- MODULE MC_Preflight -----------------------------
(***************************************************************************)
(* Preflight for TLC.  A cluster holds one thing of any kind, two budgets, *)
(* two webhooks of different Services, or three that share one.            *)
(***************************************************************************)
EXTENDS Preflight

Plain(l, n, bad) == [list |-> l, name |-> n, bad |-> bad, fail |-> FALSE, backend |-> NoService]
Hook(n, fail, b) == [list |-> "webhooks", name |-> n, bad |-> FALSE, fail |-> fail, backend |-> b]
Crd(n, b) == [list |-> "crds", name |-> n, bad |-> FALSE, fail |-> FALSE, backend |-> b]

MCServices == {"s", "t"}
Shared == {Hook("fails", TRUE, "s"), Hook("ignores", FALSE, "s"), Crd("converts", "s")}
MCObjects == Shared \cup {
  Plain("nodes", "n", TRUE), Plain("pods", "p", TRUE), Plain("apiservices", "a", TRUE),
  Plain("poddisruptionbudgets", "b", TRUE), Plain("poddisruptionbudgets", "c", TRUE),
  Hook("other", TRUE, "t"), Hook("outside", TRUE, URL),
  Crd("external", URL)}
MCClusters ==
  {{}, Shared, {o \in MCObjects : o.list = "poddisruptionbudgets"},
   {o \in MCObjects : o.list = "webhooks" /\ o.fail}} \cup {{o} : o \in MCObjects}
=============================================================================
