------------------------------ MODULE MC_Check ------------------------------
(***************************************************************************)
(* Check for TLC: one break of every kind of source, with severities on    *)
(* both sides of the threshold.  Config maps stand for the collectors no   *)
(* break shows in.                                                         *)
(***************************************************************************)
EXTENDS Check

Break(c, s, v) == [check |-> c, source |-> s, sev |-> v]

MCBreaks == {
  Break("removed APIs", "API scan", "HIGH"),
  Break("control-plane flags", "kube-apiserver", "HIGH"),
  Break("kubelet configuration", "kubelet config", "HIGH"),
  Break("volume plugins", "storage", "HIGH"),
  Break("node status", "nodes", "HIGH"),
  Break("metric rules", "kubelet metrics", "HIGH"),
  Break("kube-proxy skew", "workloads", "LOW"),
  Break("disruption budgets", "disruption budgets", "HIGH"),
  Break("admission webhooks", "webhooks", "LOW"),
  Break("conversion webhooks", "CRDs", "HIGH"),
  Break("add-on rules", "custom resources", "LOW"),
  Break("release notes", "rule objects", "HIGH")}

MCParallel == {"nodes", "workloads", "standalone pods", "storage", "CRDs", "config maps"}
MCLayouts == {{}, Components}
MCPaths == {{}, Optional}

(* A control plane without static pods matters to its own flags only, and  *)
(* a path that wants no optional collector to what "complete" asks for.    *)
MCInit ==
  /\ Init
  /\ components = {} => broken # {} /\ \A b \in broken : b.source \in Components
  /\ wanted = {} => broken = {}
MCSpec == MCInit /\ [][Next]_vars
=============================================================================
