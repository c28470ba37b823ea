---------------------------- MODULE MC_NodeTier ----------------------------
(* Two nodes; the shipped rules by their sorts: settled by node status, by *)
(* a metric's value, by a metric's label, by nothing.                      *)
EXTENDS NodeTier, TLC

MCRules == {"dockershim", "cgroup v1", "cri support", "apparmor"}

MCRule ==
  "dockershim"  :> [source |-> "status", condition |-> "value", values |-> {1}, removed |-> 24]
  @@ "cgroup v1"   :> [source |-> "metric", condition |-> "value", values |-> {1}, removed |-> 35]
  @@ "cri support" :> [source |-> "metric", condition |-> "at most target", values |-> {}, removed |-> 36]
  @@ "apparmor"    :> [source |-> "none", condition |-> "value", values |-> {}, removed |-> 36]

MCMachine(kubelet, says, runtime, cgroup, cri) ==
  [kubelet |-> kubelet, says |-> says,
   tells |-> [r \in MCRules |->
     IF r = "dockershim" THEN runtime
     ELSE IF r = "cgroup v1" THEN cgroup
     ELSE IF r = "cri support" THEN cri ELSE {}]]

(* Kubelets before 1.35 export neither metric; a node object may be empty. *)
MCMachines == {
  MCMachine(32, 32, {1}, {}, {}),
  MCMachine(32, 0, {}, {}, {}),
  MCMachine(33, 33, {2}, {}, {}),
  MCMachine(34, 34, {2}, {}, {}),
  MCMachine(35, 35, {2}, {1}, {36}),
  MCMachine(35, 35, {2}, {2}, {0}),
  MCMachine(35, 35, {2}, {2}, {})}

MCPaths == { [current |-> 35, target |-> 36], [current |-> 34, target |-> 35],
             [current |-> 0, target |-> 36] }
=============================================================================
