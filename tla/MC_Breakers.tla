---------------------------- MODULE MC_Breakers ----------------------------
(* Rules after the shipped ones, one of each condition, with a deprecation  *)
(* stage, without, and with an unknown severity; plugins that only have     *)
(* been deprecated, that were disabled before they were removed, that a CSI *)
(* driver takes over, and that nothing does.                                *)
EXTENDS Breakers, TLC

NoRule ==
  [source |-> "flag", components |-> {"kube-apiserver", "kube-scheduler"}, selectors |-> {"--feature-gates"},
   condition |-> "present", gate |-> "", on |-> "", applies |-> 36, deprecated |-> 0,
   severity |-> "high", softer |-> ""]

MCRule ==
  "removed flag" :> [NoRule EXCEPT !.selectors = {"--profiling", "--contention"}, !.deprecated = 35, !.softer = "low"]
  @@ "removed gate" :> [NoRule EXCEPT !.condition = "gate", !.gate = "Old", !.severity = "?"]
  @@ "locked gate" :> [NoRule EXCEPT !.condition = "locked gate", !.gate = "New", !.on = "false", !.applies = 37]
  @@ "proxy flag" :> [NoRule EXCEPT !.components = {"kube-proxy"}, !.selectors = {"--mode"},
                      !.condition = "equals", !.gate = "userspace", !.deprecated = 35]
  @@ "kubelet field" :> [NoRule EXCEPT !.source = "kubelet", !.selectors = {"failCgroupV1"},
                         !.condition = "equals", !.gate = "false", !.deprecated = 35, !.softer = "?"]
  @@ "kubelet gate" :> [NoRule EXCEPT !.source = "kubelet", !.selectors = {"featureGates"},
                        !.condition = "gate", !.gate = "Old"]
  @@ "kubelet locked" :> [NoRule EXCEPT !.source = "kubelet", !.selectors = {"featureGates"},
                          !.condition = "locked gate", !.gate = "New", !.on = "false"]

Setting(flag, value) == [flag |-> flag, value |-> value]
Gate(name, on) == [gate |-> name, on |-> on]

MCSettings ==
  { << Setting("--profiling", {}), Setting("--feature-gates", {Gate("Old", "true")}) >>,
    << Setting("--feature-gates", {Gate("New", "false"), Gate("Newer", "true")}) >>,
    << Setting("--feature-gates", {Gate("New", "true")}), Setting("--contention", {Gate("true", "")}) >> }

Container(component, settings, visible) ==
  [component |-> component, settings |-> settings, visible |-> visible]

MCConfigs ==
  { [f \in {"failCgroupV1"} |-> {Gate("false", "")}],
    [f \in {"featureGates"} |-> {Gate("Old", "true"), Gate("New", "true")}],
    [f \in {"featureGates", "failCgroupV1"} |->
       IF f = "featureGates" THEN {Gate("New", "false")} ELSE {Gate("true", "")}],
    [f \in {} |-> {}] }

Object(kind, name, keys) == [kind |-> kind, name |-> name, keys |-> keys]

(* A volume and a class of one name, a workload, a pod, a pod of a Job.     *)
MCObjects ==
  { << Object("workload", 1, {2}), Object("pod", 2, {1, 3}) >>,
    << Object("volume", 4, {3}), Object("class", 4, {3}), Object("workload", 1, {1}) >>,
    << Object("owned", 3, {2}), Object("volume", 4, {3}), Object("class", 5, {3}) >>,
    << Object("workload", 1, {1, 2}), Object("pod", 2, {1}), Object("volume", 4, {4}) >> }

NoObjects == << >>

Pods(seen, settings, scheduler) ==
  << Container("kube-apiserver", settings, seen), Container("kube-scheduler", scheduler, TRUE),
     Container("kube-proxy", << Setting("--mode", {Gate("userspace", "")}) >>, TRUE) >>

Managed(settings) ==
  << Container("kube-apiserver", settings, FALSE),
     Container("kube-proxy", << Setting("--mode", {Gate("userspace", "")}) >>, TRUE) >>

MCPods == {Pods(seen, s, t) : seen \in BOOLEAN, s \in MCSettings, t \in MCSettings}
            \cup {Managed(s) : s \in MCSettings}

(* Settings and volumes have nothing in common but the lists.               *)
MCClusters ==
  {[pods |-> p, nodes |-> << >>, objects |-> NoObjects, drivers |-> {}] : p \in MCPods}
  \cup {[pods |-> << >>, nodes |-> n, objects |-> o, drivers |-> d] :
           n \in [{1, 2} -> MCConfigs], o \in MCObjects, d \in {{}, {"ebs"}}}

NoPlugin == [deprecated |-> 0, removed |-> 0, disabled |-> 0, severity |-> "critical", driver |-> ""]

MCPlugin == <<
  [NoPlugin EXCEPT !.deprecated = 23, !.severity = "medium"],
  [NoPlugin EXCEPT !.deprecated = 11, !.removed = 38, !.disabled = 36],
  [NoPlugin EXCEPT !.deprecated = 25, !.removed = 35, !.driver = "ebs"],
  [NoPlugin EXCEPT !.removed = 37, !.severity = "?"] >>

MCPaths ==
  { [current |-> 34, target |-> 35], [current |-> 34, target |-> 36], [current |-> 36, target |-> 37],
    [current |-> 0, target |-> 37] }
=============================================================================
