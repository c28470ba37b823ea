------------------------------ MODULE Breakers ------------------------------
(* Settings a target refuses to start with (package configbreaker) and      *)
(* volumes it no longer mounts (package plugins), judged on what the        *)
(* collectors read.  A component's flags are in its container's arguments,  *)
(* in either spelling, when it runs as a pod; a kubelet tells its own       *)
(* configuration.  Each list ends in one step here: its pages are in        *)
(* Collect.  A value is a set of [gate, on], a scalar being one gate.       *)
EXTENDS Naturals, Sequences, SequencesExt, CapNamed

CONSTANTS
  Clusters,    \* [pods, nodes, objects, drivers]
  Rules,       \* of config-breakers.json, those that can be detected and have selectors
  Rule,        \* [source, components, selectors, condition, gate, on, applies, deprecated, severity, softer]
  Plugins,     \* volume source keys with a rule, numbers in their order
  Plugin,      \* [deprecated, removed, disabled, severity, driver]
  Paths,       \* [current, target], minors; a current of 0 does not parse
  PluginCap    \* findings a report keeps of the volume tier

(* A string nothing was written to.                                         *)
NoName == ""

(* Names are numbers in their order.  A setting has a flag before its value.*)
ASSUME ClustersAssumption ==
  \A c \in Clusters :
    /\ \A D \in {DOMAIN c.pods, DOMAIN c.nodes} : IsFiniteSet(D) /\ D \subseteq Nat
    /\ \A p \in DOMAIN c.pods :
         LET settings == c.pods[p].settings
         IN  /\ Len(settings) \in Nat /\ DOMAIN settings = 1 .. Len(settings)
             /\ \A i \in DOMAIN settings : settings[i].flag # NoName
    /\ IsFiniteSet(DOMAIN c.objects)
    /\ \A o \in DOMAIN c.objects :
         /\ c.objects[o].name \in Nat
         /\ c.objects[o].kind \in {"workload", "pod", "volume", "class", "owned"}
    /\ NoName \notin c.drivers

(* No selector is empty, and a flag that is missing is no condition.        *)
ASSUME RulesAssumption ==
  \A r \in Rules :
    /\ NoName \notin Rule[r].selectors
    /\ Rule[r].condition \in {"present", "absent", "equals", "gate", "locked gate"}
    /\ Rule[r].source = "flag" => Rule[r].condition # "absent"

(* A plugin is disabled by default before it is removed.                    *)
ASSUME PluginsAssumption ==
  /\ IsFiniteSet(Plugins) /\ Plugins \subseteq Nat
  /\ \A k \in Plugins :
       /\ Plugin[k].disabled \in Nat /\ Plugin[k].removed \in Nat
       /\ 0 \notin {Plugin[k].disabled, Plugin[k].removed} => Plugin[k].disabled <= Plugin[k].removed
  /\ PluginCap \in Nat \ {0}

ASSUME PathsAssumption ==
  \A p \in Paths : p.current \in Nat /\ p.target \in Nat \ {0}

VARIABLES
  cluster, path,
  args,        \* of each container
  read,        \* lists that were read
  answered,    \* nodes whose kubelet told its configuration
  configs,     \* what configbreaker says: [findings, flags, kubelets, assessed]
  volumes,     \* what plugins says: [findings, row]
  stage

world == <<cluster, path, args>>
vars == <<world, read, answered, configs, volumes, stage>>

Lists == {"pods", "workloads", "storage", "nodes"}

(* One setting in a manifest: one token, two, or a flag that takes none.    *)
Tokens(s, split) ==
  IF s.value = {} THEN <<[flag |-> s.flag, joined |-> FALSE, value |-> {}]>>
  ELSE IF split
  THEN << [flag |-> s.flag, joined |-> FALSE, value |-> {}],
          [flag |-> NoName, joined |-> FALSE, value |-> s.value] >>
  ELSE <<[flag |-> s.flag, joined |-> TRUE, value |-> s.value]>>

Spelled(settings, split) == FlattenSeq([i \in DOMAIN settings |-> Tokens(settings[i], split)])

Init ==
  /\ cluster \in Clusters /\ path \in Paths
  /\ \E split \in [DOMAIN cluster.pods -> BOOLEAN] :
       args = [p \in DOMAIN cluster.pods |-> Spelled(cluster.pods[p].settings, split[p])]
  /\ read = {} /\ answered = {}
  /\ configs = [findings |-> {}, flags |-> "none", kubelets |-> "none", assessed |-> TRUE]
  /\ volumes = [findings |-> {}, row |-> "none"]
  /\ stage = "collect"

Collect ==
  /\ stage = "collect" /\ stage' = "kubelets"
  /\ read' \in SUBSET Lists
  /\ UNCHANGED <<world, answered, configs, volumes>>

AskKubelets ==
  /\ stage = "kubelets" /\ stage' = "settings"
  /\ answered' \in IF "nodes" \in read THEN SUBSET DOMAIN cluster.nodes ELSE {{}}
  /\ UNCHANGED <<world, read, configs, volumes>>

-----------------------------------------------------------------------------
(* configbreaker: what a flag or a field is set to.                         *)

ControlPlanePods ==
  IF "pods" \in read THEN {p \in DOMAIN cluster.pods : cluster.pods[p].visible} ELSE {}

IsControlPlane(p) == cluster.pods[p].component # "kube-proxy"

\* Mutant: a flag and its value in two arguments not joined.
flagValueJoined(arguments, i) == arguments[i].value

(* A flag that is not joined to a value takes the next argument for one;    *)
(* if that is a flag of its own, no gate has its name.                      *)
flagValue(arguments, i) ==
  IF arguments[i].joined THEN arguments[i].value
  ELSE IF i < Len(arguments) /\ arguments[i + 1].flag = NoName THEN arguments[i + 1].value ELSE {}

Given(arguments, r) == {i \in DOMAIN arguments : arguments[i].flag \in Rule[r].selectors}

gateLists(arguments, r) == {flagValue(arguments, i) : i \in Given(arguments, r)}

Scalar(r) == {[gate |-> Rule[r].gate, on |-> NoName]}

HasGate(value, r) == \E pair \in value : pair.gate = Rule[r].gate

(* A locked gate breaks only when it is set to the value it may not have.   *)
HasLocked(value, r) == [gate |-> Rule[r].gate, on |-> Rule[r].on] \in value

flagMatch(arguments, r) ==
  CASE Rule[r].condition = "present"     -> Given(arguments, r) # {}
    [] Rule[r].condition = "gate"        -> \E v \in gateLists(arguments, r) : HasGate(v, r)
    [] Rule[r].condition = "locked gate" -> \E v \in gateLists(arguments, r) : HasLocked(v, r)
    [] Rule[r].condition = "equals"      -> Scalar(r) \in gateLists(arguments, r)
    [] OTHER -> FALSE

\* Mutant: a field that is not there taken for one set to the rule's value.
kubeletMatchDefault(config, r) ==
  LET fields == Rule[r].selectors \cap DOMAIN config
  IN  CASE Rule[r].condition = "equals" -> fields = {} \/ \E f \in fields : config[f] = Scalar(r)
        [] Rule[r].condition = "gate"   -> \E f \in fields : HasGate(config[f], r)
        [] Rule[r].condition = "locked gate" -> \E f \in fields : HasLocked(config[f], r)
        [] OTHER -> fields # {}

(* A field that is not set equals nothing.                                  *)
kubeletMatch(config, r) ==
  LET fields == Rule[r].selectors \cap DOMAIN config
  IN  CASE Rule[r].condition = "present"     -> fields # {}
        [] Rule[r].condition = "absent"      -> ~(Rule[r].selectors \subseteq DOMAIN config)
        [] Rule[r].condition = "equals"      -> \E f \in fields : config[f] = Scalar(r)
        [] Rule[r].condition = "gate"        -> \E f \in fields : HasGate(config[f], r)
        [] Rule[r].condition = "locked gate" -> \E f \in fields : HasLocked(config[f], r)
        [] OTHER -> FALSE

-----------------------------------------------------------------------------
(* configbreaker: findings and gaps.                                        *)

Reached(minor) == minor # 0 /\ path.target >= minor

\* Mutant: only the release that refuses a setting is reported.
TierFatal(r) == IF Reached(Rule[r].applies) THEN "breaks" ELSE "none"

(* Fatal, or deprecated with a severity of its own for that.                *)
Tier(r) ==
  IF Reached(Rule[r].applies) THEN "breaks"
  ELSE IF Reached(Rule[r].deprecated) /\ Rule[r].softer # NoName THEN "deprecated"
  ELSE "none"

KnownSeverities == {"critical", "high", "medium", "low", "info"}

\* Mutant: a severity nobody knows left as the catalog has it.
KnownUnset(severity) == severity

Known(severity) == IF severity \in KnownSeverities THEN severity ELSE "critical"

Built(r, matched) ==
  [rule |-> r, tier |-> Tier(r),
   severity |-> Known(IF Tier(r) = "breaks" THEN Rule[r].severity ELSE Rule[r].softer),
   on |-> capNamed(matched), count |-> Cardinality(matched)]

RulesOf(source) == {r \in Rules : Rule[r].source = source}

Matched(r) ==
  IF Rule[r].source = "flag"
  THEN {p \in ControlPlanePods : cluster.pods[p].component \in Rule[r].components /\ flagMatch(args[p], r)}
  ELSE {n \in answered : kubeletMatch(cluster.nodes[n], r)}

unsettledFlagRules ==
  {r \in RulesOf("flag") : \A p \in ControlPlanePods : cluster.pods[p].component \notin Rule[r].components}

\* Mutant: kube-proxy's pods taken for a control plane.
HaveAnyPod == ControlPlanePods # {}

HaveControlPlane == \E p \in ControlPlanePods : IsControlPlane(p)

Row(state, skipped) == [state |-> state, skipped |-> skipped]

AnalyzeConfigs ==
  /\ stage = "settings" /\ stage' = "volumes"
  /\ configs' =
       [ findings |-> {Built(r, Matched(r)) : r \in {q \in Rules : Matched(q) # {} /\ Tier(q) # "none"}},
         flags    |-> IF HaveControlPlane THEN Row("complete", {}) ELSE Row("unavailable", unsettledFlagRules),
         kubelets |-> IF answered = {} THEN Row("unavailable", RulesOf("kubelet"))
                      ELSE Row(IF answered = DOMAIN cluster.nodes THEN "complete" ELSE "partial", {}),
         assessed |-> HaveControlPlane /\ answered # {} ]
  /\ UNCHANGED <<world, read, answered, volumes>>

-----------------------------------------------------------------------------
(* plugins: objects that name a volume source.  A class names one through   *)
(* its provisioner; a pod a controller owns is left to the controller.      *)

ListOf == [workload |-> "workloads", pod |-> "pods", volume |-> "storage", class |-> "storage"]

\* Mutant: objects kept of a list that failed.
InventoryObjectsUnread == {o \in DOMAIN cluster.objects : cluster.objects[o].kind \in DOMAIN ListOf}

InventoryObjects ==
  {o \in DOMAIN cluster.objects :
     cluster.objects[o].kind \in DOMAIN ListOf /\ ListOf[cluster.objects[o].kind] \in read}

\* Mutant: the plugin breaks when it is deleted.
BreakInRemoved(k) == Plugin[k].removed

(* Disabled by default is when it stops working, whenever it is deleted.    *)
BreakIn(k) == IF Plugin[k].disabled # 0 THEN Plugin[k].disabled ELSE Plugin[k].removed

\* Mutant: drivers that could not be listed taken for installed.
servedByMigrationUnread(k) ==
  Plugin[k].driver # NoName /\ (Plugin[k].driver \in cluster.drivers \/ "storage" \notin read)

(* Only a list of drivers that was read can say that one is installed.      *)
servedByMigration(k) ==
  Plugin[k].driver # NoName /\ "storage" \in read /\ Plugin[k].driver \in cluster.drivers

AlreadyBroken(k) == path.current # 0 /\ path.current >= BreakIn(k)

Fate(k) ==
  IF Reached(BreakIn(k)) THEN IF servedByMigration(k) THEN "migrated" ELSE "removed"
  ELSE IF Reached(Plugin[k].deprecated) THEN "deprecated" ELSE "none"

PluginSeverity(k) ==
  CASE Fate(k) = "removed" -> Known(Plugin[k].severity)
    [] Fate(k) = "deprecated" -> "medium"
    [] OTHER -> "low"

Use(o, k) ==
  [fate |-> Fate(k), key |-> k, name |-> cluster.objects[o].name, kind |-> cluster.objects[o].kind,
   severity |-> PluginSeverity(k), past |-> Fate(k) # "deprecated" /\ AlreadyBroken(k)]

Uses ==
  UNION {{Use(o, k) : k \in {j \in cluster.objects[o].keys \cap Plugins : Fate(j) # "none"}} :
           o \in InventoryObjects}

-----------------------------------------------------------------------------
(* plugins: the report of them.                                             *)

Place == [workload |-> 1, pod |-> 2, volume |-> 3, class |-> 4]
FateOrder == [deprecated |-> 1, migrated |-> 2, removed |-> 3]

SameRow(f, g) == f.fate = g.fate /\ f.key = g.key /\ f.name = g.name

(* By rule, whose name begins with the fate, then by resource.              *)
Before(f, g) ==
  \/ FateOrder[f.fate] < FateOrder[g.fate]
  \/ (f.fate = g.fate /\ f.key < g.key)
  \/ (f.fate = g.fate /\ f.key = g.key /\ f.name < g.name)

\* Mutant: findings told apart by their rule alone.
distinctByRule(F) ==
  {f \in F : ~ \E g \in F : f.fate = g.fate /\ f.key = g.key
                            /\ (g.name < f.name \/ (g.name = f.name /\ Place[g.kind] < Place[f.kind]))}

(* Of objects with one name and one rule, the kind looked at first stays.   *)
distinct(F) == {f \in F : ~ \E g \in F : SameRow(f, g) /\ Place[g.kind] < Place[f.kind]}

dedupe(F) ==
  {f \in distinct(F) : Cardinality({g \in distinct(F) : Before(g, f)}) < PluginCap}

VolumeLists == {"workloads", "pods", "storage"}

AnalyzeVolumes ==
  /\ stage = "volumes" /\ stage' = "done"
  /\ volumes' = [findings |-> dedupe(Uses),
                 row |-> IF VolumeLists \cap read = {} THEN "unavailable"
                         ELSE IF VolumeLists \subseteq read THEN "complete" ELSE "partial"]
  /\ UNCHANGED <<world, read, answered, configs>>

Done == stage = "done" /\ UNCHANGED vars

Next == Collect \/ AskKubelets \/ AnalyzeConfigs \/ AnalyzeVolumes \/ Done

Spec == Init /\ [][Next]_vars

-----------------------------------------------------------------------------
TypeOK ==
  /\ cluster \in Clusters /\ path \in Paths
  /\ DOMAIN args = DOMAIN cluster.pods
  /\ read \subseteq Lists /\ answered \subseteq DOMAIN cluster.nodes
  /\ stage \in {"collect", "kubelets", "settings", "volumes", "done"}
  /\ \A f \in configs.findings :
       f.rule \in Rules /\ f.tier \in {"breaks", "deprecated"} /\ f.on # {} /\ f.count >= Cardinality(f.on)
  /\ stage = "done" =>
       /\ configs.flags.state = "unavailable" \/ configs.flags.skipped = {}
       /\ configs.assessed <=> "unavailable" \notin {configs.flags.state, configs.kubelets.state}
       /\ volumes.row \in {"complete", "partial", "unavailable"}
       /\ volumes.row = "unavailable" => volumes.findings = {}

(* What a component was given, whichever way its manifest spells it.        *)
Sets(p, r) ==
  \E i \in DOMAIN cluster.pods[p].settings :
    LET s == cluster.pods[p].settings[i]
    IN  /\ s.flag \in Rule[r].selectors
        /\ CASE Rule[r].condition = "gate" -> HasGate(s.value, r)
             [] Rule[r].condition = "locked gate" -> HasLocked(s.value, r)
             [] Rule[r].condition = "equals" -> s.value = Scalar(r)
             [] OTHER -> TRUE

Refuses(p, r) == cluster.pods[p].component \in Rule[r].components /\ Sets(p, r)

(* What a kubelet runs with.                                                *)
Holds(n, r) ==
  LET config == cluster.nodes[n]
  IN  \E f \in Rule[r].selectors :
        IF Rule[r].condition = "absent" THEN f \notin DOMAIN config
        ELSE /\ f \in DOMAIN config
             /\ Rule[r].condition = "gate" => HasGate(config[f], r)
             /\ Rule[r].condition = "locked gate" => HasLocked(config[f], r)
             /\ Rule[r].condition = "equals" => config[f] = Scalar(r)

(* No lighter than the catalog says; what it does not say is the worst.     *)
AsHeavy(severity, given) ==
  IF given \in KnownSeverities THEN severity = given ELSE severity = "critical"

FindingNames(r, x) ==
  \E f \in configs.findings :
    /\ f.rule = r /\ (x \in f.on \/ f.count > Cardinality(f.on))
    /\ f.tier = "breaks" <=> Reached(Rule[r].applies)
    /\ AsHeavy(f.severity, IF f.tier = "breaks" THEN Rule[r].severity ELSE Rule[r].softer)

Warns(r) == Reached(Rule[r].applies) \/ (Reached(Rule[r].deprecated) /\ Rule[r].softer # NoName)

OtherSeen ==
  \E p \in DOMAIN cluster.pods : cluster.pods[p].visible /\ cluster.pods[p].component # "kube-proxy"

(* A setting of a component or a kubelet that the target refuses, or has    *)
(* deprecated with a severity, is in a finding of the right stage and       *)
(* weight - critical if nobody knows the catalog's - or was not looked at,  *)
(* and the row says so: whether a flag and its value are one argument or    *)
(* two, for every kubelet that answered, and with kube-proxy's pods the     *)
(* only ones to be seen.  A component that is hidden while another is seen  *)
(* is the exception.                                                        *)
SettingsShow ==
  /\ \A r \in RulesOf("flag"), p \in DOMAIN cluster.pods :
       Warns(r) /\ Refuses(p, r) =>
         \/ FindingNames(r, p)
         \/ configs.flags.state = "unavailable" /\ (r \in configs.flags.skipped \/ ~cluster.pods[p].visible)
         \/ ~cluster.pods[p].visible /\ OtherSeen
  /\ \A r \in RulesOf("kubelet"), n \in DOMAIN cluster.nodes :
       Warns(r) /\ Holds(n, r) =>
         FindingNames(r, n) \/ (n \notin answered /\ configs.kubelets.state # "complete")

Dropped(k) == Reached(Plugin[k].disabled) \/ Reached(Plugin[k].removed)

FullBefore(k, name) ==
  /\ Cardinality(volumes.findings) = PluginCap
  /\ \A f \in volumes.findings : f.fate = "removed" => f.key < k \/ (f.key = k /\ f.name <= name)

(* Every object of the cluster that mounts through a plugin the target      *)
(* drops is in a finding, or one of its name is - as heavy as the catalog   *)
(* says, if no driver takes over - unless its list was not read and the row *)
(* says so, the report is full of findings that come before, or it belongs  *)
(* to a controller nobody lists.                                            *)
VolumesShow ==
  \A o \in DOMAIN cluster.objects : \A k \in cluster.objects[o].keys \cap Plugins :
    Dropped(k) =>
      \/ \E f \in volumes.findings :
           /\ f.key = k /\ f.name = cluster.objects[o].name /\ f.fate \in {"removed", "migrated"}
           /\ f.fate = "removed" => AsHeavy(f.severity, Plugin[k].severity)
      \/ cluster.objects[o].kind = "owned"
      \/ ListOf[cluster.objects[o].kind] \notin read /\ volumes.row # "complete"
      \/ FullBefore(k, cluster.objects[o].name)

BreakersShow == stage = "done" => SettingsShow /\ VolumesShow

(* No finding of either tier is false.  What it names is set, or mounted,   *)
(* as it says; it is not called refused before the target refuses it; and   *)
(* what a driver takes over is not called an incident, nor is a driver      *)
(* relied on that is not there.                                             *)
BreakerAlarmsTrue ==
  /\ \A f \in configs.findings :
       /\ f.tier = "breaks" <=> Reached(Rule[f.rule].applies)
       /\ f.tier = "deprecated" => Reached(Rule[f.rule].deprecated)
       /\ \A x \in f.on :
            IF Rule[f.rule].source = "flag" THEN Refuses(x, f.rule) ELSE Holds(x, f.rule)
  /\ \A f \in volumes.findings :
       /\ \E o \in DOMAIN cluster.objects :
            cluster.objects[o].name = f.name /\ cluster.objects[o].kind = f.kind /\ f.key \in cluster.objects[o].keys
       /\ f.fate \in {"removed", "migrated"} <=> Dropped(f.key)
       /\ f.fate = "migrated" => Plugin[f.key].driver \in cluster.drivers
       /\ f.fate = "removed" /\ "storage" \in read => Plugin[f.key].driver \notin cluster.drivers
       /\ f.past => \E minor \in {Plugin[f.key].disabled, Plugin[f.key].removed} : minor # 0 /\ minor <= path.current

-----------------------------------------------------------------------------
(* A statement of a comment that the code does not keep.                    *)

(* Analyze reports every object using a volume plugin the target version    *)
(* breaks, of those that were read.                                         *)
EveryUserReported ==
  stage = "done" =>
    \A o \in InventoryObjects : \A k \in cluster.objects[o].keys \cap Plugins :
      Dropped(k) =>
        \E f \in volumes.findings :
          f.key = k /\ f.name = cluster.objects[o].name /\ f.kind = cluster.objects[o].kind
=============================================================================
