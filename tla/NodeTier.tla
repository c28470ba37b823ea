------------------------------ MODULE NodeTier ------------------------------
(* The node tier: what noderuntime.Analyze concludes about the machines of *)
(* a cluster from three reads made at different moments - the node list,   *)
(* the workload list, and later every kubelet's own metrics - while nodes  *)
(* are being replaced.                                                     *)
(*                                                                         *)
(* A version is its minor, 0 when it does not parse.  What a machine tells *)
(* about a rule is a set of samples: the text of a node status field (one  *)
(* or none), or the samples of a metric its kubelet exports.               *)
EXTENDS Naturals, FiniteSets

CONSTANTS
  Nodes,       \* names a node can have
  Rules,       \* the node runtime rules of the catalog
  Rule,        \* what each says: source, condition, values, removed
  Machines,    \* what a node can be: kubelet, says, tells
  Paths,       \* [current, target] of the upgrades asked about
  Proxies,     \* versions in the kube-proxy DaemonSet, 0 for none readable
  MaxChanges   \* nodes replaced while the scan runs

ASSUME RulesAssumption ==
  /\ \A r \in Rules :
       /\ Rule[r].source \in {"status", "metric", "none"}
       /\ Rule[r].condition \in {"value", "at most target"}
       /\ Rule[r].condition = "at most target" => Rule[r].source = "metric"
       /\ Rule[r].removed \in Nat
  /\ {"nodes", "kubelet skew", "kube-proxy skew"} \cap Rules = {}

(* A kubelet's version is reported as it is or not readably.               *)
ASSUME MachinesAssumption ==
  \A m \in Machines :
    /\ m.kubelet \in Nat \ {0}
    /\ m.says \in {0, m.kubelet}
    /\ m.tells \in [Rules -> SUBSET Nat]

ASSUME PathsAssumption ==
  /\ \A p \in Paths : p.current \in Nat /\ p.target \in Nat \ {0}
  /\ Proxies \subseteq Nat
  /\ MaxChanges \in Nat

VARIABLES
  path,        \* the upgrade, fixed for the run
  fleet,       \* the nodes of the cluster
  machine,     \* what each node is now
  seen,        \* history: everything it was since the scan began
  changes,     \* replacements so far
  proxy,       \* the version the kube-proxy DaemonSet runs
  stage,       \* where the run is
  nodes,       \* outcome of the node list
  workloads,   \* outcome of the workload list
  listed,      \* each node as the list showed it, once nodes = "read"
  scraped,     \* outcome of each kubelet's metrics
  series,      \* each node as its metrics showed it, once scraped
  verdict      \* the tier's findings and coverage rows

world   == <<path, fleet, machine, seen, changes, proxy>>
reading == <<nodes, workloads, listed, scraped, series>>
vars    == <<world, stage, reading, verdict>>

Outcomes == {"none", "read", "failed"}
Nothing  == [findings |-> {}, rows |-> {}]

Init ==
  /\ path \in Paths /\ proxy \in Proxies
  /\ fleet \in SUBSET Nodes
  /\ machine \in [Nodes -> Machines]
  /\ seen = [n \in Nodes |-> {machine[n]}]
  /\ changes = 0
  /\ stage = "lists"
  /\ nodes = "none" /\ workloads = "none"
  /\ listed = machine /\ series = machine
  /\ scraped = [n \in Nodes |-> "none"]
  /\ verdict = Nothing

-----------------------------------------------------------------------------
(* The reads.                                                              *)

(* The lists are read by goroutines of Collect, in either order.           *)
ListNodes ==
  /\ stage = "lists" /\ nodes = "none"
  /\ \/ nodes' = "read" /\ listed' = machine
     \/ nodes' = "failed" /\ UNCHANGED listed
  /\ UNCHANGED <<world, stage, workloads, scraped, series, verdict>>

ListWorkloads ==
  /\ stage = "lists" /\ workloads = "none"
  /\ workloads' \in {"read", "failed"}
  /\ UNCHANGED <<world, stage, nodes, listed, scraped, series, verdict>>

RulesFrom(source) == {r \in Rules : Rule[r].source = source}

(* Metrics are asked for when some rule reads one and there is a node list *)
(* to go by.                                                               *)
AskMetrics ==
  /\ stage = "lists" /\ nodes # "none" /\ workloads # "none"
  /\ stage' = IF nodes = "read" /\ RulesFrom("metric") # {} THEN "metrics" ELSE "analyze"
  /\ UNCHANGED <<world, reading, verdict>>

(* One kubelet's goroutine: the request, then its row.                     *)
Scrape(n) ==
  /\ stage = "metrics" /\ n \in fleet /\ scraped[n] = "none"
  /\ \/ /\ scraped' = [scraped EXCEPT ![n] = "read"]
        /\ series' = [series EXCEPT ![n] = machine[n]]
     \/ /\ scraped' = [scraped EXCEPT ![n] = "failed"]
        /\ UNCHANGED series
  /\ UNCHANGED <<world, stage, nodes, workloads, listed, verdict>>

Scraped ==
  /\ stage = "metrics"
  /\ \A n \in fleet : scraped[n] # "none"
  /\ stage' = "analyze"
  /\ UNCHANGED <<world, reading, verdict>>

(* A node is replaced, or its kubelet restarted by an upgrade.             *)
Replace(n) ==
  /\ stage # "done" /\ n \in fleet /\ changes < MaxChanges
  /\ \E m \in Machines :
       /\ m.kubelet >= machine[n].kubelet
       /\ machine' = [machine EXCEPT ![n] = m]
       /\ seen' = [seen EXCEPT ![n] = @ \cup {m}]
  /\ changes' = changes + 1
  /\ UNCHANGED <<path, fleet, proxy, stage, reading, verdict>>

-----------------------------------------------------------------------------
(* The judgement.                                                          *)

InWindow(r) == Rule[r].removed # 0 /\ Rule[r].removed <= path.target

\* Mutant: a current version that does not parse silences every advisory.
AheadOfKnown(r) == path.current # 0 /\ Rule[r].removed > path.current

(* An advisory is for what the upgrade brings; a current version that does *)
(* not parse widens the path.                                              *)
Ahead(r) == path.current = 0 \/ Rule[r].removed > path.current

\* Mutant: a version that does not parse taken for a very old one.
FiresUnparsed(r, sample) ==
  IF Rule[r].condition = "value"
  THEN sample \in Rule[r].values
  ELSE sample <= path.target

Fires(r, sample) ==
  IF Rule[r].condition = "value"
  THEN sample \in Rule[r].values
  ELSE sample # 0 /\ sample <= path.target

NodesRead == nodes = "read" /\ fleet # {}

Answered == {n \in fleet : scraped[n] = "read"}

MetricsOutcome ==
  IF nodes # "read" \/ Answered = {} THEN "failed"
  ELSE IF Answered # fleet THEN "partial" ELSE "read"

Says(r, n) ==
  IF Rule[r].source = "status" THEN listed[n].tells[r]
  ELSE IF scraped[n] = "read" THEN series[n].tells[r] ELSE {}

Reporters(r) == {n \in fleet : Says(r, n) # {}}
Matched(r)   == {n \in fleet : \E sample \in Says(r, n) : Fires(r, sample)}

(* Only a rule with evidence of its own has a row.                         *)
Evidenced == {r \in RulesFrom("status") \cup RulesFrom("metric") : InWindow(r)}

Unread(r) == Rule[r].source = "metric" /\ MetricsOutcome = "failed"

\* Mutant: a rule's row complete whenever some node reported.
RuleStateOfSome(r) ==
  IF Unread(r) \/ Reporters(r) = {} THEN "UNAVAILABLE" ELSE "COMPLETE"

\* Mutant: the state left at its zero value unless the read was partial.
RuleStateUnset(r) ==
  IF Unread(r) \/ Reporters(r) = {} THEN "UNAVAILABLE"
  ELSE IF Rule[r].source = "metric" /\ MetricsOutcome = "partial" THEN "PARTIAL"
  ELSE ""

RuleState(r) ==
  IF Unread(r) \/ Reporters(r) = {} THEN "UNAVAILABLE"
  ELSE IF Rule[r].source = "metric" /\ MetricsOutcome = "partial" THEN "PARTIAL"
  ELSE "COMPLETE"

Row(scope, state) == [scope |-> scope, state |-> state]
Finding(about, severity, on) == [about |-> about, severity |-> severity, nodes |-> on]

Advisories(from) ==
  {Finding(r, "INFO", {}) : r \in {q \in from : InWindow(q) /\ Ahead(q)}}

(* What the evidence settles; a rule nobody reported on is not assessed.   *)
RuleFindings ==
  {Finding(r, "BREAK", Matched(r)) : r \in {q \in Evidenced : ~Unread(q) /\ Matched(q) # {}}}
  \cup {Finding("nodes", "INFO", {}) : r \in {q \in Evidenced : ~Unread(q) /\ Reporters(q) = {}}}
  \cup Advisories({r \in RulesFrom("metric") : Unread(r)})

(* How far a kubelet of version v would be behind the target.              *)
Bands == {"HIGH", "MEDIUM", "LOW"}
InBand(v, band) ==
  /\ v # 0
  /\ \/ band = "HIGH"   /\ v + 3 < path.target
     \/ band = "MEDIUM" /\ v + 3 = path.target
     \/ band = "LOW"    /\ v + 2 = path.target

Behind(band) == {n \in fleet : InBand(listed[n].says, band)}
Unreadable   == {n \in fleet : listed[n].says = 0}

KubeletSkew ==
  {Finding("kubelet skew", band, Behind(band)) : band \in {b \in Bands : Behind(b) # {}}}

KubeProxySkew ==
  {Finding("kube-proxy skew", band, {}) :
     band \in {b \in Bands : workloads = "read" /\ InBand(proxy, b)}}

NodesGap ==
  [findings |-> Advisories(RulesFrom("none")) \cup {Finding("nodes", "INFO", {})},
   rows     |-> {Row("nodes", "UNAVAILABLE")}]

NodesJudged ==
  [findings |-> Advisories(RulesFrom("none")) \cup RuleFindings \cup KubeletSkew \cup KubeProxySkew,
   rows     |->
     {Row(r, RuleState(r)) : r \in Evidenced}
     \cup (IF Unreadable = {} THEN {} ELSE {Row("kubelet skew", "PARTIAL")})
     \cup (IF workloads = "read" THEN {} ELSE {Row("kube-proxy skew", "UNAVAILABLE")})]

Analyze ==
  /\ stage = "analyze"
  /\ verdict' = IF NodesRead THEN NodesJudged ELSE NodesGap
  /\ stage' = "done"
  /\ UNCHANGED <<world, reading>>

Done == stage = "done" /\ UNCHANGED vars

Next ==
  \/ ListNodes \/ ListWorkloads
  \/ AskMetrics
  \/ \E n \in Nodes : Scrape(n) \/ Replace(n)
  \/ Scraped
  \/ Analyze
  \/ Done

Spec == Init /\ [][Next]_vars

-----------------------------------------------------------------------------
TypeOK ==
  /\ path \in Paths /\ proxy \in Proxies
  /\ fleet \subseteq Nodes
  /\ machine \in [Nodes -> Machines]
  /\ seen \in [Nodes -> SUBSET Machines]
  /\ changes \in 0 .. MaxChanges
  /\ stage \in {"lists", "metrics", "analyze", "done"}
  /\ nodes \in Outcomes /\ workloads \in Outcomes
  /\ listed \in [Nodes -> Machines] /\ series \in [Nodes -> Machines]
  /\ scraped \in [Nodes -> Outcomes]
  /\ \A f \in verdict.findings :
       /\ f.about \in Rules \cup {"nodes", "kubelet skew", "kube-proxy skew"}
       /\ f.severity \in Bands \cup {"INFO", "BREAK"}
       /\ f.nodes \subseteq fleet
  /\ \A row \in verdict.rows :
       /\ row.scope \in Rules \cup {"nodes", "kubelet skew", "kube-proxy skew"}
       /\ row.state \in {"COMPLETE", "PARTIAL", "UNAVAILABLE"}

(* What a sample must be for its node to break at the target: one of the   *)
(* rule's values, or a release, not after the target, that ends support.   *)
Sinks(r) == IF Rule[r].condition = "value" THEN Rule[r].values ELSE 1 .. path.target

Breaks(r, m) == m.tells[r] \cap Sinks(r) # {}

GapAbout(scope) ==
  \E row \in verdict.rows : row.scope \in {scope, "nodes"} /\ row.state # "COMPLETE"

(* A node that breaks at the target, and says so all through the scan, is  *)
(* named by the rule's finding, or the rule's row admits a gap; so is a    *)
(* kubelet that the target leaves out of the skew policy.                  *)
NodeBreaksShow ==
  stage = "done" =>
    \A n \in fleet :
      /\ \A r \in Evidenced :
           (\A m \in seen[n] : Breaks(r, m)) =>
             \/ \E f \in verdict.findings : f.about = r /\ f.severity = "BREAK" /\ n \in f.nodes
             \/ GapAbout(r)
      /\ (\A m \in seen[n] : m.kubelet + 3 < path.target) =>
           \/ \E f \in verdict.findings :
                f.about = "kubelet skew" /\ f.severity = "HIGH" /\ n \in f.nodes
           \/ GapAbout("kubelet skew")

(* A node named in a finding was, at some moment of the scan, what the     *)
(* finding says: breaking at the target, or as far behind it as its band.  *)
NodeAlarmsWereTrue ==
  \A f \in verdict.findings : \A n \in f.nodes :
    \/ f.about \in Rules /\ \E m \in seen[n] : Breaks(f.about, m)
    \/ /\ f.about = "kubelet skew"
       /\ \E m \in seen[n] : InBand(m.kubelet, f.severity)

(* Whatever changes between the current version and the target is in the   *)
(* report as a break, an advisory or a row, whichever reads failed and     *)
(* also when the current version cannot be told.                           *)
PathRulesPrinted ==
  stage = "done" =>
    \A r \in Rules :
      Rule[r].removed \in path.current + 1 .. path.target =>
        \/ \E f \in verdict.findings : f.about = r
        \/ \E row \in verdict.rows :
             \/ row.scope = r
             \/ row.scope = "nodes" /\ Rule[r].source # "none"
=============================================================================
