--------------------------- MODULE NodeTier_proofs --------------------------
(* Theorems about NodeTier, for any nodes, rules, machines and paths.      *)
EXTENDS NodeTier, TLAPS

(* What a read showed of a node, the node was at some moment.              *)
SeenInv ==
  \A n \in Nodes : machine[n] \in seen[n] /\ listed[n] \in seen[n] /\ series[n] \in seen[n]

VerdictInv == stage # "done" => verdict = Nothing

(* Once there is a verdict, the three statements about it.                 *)
Judged == NodeBreaksShow /\ NodeAlarmsWereTrue /\ PathRulesPrinted

Inv == TypeOK /\ SeenInv /\ VerdictInv /\ Judged

-----------------------------------------------------------------------------
(* The verdict, as a function of what was read.                            *)

(* A finding of the tier is a settled rule, a kubelet band, the kube-proxy *)
(* band, or an advisory that names no node.                                *)
LEMMA FindingCases ==
  ASSUME NEW f \in NodesJudged.findings
  PROVE  \/ \E r \in Evidenced : f = Finding(r, "BREAK", Matched(r))
         \/ \E band \in Bands : f = Finding("kubelet skew", band, Behind(band))
         \/ \E band \in Bands : f = Finding("kube-proxy skew", band, {})
         \/ \E about \in Rules \cup {"nodes"} : f = Finding(about, "INFO", {})
<1>1. f \in Advisories(RulesFrom("none")) \cup RuleFindings \cup KubeletSkew \cup KubeProxySkew
  BY DEF NodesJudged
<1>2. \A from \in SUBSET Rules : f \in Advisories(from) =>
        \E about \in Rules \cup {"nodes"} : f = Finding(about, "INFO", {})
  BY DEF Advisories
<1>3. RulesFrom("none") \in SUBSET Rules
      /\ {r \in RulesFrom("metric") : Unread(r)} \in SUBSET Rules
  BY DEF RulesFrom
<1>4. CASE f \in Advisories(RulesFrom("none"))
  BY <1>2, <1>3, <1>4
<1>5. CASE f \in RuleFindings
  BY <1>2, <1>3, <1>5 DEF RuleFindings
<1>6. CASE f \in KubeletSkew
  BY <1>6 DEF KubeletSkew
<1>7. CASE f \in KubeProxySkew
  BY <1>7 DEF KubeProxySkew
<1> QED BY <1>1, <1>4, <1>5, <1>6, <1>7

(* Without nodes there are advisories only.                                *)
LEMMA GapCases ==
  ASSUME NEW f \in NodesGap.findings
  PROVE  \E about \in Rules \cup {"nodes"} : f = Finding(about, "INFO", {})
BY DEF NodesGap, Advisories, RulesFrom

(* The rows of a judged fleet.                                             *)
LEMMA RowCases ==
  ASSUME NEW row \in NodesJudged.rows
  PROVE  \/ \E r \in Evidenced : row = Row(r, RuleState(r))
         \/ row = Row("kubelet skew", "PARTIAL")
         \/ row = Row("kube-proxy skew", "UNAVAILABLE")
BY DEF NodesJudged

(* A rule fires exactly on the samples that break its node.                *)
LEMMA FiresIsBreaking ==
  ASSUME TypeOK, NEW r \in Rules, NEW sample \in Nat
  PROVE  Fires(r, sample) <=> sample \in Sinks(r)
<1>1. path.target \in Nat
  BY PathsAssumption DEF TypeOK
<1> QED BY <1>1 DEF Fires, Sinks

(* What a node says about a rule is what it told in one of the reads.      *)
LEMMA SaysWasSeen ==
  ASSUME TypeOK, SeenInv, NEW r \in Rules, NEW n \in fleet
  PROVE  /\ Says(r, n) \subseteq Nat
         /\ Says(r, n) # {} => \E m \in seen[n] : Says(r, n) = m.tells[r]
         /\ Rule[r].source = "status" \/ scraped[n] = "read" =>
              \E m \in seen[n] : Says(r, n) = m.tells[r]
<1>1. n \in Nodes /\ listed[n] \in Machines /\ series[n] \in Machines
  BY DEF TypeOK
<1>2. listed[n] \in seen[n] /\ series[n] \in seen[n]
  BY <1>1 DEF SeenInv
<1>3. listed[n].tells[r] \subseteq Nat /\ series[n].tells[r] \subseteq Nat
  BY <1>1, MachinesAssumption
<1> QED BY <1>2, <1>3 DEF Says

(* A node that breaks whenever it is looked at, and was heard, is matched. *)
LEMMA HeardIsMatched ==
  ASSUME TypeOK, SeenInv, NEW r \in Rules, NEW n \in fleet,
         \A m \in seen[n] : Breaks(r, m),
         Rule[r].source = "status" \/ scraped[n] = "read"
  PROVE  n \in Matched(r)
<1>1. PICK m \in seen[n] : Says(r, n) = m.tells[r]
  BY SaysWasSeen
<1>2. PICK sample \in Says(r, n) : sample \in Sinks(r)
  BY <1>1 DEF Breaks
<1>3. sample \in Nat
  BY <1>2, SaysWasSeen
<1> QED BY <1>2, <1>3, FiresIsBreaking DEF Matched

(* A node that is matched broke at some moment.                            *)
LEMMA MatchedBroke ==
  ASSUME TypeOK, SeenInv, NEW r \in Rules, NEW n \in Matched(r)
  PROVE  n \in fleet /\ \E m \in seen[n] : Breaks(r, m)
<1>1. PICK sample \in Says(r, n) : n \in fleet /\ Fires(r, sample)
  BY DEF Matched
<1>2. sample \in Nat /\ \E m \in seen[n] : Says(r, n) = m.tells[r]
  BY <1>1, SaysWasSeen
<1>3. sample \in Sinks(r)
  BY <1>1, <1>2, FiresIsBreaking
<1> QED BY <1>1, <1>2, <1>3 DEF Breaks

(* A rule with evidence somewhere is either reported on the nodes it broke *)
(* or its row admits a gap.                                                *)
LEMMA RuleShows ==
  ASSUME TypeOK, SeenInv, NodesRead, NEW r \in Evidenced, NEW n \in fleet,
         \A m \in seen[n] : Breaks(r, m)
  PROVE  \/ \E f \in NodesJudged.findings :
              f.about = r /\ f.severity = "BREAK" /\ n \in f.nodes
         \/ \E row \in NodesJudged.rows : row.scope = r /\ row.state # "COMPLETE"
<1>1. r \in Rules /\ Rule[r].source \in {"status", "metric"}
  BY DEF Evidenced, RulesFrom
<1>2. Row(r, RuleState(r)) \in NodesJudged.rows
  BY DEF NodesJudged
<1>3. CASE ~Unread(r) /\ (Rule[r].source = "status" \/ scraped[n] = "read")
  <2>1. n \in Matched(r)
    BY <1>1, <1>3, HeardIsMatched
  <2>2. Finding(r, "BREAK", Matched(r)) \in RuleFindings
    BY <1>3, <2>1 DEF RuleFindings
  <2>3. Finding(r, "BREAK", Matched(r)) \in NodesJudged.findings
    BY <2>2 DEF NodesJudged
  <2> QED BY <2>1, <2>3 DEF Finding
<1>4. CASE Unread(r) \/ (Rule[r].source = "metric" /\ scraped[n] # "read")
  <2>1. RuleState(r) # "COMPLETE"
    BY <1>4 DEF RuleState, Unread, MetricsOutcome, Answered
  <2> QED BY <1>2, <2>1 DEF Row
<1> QED BY <1>1, <1>3, <1>4

(* So is a kubelet out of the skew policy.                                 *)
LEMMA SkewShows ==
  ASSUME TypeOK, SeenInv, NEW n \in fleet,
         \A m \in seen[n] : m.kubelet + 3 < path.target
  PROVE  \/ \E f \in NodesJudged.findings :
              f.about = "kubelet skew" /\ f.severity = "HIGH" /\ n \in f.nodes
         \/ \E row \in NodesJudged.rows : row.scope = "kubelet skew" /\ row.state # "COMPLETE"
<1>1. listed[n] \in seen[n] /\ listed[n] \in Machines
  BY DEF SeenInv, TypeOK
<1>2. CASE listed[n].says = 0
  <2>1. Row("kubelet skew", "PARTIAL") \in NodesJudged.rows
    BY <1>2 DEF NodesJudged, Unreadable
  <2> QED BY <2>1 DEF Row
<1>3. CASE listed[n].says # 0
  <2>1. listed[n].says = listed[n].kubelet
    BY <1>1, <1>3, MachinesAssumption
  <2>2. n \in Behind("HIGH")
    BY <1>1, <1>3, <2>1 DEF Behind, InBand
  <2>3. Finding("kubelet skew", "HIGH", Behind("HIGH")) \in KubeletSkew
    BY <2>2 DEF KubeletSkew, Bands
  <2>4. Finding("kubelet skew", "HIGH", Behind("HIGH")) \in NodesJudged.findings
    BY <2>3 DEF NodesJudged
  <2> QED BY <2>2, <2>4 DEF Finding
<1> QED BY <1>2, <1>3

(* A kubelet in a band was that far behind at some moment.                 *)
LEMMA BehindWas ==
  ASSUME TypeOK, SeenInv, NEW band \in Bands, NEW n \in Behind(band)
  PROVE  n \in fleet /\ \E m \in seen[n] : InBand(m.kubelet, band)
<1>1. n \in fleet /\ InBand(listed[n].says, band)
  BY DEF Behind
<1>2. listed[n] \in seen[n] /\ listed[n] \in Machines
  BY <1>1 DEF SeenInv, TypeOK
<1>3. listed[n].says = listed[n].kubelet
  BY <1>1, <1>2, MachinesAssumption DEF InBand
<1> QED BY <1>1, <1>2, <1>3

(* A change the path brings is printed: as an advisory when nothing can be *)
(* read about it, else with its row, else with the gap over all nodes.     *)
LEMMA PathPrinted ==
  ASSUME TypeOK, NEW r \in Rules, Rule[r].removed \in path.current + 1 .. path.target,
         NEW v, v = IF NodesRead THEN NodesJudged ELSE NodesGap
  PROVE  \/ \E f \in v.findings : f.about = r
         \/ \E row \in v.rows :
              \/ row.scope = r
              \/ row.scope = "nodes" /\ Rule[r].source # "none"
<1>1. path.current \in Nat /\ path.target \in Nat /\ Rule[r].removed \in Nat
  BY PathsAssumption, RulesAssumption DEF TypeOK
<1>2. InWindow(r) /\ Ahead(r)
  BY <1>1 DEF InWindow, Ahead
<1>3. CASE Rule[r].source = "none"
  <2>1. Finding(r, "INFO", {}) \in Advisories(RulesFrom("none"))
    BY <1>2, <1>3 DEF Advisories, RulesFrom
  <2>2. Finding(r, "INFO", {}) \in v.findings
    BY <2>1 DEF NodesJudged, NodesGap
  <2> QED BY <2>2 DEF Finding
<1>4. CASE Rule[r].source # "none" /\ NodesRead
  <2>1. r \in Evidenced
    BY <1>2, <1>4, RulesAssumption DEF Evidenced, RulesFrom
  <2>2. Row(r, RuleState(r)) \in v.rows
    BY <1>4, <2>1 DEF NodesJudged
  <2> QED BY <2>2 DEF Row
<1>5. CASE Rule[r].source # "none" /\ ~NodesRead
  <2>1. Row("nodes", "UNAVAILABLE") \in v.rows
    BY <1>5 DEF NodesGap
  <2> QED BY <1>5, <2>1 DEF Row
<1> QED BY <1>3, <1>4, <1>5

-----------------------------------------------------------------------------
(* The steps.                                                              *)

(* Before the verdict the three statements about it hold of nothing.       *)
LEMMA NothingSaid ==
  stage # "done" /\ verdict = Nothing => Judged
<1> SUFFICES ASSUME stage # "done", verdict = Nothing PROVE Judged
  OBVIOUS
<1>1. verdict.findings = {}
  BY DEF Nothing
<1>2. NodeAlarmsWereTrue
  BY <1>1 DEF NodeAlarmsWereTrue
<1>3. NodeBreaksShow
  BY DEF NodeBreaksShow
<1>4. PathRulesPrinted
  BY DEF PathRulesPrinted
<1> QED BY <1>2, <1>3, <1>4 DEF Judged

(* The same of the next state.                                             *)
LEMMA NothingSaidNext ==
  stage' # "done" /\ verdict' = Nothing => Judged'
<1> SUFFICES ASSUME stage' # "done", verdict' = Nothing PROVE Judged'
  OBVIOUS
<1>1. verdict'.findings = {}
  BY DEF Nothing
<1>2. NodeAlarmsWereTrue'
  BY <1>1 DEF NodeAlarmsWereTrue
<1>3. NodeBreaksShow'
  BY DEF NodeBreaksShow
<1>4. PathRulesPrinted'
  BY DEF PathRulesPrinted
<1> QED BY <1>2, <1>3, <1>4 DEF Judged

(* What the verdict is judged by does not depend on the verdict.           *)
LEMMA SameWorld ==
  ASSUME UNCHANGED world
  PROVE  /\ \A r : r \in Evidenced' <=> r \in Evidenced
         /\ \A r, m : Breaks(r, m)' <=> Breaks(r, m)
         /\ \A v, band : InBand(v, band)' <=> InBand(v, band)
<1>1. path' = path
  BY DEF world
<1>2. \A r : r \in Evidenced' <=> r \in Evidenced
  BY <1>1 DEF Evidenced, RulesFrom, InWindow
<1>3. \A r, m : Breaks(r, m)' <=> Breaks(r, m)
  BY <1>1 DEF Breaks, Sinks
<1>4. \A v, band : InBand(v, band)' <=> InBand(v, band)
  BY <1>1 DEF InBand
<1> QED BY <1>2, <1>3, <1>4

LEMMA Initial == Init => Inv
<1> SUFFICES ASSUME Init PROVE Inv
  OBVIOUS
<1>1. TypeOK
  BY PathsAssumption DEF Init, TypeOK, Outcomes, Nothing
<1>2. SeenInv
  BY DEF Init, SeenInv
<1>3. stage # "done" /\ verdict = Nothing
  BY DEF Init
<1> QED BY <1>1, <1>2, <1>3, NothingSaid DEF Inv, VerdictInv

(* Reading leaves what a node was alone and adds what it is.               *)
LEMMA ReadKeeps ==
  ASSUME Inv, ListNodes \/ ListWorkloads \/ AskMetrics \/ Scraped \/ \E n \in Nodes : Scrape(n)
  PROVE  Inv'
<1>1. TypeOK /\ SeenInv
  BY DEF Inv
<1>2. stage # "done" /\ verdict = Nothing
  BY DEF Inv, VerdictInv, ListNodes, ListWorkloads, AskMetrics, Scraped, Scrape
<1>3. stage' # "done" /\ verdict' = Nothing
  BY <1>2 DEF ListNodes, ListWorkloads, AskMetrics, Scraped, Scrape
<1>4. UNCHANGED world
  BY DEF ListNodes, ListWorkloads, AskMetrics, Scraped, Scrape
<1>5. /\ nodes' \in Outcomes /\ workloads' \in Outcomes
      /\ scraped' \in [Nodes -> Outcomes]
      /\ stage' \in {"lists", "metrics", "analyze", "done"}
  BY <1>1 DEF TypeOK, Outcomes, reading, ListNodes, ListWorkloads, AskMetrics, Scraped, Scrape
<1>6. /\ listed' \in [Nodes -> Machines] /\ series' \in [Nodes -> Machines]
      /\ \A n \in Nodes : listed'[n] \in seen[n] /\ series'[n] \in seen[n]
  BY <1>1 DEF TypeOK, SeenInv, reading, ListNodes, ListWorkloads, AskMetrics, Scraped, Scrape
<1>7. TypeOK'
  BY <1>1, <1>3, <1>4, <1>5, <1>6 DEF TypeOK, world, Nothing
<1>8. SeenInv'
  BY <1>1, <1>4, <1>6 DEF SeenInv, world
<1>9. VerdictInv' /\ Judged'
  BY <1>3, NothingSaidNext DEF VerdictInv
<1> QED BY <1>7, <1>8, <1>9 DEF Inv

(* A replacement adds to what the node was.                                *)
LEMMA ReplaceKeeps ==
  ASSUME Inv, NEW n \in Nodes, Replace(n)
  PROVE  Inv'
<1>1. TypeOK /\ SeenInv
  BY DEF Inv
<1>2. stage # "done" /\ stage' = stage /\ verdict = Nothing /\ verdict' = verdict
  BY DEF Inv, VerdictInv, Replace
<1>3. PICK m \in Machines :
        /\ machine' = [machine EXCEPT ![n] = m]
        /\ seen' = [seen EXCEPT ![n] = @ \cup {m}]
  BY DEF Replace
<1>4. machine' \in [Nodes -> Machines] /\ seen' \in [Nodes -> SUBSET Machines]
  BY <1>1, <1>3 DEF TypeOK
<1>5. changes' \in 0 .. MaxChanges
  <2>1. changes < MaxChanges /\ changes' = changes + 1
    BY DEF Replace
  <2>2. changes \in 0 .. MaxChanges /\ MaxChanges \in Nat
    BY <1>1, PathsAssumption DEF TypeOK
  <2> QED BY <2>1, <2>2
<1>6. TypeOK'
  BY <1>1, <1>2, <1>4, <1>5 DEF TypeOK, Replace, reading, Nothing
<1>7. SeenInv'
  BY <1>1, <1>3 DEF SeenInv, TypeOK, Replace, reading
<1>8. VerdictInv' /\ Judged'
  BY <1>2, NothingSaidNext DEF VerdictInv
<1> QED BY <1>6, <1>7, <1>8 DEF Inv

(* The verdict has the type, the breaks and the alarms it should.          *)
LEMMA AnalyzeKeeps ==
  ASSUME Inv, Analyze
  PROVE  Inv'
<1>1. TypeOK /\ SeenInv
  BY DEF Inv
<1>2. UNCHANGED <<world, reading>> /\ stage' = "done"
  BY DEF Analyze
<1>3. verdict' = IF NodesRead THEN NodesJudged ELSE NodesGap
  BY DEF Analyze
<1>4. ASSUME NEW f \in verdict'.findings
      PROVE  /\ f.about \in Rules \cup {"nodes", "kubelet skew", "kube-proxy skew"}
             /\ f.severity \in Bands \cup {"INFO", "BREAK"}
             /\ f.nodes \subseteq fleet
             /\ \A n \in f.nodes :
                  \/ f.about \in Rules /\ \E m \in seen[n] : Breaks(f.about, m)
                  \/ /\ f.about = "kubelet skew"
                     /\ \E m \in seen[n] : InBand(m.kubelet, f.severity)
  <2>1. CASE \E r \in Evidenced : f = Finding(r, "BREAK", Matched(r))
    <3>1. PICK r \in Evidenced : f = Finding(r, "BREAK", Matched(r))
      BY <2>1
    <3>2. r \in Rules
      BY DEF Evidenced, RulesFrom
    <3> QED BY <1>1, <3>1, <3>2, MatchedBroke DEF Finding
  <2>2. CASE \E band \in Bands : f = Finding("kubelet skew", band, Behind(band))
    <3>1. PICK band \in Bands : f = Finding("kubelet skew", band, Behind(band))
      BY <2>2
    <3>2. f.about = "kubelet skew" /\ f.severity = band /\ f.nodes = Behind(band)
      BY <3>1 DEF Finding
    <3> QED BY <1>1, <3>2, BehindWas
  <2>3. CASE \E band \in Bands : f = Finding("kube-proxy skew", band, {})
    <3>1. PICK band \in Bands : f = Finding("kube-proxy skew", band, {})
      BY <2>3
    <3>2. f.about = "kube-proxy skew" /\ f.severity = band /\ f.nodes = {}
      BY <3>1 DEF Finding
    <3> QED BY <3>2
  <2>4. CASE \E about \in Rules \cup {"nodes"} : f = Finding(about, "INFO", {})
    <3>1. PICK about \in Rules \cup {"nodes"} : f = Finding(about, "INFO", {})
      BY <2>4
    <3>2. f.about = about /\ f.severity = "INFO" /\ f.nodes = {}
      BY <3>1 DEF Finding
    <3> QED BY <3>2
  <2> QED BY <1>3, <2>1, <2>2, <2>3, <2>4, FindingCases, GapCases
<1>5. ASSUME NEW row \in verdict'.rows
      PROVE  /\ row.scope \in Rules \cup {"nodes", "kubelet skew", "kube-proxy skew"}
             /\ row.state \in {"COMPLETE", "PARTIAL", "UNAVAILABLE"}
  <2>1. CASE NodesRead
    <3>1. row \in NodesJudged.rows
      BY <1>3, <2>1
    <3>2. CASE \E r \in Evidenced : row = Row(r, RuleState(r))
      <4>1. PICK r \in Evidenced : row = Row(r, RuleState(r))
        BY <3>2
      <4>2. row.scope = r /\ row.state = RuleState(r)
        BY <4>1 DEF Row
      <4>3. r \in Rules
        BY DEF Evidenced, RulesFrom
      <4>4. RuleState(r) \in {"COMPLETE", "PARTIAL", "UNAVAILABLE"}
        BY DEF RuleState
      <4> QED BY <4>2, <4>3, <4>4
    <3>3. CASE row = Row("kubelet skew", "PARTIAL")
      BY <3>3 DEF Row
    <3>4. CASE row = Row("kube-proxy skew", "UNAVAILABLE")
      BY <3>4 DEF Row
    <3> QED BY <3>1, <3>2, <3>3, <3>4, RowCases
  <2>2. CASE ~NodesRead
    <3>1. row = Row("nodes", "UNAVAILABLE")
      BY <1>3, <2>2 DEF NodesGap
    <3> QED BY <3>1 DEF Row
  <2> QED BY <2>1, <2>2
<1>6. TypeOK'
  BY <1>1, <1>2, <1>4, <1>5 DEF TypeOK, world, reading
<1>7. SeenInv'
  BY <1>1, <1>2 DEF SeenInv, world, reading
<1>8. NodeAlarmsWereTrue'
  <2>1. seen' = seen
    BY <1>2 DEF world
  <2> QED BY <1>2, <1>4, <2>1, SameWorld DEF NodeAlarmsWereTrue
<1>9. NodeBreaksShow'
  <2>1. ASSUME ~NodesRead, NEW scope
        PROVE  GapAbout(scope)'
    BY <1>3, <2>1 DEF GapAbout, NodesGap, Row
  <2>2. ASSUME NEW n \in fleet, NEW r \in Evidenced, \A m \in seen[n] : Breaks(r, m)
        PROVE  \/ \E f \in verdict'.findings :
                    f.about = r /\ f.severity = "BREAK" /\ n \in f.nodes
               \/ GapAbout(r)'
    BY <1>1, <1>3, <2>1, <2>2, RuleShows DEF GapAbout
  <2>3. ASSUME NEW n \in fleet, \A m \in seen[n] : m.kubelet + 3 < path.target
        PROVE  \/ \E f \in verdict'.findings :
                    f.about = "kubelet skew" /\ f.severity = "HIGH" /\ n \in f.nodes
               \/ GapAbout("kubelet skew")'
    BY <1>1, <1>3, <2>1, <2>3, SkewShows DEF GapAbout
  <2>4. fleet' = fleet /\ seen' = seen /\ path' = path
    BY <1>2 DEF world
  <2> QED BY <1>2, <2>2, <2>3, <2>4, SameWorld DEF NodeBreaksShow
<1>10. PathRulesPrinted'
  <2>1. ASSUME NEW r \in Rules, Rule[r].removed \in path.current + 1 .. path.target
        PROVE  \/ \E f \in verdict'.findings : f.about = r
               \/ \E row \in verdict'.rows :
                    \/ row.scope = r
                    \/ row.scope = "nodes" /\ Rule[r].source # "none"
    BY <1>1, <1>3, <2>1, PathPrinted
  <2>2. path' = path
    BY <1>2 DEF world
  <2> QED BY <2>1, <2>2 DEF PathRulesPrinted
<1> QED BY <1>2, <1>6, <1>7, <1>8, <1>9, <1>10 DEF Inv, VerdictInv, Judged

LEMMA StutterKeeps ==
  ASSUME Inv, UNCHANGED vars
  PROVE  Inv'
<1>1. UNCHANGED <<world, stage, reading, verdict>>
  BY DEF vars
<1>2. fleet' = fleet /\ seen' = seen /\ path' = path
  BY <1>1 DEF world
<1>3. TypeOK'
  BY <1>1 DEF Inv, TypeOK, world, reading
<1>4. SeenInv' /\ VerdictInv'
  BY <1>1 DEF Inv, SeenInv, VerdictInv, world, reading
<1>5. NodeBreaksShow'
  <2>1. \A scope : GapAbout(scope)' <=> GapAbout(scope)
    BY <1>1 DEF GapAbout
  <2> QED BY <1>1, <1>2, <2>1, SameWorld DEF Inv, Judged, NodeBreaksShow
<1>6. NodeAlarmsWereTrue'
  BY <1>1, <1>2, SameWorld DEF Inv, Judged, NodeAlarmsWereTrue
<1>7. PathRulesPrinted'
  BY <1>1, <1>2 DEF Inv, Judged, PathRulesPrinted
<1> QED BY <1>3, <1>4, <1>5, <1>6, <1>7 DEF Inv, Judged

(* The invariant, with the statements about the verdict.                  *)
THEOREM Invariance == Spec => []Inv
<1>1. Inv /\ [Next]_vars => Inv'
  <2> SUFFICES ASSUME Inv, [Next]_vars PROVE Inv'
    OBVIOUS
  <2>1. CASE ListNodes \/ ListWorkloads \/ AskMetrics \/ Scraped \/ \E n \in Nodes : Scrape(n)
    BY <2>1, ReadKeeps
  <2>2. ASSUME NEW n \in Nodes, Replace(n) PROVE Inv'
    BY <2>2, ReplaceKeeps
  <2>3. CASE Analyze
    BY <2>3, AnalyzeKeeps
  <2>4. CASE Done \/ UNCHANGED vars
    BY <2>4, StutterKeeps DEF Done
  <2> QED BY <2>1, <2>2, <2>3, <2>4 DEF Next
<1> QED BY <1>1, Initial, PTL DEF Spec

(* Every variable keeps its type, the findings and rows of the tier too.   *)
THEOREM TypeCorrect == Spec => []TypeOK
BY Invariance, PTL DEF Inv

(* A node that breaks at the target, or is left behind by it, for as long  *)
(* as the scan looks is named, or its check admits a gap.                  *)
THEOREM BreaksAlwaysShow == Spec => []NodeBreaksShow
BY Invariance, PTL DEF Inv, Judged

(* No node is named for what it never was.                                 *)
THEOREM AlarmsWereAlwaysTrue == Spec => []NodeAlarmsWereTrue
BY Invariance, PTL DEF Inv, Judged

(* Whatever changes on the path is printed, whichever reads failed.        *)
THEOREM PathIsPrinted == Spec => []PathRulesPrinted
BY Invariance, PTL DEF Inv, Judged
=============================================================================
