-------------------------------- MODULE Check --------------------------------
(***************************************************************************)
(* One run of the command, from the options to the exit code: runCheck and *)
(* assemble in internal/cli/check.go.  The calls follow one another; what  *)
(* each leaves in inv.Collected decides which evaluators may conclude, the *)
(* rows they all leave decide the scan's status, and the status and the    *)
(* findings decide the exit code a pipeline branches on.                   *)
(*                                                                         *)
(* The cluster is abstracted to what the upgrade would break in it: a      *)
(* break shows in the objects of one source and is looked for by one check *)
(* of an evaluator.  A source is read whole, in part or not at all; how it *)
(* comes to that is Collect's, KindReads's and Scan's subject.             *)
(***************************************************************************)
EXTENDS Naturals, Sequences, FiniteSets

CONSTANTS
  Parallel,         \* the collectors Collect runs side by side
  Breaks,           \* [check, source, sev]: what a cluster may have
  Layouts,          \* sets of components that may run as static pods
  Paths,            \* sets of optional collectors the catalog may want
  Thresholds,       \* --fail-on as a rank, 0 for none
  MaxBroken,        \* bound: breaks in one cluster
  MaxFaults         \* bound: sources lost for a reason of their own

Components == {"kube-apiserver", "kube-scheduler"}
Passes == {"custom resources", "rule objects"}
Optional == Passes \cup {"kubelet metrics"}
Preflight == {"disruption budgets", "webhooks", "API services"}
Collectors == Parallel \cup {"kubelet config", "control-plane flags"} \cup Optional \cup Preflight
FleetSources == {"kubelet config", "kubelet metrics"}
MayBePartial == FleetSources \cup {"custom resources", "rule objects", "webhooks", "API scan"}

(* Where each evaluator looks for what it looks for. *)
Looks == {
  <<"removed APIs", "API scan">>,
  <<"control-plane flags", "kube-apiserver">>, <<"control-plane flags", "kube-scheduler">>,
  <<"kubelet configuration", "kubelet config">>,
  <<"volume plugins", "workloads">>, <<"volume plugins", "standalone pods">>,
  <<"volume plugins", "storage">>,
  <<"node status", "nodes">>, <<"metric rules", "kubelet metrics">>,
  <<"kube-proxy skew", "workloads">>,
  <<"disruption budgets", "disruption budgets">>, <<"bare pods", "standalone pods">>,
  <<"admission webhooks", "webhooks">>, <<"conversion webhooks", "CRDs">>,
  <<"aggregated APIs", "API services">>,
  <<"add-on compatibility", "workloads">>, <<"add-on rules", "custom resources">>,
  <<"add-on rules", "ingresses">>, <<"add-on rules", "config maps">>,
  <<"release notes", "rule objects">>, <<"release notes", "CRDs">>}

Rank == [s \in {"INFO", "LOW", "MEDIUM", "HIGH", "CRITICAL"} |->
  CASE s = "INFO" -> 1 [] s = "LOW" -> 2 [] s = "MEDIUM" -> 3 [] s = "HIGH" -> 4
    [] s = "CRITICAL" -> 5]

ASSUME ParallelAssumption ==
  {"nodes", "workloads", "standalone pods", "storage", "CRDs"} \subseteq Parallel
ASSUME NamesAssumption ==
  Parallel \cap ({"kubelet config", "control-plane flags", "API scan"}
               \cup Optional \cup Preflight \cup Components) = {}
ASSUME BreaksAssumption ==
  \A b \in Breaks :
    /\ <<b.check, b.source>> \in Looks
    /\ b.source \in Collectors \cup Components \cup {"API scan"}
    /\ b.sev \in DOMAIN Rank \ {"INFO"}
ASSUME PathsAssumption == Paths \subseteq SUBSET Optional /\ Layouts \subseteq SUBSET Components
ASSUME ThresholdsAssumption == Thresholds \subseteq 0 .. 5
ASSUME BoundsAssumption == MaxBroken \in Nat /\ MaxFaults \in Nat

VARIABLES
  strict, failOn,   \* the options; as given on the command line
  broken,           \* what the upgrade would break in this cluster
  components,       \* components that run as static pods
  wanted,           \* optional collectors this catalog and path want
  stage,            \* the call about to be made
  deadline,         \* "ahead", or the stage at which the context expired
  Collected,        \* inv.Collected, and "API scan" for source.Scan's rows
  unchecked,        \* webhook checks with a backend that could not be asked
  inHand,           \* broken things among the objects read
  unread,           \* inv.CRUnread, as the breaks of its kinds
  unnamed,          \* inv.CRNotServed, likewise: discovery did not name them
  cutDown,          \* those inv.CRs has from the rule pass, not the add-on pass
  found,            \* the findings above INFO
  informed,         \* advisories and INFO notes other than "not assessed"
  Coverage,         \* the report's rows
  ScanStatus, printed, stderr, exit

input == <<broken, components, wanted>>
options == <<strict, failOn>>
maps == <<unread, unnamed, cutDown>>
reading == <<Collected, unchecked, inHand, maps>>
judged == <<found, informed, Coverage, ScanStatus>>
ending == <<printed, stderr, exit>>
vars == <<input, options, stage, deadline, reading, judged, ending>>

Reading == <<"collect", "custom resources", "rule objects", "kubelet metrics",
             "preflight", "scan">>
Stages == {"connect", "assemble", "print", "gate", "exited"} \cup
          {Reading[n] : n \in DOMAIN Reading}
Outcomes == {"none", "complete", "partial", "failed"}
States == {"COMPLETE", "PARTIAL", "UNAVAILABLE"}

TypeOK ==
  /\ strict \in BOOLEAN /\ failOn \in 0 .. 5
  /\ broken \subseteq Breaks /\ inHand \subseteq broken /\ found \subseteq broken
  /\ unread \subseteq broken /\ unnamed \subseteq broken /\ cutDown \subseteq broken
  /\ components \subseteq Components /\ wanted \subseteq Optional
  /\ stage \in Stages /\ deadline \in Stages \cup {"ahead"}
  /\ Collected \in [Collectors \cup {"API scan"} -> Outcomes]
  /\ unchecked \subseteq {"admission webhooks", "conversion webhooks"}
  /\ \A r \in Coverage : r.tier \in {"collector", "check"} /\ r.state \in States
  /\ ScanStatus \in {"unknown", "COMPLETE", "PARTIAL", "INSUFFICIENT_DATA"}
  /\ informed \in BOOLEAN /\ printed \in BOOLEAN /\ exit \in 0 .. 4

Init ==
  /\ strict = FALSE /\ failOn = 0
  /\ broken \in {B \in SUBSET Breaks : Cardinality(B) <= MaxBroken}
  /\ components \in Layouts /\ wanted \in Paths
  /\ \A b \in broken : b.source \in Optional => b.source \in wanted
  /\ stage = "connect" /\ deadline = "ahead"
  /\ Collected = [c \in Collectors \cup {"API scan"} |-> "none"]
  /\ unchecked = {} /\ inHand = {} /\ unread = {} /\ unnamed = {} /\ cutDown = {}
  /\ found = {} /\ informed = FALSE /\ Coverage = {} /\ ScanStatus = "unknown"
  /\ printed = FALSE /\ stderr = {} /\ exit = 0

-----------------------------------------------------------------------------
(* Reading.  A stage the deadline has already passed loses every list; in  *)
(* the stage it passes in, any of them; before that, a source is lost for  *)
(* a reason of its own (refused, unreachable, expired token).              *)

Late == deadline \notin {"ahead", stage}
Lost == {c \in DOMAIN Collected \ {"control-plane flags"} :
           Collected[c] \in {"partial", "failed"}}
Reasons(L) == IF "nodes" \in L THEN L \ FleetSources ELSE L

MayLose(S) ==
  CASE Late              -> {S}
    [] deadline = stage  -> SUBSET S
    [] deadline = "ahead" ->
         {L \in SUBSET S : L = {} \/ Cardinality(Reasons(L \cup Lost)) <= MaxFaults}

Read(c) == Collected[c] \in {"complete", "partial"}

Outcome(c, S, L, P) ==
  CASE c \in P             -> "partial"
    [] c \in L \ P         -> "failed"
    [] c \in S \ (L \cup P) -> "complete"
    [] OTHER               -> Collected[c]

(* Flags are read from the static pods among the pods without an owner. *)
In(S) == {b \in broken : \/ b.source \in S
                         \/ b.source \in components /\ "standalone pods" \in S}

Following(s) ==
  LET n == CHOOSE k \in DOMAIN Reading : Reading[k] = s
  IN  IF n = Len(Reading) THEN "assemble" ELSE Reading[n + 1]

\* Mutant: a new error given a code no pipeline knows.
RefuseNewCode ==
  /\ stage = "connect"
  /\ exit' \in {1, 2, 3, 5}
  /\ stage' = "exited"
  /\ UNCHANGED <<input, options, deadline, reading, judged, printed, stderr>>

(* Unknown option, unloadable catalog, no cluster, no upgrade: no report.  *)
Refuse ==
  /\ stage = "connect"
  /\ exit' \in {1, 2, 3}
  /\ stage' = "exited"
  /\ UNCHANGED <<input, options, deadline, reading, judged, printed, stderr>>

Connect ==
  /\ stage = "connect"
  /\ stage' = "collect"
  /\ UNCHANGED <<input, options, deadline, reading, judged, ending>>

(* Collect: the parallel collectors, then the kubelets, then the row for   *)
(* control-plane flags.  A kubelet fleet is lost with the node list.       *)
CollectAll ==
  LET S == Parallel \cup {"kubelet config"} IN
  /\ stage = "collect"
  /\ \E L \in MayLose(S) : \E P \in SUBSET (L \cap MayBePartial) :
       /\ "nodes" \in L => "kubelet config" \in L \ P
       /\ Late => P = {}
       /\ Collected' = [c \in DOMAIN Collected |->
            IF c = "control-plane flags"
              THEN IF "standalone pods" \notin L /\ components # {} THEN "complete" ELSE "failed"
              ELSE Outcome(c, S, L, P)]
       /\ \E X \in SUBSET In(P) : inHand' = inHand \cup In(S \ L) \cup X
  /\ stage' = Following(stage)
  /\ UNCHANGED <<input, options, deadline, unchecked, maps, judged, ending>>

(* Nothing in the catalog asks: no read and no row. *)
NotWanted ==
  /\ stage \in Optional \ wanted
  /\ stage' = Following(stage)
  /\ UNCHANGED <<input, options, deadline, reading, judged, ending>>

(* collectByKind for either pass.  Discovery that heard from some groups    *)
(* only is no error: it does not name H, which is filed as not served and  *)
(* in no row.  What it names is read, or filed as unread; when that is     *)
(* nothing no list is needed, and not even a passed deadline loses the     *)
(* pass.  The rule pass tries again what the add-on pass did not read, and *)
(* keeps of it what release-note rules ask for, which may not show.        *)
ReadKinds ==
  /\ stage \in Passes \cap wanted
  /\ \E H \in SUBSET In({stage}) :
     \E L \in MayLose({stage}) \cup (IF In({stage}) = H THEN {{}} ELSE {}) :
     \E P \in SUBSET L : \E R \in SUBSET (In({stage}) \ H) :
     \E Z \in SUBSET (In({"custom resources"}) \ inHand) : \E Shown \in SUBSET Z :
       /\ IF L = {} THEN R = In({stage}) \ H ELSE P = {} => R = {}
       /\ Z # {} => stage = "rule objects" /\ L = P /\ ~Late
       /\ Late => P = {}
       /\ Collected' = [c \in DOMAIN Collected |-> Outcome(c, {stage}, L, P)]
       /\ inHand' = inHand \cup R \cup Shown
       /\ unnamed' = unnamed \cup H
       /\ unread' = unread \cup (In({stage}) \ (H \cup R))
       /\ cutDown' = Z
  /\ stage' = Following(stage)
  /\ UNCHANGED <<input, options, deadline, unchecked, judged, ending>>

(* CollectKubeletMetrics asks the nodes of the node list.                  *)
ReadMetrics ==
  /\ stage \in {"kubelet metrics"} \cap wanted
  /\ \E L \in MayLose({stage}) : \E P \in SUBSET L :
       /\ ~Read("nodes") => L = {stage} /\ P = {}
       /\ Late => P = {}
       /\ Collected' = [c \in DOMAIN Collected |-> Outcome(c, {stage}, L, P)]
       /\ \E X \in SUBSET In(P) : inHand' = inHand \cup In({stage} \ L) \cup X
  /\ stage' = Following(stage)
  /\ UNCHANGED <<input, options, deadline, unchecked, maps, judged, ending>>

(* CollectPreflight: three lists, whose rows stay in the inventory even    *)
(* when a later page failed, then one question per webhook's service.      *)
PreflightAll ==
  LET S == Preflight IN
  /\ stage = "preflight"
  /\ \E L \in MayLose(S) : \E P \in SUBSET (L \cap {"webhooks"}) :
     \E U \in SUBSET {"admission webhooks", "conversion webhooks"} :
     \E X \in SUBSET In(P \cup (L \ {"webhooks"})) :
     \E Y \in SUBSET {b \in inHand : b.check = "conversion webhooks"} :
       /\ "admission webhooks" \in U => "webhooks" \in P
       /\ In(P) \subseteq X \/ "admission webhooks" \in U
       /\ Y = {} \/ "conversion webhooks" \in U
       /\ Late => P = {} /\ X = {} /\ Y = {b \in inHand : b.check = "conversion webhooks"}
       /\ Collected' = [c \in DOMAIN Collected |-> Outcome(c, S, L, P)]
       /\ unchecked' = U
       /\ inHand' = (inHand \ Y) \cup In(S \ L) \cup X
  /\ stage' = Following(stage)
  /\ UNCHANGED <<input, options, deadline, maps, judged, ending>>

(* source.Scan: every list a passed deadline cuts short has a PARTIAL row. *)
ScanAPIs ==
  LET S == {"API scan"} IN
  /\ stage = "scan"
  /\ \E L \in MayLose(S) \cup (IF In(S) = {} THEN {{}} ELSE {}) : \E P \in SUBSET L :
     \E X \in SUBSET In(P) :
       /\ Late => P = L /\ X = {}
       /\ Collected' = [c \in DOMAIN Collected |-> Outcome(c, S, L, P)]
       /\ inHand' = inHand \cup In(S \ L) \cup X
  /\ stage' = Following(stage)
  /\ UNCHANGED <<input, options, deadline, unchecked, maps, judged, ending>>

Deadline ==
  /\ deadline = "ahead" /\ stage \in {Reading[n] : n \in DOMAIN Reading}
  /\ deadline' = stage
  /\ UNCHANGED <<input, options, stage, reading, judged, ending>>

-----------------------------------------------------------------------------
(* Judging.  Each evaluator asks Read before it concludes anything, and    *)
(* leaves a row either way.                                                *)

State(c) ==
  CASE Collected[c] = "complete" -> "COMPLETE"
    [] Collected[c] = "partial"  -> "PARTIAL"
    [] OTHER                     -> "UNAVAILABLE"

ReadState(c) == IF Read(c) THEN "COMPLETE" ELSE "UNAVAILABLE"
Row(check, s) == [tier |-> "check", of |-> check, state |-> s]

NodeChecks == {"node status", "metric rules", "kube-proxy skew"}

(* What must have been read for an evaluator to look at b; the rules about *)
(* kinds of a pass look at the objects, not at the pass.                   *)
Needs(b) ==
  ({b.source} \cap (Collectors \ Passes))
  \cup (IF b.check \in NodeChecks THEN {"nodes"} ELSE {})
  \cup (IF b.check = "add-on rules" THEN {"workloads"} ELSE {})

Judged(b) == \A c \in Needs(b) : Read(c)

(* configbreaker: any control-plane component's pod settles the flag row.  *)
ConfigRows ==
  { Row("control-plane flags",
        IF Read("standalone pods") /\ components # {} THEN "COMPLETE" ELSE "UNAVAILABLE"),
    Row("kubelet configuration", State("kubelet config")) }

\* Mutant: one readable kind of object is enough.
PluginRowsAny ==
  { Row("volume plugins",
        IF \A c \in {"workloads", "standalone pods", "storage"} : ~Read(c)
          THEN "UNAVAILABLE" ELSE "COMPLETE") }

PluginRows ==
  LET sources == {"workloads", "standalone pods", "storage"}
      some    == {c \in sources : Read(c)}
  IN  { Row("volume plugins", CASE some = sources -> "COMPLETE"
                                [] some = {}      -> "UNAVAILABLE"
                                [] OTHER          -> "PARTIAL") }

NodeRows ==
  IF ~Read("nodes") THEN { Row("node runtime", "UNAVAILABLE") }
  ELSE { Row("node status", "COMPLETE") }
       \cup (IF "kubelet metrics" \in wanted
               THEN { Row("metric rules", State("kubelet metrics")) } ELSE {})
       \cup (IF Read("workloads") THEN {} ELSE { Row("kube-proxy skew", "UNAVAILABLE") })

WebhookState(c, check) ==
  IF Read(c) /\ check \in unchecked THEN "PARTIAL" ELSE ReadState(c)

PreflightRows ==
  { Row("node readiness", ReadState("nodes")),
    Row("disruption budgets", ReadState("disruption budgets")),
    Row("bare pods", ReadState("standalone pods")),
    Row("admission webhooks", WebhookState("webhooks", "admission webhooks")),
    Row("conversion webhooks", WebhookState("CRDs", "conversion webhooks")),
    Row("aggregated APIs", ReadState("API services")) }

\* Mutant: a kind that could not be listed taken for one that is not served.
CannotJudgeNamed(b) ==
  IF b.source \in Passes
    THEN b.check = "add-on rules" /\ b \in unnamed \ cutDown
    ELSE ~Read(b.source)

(* Whether the rule that looks for b finds its kind among what it may read. *)
(* A release-note rule asks CRs, CRUnread and CRNotServed, and clears on    *)
(* the last; an add-on rule asks only whether CRs has the kind.             *)
CannotJudge(b) ==
  CASE b.source = "custom resources" -> b \in (unread \cup unnamed) \ cutDown
    [] b.source = "rule objects"     -> b \in unread
    [] OTHER                         -> ~Read(b.source)

(* Rules about kinds decline one by one: those that look for something     *)
(* here, and possibly others, which look for what is not there.            *)
KindChecks == {"release notes"} \cup (IF Read("workloads") THEN {"add-on rules"} ELSE {})
Declining == {c \in KindChecks : \E b \in broken : b.check = c /\ CannotJudge(b)}

KindRows(D) ==
  { Row("add-on compatibility", ReadState("workloads")) }
  \cup { Row(c, "UNAVAILABLE") : c \in D }

(* Scan's own rows; the line on versions still served is COMPLETE unless   *)
(* the list of served versions was itself unread.                          *)
ScanRows(servedRead) ==
  { Row("removed APIs", State("API scan")) }
  \cup (IF servedRead THEN { Row("still-served versions", "COMPLETE") } ELSE {})

\* Mutant: only what evaluators say reaches the report.
CollectorCoverageNone == {}

collectorCoverage ==
  { [tier |-> "collector", of |-> c, state |-> State(c)] :
      c \in {d \in Collectors : Collected[d] # "none"} }

\* Mutant: only UNAVAILABLE rows counted as gaps.
StatusForUnavailable(rows) ==
  IF \E r \in rows : r.state = "UNAVAILABLE" THEN "PARTIAL" ELSE "COMPLETE"

StatusFor(rows) ==
  LET gaps == {r \in rows : r.state \in {"UNAVAILABLE", "PARTIAL"}} IN
  CASE gaps # {} /\ gaps = rows -> "INSUFFICIENT_DATA"
    [] gaps # {} /\ gaps # rows -> "PARTIAL"
    [] gaps = {}                -> "COMPLETE"

Assemble ==
  /\ stage = "assemble"
  /\ found' = {b \in inHand : Judged(b)}
  /\ informed' \in BOOLEAN
  /\ \E D \in SUBSET KindChecks : \E s \in BOOLEAN :
       /\ Declining \subseteq D
       /\ s \/ Collected["API scan"] = "failed"
       /\ Coverage' = collectorCoverage \cup ScanRows(s) \cup ConfigRows \cup PluginRows
                        \cup NodeRows \cup PreflightRows \cup KindRows(D)
  /\ ScanStatus' = StatusFor(Coverage')
  /\ stage' = "print"
  /\ UNCHANGED <<input, options, deadline, reading, ending>>

-----------------------------------------------------------------------------
(* Answering. *)

WriteReport ==
  /\ stage = "print"
  /\ \/ printed' = TRUE /\ stage' = "gate" /\ UNCHANGED exit
     \/ printed' = FALSE /\ stage' = "exited" /\ exit' = 1
  /\ UNCHANGED <<input, options, deadline, reading, judged, stderr>>

(* INFO findings that say a family of rules could not be assessed. *)
NotAssessed ==
  {r \in Coverage : /\ r.tier = "check" /\ r.state = "UNAVAILABLE"
                    /\ r.of \in {"control-plane flags", "kubelet configuration",
                                 "volume plugins", "node runtime"}}

(* All INFO findings, by what they are about. *)
Notes == {r.of : r \in NotAssessed} \cup {n \in {"advisory"} : informed}

gate(threshold) ==
  /\ threshold # 0
  /\ \/ \E b \in found : Rank[b.sev] >= threshold
     \/ Notes # {} /\ Rank["INFO"] >= threshold

\* Mutant: --strict answered before the other gate is reported.
GateStrictOnly ==
  /\ stage = "gate"
  /\ strict' \in BOOLEAN /\ failOn' \in Thresholds
  /\ LET gap == strict' /\ ScanStatus # "COMPLETE" IN
     /\ stderr' = IF gap THEN {"unchecked"} ELSE IF gate(failOn') THEN {"findings"} ELSE {}
     /\ exit' = IF gap \/ gate(failOn') THEN 4 ELSE 0
  /\ stage' = "exited"
  /\ UNCHANGED <<input, deadline, reading, judged, printed>>

(* Both options were parsed before anything was read; nothing looks at     *)
(* them until here, so here is where they are chosen.                      *)
Gate ==
  /\ stage = "gate"
  /\ strict' \in BOOLEAN /\ failOn' \in Thresholds
  /\ LET gap == strict' /\ ScanStatus # "COMPLETE" IN
     /\ stderr' = (IF gap THEN {"unchecked"} ELSE {}) \cup (IF gate(failOn') THEN {"findings"} ELSE {})
     /\ exit' = IF gap \/ gate(failOn') THEN 4 ELSE 0
  /\ stage' = "exited"
  /\ UNCHANGED <<input, deadline, reading, judged, printed>>

Exited == stage = "exited" /\ UNCHANGED vars

Next ==
  \/ Refuse \/ Connect
  \/ CollectAll \/ NotWanted \/ ReadKinds \/ ReadMetrics \/ PreflightAll \/ ScanAPIs \/ Deadline
  \/ Assemble \/ WriteReport \/ Gate
  \/ Exited

Spec == Init /\ [][Next]_vars

-----------------------------------------------------------------------------
Reported == stage \in {"print", "gate"} \/ (exit \in {0, 4} /\ stage = "exited")

(* A component that is no static pod while another one is: its flag rules  *)
(* are neither judged nor declared.                                        *)
Elsewhere(b) == components # {} /\ b.source \in Components \ components

RowsFor(b) ==
  {b.check}
  \cup (IF b.check \in NodeChecks THEN {"node runtime"} ELSE {})
  \cup (IF b.check = "add-on rules" THEN {"add-on compatibility"} ELSE {})

(* A rule that judged rows cut down has only its pass's row to speak for it. *)
Declared(b) ==
  \E r \in Coverage :
    /\ r.state # "COMPLETE"
    /\ \/ r.tier = "check" /\ r.of \in RowsFor(b)
       \/ b \in cutDown /\ r.tier = "collector" /\ r.of = "custom resources"

(* Discovery did not name the kind, so the code takes it for one that is   *)
(* not served (connect.go:318, collect_cr.go:116): a release-note rule     *)
(* clears, and an add-on rule judges what the other pass kept, and no row  *)
(* tells.                                                                  *)
Undiscovered(b) == b \in unnamed /\ (b.check = "release notes" \/ b \in cutDown)

(* Whatever the upgrade would break is a finding, or a row of the check    *)
(* that looks for it says it could not look, and not just some collector's *)
(* - except what discovery did not name.                                   *)
MissedMeansDeclared ==
  Reported => \A b \in broken \ found : Elsewhere(b) \/ Undiscovered(b) \/ Declared(b)

(* The scan calls itself complete only if every collector the catalog      *)
(* wanted ran and read all there was, or all discovery named, also one no  *)
(* evaluator consulted, and only if the deadline left the last preflight   *)
(* list its time.                                                          *)
CompleteMeansAllRead ==
  ScanStatus = "COMPLETE" =>
    /\ \A c \in Collectors \ (Optional \ wanted) : Collected[c] = "complete"
    /\ Collected["API scan"] = "complete"
    /\ unchecked = {}
    /\ deadline \in {"ahead", "scan", "preflight"}

(* Neither a check nor the whole report claims more than was read.         *)
CoverageHonest == MissedMeansDeclared /\ CompleteMeansAllRead

(* The contract of the exit codes.  4 comes after the report and names     *)
(* every gate that tripped; 0 means neither did; any other code means that *)
(* there is no whole report.                                               *)
ExitTellsAll ==
  stage = "exited" =>
    LET tripped == {g \in {"findings", "unchecked"} :
          \/ /\ g = "findings" /\ failOn # 0
             /\ \/ failOn = 1 /\ Notes # {}
                \/ \E b \in found : Rank[b.sev] >= failOn
          \/ g = "unchecked" /\ strict /\ \E r \in Coverage : r.state # "COMPLETE"}
    IN  /\ exit = 4 => printed /\ tripped # {} /\ stderr = tripped
        /\ exit = 0 => printed /\ tripped = {}
        /\ exit \in {1, 2, 3} => ~printed

=============================================================================
