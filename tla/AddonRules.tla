----------------------------- MODULE AddonRules -----------------------------
(* The rules of an add-on's own catalog entry, run on the add-on detected   *)
(* in the cluster (addons.judge).  Each rule names a predicate, and a       *)
(* predicate fires, clears, or declines when it cannot answer.  Detection,  *)
(* support windows and hops are in AddonPath.                               *)
EXTENDS RuleRows

CONSTANTS
  AddonRuleIds,
  AddonRule,       \* [predicate, on, fact, gate, atLeast, below]; 0 for no bound
  AddonVersions    \* what may be installed, as a minor

ASSUME AddonRulesAssumption ==
  /\ \A r \in AddonRuleIds :
       /\ AddonRule[r].predicate \in {"crdAbsent", "crd", "rows"}
       /\ AddonRule[r].on \subseteq Kinds
       /\ AddonRule[r].fact \in Facts \cup {"any"}
       /\ AddonRule[r].gate.on \subseteq Kinds
       /\ AddonRule[r].atLeast \in Nat /\ AddonRule[r].below \in Nat
  /\ AddonVersions \subseteq Nat \ {0}
  /\ AddonRuleIds \cap {"version", "no vendor data"} = {}

(* No catalogued add-on rule is about Secrets, which the add-on pass leaves *)
(* out and no typed collector brings.                                       *)
ASSUME SecretsAssumption == \A r \in AddonRuleIds : "Secret" \notin AddonRule[r].on

(* Rules on these two kinds ask for what their collectors record.           *)
ASSUME TypedRowsAssumption ==
  \A r \in AddonRuleIds : \A k \in AddonRule[r].on \cap {"Ingress", "ConfigMap"} :
    {AddonRule[r].fact} \ {"any"} \subseteq Recorded[k]

VARIABLES
  installed,       \* the add-on's version
  tag,             \* what its workload says of it: the version, or 0
  matrix,          \* its vendor publishes support windows
  addonVerdict     \* findings [rule, on], rules skipped, the tier's row

addon == <<installed, tag, matrix, addonVerdict>>

NoVerdict == [findings |-> {}, skipped |-> {}, row |-> "none"]

AddonInit ==
  /\ installed \in AddonVersions
  /\ tag \in {0, installed}
  /\ matrix \in BOOLEAN
  /\ addonVerdict = NoVerdict

\* Mutant: a version that does not parse is below every ceiling.
gateAllowsUnparsed(r) ==
  /\ AddonRule[r].atLeast # 0 => tag >= AddonRule[r].atLeast
  /\ AddonRule[r].below # 0 => tag < AddonRule[r].below

(* The floor and the ceiling both need a version that parses.               *)
gateAllows(r) ==
  /\ AddonRule[r].atLeast # 0 => tag >= AddonRule[r].atLeast
  /\ AddonRule[r].below # 0 => tag # 0 /\ tag < AddonRule[r].below

(* How the context holds a kind, if it does.                                *)
customRows(k) ==
  IF k \notin Asked THEN "none"
  ELSE IF k = "Ingress" THEN IF "ingresses" \in collected THEN "typed" ELSE "none"
  ELSE IF k = "ConfigMap" THEN IF "configmaps" \in collected THEN "typed" ELSE "none"
  ELSE CRs[k]

KindWasRead(k) == customRows(k) \in Readable

CRDs == IF "crds" \in collected THEN ObjectsOf({"CustomResourceDefinition"}) ELSE {}

(* Another object's label, from the workload list.                          *)
gateSatisfied(r) ==
  AddonRule[r].gate.on # {} =>
    \E o \in ObjectsOf(AddonRule[r].gate.on) : True(o, AddonRule[r].gate.fact)

RowOffenders(r) ==
  {o \in ObjectsOf(AddonRule[r].on) : Shows(o, AddonRule[r].fact, customRows(cluster[o].kind))}

\* Mutant: answering from the kinds that did read.
DeclinesUnlessAny(r) ==
  IF AddonRule[r].predicate = "rows"
  THEN \A k \in AddonRule[r].on : ~KindWasRead(k)
  ELSE CRDs = {}

(* An empty list of definitions cannot tell absent from unreadable, and one *)
(* unread kind leaves the rule without an answer.                           *)
Declines(r) ==
  IF AddonRule[r].predicate = "rows"
  THEN \E k \in AddonRule[r].on : ~KindWasRead(k)
  ELSE CRDs = {}

Fires(r) ==
  CASE AddonRule[r].predicate = "crdAbsent" -> \A o \in CRDs : ~True(o, AddonRule[r].fact)
    [] AddonRule[r].predicate = "crd"       -> \E o \in CRDs : True(o, AddonRule[r].fact)
    [] AddonRule[r].predicate = "rows"      -> gateSatisfied(r) /\ RowOffenders(r) # {}

AddonFinding(rule, on) == [rule |-> rule, on |-> on]

Evaluated == {r \in AddonRuleIds : gateAllows(r)}

ruleFindings ==
  {AddonFinding(r, IF AddonRule[r].predicate = "rows" THEN RowOffenders(r) ELSE {}) :
     r \in {q \in Evaluated : ~Declines(q) /\ Fires(q)}}

(* Without a matrix that is what is said, version or no version; with one,  *)
(* a version that cannot be told is a finding of its own.                   *)
windowFinding ==
  IF ~matrix THEN {AddonFinding("no vendor data", {})}
  ELSE IF tag = 0 THEN {AddonFinding("version", {})} ELSE {}

(* With no list of workloads there is no add-on to judge.                   *)
AnalyzeAddons ==
  /\ addonVerdict' =
       IF "workloads" \notin collected
       THEN [findings |-> {}, skipped |-> {}, row |-> "unavailable"]
       ELSE [findings |-> windowFinding \cup ruleFindings,
             skipped  |-> {r \in Evaluated : Declines(r)},
             row      |-> "complete"]
  /\ UNCHANGED <<cluster, served, inventory, installed, tag, matrix>>
=============================================================================
