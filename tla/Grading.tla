------------------------------- MODULE Grading -------------------------------
(* What the scan for removed APIs concludes (package removedapi), the       *)
(* advisories no call can check (package advisory) and the score of the     *)
(* whole report (package score).  Objects remember who wrote them: managed  *)
(* fields name a version and a day, a last-applied manifest only a version. *)
(* A list through one version brings the records of the removed versions it *)
(* answers for; how the lists are made and fail is in Scan.  The API        *)
(* server's counters name no object.                                        *)
EXTENDS Integers, FiniteSetsExt, CapNamed

CONSTANTS
  Apis,         \* kinds at a version the catalog has a row for
  Api,          \* [deprecatedIn, removedIn, via]: via is the version listed through
  Target,       \* the target's minor
  Objects,      \* numbers in the order of names
  Records,      \* what an object may remember: [writes, applied]
  Currents,     \* minors the cluster may run
  Advisories,   \* minors at which behaviour changes, 0 for one that does not parse
  OtherFindings \* of the other tiers, like FindingOf

ASSUME GradingAssumption ==
  /\ IsFiniteSet(Apis)
  /\ \A a \in Apis : Api[a].deprecatedIn \in Nat /\ Api[a].removedIn \in Nat
  /\ Target \in Nat \ {0}
  /\ IsFiniteSet(Objects) /\ Objects \subseteq Nat \ {0}
  /\ \A r \in Records : \A w \in r.writes : w.day \in Nat
  /\ Currents \subseteq Nat \ {0}
  /\ IsFiniteSet(Advisories) /\ Advisories \subseteq Nat

VARIABLES
  record,     \* what each object remembers
  requested,  \* APIs the server has counted requests for
  current,    \* what the cluster runs
  gitVersion, \* the minor read from its version, or 0
  listed,     \* versions whose lists were read
  usages,     \* evidence still to be grouped
  groups,     \* by API, what has been grouped
  findings,
  score, level,
  step

given == <<record, requested, current, gitVersion>>
gradingVars == <<given, listed, usages, groups, findings, score, level, step>>

-----------------------------------------------------------------------------
(* Severities.                                                              *)

Atmost(n, bound) == IF n > bound THEN bound ELSE n
Atleast(n, bound) == IF n < bound THEN bound ELSE n

Rank == [critical |-> 5, high |-> 4, medium |-> 3, low |-> 2, info |-> 1, unknown |-> 0]

ScoreImpact ==
  [critical |-> 40, high |-> 20, medium |-> 8, low |-> 3, info |-> 0, unknown |-> 0]

Severities == DOMAIN Rank

(* Rules of the other tiers have names of their own and impacts of their    *)
(* own, save that a severity nobody knows has none.                         *)
ASSUME OthersAssumption ==
  /\ IsFiniteSet(OtherFindings)
  /\ \A f \in OtherFindings :
       /\ f.rule \notin Apis
       /\ f.severity \in Severities /\ f.impact \in Nat
       /\ f.severity = "unknown" => f.impact = 0

AtTarget(minor) == minor # 0 /\ minor <= Target

(* An API no rule fires on has no grade.                                    *)
Fires(a) == AtTarget(Api[a].removedIn) \/ AtTarget(Api[a].deprecatedIn)
grade(a) == IF AtTarget(Api[a].removedIn) THEN "critical" ELSE "high"
appliesAt(a) == IF AtTarget(Api[a].removedIn) THEN Api[a].removedIn ELSE Api[a].deprecatedIn

downgrade(s) == CASE s = "critical" -> "high" [] s = "high" -> "medium" [] OTHER -> s

-----------------------------------------------------------------------------
(* Evidence.                                                                *)

\* Mutant: a record without a date taken for an old one.
StaleUndated(o, w) ==
  \E v \in record[o].writes : v.api = Api[w.api].via /\ v.day > w.day

(* Rewritten on a later day at the version it is listed through; neither    *)
(* day may be missing (0).                                                  *)
Stale(o, w) ==
  /\ w.day # 0
  /\ \E v \in record[o].writes : v.api = Api[w.api].via /\ v.day > w.day

(* The records a list through some of these versions brings.                *)
Looked(a, lists) == a \in Apis /\ AtTarget(Api[a].removedIn) /\ Api[a].via \in lists

Usage(a, o, stale) == [api |-> a, object |-> o, stale |-> stale]

fromManagedFields(o, lists) ==
  {Usage(w.api, o, Stale(o, w)) : w \in {v \in record[o].writes : Looked(v.api, lists)}}

fromLastApplied(o, lists) ==
  {Usage(a, o, FALSE) : a \in {b \in {record[o].applied} : Looked(b, lists)}}

scanMetrics(counted) == {Usage(a, 0, FALSE) : a \in counted}

NewGroup == [seen |-> FALSE, objects |-> {}, allStale |-> TRUE]

GradingInit ==
  /\ record \in [Objects -> Records]
  /\ requested \in SUBSET Apis
  /\ current \in Currents /\ gitVersion \in {0, current}
  /\ listed = {}
  /\ usages = {} /\ groups = [a \in Apis |-> NewGroup]
  /\ findings = {}
  /\ score = 0 /\ level = "LOW"
  /\ step = "scan"

(* Lists fail one by one; counters for resources discovery does not know    *)
(* are matched to no API, and without a list to make none are read.         *)
Scan ==
  /\ step = "scan" /\ step' = "group"
  /\ \E lists \in SUBSET {Api[a].via : a \in Apis}, counted \in SUBSET requested :
       /\ listed' = lists
       /\ usages' = (UNION {fromManagedFields(o, lists) \cup fromLastApplied(o, lists) : o \in Objects})
                    \cup scanMetrics(counted)
  /\ UNCHANGED <<given, groups, findings, score, level>>

-----------------------------------------------------------------------------
(* removedapi.Analyze, one record after another.                            *)

\* Mutant: a record that names no object counted as one.
GroupedNameless(g, u) ==
  [seen |-> TRUE, objects |-> g.objects \cup {u.object}, allStale |-> g.allStale /\ u.stale]

\* Mutant: the first record of a group decides.
GroupedFirst(g, u) ==
  [seen |-> TRUE, objects |-> g.objects \cup ({u.object} \ {0}),
   allStale |-> IF g.seen THEN g.allStale ELSE u.stale]

Grouped(g, u) ==
  [seen |-> TRUE, objects |-> g.objects \cup ({u.object} \ {0}),
   allStale |-> g.allStale /\ u.stale]

Group ==
  /\ step = "group"
  /\ \E u \in usages :
       /\ usages' = usages \ {u}
       /\ groups' = IF Fires(u.api) THEN [groups EXCEPT ![u.api] = Grouped(@, u)] ELSE groups
  /\ UNCHANGED <<given, listed, findings, score, level, step>>

\* Mutant: a record that was superseded counts like one that stands.
SeverityFlat(a) == grade(a)

(* Only when every record has been superseded is the claim weaker.          *)
Severity(a) ==
  IF groups[a].allStale /\ groups[a].objects # {} THEN downgrade(grade(a)) ELSE grade(a)

FindingOf(a) ==
  [rule |-> a, at |-> appliesAt(a), severity |-> Severity(a), impact |-> ScoreImpact[Severity(a)],
   on |-> capNamed(groups[a].objects), more |-> Cardinality(groups[a].objects) > Cap]

Report ==
  /\ step = "group" /\ usages = {} /\ step' = "score"
  /\ findings' = {FindingOf(a) : a \in {b \in Apis : groups[b].seen}}
  /\ UNCHANGED <<given, listed, usages, groups, score, level>>

-----------------------------------------------------------------------------
(* The advisories of the path.                                              *)

\* Mutant: a current version that does not parse closes the window.
OnPathKnown(v) == v # 0 /\ v <= Target /\ gitVersion # 0 /\ gitVersion < v

(* Open at the bottom when the current version does not parse.              *)
OnPath(v) == v # 0 /\ v <= Target /\ (gitVersion # 0 => gitVersion < v)

Advisory(v) ==
  [rule |-> "advisory", at |-> v, severity |-> "info", impact |-> ScoreImpact["info"], on |-> {}, more |-> FALSE]

advisories == {Advisory(v) : v \in {w \in Advisories : OnPath(w)}}

(* A jump of several minors, from package preflight: the stages it takes,   *)
(* as far as twelve of them, and nothing when the version does not parse.   *)
hopsBetween == gitVersion .. Atmost(Target, gitVersion + 12)

skippedMinor ==
  IF gitVersion = 0 \/ Target - gitVersion <= 1 THEN {}
  ELSE {[rule |-> "skipped minor", at |-> Target, severity |-> "high", impact |-> ScoreImpact["high"],
         on |-> hopsBetween, more |-> FALSE]}

-----------------------------------------------------------------------------
(* The score of the report.                                                 *)

\* Mutant: no ceiling under a finding that is only high.
ceilingForAll(worst) == CASE worst = 3 -> 60 [] worst = 2 -> 30 [] worst = 1 -> 10 [] OTHER -> 100

(* A severity nobody knows caps nothing.                                    *)
ceilingFor(worst) ==
  CASE worst = 4 -> 80 [] worst = 3 -> 60 [] worst = 2 -> 30 [] worst = 1 -> 10 [] OTHER -> 100

Floor(worst) == CASE worst = 5 -> 81 [] worst = 4 -> 61 [] OTHER -> 0

Impact(f) == f.impact

Compute(F) ==
  LET worst == Max({Rank[f.severity] : f \in F})
      sum   == MapThenSumSet(Impact, F)
  IN  IF F = {} THEN 0
      ELSE Atmost(Atleast(Atmost(sum, 100), Floor(worst)), ceilingFor(worst))

LevelFor(n) ==
  IF n <= 30 THEN "LOW" ELSE IF n <= 60 THEN "MEDIUM" ELSE IF n <= 80 THEN "HIGH" ELSE "CRITICAL"

Score ==
  /\ step = "score" /\ step' = "done"
  /\ \E others \in SUBSET OtherFindings :
       /\ findings' = findings \cup advisories \cup skippedMinor \cup others
       /\ score' = Compute(findings')
       /\ level' = LevelFor(Compute(findings'))
  /\ UNCHANGED <<given, listed, usages, groups>>

Graded == step = "done" /\ UNCHANGED gradingVars

GradingNext == Scan \/ Group \/ Report \/ Score \/ Graded

GradingSpec == GradingInit /\ [][GradingNext]_gradingVars

-----------------------------------------------------------------------------
GradingTypeOK ==
  /\ record \in [Objects -> Records] /\ requested \subseteq Apis
  /\ current \in Currents /\ gitVersion \in {0, current}
  /\ listed \subseteq {Api[a].via : a \in Apis}
  /\ \A u \in usages : u.api \in Apis /\ u.object \in Objects \cup {0} /\ u.stale \in BOOLEAN
  /\ groups \in [Apis -> [seen : BOOLEAN, objects : SUBSET Objects, allStale : BOOLEAN]]
  /\ \A f \in findings : f.severity \in Severities /\ f.impact \in Nat
  /\ score \in 0 .. 100 /\ level \in {"LOW", "MEDIUM", "HIGH", "CRITICAL"}
  /\ step \in {"scan", "group", "score", "done"}

(* The last known write of the object at this API stands: nobody is known   *)
(* to have rewritten it later at the version that replaces it.              *)
Stands(o, a) ==
  \/ record[o].applied = a
  \/ \E w \in record[o].writes :
       w.api = a /\ (w.day = 0 \/ \A v \in record[o].writes : v.api = Api[a].via => v.day <= w.day)

(* An object last written at an API the target removes, in a list that was  *)
(* read, is named or counted in a critical finding and puts the whole       *)
(* report in the critical band: whatever order the records came in, however *)
(* many of the others were superseded and whatever else was found.          *)
StandingWriteIsCritical ==
  \A o \in Objects, a \in Apis :
    step = "done" /\ Looked(a, listed) /\ Stands(o, a) =>
      /\ \E f \in findings : f.rule = a /\ f.severity = "critical" /\ (o \in f.on \/ f.more)
      /\ level = "CRITICAL"

(* A removed API is called critical only when something the scan read still *)
(* stands or the API server was asked for it: a leftover alone does not.    *)
CriticalHasUser ==
  \A f \in findings : f.rule \in Apis /\ f.severity = "critical" =>
    f.rule \in requested \/ \E o \in Objects : Stands(o, f.rule)

(* The report says neither less nor more than was found.  Every change      *)
(* between what the cluster runs and the target is printed, however the     *)
(* cluster's version reads, and such advisories alone score at most ten;    *)
(* a jump known to be of several minors is never in the lower bands; the    *)
(* critical band has a critical finding behind it, whatever the impacts     *)
(* add up to, and a critical removal has a user.                            *)
BandHasReason ==
  step = "done" =>
    /\ CriticalHasUser
    /\ \A v \in Advisories :
         current < v /\ v <= Target => \E f \in findings : f.rule = "advisory" /\ f.at = v
    /\ (\A f \in findings : f.severity = "info") => score <= 10
    /\ gitVersion # 0 /\ gitVersion + 1 < Target => level \in {"HIGH", "CRITICAL"}
    /\ level = "CRITICAL" => \E f \in findings : f.severity = "critical"
=============================================================================
