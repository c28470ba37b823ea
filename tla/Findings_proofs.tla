-------------------------- MODULE Findings_proofs --------------------------
(* What the report says, for every cluster, catalogue, path and cap: a     *)
(* removed API that still has a user is critical and so is the report, and *)
(* no band is reached without a reason (Grading); a setting or a volume    *)
(* the target refuses is in a finding or in a row that says it was not     *)
(* looked at, and no finding is false (Breakers).                          *)
(*                                                                         *)
(* What both rest on is a walk over data: the score adds up a set of       *)
(* findings, and a container's arguments are its settings end to end.  The *)
(* provers have no induction over data, so each walk is shown to exist and *)
(* to keep what it promises from the least number at which it would not.   *)
EXTENDS Breakers, Grading, FunctionTheorems, FiniteSetTheorems, SequenceTheorems, WellFoundedInduction, TLAPS

-----------------------------------------------------------------------------
(* Numbers and names. *)

LEMMA LeastNumber ==
  ASSUME NEW S \in SUBSET Nat, S # {}
  PROVE  \E m \in S : \A k \in S : m <= k
<1>1. PICK m \in S : \A k \in S : ~(<<k, m>> \in OpToRel(<, Nat))
  BY NatLessThanWellFounded, WFMin
<1>2. \A k \in S : ~(k < m)
  BY <1>1 DEF OpToRel
<1> QED BY <1>2

(* Whoever is among the names is printed, or is one of the others that the  *)
(* report counts.                                                           *)
LEMMA NamedOrCounted ==
  ASSUME NEW S \in SUBSET Nat, IsFiniteSet(S), NEW o \in S
  PROVE  o \in capNamed(S) \/ Cardinality(S) > Cap
<1> DEFINE Ahead == {y \in S : y < o}
<1>1. IsFiniteSet(Ahead) /\ Cardinality(Ahead) \in Nat
  BY FS_Subset, FS_CardinalityType
<1>2. IsFiniteSet(Ahead \cup {o}) /\ Cardinality(Ahead \cup {o}) = Cardinality(Ahead) + 1
  BY <1>1, FS_AddElement
<1>3. Cardinality(Ahead \cup {o}) <= Cardinality(S)
  BY FS_Subset, (Ahead \cup {o}) \subseteq S
<1>4. Cardinality(S) \in Nat
  BY FS_CardinalityType
<1> QED BY <1>1, <1>2, <1>3, <1>4, CapAssumption DEF capNamed

(* Somebody is printed, and fewer names than were found only when the count *)
(* beside them says so.                                                     *)
LEMMA SomebodyNamed ==
  ASSUME NEW S \in SUBSET Nat, IsFiniteSet(S), S # {}
  PROVE  /\ capNamed(S) # {} /\ capNamed(S) \subseteq S
         /\ Cardinality(capNamed(S)) \in Nat /\ Cardinality(S) >= Cardinality(capNamed(S))
         /\ \A x \in S : x \in capNamed(S) \/ Cardinality(S) > Cardinality(capNamed(S))
<1>1. PICK m \in S : \A k \in S : m <= k
  BY LeastNumber
<1>2. {y \in S : y < m} = {}
  <2>1. \A y \in S : y \in Nat /\ m <= y /\ m \in Nat
    BY <1>1
  <2>2. \A y \in S : ~(y < m)
    BY <2>1
  <2> QED BY <2>2
<1>3. m \in capNamed(S)
  BY <1>2, FS_EmptySet, CapAssumption DEF capNamed
<1>4. capNamed(S) \subseteq S
  BY DEF capNamed
<1>5. /\ IsFiniteSet(capNamed(S)) /\ Cardinality(capNamed(S)) <= Cardinality(S)
      /\ Cardinality(capNamed(S)) = Cardinality(S) => capNamed(S) = S
  BY <1>4, FS_Subset
<1>6. Cardinality(S) \in Nat /\ Cardinality(capNamed(S)) \in Nat
  BY <1>5, FS_CardinalityType
<1> QED BY <1>3, <1>4, <1>5, <1>6

-----------------------------------------------------------------------------
(* The sum of impacts.  Body is one step of the walk over a set: take one   *)
(* finding, and add its impact to the sum of the rest.                      *)

Body(g, s) ==
  IF s = {} THEN 0
  ELSE LET x == CHOOSE y \in s : TRUE IN Impact(x) + g[s \ {x}]

Sums(F) == CHOOSE g : g = [s \in SUBSET F |-> Body(g, s)]

LEMMA SumIs == ASSUME NEW F PROVE MapThenSumSet(Impact, F) = Sums(F)[F]
BY DEF MapThenSumSet, MapThenFoldSet, Sums, Body

Small(F, n) == {s \in SUBSET F : Cardinality(s) <= n}

(* The sum of every subset of at most n findings is defined.                *)
LEMMA SmallSumsExist ==
  ASSUME NEW F, IsFiniteSet(F), NEW n \in Nat
  PROVE  \E g : g = [s \in Small(F, n) |-> Body(g, s)]
<1> DEFINE Exists(k) == \E g : g = [s \in Small(F, k) |-> Body(g, s)]
           Bad == {k \in Nat : ~Exists(k)}
<1>1. CASE Bad = {}
  BY <1>1
<1>2. CASE Bad # {}
  <2> Bad \in SUBSET Nat
    OBVIOUS
  <2> HIDE DEF Bad
  <2>1. PICK m \in Bad : \A k \in Bad : m <= k
    BY <1>2, LeastNumber
  <2>2. m \in Nat /\ ~Exists(m)
    BY DEF Bad
  <2>3. \A s \in SUBSET F : IsFiniteSet(s) /\ Cardinality(s) \in Nat
    BY FS_Subset, FS_CardinalityType
  <2>4. CASE m = 0
    <3> DEFINE g == [s \in Small(F, 0) |-> 0]
    <3>1. \A s \in Small(F, 0) : s = {}
      BY <2>3, FS_EmptySet DEF Small
    <3>2. \A s \in Small(F, 0) : Body(g, s) = 0
      BY <3>1 DEF Body
    <3>3. g = [s \in Small(F, 0) |-> Body(g, s)]
      BY <3>2
    <3> QED BY <2>2, <2>4, <3>3
  <2>5. CASE m # 0
    <3>1. m - 1 \in Nat /\ ~(m <= m - 1)
      BY <2>2, <2>5
    <3>2. Exists(m - 1)
      BY <2>1, <3>1 DEF Bad
    <3>3. PICK f : f = [s \in Small(F, m - 1) |-> Body(f, s)]
      BY <3>2
    <3> DEFINE g == [s \in Small(F, m) |-> Body(f, s)]
    <3>4. ASSUME NEW s \in Small(F, m)
          PROVE  Body(g, s) = Body(f, s)
      <4>1. CASE s = {}
        BY <4>1 DEF Body
      <4>2. CASE s # {}
        <5> DEFINE x == CHOOSE y \in s : TRUE
                   t == s \ {x}
        <5>1. x \in s
          BY <4>2
        <5>2. Cardinality(t) = Cardinality(s) - 1 /\ t \in SUBSET F
          BY <2>3, <5>1, FS_RemoveElement DEF Small
        <5>3. t \in Small(F, m - 1) /\ t \in Small(F, m)
          BY <2>2, <2>3, <5>2 DEF Small
        <5>4. g[t] = Body(f, t) /\ f[t] = Body(f, t)
          BY <5>3, <3>3
        <5>5. Body(g, s) = Impact(x) + g[t] /\ Body(f, s) = Impact(x) + f[t]
          BY <4>2 DEF Body
        <5> QED BY <5>4, <5>5
      <4> QED BY <4>1, <4>2
    <3>5. g = [s \in Small(F, m) |-> Body(g, s)]
      BY <3>4
    <3> QED BY <2>2, <3>5
  <2> QED BY <2>4, <2>5
<1> QED BY <1>1, <1>2

LEMMA SumsOfParts ==
  ASSUME NEW F, IsFiniteSet(F)
  PROVE  \A s \in SUBSET F : Sums(F)[s] = Body(Sums(F), s)
<1>1. Cardinality(F) \in Nat /\ Small(F, Cardinality(F)) = SUBSET F
  BY FS_Subset, FS_CardinalityType DEF Small
<1>2. \E g : g = [s \in Small(F, Cardinality(F)) |-> Body(g, s)]
  BY <1>1, SmallSumsExist
<1>3. \E g : g = [s \in SUBSET F |-> Body(g, s)]
  BY <1>1, <1>2
<1>4. Sums(F) = [s \in SUBSET F |-> Body(Sums(F), s)]
  BY <1>3 DEF Sums
<1> QED BY <1>4

(* The impacts of a set add up to a number, which is 0 when each of them is.*)
LEMMA SumIsNat ==
  ASSUME NEW F, IsFiniteSet(F), \A f \in F : f.impact \in Nat
  PROVE  /\ MapThenSumSet(Impact, F) \in Nat
         /\ (\A f \in F : f.impact = 0) => MapThenSumSet(Impact, F) = 0
<1> DEFINE sum == Sums(F)
           Right(s) == sum[s] \in Nat /\ ((\A f \in F : f.impact = 0) => sum[s] = 0)
           Bad == {n \in Nat : \E s \in SUBSET F : Cardinality(s) = n /\ ~Right(s)}
<1>1. \A s \in SUBSET F : IsFiniteSet(s) /\ Cardinality(s) \in Nat
  BY FS_Subset, FS_CardinalityType
<1>2. CASE Bad = {}
  <2>1. Right(F)
    BY <1>1, <1>2
  <2> QED BY <2>1, SumIs
<1>3. CASE Bad # {}
  <2> Bad \in SUBSET Nat
    OBVIOUS
  <2> HIDE DEF Bad
  <2>1. PICK m \in Bad : \A k \in Bad : m <= k
    BY <1>3, LeastNumber
  <2>2. PICK s \in SUBSET F : Cardinality(s) = m /\ ~Right(s)
    BY DEF Bad
  <2>3. sum[s] = Body(sum, s)
    BY SumsOfParts
  <2>4. s # {}
    BY <2>2, <2>3 DEF Body
  <2> DEFINE x == CHOOSE y \in s : TRUE
             t == s \ {x}
  <2>5. x \in s /\ x \in F
    BY <2>4
  <2>6. t \in SUBSET F /\ Cardinality(t) = m - 1
    BY <1>1, <2>2, <2>5, FS_RemoveElement
  <2>7. Cardinality(t) \in Nat
    BY <1>1, <2>6
  <2>8. Right(t)
    BY <2>1, <2>6, <2>7 DEF Bad
  <2>9. sum[s] = x.impact + sum[t]
    BY <2>3, <2>4 DEF Body, Impact
  <2>10. Right(s)
    BY <2>5, <2>8, <2>9
  <2> QED BY <2>2, <2>10
<1> QED BY <1>2, <1>3

-----------------------------------------------------------------------------
(* The score. *)

LEMMA MaxOfRanks ==
  ASSUME NEW S \in SUBSET (0 .. 5), S # {}
  PROVE  Max(S) \in S /\ \A y \in S : Max(S) >= y
<1> DEFINE Below == {5 - y : y \in S}
<1>1. Below \in SUBSET Nat /\ Below # {}
  <2>1. \A y \in S : y \in 0 .. 5
    OBVIOUS
  <2>2. \A y \in S : 5 - y \in Nat
    BY <2>1
  <2> QED BY <2>2
<1>2. PICK m \in Below : \A k \in Below : m <= k
  BY <1>1, LeastNumber
<1>3. 5 - m \in S /\ \A y \in S : 5 - m >= y
  BY <1>2
<1>4. \E x \in S : \A y \in S : x >= y
  BY <1>3
<1> QED BY <1>4 DEF Max

(* A finding whose severity is known, or that has no impact.                *)
Weighed(f) == f.severity \in Severities /\ f.impact \in Nat /\ (f.severity = "unknown" => f.impact = 0)

(* What the bands promise of every report.                                  *)
LEMMA ScoreOf ==
  ASSUME NEW F, IsFiniteSet(F), \A f \in F : Weighed(f)
  PROVE  /\ Compute(F) \in 0 .. 100
         /\ (\E f \in F : f.severity = "critical") => Compute(F) > 80
         /\ (\E f \in F : f.severity = "high") => Compute(F) > 60
         /\ (\A f \in F : f.severity = "info") => Compute(F) <= 10
         /\ Compute(F) > 80 => \E f \in F : f.severity = "critical"
<1> DEFINE Ranks == {Rank[f.severity] : f \in F}
           worst == Max(Ranks)
           sum == MapThenSumSet(Impact, F)
<1>1. CASE F = {}
  BY <1>1 DEF Compute
<1>2. CASE F # {}
  <2>1. sum \in Nat /\ ((\A f \in F : f.impact = 0) => sum = 0)
    BY SumIsNat DEF Weighed
  <2>2. \A f \in F : f.severity \in {"critical", "high", "medium", "low", "info", "unknown"}
    BY DEF Weighed, Severities, Rank
  <2>3. Ranks \in SUBSET (0 .. 5) /\ Ranks # {}
    BY <1>2, <2>2 DEF Rank
  <2> HIDE DEF Ranks
  <2>4. worst \in Ranks /\ \A y \in Ranks : worst >= y
    BY <2>3, MaxOfRanks
  <2>5. worst \in 0 .. 5
    BY <2>3, <2>4
  <2> HIDE DEF worst, sum
  <2>6. /\ \E f \in F : worst = Rank[f.severity]
        /\ \A f \in F : worst >= Rank[f.severity]
    BY <2>4 DEF Ranks
  <2>7. Compute(F) = Atmost(Atleast(Atmost(sum, 100), Floor(worst)), ceilingFor(worst))
    BY <1>2 DEF Compute, worst, sum, Ranks
  <2>8. /\ Compute(F) \in 0 .. 100
        /\ worst = 5 => Compute(F) > 80
        /\ worst = 4 => Compute(F) > 60 /\ Compute(F) <= 80
        /\ worst \in 1 .. 3 => Compute(F) <= 60
        /\ worst = 1 => Compute(F) <= 10
        /\ worst = 0 /\ sum = 0 => Compute(F) = 0
    BY <2>1, <2>5, <2>7 DEF Atmost, Atleast, Floor, ceilingFor
  <2>9. (\E f \in F : f.severity = "critical") <=> worst = 5
    BY <2>2, <2>5, <2>6 DEF Rank
  <2>10. (\E f \in F : f.severity = "high") => worst \in {4, 5}
    BY <2>2, <2>5, <2>6 DEF Rank
  <2>11. (\A f \in F : f.severity = "info") => worst = 1
    BY <2>2, <2>5, <2>6 DEF Rank
  <2>12. worst = 0 => sum = 0
    <3>1. worst = 0 => \A f \in F : f.severity = "unknown"
      BY <2>2, <2>6 DEF Rank
    <3> QED BY <3>1, <2>1 DEF Weighed
  <2> QED BY <2>5, <2>8, <2>9, <2>10, <2>11, <2>12
<1> QED BY <1>1, <1>2

-----------------------------------------------------------------------------
(* Grading: the invariant.  Evidence that stands is in the records still to *)
(* be grouped or has reached its group, and never the other way round; from *)
(* the report on, it is in the findings.                                    *)

HasUser(a) == a \in requested \/ \E o \in Objects : Stands(o, a)

GradingTypes ==
  /\ record \in [Objects -> Records] /\ requested \subseteq Apis
  /\ current \in Currents /\ gitVersion \in {0, current}
  /\ listed \subseteq {Api[a].via : a \in Apis}
  /\ \A u \in usages : u.api \in Apis /\ u.object \in Objects \cup {0} /\ u.stale \in BOOLEAN
  /\ groups \in [Apis -> [seen : BOOLEAN, objects : SUBSET Objects, allStale : BOOLEAN]]
  /\ IsFiniteSet(findings) /\ \A f \in findings : Weighed(f)
  /\ step \in {"scan", "group", "score", "done"}

(* A group that one record has settled names the object and is not weaker.  *)
Settled(a, o) == groups[a].seen /\ o \in groups[a].objects /\ ~groups[a].allStale

EvidenceKept ==
  step = "group" =>
    \A o \in Objects, a \in Apis :
      Looked(a, listed) /\ Stands(o, a) => Usage(a, o, FALSE) \in usages \/ Settled(a, o)

EvidenceTrue ==
  /\ \A u \in usages : (~u.stale => HasUser(u.api)) /\ (u.object = 0 => u.api \in requested)
  /\ \A a \in Apis :
       /\ ~groups[a].allStale => HasUser(a)
       /\ groups[a].seen /\ groups[a].objects = {} => a \in requested

EvidenceReported ==
  step \in {"score", "done"} =>
    \A o \in Objects, a \in Apis :
      Looked(a, listed) /\ Stands(o, a) =>
        \E f \in findings : f.rule = a /\ f.severity = "critical" /\ (o \in f.on \/ f.more)

ScoreTrue ==
  /\ step # "done" => score = 0 /\ level = "LOW"
  /\ step = "done" =>
       /\ advisories \cup skippedMinor \subseteq findings
       /\ score = Compute(findings) /\ level = LevelFor(Compute(findings))

GradingInv ==
  /\ GradingTypes /\ EvidenceKept /\ EvidenceTrue /\ EvidenceReported /\ CriticalHasUser /\ ScoreTrue

(* A write no later one supersedes is a record that is not stale.           *)
LEMMA WritesThatStand ==
  ASSUME record \in [Objects -> Records], NEW o \in Objects, NEW a \in Apis
  PROVE  Stands(o, a) <=> \/ record[o].applied = a
                          \/ \E w \in record[o].writes : w.api = a /\ ~Stale(o, w)
<1>1. record[o] \in Records
  OBVIOUS
<1>2. \A w \in record[o].writes : w.day \in Nat
  BY <1>1, GradingAssumption
<1>3. \A w \in record[o].writes :
        w.api = a =>
          (~Stale(o, w) <=> (w.day = 0 \/ \A v \in record[o].writes : v.api = Api[a].via => v.day <= w.day))
  BY <1>2 DEF Stale
<1> QED BY <1>3 DEF Stands

LEMMA GradingInitHolds == GradingInit => GradingInv
<1> SUFFICES ASSUME GradingInit PROVE GradingInv
  OBVIOUS
<1>1. GradingTypes
  BY FS_EmptySet DEF GradingInit, GradingTypes, NewGroup
<1>2. EvidenceKept /\ EvidenceReported /\ ScoreTrue /\ CriticalHasUser
  BY DEF GradingInit, EvidenceKept, EvidenceReported, ScoreTrue, CriticalHasUser
<1>3. EvidenceTrue
  BY DEF GradingInit, EvidenceTrue, NewGroup
<1> QED BY <1>1, <1>2, <1>3 DEF GradingInv

(* The evidence the lists bring is all of what stands, and no more.         *)
LEMMA ScanKeeps == ASSUME GradingInv, Scan PROVE GradingInv'
<1> USE DEF GradingInv
<1>1. PICK lists \in SUBSET {Api[a].via : a \in Apis}, counted \in SUBSET requested :
        /\ listed' = lists
        /\ usages' = (UNION {fromManagedFields(o, lists) \cup fromLastApplied(o, lists) : o \in Objects})
                     \cup scanMetrics(counted)
  BY DEF Scan
<1>2. /\ step = "scan" /\ step' = "group"
      /\ UNCHANGED <<record, requested, current, gitVersion, groups, findings, score, level>>
  BY DEF Scan, given
<1>3. record \in [Objects -> Records] /\ requested \subseteq Apis /\ 0 \notin Objects
  BY GradingAssumption DEF GradingTypes
<1>a. \A u : u \in usages' <=>
               \/ \E o \in Objects : u \in fromManagedFields(o, lists)
               \/ \E o \in Objects : u \in fromLastApplied(o, lists)
               \/ u \in scanMetrics(counted)
  BY <1>1
<1>4. \A u \in usages' :
        /\ u.api \in Apis /\ u.object \in Objects \cup {0} /\ u.stale \in BOOLEAN
        /\ ~u.stale => HasUser(u.api)
        /\ u.object = 0 => u.api \in requested
  <2> SUFFICES ASSUME NEW u \in usages'
               PROVE  /\ u.api \in Apis /\ u.object \in Objects \cup {0} /\ u.stale \in BOOLEAN
                      /\ ~u.stale => HasUser(u.api)
                      /\ u.object = 0 => u.api \in requested
    OBVIOUS
  <2>1. \/ \E o \in Objects : u \in fromManagedFields(o, lists)
        \/ \E o \in Objects : u \in fromLastApplied(o, lists)
        \/ u \in scanMetrics(counted)
    BY <1>a
  <2>2. ASSUME NEW o \in Objects, u \in fromManagedFields(o, lists)
        PROVE  u.api \in Apis /\ u.object = o /\ u.stale \in BOOLEAN /\ (~u.stale => Stands(o, u.api))
    <3>1. PICK w \in record[o].writes : Looked(w.api, lists) /\ u = Usage(w.api, o, Stale(o, w))
      BY <2>2 DEF fromManagedFields
    <3>2. u.api = w.api /\ w.api \in Apis /\ u.object = o /\ u.stale = Stale(o, w)
      BY <3>1 DEF Usage, Looked
    <3>3. Stale(o, w) \in BOOLEAN
      BY DEF Stale
    <3>4. ~Stale(o, w) => Stands(o, w.api)
      BY <1>3, <3>2, WritesThatStand
    <3> QED BY <3>2, <3>3, <3>4
  <2>3. ASSUME NEW o \in Objects, u \in fromLastApplied(o, lists)
        PROVE  u.api \in Apis /\ u.object = o /\ u.stale = FALSE /\ Stands(o, u.api)
    <3>1. u = Usage(record[o].applied, o, FALSE) /\ Looked(record[o].applied, lists)
      BY <2>3 DEF fromLastApplied
    <3> QED BY <3>1 DEF Usage, Looked, Stands
  <2>4. ASSUME u \in scanMetrics(counted)
        PROVE  u.api \in requested /\ u.object = 0 /\ u.stale = FALSE
    BY <2>4 DEF scanMetrics, Usage
  <2>5. CASE \E o \in Objects : u \in fromManagedFields(o, lists)
    BY <1>3, <2>2, <2>5 DEF HasUser
  <2>6. CASE \E o \in Objects : u \in fromLastApplied(o, lists)
    BY <1>3, <2>3, <2>6 DEF HasUser
  <2>7. CASE u \in scanMetrics(counted)
    BY <1>3, <2>4, <2>7 DEF HasUser
  <2> QED BY <2>1, <2>5, <2>6, <2>7
<1>5. \A o \in Objects, a \in Apis :
        Looked(a, lists) /\ Stands(o, a) => Usage(a, o, FALSE) \in usages'
  <2> SUFFICES ASSUME NEW o \in Objects, NEW a \in Apis, Looked(a, lists), Stands(o, a)
               PROVE  Usage(a, o, FALSE) \in usages'
    OBVIOUS
  <2>1. CASE record[o].applied = a
    <3>1. Usage(a, o, FALSE) \in fromLastApplied(o, lists)
      BY <2>1 DEF fromLastApplied
    <3> QED BY <1>a, <3>1
  <2>2. CASE \E w \in record[o].writes : w.api = a /\ ~Stale(o, w)
    <3>1. PICK w \in record[o].writes : w.api = a /\ ~Stale(o, w)
      BY <2>2
    <3>2. Stale(o, w) = FALSE
      BY <3>1 DEF Stale
    <3>3. Usage(a, o, FALSE) \in fromManagedFields(o, lists)
      BY <3>1, <3>2 DEF fromManagedFields
    <3> QED BY <1>a, <3>3
  <2> QED BY <1>3, <2>1, <2>2, WritesThatStand
<1>6. GradingTypes'
  BY <1>1, <1>2, <1>4 DEF GradingTypes, Weighed
<1>7. EvidenceKept'
  BY <1>1, <1>2, <1>5 DEF EvidenceKept, Stands, Looked, AtTarget
<1>8. EvidenceTrue'
  BY <1>2, <1>4 DEF EvidenceTrue, HasUser, Stands
<1>9. (EvidenceReported /\ CriticalHasUser /\ ScoreTrue)'
  BY <1>2 DEF EvidenceReported, CriticalHasUser, ScoreTrue, Stands
<1> QED BY <1>6, <1>7, <1>8, <1>9

(* Whatever order the records are taken in, a group only grows stronger.    *)
LEMMA GroupKeeps == ASSUME GradingInv, Group PROVE GradingInv'
<1> USE DEF GradingInv
<1>1. PICK u \in usages :
        /\ usages' = usages \ {u}
        /\ groups' = IF Fires(u.api) THEN [groups EXCEPT ![u.api] = Grouped(@, u)] ELSE groups
  BY DEF Group
<1>2. /\ step = "group"
      /\ UNCHANGED <<record, requested, current, gitVersion, listed, findings, score, level, step>>
  BY DEF Group, given
<1>3. u.api \in Apis /\ u.object \in Objects \cup {0} /\ u.stale \in BOOLEAN
  BY DEF GradingTypes
<1>4. groups \in [Apis -> [seen : BOOLEAN, objects : SUBSET Objects, allStale : BOOLEAN]]
  BY DEF GradingTypes
<1>5. Grouped(groups[u.api], u) \in [seen : BOOLEAN, objects : SUBSET Objects, allStale : BOOLEAN]
  BY <1>3, <1>4 DEF Grouped
<1>6. GradingTypes'
  <2>1. groups' \in [Apis -> [seen : BOOLEAN, objects : SUBSET Objects, allStale : BOOLEAN]]
    BY <1>1, <1>4, <1>5
  <2> QED BY <1>1, <1>2, <2>1 DEF GradingTypes, Weighed
<1>7. \A a \in Apis : groups'[a] = IF a = u.api /\ Fires(a) THEN Grouped(groups[a], u) ELSE groups[a]
  BY <1>1, <1>4
<1>a. ASSUME NEW a \in Apis, a = u.api, Fires(a)
      PROVE  /\ groups'[a].seen
             /\ groups'[a].objects = groups[a].objects \cup ({u.object} \ {0})
             /\ groups'[a].allStale <=> groups[a].allStale /\ u.stale
  <2>1. groups'[a] = Grouped(groups[a], u)
    BY <1>7, <1>a
  <2>2. groups'[a].seen /\ groups'[a].objects = groups[a].objects \cup ({u.object} \ {0})
    BY <2>1 DEF Grouped
  <2>3. groups'[a].allStale = (groups[a].allStale /\ u.stale)
    <3> DEFINE both == groups[a].allStale /\ u.stale
    <3>1. both \in BOOLEAN
      OBVIOUS
    <3>2. groups'[a] = [seen |-> TRUE, objects |-> groups[a].objects \cup ({u.object} \ {0}), allStale |-> both]
      BY <2>1 DEF Grouped
    <3> HIDE DEF both
    <3>3. groups'[a].allStale = both
      BY <3>1, <3>2
    <3> QED BY <3>3 DEF both
  <2> QED BY <2>2, <2>3
<1>8. EvidenceKept'
  <2> SUFFICES ASSUME NEW o \in Objects, NEW a \in Apis, Looked(a, listed), Stands(o, a)
               PROVE  Usage(a, o, FALSE) \in usages' \/ Settled(a, o)'
    BY <1>2 DEF EvidenceKept, Stands, Looked, AtTarget
  <2>1. Usage(a, o, FALSE) \in usages \/ Settled(a, o)
    BY <1>2 DEF EvidenceKept
  <2>2. CASE Settled(a, o)
    <3>1. CASE a = u.api /\ Fires(a)
      BY <1>a, <2>2, <3>1 DEF Settled
    <3>2. CASE ~(a = u.api /\ Fires(a))
      BY <1>7, <2>2, <3>2 DEF Settled
    <3> QED BY <3>1, <3>2
  <2>3. CASE Usage(a, o, FALSE) \in usages /\ u # Usage(a, o, FALSE)
    BY <1>1, <2>3
  <2>4. CASE u = Usage(a, o, FALSE)
    <3>1. u.api = a /\ u.object = o /\ u.stale = FALSE /\ o # 0
      BY <2>4, GradingAssumption DEF Usage
    <3>2. Fires(a)
      BY DEF Looked, Fires
    <3> QED BY <1>a, <3>1, <3>2 DEF Settled
  <2> QED BY <2>1, <2>2, <2>3, <2>4
<1>9. EvidenceTrue'
  <2>1. (~u.stale => HasUser(u.api)) /\ (u.object = 0 => u.api \in requested)
    BY DEF EvidenceTrue
  <2>2. \A v \in usages' : (~v.stale => HasUser(v.api)) /\ (v.object = 0 => v.api \in requested)
    BY <1>1 DEF EvidenceTrue
  <2>3. ASSUME NEW a \in Apis
        PROVE  /\ ~groups'[a].allStale => HasUser(a)
               /\ groups'[a].seen /\ groups'[a].objects = {} => a \in requested
    <3>1. /\ ~groups[a].allStale => HasUser(a)
          /\ groups[a].seen /\ groups[a].objects = {} => a \in requested
      BY DEF EvidenceTrue
    <3>2. CASE a = u.api /\ Fires(a)
      <4>1. /\ groups'[a].allStale <=> groups[a].allStale /\ u.stale
            /\ groups'[a].objects = groups[a].objects \cup ({u.object} \ {0})
        BY <1>a, <3>2
      <4>2. ~groups'[a].allStale => HasUser(a)
        BY <2>1, <3>1, <3>2, <4>1
      <4>3. groups'[a].objects = {} => u.object = 0
        BY <4>1
      <4> QED BY <2>1, <3>2, <4>2, <4>3
    <3>3. CASE ~(a = u.api /\ Fires(a))
      BY <1>7, <3>1, <3>3
    <3> QED BY <3>2, <3>3
  <2>4. \A a \in Apis : HasUser(a)' <=> HasUser(a)
    BY <1>2 DEF HasUser, Stands
  <2>5. \A v \in usages' : v.api \in Apis
    BY <1>1 DEF GradingTypes
  <2> QED BY <1>2, <2>2, <2>3, <2>4, <2>5 DEF EvidenceTrue
<1>10. (EvidenceReported /\ CriticalHasUser /\ ScoreTrue)'
  BY <1>2 DEF EvidenceReported, CriticalHasUser, ScoreTrue, Stands
<1> QED BY <1>6, <1>8, <1>9, <1>10

(* A finding is critical exactly when its group was not all superseded.     *)
LEMMA CriticalFinding ==
  ASSUME GradingTypes, NEW a \in Apis
  PROVE  /\ Weighed(FindingOf(a)) /\ FindingOf(a).rule = a
         /\ FindingOf(a).severity = "critical" <=>
              AtTarget(Api[a].removedIn) /\ ~(groups[a].allStale /\ groups[a].objects # {})
<1>1. FindingOf(a).rule = a /\ FindingOf(a).severity = Severity(a) /\ FindingOf(a).impact = ScoreImpact[Severity(a)]
  BY DEF FindingOf
<1>2. Severity(a) \in {"critical", "high", "medium"}
  BY DEF Severity, grade, downgrade
<1>3. Weighed(FindingOf(a))
  BY <1>1, <1>2 DEF Weighed, Severities, Rank, ScoreImpact
<1>4. Severity(a) = "critical" <=> AtTarget(Api[a].removedIn) /\ ~(groups[a].allStale /\ groups[a].objects # {})
  BY DEF Severity, grade, downgrade
<1> QED BY <1>1, <1>3, <1>4

LEMMA ReportKeeps == ASSUME GradingInv, Report PROVE GradingInv'
<1> USE DEF GradingInv
<1>1. /\ step = "group" /\ usages = {} /\ step' = "score"
      /\ findings' = {FindingOf(a) : a \in {b \in Apis : groups[b].seen}}
      /\ UNCHANGED <<record, requested, current, gitVersion, listed, usages, groups, score, level>>
  BY DEF Report, given
<1> DEFINE Seen == {b \in Apis : groups[b].seen}
           f == [a \in Seen |-> FindingOf(a)]
<1>2. IsFiniteSet(Seen)
  BY GradingAssumption, FS_Subset
<1>3. f \in Surjection(Seen, findings')
  BY <1>1 DEF Surjection
<1>4. IsFiniteSet(findings')
  BY <1>2, <1>3, FS_Surjection
<1>5. \A g \in findings' : Weighed(g)
  BY <1>1, CriticalFinding
<1>6. GradingTypes'
  BY <1>1, <1>4, <1>5 DEF GradingTypes, Weighed
<1>7. (EvidenceKept /\ EvidenceTrue)'
  BY <1>1 DEF EvidenceKept, EvidenceTrue, HasUser, Stands
<1>8. EvidenceReported'
  <2> SUFFICES ASSUME NEW o \in Objects, NEW a \in Apis, Looked(a, listed), Stands(o, a)
               PROVE  \E g \in findings' : g.rule = a /\ g.severity = "critical" /\ (o \in g.on \/ g.more)
    BY <1>1 DEF EvidenceReported, Stands, Looked, AtTarget
  <2>1. groups[a].seen /\ o \in groups[a].objects /\ ~groups[a].allStale
    BY <1>1 DEF EvidenceKept, Settled
  <2>2. FindingOf(a) \in findings'
    BY <1>1, <2>1
  <2>3. FindingOf(a).rule = a /\ FindingOf(a).severity = "critical"
    BY <2>1, CriticalFinding DEF Looked
  <2>4. groups[a].objects \in SUBSET Nat /\ IsFiniteSet(groups[a].objects)
    BY GradingAssumption, FS_Subset DEF GradingTypes
  <2>5. o \in FindingOf(a).on \/ FindingOf(a).more
    BY <2>1, <2>4, NamedOrCounted DEF FindingOf
  <2> QED BY <2>2, <2>3, <2>5
<1>9. CriticalHasUser'
  <2> SUFFICES ASSUME NEW a \in Apis, groups[a].seen, FindingOf(a).severity = "critical"
               PROVE  HasUser(a)
    BY <1>1, CriticalFinding DEF CriticalHasUser, HasUser, Stands
  <2>1. ~(groups[a].allStale /\ groups[a].objects # {})
    BY CriticalFinding
  <2> QED BY <2>1 DEF EvidenceTrue, HasUser
<1>10. ScoreTrue'
  BY <1>1 DEF ScoreTrue
<1> QED BY <1>6, <1>7, <1>8, <1>9, <1>10

(* What the other tiers add is well formed and takes nothing away.          *)
LEMMA ScoreKeeps == ASSUME GradingInv, Score PROVE GradingInv'
<1> USE DEF GradingInv
<1>1. PICK others \in SUBSET OtherFindings :
        /\ findings' = findings \cup advisories \cup skippedMinor \cup others
        /\ score' = Compute(findings')
        /\ level' = LevelFor(Compute(findings'))
  BY DEF Score
<1>2. /\ step = "score" /\ step' = "done"
      /\ UNCHANGED <<record, requested, current, gitVersion, listed, usages, groups>>
  BY DEF Score, given
<1>3. IsFiniteSet(advisories) /\ \A g \in advisories : Weighed(g) /\ g.severity = "info"
  <2> DEFINE Due == {w \in Advisories : OnPath(w)}
             f == [v \in Due |-> Advisory(v)]
  <2>1. IsFiniteSet(Due)
    BY GradingAssumption, FS_Subset
  <2>2. f \in Surjection(Due, advisories)
    BY DEF Surjection, advisories
  <2>3. \A v \in Due : Weighed(Advisory(v)) /\ Advisory(v).severity = "info"
    BY DEF Weighed, Advisory, ScoreImpact, Severities, Rank
  <2> QED BY <2>1, <2>2, <2>3, FS_Surjection DEF advisories
<1>4. IsFiniteSet(skippedMinor) /\ \A g \in skippedMinor : Weighed(g) /\ g.severity = "high"
  <2> DEFINE jump == [rule |-> "skipped minor", at |-> Target, severity |-> "high",
                      impact |-> ScoreImpact["high"], on |-> hopsBetween, more |-> FALSE]
  <2>1. Weighed(jump) /\ jump.severity = "high"
    BY DEF Weighed, ScoreImpact, Severities, Rank
  <2>2. skippedMinor = {} \/ skippedMinor = {jump}
    BY DEF skippedMinor
  <2> HIDE DEF jump
  <2> QED BY <2>1, <2>2, FS_EmptySet, FS_Singleton
<1>5. IsFiniteSet(others) /\ \A g \in others : Weighed(g) /\ g.rule \notin Apis
  BY OthersAssumption, FS_Subset DEF Weighed
<1>6. IsFiniteSet(findings') /\ \A g \in findings' : Weighed(g)
  BY <1>1, <1>3, <1>4, <1>5, FS_Union DEF GradingTypes
<1>7. GradingTypes'
  BY <1>2, <1>6 DEF GradingTypes, Weighed
<1>8. (EvidenceKept /\ EvidenceTrue)'
  BY <1>2 DEF EvidenceKept, EvidenceTrue, HasUser, Stands
<1>9. EvidenceReported'
  BY <1>1, <1>2 DEF EvidenceReported, Stands, Looked, AtTarget
<1>10. CriticalHasUser'
  BY <1>1, <1>2, <1>3, <1>4, <1>5 DEF CriticalHasUser, Stands
<1>11. ScoreTrue'
  <2>1. advisories' = advisories /\ skippedMinor' = skippedMinor
    BY <1>2 DEF advisories, skippedMinor, OnPath, Advisory, hopsBetween
  <2>2. advisories \cup skippedMinor \subseteq findings'
    BY <1>1
  <2>3. Compute(findings)' = Compute(findings')
    BY DEF Compute
  <2> QED BY <1>1, <1>2, <2>1, <2>2, <2>3 DEF ScoreTrue
<1> QED BY <1>7, <1>8, <1>9, <1>10, <1>11

LEMMA GradingStutters == ASSUME GradingInv, UNCHANGED gradingVars PROVE GradingInv'
<1>1. UNCHANGED <<record, requested, current, gitVersion, listed, usages, groups, findings, score, level, step>>
  BY DEF gradingVars, given
<1>2. GradingTypes'
  BY <1>1 DEF GradingInv, GradingTypes, Weighed
<1>5. EvidenceKept'
  BY <1>1 DEF GradingInv, EvidenceKept, Stands, Looked, AtTarget, Settled
<1>6. EvidenceTrue'
  BY <1>1 DEF GradingInv, EvidenceTrue, HasUser, Stands
<1>3. (EvidenceReported /\ CriticalHasUser)'
  BY <1>1 DEF GradingInv, EvidenceReported, CriticalHasUser, Stands, Looked, AtTarget
<1>4. ScoreTrue'
  <2>1. advisories' = advisories /\ skippedMinor' = skippedMinor
    BY <1>1 DEF advisories, skippedMinor, OnPath, Advisory, hopsBetween
  <2>2. Compute(findings)' = Compute(findings)
    BY <1>1
  <2> QED BY <1>1, <2>1, <2>2 DEF GradingInv, ScoreTrue
<1> QED BY <1>2, <1>3, <1>4, <1>5, <1>6 DEF GradingInv

LEMMA GradingInvHolds == GradingSpec => []GradingInv
<1>1. GradingInit => GradingInv
  BY GradingInitHolds
<1>2. GradingInv /\ [GradingNext]_gradingVars => GradingInv'
  <2> SUFFICES ASSUME GradingInv, [GradingNext]_gradingVars
               PROVE  GradingInv'
    OBVIOUS
  <2>1. CASE Scan
    BY <2>1, ScanKeeps
  <2>2. CASE Group
    BY <2>2, GroupKeeps
  <2>3. CASE Report
    BY <2>3, ReportKeeps
  <2>4. CASE Score
    BY <2>4, ScoreKeeps
  <2>5. CASE UNCHANGED gradingVars
    BY <2>5, GradingStutters
  <2> QED BY <2>1, <2>2, <2>3, <2>4, <2>5 DEF GradingNext, Graded
<1> QED BY <1>1, <1>2, PTL DEF GradingSpec

(* Every state of the grading is well typed: the score stays within its     *)
(* hundred, whatever was found.                                             *)
THEOREM GradingTypeCorrect == GradingSpec => []GradingTypeOK
<1>1. GradingInv => GradingTypeOK
  <2> SUFFICES ASSUME GradingInv PROVE GradingTypeOK
    OBVIOUS
  <2>1. score \in 0 .. 100 /\ level \in {"LOW", "MEDIUM", "HIGH", "CRITICAL"}
    BY ScoreOf DEF GradingInv, GradingTypes, ScoreTrue, LevelFor
  <2> QED BY <2>1 DEF GradingInv, GradingTypes, GradingTypeOK, Weighed
<1> QED BY <1>1, GradingInvHolds, PTL

(* An object last written at an API the target removes, in a list that was  *)
(* read, is named or counted in a critical finding and puts the report in   *)
(* the critical band, for every set of objects, records and other findings  *)
(* and whatever order the records are grouped in.                           *)
THEOREM StandingWrites == GradingSpec => []StandingWriteIsCritical
<1>1. GradingInv => StandingWriteIsCritical
  <2> SUFFICES ASSUME GradingInv, NEW o \in Objects, NEW a \in Apis,
                      step = "done", Looked(a, listed), Stands(o, a)
               PROVE  /\ \E f \in findings : f.rule = a /\ f.severity = "critical" /\ (o \in f.on \/ f.more)
                      /\ level = "CRITICAL"
    BY DEF StandingWriteIsCritical
  <2>1. \E f \in findings : f.rule = a /\ f.severity = "critical" /\ (o \in f.on \/ f.more)
    BY DEF GradingInv, EvidenceReported
  <2>2. Compute(findings) \in 0 .. 100 /\ Compute(findings) > 80
    BY <2>1, ScoreOf DEF GradingInv, GradingTypes
  <2>3. level = "CRITICAL"
    BY <2>2 DEF GradingInv, ScoreTrue, LevelFor
  <2> QED BY <2>1, <2>3
<1> QED BY <1>1, GradingInvHolds, PTL

(* The bands say neither less nor more than was found, for every path,      *)
(* whatever the impacts of the findings add up to.                          *)
THEOREM BandsHaveReasons == GradingSpec => []BandHasReason
<1>1. GradingInv => BandHasReason
  <2> SUFFICES ASSUME GradingInv, step = "done"
               PROVE  /\ CriticalHasUser
                      /\ \A v \in Advisories :
                           current < v /\ v <= Target => \E f \in findings : f.rule = "advisory" /\ f.at = v
                      /\ (\A f \in findings : f.severity = "info") => score <= 10
                      /\ gitVersion # 0 /\ gitVersion + 1 < Target => level \in {"HIGH", "CRITICAL"}
                      /\ level = "CRITICAL" => \E f \in findings : f.severity = "critical"
    BY DEF BandHasReason
  <2>1. /\ advisories \cup skippedMinor \subseteq findings
        /\ score = Compute(findings) /\ level = LevelFor(Compute(findings))
    BY DEF GradingInv, ScoreTrue
  <2>2. /\ Compute(findings) \in 0 .. 100
        /\ (\E f \in findings : f.severity = "high") => Compute(findings) > 60
        /\ (\A f \in findings : f.severity = "info") => Compute(findings) <= 10
        /\ Compute(findings) > 80 => \E f \in findings : f.severity = "critical"
    BY ScoreOf DEF GradingInv, GradingTypes
  <2>3. current \in Nat \ {0} /\ gitVersion \in {0, current} /\ Target \in Nat
    BY GradingAssumption DEF GradingInv, GradingTypes
  <2>4. ASSUME NEW v \in Advisories, current < v, v <= Target
        PROVE  \E f \in findings : f.rule = "advisory" /\ f.at = v
    <3>1. v \in Nat
      BY GradingAssumption
    <3>2. OnPath(v)
      BY <2>3, <2>4, <3>1 DEF OnPath
    <3>3. Advisory(v) \in findings
      BY <2>1, <3>2 DEF advisories
    <3> QED BY <3>3 DEF Advisory
  <2>5. gitVersion # 0 /\ gitVersion + 1 < Target => level \in {"HIGH", "CRITICAL"}
    <3> SUFFICES ASSUME gitVersion # 0, gitVersion + 1 < Target
                 PROVE  level \in {"HIGH", "CRITICAL"}
      OBVIOUS
    <3>1. ~(gitVersion = 0 \/ Target - gitVersion <= 1)
      BY <2>3
    <3>2. \E f \in findings : f.severity = "high"
      BY <2>1, <3>1 DEF skippedMinor
    <3> QED BY <2>1, <2>2, <3>2 DEF LevelFor
  <2>6. level = "CRITICAL" => \E f \in findings : f.severity = "critical"
    BY <2>1, <2>2 DEF LevelFor
  <2> QED BY <2>1, <2>2, <2>4, <2>5, <2>6 DEF GradingInv
<1> QED BY <1>1, GradingInvHolds, PTL

-----------------------------------------------------------------------------
(* Breakers: the invariant.  Each analysis is right about the lists and the *)
(* kubelets it was given, and none of them changes afterwards.              *)

SpelledSomehow ==
  \E split \in [DOMAIN cluster.pods -> BOOLEAN] :
    args = [p \in DOMAIN cluster.pods |-> Spelled(cluster.pods[p].settings, split[p])]

BreakersTypes ==
  /\ cluster \in Clusters /\ path \in Paths
  /\ read \subseteq Lists /\ answered \subseteq DOMAIN cluster.nodes
  /\ stage \in {"collect", "kubelets", "settings", "volumes", "done"}

ConfigFindingsTyped ==
  \A f \in configs.findings :
    f.rule \in Rules /\ f.tier \in {"breaks", "deprecated"} /\ f.on # {} /\ f.count >= Cardinality(f.on)

ConfigAlarmsTrue ==
  \A f \in configs.findings :
    /\ f.tier = "breaks" <=> Reached(Rule[f.rule].applies)
    /\ f.tier = "deprecated" => Reached(Rule[f.rule].deprecated)
    /\ \A x \in f.on :
         IF Rule[f.rule].source = "flag" THEN Refuses(x, f.rule) ELSE Holds(x, f.rule)

ConfigsReported ==
  stage \in {"volumes", "done"} =>
    /\ SettingsShow
    /\ configs.flags.state = "unavailable" \/ configs.flags.skipped = {}
    /\ configs.assessed <=> "unavailable" \notin {configs.flags.state, configs.kubelets.state}

VolumeAlarmsTrue ==
  \A f \in volumes.findings :
    /\ \E o \in DOMAIN cluster.objects :
         cluster.objects[o].name = f.name /\ cluster.objects[o].kind = f.kind /\ f.key \in cluster.objects[o].keys
    /\ f.fate \in {"removed", "migrated"} <=> Dropped(f.key)
    /\ f.fate = "migrated" => Plugin[f.key].driver \in cluster.drivers
    /\ f.fate = "removed" /\ "storage" \in read => Plugin[f.key].driver \notin cluster.drivers
    /\ f.past => \E minor \in {Plugin[f.key].disabled, Plugin[f.key].removed} : minor # 0 /\ minor <= path.current

VolumesReported ==
  stage = "done" =>
    /\ VolumesShow
    /\ volumes.row \in {"complete", "partial", "unavailable"}
    /\ volumes.row = "unavailable" => volumes.findings = {}

BreakersInv ==
  /\ BreakersTypes /\ SpelledSomehow /\ ConfigFindingsTyped /\ ConfigAlarmsTrue /\ ConfigsReported
  /\ VolumeAlarmsTrue /\ VolumesReported
  /\ stage \in {"collect", "kubelets", "settings"} => configs.findings = {}
  /\ stage # "done" => volumes.findings = {}

-----------------------------------------------------------------------------
(* The arguments of a container.  A walk over its settings appends the one  *)
(* or two tokens of each to those before.                                   *)

Flat(seqs) ==
  CHOOSE g : g = [i \in 1 .. Len(seqs) |-> IF i = 1 THEN seqs[i] ELSE g[i - 1] \o seqs[i]]

LEMMA FlattenIs ==
  ASSUME NEW seqs, Len(seqs) # 0
  PROVE  FlattenSeq(seqs) = Flat(seqs)[Len(seqs)]
BY DEF FlattenSeq, Flat

LEMMA FlatExists ==
  ASSUME NEW seqs, NEW n \in Nat
  PROVE  \E g : g = [i \in 1 .. n |-> IF i = 1 THEN seqs[i] ELSE g[i - 1] \o seqs[i]]
<1> DEFINE Exists(k) == \E g : g = [i \in 1 .. k |-> IF i = 1 THEN seqs[i] ELSE g[i - 1] \o seqs[i]]
           Bad == {k \in Nat : ~Exists(k)}
<1>1. CASE Bad = {}
  BY <1>1
<1>2. CASE Bad # {}
  <2> Bad \in SUBSET Nat
    OBVIOUS
  <2> HIDE DEF Bad
  <2>1. PICK m \in Bad : \A k \in Bad : m <= k
    BY <1>2, LeastNumber
  <2>2. m \in Nat /\ ~Exists(m)
    BY DEF Bad
  <2>3. CASE m = 0
    <3> DEFINE g == [i \in 1 .. 0 |-> seqs[i]]
    <3>1. g = [i \in 1 .. 0 |-> IF i = 1 THEN seqs[i] ELSE g[i - 1] \o seqs[i]]
      OBVIOUS
    <3> QED BY <2>2, <2>3, <3>1
  <2>4. CASE m # 0
    <3>1. m - 1 \in Nat /\ ~(m <= m - 1)
      BY <2>2, <2>4
    <3>2. Exists(m - 1)
      BY <2>1, <3>1 DEF Bad
    <3>3. PICK f : f = [i \in 1 .. (m - 1) |-> IF i = 1 THEN seqs[i] ELSE f[i - 1] \o seqs[i]]
      BY <3>2
    <3> DEFINE g == [i \in 1 .. m |-> IF i = 1 THEN seqs[i] ELSE f[i - 1] \o seqs[i]]
    <3>4. \A i \in 1 .. m : i # 1 => g[i - 1] = f[i - 1]
      <4> SUFFICES ASSUME NEW i \in 1 .. m, i # 1 PROVE g[i - 1] = f[i - 1]
        OBVIOUS
      <4>1. i - 1 \in 1 .. (m - 1) /\ i - 1 \in 1 .. m
        BY <2>2
      <4> QED BY <3>3, <4>1
    <3>5. g = [i \in 1 .. m |-> IF i = 1 THEN seqs[i] ELSE g[i - 1] \o seqs[i]]
      BY <3>4
    <3> QED BY <2>2, <3>5
  <2> QED BY <2>3, <2>4
<1> QED BY <1>1, <1>2

LEMMA FlatSteps ==
  ASSUME NEW seqs, Len(seqs) \in Nat
  PROVE  \A i \in 1 .. Len(seqs) : Flat(seqs)[i] = IF i = 1 THEN seqs[i] ELSE Flat(seqs)[i - 1] \o seqs[i]
<1>1. \E g : g = [i \in 1 .. Len(seqs) |-> IF i = 1 THEN seqs[i] ELSE g[i - 1] \o seqs[i]]
  BY FlatExists
<1>2. Flat(seqs) = [i \in 1 .. Len(seqs) |-> IF i = 1 THEN seqs[i] ELSE Flat(seqs)[i - 1] \o seqs[i]]
  BY <1>1 DEF Flat
<1> QED BY <1>2

(* At j the arguments give this setting its value.                          *)
Says(q, j, s) == q[j].flag = s.flag /\ flagValue(q, j) = s.value

(* The arguments give the first k settings, and no other flag.              *)
Tells(q, settings, k) ==
  /\ \A j \in 1 .. Len(q) : q[j].flag # NoName => \E m \in 1 .. k : Says(q, j, settings[m])
  /\ \A m \in 1 .. k : \E j \in 1 .. Len(q) : Says(q, j, settings[m])

TokensOf(settings) ==
  [flag : {settings[i].flag : i \in DOMAIN settings} \cup {NoName}, joined : BOOLEAN,
   value : {settings[i].value : i \in DOMAIN settings} \cup {{}}]

(* One setting is one token, or a flag and a value that is no flag.         *)
LEMMA TokensAre ==
  ASSUME NEW settings, NEW i \in DOMAIN settings, NEW split
  PROVE  LET s == settings[i]
             t == Tokens(s, split)
         IN  /\ t \in Seq(TokensOf(settings)) /\ t[1].flag = s.flag
             /\ \/ Len(t) = 1 /\ t[1].joined /\ t[1].value = s.value
                \/ Len(t) = 1 /\ ~t[1].joined /\ s.value = {}
                \/ Len(t) = 2 /\ ~t[1].joined /\ t[2].flag = NoName /\ t[2].value = s.value
<1> DEFINE s == settings[i]
           alone == [flag |-> s.flag, joined |-> FALSE, value |-> {}]
           value == [flag |-> NoName, joined |-> FALSE, value |-> s.value]
           both == [flag |-> s.flag, joined |-> TRUE, value |-> s.value]
<1>1. alone \in TokensOf(settings) /\ value \in TokensOf(settings) /\ both \in TokensOf(settings)
  BY DEF TokensOf
<1>2. /\ alone.flag = s.flag /\ ~alone.joined
      /\ value.flag = NoName /\ value.value = s.value
      /\ both.flag = s.flag /\ both.joined /\ both.value = s.value
  OBVIOUS
<1>3. CASE s.value = {}
  <2>1. Tokens(s, split) = <<alone>>
    BY <1>3 DEF Tokens
  <2> HIDE DEF alone, value, both
  <2> QED BY <1>1, <1>2, <1>3, <2>1
<1>4. CASE s.value # {} /\ split
  <2>1. Tokens(s, split) = <<alone, value>>
    BY <1>4 DEF Tokens
  <2> HIDE DEF alone, value, both
  <2> QED BY <1>1, <1>2, <2>1
<1>5. CASE s.value # {} /\ ~split
  <2>1. Tokens(s, split) = <<both>>
    BY <1>5 DEF Tokens
  <2> HIDE DEF alone, value, both
  <2> QED BY <1>1, <1>2, <2>1
<1> QED BY <1>3, <1>4, <1>5

(* The next setting adds its own flag and leaves the values of the others:  *)
(* a flag at the end of what came before is not followed by a value.        *)
LEMMA NextTokens ==
  ASSUME NEW settings, NEW k \in Nat, k + 1 \in DOMAIN settings, NEW split,
         settings[k + 1].flag # NoName,
         NEW q \in Seq(TokensOf(settings)), Tells(q, settings, k)
  PROVE  LET r == q \o Tokens(settings[k + 1], split)
         IN  r \in Seq(TokensOf(settings)) /\ Tells(r, settings, k + 1)
<1> DEFINE s == settings[k + 1]
           t == Tokens(s, split)
           r == q \o t
<1>1. /\ t \in Seq(TokensOf(settings)) /\ t[1].flag = s.flag
      /\ \/ Len(t) = 1 /\ t[1].joined /\ t[1].value = s.value
         \/ Len(t) = 1 /\ ~t[1].joined /\ s.value = {}
         \/ Len(t) = 2 /\ ~t[1].joined /\ t[2].flag = NoName /\ t[2].value = s.value
  BY TokensAre
<1>2. /\ r \in Seq(TokensOf(settings)) /\ Len(r) = Len(q) + Len(t)
      /\ \A i \in 1 .. Len(q) + Len(t) : r[i] = IF i <= Len(q) THEN q[i] ELSE t[i - Len(q)]
  BY <1>1, ConcatProperties
<1>3. Len(q) \in Nat /\ Len(t) \in {1, 2}
  BY <1>1, LenProperties
<1> s.flag # NoName
  OBVIOUS
<1> HIDE DEF t, r, s
<1>4. /\ \A j \in 1 .. Len(q) : j \in 1 .. Len(r) /\ r[j] = q[j]
      /\ Len(q) + 1 \in 1 .. Len(r) /\ r[Len(q) + 1] = t[1]
      /\ Len(t) = 2 => Len(q) + 2 \in 1 .. Len(r) /\ r[Len(q) + 2] = t[2]
  <2>1. \A j \in 1 .. Len(q) : j \in 1 .. Len(r) /\ j \in 1 .. Len(q) + Len(t) /\ j <= Len(q)
    BY <1>2, <1>3
  <2>2. /\ Len(q) + 1 \in 1 .. Len(q) + Len(t) /\ ~(Len(q) + 1 <= Len(q))
        /\ (Len(q) + 1) - Len(q) = 1
    BY <1>3
  <2>3. ASSUME Len(t) = 2
        PROVE  /\ Len(q) + 2 \in 1 .. Len(q) + Len(t) /\ ~(Len(q) + 2 <= Len(q))
               /\ (Len(q) + 2) - Len(q) = 2
    BY <1>3, <2>3
  <2> QED BY <1>2, <2>1, <2>2, <2>3
<1>5. \A j \in 1 .. Len(q) : flagValue(r, j) = flagValue(q, j)
  <2> SUFFICES ASSUME NEW j \in 1 .. Len(q) PROVE flagValue(r, j) = flagValue(q, j)
    OBVIOUS
  <2>1. r[j] = q[j]
    BY <1>4
  <2>2. CASE j < Len(q)
    <3>1. j + 1 \in 1 .. Len(q) /\ j < Len(r)
      BY <1>2, <1>3, <2>2
    <3>2. r[j + 1] = q[j + 1]
      BY <1>4, <3>1
    <3> QED BY <2>1, <2>2, <3>1, <3>2 DEF flagValue
  <2>3. CASE j = Len(q)
    <3>1. r[j + 1].flag # NoName
      BY <1>1, <1>4, <2>3
    <3>2. ~(j < Len(q))
      BY <1>3, <2>3
    <3> QED BY <2>1, <3>1, <3>2 DEF flagValue
  <2> QED BY <1>3, <2>2, <2>3
<1>6. Says(r, Len(q) + 1, s)
  <2>1. r[Len(q) + 1].flag = s.flag
    BY <1>1, <1>4
  <2>2. CASE t[1].joined /\ t[1].value = s.value
    BY <1>4, <2>1, <2>2 DEF Says, flagValue
  <2>3. CASE Len(t) = 1 /\ ~t[1].joined /\ s.value = {}
    <3>1. ~(Len(q) + 1 < Len(r))
      BY <1>2, <1>3, <2>3
    <3> QED BY <1>4, <2>1, <2>3, <3>1 DEF Says, flagValue
  <2>4. CASE Len(t) = 2 /\ ~t[1].joined /\ t[2].flag = NoName /\ t[2].value = s.value
    <3>1. Len(q) + 1 < Len(r) /\ (Len(q) + 1) + 1 = Len(q) + 2
      BY <1>2, <1>3, <2>4
    <3>2. r[(Len(q) + 1) + 1] = t[2]
      BY <1>4, <2>4, <3>1
    <3> QED BY <1>4, <2>1, <2>4, <3>1, <3>2 DEF Says, flagValue
  <2> QED BY <1>1, <2>2, <2>3, <2>4
<1>7. ASSUME NEW j \in 1 .. Len(r), r[j].flag # NoName
      PROVE  \E m \in 1 .. (k + 1) : Says(r, j, settings[m])
  <2>1. CASE j \in 1 .. Len(q)
    <3>1. q[j].flag # NoName /\ r[j] = q[j]
      BY <1>4, <1>7, <2>1
    <3>2. PICK m \in 1 .. k : Says(q, j, settings[m])
      BY <2>1, <3>1 DEF Tells
    <3>3. Says(r, j, settings[m])
      BY <1>5, <2>1, <3>1, <3>2 DEF Says
    <3> QED BY <3>3
  <2>2. CASE j = Len(q) + 1
    BY <1>6, <2>2 DEF s
  <2>3. CASE j \notin 1 .. Len(q) /\ j # Len(q) + 1
    <3>1. Len(t) = 2 /\ j = Len(q) + 2
      <4>1. j \in Nat /\ j >= 1 /\ j <= Len(q) + Len(t) /\ Len(q) \in Nat
        BY <1>2, <1>3
      <4>2. ~(j <= Len(q)) /\ j # Len(q) + 1
        BY <2>3, <4>1
      <4>3. CASE Len(t) = 1
        BY <4>1, <4>2, <4>3
      <4>4. CASE Len(t) = 2
        BY <4>1, <4>2, <4>4
      <4> QED BY <1>3, <4>3, <4>4
    <3>2. r[j] = t[2] /\ t[2].flag = NoName
      BY <1>1, <1>4, <3>1
    <3> QED BY <1>7, <3>2
  <2> QED BY <2>1, <2>2, <2>3
<1>8. ASSUME NEW m \in 1 .. (k + 1)
      PROVE  \E j \in 1 .. Len(r) : Says(r, j, settings[m])
  <2>1. CASE m \in 1 .. k
    <3>1. PICK j \in 1 .. Len(q) : Says(q, j, settings[m])
      BY <2>1 DEF Tells
    <3>2. Says(r, j, settings[m])
      BY <1>4, <1>5, <3>1 DEF Says
    <3> QED BY <1>4, <3>2
  <2>2. CASE m = k + 1
    BY <1>4, <1>6, <2>2 DEF s
  <2> QED BY <2>1, <2>2
<1>9. Tells(r, settings, k + 1)
  BY <1>7, <1>8 DEF Tells
<1> QED BY <1>2, <1>9 DEF r, t, s

(* However a manifest spells its settings, the arguments give every one of  *)
(* them its value and give nothing else.                                    *)
LEMMA ArgumentsTell ==
  ASSUME NEW settings, Len(settings) \in Nat, DOMAIN settings = 1 .. Len(settings),
         \A i \in DOMAIN settings : settings[i].flag # NoName, NEW split
  PROVE  LET q == Spelled(settings, split)
         IN  DOMAIN q = 1 .. Len(q) /\ Tells(q, settings, Len(settings))
<1> DEFINE n == Len(settings)
           T == TokensOf(settings)
           seqs == [i \in DOMAIN settings |-> Tokens(settings[i], split)]
           g == Flat(seqs)
           Right(k) == g[k] \in Seq(T) /\ Tells(g[k], settings, k)
           Bad == {k \in 1 .. n : ~Right(k)}
<1>1. \A i \in 1 .. n : seqs[i] = Tokens(settings[i], split) /\ seqs[i] \in Seq(T)
  BY TokensAre
<1>2. seqs \in Seq(Seq(T)) /\ DOMAIN seqs = 1 .. n
  BY <1>1
<1>3. Len(seqs) = n
  BY <1>2, LenProperties
<1>4. \A k \in 1 .. n : g[k] = IF k = 1 THEN seqs[k] ELSE g[k - 1] \o seqs[k]
  BY <1>3, FlatSteps
<1>5. Spelled(settings, split) = IF n = 0 THEN seqs ELSE g[n]
  <2>1. CASE n = 0
    BY <1>3, <2>1 DEF Spelled, FlattenSeq
  <2>2. CASE n # 0
    BY <1>3, <2>2, FlattenIs DEF Spelled
  <2> QED BY <2>1, <2>2
<1> HIDE DEF seqs, g, T
<1>6. CASE n = 0
  <2>1. Spelled(settings, split) = seqs
    BY <1>5, <1>6
  <2>2. DOMAIN seqs = 1 .. Len(seqs) /\ 1 .. Len(seqs) = {} /\ 1 .. n = {}
    BY <1>2, <1>3, <1>6
  <2> QED BY <1>6, <2>1, <2>2 DEF Tells
<1>7. CASE n # 0
  <2>1. Bad = {}
    <3> SUFFICES ASSUME Bad # {} PROVE FALSE
      OBVIOUS
    <3> Bad \in SUBSET Nat
      OBVIOUS
    <3> HIDE DEF Bad
    <3>1. PICK m \in Bad : \A k \in Bad : m <= k
      BY LeastNumber
    <3>2. m \in 1 .. n /\ ~Right(m)
      BY <3>1 DEF Bad
    <3>3. CASE m = 1
      <4>1. << >> \in Seq(T) /\ Tells(<< >>, settings, 0)
        BY EmptySeq DEF Tells
      <4>2. 0 + 1 \in DOMAIN settings /\ 0 + 1 = 1 /\ settings[1].flag # NoName
        BY <3>2, <3>3
      <4>3. << >> \o Tokens(settings[1], split) \in Seq(T) /\ Tells(<< >> \o Tokens(settings[1], split), settings, 1)
        BY <4>1, <4>2, NextTokens DEF T
      <4>4. << >> \o seqs[1] = seqs[1] /\ seqs[1] = Tokens(settings[1], split)
        BY <1>1, <3>2, <3>3, ConcatEmptySeq
      <4> QED BY <1>4, <3>2, <3>3, <4>3, <4>4
    <3>4. CASE m # 1
      <4> DEFINE k == m - 1
      <4>1. k \in Nat /\ k \in 1 .. n /\ ~(m <= k) /\ k + 1 = m
        BY <3>2, <3>4
      <4>2. Right(k)
        BY <3>1, <4>1 DEF Bad
      <4>3. k + 1 \in DOMAIN settings /\ settings[k + 1].flag # NoName
        BY <3>2, <4>1
      <4> HIDE DEF k
      <4>4. /\ g[k] \o Tokens(settings[k + 1], split) \in Seq(T)
            /\ Tells(g[k] \o Tokens(settings[k + 1], split), settings, k + 1)
        BY <4>1, <4>2, <4>3, NextTokens DEF T
      <4>5. g[m] = g[k] \o Tokens(settings[k + 1], split)
        BY <1>1, <1>4, <3>2, <3>4, <4>1 DEF k
      <4> QED BY <3>2, <4>1, <4>4, <4>5
    <3> QED BY <3>3, <3>4
  <2>2. Right(n)
    BY <1>7, <2>1
  <2>3. DOMAIN g[n] = 1 .. Len(g[n])
    BY <2>2, LenProperties
  <2> QED BY <1>5, <1>7, <2>2, <2>3
<1> QED BY <1>6, <1>7

-----------------------------------------------------------------------------
(* Settings: what a rule matches is what was set.                           *)

LEMMA FlagsMatch ==
  ASSUME cluster \in Clusters, SpelledSomehow,
         NEW p \in DOMAIN cluster.pods, NEW r \in Rules, Rule[r].source = "flag"
  PROVE  flagMatch(args[p], r) <=> Sets(p, r)
<1> DEFINE settings == cluster.pods[p].settings
           selectors == Rule[r].selectors
           q == args[p]
<1>1. /\ Len(settings) \in Nat /\ DOMAIN settings = 1 .. Len(settings)
      /\ \A i \in DOMAIN settings : settings[i].flag # NoName
  BY ClustersAssumption
<1>2. NoName \notin selectors /\ Rule[r].condition \in {"present", "equals", "gate", "locked gate"}
  BY RulesAssumption
<1>3. \E split : q = Spelled(settings, split)
  BY DEF SpelledSomehow
<1> HIDE DEF q, settings
<1>4. DOMAIN q = 1 .. Len(q) /\ Tells(q, settings, Len(settings))
  BY <1>1, <1>3, ArgumentsTell
<1>5. \A j \in Given(q, r) :
        \E i \in DOMAIN settings : settings[i].flag \in selectors /\ flagValue(q, j) = settings[i].value
  <2> SUFFICES ASSUME NEW j \in Given(q, r)
               PROVE  \E i \in DOMAIN settings :
                        settings[i].flag \in selectors /\ flagValue(q, j) = settings[i].value
    OBVIOUS
  <2>1. j \in 1 .. Len(q) /\ q[j].flag \in selectors /\ q[j].flag # NoName
    BY <1>2, <1>4 DEF Given
  <2>2. PICK i \in 1 .. Len(settings) : Says(q, j, settings[i])
    BY <1>4, <2>1 DEF Tells
  <2> QED BY <1>1, <2>1, <2>2 DEF Says
<1>6. \A i \in DOMAIN settings : settings[i].flag \in selectors =>
        \E j \in Given(q, r) : flagValue(q, j) = settings[i].value
  <2> SUFFICES ASSUME NEW i \in DOMAIN settings, settings[i].flag \in selectors
               PROVE  \E j \in Given(q, r) : flagValue(q, j) = settings[i].value
    OBVIOUS
  <2>1. PICK j \in 1 .. Len(q) : Says(q, j, settings[i])
    BY <1>1, <1>4 DEF Tells
  <2>2. j \in Given(q, r)
    BY <1>4, <2>1 DEF Says, Given
  <2> QED BY <2>1, <2>2 DEF Says
<1>7. \A v : v \in gateLists(q, r) <=>
        \E i \in DOMAIN settings : settings[i].flag \in selectors /\ v = settings[i].value
  <2>1. \A v : v \in gateLists(q, r) <=> \E j \in Given(q, r) : v = flagValue(q, j)
    BY DEF gateLists
  <2> QED BY <1>5, <1>6, <2>1
<1>8. CASE Rule[r].condition = "present"
  <2>1. flagMatch(q, r) <=> Given(q, r) # {}
    BY <1>8 DEF flagMatch
  <2>2. Sets(p, r) <=> \E i \in DOMAIN settings : settings[i].flag \in selectors
    BY <1>8 DEF Sets, settings
  <2> QED BY <1>5, <1>6, <2>1, <2>2 DEF q
<1>9. CASE Rule[r].condition = "gate"
  <2>1. flagMatch(q, r) <=> \E v \in gateLists(q, r) : HasGate(v, r)
    BY <1>9 DEF flagMatch
  <2>2. Sets(p, r) <=> \E i \in DOMAIN settings : settings[i].flag \in selectors /\ HasGate(settings[i].value, r)
    BY <1>9 DEF Sets, settings
  <2> QED BY <1>7, <2>1, <2>2 DEF q
<1>10. CASE Rule[r].condition = "locked gate"
  <2>1. flagMatch(q, r) <=> \E v \in gateLists(q, r) : HasLocked(v, r)
    BY <1>10 DEF flagMatch
  <2>2. Sets(p, r) <=> \E i \in DOMAIN settings : settings[i].flag \in selectors /\ HasLocked(settings[i].value, r)
    BY <1>10 DEF Sets, settings
  <2> QED BY <1>7, <2>1, <2>2 DEF q
<1>11. CASE Rule[r].condition = "equals"
  <2>1. flagMatch(q, r) <=> Scalar(r) \in gateLists(q, r)
    BY <1>11 DEF flagMatch
  <2>2. Sets(p, r) <=> \E i \in DOMAIN settings : settings[i].flag \in selectors /\ settings[i].value = Scalar(r)
    BY <1>11 DEF Sets, settings
  <2> QED BY <1>7, <2>1, <2>2 DEF q
<1> QED BY <1>2, <1>8, <1>9, <1>10, <1>11

LEMMA FieldsMatch ==
  ASSUME NEW n, NEW r \in Rules
  PROVE  kubeletMatch(cluster.nodes[n], r) <=> Holds(n, r)
<1> DEFINE config == cluster.nodes[n]
           fields == Rule[r].selectors \cap DOMAIN config
<1>1. Rule[r].condition \in {"present", "absent", "equals", "gate", "locked gate"}
  BY RulesAssumption
<1>2. CASE Rule[r].condition = "present"
  BY <1>2 DEF kubeletMatch, Holds
<1>3. CASE Rule[r].condition = "absent"
  BY <1>3 DEF kubeletMatch, Holds
<1>4. CASE Rule[r].condition = "equals"
  BY <1>4 DEF kubeletMatch, Holds
<1>5. CASE Rule[r].condition = "gate"
  BY <1>5 DEF kubeletMatch, Holds
<1>6. CASE Rule[r].condition = "locked gate"
  BY <1>6 DEF kubeletMatch, Holds
<1> QED BY <1>1, <1>2, <1>3, <1>4, <1>5, <1>6

(* A rule matches names that can be counted, each for the reason it states. *)
LEMMA MatchedAre ==
  ASSUME BreakersTypes, SpelledSomehow, NEW r \in Rules
  PROVE  /\ Matched(r) \in SUBSET Nat /\ IsFiniteSet(Matched(r))
         /\ Rule[r].source = "flag" =>
              /\ Matched(r) = {p \in ControlPlanePods : Refuses(p, r)}
         /\ Rule[r].source # "flag" => Matched(r) = {n \in answered : Holds(n, r)}
<1>1. cluster \in Clusters
  BY DEF BreakersTypes
<1>2. \A D \in {DOMAIN cluster.pods, DOMAIN cluster.nodes} : IsFiniteSet(D) /\ D \subseteq Nat
  BY <1>1, ClustersAssumption
<1>3. ControlPlanePods \subseteq DOMAIN cluster.pods /\ answered \subseteq DOMAIN cluster.nodes
  BY DEF ControlPlanePods, BreakersTypes
<1>4. CASE Rule[r].source = "flag"
  <2>1. \A p \in ControlPlanePods : flagMatch(args[p], r) <=> Sets(p, r)
    BY <1>1, <1>3, <1>4, FlagsMatch
  <2>2. Matched(r) = {p \in ControlPlanePods : Refuses(p, r)}
    BY <1>4, <2>1 DEF Matched, Refuses
  <2>3. Matched(r) \in SUBSET DOMAIN cluster.pods
    BY <1>3, <2>2
  <2> QED BY <1>2, <1>4, <2>2, <2>3, FS_Subset
<1>5. CASE Rule[r].source # "flag"
  <2>1. Matched(r) = {n \in answered : Holds(n, r)}
    BY <1>5, FieldsMatch DEF Matched
  <2>2. Matched(r) \in SUBSET DOMAIN cluster.nodes
    BY <1>3, <2>1
  <2> QED BY <1>2, <1>5, <2>1, <2>2, FS_Subset
<1> QED BY <1>4, <1>5

(* A finding states the stage of its rule and names or counts all it met.   *)
LEMMA BuiltIs ==
  ASSUME BreakersTypes, SpelledSomehow, NEW r \in Rules, Matched(r) # {}, Tier(r) # "none"
  PROVE  LET f == Built(r, Matched(r))
         IN  /\ f.rule = r /\ f.tier \in {"breaks", "deprecated"}
             /\ f.tier = "breaks" <=> Reached(Rule[r].applies)
             /\ f.tier = "deprecated" => Reached(Rule[r].deprecated)
             /\ f.severity = Known(IF f.tier = "breaks" THEN Rule[r].severity ELSE Rule[r].softer)
             /\ f.on # {} /\ f.on \subseteq Matched(r) /\ f.count >= Cardinality(f.on)
             /\ \A x \in Matched(r) : x \in f.on \/ f.count > Cardinality(f.on)
<1>1. Matched(r) \in SUBSET Nat /\ IsFiniteSet(Matched(r))
  BY MatchedAre
<1>2. /\ capNamed(Matched(r)) # {} /\ capNamed(Matched(r)) \subseteq Matched(r)
      /\ Cardinality(Matched(r)) >= Cardinality(capNamed(Matched(r)))
      /\ \A x \in Matched(r) :
           x \in capNamed(Matched(r)) \/ Cardinality(Matched(r)) > Cardinality(capNamed(Matched(r)))
  BY <1>1, SomebodyNamed
<1>3. /\ Tier(r) \in {"breaks", "deprecated"}
      /\ Tier(r) = "breaks" <=> Reached(Rule[r].applies)
      /\ Tier(r) = "deprecated" => Reached(Rule[r].deprecated)
  BY DEF Tier
<1>4. /\ Built(r, Matched(r)).rule = r /\ Built(r, Matched(r)).tier = Tier(r)
      /\ Built(r, Matched(r)).on = capNamed(Matched(r))
      /\ Built(r, Matched(r)).count = Cardinality(Matched(r))
      /\ Built(r, Matched(r)).severity =
           Known(IF Tier(r) = "breaks" THEN Rule[r].severity ELSE Rule[r].softer)
  BY DEF Built
<1> QED BY <1>2, <1>3, <1>4

LEMMA ConfigsKeep == ASSUME BreakersInv, AnalyzeConfigs PROVE BreakersInv'
<1> USE DEF BreakersInv
<1>1. /\ stage = "settings" /\ stage' = "volumes"
      /\ UNCHANGED <<cluster, path, args, read, answered, volumes>>
  BY DEF AnalyzeConfigs, world
<1>2. /\ configs'.findings = {Built(r, Matched(r)) : r \in {q \in Rules : Matched(q) # {} /\ Tier(q) # "none"}}
      /\ configs'.flags = IF HaveControlPlane THEN Row("complete", {}) ELSE Row("unavailable", unsettledFlagRules)
      /\ configs'.kubelets = IF answered = {} THEN Row("unavailable", RulesOf("kubelet"))
                             ELSE Row(IF answered = DOMAIN cluster.nodes THEN "complete" ELSE "partial", {})
      /\ configs'.assessed = (HaveControlPlane /\ answered # {})
  BY DEF AnalyzeConfigs
<1>3. BreakersTypes /\ SpelledSomehow
  OBVIOUS
<1>4. BreakersTypes' /\ SpelledSomehow'
  BY <1>1 DEF BreakersTypes, SpelledSomehow
<1>5. /\ \A minor : Reached(minor)' <=> Reached(minor)
      /\ \A p, r : Refuses(p, r)' <=> Refuses(p, r)
      /\ \A n, r : Holds(n, r)' <=> Holds(n, r)
      /\ \A r : Warns(r)' <=> Warns(r)
  BY <1>1 DEF Reached, Refuses, Sets, Holds, Warns
<1>6. \A f \in configs'.findings :
        \E r \in Rules : Matched(r) # {} /\ Tier(r) # "none" /\ f = Built(r, Matched(r))
  BY <1>2
<1>7. ConfigFindingsTyped'
  <2> SUFFICES ASSUME NEW f \in configs'.findings
               PROVE  /\ f.rule \in Rules /\ f.tier \in {"breaks", "deprecated"}
                      /\ f.on # {} /\ f.count >= Cardinality(f.on)
    BY DEF ConfigFindingsTyped
  <2>1. PICK r \in Rules : Matched(r) # {} /\ Tier(r) # "none" /\ f = Built(r, Matched(r))
    BY <1>6
  <2> QED BY <1>3, <2>1, BuiltIs
<1>8. ConfigAlarmsTrue'
  <2> SUFFICES ASSUME NEW f \in configs'.findings
               PROVE  /\ f.tier = "breaks" <=> Reached(Rule[f.rule].applies)
                      /\ f.tier = "deprecated" => Reached(Rule[f.rule].deprecated)
                      /\ \A x \in f.on :
                           IF Rule[f.rule].source = "flag" THEN Refuses(x, f.rule) ELSE Holds(x, f.rule)
    BY <1>5 DEF ConfigAlarmsTrue
  <2>1. PICK r \in Rules : Matched(r) # {} /\ Tier(r) # "none" /\ f = Built(r, Matched(r))
    BY <1>6
  <2>2. /\ f.rule = r /\ f.on \subseteq Matched(r)
        /\ f.tier = "breaks" <=> Reached(Rule[r].applies)
        /\ f.tier = "deprecated" => Reached(Rule[r].deprecated)
    BY <1>3, <2>1, BuiltIs
  <2>3. \A x \in Matched(r) : IF Rule[r].source = "flag" THEN Refuses(x, r) ELSE Holds(x, r)
    BY <1>3, MatchedAre
  <2> QED BY <2>2, <2>3
<1>9. ASSUME NEW r \in Rules, NEW x \in Matched(r), Warns(r)
      PROVE  FindingNames(r, x)'
  <2>1. Tier(r) # "none"
    BY <1>9 DEF Tier, Warns
  <2> DEFINE f == Built(r, Matched(r))
  <2>2. f \in configs'.findings
    BY <1>2, <2>1
  <2>3. /\ f.rule = r /\ (x \in f.on \/ f.count > Cardinality(f.on))
        /\ f.tier = "breaks" <=> Reached(Rule[r].applies)
        /\ f.severity = Known(IF f.tier = "breaks" THEN Rule[r].severity ELSE Rule[r].softer)
    BY <1>3, <2>1, BuiltIs
  <2> HIDE DEF f
  <2> QED BY <1>5, <2>2, <2>3 DEF FindingNames, AsHeavy, Known, KnownSeverities
<1>10. ASSUME NEW r \in RulesOf("flag"), NEW p \in DOMAIN cluster.pods, Warns(r), Refuses(p, r)
       PROVE  \/ FindingNames(r, p)'
              \/ configs'.flags.state = "unavailable" /\ (r \in configs'.flags.skipped \/ ~cluster.pods[p].visible)
              \/ ~cluster.pods[p].visible /\ OtherSeen
  <2>1. r \in Rules /\ Rule[r].source = "flag"
    BY DEF RulesOf
  <2>2. CASE p \in ControlPlanePods
    <3>1. p \in Matched(r)
      BY <1>3, <1>10, <2>1, <2>2, MatchedAre
    <3> QED BY <1>9, <1>10, <2>1, <3>1
  <2>3. CASE "pods" \notin read
    <3>1. ControlPlanePods = {}
      BY <2>3 DEF ControlPlanePods
    <3>2. ~HaveControlPlane /\ r \in unsettledFlagRules
      BY <3>1 DEF HaveControlPlane, unsettledFlagRules
    <3> QED BY <1>2, <3>2 DEF Row
  <2>4. CASE "pods" \in read /\ p \notin ControlPlanePods
    <3>1. ~cluster.pods[p].visible
      BY <2>4 DEF ControlPlanePods
    <3>2. CASE HaveControlPlane
      BY <2>4, <3>1, <3>2 DEF HaveControlPlane, ControlPlanePods, IsControlPlane, OtherSeen
    <3>3. CASE ~HaveControlPlane
      BY <1>2, <3>1, <3>3 DEF Row
    <3> QED BY <3>2, <3>3
  <2> QED BY <2>2, <2>3, <2>4
<1>11. ASSUME NEW r \in RulesOf("kubelet"), NEW n \in DOMAIN cluster.nodes, Warns(r), Holds(n, r)
       PROVE  FindingNames(r, n)' \/ (n \notin answered /\ configs'.kubelets.state # "complete")
  <2>1. r \in Rules /\ Rule[r].source # "flag"
    BY DEF RulesOf
  <2>2. CASE n \in answered
    <3>1. n \in Matched(r)
      BY <1>3, <1>11, <2>1, <2>2, MatchedAre
    <3> QED BY <1>9, <1>11, <2>1, <3>1
  <2>3. CASE n \notin answered
    BY <1>2, <2>3 DEF Row
  <2> QED BY <2>2, <2>3
<1>12. ConfigsReported'
  <2>1. SettingsShow'
    <3>1. \A r \in RulesOf("flag"), p \in DOMAIN cluster.pods :
            Warns(r)' /\ Refuses(p, r)' =>
              \/ FindingNames(r, p)'
              \/ configs'.flags.state = "unavailable" /\ (r \in configs'.flags.skipped \/ ~cluster.pods[p].visible)
              \/ ~cluster.pods[p].visible /\ OtherSeen'
      BY <1>1, <1>5, <1>10 DEF OtherSeen
    <3>2. \A r \in RulesOf("kubelet"), n \in DOMAIN cluster.nodes :
            Warns(r)' /\ Holds(n, r)' =>
              FindingNames(r, n)' \/ (n \notin answered' /\ configs'.kubelets.state # "complete")
      BY <1>1, <1>5, <1>11
    <3> QED BY <1>1, <3>1, <3>2 DEF SettingsShow
  <2>2. configs'.flags.state = "unavailable" \/ configs'.flags.skipped = {}
    BY <1>2 DEF Row
  <2>3. configs'.assessed <=> "unavailable" \notin {configs'.flags.state, configs'.kubelets.state}
    <3>1. configs'.flags.state = IF HaveControlPlane THEN "complete" ELSE "unavailable"
      BY <1>2 DEF Row
    <3>2. configs'.kubelets.state = "unavailable" <=> answered = {}
      BY <1>2 DEF Row
    <3> QED BY <1>2, <3>1, <3>2
  <2> QED BY <2>1, <2>2, <2>3 DEF ConfigsReported
<1>13. VolumeAlarmsTrue' /\ VolumesReported'
  BY <1>1 DEF VolumeAlarmsTrue, VolumesReported
<1> QED BY <1>1, <1>4, <1>7, <1>8, <1>12, <1>13

-----------------------------------------------------------------------------
(* The report of volumes: the first PluginCap findings in the order of the  *)
(* report, the kind that was looked at first standing for its namesakes.    *)

(* The findings a set of uses can hold.                                     *)
Kept(F) ==
  /\ \A f \in F :
       /\ f.fate \in {"deprecated", "migrated", "removed"} /\ f.key \in Nat /\ f.name \in Nat
       /\ f.kind \in DOMAIN Place
  /\ \A f, g \in F : SameRow(f, g) /\ f.kind = g.kind => f = g

Preds(D, d) == Cardinality({g \in D : Before(g, d)})

LEMMA OrderOfRows ==
  ASSUME NEW F, Kept(F), NEW f \in F, NEW g \in F
  PROVE  /\ ~Before(f, f)
         /\ Before(f, g) \/ Before(g, f) \/ SameRow(f, g)
         /\ \A h \in F : Before(f, g) /\ Before(g, h) => Before(f, h)
<1>1. \A x \in F : x.fate \in {"deprecated", "migrated", "removed"} /\ x.key \in Nat /\ x.name \in Nat
  BY DEF Kept
<1>2. \A x \in F : FateOrder[x.fate] \in Nat
  BY <1>1 DEF FateOrder
<1>3. \A x, y \in F : FateOrder[x.fate] = FateOrder[y.fate] => x.fate = y.fate
  BY <1>1 DEF FateOrder
<1>4. ~Before(f, f)
  BY <1>1, <1>2 DEF Before
<1>5. Before(f, g) \/ Before(g, f) \/ SameRow(f, g)
  BY <1>1, <1>2, <1>3 DEF Before, SameRow
<1>6. ASSUME NEW h \in F, Before(f, g), Before(g, h)
      PROVE  Before(f, h)
  <2>1. /\ FateOrder[f.fate] \in Nat /\ FateOrder[g.fate] \in Nat /\ FateOrder[h.fate] \in Nat
        /\ f.key \in Nat /\ g.key \in Nat /\ h.key \in Nat
        /\ f.name \in Nat /\ g.name \in Nat /\ h.name \in Nat
    BY <1>1, <1>2
  <2> QED BY <1>6, <2>1 DEF Before
<1> QED BY <1>4, <1>5, <1>6

(* One finding stands for all of a row.                                     *)
LEMMA RowHasOne ==
  ASSUME NEW F, Kept(F), NEW u \in F
  PROVE  /\ \E d \in distinct(F) : SameRow(d, u)
         /\ \A f, g \in distinct(F) : f # g => ~SameRow(f, g)
         /\ Kept(distinct(F))
<1>1. \A f \in F : Place[f.kind] \in Nat
  BY DEF Kept, Place
<1>2. \A f, g \in F : Place[f.kind] = Place[g.kind] => f.kind = g.kind
  BY DEF Kept, Place
<1> DEFINE Places == {Place[g.kind] : g \in {h \in F : SameRow(h, u)}}
<1>3. SameRow(u, u)
  BY DEF SameRow
<1>4. Places \in SUBSET Nat /\ Places # {}
  BY <1>1, <1>3
<1>5. PICK m \in Places : \A k \in Places : m <= k
  BY <1>4, LeastNumber
<1>6. PICK d \in F : SameRow(d, u) /\ Place[d.kind] = m
  BY <1>5
<1>7. ASSUME NEW g \in F, SameRow(d, g), Place[g.kind] < Place[d.kind]
      PROVE  FALSE
  <2>1. SameRow(g, u)
    BY <1>6, <1>7 DEF SameRow
  <2>2. m <= Place[g.kind]
    BY <1>5, <2>1
  <2> QED BY <1>1, <1>6, <1>7, <2>2
<1>8. d \in distinct(F)
  BY <1>6, <1>7 DEF distinct
<1>9. ASSUME NEW f \in distinct(F), NEW g \in distinct(F), f # g, SameRow(f, g)
      PROVE  FALSE
  <2>1. f \in F /\ g \in F /\ ~(Place[g.kind] < Place[f.kind]) /\ ~(Place[f.kind] < Place[g.kind])
    BY <1>9 DEF distinct, SameRow
  <2>2. Place[f.kind] = Place[g.kind]
    BY <1>1, <2>1
  <2>3. f.kind = g.kind
    BY <1>2, <2>1, <2>2
  <2> QED BY <1>9, <2>1, <2>3 DEF Kept
<1>10. Kept(distinct(F))
  BY DEF Kept, distinct
<1> QED BY <1>6, <1>8, <1>9, <1>10

(* When a finding has N before it, exactly N have fewer: ranks in a total   *)
(* order are the numbers from 0.                                            *)
LEMMA FirstOfOrder ==
  ASSUME NEW D, IsFiniteSet(D), Kept(D), \A f, g \in D : f # g => ~SameRow(f, g),
         NEW N \in Nat, NEW d \in D, ~(Preds(D, d) < N)
  PROVE  Cardinality({f \in D : Preds(D, f) < N}) = N
<1> DEFINE n == Cardinality(D)
           rank == [f \in D |-> Preds(D, f)]
           K == {f \in D : Preds(D, f) < N}
           first == [f \in K |-> Preds(D, f)]
<1>1. n \in Nat
  BY FS_CardinalityType
<1>2. ASSUME NEW f \in D
      PROVE  Preds(D, f) \in Nat /\ Preds(D, f) < n
  <2> DEFINE B == {g \in D : Before(g, f)}
  <2>1. B \subseteq D /\ f \notin B
    BY OrderOfRows
  <2>2. IsFiniteSet(B) /\ Cardinality(B) <= n /\ (Cardinality(B) = n => B = D)
    BY <2>1, FS_Subset
  <2>3. Cardinality(B) \in Nat
    BY <2>2, FS_CardinalityType
  <2> QED BY <1>1, <2>1, <2>2, <2>3 DEF Preds
<1>3. ASSUME NEW f \in D, NEW g \in D, Before(f, g)
      PROVE  Preds(D, f) < Preds(D, g)
  <2> DEFINE A == {h \in D : Before(h, f)}
             B == {h \in D : Before(h, g)}
  <2>1. A \subseteq B /\ f \in B /\ f \notin A
    BY <1>3, OrderOfRows
  <2>2. IsFiniteSet(B)
    BY FS_Subset
  <2>3. Cardinality(A) <= Cardinality(B) /\ (Cardinality(A) = Cardinality(B) => A = B)
    BY <2>1, <2>2, FS_Subset
  <2>4. Cardinality(A) = Preds(D, f) /\ Cardinality(B) = Preds(D, g)
    BY DEF Preds
  <2>5. Preds(D, f) \in Nat /\ Preds(D, g) \in Nat
    BY <1>2
  <2> HIDE DEF A, B
  <2> QED BY <2>1, <2>3, <2>4, <2>5
<1>4. \A f, g \in D : Preds(D, f) = Preds(D, g) => f = g
  <2> SUFFICES ASSUME NEW f \in D, NEW g \in D, Preds(D, f) = Preds(D, g), f # g PROVE FALSE
    OBVIOUS
  <2>1. Before(f, g) \/ Before(g, f)
    BY OrderOfRows
  <2>2. Preds(D, f) \in Nat
    BY <1>2
  <2> QED BY <1>3, <2>1, <2>2
<1>5. rank \in Injection(D, 0 .. (n - 1))
  BY <1>1, <1>2, <1>4 DEF Injection, IsInjective
<1>6. IsFiniteSet(0 .. (n - 1)) /\ Cardinality(0 .. (n - 1)) = n
  <2>1. 0 \in Int /\ n - 1 \in Int /\ (IF 0 > n - 1 THEN 0 ELSE (n - 1) - 0 + 1) = n
    BY <1>1
  <2> QED BY <2>1, FS_Interval
<1>7. rank \in Surjection(D, 0 .. (n - 1))
  BY <1>5, <1>6, FS_Injection
<1>8. \A i \in 0 .. (n - 1) : \E f \in D : Preds(D, f) = i
  BY <1>7 DEF Surjection
<1>9. N \in 0 .. (n - 1)
  <2>1. Preds(D, d) \in Nat /\ Preds(D, d) < n
    BY <1>2
  <2> QED BY <1>1, <2>1
<1>10. first \in Injection(K, 0 .. (N - 1))
  BY <1>2, <1>4 DEF Injection, IsInjective
<1>11. first \in Surjection(K, 0 .. (N - 1))
  <2>1. \A i \in 0 .. (N - 1) : \E f \in K : Preds(D, f) = i
    <3> SUFFICES ASSUME NEW i \in 0 .. (N - 1) PROVE \E f \in K : Preds(D, f) = i
      OBVIOUS
    <3>1. i \in 0 .. (n - 1) /\ i < N
      BY <1>1, <1>9
    <3>2. PICK f \in D : Preds(D, f) = i
      BY <1>8, <3>1
    <3> QED BY <3>1, <3>2
  <2>2. first \in [K -> 0 .. (N - 1)]
    BY <1>10 DEF Injection
  <2> QED BY <2>1, <2>2 DEF Surjection
<1>12. IsFiniteSet(K)
  BY FS_Subset
<1>13. Cardinality(0 .. (N - 1)) = Cardinality(K)
  BY <1>10, <1>11, <1>12, FS_Surjection
<1>14. Cardinality(0 .. (N - 1)) = N
  <2>1. 0 \in Int /\ N - 1 \in Int /\ (IF 0 > N - 1 THEN 0 ELSE (N - 1) - 0 + 1) = N
    OBVIOUS
  <2> QED BY <2>1, FS_Interval
<1> QED BY <1>13, <1>14

(* A finding is in the report, or the report is full of earlier ones.       *)
LEMMA InReportOrFull ==
  ASSUME NEW F, IsFiniteSet(F), Kept(F), NEW u \in F
  PROVE  \E d \in distinct(F) :
           /\ SameRow(d, u)
           /\ \/ d \in dedupe(F)
              \/ Cardinality(dedupe(F)) = PluginCap /\ \A f \in dedupe(F) : ~Before(d, f)
<1> DEFINE D == distinct(F)
<1>1. PICK d \in D : SameRow(d, u)
  BY RowHasOne
<1>2. IsFiniteSet(D) /\ Kept(D) /\ \A f, g \in D : f # g => ~SameRow(f, g)
  <2>1. D \subseteq F
    BY DEF distinct
  <2> QED BY <2>1, RowHasOne, FS_Subset
<1>3. dedupe(F) = {f \in D : Preds(D, f) < PluginCap}
  BY DEF dedupe, Preds
<1>4. CASE d \in dedupe(F)
  BY <1>1, <1>4
<1>5. CASE d \notin dedupe(F)
  <2> HIDE DEF D
  <2>1. ~(Preds(D, d) < PluginCap)
    BY <1>3, <1>5
  <2>2. PluginCap \in Nat
    BY PluginsAssumption
  <2>3. Cardinality(dedupe(F)) = PluginCap
    BY <1>2, <1>3, <2>1, <2>2, FirstOfOrder
  <2>4. ASSUME NEW f \in dedupe(F), Before(d, f)
        PROVE  FALSE
    <3>1. f \in D /\ Preds(D, f) < PluginCap
      BY <1>3
    <3> DEFINE A == {h \in D : Before(h, d)}
               B == {h \in D : Before(h, f)}
    <3>2. A \subseteq B
      BY <1>2, <2>4, <3>1, OrderOfRows
    <3>3. IsFiniteSet(A) /\ IsFiniteSet(B) /\ Cardinality(A) <= Cardinality(B)
      BY <1>2, <3>2, FS_Subset
    <3>4. Cardinality(A) \in Nat /\ Cardinality(B) \in Nat
      BY <3>3, FS_CardinalityType
    <3>5. Cardinality(A) = Preds(D, d) /\ Cardinality(B) = Preds(D, f)
      BY DEF Preds
    <3> HIDE DEF A, B
    <3> QED BY <2>1, <2>2, <3>1, <3>3, <3>4, <3>5
  <2> QED BY <1>1, <2>3, <2>4 DEF D
<1> QED BY <1>4, <1>5

(* A plugin the target drops is one whose break is reached.                 *)
LEMMA DroppedIsReached ==
  ASSUME BreakersTypes, NEW k \in Plugins
  PROVE  /\ Dropped(k) <=> Reached(BreakIn(k))
         /\ Fate(k) \in {"none", "deprecated", "migrated", "removed"}
         /\ Fate(k) \in {"migrated", "removed"} <=> Dropped(k)
         /\ Fate(k) = "migrated" => Plugin[k].driver \in cluster.drivers
         /\ Fate(k) = "removed" /\ "storage" \in read => Plugin[k].driver \notin cluster.drivers
<1>1. /\ Plugin[k].disabled \in Nat /\ Plugin[k].removed \in Nat
      /\ 0 \notin {Plugin[k].disabled, Plugin[k].removed} => Plugin[k].disabled <= Plugin[k].removed
  BY PluginsAssumption
<1>2. path.target \in Nat
  BY PathsAssumption DEF BreakersTypes
<1>3. NoName \notin cluster.drivers
  BY ClustersAssumption DEF BreakersTypes
<1>4. Dropped(k) <=> Reached(BreakIn(k))
  <2>1. CASE Plugin[k].disabled = 0
    BY <2>1 DEF Dropped, Reached, BreakIn
  <2>2. CASE Plugin[k].disabled # 0
    <3>1. Plugin[k].removed # 0 => Plugin[k].disabled <= Plugin[k].removed
      BY <1>1, <2>2
    <3>2. Reached(Plugin[k].removed) => Reached(Plugin[k].disabled)
      BY <1>1, <1>2, <2>2, <3>1 DEF Reached
    <3> QED BY <2>2, <3>2 DEF Dropped, BreakIn
  <2> QED BY <2>1, <2>2
<1>5. Fate(k) \in {"none", "deprecated", "migrated", "removed"}
  BY DEF Fate
<1>6. Fate(k) \in {"migrated", "removed"} <=> Reached(BreakIn(k))
  BY DEF Fate
<1>7. Fate(k) = "migrated" => Plugin[k].driver \in cluster.drivers
  BY DEF Fate, servedByMigration
<1>8. Fate(k) = "removed" /\ "storage" \in read => Plugin[k].driver \notin cluster.drivers
  BY <1>3 DEF Fate, servedByMigration
<1> QED BY <1>4, <1>5, <1>6, <1>7, <1>8

LEMMA UsesAre ==
  ASSUME BreakersTypes
  PROVE  /\ IsFiniteSet(Uses) /\ Kept(Uses)
         /\ \A u : u \in Uses <=>
              \E o \in InventoryObjects : \E k \in cluster.objects[o].keys \cap Plugins :
                Fate(k) # "none" /\ u = Use(o, k)
<1>1. \A u : u \in Uses <=>
        \E o \in InventoryObjects : \E k \in cluster.objects[o].keys \cap Plugins :
          Fate(k) # "none" /\ u = Use(o, k)
  BY DEF Uses
<1>2. /\ IsFiniteSet(DOMAIN cluster.objects)
      /\ \A o \in DOMAIN cluster.objects : cluster.objects[o].name \in Nat
  BY ClustersAssumption DEF BreakersTypes
<1>3. IsFiniteSet(Plugins) /\ Plugins \subseteq Nat
  BY PluginsAssumption
<1>4. InventoryObjects \subseteq DOMAIN cluster.objects
  BY DEF InventoryObjects
<1>5. IsFiniteSet(Uses)
  <2> DEFINE Pairs == (DOMAIN cluster.objects) \X Plugins
             all == [x \in Pairs |-> Use(x[1], x[2])]
             range == {all[x] : x \in Pairs}
  <2>1. IsFiniteSet(Pairs)
    BY <1>2, <1>3, FS_Product
  <2>2. all \in Surjection(Pairs, range)
    BY DEF Surjection
  <2>3. IsFiniteSet(range)
    BY <2>1, <2>2, FS_Surjection
  <2>4. Uses \subseteq range
    <3> SUFFICES ASSUME NEW u \in Uses PROVE u \in range
      OBVIOUS
    <3>1. PICK o \in InventoryObjects : \E k \in cluster.objects[o].keys \cap Plugins : u = Use(o, k)
      BY <1>1
    <3>2. PICK k \in Plugins : u = Use(o, k)
      BY <3>1
    <3>3. <<o, k>> \in Pairs /\ all[<<o, k>>] = u
      BY <1>4, <3>2
    <3> QED BY <3>3
  <2> QED BY <2>3, <2>4, FS_Subset
<1>6. ASSUME NEW u \in Uses
      PROVE  \E o \in InventoryObjects, k \in Plugins :
               /\ u.fate = Fate(k) /\ u.fate \in {"deprecated", "migrated", "removed"}
               /\ u.key = k /\ u.name = cluster.objects[o].name /\ u.kind = cluster.objects[o].kind
               /\ u.severity = PluginSeverity(k)
               /\ u.past = (Fate(k) # "deprecated" /\ AlreadyBroken(k))
               /\ u = [fate |-> u.fate, key |-> u.key, name |-> u.name, kind |-> u.kind,
                       severity |-> u.severity, past |-> u.past]
  <2>1. PICK o \in InventoryObjects : \E k \in cluster.objects[o].keys \cap Plugins :
               Fate(k) # "none" /\ u = Use(o, k)
    BY <1>1
  <2>2. PICK k \in Plugins : Fate(k) # "none" /\ u = Use(o, k)
    BY <2>1
  <2>3. Fate(k) \in {"deprecated", "migrated", "removed"}
    BY <2>2, DroppedIsReached
  <2> DEFINE past == Fate(k) # "deprecated" /\ AlreadyBroken(k)
  <2>4. u = [fate |-> Fate(k), key |-> k, name |-> cluster.objects[o].name, kind |-> cluster.objects[o].kind,
             severity |-> PluginSeverity(k), past |-> past]
    BY <2>2 DEF Use
  <2> HIDE DEF past
  <2>5. /\ u.fate = Fate(k) /\ u.key = k /\ u.name = cluster.objects[o].name
        /\ u.kind = cluster.objects[o].kind /\ u.severity = PluginSeverity(k) /\ u.past = past
    BY <2>4
  <2> QED BY <2>3, <2>4, <2>5 DEF past
<1>7. Kept(Uses)
  <2>1. ASSUME NEW f \in Uses
        PROVE  /\ f.fate \in {"deprecated", "migrated", "removed"} /\ f.key \in Nat /\ f.name \in Nat
               /\ f.kind \in DOMAIN Place
    <3>1. PICK o \in InventoryObjects, k \in Plugins :
            /\ f.fate \in {"deprecated", "migrated", "removed"}
            /\ f.key = k /\ f.name = cluster.objects[o].name /\ f.kind = cluster.objects[o].kind
      BY <1>6
    <3>2. f.kind \in DOMAIN ListOf
      BY <3>1 DEF InventoryObjects
    <3>3. DOMAIN Place = DOMAIN ListOf
      BY DEF Place, ListOf
    <3> QED BY <1>2, <1>3, <1>4, <3>1, <3>2, <3>3
  <2>2. ASSUME NEW f \in Uses, NEW g \in Uses, SameRow(f, g), f.kind = g.kind
        PROVE  f = g
    <3>1. f.fate = g.fate /\ f.key = g.key /\ f.name = g.name
      BY <2>2 DEF SameRow
    <3>2. f.severity = g.severity /\ f.past = g.past
      BY <1>6, <3>1
    <3>3. /\ f = [fate |-> f.fate, key |-> f.key, name |-> f.name, kind |-> f.kind,
                  severity |-> f.severity, past |-> f.past]
          /\ g = [fate |-> g.fate, key |-> g.key, name |-> g.name, kind |-> g.kind,
                  severity |-> g.severity, past |-> g.past]
      BY <1>6
    <3> QED BY <2>2, <3>1, <3>2, <3>3
  <2> QED BY <2>1, <2>2 DEF Kept
<1> QED BY <1>1, <1>5, <1>7

(* What a use says of its plugin and of its object.                         *)
LEMMA UseIsTrue ==
  ASSUME BreakersTypes, NEW f \in Uses
  PROVE  /\ \E o \in DOMAIN cluster.objects :
              cluster.objects[o].name = f.name /\ cluster.objects[o].kind = f.kind /\ f.key \in cluster.objects[o].keys
         /\ f.fate \in {"removed", "migrated"} <=> Dropped(f.key)
         /\ f.fate = "migrated" => Plugin[f.key].driver \in cluster.drivers
         /\ f.fate = "removed" /\ "storage" \in read => Plugin[f.key].driver \notin cluster.drivers
         /\ f.past => \E minor \in {Plugin[f.key].disabled, Plugin[f.key].removed} :
                        minor # 0 /\ minor <= path.current
         /\ f.fate = "removed" => f.severity = Known(Plugin[f.key].severity)
<1>1. PICK o \in InventoryObjects : \E k \in cluster.objects[o].keys \cap Plugins :
        Fate(k) # "none" /\ f = Use(o, k)
  BY UsesAre
<1>2. PICK k \in cluster.objects[o].keys \cap Plugins : Fate(k) # "none" /\ f = Use(o, k)
  BY <1>1
<1>3. /\ f.fate = Fate(k) /\ f.key = k /\ f.name = cluster.objects[o].name
      /\ f.kind = cluster.objects[o].kind /\ f.severity = PluginSeverity(k)
  BY <1>2 DEF Use
<1>7. Fate(k) = "removed" => PluginSeverity(k) = Known(Plugin[k].severity)
  BY DEF PluginSeverity
<1>4. f.past => Fate(k) # "deprecated" /\ AlreadyBroken(k)
  <2> DEFINE past == Fate(k) # "deprecated" /\ AlreadyBroken(k)
  <2>1. f = [fate |-> Fate(k), key |-> k, name |-> cluster.objects[o].name, kind |-> cluster.objects[o].kind,
             severity |-> PluginSeverity(k), past |-> past]
    BY <1>2 DEF Use
  <2> HIDE DEF past
  <2>2. f.past = past
    BY <2>1
  <2> QED BY <2>2 DEF past
<1>5. o \in DOMAIN cluster.objects
  BY DEF InventoryObjects
<1>6. f.past => \E minor \in {Plugin[k].disabled, Plugin[k].removed} : minor # 0 /\ minor <= path.current
  <2> SUFFICES ASSUME f.past
               PROVE  \E minor \in {Plugin[k].disabled, Plugin[k].removed} : minor # 0 /\ minor <= path.current
    OBVIOUS
  <2>1. Reached(BreakIn(k)) /\ path.current >= BreakIn(k)
    BY <1>2, <1>4, DroppedIsReached DEF AlreadyBroken
  <2>2. BreakIn(k) \in {Plugin[k].disabled, Plugin[k].removed} /\ BreakIn(k) # 0
    BY <2>1 DEF BreakIn, Reached
  <2>3. BreakIn(k) \in Nat /\ path.current \in Nat
    BY <2>2, PluginsAssumption, PathsAssumption DEF BreakersTypes
  <2> QED BY <2>1, <2>2, <2>3
<1> QED BY <1>2, <1>3, <1>5, <1>6, <1>7, DroppedIsReached

(* What was said of settings stays said.                                    *)
LEMMA SettingsStay ==
  ASSUME UNCHANGED <<cluster, path, answered, configs>>
  PROVE  /\ ConfigFindingsTyped' <=> ConfigFindingsTyped
         /\ ConfigAlarmsTrue' <=> ConfigAlarmsTrue
         /\ SettingsShow' <=> SettingsShow
<1>1. cluster' = cluster /\ path' = path /\ answered' = answered /\ configs' = configs
  OBVIOUS
<1>2. /\ \A minor : Reached(minor)' <=> Reached(minor)
      /\ \A p, r : Refuses(p, r)' <=> Refuses(p, r)
      /\ \A n, r : Holds(n, r)' <=> Holds(n, r)
      /\ \A r : Warns(r)' <=> Warns(r)
      /\ OtherSeen' <=> OtherSeen
  BY <1>1 DEF Reached, Refuses, Sets, Holds, Warns, OtherSeen
<1>3. \A r, x : FindingNames(r, x)' <=> FindingNames(r, x)
  BY <1>1, <1>2 DEF FindingNames, AsHeavy
<1>4. ConfigFindingsTyped' <=> ConfigFindingsTyped
  BY <1>1 DEF ConfigFindingsTyped
<1>5. ConfigAlarmsTrue' <=> ConfigAlarmsTrue
  BY <1>1, <1>2 DEF ConfigAlarmsTrue
<1>6. SettingsShow' <=> SettingsShow
  BY <1>1, <1>2, <1>3 DEF SettingsShow
<1> QED BY <1>4, <1>5, <1>6

LEMMA VolumesKeep == ASSUME BreakersInv, AnalyzeVolumes PROVE BreakersInv'
<1> USE DEF BreakersInv
<1>1. /\ stage = "volumes" /\ stage' = "done"
      /\ UNCHANGED <<cluster, path, args, read, answered, configs>>
  BY DEF AnalyzeVolumes, world
<1>2. /\ volumes'.findings = dedupe(Uses)
      /\ volumes'.row = IF VolumeLists \cap read = {} THEN "unavailable"
                        ELSE IF VolumeLists \subseteq read THEN "complete" ELSE "partial"
  BY DEF AnalyzeVolumes
<1>3. BreakersTypes /\ BreakersTypes' /\ SpelledSomehow'
  BY <1>1 DEF BreakersTypes, SpelledSomehow
<1>4. (ConfigFindingsTyped /\ ConfigAlarmsTrue)'
  BY <1>1, SettingsStay
<1>5. ConfigsReported'
  BY <1>1, SettingsStay DEF ConfigsReported
<1>6. dedupe(Uses) \subseteq Uses /\ IsFiniteSet(Uses) /\ Kept(Uses)
  BY <1>3, UsesAre DEF dedupe, distinct
<1>7. VolumeAlarmsTrue'
  <2>1. \A k : Dropped(k)' <=> Dropped(k)
    BY <1>1 DEF Dropped, Reached
  <2> QED BY <1>1, <1>2, <1>3, <1>6, <2>1, UseIsTrue DEF VolumeAlarmsTrue
<1>8. ASSUME NEW o \in DOMAIN cluster.objects, NEW k \in cluster.objects[o].keys \cap Plugins, Dropped(k),
             cluster.objects[o].kind # "owned",
             ListOf[cluster.objects[o].kind] \in read \/ volumes'.row = "complete"
      PROVE  \/ \E f \in volumes'.findings :
                  /\ f.key = k /\ f.name = cluster.objects[o].name /\ f.fate \in {"removed", "migrated"}
                  /\ f.fate = "removed" => f.severity = Known(Plugin[k].severity)
             \/ FullBefore(k, cluster.objects[o].name)'
  <2>1. ListOf[cluster.objects[o].kind] \in read \/ VolumeLists \subseteq read
    BY <1>2, <1>8
  <2>2. o \in InventoryObjects
    <3>1. cluster.objects[o].kind \in {"workload", "pod", "volume", "class"}
      BY <1>3, <1>8, ClustersAssumption DEF BreakersTypes
    <3>2. cluster.objects[o].kind \in DOMAIN ListOf /\ ListOf[cluster.objects[o].kind] \in VolumeLists
      BY <3>1 DEF ListOf, VolumeLists
    <3> QED BY <2>1, <3>2 DEF InventoryObjects
  <2> DEFINE u == Use(o, k)
  <2>3. Fate(k) \in {"migrated", "removed"}
    BY <1>3, <1>8, DroppedIsReached
  <2>4. u \in Uses /\ u.fate = Fate(k) /\ u.key = k /\ u.name = cluster.objects[o].name
    <3>1. u \in Uses
      BY <1>3, <2>2, <2>3, UsesAre
    <3> QED BY <3>1 DEF Use
  <2> HIDE DEF u
  <2>5. PICK d \in distinct(Uses) :
          /\ SameRow(d, u)
          /\ \/ d \in dedupe(Uses)
             \/ Cardinality(dedupe(Uses)) = PluginCap /\ \A f \in dedupe(Uses) : ~Before(d, f)
    BY <1>6, <2>4, InReportOrFull
  <2>6. d.key = k /\ d.name = cluster.objects[o].name /\ d.fate = Fate(k)
    BY <2>4, <2>5 DEF SameRow
  <2>7. CASE d \in dedupe(Uses)
    <3>1. d.fate = "removed" => d.severity = Known(Plugin[k].severity)
      BY <1>3, <1>6, <2>6, <2>7, UseIsTrue
    <3> QED BY <1>2, <2>3, <2>6, <2>7, <3>1
  <2>8. CASE Cardinality(dedupe(Uses)) = PluginCap /\ \A f \in dedupe(Uses) : ~Before(d, f)
    <3>1. d \in Uses
      BY DEF distinct
    <3>2. ASSUME NEW f \in dedupe(Uses), f.fate = "removed"
          PROVE  f.key < k \/ (f.key = k /\ f.name <= cluster.objects[o].name)
      <4>1. f \in Uses /\ ~Before(d, f)
        BY <1>6, <2>8
      <4>2. /\ f.key \in Nat /\ f.name \in Nat /\ d.key \in Nat /\ d.name \in Nat
        BY <1>6, <3>1, <4>1 DEF Kept
      <4>3. CASE Fate(k) = "migrated"
        BY <2>6, <3>2, <4>1, <4>3 DEF Before, FateOrder
      <4>4. CASE Fate(k) = "removed"
        <5>1. ~(d.key < f.key) /\ ~(d.key = f.key /\ d.name < f.name)
          BY <2>6, <3>2, <4>1, <4>4 DEF Before
        <5> QED BY <2>6, <4>2, <5>1
      <4> QED BY <2>3, <4>3, <4>4
    <3> QED BY <1>1, <1>2, <2>8, <3>2 DEF FullBefore
  <2> QED BY <2>5, <2>7, <2>8
<1>9. VolumesReported'
  <2>1. VolumesShow'
    <3>1. \A k : Dropped(k)' <=> Dropped(k)
      BY <1>1 DEF Dropped, Reached
    <3>2. \A s, t : AsHeavy(s, t) <=> s = Known(t)
      BY DEF AsHeavy, Known
    <3> QED BY <1>1, <1>8, <3>1, <3>2 DEF VolumesShow
  <2>2. volumes'.row \in {"complete", "partial", "unavailable"}
    BY <1>2
  <2>3. ASSUME volumes'.row = "unavailable"
        PROVE  volumes'.findings = {}
    <3>1. VolumeLists \cap read = {}
      BY <1>2, <2>3
    <3>2. \A t \in DOMAIN ListOf : ListOf[t] \in VolumeLists
      BY DEF ListOf, VolumeLists
    <3>3. InventoryObjects = {}
      BY <3>1, <3>2 DEF InventoryObjects
    <3>4. Uses = {}
      BY <1>3, <3>3, UsesAre
    <3> QED BY <1>2, <1>6, <3>4
  <2> QED BY <2>1, <2>2, <2>3 DEF VolumesReported
<1> QED BY <1>1, <1>3, <1>4, <1>5, <1>7, <1>9

-----------------------------------------------------------------------------
LEMMA BreakersInitHolds == Init => BreakersInv
<1> SUFFICES ASSUME Init PROVE BreakersInv
  OBVIOUS
<1>1. configs.findings = {} /\ volumes.findings = {} /\ stage = "collect"
  BY DEF Init
<1>2. BreakersTypes
  BY DEF Init, BreakersTypes
<1>3. SpelledSomehow
  BY DEF Init, SpelledSomehow
<1>4. ConfigFindingsTyped /\ ConfigAlarmsTrue /\ ConfigsReported /\ VolumeAlarmsTrue /\ VolumesReported
  BY <1>1 DEF ConfigFindingsTyped, ConfigAlarmsTrue, ConfigsReported, VolumeAlarmsTrue, VolumesReported
<1> QED BY <1>1, <1>2, <1>3, <1>4 DEF BreakersInv

(* Before the analyses there is nothing to be wrong about.                  *)
LEMMA ReadsKeep == ASSUME BreakersInv, Collect \/ AskKubelets PROVE BreakersInv'
<1> USE DEF BreakersInv
<1>1. /\ UNCHANGED <<cluster, path, args, configs, volumes>>
      /\ stage \in {"collect", "kubelets"} /\ stage' \in {"kubelets", "settings"}
  BY DEF Collect, AskKubelets, world
<1>2. configs'.findings = {} /\ volumes'.findings = {}
  BY <1>1
<1>3. read' \subseteq Lists /\ answered' \subseteq DOMAIN cluster.nodes
  <2>1. CASE Collect
    BY <2>1 DEF Collect, BreakersTypes
  <2>2. CASE AskKubelets
    BY <2>2 DEF AskKubelets, BreakersTypes
  <2> QED BY <2>1, <2>2
<1>4. BreakersTypes' /\ SpelledSomehow'
  BY <1>1, <1>3 DEF BreakersTypes, SpelledSomehow
<1>5. (ConfigFindingsTyped /\ ConfigAlarmsTrue /\ ConfigsReported /\ VolumeAlarmsTrue /\ VolumesReported)'
  BY <1>1, <1>2 DEF ConfigFindingsTyped, ConfigAlarmsTrue, ConfigsReported, VolumeAlarmsTrue, VolumesReported
<1> QED BY <1>1, <1>2, <1>4, <1>5

LEMMA BreakersStutters == ASSUME BreakersInv, UNCHANGED vars PROVE BreakersInv'
<1>1. UNCHANGED <<cluster, path, args, read, answered, configs, volumes, stage>>
  BY DEF vars, world
<1>2. (BreakersTypes /\ SpelledSomehow)'
  BY <1>1 DEF BreakersInv, BreakersTypes, SpelledSomehow
<1>3. (ConfigFindingsTyped /\ ConfigAlarmsTrue)'
  BY <1>1, SettingsStay DEF BreakersInv
<1>4. ConfigsReported'
  BY <1>1, SettingsStay DEF BreakersInv, ConfigsReported
<1>5. VolumeAlarmsTrue'
  BY <1>1 DEF BreakersInv, VolumeAlarmsTrue, Dropped, Reached
<1>6. VolumesReported'
  BY <1>1 DEF BreakersInv, VolumesReported, VolumesShow, Dropped, Reached, FullBefore
<1> QED BY <1>1, <1>2, <1>3, <1>4, <1>5, <1>6 DEF BreakersInv

LEMMA BreakersInvHolds == Spec => []BreakersInv
<1>1. Init => BreakersInv
  BY BreakersInitHolds
<1>2. BreakersInv /\ [Next]_vars => BreakersInv'
  <2> SUFFICES ASSUME BreakersInv, [Next]_vars PROVE BreakersInv'
    OBVIOUS
  <2>1. CASE Collect \/ AskKubelets
    BY <2>1, ReadsKeep
  <2>2. CASE AnalyzeConfigs
    BY <2>2, ConfigsKeep
  <2>3. CASE AnalyzeVolumes
    BY <2>3, VolumesKeep
  <2>4. CASE UNCHANGED vars
    BY <2>4, BreakersStutters
  <2> QED BY <2>1, <2>2, <2>3, <2>4 DEF Next, Done
<1> QED BY <1>1, <1>2, PTL DEF Spec

(* Every state of the two tiers is well typed, and what their rows say      *)
(* agrees with what was assessed.                                           *)
THEOREM BreakersTypeCorrect == Spec => []TypeOK
<1>1. BreakersInv => TypeOK
  <2> SUFFICES ASSUME BreakersInv PROVE TypeOK
    OBVIOUS
  <2>1. DOMAIN args = DOMAIN cluster.pods
    BY DEF BreakersInv, SpelledSomehow
  <2>2. stage = "done" =>
          /\ configs.flags.state = "unavailable" \/ configs.flags.skipped = {}
          /\ configs.assessed <=> "unavailable" \notin {configs.flags.state, configs.kubelets.state}
          /\ volumes.row \in {"complete", "partial", "unavailable"}
          /\ volumes.row = "unavailable" => volumes.findings = {}
    BY DEF BreakersInv, ConfigsReported, VolumesReported
  <2> QED BY <2>1, <2>2 DEF BreakersInv, BreakersTypes, ConfigFindingsTyped, TypeOK
<1> QED BY <1>1, BreakersInvHolds, PTL

(* A setting the target refuses and a volume it no longer mounts are in a   *)
(* finding of their weight, or were not read and a row says so: for every   *)
(* cluster and catalogue, however long a container's arguments are and      *)
(* however they are spelled.  A hidden component, a full report of volumes  *)
(* and what a controller owns are the exceptions.                           *)
THEOREM BreakersAreShown == Spec => []BreakersShow
<1>1. BreakersInv => BreakersShow
  BY DEF BreakersInv, ConfigsReported, VolumesReported, BreakersShow
<1> QED BY <1>1, BreakersInvHolds, PTL

(* No finding of the two tiers is false, whatever was read.                 *)
THEOREM BreakerFindingsTrue == Spec => []BreakerAlarmsTrue
<1>1. BreakersInv => BreakerAlarmsTrue
  BY DEF BreakersInv, ConfigAlarmsTrue, VolumeAlarmsTrue, BreakerAlarmsTrue
<1> QED BY <1>1, BreakersInvHolds, PTL
=============================================================================
