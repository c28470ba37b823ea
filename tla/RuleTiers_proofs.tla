--------------------------- MODULE RuleTiers_proofs ---------------------------
(***************************************************************************)
(* Theorems about RuleTiers, for any rules, any cluster and any set of     *)
(* lists that fail: what breaks shows, what is shown is true, and one      *)
(* change is one card.                                                     *)
(***************************************************************************)
EXTENDS RuleTiers, FiniteSetTheorems, WellFoundedInduction, TLAPS

(* The inductive invariant.  Each part says what the tiers so far have     *)
(* left behind, in the words the later ones use.                           *)
Judged == {"rules", "fold", "done"}
Read2  == {"add-ons"} \cup Judged           \* both passes are over
Read1  == {"rule pass"} \cup Read2          \* the add-on pass is

(* What is not served has no rows.  What the first pass should have        *)
(* brought and did not is admitted in its row, or discovery did not name   *)
(* it; rows cut down carry what the rules on the path read.                *)
RowsKept ==
  /\ \A o \in DOMAIN cluster : cluster[o].kind \in served
  /\ \A k \in Kinds : CRs[k] # "none" => k \in served
  /\ stage \notin Read1 => \A k \in Kinds : CRs[k] = "none"
  /\ stage \notin Read2 => \A k \in Kinds : CRs[k] # "projected"
  /\ stage \in Read1 =>
       \A k \in (Asked \ {"Ingress", "ConfigMap", "Secret"}) \cap served :
         \/ CRs[k] = "full" \/ k \in CRNotServed
         \/ passRow["custom resources"] \in {"partial", "unavailable"}
  /\ stage \in Read2 => keep = Keep

(* The add-on tier's verdict, of rows that no longer change. *)
AddonJudged ==
  IF "workloads" \notin collected
  THEN [findings |-> {}, skipped |-> {}, row |-> "unavailable"]
  ELSE [findings |-> windowFinding \cup ruleFindings,
        skipped  |-> {r \in Evaluated : Declines(r)},
        row      |-> "complete"]

AddonKept == addonVerdict = IF stage \in Judged THEN AddonJudged ELSE NoVerdict

(* The rules' outcomes, of the same rows. *)
Concluded == [r \in Notes |-> IF Detects(r) THEN Outcome(r) ELSE Clear]

NotesKept ==
  outcome = IF stage \in {"fold", "done"} THEN Concluded ELSE [r \in Notes |-> Clear]

(* A folded rule went to a retained one that came before it with the same  *)
(* change; what is still to fold comes after.                              *)
FoldKept ==
  /\ folded \subseteq FiredNotes
  /\ \A r \in Notes : duplicateOf[r] # 0 =>
       /\ r \in folded /\ duplicateOf[r] \in Retained
       /\ SameChange(r, duplicateOf[r]) /\ Before(duplicateOf[r], r)
  /\ \A r \in folded, s \in FiredNotes \ folded : Before(r, s)
  /\ \A r, s \in Retained : SameChange(r, s) => r = s

ReportKept ==
  /\ stage # "done" => noteVerdict = [findings |-> {}, gaps |-> {}, skipped |-> {}]
  /\ stage = "done" =>
       /\ FiredNotes \subseteq folded
       /\ noteVerdict.findings = {NoteFinding(r) : r \in Retained}
            \cup {Advisory(r) : r \in {q \in onPath : Note[q].does = "advises"}}
       /\ noteVerdict.gaps = {r \in Notes : Detects(r) /\ outcome[r].state = "declined"}

TiersInv == TypeOK /\ RowsKept /\ AddonKept /\ NotesKept /\ FoldKept /\ ReportKept

-----------------------------------------------------------------------------
(* The cap on names. *)

LEMMA LeastNumber ==
  ASSUME NEW S \in SUBSET Nat, S # {}
  PROVE  \E m \in S : \A k \in S : m <= k
<1>1. PICK m \in S : \A k \in S : ~(<<k, m>> \in OpToRel(<, Nat))
  BY NatLessThanWellFounded, WFMin
<1>2. \A k \in S : ~(k < m)
  BY <1>1 DEF OpToRel
<1> QED BY <1>2

(* A list of names that is not full has left nobody out. *)
LEMMA NobodyLeftOut ==
  ASSUME NEW S \in SUBSET Nat, IsFiniteSet(S), Cardinality(capNamed(S)) < Cap
  PROVE  capNamed(S) = S
<1> DEFINE Out == S \ capNamed(S)
<1>1. capNamed(S) \subseteq S
  BY DEF capNamed
<1>2. CASE Out = {}
  BY <1>1, <1>2
<1>3. CASE Out # {}
  <2>1. PICK m \in Out : \A k \in Out : m <= k
    <3>1. Out \in SUBSET Nat
      OBVIOUS
    <3> HIDE DEF Out
    <3> QED BY <1>3, <3>1, LeastNumber
  <2> DEFINE B == {k \in S : k < m}
  <2>2. ~(Cardinality(B) < Cap)
    BY <2>1 DEF capNamed
  <2>3. B \subseteq capNamed(S)
    <3> SUFFICES ASSUME NEW k \in S, k < m, k \notin capNamed(S) PROVE FALSE
      OBVIOUS
    <3>1. k \in Out /\ k \in Nat /\ m \in Nat
      BY <2>1
    <3> QED BY <2>1, <3>1
  <2>4. IsFiniteSet(capNamed(S))
    BY <1>1, FS_Subset
  <2>5. IsFiniteSet(B) /\ Cardinality(B) <= Cardinality(capNamed(S))
    <3> HIDE DEF B
    <3> QED BY <2>3, <2>4, FS_Subset
  <2>6. Cardinality(B) \in Nat /\ Cardinality(capNamed(S)) \in Nat
    <3> HIDE DEF B
    <3> QED BY <2>4, <2>5, FS_CardinalityType
  <2>7. Cap \in Nat
    BY CapAssumption
  <2> HIDE DEF B
  <2> QED BY <2>2, <2>5, <2>6, <2>7
<1> QED BY <1>2, <1>3

-----------------------------------------------------------------------------
(* Rows and questions. *)

LEMMA ObjectTypes ==
  ASSUME TypeOK
  PROVE  /\ IsFiniteSet(DOMAIN cluster) /\ DOMAIN cluster \subseteq Nat
         /\ \A o \in DOMAIN cluster : cluster[o].kind \in Kinds /\ cluster[o].has \subseteq Facts
BY RowsAssumption DEF TypeOK

(* The ways rowsOf may answer; a typed answer is only given for the kinds  *)
(* the typed collectors list.                                              *)
LEMMA RowsOfType ==
  ASSUME TypeOK, NEW k \in Kinds
  PROVE  /\ rowsOf(k) \in {"full", "projected", "typed", "unread", "not served", "not collected"}
         /\ rowsOf(k) = "typed" => k \in ByCollector \cup {"StorageClass"}
         /\ rowsOf(k) = "projected" => CRs[k] = "projected"
         /\ rowsOf(k) = "not served" =>
              k \in CRNotServed \ (CRUnread \cup {"StorageClass"}) /\ CRs[k] = "none"
<1>1. CRs[k] \in {"none", "full", "projected"}
  BY DEF TypeOK
<1>2. CASE k = "Node"
  BY <1>2 DEF rowsOf, ByTyped, ByCollector
<1>3. CASE k = "CustomResourceDefinition"
  BY <1>3 DEF rowsOf, ByTyped, ByCollector
<1>4. CASE k = "kube-proxy"
  BY <1>4 DEF rowsOf, ByTyped, ByCollector
<1>5. CASE k \notin ByCollector
  <2>1. rowsOf(k) = IF CRs[k] # "none" THEN CRs[k]
                    ELSE IF k = "StorageClass" THEN ByTyped("storage")
                    ELSE IF k \in CRUnread THEN "unread"
                    ELSE IF k \in CRNotServed THEN "not served" ELSE "not collected"
    BY <1>5 DEF rowsOf, ByCollector
  <2>2. ByTyped("storage") \in {"typed", "unread"}
    BY DEF ByTyped
  <2>3. CASE CRs[k] # "none"
    BY <1>1, <2>1, <2>3
  <2>4. CASE CRs[k] = "none" /\ k = "StorageClass"
    BY <2>1, <2>2, <2>4
  <2>5. CASE CRs[k] = "none" /\ k # "StorageClass"
    BY <2>1, <2>5
  <2> QED BY <2>3, <2>4, <2>5
<1> QED BY <1>2, <1>3, <1>4, <1>5 DEF ByCollector

(* The keys a rule on the path reads are kept on the rows cut down for it. *)
LEMMA KeepCovers ==
  ASSUME NEW r \in onPath, NEW q \in QuestionsOf(r), NEW k \in q.on \cap Kinds,
         NEW f \in {q.among, q.fact} \cap Facts
  PROVE  f \in Keep[k]
<1> DEFINE Q == {p \in UNION {QuestionsOf(s) : s \in onPath} : k \in p.on}
           X == {{p.among, p.fact} : p \in Q}
           Y == {q.among, q.fact}
<1>1. q \in Q
  OBVIOUS
<1>2. Keep[k] = (UNION X) \cap Facts
  BY DEF Keep
<1>3. Y \in X
  <2> HIDE DEF Q
  <2> QED BY <1>1
<1>4. f \in Y /\ f \in Facts
  OBVIOUS
<1> HIDE DEF X, Y
<1> QED BY <1>2, <1>3, <1>4

(* What a question's rows show is so. *)
LEMMA HitsAreTrue ==
  ASSUME NEW q, NEW o \in Hits(q)
  PROVE  Breaks(q, o) /\ o \in DOMAIN cluster
BY DEF Hits, subject, ObjectsOf, Shows, True, Breaks

(* A question as the rules of the path ask it. *)
AskedOnPath(q) ==
  \E r \in onPath : q \in QuestionsOf(r) /\ (q = Note[r] \/ q = Note[r].gate)

(* And what is so, they show, once every kind asked about was read: whole  *)
(* rows show all, rows cut down what the path asks, typed rows what their  *)
(* collector records.                                                      *)
LEMMA TrueIsHit ==
  ASSUME TypeOK, RowsKept, stage \in Read2, NEW q, AskedOnPath(q), ~Unsettled(q),
         NEW o, Breaks(q, o), o \notin Unnamed
  PROVE  o \in Hits(q)
<1> DEFINE k == cluster[o].kind
<1>0. PICK r \in onPath : q \in QuestionsOf(r) /\ (q = Note[r] \/ q = Note[r].gate)
  BY DEF AskedOnPath
<1>1. r \in Notes /\ Question(q)
  BY <1>0, NotesAssumption DEF onPath
<1>2. o \in DOMAIN cluster /\ k \in q.on /\ True(o, q.among) /\ True(o, q.fact)
  BY DEF Breaks
<1>3. k \in Kinds /\ cluster[o].has \subseteq Facts /\ k \in served
  BY <1>2, ObjectTypes DEF RowsKept
<1>4. rowsOf(k) \in {"full", "projected", "typed"}
  <2>1. rowsOf(k) \notin {"unread", "not collected"}
    BY <1>2 DEF Unsettled
  <2>2. rowsOf(k) # "not served"
    <3>1. ~(k \in CRNotServed \ (CRUnread \cup {"StorageClass"}) /\ CRs[k] = "none")
      BY <1>2 DEF Unnamed
    <3> HIDE DEF k
    <3> QED BY <1>3, <3>1, RowsOfType
  <2> HIDE DEF k
  <2> QED BY <1>3, <2>1, <2>2, RowsOfType
<1>5. ASSUME NEW f \in {q.among, q.fact}, True(o, f) PROVE Shows(o, f, rowsOf(k))
  <2>1. f = "any" \/ f \in cluster[o].has
    BY <1>5 DEF True
  <2>2. CASE f = "any"
    BY <2>2 DEF Shows
  <2>3. CASE f # "any"
    <3>1. f \in cluster[o].has /\ f \in Facts
      BY <1>3, <2>1, <2>3
    <3>2. f \in Visible(k, rowsOf(k))
      <4>1. CASE rowsOf(k) = "full"
        BY <3>1, <4>1 DEF Visible
      <4>2. CASE rowsOf(k) = "projected"
        <5>1. f \in Keep[k]
          <6> HIDE DEF k
          <6> QED BY <1>0, <1>2, <1>3, <1>5, <3>1, KeepCovers
        <5>2. keep = Keep
          BY DEF RowsKept
        <5> HIDE DEF k
        <5> QED BY <4>2, <5>1, <5>2 DEF Visible
      <4>3. CASE rowsOf(k) = "typed"
        <5>1. k \in q.on \cap (ByCollector \cup {"StorageClass"})
          <6> HIDE DEF k
          <6> QED BY <1>2, <1>3, <4>3, RowsOfType
        <5>2. f \in Recorded[k]
          <6> HIDE DEF k
          <6> QED BY <1>0, <1>1, <1>5, <2>3, <5>1, RecordedAssumption
        <5> HIDE DEF k
        <5> QED BY <4>3, <5>2 DEF Visible
      <4> QED BY <1>4, <4>1, <4>2, <4>3
    <3> QED BY <3>1, <3>2 DEF Shows
  <2> QED BY <2>2, <2>3
<1> QED BY <1>2, <1>5 DEF Hits, subject, ObjectsOf

-----------------------------------------------------------------------------
(* What a rule concludes. *)

(* Names come from the rule's own rows, the gate was found open, and a     *)
(* narrowed list holds what opens it.                                      *)
LEMMA OutcomeTrue ==
  ASSUME NEW r \in Notes, NEW o \in Outcome(r).affected
  PROVE  /\ o \in Hits(Note[r])
         /\ Gated(r) => Hits(Note[r].gate) # {}
         /\ Gated(r) /\ Outcome(r).narrowed => o \in Hits(Note[r].gate)
<1>1. \A S : capNamed(S) \subseteq S
  BY DEF capNamed
<1>2. Declined.affected = {} /\ Clear.affected = {}
  BY DEF Declined, Clear
<1> DEFINE named == capNamed(Hits(Note[r]))
           both  == named \cap Hits(Note[r].gate)
<1>3. Outcome(r) # Declined /\ Outcome(r) # Clear
  BY <1>2
<1>4. /\ ~(Hits(Note[r]) = {} \/ (Gated(r) /\ Hits(Note[r].gate) = {}))
      /\ Outcome(r) = IF Gated(r) /\ Narrows(r) THEN narrowed(r)
                      ELSE fired(named, Cardinality(Hits(Note[r])), FALSE)
  BY <1>3 DEF Outcome
<1>5. CASE Gated(r) /\ Narrows(r)
  <2>1. Outcome(r) = narrowed(r)
    BY <1>4, <1>5
  <2>2. CASE both # {}
    <3>1. Outcome(r) = fired(both, Cardinality(both), TRUE)
      BY <2>1, <2>2 DEF narrowed
    <3>2. o \in both
      BY <3>1 DEF fired
    <3> QED BY <1>1, <1>4, <3>2
  <2>3. CASE both = {}
    <3>1. Outcome(r) = fired(named, Cardinality(Hits(Note[r])), FALSE)
      BY <1>3, <2>1, <2>3 DEF narrowed
    <3>2. o \in named /\ Outcome(r).narrowed = FALSE
      BY <3>1 DEF fired
    <3> QED BY <1>1, <1>4, <3>2
  <2> QED BY <2>2, <2>3
<1>6. CASE ~(Gated(r) /\ Narrows(r))
  <2>1. Outcome(r) = fired(named, Cardinality(Hits(Note[r])), FALSE)
    BY <1>4, <1>6
  <2>2. o \in named /\ Outcome(r).narrowed = FALSE
    BY <2>1 DEF fired
  <2> QED BY <1>1, <1>4, <2>2
<1> QED BY <1>5, <1>6

(* An object that breaks leads to a rule that fires or declines. *)
LEMMA OutcomeShows ==
  ASSUME TypeOK, RowsKept, stage \in Read2,
         NEW r \in Notes, Detects(r), NEW o, Breaks(Note[r], o), o \notin Unnamed, GateMet(r, o)
  PROVE  Outcome(r).state \in {"declined", "fired"}
<1> DEFINE own  == Hits(Note[r])
           gate == Hits(Note[r].gate)
           named == capNamed(own)
           both  == named \cap gate
<1>1. r \in onPath /\ AskedOnPath(Note[r]) /\ AskedOnPath(Note[r].gate)
  <2>1. r \in onPath /\ Note[r] \in QuestionsOf(r) /\ Note[r].gate \in QuestionsOf(r)
    BY DEF Detects, onPath, QuestionsOf
  <2> QED BY <2>1 DEF AskedOnPath
<1>2. Declined.state = "declined" /\ \A S, n, b : fired(S, n, b).state = "fired"
  BY DEF Declined, Clear, fired
<1>3. CASE declinedFor(r) \/ (Gated(r) /\ Unsettled(Note[r].gate))
  <2>1. Outcome(r) = Declined
    BY <1>3 DEF Outcome
  <2> QED BY <1>2, <2>1
<1>4. CASE ~(declinedFor(r) \/ (Gated(r) /\ Unsettled(Note[r].gate)))
  <2>1. ~Unsettled(Note[r]) /\ (Gated(r) => ~Unsettled(Note[r].gate))
    BY <1>4 DEF declinedFor
  <2>2. o \in own
    BY <1>1, <2>1, TrueIsHit
  <2>3. \A p : Gated(r) /\ Breaks(Note[r].gate, p) /\ p \notin Unnamed => p \in gate
    BY <1>1, <2>1, TrueIsHit
  <2>4. Gated(r) => gate # {} /\ (Narrows(r) => o \in gate)
    <3> HIDE DEF gate
    <3> QED BY <2>3 DEF GateMet
  <2>5. Outcome(r) = IF Gated(r) /\ Narrows(r) THEN narrowed(r)
                     ELSE fired(named, Cardinality(own), FALSE)
    BY <1>4, <2>2, <2>4 DEF Outcome
  <2>6. CASE Gated(r) /\ Narrows(r)
    <3>1. CASE both # {}
      <4>1. Outcome(r) = fired(both, Cardinality(both), TRUE)
        BY <2>5, <2>6, <3>1 DEF narrowed
      <4> QED BY <1>2, <4>1
    <3>2. CASE both = {}
      <4>1. own \in SUBSET Nat /\ IsFiniteSet(own)
        <5>1. own \subseteq DOMAIN cluster
          BY HitsAreTrue
        <5> HIDE DEF own
        <5> QED BY <5>1, ObjectTypes, FS_Subset
      <4>2. Cardinality(named) >= Cap
        <5>1. o \notin named
          <6> HIDE DEF own, gate, named
          <6> QED BY <2>4, <2>6, <3>2
        <5>2. ~(Cardinality(named) < Cap)
          <6> HIDE DEF own
          <6> QED BY <2>2, <4>1, <5>1, NobodyLeftOut
        <5>3. named \subseteq own
          BY DEF capNamed
        <5>4. Cardinality(named) \in Nat /\ Cap \in Nat
          <6> HIDE DEF own, named
          <6> QED BY <4>1, <5>3, FS_Subset, FS_CardinalityType, CapAssumption
        <5> HIDE DEF named
        <5> QED BY <5>2, <5>4
      <4>3. Outcome(r) = fired(named, Cardinality(own), FALSE)
        BY <2>5, <2>6, <3>2, <4>2 DEF narrowed
      <4> QED BY <1>2, <4>3
    <3> QED BY <3>1, <3>2
  <2>7. CASE ~(Gated(r) /\ Narrows(r))
    <3>1. Outcome(r) = fired(named, Cardinality(own), FALSE)
      BY <2>5, <2>7
    <3> QED BY <1>2, <3>1
  <2> QED BY <2>6, <2>7
<1> QED BY <1>3, <1>4

-----------------------------------------------------------------------------
(* Rows that do not change leave every judgement of them as it was.        *)
Still == UNCHANGED <<cluster, served, inventory, installed, tag, matrix, path, gone>>

LEMMA PathStill ==
  ASSUME UNCHANGED <<collected, tag, path>>
  PROVE  onPath' = onPath /\ Keep' = Keep /\ HopResolved' = HopResolved
         /\ \A r \in Notes : OnPath(r)' = OnPath(r) /\ Detects(r)' = Detects(r)
<1>1. HopResolved' = HopResolved
  BY DEF HopResolved
<1>2. \A r \in Notes : OnPath(r)' = OnPath(r)
  BY <1>1 DEF OnPath, Between
<1>3. onPath' = onPath
  BY <1>2 DEF onPath
<1>4. Keep' = Keep
  BY <1>3 DEF Keep, QuestionsOf
<1> QED BY <1>1, <1>2, <1>3, <1>4 DEF Detects

LEMMA RowsStill ==
  ASSUME Still
  PROVE  /\ \A k : rowsOf(k)' = rowsOf(k) /\ customRows(k)' = customRows(k)
         /\ \A K : ObjectsOf(K)' = ObjectsOf(K)
         /\ \A o, f, how : Shows(o, f, how)' = Shows(o, f, how) /\ True(o, f)' = True(o, f)
<1>1. UNCHANGED <<cluster, served, collected, CRs, CRUnread, CRNotServed, keep, passRow>>
  BY DEF Still, inventory
<1>2. \A k : rowsOf(k)' = rowsOf(k)
  BY <1>1 DEF rowsOf, ByTyped
<1>3. \A k : customRows(k)' = customRows(k)
  BY <1>1 DEF customRows
<1>4. \A K : ObjectsOf(K)' = ObjectsOf(K)
  BY <1>1 DEF ObjectsOf
<1>5. \A o, f : True(o, f)' = True(o, f)
  BY <1>1 DEF True
<1>6. \A k, how : Visible(k, how)' = Visible(k, how)
  BY <1>1 DEF Visible
<1>7. \A o, f, how : Shows(o, f, how)' = Shows(o, f, how)
  BY <1>1, <1>6 DEF Shows
<1> QED BY <1>2, <1>3, <1>4, <1>5, <1>7

LEMMA AddonStill ==
  ASSUME Still
  PROVE  AddonJudged' = AddonJudged
<1>1. UNCHANGED <<cluster, served, collected, CRs, CRUnread, CRNotServed, keep, passRow, installed, tag, matrix>>
  BY DEF Still, inventory
<1>2. Evaluated' = Evaluated
  BY <1>1 DEF Evaluated, gateAllows
<1>3. CRDs' = CRDs
  BY <1>1, RowsStill DEF CRDs
<1>4. \A r : Declines(r)' = Declines(r)
  BY <1>3, RowsStill DEF Declines, KindWasRead
<1>5. \A r : RowOffenders(r)' = RowOffenders(r)
  BY <1>1, RowsStill DEF RowOffenders
<1>6. \A r : gateSatisfied(r)' = gateSatisfied(r)
  BY <1>1, RowsStill DEF gateSatisfied
<1>7. \A r : Fires(r)' = Fires(r)
  BY <1>3, <1>5, <1>6, RowsStill DEF Fires
<1>8. ruleFindings' = ruleFindings
  BY <1>2, <1>4, <1>5, <1>7 DEF ruleFindings, AddonFinding
<1> QED BY <1>1, <1>2, <1>4, <1>8 DEF AddonJudged, windowFinding, AddonFinding

LEMMA OutcomesStill ==
  ASSUME Still
  PROVE  Concluded' = Concluded
<1>1. UNCHANGED <<cluster, served, collected, CRs, CRUnread, CRNotServed, keep, passRow, tag, path, gone>>
  BY DEF Still, inventory
<1>2. \A q : Unsettled(q)' = Unsettled(q) /\ Applies(q)' = Applies(q)
  BY RowsStill DEF Unsettled, Applies
<1>3. \A q : subject(q)' = subject(q)
  BY <1>1, RowsStill DEF subject
<1>4. \A q : Hits(q)' = Hits(q)
  BY <1>1, <1>3, RowsStill DEF Hits
<1>5. \A r \in Notes : declinedFor(r)' = declinedFor(r)
  BY <1>1, <1>2, <1>3 DEF declinedFor
<1>6. \A r \in Notes : narrowed(r)' = narrowed(r)
  BY <1>4 DEF narrowed
<1>7. \A r \in Notes : Outcome(r)' = Outcome(r)
  BY <1>2, <1>4, <1>5, <1>6 DEF Outcome
<1> QED BY <1>1, <1>7, PathStill DEF Concluded

-----------------------------------------------------------------------------
(* What one pass may leave behind. *)
LEMMA PassLeaves ==
  ASSUME TypeOK, NEW pass \in Passes, NEW wanted \in SUBSET Kinds,
         NEW how \in {"full", "projected"}, Pass(pass, wanted, how)
  PROVE  /\ CRs' \in [Kinds -> {"none", "full", "projected"}]
         /\ CRUnread' \subseteq Kinds /\ CRNotServed' \subseteq Kinds
         /\ passRow' \in [Passes -> RowStates]
         /\ CRNotServed \subseteq CRNotServed'
         /\ \A k \in Kinds :
              CRs'[k] = CRs[k] \/ (CRs'[k] = how /\ k \in wanted /\ k \in served)
         /\ \A k \in wanted \cap served :
              \/ CRs'[k] = how \/ k \in CRNotServed'
              \/ passRow'[pass] \in {"partial", "unavailable"}
         /\ \A p \in Passes \ {pass} : passRow'[p] = passRow[p]
<1>1. /\ CRs \in [Kinds -> {"none", "full", "projected"}]
      /\ CRUnread \subseteq Kinds /\ CRNotServed \subseteq Kinds
      /\ passRow \in [Passes -> RowStates]
  BY DEF TypeOK
<1>2. {"complete", "partial", "unavailable"} \subseteq RowStates
  BY DEF RowStates
<1>3. CASE wanted = {} /\ UNCHANGED <<CRs, CRUnread, CRNotServed, passRow>>
  BY <1>1, <1>3
<1>4. CASE /\ CRUnread' = CRUnread \cup wanted
           /\ passRow' = [passRow EXCEPT ![pass] = "unavailable"]
           /\ UNCHANGED <<CRs, CRNotServed>>
  BY <1>1, <1>2, <1>4
<1>5. ASSUME NEW named \in SUBSET (wanted \cap served), NEW failed \in SUBSET named,
             CRs' = [k \in Kinds |-> IF k \in named \ failed THEN how ELSE CRs[k]],
             CRUnread' = CRUnread \cup failed,
             CRNotServed' = CRNotServed \cup (wanted \ named),
             passRow' = [passRow EXCEPT ![pass] = PassState(named, failed)]
      PROVE  /\ CRs' \in [Kinds -> {"none", "full", "projected"}]
             /\ CRUnread' \subseteq Kinds /\ CRNotServed' \subseteq Kinds
             /\ passRow' \in [Passes -> RowStates]
             /\ CRNotServed \subseteq CRNotServed'
             /\ \A k \in Kinds :
                  CRs'[k] = CRs[k] \/ (CRs'[k] = how /\ k \in wanted /\ k \in served)
             /\ \A k \in wanted \cap served :
                  \/ CRs'[k] = how \/ k \in CRNotServed'
              \/ passRow'[pass] \in {"partial", "unavailable"}
             /\ \A p \in Passes \ {pass} : passRow'[p] = passRow[p]
  <2>1. /\ PassState(named, failed) \in {"complete", "partial", "unavailable"}
        /\ failed # {} => PassState(named, failed) \in {"partial", "unavailable"}
    BY DEF PassState
  <2>2. passRow'[pass] = PassState(named, failed) /\ passRow' \in [Passes -> RowStates]
    BY <1>1, <1>2, <1>5, <2>1
  <2>3. CRs' \in [Kinds -> {"none", "full", "projected"}]
    BY <1>1, <1>5
  <2>4. \A p \in Passes \ {pass} : passRow'[p] = passRow[p]
    BY <1>1, <1>5
  <2>5. \A k \in wanted \cap served :
          \/ CRs'[k] = how \/ k \in CRNotServed'
          \/ passRow'[pass] \in {"partial", "unavailable"}
    BY <1>5, <2>1, <2>2
  <2>6. \A k \in Kinds :
          CRs'[k] = CRs[k] \/ (CRs'[k] = how /\ k \in wanted /\ k \in served)
    BY <1>5
  <2> QED BY <1>1, <1>5, <2>2, <2>3, <2>4, <2>5, <2>6
<1>6. \/ wanted = {} /\ UNCHANGED <<CRs, CRUnread, CRNotServed, passRow>>
      \/ /\ CRUnread' = CRUnread \cup wanted
         /\ passRow' = [passRow EXCEPT ![pass] = "unavailable"]
         /\ UNCHANGED <<CRs, CRNotServed>>
      \/ \E named \in SUBSET (wanted \cap served) : \E failed \in SUBSET named :
          /\ CRs' = [k \in Kinds |-> IF k \in named \ failed THEN how ELSE CRs[k]]
          /\ CRUnread' = CRUnread \cup failed
          /\ CRNotServed' = CRNotServed \cup (wanted \ named)
          /\ passRow' = [passRow EXCEPT ![pass] = PassState(named, failed)]
  BY DEF Pass
<1>7. CASE \E named \in SUBSET (wanted \cap served) : \E failed \in SUBSET named :
          /\ CRs' = [k \in Kinds |-> IF k \in named \ failed THEN how ELSE CRs[k]]
          /\ CRUnread' = CRUnread \cup failed
          /\ CRNotServed' = CRNotServed \cup (wanted \ named)
          /\ passRow' = [passRow EXCEPT ![pass] = PassState(named, failed)]
  BY <1>5, <1>7
<1> QED BY <1>3, <1>4, <1>6, <1>7

(* The kinds asked for are kinds, the keys to keep are facts. *)
LEMMA AskTypes ==
  Wants \subseteq Kinds /\ Keep \in [Kinds -> SUBSET Facts]
<1>1. \A r \in onPath : \A q \in QuestionsOf(r) : q.on \subseteq Kinds
  BY NotesAssumption DEF onPath, QuestionsOf, Question
<1>2. Wants \subseteq Kinds
  BY <1>1 DEF Wants
<1>3. Keep \in [Kinds -> SUBSET Facts]
  BY DEF Keep
<1> QED BY <1>2, <1>3

(* An outcome has the type of one. *)
LEMMA OutcomeType ==
  ASSUME TypeOK, NEW r \in Notes
  PROVE  {Outcome(r), Clear} \subseteq
           [state : {"clear", "declined", "fired"}, affected : SUBSET DOMAIN cluster,
            matched : Nat, narrowed : BOOLEAN]
<1> DEFINE T == [state : {"clear", "declined", "fired"}, affected : SUBSET DOMAIN cluster,
                 matched : Nat, narrowed : BOOLEAN]
<1>1. Clear \in T /\ Declined \in T
  BY DEF Clear, Declined
<1>2. \A q : Hits(q) \subseteq DOMAIN cluster
  BY HitsAreTrue
<1>3. \A S : S \subseteq DOMAIN cluster => Cardinality(S) \in Nat
  BY ObjectTypes, FS_Subset, FS_CardinalityType
<1>4. \A S, n, b : S \subseteq DOMAIN cluster /\ n \in Nat /\ b \in BOOLEAN => fired(S, n, b) \in T
  BY DEF fired
<1> HIDE DEF T
<1> DEFINE own   == Hits(Note[r])
           named == capNamed(own)
           both  == named \cap Hits(Note[r].gate)
<1>5. own \subseteq DOMAIN cluster /\ named \subseteq own /\ both \subseteq named
  BY <1>2 DEF capNamed
<1>6. /\ fired(both, Cardinality(both), TRUE) \in T
      /\ fired(named, Cardinality(own), FALSE) \in T
  <2> HIDE DEF own, named, both
  <2> QED BY <1>3, <1>4, <1>5
<1>7. narrowed(r) \in {fired(both, Cardinality(both), TRUE), fired(named, Cardinality(own), FALSE), Clear}
  BY DEF narrowed
<1>8. Outcome(r) \in {Declined, Clear, narrowed(r), fired(named, Cardinality(own), FALSE)}
  BY DEF Outcome
<1>9. Outcome(r) \in T /\ Clear \in T
  <2> HIDE DEF own, named, both
  <2> QED BY <1>1, <1>6, <1>7, <1>8
<1> QED BY <1>9 DEF T

-----------------------------------------------------------------------------
(* The first state. *)
LEMMA InitHolds == Init => TiersInv
<1> SUFFICES ASSUME Init PROVE TiersInv
  OBVIOUS
<1>1. RowsInit /\ AddonInit /\ NotesInit /\ stage = "collect"
  BY DEF Init
<1>2. FiredNotes = {} /\ Retained = {}
  BY <1>1 DEF NotesInit, FiredNotes, Retained, Clear
<1>3. TypeOK
  <2>1. outcome \in [Notes -> [state : {"clear", "declined", "fired"}, affected : SUBSET DOMAIN cluster,
                               matched : Nat, narrowed : BOOLEAN]]
    BY <1>1 DEF NotesInit, Clear
  <2>2. passRow \in [Passes -> RowStates] /\ CRs \in [Kinds -> {"none", "full", "projected"}]
    BY <1>1 DEF RowsInit, Passes, RowStates
  <2>3. duplicateOf \in [Notes -> Notes \cup {0}] /\ gone \subseteq Kindless
    BY <1>1 DEF NotesInit
  <2>4. addonVerdict.findings = {} /\ addonVerdict.skipped = {}
    BY <1>1 DEF AddonInit, NoVerdict
  <2>5. noteVerdict.findings = {} /\ noteVerdict.gaps = {} /\ folded = {} /\ path \in Paths
    BY <1>1 DEF NotesInit
  <2>6. cluster \in Clusters /\ served \subseteq Kinds /\ collected = {} /\ CRUnread = {}
        /\ CRNotServed = {} /\ keep \in [Kinds -> SUBSET Facts]
    BY <1>1 DEF RowsInit
  <2> QED BY <1>1, <2>1, <2>2, <2>3, <2>4, <2>5, <2>6 DEF TypeOK, AddonInit
<1>4. RowsKept
  BY <1>1 DEF RowsInit, RowsKept, Read1, Read2, Judged
<1>5. AddonKept /\ NotesKept
  BY <1>1 DEF AddonInit, NotesInit, AddonKept, NotesKept, Judged
<1>6. FoldKept
  BY <1>1, <1>2 DEF NotesInit, FoldKept
<1>7. ReportKept
  BY <1>1 DEF NotesInit, ReportKept
<1> QED BY <1>3, <1>4, <1>5, <1>6, <1>7 DEF TiersInv

(* What each of the steps leaves alone. *)
LEMMA Frames ==
  /\ Collect => UNCHANGED <<addon, notes, cluster, served, CRs, CRUnread, CRNotServed, keep, passRow>>
  /\ AddonPass => UNCHANGED <<addon, notes, cluster, served, collected, keep>>
  /\ RulePass => UNCHANGED <<addon, notes, cluster, served, collected>>
  /\ AnalyzeAddonTier => Still /\ UNCHANGED <<outcome, folded, duplicateOf, noteVerdict>>
  /\ AnalyzeNotes => Still /\ UNCHANGED <<addonVerdict, folded, duplicateOf, noteVerdict>>
  /\ FoldDuplicates => Still /\ UNCHANGED <<addonVerdict, outcome, noteVerdict, stage>>
  /\ Report => Still /\ UNCHANGED <<addonVerdict, outcome, folded, duplicateOf>>
  /\ UNCHANGED vars => Still /\ UNCHANGED <<addonVerdict, outcome, folded, duplicateOf, noteVerdict, stage>>
<1>1. Collect => UNCHANGED <<addon, notes, cluster, served, CRs, CRUnread, CRNotServed, keep, passRow>>
  BY DEF Collect, CollectTyped, addon, notes
<1>2. AddonPass => UNCHANGED <<addon, notes, cluster, served, collected, keep>>
  BY DEF AddonPass, CollectCustomResources, addon, notes
<1>3. RulePass => UNCHANGED <<addon, notes, cluster, served, collected>>
  BY DEF RulePass, CollectRuleObjects, addon, notes
<1>4. AnalyzeAddonTier => Still /\ UNCHANGED <<outcome, folded, duplicateOf, noteVerdict>>
  BY DEF AnalyzeAddonTier, AnalyzeAddons, Still, notes
<1>5. AnalyzeNotes => Still /\ UNCHANGED <<addonVerdict, folded, duplicateOf, noteVerdict>>
  BY DEF AnalyzeNotes, SettleNotes, Still, addon
<1>6. FoldDuplicates => Still /\ UNCHANGED <<addonVerdict, outcome, noteVerdict, stage>>
  BY DEF FoldDuplicates, Goes, Fold, Still, addon
<1>7. Report => Still /\ UNCHANGED <<addonVerdict, outcome, folded, duplicateOf>>
  BY DEF Report, ReportNotes, Still, addon
<1>8. UNCHANGED vars => Still /\ UNCHANGED <<addonVerdict, outcome, folded, duplicateOf, noteVerdict, stage>>
  BY DEF vars, Still, addon, notes
<1> QED BY <1>1, <1>2, <1>3, <1>4, <1>5, <1>6, <1>7, <1>8

LEMMA StageMoves ==
  /\ Collect => stage = "collect" /\ stage' = "add-on pass"
  /\ AddonPass => stage = "add-on pass" /\ stage' = "rule pass"
  /\ RulePass => stage = "rule pass" /\ stage' = "add-ons"
  /\ AnalyzeAddonTier => stage = "add-ons" /\ stage' = "rules"
  /\ AnalyzeNotes => stage = "rules" /\ stage' = "fold"
  /\ FoldDuplicates => stage = "fold" /\ stage' = "fold"
  /\ Report => stage = "fold" /\ stage' = "done"
BY DEF Collect, AddonPass, RulePass, AnalyzeAddonTier, AnalyzeNotes, FoldDuplicates, Report, Goes

(* The parts of the type that each step touches. *)
RowsTyped ==
  /\ cluster \in Clusters /\ served \subseteq Kinds
  /\ collected \subseteq Collectors
  /\ CRs \in [Kinds -> {"none", "full", "projected"}]
  /\ CRUnread \subseteq Kinds /\ CRNotServed \subseteq Kinds
  /\ keep \in [Kinds -> SUBSET Facts]
  /\ passRow \in [Passes -> RowStates]

AddonTyped ==
  /\ installed \in AddonVersions /\ tag \in {0, installed} /\ matrix \in BOOLEAN
  /\ addonVerdict.skipped \subseteq AddonRuleIds
  /\ \A f \in addonVerdict.findings : f.rule \in AddonRuleIds \cup {"version", "no vendor data"}

NotesTyped ==
  /\ path \in Paths /\ gone \subseteq Kindless
  /\ outcome \in [Notes ->
       [state : {"clear", "declined", "fired"}, affected : SUBSET DOMAIN cluster,
        matched : Nat, narrowed : BOOLEAN]]
  /\ folded \subseteq Notes
  /\ duplicateOf \in [Notes -> Notes \cup {0}]
  /\ noteVerdict.gaps \subseteq Notes
  /\ \A f \in noteVerdict.findings : f.rule \in Notes /\ f.also \subseteq Notes

Stages == {"collect", "add-on pass", "rule pass", "add-ons", "rules", "fold", "done"}

LEMMA TypeParts == TypeOK <=> RowsTyped /\ AddonTyped /\ NotesTyped /\ stage \in Stages
BY DEF TypeOK, RowsTyped, AddonTyped, NotesTyped, Stages

LEMMA TypePartsNext ==
  TypeOK' <=> RowsTyped' /\ AddonTyped' /\ NotesTyped' /\ (stage \in Stages)'
BY DEF TypeOK, RowsTyped, AddonTyped, NotesTyped, Stages

LEMMA RowsTypeStep ==
  ASSUME TiersInv, [Next]_vars
  PROVE  RowsTyped' /\ (stage \in Stages)'
<1>0. TypeOK /\ RowsTyped /\ stage \in Stages
  BY TypeParts DEF TiersInv
<1>1. CASE Collect
  <2>1. collected' \subseteq Collectors
    BY <1>1 DEF Collect, CollectTyped
  <2> QED BY <1>0, <1>1, <2>1, Frames, StageMoves DEF RowsTyped, Stages
<1>2. CASE AddonPass
  <2>1. Pass("custom resources", Asked \ {"Ingress", "ConfigMap", "Secret"}, "full")
    BY <1>2 DEF AddonPass, CollectCustomResources
  <2>2. Asked \ {"Ingress", "ConfigMap", "Secret"} \in SUBSET Kinds /\ "custom resources" \in Passes
    BY RowsAssumption DEF Passes
  <2>3. /\ CRs' \in [Kinds -> {"none", "full", "projected"}]
        /\ CRUnread' \subseteq Kinds /\ CRNotServed' \subseteq Kinds
        /\ passRow' \in [Passes -> RowStates]
    BY <1>0, <2>1, <2>2, PassLeaves
  <2> QED BY <1>0, <1>2, <2>3, Frames, StageMoves DEF RowsTyped, Stages
<1>3. CASE RulePass
  <2> DEFINE wanted == {k \in Wants \ ByCollector : CRs[k] = "none"}
  <2>1. Pass("rule objects", wanted, "projected") /\ keep' = Keep
    BY <1>3 DEF RulePass, CollectRuleObjects
  <2>2. wanted \in SUBSET Kinds /\ "rule objects" \in Passes
    BY AskTypes DEF Passes
  <2> HIDE DEF wanted
  <2>3. /\ CRs' \in [Kinds -> {"none", "full", "projected"}]
        /\ CRUnread' \subseteq Kinds /\ CRNotServed' \subseteq Kinds
        /\ passRow' \in [Passes -> RowStates]
    BY <1>0, <2>1, <2>2, PassLeaves
  <2> QED BY <1>0, <1>3, <2>1, <2>3, AskTypes, Frames, StageMoves DEF RowsTyped, Stages
<1>4. CASE AnalyzeAddonTier \/ AnalyzeNotes \/ FoldDuplicates \/ Report \/ UNCHANGED vars
  <2>1. Still /\ (stage \in Stages)'
    BY <1>0, <1>4, Frames, StageMoves DEF Stages
  <2> QED BY <1>0, <2>1 DEF RowsTyped, Still, inventory
<1> QED BY <1>1, <1>2, <1>3, <1>4 DEF Next, Done

(* It is of no rule of the catalog entry. *)
LEMMA WindowFindingType ==
  \A f \in windowFinding : f.rule \in {"version", "no vendor data"}
<1>1. AddonFinding("version", {}).rule = "version"
  BY DEF AddonFinding
<1>2. AddonFinding("no vendor data", {}).rule = "no vendor data"
  BY DEF AddonFinding
<1>3. windowFinding \subseteq {AddonFinding("version", {}), AddonFinding("no vendor data", {})}
  BY DEF windowFinding
<1> QED BY <1>1, <1>2, <1>3

LEMMA AddonTypeStep ==
  ASSUME TiersInv, [Next]_vars
  PROVE  AddonTyped'
<1>0. AddonTyped
  BY TypeParts DEF TiersInv
<1>1. CASE AnalyzeAddonTier
  <2>1. addonVerdict' = AddonJudged
    BY <1>1 DEF AnalyzeAddonTier, AnalyzeAddons, AddonJudged
  <2>2. \A f \in ruleFindings : f.rule \in AddonRuleIds
    BY DEF ruleFindings, AddonFinding, Evaluated
  <2>3. \A f \in AddonJudged.findings : f.rule \in AddonRuleIds \cup {"version", "no vendor data"}
    <3>1. AddonJudged.findings \subseteq windowFinding \cup ruleFindings
      BY DEF AddonJudged
    <3> QED BY <2>2, <3>1, WindowFindingType
  <2>4. AddonJudged.skipped \subseteq AddonRuleIds
    BY DEF AddonJudged, Evaluated
  <2>5. Still
    BY <1>1, Frames
  <2> QED BY <1>0, <2>1, <2>3, <2>4, <2>5 DEF AddonTyped, Still
<1>2. CASE Collect \/ AddonPass \/ RulePass \/ AnalyzeNotes \/ FoldDuplicates \/ Report \/ UNCHANGED vars
  <2>1. UNCHANGED <<installed, tag, matrix, addonVerdict>>
    BY <1>2, Frames DEF Still, addon
  <2> QED BY <1>0, <2>1 DEF AddonTyped
<1> QED BY <1>1, <1>2 DEF Next, Done

LEMMA NotesTypeStep ==
  ASSUME TiersInv, [Next]_vars
  PROVE  NotesTyped'
<1>0. TypeOK /\ NotesTyped /\ Kindless' = Kindless
  BY TypeParts DEF TiersInv, Kindless
<1>1. CASE AnalyzeNotes
  <2>1. outcome' = [r \in Notes |-> IF Detects(r) THEN Outcome(r) ELSE Clear]
    BY <1>1 DEF AnalyzeNotes, SettleNotes
  <2>2. outcome' \in [Notes -> [state : {"clear", "declined", "fired"}, affected : SUBSET DOMAIN cluster,
                                matched : Nat, narrowed : BOOLEAN]]
    BY <1>0, <2>1, OutcomeType
  <2>3. Still /\ UNCHANGED <<folded, duplicateOf, noteVerdict>>
    BY <1>1, Frames
  <2> QED BY <1>0, <2>2, <2>3 DEF NotesTyped, Still
<1>2. CASE FoldDuplicates
  <2>1. PICK r \in FiredNotes \ folded :
          /\ folded' = folded \cup {r}
          /\ \/ UNCHANGED duplicateOf
             \/ \E s \in Retained : duplicateOf' = [duplicateOf EXCEPT ![r] = s]
    BY <1>2 DEF FoldDuplicates, Fold
  <2>2. FiredNotes \subseteq Notes /\ Retained \subseteq Notes
    BY <1>0 DEF FiredNotes, Retained, NotesTyped
  <2>3. folded' \subseteq Notes /\ duplicateOf' \in [Notes -> Notes \cup {0}]
    BY <1>0, <2>1, <2>2 DEF NotesTyped
  <2>4. Still /\ UNCHANGED <<outcome, noteVerdict>>
    BY <1>2, Frames
  <2> QED BY <1>0, <2>3, <2>4 DEF NotesTyped, Still
<1>3. CASE Report
  <2>1. noteVerdict' =
          [findings |-> {NoteFinding(r) : r \in Retained}
                        \cup {Advisory(r) : r \in {q \in onPath : Note[q].does = "advises"}},
           gaps     |-> {r \in Notes : Detects(r) /\ outcome[r].state = "declined"},
           skipped  |-> IF HopResolved THEN {} ELSE {"addon"}]
    BY <1>3 DEF Report, ReportNotes
  <2>2. noteVerdict'.gaps \subseteq Notes
    BY <2>1
  <2>3. \A r \in Notes : /\ NoteFinding(r).rule = r /\ NoteFinding(r).also \subseteq Notes
                         /\ Advisory(r).rule = r /\ Advisory(r).also = {}
    BY <1>0 DEF NotesTyped, NoteFinding, Advisory, alsoRaisedBy
  <2>4. Retained \subseteq Notes /\ onPath \subseteq Notes
    BY <1>0 DEF Retained, NotesTyped, onPath
  <2>5. \A f \in noteVerdict'.findings : f.rule \in Notes /\ f.also \subseteq Notes
    <3>1. noteVerdict'.findings = {NoteFinding(r) : r \in Retained}
                        \cup {Advisory(r) : r \in {q \in onPath : Note[q].does = "advises"}}
      BY <2>1
    <3> QED BY <2>3, <2>4, <3>1
  <2>6. Still /\ UNCHANGED <<outcome, folded, duplicateOf>>
    BY <1>3, Frames
  <2> QED BY <1>0, <2>2, <2>5, <2>6 DEF NotesTyped, Still
<1>4. CASE Collect \/ AddonPass \/ RulePass \/ AnalyzeAddonTier \/ UNCHANGED vars
  <2>1. UNCHANGED <<cluster, path, gone, outcome, folded, duplicateOf, noteVerdict>>
    BY <1>4, Frames DEF Still, notes
  <2> QED BY <1>0, <2>1 DEF NotesTyped
<1> QED BY <1>1, <1>2, <1>3, <1>4 DEF Next, Done

-----------------------------------------------------------------------------
(* The two passes keep the rows' part. *)
LEMMA RowsStep ==
  ASSUME TiersInv, [Next]_vars
  PROVE  RowsKept'
<1>0. TypeOK /\ RowsKept
  BY DEF TiersInv
<1> USE DEF Read1, Read2, Judged
<1>1. CASE Collect
  <2>1. UNCHANGED <<cluster, served, CRs, CRNotServed>> /\ stage = "collect" /\ stage' = "add-on pass"
    BY <1>1, Frames, StageMoves
  <2> QED BY <1>0, <2>1 DEF RowsKept
<1>2. CASE AddonPass
  <2> DEFINE wanted == Asked \ {"Ingress", "ConfigMap", "Secret"}
  <2>1. Pass("custom resources", wanted, "full")
    BY <1>2 DEF AddonPass, CollectCustomResources
  <2>2. wanted \in SUBSET Kinds /\ "custom resources" \in Passes
    BY RowsAssumption DEF Passes
  <2>3. UNCHANGED <<cluster, served>> /\ stage = "add-on pass" /\ stage' = "rule pass"
    BY <1>2, Frames, StageMoves
  <2> HIDE DEF wanted
  <2>4. /\ \A k \in Kinds :
              CRs'[k] = CRs[k] \/ (CRs'[k] = "full" /\ k \in wanted /\ k \in served)
        /\ \A k \in wanted \cap served :
              \/ CRs'[k] = "full" \/ k \in CRNotServed'
              \/ passRow'["custom resources"] \in {"partial", "unavailable"}
    BY <1>0, <2>1, <2>2, PassLeaves
  <2>5. \A k \in Kinds : CRs[k] = "none"
    BY <1>0, <2>3 DEF RowsKept
  <2>6. \A k \in (Asked \ {"Ingress", "ConfigMap", "Secret"})' \cap served' :
          \/ CRs'[k] = "full" \/ k \in CRNotServed'
          \/ passRow'["custom resources"] \in {"partial", "unavailable"}
    BY <2>3, <2>4 DEF wanted
  <2> QED BY <1>0, <2>3, <2>4, <2>5, <2>6 DEF RowsKept
<1>3. CASE RulePass
  <2> DEFINE wanted == {k \in Wants \ ByCollector : CRs[k] = "none"}
  <2>1. Pass("rule objects", wanted, "projected") /\ keep' = Keep
    BY <1>3 DEF RulePass, CollectRuleObjects
  <2>2. wanted \in SUBSET Kinds /\ {"rule objects", "custom resources"} \subseteq Passes
    BY AskTypes DEF Passes
  <2>3. /\ UNCHANGED <<cluster, served, collected, tag, path>>
        /\ stage = "rule pass" /\ stage' = "add-ons"
    BY <1>3, Frames, StageMoves DEF addon, notes
  <2>4. \A k \in wanted : CRs[k] = "none"
    OBVIOUS
  <2> HIDE DEF wanted
  <2>5. /\ CRNotServed \subseteq CRNotServed'
        /\ \A k \in Kinds :
              CRs'[k] = CRs[k] \/ (CRs'[k] = "projected" /\ k \in wanted /\ k \in served)
        /\ \A p \in Passes \ {"rule objects"} : passRow'[p] = passRow[p]
    BY <1>0, <2>1, <2>2, PassLeaves
  <2>6. keep' = Keep'
    BY <2>1, <2>3, PathStill
  <2>7. passRow'["custom resources"] = passRow["custom resources"]
    BY <2>2, <2>5
  <2>8. \A k \in (Asked \ {"Ingress", "ConfigMap", "Secret"}) \cap served :
          \/ CRs'[k] = "full" \/ k \in CRNotServed'
          \/ passRow'["custom resources"] \in {"partial", "unavailable"}
    BY <1>0, <2>3, <2>4, <2>5, <2>7, RowsAssumption DEF RowsKept
  <2> QED BY <1>0, <2>3, <2>5, <2>6, <2>8 DEF RowsKept
<1>4. CASE AnalyzeAddonTier \/ AnalyzeNotes \/ FoldDuplicates \/ Report \/ UNCHANGED vars
  <2>1. Still /\ (stage' \in Read1 <=> stage \in Read1) /\ (stage' \in Read2 <=> stage \in Read2)
    BY <1>4, Frames, StageMoves
  <2>2. Keep' = Keep
    BY <2>1, PathStill DEF Still, inventory
  <2>3. UNCHANGED <<cluster, served, CRs, CRNotServed, keep, passRow>>
    BY <2>1 DEF Still, inventory
  <2> QED BY <1>0, <2>1, <2>2, <2>3 DEF RowsKept
<1> QED BY <1>1, <1>2, <1>3, <1>4 DEF Next, Done

(* The add-on tier judges once. *)
LEMMA AddonStep ==
  ASSUME TiersInv, [Next]_vars
  PROVE  AddonKept'
<1>0. AddonKept
  BY DEF TiersInv
<1> USE DEF Judged
<1>1. CASE Collect \/ AddonPass \/ RulePass
  <2>1. addonVerdict' = addonVerdict /\ stage \notin Judged /\ stage' \notin Judged
    BY <1>1, Frames, StageMoves DEF addon
  <2> QED BY <1>0, <2>1 DEF AddonKept, NoVerdict
<1>2. CASE AnalyzeAddonTier
  <2>1. addonVerdict' = AddonJudged /\ stage' \in Judged
    BY <1>2, StageMoves DEF AnalyzeAddonTier, AnalyzeAddons, AddonJudged
  <2>2. AddonJudged' = AddonJudged
    BY <1>2, Frames, AddonStill
  <2> QED BY <2>1, <2>2 DEF AddonKept
<1>3. CASE AnalyzeNotes \/ FoldDuplicates \/ Report \/ UNCHANGED vars
  <2>1. addonVerdict' = addonVerdict /\ (stage' \in Judged <=> stage \in Judged) /\ Still
    BY <1>3, Frames, StageMoves
  <2>2. AddonJudged' = AddonJudged
    BY <2>1, AddonStill
  <2> QED BY <1>0, <2>1, <2>2 DEF AddonKept, NoVerdict
<1> QED BY <1>1, <1>2, <1>3 DEF Next, Done

(* The release-note rules conclude once. *)
LEMMA NotesStep ==
  ASSUME TiersInv, [Next]_vars
  PROVE  NotesKept'
<1>0. NotesKept
  BY DEF TiersInv
<1>1. CASE Collect \/ AddonPass \/ RulePass \/ AnalyzeAddonTier
  <2>1. outcome' = outcome /\ stage \notin {"fold", "done"} /\ stage' \notin {"fold", "done"}
    BY <1>1, Frames, StageMoves DEF notes
  <2> QED BY <1>0, <2>1 DEF NotesKept, Clear
<1>2. CASE AnalyzeNotes
  <2>1. outcome' = Concluded /\ stage' = "fold"
    BY <1>2, StageMoves DEF AnalyzeNotes, SettleNotes, Concluded
  <2>2. Concluded' = Concluded
    BY <1>2, Frames, OutcomesStill
  <2> QED BY <2>1, <2>2 DEF NotesKept
<1>3. CASE FoldDuplicates \/ Report \/ UNCHANGED vars
  <2>1. outcome' = outcome /\ (stage' \in {"fold", "done"} <=> stage \in {"fold", "done"}) /\ Still
    BY <1>3, Frames, StageMoves
  <2>2. Concluded' = Concluded
    BY <2>1, OutcomesStill
  <2> QED BY <1>0, <2>1, <2>2 DEF NotesKept, Clear
<1> QED BY <1>1, <1>2, <1>3 DEF Next, Done

-----------------------------------------------------------------------------
(* The fold. *)
LEMMA SameChangeBack ==
  ASSUME NEW r, NEW s, SameChange(r, s)
  PROVE  SameChange(s, r)
BY DEF SameChange, SameDetection

(* Nothing is folded before there is an outcome. *)
LEMMA NothingFolded ==
  ASSUME TiersInv, stage \notin {"fold", "done"}
  PROVE  FiredNotes = {} /\ folded = {} /\ Retained = {} /\ \A r \in Notes : duplicateOf[r] = 0
<1>1. FiredNotes = {}
  BY DEF TiersInv, NotesKept, FiredNotes, Clear
<1> QED BY <1>1 DEF TiersInv, FoldKept, Retained

LEMMA FoldStep ==
  ASSUME TiersInv, [Next]_vars
  PROVE  FoldKept'
<1>0. TypeOK /\ FoldKept
  BY DEF TiersInv
<1>1. CASE FoldDuplicates
  <2>1. /\ UNCHANGED outcome /\ FiredNotes' = FiredNotes
        /\ \A q, t : SameChange(q, t)' = SameChange(q, t)
    BY <1>1, Frames DEF FiredNotes, SameChange, SameDetection
  <2>2. PICK r \in FiredNotes \ folded :
          /\ \A s \in FiredNotes \ folded : Before(r, s)
          /\ folded' = folded \cup {r}
          /\ \/ /\ \A s \in Retained : ~SameChange(r, s)
                /\ UNCHANGED duplicateOf
             \/ \E s \in Retained : Earlier(r, s) /\ duplicateOf' = [duplicateOf EXCEPT ![r] = s]
    BY <1>1 DEF FoldDuplicates, Fold
  <2>3. r \in Notes /\ r \notin folded /\ duplicateOf[r] = 0 /\ folded \subseteq Notes
    BY <1>0, <2>2 DEF FiredNotes, FoldKept
  <2>4. folded' \subseteq FiredNotes'
    BY <1>0, <2>1, <2>2 DEF FoldKept
  <2>5. \A q \in folded', t \in FiredNotes' \ folded' : Before(q, t)
    BY <1>0, <2>1, <2>2 DEF FoldKept
  <2>6. CASE (\A s \in Retained : ~SameChange(r, s)) /\ UNCHANGED duplicateOf
    <3>1. Retained' = Retained \cup {r}
      BY <2>2, <2>3, <2>6 DEF Retained
    <3>2. \A q \in Notes : duplicateOf'[q] # 0 =>
            /\ q \in folded' /\ duplicateOf'[q] \in Retained'
            /\ SameChange(q, duplicateOf'[q]) /\ Before(duplicateOf'[q], q)
      BY <1>0, <2>2, <2>6, <3>1 DEF FoldKept
    <3>3. \A q, t \in Retained' : SameChange(q, t) => q = t
      BY <1>0, <2>6, <3>1, SameChangeBack DEF FoldKept
    <3> QED BY <2>1, <2>4, <2>5, <3>2, <3>3 DEF FoldKept
  <2>7. CASE \E s \in Retained : Earlier(r, s) /\ duplicateOf' = [duplicateOf EXCEPT ![r] = s]
    <3>1. PICK s \in Retained : Earlier(r, s) /\ duplicateOf' = [duplicateOf EXCEPT ![r] = s]
      BY <2>7
    <3>2. s \in folded /\ s \in Notes /\ s # 0
      BY <2>3, <3>1, NotesAssumption DEF Retained
    <3>3. duplicateOf'[r] = s /\ \A q \in Notes \ {r} : duplicateOf'[q] = duplicateOf[q]
      BY <1>0, <2>3, <3>1 DEF TypeOK
    <3>4. Retained' = Retained
      BY <2>2, <2>3, <3>2, <3>3 DEF Retained
    <3>5. SameChange(r, s) /\ Before(s, r)
      BY <1>0, <2>2, <3>1, <3>2 DEF Earlier, FoldKept
    <3>6. \A q \in Notes : duplicateOf'[q] # 0 =>
            /\ q \in folded' /\ duplicateOf'[q] \in Retained'
            /\ SameChange(q, duplicateOf'[q]) /\ Before(duplicateOf'[q], q)
      BY <1>0, <2>2, <3>1, <3>3, <3>4, <3>5 DEF FoldKept
    <3>7. \A q, t \in Retained' : SameChange(q, t) => q = t
      BY <1>0, <3>4 DEF FoldKept
    <3> QED BY <2>1, <2>4, <2>5, <3>6, <3>7 DEF FoldKept
  <2> QED BY <2>2, <2>6, <2>7
<1>2. CASE AnalyzeNotes
  <2>1. folded = {} /\ Retained = {} /\ \A r \in Notes : duplicateOf[r] = 0
    BY <1>2, NothingFolded, StageMoves
  <2>2. folded' = folded /\ duplicateOf' = duplicateOf
    BY <1>2, Frames
  <2> QED BY <2>1, <2>2 DEF FoldKept, Retained
<1>3. CASE Collect \/ AddonPass \/ RulePass \/ AnalyzeAddonTier \/ Report \/ UNCHANGED vars
  <2>1. UNCHANGED <<outcome, folded, duplicateOf>>
    BY <1>3, Frames DEF notes
  <2>2. /\ FiredNotes' = FiredNotes /\ Retained' = Retained
        /\ \A q, t : SameChange(q, t)' = SameChange(q, t)
    BY <2>1 DEF FiredNotes, Retained, SameChange, SameDetection
  <2> QED BY <1>0, <2>1, <2>2 DEF FoldKept
<1> QED BY <1>1, <1>2, <1>3 DEF Next, Done

(* The report says what was folded. *)
LEMMA ReportStep ==
  ASSUME TiersInv, [Next]_vars
  PROVE  ReportKept'
<1>0. ReportKept
  BY DEF TiersInv
<1>1. CASE Collect \/ AddonPass \/ RulePass \/ AnalyzeAddonTier \/ AnalyzeNotes \/ FoldDuplicates
  <2>1. noteVerdict' = noteVerdict /\ stage # "done" /\ stage' # "done"
    BY <1>1, Frames, StageMoves DEF notes
  <2> QED BY <1>0, <2>1 DEF ReportKept
<1>2. CASE Report \/ UNCHANGED vars
  <2>1. Still /\ UNCHANGED <<outcome, folded, duplicateOf>>
    BY <1>2, Frames
  <2>2. FiredNotes' = FiredNotes /\ Retained' = Retained
        /\ \A r : NoteFinding(r)' = NoteFinding(r)
    BY <2>1 DEF FiredNotes, Retained, NoteFinding, alsoRaisedBy
  <2>3. onPath' = onPath /\ \A r \in Notes : Detects(r)' = Detects(r)
    BY <2>1, PathStill DEF Still, inventory
  <2>4. CASE Report
    <3>1. /\ FiredNotes \subseteq folded /\ stage' = "done"
          /\ noteVerdict'.findings = {NoteFinding(r) : r \in Retained}
               \cup {Advisory(r) : r \in {q \in onPath : Note[q].does = "advises"}}
          /\ noteVerdict'.gaps = {r \in Notes : Detects(r) /\ outcome[r].state = "declined"}
      BY <2>4, StageMoves DEF Report, ReportNotes
    <3>2. {NoteFinding(r)' : r \in Retained'} = {NoteFinding(r) : r \in Retained}
      BY <2>2
    <3>3. {r \in Notes : Detects(r)' /\ outcome'[r].state = "declined"}
           = {r \in Notes : Detects(r) /\ outcome[r].state = "declined"}
      BY <2>1, <2>3
    <3> QED BY <2>1, <2>2, <2>3, <3>1, <3>2, <3>3 DEF ReportKept, Advisory
  <2>5. CASE UNCHANGED vars
    <3>1. noteVerdict' = noteVerdict /\ stage' = stage
      BY <2>5, Frames
    <3>2. {NoteFinding(r)' : r \in Retained'} = {NoteFinding(r) : r \in Retained}
      BY <2>2
    <3>3. {r \in Notes : Detects(r)' /\ outcome'[r].state = "declined"}
           = {r \in Notes : Detects(r) /\ outcome[r].state = "declined"}
      BY <2>1, <2>3
    <3> QED BY <1>0, <2>1, <2>2, <2>3, <3>1, <3>2, <3>3 DEF ReportKept, Advisory
  <2> QED BY <1>2, <2>4, <2>5
<1> QED BY <1>1, <1>2 DEF Next, Done

LEMMA InvStep == TiersInv /\ [Next]_vars => TiersInv'
<1> SUFFICES ASSUME TiersInv, [Next]_vars PROVE TiersInv'
  OBVIOUS
<1>1. TypeOK'
  BY RowsTypeStep, AddonTypeStep, NotesTypeStep, TypePartsNext
<1> QED BY <1>1, RowsStep, AddonStep, NotesStep, FoldStep, ReportStep DEF TiersInv

LEMMA InvHolds == Spec => []TiersInv
<1>1. Init => TiersInv
  BY InitHolds
<1>2. TiersInv /\ [Next]_vars => TiersInv'
  BY InvStep
<1> QED BY <1>1, <1>2, PTL DEF Spec

-----------------------------------------------------------------------------
(* Every variable keeps to its type, through both passes, both tiers and   *)
(* the fold.                                                               *)
THEOREM TypeCorrect == Spec => []TypeOK
<1>1. TiersInv => TypeOK
  BY DEF TiersInv
<1> QED BY <1>1, InvHolds, PTL

(* With no version to read, the window finding is about just that, or about *)
(* there being no window to look it up in.                                  *)
LEMMA UnreadIsSaid ==
  ASSUME tag = 0
  PROVE  \E f \in windowFinding : f.rule \in {"version", "no vendor data"}
BY DEF windowFinding, AddonFinding

(* A rule of the upgrade is on the path, unless the tier before it says the *)
(* add-on could not be told.                                               *)
LEMMA BroughtIsOnPath ==
  ASSUME TiersInv, stage \in Judged, NEW r \in Notes, Brings(r),
         ~(Note[r].source = "addon" /\ AddonUnresolved)
  PROVE  OnPath(r)
<1>1. CASE Note[r].source # "addon"
  BY <1>1 DEF Brings, OnPath
<1>2. CASE Note[r].source = "addon"
  <2>1. ~AddonUnresolved /\ Between(r, installed, Required)
    BY <1>2 DEF Brings
  <2>2. addonVerdict = AddonJudged
    BY DEF TiersInv, AddonKept
  <2>3. "workloads" \in collected
    BY <2>1, <2>2 DEF AddonUnresolved, AddonJudged
  <2>4. tag # 0
    <3> SUFFICES ASSUME tag = 0 PROVE FALSE
      OBVIOUS
    <3>1. windowFinding \subseteq addonVerdict.findings
      BY <2>2, <2>3 DEF AddonJudged
    <3> QED BY <2>1, <3>1, UnreadIsSaid DEF AddonUnresolved
  <2>5. tag = installed
    BY <2>4 DEF TiersInv, TypeOK
  <2>6. tag < Required
    <3>1. installed \in Nat /\ Required \in Nat /\ Note[r].at \in Nat
      BY AddonRulesAssumption, NotesAssumption DEF TiersInv, TypeOK
    <3> QED BY <2>1, <2>5, <3>1 DEF Between
  <2> QED BY <1>2, <2>1, <2>3, <2>4, <2>5, <2>6 DEF OnPath, HopResolved
<1> QED BY <1>1, <1>2

LEMMA NotesShow ==
  ASSUME TiersInv
  PROVE  NoteBreaksShow
<1> SUFFICES ASSUME stage = "done", NEW r \in Notes, NEW o \in DOMAIN cluster \ Unnamed,
                    Note[r].does = "detects", Brings(r), Breaks(Note[r], o), GateMet(r, o),
                    ~(Note[r].source = "addon" /\ AddonUnresolved)
             PROVE  \/ \E f \in noteVerdict.findings : r = f.rule \/ r \in f.also
                    \/ r \in noteVerdict.gaps
  BY DEF NoteBreaksShow
<1>1. Detects(r)
  BY BroughtIsOnPath DEF Judged, Detects
<1>2. Outcome(r).state \in {"declined", "fired"}
  BY <1>1, OutcomeShows DEF TiersInv, Read2, Judged
<1>3. outcome[r] = Outcome(r)
  BY <1>1 DEF TiersInv, NotesKept, Concluded
<1>4. CASE outcome[r].state = "declined"
  BY <1>1, <1>4 DEF TiersInv, ReportKept
<1>5. CASE outcome[r].state = "fired"
  <2>1. r \in folded
    BY <1>5 DEF TiersInv, ReportKept, FiredNotes
  <2>2. CASE duplicateOf[r] = 0
    <3>1. NoteFinding(r) \in noteVerdict.findings
      BY <2>1, <2>2 DEF TiersInv, ReportKept, Retained
    <3> QED BY <3>1 DEF NoteFinding
  <2>3. CASE duplicateOf[r] # 0
    <3>1. duplicateOf[r] \in Retained
      BY <2>3 DEF TiersInv, FoldKept
    <3>2. NoteFinding(duplicateOf[r]) \in noteVerdict.findings
      BY <3>1 DEF TiersInv, ReportKept
    <3>3. r \in NoteFinding(duplicateOf[r]).also
      BY <2>1 DEF NoteFinding, alsoRaisedBy
    <3> QED BY <3>2, <3>3
  <2> QED BY <2>2, <2>3
<1> QED BY <1>2, <1>3, <1>4, <1>5

(* An add-on rule that applies and is offended, is fired, skipped, or       *)
(* beside a row that admits why it judged cut-down rows.                   *)
LEMMA AddonsShow ==
  ASSUME TiersInv
  PROVE  AddonOffencesShow
<1> SUFFICES ASSUME stage = "done", NEW r \in AddonRuleIds, AppliesTo(r, installed), Offends(r),
                    ~AddonUnresolved
             PROVE  \/ \E f \in addonVerdict.findings : f.rule = r
                    \/ r \in addonVerdict.skipped
                    \/ \E k \in AddonRule[r].on :
                         /\ CRs[k] = "projected"
                         /\ k \in CRNotServed \/ passRow["custom resources"] \in {"partial", "unavailable"}
  BY DEF AddonOffencesShow
<1>1. addonVerdict = AddonJudged
  BY DEF TiersInv, AddonKept, Judged
<1>2. "workloads" \in collected
  BY <1>1 DEF AddonUnresolved, AddonJudged
<1>3. tag = installed
  <2> SUFFICES ASSUME tag = 0 PROVE FALSE
    BY DEF TiersInv, TypeOK
  <2>1. windowFinding \subseteq addonVerdict.findings
    BY <1>1, <1>2 DEF AddonJudged
  <2> QED BY <2>1, UnreadIsSaid DEF AddonUnresolved
<1>4. r \in Evaluated
  <2>1. installed # 0
    BY AddonRulesAssumption DEF TiersInv, TypeOK
  <2> QED BY <1>3, <2>1 DEF AppliesTo, Evaluated, gateAllows
<1>5. CASE Declines(r)
  BY <1>1, <1>2, <1>4, <1>5 DEF AddonJudged
<1>6. ASSUME ~Declines(r), Fires(r)
      PROVE  \E f \in addonVerdict.findings : f.rule = r
  <2> DEFINE F == AddonFinding(r, IF AddonRule[r].predicate = "rows" THEN RowOffenders(r) ELSE {})
  <2>1. F \in ruleFindings
    BY <1>4, <1>6 DEF ruleFindings
  <2>2. F \in addonVerdict.findings
    BY <1>1, <1>2, <2>1 DEF AddonJudged
  <2>3. F.rule = r
    BY DEF AddonFinding
  <2> QED BY <2>2, <2>3
<1>7. CASE ~Declines(r) /\ AddonRule[r].predicate # "rows"
  <2>1. CRDs # {} /\ CRDs = ObjectsOf({"CustomResourceDefinition"})
    BY <1>7 DEF Declines, CRDs
  <2>2. Fires(r)
    BY <1>7, <2>1, AddonRulesAssumption DEF Offends, Fires
  <2> QED BY <1>6, <1>7, <2>2
<1>8. CASE ~Declines(r) /\ AddonRule[r].predicate = "rows"
  <2>1. gateSatisfied(r) /\ \E o \in ObjectsOf(AddonRule[r].on) : True(o, AddonRule[r].fact)
    BY <1>8 DEF Offends
  <2>2. PICK o \in ObjectsOf(AddonRule[r].on) : True(o, AddonRule[r].fact)
    BY <2>1
  <2> DEFINE k == cluster[o].kind
             f == AddonRule[r].fact
  <2>3. /\ o \in DOMAIN cluster /\ k \in AddonRule[r].on /\ k \in Kinds
        /\ cluster[o].has \subseteq Facts /\ k \in served
        /\ f = "any" \/ f \in cluster[o].has
    BY <2>2, ObjectTypes DEF TiersInv, ObjectsOf, RowsKept, True
  <2>4. customRows(k) \in Readable
    BY <1>8, <2>3 DEF Declines, KindWasRead
  <2>5. \/ CRs[k] = "projected" /\ k \in Asked \ {"Ingress", "ConfigMap"} /\ customRows(k) = "projected"
        \/ customRows(k) = "full"
        \/ customRows(k) = "typed" /\ k \in {"Ingress", "ConfigMap"}
    <3>1. CRs[k] \in {"none", "full", "projected"}
      BY <2>3 DEF TiersInv, TypeOK
    <3> HIDE DEF k
    <3> QED BY <2>4, <3>1 DEF customRows, Readable
  <2>6. CASE CRs[k] = "projected" /\ k \in Asked \ {"Ingress", "ConfigMap"}
    <3>1. k \in (Asked \ {"Ingress", "ConfigMap", "Secret"}) \cap served
      BY <2>3, <2>6, SecretsAssumption
    <3>2. k \in CRNotServed \/ passRow["custom resources"] \in {"partial", "unavailable"}
      <4> HIDE DEF k
      <4> QED BY <2>6, <3>1 DEF TiersInv, RowsKept, Read1, Read2, Judged
    <3> QED BY <2>3, <2>6, <3>2
  <2>7. CASE customRows(k) = "full" \/ (customRows(k) = "typed" /\ k \in {"Ingress", "ConfigMap"})
    <3>1. f # "any" => f \in Visible(k, customRows(k))
      <4>1. CASE customRows(k) = "full"
        BY <2>3, <4>1 DEF Visible
      <4>2. CASE customRows(k) = "typed" /\ k \in {"Ingress", "ConfigMap"}
        BY <2>3, <4>2, TypedRowsAssumption DEF Visible
      <4> QED BY <2>7, <4>1, <4>2
    <3>2. Shows(o, f, customRows(k))
      BY <2>3, <3>1 DEF Shows
    <3>3. o \in RowOffenders(r)
      BY <2>2, <3>2 DEF RowOffenders
    <3>4. Fires(r)
      BY <1>8, <2>1, <3>3 DEF Fires
    <3> QED BY <1>6, <1>8, <3>4
  <2> QED BY <2>5, <2>6, <2>7
<1> QED BY <1>5, <1>7, <1>8

(* An object that breaks under a rule of the upgrade leads to its finding,  *)
(* to the one it was folded into or to a gap that counts the rule; what an  *)
(* add-on rule looks for is found, listed as not evaluated, or stands       *)
(* beside a row that admits why it could not be seen.  Whatever lists fail; *)
(* but for the kinds discovery did not name, for which nothing is said.    *)
THEOREM NothingGoesMissing == Spec => []BreaksShow
<1>1. TiersInv => BreaksShow
  BY NotesShow, AddonsShow DEF BreaksShow
<1> QED BY <1>1, InvHolds, PTL

LEMMA NotesTrue ==
  ASSUME TiersInv
  PROVE  NoteAlarmsTrue
<1> SUFFICES ASSUME NEW f \in noteVerdict.findings, NEW r \in {f.rule} \cup f.also, NEW o \in f.on
             PROVE  /\ Breaks(Note[r], o)
                    /\ Gated(r) => \E p \in DOMAIN cluster : Breaks(Note[r].gate, p)
                    /\ Gated(r) /\ outcome[r].narrowed => Breaks(Note[r].gate, o)
  BY DEF NoteAlarmsTrue
<1>1. stage = "done"
  BY DEF TiersInv, ReportKept
<1>2. PICK s \in Retained : f = NoteFinding(s)
  <2>1. \A q : Advisory(q).on = {}
    BY DEF Advisory
  <2>2. \A q : f # Advisory(q)
    BY <2>1
  <2> QED BY <1>1, <2>2 DEF TiersInv, ReportKept
<1>3. /\ r \in Notes /\ s \in Notes
      /\ outcome[r].affected = outcome[s].affected
  <2>1. folded \subseteq Notes
    BY DEF TiersInv, TypeOK
  <2>2. CASE r = s
    BY <2>1, <2>2 DEF Retained
  <2>3. CASE r \in alsoRaisedBy(s)
    <3>1. r \in Notes /\ s \in Notes /\ s # 0 /\ duplicateOf[r] = s
      BY <2>1, <2>3, NotesAssumption DEF alsoRaisedBy, Retained
    <3> QED BY <3>1 DEF TiersInv, FoldKept, SameChange
  <2> QED BY <1>2, <2>2, <2>3 DEF NoteFinding
<1>4. o \in outcome[r].affected
  BY <1>2, <1>3 DEF NoteFinding
<1>5. outcome[r] = Outcome(r)
  <2>1. outcome[r] = IF Detects(r) THEN Outcome(r) ELSE Clear
    BY <1>1, <1>3 DEF TiersInv, NotesKept, Concluded
  <2> QED BY <1>4, <2>1 DEF Clear
<1>6. /\ o \in Hits(Note[r])
      /\ Gated(r) => Hits(Note[r].gate) # {}
      /\ Gated(r) /\ outcome[r].narrowed => o \in Hits(Note[r].gate)
  BY <1>3, <1>4, <1>5, OutcomeTrue
<1> QED BY <1>6, HitsAreTrue

LEMMA AddonsTrue ==
  ASSUME TiersInv
  PROVE  AddonAlarmsTrue
<1> SUFFICES ASSUME NEW f \in addonVerdict.findings, f.rule \in AddonRuleIds
             PROVE  /\ AppliesTo(f.rule, installed) /\ Offends(f.rule)
                    /\ \A o \in f.on : True(o, AddonRule[f.rule].fact)
  BY DEF AddonAlarmsTrue
<1>1. f \in ruleFindings
  <2>1. f \in AddonJudged.findings
    BY DEF TiersInv, AddonKept, NoVerdict
  <2>2. AddonJudged.findings \subseteq windowFinding \cup ruleFindings
    BY DEF AddonJudged
  <2> QED BY <2>1, <2>2, WindowFindingType, AddonRulesAssumption
<1>2. PICK r \in Evaluated : /\ ~Declines(r) /\ Fires(r)
                             /\ f = AddonFinding(r, IF AddonRule[r].predicate = "rows" THEN RowOffenders(r) ELSE {})
  BY <1>1 DEF ruleFindings
<1>3. f.rule = r /\ r \in AddonRuleIds
      /\ f.on = IF AddonRule[r].predicate = "rows" THEN RowOffenders(r) ELSE {}
  BY <1>2 DEF AddonFinding, Evaluated
<1>4. AppliesTo(r, installed)
  <2>1. /\ AddonRule[r].atLeast \in Nat /\ AddonRule[r].below \in Nat
        /\ installed \in Nat /\ tag \in {0, installed}
    BY <1>3, AddonRulesAssumption DEF TiersInv, TypeOK
  <2>2. gateAllows(r)
    BY <1>2 DEF Evaluated
  <2> QED BY <2>1, <2>2 DEF gateAllows, AppliesTo
<1>5. \A o \in RowOffenders(r) : o \in ObjectsOf(AddonRule[r].on) /\ True(o, AddonRule[r].fact)
  BY DEF RowOffenders, Shows, True
<1>6. Offends(r)
  <2>1. CASE AddonRule[r].predicate = "rows"
    BY <1>2, <1>5, <2>1 DEF Fires, Offends
  <2>2. CASE AddonRule[r].predicate # "rows"
    <3>1. CRDs = ObjectsOf({"CustomResourceDefinition"})
      BY <1>2, <2>2 DEF Declines, CRDs
    <3> QED BY <1>2, <1>3, <2>2, <3>1, AddonRulesAssumption DEF Fires, Offends
  <2> QED BY <2>1, <2>2
<1> QED BY <1>3, <1>4, <1>5, <1>6

(* Whatever a finding of either tier names breaks under its rule and under  *)
(* every rule folded into it, and an add-on rule that fires is about the    *)
(* version that runs.                                                       *)
THEOREM NoFalseAlarm == Spec => []AlarmsTrue
<1>1. TiersInv => AlarmsTrue
  BY NotesTrue, AddonsTrue DEF AlarmsTrue
<1> QED BY <1>1, InvHolds, PTL

(* Whatever rules fire, the fold prints a change once and at its worst, and *)
(* leaves nothing out.                                                      *)
THEOREM OneCardPerChange == Spec => []CardPerChange
<1>1. ASSUME TiersInv, stage = "done" PROVE CardPerChange
  <2>1. ASSUME NEW r \in FiredNotes
        PROVE  \E f \in noteVerdict.findings :
                 /\ r = f.rule \/ (r \in f.also /\ f.rule \in FiredNotes)
                 /\ f.rank >= Note[r].rank /\ f.on = outcome[r].affected
    <3>0. \A q \in Notes : Note[q].rank \in Nat
      <4>1. \A q \in Notes : Note[q].rank \in 0 .. 5
        BY NotesAssumption
      <4> QED BY <4>1
    <3>1. r \in Notes /\ r \in folded /\ Note[r].rank \in Nat
      BY <1>1, <3>0 DEF TiersInv, ReportKept, FiredNotes
    <3>2. \A s \in Retained : NoteFinding(s) \in noteVerdict.findings
      BY <1>1 DEF TiersInv, ReportKept
    <3>3. CASE duplicateOf[r] = 0
      <4>1. NoteFinding(r) \in noteVerdict.findings
        BY <3>1, <3>2, <3>3 DEF Retained
      <4> QED BY <3>1, <4>1 DEF NoteFinding
    <3>4. CASE duplicateOf[r] # 0
      <4> DEFINE s == duplicateOf[r]
      <4>1. s \in Retained /\ SameChange(r, s) /\ Before(s, r)
        BY <1>1, <3>1, <3>4 DEF TiersInv, FoldKept
      <4>2. s \in FiredNotes /\ Note[s].rank \in Nat
        BY <1>1, <3>0, <4>1 DEF TiersInv, FoldKept, Retained, FiredNotes
      <4>3. Note[s].rank >= Note[r].rank
        BY <3>1, <4>1, <4>2 DEF Before
      <4>4. r \in NoteFinding(s).also /\ NoteFinding(s).rule = s /\ NoteFinding(s).rank = Note[s].rank
            /\ NoteFinding(s).on = outcome[r].affected
        BY <3>1, <4>1 DEF NoteFinding, alsoRaisedBy, SameChange
      <4> HIDE DEF s
      <4> QED BY <3>2, <4>1, <4>2, <4>3, <4>4
    <3> QED BY <3>3, <3>4
  <2>2. \A r, s \in Retained : SameChange(r, s) => r = s
    BY <1>1 DEF TiersInv, FoldKept
  <2> QED BY <2>1, <2>2 DEF CardPerChange
<1>2. TiersInv => CardPerChange
  BY <1>1 DEF CardPerChange
<1> QED BY <1>2, InvHolds, PTL
=============================================================================
