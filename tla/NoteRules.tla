------------------------------ MODULE NoteRules ------------------------------
(* The release-note rules (package generated): which are on the path, which *)
(* kinds they ask for, what each concludes from the rows, and the fold that *)
(* prints one change once.                                                  *)
(*                                                                          *)
(* A rule asks one question - among the objects of these kinds that have    *)
(* `among', does any have `fact' - and may ask another as its gate.  A rule *)
(* with `must' has no answer when it finds nobody to ask: no object of the  *)
(* name it asks about, no version it can read.                              *)
EXTENDS AddonRules, CapNamed

CONSTANTS
  Notes,       \* rules in catalog order, as numbers
  Note,        \* what each says
  Paths,       \* [current, target] of the upgrades asked about, as minors
  Required     \* the add-on version the target forces, or the catalog's latest

Question(q) ==
  /\ q.on \subseteq Kinds
  /\ q.among \in Facts \cup {"any"} /\ q.fact \in Facts \cup {"any"}

ASSUME NotesAssumption ==
  /\ IsFiniteSet(Notes) /\ Notes \subseteq Nat \ {0}
  /\ \A r \in Notes :
       /\ Note[r].source \in {"kubernetes", "always", "addon"}
       /\ Note[r].does \in {"detects", "advises", "is the catalog's"}
       /\ Note[r].at \in Nat /\ Note[r].rank \in 0 .. 5
       /\ Note[r].scans \in BOOLEAN /\ Note[r].must \in BOOLEAN
       /\ Question(Note[r]) /\ Question(Note[r].gate) /\ Question(Note[r].hint)
  /\ \A p \in Paths : p.current \in Nat /\ p.target \in Nat \ {0}
  /\ Required \in Nat

(* Rules ask of a kind a typed collector lists only what it records.        *)
ASSUME RecordedAssumption ==
  \A r \in Notes : \A q \in {Note[r], Note[r].gate} :
    \A k \in q.on \cap (ByCollector \cup {"StorageClass"}) :
      {q.among, q.fact} \ {"any"} \subseteq Recorded[k]

VARIABLES
  path,        \* the upgrade, fixed for the run
  gone,        \* kindless rules whose API discovery knows is not served
  outcome,     \* what each rule on the path concluded
  folded,      \* rules foldDuplicates has been through
  duplicateOf, \* the retained rule each was folded into, 0 for none
  noteVerdict  \* findings and coverage rows

notes == <<path, gone, outcome, folded, duplicateOf, noteVerdict>>

Kindless == {r \in Notes : Note[r].does = "detects" /\ Note[r].on = {}}

Clear       == [state |-> "clear", affected |-> {}, matched |-> 0, narrowed |-> FALSE]
Declined    == [Clear EXCEPT !.state = "declined"]
fired(objects, n, narrowed) ==
  [state |-> "fired", affected |-> objects, matched |-> n, narrowed |-> narrowed]

NotesInit ==
  /\ path \in Paths
  /\ gone \in SUBSET Kindless
  /\ outcome = [r \in Notes |-> Clear]
  /\ folded = {}
  /\ duplicateOf = [r \in Notes |-> 0]
  /\ noteVerdict = [findings |-> {}, gaps |-> {}, skipped |-> {}]

-----------------------------------------------------------------------------
(* Selection.                                                               *)

(* forcedHop: the add-on is seen, its version is read, and it must move: to *)
(* the lowest that covers the target or, without a matrix, to the latest.   *)
HopResolved == "workloads" \in collected /\ tag # 0 /\ tag < Required

Between(r, from, to) == Note[r].at # 0 /\ from < Note[r].at /\ Note[r].at <= to

(* A current version that does not parse is 0 and widens the path.          *)
OnPath(r) ==
  \/ Note[r].source = "always"
  \/ Note[r].source = "kubernetes" /\ Between(r, path.current, path.target)
  \/ Note[r].source = "addon" /\ HopResolved /\ Between(r, tag, Required)

onPath == {r \in Notes : OnPath(r)}

(* The questions whose kinds are to be listed.                              *)
QuestionsOf(r) ==
  {Note[r].hint, Note[r].gate} \cup (IF Note[r].does = "detects" THEN {Note[r]} ELSE {})

Wants == UNION {q.on : q \in UNION {QuestionsOf(r) : r \in onPath}}

\* Mutant: a later rule's keys replace those of an earlier one.
KeepLast ==
  [k \in Kinds |->
     LET asking == {r \in onPath : \E q \in QuestionsOf(r) : k \in q.on}
         last   == CHOOSE r \in asking : \A s \in asking : s <= r
     IN  IF asking = {} THEN {}
         ELSE (UNION {{q.among, q.fact} : q \in {p \in QuestionsOf(last) : k \in p.on}}) \cap Facts]

(* The keys each kind's rows are to carry.                                  *)
Keep ==
  [k \in Kinds |->
     (UNION {{q.among, q.fact} : q \in {p \in UNION {QuestionsOf(r) : r \in onPath} : k \in p.on}})
     \cap Facts]

-----------------------------------------------------------------------------
(* One rule.                                                                *)

ByTyped(collector) == IF collector \in collected THEN "typed" ELSE "unread"

\* Mutant: what discovery did not name asked before what a list refused.
rowsOfUnnamedFirst(k) ==
  IF k = "Node" THEN ByTyped("nodes")
  ELSE IF k = "CustomResourceDefinition" THEN ByTyped("crds")
  ELSE IF k = "kube-proxy" THEN ByTyped("workloads")
  ELSE IF CRs[k] # "none" THEN CRs[k]
  ELSE IF k = "StorageClass" THEN ByTyped("storage")
  ELSE IF k \in CRNotServed THEN "not served"
  ELSE IF k \in CRUnread THEN "unread" ELSE "not collected"

rowsOf(k) ==
  IF k = "Node" THEN ByTyped("nodes")
  ELSE IF k = "CustomResourceDefinition" THEN ByTyped("crds")
  ELSE IF k = "kube-proxy" THEN ByTyped("workloads")
  ELSE IF CRs[k] # "none" THEN CRs[k]
  ELSE IF k = "StorageClass" THEN ByTyped("storage")
  ELSE IF k \in CRUnread THEN "unread"
  ELSE IF k \in CRNotServed THEN "not served" ELSE "not collected"

(* A question on several kinds has no answer when one of them was not read. *)
Unsettled(q) == \E k \in q.on : rowsOf(k) \in {"unread", "not collected"}
Applies(q)   == \E k \in q.on : rowsOf(k) \in Readable

subject(q) == {o \in ObjectsOf(q.on) : Shows(o, q.among, rowsOf(cluster[o].kind))}
Hits(q)    == {o \in subject(q) : Shows(o, q.fact, rowsOf(cluster[o].kind))}

Gated(r)    == Note[r].gate.on # {}
Narrows(r)  == Note[r].scans /\ Cardinality(Note[r].on) = 1 /\ Note[r].gate.on = Note[r].on

declinedFor(r) ==
  \/ r \in Kindless /\ r \notin gone
  \/ Unsettled(Note[r])
  \/ Note[r].must /\ Applies(Note[r]) /\ subject(Note[r]) = {}

\* Mutant: a list narrowed to nothing always clears.
narrowedOrClear(r) ==
  LET named == capNamed(Hits(Note[r]))
      both  == named \cap Hits(Note[r].gate)
  IN  IF both # {} THEN fired(both, Cardinality(both), TRUE) ELSE Clear

(* The gate reads the kind the rule reads: of the objects already named,    *)
(* those that open it.  None of a list that is full decides nothing.        *)
narrowed(r) ==
  LET named == capNamed(Hits(Note[r]))
      both  == named \cap Hits(Note[r].gate)
  IN  IF both # {} THEN fired(both, Cardinality(both), TRUE)
      ELSE IF Cardinality(named) >= Cap THEN fired(named, Cardinality(Hits(Note[r])), FALSE)
      ELSE Clear

\* Mutant: a gate that could not be read taken for one nothing opens.
OutcomeUngated(r) ==
  IF declinedFor(r) THEN Declined
  ELSE IF Hits(Note[r]) = {} \/ (Gated(r) /\ Hits(Note[r].gate) = {}) THEN Clear
  ELSE IF Gated(r) /\ Narrows(r) THEN narrowed(r)
  ELSE fired(capNamed(Hits(Note[r])), Cardinality(Hits(Note[r])), FALSE)

Outcome(r) ==
  IF declinedFor(r) \/ (Gated(r) /\ Unsettled(Note[r].gate)) THEN Declined
  ELSE IF Hits(Note[r]) = {} \/ (Gated(r) /\ Hits(Note[r].gate) = {}) THEN Clear
  ELSE IF Gated(r) /\ Narrows(r) THEN narrowed(r)
  ELSE fired(capNamed(Hits(Note[r])), Cardinality(Hits(Note[r])), FALSE)

Detects(r) == OnPath(r) /\ Note[r].does = "detects"

SettleNotes ==
  /\ outcome' = [r \in Notes |-> IF Detects(r) THEN Outcome(r) ELSE Clear]
  /\ UNCHANGED <<cluster, served, inventory, addon, path, gone, folded, duplicateOf, noteVerdict>>

-----------------------------------------------------------------------------
(* foldDuplicates, one outcome after another.                               *)

FiredNotes == {r \in Notes : outcome[r].state = "fired"}

\* Mutant: only the version decides which card is kept.
BeforeByVersion(r, s) ==
  Note[r].at < Note[s].at \/ (Note[r].at = Note[s].at /\ r <= s)

(* The most severe first, then the earliest version, then catalog order.    *)
Before(r, s) ==
  \/ Note[r].rank > Note[s].rank
  \/ /\ Note[r].rank = Note[s].rank
     /\ Note[r].at < Note[s].at \/ (Note[r].at = Note[s].at /\ r <= s)

SameDetection(r, s) ==
  \A field \in {"slug", "on", "among", "fact"} : Note[r][field] = Note[s][field]

\* Mutant: the objects left out of the quote's key.
SameChangeAnywhere(r, s) ==
  \/ Note[r].quote = Note[s].quote
  \/ SameDetection(r, s) /\ outcome[r].affected = outcome[s].affected

SameChange(r, s) ==
  /\ outcome[r].affected = outcome[s].affected
  /\ SameDetection(r, s) \/ Note[r].quote = Note[s].quote

Retained == {r \in folded : duplicateOf[r] = 0}

(* The detection's key is looked up before the quote's.                     *)
Earlier(r, s) ==
  /\ s \in Retained /\ SameChange(r, s)
  /\ ~SameDetection(r, s) => \A t \in Retained : ~(SameChange(r, t) /\ SameDetection(r, t))

Fold ==
  /\ \E r \in FiredNotes \ folded :
       /\ \A s \in FiredNotes \ folded : Before(r, s)
       /\ folded' = folded \cup {r}
       /\ \/ /\ \A s \in Retained : ~SameChange(r, s)
             /\ UNCHANGED duplicateOf
          \/ \E s \in Retained : Earlier(r, s) /\ duplicateOf' = [duplicateOf EXCEPT ![r] = s]
  /\ UNCHANGED <<cluster, served, inventory, addon, path, gone, outcome, noteVerdict>>

-----------------------------------------------------------------------------
alsoRaisedBy(r) == {s \in folded : duplicateOf[s] = r}

NoteFinding(r) ==
  [rule |-> r, on |-> outcome[r].affected, matched |-> outcome[r].matched,
   rank |-> Note[r].rank, also |-> alsoRaisedBy(r)]

Advisory(r) == [rule |-> r, on |-> {}, matched |-> 0, rank |-> 1, also |-> {}]

(* Rules that declined are counted in the gap of what they could not read.  *)
ReportNotes ==
  /\ FiredNotes \subseteq folded
  /\ noteVerdict' =
       [findings |-> {NoteFinding(r) : r \in Retained}
                     \cup {Advisory(r) : r \in {q \in onPath : Note[q].does = "advises"}},
        gaps     |-> {r \in Notes : Detects(r) /\ outcome[r].state = "declined"},
        skipped  |-> IF HopResolved THEN {} ELSE {"addon"}]
  /\ UNCHANGED <<cluster, served, inventory, addon, path, gone, outcome, folded, duplicateOf>>
=============================================================================
