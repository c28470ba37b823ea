------------------------------ MODULE RuleTiers ------------------------------
(* The two tiers of rules over one inventory: the collectors, the add-on    *)
(* pass, the add-on tier's hop that decides which release-note rules are on *)
(* the path and so which kinds the second pass reads, and then both tiers'  *)
(* judgements (runCheck, internal/cli/check.go).                            *)
EXTENDS NoteRules

VARIABLE stage

vars == <<cluster, served, inventory, addon, notes, stage>>

Init == RowsInit /\ AddonInit /\ NotesInit /\ stage = "collect"

Goes(from, to) == stage = from /\ stage' = to

Collect ==
  Goes("collect", "add-on pass") /\ CollectTyped /\ UNCHANGED <<addon, notes>>

AddonPass ==
  Goes("add-on pass", "rule pass") /\ CollectCustomResources /\ UNCHANGED <<addon, notes>>

RulePass ==
  Goes("rule pass", "add-ons") /\ CollectRuleObjects(Wants, Keep) /\ UNCHANGED <<addon, notes>>

AnalyzeAddonTier == Goes("add-ons", "rules") /\ AnalyzeAddons /\ UNCHANGED notes

AnalyzeNotes == Goes("rules", "fold") /\ SettleNotes

FoldDuplicates == Goes("fold", "fold") /\ Fold

Report == Goes("fold", "done") /\ ReportNotes

Done == stage = "done" /\ UNCHANGED vars

Next ==
  \/ Collect \/ AddonPass \/ RulePass
  \/ AnalyzeAddonTier
  \/ AnalyzeNotes \/ FoldDuplicates \/ Report
  \/ Done

Spec == Init /\ [][Next]_vars

-----------------------------------------------------------------------------
TypeOK ==
  /\ cluster \in Clusters /\ served \subseteq Kinds
  /\ collected \subseteq Collectors
  /\ CRs \in [Kinds -> {"none", "full", "projected"}]
  /\ CRUnread \subseteq Kinds /\ CRNotServed \subseteq Kinds
  /\ keep \in [Kinds -> SUBSET Facts]
  /\ passRow \in [Passes -> RowStates]
  /\ installed \in AddonVersions /\ tag \in {0, installed} /\ matrix \in BOOLEAN
  /\ addonVerdict.skipped \subseteq AddonRuleIds
  /\ \A f \in addonVerdict.findings : f.rule \in AddonRuleIds \cup {"version", "no vendor data"}
  /\ path \in Paths /\ gone \subseteq Kindless
  /\ outcome \in [Notes ->
       [state : {"clear", "declined", "fired"}, affected : SUBSET DOMAIN cluster,
        matched : Nat, narrowed : BOOLEAN]]
  /\ folded \subseteq Notes
  /\ duplicateOf \in [Notes -> Notes \cup {0}]
  /\ noteVerdict.gaps \subseteq Notes
  /\ \A f \in noteVerdict.findings : f.rule \in Notes /\ f.also \subseteq Notes
  /\ stage \in {"collect", "add-on pass", "rule pass", "add-ons", "rules", "fold", "done"}

(* What the rules are about, asked of the cluster itself.                   *)
Breaks(q, o) ==
  /\ o \in DOMAIN cluster /\ cluster[o].kind \in q.on
  /\ True(o, q.among) /\ True(o, q.fact)

(* Objects of a kind that no discovery named and no list was tried for: the *)
(* code takes the kind for one the server does not serve (connect.go:318,   *)
(* collect_cr.go:116), which clears a rule about it and closes a gate.      *)
Unnamed ==
  {o \in DOMAIN cluster :
     /\ cluster[o].kind \in CRNotServed \ (CRUnread \cup {"StorageClass"})
     /\ CRs[cluster[o].kind] = "none"}

GateMet(r, o) ==
  \/ ~Gated(r)
  \/ IF Narrows(r) THEN Breaks(Note[r].gate, o)
     ELSE \E p \in DOMAIN cluster \ Unnamed : Breaks(Note[r].gate, p)

(* The upgrade, and the move of the add-on it forces, bring this change.    *)
Brings(r) ==
  \/ Note[r].source = "always"
  \/ Note[r].source = "kubernetes" /\ Between(r, path.current, path.target)
  \/ Note[r].source = "addon" /\ Between(r, installed, Required)

(* The tier could not tell the add-on or its version; one without a matrix  *)
(* is then listed as such, with no version to it.                           *)
AddonUnresolved ==
  \/ addonVerdict.row = "unavailable"
  \/ tag = 0 /\ \E f \in addonVerdict.findings : f.rule \in {"version", "no vendor data"}

(* An object that breaks under a rule of this upgrade leads to a finding of *)
(* that rule, its own card or the one it was folded into, or to a gap that  *)
(* counts the rule; whichever lists failed, whichever pass read the kind    *)
(* and whatever its rows were cut down to.  The rules of an add-on that     *)
(* could not be told are behind a finding or a row of the add-on tier.      *)
(* Objects of a kind discovery did not name are excepted, as breaks and as  *)
(* what opens a gate: nothing in the report stands for them.                *)
NoteBreaksShow ==
  stage = "done" =>
    \A r \in Notes : \A o \in DOMAIN cluster \ Unnamed :
      Note[r].does = "detects" /\ Brings(r) /\ Breaks(Note[r], o) /\ GateMet(r, o) =>
        \/ \E f \in noteVerdict.findings : r = f.rule \/ r \in f.also
        \/ r \in noteVerdict.gaps
        \/ Note[r].source = "addon" /\ AddonUnresolved

(* Every object a card names breaks under its rule and under each rule      *)
(* folded into it, something opens each one's gate, and a list narrowed to  *)
(* a gate names only objects that open it.                                  *)
NoteAlarmsTrue ==
  \A f \in noteVerdict.findings : \A r \in {f.rule} \cup f.also : \A o \in f.on :
    /\ Breaks(Note[r], o)
    /\ Gated(r) => \E p \in DOMAIN cluster : Breaks(Note[r].gate, p)
    /\ Gated(r) /\ outcome[r].narrowed => Breaks(Note[r].gate, o)

(* Folding prints a change once and at its worst: a folded rule is listed   *)
(* on a card no less severe, on the same objects; no two cards are the same *)
(* change; nothing that fired is left out.                                  *)
CardPerChange ==
  stage = "done" =>
    /\ \A r \in FiredNotes :
         \E f \in noteVerdict.findings :
           /\ r = f.rule \/ (r \in f.also /\ f.rule \in FiredNotes)
           /\ f.rank >= Note[r].rank /\ f.on = outcome[r].affected
    /\ \A r, s \in Retained : SameChange(r, s) => r = s

(* What an add-on rule is about, asked of the cluster itself.               *)
Offends(r) ==
  LET defs == ObjectsOf({"CustomResourceDefinition"})
  IN  CASE AddonRule[r].predicate = "crdAbsent" -> \A o \in defs : ~True(o, AddonRule[r].fact)
        [] AddonRule[r].predicate = "crd"       -> \E o \in defs : True(o, AddonRule[r].fact)
        [] AddonRule[r].predicate = "rows"      ->
             gateSatisfied(r) /\ \E o \in ObjectsOf(AddonRule[r].on) : True(o, AddonRule[r].fact)

AppliesTo(r, version) ==
  /\ version >= AddonRule[r].atLeast
  /\ AddonRule[r].below # 0 => version < AddonRule[r].below

(* What an add-on rule looks for is reported, or the rule is listed as not  *)
(* evaluated, or the tier says it could not tell the add-on; a rule that    *)
(* judged rows the second pass had cut down stands beside a row of the      *)
(* first pass that admits the kind was not read, or is about a kind that    *)
(* pass's discovery did not name, which no row admits.                      *)
AddonOffencesShow ==
  stage = "done" =>
    \A r \in AddonRuleIds :
      AppliesTo(r, installed) /\ Offends(r) =>
        \/ \E f \in addonVerdict.findings : f.rule = r
        \/ r \in addonVerdict.skipped
        \/ AddonUnresolved
        \/ \E k \in AddonRule[r].on :
             /\ CRs[k] = "projected"
             /\ k \in CRNotServed \/ passRow["custom resources"] \in {"partial", "unavailable"}

(* Nothing of either tier goes missing but what discovery did not name.     *)
BreaksShow == NoteBreaksShow /\ AddonOffencesShow

(* An add-on rule that fires is about the version that runs and about what  *)
(* is in the cluster, for any objects it names.                             *)
AddonAlarmsTrue ==
  \A f \in addonVerdict.findings :
    f.rule \in AddonRuleIds =>
      /\ AppliesTo(f.rule, installed) /\ Offends(f.rule)
      /\ \A o \in f.on : True(o, AddonRule[f.rule].fact)

(* No finding of either tier is false.                                     *)
AlarmsTrue == NoteAlarmsTrue /\ AddonAlarmsTrue
=============================================================================
