------------------------------ MODULE AddonPath ------------------------------
(***************************************************************************)
(* How one add-on's release notes come to be judged, or not: detect finds  *)
(* its version among the cluster's workloads, forcedHop decides whether    *)
(* the target makes it move and to which version, onPath selects the rules *)
(* of that hop.  All of it is done twice in a run: by addons.Hops, so that *)
(* the kinds those rules look at are read, and by addons.Analyze, so that  *)
(* they are judged.  A hop that is missed is not a gap in the report: its  *)
(* release notes count as evaluated, because nothing requires moving.      *)
(* Analyze also writes what the vendor says of the version: supported or   *)
(* not, the version to move to, the notes in between, the vendor's policy. *)
(*                                                                         *)
(* A version is the sequence of its numeric components, as Components in   *)
(* addonversions.go returns it: <<>> for "latest", <<1, 16, 0>> for        *)
(* "v1.16.0-beta.0".  A Kubernetes minor is MinorKey's number, 0 for none. *)
(***************************************************************************)
EXTENDS Naturals, Sequences

CONSTANTS
  Addons,           \* [windows, currencyHop, latest, rules, notes, policy, stale],
                    \* one per catalog file
  Targets,          \* minors the upgrade may aim at
  Tags, Labels,     \* versions of an image tag and of a version label
  MaxWorkloads      \* bound: workloads listed

Version == Seq(Nat)
IsParseable(v) == Len(v) >= 2
AddonMinor(v) == SubSeq(v, 1, 2)
Component(v, i) == IF i \in DOMAIN v THEN v[i] ELSE 0

(* CompareVersions(a, b) < 0: the shorter is padded with zeros, and what   *)
(* does not parse is below everything.                                     *)
Less(a, b) ==
  /\ b # <<>>
  /\ \/ a = <<>>
     \/ \E i \in DOMAIN a \cup DOMAIN b :
          /\ Component(a, i) < Component(b, i)
          /\ \A j \in 1 .. i - 1 : Component(a, j) = Component(b, j)

IsPrefixOf(p, v) ==
  p # <<>> /\ Len(p) <= Len(v) /\ \A i \in DOMAIN p : v[i] = p[i]

(* At latest, past it, or floating ("v3.7") on its line. *)
AtOrPast(latest, installed) ==
  \/ ~Less(installed, latest)
  \/ Len(installed) = 2 /\ Len(latest) >= 2 /\ installed = AddonMinor(latest)

ASSUME AddonsAssumption ==
  \A a \in Addons :
    /\ a.currencyHop \in BOOLEAN /\ a.latest \in Version
    /\ a.notes \subseteq Version /\ \A n \in a.notes : IsParseable(n)
    /\ a.policy \subseteq Nat /\ a.stale \in BOOLEAN
    /\ a.windows \in Seq([version : Version, min : Nat, max : Nat])
    /\ \A i \in DOMAIN a.windows :
         /\ IsParseable(a.windows[i].version)
         /\ \A j \in DOMAIN a.windows \ {i} : a.windows[i].version # a.windows[j].version
    /\ \A r \in a.rules :
         /\ r.applies \in Version /\ r.introducedIn \subseteq Version
         /\ \A s, t \in r.introducedIn :
              IsParseable(s) /\ (AddonMinor(s) = AddonMinor(t) => s = t)
ASSUME VersionsAssumption ==
  /\ Tags \cup Labels \subseteq Version
  /\ Targets \subseteq Nat \ {0} /\ MaxWorkloads \in Nat

-----------------------------------------------------------------------------
(* The vendor's matrix. *)

Covers(w, k) ==
  /\ w.min # 0 \/ w.max # 0
  /\ w.min = 0 \/ w.min <= k
  /\ w.max = 0 \/ k <= w.max

(* The lowest catalogued version covering the target, the first listed of  *)
(* those that compare equal; <<>> if none does.                            *)
minimumCovering(windows, k) ==
  LET C == {i \in DOMAIN windows : Covers(windows[i], k)}
      v(i) == windows[i].version
  IN  IF C = {} THEN <<>>
      ELSE v(CHOOSE i \in C : \A j \in C \ {i} :
               ~Less(v(j), v(i)) /\ (j < i => Less(v(i), v(j))))

(* The row for the installed version: the longest of its prefixes. *)
Rows(windows, v) == {i \in DOMAIN windows : IsPrefixOf(windows[i].version, v)}

\* Mutant: the line's row wins over the patch's.
mostSpecificLine(windows, v) ==
  windows[CHOOSE i \in Rows(windows, v) : \A j \in Rows(windows, v) :
            Len(windows[i].version) <= Len(windows[j].version)]

mostSpecific(windows, v) ==
  windows[CHOOSE i \in Rows(windows, v) : \A j \in Rows(windows, v) :
            Len(windows[j].version) <= Len(windows[i].version)]

RowVerdict(w, k) ==
  CASE w.min = 0 /\ w.max = 0                         -> "VERSION_NOT_IN_CATALOG"
    [] w.max # 0 /\ k > w.max                         -> "ABOVE_MAX"
    [] w.min # 0 /\ k < w.min /\ (w.max = 0 \/ k <= w.max) -> "BELOW_MIN"
    [] OTHER                                          -> "SUPPORTED"

evaluateWindows(windows, v, k) ==
  CASE windows = <<>>                        -> "NO_VENDOR_DATA"
    [] windows # <<>> /\ ~IsParseable(v)     -> "VERSION_UNRESOLVED"
    [] windows # <<>> /\ IsParseable(v)      ->
         IF Rows(windows, v) = {} THEN "VERSION_NOT_IN_CATALOG"
         ELSE RowVerdict(mostSpecific(windows, v), k)

(* What to move to first: asked of a version that is not supported, except *)
(* where its row says nothing; it may be lower than the one installed.     *)
minimumFix(windows, v, k) ==
  IF \/ evaluateWindows(windows, v, k) \in {"ABOVE_MAX", "BELOW_MIN"}
     \/ windows # <<>> /\ IsParseable(v) /\ Rows(windows, v) = {}
  THEN minimumCovering(windows, k) ELSE <<>>

\* Mutant: the first row of the matrix, where nothing else is known.
ceilingFirst(addon) ==
  IF addon.windows # <<>> /\ addon.latest = <<>> THEN addon.windows[1].version ELSE addon.latest

(* The newest version the catalog knows of. *)
ceiling(addon) ==
  LET V == {addon.latest} \cup {addon.windows[i].version : i \in DOMAIN addon.windows}
  IN  CHOOSE c \in V : \A v \in V : ~Less(c, v)

(* All of them when the installed version cannot be read.                  *)
notesOnPath(addon, v) ==
  {n \in addon.notes : ~Less(ceiling(addon), n) /\ (IsParseable(v) => Less(v, n))}

(* policy: the number of minors behind the latest the vendor supports, or  *)
(* none; counted within one major.                                         *)
OutsideVendorSupport(addon, v) ==
  /\ IsParseable(v) /\ IsParseable(addon.latest) /\ v[1] = addon.latest[1]
  /\ \E p \in addon.policy : v[2] + p < addon.latest[2]

Finding(rule, severity) == [rule |-> rule, severity |-> severity]

(* What is not known is reported too, and scores nothing. *)
SupportFindings(addon, v, k) ==
  LET is == evaluateWindows(addon.windows, v, k)
  IN  (IF is = "SUPPORTED" THEN {}
       ELSE {Finding("support", IF is \in {"ABOVE_MAX", "BELOW_MIN"} THEN "high" ELSE "info")})
      \cup (IF is = "NO_VENDOR_DATA" /\ OutsideVendorSupport(addon, v)
             THEN {Finding("outside-vendor-support", "medium")} ELSE {})

NoHop == [installed |-> <<>>, required |-> <<>>]

forcedHop(addon, v, k) ==
  LET required == IF addon.windows = <<>> THEN addon.latest
                  ELSE minimumCovering(addon.windows, k)
      moves == IF addon.windows = <<>>
                 THEN /\ addon.currencyHop /\ IsParseable(addon.latest)
                      /\ ~AtOrPast(addon.latest, v)
                 ELSE Less(v, required)
  IN  IF IsParseable(v) /\ moves THEN [installed |-> v, required |-> required] ELSE NoHop

-----------------------------------------------------------------------------
(* The rules of a hop (installed, required].  Both ends of a hop parse; a  *)
(* required version of two parts stands for its whole line.                *)

Reaches(required, s) ==
  ~Less(required, IF Len(required) = 2 THEN AddonMinor(s) ELSE s)

ByMinor(rule, installed, required) ==
  /\ IsParseable(rule.applies)
  /\ Less(AddonMinor(installed), rule.applies)
  /\ ~Less(AddonMinor(required), rule.applies)

\* Mutant: a change the installed line got as a backport is listed again.
ByPatchNoBackport(rule, installed, required) ==
  \E s \in rule.introducedIn : Less(installed, s) /\ Reaches(required, s)

ByPatch(rule, installed, required) ==
  LET E     == rule.introducedIn
      own   == {s \in E : AddonMinor(s) = AddonMinor(required)}
      newer == {s \in E : Less(AddonMinor(required), AddonMinor(s))}
  IN  /\ ~\E s \in E : AddonMinor(s) = AddonMinor(installed) /\ ~Less(installed, s)
      /\ own # {} \/ newer = {}
      /\ \E s \in (IF Len(required) > 2 /\ own # {} THEN own ELSE E) :
           Less(installed, s) /\ Reaches(required, s)

inAddonHop(rule, installed, required) ==
  IF rule.introducedIn = {} THEN ByMinor(rule, installed, required)
  ELSE ByPatch(rule, installed, required)

onPath(addon, hop) ==
  {r \in addon.rules : hop # NoHop /\ inAddonHop(r, hop.installed, hop.required)}

-----------------------------------------------------------------------------
VARIABLES
  addon, target,    \* what this run is about: one add-on, the target's minor
  workloads,        \* inv.Workloads, in the order the API listed them
  listed,           \* inv.Read("workloads")
  stage,            \* "hops", "wants", "analyze", "select" or "done"
  next,             \* the workload detect's loop looks at next
  present, version, \* detect's best: whether any matched, and its version
  hop,              \* the hop this call resolved
  asked,            \* kinds CollectRuleObjects was asked to read
  verdict,          \* the add-on's verdict in the report
  status,           \* the rest of its status: [fix, notes, findings]
  row,              \* the coverage row of the tier
  selected          \* rules generated.Analyze judges

input == <<addon, target, workloads, listed>>
loop == <<next, present, version>>
report == <<verdict, status, row, selected>>
vars == <<input, stage, loop, hop, asked, report>>

Verdicts == {"none", "not installed", "not assessed", "NO_VENDOR_DATA",
             "VERSION_UNRESOLVED", "VERSION_NOT_IN_CATALOG", "ABOVE_MAX",
             "BELOW_MIN", "SUPPORTED"}

NoStatus == [fix |-> <<>>, notes |-> {}, findings |-> {}]

(* image: whether a container's image is this add-on's. *)
Workload == [image : {TRUE}, tag : Tags, label : Labels]
            \cup [image : {FALSE}, tag : {<<>>}, label : {<<>>}]

\* Mutant: any tag taken for a version.
VersionOfTag(w) == IF w.tag # <<>> THEN w.tag ELSE w.label

VersionOf(w) ==
  CASE IsParseable(w.tag)                             -> w.tag
    [] ~IsParseable(w.tag) /\ IsParseable(w.label)    -> w.label
    [] ~IsParseable(w.tag) /\ ~IsParseable(w.label)   -> <<>>

TypeOK ==
  /\ addon \in Addons /\ target \in Targets /\ listed \in BOOLEAN
  /\ workloads \in Seq(Workload) /\ Len(workloads) <= MaxWorkloads
  /\ stage \in {"hops", "wants", "analyze", "select", "done"}
  /\ next \in 1 .. Len(workloads) + 1 /\ present \in BOOLEAN
  /\ version = <<>> \/ (version \in Tags \cup Labels /\ IsParseable(version))
  /\ hop = NoHop \/ /\ stage \in {"wants", "select", "done"}
                    /\ hop.installed = version /\ Less(version, hop.required)
  /\ status.notes \subseteq addon.notes
  /\ status.findings \subseteq [rule : {"support", "outside-vendor-support"},
                                severity : {"high", "medium", "info"}]
  /\ row \in {"none", "complete", "partial", "unavailable"}
  /\ verdict \in Verdicts /\ selected \subseteq addon.rules
  /\ asked \subseteq {r.kind : r \in addon.rules}

Init ==
  /\ addon \in Addons /\ target \in Targets /\ listed \in BOOLEAN
  /\ workloads \in UNION {[1 .. n -> Workload] : n \in 0 .. MaxWorkloads}
  /\ stage = "hops" /\ next = 1 /\ present = FALSE /\ version = <<>>
  /\ hop = NoHop /\ asked = {} /\ verdict = "none" /\ selected = {}
  /\ status = NoStatus /\ row = "none"

Detecting == stage \in {"hops", "analyze"}

\* Mutant: an unreadable version is below every other and keeps its place.
LowestOfAll(v) == IF Less(v, version) THEN v ELSE version

\* Mutant: the highest version, as a cluster's newest workload has it.
LowestHighest(v) == IF version = <<>> \/ Less(version, v) THEN v ELSE version

Lowest(v) == IF version = <<>> \/ Less(v, version) THEN v ELSE version

(* detect's loop: the first match is taken whatever its version; a         *)
(* readable version replaces an unreadable one; a lower one replaces it.   *)
Visit ==
  /\ Detecting /\ listed /\ next <= Len(workloads)
  /\ LET w == workloads[next] IN
     /\ present' = (present \/ w.image)
     /\ version' = IF w.image /\ VersionOf(w) # <<>> THEN Lowest(VersionOf(w)) ELSE version
  /\ next' = next + 1
  /\ UNCHANGED <<input, stage, hop, asked, report>>

Detected == Detecting /\ (listed => next > Len(workloads))
Resolved == IF present THEN forcedHop(addon, version, target) ELSE NoHop

(* addons.Hops, before anything the hop needs is read. *)
Hops ==
  /\ stage = "hops" /\ Detected
  /\ hop' = Resolved
  /\ stage' = "wants"
  /\ UNCHANGED <<input, loop, asked, report>>

\* Mutant: kinds chosen by the minors of the hop's ends alone.
WantsByMinor ==
  /\ stage = "wants"
  /\ asked' = {r.kind : r \in {s \in addon.rules :
                 hop # NoHop /\ ByMinor(s, hop.installed, hop.required)}}
  /\ stage' = "analyze"
  /\ next' = 1 /\ present' = FALSE /\ version' = <<>> /\ hop' = NoHop
  /\ UNCHANGED <<input, report>>

(* generated.Wants: the kinds to read for the rules of that hop. *)
Wants ==
  /\ stage = "wants"
  /\ asked' = {r.kind : r \in onPath(addon, hop)}
  /\ stage' = "analyze"
  /\ next' = 1 /\ present' = FALSE /\ version' = <<>> /\ hop' = NoHop
  /\ UNCHANGED <<input, report>>

(* addons.Analyze, after every read. *)
Analyze ==
  /\ stage = "analyze" /\ Detected
  /\ hop' = Resolved
  /\ verdict' = CASE ~listed             -> "not assessed"
                  [] listed /\ ~present  -> "not installed"
                  [] listed /\ present   -> evaluateWindows(addon.windows, version, target)
  /\ status' = IF listed /\ present
                 THEN [fix |-> minimumFix(addon.windows, version, target),
                       notes |-> notesOnPath(addon, version),
                       findings |-> SupportFindings(addon, version, target)]
                 ELSE NoStatus
  /\ row' = CASE ~listed                        -> "unavailable"
              [] listed /\ present /\ addon.stale -> "partial"
              [] OTHER                          -> "complete"
  /\ stage' = "select"
  /\ UNCHANGED <<input, loop, asked, selected>>

(* generated.Analyze: without a hop the source's rules are skipped, in a   *)
(* COMPLETE row.                                                           *)
Select ==
  /\ stage = "select"
  /\ selected' = onPath(addon, hop)
  /\ stage' = "done"
  /\ UNCHANGED <<input, loop, hop, asked, verdict, status, row>>

Done == stage = "done" /\ UNCHANGED vars

Next == Visit \/ Hops \/ Wants \/ Analyze \/ Select \/ Done

Spec == Init /\ [][Next]_vars

-----------------------------------------------------------------------------
Matching(n) == n \in DOMAIN workloads /\ workloads[n].image

(* The version an add-on is judged by is that of a workload that runs it,  *)
(* and none the loop has passed has a lower readable one, whatever the     *)
(* order of the list and wherever the unreadable ones are in it.           *)
LowestReadableWins ==
  /\ \A n \in 1 .. next - 1 : Matching(n) =>
       /\ present
       /\ VersionOf(workloads[n]) # <<>> =>
            version # <<>> /\ ~Less(VersionOf(workloads[n]), version)
  /\ present => \E n \in 1 .. next - 1 : Matching(n)
  /\ version # <<>> =>
       \E n \in 1 .. next - 1 : Matching(n) /\ VersionOf(workloads[n]) = version

(* The three ways the matrix is read agree.  A hop is forced only on an    *)
(* add-on the target does not support, it goes up, and what it arrives at  *)
(* is supported; the version the report says to move to, when that is up,  *)
(* is the one whose notes are judged.                                      *)
HopReachesTarget ==
  /\ hop # NoHop /\ addon.windows # <<>> =>
       /\ evaluateWindows(addon.windows, hop.installed, target) # "SUPPORTED"
       /\ Less(hop.installed, hop.required)
       /\ evaluateWindows(addon.windows, hop.required, target) = "SUPPORTED"
  /\ stage = "done" /\ Less(version, status.fix) => hop.required = status.fix
  /\ stage = "done" /\ hop # NoHop => \E f \in status.findings : f.rule = "support"

(* What a version already has of a change that first shipped in the        *)
(* releases introducedIn, at most one per line: a line with an entry has   *)
(* it from there on, a line without one has what was there when it was cut.*)
(* A change of no version was always there.                                *)
Carries(rule, v) ==
  LET E   == rule.introducedIn
      own == {s \in E : AddonMinor(s) = AddonMinor(v)}
  IN  CASE E = {}                -> ~IsParseable(rule.applies) \/ ~Less(AddonMinor(v), rule.applies)
        [] E # {} /\ own # {}    -> \E s \in own : ~Less(v, s)
        [] E # {} /\ own = {}    -> /\ \E s \in E : Less(s, v)
                                    /\ ~\E s \in E : Less(v, s)

(* A required version of two parts is its line's newest release, which has *)
(* every change its line has an entry for.                                 *)
CarriesAtEnd(rule, v) ==
  \/ Carries(rule, v)
  \/ Len(v) = 2 /\ \E s \in rule.introducedIn : AddonMinor(s) = v

(* The rules of a hop are the changes its required end carries and its     *)
(* installed end does not: none is left out between two hops, and none is  *)
(* reported that a backport already brought.                               *)
HopRulesExact ==
  stage = "done" /\ hop # NoHop =>
    selected = {r \in addon.rules : CarriesAtEnd(r, hop.required) /\ ~Carries(r, hop.installed)}

(* Every workload of the add-on, not only the lowest, meets on its way     *)
(* only changes the report judged, unless a backport put the lowest ahead. *)
EveryWorkloadsNotes ==
  stage = "done" /\ hop # NoHop =>
    \A n \in DOMAIN workloads : \A r \in addon.rules :
      /\ Matching(n) /\ IsParseable(VersionOf(workloads[n]))
      /\ \A s, t \in r.introducedIn : s = t
      /\ Less(VersionOf(workloads[n]), hop.required)
      /\ inAddonHop(r, VersionOf(workloads[n]), hop.required)
      => r \in selected

(* The hop resolved before the reads and the one resolved after them agree:*)
(* a rule that is judged had its kind asked for, and none was asked for in *)
(* vain.                                                                   *)
RulesJudgedWereRead ==
  stage = "done" => {r.kind : r \in selected} = asked

(* The vendor's own notes leave nothing out either: each that a workload   *)
(* of the add-on meets on its way to the required version is in the status.*)
NotesOnTheWay ==
  stage = "done" /\ hop # NoHop =>
    \A n \in DOMAIN workloads : \A note \in addon.notes :
      /\ Matching(n) /\ IsParseable(VersionOf(workloads[n]))
      /\ Less(VersionOf(workloads[n]), note) /\ ~Less(hop.required, note)
      => note \in status.notes

(* The rules and notes of a hop are the right ones, and the kinds those    *)
(* rules look at were asked for.                                           *)
HopRulesHonest ==
  HopRulesExact /\ EveryWorkloadsNotes /\ NotesOnTheWay /\ RulesJudgedWereRead
=============================================================================
