------------------------------ MODULE KindReads ------------------------------
(***************************************************************************)
(* The two dynamic-client collectors of package inventory (collect_cr.go): *)
(* CollectCustomResources reads the kinds add-on catalogs ask about, whole;*)
(* CollectRuleObjects then reads the kinds release-note rules ask about,   *)
(* keeping a few fields.  Both go through collectByKind: ask discovery     *)
(* which resource serves each kind, list each kind page by page in a       *)
(* WorkPool, and fold the outcomes into one row of inv.Collected.              *)
(*                                                                         *)
(* What an evaluator later makes of a kind depends on three maps, CRs,     *)
(* CRUnread and CRNotServed: "read", "could not look" and "nothing to look *)
(* at" must never be taken for one another.                                *)
(*                                                                         *)
(* Items of the pool are kinds.  The cluster (served) and the rules on the *)
(* path (ruleKinds) are fixed; discovery, each page and the deadline are   *)
(* the environment's.                                                      *)
(***************************************************************************)
EXTENDS WorkPool

CONSTANTS
  AddonKinds,         \* kinds some add-on catalog declares
  RulePaths,          \* sets of kinds the release-note rules on a path read
  AddonTyped,         \* kinds of these the typed collectors have read for
  RuleTyped,          \*   the add-on tier and for the rule tier
  DiscoveryAnswers    \* subset of {"full", "partial", "failed"}

ASSUME KindsAssumption == AddonKinds \subseteq Items /\ RulePaths \subseteq SUBSET Items
ASSUME ReadAnswers == {"rows", "error"} \subseteq Answers
ASSUME DiscoveryAssumption == DiscoveryAnswers \subseteq {"full", "partial", "failed"}

VARIABLES
  served,             \* kinds the cluster serves
  ruleKinds,          \* kinds the release-note rules of this run read
  expired,            \* the scan's deadline has passed
  stage,              \* the pass to run, or running, next
  resources,          \* this pass's answer from discovery
  out,                \* how much of a kind's listing has been appended
  CRs,                \* inv.CRs: "absent", "full" spec or "projected" spec
  CRUnread,           \* inv.CRUnread
  CRNotServed,        \* inv.CRNotServed
  PassCollected       \* inv.Collected, for these two collectors

dataVars == <<CRs, CRUnread, CRNotServed, PassCollected>>
vars == <<poolVars, served, ruleKinds, expired, stage, resources, out, dataVars>>

Passes == {"custom resources", "rule objects"}
After(p) == IF p = "custom resources" THEN "rule objects" ELSE "returned"

TypeOK ==
  /\ PoolTypeOK
  /\ served \subseteq Items /\ ruleKinds \in RulePaths /\ resources \subseteq Items
  /\ expired \in BOOLEAN
  /\ stage \in Passes \cup {"returned"}
  /\ out \in [Items -> {"empty", "odd", "even", "all"}]
  /\ CRs \in [Items -> {"absent", "full", "projected"}]
  /\ CRUnread \subseteq Items /\ CRNotServed \subseteq Items
  /\ PassCollected \in [Passes -> {"none", "complete", "partial", "failed"}]

Init ==
  /\ PoolInit
  /\ served \in SUBSET Items /\ ruleKinds \in RulePaths /\ resources = {}
  /\ expired = FALSE
  /\ stage = "custom resources"
  /\ out = [k \in Items |-> "empty"]
  /\ CRs = [k \in Items |-> "absent"]
  /\ CRUnread = {} /\ CRNotServed = {}
  /\ PassCollected = [p \in Passes |-> "none"]

-----------------------------------------------------------------------------
(* The kinds a pass sets out to read.  The second leaves alone what the    *)
(* first has in hand; a kind the first failed on is asked for again.       *)

\* Mutant: CollectRuleObjects without its `done` check.
WantedAgain(p) ==
  IF p = "custom resources" THEN AddonKinds \ AddonTyped
                            ELSE ruleKinds \ RuleTyped

Wanted(p) ==
  IF p = "custom resources"
    THEN AddonKinds \ AddonTyped
    ELSE {k \in ruleKinds \ RuleTyped : CRs[k] = "absent"}

(* A nil projection keeps the whole spec, any other only the named keys.   *)
Kept(p) == IF p = "custom resources" THEN "full" ELSE "projected"

(* ResourcesByKind: an error with some groups answered is no error, so the *)
(* kinds of the groups that did not answer are simply missing.             *)
ResourcesByKind(a) ==
  CASE a = "full"    -> {served}
    [] a = "partial" -> {S \in SUBSET served : S # served}
    [] a = "failed"  -> {}

(* Nothing wanted: no read, no row. *)
NothingWanted ==
  /\ stage \in Passes /\ main # "running"
  /\ Wanted(stage) = {}
  /\ stage' = After(stage)
  /\ UNCHANGED <<poolVars, served, ruleKinds, expired, resources, out, dataVars>>

\* Mutant: the early return on a discovery error leaves no row.
DiscoveryFailsSilently ==
  /\ stage \in Passes /\ main # "running"
  /\ Wanted(stage) # {}
  /\ "failed" \in DiscoveryAnswers
  /\ CRUnread' = CRUnread \cup Wanted(stage)
  /\ stage' = After(stage)
  /\ UNCHANGED <<poolVars, served, ruleKinds, expired, resources, out, CRs, CRNotServed, PassCollected>>

DiscoveryFails ==
  /\ stage \in Passes /\ main # "running"
  /\ Wanted(stage) # {}
  /\ "failed" \in DiscoveryAnswers
  /\ CRUnread' = CRUnread \cup Wanted(stage)
  /\ PassCollected' = [PassCollected EXCEPT ![stage] = "failed"]
  /\ stage' = After(stage)
  /\ UNCHANGED <<poolVars, served, ruleKinds, expired, resources, out, CRs, CRNotServed>>

Discover ==
  /\ stage \in Passes /\ main # "running"
  /\ Wanted(stage) # {}
  /\ \E a \in DiscoveryAnswers : \E R \in ResourcesByKind(a) : resources' = R
  /\ Start(Wanted(stage))
  /\ out' = [k \in Items |-> IF k \in Wanted(stage) THEN "empty" ELSE out[k]]
  /\ UNCHANGED <<served, ruleKinds, expired, stage, dataVars>>

-----------------------------------------------------------------------------
(* The loop over wanted.                                                   *)

ReadKind(k) ==
  /\ k \in resources
  /\ Spawn(k)
  /\ UNCHANGED <<served, ruleKinds, expired, stage, resources, out, dataVars>>

NotServed(k) ==
  /\ k \notin resources
  /\ Skip(k)
  /\ CRNotServed' = CRNotServed \cup {k}
  /\ UNCHANGED <<served, ruleKinds, expired, stage, resources, out, CRs, CRUnread, PassCollected>>

Token(k) ==
  /\ Acquire(k)
  /\ UNCHANGED <<served, ruleKinds, expired, stage, resources, out, dataVars>>

\* Mutant: no deadline on the request and none before the next page.
NextPageForever(k) ==
  /\ pc[k] = "asking"
  /\ out' = [out EXCEPT ![k] = IF @ = "odd" THEN "even" ELSE "odd"]
  /\ UNCHANGED <<poolVars, served, ruleKinds, expired, stage, resources, dataVars>>

(* eachPage over one kind: the deadline is looked at before each page and  *)
(* ends the page in flight; any page may fail or be the last.              *)
NextPage(k) ==
  /\ pc[k] = "asking" /\ ~expired
  /\ out' = [out EXCEPT ![k] = IF @ = "odd" THEN "even" ELSE "odd"]
  /\ UNCHANGED <<poolVars, served, ruleKinds, expired, stage, resources, dataVars>>

LastPage(k) ==
  /\ ~expired
  /\ Answer(k, "rows")
  /\ out' = [out EXCEPT ![k] = "all"]
  /\ UNCHANGED <<served, ruleKinds, expired, stage, resources, dataVars>>

\* Mutant: rows gathered before the page that failed are kept as the answer.
PageFailsKeepingRows(k) ==
  /\ Answer(k, IF out[k] = "empty" THEN "error" ELSE "rows")
  /\ UNCHANGED <<served, ruleKinds, expired, stage, resources, out, dataVars>>

PageFails(k) ==
  /\ Answer(k, "error")
  /\ UNCHANGED <<served, ruleKinds, expired, stage, resources, out, dataVars>>

Critical(k) ==
  /\ Lock(k)
  /\ UNCHANGED <<served, ruleKinds, expired, stage, resources, out, dataVars>>

Record(k) ==
  /\ Store(k)
  /\ IF answer[k] = "error"
       THEN CRUnread' = CRUnread \cup {k} /\ UNCHANGED CRs
       ELSE CRs' = [CRs EXCEPT ![k] = Kept(stage)] /\ UNCHANGED CRUnread
  /\ UNCHANGED <<served, ruleKinds, expired, stage, resources, out, CRNotServed, PassCollected>>

Return(k) ==
  /\ Finish(k)
  /\ UNCHANGED <<served, ruleKinds, expired, stage, resources, out, dataVars>>

-----------------------------------------------------------------------------
(* The pass's row, from the failures and the count of reads.               *)
failures == {k \in RowSet : answer[k] = "error"}
read == {k \in RowSet : answer[k] = "rows"}

\* Mutant: the row decided by whether anything was read at all.
StateOfAny ==
  IF read # {} \/ failures = {} THEN "complete" ELSE "failed"

StateOf ==
  CASE failures = {}             -> "complete"
    [] failures # {} /\ read = {} -> "failed"
    [] OTHER                      -> "partial"

Conclude ==
  /\ Wait
  /\ PassCollected' = [PassCollected EXCEPT ![stage] = StateOf]
  /\ stage' = After(stage)
  /\ UNCHANGED <<served, ruleKinds, expired, resources, out, CRs, CRUnread, CRNotServed>>

Deadline ==
  /\ ~expired /\ stage # "returned"
  /\ expired' = TRUE
  /\ UNCHANGED <<poolVars, served, ruleKinds, stage, resources, out, dataVars>>

-----------------------------------------------------------------------------
Kind(k) ==
  \/ Token(k) \/ NextPage(k) \/ LastPage(k) \/ PageFails(k)
  \/ Critical(k) \/ Record(k) \/ Return(k)

Caller ==
  \/ NothingWanted \/ DiscoveryFails \/ Discover \/ Conclude
  \/ \E k \in Items : ReadKind(k) \/ NotServed(k)

Returned == stage = "returned" /\ UNCHANGED vars

Next == Caller \/ (\E k \in Items : Kind(k)) \/ Deadline \/ Returned

Spec == Init /\ [][Next]_vars

(* Goroutines run, calls return, and the deadline passes: check.go gives   *)
(* the scan a context with a timeout.  No server is trusted to stop        *)
(* handing out continue tokens.                                            *)
Fairness ==
  /\ WF_vars(Caller) /\ WF_vars(Deadline)
  /\ \A k \in Items : WF_vars(Kind(k))

FairSpec == Spec /\ Fairness

-----------------------------------------------------------------------------
(* What the tiers that read the maps make of a kind: rowsOf in the         *)
(* release-note tier, customRows in the add-on tier.                       *)

RowState(k) ==
  CASE CRs[k] # "absent"   -> "read"
    [] CRs[k] = "absent" /\ k \in CRUnread -> "unread"
    [] CRs[k] = "absent" /\ k \in CRNotServed \ CRUnread -> "not served"
    [] OTHER               -> "not collected"

CustomRows(k) == IF CRs[k] = "absent" THEN "declined" ELSE CRs[k]

-----------------------------------------------------------------------------
(* A kind present in CRs was listed to its last page: rows of a listing    *)
(* that failed or was cut short by the deadline are never judged.          *)
ReadMeansEveryPage == \A k \in Items : CRs[k] # "absent" => out[k] = "all"

(* A row that says "complete" leaves its tier nothing to decline on: the   *)
(* add-on tier has every declared kind whole, the release-note tier has    *)
(* every kind its rules read, except those discovery did not list.         *)
CompleteRowMeansAllAnswered ==
  stage = "returned" =>
    /\ PassCollected["custom resources"] = "complete" =>
         \A k \in AddonKinds \ AddonTyped : CustomRows(k) = "full" \/ k \in CRNotServed
    /\ PassCollected["rule objects"] = "complete" =>
         \A k \in ruleKinds \ RuleTyped : RowState(k) = "read" \/ k \in CRNotServed

(* A kind that could not be read always shows as a gap in some row, so the *)
(* scan cannot call itself complete.                                       *)
UnreadShows ==
  stage = "returned" /\ CRUnread # {} =>
    \E p \in Passes : PassCollected[p] \in {"partial", "failed"}

(* What the passes leave behind says what they did: rows are whole, and    *)
(* what is missing from them is admitted.                                  *)
PassesHonest == ReadMeansEveryPage /\ CompleteRowMeansAllAnswered /\ UnreadShows

(* What the add-on collector read whole is never replaced by a projection, *)
(* and nothing read is dropped.                                            *)
FullStaysFull ==
  [][\A k \in Items : /\ CRs[k] = "full" => CRs'[k] = "full"
                      /\ CRs[k] # "absent" => CRs'[k] # "absent"]_vars

(* Both passes end, whatever the server's paging does.                     *)
Returns == <>(stage = "returned")
=============================================================================
