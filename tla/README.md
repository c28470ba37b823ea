# A verification of kube-upgrade-check in TLA+

`kube-upgrade-check` is a read-only command that connects to one Kubernetes
cluster, reads what an upgrade to a target release could break, judges it
against a catalog shipped with the binary, and answers with findings, coverage
rows and an exit code a pipeline branches on. Its hard promise is not that a
finding is right but that silence is: "could not look", "nothing to look at" and
"looked, and found nothing" must never be taken for one another, although the
reading is done by many goroutines under one deadline against an API server that
refuses, expires and answers in part.

That promise is what this project states and checks. The modules are translated
from the Go code under `src/internal`; each definition that stands for code is
listed in `PROJECT.json` with the lines it models.

## 1. The system

| Part | Code | State it keeps | Operations | Talks to |
|---|---|---|---|---|
| check command | `cli/check.go`, `severity.go`, `errors.go` | options, the context with the deadline | `runCheck`, `assemble`, `collectorCoverage`, `gate`, `codeFor` | everything below, in order |
| cluster client | `cluster/connect.go` | clients, nothing mutable | `Connect`, `Identify`, `ServedVersions`, `ListableResources`, `ResourcesByKind` | the API server |
| collectors | `inventory/collect.go`, `collect_config.go`, `collect_metrics.go` | `Inventory`: slices, and `Collected` with one outcome per collector | `Collect` and its goroutines, `collectKubeletConfigs`, `CollectKubeletMetrics` | the API server; kubelets through the node proxy |
| custom resource reads | `inventory/collect_cr.go`, `projection.go` | `CRs`, `CRUnread`, `CRNotServed`, `Collected` | `CollectCustomResources`, `CollectRuleObjects`, `collectByKind` | discovery, the dynamic client |
| preflight collector | `inventory/collect_preflight.go` | budgets, webhooks, API services, backends | `CollectPreflight` | the API server |
| removed API scan | `source/source.go` | `Result`: `Usages`, `Coverage`, `Served` | `Scan`, `resolveTargets`, `scanObjects`, `scanMetrics` | discovery, lists, request metrics |
| evaluators | `eval/*` | none: functions of the inventory | `Analyze` of each | the inventory |
| status and score | `report/report.go`, `score/score.go` | none | `StatusFor`, `Compute` | findings, rows |
| catalog | `catalog/*` | read once, immutable | load, select, compare versions | embedded files |
| rendering, calendar, other commands | `render`, `support`, `cli/catalog.go`, `cli/root.go` | none | | |

How the parts interact. `runCheck` calls its readers one after the other:
`Collect`, then the two custom resource passes, the kubelet metrics, the
preflight lists, `source.Scan`. They share one `Inventory` and one context whose
deadline may pass anywhere in that sequence. *Inside* a reader there is
concurrency: goroutines share the inventory's maps and slices, a mutex guards
the writes, a buffered channel bounds the API calls in flight, a `WaitGroup` is
all that orders the writes before the reads that follow. Evaluators then read
the inventory sequentially, each deciding by itself which outcomes its rows
depend on; `assemble` joins their findings and rows; the status is a function of
the rows and the exit code one of the status and findings.

What makes it hard: goroutine interleavings over shared maps; several
independent reads that fail one by one; discovery that answers for some API
groups only; pages of one list of which a later one fails; a second pass that
retries what a first one could not read; a deadline in the middle of any of it;
a dozen evaluators that must all draw the same conclusions from the same
outcomes. The list of hazards, each at its line, is in `PROJECT.json`.

What makes each part correct:

* the pool: never above its limit, no answer lost, always joined;
* the readers: recorded as read means read to the last page; what failed leaves
  a trace; after the barrier nothing moves;
* the scan: a complete row found everything; a quiet report is a clean cluster;
* the evaluators and the status: whatever the upgrade would break is a finding,
  or the check that looks for it says it could not look (with one exception,
  kinds that discovery did not name: section 5, 1);
* the exit code: 0 is success, 4 names every gate that tripped, the rest have no
  report.

## 2. The modules

| Module | Models | Extends |
|---|---|---|
| `Gather` | what a fan-out promises: begin with a set, take each answer once, join | |
| `WorkPool` | the fan-out as written: loop, limiter, mutex, wait group | |
| `KindReads` | `collect_cr.go`: both passes, page by page | `WorkPool` |
| `Collect` | `inventory.Collect`, the fleet reads, the kubelet metrics | `WorkPool` |
| `Inventory_proofs` | theorems about the pool, `KindReads` and `Collect` | the three of them, `TLAPS` |
| `Scan` | `source.Scan` | `WorkPool` |
| `Scan_proofs` | theorems about `Scan` | `Scan`, `TLAPS` |
| `Check` | `runCheck` and `assemble`: the whole run | |
| `Check_proofs` | theorems about `Check` | `Check`, `TLAPS` |
| `Preflight` | `CollectPreflight` and `preflight.Analyze` | |
| `NodeTier` | the node and workload lists, `CollectKubeletMetrics`, `noderuntime.Analyze` | |
| `NodeTier_proofs` | theorems about `NodeTier` | `NodeTier`, `TLAPS` |
| `Preflight_proofs` | theorems about `Preflight` | `Preflight`, `TLAPS` |
| `AddonPath` | detection of add-ons, the hop a target forces, the rules it selects | |
| `AddonPath_proofs` | theorems about `AddonPath` | `AddonPath`, `TLAPS` |
| `RuleRows` | the rows rules are judged on: typed collectors, two passes, what each keeps | |
| `AddonRules` | `addons.Analyze` over those rows: version gates, predicates, declining | `RuleRows` |
| `CapNamed` | `capNamed`: how the names on a finding are cut | |
| `NoteRules` | `generated.go`: what rules ask for, subjects, gates, folding, cards | `AddonRules`, `CapNamed` |
| `RuleTiers` | the three of them in the order of `runCheck` | `NoteRules` |
| `RuleTiers_proofs` | theorems about `RuleTiers` | `RuleTiers`, `TLAPS` |
| `Breakers` | `configbreaker.Analyze` and `plugins.Analyze` over what the collectors read | `CapNamed` |
| `Grading` | `removedapi.Analyze`, `advisory.Analyze`, `score.Compute` over the scan's records | `CapNamed` |
| `Findings_proofs` | theorems about `Grading` and `Breakers` | both, `TLAPS` |

`WorkPool` is the component the readers share. Its actions are the statements
of the goroutine: `Spawn`/`Skip` the loop, `Acquire` the limiter, `Answer` the
call, `Lock` and `Store` the append, `Finish` the deferred calls, `Wait`. The
append is two steps, the load of the slice and its store, so the mutex matters:
without it (the `LockForgotten` mutant) an answer is lost and the module no
longer implements `Gather`. A reader module gives the pool its items, replaces
`Answer` by its own actions and adds what it does under the mutex.

* `KindReads`: items are kinds. `Discover`/`DiscoveryFails` is the call of
  `ResourcesByKind` (whole, in part, failed), `NextPage`/`LastPage`/`PageFails`
  is `eachPage`, where a list may go on handing out continue tokens for ever, `failures` and `read` are the two branches under the mutex,
  `Conclude` the row after `wg.Wait`. `RowState` and `CustomRows` are what
  `rowsOf` and `customRows` of the evaluators make of the three maps.
* `Collect`: one process per collector with its lists in order
  (`ListDone`, `ListFails`, `ListNotFound`), then two critical sections
  (`Assign`, `RecordOutcome`), the barrier `Join`, the kubelets through the pool, the
  control plane row.
* `Scan`: `ServedUnread`/`ServedRead`, then `Resolve`/`ResolveUnfiltered`
  for `resolveTargets`, the pool over resource types with `ReadPage`,
  `ListFails`, `TokenExpired` and `Cancelled`, the metrics tier last. The three
  discovery answers are independent, as in the code. A page with every object
  behind it may be the last or carry one more continue token, without end
  (`NextPage`); the deadline is looked at before each page.
* `Check`: one stage per call. A cluster is abstracted to the things the
  upgrade would break in it, each seen by one check in the objects of one
  source; a source is read whole, in part or not at all. What a pass over custom
  resources leaves (`ReadKinds`) is more than its row: `unnamed` is what it files
  as not served because discovery did not name it, `unread` what a list refused,
  `cutDown` what the second pass brings of the first one's kinds; `CannotJudge`
  is how rules tell them apart. The rows of every evaluator are operators of the
  outcomes; `Assemble` joins them, `Gate` answers. Findings that are only INFO
  (`Notes`) are what was not assessed and any advisory of the path.
* `Preflight`: the three goroutines (`Page`, `LastPage`, `Refused`, then the two
  critical sections `Store` and `Record`), the barrier `Join`, and the questions.
  A question is two calls, `Found`/`NotFound`/`GetError` and `Endpoints`, its
  answer is kept by Service (`Known`), and `Change` lets the cluster's Services
  change at any point between them. `seen` is a history variable: the states a
  Service was in while it was asked about. `Analyze` is every check of the tier
  that looks at an object; the skipped minor is in `Grading`.
* `NodeTier`: the reads node-level checks rest on (`ListNodes`, `ListWorkloads`,
  then `AskMetrics`, `Scrape` for each kubelet, `Scraped`), with `Replace`
  changing a node at any point between them, and `Analyze`: advisories, rules on
  node status, rules on kubelet metrics, kubelet skew and kube-proxy skew, with
  their rows. `seen` is a history variable: all a node has been since the run
  began. Versions are minors of one major, 0 for one that does not parse; what a
  machine tells about a rule is a set of samples. `Collect` has the same metrics
  read goroutine by goroutine; here a kubelet's answer is one step.
* `AddonPath`: see section 6.
* `RuleTiers`: what a rule is told. The collectors (`CollectTyped`), the add-on
  pass (`CollectCustomResources`), the hop it leads to, the pass for
  release-note rules (`CollectRuleObjects`, with `Wants` and `Keep` of the rules
  on the path), then both tiers (`AnalyzeAddons`, `SettleNotes`), the fold of
  duplicates one rule at a time (`Fold`) and the cards (`ReportNotes`). An
  object is a number, its place in the order of names; what a rule may look at is
  a fact, and a row shows only the facts its pass kept (`Shows`), so a key that
  was not asked for is indistinguishable from an unset one, as in the code. A
  list fails in one step here: `KindReads` and `Collect` have the steps.
  Discovery may not hear from the groups of some kinds (`Flaky`) in either pass,
  which files them under `CRNotServed` whether served or not. An add-on with no
  support windows (`matrix`) has a finding that says so, and none about its
  version.
* `Breakers`: settings and volumes. A manifest's settings are spelled as
  arguments in either way (`Spelled`, any choice per container), the lists and
  the kubelets answer or do not (`Collect`, `AskKubelets`), then the two tiers
  (`AnalyzeConfigs`, `AnalyzeVolumes`). What a component was given is known
  apart from its arguments, so the properties ask about the manifest and the code
  reads the arguments.
* `Grading`: what objects remember of who wrote them (managed fields and the
  last-applied manifest) becomes records (`Scan`), the records are grouped one by
  one in any order (`Group`), graded (`Report`), joined with the advisories of
  the path, the finding that it skips a minor and whatever other tiers found, and
  scored (`Score`).

## 3. Runs

| Run | Size | Shows |
|---|---|---|
| `pool` | 4 items, limit 2 | the bound; `Gather` implemented: no answer lost or counted twice, no early join; no deadlock |
| `kinds` | 4 kinds, 2 passes, limit 2 | whole kinds only, no kind a list refused without a row, no retry that loses a full read, termination with lists that never end |
| `collect` | 3 collectors, 3 nodes, limit 2 | outcomes tell the truth, the snapshot is stable, no fleet row without an answer, termination |
| `scan` | 4 resource types, 4 rules, 2 objects, 2 pages | complete rows found everything, a quiet report is a clean cluster, termination with lists that never end |
| `check` | 12 kinds of break, one in a cluster; one source lost, or any number once the deadline passes; discovery that answers in part | nothing is missed undeclared but what discovery did not name, the status and the exit code |
| `addon` | every order of two workloads, every target | the hop and the rules it selects |
| `preflight` | 11 objects, 15 clusters of them, 2 Services, 2 changes | blockers show, alarms were true, one answer per Service |
| `nodes` | 2 nodes, 4 sorts of rule, 7 machines, 3 paths, 1 replacement | a node that breaks shows, a node named was so, every change on the path is printed |
| `rules` | 9 release-note rules, 4 add-on rules, 6 kinds, 2 of them flaky in discovery, 24 clusters of 3 or 4 objects, names capped at 2 | what breaks is on a card or in a gap unless discovery did not name its kind, no card is false, one change prints one card at its worst |
| `grading` | 4 APIs of two kinds, 2 objects with 8 memories each, names capped at 1, 4 advisories, 3 findings of other tiers | a write that stands is critical whatever the order; no band without a reason |
| `breakers` | 7 rules of every shipped condition, 3 components hidden or seen, 2 kubelets, 4 plugins, 4 sets of objects, 4 paths, names capped at 1, the report at 3 | a setting or a volume the target refuses shows at its stage and weight, or was not read and its row says so; no finding is false |
| `breakers_users` | the same instance | a comment of the code that the code does not keep (section 5, 19) |

Why the bounds are enough. In the pool, with four items and two tokens, two
goroutines wait for a token while two compete for the mutex: every queue has
somebody in it; more items add more of the same. The custom resource kinds are
one of each sort there is: asked for by one pass, by the other, by both (so that
the second retries it), already read by a typed collector. Collectors differ
only in how many lists they read and whether the last is optional, so three
stand for seven. The scan has two removals of one kind, a third version of it, a
wildcard rule and a kind that stores nothing, which are the cases
`resolveTargets` distinguishes; two pages are needed for a failure after
something was read. In `Check`, missing a break is a statement about one break,
so one at a time is enough; faults interact through the nodes (the two fleet
reads fall with them), which is modelled as one fault, and through the deadline,
after which everything fails. Two of its inputs are taken only where they matter
(`MCSpec`): a control plane without static pods with a break of a component's
flags, and a path that wants no optional collector with no break at all. In `Preflight`, objects meet only in a list that
pages (two budgets) and in a Service they share (two webhooks and a CRD), and two
changes are what it takes for a Service to be found, deleted and listed. In
`NodeTier`, nodes are judged one by one and meet only in counts of how many
answered or reported, where none, some and all of two are the cases; the rules
are one of each sort (status, metric by value, metric by label, no evidence), the
machines one for each way to answer them, and the paths have a rule before the
current version, one at the target, and a current version that does not parse.
In `RuleTiers`, rules meet in three ways only: one projection serves them all,
two fire on the same change, and a gate is one rule's question inside another.
Each rule of the instance is there for one of these, after a rule of the shipped
catalog; with names capped at two, three objects put one behind the cap. Every
cluster is taken through an ordinary upgrade, and one of them through every way to
differ from it (`MCSpec`): another version, no matrix, a rule the cluster gave away
or kinds it does not serve, one of these at a time and each with an add-on whose
version cannot be told or a current version that does not parse. The lists fail in
every combination, and discovery leaves out any of the flaky kinds, for all of
them; one of these kinds is asked for by both passes, the other by the second
only, for a rule and for gates. In `Grading`, records meet in one group, and two
objects with one or two records each give every mix of standing and superseded
in every order; the memories are one for each comparison of `fromManagedFields`
(later, same day, no date, another writer, an old manifest); a cap of one puts
the second object behind it. In `Breakers`, rules are judged one by one and
objects meet only in a name they share and in the cap of the report, so sets of
two or three objects, one of them a volume and a class of one name, are enough;
settings and volumes share nothing but the lists, so clusters have one or the
other.

Nothing counts without limit except the pages of a list that never ends, in
`KindReads` and in `Scan`. Past its objects such a list goes back and forth between
an odd and an even page (in `Scan`, `Pages` and the one after it), so that asking
for one more is a step and there is no end to them. The lists of `Collect` all end.

## 4. Fairness

Goroutines are scheduled by the Go runtime, so each step a goroutine can take is
weakly fair, the calling one included. The limiter and the mutex need no more: a
goroutine that holds one can always go on, and Go's channel and mutex queues
serve waiting goroutines, which weak fairness of the acquiring action and a
finite number of competitors gives. A call to the API server ends, by an answer
or by the context, because the code passes the context to each and a deadline
is always set (`check.go:76`); so the deadline is weakly fair. Both `Returns`, of
`KindReads` and of `Scan`, rest on it: a list may hand out continue tokens for
ever, nothing makes its last page come, and only the deadline, which the code
looks at between pages, ends it. `Ends` of `Collect` says less: a list there ends,
by its last page or an error, and what is shown is that everything then joins,
whatever failed. Discovery takes no context (`connect.go:234`): that it returns
is an assumption.

## 5. Where a comment and the code part

A run shows the one marked with its name; the others were met while the code
was read for the model.

1. `inventory/types.go:33-36` says kinds in `CRNotServed` are not served "at
   all"; a partial discovery answer (`connect.go:317-320`) puts served kinds
   there, and the row of the pass can be complete. A release-note rule on such a
   kind is clear with no gap, a gate on it stays closed, and an add-on rule judges
   what the second pass cut down, if that pass's discovery did name the kind.
   Nothing in the report tells: this is the exception in `PassesHonest`
   (`k \in CRNotServed`), in `BreaksShow` (`Unnamed`, and the second half of
   `AddonOffencesShow`) and in `CoverageHonest` (`Undiscovered`). An add-on rule on
   a kind nobody brought declines all the same.
2. `inventory/types.go:36` says an unread kind is absent from `CRs`; the
   second pass may read it and leaves it named unread. Readers ask `CRs` first,
   so what follows is not a gap for nothing but the reverse: see 12.
3. `source/source.go:86` says a tier that cannot run records why; with no target
   left the metrics tier is skipped without a row.
4. `source/source.go:197-200` says no object of a dropped rule's kind can exist;
   it can, at a third version the cluster serves.
5. `cli/root.go:81-82` says a check that could not run is never shown as one
   that passed; a flag rule about a component without a readable pod is neither
   judged nor named when another component has one, the exception of
   `SettingsShow`.
6. `generated.go:257-259` gives "nothing on this path requires moving it" as the
   reason to skip an add-on's release notes. `minimumCovering` looks for the
   lowest covering version of the whole matrix, and `forcedHop` (`addons.go:116`)
   forces nothing when that is below the installed one, although a higher one
   covers the target. With the shipped cert-manager matrix (1.12 up to 1.32, 1.13
   up to 1.27), 1.13 and target 1.30, the add-on is reported as unsupported, the
   advice is "at least 1.12", and the notes of the move up are skipped.
7. `addons.go:254-258` promises a hop that does not depend on list order.
   `v3.7` and `v3.7.0` compare equal, the one listed first stays, and only one of
   them counts as being at the newest patch of its line.
8. `addons.go:254-256`: the older of several workloads is taken for the one with
   notes left on its path. A change backported to the older line only is met by
   the newer workload alone, and the older line may be supported where the newer
   one is not. `EveryWorkloadsNotes` states the part that holds.
9. `preflight.go:7-9` says a check that could not run is "printed as a gap, never
   as a pass". A CRD that converts through a URL is skipped, in a complete row. An
   admission webhook with a URL is at least listed.
10. `noderuntime.go:8-9` says an unverifiable item must never read as "a clean
    pass". A metric rule's row admits a gap when no kubelet exported the metric
    (`noderuntime.go:472`), not when one did and others that answered did not: in
    a fleet half-way to 1.35 the row is complete over nodes nobody could check.
    `NodeBreaksShow` holds none the less, since it is about nodes that tell.
11. `noderuntime.go:80-81` reports workloads that could not be listed because
    silence about kube-proxy "would be indistinguishable from a cluster that
    simply does not run" it. An image pinned by digest gives no version, and
    the check is silent in the same way.
12. `collect_cr.go:41-42` says an add-on rule "must decline on a kind it could
    not see, rather than report it clean". A kind the add-on pass could not list
    and the second pass could is in `CRs` with the keys of release-note rules
    only; `customRows` counts it as read (`addons.go:719-722`), and a predicate
    takes a field that was not kept for an unset one (`predicates.go:330-332`).
    No kind of the shipped catalog is asked for so by both passes.
    `AddonOffencesShow` states what remains: the row of the first pass is a gap, or
    its discovery did not name the kind, and then nothing is (1).
13. `generated.go:36` says of the cap on names "The count is still reported." A
    gate on the rule's own kind is applied to the ten names already cut, and the
    count becomes the length of what is left (`generated.go:1045`). That the rule
    still fires is part of `NoteBreaksShow`.
14. `generated.go:972-974` says a narrowed finding "never names an object the
    precondition does not cover". The branch for a truncated list
    (`generated.go:1033`) is also taken when exactly ten objects matched and
    nothing was truncated.
15. `generated.go:1062-1063` folds rules that are "the SAME CHANGE on the SAME
    objects". What is compared are the names on the card, at most ten
    (`generated.go:1093`).
16. `removedapi.go:123-126` gives "we scanned these and found no user" as the
    meaning of the served-but-unused row. It is written from discovery alone, as
    complete, also when every list of those types was refused; the scan's own
    rows carry that gap.
17. `removedapi.go:180-181` says of a deprecated API that there is time to act.
    The request metrics report such APIs too, and the title says that the API
    "was removed in" a release yet to come (`removedapi.go:94-98`).
18. `score.go:81-83` says of an unrecognised severity that a cap of 0 "would
    silently turn a real finding into a clean score". Such a finding has no
    impact (`catalog/types.go:32-47`): alone it scores 0, and beside one INFO
    finding the ceiling is ten.
19. `plugins.go:26` says "Analyze reports every object using a volume plugin the
    target version breaks". Findings are sorted by rule, whose names run
    deprecated, migrated, removed, and cut to 500 without a count
    (`plugins.go:327-335`): objects on deprecated plugins push the critical
    findings out of a complete report (`breakers_users`). Two objects of one name,
    such as a volume and a class, are taken for one (`plugins.go:320`).
    `VolumesShow` states what remains.
20. `collect.go:338` says a pod owned by a controller "is already represented by
    its workload". Only Deployments, StatefulSets and DaemonSets are read: the
    volumes of a pod of a Job or a bare ReplicaSet are never looked at.
21. `addons.go:420-421` calls `minimumCovering` "the vendor's own answer to 'what
    do I upgrade this to first'". It is the lowest version of the matrix that
    covers the target, also when that is below the installed one: by the shipped
    catalog cert-manager 1.13 is told to upgrade to 1.12 on the way to 1.30
    (`addons.go:463`), and Istio 1.31, too new for 1.31, is "older" than it
    supports and told to upgrade to 1.24 (`addons.go:469-472`).
22. `preflight.go:7-9` lists "a path that skips a minor" among the checks and says
    that one that could not run is printed as a gap. When the cluster's version
    does not parse and `--target` is given, `skippedMinor` is silent
    (`preflight.go:62-65`).

The answer "ready" is weaker than it reads: the Service existed at the first call
and had a ready endpoint at the second, which may never have been so at one
moment. `BlockersShow` and `NoFalseAlarm` are stated for what held throughout the
questions, which is all the code can claim.

## 6. The add-on path

`AddonPath` follows one add-on through a run. `Visit` is one turn of `detect`'s
loop over the workloads; `Hops` ends it with the hop that decides which kinds
`Wants` asks for; after the reads the same loop runs again, `Analyze` gives the
add-on's status and `Select` the rules that `generated.Analyze` judges. The two
passes matter: the second must come to the hop the first had read for
(`RulesJudgedWereRead`, a part of `HopRulesHonest`), or a rule would be judged on objects nobody read.

A version is the sequence of its components, as `Components` returns it;
comparison, prefixes, `AtOrPast` and the window arithmetic are defined on those
sequences, so lengths that differ, `latest`, and two-part versions behave as in
the code. What a string is parsed from is abstracted. A workload is one image of
the add-on with a tag and a label, or an image that is somebody else's. The
branches of `inAddonHop` for ends that do not parse are left out: a hop with
such an end is never resolved.

Two properties compare the code with a reference of their own. `HopRulesExact`,
the other part, defines what it means that a version carries a change (`Carries`, from the
comment at `generated.go:273-310`) and asks that a hop's rules are those its
end carries and its start does not; `HopReachesTarget` asks `evaluateWindows`,
which judges a version, about the version `minimumCovering` chose.

The status is more than the verdict: the version to move to (`minimumFix`), the
vendor's own notes up to the newest version the catalog knows (`notesOnPath`),
the findings about support and about the vendor's policy, and the coverage row,
partial when the data is old. They are computed apart from the hop, and the
properties hold them against it: a fix that goes up is where the hop goes, and
no note between a workload of the add-on and the hop's end is left out
(`NotesOnTheWay`, a part of `HopRulesHonest`). A fix need not go up: finding 21.

Bounds: two workloads (a merge is pairwise), seven tags, among them one that
does not parse, two that compare equal and a patch of each line; four catalogs:
cert-manager's matrix, one that mixes lines and patches with open ends, and two
without a matrix, opted in and out of currency hops; a rule for each way a
change can have shipped on three lines, before, at or after the versions seen.

## 7. What is proved

`Inventory_proofs` is about the pool and two of the readers on it. Its part about
`WorkPool` holds for every finite set of items, every limit above zero
and every non-empty set of answers (the three assumptions of `WorkPool`):

* `PoolTypeCorrect`: `PoolTypeOK` is invariant;
* `PoolInvariance`: the inductive invariant. It says the tokens are exactly the
  goroutines between `Acquire` and `Finish`, the mutex belongs to the one
  goroutine between `Lock` and `Finish`, its copy of the slice is still the
  slice until it stores, the rows are those of the goroutines that stored, each
  once, and once the caller is past `Wait` no goroutine is between spawning and
  its end. None of the results below is inductive without it: the bound needs
  the tokens tied to program counters, the count needs that the copy is fresh;
* `LimiterIsABound`: `LimiterBound`;
* `NothingLost`: `EveryAnswerCounted`, the rows of the goroutines that
  answered, which the run `pool` asks for through `Gather`;
* `Refinement`: `WorkPool` implements `Gather` under the mapping in
  `WorkPool`.

`AddonPath_proofs` holds for any tags, labels and targets, any number of
workloads and any catalog as `AddonsAssumption` has it (versions parse, and a
change is introduced at most once on a line):

* `TypeCorrect`: `TypeOK`, which includes that a resolved hop starts at the
  version detected and goes up from it;
* `LowestReadable`: `LowestReadableWins`. It is inductive with `TypeOK`, but only
  because `CompareVersions` is transitive over versions of different lengths
  (`LessTransitive`): the loop keeps its best and nothing else, so a workload it
  passed long ago is compared with today's best only through the ones between.
* `HopArrives`: `HopReachesTarget`. A matrix is finite, so a covering row has a
  lowest one (`LowestCovering`, from the well-foundedness of `<` on ranks and not
  by induction over rows), and the version `minimumCovering` returns is judged
  supported by `evaluateWindows`, which picks its row by the longest prefix: no
  two rows have the same version, so it comes back to that very row (`OwnRow`).
  A version the target supports is never below that lowest one, for the row it
  is judged by covers the target too (`PrefixNotAbove`), so no hop starts there;
* `HopIsHonest`: `HopRulesHonest`. It rests on `SameHopTwice`, that the second
  detection comes to the hop the first one had read for, which follows because
  both loops end with the first of the lowest readable versions of one list
  (`BestUnique`); and on `RuleExact`, that the three
  tests of the code on a rule's versions agree with what it means that a version
  carries a change.

`Preflight_proofs` holds for any objects, any number of Services and any number of
changes to them:

* `Invariance`: the inductive invariant, in four parts. `ListsInv` ties a
  goroutine's place to what it has of its list: a list recorded as read is whole.
  `AnswersInv` says that an answer kept for a Service was true at some moment of
  `seen`, that every object that had its turn has the answer kept for its
  Service, and that a question in flight is about a Service that was seen to
  exist and has no answer yet. The last is what makes the answers agree: an
  answer can only be given to a Service nobody was told about before;
* from it `TypeCorrect`, `BlockersAlwaysShow` (`BlockersShow`), `AlarmsAreTrue`
  (`NoFalseAlarm`), `AnswersAgree` (`OneAnswerPerService`) and
  `OnlyWholeListsJudged` (`RefusedListsUnjudged`).

`NodeTier_proofs` holds for any nodes, rules, machines, paths and number of
replacements that meet the three assumptions of `NodeTier`:

* `Invariance`: the inductive invariant. Its part `SeenInv` says that what a
  list or a kubelet showed of a node, once it is read, is something the node was
  at some moment; without it the two results below could not speak of reads made
  at different moments. `VerdictInv` says that there is no verdict before `Analyze`, so that
  step is the only one that has the three properties to establish; afterwards
  they stay, for nothing moves once the run is done;
* from it `TypeCorrect`, `BreaksAlwaysShow` (`NodeBreaksShow`),
  `AlarmsWereAlwaysTrue` (`NodeAlarmsWereTrue`) and `PathIsPrinted`
  (`PathRulesPrinted`).

`Check_proofs` holds for any collectors, breaks, layouts, paths and thresholds
with the assumptions of `Check`. `NamesAssumption` says that the collectors that
run in parallel are named apart from every other source, as in the code.

* `CoverageIsHonest` (`CoverageHonest`). That nothing missed goes undeclared is
  not inductive: a row is written stages after the read that failed. The
  invariant carries, from stage to stage, that each stage passed has left a
  state for each of its sources (`Progress`), that only lists which keep their
  first pages are partial (`PartialOnly`), that the objects of a source read
  whole are in hand unless a question to a webhook's backend took them away
  (`Whole`), that a pass over custom resources has each of its objects in hand,
  unread and counted in its row, or unnamed (`Sorted`), what a deadline that passed has cost (`Overdue`), and that a break
  counts only for kinds a rule of this catalog reads (`Asked`). The exception,
  `Undiscovered`, is a part of the property: what discovery did not name is in no
  row, and "complete" means that all it did name was read;
* `ExitCodeTellsAll` (`ExitTellsAll`), from `Settled`: the status is that of the
  rows assembled, and nothing is printed before them;
* `TypeCorrect` (`TypeOK`).

The part of `Inventory_proofs` about `KindReads` holds for any kinds, paths and
limit. It takes what a round of the pool guarantees from the part about
`WorkPool`, for every step of `KindReads` is one of the pool's with something
added, or leaves the pool alone; `DiscoveryAssumption` names the three outcomes of
discovery.

* `PassesAreHonest` (`PassesHonest`). Its invariant (`KindInv`) follows a kind
  across both passes: what is still to be recorded has no rows (`Hand`), one pass
  runs after the other (`Order`), and while a pass runs each kind it is about is
  still to be spawned, spawned, not served or read before (`Round`). With the
  pool's invariant, that the round is joined only when every answer is stored,
  the row written at the end speaks for all of them;
* `FullIsKept` (`FullStaysFull`), an action property;
* `KindTypeCorrect` (`TypeOK`).

The part of `Inventory_proofs` about `Collect` holds for any fleet, any
collectors with any number of lists, any of them optional, and any limit;
`NamesAssumption` says that the rows written after the barrier are named apart
from the collectors.

* `OutcomesAreHonest` (`OutcomesHonest`). A collector's outcome is written two
  critical sections after its last page, and a kubelet's answer is counted after a
  whole round. The invariant (`CollectInv`) ties them: a list is whole before the
  next is begun, the slices are there before the outcome, and an outcome is
  blank until then (`Goroutines`); a round asks the nodes of the fleet that
  was read (`Calling`), and what it has gathered is the kubelets whose
  answer the pool has stored (`Fleet`);
* `SnapshotIsStable` (`SnapshotStable`), an action property: past the barrier every
  collector has recorded, so none can take another step, and what the rounds over
  the kubelets write is named apart;
* `CollectTypeCorrect` (`CollectTypeOK`).

`Scan_proofs` holds for any catalog, any cluster, any number of pages and any
way discovery and the lists may fail. `PagesAssumption` puts each object on a
page that exists.

* `ScanIsHonest` (`ScanHonest`). A goroutine's findings are its own until it
  takes the mutex, so the invariant (`ScanInv`) has a part for each (`Found`): what it has
  by its page, kept when its token expires, and what has become of it in
  the shared lists once it stored. `Waited` says that every type chosen is still
  to be reached by the loop or has a goroutine, which is why none is missing from
  the coverage when the scan returns; `ServedKept` and `RulesKept`, that a rule
  which was given no type has a row that says so. That a quiet report is true
  follows from these: no finding, no row but complete ones, so each list
  was read to its last page and found nothing;
* `TypeCorrect` (`TypeOK`).

`RuleTiers_proofs` holds for any rules, any cluster, and any lists that fail,
with the assumptions of `RuleRows`, `AddonRules` and
`NoteRules`. `SecretsAssumption` is one the proof found: the add-on pass leaves
Secrets out (`collect_cr.go:49`) and no typed collector brings them, so an add-on
rule about Secrets would be judged on what the second pass happened to read,
beside no row that admits a failure. No rule of the catalog is about Secrets.

* `NothingGoesMissing` (`BreaksShow`) and `NoFalseAlarm` (`AlarmsTrue`). Whatever
  lists fail and whatever kinds discovery leaves out; the first makes an exception
  of objects of a kind that no discovery named (`Unnamed`) and of an add-on rule
  judged on rows cut down because the add-on pass was not told of the kind. The
  second needs none. The
  invariant (`TiersInv`) says what each stage left: what the first pass should have
  brought is in hand, unnamed, or admitted in its row (`RowsKept`), rows that were cut down carry
  the facts every rule on the path asks for (`RowsKept` too, with `KeepCovers`), the
  verdict of each tier is that of rows which no longer change (`AddonKept`,
  `NotesKept`). A list of names shorter than its cap is whole
  (`NobodyLeftOut`), so an object that is not named is not an offender;
* `OneCardPerChange` (`CardPerChange`), from `FoldKept`: a folded rule went to a
  retained one of the same change that sorts before it, no two retained rules
  are of one change, and what is still to fold sorts after all that was;
* `TypeCorrect` (`TypeOK`).

The part of `Findings_proofs` about `Grading` holds for any APIs, objects,
histories, versions, advisories and findings of other tiers, with the assumptions of `Grading`:
`GradingAssumption` gives the constants their types and says there are finitely
many APIs, objects and advisories; `OthersAssumption`, that a finding of
another tier is no removal and that a severity the catalog does not know weighs
nothing, as `ScoreImpact` has it.

* `StandingWrites` (`StandingWriteIsCritical`). A record is gone once it is
  grouped, so the invariant (`GradingInv`) says of every write that stands that
  its record is still to be grouped or has settled its group (`EvidenceKept`:
  the group names the object and is not stale, whatever comes later), and, from
  the report on, that a critical finding has it (`EvidenceReported`). A name cut
  off leaves a count (`NamedOrCounted`);
* `BandsHaveReasons` (`BandHasReason`), from the reverse (`EvidenceTrue`: what is
  not stale has somebody who wrote or asked) and from `ScoreOf`, which says of any
  finite set of findings what its score tells of the worst of them. The sum of
  the impacts is recursive over the set; that it is a number, and 0 if all are,
  is `SumIsNat`;
* `GradingTypeCorrect` (`GradingTypeOK`, with the score between 0 and 100).

The part of `Findings_proofs` about `Breakers` holds for any clusters, rules,
plugins, paths and caps, with the assumptions of `Breakers`. Three of them say more than a type: no selector of a
rule, no setting and no installed driver has an empty name, no flag rule is about
an absent flag, and a plugin is disabled no later than it is removed.

* `BreakersAreShown` (`BreakersShow`) and `BreakerFindingsTrue`
  (`BreakerAlarmsTrue`). An object is excused by the state of its own list, a node
  by its own kubelet, and a severity nobody knows must be critical. The invariant (`BreakersInv`) says that the arguments are
  a spelling of the manifest (`SpelledSomehow`), and of each analysis that it was
  right about the lists it was given, in both directions. Settings and arguments
  meet in `ArgumentsTell`: with either spelling, `flagValue` finds a selector
  among the arguments if and only if the manifest sets it, with a value it is
  set to. A walk over the settings (`TokensAre`) appends one token
  or two and keeps this true of the settings walked so far.
  The cap on the report is `InReportOrFull`: a row among the first so many
  in the order is kept, so one that is missing has a full report before it
  (`FirstOfOrder`: of a finite set in a strict order, exactly so many are first);
* `BreakersTypeCorrect` (`TypeOK`).

Both parts speak of data of any size: a sum over a set, the tokens of a list, the
first of an order. There is no induction over data here, so each is shown by the
least number at which it would fail (`LeastNumber`, from the well-foundedness of
`<` on numbers): the step before it holds, and one step cannot break it.

Every invariant and every action property that a passing run checks is stated
by one of these theorems. What is only model-checked is liveness, `Ends` and both
`Returns`: fairness and `ENABLED` are out of the proof system's reach. `Gather`
asks for no fairness, so `Refinement` is about safety alone; that a round ends
is shown where the pool is used, by those three properties.

The proofs are of the modules, for every value of their constants; they do not
reach below: that a module is what the code does is for a reader to compare, with
the lines in `PROJECT.json`, and what a model leaves out (section 8) no
theorem speaks of.

## 8. Not modelled

Kubeconfig loading and provider detection, the catalog's loading and checksums,
the text of reports, the support calendar, the `catalog` and `version` commands,
scripts and CI: each is pure, or input and output, or outside the running
program. Of the release-note tier, the hint appended to an advisory.
Whether one object meets one predicate is a fact of the object; how a projector
(`projection.go:108` on) copies the field it looks at is not modelled, only
whether the field was kept.

## 9. How it was built, and what could follow

Written first, as the most important behaviour: the pool, the readers that
extend it, the run as a whole, the add-on path, the preflight tier and the node
tier; then the rule tiers over one inventory, settings and volumes, and grading
with the score; then the theorems about all of them. Each module was run through
TLC with its invariants before anything about it was proved, and so were the
inductive invariants wherever an instance is small enough.

What could follow, in this order:

1. the projectors of `projection.go`, field by field, so that a key which is
   asked for and copied wrongly would show;
2. the catalog's loader, whose checks are what the assumptions on rules, plugins
   and matrices rest on;
3. connection and provider detection, if they ever decide more than a label.
