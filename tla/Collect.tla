------------------------------- MODULE Collect -------------------------------
(***************************************************************************)
(* inventory.Collect, and CollectKubeletMetrics which needs what it left.  *)
(*                                                                         *)
(* Collect starts one goroutine per collector.  Each runs its lists one    *)
(* after the other (nodes one list, workloads three, storage four, ...),   *)
(* puts its slices in the inventory and, in a second critical section,     *)
(* records its outcome.  After wg.Wait the calling goroutine reads every   *)
(* node's kubelet configuration through a WorkPool, settles the row for    *)
(* control-plane flags and returns; kubelet metrics are read through a     *)
(* second pool later in the scan.  Items of the pools are nodes.           *)
(*                                                                         *)
(* A list is one call of eachPage, which ends with an error or with every  *)
(* page appended; KindReads models it page by page.                        *)
(***************************************************************************)
EXTENDS WorkPool

CONSTANTS
  Lists,            \* collector |-> how many lists it reads
  Optional          \* collectors whose last list the cluster may not serve

ASSUME ListsAssumption ==
  /\ \A c \in DOMAIN Lists : Lists[c] \in Nat \ {0}
  /\ {"nodes", "standalone pods"} \subseteq DOMAIN Lists
  /\ Optional \subseteq DOMAIN Lists
ASSUME KubeletAnswers == {"answered", "refused"} \subseteq Answers

Collectors == DOMAIN Lists
FleetRows == {"kubelet config", "kubelet metrics"}
LaterRows == FleetRows \cup {"control-plane flags"}
Rows == Collectors \cup LaterRows

ASSUME NamesAssumption == Collectors \cap LaterRows = {}

VARIABLES
  fleet,            \* the cluster's nodes
  staticPods,       \* some API server, scheduler or controller-manager pod
  metricRules,      \* some node rule of the catalog reads a kubelet metric
  phase,            \* where the calling goroutine is
  at,               \* where each collector's goroutine is
  list,             \* the list it is reading
  whole,            \* the lists it has read to the last page
  slices,           \* collectors whose slices are in the inventory
  Nodes,            \* inv.Nodes
  reachable,        \* fleet row |-> nodes whose kubelet told its answer
  Collected         \* inv.Collected

collectorVars == <<at, list, whole, slices, Nodes>>
collectVars == <<poolVars, fleet, staticPods, metricRules, phase, collectorVars, reachable,
                 Collected>>

Phases == {"collectors", "kubelet config", "control plane", "kubelet metrics", "done"}

CollectTypeOK ==
  /\ PoolTypeOK
  /\ fleet \subseteq Items /\ Nodes \subseteq Items
  /\ staticPods \in BOOLEAN /\ metricRules \in BOOLEAN
  /\ phase \in Phases
  /\ at \in [Collectors -> {"listing", "read", "failed", "assigned", "recorded"}]
  /\ \A c \in Collectors : list[c] \in 1 .. Lists[c]
  /\ \A c \in Collectors : whole[c] \subseteq 1 .. Lists[c]
  /\ slices \subseteq Collectors
  /\ reachable \in [FleetRows -> SUBSET Items]
  /\ Collected \in [Rows -> {"none", "complete", "partial", "failed"}]

CollectInit ==
  /\ PoolInit
  /\ fleet \in SUBSET Items /\ staticPods \in BOOLEAN /\ metricRules \in BOOLEAN
  /\ phase = "collectors"
  /\ at = [c \in Collectors |-> "listing"]
  /\ list = [c \in Collectors |-> 1]
  /\ whole = [c \in Collectors |-> {}]
  /\ slices = {} /\ Nodes = {}
  /\ reachable = [r \in FleetRows |-> {}]
  /\ Collected = [r \in Rows |-> "none"]

(* Read reports whether a named collector produced usable data. *)
Read(row) == Collected[row] \in {"complete", "partial"}

-----------------------------------------------------------------------------
(* The goroutine of collector c.                                           *)

\* Mutant: an off-by-one in the number of lists.
ListDoneOneMore(c) ==
  /\ at[c] = "listing"
  /\ whole' = [whole EXCEPT ![c] = @ \cup {list[c]}]
  /\ IF list[c] > Lists[c]
       THEN at' = [at EXCEPT ![c] = "read"] /\ UNCHANGED list
       ELSE list' = [list EXCEPT ![c] = @ + 1] /\ UNCHANGED at
  /\ UNCHANGED <<poolVars, fleet, staticPods, metricRules, phase, slices, Nodes, reachable, Collected>>

ListDone(c) ==
  /\ at[c] = "listing"
  /\ whole' = [whole EXCEPT ![c] = @ \cup {list[c]}]
  /\ IF list[c] = Lists[c]
       THEN at' = [at EXCEPT ![c] = "read"] /\ UNCHANGED list
       ELSE list' = [list EXCEPT ![c] = @ + 1] /\ UNCHANGED at
  /\ UNCHANGED <<poolVars, fleet, staticPods, metricRules, phase, slices, Nodes, reachable, Collected>>

(* Any error ends the collector: forbidden, expired token, deadline. *)
ListFails(c) ==
  /\ at[c] = "listing"
  /\ at' = [at EXCEPT ![c] = "failed"]
  /\ UNCHANGED <<poolVars, fleet, staticPods, metricRules, phase, list, whole, slices, Nodes,
                 reachable, Collected>>

\* Mutant: NotFound tolerated for every list of the collector.
NotFoundAnywhere(c) ==
  /\ at[c] = "listing" /\ c \in Optional
  /\ at' = [at EXCEPT ![c] = "read"]
  /\ UNCHANGED <<poolVars, fleet, staticPods, metricRules, phase, list, whole, slices, Nodes,
                 reachable, Collected>>

(* storage: a cluster that serves no CSIDriver is old, not broken. *)
ListNotFound(c) ==
  /\ at[c] = "listing" /\ c \in Optional /\ list[c] = Lists[c]
  /\ at' = [at EXCEPT ![c] = "read"]
  /\ UNCHANGED <<poolVars, fleet, staticPods, metricRules, phase, list, whole, slices, Nodes,
                 reachable, Collected>>

Assign(c) ==
  /\ at[c] = "read"
  /\ at' = [at EXCEPT ![c] = "assigned"]
  /\ slices' = slices \cup {c}
  /\ Nodes' = IF c = "nodes" THEN fleet ELSE Nodes
  /\ UNCHANGED <<poolVars, fleet, staticPods, metricRules, phase, list, whole, reachable, Collected>>

\* Mutant: a goroutine that returns on an error before wg.Done.
RecordOnlySuccess(c) ==
  /\ at[c] = "assigned"
  /\ at' = [at EXCEPT ![c] = "recorded"]
  /\ Collected' = [Collected EXCEPT ![c] = "complete"]
  /\ UNCHANGED <<poolVars, fleet, staticPods, metricRules, phase, list, whole, slices, Nodes, reachable>>

RecordOutcome(c) ==
  /\ at[c] \in {"assigned", "failed"}
  /\ at' = [at EXCEPT ![c] = "recorded"]
  /\ Collected' = [Collected EXCEPT ![c] = IF at[c] = "assigned" THEN "complete" ELSE "failed"]
  /\ UNCHANGED <<poolVars, fleet, staticPods, metricRules, phase, list, whole, slices, Nodes, reachable>>

-----------------------------------------------------------------------------
(* The calling goroutine.                                                  *)

\* Mutant: the kubelet configurations started beside the collectors, as
\* soon as the node list is in.
JoinNodesOnly ==
  /\ phase = "collectors"
  /\ at["nodes"] = "recorded"
  /\ phase' = "kubelet config"
  /\ UNCHANGED <<poolVars, fleet, staticPods, metricRules, collectorVars, reachable, Collected>>

Join ==
  /\ phase = "collectors"
  /\ \A c \in Collectors : at[c] = "recorded"
  /\ phase' = "kubelet config"
  /\ UNCHANGED <<poolVars, fleet, staticPods, metricRules, collectorVars, reachable, Collected>>

AfterFleet(row) == IF row = "kubelet config" THEN "control plane" ELSE "done"

(* No rule reads a kubelet metric, so there is nothing to ask. *)
Unwanted(row) == row = "kubelet metrics" /\ ~metricRules

(* Neither fan-out starts without a node list, and metrics only when some  *)
(* rule reads one.                                                         *)
FleetNotAsked(row) ==
  /\ phase = row /\ main # "running"
  /\ \/ Unwanted(row) /\ UNCHANGED Collected
     \/ /\ ~Unwanted(row)
        /\ ~Read("nodes")
        /\ Collected' = [Collected EXCEPT ![row] = "failed"]
  /\ phase' = AfterFleet(row)
  /\ UNCHANGED <<poolVars, fleet, staticPods, metricRules, collectorVars, reachable>>

AskFleet(row) ==
  /\ phase = row /\ main # "running"
  /\ ~Unwanted(row) /\ Read("nodes")
  /\ Start(Nodes)
  /\ UNCHANGED <<fleet, staticPods, metricRules, phase, collectorVars, reachable, Collected>>

AskNode(n) ==
  /\ Spawn(n)
  /\ UNCHANGED <<fleet, staticPods, metricRules, phase, collectorVars, reachable, Collected>>

(* The goroutine of node n: the request waits for a token, then runs under *)
(* its own five-second timeout, and the answer may be unreadable.          *)
Node(n) ==
  /\ \/ Acquire(n) \/ Answer(n, "answered") \/ Answer(n, "refused")
     \/ Lock(n) \/ Finish(n)
  /\ UNCHANGED <<fleet, staticPods, metricRules, phase, collectorVars, reachable, Collected>>

NodeRow(n) ==
  /\ Store(n)
  /\ reachable' = [reachable EXCEPT ![phase] = IF answer[n] = "answered" THEN @ \cup {n} ELSE @]
  /\ UNCHANGED <<fleet, staticPods, metricRules, phase, collectorVars, Collected>>

\* Mutant: the rows counted, refusals included, instead of the answers.
FleetStateByRows(row) ==
  CASE Len(rows) = 0              -> "failed"
    [] Len(rows) > 0              -> "complete"

FleetState(row) ==
  LET answered == Cardinality(reachable[row]) IN
  CASE answered = 0                         -> "failed"
    [] answered > 0 /\ answered < Len(rows) -> "partial"
    [] answered > 0 /\ answered >= Len(rows) -> "complete"

FleetAnswered(row) ==
  /\ phase = row
  /\ Wait
  /\ Collected' = [Collected EXCEPT ![row] = FleetState(row)]
  /\ phase' = AfterFleet(row)
  /\ UNCHANGED <<fleet, staticPods, metricRules, collectorVars, reachable>>

ControlPlaneState ==
  IF Read("standalone pods") /\ staticPods THEN "complete" ELSE "failed"

ControlPlane ==
  /\ phase = "control plane"
  /\ Collected' = [Collected EXCEPT !["control-plane flags"] = ControlPlaneState]
  /\ phase' = "kubelet metrics"
  /\ UNCHANGED <<poolVars, fleet, staticPods, metricRules, collectorVars, reachable>>

Done == phase = "done" /\ UNCHANGED collectVars

-----------------------------------------------------------------------------
Collector(c) ==
  ListDone(c) \/ ListFails(c) \/ ListNotFound(c) \/ Assign(c) \/ RecordOutcome(c)

Kubelet(n) == Node(n) \/ NodeRow(n)

CollectCaller ==
  \/ Join
  \/ \E row \in FleetRows : FleetNotAsked(row) \/ AskFleet(row) \/ FleetAnswered(row)
  \/ \E n \in Items : AskNode(n)
  \/ ControlPlane

CollectNext ==
  \/ \E c \in Collectors : Collector(c)
  \/ \E n \in Items : Kubelet(n)
  \/ CollectCaller
  \/ Done

CollectSpec == CollectInit /\ [][CollectNext]_collectVars

(* Every goroutine runs, and every request ends: by its answer, by the     *)
(* five-second kubelet timeout or by the scan's deadline.                  *)
CollectFairness ==
  /\ WF_collectVars(CollectCaller)
  /\ \A c \in Collectors : WF_collectVars(Collector(c))
  /\ \A n \in Items : WF_collectVars(Kubelet(n))

CollectFairSpec == CollectSpec /\ CollectFairness

-----------------------------------------------------------------------------
(* A collector recorded as read has every list to the last page and its    *)
(* slices in the inventory, save the one list an old cluster lacks.        *)
ReadMeansWhole ==
  \A c \in Collectors : Read(c) =>
    /\ c \in slices
    /\ \A l \in 1 .. Lists[c] :
         l \in whole[c] \/ (c \in Optional /\ l = Lists[c])

(* The two rows over the fleet tell whole, part and none apart by answers, *)
(* and no row over an empty or unknown fleet reads as checked.             *)
FleetRowsHonest ==
  \A row \in FleetRows :
    /\ Collected[row] = "complete" => reachable[row] = fleet /\ fleet # {}
    /\ Collected[row] = "partial" => reachable[row] \notin {{}, fleet}
    /\ Collected[row] = "failed" => reachable[row] = {}

(* No outcome in the inventory claims more than was read.                  *)
OutcomesHonest == ReadMeansWhole /\ FleetRowsHonest

(* Once the collectors are joined their slices and outcomes never change:  *)
(* everything after reads them without the mutex.                          *)
SnapshotStable ==
  [][phase # "collectors" =>
       /\ UNCHANGED <<slices, Nodes>>
       /\ \A c \in Collectors : Collected'[c] = Collected[c]]_collectVars

(* Collection ends, however many nodes and collectors fail.                *)
Ends == <>(phase = "done")
=============================================================================
