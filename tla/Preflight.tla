------------------------------ MODULE Preflight ------------------------------
(***************************************************************************)
(* What would stop the upgrade itself: inventory.CollectPreflight lists    *)
(* the budgets, admission webhooks and aggregated APIs concurrently, then  *)
(* asks once per Service whether the backend of a webhook is there;        *)
(* preflight.Analyze judges what was read.  Each question is two calls,    *)
(* and the Services change while they are asked.                           *)
(*                                                                         *)
(* A list has one check of Analyze, and goes by the collector's name.  The *)
(* nodes, pods and CRDs were listed earlier in the run, whole or not at    *)
(* all.                                                                    *)
(***************************************************************************)
EXTENDS Naturals, FiniteSets

CONSTANTS
  Objects,          \* [list, name, bad, fail, backend]: what a cluster may hold
  Clusters,         \* sets of objects, one of which the run meets
  Services,         \* backends of webhooks
  MaxChanges        \* bound: changes to the Services while they are asked about

Fetched == {"poddisruptionbudgets", "webhooks", "apiservices"}
Earlier == {"nodes", "pods", "crds"}
Lists == Fetched \cup Earlier
NoService == "none"     \* no webhook, or one with no backend declared
URL == "url"            \* a backend outside the cluster
NoObject == [list |-> "none"]

(* bad: a node not Ready, a pod without a controller, a budget without     *)
(* disruptions left, an API that is not available.  fail: failurePolicy.   *)
ASSUME ObjectsAssumption ==
  /\ \A o \in Objects :
       /\ o.list \in Lists /\ o.bad \in BOOLEAN /\ o.fail \in BOOLEAN
       /\ o.backend \in Services \cup {NoService, URL}
       /\ o.backend # NoService => o.list \in {"webhooks", "crds"} /\ ~o.bad
  /\ NoObject \notin Objects
  /\ Clusters \subseteq SUBSET Objects
  /\ NoService \notin Services /\ URL \notin Services
  /\ MaxChanges \in Nat

VARIABLES
  cluster,          \* the objects of this cluster
  service,          \* each Service now: whether it exists, and has a ready endpoint
  changes,          \* how often a Service has changed
  seen,             \* history: the states each Service has been in while asked about
  stage,            \* "collect", "ask", "report" or "done"
  pc, out, err,     \* the three goroutines: where, the rows so far, which failed
  inv,              \* the inventory's objects, by list
  Collected,        \* inv.Collected
  backends,         \* the answers of this run, by Service
  Backend,          \* the answer stored with each webhook and each CRD
  pending,          \* objects whose turn is still to come
  question,         \* the object whose Service was found and whose endpoints are next
  rows,             \* Analyze's coverage, by check
  blocking, warned  \* objects named by its findings; those of the fail-policy one

world == <<cluster, service, changes, seen>>
goroutines == <<pc, out, err>>
asking == <<backends, Backend, pending, question>>
verdict == <<rows, blocking, warned>>
vars == <<world, stage, goroutines, inv, Collected, asking, verdict>>

State == [exists : BOOLEAN, ready : BOOLEAN]
Answers == {"unchecked", "down", "ready"}
In(l) == {o \in cluster : o.list = l}
Read(l) == Collected[l] \in {"ok", "partial"}

TypeOK ==
  /\ cluster \in Clusters /\ service \in [Services -> State]
  /\ changes \in 0 .. MaxChanges /\ seen \in [Services -> SUBSET State]
  /\ stage \in {"collect", "ask", "report", "done"}
  /\ pc \in [Fetched -> {"list", "store", "record", "done"}] /\ err \subseteq Fetched
  /\ out \in [Fetched -> SUBSET cluster]
  /\ inv \in [Lists -> SUBSET cluster]
  /\ Collected \in [Lists -> {"none", "ok", "partial", "failed"}]
  /\ backends \in [Services -> Answers \cup {"unasked"}]
  /\ Backend \in [Objects -> Answers]
  /\ pending \subseteq inv["webhooks"] \cup inv["crds"]
  /\ question \in pending \cup {NoObject}
  /\ rows \in [Lists -> {"none", "complete", "partial", "unavailable"}]
  /\ blocking \subseteq cluster /\ warned \subseteq cluster

(* What this cluster's webhooks call; no other Service is of interest. *)
Called == {o.backend : o \in cluster} \cap Services

(* Collect has returned.  A collector of its that fails stores nothing.    *)
Init ==
  /\ cluster \in Clusters
  /\ service \in [Services -> State]
  /\ \A s \in Services \ Called : service[s] = [exists |-> FALSE, ready |-> FALSE]
  /\ changes = 0 /\ seen = [s \in Services |-> {}]
  /\ stage = "collect"
  /\ pc = [l \in Fetched |-> "list"] /\ out = [l \in Fetched |-> {}] /\ err = {}
  /\ \E read \in SUBSET Earlier :
       /\ Collected = [l \in Lists |-> IF l \in Fetched THEN "none"
                      ELSE IF l \in read THEN "ok" ELSE "failed"]
       /\ inv = [l \in Lists |-> IF l \in read THEN In(l) ELSE {}]
  /\ backends = [s \in Services |-> "unasked"]
  /\ Backend = [o \in Objects |-> "unchecked"]
  /\ pending = {} /\ question = NoObject
  /\ rows = [l \in Lists |-> "none"]
  /\ blocking = {} /\ warned = {}

-----------------------------------------------------------------------------
(* The three goroutines.                                                   *)

(* A page, or the first of the two lists of webhook configurations. *)
Page(l) ==
  /\ pc[l] = "list"
  /\ \E P \in SUBSET (In(l) \ out[l]) :
       /\ P # {} /\ out[l] \cup P # In(l)
       /\ out' = [out EXCEPT ![l] = @ \cup P]
  /\ UNCHANGED <<world, stage, pc, err, inv, Collected, asking, verdict>>

LastPage(l) ==
  /\ pc[l] = "list"
  /\ out' = [out EXCEPT ![l] = In(l)]
  /\ pc' = [pc EXCEPT ![l] = "store"]
  /\ UNCHANGED <<world, stage, err, inv, Collected, asking, verdict>>

(* Budgets and API services keep the pages before the one that failed. *)
Refused(l) ==
  /\ pc[l] = "list"
  /\ out' = [out EXCEPT ![l] = IF l = "webhooks" THEN {} ELSE @]
  /\ err' = err \cup {l}
  /\ pc' = [pc EXCEPT ![l] = "store"]
  /\ UNCHANGED <<world, stage, inv, Collected, asking, verdict>>

(* The rows and the outcome, each under the mutex. *)
Store(l) ==
  /\ pc[l] = "store"
  /\ inv' = [inv EXCEPT ![l] = out[l]] /\ out' = [out EXCEPT ![l] = {}]
  /\ pc' = [pc EXCEPT ![l] = "record"]
  /\ UNCHANGED <<world, stage, err, Collected, asking, verdict>>

Record(l) ==
  /\ pc[l] = "record"
  /\ Collected' = [Collected EXCEPT ![l] = IF l \in err THEN "failed" ELSE "ok"]
  /\ pc' = [pc EXCEPT ![l] = "done"] /\ err' = err \ {l}
  /\ UNCHANGED <<world, stage, out, inv, asking, verdict>>

HasService(o) == o.backend \in Services

(* wg.Wait, and the questions to come: every webhook, then every CRD that  *)
(* converts through a webhook.                                             *)
Join ==
  /\ stage = "collect" /\ \A l \in Fetched : pc[l] = "done"
  /\ stage' = "ask"
  /\ pending' = {o \in inv["webhooks"] \cup inv["crds"] : HasService(o)}
  /\ seen' = [s \in Services |-> {service[s]}]
  /\ UNCHANGED <<cluster, service, changes, goroutines, inv, Collected,
                 backends, Backend, question, verdict>>

-----------------------------------------------------------------------------
(* One question per Service, webhooks first.                               *)

Turn(o) ==
  /\ stage = "ask" /\ question = NoObject
  /\ o \in pending
  /\ o.list = "crds" => \A p \in pending : p.list = "crds"

\* Mutant: every webhook asks for itself.
HeardEach(o, a) ==
  /\ Backend' = [Backend EXCEPT ![o] = a]
  /\ backends' = backends
  /\ pending' = pending \ {o} /\ question' = NoObject

Heard(o, a) ==
  /\ Backend' = [Backend EXCEPT ![o] = a]
  /\ backends' = [backends EXCEPT ![o.backend] = a]
  /\ pending' = pending \ {o} /\ question' = NoObject

Known(o) ==
  /\ Turn(o) /\ backends[o.backend] # "unasked"
  /\ Heard(o, backends[o.backend])
  /\ UNCHANGED <<world, stage, goroutines, inv, Collected, verdict>>

(* Get of the Service: there, not found, or an error. *)
Found(o) ==
  /\ Turn(o) /\ backends[o.backend] = "unasked"
  /\ service[o.backend].exists
  /\ question' = o
  /\ UNCHANGED <<world, stage, goroutines, inv, Collected, backends, Backend, pending, verdict>>

NotFound(o) ==
  /\ Turn(o) /\ backends[o.backend] = "unasked"
  /\ ~service[o.backend].exists
  /\ Heard(o, "down")
  /\ UNCHANGED <<world, stage, goroutines, inv, Collected, verdict>>

\* Mutant: any error of the Get taken for a Service that is not there.
GetErrorMeansGone(o) ==
  /\ Turn(o) /\ backends[o.backend] = "unasked"
  /\ Heard(o, "down")
  /\ UNCHANGED <<world, stage, goroutines, inv, Collected, verdict>>

GetError(o) ==
  /\ Turn(o) /\ backends[o.backend] = "unasked"
  /\ Heard(o, "unchecked")
  /\ UNCHANGED <<world, stage, goroutines, inv, Collected, verdict>>

(* The list of its EndpointSlices, or an error. *)
Endpoints ==
  /\ stage = "ask" /\ question # NoObject
  /\ \E a \in {IF service[question.backend].ready THEN "ready" ELSE "down", "unchecked"} :
       Heard(question, a)
  /\ UNCHANGED <<world, stage, goroutines, inv, Collected, verdict>>

\* Mutant: a state of its own, which no reader of Collected knows.
ConcludeUnchecked ==
  /\ stage = "ask" /\ pending = {}
  /\ Collected' = [Collected EXCEPT !["webhooks"] =
                     IF \E o \in inv["webhooks"] : HasService(o) /\ Backend[o] = "unchecked"
                       THEN "unchecked" ELSE @]
  /\ stage' = "report"
  /\ UNCHANGED <<world, goroutines, inv, asking, verdict>>

(* A backend that could not be checked makes the collector's row partial,  *)
(* whatever the webhook's policy; a CRD's does not.                        *)
Conclude ==
  /\ stage = "ask" /\ pending = {}
  /\ Collected' =
       [Collected EXCEPT !["webhooks"] =
          IF /\ Read("webhooks")
             /\ \E o \in inv["webhooks"] : HasService(o) /\ Backend[o] = "unchecked"
            THEN "partial" ELSE @]
  /\ stage' = "report"
  /\ UNCHANGED <<world, goroutines, inv, asking, verdict>>

(* The cluster goes on: a Service is deleted or created, its endpoints     *)
(* come and go, the slices of a deleted one outlive it.                    *)
Change(s) ==
  /\ stage = "ask" /\ s \in Called /\ changes < MaxChanges
  /\ changes' = changes + 1
  /\ \E x \in State : x # service[s] /\ service' = [service EXCEPT ![s] = x]
  /\ seen' = [seen EXCEPT ![s] = @ \cup {service'[s]}]
  /\ UNCHANGED <<cluster, stage, goroutines, inv, Collected, asking, verdict>>

-----------------------------------------------------------------------------
(* preflight.Analyze.                                                      *)

(* A CRD with a strategy other than Webhook, or a URL, is not looked at.   *)
Judges(o) ==
  CASE o.list = "webhooks" -> o.fail
    [] o.list = "crds"     -> HasService(o)
    [] OTHER               -> TRUE

Unchecked(l) ==
  {o \in inv[l] : Judges(o) /\ HasService(o) /\ Backend[o] = "unchecked"}

\* Mutant: webhooks whose backend could not be checked are passed over.
RowPassed(l) == IF Read(l) THEN "complete" ELSE "unavailable"

Row(l) ==
  IF ~Read(l) THEN "unavailable"
  ELSE IF Unchecked(l) # {} THEN "partial" ELSE "complete"

Blocks(o) == IF HasService(o) THEN Judges(o) /\ Backend[o] = "down" ELSE o.bad

\* Mutant: the first pages of a refused list judged.
FoundAnyway(l) == {o \in inv[l] : Blocks(o)}

FindingsOf(l) == IF Read(l) THEN {o \in inv[l] : Blocks(o)} ELSE {}

Analyze ==
  /\ stage = "report"
  /\ rows' = [l \in Lists |-> Row(l)]
  /\ blocking' = UNION {FindingsOf(l) : l \in Lists}
  /\ warned' = IF Read("webhooks")
                 THEN {o \in inv["webhooks"] : o.fail /\ (HasService(o) => Backend[o] = "ready")}
                 ELSE {}
  /\ stage' = "done"
  /\ UNCHANGED <<world, goroutines, inv, Collected, asking>>

Done == stage = "done" /\ UNCHANGED vars

Goroutine(l) == Page(l) \/ LastPage(l) \/ Refused(l) \/ Store(l) \/ Record(l)
Question(o) == Known(o) \/ Found(o) \/ NotFound(o) \/ GetError(o)

Next ==
  \/ \E l \in Fetched : Goroutine(l)
  \/ Join \/ (\E o \in Objects : Question(o)) \/ Endpoints \/ Conclude
  \/ (\E s \in Services : Change(s))
  \/ Analyze \/ Done

Spec == Init /\ [][Next]_vars

-----------------------------------------------------------------------------
DownThroughout(s) == (\A x \in seen[s] : ~x.exists) \/ (\A x \in seen[s] : ~x.ready)
UpThroughout(s) == \A x \in seen[s] : x.exists /\ x.ready

(* Whatever blocks the upgrade for as long as the scan looks is named by a *)
(* finding, or the row of its check is not complete: refused lists, calls  *)
(* that fail halfway through a question and Services that change under it  *)
(* notwithstanding.                                                        *)
BlockersShow ==
  stage = "done" =>
    \A o \in cluster :
      (IF HasService(o) THEN Judges(o) /\ DownThroughout(o.backend) ELSE o.bad)
      => o \in blocking \/ rows[o.list] # "complete"

(* A webhook named as having no backend had none at some moment the scan   *)
(* was looking: an error is no answer, and neither is a changed Service.   *)
NoFalseAlarm ==
  \A o \in blocking : HasService(o) => ~UpThroughout(o.backend)

(* Everything that calls the same Service gets the same answer, although   *)
(* the Service changes between their turns: the report never contradicts   *)
(* itself about one backend.                                               *)
OneAnswerPerService ==
  stage \in {"report", "done"} =>
    \A o, p \in inv["webhooks"] \cup inv["crds"] :
      HasService(o) /\ o.backend = p.backend => Backend[o] = Backend[p]

(* Pages of a list that was refused later are in the inventory, but never  *)
(* in a finding: it would pass for the whole list.                         *)
RefusedListsUnjudged ==
  \A o \in blocking \cup warned : o \in inv[o.list] /\ inv[o.list] = In(o.list)

=============================================================================
