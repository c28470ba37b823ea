-------------------------------- MODULE Scan --------------------------------
(***************************************************************************)
(* source.Scan: evidence that a cluster still uses an API version the      *)
(* target release removes.  Discovery is asked three times, with nothing   *)
(* to keep the answers consistent: which group-versions are served, which  *)
(* resource types can be listed, which resource names belong to which      *)
(* kinds.  The first two choose, for each catalog rule, the version to     *)
(* list through; every resource type chosen is then listed page by page in *)
(* a WorkPool; the API server's request counters come last.                *)
(*                                                                         *)
(* The report must tell "listed, nothing found", "could not list" and      *)
(* "cannot exist here" apart: an empty list of usages is good news only    *)
(* under coverage rows that say COMPLETE.                                  *)
(*                                                                         *)
(* Items of the pool are resource types <<kind, group-version>>, and what  *)
(* a goroutine answers is the state of its coverage row.  An object is     *)
(* abstracted to its kind, the version its writer used (its managed fields *)
(* or its last-applied manifest) and the page of the listing it is on.     *)
(***************************************************************************)
EXTENDS WorkPool

CONSTANTS
  Rules,              \* catalog rows [kind, api, repl, removedIn]
  Target,             \* the target version's minor
  Others,             \* group-versions that may be served for other kinds alone
  RequestOnly,        \* kinds that accept a create and store nothing
  Objects,            \* [kind, by, page], for each kind the cluster serves
  Pages               \* pages any listing has objects on; it may hand out more

ASSUME PagesAssumption ==
  Pages \in Nat \ {0} /\ \A o \in Objects : o.page \in 1 .. Pages
ASSUME TypesAssumption ==
  \A r \in Rules : r.kind # "*" =>
    /\ <<r.kind, r.api>> \in Items
    /\ r.repl \in Others \cup {t[2] : t \in Items} => <<r.kind, r.repl>> \in Items
ASSUME ScanAnswers == Answers = {"complete", "partial", "unavailable"}

VARIABLES
  serves,             \* resource types the cluster serves
  others,             \* group-versions it serves for other kinds
  requested,          \* of these, the ones its request counters name
  expired,            \* the scan's deadline has passed
  stage,              \* the step Scan takes next
  Served,             \* Result.Served
  targets,            \* resource types to list, from resolveTargets
  page,               \* the page each goroutine asks for next
  local,              \* the usages it has gathered so far
  Usages,             \* Result.Usages
  Coverage            \* Result.Coverage: [tier, of, state]

world == <<serves, others, requested>>
found == <<page, local, Usages>>
vars == <<poolVars, world, expired, stage, Served, targets, found, Coverage>>

AnyType == <<"*", "*">>
Types == Items
Row(tier, t, s) == [tier |-> tier, of |-> t, state |-> s]
ObjectsOf(k) == {o \in Objects : o.kind = k}
Usage == Objects \cup [kind : {t[1] : t \in Types}, by : {t[2] : t \in Types}, page : {0}]

TypeOK ==
  /\ PoolTypeOK
  /\ serves \subseteq Types /\ others \subseteq Others /\ requested \subseteq serves
  /\ expired \in BOOLEAN
  /\ stage \in {"served", "resolve", "objects", "metrics", "returned"}
  /\ targets \subseteq Types
  /\ page \in [Types -> 1 .. Pages + 1]
  /\ local \in [Types -> SUBSET Usage] /\ Usages \subseteq Usage
  /\ \A c \in Coverage : c.of \in Types \cup {AnyType} /\ c.state \in Answers

Init ==
  /\ PoolInit
  /\ serves \in SUBSET Types /\ others \in SUBSET Others
  /\ requested \in SUBSET {t \in serves : \E r \in Rules : <<r.kind, r.api>> = t}
  /\ expired = FALSE
  /\ stage = "served"
  /\ Served = {} /\ targets = {}
  /\ page = [t \in Types |-> 1]
  /\ local = [t \in Types |-> {}]
  /\ Usages = {} /\ Coverage = {}

-----------------------------------------------------------------------------
(* resolveTargets.                                                         *)

(* Rows the target version removes; a whole group-version has no kind to   *)
(* list and is left to the counters.                                       *)
Due == {r \in Rules : r.kind # "*" /\ 0 < r.removedIn /\ r.removedIn <= Target}

ListVersion(r) == IF r.repl \in Served THEN r.repl ELSE r.api
ListType(r) == <<r.kind, ListVersion(r)>>
Applicable == {r \in Due : ListVersion(r) \in Served}

(* The versions one list of t answers for. *)
removedVersions(t) == {r.api : r \in {q \in Applicable : ListType(q) = t}}

(* What ServerGroupsAndResources may answer with, short of an error:       *)
(* everything, or the types of the groups that were up.                    *)
Discovered(a) ==
  CASE a = "full"    -> {serves}
    [] a = "partial" -> {{t \in serves : t[2] \in G} : G \in SUBSET {t[2] : t \in serves}}

(* No list of group-versions, no targets: Scan returns this one row. *)
ServedUnread ==
  /\ stage = "served"
  /\ Coverage' = {Row("served", AnyType, "unavailable")}
  /\ stage' = "returned"
  /\ UNCHANGED <<poolVars, world, expired, Served, targets, found>>

ServedRead ==
  /\ stage = "served"
  /\ Served' = {t[2] : t \in serves} \cup others
  /\ stage' = "resolve"
  /\ UNCHANGED <<poolVars, world, expired, targets, found, Coverage>>

(* Lists start on T, if there is anything to list. *)
List(T) ==
  /\ targets' = T
  /\ IF T = {} THEN stage' = "returned" /\ UNCHANGED poolVars
               ELSE stage' = "objects" /\ Start(T)

\* Mutant: what cannot be listed skipped without a row.
UnscannableSilently(K) == {}

(* Rules whose type discovery neither lists nor knows as a question.  A    *)
(* replacement's group-version may be served without the kind.             *)
Unscannable(K) == {r \in Applicable : ListType(r) \notin K}

Resolve ==
  /\ stage = "resolve"
  /\ \E a \in {"full", "partial"} : \E K \in Discovered(a) :
       /\ List({ListType(r) : r \in Applicable} \cap {t \in K : t[1] \notin RequestOnly})
       /\ Coverage' =
            {Row("unscannable", <<r.kind, r.api>>, "unavailable") : r \in Unscannable(K)}
            \cup (IF a = "partial" THEN {Row("discovery", AnyType, "partial")} ELSE {})
  /\ UNCHANGED <<world, expired, Served, found>>

(* With no map the filter is skipped and every type is tried. *)
ResolveUnfiltered ==
  /\ stage = "resolve"
  /\ List({ListType(r) : r \in Applicable})
  /\ UNCHANGED <<world, expired, Served, found, Coverage>>

-----------------------------------------------------------------------------
(* scanObjects, in the goroutine of type t.                                *)

AskType(t) ==
  /\ Spawn(t)
  /\ UNCHANGED <<world, expired, stage, Served, targets, found, Coverage>>

Token(t) ==
  /\ Acquire(t)
  /\ UNCHANGED <<world, expired, stage, Served, targets, found, Coverage>>

Evidence(t) ==
  {o \in ObjectsOf(t[1]) : o.page = page[t] /\ o.by \in removedVersions(t)}

(* Past the objects a list may be at an odd or an even page. *)
NextPage(n) == IF n > Pages THEN Pages ELSE n + 1

\* Mutant: no deadline looked at before a page.
ReadPageForever(t) ==
  /\ pc[t] = "asking"
  /\ t \in serves /\ t[1] \notin RequestOnly
  /\ local' = [local EXCEPT ![t] = @ \cup Evidence(t)]
  /\ \/ page[t] >= Pages /\ Answer(t, "complete") /\ UNCHANGED page
     \/ page' = [page EXCEPT ![t] = NextPage(@)] /\ UNCHANGED poolVars
  /\ UNCHANGED <<world, expired, stage, Served, targets, Usages, Coverage>>

(* A page arrives.  One with every object behind it may be the last, which *)
(* completes the row, or carry one more continue token, without end.       *)
ReadPage(t) ==
  /\ pc[t] = "asking" /\ ~expired
  /\ t \in serves /\ t[1] \notin RequestOnly
  /\ local' = [local EXCEPT ![t] = @ \cup Evidence(t)]
  /\ \/ page[t] >= Pages /\ Answer(t, "complete") /\ UNCHANGED page
     \/ page' = [page EXCEPT ![t] = NextPage(@)] /\ UNCHANGED poolVars
  /\ UNCHANGED <<world, expired, stage, Served, targets, Usages, Coverage>>

(* ctx.Err() before a page. *)
Cancelled(t) ==
  /\ expired
  /\ Answer(t, "partial")
  /\ UNCHANGED <<world, expired, stage, Served, targets, found, Coverage>>

(* Any error: forbidden, not served, the deadline in mid-request. *)
ListFails(t) ==
  /\ Answer(t, IF local[t] # {} THEN "partial" ELSE "unavailable")
  /\ UNCHANGED <<world, expired, stage, Served, targets, found, Coverage>>

\* Mutant: a stale continue token taken for the end of the list.
TokenExpiredEnds(t) ==
  /\ page[t] > 1
  /\ Answer(t, "complete")
  /\ UNCHANGED <<world, expired, stage, Served, targets, found, Coverage>>

(* 410 Gone for a continue token: only a later page can meet it. *)
TokenExpired(t) ==
  /\ page[t] > 1
  /\ Answer(t, "partial")
  /\ UNCHANGED <<world, expired, stage, Served, targets, found, Coverage>>

Critical(t) ==
  /\ Lock(t)
  /\ UNCHANGED <<world, expired, stage, Served, targets, found, Coverage>>

Record(t) ==
  /\ Store(t)
  /\ Usages' = Usages \cup local[t]
  /\ Coverage' = Coverage \cup {Row("objects", t, answer[t])}
  /\ UNCHANGED <<world, expired, stage, Served, targets, page, local>>

Return(t) ==
  /\ Finish(t)
  /\ UNCHANGED <<world, expired, stage, Served, targets, found, Coverage>>

Join ==
  /\ stage = "objects"
  /\ Wait
  /\ stage' = "metrics"
  /\ UNCHANGED <<world, expired, Served, targets, found, Coverage>>

-----------------------------------------------------------------------------
(* scanMetrics: each counter names a group-version and a resource, which   *)
(* kindByResource turns into a kind when discovery lists it.               *)

MetricsUnread ==
  /\ stage = "metrics"
  /\ Coverage' = Coverage \cup {Row("metrics", AnyType, "unavailable")}
  /\ stage' = "returned"
  /\ UNCHANGED <<poolVars, world, expired, Served, targets, found>>

Requests(T) == {[kind |-> t[1], by |-> t[2], page |-> 0] : t \in T}

MetricsRowState(matched) == IF requested \subseteq matched THEN "complete" ELSE "partial"

MetricsRead ==
  /\ stage = "metrics"
  /\ \E K \in {{}} \cup Discovered("full") \cup Discovered("partial") :
       LET kinds   == {t[1] : t \in {u \in K : u[1] \notin RequestOnly}}
           matched == {t \in requested : t[1] \in kinds}
       IN  /\ Usages' = Usages \cup Requests(matched)
           /\ Coverage' = Coverage \cup {Row("metrics", AnyType, MetricsRowState(matched))}
  /\ stage' = "returned"
  /\ UNCHANGED <<poolVars, world, expired, Served, targets, page, local>>

Deadline ==
  /\ ~expired /\ stage # "returned"
  /\ expired' = TRUE
  /\ UNCHANGED <<poolVars, world, stage, Served, targets, found, Coverage>>

-----------------------------------------------------------------------------
Type(t) ==
  \/ Token(t) \/ ReadPage(t) \/ Cancelled(t) \/ ListFails(t) \/ TokenExpired(t)
  \/ Critical(t) \/ Record(t) \/ Return(t)

Caller ==
  \/ ServedUnread \/ ServedRead \/ Resolve \/ ResolveUnfiltered
  \/ \E t \in Types : AskType(t)
  \/ Join \/ MetricsUnread \/ MetricsRead

Returned == stage = "returned" /\ UNCHANGED vars

Next == Caller \/ (\E t \in Types : Type(t)) \/ Deadline \/ Returned

Spec == Init /\ [][Next]_vars

(* Goroutines run and each request ends; a list may ask for ever, and the  *)
(* scan's timeout passes.                                                  *)
Fairness ==
  /\ WF_vars(Caller) /\ WF_vars(Deadline)
  /\ \A t \in Types : WF_vars(Type(t))

FairSpec == Spec /\ Fairness

-----------------------------------------------------------------------------
RowsOf(tier, s) == {c.of : c \in {d \in Coverage : d.tier = tier /\ d.state = s}}

(* A COMPLETE row for a resource type: every object whose record names a   *)
(* version that list was to look for is among the usages.                  *)
CompleteRowFoundAll ==
  \A t \in RowsOf("objects", "complete") :
    {o \in ObjectsOf(t[1]) : o.by \in removedVersions(t)} \subseteq Usages

(* The report is only quiet when the cluster is: with every row COMPLETE,  *)
(* no object of a kind served at the removed version or its replacement,   *)
(* and no counted request, escaped the scan.                               *)
QuietMeansClean ==
  stage = "returned" /\ (\A c \in Coverage : c.state = "complete") =>
    /\ \A r \in Due : \A o \in ObjectsOf(r.kind) :
         /\ r.kind \notin RequestOnly /\ o.by = r.api
         /\ \E v \in {r.api, r.repl} : <<r.kind, v>> \in serves
         => o \in Usages
    /\ targets # {} => Requests(requested) \subseteq Usages

(* The rows and the silence of the report can be taken at their word.      *)
ScanHonest == CompleteRowFoundAll /\ QuietMeansClean

(* Scan returns, though a list may hand out continue tokens for ever: the  *)
(* deadline, looked at before each page, ends it.                          *)
Returns == <>(stage = "returned")

=============================================================================
