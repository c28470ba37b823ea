--------------------------- MODULE Preflight_proofs ---------------------------
(***************************************************************************)
(* Theorems about Preflight, for any cluster, any number of Services and   *)
(* any number of changes to them.                                          *)
(***************************************************************************)
EXTENDS Preflight, TLAPS

Asked(o) == HasService(o) /\ o \notin pending

(* A list recorded as read is in the inventory whole; until it is recorded *)
(* nothing of it counts.                                                   *)
ListsInv ==
  /\ \A l \in Lists : inv[l] \subseteq In(l) /\ (Read(l) => inv[l] = In(l))
  /\ \A l \in Fetched :
       /\ out[l] \subseteq In(l)
       /\ pc[l] = "list" => l \notin err
       /\ pc[l] = "store" /\ l \notin err => out[l] = In(l)
       /\ pc[l] = "record" /\ l \notin err => inv[l] = In(l)
       /\ pc[l] # "done" => Collected[l] = "none" /\ stage = "collect"

(* The answer of a Service was true at some moment it was asked about, and *)
(* everything that has had its turn has that answer.                       *)
AnswersInv ==
  /\ \A s \in Services : /\ service[s] \in seen[s]
                         /\ backends[s] = "ready" => ~DownThroughout(s)
                         /\ backends[s] = "down" => ~UpThroughout(s)
  /\ \A o \in inv["webhooks"] \cup inv["crds"] : Asked(o) =>
       backends[o.backend] # "unasked" /\ Backend[o] = backends[o.backend]
  /\ \A o \in pending : HasService(o)
  /\ question # NoObject => /\ backends[question.backend] = "unasked"
                            /\ \E x \in seen[question.backend] : x.exists

CollectInv == question = NoObject /\ backends = [s \in Services |-> "unasked"]

VerdictInv ==
  /\ stage # "done" => blocking = {} /\ warned = {}
  /\ stage = "done" => /\ rows = [l \in Lists |-> Row(l)]
                       /\ blocking = UNION {FindingsOf(l) : l \in Lists}
                       /\ warned \subseteq IF Read("webhooks") THEN inv["webhooks"] ELSE {}

IInv ==
  /\ TypeOK /\ ListsInv /\ VerdictInv
  /\ stage # "ask" => pending = {}
  /\ stage = "collect" => CollectInv
  /\ stage # "collect" => AnswersInv

-----------------------------------------------------------------------------
LEMMA Initial == Init => IInv
<1> SUFFICES ASSUME Init PROVE IInv
  OBVIOUS
<1> USE DEF Init, Fetched, Earlier, Lists
<1>1. PICK read \in SUBSET Earlier :
        /\ Collected = [l \in Lists |-> IF l \in Fetched THEN "none"
                      ELSE IF l \in read THEN "ok" ELSE "failed"]
        /\ inv = [l \in Lists |-> IF l \in read THEN In(l) ELSE {}]
  OBVIOUS
<1>2. \A l \in Lists : /\ Collected[l] \in {"none", "ok", "failed"}
                       /\ l \in Fetched => Collected[l] = "none"
                       /\ Collected[l] = "ok" => l \in read
  BY <1>1
<1>3. \A l \in Lists : In(l) \subseteq cluster
  BY DEF In
<1>4. TypeOK
  <2>1. /\ Collected \in [Lists -> {"none", "ok", "partial", "failed"}]
        /\ inv \in [Lists -> SUBSET cluster]
    BY <1>1, <1>2, <1>3
  <2>2. service \in [Services -> State] /\ seen \in [Services -> SUBSET State]
    OBVIOUS
  <2>3. changes \in 0 .. MaxChanges
    BY ObjectsAssumption
  <2> QED BY <2>1, <2>2, <2>3 DEF TypeOK, Answers
<1>5. ListsInv
  BY <1>1, <1>2, <1>3 DEF ListsInv, Read
<1> QED BY <1>4, <1>5 DEF IInv, VerdictInv, CollectInv

(* A goroutine moves only while the caller waits for it. *)
LEMMA GoroutineKeeps ==
  ASSUME IInv, NEW l \in Fetched, Goroutine(l)
  PROVE  IInv'
<1> USE DEF IInv, TypeOK, Fetched, Earlier, Lists
<1>0. pc[l] \in {"list", "store", "record"} /\ stage = "collect"
  BY DEF Goroutine, Page, LastPage, Refused, Store, Record, ListsInv
<1>1. /\ UNCHANGED <<world, stage, asking, verdict>>
      /\ \A k : In(k)' = In(k)
  BY DEF Goroutine, Page, LastPage, Refused, Store, Record, In, world
<1>2. CollectInv' /\ VerdictInv' /\ pending' = {}
  BY <1>0, <1>1 DEF CollectInv, VerdictInv, asking, verdict
<1>3. TypeOK' /\ ListsInv'
  <2>1. CASE Page(l)
    BY <1>0, <1>1, <2>1 DEF Page, ListsInv, In, Read, world, asking, verdict
  <2>2. CASE LastPage(l)
    BY <1>0, <1>1, <2>2 DEF LastPage, ListsInv, In, Read, world, asking, verdict
  <2>3. CASE Refused(l)
    BY <1>0, <1>1, <2>3 DEF Refused, ListsInv, In, Read, world, asking, verdict
  <2>4. CASE Store(l)
    BY <1>0, <1>1, <2>4 DEF Store, ListsInv, In, Read, world, asking, verdict
  <2>5. CASE Record(l)
    BY <1>0, <1>1, <2>5 DEF Record, ListsInv, In, Read, world, asking, verdict
  <2> QED BY <2>1, <2>2, <2>3, <2>4, <2>5 DEF Goroutine
<1> QED BY <1>0, <1>1, <1>2, <1>3

LEMMA JoinKeeps == ASSUME IInv, Join PROVE IInv'
<1> USE DEF IInv, TypeOK, Fetched, Lists
<1>1. /\ stage = "collect" /\ stage' = "ask"
      /\ UNCHANGED <<cluster, service, changes, goroutines, inv, Collected,
                     backends, Backend, question, verdict>>
      /\ \A l \in Fetched : pc[l] = "done"
  BY DEF Join
<1>2. TypeOK'
  BY <1>1 DEF Join, goroutines, verdict
<1>3. ListsInv'
  BY <1>1 DEF ListsInv, In, Read, goroutines
<1>4. VerdictInv'
  BY <1>1 DEF VerdictInv, verdict
<1>5. AnswersInv'
  BY <1>1 DEF Join, AnswersInv, CollectInv, Asked, HasService
<1> QED BY <1>1, <1>2, <1>3, <1>4, <1>5

(* An answer reaches the object whose turn it is; no object that had its   *)
(* turn before calls a Service that was not asked about yet.               *)
LEMMA HeardKeeps ==
  ASSUME IInv, stage = "ask",
         NEW o \in pending, NEW a \in Answers, Heard(o, a),
         question \in {o, NoObject},
         backends[o.backend] \in {"unasked", a},
         a = "ready" => ~DownThroughout(o.backend),
         a = "down" => ~UpThroughout(o.backend),
         UNCHANGED <<world, stage, goroutines, inv, Collected, verdict>>
  PROVE  IInv'
<1> USE DEF IInv, TypeOK
<1>1. /\ UNCHANGED <<cluster, service, changes, seen, stage, pc, out, err, inv, Collected,
                     rows, blocking, warned>>
      /\ Backend' = [Backend EXCEPT ![o] = a]
      /\ backends' = [backends EXCEPT ![o.backend] = a]
      /\ pending' = pending \ {o} /\ question' = NoObject
  BY DEF Heard, world, goroutines, verdict
<1>2. o \in Objects /\ o.backend \in Services
  <2>1. AnswersInv
    OBVIOUS
  <2>2. cluster \subseteq Objects
    BY ObjectsAssumption
  <2> QED BY <2>1, <2>2 DEF AnswersInv, HasService, Lists, Fetched, Earlier
<1>3. TypeOK'
  BY <1>1, <1>2
<1>4. ListsInv' /\ VerdictInv'
  BY <1>1 DEF ListsInv, VerdictInv, In, Read
<1>5. AnswersInv'
  <2>1. \A s \in Services : /\ service'[s] \in seen'[s]
                            /\ backends'[s] = "ready" => ~DownThroughout(s)'
                            /\ backends'[s] = "down" => ~UpThroughout(s)'
    BY <1>1, <1>2 DEF AnswersInv, DownThroughout, UpThroughout
  <2>2. ASSUME NEW p \in inv["webhooks"] \cup inv["crds"], Asked(p)'
        PROVE  backends'[p.backend] # "unasked" /\ Backend'[p] = backends'[p.backend]
    <3>1. p \in Objects /\ p.backend \in Services
      BY <2>2, ObjectsAssumption DEF Asked, HasService, Lists, Fetched, Earlier
    <3>2. CASE p = o
      BY <1>1, <1>2, <3>2 DEF Answers
    <3>3. CASE p # o
      <4>1. backends[p.backend] # "unasked" /\ Backend[p] = backends[p.backend]
        BY <1>1, <2>2, <3>3 DEF AnswersInv, Asked, HasService
      <4>2. p.backend # o.backend \/ backends[p.backend] = a
        BY <4>1
      <4> QED BY <1>1, <1>2, <3>1, <3>3, <4>1, <4>2
    <3> QED BY <3>2, <3>3
  <2>3. \A p \in pending' : HasService(p)
    BY <1>1 DEF AnswersInv
  <2> QED BY <1>1, <2>1, <2>2, <2>3 DEF AnswersInv
<1> QED BY <1>1, <1>3, <1>4, <1>5

LEMMA QuestionKeeps ==
  ASSUME IInv, NEW o \in Objects, Question(o)
  PROVE  IInv'
<1>1. stage = "ask" /\ question = NoObject /\ o \in pending
  BY DEF Question, Known, Found, NotFound, GetError, Turn
<1>2. AnswersInv /\ HasService(o)
  BY <1>1 DEF IInv, AnswersInv
<1>3. CASE Known(o)
  <2>1. backends[o.backend] \in Answers
    BY <1>2, <1>3 DEF Known, IInv, TypeOK, HasService
  <2>2. /\ backends[o.backend] = "ready" => ~DownThroughout(o.backend)
        /\ backends[o.backend] = "down" => ~UpThroughout(o.backend)
    BY <1>2 DEF AnswersInv, HasService
  <2> QED BY <1>1, <1>3, <2>1, <2>2, HeardKeeps DEF Known
<1>4. CASE NotFound(o)
  <2>1. ~UpThroughout(o.backend)
    BY <1>2, <1>4 DEF NotFound, AnswersInv, HasService, UpThroughout
  <2> QED BY <1>1, <1>4, <2>1, HeardKeeps DEF NotFound, Answers
<1>5. CASE GetError(o)
  BY <1>1, <1>5, HeardKeeps DEF GetError, Answers
<1>6. CASE Found(o)
  <2>1. /\ UNCHANGED <<cluster, service, changes, seen, stage, pc, out, err, inv, Collected,
                       backends, Backend, pending, rows, blocking, warned>>
        /\ question' = o /\ backends[o.backend] = "unasked" /\ service[o.backend].exists
    BY <1>6 DEF Found, world, goroutines, verdict
  <2>2. TypeOK'
    BY <1>1, <2>1 DEF IInv, TypeOK
  <2>3. ListsInv' /\ VerdictInv'
    BY <1>1, <2>1 DEF IInv, ListsInv, VerdictInv, In, Read
  <2>4. AnswersInv'
    BY <1>2, <2>1 DEF AnswersInv, Asked, HasService, DownThroughout, UpThroughout
  <2> QED BY <1>1, <2>1, <2>2, <2>3, <2>4 DEF IInv
<1> QED BY <1>3, <1>4, <1>5, <1>6 DEF Question

(* The list is the second call of a question, and its answer is the        *)
(* Service's state at that moment; the first call saw it exist.            *)
LEMMA EndpointsKeeps == ASSUME IInv, Endpoints PROVE IInv'
<1>1. stage = "ask" /\ question # NoObject /\ question \in pending
  BY DEF Endpoints, IInv, TypeOK
<1>2. PICK a \in {IF service[question.backend].ready THEN "ready" ELSE "down", "unchecked"} :
        Heard(question, a)
  BY DEF Endpoints
<1>3. /\ question.backend \in Services
      /\ service[question.backend] \in seen[question.backend]
      /\ backends[question.backend] = "unasked"
      /\ \E x \in seen[question.backend] : x.exists
  BY <1>1 DEF IInv, AnswersInv, HasService
<1>4. /\ a = "ready" => ~DownThroughout(question.backend)
      /\ a = "down" => ~UpThroughout(question.backend)
      /\ a \in Answers
  BY <1>2, <1>3 DEF DownThroughout, UpThroughout, Answers
<1>5. UNCHANGED <<world, stage, goroutines, inv, Collected, verdict>>
  BY DEF Endpoints
<1> QED BY <1>1, <1>2, <1>3, <1>4, <1>5, HeardKeeps

(* A change adds to what was seen: an answer that was true stays one that  *)
(* was true at some moment.                                                *)
LEMMA ChangeKeeps == ASSUME IInv, NEW s \in Services, Change(s) PROVE IInv'
<1>1. /\ stage = "ask" /\ changes < MaxChanges /\ changes' = changes + 1
      /\ seen' = [seen EXCEPT ![s] = @ \cup {service'[s]}]
      /\ UNCHANGED <<cluster, stage, pc, out, err, inv, Collected,
                     backends, Backend, pending, question, rows, blocking, warned>>
  BY DEF Change, goroutines, asking, verdict
<1>2. PICK x \in State : service' = [service EXCEPT ![s] = x]
  BY DEF Change
<1>3. TypeOK'
  BY <1>1, <1>2, ObjectsAssumption DEF IInv, TypeOK
<1>4. ListsInv' /\ VerdictInv'
  BY <1>1 DEF IInv, ListsInv, VerdictInv, In, Read
<1>5. AnswersInv'
  <2>1. seen \in [Services -> SUBSET State] /\ service \in [Services -> State] /\ AnswersInv
    BY <1>1 DEF IInv, TypeOK
  <2>2. \A t \in Services : seen[t] \subseteq seen'[t] /\ service'[t] \in seen'[t]
    BY <1>1, <1>2, <2>1 DEF AnswersInv
  <2>3. \A t \in Services : /\ backends'[t] = "ready" => ~DownThroughout(t)'
                            /\ backends'[t] = "down" => ~UpThroughout(t)'
    BY <1>1, <2>1, <2>2 DEF AnswersInv, DownThroughout, UpThroughout
  <2>4. question' # NoObject => question.backend \in Services
    BY <1>1 DEF IInv, TypeOK, AnswersInv, HasService
  <2> QED BY <1>1, <2>1, <2>2, <2>3, <2>4 DEF AnswersInv, Asked, HasService
<1> QED BY <1>1, <1>3, <1>4, <1>5 DEF IInv

LEMMA ConcludeKeeps == ASSUME IInv, Conclude PROVE IInv'
<1>1. /\ stage = "ask" /\ stage' = "report" /\ pending = {}
      /\ UNCHANGED <<cluster, service, changes, seen, pc, out, err, inv,
                     backends, Backend, pending, question, rows, blocking, warned>>
  BY DEF Conclude, world, goroutines, asking, verdict
<1>2. /\ Collected' \in [Lists -> {"none", "ok", "partial", "failed"}]
      /\ \A l \in Lists : Read(l)' = Read(l) /\ (Collected'[l] = "none") = (Collected[l] = "none")
  <2>1. "webhooks" \in Lists /\ Collected \in [Lists -> {"none", "ok", "partial", "failed"}]
    BY DEF Lists, Fetched, IInv, TypeOK
  <2>2. \/ UNCHANGED Collected
        \/ Read("webhooks") /\ Collected' = [Collected EXCEPT !["webhooks"] = "partial"]
    BY <2>1 DEF Conclude
  <2> QED BY <2>1, <2>2 DEF Read
<1>3. TypeOK'
  BY <1>1, <1>2 DEF IInv, TypeOK
<1>4. ListsInv'
  <2>1. \A l \in Fetched : l \in Lists
    BY DEF Lists
  <2> QED BY <1>1, <1>2, <2>1 DEF IInv, ListsInv, In, Read
<1>5. VerdictInv' /\ AnswersInv'
  BY <1>1 DEF IInv, VerdictInv, AnswersInv, Asked, HasService, DownThroughout, UpThroughout
<1> QED BY <1>1, <1>3, <1>4, <1>5 DEF IInv

LEMMA AnalyzeKeeps == ASSUME IInv, Analyze PROVE IInv'
<1>1. /\ stage = "report" /\ stage' = "done"
      /\ rows' = [l \in Lists |-> Row(l)]
      /\ blocking' = UNION {FindingsOf(l) : l \in Lists}
      /\ warned' \subseteq IF Read("webhooks") THEN inv["webhooks"] ELSE {}
      /\ UNCHANGED <<cluster, service, changes, seen, pc, out, err, inv, Collected,
                     backends, Backend, pending, question>>
  BY DEF Analyze, world, goroutines, asking
<1>2. \A l \in Lists : FindingsOf(l) \subseteq cluster /\ inv[l] \subseteq cluster
  BY DEF FindingsOf, IInv, TypeOK
<1>3. "webhooks" \in Lists
  BY DEF Lists, Fetched
<1>4. \A l \in Lists : Row(l) \in {"complete", "partial", "unavailable"}
  BY DEF Row
<1>5. TypeOK'
  BY <1>1, <1>2, <1>3, <1>4 DEF IInv, TypeOK
<1>6. ListsInv' /\ AnswersInv'
  BY <1>1 DEF IInv, ListsInv, AnswersInv, In, Read, Asked, HasService, DownThroughout, UpThroughout
<1>7. VerdictInv'
  <2>1. \A l \in Lists : Row(l)' = Row(l) /\ FindingsOf(l)' = FindingsOf(l)
    BY <1>1 DEF Row, FindingsOf, Read, Unchecked, Blocks, Judges, HasService
  <2> QED BY <1>1, <2>1 DEF VerdictInv, Read
<1> QED BY <1>1, <1>5, <1>6, <1>7 DEF IInv

(* The inductive invariant: what is recorded as read is whole, and what is *)
(* answered about a Service was so while it was being asked about.         *)
THEOREM Invariance == Spec => []IInv
<1>1. IInv /\ [Next]_vars => IInv'
  <2> SUFFICES ASSUME IInv, [Next]_vars PROVE IInv'
    OBVIOUS
  <2>1. CASE \E l \in Fetched : Goroutine(l)
    BY <2>1, GoroutineKeeps
  <2>2. CASE \E o \in Objects : Question(o)
    BY <2>2, QuestionKeeps
  <2>3. CASE Done \/ UNCHANGED vars
    BY <2>3 DEF Done, vars, world, goroutines, asking, verdict, IInv, TypeOK, ListsInv,
         VerdictInv, CollectInv, AnswersInv, In, Read, Asked, HasService, DownThroughout,
         UpThroughout, Row, FindingsOf, Unchecked, Blocks, Judges
  <2> QED BY <2>1, <2>2, <2>3, JoinKeeps, EndpointsKeeps, ConcludeKeeps, ChangeKeeps,
             AnalyzeKeeps DEF Next
<1> QED BY <1>1, Initial, PTL DEF Spec

(* Every variable keeps its type. *)
THEOREM TypeCorrect == Spec => []TypeOK
BY Invariance, PTL DEF IInv

-----------------------------------------------------------------------------
(* An object of a finding is one of a list that was read, and blocks.      *)
LEMMA FindingsAreRead ==
  ASSUME IInv, stage = "done"
  PROVE  \A o \in blocking : /\ o \in cluster /\ o.list \in Lists
                             /\ o \in inv[o.list] /\ Read(o.list) /\ Blocks(o)
<1> SUFFICES ASSUME NEW o \in blocking
             PROVE  /\ o \in cluster /\ o.list \in Lists
                    /\ o \in inv[o.list] /\ Read(o.list) /\ Blocks(o)
  OBVIOUS
<1>1. PICK l \in Lists : o \in FindingsOf(l)
  BY DEF IInv, VerdictInv
<1>2. Read(l) /\ o \in inv[l] /\ Blocks(o)
  BY <1>1 DEF FindingsOf
<1>3. o \in cluster /\ o.list = l
  BY <1>2 DEF IInv, ListsInv, In
<1> QED BY <1>2, <1>3

(* What blocks the upgrade for as long as the scan looks is in a finding,  *)
(* or the row of its check is not complete: for any number of Services     *)
(* that change however often, and whatever lists and calls fail.           *)
THEOREM BlockersAlwaysShow == Spec => []BlockersShow
<1>1. IInv => BlockersShow
  <2> SUFFICES ASSUME IInv, stage = "done", NEW o \in cluster,
                      IF HasService(o) THEN Judges(o) /\ DownThroughout(o.backend) ELSE o.bad,
                      rows[o.list] = "complete"
               PROVE  o \in blocking
    BY DEF BlockersShow
  <2>1. o \in Objects /\ o.list \in Lists
    BY ObjectsAssumption DEF IInv, TypeOK
  <2>2. Read(o.list) /\ Unchecked(o.list) = {}
    BY <2>1 DEF IInv, VerdictInv, Row
  <2>3. o \in inv[o.list]
    BY <2>1, <2>2 DEF IInv, ListsInv, In
  <2>4. Blocks(o)
    <3>1. CASE ~HasService(o)
      BY <3>1 DEF Blocks
    <3>2. CASE HasService(o)
      <4>1. o.list \in {"webhooks", "crds"} /\ o.backend \in Services
        BY <2>1, <3>2, ObjectsAssumption DEF HasService
      <4>2. AnswersInv /\ pending = {}
        BY DEF IInv
      <4>3. Backend[o] = backends[o.backend] /\ backends[o.backend] # "ready"
        BY <2>3, <3>2, <4>1, <4>2 DEF AnswersInv, Asked
      <4>4. Backend[o] # "unchecked"
        BY <2>2, <2>3, <3>2 DEF Unchecked
      <4>5. Backend[o] \in Answers
        BY <2>1 DEF IInv, TypeOK
      <4> QED BY <3>2, <4>3, <4>4, <4>5 DEF Blocks, Answers
    <3> QED BY <3>1, <3>2
  <2> QED BY <2>1, <2>2, <2>3, <2>4 DEF IInv, VerdictInv, FindingsOf
<1> QED BY <1>1, Invariance, PTL

(* No webhook is reported without a backend whose Service was there and    *)
(* ready all the while.                                                    *)
THEOREM AlarmsAreTrue == Spec => []NoFalseAlarm
<1>1. IInv => NoFalseAlarm
  <2> SUFFICES ASSUME IInv, NEW o \in blocking, HasService(o)
               PROVE  ~UpThroughout(o.backend)
    BY DEF NoFalseAlarm
  <2>1. stage = "done"
    BY DEF IInv, VerdictInv
  <2>2. o \in Objects /\ o \in inv[o.list] /\ Blocks(o)
    BY <2>1, FindingsAreRead, ObjectsAssumption DEF IInv, TypeOK
  <2>3. o.list \in {"webhooks", "crds"} /\ o.backend \in Services
    BY <2>2, ObjectsAssumption DEF HasService
  <2>4. Backend[o] = "down"
    BY <2>2 DEF Blocks
  <2>5. AnswersInv /\ pending = {}
    BY <2>1 DEF IInv
  <2> QED BY <2>2, <2>3, <2>4, <2>5 DEF AnswersInv, Asked
<1> QED BY <1>1, Invariance, PTL

(* Everything that calls one Service gets one answer. *)
THEOREM AnswersAgree == Spec => []OneAnswerPerService
<1>1. IInv => OneAnswerPerService
  <2> SUFFICES ASSUME IInv, stage \in {"report", "done"},
                      NEW o \in inv["webhooks"] \cup inv["crds"],
                      NEW p \in inv["webhooks"] \cup inv["crds"],
                      HasService(o), o.backend = p.backend
               PROVE  Backend[o] = Backend[p]
    BY DEF OneAnswerPerService
  <2>1. AnswersInv /\ pending = {} /\ HasService(p)
    BY DEF IInv, HasService
  <2> QED BY <2>1 DEF AnswersInv, Asked
<1> QED BY <1>1, Invariance, PTL

(* Only what was listed to the end is named in a finding. *)
THEOREM OnlyWholeListsJudged == Spec => []RefusedListsUnjudged
<1>1. IInv => RefusedListsUnjudged
  <2> SUFFICES ASSUME IInv, NEW o \in blocking \cup warned
               PROVE  o \in inv[o.list] /\ inv[o.list] = In(o.list)
    BY DEF RefusedListsUnjudged
  <2>1. stage = "done"
    BY DEF IInv, VerdictInv
  <2>2. o.list \in Lists /\ o \in inv[o.list] /\ Read(o.list)
    <3>1. CASE o \in blocking
      BY <2>1, <3>1, FindingsAreRead
    <3>2. CASE o \in warned
      <4>1. Read("webhooks") /\ o \in inv["webhooks"]
        BY <2>1, <3>2 DEF IInv, VerdictInv
      <4>2. "webhooks" \in Lists
        BY DEF Lists, Fetched
      <4>3. o.list = "webhooks"
        BY <4>1, <4>2 DEF IInv, ListsInv, In
      <4> QED BY <4>1, <4>2, <4>3
    <3> QED BY <3>1, <3>2
  <2> QED BY <2>2 DEF IInv, ListsInv
<1> QED BY <1>1, Invariance, PTL
=============================================================================
