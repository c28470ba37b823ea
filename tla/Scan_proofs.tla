----------------------------- MODULE Scan_proofs -----------------------------
(***************************************************************************)
(* Theorems about Scan, for any catalog, any cluster, any discovery and    *)
(* any way the lists may fail: a complete row found all it looked for, and *)
(* a report that is quiet is so because the cluster is.                    *)
(***************************************************************************)
EXTENDS Scan, TLAPS

(* The inductive invariant.  Before the lists start nothing is found.      *)
Fresh ==
  stage \in {"served", "resolve"} =>
    /\ main = "idle" /\ todo = {} /\ targets = {}
    /\ \A t \in Types : pc[t] = "idle" /\ page[t] = 1 /\ local[t] = {}
    /\ Usages = {} /\ Coverage = {}

(* Every list is waited for: what is chosen is still to be reached by the  *)
(* loop or has a goroutine, and after the join each one has ended.         *)
Waited ==
  /\ stage = "objects" => main = "running"
  /\ todo \subseteq targets /\ \A t \in todo : pc[t] = "idle"
  /\ \A t \in Types : pc[t] # "idle" => t \in targets
  /\ \A t \in targets : t \in todo \/ pc[t] # "idle"
  /\ stage \in {"metrics", "returned"} => todo = {} /\ \A t \in Types : pc[t] \in {"idle", "done"}

(* What discovery said is served, unless it said nothing.                  *)
Known == Served = {t[2] : t \in serves} \cup others
Flawed == \E c \in Coverage : c.state # "complete"

ServedKept ==
  /\ stage \in {"resolve", "objects", "metrics"} => Known
  /\ stage = "returned" => Known \/ Flawed

(* What a list through t is made for.                                      *)
Sought(t) == {o \in ObjectsOf(t[1]) : o.by \in removedVersions(t)}

(* A goroutine holds what its pages so far showed; one that ended with its *)
(* last page holds all, and has handed it over when its row is recorded.   *)
Found(t) ==
  /\ pc[t] \in {"idle", "blocked"} => page[t] = 1
  /\ pc[t] = "asking" => \A o \in Sought(t) : o.page < page[t] => o \in local[t]
  /\ pc[t] \in {"answered", "locked", "stored", "done"} /\ answer[t] = "complete" =>
       Sought(t) \subseteq local[t]
  /\ pc[t] \in {"stored", "done"} =>
       local[t] \subseteq Usages /\ Row("objects", t, answer[t]) \in Coverage

(* A row about a list is its goroutine's answer.                           *)
RowsKept ==
  \A c \in Coverage : c.tier = "objects" =>
    /\ c.of \in Types /\ pc[c.of] \in {"stored", "done"}
    /\ c.state = answer[c.of]

(* A rule that applies is listed for, or some row admits that it is not.   *)
RulesKept ==
  stage \in {"objects", "metrics", "returned"} =>
    \A r \in Applicable : ListType(r) \in targets \/ r.kind \in RequestOnly \/ Flawed

CountersKept ==
  stage = "returned" /\ targets # {} => Flawed \/ Requests(requested) \subseteq Usages

ScanInv ==
  /\ TypeOK /\ Fresh /\ Waited /\ ServedKept
  /\ \A t \in Types : Found(t)
  /\ RowsKept /\ RulesKept /\ CountersKept

-----------------------------------------------------------------------------
(* The pool's types, step by step. *)
LEMMA PoolTyped ==
  ASSUME PoolTypeOK
  PROVE  /\ \A S \in SUBSET Items : Start(S) => PoolTypeOK'
         /\ \A i \in Items : Spawn(i) \/ Acquire(i) \/ Lock(i) \/ Store(i) \/ Finish(i) => PoolTypeOK'
         /\ \A i \in Items, a \in Answers : Answer(i, a) => PoolTypeOK'
         /\ Wait => PoolTypeOK'
         /\ UNCHANGED poolVars => PoolTypeOK'
<1> USE DEF PoolTypeOK, PCs
<1>1. ASSUME NEW S \in SUBSET Items, Start(S) PROVE PoolTypeOK'
  <2>1. NoAnswerYet \in Answers
    BY AnswersAssumption DEF NoAnswerYet
  <2> QED BY <1>1, <2>1 DEF Start
<1>2. ASSUME NEW i \in Items, Spawn(i) PROVE PoolTypeOK'
  BY <1>2 DEF Spawn
<1>3. ASSUME NEW i \in Items, Acquire(i) PROVE PoolTypeOK'
  BY <1>3 DEF Acquire
<1>4. ASSUME NEW i \in Items, Lock(i) PROVE PoolTypeOK'
  BY <1>4 DEF Lock
<1>5. ASSUME NEW i \in Items, Store(i) PROVE PoolTypeOK'
  <2>1. Append(copy[i], i) \in Seq(Items)
    OBVIOUS
  <2> QED BY <1>5, <2>1 DEF Store
<1>6. ASSUME NEW i \in Items, Finish(i) PROVE PoolTypeOK'
  BY <1>6 DEF Finish
<1>7. ASSUME NEW i \in Items, NEW a \in Answers, Answer(i, a) PROVE PoolTypeOK'
  BY <1>7 DEF Answer
<1>8. ASSUME Wait PROVE PoolTypeOK'
  BY <1>8 DEF Wait
<1>9. ASSUME UNCHANGED poolVars PROVE PoolTypeOK'
  BY <1>9 DEF poolVars
<1> QED BY <1>1, <1>2, <1>3, <1>4, <1>5, <1>6, <1>7, <1>8, <1>9

-----------------------------------------------------------------------------
(* What the catalog and discovery settle stays settled. *)
LEMMA SameRules ==
  ASSUME Served' = Served
  PROVE  /\ Applicable' = Applicable
         /\ \A r : ListType(r)' = ListType(r)
         /\ \A t : Sought(t)' = Sought(t)
<1>1. \A r : ListVersion(r)' = ListVersion(r)
  BY DEF ListVersion
<1>2. \A r : ListType(r)' = ListType(r)
  BY <1>1 DEF ListType
<1>3. Applicable' = Applicable
  BY <1>1 DEF Applicable
<1>4. \A t : removedVersions(t)' = removedVersions(t)
  BY <1>2, <1>3 DEF removedVersions
<1> QED BY <1>2, <1>3, <1>4 DEF Sought

(* A flaw once recorded is not taken back. *)
LEMMA FlawStays ==
  ASSUME Coverage \subseteq Coverage', Flawed
  PROVE  Flawed'
BY DEF Flawed

(* The types the catalog names are types of the pool. *)
LEMMA ListTypesAreTypes ==
  ASSUME TypeOK, Known, NEW r \in Due
  PROVE  ListType(r) \in Types /\ <<r.kind, r.api>> \in Types
<1>1. r \in Rules /\ r.kind # "*"
  BY DEF Due
<1>2. Served \subseteq Others \cup {t[2] : t \in Items}
  BY DEF TypeOK, Known, Types
<1> QED BY <1>1, <1>2, TypesAssumption DEF ListType, ListVersion, Types

(* One goroutine's step: what it leaves alone keeps the invariant, and it  *)
(* has to account for itself.                                              *)
LEMMA GoroutineKeeps ==
  ASSUME ScanInv, NEW t \in Types, pc[t] \notin {"idle", "done"}, pc'[t] # "idle",
         TypeOK', UNCHANGED <<serves, others, requested, stage, Served, targets, main, todo>>,
         \A u \in Types \ {t} :
            pc'[u] = pc[u] /\ page'[u] = page[u] /\ local'[u] = local[u] /\ answer'[u] = answer[u],
         Usages \subseteq Usages', Coverage \subseteq Coverage',
         Found(t)', RowsKept'
  PROVE  ScanInv'
<1> USE DEF ScanInv
<1>1. stage \notin {"served", "resolve", "metrics", "returned"}
  BY DEF Fresh, Waited
<1>2. stage = "objects"
  BY <1>1 DEF TypeOK
<1>3. Fresh'
  BY <1>2 DEF Fresh
<1>4. Waited'
  <2>1. targets \subseteq Types
    BY DEF TypeOK
  <2>2. t \in targets
    BY DEF Waited
  <2> QED BY <1>2, <2>1, <2>2 DEF Waited
<1>5. ServedKept'
  BY <1>2 DEF ServedKept, Known
<1>6. \A u \in Types : Found(u)'
  <2> SUFFICES ASSUME NEW u \in Types, u # t PROVE Found(u)'
    OBVIOUS
  <2>1. Sought(u)' = Sought(u)
    BY SameRules
  <2>2. Found(u)
    OBVIOUS
  <2> QED BY <2>1, <2>2 DEF Found, Row
<1>7. RulesKept'
  BY <1>2, SameRules, FlawStays DEF RulesKept
<1>8. CountersKept'
  BY <1>2 DEF CountersKept
<1> QED BY <1>3, <1>4, <1>5, <1>6, <1>7, <1>8

(* A goroutine that records nothing leaves the rows as they are. *)
LEMMA RowsStay ==
  ASSUME ScanInv, Coverage' = Coverage,
         \A u \in Types : pc[u] \in {"stored", "done"} =>
                             pc'[u] \in {"stored", "done"} /\ answer'[u] = answer[u]
  PROVE  RowsKept'
BY DEF ScanInv, RowsKept

-----------------------------------------------------------------------------
(* The goroutine of one type. *)
LEMMA TokenKeeps ==
  ASSUME ScanInv, NEW t \in Types, Token(t)
  PROVE  ScanInv'
<1> USE DEF ScanInv
<1>1. /\ pc[t] = "blocked" /\ pc' = [pc EXCEPT ![t] = "asking"]
      /\ UNCHANGED <<main, todo, answer, world, expired, stage, Served, targets, found, Coverage>>
  BY DEF Token, Acquire
<1>2. UNCHANGED <<serves, others, requested, page, local, Usages>>
  BY <1>1 DEF world, found
<1>3. TypeOK'
  <2>1. PoolTypeOK'
    BY PoolTyped DEF Token, TypeOK, Types
  <2> QED BY <1>1, <1>2, <2>1 DEF TypeOK
<1>4. pc \in [Types -> PCs]
  BY DEF TypeOK, PoolTypeOK, Types
<1>5. pc'[t] = "asking" /\ \A u \in Types \ {t} : pc'[u] = pc[u]
  BY <1>1, <1>4
<1>6. Found(t)'
  <2>1. page[t] = 1
    BY <1>1 DEF Found
  <2>2. \A o \in Sought(t)' : ~(o.page < page[t])
    BY <2>1, PagesAssumption, SameRules, <1>1 DEF Sought, ObjectsOf
  <2> QED BY <1>2, <1>5, <2>2 DEF Found
<1>7. RowsKept'
  BY <1>1, <1>5, RowsStay
<1> HIDE DEF ScanInv
<1> QED BY <1>1, <1>2, <1>3, <1>5, <1>6, <1>7, GoroutineKeeps

LEMMA ReadPageKeeps ==
  ASSUME ScanInv, NEW t \in Types, ReadPage(t)
  PROVE  ScanInv'
<1> USE DEF ScanInv
<1>1. /\ pc[t] = "asking"
      /\ local' = [local EXCEPT ![t] = @ \cup Evidence(t)]
      /\ \/ page[t] >= Pages /\ Answer(t, "complete") /\ UNCHANGED page
         \/ page' = [page EXCEPT ![t] = NextPage(@)] /\ UNCHANGED poolVars
      /\ UNCHANGED <<serves, others, requested, expired, stage, Served, targets, Usages, Coverage>>
  BY DEF ReadPage, world
<1>2. /\ pc \in [Types -> PCs] /\ page \in [Types -> 1 .. Pages + 1] /\ local \in [Types -> SUBSET Usage]
      /\ answer \in [Types -> Answers] /\ PoolTypeOK
  BY DEF TypeOK, PoolTypeOK, Types
<1>3. /\ local'[t] = local[t] \cup Evidence(t) /\ local' \in [Types -> SUBSET Usage]
      /\ \A u \in Types \ {t} : local'[u] = local[u]
  <2>1. Evidence(t) \subseteq Usage
    BY DEF Evidence, ObjectsOf, Usage
  <2> QED BY <1>1, <1>2, <2>1
<1>4. Sought(t)' = Sought(t)
  BY <1>1, SameRules
<1>5. \A o \in Sought(t) : o.page \in 1 .. Pages /\ (o.page = page[t] => o \in Evidence(t))
  BY PagesAssumption DEF Sought, Evidence, ObjectsOf
<1>6. \A o \in Sought(t) : o.page < page[t] => o \in local[t]
  BY <1>1 DEF Found
<1>7. page[t] \in 1 .. Pages + 1 /\ Pages \in Nat \ {0}
  BY <1>2, PagesAssumption
<1>8. CASE page[t] >= Pages /\ Answer(t, "complete") /\ UNCHANGED page
  <2>1. /\ answer' = [answer EXCEPT ![t] = "complete"] /\ pc' = [pc EXCEPT ![t] = "answered"]
        /\ UNCHANGED <<main, todo>>
    BY <1>8 DEF Answer
  <2>2. /\ pc'[t] = "answered" /\ answer'[t] = "complete"
        /\ \A u \in Types \ {t} : pc'[u] = pc[u] /\ answer'[u] = answer[u]
    BY <1>2, <2>1
  <2>3. TypeOK'
    <3>1. PoolTypeOK'
      BY <1>2, <1>8, ScanAnswers, PoolTyped DEF Types
    <3> QED BY <1>1, <1>3, <1>8, <3>1 DEF TypeOK
  <2>4. Sought(t) \subseteq local'[t]
    BY <1>3, <1>5, <1>6, <1>7, <1>8
  <2>5. Found(t)'
    BY <1>4, <2>2, <2>4 DEF Found
  <2>6. RowsKept'
    BY <1>1, <2>2, RowsStay
  <2> HIDE DEF ScanInv
  <2> QED BY <1>1, <1>3, <1>8, <2>1, <2>2, <2>3, <2>5, <2>6, GoroutineKeeps
<1>9. CASE page' = [page EXCEPT ![t] = NextPage(@)] /\ UNCHANGED poolVars
  <2>1. UNCHANGED <<main, todo, pc, answer>>
    BY <1>9 DEF poolVars
  <2>2. /\ page'[t] <= page[t] + 1 /\ page' \in [Types -> 1 .. Pages + 1]
        /\ \A u \in Types \ {t} : page'[u] = page[u]
    <3>1. NextPage(page[t]) \in 1 .. Pages + 1 /\ NextPage(page[t]) <= page[t] + 1
      BY <1>7 DEF NextPage
    <3> QED BY <1>2, <1>9, <3>1
  <2>3. TypeOK'
    <3>1. PoolTypeOK'
      <4>1. UNCHANGED poolVars
        BY <1>9
      <4> QED BY <1>2, <4>1, PoolTyped
    <3> QED BY <1>1, <1>3, <2>2, <3>1 DEF TypeOK
  <2>4. \A o \in Sought(t) : o.page < page'[t] => o \in local'[t]
    BY <1>3, <1>5, <1>6, <1>7, <2>2
  <2>5. Found(t)'
    BY <1>1, <1>4, <2>1, <2>4 DEF Found
  <2>6. RowsKept'
    BY <1>1, <2>1, RowsStay
  <2> HIDE DEF ScanInv
  <2> QED BY <1>1, <1>3, <2>1, <2>2, <2>3, <2>5, <2>6, GoroutineKeeps
<1> QED BY <1>1, <1>8, <1>9

(* A list that ends early: cancelled, failed, or cut off by a stale token. *)
LEMMA EndsEarlyKeeps ==
  ASSUME ScanInv, NEW t \in Types, Cancelled(t) \/ ListFails(t) \/ TokenExpired(t)
  PROVE  ScanInv'
<1> USE DEF ScanInv
<1>1. PICK a \in {"partial", "unavailable"} :
        /\ Answer(t, a)
        /\ UNCHANGED <<world, expired, stage, Served, targets, found, Coverage>>
  BY DEF Cancelled, ListFails, TokenExpired
<1>2. /\ pc[t] = "asking" /\ pc' = [pc EXCEPT ![t] = "answered"] /\ answer' = [answer EXCEPT ![t] = a]
      /\ UNCHANGED <<main, todo, serves, others, requested, expired, stage, Served, targets,
                     page, local, Usages, Coverage>>
  BY <1>1 DEF Answer, world, found
<1>3. pc \in [Types -> PCs] /\ answer \in [Types -> Answers] /\ PoolTypeOK
  BY DEF TypeOK, PoolTypeOK, Types
<1>4. /\ pc'[t] = "answered" /\ answer'[t] = a
      /\ \A u \in Types \ {t} : pc'[u] = pc[u] /\ answer'[u] = answer[u]
  BY <1>2, <1>3
<1>5. TypeOK'
  <2>1. PoolTypeOK'
    BY <1>1, <1>3, ScanAnswers, PoolTyped DEF Types
  <2> QED BY <1>2, <2>1 DEF TypeOK
<1>6. Found(t)'
  BY <1>4 DEF Found
<1>7. RowsKept'
  BY <1>2, <1>4, RowsStay
<1> HIDE DEF ScanInv
<1> QED BY <1>2, <1>4, <1>5, <1>6, <1>7, GoroutineKeeps

LEMMA CriticalKeeps ==
  ASSUME ScanInv, NEW t \in Types, Critical(t)
  PROVE  ScanInv'
<1> USE DEF ScanInv
<1>1. /\ pc[t] = "answered" /\ pc' = [pc EXCEPT ![t] = "locked"]
      /\ UNCHANGED <<main, todo, answer, serves, others, requested, expired, stage, Served, targets,
                     page, local, Usages, Coverage>>
  BY DEF Critical, Lock, world, found
<1>2. pc \in [Types -> PCs]
  BY DEF TypeOK, PoolTypeOK, Types
<1>3. pc'[t] = "locked" /\ \A u \in Types \ {t} : pc'[u] = pc[u]
  BY <1>1, <1>2
<1>4. TypeOK'
  <2>1. PoolTypeOK'
    BY PoolTyped DEF Critical, TypeOK, Types
  <2> QED BY <1>1, <2>1 DEF TypeOK
<1>5. Found(t)'
  <2>1. Sought(t)' = Sought(t)
    BY <1>1, SameRules
  <2> QED BY <1>1, <1>3, <2>1 DEF Found
<1>6. RowsKept'
  BY <1>1, <1>3, RowsStay
<1> HIDE DEF ScanInv
<1> QED BY <1>1, <1>3, <1>4, <1>5, <1>6, GoroutineKeeps

(* The row and the usages of a list go in together. *)
LEMMA RecordKeeps ==
  ASSUME ScanInv, NEW t \in Types, Record(t)
  PROVE  ScanInv'
<1> USE DEF ScanInv
<1>1. /\ pc[t] = "locked" /\ pc' = [pc EXCEPT ![t] = "stored"]
      /\ Usages' = Usages \cup local[t]
      /\ Coverage' = Coverage \cup {Row("objects", t, answer[t])}
      /\ UNCHANGED <<main, todo, answer, serves, others, requested, expired, stage, Served, targets,
                     page, local>>
  BY DEF Record, Store, world
<1>2. /\ pc \in [Types -> PCs] /\ local \in [Types -> SUBSET Usage]
      /\ answer \in [Types -> Answers]
  BY DEF TypeOK, PoolTypeOK, Types
<1>3. pc'[t] = "stored" /\ \A u \in Types \ {t} : pc'[u] = pc[u]
  BY <1>1, <1>2
<1>4. TypeOK'
  <2>1. PoolTypeOK'
    BY PoolTyped DEF Record, TypeOK, Types
  <2>2. Usages' \subseteq Usage
    BY <1>1, <1>2 DEF TypeOK
  <2>3. \A c \in Coverage' : c.of \in Types \cup {AnyType} /\ c.state \in Answers
    <3>1. Row("objects", t, answer[t]).of = t /\ Row("objects", t, answer[t]).state = answer[t]
      BY DEF Row
    <3> QED BY <1>1, <1>2, <3>1 DEF TypeOK
  <2> QED BY <1>1, <2>1, <2>2, <2>3 DEF TypeOK
<1>5. Found(t)'
  <2>1. Sought(t)' = Sought(t)
    BY <1>1, SameRules
  <2> QED BY <1>1, <1>3, <2>1 DEF Found, Row
<1>6. RowsKept'
  <2> SUFFICES ASSUME NEW c \in Coverage', c.tier = "objects"
               PROVE  c.of \in Types /\ pc'[c.of] \in {"stored", "done"} /\ c.state = answer'[c.of]
    BY DEF RowsKept
  <2>1. CASE c \in Coverage
    BY <1>1, <1>3, <2>1 DEF RowsKept
  <2>2. CASE c = Row("objects", t, answer[t])
    BY <1>1, <1>3, <2>2 DEF Row
  <2> QED BY <1>1, <2>1, <2>2
<1> HIDE DEF ScanInv
<1> QED BY <1>1, <1>3, <1>4, <1>5, <1>6, GoroutineKeeps

LEMMA ReturnKeeps ==
  ASSUME ScanInv, NEW t \in Types, Return(t)
  PROVE  ScanInv'
<1> USE DEF ScanInv
<1>1. /\ pc[t] = "stored" /\ pc' = [pc EXCEPT ![t] = "done"]
      /\ UNCHANGED <<main, todo, answer, serves, others, requested, expired, stage, Served, targets,
                     page, local, Usages, Coverage>>
  BY DEF Return, Finish, world, found
<1>2. pc \in [Types -> PCs]
  BY DEF TypeOK, PoolTypeOK, Types
<1>3. pc'[t] = "done" /\ \A u \in Types \ {t} : pc'[u] = pc[u]
  BY <1>1, <1>2
<1>4. TypeOK'
  <2>1. PoolTypeOK'
    BY PoolTyped DEF Return, TypeOK, Types
  <2> QED BY <1>1, <2>1 DEF TypeOK
<1>5. Found(t)'
  <2>1. Sought(t)' = Sought(t)
    BY <1>1, SameRules
  <2> QED BY <1>1, <1>3, <2>1 DEF Found, Row
<1>6. RowsKept'
  BY <1>1, <1>3, RowsStay
<1> HIDE DEF ScanInv
<1> QED BY <1>1, <1>3, <1>4, <1>5, <1>6, GoroutineKeeps

-----------------------------------------------------------------------------
(* The calling goroutine. *)
LEMMA InitHolds == Init => ScanInv
<1> SUFFICES ASSUME Init PROVE ScanInv
  OBVIOUS
<1>1. PoolTypeOK
  <2>1. NoAnswerYet \in Answers
    BY AnswersAssumption DEF NoAnswerYet
  <2> QED BY <2>1 DEF Init, PoolInit, PoolTypeOK, PCs
<1>2. TypeOK
  <2>1. serves \subseteq Types /\ others \subseteq Others /\ requested \subseteq serves
    BY DEF Init
  <2>2. page \in [Types -> 1 .. Pages + 1] /\ local \in [Types -> SUBSET Usage]
    <3>1. 1 \in 1 .. Pages + 1
      BY PagesAssumption
    <3> QED BY <3>1 DEF Init
  <2>3. expired = FALSE /\ stage = "served" /\ targets = {} /\ Usages = {} /\ Coverage = {}
    BY DEF Init
  <2> QED BY <1>1, <2>1, <2>2, <2>3 DEF TypeOK
<1>3. \A t \in Types : pc[t] = "idle" /\ page[t] = 1
  BY DEF Init, PoolInit, Types
<1>4. Fresh /\ Waited /\ ServedKept /\ RowsKept /\ RulesKept /\ CountersKept
  BY <1>3 DEF Init, PoolInit, Types, Fresh, Waited, ServedKept, RowsKept, RulesKept, CountersKept
<1>5. \A t \in Types : Found(t)
  BY <1>3 DEF Found
<1> QED BY <1>2, <1>4, <1>5 DEF ScanInv

LEMMA ServedUnreadKeeps == ASSUME ScanInv, ServedUnread PROVE ScanInv'
<1> USE DEF ScanInv
<1>1. /\ stage = "served" /\ stage' = "returned"
      /\ Coverage' = {Row("served", AnyType, "unavailable")}
      /\ UNCHANGED <<main, todo, pc, answer, serves, others, requested, expired, Served, targets,
                     page, local, Usages>>
      /\ UNCHANGED poolVars
  BY DEF ServedUnread, poolVars, world, found
<1>2. /\ main = "idle" /\ todo = {} /\ targets = {}
      /\ \A t \in Types : pc[t] = "idle" /\ page[t] = 1 /\ local[t] = {}
  BY <1>1 DEF Fresh
<1>3. Row("served", AnyType, "unavailable").state = "unavailable"
      /\ Row("served", AnyType, "unavailable").of = AnyType
      /\ Row("served", AnyType, "unavailable").tier = "served"
  BY DEF Row
<1>4. Flawed'
  BY <1>1, <1>3 DEF Flawed
<1>5. TypeOK'
  <2>1. PoolTypeOK'
    BY <1>1, PoolTyped DEF TypeOK
  <2> QED BY <1>1, <1>3, <2>1, ScanAnswers DEF TypeOK
<1>6. Fresh' /\ Waited' /\ ServedKept' /\ RulesKept' /\ CountersKept'
  BY <1>1, <1>2, <1>4 DEF Fresh, Waited, ServedKept, RulesKept, CountersKept
<1>7. \A t \in Types : Found(t)'
  BY <1>1, <1>2 DEF Found
<1>8. RowsKept'
  BY <1>1, <1>3 DEF RowsKept
<1> QED BY <1>5, <1>6, <1>7, <1>8

LEMMA ServedReadKeeps == ASSUME ScanInv, ServedRead PROVE ScanInv'
<1> USE DEF ScanInv
<1>1. /\ stage = "served" /\ stage' = "resolve"
      /\ Served' = {t[2] : t \in serves} \cup others
      /\ UNCHANGED <<main, todo, pc, answer, serves, others, requested, expired, targets,
                     page, local, Usages, Coverage>>
      /\ UNCHANGED poolVars
  BY DEF ServedRead, poolVars, world, found
<1>2. Fresh' /\ Coverage' = {} /\ \A t \in Types : pc'[t] = "idle" /\ page'[t] = 1
  BY <1>1 DEF Fresh
<1>3. TypeOK'
  <2>1. PoolTypeOK'
    BY <1>1, PoolTyped DEF TypeOK
  <2> QED BY <1>1, <2>1 DEF TypeOK
<1>4. Waited' /\ ServedKept' /\ RulesKept' /\ CountersKept' /\ RowsKept'
  BY <1>1, <1>2 DEF Fresh, Waited, ServedKept, Known, RulesKept, CountersKept, RowsKept
<1>5. \A t \in Types : Found(t)'
  BY <1>2 DEF Found
<1> QED BY <1>2, <1>3, <1>4, <1>5

(* Whatever is chosen to be listed, the pool starts on it or there is none. *)
LEMMA ListKeeps ==
  ASSUME ScanInv, stage = "resolve", NEW T \in SUBSET Types, List(T),
         UNCHANGED <<world, expired, Served, found>>,
         \A c \in Coverage' : c.tier # "objects" /\ c.of \in Types \cup {AnyType} /\ c.state \in Answers,
         \A r \in Applicable : ListType(r) \in T \/ r.kind \in RequestOnly \/ Flawed'
  PROVE  ScanInv'
<1> USE DEF ScanInv
<1>1. /\ main = "idle" /\ todo = {} /\ targets = {} /\ Known
      /\ \A t \in Types : pc[t] = "idle" /\ page[t] = 1 /\ local[t] = {}
  BY DEF Fresh, ServedKept
<1>2. UNCHANGED <<serves, others, requested, expired, Served, page, local, Usages>> /\ targets' = T
  BY DEF world, found, List
<1>3. RowsKept' /\ Known'
  BY <1>1, <1>2 DEF RowsKept, Known
<1>4. Applicable' = Applicable /\ \A r : ListType(r)' = ListType(r)
  BY <1>2, SameRules
<1>5. RulesKept'
  BY <1>2, <1>4 DEF RulesKept
<1>6. CASE T = {}
  <2>1. stage' = "returned" /\ UNCHANGED poolVars
    BY <1>6 DEF List
  <2>2. UNCHANGED <<main, todo, pc, answer>>
    BY <2>1 DEF poolVars
  <2>3. TypeOK'
    <3>1. PoolTypeOK'
      BY <2>1, PoolTyped DEF TypeOK
    <3> QED BY <1>2, <2>1, <3>1 DEF TypeOK
  <2>4. Fresh' /\ Waited' /\ ServedKept' /\ CountersKept'
    BY <1>1, <1>2, <1>3, <1>6, <2>1, <2>2 DEF Fresh, Waited, ServedKept, CountersKept
  <2>5. \A t \in Types : Found(t)'
    BY <1>1, <1>2, <2>2 DEF Found
  <2> QED BY <1>3, <1>5, <2>3, <2>4, <2>5
<1>7. CASE T # {}
  <2>1. stage' = "objects" /\ Start(T)
    BY <1>7 DEF List
  <2>2. main' = "running" /\ todo' = T /\ \A t \in Types : pc'[t] = "idle"
    BY <2>1 DEF Start, Types
  <2>3. TypeOK'
    <3>1. PoolTypeOK'
      BY <2>1, PoolTyped DEF TypeOK, Types
    <3> QED BY <1>2, <2>1, <3>1 DEF TypeOK
  <2>4. Fresh' /\ Waited' /\ ServedKept' /\ CountersKept'
    BY <1>2, <1>3, <2>1, <2>2 DEF Fresh, Waited, ServedKept, CountersKept
  <2>5. \A t \in Types : Found(t)'
    BY <1>1, <1>2, <2>2 DEF Found
  <2> QED BY <1>3, <1>5, <2>3, <2>4, <2>5
<1> QED BY <1>6, <1>7

LEMMA ResolveKeeps == ASSUME ScanInv, Resolve PROVE ScanInv'
<1> USE DEF ScanInv
<1>1. PICK a \in {"full", "partial"}, K \in SUBSET serves :
       /\ List({ListType(r) : r \in Applicable} \cap {t \in K : t[1] \notin RequestOnly})
       /\ Coverage' =
            {Row("unscannable", <<r.kind, r.api>>, "unavailable") : r \in Unscannable(K)}
            \cup (IF a = "partial" THEN {Row("discovery", AnyType, "partial")} ELSE {})
  <2>1. PICK a \in {"full", "partial"} : \E K \in Discovered(a) :
       /\ List({ListType(r) : r \in Applicable} \cap {t \in K : t[1] \notin RequestOnly})
       /\ Coverage' =
            {Row("unscannable", <<r.kind, r.api>>, "unavailable") : r \in Unscannable(K)}
            \cup (IF a = "partial" THEN {Row("discovery", AnyType, "partial")} ELSE {})
    BY DEF Resolve
  <2>2. Discovered(a) \subseteq SUBSET serves
    BY <2>1 DEF Discovered
  <2> QED BY <2>1, <2>2
<1>2. stage = "resolve" /\ UNCHANGED <<world, expired, Served, found>> /\ Known
  BY DEF Resolve, ServedKept
<1> DEFINE T == {ListType(r) : r \in Applicable} \cap {t \in K : t[1] \notin RequestOnly}
<1>3. T \in SUBSET Types
  BY <1>1 DEF TypeOK
<1>4. Unscannable(K) \subseteq Due /\ Applicable \subseteq Due
  BY DEF Unscannable, Applicable
<1>5. \A c \in Coverage' : c.tier # "objects" /\ c.of \in Types \cup {AnyType} /\ c.state \in Answers
  <2>1. \A r \in Unscannable(K) : LET c == Row("unscannable", <<r.kind, r.api>>, "unavailable")
                                 IN  c.tier # "objects" /\ c.of \in Types /\ c.state \in Answers
    BY <1>2, <1>4, ListTypesAreTypes, ScanAnswers DEF Row
  <2>2. LET c == Row("discovery", AnyType, "partial")
        IN  c.tier # "objects" /\ c.of = AnyType /\ c.state \in Answers
    BY ScanAnswers DEF Row
  <2> QED BY <1>1, <2>1, <2>2
<1>6. ASSUME NEW r \in Applicable PROVE ListType(r) \in T \/ r.kind \in RequestOnly \/ Flawed'
  <2>1. CASE ListType(r) \in K
    BY <2>1 DEF ListType
  <2>2. CASE ListType(r) \notin K
    <3>1. Row("unscannable", <<r.kind, r.api>>, "unavailable") \in Coverage'
      BY <1>1, <2>2 DEF Unscannable
    <3>2. Row("unscannable", <<r.kind, r.api>>, "unavailable").state = "unavailable"
      BY DEF Row
    <3> QED BY <3>1, <3>2 DEF Flawed
  <2> QED BY <2>1, <2>2
<1>7. List(T)
  BY <1>1
<1> HIDE DEF T, ScanInv
<1> QED BY <1>2, <1>3, <1>5, <1>6, <1>7, ListKeeps

LEMMA ResolveUnfilteredKeeps == ASSUME ScanInv, ResolveUnfiltered PROVE ScanInv'
<1> USE DEF ScanInv
<1> DEFINE T == {ListType(r) : r \in Applicable}
<1>1. List(T) /\ stage = "resolve" /\ UNCHANGED <<world, expired, Served, found, Coverage>>
  BY DEF ResolveUnfiltered
<1>2. Known /\ Coverage = {} /\ TypeOK
  BY <1>1 DEF ServedKept, Fresh
<1>3. T \in SUBSET Types
  BY <1>2, ListTypesAreTypes DEF Applicable
<1>4. \A r \in Applicable : ListType(r) \in T
  OBVIOUS
<1>5. UNCHANGED <<world, expired, Served, found>> /\ Coverage' = {}
  BY <1>1, <1>2
<1> HIDE DEF T, ScanInv
<1> QED BY <1>1, <1>3, <1>4, <1>5, ListKeeps

LEMMA AskTypeKeeps ==
  ASSUME ScanInv, NEW t \in Types, AskType(t)
  PROVE  ScanInv'
<1> USE DEF ScanInv
<1>1. /\ main = "running" /\ t \in todo /\ todo' = todo \ {t} /\ pc' = [pc EXCEPT ![t] = "blocked"]
      /\ UNCHANGED <<main, answer, serves, others, requested, expired, stage, Served, targets,
                     page, local, Usages, Coverage>>
  BY DEF AskType, Spawn, world, found
<1>2. pc \in [Types -> PCs] /\ targets \subseteq Types /\ t \in targets
  BY <1>1 DEF TypeOK, PoolTypeOK, Types, Waited
<1>3. pc'[t] = "blocked" /\ \A u \in Types \ {t} : pc'[u] = pc[u]
  BY <1>1, <1>2
<1>4. stage = "objects"
  BY <1>1 DEF TypeOK, Fresh, Waited
<1>5. TypeOK'
  <2>1. PoolTypeOK'
    BY PoolTyped DEF AskType, TypeOK, Types
  <2> QED BY <1>1, <2>1 DEF TypeOK
<1>6. pc[t] = "idle"
  BY <1>1 DEF Waited
<1>7. \A u \in Types : Found(u)'
  <2>1. \A u \in Types : Sought(u)' = Sought(u)
    BY <1>1, SameRules
  <2>2. Found(t)'
    BY <1>1, <1>3, <1>6 DEF Found
  <2>3. \A u \in Types \ {t} : Found(u)'
    BY <1>1, <1>3, <2>1 DEF Found, Row
  <2> QED BY <2>2, <2>3
<1>8. Fresh' /\ ServedKept' /\ CountersKept'
  BY <1>1, <1>4 DEF Fresh, ServedKept, Known, CountersKept
<1>9. Waited'
  BY <1>1, <1>2, <1>3, <1>4 DEF Waited
<1>10. RowsKept'
  BY <1>1, <1>3, <1>6, RowsStay
<1>11. RulesKept'
  BY <1>1, SameRules, FlawStays DEF RulesKept
<1> QED BY <1>5, <1>7, <1>8, <1>9, <1>10, <1>11

(* Once every goroutine has ended, what is left is the counters. *)
LEMMA JoinKeeps == ASSUME ScanInv, Join PROVE ScanInv'
<1> USE DEF ScanInv
<1>1. /\ stage = "objects" /\ stage' = "metrics"
      /\ todo = {} /\ \A t \in Types : pc[t] \in {"idle", "done"}
      /\ UNCHANGED <<todo, pc, answer, serves, others, requested, expired, Served, targets,
                     page, local, Usages, Coverage>>
  <2>1. \A t \in Types : pc[t] \in {"idle", "done"}
    BY DEF Join, Wait, Running, Types
  <2> QED BY <2>1 DEF Join, Wait, world, found
<1>2. TypeOK'
  <2>1. PoolTypeOK'
    BY PoolTyped DEF Join, TypeOK
  <2> QED BY <1>1, <2>1 DEF TypeOK
<1>3. Fresh' /\ Waited' /\ ServedKept' /\ CountersKept'
  BY <1>1 DEF Fresh, Waited, ServedKept, Known, CountersKept
<1>4. \A t \in Types : Found(t)'
  <2>1. \A u \in Types : Sought(u)' = Sought(u)
    BY <1>1, SameRules
  <2> QED BY <1>1, <2>1 DEF Found, Row
<1>5. RowsKept' /\ RulesKept'
  BY <1>1, RowsStay, SameRules, FlawStays DEF RulesKept
<1> QED BY <1>2, <1>3, <1>4, <1>5

(* The counters' row is the last. *)
LEMMA MetricsKeeps ==
  ASSUME ScanInv, stage = "metrics", stage' = "returned",
         UNCHANGED <<poolVars, world, expired, Served, targets, page, local>>,
         NEW s \in Answers, Coverage' = Coverage \cup {Row("metrics", AnyType, s)},
         Usages \subseteq Usages', Usages' \subseteq Usage,
         s # "complete" \/ Requests(requested) \subseteq Usages'
  PROVE  ScanInv'
<1> USE DEF ScanInv
<1>1. /\ UNCHANGED <<main, todo, pc, answer, serves, others, requested, expired, Served, targets, page, local>>
      /\ UNCHANGED poolVars
  BY DEF poolVars, world
<1>2. LET c == Row("metrics", AnyType, s)
      IN  c.tier = "metrics" /\ c.of = AnyType /\ c.state = s
  BY DEF Row
<1>3. TypeOK'
  <2>1. PoolTypeOK'
    BY <1>1, PoolTyped DEF TypeOK
  <2>2. \A c \in Coverage' : c.of \in Types \cup {AnyType} /\ c.state \in Answers
    BY <1>2 DEF TypeOK
  <2> QED BY <1>1, <2>1, <2>2 DEF TypeOK
<1>4. Fresh' /\ Waited' /\ ServedKept'
  BY <1>1 DEF Fresh, Waited, ServedKept, Known
<1>5. \A t \in Types : Found(t)'
  <2>1. \A u \in Types : Sought(u)' = Sought(u)
    BY <1>1, SameRules
  <2> QED BY <1>1, <2>1 DEF Found, Row
<1>6. RowsKept'
  BY <1>1, <1>2 DEF RowsKept
<1>7. RulesKept'
  BY <1>1, SameRules, FlawStays DEF RulesKept
<1>8. CountersKept'
  <2>1. Requests(requested)' = Requests(requested)
    BY <1>1 DEF Requests
  <2>2. s # "complete" => Flawed'
    BY <1>2 DEF Flawed
  <2> QED BY <2>1, <2>2 DEF CountersKept
<1> QED BY <1>3, <1>4, <1>5, <1>6, <1>7, <1>8

LEMMA MetricsUnreadKeeps == ASSUME ScanInv, MetricsUnread PROVE ScanInv'
<1>1. /\ stage = "metrics" /\ stage' = "returned"
      /\ UNCHANGED <<poolVars, world, expired, Served, targets, page, local>>
      /\ Usages' = Usages /\ Coverage' = Coverage \cup {Row("metrics", AnyType, "unavailable")}
  BY DEF MetricsUnread, found
<1>2. Usages \subseteq Usage
  BY DEF ScanInv, TypeOK
<1> QED BY <1>1, <1>2, ScanAnswers, MetricsKeeps

LEMMA MetricsReadKeeps == ASSUME ScanInv, MetricsRead PROVE ScanInv'
<1>1. PICK matched \in SUBSET requested :
        /\ Usages' = Usages \cup Requests(matched)
        /\ Coverage' = Coverage \cup {Row("metrics", AnyType, MetricsRowState(matched))}
  BY DEF MetricsRead
<1>2. /\ stage = "metrics" /\ stage' = "returned"
      /\ UNCHANGED <<poolVars, world, expired, Served, targets, page, local>>
  BY DEF MetricsRead
<1>3. Usages \subseteq Usage /\ requested \subseteq Types
  BY DEF ScanInv, TypeOK
<1>4. Requests(matched) \subseteq Usage
  BY <1>1, <1>3 DEF Requests, Usage
<1>5. MetricsRowState(matched) \in Answers
  BY ScanAnswers DEF MetricsRowState
<1>6. MetricsRowState(matched) # "complete" \/ Requests(requested) \subseteq Usages'
  <2>1. CASE requested \subseteq matched
    <3>1. matched = requested
      BY <1>1, <2>1
    <3> QED BY <1>1, <3>1
  <2>2. CASE ~(requested \subseteq matched)
    BY <2>2 DEF MetricsRowState
  <2> QED BY <2>1, <2>2
<1> QED BY <1>1, <1>2, <1>3, <1>4, <1>5, <1>6, MetricsKeeps

(* The deadline, or nothing at all. *)
LEMMA StillKeeps ==
  ASSUME ScanInv, expired' \in BOOLEAN, UNCHANGED <<poolVars, world, stage, Served, targets, found, Coverage>>
  PROVE  ScanInv'
<1> USE DEF ScanInv
<1>1. UNCHANGED <<main, todo, pc, answer, serves, others, requested, stage, Served, targets, page, local,
                 Usages, Coverage>>
  BY DEF poolVars, world, found
<1>2. TypeOK'
  <2>1. PoolTypeOK'
    BY PoolTyped DEF TypeOK
  <2> QED BY <1>1, <2>1 DEF TypeOK
<1>3. Fresh' /\ Waited' /\ ServedKept'
  BY <1>1 DEF Fresh, Waited, ServedKept, Known, Flawed
<1>4. \A t \in Types : Found(t)'
  <2>1. \A u \in Types : Sought(u)' = Sought(u)
    BY <1>1, SameRules
  <2> QED BY <1>1, <2>1 DEF Found, Row
<1>5. RowsKept' /\ RulesKept'
  BY <1>1, RowsStay, SameRules, FlawStays DEF RulesKept
<1>6. CountersKept'
  BY <1>1 DEF CountersKept, Flawed, Requests
<1> QED BY <1>2, <1>3, <1>4, <1>5, <1>6

LEMMA NextKeeps == ScanInv /\ [Next]_vars => ScanInv'
<1> SUFFICES ASSUME ScanInv, [Next]_vars PROVE ScanInv'
  OBVIOUS
<1>1. CASE Caller
  BY <1>1, ServedUnreadKeeps, ServedReadKeeps, ResolveKeeps, ResolveUnfilteredKeeps, AskTypeKeeps,
     JoinKeeps, MetricsUnreadKeeps, MetricsReadKeeps DEF Caller
<1>2. CASE \E t \in Types : Type(t)
  BY <1>2, TokenKeeps, ReadPageKeeps, EndsEarlyKeeps, CriticalKeeps, RecordKeeps, ReturnKeeps DEF Type
<1>3. CASE Deadline
  <2>1. expired' \in BOOLEAN /\ UNCHANGED <<poolVars, world, stage, Served, targets, found, Coverage>>
    BY <1>3 DEF Deadline
  <2> QED BY <2>1, StillKeeps
<1>4. CASE UNCHANGED vars
  <2>1. expired' \in BOOLEAN /\ UNCHANGED <<poolVars, world, stage, Served, targets, found, Coverage>>
    BY <1>4 DEF vars, ScanInv, TypeOK
  <2> QED BY <2>1, StillKeeps
<1> QED BY <1>1, <1>2, <1>3, <1>4 DEF Next, Returned

LEMMA Invariance == Spec => []ScanInv
<1>1. Init => ScanInv
  BY InitHolds
<1>2. ScanInv /\ [Next]_vars => ScanInv'
  BY NextKeeps
<1> QED BY <1>1, <1>2, PTL DEF Spec

-----------------------------------------------------------------------------
(* Every variable of the scan and of its pool keeps to its type.           *)
THEOREM TypeCorrect == Spec => []TypeOK
<1>1. ScanInv => TypeOK
  BY DEF ScanInv
<1> QED BY <1>1, Invariance, PTL

(* A COMPLETE row for a resource type found every object it looked for.    *)
LEMMA CompleteFound ==
  ASSUME ScanInv
  PROVE  CompleteRowFoundAll
<1> SUFFICES ASSUME NEW t \in RowsOf("objects", "complete")
             PROVE  Sought(t) \subseteq Usages
  BY DEF CompleteRowFoundAll, Sought
<1>1. PICK c \in Coverage : c.tier = "objects" /\ c.state = "complete" /\ c.of = t
  BY DEF RowsOf
<1>2. t \in Types /\ pc[t] \in {"stored", "done"} /\ answer[t] = "complete"
  BY <1>1 DEF ScanInv, RowsKept
<1> QED BY <1>2 DEF ScanInv, Found

(* Under rows that all say COMPLETE, what is not in the report is not in   *)
(* the cluster.                                                            *)
LEMMA QuietIsClean ==
  ASSUME ScanInv
  PROVE  QuietMeansClean
<1> SUFFICES ASSUME stage = "returned", ~Flawed
             PROVE  /\ \A r \in Due : \A o \in ObjectsOf(r.kind) :
                         /\ r.kind \notin RequestOnly /\ o.by = r.api
                         /\ \E v \in {r.api, r.repl} : <<r.kind, v>> \in serves
                         => o \in Usages
                    /\ targets # {} => Requests(requested) \subseteq Usages
  BY DEF QuietMeansClean, Flawed
<1>1. Known
  BY DEF ScanInv, ServedKept
<1>2. ASSUME NEW r \in Due, NEW o \in ObjectsOf(r.kind), r.kind \notin RequestOnly, o.by = r.api,
             NEW v \in {r.api, r.repl}, <<r.kind, v>> \in serves
      PROVE  o \in Usages
  <2> DEFINE t == ListType(r)
  <2>1. v \in Served
    <3>1. v = <<r.kind, v>>[2]
      OBVIOUS
    <3> QED BY <1>1, <1>2, <3>1 DEF Known
  <2>2. r \in Applicable
    BY <2>1 DEF Applicable, ListVersion
  <2>3. t \in targets
    BY <1>2, <2>2 DEF ScanInv, RulesKept
  <2>4. t \in Types /\ pc[t] = "done"
    BY <2>3 DEF ScanInv, TypeOK, Waited
  <2>5. Row("objects", t, answer[t]) \in Coverage
    BY <2>4 DEF ScanInv, Found
  <2>6. t \in RowsOf("objects", "complete")
    <3>1. Row("objects", t, answer[t]).state = "complete"
      BY <2>5 DEF Flawed
    <3> QED BY <2>5, <3>1 DEF RowsOf, Row
  <2>7. t[1] = r.kind /\ r.api \in removedVersions(t)
    BY <2>2 DEF ListType, removedVersions
  <2>8. o \in Sought(t)
    BY <1>2, <2>7 DEF Sought
  <2> HIDE DEF t
  <2> QED BY <2>6, <2>8, CompleteFound DEF CompleteRowFoundAll, Sought
<1>3. targets # {} => Requests(requested) \subseteq Usages
  BY DEF ScanInv, CountersKept
<1> QED BY <1>2, <1>3

(* The rows and the silence of the scan can be taken at their word: for    *)
(* any catalog, cluster, discovery, failures and order of goroutines.      *)
THEOREM ScanIsHonest == Spec => []ScanHonest
<1>1. ScanInv => ScanHonest
  BY CompleteFound, QuietIsClean DEF ScanHonest
<1> QED BY <1>1, Invariance, PTL
=============================================================================
