-------------------------- MODULE Inventory_proofs --------------------------
(***************************************************************************)
(* Theorems about the pool of goroutines and about the two machines that   *)
(* run on it, in three parts.                                              *)
(*                                                                         *)
(* WorkPool, for every set of items, every limit and every set of answers: *)
(* the limiter's bound, that a joined round has counted every answer, and  *)
(* that the pool implements Gather.                                        *)
(*                                                                         *)
(* KindReads, for any kinds, paths and limit: rows judged are rows read to *)
(* the last page, "complete" leaves nothing unanswered, what could not be  *)
(* read shows, and a spec read whole is never cut down.                    *)
(*                                                                         *)
(* Collect, for any fleet, collectors and limit: no outcome in the         *)
(* inventory claims more than was read, and the snapshot the later steps   *)
(* read without the mutex never changes.                                   *)
(***************************************************************************)
EXTENDS KindReads, Collect, FunctionTheorems, FiniteSetTheorems, TLAPS

(***************************************************************************)
(* The inductive invariant.  Tokens says what the limiter's and the        *)
(* mutex's contents mean in terms of where the goroutines are; Loaded is   *)
(* the reason no append is lost: whoever is between load and store holds   *)
(* the only copy, and it is current.                                       *)
(***************************************************************************)
Tokens ==
  /\ limiter = {i \in Items : pc[i] \in Holding}
  /\ Cardinality(limiter) <= Limit
  /\ mu = {i \in Items : pc[i] = "locked"}

Loaded ==
  /\ \A i, j \in mu : i = j
  /\ \A i \in mu : copy[i] = rows

Counted ==
  /\ \A i \in Items : Stored(i) => \E n \in 1 .. Len(rows) : rows[n] = i
  /\ \A n \in 1 .. Len(rows) : pc[rows[n]] \in {"stored", "done"}
  /\ \A m, n \in 1 .. Len(rows) : rows[m] = rows[n] => m = n

Quiet ==
  /\ \A i \in todo : pc[i] = "idle"
  /\ main # "running" => todo = {} /\ \A i \in Items : ~Running(i)

PoolInv == PoolTypeOK /\ Tokens /\ Loaded /\ Counted /\ Quiet

-----------------------------------------------------------------------------
(* One more token in a channel that was not full is still within Limit.    *)
LEMMA OneMoreToken ==
  ASSUME NEW S \in SUBSET Items, NEW i \in Items, Cardinality(S) < Limit
  PROVE  Cardinality(S \cup {i}) <= Limit
<1>1. IsFiniteSet(S)
  BY ItemsAssumption, FS_Subset
<1>2. Cardinality(S) \in Nat
  BY <1>1, FS_CardinalityType
<1>3. Cardinality(S \cup {i}) = Cardinality(S) \/ Cardinality(S \cup {i}) = Cardinality(S) + 1
  BY <1>1, FS_AddElement
<1>4. QED
  BY <1>2, <1>3, LimitAssumption

(* Giving a token back cannot exceed the limit.                            *)
LEMMA OneTokenBack ==
  ASSUME NEW S \in SUBSET Items, NEW T \in SUBSET S, Cardinality(S) <= Limit
  PROVE  Cardinality(T) <= Limit
<1>1. IsFiniteSet(S)
  BY ItemsAssumption, FS_Subset
<1>2. /\ IsFiniteSet(T)
      /\ Cardinality(T) <= Cardinality(S)
  BY <1>1, FS_Subset
<1>3. Cardinality(S) \in Nat /\ Cardinality(T) \in Nat
  BY <1>1, <1>2, FS_CardinalityType
<1>4. QED
  BY <1>2, <1>3, LimitAssumption

(* A round begins with no goroutine, no token and an empty result.         *)
LEMMA InitIInv == PoolInit => PoolInv
<1> SUFFICES ASSUME PoolInit PROVE PoolInv
  OBVIOUS
<1>1. PoolTypeOK
  BY AnswersAssumption DEF PoolInit, PoolTypeOK, PCs, NoAnswerYet
<1>2. Tokens
  <2>1. Cardinality({}) = 0
    BY FS_EmptySet
  <2>2. QED
    BY <2>1, LimitAssumption DEF PoolInit, Tokens, Holding
<1>3. Loaded /\ Counted /\ Quiet
  BY DEF PoolInit, Loaded, Counted, Quiet, Stored, Running
<1>4. QED
  BY <1>1, <1>2, <1>3 DEF PoolInv

(* A fresh round has its own limiter, mutex and slice.                     *)
LEMMA StartIInv == ASSUME PoolInv, NEW S \in SUBSET Items, Start(S) PROVE PoolInv'
<1>1. PoolTypeOK'
  BY AnswersAssumption DEF PoolInv, PoolTypeOK, Start, PCs, NoAnswerYet
<1>2. Tokens'
  <2>1. Cardinality({}) = 0
    BY FS_EmptySet
  <2>2. limiter' = {} /\ mu' = {} /\ \A i \in Items : pc'[i] = "idle"
    BY DEF Start
  <2>3. QED
    BY <2>1, <2>2, LimitAssumption DEF Tokens, Holding
<1>3. Loaded' /\ Counted' /\ Quiet'
  BY DEF Start, Loaded, Counted, Quiet, Stored, Running
<1>4. QED
  BY <1>1, <1>2, <1>3 DEF PoolInv

(* The caller's loop and its wait touch no token, no lock and no row.      *)
LEMMA CallerIInv ==
  ASSUME PoolInv, Wait \/ (\E i \in Items : Spawn(i) \/ Skip(i))
  PROVE  PoolInv'
<1>1. CASE Wait
  BY <1>1 DEF PoolInv, PoolTypeOK, Tokens, Loaded, Counted, Quiet, Wait, Stored, Running
<1>2. ASSUME NEW i \in Items, Skip(i) PROVE PoolInv'
  BY <1>2 DEF PoolInv, PoolTypeOK, Tokens, Loaded, Counted, Quiet, Skip, Stored, Running
<1>3. ASSUME NEW i \in Items, Spawn(i) PROVE PoolInv'
  <2>1. pc[i] = "idle" /\ pc'[i] = "blocked" /\ \A j \in Items : j # i => pc'[j] = pc[j]
    BY <1>3 DEF PoolInv, PoolTypeOK, Quiet, Spawn
  <2>2. PoolTypeOK'
    BY <1>3 DEF PoolInv, PoolTypeOK, PCs, Spawn
  <2>3. Tokens'
    BY <1>3, <2>1 DEF PoolInv, PoolTypeOK, Tokens, Holding, Spawn
  <2>4. Loaded' /\ Counted' /\ Quiet'
    BY <1>3, <2>1 DEF PoolInv, PoolTypeOK, Loaded, Counted, Quiet, Stored, Running, Spawn
  <2>5. QED
    BY <2>2, <2>3, <2>4 DEF PoolInv
<1>4. QED
  BY <1>1, <1>2, <1>3

(* Only Acquire puts a token in, and only below the limit.                 *)
LEMMA AcquireIInv == ASSUME PoolInv, NEW i \in Items, Acquire(i) PROVE PoolInv'
<1>1. pc[i] = "blocked" /\ pc'[i] = "asking" /\ \A j \in Items : j # i => pc'[j] = pc[j]
  BY DEF PoolInv, PoolTypeOK, Acquire
<1>2. PoolTypeOK'
  BY DEF PoolInv, PoolTypeOK, PCs, Acquire
<1>3. Tokens'
  <2>1. Cardinality(limiter \cup {i}) <= Limit
    BY OneMoreToken DEF PoolInv, PoolTypeOK, Acquire
  <2>2. QED
    BY <1>1, <2>1 DEF PoolInv, PoolTypeOK, Tokens, Holding, Acquire
<1>4. Loaded' /\ Counted' /\ Quiet'
  BY <1>1 DEF PoolInv, PoolTypeOK, Loaded, Counted, Quiet, Stored, Running, Acquire
<1>5. QED
  BY <1>2, <1>3, <1>4 DEF PoolInv

LEMMA AnswerIInv ==
  ASSUME PoolInv, NEW i \in Items, NEW a \in Answers, Answer(i, a)
  PROVE  PoolInv'
<1>1. pc[i] = "asking" /\ pc'[i] = "answered" /\ \A j \in Items : j # i => pc'[j] = pc[j]
  BY DEF PoolInv, PoolTypeOK, Answer
<1>2. PoolTypeOK'
  BY DEF PoolInv, PoolTypeOK, PCs, Answer
<1>3. Tokens'
  BY <1>1 DEF PoolInv, PoolTypeOK, Tokens, Holding, Answer
<1>4. Loaded' /\ Counted' /\ Quiet'
  BY <1>1 DEF PoolInv, PoolTypeOK, Loaded, Counted, Quiet, Stored, Running, Answer
<1>5. QED
  BY <1>2, <1>3, <1>4 DEF PoolInv

(* The load happens with the mutex held by nobody else.                    *)
LEMMA LockIInv == ASSUME PoolInv, NEW i \in Items, Lock(i) PROVE PoolInv'
<1>1. pc[i] = "answered" /\ pc'[i] = "locked" /\ \A j \in Items : j # i => pc'[j] = pc[j]
  BY DEF PoolInv, PoolTypeOK, Lock
<1>2. PoolTypeOK'
  BY DEF PoolInv, PoolTypeOK, PCs, Lock
<1>3. Tokens'
  BY <1>1 DEF PoolInv, PoolTypeOK, Tokens, Holding, Lock
<1>4. Loaded'
  BY DEF PoolInv, PoolTypeOK, Loaded, Lock
<1>5. Counted' /\ Quiet'
  BY <1>1 DEF PoolInv, PoolTypeOK, Counted, Quiet, Stored, Running, Lock
<1>6. QED
  BY <1>2, <1>3, <1>4, <1>5 DEF PoolInv

(* The store appends one row to the current slice: everything counted so   *)
(* far stays counted, and i, which was not, is counted once.               *)
LEMMA StoreIInv == ASSUME PoolInv, NEW i \in Items, Store(i) PROVE PoolInv'
<1>1. pc[i] = "locked" /\ pc'[i] = "stored" /\ \A j \in Items : j # i => pc'[j] = pc[j]
  BY DEF PoolInv, PoolTypeOK, Store
<1>2. mu = {i} /\ copy[i] = rows
  BY <1>1 DEF PoolInv, Tokens, Loaded
<1>3. /\ rows' = Append(rows, i) /\ mu' = {}
      /\ UNCHANGED <<main, todo, limiter, answer>>
  BY <1>2 DEF Store
<1>4. PoolTypeOK'
  BY <1>3 DEF PoolInv, PoolTypeOK, PCs, Store
<1>5. Tokens'
  BY <1>1, <1>2, <1>3 DEF PoolInv, PoolTypeOK, Tokens, Holding
<1>6. Loaded'
  BY <1>3 DEF Loaded
<1>7. Counted'
  <2>1. rows \in Seq(Items) /\ Len(rows) \in Nat
    BY DEF PoolInv, PoolTypeOK
  <2>2. /\ Len(rows') = Len(rows) + 1
        /\ rows'[Len(rows) + 1] = i
        /\ \A n \in 1 .. Len(rows) : rows'[n] = rows[n]
    BY <1>3, <2>1
  <2>3. \A n \in 1 .. Len(rows) : rows[n] \in Items /\ rows[n] # i
    BY <1>1, <2>1 DEF PoolInv, Counted, Stored
  <2>4. \A j \in Items : Stored(j)' <=> (Stored(j) \/ j = i)
    BY <1>1 DEF Stored
  <2>5. \A j \in Items : Stored(j)' => \E n \in 1 .. Len(rows') : rows'[n] = j
    <3> SUFFICES ASSUME NEW j \in Items, Stored(j)'
                 PROVE  \E n \in 1 .. Len(rows') : rows'[n] = j
      OBVIOUS
    <3>1. CASE j = i
      BY <3>1, <2>1, <2>2
    <3>2. CASE j # i
      <4>1. PICK n \in 1 .. Len(rows) : rows[n] = j
        BY <3>2, <2>4 DEF PoolInv, Counted
      <4>2. QED
        BY <4>1, <2>1, <2>2
    <3>3. QED
      BY <3>1, <3>2
  <2>6. \A n \in 1 .. Len(rows') : pc'[rows'[n]] \in {"stored", "done"}
    <3> SUFFICES ASSUME NEW n \in 1 .. Len(rows')
                 PROVE  pc'[rows'[n]] \in {"stored", "done"}
      OBVIOUS
    <3>1. CASE n = Len(rows) + 1
      BY <3>1, <2>2, <1>1
    <3>2. CASE n \in 1 .. Len(rows)
      BY <3>2, <1>1, <2>2, <2>3 DEF PoolInv, Counted
    <3>3. QED
      BY <3>1, <3>2, <2>1, <2>2
  <2>7. \A m, n \in 1 .. Len(rows') : rows'[m] = rows'[n] => m = n
    BY <2>1, <2>2, <2>3 DEF PoolInv, Counted
  <2>8. QED
    BY <2>5, <2>6, <2>7 DEF Counted
<1>8. Quiet'
  BY <1>1, <1>3 DEF PoolInv, PoolTypeOK, Quiet, Running
<1>9. QED
  BY <1>4, <1>5, <1>6, <1>7, <1>8 DEF PoolInv

LEMMA FinishIInv == ASSUME PoolInv, NEW i \in Items, Finish(i) PROVE PoolInv'
<1>1. pc[i] = "stored" /\ pc'[i] = "done" /\ \A j \in Items : j # i => pc'[j] = pc[j]
  BY DEF PoolInv, PoolTypeOK, Finish
<1>2. PoolTypeOK'
  BY DEF PoolInv, PoolTypeOK, PCs, Finish
<1>3. Tokens'
  <2>1. Cardinality(limiter \ {i}) <= Limit
    BY OneTokenBack DEF PoolInv, PoolTypeOK, Tokens
  <2>2. QED
    BY <1>1, <2>1 DEF PoolInv, PoolTypeOK, Tokens, Holding, Finish
<1>4. Loaded' /\ Counted' /\ Quiet'
  BY <1>1 DEF PoolInv, PoolTypeOK, Loaded, Counted, Quiet, Stored, Running, Finish
<1>5. QED
  BY <1>2, <1>3, <1>4 DEF PoolInv

LEMMA StutterIInv == ASSUME PoolInv, UNCHANGED poolVars PROVE PoolInv'
BY DEF PoolInv, PoolTypeOK, Tokens, Loaded, Counted, Quiet, Stored, Running, poolVars

(* Every step keeps the invariant.                                         *)
LEMMA NextIInv == PoolInv /\ [PoolNext]_poolVars => PoolInv'
<1> SUFFICES ASSUME PoolInv, [PoolNext]_poolVars PROVE PoolInv'
  OBVIOUS
<1>1. CASE \E S \in SUBSET Items : Start(S)
  BY <1>1, StartIInv
<1>2. CASE Loop \/ Wait
  BY <1>2, CallerIInv DEF Loop
<1>3. ASSUME NEW i \in Items, Goroutine(i) PROVE PoolInv'
  BY <1>3, AcquireIInv, AnswerIInv, LockIInv, StoreIInv, FinishIInv DEF Goroutine
<1>4. CASE UNCHANGED poolVars
  BY <1>4, StutterIInv
<1>5. QED
  BY <1>1, <1>2, <1>3, <1>4 DEF PoolNext

THEOREM PoolInvariance == PoolSpec => []PoolInv
BY InitIInv, NextIInv, PTL DEF PoolSpec

-----------------------------------------------------------------------------
(* The variables keep their types, whatever the scheduler does.            *)
THEOREM PoolTypeCorrect == PoolSpec => []PoolTypeOK
BY PoolInvariance, PTL DEF PoolInv

(* No schedule has more than Limit calls in flight: the channel's capacity *)
(* is the only thing that bounds what a scan asks of an API server.        *)
THEOREM LimiterIsABound == PoolSpec => []LimiterBound
<1>1. PoolInv => LimiterBound
  BY DEF PoolInv, Tokens, LimiterBound
<1>2. QED
  BY <1>1, PoolInvariance, PTL

(* A list without repeats is as long as the set it lists.                  *)
LEMMA RowsCountSpawned ==
  ASSUME PoolTypeOK, Counted, \A i \in Items : pc[i] \in {"idle", "stored", "done"}
  PROVE  RowSet = Spawned /\ Len(rows) = Cardinality(Spawned)
<1>1. rows \in Seq(Items) /\ Len(rows) \in Nat /\ DOMAIN rows = 1 .. Len(rows)
  BY DEF PoolTypeOK
<1>2. \A n \in 1 .. Len(rows) : rows[n] \in Items
  BY <1>1
<1>3. \A n \in 1 .. Len(rows) : rows[n] \in Spawned
  BY <1>2 DEF Spawned, Counted
<1>4. \A i \in Spawned : \E n \in 1 .. Len(rows) : rows[n] = i
  BY DEF Spawned, Counted, Stored
<1>5. RowSet = Spawned
  BY <1>1, <1>3, <1>4 DEF RowSet
<1>6. Cardinality(Spawned) = Len(rows)
  <2>1. rows \in [1 .. Len(rows) -> Spawned]
    BY <1>1, <1>3
  <2>2. rows \in Bijection(1 .. Len(rows), Spawned)
    BY <1>4, <2>1, Fun_IsBij DEF Counted
  <2>3. QED
    BY <1>1, <2>2, FS_CountingElements DEF ExistsBijection
<1>7. QED
  BY <1>5, <1>6

(* Whoever reads the result after wg.Wait sees one row for each goroutine  *)
(* that was started: no append is lost and none is doubled.                *)
THEOREM NothingLost == PoolSpec => []EveryAnswerCounted
<1>1. PoolInv => EveryAnswerCounted
  <2> SUFFICES ASSUME PoolInv, main = "joined"
               PROVE  RowSet = Spawned /\ Len(rows) = Cardinality(Spawned)
    BY DEF EveryAnswerCounted
  <2>1. \A i \in Items : pc[i] \in {"idle", "stored", "done"}
    BY DEF PoolInv, Quiet, Running
  <2>2. QED
    BY <2>1, RowsCountSpawned DEF PoolInv
<1>2. QED
  BY <1>1, PoolInvariance, PTL

-----------------------------------------------------------------------------
(* Each step of the pool is a step of Gather or changes nothing it sees.   *)
LEMMA StepRefines == PoolInv /\ [PoolNext]_poolVars => [Abstract!Next]_(Abstract!vars)
<1> SUFFICES ASSUME PoolInv, [PoolNext]_poolVars
             PROVE  Abstract!Next \/ UNCHANGED Abstract!vars
  OBVIOUS
<1> USE DEF Abstract!vars
<1> DEFINE asked == todo \cup Spawned
<1>a. DOMAIN rows = 1 .. Len(rows) /\ Len(rows) \in Nat /\ rows \in Seq(Items)
  BY DEF PoolInv, PoolTypeOK
<1>b. RowSet = {i \in Items : Stored(i)}
  BY <1>a DEF PoolInv, Counted, RowSet, Stored
<1>1. CASE \E S \in SUBSET Items : Start(S)
  <2>1. PICK S \in SUBSET Items : Start(S)
    BY <1>1
  <2>2. Abstract!Begin(S)
    BY <2>1 DEF Start, Abstract!Begin, Spawned, RowSet
  <2>3. QED
    BY <2>2 DEF Abstract!Next
<1>2. ASSUME NEW i \in Items, Spawn(i) PROVE UNCHANGED Abstract!vars
  <2>1. /\ pc' = [pc EXCEPT ![i] = "blocked"] /\ todo' = todo \ {i} /\ i \in todo
        /\ UNCHANGED <<main, rows>>
    BY <1>2 DEF Spawn
  <2>2. Spawned' = Spawned \cup {i}
    BY <2>1 DEF Spawned, PoolInv, PoolTypeOK
  <2>3. QED
    BY <2>1, <2>2 DEF RowSet
<1>3. ASSUME NEW i \in Items, Skip(i) PROVE Abstract!Drop(i)
  <2>1. i \notin Spawned /\ i \notin RowSet
    BY <1>3, <1>b DEF Skip, Spawned, Stored, PoolInv, Quiet
  <2>2. QED
    BY <1>3, <2>1 DEF Skip, Abstract!Drop, Spawned, RowSet
<1>4. CASE Wait
  <2>1. RowSet = todo \cup Spawned
    BY <1>4, <1>b DEF Wait, Running, Spawned, Stored
  <2>2. Abstract!Join
    BY <1>4, <2>1 DEF Wait, Abstract!Join, Spawned, RowSet
  <2>3. QED
    BY <2>2 DEF Abstract!Next
<1>5. ASSUME NEW i \in Items,
             \/ Acquire(i) \/ (\E a \in Answers : Answer(i, a))
             \/ Lock(i) \/ Finish(i)
      PROVE  UNCHANGED Abstract!vars
  <2>1. UNCHANGED <<main, todo, rows>>
    BY <1>5 DEF Acquire, Answer, Lock, Finish
  <2>2. Spawned' = Spawned
    BY <1>5 DEF Acquire, Answer, Lock, Finish, Spawned, PoolInv, PoolTypeOK
  <2>3. QED
    BY <2>1, <2>2 DEF RowSet
<1>6. ASSUME NEW i \in Items, Store(i) PROVE Abstract!Take(i)
  <2>1. pc[i] = "locked" /\ pc' = [pc EXCEPT ![i] = "stored"] /\ UNCHANGED <<main, todo>>
    BY <1>6 DEF Store
  <2>2. Spawned' = Spawned /\ i \in Spawned
    BY <2>1 DEF Spawned, PoolInv, PoolTypeOK
  <2>3. i \notin RowSet /\ main = "running"
    BY <1>b, <2>1 DEF Stored, PoolInv, Quiet, Running
  <2>4. PoolInv'
    BY <1>6, StoreIInv
  <2>5. RowSet' = {j \in Items : pc'[j] \in {"stored", "done"}}
    <3>1. DOMAIN rows' = 1 .. Len(rows') /\ rows' \in Seq(Items)
      BY <2>4 DEF PoolInv, PoolTypeOK
    <3>2. QED
      BY <3>1, <2>4 DEF PoolInv, Counted, RowSet, Stored
  <2>6. RowSet' = RowSet \cup {i}
    BY <1>b, <2>1, <2>5 DEF Stored, PoolInv, PoolTypeOK
  <2>7. QED
    BY <2>1, <2>2, <2>3, <2>6 DEF Abstract!Take
<1>7. CASE UNCHANGED poolVars
  BY <1>7 DEF poolVars, Spawned, RowSet
<1>8. QED
  BY <1>1, <1>2, <1>3, <1>4, <1>5, <1>6, <1>7 DEF PoolNext, Loop, Goroutine, Abstract!Next

(* The limiter, the mutex and the wait group deliver what Gather promises. *)
THEOREM Refinement == PoolSpec => ImplementsGather
<1>1. PoolInit => Abstract!Init
  BY DEF PoolInit, Abstract!Init, Spawned, RowSet
<1>2. QED
  BY <1>1, StepRefines, PoolInvariance, PTL DEF PoolSpec, ImplementsGather, Abstract!Spec

-----------------------------------------------------------------------------
(* KindReads.                                                              *)

(* A kind whose read is still to be recorded has nothing in the inventory, *)
(* and an answer with rows is one that had its last page; a recorded read  *)
(* with rows is in the inventory, whole if the first pass asked.           *)
Answered(k) == pc[k] \in {"answered", "locked"} \/ Stored(k)
Asking(k) == k \in todo \/ pc[k] \in {"blocked", "asking", "answered", "locked"}

Hand ==
  \A k \in Items :
    /\ Asking(k) => CRs[k] = "absent"
    /\ Answered(k) => answer[k] \in {"rows", "error"}
    /\ pc[k] \in {"answered", "locked"} /\ answer[k] = "rows" => out[k] = "all"
    /\ Stored(k) /\ answer[k] = "rows" =>
         CRs[k] # "absent" /\ (stage = "custom resources" => CRs[k] = "full")

(* One pass after the other, each with its row still to be written.        *)
Order ==
  /\ main = "running" => stage \in Passes
  /\ stage = "custom resources" /\ main # "running" => \A k \in Items : CRs[k] = "absent"
  /\ stage = "custom resources" => PassCollected["custom resources"] = "none"
  /\ stage \in Passes => PassCollected["rule objects"] = "none"

(* While a pass runs, each kind it is about is still to be spawned, was    *)
(* spawned, is not served, or was read before it.                          *)
About(p) == IF p = "custom resources" THEN AddonKinds \ AddonTyped ELSE ruleKinds \ RuleTyped

Round ==
  main = "running" =>
    \A k \in About(stage) :
      \/ k \in todo \/ pc[k] # "idle" \/ k \in CRNotServed
      \/ stage = "rule objects" /\ CRs[k] # "absent"

(* What a row that says "complete" stands for, from the moment it is       *)
(* written.                                                                *)
CompleteRows ==
  /\ PassCollected["custom resources"] = "complete" =>
       \A k \in AddonKinds \ AddonTyped : CRs[k] = "full" \/ k \in CRNotServed
  /\ PassCollected["rule objects"] = "complete" =>
       \A k \in ruleKinds \ RuleTyped : CRs[k] # "absent" \/ k \in CRNotServed

(* A failed read has a row to show for it, or its pass is still running.   *)
Gap == \E p \in Passes : PassCollected[p] \in {"partial", "failed"}
Failing == \E k \in Items : Stored(k) /\ answer[k] = "error"
UnreadSoFar == CRUnread # {} => Gap \/ (main = "running" /\ Failing)

KindInv ==
  /\ TypeOK /\ PoolInv
  /\ Hand /\ Order /\ Round /\ ReadMeansEveryPage /\ CompleteRows /\ UnreadSoFar

-----------------------------------------------------------------------------
(* What the pool's invariant says of a round, as this module needs it.     *)
LEMMA PoolFacts ==
  ASSUME TypeOK, PoolInv
  PROVE  /\ main # "running" => todo = {} /\ \A k \in Items : pc[k] \in {"idle", "done"}
         /\ \A k \in todo : k \in Items /\ pc[k] = "idle"
         /\ \A k \in Items : pc[k] \in PCs
         /\ RowSet = {k \in Items : Stored(k)}
<1>1. DOMAIN rows = 1 .. Len(rows) /\ rows \in Seq(Items)
  BY DEF PoolInv, PoolTypeOK
<1>2. RowSet = {k \in Items : Stored(k)}
  BY <1>1 DEF PoolInv, Counted, RowSet, Stored
<1>3. \A k \in Items : pc[k] \in PCs
  BY DEF PoolInv, PoolTypeOK
<1>4. \A k \in todo : k \in Items /\ pc[k] = "idle"
  BY DEF PoolInv, PoolTypeOK, Quiet
<1>5. main # "running" => todo = {} /\ \A k \in Items : pc[k] \in {"idle", "done"}
  BY DEF PoolInv, Quiet, Running
<1> QED BY <1>2, <1>3, <1>4, <1>5

(* The kinds a pass wants are kinds, and nothing is in hand of any.        *)
LEMMA WantedFresh ==
  ASSUME KindInv, stage \in Passes, main # "running"
  PROVE  /\ Wanted(stage) \subseteq Items
         /\ \A k \in Wanted(stage) : CRs[k] = "absent"
         /\ \A k \in About(stage) :
              k \in Wanted(stage) \/ (stage = "rule objects" /\ CRs[k] # "absent")
<1>1. AddonKinds \subseteq Items /\ ruleKinds \subseteq Items
  BY KindsAssumption DEF KindInv, TypeOK
<1>2. CASE stage = "custom resources"
  BY <1>1, <1>2 DEF KindInv, Order, Wanted, About
<1>3. CASE stage = "rule objects"
  BY <1>1, <1>3 DEF Wanted, About
<1> QED BY <1>2, <1>3 DEF Passes

(* A step of a goroutine or of the loop that touches neither the maps nor  *)
(* the stage keeps the parts about them.                                   *)
LEMMA MapsKept ==
  ASSUME KindInv, UNCHANGED <<ruleKinds, stage, dataVars>>,
         main' = "running" <=> main = "running",
         \A k \in Items : Stored(k) /\ answer[k] = "error" =>
                          (Stored(k) /\ answer[k] = "error")'
  PROVE  Order' /\ CompleteRows' /\ UnreadSoFar'
<1>1. UNCHANGED <<CRs, CRUnread, CRNotServed, PassCollected>>
  BY DEF dataVars
<1>2. Order'
  BY <1>1 DEF KindInv, Order
<1>3. CompleteRows'
  BY <1>1 DEF KindInv, CompleteRows
<1>4. UnreadSoFar'
  BY <1>1 DEF KindInv, UnreadSoFar, Gap, Failing
<1> QED BY <1>2, <1>3, <1>4

-----------------------------------------------------------------------------
LEMMA InitKind == Init => KindInv
<1> SUFFICES ASSUME Init PROVE KindInv
  OBVIOUS
<1>1. PoolInv
  BY InitIInv DEF Init
<1>2. TypeOK
  BY <1>1 DEF Init, TypeOK, PoolInv, Passes
<1>3. Hand /\ Order /\ Round /\ ReadMeansEveryPage
  BY DEF Init, PoolInit, Hand, Answered, Order, Round, ReadMeansEveryPage, Asking, Stored, Passes
<1>4. CompleteRows /\ UnreadSoFar
  BY DEF Init, CompleteRows, UnreadSoFar, Passes
<1> QED BY <1>1, <1>2, <1>3, <1>4 DEF KindInv

(* A pass that wants nothing leaves nothing.                               *)
LEMMA NothingWantedKind == ASSUME KindInv, NothingWanted PROVE KindInv'
<1>1. /\ stage \in Passes /\ main # "running" /\ stage' = After(stage)
      /\ UNCHANGED <<poolVars, served, ruleKinds, expired, resources, out, dataVars>>
  BY DEF NothingWanted
<1>2. PoolInv'
  BY <1>1, StutterIInv DEF KindInv
<1>3. \/ stage = "custom resources" /\ stage' = "rule objects"
      \/ stage = "rule objects" /\ stage' = "returned"
  BY <1>1 DEF Passes, After
<1>4. UNCHANGED <<main, todo, pc, answer, CRs, CRUnread, CRNotServed, PassCollected>>
  BY <1>1 DEF poolVars, dataVars
<1>5. TypeOK'
  BY <1>1, <1>2, <1>3, <1>4 DEF KindInv, TypeOK, PoolInv, Passes
<1>6. Hand' /\ Order' /\ Round' /\ ReadMeansEveryPage'
  BY <1>1, <1>3, <1>4 DEF KindInv, Hand, Answered, Order, Round, ReadMeansEveryPage, Asking, Stored, Passes
<1>7. CompleteRows' /\ UnreadSoFar'
  BY <1>1, <1>4 DEF KindInv, CompleteRows, UnreadSoFar, Gap, Failing
<1> QED BY <1>2, <1>5, <1>6, <1>7 DEF KindInv

(* A discovery error is the pass's row, at once.                           *)
LEMMA DiscoveryFailsKind == ASSUME KindInv, DiscoveryFails PROVE KindInv'
<1>1. /\ stage \in Passes /\ main # "running" /\ stage' = After(stage)
      /\ CRUnread' = CRUnread \cup Wanted(stage)
      /\ PassCollected' = [PassCollected EXCEPT ![stage] = "failed"]
      /\ UNCHANGED <<poolVars, served, ruleKinds, expired, resources, out, CRs, CRNotServed>>
  BY DEF DiscoveryFails
<1>2. PoolInv'
  BY <1>1, StutterIInv DEF KindInv
<1>3. \/ stage = "custom resources" /\ stage' = "rule objects"
      \/ stage = "rule objects" /\ stage' = "returned"
  BY <1>1 DEF Passes, After
<1>4. UNCHANGED <<main, todo, pc, answer>>
  BY <1>1 DEF poolVars
<1>5. /\ PassCollected'[stage] = "failed"
      /\ \A p \in Passes : p # stage => PassCollected'[p] = PassCollected[p]
      /\ PassCollected' \in [Passes -> {"none", "complete", "partial", "failed"}]
  BY <1>1 DEF KindInv, TypeOK
<1>6. TypeOK'
  <2>1. CRUnread' \subseteq Items
    BY <1>1, WantedFresh DEF KindInv, TypeOK
  <2> QED BY <1>1, <1>2, <1>3, <1>5, <2>1 DEF KindInv, TypeOK, PoolInv, Passes
<1>7. Hand' /\ Round' /\ ReadMeansEveryPage'
  BY <1>1, <1>3, <1>4 DEF KindInv, Hand, Answered, Round, ReadMeansEveryPage, Asking, Stored
<1>8. Order'
  BY <1>1, <1>3, <1>4, <1>5 DEF KindInv, Order, Passes
<1>9. CompleteRows' /\ UnreadSoFar'
  BY <1>1, <1>5 DEF KindInv, CompleteRows, UnreadSoFar, Gap, Passes
<1> QED BY <1>2, <1>6, <1>7, <1>8, <1>9 DEF KindInv

(* A round starts with a limiter, a mutex and a slice of its own.          *)
LEMMA DiscoverKind == ASSUME KindInv, Discover PROVE KindInv'
<1>1. /\ stage \in Passes /\ main # "running"
      /\ Start(Wanted(stage))
      /\ out' = [k \in Items |-> IF k \in Wanted(stage) THEN "empty" ELSE out[k]]
      /\ UNCHANGED <<served, ruleKinds, expired, stage, dataVars>>
  BY DEF Discover
<1>2. /\ Wanted(stage) \subseteq Items
      /\ \A k \in Wanted(stage) : CRs[k] = "absent"
      /\ \A k \in About(stage) :
           k \in Wanted(stage) \/ (stage = "rule objects" /\ CRs[k] # "absent")
  BY <1>1, WantedFresh
<1>3. PoolInv'
  BY <1>1, <1>2, StartIInv DEF KindInv
<1>4. main' = "running" /\ todo' = Wanted(stage) /\ \A k \in Items : pc'[k] = "idle"
  BY <1>1 DEF Start
<1>5. UNCHANGED <<CRs, CRUnread, CRNotServed, PassCollected>>
  BY <1>1 DEF dataVars
<1>6. TypeOK'
  <2>1. resources' \subseteq Items
    <3>1. PICK a \in DiscoveryAnswers : \E R \in ResourcesByKind(a) : resources' = R
      BY DEF Discover
    <3>2. \A R \in ResourcesByKind(a) : R \subseteq served
      <4>1. a \in {"full", "partial", "failed"}
        BY DiscoveryAssumption
      <4> QED BY <4>1 DEF ResourcesByKind
    <3> QED BY <3>1, <3>2 DEF KindInv, TypeOK
  <2>2. out' \in [Items -> {"empty", "odd", "even", "all"}]
    BY <1>1 DEF KindInv, TypeOK
  <2> QED BY <1>1, <1>3, <1>5, <2>1, <2>2 DEF KindInv, TypeOK, PoolInv
<1>7. Hand'
  BY <1>2, <1>4, <1>5 DEF Hand, Answered, Asking, Stored
<1>8. Order' /\ CompleteRows'
  BY <1>1, <1>4, <1>5 DEF KindInv, Order, CompleteRows
<1>9. Round'
  <2>1. About(stage)' = About(stage)
    BY <1>1 DEF About
  <2> QED BY <1>1, <1>2, <1>4, <1>5, <2>1 DEF Round
<1>10. ReadMeansEveryPage'
  BY <1>1, <1>2, <1>5 DEF KindInv, ReadMeansEveryPage
<1>11. UnreadSoFar'
  BY <1>1, <1>5 DEF KindInv, UnreadSoFar, Gap
<1> QED BY <1>3, <1>6, <1>7, <1>8, <1>9, <1>10, <1>11 DEF KindInv

-----------------------------------------------------------------------------
(* The loop over wanted: a kind discovery did not list is written down.    *)
LEMMA LoopKind ==
  ASSUME KindInv, NEW i \in Items, ReadKind(i) \/ NotServed(i)
  PROVE  KindInv'
<1>1. CASE ReadKind(i)
  <2>1. Spawn(i) /\ UNCHANGED <<served, ruleKinds, expired, stage, resources, out, dataVars>>
    BY <1>1 DEF ReadKind
  <2>2. PoolInv'
    BY <2>1, CallerIInv DEF KindInv
  <2>3. /\ i \in todo /\ todo' = todo \ {i} /\ pc[i] = "idle" /\ pc'[i] = "blocked"
        /\ \A k \in Items : k # i => pc'[k] = pc[k]
        /\ UNCHANGED <<main, answer>>
    BY <2>1, PoolFacts DEF KindInv, Spawn, PoolInv, PoolTypeOK
  <2>4. UNCHANGED <<CRs, CRUnread, CRNotServed, PassCollected>>
    BY <2>1 DEF dataVars
  <2>5. TypeOK'
    BY <2>1, <2>2, <2>4 DEF KindInv, TypeOK, PoolInv
  <2>6. Hand'
    BY <2>1, <2>3, <2>4 DEF KindInv, Hand, Answered, Asking, Stored
  <2>7. Order' /\ CompleteRows' /\ UnreadSoFar'
    BY <2>1, <2>3, MapsKept DEF Stored
  <2>8. Round' /\ ReadMeansEveryPage'
    <3>1. About(stage)' = About(stage) /\ About(stage) \subseteq Items
      BY <2>1, KindsAssumption DEF About, KindInv, TypeOK
    <3> QED BY <2>1, <2>3, <2>4, <3>1 DEF KindInv, Round, ReadMeansEveryPage
  <2> QED BY <2>2, <2>5, <2>6, <2>7, <2>8 DEF KindInv
<1>2. CASE NotServed(i)
  <2>1. /\ Skip(i) /\ CRNotServed' = CRNotServed \cup {i}
        /\ UNCHANGED <<served, ruleKinds, expired, stage, resources, out, CRs, CRUnread, PassCollected>>
    BY <1>2 DEF NotServed
  <2>2. PoolInv'
    BY <2>1, CallerIInv DEF KindInv
  <2>3. i \in todo /\ todo' = todo \ {i} /\ UNCHANGED <<main, pc, answer>>
    BY <2>1 DEF Skip
  <2>4. TypeOK'
    BY <2>1, <2>2 DEF KindInv, TypeOK, PoolInv
  <2>5. Hand'
    BY <2>1, <2>3 DEF KindInv, Hand, Answered, Asking, Stored
  <2>6. Order' /\ CompleteRows' /\ UnreadSoFar'
    BY <2>1, <2>3 DEF KindInv, Order, CompleteRows, UnreadSoFar, Gap, Failing, Stored
  <2>7. Round' /\ ReadMeansEveryPage'
    BY <2>1, <2>3 DEF KindInv, Round, About, ReadMeansEveryPage
  <2> QED BY <2>2, <2>4, <2>5, <2>6, <2>7 DEF KindInv
<1> QED BY <1>1, <1>2

(* What a goroutine's step that records nothing may change.                *)
LEMMA QuietKind ==
  ASSUME KindInv, PoolInv', NEW i \in Items,
         UNCHANGED <<served, ruleKinds, expired, stage, resources, dataVars, main, todo>>,
         out' \in [Items -> {"empty", "odd", "even", "all"}],
         pc[i] # "idle", pc'[i] # "idle",
         Stored(i) <=> Stored(i)', Asking(i)' => Asking(i),
         Stored(i) => answer'[i] = answer[i],
         out'[i] = out[i] \/ Asking(i),
         Answered(i)' => answer'[i] \in {"rows", "error"},
         pc'[i] \in {"answered", "locked"} /\ answer'[i] = "rows" => out'[i] = "all",
         \A k \in Items : k # i => pc'[k] = pc[k] /\ answer'[k] = answer[k] /\ out'[k] = out[k]
  PROVE  KindInv'
<1>1. UNCHANGED <<CRs, CRUnread, CRNotServed, PassCollected>>
  BY DEF dataVars
<1>2. TypeOK'
  BY <1>1 DEF KindInv, TypeOK, PoolInv
<1>3. Hand'
  <2> SUFFICES ASSUME NEW k \in Items
               PROVE  /\ Asking(k)' => CRs[k] = "absent"
                      /\ Answered(k)' => answer'[k] \in {"rows", "error"}
                      /\ pc'[k] \in {"answered", "locked"} /\ answer'[k] = "rows" => out'[k] = "all"
                      /\ Stored(k)' /\ answer'[k] = "rows" =>
                           CRs[k] # "absent" /\ (stage = "custom resources" => CRs[k] = "full")
    BY <1>1 DEF Hand, Answered
  <2>1. CASE k = i
    BY <2>1 DEF KindInv, Hand, Answered
  <2>2. CASE k # i
    BY <2>2 DEF KindInv, Hand, Answered, Asking, Stored
  <2> QED BY <2>1, <2>2
<1>4. Order' /\ CompleteRows' /\ UnreadSoFar'
  <2>1. ASSUME NEW k \in Items, Stored(k), answer[k] = "error"
        PROVE  Stored(k)' /\ answer'[k] = "error"
    <3>1. CASE k = i
      BY <2>1, <3>1
    <3>2. CASE k # i
      BY <2>1, <3>2 DEF Stored
    <3> QED BY <3>1, <3>2
  <2> QED BY <2>1, MapsKept
<1>5. Round'
  <2>1. About(stage)' = About(stage) /\ About(stage) \subseteq Items
    BY KindsAssumption DEF About, KindInv, TypeOK
  <2> QED BY <1>1, <2>1 DEF KindInv, Round
<1>6. ReadMeansEveryPage'
  BY <1>1 DEF KindInv, ReadMeansEveryPage, Hand, Answered
<1> QED BY <1>2, <1>3, <1>4, <1>5, <1>6 DEF KindInv

(* The limiter, a page, the last page, a failed page, the mutex, the       *)
(* goroutine's end.                                                        *)
LEMMA ReaderKind ==
  ASSUME KindInv, NEW i \in Items,
         \/ Token(i) \/ NextPage(i) \/ LastPage(i) \/ PageFails(i) \/ Critical(i) \/ Return(i)
  PROVE  KindInv'
<1>1. /\ pc \in [Items -> PCs] /\ answer \in [Items -> Answers]
      /\ out \in [Items -> {"empty", "odd", "even", "all"}]
  BY DEF KindInv, TypeOK, PoolInv, PoolTypeOK
<1>2. /\ pc[i] \in {"answered", "locked"} /\ answer[i] = "rows" => out[i] = "all"
      /\ Answered(i) => answer[i] \in {"rows", "error"}
  BY DEF KindInv, Hand
<1>3. CASE Token(i)
  <2>1. Acquire(i) /\ UNCHANGED <<served, ruleKinds, expired, stage, resources, out, dataVars>>
    BY <1>3 DEF Token
  <2>2. PoolInv'
    BY <2>1, AcquireIInv DEF KindInv
  <2> QED BY <1>1, <1>2, <2>1, <2>2, QuietKind DEF Acquire, Stored, Asking, Answered
<1>4. CASE NextPage(i)
  <2>1. /\ pc[i] = "asking" /\ out' = [out EXCEPT ![i] = IF @ = "odd" THEN "even" ELSE "odd"]
        /\ UNCHANGED <<poolVars, served, ruleKinds, expired, stage, resources, dataVars>>
    BY <1>4 DEF NextPage
  <2>2. PoolInv'
    BY <2>1, StutterIInv DEF KindInv
  <2> QED BY <1>1, <1>2, <2>1, <2>2, QuietKind DEF poolVars, Stored, Asking, Answered
<1>5. CASE LastPage(i)
  <2>1. /\ Answer(i, "rows") /\ out' = [out EXCEPT ![i] = "all"]
        /\ UNCHANGED <<served, ruleKinds, expired, stage, resources, dataVars>>
    BY <1>5 DEF LastPage
  <2>2. PoolInv'
    BY <2>1, AnswerIInv, ReadAnswers DEF KindInv
  <2> QED BY <1>1, <1>2, <2>1, <2>2, QuietKind DEF Answer, Stored, Asking, Answered
<1>6. CASE PageFails(i)
  <2>1. /\ Answer(i, "error")
        /\ UNCHANGED <<served, ruleKinds, expired, stage, resources, out, dataVars>>
    BY <1>6 DEF PageFails
  <2>2. PoolInv'
    BY <2>1, AnswerIInv, ReadAnswers DEF KindInv
  <2> QED BY <1>1, <1>2, <2>1, <2>2, QuietKind DEF Answer, Stored, Asking, Answered
<1>7. CASE Critical(i)
  <2>1. Lock(i) /\ UNCHANGED <<served, ruleKinds, expired, stage, resources, out, dataVars>>
    BY <1>7 DEF Critical
  <2>2. PoolInv'
    BY <2>1, LockIInv DEF KindInv
  <2> QED BY <1>1, <1>2, <2>1, <2>2, QuietKind DEF Lock, Stored, Asking, Answered
<1>8. CASE Return(i)
  <2>1. Finish(i) /\ UNCHANGED <<served, ruleKinds, expired, stage, resources, out, dataVars>>
    BY <1>8 DEF Return
  <2>2. PoolInv'
    BY <2>1, FinishIInv DEF KindInv
  <2> QED BY <1>1, <1>2, <2>1, <2>2, QuietKind DEF Finish, Stored, Asking, Answered
<1> QED BY <1>3, <1>4, <1>5, <1>6, <1>7, <1>8

(* The maps get the kind's answer, in the step that counts it.             *)
LEMMA RecordKind == ASSUME KindInv, NEW i \in Items, Record(i) PROVE KindInv'
<1>1. /\ Store(i)
      /\ UNCHANGED <<served, ruleKinds, expired, stage, resources, out, CRNotServed, PassCollected>>
      /\ \/ /\ answer[i] = "error" /\ CRUnread' = CRUnread \cup {i} /\ CRs' = CRs
         \/ /\ answer[i] # "error" /\ CRs' = [CRs EXCEPT ![i] = Kept(stage)]
            /\ CRUnread' = CRUnread
  BY DEF Record
<1>2. PoolInv'
  BY <1>1, StoreIInv DEF KindInv
<1>3. /\ pc[i] = "locked" /\ pc'[i] = "stored" /\ \A k \in Items : k # i => pc'[k] = pc[k]
      /\ UNCHANGED <<main, todo, answer>>
  BY <1>1 DEF Store, KindInv, PoolInv, PoolTypeOK
<1>4. main = "running" /\ stage \in Passes /\ i \notin todo /\ answer[i] \in {"rows", "error"}
  BY <1>3, PoolFacts DEF KindInv, Order, Hand, Answered
<1>5. CRs[i] = "absent" /\ (answer[i] = "rows" => out[i] = "all")
  BY <1>3 DEF KindInv, Hand, Answered, Asking
<1>6. Kept(stage) \in {"full", "projected"} /\ (stage = "custom resources" => Kept(stage) = "full")
  BY DEF Kept
<1>7. /\ CRs' \in [Items -> {"absent", "full", "projected"}]
      /\ \A k \in Items : k # i => CRs'[k] = CRs[k]
      /\ answer[i] = "error" => CRs'[i] = CRs[i]
      /\ answer[i] # "error" => CRs'[i] = Kept(stage)
  BY <1>1, <1>6 DEF KindInv, TypeOK
<1>8. TypeOK'
  BY <1>1, <1>2, <1>7 DEF KindInv, TypeOK, PoolInv
<1>9. Hand'
  <2> SUFFICES ASSUME NEW k \in Items
               PROVE  /\ Asking(k)' => CRs'[k] = "absent"
                      /\ Answered(k)' => answer[k] \in {"rows", "error"}
                      /\ pc'[k] \in {"answered", "locked"} /\ answer[k] = "rows" => out[k] = "all"
                      /\ Stored(k)' /\ answer[k] = "rows" =>
                           CRs'[k] # "absent" /\ (stage = "custom resources" => CRs'[k] = "full")
    BY <1>1, <1>3 DEF Hand, Answered
  <2>1. CASE k = i
    BY <1>3, <1>4, <1>5, <1>6, <1>7, <2>1 DEF Asking, Stored
  <2>2. CASE k # i
    BY <1>3, <1>7, <2>2 DEF KindInv, Hand, Answered, Asking, Stored
  <2> QED BY <2>1, <2>2
<1>10. Order'
  BY <1>1, <1>3, <1>4 DEF KindInv, Order
<1>11. Round'
  <2>1. About(stage)' = About(stage) /\ About(stage) \subseteq Items
    BY <1>1, KindsAssumption DEF About, KindInv, TypeOK
  <2> QED BY <1>1, <1>3, <1>5, <1>7, <2>1 DEF KindInv, Round
<1>12. ReadMeansEveryPage'
  BY <1>1, <1>4, <1>5, <1>7 DEF KindInv, ReadMeansEveryPage
<1>13. CompleteRows'
  <2>1. AddonKinds \subseteq Items /\ ruleKinds \subseteq Items
    BY KindsAssumption DEF KindInv, TypeOK
  <2> QED BY <1>1, <1>5, <1>7, <2>1 DEF KindInv, CompleteRows
<1>14. UnreadSoFar'
  <2>1. CASE answer[i] = "error"
    <3>1. Failing'
      BY <1>3, <2>1 DEF Failing, Stored
    <3> QED BY <1>3, <1>4, <3>1 DEF UnreadSoFar
  <2>2. CASE answer[i] # "error"
    <3>1. Failing => Failing'
      BY <1>3 DEF Failing, Stored
    <3> QED BY <1>1, <1>3, <2>2, <3>1 DEF KindInv, UnreadSoFar, Gap
  <2> QED BY <2>1, <2>2
<1> QED BY <1>2, <1>8, <1>9, <1>10, <1>11, <1>12, <1>13, <1>14 DEF KindInv

(* The pass's row says "complete" only when each read it spawned counted   *)
(* as rows, and something else whenever one failed.                        *)
LEMMA ConcludeKind == ASSUME KindInv, Conclude PROVE KindInv'
<1>1. /\ Wait /\ stage' = After(stage) /\ PassCollected' = [PassCollected EXCEPT ![stage] = StateOf]
      /\ UNCHANGED <<served, ruleKinds, expired, resources, out, CRs, CRUnread, CRNotServed>>
  BY DEF Conclude
<1>2. PoolInv'
  BY <1>1, CallerIInv DEF KindInv
<1>3. /\ main = "running" /\ main' = "joined" /\ todo = {} /\ UNCHANGED <<todo, pc, answer>>
      /\ \A k \in Items : pc[k] \in {"idle", "done"}
  BY <1>1 DEF Wait, Running
<1>4. \/ stage = "custom resources" /\ stage' = "rule objects"
      \/ stage = "rule objects" /\ stage' = "returned"
  BY <1>1, <1>3 DEF KindInv, Order, Passes, After
<1>5. /\ StateOf \in {"complete", "failed", "partial"}
      /\ StateOf = "complete" <=> failures = {}
  <2>1. CASE failures = {}
    BY <2>1 DEF StateOf
  <2>2. CASE failures # {} /\ read = {}
    BY <2>2 DEF StateOf
  <2>3. CASE failures # {} /\ read # {}
    BY <2>3 DEF StateOf
  <2> QED BY <2>1, <2>2, <2>3
<1>6. /\ PassCollected'[stage] = StateOf
      /\ \A p \in Passes : p # stage => PassCollected'[p] = PassCollected[p]
      /\ PassCollected' \in [Passes -> {"none", "complete", "partial", "failed"}]
  BY <1>1, <1>4, <1>5 DEF KindInv, TypeOK, Passes
<1>7. failures = {k \in Items : Stored(k) /\ answer[k] = "error"}
  BY PoolFacts DEF failures, KindInv
<1>8. TypeOK'
  BY <1>1, <1>2, <1>4, <1>6 DEF KindInv, TypeOK, PoolInv, Passes
<1>9. Hand' /\ Order' /\ Round' /\ ReadMeansEveryPage'
  BY <1>1, <1>3, <1>4, <1>6 DEF KindInv, Hand, Answered, Order, Round, ReadMeansEveryPage, Asking, Stored, Passes
<1>10. CompleteRows'
  <2>1. AddonKinds \subseteq Items /\ ruleKinds \subseteq Items
    BY KindsAssumption DEF KindInv, TypeOK
  <2>2. ASSUME StateOf = "complete", NEW k \in About(stage)
        PROVE  \/ k \in CRNotServed
               \/ CRs[k] # "absent" /\ (stage = "custom resources" => CRs[k] = "full")
    <3>1. k \in Items /\ (stage = "rule objects" => stage # "custom resources")
      BY <2>1 DEF About
    <3>2. Stored(k) => answer[k] = "rows"
      BY <1>5, <1>7, <2>2, <3>1, PoolFacts DEF KindInv, Hand, Answered
    <3>3. pc[k] # "idle" => Stored(k)
      BY <1>3, <3>1 DEF Stored
    <3> QED BY <1>3, <2>2, <3>1, <3>2, <3>3 DEF KindInv, Round, Hand, Answered
  <2>3. CASE stage = "custom resources"
    BY <1>1, <1>6, <2>2, <2>3 DEF KindInv, CompleteRows, About, Passes
  <2>4. CASE stage = "rule objects"
    BY <1>1, <1>6, <2>2, <2>4 DEF KindInv, CompleteRows, About, Passes
  <2> QED BY <1>4, <2>3, <2>4
<1>11. UnreadSoFar'
  <2>1. CASE failures = {}
    <3>1. ~Failing /\ PassCollected[stage] = "none"
      BY <1>4, <1>7, <2>1 DEF Failing, KindInv, Order, Passes
    <3> QED BY <1>1, <1>6, <3>1 DEF KindInv, UnreadSoFar, Gap
  <2>2. CASE failures # {}
    <3>1. PassCollected'[stage] \in {"partial", "failed"} /\ stage \in Passes
      BY <1>4, <1>5, <1>6, <2>2 DEF Passes
    <3> QED BY <3>1 DEF UnreadSoFar, Gap
  <2> QED BY <2>1, <2>2
<1> QED BY <1>2, <1>8, <1>9, <1>10, <1>11 DEF KindInv

LEMMA DeadlineKind ==
  ASSUME KindInv, UNCHANGED <<poolVars, served, ruleKinds, stage, resources, out, dataVars>>,
         expired' \in BOOLEAN
  PROVE  KindInv'
<1>1. PoolInv'
  BY StutterIInv DEF KindInv
<1>2. UNCHANGED <<main, todo, pc, answer, CRs, CRUnread, CRNotServed, PassCollected>>
  BY DEF poolVars, dataVars
<1>3. TypeOK'
  BY <1>1, <1>2 DEF KindInv, TypeOK, PoolInv
<1>4. Hand' /\ Round' /\ ReadMeansEveryPage'
  BY <1>2 DEF KindInv, Hand, Answered, Round, ReadMeansEveryPage, About, Asking, Stored
<1>5. Order' /\ CompleteRows' /\ UnreadSoFar'
  BY <1>2, MapsKept DEF Stored
<1> QED BY <1>1, <1>3, <1>4, <1>5 DEF KindInv

LEMMA StepKind == ASSUME KindInv, [Next]_vars PROVE KindInv'
<1>1. CASE Caller
  BY <1>1, NothingWantedKind, DiscoveryFailsKind, DiscoverKind, ConcludeKind, LoopKind DEF Caller
<1>2. CASE \E k \in Items : Kind(k)
  BY <1>2, ReaderKind, RecordKind DEF Kind
<1>3. CASE Deadline \/ Returned \/ UNCHANGED vars
  <2>1. UNCHANGED <<poolVars, served, ruleKinds, stage, resources, out, dataVars>>
    BY <1>3 DEF Deadline, Returned, vars
  <2>2. expired' \in BOOLEAN
    BY <1>3 DEF Deadline, Returned, vars, KindInv, TypeOK
  <2> QED BY <2>1, <2>2, DeadlineKind
<1> QED BY <1>1, <1>2, <1>3 DEF Next

LEMMA KindInductive == Spec => []KindInv
<1>1. KindInv /\ [Next]_vars => KindInv'
  BY StepKind
<1> QED BY InitKind, <1>1, PTL DEF Spec

(* Type correctness, the pool's included.                                  *)
THEOREM KindTypeCorrect == Spec => []TypeOK
<1>1. KindInv => TypeOK
  BY DEF KindInv
<1> QED BY KindInductive, <1>1, PTL

(* Whatever order pages, failures and the deadline come in: a kind counts  *)
(* as read only with its last page, a "complete" row leaves its tier       *)
(* nothing to decline on, and an unread kind shows in some row.            *)
THEOREM PassesAreHonest == Spec => []PassesHonest
<1>1. KindInv => PassesHonest
  <2> SUFFICES ASSUME KindInv PROVE PassesHonest
    OBVIOUS
  <2>1. CompleteRowMeansAllAnswered
    <3>1. AddonKinds \subseteq Items /\ ruleKinds \subseteq Items
      BY KindsAssumption DEF KindInv, TypeOK
    <3>2. \A k : CRs[k] = "full" => CustomRows(k) = "full"
      BY DEF CustomRows
    <3>3. \A k : CRs[k] # "absent" => RowState(k) = "read"
      BY DEF RowState
    <3> QED BY <3>2, <3>3 DEF KindInv, CompleteRows, CompleteRowMeansAllAnswered
  <2>2. UnreadShows
    BY DEF KindInv, UnreadSoFar, Gap, Order, UnreadShows, Passes
  <2> QED BY <2>1, <2>2 DEF KindInv, PassesHonest
<1> QED BY KindInductive, <1>1, PTL

(* No later pass replaces a whole spec by a projection or drops a read.    *)
THEOREM FullIsKept == Spec => FullStaysFull
<1>1. KindInv /\ [Next]_vars =>
        [\A k \in Items : /\ CRs[k] = "full" => CRs'[k] = "full"
                          /\ CRs[k] # "absent" => CRs'[k] # "absent"]_vars
  <2> SUFFICES ASSUME KindInv, Next, CRs' # CRs
               PROVE  \A k \in Items : /\ CRs[k] = "full" => CRs'[k] = "full"
                                       /\ CRs[k] # "absent" => CRs'[k] # "absent"
    OBVIOUS
  <2>1. PICK i \in Items : Record(i)
    <3>1. ASSUME NEW k \in Items, Token(k) \/ NextPage(k) \/ LastPage(k) \/ PageFails(k) \/
                   Critical(k) \/ Return(k) \/ ReadKind(k) \/ NotServed(k)
          PROVE  FALSE
      BY <3>1 DEF Token, NextPage, LastPage, PageFails, Critical, Return, ReadKind, NotServed, dataVars
    <3>2. ~(NothingWanted \/ DiscoveryFails \/ Discover \/ Conclude \/ Deadline \/ Returned)
      BY DEF NothingWanted, DiscoveryFails, Discover, Conclude, Deadline, Returned, vars, dataVars
    <3> QED BY <3>1, <3>2 DEF Next, Caller, Kind
  <2>2. CRs[i] = "absent"
    BY <2>1 DEF Record, Store, KindInv, Hand, Answered, Asking
  <2>3. CRs' = [CRs EXCEPT ![i] = Kept(stage)]
    BY <2>1 DEF Record
  <2> QED BY <2>2, <2>3 DEF KindInv, TypeOK
<1> QED BY KindInductive, <1>1, PTL DEF Spec, FullStaysFull

-----------------------------------------------------------------------------
(* Collect.  A list is read to the last page before the next one starts,   *)
(* the slices are assigned before the outcome is recorded, and until then  *)
(* the outcome is blank.                                                   *)
Whole(c) == \A l \in 1 .. Lists[c] : l \in whole[c] \/ (c \in Optional /\ l = Lists[c])

Goroutines ==
  \A c \in Collectors :
    /\ at[c] = "listing" => \A l \in Nat : l < list[c] => l = 0 \/ l \in whole[c]
    /\ at[c] \in {"read", "assigned"} => Whole(c)
    /\ at[c] = "assigned" => c \in slices
    /\ at[c] # "recorded" => Collected[c] = "none"
    /\ Read(c) => c \in slices /\ Whole(c)

(* The calling goroutine goes on once every collector has recorded, and    *)
(* asks the nodes of a fleet that was read.                                *)
Calling ==
  /\ phase # "collectors" => \A c \in Collectors : at[c] = "recorded"
  /\ "nodes" \in slices => Nodes = fleet
  /\ main = "running" => phase \in FleetRows /\ todo \cup Spawned = fleet

(* A row over the fleet is blank until its round ends, and what is         *)
(* gathered for it while the round runs is the nodes whose answer is in.   *)
Outstanding(row) ==
  IF row = "kubelet config" THEN phase \in {"collectors", "kubelet config"} ELSE phase # "done"
InRound(row) == phase = row /\ main = "running"

Fleet ==
  \A row \in FleetRows :
    /\ Outstanding(row) => Collected[row] = "none"
    /\ Outstanding(row) /\ ~InRound(row) => reachable[row] = {}
    /\ InRound(row) => reachable[row] = {n \in Items : Stored(n) /\ answer[n] = "answered"}

CollectInv ==
  /\ CollectTypeOK /\ PoolInv
  /\ list \in [Collectors -> Nat] /\ whole \in [Collectors -> SUBSET Nat]
  /\ Goroutines /\ Calling /\ Fleet /\ FleetRowsHonest

-----------------------------------------------------------------------------
(* The rows over the fleet do not see a collector's step.                  *)
LEMMA FleetKept ==
  ASSUME CollectInv, UNCHANGED <<poolVars, fleet, phase, reachable>>,
         \A row \in FleetRows : Collected'[row] = Collected[row]
  PROVE  PoolInv' /\ Fleet' /\ FleetRowsHonest'
<1>1. PoolInv'
  BY StutterIInv DEF CollectInv
<1>2. UNCHANGED <<main, pc, answer>>
  BY DEF poolVars
<1>3. Fleet'
  BY <1>2 DEF CollectInv, Fleet, Outstanding, InRound, Stored
<1>4. FleetRowsHonest'
  BY DEF CollectInv, FleetRowsHonest
<1> QED BY <1>1, <1>3, <1>4

LEMMA InitCollect == CollectInit => CollectInv
<1> SUFFICES ASSUME CollectInit PROVE CollectInv
  OBVIOUS
<1>1. PoolInv
  BY InitIInv DEF CollectInit
<1>2. list \in [Collectors -> Nat] /\ \A c \in Collectors : list[c] = 1 /\ Lists[c] \in Nat \ {0}
  BY ListsAssumption DEF CollectInit, Collectors
<1>3. CollectTypeOK
  <2>1. \A c \in Collectors : list[c] \in 1 .. Lists[c] /\ whole[c] \subseteq 1 .. Lists[c]
    BY <1>2 DEF CollectInit
  <2>2. /\ reachable \in [FleetRows -> SUBSET Items]
        /\ Collected \in [Rows -> {"none", "complete", "partial", "failed"}]
        /\ at \in [Collectors -> {"listing", "read", "failed", "assigned", "recorded"}]
    BY DEF CollectInit
  <2> QED BY <1>1, <2>1, <2>2 DEF CollectInit, CollectTypeOK, PoolInv, Phases
<1>4. \A row \in Rows : Collected[row] = "none"
  BY DEF CollectInit
<1>5. Goroutines
  BY <1>2, <1>4 DEF CollectInit, Goroutines, Read, Rows
<1>6. Calling /\ Fleet /\ FleetRowsHonest
  BY <1>4 DEF CollectInit, PoolInit, Calling, Fleet, FleetRowsHonest, Outstanding, InRound,
              FleetRows, Rows, LaterRows
<1>7. whole \in [Collectors -> SUBSET Nat]
  BY DEF CollectInit
<1> QED BY <1>1, <1>2, <1>3, <1>5, <1>6, <1>7 DEF CollectInv

-----------------------------------------------------------------------------
(* The goroutine of a collector.  A list that ended is in whole before the *)
(* next one starts.                                                        *)
LEMMA ListDoneCollect == ASSUME CollectInv, NEW c \in Collectors, ListDone(c) PROVE CollectInv'
<1>1. /\ at[c] = "listing" /\ whole' = [whole EXCEPT ![c] = @ \cup {list[c]}]
      /\ UNCHANGED <<poolVars, fleet, staticPods, metricRules, phase, slices, Nodes, reachable, Collected>>
  BY DEF ListDone
<1>2. /\ list \in [Collectors -> Nat] /\ whole \in [Collectors -> SUBSET Nat]
      /\ at \in [Collectors -> {"listing", "read", "failed", "assigned", "recorded"}]
      /\ list[c] \in 1 .. Lists[c] /\ Lists[c] \in Nat \ {0}
      /\ \A l \in Nat : l < list[c] => l = 0 \/ l \in whole[c]
  BY <1>1, ListsAssumption DEF CollectInv, CollectTypeOK, Goroutines, Collectors
<1>3. \/ /\ list[c] = Lists[c] /\ at' = [at EXCEPT ![c] = "read"] /\ list' = list
      \/ /\ list[c] # Lists[c] /\ list' = [list EXCEPT ![c] = @ + 1] /\ at' = at
  BY DEF ListDone
<1>4. /\ whole'[c] = whole[c] \cup {list[c]} /\ whole' \in [Collectors -> SUBSET Nat]
      /\ \A d \in Collectors : d # c => at'[d] = at[d] /\ list'[d] = list[d] /\ whole'[d] = whole[d]
      /\ \A d \in Collectors : whole[d] \subseteq whole'[d]
  BY <1>1, <1>2, <1>3
<1>5. /\ list' \in [Collectors -> Nat] /\ list'[c] \in 1 .. Lists[c]
      /\ at' \in [Collectors -> {"listing", "read", "failed", "assigned", "recorded"}]
      /\ at'[c] \in {"listing", "read"}
  BY <1>1, <1>2, <1>3
<1>6. PoolInv' /\ Fleet' /\ FleetRowsHonest'
  BY <1>1, FleetKept
<1>7. CollectTypeOK'
  <2>1. \A d \in Collectors : list'[d] \in 1 .. Lists[d] /\ whole'[d] \subseteq 1 .. Lists[d]
    <3> SUFFICES ASSUME NEW d \in Collectors
                 PROVE  list'[d] \in 1 .. Lists[d] /\ whole'[d] \subseteq 1 .. Lists[d]
      OBVIOUS
    <3>1. list[d] \in 1 .. Lists[d] /\ whole[d] \subseteq 1 .. Lists[d]
      BY DEF CollectInv, CollectTypeOK
    <3>2. CASE d = c
      BY <1>2, <1>4, <1>5, <3>1, <3>2
    <3>3. CASE d # c
      BY <1>4, <3>1, <3>3
    <3> QED BY <3>2, <3>3
  <2> QED BY <1>1, <1>5, <1>6, <2>1 DEF CollectInv, CollectTypeOK, PoolInv
<1>8. at'[c] = "listing" => \A l \in Nat : l < list'[c] => l = 0 \/ l \in whole'[c]
  BY <1>1, <1>2, <1>3, <1>4
<1>9. at'[c] = "read" => Whole(c)'
  BY <1>1, <1>2, <1>3, <1>4 DEF Whole
<1>10. Goroutines'
  <2> SUFFICES ASSUME NEW d \in Collectors
               PROVE  /\ at'[d] = "listing" => \A l \in Nat : l < list'[d] => l = 0 \/ l \in whole'[d]
                      /\ at'[d] \in {"read", "assigned"} => Whole(d)'
                      /\ at'[d] = "assigned" => d \in slices'
                      /\ at'[d] # "recorded" => Collected'[d] = "none"
                      /\ Read(d)' => d \in slices' /\ Whole(d)'
    BY DEF Goroutines
  <2>1. Whole(d) => Whole(d)'
    BY <1>4 DEF Whole
  <2>2. CASE d = c
    BY <1>1, <1>5, <1>8, <1>9, <2>1, <2>2 DEF CollectInv, Goroutines, Read
  <2>3. CASE d # c
    BY <1>1, <1>4, <2>1, <2>3 DEF CollectInv, Goroutines, Read
  <2> QED BY <2>2, <2>3
<1>11. Calling'
  <2>1. UNCHANGED <<main, todo, pc>>
    BY <1>1 DEF poolVars
  <2> QED BY <1>1, <2>1 DEF CollectInv, Calling, Spawned
<1> QED BY <1>4, <1>5, <1>6, <1>7, <1>10, <1>11 DEF CollectInv

(* An error, a list the cluster does not serve, the two critical sections. *)
LEMMA CollectorCollect ==
  ASSUME CollectInv, NEW c \in Collectors,
         ListFails(c) \/ ListNotFound(c) \/ Assign(c) \/ RecordOutcome(c)
  PROVE  CollectInv'
<1>1. UNCHANGED <<poolVars, fleet, staticPods, metricRules, phase, list, whole, reachable>>
  BY DEF ListFails, ListNotFound, Assign, RecordOutcome
<1>2. /\ at \in [Collectors -> {"listing", "read", "failed", "assigned", "recorded"}]
      /\ Collected \in [Rows -> {"none", "complete", "partial", "failed"}]
      /\ c \in Rows /\ c \notin LaterRows /\ FleetRows \subseteq LaterRows
  BY NamesAssumption DEF CollectInv, CollectTypeOK, Rows, LaterRows
<1>3. /\ at' \in [Collectors -> {"listing", "read", "failed", "assigned", "recorded"}]
      /\ Collected' \in [Rows -> {"none", "complete", "partial", "failed"}]
      /\ \A d \in Collectors : d # c => at'[d] = at[d] /\ Collected'[d] = Collected[d]
      /\ \A row \in LaterRows : Collected'[row] = Collected[row]
      /\ at[c] # "recorded"
  <2>1. CASE ListFails(c) \/ ListNotFound(c) \/ Assign(c)
    BY <1>2, <2>1 DEF ListFails, ListNotFound, Assign
  <2>2. CASE RecordOutcome(c)
    <3>1. \A row \in LaterRows : row # c
      BY <1>2
    <3>2. \A row \in Rows : row # c => Collected'[row] = Collected[row]
      BY <1>2, <2>2 DEF RecordOutcome
    <3>3. Collected' \in [Rows -> {"none", "complete", "partial", "failed"}]
      BY <1>2, <2>2 DEF RecordOutcome
    <3> QED BY <1>2, <2>2, <3>1, <3>2, <3>3 DEF RecordOutcome, Rows
  <2> QED BY <2>1, <2>2
<1>4. /\ slices \subseteq slices' /\ slices' \subseteq Collectors
      /\ Nodes' \subseteq Items /\ ("nodes" \in slices' => Nodes' = fleet')
  BY <1>1 DEF CollectInv, CollectTypeOK, Calling, ListFails, ListNotFound, Assign, RecordOutcome
<1>5. PoolInv' /\ Fleet' /\ FleetRowsHonest'
  BY <1>1, <1>2, <1>3, FleetKept
<1>6. CollectTypeOK'
  BY <1>1, <1>3, <1>4, <1>5 DEF CollectInv, CollectTypeOK, PoolInv
<1>7. /\ at'[c] # "listing"
      /\ at'[c] \in {"read", "assigned"} => Whole(c)
      /\ at'[c] = "assigned" => c \in slices'
      /\ at'[c] # "recorded" => Collected'[c] = "none"
      /\ Read(c)' => c \in slices' /\ Whole(c)
  <2>1. /\ Lists[c] \in Nat \ {0} /\ list[c] \in 1 .. Lists[c]
        /\ at[c] = "listing" => \A l \in Nat : l < list[c] => l = 0 \/ l \in whole[c]
        /\ at[c] \in {"read", "assigned"} => Whole(c)
        /\ at[c] = "assigned" => c \in slices
        /\ Collected[c] = "none"
    BY <1>3, ListsAssumption DEF CollectInv, CollectTypeOK, Goroutines, Collectors
  <2>2. CASE ListFails(c)
    BY <1>2, <2>1, <2>2 DEF ListFails, Read
  <2>3. CASE ListNotFound(c)
    <3>1. Whole(c)
      BY <2>1, <2>3 DEF ListNotFound, Whole
    <3> QED BY <1>2, <2>1, <2>3, <3>1 DEF ListNotFound, Read
  <2>4. CASE Assign(c)
    BY <1>2, <2>1, <2>4 DEF Assign, Read
  <2>5. CASE RecordOutcome(c)
    BY <1>2, <2>1, <2>5 DEF RecordOutcome, Read
  <2> QED BY <2>2, <2>3, <2>4, <2>5
<1>8. Goroutines'
  <2> SUFFICES ASSUME NEW d \in Collectors
               PROVE  /\ at'[d] = "listing" => \A l \in Nat : l < list'[d] => l = 0 \/ l \in whole'[d]
                      /\ at'[d] \in {"read", "assigned"} => Whole(d)'
                      /\ at'[d] = "assigned" => d \in slices'
                      /\ at'[d] # "recorded" => Collected'[d] = "none"
                      /\ Read(d)' => d \in slices' /\ Whole(d)'
    BY DEF Goroutines
  <2>1. Whole(d) <=> Whole(d)'
    BY <1>1 DEF Whole
  <2>2. CASE d = c
    BY <1>7, <2>1, <2>2
  <2>3. CASE d # c
    BY <1>1, <1>3, <1>4, <2>1, <2>3 DEF CollectInv, Goroutines, Read
  <2> QED BY <2>2, <2>3
<1>9. Calling'
  <2>1. UNCHANGED <<main, todo, pc>>
    BY <1>1 DEF poolVars
  <2>2. phase = "collectors"
    BY <1>3 DEF CollectInv, Calling
  <2> QED BY <1>1, <1>4, <2>1, <2>2 DEF CollectInv, Calling, Spawned
<1> QED BY <1>1, <1>5, <1>6, <1>8, <1>9 DEF CollectInv

-----------------------------------------------------------------------------
(* The calling goroutine and the nodes' goroutines write no collector's    *)
(* outcome.                                                                *)
LEMMA GoroutinesKept ==
  ASSUME CollectInv, UNCHANGED collectorVars,
         \A c \in Collectors : Collected'[c] = Collected[c]
  PROVE  Goroutines' /\ (list \in [Collectors -> Nat] /\ whole \in [Collectors -> SUBSET Nat])'
<1>1. UNCHANGED <<at, list, whole, slices, Nodes>>
  BY DEF collectorVars
<1>2. \A c \in Collectors : Whole(c)' <=> Whole(c)
  BY <1>1 DEF Whole
<1>3. Goroutines'
  BY <1>1, <1>2 DEF CollectInv, Goroutines, Read
<1> QED BY <1>1, <1>3 DEF CollectInv

(* A step of a round: what it must keep.                                   *)
LEMMA RoundCollect ==
  ASSUME CollectInv, PoolInv',
         UNCHANGED <<fleet, staticPods, metricRules, phase, collectorVars, Collected, main>>,
         main = "running", (todo \cup Spawned)' = todo \cup Spawned,
         reachable' \in [FleetRows -> SUBSET Items],
         \A row \in FleetRows : phase # row => reachable'[row] = reachable[row],
         reachable'[phase] = {n \in Items : Stored(n) /\ answer[n] = "answered"}'
  PROVE  CollectInv'
<1>1. UNCHANGED <<at, list, whole, slices, Nodes>>
  BY DEF collectorVars
<1>2. Goroutines' /\ (list \in [Collectors -> Nat] /\ whole \in [Collectors -> SUBSET Nat])'
  BY GoroutinesKept
<1>3. CollectTypeOK'
  BY <1>1 DEF CollectInv, CollectTypeOK, PoolInv
<1>4. Calling'
  BY <1>1 DEF CollectInv, Calling
<1>5. Fleet'
  <2> SUFFICES ASSUME NEW row \in FleetRows
               PROVE  /\ Outstanding(row)' => Collected[row] = "none"
                      /\ Outstanding(row)' /\ ~InRound(row)' => reachable'[row] = {}
                      /\ InRound(row)' =>
                           reachable'[row] = {n \in Items : Stored(n) /\ answer[n] = "answered"}'
    BY DEF Fleet
  <2>1. (Outstanding(row)' <=> Outstanding(row)) /\ (InRound(row)' <=> phase = row)
    BY DEF Outstanding, InRound
  <2> QED BY <2>1 DEF CollectInv, Fleet, InRound
<1>6. FleetRowsHonest'
  <2> SUFFICES ASSUME NEW row \in FleetRows
               PROVE  /\ Collected[row] = "complete" => reachable'[row] = fleet /\ fleet # {}
                      /\ Collected[row] = "partial" => reachable'[row] \notin {{}, fleet}
                      /\ Collected[row] = "failed" => reachable'[row] = {}
    BY DEF FleetRowsHonest
  <2>1. CASE phase = row
    BY <2>1 DEF CollectInv, Fleet, Outstanding, FleetRows
  <2>2. CASE phase # row
    BY <2>2 DEF CollectInv, FleetRowsHonest
  <2> QED BY <2>1, <2>2
<1> QED BY <1>2, <1>3, <1>4, <1>5, <1>6 DEF CollectInv

(* A goroutine that is not idle belongs to a round, and the round to a row.*)
LEMMA InRoundCollect ==
  ASSUME CollectInv, NEW n \in Items, pc[n] \notin {"idle", "done"}
  PROVE  /\ main = "running" /\ phase \in FleetRows
         /\ reachable[phase] = {m \in Items : Stored(m) /\ answer[m] = "answered"}
<1>1. main = "running"
  BY DEF CollectInv, PoolInv, Quiet, Running
<1> QED BY <1>1 DEF CollectInv, Calling, Fleet, InRound

(* A node is spawned, waits for a token, answers, stores, leaves.  Only    *)
(* the store is seen by the row, with the answer it stores.                *)
LEMMA KubeletCollect ==
  ASSUME CollectInv, NEW n \in Items, AskNode(n) \/ Kubelet(n)
  PROVE  CollectInv'
<1>1. /\ pc \in [Items -> PCs] /\ answer \in [Items -> Answers]
      /\ reachable \in [FleetRows -> SUBSET Items]
  BY DEF CollectInv, CollectTypeOK, PoolTypeOK
<1>2. CASE AskNode(n)
  <2>1. Spawn(n) /\ UNCHANGED <<fleet, staticPods, metricRules, phase, collectorVars, reachable, Collected>>
    BY <1>2 DEF AskNode
  <2>2. PoolInv'
    BY <2>1, CallerIInv DEF CollectInv
  <2>3. /\ main = "running" /\ n \in todo /\ pc[n] = "idle" /\ pc' = [pc EXCEPT ![n] = "blocked"]
        /\ todo' = todo \ {n} /\ UNCHANGED <<main, answer>>
    BY <2>1 DEF Spawn, CollectInv, PoolInv, Quiet
  <2>4. (todo \cup Spawned)' = todo \cup Spawned
    BY <1>1, <2>3 DEF Spawned
  <2>5. phase \in FleetRows /\ reachable[phase] = {m \in Items : Stored(m) /\ answer[m] = "answered"}
    BY <2>3 DEF CollectInv, Calling, Fleet, InRound
  <2>6. reachable'[phase] = {m \in Items : Stored(m) /\ answer[m] = "answered"}'
    BY <1>1, <2>1, <2>3, <2>5 DEF Stored
  <2> QED BY <1>1, <2>1, <2>2, <2>3, <2>4, <2>6, RoundCollect
<1>3. CASE Node(n)
  <2>1. /\ \/ Acquire(n) \/ Answer(n, "answered") \/ Answer(n, "refused")
           \/ Lock(n) \/ Finish(n)
        /\ UNCHANGED <<fleet, staticPods, metricRules, phase, collectorVars, reachable, Collected>>
    BY <1>3 DEF Node
  <2>2. PoolInv'
    BY <2>1, KubeletAnswers, AcquireIInv, AnswerIInv, LockIInv, FinishIInv DEF CollectInv
  <2>3. /\ pc[n] \notin {"idle", "done"} /\ pc'[n] # "idle" /\ UNCHANGED <<main, todo>>
        /\ Stored(n)' <=> Stored(n)
        /\ Stored(n) => answer'[n] = answer[n]
        /\ \A m \in Items : m # n => pc'[m] = pc[m] /\ answer'[m] = answer[m]
    BY <1>1, <2>1 DEF Acquire, Answer, Lock, Finish, Stored
  <2>4. (todo \cup Spawned)' = todo \cup Spawned
    BY <2>3 DEF Spawned
  <2>5. /\ main = "running" /\ phase \in FleetRows
        /\ reachable[phase] = {m \in Items : Stored(m) /\ answer[m] = "answered"}
    BY <2>3, InRoundCollect
  <2>6. reachable'[phase] = {m \in Items : Stored(m) /\ answer[m] = "answered"}'
    <3>1. \A m \in Items : (Stored(m) /\ answer[m] = "answered")' <=> (Stored(m) /\ answer[m] = "answered")
      BY <2>3 DEF Stored
    <3> QED BY <2>1, <2>5, <3>1
  <2> QED BY <1>1, <2>1, <2>2, <2>3, <2>4, <2>5, <2>6, RoundCollect
<1>4. CASE NodeRow(n)
  <2>1. /\ Store(n)
        /\ reachable' = [reachable EXCEPT ![phase] = IF answer[n] = "answered" THEN @ \cup {n} ELSE @]
        /\ UNCHANGED <<fleet, staticPods, metricRules, phase, collectorVars, Collected>>
    BY <1>4 DEF NodeRow
  <2>2. PoolInv'
    BY <2>1, StoreIInv DEF CollectInv
  <2>3. /\ pc[n] = "locked" /\ pc'[n] = "stored" /\ UNCHANGED <<main, todo, answer>>
        /\ \A m \in Items : m # n => pc'[m] = pc[m]
    BY <1>1, <2>1 DEF Store
  <2>4. (todo \cup Spawned)' = todo \cup Spawned
    BY <2>3 DEF Spawned
  <2>5. /\ main = "running" /\ phase \in FleetRows
        /\ reachable[phase] = {m \in Items : Stored(m) /\ answer[m] = "answered"}
    BY <2>3, InRoundCollect
  <2>6. reachable'[phase] = {m \in Items : Stored(m) /\ answer[m] = "answered"}'
    <3>1. \A m \in Items : Stored(m)' <=> (Stored(m) \/ m = n)
      BY <2>3 DEF Stored
    <3>2. reachable'[phase] = IF answer[n] = "answered" THEN reachable[phase] \cup {n} ELSE reachable[phase]
      BY <1>1, <2>1, <2>5
    <3> QED BY <2>3, <2>5, <3>1, <3>2
  <2>7. /\ reachable' \in [FleetRows -> SUBSET Items]
        /\ \A row \in FleetRows : phase # row => reachable'[row] = reachable[row]
    BY <1>1, <2>1, <2>5
  <2> QED BY <2>1, <2>2, <2>3, <2>4, <2>5, <2>6, <2>7, RoundCollect
<1> QED BY <1>2, <1>3, <1>4 DEF Kubelet

-----------------------------------------------------------------------------
(* The calling goroutine moves on from one step to the next, no round      *)
(* running after the step.                                                 *)
LEMMA MovesOn ==
  ASSUME CollectInv, PoolInv', main' # "running", phase' \in Phases,
         UNCHANGED <<fleet, staticPods, metricRules, collectorVars, reachable>>,
         \A c \in Collectors : at[c] = "recorded" /\ Collected'[c] = Collected[c],
         Collected' \in [Rows -> {"none", "complete", "partial", "failed"}],
         \A row \in FleetRows : Outstanding(row)' =>
           Outstanding(row) /\ ~InRound(row) /\ Collected'[row] = Collected[row],
         FleetRowsHonest'
  PROVE  CollectInv'
<1>1. UNCHANGED <<at, list, whole, slices, Nodes>>
  BY DEF collectorVars
<1>2. Goroutines' /\ (list \in [Collectors -> Nat] /\ whole \in [Collectors -> SUBSET Nat])'
  BY GoroutinesKept
<1>3. CollectTypeOK'
  BY <1>1 DEF CollectInv, CollectTypeOK, PoolInv
<1>4. Calling'
  BY <1>1 DEF CollectInv, Calling
<1>5. Fleet'
  BY DEF CollectInv, Fleet, InRound
<1> QED BY <1>2, <1>3, <1>4, <1>5 DEF CollectInv

(* Where the rows over the fleet stand at each step of the caller.         *)
LEMMA StepsInOrder ==
  /\ "kubelet config" \in FleetRows /\ "kubelet metrics" \in FleetRows
  /\ \A row \in FleetRows : row \in Rows /\ row \notin Collectors
  /\ "control-plane flags" \in Rows \ (Collectors \cup FleetRows)
BY NamesAssumption DEF FleetRows, LaterRows, Rows

(* wg.Wait, the settling of the control plane's row, and a row over a      *)
(* fleet nobody asked.                                                     *)
LEMMA CallerCollect ==
  ASSUME CollectInv, Join \/ ControlPlane \/ \E row \in FleetRows : FleetNotAsked(row)
  PROVE  CollectInv'
<1>1. /\ UNCHANGED <<poolVars, fleet, staticPods, metricRules, collectorVars, reachable>>
      /\ UNCHANGED main
  BY DEF Join, ControlPlane, FleetNotAsked, poolVars
<1>2. PoolInv'
  BY <1>1, StutterIInv DEF CollectInv
<1>3. Collected \in [Rows -> {"none", "complete", "partial", "failed"}]
  BY DEF CollectInv, CollectTypeOK
<1>4. CASE Join
  <2>1. /\ phase = "collectors" /\ phase' = "kubelet config" /\ UNCHANGED Collected
        /\ \A c \in Collectors : at[c] = "recorded"
    BY <1>4 DEF Join
  <2>2. main # "running"
    BY <2>1 DEF CollectInv, Calling, FleetRows
  <2>3. FleetRowsHonest'
    BY <1>1, <2>1 DEF CollectInv, FleetRowsHonest
  <2>4. \A row \in FleetRows : Outstanding(row)' => Outstanding(row) /\ ~InRound(row)
    BY <2>1, <2>2 DEF Outstanding, InRound
  <2>5. phase' \in Phases
    BY <2>1 DEF Phases
  <2> QED BY <1>1, <1>2, <1>3, <2>1, <2>2, <2>3, <2>4, <2>5, MovesOn
<1>5. CASE ControlPlane
  <2>1. /\ phase = "control plane" /\ phase' = "kubelet metrics"
        /\ Collected' = [Collected EXCEPT !["control-plane flags"] = ControlPlaneState]
    BY <1>5 DEF ControlPlane
  <2>2. main # "running" /\ \A c \in Collectors : at[c] = "recorded"
    BY <2>1 DEF CollectInv, Calling, FleetRows
  <2>3. /\ Collected' \in [Rows -> {"none", "complete", "partial", "failed"}]
        /\ \A row \in Collectors \cup FleetRows : Collected'[row] = Collected[row]
    BY <1>3, <2>1, StepsInOrder DEF ControlPlaneState, Rows, LaterRows
  <2>4. FleetRowsHonest'
    BY <1>1, <2>3 DEF CollectInv, FleetRowsHonest
  <2>5. \A row \in FleetRows : Outstanding(row)' => Outstanding(row) /\ ~InRound(row)
    BY <2>1, <2>2 DEF Outstanding, InRound
  <2>6. phase' \in Phases
    BY <2>1 DEF Phases
  <2> QED BY <1>1, <1>2, <2>2, <2>3, <2>4, <2>5, <2>6, MovesOn
<1>6. ASSUME NEW row \in FleetRows, FleetNotAsked(row) PROVE CollectInv'
  <2>1. /\ phase = row /\ main # "running" /\ phase' = AfterFleet(row)
        /\ Collected' = Collected \/ Collected' = [Collected EXCEPT ![row] = "failed"]
    BY <1>6 DEF FleetNotAsked
  <2>2. /\ \A c \in Collectors : at[c] = "recorded"
        /\ reachable[row] = {}
    BY <2>1 DEF CollectInv, Calling, Fleet, Outstanding, InRound, FleetRows
  <2>3. /\ Collected' \in [Rows -> {"none", "complete", "partial", "failed"}]
        /\ \A r \in Rows : r # row => Collected'[r] = Collected[r]
        /\ Collected'[row] \in {Collected[row], "failed"}
    BY <1>3, <2>1, StepsInOrder
  <2>4. \A c \in Collectors : Collected'[c] = Collected[c]
    BY <2>3, StepsInOrder DEF Rows
  <2>5. FleetRowsHonest'
    BY <1>1, <2>2, <2>3, StepsInOrder DEF CollectInv, FleetRowsHonest
  <2>6. \A r \in FleetRows : Outstanding(r)' => r # row /\ Outstanding(r) /\ ~InRound(r)
    BY <2>1 DEF Outstanding, InRound, AfterFleet, FleetRows
  <2>7. phase' \in Phases
    BY <2>1 DEF Phases, AfterFleet
  <2> QED BY <1>1, <1>2, <2>1, <2>2, <2>3, <2>4, <2>5, <2>6, <2>7, MovesOn, StepsInOrder
<1> QED BY <1>4, <1>5, <1>6

(* A round asks the nodes of the list, and the list is the fleet.          *)
LEMMA AskFleetCollect ==
  ASSUME CollectInv, NEW row \in FleetRows, AskFleet(row)
  PROVE  CollectInv'
<1>1. /\ phase = row /\ main # "running" /\ Read("nodes") /\ Start(Nodes)
      /\ UNCHANGED <<fleet, staticPods, metricRules, phase, collectorVars, reachable, Collected>>
  BY DEF AskFleet
<1>2. UNCHANGED <<at, list, whole, slices, Nodes>>
  BY <1>1 DEF collectorVars
<1>3. Nodes = fleet /\ Nodes \in SUBSET Items
  BY <1>1, ListsAssumption DEF CollectInv, CollectTypeOK, Calling, Goroutines, Collectors
<1>4. PoolInv'
  BY <1>1, <1>3, StartIInv DEF CollectInv
<1>5. main' = "running" /\ todo' = fleet /\ \A n \in Items : pc'[n] = "idle"
  BY <1>1, <1>3 DEF Start
<1>6. CollectTypeOK'
  BY <1>1, <1>2, <1>4 DEF CollectInv, CollectTypeOK, PoolInv
<1>7. Goroutines' /\ (list \in [Collectors -> Nat] /\ whole \in [Collectors -> SUBSET Nat])'
  BY <1>1, GoroutinesKept
<1>8. Calling'
  BY <1>1, <1>2, <1>5 DEF CollectInv, Calling, Spawned
<1>9. Fleet'
  <2>1. Outstanding(row) /\ reachable[row] = {}
    BY <1>1 DEF CollectInv, Fleet, Outstanding, InRound, FleetRows
  <2>2. {n \in Items : Stored(n) /\ answer[n] = "answered"}' = {}
    BY <1>5 DEF Stored
  <2> QED BY <1>1, <1>5, <2>1, <2>2 DEF CollectInv, Fleet, Outstanding, InRound
<1>10. FleetRowsHonest'
  BY <1>1 DEF CollectInv, FleetRowsHonest
<1> QED BY <1>4, <1>6, <1>7, <1>8, <1>9, <1>10 DEF CollectInv

(* The row of a joined round tells none, part and whole of the fleet apart:*)
(* there are as many rows as nodes, and the answers are some of them.      *)
LEMMA FleetStateTells ==
  ASSUME CollectInv, NEW row \in FleetRows, phase = row, Wait
  PROVE  /\ FleetState(row) \in {"complete", "partial", "failed"}
         /\ FleetState(row) = "complete" => reachable[row] = fleet /\ fleet # {}
         /\ FleetState(row) = "partial" => reachable[row] \notin {{}, fleet}
         /\ FleetState(row) = "failed" => reachable[row] = {}
<1>1. /\ main = "running" /\ todo = {}
      /\ \A n \in Items : pc[n] \in {"idle", "stored", "done"}
  BY DEF Wait, Running
<1>2. Spawned = fleet /\ Spawned \subseteq Items
  BY <1>1 DEF CollectInv, Calling, Spawned
<1>3. Len(rows) = Cardinality(fleet)
  BY <1>1, <1>2, RowsCountSpawned DEF CollectInv, PoolInv
<1>4. reachable[row] \subseteq fleet
  BY <1>1, <1>2 DEF CollectInv, Fleet, InRound, Stored, Spawned
<1>5. IsFiniteSet(fleet)
  BY <1>2, ItemsAssumption, FS_Subset
<1>6. /\ IsFiniteSet(reachable[row]) /\ Cardinality(reachable[row]) <= Cardinality(fleet)
      /\ Cardinality(reachable[row]) = Cardinality(fleet) => reachable[row] = fleet
  BY <1>4, <1>5, FS_Subset
<1>7. Cardinality(reachable[row]) \in Nat /\ Cardinality(fleet) \in Nat
  BY <1>5, <1>6, FS_CardinalityType
<1>8. /\ Cardinality(reachable[row]) = 0 <=> reachable[row] = {}
      /\ Cardinality(fleet) = 0 <=> fleet = {}
  BY <1>5, <1>6, FS_EmptySet
<1>9. CASE Cardinality(reachable[row]) = 0
  BY <1>8, <1>9 DEF FleetState
<1>10. CASE 0 < Cardinality(reachable[row]) /\ Cardinality(reachable[row]) < Cardinality(fleet)
  <2>1. FleetState(row) = "partial"
    BY <1>3, <1>7, <1>10 DEF FleetState
  <2>2. reachable[row] # {} /\ reachable[row] # fleet
    BY <1>7, <1>8, <1>10
  <2> QED BY <2>1, <2>2
<1>11. CASE 0 < Cardinality(reachable[row]) /\ Cardinality(reachable[row]) = Cardinality(fleet)
  <2>1. FleetState(row) = "complete"
    BY <1>3, <1>7, <1>11 DEF FleetState
  <2> QED BY <1>6, <1>7, <1>8, <1>11, <2>1
<1> QED BY <1>6, <1>7, <1>9, <1>10, <1>11

LEMMA FleetAnsweredCollect ==
  ASSUME CollectInv, NEW row \in FleetRows, FleetAnswered(row)
  PROVE  CollectInv'
<1>1. /\ phase = row /\ Wait /\ phase' = AfterFleet(row)
      /\ Collected' = [Collected EXCEPT ![row] = FleetState(row)]
      /\ UNCHANGED <<fleet, staticPods, metricRules, collectorVars, reachable>>
  BY DEF FleetAnswered
<1>2. PoolInv'
  BY <1>1, CallerIInv DEF CollectInv
<1>3. main' = "joined"
  BY <1>1 DEF Wait
<1>4. /\ FleetState(row) \in {"complete", "partial", "failed"}
      /\ FleetState(row) = "complete" => reachable[row] = fleet /\ fleet # {}
      /\ FleetState(row) = "partial" => reachable[row] \notin {{}, fleet}
      /\ FleetState(row) = "failed" => reachable[row] = {}
  BY <1>1, FleetStateTells
<1>5. /\ Collected' \in [Rows -> {"none", "complete", "partial", "failed"}]
      /\ Collected'[row] = FleetState(row)
      /\ \A r \in Rows : r # row => Collected'[r] = Collected[r]
  BY <1>1, <1>4, StepsInOrder DEF CollectInv, CollectTypeOK
<1>6. \A c \in Collectors : at[c] = "recorded" /\ Collected'[c] = Collected[c]
  <2>1. \A c \in Collectors : at[c] = "recorded"
    BY <1>1 DEF CollectInv, Calling, FleetRows
  <2>2. \A c \in Collectors : c \in Rows /\ c # row
    BY StepsInOrder DEF Rows
  <2> QED BY <1>5, <2>1, <2>2
<1>7. FleetRowsHonest'
  BY <1>1, <1>4, <1>5, StepsInOrder DEF CollectInv, FleetRowsHonest
<1>8. \A r \in FleetRows : Outstanding(r)' => r # row /\ Outstanding(r) /\ ~InRound(r)
  BY <1>1 DEF Outstanding, InRound, AfterFleet, FleetRows
<1>9. phase' \in Phases
  BY <1>1 DEF Phases, AfterFleet
<1> QED BY <1>1, <1>2, <1>3, <1>5, <1>6, <1>7, <1>8, <1>9, MovesOn, StepsInOrder

LEMMA StutterCollect == ASSUME CollectInv, UNCHANGED collectVars PROVE CollectInv'
<1>1. /\ UNCHANGED <<poolVars, fleet, staticPods, metricRules, phase, collectorVars, reachable, Collected>>
      /\ UNCHANGED <<at, list, whole, slices, Nodes>>
      /\ UNCHANGED <<main, todo, pc, answer>>
  BY DEF collectVars, collectorVars, poolVars
<1>2. PoolInv' /\ Fleet' /\ FleetRowsHonest'
  BY <1>1, FleetKept
<1>3. Goroutines' /\ (list \in [Collectors -> Nat] /\ whole \in [Collectors -> SUBSET Nat])'
  BY <1>1, GoroutinesKept
<1>4. CollectTypeOK' /\ Calling'
  BY <1>1, <1>2 DEF CollectInv, CollectTypeOK, Calling, PoolInv, Spawned
<1> QED BY <1>2, <1>3, <1>4 DEF CollectInv

(* Every step keeps the invariant.                                         *)
LEMMA StepCollect == ASSUME CollectInv, [CollectNext]_collectVars PROVE CollectInv'
<1>1. CASE \E c \in Collectors : Collector(c)
  BY <1>1, ListDoneCollect, CollectorCollect DEF Collector
<1>2. CASE \E n \in Items : Kubelet(n)
  BY <1>2, KubeletCollect
<1>3. CASE CollectCaller
  BY <1>3, CallerCollect, AskFleetCollect, FleetAnsweredCollect, KubeletCollect DEF CollectCaller
<1>4. CASE Done \/ UNCHANGED collectVars
  BY <1>4, StutterCollect DEF Done
<1> QED BY <1>1, <1>2, <1>3, <1>4 DEF CollectNext

LEMMA CollectInductive == CollectSpec => []CollectInv
<1>1. CollectInv /\ [CollectNext]_collectVars => CollectInv'
  BY StepCollect
<1> QED BY InitCollect, <1>1, PTL DEF CollectSpec

-----------------------------------------------------------------------------
(* Type correctness, the pool's included.                                  *)
THEOREM CollectTypeCorrect == CollectSpec => []CollectTypeOK
<1>1. CollectInv => CollectTypeOK
  BY DEF CollectInv
<1> QED BY CollectInductive, <1>1, PTL

(* Whichever reads fail and in whatever order the nodes answer, a          *)
(* collector recorded as read left every list whole, and a row over the    *)
(* fleet tells all, some and none of the nodes apart.                      *)
THEOREM OutcomesAreHonest == CollectSpec => []OutcomesHonest
<1>1. CollectInv => OutcomesHonest
  BY DEF CollectInv, Goroutines, Whole, OutcomesHonest, ReadMeansWhole
<1> QED BY CollectInductive, <1>1, PTL

(* After wg.Wait nothing writes the slices or the collectors' outcomes, so *)
(* reading them without the mutex is no race.                              *)
THEOREM SnapshotIsStable == CollectSpec => SnapshotStable
<1>1. CollectInv /\ [CollectNext]_collectVars =>
        [phase # "collectors" =>
           /\ UNCHANGED <<slices, Nodes>>
           /\ \A c \in Collectors : Collected'[c] = Collected[c]]_collectVars
  <2> SUFFICES ASSUME CollectInv, CollectNext, phase # "collectors"
               PROVE  /\ UNCHANGED <<slices, Nodes>>
                      /\ \A c \in Collectors : Collected'[c] = Collected[c]
    OBVIOUS
  <2>1. Collected \in [Rows -> {"none", "complete", "partial", "failed"}]
    BY DEF CollectInv, CollectTypeOK
  <2>2. ~\E c \in Collectors : Collector(c)
    BY DEF CollectInv, Calling, Collector, ListDone, ListFails, ListNotFound, Assign, RecordOutcome
  <2>3. ASSUME NEW n \in Items, Kubelet(n) \/ AskNode(n) PROVE UNCHANGED <<slices, Nodes, Collected>>
    BY <2>3 DEF Kubelet, Node, NodeRow, AskNode, collectorVars
  <2>4. ASSUME NEW row \in FleetRows, FleetNotAsked(row) \/ AskFleet(row) \/ FleetAnswered(row)
        PROVE  /\ UNCHANGED <<slices, Nodes>>
               /\ \A c \in Collectors : Collected'[c] = Collected[c]
    BY <2>1, <2>4, StepsInOrder DEF FleetNotAsked, AskFleet, FleetAnswered, collectorVars, Rows
  <2>5. CASE ControlPlane
    BY <2>1, <2>5, StepsInOrder DEF ControlPlane, collectorVars, Rows
  <2>6. CASE Join \/ Done
    BY <2>6 DEF Join, Done, collectVars, collectorVars
  <2> QED BY <2>2, <2>3, <2>4, <2>5, <2>6 DEF CollectNext, CollectCaller
<1> QED BY CollectInductive, <1>1, PTL DEF CollectSpec, SnapshotStable
=============================================================================
