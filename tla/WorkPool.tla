------------------------------ MODULE WorkPool ------------------------------
(***************************************************************************)
(* The bounded fan-out the scanner uses wherever it makes many API calls:  *)
(* one goroutine per item, a buffered channel as the limiter, a mutex      *)
(* around the shared result, a wait group before the result is read.       *)
(*                                                                         *)
(*   for item := range wanted {              Spawn, or Skip                *)
(*     wg.Add(1)                                                           *)
(*     go func() {                                                         *)
(*       defer wg.Done()                                                   *)
(*       limiter <- struct{}{}               Acquire                       *)
(*       defer func() { <-limiter }()                                      *)
(*       result, err := call()               Answer                        *)
(*       mu.Lock(); defer mu.Unlock()        Lock                          *)
(*       out = append(out, result)           Store                         *)
(*     }()                                   Finish                        *)
(*   }                                                                     *)
(*   wg.Wait()                               Wait                          *)
(*                                                                         *)
(* The append under the mutex is two steps, the load of the slice (Lock)   *)
(* and its store (Store), so that the mutex is what prevents a lost update *)
(* and not the grain of the model.  The code is translated from            *)
(* collectByKind; collectKubeletConfigs, CollectKubeletMetrics and         *)
(* source.Scan differ only in the limit and in what an answer is.          *)
(***************************************************************************)
EXTENDS Naturals, Sequences, FiniteSets

CONSTANTS
  Items,            \* everything a caller may ask about
  Limit,            \* capacity of the limiter channel
  Answers           \* what one call may come back with

ASSUME LimitAssumption == Limit \in Nat \ {0}
ASSUME ItemsAssumption == IsFiniteSet(Items)
ASSUME AnswersAssumption == Answers # {}

VARIABLES
  main,             \* the calling goroutine: "idle", "running" or "joined"
  todo,             \* items its loop has not reached yet
  pc,               \* where each item's goroutine is
  limiter,          \* goroutines whose token is in the channel
  mu,               \* goroutines inside the critical section
  copy,             \* the slice each goroutine loaded before its append
  answer,           \* what each goroutine's call came back with
  rows              \* the shared result, in the order it was appended to

poolVars == <<main, todo, pc, limiter, mu, copy, answer, rows>>

PCs == {"idle", "blocked", "asking", "answered", "locked", "stored", "done"}
Holding == {"asking", "answered", "locked", "stored"}  \* between <- and defer

Running(i) == pc[i] \notin {"idle", "done"}
Stored(i) == pc[i] \in {"stored", "done"}
Spawned == {i \in Items : pc[i] # "idle"}
RowSet == {rows[n] : n \in DOMAIN rows}

(* The zero value of a goroutine's local result. *)
NoAnswerYet == CHOOSE a \in Answers : TRUE

PoolTypeOK ==
  /\ main \in {"idle", "running", "joined"}
  /\ todo \subseteq Items
  /\ pc \in [Items -> PCs]
  /\ limiter \subseteq Items
  /\ mu \subseteq Items
  /\ copy \in [Items -> Seq(Items)]
  /\ answer \in [Items -> Answers]
  /\ rows \in Seq(Items)

PoolInit ==
  /\ main = "idle"
  /\ todo = {}
  /\ pc = [i \in Items |-> "idle"]
  /\ limiter = {} /\ mu = {}
  /\ copy = [i \in Items |-> <<>>]
  /\ answer = [i \in Items |-> NoAnswerYet]
  /\ rows = <<>>

-----------------------------------------------------------------------------
(* The calling goroutine.  A call makes a limiter, a mutex and a slice of  *)
(* its own; map iteration order makes the order of the loop arbitrary.     *)

Start(S) ==
  /\ main # "running"
  /\ main' = "running"
  /\ todo' = S
  /\ pc' = [i \in Items |-> "idle"]
  /\ limiter' = {} /\ mu' = {}
  /\ copy' = [i \in Items |-> <<>>]
  /\ answer' = [i \in Items |-> NoAnswerYet]
  /\ rows' = <<>>

Spawn(i) ==
  /\ main = "running" /\ i \in todo
  /\ todo' = todo \ {i}
  /\ pc' = [pc EXCEPT ![i] = "blocked"]
  /\ UNCHANGED <<main, limiter, mu, copy, answer, rows>>

(* The loop's `continue`: nothing to read for this item. *)
Skip(i) ==
  /\ main = "running" /\ i \in todo
  /\ todo' = todo \ {i}
  /\ UNCHANGED <<main, pc, limiter, mu, copy, answer, rows>>

\* Mutant: wg.Add(1) moved inside the goroutine, so one that has not been
\* scheduled yet is not waited for.
WaitAddInside ==
  /\ main = "running" /\ todo = {}
  /\ \A i \in Items : pc[i] \in {"idle", "blocked", "done"}
  /\ main' = "joined"
  /\ UNCHANGED <<todo, pc, limiter, mu, copy, answer, rows>>

Wait ==
  /\ main = "running" /\ todo = {}
  /\ \A i \in Items : ~Running(i)
  /\ main' = "joined"
  /\ UNCHANGED <<todo, pc, limiter, mu, copy, answer, rows>>

-----------------------------------------------------------------------------
(* The goroutine of item i.                                                *)

\* Mutant: a channel one slot larger than the limit.
AcquireOneMore(i) ==
  /\ pc[i] = "blocked"
  /\ Cardinality(limiter) <= Limit
  /\ limiter' = limiter \cup {i}
  /\ pc' = [pc EXCEPT ![i] = "asking"]
  /\ UNCHANGED <<main, todo, mu, copy, answer, rows>>

Acquire(i) ==
  /\ pc[i] = "blocked"
  /\ Cardinality(limiter) < Limit
  /\ limiter' = limiter \cup {i}
  /\ pc' = [pc EXCEPT ![i] = "asking"]
  /\ UNCHANGED <<main, todo, mu, copy, answer, rows>>

Answer(i, a) ==
  /\ pc[i] = "asking"
  /\ answer' = [answer EXCEPT ![i] = a]
  /\ pc' = [pc EXCEPT ![i] = "answered"]
  /\ UNCHANGED <<main, todo, limiter, mu, copy, rows>>

\* Mutant: the append without mu.Lock().
LockForgotten(i) ==
  /\ pc[i] = "answered"
  /\ mu' = mu \cup {i}
  /\ copy' = [copy EXCEPT ![i] = rows]
  /\ pc' = [pc EXCEPT ![i] = "locked"]
  /\ UNCHANGED <<main, todo, limiter, answer, rows>>

Lock(i) ==
  /\ pc[i] = "answered"
  /\ mu = {}
  /\ mu' = {i}
  /\ copy' = [copy EXCEPT ![i] = rows]
  /\ pc' = [pc EXCEPT ![i] = "locked"]
  /\ UNCHANGED <<main, todo, limiter, answer, rows>>

\* Mutant: the outcome appended where its row belongs.
StoreOutcome(i) ==
  /\ pc[i] = "locked"
  /\ rows' = Append(copy[i], answer[i])
  /\ copy' = [copy EXCEPT ![i] = <<>>]
  /\ mu' = mu \ {i}
  /\ pc' = [pc EXCEPT ![i] = "stored"]
  /\ UNCHANGED <<main, todo, limiter, answer>>

Store(i) ==
  /\ pc[i] = "locked"
  /\ rows' = Append(copy[i], i)
  /\ copy' = [copy EXCEPT ![i] = <<>>]
  /\ mu' = mu \ {i}
  /\ pc' = [pc EXCEPT ![i] = "stored"]
  /\ UNCHANGED <<main, todo, limiter, answer>>

Finish(i) ==
  /\ pc[i] = "stored"
  /\ limiter' = limiter \ {i}
  /\ pc' = [pc EXCEPT ![i] = "done"]
  /\ UNCHANGED <<main, todo, mu, copy, answer, rows>>

-----------------------------------------------------------------------------
Goroutine(i) ==
  \/ Acquire(i)
  \/ \E a \in Answers : Answer(i, a)
  \/ Lock(i)
  \/ Store(i)
  \/ Finish(i)

Loop == \E i \in Items : Spawn(i) \/ Skip(i)

PoolNext ==
  \/ \E S \in SUBSET Items : Start(S)
  \/ Loop
  \/ Wait
  \/ \E i \in Items : Goroutine(i)

PoolSpec == PoolInit /\ [][PoolNext]_poolVars

(* The Go scheduler runs every runnable goroutine, and every call returns: *)
(* each carries the scan's deadline.  Nothing says a caller ever starts.   *)
PoolFairness ==
  /\ WF_poolVars(Loop) /\ WF_poolVars(Wait)
  /\ \A i \in Items : WF_poolVars(Goroutine(i))

PoolFairSpec == PoolSpec /\ PoolFairness

-----------------------------------------------------------------------------
(* Never more than Limit calls in flight against the API server: a fleet   *)
(* of a thousand nodes is asked eight at a time.                           *)
LimiterBound == Cardinality({i \in Items : pc[i] \in Holding}) <= Limit

(* When the caller reads the result, every goroutine it started has put    *)
(* its row in, and none has put in two.                                    *)
EveryAnswerCounted ==
  main = "joined" =>
    /\ RowSet = Spawned
    /\ Len(rows) = Cardinality(Spawned)

(* The pool implements what a fan-out promises.                            *)
Abstract == INSTANCE Gather WITH
  asked  <- todo \cup Spawned,
  got    <- RowSet,
  joined <- main # "running"

ImplementsGather == Abstract!Spec
=============================================================================
