---------------------------- MODULE Check_proofs ----------------------------
(***************************************************************************)
(* Theorems about Check, for any collectors, breaks, layouts, paths and    *)
(* thresholds: whatever is missed is declared, but for what discovery did  *)
(* not name; "complete" means that everything it named was read; and the   *)
(* exit code tells every gate that tripped.                                *)
(***************************************************************************)
EXTENDS Check, TLAPS

Sources == Collectors \cup {"API scan"}

(* What a stage that has been passed has left behind: a state for each of  *)
(* its collectors.                                                         *)
AfterCollect == Stages \ {"connect", "collect", "exited"}
AfterCustom == AfterCollect \ {"custom resources"}
AfterRules == AfterCustom \ {"rule objects"}
AfterMetrics == AfterRules \ {"kubelet metrics"}
AfterPreflight == AfterMetrics \ {"preflight"}
AfterScan == AfterPreflight \ {"scan"}

Progress ==
  /\ stage \in AfterCollect =>
       \A c \in Parallel \cup {"kubelet config", "control-plane flags"} : Collected[c] # "none"
  /\ stage \in AfterCustom /\ "custom resources" \in wanted => Collected["custom resources"] # "none"
  /\ stage \in AfterRules /\ "rule objects" \in wanted => Collected["rule objects"] # "none"
  /\ stage \in AfterMetrics /\ "kubelet metrics" \in wanted => Collected["kubelet metrics"] # "none"
  /\ stage \in AfterPreflight => \A c \in Preflight : Collected[c] # "none"
  /\ stage \in {"connect", "collect", "custom resources"} => unread = {}
  /\ stage = "rule objects" => \A b \in unread : b.source = "custom resources"

(* Only the sources whose lists survive a failed page are partial.         *)
PartialOnly == \A c \in Sources : Collected[c] = "partial" => c \in MayBePartial

(* Objects of a source read whole are in hand, unless the question to a    *)
(* webhook's backend took them away again; so are those of a webhook list  *)
(* cut short, or the check that needs them admits it.                      *)
Withheld(b) == b.check = "conversion webhooks" /\ "conversion webhooks" \in unchecked

WholeRead == Sources \ ({"control-plane flags"} \cup Passes)

Whole ==
  /\ \A c \in WholeRead : Collected[c] = "complete" =>
       \A b \in In({c}) : b \in inHand \/ Withheld(b)
  /\ Collected["webhooks"] = "partial" =>
       \A b \in In({"webhooks"}) : b \in inHand \/ "admission webhooks" \in unchecked
  /\ unchecked # {} => stage \in AfterPreflight \cup {"exited"}

(* A pass that has run has every object of its kinds in one of its maps,   *)
(* and an unread kind is counted in its row.                               *)
Sorted ==
  /\ \A b \in broken : b.source \in Passes /\ Collected[b.source] # "none" =>
       b \in inHand \cup unread \cup unnamed
  /\ \A b \in unread : b.source \in Passes /\ Collected[b.source] \in {"partial", "failed"}
  /\ \A b \in cutDown : b.source = "custom resources"

(* A deadline that passed before the preflight lists has lost them.        *)
Overdue ==
  /\ deadline \in {"ahead"} \cup {Reading[n] : n \in DOMAIN Reading}
  /\ /\ deadline \in {"collect", "custom resources", "rule objects", "kubelet metrics"}
     /\ stage \in AfterPreflight
     => Collected["webhooks"] = "failed"

(* Breaks of a kind that no rule of this catalog reads are no breaks.      *)
Asked == \A b \in broken : b.source \in Optional => b.source \in wanted

(* The status exists once the report does, and is that of its rows.        *)
Settled ==
  /\ stage \notin {"print", "gate", "exited"} => ScanStatus = "unknown"
  /\ stage \in {"print", "gate"} => ScanStatus = StatusFor(Coverage)
  /\ stage \notin {"gate", "exited"} => ~printed
  /\ stage = "gate" => printed

IInv == TypeOK /\ Progress /\ PartialOnly /\ Whole /\ Sorted /\ Overdue /\ Asked /\ Settled
        /\ CoverageHonest /\ ExitTellsAll
-----------------------------------------------------------------------------
(* The reading stages, spelled out.                                        *)
LEMMA ReadingIs ==
  /\ {Reading[n] : n \in DOMAIN Reading} =
       {"collect", "custom resources", "rule objects", "kubelet metrics", "preflight", "scan"}
  /\ Following("collect") = "custom resources"
  /\ Following("custom resources") = "rule objects"
  /\ Following("rule objects") = "kubelet metrics"
  /\ Following("kubelet metrics") = "preflight"
  /\ Following("preflight") = "scan"
  /\ Following("scan") = "assemble"
<1>1. /\ DOMAIN Reading = 1 .. 6 /\ Len(Reading) = 6
      /\ Reading[1] = "collect" /\ Reading[2] = "custom resources"
      /\ Reading[3] = "rule objects" /\ Reading[4] = "kubelet metrics"
      /\ Reading[5] = "preflight" /\ Reading[6] = "scan"
  BY DEF Reading
<1>2. \A m, n \in 1 .. 6 : Reading[m] = Reading[n] => m = n
  <2>1. 1 .. 6 = {1, 2, 3, 4, 5, 6}
    OBVIOUS
  <2> QED BY <1>1, <2>1
<1>3. ASSUME NEW m \in 1 .. 6
      PROVE  Following(Reading[m]) = IF m = 6 THEN "assemble" ELSE Reading[m + 1]
  <2>1. (CHOOSE k \in DOMAIN Reading : Reading[k] = Reading[m]) = m
    BY <1>1, <1>2
  <2> QED BY <1>1, <2>1 DEF Following
<1>4. {Reading[n] : n \in DOMAIN Reading} = {Reading[n] : n \in {1, 2, 3, 4, 5, 6}}
  <2>1. 1 .. 6 = {1, 2, 3, 4, 5, 6}
    OBVIOUS
  <2> QED BY <1>1, <2>1
<1>5. /\ Following(Reading[1]) = Reading[2] /\ Following(Reading[2]) = Reading[3]
      /\ Following(Reading[3]) = Reading[4] /\ Following(Reading[4]) = Reading[5]
      /\ Following(Reading[5]) = Reading[6] /\ Following(Reading[6]) = "assemble"
  BY <1>3
<1>6. {Reading[n] : n \in {1, 2, 3, 4, 5, 6}} =
        {"collect", "custom resources", "rule objects", "kubelet metrics", "preflight", "scan"}
  BY <1>1
<1> QED BY <1>1, <1>4, <1>5, <1>6

(* What is lost is among what was to be read, and all of it when the       *)
(* deadline passed at an earlier stage.                                    *)
LEMMA LostWithin ==
  ASSUME NEW S, NEW L \in MayLose(S)
  PROVE  L \subseteq S /\ (Late => L = S)
<1>1. CASE Late
  BY <1>1 DEF MayLose, Late
<1>2. CASE ~Late /\ deadline = stage
  BY <1>2 DEF MayLose
<1>3. CASE ~Late /\ deadline # stage
  <2>1. deadline = "ahead"
    BY <1>3 DEF Late
  <2> QED BY <1>3, <2>1 DEF MayLose
<1> QED BY <1>1, <1>2, <1>3

(* What one read of S that loses L, P of it only in part, says of c.       *)
Fate(c, S, L, P, outcome) ==
  /\ c \in P => outcome = "partial"
  /\ c \in L \ P => outcome = "failed"
  /\ c \in S \ L => outcome = "complete"
  /\ c \notin S => outcome = Collected[c]

LEMMA OutcomeIs ==
  ASSUME NEW S, NEW L, NEW P, P \subseteq L, L \subseteq S, NEW c
  PROVE  Fate(c, S, L, P, Outcome(c, S, L, P))
<1>1. CASE c \in P
  BY <1>1 DEF Outcome, Fate
<1>2. CASE c \in L \ P
  BY <1>2 DEF Outcome, Fate
<1>3. CASE c \in S \ L
  BY <1>3 DEF Outcome, Fate
<1>4. CASE c \notin S
  BY <1>4 DEF Outcome, Fate
<1> QED BY <1>1, <1>2, <1>3, <1>4

(* Before there is a report, nothing is claimed.                           *)
LEMMA NothingClaimed ==
  ASSUME stage \notin {"print", "gate", "exited"}, ScanStatus = "unknown"
  PROVE  CoverageHonest /\ ExitTellsAll
BY DEF CoverageHonest, MissedMeansDeclared, CompleteMeansAllRead, Reported, ExitTellsAll

LEMMA StillReading ==
  ASSUME IInv, stage \notin {"print", "gate", "exited"}, stage' \notin {"print", "gate", "exited"},
         UNCHANGED <<judged, ending>>
  PROVE  Settled' /\ CoverageHonest' /\ ExitTellsAll'
<1>1. ScanStatus' = "unknown" /\ ~printed'
  BY DEF IInv, Settled, judged, ending
<1> QED BY <1>1 DEF Settled, CoverageHonest, MissedMeansDeclared, CompleteMeansAllRead, Reported,
                    ExitTellsAll

(* A read gives every source it is about one of the three answers.         *)
LEMMA Answered ==
  ASSUME TypeOK, NEW S, NEW L \in SUBSET S, NEW P \in SUBSET L, NEW c \in Sources, NEW outcome,
         Fate(c, S, L, P, outcome)
  PROVE  outcome \in Outcomes /\ (c \in S => outcome # "none")
<1>1. CASE c \in S
  BY <1>1 DEF Fate, Outcomes
<1>2. CASE c \notin S
  <2>1. Collected[c] \in Outcomes
    BY DEF TypeOK, Sources
  <2> QED BY <1>2, <2>1 DEF Fate
<1> QED BY <1>1, <1>2

-----------------------------------------------------------------------------
(* After a read of S, what is whole is in hand and what is in part may be. *)
LEMMA AfterRead ==
  ASSUME IInv, NEW S, NEW L \in SUBSET S, NEW P \in SUBSET (L \cap MayBePartial),
         "webhooks" \notin S, Passes \cap S = {},
         UNCHANGED <<input, unchecked, maps>>, inHand \cup In(S \ L) \subseteq inHand',
         \A c \in Sources \ {"control-plane flags"} : Fate(c, S, L, P, Collected'[c]),
         Collected'["control-plane flags"] # "partial",
         unchecked = {} \/ stage' \in AfterPreflight
  PROVE  PartialOnly' /\ Whole' /\ Sorted'
<1>1. \A c \in Sources \ {"control-plane flags"} :
        /\ Collected'[c] = "partial" => c \in P \/ (c \notin S /\ Collected[c] = "partial")
        /\ Collected'[c] = "complete" => c \in S \ L \/ (c \notin S /\ Collected[c] = "complete")
  BY DEF Fate
<1>2. PartialOnly'
  BY <1>1 DEF IInv, PartialOnly
<1>3. ASSUME NEW c \in WholeRead, Collected'[c] = "complete", NEW b \in In({c})
      PROVE  b \in inHand' \/ Withheld(b)'
  <2>0. c \in Sources \ {"control-plane flags"}
    BY DEF WholeRead
  <2>1. CASE c \in S \ L
    <3>1. b \in In(S \ L)
      BY <1>3, <2>1 DEF In
    <3> QED BY <3>1
  <2>2. CASE c \notin S /\ Collected[c] = "complete"
    <3>1. b \in inHand \/ Withheld(b)
      BY <1>3, <2>2 DEF IInv, Whole
    <3> QED BY <3>1 DEF Withheld
  <2> QED BY <1>1, <1>3, <2>0, <2>1, <2>2
<1>4. ASSUME Collected'["webhooks"] = "partial", NEW b \in In({"webhooks"})
      PROVE  b \in inHand' \/ "admission webhooks" \in unchecked'
  <2>1. "webhooks" \in Sources \ {"control-plane flags"}
    BY DEF Sources, Collectors, Preflight
  <2>2. Collected["webhooks"] = "partial"
    BY <1>1, <1>4, <2>1
  <2> QED BY <1>4, <2>2 DEF IInv, Whole
<1>5. \A T : In(T)' = In(T)
  BY DEF In, input
<1>6. Whole'
  BY <1>3, <1>4, <1>5 DEF Whole, WholeRead
<1>7. Sorted'
  <2>1. \A c \in Passes : Collected'[c] = Collected[c]
    BY DEF Fate, Passes, Sources, Collectors, Optional
  <2> QED BY <2>1 DEF IInv, Sorted, input, maps
<1> QED BY <1>2, <1>6, <1>7

(* A cluster, an order of calls and nothing read.                          *)
LEMMA InitHolds == Init => IInv
<1> SUFFICES ASSUME Init PROVE IInv
  OBVIOUS
<1>1. TypeOK
  <2>1. strict \in BOOLEAN /\ printed \in BOOLEAN
    BY DEF Init
  <2>5. failOn \in 0 .. 5 /\ exit \in 0 .. 4
    <3>1. failOn = 0 /\ exit = 0
      BY DEF Init
    <3> QED BY <3>1
  <2>4. stage \in Stages /\ deadline \in Stages \cup {"ahead"}
    BY DEF Init, Stages
  <2>2. /\ broken \subseteq Breaks /\ inHand \subseteq broken /\ found \subseteq broken
        /\ components \subseteq Components /\ wanted \subseteq Optional
    BY PathsAssumption DEF Init
  <2>3. Collected \in [Collectors \cup {"API scan"} -> Outcomes]
    BY DEF Init, Outcomes
  <2>6. unread = {} /\ unnamed = {} /\ cutDown = {} /\ informed \in BOOLEAN
    BY DEF Init
  <2> QED BY <2>1, <2>2, <2>3, <2>4, <2>5, <2>6 DEF Init, TypeOK
<1>2. Progress /\ Overdue /\ Asked
  BY DEF Init, Progress, Overdue, Asked, AfterCollect, AfterCustom, AfterRules, AfterMetrics,
         AfterPreflight
<1>4. PartialOnly /\ Whole /\ Sorted
  <2>1. \A c \in Sources : Collected[c] = "none"
    BY DEF Init, Sources
  <2>2. "webhooks" \in Sources /\ Passes \subseteq Sources
    BY DEF Sources, Collectors, Preflight, Optional
  <2> QED BY <2>1, <2>2 DEF Init, PartialOnly, Whole, WholeRead, Sorted
<1>3. Settled /\ CoverageHonest /\ ExitTellsAll
  BY NothingClaimed DEF Init, Settled
<1> QED BY <1>1, <1>2, <1>3, <1>4 DEF IInv

LEMMA ConnectHolds == ASSUME IInv, Connect PROVE IInv'
<1>1. TypeOK' /\ Asked'
  BY ReadingIs DEF IInv, TypeOK, Asked, Connect, Stages, input, options, reading, maps, judged,
     ending
<1>2. stage = "connect" /\ stage' = "collect" /\ ScanStatus' = "unknown"
  BY DEF IInv, Settled, Connect, judged
<1>3. UNCHANGED <<input, deadline, reading, judged, ending>>
  BY DEF Connect
<1>4. Progress' /\ Overdue'
  BY <1>2, <1>3 DEF IInv, Progress, Overdue, AfterCollect, AfterCustom, AfterRules, AfterMetrics,
                    AfterPreflight, reading, maps
<1>5. PartialOnly' /\ Sorted'
  BY <1>3 DEF IInv, PartialOnly, Sorted, reading, maps, input
<1>6. Whole'
  <2>1. unchecked = {}
    BY <1>2 DEF IInv, Whole, AfterPreflight, AfterMetrics, AfterRules, AfterCustom, AfterCollect
  <2> QED BY <1>3, <2>1 DEF IInv, Whole, WholeRead, Withheld, In, reading, input
<1>7. Settled' /\ CoverageHonest' /\ ExitTellsAll'
  BY <1>2, <1>3 DEF IInv, Settled, CoverageHonest, MissedMeansDeclared, CompleteMeansAllRead,
                    Reported, ExitTellsAll, judged, ending
<1> QED BY <1>1, <1>4, <1>5, <1>6, <1>7 DEF IInv

(* No report, and the exit code says so.                                   *)
LEMMA RefuseHolds == ASSUME IInv, Refuse PROVE IInv'
<1>1. TypeOK' /\ Asked'
  <2>1. stage' \in Stages /\ exit' \in 0 .. 4
    BY DEF Refuse, Stages
  <2>2. UNCHANGED <<input, options, deadline, reading, judged, printed>>
    BY DEF Refuse
  <2> QED BY <2>1, <2>2 DEF IInv, TypeOK, Asked, input, options, reading, maps, judged
<1>2. /\ stage = "connect" /\ stage' = "exited" /\ ScanStatus' = "unknown"
      /\ exit' \in {1, 2, 3} /\ ~printed'
  BY DEF IInv, Settled, Refuse, judged
<1>3. UNCHANGED <<input, deadline, reading, judged>>
  BY DEF Refuse
<1>4. Progress' /\ Overdue'
  BY <1>2, <1>3 DEF IInv, Progress, Overdue, AfterCollect, AfterCustom, AfterRules, AfterMetrics,
                    AfterPreflight
<1>5. PartialOnly' /\ Whole' /\ Sorted'
  BY <1>2, <1>3 DEF IInv, PartialOnly, Whole, WholeRead, Withheld, Sorted, In, reading, maps, input
<1>6. Settled' /\ CoverageHonest' /\ ExitTellsAll'
  BY <1>2 DEF Settled, CoverageHonest, MissedMeansDeclared, CompleteMeansAllRead, Reported,
              ExitTellsAll
<1> QED BY <1>1, <1>4, <1>5, <1>6 DEF IInv

(* Collect: nodes, workloads and the rest, the kubelets, and the flag row. *)
LEMMA CollectHolds == ASSUME IInv, CollectAll PROVE IInv'
<1> DEFINE S == Parallel \cup {"kubelet config"}
<1>0. PICK L \in MayLose(S) : \E P \in SUBSET (L \cap MayBePartial) :
        /\ Collected' = [c \in DOMAIN Collected |->
             IF c = "control-plane flags"
               THEN IF "standalone pods" \notin L /\ components # {} THEN "complete" ELSE "failed"
               ELSE Outcome(c, S, L, P)]
        /\ \E X \in SUBSET In(P) : inHand' = inHand \cup In(S \ L) \cup X
  BY DEF CollectAll
<1>1. PICK P \in SUBSET (L \cap MayBePartial) :
        /\ Collected' = [c \in DOMAIN Collected |->
             IF c = "control-plane flags"
               THEN IF "standalone pods" \notin L /\ components # {} THEN "complete" ELSE "failed"
               ELSE Outcome(c, S, L, P)]
        /\ \E X \in SUBSET In(P) : inHand' = inHand \cup In(S \ L) \cup X
  BY <1>0
<1>2. /\ stage = "collect" /\ stage' = "custom resources"
      /\ UNCHANGED <<input, options, deadline, unchecked, maps, judged, ending>>
  BY ReadingIs DEF CollectAll
<1>3. L \subseteq S /\ P \subseteq L
  BY LostWithin
<1>4. DOMAIN Collected = Sources
  BY DEF IInv, TypeOK, Sources
<1>5. /\ \A c \in Sources \ {"control-plane flags"} : Fate(c, S, L, P, Collected'[c])
      /\ Collected'["control-plane flags"] \in {"complete", "failed"}
  <2>1. "control-plane flags" \in Sources
    BY DEF Sources, Collectors
  <2>2. ASSUME NEW c \in Sources \ {"control-plane flags"}
        PROVE  Fate(c, S, L, P, Collected'[c])
    <3>1. Collected'[c] = Outcome(c, S, L, P)
      BY <1>1, <1>4
    <3> HIDE DEF S
    <3> QED BY <1>3, <3>1, OutcomeIs
  <2> QED BY <1>1, <1>4, <2>1, <2>2
<1>6. \A c \in Sources \ {"control-plane flags"} :
        Collected'[c] \in Outcomes /\ (c \in S => Collected'[c] # "none")
  <2> HIDE DEF S
  <2> QED BY <1>3, <1>5, Answered DEF IInv
<1>7. TypeOK'
  <2>1. Collected' \in [Sources -> Outcomes]
    BY <1>1, <1>4, <1>5, <1>6 DEF Outcomes
  <2>2. inHand' \subseteq broken
    BY <1>1 DEF IInv, TypeOK, In
  <2>3. stage' \in Stages
    BY <1>2, ReadingIs DEF Stages
  <2> QED BY <1>2, <2>1, <2>2, <2>3 DEF IInv, TypeOK, Sources, input, options, maps, judged, ending
<1>8. PartialOnly' /\ Whole' /\ Sorted'
  <2>1. unchecked = {}
    BY <1>2 DEF IInv, Whole, AfterPreflight, AfterMetrics, AfterRules, AfterCustom, AfterCollect
  <2>2. "webhooks" \notin S /\ Passes \cap S = {}
    BY NamesAssumption DEF Preflight, Optional, Passes
  <2>3. UNCHANGED <<input, unchecked, maps>> /\ inHand \cup In(S \ L) \subseteq inHand'
    BY <1>1, <1>2
  <2> HIDE DEF S
  <2> QED BY <1>3, <1>5, <2>1, <2>2, <2>3, AfterRead
<1>9. Progress' /\ Overdue' /\ Asked'
  <2>1. Progress'
    <3>1. ASSUME NEW c \in Parallel \cup {"kubelet config", "control-plane flags"}
          PROVE  Collected'[c] # "none"
      <4>1. c \in Sources
        BY DEF Sources, Collectors
      <4> QED BY <1>5, <1>6, <4>1
    <3>2. unread' = {}
      BY <1>2 DEF IInv, Progress, maps
    <3> QED BY <1>2, <3>1, <3>2 DEF Progress, AfterCustom, AfterRules, AfterMetrics, AfterPreflight
  <2>2. Overdue'
    BY <1>2 DEF IInv, Overdue, AfterPreflight, AfterMetrics, AfterRules, AfterCustom
  <2> QED BY <1>2, <2>1, <2>2 DEF IInv, Asked, input
<1>10. Settled' /\ CoverageHonest' /\ ExitTellsAll'
  BY <1>2, StillReading
<1> QED BY <1>7, <1>8, <1>9, <1>10 DEF IInv

LEMMA OptionalStages ==
  ASSUME stage \in Optional
  PROVE  \/ stage = "custom resources" /\ Following(stage) = "rule objects"
         \/ stage = "rule objects" /\ Following(stage) = "kubelet metrics"
         \/ stage = "kubelet metrics" /\ Following(stage) = "preflight"
BY ReadingIs DEF Optional, Passes

(* Neither the control-plane flags nor any other source can be partial     *)
(* that keeps nothing of a failed list.                                    *)
LEMMA NeverPartial ==
  ASSUME IInv, NEW c \in Sources \ MayBePartial
  PROVE  Collected[c] # "partial"
BY DEF IInv, PartialOnly

(* A collector nothing asks for is skipped without a row.                  *)
LEMMA NotWantedHolds == ASSUME IInv, NotWanted PROVE IInv'
<1>1. /\ stage \in Optional /\ stage \notin wanted /\ stage' = Following(stage)
      /\ UNCHANGED <<input, options, deadline, reading, judged, ending>>
  BY DEF NotWanted
<1>2. \/ stage = "custom resources" /\ stage' = "rule objects"
      \/ stage = "rule objects" /\ stage' = "kubelet metrics"
      \/ stage = "kubelet metrics" /\ stage' = "preflight"
  BY <1>1, OptionalStages
<1>3. TypeOK' /\ Asked'
  <2>1. stage' \in Stages
    BY <1>2, ReadingIs DEF Stages
  <2> QED BY <1>1, <2>1 DEF IInv, TypeOK, Asked, input, options, reading, maps, judged, ending
<1>4. UNCHANGED <<broken, components, wanted, deadline, Collected, unchecked, inHand, maps>>
  BY <1>1 DEF input, reading
<1>5. Progress' /\ Overdue'
  BY <1>1, <1>2, <1>4, ReadingIs DEF IInv, Progress, Overdue, Stages, maps, AfterCollect,
     AfterCustom, AfterRules, AfterMetrics, AfterPreflight
<1>6. PartialOnly' /\ Sorted'
  BY <1>4 DEF IInv, PartialOnly, Sorted, maps
<1>7. Whole'
  <2>1. unchecked = {}
    BY <1>2 DEF IInv, Whole, AfterPreflight, AfterMetrics, AfterRules, AfterCustom, AfterCollect
  <2> QED BY <1>4, <2>1 DEF IInv, Whole, WholeRead, Withheld, In
<1>8. Settled' /\ CoverageHonest' /\ ExitTellsAll'
  BY <1>1, <1>2, StillReading
<1> QED BY <1>3, <1>5, <1>6, <1>7, <1>8 DEF IInv

(* What a read of one optional collector says of its row and the others.   *)
LEMMA OptionalRead ==
  ASSUME IInv, stage \in Optional, stage \in wanted, NEW L \in SUBSET {stage}, NEW P \in SUBSET L,
         Collected' = [c \in DOMAIN Collected |-> Outcome(c, {stage}, L, P)],
         stage' = Following(stage),
         stage = "custom resources" => \A b \in unread' : b.source = "custom resources",
         UNCHANGED <<input, options, deadline, unchecked, judged, ending>>
  PROVE  /\ \A c \in Sources : Fate(c, {stage}, L, P, Collected'[c])
         /\ Collected' \in [Sources -> Outcomes] /\ Collected'[stage] # "none"
         /\ stage' \in Stages /\ unchecked = {}
         /\ "webhooks" # stage /\ "control-plane flags" # stage /\ stage \in MayBePartial
         /\ Collected'["control-plane flags"] # "partial"
         /\ Progress' /\ Overdue' /\ Asked' /\ Settled' /\ CoverageHonest' /\ ExitTellsAll'
<1>3. \/ stage = "custom resources" /\ stage' = "rule objects"
      \/ stage = "rule objects" /\ stage' = "kubelet metrics"
      \/ stage = "kubelet metrics" /\ stage' = "preflight"
  BY OptionalStages
<1>5. DOMAIN Collected = Sources /\ stage \in Sources
  BY DEF IInv, TypeOK, Sources, Collectors
<1>6. \A c \in Sources : Fate(c, {stage}, L, P, Collected'[c])
  <2> SUFFICES ASSUME NEW c \in Sources PROVE Fate(c, {stage}, L, P, Collected'[c])
    OBVIOUS
  <2>1. Collected'[c] = Outcome(c, {stage}, L, P)
    BY <1>5
  <2> QED BY <2>1, OutcomeIs
<1>7. \A c \in Sources : Collected'[c] \in Outcomes /\ (c = stage => Collected'[c] # "none")
  BY <1>6, Answered DEF IInv
<1>8. Collected' \in [Sources -> Outcomes] /\ Collected'[stage] # "none"
  BY <1>5, <1>7
<1>9. stage' \in Stages
  BY <1>3, ReadingIs DEF Stages
<1>10. unchecked = {}
  BY <1>3 DEF IInv, Whole, AfterPreflight, AfterMetrics, AfterRules, AfterCustom, AfterCollect
<1>11. "webhooks" # stage /\ "control-plane flags" # stage /\ stage \in MayBePartial
  BY <1>3 DEF MayBePartial, FleetSources
<1>12. Collected'["control-plane flags"] # "partial"
  <2>1. "control-plane flags" \in Sources \ MayBePartial
    BY DEF Sources, Collectors, MayBePartial, FleetSources
  <2> QED BY <1>6, <1>11, <2>1, NeverPartial DEF Fate
<1>13. Progress'
  <2>1. \A c \in Sources : Collected[c] # "none" => Collected'[c] # "none"
    BY <1>6, <1>7 DEF Fate
  <2>2. /\ Parallel \cup {"kubelet config", "control-plane flags"} \subseteq Sources
        /\ Optional \subseteq Sources
    BY DEF Sources, Collectors
  <2> QED BY <1>3, <1>7, <2>1, <2>2, ReadingIs DEF IInv, Progress, input, Optional, Passes,
         Stages, AfterCollect, AfterCustom, AfterRules, AfterMetrics, AfterPreflight
<1>14. Overdue' /\ Asked'
  BY <1>3 DEF IInv, Overdue, Asked, input, AfterPreflight, AfterMetrics, AfterRules, AfterCustom
<1>15. Settled' /\ CoverageHonest' /\ ExitTellsAll'
  BY <1>3, StillReading
<1> QED BY <1>6, <1>8, <1>9, <1>10, <1>11, <1>12, <1>13, <1>14, <1>15

(* CollectCustomResources and CollectRuleObjects: each object of a kind    *)
(* asked for is kept, counted in the row, or of a kind discovery did not   *)
(* name.                                                                   *)
LEMMA ReadKindsHolds == ASSUME IInv, ReadKinds PROVE IInv'
<1>0. PICK H \in SUBSET In({stage}) :
        \E L \in MayLose({stage}) \cup (IF In({stage}) = H THEN {{}} ELSE {}) :
        \E P \in SUBSET L : \E R \in SUBSET (In({stage}) \ H) :
        \E Z \in SUBSET (In({"custom resources"}) \ inHand) : \E Shown \in SUBSET Z :
          /\ IF L = {} THEN R = In({stage}) \ H ELSE P = {} => R = {}
          /\ Z # {} => stage = "rule objects" /\ L = P /\ ~Late
          /\ Late => P = {}
          /\ Collected' = [c \in DOMAIN Collected |-> Outcome(c, {stage}, L, P)]
          /\ inHand' = inHand \cup R \cup Shown
          /\ unnamed' = unnamed \cup H
          /\ unread' = unread \cup (In({stage}) \ (H \cup R))
          /\ cutDown' = Z
  BY DEF ReadKinds
<1>1. PICK L \in MayLose({stage}) \cup (IF In({stage}) = H THEN {{}} ELSE {}) :
        \E P \in SUBSET L : \E R \in SUBSET (In({stage}) \ H) :
        \E Z \in SUBSET (In({"custom resources"}) \ inHand) : \E Shown \in SUBSET Z :
          /\ IF L = {} THEN R = In({stage}) \ H ELSE P = {} => R = {}
          /\ Z # {} => stage = "rule objects" /\ L = P /\ ~Late
          /\ Late => P = {}
          /\ Collected' = [c \in DOMAIN Collected |-> Outcome(c, {stage}, L, P)]
          /\ inHand' = inHand \cup R \cup Shown
          /\ unnamed' = unnamed \cup H
          /\ unread' = unread \cup (In({stage}) \ (H \cup R))
          /\ cutDown' = Z
  BY <1>0
<1>1b. PICK P \in SUBSET L : \E R \in SUBSET (In({stage}) \ H) :
        \E Z \in SUBSET (In({"custom resources"}) \ inHand) : \E Shown \in SUBSET Z :
          /\ IF L = {} THEN R = In({stage}) \ H ELSE P = {} => R = {}
          /\ Z # {} => stage = "rule objects" /\ L = P /\ ~Late
          /\ Late => P = {}
          /\ Collected' = [c \in DOMAIN Collected |-> Outcome(c, {stage}, L, P)]
          /\ inHand' = inHand \cup R \cup Shown
          /\ unnamed' = unnamed \cup H
          /\ unread' = unread \cup (In({stage}) \ (H \cup R))
          /\ cutDown' = Z
  BY <1>1
<1>2. PICK R \in SUBSET (In({stage}) \ H),
            Z \in SUBSET (In({"custom resources"}) \ inHand) : \E Shown \in SUBSET Z :
          /\ L = {} => R = In({stage}) \ H
          /\ Collected' = [c \in DOMAIN Collected |-> Outcome(c, {stage}, L, P)]
          /\ inHand' = inHand \cup R \cup Shown
          /\ unnamed' = unnamed \cup H
          /\ unread' = unread \cup (In({stage}) \ (H \cup R))
          /\ cutDown' = Z
  BY <1>1b
<1>3. /\ stage \in Passes /\ stage \in wanted /\ stage' = Following(stage)
      /\ UNCHANGED <<input, options, deadline, unchecked, judged, ending>>
  BY DEF ReadKinds
<1>4. L \in SUBSET {stage}
  <2>1. L \in MayLose({stage}) \cup {{}}
    BY <1>1
  <2> QED BY <2>1, LostWithin
<1>5. stage \in Optional
  BY <1>3 DEF Optional
<1>6. /\ \A c \in Sources : Fate(c, {stage}, L, P, Collected'[c])
      /\ Collected' \in [Sources -> Outcomes] /\ stage' \in Stages /\ unchecked = {}
      /\ "webhooks" # stage /\ stage \in MayBePartial
      /\ Progress' /\ Overdue' /\ Asked' /\ Settled' /\ CoverageHonest' /\ ExitTellsAll'
  <2>1. stage = "custom resources" => \A b \in unread' : b.source = "custom resources"
    BY <1>2 DEF IInv, Progress, In
  <2> QED BY <1>2, <1>3, <1>4, <1>5, <2>1, OptionalRead
<1>7. /\ inHand \subseteq inHand' /\ R \subseteq inHand' /\ inHand' \subseteq broken
      /\ unread' \subseteq broken /\ unnamed' \subseteq broken /\ cutDown' \subseteq broken
  BY <1>2 DEF IInv, TypeOK, In
<1>8. TypeOK'
  BY <1>3, <1>6, <1>7 DEF IInv, TypeOK, Sources, input, options, judged, ending
<1>9. PartialOnly'
  BY <1>4, <1>6 DEF IInv, PartialOnly, Fate
<1>10. Whole'
  <2>1. \A T : In(T)' = In(T)
    BY <1>3 DEF In, input
  <2>2. ASSUME NEW c \in WholeRead, Collected'[c] = "complete", NEW b \in In({c})
        PROVE  b \in inHand' \/ Withheld(b)'
    <3>1. Collected[c] = "complete"
      BY <1>3, <1>6, <2>2 DEF WholeRead, Fate
    <3>2. b \in inHand \/ Withheld(b)
      BY <2>2, <3>1 DEF IInv, Whole
    <3> QED BY <1>3, <1>7, <3>2 DEF Withheld
  <2>3. ASSUME Collected'["webhooks"] = "partial", NEW b \in In({"webhooks"})
        PROVE  b \in inHand' \/ "admission webhooks" \in unchecked'
    <3>1. "webhooks" \in Sources
      BY DEF Sources, Collectors, Preflight
    <3>2. Collected["webhooks"] = "partial"
      BY <1>6, <2>3, <3>1 DEF Fate
    <3> QED BY <1>3, <1>7, <2>3, <3>2 DEF IInv, Whole
  <2> QED BY <1>3, <1>6, <2>1, <2>2, <2>3 DEF Whole, WholeRead
<1>11. Sorted'
  <2>1. Passes \subseteq Sources
    BY DEF Passes, Sources, Collectors, Optional
  <2>2. ASSUME NEW b \in broken, b.source \in Passes, Collected'[b.source] # "none"
        PROVE  b \in inHand' \cup unread' \cup unnamed'
    <3>1. CASE b.source = stage
      <4>1. b \in In({stage})
        BY <3>1 DEF In
      <4> QED BY <1>2, <1>7, <4>1
    <3>2. CASE b.source # stage
      <4>1. Collected[b.source] # "none"
        BY <1>6, <2>1, <2>2, <3>2 DEF Fate
      <4>2. b \in inHand \cup unread \cup unnamed
        BY <2>2, <4>1 DEF IInv, Sorted
      <4> QED BY <1>2, <1>7, <4>2
    <3> QED BY <3>1, <3>2
  <2>3. ASSUME NEW b \in In({stage})
        PROVE  b.source = stage
    BY <1>3, <2>3 DEF In, Passes
  <2>4. ASSUME NEW b \in unread'
        PROVE  b.source \in Passes /\ Collected'[b.source] \in {"partial", "failed"}
    <3>1. CASE b \in unread
      <4>1. b.source \in Passes /\ Collected[b.source] \in {"partial", "failed"}
        BY <3>1 DEF IInv, Sorted
      <4>2. CASE b.source # stage
        BY <1>6, <2>1, <4>1, <4>2 DEF Fate
      <4>3. b.source # stage
        BY <1>3, <3>1, <4>1 DEF IInv, Progress, Passes
      <4> QED BY <4>2, <4>3
    <3>2. CASE b \notin unread
      <4>1. b \in In({stage}) /\ L # {}
        BY <1>2, <2>4, <3>2
      <4>2. b.source = stage /\ L = {stage}
        BY <1>4, <2>3, <4>1
      <4>3. Collected'[stage] \in {"partial", "failed"}
        BY <1>3, <1>6, <2>1, <4>2 DEF Fate
      <4> QED BY <1>3, <4>2, <4>3
    <3> QED BY <3>1, <3>2
  <2>5. ASSUME NEW b \in cutDown'
        PROVE  b.source = "custom resources"
    <3>1. b \in In({"custom resources"})
      BY <1>2, <2>5
    <3> QED BY <3>1 DEF In
  <2> QED BY <1>3, <2>2, <2>4, <2>5 DEF Sorted, input
<1> QED BY <1>6, <1>8, <1>9, <1>10, <1>11 DEF IInv

(* CollectKubeletMetrics.                                                  *)
LEMMA ReadMetricsHolds == ASSUME IInv, ReadMetrics PROVE IInv'
<1>0. PICK L \in MayLose({stage}) : \E P \in SUBSET L :
        /\ Collected' = [c \in DOMAIN Collected |-> Outcome(c, {stage}, L, P)]
        /\ \E X \in SUBSET In(P) : inHand' = inHand \cup In({stage} \ L) \cup X
  BY DEF ReadMetrics
<1>1. PICK P \in SUBSET L :
        /\ Collected' = [c \in DOMAIN Collected |-> Outcome(c, {stage}, L, P)]
        /\ \E X \in SUBSET In(P) : inHand' = inHand \cup In({stage} \ L) \cup X
  BY <1>0
<1>2. /\ stage = "kubelet metrics" /\ stage \in wanted /\ stage' = Following(stage)
      /\ UNCHANGED <<input, options, deadline, unchecked, maps, judged, ending>>
  BY DEF ReadMetrics
<1>3. L \in SUBSET {stage}
  BY LostWithin
<1>4. stage \in Optional
  BY <1>2 DEF Optional
<1>5. /\ \A c \in Sources : Fate(c, {stage}, L, P, Collected'[c])
      /\ Collected' \in [Sources -> Outcomes] /\ stage' \in Stages /\ unchecked = {}
      /\ "webhooks" # stage /\ "control-plane flags" # stage /\ stage \in MayBePartial
      /\ Collected'["control-plane flags"] # "partial"
      /\ Progress' /\ Overdue' /\ Asked' /\ Settled' /\ CoverageHonest' /\ ExitTellsAll'
  BY <1>1, <1>2, <1>3, <1>4, OptionalRead
<1>6. inHand \cup In({stage} \ L) \subseteq inHand' /\ inHand' \subseteq broken
  BY <1>1 DEF IInv, TypeOK, In
<1>7. TypeOK'
  BY <1>2, <1>5, <1>6 DEF IInv, TypeOK, Sources, input, options, maps, judged, ending
<1>8. PartialOnly' /\ Whole' /\ Sorted'
  <2>1. P \in SUBSET (L \cap MayBePartial) /\ "webhooks" \notin {stage} /\ Passes \cap {stage} = {}
    BY <1>2, <1>3, <1>5 DEF Passes
  <2> QED BY <1>2, <1>3, <1>5, <1>6, <2>1, AfterRead
<1> QED BY <1>5, <1>7, <1>8 DEF IInv

(* The three preflight lists and the questions to the webhooks' backends:  *)
(* the one read that can take a break out of hand again.                   *)
LEMMA PreflightHolds == ASSUME IInv, PreflightAll PROVE IInv'
<1>1. PICK L \in MayLose(Preflight) : \E P \in SUBSET (L \cap {"webhooks"}) :
        \E U \in SUBSET {"admission webhooks", "conversion webhooks"} :
        \E X \in SUBSET In(P \cup (L \ {"webhooks"})) :
        \E Y \in SUBSET {b \in inHand : b.check = "conversion webhooks"} :
          /\ "admission webhooks" \in U => "webhooks" \in P
          /\ In(P) \subseteq X \/ "admission webhooks" \in U
          /\ Y = {} \/ "conversion webhooks" \in U
          /\ Late => P = {} /\ X = {} /\ Y = {b \in inHand : b.check = "conversion webhooks"}
          /\ Collected' = [c \in DOMAIN Collected |-> Outcome(c, Preflight, L, P)]
          /\ unchecked' = U
          /\ inHand' = (inHand \ Y) \cup In(Preflight \ L) \cup X
  BY DEF PreflightAll
<1>2. PICK P \in SUBSET (L \cap {"webhooks"}) :
        /\ Late => P = {}
        /\ Collected' = [c \in DOMAIN Collected |-> Outcome(c, Preflight, L, P)]
        /\ unchecked' \subseteq {"admission webhooks", "conversion webhooks"}
        /\ In(P) \subseteq inHand' \/ "admission webhooks" \in unchecked'
        /\ inHand' \subseteq inHand \cup In(Preflight \ L) \cup In(P \cup (L \ {"webhooks"}))
        /\ In(Preflight \ L) \subseteq inHand'
        /\ \A b \in inHand : b \in inHand' \/ (/\ b.check = "conversion webhooks"
                                            /\ "conversion webhooks" \in unchecked')
  BY <1>1
<1>3. /\ stage = "preflight" /\ stage' = "scan"
      /\ UNCHANGED <<input, options, deadline, maps, judged, ending>>
  BY ReadingIs DEF PreflightAll
<1>4. P \subseteq L /\ L \subseteq Preflight /\ P \subseteq {"webhooks"} /\ (Late => L = Preflight)
  BY LostWithin
<1>5. DOMAIN Collected = Sources /\ Preflight \subseteq Sources
  BY DEF IInv, TypeOK, Sources, Collectors
<1>6. \A c \in Sources : Fate(c, Preflight, L, P, Collected'[c])
  <2> SUFFICES ASSUME NEW c \in Sources PROVE Fate(c, Preflight, L, P, Collected'[c])
    OBVIOUS
  <2>1. Collected'[c] = Outcome(c, Preflight, L, P)
    BY <1>2, <1>5
  <2> QED BY <1>4, <2>1, OutcomeIs
<1>7. \A c \in Sources :
        Collected'[c] \in Outcomes /\ (c \in Preflight => Collected'[c] # "none")
  BY <1>4, <1>6, Answered DEF IInv
<1>8. TypeOK'
  <2>1. Collected' \in [Sources -> Outcomes]
    BY <1>2, <1>5, <1>7
  <2>2. inHand' \subseteq broken
    BY <1>2 DEF IInv, TypeOK, In
  <2>3. stage' \in Stages
    BY <1>3, ReadingIs DEF Stages
  <2> QED BY <1>2, <1>3, <2>1, <2>2, <2>3 DEF IInv, TypeOK, Sources, input, options, maps, judged,
          ending
<1>9. PartialOnly'
  BY <1>4, <1>6 DEF IInv, PartialOnly, MayBePartial, Fate
<1>10. Whole'
  <2>1. unchecked = {}
    BY <1>3 DEF IInv, Whole, AfterPreflight, AfterMetrics, AfterRules, AfterCustom, AfterCollect
  <2>2. \A T : In(T)' = In(T)
    BY <1>3 DEF In, input
  <2>3. ASSUME NEW c \in WholeRead, Collected'[c] = "complete", NEW b \in In({c})
        PROVE  b \in inHand' \/ Withheld(b)'
    <3>0. c \in Sources
      BY DEF WholeRead
    <3>1. CASE c \in Preflight
      <4>1. c \in Preflight \ L
        BY <1>4, <1>6, <2>3, <3>0, <3>1 DEF Fate
      <4>2. b \in In(Preflight \ L)
        BY <2>3, <4>1 DEF In
      <4> QED BY <1>2, <4>2
    <3>2. CASE c \notin Preflight
      <4>1. Collected[c] = "complete"
        BY <1>6, <2>3, <3>0, <3>2 DEF Fate
      <4>2. b \in inHand
        BY <2>1, <2>3, <4>1 DEF IInv, Whole, Withheld
      <4> QED BY <1>2, <4>2 DEF Withheld
    <3> QED BY <3>1, <3>2
  <2>4. ASSUME Collected'["webhooks"] = "partial", NEW b \in In({"webhooks"})
        PROVE  b \in inHand' \/ "admission webhooks" \in unchecked'
    <3>1. "webhooks" \in P
      <4>1. "webhooks" \in Preflight
        BY DEF Preflight
      <4> QED BY <1>4, <1>5, <1>6, <2>4, <4>1 DEF Fate
    <3>2. b \in In(P)
      BY <2>4, <3>1 DEF In
    <3> QED BY <1>2, <3>2
  <2>5. stage' \in AfterPreflight
    BY <1>3, ReadingIs DEF AfterPreflight, AfterMetrics, AfterRules, AfterCustom, AfterCollect, Stages
  <2> QED BY <2>2, <2>3, <2>4, <2>5 DEF Whole, WholeRead
<1>13. Sorted'
  <2>1. /\ \A c \in Passes : c \in Sources \ Preflight
        /\ \A c \in Passes : Collected'[c] = Collected[c]
    <3>1. \A c \in Passes : c \in Sources \ Preflight
      BY DEF Passes, Preflight, Sources, Collectors, Optional
    <3> QED BY <1>6, <3>1 DEF Fate
  <2>2. \A b \in broken : b.source \in Passes => b.check # "conversion webhooks"
    BY BreaksAssumption DEF IInv, TypeOK, Looks, Passes
  <2> QED BY <1>2, <1>3, <2>1, <2>2 DEF IInv, TypeOK, Sorted, input, maps
<1>11. Progress' /\ Overdue' /\ Asked'
  <2>1. \A c \in Sources : Collected[c] # "none" => Collected'[c] # "none"
    BY <1>6, <1>7 DEF Fate
  <2>2. /\ Parallel \cup {"kubelet config", "control-plane flags"} \subseteq Sources
        /\ Optional \subseteq Sources
    BY DEF Sources, Collectors
  <2>3. Progress'
    <3>1. \A c \in Preflight : Collected'[c] # "none"
      BY <1>5, <1>7
    <3> QED BY <1>3, <2>1, <2>2, <3>1, ReadingIs DEF IInv, Progress, input, Optional, Passes,
               Stages, AfterCollect, AfterCustom, AfterRules, AfterMetrics, AfterPreflight
  <2>4. Overdue'
    <3>1. ASSUME deadline \in {"collect", "custom resources", "rule objects", "kubelet metrics"}
          PROVE  Collected'["webhooks"] = "failed"
      <4>1. Late /\ "webhooks" \in Preflight
        BY <1>3, <3>1 DEF Late, Preflight
      <4> QED BY <1>2, <1>4, <1>5, <1>6, <4>1 DEF Fate
    <3> QED BY <1>3, <3>1 DEF IInv, Overdue
  <2> QED BY <1>3, <2>3, <2>4 DEF IInv, Asked, input
<1>12. Settled' /\ CoverageHonest' /\ ExitTellsAll'
  BY <1>3, StillReading
<1> QED BY <1>8, <1>9, <1>10, <1>11, <1>12, <1>13 DEF IInv

(* source.Scan.                                                            *)
LEMMA ScanHolds == ASSUME IInv, ScanAPIs PROVE IInv'
<1> DEFINE S == {"API scan"}
<1>1. PICK L \in MayLose(S) \cup {{}}, P \in SUBSET S :
        /\ P \subseteq L
        /\ Collected' = [c \in DOMAIN Collected |-> Outcome(c, S, L, P)]
        /\ \E X \in SUBSET In(P) : inHand' = inHand \cup In(S \ L) \cup X
  <2>1. PICK L \in MayLose(S) \cup (IF In(S) = {} THEN {{}} ELSE {}) : \E P \in SUBSET L :
          \E X \in SUBSET In(P) :
            /\ Collected' = [c \in DOMAIN Collected |-> Outcome(c, S, L, P)]
            /\ inHand' = inHand \cup In(S \ L) \cup X
    BY DEF ScanAPIs
  <2>2. L \in MayLose(S) \cup {{}}
    BY <2>1
  <2>3. L \subseteq S
    BY <2>2, LostWithin
  <2> QED BY <2>1, <2>2, <2>3
<1>2. /\ stage = "scan" /\ stage' = "assemble"
      /\ UNCHANGED <<input, options, deadline, unchecked, maps, judged, ending>>
  BY ReadingIs DEF ScanAPIs
<1>3. P \subseteq L /\ L \subseteq S
  BY <1>1, LostWithin
<1>4. DOMAIN Collected = Sources
  BY DEF IInv, TypeOK, Sources
<1>5. \A c \in Sources : Fate(c, S, L, P, Collected'[c])
  <2> SUFFICES ASSUME NEW c \in Sources PROVE Fate(c, S, L, P, Collected'[c])
    OBVIOUS
  <2>1. Collected'[c] = Outcome(c, S, L, P)
    BY <1>1, <1>4
  <2> HIDE DEF S
  <2> QED BY <1>3, <2>1, OutcomeIs
<1>6. \A c \in Sources : Collected'[c] \in Outcomes /\ (c \in S => Collected'[c] # "none")
  <2> HIDE DEF S
  <2> QED BY <1>3, <1>5, Answered DEF IInv
<1>7. TypeOK'
  <2>1. Collected' \in [Sources -> Outcomes]
    BY <1>1, <1>4, <1>6
  <2>2. inHand' \subseteq broken
    BY <1>1 DEF IInv, TypeOK, In
  <2>3. stage' \in Stages
    BY <1>2 DEF Stages
  <2> QED BY <1>2, <2>1, <2>2, <2>3 DEF IInv, TypeOK, Sources, input, options, maps, judged, ending
<1>8. PartialOnly' /\ Whole' /\ Sorted'
  <2>1. stage' \in AfterPreflight
    BY <1>2 DEF AfterPreflight, AfterMetrics, AfterRules, AfterCustom, AfterCollect, Stages
  <2>2. "webhooks" \notin S /\ P \subseteq MayBePartial /\ Passes \cap S = {}
    BY DEF MayBePartial, Passes
  <2>3. UNCHANGED <<input, unchecked, maps>> /\ inHand \cup In(S \ L) \subseteq inHand'
    BY <1>1, <1>2
  <2>4. Collected'["control-plane flags"] # "partial"
    <3>1. "control-plane flags" \in Sources \ MayBePartial
      BY DEF Sources, Collectors, MayBePartial, FleetSources
    <3> QED BY <1>5, <3>1, NeverPartial DEF Fate
  <2>5. P \in SUBSET (L \cap MayBePartial) /\ L \in SUBSET S
    BY <1>3, <2>2
  <2> HIDE DEF S
  <2> QED BY <1>5, <2>1, <2>2, <2>3, <2>4, <2>5, AfterRead
<1>9. Progress' /\ Overdue' /\ Asked'
  <2>1. \A c \in Sources : Collected[c] # "none" => Collected'[c] # "none"
    BY <1>5, <1>6 DEF Fate
  <2>2. /\ Parallel \cup {"kubelet config", "control-plane flags"} \subseteq Sources
        /\ Optional \subseteq Sources /\ Preflight \subseteq Sources
    BY DEF Sources, Collectors
  <2>3. Progress'
    BY <1>2, <2>1, <2>2, ReadingIs DEF IInv, Progress, input, Optional, Passes, Stages,
       AfterCollect, AfterCustom, AfterRules, AfterMetrics, AfterPreflight
  <2>4. Overdue'
    <3>1. "webhooks" \in Sources /\ "webhooks" \notin S
      BY DEF Sources, Collectors, Preflight
    <3>2. Collected'["webhooks"] = Collected["webhooks"]
      BY <1>5, <3>1 DEF Fate
    <3>3. stage \in AfterPreflight
      BY <1>2, ReadingIs DEF AfterPreflight, AfterMetrics, AfterRules, AfterCustom, AfterCollect, Stages
    <3> QED BY <1>2, <3>2, <3>3 DEF IInv, Overdue
  <2> QED BY <1>2, <2>3, <2>4 DEF IInv, Asked, input
<1>10. Settled' /\ CoverageHonest' /\ ExitTellsAll'
  BY <1>2, StillReading
<1> QED BY <1>7, <1>8, <1>9, <1>10 DEF IInv

(* The deadline passes while something is being read.                      *)
LEMMA DeadlineHolds == ASSUME IInv, Deadline PROVE IInv'
<1>1. /\ stage \in {"collect", "custom resources", "rule objects", "kubelet metrics",
                    "preflight", "scan"}
      /\ deadline' = stage
      /\ UNCHANGED <<input, options, stage, reading, judged, ending>>
  BY ReadingIs DEF Deadline
<1>2. TypeOK' /\ Asked'
  BY <1>1 DEF IInv, TypeOK, Asked, input, options, reading, maps, judged, ending
<1>3. UNCHANGED <<broken, components, wanted, stage, Collected, unchecked, inHand, unread, unnamed,
                  cutDown>>
  BY <1>1 DEF input, reading, maps
<1>4. Progress' /\ PartialOnly' /\ Sorted'
  BY <1>3 DEF IInv, Progress, PartialOnly, Sorted
<1>5. Whole'
  BY <1>3 DEF IInv, Whole, WholeRead, Withheld, In
<1>6. Overdue'
  BY <1>1, <1>3, ReadingIs DEF Overdue, AfterPreflight, AfterMetrics, AfterRules, AfterCustom,
     AfterCollect, Stages
<1>7. Settled' /\ CoverageHonest' /\ ExitTellsAll'
  BY <1>1, StillReading
<1> QED BY <1>2, <1>4, <1>5, <1>6, <1>7 DEF IInv

-----------------------------------------------------------------------------
(* The report.  Every break an evaluator missed has a row of its own check *)
(* that is not COMPLETE: one case for every place where a check looks.     *)
Rows(D, s) ==
  collectorCoverage \cup ScanRows(s) \cup ConfigRows \cup PluginRows \cup NodeRows
    \cup PreflightRows \cup KindRows(D)

Shown(b, rows) ==
  \E r \in rows :
    /\ r.state # "COMPLETE"
    /\ \/ r.tier = "check" /\ r.of \in RowsFor(b)
       \/ b \in cutDown /\ r.tier = "collector" /\ r.of = "custom resources"

Missed(b) == b \notin inHand \/ ~Judged(b)

(* The names of sources are told apart.                                    *)
LEMMA SourceNames ==
  /\ "API scan" \notin Collectors
  /\ \A c \in Components : c \notin Collectors
  /\ {"nodes", "workloads", "standalone pods", "storage", "CRDs"} \cap MayBePartial = {}
  /\ {"disruption budgets", "API services"} \cap MayBePartial = {}
  /\ Collectors \cap {"nodes", "workloads", "standalone pods", "storage", "CRDs", "kubelet config",
                     "kubelet metrics", "webhooks", "disruption budgets", "API services"}
       = {"nodes", "workloads", "standalone pods", "storage", "CRDs", "kubelet config",
          "kubelet metrics", "webhooks", "disruption budgets", "API services"}
<1>1. "API scan" \notin Collectors /\ \A c \in Components : c \notin Collectors
  BY NamesAssumption DEF Collectors, Components, Optional, Passes, Preflight
<1>2. {"nodes", "workloads", "standalone pods", "storage", "CRDs", "kubelet config",
       "kubelet metrics", "webhooks", "disruption budgets", "API services"} \subseteq Collectors
  BY ParallelAssumption DEF Collectors, Optional, Preflight
<1> QED BY <1>1, <1>2 DEF MayBePartial, FleetSources

(* A source that was read and cannot be partial is whole, and what it      *)
(* holds is in hand.                                                       *)
LEMMA ReadIsWhole ==
  ASSUME IInv, NEW b \in broken, Missed(b), b.source \in Collectors \ MayBePartial,
         \A c \in Needs(b) : Read(c)
  PROVE  Withheld(b)
<1>1. b.source \in Needs(b)
  BY DEF Needs, MayBePartial, Passes
<1>2. b.source \in WholeRead
  <2>1. <<b.check, b.source>> \in Looks
    BY BreaksAssumption DEF IInv, TypeOK
  <2>2. b.source # "control-plane flags"
    BY <2>1 DEF Looks
  <2> QED BY <2>2 DEF Sources, WholeRead, Passes, MayBePartial
<1>3. Collected[b.source] = "complete"
  BY <1>1, <1>2, NeverPartial DEF Read, WholeRead
<1>4. b \notin inHand
  BY DEF Missed, Judged
<1>5. b \in In({b.source})
  BY DEF In
<1> QED BY <1>2, <1>3, <1>4, <1>5 DEF IInv, Whole

(* A rule about a kind no pass has whole: its check declines, or the row   *)
(* of the pass that failed counts the kind, or discovery did not name it.  *)
LEMMA KindShows ==
  ASSUME IInv, stage = "assemble", NEW b \in broken, Missed(b), b.source \in Passes,
         b.check = "add-on rules" => Read("workloads"),
         NEW D, Declining \subseteq D, NEW s \in BOOLEAN
  PROVE  Undiscovered(b) \/ Shown(b, Rows(D, s))
<1>1. \/ b.check = "add-on rules" /\ b.source = "custom resources"
      \/ b.check = "release notes" /\ b.source = "rule objects"
  BY BreaksAssumption DEF IInv, TypeOK, Looks, Passes
<1>2. b \notin inHand
  <2>1. Judged(b)
    BY <1>1 DEF Judged, Needs, Passes, NodeChecks
  <2> QED BY <2>1 DEF Missed
<1>3. Collected[b.source] # "none"
  <2>1. b.source \in wanted
    BY <1>1 DEF IInv, Asked, Optional, Passes
  <2> QED BY <1>1, <2>1 DEF IInv, Progress, AfterCollect, AfterCustom, AfterRules, Stages
<1>4. b \in unread \cup unnamed
  BY <1>2, <1>3 DEF IInv, Sorted
<1>5. CASE CannotJudge(b)
  <2>1. b.check \in D
    BY <1>1, <1>5 DEF Declining, KindChecks
  <2>2. Row(b.check, "UNAVAILABLE") \in Rows(D, s)
    BY <2>1 DEF Rows, KindRows
  <2> QED BY <2>2 DEF Shown, Row, RowsFor
<1>6. CASE ~CannotJudge(b) /\ b.check = "release notes"
  <2>1. b \in unnamed
    BY <1>1, <1>4, <1>6 DEF CannotJudge
  <2> QED BY <1>6, <2>1 DEF Undiscovered
<1>7. CASE ~CannotJudge(b) /\ b.check = "add-on rules"
  <2>1. b \in cutDown /\ b.source = "custom resources"
    BY <1>1, <1>4, <1>7 DEF CannotJudge
  <2>2. CASE b \in unnamed
    BY <2>1, <2>2 DEF Undiscovered
  <2>3. CASE b \in unread
    <3>1. Collected["custom resources"] \in {"partial", "failed"}
      BY <2>1, <2>3 DEF IInv, Sorted
    <3>2. [tier |-> "collector", of |-> "custom resources", state |-> State("custom resources")]
            \in Rows(D, s)
      BY <3>1 DEF Rows, collectorCoverage, Collectors, Optional, Passes
    <3>3. State("custom resources") # "COMPLETE"
      BY <3>1 DEF State
    <3> QED BY <2>1, <3>2, <3>3 DEF Shown
  <2> QED BY <1>4, <2>2, <2>3
<1> QED BY <1>1, <1>5, <1>6, <1>7

LEMMA MissedShows ==
  ASSUME IInv, stage = "assemble", NEW b \in broken, Missed(b),
         NEW D, Declining \subseteq D, NEW s \in BOOLEAN
  PROVE  Elsewhere(b) \/ Undiscovered(b) \/ Shown(b, Rows(D, s))
<1>1. b \in Breaks /\ <<b.check, b.source>> \in Looks
  BY BreaksAssumption DEF IInv, TypeOK
<1>2. ASSUME NEW check \in RowsFor(b), NEW state, state # "COMPLETE", Row(check, state) \in Rows(D, s)
      PROVE  Shown(b, Rows(D, s))
  BY <1>2 DEF Shown, Row
<1>3. b.check \in RowsFor(b)
  BY DEF RowsFor
<1>4. CASE b.check = "removed APIs" /\ b.source = "API scan"
  <2>1. Needs(b) = {}
    BY <1>4, SourceNames DEF Needs, Passes, NodeChecks
  <2>2. b \notin inHand
    BY <2>1 DEF Missed, Judged
  <2>3. Collected["API scan"] # "complete"
    BY <1>4, <2>2 DEF IInv, Whole, WholeRead, Passes, Withheld, Sources, In
  <2>4. State("API scan") # "COMPLETE"
    BY <2>3 DEF State
  <2>5. Row("removed APIs", State("API scan")) \in Rows(D, s)
    BY DEF Rows, ScanRows
  <2> QED BY <1>2, <1>3, <1>4, <2>4, <2>5
<1>5. CASE b.check = "control-plane flags" /\ b.source \in Components
  <2>1. Needs(b) = {}
    BY <1>5, SourceNames DEF Needs, Passes, NodeChecks
  <2>2. b \notin inHand
    BY <2>1 DEF Missed, Judged
  <2>3. ASSUME ~Elsewhere(b)
        PROVE  ~(Read("standalone pods") /\ components # {})
    <3>1. SUFFICES ASSUME Read("standalone pods"), components # {}
                   PROVE  FALSE
      OBVIOUS
    <3>2. b.source \in components
      BY <1>5, <2>3, <3>1 DEF Elsewhere
    <3>3. b \in In({"standalone pods"})
      BY <3>2 DEF In
    <3>4. "standalone pods" \in Sources \ MayBePartial
      BY SourceNames DEF Sources
    <3>5. Collected["standalone pods"] = "complete"
      BY <3>1, <3>4, NeverPartial DEF Read
    <3>6. "standalone pods" \in WholeRead
      BY <3>4 DEF WholeRead, Passes
    <3> QED BY <1>5, <2>2, <3>3, <3>5, <3>6 DEF IInv, Whole, Withheld
  <2>4. ASSUME ~(Read("standalone pods") /\ components # {})
        PROVE  Row("control-plane flags", "UNAVAILABLE") \in Rows(D, s)
    BY <2>4 DEF Rows, ConfigRows
  <2> QED BY <1>2, <1>3, <1>5, <2>3, <2>4
<1>6. CASE b.check = "kubelet configuration" /\ b.source = "kubelet config"
  <2>1. Needs(b) = {"kubelet config"}
    BY <1>6, SourceNames DEF Needs, Passes, NodeChecks
  <2>2. Collected["kubelet config"] # "complete"
    <3>1. SUFFICES ASSUME Collected["kubelet config"] = "complete" PROVE FALSE
      OBVIOUS
    <3>2. b \notin inHand
      BY <2>1, <3>1 DEF Missed, Judged, Read
    <3>3. b \in In({"kubelet config"})
      BY <1>6 DEF In
    <3>4. "kubelet config" \in Sources
      BY SourceNames DEF Sources
    <3> QED BY <1>6, <3>1, <3>2, <3>3, <3>4 DEF IInv, Whole, WholeRead, Passes, Withheld
  <2>3. State("kubelet config") # "COMPLETE"
    BY <2>2 DEF State
  <2>4. Row("kubelet configuration", State("kubelet config")) \in Rows(D, s)
    BY DEF Rows, ConfigRows
  <2> QED BY <1>2, <1>3, <1>6, <2>3, <2>4
<1>7. CASE b.check = "volume plugins" /\ b.source \in {"workloads", "standalone pods", "storage"}
  <2>1. Needs(b) = {b.source}
    BY <1>7, SourceNames DEF Needs, Passes, NodeChecks
  <2>2. ~Read(b.source)
    BY <1>7, <2>1, ReadIsWhole, SourceNames DEF Withheld
  <2>3. \E state \in {"UNAVAILABLE", "PARTIAL"} : PluginRows = {Row("volume plugins", state)}
    <3> DEFINE some == {c \in {"workloads", "standalone pods", "storage"} : Read(c)}
    <3>1. some # {"workloads", "standalone pods", "storage"}
      BY <1>7, <2>2
    <3>2. CASE some = {}
      BY <3>1, <3>2 DEF PluginRows
    <3>3. CASE some # {}
      BY <3>1, <3>3 DEF PluginRows
    <3> QED BY <3>2, <3>3
  <2>4. PluginRows \subseteq Rows(D, s)
    BY DEF Rows
  <2> QED BY <1>2, <1>3, <1>7, <2>3, <2>4
<1>8. CASE b.check \in NodeChecks
  <2>1. \/ b.check = "node status" /\ b.source = "nodes"
        \/ b.check = "metric rules" /\ b.source = "kubelet metrics"
        \/ b.check = "kube-proxy skew" /\ b.source = "workloads"
    BY <1>1, <1>8 DEF Looks, NodeChecks
  <2>2. Needs(b) = {b.source, "nodes"}
    BY <1>8, <2>1, SourceNames DEF Needs, Passes, NodeChecks
  <2>3. CASE ~Read("nodes")
    <3>1. Row("node runtime", "UNAVAILABLE") \in Rows(D, s)
      BY <2>3 DEF Rows, NodeRows
    <3>2. "node runtime" \in RowsFor(b)
      BY <1>8 DEF RowsFor
    <3> QED BY <1>2, <3>1, <3>2
  <2>4. CASE Read("nodes") /\ b.check = "metric rules"
    <3>1. Collected["kubelet metrics"] # "complete"
      <4>1. SUFFICES ASSUME Collected["kubelet metrics"] = "complete" PROVE FALSE
        OBVIOUS
      <4>2. b \notin inHand
        BY <2>1, <2>2, <2>4, <4>1 DEF Missed, Judged, Read
      <4>3. b \in In({"kubelet metrics"})
        BY <2>1, <2>4 DEF In
      <4>4. "kubelet metrics" \in Sources
        BY SourceNames DEF Sources
      <4> QED BY <2>4, <4>1, <4>2, <4>3, <4>4 DEF IInv, Whole, WholeRead, Passes, Withheld
    <3>2. State("kubelet metrics") # "COMPLETE"
      BY <3>1 DEF State
    <3>3. "kubelet metrics" \in wanted
      BY <2>1, <2>4 DEF IInv, Asked, Optional
    <3>4. Row("metric rules", State("kubelet metrics")) \in Rows(D, s)
      BY <2>4, <3>3 DEF Rows, NodeRows
    <3> QED BY <1>2, <1>3, <2>4, <3>2, <3>4
  <2>5. CASE Read("nodes") /\ b.check # "metric rules"
    <3>1. ~Read(b.source)
      <4>1. SUFFICES ASSUME Read(b.source) PROVE FALSE
        OBVIOUS
      <4>2. b.source \in Collectors \ MayBePartial
        BY <2>1, <2>5, SourceNames
      <4>3. Withheld(b)
        BY <2>2, <2>5, <4>1, <4>2, ReadIsWhole
      <4> QED BY <2>1, <4>3 DEF Withheld
    <3>2. b.check = "kube-proxy skew" /\ b.source = "workloads"
      BY <2>1, <2>5, <3>1
    <3>3. Row("kube-proxy skew", "UNAVAILABLE") \in Rows(D, s)
      BY <2>5, <3>1, <3>2 DEF Rows, NodeRows
    <3> QED BY <1>2, <1>3, <3>2, <3>3
  <2> QED BY <2>3, <2>4, <2>5
<1>9. CASE \/ b.check = "disruption budgets" /\ b.source = "disruption budgets"
           \/ b.check = "bare pods" /\ b.source = "standalone pods"
           \/ b.check = "aggregated APIs" /\ b.source = "API services"
  <2>1. Needs(b) = {b.source}
    BY <1>9, SourceNames DEF Needs, Passes, NodeChecks
  <2>2. ~Read(b.source)
    BY <1>9, <2>1, ReadIsWhole, SourceNames DEF Withheld
  <2>3. Row(b.check, ReadState(b.source)) \in Rows(D, s)
    BY <1>9 DEF Rows, PreflightRows
  <2>4. ReadState(b.source) # "COMPLETE"
    BY <2>2 DEF ReadState
  <2> QED BY <1>2, <1>3, <2>3, <2>4
<1>10. CASE b.check = "admission webhooks" /\ b.source = "webhooks"
  <2>1. Needs(b) = {"webhooks"}
    BY <1>10, SourceNames DEF Needs, Passes, NodeChecks
  <2>2. Read("webhooks") => "admission webhooks" \in unchecked
    <3>1. SUFFICES ASSUME Read("webhooks") PROVE "admission webhooks" \in unchecked
      OBVIOUS
    <3>2. b \notin inHand
      BY <2>1, <3>1 DEF Missed, Judged
    <3>3. b \in In({"webhooks"})
      BY <1>10 DEF In
    <3>4. "webhooks" \in Sources
      BY SourceNames DEF Sources
    <3> QED BY <1>10, <3>1, <3>2, <3>3, <3>4 DEF IInv, Whole, WholeRead, Passes, Withheld, Read
  <2>3. WebhookState("webhooks", "admission webhooks") # "COMPLETE"
    BY <2>2 DEF WebhookState, ReadState
  <2>4. Row("admission webhooks", WebhookState("webhooks", "admission webhooks")) \in Rows(D, s)
    BY DEF Rows, PreflightRows
  <2> QED BY <1>2, <1>3, <1>10, <2>3, <2>4
<1>11. CASE b.check = "conversion webhooks" /\ b.source = "CRDs"
  <2>1. Needs(b) = {"CRDs"}
    BY <1>11, SourceNames DEF Needs, Passes, NodeChecks
  <2>2. Read("CRDs") => "conversion webhooks" \in unchecked
    BY <1>11, <2>1, ReadIsWhole, SourceNames DEF Withheld
  <2>3. WebhookState("CRDs", "conversion webhooks") # "COMPLETE"
    BY <2>2 DEF WebhookState, ReadState
  <2>4. Row("conversion webhooks", WebhookState("CRDs", "conversion webhooks")) \in Rows(D, s)
    BY DEF Rows, PreflightRows
  <2> QED BY <1>2, <1>3, <1>11, <2>3, <2>4
<1>12. CASE b.check = "add-on compatibility" /\ b.source = "workloads"
  <2>1. Needs(b) = {"workloads"}
    BY <1>12, SourceNames DEF Needs, Passes, NodeChecks
  <2>2. ~Read("workloads")
    BY <1>12, <2>1, ReadIsWhole, SourceNames DEF Withheld
  <2>3. Row("add-on compatibility", "UNAVAILABLE") \in Rows(D, s)
    BY <2>2 DEF Rows, KindRows, ReadState
  <2> QED BY <1>2, <1>3, <1>12, <2>3
<1>13. CASE b.check = "add-on rules" /\ ~Read("workloads")
  <2>1. Row("add-on compatibility", "UNAVAILABLE") \in Rows(D, s)
    BY <1>13 DEF Rows, KindRows, ReadState
  <2>2. "add-on compatibility" \in RowsFor(b)
    BY <1>13 DEF RowsFor
  <2> QED BY <1>2, <2>1, <2>2
<1>14. CASE b.check = "release notes" \/ (b.check = "add-on rules" /\ Read("workloads"))
  <2>1. CASE b.source \in Passes
    BY <1>14, <2>1, KindShows
  <2>2. CASE b.source \notin Passes
    <3>1. b.source \in {"CRDs", "ingresses", "config maps"}
      BY <1>1, <1>14, <2>2 DEF Looks, Passes
    <3>2. b.source \in Collectors \ MayBePartial
      BY <3>1, BreaksAssumption DEF IInv, TypeOK, Components, MayBePartial, FleetSources
    <3>3. \A c \in Needs(b) : c = b.source \/ Read(c)
      BY <1>14 DEF Needs, Passes, NodeChecks
    <3>4. ~Read(b.source)
      BY <1>14, <3>2, <3>3, ReadIsWhole DEF Withheld
    <3>5. CannotJudge(b)
      BY <3>1, <3>4 DEF CannotJudge
    <3>6. b.check \in D
      BY <1>14, <3>5 DEF Declining, KindChecks
    <3>7. Row(b.check, "UNAVAILABLE") \in Rows(D, s)
      BY <3>6 DEF Rows, KindRows
    <3> QED BY <1>2, <1>3, <3>7
  <2> QED BY <2>1, <2>2
<1> QED BY <1>1, <1>4, <1>5, <1>6, <1>7, <1>8, <1>9, <1>10, <1>11, <1>12, <1>13, <1>14
        DEF Looks, Components, NodeChecks

(* Rows are COMPLETE, PARTIAL or UNAVAILABLE, and a scan is COMPLETE when  *)
(* they all are.                                                           *)
Typed(r) == r.tier \in {"collector", "check"} /\ r.state \in States

LEMMA RowTypes ==
  ASSUME NEW D, NEW s \in BOOLEAN, NEW r \in Rows(D, s)
  PROVE  Typed(r)
<1>0. "COMPLETE" \in States /\ "PARTIAL" \in States /\ "UNAVAILABLE" \in States
  BY DEF States
<1>1. \A c : State(c) \in States /\ ReadState(c) \in States
  BY DEF State, ReadState, States
<1>2. \A c, check : WebhookState(c, check) \in States
  BY <1>1 DEF WebhookState, States
<1>3. \A check : \A state \in States : Typed(Row(check, state))
  BY DEF Row, Typed
<1>4. CASE r \in collectorCoverage
  BY <1>1, <1>4 DEF collectorCoverage, Typed
<1>5. CASE r \in ScanRows(s)
  BY <1>0, <1>1, <1>3, <1>5 DEF ScanRows
<1>6. CASE r \in ConfigRows
  BY <1>0, <1>1, <1>3, <1>6 DEF ConfigRows
<1>7. CASE r \in PluginRows
  <2>1. PICK state : r = Row("volume plugins", state) /\ state \in States
    <3> DEFINE some == {c \in {"workloads", "standalone pods", "storage"} : Read(c)}
    <3>1. CASE some = {"workloads", "standalone pods", "storage"}
      BY <1>7, <3>1 DEF PluginRows, States
    <3>2. CASE some = {}
      BY <1>7, <3>2 DEF PluginRows, States
    <3>3. CASE some # {} /\ some # {"workloads", "standalone pods", "storage"}
      BY <1>7, <3>3 DEF PluginRows, States
    <3> QED BY <3>1, <3>2, <3>3
  <2> QED BY <1>3, <2>1
<1>8. CASE r \in NodeRows
  BY <1>0, <1>1, <1>3, <1>8 DEF NodeRows
<1>9. CASE r \in PreflightRows
  BY <1>1, <1>2, <1>3, <1>9 DEF PreflightRows
<1>10. CASE r \in KindRows(D)
  BY <1>0, <1>1, <1>3, <1>10 DEF KindRows
<1> QED BY <1>4, <1>5, <1>6, <1>7, <1>8, <1>9, <1>10 DEF Rows

LEMMA StatusIs ==
  ASSUME NEW rows, \A r \in rows : r.state \in States
  PROVE  /\ StatusFor(rows) \in {"COMPLETE", "PARTIAL", "INSUFFICIENT_DATA"}
         /\ StatusFor(rows) = "COMPLETE" <=> \A r \in rows : r.state = "COMPLETE"
<1> DEFINE gaps == {r \in rows : r.state \in {"UNAVAILABLE", "PARTIAL"}}
<1>1. CASE gaps = {}
  BY <1>1 DEF StatusFor, States
<1>2. CASE gaps # {} /\ gaps = rows
  BY <1>2 DEF StatusFor
<1>3. CASE gaps # {} /\ gaps # rows
  BY <1>3 DEF StatusFor
<1> QED BY <1>1, <1>2, <1>3

LEMMA CompleteShows ==
  ASSUME IInv, stage = "assemble", NEW D, NEW s \in BOOLEAN,
         StatusFor(Rows(D, s)) = "COMPLETE"
  PROVE  /\ \A c \in Collectors \ (Optional \ wanted) : Collected[c] = "complete"
         /\ Collected["API scan"] = "complete"
         /\ unchecked = {}
         /\ deadline \in {"ahead", "scan", "preflight"}
<1>1. \A r \in Rows(D, s) : r.state = "COMPLETE"
  BY RowTypes, StatusIs DEF Typed
<1>2. \A check, state : Row(check, state) \in Rows(D, s) => state = "COMPLETE"
  BY <1>1 DEF Row
<1>3. \A c : State(c) = "COMPLETE" => Collected[c] = "complete"
  BY DEF State
<1>4. ASSUME NEW c \in Collectors \ (Optional \ wanted)
      PROVE  Collected[c] = "complete"
  <2>1. Collected[c] # "none"
    BY <1>4 DEF IInv, Progress, Collectors, Optional, Passes, AfterCollect, AfterCustom, AfterRules,
                AfterMetrics, AfterPreflight, Stages
  <2>2. [tier |-> "collector", of |-> c, state |-> State(c)] \in Rows(D, s)
    BY <2>1 DEF Rows, collectorCoverage
  <2>3. State(c) = "COMPLETE"
    BY <1>1, <2>2
  <2> QED BY <1>3, <2>3
<1>5. Collected["API scan"] = "complete"
  <2>1. Row("removed APIs", State("API scan")) \in Rows(D, s)
    BY DEF Rows, ScanRows
  <2> QED BY <1>2, <1>3, <2>1
<1>6. unchecked = {}
  <2>1. /\ Row("admission webhooks", WebhookState("webhooks", "admission webhooks")) \in Rows(D, s)
        /\ Row("conversion webhooks", WebhookState("CRDs", "conversion webhooks")) \in Rows(D, s)
    BY DEF Rows, PreflightRows
  <2>2. /\ WebhookState("webhooks", "admission webhooks") = "COMPLETE"
        /\ WebhookState("CRDs", "conversion webhooks") = "COMPLETE"
    BY <1>2, <2>1
  <2>3. "admission webhooks" \notin unchecked /\ "conversion webhooks" \notin unchecked
    BY <2>2 DEF WebhookState, ReadState
  <2> QED BY <2>3 DEF IInv, TypeOK
<1>7. deadline \in {"ahead", "scan", "preflight"}
  <2>1. Collected["webhooks"] # "failed"
    <3>1. "webhooks" \in Collectors \ (Optional \ wanted)
      BY DEF Collectors, Preflight, Optional, Passes
    <3> QED BY <1>4, <3>1
  <2>2. stage \in AfterPreflight
    BY DEF AfterPreflight, AfterMetrics, AfterRules, AfterCustom, AfterCollect, Stages
  <2> QED BY <2>1, <2>2, ReadingIs DEF IInv, Overdue
<1> QED BY <1>4, <1>5, <1>6, <1>7

LEMMA AssembleHolds == ASSUME IInv, Assemble PROVE IInv'
<1>1. PICK D \in SUBSET KindChecks, s \in BOOLEAN :
        Declining \subseteq D /\ Coverage' = Rows(D, s)
  BY DEF Assemble, Rows
<1>2. /\ stage = "assemble" /\ stage' = "print"
      /\ found' = {b \in inHand : Judged(b)} /\ ScanStatus' = StatusFor(Coverage')
      /\ informed' \in BOOLEAN
      /\ UNCHANGED <<input, options, deadline, reading, ending>>
  BY DEF Assemble
<1>3. UNCHANGED <<broken, components, wanted, Collected, unchecked, inHand, unread, unnamed, cutDown>>
  BY <1>2 DEF input, reading, maps
<1>4. \A r \in Coverage' : r.tier \in {"collector", "check"} /\ r.state \in States
  BY <1>1, RowTypes DEF Typed
<1>5. /\ ScanStatus' \in {"COMPLETE", "PARTIAL", "INSUFFICIENT_DATA"}
      /\ ScanStatus' = "COMPLETE" <=> \A r \in Coverage' : r.state = "COMPLETE"
  BY <1>2, <1>4, StatusIs
<1>6. TypeOK'
  <2>1. found' \subseteq broken /\ stage' \in Stages
    BY <1>2 DEF IInv, TypeOK, Stages
  <2> QED BY <1>2, <1>4, <1>5, <2>1 DEF IInv, TypeOK, input, options, reading, maps, ending
<1>7. Progress' /\ PartialOnly' /\ Whole' /\ Sorted' /\ Overdue' /\ Asked'
  <2>1. stage \in AfterPreflight /\ stage' \in AfterPreflight
    BY <1>2 DEF AfterPreflight, AfterMetrics, AfterRules, AfterCustom, AfterCollect, Stages
  <2>2. Progress'
    BY <1>2, <1>3, <2>1 DEF IInv, Progress, AfterMetrics, AfterRules, AfterCustom, AfterPreflight
  <2>3. PartialOnly' /\ Sorted' /\ Overdue' /\ Asked'
    BY <1>2, <1>3, <2>1 DEF IInv, PartialOnly, Sorted, Overdue, Asked
  <2>4. Whole'
    BY <1>3, <2>1 DEF IInv, Whole, WholeRead, Withheld, In
  <2> QED BY <2>2, <2>3, <2>4
<1>8. Settled' /\ ExitTellsAll'
  BY <1>2 DEF IInv, Settled, ExitTellsAll, ending
<1>9. CoverageHonest'
  <2>1. ASSUME NEW b \in broken \ found'
        PROVE  Elsewhere(b)' \/ Undiscovered(b)' \/ Declared(b)'
    <3>1. Missed(b)
      BY <1>2, <2>1 DEF Missed
    <3>2. Elsewhere(b) \/ Undiscovered(b) \/ Shown(b, Rows(D, s))
      BY <1>1, <1>2, <3>1, MissedShows
    <3> QED BY <1>1, <1>3, <3>2 DEF Elsewhere, Undiscovered, Shown, Declared, RowsFor
  <2>2. MissedMeansDeclared'
    BY <1>3, <2>1 DEF MissedMeansDeclared
  <2>3. CompleteMeansAllRead'
    <3>1. SUFFICES ASSUME ScanStatus' = "COMPLETE"
                   PROVE  /\ \A c \in Collectors \ (Optional \ wanted) : Collected[c] = "complete"
                          /\ Collected["API scan"] = "complete"
                          /\ unchecked = {}
                          /\ deadline \in {"ahead", "scan", "preflight"}
      BY <1>2, <1>3 DEF CompleteMeansAllRead
    <3>2. StatusFor(Rows(D, s)) = "COMPLETE"
      BY <1>1, <1>2, <3>1
    <3> QED BY <1>2, <3>2, CompleteShows
  <2> QED BY <2>2, <2>3 DEF CoverageHonest
<1> QED BY <1>6, <1>7, <1>8, <1>9 DEF IInv

-----------------------------------------------------------------------------
(* What a later step leaves alone of the reads stays true of them.         *)
LEMMA ReadingKept ==
  ASSUME IInv, stage \in {"print", "gate", "exited"}, stage' \in {"gate", "exited"},
         UNCHANGED <<input, deadline, reading>>, stage # "exited" \/ stage' = stage
  PROVE  Progress' /\ PartialOnly' /\ Whole' /\ Sorted' /\ Overdue' /\ Asked'
<1>1. UNCHANGED <<broken, components, wanted, deadline, Collected, unchecked, inHand, unread, unnamed,
                  cutDown>>
  BY DEF input, reading, maps
<1>2. PartialOnly' /\ Sorted' /\ Asked'
  BY <1>1 DEF IInv, PartialOnly, Sorted, Asked
<1>3. CASE stage' = "exited"
  <2>1. stage' \notin AfterCollect
    BY <1>3 DEF AfterCollect
  <2>2. Progress' /\ Overdue'
    BY <1>1, <2>1 DEF IInv, Progress, Overdue, AfterPreflight, AfterMetrics, AfterRules, AfterCustom
  <2>3. Whole'
    BY <1>1, <1>3 DEF IInv, Whole, WholeRead, Withheld, In
  <2> QED BY <1>2, <2>2, <2>3
<1>4. CASE stage' = "gate"
  <2>1. /\ stage \in AfterPreflight /\ stage' \in AfterPreflight
        /\ stage \in AfterMetrics /\ stage \in AfterRules /\ stage \in AfterCustom
        /\ stage \in AfterCollect
    BY <1>4 DEF AfterPreflight, AfterMetrics, AfterRules, AfterCustom, AfterCollect, Stages
  <2>2. Progress' /\ Overdue'
    BY <1>1, <1>4, <2>1 DEF IInv, Progress, Overdue
  <2>3. Whole'
    BY <1>1, <2>1 DEF IInv, Whole, WholeRead, Withheld, In
  <2> QED BY <1>2, <2>2, <2>3
<1> QED BY <1>3, <1>4

LEMMA WriteReportHolds == ASSUME IInv, WriteReport PROVE IInv'
<1>1. /\ stage = "print" /\ UNCHANGED <<input, options, deadline, reading, judged, stderr>>
      /\ \/ printed' = TRUE /\ stage' = "gate" /\ exit' = exit
         \/ printed' = FALSE /\ stage' = "exited" /\ exit' = 1
  BY DEF WriteReport
<1>2. stage' \in {"gate", "exited"}
  BY <1>1
<1>3. TypeOK'
  <2>1. stage' \in Stages
    BY <1>2 DEF Stages
  <2>2. exit' \in 0 .. 4
    <3>1. exit' = exit \/ exit' = 1
      BY <1>1
    <3>2. exit \in 0 .. 4
      BY DEF IInv, TypeOK
    <3> QED BY <3>1, <3>2
  <2>3. printed' \in BOOLEAN
    BY <1>1
  <2> QED BY <1>1, <2>1, <2>2, <2>3 DEF IInv, TypeOK, input, options, reading, maps, judged
<1>4. Progress' /\ PartialOnly' /\ Whole' /\ Sorted' /\ Overdue' /\ Asked'
  BY <1>1, <1>2, ReadingKept
<1>5. UNCHANGED <<found, Coverage, ScanStatus>>
  BY <1>1 DEF judged
<1>6. Settled'
  BY <1>1, <1>5 DEF IInv, Settled
<1>7. CoverageHonest'
  <2>1. UNCHANGED <<broken, components, wanted, deadline, Collected, unchecked, unnamed, cutDown>>
    BY <1>1 DEF input, reading, maps
  <2>2. Reported
    BY <1>1 DEF Reported
  <2>3. MissedMeansDeclared'
    BY <1>5, <2>1, <2>2 DEF IInv, CoverageHonest, MissedMeansDeclared, Elsewhere, Undiscovered, Declared
  <2>4. CompleteMeansAllRead'
    BY <1>5, <2>1 DEF IInv, CoverageHonest, CompleteMeansAllRead
  <2> QED BY <2>3, <2>4 DEF CoverageHonest
<1>8. ExitTellsAll'
  BY <1>1 DEF ExitTellsAll
<1> QED BY <1>3, <1>4, <1>6, <1>7, <1>8 DEF IInv

(* The gate trips on exactly what the contract names.                      *)
LEMMA GateTrips ==
  ASSUME NEW threshold \in 0 .. 5
  PROVE  gate(threshold) <=>
           /\ threshold # 0
           /\ \/ threshold = 1 /\ Notes # {}
              \/ \E b \in found : Rank[b.sev] >= threshold
<1>1. Rank["INFO"] = 1
  BY DEF Rank
<1>2. threshold # 0 => (1 >= threshold <=> threshold = 1)
  OBVIOUS
<1> QED BY <1>1, <1>2 DEF gate

LEMMA GateHolds == ASSUME IInv, Gate PROVE IInv'
<1> DEFINE gap == strict' /\ ScanStatus # "COMPLETE"
<1>1. /\ stage = "gate" /\ stage' = "exited"
      /\ strict' \in BOOLEAN /\ failOn' \in 0 .. 5
      /\ stderr' = (IF gap THEN {"unchecked"} ELSE {})
                     \cup (IF gate(failOn') THEN {"findings"} ELSE {})
      /\ exit' = (IF gap \/ gate(failOn') THEN 4 ELSE 0)
      /\ UNCHANGED <<input, deadline, reading, judged, printed>>
  BY ThresholdsAssumption DEF Gate
<1>2. TypeOK'
  <2>1. stage' \in Stages
    BY <1>1 DEF Stages
  <2>2. exit' \in 0 .. 4
    <3>1. exit' = 4 \/ exit' = 0
      BY <1>1
    <3> QED BY <3>1
  <2> QED BY <1>1, <2>1, <2>2 DEF IInv, TypeOK, input, reading, maps, judged
<1>3. Progress' /\ PartialOnly' /\ Whole' /\ Sorted' /\ Overdue' /\ Asked'
  BY <1>1, ReadingKept
<1>4. UNCHANGED <<found, Coverage, ScanStatus>>
  BY <1>1 DEF judged
<1>8. informed' = informed
  BY <1>1 DEF judged
<1>5. Settled'
  BY <1>1 DEF Settled
<1>6. CoverageHonest'
  <2>1. UNCHANGED <<broken, components, wanted, deadline, Collected, unchecked, unnamed, cutDown>>
    BY <1>1 DEF input, reading, maps
  <2>2. Reported
    BY <1>1 DEF Reported
  <2>3. MissedMeansDeclared'
    BY <1>4, <2>1, <2>2 DEF IInv, CoverageHonest, MissedMeansDeclared, Elsewhere, Undiscovered, Declared
  <2>4. CompleteMeansAllRead'
    BY <1>4, <2>1 DEF IInv, CoverageHonest, CompleteMeansAllRead
  <2> QED BY <2>3, <2>4 DEF CoverageHonest
<1>7. ExitTellsAll'
  <2> DEFINE about(g) ==
          \/ /\ g = "findings" /\ failOn' # 0
             /\ \/ failOn' = 1 /\ Notes' # {}
                \/ \E b \in found' : Rank[b.sev] >= failOn'
          \/ g = "unchecked" /\ strict' /\ \E r \in Coverage' : r.state # "COMPLETE"
  <2>1. about("findings") <=> gate(failOn')
    <3>1. Notes' = Notes
      BY <1>4, <1>8 DEF Notes, NotAssessed
    <3> QED BY <1>1, <1>4, <3>1, GateTrips
  <2>2. about("unchecked") <=> gap
    <3>1. ScanStatus = StatusFor(Coverage)
      BY <1>1 DEF IInv, Settled
    <3>2. ScanStatus = "COMPLETE" <=> \A r \in Coverage : r.state = "COMPLETE"
      BY <3>1, StatusIs DEF IInv, TypeOK
    <3> QED BY <1>4, <3>2
  <2>3. printed'
    BY <1>1 DEF IInv, Settled
  <2>4. \A tripped : tripped = {g \in {"findings", "unchecked"} : about(g)} =>
          /\ exit' = 4 => tripped # {} /\ stderr' = tripped
          /\ exit' = 0 => tripped = {}
          /\ exit' \notin {1, 2, 3}
    <3> HIDE DEF about, gap
    <3>1. CASE gap /\ gate(failOn')
      BY <1>1, <2>1, <2>2, <3>1
    <3>2. CASE gap /\ ~gate(failOn')
      BY <1>1, <2>1, <2>2, <3>2
    <3>3. CASE ~gap /\ gate(failOn')
      BY <1>1, <2>1, <2>2, <3>3
    <3>4. CASE ~gap /\ ~gate(failOn')
      BY <1>1, <2>1, <2>2, <3>4
    <3> QED BY <3>1, <3>2, <3>3, <3>4
  <2> QED BY <2>3, <2>4 DEF ExitTellsAll
<1> QED BY <1>2, <1>3, <1>5, <1>6, <1>7 DEF IInv

LEMMA StutterHolds == ASSUME IInv, UNCHANGED vars PROVE IInv'
<1>1. /\ UNCHANGED <<broken, components, wanted, strict, failOn, stage, deadline, Collected,
                     unchecked, inHand, unread, unnamed, cutDown>>
      /\ UNCHANGED <<found, informed, Coverage, ScanStatus, printed, stderr, exit>>
  BY DEF vars, input, options, reading, maps, judged, ending
<1>2. TypeOK'
  BY <1>1 DEF IInv, TypeOK
<1>6. Progress' /\ PartialOnly' /\ Sorted' /\ Overdue' /\ Asked'
  BY <1>1 DEF IInv, Progress, PartialOnly, Sorted, Overdue, Asked
<1>7. Settled'
  <2>1. ScanStatus' = ScanStatus /\ StatusFor(Coverage)' = StatusFor(Coverage)
    BY <1>1 DEF StatusFor
  <2> QED BY <1>1, <2>1 DEF IInv, Settled
<1>3. Whole'
  BY <1>1 DEF IInv, Whole, WholeRead, Withheld, In
<1>4. CoverageHonest'
  BY <1>1 DEF IInv, CoverageHonest, MissedMeansDeclared, CompleteMeansAllRead, Reported, Elsewhere,
              Undiscovered, Declared
<1>5. ExitTellsAll'
  BY <1>1 DEF IInv, ExitTellsAll, Notes, NotAssessed
<1> QED BY <1>2, <1>3, <1>4, <1>5, <1>6, <1>7 DEF IInv

LEMMA StepHolds == ASSUME IInv, [Next]_vars PROVE IInv'
BY ConnectHolds, RefuseHolds, CollectHolds, NotWantedHolds, ReadKindsHolds, ReadMetricsHolds,
   PreflightHolds, ScanHolds, DeadlineHolds, AssembleHolds, WriteReportHolds, GateHolds, StutterHolds
   DEF Next, Exited

LEMMA Inductive == Spec => []IInv
<1>1. IInv /\ [Next]_vars => IInv'
  BY StepHolds
<1> QED BY InitHolds, <1>1, PTL DEF Spec

(* Type correctness.                                                       *)
THEOREM TypeCorrect == Spec => []TypeOK
<1>1. IInv => TypeOK
  BY DEF IInv
<1> QED BY Inductive, <1>1, PTL

(* Whatever the run missed of what the upgrade would break, a row says     *)
(* that it could not look - except for a kind that discovery, answering    *)
(* for some groups only, did not name, which the code takes for one that   *)
(* is not served; and a scan that calls itself complete has a complete row *)
(* of every source the catalog wants, every webhook's backend asked, and   *)
(* the deadline not passed before the last preflight list.                 *)
THEOREM CoverageIsHonest == Spec => []CoverageHonest
<1>1. IInv => CoverageHonest
  BY DEF IInv
<1> QED BY Inductive, <1>1, PTL

(* The exit code and stderr name exactly the gates that tripped.           *)
THEOREM ExitCodeTellsAll == Spec => []ExitTellsAll
<1>1. IInv => ExitTellsAll
  BY DEF IInv
<1> QED BY Inductive, <1>1, PTL
=============================================================================
