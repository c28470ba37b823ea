----------------------------- MODULE MC_Grading -----------------------------
(* Two kinds: one whose old version is replaced and whose middle version    *)
(* is only deprecated, and one whose replacement is itself removed.  Names  *)
(* are capped at one.                                                       *)
EXTENDS Grading, TLC

MCApi ==
  [v1beta1 |-> [deprecatedIn |-> 34, removedIn |-> 37, via |-> "v1"],
   v1beta2 |-> [deprecatedIn |-> 37, removedIn |-> 40, via |-> "v1"],
   alpha1  |-> [deprecatedIn |-> 35, removedIn |-> 36, via |-> "alpha2"],
   alpha2  |-> [deprecatedIn |-> 36, removedIn |-> 37, via |-> "alpha2"]]

Wrote(api, day) == [api |-> api, day |-> day]
Remembered(writes, applied) == [writes |-> writes, applied |-> applied]

(* Never old; written and left; rewritten later, on the same day, or no     *)
(* one knows when; rewritten by one writer and not by another; applied from *)
(* an old manifest.                                                         *)
MCRecords ==
  { Remembered({Wrote("v1", 2)}, "v1"),
    Remembered({Wrote("v1beta1", 2)}, ""),
    Remembered({Wrote("v1beta1", 1), Wrote("v1", 2)}, ""),
    Remembered({Wrote("v1beta1", 1), Wrote("v1", 1)}, ""),
    Remembered({Wrote("v1beta1", 0), Wrote("v1", 2)}, ""),
    Remembered({Wrote("v1beta1", 1), Wrote("v1beta1", 3), Wrote("v1", 2)}, ""),
    Remembered({Wrote("v1beta1", 1), Wrote("v1", 2)}, "v1beta1"),
    Remembered({Wrote("alpha1", 1), Wrote("alpha2", 2)}, "") }

MCOtherFindings ==
  { [rule |-> "add-on note", at |-> 0, severity |-> "info",    impact |-> 90, on |-> {}, more |-> FALSE],
    [rule |-> "add-on",  at |-> 0, severity |-> "medium",  impact |-> 90, on |-> {}, more |-> FALSE],
    [rule |-> "breaker", at |-> 0, severity |-> "unknown", impact |-> 0,  on |-> {}, more |-> FALSE] }
=============================================================================
