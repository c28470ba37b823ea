---------------------------- MODULE MC_AddonPath ----------------------------
(***************************************************************************)
(* AddonPath for TLC.  The first matrix is cert-manager's, whose 1.12      *)
(* outlives 1.13; the second mixes lines and patches as karpenter's and    *)
(* ingress-nginx's do; the others publish none, and opted in or out of     *)
(* currency hops.  Rules are stamped with a minor, or with the release that*)
(* first shipped the change on each of any of three lines.                 *)
(***************************************************************************)
EXTENDS AddonPath

Window(v, lo, hi) == [version |-> v, min |-> lo, max |-> hi]
(* One kind per rule, so that no rule's kind is asked for by another. *)
Rule(v, E) == [applies |-> v, introducedIn |-> E, kind |-> <<v, E>>]
Entries(line, patches) == {{}} \cup {{Append(line, p)} : p \in patches}
MCRules ==
  {Rule(<<1, 13>>, {}), Rule(<<1, 14>>, {})} \cup
  {Rule(<<1, 14>>, A \cup B \cup C) :
     A \in Entries(<<1, 12>>, {3, 4}), B \in Entries(<<1, 13>>, {1, 2}),
     C \in Entries(<<1, 14>>, {1, 2})}
Addon(w, c, l) ==
  [windows |-> w, currencyHop |-> c, latest |-> l, rules |-> MCRules,
   notes |-> {<<1, 12, 0>>, <<1, 13, 1>>, <<1, 14, 0>>, <<1, 14, 1>>, <<1, 15, 0>>},
   policy |-> IF c THEN {1} ELSE {}, stale |-> l = <<>>]

MCAddons == {
  Addon(<<Window(<<1, 12>>, 1022, 1032), Window(<<1, 13>>, 1021, 1027),
          Window(<<1, 14>>, 1024, 1031), Window(<<1, 15>>, 1025, 1033)>>, FALSE, <<>>),
  Addon(<<Window(<<1, 14, 1>>, 1029, 0), Window(<<1, 13>>, 1026, 1028),
          Window(<<1, 13, 2>>, 1026, 1030), Window(<<1, 12, 3>>, 0, 1026),
          Window(<<1, 14>>, 0, 0)>>, FALSE, <<>>),
  Addon(<<>>, TRUE, <<1, 14, 1>>),
  Addon(<<>>, FALSE, <<1, 14, 1>>)}

MCTargets == {1027, 1030, 1033}
MCTags == {<<>>, <<3>>, <<1, 12, 3>>, <<1, 13>>, <<1, 13, 0>>, <<1, 13, 2>>, <<1, 14, 0>>}
MCLabels == {<<>>, <<1, 14, 0>>}
=============================================================================
