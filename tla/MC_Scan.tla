------------------------------ MODULE MC_Scan ------------------------------
(* Scan for TLC, with rows of the shipped catalog: two removals of           *)
(* ResourceClaim, so that one list may answer for both versions and a third  *)
(* version may be all the cluster serves, and a review kind that is never    *)
(* stored.                                                                   *)
EXTENDS Scan

RowOf(k, a, v, n) == [kind |-> k, api |-> a, repl |-> v, removedIn |-> n]

MCRules == {
  RowOf("ResourceClaim", "resource/v1alpha3", "resource/v1", 34),
  RowOf("ResourceClaim", "resource/v1beta1", "resource/v1", 38),
  RowOf("SelfSubjectReview", "authentication/v1beta1", "authentication/v1", 33),
  RowOf("*", "extensions/v1beta1", "none", 22)}

MCTypes == {
  <<"ResourceClaim", "resource/v1alpha3">>, <<"ResourceClaim", "resource/v1beta1">>,
  <<"ResourceClaim", "resource/v1">>,
  <<"SelfSubjectReview", "authentication/v1beta1">>}

Object(k, v, n) == [kind |-> k, by |-> v, page |-> n]

MCObjects == {
  Object("ResourceClaim", "resource/v1alpha3", 1),
  Object("ResourceClaim", "resource/v1beta1", 2)}
=============================================================================
