---------------------------- MODULE MC_KindReads ----------------------------
(* KindReads for TLC.  Issuer is asked for by an add-on alone, ScaledJob by  *)
(* both tiers (so the second pass may retry it), Pod by a rule alone;        *)
(* Ingress is an add-on kind the typed collectors have already read.         *)
EXTENDS KindReads

MCItems == {"Issuer", "ScaledJob", "Pod", "Ingress"}
MCAddonKinds == {"Issuer", "ScaledJob", "Ingress"}
MCRulePaths == {{}, {"ScaledJob", "Pod"}}
=============================================================================
