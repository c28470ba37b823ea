---------------------------- MODULE MC_RuleTiers ----------------------------
(* One add-on, after ingress-nginx and KEDA, and rules after the shipped    *)
(* ones: a gate on the rule's own kind (Traefik), a gate on another kind    *)
(* (Istio), rules that share a quote (KEDA) or a slug (Argo CD), a name     *)
(* that may not be there, a kube-proxy skew.  Names are capped at two.      *)
EXTENDS RuleTiers, TLC

MCKinds == {"Ingress", "ScaledObject", "ScaledJob", "Deployment",
            "CustomResourceDefinition", "kube-proxy"}

MCFacts == {"annotation", "pathType", "zero", "poll", "selector", "named", "strict", "v1beta1", "readable", "behind"}

MCRecorded == [k \in MCKinds |->
  CASE k = "Ingress" -> {"annotation"}
    [] k = "CustomResourceDefinition" -> {"v1beta1"}
    [] k = "kube-proxy" -> {"readable", "behind"}
    [] OTHER -> {}]

MCDerived == [k \in MCKinds |-> {"annotation", "named"}]

Of(kind, has) == [kind |-> kind, has |-> has]

(* Ingresses that match, open the gate, or both; or one object of some      *)
(* kinds, each with what the rules look for or a part of it.                *)
MCIngresses ==
  { [o \in 1 .. 3 |-> Of("Ingress", IF o = 3 THEN last ELSE first[o])] :
      first \in [1 .. 2 -> {{"annotation"}, {"annotation", "pathType"}}],
      last \in {{"pathType"}, {"annotation", "pathType"}} }

MCScaled ==
  { 1 :> Of("ScaledObject", {"zero", "poll"}) @@ 2 :> Of(k, b) @@ 3 :> Of("Deployment", d)
      @@ 4 :> Of("CustomResourceDefinition", {"v1beta1"}) :
      k \in {"ScaledObject", "ScaledJob"},
      b \in {{"zero"}, {"poll", "selector"}}, d \in {{}, {"named"}} }

MCWidest == Of("ScaledObject", {"zero", "poll", "selector"})

MCMixed ==
  { 1 :> MCWidest @@ 2 :> Of("Deployment", d) @@ 3 :> e :
      d \in {{}, {"named", "strict"}},
      e \in {Of("CustomResourceDefinition", {}), Of("CustomResourceDefinition", {"v1beta1"}),
             Of("kube-proxy", {}), Of("kube-proxy", {"readable", "behind"})} }

MCClusters == MCIngresses \cup MCScaled \cup MCMixed

MCPaths == {[current |-> 35, target |-> 36], [current |-> 0, target |-> 36]}

NoQuestion == [on |-> {}, among |-> "any", fact |-> "any"]

Rule(source, at, rank, slug, quote, on, among, fact) ==
  [source |-> source, does |-> "detects", at |-> at, rank |-> rank, slug |-> slug, quote |-> quote,
   on |-> on, among |-> among, fact |-> fact, scans |-> TRUE, must |-> among # "any",
   gate |-> NoQuestion, hint |-> NoQuestion]

Scaled == {"ScaledObject", "ScaledJob"}

MCNote == <<
  [Rule("addon", 37, 3, "pathmatcher", "q1", {"Ingress"}, "any", "annotation")
     EXCEPT !.gate = [on |-> {"Ingress"}, among |-> "any", fact |-> "pathType"]],
  Rule("addon", 20, 2, "zero", "q2", Scaled, "any", "zero"),
  Rule("kubernetes", 35, 3, "strict", "q3", {"Deployment"}, "named", "strict"),
  Rule("kubernetes", 36, 4, "strict", "q4", {"Deployment"}, "named", "strict"),
  [Rule("kubernetes", 36, 2, "poll", "q2", Scaled, "any", "poll")
     EXCEPT !.gate = [on |-> {"Deployment"}, among |-> "any", fact |-> "named"]],
  Rule("kubernetes", 36, 3, "crd", "q5", {"CustomResourceDefinition"}, "any", "v1beta1"),
  [Rule("always", 0, 4, "skew", "q6", {"kube-proxy"}, "readable", "behind") EXCEPT !.scans = FALSE],
  [Rule("kubernetes", 36, 4, "old API", "q7", {}, "any", "any") EXCEPT !.scans = FALSE],
  [Rule("kubernetes", 36, 2, "read it", "q8", {}, "any", "any")
     EXCEPT !.does = "advises", !.hint = [on |-> {"Deployment"}, among |-> "any", fact |-> "any"]] >>

AddonRow(predicate, on, fact, atLeast, below) ==
  [predicate |-> predicate, on |-> on, fact |-> fact, atLeast |-> atLeast, below |-> below,
   gate |-> NoQuestion]

MCAddonRule ==
  "nginx annotations" :> AddonRow("rows", {"Ingress"}, "annotation", 0, 0)
  @@ "selector" :> [AddonRow("rows", Scaled, "selector", 0, 30)
                     EXCEPT !.gate = [on |-> {"Deployment"}, among |-> "any", fact |-> "named"]]
  @@ "served version" :> AddonRow("crd", {}, "v1beta1", 20, 0)
  @@ "missing CRD" :> AddonRow("crdAbsent", {}, "v1beta1", 0, 0)

(* Every cluster under an ordinary upgrade.  One of them meets every way in *)
(* which an upgrade can differ from that, with an add-on that is not what   *)
(* the first one is, rules the cluster gave away, or kinds that it does not *)
(* serve taken one at a time.                                               *)
Unlike(usual) == IF usual THEN 0 ELSE 1

Stranger == Unlike(installed = 19) + Unlike(matrix) + Unlike(gone = {}) + Unlike(served = MCKinds)
Unusual  == Stranger + Unlike(tag # 0) + Unlike(path.current # 0)

MCWide == 1 :> MCWidest @@ 2 :> Of("Deployment", {"named", "strict"})
          @@ 3 :> Of("CustomResourceDefinition", {"v1beta1"})

MCInit == Init /\ Stranger <= 1 /\ Unusual <= IF cluster = MCWide THEN 2 ELSE 0

MCSpec == MCInit /\ [][Next]_vars
=============================================================================
