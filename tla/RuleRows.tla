------------------------------ MODULE RuleRows ------------------------------
(* The objects the rule tiers judge, as the inventory holds them.  A few    *)
(* kinds come from typed collectors, which record what they were written    *)
(* to record.  The rest are listed in two passes: the add-on pass keeps     *)
(* whole objects, the later pass for release-note rules only the keys those *)
(* rules read, of every kind the first pass did not bring.  How the lists   *)
(* themselves go is in KindReads and Collect; here each ends in one step.   *)
(*                                                                          *)
(* An object is a number, its place in the order of names.  What a rule may *)
(* ask about it - a label, an annotation, a value at a key - is a fact.     *)
EXTENDS Naturals, FiniteSets

CONSTANTS
  Kinds,       \* kinds of object some rule asks about
  Facts,       \* what may hold of an object
  Clusters,    \* contents of a cluster: [objects -> [kind, has]]
  Recorded,    \* facts a typed collector records of a kind
  Derived,     \* facts of a kind that every row carries, keys asked for or not
  Asked,       \* kinds the add-on's catalog entry asks for
  Flaky        \* kinds of groups that discovery may not hear from

ASSUME RowsAssumption ==
  /\ \A c \in Clusters :
       /\ IsFiniteSet(DOMAIN c) /\ DOMAIN c \subseteq Nat
       /\ \A o \in DOMAIN c : c[o].kind \in Kinds /\ c[o].has \subseteq Facts
  /\ Recorded \in [Kinds -> SUBSET Facts]
  /\ Derived \in [Kinds -> SUBSET Facts]
  /\ Asked \subseteq Kinds

VARIABLES
  cluster,     \* what is there
  served,      \* kinds the API server serves
  collected,   \* typed collectors that read their list
  CRs,         \* how the rows of a kind were kept, "none" without rows
  CRUnread,    \* kinds a pass could not list
  CRNotServed, \* kinds discovery did not name
  keep,        \* the projection of the second pass
  passRow      \* the coverage row of each pass

inventory == <<collected, CRs, CRUnread, CRNotServed, keep, passRow>>

Passes  == {"custom resources", "rule objects"}
RowStates == {"none", "complete", "partial", "unavailable"}

(* Kinds only a typed collector lists.                                      *)
ByCollector == {"Node", "CustomResourceDefinition", "kube-proxy"}

(* The typed collectors some rule needs; the workload list always.          *)
Collectors ==
  {"workloads"}
  \cup {"nodes"      : k \in Kinds \cap {"Node"}}
  \cup {"crds"       : k \in Kinds \cap {"CustomResourceDefinition"}}
  \cup {"storage"    : k \in Kinds \cap {"StorageClass"}}
  \cup {"ingresses"  : k \in Kinds \cap {"Ingress"}}
  \cup {"configmaps" : k \in Kinds \cap {"ConfigMap"}}

RowsInit ==
  /\ cluster \in Clusters
  /\ served \in {S \in SUBSET Kinds : ByCollector \cap Kinds \subseteq S}
  /\ \A o \in DOMAIN cluster : cluster[o].kind \in served
  /\ collected = {}
  /\ CRs = [k \in Kinds |-> "none"]
  /\ CRUnread = {} /\ CRNotServed = {}
  /\ keep = [k \in Kinds |-> {}]
  /\ passRow = [p \in Passes |-> "none"]

-----------------------------------------------------------------------------
CollectTyped ==
  /\ collected' \in SUBSET Collectors
  /\ UNCHANGED <<cluster, served, CRs, CRUnread, CRNotServed, keep, passRow>>

\* Mutant: a pass that read nothing leaves its row as it was made.
PassStateUnset(named, failed) ==
  IF failed = {} THEN "complete" ELSE IF named # failed THEN "partial" ELSE ""

\* Mutant: one kind read among the wanted makes the pass complete.
PassStateOfAny(named, failed) == IF named # failed \/ failed = {} THEN "complete" ELSE "unavailable"

PassState(named, failed) ==
  IF failed = {} THEN "complete" ELSE IF named = failed THEN "unavailable" ELSE "partial"

(* One pass over the wanted kinds.  Without discovery none is read.         *)
(* Discovery that heard from some groups only is no error: the kinds it     *)
(* names are read, or fail one by one, and the rest are filed as not        *)
(* served, whether the server serves them or not.                           *)
Pass(pass, wanted, how) ==
  \/ /\ wanted = {}
     /\ UNCHANGED <<CRs, CRUnread, CRNotServed, passRow>>
  \/ /\ wanted # {}
     /\ CRUnread' = CRUnread \cup wanted
     /\ passRow' = [passRow EXCEPT ![pass] = "unavailable"]
     /\ UNCHANGED <<CRs, CRNotServed>>
  \/ /\ wanted # {}
     /\ \E silent \in SUBSET Flaky :
        LET named == (wanted \cap served) \ silent IN
        \E failed \in SUBSET named :
          /\ CRs' = [k \in Kinds |-> IF k \in named \ failed THEN how ELSE CRs[k]]
          /\ CRUnread' = CRUnread \cup failed
          /\ CRNotServed' = CRNotServed \cup (wanted \ named)
          /\ passRow' = [passRow EXCEPT ![pass] = PassState(named, failed)]

(* The typed collectors have these already.                                 *)
CollectCustomResources ==
  /\ Pass("custom resources", Asked \ {"Ingress", "ConfigMap", "Secret"}, "full")
  /\ UNCHANGED <<cluster, served, collected, keep>>

(* A kind read in full is not read again; one that could not be read is.    *)
CollectRuleObjects(kinds, keys) ==
  /\ Pass("rule objects", {k \in kinds \ ByCollector : CRs[k] = "none"}, "projected")
  /\ keep' = keys
  /\ UNCHANGED <<cluster, served, collected>>

-----------------------------------------------------------------------------
Readable == {"full", "projected", "typed"}

(* What a row of a kind may tell, by how it was kept.                       *)
Visible(k, how) ==
  IF how = "full" THEN Facts
  ELSE IF how = "projected" THEN Derived[k] \cup keep[k]
  ELSE IF how = "typed" THEN Recorded[k] ELSE {}

(* "any" holds of every object: the question is only whether there is one.  *)
True(o, fact) == fact = "any" \/ fact \in cluster[o].has

Shows(o, fact, how) ==
  fact = "any" \/ fact \in cluster[o].has \cap Visible(cluster[o].kind, how)

ObjectsOf(kinds) == {o \in DOMAIN cluster : cluster[o].kind \in kinds}
=============================================================================
