--------------------------- MODULE AddonPath_proofs ---------------------------
(***************************************************************************)
(* Theorems about AddonPath, for any catalog, any versions and any number  *)
(* of workloads in any order.                                              *)
(***************************************************************************)
EXTENDS AddonPath, SequenceTheorems, FiniteSetTheorems, WellFoundedInduction, TLAPS

(* CompareVersions(a, a) is never below 0. *)
LEMMA LessIrreflexive == ASSUME NEW a \in Version PROVE ~Less(a, a)
BY DEF Less, Component, Version

(* A version read past its end has zeros there. *)
LEMMA ComponentType ==
  ASSUME NEW v \in Version
  PROVE  /\ DOMAIN v \subseteq Nat \ {0}
         /\ \A k : Component(v, k) \in Nat
<1>1. \A k \in DOMAIN v : v[k] \in Nat
  BY DEF Version
<1>2. DOMAIN v = 1 .. Len(v) /\ Len(v) \in Nat
  BY DEF Version
<1> QED BY <1>1, <1>2 DEF Component

(* CompareVersions is transitive, versions of different lengths and those  *)
(* that do not parse included: what the loop discards against an earlier   *)
(* best it would discard against every later one.                          *)
LEMMA LessTransitive ==
  ASSUME NEW a \in Version, NEW b \in Version, NEW c \in Version,
         Less(a, b), Less(b, c)
  PROVE  Less(a, c)
<1>1. b # <<>> /\ c # <<>>
  BY DEF Less
<1>2. CASE a = <<>>
  BY <1>1, <1>2 DEF Less
<1>3. CASE a # <<>>
  <2>1. PICK i \in DOMAIN a \cup DOMAIN b :
          /\ Component(a, i) < Component(b, i)
          /\ \A k \in 1 .. i - 1 : Component(a, k) = Component(b, k)
    BY <1>3 DEF Less
  <2>2. PICK j \in DOMAIN b \cup DOMAIN c :
          /\ Component(b, j) < Component(c, j)
          /\ \A k \in 1 .. j - 1 : Component(b, k) = Component(c, k)
    BY <1>1 DEF Less
  <2>3. /\ i \in Nat \ {0} /\ j \in Nat \ {0}
        /\ \A k \in Nat : /\ Component(a, k) \in Nat
                          /\ Component(b, k) \in Nat
                          /\ Component(c, k) \in Nat
    BY ComponentType
  <2>4. PICK m \in {i, j} : m <= i /\ m <= j
    BY <2>3
  <2>5. \A k \in 1 .. m - 1 : Component(a, k) = Component(c, k)
    BY <2>1, <2>2, <2>3, <2>4
  <2>6. Component(a, m) < Component(c, m)
    <3>1. Component(a, m) <= Component(b, m) /\ Component(b, m) <= Component(c, m)
      BY <2>1, <2>2, <2>3, <2>4
    <3>2. Component(a, m) < Component(b, m) \/ Component(b, m) < Component(c, m)
      BY <2>1, <2>2, <2>4
    <3> QED BY <2>3, <2>4, <3>1, <3>2
  <2>7. m \in DOMAIN c
    BY <2>3, <2>4, <2>6 DEF Component
  <2> QED BY <1>1, <2>5, <2>6, <2>7 DEF Less
<1> QED BY <1>2, <1>3

(* What CompareVersions finds equal: "1.13" and "1.13.0".                  *)
Same(a, b) ==
  /\ a = <<>> <=> b = <<>>
  /\ \A k : Component(a, k) = Component(b, k)

(* A set of numbers that is not empty has a least one. *)
LEMMA LeastNumber ==
  ASSUME NEW S \in SUBSET Nat, S # {}
  PROVE  \E m \in S : \A k \in S : m <= k
<1>1. PICK m \in S : \A k \in S : ~(<<k, m>> \in OpToRel(<, Nat))
  BY NatLessThanWellFounded, WFMin
<1>2. \A k \in S : ~(k < m)
  BY <1>1 DEF OpToRel
<1> QED BY <1>2

(* Two versions compare one way, or the other, or as equals. *)
LEMMA LessCompares ==
  ASSUME NEW a \in Version, NEW b \in Version
  PROVE  Less(a, b) \/ Less(b, a) \/ Same(a, b)
<1>1. CASE a = <<>> \/ b = <<>>
  BY <1>1 DEF Less, Same
<1>2. CASE a # <<>> /\ b # <<>>
  <2> DEFINE D == {k \in DOMAIN a \cup DOMAIN b : Component(a, k) # Component(b, k)}
  <2>1. CASE D = {}
    BY <1>2, <2>1 DEF Same, Component
  <2>2. CASE D # {}
    <3>1. D \in SUBSET Nat
      BY ComponentType
    <3>2. PICK i \in D : \A k \in D : i <= k
      BY <2>2, <3>1, LeastNumber
    <3>3. \A k \in 1 .. i - 1 : Component(a, k) = Component(b, k)
      <4> SUFFICES ASSUME NEW k \in 1 .. i - 1 PROVE Component(a, k) = Component(b, k)
        OBVIOUS
      <4>1. i \in Nat
        BY <3>1
      <4>2. k \notin D
        BY <3>2, <4>1
      <4> QED BY <4>2 DEF Component
    <3>4. Component(a, i) < Component(b, i) \/ Component(b, i) < Component(a, i)
      BY ComponentType
    <3> QED BY <1>2, <3>3, <3>4 DEF Less
  <2> QED BY <2>1, <2>2
<1> QED BY <1>1, <1>2

(* Equals are below and above the same versions. *)
LEMMA SameLess ==
  ASSUME NEW a \in Version, NEW b \in Version, NEW c \in Version, Same(a, b)
  PROVE  /\ Less(a, c) => Less(b, c)
         /\ Less(c, a) => Less(c, b)
<1>0. \A k : /\ Component(a, k) \in Nat /\ Component(b, k) \in Nat /\ Component(c, k) \in Nat
             /\ Component(a, k) = Component(b, k)
  BY ComponentType DEF Same
<1>1. ASSUME Less(a, c) PROVE Less(b, c)
  <2>1. CASE a = <<>>
    BY <1>1, <2>1 DEF Same
  <2>2. CASE a # <<>>
    <3>1. PICK i \in DOMAIN a \cup DOMAIN c :
            /\ Component(a, i) < Component(c, i)
            /\ \A k \in 1 .. i - 1 : Component(a, k) = Component(c, k)
      BY <1>1, <2>2 DEF Less
    <3>2. i \in DOMAIN c
      BY <1>0, <3>1 DEF Component
    <3> QED BY <1>0, <1>1, <3>1, <3>2 DEF Less
  <2> QED BY <2>1, <2>2
<1>2. ASSUME Less(c, a) PROVE Less(c, b)
  <2>1. b # <<>>
    BY <1>2 DEF Same, Less
  <2>2. CASE c = <<>>
    BY <2>1, <2>2 DEF Less
  <2>3. CASE c # <<>>
    <3>1. PICK i \in DOMAIN c \cup DOMAIN a :
            /\ Component(c, i) < Component(a, i)
            /\ \A k \in 1 .. i - 1 : Component(c, k) = Component(a, k)
      BY <1>2, <2>3 DEF Less
    <3>2. i \in DOMAIN b
      BY <1>0, <3>1 DEF Component
    <3> QED BY <1>0, <2>1, <3>1, <3>2 DEF Less
  <2> QED BY <2>2, <2>3
<1> QED BY <1>1, <1>2

(* Between two versions that differ, any third is apart from one of them.  *)
LEMMA LessSplits ==
  ASSUME NEW a \in Version, NEW b \in Version, NEW c \in Version, Less(a, c)
  PROVE  Less(a, b) \/ Less(b, c)
<1>1. CASE Less(b, a)
  BY <1>1, LessTransitive
<1>2. CASE Same(a, b)
  BY <1>2, SameLess
<1> QED BY <1>1, <1>2, LessCompares

(* A finite set that a transitive, irreflexive relation orders has an      *)
(* element that none is below.                                             *)
LEMMA FiniteMinimal ==
  ASSUME NEW S, IsFiniteSet(S), S # {}, NEW R,
         \A x \in S : <<x, x>> \notin R,
         \A x, y, z \in S : <<x, y>> \in R /\ <<y, z>> \in R => <<x, z>> \in R
  PROVE  \E x \in S : \A y \in S : <<y, x>> \notin R
<1> DEFINE Below == [x \in S |-> {y \in S : <<y, x>> \in R}]
           F == {Below[x] : x \in S}
<1>1. IsWellFoundedOn(StrictSubsetOrdering(S), SUBSET S)
  BY FS_StrictSubsetOrderingWellFounded, FS_FiniteSubsetsOfFinite
<1>2. F \subseteq SUBSET S /\ F # {}
  <2>1. \A x \in S : Below[x] \in SUBSET S
    OBVIOUS
  <2>2. F \subseteq SUBSET S
    <3> HIDE DEF Below
    <3> QED BY <2>1
  <2>3. PICK x \in S : TRUE
    OBVIOUS
  <2>4. Below[x] \in F
    <3> HIDE DEF Below
    <3> QED OBVIOUS
  <2> QED BY <2>2, <2>4
<1>3. PICK B \in F : \A A \in F : ~(<<A, B>> \in StrictSubsetOrdering(S))
  <2> HIDE DEF F
  <2> QED BY <1>1, <1>2, WFMin
<1>4. PICK x \in S : B = Below[x]
  OBVIOUS
<1>5. ASSUME NEW y \in S, <<y, x>> \in R PROVE FALSE
  <2>1. Below[y] \subseteq Below[x] /\ y \in Below[x] /\ y \notin Below[y]
    BY <1>5
  <2>2. <<Below[y], Below[x]>> \in StrictSubsetOrdering(S)
    BY <2>1 DEF StrictSubsetOrdering
  <2> QED BY <1>3, <1>4, <2>2
<1> QED BY <1>5

-----------------------------------------------------------------------------
(* The vendor's matrix. *)

(* The rows of a matrix are finitely many, each a version and two minors.  *)
LEMMA WindowType ==
  ASSUME NEW a \in Addons
  PROVE  /\ IsFiniteSet(DOMAIN a.windows) /\ DOMAIN a.windows \subseteq Nat
         /\ a.windows # <<>> <=> DOMAIN a.windows # {}
         /\ \A i \in DOMAIN a.windows :
              /\ a.windows[i].version \in Version /\ IsParseable(a.windows[i].version)
              /\ a.windows[i].version # <<>>
              /\ a.windows[i].min \in Nat /\ a.windows[i].max \in Nat
              /\ \A j \in DOMAIN a.windows : a.windows[i].version = a.windows[j].version => i = j
<1> DEFINE W == [version : Version, min : Nat, max : Nat]
<1>1. a.windows \in Seq(W)
  BY AddonsAssumption
<1>2. Len(a.windows) \in Nat /\ DOMAIN a.windows = 1 .. Len(a.windows)
  BY <1>1, LenProperties
<1>3. IsFiniteSet(DOMAIN a.windows)
  BY <1>2, FS_Interval
<1>4. \A i \in DOMAIN a.windows : a.windows[i] \in W
  <2> HIDE DEF W
  <2> QED BY <1>1, LenProperties
<1>5. \A i \in DOMAIN a.windows : IsParseable(a.windows[i].version)
  BY AddonsAssumption
<1>6. \A i, j \in DOMAIN a.windows : a.windows[i].version = a.windows[j].version => i = j
  BY AddonsAssumption
<1>7. \A v : IsParseable(v) => v # <<>>
  BY DEF IsParseable
<1>8. a.windows # <<>> <=> DOMAIN a.windows # {}
  <2>1. a.windows = <<>> <=> Len(a.windows) = 0
    BY <1>1, EmptySeq
  <2>2. Len(a.windows) = 0 <=> 1 .. Len(a.windows) = {}
    BY <1>2
  <2> QED BY <1>2, <2>1, <2>2
<1> QED BY <1>2, <1>3, <1>4, <1>5, <1>6, <1>7, <1>8

(* minimumCovering finds a row that covers the target, if one does, and no *)
(* other that does is lower.                                               *)
LEMMA LowestCovering ==
  ASSUME NEW a \in Addons, NEW k \in Targets,
         NEW c \in DOMAIN a.windows, Covers(a.windows[c], k)
  PROVE  \E i \in DOMAIN a.windows :
           /\ Covers(a.windows[i], k)
           /\ minimumCovering(a.windows, k) = a.windows[i].version
           /\ \A j \in DOMAIN a.windows :
                Covers(a.windows[j], k) => ~Less(a.windows[j].version, a.windows[i].version)
<1> DEFINE C == {i \in DOMAIN a.windows : Covers(a.windows[i], k)}
           v(i) == a.windows[i].version
           Before(j, i) == Less(v(j), v(i)) \/ (~Less(v(i), v(j)) /\ j < i)
           R == {p \in C \X C : Before(p[1], p[2])}
           Lowest1(i) == \A j \in C \ {i} : ~Less(v(j), v(i)) /\ (j < i => Less(v(i), v(j)))
<1>1. IsFiniteSet(C) /\ C # {} /\ C \subseteq Nat
  BY WindowType, FS_Subset
<1>2. \A i \in C : v(i) \in Version
  BY WindowType
<1>3. \A x \in C : <<x, x>> \notin R
  BY <1>1, <1>2, LessIrreflexive
<1>4. \A x, y, z \in C : Before(x, y) /\ Before(y, z) => Before(x, z)
  <2> SUFFICES ASSUME NEW x \in C, NEW y \in C, NEW z \in C, Before(x, y), Before(y, z)
               PROVE  Before(x, z)
    OBVIOUS
  <2>0. v(x) \in Version /\ v(y) \in Version /\ v(z) \in Version
        /\ x \in Nat /\ y \in Nat /\ z \in Nat
    BY <1>1, <1>2
  <2>1. CASE Less(v(x), v(z))
    BY <2>1
  <2>2. CASE ~Less(v(x), v(z))
    <3>1. ~(Less(v(x), v(y)) /\ Less(v(y), v(z)))
      BY <2>0, <2>2, LessTransitive
    <3>2. Less(v(x), v(y)) => Less(v(z), v(y))
      BY <2>0, <2>2, LessSplits
    <3>3. Less(v(y), v(z)) => Less(v(y), v(x))
      BY <2>0, <2>2, LessSplits
    <3>4. ~Less(v(x), v(y)) /\ ~Less(v(y), v(z)) /\ x < y /\ y < z
      BY <3>1, <3>2, <3>3
    <3>5. ~Less(v(y), v(x)) /\ ~Less(v(z), v(y))
      BY <3>4
    <3>6. ~Less(v(z), v(x))
      BY <2>0, <3>5, LessSplits
    <3>7. x < z
      BY <2>0, <3>4
    <3> QED BY <3>6, <3>7
  <2> QED BY <2>1, <2>2
<1>5. \A x, y, z \in C : <<x, y>> \in R /\ <<y, z>> \in R => <<x, z>> \in R
  <2> HIDE DEF Before, C
  <2> QED BY <1>4
<1>6. PICK i \in C : \A j \in C : <<j, i>> \notin R
  <2> HIDE DEF C, R
  <2> QED BY <1>1, <1>3, <1>5, FiniteMinimal
<1>7. Lowest1(i)
  <2> SUFFICES ASSUME NEW j \in C \ {i}
               PROVE  ~Less(v(j), v(i)) /\ (j < i => Less(v(i), v(j)))
    OBVIOUS
  <2>1. ~Before(j, i)
    BY <1>6
  <2> QED BY <2>1
<1>8. PICK m \in C : Lowest1(m) /\ minimumCovering(a.windows, k) = v(m)
  <2>1. minimumCovering(a.windows, k) = v(CHOOSE n \in C : Lowest1(n))
    BY DEF minimumCovering
  <2>2. (CHOOSE n \in C : Lowest1(n)) \in C /\ Lowest1(CHOOSE n \in C : Lowest1(n))
    <3> HIDE DEF Lowest1, C
    <3> QED BY <1>7
  <2> QED BY <2>1, <2>2
<1>9. \A j \in C : ~Less(v(j), v(m))
  BY <1>2, <1>8, LessIrreflexive
<1> QED BY <1>8, <1>9

(* mostSpecific finds the longest of a version's rows, if it has any. *)
LEMMA LongestRow ==
  ASSUME NEW a \in Addons, NEW v \in Version, Rows(a.windows, v) # {}
  PROVE  \E i \in Rows(a.windows, v) :
           /\ mostSpecific(a.windows, v) = a.windows[i]
           /\ \A j \in Rows(a.windows, v) :
                Len(a.windows[j].version) <= Len(a.windows[i].version)
<1> DEFINE P == Rows(a.windows, v)
           len(i) == Len(a.windows[i].version)
           Short == {Len(v) - len(i) : i \in P}
           Longest(i) == \A j \in P : len(j) <= len(i)
<1>1. \A i \in P : len(i) \in Nat /\ len(i) <= Len(v)
  <2>1. \A i \in P : i \in DOMAIN a.windows /\ IsPrefixOf(a.windows[i].version, v)
    BY DEF Rows
  <2> QED BY <2>1, WindowType DEF IsPrefixOf, Version
<1>2. Len(v) \in Nat
  BY DEF Version
<1>3. \A i \in P : Len(v) - len(i) \in Nat
  <2> HIDE DEF P, len
  <2> QED BY <1>1, <1>2
<1>4. Short \in SUBSET Nat /\ Short # {}
  <2> HIDE DEF len
  <2> QED BY <1>3
<1>5. PICK m \in Short : \A n \in Short : m <= n
  <2> HIDE DEF Short
  <2> QED BY <1>4, LeastNumber
<1>6. PICK i \in P : m = Len(v) - len(i)
  <2> HIDE DEF len
  <2> QED OBVIOUS
<1>7. Longest(i)
  <2> SUFFICES ASSUME NEW j \in P PROVE len(j) <= len(i)
    OBVIOUS
  <2> HIDE DEF len, P
  <2>1. Len(v) - len(i) <= Len(v) - len(j)
    BY <1>5, <1>6
  <2> QED BY <1>1, <1>2, <2>1
<1>8. mostSpecific(a.windows, v) = a.windows[CHOOSE n \in P : Longest(n)]
  BY DEF mostSpecific
<1>9. (CHOOSE n \in P : Longest(n)) \in P /\ Longest(CHOOSE n \in P : Longest(n))
  <2> HIDE DEF Longest, P
  <2> QED BY <1>7
<1> QED BY <1>8, <1>9

(* A row says SUPPORTED of the minors it covers, and of no others.         *)
LEMMA CoveredIsSupported ==
  ASSUME NEW a \in Addons, NEW i \in DOMAIN a.windows, NEW k \in Targets
  PROVE  RowVerdict(a.windows[i], k) = "SUPPORTED" <=> Covers(a.windows[i], k)
<1>1. a.windows[i].min \in Nat /\ a.windows[i].max \in Nat /\ k \in Nat
  BY WindowType, VersionsAssumption
<1> QED BY <1>1 DEF RowVerdict, Covers

(* A catalogued version's own row is its most specific. *)
LEMMA OwnRow ==
  ASSUME NEW a \in Addons, NEW i \in DOMAIN a.windows
  PROVE  /\ Rows(a.windows, a.windows[i].version) # {}
         /\ mostSpecific(a.windows, a.windows[i].version) = a.windows[i]
<1> DEFINE v == a.windows[i].version
<1>0. v \in Version /\ v # <<>> /\ Len(v) \in Nat
  BY WindowType DEF Version
<1>1. IsPrefixOf(v, v)
  BY <1>0 DEF IsPrefixOf
<1>2. i \in Rows(a.windows, v)
  BY <1>1 DEF Rows
<1>3. PICK j \in Rows(a.windows, v) :
        /\ mostSpecific(a.windows, v) = a.windows[j]
        /\ \A n \in Rows(a.windows, v) : Len(a.windows[n].version) <= Len(a.windows[j].version)
  <2> HIDE DEF v
  <2> QED BY <1>0, <1>2, LongestRow
<1> DEFINE u == a.windows[j].version
<1>4. j \in DOMAIN a.windows /\ IsPrefixOf(u, v) /\ u \in Version /\ Len(u) \in Nat
  BY WindowType DEF Rows, Version
<1>5. Len(u) = Len(v) /\ \A n \in DOMAIN u : u[n] = v[n]
  <2>1. Len(v) <= Len(u)
    BY <1>2, <1>3
  <2>2. Len(u) <= Len(v) /\ \A n \in DOMAIN u : u[n] = v[n]
    BY <1>4 DEF IsPrefixOf
  <2> HIDE DEF u, v
  <2> QED BY <1>0, <1>4, <2>1, <2>2
<1>6. u = v
  <2> HIDE DEF u, v
  <2> QED BY <1>0, <1>4, <1>5 DEF Version
<1>7. i = j
  BY <1>4, <1>6, WindowType
<1> QED BY <1>2, <1>3, <1>7

(* A prefix of a version is not above it, nor is what is below that prefix.*)
LEMMA PrefixNotAbove ==
  ASSUME NEW p \in Version, NEW v \in Version, IsPrefixOf(p, v)
  PROVE  ~Less(v, p)
<1> SUFFICES ASSUME Less(v, p) PROVE FALSE
  OBVIOUS
<1>1. v # <<>> /\ p # <<>>
  BY DEF IsPrefixOf, Version
<1>2. PICK i \in DOMAIN v \cup DOMAIN p : Component(v, i) < Component(p, i)
  BY <1>1 DEF Less
<1>3. i \in DOMAIN p
  BY <1>2, ComponentType DEF Component
<1>4. i \in DOMAIN v
  BY <1>3 DEF IsPrefixOf, Version
<1>5. Component(v, i) = Component(p, i)
  BY <1>3, <1>4 DEF Component, IsPrefixOf
<1> QED BY <1>2, <1>5, ComponentType

(* A hop the matrix forces leads from a version the target does not        *)
(* support to the lowest catalogued one it does.                           *)
LEMMA HopIsForced ==
  ASSUME NEW a \in Addons, NEW v \in Version, NEW k \in Targets,
         a.windows # <<>>, forcedHop(a, v, k) # NoHop
  PROVE  /\ evaluateWindows(a.windows, v, k) # "SUPPORTED"
         /\ forcedHop(a, v, k).required = minimumCovering(a.windows, k)
         /\ evaluateWindows(a.windows, minimumCovering(a.windows, k), k) = "SUPPORTED"
<1> DEFINE req == minimumCovering(a.windows, k)
           C == {i \in DOMAIN a.windows : Covers(a.windows[i], k)}
<1>1. forcedHop(a, v, k).required = req /\ IsParseable(v) /\ Less(v, req)
  BY DEF forcedHop
<1>2. PICK c \in DOMAIN a.windows : Covers(a.windows[c], k)
  <2> SUFFICES ASSUME C = {} PROVE FALSE
    OBVIOUS
  <2>1. req = <<>>
    BY DEF minimumCovering
  <2> QED BY <1>1, <2>1 DEF Less
<1>3. PICK m \in DOMAIN a.windows :
        /\ Covers(a.windows[m], k)
        /\ req = a.windows[m].version
        /\ \A j \in DOMAIN a.windows :
             Covers(a.windows[j], k) => ~Less(a.windows[j].version, a.windows[m].version)
  BY <1>2, LowestCovering
<1>4. req \in Version /\ IsParseable(req)
  BY <1>3, WindowType
<1>5. evaluateWindows(a.windows, req, k) = "SUPPORTED"
  BY <1>3, <1>4, OwnRow, CoveredIsSupported DEF evaluateWindows
<1>6. evaluateWindows(a.windows, v, k) # "SUPPORTED"
  <2> SUFFICES ASSUME evaluateWindows(a.windows, v, k) = "SUPPORTED" PROVE FALSE
    OBVIOUS
  <2>1. /\ Rows(a.windows, v) # {}
        /\ RowVerdict(mostSpecific(a.windows, v), k) = "SUPPORTED"
    BY <1>1 DEF evaluateWindows
  <2>2. PICK i \in Rows(a.windows, v) : mostSpecific(a.windows, v) = a.windows[i]
    BY <2>1, LongestRow
  <2> DEFINE p == a.windows[i].version
  <2>3. i \in DOMAIN a.windows /\ IsPrefixOf(p, v) /\ p \in Version
    BY WindowType DEF Rows
  <2>4. Covers(a.windows[i], k)
    BY <2>1, <2>2, <2>3, CoveredIsSupported
  <2>5. ~Less(p, req) /\ ~Less(v, p)
    BY <1>3, <2>3, <2>4, PrefixNotAbove
  <2> HIDE DEF p, req
  <2> QED BY <1>1, <1>4, <2>3, <2>5, LessSplits
<1> QED BY <1>1, <1>5, <1>6

-----------------------------------------------------------------------------
(* A workload's version is one of its image's or its label's, or none. *)
LEMMA VersionOfType ==
  ASSUME NEW w \in Workload
  PROVE  /\ VersionOf(w) \in Version
         /\ VersionOf(w) = <<>> \/ (VersionOf(w) \in Tags \cup Labels /\ IsParseable(VersionOf(w)))
<1>1. w.tag \in Tags \cup {<<>>} /\ w.label \in Labels \cup {<<>>}
  BY DEF Workload
<1>2. <<>> \in Version
  BY DEF Version
<1>3. CASE IsParseable(w.tag)
  <2>1. VersionOf(w) = w.tag
    BY <1>3 DEF VersionOf
  <2>2. w.tag # <<>>
    BY <1>3 DEF IsParseable
  <2> QED BY <1>1, <1>3, <2>1, <2>2, VersionsAssumption
<1>4. CASE ~IsParseable(w.tag) /\ IsParseable(w.label)
  <2>1. VersionOf(w) = w.label
    BY <1>4 DEF VersionOf
  <2>2. w.label # <<>>
    BY <1>4 DEF IsParseable
  <2> QED BY <1>1, <1>4, <2>1, <2>2, VersionsAssumption
<1>5. CASE ~IsParseable(w.tag) /\ ~IsParseable(w.label)
  BY <1>2, <1>5 DEF VersionOf
<1> QED BY <1>3, <1>4, <1>5

(* A hop starts at the version it is resolved for and goes up from it. *)
LEMMA HopGoesUp ==
  ASSUME NEW a \in Addons, NEW v \in Version, NEW k \in Targets,
         forcedHop(a, v, k) # NoHop
  PROVE  /\ forcedHop(a, v, k).installed = v
         /\ Less(v, forcedHop(a, v, k).required)
<1>1. CASE a.windows = <<>>
  BY <1>1 DEF forcedHop, AtOrPast
<1>2. CASE a.windows # <<>>
  BY <1>2 DEF forcedHop
<1> QED BY <1>1, <1>2

-----------------------------------------------------------------------------
(* Every variable of the add-on path keeps its type; in particular a hop,  *)
(* once resolved, starts at the version detected and goes up from it.      *)
THEOREM TypeCorrect == Spec => []TypeOK
<1>1. Init => TypeOK
  <2> SUFFICES ASSUME Init PROVE TypeOK
    OBVIOUS
  <2>1. PICK n \in 0 .. MaxWorkloads : workloads \in [1 .. n -> Workload]
    BY DEF Init
  <2>2. n \in Nat /\ n <= MaxWorkloads
    BY VersionsAssumption
  <2>3. workloads \in Seq(Workload)
    BY <2>1, <2>2, SeqDef
  <2>4. Len(workloads) = n /\ DOMAIN workloads = 1 .. n
    BY <2>1, <2>2, <2>3, LenProperties
  <2>5. /\ workloads \in Seq(Workload) /\ Len(workloads) <= MaxWorkloads
        /\ 1 \in 1 .. Len(workloads) + 1
    BY <2>2, <2>3, <2>4
  <2> QED BY <2>5 DEF Init, TypeOK, Verdicts, NoStatus
<1>2. TypeOK /\ [Next]_vars => TypeOK'
  <2> SUFFICES ASSUME TypeOK, [Next]_vars PROVE TypeOK'
    OBVIOUS
  <2> USE DEF TypeOK
  <2>0. version \in Version /\ Len(workloads) \in Nat /\ DOMAIN workloads = 1 .. Len(workloads)
    <3>1. <<>> \in Version
      BY DEF Version
    <3>2. workloads \in Seq(Workload)
      OBVIOUS
    <3> QED BY <3>1, <3>2, VersionsAssumption, LenProperties
  <2>1. Resolved = NoHop \/ (Resolved.installed = version /\ Less(version, Resolved.required))
    BY <2>0, HopGoesUp DEF Resolved
  <2>2. CASE Visit
    <3>1. /\ Detecting /\ next <= Len(workloads)
          /\ next' = next + 1
          /\ UNCHANGED <<addon, target, workloads, listed, stage, hop, asked, verdict, status, row, selected>>
      BY <2>2 DEF Visit, input, report
    <3>2. workloads[next] \in Workload
      BY <2>0, <3>1
    <3>3. version' = <<>> \/ (version' \in Tags \cup Labels /\ IsParseable(version'))
      BY <2>2, <3>2, VersionOfType DEF Visit, Lowest
    <3>4. present' \in BOOLEAN
      BY <2>2, <3>2 DEF Visit, Workload
    <3>5. hop' = NoHop
      BY <3>1 DEF Detecting
    <3>6. next' \in 1 .. Len(workloads') + 1
      BY <2>0, <3>1
    <3> QED BY <3>1, <3>3, <3>4, <3>5, <3>6
  <2>3. CASE Hops
    BY <2>1, <2>3 DEF Hops, input, loop, report
  <2>4. CASE Wants
    <3>1. asked' \subseteq {r.kind : r \in addon.rules}
      BY <2>4 DEF Wants, onPath
    <3>2. /\ UNCHANGED <<addon, target, workloads, listed, verdict, status, row, selected>>
          /\ stage' = "analyze" /\ next' = 1 /\ present' = FALSE
          /\ version' = <<>> /\ hop' = NoHop
      BY <2>4 DEF Wants, input, report
    <3>3. 1 \in 1 .. Len(workloads') + 1
      BY <2>0, <3>2
    <3>4. asked' \subseteq {r.kind : r \in addon'.rules}
      BY <3>1, <3>2
    <3> QED BY <3>2, <3>3, <3>4
  <2>5. CASE Analyze
    <3>1. /\ UNCHANGED <<addon, target, workloads, listed, next, present, version, asked, selected>>
          /\ stage' = "select" /\ hop' = Resolved
      BY <2>5 DEF Analyze, input, loop
    <3>2. evaluateWindows(addon.windows, version, target) \in Verdicts
      <4>1. \A w, k : RowVerdict(w, k) \in Verdicts
        BY DEF RowVerdict, Verdicts
      <4> QED BY <4>1 DEF evaluateWindows, Verdicts
    <3>3. verdict' \in Verdicts
      BY <2>5, <3>2 DEF Analyze, Verdicts
    <3>4. /\ SupportFindings(addon, version, target)
               \subseteq [rule : {"support", "outside-vendor-support"},
                          severity : {"high", "medium", "info"}]
          /\ notesOnPath(addon, version) \subseteq addon.notes
      BY DEF SupportFindings, Finding, notesOnPath
    <3>5. /\ status'.notes \subseteq addon.notes
          /\ status'.findings \subseteq [rule : {"support", "outside-vendor-support"},
                                         severity : {"high", "medium", "info"}]
          /\ row' \in {"none", "complete", "partial", "unavailable"}
      BY <2>5, <3>4 DEF Analyze, NoStatus
    <3> QED BY <2>1, <3>1, <3>3, <3>5
  <2>6. CASE Select
    BY <2>6 DEF Select, onPath, input, loop
  <2>7. CASE Done \/ UNCHANGED vars
    BY <2>7 DEF Done, vars, input, loop, report
  <2> QED BY <2>2, <2>3, <2>4, <2>5, <2>6, <2>7 DEF Next
<1> QED BY <1>1, <1>2, PTL DEF Spec

(* The version an add-on is judged by is the lowest readable one among the *)
(* workloads the loop has passed, in any list and any order, on both       *)
(* occasions it runs.  The loop keeps nothing but its best, so the step    *)
(* that replaces it needs transitivity for what was passed before.         *)
THEOREM LowestReadable == Spec => []LowestReadableWins
<1>1. Init => LowestReadableWins
  BY DEF Init, LowestReadableWins
<1>2. TypeOK /\ LowestReadableWins /\ [Next]_vars => LowestReadableWins'
  <2> SUFFICES ASSUME TypeOK, LowestReadableWins, [Next]_vars PROVE LowestReadableWins'
    OBVIOUS
  <2>1. CASE Visit
    <3> DEFINE w == workloads[next]
    <3>1. /\ UNCHANGED workloads
          /\ next' = next + 1 /\ next \in Nat \ {0} /\ next \in DOMAIN workloads
          /\ present' = (present \/ w.image)
          /\ version' = IF w.image /\ VersionOf(w) # <<>> THEN Lowest(VersionOf(w)) ELSE version
      BY <2>1, LenProperties DEF Visit, TypeOK, input
    <3>2. \A n \in DOMAIN workloads : workloads[n] \in Workload /\ VersionOf(workloads[n]) \in Version
      BY LenProperties, VersionOfType DEF TypeOK
    <3>3. version \in Version /\ version' \in Version
      <4>1. <<>> \in Version
        BY DEF Version
      <4>2. version \in Version
        BY <4>1, VersionsAssumption DEF TypeOK
      <4> QED BY <3>1, <3>2, <4>2 DEF Lowest
    <3>4. /\ next \in 1 .. next' - 1
          /\ \A n \in 1 .. next - 1 : n \in 1 .. next' - 1
          /\ \A n \in 1 .. next' - 1 : n = next \/ n \in 1 .. next - 1
      BY <3>1
    <3>5. version # <<>> => version' # <<>> /\ ~Less(version, version')
      BY <3>1, <3>2, <3>3, LessIrreflexive, LessTransitive DEF Lowest
    <3>6. \A n \in 1 .. next' - 1 : Matching(n) =>
             /\ present'
             /\ VersionOf(workloads[n]) # <<>> =>
                  version' # <<>> /\ ~Less(VersionOf(workloads[n]), version')
      <4> SUFFICES ASSUME NEW n \in 1 .. next' - 1, Matching(n)
                   PROVE  /\ present'
                          /\ VersionOf(workloads[n]) # <<>> =>
                               version' # <<>> /\ ~Less(VersionOf(workloads[n]), version')
        OBVIOUS
      <4>1. CASE n = next
        BY <3>1, <3>2, <3>3, <4>1, LessIrreflexive, LessTransitive DEF Lowest, Matching
      <4>2. CASE n \in 1 .. next - 1
        <5>1. /\ present
              /\ VersionOf(workloads[n]) # <<>> =>
                   version # <<>> /\ ~Less(VersionOf(workloads[n]), version)
          BY <4>2 DEF LowestReadableWins
        <5>2. version' = version \/ Less(version', version) \/ version = <<>>
          BY <3>1 DEF Lowest
        <5> QED BY <3>1, <3>2, <3>3, <3>5, <5>1, <5>2, LessTransitive DEF Matching
      <4> QED BY <3>4, <4>1, <4>2
    <3>7. present' => \E n \in 1 .. next' - 1 : Matching(n)
      BY <3>1, <3>4 DEF LowestReadableWins, Matching
    <3>8. version' # <<>> =>
            \E n \in 1 .. next' - 1 : Matching(n) /\ VersionOf(workloads[n]) = version'
      BY <3>1, <3>4 DEF LowestReadableWins, Lowest, Matching
    <3> QED BY <3>1, <3>6, <3>7, <3>8 DEF LowestReadableWins, Matching
  <2>2. CASE Wants
    BY <2>2 DEF Wants, LowestReadableWins
  <2>3. CASE Hops \/ Analyze \/ Select \/ Done \/ UNCHANGED vars
    <3>1. UNCHANGED <<workloads, next, present, version>>
      BY <2>3 DEF Hops, Analyze, Select, Done, vars, input, loop
    <3> QED BY <3>1 DEF LowestReadableWins, Matching
  <2> QED BY <2>1, <2>2, <2>3 DEF Next
<1> QED BY <1>1, <1>2, TypeCorrect, PTL DEF Spec

-----------------------------------------------------------------------------
(* The status Analyze writes, of the version detect came to. *)
StatusOf ==
  IF listed /\ present
    THEN [fix |-> minimumFix(addon.windows, version, target),
          notes |-> notesOnPath(addon, version),
          findings |-> SupportFindings(addon, version, target)]
    ELSE NoStatus

(* The hop and the status are those of the version the loop came to, and   *)
(* no version comes of a list that was not read.                           *)
HopInv ==
  /\ ~listed => ~present
  /\ stage \in {"wants", "select", "done"} => hop = Resolved
  /\ stage \in {"select", "done"} => status = StatusOf

THEOREM HopFollows == Spec => []HopInv
<1>1. Init => HopInv
  BY DEF Init, HopInv
<1>2. HopInv /\ [Next]_vars => HopInv'
  <2> SUFFICES ASSUME HopInv, [Next]_vars PROVE HopInv'
    OBVIOUS
  <2>1. CASE Visit
    BY <2>1 DEF Visit, Detecting, HopInv, input
  <2>2. CASE Hops
    BY <2>2 DEF Hops, HopInv, Resolved, input, loop
  <2>3. CASE Wants
    BY <2>3 DEF Wants, HopInv, input
  <2>4. CASE Analyze
    BY <2>4 DEF Analyze, HopInv, Resolved, StatusOf, input, loop
  <2>5. CASE Select
    BY <2>5 DEF Select, HopInv, Resolved, StatusOf, input, loop
  <2>6. CASE Done \/ UNCHANGED vars
    BY <2>6 DEF Done, HopInv, Resolved, StatusOf, vars, input, loop, report
  <2> QED BY <2>1, <2>2, <2>3, <2>4, <2>5, <2>6 DEF Next
<1> QED BY <1>1, <1>2, PTL DEF Spec

(* A fix is only ever named by a matrix, and is its lowest covering row.   *)
LEMMA FixIsCovering ==
  ASSUME NEW w, NEW v, NEW k, minimumFix(w, v, k) # <<>>
  PROVE  w # <<>> /\ IsParseable(v) /\ minimumFix(w, v, k) = minimumCovering(w, k)
<1>1. CASE w = <<>>
  BY <1>1 DEF minimumFix, evaluateWindows
<1>2. CASE w # <<>>
  BY <1>2 DEF minimumFix, evaluateWindows
<1> QED BY <1>1, <1>2

(* For any catalog: a hop is forced only on an add-on the target does not  *)
(* support, it goes up, what it arrives at is supported, it is where the   *)
(* report sends the reader when that is up, and a finding speaks of it.    *)
THEOREM HopArrives == Spec => []HopReachesTarget
<1>1. TypeOK /\ HopInv => HopReachesTarget
  <2> SUFFICES ASSUME TypeOK, HopInv PROVE HopReachesTarget
    OBVIOUS
  <2>0. version \in Version /\ addon \in Addons /\ target \in Targets
    <3>1. <<>> \in Version
      BY DEF Version
    <3> QED BY <3>1, VersionsAssumption DEF TypeOK
  <2> DEFINE F == forcedHop(addon, version, target)
  <2>1. hop # NoHop => /\ present /\ listed /\ hop = F
                       /\ hop.installed = version /\ Less(version, hop.required)
    BY DEF TypeOK, HopInv, Resolved
  <2>2. hop # NoHop /\ addon.windows # <<>> =>
          /\ evaluateWindows(addon.windows, hop.installed, target) # "SUPPORTED"
          /\ Less(hop.installed, hop.required)
          /\ evaluateWindows(addon.windows, hop.required, target) = "SUPPORTED"
    BY <2>0, <2>1, HopIsForced
  <2>3. ASSUME stage = "done", Less(version, status.fix) PROVE hop.required = status.fix
    <3>1. status.fix # <<>>
      BY <2>3 DEF Less
    <3>2. /\ listed /\ present
          /\ status.fix = minimumFix(addon.windows, version, target)
      BY <2>3, <3>1 DEF HopInv, StatusOf, NoStatus
    <3>3. /\ addon.windows # <<>> /\ IsParseable(version)
          /\ status.fix = minimumCovering(addon.windows, target)
      BY <3>1, <3>2, FixIsCovering
    <3>4. hop = F
      BY <2>3, <3>2 DEF HopInv, Resolved
    <3> QED BY <2>3, <3>3, <3>4 DEF forcedHop
  <2>4. ASSUME stage = "done", hop # NoHop
        PROVE  \E f \in status.findings : f.rule = "support"
    <3>1. evaluateWindows(addon.windows, version, target) # "SUPPORTED"
      <4>1. CASE addon.windows = <<>>
        BY <4>1 DEF evaluateWindows
      <4>2. CASE addon.windows # <<>>
        BY <2>1, <2>2, <2>4, <4>2
      <4> QED BY <4>1, <4>2
    <3>2. status.findings = SupportFindings(addon, version, target)
      BY <2>1, <2>4 DEF HopInv, StatusOf
    <3>3. \E f \in SupportFindings(addon, version, target) : f.rule = "support"
      <4> DEFINE f == Finding("support", IF evaluateWindows(addon.windows, version, target)
                                              \in {"ABOVE_MAX", "BELOW_MIN"} THEN "high" ELSE "info")
      <4>1. f \in SupportFindings(addon, version, target)
        <5> HIDE DEF f
        <5>1. f \in {f}
          OBVIOUS
        <5> QED BY <3>1, <5>1 DEF SupportFindings, f
      <4>2. f.rule = "support"
        BY DEF Finding
      <4> QED BY <4>1, <4>2
    <3> QED BY <3>2, <3>3
  <2> QED BY <2>2, <2>3, <2>4 DEF HopReachesTarget
<1> QED BY <1>1, TypeCorrect, HopFollows, PTL

-----------------------------------------------------------------------------
(* What detect's loop comes to: the first among the lowest readable        *)
(* versions of the workloads before n, which a list in a given order       *)
(* leaves no choice about.                                                 *)
Readable(m) == Matching(m) /\ VersionOf(workloads[m]) # <<>>

FirstLowest(v, n) ==
  \E m \in 1 .. n - 1 :
    /\ Readable(m) /\ VersionOf(workloads[m]) = v
    /\ \A l \in 1 .. n - 1 : Readable(l) =>
         /\ ~Less(VersionOf(workloads[l]), v)
         /\ l < m => Less(v, VersionOf(workloads[l]))

BestOf(v, p, n) ==
  /\ p <=> \E m \in 1 .. n - 1 : Matching(m)
  /\ v = <<>> => \A m \in 1 .. n - 1 : ~Readable(m)
  /\ v # <<>> => FirstLowest(v, n)

Found(v, p) == IF listed THEN BestOf(v, p, Len(workloads) + 1) ELSE v = <<>> /\ ~p

(* The kinds asked for are those of the hop of whatever a whole loop finds.*)
AskedFor(v, p) ==
  asked = {r.kind : r \in onPath(addon, IF p THEN forcedHop(addon, v, target) ELSE NoHop)}

PathInv ==
  /\ IF listed THEN BestOf(version, present, next) ELSE version = <<>> /\ ~present
  /\ stage \in {"wants", "select", "done"} /\ listed => next = Len(workloads) + 1
  /\ stage \in {"analyze", "select", "done"} =>
       \A v \in Tags \cup Labels \cup {<<>>}, p \in BOOLEAN : Found(v, p) => AskedFor(v, p)
  /\ stage = "done" => selected = onPath(addon, hop)

LEMMA VersionTyped ==
  ASSUME TypeOK
  PROVE  /\ version \in Tags \cup Labels \cup {<<>>} /\ Tags \cup Labels \cup {<<>>} \subseteq Version
         /\ Len(workloads) \in Nat /\ DOMAIN workloads = 1 .. Len(workloads)
         /\ next \in Nat \ {0} /\ next <= Len(workloads) + 1
         /\ \A m \in DOMAIN workloads :
              workloads[m] \in Workload /\ VersionOf(workloads[m]) \in Version
         /\ \A m \in Nat : Matching(m) => m \in DOMAIN workloads
<1>1. <<>> \in Version
  BY DEF Version
<1>2. Len(workloads) \in Nat /\ DOMAIN workloads = 1 .. Len(workloads)
  BY LenProperties DEF TypeOK
<1>3. \A m \in DOMAIN workloads : workloads[m] \in Workload
  BY LenProperties DEF TypeOK
<1>4. next \in Nat \ {0} /\ next <= Len(workloads) + 1
  BY <1>2 DEF TypeOK
<1>5. version \in Tags \cup Labels \cup {<<>>}
  BY DEF TypeOK
<1> QED BY <1>1, <1>2, <1>3, <1>4, <1>5, VersionOfType, VersionsAssumption DEF Matching

(* Two runs of the loop over the same list find the same version.          *)
LEMMA BestUnique ==
  ASSUME TypeOK, NEW v, NEW u, NEW p \in BOOLEAN, NEW q \in BOOLEAN,
         NEW n \in Nat, BestOf(v, p, n), BestOf(u, q, n)
  PROVE  v = u /\ p = q
<1>1. p = q
  BY DEF BestOf
<1>2. CASE v = <<>> \/ u = <<>>
  BY <1>2 DEF BestOf, FirstLowest, Readable
<1>3. CASE v # <<>> /\ u # <<>>
  <2>1. PICK m \in 1 .. n - 1 :
          /\ Readable(m) /\ VersionOf(workloads[m]) = v
          /\ \A l \in 1 .. n - 1 : Readable(l) =>
               /\ ~Less(VersionOf(workloads[l]), v)
               /\ l < m => Less(v, VersionOf(workloads[l]))
    BY <1>3 DEF BestOf, FirstLowest
  <2>2. PICK k \in 1 .. n - 1 :
          /\ Readable(k) /\ VersionOf(workloads[k]) = u
          /\ \A l \in 1 .. n - 1 : Readable(l) =>
               /\ ~Less(VersionOf(workloads[l]), u)
               /\ l < k => Less(u, VersionOf(workloads[l]))
    BY <1>3 DEF BestOf, FirstLowest
  <2>3. ~(m < k) /\ ~(k < m)
    BY <2>1, <2>2
  <2>4. m = k
    BY <2>3
  <2> QED BY <1>1, <2>1, <2>2, <2>4
<1> QED BY <1>1, <1>2, <1>3

(* One more workload: the best so far stays, or is strictly above it.      *)
LEMMA BestStep ==
  ASSUME TypeOK, listed, BestOf(version, present, next), Visit
  PROVE  BestOf(version', present', next')
<1> DEFINE w == workloads[next]
           new == VersionOf(w)
<1>1. /\ next \in DOMAIN workloads /\ next \in Nat \ {0} /\ next' = next + 1
      /\ present' = (present \/ w.image)
      /\ version' = IF w.image /\ new # <<>> THEN Lowest(new) ELSE version
  BY VersionTyped DEF Visit
<1>2. /\ next \in 1 .. next' - 1
      /\ \A m \in 1 .. next - 1 : m \in 1 .. next' - 1 /\ m < next
      /\ \A m \in 1 .. next' - 1 : m = next \/ m \in 1 .. next - 1
  BY <1>1
<1>3. version \in Version /\ new \in Version
  BY <1>1, VersionTyped
<1>4. Readable(next) <=> w.image /\ new # <<>>
  BY <1>1 DEF Readable, Matching
<1>5. \A l \in 1 .. next - 1 : Readable(l) => VersionOf(workloads[l]) \in Version
  BY VersionTyped DEF Readable
<1>6. present' <=> \E m \in 1 .. next' - 1 : Matching(m)
  <2>1. Matching(next) <=> w.image
    BY <1>1 DEF Matching
  <2>2. present \in BOOLEAN /\ w.image \in BOOLEAN
    BY <1>1, VersionTyped DEF TypeOK, Workload
  <2>3. present <=> \E m \in 1 .. next - 1 : Matching(m)
    BY DEF BestOf
  <2> QED BY <1>1, <1>2, <2>1, <2>2, <2>3
<1>7. version' = <<>> => \A m \in 1 .. next' - 1 : ~Readable(m)
  BY <1>1, <1>2, <1>4 DEF BestOf, Lowest
<1>8. version' # <<>> => FirstLowest(version', next')
  <2> SUFFICES ASSUME version' # <<>> PROVE FirstLowest(version', next')
    OBVIOUS
  <2>1. CASE version' = version /\ version # <<>>
    <3>1. PICK m \in 1 .. next - 1 :
            /\ Readable(m) /\ VersionOf(workloads[m]) = version
            /\ \A l \in 1 .. next - 1 : Readable(l) =>
                 /\ ~Less(VersionOf(workloads[l]), version)
                 /\ l < m => Less(version, VersionOf(workloads[l]))
      BY <2>1 DEF BestOf, FirstLowest
    <3>2. Readable(next) => ~Less(new, version)
      <4> SUFFICES ASSUME Readable(next), Less(new, version) PROVE FALSE
        OBVIOUS
      <4>1. version' = new
        BY <1>1, <1>4 DEF Lowest
      <4> QED BY <1>3, <2>1, <4>1, LessIrreflexive
    <3>3. ~(next < m) /\ m \in 1 .. next' - 1
      BY <1>1, <1>2
    <3>4. \A l \in 1 .. next' - 1 : Readable(l) =>
            /\ ~Less(VersionOf(workloads[l]), version)
            /\ l < m => Less(version, VersionOf(workloads[l]))
      BY <1>2, <3>1, <3>2, <3>3
    <3> QED BY <2>1, <3>1, <3>3, <3>4 DEF FirstLowest
  <2>2. CASE ~(version' = version /\ version # <<>>)
    <3>1. Readable(next) /\ version' = new
      BY <1>1, <1>4, <2>2 DEF Lowest
    <3>2. version = <<>> \/ Less(new, version)
      BY <1>1, <1>4, <2>2, <3>1 DEF Lowest
    <3>3. \A l \in 1 .. next - 1 : Readable(l) => Less(new, VersionOf(workloads[l]))
      <4> SUFFICES ASSUME NEW l \in 1 .. next - 1, Readable(l)
                   PROVE  Less(new, VersionOf(workloads[l]))
        OBVIOUS
      <4>1. version # <<>>
        BY DEF BestOf
      <4>2. ~Less(VersionOf(workloads[l]), version)
        BY <4>1 DEF BestOf, FirstLowest
      <4> HIDE DEF new
      <4> QED BY <1>3, <1>5, <3>2, <4>1, <4>2, LessSplits
    <3>4. \A l \in 1 .. next - 1 : Readable(l) => ~Less(VersionOf(workloads[l]), new)
      <4> HIDE DEF new
      <4> QED BY <1>3, <1>5, <3>3, LessIrreflexive, LessTransitive
    <3>5. ~Less(new, new) /\ ~(next < next)
      BY <1>1, <1>3, LessIrreflexive
    <3>6. \A l \in 1 .. next' - 1 : Readable(l) =>
            /\ ~Less(VersionOf(workloads[l]), new)
            /\ l < next => Less(new, VersionOf(workloads[l]))
      BY <1>2, <3>3, <3>4, <3>5
    <3> QED BY <1>2, <3>1, <3>6 DEF FirstLowest
  <2> QED BY <2>1, <2>2
<1>9. UNCHANGED workloads
  BY DEF Visit, input
<1> QED BY <1>6, <1>7, <1>8 DEF BestOf

(* What a loop over the list finds depends on the list alone.              *)
LEMMA FoundKept ==
  ASSUME UNCHANGED <<workloads, listed>>
  PROVE  \A v \in Tags \cup Labels \cup {<<>>}, p \in BOOLEAN, n \in Nat :
           /\ BestOf(v, p, n)' <=> BestOf(v, p, n)
           /\ Found(v, p)' <=> Found(v, p)
BY DEF Found, BestOf, FirstLowest, Readable, Matching

(* A loop that is through has found what any loop over the list finds.     *)
LEMMA ThroughIsFound ==
  ASSUME TypeOK, PathInv, listed => next = Len(workloads) + 1
  PROVE  /\ Found(version, present)
         /\ \A v \in Tags \cup Labels \cup {<<>>}, p \in BOOLEAN :
              Found(v, p) => v = version /\ p = present
<1>1. Found(version, present)
  BY DEF PathInv, Found
<1>2. present \in BOOLEAN /\ Len(workloads) + 1 \in Nat
  BY VersionTyped DEF TypeOK
<1>3. ASSUME NEW v \in Tags \cup Labels \cup {<<>>}, NEW p \in BOOLEAN, Found(v, p)
      PROVE  v = version /\ p = present
  <2>1. CASE listed
    <3>1. /\ BestOf(v, p, Len(workloads) + 1)
          /\ BestOf(version, present, Len(workloads) + 1)
      BY <1>1, <1>3, <2>1 DEF Found
    <3> QED BY <1>2, <1>3, <3>1, BestUnique
  <2>2. CASE ~listed
    BY <1>1, <1>2, <1>3, <2>2 DEF Found
  <2> QED BY <2>1, <2>2
<1> QED BY <1>1, <1>3

(* Hops and Analyze resolve one and the same hop, each from a loop of its  *)
(* own.                                                                    *)
THEOREM SameHopTwice == Spec => []PathInv
<1>1. Init => PathInv
  <2> SUFFICES ASSUME Init PROVE PathInv
    OBVIOUS
  <2>1. /\ stage = "hops" /\ next = 1 /\ present = FALSE /\ version = <<>>
    BY DEF Init
  <2>2. BestOf(version, present, next)
    <3>1. 1 .. next - 1 = {}
      BY <2>1
    <3> QED BY <2>1, <3>1 DEF BestOf
  <2> QED BY <2>1, <2>2 DEF PathInv
<1>2. TypeOK /\ TypeOK' /\ HopInv /\ PathInv /\ [Next]_vars => PathInv'
  <2> SUFFICES ASSUME TypeOK, TypeOK', HopInv, PathInv, [Next]_vars PROVE PathInv'
    OBVIOUS
  <2> DEFINE V == Tags \cup Labels \cup {<<>>}
             Loop == IF listed THEN BestOf(version, present, next) ELSE version = <<>> /\ ~present
             Through == stage \in {"wants", "select", "done"} /\ listed => next = Len(workloads) + 1
             Agreed == stage \in {"analyze", "select", "done"} =>
                         \A v \in V, p \in BOOLEAN : Found(v, p) => AskedFor(v, p)
             Chosen == stage = "done" => selected = onPath(addon, hop)
  <2>0. Loop /\ Through /\ Agreed /\ Chosen
    BY DEF PathInv
  <2>1. UNCHANGED <<addon, target, workloads, listed>>
    BY DEF Next, Visit, Hops, Wants, Analyze, Select, Done, vars, input
  <2>2. \A v \in V, p \in BOOLEAN, n \in Nat :
          /\ BestOf(v, p, n)' <=> BestOf(v, p, n)
          /\ Found(v, p)' <=> Found(v, p)
    BY <2>1, FoundKept
  <2>3. /\ version \in V /\ present \in BOOLEAN /\ next \in Nat
        /\ version' \in V /\ present' \in BOOLEAN /\ next' \in Nat
    <3>1. version \in V /\ next \in Nat
      BY VersionTyped
    <3>2. Len(workloads') \in Nat
      BY <2>1, VersionTyped
    <3> QED BY <3>1, <3>2 DEF TypeOK
  <2>4. CASE Visit
    <3>1. /\ listed /\ Detecting /\ UNCHANGED <<stage, asked, hop, selected>>
      BY <2>4 DEF Visit, report
    <3>2. BestOf(version', present', next')
      BY <2>0, <2>4, <3>1, BestStep
    <3>3. Loop'
      <4>1. listed'
        BY <2>1, <3>1
      <4>2. BestOf(version, present, next)'
        BY <2>1, <3>2 DEF BestOf, FirstLowest, Readable, Matching
      <4> QED BY <4>1, <4>2
    <3>4. stage' \in {"hops", "analyze"}
      BY <3>1 DEF Detecting
    <3>5. Agreed'
      BY <2>0, <2>1, <2>2, <3>1 DEF AskedFor
    <3> QED BY <3>3, <3>4, <3>5 DEF PathInv
  <2>5. CASE Hops
    <3>1. /\ UNCHANGED <<next, present, version>> /\ stage' = "wants" /\ Detected
      BY <2>5 DEF Hops, loop
    <3>2. Loop'
      BY <2>0, <2>1, <2>2, <2>3, <3>1 DEF BestOf, FirstLowest, Readable, Matching
    <3>3. listed => next' = Len(workloads') + 1
      BY <2>1, <3>1, VersionTyped DEF Detected
    <3> QED BY <2>1, <3>1, <3>2, <3>3 DEF PathInv
  <2>6. CASE Wants
    <3>1. /\ stage = "wants" /\ stage' = "analyze"
          /\ next' = 1 /\ present' = FALSE /\ version' = <<>>
          /\ asked' = {r.kind : r \in onPath(addon, hop)}
      BY <2>6 DEF Wants
    <3>2. Loop'
      <4>1. 1 .. next' - 1 = {}
        BY <3>1
      <4>2. listed => BestOf(version, present, next)'
        BY <3>1, <4>1 DEF BestOf
      <4> QED BY <2>1, <3>1, <4>2
    <3>3. hop = IF present THEN forcedHop(addon, version, target) ELSE NoHop
      BY <3>1 DEF HopInv, Resolved
    <3>4. \A v \in V, p \in BOOLEAN : Found(v, p) => v = version /\ p = present
      BY <2>0, <3>1, ThroughIsFound
    <3>5. Agreed'
      <4> SUFFICES ASSUME NEW v \in V, NEW p \in BOOLEAN, Found(v, p)'
                   PROVE  AskedFor(v, p)'
        OBVIOUS
      <4>1. Found(v, p)
        BY <2>2
      <4>2. v = version /\ p = present
        BY <3>4, <4>1
      <4> QED BY <2>1, <3>1, <3>3, <4>2 DEF AskedFor
    <3> QED BY <3>1, <3>2, <3>5 DEF PathInv
  <2>7. CASE Analyze
    <3>1. /\ UNCHANGED <<next, present, version, asked>>
          /\ stage = "analyze" /\ stage' = "select" /\ Detected
      BY <2>7 DEF Analyze, loop
    <3>2. Loop'
      BY <2>0, <2>1, <2>2, <2>3, <3>1 DEF BestOf, FirstLowest, Readable, Matching
    <3>3. listed => next' = Len(workloads') + 1
      BY <2>1, <3>1, VersionTyped DEF Detected
    <3>4. Agreed'
      BY <2>0, <2>1, <2>2, <3>1 DEF AskedFor
    <3> QED BY <2>1, <3>1, <3>2, <3>3, <3>4 DEF PathInv
  <2>8. CASE Select
    <3>1. /\ UNCHANGED <<next, present, version, asked, hop>>
          /\ stage = "select" /\ stage' = "done" /\ selected' = onPath(addon, hop)
      BY <2>8 DEF Select, loop
    <3>2. Loop'
      BY <2>0, <2>1, <2>2, <2>3, <3>1 DEF BestOf, FirstLowest, Readable, Matching
    <3>3. listed => next' = Len(workloads') + 1
      BY <2>0, <2>1, <3>1
    <3>4. Agreed'
      BY <2>0, <2>1, <2>2, <3>1 DEF AskedFor
    <3> QED BY <2>1, <3>1, <3>2, <3>3, <3>4 DEF PathInv
  <2>9. CASE Done \/ UNCHANGED vars
    <3>1. UNCHANGED <<next, present, version, asked, hop, stage, selected>>
      BY <2>9 DEF Done, vars, loop, report
    <3>2. Loop'
      BY <2>0, <2>1, <2>2, <2>3, <3>1 DEF BestOf, FirstLowest, Readable, Matching
    <3>3. Agreed'
      BY <2>0, <2>1, <2>2, <3>1 DEF AskedFor
    <3>4. Through' /\ Chosen'
      BY <2>0, <2>1, <3>1
    <3> QED BY <3>2, <3>3, <3>4 DEF PathInv
  <2> QED BY <2>4, <2>5, <2>6, <2>7, <2>8, <2>9 DEF Next
<1> QED BY <1>1, <1>2, TypeCorrect, HopFollows, PTL DEF Spec

-----------------------------------------------------------------------------
(* Lines: the first two components of a version. *)

LEMMA PairsEqual ==
  ASSUME NEW p \in Seq(Nat), NEW q \in Seq(Nat), Len(p) = 2, Len(q) = 2
  PROVE  /\ DOMAIN p = {1, 2}
         /\ p = q <=> p[1] = q[1] /\ p[2] = q[2]
<1>1. DOMAIN p = 1 .. 2 /\ DOMAIN q = 1 .. 2
  BY LenProperties
<1>2. 1 .. 2 = {1, 2}
  OBVIOUS
<1>3. p[1] = q[1] /\ p[2] = q[2] => \A i \in 1 .. Len(p) : p[i] = q[i]
  BY <1>2
<1>4. p[1] = q[1] /\ p[2] = q[2] => p = q
  BY <1>3, SeqEqual
<1> QED BY <1>1, <1>2, <1>4

LEMMA MinorIs ==
  ASSUME NEW v \in Seq(Nat), Len(v) >= 2
  PROVE  /\ AddonMinor(v) \in Seq(Nat) /\ Len(AddonMinor(v)) = 2
         /\ AddonMinor(v)[1] = v[1] /\ AddonMinor(v)[2] = v[2]
<1>1. Len(v) \in Nat /\ DOMAIN v = 1 .. Len(v)
  BY LenProperties
<1> QED BY <1>1 DEF AddonMinor

LEMMA LineType ==
  ASSUME NEW v \in Version, IsParseable(v)
  PROVE  /\ v # <<>> /\ Len(v) \in Nat /\ Len(v) >= 2
         /\ v[1] \in Nat /\ v[2] \in Nat
         /\ Component(v, 1) = v[1] /\ Component(v, 2) = v[2]
         /\ AddonMinor(v) \in Version /\ IsParseable(AddonMinor(v)) /\ Len(AddonMinor(v)) = 2
         /\ AddonMinor(v)[1] = v[1] /\ AddonMinor(v)[2] = v[2]
         /\ AddonMinor(AddonMinor(v)) = AddonMinor(v)
         /\ Len(v) = 2 => AddonMinor(v) = v
         /\ IsPrefixOf(AddonMinor(v), v)
<1>1. v \in Seq(Nat) /\ Len(v) \in Nat /\ Len(v) >= 2 /\ DOMAIN v = 1 .. Len(v)
  BY DEF Version, IsParseable
<1>2. v # <<>> /\ 1 \in DOMAIN v /\ 2 \in DOMAIN v
  BY <1>1
<1>3. v[1] \in Nat /\ v[2] \in Nat
  BY <1>1, <1>2
<1> DEFINE m == AddonMinor(v)
<1>4. m \in Seq(Nat) /\ Len(m) = 2 /\ m[1] = v[1] /\ m[2] = v[2]
  BY <1>1, MinorIs
<1>5. AddonMinor(m) = m
  <2> HIDE DEF m
  <2> QED BY <1>4, MinorIs, PairsEqual
<1>6. Len(v) = 2 => m = v
  <2> HIDE DEF m
  <2> QED BY <1>1, <1>4, PairsEqual
<1>7. IsPrefixOf(m, v)
  <2>1. DOMAIN m = {1, 2} /\ m # <<>>
    <3> HIDE DEF m
    <3> QED BY <1>4, PairsEqual
  <2> HIDE DEF m
  <2> QED BY <1>1, <1>4, <2>1 DEF IsPrefixOf
<1>8. m \in Version /\ IsParseable(m)
  <2> HIDE DEF m
  <2> QED BY <1>4 DEF Version, IsParseable
<1> QED BY <1>1, <1>2, <1>3, <1>4, <1>5, <1>6, <1>7, <1>8 DEF Component

(* Lines compare by their two numbers. *)
LEMMA LineLess ==
  ASSUME NEW a \in Version, NEW b \in Version, IsParseable(a), IsParseable(b)
  PROVE  /\ Less(AddonMinor(a), AddonMinor(b)) <=> a[1] < b[1] \/ (a[1] = b[1] /\ a[2] < b[2])
         /\ AddonMinor(a) = AddonMinor(b) <=> a[1] = b[1] /\ a[2] = b[2]
<1> DEFINE p == AddonMinor(a)
           q == AddonMinor(b)
<1>1. /\ p \in Version /\ Len(p) = 2 /\ p[1] = a[1] /\ p[2] = a[2] /\ p # <<>>
      /\ q \in Version /\ Len(q) = 2 /\ q[1] = b[1] /\ q[2] = b[2] /\ q # <<>>
      /\ a[1] \in Nat /\ a[2] \in Nat /\ b[1] \in Nat /\ b[2] \in Nat
      /\ Component(p, 1) = a[1] /\ Component(p, 2) = a[2]
      /\ Component(q, 1) = b[1] /\ Component(q, 2) = b[2]
  <2>1. p \in Version /\ IsParseable(p) /\ q \in Version /\ IsParseable(q)
    BY LineType
  <2> QED BY <2>1, LineType
<1>2. DOMAIN p = {1, 2} /\ DOMAIN q = {1, 2}
  <2> HIDE DEF p, q
  <2> QED BY <1>1, PairsEqual DEF Version
<1>3. p = q <=> a[1] = b[1] /\ a[2] = b[2]
  <2> HIDE DEF p, q
  <2>1. p \in Seq(Nat) /\ q \in Seq(Nat) /\ Len(p) = 2 /\ Len(q) = 2
    BY <1>1 DEF Version
  <2>2. p = q <=> p[1] = q[1] /\ p[2] = q[2]
    BY <2>1, PairsEqual
  <2> QED BY <1>1, <2>2
<1>4. Less(p, q) <=> \E i \in {1, 2} :
                       /\ Component(p, i) < Component(q, i)
                       /\ \A j \in 1 .. i - 1 : Component(p, j) = Component(q, j)
  <2> HIDE DEF p, q
  <2> QED BY <1>1, <1>2 DEF Less
<1>5. 1 .. 1 - 1 = {} /\ 1 .. 2 - 1 = {1}
  OBVIOUS
<1>6. Less(p, q) <=> \/ Component(p, 1) < Component(q, 1)
                     \/ Component(p, 2) < Component(q, 2) /\ Component(p, 1) = Component(q, 1)
  <2> HIDE DEF p, q
  <2> QED BY <1>4, <1>5
<1> QED BY <1>1, <1>3, <1>6

(* Versions on different lines compare as their lines do. *)
LEMMA LinesDecide ==
  ASSUME NEW a \in Version, NEW b \in Version, IsParseable(a), IsParseable(b)
  PROVE  /\ \/ AddonMinor(a) = AddonMinor(b)
            \/ Less(AddonMinor(a), AddonMinor(b))
            \/ Less(AddonMinor(b), AddonMinor(a))
         /\ Less(AddonMinor(a), AddonMinor(b)) => Less(a, b) /\ ~Less(b, a)
         /\ Less(a, b) => \/ AddonMinor(a) = AddonMinor(b)
                          \/ Less(AddonMinor(a), AddonMinor(b))
         /\ Less(AddonMinor(a), AddonMinor(b)) =>
              ~Less(AddonMinor(b), AddonMinor(a)) /\ AddonMinor(a) # AddonMinor(b)
<1>1. /\ a[1] \in Nat /\ a[2] \in Nat /\ b[1] \in Nat /\ b[2] \in Nat
      /\ a # <<>> /\ b # <<>>
      /\ Component(a, 1) = a[1] /\ Component(a, 2) = a[2]
      /\ Component(b, 1) = b[1] /\ Component(b, 2) = b[2]
      /\ 1 \in DOMAIN a /\ 2 \in DOMAIN a
  <2>1. DOMAIN a = 1 .. Len(a)
    BY DEF Version
  <2> QED BY <2>1, LineType
<1>2. Less(AddonMinor(a), AddonMinor(b)) => Less(a, b)
  <2>1. \A j \in 1 .. 1 - 1 : Component(a, j) = Component(b, j)
    OBVIOUS
  <2>2. a[1] = b[1] => \A j \in 1 .. 2 - 1 : Component(a, j) = Component(b, j)
    BY <1>1
  <2> QED BY <1>1, <2>1, <2>2, LineLess DEF Less
<1>3. \/ AddonMinor(a) = AddonMinor(b)
      \/ Less(AddonMinor(a), AddonMinor(b))
      \/ Less(AddonMinor(b), AddonMinor(a))
  BY <1>1, LineLess
<1>4. Less(AddonMinor(b), AddonMinor(a)) => Less(b, a)
  <2>1. \A j \in 1 .. 1 - 1 : Component(b, j) = Component(a, j)
    OBVIOUS
  <2>2. a[1] = b[1] => \A j \in 1 .. 2 - 1 : Component(b, j) = Component(a, j)
    BY <1>1
  <2>3. Less(AddonMinor(b), AddonMinor(a)) <=> b[1] < a[1] \/ (b[1] = a[1] /\ b[2] < a[2])
    BY LineLess
  <2> QED BY <1>1, <2>1, <2>2, <2>3 DEF Less
<1>5. ~(Less(a, b) /\ Less(b, a))
  BY LessIrreflexive, LessTransitive
<1>6. Less(AddonMinor(a), AddonMinor(b)) =>
        ~Less(AddonMinor(b), AddonMinor(a)) /\ AddonMinor(a) # AddonMinor(b)
  BY <1>1, LineLess
<1> QED BY <1>2, <1>3, <1>4, <1>5, <1>6

-----------------------------------------------------------------------------
(* The rules of a hop. *)

(* A rule is of a hop when the hop's end has the change and its start has  *)
(* not: the two ways inAddonHop decides, by a minor or by the releases of  *)
(* several lines, both come to that.                                       *)
LEMMA RuleExact ==
  ASSUME NEW a \in Addons, NEW r \in a.rules, NEW v \in Version, NEW q \in Version,
         IsParseable(v), IsParseable(q), Less(v, q)
  PROVE  inAddonHop(r, v, q) <=> CarriesAtEnd(r, q) /\ ~Carries(r, v)
<1> DEFINE E == r.introducedIn
           M(x) == AddonMinor(x)
           Own(x) == {s \in E : M(s) = M(x)}
<1>1. CASE E = {}
  BY <1>1 DEF inAddonHop, ByMinor, CarriesAtEnd, Carries
<1>2. CASE E # {}
  <2>1. \A s \in E : s \in Version /\ IsParseable(s)
    BY AddonsAssumption
  <2>2. \A x \in {v, q}, s \in E : M(s) # M(x) =>
          \/ Less(s, x) /\ ~Less(x, s) /\ Less(M(s), M(x)) /\ ~Less(M(x), M(s))
          \/ Less(x, s) /\ ~Less(s, x) /\ Less(M(x), M(s)) /\ ~Less(M(s), M(x))
    BY <2>1, LinesDecide
  <2>3. \A s \in E : M(s) = M(q) => s \in Own(v) \/ Less(v, s)
    <3> SUFFICES ASSUME NEW s \in E, M(s) = M(q), M(s) # M(v) PROVE Less(v, s)
      OBVIOUS
    <3>1. Less(M(v), M(q))
      BY LinesDecide
    <3> QED BY <2>1, <3>1, LinesDecide
  <2>4. \A s \in E : Reaches(q, s) <=> IF Len(q) = 2 THEN ~Less(q, M(s)) ELSE ~Less(q, s)
    BY DEF Reaches
  <2>5. Len(q) = 2 => M(q) = q /\ M(v) # M(q)
    <3> SUFFICES ASSUME Len(q) = 2, M(v) = M(q) PROVE FALSE
      BY LineType
    <3>1. M(v) = q
      BY LineType
    <3> QED BY <3>1, LineType, PrefixNotAbove
  <2>6. ~Less(q, q) /\ ~Less(M(q), M(q))
    BY LineType, LessIrreflexive
  <2>7. (Len(q) = 2 /\ ~(Len(q) > 2)) \/ (Len(q) # 2 /\ Len(q) > 2)
    <3>1. Len(q) \in Nat /\ Len(q) >= 2
      BY DEF IsParseable, Version
    <3>2. \A n \in Nat : n >= 2 => (n = 2 /\ ~(n > 2)) \/ (n # 2 /\ n > 2)
      OBVIOUS
    <3> QED BY <3>1, <3>2
  <2>8. ByPatch(r, v, q) <=>
          /\ \A s \in Own(v) : Less(v, s)
          /\ Own(q) # {} \/ \A s \in E : ~Less(M(q), M(s))
          /\ \E s \in (IF Len(q) > 2 /\ Own(q) # {} THEN Own(q) ELSE E) : Less(v, s) /\ Reaches(q, s)
    BY DEF ByPatch
  <2>9. Carries(r, v) <=> IF Own(v) # {} THEN \E s \in Own(v) : ~Less(v, s)
                          ELSE (\E s \in E : Less(s, v)) /\ ~(\E s \in E : Less(v, s))
    BY <1>2 DEF Carries
  <2>10. CarriesAtEnd(r, q) <=>
           \/ IF Own(q) # {} THEN \E s \in Own(q) : ~Less(q, s)
              ELSE (\E s \in E : Less(s, q)) /\ ~(\E s \in E : Less(q, s))
           \/ Len(q) = 2 /\ \E s \in E : M(s) = q
    BY <1>2 DEF CarriesAtEnd, Carries
  <2>11. inAddonHop(r, v, q) <=> ByPatch(r, v, q)
    BY <1>2 DEF inAddonHop
  <2>12. ASSUME ByPatch(r, v, q) PROVE CarriesAtEnd(r, q) /\ ~Carries(r, v)
    <3>1. PICK s \in (IF Len(q) > 2 /\ Own(q) # {} THEN Own(q) ELSE E) :
            s \in E /\ Less(v, s) /\ Reaches(q, s)
      BY <2>8, <2>12
    <3>2. ~Carries(r, v)
      BY <2>8, <2>9, <2>12, <3>1
    <3>3. CASE Own(q) # {} /\ Len(q) > 2
      <4>1. s \in Own(q) /\ ~Less(q, s)
        BY <2>4, <2>7, <3>1, <3>3
      <4> HIDE DEF Own
      <4> QED BY <2>10, <3>2, <3>3, <4>1
    <3>4. CASE Own(q) # {} /\ Len(q) = 2
      <4>1. \E t \in E : M(t) = q
        BY <2>5, <3>4
      <4> QED BY <2>10, <3>2, <3>4, <4>1
    <3>5. CASE Own(q) = {}
      <4>1. \A t \in E : M(t) # M(q) /\ ~Less(M(q), M(t))
        BY <2>8, <2>12, <3>5
      <4>2. \A t \in E : Less(t, q) /\ ~Less(q, t)
        BY <2>2, <4>1
      <4>3. (\E t \in E : Less(t, q)) /\ ~(\E t \in E : Less(q, t))
        BY <3>1, <4>2
      <4>4. CarriesAtEnd(r, q)
        <5> HIDE DEF Own
        <5> QED BY <2>10, <3>5, <4>3
      <4> QED BY <3>2, <4>4
    <3> QED BY <2>7, <3>2, <3>3, <3>4, <3>5
  <2>13. ASSUME CarriesAtEnd(r, q), ~Carries(r, v) PROVE ByPatch(r, v, q)
    <3>1. \A s \in Own(v) : Less(v, s)
      BY <2>9, <2>13
    <3>2. Own(q) = {} => \A s \in E : Less(s, q) /\ ~Less(q, s) /\ Less(M(s), M(q)) /\ ~Less(M(q), M(s))
      <4> SUFFICES ASSUME Own(q) = {}, NEW s \in E
                   PROVE  Less(s, q) /\ ~Less(q, s) /\ Less(M(s), M(q)) /\ ~Less(M(q), M(s))
        OBVIOUS
      <4>1. ~Less(q, s)
        BY <2>5, <2>10, <2>13
      <4>2. M(s) # M(q)
        OBVIOUS
      <4> QED BY <2>2, <4>1, <4>2
    <3>3. \E s \in (IF Len(q) > 2 /\ Own(q) # {} THEN Own(q) ELSE E) : Less(v, s) /\ Reaches(q, s)
      <4>1. CASE Own(q) # {} /\ Len(q) > 2
        <5>1. PICK s \in Own(q) : ~Less(q, s)
          <6> HIDE DEF Own
          <6> QED BY <2>7, <2>10, <2>13, <4>1
        <5>2. Less(v, s)
          BY <2>3, <3>1, <5>1
        <5>3. Reaches(q, s)
          BY <2>4, <2>7, <4>1, <5>1
        <5> QED BY <4>1, <5>1, <5>2, <5>3
      <4>2. CASE Own(q) # {} /\ Len(q) = 2
        <5>1. PICK s \in Own(q) : TRUE
          BY <4>2
        <5>2. Less(v, s)
          BY <2>3, <3>1, <5>1
        <5>3. Reaches(q, s)
          BY <2>4, <2>5, <2>6, <4>2, <5>1
        <5> QED BY <4>2, <5>1, <5>2, <5>3
      <4>3. CASE Own(q) = {}
        <5>1. \A s \in E : Reaches(q, s)
          BY <2>4, <2>5, <3>2, <4>3
        <5>2. \E s \in E : Less(v, s)
          <6>1. CASE Own(v) # {}
            BY <3>1, <6>1
          <6>2. CASE Own(v) = {}
            <7>1. \A s \in E : M(s) # M(v)
              BY <6>2
            <7>2. (\A s \in E : ~Less(s, v)) \/ \E s \in E : Less(v, s)
              BY <2>9, <2>13, <6>2
            <7> QED BY <1>2, <2>2, <7>1, <7>2
          <6> QED BY <6>1, <6>2
        <5> QED BY <4>3, <5>1, <5>2
      <4> QED BY <2>7, <4>1, <4>2, <4>3
    <3> QED BY <2>8, <3>1, <3>2, <3>3
  <2> QED BY <2>11, <2>12, <2>13
<1> QED BY <1>1, <1>2

(* A hop from a version at or above the lowest meets no rule that the      *)
(* lowest's own hop does not, unless the rule was backported.              *)
LEMMA RuleFromBelow ==
  ASSUME NEW a \in Addons, NEW r \in a.rules,
         NEW v \in Version, NEW w \in Version, NEW q \in Version,
         IsParseable(v), IsParseable(w), ~Less(w, v), inAddonHop(r, w, q),
         \A s, t \in r.introducedIn : s = t
  PROVE  inAddonHop(r, v, q)
<1>1. CASE r.introducedIn = {}
  <2>1. ByMinor(r, w, q)
    BY <1>1 DEF inAddonHop
  <2>2. AddonMinor(v) \in Version /\ AddonMinor(w) \in Version /\ r.applies \in Version
    BY AddonsAssumption, LineType
  <2>3. ~Less(AddonMinor(w), AddonMinor(v))
    BY LinesDecide
  <2>4. Less(AddonMinor(v), r.applies)
    BY <2>1, <2>2, <2>3, LessSplits DEF ByMinor
  <2> QED BY <1>1, <2>1, <2>4 DEF inAddonHop, ByMinor
<1>2. CASE r.introducedIn # {}
  <2>1. ByPatch(r, w, q)
    BY <1>2 DEF inAddonHop
  <2>2. \A s \in r.introducedIn : s \in Version
    BY AddonsAssumption
  <2>3. PICK s \in r.introducedIn : Less(w, s)
    BY <2>1 DEF ByPatch
  <2>4. Less(v, s)
    BY <2>2, <2>3, LessSplits
  <2>5. \A t \in r.introducedIn : Less(v, t)
    BY <2>4
  <2>6. ByPatch(r, v, q)
    BY <2>1, <2>5 DEF ByPatch
  <2> QED BY <1>2, <2>6 DEF inAddonHop
<1> QED BY <1>1, <1>2

(* ceiling finds a version that none of the catalogued ones is above.      *)
LEMMA CeilingIsHighest ==
  ASSUME NEW a \in Addons
  PROVE  /\ ceiling(a) \in Version /\ ~Less(ceiling(a), a.latest)
         /\ \A i \in DOMAIN a.windows : ~Less(ceiling(a), a.windows[i].version)
<1> DEFINE V == {a.latest} \cup {a.windows[i].version : i \in DOMAIN a.windows}
           R == {p \in V \X V : Less(p[2], p[1])}
           Highest(c) == \A v \in V : ~Less(c, v)
<1>1. V \subseteq Version /\ a.latest \in V
  <2>1. a.latest \in Version
    BY AddonsAssumption
  <2>2. \A i \in DOMAIN a.windows : a.windows[i].version \in Version
    BY WindowType
  <2> QED BY <2>1, <2>2
<1>2. IsFiniteSet(V)
  <2> DEFINE f == [i \in DOMAIN a.windows |-> a.windows[i].version]
             W == {a.windows[i].version : i \in DOMAIN a.windows}
  <2>1. f \in Surjection(DOMAIN a.windows, W)
    BY DEF Surjection
  <2>2. IsFiniteSet(W)
    <3> HIDE DEF f, W
    <3> QED BY <2>1, WindowType, FS_Surjection
  <2>3. V = W \cup {a.latest}
    OBVIOUS
  <2> HIDE DEF V, W
  <2> QED BY <2>2, <2>3, FS_AddElement
<1>3. \A x \in V : <<x, x>> \notin R
  BY <1>1, LessIrreflexive
<1>4. \A x, y, z \in V : <<x, y>> \in R /\ <<y, z>> \in R => <<x, z>> \in R
  <2> HIDE DEF V
  <2>1. \A x, y, z \in V : Less(y, x) /\ Less(z, y) => Less(z, x)
    BY <1>1, LessTransitive
  <2> QED BY <2>1
<1>5. PICK c \in V : \A v \in V : <<v, c>> \notin R
  <2> HIDE DEF V, R
  <2> QED BY <1>1, <1>2, <1>3, <1>4, FiniteMinimal
<1>6. Highest(c)
  <2> HIDE DEF V
  <2> QED BY <1>5
<1>7. ceiling(a) = CHOOSE n \in V : Highest(n)
  BY DEF ceiling
<1>8. (CHOOSE n \in V : Highest(n)) \in V /\ Highest(CHOOSE n \in V : Highest(n))
  <2> HIDE DEF Highest, V
  <2> QED BY <1>6
<1>9. ceiling(a) \in V /\ \A v \in V : ~Less(ceiling(a), v)
  BY <1>7, <1>8
<1>10. a.latest \in V /\ \A i \in DOMAIN a.windows : a.windows[i].version \in V
  OBVIOUS
<1> HIDE DEF V
<1> QED BY <1>1, <1>9, <1>10

(* Both ends of a hop parse, and its end is a version the catalog names.   *)
LEMMA HopEnds ==
  ASSUME NEW a \in Addons, NEW v \in Version, NEW k \in Targets,
         forcedHop(a, v, k) # NoHop
  PROVE  LET q == forcedHop(a, v, k).required
         IN  /\ IsParseable(v) /\ q \in Version /\ IsParseable(q)
             /\ q = a.latest \/ \E i \in DOMAIN a.windows : q = a.windows[i].version
<1> DEFINE q == forcedHop(a, v, k).required
<1>1. CASE a.windows = <<>>
  BY <1>1, AddonsAssumption DEF forcedHop
<1>2. CASE a.windows # <<>>
  <2>1. IsParseable(v) /\ q = minimumCovering(a.windows, k) /\ Less(v, q)
    BY <1>2 DEF forcedHop
  <2>2. PICK c \in DOMAIN a.windows : Covers(a.windows[c], k)
    <3> SUFFICES ASSUME {i \in DOMAIN a.windows : Covers(a.windows[i], k)} = {} PROVE FALSE
      OBVIOUS
    <3>1. q = <<>>
      BY <2>1 DEF minimumCovering
    <3> QED BY <2>1, <3>1 DEF Less
  <2>3. PICK i \in DOMAIN a.windows : minimumCovering(a.windows, k) = a.windows[i].version
    BY <2>2, LowestCovering
  <2> QED BY <2>1, <2>3, WindowType
<1> QED BY <1>1, <1>2

(* For any catalog, any list of workloads and any target: the rules judged *)
(* are exactly the changes between the hop's ends, none of them was judged *)
(* without its kind having been asked for, and no workload of the add-on   *)
(* meets on its way a rule or a note that the report leaves out.           *)
THEOREM HopIsHonest == Spec => []HopRulesHonest
<1>1. TypeOK /\ HopInv /\ PathInv /\ LowestReadableWins => HopRulesHonest
  <2> SUFFICES ASSUME TypeOK, HopInv, PathInv, LowestReadableWins PROVE HopRulesHonest
    OBVIOUS
  <2>0. version \in Version /\ addon \in Addons /\ target \in Targets
    BY VersionTyped DEF TypeOK
  <2> DEFINE q == hop.required
  <2>1. stage = "done" /\ hop # NoHop =>
          /\ listed /\ present /\ hop = forcedHop(addon, version, target)
          /\ hop.installed = version /\ Less(version, q)
          /\ IsParseable(version) /\ q \in Version /\ IsParseable(q)
          /\ q = addon.latest \/ \E i \in DOMAIN addon.windows : q = addon.windows[i].version
    <3> SUFFICES ASSUME stage = "done", hop # NoHop
                 PROVE  /\ listed /\ present /\ hop = forcedHop(addon, version, target)
                        /\ hop.installed = version /\ Less(version, q)
                        /\ IsParseable(version) /\ q \in Version /\ IsParseable(q)
                        /\ q = addon.latest \/ \E i \in DOMAIN addon.windows : q = addon.windows[i].version
      OBVIOUS
    <3>1. listed /\ present /\ hop = forcedHop(addon, version, target)
      BY DEF HopInv, Resolved
    <3> QED BY <2>0, <3>1, HopEnds, HopGoesUp
  <2>2. stage = "done" => selected = onPath(addon, hop)
    BY DEF PathInv
  <2>3. HopRulesExact
    <3> SUFFICES ASSUME stage = "done", hop # NoHop
                 PROVE  selected = {r \in addon.rules : CarriesAtEnd(r, q) /\ ~Carries(r, hop.installed)}
      BY DEF HopRulesExact
    <3>1. \A r \in addon.rules :
            inAddonHop(r, version, q) <=> CarriesAtEnd(r, q) /\ ~Carries(r, version)
      BY <2>0, <2>1, RuleExact
    <3> QED BY <2>1, <2>2, <3>1 DEF onPath
  <2>4. \A n \in DOMAIN workloads :
          Matching(n) /\ IsParseable(VersionOf(workloads[n])) /\ stage = "done" /\ hop # NoHop =>
            VersionOf(workloads[n]) \in Version /\ ~Less(VersionOf(workloads[n]), version)
    <3> SUFFICES ASSUME NEW n \in DOMAIN workloads, Matching(n), stage = "done", hop # NoHop,
                        IsParseable(VersionOf(workloads[n]))
                 PROVE  /\ VersionOf(workloads[n]) \in Version
                        /\ ~Less(VersionOf(workloads[n]), version)
      OBVIOUS
    <3>1. listed /\ next = Len(workloads) + 1
      BY <2>1 DEF PathInv
    <3>2. n \in 1 .. next - 1
      BY <3>1, VersionTyped
    <3>3. VersionOf(workloads[n]) \in Version /\ VersionOf(workloads[n]) # <<>>
      BY VersionTyped, LineType
    <3> QED BY <3>2, <3>3 DEF LowestReadableWins
  <2>5. EveryWorkloadsNotes
    <3> SUFFICES ASSUME stage = "done", hop # NoHop,
                        NEW n \in DOMAIN workloads, NEW r \in addon.rules,
                        Matching(n), IsParseable(VersionOf(workloads[n])),
                        \A s, t \in r.introducedIn : s = t,
                        inAddonHop(r, VersionOf(workloads[n]), q)
                 PROVE  r \in selected
      BY DEF EveryWorkloadsNotes
    <3>1. inAddonHop(r, version, q)
      BY <2>0, <2>1, <2>4, RuleFromBelow
    <3> QED BY <2>1, <2>2, <3>1 DEF onPath
  <2>6. NotesOnTheWay
    <3> SUFFICES ASSUME stage = "done", hop # NoHop,
                        NEW n \in DOMAIN workloads, NEW note \in addon.notes,
                        Matching(n), IsParseable(VersionOf(workloads[n])),
                        Less(VersionOf(workloads[n]), note), ~Less(q, note)
                 PROVE  note \in status.notes
      BY DEF NotesOnTheWay
    <3>1. status.notes = notesOnPath(addon, version)
      BY <2>1 DEF HopInv, StatusOf
    <3>2. note \in Version
      BY <2>0, AddonsAssumption
    <3>3. Less(version, note)
      BY <2>0, <2>4, <3>2, LessSplits
    <3>4. ~Less(ceiling(addon), q) /\ ceiling(addon) \in Version
      BY <2>0, <2>1, CeilingIsHighest
    <3>5. ~Less(ceiling(addon), note)
      BY <2>1, <3>2, <3>4, LessSplits
    <3> QED BY <3>1, <3>3, <3>5 DEF notesOnPath
  <2>7. RulesJudgedWereRead
    <3> SUFFICES ASSUME stage = "done" PROVE {r.kind : r \in selected} = asked
      BY DEF RulesJudgedWereRead
    <3>1. listed => next = Len(workloads) + 1
      BY DEF PathInv
    <3>2. Found(version, present) /\ version \in Tags \cup Labels \cup {<<>>} /\ present \in BOOLEAN
      BY <3>1, ThroughIsFound, VersionTyped DEF TypeOK
    <3>3. AskedFor(version, present)
      BY <3>2 DEF PathInv
    <3>4. hop = IF present THEN forcedHop(addon, version, target) ELSE NoHop
      BY DEF HopInv, Resolved
    <3> QED BY <2>2, <3>3, <3>4 DEF AskedFor
  <2> QED BY <2>3, <2>5, <2>6, <2>7 DEF HopRulesHonest
<1> QED BY <1>1, TypeCorrect, HopFollows, SameHopTwice, LowestReadable, PTL
=============================================================================
