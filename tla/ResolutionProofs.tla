-------------------------- MODULE ResolutionProofs --------------------------
(***************************************************************************)
(* Proofs about Selections, continued: `use` resolves a selector to the    *)
(* newest release.                                                         *)
(***************************************************************************)
EXTENDS SelectionsProofs, WellFoundedInduction

-----------------------------------------------------------------------------
(* The order of versions.                                                  *)

LEMMA VersionParts ==
    \A v \in Versions : v[1] \in Nat /\ v[2] \in Nat /\ v[3] \in Nat /\ v[4] \in Nat
  BY CatalogsAssumption

\* The order, part by part.
LEMMA LaterParts ==
    ASSUME NEW v \in Versions, NEW w \in Versions
    PROVE  Later(v, w) <=>
            \/ v[1] > w[1]
            \/ v[1] = w[1] /\ v[2] > w[2]
            \/ v[1] = w[1] /\ v[2] = w[2] /\ v[3] > w[3]
            \/ v[1] = w[1] /\ v[2] = w[2] /\ v[3] = w[3] /\ v[4] > w[4]
<1>1. Len(v) = 4
  BY VersionLength
<1>2. Later(v, w) <=> \E i \in 1 .. 4 : v[i] > w[i] /\ \A j \in 1 .. i - 1 : v[j] = w[j]
  BY <1>1 DEF Later
<1>3. 1 .. 4 = {1, 2, 3, 4} /\ 1 .. (1 - 1) = {} /\ 1 .. (2 - 1) = {1}
      /\ 1 .. (3 - 1) = {1, 2} /\ 1 .. (4 - 1) = {1, 2, 3}
  OBVIOUS
<1>4. \A i \in 1 .. 4 : (i = 1 \/ i = 2 \/ i = 3 \/ i = 4)
  OBVIOUS
<1> DEFINE P(i) == v[i] > w[i] /\ \A j \in 1 .. i - 1 : v[j] = w[j]
<1>5. /\ P(1) <=> v[1] > w[1]
      /\ P(2) <=> v[1] = w[1] /\ v[2] > w[2]
      /\ P(3) <=> v[1] = w[1] /\ v[2] = w[2] /\ v[3] > w[3]
      /\ P(4) <=> v[1] = w[1] /\ v[2] = w[2] /\ v[3] = w[3] /\ v[4] > w[4]
  BY <1>3
<1>6. Later(v, w) <=> \E i \in 1 .. 4 : P(i)
  BY <1>2
<1> HIDE DEF P
<1>7. Later(v, w) <=> P(1) \/ P(2) \/ P(3) \/ P(4)
  BY <1>3, <1>6
<1> QED BY <1>5, <1>7

\* It is a strict total order.
LEMMA LaterOrders ==
    /\ \A v \in Versions : ~Later(v, v)
    /\ \A u, v, w \in Versions : Later(u, v) /\ Later(v, w) => Later(u, w)
    /\ \A v, w \in Versions : v # w => Later(v, w) \/ Later(w, v)
<1>1. \A v \in Versions : ~Later(v, v)
  BY LaterParts, VersionParts
<1>2. ASSUME NEW u \in Versions, NEW v \in Versions, NEW w \in Versions, Later(u, v), Later(v, w)
      PROVE  Later(u, w)
  BY <1>2, LaterParts, VersionParts
<1>3. ASSUME NEW v \in Versions, NEW w \in Versions, ~Later(v, w), ~Later(w, v)
      PROVE  v = w
  <2>1. v[1] = w[1] /\ v[2] = w[2] /\ v[3] = w[3] /\ v[4] = w[4]
    BY <1>3, LaterParts, VersionParts
  <2>2. \A i \in 1 .. 4 : v[i] = w[i]
    BY <2>1
  <2>3. v \in [1 .. 4 -> Nat] /\ w \in [1 .. 4 -> Nat]
    BY CatalogsAssumption
  <2> QED BY <2>2, <2>3
<1> QED BY <1>1, <1>2, <1>3

\* A later version is before the other one in the lists of the clients, which
\* also compare the dates.
LEMMA LaterFirst ==
    ASSUME NEW q \in Release, NEW r \in Release, Later(q.version, r.version)
    PROVE  Later(q.version \o <<q.date>>, r.version \o <<r.date>>)
<1> DEFINE v == q.version
           w == r.version
           a == v \o <<q.date>>
           b == w \o <<r.date>>
<1>1. /\ v \in Seq(Nat) /\ Len(v) = 4 /\ w \in Seq(Nat) /\ Len(w) = 4
  BY VersionLength DEF Release
<1>2. q.date \in Nat /\ r.date \in Nat
  BY CatalogsAssumption DEF Release
<1>3. ASSUME NEW s \in Seq(Nat), Len(s) = 4, NEW d \in Nat
      PROVE  Len(s \o <<d>>) = 5 /\ \A i \in 1 .. 4 : (s \o <<d>>)[i] = s[i]
  <2> DEFINE t == <<d>>
  <2>1. t \in Seq(Nat) /\ Len(t) = 1
    OBVIOUS
  <2> HIDE DEF t
  <2>2. /\ Len(s \o t) = Len(s) + Len(t)
        /\ \A i \in 1 .. Len(s) + Len(t) : (s \o t)[i] = IF i <= Len(s) THEN s[i] ELSE t[i - Len(s)]
    BY <1>3, <2>1, ConcatProperties
  <2>3. Len(s \o t) = 5 /\ \A i \in 1 .. 4 : (s \o t)[i] = s[i]
    BY <1>3, <2>1, <2>2
  <2> QED BY <2>3 DEF t
<1>4. /\ Len(a) = 5
      /\ \A i \in 1 .. 4 : a[i] = v[i] /\ b[i] = w[i]
  BY <1>1, <1>2, <1>3
<1>5. PICK i \in 1 .. 4 : v[i] > w[i] /\ \A j \in 1 .. i - 1 : v[j] = w[j]
  BY <1>1 DEF Later
<1> HIDE DEF v, w, a, b
<1>6. i \in 1 .. Len(a) /\ a[i] > b[i]
  BY <1>4, <1>5
<1>7. \A j \in 1 .. i - 1 : a[j] = b[j]
  BY <1>4, <1>5
<1>8. Later(a, b)
  BY <1>6, <1>7 DEF Later
<1> QED BY <1>8 DEF a, b, v, w

\* The first of a list is not older than anything in it that matches.
LEMMA FirstIsNewest ==
    ASSUME NEW releases \in SUBSET Release, NEW selector, NEW r \in First(releases, selector),
           NEW q \in releases, Matches(q, selector)
    PROVE  ~Later(q.version, r.version)
<1>1. r \in releases
  BY FirstMatches
<1>2. ~Later(q.version \o <<q.date>>, r.version \o <<r.date>>)
  BY DEF First, Newest
<1> QED BY <1>1, <1>2, LaterFirst

-----------------------------------------------------------------------------
(* Ranks and pages.                                                        *)

\* A family of sets of a finite set has a smallest one.
LEMMA SmallestSet ==
    ASSUME NEW S, IsFiniteSet(S), NEW F \in SUBSET (SUBSET S), F # {}
    PROVE  \E A \in F : \A B \in F : ~(B \subseteq A /\ B # A)
<1> DEFINE R == StrictSubsetOrdering(S)
<1>1. IsWellFoundedOn(R, SUBSET S)
  BY FS_StrictSubsetOrderingWellFounded, FS_FiniteSubsetsOfFinite
<1>2. \A B, A \in SUBSET S : B \subseteq A /\ B # A => <<B, A>> \in R
  BY DEF StrictSubsetOrdering
<1> HIDE DEF R
<1>3. \E A \in F : \A B \in F : ~(<<B, A>> \in R)
  BY <1>1, WFMin
<1> QED BY <1>2, <1>3

Above(V, v) == {w \in V : Later(w, v)}

Below(V, v) == {w \in V : Later(v, w)}

\* Fewer versions are above a version that is above.
LEMMA AboveShrinks ==
    ASSUME NEW V \in SUBSET Versions, NEW v \in V, NEW w \in V, Later(w, v)
    PROVE  /\ Above(V, w) \subseteq Above(V, v) /\ Above(V, w) # Above(V, v)
           /\ Below(V, v) \subseteq Below(V, w) /\ Below(V, v) # Below(V, w)
<1>1. Above(V, w) \subseteq Above(V, v) /\ Below(V, v) \subseteq Below(V, w)
  BY LaterOrders DEF Above, Below
<1>2. w \in Above(V, v) /\ w \notin Above(V, w) /\ v \in Below(V, w) /\ v \notin Below(V, v)
  BY LaterOrders DEF Above, Below
<1> QED BY <1>1, <1>2

\* Ranks are numbers, smaller above.
LEMMA Ranked ==
    ASSUME NEW V \in SUBSET Versions, IsFiniteSet(V)
    PROVE  /\ \A v \in Versions : Cardinality(Above(V, v)) \in Nat /\ IsFiniteSet(Above(V, v))
           /\ \A v, w \in V : Later(w, v) => Cardinality(Above(V, w)) < Cardinality(Above(V, v))
<1>1. \A v \in Versions : Cardinality(Above(V, v)) \in Nat /\ IsFiniteSet(Above(V, v))
  <2> TAKE v \in Versions
  <2>1. Above(V, v) \in SUBSET V
    BY DEF Above
  <2> QED BY <2>1, FS_Subset, FS_CardinalityType
<1>2. ASSUME NEW v \in V, NEW w \in V, Later(w, v)
      PROVE  Cardinality(Above(V, w)) < Cardinality(Above(V, v))
  <2>1. Above(V, w) \in SUBSET Above(V, v) /\ Above(V, w) # Above(V, v)
    BY <1>2, AboveShrinks
  <2>2. /\ Cardinality(Above(V, w)) <= Cardinality(Above(V, v))
        /\ Cardinality(Above(V, w)) # Cardinality(Above(V, v))
    BY <1>1, <2>1, FS_Subset
  <2> QED BY <1>1, <2>2
<1> QED BY <1>1, <1>2

\* The versions whose rank is below n.
Top(V, n) == {v \in V : Cardinality(Above(V, v)) < n}

\* There are n of them if there is a version of rank n or more.
LEMMA TopIsFull ==
    ASSUME NEW V \in SUBSET Versions, IsFiniteSet(V), NEW n \in Nat,
           NEW v \in V, n <= Cardinality(Above(V, v))
    PROVE  n <= Cardinality(Top(V, n))
<1> DEFINE rest == V \ Top(V, n)
           F == {Above(V, u) : u \in rest}
<1>1. F \in SUBSET (SUBSET V) /\ F # {}
  <2>1. v \in rest
    BY Ranked DEF Top
  <2> QED BY <2>1 DEF Above
<1>2. PICK A \in F : \A B \in F : ~(B \subseteq A /\ B # A)
  <2> HIDE DEF F
  <2> QED BY <1>1, SmallestSet
<1>3. PICK u \in rest : A = Above(V, u)
  OBVIOUS
<1>4. Above(V, u) \subseteq Top(V, n)
  <2> SUFFICES ASSUME NEW w \in Above(V, u), w \notin Top(V, n) PROVE FALSE
    OBVIOUS
  <2>1. w \in V /\ Later(w, u) /\ Above(V, w) \in F
    BY DEF Above
  <2> QED BY <1>2, <1>3, <2>1, AboveShrinks
<1>5. n <= Cardinality(Above(V, u))
  BY Ranked DEF Top
<1>6. Top(V, n) \in SUBSET V
  BY DEF Top
<1>7. Cardinality(Above(V, u)) <= Cardinality(Top(V, n)) /\ Cardinality(Top(V, n)) \in Nat
  BY <1>4, <1>6, FS_Subset, FS_CardinalityType
<1> QED BY <1>3, <1>5, <1>7, Ranked

\* There are never more of them.
LEMMA TopIsBounded ==
    ASSUME NEW V \in SUBSET Versions, IsFiniteSet(V), NEW n \in Nat
    PROVE  IsFiniteSet(Top(V, n)) /\ Cardinality(Top(V, n)) \in Nat /\ Cardinality(Top(V, n)) <= n
<1>1. Top(V, n) \in SUBSET V
  BY DEF Top
<1>2. IsFiniteSet(Top(V, n)) /\ Cardinality(Top(V, n)) \in Nat
  BY <1>1, FS_Subset, FS_CardinalityType
<1>3. CASE Top(V, n) = {}
  BY <1>2, <1>3, FS_EmptySet
<1>4. CASE Top(V, n) # {}
  <2> DEFINE F == {Below(V, u) : u \in Top(V, n)}
  <2>1. F \in SUBSET (SUBSET V) /\ F # {}
    BY <1>4 DEF Below
  <2>2. PICK A \in F : \A B \in F : ~(B \subseteq A /\ B # A)
    <3> HIDE DEF F
    <3> QED BY <2>1, SmallestSet
  <2>3. PICK d \in Top(V, n) : A = Below(V, d)
    OBVIOUS
  <2>4. d \in V /\ d \in Versions
    BY <1>1
  <2>5. Top(V, n) \in SUBSET (Above(V, d) \cup {d})
    <3> SUFFICES ASSUME NEW w \in Top(V, n), w # d, ~Later(w, d) PROVE FALSE
      BY <1>1 DEF Above
    <3>1. w \in V /\ Later(d, w) /\ Below(V, w) \in F
      BY <1>1, <2>4, LaterOrders
    <3> QED BY <2>2, <2>3, <2>4, <3>1, AboveShrinks
  <2>6. IsFiniteSet(Above(V, d)) /\ Cardinality(Above(V, d)) \in Nat /\ d \notin Above(V, d)
    BY <2>4, Ranked, LaterOrders DEF Above
  <2>7. IsFiniteSet(Above(V, d) \cup {d})
        /\ Cardinality(Above(V, d) \cup {d}) = Cardinality(Above(V, d)) + 1
    BY <2>6, FS_AddElement
  <2>8. Cardinality(Top(V, n)) <= Cardinality(Above(V, d)) + 1
    BY <2>5, <2>7, FS_Subset
  <2>9. Cardinality(Above(V, d)) < n
    BY <2>3 DEF Top
  <2> QED BY <1>2, <2>6, <2>8, <2>9
<1> QED BY <1>2, <1>3, <1>4

\* A page is full if there is a version beyond it.
LEMMA PageIsFull ==
    ASSUME NEW V \in SUBSET Versions, IsFiniteSet(V), NEW m \in Nat, NEW k \in Nat,
           NEW v \in V, m + k <= Cardinality(Above(V, v))
    PROVE  k <= Cardinality(Top(V, m + k) \ Top(V, m))
<1>1. m + k <= Cardinality(Top(V, m + k))
  BY TopIsFull
<1>2. /\ Cardinality(Top(V, m)) <= m /\ Cardinality(Top(V, m)) \in Nat
      /\ Cardinality(Top(V, m + k)) \in Nat /\ IsFiniteSet(Top(V, m + k))
  BY TopIsBounded
<1>3. Top(V, m) \subseteq Top(V, m + k)
  BY Ranked DEF Top
<1>4. Top(V, m + k) \cap Top(V, m) = Top(V, m)
  BY <1>3
<1>5. Cardinality(Top(V, m + k) \ Top(V, m)) = Cardinality(Top(V, m + k)) - Cardinality(Top(V, m))
  BY <1>2, <1>4, FS_Difference
<1> QED BY <1>1, <1>2, <1>5

VersionsIn(releases, feature) == {s.version : s \in InFeature(releases, feature)}

\* A finite catalog has finitely many versions and features.
LEMMA VersionsAreFinite ==
    ASSUME NEW releases \in SUBSET Release, IsFiniteSet(releases), NEW feature
    PROVE  /\ VersionsIn(releases, feature) \in SUBSET Versions
           /\ IsFiniteSet(VersionsIn(releases, feature))
<1> DEFINE S == InFeature(releases, feature)
           f == [r \in S |-> r.version]
<1>1. S \in SUBSET releases
  BY DEF InFeature
<1>2. IsFiniteSet(S)
  BY <1>1, FS_Subset
<1>3. f \in Surjection(S, VersionsIn(releases, feature))
  BY DEF Surjection, VersionsIn
<1>4. VersionsIn(releases, feature) \in SUBSET Versions
  BY <1>1 DEF VersionsIn, Release
<1> HIDE DEF f, S
<1> QED BY <1>2, <1>3, <1>4, FS_Surjection

\* A rank counts the versions above.
LEMMA RankIsAbove ==
    ASSUME NEW releases, NEW feature, NEW version
    PROVE  Rank(releases, feature, version) = Cardinality(Above(VersionsIn(releases, feature), version))
  BY DEF Rank, Above, VersionsIn

\* What is published later leaves no version at a smaller rank.
LEMMA RanksGrow ==
    ASSUME NEW releases \in SUBSET Release, IsFiniteSet(releases),
           NEW more \in SUBSET Release, IsFiniteSet(more), NEW feature,
           VersionsIn(releases, feature) \subseteq VersionsIn(more, feature),
           NEW version \in Versions
    PROVE  /\ Rank(releases, feature, version) \in Nat /\ Rank(more, feature, version) \in Nat
           /\ Rank(releases, feature, version) <= Rank(more, feature, version)
<1> DEFINE V == VersionsIn(releases, feature)
           W == VersionsIn(more, feature)
<1>1. /\ V \in SUBSET Versions /\ IsFiniteSet(V) /\ W \in SUBSET Versions /\ IsFiniteSet(W)
      /\ V \subseteq W
  BY VersionsAreFinite
<1>2. /\ Rank(releases, feature, version) = Cardinality(Above(V, version))
      /\ Rank(more, feature, version) = Cardinality(Above(W, version))
  BY RankIsAbove
<1> HIDE DEF V, W
<1>3. Above(V, version) \in SUBSET Above(W, version)
  BY <1>1 DEF Above
<1>4. /\ Cardinality(Above(V, version)) \in Nat /\ Cardinality(Above(W, version)) \in Nat
      /\ IsFiniteSet(Above(W, version))
  BY <1>1, Ranked
<1> QED BY <1>2, <1>3, <1>4, FS_Subset

\* A page that is not full is the last one.
LEMMA LastPage ==
    ASSUME NEW releases \in SUBSET Release, IsFiniteSet(releases), NEW feature, NEW page \in Nat,
           Cardinality(Page(releases, feature, page)) < PageSize,
           NEW r \in InFeature(releases, feature)
    PROVE  Rank(releases, feature, r.version) < (page + 1) * PageSize
<1> DEFINE V == VersionsIn(releases, feature)
           P == Page(releases, feature, page)
           m == page * PageSize
           f == [q \in P |-> q.version]
<1>1. V \in SUBSET Versions /\ IsFiniteSet(V)
  BY VersionsAreFinite
<1>2. /\ m \in Nat /\ PageSize \in Nat /\ m + PageSize \in Nat
      /\ (page + 1) * PageSize = m + PageSize
  BY CatalogsAssumption
<1>3. P \in SUBSET releases
  BY DEF Page, InFeature
<1>4. IsFiniteSet(P) /\ Cardinality(P) \in Nat
  BY <1>3, FS_Subset, FS_CardinalityType
<1>5. r.version \in V
  BY DEF VersionsIn
<1>6. \A q \in InFeature(releases, feature) :
        /\ q.version \in V
        /\ Rank(releases, feature, q.version) = Cardinality(Above(V, q.version))
        /\ Cardinality(Above(V, q.version)) \in Nat
  <2> TAKE q \in InFeature(releases, feature)
  <2>1. q.version \in V
    BY DEF VersionsIn
  <2> HIDE DEF V
  <2>2. q.version \in Versions
    BY <1>1, <2>1
  <2> QED BY <1>1, <2>1, <2>2, RankIsAbove, Ranked DEF V
<1>7. Top(V, m + PageSize) \ Top(V, m) = {q.version : q \in P}
  <2>1. ASSUME NEW v \in Top(V, m + PageSize) \ Top(V, m) PROVE v \in {q.version : q \in P}
    <3>1. v \in V /\ Cardinality(Above(V, v)) < m + PageSize /\ ~(Cardinality(Above(V, v)) < m)
      BY DEF Top
    <3>2. PICK q \in InFeature(releases, feature) : v = q.version
      BY <3>1 DEF VersionsIn
    <3> HIDE DEF m, V
    <3>3. /\ m <= Rank(releases, feature, q.version)
          /\ Rank(releases, feature, q.version) < m + PageSize
      BY <1>2, <1>6, <3>1, <3>2
    <3> QED BY <1>2, <3>2, <3>3 DEF Page, m
  <2>2. ASSUME NEW q \in P PROVE q.version \in Top(V, m + PageSize) \ Top(V, m)
    <3>1. q \in InFeature(releases, feature) /\ m <= Rank(releases, feature, q.version)
          /\ Rank(releases, feature, q.version) < (page + 1) * PageSize
      BY DEF Page
    <3> HIDE DEF m, V
    <3> QED BY <1>2, <1>6, <3>1 DEF Top
  <2> QED BY <2>1, <2>2
<1>8. f \in Surjection(P, Top(V, m + PageSize) \ Top(V, m))
  BY <1>7 DEF Surjection
<1> HIDE DEF V, P, m, f
<1>9. /\ Cardinality(Top(V, m + PageSize) \ Top(V, m)) <= Cardinality(P)
      /\ Cardinality(Top(V, m + PageSize) \ Top(V, m)) \in Nat
  BY <1>4, <1>8, FS_Surjection, FS_CardinalityType
<1>10. Cardinality(P) < PageSize
  BY DEF P
<1>11. ~(m + PageSize <= Cardinality(Above(V, r.version)))
  BY <1>1, <1>2, <1>4, <1>5, <1>9, <1>10, PageIsFull
<1> QED BY <1>2, <1>6, <1>11

Greater(S, x) == {y \in S : y > x}

\* A finite set of numbers has a greatest one.
LEMMA FewestGreater ==
    ASSUME NEW S, IsFiniteSet(S), S # {}
    PROVE  \E x \in S : \A y \in S :
                ~(Greater(S, y) \subseteq Greater(S, x) /\ Greater(S, y) # Greater(S, x))
<1> DEFINE F == {Greater(S, x) : x \in S}
<1>1. F \in SUBSET (SUBSET S) /\ F # {}
  BY DEF Greater
<1>2. PICK A \in F : \A B \in F : ~(B \subseteq A /\ B # A)
  <2> HIDE DEF F
  <2> QED BY <1>1, SmallestSet
<1> QED BY <1>2

LEMMA Greatest ==
    ASSUME NEW S, S \subseteq Nat, IsFiniteSet(S), S # {}
    PROVE  MaxOf(S) \in S /\ \A y \in S : y <= MaxOf(S)
<1>1. PICK x \in S : \A y \in S :
        ~(Greater(S, y) \subseteq Greater(S, x) /\ Greater(S, y) # Greater(S, x))
  BY FewestGreater
<1>2. \A y \in S : y <= x
  <2> SUFFICES ASSUME NEW y \in S, y > x PROVE FALSE
    OBVIOUS
  <2>1. \A z \in S : z > y => z > x
    OBVIOUS
  <2>2. Greater(S, y) \subseteq Greater(S, x)
    BY <2>1 DEF Greater
  <2>3. y \in Greater(S, x) /\ y \notin Greater(S, y)
    BY DEF Greater
  <2> QED BY <1>1, <2>2, <2>3
<1> QED BY <1>2 DEF MaxOf

-----------------------------------------------------------------------------
(* The vendors.                                                            *)

Replaces(s, old, new) ==
    /\ old \in SUBSET catalog[s] /\ new \in Release /\ Listed(s, new)
    /\ \A r \in old : Kept(r, new)
    /\ \A r \in catalog[s] \ old : r.version # new.version /\ (s = "nightly" => r.date # new.date)
    /\ catalog' = [catalog EXCEPT ![s] = (@ \ old) \cup {new}]

\* A release that takes the place of one of its version, or of none, leaves a
\* source in order.
LEMMA SourceChanges ==
    ASSUME TypeOK, Orderly(catalog), NEW s \in Sources, NEW old, NEW new,
           Replaces(s, old, new)
    PROVE  /\ Orderly(catalog')
           /\ \A o \in Sources : \A r \in catalog[o] :
                \E c \in catalog'[o] : Kept(r, c) /\ (c = r \/ (o = s /\ r \in old /\ c = new))
<1>1. /\ catalog'[s] = (catalog[s] \ old) \cup {new}
      /\ \A o \in Sources \ {s} : catalog'[o] = catalog[o]
      /\ Listed(s, new) /\ \A r \in old : Kept(r, new)
      /\ \A r \in catalog[s] \ old : r.version # new.version /\ (s = "nightly" => r.date # new.date)
  BY DEF Replaces, TypeOK
<1>2. \A r : Kept(r, r)
  BY DEF Kept
<1>3. IsFiniteSet(catalog'[s])
  <2>1. IsFiniteSet(catalog[s])
    BY DEF Orderly
  <2>2. IsFiniteSet(catalog[s] \ old)
    BY <2>1, FS_Difference
  <2> QED BY <1>1, <2>2, FS_AddElement
<1>4. \A r \in catalog'[s] : Listed(s, r)
  BY <1>1 DEF Orderly
<1>5. \A q, r \in catalog'[s] :
        q.version = r.version \/ (s = "nightly" /\ q.date = r.date) => q = r
  BY <1>1 DEF Orderly
<1>6. Orderly(catalog')
  BY <1>1, <1>3, <1>4, <1>5 DEF Orderly
<1>7. ASSUME NEW o \in Sources, NEW r \in catalog[o]
      PROVE  \E c \in catalog'[o] : Kept(r, c) /\ (c = r \/ (o = s /\ r \in old /\ c = new))
  <2>1. CASE o = s /\ r \in old
    BY <1>1, <2>1
  <2>2. CASE ~(o = s /\ r \in old)
    <3>1. r \in catalog'[o]
      BY <1>1, <2>2
    <3> QED BY <1>2, <3>1
  <2> QED BY <2>1, <2>2
<1> QED BY <1>6, <1>7

\* Every release stays, with more files; what a vendor of Flutter builds again
\* is forgotten by the command that asks it.
LEMMA VendorsKeep ==
    ASSUME TypeOK, Orderly(catalog), Vendor
    PROVE  /\ Orderly(catalog')
           /\ \A o \in Sources : \A r \in catalog[o] : \E c \in catalog'[o] :
                /\ Kept(r, c)
                /\ o = "flutter" /\ user.tool = "flutter" =>
                        c.build = r.build \/ \A q \in user'.offered : q.version # r.version
           /\ \/ user' = user
              \/ \E gone \in SUBSET user.offered : user' = [user EXCEPT !.offered = gone]
<1>1. PICK s \in Sources : Announce(s) \/ Upload(s) \/ BuildAgain(s)
  BY DEF Vendor
<1>2. catalog[s] \subseteq Release
  BY DEF TypeOK
<1>3. CASE Announce(s)
  <2>1. PICK r \in Upcoming[s], ready \in SUBSET Targets :
            /\ \A q \in catalog[s] : q.version # r.version /\ (s = "nightly" => q.date # r.date)
            /\ catalog' = [catalog EXCEPT ![s] = @ \cup
                {[r EXCEPT !.offers = [t \in Targets |-> IF t \in ready THEN @[t] ELSE {}]]}]
    BY <1>3 DEF Announce
  <2> DEFINE part == [t \in Targets |-> IF t \in ready THEN r.offers[t] ELSE {}]
             new == [r EXCEPT !.offers = part]
  <2>2. r \in Release /\ Listed(s, r)
    BY SelectionsAssumption
  <2>3. part \in [Targets -> SUBSET Parts] /\ \A t \in Targets : part[t] # {} => r.offers[t] # {}
    BY <2>2 DEF Release
  <2>4. catalog' = [catalog EXCEPT ![s] = @ \cup {new}]
    BY <2>1
  <2> HIDE DEF part
  <2>5. /\ new \in Release /\ new.version = r.version /\ new.date = r.date
        /\ new.offers = part
    BY <2>2, <2>3 DEF Release
  <2> HIDE DEF new
  <2>6. Listed(s, new)
    BY <2>2, <2>3, <2>5 DEF Listed
  <2> DEFINE old == {q \in catalog[s] : FALSE}
  <2>7. Replaces(s, old, new)
    BY <2>1, <2>4, <2>5, <2>6 DEF Replaces
  <2>8. user' = user
    BY <1>3 DEF Announce, Others
  <2>9. /\ Orderly(catalog')
        /\ \A o \in Sources : \A q \in catalog[o] : \E c \in catalog'[o] : Kept(q, c) /\ c = q
    <3>1. /\ Orderly(catalog')
          /\ \A o \in Sources : \A q \in catalog[o] :
                \E c \in catalog'[o] : Kept(q, c) /\ (c = q \/ (o = s /\ q \in old /\ c = new))
      <4> HIDE DEF old
      <4> QED BY <2>7, SourceChanges
    <3> QED BY <3>1
  <2> QED BY <2>8, <2>9
<1>4. CASE Upload(s)
  <2>1. PICK r \in catalog[s], u \in Upcoming[s] :
            /\ u = [r EXCEPT !.offers = u.offers]
            /\ \A t \in Targets : r.offers[t] \subseteq u.offers[t]
            /\ catalog' = [catalog EXCEPT ![s] = (@ \ {r}) \cup {u}]
    BY <1>4 DEF Upload
  <2>2. r \in Release /\ u \in Release /\ Listed(s, u)
    BY <1>2, SelectionsAssumption
  <2>3. /\ u.version = r.version /\ u.date = r.date /\ u.lts = r.lts /\ u.build = r.build
    BY <2>1, <2>2 DEF Release
  <2>4. Kept(r, u)
    BY <2>1, <2>3 DEF Kept
  <2> DEFINE old == {r}
  <2>5. Replaces(s, old, u)
    BY <2>1, <2>2, <2>3, <2>4 DEF Orderly, Replaces
  <2>6. user' = user
    BY <1>4 DEF Upload, Others
  <2>7. /\ Orderly(catalog')
        /\ \A o \in Sources : \A q \in catalog[o] :
            \E c \in catalog'[o] : Kept(q, c) /\ (c = q \/ (o = s /\ q \in old /\ c = u))
    <3> HIDE DEF old
    <3> QED BY <2>5, SourceChanges
  <2> QED BY <2>3, <2>6, <2>7
<1>5. CASE BuildAgain(s)
  <2>1. PICK r \in catalog[s], b \in Builds :
            catalog' = [catalog EXCEPT ![s] = (@ \ {r}) \cup {[r EXCEPT !.build = b]}]
            /\ user' = IF s = "flutter" /\ user.tool = "flutter"
                       THEN [user EXCEPT !.offered = {q \in @ : q.version # r.version}]
                       ELSE user
    BY <1>5 DEF BuildAgain
  <2> DEFINE new == [r EXCEPT !.build = b]
  <2>2. r \in Release /\ Listed(s, r)
    BY <1>2 DEF Orderly
  <2>3. /\ new \in Release /\ new.version = r.version /\ new.date = r.date
        /\ new.lts = r.lts /\ new.offers = r.offers
    BY <2>2 DEF Release
  <2>4. catalog' = [catalog EXCEPT ![s] = (@ \ {r}) \cup {new}]
    BY <2>1
  <2> HIDE DEF new
  <2>5. Listed(s, new) /\ Kept(r, new)
    BY <2>2, <2>3 DEF Listed, Kept
  <2> DEFINE old == {r}
  <2>6. Replaces(s, old, new)
    BY <2>3, <2>4, <2>5 DEF Orderly, Replaces
  <2>7. /\ Orderly(catalog')
        /\ \A o \in Sources : \A q \in catalog[o] :
            \E c \in catalog'[o] : Kept(q, c) /\ (c = q \/ (o = s /\ q \in old /\ c = new))
    <3> HIDE DEF old
    <3> QED BY <2>6, SourceChanges
  <2>8. s = "flutter" /\ user.tool = "flutter" =>
            \A q \in user'.offered : q.version # r.version
    BY <2>1 DEF TypeOK, User
  <2>9. \/ user' = user
        \/ \E gone \in SUBSET user.offered : user' = [user EXCEPT !.offered = gone]
    BY <2>1
  <2> QED BY <2>7, <2>8, <2>9
<1> QED BY <1>1, <1>3, <1>4, <1>5

-----------------------------------------------------------------------------
(* What was offered.                                                       *)

LEMMA KeptIsKept ==
    ASSUME NEW q, NEW r, NEW s, Kept(q, r), Kept(r, s)
    PROVE  Kept(q, s)
  BY DEF Kept

\* What answers the question is still offered, and still answers it.
LEMMA StillOffered ==
    ASSUME TypeOK, UserIsKnown, OffersStay, Using, NEW r \in Candidates,
           NEW source, source = Index(user.tool, user.selector)
    PROVE  /\ r \in Release /\ r \in user.offered /\ source \in Sources
           /\ \E c \in Usable(source, catalog[source]) :
                /\ c \in catalog[source] /\ c \in Release /\ Matches(c, user.selector)
                /\ Kept(r, c) /\ (source = "flutter" => c.build = r.build)
                /\ source \in {"java", "standalone", "flutter"} => Offered(c) # {}
<1>1. /\ r \in user.offered /\ Matches(r, user.selector)
      /\ user.offered \subseteq Release /\ source \in Sources /\ catalog[source] \subseteq Release
  BY Reads DEF Candidates, User
<1>2. PICK c \in catalog[source] : Kept(r, c) /\ (source = "flutter" => c.build = r.build)
  BY <1>1 DEF OffersStay
<1>3. source \in {"java", "standalone", "flutter"} => Offered(r) # {}
  BY <1>1 DEF OffersStay
<1>4. Offered(r) # {} => Offered(c) # {}
  BY <1>2 DEF Kept, Offered
<1>5. Matches(c, user.selector)
  BY <1>1, <1>2 DEF Kept, Matches
<1>6. c \in Usable(source, catalog[source])
  BY <1>3, <1>4 DEF Usable
<1> QED BY <1>1, <1>2, <1>3, <1>4, <1>5, <1>6

\* The first match of an index is not older than what was offered.
LEMMA IndexIsNewest ==
    ASSUME TypeOK, UserIsKnown, OffersStay, Using,
           NEW source, source = Index(user.tool, user.selector),
           NEW r \in First(Usable(source, catalog[source]), user.selector)
    PROVE  NoneLater(r.version)
<1> SUFFICES ASSUME NEW q \in Candidates PROVE ~Later(q.version, r.version)
  BY DEF NoneLater
<1>1. PICK c \in Usable(source, catalog[source]) : Matches(c, user.selector) /\ Kept(q, c)
  BY StillOffered
<1>2. source \in Sources /\ catalog[source] \subseteq Release
  BY Reads
<1>3. Usable(source, catalog[source]) \in SUBSET Release
  BY <1>2, UsableOnly
<1>4. ~Later(c.version, r.version)
  BY <1>1, <1>3, FirstIsNewest
<1> QED BY <1>1, <1>4 DEF Kept

\* While the command reads, its question and what was offered stay.
LEMMA OffersRemain ==
    ASSUME OffersStay, Using, UNCHANGED Reading, Asks(user'), user'.offered = user.offered
    PROVE  OffersStay' /\ Candidates' = Candidates
  BY DEF OffersStay, Candidates, Asks, Reading, Using

\* A choice or an answer than which nothing is later.
LEMMA ChoosesNewest ==
    ASSUME OffersStay, Using, UNCHANGED Reading, Asks(user'), user'.offered = user.offered,
           user'.step \in {"details", "checksum", "fallback", "resolved"},
           user'.chosen # None => NoneLater(user'.chosen.version),
           user'.step = "details" => user'.chosen # None,
           user'.step = "fallback" /\ user'.chosen = None => Candidates = {},
           user'.step = "resolved" => NoneLater(user'.entry.version)
    PROVE  NewestInv'
<1>1. OffersStay' /\ Candidates' = Candidates
  BY OffersRemain
<1>2. ChoiceIsNewest'
  BY <1>1 DEF ChoiceIsNewest, NoneLater
<1>3. PagesAreTurned' /\ IndexesAreRead'
  BY DEF PagesAreTurned, IndexesAreRead
<1>4. ResolvesToNewest'
  BY <1>1 DEF ResolvesToNewest, NoneLater, Candidates
<1> QED BY <1>1, <1>2, <1>3, <1>4 DEF NewestInv

\* An answer, when the choice stays what it was.
LEMMA AnswersNewest ==
    ASSUME TypeOK, UserIsKnown, NewestInv, Using, UNCHANGED Reading,
           NEW entry, Resolved(entry), NoneLater(entry.version)
    PROVE  NewestInv'
<1>1. /\ user \in User
      /\ user.chosen # None => NoneLater(user.chosen.version)
  BY DEF TypeOK, NewestInv, ChoiceIsNewest
<1>2. /\ Asks(user') /\ user'.step = "resolved" /\ user'.entry = entry
      /\ user'.chosen = user.chosen /\ user'.offered = user.offered
  BY <1>1 DEF Resolved, User, Asks
<1>3. OffersStay
  BY DEF NewestInv
<1> QED BY <1>1, <1>2, <1>3, ChoosesNewest

-----------------------------------------------------------------------------
(* What `use` reads.                                                       *)

LEMMA EntryVersion ==
    ASSUME NEW r, NEW targets
    PROVE  /\ Entry(r, targets).version = r.version
           /\ Undated(Entry(r, targets)).version = r.version
  BY DEF Entry, Locked, Undated

LEMMA IndexNewest ==
    ASSUME TypeOK, UserIsKnown, NewestInv, ReadIndex \/ NotListed
    PROVE  NewestInv'
<1> DEFINE source == Index(user.tool, user.selector)
<1>1. Using /\ UNCHANGED Reading /\ user.step = "index" /\ user \in User
      /\ OffersStay /\ user.chosen = None
  BY DEF ReadIndex, NotListed, Using, NewestInv, ChoiceIsNewest, TypeOK
<1>2. CASE ReadIndex
  <2>1. PICK r \in First(Usable(source, catalog[source]), user.selector) :
            \/ Resolved(Undated(Entry(r, Offered(r))))
            \/ Resolved(Entry(r, Offered(r)))
            \/ user' = [user EXCEPT !.chosen = r, !.step = "details"]
    BY <1>2 DEF ReadIndex
  <2>2. NoneLater(r.version)
    BY <1>1, <2>1, IndexIsNewest
  <2>3. CASE Resolved(Undated(Entry(r, Offered(r)))) \/ Resolved(Entry(r, Offered(r)))
    BY <1>1, <2>2, <2>3, EntryVersion, AnswersNewest
  <2>4. CASE user' = [user EXCEPT !.chosen = r, !.step = "details"]
    <3>1. /\ Asks(user') /\ user'.step = "details" /\ user'.chosen = r
          /\ user'.offered = user.offered
      BY <1>1, <2>4 DEF User, Asks
    <3>2. r # None
      <4>1. r \in catalog[source] /\ catalog[source] \subseteq Release
        BY <1>1, <2>1, FirstMatches, UsableOnly, Reads
      <4> QED BY <4>1, NotListedNone
    <3> QED BY <1>1, <2>2, <3>1, <3>2, ChoosesNewest
  <2> QED BY <2>1, <2>3, <2>4
<1>3. CASE NotListed
  <2>1. /\ source = "python" /\ user' = [user EXCEPT !.step = "fallback"]
        /\ \A r \in catalog["python"] : ~Matches(r, user.selector)
    BY <1>3 DEF NotListed
  <2>2. Candidates = {}
    <3> SUFFICES ASSUME NEW r \in Candidates PROVE FALSE
      OBVIOUS
    <3>1. \E c \in catalog["python"] : Matches(c, user.selector)
      BY <1>1, <2>1, StillOffered
    <3> QED BY <2>1, <3>1
  <2>3. /\ Asks(user') /\ user'.step = "fallback" /\ user'.chosen = None
        /\ user'.offered = user.offered
    BY <1>1, <2>1 DEF User, Asks
  <2> QED BY <1>1, <2>2, <2>3, ChoosesNewest
<1> QED BY <1>2, <1>3

\* npm: an exact version is the only one that answers.
LEMMA ExactVersion ==
    ASSUME TypeOK, UserIsKnown, OffersStay, Using, user.tool \in {"pnpm", "bun"},
           ~NeedsIndex(user.tool, user.selector),
           NEW r \in catalog[user.tool], Matches(r, user.selector)
    PROVE  NoneLater(r.version)
<1> SUFFICES ASSUME NEW q \in Candidates PROVE q.version = r.version
  <2>1. \A q \in Candidates : q.version \in Versions
    BY Reads DEF Candidates, User, Release
  <2> QED BY <2>1, LaterOrders DEF NoneLater
<1>1. user.selector.date = None /\ user.selector \in Selectors
  BY Reads DEF IsSelector
<1>2. Len(user.selector.parts) = 3
  BY <1>1 DEF NeedsIndex
<1>3. Index(user.tool, user.selector) = user.tool
  BY <1>1 DEF Index
<1>4. PICK c \in catalog[user.tool] : Kept(q, c) /\ c \in Release /\ Matches(c, user.selector)
  BY <1>3, StillOffered
<1>5. user.tool \in Sources /\ r \in Release
  BY Reads DEF Sources
<1>6. r.version[4] = 0 /\ c.version[4] = 0
  BY <1>4, <1>5 DEF OffersStay, Orderly, Listed
<1>7. \A i \in 1 .. 3 : r.version[i] = user.selector.parts[i] /\ c.version[i] = user.selector.parts[i]
  BY <1>1, <1>2, <1>4, <1>5, MatchesParts DEF Release
<1>8. r.version \in [1 .. 4 -> Nat] /\ c.version \in [1 .. 4 -> Nat]
  BY <1>4, <1>5, CatalogsAssumption DEF Release
<1>9. \A i \in 1 .. 4 : r.version[i] = c.version[i]
  BY <1>6, <1>7
<1>10. r.version = c.version
  BY <1>8, <1>9
<1> QED BY <1>4, <1>10 DEF Kept

LEMMA FilesNewest ==
    ASSUME TypeOK, UserIsKnown, NewestInv, ReadNodeManifest \/ ReadPackages \/ ReadPythonFiles
    PROVE  NewestInv'
<1>1. /\ Using /\ UNCHANGED Reading /\ user.step = "details" /\ user \in User
      /\ user.tool \in {"node", "pnpm", "bun", "python"} /\ OffersStay
  BY DEF ReadNodeManifest, ReadPackages, ReadPythonFiles, Using, NewestInv, TypeOK
<1>2. /\ user.chosen # None => NoneLater(user.chosen.version)
      /\ user.chosen = None => ~NeedsIndex(user.tool, user.selector)
      /\ user.tool \in {"node", "python"} => user.chosen # None
  BY <1>1 DEF NewestInv, ChoiceIsNewest, UserIsKnown
<1>3. PICK r \in catalog[user.tool] :
        /\ IF user.chosen # None THEN r.version = user.chosen.version ELSE Matches(r, user.selector)
        /\ \/ \E targets : Resolved(Entry(r, targets))
           \/ user.tool = "python" /\ user' = [user EXCEPT !.step = "fallback"]
  BY <1>1, <1>2 DEF ReadNodeManifest, ReadPackages, ReadPythonFiles
<1>4. NoneLater(r.version)
  <2>1. CASE user.chosen # None
    BY <1>2, <1>3, <2>1
  <2>2. CASE user.chosen = None
    BY <1>1, <1>2, <1>3, <2>2, ExactVersion
  <2> QED BY <2>1, <2>2
<1>5. CASE \E targets : Resolved(Entry(r, targets))
  BY <1>1, <1>4, <1>5, EntryVersion, AnswersNewest
<1>6. CASE user.tool = "python" /\ user' = [user EXCEPT !.step = "fallback"]
  <2>1. /\ Asks(user') /\ user'.step = "fallback" /\ user'.chosen = user.chosen
        /\ user'.offered = user.offered
    BY <1>1, <1>6 DEF User, Asks
  <2> QED BY <1>1, <1>2, <1>6, <2>1, ChoosesNewest
<1> QED BY <1>3, <1>5, <1>6

LEMMA RustNewest ==
    ASSUME TypeOK, UserIsKnown, NewestInv, ReadRustManifest \/ ReadRustChecksum
    PROVE  NewestInv'
<1>1. /\ Using /\ UNCHANGED Reading /\ user \in User /\ OffersStay
      /\ user.chosen # None => NoneLater(user.chosen.version)
  <2>1. Using /\ UNCHANGED Reading
    BY DEF ReadRustManifest, ReadRustChecksum, Using
  <2> QED BY <2>1 DEF NewestInv, ChoiceIsNewest, TypeOK
<1>2. CASE ReadRustManifest
  <2>1. PICK r \in catalog[RustSource] :
            /\ IF user.selector.date # None THEN r.date = user.selector.date
               ELSE r.version = user.chosen.version /\ r.date = user.chosen.date
            /\ user' = [user EXCEPT !.chosen = r, !.step = "checksum"]
    BY <1>2 DEF ReadRustManifest
  <2>2. user.tool = "rust" /\ user.step = "details"
    BY <1>2 DEF ReadRustManifest
  <2>3. NoneLater(r.version)
    <3>1. CASE user.selector.date = None
      <4>1. user.chosen # None
        BY <2>2, <3>1 DEF UserIsKnown
      <4> QED BY <1>1, <2>1, <3>1, <4>1
    <3>2. CASE user.selector.date # None
      <4>1. RustSource = "nightly" /\ Index(user.tool, user.selector) = "nightly"
        BY <2>2, <3>2 DEF RustSource, Index
      <4>2. ASSUME NEW q \in Candidates PROVE ~Later(q.version, r.version)
        <5>1. PICK c \in catalog["nightly"] : Kept(q, c) /\ c \in Release /\ Matches(c, user.selector)
          BY <1>1, <4>1, StillOffered
        <5>2. c.date = r.date
          BY <2>1, <3>2, <5>1 DEF Matches
        <5>3. c = r
          BY <1>1, <2>1, <4>1, <5>1, <5>2 DEF OffersStay, Orderly, Sources
        <5>4. q.version = r.version /\ r.version \in Versions
          BY <5>1, <5>3 DEF Kept, Release
        <5> QED BY <5>4, LaterOrders
      <4> QED BY <4>2 DEF NoneLater
    <3> QED BY <3>1, <3>2
  <2>4. /\ Asks(user') /\ user'.step = "checksum" /\ user'.chosen = r
        /\ user'.offered = user.offered
    BY <1>1, <2>1 DEF User, Asks
  <2> QED BY <1>1, <2>3, <2>4, ChoosesNewest
<1>3. CASE ReadRustChecksum
  <2>1. user.chosen # None /\ Resolved(Entry(user.chosen, Complete(user.chosen)))
    BY <1>3 DEF ReadRustChecksum, UserIsKnown
  <2> QED BY <1>1, <2>1, EntryVersion, AnswersNewest
<1> QED BY <1>2, <1>3

\* python.org's versions have no build number: a build of the version that it
\* lists is not older than what it offered.
LEMMA StandaloneNewest ==
    ASSUME TypeOK, UserIsKnown, NewestInv, ReadStandalone
    PROVE  NewestInv'
<1>1. /\ Using /\ UNCHANGED Reading /\ user.step = "fallback" /\ user.tool = "python"
      /\ OffersStay
  BY DEF ReadStandalone, Using, UserIsKnown, NewestInv
<1> DEFINE asked == IF user.chosen = None THEN user.selector
                    ELSE [user.selector EXCEPT !.parts = SubSeq(user.chosen.version, 1, 3)]
<1>2. PICK r \in First(Usable("standalone", catalog["standalone"]), asked) :
            Resolved(Entry(r, Offered(r)))
  BY DEF ReadStandalone
<1>3. r \in Release /\ Matches(r, asked)
  BY <1>1, <1>2, FirstMatches, UsableOnly, Reads DEF Sources
<1>4. NoneLater(r.version)
  <2>1. CASE user.chosen = None
    BY <1>1, <2>1 DEF NewestInv, ChoiceIsNewest, NoneLater
  <2>2. CASE user.chosen # None
    <3> DEFINE head == SubSeq(user.chosen.version, 1, 3)
    <3>1. /\ user.chosen \in Release /\ Len(user.selector.parts) <= 3
          /\ NoneLater(user.chosen.version)
      BY <1>1, <2>2, Reads DEF UserIsKnown, NewestInv, ChoiceIsNewest
    <3>2. user.chosen.version \in Seq(Nat) /\ Len(user.chosen.version) = 4
          /\ r.version \in Seq(Nat) /\ Len(r.version) = 4
      BY <1>3, <3>1, VersionLength DEF Release
    <3>3. Len(head) = 3 /\ \A i \in 1 .. 3 : head[i] = user.chosen.version[i]
      BY <3>2
    <3>4. SubSeq(r.version, 1, 3) = head
      <4>1. user.selector \in Selector
        BY <1>1, Reads, CatalogsAssumption
      <4>2. asked.parts = head
        BY <2>2, <4>1 DEF Selector
      <4> HIDE DEF asked, head
      <4> QED BY <1>3, <3>3, <4>2 DEF Matches
    <3>5. \A i \in 1 .. 3 : r.version[i] = user.chosen.version[i]
      <4>1. \A i \in 1 .. 3 : SubSeq(r.version, 1, 3)[i] = r.version[i]
        BY <3>2
      <4> HIDE DEF head
      <4> QED BY <3>3, <3>4, <4>1
    <3> HIDE DEF head
    <3>6. ASSUME NEW q \in Candidates PROVE ~Later(q.version, r.version)
      <4>1. Index(user.tool, user.selector) \in {"python"}
        <5>1. Len(user.selector.parts) # 4
          <6>1. Len(user.selector.parts) \in Nat
            BY <1>1, <1>3, Reads, MatchesParts DEF Release
          <6>2. \A n \in Nat : n <= 3 => n # 4
            OBVIOUS
          <6> QED BY <3>1, <6>1, <6>2
        <5>2. user.selector.date = None
          BY <1>1, Reads DEF IsSelector
        <5> QED BY <1>1, <5>1, <5>2 DEF Index
      <4>2. PICK c \in catalog["python"] : Kept(q, c)
        BY <1>1, <4>1, StillOffered
      <4>3. q.version[4] = 0
        BY <1>1, <4>2 DEF OffersStay, Orderly, Listed, Kept, Sources, CatalogTools
      <4>4. q.version \in Versions /\ user.chosen.version \in Versions /\ r.version \in Versions
        BY <1>1, <1>3, <3>1, StillOffered DEF Release
      <4>5. ~Later(q.version, user.chosen.version)
        BY <3>1 DEF NoneLater
      <4>6. /\ r.version[1] = user.chosen.version[1] /\ r.version[2] = user.chosen.version[2]
            /\ r.version[3] = user.chosen.version[3]
        BY <3>5
      <4> QED BY <4>3, <4>4, <4>5, <4>6, LaterParts, VersionParts
    <3> QED BY <3>6 DEF NoneLater
  <2> QED BY <2>1, <2>2
<1> QED BY <1>1, <1>2, <1>4, EntryVersion, AnswersNewest

\* A page of Java's releases: what was offered of its feature and comes before
\* the end of the page was read, or is read now.
LEMMA PageReads ==
    ASSUME TypeOK, UserIsKnown, NewestInv, user.step = "pages", user.tool = "java",
           user.features # {},
           NEW feature, feature = MaxOf(user.features),
           NEW page, page = Page(catalog["java"], feature, user.page),
           NEW read, read = user.read \cup {r \in Usable("java", page) :
                                \A s \in user.read : s.version # r.version},
           NEW q \in Candidates, Feature(q) = feature
    PROVE  /\ Rank(catalog["java"], feature, q.version) \in Nat
           /\ \/ \E e \in read : e.version = q.version
              \/ (user.page + 1) * PageSize <= Rank(catalog["java"], feature, q.version)
           /\ Cardinality(page) < PageSize => \E e \in read : e.version = q.version
<1> DEFINE rank == Rank(catalog["java"], feature, q.version)
           releases == catalog["java"]
<1>1. /\ Using /\ user.page \in Nat /\ user \in User /\ PageSize \in Nat /\ OffersStay
      /\ PagesAreTurned
  BY CatalogsAssumption DEF Using, TypeOK, User, NewestInv
<1>2. Index(user.tool, user.selector) = "java"
  BY <1>1, Reads DEF Index, IsSelector
<1>3. PICK c \in releases : Kept(q, c) /\ c \in Release /\ Offered(c) # {}
  BY <1>1, <1>2, StillOffered
<1>4. releases \in SUBSET Release /\ IsFiniteSet(releases)
  BY <1>1, Reads DEF OffersStay, Orderly, Sources, CatalogTools
<1>5. c.version = q.version /\ q.version \in Versions
  BY <1>3 DEF Kept, Release
<1>6. rank \in Nat
  <2> HIDE DEF releases
  <2> QED BY <1>4, <1>5, RanksGrow DEF releases
<1>7. c \in InFeature(releases, feature)
  BY <1>3, <1>5 DEF InFeature, Feature
<1>8. (\E e \in user.read : e.version = q.version) \/ user.page * PageSize <= rank
  BY <1>1 DEF PagesAreTurned
<1>9. ASSUME user.page * PageSize <= rank, rank < (user.page + 1) * PageSize
      PROVE  \E e \in read : e.version = q.version
  <2>1. c \in page
    BY <1>5, <1>7, <1>9 DEF Page
  <2>2. c \in Usable("java", page)
    BY <1>3, <2>1 DEF Usable
  <2> QED BY <1>5, <2>2
<1>10. user.page * PageSize \in Nat /\ (user.page + 1) * PageSize \in Nat
  BY <1>1
<1>11. ASSUME Cardinality(page) < PageSize
       PROVE  rank < (user.page + 1) * PageSize
  <2> HIDE DEF releases
  <2>1. Cardinality(Page(releases, feature, user.page)) < PageSize
    BY <1>11 DEF releases
  <2>2. Rank(releases, feature, c.version) < (user.page + 1) * PageSize
    BY <1>1, <1>4, <1>7, <2>1, LastPage
  <2> QED BY <1>5, <2>2 DEF releases
<1> HIDE DEF rank
<1>12. (\E e \in read : e.version = q.version) \/ (user.page + 1) * PageSize <= rank
  BY <1>6, <1>8, <1>9, <1>10
<1>13. Cardinality(page) < PageSize => \E e \in read : e.version = q.version
  BY <1>6, <1>8, <1>9, <1>10, <1>11
<1> QED BY <1>6, <1>12, <1>13 DEF rank

LEMMA LaterRanksFirst ==
    ASSUME NEW releases \in SUBSET Release, IsFiniteSet(releases), NEW feature,
           NEW q \in InFeature(releases, feature), NEW r \in InFeature(releases, feature),
           Later(q.version, r.version)
    PROVE  Rank(releases, feature, q.version) < Rank(releases, feature, r.version)
<1> DEFINE V == VersionsIn(releases, feature)
<1>1. V \in SUBSET Versions /\ IsFiniteSet(V)
  BY VersionsAreFinite
<1>2. q.version \in V /\ r.version \in V
  BY DEF VersionsIn
<1> HIDE DEF V
<1>3. Cardinality(Above(V, q.version)) < Cardinality(Above(V, r.version))
  BY <1>1, <1>2, Ranked
<1> QED BY <1>3, RankIsAbove DEF V

\* Java: the choice from the pages that were read.
LEMMA PagesChooseNewest ==
    ASSUME TypeOK, UserIsKnown, NewestInv, user.step = "pages", user.tool = "java",
           user.features # {},
           NEW feature, feature = MaxOf(user.features),
           NEW page, page = Page(catalog["java"], feature, user.page),
           NEW read, read = user.read \cup {r \in Usable("java", page) :
                                \A s \in user.read : s.version # r.version},
           Floating(user.selector) \/ Cardinality(page) < PageSize,
           NEW r \in First(read, user.selector)
    PROVE  NoneLater(r.version)
<1> DEFINE releases == catalog["java"]
           selector == user.selector
<1>1. /\ Using /\ user.page \in Nat /\ user \in User /\ OffersStay /\ PagesAreTurned
      /\ selector \in Selectors /\ IsSelector("java", selector)
      /\ user.features \subseteq Nat /\ user.read \subseteq Release
  <2>1. Using /\ user \in User /\ OffersStay /\ PagesAreTurned
    BY DEF Using, TypeOK, NewestInv
  <2> QED BY <2>1, Reads DEF User
<1>2. feature \in user.features /\ \A f \in user.features : f <= feature
  BY <1>1, Greatest DEF PagesAreTurned
<1>3. releases \in SUBSET Release /\ IsFiniteSet(releases)
      /\ \A a, b \in releases : a.version = b.version => a = b
  BY <1>1, Reads DEF OffersStay, Orderly, Sources, CatalogTools
<1>4. page \subseteq InFeature(releases, feature) /\ InFeature(releases, feature) \subseteq releases
  BY DEF Page, InFeature
<1>5. read \in SUBSET Release /\ r \in read /\ Matches(r, selector)
  <2>1. Usable("java", page) \subseteq page
    BY UsableOnly
  <2> HIDE DEF releases
  <2> QED BY <1>1, <1>3, <1>4, <2>1, FirstMatches
<1> SUFFICES ASSUME NEW q \in Candidates PROVE ~Later(q.version, r.version)
  BY DEF NoneLater
<1>6. PICK c \in releases : Kept(q, c) /\ c \in Release /\ Matches(c, selector)
  <2>1. Index(user.tool, selector) = "java"
    BY <1>1 DEF Index, IsSelector
  <2> QED BY <1>1, <2>1, StillOffered
<1>7. c.version = q.version /\ q.version \in Versions /\ r.version \in Versions
      /\ q.version[1] \in Nat /\ r.version[1] \in Nat
  <2>1. c.version = q.version /\ q.version \in Versions /\ r.version \in Versions
    BY <1>5, <1>6 DEF Kept, Release
  <2> QED BY <2>1, VersionParts
<1>8. q.version[1] <= feature
  <2>1. PICK f \in user.features : q.version[1] <= f
    BY <1>1 DEF PagesAreTurned, Feature
  <2>2. f \in Nat /\ feature \in Nat /\ f <= feature
    BY <1>1, <1>2
  <2> QED BY <1>7, <2>1, <2>2
\* What was read of the version that was offered.
<1>9. ASSUME NEW e \in read, e.version = q.version, Matches(e, selector)
      PROVE  ~Later(q.version, r.version)
  BY <1>5, <1>9, FirstIsNewest
<1>10. CASE Floating(selector)
  <2>1. user.read = {} /\ read \subseteq page
    BY <1>1, <1>10, UsableOnly DEF PagesAreTurned
  <2>2. r \in InFeature(releases, feature) /\ r.version[1] = feature
    BY <1>4, <1>5, <2>1 DEF InFeature, Feature
  <2>3. CASE q.version[1] # feature
    <3>1. feature \in Nat /\ q.version[1] < r.version[1]
      BY <1>1, <1>2, <1>7, <1>8, <2>2, <2>3
    <3> QED BY <1>7, <3>1, LaterParts
  <2>4. CASE q.version[1] = feature
    <3>1. \/ \E e \in read : e.version = q.version
          \/ (user.page + 1) * PageSize <= Rank(releases, feature, q.version)
      BY <2>4, PageReads DEF Feature
    <3>2. CASE \E e \in read : e.version = q.version
      <4>1. PICK e \in read : e.version = q.version
        BY <3>2
      <4>2. e = c
        BY <1>3, <1>4, <1>6, <1>7, <2>1, <4>1
      <4> QED BY <1>6, <1>9, <4>1, <4>2
    <3>3. CASE (user.page + 1) * PageSize <= Rank(releases, feature, q.version)
      <4>1. Rank(releases, feature, r.version) < (user.page + 1) * PageSize
        BY <1>5, <2>1 DEF Page
      <4>2. c \in InFeature(releases, feature)
        BY <1>6, <1>7, <2>4 DEF InFeature, Feature
      <4> HIDE DEF releases
      <4>3. Rank(releases, feature, r.version) \in Nat /\ Rank(releases, feature, q.version) \in Nat
        BY <1>3, <1>7, RanksGrow
      <4>4. (user.page + 1) * PageSize \in Nat
        BY <1>1, CatalogsAssumption
      <4>5. ~(Rank(releases, feature, q.version) < Rank(releases, feature, r.version))
        BY <3>3, <4>1, <4>3, <4>4
      <4> QED BY <1>3, <1>7, <2>2, <4>2, <4>5, LaterRanksFirst
    <3> QED BY <3>1, <3>2, <3>3
  <2> QED BY <2>3, <2>4
<1>11. CASE ~Floating(selector)
  <2>1. Len(selector.parts) \in Nat /\ ~(Len(selector.parts) <= 2)
    BY <1>1, <1>5, <1>11, MatchesParts DEF Floating, Release
  <2>2. selector.parts # <<>>
    BY <2>1
  <2>3. ~selector.lts /\ selector.date = None
    BY <1>1, <2>2 DEF IsSelector
  <2>4. q.version[1] = feature
    BY <1>1, <1>2, <2>2, <2>3 DEF PagesAreTurned, Feature
  <2>5. PICK e \in read : e.version = q.version
    <3>1. Cardinality(page) < PageSize
      BY <1>11
    <3>2. Feature(q) = feature
      BY <2>4 DEF Feature
    <3>3. Cardinality(page) < PageSize => \E e \in read : e.version = q.version
      BY <3>2, PageReads
    <3> QED BY <3>1, <3>3
  <2>6. Matches(e, selector)
    BY <1>6, <1>7, <2>3, <2>5 DEF Matches
  <2> QED BY <1>9, <2>5, <2>6
<1> QED BY <1>10, <1>11

LEMMA JavaNewest ==
    ASSUME TypeOK, UserIsKnown, NewestInv, ReadJavaPage
    PROVE  NewestInv'
<1> DEFINE feature == MaxOf(user.features)
           page == Page(catalog["java"], feature, user.page)
           read == user.read \cup {r \in Usable("java", page) :
                        \A s \in user.read : s.version # r.version}
           releases == catalog["java"]
           last == Cardinality(page) < PageSize
<1>1. /\ user.step = "pages" /\ user.tool = "java" /\ user.features # {} /\ UNCHANGED Reading
      /\ Using /\ user \in User /\ OffersStay /\ PagesAreTurned /\ user.chosen = None
      /\ user.page \in Nat /\ user.features \subseteq Nat
  <2>1. user.step = "pages" /\ user.tool = "java" /\ user.features # {} /\ UNCHANGED Reading
    BY DEF ReadJavaPage
  <2> QED BY <2>1 DEF Using, NewestInv, ChoiceIsNewest, TypeOK, User
<1>2. \/ (Floating(user.selector) \/ last) /\ Choose(read)
      \/ /\ ~(Floating(user.selector) /\ read # {})
         /\ user' = [user EXCEPT !.read = read, !.page = @ + 1]
      \/ /\ ~(Floating(user.selector) /\ read # {})
         /\ last /\ user.features # {feature}
         /\ user' = [user EXCEPT !.read = read, !.page = 0, !.features = @ \ {feature}]
  BY DEF ReadJavaPage
<1>3. feature \in user.features /\ \A f \in user.features : f <= feature
  BY <1>1, Greatest DEF PagesAreTurned
<1>4. \A q \in Candidates : Feature(q) = feature =>
        /\ Rank(catalog["java"], feature, q.version) \in Nat
        /\ \/ \E e \in read : e.version = q.version
           \/ (user.page + 1) * PageSize <= Rank(catalog["java"], feature, q.version)
        /\ last => \E e \in read : e.version = q.version
  <2> SUFFICES ASSUME NEW q \in Candidates, Feature(q) = feature
               PROVE  /\ Rank(catalog["java"], feature, q.version) \in Nat
                      /\ \/ \E e \in read : e.version = q.version
                         \/ (user.page + 1) * PageSize <= Rank(catalog["java"], feature, q.version)
                      /\ last => \E e \in read : e.version = q.version
    OBVIOUS
  <2>1. /\ page = Page(catalog["java"], feature, user.page)
        /\ read = user.read \cup {r \in Usable("java", page) :
                        \A s \in user.read : s.version # r.version}
        /\ feature = MaxOf(user.features)
    OBVIOUS
  <2>2. last <=> Cardinality(page) < PageSize
    OBVIOUS
  <2> HIDE DEF read, last, page, feature
  <2>3. /\ Rank(catalog["java"], feature, q.version) \in Nat
        /\ \/ \E e \in read : e.version = q.version
           \/ (user.page + 1) * PageSize <= Rank(catalog["java"], feature, q.version)
        /\ Cardinality(page) < PageSize => \E e \in read : e.version = q.version
    <3>1. user.step = "pages" /\ user.tool = "java" /\ user.features # {}
      BY <1>1
    <3> QED BY <2>1, <3>1, PageReads
  <2> QED BY <2>2, <2>3
<1> HIDE DEF read, last, page
<1>5. CASE (Floating(user.selector) \/ last) /\ Choose(read)
  <2>1. PICK r \in First(read, user.selector) :
            user' = [user EXCEPT !.step = "resolved", !.chosen = r, !.read = read,
                                 !.entry = Entry(r, Offered(r))]
    BY <1>5 DEF Choose
  <2>2. NoneLater(r.version)
    BY <1>1, <1>5, <2>1, PagesChooseNewest DEF read, page, last
  <2>3. /\ Asks(user') /\ user'.step = "resolved" /\ user'.chosen = r
        /\ user'.entry.version = r.version /\ user'.offered = user.offered
    BY <1>1, <2>1, EntryVersion DEF User, Asks
  <2> QED BY <1>1, <2>2, <2>3, ChoosesNewest
<1>6. ASSUME ~(Floating(user.selector) /\ read # {}),
             Asks(user'), user'.step = "pages", user'.offered = user.offered,
             user'.chosen = None, user'.read = read, PagesAreTurned'
      PROVE  NewestInv'
  <2>1. OffersStay' /\ Candidates' = Candidates
    BY <1>1, <1>6, OffersRemain
  <2>2. ChoiceIsNewest' /\ ResolvesToNewest'
    BY <1>6 DEF ChoiceIsNewest, ResolvesToNewest
  <2>3. IndexesAreRead'
    BY <1>1, <1>6 DEF IndexesAreRead, Asks
  <2> QED BY <1>6, <2>1, <2>2, <2>3 DEF NewestInv
<1>7. CASE /\ ~(Floating(user.selector) /\ read # {})
           /\ user' = [user EXCEPT !.read = read, !.page = @ + 1]
  <2>1. /\ Asks(user') /\ user'.step = "pages" /\ user'.offered = user.offered
        /\ user'.chosen = None /\ user'.read = read /\ user'.page = user.page + 1
        /\ user'.features = user.features
    BY <1>1, <1>7 DEF User, Asks
  <2>2. Candidates' = Candidates /\ catalog' = catalog /\ user'.selector = user.selector
    BY <1>1, <2>1 DEF Candidates, Asks, Reading
  <2>3. PagesAreTurned'
    BY <1>1, <1>4, <1>7, <2>1, <2>2 DEF PagesAreTurned
  <2> QED BY <1>6, <1>7, <2>1, <2>3
<1>8. CASE /\ ~(Floating(user.selector) /\ read # {})
           /\ last /\ user.features # {feature}
           /\ user' = [user EXCEPT !.read = read, !.page = 0, !.features = @ \ {feature}]
  <2>1. /\ Asks(user') /\ user'.step = "pages" /\ user'.offered = user.offered
        /\ user'.chosen = None /\ user'.read = read /\ user'.page = 0
        /\ user'.features = user.features \ {feature}
    BY <1>1, <1>8 DEF User, Asks
  <2>2. Candidates' = Candidates /\ catalog' = catalog /\ user'.selector = user.selector
    BY <1>1, <2>1 DEF Candidates, Asks, Reading
  <2>3. PICK other \in user.features : other # feature
    BY <1>3, <1>8
  <2>4. ~user.selector.lts /\ user.selector.parts = <<>>
    BY <1>1, <1>3, <2>3 DEF PagesAreTurned
  <2>5. Floating(user.selector) /\ read = {}
    <3>1. Len(<<>>) <= 2
      OBVIOUS
    <3> QED BY <1>8, <2>4, <3>1 DEF Floating
  <2>6. \A q \in Candidates : Feature(q) \in user.features \ {feature} /\ Feature(q) \in Nat
    BY <1>1, <1>4, <1>8, <2>4, <2>5 DEF PagesAreTurned
  <2>7. \A q \in Candidates : Rank(catalog["java"], Feature(q), q.version) \in Nat
    <3> TAKE q \in Candidates
    <3>1. q \in Release /\ q.version \in Versions
      BY <1>1, StillOffered DEF Release
    <3>2. releases \in SUBSET Release /\ IsFiniteSet(releases)
      BY <1>1, Reads DEF OffersStay, Orderly, Sources, CatalogTools
    <3> HIDE DEF releases
    <3> QED BY <3>1, <3>2, RanksGrow DEF releases
  <2>8. IsFiniteSet(user.features \ {feature})
    BY <1>1, FS_RemoveElement DEF PagesAreTurned
  <2>9. 0 * PageSize = 0
    BY CatalogsAssumption
  <2>10. PagesAreTurned'
    <3>1. \A q \in Candidates :
            /\ Feature(q) \in user'.features
            /\ \E f \in user'.features : Feature(q) <= f
            /\ user'.page * PageSize <= Rank(catalog["java"], Feature(q), q.version)
      BY <2>1, <2>6, <2>7, <2>9
    <3>2. \A f, g \in user'.features : user'.selector.lts \/ user'.selector.parts # <<>> => f = g
      BY <2>2, <2>4
    <3> QED BY <2>1, <2>2, <2>5, <2>8, <3>1, <3>2 DEF PagesAreTurned
  <2> QED BY <1>6, <1>8, <2>1, <2>10
<1> QED BY <1>2, <1>5, <1>7, <1>8

InIndexes(read, pages, q) ==
    /\ \A e \in read : e.version = q.version => e.build = q.build
    /\ \A t \in Targets, i \in 1 .. pages :
        t = FlutterPlatforms[i] /\ q.offers[t] # {} => \E e \in read : e.version = q.version

\* An index of Flutter has what was offered for its platform, as it was.
LEMMA IndexHas ==
    ASSUME TypeOK, UserIsKnown, NewestInv, user.step = "pages", user.tool = "flutter",
           NEW platform, platform = FlutterPlatforms[user.page + 1],
           NEW read, read = user.read \cup Usable("flutter",
                                {OnPlatform(r, platform) : r \in catalog["flutter"]}),
           NEW q \in user.offered
    PROVE  InIndexes(read, user.page + 1, q)
<1>1. /\ Using /\ user \in User /\ OffersStay /\ IndexesAreRead /\ user.page \in Nat
  BY DEF Using, TypeOK, NewestInv, User
<1>2. Index(user.tool, user.selector) = "flutter"
  BY <1>1, Reads DEF Index, IsSelector
<1>3. PICK c \in catalog["flutter"] : Kept(q, c) /\ c.build = q.build
  BY <1>1, <1>2 DEF OffersStay
<1>4. /\ catalog["flutter"] \subseteq Release
      /\ \A a, b \in catalog["flutter"] : a.version = b.version => a = b
  BY <1>1, Reads DEF OffersStay, Orderly, Sources, CatalogTools
<1>5. \A r \in Release :
        /\ OnPlatform(r, platform).version = r.version
        /\ OnPlatform(r, platform).build = r.build
        /\ \A t \in Targets : t = platform => OnPlatform(r, platform).offers[t] = r.offers[t]
  BY DEF OnPlatform, Release
<1>6. ASSUME NEW e \in read, e.version = q.version PROVE e.build = q.build
  <2>1. CASE e \in user.read
    BY <1>1, <1>6, <2>1 DEF IndexesAreRead
  <2>2. CASE e \notin user.read
    <3>1. PICK d \in catalog["flutter"] : e = OnPlatform(d, platform)
      BY <2>2, UsableOnly
    <3>2. d = c
      BY <1>3, <1>4, <1>5, <1>6, <3>1 DEF Kept
    <3> QED BY <1>3, <1>4, <1>5, <3>1, <3>2
  <2> QED BY <2>1, <2>2
<1>7. ASSUME NEW t \in Targets, NEW i \in 1 .. user.page + 1,
             t = FlutterPlatforms[i], q.offers[t] # {}
      PROVE  \E e \in read : e.version = q.version
  <2>1. CASE i \in 1 .. user.page
    BY <1>1, <1>7, <2>1 DEF IndexesAreRead
  <2>2. CASE i = user.page + 1
    <3> DEFINE e == OnPlatform(c, platform)
    <3>1. c \in Release /\ t = platform /\ c.offers[t] # {}
      BY <1>3, <1>4, <1>7, <2>2 DEF Kept
    <3>2. e.version = q.version /\ e.offers[t] # {}
      BY <1>3, <1>5, <3>1 DEF Kept
    <3>3. e \in {OnPlatform(r, platform) : r \in catalog["flutter"]}
      BY <1>3
    <3> HIDE DEF e
    <3>4. Offered(e) # {}
      BY <3>2 DEF Offered
    <3>5. e \in read
      BY <3>3, <3>4 DEF Usable
    <3> QED BY <3>2, <3>5
  <2>3. i \in 1 .. user.page \/ i = user.page + 1
    <3>1. user.page \in Nat
      BY <1>1
    <3> QED BY <3>1
  <2> QED BY <2>1, <2>2, <2>3
<1> QED BY <1>6, <1>7 DEF InIndexes

LEMMA FlutterNewest ==
    ASSUME TypeOK, UserIsKnown, NewestInv, ReadFlutterIndex
    PROVE  NewestInv'
<1> DEFINE platform == FlutterPlatforms[user.page + 1]
           read == user.read \cup Usable("flutter", {OnPlatform(r, platform) : r \in catalog["flutter"]})
<1>1. /\ user.step = "pages" /\ user.tool = "flutter" /\ UNCHANGED Reading
      /\ Using /\ user \in User /\ OffersStay /\ IndexesAreRead /\ user.chosen = None
      /\ user.page \in Nat
  <2>1. user.step = "pages" /\ user.tool = "flutter" /\ UNCHANGED Reading
    BY DEF ReadFlutterIndex
  <2> QED BY <2>1 DEF Using, NewestInv, ChoiceIsNewest, TypeOK, User
<1>2. /\ IsSelector("flutter", user.selector) /\ user.read \subseteq Release
      /\ user.offered \subseteq Release /\ catalog["flutter"] \subseteq Release
  BY <1>1, Reads DEF User, Sources, CatalogTools
<1>3. ~user.selector.lts /\ user.selector.date = None
  BY <1>2 DEF IsSelector
<1>4. \/ /\ user.page + 1 < Len(FlutterPlatforms)
         /\ user' = [user EXCEPT !.read = read, !.page = @ + 1]
      \/ /\ ~(user.page + 1 < Len(FlutterPlatforms))
         /\ \E r \in First(Agreeing(read), user.selector) :
                user' = [user EXCEPT !.step = "resolved", !.chosen = r, !.read = read,
                        !.entry = [Entry(r, {}) EXCEPT !.artifacts = FlutterArtifacts(read, r.version)]]
  BY DEF ReadFlutterIndex
<1>5. ASSUME NEW q \in user.offered
      PROVE  InIndexes(read, user.page + 1, q)
  <2>1. /\ platform = FlutterPlatforms[user.page + 1]
        /\ read = user.read \cup Usable("flutter", {OnPlatform(r, platform) : r \in catalog["flutter"]})
        /\ user.step = "pages" /\ user.tool = "flutter"
    BY <1>1
  <2> HIDE DEF platform, read
  <2> QED BY <2>1, IndexHas
<1>6. read \in SUBSET Release
  <2>1. ASSUME NEW r \in Release PROVE OnPlatform(r, platform) \in Release
    <3> DEFINE part == [t \in Targets |-> IF t = platform THEN r.offers[t] ELSE {}]
    <3>1. part \in [Targets -> SUBSET Parts]
      BY DEF Release
    <3>2. OnPlatform(r, platform) = [r EXCEPT !.offers = part]
      BY DEF OnPlatform
    <3> HIDE DEF part
    <3> QED BY <3>1, <3>2 DEF Release
  <2> HIDE DEF platform
  <2> DEFINE all == {OnPlatform(r, platform) : r \in catalog["flutter"]}
  <2>2. all \subseteq Release
    BY <1>2, <2>1
  <2>3. Usable("flutter", all) \subseteq all
    BY UsableOnly
  <2> HIDE DEF all
  <2>4. user.read \cup Usable("flutter", all) \in SUBSET Release
    BY <1>2, <2>2, <2>3
  <2> QED BY <2>4 DEF all, platform
<1> HIDE DEF read, platform
<1>7. CASE /\ user.page + 1 < Len(FlutterPlatforms)
           /\ user' = [user EXCEPT !.read = read, !.page = @ + 1]
  <2>1. /\ Asks(user') /\ user'.step = "pages" /\ user'.offered = user.offered
        /\ user'.chosen = None /\ user'.read = read /\ user'.page = user.page + 1
    BY <1>1, <1>7 DEF User, Asks
  <2>2. OffersStay' /\ Candidates' = Candidates
    BY <1>1, <2>1, OffersRemain
  <2>3. ChoiceIsNewest' /\ ResolvesToNewest'
    BY <2>1 DEF ChoiceIsNewest, ResolvesToNewest
  <2>4. PagesAreTurned'
    BY <1>1, <2>1 DEF PagesAreTurned, Asks
  <2>5. IndexesAreRead'
    BY <1>5, <1>7, <2>1 DEF IndexesAreRead, InIndexes
  <2> QED BY <2>2, <2>3, <2>4, <2>5 DEF NewestInv
<1>8. CASE /\ ~(user.page + 1 < Len(FlutterPlatforms))
           /\ \E r \in First(Agreeing(read), user.selector) :
                user' = [user EXCEPT !.step = "resolved", !.chosen = r, !.read = read,
                        !.entry = [Entry(r, {}) EXCEPT !.artifacts = FlutterArtifacts(read, r.version)]]
  <2>1. PICK r \in First(Agreeing(read), user.selector) :
            user' = [user EXCEPT !.step = "resolved", !.chosen = r, !.read = read,
                        !.entry = [Entry(r, {}) EXCEPT !.artifacts = FlutterArtifacts(read, r.version)]]
    BY <1>8
  <2>2. Len(FlutterPlatforms) = 3 /\ DOMAIN FlutterPlatforms = 1 .. 3
    BY DEF FlutterPlatforms
  <2>3. 1 .. 3 \subseteq 1 .. user.page + 1
    BY <1>1, <1>8, <2>2
  <2>4. ASSUME NEW q \in Candidates PROVE ~Later(q.version, r.version)
    <3>1. Index(user.tool, user.selector) = "flutter"
      BY <1>1, <1>3 DEF Index
    <3>2. q \in user.offered /\ Matches(q, user.selector)
      BY DEF Candidates
    <3>3. Offered(q) # {}
      BY <1>1, <3>1, <3>2 DEF OffersStay
    <3>4. PICK c \in catalog["flutter"] : Kept(q, c)
      BY <1>1, <3>1, <3>2 DEF OffersStay
    <3>5. PICK t \in Targets : q.offers[t] # {}
      BY <3>3 DEF Offered
    <3>6. c.offers[t] # {} /\ Listed("flutter", c)
      BY <1>1, <3>4, <3>5 DEF Kept, OffersStay, Orderly, Sources, CatalogTools
    <3>7. PICK i \in 1 .. 3 : t = FlutterPlatforms[i]
      BY <2>2, <3>6 DEF Listed
    <3>8. PICK e \in read : e.version = q.version
      BY <1>5, <2>3, <3>2, <3>5, <3>7 DEF InIndexes
    <3>9. Matches(e, user.selector)
      BY <1>3, <3>2, <3>8 DEF Matches
    <3>10. e \in Agreeing(read) /\ Agreeing(read) \in SUBSET Release
      <4>1. \A d \in read : d.version = q.version => d.build = q.build
        BY <1>5, <3>2 DEF InIndexes
      <4> QED BY <1>6, <3>8, <4>1 DEF Agreeing
    <3>11. ~Later(e.version, r.version)
      BY <3>9, <3>10, FirstIsNewest
    <3> QED BY <3>8, <3>11
  <2>5. /\ Asks(user') /\ user'.step = "resolved" /\ user'.chosen = r
        /\ user'.entry = [Entry(r, {}) EXCEPT !.artifacts = FlutterArtifacts(read, r.version)]
        /\ user'.offered = user.offered
    BY <1>1, <2>1 DEF User, Asks
  <2>6. user'.entry.version = r.version
    BY <2>5 DEF Entry, Locked
  <2>7. NoneLater(r.version)
    BY <2>4 DEF NoneLater
  <2> QED BY <1>1, <2>5, <2>6, <2>7, ChoosesNewest
<1> QED BY <1>4, <1>7, <1>8

-----------------------------------------------------------------------------
(* The other steps.                                                        *)

\* `use` begins: Java's features are those of the releases that answer.
LEMMA FeaturesOffered ==
    ASSUME NEW releases \in SUBSET Release, IsFiniteSet(releases),
           NEW selector \in Selectors,
           NEW features, features = Features(releases, selector)
    PROVE  /\ IsFiniteSet(features)
           /\ selector.lts \/ selector.parts # <<>> => \A f, g \in features : f = g
           /\ \A r \in releases : Matches(r, selector) =>
                /\ ~selector.lts => Feature(r) \in features
                /\ \E f \in features : Feature(r) <= f
<1> DEFINE all == {Feature(r) : r \in releases}
           lts == {Feature(r) : r \in {s \in releases : s.lts}}
           f == [r \in releases |-> Feature(r)]
<1>1. all \subseteq Nat /\ lts \subseteq all
  BY VersionLength DEF Feature, Release
<1>2. IsFiniteSet(all)
  <2>1. f \in Surjection(releases, all)
    BY DEF Surjection
  <2> HIDE DEF f, all
  <2> QED BY <2>1, FS_Surjection
<1>3. features = IF selector.lts THEN {x \in lts : x = MaxOf(lts)}
                 ELSE IF selector.parts # <<>> THEN all \cap {selector.parts[1]} ELSE all
  BY DEF Features
<1>4. \A r \in releases : Feature(r) \in all /\ (r.lts => Feature(r) \in lts)
  OBVIOUS
<1> HIDE DEF all, lts
<1>5. IsFiniteSet(features) /\ features \subseteq all
  <2>1. features \in SUBSET all
    BY <1>1, <1>3
  <2> QED BY <1>2, <2>1, FS_Subset
<1>6. selector.lts \/ selector.parts # <<>> => \A x, y \in features : x = y
  BY <1>3
<1>7. ASSUME NEW r \in releases, Matches(r, selector)
      PROVE  /\ ~selector.lts => Feature(r) \in features
             /\ \E x \in features : Feature(r) <= x
  <2>1. Feature(r) \in Nat
    BY <1>1, <1>4
  <2>2. CASE selector.lts
    <3>1. Feature(r) \in lts
      BY <1>4, <1>7, <2>2 DEF Matches
    <3>2. IsFiniteSet(lts)
      BY <1>1, <1>2, FS_Subset
    <3>3. MaxOf(lts) \in lts /\ Feature(r) <= MaxOf(lts)
      BY <1>1, <3>1, <3>2, Greatest
    <3> QED BY <1>3, <2>2, <3>3
  <2>3. CASE ~selector.lts
    <3>1. Feature(r) \in features
      <4>1. CASE selector.parts = <<>>
        BY <1>3, <1>4, <2>3, <4>1
      <4>2. CASE selector.parts # <<>>
        <5>1. selector.parts \in Seq(Nat)
          BY CatalogsAssumption DEF Selector
        <5>2. Len(selector.parts) \in Nat /\ Len(selector.parts) # 0
          BY <4>2, <5>1, EmptySeq
        <5>3. 1 \in 1 .. Len(selector.parts)
          BY <5>2
        <5>4. r.version[1] = selector.parts[1]
          BY <1>7, <5>3, MatchesParts DEF Release
        <5> QED BY <1>3, <1>4, <2>3, <4>2, <5>4 DEF Feature
      <4> QED BY <4>1, <4>2
    <3> QED BY <2>1, <3>1
  <2> QED BY <2>2, <2>3
<1> QED BY <1>5, <1>6, <1>7

LEMMA BeginNewest ==
    ASSUME TypeOK, OffersStay, NEW place \in Places, NEW tool, NEW selector,
           Begin(place, tool, selector)
    PROVE  NewestInv'
<1> DEFINE step == IF tool \in {"java", "flutter"} THEN "pages"
                   ELSE IF NeedsIndex(tool, selector) THEN "index" ELSE "details"
           source == Index(tool, selector)
           offered == Usable(source, catalog[source])
           features == IF tool = "java" THEN Features(catalog[tool], selector) ELSE {}
           releases == catalog["java"]
<1>1. /\ tool \in CatalogTools /\ selector \in Selectors /\ IsSelector(tool, selector)
      /\ UNCHANGED catalog
  BY SelectionsAssumption DEF Begin
<1>2. user' = [Idle EXCEPT !.step = step, !.place = place, !.tool = tool, !.selector = selector,
                           !.offered = offered, !.features = features]
  BY DEF Begin
<1>3. /\ user'.step = step /\ user'.tool = tool /\ user'.selector = selector
      /\ user'.offered = offered /\ user'.features = features /\ user'.read = {}
      /\ user'.page = 0 /\ user'.chosen = None
  BY <1>2 DEF Idle
<1>4. step \in {"pages", "index", "details"} /\ (step = "pages" <=> tool \in {"java", "flutter"})
      /\ (step = "details" => ~NeedsIndex(tool, selector))
  OBVIOUS
<1>5. source \in Sources /\ offered \subseteq catalog[source]
  <2>1. source \in Sources
    BY <1>1 DEF Index, Sources
  <2> QED BY <2>1, UsableOnly
<1>6. OffersStay'
  <2>1. \A r : Kept(r, r)
    BY DEF Kept
  <2>2. \A r \in offered : source \in {"java", "standalone", "flutter"} => Offered(r) # {}
    BY DEF Usable
  <2> HIDE DEF offered
  <2> QED BY <1>1, <1>3, <1>5, <2>1, <2>2 DEF OffersStay
<1>7. ChoiceIsNewest' /\ ResolvesToNewest'
  BY <1>3, <1>4 DEF ChoiceIsNewest, ResolvesToNewest
<1>8. IndexesAreRead'
  <2>1. Len(FlutterPlatforms) = 3
    BY DEF FlutterPlatforms
  <2> QED BY <1>3, <2>1 DEF IndexesAreRead
<1>9. ASSUME tool = "java" PROVE PagesAreTurned'
  <2>1. source = "java"
    BY <1>1, <1>9 DEF Index, IsSelector
  <2>2. releases \in SUBSET Release /\ IsFiniteSet(releases) /\ features = Features(releases, selector)
    BY <1>9 DEF TypeOK, OffersStay, Orderly, Sources, CatalogTools
  <2>3. Candidates' = {r \in offered : Matches(r, selector)} /\ offered \subseteq releases
    BY <1>3, <1>5, <2>1 DEF Candidates
  <2> HIDE DEF features, releases, step, offered
  <2>4. /\ IsFiniteSet(features)
        /\ selector.lts \/ selector.parts # <<>> => \A f, g \in features : f = g
        /\ \A r \in Candidates' :
            /\ ~selector.lts => Feature(r) \in features
            /\ \E f \in features : Feature(r) <= f
    BY <1>1, <2>2, <2>3, FeaturesOffered
  <2>5. 0 * PageSize = 0
    BY CatalogsAssumption
  <2>6. \A r \in Candidates' : 0 * PageSize <= Rank(releases, Feature(r), r.version)
    <3> TAKE r \in Candidates'
    <3>1. r.version \in Versions
      BY <2>2, <2>3 DEF Release
    <3>2. Rank(releases, Feature(r), r.version) \in Nat
      BY <2>2, <3>1, RanksGrow
    <3> QED BY <2>5, <3>2
  <2> QED BY <1>1, <1>3, <2>4, <2>6 DEF PagesAreTurned, releases
<1>10. tool # "java" => PagesAreTurned'
  BY <1>3 DEF PagesAreTurned
<1> QED BY <1>6, <1>7, <1>8, <1>9, <1>10 DEF NewestInv

\* Whatever the vendors do in the meantime.
LEMMA VendorNewest ==
    ASSUME TypeOK, UserIsKnown, NewestInv, Vendor
    PROVE  NewestInv'
<1>1. /\ OffersStay /\ Orderly(catalog) /\ ChoiceIsNewest /\ PagesAreTurned /\ IndexesAreRead
      /\ ResolvesToNewest /\ user \in User
  BY DEF NewestInv, OffersStay, TypeOK
<1>2. /\ Orderly(catalog')
      /\ \A o \in Sources : \A r \in catalog[o] : \E c \in catalog'[o] :
            /\ Kept(r, c)
            /\ o = "flutter" /\ user.tool = "flutter" =>
                    c.build = r.build \/ \A q \in user'.offered : q.version # r.version
      /\ \/ user' = user
         \/ \E gone \in SUBSET user.offered : user' = [user EXCEPT !.offered = gone]
  BY <1>1, VendorsKeep
<1>3. /\ user'.step = user.step /\ user'.tool = user.tool /\ user'.selector = user.selector
      /\ user'.chosen = user.chosen /\ user'.entry = user.entry /\ user'.read = user.read
      /\ user'.features = user.features /\ user'.page = user.page
      /\ user'.offered \subseteq user.offered
  BY <1>1, <1>2 DEF User
<1>4. Candidates' \subseteq Candidates
  BY <1>3 DEF Candidates
<1>5. OffersStay'
  <2>1. CASE ~Using
    BY <1>2, <1>3, <2>1 DEF OffersStay, Using
  <2>2. CASE Using
    <3> DEFINE source == Index(user.tool, user.selector)
    <3>1. source \in Sources /\ (source = "flutter" => user.tool = "flutter")
      BY <2>2, Reads DEF Index
    <3>2. ASSUME NEW r \in user'.offered
          PROVE  /\ source \in {"java", "standalone", "flutter"} => Offered(r) # {}
                 /\ \E c \in catalog'[source] : Kept(r, c) /\ (source = "flutter" => c.build = r.build)
      <4>1. /\ source \in {"java", "standalone", "flutter"} => Offered(r) # {}
            /\ \E c \in catalog[source] : Kept(r, c) /\ (source = "flutter" => c.build = r.build)
        BY <1>1, <1>3, <2>2 DEF OffersStay
      <4>2. PICK c \in catalog[source] : Kept(r, c) /\ (source = "flutter" => c.build = r.build)
        BY <4>1
      <4> HIDE DEF source
      <4>3. PICK d \in catalog'[source] :
                /\ Kept(c, d)
                /\ source = "flutter" /\ user.tool = "flutter" =>
                    d.build = c.build \/ \A q \in user'.offered : q.version # c.version
        BY <1>2, <3>1
      <4>4. Kept(r, d)
        BY <4>2, <4>3, KeptIsKept
      <4>5. source = "flutter" => d.build = r.build
        BY <3>1, <4>2, <4>3 DEF Kept
      <4> QED BY <4>1, <4>4, <4>5
    <3> QED BY <1>2, <1>3, <3>2 DEF OffersStay
  <2> QED BY <2>1, <2>2
<1>6. ChoiceIsNewest'
  BY <1>1, <1>3, <1>4 DEF ChoiceIsNewest, Using, NoneLater
<1>7. ResolvesToNewest'
  BY <1>1, <1>3 DEF ResolvesToNewest
<1>8. IndexesAreRead'
  BY <1>1, <1>3 DEF IndexesAreRead
<1>9. ASSUME user.step = "pages", user.tool = "java" PROVE PagesAreTurned'
  <2> DEFINE releases == catalog["java"]
             more == catalog'["java"]
  <2>1. /\ releases \in SUBSET Release /\ IsFiniteSet(releases)
        /\ more \in SUBSET Release /\ IsFiniteSet(more)
    <3>1. TypeOK'
      BY WorldType
    <3> QED BY <1>1, <1>2, <3>1 DEF TypeOK, Orderly, Sources, CatalogTools
  <2>2. \A feature : VersionsIn(releases, feature) \subseteq VersionsIn(more, feature)
    <3>1. \A r \in releases : \E c \in more : c.version = r.version
      BY <1>2 DEF Kept, Sources, CatalogTools
    <3> HIDE DEF releases, more
    <3> QED BY <3>1 DEF VersionsIn, InFeature, Feature
  <2> HIDE DEF releases, more
  <2>3. ASSUME NEW r \in Candidates', Feature(r) = MaxOf(user.features)
        PROVE  \/ \E e \in user.read : e.version = r.version
               \/ user.page * PageSize <= Rank(more, Feature(r), r.version)
    <3>1. r \in Candidates /\ r.version \in Versions
      BY <1>1, <1>4 DEF Candidates, User, Release
    <3>2. \/ \E e \in user.read : e.version = r.version
          \/ user.page * PageSize <= Rank(releases, Feature(r), r.version)
      BY <1>1, <1>9, <2>3, <3>1 DEF PagesAreTurned, releases
    <3>3. /\ Rank(releases, Feature(r), r.version) \in Nat /\ Rank(more, Feature(r), r.version) \in Nat
          /\ Rank(releases, Feature(r), r.version) <= Rank(more, Feature(r), r.version)
      BY <2>1, <2>2, <3>1, RanksGrow
    <3>4. user.page * PageSize \in Nat
      BY <1>1, CatalogsAssumption DEF User
    <3> QED BY <3>2, <3>3, <3>4
  <2> QED BY <1>1, <1>3, <1>4, <1>9, <2>3 DEF PagesAreTurned, more
<1>10. ~(user.step = "pages" /\ user.tool = "java") => PagesAreTurned'
  BY <1>3 DEF PagesAreTurned
<1> QED BY <1>5, <1>6, <1>7, <1>8, <1>9, <1>10 DEF NewestInv

\* Who reads nothing, or goes on with what was read.
LEMMA OthersNewest ==
    ASSUME NewestInv, UNCHANGED catalog,
           user' = user \/ user'.step \in {"idle", "install"}
    PROVE  NewestInv'
<1>1. CASE user' = user
  BY <1>1 DEF NewestInv, OffersStay, ChoiceIsNewest, PagesAreTurned, IndexesAreRead,
     ResolvesToNewest, Candidates, NoneLater, Using
<1>2. CASE user'.step \in {"idle", "install"}
  BY <1>2 DEF NewestInv, OffersStay, ChoiceIsNewest, PagesAreTurned, IndexesAreRead,
     ResolvesToNewest, Using
<1> QED BY <1>1, <1>2

LEMMA NewestBegins == ASSUME Init PROVE NewestInv
<1>1. Orderly(catalog) /\ user = Idle
  BY SelectionsAssumption DEF Init
<1> QED BY <1>1, IdleUser DEF NewestInv, OffersStay, ChoiceIsNewest, PagesAreTurned,
           IndexesAreRead, ResolvesToNewest, Using

LEMMA NewestContinues == ASSUME Known, NewestInv, [Next]_vars PROVE NewestInv'
<1>1. TypeOK /\ UserIsKnown /\ OffersStay
  BY DEF Known, NewestInv
<1>2. CASE Vendor
  BY <1>1, <1>2, VendorNewest
<1>3. CASE ReadsDocument
  BY <1>1, <1>3, IndexNewest, FilesNewest, RustNewest, StandaloneNewest, JavaNewest,
     FlutterNewest DEF ReadsDocument
<1>4. ASSUME NEW place \in Places, NEW tool, NEW selector, Begin(place, tool, selector)
      PROVE  NewestInv'
  BY <1>1, <1>4, BeginNewest
<1>5. CASE \/ GiveUp \/ \E bare \in BOOLEAN : Commit(bare)
           \/ \E p \in Places : StartInstall(p)
           \/ \E recreate \in BOOLEAN : Install(recreate)
           \/ InstallFails
  <2>1. UNCHANGED catalog /\ user'.step \in {"idle", "install"}
    BY <1>5, IdleUser DEF GiveUp, Commit, StartInstall, Install, InstallFails, Free, Idle
  <2> QED BY <2>1, OthersNewest
<1>6. CASE \/ Tick \/ Execute \/ StartClean \/ CleanDies \/ \E x \in Installation : CleanStep(x)
           \/ \E p \in Places, t \in CatalogTools : Remove(p, t)
           \/ UNCHANGED vars
  <2>1. UNCHANGED <<catalog, user>>
    BY <1>6 DEF Tick, Execute, StartClean, CleanDies, CleanStep, Remove, vars, Load, InheritGlobal, Check,
       Start, End, Routed
  <2> QED BY <2>1, OthersNewest
<1> QED BY <1>2, <1>3, <1>4, <1>5, <1>6 DEF Next, Use, Change, ReadsDocument

-----------------------------------------------------------------------------
\* SPECIFICATION: what the commands have read is what they were asked for, and
\* nothing that was offered is lost between the documents they read.
THEOREM SelectionsInvariantHolds == Spec => []IInv
<1>1. Init => NewestInv
  BY NewestBegins
<1>2. Known /\ NewestInv /\ [Next]_vars => NewestInv'
  BY NewestContinues
<1>3. Known /\ NewestInv => IInv
  BY DEF IInv
<1> QED BY <1>1, <1>2, <1>3, KnownHolds, PTL DEF Spec

\* `use` never resolves to a release that is older than one that was offered
\* when it began to read, however many documents it reads and whatever the
\* vendors publish meanwhile.
THEOREM NewestIsResolved == Spec => []ResolvesToNewest
<1>1. IInv => ResolvesToNewest
  BY DEF IInv, NewestInv
<1> QED BY <1>1, SelectionsInvariantHolds, PTL
=============================================================================
