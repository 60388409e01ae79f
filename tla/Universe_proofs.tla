--------------------------- MODULE Universe_proofs ---------------------------
(***************************************************************************)
(* What Universe guarantees for every set of symbols, calls and sweeps,    *)
(* every hard limit and every file the operator starts from.               *)
(***************************************************************************)
EXTENDS Universe, FiniteSetTheorems, SequenceTheorems, WellFoundedInduction, TLAPS

-----------------------------------------------------------------------------
(* Sequences and maxima                                                    *)

\* A set of naturals that is not empty has a least element.
LEMMA LeastExists ==
  ASSUME NEW S, S \subseteq Nat, S # {}
  PROVE  Min(S) \in S /\ \A y \in S : Min(S) <= y
<1> DEFINE Below == {ss \in Nat \X Nat : ss[1] < ss[2]}
<1>1. OpToRel(<, Nat) = Below
  BY Zenon DEF OpToRel
<1>2. IsWellFoundedOn(Below, Nat)
  BY <1>1, NatLessThanWellFounded, Zenon
<1>3. \A a, b \in Nat : a < b => <<a, b>> \in Below
  OBVIOUS
<1> HIDE DEF Below
<1>4. \E x \in S : \A y \in S : ~(<<y, x>> \in Below)
  BY <1>2, WFMin, Zenon
<1>5. PICK x \in S : \A y \in S : ~(<<y, x>> \in Below)
  BY <1>4
<1>6. ASSUME NEW y \in S PROVE x =< y
  <2>1. x \in Nat /\ y \in Nat
    BY <1>5, <1>6
  <2>2. ~(y < x)
    BY <1>3, <1>5, <1>6, <2>1
  <2> QED
    BY <2>1, <2>2
<1> QED
  BY <1>5, <1>6 DEF Min

LEMMA MaxOfTwo ==
  ASSUME NEW a \in Int, NEW b \in Int
  PROVE  /\ Max({a, b}) \in {a, b}
         /\ a <= Max({a, b}) /\ b <= Max({a, b})
<1>1. \E x \in {a, b} : \A y \in {a, b} : x >= y
  <2>1. CASE a >= b BY <2>1
  <2>2. CASE b >= a BY <2>2
  <2> QED BY <2>1, <2>2
<1> QED
  BY <1>1 DEF Max

\* list.remove: one element less if the symbol is listed, and no new one.
LEMMA RemoveFirstFacts ==
  ASSUME NEW S, NEW s \in Seq(S), NEW e
  PROVE  /\ RemoveFirst(s, e) \in Seq(S)
         /\ Len(RemoveFirst(s, e)) <= Len(s)
         /\ Contains(s, e) => Len(RemoveFirst(s, e)) = Len(s) - 1
         /\ \A x : Contains(RemoveFirst(s, e), x) => Contains(s, x)
<1>1. CASE ~Contains(s, e)
  BY <1>1, LenProperties DEF RemoveFirst, Contains
<1>2. CASE Contains(s, e)
  <2> DEFINE I == {i \in 1..Len(s) : s[i] = e}
             k == Min(I)
  <2>1. I # {} /\ I \subseteq Nat /\ k \in I
    <3>1. I # {} /\ I \subseteq Nat
      BY <1>2, LenProperties DEF Contains
    <3> QED
      BY <3>1, LeastExists
  <2>2. k \in 1..Len(s) /\ Len(s) \in Nat
    BY <2>1, LenProperties
  <2>3. RemoveFirst(s, e) = SubSeq(s, 1, k - 1) \o SubSeq(s, k + 1, Len(s))
    BY <1>2, <2>1 DEF RemoveFirst, RemoveAt, SelectInSeq, Contains
  <2> HIDE DEF k, I
  <2>4. \A i \in 1..Len(s) : s[i] \in S
    BY ElementOfSeq
  <2> DEFINE u == SubSeq(s, 1, k - 1)
             v == SubSeq(s, k + 1, Len(s))
  <2>5. /\ u \in Seq(S) /\ Len(u) = k - 1
        /\ \A i \in 1..(k - 1) : u[i] = s[i]
    <3>1. \A i \in 1..(k - 1) : s[i] \in S
      BY <2>2, <2>4
    <3>2. /\ u \in Seq(S) /\ Len(u) = IF 1 <= k - 1 THEN k - 1 - 1 + 1 ELSE 0
          /\ \A i \in 1..(k - 1 - 1 + 1) : u[i] = s[1 + i - 1]
      BY <2>2, <3>1, SubSeqProperties
    <3> HIDE DEF u
    <3> QED
      BY <2>2, <3>2
  <2>6. /\ v \in Seq(S) /\ Len(v) = Len(s) - k
        /\ \A i \in 1..(Len(s) - k) : v[i] = s[k + i]
    <3>1. \A i \in (k + 1)..Len(s) : s[i] \in S
      BY <2>2, <2>4
    <3>2. /\ v \in Seq(S)
          /\ Len(v) = IF k + 1 <= Len(s) THEN Len(s) - (k + 1) + 1 ELSE 0
          /\ \A i \in 1..(Len(s) - (k + 1) + 1) : v[i] = s[(k + 1) + i - 1]
      BY <2>2, <3>1, SubSeqProperties
    <3> HIDE DEF v
    <3> QED
      BY <2>2, <3>2
  <2> HIDE DEF u, v
  <2>7. /\ u \o v \in Seq(S) /\ Len(u \o v) = Len(s) - 1
        /\ \A i \in 1..(Len(s) - 1) :
             (u \o v)[i] = IF i <= k - 1 THEN u[i] ELSE v[i - (k - 1)]
    <3>1. /\ u \o v \in Seq(S) /\ Len(u \o v) = Len(u) + Len(v)
          /\ \A i \in 1..Len(u) + Len(v) :
               (u \o v)[i] = IF i <= Len(u) THEN u[i] ELSE v[i - Len(u)]
      BY <2>5, <2>6, ConcatProperties
    <3>2. Len(u) = k - 1 /\ Len(u) + Len(v) = Len(s) - 1
      BY <2>2, <2>5, <2>6
    <3> QED
      BY <3>1, <3>2
  <2>8. RemoveFirst(s, e) = u \o v
    BY <2>3 DEF u, v
  <2>9. ASSUME NEW i \in 1..(Len(s) - 1)
        PROVE  \E j \in 1..Len(s) : (u \o v)[i] = s[j]
    <3>1. CASE i <= k - 1
      BY <2>2, <2>5, <2>7, <2>9, <3>1
    <3>2. CASE i > k - 1
      <4>1. (u \o v)[i] = v[i - (k - 1)]
        BY <2>2, <2>7, <2>9, <3>2
      <4>2. i - (k - 1) \in 1..(Len(s) - k) /\ k + (i - (k - 1)) = i + 1
        BY <2>2, <2>9, <3>2
      <4>3. v[i - (k - 1)] = s[i + 1] /\ i + 1 \in 1..Len(s)
        BY <2>2, <2>6, <2>9, <4>2
      <4> QED
        BY <4>1, <4>3
    <3>3. i <= k - 1 \/ i > k - 1
      BY <2>2, <2>9
    <3> QED
      BY <3>1, <3>2, <3>3
  <2>10. RemoveFirst(s, e) \in Seq(S) /\ Len(RemoveFirst(s, e)) = Len(s) - 1
    BY <2>7, <2>8, Zenon
  <2>11. Len(RemoveFirst(s, e)) <= Len(s)
    BY <2>2, <2>10
  <2>12. ASSUME NEW x, Contains(RemoveFirst(s, e), x)
         PROVE  Contains(s, x)
    <3>1. DOMAIN RemoveFirst(s, e) = 1..(Len(s) - 1)
      BY <2>10, LenProperties
    <3>2. PICK i \in 1..(Len(s) - 1) : RemoveFirst(s, e)[i] = x
      BY <2>10, <2>12 DEF Contains
    <3>3. PICK j \in 1..Len(s) : (u \o v)[i] = s[j]
      BY <2>9
    <3>4. s[j] = x
      BY <2>8, <3>2, <3>3, Zenon
    <3> QED
      BY <3>4 DEF Contains
  <2> QED
    BY <2>10, <2>11, <2>12
<1> QED
  BY <1>1, <1>2

-----------------------------------------------------------------------------
(* policy.yaml                                                             *)

TierMaps == [Tiers -> Seq(Symbols)]

Weight(t, d) == IF t = d THEN 1 ELSE 0

\* The symbol is listed where tier_of says it is.
LEMMA TierOfFacts ==
  ASSUME NEW f \in TierMaps, NEW s
  PROVE  /\ tier_of(f, s) \in Tiers \cup {None}
         /\ tier_of(f, s) # None =>
              tier_of(f, s) \in Tiers /\ Contains(f[tier_of(f, s)], s)
<1> DEFINE holders == {i \in DOMAIN TierOrder : Contains(f[TierOrder[i]], s)}
<1>1. CASE holders = {}
  BY <1>1 DEF tier_of
<1>2. CASE holders # {}
  <2>1. holders \subseteq Nat /\ DOMAIN TierOrder = 1..4
    BY DEF TierOrder
  <2>2. Min(holders) \in holders
    BY <1>2, <2>1, LeastExists
  <2>3. tier_of(f, s) = TierOrder[Min(holders)]
    BY <1>2 DEF tier_of
  <2>4. \A i \in 1..4 : TierOrder[i] \in Tiers
    BY DEF TierOrder, Tiers, ActiveTiers
  <2> HIDE DEF holders
  <2>5. Min(holders) \in 1..4 /\ Contains(f[TierOrder[Min(holders)]], s)
    BY <2>1, <2>2 DEF holders
  <2> QED
    BY <2>3, <2>4, <2>5
<1> QED
  BY <1>1, <1>2

\* Removing a symbol lengthens no list and adds nothing to any.
LEMMA RemoveFromAllFacts ==
  ASSUME NEW f \in TierMaps, NEW s
  PROVE  /\ RemoveFromAll(f, s) \in TierMaps
         /\ \A t \in Tiers :
              /\ Len(RemoveFromAll(f, s)[t]) <= Len(f[t])
              /\ \A x : Contains(RemoveFromAll(f, s)[t], x) => Contains(f[t], x)
              /\ t = tier_of(f, s) =>
                   Len(RemoveFromAll(f, s)[t]) = Len(f[t]) - 1
<1>1. CASE tier_of(f, s) = None
  <2>1. None \notin Tiers
    BY ConstantsAssumption
  <2>2. RemoveFromAll(f, s) = f
    BY <1>1 DEF RemoveFromAll
  <2>3. \A t \in Tiers : Len(f[t]) \in Nat
    BY LenProperties DEF TierMaps
  <2> QED
    BY <1>1, <2>1, <2>2, <2>3
<1>2. CASE tier_of(f, s) # None
  <2> DEFINE d == tier_of(f, s)
  <2>1. d \in Tiers /\ Contains(f[d], s)
    BY <1>2, TierOfFacts
  <2>2. RemoveFromAll(f, s) = [f EXCEPT ![d] = RemoveFirst(f[d], s)]
    BY <1>2 DEF RemoveFromAll
  <2> HIDE DEF d
  <2>3. f[d] \in Seq(Symbols) /\ f \in [Tiers -> Seq(Symbols)]
    BY <2>1 DEF TierMaps
  <2>4. /\ RemoveFirst(f[d], s) \in Seq(Symbols)
        /\ Len(RemoveFirst(f[d], s)) = Len(f[d]) - 1
        /\ \A x : Contains(RemoveFirst(f[d], s), x) => Contains(f[d], x)
    BY <2>1, <2>3, RemoveFirstFacts
  <2>5. RemoveFromAll(f, s) \in TierMaps
    BY <2>2, <2>3, <2>4 DEF TierMaps
  <2>6. \A t \in Tiers : Len(f[t]) \in Nat
    BY LenProperties DEF TierMaps
  <2>7. \A t \in Tiers : RemoveFromAll(f, s)[t] =
                           IF t = d THEN RemoveFirst(f[d], s) ELSE f[t]
    BY <2>2, <2>3
  <2>8. ASSUME NEW t \in Tiers
        PROVE  /\ Len(RemoveFromAll(f, s)[t]) <= Len(f[t])
               /\ \A x : Contains(RemoveFromAll(f, s)[t], x) => Contains(f[t], x)
               /\ t = d => Len(RemoveFromAll(f, s)[t]) = Len(f[t]) - 1
    <3>1. CASE t = d
      BY <2>1, <2>4, <2>6, <2>7, <3>1
    <3>2. CASE t # d
      BY <2>6, <2>7, <2>8, <3>2
    <3> QED
      BY <3>1, <3>2
  <2> QED
    BY <2>5, <2>8 DEF d
<1> QED
  BY <1>1, <1>2

\* Adding a symbol lengthens one list by one.
LEMMA AddToFacts ==
  ASSUME NEW f \in TierMaps, NEW d \in Tiers, NEW s \in Symbols
  PROVE  /\ AddTo(f, d, s) \in TierMaps
         /\ \A t \in Tiers :
              /\ Len(AddTo(f, d, s)[t]) = Len(f[t]) + Weight(t, d)
              /\ \A x : Contains(AddTo(f, d, s)[t], x) =>
                        Contains(f[t], x) \/ (t = d /\ x = s)
<1>1. f[d] \in Seq(Symbols) /\ f \in [Tiers -> Seq(Symbols)]
  BY DEF TierMaps
<1>2. /\ Append(f[d], s) \in Seq(Symbols)
      /\ Len(Append(f[d], s)) = Len(f[d]) + 1
      /\ \A i \in 1..Len(f[d]) : Append(f[d], s)[i] = f[d][i]
      /\ Append(f[d], s)[Len(f[d]) + 1] = s
  BY <1>1, AppendProperties
<1>3. \A t \in Tiers : Len(f[t]) \in Nat
  BY LenProperties DEF TierMaps
<1>4. \A x : Contains(Append(f[d], s), x) => Contains(f[d], x) \/ x = s
  BY <1>2, <1>3 DEF Contains
<1>5. AddTo(f, d, s) \in TierMaps
  BY <1>1, <1>2 DEF AddTo, TierMaps
<1>6. \A t \in Tiers : AddTo(f, d, s)[t] =
                         IF t = d THEN Append(f[d], s) ELSE f[t]
  BY <1>1 DEF AddTo
<1>7. ASSUME NEW t \in Tiers
      PROVE  /\ Len(AddTo(f, d, s)[t]) = Len(f[t]) + Weight(t, d)
             /\ \A x : Contains(AddTo(f, d, s)[t], x) =>
                       Contains(f[t], x) \/ (t = d /\ x = s)
  <2>1. CASE t = d
    BY <1>2, <1>4, <1>6, <2>1 DEF Weight
  <2>2. CASE t # d
    BY <1>3, <1>6, <1>7, <2>2 DEF Weight
  <2> QED
    BY <2>1, <2>2
<1> QED
  BY <1>5, <1>7

-----------------------------------------------------------------------------
(* One mutation                                                            *)

ActiveWeight(t) == IF t \in ActiveTiers THEN 1 ELSE 0

LEMMA SizesAreNaturals ==
  ASSUME NEW f \in TierMaps
  PROVE  /\ \A t \in Tiers : Len(f[t]) \in Nat
         /\ total_size(f) \in Nat
         /\ ActiveTiers \subseteq Tiers
BY LenProperties DEF TierMaps, total_size, Tiers, ActiveTiers

LEMMA RemoveTotal ==
  ASSUME NEW f \in TierMaps, NEW s
  PROVE  total_size(RemoveFromAll(f, s)) <= total_size(f) - ActiveWeight(tier_of(f, s))
<1> DEFINE g == RemoveFromAll(f, s)
           d == tier_of(f, s)
           L(t) == Len(f[t])
           M(t) == Len(g[t])
<1>1. g \in TierMaps
  BY RemoveFromAllFacts
<1>2. \A t \in Tiers : M(t) <= L(t) /\ (t = d => M(t) = L(t) - 1)
  BY RemoveFromAllFacts
<1>3. \A t \in Tiers : L(t) \in Nat /\ M(t) \in Nat
  BY <1>1, SizesAreNaturals
<1>4. /\ total_size(g) = M("core") + M("watchlist") + M("observation")
      /\ total_size(f) = L("core") + L("watchlist") + L("observation")
  BY DEF total_size
<1> HIDE DEF g, d, L, M
<1>5. /\ "core" \in Tiers /\ "watchlist" \in Tiers /\ "observation" \in Tiers
      /\ ActiveTiers = {"core", "watchlist", "observation"}
  BY DEF Tiers, ActiveTiers
<1> DEFINE m1 == M("core")  m2 == M("watchlist")  m3 == M("observation")
           l1 == L("core")  l2 == L("watchlist")  l3 == L("observation")
<1>6. /\ m1 \in Nat /\ m2 \in Nat /\ m3 \in Nat
      /\ l1 \in Nat /\ l2 \in Nat /\ l3 \in Nat
      /\ m1 <= l1 /\ m2 <= l2 /\ m3 <= l3
      /\ d = "core" => m1 = l1 - 1
      /\ d = "watchlist" => m2 = l2 - 1
      /\ d = "observation" => m3 = l3 - 1
  BY <1>2, <1>3, <1>5
<1>7. total_size(g) = m1 + m2 + m3 /\ total_size(f) = l1 + l2 + l3
  BY <1>4
<1> HIDE DEF m1, m2, m3, l1, l2, l3
<1>8. m1 + m2 + m3 <= l1 + l2 + l3 - ActiveWeight(d)
  <2>1. CASE d \notin ActiveTiers
    BY <1>6, <2>1 DEF ActiveWeight
  <2>2. CASE d \in ActiveTiers
    <3>1. ActiveWeight(d) = 1
      BY <2>2 DEF ActiveWeight
    <3>2. d = "core" \/ d = "watchlist" \/ d = "observation"
      BY <1>5, <2>2
    <3> QED
      BY <1>6, <3>1, <3>2
  <2> QED
    BY <2>1, <2>2
<1>9. total_size(g) <= total_size(f) - ActiveWeight(d)
  <2>1. ActiveWeight(d) \in 0..1
    BY DEF ActiveWeight
  <2> QED
    BY <1>6, <1>7, <1>8, <2>1
<1> QED
  BY <1>9 DEF g, d

LEMMA AddTotal ==
  ASSUME NEW f \in TierMaps, NEW d \in Tiers, NEW s \in Symbols
  PROVE  total_size(AddTo(f, d, s)) = total_size(f) + ActiveWeight(d)
<1> DEFINE g == AddTo(f, d, s)
           L(t) == Len(f[t])
           M(t) == Len(g[t])
<1>1. \A t \in Tiers : M(t) = L(t) + Weight(t, d)
  BY AddToFacts
<1>2. \A t \in Tiers : L(t) \in Nat
  BY SizesAreNaturals
<1>3. /\ total_size(g) = M("core") + M("watchlist") + M("observation")
      /\ total_size(f) = L("core") + L("watchlist") + L("observation")
  BY DEF total_size
<1> HIDE DEF g, L, M
<1>4. /\ "core" \in Tiers /\ "watchlist" \in Tiers /\ "observation" \in Tiers
      /\ ActiveTiers = {"core", "watchlist", "observation"}
  BY DEF Tiers, ActiveTiers
<1> DEFINE m1 == M("core")  m2 == M("watchlist")  m3 == M("observation")
           l1 == L("core")  l2 == L("watchlist")  l3 == L("observation")
           w1 == Weight("core", d)  w2 == Weight("watchlist", d)
           w3 == Weight("observation", d)
<1>5. /\ l1 \in Nat /\ l2 \in Nat /\ l3 \in Nat
      /\ m1 = l1 + w1 /\ m2 = l2 + w2 /\ m3 = l3 + w3
  BY <1>1, <1>2, <1>4
<1>6. /\ w1 \in Nat /\ w2 \in Nat /\ w3 \in Nat
      /\ w1 + w2 + w3 = ActiveWeight(d)
  BY <1>4 DEF Weight, ActiveWeight
<1>7. total_size(g) = m1 + m2 + m3 /\ total_size(f) = l1 + l2 + l3
  BY <1>3
<1> HIDE DEF m1, m2, m3, l1, l2, l3, w1, w2, w3
<1>8. m1 + m2 + m3 = l1 + l2 + l3 + ActiveWeight(d)
  BY <1>5, <1>6
<1>9. total_size(g) = total_size(f) + ActiveWeight(d)
  BY <1>5, <1>6, <1>7, <1>8
<1> QED
  BY <1>9 DEF g

\* What apply_mutation does to the active tiers: only the tier of the request
\* grows, by the symbol of the request, and a symbol that is moved leaves the
\* tier it was found in.
LEMMA ApplyFacts ==
  ASSUME NEW f \in TierMaps, NEW r \in Requests, ~KeyError(r)
  PROVE  /\ apply_mutation(f, r) \in TierMaps
         /\ \A t \in ActiveTiers :
              /\ Len(apply_mutation(f, r)[t]) <= Len(f[t]) + Weight(t, r.to)
              /\ \A x : Contains(apply_mutation(f, r)[t], x) =>
                        Contains(f[t], x) \/ (t = r.to /\ x = r.symbol)
         /\ r.type = "add" =>
              total_size(apply_mutation(f, r)) <= total_size(f) + 1
         /\ r.type \in {"remove", "exclude", "hard_limit_blocked"} =>
              total_size(apply_mutation(f, r)) <= total_size(f)
         /\ r.type \in {"promote", "demote", "unexclude"} =>
              total_size(apply_mutation(f, r)) <=
                total_size(f) - ActiveWeight(tier_of(f, r.symbol))
                              + ActiveWeight(r.to)
<1> DEFINE g == RemoveFromAll(f, r.symbol)
           h == apply_mutation(f, r)
<1>1. r.symbol \in Symbols /\ r.type \in EventTypes
  BY ConstantsAssumption
<1>2. g \in TierMaps
  BY RemoveFromAllFacts
<1>3. \A t \in Tiers : /\ Len(g[t]) <= Len(f[t])
                       /\ \A x : Contains(g[t], x) => Contains(f[t], x)
  BY RemoveFromAllFacts
<1>4. total_size(g) <= total_size(f) - ActiveWeight(tier_of(f, r.symbol))
  BY RemoveTotal
<1>5. /\ ActiveTiers \subseteq Tiers /\ "excluded" \in Tiers
      /\ "excluded" \notin ActiveTiers
  BY DEF Tiers, ActiveTiers
<1>6. /\ \A t \in Tiers : Len(g[t]) \in Nat /\ Len(f[t]) \in Nat
      /\ total_size(f) \in Nat /\ total_size(g) \in Nat
  BY <1>2, SizesAreNaturals
<1>7. \A t : ActiveWeight(t) \in 0..1 /\ Weight(t, r.to) \in 0..1
  BY DEF ActiveWeight, Weight
<1>a. CASE r.type = "add"
  <2>1. r.to \in Tiers
    BY <1>a DEF KeyError, RequiresToTier
  <2>2. h = AddTo(f, r.to, r.symbol)
    BY <1>a DEF apply_mutation
  <2> HIDE DEF h
  <2>3. /\ h \in TierMaps
        /\ \A t \in Tiers :
             /\ Len(h[t]) = Len(f[t]) + Weight(t, r.to)
             /\ \A x : Contains(h[t], x) =>
                       Contains(f[t], x) \/ (t = r.to /\ x = r.symbol)
    <3> DEFINE a == AddTo(f, r.to, r.symbol)
    <3>1. a \in TierMaps
      BY <1>1, <2>1, AddToFacts
    <3>2. \A t \in Tiers : Len(a[t]) = Len(f[t]) + Weight(t, r.to)
      BY <1>1, <2>1, AddToFacts
    <3>3. \A t \in Tiers : \A x :
            Contains(a[t], x) =>
              Contains(f[t], x) \/ (t = r.to /\ x = r.symbol)
      BY <1>1, <2>1, AddToFacts
    <3> QED
      BY <2>2, <3>1, <3>2, <3>3, Zenon
  <2>4. total_size(h) = total_size(f) + ActiveWeight(r.to)
    BY <1>1, <2>1, <2>2, AddTotal
  <2>5. total_size(h) <= total_size(f) + 1
    BY <1>6, <1>7, <2>4
  <2>6. \A t \in Tiers : Len(h[t]) <= Len(f[t]) + Weight(t, r.to)
    BY <1>6, <1>7, <2>3
  <2> QED
    BY <1>a, <1>5, <2>3, <2>5, <2>6 DEF h
<1>b. CASE r.type = "remove"
  <2>1. h = g
    BY <1>b DEF apply_mutation
  <2>2. total_size(g) <= total_size(f)
    BY <1>4, <1>6, <1>7
  <2>3. \A t \in Tiers : Len(g[t]) <= Len(f[t]) + Weight(t, r.to)
    BY <1>3, <1>6, <1>7
  <2> HIDE DEF g, h
  <2> QED
    BY <1>b, <1>2, <1>3, <1>5, <2>1, <2>2, <2>3 DEF h
<1>c. CASE r.type = "exclude"
  <2>1. h = AddTo(g, "excluded", r.symbol)
    BY <1>c DEF apply_mutation
  <2> HIDE DEF g, h
  <2>2. /\ h \in TierMaps
        /\ \A t \in Tiers :
             /\ Len(h[t]) = Len(g[t]) + Weight(t, "excluded")
             /\ \A x : Contains(h[t], x) =>
                       Contains(g[t], x) \/ (t = "excluded" /\ x = r.symbol)
    <3> DEFINE a == AddTo(g, "excluded", r.symbol)
    <3>1. a \in TierMaps
      BY <1>1, <1>2, <1>5, AddToFacts
    <3>2. \A t \in Tiers : Len(a[t]) = Len(g[t]) + Weight(t, "excluded")
      BY <1>1, <1>2, <1>5, AddToFacts
    <3>3. \A t \in Tiers : \A x :
            Contains(a[t], x) =>
              Contains(g[t], x) \/ (t = "excluded" /\ x = r.symbol)
      BY <1>1, <1>2, <1>5, AddToFacts
    <3> QED
      BY <2>1, <3>1, <3>2, <3>3, Zenon
  <2>3. total_size(h) = total_size(g) + ActiveWeight("excluded")
    BY <1>1, <1>2, <1>5, <2>1, AddTotal
  <2>4. total_size(h) <= total_size(f)
    BY <1>4, <1>5, <1>6, <1>7, <2>3 DEF ActiveWeight
  <2>5. ASSUME NEW t \in ActiveTiers
        PROVE  /\ Len(h[t]) <= Len(f[t]) + Weight(t, r.to)
               /\ \A x : Contains(h[t], x) => Contains(f[t], x)
    <3>1. t \in Tiers /\ t # "excluded"
      BY <1>5, <2>5
    <3>2. \A x : Contains(h[t], x) => Contains(g[t], x)
      BY <2>2, <3>1
    <3>3. Weight(t, "excluded") = 0 /\ Weight(t, r.to) \in 0..1
      BY <1>7, <3>1 DEF Weight
    <3>4. Len(h[t]) <= Len(f[t]) + Weight(t, r.to)
      BY <1>3, <1>6, <2>2, <3>1, <3>3
    <3> QED
      BY <1>3, <3>1, <3>2, <3>4
  <2> QED
    BY <1>c, <2>2, <2>4, <2>5 DEF h
<1>d. CASE r.type \in {"promote", "demote", "unexclude"}
  <2>1. r.to \in Tiers
    BY <1>d DEF KeyError, RequiresToTier
  <2>2. h = AddTo(g, r.to, r.symbol)
    BY <1>d DEF apply_mutation
  <2> HIDE DEF g, h
  <2>3. /\ h \in TierMaps
        /\ \A t \in Tiers :
             /\ Len(h[t]) = Len(g[t]) + Weight(t, r.to)
             /\ \A x : Contains(h[t], x) =>
                       Contains(g[t], x) \/ (t = r.to /\ x = r.symbol)
    <3> DEFINE a == AddTo(g, r.to, r.symbol)
    <3>1. a \in TierMaps
      BY <1>1, <1>2, <2>1, AddToFacts
    <3>2. \A t \in Tiers : Len(a[t]) = Len(g[t]) + Weight(t, r.to)
      BY <1>1, <1>2, <2>1, AddToFacts
    <3>3. \A t \in Tiers : \A x :
            Contains(a[t], x) =>
              Contains(g[t], x) \/ (t = r.to /\ x = r.symbol)
      BY <1>1, <1>2, <2>1, AddToFacts
    <3> QED
      BY <2>2, <3>1, <3>2, <3>3, Zenon
  <2>4. total_size(h) = total_size(g) + ActiveWeight(r.to)
    BY <1>1, <1>2, <2>1, <2>2, AddTotal
  <2>5. total_size(h) <= total_size(f) - ActiveWeight(tier_of(f, r.symbol))
                                       + ActiveWeight(r.to)
    BY <1>4, <1>6, <1>7, <2>4
  <2>6. \A t \in Tiers : Len(h[t]) <= Len(f[t]) + Weight(t, r.to)
    BY <1>3, <1>6, <1>7, <2>3
  <2>7. \A t \in Tiers : \A x : Contains(h[t], x) =>
                                Contains(f[t], x) \/ (t = r.to /\ x = r.symbol)
    BY <1>3, <2>3
  <2> QED
    BY <1>d, <1>5, <2>3, <2>5, <2>6, <2>7 DEF h
<1>e. CASE r.type = "hard_limit_blocked"
  <2>1. h = f
    BY <1>e DEF apply_mutation
  <2>2. \A t \in Tiers : Len(f[t]) <= Len(f[t]) + Weight(t, r.to)
    BY <1>6, <1>7
  <2>3. total_size(f) <= total_size(f)
    BY <1>6
  <2> HIDE DEF h
  <2> QED
    BY <1>e, <1>5, <2>1, <2>2, <2>3 DEF h
<1> QED
  BY <1>1, <1>a, <1>b, <1>c, <1>d, <1>e DEF EventTypes
-----------------------------------------------------------------------------
(* Type correctness                                                        *)

\* The conjuncts after TypeOK: a call that has begun has arguments, and only
\* calls that have begun are in the history.
TypeInv ==
  /\ TypeOK
  /\ \A c \in Calls : pc[c] # "idle" => req[c] \in Requests
  /\ \A c \in Range(applied) : c \in Calls /\ pc[c] # "idle"
  /\ IsFiniteSet(Range(applied))

LEMMA RangeOfAppend ==
  ASSUME NEW S, NEW s \in Seq(S), NEW e \in S
  PROVE  /\ Append(s, e) \in Seq(S)
         /\ Range(Append(s, e)) = Range(s) \cup {e}
         /\ Range(s) \subseteq S
<1>1. /\ Append(s, e) \in Seq(S) /\ Len(Append(s, e)) = Len(s) + 1
      /\ \A i \in 1..Len(s) : Append(s, e)[i] = s[i]
      /\ Append(s, e)[Len(s) + 1] = e
      /\ Len(s) \in Nat
      /\ DOMAIN s = 1..Len(s) /\ DOMAIN Append(s, e) = 1..(Len(s) + 1)
  BY AppendProperties, LenProperties
<1>2. \A i \in 1..Len(s) : s[i] \in S
  BY ElementOfSeq
<1>3. \A i \in 1..(Len(s) + 1) : i \in 1..Len(s) \/ i = Len(s) + 1
  BY <1>1
<1>4. \A i \in 1..Len(s) : i \in 1..(Len(s) + 1)
  BY <1>1
<1>5. Len(s) + 1 \in 1..(Len(s) + 1)
  BY <1>1
<1>6. Range(Append(s, e)) \subseteq Range(s) \cup {e}
  BY <1>1, <1>3 DEF Range
<1>7. Range(s) \cup {e} \subseteq Range(Append(s, e))
  BY <1>1, <1>4, <1>5 DEF Range
<1> QED
  BY <1>1, <1>2, <1>6, <1>7 DEF Range

LEMMA RowType ==
  ASSUME TypeInv, NEW c \in Calls, pc[c] # "idle"
  PROVE  Row(c) \in Rows
<1>1. /\ req[c] \in Requests /\ from[c] \in Tiers \cup {None}
      /\ req[c].symbol \in Symbols /\ req[c].type \in EventTypes
  BY ConstantsAssumption DEF TypeInv, TypeOK
<1>2. req[c].to \in {r.to : r \in Requests}
  BY <1>1
<1> QED
  BY <1>1, <1>2 DEF Row, Rows, EventTypes

LEMMA TypeInit == Init => TypeInv
<1> SUFFICES ASSUME Init PROVE TypeInv
  OBVIOUS
<1>1. TypeOK
  BY ConstantsAssumption DEF Init, TypeOK, Steps
<1>2. Range(applied) = {}
  BY DEF Init, Range
<1> QED
  BY <1>1, <1>2, FS_EmptySet DEF Init, TypeInv

LEMMA TypeNext == TypeInv /\ [Next]_vars => TypeInv'
<1> SUFFICES ASSUME TypeInv, [Next]_vars PROVE TypeInv'
  OBVIOUS
<1> USE DEF TypeInv
<1>1. ASSUME NEW c \in Calls, Mutate(c) PROVE TypeInv'
  <2> PICK r \in Requests :
        /\ req'  = [req EXCEPT ![c] = r]
        /\ from' = [from EXCEPT ![c] = tier_of(tiers, r.symbol)]
        /\ \/ /\ Refused(tiers, r)
              /\ pc' = [pc EXCEPT ![c] = "refused"]
              /\ UNCHANGED fileVars
           \/ /\ ~Refused(tiers, r) /\ KeyError(r)
              /\ pc' = [pc EXCEPT ![c] = "failed"]
              /\ UNCHANGED fileVars
           \/ /\ ~Refused(tiers, r) /\ ~KeyError(r)
              /\ tiers' = apply_mutation(tiers, r)
              /\ applied' = Append(applied, c)
              /\ pc' = [pc EXCEPT ![c] = "applied"]
    BY <1>1 DEF Mutate
  <2>1. tiers \in TierMaps
    BY DEF TypeOK, TierMaps
  <2>2. tier_of(tiers, r.symbol) \in Tiers \cup {None}
    BY <2>1, TierOfFacts
  <2>3. ~KeyError(r) => apply_mutation(tiers, r) \in [Tiers -> Seq(Symbols)]
    BY <2>1, ApplyFacts DEF TierMaps
  <2>4. tiers' \in [Tiers -> Seq(Symbols)]
    BY <2>3 DEF TypeOK, fileVars
  <2>5. /\ applied' \in Seq(Calls)
        /\ \/ Range(applied') = Range(applied)
           \/ Range(applied') = Range(applied) \cup {c}
    <3>1. applied \in Seq(Calls)
      BY DEF TypeOK
    <3>2. /\ Append(applied, c) \in Seq(Calls)
          /\ Range(Append(applied, c)) = Range(applied) \cup {c}
      BY <3>1, RangeOfAppend
    <3>3. applied' = applied \/ applied' = Append(applied, c)
      BY DEF fileVars
    <3> QED
      BY <3>1, <3>2, <3>3
  <2>6. /\ pc' \in [Calls -> Steps] /\ pc'[c] # "idle"
        /\ \A d \in Calls \ {c} : pc'[d] = pc[d]
    BY DEF TypeOK, Steps
  <2>7. /\ req' \in [Calls -> Requests \cup {None}] /\ req'[c] \in Requests
        /\ \A d \in Calls \ {c} : req'[d] = req[d]
    BY DEF TypeOK
  <2>8. from' \in [Calls -> Tiers \cup {None}]
    BY <2>2 DEF TypeOK
  <2>9. UNCHANGED <<feedVars, sweepVars, crashes, failures>>
    BY <1>1 DEF Mutate
  <2>10. TypeOK'
    BY <2>4, <2>5, <2>6, <2>7, <2>8, <2>9 DEF TypeOK, feedVars, sweepVars
  <2>11. \A d \in Calls : pc'[d] # "idle" => req'[d] \in Requests
    BY <2>6, <2>7
  <2>12. \A d \in Range(applied') : d \in Calls /\ pc'[d] # "idle"
    BY <1>1, <2>5, <2>6
  <2>13. IsFiniteSet(Range(applied'))
    BY <2>5, FS_AddElement
  <2> QED
    BY <2>10, <2>11, <2>12, <2>13
<1>2. ASSUME NEW c \in Calls, Record(c) PROVE TypeInv'
  <2>1. Row(c) \in Rows
    BY <1>2, RowType DEF Record
  <2>2. UNCHANGED <<tiers, applied, req, from, posted, old, cards, todo, held,
                    crashes, failures>>
    BY <1>2 DEF Record, fileVars, sweepVars
  <2>3. /\ pc' \in [Calls -> Steps]
        /\ \A d \in Calls : pc'[d] # "idle" <=> pc[d] # "idle"
    BY <1>2 DEF Record, TypeOK, Steps
  <2>4. events' \in [Calls -> Rows \cup {None}]
    BY <1>2, <2>1 DEF Record, TypeOK
  <2> QED
    BY <2>2, <2>3, <2>4 DEF TypeOK
<1>3. ASSUME NEW c \in Calls, Post(c) PROVE TypeInv'
  <2>1. UNCHANGED <<tiers, applied, req, from, events, posted, old, todo, held,
                    crashes>>
    BY <1>3 DEF Post, fileVars, sweepVars
  <2>2. /\ pc' \in [Calls -> Steps]
        /\ \A d \in Calls : pc'[d] # "idle" <=> pc[d] # "idle"
    BY <1>3 DEF Post, TypeOK, Steps
  <2>3. cards' \in [Calls -> Nat] /\ failures' \in 0..MaxFailures
    <3>1. cards \in [Calls -> Nat] /\ failures \in 0..MaxFailures
      BY DEF TypeOK
    <3>2. cards' = cards \/ cards' = [cards EXCEPT ![c] = @ + 1]
      BY <1>3 DEF Post, PostedCard, FailedCard
    <3>3. \/ failures' = failures
          \/ failures < MaxFailures /\ failures' = failures + 1
      BY <1>3 DEF Post, PostedCard, FailedCard
    <3>4. cards' \in [Calls -> Nat]
      BY <3>1, <3>2
    <3>5. failures' \in 0..MaxFailures
      BY <3>1, <3>3, ConstantsAssumption
    <3> QED
      BY <3>4, <3>5
  <2> QED
    BY <2>1, <2>2, <2>3 DEF TypeOK
<1>4. ASSUME NEW c \in Calls, Mark(c) PROVE TypeInv'
  <2>1. UNCHANGED <<tiers, applied, req, from, events, old, cards, todo, held,
                    crashes, failures>>
    BY <1>4 DEF Mark, fileVars, sweepVars
  <2>2. /\ pc' \in [Calls -> Steps]
        /\ \A d \in Calls : pc'[d] # "idle" <=> pc[d] # "idle"
    BY <1>4 DEF Mark, TypeOK, Steps
  <2>3. posted' \subseteq Calls
    BY <1>4 DEF Mark, TypeOK
  <2> QED
    BY <2>1, <2>2, <2>3 DEF TypeOK
<1>5. ASSUME NEW c \in Calls, Age(c) PROVE TypeInv'
  BY <1>5 DEF Age, TypeOK, fileVars, callVars, sweepVars
<1>6. ASSUME NEW s \in Sweeps, SweepRead(s) PROVE TypeInv'
  BY <1>6 DEF SweepRead, Unposted, TypeOK, fileVars, callVars, feedVars
<1>7. ASSUME NEW s \in Sweeps, SweepPost(s) PROVE TypeInv'
  <2>1. UNCHANGED <<tiers, applied, pc, req, from, events, posted, old, crashes>>
    BY <1>7 DEF SweepPost, fileVars, callVars
  <2> PICK c \in todo[s] :
        /\ todo' = [todo EXCEPT ![s] = @ \ {c}]
        /\ \/ PostedCard(c) /\ held' = [held EXCEPT ![s] = c]
           \/ FailedCard(c) /\ UNCHANGED held
    BY <1>7 DEF SweepPost
  <2>c. c \in Calls
    BY DEF TypeOK
  <2>2. todo' \in [Sweeps -> SUBSET Calls] /\ held' \in [Sweeps -> Calls \cup {None}]
    <3>1. todo \in [Sweeps -> SUBSET Calls] /\ held \in [Sweeps -> Calls \cup {None}]
      BY DEF TypeOK
    <3>2. todo[s] \ {c} \in SUBSET Calls
      BY <3>1
    <3>3. todo' \in [Sweeps -> SUBSET Calls]
      BY <3>1, <3>2
    <3>4. held' = held \/ held' = [held EXCEPT ![s] = c]
      OBVIOUS
    <3> QED
      BY <2>c, <3>1, <3>3, <3>4
  <2>3. cards' \in [Calls -> Nat] /\ failures' \in 0..MaxFailures
    <3>1. cards \in [Calls -> Nat] /\ failures \in 0..MaxFailures
      BY DEF TypeOK
    <3>2. cards' = cards \/ cards' = [cards EXCEPT ![c] = @ + 1]
      BY DEF PostedCard, FailedCard
    <3>3. \/ failures' = failures
          \/ failures < MaxFailures /\ failures' = failures + 1
      BY DEF PostedCard, FailedCard
    <3>4. cards' \in [Calls -> Nat]
      BY <2>c, <3>1, <3>2
    <3>5. failures' \in 0..MaxFailures
      BY <3>1, <3>3, ConstantsAssumption
    <3> QED
      BY <3>4, <3>5
  <2> QED
    BY <2>1, <2>2, <2>3 DEF TypeOK
<1>8. ASSUME NEW s \in Sweeps, SweepMark(s) PROVE TypeInv'
  BY <1>8 DEF SweepMark, TypeOK, fileVars, callVars
<1>9. ASSUME NEW s \in Sweeps, SweepCrash(s) PROVE TypeInv'
  BY <1>9, ConstantsAssumption DEF SweepCrash, TypeOK, fileVars, callVars, feedVars
<1>10. CASE ServerCrash
  <2>1. UNCHANGED <<tiers, applied, req, from, events, posted, old, cards, todo,
                    held, failures>>
    BY <1>10 DEF ServerCrash, fileVars, feedVars, sweepVars
  <2>2. /\ pc' \in [Calls -> Steps]
        /\ \A d \in Calls : pc'[d] # "idle" <=> pc[d] # "idle"
    BY <1>10 DEF ServerCrash, InFlight, TypeOK, Steps
  <2>3. crashes' \in 0..MaxCrashes
    BY <1>10, ConstantsAssumption DEF ServerCrash, TypeOK
  <2> QED
    BY <2>1, <2>2, <2>3 DEF TypeOK
<1>11. CASE UNCHANGED vars
  BY <1>11 DEF vars, fileVars, callVars, feedVars, sweepVars, TypeOK
<1> QED
  BY <1>1, <1>2, <1>3, <1>4, <1>5, <1>6, <1>7, <1>8, <1>9, <1>10, <1>11 DEF Next

LEMMA TypeInvariant == Spec => []TypeInv
BY TypeInit, TypeNext, PTL DEF Spec

\* policy.yaml keeps its four tiers of symbols, every row has the columns of
\* universe_events and the sweeps work on rows, whatever is interleaved or lost.
THEOREM TypeCorrect == Spec => []TypeOK
BY TypeInvariant, PTL DEF TypeInv

-----------------------------------------------------------------------------
(* The hard limits                                                         *)

\* A step that changes policy.yaml or the arguments of a call is one Mutate
\* that was not refused; every other step leaves them alone.
LEMMA ChangeStep ==
  ASSUME TypeInv, [Next]_vars
  PROVE  \/ /\ UNCHANGED <<tiers, applied>>
            /\ \A c \in Range(applied) : req'[c] = req[c] /\ from'[c] = from[c]
         \/ \E c \in Calls, r \in Requests :
              /\ c \notin Range(applied)
              /\ ~Refused(tiers, r) /\ ~KeyError(r)
              /\ tiers' = apply_mutation(tiers, r)
              /\ Range(applied') = Range(applied) \cup {c}
              /\ req'[c] = r /\ from'[c] = tier_of(tiers, r.symbol)
              /\ \A d \in Range(applied) : req'[d] = req[d] /\ from'[d] = from[d]
<1>1. /\ req \in [Calls -> Requests \cup {None}]
      /\ from \in [Calls -> Tiers \cup {None}]
      /\ applied \in Seq(Calls)
      /\ \A c \in Range(applied) : c \in Calls /\ pc[c] # "idle"
  BY DEF TypeInv, TypeOK
<1>2. ASSUME NEW c \in Calls, Mutate(c)
      PROVE  \/ /\ UNCHANGED <<tiers, applied>>
                /\ \A d \in Range(applied) : req'[d] = req[d] /\ from'[d] = from[d]
             \/ \E r \in Requests :
                  /\ c \notin Range(applied)
                  /\ ~Refused(tiers, r) /\ ~KeyError(r)
                  /\ tiers' = apply_mutation(tiers, r)
                  /\ Range(applied') = Range(applied) \cup {c}
                  /\ req'[c] = r /\ from'[c] = tier_of(tiers, r.symbol)
                  /\ \A d \in Range(applied) : req'[d] = req[d] /\ from'[d] = from[d]
  <2> PICK r \in Requests :
        /\ req'  = [req EXCEPT ![c] = r]
        /\ from' = [from EXCEPT ![c] = tier_of(tiers, r.symbol)]
        /\ \/ UNCHANGED fileVars
           \/ /\ ~Refused(tiers, r) /\ ~KeyError(r)
              /\ tiers' = apply_mutation(tiers, r)
              /\ applied' = Append(applied, c)
    BY <1>2 DEF Mutate
  <2>1. c \notin Range(applied)
    BY <1>1, <1>2 DEF Mutate
  <2>2. \A d \in Range(applied) : req'[d] = req[d] /\ from'[d] = from[d]
    BY <1>1, <2>1
  <2>3. req'[c] = r /\ from'[c] = tier_of(tiers, r.symbol)
    BY <1>1
  <2>4. Range(Append(applied, c)) = Range(applied) \cup {c}
    BY <1>1, RangeOfAppend
  <2>5. CASE UNCHANGED fileVars
    BY <2>2, <2>5 DEF fileVars
  <2>6. CASE /\ ~Refused(tiers, r) /\ ~KeyError(r)
             /\ tiers' = apply_mutation(tiers, r)
             /\ applied' = Append(applied, c)
    BY <2>1, <2>2, <2>3, <2>4, <2>6
  <2> QED
    BY <2>5, <2>6
<1>3. CASE \E c \in Calls : Mutate(c)
  BY <1>2, <1>3
<1>4. CASE UNCHANGED <<tiers, applied, req, from>>
  BY <1>4
<1>5. CASE \E c \in Calls : Record(c) \/ Post(c) \/ Mark(c) \/ Age(c)
  BY <1>4, <1>5 DEF Record, Post, Mark, Age, fileVars, callVars
<1>6. CASE \E s \in Sweeps : SweepRead(s) \/ SweepPost(s) \/ SweepMark(s) \/ SweepCrash(s)
  BY <1>4, <1>6 DEF SweepRead, SweepPost, SweepMark, SweepCrash, fileVars, callVars
<1>7. CASE ServerCrash
  BY <1>4, <1>7 DEF ServerCrash, fileVars
<1>8. CASE UNCHANGED vars
  BY <1>4, <1>8 DEF vars, fileVars, callVars
<1> QED
  BY <1>3, <1>5, <1>6, <1>7, <1>8 DEF Next

LEMMA TierCapsInit == Init => TierCapsHold
<1> SUFFICES ASSUME Init, NEW t \in DOMAIN TierCap
             PROVE  Len(tiers[t]) <= Max({TierCap[t], Len(InitialTiers[t])})
  BY DEF TierCapsHold
<1>1. InitialTiers \in TierMaps /\ t \in Tiers /\ TierCap[t] \in Nat
  BY ConstantsAssumption DEF TierMaps, Tiers
<1>2. Len(InitialTiers[t]) \in Nat
  BY <1>1, SizesAreNaturals
<1>3. Len(InitialTiers[t]) <= Max({TierCap[t], Len(InitialTiers[t])})
  <2>1. TierCap[t] \in Int /\ Len(InitialTiers[t]) \in Int
    BY <1>1, <1>2
  <2> QED
    BY <2>1, MaxOfTwo, Zenon
<1> QED
  BY <1>3 DEF Init

LEMMA TierCapsNext == TypeInv /\ TierCapsHold /\ [Next]_vars => TierCapsHold'
<1> SUFFICES ASSUME TypeInv, TierCapsHold, [Next]_vars, NEW t \in DOMAIN TierCap
             PROVE  Len(tiers'[t]) <= Max({TierCap[t], Len(InitialTiers[t])})
  BY DEF TierCapsHold
<1> DEFINE B == Max({TierCap[t], Len(InitialTiers[t])})
<1>1. /\ tiers \in TierMaps /\ InitialTiers \in TierMaps
      /\ t \in ActiveTiers /\ t \in Tiers /\ TierCap[t] \in Nat
  BY ConstantsAssumption DEF TierMaps, Tiers, TypeInv, TypeOK
<1>2. Len(tiers[t]) \in Nat /\ Len(InitialTiers[t]) \in Nat
  BY <1>1, SizesAreNaturals
<1>3. B \in Nat /\ TierCap[t] <= B
  <2>1. TierCap[t] \in Int /\ Len(InitialTiers[t]) \in Int
    BY <1>1, <1>2
  <2>2. B \in {TierCap[t], Len(InitialTiers[t])} /\ TierCap[t] <= B
    BY <2>1, MaxOfTwo, Zenon
  <2> QED
    BY <1>1, <1>2, <2>2
<1>4. Len(tiers[t]) <= B
  BY DEF TierCapsHold
<1> HIDE DEF B
<1>5. UNCHANGED tiers => Len(tiers'[t]) <= B
  BY <1>4, Zenon
<1>6. ASSUME NEW r \in Requests, ~Refused(tiers, r), ~KeyError(r),
             tiers' = apply_mutation(tiers, r)
      PROVE  Len(tiers'[t]) <= B
  <2>1. /\ apply_mutation(tiers, r) \in TierMaps
        /\ Len(apply_mutation(tiers, r)[t]) <= Len(tiers[t]) + Weight(t, r.to)
    BY <1>1, <1>6, ApplyFacts
  <2>2. Len(tiers'[t]) \in Nat /\ Len(tiers'[t]) <= Len(tiers[t]) + Weight(t, r.to)
    BY <1>1, <1>6, <2>1, SizesAreNaturals
  <2>3. CASE t = r.to
    <3>1. Len(tiers[t]) < TierCap[t]
      BY <1>1, <1>2, <1>6, <2>3 DEF Refused
    <3>2. Weight(t, r.to) = 1
      BY <2>3 DEF Weight
    <3> QED
      BY <1>1, <1>2, <1>3, <2>2, <3>1, <3>2
  <2>4. CASE t # r.to
    BY <1>2, <1>3, <1>4, <2>2, <2>4 DEF Weight
  <2> QED
    BY <2>3, <2>4
<1>7. Len(tiers'[t]) <= B
  <2>1. \/ UNCHANGED tiers
        \/ \E r \in Requests : /\ ~Refused(tiers, r) /\ ~KeyError(r)
                               /\ tiers' = apply_mutation(tiers, r)
    BY ChangeStep
  <2> QED
    BY <1>5, <1>6, <2>1
<1> QED
  BY <1>7 DEF B

\* validate_mutation keeps every tier within its cap, or within what the
\* operator put there, whatever calls are made and whatever is lost.
THEOREM TierCapsCorrect == Spec => []TierCapsHold
BY TypeInvariant, TierCapsInit, TierCapsNext, PTL DEF Spec

LEMMA BarredNext == TypeInv /\ BarredExplained /\ [Next]_vars => BarredExplained'
<1> SUFFICES ASSUME TypeInv, BarredExplained, [Next]_vars
             PROVE  BarredExplained'
  OBVIOUS
<1>1. tiers \in TierMaps /\ ActiveTiers \subseteq Tiers /\ "core" \in ActiveTiers
  BY DEF TierMaps, Tiers, ActiveTiers, TypeInv, TypeOK
<1>2. CASE /\ UNCHANGED <<tiers, applied>>
           /\ \A c \in Range(applied) : req'[c] = req[c] /\ from'[c] = from[c]
  BY <1>2 DEF BarredExplained, IsActive
<1>3. ASSUME NEW c \in Calls, NEW r \in Requests,
             ~Refused(tiers, r), ~KeyError(r),
             tiers' = apply_mutation(tiers, r),
             Range(applied') = Range(applied) \cup {c},
             req'[c] = r,
             \A d \in Range(applied) : req'[d] = req[d]
      PROVE  BarredExplained'
  <2>1. \A t \in ActiveTiers : \A x :
          Contains(tiers'[t], x) =>
            Contains(tiers[t], x) \/ (t = r.to /\ x = r.symbol)
    <3>1. \A t \in ActiveTiers : \A x :
            Contains(apply_mutation(tiers, r)[t], x) =>
              Contains(tiers[t], x) \/ (t = r.to /\ x = r.symbol)
      BY <1>1, <1>3, ApplyFacts
    <3> QED
      BY <1>3, <3>1, Zenon
  <2>2. ASSUME NEW s \in Locked, IsActive(tiers', s)
        PROVE  \/ IsActive(InitialTiers, s)
               \/ \E d \in Range(applied') : /\ req'[d].symbol = s
                                             /\ req'[d].type # "unexclude"
    <3>1. CASE IsActive(tiers, s)
      BY <1>3, <3>1 DEF BarredExplained
    <3>2. CASE ~IsActive(tiers, s)
      <4>1. s = r.symbol
        BY <2>1, <2>2, <3>2 DEF IsActive
      <4>2. r.type # "unexclude"
        BY <1>3, <2>2, <4>1 DEF Refused
      <4> QED
        BY <1>3, <4>1, <4>2
    <3> QED
      BY <3>1, <3>2
  <2>3. ASSUME CoreOperatorOnly, NEW s \in Symbols, Contains(tiers'["core"], s)
        PROVE  \/ Contains(InitialTiers["core"], s)
               \/ \E d \in Range(applied') : /\ req'[d].symbol = s
                                             /\ req'[d].to = "core"
                                             /\ req'[d].type # "promote"
    <3>1. CASE Contains(tiers["core"], s)
      BY <1>3, <2>3, <3>1 DEF BarredExplained
    <3>2. CASE ~Contains(tiers["core"], s)
      <4>1. s = r.symbol /\ r.to = "core"
        BY <1>1, <2>1, <2>3, <3>2
      <4>2. r.type # "promote"
        BY <1>3, <2>3, <4>1 DEF Refused
      <4> QED
        BY <1>3, <4>1, <4>2
    <3> QED
      BY <3>1, <3>2
  <2> QED
    BY <2>2, <2>3 DEF BarredExplained
<1> QED
  BY <1>2, <1>3, ChangeStep

\* unexclude never brings back a locked symbol and promote never fills core
\* where that is the operator's; what gets past these locks came by another
\* event type, in a call the audit history has.
THEOREM BarredCorrect == Spec => []BarredExplained
<1>1. Init => BarredExplained
  BY DEF Init, BarredExplained
<1> QED
  BY <1>1, TypeInvariant, BarredNext, PTL DEF Spec

Movers == {c \in Range(applied) : Moves(c)}

LEMMA TotalNext == TypeInv /\ TotalExplained /\ [Next]_vars => TotalExplained'
<1> SUFFICES ASSUME TypeInv, TotalExplained, [Next]_vars
             PROVE  TotalExplained'
  OBVIOUS
<1> DEFINE T == Max({MaxTotal, total_size(InitialTiers)})
           m == Cardinality(Movers)
           n == Cardinality(Movers')
           size == total_size(tiers)
           sizeNew == total_size(tiers')
<1>1. tiers \in TierMaps /\ InitialTiers \in TierMaps /\ MaxTotal \in Nat
  BY ConstantsAssumption DEF TierMaps, TypeInv, TypeOK
<1>2. T \in Nat /\ MaxTotal <= T
  <2>1. /\ total_size(InitialTiers) \in Nat /\ MaxTotal \in Int
        /\ total_size(InitialTiers) \in Int
    BY <1>1, SizesAreNaturals
  <2>2. T \in {MaxTotal, total_size(InitialTiers)} /\ MaxTotal <= T
    BY <2>1, MaxOfTwo, Zenon
  <2> QED
    BY <1>1, <2>1, <2>2
<1>3. size \in Nat
  BY <1>1, SizesAreNaturals
<1>4. IsFiniteSet(Movers) /\ m \in Nat
  BY FS_Subset, FS_CardinalityType DEF Movers, TypeInv
<1>5. size <= T + m
  BY DEF TotalExplained, Movers
<1>6. CASE /\ UNCHANGED <<tiers, applied>>
           /\ \A c \in Range(applied) : req'[c] = req[c] /\ from'[c] = from[c]
  <2>1. Movers' = Movers
    BY <1>6 DEF Movers, Moves
  <2> QED
    BY <1>5, <1>6, <2>1 DEF TotalExplained, Movers
<1>7. ASSUME NEW c \in Calls, NEW r \in Requests,
             c \notin Range(applied),
             ~Refused(tiers, r), ~KeyError(r),
             tiers' = apply_mutation(tiers, r),
             Range(applied') = Range(applied) \cup {c},
             req'[c] = r, from'[c] = tier_of(tiers, r.symbol),
             \A d \in Range(applied) : req'[d] = req[d] /\ from'[d] = from[d]
      PROVE  TotalExplained'
  <2> DEFINE moved == tier_of(tiers, r.symbol)
             isMove == /\ r.type \in {"promote", "demote"}
                       /\ moved \notin ActiveTiers /\ r.to \in ActiveTiers
  <2>1. Movers' = IF isMove THEN Movers \cup {c} ELSE Movers
    BY <1>7 DEF Movers, Moves
  <2>2. c \notin Movers
    BY <1>7 DEF Movers
  <2>3. n = IF isMove THEN m + 1 ELSE m
    BY <1>4, <2>1, <2>2, FS_AddElement
  <2>4. tiers' \in TierMaps /\ sizeNew \in Nat
    BY <1>1, <1>7, ApplyFacts, SizesAreNaturals
  <2>5. /\ r.type = "add" => sizeNew <= size + 1
        /\ r.type \in {"remove", "exclude", "hard_limit_blocked"} => sizeNew <= size
        /\ r.type \in {"promote", "demote", "unexclude"} =>
             sizeNew <= size - ActiveWeight(moved) + ActiveWeight(r.to)
    BY <1>1, <1>7, ApplyFacts
  <2>6. ActiveWeight(moved) \in 0..1 /\ ActiveWeight(r.to) \in 0..1
    BY DEF ActiveWeight
  <2>7. r.type \in EventTypes
    BY ConstantsAssumption
  <2>8. sizeNew <= T + n
    <3> HIDE DEF T, m, n, size, sizeNew, moved
    <3>1. CASE r.type \in {"add", "unexclude"}
      <4>1. size < MaxTotal
        BY <1>1, <1>3, <1>7, <3>1 DEF Refused, size
      <4>2. sizeNew <= size + 1
        BY <1>3, <2>4, <2>5, <2>6, <3>1
      <4>3. n \in Nat
        BY <1>4, <2>3
      <4> QED
        BY <1>1, <1>2, <1>3, <2>4, <4>1, <4>2, <4>3
    <3>2. CASE r.type \in {"remove", "exclude", "hard_limit_blocked"}
      <4>1. sizeNew <= size /\ n = m
        BY <2>3, <2>5, <3>2
      <4> QED
        BY <1>2, <1>3, <1>4, <1>5, <2>4, <4>1
    <3>3. CASE r.type \in {"promote", "demote"}
      <4>1. sizeNew <= size - ActiveWeight(moved) + ActiveWeight(r.to)
        BY <2>5, <3>3
      <4>2. CASE isMove
        <5>1. n = m + 1 /\ sizeNew <= size + 1
          BY <1>3, <2>3, <2>4, <2>6, <4>1, <4>2
        <5> QED
          BY <1>2, <1>3, <1>4, <1>5, <2>4, <5>1
      <4>3. CASE ~isMove
        <5>1. moved \in ActiveTiers \/ r.to \notin ActiveTiers
          BY <3>3, <4>3
        <5>2. ActiveWeight(r.to) <= ActiveWeight(moved)
          BY <5>1 DEF ActiveWeight
        <5>3. n = m /\ sizeNew <= size
          BY <1>3, <2>3, <2>4, <2>6, <4>1, <4>3, <5>2
        <5> QED
          BY <1>2, <1>3, <1>4, <1>5, <2>4, <5>3
      <4> QED
        BY <4>2, <4>3
    <3> QED
      BY <2>7, <3>1, <3>2, <3>3 DEF EventTypes
  <2> QED
    BY <2>8 DEF TotalExplained, Movers
<1> QED
  BY <1>6, <1>7, ChangeStep

\* The total is checked for add and unexclude only; every symbol past it was
\* brought in by a promotion or demotion of a symbol that no active tier had.
THEOREM TotalCorrect == Spec => []TotalExplained
<1>1. Init => TotalExplained
  <2> SUFFICES ASSUME Init PROVE TotalExplained
    OBVIOUS
  <2>1. InitialTiers \in TierMaps /\ MaxTotal \in Nat
    BY ConstantsAssumption DEF TierMaps
  <2>2. total_size(InitialTiers) \in Nat
    BY <2>1, SizesAreNaturals
  <2>3. {c \in Range(applied) : Moves(c)} = {}
    BY DEF Init, Range
  <2>4. Cardinality({c \in Range(applied) : Moves(c)}) = 0
    BY <2>3, FS_EmptySet
  <2>5. /\ Max({MaxTotal, total_size(InitialTiers)}) \in Nat
        /\ total_size(InitialTiers) <= Max({MaxTotal, total_size(InitialTiers)})
    <3>1. MaxTotal \in Int /\ total_size(InitialTiers) \in Int
      BY <2>1, <2>2
    <3>2. /\ Max({MaxTotal, total_size(InitialTiers)})
               \in {MaxTotal, total_size(InitialTiers)}
          /\ total_size(InitialTiers) <= Max({MaxTotal, total_size(InitialTiers)})
      BY <3>1, MaxOfTwo, Zenon
    <3> QED
      BY <2>1, <2>2, <3>2
  <2> QED
    BY <2>2, <2>4, <2>5 DEF Init, TotalExplained
<1> QED
  BY <1>1, TypeInvariant, TotalNext, PTL DEF Spec

-----------------------------------------------------------------------------
(* The feed                                                                *)

\* A card is shown, marked or about to be marked only for a row that is there.
FeedInv ==
  /\ AnnouncedIsRecorded
  /\ \A c \in Calls : /\ pc[c] \in {"posting", "marking"} => events[c] # None
                      /\ pc[c] = "marking" => cards[c] > 0
  /\ \A s \in Sweeps : /\ \A c \in todo[s] : events[c] # None
                       /\ held[s] # None => cards[held[s]] > 0

LEMMA FeedNext == TypeInv /\ FeedInv /\ [Next]_vars => FeedInv'
<1> SUFFICES ASSUME TypeInv, FeedInv, [Next]_vars PROVE FeedInv'
  OBVIOUS
<1>t. /\ pc \in [Calls -> Steps] /\ cards \in [Calls -> Nat]
      /\ events \in [Calls -> Rows \cup {None}] /\ posted \subseteq Calls
      /\ todo \in [Sweeps -> SUBSET Calls] /\ held \in [Sweeps -> Calls \cup {None}]
      /\ None \notin Calls
  BY ConstantsAssumption DEF TypeInv, TypeOK
<1> USE DEF FeedInv, AnnouncedIsRecorded
<1>1. ASSUME NEW c \in Calls, Mutate(c) PROVE FeedInv'
  <2>1. UNCHANGED <<events, posted, cards, todo, held>>
    BY <1>1 DEF Mutate, feedVars, sweepVars
  <2>2. \A d \in Calls : pc'[d] \in {"posting", "marking"} => pc'[d] = pc[d]
    BY <1>1, <1>t DEF Mutate
  <2> QED
    BY <2>1, <2>2
<1>2. ASSUME NEW c \in Calls, Record(c) PROVE FeedInv'
  <2>1. UNCHANGED <<posted, cards, todo, held>>
    BY <1>2 DEF Record, sweepVars
  <2>2. Row(c) # None
    BY <1>2, RowType, ConstantsAssumption DEF Record
  <2>3. \A d \in Calls : events[d] # None => events'[d] # None
    BY <1>2, <1>t, <2>2 DEF Record
  <2>4. \A d \in Calls :
          /\ pc'[d] = "marking" => pc[d] = "marking"
          /\ pc'[d] = "posting" => pc[d] = "posting" \/ events'[d] # None
    BY <1>2, <1>t, <2>2 DEF Record
  <2> QED
    BY <1>t, <2>1, <2>3, <2>4
<1>3. ASSUME NEW c \in Calls, Post(c) PROVE FeedInv'
  <2>1. UNCHANGED <<events, posted, todo, held>>
    BY <1>3 DEF Post, sweepVars
  <2>2. pc[c] = "posting" /\ events[c] # None
    BY <1>3 DEF Post
  <2>3. \A d \in Calls : /\ cards[d] > 0 => cards'[d] > 0
                         /\ d # c => cards'[d] = cards[d] /\ pc'[d] = pc[d]
    BY <1>3, <1>t DEF Post, PostedCard, FailedCard
  <2>4. pc'[c] # "posting" /\ (pc'[c] = "marking" => cards'[c] > 0)
    BY <1>3, <1>t DEF Post, PostedCard
  <2> QED
    BY <1>t, <2>1, <2>2, <2>3, <2>4
<1>4. ASSUME NEW c \in Calls, Mark(c) PROVE FeedInv'
  BY <1>4, <1>t DEF Mark, sweepVars
<1>5. ASSUME NEW c \in Calls, Age(c) PROVE FeedInv'
  BY <1>5 DEF Age, callVars, sweepVars
<1>6. ASSUME NEW s \in Sweeps, SweepRead(s) PROVE FeedInv'
  BY <1>6, <1>t DEF SweepRead, Unposted, callVars, feedVars
<1>7. ASSUME NEW s \in Sweeps, SweepPost(s) PROVE FeedInv'
  <2> PICK c \in todo[s] :
        /\ todo' = [todo EXCEPT ![s] = @ \ {c}]
        /\ \/ PostedCard(c) /\ held' = [held EXCEPT ![s] = c]
           \/ FailedCard(c) /\ UNCHANGED held
    BY <1>7 DEF SweepPost
  <2>1. UNCHANGED <<pc, events, posted>>
    BY <1>7 DEF SweepPost, callVars
  <2>2. c \in Calls /\ events[c] # None
    BY <1>t
  <2>3. cards' = cards \/ cards' = [cards EXCEPT ![c] = @ + 1]
    BY DEF PostedCard, FailedCard
  <2>4. \A d \in Calls : /\ cards[d] > 0 => cards'[d] > 0
                         /\ d # c => cards'[d] = cards[d]
    BY <1>t, <2>2, <2>3
  <2>5. \A q \in Sweeps : todo'[q] \subseteq todo[q]
    BY <1>t
  <2>6. \A q \in Sweeps : held'[q] # None => cards'[held'[q]] > 0
    <3>1. CASE PostedCard(c) /\ held' = [held EXCEPT ![s] = c]
      <4>1. cards'[c] > 0
        BY <1>t, <2>2, <3>1 DEF PostedCard
      <4>2. \A q \in Sweeps : held'[q] = c \/ held'[q] = held[q]
        BY <1>t, <3>1
      <4> QED
        BY <1>t, <2>4, <4>1, <4>2
    <3>2. CASE FailedCard(c) /\ UNCHANGED held
      BY <1>t, <2>4, <3>2
    <3> QED
      BY <3>1, <3>2
  <2> QED
    BY <1>t, <2>1, <2>2, <2>4, <2>5, <2>6
<1>8. ASSUME NEW s \in Sweeps, SweepMark(s) PROVE FeedInv'
  BY <1>8, <1>t DEF SweepMark, callVars
<1>9. ASSUME NEW s \in Sweeps, SweepCrash(s) PROVE FeedInv'
  BY <1>9, <1>t DEF SweepCrash, callVars, feedVars
<1>10. CASE ServerCrash
  <2>1. UNCHANGED <<events, posted, cards, todo, held>>
    BY <1>10 DEF ServerCrash, feedVars, sweepVars
  <2>2. \A d \in Calls : pc'[d] \in {"posting", "marking"} => pc'[d] = pc[d]
    BY <1>10, <1>t DEF ServerCrash
  <2> QED
    BY <2>1, <2>2
<1>11. CASE UNCHANGED vars
  BY <1>11 DEF vars, callVars, feedVars, sweepVars
<1> QED
  BY <1>1, <1>2, <1>3, <1>4, <1>5, <1>6, <1>7, <1>8, <1>9, <1>10, <1>11 DEF Next

\* The tool and the sweeps show committed rows only, and mark a row posted only
\* after its card was shown, however many sweeps overlap.
THEOREM AnnouncedCorrect == Spec => []AnnouncedIsRecorded
<1>1. Init => FeedInv
  BY ConstantsAssumption DEF Init, FeedInv, AnnouncedIsRecorded
<1>2. FeedInv => AnnouncedIsRecorded
  BY DEF FeedInv
<1> QED
  BY <1>1, <1>2, TypeInvariant, FeedNext, PTL DEF Spec

-----------------------------------------------------------------------------
(***************************************************************************)
(* How often a change is shown.  Until its row is marked, every card of a  *)
(* change has somebody about to mark the row, or a loss behind it; from    *)
(* then on only those that had read the row before can show it again, and  *)
(* the tool, if it has yet to post.  A sweep that is about to mark a row   *)
(* has no other card of it to post.                                        *)
(***************************************************************************)
Losses == failures + crashes
Holds(c) == {s \in Sweeps : held[s] = c}
Waits(c) == {s \in Sweeps : c \in todo[s]}
Marking(c) == IF pc[c] = "marking" THEN 1 ELSE 0
Posting(c) == IF pc[c] = "posting" THEN 1 ELSE 0

CardOf(c) ==
  /\ c \notin posted => cards[c] <= Cardinality(Holds(c)) + Marking(c) + Losses
  /\ c \in posted =>
       cards[c] + Cardinality(Waits(c)) + Posting(c) <= 1 + Cardinality(Sweeps) + Losses

OneRow == \A s \in Sweeps : held[s] \notin todo[s]
Rowless == \A c \in Calls : pc[c] \in {"idle", "refused", "applied"} => events[c] = None
CardInv == OneRow /\ Rowless /\ \A c \in Calls : CardOf(c)

Numbers(c) ==
  /\ cards[c] \in Nat /\ Losses \in Nat /\ failures \in Nat /\ crashes \in Nat
  /\ Cardinality(Sweeps) \in Nat
  /\ Marking(c) \in {0, 1} /\ Posting(c) \in {0, 1}
  /\ Marking(c) + Posting(c) <= 1
  /\ IsFiniteSet(Holds(c)) /\ Cardinality(Holds(c)) \in Nat
  /\ Cardinality(Holds(c)) <= Cardinality(Sweeps)
  /\ IsFiniteSet(Waits(c)) /\ Cardinality(Waits(c)) \in Nat

AllNumbered == \A c \in Calls : Numbers(c)

LEMMA AllNumbers == TypeInv => AllNumbered
<1> SUFFICES ASSUME TypeInv, NEW c \in Calls PROVE Numbers(c)
  BY DEF AllNumbered
<1>1. cards[c] \in Nat /\ failures \in Nat /\ crashes \in Nat
  <2>1. cards \in [Calls -> Nat] /\ failures \in 0..MaxFailures /\ crashes \in 0..MaxCrashes
    BY DEF TypeInv, TypeOK
  <2> QED
    BY <2>1
<1>2. IsFiniteSet(Sweeps) /\ Holds(c) \in SUBSET Sweeps /\ Waits(c) \in SUBSET Sweeps
  BY ConstantsAssumption DEF Holds, Waits
<1>3. /\ IsFiniteSet(Holds(c)) /\ Cardinality(Holds(c)) \in Nat
      /\ Cardinality(Holds(c)) <= Cardinality(Sweeps)
      /\ IsFiniteSet(Waits(c)) /\ Cardinality(Waits(c)) \in Nat
      /\ Cardinality(Sweeps) \in Nat
  BY <1>2, FS_Subset, FS_CardinalityType
<1>4. Marking(c) \in {0, 1} /\ Posting(c) \in {0, 1} /\ Marking(c) + Posting(c) <= 1
  BY DEF Marking, Posting
<1> QED
  BY <1>1, <1>3, <1>4 DEF Numbers, Losses

LEMMA CardNumbers ==
  ASSUME TypeInv, NEW c \in Calls
  PROVE  Numbers(c)
BY AllNumbers DEF AllNumbered

LEMMA CardNumbersNext ==
  ASSUME TypeInv', NEW c \in Calls
  PROVE  Numbers(c)'
<1>1. AllNumbered'
  BY AllNumbers, PTL
<1> QED
  BY <1>1 DEF AllNumbered

\* Nobody waits with a card and holds one of the same row.
LEMMA HoldersAndWaiters ==
  ASSUME TypeInv, OneRow, NEW c \in Calls
  PROVE  Cardinality(Holds(c)) + Cardinality(Waits(c)) <= Cardinality(Sweeps)
<1>1. /\ IsFiniteSet(Holds(c)) /\ IsFiniteSet(Waits(c))
      /\ Cardinality(Holds(c)) \in Nat /\ Cardinality(Waits(c)) \in Nat
  BY CardNumbers DEF Numbers
<1>2. Holds(c) \cap Waits(c) = {}
  BY DEF OneRow, Holds, Waits
<1>3. Cardinality(Holds(c) \cap Waits(c)) = 0
  BY <1>2, FS_EmptySet
<1>4. Cardinality(Holds(c) \cup Waits(c)) =
        Cardinality(Holds(c)) + Cardinality(Waits(c)) - Cardinality(Holds(c) \cap Waits(c))
  BY <1>1, FS_Union, Zenon
<1>5. IsFiniteSet(Sweeps) /\ Holds(c) \cup Waits(c) \in SUBSET Sweeps
  BY ConstantsAssumption DEF Holds, Waits
<1>6. Cardinality(Holds(c) \cup Waits(c)) <= Cardinality(Sweeps)
  BY <1>5, FS_Subset
<1> QED
  BY <1>1, <1>3, <1>4, <1>6

\* A step after which a row is marked no more than before.
LEMMA CardSame ==
  ASSUME TypeInv, TypeInv', NEW c \in Calls, CardOf(c),
         c \in posted' <=> c \in posted,
         c \notin posted =>
           cards'[c] + Cardinality(Holds(c)) + Marking(c) + Losses
             <= cards[c] + Cardinality(Holds(c)') + Marking(c)' + Losses',
         c \in posted =>
           cards'[c] + Cardinality(Waits(c)') + Posting(c)' + Losses
             <= cards[c] + Cardinality(Waits(c)) + Posting(c) + Losses'
  PROVE  CardOf(c)'
<1>1. /\ cards[c] \in Nat /\ Losses \in Nat /\ Cardinality(Sweeps) \in Nat
      /\ Marking(c) \in {0, 1} /\ Posting(c) \in {0, 1}
      /\ Cardinality(Holds(c)) \in Nat /\ Cardinality(Waits(c)) \in Nat
  BY CardNumbers DEF Numbers
<1>2. /\ cards'[c] \in Nat /\ Losses' \in Nat
      /\ Marking(c)' \in {0, 1} /\ Posting(c)' \in {0, 1}
      /\ Cardinality(Holds(c)') \in Nat /\ Cardinality(Waits(c)') \in Nat
  BY CardNumbersNext DEF Numbers
<1>3. CASE c \notin posted
  <2>1. cards[c] <= Cardinality(Holds(c)) + Marking(c) + Losses
    BY <1>3 DEF CardOf
  <2>2. cards'[c] <= Cardinality(Holds(c)') + Marking(c)' + Losses'
    BY <1>1, <1>2, <1>3, <2>1
  <2> QED
    BY <1>3, <2>2 DEF CardOf
<1>4. CASE c \in posted
  <2>1. cards[c] + Cardinality(Waits(c)) + Posting(c) <= 1 + Cardinality(Sweeps) + Losses
    BY <1>4 DEF CardOf
  <2>2. cards'[c] + Cardinality(Waits(c)') + Posting(c)' <= 1 + Cardinality(Sweeps) + Losses'
    BY <1>1, <1>2, <1>4, <2>1
  <2> QED
    BY <1>4, <2>2 DEF CardOf
<1> QED
  BY <1>3, <1>4

\* The step that marks the row of a change.
LEMMA CardMarked ==
  ASSUME TypeInv, TypeInv', OneRow, NEW c \in Calls, CardOf(c), c \in posted',
         UNCHANGED Losses, UNCHANGED cards, Waits(c)' \subseteq Waits(c),
         Posting(c)' <= Posting(c)
  PROVE  CardOf(c)'
<1>1. /\ cards[c] \in Nat /\ Losses \in Nat /\ Cardinality(Sweeps) \in Nat
      /\ Marking(c) \in {0, 1} /\ Posting(c) \in {0, 1} /\ Marking(c) + Posting(c) <= 1
      /\ Cardinality(Holds(c)) \in Nat /\ Cardinality(Waits(c)) \in Nat
      /\ IsFiniteSet(Waits(c))
  BY CardNumbers DEF Numbers
<1>2. Cardinality(Waits(c)') \in Nat /\ Posting(c)' \in {0, 1}
  BY CardNumbersNext DEF Numbers
<1>3. Cardinality(Waits(c)') <= Cardinality(Waits(c))
  <2>1. Waits(c)' \in SUBSET Waits(c)
    OBVIOUS
  <2> QED
    BY <1>1, <2>1, FS_Subset
<1>4. Cardinality(Holds(c)) + Cardinality(Waits(c)) <= Cardinality(Sweeps)
  BY HoldersAndWaiters
<1>5. /\ c \notin posted => cards[c] <= Cardinality(Holds(c)) + Marking(c) + Losses
      /\ c \in posted =>
           cards[c] + Cardinality(Waits(c)) + Posting(c) <= 1 + Cardinality(Sweeps) + Losses
  BY DEF CardOf
<1>6. cards[c] + Cardinality(Waits(c)) + Posting(c) <= 1 + Cardinality(Sweeps) + Losses
  BY <1>1, <1>4, <1>5
<1>7. cards[c] + Cardinality(Waits(c)') + Posting(c)' <= 1 + Cardinality(Sweeps) + Losses
  BY <1>1, <1>2, <1>3, <1>6
<1>8. cards'[c] + Cardinality(Waits(c)') + Posting(c)' <= 1 + Cardinality(Sweeps) + Losses'
  BY <1>7
<1> QED
  BY <1>8 DEF CardOf

\* Steps of one call that leave the sweeps, the cards and the counts alone.
LEMMA CallCards ==
  ASSUME TypeInv, TypeInv', CardInv, UNCHANGED <<posted, cards, todo, held, failures, crashes>>,
         NEW c \in Calls, \A d \in Calls \ {c} : pc'[d] = pc[d],
         pc[c] # "marking", pc'[c] = "posting" => c \notin posted
  PROVE  \A d \in Calls : CardOf(d)'
<1> SUFFICES ASSUME NEW d \in Calls PROVE CardOf(d)'
  OBVIOUS
<1>1. CardOf(d) /\ Holds(d)' = Holds(d) /\ Waits(d)' = Waits(d) /\ Losses' = Losses
  BY DEF CardInv, Holds, Waits, Losses
<1>2. /\ cards[d] \in Nat /\ Losses \in Nat /\ Marking(d) \in {0, 1} /\ Posting(d) \in {0, 1}
      /\ Cardinality(Holds(d)) \in Nat /\ Cardinality(Waits(d)) \in Nat
  BY CardNumbers DEF Numbers
<1>3. Marking(d)' \in {0, 1} /\ Posting(d)' \in {0, 1}
  BY CardNumbersNext DEF Numbers
<1>4. Marking(d) <= Marking(d)' /\ (d \in posted => Posting(d)' <= Posting(d))
  BY DEF Marking, Posting
<1> QED
  BY <1>1, <1>2, <1>3, <1>4, CardSame

LEMMA PostCards ==
  ASSUME TypeInv, TypeInv', CardInv, NEW c \in Calls, Post(c)
  PROVE  \A d \in Calls : CardOf(d)'
<1>t. cards \in [Calls -> Nat] /\ pc \in [Calls -> Steps] /\ pc[c] = "posting"
  BY DEF TypeInv, TypeOK, Post
<1>1. UNCHANGED <<posted, todo, held, crashes>>
  BY DEF Post, sweepVars
<1>2. CASE ~Webhook
  <2>1. cards' = cards /\ failures' = failures /\ pc' = [pc EXCEPT ![c] = "failed"]
    BY <1>2 DEF Post
  <2> QED
    BY <1>t, <1>1, <2>1, CallCards
<1>3. CASE Webhook
  <2> SUFFICES ASSUME NEW d \in Calls PROVE CardOf(d)'
    OBVIOUS
  <2>1. CardOf(d) /\ Holds(d)' = Holds(d) /\ Waits(d)' = Waits(d)
    BY <1>1 DEF CardInv, Holds, Waits
  <2>2. /\ cards[d] \in Nat /\ Losses \in Nat /\ failures \in Nat /\ crashes \in Nat
        /\ Marking(d) \in {0, 1} /\ Posting(d) \in {0, 1}
        /\ Cardinality(Holds(d)) \in Nat /\ Cardinality(Waits(d)) \in Nat
    BY CardNumbers DEF Numbers
  <2>3. Marking(d)' \in {0, 1} /\ Posting(d)' \in {0, 1}
    BY CardNumbersNext DEF Numbers
  <2>4. CASE d # c
    <3>1. pc'[d] = pc[d] /\ cards'[d] = cards[d]
      BY <1>t, <1>3, <2>4 DEF Post, PostedCard, FailedCard
    <3>2. Losses' = Losses \/ Losses' = Losses + 1
      BY <1>1, <1>3, <2>2 DEF Post, PostedCard, FailedCard, Losses
    <3>3. Marking(d)' = Marking(d) /\ Posting(d)' = Posting(d)
      BY <3>1 DEF Marking, Posting
    <3> QED
      BY <1>1, <2>1, <2>2, <3>1, <3>2, <3>3, CardSame
  <2>5. CASE d = c /\ PostedCard(c) /\ pc' = [pc EXCEPT ![c] = "marking"]
    <3>1. cards'[d] = cards[d] + 1 /\ pc'[d] = "marking" /\ Losses' = Losses
      BY <1>t, <1>1, <2>5 DEF PostedCard, Losses
    <3>2. Marking(d) = 0 /\ Marking(d)' = 1 /\ Posting(d) = 1 /\ Posting(d)' = 0
      BY <1>t, <2>5, <3>1 DEF Marking, Posting
    <3> QED
      BY <1>1, <2>1, <2>2, <3>1, <3>2, CardSame
  <2>6. CASE d = c /\ FailedCard(c) /\ pc' = [pc EXCEPT ![c] = "done"]
    <3>1. pc'[d] = "done" /\ Losses' = Losses + 1
      BY <1>t, <1>1, <2>2, <2>6 DEF FailedCard, Losses
    <3>2. cards'[d] \in {cards[d], cards[d] + 1}
      BY <1>t, <2>6 DEF FailedCard
    <3>3. Marking(d) = 0 /\ Marking(d)' = 0 /\ Posting(d) = 1 /\ Posting(d)' = 0
      BY <1>t, <2>6, <3>1 DEF Marking, Posting
    <3> QED
      BY <1>1, <2>1, <2>2, <3>1, <3>2, <3>3, CardSame
  <2> QED
    BY <1>3, <2>4, <2>5, <2>6 DEF Post
<1> QED
  BY <1>2, <1>3

LEMMA MarkCards ==
  ASSUME TypeInv, TypeInv', CardInv, NEW c \in Calls, Mark(c)
  PROVE  \A d \in Calls : CardOf(d)'
<1> SUFFICES ASSUME NEW d \in Calls PROVE CardOf(d)'
  OBVIOUS
<1>1. /\ UNCHANGED <<cards, todo, held, crashes, failures>> /\ posted' = posted \cup {c}
      /\ pc' = [pc EXCEPT ![c] = "done"] /\ pc[c] = "marking" /\ pc \in [Calls -> Steps]
  BY DEF Mark, sweepVars, TypeInv, TypeOK
<1>2. CardOf(d) /\ Holds(d)' = Holds(d) /\ Waits(d)' = Waits(d) /\ Losses' = Losses /\ OneRow
  BY <1>1 DEF CardInv, Holds, Waits, Losses
<1>3. CASE d = c
  <2>1. Posting(d) = 0 /\ Posting(d)' = 0 /\ d \in posted'
    BY <1>1, <1>3 DEF Posting
  <2> QED
    BY <1>1, <1>2, <2>1, CardMarked
<1>4. CASE d # c
  <2>1. Marking(d)' = Marking(d) /\ Posting(d)' = Posting(d)
    BY <1>1, <1>4 DEF Marking, Posting
  <2>2. /\ cards[d] \in Nat /\ Losses \in Nat /\ Marking(d) \in {0, 1} /\ Posting(d) \in {0, 1}
        /\ Cardinality(Holds(d)) \in Nat /\ Cardinality(Waits(d)) \in Nat
    BY CardNumbers DEF Numbers
  <2> QED
    BY <1>1, <1>2, <1>4, <2>1, <2>2, CardSame
<1> QED
  BY <1>3, <1>4

\* A sweep reads the rows that are not marked.
LEMMA ReadCards ==
  ASSUME TypeInv, TypeInv', CardInv, NEW s \in Sweeps, SweepRead(s)
  PROVE  \A d \in Calls : CardOf(d)'
<1> SUFFICES ASSUME NEW d \in Calls PROVE CardOf(d)'
  OBVIOUS
<1>1. /\ UNCHANGED <<pc, posted, cards, held, crashes, failures>>
      /\ todo' = [todo EXCEPT ![s] = Unposted] /\ todo \in [Sweeps -> SUBSET Calls]
  BY DEF SweepRead, callVars, feedVars, TypeInv, TypeOK
<1>2. CardOf(d) /\ Holds(d)' = Holds(d) /\ Losses' = Losses
      /\ Marking(d)' = Marking(d) /\ Posting(d)' = Posting(d)
  BY <1>1 DEF CardInv, Holds, Losses, Marking, Posting
<1>3. d \in posted => Waits(d)' \subseteq Waits(d)
  BY <1>1 DEF Waits, Unposted
<1>4. /\ cards[d] \in Nat /\ Losses \in Nat /\ Marking(d) \in {0, 1} /\ Posting(d) \in {0, 1}
      /\ Cardinality(Holds(d)) \in Nat /\ Cardinality(Waits(d)) \in Nat
      /\ IsFiniteSet(Waits(d))
  BY CardNumbers DEF Numbers
<1>5. Cardinality(Waits(d)') \in Nat
  BY CardNumbersNext DEF Numbers
<1>6. d \in posted => Cardinality(Waits(d)') <= Cardinality(Waits(d))
  BY <1>3, <1>4, FS_Subset
<1> QED
  BY <1>1, <1>2, <1>4, <1>5, <1>6, CardSame


\* A card taken off a sweep's list, and a sweep about to mark.
LEMMA OneLess ==
  ASSUME NEW S, IsFiniteSet(S), NEW x \in S
  PROVE  Cardinality(S \ {x}) = Cardinality(S) - 1
BY FS_RemoveElement

LEMMA SweepPostCards ==
  ASSUME TypeInv, TypeInv', CardInv, NEW s \in Sweeps, SweepPost(s)
  PROVE  \A d \in Calls : CardOf(d)'
<1> PICK c \in todo[s] :
      /\ todo' = [todo EXCEPT ![s] = @ \ {c}]
      /\ \/ PostedCard(c) /\ held' = [held EXCEPT ![s] = c]
         \/ FailedCard(c) /\ UNCHANGED held
  BY DEF SweepPost
<1> SUFFICES ASSUME NEW d \in Calls PROVE CardOf(d)'
  OBVIOUS
<1>1. /\ UNCHANGED <<pc, posted, crashes>> /\ held[s] = None /\ None \notin Calls
      /\ todo \in [Sweeps -> SUBSET Calls] /\ held \in [Sweeps -> Calls \cup {None}]
      /\ cards \in [Calls -> Nat] /\ c \in Calls
  BY ConstantsAssumption DEF SweepPost, callVars, TypeInv, TypeOK
<1>2. CardOf(d) /\ Marking(d)' = Marking(d) /\ Posting(d)' = Posting(d)
  BY <1>1 DEF CardInv, Marking, Posting
<1>3. /\ cards[d] \in Nat /\ Losses \in Nat /\ failures \in Nat /\ crashes \in Nat
      /\ Marking(d) \in {0, 1} /\ Posting(d) \in {0, 1}
      /\ Cardinality(Holds(d)) \in Nat /\ Cardinality(Waits(d)) \in Nat
      /\ IsFiniteSet(Holds(d)) /\ IsFiniteSet(Waits(d))
  BY CardNumbers DEF Numbers
<1>4. CASE d # c
  <2>1. cards'[d] = cards[d]
    BY <1>1, <1>4 DEF PostedCard, FailedCard
  <2>2. Losses' = Losses \/ Losses' = Losses + 1
    BY <1>1, <1>3 DEF PostedCard, FailedCard, Losses
  <2>3. \A q \in Sweeps : d \in todo'[q] <=> d \in todo[q]
    BY <1>1, <1>4
  <2>4. \A q \in Sweeps : held'[q] = d <=> held[q] = d
    <3>1. held' = held \/ held' = [held EXCEPT ![s] = c]
      OBVIOUS
    <3> QED
      BY <1>1, <1>4, <3>1
  <2>5. Holds(d)' = Holds(d) /\ Waits(d)' = Waits(d)
    BY <2>3, <2>4 DEF Holds, Waits
  <2> QED
    BY <1>1, <1>2, <1>3, <2>1, <2>2, <2>5, CardSame
<1>5. CASE d = c
  <2>1. s \in Waits(d) /\ s \notin Holds(d)
    BY <1>1, <1>5 DEF Waits, Holds
  <2>2. Waits(d)' = Waits(d) \ {s}
    BY <1>1, <1>5 DEF Waits
  <2>3. Cardinality(Waits(d)') = Cardinality(Waits(d)) - 1
    BY <1>3, <2>1, <2>2, OneLess
  <2>4. CASE PostedCard(c) /\ held' = [held EXCEPT ![s] = c]
    <3>1. cards'[d] = cards[d] + 1 /\ Losses' = Losses
      BY <1>1, <1>5, <2>4 DEF PostedCard, Losses
    <3>2. Holds(d)' = Holds(d) \cup {s}
      BY <1>1, <1>5, <2>4 DEF Holds
    <3>3. Cardinality(Holds(d)') = Cardinality(Holds(d)) + 1
      BY <1>3, <2>1, <3>2, FS_AddElement
    <3> QED
      BY <1>1, <1>2, <1>3, <2>3, <3>1, <3>3, CardSame
  <2>5. CASE FailedCard(c) /\ UNCHANGED held
    <3>1. Losses' = Losses + 1
      BY <1>1, <1>3, <2>5 DEF FailedCard, Losses
    <3>2. cards'[d] \in {cards[d], cards[d] + 1}
      BY <1>1, <1>5, <2>5 DEF FailedCard
    <3>3. Holds(d)' = Holds(d)
      BY <2>5 DEF Holds
    <3> QED
      BY <1>1, <1>2, <1>3, <2>3, <3>1, <3>2, <3>3, CardSame
  <2> QED
    BY <2>4, <2>5
<1> QED
  BY <1>4, <1>5

LEMMA SweepMarkCards ==
  ASSUME TypeInv, TypeInv', CardInv, NEW s \in Sweeps, SweepMark(s)
  PROVE  \A d \in Calls : CardOf(d)'
<1> SUFFICES ASSUME NEW d \in Calls PROVE CardOf(d)'
  OBVIOUS
<1>1. /\ UNCHANGED <<pc, cards, todo, crashes, failures>>
      /\ held[s] # None /\ posted' = posted \cup {held[s]}
      /\ held' = [held EXCEPT ![s] = None]
      /\ held \in [Sweeps -> Calls \cup {None}] /\ None \notin Calls
  BY ConstantsAssumption DEF SweepMark, callVars, TypeInv, TypeOK
<1>2. /\ CardOf(d) /\ Waits(d)' = Waits(d) /\ Losses' = Losses /\ OneRow
      /\ Marking(d)' = Marking(d) /\ Posting(d)' = Posting(d)
  BY <1>1 DEF CardInv, Waits, Losses, Marking, Posting
<1>3. /\ cards[d] \in Nat /\ Losses \in Nat /\ Marking(d) \in {0, 1} /\ Posting(d) \in {0, 1}
      /\ Cardinality(Holds(d)) \in Nat /\ Cardinality(Waits(d)) \in Nat
  BY CardNumbers DEF Numbers
<1>4. CASE d = held[s]
  <2>1. d \in posted' /\ Posting(d)' <= Posting(d)
    BY <1>1, <1>2, <1>3, <1>4
  <2> QED
    BY <1>1, <1>2, <2>1, CardMarked
<1>5. CASE d # held[s]
  <2>1. \A q \in Sweeps : held'[q] = d <=> held[q] = d
    BY <1>1, <1>5
  <2>2. Holds(d)' = Holds(d)
    BY <2>1 DEF Holds
  <2>3. d \in posted' <=> d \in posted
    BY <1>1, <1>5
  <2> QED
    BY <1>1, <1>2, <1>3, <2>2, <2>3, CardSame
<1> QED
  BY <1>4, <1>5

\* A lost sweep leaves at most one card without anybody to mark it.
LEMMA SweepCrashCards ==
  ASSUME TypeInv, TypeInv', CardInv, NEW s \in Sweeps, SweepCrash(s)
  PROVE  \A d \in Calls : CardOf(d)'
<1> SUFFICES ASSUME NEW d \in Calls PROVE CardOf(d)'
  OBVIOUS
<1>1. /\ UNCHANGED <<pc, posted, cards, failures>> /\ crashes' = crashes + 1
      /\ todo' = [todo EXCEPT ![s] = {}] /\ held' = [held EXCEPT ![s] = None]
      /\ todo \in [Sweeps -> SUBSET Calls]
      /\ held \in [Sweeps -> Calls \cup {None}] /\ None \notin Calls
  BY ConstantsAssumption DEF SweepCrash, callVars, feedVars, TypeInv, TypeOK
<1>2. CardOf(d) /\ Marking(d)' = Marking(d) /\ Posting(d)' = Posting(d)
  BY <1>1 DEF CardInv, Marking, Posting
<1>3. /\ cards[d] \in Nat /\ Losses \in Nat /\ failures \in Nat /\ crashes \in Nat
      /\ Marking(d) \in {0, 1} /\ Posting(d) \in {0, 1}
      /\ Cardinality(Holds(d)) \in Nat /\ Cardinality(Waits(d)) \in Nat
      /\ IsFiniteSet(Holds(d)) /\ IsFiniteSet(Waits(d))
  BY CardNumbers DEF Numbers
<1>4. Losses' = Losses + 1
  BY <1>1, <1>3 DEF Losses
<1>5. Cardinality(Waits(d)') \in Nat /\ Cardinality(Holds(d)') \in Nat
  BY CardNumbersNext DEF Numbers
<1>6. Waits(d)' \in SUBSET Waits(d)
  BY <1>1 DEF Waits
<1>7. Cardinality(Waits(d)') <= Cardinality(Waits(d))
  BY <1>3, <1>6, FS_Subset
<1>8. Holds(d)' = Holds(d) \ {s}
  BY <1>1 DEF Holds
<1>9. Cardinality(Holds(d)) <= Cardinality(Holds(d)') + 1
  <2>1. CASE s \in Holds(d)
    <3>1. Cardinality(Holds(d)') = Cardinality(Holds(d)) - 1
      BY <1>3, <1>8, <2>1, OneLess
    <3> QED
      BY <1>3, <3>1
  <2>2. CASE s \notin Holds(d)
    <3>1. Holds(d)' = Holds(d)
      BY <1>8, <2>2
    <3> QED
      BY <1>3, <3>1
  <2> QED
    BY <2>1, <2>2
<1> QED
  BY <1>1, <1>2, <1>3, <1>4, <1>5, <1>7, <1>9, CardSame

LEMMA ServerCrashCards ==
  ASSUME TypeInv, TypeInv', CardInv, ServerCrash
  PROVE  \A d \in Calls : CardOf(d)'
<1> SUFFICES ASSUME NEW d \in Calls PROVE CardOf(d)'
  OBVIOUS
<1>1. /\ UNCHANGED <<posted, cards, todo, held, failures>> /\ crashes' = crashes + 1
      /\ pc' = [x \in Calls |-> IF pc[x] \in InFlight THEN "lost" ELSE pc[x]]
  BY DEF ServerCrash, feedVars, sweepVars
<1>2. CardOf(d) /\ Holds(d)' = Holds(d) /\ Waits(d)' = Waits(d)
  BY <1>1 DEF CardInv, Holds, Waits
<1>3. /\ cards[d] \in Nat /\ Losses \in Nat /\ failures \in Nat /\ crashes \in Nat
      /\ Marking(d) \in {0, 1} /\ Posting(d) \in {0, 1}
      /\ Cardinality(Holds(d)) \in Nat /\ Cardinality(Waits(d)) \in Nat
  BY CardNumbers DEF Numbers
<1>4. Losses' = Losses + 1
  BY <1>1, <1>3 DEF Losses
<1>5. Marking(d)' = 0 /\ Posting(d)' = 0
  BY <1>1 DEF Marking, Posting, InFlight
<1> QED
  BY <1>1, <1>2, <1>3, <1>4, <1>5, CardSame

\* Mutate and Record announce nothing; the row a call is about to announce is
\* the one it has just inserted.
LEMMA QuietCards ==
  ASSUME TypeInv, TypeInv', FeedInv, CardInv, NEW c \in Calls, Mutate(c) \/ Record(c)
  PROVE  \A d \in Calls : CardOf(d)'
<1>1. pc \in [Calls -> Steps]
  BY DEF TypeInv, TypeOK
<1>2. UNCHANGED <<posted, cards, todo, held, failures, crashes>>
  BY DEF Mutate, Record, feedVars, sweepVars
<1>3. \A d \in Calls \ {c} : pc'[d] = pc[d]
  BY <1>1 DEF Mutate, Record
<1>4. pc[c] \in {"idle", "refused", "applied"}
  BY DEF Mutate, Record
<1>5. c \notin posted
  <2>1. events[c] = None
    BY <1>4 DEF CardInv, Rowless
  <2> QED
    BY <2>1 DEF FeedInv, AnnouncedIsRecorded
<1> QED
  BY <1>2, <1>3, <1>4, <1>5, CallCards

LEMMA OneRowNext == TypeInv /\ OneRow /\ [Next]_vars => OneRow'
<1> SUFFICES ASSUME TypeInv, OneRow, [Next]_vars PROVE OneRow'
  OBVIOUS
<1>t. /\ todo \in [Sweeps -> SUBSET Calls] /\ held \in [Sweeps -> Calls \cup {None}]
      /\ None \notin Calls
  BY ConstantsAssumption DEF TypeInv, TypeOK
<1>1. CASE UNCHANGED <<todo, held>>
  BY <1>1 DEF OneRow
<1>2. ASSUME NEW s \in Sweeps, SweepRead(s) PROVE OneRow'
  <2>1. todo' = [todo EXCEPT ![s] = Unposted] /\ UNCHANGED held /\ held[s] = None
    BY <1>2 DEF SweepRead
  <2>2. None \notin Unposted
    BY <1>t DEF Unposted
  <2> QED
    BY <1>t, <2>1, <2>2 DEF OneRow
<1>3. ASSUME NEW s \in Sweeps, SweepPost(s) PROVE OneRow'
  <2> PICK c \in todo[s] :
        /\ todo' = [todo EXCEPT ![s] = @ \ {c}]
        /\ held' = [held EXCEPT ![s] = c] \/ UNCHANGED held
    BY <1>3 DEF SweepPost
  <2>1. \A q \in Sweeps \ {s} : todo'[q] = todo[q] /\ held'[q] = held[q]
    BY <1>t
  <2>2. todo'[s] = todo[s] \ {c} /\ held'[s] \in {c, held[s]}
    BY <1>t
  <2> QED
    BY <2>1, <2>2 DEF OneRow
<1>4. ASSUME NEW s \in Sweeps, SweepMark(s) PROVE OneRow'
  <2>1. todo' = todo /\ held' = [held EXCEPT ![s] = None]
    BY <1>4 DEF SweepMark
  <2> QED
    BY <1>t, <2>1 DEF OneRow
<1>5. ASSUME NEW s \in Sweeps, SweepCrash(s) PROVE OneRow'
  <2>1. todo' = [todo EXCEPT ![s] = {}] /\ held' = [held EXCEPT ![s] = None]
    BY <1>5 DEF SweepCrash
  <2> QED
    BY <1>t, <2>1 DEF OneRow
<1>6. CASE \E c \in Calls : Mutate(c) \/ Record(c) \/ Post(c) \/ Mark(c) \/ Age(c)
  <2>1. UNCHANGED sweepVars
    BY <1>6 DEF Mutate, Record, Post, Mark, Age
  <2> QED
    BY <1>1, <2>1 DEF sweepVars
<1>7. CASE ServerCrash
  BY <1>1, <1>7 DEF ServerCrash, sweepVars
<1>8. CASE UNCHANGED vars
  BY <1>1, <1>8 DEF vars, sweepVars
<1> QED
  BY <1>2, <1>3, <1>4, <1>5, <1>6, <1>7, <1>8 DEF Next

LEMMA RowlessNext == TypeInv /\ Rowless /\ [Next]_vars => Rowless'
<1> SUFFICES ASSUME TypeInv, Rowless, [Next]_vars PROVE Rowless'
  OBVIOUS
<1>t. pc \in [Calls -> Steps] /\ events \in [Calls -> Rows \cup {None}]
  BY DEF TypeInv, TypeOK
<1>1. ASSUME NEW c \in Calls, Mutate(c) PROVE Rowless'
  <2>1. events' = events /\ pc[c] = "idle" /\ \A d \in Calls \ {c} : pc'[d] = pc[d]
    BY <1>1, <1>t DEF Mutate, feedVars
  <2> QED
    BY <2>1 DEF Rowless
<1>2. ASSUME NEW c \in Calls, Record(c) PROVE Rowless'
  <2>1. pc'[c] \in {"failed", "posting"}
    BY <1>2, <1>t DEF Record
  <2>2. \A d \in Calls \ {c} : pc'[d] = pc[d] /\ events'[d] = events[d]
    BY <1>2, <1>t DEF Record
  <2> QED
    BY <2>1, <2>2 DEF Rowless
<1>3. CASE /\ events' = events
           /\ \A d \in Calls : pc'[d] \in {"idle", "refused", "applied"} => pc'[d] = pc[d]
  BY <1>3 DEF Rowless
<1>4. ASSUME NEW c \in Calls, Post(c) \/ Mark(c) PROVE Rowless'
  <2>1. events' = events /\ pc'[c] \in {"failed", "marking", "done"}
    BY <1>4, <1>t DEF Post, Mark
  <2>2. \A d \in Calls \ {c} : pc'[d] = pc[d]
    BY <1>4, <1>t DEF Post, Mark
  <2> QED
    BY <1>3, <2>1, <2>2
<1>5. CASE \E c \in Calls : Age(c)
  BY <1>3, <1>5 DEF Age, callVars
<1>6. CASE \E s \in Sweeps : SweepRead(s) \/ SweepPost(s) \/ SweepMark(s) \/ SweepCrash(s)
  BY <1>3, <1>6 DEF SweepRead, SweepPost, SweepMark, SweepCrash, callVars, feedVars
<1>7. CASE ServerCrash
  <2>1. events' = events
    BY <1>7 DEF ServerCrash, feedVars
  <2>2. \A d \in Calls : pc'[d] = IF pc[d] \in InFlight THEN "lost" ELSE pc[d]
    BY <1>7 DEF ServerCrash
  <2> QED
    BY <1>3, <2>1, <2>2
<1>8. CASE UNCHANGED vars
  BY <1>3, <1>8 DEF vars, callVars, feedVars
<1> QED
  BY <1>1, <1>2, <1>4, <1>5, <1>6, <1>7, <1>8 DEF Next

LEMMA CardNext ==
  TypeInv /\ TypeInv' /\ FeedInv /\ CardInv /\ [Next]_vars => CardInv'
<1> SUFFICES ASSUME TypeInv, TypeInv', FeedInv, CardInv, [Next]_vars PROVE CardInv'
  OBVIOUS
<1>1. OneRow' /\ Rowless'
  BY OneRowNext, RowlessNext DEF CardInv
<1>2. CASE UNCHANGED <<pc, posted, cards, todo, held, failures, crashes>>
  <2> SUFFICES ASSUME NEW d \in Calls PROVE CardOf(d)'
    BY <1>1 DEF CardInv
  <2>1. /\ CardOf(d) /\ Holds(d)' = Holds(d) /\ Waits(d)' = Waits(d) /\ Losses' = Losses
        /\ Marking(d)' = Marking(d) /\ Posting(d)' = Posting(d)
    BY <1>2 DEF CardInv, Holds, Waits, Losses, Marking, Posting
  <2> QED
    BY <1>2, <2>1 DEF CardOf
<1>3. CASE \E c \in Calls : Mutate(c) \/ Record(c)
  BY <1>1, <1>3, QuietCards DEF CardInv
<1>4. CASE \E c \in Calls : Post(c)
  BY <1>1, <1>4, PostCards DEF CardInv
<1>5. CASE \E c \in Calls : Mark(c)
  BY <1>1, <1>5, MarkCards DEF CardInv
<1>6. CASE \E c \in Calls : Age(c)
  BY <1>2, <1>6 DEF Age, callVars, sweepVars
<1>7. CASE \E s \in Sweeps : SweepRead(s)
  BY <1>1, <1>7, ReadCards DEF CardInv
<1>8. CASE \E s \in Sweeps : SweepPost(s)
  BY <1>1, <1>8, SweepPostCards DEF CardInv
<1>9. CASE \E s \in Sweeps : SweepMark(s)
  BY <1>1, <1>9, SweepMarkCards DEF CardInv
<1>10. CASE \E s \in Sweeps : SweepCrash(s)
  BY <1>1, <1>10, SweepCrashCards DEF CardInv
<1>11. CASE ServerCrash
  BY <1>1, <1>11, ServerCrashCards DEF CardInv
<1>12. CASE UNCHANGED vars
  BY <1>2, <1>12 DEF vars, callVars, feedVars, sweepVars
<1> QED
  BY <1>3, <1>4, <1>5, <1>6, <1>7, <1>8, <1>9, <1>10, <1>11, <1>12 DEF Next

LEMMA CardInit == Init /\ TypeInv => CardInv
<1> SUFFICES ASSUME Init, TypeInv PROVE CardInv
  OBVIOUS
<1>1. OneRow /\ Rowless
  BY DEF Init, OneRow, Rowless
<1>2. ASSUME NEW d \in Calls PROVE CardOf(d)
  <2>1. cards[d] = 0 /\ d \notin posted
    BY DEF Init
  <2>2. /\ Losses \in Nat /\ Marking(d) \in {0, 1} /\ Cardinality(Holds(d)) \in Nat
    BY CardNumbers DEF Numbers
  <2> QED
    BY <2>1, <2>2 DEF CardOf
<1> QED
  BY <1>1, <1>2 DEF CardInv

LEMMA CardsFollow == TypeInv /\ CardInv => CardsBounded
<1> SUFFICES ASSUME TypeInv, CardInv, NEW c \in Calls
             PROVE  cards[c] <= 1 + Cardinality(Sweeps) + failures + crashes
  BY DEF CardsBounded
<1>1. Numbers(c) /\ CardOf(c)
  BY CardNumbers DEF CardInv
<1>2. cards[c] <= 1 + Cardinality(Sweeps) + Losses
  BY <1>1 DEF Numbers, CardOf
<1> QED
  BY <1>1, <1>2 DEF Numbers, Losses

\* No change is shown more often than once, plus once for every sweep that
\* overlaps, for every card whose answer got lost and for every process lost
\* before its UPDATE.
THEOREM CardsCorrect == Spec => []CardsBounded
<1>1. Init => FeedInv
  BY ConstantsAssumption DEF Init, FeedInv, AnnouncedIsRecorded
<1> QED
  BY <1>1, TypeInvariant, FeedNext, CardInit, CardNext, CardsFollow, PTL DEF Spec


-----------------------------------------------------------------------------
(***************************************************************************)
(* The audit log.  What a reader of the rows computes is a fold over the   *)
(* history.  The library defines a fold by recursion on sets of indices;   *)
(* that such a recursion has a solution, and that the solution follows the *)
(* history from its first element to its last, is shown by the least index *)
(* at which it would not.                                                  *)
(***************************************************************************)
Read(f, i) == Redo(f, Change(applied[i]))

\* g is the fold on the sets of indices up to n.
Solves(g, n) ==
  /\ DOMAIN g = SUBSET (1..n)
  /\ g[{}] = InitialTiers
  /\ \A S \in SUBSET (1..n) : S # {} => g[S] = Read(g[S \ {Max(S)}], Max(S))

LEMMA MaxUpTo ==
  ASSUME NEW n \in Nat, NEW S, S \subseteq 1..n, n \in S
  PROVE  Max(S) = n
<1>1. \A x \in S : x \in Int /\ n >= x
  OBVIOUS
<1>2. \E x \in S : \A y \in S : x >= y
  BY <1>1
<1>3. Max(S) \in S /\ \A y \in S : Max(S) >= y
  BY <1>2 DEF Max
<1>4. Max(S) \in Int /\ n >= Max(S) /\ Max(S) >= n
  BY <1>1, <1>3
<1> QED BY <1>4

LEMMA Extended ==
  ASSUME NEW n \in Nat, NEW g, Solves(g, n)
  PROVE  \E h : Solves(h, n + 1)
<1> DEFINE h == [S \in SUBSET (1..(n + 1)) |->
                   IF n + 1 \in S THEN Read(g[S \ {n + 1}], n + 1) ELSE g[S]]
<1>1. \A S \in SUBSET (1..(n + 1)) : /\ S \ {n + 1} \in SUBSET (1..n)
                                     /\ n + 1 \notin S => S \in SUBSET (1..n)
  OBVIOUS
<1>2. h[{}] = InitialTiers
  BY DEF Solves
<1>3. ASSUME NEW S \in SUBSET (1..(n + 1)), S # {}
      PROVE  h[S] = Read(h[S \ {Max(S)}], Max(S))
  <2>1. S \ {Max(S)} \in SUBSET (1..(n + 1))
    OBVIOUS
  <2>2. CASE n + 1 \in S
    <3>0. n + 1 \in Nat /\ S \subseteq 1..(n + 1)
      OBVIOUS
    <3>1. Max(S) = n + 1
      BY <2>2, <3>0, MaxUpTo, Zenon
    <3>2. h[S \ {n + 1}] = g[S \ {n + 1}]
      BY <1>1
    <3> QED BY <2>2, <3>1, <3>2
  <2>3. CASE n + 1 \notin S
    <3>1. S \in SUBSET (1..n)
      BY <1>1, <2>3
    <3>2. h[S] = g[S] /\ h[S \ {Max(S)}] = g[S \ {Max(S)}]
      BY <2>1, <2>3
    <3>3. g[S] = Read(g[S \ {Max(S)}], Max(S))
      BY <1>3, <3>1 DEF Solves
    <3> QED BY <3>2, <3>3
  <2> QED BY <2>2, <2>3
<1> HIDE DEF h
<1>4. DOMAIN h = SUBSET (1..(n + 1))
  BY DEF h
<1>5. Solves(h, n + 1)
  BY <1>2, <1>3, <1>4 DEF Solves
<1> QED BY <1>5

LEMMA Solvable == \A n \in Nat : \E g : Solves(g, n)
<1> DEFINE Bad == {n \in Nat : ~\E g : Solves(g, n)}
<1> SUFFICES ASSUME Bad # {} PROVE FALSE
  OBVIOUS
<1> DEFINE m == Min(Bad)
<1>1. m \in Bad /\ m \in Nat /\ \A k \in Bad : m <= k
  BY LeastExists
<1>3. m # 0
  <2>1. \A S \in SUBSET (1..0) : S = {}
    OBVIOUS
  <2>2. Solves([S \in SUBSET (1..0) |-> InitialTiers], 0)
    BY <2>1 DEF Solves
  <2> QED BY <1>1, <2>2
<1>4. m - 1 \in Nat /\ m - 1 \notin Bad
  BY <1>1, <1>3
<1>5. PICK g : Solves(g, m - 1)
  BY <1>4
<1>6. \E h : Solves(h, m - 1 + 1)
  BY <1>4, <1>5, Extended
<1>7. m - 1 + 1 = m /\ ~\E h : Solves(h, m)
  BY <1>1
<1> QED BY <1>6, <1>7, Zenon

Replay == FoldLeft(LAMBDA f, c : Redo(f, Change(c)), InitialTiers, applied)
Recursion(iter) ==
  [S \in SUBSET DOMAIN applied |->
     IF S = {} THEN InitialTiers ELSE Read(iter[S \ {Max(S)}], Max(S))]

LEMMA ReplaySolves ==
  ASSUME TypeInv
  PROVE  \E g : Solves(g, Len(applied)) /\ Replay = g[1..Len(applied)]
<1> DEFINE it == CHOOSE iter : iter = Recursion(iter)
<1>1. Replay = it[DOMAIN applied]
  BY DEF Replay, FoldLeft, MapThenFoldSet, Recursion, Read
<1>2. DOMAIN applied = 1..Len(applied) /\ Len(applied) \in Nat
  BY LenProperties DEF TypeInv, TypeOK
<1>3. PICK g : Solves(g, Len(applied))
  BY <1>2, Solvable
<1>4. \E iter : iter = Recursion(iter)
  <2> DEFINE k == [S \in SUBSET DOMAIN applied |-> g[S]]
  <2>1. k = Recursion(k)
    BY <1>2, <1>3 DEF Solves, Recursion
  <2> QED BY <2>1
<1>5. it = Recursion(it)
  BY <1>4
<1> HIDE DEF it
<1>6. Solves(it, Len(applied))
  BY <1>2, <1>5 DEF Solves, Recursion
<1> QED BY <1>1, <1>2, <1>6

\* A run of files from the operator's to the present one, each read from the
\* one before and a row of the history.
Leads(F) ==
  /\ F[0] = InitialTiers /\ F[Len(applied)] = tiers
  /\ \A i \in 1..Len(applied) : F[i] = Read(F[i - 1], i)

LEMMA LeadsReplays ==
  ASSUME TypeInv, NEW F, Leads(F)
  PROVE  Replay = tiers
<1> DEFINE N == Len(applied)
<1>0. N \in Nat
  BY LenProperties DEF TypeInv, TypeOK
<1>1. PICK g : Solves(g, N) /\ Replay = g[1..N]
  BY ReplaySolves
<1> DEFINE Bad == {n \in 0..N : g[1..n] # F[n]}
<1>2. CASE Bad = {}
  BY <1>0, <1>1, <1>2 DEF Leads
<1>3. CASE Bad # {}
  <2> DEFINE m == Min(Bad)
  <2>0. Bad \subseteq Nat
    BY <1>0
  <2>1. m \in Bad /\ \A k \in Bad : m <= k
    BY <1>3, <2>0, LeastExists, Zenon
  <2> HIDE DEF m
  <2>2. m \in 0..N
    BY <2>1
  <2>3. m # 0
    <3>1. 1..0 = {}
      OBVIOUS
    <3> QED BY <1>1, <2>1, <3>1 DEF Leads, Solves
  <2>4. m \in 1..N /\ m \in Nat /\ m - 1 \in 0..N /\ m - 1 \notin Bad
    BY <1>0, <2>1, <2>2, <2>3
  <2>5. g[1..(m - 1)] = F[m - 1]
    BY <2>4
  <2>6. Max(1..m) = m
    BY <2>4, MaxUpTo
  <2>7. 1..m \in SUBSET (1..N) /\ 1..m # {} /\ (1..m) \ {m} = 1..(m - 1)
    BY <1>0, <2>4
  <2>8. g[1..m] = Read(g[(1..m) \ {Max(1..m)}], Max(1..m))
    BY <1>1, <2>7 DEF Solves
  <2>9. g[1..m] = Read(F[m - 1], m)
    BY <2>5, <2>6, <2>7, <2>8
  <2>10. g[1..m] = F[m]
    BY <2>4, <2>9 DEF Leads
  <2> QED BY <2>1, <2>10
<1> QED BY <1>2, <1>3


\* The row of a call that was not refused.
RowOf(c) == [type |-> req[c].type, symbol |-> req[c].symbol,
             from |-> from[c], to |-> req[c].to]

\* The row a reader applies does to the file what apply_mutation did to it.
LEMMA RedoIsApply ==
  ASSUME NEW f, NEW r \in Requests
  PROVE  apply_mutation(f, r) =
           Redo(f, [type |-> r.type, symbol |-> r.symbol,
                    from |-> tier_of(f, r.symbol), to |-> r.to])
<1> DEFINE row == [type |-> r.type, symbol |-> r.symbol,
                   from |-> tier_of(f, r.symbol), to |-> r.to]
<1> SUFFICES apply_mutation(f, r) = Redo(f, row)
  OBVIOUS
<1>1. /\ row.type = r.type /\ row.symbol = r.symbol
      /\ row.from = tier_of(f, r.symbol) /\ row.to = r.to
  OBVIOUS
<1>2. r.type \in EventTypes
  BY ConstantsAssumption
<1> HIDE DEF row
<1>3. CASE r.type = "add"
  BY <1>1, <1>3 DEF Redo, apply_mutation
<1>4. CASE r.type = "remove"
  BY <1>1, <1>4 DEF Redo, apply_mutation, RemoveFromAll
<1>5. CASE r.type = "exclude"
  BY <1>1, <1>5 DEF Redo, apply_mutation, RemoveFromAll
<1>6. CASE r.type = "hard_limit_blocked"
  BY <1>1, <1>6 DEF Redo, apply_mutation
<1>7. CASE r.type \in {"promote", "demote", "unexclude"}
  <2>1. apply_mutation(f, r) = AddTo(RemoveFromAll(f, r.symbol), r.to, r.symbol)
    BY <1>7 DEF apply_mutation
  <2>2. row.type \notin {"add", "remove", "exclude", "hard_limit_blocked"}
    BY <1>1, <1>7
  <2>3. Redo(f, row) = AddTo(RemoveFromAll(f, r.symbol), r.to, r.symbol)
    BY <1>1, <2>2 DEF Redo, RemoveFromAll
  <2> QED BY <2>1, <2>3
<1> QED BY <1>2, <1>3, <1>4, <1>5, <1>6, <1>7 DEF EventTypes

\* Rows are written once, by calls that have begun, from what the call read.
Logged(c) ==
  /\ pc[c] \notin {"idle", "refused"}
  /\ events[c] \in {None, RowOf(c)}
  /\ events[c] = None => pc[c] \in {"applied", "failed", "lost"}

AuditInv ==
  /\ \A c \in Calls : pc[c] = "idle" => events[c] = None
  /\ \A c \in Range(applied) : Logged(c)
  /\ \E F : Leads(F)

LEMMA ChangeIsRow ==
  ASSUME NEW c, Logged(c)
  PROVE  Change(c) = RowOf(c)
<1>1. Row(c) = RowOf(c)
  BY DEF Logged, Row, RowOf
<1> QED BY <1>1 DEF Logged, Change


LEMMA InHistory ==
  ASSUME TypeInv
  PROVE  /\ Len(applied) \in Nat /\ DOMAIN applied = 1..Len(applied)
         /\ Range(applied) \subseteq Calls
         /\ \A i \in 1..Len(applied) : applied[i] \in Range(applied)
<1>1. applied \in Seq(Calls)
  BY DEF TypeInv, TypeOK
<1>2. /\ Len(applied) \in Nat /\ DOMAIN applied = 1..Len(applied)
  BY <1>1, LenProperties
<1> QED BY <1>2 DEF TypeInv, Range

\* A step that adds nothing to the history leaves the run of files.
LEMMA LeadsKept ==
  ASSUME TypeInv, AuditInv, UNCHANGED <<tiers, applied>>,
         \A c \in Range(applied) : Logged(c)' /\ RowOf(c)' = RowOf(c)
  PROVE  \E F : Leads(F)'
<1>1. PICK F : Leads(F)
  BY DEF AuditInv
<1>2. ASSUME NEW i \in 1..Len(applied) PROVE F[i] = Read(F[i - 1], i)'
  <2> DEFINE c == applied[i]
  <2>1. c \in Range(applied) /\ c' = c
    BY InHistory
  <2>2. Logged(c) /\ Logged(c)' /\ RowOf(c)' = RowOf(c)
    BY <2>1 DEF AuditInv
  <2>3. Change(c) = RowOf(c)
    BY <2>2, ChangeIsRow
  <2>4. Change(c)' = RowOf(c)'
    BY <2>2 DEF Change, Logged, Row, RowOf
  <2>5. F[i] = Redo(F[i - 1], Change(c))
    BY <1>1 DEF Leads, Read
  <2> QED BY <2>1, <2>2, <2>3, <2>4, <2>5 DEF Read, Redo, AddTo
<1> QED BY <1>1, <1>2 DEF Leads

\* A mutation adds its own row, and its file.
LEMMA LeadsOn ==
  ASSUME TypeInv, AuditInv, NEW c \in Calls, NEW r \in Requests,
         applied' = Append(applied, c), tiers' = apply_mutation(tiers, r),
         RowOf(c)' = [type |-> r.type, symbol |-> r.symbol,
                      from |-> tier_of(tiers, r.symbol), to |-> r.to],
         Logged(c)',
         \A d \in Range(applied) : Logged(d)' /\ RowOf(d)' = RowOf(d)
  PROVE  \E F : Leads(F)'
<1>1. PICK F : Leads(F)
  BY DEF AuditInv
<1> DEFINE N == Len(applied)
<1>2. /\ N \in Nat /\ applied \in Seq(Calls)
  BY InHistory DEF TypeInv, TypeOK
<1>3. /\ Len(applied') = N + 1 /\ applied'[N + 1] = c
      /\ \A i \in 1..N : applied'[i] = applied[i]
  BY <1>2, AppendProperties
<1>4. PICK G : /\ G[0] = InitialTiers /\ G[N] = tiers /\ G[N + 1] = tiers'
               /\ \A i \in 1..N : G[i] = F[i] /\ G[i - 1] = F[i - 1]
  <2> DEFINE H == [i \in 0..(N + 1) |-> IF i = N + 1 THEN tiers' ELSE F[i]]
  <2>1. /\ H[0] = InitialTiers /\ H[N] = tiers /\ H[N + 1] = tiers'
        /\ \A i \in 1..N : H[i] = F[i] /\ H[i - 1] = F[i - 1]
    BY <1>1, <1>2 DEF Leads
  <2> QED BY <2>1
<1>5. ASSUME NEW i \in 1..N PROVE G[i] = Read(G[i - 1], i)'
  <2>1. PICK d \in Range(applied) : applied[i] = d /\ applied'[i] = d
    BY <1>3, InHistory
  <2>2. Logged(d) /\ Logged(d)' /\ RowOf(d)' = RowOf(d)
    BY <2>1 DEF AuditInv
  <2>3. Change(d) = RowOf(d)
    BY <2>2, ChangeIsRow
  <2>4. Change(applied[i])' = RowOf(d)'
    BY <2>1, <2>2 DEF Change, Logged, Row, RowOf
  <2>5. F[i] = Redo(F[i - 1], Change(d))
    BY <1>1, <2>1 DEF Leads, Read
  <2>6. G[i] = Redo(G[i - 1], RowOf(d))
    BY <1>4, <2>3, <2>5
  <2>7. Change(applied[i])' = RowOf(d)
    BY <2>2, <2>4
  <2> QED BY <2>6, <2>7 DEF Read, Redo, AddTo
<1>6. G[N + 1] = Redo(G[N], RowOf(c)')
  BY <1>4, RedoIsApply
<1>7. \A i \in 1..(N + 1) : G[i] = Read(G[i - 1], i)'
  <2> SUFFICES ASSUME NEW i \in 1..(N + 1) PROVE G[i] = Read(G[i - 1], i)'
    OBVIOUS
  <2>1. CASE i \in 1..N
    BY <1>5, <2>1
  <2>2. CASE i = N + 1
    <3>1. applied'[i] = c /\ i - 1 = N
      BY <1>2, <1>3, <2>2
    <3>2. Change(applied[i])' = RowOf(c)'
      BY <3>1 DEF Change, Logged, Row, RowOf
    <3>3. G[i] = Redo(G[i - 1], RowOf(c)')
      BY <1>6, <2>2, <3>1
    <3> QED BY <3>2, <3>3 DEF Read, Redo, AddTo
  <2> QED BY <1>2, <2>1, <2>2
<1>8. Leads(G)'
  BY <1>3, <1>4, <1>7 DEF Leads
<1> QED BY <1>8


LEMMA AuditInit == Init => AuditInv
<1> SUFFICES ASSUME Init PROVE AuditInv
  OBVIOUS
<1>1. Len(applied) = 0 /\ Range(applied) = {} /\ tiers = InitialTiers
  BY DEF Init, Range
<1>2. Leads([i \in {0} |-> InitialTiers])
  BY <1>1 DEF Leads
<1> QED BY <1>1, <1>2 DEF Init, AuditInv

\* A step outside the critical section, from reading policy.yaml to replacing
\* it, writes at most a row.
LEMMA AuditQuiet ==
  ASSUME TypeInv, AuditInv, UNCHANGED <<fileVars, req, from>>,
         \A c \in Calls : pc'[c] = "idle" => events'[c] = None,
         \A c \in Range(applied) : Logged(c)'
  PROVE  AuditInv'
<1>1. \A c \in Range(applied) : RowOf(c)' = RowOf(c)
  BY DEF RowOf
<1>2. applied' = applied /\ tiers' = tiers
  BY DEF fileVars
<1>3. \E F : Leads(F)'
  BY <1>1, <1>2, LeadsKept
<1> QED BY <1>2, <1>3 DEF AuditInv

LEMMA AuditNext == TypeInv /\ TypeInv' /\ AuditInv /\ [Next]_vars => AuditInv'
<1> SUFFICES ASSUME TypeInv, TypeInv', AuditInv, [Next]_vars PROVE AuditInv'
  OBVIOUS
<1>0. /\ pc \in [Calls -> Steps] /\ events \in [Calls -> Rows \cup {None}]
      /\ req \in [Calls -> Requests \cup {None}]
      /\ from \in [Calls -> Tiers \cup {None}] /\ applied \in Seq(Calls)
      /\ Range(applied) \subseteq Calls
      /\ \A c \in Range(applied) : Logged(c)
      /\ \A c \in Calls : pc[c] = "idle" => events[c] = None
  BY InHistory DEF TypeInv, TypeOK, AuditInv
<1>1. ASSUME NEW c \in Calls, Mutate(c) PROVE AuditInv'
  <2> PICK r \in Requests :
        /\ req'  = [req EXCEPT ![c] = r]
        /\ from' = [from EXCEPT ![c] = tier_of(tiers, r.symbol)]
        /\ \/ /\ pc' = [pc EXCEPT ![c] = "refused"] \/ pc' = [pc EXCEPT ![c] = "failed"]
              /\ UNCHANGED fileVars
           \/ /\ tiers' = apply_mutation(tiers, r)
              /\ applied' = Append(applied, c)
              /\ pc' = [pc EXCEPT ![c] = "applied"]
    BY <1>1 DEF Mutate
  <2>1. pc[c] = "idle" /\ events' = events /\ c \notin Range(applied)
    BY <1>0, <1>1 DEF Mutate, feedVars, Logged
  <2>2. \A d \in Range(applied) :
          pc'[d] = pc[d] /\ req'[d] = req[d] /\ from'[d] = from[d]
    BY <1>0, <2>1
  <2>3. \A d \in Range(applied) : Logged(d)' /\ RowOf(d)' = RowOf(d)
    BY <1>0, <2>1, <2>2 DEF Logged, RowOf
  <2>4. \A d \in Calls : pc'[d] = "idle" => events'[d] = None
    BY <1>0, <2>1
  <2>5. CASE UNCHANGED fileVars
    <3>1. applied' = applied /\ tiers' = tiers
      BY <2>5 DEF fileVars
    <3>2. \E F : Leads(F)'
      BY <2>3, <3>1, LeadsKept
    <3> QED BY <2>3, <2>4, <3>1, <3>2 DEF AuditInv
  <2>6. CASE /\ tiers' = apply_mutation(tiers, r)
             /\ applied' = Append(applied, c)
             /\ pc' = [pc EXCEPT ![c] = "applied"]
    <3>1. RowOf(c)' = [type |-> r.type, symbol |-> r.symbol,
                       from |-> tier_of(tiers, r.symbol), to |-> r.to]
      BY <1>0 DEF RowOf
    <3>2. Logged(c)'
      BY <1>0, <2>1, <2>6 DEF Logged
    <3>3. \E F : Leads(F)'
      BY <2>3, <2>6, <3>1, <3>2, LeadsOn
    <3>4. Range(applied') = Range(applied) \cup {c}
      BY <1>0, <2>6, RangeOfAppend
    <3>5. \A d \in Range(applied') : Logged(d)'
      BY <2>3, <3>2, <3>4
    <3> QED BY <2>4, <3>3, <3>5 DEF AuditInv
  <2> QED BY <2>5, <2>6
<1>2. ASSUME NEW c \in Calls, Record(c) PROVE AuditInv'
  <2>1. UNCHANGED <<fileVars, req, from>>
    BY <1>2 DEF Record
  <2>2. Row(c) \in Rows /\ None \notin Rows
    BY <1>2, RowType, ConstantsAssumption DEF Record
  <2>3. \A d \in Calls : pc'[d] = "idle" => events'[d] = None
    BY <1>0, <1>2 DEF Record
  <2>4. ASSUME NEW d \in Range(applied) PROVE Logged(d)'
    <3>1. CASE d # c
      BY <1>0, <1>2, <2>1, <3>1 DEF Record, Logged, RowOf
    <3>2. CASE d = c
      <4>1. pc[c] = "applied" /\ Row(c) = RowOf(c)
        BY <1>0, <1>2, <3>2 DEF Record, Logged, Row, RowOf
      <4>2. RowOf(d)' = RowOf(c)
        BY <2>1, <3>2 DEF RowOf
      <4>3. CASE c \in Orphans
        <5>1. pc'[d] = "failed" /\ events'[d] = events[d]
          BY <1>0, <1>2, <3>2, <4>3 DEF Record
        <5>2. events[d] \in {None, RowOf(c)}
          BY <1>0, <3>2 DEF Logged
        <5> QED BY <4>2, <5>1, <5>2 DEF Logged
      <4>4. CASE c \notin Orphans
        <5>1. pc'[d] = "posting" /\ events'[d] = Row(c)
          BY <1>0, <1>2, <3>2, <4>4 DEF Record
        <5> QED BY <2>2, <4>1, <4>2, <5>1 DEF Logged
      <4> QED BY <4>3, <4>4
    <3> QED BY <3>1, <3>2
  <2> QED BY <2>1, <2>3, <2>4, AuditQuiet
<1>3. ASSUME NEW c \in Calls, Post(c) \/ Mark(c) PROVE AuditInv'
  <2>1. /\ UNCHANGED <<fileVars, req, from, events>>
        /\ pc[c] \in {"posting", "marking"}
        /\ \E to \in {"failed", "marking", "done"} : pc' = [pc EXCEPT ![c] = to]
    BY <1>3 DEF Post, Mark
  <2>2. \A d \in Calls : pc'[d] = "idle" => events'[d] = None
    BY <1>0, <2>1
  <2>3. ASSUME NEW d \in Range(applied) PROVE Logged(d)'
    <3>1. CASE d # c
      BY <1>0, <2>1, <3>1 DEF Logged, RowOf
    <3>2. CASE d = c
      BY <1>0, <2>1, <3>2 DEF Logged, RowOf
    <3> QED BY <3>1, <3>2
  <2> QED BY <2>1, <2>2, <2>3, AuditQuiet
<1>4. CASE ServerCrash
  <2>1. /\ UNCHANGED <<fileVars, req, from, events>>
        /\ pc' = [c \in Calls |-> IF pc[c] \in InFlight THEN "lost" ELSE pc[c]]
    BY <1>4 DEF ServerCrash, feedVars
  <2>2. \A d \in Calls : pc'[d] = "idle" => events'[d] = None
    BY <1>0, <2>1
  <2>3. \A d \in Range(applied) : Logged(d)'
    BY <1>0, <2>1 DEF Logged, RowOf, InFlight
  <2> QED BY <2>1, <2>2, <2>3, AuditQuiet
<1>5. CASE UNCHANGED <<fileVars, callVars, events>>
  <2>1. UNCHANGED <<fileVars, req, from, pc, events>>
    BY <1>5 DEF callVars
  <2>2. \A d \in Range(applied) : Logged(d)'
    BY <1>0, <2>1 DEF Logged, RowOf
  <2> QED BY <1>0, <2>1, <2>2, AuditQuiet
<1>6. CASE \E c \in Calls : Age(c)
  BY <1>5, <1>6 DEF Age
<1>7. CASE \E s \in Sweeps : SweepRead(s) \/ SweepPost(s) \/ SweepMark(s) \/ SweepCrash(s)
  BY <1>5, <1>7 DEF SweepRead, SweepPost, SweepMark, SweepCrash, feedVars
<1>8. CASE UNCHANGED vars
  BY <1>5, <1>8 DEF vars, feedVars
<1> QED BY <1>1, <1>2, <1>3, <1>4, <1>6, <1>7, <1>8 DEF Next

LEMMA AuditFollows == TypeInv /\ AuditInv => AuditReplays
<1> SUFFICES ASSUME TypeInv, AuditInv PROVE AuditReplays
  OBVIOUS
<1>1. Replay = tiers
  BY LeadsReplays DEF AuditInv
<1>2. \A c \in Range(applied) :
        events[c] = None => pc[c] \in {"applied", "failed", "lost"}
  BY DEF AuditInv, Logged
<1> QED BY <1>1, <1>2 DEF AuditReplays, Replay

\* The audit rows, in the order of the file's replacements, lead from the
\* operator's policy.yaml to the present one, and only calls that are under
\* way, lost or refused by the database have none (mcp/tools/universe.py).
THEOREM AuditCorrect == Spec => []AuditReplays
BY TypeInvariant, AuditInit, AuditNext, AuditFollows, PTL DEF Spec
=============================================================================
