------------------------ MODULE OwnerAllocatorProofs ------------------------
(***************************************************************************)
(* Proofs about OwnerAllocator for any number of demands and candidates:   *)
(* what solve answers is sound, justified and preferred.                   *)
(*                                                                         *)
(* solve works on sorted lists and on numbered units; the reference speaks *)
(* of owners and of all that a candidate needs.  The first half shows that *)
(* the two say the same: the units, in order, are the owners, in order;    *)
(* for valid candidates, to fit is to serve, and to be compatible to be    *)
(* apart; so a way of the search is an assignment of the owners.           *)
(***************************************************************************)
EXTENDS OwnerAllocator, FiniteSetTheorems, FunctionTheorems,
        WellFoundedInduction, TLAPS

\* What the assumption says of the template parameters.
LEMMA Sizes ==
  /\ D \in Nat /\ C \in Nat
  /\ \A i \in Uses : i \in Nat /\ 1 <= i /\ i <= D
  /\ \A i \in Nat : 1 <= i /\ i <= D => i \in Uses
  /\ \A c \in Columns : c \in Nat /\ 1 <= c /\ c <= C
BY ProblemAssumption DEF Uses, Columns

\* Every set of numbers has a least one.
LEMMA LeastOf ==
  ASSUME NEW S, S \subseteq Nat, S # {}
  PROVE  \E m \in S : \A n \in S : m <= n
<1> DEFINE Lesser == {p \in Nat \X Nat : p[1] < p[2]}
<1>1. IsWellFoundedOn(Lesser, Nat)
  BY NatLessThanWellFounded DEF OpToRel
<1>2. \A n, m \in Nat : n < m => <<n, m>> \in Lesser
  OBVIOUS
<1> HIDE DEF Lesser
<1>3. PICK m \in S : \A n \in S : <<n, m>> \notin Lesser
  BY <1>1, WFMin
<1>4. ASSUME NEW n \in S PROVE m <= n
  <2>1. n \in Nat /\ m \in Nat
    OBVIOUS
  <2>2. ~(n < m)
    BY <1>2, <1>3, <2>1
  <2> QED BY <2>1, <2>2
<1> QED BY <1>4

\* Selections, spelled out.
SearchWays ==
  {s \in [UnitsUsed -> Columns] :
     /\ \A u \in UnitsUsed : s[u] \in eligible[u]
     /\ \A u, v \in UnitsUsed : u < v => Compatible(candidates[s[u]], candidates[s[v]])}

\* The two are the same.
LEMMA TheWays == Selections = SearchWays
BY DEF Selections, Ways, SearchWays


-----------------------------------------------------------------------------
(* The units.  Count(i) is the number that Group gives demand i. *)

Openings(i) == {h \in 1 .. i : Opens(h)}

Count(i) == Cardinality(Openings(i))

\* What sorting the demands is for.
Ascending ==
  /\ demands \in [Uses -> UseDemand]
  /\ \A i, j \in Uses : j <= i => demands[j].owner <= demands[i].owner

LEMMA SortedAscend ==
  ASSUME TypeOK, Sorted, pc # "sort"
  PROVE  Ascending
<1>1. demands \in [Uses -> UseDemand]
  BY DEF TypeOK
<1>2. ASSUME NEW i \in Uses, NEW j \in Uses, j <= i
      PROVE  demands[j].owner <= demands[i].owner
  <2>1. demands[i].owner \in Nat /\ demands[j].owner \in Nat
    BY <1>1 DEF UseDemand
  <2>2. CASE j = i
    BY <2>1, <2>2
  <2>3. CASE j # i
    <3>1. j \in 1 .. (i - 1)
      BY <1>2, <2>3, Sizes
    <3>2. ~KeyLess(demands[i], demands[j])
      BY <3>1 DEF Sorted
    <3> QED BY <2>1, <3>2 DEF KeyLess
  <2> QED BY <2>2, <2>3
<1> QED BY <1>1, <1>2 DEF Ascending

\* There are finitely many openings, at most i up to i.
LEMMA OpeningsFinite ==
  ASSUME NEW i \in Nat
  PROVE  IsFiniteSet(Openings(i)) /\ Count(i) \in 0 .. i
<1>1. IsFiniteSet(1 .. i) /\ Cardinality(1 .. i) = i
  BY FS_Interval
<1>2. Openings(i) \in SUBSET (1 .. i)
  BY DEF Openings
<1>3. IsFiniteSet(Openings(i)) /\ Cardinality(Openings(i)) <= Cardinality(1 .. i)
  BY <1>1, <1>2, FS_Subset
<1>4. Cardinality(Openings(i)) \in Nat
  BY <1>3, FS_CardinalityType
<1> QED BY <1>1, <1>3, <1>4 DEF Count

\* The first demand opens the first unit.
LEMMA CountFirst == Count(1) = 1
<1>1. Openings(1) = {1}
  BY DEF Openings, Opens
<1> QED BY <1>1, FS_Singleton DEF Count

\* Each demand is in the unit of the one before, or opens the next.
LEMMA CountNext ==
  ASSUME NEW i \in Nat, i > 1
  PROVE  /\ Opens(i) => Count(i) = Count(i - 1) + 1
         /\ ~Opens(i) => Count(i) = Count(i - 1)
<1>1. i - 1 \in Nat /\ 1 .. i = (1 .. (i - 1)) \cup {i} /\ i \notin 1 .. (i - 1)
  OBVIOUS
<1>2. IsFiniteSet(Openings(i - 1)) /\ i \notin Openings(i - 1)
  BY <1>1, OpeningsFinite DEF Openings
<1>3. CASE Opens(i)
  <2>1. Openings(i) = Openings(i - 1) \cup {i}
    BY <1>1, <1>3 DEF Openings
  <2> QED BY <1>2, <1>3, <2>1, FS_AddElement DEF Count
<1>4. CASE ~Opens(i)
  <2>1. Openings(i) = Openings(i - 1)
    BY <1>1, <1>4 DEF Openings
  <2> QED BY <1>4, <2>1 DEF Count
<1> QED BY <1>3, <1>4

\* The numbers never decrease, and grow where a unit is opened in between.
LEMMA CountGrows ==
  ASSUME NEW i \in Nat, NEW j \in Nat, i <= j
  PROVE  /\ Count(i) <= Count(j)
         /\ (\E k \in (i + 1) .. j : Opens(k)) => Count(i) < Count(j)
         /\ (\A k \in (i + 1) .. j : ~Opens(k)) => Count(i) = Count(j)
<1>1. IsFiniteSet(Openings(i)) /\ IsFiniteSet(Openings(j))
  BY OpeningsFinite
<1>2. Count(i) \in Nat /\ Count(j) \in Nat
  BY OpeningsFinite
<1>3. Openings(i) \in SUBSET Openings(j)
  BY DEF Openings
<1>4. /\ Cardinality(Openings(i)) <= Cardinality(Openings(j))
      /\ Cardinality(Openings(j)) = Cardinality(Openings(i)) => Openings(j) = Openings(i)
  BY <1>1, <1>3, FS_Subset
<1>5. ASSUME NEW k \in (i + 1) .. j, Opens(k) PROVE Count(i) < Count(j)
  <2>1. k \in Openings(j) /\ k \notin Openings(i)
    BY <1>5 DEF Openings
  <2>2. Count(i) # Count(j)
    BY <1>4, <2>1 DEF Count
  <2> QED BY <1>2, <1>4, <2>2 DEF Count
<1>6. ASSUME \A k \in (i + 1) .. j : ~Opens(k) PROVE Count(i) = Count(j)
  <2>1. Openings(i) = Openings(j)
    <3>1. ASSUME NEW h \in Openings(j) PROVE h \in Openings(i)
      <4>1. h \in 1 .. j /\ Opens(h)
        BY DEF Openings
      <4>2. h \notin (i + 1) .. j
        BY <1>6, <4>1
      <4> QED BY <4>1, <4>2 DEF Openings
    <3> QED BY <1>3, <3>1
  <2> QED BY <2>1 DEF Count
<1> QED BY <1>4, <1>5, <1>6 DEF Count

\* Demands of one owner are counted alike.
LEMMA OwnersShare ==
  ASSUME Ascending, NEW i \in Uses, NEW j \in Uses, i <= j,
         demands[i].owner = demands[j].owner
  PROVE  Count(i) = Count(j)
<1>1. i \in Nat /\ j \in Nat
  BY Sizes
<1>2. ASSUME NEW k \in (i + 1) .. j PROVE ~Opens(k)
  <2>1. k \in Uses /\ k - 1 \in Uses /\ k # 1 /\ i <= k /\ k <= j /\ i <= k - 1 /\ k - 1 <= j
    BY <1>1, Sizes
  <2>2. /\ demands[k].owner \in Nat /\ demands[k - 1].owner \in Nat
        /\ demands[i].owner \in Nat
    BY <2>1 DEF Ascending, UseDemand
  <2>3. /\ demands[i].owner <= demands[k].owner /\ demands[k].owner <= demands[j].owner
        /\ demands[i].owner <= demands[k - 1].owner
        /\ demands[k - 1].owner <= demands[j].owner
    BY <2>1 DEF Ascending
  <2>4. demands[k].owner = demands[k - 1].owner
    BY <2>2, <2>3
  <2> QED BY <2>1, <2>4 DEF Opens
<1> QED BY <1>1, <1>2, CountGrows

\* Demands of different owners are counted apart, in the order of the owners.
LEMMA OwnersPart ==
  ASSUME Ascending, NEW i \in Uses, NEW j \in Uses,
         demands[i].owner < demands[j].owner
  PROVE  Count(i) < Count(j)
<1>1. i \in Nat /\ j \in Nat /\ 1 <= i /\ j <= D
  BY Sizes
<1>2. demands[i].owner \in Nat /\ demands[j].owner \in Nat
  BY DEF Ascending, UseDemand
<1>3. i < j
  <2>1. CASE j <= i
    <3>1. demands[j].owner <= demands[i].owner
      BY <2>1 DEF Ascending
    <3> QED BY <1>2, <3>1
  <2> QED BY <1>1, <2>1
<1> DEFINE S == {k \in (i + 1) .. j : demands[k].owner # demands[i].owner}
<1>4. j \in S /\ S \subseteq Nat
  BY <1>1, <1>2, <1>3
<1>5. PICK k \in S : \A n \in S : k <= n
  BY <1>4, LeastOf
<1>6. k \in (i + 1) .. j /\ demands[k].owner # demands[i].owner
  BY <1>5
<1>7. k - 1 = i \/ k - 1 \in (i + 1) .. j
  BY <1>1, <1>6
<1>8. k - 1 \notin S
  BY <1>1, <1>5, <1>6
<1>9. demands[k - 1].owner = demands[i].owner
  BY <1>7, <1>8
<1>10. Opens(k)
  BY <1>6, <1>9 DEF Opens
<1>11. (\E n \in (i + 1) .. j : Opens(n)) => Count(i) < Count(j)
  BY <1>1, <1>3, CountGrows
<1> QED BY <1>6, <1>10, <1>11

\* So the units are the owners.
LEMMA CountTellsOwner ==
  ASSUME Ascending, NEW i \in Uses, NEW j \in Uses
  PROVE  /\ Count(i) = Count(j) <=> demands[i].owner = demands[j].owner
         /\ Count(i) < Count(j) <=> demands[i].owner < demands[j].owner
<1>1. i \in Nat /\ j \in Nat
  BY Sizes
<1>2. demands[i].owner \in Nat /\ demands[j].owner \in Nat
  BY DEF Ascending, UseDemand
<1>3. Count(i) \in Nat /\ Count(j) \in Nat
  BY <1>1, OpeningsFinite
<1>4. demands[i].owner < demands[j].owner => Count(i) < Count(j)
  BY OwnersPart
<1>5. demands[j].owner < demands[i].owner => Count(j) < Count(i)
  BY OwnersPart
<1>6. demands[i].owner = demands[j].owner => Count(i) = Count(j)
  <2>1. CASE i <= j
    BY <2>1, OwnersShare
  <2>2. CASE j <= i
    BY <2>2, OwnersShare
  <2> QED BY <1>1, <2>1, <2>2
<1> QED BY <1>2, <1>3, <1>4, <1>5, <1>6


\* From here on: the demands are numbered by their units.
Numbered == unit = [i \in Uses |-> Count(i)]

\* No number is left out below one that is used.
LEMMA UnitsFromOne ==
  ASSUME Ascending, Numbered, NEW u \in UnitsUsed, NEW v \in 1 .. u
  PROVE  v \in UnitsUsed
<1>1. PICK i \in Uses : unit[i] = u
  BY DEF UnitsUsed
<1>2. /\ \A k \in Uses : unit[k] = Count(k)
      /\ \A k \in Uses : Count(k) \in Nat
  BY OpeningsFinite, Sizes DEF Numbered
<1> DEFINE S == {k \in Uses : unit[k] >= v}
<1>3. i \in S /\ S \subseteq Nat
  BY <1>1, <1>2, Sizes
<1>4. PICK k \in S : \A n \in S : k <= n
  BY <1>3, LeastOf
<1>5. k \in Uses /\ unit[k] >= v /\ k \in Nat /\ 1 <= k /\ k <= D
  BY <1>4, Sizes
<1>6. CASE k = 1
  <2>1. unit[k] = v
    BY <1>2, <1>5, <1>6, CountFirst
  <2> QED BY <1>5, <2>1 DEF UnitsUsed
<1>7. CASE k # 1
  <2>1. k - 1 \in Uses /\ ~(k <= k - 1)
    BY <1>5, <1>7, Sizes
  <2>2. ~(unit[k - 1] >= v)
    BY <1>4, <2>1
  <2>3. Count(k) = Count(k - 1) + 1 \/ Count(k) = Count(k - 1)
    BY <1>5, <1>7, CountNext
  <2>4. unit[k] = v
    BY <1>2, <1>5, <2>1, <2>2, <2>3
  <2> QED BY <1>5, <2>4 DEF UnitsUsed
<1> QED BY <1>6, <1>7

\* The units are numbered from one.
LEMMA UnitTypes ==
  ASSUME Numbered, NEW u \in UnitsUsed
  PROVE  u \in 1 .. D
<1>1. PICK i \in Uses : unit[i] = u
  BY DEF UnitsUsed
<1>2. i \in Nat /\ 1 <= i /\ i <= D /\ D \in Nat
  BY Sizes
<1>3. unit[i] = Count(i) /\ Count(i) \in 0 .. i
  BY <1>2, OpeningsFinite DEF Numbered
<1>4. Count(1) <= Count(i)
  BY <1>2, CountGrows
<1> QED BY <1>1, <1>2, <1>3, <1>4, CountFirst

\* OwnerOf finds the owner of all demands of a unit.
LEMMA OwnerOfUnit ==
  ASSUME Ascending, Numbered, NEW i \in Uses
  PROVE  OwnerOf(unit[i]) = demands[i].owner
<1> DEFINE S == {k \in Uses : unit[k] = unit[i]}
           first == CHOOSE k \in Uses :
                      unit[k] = unit[i] /\ \A j \in 1 .. (k - 1) : unit[j] # unit[i]
<1>1. i \in S /\ S \subseteq Nat
  BY Sizes
<1>2. PICK k \in S : \A n \in S : k <= n
  BY <1>1, LeastOf
<1>3. k \in Uses /\ unit[k] = unit[i]
  BY <1>2
<1>4. ASSUME NEW j \in 1 .. (k - 1) PROVE unit[j] # unit[i]
  <2>1. j \in Uses /\ ~(k <= j)
    BY <1>3, Sizes
  <2> QED BY <1>2, <2>1
<1>5. first \in Uses /\ unit[first] = unit[i]
  BY <1>3, <1>4
<1>6. Count(first) = Count(i)
  BY <1>5 DEF Numbered
<1>7. demands[first].owner = demands[i].owner
  BY <1>5, <1>6, CountTellsOwner
<1> QED BY <1>7 DEF OwnerOf

\* The units and the owners, one to one and in the same order.
LEMMA UnitsAndOwners ==
  ASSUME Ascending, Numbered
  PROVE  /\ \A u \in UnitsUsed : OwnerOf(u) \in Owners
         /\ \A o \in Owners : \E u \in UnitsUsed : OwnerOf(u) = o
         /\ \A u, v \in UnitsUsed :
              /\ OwnerOf(u) = OwnerOf(v) <=> u = v
              /\ OwnerOf(u) < OwnerOf(v) <=> u < v
<1>1. \A i \in Uses : OwnerOf(unit[i]) = demands[i].owner
  BY OwnerOfUnit
<1>2. \A i \in Uses : unit[i] = Count(i)
  BY DEF Numbered
<1>3. \A i, j \in Uses :
        /\ Count(i) = Count(j) <=> demands[i].owner = demands[j].owner
        /\ Count(i) < Count(j) <=> demands[i].owner < demands[j].owner
  BY CountTellsOwner
<1> QED BY <1>1, <1>2, <1>3 DEF UnitsUsed, Owners

-----------------------------------------------------------------------------
(* The candidates: what the helpers of the code say is what is meant. *)

\* Every binding of a valid candidate is for one of its owner's uses, and no
\* two are for the same.
LEMMA ValidBindings ==
  ASSUME NEW c, ValidCandidate(c)
  PROVE  /\ Len(c.bindings) \in 1 .. 4
         /\ \A j \in 1 .. Len(c.bindings) :
              /\ c.bindings[j].owner = c.owner
              /\ \E i \in Uses : /\ KeyOf(demands[i]) = KeyOf(c.bindings[j])
                                 /\ demands[i].kind = c.bindings[j].kind
         /\ \A i, j \in 1 .. Len(c.bindings) :
              i # j => KeyOf(c.bindings[i]) # KeyOf(c.bindings[j])
<1>1. Len(c.bindings) \in 1 .. 4
  BY DEF ValidCandidate
<1>2. \A j \in 1 .. Len(c.bindings) : ValidBinding(c, j)
  BY DEF ValidCandidate
<1>3. ASSUME NEW j \in 1 .. Len(c.bindings)
      PROVE  /\ c.bindings[j].owner = c.owner
             /\ \E i \in Uses : /\ KeyOf(demands[i]) = KeyOf(c.bindings[j])
                                /\ demands[i].kind = c.bindings[j].kind
             /\ \A i \in 1 .. (j - 1) : KeyOf(c.bindings[j]) # KeyOf(c.bindings[i])
  BY <1>2, <1>3 DEF ValidBinding
<1>4. ASSUME NEW i \in 1 .. Len(c.bindings), NEW j \in 1 .. Len(c.bindings), i # j
      PROVE  KeyOf(c.bindings[i]) # KeyOf(c.bindings[j])
  <2>1. i \in 1 .. (j - 1) \/ j \in 1 .. (i - 1)
    BY <1>1, <1>4
  <2> QED BY <1>3, <2>1
<1> QED BY <1>1, <1>3, <1>4

\* Two sets of which each element has one partner are equally large.
LEMMA Paired ==
  ASSUME NEW S, NEW T, IsFiniteSet(S), NEW f \in [S -> T],
         \A x, y \in S : f[x] = f[y] => x = y,
         \A y \in T : \E x \in S : f[x] = y
  PROVE  Cardinality(T) = Cardinality(S)
<1>1. f \in Injection(S, T)
  BY DEF Injection, IsInjective
<1>2. f \in Surjection(S, T)
  BY DEF Surjection
<1>3. f \in Bijection(S, T)
  BY <1>1, <1>2 DEF Bijection
<1> QED BY <1>3, FS_Bijection DEF ExistsBijection

\* fits asks for as many bindings as the owner has uses: with distinct keys on
\* both sides and no binding for anything else, that is one for each.
LEMMA FitsIsServes ==
  ASSUME demands \in [Uses -> UseDemand], AllDistinct, NEW c \in Columns,
         ValidCandidate(candidates[c]), NEW owner
  PROVE  Fits(candidates[c], owner) <=> Serves(c, owner)
<1> DEFINE it == candidates[c]
           offered == it.bindings
           n == Len(offered)
           own == {i \in Uses : demands[i].owner = owner}
           wanted == {<<demands[i].local, demands[i].kind>> : i \in own}
           given == {<<offered[j].local, offered[j].kind>> : j \in 1 .. n}
<1>1. /\ n \in 1 .. 4
      /\ \A j \in 1 .. n :
           /\ offered[j].owner = it.owner
           /\ \E i \in Uses : /\ KeyOf(demands[i]) = KeyOf(offered[j])
                              /\ demands[i].kind = offered[j].kind
      /\ \A i, j \in 1 .. n : i # j => KeyOf(offered[i]) # KeyOf(offered[j])
  BY ValidBindings
<1>2. \A j \in 1 .. n : \E i \in Uses :
        /\ demands[i].owner = it.owner
        /\ demands[i].local = offered[j].local
        /\ demands[i].kind = offered[j].kind
  BY <1>1 DEF KeyOf
<1>3. Fits(it, owner) <=>
        /\ it.owner = owner
        /\ \A i \in own : Binds(it, demands[i])
        /\ Cardinality(own) = n
  BY DEF Fits
<1>4. Serves(c, owner) <=> it.owner = owner /\ wanted = given
  BY DEF Serves
<1>5. ASSUME Fits(it, owner) PROVE Serves(c, owner)
  <2>1. it.owner = owner /\ \A i \in own : Binds(it, demands[i])
    BY <1>3, <1>5
  <2>2. ASSUME NEW i \in own
        PROVE  <<demands[i].local, demands[i].kind>> \in given
    <3>1. PICK j \in 1 .. n : KeyOf(offered[j]) = KeyOf(demands[i])
                              /\ offered[j].kind = demands[i].kind
      BY <2>1 DEF Binds
    <3> QED BY <3>1 DEF KeyOf
  <2>3. ASSUME NEW j \in 1 .. n
        PROVE  <<offered[j].local, offered[j].kind>> \in wanted
    BY <1>2, <2>1
  <2> QED BY <1>4, <2>1, <2>2, <2>3
<1>6. ASSUME Serves(c, owner) PROVE Fits(it, owner)
  <2>1. it.owner = owner /\ wanted = given
    BY <1>4, <1>6
  <2>2. ASSUME NEW i \in own
        PROVE  \E j \in 1 .. n : KeyOf(offered[j]) = KeyOf(demands[i])
                                 /\ offered[j].kind = demands[i].kind
    <3>1. <<demands[i].local, demands[i].kind>> \in given
      BY <2>1
    <3>2. PICK j \in 1 .. n :
            <<demands[i].local, demands[i].kind>> = <<offered[j].local, offered[j].kind>>
      BY <3>1
    <3>3. offered[j].owner = demands[i].owner
      BY <1>1, <2>1
    <3> QED BY <3>2, <3>3 DEF KeyOf
  <2> DEFINE f == [i \in own |-> CHOOSE j \in 1 .. n :
                                   KeyOf(offered[j]) = KeyOf(demands[i])]
  <2>3. \A i \in own : f[i] \in 1 .. n /\ KeyOf(offered[f[i]]) = KeyOf(demands[i])
    BY <2>2
  <2>4. f \in [own -> 1 .. n]
    BY <2>3
  <2>5. ASSUME NEW i \in own, NEW k \in own, f[i] = f[k] PROVE i = k
    <3>1. KeyOf(demands[i]) = KeyOf(demands[k])
      BY <2>3, <2>5
    <3> QED BY <3>1 DEF AllDistinct
  <2>6. ASSUME NEW j \in 1 .. n PROVE \E i \in own : f[i] = j
    <3>1. PICK i \in Uses : KeyOf(demands[i]) = KeyOf(offered[j])
      BY <1>1
    <3>2. i \in own
      BY <1>1, <2>1, <3>1 DEF KeyOf
    <3>3. f[i] = j
      BY <1>1, <2>3, <3>1, <3>2
    <3> QED BY <3>2, <3>3
  <2>7. IsFiniteSet(own)
    <3>1. IsFiniteSet(Uses)
      BY FS_Interval, Sizes DEF Uses
    <3> QED BY <3>1, FS_Subset
  <2>8. Cardinality(own) = n
    <3> HIDE DEF own, f, n
    <3>1. Cardinality(1 .. n) = Cardinality(own)
      BY <2>4, <2>5, <2>6, <2>7, Paired
    <3>2. n \in Int /\ 1 <= n
      BY <1>1
    <3>3. Cardinality(1 .. n) = IF 1 > n THEN 0 ELSE n - 1 + 1
      BY <3>2, FS_Interval
    <3> QED BY <3>1, <3>2, <3>3
  <2>9. \A i \in own : Binds(it, demands[i])
    BY <2>2 DEF Binds
  <2> QED BY <1>3, <2>1, <2>8, <2>9
<1> QED BY <1>5, <1>6

\* What a valid candidate occupies is what it needs.
LEMMA ResourcesAreNeeds ==
  ASSUME NEW c \in Columns, ValidCandidate(candidates[c]), NEW r
  PROVE  r \in EachResource(candidates[c]) <=> Needs(c, r)
<1> DEFINE it == candidates[c]
<1>1. it.timer # 0
  BY DEF ValidCandidate
<1>2. \A j \in 1 .. Len(it.bindings) : it.bindings[j].endpoint # 0
  BY DEF ValidCandidate, ValidBinding
<1>3. \A j \in 1 .. Len(it.roles) : it.roles[j] # 0
  BY DEF ValidCandidate
<1>4. r \in EachResource(it) <=>
        \/ r = it.timer
        \/ \E j \in 1 .. Len(it.bindings) : r = it.bindings[j].endpoint
        \/ r # 0 /\ \E j \in 1 .. Len(it.bindings) : r = it.bindings[j].pin
        \/ \E j \in 1 .. Len(it.roles) : r = it.roles[j]
  BY DEF EachResource
<1>5. Needs(c, r) <=>
        /\ r # 0
        /\ \/ it.timer = r
           \/ \E j \in 1 .. Len(it.bindings) :
                it.bindings[j].endpoint = r \/ it.bindings[j].pin = r
           \/ \E j \in 1 .. Len(it.roles) : it.roles[j] = r
  BY DEF Needs
<1>6. r \in EachResource(it) <=> Needs(c, r)
  <2> HIDE DEF it
  <2> QED BY <1>1, <1>2, <1>3, <1>4, <1>5
<1> QED BY <1>6

\* So a candidate is reserved when it is not free.
LEMMA ReservedIsTaken ==
  ASSUME NEW c \in Columns, ValidCandidate(candidates[c])
  PROVE  Reserved(candidates[c]) <=> ~Free(c)
<1>1. \A r : r \in EachResource(candidates[c]) <=> Needs(c, r)
  BY ResourcesAreNeeds
<1> QED BY <1>1 DEF Reserved, Free

\* And two candidates are compatible when they are apart, either way round.
LEMMA CompatibleIsApart ==
  ASSUME NEW c \in Columns, ValidCandidate(candidates[c]),
         NEW d \in Columns, ValidCandidate(candidates[d])
  PROVE  /\ Compatible(candidates[c], candidates[d]) <=> Apart(c, d)
         /\ Compatible(candidates[c], candidates[d])
              <=> Compatible(candidates[d], candidates[c])
<1>1. \A r : r \in EachResource(candidates[c]) <=> Needs(c, r)
  BY ResourcesAreNeeds
<1>2. \A r : r \in EachResource(candidates[d]) <=> Needs(d, r)
  BY ResourcesAreNeeds
<1>3. ~Needs(d, 0)
  BY DEF Needs
<1>4. ASSUME NEW r, r # 0 PROVE r \in Needed(c) <=> Needs(c, r)
  <2> DEFINE it == candidates[c]
             each == {{it.bindings[j].endpoint, it.bindings[j].pin} :
                        j \in 1 .. Len(it.bindings)}
  <2>1. r \in UNION each <=>
          \E j \in 1 .. Len(it.bindings) : it.bindings[j].endpoint = r
                                           \/ it.bindings[j].pin = r
    OBVIOUS
  <2> QED BY <1>4, <2>1 DEF Needed, Needs
<1>5. Apart(c, d) <=> \A r : ~(Needs(c, r) /\ Needs(d, r))
  <2>1. \A r : r # 0 => (r \in Needed(c) <=> Needs(c, r))
    BY <1>4
  <2>2. ~Needs(c, 0)
    BY DEF Needs
  <2> QED BY <1>3, <2>1, <2>2 DEF Apart
<1> QED BY <1>1, <1>2, <1>5 DEF Compatible

-----------------------------------------------------------------------------
(* The ways of the search are the assignments of the owners. *)

\* What holds of the problem once its parts are checked and numbered.
Settled ==
  /\ Ascending /\ AllDistinct /\ Numbered
  /\ candidates \in [Columns -> Candidate]
  /\ InOrder(candidates)
  /\ \A c \in Columns : ValidCandidate(candidates[c])
  /\ IdentitiesDiffer

\* Each unit's eligible candidates are those that serve its owner and are free.
AllMarked ==
  \A u \in UnitsUsed :
    eligible[u] = {c \in Columns : Serves(c, OwnerOf(u)) /\ Free(c)}

\* The invariant says so of every problem that is marked.
LEMMA MarkedIsSettled ==
  ASSUME Inv, pc = "mark"
  PROVE  Settled
<1>1. Ascending
  BY SortedAscend DEF Inv
<1>2. Numbered
  BY DEF Inv, Staged, Numbered, Count, Openings
<1> QED BY <1>1, <1>2 DEF Inv, TypeOK, Sorted, OnlyWellFormedSearched,
                          CandidatesValid, Settled

\* What an assignment does to the units, and a way to the owners.
WayOf(a) == [u \in UnitsUsed |-> a[OwnerOf(u)]]

UnitOf(o) == CHOOSE u \in UnitsUsed : OwnerOf(u) = o

AssignmentOf(s) == [o \in Owners |-> s[UnitOf(o)]]

\* The unit of a demand's owner is the demand's.
LEMMA UnitOfOwner ==
  ASSUME Settled
  PROVE  /\ \A o \in Owners : UnitOf(o) \in UnitsUsed /\ OwnerOf(UnitOf(o)) = o
         /\ \A i \in Uses : /\ unit[i] \in UnitsUsed
                            /\ OwnerOf(unit[i]) = demands[i].owner
                            /\ demands[i].owner \in Owners
                            /\ UnitOf(demands[i].owner) = unit[i]
<1>1. /\ \A o \in Owners : \E u \in UnitsUsed : OwnerOf(u) = o
      /\ \A u, v \in UnitsUsed : OwnerOf(u) = OwnerOf(v) <=> u = v
  BY UnitsAndOwners DEF Settled
<1>2. ASSUME NEW o \in Owners
      PROVE  UnitOf(o) \in UnitsUsed /\ OwnerOf(UnitOf(o)) = o
  BY <1>1 DEF UnitOf
<1>3. ASSUME NEW i \in Uses
      PROVE  /\ unit[i] \in UnitsUsed
             /\ OwnerOf(unit[i]) = demands[i].owner
             /\ demands[i].owner \in Owners
             /\ UnitOf(demands[i].owner) = unit[i]
  <2>1. unit[i] \in UnitsUsed /\ demands[i].owner \in Owners
    BY DEF UnitsUsed, Owners
  <2>2. OwnerOf(unit[i]) = demands[i].owner
    BY OwnerOfUnit DEF Settled
  <2> QED BY <1>1, <1>2, <2>1, <2>2
<1> QED BY <1>2, <1>3

\* A way gives each owner a candidate.
LEMMA WayAssigns ==
  ASSUME Settled, AllMarked, NEW s \in SearchWays
  PROVE  AssignmentOf(s) \in Assignments
<1> DEFINE a == AssignmentOf(s)
<1>1. /\ s \in [UnitsUsed -> Columns]
      /\ \A u \in UnitsUsed : s[u] \in eligible[u]
      /\ \A u, v \in UnitsUsed : u < v => Compatible(candidates[s[u]], candidates[s[v]])
  BY DEF SearchWays
<1>2. \A o \in Owners : UnitOf(o) \in UnitsUsed /\ OwnerOf(UnitOf(o)) = o
  BY UnitOfOwner
<1>3. a \in [Owners -> Columns] /\ \A o \in Owners : a[o] = s[UnitOf(o)]
  BY <1>1, <1>2 DEF AssignmentOf
<1>4. ASSUME NEW o \in Owners PROVE Serves(a[o], o) /\ Free(a[o])
  <2>1. s[UnitOf(o)] \in eligible[UnitOf(o)]
    BY <1>1, <1>2
  <2>2. eligible[UnitOf(o)] = {c \in Columns : Serves(c, o) /\ Free(c)}
    BY <1>2 DEF AllMarked
  <2> QED BY <1>3, <2>1, <2>2
<1>5. ASSUME NEW o \in Owners, NEW q \in Owners, o # q PROVE Apart(a[o], a[q])
  <2> DEFINE u == UnitOf(o)
             v == UnitOf(q)
  <2>1. u \in UnitsUsed /\ v \in UnitsUsed /\ u # v
    BY <1>2, <1>5
  <2>2. u \in Nat /\ v \in Nat
    BY <2>1, UnitTypes, Sizes DEF Settled
  <2>3. a[o] = s[u] /\ a[q] = s[v] /\ a[o] \in Columns /\ a[q] \in Columns
    BY <1>3
  <2>4. u < v \/ v < u
    BY <2>1, <2>2
  <2>5. \/ Compatible(candidates[a[o]], candidates[a[q]])
        \/ Compatible(candidates[a[q]], candidates[a[o]])
    BY <1>1, <2>1, <2>3, <2>4
  <2>6. ValidCandidate(candidates[a[o]]) /\ ValidCandidate(candidates[a[q]])
    BY <2>3 DEF Settled
  <2> HIDE DEF a
  <2> QED BY <2>3, <2>5, <2>6, CompatibleIsApart
<1> QED BY <1>3, <1>4, <1>5 DEF Assignments

\* An assignment gives each unit a candidate.
LEMMA AssignmentIsWay ==
  ASSUME Settled, AllMarked, NEW a \in Assignments
  PROVE  WayOf(a) \in SearchWays
<1> DEFINE s == WayOf(a)
<1>1. /\ a \in [Owners -> Columns]
      /\ \A o \in Owners : Serves(a[o], o) /\ Free(a[o])
      /\ \A o, q \in Owners : o # q => Apart(a[o], a[q])
  BY DEF Assignments
<1>2. /\ \A u \in UnitsUsed : OwnerOf(u) \in Owners
      /\ \A u, v \in UnitsUsed : OwnerOf(u) = OwnerOf(v) <=> u = v
  BY UnitsAndOwners DEF Settled
<1>3. s \in [UnitsUsed -> Columns] /\ \A u \in UnitsUsed : s[u] = a[OwnerOf(u)]
  BY <1>1, <1>2 DEF WayOf
<1>4. ASSUME NEW u \in UnitsUsed PROVE s[u] \in eligible[u]
  BY <1>1, <1>2, <1>3 DEF AllMarked
<1>5. ASSUME NEW u \in UnitsUsed, NEW v \in UnitsUsed, u < v
      PROVE  Compatible(candidates[s[u]], candidates[s[v]])
  <2>1. u \in Nat /\ v \in Nat
    BY UnitTypes, Sizes DEF Settled
  <2>2. OwnerOf(u) # OwnerOf(v)
    BY <1>2, <1>5, <2>1
  <2>3. Apart(s[u], s[v]) /\ s[u] \in Columns /\ s[v] \in Columns
    BY <1>1, <1>2, <1>3, <2>2
  <2>4. ValidCandidate(candidates[s[u]]) /\ ValidCandidate(candidates[s[v]])
    BY <2>3 DEF Settled
  <2> HIDE DEF s
  <2> QED BY <2>3, <2>4, CompatibleIsApart
<1> QED BY <1>3, <1>4, <1>5 DEF SearchWays

\* An assignment that uses the candidates of a way is that way.
LEMMA SameWay ==
  ASSUME Settled, NEW s \in SearchWays, NEW a \in Assignments,
         \A i \in Uses :
           candidates[s[unit[i]]].identity = candidates[a[demands[i].owner]].identity
  PROVE  WayOf(a) = s
<1>1. s \in [UnitsUsed -> Columns] /\ a \in [Owners -> Columns]
  BY DEF SearchWays, Assignments
<1>2. ASSUME NEW u \in UnitsUsed PROVE a[OwnerOf(u)] = s[u]
  <2>1. PICK i \in Uses : unit[i] = u
    BY DEF UnitsUsed
  <2>2. OwnerOf(u) = demands[i].owner /\ demands[i].owner \in Owners
    BY <2>1, UnitOfOwner
  <2>3. candidates[s[u]].identity = candidates[a[OwnerOf(u)]].identity
    BY <2>1, <2>2
  <2>4. s[u] \in Columns /\ a[OwnerOf(u)] \in Columns
    BY <1>1, <2>2
  <2> QED BY <2>3, <2>4 DEF Settled, IdentitiesDiffer
<1>3. WayOf(a) = [u \in UnitsUsed |-> s[u]]
  BY <1>2 DEF WayOf
<1> QED BY <1>1, <1>3

-----------------------------------------------------------------------------
(* The invariant, action by action.  What solve has answered is part of it. *)

Answers == PlanIsSound /\ RefusalIsJustified /\ PlanIsPreferred

OwnerInv == Inv /\ Answers

\* Before solve returns there is nothing to answer for.
LEMMA Unanswered == ASSUME pc # "done" PROVE Answers
BY DEF Answers, PlanIsSound, RefusalIsJustified, PlanIsPreferred, Answered

\* What the reference says is a matter of the problem alone.
LEMMA SameProblem ==
  ASSUME UNCHANGED problem
  PROVE  /\ Owners' = Owners
         /\ Assignments' = Assignments
         /\ \A c, o : (Serves(c, o)' <=> Serves(c, o)) /\ (Free(c)' <=> Free(c))
         /\ AllNamed' = AllNamed /\ AllDistinct' = AllDistinct
<1>1. UNCHANGED <<demands, candidates, reservations>>
  BY DEF problem
<1>2. Owners' = Owners
  BY <1>1 DEF Owners
<1>3. \A c, o : (Serves(c, o)' <=> Serves(c, o)) /\ (Free(c)' <=> Free(c))
  BY <1>1 DEF Serves, Free, Needs
<1>4. Assignments' = Assignments
  BY <1>1 DEF Assignments, Owners, Serves, Free, Needs, Apart, Needed
<1>5. AllNamed' = AllNamed /\ AllDistinct' = AllDistinct
  BY <1>1 DEF AllNamed, AllDistinct
<1> QED BY <1>2, <1>3, <1>4, <1>5

\* A call begins with the problem as it was posed.
LEMMA InitInv == Init => OwnerInv
<1> SUFFICES ASSUME Init PROVE OwnerInv
  OBVIOUS
<1>1. TypeOK
  <2>1. demands \in [Uses -> UseDemand]
    BY ProblemAssumption DEF Init
  <2>2. candidates \in [Columns -> Candidate]
    BY ProblemAssumption DEF Init
  <2>3. reservations \subseteq Nat /\ ample \in BOOLEAN
    BY ProblemAssumption DEF Init
  <2>4. unit \in [Uses -> 0 .. D] /\ at \in 1 .. (D + 1) /\ plan \in [Uses -> Nat]
    BY Sizes DEF Init
  <2> QED BY <2>1, <2>2, <2>3, <2>4 DEF Init, TypeOK
<1>2. Inv
  BY <1>1 DEF Init, Inv, Sorted, OnlyWellFormedSearched, Staged, UnitsAreOwners, Marked
<1>3. Answers
  BY Unanswered DEF Init
<1> QED BY <1>2, <1>3 DEF OwnerInv

Refusals ==
  {"invalid_identity", "duplicate_identity", "invalid_model",
   "no_candidate", "reserved", "conflict", "exhausted"}

\* A refusal ends the call and leaves no plan.
LEMMA FailInv ==
  ASSUME Inv, pc # "sort", UNCHANGED <<problem, unit, at, eligible>>,
         NEW reason \in Refusals, NEW owner \in Nat, NEW number \in Nat,
         Fail(reason, owner, number)
  PROVE  /\ Inv' /\ PlanIsSound' /\ PlanIsPreferred'
         /\ pc' = "done" /\ status' = reason /\ blamed' = owner /\ detail' = number
<1>1. /\ pc' = "done" /\ status' = reason /\ blamed' = owner /\ detail' = number
      /\ plan' \in [Uses -> Nat]
  BY DEF Fail
<1>2. UNCHANGED <<demands, candidates, reservations, ample, unit, at, eligible>>
  BY DEF problem
<1>3. TypeOK'
  BY <1>1, <1>2 DEF Inv, TypeOK, Refusals
<1>4. Sorted'
  BY <1>2 DEF Inv, Sorted, InOrder, Less, KeyLess
<1>5. Inv'
  BY <1>1, <1>3, <1>4 DEF Inv, OnlyWellFormedSearched, Staged, UnitsAreOwners, Marked
<1>6. PlanIsSound' /\ PlanIsPreferred'
  BY <1>1 DEF PlanIsSound, PlanIsPreferred, Answered, Refusals
<1> QED BY <1>1, <1>5, <1>6

\* SortProblem leaves both lists in order.
LEMMA SortProblemInv == ASSUME OwnerInv, SortProblem PROVE OwnerInv'
<1>1. /\ pc' = "demands"
      /\ UNCHANGED <<reservations, ample, unit, at, eligible, status, blamed, detail, plan>>
  BY DEF SortProblem, Proceed, result
<1>2. /\ demands' \in [Uses -> UseDemand]
      /\ \A i \in Uses : \A j \in 1 .. (i - 1) : ~KeyLess(demands'[i], demands'[j])
  <2>1. PICK order \in UseOrders :
          /\ \A i \in Uses : \A j \in 1 .. (i - 1) :
               ~KeyLess(demands[order[i]], demands[order[j]])
          /\ demands' = [i \in Uses |-> demands[order[i]]]
    BY DEF SortProblem
  <2>2. order \in [Uses -> Uses]
    BY DEF UseOrders, Rearranges
  <2>3. \A i \in Uses : demands'[i] = demands[order[i]]
    BY <2>1
  <2>4. \A i \in Uses : \A j \in 1 .. (i - 1) : j \in Uses
    BY Sizes
  <2>5. demands' \in [Uses -> UseDemand]
    BY <2>1, <2>2 DEF OwnerInv, Inv, TypeOK
  <2> QED BY <2>1, <2>3, <2>4, <2>5
<1>3. candidates' \in [Columns -> Candidate] /\ InOrder(candidates')
  <2>1. PICK order \in ColumnOrders :
          LET list == [c \in Columns |-> candidates[order[c]]]
          IN  InOrder(list) /\ candidates' = list
    BY DEF SortProblem
  <2>2. order \in [Columns -> Columns]
    BY DEF ColumnOrders, Rearranges
  <2> QED BY <2>1, <2>2 DEF OwnerInv, Inv, TypeOK
<1>4. TypeOK'
  BY <1>1, <1>2, <1>3 DEF OwnerInv, Inv, TypeOK
<1>5. Sorted'
  BY <1>2, <1>3 DEF Sorted, InOrder, Less
<1>6. pc = "sort"
  BY DEF SortProblem
<1>7. Staged'
  BY <1>1, <1>6 DEF OwnerInv, Inv, Staged
<1>8. Inv'
  BY <1>1, <1>4, <1>5, <1>7 DEF Inv, OnlyWellFormedSearched, UnitsAreOwners, Marked
<1>9. Answers'
  BY <1>1, Unanswered DEF Answers, PlanIsSound, RefusalIsJustified, PlanIsPreferred, Answered
<1> QED BY <1>8, <1>9 DEF OwnerInv

\* Equal keys are neighbours in a sorted list.
LEMMA EqualsAreNeighbours ==
  ASSUME TypeOK, Sorted, pc # "sort", \A i \in Uses : ~Doubled(i)
  PROVE  AllDistinct
<1>1. ASSUME NEW i \in Uses, NEW j \in Uses, i < j,
             KeyOf(demands[i]) = KeyOf(demands[j])
      PROVE  FALSE
  <2>1. j - 1 \in Uses /\ j # 1 /\ i \in 1 .. (j - 1) /\ j - 1 \in 1 .. (j - 1)
    BY <1>1, Sizes
  <2>2. i = j - 1 \/ i \in 1 .. (j - 1 - 1)
    BY <2>1, Sizes
  <2>3. /\ \A k \in Uses : demands[k].owner \in Nat /\ demands[k].local \in Nat
    BY DEF TypeOK, UseDemand
  <2>4. /\ ~KeyLess(demands[j], demands[j - 1])
        /\ i = j - 1 \/ ~KeyLess(demands[j - 1], demands[i])
    BY <2>1, <2>2 DEF Sorted
  <2>5. /\ demands[i].owner = demands[j].owner
        /\ demands[i].local = demands[j].local
    BY <1>1 DEF KeyOf
  <2>6. /\ demands[j - 1].owner = demands[j].owner
        /\ demands[j - 1].local = demands[j].local
    BY <2>1, <2>3, <2>4, <2>5 DEF KeyLess
  <2>7. Doubled(j)
    BY <2>1, <2>6 DEF Doubled, KeyOf
  <2> QED BY <2>7
<1>2. ASSUME NEW i \in Uses, NEW j \in Uses, i # j
      PROVE  KeyOf(demands[i]) # KeyOf(demands[j])
  <2>1. i < j \/ j < i
    BY <1>2, Sizes
  <2> QED BY <1>1, <2>1
<1> QED BY <1>2 DEF AllDistinct

\* A step to another part of solve keeps the order of the lists.
LEMMA SameSorted ==
  ASSUME Sorted, pc # "sort", UNCHANGED problem
  PROVE  Sorted'
BY DEF problem, Sorted, InOrder, Less, KeyLess

\* What a refusal before the units are formed says of the demands.
LEMMA EarlyAnswer ==
  ASSUME OwnerInv, pc # "sort", UNCHANGED <<problem, unit, at, eligible>>,
         NEW reason \in {"invalid_identity", "duplicate_identity", "invalid_model"},
         NEW owner \in Nat, Fail(reason, owner, 0),
         reason = "invalid_identity" => ~AllNamed,
         reason = "duplicate_identity" => ~AllDistinct,
         reason = "invalid_model" => AllNamed /\ AllDistinct
  PROVE  OwnerInv'
<1>1. reason \in Refusals /\ 0 \in Nat
  BY DEF Refusals
<1>2. /\ Inv' /\ PlanIsSound' /\ PlanIsPreferred'
      /\ pc' = "done" /\ status' = reason
  BY <1>1, FailInv DEF OwnerInv
<1>3. AllNamed' = AllNamed /\ AllDistinct' = AllDistinct
  BY SameProblem
<1>4. RefusalIsJustified'
  BY <1>2, <1>3 DEF RefusalIsJustified, Answered
<1> QED BY <1>2, <1>4 DEF OwnerInv, Answers

\* CheckDemands lets only distinct and well-named uses pass.
LEMMA CheckDemandsInv == ASSUME OwnerInv, CheckDemands PROVE OwnerInv'
<1>1. /\ pc = "demands" /\ UNCHANGED <<problem, unit, at, eligible>>
      /\ demands \in [Uses -> UseDemand]
  BY DEF CheckDemands, OwnerInv, Inv, TypeOK
<1>2. ASSUME NEW i \in Uses, BadUse(i),
             Fail(IF Nameless(i) THEN "invalid_identity" ELSE "duplicate_identity",
                  demands[i].owner, 0)
      PROVE  OwnerInv'
  <2>1. demands[i].owner \in Nat
    BY <1>1 DEF UseDemand
  <2>2. CASE Nameless(i)
    <3>1. ~AllNamed
      BY <2>2 DEF Nameless, AllNamed
    <3>2. Fail("invalid_identity", demands[i].owner, 0)
      BY <1>2, <2>2
    <3> QED BY <1>1, <2>1, <3>1, <3>2, EarlyAnswer
  <2>3. CASE ~Nameless(i)
    <3>1. i # 1 /\ KeyOf(demands[i]) = KeyOf(demands[i - 1])
      BY <1>2, <2>3 DEF BadUse, Doubled
    <3>2. i - 1 \in Uses /\ i # i - 1
      BY <3>1, Sizes
    <3>3. ~AllDistinct
      BY <3>1, <3>2 DEF AllDistinct
    <3>4. Fail("duplicate_identity", demands[i].owner, 0)
      BY <1>2, <2>3
    <3> QED BY <1>1, <2>1, <3>3, <3>4, EarlyAnswer
  <2> QED BY <2>2, <2>3
<1>3. ASSUME \A i \in Uses : ~BadUse(i), Proceed("candidates") PROVE OwnerInv'
  <2>1. pc' = "candidates" /\ UNCHANGED <<status, blamed, detail, plan>>
    BY <1>3 DEF Proceed, result
  <2>2. UNCHANGED <<demands, candidates, reservations, ample, unit, at, eligible>>
    BY <1>1 DEF problem
  <2>3. AllNamed
    BY <1>3 DEF BadUse, Nameless, AllNamed
  <2>4. AllDistinct
    BY <1>1, <1>3, EqualsAreNeighbours DEF BadUse, OwnerInv, Inv
  <2>5. AllNamed' /\ AllDistinct'
    BY <1>1, <2>3, <2>4, SameProblem
  <2>6. TypeOK'
    BY <2>1, <2>2 DEF OwnerInv, Inv, TypeOK
  <2>7. Sorted'
    BY <1>1, SameSorted DEF OwnerInv, Inv
  <2>8. Staged'
    BY <1>1, <2>1, <2>2 DEF OwnerInv, Inv, Staged
  <2>9. Inv'
    BY <2>1, <2>5, <2>6, <2>7, <2>8
       DEF Inv, OnlyWellFormedSearched, UnitsAreOwners, Marked
  <2>10. Answers'
    BY <2>1 DEF Answers, PlanIsSound, RefusalIsJustified, PlanIsPreferred, Answered
  <2> QED BY <2>9, <2>10 DEF OwnerInv
<1> QED BY <1>2, <1>3 DEF CheckDemands

\* CheckCandidates lets only valid candidates pass.
LEMMA CheckCandidatesInv == ASSUME OwnerInv, CheckCandidates PROVE OwnerInv'
<1>1. /\ pc = "candidates" /\ UNCHANGED <<problem, unit, at, eligible>>
      /\ AllNamed /\ AllDistinct
  BY DEF CheckCandidates, OwnerInv, Inv, OnlyWellFormedSearched
<1>2. CASE Fail("invalid_model", 0, 0)
  BY <1>1, <1>2, EarlyAnswer
<1>3. CASE CandidatesValid /\ Proceed("group")
  <2>1. pc' = "group" /\ UNCHANGED <<status, blamed, detail, plan>>
    BY <1>3 DEF Proceed, result
  <2>2. UNCHANGED <<demands, candidates, reservations, ample, unit, at, eligible>>
    BY <1>1 DEF problem
  <2>3. AllNamed' /\ AllDistinct'
    BY <1>1, SameProblem
  <2>4. CandidatesValid' /\ IdentitiesDiffer'
    BY <1>3, <2>2 DEF CandidatesValid, ValidCandidate, ValidBinding, IdentitiesDiffer
  <2>5. TypeOK'
    BY <2>1, <2>2 DEF OwnerInv, Inv, TypeOK
  <2>6. Sorted'
    BY <1>1, SameSorted DEF OwnerInv, Inv
  <2>7. Staged'
    BY <1>1, <2>1, <2>2 DEF OwnerInv, Inv, Staged
  <2>8. Inv'
    BY <2>1, <2>3, <2>4, <2>5, <2>6, <2>7
       DEF Inv, OnlyWellFormedSearched, UnitsAreOwners, Marked
  <2>9. Answers'
    BY <2>1 DEF Answers, PlanIsSound, RefusalIsJustified, PlanIsPreferred, Answered
  <2> QED BY <2>8, <2>9 DEF OwnerInv
<1> QED BY <1>2, <1>3 DEF CheckCandidates

\* Group numbers the demands so that the units are the owners.
LEMMA GroupInv == ASSUME OwnerInv, Group PROVE OwnerInv'
<1>1. /\ pc = "group" /\ pc' = "mark"
      /\ UNCHANGED <<demands, candidates, reservations, ample, at, eligible>>
      /\ UNCHANGED <<status, blamed, detail, plan>>
      /\ unit' = [i \in Uses |-> Cardinality({h \in 1 .. i : Opens(h)})]
  BY DEF Group, Proceed, result, problem
<1>2. Ascending
  BY <1>1, SortedAscend DEF OwnerInv, Inv
<1>3. unit' = [i \in Uses |-> Count(i)]
  BY <1>1 DEF Count, Openings
<1>4. unit' \in [Uses -> 0 .. D]
  <2>1. ASSUME NEW i \in Uses PROVE Count(i) \in 0 .. D
    <3>1. i \in Nat /\ i <= D /\ D \in Nat
      BY Sizes
    <3>2. Count(i) \in 0 .. i
      BY <3>1, OpeningsFinite
    <3> QED BY <3>1, <3>2
  <2> QED BY <1>3, <2>1
<1>5. TypeOK'
  BY <1>1, <1>4 DEF OwnerInv, Inv, TypeOK
<1>6. Sorted'
  BY <1>1, SameSorted DEF OwnerInv, Inv, problem
<1>7. OnlyWellFormedSearched'
  BY <1>1 DEF OwnerInv, Inv, OnlyWellFormedSearched, AllNamed, AllDistinct,
              CandidatesValid, ValidCandidate, ValidBinding, IdentitiesDiffer
<1>8. Staged'
  BY <1>1 DEF OwnerInv, Inv, Staged, Opens
<1>9. UnitsAreOwners'
  <2>1. \A i, j \in Uses : Count(i) = Count(j) <=> demands[i].owner = demands[j].owner
    BY <1>2, CountTellsOwner
  <2>2. \A i \in Uses : unit'[i] = Count(i)
    BY <1>3
  <2> QED BY <1>1, <2>1, <2>2 DEF UnitsAreOwners
<1>10. Marked'
  <2>1. at' = 1
    BY <1>1 DEF OwnerInv, Inv, Staged
  <2>2. ASSUME NEW i \in Uses PROVE ~(unit'[i] < 1)
    <3>1. i \in Nat /\ 1 <= i
      BY Sizes
    <3>2. Count(1) <= Count(i)
      BY <3>1, CountGrows
    <3> QED BY <1>3, <3>1, <3>2, CountFirst, OpeningsFinite
  <2> QED BY <2>1, <2>2 DEF Marked, UnitsUsed
<1>11. Answers'
  BY <1>1 DEF Answers, PlanIsSound, RefusalIsJustified, PlanIsPreferred, Answered
<1> QED BY <1>5, <1>6, <1>7, <1>8, <1>9, <1>10, <1>11 DEF OwnerInv, Inv

\* What fits a unit and what is open to it, in terms of its owner.
LEMMA OpenServes ==
  ASSUME Settled, NEW u
  PROVE  /\ Fitting(u) = {c \in Columns : Serves(c, OwnerOf(u))}
         /\ Open(u) = {c \in Columns : Serves(c, OwnerOf(u)) /\ Free(c)}
<1>1. ASSUME NEW c \in Columns
      PROVE  /\ Fits(candidates[c], OwnerOf(u)) <=> Serves(c, OwnerOf(u))
             /\ Reserved(candidates[c]) <=> ~Free(c)
  BY FitsIsServes, ReservedIsTaken DEF Settled, Ascending
<1> QED BY <1>1 DEF Fitting, Open

\* The units before the one that is marked belong to the lesser owners.
LEMMA LesserOwners ==
  ASSUME Inv, pc = "mark", at \in UnitsUsed, NEW o \in Owners, o < OwnerOf(at)
  PROVE  \E c \in Columns : Serves(c, o) /\ Free(c)
<1>1. Settled
  BY MarkedIsSettled
<1>2. PICK u \in UnitsUsed : OwnerOf(u) = o
  BY <1>1, UnitsAndOwners DEF Settled
<1>3. u < at
  BY <1>1, <1>2, UnitsAndOwners DEF Settled
<1> QED BY <1>2, <1>3 DEF Inv, Marked

\* When no unit is left, all are marked.
LEMMA NoneLeft ==
  ASSUME Inv, pc = "mark", at \notin UnitsUsed
  PROVE  /\ AllMarked
         /\ \A o \in Owners : \E c \in Columns : Serves(c, o) /\ Free(c)
<1>1. Settled
  BY MarkedIsSettled
<1>2. ASSUME NEW u \in UnitsUsed PROVE u < at
  <2>1. u \in 1 .. D /\ at \in 1 .. (D + 1) /\ D \in Nat
    BY <1>1, UnitTypes, Sizes DEF Settled, Inv, TypeOK
  <2>2. at \notin 1 .. u
    BY <1>1, UnitsFromOne DEF Settled
  <2> QED BY <2>1, <2>2
<1>3. \A u \in UnitsUsed :
        /\ eligible[u] # {}
        /\ eligible[u] = {c \in Columns : Serves(c, OwnerOf(u)) /\ Free(c)}
  BY <1>2 DEF Inv, Marked
<1>4. ASSUME NEW o \in Owners PROVE \E c \in Columns : Serves(c, o) /\ Free(c)
  <2>1. PICK u \in UnitsUsed : OwnerOf(u) = o
    BY <1>1, UnitsAndOwners DEF Settled
  <2> QED BY <1>3, <2>1
<1> QED BY <1>3, <1>4 DEF AllMarked

\* The last of the fitting candidates is one of them.
LEMMA BlockedServes ==
  ASSUME Settled, NEW u, Fitting(u) # {}
  PROVE  \E c \in Fitting(u) : candidates[c].timer = Blocked(u)
<1> DEFINE S == {C - c : c \in Fitting(u)}
<1>1. \A c \in Fitting(u) : c \in Nat /\ c <= C
  BY Sizes DEF Fitting
<1>2. S \subseteq Nat /\ S # {}
  BY <1>1, Sizes
<1>3. PICK m \in S : \A n \in S : m <= n
  BY <1>2, LeastOf
<1>4. PICK c \in Fitting(u) : m = C - c
  BY <1>3
<1>5. ASSUME NEW d \in Fitting(u) PROVE d <= c
  <2>1. C - c <= C - d
    BY <1>3, <1>4
  <2> QED BY <1>1, <2>1, Sizes
<1> QED BY <1>4, <1>5 DEF Blocked

\* Mark keeps the marked units right, and refuses for the least owner that no
\* free candidate serves.
LEMMA MarkInv == ASSUME OwnerInv, Mark PROVE OwnerInv'
<1>1. /\ pc = "mark" /\ at \in UnitsUsed /\ UNCHANGED <<problem, unit>>
      /\ UNCHANGED <<demands, candidates, reservations, ample>>
      /\ Inv
  BY DEF Mark, OwnerInv, problem
<1>2. Settled
  BY <1>1, MarkedIsSettled
<1>3. /\ Fitting(at) = {c \in Columns : Serves(c, OwnerOf(at))}
      /\ Open(at) = {c \in Columns : Serves(c, OwnerOf(at)) /\ Free(c)}
  BY <1>2, OpenServes
<1>4. \A c, o : (Serves(c, o)' <=> Serves(c, o)) /\ (Free(c)' <=> Free(c))
  BY <1>1, SameProblem
<1>5. at \in 1 .. D
  BY <1>1, <1>2, UnitTypes DEF Settled
<1>6. ASSUME Open(at) # {}, eligible' = [eligible EXCEPT ![at] = Open(at)],
             at' = at + 1, UNCHANGED <<pc, result>>
      PROVE  OwnerInv'
  <2>1. UNCHANGED <<pc, status, blamed, detail, plan>>
    BY <1>6 DEF result
  <2>2. at' \in 1 .. (D + 1)
    BY <1>5, <1>6, Sizes
  <2>3. Open(at) \in SUBSET Columns /\ at \in Uses
    BY <1>3, <1>5 DEF Uses
  <2>4. eligible' \in [Uses -> SUBSET Columns]
    BY <1>1, <1>6, <2>3 DEF Inv, TypeOK
  <2>5. TypeOK'
    BY <1>1, <2>1, <2>2, <2>4 DEF Inv, TypeOK
  <2>6. Sorted'
    BY <1>1, SameSorted DEF Inv
  <2>7. OnlyWellFormedSearched'
    BY <1>1, <2>1 DEF Inv, OnlyWellFormedSearched, AllNamed, AllDistinct,
                CandidatesValid, ValidCandidate, ValidBinding, IdentitiesDiffer
  <2>8. Staged'
    BY <1>1, <2>1 DEF Inv, Staged, Opens
  <2>9. UnitsAreOwners'
    BY <1>1, <2>1 DEF Inv, UnitsAreOwners
  <2>10. Marked'
    <3> SUFFICES ASSUME NEW u \in UnitsUsed', u < at'
                 PROVE  /\ eligible'[u] # {}
                        /\ eligible'[u] = {c \in Columns : Serves(c, OwnerOf(u))' /\ Free(c)'}
      BY DEF Marked
    <3>1. OwnerOf(u)' = OwnerOf(u) /\ u \in UnitsUsed
      BY <1>1 DEF OwnerOf, UnitsUsed
    <3>2. {c \in Columns : Serves(c, OwnerOf(u))' /\ Free(c)'}
             = {c \in Columns : Serves(c, OwnerOf(u)) /\ Free(c)}
      BY <1>1, <3>1 DEF Serves, Free, Needs
    <3>3. u \in 1 .. D /\ u \in Uses
      BY <1>2, <3>1, UnitTypes DEF Settled, Uses
    <3>4. CASE u = at
      <4>1. eligible'[u] = Open(at)
        BY <1>1, <1>6, <3>3, <3>4 DEF Inv, TypeOK
      <4> QED BY <1>3, <1>6, <3>2, <3>4, <4>1
    <3>5. CASE u # at
      <4>1. u < at
        BY <1>5, <1>6, <3>3, <3>5
      <4>2. eligible'[u] = eligible[u]
        BY <1>1, <1>6, <3>3, <3>5 DEF Inv, TypeOK
      <4>3. /\ eligible[u] # {}
            /\ eligible[u] = {c \in Columns : Serves(c, OwnerOf(u)) /\ Free(c)}
        BY <1>1, <3>1, <4>1 DEF Inv, Marked
      <4> QED BY <3>2, <4>2, <4>3
    <3> QED BY <3>4, <3>5
  <2>11. Answers'
    BY <1>1, <2>1 DEF Answers, PlanIsSound, RefusalIsJustified, PlanIsPreferred, Answered
  <2> QED BY <2>5, <2>6, <2>7, <2>8, <2>9, <2>10, <2>11 DEF OwnerInv, Inv
<1>7. ASSUME Open(at) = {}, UNCHANGED <<at, eligible>>,
             \/ Fitting(at) = {} /\ Fail("no_candidate", OwnerOf(at), 0)
             \/ Fitting(at) # {} /\ Fail("reserved", OwnerOf(at), Blocked(at))
      PROVE  OwnerInv'
  <2>1. OwnerOf(at) \in Owners /\ OwnerOf(at) \in Nat
    <3>1. OwnerOf(at) \in Owners
      BY <1>1, <1>2, UnitsAndOwners DEF Settled
    <3>2. \A i \in Uses : demands[i].owner \in Nat
      BY <1>1 DEF Inv, TypeOK, UseDemand
    <3> QED BY <3>1, <3>2 DEF Owners
  <2>2. \A o \in Owners : o < OwnerOf(at) =>
          \E c \in Columns : Serves(c, o) /\ Free(c)
    BY <1>1, LesserOwners
  <2>3. Owners' = Owners
    BY <1>1, SameProblem
  <2>4. CASE Fitting(at) = {} /\ Fail("no_candidate", OwnerOf(at), 0)
    <3>1. "no_candidate" \in Refusals /\ 0 \in Nat
      BY DEF Refusals
    <3>2. /\ Inv' /\ PlanIsSound' /\ PlanIsPreferred'
          /\ pc' = "done" /\ status' = "no_candidate" /\ blamed' = OwnerOf(at)
      BY <1>1, <1>7, <2>1, <2>4, <3>1, FailInv
    <3>3. /\ blamed' \in Owners'
          /\ \A c \in Columns : ~Serves(c, blamed')
          /\ \A o \in Owners' : o < blamed' => \E c \in Columns : Serves(c, o) /\ Free(c)
      BY <1>3, <2>1, <2>2, <2>3, <2>4, <3>2
    <3>4. RefusalIsJustified'
      BY <1>4, <3>2, <3>3 DEF RefusalIsJustified, Answered
    <3> QED BY <3>2, <3>4 DEF OwnerInv, Answers
  <2>5. CASE Fitting(at) # {} /\ Fail("reserved", OwnerOf(at), Blocked(at))
    <3>1. PICK c \in Fitting(at) : candidates[c].timer = Blocked(at)
      BY <1>2, <2>5, BlockedServes
    <3>2. c \in Columns /\ Serves(c, OwnerOf(at))
      BY <1>3, <3>1
    <3>3. Blocked(at) \in Nat
      BY <1>1, <3>1, <3>2 DEF Inv, TypeOK, Candidate
    <3>4. "reserved" \in Refusals
      BY DEF Refusals
    <3>5. /\ Inv' /\ PlanIsSound' /\ PlanIsPreferred'
          /\ pc' = "done" /\ status' = "reserved"
          /\ blamed' = OwnerOf(at) /\ detail' = Blocked(at)
      BY <1>1, <1>7, <2>1, <2>5, <3>3, <3>4, FailInv
    <3>6. /\ blamed' \in Owners'
          /\ \A d \in Columns : ~(Serves(d, blamed') /\ Free(d))
          /\ \A o \in Owners' : o < blamed' => \E d \in Columns : Serves(d, o) /\ Free(d)
          /\ c \in Columns /\ Serves(c, blamed') /\ candidates'[c].timer = detail'
      BY <1>1, <1>3, <1>7, <2>1, <2>2, <2>3, <3>1, <3>2, <3>5
    <3>7. RefusalIsJustified'
      BY <1>4, <3>5, <3>6 DEF RefusalIsJustified, Answered
    <3> QED BY <3>5, <3>7 DEF OwnerInv, Answers
  <2> QED BY <1>7, <2>4, <2>5
<1> QED BY <1>6, <1>7 DEF Mark

\* The first way of the search is an assignment, and the preferred one.
LEMMA SelectedAnswers ==
  ASSUME OwnerInv, pc = "mark", at \notin UnitsUsed, UNCHANGED problem,
         NEW s \in SearchWays, ComesFirst(s, SearchWays), pc' = "done",
         plan' = [i \in Uses |-> candidates[s[unit[i]]].identity],
         UNCHANGED status
  PROVE  Answers'
<1>1. Inv /\ Settled /\ AllMarked
  BY MarkedIsSettled, NoneLeft DEF OwnerInv
<1>2. UNCHANGED <<demands, candidates, reservations>>
  BY DEF problem
<1>3. Assignments' = Assignments /\ Owners' = Owners
  BY SameProblem
<1>4. /\ \A i \in Uses : plan'[i] = candidates[s[unit[i]]].identity
      /\ \A i \in Uses : /\ demands[i].owner \in Owners
                         /\ UnitOf(demands[i].owner) = unit[i]
      /\ \A u \in UnitsUsed : OwnerOf(u) \in Owners
  BY <1>1, UnitOfOwner, UnitsAndOwners DEF Settled
<1>5. PlanIsSound'
  <2>1. AssignmentOf(s) \in Assignments
    BY <1>1, WayAssigns
  <2>2. \A i \in Uses : AssignmentOf(s)[demands[i].owner] = s[unit[i]]
    BY <1>4 DEF AssignmentOf
  <2>3. PICK a \in Assignments :
          \A i \in Uses : plan'[i] = candidates[a[demands[i].owner]].identity
    BY <1>4, <2>1, <2>2
  <2> QED BY <1>2, <1>3, <2>3 DEF PlanIsSound
<1>6. PlanIsPreferred'
  <2> SUFFICES ASSUME NEW a \in Assignments, NEW b \in Assignments,
                      \A i \in Uses :
                        plan'[i] = candidates[a[demands[i].owner]].identity,
                      NEW o \in Owners, \A q \in Owners : q < o => a[q] = b[q]
               PROVE  ~Less(candidates[b[o]], candidates[a[o]])
    BY <1>2, <1>3 DEF PlanIsPreferred, Less
  <2>1. WayOf(a) = s
    BY <1>1, <1>4, SameWay
  <2>2. WayOf(b) \in SearchWays
    BY <1>1, AssignmentIsWay
  <2>3. a \in [Owners -> Columns] /\ b \in [Owners -> Columns]
    BY DEF Assignments
  <2>4. PICK u \in UnitsUsed : OwnerOf(u) = o
    BY <1>1, UnitsAndOwners DEF Settled
  <2>5. \A v \in UnitsUsed : v < u => s[v] = WayOf(b)[v]
    <3>1. ASSUME NEW v \in UnitsUsed, v < u PROVE s[v] = WayOf(b)[v]
      <4>1. OwnerOf(v) \in Owners /\ OwnerOf(v) < o
        BY <1>1, <2>4, <3>1, UnitsAndOwners DEF Settled
      <4>2. a[OwnerOf(v)] = b[OwnerOf(v)]
        BY <4>1
      <4>3. WayOf(a)[v] = WayOf(b)[v]
        BY <4>2 DEF WayOf
      <4> QED BY <2>1, <4>3
    <3> QED BY <3>1
  <2>6. DOMAIN s = UnitsUsed
    BY DEF SearchWays
  <2>7. s[u] <= WayOf(b)[u]
    BY <2>2, <2>4, <2>5, <2>6 DEF ComesFirst
  <2>8. WayOf(a)[u] = a[o] /\ WayOf(b)[u] = b[o]
    BY <2>4 DEF WayOf
  <2>9. a[o] <= b[o] /\ a[o] \in Columns /\ b[o] \in Columns
    BY <2>1, <2>3, <2>7, <2>8
  <2>10. CASE a[o] = b[o]
    <3>1. candidates[b[o]] \in Candidate
      BY <1>1, <2>9 DEF Settled
    <3>2. ~Less(candidates[b[o]], candidates[b[o]])
      BY <3>1 DEF Less, Candidate
    <3> QED BY <2>10, <3>2
  <2>11. CASE a[o] # b[o]
    <3>1. a[o] \in 1 .. (b[o] - 1)
      BY <2>9, <2>11, Sizes
    <3> QED BY <1>1, <2>9, <3>1 DEF Settled, InOrder
  <2> QED BY <2>10, <2>11
<1>7. status' = "success"
  BY <1>1 DEF Inv, Staged
<1>8. RefusalIsJustified'
  BY <1>7 DEF RefusalIsJustified, Answered
<1> QED BY <1>5, <1>6, <1>8 DEF Answers

\* Search answers the preferred plan, or says truly why there is none.
LEMMA SearchInv == ASSUME OwnerInv, Search PROVE OwnerInv'
<1>1. /\ pc = "mark" /\ at \notin UnitsUsed /\ Inv
      /\ UNCHANGED <<problem, unit, at, eligible>>
      /\ \/ \E s \in SearchWays :
              /\ ComesFirst(s, SearchWays)
              /\ plan' = [i \in Uses |-> candidates[s[unit[i]]].identity]
              /\ pc' = "done"
              /\ UNCHANGED <<status, blamed, detail>>
         \/ SearchWays = {} /\ Fail("conflict", 0, 0)
         \/ ~ample /\ Fail("exhausted", 0, 0)
  BY TheWays DEF Search, OwnerInv
<1>2. Settled /\ AllMarked /\ \A o \in Owners : \E c \in Columns : Serves(c, o) /\ Free(c)
  BY <1>1, MarkedIsSettled, NoneLeft
<1>3. ASSUME NEW s \in SearchWays, ComesFirst(s, SearchWays),
             plan' = [i \in Uses |-> candidates[s[unit[i]]].identity],
             pc' = "done", UNCHANGED <<status, blamed, detail>>
      PROVE  OwnerInv'
  <2>1. Answers'
    BY <1>1, <1>3, SelectedAnswers
  <2>2. UNCHANGED <<demands, candidates, reservations, ample, unit, at, eligible>>
    BY <1>1 DEF problem
  <2>3. plan' \in [Uses -> Nat]
    <3>1. ASSUME NEW i \in Uses PROVE candidates[s[unit[i]]].identity \in Nat
      <4>1. unit[i] \in UnitsUsed
        BY DEF UnitsUsed
      <4>2. s[unit[i]] \in Columns
        BY <4>1 DEF SearchWays
      <4> QED BY <1>1, <4>2 DEF Inv, TypeOK, Candidate
    <3> QED BY <1>3, <3>1
  <2>4. TypeOK'
    BY <1>1, <1>3, <2>2, <2>3 DEF Inv, TypeOK
  <2>5. Sorted'
    BY <1>1, SameSorted DEF Inv
  <2>6. Inv'
    BY <1>3, <2>4, <2>5 DEF Inv, OnlyWellFormedSearched, Staged, UnitsAreOwners, Marked
  <2> QED BY <2>1, <2>6 DEF OwnerInv
<1>4. /\ Assignments' = Assignments /\ Owners' = Owners
      /\ \A c, o : (Serves(c, o)' <=> Serves(c, o)) /\ (Free(c)' <=> Free(c))
  BY <1>1, SameProblem
<1>5. CASE SearchWays = {} /\ Fail("conflict", 0, 0)
  <2>1. "conflict" \in Refusals /\ 0 \in Nat
    BY DEF Refusals
  <2>2. /\ Inv' /\ PlanIsSound' /\ PlanIsPreferred'
        /\ pc' = "done" /\ status' = "conflict"
    BY <1>1, <1>5, <2>1, FailInv
  <2>3. Assignments = {}
    <3>1. ASSUME NEW a \in Assignments PROVE FALSE
      BY <1>2, <1>5, AssignmentIsWay
    <3> QED BY <3>1
  <2>4. RefusalIsJustified'
    BY <1>2, <1>4, <2>2, <2>3 DEF RefusalIsJustified, Answered
  <2> QED BY <2>2, <2>4 DEF OwnerInv, Answers
<1>6. CASE ~ample /\ Fail("exhausted", 0, 0)
  <2>1. "exhausted" \in Refusals /\ 0 \in Nat
    BY DEF Refusals
  <2>2. /\ Inv' /\ PlanIsSound' /\ PlanIsPreferred'
        /\ pc' = "done" /\ status' = "exhausted"
    BY <1>1, <1>6, <2>1, FailInv
  <2>3. ~ample'
    BY <1>1, <1>6 DEF problem
  <2>4. RefusalIsJustified'
    BY <1>2, <1>4, <2>2, <2>3 DEF RefusalIsJustified, Answered
  <2> QED BY <2>2, <2>4 DEF OwnerInv, Answers
<1> QED BY <1>1, <1>3, <1>5, <1>6

\* A call that has returned keeps its answer.
LEMMA StutterInv == ASSUME OwnerInv, UNCHANGED vars PROVE OwnerInv'
<1>1. /\ UNCHANGED <<demands, candidates, reservations, ample>>
      /\ UNCHANGED <<pc, unit, at, eligible, status, blamed, detail, plan>>
      /\ UNCHANGED problem
  BY DEF vars, problem
<1>2. /\ Assignments' = Assignments /\ Owners' = Owners
      /\ \A c, o : (Serves(c, o)' <=> Serves(c, o)) /\ (Free(c)' <=> Free(c))
      /\ AllNamed' = AllNamed /\ AllDistinct' = AllDistinct
  BY <1>1, SameProblem
<1>3. TypeOK'
  BY <1>1 DEF OwnerInv, Inv, TypeOK
<1>4. Sorted' /\ Staged' /\ UnitsAreOwners'
  BY <1>1 DEF OwnerInv, Inv, Sorted, InOrder, Less, KeyLess, Staged, Opens, UnitsAreOwners
<1>5. OnlyWellFormedSearched'
  <2>1. CandidatesValid' <=> CandidatesValid
    BY <1>1 DEF CandidatesValid, ValidCandidate, ValidBinding
  <2>2. IdentitiesDiffer' <=> IdentitiesDiffer
    BY <1>1 DEF IdentitiesDiffer
  <2> QED BY <1>1, <1>2, <2>1, <2>2 DEF OwnerInv, Inv, OnlyWellFormedSearched
<1>6. Marked'
  <2>1. UnitsUsed' = UnitsUsed /\ \A u : OwnerOf(u)' = OwnerOf(u)
    BY <1>1 DEF UnitsUsed, OwnerOf
  <2>2. ASSUME NEW u
        PROVE  {c \in Columns : Serves(c, OwnerOf(u))' /\ Free(c)'}
                 = {c \in Columns : Serves(c, OwnerOf(u)) /\ Free(c)}
    BY <1>1, <2>1 DEF Serves, Free, Needs
  <2> QED BY <1>1, <2>1, <2>2 DEF OwnerInv, Inv, Marked
<1>7. PlanIsSound'
  BY <1>1, <1>2 DEF OwnerInv, Answers, PlanIsSound, Answered
<1>8. PlanIsPreferred'
  BY <1>1, <1>2 DEF OwnerInv, Answers, PlanIsPreferred, Answered, Less
<1>9. RefusalIsJustified'
  BY <1>1, <1>2 DEF OwnerInv, Answers, RefusalIsJustified, Answered
<1> QED BY <1>3, <1>4, <1>5, <1>6, <1>7, <1>8, <1>9 DEF OwnerInv, Inv, Answers

\* Together.
LEMMA NextInv == OwnerInv /\ [Next]_vars => OwnerInv'
<1> SUFFICES ASSUME OwnerInv, [Next]_vars PROVE OwnerInv'
  OBVIOUS
<1>1. CASE SortProblem
  BY <1>1, SortProblemInv
<1>2. CASE CheckDemands
  BY <1>2, CheckDemandsInv
<1>3. CASE CheckCandidates
  BY <1>3, CheckCandidatesInv
<1>4. CASE Group
  BY <1>4, GroupInv
<1>5. CASE Mark
  BY <1>5, MarkInv
<1>6. CASE Search
  BY <1>6, SearchInv
<1>7. CASE Returned
  BY <1>7, StutterInv DEF Returned
<1>8. CASE UNCHANGED vars
  BY <1>8, StutterInv
<1> QED BY <1>1, <1>2, <1>3, <1>4, <1>5, <1>6, <1>7, <1>8 DEF Next

LEMMA OwnerInvariant == Spec => []OwnerInv
<1>1. Init => OwnerInv
  BY InitInv
<1>2. OwnerInv /\ [Next]_vars => OwnerInv'
  BY NextInv
<1> QED BY <1>1, <1>2, PTL DEF Spec

-----------------------------------------------------------------------------
(***************************************************************************)
(* The types, and what each part of solve takes the problem for: sorted    *)
(* lists, distinct uses, valid candidates, units that are the owners.      *)
(***************************************************************************)
THEOREM OwnerAllocatorInvariant == Spec => []Inv
<1>1. OwnerInv => Inv
  BY DEF OwnerInv
<1> QED BY <1>1, OwnerInvariant, PTL

(***************************************************************************)
(* A plan of solve gives every owner one candidate that serves all its     *)
(* uses and shares nothing with a reservation or another owner's, for any  *)
(* number of uses and candidates, in whatever order they are declared.     *)
(***************************************************************************)
THEOREM OwnerPlanIsSound == Spec => []PlanIsSound
<1>1. OwnerInv => PlanIsSound
  BY DEF OwnerInv, Answers
<1> QED BY <1>1, OwnerInvariant, PTL

(***************************************************************************)
(* A refusal of solve is justified and blames the right owner: nothing     *)
(* that could be assigned is refused, unless the budget was not ample.     *)
(***************************************************************************)
THEOREM OwnerRefusalIsJustified == Spec => []RefusalIsJustified
<1>1. OwnerInv => RefusalIsJustified
  BY DEF OwnerInv, Answers
<1> QED BY <1>1, OwnerInvariant, PTL

(***************************************************************************)
(* The plan of solve is the preferred one, owner by owner, in whatever     *)
(* order the backend enumerates its candidates.                            *)
(***************************************************************************)
THEOREM OwnerPlanIsPreferred == Spec => []PlanIsPreferred
<1>1. OwnerInv => PlanIsPreferred
  BY DEF OwnerInv, Answers
<1> QED BY <1>1, OwnerInvariant, PTL

=============================================================================
