----------------------- MODULE CacheSetAnalysisProofs -----------------------
(***************************************************************************)
(* For every associativity, every set of tags and every number of paths:   *)
(* the must and may analyses of an LRU set enclose the cache they analyse, *)
(* hence every classification they give is right and the assertion in the  *)
(* must update never fails.                                                *)
(*                                                                         *)
(* The inductive invariant is the type invariant with the two bounds,      *)
(* MustSound and MaySound.  ClassificationSound alone is not inductive: a  *)
(* hit says nothing of the ages of the other lines, which the next miss    *)
(* evicts by age.                                                          *)
(***************************************************************************)
EXTENDS CacheSetAnalysis, LruCacheProofs

-----------------------------------------------------------------------------
(* The specification.                                                      *)

IInv == TypeOK /\ MustSound /\ MaySound

LEMMA IInvPathwise ==
    IInv <=> /\ conc \in [Paths -> LruStates]
             /\ abs \in [Paths -> CacheSetDomain]
             /\ \A r \in Paths : Describes(abs[r], conc[r])
BY DEF IInv, TypeOK, MustSound, MaySound, Describes, MustDescribes,
       MayDescribes

LEMMA InitIInv == Init => IInv
<1> SUFFICES ASSUME Init PROVE IInv
    OBVIOUS
<1> USE AssocAssumption
    DEF Ages, LruStates, CacheSetDomain, MayDomain, Describes, MustDescribes,
        MayDescribes, MustTop
<1>1. CASE /\ conc \in [Paths -> LruStates]
           /\ abs = [r \in Paths |-> UnknownCache]
    <2>1. UnknownCache \in CacheSetDomain
        BY DEF UnknownCache, MayTop
    <2>2. \A d \in LruStates : Describes(UnknownCache, d)
        BY DEF UnknownCache, MayTop
    <2>3. QED
        BY <1>1, <2>1, <2>2, IInvPathwise
<1>2. CASE /\ conc = [r \in Paths |-> [t \in Tags |-> Assoc]]
           /\ abs = [r \in Paths |-> EmptyCache]
    <2>1. EmptyCache \in CacheSetDomain
        BY DEF EmptyCache, MayEmpty
    <2>2. [t \in Tags |-> Assoc] \in LruStates
        BY DEF Cached
    <2>3. Describes(EmptyCache, [t \in Tags |-> Assoc])
        BY DEF EmptyCache, MayEmpty
    <2>4. QED
        BY <1>2, <2>1, <2>2, <2>3, IInvPathwise
<1>3. QED
    BY <1>1, <1>2 DEF Init

LEMMA NextIInv == IInv /\ [Next]_vars => IInv'
<1> SUFFICES ASSUME IInv, [Next]_vars PROVE IInv'
    OBVIOUS
<1>1. /\ conc \in [Paths -> LruStates]
      /\ abs \in [Paths -> CacheSetDomain]
      /\ \A r \in Paths : Describes(abs[r], conc[r])
    BY IInvPathwise
<1>2. (/\ conc' \in [Paths -> LruStates]
       /\ abs' \in [Paths -> CacheSetDomain]
       /\ \A r \in Paths : Describes(abs'[r], conc'[r])) => IInv'
    BY DEF IInv, TypeOK, MustSound, MaySound, Describes, MustDescribes,
           MayDescribes
<1>3. ASSUME NEW r \in Paths, NEW t \in Tags, Access(r, t)
      PROVE  IInv'
    <2>1. PICK assumption \in {"UNKNOWN", Outcome(r, t)} :
             /\ conc' = [conc EXCEPT ![r] = Touch(@, t)]
             /\ abs' = [abs EXCEPT ![r] = Update(@, t, assumption)]
        BY <1>3 DEF Access
    <2>2. AssumesHit(assumption) => Cached(conc[r], t)
        BY DEF AssumesHit, Outcome, HitName, MissName
    <2>3. Touch(conc[r], t) \in LruStates
        BY <1>1, TouchLru
    <2>4. /\ Update(abs[r], t, assumption) \in CacheSetDomain
          /\ Describes(Update(abs[r], t, assumption), Touch(conc[r], t))
        BY <1>1, <2>2, UpdateSound
    <2>5. QED
        BY <1>1, <1>2, <2>1, <2>3, <2>4
<1>4. ASSUME NEW r \in Paths, NEW S \in AddressSets, UnknownAccess(r, S)
      PROVE  IInv'
    <2>1. S \in SUBSET Tags
        BY AddressSetsAssumption
    <2>2. /\ PotentialUpdate(abs[r], S) \in CacheSetDomain
          /\ Describes(PotentialUpdate(abs[r], S), conc[r])
          /\ \A t \in S :
                Describes(PotentialUpdate(abs[r], S), Touch(conc[r], t))
        BY <1>1, <2>1, PotentialUpdateSound
    <2>3. abs' = [abs EXCEPT ![r] = PotentialUpdate(abs[r], S)]
        BY <1>4 DEF UnknownAccess
    <2>4. CASE UNCHANGED conc
        BY <1>1, <1>2, <2>2, <2>3, <2>4
    <2>5. ASSUME NEW t \in S, conc' = [conc EXCEPT ![r] = Touch(@, t)]
          PROVE  IInv'
        <3>1. Touch(conc[r], t) \in LruStates
            BY <1>1, <2>1, TouchLru
        <3>2. QED
            BY <1>1, <1>2, <2>2, <2>3, <2>5, <3>1
    <2>6. QED
        BY <1>4, <2>4, <2>5 DEF UnknownAccess
<1>5. ASSUME NEW r \in Paths, NEW s \in Paths, Meet(r, s)
      PROVE  IInv'
    <2>1. /\ Join(abs[r], abs[s]) \in CacheSetDomain
          /\ Describes(Join(abs[r], abs[s]), conc[r])
          /\ Describes(Join(abs[r], abs[s]), conc[s])
        BY <1>1, JoinSound
    <2>2. QED
        BY <1>1, <1>2, <1>5, <2>1 DEF Meet
<1>6. CASE UNCHANGED vars
    BY <1>1, <1>2, <1>6 DEF vars
<1>7. QED
    BY <1>3, <1>4, <1>5, <1>6 DEF Next

(* Types are kept: no sequence of accesses and joins leaves the domains.   *)
THEOREM TypesCorrect == Spec => []TypeOK
<1>1. Spec => []IInv
    BY InitIInv, NextIInv, PTL DEF Spec
<1>2. IInv => TypeOK
    BY DEF IInv
<1>3. QED
    BY <1>1, <1>2, PTL

(* The maximal ages are never below the ages in the cache.                 *)
THEOREM MustIsSound == Spec => []MustSound
<1>1. Spec => []IInv
    BY InitIInv, NextIInv, PTL DEF Spec
<1>2. IInv => MustSound
    BY DEF IInv
<1>3. QED
    BY <1>1, <1>2, PTL

(* The minimal ages are never above the ages in the cache.                 *)
THEOREM MayIsSound == Spec => []MaySound
<1>1. Spec => []IInv
    BY InitIInv, NextIInv, PTL DEF Spec
<1>2. IInv => MaySound
    BY DEF IInv
<1>3. QED
    BY <1>1, <1>2, PTL

(* Every hit classification is a line that is in the cache and every miss  *)
(* classification one that is not.                                         *)
THEOREM ClassificationIsSound == Spec => []ClassificationSound
<1>1. IInv => ClassificationSound
    BY IInvPathwise, ClassifySound DEF ClassificationSound
<1>2. Spec => []IInv
    BY InitIInv, NextIInv, PTL DEF Spec
<1>3. QED
    BY <1>1, <1>2, PTL

(* "Full cache and addr not in there, cannot assume a hit" never fails on  *)
(* an access that hits.                                                    *)
THEOREM HitAssumptionLegal == Spec => []HitAssumptionIsLegal
<1>1. IInv => HitAssumptionIsLegal
    <2> SUFFICES ASSUME IInv, NEW r \in Paths, NEW t \in Tags,
                        Cached(conc[r], t)
                 PROVE  HitAssumptionFits(abs[r].must, t)
        BY DEF HitAssumptionIsLegal
    <2>1. /\ conc[r] \in LruStates
          /\ abs[r] \in CacheSetDomain
          /\ Describes(abs[r], conc[r])
        BY IInvPathwise
    <2>2. abs[r].must \in [Tags -> Ages] /\ MustDescribes(abs[r].must, conc[r])
        BY <2>1 DEF CacheSetDomain, Describes
    <2>3. QED
        BY <2>1, <2>2, RoomForHit
<1>2. Spec => []IInv
    BY InitIInv, NextIInv, PTL DEF Spec
<1>3. QED
    BY <1>1, <1>2, PTL

(* At most i + 1 lines have a maximal age of i.                            *)
THEOREM StackIsBounded == Spec => []StackBounded
<1>1. IInv => StackBounded
    <2> SUFFICES ASSUME IInv, NEW r \in Paths, NEW i \in 0 .. Assoc - 1
                 PROVE  Cardinality({t \in Tags : abs[r].must[t] <= i}) <= i + 1
        BY DEF StackBounded
    <2> DEFINE Y == {t \in Tags : abs[r].must[t] <= i}
               age == [t \in Y |-> conc[r][t]]
    <2>1. /\ conc[r] \in LruStates
          /\ abs[r].must \in [Tags -> Ages]
          /\ \A t \in Tags : conc[r][t] <= abs[r].must[t]
        BY IInvPathwise DEF CacheSetDomain, Describes, MustDescribes
    <2>2. age \in Injection(Y, 0 .. i)
        BY <2>1, AssocAssumption
           DEF LruStates, Ages, Cached, Injection, IsInjective
    <2>3. IsFiniteSet(0 .. i) /\ Cardinality(0 .. i) = i + 1
        BY FS_Interval
    <2>4. QED
        BY <2>2, <2>3, FS_Injection
<1>2. Spec => []IInv
    BY InitIInv, NextIInv, PTL DEF Spec
<1>3. QED
    BY <1>1, <1>2, PTL

(* Where n lines have a maximal age below n, they are the n youngest ones: *)
(* their ages fill 0 .. n - 1, so no other line can have one of them.      *)
THEOREM SubStackIsConcrete == Spec => []SubStackConcrete
<1>1. IInv => SubStackConcrete
    <2> SUFFICES ASSUME IInv, NEW r \in Paths,
                        NEW n \in ConcreteSubStackSizes(abs[r].must, Assoc)
                 PROVE  {t \in Tags : conc[r][t] < n}
                          = TagsWithMaxMaxAge(abs[r].must, n - 1)
        BY DEF SubStackConcrete
    <2> DEFINE Y == TagsWithMaxMaxAge(abs[r].must, n - 1)
               age == [t \in Y |-> conc[r][t]]
    <2>1. n \in 1 .. Assoc /\ Cardinality(Y) = n
        BY AssocAssumption DEF ConcreteSubStackSizes
    <2>2. /\ conc[r] \in LruStates
          /\ abs[r].must \in [Tags -> Ages]
          /\ \A t \in Tags : conc[r][t] <= abs[r].must[t]
        BY IInvPathwise DEF CacheSetDomain, Describes, MustDescribes
    <2>3. \A t \in Y : t \in Tags /\ conc[r][t] \in 0 .. n - 1
        BY <2>1, <2>2, AssocAssumption DEF TagsWithMaxMaxAge, LruStates, Ages
    <2>4. age \in Injection(Y, 0 .. n - 1)
        BY <2>1, <2>2, <2>3, AssocAssumption
           DEF LruStates, Ages, Cached, Injection, IsInjective
    <2>5. IsFiniteSet(0 .. n - 1) /\ Cardinality(0 .. n - 1) = n
        BY <2>1, AssocAssumption, FS_Interval
    <2>6. age \in Surjection(Y, 0 .. n - 1)
        BY <2>1, <2>4, <2>5, FS_Injection
    <2>7. ASSUME NEW t \in Tags, conc[r][t] < n
          PROVE  t \in Y
        <3>1. conc[r][t] \in 0 .. n - 1
            BY <2>1, <2>2, <2>7, AssocAssumption DEF LruStates, Ages
        <3>2. PICK y \in Y : conc[r][y] = conc[r][t]
            BY <2>6, <3>1 DEF Surjection
        <3>3. y = t
            BY <2>1, <2>2, <2>3, <2>7, <3>2, AssocAssumption
               DEF LruStates, Ages, Cached
        <3>4. QED
            BY <3>2, <3>3
    <2>8. QED
        BY <2>1, <2>3, <2>7
<1>2. Spec => []IInv
    BY InitIInv, NextIInv, PTL DEF Spec
<1>3. QED
    BY <1>1, <1>2, PTL
-----------------------------------------------------------------------------
(* Precision.  A state is above another one where its must ages are larger *)
(* and its may ages smaller.                                               *)
LEMMA LessEqualByAge ==
    ASSUME NEW x \in CacheSetDomain, NEW y \in CacheSetDomain
    PROVE  LessEqual(x, y) <=>
              /\ \A s \in Tags : x.must[s] <= y.must[s]
              /\ \A s \in Tags : y.may.age[s] <= x.may.age[s]
              /\ y.may.implicit <= x.may.implicit
<1> USE AssocAssumption DEF CacheSetDomain, MayDomain, Ages
<1>1. Join(x, y) = y <=> /\ MustJoin(x.must, y.must) = y.must
                         /\ MayJoin(x.may, y.may) = y.may
    BY DEF Join
<1>2. MustJoin(x.must, y.must) = y.must <=>
          \A s \in Tags : x.must[s] <= y.must[s]
    <2>1. MustJoin(x.must, y.must) = y.must <=>
              \A s \in Tags : MustJoin(x.must, y.must)[s] = y.must[s]
        BY DEF MustJoin
    <2>2. QED
        BY <2>1 DEF MustJoin
<1>3. MayJoin(x.may, y.may) = y.may <=>
          /\ \A s \in Tags : y.may.age[s] <= x.may.age[s]
          /\ y.may.implicit <= x.may.implicit
    <2>1. MayJoin(x.may, y.may) = y.may <=>
              /\ MayJoin(x.may, y.may).age = y.may.age
              /\ MayJoin(x.may, y.may).implicit = y.may.implicit
        BY DEF MayJoin
    <2>2. MayJoin(x.may, y.may).age = y.may.age <=>
              \A s \in Tags : MinOf(x.may.age[s], y.may.age[s]) = y.may.age[s]
        BY DEF MayJoin
    <2>3. QED
        BY <2>1, <2>2 DEF MayJoin, MinOf
<1>4. QED
    BY <1>1, <1>2, <1>3 DEF LessEqual

(* Without an assumption no hit is taken for granted beyond the bounds.    *)
LEMMA AccessedAgeUnassumed ==
    ASSUME NEW x \in CacheSetDomain, NEW t \in Tags
    PROVE  AccessedAge(x.must, t, Reduced(x, t, "UNKNOWN")) = x.must[t]
<1>1. CASE x.must[t] = Assoc
    <2>1. Reduced(x, t, "UNKNOWN") \in {"MISS", "UNKNOWN"}
        BY <1>1, AssocAssumption
           DEF Reduced, Classify, MustClassify, MayClassify
    <2>2. QED
        BY <1>1, <2>1 DEF AccessedAge, AssumesHit
<1>2. QED
    BY <1>1 DEF AccessedAge

(* What is above before an access is above after it.                       *)
LEMMA UpdateMonotone ==
    ASSUME NEW x \in CacheSetDomain, NEW y \in CacheSetDomain, NEW t \in Tags,
           Update(x, t, "UNKNOWN") \in CacheSetDomain,
           Update(y, t, "UNKNOWN") \in CacheSetDomain,
           LessEqual(x, y)
    PROVE  LessEqual(Update(x, t, "UNKNOWN"), Update(y, t, "UNKNOWN"))
<1> DEFINE u == Update(x, t, "UNKNOWN")
           v == Update(y, t, "UNKNOWN")
<1>1. /\ \A s \in Tags : x.must[s] <= y.must[s]
      /\ \A s \in Tags : y.may.age[s] <= x.may.age[s]
      /\ y.may.implicit <= x.may.implicit
    BY LessEqualByAge
<1>2. \A s \in Tags :
          /\ u.must[s] = IF s = t THEN 0 ELSE IF x.must[s] < x.must[t]
                         THEN x.must[s] + 1 ELSE x.must[s]
          /\ v.must[s] = IF s = t THEN 0 ELSE IF y.must[s] < y.must[t]
                         THEN y.must[s] + 1 ELSE y.must[s]
    BY AccessedAgeUnassumed DEF Update, MustUpdate
<1>3. /\ \A s \in Tags :
            /\ u.may.age[s] = IF s = t THEN 0
                              ELSE AgedBy(x.may.age[s], x.may.age[t])
            /\ v.may.age[s] = IF s = t THEN 0
                              ELSE AgedBy(y.may.age[s], y.may.age[t])
      /\ u.may.implicit = AgedBy(x.may.implicit, x.may.age[t])
      /\ v.may.implicit = AgedBy(y.may.implicit, y.may.age[t])
    BY DEF Update, MayUpdate
<1>4. \A a, b, c, d \in Ages : a <= b /\ c <= d => AgedBy(a, c) <= AgedBy(b, d)
    BY AssocAssumption DEF AgedBy, Ages
<1>5. /\ \A s \in Tags : x.must[s] \in Ages /\ y.must[s] \in Ages
      /\ \A s \in Tags : x.may.age[s] \in Ages /\ y.may.age[s] \in Ages
      /\ x.may.implicit \in Ages /\ y.may.implicit \in Ages
    BY DEF CacheSetDomain, MayDomain
<1>6. \A s \in Tags : u.must[s] <= v.must[s]
    BY <1>1, <1>2, <1>5, AssocAssumption DEF Ages
<1>7. \A s \in Tags : v.may.age[s] <= u.may.age[s]
    BY <1>1, <1>3, <1>4, <1>5
<1>8. v.may.implicit <= u.may.implicit
    BY <1>1, <1>3, <1>4, <1>5
<1> HIDE DEF u, v
<1>9. LessEqual(u, v)
    BY <1>6, <1>7, <1>8, LessEqualByAge DEF u, v
<1>10. QED
    BY <1>9 DEF u, v

(* The same for an access that may have gone anywhere: where y knows of no *)
(* explicit tag it has no age to lose.                                     *)
LEMMA PotentialUpdateMonotone ==
    ASSUME NEW x \in CacheSetDomain, NEW y \in CacheSetDomain,
           NEW S \in SUBSET Tags,
           PotentialUpdate(x, S) \in CacheSetDomain,
           PotentialUpdate(y, S) \in CacheSetDomain,
           \A s \in Tags : y.may.age[s] <= y.may.implicit,
           LessEqual(x, y)
    PROVE  LessEqual(PotentialUpdate(x, S), PotentialUpdate(y, S))
<1> DEFINE u == PotentialUpdate(x, S)
           v == PotentialUpdate(y, S)
<1> USE AssocAssumption DEF Ages
<1>1. /\ \A s \in Tags : x.must[s] <= y.must[s]
      /\ \A s \in Tags : y.may.age[s] <= x.may.age[s]
      /\ y.may.implicit <= x.may.implicit
    BY LessEqualByAge
<1>2. /\ \A s \in Tags : x.must[s] \in Ages /\ y.must[s] \in Ages
      /\ \A s \in Tags : x.may.age[s] \in Ages /\ y.may.age[s] \in Ages
      /\ x.may.implicit \in Ages /\ y.may.implicit \in Ages
    BY DEF CacheSetDomain, MayDomain
<1>3. u.may = MayPotentialUpdate(x.may, S) /\ v.may = MayPotentialUpdate(y.may, S)
    BY DEF PotentialUpdate
<1>4. \A s \in Tags : u.must[s] <= v.must[s]
    BY <1>1, <1>2 DEF PotentialUpdate, MustPotentialUpdate
<1>5. /\ \A s \in Tags : v.may.age[s] <= u.may.age[s]
      /\ v.may.implicit <= u.may.implicit
    <2>1. CASE y.may.implicit = 0
        <3>1. v.may = y.may
            BY <1>3, <2>1 DEF MayPotentialUpdate
        <3>2. /\ \A s \in Tags : u.may.age[s] >= 0
              /\ u.may.implicit >= 0
            BY DEF CacheSetDomain, MayDomain
        <3>3. \A s \in Tags : y.may.age[s] = 0
            BY <1>2, <2>1
        <3>4. QED
            BY <2>1, <3>1, <3>2, <3>3
    <2>2. CASE y.may.implicit # 0 /\ Cardinality(S) > MaxWorthwhileTags
        <3>1. v.may = MayTop
            BY <1>3, <2>2 DEF MayPotentialUpdate
        <3>2. /\ \A s \in Tags : u.may.age[s] >= 0
              /\ u.may.implicit >= 0
            BY DEF CacheSetDomain, MayDomain
        <3>3. QED
            BY <3>1, <3>2 DEF MayTop
    <2>3. CASE y.may.implicit # 0 /\ ~(Cardinality(S) > MaxWorthwhileTags)
        <3>1. x.may.implicit # 0
            BY <1>1, <1>2, <2>3
        <3>2. QED
            BY <1>1, <1>2, <1>3, <2>3, <3>1 DEF MayPotentialUpdate
    <2>4. QED
        BY <2>1, <2>2, <2>3
<1> HIDE DEF u, v
<1>6. LessEqual(u, v)
    BY <1>4, <1>5, LessEqualByAge DEF u, v
<1>7. QED
    BY <1>6 DEF u, v

(* An update never turns a state that covers another one into one that     *)
(* does not: what the fixpoint iteration relies on.                        *)
THEOREM UpdatesAreMonotone == Spec => []UpdateIsMonotone
<1>1. IInv => UpdateIsMonotone
    <2> SUFFICES ASSUME IInv, NEW r \in Paths, NEW q \in Paths, NEW t \in Tags,
                        LessEqual(abs[r], abs[q])
                 PROVE  /\ LessEqual(Update(abs[r], t, "UNKNOWN"),
                                     Update(abs[q], t, "UNKNOWN"))
                        /\ \A S \in AddressSets :
                              LessEqual(PotentialUpdate(abs[r], S),
                                        PotentialUpdate(abs[q], S))
        BY DEF UpdateIsMonotone
    <2>1. \A p \in {r, q} : /\ conc[p] \in LruStates
                            /\ abs[p] \in CacheSetDomain
                            /\ Describes(abs[p], conc[p])
        BY IInvPathwise
    <2>2. ~ AssumesHit("UNKNOWN")
        BY DEF AssumesHit
    <2>3. \A p \in {r, q} : Update(abs[p], t, "UNKNOWN") \in CacheSetDomain
        BY <2>1, <2>2, UpdateSound
    <2>4. LessEqual(Update(abs[r], t, "UNKNOWN"), Update(abs[q], t, "UNKNOWN"))
        BY <2>1, <2>3, UpdateMonotone
    <2>5. ASSUME NEW S \in AddressSets
          PROVE  LessEqual(PotentialUpdate(abs[r], S), PotentialUpdate(abs[q], S))
        <3>1. S \in SUBSET Tags
            BY AddressSetsAssumption
        <3>2. \A p \in {r, q} : PotentialUpdate(abs[p], S) \in CacheSetDomain
            BY <2>1, <3>1, PotentialUpdateSound
        <3>3. \A s \in Tags : abs[q].may.age[s] <= abs[q].may.implicit
            BY <2>1 DEF Describes, MayDescribes
        <3>4. QED
            BY <2>1, <3>1, <3>2, <3>3, PotentialUpdateMonotone
    <2>6. QED
        BY <2>4, <2>5
<1>2. Spec => []IInv
    BY InitIInv, NextIInv, PTL DEF Spec
<1>3. QED
    BY <1>1, <1>2, PTL
=============================================================================
