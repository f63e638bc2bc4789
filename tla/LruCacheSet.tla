---------------------------- MODULE LruCacheSet ----------------------------
(***************************************************************************)
(* The abstract domains of one LRU cache set, as operators on ages.        *)
(*                                                                         *)
(* The code keeps sorted vectors of the lines that are present             *)
(* (LruMaxAgeAbstractCache.h) or explicitly modelled                       *)
(* (LruMinAgeAbstractCache.h); here each domain is the function the vector *)
(* represents.                                                             *)
(***************************************************************************)
EXTENDS LruCache

CONSTANTS Level,             \* CacheTraits::LEVEL, 1 or 2
          MaxWorthwhileTags  \* maxWorthwhileTags in the may analysis

ASSUME LevelAssumption == Level \in {1, 2}
ASSUME WorthwhileAssumption == MaxWorthwhileTags \in Nat

(* Classification.cpp keeps two two-bit answers, one for each level.       *)
Classification == {"HIT", "MISS", "UNKNOWN", "L2HIT", "L2MISS"}

-----------------------------------------------------------------------------
(* The must analysis: m[t] is an upper bound of the age of t.              *)

MustTop == [t \in Tags |-> Assoc]

MustTags(m) == {t \in Tags : m[t] < Assoc}

(* Mutant: the set counts as full one tag too early.                       *)
MustClassifyFullTooEarly(m, t) ==
    IF m[t] < Assoc THEN "HIT"
    ELSE IF Cardinality(MustTags(m)) >= Assoc - 1 THEN "MISS" ELSE "UNKNOWN"

MustClassify(m, t) ==
    IF m[t] < Assoc THEN "HIT"
    ELSE IF Cardinality(MustTags(m)) = Assoc THEN "MISS" ELSE "UNKNOWN"

AssumesHit(cl) == cl = "HIT" \/ (Level > 1 /\ cl = "L2HIT")

(* Mutant: every tag that is not in the set is aged as if it hit.          *)
AccessedAgeNeverMisses(m, t, cl) == IF m[t] = Assoc THEN Assoc - 1 ELSE m[t]

(* Mutant: nothing is evicted while the must set is not full.              *)
AccessedAgeUntilFull(m, t, cl) ==
    IF m[t] = Assoc /\ (AssumesHit(cl) \/ Cardinality(MustTags(m)) < Assoc)
    THEN Assoc - 1 ELSE m[t]

(* A tag that is not in the set but is assumed to hit has some age in the  *)
(* set, at most Assoc - 1.                                                 *)
AccessedAge(m, t, cl) ==
    IF m[t] = Assoc /\ AssumesHit(cl) THEN Assoc - 1 ELSE m[t]

(* Mutant: an access ages the lines older than the accessed one instead.   *)
MustUpdateSwapped(m, t, cl) ==
    [s \in Tags |-> IF s = t THEN 0
                    ELSE IF m[s] > AccessedAge(m, t, cl) /\ m[s] < Assoc
                         THEN m[s] + 1 ELSE m[s]]

MustUpdate(m, t, cl) ==
    [s \in Tags |-> IF s = t THEN 0
                    ELSE IF m[s] < AccessedAge(m, t, cl) THEN m[s] + 1
                    ELSE m[s]]

(* The assertion of update: assuming a hit adds a tag to the set without   *)
(* evicting one, and the set must have room for it.                        *)
HitAssumptionFits(m, t) ==
    m[t] = Assoc => Cardinality(MustTags(m)) + 1 <= Assoc

MustPotentialUpdate(m) ==
    [s \in Tags |-> IF m[s] < Assoc THEN m[s] + 1 ELSE Assoc]

(* Mutant: the join keeps the smaller bound.                               *)
MustJoinSmaller(m, n) == [t \in Tags |-> IF m[t] <= n[t] THEN m[t] ELSE n[t]]

MustJoin(m, n) == [t \in Tags |-> IF m[t] >= n[t] THEN m[t] ELSE n[t]]

TagsWithMaxMaxAge(m, maxAge) == {t \in Tags : m[t] <= maxAge /\ m[t] < Assoc}

(* Mutant: one tag short of the stack is taken for the whole of it.        *)
ConcreteSubStackSizesShort(m, maxStackSize) ==
    {n \in 1 .. maxStackSize :
        /\ \E t \in Tags : m[t] = n - 1
        /\ Cardinality(TagsWithMaxMaxAge(m, n - 1)) >= n - 1}

(* The sizes n at which the tags of maximal age below n are n many, hence  *)
(* all of the n youngest lines; the code scans for the largest of them.    *)
ConcreteSubStackSizes(m, maxStackSize) ==
    {n \in 1 .. maxStackSize :
        /\ \E t \in Tags : m[t] = n - 1
        /\ Cardinality(TagsWithMaxMaxAge(m, n - 1)) = n}

-----------------------------------------------------------------------------
(* The may analysis: y.age[t] is a lower bound of the age of t, and        *)
(* y.implicit the bound of every tag that is not represented explicitly.   *)
(* removeRedundantTags drops the tags whose bound is not below y.implicit, *)
(* so the explicit tags are those with y.age[t] < y.implicit.              *)

MayDomain == [age : [Tags -> Ages], implicit : Ages]

MayTop == [age |-> [t \in Tags |-> 0], implicit |-> 0]

MayEmpty == [age |-> [t \in Tags |-> Assoc], implicit |-> Assoc]

MayClassify(y, t) ==
    IF y.implicit = Assoc /\ y.age[t] = Assoc THEN "MISS" ELSE "UNKNOWN"

(* An age that is at most that of the accessed tag grows by one.           *)
AgedBy(a, accessed) == IF a <= accessed /\ a < Assoc THEN a + 1 ELSE a

MayUpdate(y, t) ==
    [age      |-> [s \in Tags |-> IF s = t THEN 0
                                  ELSE AgedBy(y.age[s], y.age[t])],
     implicit |-> AgedBy(y.implicit, y.age[t])]

(* Mutant: an uncertain access ages the lines it does not reach.           *)
MayPotentialUpdateAges(y, S) ==
    IF y.implicit = 0 THEN y
    ELSE [age      |-> [s \in Tags |-> IF s \in S THEN 0
                                       ELSE AgedBy(y.age[s], Assoc)],
          implicit |-> AgedBy(y.implicit, Assoc)]

(* An access to some tag of S, or to another set: nothing ages, and every  *)
(* tag of S may be at the front; too many tags, and all of them may.       *)
MayPotentialUpdate(y, S) ==
    IF y.implicit = 0 THEN y
    ELSE IF Cardinality(S) > MaxWorthwhileTags THEN MayTop
    ELSE [age      |-> [s \in Tags |-> IF s \in S THEN 0 ELSE y.age[s]],
          implicit |-> y.implicit]

MinOf(a, b) == IF a <= b THEN a ELSE b

MayJoin(y, z) ==
    [age      |-> [t \in Tags |-> MinOf(y.age[t], z.age[t])],
     implicit |-> MinOf(y.implicit, z.implicit)]

-----------------------------------------------------------------------------
(* CompositionalAbstractCache: must first, and may where must is unsure.   *)

CacheSetDomain == [must : [Tags -> Ages], may : MayDomain]

UnknownCache == [must |-> MustTop, may |-> MayTop]

EmptyCache == [must |-> MustTop, may |-> MayEmpty]

Classify(x, t) ==
    IF MustClassify(x.must, t) # "UNKNOWN" THEN MustClassify(x.must, t)
    ELSE MayClassify(x.may, t)

(* The classification an update runs with: the caller's assumption, or     *)
(* what the domain itself knows when the caller makes none.                *)
Reduced(x, t, assumption) ==
    IF assumption = "UNKNOWN" THEN Classify(x, t) ELSE assumption

Update(x, t, assumption) ==
    [must |-> MustUpdate(x.must, t, Reduced(x, t, assumption)),
     may  |-> MayUpdate(x.may, t)]

PotentialUpdate(x, S) ==
    [must |-> MustPotentialUpdate(x.must),
     may  |-> MayPotentialUpdate(x.may, S)]

Join(x, y) ==
    [must |-> MustJoin(x.must, y.must), may |-> MayJoin(x.may, y.may)]

LessEqual(x, y) == Join(x, y) = y
=============================================================================
