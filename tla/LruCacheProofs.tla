--------------------------- MODULE LruCacheProofs ---------------------------
(***************************************************************************)
(* What accesses do to a set of an LRU cache: every line keeps a way of    *)
(* its own, and the age of a line counts the lines that were put before    *)
(* it.  And what the must and may domains preserve: their ages enclose the *)
(* ages of the cache.                                                      *)
(***************************************************************************)
EXTENDS LruCacheSet, FiniteSetTheorems, TLAPS

(* An access keeps every line in a way of its own.                         *)
LEMMA TouchLru ==
    ASSUME NEW c \in LruStates, NEW t \in Tags
    PROVE  Touch(c, t) \in LruStates
<1> USE AssocAssumption DEF LruStates, Ages, Cached
<1>1. Touch(c, t) \in [Tags -> Ages]
    BY DEF Touch
<1>2. ASSUME NEW r \in Tags, NEW s \in Tags, r # s, Cached(Touch(c, t), r)
      PROVE  Touch(c, t)[r] # Touch(c, t)[s]
    BY <1>2 DEF Touch
<1>3. QED
    BY <1>1, <1>2

(* A set never holds more lines than it has ways.                          *)
LEMMA FewLinesCached ==
    ASSUME NEW c \in LruStates
    PROVE  LET L == {t \in Tags : Cached(c, t)}
           IN  IsFiniteSet(L) /\ Cardinality(L) <= Assoc
<1> DEFINE L == {t \in Tags : Cached(c, t)}
           age == [t \in L |-> c[t]]
<1>1. age \in Injection(L, 0 .. Assoc - 1)
    BY AssocAssumption DEF LruStates, Ages, Cached, Injection, IsInjective
<1>2. IsFiniteSet(0 .. Assoc - 1) /\ Cardinality(0 .. Assoc - 1) = Assoc
    BY FS_Interval, AssocAssumption
<1>3. QED
    BY <1>1, <1>2, FS_Injection

-----------------------------------------------------------------------------
(* The lines before t.                                                     *)
Younger(c, t) == {u \in Tags : c[u] < c[t]}

(* All ages below that of t are taken.  It holds of lines that have been   *)
(* accessed: a cache may start with ways that are empty.                   *)
Packed(c, t) == \A n \in 0 .. c[t] - 1 : \E u \in Tags : c[u] = n

(* Nothing is before the line accessed last.                               *)
LEMMA TouchedFirst ==
    ASSUME NEW c \in LruStates, NEW t \in Tags
    PROVE  Younger(Touch(c, t), t) = {} /\ Packed(Touch(c, t), t)
<1>1. Touch(c, t) \in [Tags -> Ages] /\ Touch(c, t)[t] = 0
    BY TouchLru DEF Touch, LruStates
<1>2. QED
    BY <1>1 DEF Younger, Packed, Ages

(* An access puts one line before the others.                              *)
LEMMA TouchYounger ==
    ASSUME NEW c \in LruStates, NEW t \in Tags, NEW u \in Tags
    PROVE  Younger(Touch(c, u), t) \subseteq Younger(c, t) \cup {u}
<1>1. c \in [Tags -> Ages] /\ Touch(c, u) \in [Tags -> Ages]
    BY TouchLru DEF LruStates
<1>2. CASE t = u
    BY <1>2, TouchedFirst
<1>3. CASE t # u
    <2> SUFFICES ASSUME NEW s \in Tags, s # u,
                        Touch(c, u)[s] < Touch(c, u)[t]
                 PROVE  c[s] < c[t]
        BY DEF Younger
    <2>1. Touch(c, u)[t] = IF c[t] < c[u] THEN c[t] + 1 ELSE c[t]
        BY <1>3 DEF Touch
    <2>2. Touch(c, u)[s] = IF c[s] < c[u] THEN c[s] + 1 ELSE c[s]
        BY DEF Touch
    <2>3. QED
        BY <1>1, <2>1, <2>2, AssocAssumption DEF Ages
<1>4. QED
    BY <1>2, <1>3

LEMMA TouchPacked ==
    ASSUME NEW c \in LruStates, NEW t \in Tags, NEW u \in Tags, Packed(c, t)
    PROVE  Packed(Touch(c, u), t)
<1>1. c \in [Tags -> Ages] /\ Touch(c, u) \in [Tags -> Ages]
    BY TouchLru DEF LruStates
<1>2. CASE t = u
    BY <1>2, TouchedFirst
<1>3. CASE t # u
    <2> SUFFICES ASSUME NEW n \in 0 .. Touch(c, u)[t] - 1
                 PROVE  \E s \in Tags : Touch(c, u)[s] = n
        BY DEF Packed
    <2>1. Touch(c, u)[t] = IF c[t] < c[u] THEN c[t] + 1 ELSE c[t]
        BY <1>3 DEF Touch
    <2>2. Touch(c, u)[u] = 0
        BY DEF Touch
    <2>3. \A s \in Tags : s # u =>
             Touch(c, u)[s] = IF c[s] < c[u] THEN c[s] + 1 ELSE c[s]
        BY DEF Touch
    <2>4. CASE n = 0
        BY <2>2, <2>4
    <2>5. CASE n # 0 /\ n <= c[u]
        <3>1. n - 1 \in 0 .. c[t] - 1
            BY <1>1, <2>1, <2>5, AssocAssumption DEF Ages
        <3>2. PICK s \in Tags : c[s] = n - 1
            BY <3>1 DEF Packed
        <3>3. c[s] < c[u] /\ s # u
            BY <1>1, <2>5, <3>2, AssocAssumption DEF Ages
        <3>4. Touch(c, u)[s] = n
            BY <2>3, <3>2, <3>3
        <3>5. QED
            BY <3>4
    <2>6. CASE n > c[u]
        <3>1. n \in 0 .. c[t] - 1
            BY <1>1, <2>1, <2>6, AssocAssumption DEF Ages
        <3>2. PICK s \in Tags : c[s] = n
            BY <3>1 DEF Packed
        <3>3. ~ c[s] < c[u] /\ s # u
            BY <1>1, <2>6, <3>2, AssocAssumption DEF Ages
        <3>4. Touch(c, u)[s] = n
            BY <2>3, <3>2, <3>3
        <3>5. QED
            BY <3>4
    <2>7. QED
        BY <1>1, <2>4, <2>5, <2>6, AssocAssumption DEF Ages
<1>4. QED
    BY <1>2, <1>3

(* The age of a line is at most the number of lines before it.             *)
LEMMA AgeWithinYounger ==
    ASSUME NEW c \in LruStates, NEW t \in Tags, Packed(c, t)
    PROVE  /\ IsFiniteSet(Younger(c, t))
           /\ c[t] <= Cardinality(Younger(c, t))
<1> DEFINE Y == Younger(c, t)
           N == 0 .. c[t] - 1
           age == [u \in Y |-> c[u]]
<1>1. c \in [Tags -> Ages] /\ c[t] \in Nat
    BY AssocAssumption DEF LruStates, Ages
<1>2. IsFiniteSet(Y)
    BY TagsAssumption, FS_Subset DEF Younger
<1>3. age \in Surjection(Y, N)
    <2>1. age \in [Y -> N]
        BY <1>1, AssocAssumption DEF Younger, Ages
    <2>2. \A n \in N : \E u \in Y : age[u] = n
        BY <1>1 DEF Packed, Younger
    <2>3. QED
        BY <2>1, <2>2 DEF Surjection
<1>4. Cardinality(N) <= Cardinality(Y)
    BY <1>2, <1>3, FS_Surjection
<1>5. Cardinality(N) = c[t]
    BY <1>1, FS_Interval
<1>6. QED
    BY <1>2, <1>4, <1>5

-----------------------------------------------------------------------------
(* What an abstract set says of the cache.                                 *)

(* c is described by the must bounds m.                                    *)
MustDescribes(m, c) == \A t \in Tags : c[t] <= m[t]

(* c is described by the may bounds y.                                     *)
MayDescribes(y, c) ==
    \A t \in Tags : y.age[t] <= c[t] /\ y.age[t] <= y.implicit

Describes(x, c) == MustDescribes(x.must, c) /\ MayDescribes(x.may, c)

-----------------------------------------------------------------------------
(* The operators of the two domains.                                       *)

(* What the must analysis holds is in the cache.                           *)
LEMMA MustTagsCached ==
    ASSUME NEW c \in LruStates, NEW m \in [Tags -> Ages], MustDescribes(m, c)
    PROVE  /\ MustTags(m) \subseteq {t \in Tags : Cached(c, t)}
           /\ IsFiniteSet(MustTags(m))
           /\ Cardinality(MustTags(m)) \in Nat
           /\ Cardinality(MustTags(m)) <= Assoc
<1> DEFINE L == {t \in Tags : Cached(c, t)}
<1>1. MustTags(m) \subseteq L
    BY AssocAssumption DEF MustTags, MustDescribes, Cached, LruStates, Ages
<1>2. IsFiniteSet(L) /\ Cardinality(L) <= Assoc
    BY FewLinesCached
<1>3. /\ IsFiniteSet(MustTags(m))
      /\ Cardinality(MustTags(m)) <= Cardinality(L)
    BY <1>1, <1>2, FS_Subset
<1>4. Cardinality(MustTags(m)) \in Nat /\ Cardinality(L) \in Nat
    BY <1>2, <1>3, FS_CardinalityType
<1>5. QED
    BY <1>1, <1>2, <1>3, <1>4, AssocAssumption

(* A tag that is cached without the must analysis knowing it leaves room   *)
(* for it among the must tags.                                             *)
LEMMA RoomForHit ==
    ASSUME NEW c \in LruStates, NEW m \in [Tags -> Ages], MustDescribes(m, c),
           NEW t \in Tags, Cached(c, t)
    PROVE  HitAssumptionFits(m, t)
<1> DEFINE L == {s \in Tags : Cached(c, s)}
           M == MustTags(m)
<1> SUFFICES ASSUME m[t] = Assoc
             PROVE  Cardinality(M) + 1 <= Assoc
    BY DEF HitAssumptionFits
<1>1. M \subseteq L /\ IsFiniteSet(M)
    BY MustTagsCached
<1>2. t \in L /\ t \notin M
    BY AssocAssumption DEF MustTags
<1>3. /\ IsFiniteSet(M \cup {t})
      /\ Cardinality(M \cup {t}) = Cardinality(M) + 1
    BY <1>1, <1>2, FS_AddElement
<1>4. IsFiniteSet(L) /\ Cardinality(L) <= Assoc
    BY FewLinesCached
<1>5. M \cup {t} \subseteq L
    BY <1>1, <1>2
<1>6. Cardinality(M \cup {t}) <= Cardinality(L)
    BY <1>4, <1>5, FS_Subset
<1>7. Cardinality(L) \in Nat /\ Cardinality(M) \in Nat
    BY <1>1, <1>4, FS_CardinalityType
<1>8. QED
    BY <1>3, <1>4, <1>6, <1>7, AssocAssumption

(* An update of the must analysis bounds the ages after the access, if a   *)
(* hit is assumed only when the access hits.                               *)
LEMMA MustUpdateSound ==
    ASSUME NEW c \in LruStates, NEW m \in [Tags -> Ages], NEW t \in Tags,
           NEW cl, MustDescribes(m, c), AssumesHit(cl) => Cached(c, t)
    PROVE  /\ MustUpdate(m, t, cl) \in [Tags -> Ages]
           /\ MustDescribes(MustUpdate(m, t, cl), Touch(c, t))
<1> USE AssocAssumption DEF Ages, LruStates
<1>1. /\ AccessedAge(m, t, cl) \in Ages
      /\ c[t] <= AccessedAge(m, t, cl)
    BY DEF AccessedAge, MustDescribes, Cached
<1>2. MustUpdate(m, t, cl) \in [Tags -> Ages]
    BY <1>1 DEF MustUpdate
<1>3. ASSUME NEW s \in Tags
      PROVE  Touch(c, t)[s] <= MustUpdate(m, t, cl)[s]
    BY <1>1 DEF Touch, MustUpdate, MustDescribes
<1>4. QED
    BY <1>2, <1>3 DEF MustDescribes

(* An access that may have gone anywhere ages every line by one at most.   *)
LEMMA MustPotentialUpdateSound ==
    ASSUME NEW c \in LruStates, NEW m \in [Tags -> Ages], MustDescribes(m, c)
    PROVE  /\ MustPotentialUpdate(m) \in [Tags -> Ages]
           /\ MustDescribes(MustPotentialUpdate(m), c)
           /\ \A t \in Tags : MustDescribes(MustPotentialUpdate(m), Touch(c, t))
BY AssocAssumption
   DEF MustPotentialUpdate, MustDescribes, Touch, Ages, LruStates

LEMMA MustJoinSound ==
    ASSUME NEW c \in LruStates, NEW m \in [Tags -> Ages],
           NEW n \in [Tags -> Ages],
           MustDescribes(m, c) \/ MustDescribes(n, c)
    PROVE  /\ MustJoin(m, n) \in [Tags -> Ages]
           /\ MustDescribes(MustJoin(m, n), c)
BY AssocAssumption DEF MustJoin, MustDescribes, Ages, LruStates

(* An update of the may analysis keeps its lower bounds below the ages     *)
(* after the access: a line that is not younger than the accessed one is   *)
(* strictly older, since no two lines share a way.                         *)
LEMMA MayUpdateSound ==
    ASSUME NEW c \in LruStates, NEW y \in MayDomain, NEW t \in Tags,
           MayDescribes(y, c)
    PROVE  /\ MayUpdate(y, t) \in MayDomain
           /\ MayDescribes(MayUpdate(y, t), Touch(c, t))
<1> USE AssocAssumption DEF Ages, LruStates, MayDomain
<1>1. \A a \in Ages, b \in Ages : AgedBy(a, b) \in Ages
    BY DEF AgedBy
<1>2. MayUpdate(y, t) \in MayDomain
    <2>1. /\ AgedBy(y.implicit, y.age[t]) \in 0 .. Assoc
          /\ \A s \in Tags : AgedBy(y.age[s], y.age[t]) \in 0 .. Assoc
        BY <1>1
    <2>2. QED
        BY <2>1 DEF MayUpdate
<1>3. ASSUME NEW s \in Tags
      PROVE  MayUpdate(y, t).age[s] <= Touch(c, t)[s]
    <2>1. CASE s = t
        BY <2>1 DEF MayUpdate, Touch
    <2>2. CASE s # t
        <3>1. /\ MayUpdate(y, t).age[s] = AgedBy(y.age[s], y.age[t])
              /\ Touch(c, t)[s] = IF c[s] < c[t] THEN c[s] + 1 ELSE c[s]
            BY <2>2 DEF MayUpdate, Touch
        <3>2. y.age[s] <= c[s] /\ y.age[t] <= c[t]
            BY DEF MayDescribes
        <3>3. c[s] < Assoc => c[s] # c[t]
            BY <2>2 DEF Cached
        <3>4. QED
            BY <3>1, <3>2, <3>3 DEF AgedBy
    <2>3. QED
        BY <2>1, <2>2
<1>4. ASSUME NEW s \in Tags
      PROVE  MayUpdate(y, t).age[s] <= MayUpdate(y, t).implicit
    BY DEF MayUpdate, AgedBy, MayDescribes
<1>5. QED
    BY <1>2, <1>3, <1>4 DEF MayDescribes

LEMMA MayPotentialUpdateSound ==
    ASSUME NEW c \in LruStates, NEW y \in MayDomain, NEW S \in SUBSET Tags,
           MayDescribes(y, c)
    PROVE  /\ MayPotentialUpdate(y, S) \in MayDomain
           /\ MayDescribes(MayPotentialUpdate(y, S), c)
           /\ \A t \in S : MayDescribes(MayPotentialUpdate(y, S), Touch(c, t))
<1> USE AssocAssumption DEF Ages, LruStates, MayDomain
<1>1. MayPotentialUpdate(y, S) \in MayDomain
    BY DEF MayPotentialUpdate, MayTop
<1>2. ASSUME NEW s \in Tags
      PROVE  /\ MayPotentialUpdate(y, S).age[s] <= y.age[s]
             /\ s \in S => MayPotentialUpdate(y, S).age[s] = 0
             /\ MayPotentialUpdate(y, S).age[s]
                    <= MayPotentialUpdate(y, S).implicit
    BY DEF MayPotentialUpdate, MayTop, MayDescribes
<1>3. MayDescribes(MayPotentialUpdate(y, S), c)
    BY <1>1, <1>2 DEF MayDescribes
<1>4. ASSUME NEW t \in S
      PROVE  MayDescribes(MayPotentialUpdate(y, S), Touch(c, t))
    BY <1>1, <1>2 DEF MayDescribes, Touch
<1>5. QED
    BY <1>1, <1>3, <1>4

LEMMA MayJoinSound ==
    ASSUME NEW c \in LruStates, NEW y \in MayDomain, NEW z \in MayDomain,
           \A t \in Tags : /\ y.age[t] <= y.implicit
                           /\ z.age[t] <= z.implicit,
           MayDescribes(y, c) \/ MayDescribes(z, c)
    PROVE  /\ MayJoin(y, z) \in MayDomain
           /\ MayDescribes(MayJoin(y, z), c)
BY AssocAssumption DEF MayJoin, MinOf, MayDescribes, MayDomain, Ages, LruStates

-----------------------------------------------------------------------------
(* A set whose ages are enclosed is classified as it is.                   *)
LEMMA ClassifySound ==
    ASSUME NEW c \in LruStates, NEW x \in CacheSetDomain, NEW t \in Tags,
           Describes(x, c)
    PROVE  /\ Classify(x, t) = "HIT" => Cached(c, t)
           /\ Classify(x, t) = "MISS" => ~ Cached(c, t)
<1> USE AssocAssumption DEF Ages, LruStates, CacheSetDomain, MayDomain
<1>1. MustDescribes(x.must, c) /\ MayDescribes(x.may, c)
    BY DEF Describes
<1>2. CASE x.must[t] < Assoc
    <2>1. Cached(c, t)
        BY <1>1, <1>2 DEF MustDescribes, Cached
    <2>2. Classify(x, t) = "HIT"
        BY <1>2 DEF Classify, MustClassify
    <2>3. QED
        BY <2>1, <2>2
<1>3. CASE ~(x.must[t] < Assoc) /\ Cardinality(MustTags(x.must)) = Assoc
    <2>1. x.must[t] = Assoc
        BY <1>3
    <2>2. Cardinality(MustTags(x.must)) \in Nat
        BY <1>1, MustTagsCached
    <2>3. ~ HitAssumptionFits(x.must, t)
        BY <1>3, <2>1, <2>2 DEF HitAssumptionFits
    <2>4. ~ Cached(c, t)
        BY <1>1, <2>3, RoomForHit
    <2>5. Classify(x, t) = "MISS"
        BY <1>3 DEF Classify, MustClassify
    <2>6. QED
        BY <2>4, <2>5
<1>4. CASE ~(x.must[t] < Assoc) /\ Cardinality(MustTags(x.must)) # Assoc
    <2>1. Classify(x, t) = MayClassify(x.may, t)
        BY <1>4 DEF Classify, MustClassify
    <2>2. x.may.age[t] <= c[t]
        BY <1>1 DEF MayDescribes
    <2>3. QED
        BY <2>1, <2>2 DEF MayClassify, Cached
<1>5. QED
    BY <1>2, <1>3, <1>4

(* One access of a path, with a true assumption or none.                   *)
LEMMA UpdateSound ==
    ASSUME NEW c \in LruStates, NEW x \in CacheSetDomain, NEW t \in Tags,
           NEW assumption, Describes(x, c),
           AssumesHit(assumption) => Cached(c, t)
    PROVE  /\ Update(x, t, assumption) \in CacheSetDomain
           /\ Describes(Update(x, t, assumption), Touch(c, t))
<1> DEFINE cl == Reduced(x, t, assumption)
<1> USE DEF CacheSetDomain, Describes
<1>1. AssumesHit(cl) => Cached(c, t)
    <2>1. CASE assumption = "UNKNOWN"
        <3>1. cl = Classify(x, t)
            BY <2>1 DEF Reduced
        <3>2. Classify(x, t) \in {"HIT", "MISS", "UNKNOWN"}
            BY DEF Classify, MustClassify, MayClassify
        <3>3. AssumesHit(cl) => Classify(x, t) = "HIT"
            BY <3>1, <3>2 DEF AssumesHit
        <3>4. QED
            BY <3>3, ClassifySound
    <2>2. CASE assumption # "UNKNOWN"
        BY <2>2 DEF Reduced
    <2>3. QED
        BY <2>1, <2>2
<1> HIDE DEF cl
<1>2. /\ MustUpdate(x.must, t, cl) \in [Tags -> Ages]
      /\ MustDescribes(MustUpdate(x.must, t, cl), Touch(c, t))
    BY <1>1, MustUpdateSound
<1>3. /\ MayUpdate(x.may, t) \in MayDomain
      /\ MayDescribes(MayUpdate(x.may, t), Touch(c, t))
    BY MayUpdateSound
<1>4. Update(x, t, assumption)
        = [must |-> MustUpdate(x.must, t, cl), may |-> MayUpdate(x.may, t)]
    BY DEF Update, cl
<1>5. QED
    BY <1>2, <1>3, <1>4

LEMMA PotentialUpdateSound ==
    ASSUME NEW c \in LruStates, NEW x \in CacheSetDomain,
           NEW S \in SUBSET Tags, Describes(x, c)
    PROVE  /\ PotentialUpdate(x, S) \in CacheSetDomain
           /\ Describes(PotentialUpdate(x, S), c)
           /\ \A t \in S : Describes(PotentialUpdate(x, S), Touch(c, t))
<1> USE DEF CacheSetDomain, Describes
<1>1. /\ MustPotentialUpdate(x.must) \in [Tags -> Ages]
      /\ MustDescribes(MustPotentialUpdate(x.must), c)
      /\ \A t \in S : MustDescribes(MustPotentialUpdate(x.must), Touch(c, t))
    BY MustPotentialUpdateSound
<1>2. /\ MayPotentialUpdate(x.may, S) \in MayDomain
      /\ MayDescribes(MayPotentialUpdate(x.may, S), c)
      /\ \A t \in S : MayDescribes(MayPotentialUpdate(x.may, S), Touch(c, t))
    BY MayPotentialUpdateSound
<1>3. QED
    BY <1>1, <1>2 DEF PotentialUpdate

(* The join of two states describes what either of them describes.         *)
LEMMA JoinSound ==
    ASSUME NEW c \in LruStates, NEW d \in LruStates,
           NEW x \in CacheSetDomain, NEW y \in CacheSetDomain,
           Describes(x, c), Describes(y, d)
    PROVE  /\ Join(x, y) \in CacheSetDomain
           /\ Describes(Join(x, y), c)
           /\ Describes(Join(x, y), d)
<1> USE DEF CacheSetDomain, Describes
<1>1. \A t \in Tags : /\ x.may.age[t] <= x.may.implicit
                      /\ y.may.age[t] <= y.may.implicit
    BY DEF MayDescribes
<1>2. /\ MayJoin(x.may, y.may) \in MayDomain
      /\ MayDescribes(MayJoin(x.may, y.may), c)
      /\ MayDescribes(MayJoin(x.may, y.may), d)
    BY <1>1, MayJoinSound
<1>3. /\ MustJoin(x.must, y.must) \in [Tags -> Ages]
      /\ MustDescribes(MustJoin(x.must, y.must), c)
      /\ MustDescribes(MustJoin(x.must, y.must), d)
    BY MustJoinSound
<1>4. QED
    BY <1>2, <1>3 DEF Join
=============================================================================
