----------------------- MODULE ScopePersistenceProofs -----------------------
(***************************************************************************)
(* For every associativity, all lines, arrays, co-runners, paths and       *)
(* loops: the conflicts that the counting analyses hold for a scope bound  *)
(* the ages of its lines, so that a line that is persistent in a scope is  *)
(* still in the cache, and is charged to the scope once at most.           *)
(*                                                                         *)
(* The bound on ages is not inductive: it says nothing of which lines have *)
(* been put before a line, and a join may not count the same line twice.   *)
(* The invariant names those lines (Accounts).                             *)
(*                                                                         *)
(* First, what the operators of set-wise counting preserve: the lines that *)
(* a scope has put before one of its lines are among those it has counted. *)
(***************************************************************************)
EXTENDS ScopePersistence, LruCacheProofs, WellFoundedInduction

(* A set of numbers has a least one.  What recursive functions are, is     *)
(* proved with it, by least counterexample.                                *)
LEMMA LeastNumber ==
    ASSUME NEW T, T \subseteq Nat, T # {}
    PROVE  \E m \in T : \A k \in T : m <= k
<1>1. PICK m \in T : \A k \in T : <<k, m>> \notin OpToRel(<, Nat)
  BY NatLessThanWellFounded, WFMin
<1>2. \A k \in T : ~ k < m
  BY <1>1 DEF OpToRel
<1>3. QED
  BY <1>2

-----------------------------------------------------------------------------
(* The number of array accesses, a sum over the arrays.                    *)

IsSum(sum, arrays) ==
    sum = [S \in SUBSET Arrays |->
             IF S = {} THEN 0
             ELSE LET array == CHOOSE x \in S : TRUE
                  IN arrays[array] + sum[S \ {array}]]

(* The sums over at most n arrays.                                         *)
IsPartialSum(sum, arrays, n) ==
    /\ sum \in [{S \in SUBSET Arrays : Cardinality(S) <= n} -> Nat]
    /\ \A S \in SUBSET Arrays : Cardinality(S) <= n =>
          sum[S] = IF S = {} THEN 0
                   ELSE arrays[CHOOSE x \in S : TRUE]
                          + sum[S \ {CHOOSE x \in S : TRUE}]

LEMMA ArraySets ==
    ASSUME NEW S \in SUBSET Arrays
    PROVE  /\ IsFiniteSet(S) /\ Cardinality(S) \in Nat
           /\ Cardinality(S) = 0 <=> S = {}
           /\ \A a \in S : /\ Cardinality(S \ {a}) = Cardinality(S) - 1
                           /\ S \ {a} \in SUBSET Arrays
<1>1. IsFiniteSet(S)
  BY ArraysAssumption, FS_Subset
<1>2. Cardinality(S) \in Nat
  BY <1>1, FS_CardinalityType
<1>3. Cardinality(S) = 0 <=> S = {}
  BY <1>1, FS_EmptySet
<1>4. \A a \in S : Cardinality(S \ {a}) = Cardinality(S) - 1
  BY <1>1, FS_RemoveElement
<1>5. QED
  BY <1>1, <1>2, <1>3, <1>4

LEMMA PartialSumExists ==
    ASSUME NEW arrays \in [Arrays -> Nat], NEW n \in Nat
    PROVE  \E sum : IsPartialSum(sum, arrays, n)
<1> DEFINE T == {m \in Nat : ~ \E sum : IsPartialSum(sum, arrays, m)}
<1> SUFFICES ASSUME T # {}
             PROVE  FALSE
  OBVIOUS
<1>1. PICK m \in T : \A k \in T : m <= k
  BY LeastNumber
<1>2. CASE m = 0
  <2> DEFINE sum == [S \in {{}} |-> 0]
  <2>1. \A S \in SUBSET Arrays : Cardinality(S) <= 0 <=> S = {}
    BY ArraySets
  <2>2. {S \in SUBSET Arrays : Cardinality(S) <= 0} = {{}}
    BY <2>1
  <2>3. IsPartialSum(sum, arrays, 0)
    BY <2>1, <2>2 DEF IsPartialSum
  <2>4. QED
    BY <1>2, <2>3
<1>3. CASE m # 0
  <2>1. m - 1 \in Nat /\ m - 1 \notin T
    BY <1>1, <1>3
  <2>2. PICK f : IsPartialSum(f, arrays, m - 1)
    BY <2>1
  <2> DEFINE D == {S \in SUBSET Arrays : Cardinality(S) <= m}
             first(S) == CHOOSE x \in S : TRUE
             value(S) == IF S = {} THEN 0
                         ELSE arrays[first(S)] + f[S \ {first(S)}]
             g == [S \in D |-> value(S)]
  <2>3. \A S \in SUBSET Arrays : S # {} => first(S) \in S
    OBVIOUS
  <2> HIDE DEF first
  <2>4. \A S \in D : S # {} =>
           /\ S \ {first(S)} \in SUBSET Arrays
           /\ Cardinality(S \ {first(S)}) <= m - 1
    BY <2>3, ArraySets
  <2>5. \A S \in SUBSET Arrays : Cardinality(S) <= m - 1 => f[S] \in Nat
    BY <2>2 DEF IsPartialSum
  <2>6. \A S \in D : value(S) \in Nat
    BY <2>3, <2>4, <2>5
  <2>7. \A S \in SUBSET Arrays : Cardinality(S) <= m - 1 => f[S] = value(S)
    BY <2>2 DEF IsPartialSum, first
  <2>8. \A S \in SUBSET Arrays : Cardinality(S) <= m - 1 => S \in D
    BY ArraySets
  <2>9. \A S \in D : S # {} => f[S \ {first(S)}] = g[S \ {first(S)}]
    BY <2>4, <2>7, <2>8
  <2> HIDE DEF value
  <2>10. g \in [D -> Nat]
    BY <2>6
  <2>11. \A S \in D : g[S] = value(S)
    OBVIOUS
  <2> HIDE DEF g
  <2>12. \A S \in D : g[S] = IF S = {} THEN 0
                             ELSE arrays[first(S)] + g[S \ {first(S)}]
    BY <2>9, <2>11 DEF value
  <2>13. IsPartialSum(g, arrays, m)
    BY <2>10, <2>12 DEF IsPartialSum, first
  <2>14. QED
    BY <1>1, <2>13
<1>4. QED
  BY <1>2, <1>3

(* The recursive function of ArrayAccesses exists.                         *)
LEMMA SumExists ==
    ASSUME NEW arrays \in [Arrays -> Nat]
    PROVE  \E sum : IsSum(sum, arrays) /\ sum \in [SUBSET Arrays -> Nat]
<1> DEFINE n == Cardinality(Arrays)
<1>1. n \in Nat
  BY ArraySets
<1>2. PICK sum : IsPartialSum(sum, arrays, n)
  BY <1>1, PartialSumExists
<1>3. \A S \in SUBSET Arrays : Cardinality(S) <= n
  BY ArraysAssumption, FS_Subset
<1>4. {S \in SUBSET Arrays : Cardinality(S) <= n} = SUBSET Arrays
  BY <1>3
<1>5. sum \in [SUBSET Arrays -> Nat]
  BY <1>2, <1>4 DEF IsPartialSum
<1>6. IsSum(sum, arrays)
  BY <1>2, <1>3, <1>5 DEF IsPartialSum, IsSum
<1>7. QED
  BY <1>5, <1>6

LEMMA SumType ==
    ASSUME NEW arrays \in [Arrays -> Nat], NEW sum, IsSum(sum, arrays)
    PROVE  sum \in [SUBSET Arrays -> Nat]
<1> DEFINE T == {n \in Nat : \E S \in SUBSET Arrays :
                                Cardinality(S) = n /\ sum[S] \notin Nat}
<1>1. sum = [S \in SUBSET Arrays |-> sum[S]]
  BY DEF IsSum
<1>2. ASSUME NEW S \in SUBSET Arrays, sum[S] \notin Nat
      PROVE  FALSE
  <2>1. Cardinality(S) \in T
    BY <1>2, ArraySets
  <2>2. PICK m \in T : \A k \in T : m <= k
    BY <2>1, LeastNumber
  <2>3. PICK R \in SUBSET Arrays : Cardinality(R) = m /\ sum[R] \notin Nat
    BY <2>2
  <2> DEFINE a == CHOOSE x \in R : TRUE
  <2>4. CASE R = {}
    BY <2>3, <2>4 DEF IsSum
  <2>5. CASE R # {}
    <3>1. a \in R /\ a \in Arrays
      BY <2>5
    <3>2. sum[R] = arrays[a] + sum[R \ {a}]
      BY <2>5 DEF IsSum
    <3> HIDE DEF a
    <3>3. R \ {a} \in SUBSET Arrays /\ Cardinality(R \ {a}) = m - 1
          /\ Cardinality(R) \in Nat
      BY <2>3, <3>1, ArraySets
    <3>4. sum[R \ {a}] \notin Nat
      BY <2>3, <3>1, <3>2
    <3>5. Cardinality(R \ {a}) \in Nat
      BY <3>3, ArraySets
    <3>6. m - 1 \in T
      BY <3>3, <3>4, <3>5
    <3>7. QED
      BY <2>2, <2>3, <3>3, <3>6
  <2>6. QED
    BY <2>4, <2>5
<1>3. QED
  BY <1>1, <1>2

LEMMA ArrayAccessesIs ==
    ASSUME NEW arrays \in [Arrays -> Nat]
    PROVE  \E sum \in [SUBSET Arrays -> Nat] :
              IsSum(sum, arrays) /\ ArrayAccesses(arrays) = sum[Arrays]
<1> DEFINE s == CHOOSE sum : IsSum(sum, arrays)
<1>1. IsSum(s, arrays)
  BY SumExists
<1>2. ArrayAccesses(arrays) = s[Arrays]
  BY Zenon DEF ArrayAccesses, IsSum
<1> HIDE DEF s
<1>3. QED
  BY <1>1, <1>2, SumType

LEMMA ConflictsType ==
    ASSUME NEW x \in SetWiseDomain
    PROVE  /\ IsFiniteSet(x.blocks) /\ Cardinality(x.blocks) \in Nat
           /\ ArrayAccesses(x.arrays) \in Nat
           /\ Conflicts(x) \in Nat
<1>1. x.blocks \in SUBSET Tags /\ x.arrays \in [Arrays -> Nat]
  BY DEF SetWiseDomain, OwnTags
<1>2. IsFiniteSet(x.blocks) /\ Cardinality(x.blocks) \in Nat
  BY <1>1, TagsAssumption, FS_Subset, FS_CardinalityType
<1>3. ArrayAccesses(x.arrays) \in Nat
  BY <1>1, ArrayAccessesIs, ArraySets
<1>4. QED
  BY <1>2, <1>3 DEF Conflicts

(* One line for each access: the lines of all arrays are at most as many   *)
(* as the accesses.                                                        *)
LEMMA LinesWithinAccesses ==
    ASSUME NEW arrays \in [Arrays -> Nat],
           NEW lines \in [Arrays -> SUBSET Tags],
           \A a \in Arrays : Cardinality(lines[a]) <= arrays[a]
    PROVE  LET all == UNION {lines[a] : a \in Arrays}
           IN  /\ IsFiniteSet(all)
               /\ Cardinality(all) <= ArrayAccesses(arrays)
<1> DEFINE Of(S) == UNION {lines[a] : a \in S}
<1>1. PICK sum \in [SUBSET Arrays -> Nat] :
            IsSum(sum, arrays) /\ ArrayAccesses(arrays) = sum[Arrays]
  BY ArrayAccessesIs
<1>2. \A S \in SUBSET Arrays : Of(S) \in SUBSET Tags
  OBVIOUS
<1>3. \A S \in SUBSET Arrays : IsFiniteSet(Of(S)) /\ Cardinality(Of(S)) \in Nat
  BY <1>2, TagsAssumption, FS_Subset, FS_CardinalityType
<1> DEFINE T == {n \in Nat : \E S \in SUBSET Arrays :
                   Cardinality(S) = n /\ ~ Cardinality(Of(S)) <= sum[S]}
<1>4. ASSUME NEW S \in SUBSET Arrays, ~ Cardinality(Of(S)) <= sum[S]
      PROVE  FALSE
  <2>1. Cardinality(S) \in T
    BY <1>4, ArraySets
  <2>2. PICK m \in T : \A k \in T : m <= k
    BY <2>1, LeastNumber
  <2>3. PICK R \in SUBSET Arrays :
              Cardinality(R) = m /\ ~ Cardinality(Of(R)) <= sum[R]
    BY <2>2
  <2> DEFINE a == CHOOSE x \in R : TRUE
             rest == R \ {a}
  <2>4. CASE R = {}
    <3>1. Of(R) = {} /\ sum[R] = 0
      BY <1>1, <2>4 DEF IsSum
    <3>2. Cardinality({}) = 0
      BY FS_EmptySet
    <3> HIDE DEF Of
    <3>3. QED
      BY <2>3, <3>1, <3>2
  <2>5. CASE R # {}
    <3>1. a \in R /\ a \in Arrays
      BY <2>5
    <3>2. sum[R] = arrays[a] + sum[rest]
      BY <1>1, <2>5 DEF IsSum
    <3> HIDE DEF a
    <3>3. rest \in SUBSET Arrays /\ Cardinality(rest) = m - 1
          /\ Cardinality(R) \in Nat /\ Cardinality(rest) \in Nat
      BY <2>3, <3>1, ArraySets
    <3>4. Cardinality(Of(rest)) <= sum[rest]
      <4>1. m - 1 \notin T
        <5> HIDE DEF T
        <5>1. QED
          BY <2>2, <2>3, <3>3
      <4>2. QED
        BY <3>3, <4>1
    <3>5. Of(R) = Of(rest) \cup lines[a]
      BY <3>1
    <3>6. IsFiniteSet(lines[a]) /\ Cardinality(lines[a]) \in Nat
      BY <3>1, TagsAssumption, FS_Subset, FS_CardinalityType
    <3> HIDE DEF rest, Of
    <3>7. /\ Cardinality(Of(R)) = Cardinality(Of(rest)) + Cardinality(lines[a])
                                    - Cardinality(Of(rest) \cap lines[a])
          /\ Cardinality(Of(rest) \cap lines[a]) \in Nat
      BY <1>3, <3>3, <3>5, <3>6, FS_Union, FS_Intersection, FS_CardinalityType
    <3>8. Cardinality(Of(rest)) \in Nat /\ sum[rest] \in Nat /\ arrays[a] \in Nat
      BY <1>1, <1>3, <3>1, <3>3
    <3>9. QED
      BY <2>3, <3>1, <3>2, <3>4, <3>6, <3>7, <3>8
  <2>6. QED
    BY <2>4, <2>5
<1>5. Cardinality(Of(Arrays)) <= sum[Arrays]
  BY <1>4
<1>6. QED
  BY <1>1, <1>3, <1>5

-----------------------------------------------------------------------------
(* Types.                                                                  *)

(* An array has no more unnamed lines in the set than its bound.           *)
LEMMA UnnamedWithinBound ==
    ASSUME NEW blocks \in SUBSET Tags, NEW a \in Arrays
    PROVE  /\ PerArrayBound(blocks, a) \in Nat
           /\ IsFiniteSet(LinesOf[a] \ blocks)
           /\ Cardinality(LinesOf[a] \ blocks) <= PerArrayBound(blocks, a)
<1> DEFINE L == LinesOf[a]
<1>1. L \in SUBSET Tags /\ PerSetSize[a] \in Nat /\ Cardinality(L) <= PerSetSize[a]
  BY ArraysAssumption
<1> HIDE DEF L
<1>2. IsFiniteSet(L) /\ Cardinality(L) \in Nat
  BY <1>1, TagsAssumption, FS_Subset, FS_CardinalityType
<1>3. /\ IsFiniteSet(L \ blocks)
      /\ Cardinality(L \ blocks) = Cardinality(L) - Cardinality(L \cap blocks)
  BY <1>2, FS_Difference
<1>4. Cardinality(L \ blocks) \in Nat
  BY <1>3, FS_CardinalityType
<1>5. L \cap blocks = blocks \cap L
  OBVIOUS
<1>6. IsFiniteSet(L \cap blocks) /\ Cardinality(L \cap blocks) \in Nat
  BY <1>2, FS_Intersection, FS_CardinalityType
<1>7. Cardinality(L \cap blocks) <= Cardinality(L)
  BY <1>2, FS_Intersection
<1>8. PerArrayBound(blocks, a) = PerSetSize[a] - Cardinality(L \cap blocks)
  BY <1>5 DEF PerArrayBound, L
<1>9. /\ PerArrayBound(blocks, a) \in Nat
      /\ Cardinality(L \ blocks) <= PerArrayBound(blocks, a)
  BY <1>1, <1>2, <1>3, <1>4, <1>6, <1>7, <1>8
<1>10. QED
  BY <1>3, <1>9 DEF L

LEMMA SetWiseConstantsType ==
    SetWiseEmpty \in SetWiseDomain /\ SetWiseTop \in SetWiseDomain
BY DEF SetWiseEmpty, SetWiseTop, SetWiseDomain, NoArrays

LEMMA SetWiseCheckedType ==
    ASSUME NEW x \in SetWiseDomain
    PROVE  SetWiseChecked(x) \in SetWiseDomain
BY SetWiseConstantsType DEF SetWiseChecked

LEMMA SetWiseUpdateType ==
    ASSUME NEW x \in SetWiseDomain, NEW t \in OwnTags
    PROVE  SetWiseUpdate(x, t) \in SetWiseDomain
<1>1. [top |-> FALSE, blocks |-> x.blocks \cup {t}, arrays |-> x.arrays]
        \in SetWiseDomain
  BY DEF SetWiseDomain
<1>2. QED
  BY <1>1, SetWiseCheckedType DEF SetWiseUpdate

LEMMA SetWisePotentialUpdateType ==
    ASSUME NEW x \in SetWiseDomain, NEW a
    PROVE  SetWisePotentialUpdate(x, a) \in SetWiseDomain
<1> DEFINE counted ==
      [b \in Arrays |-> x.arrays[b] + (IF b = a THEN 1 ELSE 0)]
<1>1. counted \in [Arrays -> Nat]
  BY DEF SetWiseDomain
<1> HIDE DEF counted
<1>2. [top |-> FALSE, blocks |-> x.blocks, arrays |-> counted] \in SetWiseDomain
  BY <1>1 DEF SetWiseDomain
<1>3. QED
  BY <1>2, SetWiseConstantsType DEF SetWisePotentialUpdate, counted

LEMMA SetWiseUnionType ==
    ASSUME NEW x \in SetWiseDomain, NEW y \in SetWiseDomain
    PROVE  LET blocks == x.blocks \cup y.blocks
           IN  [top |-> FALSE, blocks |-> blocks,
                arrays |-> [a \in Arrays |->
                              LesserOf(GreaterOf(x.arrays[a], y.arrays[a]),
                                       PerArrayBound(blocks, a))]]
                 \in SetWiseDomain
<1> DEFINE blocks == x.blocks \cup y.blocks
           counts == [a \in Arrays |->
                        LesserOf(GreaterOf(x.arrays[a], y.arrays[a]),
                                 PerArrayBound(blocks, a))]
<1>1. blocks \in SUBSET OwnTags /\ blocks \in SUBSET Tags
  BY DEF SetWiseDomain, OwnTags
<1> HIDE DEF blocks
<1>2. counts \in [Arrays -> Nat]
  <2>1. \A a \in Arrays : x.arrays[a] \in Nat /\ y.arrays[a] \in Nat
    BY DEF SetWiseDomain
  <2>2. \A a \in Arrays : PerArrayBound(blocks, a) \in Nat
    BY <1>1, UnnamedWithinBound
  <2>3. QED
    BY <2>1, <2>2 DEF LesserOf, GreaterOf
<1> HIDE DEF counts
<1>3. [top |-> FALSE, blocks |-> blocks, arrays |-> counts] \in SetWiseDomain
  BY <1>1, <1>2 DEF SetWiseDomain
<1>4. QED
  BY <1>3 DEF blocks, counts

LEMMA SetWiseJoinType ==
    ASSUME NEW x \in SetWiseDomain, NEW y \in SetWiseDomain
    PROVE  SetWiseJoin(x, y) \in SetWiseDomain
BY SetWiseUnionType, SetWiseCheckedType, SetWiseConstantsType DEF SetWiseJoin

-----------------------------------------------------------------------------
(* The lines before t, one in each way, are lines the information names,   *)
(* lines of co-runners, or one line for each access to an array.           *)

AccountsWith(x, c, t, lines) ==
    /\ lines \in [Arrays -> SUBSET Tags]
    /\ \A a \in Arrays : /\ lines[a] \subseteq LinesOf[a]
                         /\ Cardinality(lines[a]) <= x.arrays[a]
    /\ Younger(c, t) \subseteq
          x.blocks \cup CoTags \cup UNION {lines[a] : a \in Arrays}

Accounts(x, c, t) ==
    \/ x.top
    \/ t \in x.blocks /\ \E lines : AccountsWith(x, c, t, lines)

(* Giving up at the limit does no harm.                                    *)
LEMMA AccountsChecked ==
    ASSUME NEW x, NEW c, NEW t, Accounts(x, c, t)
    PROVE  Accounts(SetWiseChecked(x), c, t)
<1>1. SetWiseTop.top
  BY DEF SetWiseTop
<1>2. QED
  BY <1>1 DEF SetWiseChecked, Accounts

(* Accounts is about one line more than is known to be before t.           *)
LEMMA AgeWithinAccounts ==
    ASSUME NEW x \in SetWiseDomain, NEW c \in LruStates, NEW t \in Tags,
           Packed(c, t), Accounts(x, c, t), ~ x.top
    PROVE  c[t] < Conflicts(x) + Cardinality(CoTags)
<1>1. PICK lines : AccountsWith(x, c, t, lines)
  BY DEF Accounts
<1>2. t \in x.blocks
  BY DEF Accounts
<1> DEFINE Y == Younger(c, t)
           all == UNION {lines[a] : a \in Arrays}
           known == x.blocks \cup CoTags
<1>3. IsFiniteSet(Y) /\ c[t] <= Cardinality(Y)
  BY AgeWithinYounger
<1>4. c[t] \in Nat /\ t \notin Y
  BY AssocAssumption DEF LruStates, Ages, Younger
<1>5. IsFiniteSet(all) /\ Cardinality(all) <= ArrayAccesses(x.arrays)
  BY <1>1, LinesWithinAccesses DEF AccountsWith, SetWiseDomain
<1>6. /\ IsFiniteSet(x.blocks) /\ Cardinality(x.blocks) \in Nat
      /\ ArrayAccesses(x.arrays) \in Nat
  BY ConflictsType
<1>7. IsFiniteSet(CoTags)
  BY CoRunnerAssumption, TagsAssumption, FS_Subset
<1>8. Y \cup {t} \subseteq known \cup all
  BY <1>1, <1>2 DEF AccountsWith
<1> HIDE DEF Y, all
<1>9. IsFiniteSet(known) /\ Cardinality(known)
                              <= Cardinality(x.blocks) + Cardinality(CoTags)
  <2>1. Cardinality(x.blocks \cap CoTags) \in Nat
    BY <1>6, FS_Intersection, FS_CardinalityType
  <2>2. /\ IsFiniteSet(known)
        /\ Cardinality(known) = Cardinality(x.blocks) + Cardinality(CoTags)
                                  - Cardinality(x.blocks \cap CoTags)
    BY <1>6, <1>7, FS_Union
  <2>3. Cardinality(CoTags) \in Nat
    BY <1>7, FS_CardinalityType
  <2>4. QED
    BY <1>6, <2>1, <2>2, <2>3
<1> HIDE DEF known
<1>10. IsFiniteSet(known \cup all) /\ Cardinality(known \cup all)
                                        <= Cardinality(known) + Cardinality(all)
  <2>1. Cardinality(known \cap all) \in Nat
    BY <1>9, FS_Intersection, FS_CardinalityType
  <2>2. /\ IsFiniteSet(known \cup all)
        /\ Cardinality(known \cup all) = Cardinality(known) + Cardinality(all)
                                           - Cardinality(known \cap all)
    BY <1>5, <1>9, FS_Union
  <2>3. Cardinality(known) \in Nat /\ Cardinality(all) \in Nat
    BY <1>5, <1>9, FS_CardinalityType
  <2>4. QED
    BY <2>1, <2>2, <2>3
<1>11. Cardinality(Y \cup {t}) = Cardinality(Y) + 1
  BY <1>3, <1>4, FS_AddElement
<1>12. Cardinality(Y \cup {t}) <= Cardinality(known \cup all)
  BY <1>8, <1>10, FS_Subset
<1>13. /\ Cardinality(Y) \in Nat /\ Cardinality(known) \in Nat
       /\ Cardinality(all) \in Nat /\ Cardinality(CoTags) \in Nat
       /\ Cardinality(known \cup all) \in Nat
  BY <1>3, <1>5, <1>7, <1>9, <1>10, FS_CardinalityType
<1>14. QED
  BY <1>3, <1>4, <1>5, <1>6, <1>9, <1>10, <1>11, <1>12, <1>13 DEF Conflicts

(* Nothing is before a line that was just accessed.                        *)
LEMMA AccountsFresh ==
    ASSUME NEW x \in SetWiseDomain, NEW c \in LruStates, NEW t \in OwnTags
    PROVE  Accounts(SetWiseUpdate(x, t), Touch(c, t), t)
<1> DEFINE y == [top |-> FALSE, blocks |-> x.blocks \cup {t}, arrays |-> x.arrays]
           lines == [a \in Arrays |-> {}]
<1>1. Younger(Touch(c, t), t) = {}
  BY TouchedFirst DEF OwnTags
<1>2. \A a \in Arrays : Cardinality(lines[a]) <= x.arrays[a]
  BY FS_EmptySet DEF SetWiseDomain
<1>3. AccountsWith(x, Touch(c, t), t, lines)
  BY <1>1, <1>2 DEF AccountsWith
<1>4. AccountsWith(y, Touch(c, t), t, lines)
  BY <1>1, <1>2 DEF AccountsWith
<1> HIDE DEF lines
<1>5. Accounts(y, Touch(c, t), t)
  BY <1>4 DEF Accounts
<1> HIDE DEF y
<1>6. Accounts(SetWiseChecked(y), Touch(c, t), t)
  BY <1>5, AccountsChecked
<1>7. CASE x.top \/ t \in x.blocks
  BY <1>3, <1>7 DEF SetWiseUpdate, Accounts
<1>8. QED
  BY <1>6, <1>7 DEF SetWiseUpdate, y

(* The next line accessed is counted.                                      *)
LEMMA AccountsUpdate ==
    ASSUME NEW x \in SetWiseDomain, NEW c \in LruStates, NEW t \in Tags,
           NEW u \in OwnTags, Accounts(x, c, t)
    PROVE  Accounts(SetWiseUpdate(x, u), Touch(c, u), t)
<1> DEFINE y == [top |-> FALSE, blocks |-> x.blocks \cup {u}, arrays |-> x.arrays]
<1>1. CASE x.top
  BY <1>1 DEF SetWiseUpdate, Accounts
<1>2. CASE ~ x.top
  <2>1. PICK lines : AccountsWith(x, c, t, lines)
    BY <1>2 DEF Accounts
  <2>2. t \in x.blocks
    BY <1>2 DEF Accounts
  <2>3. Younger(Touch(c, u), t) \subseteq Younger(c, t) \cup {u}
    BY TouchYounger DEF OwnTags
  <2>4. CASE u \in x.blocks
    <3>1. AccountsWith(x, Touch(c, u), t, lines)
      BY <2>1, <2>3, <2>4 DEF AccountsWith
    <3>2. QED
      BY <2>2, <2>4, <3>1 DEF SetWiseUpdate, Accounts
  <2>5. CASE u \notin x.blocks
    <3>1. AccountsWith(y, Touch(c, u), t, lines)
      BY <2>1, <2>3 DEF AccountsWith
    <3>2. Accounts(y, Touch(c, u), t)
      BY <2>2, <3>1 DEF Accounts
    <3> HIDE DEF y
    <3>3. Accounts(SetWiseChecked(y), Touch(c, u), t)
      BY <3>2, AccountsChecked
    <3>4. QED
      BY <1>2, <2>5, <3>3 DEF SetWiseUpdate, y
  <2>6. QED
    BY <2>4, <2>5
<1>3. QED
  BY <1>1, <1>2

(* The line of a co-runner needs no counting.                              *)
LEMMA AccountsCoRunner ==
    ASSUME NEW x \in SetWiseDomain, NEW c \in LruStates, NEW t \in Tags,
           NEW u \in CoTags, Accounts(x, c, t)
    PROVE  Accounts(x, Touch(c, u), t)
<1>1. CASE x.top
  BY <1>1 DEF Accounts
<1>2. CASE ~ x.top
  <2>1. PICK lines : AccountsWith(x, c, t, lines)
    BY <1>2 DEF Accounts
  <2>2. Younger(Touch(c, u), t) \subseteq Younger(c, t) \cup {u}
    BY TouchYounger, CoRunnerAssumption
  <2>3. AccountsWith(x, Touch(c, u), t, lines)
    BY <2>1, <2>2 DEF AccountsWith
  <2>4. QED
    BY <1>2, <2>3 DEF Accounts
<1>3. QED
  BY <1>1, <1>2

(* Counting an access to an array forgets nothing ...                      *)
LEMMA AccountsPotentialElsewhere ==
    ASSUME NEW x \in SetWiseDomain, NEW c, NEW t, NEW a, Accounts(x, c, t)
    PROVE  Accounts(SetWisePotentialUpdate(x, a), c, t)
<1> DEFINE counted ==
      [b \in Arrays |-> x.arrays[b] + (IF b = a THEN 1 ELSE 0)]
           y == [top |-> FALSE, blocks |-> x.blocks, arrays |-> counted]
<1>1. CASE x.top \/ SetWisePotentialUpdate(x, a) \in {x, SetWiseTop}
  BY <1>1 DEF SetWisePotentialUpdate, SetWiseTop, Accounts
<1>2. CASE ~ x.top /\ SetWisePotentialUpdate(x, a) = y
  <2>1. PICK lines : AccountsWith(x, c, t, lines)
    BY <1>2 DEF Accounts
  <2>2. \A b \in Arrays : Cardinality(lines[b]) <= counted[b]
    <3> SUFFICES ASSUME NEW b \in Arrays
                 PROVE  Cardinality(lines[b]) <= counted[b]
      OBVIOUS
    <3>1. Cardinality(lines[b]) \in Nat /\ x.arrays[b] \in Nat
      BY <2>1, TagsAssumption, FS_Subset, FS_CardinalityType
         DEF AccountsWith, SetWiseDomain
    <3>2. Cardinality(lines[b]) <= x.arrays[b]
      BY <2>1 DEF AccountsWith
    <3>3. QED
      BY <3>1, <3>2
  <2> HIDE DEF counted
  <2>3. AccountsWith(y, c, t, lines)
    BY <2>1, <2>2 DEF AccountsWith
  <2>4. QED
    BY <1>2, <2>3 DEF Accounts
<1>3. QED
  BY <1>1, <1>2 DEF SetWisePotentialUpdate

(* ... and leaves room for the line it accessed: it is counted, or all     *)
(* lines of the array are.                                                 *)
LEMMA AccountsPotential ==
    ASSUME NEW x \in SetWiseDomain, NEW c \in LruStates, NEW t \in Tags,
           NEW a \in Arrays, NEW u \in LinesOf[a], Accounts(x, c, t)
    PROVE  Accounts(SetWisePotentialUpdate(x, a), Touch(c, u), t)
<1> DEFINE z == SetWisePotentialUpdate(x, a)
           counted ==
             [b \in Arrays |-> x.arrays[b] + (IF b = a THEN 1 ELSE 0)]
           y == [top |-> FALSE, blocks |-> x.blocks, arrays |-> counted]
<1>1. CASE z.top
  BY <1>1 DEF Accounts
<1>2. CASE ~ z.top
  <2>1. ~ x.top
    BY <1>2 DEF SetWisePotentialUpdate, SetWiseTop
  <2>2. PICK lines : AccountsWith(x, c, t, lines)
    BY <2>1 DEF Accounts
  <2>3. t \in x.blocks
    BY <2>1 DEF Accounts
  <2>4. u \in Tags /\ Younger(Touch(c, u), t) \subseteq Younger(c, t) \cup {u}
    BY TouchYounger, ArraysAssumption
  <2>5. x.blocks \in SUBSET Tags /\ \A b \in Arrays : x.arrays[b] \in Nat
    BY DEF SetWiseDomain, OwnTags
  <2>6. \A b \in Arrays : /\ lines[b] \in SUBSET Tags
                          /\ IsFiniteSet(lines[b])
                          /\ Cardinality(lines[b]) \in Nat
                          /\ Cardinality(lines[b]) <= x.arrays[b]
                          /\ lines[b] \subseteq LinesOf[b]
    BY <2>2, TagsAssumption, FS_Subset, FS_CardinalityType DEF AccountsWith
  <2>7. CASE x.arrays[a] >= PerArrayBound(x.blocks, a)
    <3> DEFINE ls == [b \in Arrays |-> IF b = a THEN LinesOf[a] \ x.blocks
                                       ELSE lines[b]]
    <3>1. z = x
      BY <2>1, <2>7 DEF SetWisePotentialUpdate
    <3>2. Cardinality(LinesOf[a] \ x.blocks) <= x.arrays[a]
      <4>1. /\ PerArrayBound(x.blocks, a) \in Nat
            /\ IsFiniteSet(LinesOf[a] \ x.blocks)
            /\ Cardinality(LinesOf[a] \ x.blocks) <= PerArrayBound(x.blocks, a)
        BY <2>5, UnnamedWithinBound
      <4>2. Cardinality(LinesOf[a] \ x.blocks) \in Nat
        BY <4>1, FS_CardinalityType
      <4>3. QED
        BY <2>5, <2>7, <4>1, <4>2
    <3>3. ls \in [Arrays -> SUBSET Tags]
      BY <2>6, ArraysAssumption
    <3>4. \A b \in Arrays : /\ ls[b] \subseteq LinesOf[b]
                            /\ Cardinality(ls[b]) <= x.arrays[b]
      BY <2>6, <3>2
    <3>5. (UNION {lines[b] : b \in Arrays}) \cup {u}
            \subseteq x.blocks \cup UNION {ls[b] : b \in Arrays}
      <4>1. \A b \in Arrays : lines[b] \subseteq x.blocks \cup ls[b]
        BY <2>6
      <4>2. u \in x.blocks \cup ls[a]
        OBVIOUS
      <4> HIDE DEF ls
      <4>3. QED
        BY <4>1, <4>2
    <3> HIDE DEF ls
    <3>6. AccountsWith(x, Touch(c, u), t, ls)
      BY <2>2, <2>4, <3>3, <3>4, <3>5 DEF AccountsWith
    <3>7. QED
      BY <2>3, <3>1, <3>6 DEF Accounts
  <2>8. CASE ~ x.arrays[a] >= PerArrayBound(x.blocks, a)
    <3> DEFINE ls == [b \in Arrays |-> IF b = a THEN lines[a] \cup {u}
                                       ELSE lines[b]]
    <3>1. z = y
      BY <1>2, <2>1, <2>8 DEF SetWisePotentialUpdate, SetWiseTop
    <3>2. ls \in [Arrays -> SUBSET Tags]
      BY <2>4, <2>6
    <3>3. \A b \in Arrays : /\ ls[b] \subseteq LinesOf[b]
                            /\ Cardinality(ls[b]) <= counted[b]
      <4> SUFFICES ASSUME NEW b \in Arrays
                   PROVE  /\ ls[b] \subseteq LinesOf[b]
                          /\ Cardinality(ls[b]) <= counted[b]
        OBVIOUS
      <4>1. CASE b = a
        <5>1. /\ IsFiniteSet(lines[a] \cup {u})
              /\ Cardinality(lines[a] \cup {u}) =
                   IF u \in lines[a] THEN Cardinality(lines[a])
                   ELSE Cardinality(lines[a]) + 1
          BY <2>6, FS_AddElement
        <5>2. Cardinality(lines[a] \cup {u}) \in Nat
          BY <5>1, FS_CardinalityType
        <5>3. Cardinality(lines[a] \cup {u}) <= x.arrays[a] + 1
          BY <2>5, <2>6, <5>1, <5>2
        <5>4. QED
          BY <2>6, <4>1, <5>3
      <4>2. CASE b # a
        BY <2>5, <2>6, <4>2
      <4>3. QED
        BY <4>1, <4>2
    <3>4. (UNION {lines[b] : b \in Arrays}) \cup {u}
            \subseteq UNION {ls[b] : b \in Arrays}
      <4>1. \A b \in Arrays : lines[b] \subseteq ls[b]
        OBVIOUS
      <4>2. u \in ls[a]
        OBVIOUS
      <4> HIDE DEF ls
      <4>3. QED
        BY <4>1, <4>2
    <3> HIDE DEF ls, counted
    <3>5. AccountsWith(y, Touch(c, u), t, ls)
      BY <2>2, <2>4, <3>2, <3>3, <3>4 DEF AccountsWith
    <3>6. QED
      BY <2>3, <3>1, <3>5 DEF Accounts
  <2>9. QED
    BY <2>7, <2>8
<1>3. QED
  BY <1>1, <1>2

(* A join knows what either side knows.                                    *)
LEMMA AccountsJoin ==
    ASSUME NEW x \in SetWiseDomain, NEW y \in SetWiseDomain,
           NEW c \in LruStates, NEW t \in Tags,
           Accounts(x, c, t) \/ Accounts(y, c, t)
    PROVE  Accounts(SetWiseJoin(x, y), c, t)
<1> DEFINE blocks == x.blocks \cup y.blocks
           counts == [a \in Arrays |->
                        LesserOf(GreaterOf(x.arrays[a], y.arrays[a]),
                                 PerArrayBound(blocks, a))]
           join == [top |-> FALSE, blocks |-> blocks, arrays |-> counts]
<1>1. CASE x.top \/ y.top
  BY <1>1 DEF SetWiseJoin, SetWiseTop, Accounts
<1>2. CASE ~ (x.top \/ y.top)
  <2>1. PICK s \in {x, y} : Accounts(s, c, t)
    OBVIOUS
  <2>2. ~ s.top /\ s \in SetWiseDomain
    BY <1>2
  <2>3. PICK lines : AccountsWith(s, c, t, lines)
    BY <2>1, <2>2 DEF Accounts
  <2>4. t \in blocks /\ s.blocks \subseteq blocks /\ blocks \in SUBSET Tags
    BY <2>1, <2>2 DEF Accounts, SetWiseDomain, OwnTags
  <2> DEFINE ls == [a \in Arrays |-> lines[a] \ blocks]
  <2>5. ls \in [Arrays -> SUBSET Tags]
    BY <2>3 DEF AccountsWith
  <2>6. \A a \in Arrays : /\ ls[a] \subseteq LinesOf[a]
                          /\ Cardinality(ls[a]) <= counts[a]
    <3> SUFFICES ASSUME NEW a \in Arrays
                 PROVE  /\ ls[a] \subseteq LinesOf[a]
                        /\ Cardinality(ls[a]) <= counts[a]
      OBVIOUS
    <3> HIDE DEF blocks
    <3>1. /\ lines[a] \in SUBSET Tags /\ lines[a] \subseteq LinesOf[a]
          /\ Cardinality(lines[a]) <= s.arrays[a]
      BY <2>3 DEF AccountsWith
    <3>2. IsFiniteSet(lines[a]) /\ Cardinality(lines[a]) \in Nat
      BY <3>1, TagsAssumption, FS_Subset, FS_CardinalityType
    <3>3. /\ IsFiniteSet(lines[a] \ blocks)
          /\ Cardinality(lines[a] \ blocks) <= Cardinality(lines[a])
      BY <3>2, FS_Subset
    <3>4. /\ PerArrayBound(blocks, a) \in Nat
          /\ IsFiniteSet(LinesOf[a] \ blocks)
          /\ Cardinality(LinesOf[a] \ blocks) <= PerArrayBound(blocks, a)
      BY <2>4, UnnamedWithinBound
    <3>5. Cardinality(lines[a] \ blocks) <= Cardinality(LinesOf[a] \ blocks)
      <4>1. lines[a] \ blocks \in SUBSET (LinesOf[a] \ blocks)
        BY <3>1
      <4>2. QED
        BY <3>4, <4>1, FS_Subset
    <3>6. /\ Cardinality(lines[a] \ blocks) \in Nat
          /\ Cardinality(LinesOf[a] \ blocks) \in Nat
      BY <3>3, <3>4, FS_CardinalityType
    <3>7. x.arrays[a] \in Nat /\ y.arrays[a] \in Nat
      BY DEF SetWiseDomain
    <3>8. s.arrays[a] \in Nat /\ s.arrays[a] <= GreaterOf(x.arrays[a], y.arrays[a])
      BY <3>7 DEF GreaterOf
    <3>9. GreaterOf(x.arrays[a], y.arrays[a]) \in Nat
      BY <3>7 DEF GreaterOf
    <3> DEFINE g == GreaterOf(x.arrays[a], y.arrays[a])
               n == Cardinality(lines[a] \ blocks)
    <3>10. n <= g /\ n <= PerArrayBound(blocks, a)
      BY <3>1, <3>2, <3>3, <3>4, <3>5, <3>6, <3>8, <3>9
    <3>11. n <= LesserOf(g, PerArrayBound(blocks, a))
      BY <3>10 DEF LesserOf
    <3>12. QED
      BY <3>1, <3>11
  <2>7. UNION {lines[a] : a \in Arrays}
          \subseteq blocks \cup UNION {ls[a] : a \in Arrays}
    <3>1. \A a \in Arrays : lines[a] \subseteq blocks \cup ls[a]
      OBVIOUS
    <3> HIDE DEF ls, blocks
    <3>2. QED
      BY <3>1
  <2> HIDE DEF ls, blocks, counts
  <2>8. AccountsWith(join, c, t, ls)
    BY <2>3, <2>4, <2>5, <2>6, <2>7 DEF AccountsWith
  <2>9. Accounts(join, c, t)
    BY <2>4, <2>8 DEF Accounts
  <2> HIDE DEF join
  <2>10. Accounts(SetWiseChecked(join), c, t)
    BY <2>9, AccountsChecked
  <2>11. QED
    BY <1>2, <2>10 DEF SetWiseJoin, join, counts, blocks
<1>3. QED
  BY <1>1, <1>2

-----------------------------------------------------------------------------
(* Information that was not given up names no more lines than there are    *)
(* ways: what is counted is tested, but for accesses to arrays.            *)

WithinLimit(x) ==
    x = SetWiseTop \/ (~ x.top /\ Cardinality(x.blocks) <= Assoc)

LEMMA LimitChecked ==
    ASSUME NEW x \in SetWiseDomain, ~ x.top
    PROVE  WithinLimit(SetWiseChecked(x))
<1>1. /\ Cardinality(x.blocks) \in Nat /\ ArrayAccesses(x.arrays) \in Nat
  BY ConflictsType
<1>2. QED
  BY <1>1, AssocAssumption
     DEF SetWiseChecked, SetWiseTop, WithinLimit, Conflicts

LEMMA LimitKept ==
    ASSUME NEW x \in SetWiseDomain, WithinLimit(x)
    PROVE  /\ \A t \in OwnTags : WithinLimit(SetWiseUpdate(x, t))
           /\ \A a : WithinLimit(SetWisePotentialUpdate(x, a))
           /\ \A y \in SetWiseDomain : WithinLimit(SetWiseJoin(x, y))
<1>1. ASSUME NEW t \in OwnTags
      PROVE  WithinLimit(SetWiseUpdate(x, t))
  <2>1. [top |-> FALSE, blocks |-> x.blocks \cup {t}, arrays |-> x.arrays]
          \in SetWiseDomain
    BY DEF SetWiseDomain
  <2>2. QED
    BY <2>1, LimitChecked DEF SetWiseUpdate
<1>2. ASSUME NEW a
      PROVE  WithinLimit(SetWisePotentialUpdate(x, a))
  BY DEF SetWisePotentialUpdate, WithinLimit, SetWiseTop
<1>3. ASSUME NEW y \in SetWiseDomain
      PROVE  WithinLimit(SetWiseJoin(x, y))
  BY SetWiseUnionType, LimitChecked DEF SetWiseJoin, WithinLimit, SetWiseTop
<1>4. QED
  BY <1>1, <1>2, <1>3

LEMMA NoArrayAccesses ==
    ASSUME Arrays = {}, NEW arrays \in [Arrays -> Nat]
    PROVE  ArrayAccesses(arrays) = 0
<1>1. PICK sum \in [SUBSET Arrays -> Nat] :
         IsSum(sum, arrays) /\ ArrayAccesses(arrays) = sum[Arrays]
  BY ArrayAccessesIs
<1>2. sum[{}] = 0
  BY <1>1 DEF IsSum
<1>3. QED
  BY <1>1, <1>2

(* A line accounted for is still cached if the information calls it        *)
(* persistent, counting at least as many lines of co-runners as there are. *)
LEMMA PersistentIsCached ==
    ASSUME NEW x \in SetWiseDomain, NEW c \in LruStates, NEW t \in Tags,
           NEW coLines \in Nat, Cardinality(CoTags) <= coLines,
           Arrays = {} \/ LiangY,
           Packed(c, t), Accounts(x, c, t), WithinLimit(x),
           SetWisePersistent(x, coLines)
    PROVE  Cached(c, t)
<1>1. c[t] < Conflicts(x) + Cardinality(CoTags)
  BY AgeWithinAccounts DEF SetWisePersistent
<1>2. c[t] \in Nat /\ Conflicts(x) \in Nat /\ Cardinality(x.blocks) \in Nat
  BY ConflictsType, AssocAssumption DEF LruStates, Ages
<1>3. Cardinality(CoTags) \in Nat
  BY CoRunnerAssumption, TagsAssumption, FS_Subset, FS_CardinalityType
<1>4. CASE LiangY
  BY <1>1, <1>2, <1>3, <1>4, AssocAssumption DEF SetWisePersistent, Cached
<1>5. CASE ~ LiangY
  <2>1. CoTags = {} /\ Arrays = {}
    BY <1>5, CoRunnerAssumption
  <2>2. Cardinality(CoTags) = 0
    BY <2>1, FS_EmptySet
  <2>3. ArrayAccesses(x.arrays) = 0
    BY <2>1, NoArrayAccesses DEF SetWiseDomain
  <2>4. Cardinality(x.blocks) <= Assoc
    BY DEF WithinLimit, SetWisePersistent, SetWiseTop
  <2>5. QED
    BY <1>1, <1>2, <2>2, <2>3, <2>4, AssocAssumption DEF Conflicts, Cached
<1>6. QED
  BY <1>4, <1>5, CoRunnerAssumption

-----------------------------------------------------------------------------
(* The order of set-wise information.                                      *)

(* Joining a side again changes nothing.                                   *)
LEMMA SetWiseJoinAbove ==
    ASSUME NEW x \in SetWiseDomain, NEW y \in SetWiseDomain
    PROVE  /\ SetWiseLessEqual(x, SetWiseJoin(x, y))
           /\ SetWiseLessEqual(y, SetWiseJoin(x, y))
<1> DEFINE blocks == x.blocks \cup y.blocks
           counts == [a \in Arrays |->
                        LesserOf(GreaterOf(x.arrays[a], y.arrays[a]),
                                 PerArrayBound(blocks, a))]
           join == [top |-> FALSE, blocks |-> blocks, arrays |-> counts]
           j == SetWiseJoin(x, y)
<1>1. CASE j.top
  <2>1. j = SetWiseTop
    BY <1>1 DEF SetWiseJoin, SetWiseChecked
  <2>2. QED
    BY <2>1 DEF SetWiseLessEqual, SetWiseJoin, SetWiseTop
<1>2. CASE ~ j.top
  <2>1. ~ x.top /\ ~ y.top /\ j = join /\ ~ Conflicts(join) > Assoc
    BY <1>2 DEF SetWiseJoin, SetWiseChecked, SetWiseTop
  <2>2. ASSUME NEW z \in {x, y}
        PROVE  SetWiseJoin(z, join) = join
    <3> DEFINE again == [a \in Arrays |->
                           LesserOf(GreaterOf(z.arrays[a], counts[a]),
                                    PerArrayBound(blocks, a))]
    <3>1. z.blocks \cup blocks = blocks
      OBVIOUS
    <3>2. \A a \in Arrays : again[a] = counts[a]
      <4> SUFFICES ASSUME NEW a \in Arrays
                   PROVE  again[a] = counts[a]
        OBVIOUS
      <4> HIDE DEF blocks
      <4>1. blocks \in SUBSET Tags
        BY DEF blocks, SetWiseDomain, OwnTags
      <4>2. PerArrayBound(blocks, a) \in Nat
        BY <4>1, UnnamedWithinBound
      <4>3. x.arrays[a] \in Nat /\ y.arrays[a] \in Nat
        BY DEF SetWiseDomain
      <4>4. counts[a] = LesserOf(GreaterOf(x.arrays[a], y.arrays[a]),
                                 PerArrayBound(blocks, a))
        OBVIOUS
      <4>5. again[a] = LesserOf(GreaterOf(z.arrays[a], counts[a]),
                                PerArrayBound(blocks, a))
        OBVIOUS
      <4> HIDE DEF counts, again
      <4>6. QED
        BY <4>2, <4>3, <4>4, <4>5 DEF LesserOf, GreaterOf
    <3>3. again = counts
      BY <3>2
    <3>4. join.blocks = blocks /\ join.arrays = counts /\ ~ join.top
      OBVIOUS
    <3>5. SetWiseJoin(z, join) =
            SetWiseChecked([top |-> FALSE, blocks |-> blocks, arrays |-> again])
      <4> HIDE DEF join, blocks, counts
      <4>1. ~ (z.top \/ join.top)
        BY <2>1, <3>4
      <4>2. QED
        BY <3>1, <3>4, <4>1 DEF SetWiseJoin
    <3>6. SetWiseJoin(z, join) = SetWiseChecked(join)
      BY <3>3, <3>5
    <3> HIDE DEF join
    <3>7. QED
      BY <2>1, <3>6 DEF SetWiseChecked
  <2>3. QED
    BY <2>1, <2>2 DEF SetWiseLessEqual
<1>3. QED
  BY <1>1, <1>2

(* Without arrays the order is that of the sets of lines, with top above   *)
(* them all.                                                               *)
LEMMA SetWiseOrder ==
    ASSUME Arrays = {}, NEW x \in SetWiseDomain, WithinLimit(x),
           NEW y \in SetWiseDomain, WithinLimit(y)
    PROVE  SetWiseLessEqual(x, y) <=>
              y = SetWiseTop \/ (~ x.top /\ ~ y.top /\ x.blocks \subseteq y.blocks)
<1>1. CASE y = SetWiseTop
  BY <1>1 DEF SetWiseLessEqual, SetWiseJoin, SetWiseTop
<1>2. CASE y # SetWiseTop /\ x.top
  <2>1. SetWiseJoin(x, y) = SetWiseTop
    BY <1>2 DEF SetWiseJoin
  <2>2. QED
    BY <1>2, <2>1 DEF SetWiseLessEqual
<1>3. CASE y # SetWiseTop /\ ~ x.top
  <2> DEFINE join == [top |-> FALSE, blocks |-> x.blocks \cup y.blocks,
                      arrays |-> [a \in Arrays |->
                         LesserOf(GreaterOf(x.arrays[a], y.arrays[a]),
                                  PerArrayBound(x.blocks \cup y.blocks, a))]]
  <2>1. ~ y.top /\ Cardinality(y.blocks) <= Assoc
    BY <1>3 DEF WithinLimit
  <2>2. y = [top |-> FALSE, blocks |-> y.blocks, arrays |-> y.arrays]
    BY <2>1 DEF SetWiseDomain
  <2>3. SetWiseJoin(x, y) = SetWiseChecked(join)
    BY <1>3, <2>1 DEF SetWiseJoin
  <2>4. ASSUME x.blocks \subseteq y.blocks
        PROVE  SetWiseJoin(x, y) = y
    <3>1. join.blocks = y.blocks
      BY <2>4
    <3>2. join.arrays = y.arrays
      BY DEF SetWiseDomain
    <3>3. join = y
      BY <2>2, <3>1, <3>2
    <3>4. ArrayAccesses(y.arrays) = 0
      BY NoArrayAccesses DEF SetWiseDomain
    <3>5. ~ Conflicts(y) > Assoc
      BY <2>1, <3>4, ConflictsType, AssocAssumption DEF Conflicts
    <3> HIDE DEF join
    <3>6. QED
      BY <2>3, <3>3, <3>5 DEF SetWiseChecked
  <2>5. ASSUME SetWiseJoin(x, y) = y
        PROVE  x.blocks \subseteq y.blocks
    <3>1. SetWiseChecked(join) # SetWiseTop
      BY <1>3, <2>3, <2>5
    <3>2. y = join
      BY <2>3, <2>5, <3>1 DEF SetWiseChecked
    <3>3. y.blocks = x.blocks \cup y.blocks
      BY <3>2
    <3>4. QED
      BY <3>3
  <2>6. QED
    BY <1>3, <2>1, <2>4, <2>5 DEF SetWiseLessEqual
<1>4. QED
  BY <1>1, <1>2, <1>3

(* What is below what is counted is counted without giving up.             *)
LEMMA SetWiseUpdateMonotone ==
    ASSUME Arrays = {}, NEW x \in SetWiseDomain, WithinLimit(x),
           NEW y \in SetWiseDomain, WithinLimit(y),
           SetWiseLessEqual(x, y), NEW t \in OwnTags
    PROVE  SetWiseLessEqual(SetWiseUpdate(x, t), SetWiseUpdate(y, t))
<1> DEFINE u == SetWiseUpdate(x, t)
           v == SetWiseUpdate(y, t)
<1>1. /\ u \in SetWiseDomain /\ WithinLimit(u)
      /\ v \in SetWiseDomain /\ WithinLimit(v)
  BY SetWiseUpdateType, LimitKept
<1>2. v = SetWiseTop \/ (~ u.top /\ ~ v.top /\ u.blocks \subseteq v.blocks)
  <2>1. CASE y = SetWiseTop
    BY <2>1 DEF SetWiseUpdate, SetWiseTop
  <2>2. CASE y # SetWiseTop
    <3>1. ~ x.top /\ ~ y.top /\ x.blocks \subseteq y.blocks
      BY <2>2, SetWiseOrder
    <3>2. v = SetWiseTop \/ (~ v.top /\ v.blocks = y.blocks \cup {t}
                               /\ Cardinality(y.blocks \cup {t}) <= Assoc)
      <4>1. v = SetWiseTop \/ (~ v.top /\ v.blocks = y.blocks \cup {t})
        BY <3>1 DEF SetWiseUpdate, SetWiseChecked
      <4>2. QED
        BY <1>1, <4>1 DEF WithinLimit, SetWiseTop
    <3>3. CASE v = SetWiseTop
      BY <3>3
    <3>4. CASE v # SetWiseTop
      <4> DEFINE b == x.blocks \cup {t}
      <4>1. Cardinality(b) <= Assoc
        <5>1. y.blocks \cup {t} \in SUBSET Tags
          BY DEF SetWiseDomain, OwnTags
        <5>2. IsFiniteSet(y.blocks \cup {t})
          BY <5>1, TagsAssumption, FS_Subset
        <5>3. b \in SUBSET (y.blocks \cup {t})
          BY <3>1
        <5>4. /\ IsFiniteSet(b)
              /\ Cardinality(b) <= Cardinality(y.blocks \cup {t})
          BY <5>2, <5>3, FS_Subset
        <5>5. Cardinality(b) \in Nat /\ Cardinality(y.blocks \cup {t}) \in Nat
          BY <5>2, <5>4, FS_CardinalityType
        <5>6. QED
          BY <3>2, <3>4, <5>4, <5>5, AssocAssumption
      <4>2. ~ u.top /\ u.blocks = b
        <5>1. CASE t \in x.blocks
          BY <3>1, <5>1 DEF SetWiseUpdate
        <5>2. CASE t \notin x.blocks
          <6> DEFINE z == [top |-> FALSE, blocks |-> b, arrays |-> x.arrays]
          <6>1. z \in SetWiseDomain
            BY DEF SetWiseDomain
          <6>2. ArrayAccesses(x.arrays) = 0
            BY NoArrayAccesses DEF SetWiseDomain
          <6>3. ~ Conflicts(z) > Assoc
            <7>1. z.blocks = b /\ z.arrays = x.arrays
              OBVIOUS
            <7> HIDE DEF z, b
            <7>2. Cardinality(b) \in Nat
              BY <6>1, <7>1, ConflictsType
            <7>3. QED
              BY <4>1, <6>2, <7>1, <7>2, AssocAssumption DEF Conflicts
          <6>4. u = SetWiseChecked(z)
            BY <3>1, <5>2 DEF SetWiseUpdate
          <6>5. QED
            BY <6>3, <6>4 DEF SetWiseChecked
        <5>3. QED
          BY <5>1, <5>2
      <4>3. QED
        BY <3>1, <3>2, <3>4, <4>2
    <3>5. QED
      BY <3>3, <3>4
  <2>3. QED
    BY <2>1, <2>2
<1> HIDE DEF u, v
<1>3. SetWiseLessEqual(u, v)
  BY <1>1, <1>2, SetWiseOrder
<1>4. QED
  BY <1>3 DEF u, v

-----------------------------------------------------------------------------
(* The three analyses, and the scopes they are asked about.                *)

Types == {"SETWISE", "ELEWISE", "CONDMUST"}

(* What any analysis keeps for a scope: it names no more lines than there  *)
(* are ways.                                                               *)
Limited(i) ==
    CASE persType = "SETWISE"  -> WithinLimit(i)
      [] persType = "ELEWISE"  -> \A t \in DOMAIN i : WithinLimit(i[t])
      [] persType = "CONDMUST" -> TRUE

(* The lines before line t of cache c are counted.                         *)
AccountsFor(i, c, t) ==
    CASE persType = "SETWISE"  -> Accounts(i, c, t)
      [] persType = "ELEWISE"  -> t \in DOMAIN i /\ Accounts(i[t], c, t)
      [] persType = "CONDMUST" -> TRUE

-----------------------------------------------------------------------------
(* The operators of the chosen analysis.                                   *)

LEMMA EmptyLimit == WithinLimit(SetWiseEmpty)
BY FS_EmptySet, AssocAssumption DEF WithinLimit, SetWiseEmpty

LEMMA NewInfoType ==
    ASSUME persType \in Types
    PROVE  IsInfo(NewInfo) /\ Limited(NewInfo)
<1>1. CASE persType = "SETWISE"
  BY <1>1, EmptyLimit, SetWiseConstantsType DEF NewInfo, IsInfo, Limited
<1>2. CASE persType = "ELEWISE"
  BY <1>2 DEF NewInfo, IsInfo, Limited, ElementWiseEmpty
<1>3. CASE persType = "CONDMUST"
  BY <1>3 DEF NewInfo, IsInfo, Limited, CondMustEmpty
<1>4. QED
  BY <1>1, <1>2, <1>3 DEF Types

LEMMA UpdateType ==
    ASSUME persType \in Types, NEW i, IsInfo(i), Limited(i), NEW t \in OwnTags
    PROVE  IsInfo(UpdateInfo(i, t)) /\ Limited(UpdateInfo(i, t))
<1>1. CASE persType = "SETWISE"
  <2>1. i \in SetWiseDomain /\ WithinLimit(i)
    BY <1>1 DEF IsInfo, Limited
  <2>2. SetWiseUpdate(i, t) \in SetWiseDomain /\ WithinLimit(SetWiseUpdate(i, t))
    BY <2>1, SetWiseUpdateType, LimitKept
  <2>3. QED
    BY <1>1, <2>2 DEF IsInfo, Limited, UpdateInfo
<1>2. CASE persType = "ELEWISE"
  <2> DEFINE j == ElementWiseUpdate(i, t)
             old(s) == IF s = t THEN SetWiseEmpty ELSE i[s]
  <2>1. /\ DOMAIN i \subseteq OwnTags
        /\ \A s \in DOMAIN i : i[s] \in SetWiseDomain /\ WithinLimit(i[s])
    BY <1>2 DEF IsInfo, Limited
  <2>2. j = [s \in DOMAIN i \cup {t} |-> SetWiseUpdate(old(s), t)]
    BY DEF ElementWiseUpdate
  <2>3. \A s \in DOMAIN i \cup {t} :
           old(s) \in SetWiseDomain /\ WithinLimit(old(s))
    BY <2>1, EmptyLimit, SetWiseConstantsType
  <2> HIDE DEF old
  <2>4. \A s \in DOMAIN i \cup {t} :
           /\ SetWiseUpdate(old(s), t) \in SetWiseDomain
           /\ WithinLimit(SetWiseUpdate(old(s), t))
    BY <2>3, SetWiseUpdateType, LimitKept
  <2> HIDE DEF j
  <2>5. /\ DOMAIN j \subseteq OwnTags
        /\ j \in [DOMAIN j -> SetWiseDomain]
        /\ \A s \in DOMAIN j : WithinLimit(j[s])
    BY <2>1, <2>2, <2>4
  <2>6. QED
    BY <1>2, <2>5 DEF IsInfo, Limited, UpdateInfo, j
<1>3. CASE persType = "CONDMUST"
  <2> DEFINE j == CondMustUpdate(i, t)
  <2>1. /\ DOMAIN i \subseteq OwnTags
        /\ \A s \in DOMAIN i : i[s] \in 0 .. Assoc + 1
    BY <1>3 DEF IsInfo
  <2>2. /\ DOMAIN j \subseteq OwnTags
        /\ j \in [DOMAIN j -> 0 .. Assoc + 1]
    BY <2>1, AssocAssumption DEF CondMustUpdate, CondMustAged
  <2>3. QED
    BY <1>3, <2>2 DEF IsInfo, Limited, UpdateInfo
<1>4. QED
  BY <1>1, <1>2, <1>3 DEF Types

LEMMA PotentialUpdateType ==
    ASSUME persType \in Types, NEW i, IsInfo(i), Limited(i), NEW a
    PROVE  IsInfo(PotentialUpdateInfo(i, a)) /\ Limited(PotentialUpdateInfo(i, a))
<1>1. CASE persType = "SETWISE"
  <2>1. i \in SetWiseDomain /\ WithinLimit(i)
    BY <1>1 DEF IsInfo, Limited
  <2>2. /\ SetWisePotentialUpdate(i, a) \in SetWiseDomain
        /\ WithinLimit(SetWisePotentialUpdate(i, a))
    BY <2>1, SetWisePotentialUpdateType, LimitKept
  <2>3. QED
    BY <1>1, <2>2 DEF IsInfo, Limited, PotentialUpdateInfo
<1>2. CASE persType = "ELEWISE"
  <2> DEFINE j == ElementWisePotentialUpdate(i, a)
  <2>1. /\ DOMAIN i \subseteq OwnTags
        /\ \A s \in DOMAIN i : i[s] \in SetWiseDomain /\ WithinLimit(i[s])
    BY <1>2 DEF IsInfo, Limited
  <2>2. \A s \in DOMAIN i :
           /\ SetWisePotentialUpdate(i[s], a) \in SetWiseDomain
           /\ WithinLimit(SetWisePotentialUpdate(i[s], a))
    BY <2>1, SetWisePotentialUpdateType, LimitKept
  <2>3. j = [s \in DOMAIN i |-> SetWisePotentialUpdate(i[s], a)]
    BY DEF ElementWisePotentialUpdate
  <2> HIDE DEF j
  <2>4. /\ DOMAIN j \subseteq OwnTags
        /\ j \in [DOMAIN j -> SetWiseDomain]
        /\ \A s \in DOMAIN j : WithinLimit(j[s])
    BY <2>1, <2>2, <2>3
  <2>5. QED
    BY <1>2, <2>4 DEF IsInfo, Limited, PotentialUpdateInfo, j
<1>3. CASE persType = "CONDMUST"
  <2> DEFINE j == CondMustPotentialUpdate(i)
  <2>1. /\ DOMAIN i \subseteq OwnTags
        /\ \A s \in DOMAIN i : i[s] \in 0 .. Assoc + 1
    BY <1>3 DEF IsInfo
  <2>2. /\ DOMAIN j \subseteq OwnTags
        /\ j \in [DOMAIN j -> 0 .. Assoc + 1]
    BY <2>1, AssocAssumption DEF CondMustPotentialUpdate, CondMustAged
  <2>3. QED
    BY <1>3, <2>2 DEF IsInfo, Limited, PotentialUpdateInfo
<1>4. QED
  BY <1>1, <1>2, <1>3 DEF Types

LEMMA JoinType ==
    ASSUME persType \in Types, NEW i, IsInfo(i), Limited(i),
           NEW j, IsInfo(j), Limited(j)
    PROVE  IsInfo(JoinInfo(i, j)) /\ Limited(JoinInfo(i, j))
<1>1. CASE persType = "SETWISE"
  <2>1. i \in SetWiseDomain /\ WithinLimit(i) /\ j \in SetWiseDomain
    BY <1>1 DEF IsInfo, Limited
  <2>2. SetWiseJoin(i, j) \in SetWiseDomain /\ WithinLimit(SetWiseJoin(i, j))
    BY <2>1, SetWiseJoinType, LimitKept
  <2>3. QED
    BY <1>1, <2>2 DEF IsInfo, Limited, JoinInfo
<1>2. CASE persType = "ELEWISE"
  <2> DEFINE k == ElementWiseJoin(i, j)
  <2>1. /\ DOMAIN i \subseteq OwnTags
        /\ \A s \in DOMAIN i : i[s] \in SetWiseDomain /\ WithinLimit(i[s])
    BY <1>2 DEF IsInfo, Limited
  <2>2. /\ DOMAIN j \subseteq OwnTags
        /\ \A s \in DOMAIN j : j[s] \in SetWiseDomain /\ WithinLimit(j[s])
    BY <1>2 DEF IsInfo, Limited
  <2>3. \A s \in DOMAIN i : s \in DOMAIN j =>
           /\ SetWiseJoin(i[s], j[s]) \in SetWiseDomain
           /\ WithinLimit(SetWiseJoin(i[s], j[s]))
    BY <2>1, <2>2, SetWiseJoinType, LimitKept
  <2>4. k = [s \in DOMAIN i \cup DOMAIN j |->
               IF s \notin DOMAIN j THEN i[s]
               ELSE IF s \notin DOMAIN i THEN j[s]
               ELSE SetWiseJoin(i[s], j[s])]
    BY DEF ElementWiseJoin
  <2> HIDE DEF k
  <2>5. /\ DOMAIN k \subseteq OwnTags
        /\ \A s \in DOMAIN k : k[s] \in SetWiseDomain /\ WithinLimit(k[s])
    BY <2>1, <2>2, <2>3, <2>4
  <2>6. k \in [DOMAIN k -> SetWiseDomain]
    BY <2>4, <2>5
  <2>7. QED
    BY <1>2, <2>5, <2>6 DEF IsInfo, Limited, JoinInfo, k
<1>3. CASE persType = "CONDMUST"
  <2> DEFINE k == CondMustJoin(i, j)
  <2>1. /\ DOMAIN i \subseteq OwnTags /\ DOMAIN j \subseteq OwnTags
        /\ \A s \in DOMAIN i : i[s] \in 0 .. Assoc + 1
        /\ \A s \in DOMAIN j : j[s] \in 0 .. Assoc + 1
    BY <1>3 DEF IsInfo
  <2>2. /\ DOMAIN k \subseteq OwnTags
        /\ k \in [DOMAIN k -> 0 .. Assoc + 1]
    BY <2>1, AssocAssumption DEF CondMustJoin, GreaterOf
  <2>3. QED
    BY <1>3, <2>2 DEF IsInfo, Limited, JoinInfo
<1>4. QED
  BY <1>1, <1>2, <1>3 DEF Types

(* A precise access: nothing is before the line, and it is counted by the  *)
(* others.                                                                 *)
LEMMA UpdateAccounts ==
    ASSUME persType \in Types, NEW i, IsInfo(i), NEW c \in LruStates,
           NEW u \in OwnTags
    PROVE  /\ AccountsFor(UpdateInfo(i, u), Touch(c, u), u)
           /\ \A t \in OwnTags : AccountsFor(i, c, t) =>
                 AccountsFor(UpdateInfo(i, u), Touch(c, u), t)
<1>1. u \in Tags /\ \A t \in OwnTags : t \in Tags
  BY DEF OwnTags
<1>2. CASE persType = "SETWISE"
  <2>1. i \in SetWiseDomain
    BY <1>2 DEF IsInfo
  <2>2. Accounts(SetWiseUpdate(i, u), Touch(c, u), u)
    BY <2>1, AccountsFresh
  <2>3. \A t \in OwnTags : Accounts(i, c, t) =>
           Accounts(SetWiseUpdate(i, u), Touch(c, u), t)
    BY <1>1, <2>1, AccountsUpdate
  <2>4. QED
    BY <1>2, <2>2, <2>3 DEF AccountsFor, UpdateInfo
<1>3. CASE persType = "ELEWISE"
  <2> DEFINE j == ElementWiseUpdate(i, u)
  <2>1. \A s \in DOMAIN i : i[s] \in SetWiseDomain
    BY <1>3 DEF IsInfo
  <2>2. /\ DOMAIN j = DOMAIN i \cup {u}
        /\ j[u] = SetWiseUpdate(SetWiseEmpty, u)
        /\ \A t \in DOMAIN i : t # u => j[t] = SetWiseUpdate(i[t], u)
    BY DEF ElementWiseUpdate
  <2> HIDE DEF j
  <2>3. Accounts(SetWiseUpdate(SetWiseEmpty, u), Touch(c, u), u)
    BY AccountsFresh, SetWiseConstantsType
  <2>4. \A t \in OwnTags : t \in DOMAIN i /\ Accounts(i[t], c, t) =>
           Accounts(SetWiseUpdate(i[t], u), Touch(c, u), t)
    BY <1>1, <2>1, AccountsUpdate
  <2>5. /\ u \in DOMAIN j /\ Accounts(j[u], Touch(c, u), u)
        /\ \A t \in OwnTags : t \in DOMAIN i /\ Accounts(i[t], c, t) =>
              t \in DOMAIN j /\ Accounts(j[t], Touch(c, u), t)
    BY <2>2, <2>3, <2>4
  <2>6. QED
    BY <1>3, <2>5 DEF AccountsFor, UpdateInfo, j
<1>4. CASE persType = "CONDMUST"
  BY <1>4 DEF AccountsFor
<1>5. QED
  BY <1>2, <1>3, <1>4 DEF Types

(* An access to an array: whether it is to a line of this set, or not.     *)
LEMMA PotentialUpdateAccounts ==
    ASSUME persType \in Types, NEW i, IsInfo(i), NEW c \in LruStates,
           NEW t \in OwnTags, AccountsFor(i, c, t), NEW a
    PROVE  /\ AccountsFor(PotentialUpdateInfo(i, a), c, t)
           /\ a \in Arrays => \A u \in LinesOf[a] :
                 AccountsFor(PotentialUpdateInfo(i, a), Touch(c, u), t)
           /\ a \notin Arrays => \A u \in Tags :
                 AccountsFor(PotentialUpdateInfo(i, a), Touch(c, u), t)
<1>1. t \in Tags
  BY DEF OwnTags
<1>2. ASSUME NEW x \in SetWiseDomain, Accounts(x, c, t)
      PROVE  /\ Accounts(SetWisePotentialUpdate(x, a), c, t)
             /\ a \in Arrays => \A u \in LinesOf[a] :
                   Accounts(SetWisePotentialUpdate(x, a), Touch(c, u), t)
             /\ a \notin Arrays => \A u \in Tags :
                   Accounts(SetWisePotentialUpdate(x, a), Touch(c, u), t)
  <2>1. Accounts(SetWisePotentialUpdate(x, a), c, t)
    BY <1>2, AccountsPotentialElsewhere
  <2>2. ASSUME a \in Arrays, NEW u \in LinesOf[a]
        PROVE  Accounts(SetWisePotentialUpdate(x, a), Touch(c, u), t)
    BY <1>1, <1>2, <2>2, AccountsPotential
  <2>3. ASSUME a \notin Arrays, NEW u \in Tags
        PROVE  Accounts(SetWisePotentialUpdate(x, a), Touch(c, u), t)
    BY <2>3 DEF SetWisePotentialUpdate, SetWiseTop, Accounts
  <2>4. QED
    BY <2>1, <2>2, <2>3
<1>3. CASE persType = "SETWISE"
  <2>1. i \in SetWiseDomain /\ Accounts(i, c, t)
    BY <1>3 DEF IsInfo, AccountsFor
  <2>2. QED
    BY <1>2, <1>3, <2>1 DEF AccountsFor, PotentialUpdateInfo
<1>4. CASE persType = "ELEWISE"
  <2> DEFINE j == ElementWisePotentialUpdate(i, a)
  <2>1. t \in DOMAIN i /\ i[t] \in SetWiseDomain /\ Accounts(i[t], c, t)
    BY <1>4 DEF IsInfo, AccountsFor
  <2>2. t \in DOMAIN j /\ j[t] = SetWisePotentialUpdate(i[t], a)
    BY <2>1 DEF ElementWisePotentialUpdate
  <2> HIDE DEF j
  <2>3. QED
    BY <1>2, <1>4, <2>1, <2>2 DEF AccountsFor, PotentialUpdateInfo, j
<1>5. CASE persType = "CONDMUST"
  BY <1>5 DEF AccountsFor
<1>6. QED
  BY <1>3, <1>4, <1>5 DEF Types

LEMMA CoRunnerAccounts ==
    ASSUME persType \in Types, NEW i, IsInfo(i), NEW c \in LruStates,
           NEW t \in OwnTags, AccountsFor(i, c, t), NEW u \in CoTags
    PROVE  AccountsFor(i, Touch(c, u), t)
<1>1. t \in Tags
  BY DEF OwnTags
<1>2. CASE persType = "SETWISE"
  <2>1. i \in SetWiseDomain /\ Accounts(i, c, t)
    BY <1>2 DEF IsInfo, AccountsFor
  <2>2. QED
    BY <1>1, <1>2, <2>1, AccountsCoRunner DEF AccountsFor
<1>3. CASE persType = "ELEWISE"
  <2>1. t \in DOMAIN i /\ i[t] \in SetWiseDomain /\ Accounts(i[t], c, t)
    BY <1>3 DEF IsInfo, AccountsFor
  <2>2. QED
    BY <1>1, <1>3, <2>1, AccountsCoRunner DEF AccountsFor
<1>4. CASE persType = "CONDMUST"
  BY <1>4 DEF AccountsFor
<1>5. QED
  BY <1>2, <1>3, <1>4 DEF Types

LEMMA JoinAccounts ==
    ASSUME persType \in Types, NEW i, IsInfo(i), NEW j, IsInfo(j),
           NEW c \in LruStates, NEW t \in OwnTags,
           AccountsFor(i, c, t) \/ AccountsFor(j, c, t)
    PROVE  AccountsFor(JoinInfo(i, j), c, t)
<1>1. t \in Tags
  BY DEF OwnTags
<1>2. CASE persType = "SETWISE"
  <2>1. /\ i \in SetWiseDomain /\ j \in SetWiseDomain
        /\ Accounts(i, c, t) \/ Accounts(j, c, t)
    BY <1>2 DEF IsInfo, AccountsFor
  <2>2. Accounts(SetWiseJoin(i, j), c, t)
    BY <1>1, <2>1, AccountsJoin
  <2>3. QED
    BY <1>2, <2>2 DEF AccountsFor, JoinInfo
<1>3. CASE persType = "ELEWISE"
  <2> DEFINE k == ElementWiseJoin(i, j)
  <2>1. \/ t \in DOMAIN i /\ Accounts(i[t], c, t)
        \/ t \in DOMAIN j /\ Accounts(j[t], c, t)
    BY <1>3 DEF AccountsFor
  <2>2. /\ t \in DOMAIN i => i[t] \in SetWiseDomain
        /\ t \in DOMAIN j => j[t] \in SetWiseDomain
    BY <1>3 DEF IsInfo
  <2>3. t \in DOMAIN k /\ k[t] = (IF t \notin DOMAIN j THEN i[t]
                                  ELSE IF t \notin DOMAIN i THEN j[t]
                                  ELSE SetWiseJoin(i[t], j[t]))
    BY <2>1 DEF ElementWiseJoin
  <2> HIDE DEF k
  <2>4. CASE t \in DOMAIN i /\ t \in DOMAIN j
    <3>1. Accounts(SetWiseJoin(i[t], j[t]), c, t)
      BY <1>1, <2>1, <2>2, <2>4, AccountsJoin
    <3>2. QED
      BY <1>3, <2>3, <2>4, <3>1 DEF AccountsFor, JoinInfo, k
  <2>5. CASE ~ (t \in DOMAIN i /\ t \in DOMAIN j)
    BY <1>3, <2>1, <2>3, <2>5 DEF AccountsFor, JoinInfo, k
  <2>6. QED
    BY <2>4, <2>5
<1>4. CASE persType = "CONDMUST"
  BY <1>4 DEF AccountsFor
<1>5. QED
  BY <1>2, <1>3, <1>4 DEF Types

-----------------------------------------------------------------------------
(* The invariant.                                                          *)

ScopeCounted(p, s) ==
    /\ Limited(info[p][s])
    /\ \A t \in seen[p][s] : /\ Packed(cache[p], t)
                             /\ AccountsFor(info[p][s], cache[p], t)

IInv ==
    /\ TypeOK
    /\ \A p \in Paths : \A s \in Open : ScopeCounted(p, s)

LEMMA InitIInv == Init => IInv
<1> SUFFICES ASSUME Init
             PROVE  IInv
  OBVIOUS
<1>1. Open = {}
  BY DEF Init, Open, EmptyMap
<1>2. TypeOK
  BY <1>1 DEF Init, TypeOK, EmptyMap, Open
<1>3. QED
  BY <1>1, <1>2 DEF IInv

LEMMA AllowedType ==
    ASSUME NEW k
    PROVE  Allowed(k) \in Nat
<1>1. CASE k \in Arrays
  <2>1. IsFiniteSet(LinesOf[k])
    BY <1>1, ArraysAssumption, TagsAssumption, FS_Subset
  <2>2. QED
    BY <1>1, <2>1, FS_CardinalityType DEF Allowed
<1>2. QED
  BY <1>1 DEF Allowed

LEMMA ChargeType ==
    ASSUME TypeOK, NEW p \in Paths, NEW t, NEW scopes, NEW keys,
           Charge(p, t, scopes, keys)
    PROVE  charged' \in [Paths -> [Open -> [OwnTags \cup Arrays -> Nat]]]
<1> DEFINE K == OwnTags \cup Arrays
           count(s, k) ==
             IF s \in scopes /\ k \in keys /\ ~ Cached(cache[p], t)
             THEN LesserOf(charged[p][s][k] + 1, Allowed(k) + 1)
             ELSE charged[p][s][k]
<1>1. charged \in [Paths -> [Open -> [K -> Nat]]]
  BY DEF TypeOK
<1>2. charged' = [charged EXCEPT ![p] = [s \in Open |-> [k \in K |-> count(s, k)]]]
  BY DEF Charge
<1>3. \A s \in Open : \A k \in K : count(s, k) \in Nat
  BY <1>1, AllowedType DEF LesserOf
<1> HIDE DEF count, K
<1>4. [s \in Open |-> [k \in K |-> count(s, k)]] \in [Open -> [K -> Nat]]
  BY <1>3
<1>5. QED
  BY <1>1, <1>2, <1>4 DEF K

LEMMA TouchedType ==
    ASSUME TypeOK, NEW p \in Paths, NEW t \in Tags, Touched(p, t)
    PROVE  /\ cache' \in [Paths -> LruStates]
           /\ cache'[p] = Touch(cache[p], t)
           /\ \A q \in Paths : q # p => cache'[q] = cache[q]
<1>1. cache \in [Paths -> LruStates]
  BY DEF TypeOK
<1>2. Touch(cache[p], t) \in LruStates
  BY <1>1, TouchLru
<1>3. QED
  BY <1>1, <1>2 DEF Touched

LEMMA TypesKnown ==
    ASSUME TypeOK
    PROVE  persType \in Types
BY PersistenceTypesAssumption DEF TypeOK, Types

-----------------------------------------------------------------------------
(* Steps.                                                                  *)

(* The scope s of path p is as it was.                                     *)
LEMMA ScopeUnchanged ==
    ASSUME IInv, persType' = persType, NEW p \in Paths, NEW s \in Open,
           info'[p][s] = info[p][s], seen'[p][s] = seen[p][s],
           cache'[p] = cache[p]
    PROVE  IsInfo(info[p][s])' /\ ScopeCounted(p, s)'
<1>1. IsInfo(info[p][s]) /\ ScopeCounted(p, s)
  BY DEF IInv, TypeOK
<1>2. QED
  BY <1>1 DEF IsInfo, ScopeCounted, Limited, AccountsFor

LEMMA EnterScopeIInv ==
    ASSUME IInv, NEW s \in Scopes, EnterScope(s), persType' = persType
    PROVE  IInv'
<1>1. CASE s \in Open
  <2>1. /\ entercount[s] < MaxEntries
        /\ entercount' = [entercount EXCEPT ![s] = @ + 1]
        /\ UNCHANGED <<cache, info, seen, charged>>
    BY <1>1 DEF EnterScope
  <2>2. Open' = Open
    BY <2>1 DEF Open
  <2>3. entercount' \in [Open -> 1 .. MaxEntries]
    BY <1>1, <2>1, MaxEntriesAssumption DEF IInv, TypeOK
  <2>4. \A p \in Paths : \A r \in Open :
           IsInfo(info[p][r])' /\ ScopeCounted(p, r)'
    BY <2>1, ScopeUnchanged
  <2>5. TypeOK'
    BY <2>1, <2>2, <2>3, <2>4 DEF IInv, TypeOK
  <2>6. QED
    BY <2>2, <2>4, <2>5 DEF IInv
<1>2. CASE s \notin Open
  <2>1. /\ entercount' = With(entercount, s, 1)
        /\ info' = [p \in Paths |-> With(info[p], s, NewInfo)]
        /\ seen' = [p \in Paths |-> With(seen[p], s, {})]
        /\ charged' = [p \in Paths |-> With(charged[p], s, NothingCharged)]
        /\ UNCHANGED cache
    BY <1>2 DEF EnterScope
  <2>2. Open' = Open \cup {s}
    BY <2>1 DEF Open, With
  <2>3. \A p \in Paths : /\ DOMAIN info[p] = Open /\ DOMAIN seen[p] = Open
                         /\ DOMAIN charged[p] = Open
    BY DEF IInv, TypeOK
  <2>4. entercount' \in [Open' -> 1 .. MaxEntries]
    BY <2>1, <2>2, MaxEntriesAssumption DEF With, Open, IInv, TypeOK
  <2>5. seen' \in [Paths -> [Open' -> SUBSET OwnTags]]
    BY <2>1, <2>2, <2>3 DEF With, IInv, TypeOK
  <2>6. charged' \in [Paths -> [Open' -> [OwnTags \cup Arrays -> Nat]]]
    <3> DEFINE C == [OwnTags \cup Arrays -> Nat]
    <3>1. NothingCharged \in C
      BY DEF NothingCharged
    <3>2. charged \in [Paths -> [Open -> C]]
      BY DEF IInv, TypeOK
    <3> HIDE DEF C
    <3>3. charged' \in [Paths -> [Open' -> C]]
      BY <2>1, <2>2, <2>3, <3>1, <3>2 DEF With
    <3>4. QED
      BY <3>3 DEF C
  <2>7. \A p \in Paths :
          /\ DOMAIN info'[p] = Open'
          /\ info'[p][s] = NewInfo /\ seen'[p][s] = {}
          /\ \A r \in Open : info'[p][r] = info[p][r] /\ seen'[p][r] = seen[p][r]
    BY <1>2, <2>1, <2>2, <2>3 DEF With
  <2>8. \A p \in Paths : \A r \in Open :
           IsInfo(info[p][r])' /\ ScopeCounted(p, r)'
    BY <2>1, <2>7, ScopeUnchanged
  <2>9. \A p \in Paths : IsInfo(info[p][s])' /\ ScopeCounted(p, s)'
    <3>1. IsInfo(NewInfo) /\ Limited(NewInfo)
      BY TypesKnown, NewInfoType DEF IInv
    <3> TAKE p \in Paths
    <3>2. info'[p][s] = NewInfo /\ seen'[p][s] = {}
      BY <2>7
    <3>3. IsInfo(info[p][s])' /\ Limited(info[p][s])'
      BY <3>1, <3>2 DEF IsInfo, Limited
    <3>4. QED
      BY <3>2, <3>3 DEF ScopeCounted
  <2>10. \A p \in Paths : \A r \in Open' :
            IsInfo(info[p][r])' /\ ScopeCounted(p, r)'
    BY <2>2, <2>8, <2>9
  <2>11. TypeOK'
    BY <2>1, <2>2, <2>4, <2>5, <2>6, <2>7, <2>10 DEF IInv, TypeOK
  <2>12. QED
    BY <2>10, <2>11 DEF IInv
<1>3. QED
  BY <1>1, <1>2

LEMMA LeaveScopeIInv ==
    ASSUME IInv, NEW s \in Scopes, LeaveScope(s), persType' = persType
    PROVE  IInv'
<1>1. s \in Open /\ UNCHANGED cache
  BY DEF LeaveScope
<1>2. CASE entercount[s] > 1
  <2>1. /\ entercount' = [entercount EXCEPT ![s] = @ - 1]
        /\ UNCHANGED <<info, seen, charged>>
    BY <1>2 DEF LeaveScope
  <2>2. Open' = Open
    BY <2>1 DEF Open
  <2>3. entercount' \in [Open -> 1 .. MaxEntries]
    BY <1>1, <1>2, <2>1, MaxEntriesAssumption DEF IInv, TypeOK
  <2>4. \A p \in Paths : \A r \in Open :
           IsInfo(info[p][r])' /\ ScopeCounted(p, r)'
    BY <1>1, <2>1, ScopeUnchanged
  <2>5. TypeOK'
    BY <1>1, <2>1, <2>2, <2>3, <2>4 DEF IInv, TypeOK
  <2>6. QED
    BY <2>2, <2>4, <2>5 DEF IInv
<1>3. CASE ~ entercount[s] > 1
  <2>1. /\ entercount' = Without(entercount, s)
        /\ info' = [p \in Paths |-> Without(info[p], s)]
        /\ seen' = [p \in Paths |-> Without(seen[p], s)]
        /\ charged' = [p \in Paths |-> Without(charged[p], s)]
    BY <1>3 DEF LeaveScope
  <2>2. Open' = Open \ {s}
    BY <2>1 DEF Open, Without
  <2>3. \A p \in Paths : /\ DOMAIN info[p] = Open /\ DOMAIN seen[p] = Open
                         /\ DOMAIN charged[p] = Open
    BY DEF IInv, TypeOK
  <2>4. entercount' \in [Open' -> 1 .. MaxEntries]
    BY <2>1, <2>2 DEF Without, Open, IInv, TypeOK
  <2>5. seen' \in [Paths -> [Open' -> SUBSET OwnTags]]
    BY <2>1, <2>2, <2>3 DEF Without, IInv, TypeOK
  <2>6. charged' \in [Paths -> [Open' -> [OwnTags \cup Arrays -> Nat]]]
    <3> DEFINE C == [OwnTags \cup Arrays -> Nat]
    <3>1. charged \in [Paths -> [Open -> C]]
      BY DEF IInv, TypeOK
    <3> HIDE DEF C
    <3>2. charged' \in [Paths -> [Open' -> C]]
      BY <2>1, <2>2, <2>3, <3>1 DEF Without
    <3>3. QED
      BY <3>2 DEF C
  <2>7. \A p \in Paths :
          /\ DOMAIN info'[p] = Open'
          /\ \A r \in Open' : info'[p][r] = info[p][r] /\ seen'[p][r] = seen[p][r]
    BY <2>1, <2>2, <2>3 DEF Without
  <2>8. \A p \in Paths : \A r \in Open' :
           IsInfo(info[p][r])' /\ ScopeCounted(p, r)'
    BY <1>1, <2>2, <2>7, ScopeUnchanged
  <2>9. TypeOK'
    BY <1>1, <2>1, <2>2, <2>4, <2>5, <2>6, <2>7, <2>8 DEF IInv, TypeOK
  <2>10. QED
    BY <2>8, <2>9 DEF IInv
<1>4. QED
  BY <1>2, <1>3

LEMMA AccessIInv ==
    ASSUME IInv, NEW p \in Paths, NEW t \in OwnTags, Access(p, t),
           persType' = persType
    PROVE  IInv'
<1>1. /\ Touched(p, t)
      /\ seen' = [seen EXCEPT ![p] = [s \in Open |-> seen[p][s] \cup {t}]]
      /\ info' = [info EXCEPT ![p] = [s \in Open |-> UpdateInfo(info[p][s], t)]]
      /\ UNCHANGED entercount
  BY DEF Access
<1>2. Open' = Open
  BY <1>1 DEF Open
<1>3. /\ cache' \in [Paths -> LruStates]
      /\ cache'[p] = Touch(cache[p], t)
      /\ \A q \in Paths : q # p => cache'[q] = cache[q]
  BY <1>1, TouchedType DEF IInv, OwnTags
<1>4. charged' \in [Paths -> [Open -> [OwnTags \cup Arrays -> Nat]]]
  BY ChargeType DEF IInv, Access
<1>5. seen' \in [Paths -> [Open -> SUBSET OwnTags]]
  BY <1>1 DEF IInv, TypeOK
<1>6. /\ DOMAIN info' = Paths
      /\ \A q \in Paths : DOMAIN info'[q] = Open
      /\ \A s \in Open : /\ info'[p][s] = UpdateInfo(info[p][s], t)
                         /\ seen'[p][s] = seen[p][s] \cup {t}
      /\ \A q \in Paths : q # p => info'[q] = info[q] /\ seen'[q] = seen[q]
  BY <1>1 DEF IInv, TypeOK
<1>7. ASSUME NEW s \in Open
      PROVE  IsInfo(info[p][s])' /\ ScopeCounted(p, s)'
  <2>1. persType \in Types /\ IsInfo(info[p][s]) /\ Limited(info[p][s])
        /\ cache[p] \in LruStates /\ seen[p][s] \subseteq OwnTags
    BY TypesKnown DEF IInv, TypeOK, ScopeCounted
  <2>2. IsInfo(UpdateInfo(info[p][s], t)) /\ Limited(UpdateInfo(info[p][s], t))
    BY <2>1, UpdateType
  <2>3. /\ AccountsFor(UpdateInfo(info[p][s], t), Touch(cache[p], t), t)
        /\ \A u \in OwnTags : AccountsFor(info[p][s], cache[p], u) =>
              AccountsFor(UpdateInfo(info[p][s], t), Touch(cache[p], t), u)
    BY <2>1, UpdateAccounts
  <2>4. \A u \in seen[p][s] \cup {t} :
           /\ Packed(Touch(cache[p], t), u)
           /\ AccountsFor(UpdateInfo(info[p][s], t), Touch(cache[p], t), u)
    <3> TAKE u \in seen[p][s] \cup {t}
    <3>1. CASE u = t
      BY <2>1, <2>3, <3>1, TouchedFirst DEF OwnTags
    <3>2. CASE u \in seen[p][s]
      <4>1. Packed(cache[p], u) /\ AccountsFor(info[p][s], cache[p], u)
        BY <3>2 DEF IInv, ScopeCounted
      <4>2. u \in OwnTags /\ u \in Tags /\ t \in Tags
        BY <2>1, <3>2 DEF OwnTags
      <4>3. QED
        BY <2>1, <2>3, <4>1, <4>2, TouchPacked
    <3>3. QED
      BY <3>1, <3>2
  <2>5. IsInfo(info[p][s])' /\ Limited(info[p][s])'
    BY <1>6, <2>2 DEF IsInfo, Limited
  <2>6. \A u \in seen'[p][s] :
           Packed(cache'[p], u) /\ AccountsFor(info[p][s], cache[p], u)'
    BY <1>3, <1>6, <2>4 DEF AccountsFor
  <2>7. QED
    BY <2>5, <2>6 DEF ScopeCounted
<1>8. \A q \in Paths : \A s \in Open :
         IsInfo(info[q][s])' /\ ScopeCounted(q, s)'
  BY <1>3, <1>6, <1>7, ScopeUnchanged
<1>9. TypeOK'
  BY <1>1, <1>2, <1>3, <1>4, <1>5, <1>6, <1>8 DEF IInv, TypeOK
<1>10. QED
  BY <1>2, <1>8, <1>9 DEF IInv

(* Accesses that are not to a line by name: what path p holds is updated,  *)
(* and its cache is as it was, or a line of targets was accessed.          *)
LEMMA PotentialIInv ==
    ASSUME IInv, NEW p \in Paths, NEW a, persType' = persType,
           NEW targets, targets = IF a \in Arrays THEN LinesOf[a] ELSE Tags,
           cache' = cache \/ \E t \in targets : Touched(p, t),
           charged' \in [Paths -> [Open -> [OwnTags \cup Arrays -> Nat]]],
           info' = [info EXCEPT ![p] =
                      [s \in Open |-> PotentialUpdateInfo(info[p][s], a)]],
           UNCHANGED <<entercount, seen>>
    PROVE  IInv'
<1>1. Open' = Open
  BY DEF Open
<1>2. targets \subseteq Tags
  BY ArraysAssumption
<1>3. /\ cache' \in [Paths -> LruStates]
      /\ \A q \in Paths : q # p => cache'[q] = cache[q]
      /\ \/ cache'[p] = cache[p]
         \/ \E t \in targets : cache'[p] = Touch(cache[p], t)
  <2>1. CASE cache' = cache
    BY <2>1 DEF IInv, TypeOK
  <2>2. CASE \E t \in targets : Touched(p, t)
    BY <1>2, <2>2, TouchedType DEF IInv
  <2>3. QED
    BY <2>1, <2>2
<1>4. /\ DOMAIN info' = Paths
      /\ \A q \in Paths : DOMAIN info'[q] = Open
      /\ \A s \in Open : info'[p][s] = PotentialUpdateInfo(info[p][s], a)
      /\ \A q \in Paths : q # p => info'[q] = info[q]
  BY DEF IInv, TypeOK
<1>5. ASSUME NEW s \in Open
      PROVE  IsInfo(info[p][s])' /\ ScopeCounted(p, s)'
  <2>1. persType \in Types /\ IsInfo(info[p][s]) /\ Limited(info[p][s])
        /\ cache[p] \in LruStates /\ seen[p][s] \subseteq OwnTags
    BY TypesKnown DEF IInv, TypeOK, ScopeCounted
  <2> DEFINE i == info[p][s]
             j == PotentialUpdateInfo(i, a)
  <2>2. IsInfo(j) /\ Limited(j)
    BY <2>1, PotentialUpdateType
  <2>3. ASSUME NEW u \in seen[p][s]
        PROVE  Packed(cache'[p], u) /\ AccountsFor(j, cache'[p], u)
    <3>1. Packed(cache[p], u) /\ AccountsFor(i, cache[p], u)
      BY DEF IInv, ScopeCounted
    <3>2. u \in OwnTags /\ u \in Tags
      BY <2>1 DEF OwnTags
    <3> HIDE DEF j
    <3>3. /\ AccountsFor(j, cache[p], u)
          /\ \A t \in targets : AccountsFor(j, Touch(cache[p], t), u)
      BY <2>1, <3>1, <3>2, PotentialUpdateAccounts DEF j
    <3>4. \A t \in targets : Packed(Touch(cache[p], t), u)
      BY <1>2, <2>1, <3>1, <3>2, TouchPacked
    <3>5. QED
      BY <1>3, <3>1, <3>3, <3>4
  <2>4. info'[p][s] = j /\ seen'[p][s] = seen[p][s]
    BY <1>4
  <2> HIDE DEF j
  <2>5. IsInfo(info[p][s])' /\ Limited(info[p][s])'
    BY <2>2, <2>4 DEF IsInfo, Limited
  <2>6. \A u \in seen'[p][s] :
           Packed(cache'[p], u) /\ AccountsFor(info[p][s], cache[p], u)'
    BY <2>3, <2>4 DEF AccountsFor
  <2>7. QED
    BY <2>5, <2>6 DEF ScopeCounted
<1>6. \A q \in Paths : \A s \in Open :
         IsInfo(info[q][s])' /\ ScopeCounted(q, s)'
  BY <1>3, <1>4, <1>5, ScopeUnchanged
<1>7. TypeOK'
  BY <1>1, <1>3, <1>4, <1>6 DEF IInv, TypeOK
<1>8. QED
  BY <1>1, <1>6, <1>7 DEF IInv

LEMMA ArrayAccessIInv ==
    ASSUME IInv, NEW p \in Paths, NEW a \in Arrays, ArrayAccess(p, a),
           persType' = persType
    PROVE  IInv'
<1>1. charged' \in [Paths -> [Open -> [OwnTags \cup Arrays -> Nat]]]
  <2>1. CASE charged' = charged
    BY <2>1 DEF IInv, TypeOK
  <2>2. ASSUME NEW t \in LinesOf[a],
               Charge(p, t, ArrayPersistentScopes(p), {a})
        PROVE  charged' \in [Paths -> [Open -> [OwnTags \cup Arrays -> Nat]]]
    BY <2>2, ChargeType DEF IInv
  <2>3. QED
    BY <2>1, <2>2 DEF ArrayAccess
<1>2. cache' = cache \/ \E t \in LinesOf[a] : Touched(p, t)
  BY DEF ArrayAccess
<1>3. /\ info' = [info EXCEPT ![p] =
                    [s \in Open |-> PotentialUpdateInfo(info[p][s], a)]]
      /\ UNCHANGED <<entercount, seen>>
  BY DEF ArrayAccess
<1>4. QED
  BY <1>1, <1>2, <1>3, PotentialIInv

LEMMA UnknownAccessIInv ==
    ASSUME IInv, NEW p \in Paths, UnknownAccess(p), persType' = persType
    PROVE  IInv'
<1>1. charged' \in [Paths -> [Open -> [OwnTags \cup Arrays -> Nat]]]
  BY DEF IInv, TypeOK, UnknownAccess
<1>2. cache' = cache \/ \E t \in Tags : Touched(p, t)
  BY DEF UnknownAccess, OwnTags
<1>3. /\ info' = [info EXCEPT ![p] =
                    [s \in Open |-> PotentialUpdateInfo(info[p][s], NoArray)]]
      /\ UNCHANGED <<entercount, seen>>
  BY DEF UnknownAccess
<1>4. QED
  BY <1>1, <1>2, <1>3, NoArrayAssumption, PotentialIInv

LEMMA CoRunnerAccessIInv ==
    ASSUME IInv, NEW p \in Paths, NEW t \in CoTags, CoRunnerAccess(p, t),
           persType' = persType
    PROVE  IInv'
<1>1. Touched(p, t) /\ UNCHANGED <<entercount, info, seen, charged>>
  BY DEF CoRunnerAccess
<1>2. Open' = Open /\ t \in Tags
  BY <1>1, CoRunnerAssumption DEF Open
<1>3. /\ cache' \in [Paths -> LruStates]
      /\ cache'[p] = Touch(cache[p], t)
      /\ \A q \in Paths : q # p => cache'[q] = cache[q]
  BY <1>1, <1>2, TouchedType DEF IInv
<1>4. ASSUME NEW s \in Open
      PROVE  IsInfo(info[p][s])' /\ ScopeCounted(p, s)'
  <2>1. persType \in Types /\ IsInfo(info[p][s]) /\ Limited(info[p][s])
        /\ cache[p] \in LruStates /\ seen[p][s] \subseteq OwnTags
    BY TypesKnown DEF IInv, TypeOK, ScopeCounted
  <2>2. ASSUME NEW u \in seen[p][s]
        PROVE  /\ Packed(Touch(cache[p], t), u)
               /\ AccountsFor(info[p][s], Touch(cache[p], t), u)
    <3>1. Packed(cache[p], u) /\ AccountsFor(info[p][s], cache[p], u)
      BY DEF IInv, ScopeCounted
    <3>2. u \in OwnTags /\ u \in Tags
      BY <2>1 DEF OwnTags
    <3>3. QED
      BY <1>2, <2>1, <3>1, <3>2, TouchPacked, CoRunnerAccounts
  <2>3. QED
    BY <1>1, <1>3, <2>1, <2>2 DEF IsInfo, Limited, AccountsFor, ScopeCounted
<1>5. \A q \in Paths : \A s \in Open :
         IsInfo(info[q][s])' /\ ScopeCounted(q, s)'
  BY <1>1, <1>3, <1>4, ScopeUnchanged
<1>6. TypeOK'
  BY <1>1, <1>2, <1>3, <1>5 DEF IInv, TypeOK
<1>7. QED
  BY <1>2, <1>5, <1>6 DEF IInv

LEMMA MeetIInv ==
    ASSUME IInv, NEW p \in Paths, NEW q \in Paths, Meet(p, q),
           persType' = persType
    PROVE  IInv'
<1>1. /\ info' = [r \in Paths |->
                    IF r \in {p, q}
                    THEN [s \in Open |-> JoinInfo(info[p][s], info[q][s])]
                    ELSE info[r]]
      /\ UNCHANGED <<cache, entercount, seen, charged>>
  BY DEF Meet
<1>2. Open' = Open
  BY <1>1 DEF Open
<1>3. /\ DOMAIN info' = Paths
      /\ \A r \in Paths : DOMAIN info'[r] = Open
      /\ \A r \in {p, q} : \A s \in Open :
            info'[r][s] = JoinInfo(info[p][s], info[q][s])
      /\ \A r \in Paths : r \notin {p, q} => info'[r] = info[r]
  BY <1>1 DEF IInv, TypeOK
<1>4. ASSUME NEW r \in {p, q}, NEW s \in Open
      PROVE  IsInfo(info[r][s])' /\ ScopeCounted(r, s)'
  <2> DEFINE i == info[p][s]
             j == info[q][s]
             k == JoinInfo(i, j)
  <2>1. /\ persType \in Types /\ IsInfo(i) /\ Limited(i) /\ IsInfo(j) /\ Limited(j)
        /\ cache[r] \in LruStates /\ seen[r][s] \subseteq OwnTags
    <3>1. persType \in Types
      BY TypesKnown DEF IInv
    <3>2. \A o \in {p, q} : IsInfo(info[o][s]) /\ Limited(info[o][s])
      BY DEF IInv, TypeOK, ScopeCounted
    <3>3. r \in Paths /\ cache[r] \in LruStates /\ seen[r][s] \in SUBSET OwnTags
      BY DEF IInv, TypeOK
    <3>4. QED
      BY <3>1, <3>2, <3>3
  <2>2. \A u \in seen[r][s] :
           /\ Packed(cache[r], u)
           /\ AccountsFor(i, cache[r], u) \/ AccountsFor(j, cache[r], u)
    BY DEF IInv, ScopeCounted
  <2> HIDE DEF i, j
  <2>3. IsInfo(k) /\ Limited(k)
    BY <2>1, JoinType
  <2>4. \A u \in seen[r][s] : AccountsFor(k, cache[r], u)
    BY <2>1, <2>2, JoinAccounts
  <2>5. info'[r][s] = k /\ seen'[r][s] = seen[r][s] /\ cache'[r] = cache[r]
    BY <1>1, <1>3 DEF i, j
  <2> HIDE DEF k
  <2>6. QED
    BY <2>2, <2>3, <2>4, <2>5 DEF IsInfo, Limited, AccountsFor, ScopeCounted
<1>5. \A r \in Paths : \A s \in Open :
         IsInfo(info[r][s])' /\ ScopeCounted(r, s)'
  BY <1>1, <1>3, <1>4, ScopeUnchanged
<1>6. TypeOK'
  BY <1>1, <1>2, <1>3, <1>5 DEF IInv, TypeOK
<1>7. QED
  BY <1>2, <1>5, <1>6 DEF IInv

LEMMA StutterIInv ==
    ASSUME IInv, UNCHANGED vars
    PROVE  IInv'
BY DEF IInv, vars, TypeOK, Open, IsInfo, ScopeCounted, Limited, AccountsFor

LEMMA NextIInv == IInv /\ [Next]_vars => IInv'
<1> SUFFICES ASSUME IInv, [Next]_vars
             PROVE  IInv'
  OBVIOUS
<1>1. CASE UNCHANGED vars
  BY <1>1, StutterIInv
<1>2. CASE Next
  <2>1. Step /\ persType' = persType
    BY <1>2 DEF Next
  <2>2. ASSUME NEW s \in Scopes, EnterScope(s)
        PROVE  IInv'
    BY <2>1, <2>2, EnterScopeIInv
  <2>3. ASSUME NEW s \in Scopes, LeaveScope(s)
        PROVE  IInv'
    BY <2>1, <2>3, LeaveScopeIInv
  <2>4. ASSUME NEW p \in Paths, NEW t \in OwnTags, Access(p, t)
        PROVE  IInv'
    BY <2>1, <2>4, AccessIInv
  <2>5. ASSUME NEW p \in Paths, NEW a \in Arrays, ArrayAccess(p, a)
        PROVE  IInv'
    BY <2>1, <2>5, ArrayAccessIInv
  <2>6. ASSUME NEW p \in Paths, UnknownAccess(p)
        PROVE  IInv'
    BY <2>1, <2>6, UnknownAccessIInv
  <2>7. ASSUME NEW p \in Paths, NEW t \in CoTags, CoRunnerAccess(p, t)
        PROVE  IInv'
    BY <2>1, <2>7, CoRunnerAccessIInv
  <2>8. ASSUME NEW p \in Paths, NEW q \in Paths, Meet(p, q)
        PROVE  IInv'
    BY <2>1, <2>8, MeetIInv
  <2>9. QED
    BY <2>1, <2>2, <2>3, <2>4, <2>5, <2>6, <2>7, <2>8 DEF Step
<1>3. QED
  BY <1>1, <1>2

(* The variables of a persistence analysis have their types: every open    *)
(* loop has information of the kind the chosen analysis keeps              *)
(* (MultiScopePersistence).                                                *)
THEOREM PersistenceIsTyped == Spec => []TypeOK
<1>1. IInv => TypeOK
  BY DEF IInv
<1>2. QED
  BY InitIInv, NextIInv, <1>1, PTL DEF Spec

(* The conflicts counted for a scope, or since the last access to a line,  *)
(* bound the age of the lines the scope has accessed, through joins, array *)
(* accesses, accesses of co-runners and re-entries                         *)
(* (SetWiseCountingPersistence, ElementWiseCountingPersistence).           *)
THEOREM ConflictsBoundAges == Spec => []AgeWithinConflicts
<1>1. IInv => AgeWithinConflicts
  <2> SUFFICES ASSUME IInv, NEW p \in Paths, NEW s \in Open, NEW t \in seen[p][s]
               PROVE  CASE persType = "SETWISE"  -> AgeCounted(p, t, info[p][s])
                        [] persType = "ELEWISE"  ->
                             /\ t \in DOMAIN info[p][s]
                             /\ AgeCounted(p, t, info[p][s][t])
                        [] persType = "CONDMUST" -> TRUE
    BY DEF AgeWithinConflicts
  <2>1. /\ persType \in Types /\ IsInfo(info[p][s]) /\ t \in Tags
        /\ cache[p] \in LruStates
    BY TypesKnown DEF IInv, TypeOK, OwnTags
  <2>2. Packed(cache[p], t) /\ AccountsFor(info[p][s], cache[p], t)
    BY DEF IInv, ScopeCounted
  <2>3. CASE persType = "SETWISE"
    <3>1. info[p][s] \in SetWiseDomain /\ Accounts(info[p][s], cache[p], t)
      BY <2>1, <2>2, <2>3 DEF IsInfo, AccountsFor
    <3>2. AgeCounted(p, t, info[p][s])
      BY <2>1, <2>2, <3>1, AgeWithinAccounts DEF AgeCounted
    <3>3. QED
      BY <2>3, <3>2
  <2>4. CASE persType = "ELEWISE"
    <3>1. /\ t \in DOMAIN info[p][s] /\ info[p][s][t] \in SetWiseDomain
          /\ Accounts(info[p][s][t], cache[p], t)
      BY <2>1, <2>2, <2>4 DEF IsInfo, AccountsFor
    <3>2. AgeCounted(p, t, info[p][s][t])
      BY <2>1, <2>2, <3>1, AgeWithinAccounts DEF AgeCounted
    <3>3. QED
      BY <2>4, <3>1, <3>2
  <2>5. CASE persType = "CONDMUST"
    BY <2>5
  <2>6. QED
    BY <2>1, <2>3, <2>4, <2>5 DEF Types
<1>2. QED
  BY InitIInv, NextIInv, <1>1, PTL DEF Spec

-----------------------------------------------------------------------------
(* Misses.  A line is charged to a scope only after the scope has          *)
(* accessed it; from then on, while it is persistent, it is cached.        *)

(* Where counting is right: the conditional must analysis is not           *)
(* (ConditionalMustPersistence.h:134), an array access may be counted one  *)
(* too late when there is no slack (SetWiseCountingPersistence.h:228), and *)
(* a set-wise scope counts the co-runners' lines of set 0, whichever its   *)
(* set.                                                                    *)
CountingIsRight ==
    /\ PersistenceTypes \subseteq {"SETWISE", "ELEWISE"}
    /\ Arrays = {} \/ LiangY
    /\ Cardinality(CoTags) <= CoTagsOfSetZero

ChargedOnce ==
    \A p \in Paths : \A s \in Open : \A t \in OwnTags :
        /\ charged[p][s][t] <= 1
        /\ charged[p][s][t] > 0 => t \in seen[p][s]

LEMMA PersistentScopeIsCached ==
    ASSUME CountingIsRight, IInv, NEW p \in Paths, NEW s \in Open,
           NEW t \in seen[p][s], IsPersistent(info[p][s], t)
    PROVE  Cached(cache[p], t)
<1>1. persType \in {"SETWISE", "ELEWISE"} /\ (Arrays = {} \/ LiangY)
      /\ Cardinality(CoTags) <= CoTagsOfSetZero
  BY DEF CountingIsRight, IInv, TypeOK
<1>2. cache[p] \in LruStates /\ IsInfo(info[p][s]) /\ t \in Tags
  BY DEF IInv, TypeOK, OwnTags
<1>3. /\ Packed(cache[p], t) /\ AccountsFor(info[p][s], cache[p], t)
      /\ Limited(info[p][s])
  BY DEF IInv, ScopeCounted
<1>4. CoTagsOfSetZero \in Nat /\ Cardinality(CoTags) \in Nat
  BY CoRunnerAssumption, TagsAssumption, FS_Subset, FS_CardinalityType
<1>5. CASE persType = "SETWISE"
  <2>1. /\ info[p][s] \in SetWiseDomain /\ Accounts(info[p][s], cache[p], t)
        /\ WithinLimit(info[p][s])
        /\ SetWisePersistent(info[p][s], CoTagsOfSetZero)
    BY <1>2, <1>3, <1>5 DEF IsInfo, AccountsFor, Limited, IsPersistent
  <2>2. QED
    BY <1>1, <1>2, <1>3, <1>4, <2>1, PersistentIsCached
<1>6. CASE persType = "ELEWISE"
  <2>1. /\ t \in DOMAIN info[p][s] /\ info[p][s][t] \in SetWiseDomain
        /\ Accounts(info[p][s][t], cache[p], t)
        /\ WithinLimit(info[p][s][t])
        /\ SetWisePersistent(info[p][s][t], Cardinality(CoTags))
    BY <1>2, <1>3, <1>6
       DEF IsInfo, AccountsFor, Limited, IsPersistent, ElementWisePersistent
  <2>2. Cardinality(CoTags) <= Cardinality(CoTags)
    BY <1>4
  <2>3. QED
    BY <1>1, <1>2, <1>3, <1>4, <2>1, <2>2, PersistentIsCached
<1>7. QED
  BY <1>1, <1>5, <1>6

(* Where nothing is charged and no scope is opened, nothing changes.       *)
LEMMA ChargedOnceKept ==
    ASSUME ChargedOnce, Open' \subseteq Open,
           \A p \in Paths : \A s \in Open' :
              /\ seen'[p][s] = seen[p][s]
              /\ \A t \in OwnTags : charged'[p][s][t] = charged[p][s][t]
    PROVE  ChargedOnce'
BY DEF ChargedOnce

LEMMA EnterScopeCharged ==
    ASSUME IInv, ChargedOnce, NEW s \in Scopes, EnterScope(s)
    PROVE  ChargedOnce'
<1>1. CASE s \in Open
  BY <1>1, ChargedOnceKept DEF EnterScope, Open
<1>2. CASE s \notin Open
  <2>1. /\ entercount' = With(entercount, s, 1)
        /\ seen' = [p \in Paths |-> With(seen[p], s, {})]
        /\ charged' = [p \in Paths |-> With(charged[p], s, NothingCharged)]
    BY <1>2 DEF EnterScope
  <2>2. Open' = Open \cup {s}
    BY <2>1 DEF Open, With
  <2>3. \A p \in Paths : DOMAIN seen[p] = Open /\ DOMAIN charged[p] = Open
    BY DEF IInv, TypeOK
  <2>4. \A p \in Paths :
           /\ charged'[p][s] = NothingCharged
           /\ \A r \in Open : /\ seen'[p][r] = seen[p][r]
                              /\ charged'[p][r] = charged[p][r]
    BY <1>2, <2>1, <2>3 DEF With
  <2>5. \A t \in OwnTags : NothingCharged[t] = 0
    BY DEF NothingCharged
  <2>6. QED
    BY <2>2, <2>4, <2>5 DEF ChargedOnce
<1>3. QED
  BY <1>1, <1>2

LEMMA LeaveScopeCharged ==
    ASSUME IInv, ChargedOnce, NEW s \in Scopes, LeaveScope(s)
    PROVE  ChargedOnce'
<1>1. CASE entercount[s] > 1
  BY <1>1, ChargedOnceKept DEF LeaveScope, Open
<1>2. CASE ~ entercount[s] > 1
  <2>1. /\ entercount' = Without(entercount, s)
        /\ seen' = [p \in Paths |-> Without(seen[p], s)]
        /\ charged' = [p \in Paths |-> Without(charged[p], s)]
    BY <1>2 DEF LeaveScope
  <2>2. Open' = Open \ {s}
    BY <2>1 DEF Open, Without
  <2>3. \A p \in Paths : DOMAIN seen[p] = Open /\ DOMAIN charged[p] = Open
    BY DEF IInv, TypeOK
  <2>4. \A p \in Paths : \A r \in Open' :
           seen'[p][r] = seen[p][r] /\ charged'[p][r] = charged[p][r]
    BY <2>1, <2>2, <2>3 DEF Without
  <2>5. QED
    BY <2>2, <2>4, ChargedOnceKept
<1>3. QED
  BY <1>1, <1>2

LEMMA ChargeIs ==
    ASSUME IInv, NEW p \in Paths, NEW t, NEW scopes, NEW keys,
           Charge(p, t, scopes, keys)
    PROVE  /\ \A q \in Paths : q # p => charged'[q] = charged[q]
           /\ \A s \in Open : \A k \in OwnTags :
                 charged'[p][s][k] =
                    IF s \in scopes /\ k \in keys /\ ~ Cached(cache[p], t)
                    THEN LesserOf(charged[p][s][k] + 1, Allowed(k) + 1)
                    ELSE charged[p][s][k]
BY DEF Charge, IInv, TypeOK

LEMMA AccessCharged ==
    ASSUME CountingIsRight, IInv, ChargedOnce,
           NEW p \in Paths, NEW t \in OwnTags, Access(p, t)
    PROVE  ChargedOnce'
<1> DEFINE keys == {t} \cup {a \in Arrays : t \in LinesOf[a]}
<1>1. /\ seen' = [seen EXCEPT ![p] = [s \in Open |-> seen[p][s] \cup {t}]]
      /\ Charge(p, t, PersistentScopes(p, t), keys)
      /\ UNCHANGED entercount
  BY DEF Access
<1>2. Open' = Open
  BY <1>1 DEF Open
<1>3. /\ \A s \in Open : seen'[p][s] = seen[p][s] \cup {t}
      /\ \A q \in Paths : q # p => seen'[q] = seen[q]
  BY <1>1 DEF IInv, TypeOK
<1>4. /\ \A q \in Paths : q # p => charged'[q] = charged[q]
      /\ \A s \in Open : \A k \in OwnTags :
            charged'[p][s][k] =
               IF s \in PersistentScopes(p, t) /\ k \in keys /\ ~ Cached(cache[p], t)
               THEN LesserOf(charged[p][s][k] + 1, Allowed(k) + 1)
               ELSE charged[p][s][k]
  BY <1>1, ChargeIs
<1>5. ASSUME NEW s \in Open, NEW k \in OwnTags
      PROVE  /\ charged'[p][s][k] <= 1
             /\ charged'[p][s][k] > 0 => k \in seen'[p][s]
  <2>1. charged[p][s][k] \in Nat
    BY DEF IInv, TypeOK
  <2>2. CASE s \in PersistentScopes(p, t) /\ k \in keys /\ ~ Cached(cache[p], t)
    <3>1. k \notin Arrays /\ k = t
      BY <2>2, ArraysAssumption DEF OwnTags
    <3>2. t \notin seen[p][s]
      BY <2>2, PersistentScopeIsCached DEF PersistentScopes
    <3>3. charged[p][s][k] = 0
      BY <2>1, <3>1, <3>2 DEF ChargedOnce
    <3>4. charged'[p][s][k] = 1
      BY <1>4, <2>2, <3>1, <3>3 DEF Allowed, LesserOf
    <3>5. QED
      BY <1>3, <3>1, <3>4
  <2>3. CASE ~ (s \in PersistentScopes(p, t) /\ k \in keys /\ ~ Cached(cache[p], t))
    BY <1>3, <1>4, <2>3 DEF ChargedOnce
  <2>4. QED
    BY <2>2, <2>3
<1>6. QED
  BY <1>2, <1>3, <1>4, <1>5 DEF ChargedOnce

LEMMA ArrayAccessCharged ==
    ASSUME IInv, ChargedOnce, NEW p \in Paths, NEW a \in Arrays,
           ArrayAccess(p, a)
    PROVE  ChargedOnce'
<1>1. Open' = Open /\ seen' = seen
  BY DEF ArrayAccess, Open
<1>2. CASE charged' = charged
  BY <1>1, <1>2, ChargedOnceKept
<1>3. ASSUME NEW t \in LinesOf[a],
             Charge(p, t, ArrayPersistentScopes(p), {a})
      PROVE  ChargedOnce'
  <2>1. /\ \A q \in Paths : q # p => charged'[q] = charged[q]
        /\ \A s \in Open : \A k \in OwnTags :
              charged'[p][s][k] =
                 IF s \in ArrayPersistentScopes(p) /\ k \in {a}
                      /\ ~ Cached(cache[p], t)
                 THEN LesserOf(charged[p][s][k] + 1, Allowed(k) + 1)
                 ELSE charged[p][s][k]
    BY <1>3, ChargeIs
  <2>2. \A k \in OwnTags : k \notin {a}
    BY ArraysAssumption DEF OwnTags
  <2>3. QED
    BY <1>1, <2>1, <2>2, ChargedOnceKept
<1>4. QED
  BY <1>2, <1>3 DEF ArrayAccess

LEMMA NextChargedOnce ==
    ASSUME CountingIsRight, IInv, ChargedOnce, [Next]_vars
    PROVE  ChargedOnce'
<1>1. CASE UNCHANGED vars
  BY <1>1, ChargedOnceKept DEF vars, Open
<1>2. CASE Next
  <2>1. Step
    BY <1>2 DEF Next
  <2>2. ASSUME NEW s \in Scopes, EnterScope(s) \/ LeaveScope(s)
        PROVE  ChargedOnce'
    BY <2>2, EnterScopeCharged, LeaveScopeCharged
  <2>3. ASSUME NEW p \in Paths, NEW t \in OwnTags, Access(p, t)
        PROVE  ChargedOnce'
    BY <2>3, AccessCharged
  <2>4. ASSUME NEW p \in Paths, NEW a \in Arrays, ArrayAccess(p, a)
        PROVE  ChargedOnce'
    BY <2>4, ArrayAccessCharged
  <2>5. ASSUME NEW p \in Paths, UnknownAccess(p)
        PROVE  ChargedOnce'
    BY <2>5, ChargedOnceKept DEF UnknownAccess, Open
  <2>6. ASSUME NEW p \in Paths, NEW t \in CoTags, CoRunnerAccess(p, t)
        PROVE  ChargedOnce'
    BY <2>6, ChargedOnceKept DEF CoRunnerAccess, Open
  <2>7. ASSUME NEW p \in Paths, NEW q \in Paths, Meet(p, q)
        PROVE  ChargedOnce'
    BY <2>7, ChargedOnceKept DEF Meet, Open
  <2>8. QED
    BY <2>1, <2>2, <2>3, <2>4, <2>5, <2>6, <2>7 DEF Step
<1>3. QED
  BY <1>1, <1>2

(* What the constraint of StateGraphCacheMissProvider.h:375 excludes does  *)
(* not happen: between opening and closing a scope, a line that is         *)
(* persistent in it does not miss twice, where counting is right.          *)
THEOREM PersistentLinesMissOnce ==
    CountingIsRight => (Spec => []LineMissesWithinEntries)
<1> SUFFICES ASSUME CountingIsRight
             PROVE  Spec => []LineMissesWithinEntries
  OBVIOUS
<1>1. Init => ChargedOnce
  BY DEF Init, ChargedOnce, Open, EmptyMap
<1>2. IInv /\ ChargedOnce /\ [Next]_vars => ChargedOnce'
  BY NextChargedOnce
<1>3. ChargedOnce => LineMissesWithinEntries
  <2>1. \A t \in OwnTags : Allowed(t) = 1
    BY ArraysAssumption DEF Allowed, OwnTags
  <2>2. QED
    BY <2>1 DEF ChargedOnce, LineMissesWithinEntries
<1>4. QED
  BY InitIInv, NextIInv, <1>1, <1>2, <1>3, PTL DEF Spec

(* Without arrays that is all the path analysis assumes.                   *)
THEOREM PersistentMissesWithinEntries ==
    CountingIsRight /\ Arrays = {} => (Spec => []MissesWithinEntries)
<1> SUFFICES ASSUME CountingIsRight, Arrays = {}
             PROVE  Spec => []MissesWithinEntries
  OBVIOUS
<1>1. LineMissesWithinEntries => MissesWithinEntries
  BY DEF MissesWithinEntries
<1>2. Spec => []LineMissesWithinEntries
  BY PersistentLinesMissOnce
<1>3. QED
  BY <1>1, <1>2, PTL

-----------------------------------------------------------------------------
(* The order of informations, for loops that access no arrays.  With       *)
(* arrays an information may count one conflict more than a join of it     *)
(* with itself tolerates (SetWiseCountingPersistence.h:228).               *)

LEMMA CondMustOrder ==
    ASSUME persType = "CONDMUST", NEW i, IsInfo(i), NEW j, IsInfo(j)
    PROVE  InfoLessEqual(i, j) <=>
              /\ DOMAIN i \subseteq DOMAIN j
              /\ \A s \in DOMAIN i : i[s] <= j[s]
<1> DEFINE k == CondMustJoin(i, j)
<1>1. /\ \A s \in DOMAIN i : i[s] \in 0 .. Assoc + 1
      /\ \A s \in DOMAIN j : j[s] \in 0 .. Assoc + 1
      /\ j = [s \in DOMAIN j |-> j[s]]
  BY DEF IsInfo
<1>2. k = [s \in DOMAIN i \cup DOMAIN j |->
             IF s \notin DOMAIN j THEN i[s]
             ELSE IF s \notin DOMAIN i THEN j[s]
             ELSE GreaterOf(i[s], j[s])]
  BY DEF CondMustJoin
<1>3. InfoLessEqual(i, j) <=> k = j
  BY DEF InfoLessEqual, CondMustLessEqual
<1> HIDE DEF k
<1>4. ASSUME k = j
      PROVE  DOMAIN i \subseteq DOMAIN j /\ \A s \in DOMAIN i : i[s] <= j[s]
  <2>1. DOMAIN j = DOMAIN i \cup DOMAIN j
    BY <1>2, <1>4
  <2>2. \A s \in DOMAIN i : j[s] = GreaterOf(i[s], j[s])
    BY <1>2, <1>4, <2>1
  <2>3. \A s \in DOMAIN i : s \in DOMAIN j
    BY <2>1
  <2>4. QED
    BY <1>1, <2>2, <2>3, AssocAssumption DEF GreaterOf
<1>5. ASSUME DOMAIN i \subseteq DOMAIN j, \A s \in DOMAIN i : i[s] <= j[s]
      PROVE  k = j
  <2>1. DOMAIN i \cup DOMAIN j = DOMAIN j
    BY <1>5
  <2>2. \A s \in DOMAIN j : s \in DOMAIN i => GreaterOf(i[s], j[s]) = j[s]
    BY <1>1, <1>5, AssocAssumption DEF GreaterOf
  <2>3. \A s \in DOMAIN j : k[s] = j[s]
    BY <1>2, <2>1, <2>2
  <2>4. QED
    BY <1>1, <1>2, <2>1, <2>3
<1>6. QED
  BY <1>3, <1>4, <1>5

LEMMA SetWiseReflexive ==
    ASSUME Arrays = {}, NEW x \in SetWiseDomain, WithinLimit(x)
    PROVE  SetWiseLessEqual(x, x)
BY SetWiseOrder DEF WithinLimit

LEMMA JoinAbove ==
    ASSUME Arrays = {}, persType \in Types, NEW i, IsInfo(i), Limited(i),
           NEW j, IsInfo(j), Limited(j)
    PROVE  InfoLessEqual(i, JoinInfo(i, j)) /\ InfoLessEqual(j, JoinInfo(i, j))
<1>1. CASE persType = "SETWISE"
  <2>1. i \in SetWiseDomain /\ j \in SetWiseDomain
    BY <1>1 DEF IsInfo
  <2>2. QED
    BY <1>1, <2>1, SetWiseJoinAbove DEF InfoLessEqual, JoinInfo
<1>2. CASE persType = "ELEWISE"
  <2> DEFINE k == ElementWiseJoin(i, j)
  <2>1. \A s \in DOMAIN i : i[s] \in SetWiseDomain /\ WithinLimit(i[s])
    BY <1>2 DEF IsInfo, Limited
  <2>2. \A s \in DOMAIN j : j[s] \in SetWiseDomain /\ WithinLimit(j[s])
    BY <1>2 DEF IsInfo, Limited
  <2>3. k = [s \in DOMAIN i \cup DOMAIN j |->
               IF s \notin DOMAIN j THEN i[s]
               ELSE IF s \notin DOMAIN i THEN j[s]
               ELSE SetWiseJoin(i[s], j[s])]
    BY DEF ElementWiseJoin
  <2> HIDE DEF k
  <2>4. \A s \in DOMAIN i : s \in DOMAIN k /\ SetWiseLessEqual(i[s], k[s])
    <3> TAKE s \in DOMAIN i
    <3>1. CASE s \in DOMAIN j
      BY <2>1, <2>2, <2>3, <3>1, SetWiseJoinAbove
    <3>2. CASE s \notin DOMAIN j
      BY <2>1, <2>3, <3>2, SetWiseReflexive
    <3>3. QED
      BY <3>1, <3>2
  <2>5. \A s \in DOMAIN j : s \in DOMAIN k /\ SetWiseLessEqual(j[s], k[s])
    <3> TAKE s \in DOMAIN j
    <3>1. CASE s \in DOMAIN i
      BY <2>1, <2>2, <2>3, <3>1, SetWiseJoinAbove
    <3>2. CASE s \notin DOMAIN i
      BY <2>2, <2>3, <3>2, SetWiseReflexive
    <3>3. QED
      BY <3>1, <3>2
  <2>6. QED
    BY <1>2, <2>4, <2>5 DEF InfoLessEqual, ElementWiseLessEqual, JoinInfo, k
<1>3. CASE persType = "CONDMUST"
  <2> DEFINE k == CondMustJoin(i, j)
  <2>1. /\ \A s \in DOMAIN i : i[s] \in 0 .. Assoc + 1
        /\ \A s \in DOMAIN j : j[s] \in 0 .. Assoc + 1
    BY <1>3 DEF IsInfo
  <2>2. k = JoinInfo(i, j) /\ IsInfo(k)
    BY <1>3, JoinType DEF JoinInfo
  <2>3. /\ DOMAIN k = DOMAIN i \cup DOMAIN j
        /\ \A s \in DOMAIN i : i[s] <= k[s]
        /\ \A s \in DOMAIN j : j[s] <= k[s]
    BY <2>1, AssocAssumption DEF CondMustJoin, GreaterOf
  <2> HIDE DEF k
  <2>4. InfoLessEqual(i, k) /\ InfoLessEqual(j, k)
    BY <1>3, <2>2, <2>3, CondMustOrder
  <2>5. QED
    BY <2>2, <2>4
<1>4. QED
  BY <1>1, <1>2, <1>3 DEF Types

(* Joining two informations of a scope gives one above both, so that the   *)
(* fixpoint iteration comes to rest, for loops that access no arrays.      *)
THEOREM JoinsAreUpperBounds == Arrays = {} => (Spec => []JoinIsUpperBound)
<1> SUFFICES ASSUME Arrays = {}
             PROVE  Spec => []JoinIsUpperBound
  OBVIOUS
<1>1. IInv => JoinIsUpperBound
  <2> SUFFICES ASSUME IInv, NEW p \in Paths, NEW q \in Paths, NEW s \in Open
               PROVE  LET join == JoinInfo(info[p][s], info[q][s])
                      IN  /\ InfoLessEqual(info[p][s], join)
                          /\ InfoLessEqual(info[q][s], join)
    BY DEF JoinIsUpperBound
  <2>1. \A r \in {p, q} : IsInfo(info[r][s]) /\ Limited(info[r][s])
    BY DEF IInv, TypeOK, ScopeCounted
  <2>2. persType \in Types
    BY TypesKnown DEF IInv
  <2>3. QED
    BY <2>1, <2>2, JoinAbove
<1>2. QED
  BY InitIInv, NextIInv, <1>1, PTL DEF Spec

LEMMA UpdateMonotone ==
    ASSUME Arrays = {}, persType \in Types, NEW i, IsInfo(i), Limited(i),
           NEW j, IsInfo(j), Limited(j), InfoLessEqual(i, j), NEW t \in OwnTags
    PROVE  InfoLessEqual(UpdateInfo(i, t), UpdateInfo(j, t))
<1>1. CASE persType = "SETWISE"
  <2>1. /\ i \in SetWiseDomain /\ j \in SetWiseDomain /\ SetWiseLessEqual(i, j)
        /\ WithinLimit(i) /\ WithinLimit(j)
    BY <1>1 DEF IsInfo, Limited, InfoLessEqual
  <2>2. QED
    BY <1>1, <2>1, SetWiseUpdateMonotone DEF InfoLessEqual, UpdateInfo
<1>2. CASE persType = "ELEWISE"
  <2> DEFINE u == ElementWiseUpdate(i, t)
             v == ElementWiseUpdate(j, t)
  <2>1. /\ \A s \in DOMAIN i : i[s] \in SetWiseDomain /\ WithinLimit(i[s])
        /\ \A s \in DOMAIN j : j[s] \in SetWiseDomain /\ WithinLimit(j[s])
    BY <1>2 DEF IsInfo, Limited
  <2>2. \A s \in DOMAIN i : s \in DOMAIN j /\ SetWiseLessEqual(i[s], j[s])
    BY <1>2 DEF InfoLessEqual, ElementWiseLessEqual
  <2>3. u = [s \in DOMAIN i \cup {t} |->
               SetWiseUpdate(IF s = t THEN SetWiseEmpty ELSE i[s], t)]
    BY DEF ElementWiseUpdate
  <2>4. v = [s \in DOMAIN j \cup {t} |->
               SetWiseUpdate(IF s = t THEN SetWiseEmpty ELSE j[s], t)]
    BY DEF ElementWiseUpdate
  <2> HIDE DEF u, v
  <2>5. ASSUME NEW s \in DOMAIN u
        PROVE  s \in DOMAIN v /\ SetWiseLessEqual(u[s], v[s])
    <3>1. CASE s = t
      <4>1. u[s] = SetWiseUpdate(SetWiseEmpty, t) /\ v[s] = u[s] /\ s \in DOMAIN v
        BY <2>3, <2>4, <3>1
      <4>2. u[s] \in SetWiseDomain /\ WithinLimit(u[s])
        BY <4>1, EmptyLimit, SetWiseConstantsType, SetWiseUpdateType, LimitKept
      <4>3. QED
        BY <4>1, <4>2, SetWiseReflexive
    <3>2. CASE s # t
      <4>1. s \in DOMAIN i /\ u[s] = SetWiseUpdate(i[s], t)
        BY <2>3, <3>2
      <4>2. s \in DOMAIN v /\ s \in DOMAIN j /\ v[s] = SetWiseUpdate(j[s], t)
        BY <2>2, <2>4, <3>2, <4>1
      <4>3. SetWiseLessEqual(SetWiseUpdate(i[s], t), SetWiseUpdate(j[s], t))
        BY <2>1, <2>2, <4>1, <4>2, SetWiseUpdateMonotone
      <4>4. QED
        BY <4>1, <4>2, <4>3
    <3>3. QED
      BY <3>1, <3>2
  <2>6. QED
    BY <1>2, <2>5 DEF InfoLessEqual, ElementWiseLessEqual, UpdateInfo, u, v
<1>3. CASE persType = "CONDMUST"
  <2> DEFINE u == CondMustUpdate(i, t)
             v == CondMustUpdate(j, t)
  <2>1. /\ \A s \in DOMAIN i : i[s] \in 0 .. Assoc + 1
        /\ \A s \in DOMAIN j : j[s] \in 0 .. Assoc + 1
    BY <1>3 DEF IsInfo
  <2>2. DOMAIN i \subseteq DOMAIN j /\ \A s \in DOMAIN i : i[s] <= j[s]
    BY <1>3, CondMustOrder
  <2>3. u = UpdateInfo(i, t) /\ IsInfo(u) /\ v = UpdateInfo(j, t) /\ IsInfo(v)
    BY <1>3, UpdateType DEF UpdateInfo
  <2>4. /\ DOMAIN u = DOMAIN i \cup {t}
        /\ \A s \in DOMAIN u : u[s] = IF s = t THEN 1
                                      ELSE IF t \in DOMAIN i THEN CondMustAged(i[s])
                                      ELSE i[s]
    BY DEF CondMustUpdate
  <2>5. /\ DOMAIN v = DOMAIN j \cup {t}
        /\ \A s \in DOMAIN v : v[s] = IF s = t THEN 1
                                      ELSE IF t \in DOMAIN j THEN CondMustAged(j[s])
                                      ELSE j[s]
    BY DEF CondMustUpdate
  <2> HIDE DEF u, v
  <2>6. DOMAIN u \subseteq DOMAIN v
    BY <2>2, <2>4, <2>5
  <2>7. ASSUME NEW s \in DOMAIN u
        PROVE  u[s] <= v[s]
    <3>1. CASE s = t
      BY <2>4, <2>5, <2>6, <3>1
    <3>2. CASE s # t
      <4>1. s \in DOMAIN i /\ s \in DOMAIN j /\ i[s] <= j[s] /\ s \in DOMAIN v
        BY <2>2, <2>4, <2>6, <3>2
      <4>2. t \in DOMAIN i => t \in DOMAIN j
        BY <2>2
      <4>3. /\ i[s] <= CondMustAged(i[s]) /\ j[s] <= CondMustAged(j[s])
            /\ CondMustAged(i[s]) <= CondMustAged(j[s])
            /\ i[s] <= CondMustAged(j[s])
        BY <2>1, <4>1, AssocAssumption DEF CondMustAged
      <4>4. QED
        BY <2>4, <2>5, <3>2, <4>1, <4>2, <4>3
    <3>3. QED
      BY <3>1, <3>2
  <2>8. InfoLessEqual(u, v)
    BY <1>3, <2>3, <2>6, <2>7, CondMustOrder
  <2>9. QED
    BY <2>3, <2>8
<1>4. QED
  BY <1>1, <1>2, <1>3 DEF Types

LEMMA PotentialUpdateMonotone ==
    ASSUME Arrays = {}, persType \in Types, NEW i, IsInfo(i), Limited(i),
           NEW j, IsInfo(j), Limited(j), InfoLessEqual(i, j), NEW a
    PROVE  InfoLessEqual(PotentialUpdateInfo(i, a), PotentialUpdateInfo(j, a))
<1>1. /\ \A x : SetWisePotentialUpdate(x, a) = SetWiseTop
      /\ SetWiseLessEqual(SetWiseTop, SetWiseTop)
  BY DEF SetWisePotentialUpdate, SetWiseLessEqual, SetWiseJoin, SetWiseTop
<1>2. CASE persType = "SETWISE"
  BY <1>1, <1>2 DEF InfoLessEqual, PotentialUpdateInfo
<1>3. CASE persType = "ELEWISE"
  <2>1. DOMAIN i \subseteq DOMAIN j
    BY <1>3 DEF InfoLessEqual, ElementWiseLessEqual
  <2>2. ElementWiseLessEqual(ElementWisePotentialUpdate(i, a),
                             ElementWisePotentialUpdate(j, a))
    BY <1>1, <2>1 DEF ElementWisePotentialUpdate, ElementWiseLessEqual
  <2>3. QED
    BY <1>3, <2>2 DEF InfoLessEqual, PotentialUpdateInfo
<1>4. CASE persType = "CONDMUST"
  <2> DEFINE u == CondMustPotentialUpdate(i)
             v == CondMustPotentialUpdate(j)
  <2>1. /\ \A s \in DOMAIN i : i[s] \in 0 .. Assoc + 1
        /\ \A s \in DOMAIN j : j[s] \in 0 .. Assoc + 1
    BY <1>4 DEF IsInfo
  <2>2. DOMAIN i \subseteq DOMAIN j /\ \A s \in DOMAIN i : i[s] <= j[s]
    BY <1>4, CondMustOrder
  <2>3. /\ u = PotentialUpdateInfo(i, a) /\ IsInfo(u)
        /\ v = PotentialUpdateInfo(j, a) /\ IsInfo(v)
    BY <1>4, PotentialUpdateType DEF PotentialUpdateInfo
  <2>4. /\ DOMAIN u = DOMAIN i /\ \A s \in DOMAIN i : u[s] = CondMustAged(i[s])
        /\ DOMAIN v = DOMAIN j /\ \A s \in DOMAIN j : v[s] = CondMustAged(j[s])
    BY DEF CondMustPotentialUpdate
  <2> HIDE DEF u, v
  <2>5. \A s \in DOMAIN i : CondMustAged(i[s]) <= CondMustAged(j[s])
    BY <2>1, <2>2, AssocAssumption DEF CondMustAged
  <2>6. DOMAIN u \subseteq DOMAIN v /\ \A s \in DOMAIN u : u[s] <= v[s]
    BY <2>2, <2>4, <2>5
  <2>7. InfoLessEqual(u, v)
    BY <1>4, <2>3, <2>6, CondMustOrder
  <2>8. QED
    BY <2>3, <2>7
<1>5. QED
  BY <1>2, <1>3, <1>4 DEF Types

(* What is known of an access with less information is known with more,    *)
(* for loops that access no arrays.                                        *)
THEOREM PersistenceUpdatesAreMonotone ==
    Arrays = {} => (Spec => []UpdateIsMonotone)
<1> SUFFICES ASSUME Arrays = {}
             PROVE  Spec => []UpdateIsMonotone
  OBVIOUS
<1>1. IInv => UpdateIsMonotone
  <2> SUFFICES ASSUME IInv, NEW p \in Paths, NEW q \in Paths, NEW s \in Open,
                      InfoLessEqual(info[p][s], info[q][s])
               PROVE  /\ \A t \in OwnTags :
                            InfoLessEqual(UpdateInfo(info[p][s], t), UpdateInfo(info[q][s], t))
                      /\ \A a \in Arrays \cup {NoArray} :
                            InfoLessEqual(PotentialUpdateInfo(info[p][s], a),
                                      PotentialUpdateInfo(info[q][s], a))
    BY DEF UpdateIsMonotone
  <2>1. \A r \in {p, q} : IsInfo(info[r][s]) /\ Limited(info[r][s])
    BY DEF IInv, TypeOK, ScopeCounted
  <2>2. persType \in Types
    BY TypesKnown DEF IInv
  <2>3. QED
    BY <2>1, <2>2, UpdateMonotone, PotentialUpdateMonotone
<1>2. QED
  BY InitIInv, NextIInv, <1>1, PTL DEF Spec
=============================================================================
