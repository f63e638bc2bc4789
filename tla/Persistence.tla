---------------------------- MODULE Persistence ----------------------------
(***************************************************************************)
(* The persistence analyses of one LRU cache set, as operators on the      *)
(* information they keep about one scope (a loop): set-wise counting, the  *)
(* element-wise counting built from it, and the conditional must analysis. *)
(*                                                                         *)
(* A line is persistent in a scope when it is loaded at most once each     *)
(* time the scope is entered.                                              *)
(***************************************************************************)
EXTENDS LruCache

CONSTANTS Arrays,          \* arrays of at least two lines, ArrayAnalysis on
          LinesOf,         \* LinesOf[a]: the lines of a that map to the set
          PerSetSize,      \* PerSetSize[a]: getPerSetSize, lines per set
          CoTags,          \* lines of this set that co-running tasks access
          CoTagsOfSetZero, \* how many of their lines map to set 0
          LiangY           \* SPersistenceA with the LiangY analysis, level 2

ASSUME ArraysAssumption ==
    /\ IsFiniteSet(Arrays)
    /\ Arrays \cap Tags = {}
    /\ LinesOf \in [Arrays -> SUBSET Tags]
    /\ PerSetSize \in [Arrays -> Nat]
    /\ \A a \in Arrays : Cardinality(LinesOf[a]) <= PerSetSize[a]

ASSUME CoRunnerAssumption ==
    /\ CoTags \subseteq Tags
    /\ CoTagsOfSetZero \in Nat
    /\ LiangY \in BOOLEAN
    /\ CoTags # {} => LiangY
    /\ \A a \in Arrays : LinesOf[a] \cap CoTags = {}

OwnTags == Tags \ CoTags

LesserOf(m, n) == IF m <= n THEN m ELSE n
GreaterOf(m, n) == IF m >= n THEN m ELSE n

-----------------------------------------------------------------------------
(* Set-wise counting: the lines and array accesses seen so far.  An array  *)
(* access adds an anonymous line of the array; arrays counts them.         *)

SetWiseDomain ==
    [top : BOOLEAN, blocks : SUBSET OwnTags, arrays : [Arrays -> Nat]]

NoArrays == [a \in Arrays |-> 0]

SetWiseEmpty == [top |-> FALSE, blocks |-> {}, arrays |-> NoArrays]

SetWiseTop == [top |-> TRUE, blocks |-> {}, arrays |-> NoArrays]

ArrayAccesses(arrays) ==
    LET sum[S \in SUBSET Arrays] ==
            IF S = {} THEN 0
            ELSE LET array == CHOOSE x \in S : TRUE
                 IN arrays[array] + sum[S \ {array}]
    IN sum[Arrays]

(* The number of lines of the set the scope may have accessed (getCSS).    *)
Conflicts(x) == Cardinality(x.blocks) + ArrayAccesses(x.arrays)

(* Lines of the array that are not yet known by name.                      *)
PerArrayBound(blocks, a) == PerSetSize[a] - Cardinality(blocks \cap LinesOf[a])

(* Mutant: one conflict too many is tolerated.                             *)
SetWiseCheckedLate(x) == IF Conflicts(x) > Assoc + 1 THEN SetWiseTop ELSE x

SetWiseChecked(x) == IF Conflicts(x) > Assoc THEN SetWiseTop ELSE x

(* Mutant: information that was given up is taken up again.                *)
SetWiseUpdateTop(x, t) ==
    SetWiseChecked([top |-> FALSE, blocks |-> x.blocks \cup {t},
                    arrays |-> x.arrays])

SetWiseUpdate(x, t) ==
    IF x.top \/ t \in x.blocks THEN x
    ELSE SetWiseChecked([top |-> FALSE, blocks |-> x.blocks \cup {t},
                         arrays |-> x.arrays])

(* An access somewhere: in an array, or anywhere when a is no array.  The  *)
(* limit is tested before the new access is counted.                       *)
SetWisePotentialUpdate(x, a) ==
    IF x.top \/ a \notin Arrays THEN SetWiseTop
    ELSE IF x.arrays[a] >= PerArrayBound(x.blocks, a) THEN x
    ELSE IF Conflicts(x) > Assoc THEN SetWiseTop
    ELSE [top |-> FALSE, blocks |-> x.blocks,
          arrays |-> [b \in Arrays |-> x.arrays[b] + (IF b = a THEN 1 ELSE 0)]]

SetWiseJoin(x, y) ==
    IF x.top \/ y.top THEN SetWiseTop
    ELSE LET blocks == x.blocks \cup y.blocks
         IN SetWiseChecked(
              [top |-> FALSE, blocks |-> blocks,
               arrays |-> [a \in Arrays |->
                   LesserOf(GreaterOf(x.arrays[a], y.arrays[a]),
                            PerArrayBound(blocks, a))]])

(* Mutant: the co-runners' lines need no room.                             *)
SetWisePersistentAlone(x, coLines) == ~ x.top

(* For a shared second-level cache (LiangY) the lines of the co-runners    *)
(* that map to the same set must fit as well.                              *)
SetWisePersistent(x, coLines) ==
    ~ x.top /\ (LiangY => Conflicts(x) + coLines <= Assoc)

SetWiseLessEqual(x, y) == SetWiseJoin(x, y) = y

-----------------------------------------------------------------------------
(* Element-wise counting: for every line accessed in the scope, the        *)
(* conflicts since its last access.  e is a map from lines to set-wise     *)
(* information; a line outside DOMAIN e has not been seen.                 *)

ElementWiseEmpty == [t \in {} |-> SetWiseEmpty]

ElementWiseUpdate(e, t) ==
    [s \in DOMAIN e \cup {t} |->
        SetWiseUpdate(IF s = t THEN SetWiseEmpty ELSE e[s], t)]

ElementWisePotentialUpdate(e, a) ==
    [s \in DOMAIN e |-> SetWisePotentialUpdate(e[s], a)]

(* Mutant: a line that only the other side has seen is forgotten.          *)
ElementWiseJoinOwn(e, f) ==
    [s \in DOMAIN e |->
        IF s \notin DOMAIN f THEN e[s] ELSE SetWiseJoin(e[s], f[s])]

ElementWiseJoin(e, f) ==
    [s \in DOMAIN e \cup DOMAIN f |->
        IF s \notin DOMAIN f THEN e[s]
        ELSE IF s \notin DOMAIN e THEN f[s]
        ELSE SetWiseJoin(e[s], f[s])]

ElementWiseLessEqual(e, f) ==
    \A s \in DOMAIN e : s \in DOMAIN f /\ SetWiseLessEqual(e[s], f[s])

ElementWisePersistent(e, t) ==
    t \in DOMAIN e /\ SetWisePersistent(e[t], Cardinality(CoTags))

-----------------------------------------------------------------------------
(* Conditional must: for every line accessed in the scope, a bound on the  *)
(* number of lines accessed since.                                         *)

CondMustEmpty == [t \in {} |-> 0]

(* One line is put between t and every other line; the first access of a   *)
(* line only adds it to the map.                                           *)
CondMustAged(n) == IF n > 0 /\ n <= Assoc THEN n + 1 ELSE n

CondMustUpdate(m, t) ==
    IF t \notin DOMAIN m
    THEN [s \in DOMAIN m \cup {t} |-> IF s = t THEN 1 ELSE m[s]]
    ELSE [s \in DOMAIN m |-> IF s = t THEN 1 ELSE CondMustAged(m[s])]

CondMustPotentialUpdate(m) == [s \in DOMAIN m |-> CondMustAged(m[s])]

CondMustJoin(m, n) ==
    [s \in DOMAIN m \cup DOMAIN n |->
        IF s \notin DOMAIN n THEN m[s]
        ELSE IF s \notin DOMAIN m THEN n[s]
        ELSE GreaterOf(m[s], n[s])]

CondMustLessEqual(m, n) == CondMustJoin(m, n) = n

CondMustPersistent(m, t) == t \in DOMAIN m => m[t] <= Assoc
=============================================================================
