-------------------------- MODULE ScopePersistence --------------------------
(***************************************************************************)
(* A persistence analysis with the scopes it is asked about.               *)
(*                                                                         *)
(* The program enters and leaves loops; each open loop is a scope with     *)
(* information of its own (MultiScopePersistence).  A path is an execution *)
(* with the information the state exploration holds for it; paths that     *)
(* meet have crossed the same loop edges.  A miss on a line that is        *)
(* persistent in a scope is charged to the scope, and the path analysis    *)
(* allows one such miss for each entry (StateGraphCacheMissProvider).      *)
(***************************************************************************)
EXTENDS Persistence

CONSTANTS Paths,            \* executions followed side by side
          Scopes,           \* loops of the program
          PersistenceTypes, \* the analyses that may be chosen
          MaxEntries        \* bound of this model: entries of an open scope

ASSUME PersistenceTypesAssumption ==
    PersistenceTypes \subseteq {"SETWISE", "ELEWISE", "CONDMUST"}

ASSUME MaxEntriesAssumption == MaxEntries \in Nat \ {0}

NoArray == "no array"

ASSUME NoArrayAssumption == NoArray \notin Arrays

VARIABLES persType,    \* the analysis chosen on the command line
          cache,       \* cache[p]: the cache set on path p
          entercount,  \* scopes2entercount; DOMAIN: the open scopes
          info,        \* info[p][s]: scopes2info on path p
          seen,        \* seen[p][s]: lines accessed by name since s opened
          charged      \* charged[p][s][k]: misses charged to s for k

vars == <<persType, cache, entercount, info, seen, charged>>

Open == DOMAIN entercount

-----------------------------------------------------------------------------
(* The analysis of the chosen type.                                        *)

NewInfo ==
    CASE persType = "SETWISE"  -> SetWiseEmpty
      [] persType = "ELEWISE"  -> ElementWiseEmpty
      [] persType = "CONDMUST" -> CondMustEmpty

UpdateInfo(i, t) ==
    CASE persType = "SETWISE"  -> SetWiseUpdate(i, t)
      [] persType = "ELEWISE"  -> ElementWiseUpdate(i, t)
      [] persType = "CONDMUST" -> CondMustUpdate(i, t)

PotentialUpdateInfo(i, a) ==
    CASE persType = "SETWISE"  -> SetWisePotentialUpdate(i, a)
      [] persType = "ELEWISE"  -> ElementWisePotentialUpdate(i, a)
      [] persType = "CONDMUST" -> CondMustPotentialUpdate(i)

JoinInfo(i, j) ==
    CASE persType = "SETWISE"  -> SetWiseJoin(i, j)
      [] persType = "ELEWISE"  -> ElementWiseJoin(i, j)
      [] persType = "CONDMUST" -> CondMustJoin(i, j)

InfoLessEqual(i, j) ==
    CASE persType = "SETWISE"  -> SetWiseLessEqual(i, j)
      [] persType = "ELEWISE"  -> ElementWiseLessEqual(i, j)
      [] persType = "CONDMUST" -> CondMustLessEqual(i, j)

(* The information of a set-wise scope is built without an address, and    *)
(* looks up the co-runners' lines for set 0.                               *)
IsPersistent(i, t) ==
    CASE persType = "SETWISE"  -> SetWisePersistent(i, CoTagsOfSetZero)
      [] persType = "ELEWISE"  -> ElementWisePersistent(i, t)
      [] persType = "CONDMUST" -> CondMustPersistent(i, t)

IsArrayPersistent(i) == persType = "SETWISE" /\ ~ i.top

PersistentScopes(p, t) == {s \in Open : IsPersistent(info[p][s], t)}

ArrayPersistentScopes(p) == {s \in Open : IsArrayPersistent(info[p][s])}

-----------------------------------------------------------------------------
NothingCharged == [k \in OwnTags \cup Arrays |-> 0]

EmptyMap == [s \in {} |-> 0]

Init ==
    /\ persType \in PersistenceTypes
    /\ cache \in [Paths -> LruStates]
    /\ entercount = EmptyMap
    /\ info = [p \in Paths |-> EmptyMap]
    /\ seen = [p \in Paths |-> EmptyMap]
    /\ charged = [p \in Paths |-> EmptyMap]

(* f with s mapped to v as well.                                           *)
With(f, s, v) == [r \in DOMAIN f \cup {s} |-> IF r = s THEN v ELSE f[r]]

Without(f, s) == [r \in DOMAIN f \ {s} |-> f[r]]

(* Mutant: each entry starts with empty information.                       *)
EnterScopeAnew(s) ==
    /\ entercount' = With(entercount, s,
                          IF s \in Open THEN entercount[s] + 1 ELSE 1)
    /\ entercount'[s] <= MaxEntries
    /\ info' = [p \in Paths |-> With(info[p], s, NewInfo)]
    /\ seen' = [p \in Paths |-> IF s \in Open THEN seen[p]
                                ELSE With(seen[p], s, {})]
    /\ charged' = [p \in Paths |-> IF s \in Open THEN charged[p]
                                   ELSE With(charged[p], s, NothingCharged)]
    /\ UNCHANGED cache

(* The edge into a loop.  A scope that is still open is only counted: in   *)
(* an out-of-order pipeline the fetch may enter it again before the        *)
(* commit leaves it.                                                       *)
EnterScope(s) ==
    \/ /\ s \notin Open
       /\ entercount' = With(entercount, s, 1)
       /\ info' = [p \in Paths |-> With(info[p], s, NewInfo)]
       /\ seen' = [p \in Paths |-> With(seen[p], s, {})]
       /\ charged' = [p \in Paths |-> With(charged[p], s, NothingCharged)]
       /\ UNCHANGED cache
    \/ /\ s \in Open
       /\ entercount[s] < MaxEntries
       /\ entercount' = [entercount EXCEPT ![s] = @ + 1]
       /\ UNCHANGED <<cache, info, seen, charged>>

LeaveScope(s) ==
    /\ s \in Open
    /\ \/ /\ entercount[s] > 1
          /\ entercount' = [entercount EXCEPT ![s] = @ - 1]
          /\ UNCHANGED <<info, seen, charged>>
       \/ /\ entercount[s] = 1
          /\ entercount' = Without(entercount, s)
          /\ info' = [p \in Paths |-> Without(info[p], s)]
          /\ seen' = [p \in Paths |-> Without(seen[p], s)]
          /\ charged' = [p \in Paths |-> Without(charged[p], s)]
    /\ UNCHANGED cache

(* The program accesses t.                                                 *)
Touched(p, t) == cache' = [cache EXCEPT ![p] = Touch(cache[p], t)]

(* The misses a constraint allows for one entry of the scope.              *)
Allowed(k) == IF k \in Arrays THEN Cardinality(LinesOf[k]) ELSE 1

(* A miss counts in the constraint of each key of keys, for the scopes     *)
(* that were persistent before the access.  Bound of this model: more      *)
(* misses than allowed are not told apart.                                 *)
Charge(p, t, scopes, keys) ==
    charged' = [charged EXCEPT ![p] =
        [s \in Open |-> [k \in OwnTags \cup Arrays |->
            IF s \in scopes /\ k \in keys /\ ~ Cached(cache[p], t)
            THEN LesserOf(charged[p][s][k] + 1, Allowed(k) + 1)
            ELSE charged[p][s][k]]]]

(* A precise access.  Its miss also counts for the arrays it lies in.      *)
Access(p, t) ==
    /\ Touched(p, t)
    /\ seen' = [seen EXCEPT ![p] = [s \in Open |-> seen[p][s] \cup {t}]]
    /\ Charge(p, t, PersistentScopes(p, t),
              {t} \cup {a \in Arrays : t \in LinesOf[a]})
    /\ info' = [info EXCEPT ![p] =
                   [s \in Open |-> UpdateInfo(info[p][s], t)]]
    /\ UNCHANGED entercount

(* An access somewhere in array a: some line of it in this set, or a line  *)
(* in another set.                                                         *)
ArrayAccess(p, a) ==
    /\ \/ UNCHANGED <<cache, charged>>
       \/ \E t \in LinesOf[a] :
             /\ Touched(p, t)
             /\ Charge(p, t, ArrayPersistentScopes(p), {a})
    /\ info' = [info EXCEPT ![p] =
                   [s \in Open |-> PotentialUpdateInfo(info[p][s], a)]]
    /\ UNCHANGED <<entercount, seen>>

(* An access to an unknown address.  It has no line to be charged to.      *)
UnknownAccess(p) ==
    /\ \/ UNCHANGED cache
       \/ \E t \in OwnTags : Touched(p, t)
    /\ info' = [info EXCEPT ![p] =
                   [s \in Open |-> PotentialUpdateInfo(info[p][s], NoArray)]]
    /\ UNCHANGED <<entercount, seen, charged>>

(* A co-running task accesses the shared cache.                            *)
CoRunnerAccess(p, t) ==
    /\ Touched(p, t)
    /\ UNCHANGED <<entercount, info, seen, charged>>

Meet(p, q) ==
    /\ p # q
    /\ info' = [r \in Paths |->
                  IF r \in {p, q}
                  THEN [s \in Open |-> JoinInfo(info[p][s], info[q][s])]
                  ELSE info[r]]
    /\ UNCHANGED <<cache, entercount, seen, charged>>

Step ==
    \/ \E s \in Scopes : EnterScope(s)
    \/ \E s \in Scopes : LeaveScope(s)
    \/ \E p \in Paths : \E t \in OwnTags : Access(p, t)
    \/ \E p \in Paths : \E a \in Arrays : ArrayAccess(p, a)
    \/ \E p \in Paths : UnknownAccess(p)
    \/ \E p \in Paths : \E t \in CoTags : CoRunnerAccess(p, t)
    \/ \E p, q \in Paths : Meet(p, q)

Next == Step /\ UNCHANGED persType

Spec == Init /\ [][Next]_vars

-----------------------------------------------------------------------------
IsInfo(i) ==
    CASE persType = "SETWISE"  -> i \in SetWiseDomain
      [] persType = "ELEWISE"  ->
            /\ DOMAIN i \subseteq OwnTags
            /\ i \in [DOMAIN i -> SetWiseDomain]
      [] persType = "CONDMUST" ->
            /\ DOMAIN i \subseteq OwnTags
            /\ i \in [DOMAIN i -> 0 .. Assoc + 1]

TypeOK ==
    /\ persType \in PersistenceTypes
    /\ cache \in [Paths -> LruStates]
    /\ Open \subseteq Scopes
    /\ entercount \in [Open -> 1 .. MaxEntries]
    /\ DOMAIN info = Paths
    /\ seen \in [Paths -> [Open -> SUBSET OwnTags]]
    /\ charged \in [Paths -> [Open -> [OwnTags \cup Arrays -> Nat]]]
    /\ \A p \in Paths :
          /\ DOMAIN info[p] = Open
          /\ \A s \in Open : IsInfo(info[p][s])

(* What a set-wise information x says of line t: more lines were counted   *)
(* than have been put between t and now.                                   *)
AgeCounted(p, t, x) ==
    ~ x.top => cache[p][t] < Conflicts(x) + Cardinality(CoTags)

(* The conflicts counted since the scope was opened (set-wise) or since    *)
(* the last access to the line (element-wise) bound the age of every line  *)
(* the scope has accessed, whatever joins, array accesses and re-entries   *)
(* happened in between (SetWiseCountingPersistence.h,                      *)
(* ElementWiseCountingPersistence.h).                                      *)
AgeWithinConflicts ==
    \A p \in Paths : \A s \in Open : \A t \in seen[p][s] :
        CASE persType = "SETWISE"  -> AgeCounted(p, t, info[p][s])
          [] persType = "ELEWISE"  ->
                t \in DOMAIN info[p][s] /\ AgeCounted(p, t, info[p][s][t])
          [] persType = "CONDMUST" -> TRUE

(* "Sum of persistent and definite miss edges - sum of entry edges should  *)
(* be <= 0": on no execution does a line persistent in a scope miss twice  *)
(* between opening and closing the scope, or a persistent array more often *)
(* than it has lines; the ILP of the path analysis excludes such paths.    *)
LineMissesWithinEntries ==
    \A p \in Paths : \A s \in Open : \A t \in OwnTags :
        charged[p][s][t] <= Allowed(t)

MissesWithinEntries ==
    /\ LineMissesWithinEntries
    /\ \A p \in Paths : \A s \in Open : \A a \in Arrays :
          charged[p][s][a] <= Allowed(a)

(* A join is above both sides and joining a side again changes nothing;    *)
(* otherwise the fixpoint iteration would not come to rest (lessequal is   *)
(* itself computed by a join).                                             *)
JoinIsUpperBound ==
    \A p, q \in Paths : \A s \in Open :
        LET join == JoinInfo(info[p][s], info[q][s])
        IN InfoLessEqual(info[p][s], join) /\ InfoLessEqual(info[q][s], join)

(* What is known of an access with less information is known with more:    *)
(* updates preserve the order of the informations.                         *)
UpdateIsMonotone ==
    \A p, q \in Paths : \A s \in Open :
        InfoLessEqual(info[p][s], info[q][s]) =>
            /\ \A t \in OwnTags :
                  InfoLessEqual(UpdateInfo(info[p][s], t), UpdateInfo(info[q][s], t))
            /\ \A a \in Arrays \cup {NoArray} :
                  InfoLessEqual(PotentialUpdateInfo(info[p][s], a),
                                PotentialUpdateInfo(info[q][s], a))
=============================================================================
