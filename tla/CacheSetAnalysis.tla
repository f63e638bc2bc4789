-------------------------- MODULE CacheSetAnalysis --------------------------
(***************************************************************************)
(* The analysis of one LRU cache set along the paths of the program.       *)
(*                                                                         *)
(* A path is one execution of the analysed program together with the       *)
(* abstract state the state exploration holds for it: conc[p] is the       *)
(* content of the cache on that execution, abs[p] the abstract cache set   *)
(* that must describe it.  The analyser never sees conc; it decides from   *)
(* abs alone, and abs is replaced by a join whenever two states meet at a  *)
(* program point.                                                          *)
(***************************************************************************)
EXTENDS LruCacheSet

CONSTANTS Paths,       \* executions followed side by side
          AddressSets  \* sets of tags an imprecise address may stand for

ASSUME AddressSetsAssumption == AddressSets \subseteq SUBSET Tags

VARIABLES conc,  \* conc[p][t]: age of t in the cache, Assoc when absent
          abs    \* abs[p]: the abstract cache set of p

vars == <<conc, abs>>

(* Either nothing is known of the cache, or it is assumed to be empty.     *)
Init ==
    \/ /\ conc \in [Paths -> LruStates]
       /\ abs = [p \in Paths |-> UnknownCache]
    \/ /\ conc = [p \in Paths |-> [t \in Tags |-> Assoc]]
       /\ abs = [p \in Paths |-> EmptyCache]

HitName  == IF Level = 1 THEN "HIT" ELSE "L2HIT"
MissName == IF Level = 1 THEN "MISS" ELSE "L2MISS"

(* What the access of t does on this execution, in the caller's words.     *)
Outcome(p, t) == IF Cached(conc[p], t) THEN HitName ELSE MissName

(* An access to a known address.  The memory topology follows the outcomes *)
(* the classification leaves open and updates each with its assumption;    *)
(* the other callers update without one.                                   *)
Access(p, t) ==
    \E assumption \in {"UNKNOWN", Outcome(p, t)} :
        /\ conc' = [conc EXCEPT ![p] = Touch(@, t)]
        /\ abs' = [abs EXCEPT ![p] = Update(@, t, assumption)]

(* An access to an unknown address: it reaches some tag of S, or another   *)
(* set of the cache.                                                       *)
UnknownAccess(p, S) ==
    /\ abs' = [abs EXCEPT ![p] = PotentialUpdate(@, S)]
    /\ \/ UNCHANGED conc
       \/ \E t \in S : conc' = [conc EXCEPT ![p] = Touch(@, t)]

(* The states of p and q meet; from here on both are described by the join.*)
Meet(p, q) ==
    /\ p # q
    /\ abs' = [abs EXCEPT ![p] = Join(abs[p], abs[q]),
                          ![q] = Join(abs[p], abs[q])]
    /\ UNCHANGED conc

Next ==
    \/ \E p \in Paths : \E t \in Tags : Access(p, t)
    \/ \E p \in Paths : \E S \in AddressSets : UnknownAccess(p, S)
    \/ \E p, q \in Paths : Meet(p, q)

Spec == Init /\ [][Next]_vars

-----------------------------------------------------------------------------
TypeOK ==
    /\ conc \in [Paths -> LruStates]
    /\ abs \in [Paths -> CacheSetDomain]

(* The bounds of the two analyses enclose the age of every line of the     *)
(* cache, on every path (LruMaxAgeAbstractCache.h and                      *)
(* LruMinAgeAbstractCache.h, update, potentialUpdate and join).            *)
MustSound == \A p \in Paths : \A t \in Tags : conc[p][t] <= abs[p].must[t]

MaySound ==
    \A p \in Paths : \A t \in Tags :
        /\ abs[p].may.age[t] <= conc[p][t]
        /\ abs[p].may.age[t] <= abs[p].may.implicit

(* A line classified as a hit is in the cache and a line classified as a   *)
(* miss is not, whichever analysis said so; the exploration follows only   *)
(* the classified outcome, so a wrong answer loses the real execution.     *)
ClassificationSound ==
    \A p \in Paths : \A t \in Tags :
        /\ Classify(abs[p], t) = "HIT" => Cached(conc[p], t)
        /\ Classify(abs[p], t) = "MISS" => ~ Cached(conc[p], t)

(* "Full cache and addr not in there, cannot assume a hit": the assertion  *)
(* of LruMaxAgeAbstractCache::update holds on every path on which the      *)
(* access really hits.                                                     *)
HitAssumptionIsLegal ==
    \A p \in Paths : \A t \in Tags :
        Cached(conc[p], t) => HitAssumptionFits(abs[p].must, t)

(* At most i + 1 lines have a maximal age of i: getNumberOfTagsWithMaxAge  *)
(* counts real lines, never more than the stack of an LRU set can hold.    *)
StackBounded ==
    \A p \in Paths : \A i \in 0 .. Assoc - 1 :
        Cardinality({t \in Tags : abs[p].must[t] <= i}) <= i + 1

(* "|S| = n (S is concrete, it contains n elements)": where as many lines   *)
(* have a maximal age below n as fit there, they are the n youngest lines  *)
(* of the cache, in whatever order (getMaxConcreteSubStackSize).           *)
SubStackConcrete ==
    \A p \in Paths : \A n \in ConcreteSubStackSizes(abs[p].must, Assoc) :
        {t \in Tags : conc[p][t] < n} = TagsWithMaxMaxAge(abs[p].must, n - 1)

(* Of two states the more precise one stays the more precise one under the *)
(* same access, and a join is above both: without this the fixpoint        *)
(* iteration over abstract states need not end in a fixpoint.              *)
UpdateIsMonotone ==
    \A p, q \in Paths : \A t \in Tags :
        LessEqual(abs[p], abs[q]) =>
            /\ LessEqual(Update(abs[p], t, "UNKNOWN"),
                         Update(abs[q], t, "UNKNOWN"))
            /\ \A S \in AddressSets :
                  LessEqual(PotentialUpdate(abs[p], S),
                            PotentialUpdate(abs[q], S))
=============================================================================
