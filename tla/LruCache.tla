------------------------------ MODULE LruCache ------------------------------
(***************************************************************************)
(* One set of a least recently used cache: what the analyses over-         *)
(* approximate.  A line of the set has an age 0 .. Assoc - 1, 0 for the    *)
(* most recently used; age Assoc stands for "not in the set".              *)
(***************************************************************************)
EXTENDS Integers, FiniteSets

CONSTANTS Tags,   \* the tags that map to the modelled set
          Assoc   \* CacheTraits::ASSOCIATIVITY

ASSUME TagsAssumption == IsFiniteSet(Tags)
ASSUME AssocAssumption == Assoc \in Nat \ {0}

Ages == 0 .. Assoc

Cached(c, t) == c[t] < Assoc

(* An access makes t the youngest and ages what was younger.               *)
Touch(c, t) ==
    [s \in Tags |-> IF s = t THEN 0
                    ELSE IF c[s] < c[t] THEN c[s] + 1 ELSE c[s]]

(* No two tags are in the same way of the set.                             *)
LruStates ==
    {c \in [Tags -> Ages] :
        \A s, t \in Tags : s # t /\ Cached(c, s) => c[s] # c[t]}
=============================================================================
