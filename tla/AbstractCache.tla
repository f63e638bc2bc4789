--------------------------- MODULE AbstractCache ---------------------------
(***************************************************************************)
(* A whole cache: how AbstractCacheImpl maps addresses, precise ones and   *)
(* intervals, to cache sets, and lifts the analyses of one set to all.     *)
(*                                                                         *)
(* Addresses are counted in words.  An address of the analysis is one      *)
(* word, an array (its words), or unknown (every word); all three are      *)
(* intervals lo .. hi here, as getAsInterval presents them.                *)
(***************************************************************************)
EXTENDS LruCacheSet

CONSTANTS NSets,         \* CacheTraits::N_SETS
          LineWords,     \* CacheTraits::LINE_SIZE, in words
          AddressSpace,  \* number of words, a power of two in the code
          Intervals      \* intervals that the program accesses imprecisely

ASSUME GeometryAssumption ==
    /\ NSets \in Nat \ {0}
    /\ LineWords \in Nat \ {0}
    /\ Tags = 0 .. Cardinality(Tags) - 1
    /\ AddressSpace = Cardinality(Tags) * NSets * LineWords

ASSUME IntervalsAssumption ==
    \A i \in Intervals :
        /\ i \in [lo : 0 .. AddressSpace - 1, hi : 0 .. AddressSpace - 1]
        /\ i.lo <= i.hi

VARIABLES conc,    \* conc[s]: content of set s of the cache
          abs,     \* abs[s]: cacheSets[s]
          gaveUp   \* sets whose persistence information is at top

vars == <<conc, abs, gaveUp>>

Sets == 0 .. NSets - 1
Words == 0 .. AddressSpace - 1

UnknownAddress == [lo |-> 0, hi |-> AddressSpace - 1]

(* The lines that an interval touches.                                     *)
LineOf(w) == w \div LineWords
LinesIn(i) == LineOf(i.lo) .. LineOf(i.hi)

SetOf(line) == line % NSets
TagOf(line) == line \div NSets

SetsSpanned(i) == {SetOf(line) : line \in LinesIn(i)}

-----------------------------------------------------------------------------
(* Mutant: the last set is forgotten where the interval wraps around.      *)
SetsBetweenNoWrap(lower, upper) ==
    IF lower <= upper THEN lower .. upper ELSE lower .. NSets - 1

SetsBetween(lower, upper) ==
    IF lower <= upper THEN lower .. upper
    ELSE (lower .. NSets - 1) \cup (0 .. upper)

(* Mutant: an interval of exactly one way is taken for a shorter one.      *)
SetIntervalLonger(i) ==
    IF (i.hi + 1 - i.lo) % AddressSpace > NSets * LineWords
    THEN [lower |-> 0, upper |-> NSets - 1]
    ELSE [lower |-> SetOf(LineOf(i.lo)), upper |-> SetOf(LineOf(i.hi))]

(* The addition is on 32-bit words, so the length of the unknown interval  *)
(* is zero.                                                                *)
SetInterval(i) ==
    IF (i.hi + 1 - i.lo) % AddressSpace >= NSets * LineWords
    THEN [lower |-> 0, upper |-> NSets - 1]
    ELSE [lower |-> SetOf(LineOf(i.lo)), upper |-> SetOf(LineOf(i.hi))]

IsPreciseUpdate(i) == LineOf(i.lo) = LineOf(i.hi)

(* The sets an update for i changes.                                       *)
UpdatedSets(i) ==
    IF IsPreciseUpdate(i) THEN {SetOf(LineOf(i.lo))}
    ELSE SetsBetween(SetInterval(i).lower, SetInterval(i).upper)

(* The tags between those of the ends of i, whatever the set.              *)
TagRange(i) == TagOf(LineOf(i.lo)) .. TagOf(LineOf(i.hi))

UpdateCache(x, i, assumption) ==
    [s \in Sets |->
        IF s \notin UpdatedSets(i) THEN x[s]
        ELSE IF IsPreciseUpdate(i)
        THEN Update(x[s], TagOf(LineOf(i.lo)), assumption)
        ELSE PotentialUpdate(x[s], TagRange(i))]

(* Mutant: only the first line of the interval is looked up.               *)
ClassifyFirstLine(x, i) ==
    LET line == LineOf(i.lo) IN Classify(x[SetOf(line)], TagOf(line))

(* The join of the classifications of all lines.                           *)
ClassifyCache(x, i) ==
    LET answers == {Classify(x[SetOf(line)], TagOf(line)) : line \in LinesIn(i)}
    IN IF i = UnknownAddress \/ Cardinality(answers) > 1 THEN "UNKNOWN"
       ELSE CHOOSE answer \in answers : TRUE

(* The sets that getPersistentScopes asks about an array: it intersects    *)
(* the answers from the first set of the interval up to the last.          *)
ConsultedSets(i) ==
    {SetInterval(i).lower} \cup (SetInterval(i).lower .. SetInterval(i).upper)

ArrayIsPersistent(i) == ConsultedSets(i) \cap gaveUp = {}

-----------------------------------------------------------------------------
(* Nothing is known of the cache, or it is assumed to be empty; a scope    *)
(* has just been entered.                                                  *)
Init ==
    /\ \/ /\ conc \in [Sets -> LruStates]
          /\ abs = [s \in Sets |-> UnknownCache]
       \/ /\ conc = [s \in Sets |-> [t \in Tags |-> Assoc]]
          /\ abs = [s \in Sets |-> EmptyCache]
    /\ gaveUp = {}

(* The program accesses a line of interval i.                              *)
Access(i, line) ==
    /\ conc' = [conc EXCEPT ![SetOf(line)] = Touch(@, TagOf(line))]
    /\ abs' = UpdateCache(abs, i, "UNKNOWN")
    /\ \E S \in SUBSET UpdatedSets(i) : gaveUp' = gaveUp \cup S

Precise(w) == [lo |-> w, hi |-> w]

Next ==
    \/ \E w \in Words : Access(Precise(w), LineOf(w))
    \/ \E i \in Intervals : \E line \in LinesIn(i) : Access(i, line)

Spec == Init /\ [][Next]_vars

-----------------------------------------------------------------------------
(* Every set is described by its abstract set, also after an access whose  *)
(* set was not known (AbstractCacheImpl::update, getCacheSetInterval).     *)
EverySetIsDescribed ==
    \A s \in Sets : \A t \in Tags :
        /\ conc[s][t] <= abs[s].must[t]
        /\ abs[s].may.age[t] <= conc[s][t]

(* A classification of an interval holds for each line of it, whichever of *)
(* them is accessed (AbstractCacheImpl::classify).                         *)
IntervalClassificationSound ==
    \A i \in Intervals : \A line \in LinesIn(i) :
        LET cached == Cached(conc[SetOf(line)], TagOf(line))
        IN /\ ClassifyCache(abs, i) = "HIT" => cached
           /\ ClassifyCache(abs, i) = "MISS" => ~ cached

(* An array is persistent only if no set that holds a line of it has given *)
(* up (AbstractCacheImpl::getPersistentScopes), unless its sets wrap       *)
(* around: then only the first set is asked.                               *)
PersistentInEverySet ==
    \A i \in Intervals :
        SetInterval(i).lower <= SetInterval(i).upper /\ ArrayIsPersistent(i)
            => SetsSpanned(i) \cap gaveUp = {}

(* "Could have performed precise update": the assertion of update, on any  *)
(* access that is not updated precisely.                                   *)
ImpreciseUpdateSpansSets ==
    [][\A i \in Intervals :
          ~ IsPreciseUpdate(i) /\ (\E line \in LinesIn(i) : Access(i, line)) =>
              \/ NSets = 1
              \/ SetInterval(i).lower # SetInterval(i).upper]_vars
=============================================================================
