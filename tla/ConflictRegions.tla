-------------------------- MODULE ConflictRegions --------------------------
(***************************************************************************)
(* How many second-level cache hits of a task a co-running task can turn   *)
(* into misses: the conflict regions of OurM::CRs and the dynamic program  *)
(* that matches them with the regions the other core passes through.       *)
(*                                                                         *)
(* A path (Ceop) is a sequence of unordered regions (UR), a region is a    *)
(* sequence of blocks [line, count, age, cap, cl]: an access to a line,    *)
(* executed at most count times.  A block that stays cached in a loop      *)
(* (CL2_PS) misses again after cap other lines; one that hits (CL2_HIT)    *)
(* has an age.  An address stands for its line: no two instructions of a   *)
(* path share one.                                                         *)
(***************************************************************************)
EXTENDS Integers, Lists

CONSTANTS L2assoc,  \* associativity of the shared cache
          SetOf     \* SetOf[line]: getTagAndIndex(addr).second

ASSUME AssociativityAssumption == L2assoc \in Nat \ {0}

(* The classes of an access, to the first level and to the second.         *)
Classes == {"CL_BOT", "CL_HIT", "CL_MISS", "CL_UNKNOWN", "CL_PS",
            "CL2_HIT", "CL2_MISS", "CL2_UNKNOWN", "CL2_PS"}

(* A block that stays cached has room for other lines: more than cap of    *)
(* them would be a division by zero in OneBlock.                           *)
Blocks ==
    {b \in [line : DOMAIN SetOf, count : Int, age : Int, cap : Int, cl : Classes] :
        b.cl = "CL2_PS" => b.cap > 0 /\ b.count >= 0}

ReachesL2(b) == b.cl \notin {"CL_HIT", "CL_PS"}

-----------------------------------------------------------------------------
(* The conflict regions of a path.                                         *)

LinesUsed(ur) == {b.line : b \in Range(ur)}
UsesBefore(ceop, i, b) == {j \in 1 .. i - 1 : b.line \in LinesUsed(ceop[j])}
IsLoop(ur) == Len(ur) > 1

(* The hits a co-runner can reach between two uses, or inside of a loop.   *)
Exposed(ceop, i) ==
    {b \in Range(ceop[i]) :
        b.cl = "CL2_HIT" /\ (UsesBefore(ceop, i, b) # {} \/ IsLoop(ceop[i]))}

LeftUR(ceop, i, b) ==
    IF UsesBefore(ceop, i, b) = {} THEN i
    ELSE LET last == Max(UsesBefore(ceop, i, b))
         IN IF IsLoop(ceop[last]) THEN last ELSE last + 1

RightUR(ceop, i, b) == IF IsLoop(ceop[i]) THEN i ELSE i - 1

Placed(ceop) == UNION {{<<i, b>> : b \in Exposed(ceop, i)} : i \in DOMAIN ceop}
LeftNodes(ceop, i) == {p[2] : p \in {p \in Placed(ceop) : LeftUR(ceop, p[1], p[2]) = i}}
RightNodes(ceop, i) == {p[2] : p \in {p \in Placed(ceop) : RightUR(ceop, p[1], p[2]) = i}}
Persistent(ceop, i) == Those(ceop[i], {j \in DOMAIN ceop[i] : ceop[i][j].cl = "CL2_PS"})

(* Blocks that end in a region leave before the region is recorded.        *)
NotPersistent(ceop) ==
    LET open[i \in 0 .. Len(ceop)] ==
            IF i = 0 THEN {}
            ELSE (open[i - 1] \ RightNodes(ceop, i)) \cup LeftNodes(ceop, i)
    IN open

IsConflictRegion(ceop, i) ==
    /\ LeftNodes(ceop, i) \cup RightNodes(ceop, i) # {} \/ Persistent(ceop, i) # <<>>
    /\ NotPersistent(ceop)[i] # {} \/ Persistent(ceop, i) # <<>>

CRs(ceop) ==
    LET cr(i) == [notPersistent |-> NotPersistent(ceop)[i],
                  persistent |-> Persistent(ceop, i)]
    IN Those([i \in DOMAIN ceop |-> cr(i)], {i \in DOMAIN ceop : IsConflictRegion(ceop, i)})

-----------------------------------------------------------------------------
(* CR::OutNumber_NotPersistBlock: lines not out yet that the other core's  *)
(* regions push out.                                                       *)

LinesLoaded(urs, set) ==
    {b.line : b \in {b \in UNION {Range(ur) : ur \in Range(urs)} :
                        ReachesL2(b) /\ SetOf[b.line] = set}}

PushedOut(cr, out, urs) ==
    {b.line : b \in {b \in cr.notPersistent :
        /\ b.line \notin out
        /\ b.age + Cardinality(LinesLoaded(urs, SetOf[b.line]) \ {b.line}) > L2assoc}}

(* CR::OutNumber_PersistentBlock_add_with_continue: how often the other    *)
(* core's regions push out the blocks that are persistent in the loop.     *)
AtLeast(f, v) == {x \in DOMAIN f : f[x] >= v}

(* The positive values of a function, the largest first.                   *)
Decreasing(f) ==
    [r \in 1 .. Cardinality(AtLeast(f, 1)) |->
        Max({v \in Range(f) : Cardinality(AtLeast(f, v)) >= r})]

(* Blocks that hit in the first level are removed before (cleanUR).        *)
LoadsOf(ur, line) ==
    LET loads[j \in 0 .. Len(ur)] ==
            IF j = 0 THEN 0
            ELSE loads[j - 1] + (IF ReachesL2(ur[j]) /\ ur[j].line = line
                                 THEN ur[j].count ELSE 0)
    IN loads[Len(ur)]

(* Loads per line of one region, the most loaded line first.               *)
Loads(ur, set) ==
    Decreasing([line \in LinesLoaded(<<ur>>, set) |-> LoadsOf(ur, line)])

(* Regions are added up rank by rank, whatever the lines (getpriorityQ_add)*)
AddedUp(p, q) ==
    LET at(s, r) == IF r \in DOMAIN s THEN s[r] ELSE 0
    IN [r \in 1 .. Max({Len(p), Len(q)}) |-> at(p, r) + at(q, r)]

LoadQueue(urs, set) ==
    LET queue[k \in 0 .. Len(urs)] ==
            IF k = 0 THEN <<>> ELSE AddedUp(queue[k - 1], Loads(urs[k], set))
    IN queue[Len(urs)]
LinesPerRegion(urs, set) ==
    LET lines[k \in 0 .. Len(urs)] ==
            IF k = 0 THEN 0 ELSE lines[k - 1] + Len(Loads(urs[k], set))
    IN lines[Len(urs)]

(* One eviction takes one load of each of the cap most loaded lines.       *)
Evicted(queue, cap) ==
    Decreasing([r \in DOMAIN queue |-> IF r <= cap THEN queue[r] - 1 ELSE queue[r]])

Evictions(queue, cap, count) ==
    LET after[n \in 0 .. count] ==
            IF n = 0 THEN [number |-> 0, queue |-> queue]
            ELSE LET before == after[n - 1]
                 IN IF Len(before.queue) < cap THEN before
                    ELSE [number |-> n, queue |-> Evicted(before.queue, cap)]
    IN after[count]

(* What is left of the loads, taken region by region, adds the evictions   *)
(* that spread over regions.  Once they do not all fit, they are kept for  *)
(* the next block of the line: the subtraction comes after the reset.      *)
Smaller(count, fits) == IF count < fits THEN count ELSE fits

(* Mutant: evictions spread over regions are forgotten.                    *)
OneBlockWithinRegions(acc, b) ==
    LET within == Evictions(acc.queue, b.cap, b.count)
    IN [acc EXCEPT !.queue = within.queue, !.outs = @ + within.number]

OneBlock(acc, b) ==
    LET within == Evictions(acc.queue, b.cap, b.count)
        rest == b.count - within.number
        spread == acc.spread \div b.cap
    IN [queue |-> within.queue,
        spread |-> IF rest >= spread THEN 0 ELSE acc.spread,
        outs |-> acc.outs + within.number + Smaller(rest, spread)]

(* The persistent blocks of one line, in the order of BlockInfo::operator<:*)
(* the smallest capacity first, then the smallest age.                     *)
NotLess(b, c) ==
    \/ c.cap < b.cap
    \/ c.cap = b.cap /\ c.age < b.age
    \/ c.cap = b.cap /\ c.age = b.age /\ c.count <= b.count

Largest(blocks, S) == CHOOSE i \in S : \A j \in S : NotLess(blocks[i], blocks[j])

Outs(blocks, urs, set) ==
    LET start == [queue |-> LoadQueue(urs, set),
                  spread |-> LinesPerRegion(urs, set), outs |-> 0]
    IN MapThenFoldSet(LAMBDA b, acc : OneBlock(acc, b), start, LAMBDA i : blocks[i],
                      LAMBDA S : Largest(blocks, S), DOMAIN blocks).outs

LineOuts(cr, line, urs) ==
    Outs(Those(cr.persistent, {i \in DOMAIN cr.persistent : cr.persistent[i].line = line}),
         urs, SetOf[line])

PersistentOuts(cr, urs) ==
    LET lines == LinesUsed(cr.persistent)
    IN MapThenSumSet(LAMBDA line : LineOuts(cr, line, urs), lines)

RegionOuts(cr, out, urs) ==
    Cardinality(PushedOut(cr, out, urs)) + PersistentOuts(cr, urs)

(* Lines of a region that are out, before the next region.                 *)
OutAfter(cr, out, urs) ==
    (out \cap {b.line : b \in cr.notPersistent}) \cup PushedOut(cr, out, urs)

-----------------------------------------------------------------------------
(* CRs::DpMaxOutNumber for one co-runner.  dp[out][k]: the most evictions  *)
(* before this conflict region with the lines in out pushed out, the other *)
(* core being in its region k.                                             *)

(* Mutant: of starts that are as good, the last one is kept.               *)
WorthStartingLast(dp, out, k) ==
    k = Len(dp[out]) \/ dp[out][k] # dp[out][k + 1]

WorthStarting(dp, out, k) == k = 1 \/ dp[out][k] # dp[out][k - 1]

Matches(dp, other) ==
    {m \in [out : DOMAIN dp, from : DOMAIN other, upto : DOMAIN other] :
        m.from <= m.upto /\ WorthStarting(dp, m.out, m.from)}

Passed(other, from, upto) == SubSeq(other, from, upto)

DpStep(dp, cr, other) ==
    LET urs(m) == Passed(other, m.from, m.upto)
        next(m) == OutAfter(cr, m.out, urs(m))
        total(m) == dp[m.out][m.from] + RegionOuts(cr, m.out, urs(m))
        steps == {[out |-> next(m), upto |-> m.upto, total |-> total(m)] :
                     m \in Matches(dp, other)}
    IN [out \in {s.out : s \in steps} |-> [k \in DOMAIN other |->
           Max({0} \cup {s.total : s \in {s \in steps : s.out = out /\ s.upto = k}})]]

DpMaxOutNumber(crs, other) ==
    LET start == [out \in {{}} |-> [k \in DOMAIN other |-> 0]]
        dp[r \in 0 .. Len(crs)] ==
            IF r = 0 THEN start ELSE DpStep(dp[r - 1], crs[r], other)
    IN Max(UNION {Range(dp[Len(crs)][out]) : out \in DOMAIN dp[Len(crs)]})
=============================================================================
