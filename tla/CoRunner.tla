------------------------------ MODULE CoRunner ------------------------------
(***************************************************************************)
(* A task on its way through the conflict regions of a path, while another *)
(* core passes through the regions of its own path and loads lines into    *)
(* the shared cache; what happens is compared with what ConflictRegions    *)
(* counts.                                                                 *)
(***************************************************************************)
EXTENDS ConflictRegions

CONSTANT CoRunnerPaths  \* paths of the task on the other core

LinesReaching(ur) == {b.line : b \in {b \in Range(ur) : ReachesL2(b)}}

(* The blocks made of an instruction count its executions together, even   *)
(* if one of them counts less than none (InsertTriple).  Only where blocks *)
(* that hit in the first level were split off could less than one be left. *)
ASSUME CoRunnerPathsAssumption ==
    \A path \in CoRunnerPaths :
        /\ path \in Seq(Seq(Blocks)) /\ path # <<>>
        /\ \A ur \in Range(path) : \A line \in LinesReaching(ur) : LoadsOf(ur, line) >= 1

VARIABLES crs,      \* conflict regions of the path the task takes
          bound,    \* what DpMaxOutNumber returns for the two paths
          other,    \* the path the other core takes
          region,   \* the conflict region the task is in
          from,     \* where the other core was when the task came here
          upto,     \* where it is now
          out,      \* lines out before this conflict region
          counted,  \* evictions counted before this conflict region
          left,     \* left[i]: executions left of the i-th persistent block
          pending,  \* pending[line]: loads left in the other core's region
          seen,     \* seen[line]: lines loaded since line was used
          evicted   \* evicted[line]: misses of a persistent line here

matched == <<crs, bound, other>>
coVars == <<matched, region, from, upto, out, counted, left, pending, seen, evicted>>

Current == crs[region]
Counts(blocks) == [i \in DOMAIN blocks |-> blocks[i].count]
LoadsIn(ur) == [line \in LinesReaching(ur) |-> LoadsOf(ur, line)]
Unseen(cr) == [line \in LinesUsed(cr.persistent) |-> {}]
NoMisses(cr) == [line \in LinesUsed(cr.persistent) |-> 0]

Idle == crs = <<>>
Resting == other = <<>>

CoRunnerInit ==
    /\ crs = <<>> /\ bound = 0 /\ other = <<>>
    /\ region = 0 /\ from = 0 /\ upto = 0 /\ out = {} /\ counted = 0
    /\ left = <<>> /\ pending = <<>> /\ seen = <<>> /\ evicted = <<>>

(* OurM::run takes a path of the task, unless it has no conflict regions,  *)
(* and then a path of the other core's task.  The two cores start, the     *)
(* other one anywhere on its path.                                         *)
TakePath(ceop) ==
    LET regions == CRs(ceop) IN
    /\ Idle /\ regions # <<>>
    /\ crs' = regions
    /\ UNCHANGED <<bound, other, region, from, upto, out, counted, left, pending, seen, evicted>>

CoRun(o) ==
    /\ ~Idle /\ Resting
    /\ bound' = DpMaxOutNumber(crs, o)
    /\ other' = o
    /\ region' = 1 /\ from' \in DOMAIN o /\ upto' = from'
    /\ left' = Counts(crs[1].persistent)
    /\ pending' = LoadsIn(o[upto'])
    /\ seen' = Unseen(crs[1]) /\ evicted' = NoMisses(crs[1])
    /\ UNCHANGED <<crs, out, counted>>

(* The other core loads a line that its first level does not hold.         *)
Load(loaded) ==
    /\ pending[loaded] > 0
    /\ pending' = [pending EXCEPT ![loaded] = @ - 1]
    /\ seen' = [line \in DOMAIN seen |->
                   IF SetOf[line] = SetOf[loaded] THEN seen[line] \cup {loaded}
                   ELSE seen[line]]
    /\ UNCHANGED <<matched, region, from, upto, out, counted, left, evicted>>

(* The task executes a block that is persistent here: a miss if the other  *)
(* core has loaded as many lines as the set had room for.                  *)
Execute(i) ==
    LET b == Current.persistent[i]
        misses == Cardinality(seen[b.line]) >= b.cap
    IN
    /\ left[i] > 0
    /\ left' = [left EXCEPT ![i] = @ - 1]
    /\ seen' = [seen EXCEPT ![b.line] = {}]
    /\ evicted' = IF misses THEN [evicted EXCEPT ![b.line] = @ + 1] ELSE evicted
    /\ UNCHANGED <<matched, region, from, upto, out, counted, pending>>

OtherPassesOn ==
    /\ ~Resting /\ upto < Len(other)
    /\ upto' = upto + 1
    /\ pending' = LoadsIn(other[upto'])
    /\ UNCHANGED <<matched, region, from, out, counted, left, seen, evicted>>

(* The other core may still be in the region in which it has been.         *)
TaskPassesOn ==
    LET urs == Passed(other, from, upto)
        next == crs[region + 1]
    IN
    /\ ~Resting /\ region < Len(crs)
    /\ region' = region + 1
    /\ from' = upto
    /\ counted' = counted + RegionOuts(Current, out, urs)
    /\ out' = OutAfter(Current, out, urs)
    /\ left' = Counts(next.persistent)
    /\ seen' = Unseen(next) /\ evicted' = NoMisses(next)
    /\ UNCHANGED <<matched, upto, pending>>

CoRunnerNext ==
    \/ \E o \in CoRunnerPaths : CoRun(o)
    \/ \E line \in DOMAIN pending : Load(line)
    \/ \E i \in DOMAIN left : Execute(i)
    \/ OtherPassesOn
    \/ TaskPassesOn

-----------------------------------------------------------------------------
Here == Passed(other, from, upto)

(* Hazard: the dynamic program leaves out starts that are as good as the   *)
(* one before, and forgets in which order lines went out; still no way to  *)
(* match the two paths has more evictions than DpMaxOutNumber returns.     *)
MatchingsWithinBound ==
    ~Resting => counted + RegionOuts(Current, out, Here) <= bound

(* Hazard: evictions in a loop are counted from sorted load counts, the    *)
(* regions added up, not from an order of loads, and what spreads over     *)
(* regions from the number of lines in them.  Whatever the order, a        *)
(* persistent line misses as often as counted at most, and once more for   *)
(* each passage of the other core to a next region after the first one.    *)
PassedAgain == IF upto > from + 1 THEN upto - from - 1 ELSE 0

EvictionsWithinOuts ==
    ~Resting => \A line \in DOMAIN evicted :
                    evicted[line] <= LineOuts(Current, line, Here) + PassedAgain
=============================================================================
