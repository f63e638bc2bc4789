------------------------------ MODULE TaskRun ------------------------------
(***************************************************************************)
(* A task runs while UrGraph has listed its regions and paths: it goes     *)
(* from instruction to instruction, round each loop as often as its bound  *)
(* allows (so many back edges per entry, as LoopBoundInfo says), and the   *)
(* regions it goes through are compared with those that were listed.       *)
(***************************************************************************)
EXTENDS UnorderedRegions

VARIABLES at,        \* the instruction to be executed, None if there is none
          trips,     \* trips[<<loop, sites>>]: times through the header
          passed     \* regions the task has been in

runVars == <<at, trips, passed>>

None == [mi |-> 0, sites |-> <<>>]
AtRest == passed = <<>>

RunInit == at = None /\ trips = <<>> /\ passed = <<>>

(* Loops whose header begins at cm; the trips there if cm comes after prev.*)
Heads(cm) == {l \in DOMAIN task.loops : First(task, task.loops[l].header) = cm.mi}
Again(l, prev, cm) ==
    prev.sites = cm.sites /\ BlockOf(task, prev.mi) \in task.loops[l].body
Trips(l, prev, cm) == IF Again(l, prev, cm) THEN trips[<<l, cm.sites>>] + 1 ELSE 1

GoTo(cm, newTrips) ==
    /\ at' = cm
    /\ trips' = newTrips @@ trips
    /\ passed' = IF passed # <<>> /\ Last(passed) = mi_ur[cm] THEN passed
                 ELSE Append(passed, mi_ur[cm])
    /\ UNCHANGED urVars

(* Instructions reachable from cm, itself only if it is on a cycle.        *)
Reachable(cm) ==
    LET after(S) == S \cup UNION {Range(Succ(task, m)) : m \in S}
        reach[n \in 0 .. Cardinality(DOMAIN dfn)] ==
            IF n = 0 THEN Range(Succ(task, cm)) ELSE after(reach[n - 1])
    IN reach[Cardinality(DOMAIN dfn)]

(* Every loop has a bound, as UrGraph asserts.                             *)
Bounded ==
    \A cm \in DOMAIN dfn : cm \in Reachable(cm) =>
        \E mi \in Range(Append(cm.sites, cm.mi)) : LoopsAround(task, mi) # {}

Begin == Analysed /\ AtRest /\ Bounded /\ GoTo(Start(task), <<>>)

Step ==
    \E cm \in Range(Succ(task, at)) :
        /\ \A l \in Heads(cm) : Trips(l, at, cm) <= task.loops[l].bound + 1
        /\ GoTo(cm, [k \in {<<l, cm.sites>> : l \in Heads(cm)} |-> Trips(k[1], at, cm)])

RunNext == Begin \/ (at # None /\ Step)

-----------------------------------------------------------------------------
(* Instructions that reach each other.                                     *)
Loop(cm) == {cm} \cup {m \in Reachable(cm) : cm \in Reachable(m)}
Loops == {Loop(cm) : cm \in DOMAIN dfn}
Regions == {{m \in DOMAIN mi_ur : mi_ur[m] = u} : u \in DOMAIN ur_mi}

(* No loop of several instructions is entered by more than one edge.       *)
Preheaded ==
    LET entries(loop) == {e \in (DOMAIN dfn \ loop) \X loop : e[2] \in Range(Succ(task, e[1]))}
    IN \A loop \in Loops : Cardinality(loop) = 1 \/ Cardinality(entries(loop)) <= 1

RegionsAreLoops ==
    IF Preheaded THEN Regions = Loops
    ELSE \A region \in Regions : \E loop \in Loops : region \subseteq loop

(* The regions a run goes through are those of a path that ceopDfs_it      *)
(* listed, or the first of them.                                           *)
RunsAreListed == AtRest \/ \E path \in tmpCEOPs : IsPrefix(passed, path)

(* Hazard: an instruction that two predecessors find before it is visited  *)
(* is visited twice, also when its region is finished already.  Still the  *)
(* regions are the loops of the task if each is entered by one edge; then  *)
(* no path comes to a region again, so that listing them ends.  Once they  *)
(* are listed, each run goes through the regions of one of them.           *)
CeopsCoverRuns ==
    /\ Collected /\ tmpPath = <<>> /\ tmpCEOPs = {} => RegionsAreLoops
    /\ IsInjective(tmpPath) \/ ~Preheaded
    /\ RunsAreListed
=============================================================================
