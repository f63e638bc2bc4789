----------------------------- MODULE InterCore -----------------------------
(***************************************************************************)
(* From a task to the interference it suffers: UrGraph lists the paths of  *)
(* the task, and for each of them OurM makes the blocks, the conflict      *)
(* regions and the bound that CoRunner compares with what another core     *)
(* does.  TaskRun compares the paths with a run of the task.               *)
(***************************************************************************)
EXTENDS TaskRun, Triples, CoRunner

ASSUME AccessesAssumption == \A t \in Tasks : FitsCache(t)

vars == <<urVars, runVars, coVars>>

Init == URInit /\ RunInit /\ CoRunnerInit

(* The path as OurM's constructor keeps it.                                *)
Ceop(path) == [i \in DOMAIN path |-> Triples(task, ur_mi[path[i]])]

TakeCeop ==
    /\ Analysed /\ AtRest
    /\ \E path \in tmpCEOPs : TakePath(Ceop(path))
    /\ UNCHANGED <<urVars, runVars>>

Next ==
    \/ URNext /\ UNCHANGED <<runVars, coVars>>
    \/ Idle /\ RunNext /\ UNCHANGED coVars
    \/ TakeCeop
    \/ CoRunnerNext /\ UNCHANGED <<urVars, runVars>>

Spec == Init /\ [][Next]_vars

=============================================================================
