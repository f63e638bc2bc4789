-------------------------- MODULE UnorderedRegions --------------------------
(***************************************************************************)
(* UrGraph of one task: the instructions that lie on a common loop form an *)
(* unordered region, found by an iterative depth-first search (tarjan_it); *)
(* collectUrInfo makes a graph of the regions, and ceopDfs_it lists the    *)
(* paths through it from the region in which the task starts.              *)
(***************************************************************************)
EXTENDS TaskCode

CONSTANTS Tasks,   \* tasks that may be analysed
          MaxPath  \* bound: most regions on a path

ASSUME TasksAssumption == \A t \in Tasks : IsTask(t)

VARIABLES task,
          dfn, low,   \* per instruction: number when last visited, lowest number reached
          dfncnt,
          ur_stack,   \* visited instructions without a region, the last one first
          in_stack,
          ur_id,      \* number of regions
          mi_ur,      \* per instruction: its region
          stack,      \* visits to come and visits to finish, the next one first
          call_stack, \* which visit to tell when one is finished
          ur_mi,      \* per region: its instructions
          ur_graph,   \* per region: the regions after it, one per edge
          paths,      \* regions to enter and to leave, the next one first
          tmpPath,    \* regions on the path so far
          tmpCEOPs    \* paths found

tarjan == <<dfn, low, dfncnt, ur_stack, in_stack, ur_id, mi_ur, stack, call_stack>>
graph == <<ur_mi, ur_graph>>
search == <<paths, tmpPath, tmpCEOPs>>
urVars == <<task, tarjan, graph, search>>

ToDo(entry) == [entry |-> entry, expanded |-> FALSE]
ToFinish(entry) == [entry |-> entry, expanded |-> TRUE]

URInit ==
    /\ task \in Tasks
    /\ dfn = <<>> /\ low = <<>> /\ dfncnt = 0
    /\ ur_stack = <<>> /\ in_stack = {} /\ ur_id = 0 /\ mi_ur = <<>>
    /\ stack = <<ToDo(Start(task))>> /\ call_stack = <<Start(task)>>
    /\ ur_mi = <<>> /\ ur_graph = <<>>
    /\ paths = <<>> /\ tmpPath = <<>> /\ tmpCEOPs = {}

-----------------------------------------------------------------------------
(* A map after its entries for the keys in S are set to v.                 *)
With(f, S, v) == [m \in DOMAIN f \cup S |-> IF m \in S THEN v ELSE f[m]]

(* The elements of a list that are not in a set.                           *)
Unvisited(cms, visited) ==
    LET found[i \in 0 .. Len(cms)] ==
            IF i = 0 THEN <<>>
            ELSE IF cms[i] \in visited THEN found[i - 1]
            ELSE Append(found[i - 1], cms[i])
    IN found[Len(cms)]

(* tarjan_it.  An instruction found by two predecessors before it is       *)
(* visited is visited twice.                                               *)
Visit ==
    LET cm == Head(stack).entry
        found == Unvisited(Succ(task, cm), DOMAIN dfn \cup {cm})
    IN
    /\ stack # <<>> /\ ~Head(stack).expanded
    /\ dfncnt' = dfncnt + 1
    /\ dfn' = With(dfn, {cm}, dfncnt')
    /\ low' = With(low, {cm}, dfncnt')
    /\ ur_stack' = <<cm>> \o ur_stack
    /\ in_stack' = in_stack \cup {cm}
    /\ stack' = [i \in DOMAIN found |-> ToDo(found[i])] \o <<ToFinish(cm)>> \o Tail(stack)
    /\ call_stack' = [i \in DOMAIN found |-> cm] \o call_stack
    /\ UNCHANGED <<task, ur_id, mi_ur, graph, search>>

(* Mutant: regions that are finished are looked at as well.                *)
LowestOfAll(cm) ==
    Min({low[cm]} \cup {dfn[s] : s \in Range(Succ(task, cm))})

Lowest(cm) ==
    Min({low[cm]} \cup {dfn[s] : s \in Range(Succ(task, cm)) \cap in_stack})

(* The last visit of cm on the stack is where its region begins.  There is *)
(* one entry of call_stack per visit.                                      *)
Finish ==
    LET cm == Head(stack).entry
        at == Min({i \in DOMAIN ur_stack : ur_stack[i] = cm})
        region == Range(SubSeq(ur_stack, 1, at))
        lowest == Lowest(cm)
    IN
    /\ stack # <<>> /\ Head(stack).expanded
    /\ stack' = Tail(stack)
    /\ IF dfn[cm] = lowest
       THEN /\ ur_id' = ur_id + 1
            /\ mi_ur' = With(mi_ur, region, ur_id')
            /\ ur_stack' = SubSeq(ur_stack, at + 1, Len(ur_stack))
            /\ in_stack' = in_stack \ region
       ELSE UNCHANGED <<ur_id, mi_ur, ur_stack, in_stack>>
    /\ call_stack' = Tail(call_stack)
    /\ low' = [[low EXCEPT ![cm] = lowest] EXCEPT ![Head(call_stack)] = Min({@, lowest})]
    /\ UNCHANGED <<task, dfn, dfncnt, graph, search>>

(* collectUrInfo; then collectCEOPInfo starts the search for paths.        *)
CollectUrInfo ==
    LET cms(u) == InOrder({m \in DOMAIN mi_ur : mi_ur[m] = u})
        after(u) == FlattenSeq([i \in DOMAIN cms(u) |->
                        LET succ == Succ(task, cms(u)[i])
                        IN [s \in DOMAIN succ |-> mi_ur[succ[s]]]])
        regions == {mi_ur[m] : m \in DOMAIN mi_ur}
    IN
    /\ stack = <<>> /\ ur_mi = <<>>
    /\ ur_mi' = [u \in regions |-> cms(u)]
    /\ ur_graph' = [u \in regions |-> Unvisited(after(u), {u})]
    /\ paths' = <<ToDo(mi_ur[Start(task)])>>
    /\ UNCHANGED <<task, tarjan, tmpPath, tmpCEOPs>>

-----------------------------------------------------------------------------
(* ceopDfs_it.                                                             *)
EnterRegion ==
    LET u == Head(paths).entry
        path == Append(tmpPath, u)
        vs == ur_graph[u]
    IN
    /\ paths # <<>> /\ ~Head(paths).expanded
    /\ Len(tmpPath) < MaxPath
    /\ IF vs = <<>>
       THEN /\ tmpCEOPs' = tmpCEOPs \cup {path}
            /\ paths' = Tail(paths)
            /\ UNCHANGED tmpPath
       ELSE /\ tmpPath' = path
            /\ paths' = [i \in DOMAIN vs |-> ToDo(vs[i])] \o <<ToFinish(u)>> \o Tail(paths)
            /\ UNCHANGED tmpCEOPs
    /\ UNCHANGED <<task, tarjan, graph>>

LeaveRegion ==
    /\ paths # <<>> /\ Head(paths).expanded
    /\ paths' = Tail(paths)
    /\ tmpPath' = Front(tmpPath)
    /\ UNCHANGED <<task, tarjan, graph, tmpCEOPs>>

URNext == Visit \/ Finish \/ CollectUrInfo \/ EnterRegion \/ LeaveRegion

URSpec == URInit /\ [][URNext]_urVars

Collected == ur_mi # <<>>
Analysed == Collected /\ paths = <<>>
=============================================================================
