---------------------------- MODULE MemoryPorts ----------------------------
(***************************************************************************)
(* The instruction port and the data port of a memory topology as the      *)
(* pipeline sees them: one access waits, one is ongoing, and the last one  *)
(* that finished is kept until it is asked for.  What happens in between   *)
(* is CacheTopology's.                                                     *)
(***************************************************************************)
EXTENDS Naturals

CONSTANT MaxAccessId   \* how many ids are told apart

(* A port knows three accesses, the pipeline one.                          *)
ASSUME MaxAccessIdAssumption == MaxAccessId \in Nat /\ MaxAccessId >= 4

AccessIds == 1 .. MaxAccessId
NoId == 0

(* addr is the address of the instruction the access is for.               *)
NoAccess == [id |-> NoId, addr |-> 0]
PortAccesses == [id : AccessIds, addr : Nat] \cup {NoAccess}

Ports == [waiting : PortAccesses, ongoing : PortAccesses, finished : PortAccesses]

IdlePort == [waiting |-> NoAccess, ongoing |-> NoAccess, finished |-> NoAccess]

IsBusy(p) == p.waiting # NoAccess \/ p.ongoing # NoAccess

(* The code draws ids from a counter; any id that is not in use will do.   *)
NewId(p) == CHOOSE i \in AccessIds :
                i \notin {p.waiting.id, p.ongoing.id, p.finished.id}

(* A new fetch takes the place of one that waits; a new data access finds  *)
(* none that waits.                                                        *)
Accessed(p, a) ==
    [waiting |-> [id |-> NewId(p), addr |-> a],
     ongoing |-> p.ongoing, finished |-> p.finished]

IsFinished(p, id) == id # NoId /\ p.finished.id = id

Polled(p) ==
    [waiting |-> p.waiting, ongoing |-> p.ongoing, finished |-> NoAccess]

Started(p) ==
    IF p.ongoing # NoAccess THEN p
    ELSE [waiting |-> NoAccess, ongoing |-> p.waiting, finished |-> p.finished]

Answered(p) ==
    [waiting |-> p.waiting, ongoing |-> NoAccess, finished |-> p.ongoing]

CanAnswer(p) == Started(p).ongoing # NoAccess

(* A cycle of the port, in which the ongoing access is answered or not.    *)
CyclePort(p, answer) == IF answer THEN Answered(Started(p)) ELSE Started(p)
=============================================================================
