------------------------------ MODULE Triples ------------------------------
(***************************************************************************)
(* The blocks OurM makes of a task's accesses (insert_Triple, getPStriple),*)
(* from which ConflictRegions counts.                                      *)
(***************************************************************************)
EXTENDS TaskCode, ConflictRegions

Block(mi, count, age, cap, cl) ==
    [line |-> mi, count |-> count, age |-> age, cap |-> cap, cl |-> cl]
Cap(conflicts) == Max({L2assoc - conflicts + 1, 0})

(* getPStriple.  The counter of the loops further out is another variable  *)
(* than the bound that is read, so the counts are not multiplied by them.  *)
PSTriple(t, cm) ==
    LET loop(l) == t.loops[l]
        scopes == PersistsIn(t, cm)
        repeated == Those(scopes, {i \in DOMAIN scopes : loop(scopes[i]).bound > 1})
        ps(i) == loop(repeated[i]).ps[cm.mi]
    IN [i \in DOMAIN repeated |->
           Block(cm.mi, loop(repeated[i]).bound - 1, -1, Cap(ps(i).conflicts),
                 IF ps(i).level = 1 THEN "CL_PS" ELSE "CL2_PS")]

(* AccessInfo: nothing is known before the analysis has said anything.     *)
Class(t, cm) ==
    IF cm \in DOMAIN t.class THEN t.class[cm] ELSE [cl |-> "CL_BOT", age |-> 0]

(* insert_Triple.  Counts are unsigned where they are compared, so the     *)
(* rest may be less than nothing; in a region's first two blocks           *)
(* persistence is not looked at.                                           *)
InsertTriple(t, ur, cm) ==
    LET a == Class(t, cm)
        x == Count(t, cm)
        list == PSTriple(t, cm)
        rest == x - FoldLeft(LAMBDA n, b : n + b.count, 0, list)
        isps == PersistsIn(t, cm) # <<>> /\ Len(ur) > 1
        plain(count) == Block(cm.mi, count, a.age, -1, a.cl)
    IN ur \o
       CASE a.cl = "CL_HIT" -> <<plain(x)>>
         [] a.cl # "CL_HIT" /\ isps /\ rest # 0 -> <<plain(rest)>> \o list
         [] a.cl # "CL_HIT" /\ isps /\ rest = 0 -> <<plain(x)>>
         [] a.cl = "CL2_MISS" /\ ~isps -> <<plain(x)>>
         [] a.cl = "CL2_HIT" /\ ~isps /\ x > 1 ->
                <<Block(cm.mi, x, a.age, Cap(a.age + 1), "CL2_PS")>>
         [] a.cl = "CL2_HIT" /\ ~isps /\ x = 1 -> <<plain(1)>>
         [] a.cl = "CL_BOT" /\ ~isps -> <<Block(cm.mi, x, a.age, -1, "CL_HIT")>>

(* What the cache analysis says of accesses and of loops: an instruction   *)
(* that hits in the second level is younger there than it has ways, and a  *)
(* line persists only with as many others as fit.                          *)
FitsCache(t) ==
    /\ Instructions(t) \subseteq DOMAIN SetOf
    /\ \A cm \in DOMAIN t.class :
           LET a == t.class[cm]
           IN /\ a.cl \in {"CL_HIT", "CL2_HIT", "CL2_MISS", "CL_BOT"} /\ a.age \in Nat
              /\ a.cl = "CL2_HIT" => a.age < L2assoc
    /\ \A l \in DOMAIN t.loops : \A mi \in DOMAIN t.loops[l].ps :
           LET ps == t.loops[l].ps[mi]
           IN /\ ps.level \in {1, 2} /\ ps.conflicts \in Nat
              /\ ps.level = 2 => ps.conflicts <= L2assoc

(* One region of a path, and the path, as OurM keeps them.                 *)
Triples(t, cms) == FoldLeft(LAMBDA ur, cm : InsertTriple(t, ur, cm), <<>>, cms)
=============================================================================
