------------------------------- MODULE MCShared -------------------------------
(***************************************************************************)
(* Small instances of SharedNode: two plans on one node.                   *)
(***************************************************************************)
EXTENDS SharedNode

Base == [exclusive |-> FALSE, prepare |-> FALSE, cordon |-> FALSE, drain |-> FALSE,
         delay |-> {}, jobActiveDeadlineSecs |-> {0}]

\* Two exclusive plans, of which one waits after its job; two plans that run side by side
\* and cordon; two of which only one does.
Draining == [Base EXCEPT !.drain = TRUE, !.cordon = TRUE, !.prepare = TRUE,
                            !.jobActiveDeadlineSecs = {}]
Delayed == [Base EXCEPT !.cordon = TRUE, !.delay = {2}]

Pair(a, b) == [p \in Plan |-> IF p = "p" THEN a ELSE b]
Exclusive(s) == [s EXCEPT !.exclusive = TRUE]

MCShapes == {Pair(Exclusive(Draining), Exclusive(Delayed)), Pair(Draining, Delayed),
             Pair(Base, Delayed)}

ExclusiveShapes == {Pair(Exclusive(Draining), Exclusive(Delayed))}

NotSet == {}
===============================================================================
