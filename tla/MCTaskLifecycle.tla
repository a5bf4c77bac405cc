--------------------------- MODULE MCTaskLifecycle ----------------------------
(***************************************************************************)
(* Two tasks that act, a containment order and a crash; two tasks of which *)
(* one acts, with another thread appending; one task and a crash.          *)
(***************************************************************************)
EXTENDS TaskLifecycle, TLC

CONSTANTS t1, t2, a1, a2

Crashing == [actionOf |-> (t1 :> a1) @@ (t2 :> a2), maxCrashes |-> 1, maxOther |-> 0, maxOrders |-> 1]
Crowded == [actionOf |-> (t1 :> a1) @@ (t2 :> NoAction), maxCrashes |-> 0, maxOther |-> 1, maxOrders |-> 1]
Alone == [Crashing EXCEPT !.actionOf = (t1 :> a1), !.maxOrders = 0]

MCLoads == {Crashing, Crowded}
AloneLoads == {Alone}
=============================================================================
