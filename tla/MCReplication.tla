---------------------------- MODULE MCReplication -----------------------------
(***************************************************************************)
(* Three networks of an origin and two peers: the peers receive and any    *)
(* two faults happen; one of them pushes back and the other is down; the   *)
(* origin hosts a Being.                                                   *)
(***************************************************************************)
EXTENDS Replication, TLC

CONSTANTS o, p, q

Quorum == [k |-> 2, pushing |-> {o}, unreachable |-> {}, beings |-> FALSE, maxFaults |-> 2]
Mutual(n, down) ==
    [k |-> 1, pushing |-> {o, n}, unreachable |-> {down}, beings |-> FALSE, maxFaults |-> 0]
Hosting == [Quorum EXCEPT !.k = 1, !.beings = TRUE, !.maxFaults = 0]

MCNets == {Quorum, Mutual(p, q), Mutual(q, p), Hosting}

(* MCNets does not tell p and q apart.                                     *)
Peers == Permutations({p, q})
=============================================================================
