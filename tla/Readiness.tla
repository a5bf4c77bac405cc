------------------------------- MODULE Readiness ------------------------------
(***************************************************************************)
(* node/readiness.py over core/anchoring.py: what GET /ready says of the   *)
(* node's anchoring.  anchor_status takes no lock of the scheduler: it     *)
(* copies the chain, then measures depth and progress of each backend      *)
(* while rounds go on crediting them, and evaluate_anchoring judges facts  *)
(* of different moments.                                                   *)
(*                                                                         *)
(* The lag policy is off, as it is by default; the other subsystems of the *)
(* report are facts of their own and are not part of this module.          *)
(***************************************************************************)
EXTENDS Anchoring

CONSTANT MaxDepth        \* unanchored_depth_max; 0 switches the policy off

ASSUME ReadinessAssumption == MaxDepth \in Nat

VARIABLE probe           \* the request being answered: its copy of the chain

readinessVars == <<vars, required, probe>>

READY == "ready"
DEGRADED == "degraded"
NOT_READY == "not_ready"
NOT_CONFIGURED == "not_configured"

Probe == [count : Nat, depth : [required -> Nat]]

(* _depth_by: substantive records of the copy past what a backend holds.   *)
DepthBy(b, n) == Cardinality({i \in (Have(b) + 1)..n : chain[i] \notin BOOKKEEPING})

(* anchor_status, first half: the copy and the depths counted over it.     *)
AnchorStatus ==
    /\ probe = {}
    /\ probe' = {[count |-> Len(chain),
                  depth |-> [b \in required |-> DepthBy(b, Len(chain))]]}
    /\ UNCHANGED vars

(* anchor_status, second half: read while the report is put together.      *)
Never(b) == covered[b] = 0
InCustody(b) == custody[b] > covered[b]

(* _backend_anchor_state: a breach of policy first, then what was never    *)
(* accepted, then what is held and not settled, then what is late.         *)
BackendAnchorState(p, b) ==
    IF \/ MaxDepth > 0 /\ p.depth[b] > MaxDepth
       \/ Never(b) /\ ~InCustody(b) /\ p.depth[b] > 0 THEN NOT_READY
    ELSE IF Never(b) \/ InCustody(b) \/ p.depth[b] > 0 THEN DEGRADED
    ELSE READY

(* Mutant: never and in custody are told of the node, not of the backend.  *)
EvaluateNodeWide(p) ==
    LET breach == \E b \in required : MaxDepth > 0 /\ p.depth[b] > MaxDepth
        never == \E b \in required : Never(b)
        held == \E b \in required : InCustody(b)
        waiting == \E b \in required : p.depth[b] > 0
    IN IF required = {} THEN NOT_CONFIGURED
       ELSE IF breach \/ (never /\ ~held /\ waiting) THEN NOT_READY
       ELSE IF never \/ held \/ waiting THEN DEGRADED
       ELSE READY

(* evaluate_anchoring: the worst of the required backends.                 *)
EvaluateAnchoring(p) ==
    LET states == {BackendAnchorState(p, b) : b \in required}
    IN IF required = {} THEN NOT_CONFIGURED
       ELSE IF NOT_READY \in states THEN NOT_READY
       ELSE IF DEGRADED \in states THEN DEGRADED
       ELSE READY

(* The answer leaves.                                                      *)
Answered == probe # {} /\ probe' = {} /\ UNCHANGED vars

ReadinessInit == Init /\ probe = {}

ReadinessNext ==
    /\ \/ Step /\ UNCHANGED probe
       \/ Restart /\ probe' = {}
       \/ AnchorStatus \/ Answered
    /\ UNCHANGED required

ReadinessSpec == ReadinessInit /\ [][ReadinessNext]_readinessVars /\ Fairness

ReadinessTypeOK == TypeOK /\ probe \subseteq Probe

(* "UNKNOWN IS NOT GREEN": whatever rounds, raises and restarts came       *)
(* between the reads of one report, a node that says READY has every       *)
(* record of work it looked at settled by every backend it requires, and   *)
(* one that says less than NOT_READY holds of each of them a proof for     *)
(* some of that work.                                                      *)
NoFalseGreen ==
    \A p \in probe, b \in required :
        LET state == EvaluateAnchoring(p)
            ByThen(statuses) == {r \in given : r.backend = b /\ r.status \in statuses}
        IN /\ state = READY =>
                \E r \in ByThen(TERMINAL_SUCCESS) : ~Substantive(r.count, p.count)
           /\ state # NOT_READY /\ Substantive(0, p.count) =>
                \E r \in ByThen(Accepted) : Substantive(0, r.count)
=============================================================================
