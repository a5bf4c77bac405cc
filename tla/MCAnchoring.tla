----------------------------- MODULE MCAnchoring ------------------------------
(* Model-checking instance of Readiness: a calendar and the peers' quorum,  *)
(* with the answers each of them gives.                                    *)
EXTENDS Readiness, TLC

CONSTANTS ots, peers

TwoBackends == <<ots, peers>>
TheirAnswers == (ots :> {"failed", "pending-attestation"})
                @@ (peers :> {"pending", "recorded"})
=============================================================================
