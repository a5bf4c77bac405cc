---------------------------- MODULE Verification ----------------------------
(***************************************************************************)
(* The verification plane of a node: routing, cross-verification and       *)
(* challenge rounds run in the request threads of one process and share    *)
(* one champion registry, one journal of it and one witness chain.         *)
(***************************************************************************)
EXTENDS Router, Challenge

CONSTANT Works   \* [script, mode]: what the threads are asked to do

(* Every thread has its calls, in an order.                                *)
ASSUME WorksAssumption ==
    \A w \in Works : /\ DOMAIN w.script = Threads
                     /\ \A th \in Threads : w.script[th] \in Seq(Range1(w.script[th]))

vars == <<threadVars, registryVars, chain, faults, routerVars, clock, round, fraudLog>>

Init ==
    /\ \E w \in Works : script = w.script /\ mode = w.mode
    /\ RegistryInit /\ RouterInit /\ ChallengeInit

EmitStep(th) == Emit(th) /\ UNCHANGED <<routerVars, clock, round, fraudLog>>
RouteStep(th) == Route(th) /\ UNCHANGED <<clock, round, fraudLog>>
ChallengeStep(th) == Challenge(th) /\ UNCHANGED routerVars

(* The process dies: calls under way are lost, what follows them in a      *)
(* script is asked of the restarted node.                                  *)
Crash ==
    /\ faults < MaxFaults /\ faults' = faults + 1
    /\ RegistryRestart /\ RouterRestart /\ ChallengeRestart
    /\ at' = [th \in Threads |-> IF pc[th] = "idle" THEN at[th] ELSE at[th] + 1]
    /\ pc' = [th \in Threads |-> "idle"] /\ loc' = [th \in Threads |-> <<>>]
    /\ UNCHANGED script

Next ==
    \/ \E th \in Threads : EmitStep(th) \/ RouteStep(th) \/ ChallengeStep(th)
    \/ Tick /\ UNCHANGED routerVars
    \/ Crash

VerificationSpec == Init /\ [][Next]_vars

-----------------------------------------------------------------------------
VerificationTypeOK ==
    /\ \A th \in Threads : at[th] \in 1..(Len(script[th]) + 1)
    /\ \A th \in Threads : pc[th] # "idle" => at[th] <= Len(script[th])
    /\ round.seats \subseteq Verifiers
    /\ DOMAIN round.reveals \subseteq DOMAIN round.commits
    /\ DOMAIN round.commits \subseteq round.seats
    /\ Len(rjournal) <= Len(events) + faults
    /\ round.resolved # <<>> => round.resolved.supporters \subseteq round.resolved.revealed
=============================================================================
