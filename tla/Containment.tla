----------------------------- MODULE Containment ------------------------------
(***************************************************************************)
(* core/containment.py, class ContainmentLedger: the Article-25 machine.   *)
(* Every operation appends one or more events; the events are the state,   *)
(* so a restart replays them and finds the cases as they were.  What a     *)
(* restart loses is the rest of an operation that emits more than once:    *)
(* verify and resolve_challenge settle the case after recording the        *)
(* finding, and a false trigger is slashed in the registry after the       *)
(* release.  `pc' is where the operation stands between its emits.         *)
(***************************************************************************)
EXTENDS Naturals, FiniteSets

CONSTANTS Being, Node, Cid,     \* Cid: identities of challenges
          NoNode,
          Quorum,
          HasRegistry,          \* is a ChampionRegistry wired?
          MaxOrders, MaxCrashes

ASSUME ContainmentAssumption ==
    /\ IsFiniteSet(Node) /\ NoNode \notin Node
    /\ Quorum \in Nat \ {0}
    /\ HasRegistry \in BOOLEAN
    /\ MaxOrders \in Nat /\ MaxCrashes \in Nat

Contained == {"CONTAINED", "CORROBORATED", "PENDING_GUARDIAN"}
CaseState == Contained \union {"ACTIVE", "RELEASED"}

VARIABLES
    state,          \* BeingCase.state
    initiator,      \* BeingCase.initiator
    initQualified,  \* BeingCase.initiator_qualified
    lowTrust,       \* BeingCase.provisional_low_trust
    finding,        \* BeingCase.verifications: "none", "yes" or "no" per node
    supporters,     \* BeingCase.qualified_supporters
    challenges,     \* the cids of BeingCase.challenges
    standing,       \* those whose `standing' is true
    overdue,        \* now - contained_at has reached provisional_deadline_s
    pc, cur,        \* the operation in progress: "idle", "settle", "slash"
    weighty,        \* the nodes whose registry weight clears w_contain_min
    slashed,        \* registry: slashes per node
    voices,         \* ghost: nodes that supported while qualified, since the
                    \* case was last opened or re-opened
    confirmed,      \* ghost: cases a qualified node confirmed since the order
    unfounded,      \* ghost: containments reversed as unsupported, per initiator
    orders, crashes

case == <<state, initiator, initQualified, lowTrust, finding, supporters,
          challenges, standing, overdue>>
allButState == <<initiator, initQualified, lowTrust, finding, supporters, challenges,
                 standing, overdue, weighty, slashed, voices, confirmed, orders,
                 crashes>>
ghosts == <<voices, confirmed, unfounded>>
vars == <<case, pc, cur, weighty, slashed, ghosts, orders, crashes>>

TypeOK ==
    /\ state \in [Being -> CaseState]
    /\ initiator \in [Being -> Node \union {NoNode}]
    /\ initQualified \in [Being -> BOOLEAN]
    /\ lowTrust \in [Being -> BOOLEAN]
    /\ finding \in [Being -> [Node -> {"none", "yes", "no"}]]
    /\ supporters \in [Being -> SUBSET Node]
    /\ challenges \in [Being -> SUBSET Cid]
    /\ standing \in [Being -> SUBSET Cid]
    /\ overdue \in [Being -> BOOLEAN]
    /\ pc \in {"idle", "settle", "slash"} /\ cur \in Being
    /\ weighty \subseteq Node
    /\ slashed \in [Node -> Nat]
    /\ voices \in [Being -> SUBSET Node]
    /\ unfounded \in [Node -> Nat]
    /\ confirmed \subseteq Being
    /\ orders \in Nat /\ crashes \in Nat

Init ==
    /\ state = [b \in Being |-> "ACTIVE"]
    /\ initiator = [b \in Being |-> NoNode]
    /\ initQualified = [b \in Being |-> TRUE]
    /\ lowTrust = [b \in Being |-> FALSE]
    /\ finding = [b \in Being |-> [n \in Node |-> "none"]]
    /\ supporters = [b \in Being |-> {}]
    /\ challenges = [b \in Being |-> {}]
    /\ standing = [b \in Being |-> {}]
    /\ overdue = [b \in Being |-> FALSE]
    /\ pc = "idle" /\ cur \in Being
    /\ weighty \in SUBSET Node
    /\ slashed = [n \in Node |-> 0]
    /\ voices = [b \in Being |-> {}]
    /\ unfounded = [n \in Node |-> 0]
    /\ confirmed = {}
    /\ orders = 0 /\ crashes = 0

Qualified(n) == ~HasRegistry \/ n \in weighty

(* The governor's gate.                                                    *)
IsContained(b) == state[b] \in Contained

----------------------------------------------------------------------------
(* Phase One.                                                              *)

Contain(b, n) ==
    /\ pc = "idle" /\ orders < MaxOrders
    /\ ~IsContained(b)
    /\ state' = [state EXCEPT ![b] = "CONTAINED"]
    /\ initiator' = [initiator EXCEPT ![b] = n]
    /\ initQualified' = [initQualified EXCEPT ![b] = Qualified(n)]
    /\ lowTrust' = [lowTrust EXCEPT ![b] = ~Qualified(n)]
    /\ finding' = [finding EXCEPT ![b] = [m \in Node |-> "none"]]
    /\ supporters' = [supporters EXCEPT ![b] = {}]
    /\ challenges' = [challenges EXCEPT ![b] = {}]
    /\ standing' = [standing EXCEPT ![b] = {}]
    /\ overdue' = [overdue EXCEPT ![b] = FALSE]
    /\ voices' = [voices EXCEPT ![b] = {}]
    /\ confirmed' = confirmed \ {b}
    /\ orders' = orders + 1
    /\ UNCHANGED <<pc, cur, weighty, slashed, unfounded, crashes>>

(* Mutant: firm orders lapse too.                                          *)
ExpireFirm(b) ==
    /\ pc = "idle" /\ state[b] = "CONTAINED" /\ supporters[b] = {} /\ overdue[b]
    /\ state' = [state EXCEPT ![b] = "RELEASED"]
    /\ UNCHANGED <<allButState, pc, cur, unfounded>>

(* Mutant: a lapse is slashed.                                             *)
ExpireSlashes(b) ==
    /\ pc = "idle" /\ lowTrust[b] /\ state[b] = "CONTAINED"
    /\ supporters[b] = {} /\ overdue[b]
    /\ state' = [state EXCEPT ![b] = "RELEASED"]
    /\ pc' = "slash" /\ cur' = b
    /\ UNCHANGED <<allButState, unfounded>>

(* expire_provisional, called by an external timer: the order lapses       *)
(* without a slash.  Its early returns change nothing.                     *)
ExpireProvisional(b) ==
    /\ pc = "idle" /\ lowTrust[b] /\ state[b] = "CONTAINED"
    /\ supporters[b] = {} /\ overdue[b]
    /\ state' = [state EXCEPT ![b] = "RELEASED"]
    /\ UNCHANGED <<allButState, pc, cur, unfounded>>

----------------------------------------------------------------------------
(* Phase Two.                                                              *)

(* The resolver re-derives the trigger from the records the node holds:    *)
(* its answer may differ from one verification to the next.                *)
Verify(b, n) ==
    /\ pc = "idle" /\ state[b] # "ACTIVE"
    /\ \E supported \in BOOLEAN :
         LET counts == supported /\ Qualified(n) IN
         /\ finding' = [finding EXCEPT ![b][n] = IF supported THEN "yes" ELSE "no"]
         /\ supporters' = [supporters EXCEPT ![b] = IF counts THEN @ \union {n} ELSE @]
         /\ lowTrust' = [lowTrust EXCEPT ![b] = IF counts THEN FALSE ELSE @]
         /\ voices' = [voices EXCEPT ![b] = IF supported /\ Qualified(n)
                                            THEN @ \union {n} ELSE @]
         /\ confirmed' = IF supported /\ Qualified(n) THEN confirmed \union {b}
                                                     ELSE confirmed
    /\ pc' = "settle" /\ cur' = b
    /\ UNCHANGED <<state, initiator, initQualified, challenges, standing, overdue,
                   weighty, slashed, unfounded, orders, crashes>>

Challenge(b, c) ==
    /\ pc = "idle" /\ state[b] # "ACTIVE" /\ c \notin challenges[b]
    /\ challenges' = [challenges EXCEPT ![b] = @ \union {c}]
    /\ standing' = [standing EXCEPT ![b] = @ \union {c}]
    /\ UNCHANGED <<state, initiator, initQualified, lowTrust, finding, supporters,
                   overdue, pc, cur, weighty, slashed, ghosts, orders,
                   crashes>>

ResolveChallenge(b, c, upheld) ==
    /\ pc = "idle" /\ state[b] # "ACTIVE"
    /\ standing' = [standing EXCEPT ![b] =
         IF c \notin challenges[b] THEN @
         ELSE IF upheld THEN @ \union {c} ELSE @ \ {c}]
    /\ pc' = "settle" /\ cur' = b
    /\ UNCHANGED <<state, initiator, initQualified, lowTrust, finding, supporters,
                   challenges, overdue, weighty, slashed, ghosts, orders,
                   crashes>>

Unsupported(b) == \E n \in Node : finding[b][n] = "no"

(* Mutant: off by one.                                                     *)
CorroboratesEarly(b) == Cardinality(supporters[b]) + 1 >= Quorum /\ standing[b] = {}

Corroborates(b) == Cardinality(supporters[b]) >= Quorum /\ standing[b] = {}

----------------------------------------------------------------------------
(* _settle, one action per branch.                                         *)

SettleClosed ==
    /\ pc = "settle" /\ state[cur] \notin {"CONTAINED", "CORROBORATED"}
    /\ pc' = "idle"
    /\ UNCHANGED <<case, cur, weighty, slashed, ghosts, orders, crashes>>

SettleFalse ==
    /\ pc = "settle" /\ state[cur] \in {"CONTAINED", "CORROBORATED"}
    /\ Unsupported(cur)
    /\ state' = [state EXCEPT ![cur] = "RELEASED"]
    /\ unfounded' = [unfounded EXCEPT ![initiator[cur]] = @ + 1]
    /\ pc' = IF HasRegistry THEN "slash" ELSE "idle"
    /\ UNCHANGED <<allButState, cur>>

(* Mutant: support outweighs an unsupported finding.                       *)
CorroboratedFirst ==
    /\ pc = "settle" /\ state[cur] \in {"CONTAINED", "CORROBORATED"}
    /\ Corroborates(cur)
    /\ state' = [state EXCEPT ![cur] = "CORROBORATED"]
    /\ pc' = "idle"
    /\ UNCHANGED <<allButState, cur, unfounded>>

SettleCorroborated ==
    /\ pc = "settle" /\ state[cur] \in {"CONTAINED", "CORROBORATED"}
    /\ ~Unsupported(cur) /\ Corroborates(cur)
    /\ state' = [state EXCEPT ![cur] = "CORROBORATED"]
    /\ pc' = "idle"
    /\ UNCHANGED <<allButState, cur, unfounded>>

SettleProvisional ==
    /\ pc = "settle" /\ state[cur] \in {"CONTAINED", "CORROBORATED"}
    /\ ~Unsupported(cur) /\ ~Corroborates(cur)
    /\ pc' = "idle"
    /\ UNCHANGED <<case, cur, weighty, slashed, ghosts, orders, crashes>>

(* The second half of _release_false: registry.slash, heavier when the     *)
(* case is still provisional, and the initiator may lose its standing.     *)
Slash ==
    /\ pc = "slash"
    /\ slashed' = [slashed EXCEPT ![initiator[cur]] = @ + 1]
    /\ weighty' \in {weighty, weighty \ {initiator[cur]}}
    /\ pc' = "idle"
    /\ UNCHANGED <<case, cur, voices, confirmed, unfounded, orders, crashes>>

----------------------------------------------------------------------------
(* The door back and the threshold of irreversibility.                     *)

Rehabilitate(b) ==
    /\ pc = "idle" /\ IsContained(b)
    /\ state' = [state EXCEPT ![b] = "CONTAINED"]
    /\ finding' = [finding EXCEPT ![b] = [m \in Node |-> "none"]]
    /\ supporters' = [supporters EXCEPT ![b] = {}]
    /\ voices' = [voices EXCEPT ![b] = {}]
    /\ UNCHANGED <<initiator, initQualified, lowTrust, challenges, standing, overdue,
                   pc, cur, weighty, slashed, confirmed, unfounded,
                   orders, crashes>>

ProposeErasure(b) ==
    /\ pc = "idle" /\ state[b] = "CORROBORATED" /\ standing[b] = {}
    /\ state' = [state EXCEPT ![b] = "PENDING_GUARDIAN"]
    /\ UNCHANGED <<allButState, pc, cur, unfounded>>

----------------------------------------------------------------------------
(* The environment.                                                        *)

Deadline(b) ==
    /\ IsContained(b) /\ ~overdue[b]
    /\ overdue' = [overdue EXCEPT ![b] = TRUE]
    /\ UNCHANGED <<state, initiator, initQualified, lowTrust, finding, supporters,
                   challenges, standing, pc, cur, weighty, slashed, ghosts,
                   orders, crashes>>

(* Registry weight decays with idleness and grows with verdicts.           *)
WeightChanges(n) ==
    /\ HasRegistry
    /\ weighty' = IF n \in weighty THEN weighty \ {n} ELSE weighty \union {n}
    /\ UNCHANGED <<case, pc, cur, slashed, ghosts, orders, crashes>>

(* A crash abandons the rest of the operation; replaying the journal gives *)
(* the cases back unchanged.                                               *)
Crash ==
    /\ pc # "idle" /\ crashes < MaxCrashes
    /\ pc' = "idle" /\ crashes' = crashes + 1
    /\ UNCHANGED <<case, cur, weighty, slashed, ghosts, orders>>

Next ==
    \/ \E b \in Being, n \in Node : Contain(b, n) \/ Verify(b, n)
    \/ \E b \in Being, c \in Cid : Challenge(b, c)
    \/ \E b \in Being, c \in Cid, upheld \in BOOLEAN : ResolveChallenge(b, c, upheld)
    \/ SettleClosed \/ SettleFalse \/ SettleCorroborated \/ SettleProvisional
    \/ Slash
    \/ \E b \in Being : \/ ExpireProvisional(b) \/ Rehabilitate(b)
                        \/ ProposeErasure(b) \/ Deadline(b)
    \/ \E n \in Node : WeightChanges(n)
    \/ Crash

Spec == Init /\ [][Next]_vars

----------------------------------------------------------------------------
(* Properties.                                                             *)

(* "A swarm of fresh sybil nodes cannot manufacture convergence": a case   *)
(* is corroborated, or before the guardians, only if a quorum of distinct  *)
(* nodes each supported it while qualified, all since the case was last    *)
(* opened or re-opened by the guardian.                                    *)
CorroborationEarned ==
    \A b \in Being : state[b] \in {"CORROBORATED", "PENDING_GUARDIAN"}
        => Cardinality(voices[b]) >= Quorum

(* Art. 25 "weighs against its initiator": nobody is slashed except for a  *)
(* containment of theirs that was reversed as unsupported; a lapsed order  *)
(* is not slashed, and no reversal is slashed twice, restarts included.    *)
SlashIsFounded == \A n \in Node : slashed[n] <= unfounded[n]

(* An order a qualified node confirmed never lapses with the deadline, not *)
(* even after the guardian re-opened it and its supporters were cleared.   *)
ConfirmedNeverLapses ==
    [][\A b \in confirmed :
          IsContained(b) /\ state'[b] = "RELEASED" => Unsupported(b)]_vars

(* The hand-off to the guardians happens only while no verification on     *)
(* record found the trigger unsupported, unless a crash cut an operation   *)
(* between recording the finding and settling the case.                    *)
ErasureUncontested ==
    [][\A b \in Being :
          state'[b] = "PENDING_GUARDIAN" /\ state[b] # "PENDING_GUARDIAN" /\ crashes = 0
             => ~Unsupported(b)]_vars

=============================================================================
