------------------------ MODULE Accountability_proofs ------------------------
(***************************************************************************)
(* Proofs about what is held against a Being or a node.  About Containment *)
(* for every set of beings and challenges, every finite set of nodes,      *)
(* every quorum, and any number of orders and crashes.  About Segments and *)
(* Entanglement for any number of records, lives of the origin, salts and  *)
(* faults: evidence is of a real fork, and the judge convicts the fork.    *)
(***************************************************************************)
EXTENDS Containment, Segments, FiniteSetTheorems, WellFoundedInduction, TLAPS

(* The inductive invariant.  The quorum the code counts is the quorum of   *)
(* qualified voices; a contained case names its initiator; a slash that is *)
(* about to happen is already owed; a confirmed case is not provisional.   *)
VoicesCounted == \A b \in Being : voices[b] = supporters[b]
InitiatorKnown == \A b \in Being : state[b] # "ACTIVE" => initiator[b] \in Node
SlashOwed ==
    \A n \in Node : IF pc = "slash" /\ initiator[cur] = n
                    THEN slashed[n] < unfounded[n]
                    ELSE slashed[n] <= unfounded[n]
SlashPending == pc = "slash" => state[cur] # "ACTIVE"
ConfirmedIsFirm == \A b \in confirmed : ~lowTrust[b]

IInv ==
    /\ TypeOK
    /\ VoicesCounted
    /\ CorroborationEarned
    /\ InitiatorKnown
    /\ SlashPending
    /\ SlashOwed
    /\ ConfirmedIsFirm

(* A set of nodes only grows in cardinality when a node joins it.          *)
LEMMA JoiningCounts ==
    ASSUME NEW S \in SUBSET Node, NEW n \in Node
    PROVE  /\ Cardinality(S) \in Nat /\ Cardinality(S \union {n}) \in Nat
           /\ Cardinality(S \union {n}) >= Cardinality(S)
<1>1. IsFiniteSet(S)
  BY ContainmentAssumption, FS_Subset
<1>2. /\ Cardinality(S) \in Nat
      /\ IsFiniteSet(S \union {n})
      /\ Cardinality(S \union {n}) = Cardinality(S)
         \/ Cardinality(S \union {n}) = Cardinality(S) + 1
  BY <1>1, FS_AddElement, FS_CardinalityType
<1> QED
  BY <1>2

(* The initial states: no case is open.                                    *)
LEMMA InitEstablishes == Init => IInv
<1> SUFFICES ASSUME Init PROVE IInv
  OBVIOUS
<1>1. TypeOK
  BY ContainmentAssumption DEF Init, TypeOK, CaseState, Contained
<1>2. VoicesCounted /\ CorroborationEarned /\ InitiatorKnown
  BY DEF Init, VoicesCounted, CorroborationEarned, InitiatorKnown
<1>3. SlashPending /\ SlashOwed /\ ConfirmedIsFirm
  BY DEF Init, SlashPending, SlashOwed, ConfirmedIsFirm
<1> QED
  BY <1>1, <1>2, <1>3 DEF IInv

(* Every operation keeps the types.                                        *)
LEMMA TypePreserved == TypeOK /\ InitiatorKnown /\ SlashPending /\ [Next]_vars => TypeOK'
<1> SUFFICES ASSUME TypeOK, InitiatorKnown, SlashPending, [Next]_vars PROVE TypeOK'
  OBVIOUS
<1> USE ContainmentAssumption DEF TypeOK, CaseState, Contained
<1>1. ASSUME NEW b \in Being, NEW n \in Node, Contain(b, n) PROVE TypeOK'
  BY <1>1 DEF Contain, Qualified
<1>2. ASSUME NEW b \in Being, NEW n \in Node, Verify(b, n) PROVE TypeOK'
  <2>1. PICK supported \in BOOLEAN :
          LET counts == supported /\ Qualified(n) IN
          /\ finding' = [finding EXCEPT ![b][n] = IF supported THEN "yes" ELSE "no"]
          /\ supporters' = [supporters EXCEPT ![b] = IF counts THEN @ \union {n} ELSE @]
          /\ lowTrust' = [lowTrust EXCEPT ![b] = IF counts THEN FALSE ELSE @]
          /\ voices' = [voices EXCEPT ![b] = IF supported /\ Qualified(n)
                                             THEN @ \union {n} ELSE @]
          /\ confirmed' = IF supported /\ Qualified(n) THEN confirmed \union {b}
                                                      ELSE confirmed
    BY <1>2 DEF Verify
  <2>2. finding' \in [Being -> [Node -> {"none", "yes", "no"}]]
    BY <2>1
  <2>3. supporters' \in [Being -> SUBSET Node] /\ voices' \in [Being -> SUBSET Node]
    BY <2>1
  <2>4. lowTrust' \in [Being -> BOOLEAN]
    BY <2>1
  <2>5. confirmed' \subseteq Being
    BY <2>1
  <2> QED
    BY <1>2, <2>2, <2>3, <2>4, <2>5 DEF Verify
<1>3. ASSUME NEW b \in Being, NEW c \in Cid, Challenge(b, c) PROVE TypeOK'
  BY <1>3 DEF Challenge, ghosts
<1>4. ASSUME NEW b \in Being, NEW c \in Cid, NEW u \in BOOLEAN,
             ResolveChallenge(b, c, u) PROVE TypeOK'
  BY <1>4 DEF ResolveChallenge, ghosts
<1>5. CASE SettleClosed
  BY <1>5 DEF SettleClosed, case, ghosts
<1>6. CASE SettleFalse
  BY <1>6 DEF SettleFalse, allButState, InitiatorKnown
<1>7. CASE SettleCorroborated
  BY <1>7 DEF SettleCorroborated, allButState, ghosts
<1>8. CASE SettleProvisional
  BY <1>8 DEF SettleProvisional, case, ghosts
<1>9. CASE Slash
  BY <1>9 DEF Slash, case, InitiatorKnown, SlashPending
<1>10. ASSUME NEW b \in Being, ExpireProvisional(b) PROVE TypeOK'
  BY <1>10 DEF ExpireProvisional, allButState, ghosts
<1>11. ASSUME NEW b \in Being, Rehabilitate(b) PROVE TypeOK'
  BY <1>11 DEF Rehabilitate
<1>12. ASSUME NEW b \in Being, ProposeErasure(b) PROVE TypeOK'
  BY <1>12 DEF ProposeErasure, allButState, ghosts
<1>13. ASSUME NEW b \in Being, Deadline(b) PROVE TypeOK'
  BY <1>13 DEF Deadline, ghosts
<1>14. ASSUME NEW n \in Node, WeightChanges(n) PROVE TypeOK'
  BY <1>14 DEF WeightChanges, case, ghosts
<1>15. CASE Crash
  BY <1>15 DEF Crash, case, ghosts
<1>16. CASE UNCHANGED vars
  BY <1>16 DEF vars, case, ghosts
<1> QED
  BY <1>1, <1>2, <1>3, <1>4, <1>5, <1>6, <1>7, <1>8, <1>9, <1>10, <1>11, <1>12,
     <1>13, <1>14, <1>15, <1>16 DEF Next

(* What a verification does to the case it is about: a supporting finding  *)
(* of a qualified node joins both the supporters and the voices, and ends  *)
(* the provisional standing; any other finding leaves all three alone.     *)
Counted(b, n) ==
    /\ supporters' = [supporters EXCEPT ![b] = @ \union {n}]
    /\ voices' = [voices EXCEPT ![b] = @ \union {n}]
    /\ lowTrust' = [lowTrust EXCEPT ![b] = FALSE]
    /\ confirmed' = confirmed \union {b}
Ignored == UNCHANGED <<supporters, voices, lowTrust, confirmed>>
(* A verification counts its node, or leaves the case as it was.          *)
LEMMA VerifyEffect ==
    ASSUME TypeOK, NEW b \in Being, NEW n \in Node, Verify(b, n)
    PROVE  Counted(b, n) \/ Ignored
<1>1. PICK supported \in BOOLEAN :
        LET counts == supported /\ Qualified(n) IN
        /\ supporters' = [supporters EXCEPT ![b] = IF counts THEN @ \union {n} ELSE @]
        /\ lowTrust' = [lowTrust EXCEPT ![b] = IF counts THEN FALSE ELSE @]
        /\ voices' = [voices EXCEPT ![b] = IF supported /\ Qualified(n)
                                           THEN @ \union {n} ELSE @]
        /\ confirmed' = IF supported /\ Qualified(n) THEN confirmed \union {b}
                                                    ELSE confirmed
  BY DEF Verify
<1>2. CASE supported /\ Qualified(n)
  BY <1>1, <1>2 DEF Counted
<1>3. CASE ~(supported /\ Qualified(n))
  BY <1>1, <1>3 DEF TypeOK, Ignored
<1> QED
  BY <1>2, <1>3

(* The supporters the code counts stay the qualified voices, and a quorum  *)
(* of them stays behind every corroborated case.                           *)
LEMMA QuorumPreserved == IInv /\ [Next]_vars => VoicesCounted' /\ CorroborationEarned'
<1> SUFFICES ASSUME IInv, [Next]_vars PROVE VoicesCounted' /\ CorroborationEarned'
  OBVIOUS
<1>0. ASSUME NEW b \in Being, NEW n \in Node, Verify(b, n)
      PROVE  Counted(b, n) \/ Ignored
  BY <1>0, VerifyEffect DEF IInv
<1> USE ContainmentAssumption DEF IInv, TypeOK, VoicesCounted, CorroborationEarned
<1> DEFINE Goal == VoicesCounted' /\ CorroborationEarned'
<1>1. ASSUME NEW b \in Being, NEW n \in Node, Contain(b, n) PROVE Goal
  BY <1>1 DEF Contain
<1>2. ASSUME NEW b \in Being, NEW n \in Node, Verify(b, n) PROVE Goal
  <2>1. state' = state
    BY <1>2 DEF Verify
  <2>2. \A d \in Being :
          \/ voices'[d] = voices[d] /\ supporters'[d] = supporters[d]
          \/ voices'[d] = voices[d] \union {n} /\ supporters'[d] = supporters[d] \union {n}
    <3>1. CASE Counted(b, n)
      BY <3>1 DEF Counted
    <3>2. CASE Ignored
      BY <3>2 DEF Ignored
    <3> QED
      BY <1>0, <1>2, <3>1, <3>2
  <2>3. VoicesCounted'
    BY <2>2
  <2>4. ASSUME NEW d \in Being
        PROVE /\ Cardinality(voices[d]) \in Nat /\ Cardinality(voices'[d]) \in Nat
              /\ Cardinality(voices'[d]) >= Cardinality(voices[d])
    <3>1. voices[d] \in SUBSET Node
      OBVIOUS
    <3>2. /\ Cardinality(voices[d]) \in Nat
          /\ Cardinality(voices[d] \union {n}) \in Nat
          /\ Cardinality(voices[d] \union {n}) >= Cardinality(voices[d])
      BY ONLY <3>1, n \in Node, JoiningCounts
    <3>3. voices'[d] = voices[d] \/ voices'[d] = voices[d] \union {n}
      BY <2>2
    <3>4. CASE voices'[d] = voices[d]
      BY ONLY <3>2, <3>4
    <3>5. CASE voices'[d] = voices[d] \union {n}
      BY ONLY <3>2, <3>5
    <3> QED
      BY ONLY <3>3, <3>4, <3>5
  <2>5. CorroborationEarned'
    BY <2>1, <2>4
  <2> QED
    BY <2>3, <2>5
<1>3. ASSUME NEW b \in Being, NEW c \in Cid, Challenge(b, c) PROVE Goal
  BY <1>3 DEF Challenge, ghosts
<1>4. ASSUME NEW b \in Being, NEW c \in Cid, NEW u \in BOOLEAN,
             ResolveChallenge(b, c, u) PROVE Goal
  BY <1>4 DEF ResolveChallenge, ghosts
<1>5. CASE SettleClosed
  BY <1>5 DEF SettleClosed, case, ghosts
<1>6. CASE SettleFalse
  BY <1>6 DEF SettleFalse, allButState
<1>7. CASE SettleCorroborated
  BY <1>7 DEF SettleCorroborated, allButState, Corroborates, ghosts
<1>8. CASE SettleProvisional
  BY <1>8 DEF SettleProvisional, case, ghosts
<1>9. CASE Slash
  BY <1>9 DEF Slash, case
<1>10. ASSUME NEW b \in Being, ExpireProvisional(b) PROVE Goal
  BY <1>10 DEF ExpireProvisional, allButState, ghosts
<1>11. ASSUME NEW b \in Being, Rehabilitate(b) PROVE Goal
  BY <1>11 DEF Rehabilitate
<1>12. ASSUME NEW b \in Being, ProposeErasure(b) PROVE Goal
  BY <1>12 DEF ProposeErasure, allButState, ghosts
<1>13. ASSUME NEW b \in Being, Deadline(b) PROVE Goal
  BY <1>13 DEF Deadline, ghosts
<1>14. ASSUME NEW n \in Node, WeightChanges(n) PROVE Goal
  BY <1>14 DEF WeightChanges, case, ghosts
<1>15. CASE Crash
  BY <1>15 DEF Crash, case, ghosts
<1>16. CASE UNCHANGED vars
  BY <1>16 DEF vars, case, ghosts
<1> QED
  BY <1>1, <1>2, <1>3, <1>4, <1>5, <1>6, <1>7, <1>8, <1>9, <1>10, <1>11, <1>12,
     <1>13, <1>14, <1>15, <1>16 DEF Next

(* The books of the registry: an open case names its initiator, and the    *)
(* slash a reversal is about to make is covered by that reversal.          *)
LEMMA BooksPreserved ==
    IInv /\ [Next]_vars => InitiatorKnown' /\ SlashPending' /\ SlashOwed'
<1> SUFFICES ASSUME IInv, [Next]_vars
             PROVE InitiatorKnown' /\ SlashPending' /\ SlashOwed'
  OBVIOUS
<1> USE DEF IInv, TypeOK, InitiatorKnown, SlashPending, SlashOwed
<1> DEFINE Goal == InitiatorKnown' /\ SlashPending' /\ SlashOwed'
<1>1. ASSUME NEW b \in Being, NEW n \in Node, Contain(b, n) PROVE Goal
  BY <1>1 DEF Contain
<1>2. ASSUME NEW b \in Being, NEW n \in Node, Verify(b, n) PROVE Goal
  BY <1>2 DEF Verify
<1>3. ASSUME NEW b \in Being, NEW c \in Cid, Challenge(b, c) PROVE Goal
  BY <1>3 DEF Challenge, ghosts
<1>4. ASSUME NEW b \in Being, NEW c \in Cid, NEW u \in BOOLEAN,
             ResolveChallenge(b, c, u) PROVE Goal
  BY <1>4 DEF ResolveChallenge, ghosts
<1>5. CASE SettleClosed
  BY <1>5 DEF SettleClosed, case, ghosts
<1>6. CASE SettleFalse
  <2>1. initiator[cur] \in Node
    BY <1>6 DEF SettleFalse, allButState
  <2> QED
    BY <1>6, <2>1 DEF SettleFalse, allButState
<1>7. CASE SettleCorroborated
  BY <1>7 DEF SettleCorroborated, allButState, ghosts
<1>8. CASE SettleProvisional
  BY <1>8 DEF SettleProvisional, case, ghosts
<1>9. CASE Slash
  <2>1. initiator[cur] \in Node
    BY <1>9 DEF Slash
  <2> QED
    BY <1>9, <2>1 DEF Slash, case
<1>10. ASSUME NEW b \in Being, ExpireProvisional(b) PROVE Goal
  BY <1>10 DEF ExpireProvisional, allButState, ghosts
<1>11. ASSUME NEW b \in Being, Rehabilitate(b) PROVE Goal
  BY <1>11 DEF Rehabilitate, IsContained, Contained
<1>12. ASSUME NEW b \in Being, ProposeErasure(b) PROVE Goal
  BY <1>12 DEF ProposeErasure, allButState, ghosts
<1>13. ASSUME NEW b \in Being, Deadline(b) PROVE Goal
  BY <1>13 DEF Deadline, ghosts
<1>14. ASSUME NEW n \in Node, WeightChanges(n) PROVE Goal
  BY <1>14 DEF WeightChanges, case, ghosts
<1>15. CASE Crash
  BY <1>15 DEF Crash, case, ghosts
<1>16. CASE UNCHANGED vars
  BY <1>16 DEF vars, case, ghosts
<1> QED
  BY <1>1, <1>2, <1>3, <1>4, <1>5, <1>6, <1>7, <1>8, <1>9, <1>10, <1>11, <1>12,
     <1>13, <1>14, <1>15, <1>16 DEF Next

(* A confirmed order is never put back on the provisional clock.           *)
LEMMA FirmPreserved == IInv /\ [Next]_vars => ConfirmedIsFirm'
<1> SUFFICES ASSUME IInv, [Next]_vars PROVE ConfirmedIsFirm'
  OBVIOUS
<1>0. ASSUME NEW b \in Being, NEW n \in Node, Verify(b, n)
      PROVE  Counted(b, n) \/ Ignored
  BY <1>0, VerifyEffect DEF IInv
<1> USE DEF IInv, TypeOK, ConfirmedIsFirm
<1>1. ASSUME NEW b \in Being, NEW n \in Node, Contain(b, n) PROVE ConfirmedIsFirm'
  BY <1>1 DEF Contain
<1>2. ASSUME NEW b \in Being, NEW n \in Node, Verify(b, n) PROVE ConfirmedIsFirm'
  BY <1>0, <1>2 DEF Counted, Ignored
<1>3. ASSUME UNCHANGED <<lowTrust, confirmed>> PROVE ConfirmedIsFirm'
  BY <1>3
<1>4. ASSUME NEW b \in Being, NEW c \in Cid, NEW u \in BOOLEAN,
             Challenge(b, c) \/ ResolveChallenge(b, c, u)
      PROVE  UNCHANGED <<lowTrust, confirmed>>
  BY <1>4 DEF Challenge, ResolveChallenge, ghosts
<1>5. ASSUME SettleClosed \/ SettleFalse \/ SettleCorroborated \/ SettleProvisional
             \/ Slash \/ Crash \/ UNCHANGED vars
      PROVE  UNCHANGED <<lowTrust, confirmed>>
  BY <1>5 DEF SettleClosed, SettleFalse, SettleCorroborated, SettleProvisional,
              Slash, Crash, vars, case, ghosts, allButState
<1>6. ASSUME NEW b \in Being, ExpireProvisional(b) \/ Rehabilitate(b)
                              \/ ProposeErasure(b) \/ Deadline(b)
      PROVE  UNCHANGED <<lowTrust, confirmed>>
  BY <1>6 DEF ExpireProvisional, allButState, Rehabilitate, ProposeErasure, Deadline, ghosts, allButState
<1>7. ASSUME NEW n \in Node, WeightChanges(n) PROVE UNCHANGED <<lowTrust, confirmed>>
  BY <1>7 DEF WeightChanges, case, ghosts
<1> QED
  BY <1>1, <1>2, <1>3, <1>4, <1>5, <1>6, <1>7 DEF Next

(* The invariant is inductive.                                             *)
LEMMA StepPreserves == IInv /\ [Next]_vars => IInv'
<1> SUFFICES ASSUME IInv, [Next]_vars PROVE IInv'
  OBVIOUS
<1>1. TypeOK'
  BY TypePreserved DEF IInv
<1> QED
  BY <1>1, QuorumPreserved, BooksPreserved, FirmPreserved DEF IInv

(* Every reachable state of the ledger satisfies the invariant.            *)
LEMMA Invariance == Spec => []IInv
  BY InitEstablishes, StepPreserves, PTL DEF Spec

----------------------------------------------------------------------------
(* Every variable of the containment ledger keeps its type.                *)
THEOREM TypeCorrect == Spec => []TypeOK
<1>1. IInv => TypeOK
  BY DEF IInv
<1> QED
  BY <1>1, Invariance, PTL

(* No case is CORROBORATED or PENDING_GUARDIAN (_settle, propose_erasure)  *)
(* without a quorum of distinct nodes that supported it while qualified    *)
(* since it was last opened, for any number of nodes, orders and crashes.  *)
THEOREM CorroborationIsEarned == Spec => []CorroborationEarned
<1>1. IInv => CorroborationEarned
  BY DEF IInv
<1> QED
  BY <1>1, Invariance, PTL

(* _release_false never slashes an initiator more often than containments  *)
(* of theirs were reversed, whatever operations a crash cut short.         *)
THEOREM SlashesAreFounded == Spec => []SlashIsFounded
<1>1. IInv => SlashIsFounded
  BY DEF IInv, TypeOK, SlashOwed, SlashIsFounded
<1> QED
  BY <1>1, Invariance, PTL

(* expire_provisional never lifts an order some qualified node confirmed:  *)
(* such a case is released only when a finding on record denies it.        *)
THEOREM ConfirmedStands == Spec => ConfirmedNeverLapses
<1> DEFINE Stands == \A b \in confirmed :
                       IsContained(b) /\ state'[b] = "RELEASED" => Unsupported(b)
<1>1. ASSUME IInv, [Next]_vars PROVE [Stands]_vars
  <2> USE <1>1 DEF IInv, TypeOK, IsContained, Contained
  <2>1. ASSUME NEW b \in Being, NEW n \in Node, Contain(b, n) \/ Verify(b, n) PROVE Stands
    BY <2>1 DEF Contain, Verify
  <2>2. ASSUME NEW b \in Being, NEW c \in Cid, NEW u \in BOOLEAN,
               Challenge(b, c) \/ ResolveChallenge(b, c, u) PROVE Stands
    BY <2>2 DEF Challenge, ResolveChallenge
  <2>3. CASE SettleFalse
    BY <2>3 DEF SettleFalse, allButState
  <2>4. CASE SettleClosed \/ SettleCorroborated \/ SettleProvisional \/ Slash \/ Crash
    BY <2>4 DEF SettleClosed, SettleCorroborated, SettleProvisional, Slash, Crash, case
  <2>5. ASSUME NEW b \in Being, ExpireProvisional(b) PROVE Stands
    BY <2>5 DEF ExpireProvisional, allButState, ConfirmedIsFirm
  <2>6. ASSUME NEW b \in Being, Rehabilitate(b) \/ ProposeErasure(b) \/ Deadline(b)
        PROVE  Stands
    BY <2>6 DEF Rehabilitate, ProposeErasure, Deadline
  <2>7. ASSUME NEW n \in Node, WeightChanges(n) PROVE Stands
    BY <2>7 DEF WeightChanges, case
  <2> QED
    BY <2>1, <2>2, <2>3, <2>4, <2>5, <2>6, <2>7 DEF Next
<1> QED
  BY <1>1, Invariance, PTL DEF Spec, ConfirmedNeverLapses

(* Without a crash, a corroborated case with a denying finding on record   *)
(* is the one that is about to be settled.                                 *)
Uncontested ==
    crashes = 0 => \A b \in Being : state[b] = "CORROBORATED" /\ Unsupported(b)
                                       => pc = "settle" /\ cur = b

(* Every operation settles the case it disturbs, or crashes.               *)
LEMMA UncontestedPreserved == IInv /\ Uncontested /\ [Next]_vars => Uncontested'
<1> SUFFICES ASSUME IInv, Uncontested, [Next]_vars PROVE Uncontested'
  OBVIOUS
<1> USE DEF IInv, TypeOK, Uncontested, Unsupported
<1>1. ASSUME NEW b \in Being, NEW n \in Node, Contain(b, n) PROVE Uncontested'
  BY <1>1 DEF Contain
<1>2. ASSUME NEW b \in Being, NEW n \in Node, Verify(b, n) PROVE Uncontested'
  <2>1. /\ state' = state /\ pc' = "settle" /\ cur' = b /\ crashes' = crashes /\ pc = "idle"
        /\ \A d \in Being : d # b => finding'[d] = finding[d]
    BY <1>2 DEF Verify
  <2> QED
    BY <2>1
<1>3. ASSUME NEW b \in Being, NEW c \in Cid, NEW u \in BOOLEAN,
             Challenge(b, c) \/ ResolveChallenge(b, c, u)
      PROVE  Uncontested'
  BY <1>3 DEF Challenge, ResolveChallenge
<1>4. CASE SettleFalse
  BY <1>4 DEF SettleFalse, allButState
<1>5. CASE SettleCorroborated
  BY <1>5 DEF SettleCorroborated, allButState
<1>6. CASE SettleClosed \/ SettleProvisional \/ Slash
  BY <1>6 DEF SettleClosed, SettleProvisional, Slash, case
<1>7. ASSUME NEW b \in Being, ExpireProvisional(b) \/ ProposeErasure(b) PROVE Uncontested'
  BY <1>7 DEF ExpireProvisional, ProposeErasure, allButState
<1>8. ASSUME NEW b \in Being, Rehabilitate(b) \/ Deadline(b) PROVE Uncontested'
  BY <1>8 DEF Rehabilitate, Deadline
<1>9. ASSUME NEW n \in Node, WeightChanges(n) PROVE Uncontested'
  BY <1>9 DEF WeightChanges, case
<1>10. CASE Crash
  BY <1>10 DEF Crash
<1>11. CASE UNCHANGED vars
  BY <1>11 DEF vars, case
<1> QED
  BY <1>1, <1>2, <1>3, <1>4, <1>5, <1>6, <1>7, <1>8, <1>9, <1>10, <1>11 DEF Next

(* propose_erasure: unless a crash cut an operation short, no case is      *)
(* handed to the guardians while a finding on record denies its trigger.   *)
THEOREM ErasureIsUncontested == Spec => ErasureUncontested
<1> DEFINE Handoff == \A b \in Being :
              state'[b] = "PENDING_GUARDIAN" /\ state[b] # "PENDING_GUARDIAN" /\ crashes = 0
                 => ~Unsupported(b)
<1>1. Init => Uncontested
  BY DEF Init, Uncontested
<1>2. ASSUME IInv, Uncontested, [Next]_vars PROVE [Handoff]_vars
  <2> USE <1>2 DEF IInv, TypeOK, Uncontested
  <2>1. ASSUME NEW b \in Being, NEW n \in Node, Contain(b, n) \/ Verify(b, n) PROVE Handoff
    BY <2>1 DEF Contain, Verify
  <2>2. ASSUME NEW b \in Being, NEW c \in Cid, NEW u \in BOOLEAN,
               Challenge(b, c) \/ ResolveChallenge(b, c, u) PROVE Handoff
    BY <2>2 DEF Challenge, ResolveChallenge
  <2>3. CASE SettleFalse \/ SettleCorroborated
    BY <2>3 DEF SettleFalse, SettleCorroborated
  <2>4. CASE SettleClosed \/ SettleProvisional \/ Slash \/ Crash
    BY <2>4 DEF SettleClosed, SettleProvisional, Slash, Crash, case
  <2>5. ASSUME NEW b \in Being, ProposeErasure(b) PROVE Handoff
    BY <2>5 DEF ProposeErasure
  <2>6. ASSUME NEW b \in Being, ExpireProvisional(b) \/ Rehabilitate(b) \/ Deadline(b)
        PROVE  Handoff
    BY <2>6 DEF ExpireProvisional, Rehabilitate, Deadline
  <2>7. ASSUME NEW n \in Node, WeightChanges(n) PROVE Handoff
    BY <2>7 DEF WeightChanges, case
  <2> QED
    BY <2>1, <2>2, <2>3, <2>4, <2>5, <2>6, <2>7 DEF Next
<1>3. IInv /\ Uncontested /\ [Next]_vars => Uncontested'
  BY UncontestedPreserved
<1> QED
  BY <1>1, <1>2, <1>3, Invariance, PTL DEF Spec, ErasureUncontested

---------------------------------------------------------------------------
(* Segments and Entanglement: what the origin, the issuer and the peer     *)
(* hold.  A history holds no salt that was not released.                   *)
Rec == [life : Nat, salt : Nat]
Entry == [kind : {"PEER_ROOT", "SALT_ISSUE", "OTHER"}, salt : Nat, root : Seq(Rec)]
Envelope == [index : Nat \ {0}, head : Seq(Entry), root : Seq(Rec)]
Released(c) == c \in Seq(Rec) /\ \A n \in 1..Len(c) : c[n].salt <= Len(salts)

(* The issuer: each released salt has its one record; unless another       *)
(* append slipped under it, that record is where the envelope says, over   *)
(* the ledger the envelope says.                                           *)
SaltsOnLedger ==
    /\ \A p \in 1..Len(ledger) : /\ ledger[p].kind = "SALT_ISSUE" <=> ledger[p].salt # 0
                                 /\ ledger[p].salt <= Len(salts)
    /\ \A p, q \in 1..Len(ledger) :
          ledger[p].salt = ledger[q].salt /\ ledger[p].salt # 0 => p = q
    /\ \A s \in 1..Len(salts) : \E k \in 1..Len(ledger) :
          /\ ledger[k].salt = s
          /\ s \in skewed \/ (salts[s].index = k /\ salts[s].head = SubSeq(ledger, 1, k - 1))
IssuingOK ==
    issuing = Idle \/ /\ issuing.root \in roots \union {<<>>}
                      /\ issuing.index \in 1..(Len(ledger) + 1)
                      /\ issuing.head = SubSeq(ledger, 1, issuing.index - 1)
(* What a root holds was issued before the root was witnessed.             *)
RootsFollowSalts ==
    \A k \in 1..Len(ledger) : \A n \in 1..Len(ledger[k].root) :
        LET s == ledger[k].root[n].salt
        IN  /\ s <= Len(salts)
            /\ \A p \in 1..Len(ledger) : ledger[p].salt = s /\ s # 0 => p < k
IssuerOK == /\ ledger \in Seq(Entry) /\ salts \in Seq(Envelope)
            /\ SaltsOnLedger /\ IssuingOK /\ RootsFollowSalts

(* The origin: whatever it signed, lived through or recovers.              *)
OriginOK == /\ life \in Nat /\ beacon \in 0..Len(salts)
            /\ \A c \in Histories \union roots : Released(c)
            /\ \A r \in roots : r # <<>>
WritingOK ==
    writing = Idle \/ /\ writing = [log |-> writing.log, root |-> writing.root]
                      /\ Released(writing.log) /\ Released(writing.root)
                      /\ writing.log = SubSeq(writing.root, 1, Len(writing.log))
                      /\ Len(writing.log) <= Len(writing.root)

(* The peer: everything it holds or has on disk was part of a history.     *)
Known(p) == p \in Seq(Rec) /\ \E h \in Histories : IsPrefix(p, h)
Contradicts(e) == /\ Len(e[1]) = Len(e[2]) /\ e[1] # e[2]
                  /\ Known(e[1]) /\ Known(e[2])
PeerOK == /\ disk = [recs |-> disk.recs, ev |-> disk.ev] /\ evidence = disk.ev
          /\ \A p \in held \union disk.recs : Known(p)
          /\ \A e \in evidence : Contradicts(e)
          /\ held \ failed \subseteq disk.recs

(* The inductive invariant.                                                *)
HistInv == IssuerOK /\ OriginOK /\ WritingOK /\ PeerOK

---------------------------------------------------------------------------
(* What is appended moves nothing that was there.                          *)
LEMMA SubSeqKept ==
    ASSUME NEW S, NEW s \in Seq(S), NEW e \in S
    PROVE  /\ Append(s, e) \in Seq(S) /\ Len(Append(s, e)) = Len(s) + 1 /\ Len(s) \in Nat
           /\ \A i \in 1..Len(s) : Append(s, e)[i] = s[i]
           /\ Append(s, e)[Len(s) + 1] = e
           /\ \A m \in 0..Len(s) : SubSeq(Append(s, e), 1, m) = SubSeq(s, 1, m)
<1> DEFINE t == Append(s, e)
<1>1. /\ t \in Seq(S) /\ Len(t) = Len(s) + 1 /\ Len(s) \in Nat
      /\ \A i \in 1..Len(s) : t[i] = s[i]
      /\ t[Len(s) + 1] = e
  OBVIOUS
<1> HIDE DEF t
<1>2. ASSUME NEW m \in 0..Len(s) PROVE SubSeq(t, 1, m) = SubSeq(s, 1, m)
  <2>1. /\ SubSeq(t, 1, m) = [i \in 1..m |-> t[i]]
        /\ SubSeq(s, 1, m) = [i \in 1..m |-> s[i]]
    BY <1>1
  <2>2. \A i \in 1..m : t[i] = s[i]
    BY <1>1
  <2> QED
    BY <2>1, <2>2
<1> QED
  BY <1>1, <1>2 DEF t

(* A prefix, element by element.                                           *)
LEMMA PrefixElements ==
    ASSUME NEW S, NEW s \in Seq(S), NEW t \in Seq(S)
    PROVE  IsPrefix(s, t) <=> Len(s) <= Len(t) /\ \A i \in 1..Len(s) : s[i] = t[i]
<1>1. Len(s) \in Nat /\ Len(t) \in Nat
  OBVIOUS
<1>2. ASSUME Len(s) <= Len(t)
      PROVE  SubSeq(s, 1, Len(s)) = SubSeq(t, 1, Len(s)) <=> \A i \in 1..Len(s) : s[i] = t[i]
  <2>1. /\ SubSeq(t, 1, Len(s)) = [i \in 1..Len(s) |-> t[i]]
        /\ SubSeq(s, 1, Len(s)) = [i \in 1..Len(s) |-> s[i]]
    BY <1>1, <1>2
  <2> QED
    BY <2>1
<1> QED
  BY <1>2 DEF IsPrefix

(* The front of a sequence is a prefix of it.                              *)
LEMMA FrontOf ==
    ASSUME NEW S, NEW t \in Seq(S), NEW m \in 0..Len(t)
    PROVE  /\ SubSeq(t, 1, m) \in Seq(S) /\ Len(SubSeq(t, 1, m)) = m
           /\ \A i \in 1..m : SubSeq(t, 1, m)[i] = t[i]
           /\ IsPrefix(SubSeq(t, 1, m), t)
<1>1. /\ SubSeq(t, 1, m) \in Seq(S) /\ Len(SubSeq(t, 1, m)) = m
      /\ \A i \in 1..m : SubSeq(t, 1, m)[i] = t[i]
  OBVIOUS
<1> DEFINE s == SubSeq(t, 1, m)
<1> HIDE DEF s
<1>2. s \in Seq(S) /\ Len(s) = m /\ \A i \in 1..m : s[i] = t[i]
  BY <1>1 DEF s
<1>3. IsPrefix(s, t)
  BY <1>2, PrefixElements
<1> QED
  BY <1>1, <1>3 DEF s

(* The issuer's books do not depend on what the origin does, if it keeps   *)
(* the roots it signed.                                                    *)
LEMMA IssuerKept ==
    ASSUME IssuerOK, UNCHANGED issuerVars, roots \subseteq roots'
    PROVE  IssuerOK'
<1>1. UNCHANGED <<ledger, issuing, salts, skewed>>
  BY DEF issuerVars
<1>2. SaltsOnLedger' /\ RootsFollowSalts'
  BY <1>1 DEF IssuerOK, SaltsOnLedger, RootsFollowSalts
<1>3. IssuingOK'
  BY <1>1 DEF IssuerOK, IssuingOK
<1> QED
  BY <1>1, <1>2, <1>3 DEF IssuerOK

(* Nor do the origin's on what the issuer does, if it keeps its salts.     *)
LEMMA OriginKept ==
    ASSUME OriginOK, UNCHANGED originVars, salts \in Seq(Envelope), salts' \in Seq(Envelope),
           Len(salts) <= Len(salts')
    PROVE  OriginOK'
<1>1. UNCHANGED <<chain, life, past, roots, beacon>> /\ Histories' = Histories
  BY DEF originVars, Histories
<1>2. Len(salts) \in Nat /\ Len(salts') \in Nat
  OBVIOUS
<1>3. ASSUME NEW c, Released(c) PROVE Released(c)'
  <2>1. c \in Seq(Rec) /\ \A n \in 1..Len(c) : c[n] \in Rec /\ c[n].salt <= Len(salts)
    BY <1>3 DEF Released
  <2>2. \A n \in 1..Len(c) : c[n].salt \in Nat
    BY <2>1 DEF Rec
  <2> QED
    BY <1>2, <2>1, <2>2 DEF Released
<1> QED
  BY <1>1, <1>2, <1>3 DEF OriginOK

(* The same of the log being recovered.                                    *)
LEMMA WritingKept ==
    ASSUME WritingOK, writing' = writing, salts \in Seq(Envelope), salts' \in Seq(Envelope),
           Len(salts) <= Len(salts')
    PROVE  WritingOK'
<1>1. Len(salts) \in Nat /\ Len(salts') \in Nat
  OBVIOUS
<1>2. ASSUME NEW c, Released(c) PROVE Released(c)'
  <2>1. c \in Seq(Rec) /\ \A n \in 1..Len(c) : c[n] \in Rec /\ c[n].salt <= Len(salts)
    BY <1>2 DEF Released
  <2>2. \A n \in 1..Len(c) : c[n].salt \in Nat
    BY <2>1 DEF Rec
  <2> QED
    BY <1>1, <2>1, <2>2 DEF Released
<1> QED
  BY <1>2 DEF WritingOK

(* The peer's store is as good as before when every history is still there *)
(* in front of one.                                                        *)
LEMMA PeerKept ==
    ASSUME PeerOK, UNCHANGED <<held, evidence, disk, failed>>,
           \A c \in Histories : c \in Seq(Rec), \A c \in Histories' : c \in Seq(Rec),
           \A h \in Histories : \E g \in Histories' : IsPrefix(h, g)
    PROVE  PeerOK'
<1>1. ASSUME NEW p, Known(p) PROVE Known(p)'
  <2>1. PICK h \in Histories : IsPrefix(p, h)
    BY <1>1 DEF Known
  <2>2. PICK g \in Histories' : IsPrefix(h, g)
    OBVIOUS
  <2>3. p \in Seq(Rec) /\ h \in Seq(Rec) /\ g \in Seq(Rec)
    BY <1>1 DEF Known
  <2>4. Len(p) \in Nat /\ Len(h) \in Nat /\ Len(g) \in Nat
    BY <2>3
  <2>5. /\ Len(p) <= Len(h) /\ \A i \in 1..Len(p) : p[i] = h[i]
        /\ Len(h) <= Len(g) /\ \A i \in 1..Len(h) : h[i] = g[i]
    BY <2>1, <2>2, <2>3, PrefixElements
  <2>6. IsPrefix(p, g)
    BY <2>3, <2>4, <2>5, PrefixElements
  <2> QED
    BY <2>3, <2>6 DEF Known
<1> QED
  BY <1>1 DEF PeerOK, Contradicts

(* A history is in front of itself.                                        *)
LEMMA PrefixRefl == ASSUME NEW s, s \in Seq(Rec) PROVE IsPrefix(s, s)
BY PrefixElements

(* What the ledger's entries are.                                          *)
LEMMA EntriesAre ==
    ASSUME NEW l \in Seq(Entry)
    PROVE  /\ Len(l) \in Nat
           /\ \A i \in 1..Len(l) : l[i].salt \in Nat /\ l[i].root \in Seq(Rec)
<1>1. Len(l) \in Nat /\ \A i \in 1..Len(l) : l[i] \in Entry
  OBVIOUS
<1>2. \A e \in Entry : e.salt \in Nat /\ e.root \in Seq(Rec)
  BY DEF Entry
<1> QED
  BY <1>1, <1>2

(* receive_root, and the records of other subsystems: a record that issues *)
(* no salt and names a signed root or none.                                *)
LEMMA RecordKeeps ==
    ASSUME IssuerOK, OriginOK, NEW e \in Entry, e.kind # "SALT_ISSUE", e.salt = 0,
           e.root \in roots \union {<<>>}, ledger' = Append(ledger, e),
           UNCHANGED <<issuing, salts, skewed, roots>>
    PROVE  IssuerOK'
<1>1. /\ ledger' \in Seq(Entry) /\ Len(ledger') = Len(ledger) + 1 /\ Len(ledger) \in Nat
      /\ \A i \in 1..Len(ledger) : ledger'[i] = ledger[i]
      /\ ledger'[Len(ledger) + 1] = e
      /\ \A m \in 0..Len(ledger) : SubSeq(ledger', 1, m) = SubSeq(ledger, 1, m)
  BY SubSeqKept DEF IssuerOK
<1>2. \A i \in 1..Len(ledger') : i \in 1..Len(ledger) \/ i = Len(ledger) + 1
  BY <1>1
<1>3. Len(salts) \in Nat /\ \A i \in 1..Len(ledger) : ledger[i].salt \in Nat
  BY EntriesAre DEF IssuerOK
<1>4. SaltsOnLedger'
  <2>1. \A p \in 1..Len(ledger') : /\ ledger'[p].kind = "SALT_ISSUE" <=> ledger'[p].salt # 0
                                   /\ ledger'[p].salt <= Len(salts')
    BY <1>1, <1>2, <1>3 DEF IssuerOK, SaltsOnLedger
  <2>2. \A p, q \in 1..Len(ledger') :
           ledger'[p].salt = ledger'[q].salt /\ ledger'[p].salt # 0 => p = q
    BY <1>1, <1>2 DEF IssuerOK, SaltsOnLedger
  <2>3. ASSUME NEW s \in 1..Len(salts')
        PROVE  \E k \in 1..Len(ledger') :
                  /\ ledger'[k].salt = s
                  /\ \/ s \in skewed'
                     \/ salts'[s].index = k /\ salts'[s].head = SubSeq(ledger', 1, k - 1)
    <3>1. PICK k \in 1..Len(ledger) :
             /\ ledger[k].salt = s
             /\ s \in skewed \/ (salts[s].index = k /\ salts[s].head = SubSeq(ledger, 1, k - 1))
      BY DEF IssuerOK, SaltsOnLedger
    <3>2. k \in 1..Len(ledger') /\ k - 1 \in 0..Len(ledger)
      BY <1>1
    <3> QED
      BY <1>1, <3>1, <3>2
  <2> QED
    BY <2>1, <2>2, <2>3, Zenon DEF SaltsOnLedger
<1>5. IssuingOK'
  <2>1. CASE issuing = Idle
    BY <2>1 DEF IssuingOK
  <2>2. CASE issuing # Idle
    <3>1. /\ issuing.root \in roots \union {<<>>}
          /\ issuing.index \in 1..(Len(ledger) + 1)
          /\ issuing.head = SubSeq(ledger, 1, issuing.index - 1)
      BY <2>2 DEF IssuerOK, IssuingOK
    <3>2. issuing.index - 1 \in 0..Len(ledger) /\ issuing.index \in 1..(Len(ledger') + 1)
      BY <1>1, <3>1
    <3> QED
      BY <1>1, <3>1, <3>2 DEF IssuingOK
  <2> QED
    BY <2>1, <2>2
<1>6. ASSUME NEW k \in 1..Len(ledger'), NEW n \in 1..Len(ledger'[k].root)
      PROVE  /\ ledger'[k].root[n].salt <= Len(salts)
             /\ \A p \in 1..Len(ledger') :
                   ledger'[p].salt = ledger'[k].root[n].salt /\ ledger'[k].root[n].salt # 0 => p < k
  <2>1. CASE k \in 1..Len(ledger)
    BY <1>1, <1>2, <2>1 DEF IssuerOK, RootsFollowSalts
  <2>2. CASE k = Len(ledger) + 1
    <3>1. n \in 1..Len(e.root) /\ e.root \in roots
      BY <1>1, <2>2
    <3>2. e.root[n].salt <= Len(salts)
      BY <3>1 DEF OriginOK, Released
    <3> QED
      BY <1>1, <1>2, <2>2, <3>2
  <2> QED
    BY <1>2, <2>1, <2>2
<1>7. RootsFollowSalts'
  BY <1>6 DEF RootsFollowSalts
<1> QED
  BY <1>1, <1>4, <1>5, <1>7 DEF IssuerOK

(* SaltBeacon.issue, second half: the salt is new, and nothing that was    *)
(* signed holds it yet.                                                    *)
LEMMA IssueKeeps ==
    ASSUME IssuerOK, OriginOK, IssueAppend
    PROVE  IssuerOK' /\ Len(salts) <= Len(salts')
<1> DEFINE s == Len(salts) + 1
           e == [kind |-> "SALT_ISSUE", salt |-> s, root |-> issuing.root]
           env == IssueEnvelope
<1>1. /\ issuing.root \in roots \union {<<>>}
      /\ issuing.index \in 1..(Len(ledger) + 1)
      /\ issuing.head = SubSeq(ledger, 1, issuing.index - 1)
      /\ ledger' = Append(ledger, e) /\ salts' = Append(salts, env)
      /\ skewed' = IF Len(ledger) >= issuing.index THEN skewed \union {s} ELSE skewed
      /\ issuing' = Idle /\ UNCHANGED originVars
      /\ ledger \in Seq(Entry) /\ salts \in Seq(Envelope)
  BY DEF IssueAppend, IssuerOK, IssuingOK
<1>2. issuing.root \in Seq(Rec) /\ Len(ledger) \in Nat /\ Len(salts) \in Nat
  <2>1. \A r \in roots : r \in Seq(Rec)
    BY DEF OriginOK, Released
  <2>2. <<>> \in Seq(Rec)
    OBVIOUS
  <2>3. Len(ledger) \in Nat /\ Len(salts) \in Nat
    BY <1>1
  <2> QED
    BY <1>1, <2>1, <2>2, <2>3
<1>3. issuing.head \in Seq(Entry)
  BY <1>1, <1>2, FrontOf
<1>4. e \in Entry /\ env \in Envelope
  BY <1>1, <1>2, <1>3 DEF Entry, Envelope, IssueEnvelope
<1>5. /\ e.kind = "SALT_ISSUE" /\ e.salt = s /\ e.root = issuing.root
      /\ env.index = issuing.index /\ env.head = issuing.head
  BY DEF IssueEnvelope
<1>6. roots' = roots
  BY <1>1 DEF originVars
<1> HIDE DEF e, env, s
<1>7. s = Len(salts) + 1
  BY DEF s
<1>8. /\ ledger' \in Seq(Entry) /\ Len(ledger') = Len(ledger) + 1
      /\ \A i \in 1..Len(ledger) : ledger'[i] = ledger[i]
      /\ ledger'[Len(ledger) + 1] = e
      /\ \A m \in 0..Len(ledger) : SubSeq(ledger', 1, m) = SubSeq(ledger, 1, m)
  BY <1>1, <1>4, SubSeqKept
<1>9. /\ salts' \in Seq(Envelope) /\ Len(salts') = s
      /\ \A i \in 1..Len(salts) : salts'[i] = salts[i]
      /\ salts'[s] = env
  BY <1>1, <1>4, <1>7, SubSeqKept
<1>10. \A i \in 1..Len(ledger') : i \in 1..Len(ledger) \/ i = Len(ledger) + 1
  BY <1>2, <1>8
<1>11. \A i \in 1..Len(ledger) : /\ ledger[i].salt \in Nat /\ ledger[i].salt <= Len(salts)
                                 /\ ledger[i].salt # s
  <2>1. \A i \in 1..Len(ledger) : ledger[i].salt \in Nat
    BY <1>1, EntriesAre
  <2>2. \A i \in 1..Len(ledger) : ledger[i].salt <= Len(salts)
    BY DEF IssuerOK, SaltsOnLedger
  <2> QED
    BY <1>2, <1>7, <2>1, <2>2
<1>12. SaltsOnLedger'
  <2>1. \A p \in 1..Len(ledger') : /\ ledger'[p].kind = "SALT_ISSUE" <=> ledger'[p].salt # 0
                                   /\ ledger'[p].salt <= s
    <3>1. ASSUME NEW p \in 1..Len(ledger')
          PROVE  /\ ledger'[p].kind = "SALT_ISSUE" <=> ledger'[p].salt # 0
                 /\ ledger'[p].salt <= s
      <4>1. CASE p \in 1..Len(ledger)
        BY <1>2, <1>7, <1>8, <1>11, <4>1 DEF IssuerOK, SaltsOnLedger
      <4>2. CASE p = Len(ledger) + 1
        BY <1>2, <1>5, <1>7, <1>8, <4>2
      <4> QED
        BY <1>10, <4>1, <4>2
    <3> QED
      BY <3>1
  <2>2. \A p, q \in 1..Len(ledger') :
           ledger'[p].salt = ledger'[q].salt /\ ledger'[p].salt # 0 => p = q
    <3>1. ASSUME NEW p \in 1..Len(ledger'), NEW q \in 1..Len(ledger'),
                 ledger'[p].salt = ledger'[q].salt, ledger'[p].salt # 0
          PROVE  p = q
      <4>1. CASE p \in 1..Len(ledger) /\ q \in 1..Len(ledger)
        BY <1>8, <3>1, <4>1 DEF IssuerOK, SaltsOnLedger
      <4>2. p = Len(ledger) + 1 <=> ledger'[p].salt = s
        BY <1>2, <1>5, <1>8, <1>10, <1>11
      <4>3. q = Len(ledger) + 1 <=> ledger'[q].salt = s
        BY <1>2, <1>5, <1>8, <1>10, <1>11
      <4> QED
        BY <1>10, <3>1, <4>1, <4>2, <4>3
    <3> QED
      BY <3>1
  <2>3. ASSUME NEW x \in 1..s
        PROVE  \E k \in 1..Len(ledger') :
                  /\ ledger'[k].salt = x
                  /\ \/ x \in skewed'
                     \/ salts'[x].index = k /\ salts'[x].head = SubSeq(ledger', 1, k - 1)
    <3>1. CASE x \in 1..Len(salts)
      <4>1. PICK k \in 1..Len(ledger) :
               /\ ledger[k].salt = x
               /\ x \in skewed \/ (salts[x].index = k /\ salts[x].head = SubSeq(ledger, 1, k - 1))
        BY <3>1 DEF IssuerOK, SaltsOnLedger
      <4>2. k \in 1..Len(ledger') /\ k - 1 \in 0..Len(ledger) /\ skewed \subseteq skewed'
        BY <1>1, <1>2, <1>8
      <4> QED
        BY <1>8, <1>9, <3>1, <4>1, <4>2
    <3>2. CASE x = s
      <4> DEFINE k == Len(ledger) + 1
      <4>1. k \in 1..Len(ledger') /\ ledger'[k].salt = x /\ k - 1 = Len(ledger)
        BY <1>2, <1>5, <1>8, <3>2
      <4>2. CASE Len(ledger) >= issuing.index
        BY <1>1, <3>2, <4>1, <4>2
      <4>3. CASE ~(Len(ledger) >= issuing.index)
        <5>1. issuing.index = k
          BY <1>1, <1>2, <4>3
        <5>2. Len(ledger) \in 0..Len(ledger)
          BY <1>2
        <5>3. SubSeq(ledger', 1, k - 1) = SubSeq(ledger, 1, k - 1)
          BY <1>8, <4>1, <5>2
        <5> QED
          BY <1>1, <1>5, <1>9, <3>2, <4>1, <5>1, <5>3
      <4> QED
        BY <4>2, <4>3
    <3> QED
      BY <1>2, <1>7, <3>1, <3>2
  <2> QED
    BY <1>9, <2>1, <2>2, <2>3 DEF SaltsOnLedger
<1>13. ASSUME NEW k \in 1..Len(ledger'), NEW n \in 1..Len(ledger'[k].root)
       PROVE  /\ ledger'[k].root[n].salt <= Len(salts')
              /\ \A p \in 1..Len(ledger') :
                    ledger'[p].salt = ledger'[k].root[n].salt /\ ledger'[k].root[n].salt # 0 => p < k
  <2> DEFINE x == ledger'[k].root[n].salt
  <2>1. x \in Nat
    <3>1. ledger'[k].root \in Seq(Rec)
      BY <1>8, EntriesAre
    <3>2. ledger'[k].root[n] \in Rec
      BY <3>1
    <3> QED
      BY <3>2 DEF Rec
  <2>2. x <= Len(salts)
    <3>1. CASE k \in 1..Len(ledger)
      BY <1>8, <3>1 DEF IssuerOK, RootsFollowSalts
    <3>2. CASE k = Len(ledger) + 1
      <4>1. ledger'[k].root = issuing.root /\ n \in 1..Len(issuing.root)
        BY <1>5, <1>8, <3>2
      <4>2. issuing.root \in roots
        BY <1>1, <4>1
      <4> QED
        BY <4>1, <4>2 DEF OriginOK, Released
    <3> QED
      BY <1>10, <3>1, <3>2
  <2>3. ASSUME NEW p \in 1..Len(ledger'), ledger'[p].salt = x, x # 0 PROVE p < k
    <3>1. p \in 1..Len(ledger) /\ ledger[p].salt = x
      BY <1>2, <1>5, <1>7, <1>8, <1>10, <2>1, <2>2, <2>3
    <3>2. CASE k \in 1..Len(ledger)
      BY <1>8, <2>3, <3>1, <3>2 DEF IssuerOK, RootsFollowSalts
    <3>3. CASE k = Len(ledger) + 1
      BY <1>2, <3>1, <3>3
    <3> QED
      BY <1>10, <3>2, <3>3
  <2> QED
    BY <1>2, <1>7, <1>9, <2>1, <2>2, <2>3
<1>14. RootsFollowSalts'
  BY <1>13 DEF RootsFollowSalts
<1>15. IssuingOK'
  BY <1>1 DEF IssuingOK
<1> QED
  BY <1>2, <1>7, <1>8, <1>9, <1>12, <1>14, <1>15 DEF IssuerOK

(* SaltBeacon.issue, first half: the state of the ledger as it is.         *)
LEMMA ReadKeeps ==
    ASSUME IssuerOK, NEW r, r \in roots \union {<<>>}, IssueRead(r)
    PROVE  IssuerOK'
<1>1. /\ issuing' = [pc |-> "read", index |-> Len(ledger) + 1, head |-> ledger, root |-> r]
      /\ UNCHANGED <<ledger, salts, skewed, roots>>
      /\ ledger \in Seq(Entry)
  BY DEF IssueRead, originVars, IssuerOK
<1>2. issuing'.index = Len(ledger) + 1 /\ issuing'.head = ledger /\ issuing'.root = r
  BY <1>1
<1>3. Len(ledger) \in Nat /\ SubSeq(ledger, 1, Len(ledger)) = ledger
  BY <1>1
<1>4. issuing'.index \in 1..(Len(ledger) + 1) /\ issuing'.index - 1 = Len(ledger)
  BY <1>2, <1>3
<1>5. IssuingOK'
  BY <1>1, <1>2, <1>3, <1>4 DEF IssuingOK
<1>6. SaltsOnLedger' /\ RootsFollowSalts'
  BY <1>1 DEF IssuerOK, SaltsOnLedger, RootsFollowSalts
<1> QED
  BY <1>1, <1>5, <1>6 DEF IssuerOK

---------------------------------------------------------------------------
(* A history with one more record, whose salt is the beacon held or none.  *)
LEMMA InferKeeps ==
    ASSUME OriginOK, Infer, salts \in Seq(Envelope)
    PROVE  OriginOK' /\ \A h \in Histories : \E g \in Histories' : IsPrefix(h, g)
<1>1. PICK s \in FreshBeacon : chain' = Append(chain, [life |-> life, salt |-> s])
  BY DEF Infer
<1>2. UNCHANGED <<life, past, roots, beacon, salts>>
  BY DEF Infer, issuerVars
<1> DEFINE e == [life |-> life, salt |-> s]
<1>3. Len(salts) \in Nat /\ s \in 0..Len(salts) /\ life \in Nat
  BY DEF FreshBeacon, OriginOK, NoSalt
<1>4. e \in Rec /\ e.salt = s
  BY <1>3 DEF Rec
<1>5. chain \in Seq(Rec) /\ \A n \in 1..Len(chain) : chain[n].salt <= Len(salts)
  BY DEF OriginOK, Released, Histories
<1> HIDE DEF e
<1>6. /\ chain' \in Seq(Rec) /\ Len(chain') = Len(chain) + 1 /\ Len(chain) \in Nat
      /\ \A i \in 1..Len(chain) : chain'[i] = chain[i]
      /\ chain'[Len(chain) + 1] = e
  BY <1>1, <1>4, <1>5, SubSeqKept DEF e
<1>7. Released(chain)'
  <2>1. \A n \in 1..Len(chain') : n \in 1..Len(chain) \/ n = Len(chain) + 1
    BY <1>6
  <2>2. \A n \in 1..Len(chain') : chain'[n].salt <= Len(salts)
    BY <1>3, <1>4, <1>5, <1>6, <2>1
  <2> QED
    BY <1>2, <1>6, <2>2 DEF Released
<1>8. \A c \in past \union roots : Released(c)'
  BY <1>2 DEF OriginOK, Released, Histories
<1>9. OriginOK'
  BY <1>2, <1>7, <1>8 DEF OriginOK, Histories
<1>10. ASSUME NEW h \in Histories PROVE \E g \in Histories' : IsPrefix(h, g)
  <2>1. CASE h = chain
    <3>1. IsPrefix(chain, chain')
      BY <1>5, <1>6, PrefixElements
    <3> QED
      BY <2>1, <3>1 DEF Histories
  <2>2. CASE h \in past
    <3>1. h \in Seq(Rec) /\ h \in Histories'
      BY <1>2, <2>2 DEF OriginOK, Released, Histories
    <3> QED
      BY <3>1, PrefixRefl
  <2> QED
    BY <2>1, <2>2 DEF Histories
<1> QED
  BY <1>9, <1>10

(* The root of the chain is signed.                                        *)
LEMMA SignKeeps ==
    ASSUME OriginOK, SignRoot
    PROVE  OriginOK' /\ Histories' = Histories
<1>1. /\ chain # <<>> /\ roots' = roots \union {chain}
      /\ UNCHANGED <<chain, life, past, beacon, salts>>
  BY DEF SignRoot, issuerVars
<1>2. Histories' = Histories /\ chain \in Histories
  BY <1>1 DEF Histories
<1>3. \A c : Released(c)' <=> Released(c)
  BY <1>1 DEF Released
<1> QED
  BY <1>1, <1>2, <1>3 DEF OriginOK

(* A released salt becomes the beacon.                                     *)
LEMMA BeaconKeeps ==
    ASSUME OriginOK, salts \in Seq(Envelope), NEW s \in DOMAIN salts, TakeBeacon(s)
    PROVE  OriginOK' /\ Histories' = Histories
<1>1. /\ beacon' = s /\ UNCHANGED <<chain, life, past, roots, salts>>
      /\ s \in 0..Len(salts)
  BY DEF TakeBeacon, issuerVars
<1>2. Histories' = Histories
  BY <1>1 DEF Histories
<1>3. \A c : Released(c)' <=> Released(c)
  BY <1>1 DEF Released
<1> QED
  BY <1>1, <1>2, <1>3 DEF OriginOK

(* The process starts over another log: what it had lived is past.         *)
LEMMA ResumeKeeps ==
    ASSUME OriginOK, salts \in Seq(Envelope), NEW c, Released(c), Resume(c)
    PROVE  OriginOK' /\ Histories \subseteq Histories'
<1>1. /\ past' = past \union {chain} /\ chain' = c /\ life' = life + 1 /\ beacon' = 0
      /\ UNCHANGED <<roots, salts>>
  BY DEF Resume, issuerVars, NoSalt
<1>2. Histories' = Histories \union {c}
  BY <1>1 DEF Histories
<1>3. \A d : Released(d)' <=> Released(d)
  BY <1>1 DEF Released
<1>4. 0 \in 0..Len(salts)
  OBVIOUS
<1> QED
  BY <1>1, <1>2, <1>3, <1>4 DEF OriginOK

(* A recovery begins with the first record of a root that was signed.      *)
LEMMA RecoveryKeeps ==
    ASSUME OriginOK, NEW r \in roots, StartRecovery(r)
    PROVE  OriginOK' /\ WritingOK' /\ Histories' = Histories
<1>1. /\ writing' = [log |-> <<r[1]>>, root |-> r]
      /\ UNCHANGED <<chain, life, past, roots, beacon, salts>>
  BY DEF StartRecovery, issuerVars
<1>2. Histories' = Histories
  BY <1>1 DEF Histories
<1>3. \A d : Released(d)' <=> Released(d)
  BY <1>1 DEF Released
<1>4. OriginOK'
  BY <1>1, <1>2, <1>3 DEF OriginOK
<1>5. Released(r) /\ r \in Seq(Rec) /\ r # <<>>
  BY DEF OriginOK, Released
<1>6. Len(r) \in Nat /\ 1 \in 1..Len(r)
  BY <1>5
<1>7. <<r[1]>> = SubSeq(r, 1, 1) /\ Len(<<r[1]>>) = 1 /\ <<r[1]>>[1] = r[1]
  BY <1>5, <1>6
<1>8. Released(<<r[1]>>)
  <2>1. <<r[1]>> \in Seq(Rec)
    BY <1>5, <1>6
  <2>2. \A n \in 1..Len(<<r[1]>>) : n = 1
    BY <1>7
  <2> QED
    BY <1>5, <1>6, <1>7, <2>1, <2>2 DEF Released
<1>9. writing'.log = <<r[1]>> /\ writing'.root = r
  BY <1>1
<1>10. WritingOK'
  BY <1>1, <1>3, <1>5, <1>6, <1>7, <1>8, <1>9 DEF WritingOK
<1> QED
  BY <1>2, <1>4, <1>10

(* write_recovered_log goes on with the next record of it.                 *)
LEMMA WriteKeeps ==
    ASSUME WritingOK, WriteRecord
    PROVE  WritingOK'
<1>1. /\ writing = [log |-> writing.log, root |-> writing.root] /\ writing.log # writing.root
      /\ Released(writing.log) /\ Released(writing.root)
      /\ writing.log = SubSeq(writing.root, 1, Len(writing.log))
      /\ Len(writing.log) <= Len(writing.root)
      /\ writing' = [writing EXCEPT !.log = SubSeq(writing.root, 1, Len(@) + 1)]
      /\ salts' = salts
  BY DEF WritingOK, WriteRecord, entangleVars
<1>2. PICK w, r : w = writing.log /\ r = writing.root
  OBVIOUS
<1>3. PICK m : m = Len(w) + 1
  OBVIOUS
<1>4. PICK v : v = SubSeq(r, 1, m)
  OBVIOUS
<1>5. writing' = [log |-> v, root |-> r]
  BY <1>1, <1>2, <1>3, <1>4
<1>6. r \in Seq(Rec) /\ w \in Seq(Rec) /\ \A n \in 1..Len(r) : r[n].salt <= Len(salts)
  BY <1>1, <1>2 DEF Released
<1>7. Len(w) \in Nat /\ Len(r) \in Nat /\ Len(w) # Len(r)
  <2>1. SubSeq(r, 1, Len(r)) = r /\ Len(w) \in Nat /\ Len(r) \in Nat
    BY <1>6
  <2>2. w = SubSeq(r, 1, Len(w)) /\ w # r
    BY <1>1, <1>2
  <2> QED
    BY <2>1, <2>2
<1>8. m \in 0..Len(r)
  BY <1>1, <1>2, <1>3, <1>7
<1>9. v \in Seq(Rec) /\ Len(v) = m /\ \A i \in 1..m : v[i] = r[i]
  BY <1>4, <1>6, <1>8, FrontOf
<1>10. writing'.log = v /\ writing'.root = r /\ v = SubSeq(r, 1, Len(v)) /\ Len(v) <= Len(r)
  BY <1>4, <1>5, <1>7, <1>8, <1>9
<1>11. Released(v)' /\ Released(r)'
  <2>1. \A n \in 1..Len(v) : v[n].salt <= Len(salts)
    BY <1>6, <1>7, <1>8, <1>9
  <2> QED
    BY <1>1, <1>6, <1>9, <2>1 DEF Released
<1> QED
  BY <1>5, <1>10, <1>11 DEF WritingOK

---------------------------------------------------------------------------
(* A set of numbers that is not empty has a least.                         *)
LEMMA LeastExists ==
    ASSUME NEW S, S \subseteq Nat, S # {}
    PROVE  \E i \in S : \A j \in S : i <= j
<1>1. \E i \in S : \A j \in S : ~(<<j, i>> \in OpToRel(<, Nat))
  BY NatLessThanWellFounded, WFMin, Zenon
<1>2. PICK i \in S : \A j \in S : ~(<<j, i>> \in OpToRel(<, Nat))
  BY <1>1
<1>3. \A j \in S : ~(j < i)
  BY <1>2 DEF OpToRel
<1>4. \A j \in S : i <= j
  BY <1>3
<1> QED
  BY <1>2, <1>4, Zenon

(* The records of a segment are fronts of the history it was cut from.     *)
LEMMA SegmentKnown ==
    ASSUME OriginOK, NEW h \in Histories, NEW start \in 0..MaxChain, NEW end \in 0..MaxChain,
           NEW p \in Segment(h, start, end)
    PROVE  Known(p)
<1>1. PICK n \in (start + 1)..end : p = SubSeq(h, 1, n) /\ end <= Len(h)
  BY DEF Segment
<1>2. h \in Seq(Rec)
  BY DEF OriginOK, Released
<1>3. start \in Int /\ start >= 0 /\ end \in Int /\ Len(h) \in Nat /\ n \in Int
  BY <1>2
<1>4. n \in 0..Len(h)
  BY <1>1, <1>3
<1>5. p \in Seq(Rec) /\ IsPrefix(p, h)
  BY <1>1, <1>2, <1>4, FrontOf
<1> QED
  BY <1>5 DEF Known

(* accept picks a contradiction with the lowest index.                     *)
LEMMA FirstIsOne ==
    ASSUME NEW P, P # {}, \A x \in P : Len(x[1]) \in Nat
    PROVE  First(P) \in P
<1> DEFINE L == {Len(x[1]) : x \in P}
<1>1. L \subseteq Nat /\ L # {}
  OBVIOUS
<1>2. \E i \in L : \A j \in L : i <= j
  <2> HIDE DEF L
  <2> QED
    BY <1>1, LeastExists
<1>3. \E x \in P : \A y \in P : Len(x[1]) <= Len(y[1])
  BY <1>2
<1> QED
  BY <1>3 DEF First

(* SegmentStore.accept keeps what the peer knows true, stored, refused or  *)
(* not persisted.                                                          *)
LEMMA AcceptKeeps ==
    ASSUME PeerOK, NEW env, \A p \in env : Known(p),
           AcceptDivergence(env) \/ AcceptStored(env) \/ AcceptUnpersisted(env)
    PROVE  PeerOK'
<1>1. UNCHANGED entangleVars
  BY DEF AcceptDivergence, AcceptStored, AcceptUnpersisted
<1>2. Histories' = Histories
  BY <1>1 DEF entangleVars, Histories
<1>3. \A p : Known(p)' <=> Known(p)
  BY <1>2 DEF Known
<1>4. \A e : Contradicts(e)' <=> Contradicts(e)
  BY <1>3 DEF Contradicts
<1>5. CASE AcceptDivergence(env)
  <2> DEFINE e == First(Conflicts(env))
  <2>1. /\ Conflicts(env) # {} /\ evidence' = evidence \union {e}
        /\ disk' = [disk EXCEPT !.ev = @ \union {e}]
        /\ UNCHANGED <<held, failed>>
    BY <1>5 DEF AcceptDivergence
  <2>2. \A x \in Conflicts(env) : Contradicts(x) /\ Len(x[1]) \in Nat
    <3>1. ASSUME NEW x \in Conflicts(env) PROVE Contradicts(x) /\ Len(x[1]) \in Nat
      <4>1. x[1] \in held /\ x[2] \in env /\ Len(x[1]) = Len(x[2]) /\ x[1] # x[2]
        BY DEF Conflicts
      <4>2. Known(x[1]) /\ Known(x[2])
        BY <4>1 DEF PeerOK
      <4>3. x[1] \in Seq(Rec)
        BY <4>2 DEF Known
      <4> QED
        BY <4>1, <4>2, <4>3 DEF Contradicts
    <3> QED
      BY <3>1
  <2>3. e \in Conflicts(env)
    BY <2>1, <2>2, FirstIsOne
  <2> HIDE DEF e
  <2>4. disk' = [recs |-> disk.recs, ev |-> disk.ev \union {e}]
    BY <2>1 DEF PeerOK
  <2>5. disk'.recs = disk.recs /\ disk'.ev = disk.ev \union {e}
    BY <2>4
  <2>6. Contradicts(e)
    BY <2>2, <2>3
  <2> QED
    BY <1>3, <1>4, <2>1, <2>4, <2>5, <2>6 DEF PeerOK
<1>6. ASSUME AcceptStored(env) \/ AcceptUnpersisted(env)
      PROVE  held' \subseteq held \union env /\ evidence' = evidence
  BY <1>6 DEF AcceptStored, AcceptUnpersisted, Hold
<1>7. CASE AcceptStored(env)
  <2>1. disk' = [disk EXCEPT !.recs = @ \union env] /\ failed' = failed
    BY <1>7 DEF AcceptStored, Persisted
  <2>2. disk' = [recs |-> disk.recs \union env, ev |-> disk.ev]
    BY <2>1 DEF PeerOK
  <2>3. disk'.recs = disk.recs \union env /\ disk'.ev = disk.ev
    BY <2>2
  <2> QED
    BY <1>3, <1>4, <1>6, <1>7, <2>1, <2>2, <2>3 DEF PeerOK
<1>8. CASE AcceptUnpersisted(env)
  <2>1. failed = {} /\ failed' = env \ held /\ disk' = disk
    BY <1>8 DEF AcceptUnpersisted
  <2> QED
    BY <1>3, <1>4, <1>6, <1>8, <2>1 DEF PeerOK
<1> QED
  BY <1>5, <1>7, <1>8

(* A restart brings back what is on disk.                                  *)
LEMMA RestartKeeps ==
    ASSUME PeerOK, RestartPeer
    PROVE  PeerOK'
<1>1. /\ held' = disk.recs /\ evidence' = disk.ev /\ UNCHANGED <<disk, failed>>
      /\ UNCHANGED <<chain, past>>
  BY DEF RestartPeer, entangleVars
<1>2. \A e : (Contradicts(e)' <=> Contradicts(e)) /\ (Known(e)' <=> Known(e))
  BY <1>1 DEF Contradicts, Known, Histories
<1> QED
  BY <1>1, <1>2 DEF PeerOK

---------------------------------------------------------------------------
(* A step of the issuer leaves the origin and the peer alone.              *)
LEMMA IssuerStep ==
    ASSUME HistInv, IssuerOK', UNCHANGED <<originVars, segmentVars>>, Len(salts) <= Len(salts')
    PROVE  HistInv'
<1>1. salts \in Seq(Envelope) /\ salts' \in Seq(Envelope)
  BY DEF HistInv, IssuerOK
<1>2. OriginOK' /\ WritingOK'
  BY <1>1, OriginKept, WritingKept DEF HistInv, segmentVars
<1>3. Histories' = Histories
  BY DEF originVars, Histories
<1>4. PeerOK'
  <2>1. \A c \in Histories : c \in Seq(Rec)
    BY DEF HistInv, OriginOK, Released
  <2>2. \A h \in Histories : \E g \in Histories' : IsPrefix(h, g)
    BY <1>3, <2>1, PrefixRefl
  <2> QED
    BY <1>3, <2>1, <2>2, PeerKept DEF HistInv, segmentVars
<1> QED
  BY <1>2, <1>4 DEF HistInv

(* A step of the origin leaves the issuer and the peer alone, and every    *)
(* history goes on in one.                                                 *)
LEMMA OriginStep ==
    ASSUME HistInv, OriginOK', WritingOK', UNCHANGED issuerVars, roots \subseteq roots',
           UNCHANGED <<held, evidence, disk, failed>>,
           \A h \in Histories : \E g \in Histories' : IsPrefix(h, g)
    PROVE  HistInv'
<1>1. \A c \in Histories : c \in Seq(Rec)
  BY DEF HistInv, OriginOK, Released
<1>2. \A c \in Histories' : c \in Seq(Rec)
  BY DEF OriginOK, Released
<1>3. PeerOK'
  BY <1>1, <1>2, PeerKept DEF HistInv
<1> QED
  BY <1>3, IssuerKept DEF HistInv

(* Histories that stay go on in themselves.                                *)
LEMMA StayGoOn ==
    ASSUME OriginOK, Histories \subseteq Histories'
    PROVE  \A h \in Histories : \E g \in Histories' : IsPrefix(h, g)
<1>1. \A c \in Histories : c \in Seq(Rec)
  BY DEF OriginOK, Released
<1> QED
  BY <1>1, PrefixRefl

(* Every step between origin and issuer keeps the invariant.               *)
LEMMA EntangleKeeps ==
    ASSUME HistInv, EntangleNext, UNCHANGED segmentVars
    PROVE  HistInv'
<1>1. /\ IssuerOK /\ OriginOK /\ WritingOK /\ salts \in Seq(Envelope) /\ Len(salts) \in Nat
      /\ writing' = writing /\ UNCHANGED <<held, evidence, disk, failed>>
      /\ \A r \in roots : r \in Seq(Rec)
  BY DEF HistInv, IssuerOK, OriginOK, Released, segmentVars
<1>2. CASE \E r \in roots : ReceiveRoot(r)
  <2>1. PICK r \in roots : ReceiveRoot(r)
    BY <1>2
  <2> DEFINE e == [kind |-> "PEER_ROOT", salt |-> NoSalt, root |-> r]
  <2>2. ledger' = Append(ledger, e) /\ UNCHANGED <<originVars, issuing, salts, skewed>>
    BY <2>1 DEF ReceiveRoot
  <2>3. e \in Entry /\ e.kind # "SALT_ISSUE" /\ e.salt = 0 /\ e.root \in roots \union {<<>>}
    BY <1>1 DEF Entry, NoSalt
  <2> HIDE DEF e
  <2>4. IssuerOK'
    BY <1>1, <2>2, <2>3, RecordKeeps DEF originVars
  <2> QED
    BY <1>1, <2>2, <2>4, IssuerStep
<1>3. CASE OtherAppend
  <2> DEFINE e == [kind |-> "OTHER", salt |-> NoSalt, root |-> <<>>]
  <2>1. ledger' = Append(ledger, e) /\ UNCHANGED <<originVars, issuing, salts, skewed>>
    BY <1>3 DEF OtherAppend
  <2>2. e \in Entry /\ e.kind # "SALT_ISSUE" /\ e.salt = 0 /\ e.root \in roots \union {<<>>}
    BY DEF Entry, NoSalt
  <2> HIDE DEF e
  <2>3. IssuerOK'
    BY <1>1, <2>1, <2>2, RecordKeeps DEF originVars
  <2> QED
    BY <1>1, <2>1, <2>3, IssuerStep
<1>4. CASE \E r \in roots \union {c \in {chain} : c = <<>>} : IssueRead(r)
  <2>1. PICK r \in roots \union {<<>>} : IssueRead(r)
    BY <1>4
  <2>2. IssuerOK' /\ UNCHANGED <<originVars, salts>>
    BY <1>1, <2>1, ReadKeeps DEF IssueRead
  <2> QED
    BY <1>1, <2>2, IssuerStep
<1>5. CASE IssueAppend
  <2>1. UNCHANGED originVars
    BY <1>5 DEF IssueAppend
  <2> QED
    BY <1>1, <1>5, <2>1, IssueKeeps, IssuerStep
<1>6. CASE SignRoot
  <2>1. UNCHANGED issuerVars /\ roots \subseteq roots'
    BY <1>6 DEF SignRoot
  <2>2. OriginOK' /\ Histories' = Histories
    BY <1>1, <1>6, SignKeeps
  <2>3. WritingOK'
    BY <1>1, <2>1, WritingKept DEF issuerVars
  <2> QED
    BY <1>1, <2>1, <2>2, <2>3, StayGoOn, OriginStep
<1>7. CASE \E s \in DOMAIN salts : TakeBeacon(s)
  <2>1. PICK s \in DOMAIN salts : TakeBeacon(s)
    BY <1>7
  <2>2. UNCHANGED issuerVars /\ roots \subseteq roots'
    BY <2>1 DEF TakeBeacon
  <2>3. OriginOK' /\ Histories' = Histories
    BY <1>1, <2>1, BeaconKeeps
  <2>4. WritingOK'
    BY <1>1, <2>2, WritingKept DEF issuerVars
  <2> QED
    BY <1>1, <2>2, <2>3, <2>4, StayGoOn, OriginStep
<1>8. CASE Infer
  <2>1. UNCHANGED issuerVars /\ roots \subseteq roots'
    BY <1>8 DEF Infer
  <2>2. WritingOK'
    BY <1>1, <2>1, WritingKept DEF issuerVars
  <2> QED
    BY <1>1, <1>8, <2>1, <2>2, InferKeeps, OriginStep
<1> QED
  BY <1>2, <1>3, <1>4, <1>5, <1>6, <1>7, <1>8 DEF EntangleNext

(* Nothing happens.                                                        *)
LEMMA HistStill == ASSUME HistInv, UNCHANGED historyVars PROVE HistInv'
<1>1. UNCHANGED <<originVars, segmentVars>> /\ UNCHANGED issuerVars /\ salts' = salts
  BY DEF historyVars, entangleVars, originVars, issuerVars
<1>2. IssuerOK'
  BY <1>1, IssuerKept DEF HistInv, originVars
<1>3. Len(salts) <= Len(salts')
  BY <1>1 DEF HistInv, IssuerOK
<1> QED
  BY <1>1, <1>2, <1>3, IssuerStep

(* A step of the peer leaves the origin and the issuer alone.              *)
LEMMA PeerStep ==
    ASSUME HistInv, PeerOK', UNCHANGED <<entangleVars, writing>>
    PROVE  HistInv'
<1>1. UNCHANGED originVars /\ UNCHANGED issuerVars /\ salts' = salts
  BY DEF entangleVars, originVars, issuerVars
<1>2. salts \in Seq(Envelope) /\ Len(salts) <= Len(salts')
  BY <1>1 DEF HistInv, IssuerOK
<1>3. IssuerOK'
  BY <1>1, IssuerKept DEF HistInv, originVars
<1>4. OriginOK' /\ WritingOK'
  BY <1>1, <1>2, OriginKept, WritingKept DEF HistInv
<1> QED
  BY <1>3, <1>4 DEF HistInv

(* Every step keeps the invariant.                                         *)
LEMMA HistNext ==
    ASSUME HistInv, [HistoryNext]_historyVars
    PROVE  HistInv'
<1>1. /\ IssuerOK /\ OriginOK /\ WritingOK /\ PeerOK /\ salts \in Seq(Envelope)
      /\ Len(salts) \in Nat
  BY DEF HistInv, IssuerOK
<1>2. CASE EntangleNext /\ UNCHANGED segmentVars
  BY <1>2, EntangleKeeps
<1>3. CASE \E h \in Histories, start, end \in 0..MaxChain :
              LET env == Segment(h, start, end)
              IN  \/ AcceptDivergence(env)
                  \/ AcceptStored(env)
                  \/ AcceptUnpersisted(env)
  <2>1. PICK h \in Histories, start \in 0..MaxChain, end \in 0..MaxChain :
                \/ AcceptDivergence(Segment(h, start, end))
                \/ AcceptStored(Segment(h, start, end))
                \/ AcceptUnpersisted(Segment(h, start, end))
    BY <1>3
  <2>2. PICK env : env = Segment(h, start, end)
    OBVIOUS
  <2>3. \A p \in env : Known(p)
    BY <1>1, <2>2, SegmentKnown
  <2>4. AcceptDivergence(env) \/ AcceptStored(env) \/ AcceptUnpersisted(env)
    BY <2>1, <2>2
  <2>5. PeerOK'
    BY <1>1, <2>3, <2>4, AcceptKeeps
  <2>6. UNCHANGED <<entangleVars, writing>>
    BY <2>4 DEF AcceptDivergence, AcceptStored, AcceptUnpersisted
  <2> QED
    BY <2>5, <2>6, PeerStep
<1>4. CASE RestartPeer
  <2>1. PeerOK'
    BY <1>1, <1>4, RestartKeeps
  <2>2. UNCHANGED <<entangleVars, writing>>
    BY <1>4 DEF RestartPeer
  <2> QED
    BY <2>1, <2>2, PeerStep
<1>5. CASE \E r \in roots : StartRecovery(r)
  <2>1. PICK r \in roots : StartRecovery(r)
    BY <1>5
  <2>2. /\ UNCHANGED issuerVars /\ roots \subseteq roots'
        /\ UNCHANGED <<held, evidence, disk, failed>>
    BY <2>1 DEF StartRecovery
  <2>3. OriginOK' /\ WritingOK' /\ Histories' = Histories
    BY <1>1, <2>1, RecoveryKeeps
  <2> QED
    BY <1>1, <2>2, <2>3, StayGoOn, OriginStep
<1>6. CASE WriteRecord
  <2>1. /\ UNCHANGED issuerVars /\ UNCHANGED originVars
        /\ UNCHANGED <<held, evidence, disk, failed>>
    BY <1>6 DEF WriteRecord, entangleVars, issuerVars, originVars
  <2>2. OriginOK' /\ roots' = roots /\ Histories' = Histories
    BY <1>1, <2>1, OriginKept DEF issuerVars, originVars, Histories
  <2>3. WritingOK'
    BY <1>1, <1>6, WriteKeeps
  <2> QED
    BY <1>1, <2>1, <2>2, <2>3, StayGoOn, OriginStep
<1>7. CASE BootRecovered
  <2>1. /\ writing # Idle /\ Resume(writing.log) /\ writing' = Idle
        /\ UNCHANGED <<held, evidence, disk, failed>>
    BY <1>7 DEF BootRecovered
  <2>2. Released(writing.log)
    BY <1>1, <2>1 DEF WritingOK
  <2>3. OriginOK' /\ Histories \subseteq Histories'
    BY <1>1, <2>1, <2>2, ResumeKeeps
  <2>4. UNCHANGED issuerVars /\ roots' = roots
    BY <2>1 DEF Resume
  <2>5. WritingOK'
    BY <2>1 DEF WritingOK
  <2> QED
    BY <1>1, <2>1, <2>3, <2>4, <2>5, StayGoOn, OriginStep
<1>8. CASE UNCHANGED historyVars
  BY <1>8, HistStill
<1> QED
  BY <1>2, <1>3, <1>4, <1>5, <1>6, <1>7, <1>8 DEF HistoryNext

(* Nothing is signed, witnessed or held at first.                          *)
LEMMA HistInit == ASSUME HistoryInit PROVE HistInv
<1>1. /\ chain = <<>> /\ life = 0 /\ past = {} /\ roots = {} /\ beacon = 0
      /\ ledger = <<>> /\ issuing = Idle /\ salts = <<>>
      /\ held = {} /\ evidence = {} /\ disk = [recs |-> {}, ev |-> {}] /\ writing = Idle
  BY DEF HistoryInit, EntangleInit, NoSalt
<1>2. Len(ledger) = 0 /\ Len(salts) = 0 /\ Len(chain) = 0
  BY <1>1
<1>3. IssuerOK
  BY <1>1, <1>2 DEF IssuerOK, SaltsOnLedger, IssuingOK, RootsFollowSalts
<1>4. OriginOK
  BY <1>1, <1>2 DEF OriginOK, Released, Histories
<1>5. WritingOK /\ PeerOK
  BY <1>1 DEF WritingOK, PeerOK
<1> QED
  BY <1>3, <1>4, <1>5 DEF HistInv

---------------------------------------------------------------------------
(* The smaller of two lengths.                                             *)
LEMMA MinOfTwo ==
    ASSUME NEW a \in Nat, NEW b \in Nat
    PROVE  Min({a, b}) \in {a, b} /\ Min({a, b}) <= a /\ Min({a, b}) <= b
<1>1. \E x \in {a, b} : \A y \in {a, b} : x <= y
  <2>1. CASE a <= b
    BY <2>1
  <2>2. CASE b <= a
    BY <2>2
  <2> QED
    BY <2>1, <2>2
<1> QED
  BY <1>1 DEF Min

(* find_issuer_checkpoint: the first record that names the root, if any.   *)
LEMMA CheckpointIs ==
    ASSUME ledger \in Seq(Entry), NEW r
    PROVE  /\ Checkpoint(r) # 0 =>
                 Checkpoint(r) \in 1..Len(ledger) /\ ledger[Checkpoint(r)].root = r
           /\ r # <<>> => \A n \in 1..Len(ledger) :
                 ledger[n].root = r => Checkpoint(r) # 0 /\ Checkpoint(r) <= n
<1> DEFINE at == {n \in DOMAIN ledger : ledger[n].root = r}
<1>1. DOMAIN ledger = 1..Len(ledger) /\ Len(ledger) \in Nat
  OBVIOUS
<1>2. CASE r = <<>> \/ at = {}
  <2>1. Checkpoint(r) = 0
    BY <1>2 DEF Checkpoint
  <2> QED
    BY <1>1, <1>2, <2>1
<1>3. CASE r # <<>> /\ at # {}
  <2>1. Checkpoint(r) = Min(at) /\ at \subseteq Nat
    BY <1>1, <1>3 DEF Checkpoint
  <2>2. \E i \in at : \A j \in at : i <= j
    <3> HIDE DEF at
    <3> QED
      BY <1>3, <2>1, LeastExists
  <2>3. Min(at) \in at /\ \A j \in at : Min(at) <= j
    <3> HIDE DEF at
    <3> QED
      BY <2>2 DEF Min
  <2>4. /\ Checkpoint(r) \in 1..Len(ledger) /\ ledger[Checkpoint(r)].root = r
        /\ \A n \in 1..Len(ledger) : ledger[n].root = r => Checkpoint(r) <= n
    <3>1. PICK c : c = Checkpoint(r)
      OBVIOUS
    <3>2. c \in at /\ \A j \in at : c <= j
      <4> HIDE DEF at
      <4> QED
        BY <2>1, <2>3, <3>1
    <3> QED
      BY <1>1, <3>1, <3>2
  <2> QED
    BY <1>1, <2>4
<1> QED
  BY <1>2, <1>3

(* The salt of a record of a history, and where it was issued.             *)
LEMMA SaltOfRecord ==
    ASSUME HistInv, NEW h \in Histories, NEW n \in 1..Len(h), h[n].salt # NoSalt
    PROVE  /\ h[n].salt \in 1..Len(salts)
           /\ \E k \in 1..Len(ledger) :
                 /\ ledger[k].kind = "SALT_ISSUE" /\ ledger[k].salt = h[n].salt
                 /\ \/ h[n].salt \in skewed
                    \/ salts[h[n].salt].index = k /\ SaltVerifies(h[n].salt)
<1> DEFINE s == h[n].salt
<1>1. h \in Seq(Rec) /\ s <= Len(salts)
  BY DEF HistInv, OriginOK, Released
<1>2. h[n] \in Rec
  BY <1>1
<1>3. s \in Nat /\ s # 0
  BY <1>2 DEF Rec, NoSalt
<1> HIDE DEF s
<1>4. s \in 1..Len(salts)
  <2>1. Len(salts) \in Nat
    BY DEF HistInv, IssuerOK
  <2> QED
    BY <1>1, <1>3, <2>1
<1>5. PICK k \in 1..Len(ledger) :
         /\ ledger[k].salt = s
         /\ s \in skewed \/ (salts[s].index = k /\ salts[s].head = SubSeq(ledger, 1, k - 1))
  BY <1>4 DEF HistInv, IssuerOK, SaltsOnLedger
<1>6. ledger[k].kind = "SALT_ISSUE"
  BY <1>3, <1>5 DEF HistInv, IssuerOK, SaltsOnLedger
<1>7. salts[s].index = k /\ salts[s].head = SubSeq(ledger, 1, k - 1) => SaltVerifies(s)
  <2>1. k <= Len(ledger)
    BY DEF HistInv, IssuerOK
  <2> QED
    BY <1>5, <1>6, <2>1 DEF SaltVerifies
<1> QED
  BY <1>4, <1>5, <1>6, <1>7 DEF s

(* A salt that verifies is at its index, and nowhere else.                 *)
LEMMA VerifiedPlace ==
    ASSUME HistInv, NEW s \in 1..Len(salts), SaltVerifies(s)
    PROVE  /\ salts[s].index \in 1..Len(ledger) /\ ledger[salts[s].index].salt = s
           /\ \A p \in 1..Len(ledger) : ledger[p].salt = s => p = salts[s].index
<1>1. ledger \in Seq(Entry) /\ salts \in Seq(Envelope) /\ Len(ledger) \in Nat /\ Len(salts) \in Nat
  BY DEF HistInv, IssuerOK
<1>2. salts[s] \in Envelope
  BY <1>1
<1>3. salts[s].index \in Nat \ {0} /\ salts[s].index <= Len(ledger) /\ ledger[salts[s].index].salt = s
  BY <1>2 DEF Envelope, SaltVerifies
<1>4. salts[s].index \in 1..Len(ledger) /\ s # 0
  BY <1>1, <1>3
<1> QED
  BY <1>3, <1>4 DEF HistInv, IssuerOK, SaltsOnLedger

(* A history that extends the root holds no salt issued after the root was *)
(* witnessed among the records below it.                                   *)
LEMMA ExtensionClean ==
    ASSUME HistInv, NEW r \in roots, NEW h \in Histories, IsPrefix(r, h)
    PROVE  Proven(h, r) = {}
<1> SUFFICES ASSUME NEW x \in Proven(h, r) PROVE FALSE
  OBVIOUS
<1>1. h \in Seq(Rec) /\ r \in Seq(Rec) /\ ledger \in Seq(Entry) /\ salts \in Seq(Envelope)
  BY DEF HistInv, OriginOK, Released, IssuerOK
<1>2. Len(h) \in Nat /\ Len(r) \in Nat /\ Len(ledger) \in Nat
  BY <1>1
<1>3. PICK n \in BelowAgreed(h, r) :
         h[n].salt # NoSalt /\ SaltVerifies(h[n].salt) /\ x = salts[h[n].salt].index
  BY DEF Proven, Embedded
<1>4. n \in 1..Len(h) /\ n \in 1..Len(r)
  BY <1>2, MinOfTwo DEF BelowAgreed
<1>5. PICK s : s = h[n].salt
  OBVIOUS
<1>6. s \in 1..Len(salts) /\ s # 0
  BY <1>3, <1>4, <1>5, SaltOfRecord DEF NoSalt
<1>7. r[n].salt = s
  BY <1>1, <1>4, <1>5, PrefixElements
<1>8. x \in 1..Len(ledger) /\ ledger[x].salt = s
  BY <1>3, <1>5, <1>6, VerifiedPlace
<1>9. PICK k : k = Checkpoint(r)
  OBVIOUS
<1>10. k > 0 /\ x > k
  BY <1>9 DEF Proven
<1>11. k \in 1..Len(ledger) /\ ledger[k].root = r
  <2>1. k # 0
    BY <1>10
  <2> QED
    BY <1>1, <1>9, <2>1, CheckpointIs
<1>12. x < k
  BY <1>4, <1>6, <1>7, <1>8, <1>11 DEF HistInv, IssuerOK, RootsFollowSalts
<1> QED
  BY <1>2, <1>8, <1>10, <1>11, <1>12

(* A salt issued after the root was witnessed, in a record below it, is    *)
(* proof against the history it is in.                                     *)
LEMMA LateSaltProves ==
    ASSUME HistInv, NEW r \in roots, NEW n \in 1..Min({Len(r), Len(chain)}),
           NEW s, s = chain[n].salt, s # NoSalt, s \notin skewed,
           NEW i \in DOMAIN ledger, NEW j \in DOMAIN ledger,
           i < j, ledger[i].root = r, ledger[j].salt = s
    PROVE  Proven(chain, r) # {}
<1>1. /\ chain \in Seq(Rec) /\ r \in Seq(Rec) /\ r # <<>> /\ ledger \in Seq(Entry)
      /\ salts \in Seq(Envelope)
  BY DEF HistInv, OriginOK, Released, Histories, IssuerOK
<1>2. /\ Len(chain) \in Nat /\ Len(r) \in Nat /\ Len(ledger) \in Nat
      /\ i \in 1..Len(ledger) /\ j \in 1..Len(ledger)
  BY <1>1
<1>3. n \in 1..Len(chain) /\ n \in BelowAgreed(chain, r)
  <2>1. {Len(r), Len(chain)} = {Len(chain), Len(r)}
    OBVIOUS
  <2> QED
    BY <1>2, <2>1, MinOfTwo DEF BelowAgreed
<1>4. chain \in Histories
  BY DEF Histories
<1>5. s \in 1..Len(salts) /\ SaltVerifies(s)
  BY <1>3, <1>4, SaltOfRecord
<1>6. salts[s].index = j
  BY <1>2, <1>5, VerifiedPlace
<1>7. Checkpoint(r) # 0 /\ Checkpoint(r) <= i /\ Checkpoint(r) \in 1..Len(ledger)
  BY <1>1, <1>2, CheckpointIs
<1>8. Checkpoint(r) > 0 /\ j > Checkpoint(r)
  BY <1>2, <1>7
<1>9. j \in Embedded(chain, r)
  BY <1>3, <1>5, <1>6 DEF Embedded
<1>10. j \in Proven(chain, r)
  BY <1>8, <1>9 DEF Proven
<1> QED
  BY <1>10

(* What the invariant says of judge_divergence.                            *)
LEMMA JudgeFollows == HistInv => JudgeConvictsForks
<1> SUFFICES ASSUME HistInv PROVE JudgeConvictsForks
  OBVIOUS
<1>1. ExtensionNeverConvicted
  BY ExtensionClean DEF ExtensionNeverConvicted
<1>2. LateSaltConvicts
  <2> SUFFICES ASSUME NEW r \in roots, NEW g \in past, IsPrefix(r, g),
                      NEW n \in 1..Min({Len(r), Len(chain)}),
                      chain[n].salt # NoSalt, chain[n].salt \notin skewed,
                      NEW i \in DOMAIN ledger, NEW j \in DOMAIN ledger,
                      i < j, ledger[i].root = r, ledger[j].salt = chain[n].salt
               PROVE  JudgeDivergence(g, chain, r) = [side |-> "b", confidence |-> "cryptographic"]
    BY DEF LateSaltConvicts
  <2>1. Proven(g, r) = {}
    BY ExtensionClean DEF Histories
  <2>2. Proven(chain, r) # {}
    BY LateSaltProves
  <2> QED
    BY <2>1, <2>2 DEF JudgeDivergence
<1>3. EmbeddedSaltProvable
  <2> SUFFICES ASSUME NEW h \in Histories, NEW n \in DOMAIN h, h[n].salt # NoSalt
               PROVE  /\ SaltVerifies(h[n].salt) \/ h[n].salt \in skewed
                      /\ IssuanceInclusion(h[n].salt, Len(ledger))
    BY DEF EmbeddedSaltProvable
  <2>1. n \in 1..Len(h)
    BY DEF HistInv, OriginOK, Released
  <2> QED
    BY <2>1, SaltOfRecord DEF IssuanceInclusion
<1> QED
  BY <1>1, <1>2, <1>3 DEF JudgeConvictsForks

(* What the invariant says of the peer's evidence.                         *)
LEMMA EvidenceFollows == HistInv => EvidenceIsFork
<1> SUFFICES ASSUME HistInv PROVE EvidenceIsFork
  OBVIOUS
<1>1. ASSUME NEW e \in evidence
      PROVE  /\ Len(e[1]) = Len(e[2])
             /\ \E g, h \in Histories : g # h /\ IsPrefix(e[1], g) /\ IsPrefix(e[2], h)
  <2>1. Len(e[1]) = Len(e[2]) /\ e[1] # e[2] /\ Known(e[1]) /\ Known(e[2])
    BY DEF HistInv, PeerOK, Contradicts
  <2>2. PICK g \in Histories, h \in Histories : IsPrefix(e[1], g) /\ IsPrefix(e[2], h)
    BY <2>1 DEF Known
  <2>3. PICK p, q : p = e[1] /\ q = e[2]
    OBVIOUS
  <2>4. p \in Seq(Rec) /\ q \in Seq(Rec) /\ g \in Seq(Rec)
    BY <2>1, <2>3 DEF Known, HistInv, OriginOK, Released
  <2>5. g # h
    <3> SUFFICES ASSUME g = h PROVE FALSE
      OBVIOUS
    <3>1. \A i \in 1..Len(p) : p[i] = g[i] /\ q[i] = g[i]
      BY <2>1, <2>2, <2>3, <2>4, PrefixElements
    <3>2. p = q
      BY <2>1, <2>3, <2>4, <3>1
    <3> QED
      BY <2>1, <2>3, <3>2
  <2> QED
    BY <2>1, <2>2, <2>5
<1> QED
  BY <1>1 DEF EvidenceIsFork, HistInv, PeerOK

(* judge_divergence (core/entanglement.py) never convicts a history that   *)
(* extends the agreed root, always convicts one that a late salt gives     *)
(* away, and the salts it rests on can be proved issued: for any number of *)
(* records, lives of the origin, salts and appends that slip under them.   *)
THEOREM ForksAreConvicted == HistorySpec => []JudgeConvictsForks
<1>1. HistoryInit => HistInv
  BY HistInit
<1>2. HistInv /\ [HistoryNext]_historyVars => HistInv'
  BY HistNext
<1> QED
  BY <1>1, <1>2, JudgeFollows, PTL DEF HistorySpec

(* SEGMENT_DIVERGENCE evidence (core/segments.py) is of two lives of the   *)
(* origin, and a peer restarts with the evidence and the records it        *)
(* answers for, save those whose persist failed.                           *)
THEOREM EvidenceIsAlwaysFork == HistorySpec => []EvidenceIsFork
<1>1. HistoryInit => HistInv
  BY HistInit
<1>2. HistInv /\ [HistoryNext]_historyVars => HistInv'
  BY HistNext
<1> QED
  BY <1>1, <1>2, EvidenceFollows, PTL DEF HistorySpec

=============================================================================
