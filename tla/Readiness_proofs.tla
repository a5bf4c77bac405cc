--------------------------- MODULE Readiness_proofs ---------------------------
(***************************************************************************)
(* Proofs about Readiness and the anchoring rounds under it, for every     *)
(* list of backends, every policy, any number of callers, records, raised  *)
(* rounds and restarts.                                                    *)
(***************************************************************************)
EXTENDS Readiness, SequenceTheorems, FiniteSetTheorems, WellFoundedInduction, TLAPS

----------------------------------------------------------------------------
(* Extrema of sets of counts.                                              *)

(* A non-empty set of naturals has a least element.                        *)
LEMMA LeastExists ==
    ASSUME NEW T \in SUBSET Nat, T # {}
    PROVE  \E x \in T : \A y \in T : x <= y
<1>1. PICK x \in T : \A y \in T : ~(<<y, x>> \in OpToRel(<, Nat))
  BY WFMin, NatLessThanWellFounded, Zenon
<1>2. \A y \in T : ~(y < x)
  BY <1>1, Zenon DEF OpToRel
<1> QED
  BY <1>2

(* Min picks the least.                                                    *)
LEMMA MinIsLeast ==
    ASSUME NEW T \in SUBSET Nat, T # {}
    PROVE  Min(T) \in T
<1>1. \E x \in T : \A y \in T : x <= y
  BY LeastExists
<1> QED
  BY <1>1 DEF Min

(* Max picks the greatest of a bounded set.                                *)
LEMMA MaxIsGreatest ==
    ASSUME NEW n \in Nat, NEW T \in SUBSET (0..n), T # {}
    PROVE  Max(T) \in T
<1> DEFINE U == {n - x : x \in T}
<1>1. U \in SUBSET Nat /\ U # {}
  <2>1. \A x \in T : n - x \in Nat
    OBVIOUS
  <2> QED
    BY <2>1
<1>2. PICK u \in U : \A v \in U : u <= v
  <2> HIDE DEF U
  <2> QED
    BY <1>1, LeastExists
<1>3. PICK x \in T : u = n - x
  BY <1>2
<1>4. \A y \in T : n - x <= n - y
  BY <1>2, <1>3
<1>5. \A y \in T : x >= y
  BY <1>4
<1> QED
  BY <1>5 DEF Max

----------------------------------------------------------------------------
(* The inductive invariant.                                                *)

(* The locals of a round: a backend to ask while it asks, and a receipt    *)
(* only while it is journaled; every round is about a prefix of the chain  *)
(* with work in it.                                                        *)
RoundShape ==
    \A c \in Caller :
        /\ round[c].pc \in {"submit", "log"} => round[c].todo # {}
        /\ round[c].pc # "out" => /\ round[c].count <= Len(chain)
                                  /\ Substantive(0, round[c].count)

(* An accepted receipt was given for a prefix of the chain with work in    *)
(* it; what is about to be journaled, and what is journaled, was given.    *)
GivenForWork == \A r \in given : r.count <= Len(chain) /\ Substantive(0, r.count)
RecHeld ==
    \A c \in Caller : \A r \in round[c].rec :
        r.count <= Len(chain) /\ (r.status \in Accepted => r \in given)
LogHeld ==
    \A b \in Backend, s \in Accepted :
        log[b][s] > 0 => [backend |-> b, count |-> log[b][s], status |-> s] \in given

(* A depth of zero, once measured, stays true of the copy it was measured  *)
(* on while the request is open.                                           *)
ProbeStands ==
    \A p \in probe :
        /\ p.count <= Len(chain)
        /\ \A b \in required : p.depth[b] = 0 => ~Substantive(Have(b), p.count)

IInv ==
    /\ ReadinessTypeOK
    /\ RoundShape
    /\ GivenForWork
    /\ RecHeld
    /\ LogHeld
    /\ CreditIsHeld
    /\ ProbeStands

(* Nothing is anchored in the initial states.                              *)
LEMMA InitEstablishes == ReadinessInit => IInv
<1> SUFFICES ASSUME ReadinessInit PROVE IInv
  OBVIOUS
<1>0. Init /\ probe = {}
  BY DEF ReadinessInit
<1>1. chain = <<>> /\ Len(chain) = 0 /\ chain \in Seq(Kind)
  BY <1>0 DEF Init
<1>2. NoRound \in Round
  BY DEF NoRound, Round
<1>3. TypeOK
  <2>1. /\ required \in Policies /\ given \subseteq Receipt
        /\ holder \in Caller \union {NoCaller} /\ round \in [Caller -> Round]
    BY <1>0, <1>2 DEF Init
  <2>2. log \in [Backend -> [Status -> 0..Len(chain)]]
    BY <1>0, <1>1 DEF Init
  <2>3. /\ covered \in [Backend -> 0..Len(chain)] /\ custody \in [Backend -> 0..Len(chain)]
        /\ attempted \in [Backend -> 0..Len(chain)]
    BY <1>0, <1>1 DEF Init
  <2>4. faults \in 0..MaxFaults
    BY <1>0, AnchoringAssumption DEF Init
  <2>5. backoff \in BOOLEAN
    BY <1>0, Zenon DEF Init
  <2> QED
    BY <1>1, <2>1, <2>2, <2>3, <2>4, <2>5 DEF TypeOK
<1>4. \A c \in Caller : round[c] = NoRound
  BY <1>0 DEF Init
<1>5. RoundShape /\ RecHeld
  BY <1>4 DEF RoundShape, RecHeld, NoRound
<1>6. GivenForWork /\ LogHeld /\ CreditIsHeld
  BY <1>0 DEF Init, GivenForWork, LogHeld, CreditIsHeld, Accepted, Status
<1>7. ProbeStands
  BY <1>0 DEF ProbeStands
<1> QED
  BY <1>0, <1>3, <1>5, <1>6, <1>7 DEF IInv, ReadinessTypeOK

(* The chain only grows, so what a prefix of it says stays said.           *)
Grows == chain' = chain \/ \E k \in Kind : chain' = Append(chain, k)
(* Prefixes and their counts survive a step that lets the chain grow.     *)
LEMMA ChainKeeps ==
    ASSUME chain \in Seq(Kind), Grows
    PROVE  /\ chain' \in Seq(Kind) /\ Len(chain) \in Nat /\ Len(chain') \in Nat
           /\ Len(chain) <= Len(chain')
           /\ \A i \in 1..Len(chain) : chain'[i] = chain[i]
<1>1. CASE chain' = chain
  BY <1>1
<1>2. ASSUME NEW k \in Kind, chain' = Append(chain, k)
      PROVE  /\ chain' \in Seq(Kind) /\ Len(chain') = Len(chain) + 1
             /\ \A i \in 1..Len(chain) : chain'[i] = chain[i]
  BY <1>2, AppendProperties
<1> QED
  BY <1>1, <1>2 DEF Grows

(* Work in a prefix of the chain, told of the chain before a step and      *)
(* after it.                                                               *)
LEMMA SubstantiveKeeps ==
    ASSUME chain \in Seq(Kind), Grows, NEW m \in Nat, NEW n \in Nat, n <= Len(chain)
    PROVE  Substantive(m, n)' <=> Substantive(m, n)
<1>1. \A i \in (m + 1)..n : chain'[i] = chain[i]
  BY ChainKeeps
<1> QED
  BY <1>1 DEF Substantive

(* Work past a later point is work past an earlier one.                    *)
LEMMA SubstantiveEarlier ==
    ASSUME NEW k \in Nat, NEW m \in Nat, NEW n \in Nat, k <= m, Substantive(m, n)
    PROVE  Substantive(k, n)
BY DEF Substantive

(* The configured backends.                                                *)
LEMMA BackendsExist ==
    /\ Len(Backends) \in Nat /\ Backend # {}
    /\ \A i \in 1..Len(Backends) : Backends[i] \in Backend
<1>1. Len(Backends) \in Nat /\ Len(Backends) # 0
  BY AnchoringAssumption, EmptySeq
<1>2. \A i \in 1..Len(Backends) : Backends[i] \in Backend
  BY DEF Backend
<1>3. 1 \in 1..Len(Backends)
  BY <1>1
<1> QED
  BY <1>1, <1>2, <1>3

(* A round starts only when there is work on the chain.                    *)
LEMMA StartIsForWork ==
    ASSUME IInv, NEW c \in Caller, Start(c)
    PROVE  /\ Substantive(0, Len(chain)) /\ Len(chain) \in Nat
           /\ Targets(Substantive(AttemptedHwm, Len(chain)), Len(chain)) # {}
<1>0. TypeOK /\ Len(chain) \in Nat
  BY DEF IInv, ReadinessTypeOK, TypeOK
<1>1. AttemptedHwm \in Nat
  <2> DEFINE T == {attempted[b] : b \in Backend}
  <2>1. T \in SUBSET (0..Len(chain)) /\ T # {}
    BY <1>0, BackendsExist DEF TypeOK
  <2>2. Max(T) \in T
    <3> HIDE DEF T
    <3> QED
      BY <1>0, <2>1, MaxIsGreatest
  <2> QED
    BY <2>1, <2>2 DEF AttemptedHwm
<1>2. \A b \in Backend : Have(b) \in Nat
  BY <1>0 DEF Have, TypeOK
<1>3. required \subseteq Backend
  BY <1>0, AnchoringAssumption DEF TypeOK
<1>4. CASE Substantive(AttemptedHwm, Len(chain))
  <2>1. Substantive(0, Len(chain))
    BY <1>0, <1>1, <1>4, SubstantiveEarlier
  <2>2. 1 \in 1..Len(Backends)
    BY BackendsExist DEF Backend
  <2> QED
    BY <1>0, <1>4, <2>1, <2>2 DEF Targets
<1>5. CASE ~Substantive(AttemptedHwm, Len(chain))
  <2>1. PICK b \in required : Substantive(Have(b), Len(chain))
    BY <1>5 DEF Start, RetryDue, Behind
  <2>2. Substantive(0, Len(chain))
    BY <1>0, <1>2, <1>3, <2>1, SubstantiveEarlier
  <2>3. PICK i \in 1..Len(Backends) : Backends[i] = b
    BY <1>3 DEF Backend
  <2> QED
    BY <1>0, <2>1, <2>2, <2>3 DEF Targets, Behind
<1> QED
  BY <1>4, <1>5

(* A journaled receipt raises one entry of the log to its count.           *)
LEMMA LoggedEffect ==
    ASSUME IInv, NEW c \in Caller, NEW r \in round[c].rec
    PROVE  /\ r \in Receipt /\ r.count \in 0..Len(chain)
           /\ Logged(r) \in [Backend -> [Status -> 0..Len(chain)]]
           /\ \A b \in Backend, s \in Status :
                 \/ Logged(r)[b][s] = log[b][s]
                 \/ b = r.backend /\ s = r.status /\ Logged(r)[b][s] = r.count
<1>0. /\ TypeOK /\ round[c] \in Round /\ Len(chain) \in Nat
      /\ log \in [Backend -> [Status -> 0..Len(chain)]]
  BY DEF IInv, ReadinessTypeOK, TypeOK
<1>1. r \in Receipt
  BY <1>0 DEF Round
<1>2. r.count \in 0..Len(chain) /\ r.backend \in Backend /\ r.status \in Status
  BY <1>0, <1>1 DEF Receipt, IInv, RecHeld
<1>3. Raised(log[r.backend][r.status], r.count) \in {log[r.backend][r.status], r.count}
  BY DEF Raised
<1> QED
  BY <1>0, <1>1, <1>2, <1>3 DEF Logged

(* The locals of a caller outside a round.                                 *)
LEMMA NoRoundType == NoRound \in Round /\ NoRound.pc = "out" /\ NoRound.rec = {}
BY DEF NoRound, Round

(* What a step of a round does to the counts it credits.                   *)
LEMMA CreditEffect ==
    ASSUME IInv, NEW c \in Caller, Credit(c)
    PROVE  \E r \in round[c].rec :
             /\ r \in Receipt /\ r.count \in 0..Len(chain)
             /\ log' = Logged(r)
             /\ attempted' \in [Backend -> 0..Len(chain)]
             /\ covered' \in [Backend -> 0..Len(chain)]
             /\ custody' \in [Backend -> 0..Len(chain)]
             /\ \A b \in Backend :
                  /\ covered'[b] >= covered[b] /\ custody'[b] >= custody[b]
                  /\ \/ covered'[b] = covered[b]
                     \/ b = r.backend /\ covered'[b] = r.count /\ r.status \in TERMINAL_SUCCESS
                  /\ \/ custody'[b] = custody[b]
                     \/ b = r.backend /\ custody'[b] = r.count /\ r.status \in Accepted
<1>0. /\ Len(chain) \in Nat
      /\ attempted \in [Backend -> 0..Len(chain)]
      /\ covered \in [Backend -> 0..Len(chain)]
      /\ custody \in [Backend -> 0..Len(chain)]
  BY DEF IInv, ReadinessTypeOK, TypeOK
<1>1. PICK r \in round[c].rec :
         /\ log' = Logged(r)
         /\ attempted' = [attempted EXCEPT ![r.backend] = Raised(@, r.count)]
         /\ covered' = [covered EXCEPT ![r.backend] =
              IF r.status \in TERMINAL_SUCCESS THEN Raised(@, r.count) ELSE @]
         /\ custody' = [custody EXCEPT ![r.backend] =
              IF r.status \in Accepted THEN Raised(@, r.count) ELSE @]
  BY DEF Credit
<1>2. r \in Receipt /\ r.count \in 0..Len(chain) /\ r.backend \in Backend
  BY LoggedEffect DEF Receipt
<1>3. \A m \in 0..Len(chain) : /\ Raised(m, r.count) \in 0..Len(chain)
                               /\ Raised(m, r.count) >= m
                               /\ Raised(m, r.count) \in {m, r.count}
  BY <1>0, <1>2 DEF Raised
<1>4. attempted' \in [Backend -> 0..Len(chain)]
  BY <1>0, <1>1, <1>2, <1>3
<1>5. covered' \in [Backend -> 0..Len(chain)]
  BY <1>0, <1>1, <1>2, <1>3
<1>6. custody' \in [Backend -> 0..Len(chain)]
  BY <1>0, <1>1, <1>2, <1>3
<1>7. ASSUME NEW b \in Backend
      PROVE  /\ covered'[b] >= covered[b]
             /\ \/ covered'[b] = covered[b]
                \/ b = r.backend /\ covered'[b] = r.count /\ r.status \in TERMINAL_SUCCESS
  <2>0. covered[b] \in 0..Len(chain)
    BY <1>0
  <2>1. CASE b = r.backend /\ r.status \in TERMINAL_SUCCESS
    <3>1. covered'[b] = Raised(covered[b], r.count)
      BY <1>0, <1>1, <2>1
    <3> QED
      BY <1>3, <2>0, <2>1, <3>1
  <2>2. CASE ~(b = r.backend /\ r.status \in TERMINAL_SUCCESS)
    <3>1. covered'[b] = covered[b]
      BY <1>0, <1>1, <2>2
    <3> QED
      BY <2>0, <3>1
  <2> QED
    BY <2>1, <2>2
<1>8. ASSUME NEW b \in Backend
      PROVE  /\ custody'[b] >= custody[b]
             /\ \/ custody'[b] = custody[b]
                \/ b = r.backend /\ custody'[b] = r.count /\ r.status \in Accepted
  <2>0. custody[b] \in 0..Len(chain)
    BY <1>0
  <2>1. CASE b = r.backend /\ r.status \in Accepted
    <3>1. custody'[b] = Raised(custody[b], r.count)
      BY <1>0, <1>1, <2>1
    <3> QED
      BY <1>3, <2>0, <2>1, <3>1
  <2>2. CASE ~(b = r.backend /\ r.status \in Accepted)
    <3>1. custody'[b] = custody[b]
      BY <1>0, <1>1, <2>2
    <3> QED
      BY <2>0, <3>1
  <2> QED
    BY <2>1, <2>2
<1> QED
  BY <1>1, <1>2, <1>4, <1>5, <1>6, <1>7, <1>8

(* What a restart rebuilds is what some receipt of the log says.           *)
LEMMA RestoredEffect ==
    ASSUME NEW n \in Nat, NEW entries \in [Backend -> [Status -> 0..n]],
           NEW b \in Backend, NEW T \in SUBSET Status, T # {}
    PROVE  \E s \in T : Restored(entries, b, T) = entries[b][s] /\ entries[b][s] \in 0..n
<1> DEFINE S == {entries[b][s] : s \in T}
<1>1. S \in SUBSET (0..n) /\ S # {}
  OBVIOUS
<1>2. Max(S) \in S
  <2> HIDE DEF S
  <2> QED
    BY <1>1, MaxIsGreatest
<1> QED
  BY <1>1, <1>2 DEF Restored

(* Widening: counts below the old length of the chain are below the new.   *)
LEMMA TypesWiden ==
    ASSUME TypeOK, Grows,
           UNCHANGED <<log, memory>>
    PROVE  /\ chain' \in Seq(Kind)
           /\ log' \in [Backend -> [Status -> 0..Len(chain')]]
           /\ covered' \in [Backend -> 0..Len(chain')]
           /\ custody' \in [Backend -> 0..Len(chain')]
           /\ attempted' \in [Backend -> 0..Len(chain')]
<1>1. chain' \in Seq(Kind) /\ \A k \in 0..Len(chain) : k \in 0..Len(chain')
  BY ChainKeeps DEF TypeOK
<1>2. log' \in [Backend -> [Status -> 0..Len(chain')]]
  <2>1. \A b \in Backend : log[b] \in [Status -> 0..Len(chain)]
    BY DEF TypeOK
  <2>2. \A b \in Backend : log[b] \in [Status -> 0..Len(chain')]
    BY <1>1, <2>1
  <2> QED
    BY <2>2 DEF TypeOK
<1> QED
  BY <1>1, <1>2 DEF TypeOK, memory

(* The kinds of records a round and its neighbours append.                 *)
LEMMA KindsAppended == {"work", "PEER_ROOT", "ANCHOR_EXTERNAL"} \subseteq Kind
BY DEF Kind

(* The steps of one process keep the types.                                *)
LEMMA StepTypes == IInv /\ Step /\ UNCHANGED required => TypeOK' /\ Grows
<1> SUFFICES ASSUME IInv, Step, UNCHANGED required PROVE TypeOK' /\ Grows
  OBVIOUS
<1>0. /\ TypeOK /\ chain \in Seq(Kind) /\ Len(chain) \in Nat
      /\ round \in [Caller -> Round] /\ required' \in Policies
  BY DEF IInv, ReadinessTypeOK, TypeOK
<1>1. ASSUME Grows, UNCHANGED <<log, memory, given>>, backoff' \in BOOLEAN,
             holder' \in Caller \union {NoCaller}, round' \in [Caller -> Round],
             faults' \in 0..MaxFaults
      PROVE  TypeOK'
  BY <1>0, <1>1, TypesWiden DEF TypeOK
<1>2. chain' = chain => Grows
  BY DEF Grows
<1>3. ASSUME NEW c \in Caller, Start(c) PROVE TypeOK' /\ Grows
  <2> DEFINE news == Substantive(AttemptedHwm, Len(chain))
             new == [NoRound EXCEPT !.pc = "submit", !.count = Len(chain), !.news = news,
                                    !.todo = Targets(news, Len(chain))]
  <2>1. round' = [round EXCEPT ![c] = new] /\ UNCHANGED <<chain, log, memory, backoff, given, faults>>
        /\ holder' = c
    BY <1>3 DEF Start
  <2>2. news \in BOOLEAN
    BY Zenon DEF Substantive
  <2>3. Targets(news, Len(chain)) \in SUBSET (1..Len(Backends))
    BY DEF Targets
  <2>4. new \in Round
    BY <1>0, <2>2, <2>3 DEF NoRound, Round
  <2>5. round' \in [Caller -> Round]
    <3> HIDE DEF new
    <3> QED
      BY <1>0, <2>1, <2>4
  <2> QED
    BY <1>0, <1>1, <1>2, <2>1, <2>5 DEF TypeOK
<1>4. ASSUME NEW c \in Caller, NEW s \in Status, Submit(c, s) PROVE TypeOK' /\ Grows
  <2> DEFINE r == [backend |-> Current(c), count |-> round[c].count, status |-> s]
  <2>1. /\ given' = IF s \in Accepted THEN given \union {r} ELSE given
        /\ round' = [round EXCEPT ![c].pc = "log", ![c].rec = {r}]
        /\ UNCHANGED <<chain, log, memory, backoff, holder, faults>>
    BY <1>4 DEF Submit
  <2>2. r \in Receipt
    <3>1. round[c].todo \in SUBSET Nat /\ round[c].todo # {}
          /\ round[c].todo \subseteq 1..Len(Backends) /\ round[c].count \in Nat
      BY <1>0, <1>4, BackendsExist DEF Round, Submit, IInv, RoundShape
    <3>2. Min(round[c].todo) \in 1..Len(Backends)
      BY <3>1, MinIsLeast
    <3>3. Current(c) \in Backend
      BY <3>2, BackendsExist DEF Current
    <3> QED
      BY <3>1, <3>3 DEF Receipt
  <2>3. round' \in [Caller -> Round]
    <3> HIDE DEF r
    <3>1. [round[c] EXCEPT !.pc = "log", !.rec = {r}] \in Round
      BY <1>0, <2>2 DEF Round
    <3> QED
      BY <1>0, <2>1, <3>1
  <2>4. given' \subseteq Receipt
    <3> HIDE DEF r
    <3> QED
      BY <1>0, <2>1, <2>2 DEF TypeOK
  <2>5. UNCHANGED <<chain, log, covered, custody, attempted, backoff, holder, faults>>
    BY <2>1 DEF memory
  <2> QED
    BY <1>0, <1>2, <2>3, <2>4, <2>5 DEF TypeOK
<1>5. ASSUME NEW c \in Caller, Credit(c) PROVE TypeOK' /\ Grows
  <2>1. PICK r \in round[c].rec :
          /\ log' = Logged(r)
          /\ attempted' \in [Backend -> 0..Len(chain)]
          /\ covered' \in [Backend -> 0..Len(chain)]
          /\ custody' \in [Backend -> 0..Len(chain)]
    BY <1>5, CreditEffect DEF IInv
  <2>2. log' \in [Backend -> [Status -> 0..Len(chain)]]
    BY <2>1, LoggedEffect
  <2>3. PICK q \in round[c].rec :
          round' = [round EXCEPT
              ![c].pc = IF Rest(c) = {} THEN "finish" ELSE "submit",
              ![c].todo = Rest(c), ![c].rec = {},
              ![c].progressed = @ \/ q.status \in TERMINAL_SUCCESS]
    BY <1>5 DEF Credit
  <2>4. Rest(c) \in SUBSET (1..Len(Backends))
    BY <1>0 DEF Rest, Round
  <2>5. round' \in [Caller -> Round]
    <3>1. (round[c].progressed \/ q.status \in TERMINAL_SUCCESS) \in BOOLEAN
      BY Zenon
    <3>2. [round[c] EXCEPT
              !.pc = IF Rest(c) = {} THEN "finish" ELSE "submit",
              !.todo = Rest(c), !.rec = {},
              !.progressed = round[c].progressed \/ q.status \in TERMINAL_SUCCESS] \in Round
      BY <1>0, <2>4, <3>1 DEF Round
    <3> QED
      BY <1>0, <2>3, <3>2
  <2> QED
    BY <1>0, <1>2, <1>5, <2>1, <2>2, <2>5 DEF Credit, TypeOK
<1>6. ASSUME NEW c \in Caller, Leave(c)
      PROVE  round' \in [Caller -> Round] /\ holder' \in Caller \union {NoCaller}
  BY <1>0, <1>6, NoRoundType DEF Leave
<1>7. ASSUME NEW c \in Caller, Finish(c) PROVE TypeOK' /\ Grows
  <2>1. Grows
    BY <1>7, KindsAppended DEF Finish, Grows
  <2>2. backoff' \in BOOLEAN
    BY <1>7, Zenon DEF Finish
  <2> QED
    BY <1>0, <1>1, <1>6, <1>7, <2>1, <2>2 DEF Finish, TypeOK
<1>8. ASSUME NEW c \in Caller, RoundRaises(c) PROVE TypeOK' /\ Grows
  <2>1. log' \in [Backend -> [Status -> 0..Len(chain)]]
    <3>1. log' = log \/ \E r \in round[c].rec : log' = Logged(r)
      BY <1>8 DEF RoundRaises
    <3> QED
      BY <1>0, <3>1, LoggedEffect DEF TypeOK
  <2>2. backoff' \in BOOLEAN
    <3>1. CASE round[c].pc = "finish"
      BY <1>8, <3>1, Zenon DEF RoundRaises
    <3>2. CASE round[c].pc # "finish"
      BY <1>0, <1>8, <3>2 DEF RoundRaises, TypeOK
    <3> QED
      BY <3>1, <3>2
  <2>3. faults' \in 0..MaxFaults
    BY <1>0, <1>8, AnchoringAssumption DEF RoundRaises, TypeOK
  <2> QED
    BY <1>0, <1>2, <1>6, <1>8, <2>1, <2>2, <2>3 DEF RoundRaises, TypeOK, memory
<1>9. ASSUME NEW k \in {"work", "PEER_ROOT"}, OtherAppend(k) PROVE TypeOK' /\ Grows
  <2>1. Grows
    BY <1>9, KindsAppended DEF OtherAppend, Grows
  <2> QED
    BY <1>0, <1>1, <1>9, <2>1 DEF OtherAppend, TypeOK
<1>10. CASE Tick
  <2>1. backoff' \in BOOLEAN
    BY <1>10, Zenon DEF Tick
  <2> QED
    BY <1>0, <1>1, <1>2, <1>10, <2>1 DEF Tick, TypeOK
<1> QED
  BY <1>3, <1>4, <1>5, <1>7, <1>8, <1>9, <1>10 DEF Step

(* The report's depths are counts of records.                              *)
LEMMA DepthIsCount ==
    ASSUME TypeOK, NEW b \in Backend, NEW n \in Nat
    PROVE  /\ DepthBy(b, n) \in Nat
           /\ DepthBy(b, n) = 0 => ~Substantive(Have(b), n)
<1> DEFINE S == {i \in (Have(b) + 1)..n : chain[i] \notin BOOKKEEPING}
<1>1. Have(b) \in Nat
  BY DEF Have, TypeOK
<1>2. IsFiniteSet((Have(b) + 1)..n)
  BY <1>1, FS_Interval
<1>3. IsFiniteSet(S)
  BY <1>2, FS_Subset
<1>4. Cardinality(S) \in Nat /\ (Cardinality(S) = 0 <=> S = {})
  BY <1>3, FS_CardinalityType, FS_EmptySet
<1>5. DepthBy(b, n) = Cardinality(S)
  BY DEF DepthBy
<1>6. S = {} => ~Substantive(Have(b), n)
  BY DEF Substantive
<1> QED
  BY <1>4, <1>5, <1>6

(* What reaches the disk in any step: nothing new, or the receipt some     *)
(* caller is journaling.                                                   *)
LEMMA LogEffect ==
    ASSUME IInv, Step \/ Restart \/ UNCHANGED vars
    PROVE  log' = log \/ \E c \in Caller : \E r \in round[c].rec : log' = Logged(r)
<1>1. ASSUME NEW c \in Caller, Credit(c) PROVE \E r \in round[c].rec : log' = Logged(r)
  BY <1>1 DEF Credit
<1>2. ASSUME NEW c \in Caller, RoundRaises(c)
      PROVE  log' = log \/ \E r \in round[c].rec : log' = Logged(r)
  BY <1>2 DEF RoundRaises
<1>3. CASE Restart
  BY <1>3 DEF Restart
<1>4. ASSUME NEW c \in Caller, Start(c) \/ Finish(c) \/ \E s \in Status : Submit(c, s)
      PROVE  log' = log
  BY <1>4 DEF Start, Finish, Submit
<1>5. CASE OtherAppend("work") \/ OtherAppend("PEER_ROOT") \/ Tick \/ UNCHANGED vars
  BY <1>5 DEF OtherAppend, Tick, vars
<1> QED
  BY <1>1, <1>2, <1>3, <1>4, <1>5 DEF Step

(* What a backend has given is never forgotten, and every receipt is for   *)
(* the root of the round that asked.                                       *)
LEMMA GivenEffect ==
    ASSUME IInv, Step \/ Restart \/ UNCHANGED vars
    PROVE  /\ given \subseteq given'
           /\ \A r \in given' : \/ r \in given
                                \/ \E c \in Caller : /\ round[c].pc = "submit"
                                                     /\ r.count = round[c].count
<1>1. ASSUME NEW c \in Caller, NEW s \in Status, Submit(c, s)
      PROVE  /\ given \subseteq given'
             /\ \A r \in given' : \/ r \in given
                                  \/ round[c].pc = "submit" /\ r.count = round[c].count
  BY <1>1 DEF Submit
<1>2. ASSUME NEW c \in Caller, Start(c) \/ Finish(c) \/ Credit(c) \/ RoundRaises(c)
      PROVE  given' = given
  BY <1>2 DEF Start, Finish, Credit, RoundRaises
<1>3. CASE Restart \/ OtherAppend("work") \/ OtherAppend("PEER_ROOT") \/ Tick \/ UNCHANGED vars
  BY <1>3 DEF OtherAppend, Tick, vars, Restart
<1> QED
  BY <1>1, <1>2, <1>3 DEF Step

(* A restart rebuilds the counts from the journal.                         *)
LEMMA RestartEffect ==
    ASSUME IInv, Restart, log' \in [Backend -> [Status -> 0..Len(chain)]]
    PROVE  /\ covered' \in [Backend -> 0..Len(chain)]
           /\ custody' \in [Backend -> 0..Len(chain)]
           /\ attempted' \in [Backend -> 0..Len(chain)]
           /\ \A b \in Backend :
                /\ \E s \in TERMINAL_SUCCESS : covered'[b] = log'[b][s]
                /\ \E s \in Accepted : custody'[b] = log'[b][s]
<1>0. Len(chain) \in Nat
  BY DEF IInv, ReadinessTypeOK, TypeOK
<1>1. /\ TERMINAL_SUCCESS \in SUBSET Status /\ TERMINAL_SUCCESS # {}
      /\ Accepted \in SUBSET Status /\ Accepted # {} /\ Status # {}
  BY DEF TERMINAL_SUCCESS, Accepted, Status, CUSTODY
<1>2. /\ attempted' = [b \in Backend |-> Restored(log', b, Status)]
      /\ covered' = [b \in Backend |-> Restored(log', b, TERMINAL_SUCCESS)]
      /\ custody' = [b \in Backend |-> Restored(log', b, Accepted)]
  BY DEF Restart, Restore
<1>3. ASSUME NEW b \in Backend, NEW T \in SUBSET Status, T # {}
      PROVE  \E s \in T : Restored(log', b, T) = log'[b][s] /\ log'[b][s] \in 0..Len(chain)
  BY <1>0, <1>3, RestoredEffect
<1>4. \A b \in Backend :
        /\ Restored(log', b, Status) \in 0..Len(chain)
        /\ Restored(log', b, TERMINAL_SUCCESS) \in 0..Len(chain)
        /\ Restored(log', b, Accepted) \in 0..Len(chain)
        /\ \E s \in TERMINAL_SUCCESS : Restored(log', b, TERMINAL_SUCCESS) = log'[b][s]
        /\ \E s \in Accepted : Restored(log', b, Accepted) = log'[b][s]
  BY <1>1, <1>3
<1> QED
  BY <1>2, <1>4

(* Every step keeps the types and the chain that is there.                 *)
LEMMA NextTypes ==
    IInv /\ [ReadinessNext]_readinessVars =>
        /\ ReadinessTypeOK' /\ Grows /\ required' = required
        /\ Step \/ Restart \/ UNCHANGED vars
<1> SUFFICES ASSUME IInv, [ReadinessNext]_readinessVars
             PROVE  /\ ReadinessTypeOK' /\ Grows /\ required' = required
                    /\ Step \/ Restart \/ UNCHANGED vars
  OBVIOUS
<1>0. /\ TypeOK /\ probe \subseteq Probe /\ chain \in Seq(Kind) /\ Len(chain) \in Nat
      /\ required \subseteq Backend
  BY AnchoringAssumption DEF IInv, ReadinessTypeOK, TypeOK
<1>1. required' = required /\ Probe' = Probe
  <2>1. required' = required
    BY DEF ReadinessNext, readinessVars
  <2> QED
    BY <2>1 DEF Probe
<1>2. CASE Step /\ UNCHANGED probe
  BY <1>0, <1>1, <1>2, StepTypes DEF ReadinessTypeOK
<1>3. CASE Restart /\ probe' = {}
  <2>1. log' \in [Backend -> [Status -> 0..Len(chain)]]
    <3>1. log' = log \/ \E c \in Caller : \E r \in round[c].rec : log' = Logged(r)
      BY <1>3, LogEffect
    <3> QED
      BY <1>0, <3>1, LoggedEffect DEF TypeOK
  <2>2. round' \in [Caller -> Round] /\ given' = given /\ chain' = chain /\ holder' = NoCaller
    BY <1>3, NoRoundType DEF Restart
  <2>3. backoff' \in BOOLEAN
    BY <1>3, Zenon DEF Restart
  <2>4. faults' \in 0..MaxFaults
    BY <1>0, <1>3, AnchoringAssumption DEF Restart, TypeOK
  <2>5. /\ covered' \in [Backend -> 0..Len(chain)]
        /\ custody' \in [Backend -> 0..Len(chain)]
        /\ attempted' \in [Backend -> 0..Len(chain)]
    BY <1>3, <2>1, RestartEffect
  <2>6. TypeOK'
    BY <1>0, <1>1, <2>1, <2>2, <2>3, <2>4, <2>5 DEF TypeOK
  <2> QED
    BY <1>1, <1>3, <2>2, <2>6 DEF ReadinessTypeOK, Grows
<1>4. UNCHANGED vars => TypeOK' /\ Grows
  BY <1>0, <1>1 DEF vars, memory, TypeOK, Grows
<1>5. CASE AnchorStatus
  <2>1. [b \in required |-> DepthBy(b, Len(chain))] \in [required -> Nat]
    BY <1>0, DepthIsCount
  <2>2. probe' \subseteq Probe
    BY <1>0, <1>5, <2>1 DEF AnchorStatus, Probe
  <2> QED
    BY <1>1, <1>4, <1>5, <2>2 DEF ReadinessTypeOK, AnchorStatus
<1>6. CASE Answered \/ UNCHANGED readinessVars
  BY <1>0, <1>1, <1>4, <1>6 DEF ReadinessTypeOK, Answered, readinessVars
<1> QED
  BY <1>2, <1>3, <1>5, <1>6 DEF ReadinessNext

(* What a step leaves of a caller's locals: as they were, none, those of a *)
(* round that starts, that has an answer, or that goes on to the next      *)
(* backend.                                                                *)
Begins(k) ==
    /\ round'[k].pc = "submit" /\ round'[k].todo # {} /\ round'[k].rec = {}
    /\ round'[k].count = Len(chain) /\ Substantive(0, Len(chain))
HasAnswer(k) ==
    /\ round[k].pc = "submit"
    /\ round'[k].pc = "log" /\ round'[k].todo = round[k].todo
    /\ round'[k].count = round[k].count
    /\ \A r \in round'[k].rec : /\ r.count = round[k].count
                                /\ r.status \in Accepted => r \in given'
GoesOn(k) ==
    /\ round[k].pc = "log"
    /\ round'[k].pc \in {"submit", "finish"} /\ round'[k].rec = {}
    /\ round'[k].pc = "submit" => round'[k].todo # {}
    /\ round'[k].count = round[k].count

(* Every step takes a caller's round through one of these.                 *)
LEMMA RoundEffect ==
    ASSUME IInv, Step \/ Restart \/ UNCHANGED vars, NEW k \in Caller
    PROVE  \/ round'[k] = round[k] \/ round'[k] = NoRound
           \/ Begins(k) \/ HasAnswer(k) \/ GoesOn(k)
<1>0. round \in [Caller -> Round] /\ round[k] \in Round
  BY DEF IInv, ReadinessTypeOK, TypeOK
<1>1. ASSUME NEW c \in Caller, Start(c) PROVE round'[k] = round[k] \/ Begins(k)
  <2> DEFINE news == Substantive(AttemptedHwm, Len(chain))
             todo == Targets(news, Len(chain))
             new == [NoRound EXCEPT !.pc = "submit", !.count = Len(chain), !.news = news,
                                    !.todo = todo]
  <2>1. round' = [round EXCEPT ![c] = new]
    BY <1>1 DEF Start
  <2>2. todo # {} /\ Substantive(0, Len(chain))
    BY <1>1, StartIsForWork
  <2>3. new.pc = "submit" /\ new.todo = todo /\ new.rec = {} /\ new.count = Len(chain)
    <3> HIDE DEF news, todo
    <3> QED
      BY DEF NoRound
  <2> HIDE DEF new
  <2>4. round'[k] = round[k] \/ round'[k] = new
    BY <1>0, <2>1
  <2> QED
    BY <2>2, <2>3, <2>4 DEF Begins
<1>2. ASSUME NEW c \in Caller, NEW s \in Status, Submit(c, s)
      PROVE  round'[k] = round[k] \/ HasAnswer(k)
  <2> DEFINE r == [backend |-> Current(c), count |-> round[c].count, status |-> s]
  <2>1. /\ given' = IF s \in Accepted THEN given \union {r} ELSE given
        /\ round' = [round EXCEPT ![c].pc = "log", ![c].rec = {r}]
        /\ round[c].pc = "submit"
    BY <1>2 DEF Submit
  <2>2. r.count = round[c].count /\ r.status = s
    OBVIOUS
  <2> HIDE DEF r
  <2>3. CASE k = c
    <3>1. /\ round'[k].pc = "log" /\ round'[k].todo = round[k].todo
          /\ round'[k].count = round[k].count /\ round'[k].rec = {r}
      BY <1>0, <2>1, <2>3 DEF Round
    <3> QED
      BY <2>1, <2>2, <2>3, <3>1 DEF HasAnswer
  <2>4. CASE k # c
    BY <1>0, <2>1, <2>4
  <2> QED
    BY <2>3, <2>4
<1>3. ASSUME NEW c \in Caller, Credit(c) PROVE round'[k] = round[k] \/ GoesOn(k)
  <2>1. PICK q \in round[c].rec :
          round' = [round EXCEPT
              ![c].pc = IF Rest(c) = {} THEN "finish" ELSE "submit",
              ![c].todo = Rest(c), ![c].rec = {},
              ![c].progressed = @ \/ q.status \in TERMINAL_SUCCESS]
    BY <1>3 DEF Credit
  <2>2. round[c].pc = "log"
    BY <1>3 DEF Credit
  <2>3. CASE k = c
    BY <1>0, <2>1, <2>2, <2>3 DEF Round, GoesOn
  <2>4. CASE k # c
    BY <1>0, <2>1, <2>4
  <2> QED
    BY <2>3, <2>4
<1>4. ASSUME NEW c \in Caller, Finish(c) \/ RoundRaises(c)
      PROVE  round'[k] = round[k] \/ round'[k] = NoRound
  BY <1>0, <1>4 DEF Finish, RoundRaises, Leave
<1>5. CASE Restart
  BY <1>5 DEF Restart
<1>6. CASE OtherAppend("work") \/ OtherAppend("PEER_ROOT") \/ Tick \/ UNCHANGED vars
  BY <1>6 DEF OtherAppend, Tick, vars
<1> QED
  BY <1>1, <1>2, <1>3, <1>4, <1>5, <1>6 DEF Step

(* The locals of a round keep their shape, and what it journals was given. *)
LEMMA RoundsKept ==
    ASSUME IInv, [ReadinessNext]_readinessVars
    PROVE  RoundShape' /\ RecHeld' /\ GivenForWork'
<1>0. /\ ReadinessTypeOK' /\ Grows /\ chain \in Seq(Kind) /\ Len(chain) \in Nat
      /\ Step \/ Restart \/ UNCHANGED vars
      /\ Len(chain') \in Nat /\ Len(chain) <= Len(chain')
  BY NextTypes, ChainKeeps DEF IInv, ReadinessTypeOK, TypeOK
<1>1. /\ given \subseteq given'
      /\ \A r \in given' : \/ r \in given
                           \/ \E c \in Caller : /\ round[c].pc = "submit"
                                                /\ r.count = round[c].count
  BY <1>0, GivenEffect
<1>2. /\ given \subseteq Receipt /\ round \in [Caller -> Round]
      /\ given' \subseteq Receipt /\ round' \in [Caller -> Round]
  BY <1>0 DEF IInv, ReadinessTypeOK, TypeOK
<1>3. ASSUME NEW n \in Nat, n <= Len(chain), Substantive(0, n)
      PROVE  n <= Len(chain') /\ Substantive(0, n)'
  BY <1>0, <1>3, SubstantiveKeeps
<1>4. \A c \in Caller : round[c].count \in Nat
  BY <1>2 DEF Round
<1>5. \A n \in Nat : n <= Len(chain) /\ Substantive(0, n) => n <= Len(chain') /\ Substantive(0, n)'
  BY <1>3
<1>6. ASSUME NEW r \in given' PROVE r.count <= Len(chain') /\ Substantive(0, r.count)'
  <2>0. r.count \in Nat
    BY <1>2 DEF Receipt
  <2>1. r.count <= Len(chain) /\ Substantive(0, r.count)
    BY <1>1, <1>4 DEF IInv, GivenForWork, RoundShape
  <2> QED
    BY <1>3, <2>0, <2>1
<1>7. GivenForWork'
  BY <1>6 DEF GivenForWork
<1>8. ASSUME NEW c \in Caller
      PROVE  /\ round'[c].pc \in {"submit", "log"} => round'[c].todo # {}
             /\ round'[c].pc # "out" => round'[c].count <= Len(chain')
             /\ round'[c].pc # "out" =>
                   \A n \in Nat : n = round'[c].count => Substantive(0, n)'
             /\ \A r \in round'[c].rec :
                   r.count <= Len(chain') /\ (r.status \in Accepted => r \in given')
  <2>0. \/ round'[c] = round[c] \/ round'[c] = NoRound
        \/ Begins(c) \/ HasAnswer(c) \/ GoesOn(c)
    BY <1>0, RoundEffect
  <2>1. /\ round[c].pc \in {"submit", "log"} => round[c].todo # {}
        /\ round[c].pc # "out" => /\ round[c].count <= Len(chain)
                                  /\ Substantive(0, round[c].count)
        /\ \A r \in round[c].rec :
              r.count \in Nat /\ r.count <= Len(chain) /\ (r.status \in Accepted => r \in given)
    BY <1>2 DEF IInv, RoundShape, RecHeld, Round, Receipt
  <2>2. round[c].pc # "out" => round[c].count <= Len(chain')
    BY <1>0, <1>4, <2>1
  <2>3. round[c].pc # "out" => \A n \in Nat : n = round[c].count => Substantive(0, n)'
    BY <1>5, <2>1
  <2>4. \A r \in round[c].rec :
           r.count <= Len(chain') /\ (r.status \in Accepted => r \in given')
    BY <1>0, <1>1, <2>1
  <2>5. CASE round'[c] = round[c]
    BY <2>1, <2>2, <2>3, <2>4, <2>5
  <2>6. CASE round'[c] = NoRound
    BY <2>6, NoRoundType
  <2>7. CASE Begins(c)
    BY <1>0, <1>5, <2>7 DEF Begins
  <2>8. CASE HasAnswer(c)
    BY <1>0, <2>1, <2>2, <2>3, <2>8 DEF HasAnswer
  <2>9. CASE GoesOn(c)
    BY <1>0, <2>1, <2>2, <2>3, <2>9 DEF GoesOn
  <2> QED
    BY <2>0, <2>5, <2>6, <2>7, <2>8, <2>9
<1>9. \A c \in Caller : round'[c].count \in Nat
  BY <1>2 DEF Round
<1>10. \A c \in Caller : round'[c].pc # "out" => Substantive(0, round[c].count)'
  BY <1>8, <1>9 DEF Substantive
<1> QED
  BY <1>7, <1>8, <1>10 DEF RoundShape, RecHeld

(* The journal holds only what was given, and what a restart or a round    *)
(* credits a backend with is such a receipt.                               *)
LEMMA CreditKept ==
    ASSUME IInv, [ReadinessNext]_readinessVars
    PROVE  LogHeld' /\ CreditIsHeld'
<1>0. /\ TypeOK /\ TypeOK'
      /\ Step \/ Restart \/ UNCHANGED vars
  BY NextTypes DEF IInv, ReadinessTypeOK
<1>1. given \subseteq given'
  BY <1>0, GivenEffect
<1>2. TERMINAL_SUCCESS \subseteq Accepted /\ Accepted \subseteq Status
  BY DEF Accepted, Status
<1>3. ASSUME NEW c \in Caller, NEW r \in round[c].rec, r.status \in Accepted
      PROVE  /\ r \in given /\ r \in Receipt
             /\ r = [backend |-> r.backend, count |-> r.count, status |-> r.status]
  <2>1. r \in given /\ r \in Receipt
    BY <1>3, LoggedEffect DEF IInv, RecHeld
  <2> QED
    BY <2>1 DEF Receipt
<1>4. ASSUME NEW b \in Backend, NEW s \in Accepted, log'[b][s] > 0
      PROVE  [backend |-> b, count |-> log'[b][s], status |-> s] \in given'
  <2>1. CASE log' = log
    BY <1>1, <1>4, <2>1 DEF IInv, LogHeld
  <2>2. ASSUME NEW c \in Caller, NEW r \in round[c].rec, log' = Logged(r)
        PROVE  [backend |-> b, count |-> log'[b][s], status |-> s] \in given'
    <3>1. \/ log'[b][s] = log[b][s]
          \/ b = r.backend /\ s = r.status /\ log'[b][s] = r.count
      BY <1>2, <2>2, LoggedEffect
    <3>2. CASE log'[b][s] = log[b][s]
      BY <1>1, <1>4, <3>2 DEF IInv, LogHeld
    <3>3. CASE b = r.backend /\ s = r.status /\ log'[b][s] = r.count
      BY <1>1, <1>3, <3>3
    <3> QED
      BY <3>1, <3>2, <3>3
  <2> QED
    BY <1>0, <2>1, <2>2, LogEffect
<1>5. LogHeld'
  BY <1>4 DEF LogHeld
<1>6. CASE UNCHANGED <<covered, custody>>
  BY <1>1, <1>5, <1>6 DEF IInv, CreditIsHeld
<1>7. ASSUME NEW c \in Caller, Credit(c) PROVE CreditIsHeld'
  <2>1. PICK r \in round[c].rec :
             \A b \in Backend :
                  /\ \/ covered'[b] = covered[b]
                     \/ b = r.backend /\ covered'[b] = r.count /\ r.status \in TERMINAL_SUCCESS
                  /\ \/ custody'[b] = custody[b]
                     \/ b = r.backend /\ custody'[b] = r.count /\ r.status \in Accepted
    BY <1>7, CreditEffect
  <2>2. ASSUME NEW b \in Backend, covered'[b] > 0
        PROVE  \E s \in TERMINAL_SUCCESS :
                 [backend |-> b, count |-> covered'[b], status |-> s] \in given'
    <3>1. CASE covered'[b] = covered[b]
      BY <1>1, <2>2, <3>1 DEF IInv, CreditIsHeld
    <3>2. CASE b = r.backend /\ covered'[b] = r.count /\ r.status \in TERMINAL_SUCCESS
      BY <1>1, <1>2, <1>3, <3>2
    <3> QED
      BY <2>1, <3>1, <3>2
  <2>3. ASSUME NEW b \in Backend, custody'[b] > 0
        PROVE  \E s \in Accepted :
                 [backend |-> b, count |-> custody'[b], status |-> s] \in given'
    <3>1. CASE custody'[b] = custody[b]
      BY <1>1, <2>3, <3>1 DEF IInv, CreditIsHeld
    <3>2. CASE b = r.backend /\ custody'[b] = r.count /\ r.status \in Accepted
      BY <1>1, <1>3, <3>2
    <3> QED
      BY <2>1, <3>1, <3>2
  <2> QED
    BY <2>2, <2>3 DEF CreditIsHeld
<1>8. CASE Restart
  <2>1. chain' = chain /\ log' \in [Backend -> [Status -> 0..Len(chain)]]
    <3>1. chain' = chain
      BY <1>8 DEF Restart
    <3>2. log' \in [Backend -> [Status -> 0..Len(chain')]]
      BY <1>0 DEF TypeOK
    <3> QED
      BY <3>1, <3>2
  <2>2. \A b \in Backend :
                /\ \E s \in TERMINAL_SUCCESS : covered'[b] = log'[b][s]
                /\ \E s \in Accepted : custody'[b] = log'[b][s]
    BY <1>8, <2>1, RestartEffect
  <2> QED
    BY <1>2, <1>5, <2>2 DEF CreditIsHeld, LogHeld
<1>9. UNCHANGED <<covered, custody>> \/ Restart \/ \E c \in Caller : Credit(c)
  BY <1>0 DEF Step, Start, Finish, RoundRaises, Submit, OtherAppend, Tick, vars, memory
<1> QED
  BY <1>5, <1>6, <1>7, <1>8, <1>9

(* What a backend holds only grows while one process lives.                *)
LEMMA HaveGrows ==
    ASSUME IInv, Step \/ UNCHANGED vars, NEW b \in Backend
    PROVE  Have(b) \in Nat /\ Have(b)' \in Nat /\ Have(b) <= Have(b)'
<1>0. covered[b] \in Nat /\ custody[b] \in Nat
  BY DEF IInv, ReadinessTypeOK, TypeOK
<1>1. covered'[b] \in Nat /\ custody'[b] \in Nat
      /\ covered[b] <= covered'[b] /\ custody[b] <= custody'[b]
  <2>1. ASSUME NEW c \in Caller, Credit(c)
        PROVE  /\ covered'[b] \in Nat /\ custody'[b] \in Nat
               /\ covered[b] <= covered'[b] /\ custody[b] <= custody'[b]
    <3>1. /\ covered' \in [Backend -> 0..Len(chain)] /\ custody' \in [Backend -> 0..Len(chain)]
          /\ covered'[b] >= covered[b] /\ custody'[b] >= custody[b]
      BY <2>1, CreditEffect
    <3> QED
      BY <1>0, <3>1
  <2>2. CASE UNCHANGED <<covered, custody>>
    BY <1>0, <2>2
  <2> QED
    BY <2>1, <2>2 DEF Step, Start, Finish, RoundRaises, Submit, OtherAppend, Tick, vars, memory
<1> QED
  BY <1>0, <1>1 DEF Have

(* A depth of zero stands until the answer leaves.                         *)
LEMMA ProbeKept ==
    ASSUME IInv, [ReadinessNext]_readinessVars
    PROVE  ProbeStands'
<1>0. /\ ReadinessTypeOK /\ Grows /\ required' = required /\ required \subseteq Backend
      /\ chain \in Seq(Kind) /\ Len(chain) \in Nat /\ Len(chain') \in Nat
      /\ Len(chain) <= Len(chain')
  BY NextTypes, ChainKeeps, AnchoringAssumption DEF IInv, ReadinessTypeOK, TypeOK
<1>1. ASSUME Step \/ UNCHANGED vars, probe' = probe
      PROVE  ProbeStands'
  <2>1. ASSUME NEW p \in probe
        PROVE  /\ p.count <= Len(chain')
               /\ \A b \in required : p.depth[b] = 0 => ~Substantive(Have(b), p.count)'
    <3>0. p.count \in Nat /\ p.count <= Len(chain)
      BY <1>0 DEF ReadinessTypeOK, Probe, IInv, ProbeStands
    <3>1. ASSUME NEW b \in required, p.depth[b] = 0 PROVE ~Substantive(Have(b), p.count)'
      <4>1. ~Substantive(Have(b), p.count)
        BY <3>1 DEF IInv, ProbeStands
      <4>2. Have(b) \in Nat /\ Have(b)' \in Nat /\ Have(b) <= Have(b)'
        BY <1>0, <1>1, HaveGrows
      <4>3. \A i \in 1..p.count : chain'[i] = chain[i]
        BY <1>0, <3>0, ChainKeeps
      <4>4. \A i \in (Have(b)' + 1)..p.count : chain'[i] \in BOOKKEEPING
        BY <3>0, <4>1, <4>2, <4>3 DEF Substantive
      <4> QED
        BY <4>4 DEF Substantive, BOOKKEEPING, Kind
    <3> QED
      BY <1>0, <3>0, <3>1
  <2> QED
    BY <1>0, <1>1, <2>1 DEF ProbeStands
<1>2. CASE AnchorStatus
  <2> DEFINE p == [count |-> Len(chain), depth |-> [b \in required |-> DepthBy(b, Len(chain))]]
  <2>1. probe' = {p} /\ UNCHANGED vars
    BY <1>2 DEF AnchorStatus
  <2>2. ASSUME NEW b \in required, p.depth[b] = 0 PROVE ~Substantive(Have(b), p.count)
    BY <1>0, <2>2, DepthIsCount DEF ReadinessTypeOK
  <2>3. p.count = Len(chain)
    OBVIOUS
  <2> HIDE DEF p
  <2>4. ASSUME NEW q \in probe'
        PROVE  /\ q.count <= Len(chain')
               /\ \A b \in required : q.depth[b] = 0 => ~Substantive(Have(b), q.count)'
    <3>1. q = p
      BY <2>1
    <3>2. \A b \in required : q.depth[b] = 0 => ~Substantive(Have(b), q.count)
      BY <2>2, <3>1
    <3>3. UNCHANGED <<chain, covered, custody>>
      BY <2>1 DEF vars, memory
    <3> QED
      BY <1>0, <2>3, <3>1, <3>2, <3>3 DEF Have, Substantive
  <2> QED
    BY <1>0, <2>4 DEF ProbeStands
<1>3. CASE probe' = {}
  BY <1>3 DEF ProbeStands
<1> QED
  BY <1>1, <1>2, <1>3 DEF ReadinessNext, readinessVars, Answered

(* Every step keeps the invariant.                                         *)
LEMMA NextKeeps == IInv /\ [ReadinessNext]_readinessVars => IInv'
BY NextTypes, RoundsKept, CreditKept, ProbeKept DEF IInv

----------------------------------------------------------------------------
(* The theorems.                                                           *)

(* Anchoring and its report keep to their types: no restart, raised round  *)
(* or torn journal write makes a count exceed the chain.                   *)
THEOREM ReadinessTypes == ReadinessSpec => []ReadinessTypeOK
<1>1. IInv => ReadinessTypeOK
  BY DEF IInv
<1> QED
  BY InitEstablishes, NextKeeps, <1>1, PTL DEF ReadinessSpec

(* AnchorScheduler: a backend is credited only with a root it said it      *)
(* holds, whatever rounds raised and whatever restarts rebuilt.            *)
THEOREM CreditIsAlwaysHeld == ReadinessSpec => []CreditIsHeld
<1>1. IInv => CreditIsHeld
  BY DEF IInv
<1> QED
  BY InitEstablishes, NextKeeps, <1>1, PTL DEF ReadinessSpec

(* evaluate_anchoring: what the report may say of a required backend.      *)
LEMMA GreenIsEarned ==
    ASSUME NEW p \in probe, NEW b \in required
    PROVE  /\ EvaluateAnchoring(p) = READY =>
                 ~Never(b) /\ ~InCustody(b) /\ ~(p.depth[b] > 0)
           /\ EvaluateAnchoring(p) # NOT_READY =>
                 ~Never(b) \/ InCustody(b) \/ ~(p.depth[b] > 0)
<1> DEFINE states == {BackendAnchorState(p, c) : c \in required}
<1>0. BackendAnchorState(p, b) \in states /\ required # {}
  OBVIOUS
<1>1. EvaluateAnchoring(p) = IF required = {} THEN NOT_CONFIGURED
                             ELSE IF NOT_READY \in states THEN NOT_READY
                             ELSE IF DEGRADED \in states THEN DEGRADED
                             ELSE READY
  BY DEF EvaluateAnchoring
<1>2. READY # NOT_READY /\ READY # DEGRADED /\ DEGRADED # NOT_READY
  BY DEF READY, NOT_READY, DEGRADED
<1>3. NOT_READY \in states => EvaluateAnchoring(p) = NOT_READY
  <2> HIDE DEF states
  <2> QED
    BY <1>0, <1>1
<1>4. DEGRADED \in states => EvaluateAnchoring(p) \in {NOT_READY, DEGRADED}
  <2> HIDE DEF states
  <2> QED
    BY <1>0, <1>1
<1>5. Never(b) /\ ~InCustody(b) /\ p.depth[b] > 0 => BackendAnchorState(p, b) = NOT_READY
  BY DEF BackendAnchorState
<1>6. Never(b) \/ InCustody(b) \/ p.depth[b] > 0
          => BackendAnchorState(p, b) \in {NOT_READY, DEGRADED}
  BY DEF BackendAnchorState
<1> HIDE DEF states
<1> QED
  BY <1>0, <1>2, <1>3, <1>4, <1>5, <1>6

(* GET /ready: "UNKNOWN IS NOT GREEN".  A node that reports READY has its  *)
(* work settled by every backend it requires, and one that reports less    *)
(* than NOT_READY holds a proof of some of it from each, whatever the      *)
(* scheduler did between the reads of the report.                          *)
THEOREM GreenIsTrue == ReadinessSpec => []NoFalseGreen
<1>1. IInv => NoFalseGreen
  <2> SUFFICES ASSUME IInv, NEW p \in probe, NEW b \in required
               PROVE  /\ EvaluateAnchoring(p) = READY =>
                           \E r \in {q \in given : q.backend = b /\ q.status \in TERMINAL_SUCCESS} :
                              ~Substantive(r.count, p.count)
                      /\ EvaluateAnchoring(p) # NOT_READY /\ Substantive(0, p.count) =>
                           \E r \in {q \in given : q.backend = b /\ q.status \in Accepted} :
                              Substantive(0, r.count)
    BY DEF NoFalseGreen
  <2>0. /\ b \in Backend /\ covered[b] \in Nat /\ custody[b] \in Nat
        /\ p.count \in Nat /\ p.depth[b] \in Nat
    BY AnchoringAssumption DEF IInv, ReadinessTypeOK, TypeOK, Probe
  <2>1. p.depth[b] = 0 => ~Substantive(Have(b), p.count)
    BY DEF IInv, ProbeStands
  <2>2. covered[b] > 0 => \E s \in TERMINAL_SUCCESS :
               [backend |-> b, count |-> covered[b], status |-> s] \in given
    BY <2>0 DEF IInv, CreditIsHeld
  <2>3. custody[b] > 0 => \E s \in Accepted :
               [backend |-> b, count |-> custody[b], status |-> s] \in given
    BY <2>0 DEF IInv, CreditIsHeld
  <2>4. TERMINAL_SUCCESS \subseteq Accepted
    BY DEF Accepted
  <2>5. ASSUME EvaluateAnchoring(p) = READY
        PROVE  \E r \in {q \in given : q.backend = b /\ q.status \in TERMINAL_SUCCESS} :
                  ~Substantive(r.count, p.count)
    <3>1. covered[b] > 0 /\ ~(custody[b] > covered[b]) /\ p.depth[b] = 0
      BY <2>0, <2>5, GreenIsEarned DEF Never, InCustody
    <3>2. ~Substantive(covered[b], p.count)
      <4>1. Have(b) = covered[b]
        BY <2>0, <3>1 DEF Have
      <4> QED
        BY <2>1, <3>1, <4>1
    <3>3. PICK s \in TERMINAL_SUCCESS :
             [backend |-> b, count |-> covered[b], status |-> s] \in given
      BY <2>2, <3>1
    <3> DEFINE r == [backend |-> b, count |-> covered[b], status |-> s]
    <3>4. r.backend = b /\ r.status = s /\ r.count = covered[b] /\ r \in given
      BY <3>3
    <3> HIDE DEF r
    <3> QED
      BY <3>2, <3>3, <3>4
  <2>6. ASSUME EvaluateAnchoring(p) # NOT_READY, Substantive(0, p.count)
        PROVE  \E r \in {q \in given : q.backend = b /\ q.status \in Accepted} :
                  Substantive(0, r.count)
    <3>1. covered[b] > 0 \/ custody[b] > 0
      <4>1. SUFFICES ASSUME covered[b] = 0, custody[b] = 0 PROVE FALSE
        BY <2>0
      <4>2. p.depth[b] = 0
        BY <2>0, <2>6, <4>1, GreenIsEarned DEF Never, InCustody
      <4>3. Have(b) = 0
        BY <4>1 DEF Have
      <4> QED
        BY <2>1, <2>6, <4>2, <4>3
    <3>2. PICK n \in Nat, s \in Accepted :
             [backend |-> b, count |-> n, status |-> s] \in given
      BY <2>0, <2>2, <2>3, <2>4, <3>1
    <3> DEFINE r == [backend |-> b, count |-> n, status |-> s]
    <3>3. r.backend = b /\ r.status = s /\ r \in given
      BY <3>2
    <3> HIDE DEF r
    <3>4. Substantive(0, r.count)
      BY <3>3 DEF IInv, GivenForWork
    <3> QED
      BY <3>2, <3>3, <3>4
  <2> QED
    BY <2>5, <2>6
<1> QED
  BY InitEstablishes, NextKeeps, <1>1, PTL DEF ReadinessSpec

=============================================================================
