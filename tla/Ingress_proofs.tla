---------------------------- MODULE Ingress_proofs ----------------------------
(***************************************************************************)
(* Proofs about Ingress and the registry and authenticator under it, for   *)
(* any load, any number of connections, workers, peers and faults, and any *)
(* setting of the limits.                                                  *)
(***************************************************************************)
EXTENDS Ingress, SequenceTheorems, FiniteSetTheorems, WellFoundedInduction, TLAPS

----------------------------------------------------------------------------
(* Connections and the semaphore.                                          *)

Working == {"worker", "rating", "handle", "engine", "answering", "registering",
            "journaling", "checked", "done"}
PCs == Working \union {"new", "handshake", "refusing", "closed"}

ConnTypes ==
    /\ load \in Loads
    /\ pc \in [Conns -> PCs]
    /\ clock \in Nat
    /\ now \in [Conns -> 0..clock]
    /\ refuseQ \in Seq(Conns)
    /\ slots \in 0..MaxConcurrency
    /\ failed \in Nat

(* The refusal queue holds connections that wait for it, each once.        *)
QueueHolds ==
    /\ \A i \in 1..Len(refuseQ) : pc[refuseQ[i]] = "refusing"
    /\ \A i, j \in 1..Len(refuseQ) : i # j => refuseQ[i] # refuseQ[j]

(* Slots and workers together: no slot is lost, and none is there twice    *)
(* but for the thread starts that failed.                                  *)
SlotsBalance ==
    /\ Cardinality(Live) + slots >= MaxConcurrency
    /\ Cardinality(Live) + slots <= MaxConcurrency + failed

ConnInv == ConnTypes /\ QueueHolds /\ SlotsBalance

(* The workers are a finite set.                                           *)
LEMMA LiveFinite ==
    ASSUME ConnTypes
    PROVE  /\ IsFiniteSet(Live) /\ Cardinality(Live) \in Nat
           /\ Live = {c \in Conns : pc[c] \in Working}
<1>1. IsFiniteSet(Conns)
  BY IngressAssumption, FS_Interval DEF Conns
<1>2. Live \subseteq Conns
  BY DEF Live
<1>3. Live = {c \in Conns : pc[c] \in Working}
  BY DEF Live, ConnTypes, PCs, Working
<1> QED
  BY <1>1, <1>2, <1>3, FS_Subset, FS_CardinalityType

(* What a step of a worker that goes on working does.                      *)
Stays(c) ==
    /\ pc[c] \in Working
    /\ \E p \in Working : pc' = [pc EXCEPT ![c] = p]
    /\ now' \in [Conns -> 0..clock]
    /\ UNCHANGED <<load, slots, failed, refuseQ, clock>>

(* A worker keeps its slot through every gate and handler until it         *)
(* finishes.                                                               *)
LEMMA ServeStays ==
    ASSUME ConnTypes, NEW c \in Conns, Serve(c), ~Finish(c)
    PROVE  Stays(c)
<1>0. now \in [Conns -> 0..clock] /\ clock \in Nat
  BY DEF ConnTypes
<1>1. ASSUME NEW p \in Working, Goto(c, p) PROVE pc' = [pc EXCEPT ![c] = p] /\ load' = load
                                                /\ now' \in [Conns -> 0..clock]
  BY <1>0, <1>1 DEF Goto
<1>2. ASSUME NEW a, Reply(c, a) PROVE /\ pc' = [pc EXCEPT ![c] = "done"] /\ load' = load
                                      /\ now' \in [Conns -> 0..clock]
  BY <1>0, <1>2 DEF Reply
<1>3. ASSUME pc[c] \in Working, UNCHANGED handlerKept,
             \/ \E a : Reply(c, a)
             \/ \E p \in Working : Goto(c, p)
      PROVE  Stays(c)
  <2>1. UNCHANGED <<slots, failed, refuseQ, clock>>
    BY <1>3 DEF handlerKept, serverVars
  <2>2. "done" \in Working
    BY DEF Working
  <2> QED
    BY <1>1, <1>2, <1>3, <2>1, <2>2 DEF Stays
<1> USE DEF Working
<1>4. CASE Timeout(c)
  BY <1>3, <1>4 DEF Timeout
<1>5. CASE IngressGate(c)
  <2>1. CASE load[c].framed
    BY <1>0, <1>5, <2>1 DEF IngressGate, Stays, handlerKept, serverVars
  <2>2. CASE ~load[c].framed
    BY <1>3, <1>5, <2>2 DEF IngressGate
  <2> QED
    BY <2>1, <2>2
<1>6. CASE RateGate(c)
  <2>1. pc[c] = "rating" /\ UNCHANGED handlerKept /\ (Goto(c, "handle") \/ Reply(c, "limited"))
    BY <1>6 DEF RateGate
  <2> QED
    BY <1>3, <2>1
<1>7. CASE Deny(c)
  BY <1>3, <1>7 DEF Deny
<1>8. CASE Read(c)
  BY <1>3, <1>8 DEF Read, Handling
<1>9. CASE CallEngine(c)
  BY <1>3, <1>9 DEF CallEngine, Handling
<1>10. CASE EngineAnswers(c)
  BY <1>3, <1>10 DEF EngineAnswers
<1>11. CASE EngineFails(c)
  BY <1>3, <1>11 DEF EngineFails
<1>12. CASE Respond(c)
  BY <1>3, <1>12 DEF Respond
<1>13. CASE Hello(c)
  <2>1. CASE VerifyAdmitted(load[c].bundle)
    BY <1>0, <1>13, <2>1 DEF Hello, Handling, Stays, handlerKept, serverVars
  <2>2. CASE ~VerifyAdmitted(load[c].bundle)
    BY <1>3, <1>13, <2>2 DEF Hello, Handling
  <2> QED
    BY <2>1, <2>2
<1>14. CASE Register(c)
  BY <1>3, <1>14 DEF Register
<1>15. CASE Journal(c)
  BY <1>3, <1>15 DEF Journal
<1>16. CASE CheckEnvelope(c)
  <2>1. CASE EnvelopeValid(load[c].env, clock)
    BY <1>0, <1>16, <2>1 DEF CheckEnvelope, Handling, Stays, handlerKept, serverVars
  <2>2. CASE ~EnvelopeValid(load[c].env, clock)
    BY <1>3, <1>16, <2>2 DEF CheckEnvelope, Handling
  <2> QED
    BY <2>1, <2>2
<1>17. CASE IssueSalt(c)
  BY <1>3, <1>17 DEF IssueSalt
<1>18. CASE AdminHook(c)
  BY <1>3, <1>18 DEF AdminHook, Handling
<1> QED
  BY <1>4, <1>5, <1>6, <1>7, <1>8, <1>9, <1>10, <1>11, <1>12, <1>13, <1>14, <1>15,
     <1>16, <1>17, <1>18 DEF Serve

(* The start of the node: nobody works, every slot is there.               *)
LEMMA ConnInit == Init => ConnInv
<1> SUFFICES ASSUME Init PROVE ConnInv
  OBVIOUS
<1>1. ConnTypes
  BY IngressAssumption DEF Init, ConnTypes, PCs
<1>2. QueueHolds
  BY DEF Init, QueueHolds
<1>3. Live = {}
  BY DEF Init, Live
<1>4. SlotsBalance
  BY <1>3, FS_EmptySet, IngressAssumption DEF Init, SlotsBalance
<1> QED
  BY <1>1, <1>2, <1>4 DEF ConnInv

(* A change of one connection's place that the queue does not see.         *)
LEMMA QueueKept ==
    ASSUME ConnInv, NEW c \in Conns, pc[c] # "refusing", NEW p,
           pc' = [pc EXCEPT ![c] = p], refuseQ' = refuseQ
    PROVE  QueueHolds'
<1>1. \A i \in 1..Len(refuseQ) : refuseQ[i] \in Conns /\ refuseQ[i] # c
  BY DEF ConnInv, ConnTypes, QueueHolds
<1> QED
  BY <1>1 DEF ConnInv, ConnTypes, QueueHolds

(* The accept loop's four ways with the next connection.                   *)
LEMMA AcceptKeeps ==
    ASSUME ConnInv, NEW c \in Conns, Accept(c)
    PROVE  ConnInv'
<1>0. /\ ConnTypes /\ pc[c] = "new" /\ Cardinality(Live) \in Nat /\ IsFiniteSet(Live)
      /\ pc \in [Conns -> PCs] /\ slots \in 0..MaxConcurrency /\ failed \in Nat
      /\ now \in [Conns -> 0..clock] /\ clock \in Nat /\ refuseQ \in Seq(Conns)
      /\ MaxConcurrency \in Nat
  BY LiveFinite, IngressAssumption DEF ConnInv, ConnTypes, Accept, Handshake, Dispatch, StartFails, Overload,
     Head1, Backlog
<1>1. /\ Cardinality(Live) + slots >= MaxConcurrency
      /\ Cardinality(Live) + slots <= MaxConcurrency + failed
  BY DEF ConnInv, SlotsBalance
<1>2. ASSUME NEW p \in PCs, Goto(c, p), UNCHANGED clock, slots' \in 0..MaxConcurrency,
             failed' \in Nat, refuseQ' \in Seq(Conns)
      PROVE  ConnTypes' /\ pc' = [pc EXCEPT ![c] = p]
  BY <1>0, <1>2 DEF Goto, ConnTypes
<1>3. ASSUME NEW p \in {"handshake", "refusing", "closed"}, Goto(c, p)
      PROVE  Live' = Live
  BY <1>0, <1>3 DEF Goto, Live
<1> USE DEF PCs, Working
<1>4. CASE Handshake(c)
  <2>1. Goto(c, "handshake") /\ UNCHANGED <<slots, refuseQ, failed, clock>>
    BY <1>4 DEF Handshake
  <2>2. ConnTypes' /\ pc' = [pc EXCEPT ![c] = "handshake"] /\ Live' = Live
    BY <1>0, <1>2, <1>3, <2>1
  <2>3. QueueHolds'
    BY <1>0, <2>1, <2>2, QueueKept
  <2> QED
    BY <1>1, <2>1, <2>2, <2>3 DEF ConnInv, SlotsBalance
<1>5. CASE Dispatch(c)
  <2>1. /\ Goto(c, "worker") /\ UNCHANGED <<refuseQ, failed, clock>>
        /\ slots > 0 /\ slots' = slots - 1
    BY <1>5 DEF Dispatch
  <2>2. ConnTypes' /\ pc' = [pc EXCEPT ![c] = "worker"]
    BY <1>0, <1>2, <2>1
  <2>3. Live' = Live \union {c} /\ c \notin Live
    BY <1>0, <2>2 DEF Live
  <2>4. Cardinality(Live') = Cardinality(Live) + 1
    BY <1>0, <2>3, FS_AddElement
  <2>5. QueueHolds'
    BY <1>0, <2>1, <2>2, QueueKept
  <2>6. SlotsBalance'
    BY <1>0, <1>1, <2>1, <2>4 DEF SlotsBalance
  <2> QED
    BY <2>2, <2>5, <2>6 DEF ConnInv
<1>6. CASE StartFails(c)
  <2>1. /\ Goto(c, "closed") /\ UNCHANGED <<refuseQ, clock>>
        /\ failed' = failed + 1 /\ slots > 0
        /\ slots' = IF MaxConcurrency < slots + 1 THEN MaxConcurrency ELSE slots + 1
    BY <1>6 DEF StartFails, Least
  <2>2. slots' \in 0..MaxConcurrency /\ slots' >= slots /\ slots' <= slots + 1
    BY <1>0, <2>1
  <2>3. ConnTypes' /\ pc' = [pc EXCEPT ![c] = "closed"] /\ Live' = Live
    BY <1>0, <1>2, <1>3, <2>1, <2>2
  <2>4. QueueHolds'
    BY <1>0, <2>1, <2>3, QueueKept
  <2>5. SlotsBalance'
    BY <1>0, <1>1, <2>1, <2>2, <2>3 DEF SlotsBalance
  <2> QED
    BY <2>3, <2>4, <2>5 DEF ConnInv
<1>7. CASE Overload(c)
  <2>1. UNCHANGED <<slots, failed, clock>>
    BY <1>7 DEF Overload
  <2>2. CASE Len(refuseQ) < RefuseQueue
    <3>1. refuseQ' = Append(refuseQ, c) /\ Goto(c, "refusing")
      BY <1>7, <2>2 DEF Overload
    <3>2. /\ refuseQ' \in Seq(Conns) /\ Len(refuseQ') = Len(refuseQ) + 1
          /\ refuseQ'[Len(refuseQ) + 1] = c
          /\ \A i \in 1..Len(refuseQ) : refuseQ'[i] = refuseQ[i]
      BY <1>0, <3>1, AppendProperties
    <3>3. ConnTypes' /\ pc' = [pc EXCEPT ![c] = "refusing"] /\ Live' = Live
      BY <1>0, <1>2, <1>3, <2>1, <3>1, <3>2
    <3>4. \A i \in 1..Len(refuseQ) : refuseQ[i] \in Conns /\ refuseQ[i] # c /\ pc[refuseQ[i]] = "refusing"
      BY <1>0 DEF ConnInv, QueueHolds
    <3>5. \A i \in 1..Len(refuseQ') : i \in 1..Len(refuseQ) \/ i = Len(refuseQ) + 1
      BY <1>0, <3>2
    <3>6. \A i \in 1..Len(refuseQ') : pc'[refuseQ'[i]] = "refusing"
      BY <1>0, <3>2, <3>3, <3>4, <3>5
    <3>7. \A i, j \in 1..Len(refuseQ') : i # j => refuseQ'[i] # refuseQ'[j]
      <4>1. \A i, j \in 1..Len(refuseQ) : i # j => refuseQ[i] # refuseQ[j]
        BY DEF ConnInv, QueueHolds
      <4> QED
        BY <3>2, <3>4, <3>5, <4>1
    <3> QED
      BY <1>1, <2>1, <3>3, <3>6, <3>7 DEF ConnInv, QueueHolds, SlotsBalance
  <2>3. CASE ~(Len(refuseQ) < RefuseQueue)
    <3>1. refuseQ' = refuseQ /\ Goto(c, "closed")
      BY <1>7, <2>3 DEF Overload
    <3>2. ConnTypes' /\ pc' = [pc EXCEPT ![c] = "closed"] /\ Live' = Live
      BY <1>0, <1>2, <1>3, <2>1, <3>1
    <3>3. QueueHolds'
      BY <1>0, <3>1, <3>2, QueueKept
    <3> QED
      BY <1>1, <2>1, <3>2, <3>3 DEF ConnInv, SlotsBalance
  <2> QED
    BY <2>2, <2>3
<1> QED
  BY <1>4, <1>5, <1>6, <1>7 DEF Accept

(* The workers' steps and the release of the slot at the end.              *)
LEMMA ServeKeeps ==
    ASSUME ConnInv, NEW c \in Conns, Serve(c)
    PROVE  ConnInv'
<1>0. /\ ConnTypes /\ Cardinality(Live) \in Nat /\ IsFiniteSet(Live)
      /\ pc \in [Conns -> PCs] /\ slots \in 0..MaxConcurrency /\ failed \in Nat
      /\ now \in [Conns -> 0..clock] /\ clock \in Nat /\ refuseQ \in Seq(Conns)
      /\ MaxConcurrency \in Nat
  BY LiveFinite, IngressAssumption DEF ConnInv, ConnTypes
<1>1. /\ Cardinality(Live) + slots >= MaxConcurrency
      /\ Cardinality(Live) + slots <= MaxConcurrency + failed
  BY DEF ConnInv, SlotsBalance
<1>2. CASE ~Finish(c)
  <2>1. Stays(c)
    BY <1>0, <1>2, ServeStays
  <2>2. PICK p \in Working : pc' = [pc EXCEPT ![c] = p]
    BY <2>1 DEF Stays
  <2>3. ConnTypes'
    BY <1>0, <2>1, <2>2 DEF Stays, ConnTypes, PCs
  <2>4. Live' = Live
    BY <1>0, <2>1, <2>2 DEF Stays, Live, Working
  <2>5. pc[c] # "refusing"
    BY <2>1 DEF Stays, Working
  <2>6. QueueHolds'
    BY <2>1, <2>2, <2>5, QueueKept DEF Stays
  <2> QED
    BY <1>1, <2>1, <2>3, <2>4, <2>6 DEF ConnInv, SlotsBalance, Stays
<1>3. CASE Finish(c)
  <2>1. /\ pc[c] = "done" /\ Goto(c, "closed") /\ UNCHANGED <<refuseQ, failed, clock>>
        /\ slots' = IF MaxConcurrency < slots + 1 THEN MaxConcurrency ELSE slots + 1
    BY <1>3 DEF Finish, Released, Least
  <2>2. ConnTypes' /\ pc' = [pc EXCEPT ![c] = "closed"]
    BY <1>0, <2>1 DEF Goto, ConnTypes, PCs
  <2>3. Live' = Live \ {c} /\ c \in Live
    BY <1>0, <2>1, <2>2 DEF Live
  <2>4. Cardinality(Live') = Cardinality(Live) - 1
    BY <1>0, <2>3, FS_RemoveElement
  <2>5. QueueHolds'
    BY <2>1, <2>2, QueueKept
  <2>6. Cardinality(Live) >= 1
    BY <1>0, <2>3, FS_EmptySet
  <2>7. SlotsBalance'
    BY <1>0, <1>1, <2>1, <2>4, <2>6 DEF SlotsBalance
  <2> QED
    BY <2>2, <2>5, <2>7 DEF ConnInv
<1> QED
  BY <1>2, <1>3

(* The refusal worker's answer holds no slot and gives none back.          *)
LEMMA RefuseKeeps ==
    ASSUME ConnInv, Refuse
    PROVE  ConnInv'
<1> DEFINE c == Head(refuseQ)
<1>0. /\ pc \in [Conns -> PCs] /\ refuseQ \in Seq(Conns) /\ refuseQ # <<>>
      /\ refuseQ' = Tail(refuseQ) /\ pc' = [pc EXCEPT ![c] = "closed"]
      /\ UNCHANGED <<load, now, slots, failed, clock>>
  BY DEF ConnInv, ConnTypes, Refuse, serverVars
<1>1. /\ Tail(refuseQ) \in Seq(Conns) /\ Len(Tail(refuseQ)) = Len(refuseQ) - 1
      /\ Len(refuseQ) \in Nat /\ Len(refuseQ) > 0 /\ c = refuseQ[1] /\ c \in Conns
      /\ \A i \in 1..(Len(refuseQ) - 1) : Tail(refuseQ)[i] = refuseQ[i + 1]
  BY <1>0, HeadTailProperties, EmptySeq
<1>2. pc[c] = "refusing"
  BY <1>1 DEF ConnInv, QueueHolds
<1> HIDE DEF c
<1>3. ConnTypes'
  BY <1>0, <1>1 DEF ConnInv, ConnTypes, PCs
<1>4. Live' = Live
  BY <1>0, <1>2 DEF Live
<1>5. \A i \in 1..Len(refuseQ') :
        /\ i + 1 \in 1..Len(refuseQ) /\ refuseQ'[i] = refuseQ[i + 1] /\ i + 1 # 1
  BY <1>0, <1>1
<1>6. \A i \in 1..Len(refuseQ') : pc'[refuseQ'[i]] = "refusing"
  <2> SUFFICES ASSUME NEW i \in 1..Len(refuseQ') PROVE pc'[refuseQ'[i]] = "refusing"
    OBVIOUS
  <2>1. refuseQ[i + 1] \in Conns /\ pc[refuseQ[i + 1]] = "refusing"
    BY <1>0, <1>5 DEF ConnInv, QueueHolds
  <2>2. refuseQ[i + 1] # c
    <3>1. i + 1 \in 1..Len(refuseQ) /\ 1 \in 1..Len(refuseQ) /\ i + 1 # 1
      BY <1>1, <1>5
    <3> QED
      BY <1>1, <3>1 DEF ConnInv, QueueHolds
  <2> QED
    BY <1>0, <1>5, <2>1, <2>2
<1>7. \A i, j \in 1..Len(refuseQ') : i # j => refuseQ'[i] # refuseQ'[j]
  <2> SUFFICES ASSUME NEW i \in 1..Len(refuseQ'), NEW j \in 1..Len(refuseQ'), i # j
               PROVE  refuseQ'[i] # refuseQ'[j]
    OBVIOUS
  <2>1. i + 1 # j + 1
    BY <1>0, <1>1
  <2> QED
    BY <1>5, <2>1 DEF ConnInv, QueueHolds
<1> QED
  BY <1>0, <1>3, <1>4, <1>6, <1>7 DEF ConnInv, QueueHolds, SlotsBalance

(* Nothing else touches a connection but a restart, which ends them all    *)
(* save the backlog.                                                       *)
LEMMA ConnNext == ConnInv /\ [Next]_vars => ConnInv'
<1> SUFFICES ASSUME ConnInv, [Next]_vars PROVE ConnInv'
  OBVIOUS
<1>0. ConnTypes
  BY DEF ConnInv
<1>1. ASSUME UNCHANGED <<load, pc, refuseQ, slots, failed, now>>, clock' \in {clock, clock + 1}
      PROVE  ConnInv'
  <2>1. \A t \in 0..clock : t \in 0..clock'
    BY <1>0, <1>1 DEF ConnTypes
  <2>2. ConnTypes'
    BY <1>0, <1>1, <2>1 DEF ConnTypes
  <2> QED
    BY <1>1, <2>2 DEF ConnInv, QueueHolds, SlotsBalance, Live
<1>2. CASE BeaconAges \/ UNCHANGED vars
  BY <1>1, <1>2 DEF BeaconAges, vars, connVars, serverVars
<1>3. CASE Tick
  BY <1>1, <1>3 DEF Tick, connVars, serverVars
<1>4. ASSUME NEW n, NEW st, Govern(n, st) PROVE ConnInv'
  BY <1>1, <1>4 DEF Govern, connVars, serverVars
<1>5. CASE Reboot
  <2>1. /\ slots' = MaxConcurrency /\ refuseQ' = <<>> /\ failed' = 0
        /\ pc' = [c \in Conns |-> IF pc[c] = "new" THEN "new" ELSE "closed"]
        /\ UNCHANGED <<load, now, clock>>
    BY <1>5 DEF Reboot, BootState
  <2>2. ConnTypes'
    BY <1>0, <2>1, IngressAssumption DEF ConnTypes, PCs
  <2>3. Live' = {}
    BY <2>1 DEF Live
  <2>4. SlotsBalance'
    BY <2>1, <2>3, FS_EmptySet, IngressAssumption DEF SlotsBalance
  <2> QED
    BY <2>1, <2>2, <2>4 DEF ConnInv, QueueHolds
<1> QED
  BY <1>2, <1>3, <1>4, <1>5, AcceptKeeps, ServeKeeps, RefuseKeeps
     DEF Next, Progress, Supervise, Crash

(* BoundedThreadingHTTPServer: workers never outgrow max_concurrency but   *)
(* by the thread starts that failed, and no slot is lost.                  *)
THEOREM CeilingAlwaysHolds == IngressSpec => []CeilingHolds
<1>1. ConnInv => CeilingHolds
  <2> SUFFICES ASSUME ConnInv PROVE CeilingHolds
    OBVIOUS
  <2>1. Cardinality(Live) \in Nat /\ slots \in Nat /\ failed \in Nat /\ MaxConcurrency \in Nat
    BY LiveFinite, IngressAssumption DEF ConnInv, ConnTypes
  <2> QED
    BY <2>1 DEF ConnInv, SlotsBalance, CeilingHolds
<1> QED
  BY ConnInit, ConnNext, <1>1, PTL DEF IngressSpec

----------------------------------------------------------------------------
(* Who touches what.                                                       *)

registry == <<peers, status, journal, governed, raced>>

(* Among the workers' steps, one issues salts, two register, one charges.  *)
LEMMA ServeQuiet ==
    ASSUME NEW c \in Conns, Serve(c)
    PROVE  /\ ~IssueSalt(c) => UNCHANGED <<seen, honoured>>
           /\ ~Register(c) /\ ~Journal(c) => UNCHANGED registry
           /\ ~RateGate(c) => UNCHANGED rateVars
<1> USE DEF peersVars, registry, rateVars
<1>1. CASE Timeout(c) \/ IngressGate(c) \/ Deny(c) \/ Read(c) \/ CallEngine(c)
           \/ EngineAnswers(c) \/ EngineFails(c) \/ Respond(c) \/ Hello(c)
           \/ CheckEnvelope(c) \/ AdminHook(c) \/ Finish(c)
  <2>1. UNCHANGED peersVars /\ UNCHANGED rateVars
    BY <1>1 DEF Timeout, IngressGate, Deny, Read, CallEngine, EngineAnswers, EngineFails,
       Respond, Hello, CheckEnvelope, AdminHook, Finish
  <2> QED
    BY <2>1
<1>2. CASE RateGate(c)
  BY <1>2 DEF RateGate
<1>3. CASE Register(c)
  BY <1>3 DEF Register, RegisterMemory
<1>4. CASE Journal(c)
  BY <1>4 DEF Journal, RegisterJournal, RegisterUnjournaled
<1>5. CASE IssueSalt(c)
  BY <1>5 DEF IssueSalt, InsertNonce
<1> QED
  BY <1>1, <1>2, <1>3, <1>4, <1>5 DEF Serve

(* The accept loop, the refusal worker, the beacon and the clock touch     *)
(* neither the registry nor the nonces nor the limiter nor the chain.      *)
LEMMA LoopQuiet ==
    ASSUME \/ \E c \in Conns : Accept(c)
           \/ Refuse \/ BeaconAges \/ Tick \/ UNCHANGED vars
    PROVE  UNCHANGED <<seen, honoured, registry, rateVars, chain, contained, load, already>>
<1> USE DEF peersVars, registry, rateVars, nodeVars, connVars, vars
<1>1. ASSUME NEW c \in Conns, Accept(c)
      PROVE  UNCHANGED <<seen, honoured, registry, rateVars, chain, contained, load, already>>
  BY <1>1 DEF Accept, Handshake, Dispatch, StartFails, Overload, Goto
<1>2. CASE Refuse \/ BeaconAges \/ Tick \/ UNCHANGED vars
  BY <1>2 DEF Refuse, BeaconAges, Tick
<1> QED
  BY <1>1, <1>2

(* Governance touches the registry.                                        *)
LEMMA GovernQuiet ==
    ASSUME NEW n, NEW st, Govern(n, st)
    PROVE  UNCHANGED <<seen, honoured, rateVars, chain, contained, connVars, slots, failed, clock>>
BY DEF Govern, SetStatus, nodeVars, serverVars

----------------------------------------------------------------------------
(* Nonces.                                                                 *)

Nonces == {l[c].env.nonce : l \in Loads, c \in Conns}

(* The sweep needs more than the capacity, which an insertion never        *)
(* passes: every nonce honoured since the start is still in the cache.     *)
NonceInv ==
    /\ IsFiniteSet(seen) /\ Cardinality(seen) <= NonceCapacity
    /\ honoured \in Seq(Nonces)
    /\ \A i \in 1..Len(honoured) : \E s \in seen : s.nonce = honoured[i]
    /\ \A i, j \in 1..Len(honoured) : i # j => honoured[i] # honoured[j]

(* Every step keeps the nonces.                                            *)
LEMMA NonceNext == ConnInv /\ NonceInv /\ [Next]_vars => NonceInv'
<1> SUFFICES ASSUME ConnInv, NonceInv, [Next]_vars PROVE NonceInv'
  OBVIOUS
<1>1. CASE UNCHANGED <<seen, honoured>>
  BY <1>1 DEF NonceInv
<1>2. CASE seen' = {} /\ honoured' = <<>>
  <2>1. Cardinality({}) = 0 /\ IsFiniteSet({})
    BY FS_EmptySet
  <2> QED
    BY <1>2, <2>1, PeersAssumption DEF NonceInv
<1>3. ASSUME NEW c \in Conns, IssueSalt(c) PROVE NonceInv'
  <2> DEFINE nonce == load[c].env.nonce
             s == [nonce |-> nonce, expiry |-> now[c] + Fresh]
  <2>0. nonce \in Nonces
    BY DEF ConnInv, ConnTypes, Nonces
  <2>1. Cardinality(seen) \in Nat
    BY FS_CardinalityType DEF NonceInv
  <2>2. Gc(now[c]) = seen
    BY <2>1, PeersAssumption DEF Gc, NonceInv
  <2>3. CASE CanInsert(load[c].env, now[c])
    <3>1. seen' = seen \union {s} /\ honoured' = Append(honoured, nonce)
      BY <1>3, <2>2, <2>3 DEF IssueSalt, InsertNonce
    <3>2. Cardinality(seen) < NonceCapacity /\ \A q \in seen : q.nonce # nonce
      BY <2>2, <2>3 DEF CanInsert
    <3>3. s.nonce = nonce
      OBVIOUS
    <3> HIDE DEF s, nonce
    <3>4. IsFiniteSet(seen') /\ Cardinality(seen') <= NonceCapacity
      <4>1. Cardinality(seen \union {s}) <= Cardinality(seen) + 1 /\ IsFiniteSet(seen \union {s})
            /\ Cardinality(seen \union {s}) \in Nat
        <5>1. IsFiniteSet(seen)
          BY DEF NonceInv
        <5>2. /\ IsFiniteSet(seen \union {s})
              /\ \/ Cardinality(seen \union {s}) = Cardinality(seen)
                 \/ Cardinality(seen \union {s}) = Cardinality(seen) + 1
          BY <5>1, FS_AddElement
        <5> QED
          BY <2>1, <5>2
      <4> QED
        BY <2>1, <3>1, <3>2, <4>1, PeersAssumption
    <3>5. /\ honoured' \in Seq(Nonces) /\ Len(honoured') = Len(honoured) + 1
          /\ honoured'[Len(honoured) + 1] = nonce /\ Len(honoured) \in Nat
          /\ \A i \in 1..Len(honoured) : honoured'[i] = honoured[i]
      BY <2>0, <3>1, AppendProperties DEF NonceInv
    <3>6. \A i \in 1..Len(honoured') : i \in 1..Len(honoured) \/ i = Len(honoured) + 1
      BY <3>5
    <3>7. \A i \in 1..Len(honoured) : \E q \in seen : q.nonce = honoured[i]
      BY DEF NonceInv
    <3>8. \A i \in 1..Len(honoured) : honoured[i] # nonce
      BY <3>2, <3>7
    <3>9. \A i, j \in 1..Len(honoured) : i # j => honoured[i] # honoured[j]
      BY DEF NonceInv
    <3>10. \A i \in 1..Len(honoured') : \E q \in seen' : q.nonce = honoured'[i]
      BY <3>1, <3>3, <3>5, <3>6, <3>7
    <3>11. \A i, j \in 1..Len(honoured') : i # j => honoured'[i] # honoured'[j]
      BY <3>5, <3>6, <3>8, <3>9
    <3> QED
      BY <3>4, <3>5, <3>10, <3>11 DEF NonceInv
  <2>4. CASE ~CanInsert(load[c].env, now[c])
    BY <1>1, <1>3, <2>2, <2>4 DEF IssueSalt, InsertNonce
  <2> QED
    BY <2>3, <2>4
<1>4. ASSUME NEW c \in Conns, Serve(c) PROVE NonceInv'
  BY <1>1, <1>3, <1>4, ServeQuiet
<1>5. ASSUME NEW n, NEW st, Govern(n, st) PROVE NonceInv'
  BY <1>1, <1>5, GovernQuiet
<1>6. CASE Reboot
  BY <1>2, <1>6 DEF Reboot, PeersRestart
<1>7. ASSUME \/ \E c \in Conns : Accept(c)
             \/ Refuse \/ BeaconAges \/ Tick \/ UNCHANGED vars
      PROVE  NonceInv'
  BY <1>1, <1>7, LoopQuiet
<1> QED
  BY <1>4, <1>5, <1>6, <1>7 DEF Next, Progress, Supervise, Crash

(* RequestAuthenticator.check: no envelope is honoured twice between two   *)
(* starts of the node.                                                     *)
THEOREM NeverReplayed == IngressSpec => []NoReplay
<1>1. Init => NonceInv
  <2>1. Cardinality({}) = 0 /\ IsFiniteSet({})
    BY FS_EmptySet
  <2> QED
    BY <2>1, PeersAssumption DEF Init, PeersInit, NonceInv
<1>2. NonceInv => NoReplay
  BY DEF NonceInv, NoReplay
<1> QED
  BY ConnInit, ConnNext, NonceNext, <1>1, <1>2, PTL DEF IngressSpec

----------------------------------------------------------------------------
(* The registry and its journal.                                           *)

AllNodes == NodeIds \union {l[c].bundle.node : l \in Loads, c \in Conns}
Standing == {"none", "active", "suspended"}
Events == [kind : {"PEER_ADMITTED"}, node : AllNodes]
          \union [kind : {"PEER_STATUS"}, node : NodeIds, status : {"active", "suspended"}]

(* What Reloaded is made of: the events that count for a node, and the     *)
(* last of them.                                                           *)
At(j, node) == {i \in DOMAIN j : /\ j[i].node = node
                                 /\ \E k \in 1..i : /\ j[k].node = node
                                                    /\ j[k].kind = "PEER_ADMITTED"}
LastOf(S) == CHOOSE i \in S : \A k \in S : k <= i

(* Reloaded, told with these.                                              *)
LEMMA ReloadedIs ==
    ASSUME NEW j, NEW n
    PROVE  /\ At(j, n) = {} => Reloaded(j, n) = "none"
           /\ At(j, n) # {} /\ j[LastOf(At(j, n))].kind = "PEER_ADMITTED"
                 => Reloaded(j, n) = "active"
           /\ At(j, n) # {} /\ j[LastOf(At(j, n))].kind # "PEER_ADMITTED"
                 => Reloaded(j, n) = j[LastOf(At(j, n))].status
<1> DEFINE at == At(j, n)
           last == LastOf(at)
<1>1. Reloaded(j, n) = CASE at = {} -> "none"
                         [] at # {} /\ j[last].kind = "PEER_ADMITTED" -> "active"
                         [] OTHER -> j[last].status
  BY DEF Reloaded, At, LastOf
<1> HIDE DEF at, last
<1>2. /\ at = {} => Reloaded(j, n) = "none"
      /\ at # {} /\ j[last].kind = "PEER_ADMITTED" => Reloaded(j, n) = "active"
      /\ at # {} /\ j[last].kind # "PEER_ADMITTED" => Reloaded(j, n) = j[last].status
  BY <1>1
<1> QED
  BY <1>2 DEF at, last

(* A non-empty set of places in a journal has a last one.                  *)
LEMMA LastExists ==
    ASSUME NEW n \in Nat, NEW S \in SUBSET (1..n), S # {}
    PROVE  LastOf(S) \in S /\ \A k \in S : k <= LastOf(S)
<1> DEFINE U == {n - x : x \in S}
<1>1. U \in SUBSET Nat /\ U # {}
  <2>1. \A x \in S : n - x \in Nat
    OBVIOUS
  <2> QED
    BY <2>1
<1>2. PICK u \in U : \A v \in U : ~(<<v, u>> \in OpToRel(<, Nat))
  <2> HIDE DEF U
  <2> QED
    BY <1>1, WFMin, NatLessThanWellFounded, Zenon
<1>3. PICK x \in S : u = n - x
  BY <1>2
<1>4. \A y \in S : ~(n - y < n - x)
  <2>1. \A y \in S : n - y \in Nat /\ n - y \in U
    BY <1>1
  <2> HIDE DEF U
  <2> QED
    BY <1>1, <1>2, <1>3, <2>1, Zenon DEF OpToRel
<1>5. \A y \in S : y <= x
  BY <1>4
<1> QED
  BY <1>5 DEF LastOf

(* What an append does to the events of a node.                            *)
LEMMA AppendEvent ==
    ASSUME NEW j \in Seq(Events), NEW e \in Events, NEW n
    PROVE  /\ Append(j, e) \in Seq(Events)
           /\ Admitted(Append(j, e)) =
                Admitted(j) \union IF e.kind = "PEER_ADMITTED" THEN {e.node} ELSE {}
           /\ e.node # n => Reloaded(Append(j, e), n) = Reloaded(j, n)
           /\ e.node = n /\ n \in Admitted(j) /\ e.kind = "PEER_STATUS"
                 => Reloaded(Append(j, e), n) = e.status
<1> DEFINE jj == Append(j, e)
<1>1. /\ jj \in Seq(Events) /\ Len(jj) = Len(j) + 1 /\ jj[Len(j) + 1] = e
      /\ \A i \in 1..Len(j) : jj[i] = j[i]
      /\ Len(j) \in Nat /\ DOMAIN j = 1..Len(j) /\ DOMAIN jj = 1..(Len(j) + 1)
  BY AppendProperties
<1> HIDE DEF jj
<1>2. \A i \in 1..(Len(j) + 1) : i \in 1..Len(j) \/ i = Len(j) + 1
  BY <1>1
<1>3. Admitted(jj) = Admitted(j) \union IF e.kind = "PEER_ADMITTED" THEN {e.node} ELSE {}
  <2>1. \A m : m \in Admitted(jj) <=> \E i \in DOMAIN jj : jj[i].kind = "PEER_ADMITTED" /\ jj[i].node = m
    BY DEF Admitted
  <2>2. \A m : m \in Admitted(j) <=> \E i \in DOMAIN j : j[i].kind = "PEER_ADMITTED" /\ j[i].node = m
    BY DEF Admitted
  <2> QED
    BY <1>1, <1>2, <2>1, <2>2
<1>4. \A i \in 1..Len(j) : i \in At(jj, n) <=> i \in At(j, n)
  <2> SUFFICES ASSUME NEW i \in 1..Len(j) PROVE i \in At(jj, n) <=> i \in At(j, n)
    OBVIOUS
  <2>1. \A k \in 1..i : jj[k] = j[k]
    BY <1>1
  <2> QED
    BY <1>1, <2>1 DEF At
<1>5. ASSUME e.node # n PROVE Reloaded(jj, n) = Reloaded(j, n)
  <2>1. At(jj, n) = At(j, n)
    <3>1. Len(j) + 1 \notin At(jj, n)
      BY <1>1, <1>5 DEF At
    <3>2. At(jj, n) \subseteq 1..(Len(j) + 1) /\ At(j, n) \subseteq 1..Len(j)
      BY <1>1 DEF At
    <3> QED
      BY <1>2, <1>4, <3>1, <3>2
  <2>2. CASE At(j, n) = {}
    BY <2>1, <2>2, ReloadedIs
  <2>3. CASE At(j, n) # {}
    <3>1. LastOf(At(j, n)) \in 1..Len(j)
      <4>1. At(j, n) \in SUBSET (1..Len(j))
        BY <1>1 DEF At
      <4> QED
        BY <1>1, <2>3, <4>1, LastExists
    <3>2. jj[LastOf(At(jj, n))] = j[LastOf(At(j, n))]
      BY <1>1, <2>1, <3>1
    <3> QED
      BY <2>1, <2>3, <3>2, ReloadedIs
  <2> QED
    BY <2>2, <2>3
<1>6. ASSUME e.node = n, n \in Admitted(j), e.kind = "PEER_STATUS"
      PROVE  Reloaded(jj, n) = e.status
  <2>1. PICK k \in 1..Len(j) : j[k].node = n /\ j[k].kind = "PEER_ADMITTED"
    BY <1>1, <1>6 DEF Admitted
  <2>2. Len(j) + 1 \in At(jj, n)
    <3>1. k \in 1..(Len(j) + 1) /\ jj[k] = j[k] /\ Len(j) + 1 \in DOMAIN jj
      BY <1>1
    <3> QED
      BY <1>1, <1>6, <2>1, <3>1 DEF At
  <2>3. LastOf(At(jj, n)) = Len(j) + 1
    <3>1. At(jj, n) \in SUBSET (1..(Len(j) + 1)) /\ Len(j) + 1 \in Nat
      BY <1>1 DEF At
    <3>2. LastOf(At(jj, n)) \in At(jj, n) /\ \A i \in At(jj, n) : i <= LastOf(At(jj, n))
      BY <2>2, <3>1, LastExists
    <3> QED
      BY <1>1, <2>2, <3>1, <3>2
  <2> QED
    BY <1>1, <1>6, <2>2, <2>3, ReloadedIs
<1> QED
  BY <1>1, <1>3, <1>5, <1>6 DEF jj

(* A reload gives every node a standing.                                   *)
LEMMA ReloadedType ==
    ASSUME NEW j \in Seq(Events), NEW n
    PROVE  Reloaded(j, n) \in Standing
<1>1. CASE At(j, n) = {}
  BY <1>1, ReloadedIs DEF Standing
<1>2. CASE At(j, n) # {}
  <2>1. At(j, n) \in SUBSET (1..Len(j)) /\ Len(j) \in Nat
    BY DEF At
  <2>2. LastOf(At(j, n)) \in 1..Len(j)
    BY <1>2, <2>1, LastExists
  <2>3. j[LastOf(At(j, n))] \in Events
    BY <2>2
  <2> DEFINE e == j[LastOf(At(j, n))]
  <2>4. e.kind # "PEER_ADMITTED" => e.status \in Standing
    <3> HIDE DEF e
    <3>1. e \in Events
      BY <2>3 DEF e
    <3> QED
      BY <3>1 DEF Events, Standing
  <2> QED
    BY <1>2, <2>4, ReloadedIs DEF Standing
<1> QED
  BY <1>1, <1>2

(* The node a request asks to register.                                    *)
NodeOf(c) == load[c].bundle.node

RegTypes ==
    /\ journal \in Seq(Events)
    /\ status \in [NodeIds -> Standing]
    /\ governed \in [NodeIds -> Standing]
    /\ raced \subseteq AllNodes
    /\ already \in [Conns -> BOOLEAN]

(* Memory runs ahead of the journal only by the registrations under way    *)
(* and the ones that raced.                                                *)
JournalKnows ==
    /\ Admitted(journal) \subseteq peers
    /\ \A n \in NodeIds : n \in peers /\ n \notin raced =>
          \/ n \in Admitted(journal)
          \/ \E c \in Conns : pc[c] = "journaling" /\ NodeOf(c) = n

(* What a registration read of memory still holds when it is used.         *)
RegistrationTrue ==
    \A c \in Conns :
        /\ pc[c] = "registering" /\ already[c] => NodeOf(c) \in peers
        /\ pc[c] = "journaling" => NodeOf(c) \in peers

(* No first registration is about to be journaled over an order.           *)
OrderNotOverwritten ==
    \A c \in Conns : \A n \in NodeIds :
        pc[c] = "journaling" /\ NodeOf(c) = n /\ governed[n] # "none" => n \in raced

(* An order stands in memory and in what a reload will make of the         *)
(* journal.                                                                *)
OrderStands ==
    \A n \in NodeIds : governed[n] # "none" /\ n \notin raced =>
        /\ n \in Admitted(journal)
        /\ status[n] = governed[n]
        /\ Reloaded(journal, n) = governed[n]

RegInv ==
    /\ RegTypes
    /\ JournalKnows
    /\ RegistrationTrue
    /\ OrderNotOverwritten
    /\ OrderStands

(* A step that leaves the registrations under way where they are.          *)
Calm ==
    /\ UNCHANGED <<registry, load, already>>
    /\ \A c \in Conns : pc'[c] = pc[c] \/ {pc[c], pc'[c]} \intersect {"registering", "journaling"} = {}

(* Outside hello and register every step is calm.                          *)
LEMMA MostAreCalm ==
    ASSUME ConnInv, [Next]_vars
    PROVE  \/ Calm \/ Reboot
           \/ \E c \in Conns : Hello(c) \/ Register(c) \/ Journal(c)
           \/ \E n \in NodeIds, st \in {"active", "suspended"} : Govern(n, st)
<1>0. pc \in [Conns -> PCs]
  BY DEF ConnInv, ConnTypes
<1>1. ASSUME NEW c \in Conns, pc[c] \notin {"registering", "journaling"},
             NEW p, p \notin {"registering", "journaling"}, pc' = [pc EXCEPT ![c] = p],
             UNCHANGED <<registry, load, already>>
      PROVE  Calm
  BY <1>0, <1>1 DEF Calm
<1>2. ASSUME NEW c \in Conns, NEW p, p \notin {"registering", "journaling"}, Goto(c, p),
             pc[c] \notin {"registering", "journaling"}, UNCHANGED registry
      PROVE  Calm
  BY <1>1, <1>2 DEF Goto
<1>3. ASSUME NEW c \in Conns, NEW a, Reply(c, a), pc[c] \notin {"registering", "journaling"},
             UNCHANGED registry
      PROVE  Calm
  BY <1>1, <1>3 DEF Reply
<1>4. ASSUME NEW c \in Conns, Serve(c), ~Hello(c), ~Register(c), ~Journal(c) PROVE Calm
  <2>0. UNCHANGED registry
    BY <1>4, ServeQuiet
  <2>1. CASE Timeout(c)
    BY <1>2, <2>0, <2>1 DEF Timeout
  <2>2. CASE IngressGate(c)
    <3>1. CASE load[c].framed
      BY <1>1, <2>0, <2>2, <3>1 DEF IngressGate
    <3>2. CASE ~load[c].framed
      BY <1>3, <2>0, <2>2, <3>2 DEF IngressGate
    <3> QED
      BY <3>1, <3>2
  <2>3. CASE RateGate(c)
    <3>1. pc[c] = "rating" /\ (Goto(c, "handle") \/ Reply(c, "limited"))
      BY <2>3 DEF RateGate
    <3> QED
      BY <1>2, <1>3, <2>0, <3>1
  <2>4. CASE Deny(c) \/ Read(c) \/ Respond(c) \/ AdminHook(c)
    BY <1>3, <2>0, <2>4 DEF Deny, Read, Respond, AdminHook, Handling
  <2>5. CASE CallEngine(c)
    BY <1>2, <1>3, <2>0, <2>5 DEF CallEngine, Handling
  <2>6. CASE EngineAnswers(c) \/ EngineFails(c)
    BY <1>2, <1>3, <2>0, <2>6 DEF EngineAnswers, EngineFails
  <2>7. CASE CheckEnvelope(c)
    <3>1. CASE EnvelopeValid(load[c].env, clock)
      BY <1>1, <2>0, <2>7, <3>1 DEF CheckEnvelope, Handling
    <3>2. CASE ~EnvelopeValid(load[c].env, clock)
      BY <1>3, <2>0, <2>7, <3>2 DEF CheckEnvelope, Handling
    <3> QED
      BY <3>1, <3>2
  <2>8. CASE IssueSalt(c)
    BY <1>2, <1>3, <2>0, <2>8 DEF IssueSalt
  <2>9. CASE Finish(c)
    BY <1>2, <2>0, <2>9 DEF Finish
  <2> QED
    BY <1>4, <2>1, <2>2, <2>3, <2>4, <2>5, <2>6, <2>7, <2>8, <2>9 DEF Serve
<1>5. ASSUME NEW c \in Conns, Accept(c) PROVE Calm
  <2>1. pc[c] = "new" /\ UNCHANGED registry
        /\ \E p \in {"handshake", "worker", "closed", "refusing"} : Goto(c, p)
    <3>1. pc[c] = "new"
      BY <1>5 DEF Accept, Handshake, Dispatch, StartFails, Overload, Head1, Backlog
    <3>2. UNCHANGED registry
      BY <1>5, LoopQuiet
    <3> QED
      BY <1>5, <3>1, <3>2 DEF Accept, Handshake, Dispatch, StartFails, Overload
  <2> QED
    BY <1>2, <2>1
<1>6. CASE Refuse
  <2>0. refuseQ \in Seq(Conns) /\ refuseQ # <<>> /\ QueueHolds
    BY <1>6 DEF ConnInv, ConnTypes, Refuse
  <2>1. Head(refuseQ) \in Conns /\ pc[Head(refuseQ)] = "refusing"
    BY <2>0, HeadTailProperties, EmptySeq DEF QueueHolds
  <2>2. UNCHANGED <<registry, load, already>> /\ pc' = [pc EXCEPT ![Head(refuseQ)] = "closed"]
    BY <1>6, LoopQuiet DEF Refuse
  <2> QED
    BY <1>1, <2>1, <2>2
<1>7. CASE BeaconAges \/ Tick \/ UNCHANGED vars
  <2>1. UNCHANGED <<registry, load, already>> /\ pc' = pc
    BY <1>7, LoopQuiet DEF BeaconAges, Tick, vars, connVars
  <2> QED
    BY <2>1 DEF Calm
<1> QED
  BY <1>4, <1>5, <1>6, <1>7 DEF Next, Progress, Supervise, Crash

(* Calm steps keep the registry's invariant.                               *)
LEMMA CalmKeeps ==
    ASSUME ConnInv, RegInv, Calm
    PROVE  RegInv'
<1>0. UNCHANGED <<peers, status, journal, governed, raced, load, already>>
  BY DEF Calm, registry
<1>1. \A c \in Conns : /\ pc'[c] \in {"registering", "journaling"} => pc'[c] = pc[c]
                       /\ pc[c] = "journaling" => pc'[c] = "journaling"
  BY DEF Calm
<1>2. RegTypes' /\ OrderStands'
  BY <1>0 DEF RegInv, RegTypes, OrderStands
<1>3. \A c \in Conns : NodeOf(c)' = NodeOf(c)
  BY <1>0 DEF NodeOf
<1>4. JournalKnows'
  BY <1>0, <1>1, <1>3 DEF RegInv, JournalKnows
<1>5. RegistrationTrue'
  BY <1>0, <1>1, <1>3 DEF RegInv, RegistrationTrue
<1>6. OrderNotOverwritten'
  BY <1>0, <1>1, <1>3 DEF RegInv, OrderNotOverwritten
<1> QED
  BY <1>2, <1>4, <1>5, <1>6 DEF RegInv

(* hello reads whether the node is known.                                  *)
LEMMA HelloKeeps ==
    ASSUME ConnInv, RegInv, NEW c \in Conns, Hello(c)
    PROVE  RegInv'
<1>0. pc \in [Conns -> PCs] /\ pc[c] = "handle" /\ already \in [Conns -> BOOLEAN]
  BY DEF ConnInv, ConnTypes, Hello, Handling, RegInv, RegTypes
<1>1. UNCHANGED <<peers, status, journal, governed, raced, load>>
  BY DEF Hello, peersVars, Reply
<1>2. CASE VerifyAdmitted(load[c].bundle)
  <2>1. /\ already' = [already EXCEPT ![c] = NodeOf(c) \in peers]
        /\ pc' = [pc EXCEPT ![c] = "registering"]
    BY <1>2 DEF Hello, NodeOf
  <2>2. already' \in [Conns -> BOOLEAN]
    <3>1. (NodeOf(c) \in peers) \in BOOLEAN
      OBVIOUS
    <3> HIDE DEF NodeOf
    <3> QED
      BY <1>0, <2>1, <3>1
  <2>3. \A d \in Conns : NodeOf(d)' = NodeOf(d)
    BY <1>1 DEF NodeOf
  <2>4. \A d \in Conns : pc'[d] = "journaling" <=> pc[d] = "journaling"
    BY <1>0, <2>1
  <2>5. RegTypes' /\ OrderStands'
    BY <1>1, <2>2 DEF RegInv, RegTypes, OrderStands
  <2>6. JournalKnows' /\ OrderNotOverwritten'
    BY <1>1, <2>3, <2>4 DEF RegInv, JournalKnows, OrderNotOverwritten
  <2>7. RegistrationTrue'
    <3>1. ASSUME NEW d \in Conns, pc'[d] = "registering", already'[d]
          PROVE  NodeOf(d) \in peers
      <4>1. CASE d = c
        BY <1>0, <2>1, <3>1, <4>1
      <4>2. CASE d # c
        BY <1>0, <2>1, <3>1, <4>2 DEF RegInv, RegistrationTrue
      <4> QED
        BY <4>1, <4>2
    <3> QED
      BY <1>1, <2>3, <2>4, <3>1 DEF RegInv, RegistrationTrue
  <2> QED
    BY <2>5, <2>6, <2>7 DEF RegInv
<1>3. CASE ~VerifyAdmitted(load[c].bundle)
  <2>1. Reply(c, "refused")
    BY <1>3 DEF Hello
  <2>2. Calm
    BY <1>0, <1>1, <2>1 DEF Calm, Reply, registry
  <2> QED
    BY <2>2, CalmKeeps
<1> QED
  BY <1>2, <1>3

(* register changes memory.                                                *)
LEMMA RegisterKeeps ==
    ASSUME ConnInv, RegInv, NEW c \in Conns, Register(c)
    PROVE  RegInv'
<1> DEFINE m == NodeOf(c)
<1>0. /\ pc \in [Conns -> PCs] /\ pc[c] = "registering" /\ m \in AllNodes
      /\ journal \in Seq(Events) /\ status \in [NodeIds -> Standing]
      /\ governed \in [NodeIds -> Standing] /\ raced \subseteq AllNodes
      /\ already \in [Conns -> BOOLEAN]
  BY DEF ConnInv, ConnTypes, Register, RegInv, RegTypes, NodeOf, AllNodes
<1>1. /\ peers' = peers \union {m}
      /\ status' = IF already[c] THEN status ELSE [status EXCEPT ![m] = "active"]
      /\ raced' = IF ~already[c] /\ m \in peers THEN raced \union {m} ELSE raced
      /\ UNCHANGED <<journal, governed, load, already>>
      /\ pc' = [pc EXCEPT ![c] = IF already[c] THEN "done" ELSE "journaling"]
  BY DEF Register, RegisterMemory, Goto, Reply, NodeOf
<1>2. already[c] => m \in peers
  BY <1>0 DEF RegInv, RegistrationTrue
<1>3. \A d \in Conns : NodeOf(d)' = NodeOf(d)
  BY <1>1 DEF NodeOf
<1> HIDE DEF m
<1>4. RegTypes'
  BY <1>0, <1>1 DEF RegTypes, Standing
<1>5. \A d \in Conns : pc[d] = "journaling" => pc'[d] = "journaling"
  BY <1>0, <1>1
<1>6. ~already[c] => pc'[c] = "journaling" /\ NodeOf(c) = m
  BY <1>0, <1>1 DEF m
<1>7. raced \subseteq raced' /\ (m \in peers /\ ~already[c] => m \in raced')
  BY <1>1
<1>8. JournalKnows'
  <2>1. Admitted(journal') \subseteq peers'
    BY <1>1 DEF RegInv, JournalKnows
  <2>2. ASSUME NEW n \in NodeIds, n \in peers', n \notin raced'
        PROVE  \/ n \in Admitted(journal')
               \/ \E d \in Conns : pc'[d] = "journaling" /\ NodeOf(d)' = n
    <3>1. CASE n \in peers
      <4>1. \/ n \in Admitted(journal)
            \/ \E d \in Conns : pc[d] = "journaling" /\ NodeOf(d) = n
        BY <1>7, <2>2, <3>1 DEF RegInv, JournalKnows
      <4> QED
        BY <1>1, <1>3, <1>5, <4>1
    <3>2. CASE n \notin peers
      <4>1. n = m /\ ~already[c]
        BY <1>1, <1>2, <2>2, <3>2
      <4> QED
        BY <1>3, <1>6, <4>1
    <3> QED
      BY <3>1, <3>2
  <2> QED
    BY <2>1, <2>2 DEF JournalKnows
<1>9. RegistrationTrue'
  <2>1. \A d \in Conns : d # c => pc'[d] = pc[d]
    BY <1>0, <1>1
  <2>2. NodeOf(c) \in peers' /\ peers \subseteq peers'
    BY <1>1 DEF m
  <2> QED
    BY <1>1, <1>3, <2>1, <2>2 DEF RegInv, RegistrationTrue
<1>10. ASSUME NEW n \in NodeIds, governed[n] # "none", n \notin raced
       PROVE  n \in Admitted(journal) /\ n \in peers
  BY <1>10 DEF RegInv, OrderStands, JournalKnows
<1>11. OrderNotOverwritten'
  <2> SUFFICES ASSUME NEW d \in Conns, NEW n \in NodeIds, pc'[d] = "journaling",
                      NodeOf(d) = n, governed[n] # "none"
               PROVE  n \in raced'
    BY <1>1, <1>3 DEF OrderNotOverwritten
  <2>1. CASE d # c
    <3>1. pc[d] = "journaling"
      BY <1>0, <1>1, <2>1
    <3> QED
      BY <1>7, <3>1 DEF RegInv, OrderNotOverwritten
  <2>2. CASE d = c
    <3>1. ~already[c] /\ n = m
      BY <1>0, <1>1, <2>2 DEF m
    <3> QED
      BY <1>7, <1>10, <3>1
  <2> QED
    BY <2>1, <2>2
<1>12. OrderStands'
  <2> SUFFICES ASSUME NEW n \in NodeIds, governed[n] # "none", n \notin raced'
               PROVE  n \in Admitted(journal) /\ status'[n] = governed[n]
                      /\ Reloaded(journal, n) = governed[n]
    BY <1>1 DEF OrderStands
  <2>1. n \notin raced
    BY <1>7
  <2>2. n \in Admitted(journal) /\ status[n] = governed[n] /\ Reloaded(journal, n) = governed[n]
    BY <2>1 DEF RegInv, OrderStands
  <2>3. status'[n] = status[n]
    <3>1. CASE already[c]
      BY <1>1, <3>1
    <3>2. CASE ~already[c]
      <4>1. n # m
        BY <1>7, <1>10, <2>1, <3>2
      <4> QED
        BY <1>0, <1>1, <3>2, <4>1
    <3> QED
      BY <3>1, <3>2
  <2> QED
    BY <2>2, <2>3
<1> QED
  BY <1>4, <1>8, <1>9, <1>11, <1>12 DEF RegInv

(* register journals the admission, or fails to.                           *)
LEMMA JournalKeeps ==
    ASSUME ConnInv, RegInv, NEW c \in Conns, Journal(c)
    PROVE  RegInv'
<1> DEFINE m == NodeOf(c)
           e == [kind |-> "PEER_ADMITTED", node |-> m]
<1>0. /\ pc \in [Conns -> PCs] /\ pc[c] = "journaling" /\ m \in AllNodes /\ m \in peers
      /\ RegTypes /\ journal \in Seq(Events)
  BY DEF ConnInv, ConnTypes, Journal, RegInv, RegTypes, NodeOf, AllNodes, RegistrationTrue
<1>1. /\ UNCHANGED <<peers, status, governed, load, already>>
      /\ pc' = [pc EXCEPT ![c] = "done"]
      /\ \/ journal' = Append(journal, e) /\ raced' = raced
         \/ journal' = journal /\ raced' = raced \union {m}
  BY DEF Journal, RegisterJournal, RegisterUnjournaled, Goto, Reply, NodeOf
<1>2. e \in Events /\ e.node = m /\ e.kind = "PEER_ADMITTED"
  <2> HIDE DEF m
  <2> QED
    BY <1>0 DEF Events
<1>3. \A d \in Conns : NodeOf(d)' = NodeOf(d)
  BY <1>1 DEF NodeOf
<1>4. \A d \in Conns : d # c => pc'[d] = pc[d]
  BY <1>0, <1>1
<1>5. pc'[c] = "done"
  BY <1>0, <1>1
<1>6. RegistrationTrue'
  BY <1>1, <1>3, <1>4, <1>5 DEF RegInv, RegistrationTrue
<1>7. NodeOf(c) = m
  OBVIOUS
<1> HIDE DEF m, e
<1>8. CASE journal' = Append(journal, e) /\ raced' = raced
  <2>1. /\ journal' \in Seq(Events) /\ Admitted(journal') = Admitted(journal) \union {m}
        /\ \A n : n # m => Reloaded(journal', n) = Reloaded(journal, n)
    BY <1>0, <1>2, <1>8, AppendEvent
  <2>2. RegTypes'
    BY <1>0, <1>1, <1>8, <2>1 DEF RegTypes
  <2>3. JournalKnows'
    <3>1. Admitted(journal') \subseteq peers'
      BY <1>0, <1>1, <2>1 DEF RegInv, JournalKnows
    <3>2. ASSUME NEW n \in NodeIds, n \in peers', n \notin raced', n # m
          PROVE  \/ n \in Admitted(journal')
                 \/ \E d \in Conns : pc'[d] = "journaling" /\ NodeOf(d)' = n
      <4>1. \/ n \in Admitted(journal)
            \/ \E d \in Conns : pc[d] = "journaling" /\ NodeOf(d) = n
        BY <1>1, <1>8, <3>2 DEF RegInv, JournalKnows
      <4> QED
        BY <1>3, <1>4, <1>7, <2>1, <3>2, <4>1
    <3> QED
      BY <2>1, <3>1, <3>2 DEF JournalKnows
  <2>4. OrderNotOverwritten'
    BY <1>1, <1>3, <1>4, <1>5, <1>8 DEF RegInv, OrderNotOverwritten
  <2>5. OrderStands'
    <3> SUFFICES ASSUME NEW n \in NodeIds, governed[n] # "none", n \notin raced
                 PROVE  n \in Admitted(journal') /\ status[n] = governed[n]
                        /\ Reloaded(journal', n) = governed[n]
      BY <1>1, <1>8 DEF OrderStands
    <3>1. n # m
      BY <1>0, <1>7 DEF RegInv, OrderNotOverwritten
    <3> QED
      BY <2>1, <3>1 DEF RegInv, OrderStands
  <2> QED
    BY <1>6, <2>2, <2>3, <2>4, <2>5 DEF RegInv
<1>9. CASE journal' = journal /\ raced' = raced \union {m}
  <2>1. RegTypes'
    BY <1>0, <1>1, <1>9 DEF RegTypes
  <2>2. JournalKnows'
    <3>1. ASSUME NEW n \in NodeIds, n \in peers', n \notin raced'
          PROVE  \/ n \in Admitted(journal')
                 \/ \E d \in Conns : pc'[d] = "journaling" /\ NodeOf(d)' = n
      <4>1. \/ n \in Admitted(journal)
            \/ \E d \in Conns : pc[d] = "journaling" /\ NodeOf(d) = n
        BY <1>1, <1>9, <3>1 DEF RegInv, JournalKnows
      <4> QED
        BY <1>3, <1>4, <1>7, <1>9, <3>1, <4>1
    <3> QED
      BY <1>1, <1>9, <3>1 DEF RegInv, JournalKnows
  <2>3. OrderNotOverwritten'
    BY <1>1, <1>3, <1>4, <1>5, <1>9 DEF RegInv, OrderNotOverwritten
  <2>4. OrderStands'
    BY <1>1, <1>9 DEF RegInv, OrderStands
  <2> QED
    BY <1>6, <2>1, <2>2, <2>3, <2>4 DEF RegInv
<1> QED
  BY <1>1, <1>8, <1>9

(* set_status: memory, and the journal unless the append fails.            *)
LEMMA GovernKeeps ==
    ASSUME ConnInv, RegInv, NEW m \in NodeIds, NEW st \in {"active", "suspended"}, Govern(m, st)
    PROVE  RegInv'
<1> DEFINE e == [kind |-> "PEER_STATUS", node |-> m, status |-> st]
<1>0. /\ journal \in Seq(Events) /\ status \in [NodeIds -> Standing]
      /\ governed \in [NodeIds -> Standing] /\ raced \subseteq AllNodes
      /\ already \in [Conns -> BOOLEAN] /\ m \in AllNodes
  BY DEF RegInv, RegTypes, AllNodes
<1>1. /\ m \in peers /\ status' = [status EXCEPT ![m] = st]
      /\ raced' = IF m \in Registering THEN raced \union {m} ELSE raced
      /\ UNCHANGED <<peers, load, already, pc>>
      /\ \/ journal' = Append(journal, e) /\ governed' = [governed EXCEPT ![m] = st]
         \/ journal' = journal /\ governed' = [governed EXCEPT ![m] = "none"]
  BY DEF Govern, SetStatus, connVars
<1>2. e \in Events /\ e.node = m /\ e.kind = "PEER_STATUS" /\ e.status = st
  BY DEF Events
<1> HIDE DEF e
<1>3. \A d \in Conns : NodeOf(d)' = NodeOf(d)
  BY <1>1 DEF NodeOf
<1>4. /\ journal' \in Seq(Events) /\ Admitted(journal') = Admitted(journal)
      /\ \A n : n # m => Reloaded(journal', n) = Reloaded(journal, n)
  <2>1. CASE journal' = journal
    BY <1>0, <2>1
  <2>2. CASE journal' = Append(journal, e)
    <3>1. Append(journal, e) \in Seq(Events) /\ Admitted(Append(journal, e)) = Admitted(journal)
      BY <1>0, <1>2, AppendEvent
    <3>2. \A n : n # m => Reloaded(Append(journal, e), n) = Reloaded(journal, n)
      BY <1>0, <1>2, AppendEvent
    <3> QED
      BY <2>2, <3>1, <3>2
  <2> QED
    BY <1>1, <2>1, <2>2
<1>5. RegTypes'
  BY <1>0, <1>1, <1>4 DEF RegTypes, Standing
<1>6. raced \subseteq raced'
  BY <1>1
<1>7. JournalKnows' /\ RegistrationTrue'
  BY <1>1, <1>3, <1>4, <1>6 DEF RegInv, JournalKnows, RegistrationTrue
<1>8. \A d \in Conns : pc[d] = "journaling" /\ NodeOf(d) = m => m \in raced'
  BY <1>1 DEF Registering, NodeOf
<1>9. \A n \in NodeIds : n # m => governed'[n] = governed[n] /\ status'[n] = status[n]
  BY <1>0, <1>1
<1>10. OrderNotOverwritten'
  BY <1>1, <1>3, <1>6, <1>8, <1>9 DEF RegInv, OrderNotOverwritten
<1>11. OrderStands'
  <2> SUFFICES ASSUME NEW n \in NodeIds, governed'[n] # "none", n \notin raced'
               PROVE  n \in Admitted(journal') /\ status'[n] = governed'[n]
                      /\ Reloaded(journal', n) = governed'[n]
    BY DEF OrderStands
  <2>1. CASE n # m
    BY <1>4, <1>6, <1>9, <2>1 DEF RegInv, OrderStands
  <2>2. CASE n = m
    <3>1. journal' = Append(journal, e) /\ governed'[m] = st /\ status'[m] = st
      BY <1>0, <1>1, <2>2
    <3>2. m \in Admitted(journal)
      BY <1>1, <1>6, <1>8, <2>2 DEF RegInv, JournalKnows
    <3>3. Reloaded(journal', m) = st
      BY <1>0, <1>2, <3>1, <3>2, AppendEvent
    <3> QED
      BY <1>4, <2>2, <3>1, <3>2, <3>3
  <2> QED
    BY <2>1, <2>2
<1> QED
  BY <1>5, <1>7, <1>10, <1>11 DEF RegInv

(* A restart takes the registry from the journal.                          *)
LEMMA RebootKeeps ==
    ASSUME ConnInv, RegInv, Reboot
    PROVE  RegInv'
<1>1. /\ peers' = Admitted(journal) /\ status' = [n \in NodeIds |-> Reloaded(journal, n)]
      /\ UNCHANGED <<journal, governed, raced, already>>
      /\ pc' = [c \in Conns |-> IF pc[c] = "new" THEN "new" ELSE "closed"]
  BY DEF Reboot, PeersRestart
<1>2. \A c \in Conns : pc'[c] \in {"new", "closed"}
  BY <1>1
<1>3. RegTypes'
  BY <1>1, ReloadedType DEF RegInv, RegTypes
<1>4. JournalKnows' /\ RegistrationTrue' /\ OrderNotOverwritten'
  BY <1>1, <1>2 DEF JournalKnows, RegistrationTrue, OrderNotOverwritten
<1>5. OrderStands'
  BY <1>1 DEF RegInv, OrderStands
<1> QED
  BY <1>3, <1>4, <1>5 DEF RegInv

(* PeerRegistry: a suspension is undone only by governance, save for a     *)
(* registration that raced it or was never journaled.                      *)
THEOREM SuspensionAlwaysSticks == IngressSpec => []SuspensionSticks
<1>1. Init => RegInv
  <2> SUFFICES ASSUME Init PROVE RegInv
    OBVIOUS
  <2>0. PeersInit
    BY DEF Init
  <2>1. journal = <<>> /\ Admitted(journal) = {}
    BY <2>0 DEF PeersInit, Admitted
  <2>2. journal \in Seq(Events) /\ raced \subseteq AllNodes
    BY <2>0 DEF PeersInit
  <2>3. status \in [NodeIds -> Standing] /\ governed \in [NodeIds -> Standing]
    BY <2>0 DEF PeersInit, Standing
  <2>4. already \in [Conns -> BOOLEAN]
    BY DEF Init
  <2>5. \A n \in NodeIds : governed[n] = "none"
    BY <2>0 DEF PeersInit
  <2>6. \A c \in Conns : pc[c] = "new"
    BY DEF Init
  <2>7. peers = {}
    BY <2>0 DEF PeersInit
  <2> QED
    BY <2>1, <2>2, <2>3, <2>4, <2>5, <2>6, <2>7 DEF RegInv, RegTypes, JournalKnows,
       RegistrationTrue, OrderNotOverwritten, OrderStands
<1>2. ConnInv /\ RegInv /\ [Next]_vars => RegInv'
  BY MostAreCalm, CalmKeeps, HelloKeeps, RegisterKeeps, JournalKeeps, GovernKeeps, RebootKeeps
<1>3. RegInv => SuspensionSticks
  BY DEF RegInv, OrderStands, SuspensionSticks, IsFriend
<1> QED
  BY ConnInit, ConnNext, <1>1, <1>2, <1>3, PTL DEF IngressSpec

----------------------------------------------------------------------------
(* The rate limiter.                                                       *)

WindowType == [start : Nat, used : Nat, rejected : Nat, witnessed : BOOLEAN, open : BOOLEAN]
Charges == [conn : Conns, key : Keys, read : Nat, at : Nat]
Kinds == {"boot", "RATE_LIMIT", "INFER", "SCORE", "SALT", "contain", "release"}
Records == [kind : Kinds, conn : Nat, key : Keys \union {"node"}, start : Nat]

RateTypes ==
    /\ windows \in [Keys -> WindowType]
    /\ charged \subseteq Charges /\ IsFiniteSet(charged)
    /\ chain \in Seq(Records)

(* The charges of a key that were made at the time they read, between two  *)
(* times.                                                                  *)
TimelyIn(S, k, from, to) ==
    {a \in S : a.key = k /\ a.read = a.at /\ from <= a.at /\ a.at < to}
Timely(k, from, to) == TimelyIn(charged, k, from, to)

(* The open window of a key: it began in the past, holds no more charges   *)
(* than it counts, no timely charge is past its end, and those of the      *)
(* stretch before it came from one window.                                 *)
WindowHolds(k, w) ==
    /\ w.start <= clock /\ w.used <= Limit
    /\ ~w.open => w = NoWindow /\ \A a \in charged : a.key # k
    /\ \A a \in charged : a.key = k /\ a.read = a.at => a.at < w.start + Window
    /\ Cardinality(Timely(k, w.start, w.start + Window)) <= w.used
    /\ \A u \in Nat : u + Window > w.start => Cardinality(Timely(k, u, w.start)) <= Limit
BudgetAlways ==
    \A k \in Keys, t \in Nat : Cardinality(Timely(k, t, t + Window)) <= 2 * Limit

(* The witness records of a key since the last start of the node.          *)
Since(k) == {i \in 1..Len(chain) : /\ chain[i].kind = "RATE_LIMIT" /\ chain[i].key = k
                                   /\ \A m \in i..Len(chain) : chain[m].kind # "boot"}

(* A window is witnessed by one record, and no record is of a later one.   *)
EvidenceHolds(k, w) ==
    /\ \A i, j \in Since(k) : chain[i].start = chain[j].start => i = j
    /\ \A i \in Since(k) : /\ w.open /\ chain[i].start <= w.start
                           /\ chain[i].start = w.start => w.witnessed
    /\ w.witnessed => \E i \in Since(k) : chain[i].start = w.start
    /\ w.rejected >= AbuseThreshold => w.witnessed

RateInv ==
    /\ RateTypes
    /\ \A k \in Keys : WindowHolds(k, windows[k])
    /\ BudgetAlways
    /\ \A k \in Keys : EvidenceHolds(k, windows[k])

(* The window a request is charged to: the open one, or a new one.         *)
LEMMA FresherIs ==
    ASSUME NEW w \in WindowType, NEW t \in Nat
    PROVE  \/ Fresher(w, t) = w /\ w.open /\ t < w.start + Window
           \/ /\ Fresher(w, t) = [NoWindow EXCEPT !.start = t, !.open = TRUE]
              /\ ~w.open \/ t >= w.start + Window
<1>1. w.start \in Nat /\ Window \in Nat
  BY IngressAssumption DEF WindowType
<1>2. CASE ~w.open \/ t - w.start >= Window
  <2>1. Fresher(w, t) = [NoWindow EXCEPT !.start = t, !.open = TRUE]
    BY <1>2 DEF Fresher
  <2>2. ~w.open \/ t >= w.start + Window
    BY <1>1, <1>2
  <2> QED
    BY <2>1, <2>2
<1>3. CASE ~(~w.open \/ t - w.start >= Window)
  BY <1>1, <1>3 DEF Fresher
<1> QED
  BY <1>2, <1>3

(* The sets of timely charges are finite, and narrower ones smaller.       *)
LEMMA TimelyFinite ==
    ASSUME RateTypes, NEW k, NEW u \in Nat, NEW v \in Nat
    PROVE  IsFiniteSet(Timely(k, u, v)) /\ Cardinality(Timely(k, u, v)) \in Nat
BY FS_Subset, FS_CardinalityType DEF Timely, TimelyIn, RateTypes

(* A set is no larger than one it is part of.                              *)
LEMMA Narrower ==
    ASSUME NEW S, NEW T, IsFiniteSet(T), S \subseteq T
    PROVE  /\ IsFiniteSet(S) /\ Cardinality(S) \in Nat /\ Cardinality(T) \in Nat
           /\ Cardinality(S) <= Cardinality(T)
BY FS_Subset, FS_CardinalityType

(* The union of two finite sets is no larger than both together.           *)
LEMMA TogetherAtMost ==
    ASSUME NEW S, NEW T, IsFiniteSet(S), IsFiniteSet(T)
    PROVE  /\ IsFiniteSet(S \union T) /\ Cardinality(S \union T) \in Nat
           /\ Cardinality(S \union T) <= Cardinality(S) + Cardinality(T)
<1>1. /\ IsFiniteSet(S \union T)
      /\ Cardinality(S \union T) = Cardinality(S) + Cardinality(T) - Cardinality(S \intersect T)
  BY FS_Union
<1>2. Cardinality(S) \in Nat /\ Cardinality(T) \in Nat /\ Cardinality(S \union T) \in Nat
  BY <1>1, FS_CardinalityType
<1>3. Cardinality(S \intersect T) \in Nat
  BY FS_Intersection, FS_CardinalityType
<1> QED
  BY <1>1, <1>2, <1>3

(* Every stretch that reaches the open window is covered by it and the one *)
(* before it.                                                              *)
LEMMA StretchOfTwo ==
    ASSUME NEW S \in SUBSET Charges, IsFiniteSet(S), NEW k,
           NEW start \in Nat, NEW used \in Nat, used <= Limit, NEW t \in Nat, t + Window > start,
           \A a \in S : a.key = k /\ a.read = a.at => a.at < start + Window,
           Cardinality(TimelyIn(S, k, start, start + Window)) <= used,
           Cardinality(TimelyIn(S, k, t, start)) <= Limit
    PROVE  Cardinality(TimelyIn(S, k, t, t + Window)) <= 2 * Limit
<1> DEFINE B == TimelyIn(S, k, t, start)
           C == TimelyIn(S, k, start, start + Window)
           D == TimelyIn(S, k, t, t + Window)
<1>0. Window \in Nat /\ Limit \in Nat
  BY IngressAssumption
<1>1. B \subseteq S /\ C \subseteq S
  BY DEF TimelyIn
<1>2. \A a \in S : a.at \in Nat
  BY DEF Charges
<1>3. D \subseteq B \union C
  BY <1>0, <1>2 DEF TimelyIn
<1> HIDE DEF B, C, D
<1>4. IsFiniteSet(B) /\ IsFiniteSet(C) /\ Cardinality(B) \in Nat /\ Cardinality(C) \in Nat
  BY <1>1, Narrower
<1>5. Cardinality(B \union C) \in Nat /\ Cardinality(B \union C) <= Cardinality(B) + Cardinality(C)
      /\ IsFiniteSet(B \union C)
  BY <1>4, TogetherAtMost
<1>6. Cardinality(D) \in Nat /\ Cardinality(D) <= Cardinality(B \union C)
  BY <1>3, <1>5, Narrower
<1>7. Cardinality(B) <= Limit /\ Cardinality(C) <= used
  BY DEF B, C
<1>8. Cardinality(D) <= 2 * Limit
  BY <1>0, <1>4, <1>5, <1>6, <1>7
<1> QED
  BY <1>8 DEF D

(* The window a request is about to be charged to satisfies what windows   *)
(* satisfy, whether it is the open one or just begins.                     *)
LEMMA RollKeeps ==
    ASSUME ConnInv, RateInv, NEW k \in Keys, NEW t \in 0..clock
    PROVE  LET w == Fresher(windows[k], t)
           IN /\ w \in WindowType /\ w.open /\ t < w.start + Window
              /\ WindowHolds(k, w) /\ EvidenceHolds(k, w)
<1> DEFINE o == windows[k]
           w == Fresher(o, t)
           n == [NoWindow EXCEPT !.start = t, !.open = TRUE]
<1>0. /\ RateTypes /\ o \in WindowType /\ clock \in Nat /\ t \in Nat /\ t <= clock
      /\ Window \in Nat \ {0} /\ Limit \in Nat /\ AbuseThreshold \in Nat \ {0}
      /\ WindowHolds(k, o) /\ EvidenceHolds(k, o)
  BY IngressAssumption DEF ConnInv, ConnTypes, RateInv, RateTypes
<1>1. \/ w = o /\ o.open /\ t < o.start + Window
      \/ w = n /\ (~o.open \/ t >= o.start + Window)
  BY <1>0, FresherIs
<1>2. CASE w = o /\ o.open /\ t < o.start + Window
  BY <1>0, <1>2
<1>3. CASE w = n /\ (~o.open \/ t >= o.start + Window)
  <2>1. /\ n \in WindowType /\ n.start = t /\ n.used = 0 /\ n.rejected = 0
        /\ n.witnessed = FALSE /\ n.open = TRUE
    BY <1>0 DEF WindowType, NoWindow
  <2>2. o.start \in Nat /\ o.used \in Nat
    BY <1>0 DEF WindowType
  <2>3. \A a \in charged : a.at \in Nat
    BY <1>0 DEF RateTypes, Charges
  <2>4. \A a \in charged : a.key = k /\ a.read = a.at => o.open /\ a.at < o.start + Window /\ a.at < t
    <3>1. CASE o.open
      BY <1>0, <1>3, <2>2, <2>3, <3>1 DEF WindowHolds
    <3>2. CASE ~o.open
      BY <1>0, <3>2 DEF WindowHolds
    <3> QED
      BY <3>1, <3>2
  <2>5. Timely(k, t, t + Window) = {}
    BY <1>0, <2>3, <2>4 DEF Timely, TimelyIn
  <2>6. ASSUME NEW u \in Nat, u + Window > t PROVE Cardinality(Timely(k, u, t)) <= Limit
    <3>1. Timely(k, u, t) \subseteq Timely(k, o.start, o.start + Window)
      <4>1. ASSUME NEW a \in Timely(k, u, t) PROVE a \in Timely(k, o.start, o.start + Window)
        <5>1. a \in charged /\ a.key = k /\ a.read = a.at /\ u <= a.at /\ a.at \in Nat
          BY <2>3 DEF Timely, TimelyIn
        <5>2. o.open /\ a.at < o.start + Window
          BY <2>4, <5>1
        <5>3. o.start <= a.at
          BY <1>0, <1>3, <2>2, <2>6, <5>1, <5>2
        <5> QED
          BY <5>1, <5>2, <5>3 DEF Timely, TimelyIn
      <4> QED
        BY <4>1
    <3>2. IsFiniteSet(Timely(k, o.start, o.start + Window))
      BY <1>0, <2>2, TimelyFinite
    <3>3. Cardinality(Timely(k, o.start, o.start + Window)) <= o.used /\ o.used <= Limit
      BY <1>0 DEF WindowHolds
    <3> QED
      BY <1>0, <2>2, <3>1, <3>2, <3>3, Narrower
  <2>7. WindowHolds(k, n)
    <3>1. Cardinality(Timely(k, t, t + Window)) = 0
      BY <2>5, FS_EmptySet
    <3>2. \A a \in charged : a.key = k /\ a.read = a.at => a.at < t + Window
      BY <1>0, <2>3, <2>4
    <3> HIDE DEF n
    <3> QED
      BY <1>0, <2>1, <2>6, <3>1, <3>2 DEF WindowHolds
  <2>8. EvidenceHolds(k, n)
    <3>1. \A i \in Since(k) : o.open /\ chain[i].start <= o.start
      BY <1>0 DEF EvidenceHolds
    <3>2. \A i \in Since(k) : chain[i].start \in Nat
      <4>1. \A i \in 1..Len(chain) : chain[i] \in Records
        BY <1>0 DEF RateTypes
      <4> QED
        BY <4>1 DEF Since, Records
    <3>3. \A i \in Since(k) : chain[i].start < t
      BY <1>0, <1>3, <2>2, <3>1, <3>2
    <3>4. \A i, j \in Since(k) : chain[i].start = chain[j].start => i = j
      BY <1>0 DEF EvidenceHolds
    <3>5. \A i \in Since(k) : chain[i].start <= t /\ chain[i].start # t
      BY <1>0, <3>2, <3>3
    <3> HIDE DEF n
    <3>6. ~(n.rejected >= AbuseThreshold)
      BY <1>0, <2>1
    <3> QED
      BY <2>1, <3>4, <3>5, <3>6 DEF EvidenceHolds
  <2> HIDE DEF n
  <2>9. t < n.start + Window
    BY <1>0, <2>1
  <2> QED
    BY <1>3, <2>1, <2>7, <2>8, <2>9
<1> QED
  BY <1>1, <1>2, <1>3

(* What an append does to the evidence.                                    *)
LEMMA SinceAppend ==
    ASSUME chain \in Seq(Records), NEW r \in Records, chain' = Append(chain, r), NEW k
    PROVE  /\ chain' \in Seq(Records) /\ Len(chain') = Len(chain) + 1 /\ Len(chain) \in Nat
           /\ chain'[Len(chain) + 1] = r
           /\ \A i \in 1..Len(chain) : chain'[i] = chain[i]
           /\ r.kind = "boot" => Since(k)' = {}
           /\ r.kind \notin {"boot", "RATE_LIMIT"} => Since(k)' = Since(k)
           /\ r.kind = "RATE_LIMIT" =>
                 Since(k)' = Since(k) \union IF r.key = k THEN {Len(chain) + 1} ELSE {}
<1>1. /\ chain' \in Seq(Records) /\ Len(chain') = Len(chain) + 1 /\ Len(chain) \in Nat
      /\ chain'[Len(chain) + 1] = r
      /\ \A i \in 1..Len(chain) : chain'[i] = chain[i]
  BY AppendProperties
<1>2. \A i \in 1..Len(chain') : i \in 1..Len(chain) \/ i = Len(chain) + 1
  BY <1>1
<1>3. \A i : i \in Since(k)' <=> /\ i \in 1..Len(chain')
                                 /\ chain'[i].kind = "RATE_LIMIT" /\ chain'[i].key = k
                                 /\ \A m \in i..Len(chain') : chain'[m].kind # "boot"
  BY DEF Since
<1>4. CASE r.kind = "boot"
  <2>1. \A i \in 1..Len(chain') : Len(chain) + 1 \in i..Len(chain')
    BY <1>1
  <2> QED
    BY <1>1, <1>3, <1>4, <2>1
<1>5. ASSUME r.kind # "boot", NEW i \in 1..Len(chain) PROVE i \in Since(k)' <=> i \in Since(k)
  <2>1. \A m : m \in i..Len(chain') <=> m \in i..Len(chain) \/ m = Len(chain) + 1
    BY <1>1
  <2>2. \A m \in i..Len(chain) : m \in 1..Len(chain)
    BY <1>1
  <2>3. (\A m \in i..Len(chain') : chain'[m].kind # "boot")
          <=> (\A m \in i..Len(chain) : chain[m].kind # "boot")
    BY <1>1, <1>5, <2>1, <2>2
  <2>4. i \in 1..Len(chain') /\ chain'[i] = chain[i]
    BY <1>1
  <2> QED
    BY <1>3, <2>3, <2>4 DEF Since
<1>6. Since(k) \subseteq 1..Len(chain) /\ Since(k)' \subseteq 1..Len(chain')
  BY <1>3 DEF Since
<1>7. CASE r.kind \notin {"boot", "RATE_LIMIT"}
  <2>1. Len(chain) + 1 \notin Since(k)'
    BY <1>1, <1>3, <1>7
  <2>2. Since(k)' = Since(k)
    BY <1>2, <1>5, <1>6, <1>7, <2>1
  <2> QED
    BY <1>1, <1>7, <2>2
<1>8. CASE r.kind = "RATE_LIMIT"
  <2>1. Len(chain) + 1 \in Since(k)' <=> r.key = k
    <3>1. (Len(chain) + 1)..Len(chain') = {Len(chain) + 1} /\ Len(chain) + 1 \in 1..Len(chain')
      BY <1>1
    <3> QED
      BY <1>1, <1>3, <1>8, <3>1
  <2>2. Len(chain) + 1 \notin Since(k)
    BY <1>1, <1>6
  <2>3. Since(k)' = Since(k) \union IF r.key = k THEN {Len(chain) + 1} ELSE {}
    BY <1>2, <1>5, <1>6, <1>8, <2>1, <2>2
  <2> QED
    BY <1>1, <1>8, <2>3
<1>9. CASE r.kind \in {"boot"} \/ r.kind \notin {"boot", "RATE_LIMIT"} \/ r.kind = "RATE_LIMIT"
  BY <1>1, <1>4, <1>7, <1>8, <1>9
<1> QED
  BY <1>9

(* Steps of others: the limiter is not touched, time may pass, and what    *)
(* the chain gains is not about it.                                        *)
LEMMA RateQuiet ==
    ASSUME ConnInv, RateInv, UNCHANGED rateVars, clock' \in {clock, clock + 1},
           \/ chain' = chain
           \/ \E r \in Records : r.kind \notin {"boot", "RATE_LIMIT"} /\ chain' = Append(chain, r)
    PROVE  RateInv'
<1>0. /\ RateTypes /\ clock \in Nat /\ UNCHANGED <<windows, charged>> /\ chain \in Seq(Records)
  BY DEF ConnInv, ConnTypes, RateInv, RateTypes, rateVars
<1>1. /\ chain' \in Seq(Records)
      /\ \A k : Since(k)' = Since(k)
      /\ \A i \in 1..Len(chain) : chain'[i] = chain[i]
  <2>1. CASE chain' = chain
    BY <1>0, <2>1 DEF Since
  <2>2. ASSUME NEW r \in Records, r.kind \notin {"boot", "RATE_LIMIT"}, chain' = Append(chain, r)
        PROVE  /\ chain' \in Seq(Records)
               /\ \A k : Since(k)' = Since(k)
               /\ \A i \in 1..Len(chain) : chain'[i] = chain[i]
    BY <1>0, <2>2, SinceAppend
  <2> QED
    BY <2>1, <2>2
<1>2. RateTypes'
  BY <1>0, <1>1 DEF RateTypes
<1>3. \A k, u, v : Timely(k, u, v)' = Timely(k, u, v)
  BY <1>0 DEF Timely, TimelyIn
<1>4. BudgetAlways'
  BY <1>3 DEF BudgetAlways, RateInv
<1>5. ASSUME NEW k \in Keys PROVE WindowHolds(k, windows[k])'
  <2>1. WindowHolds(k, windows[k]) /\ windows[k].start \in Nat
    BY <1>0 DEF RateInv, RateTypes, WindowType
  <2>2. windows[k].start <= clock'
    BY <1>0, <2>1 DEF WindowHolds
  <2> QED
    BY <1>0, <1>3, <2>1, <2>2 DEF WindowHolds
<1>6. ASSUME NEW k \in Keys PROVE EvidenceHolds(k, windows[k])'
  <2>1. EvidenceHolds(k, windows[k])
    BY DEF RateInv
  <2>2. Since(k)' = Since(k) /\ \A i \in Since(k) : chain'[i] = chain[i]
    BY <1>1 DEF Since
  <2>3. windows' = windows
    BY <1>0
  <2> QED
    BY <2>1, <2>2, <2>3 DEF EvidenceHolds
<1> QED
  BY <1>2, <1>4, <1>5, <1>6 DEF RateInv

(* A restart forgets the windows and starts the evidence anew.             *)
LEMMA RateReboot ==
    ASSUME ConnInv, RateInv, Reboot
    PROVE  RateInv'
<1> DEFINE r == Record("boot", 0, "node", 0)
<1>0. /\ clock' = clock /\ clock \in Nat /\ windows' = [k \in Keys |-> NoWindow] /\ charged' = {}
      /\ chain' = Append(chain, r) /\ chain \in Seq(Records)
      /\ Window \in Nat \ {0} /\ Limit \in Nat /\ AbuseThreshold \in Nat \ {0}
  BY IngressAssumption DEF ConnInv, ConnTypes, RateInv, RateTypes, Reboot, BootState
<1>1. r \in Records /\ r.kind = "boot"
  BY DEF Record, Records, Kinds
<1> HIDE DEF r
<1>2. chain' \in Seq(Records) /\ \A k : Since(k)' = {}
  BY <1>0, <1>1, SinceAppend
<1>3. NoWindow \in WindowType /\ NoWindow.start = 0 /\ NoWindow.used = 0 /\ NoWindow.rejected = 0
      /\ NoWindow.witnessed = FALSE
  BY DEF NoWindow, WindowType
<1>4. Cardinality({}) = 0 /\ IsFiniteSet({})
  BY FS_EmptySet
<1>5. RateTypes'
  BY <1>0, <1>2, <1>3, <1>4 DEF RateTypes
<1>6. \A k, u, v : Cardinality(Timely(k, u, v)') = 0
  <2>1. \A k, u, v : Timely(k, u, v)' = {}
    BY <1>0 DEF Timely, TimelyIn
  <2> QED
    BY <1>4, <2>1, Zenon
<1>7. BudgetAlways'
  BY <1>0, <1>6 DEF BudgetAlways
<1>8. ASSUME NEW k \in Keys PROVE WindowHolds(k, windows[k])' /\ EvidenceHolds(k, windows[k])'
  <2>1. windows'[k] = NoWindow
    BY <1>0
  <2>2. WindowHolds(k, windows[k])'
    BY <1>0, <1>3, <1>6, <2>1 DEF WindowHolds
  <2>3. EvidenceHolds(k, windows[k])'
    BY <1>0, <1>2, <1>3, <2>1 DEF EvidenceHolds
  <2> QED
    BY <2>2, <2>3
<1> QED
  BY <1>5, <1>7, <1>8 DEF RateInv

(* The certificate of a request is a key of the limiter.                   *)
LEMMA CertIsKey ==
    ASSUME ConnInv, NEW c \in Conns
    PROVE  Cert(c) \in Keys
<1>1. load \in Loads /\ c \in DOMAIN load
  BY IngressAssumption DEF ConnInv, ConnTypes, Conns
<1> QED
  BY <1>1 DEF Cert, Keys

(* check, with room in the window: one more request is admitted.           *)
LEMMA ChargeKeeps ==
    ASSUME ConnInv, RateInv, NEW c \in Conns, NEW k \in Keys, NEW w \in WindowType,
           w.open, now[c] < w.start + Window, WindowHolds(k, w), EvidenceHolds(k, w),
           w.used < Limit, windows' = [windows EXCEPT ![k] = [w EXCEPT !.used = @ + 1]],
           charged' = charged \union {[conn |-> c, key |-> k, read |-> now[c], at |-> clock]},
           UNCHANGED <<chain, clock>>
    PROVE  RateInv'
<1> DEFINE a == [conn |-> c, key |-> k, read |-> now[c], at |-> clock]
           v == [w EXCEPT !.used = @ + 1]
<1>0. /\ RateTypes /\ clock \in Nat /\ now[c] \in Nat /\ Window \in Nat /\ Limit \in Nat
      /\ windows \in [Keys -> WindowType] /\ charged \subseteq Charges /\ IsFiniteSet(charged)
  BY IngressAssumption DEF ConnInv, ConnTypes, RateInv, RateTypes
<1>1. /\ v \in WindowType /\ v.start = w.start /\ v.used = w.used + 1 /\ v.open
      /\ v.rejected = w.rejected /\ v.witnessed = w.witnessed
      /\ w.start \in Nat /\ w.used \in Nat /\ w.start <= clock
  BY DEF WindowType, WindowHolds
<1>2. a \in Charges /\ a.key = k /\ a.read = now[c] /\ a.at = clock
  BY <1>0 DEF Charges
<1>3. windows' = [windows EXCEPT ![k] = v] /\ charged' = charged \union {a}
  OBVIOUS
<1> HIDE DEF a, v
<1>4. windows'[k] = v /\ \A kk \in Keys : kk # k => windows'[kk] = windows[kk]
  BY <1>0, <1>3
<1>5. charged' \subseteq Charges /\ IsFiniteSet(charged')
  BY <1>0, <1>2, <1>3, FS_AddElement
<1>6. RateTypes'
  BY <1>0, <1>1, <1>3, <1>5 DEF RateTypes
<1>7. \A kk \in Keys : \A from, to :
        ~(kk = k /\ now[c] = clock /\ from <= clock /\ clock < to)
           => Timely(kk, from, to)' = Timely(kk, from, to)
  BY <1>2, <1>3 DEF Timely, TimelyIn
<1>8. \A b \in charged' : b.key = k /\ b.read = b.at => b.at < v.start + Window
  BY <1>1, <1>2, <1>3 DEF WindowHolds
<1>9. Cardinality(Timely(k, w.start, w.start + Window)') <= w.used + 1
  <2> DEFINE B == Timely(k, w.start, w.start + Window)
  <2>1. Timely(k, w.start, w.start + Window)' \subseteq B \union {a}
    BY <1>3 DEF Timely, TimelyIn
  <2>2. IsFiniteSet(B) /\ Cardinality(B) \in Nat
    BY <1>0, <1>1, TimelyFinite
  <2>3. Cardinality(B) <= w.used
    BY DEF WindowHolds
  <2> HIDE DEF B
  <2>4. IsFiniteSet(B \union {a}) /\ Cardinality(B \union {a}) \in Nat
        /\ \/ Cardinality(B \union {a}) = Cardinality(B)
           \/ Cardinality(B \union {a}) = Cardinality(B) + 1
    BY <2>2, FS_AddElement, FS_CardinalityType
  <2>5. /\ Cardinality(Timely(k, w.start, w.start + Window)') \in Nat
        /\ Cardinality(Timely(k, w.start, w.start + Window)') <= Cardinality(B \union {a})
    BY <2>1, <2>4, Narrower
  <2> QED
    BY <1>1, <2>2, <2>3, <2>4, <2>5
<1>10. ASSUME NEW u \in Nat, u + Window > w.start
       PROVE  Cardinality(Timely(k, u, w.start)') <= Limit
  <2>1. ~(clock < w.start)
    BY <1>0, <1>1
  <2>2. Timely(k, u, w.start)' = Timely(k, u, w.start)
    BY <1>7, <2>1
  <2>3. Cardinality(Timely(k, u, w.start)) <= Limit
    BY <1>10 DEF WindowHolds
  <2> QED
    BY <2>2, <2>3
<1>11. WindowHolds(k, v)'
  BY <1>0, <1>1, <1>8, <1>9, <1>10 DEF WindowHolds
<1>12. ASSUME NEW kk \in Keys, kk # k PROVE WindowHolds(kk, windows[kk])'
  <2>1. WindowHolds(kk, windows[kk])
    BY DEF RateInv
  <2>2. \A from, to : Timely(kk, from, to)' = Timely(kk, from, to)
    BY <1>7, <1>12
  <2>3. windows'[kk] = windows[kk] /\ clock' = clock
    BY <1>4, <1>12
  <2>4. \A b \in charged' : b.key = kk => b \in charged
    BY <1>2, <1>3, <1>12
  <2> QED
    BY <2>1, <2>2, <2>3, <2>4 DEF WindowHolds
<1>13. BudgetAlways'
  <2> SUFFICES ASSUME NEW kk \in Keys, NEW t \in Nat
               PROVE  Cardinality(Timely(kk, t, t + Window)') <= 2 * Limit
    BY DEF BudgetAlways
  <2>1. CASE kk = k /\ clock < t + Window
    <3>1. t + Window > v.start
      BY <1>0, <1>1, <2>1
    <3>2. /\ Cardinality(TimelyIn(charged', k, v.start, v.start + Window)) <= v.used
          /\ Cardinality(TimelyIn(charged', k, t, v.start)) <= Limit
      BY <1>0, <1>1, <1>9, <1>10, <3>1 DEF Timely
    <3>3. v.start \in Nat /\ v.used \in Nat /\ v.used <= Limit
      BY <1>0, <1>1
    <3>4. Cardinality(TimelyIn(charged', k, t, t + Window)) <= 2 * Limit
      BY <1>5, <1>8, <3>1, <3>2, <3>3, StretchOfTwo
    <3> QED
      BY <2>1, <3>4 DEF Timely
  <2>2. CASE ~(kk = k /\ clock < t + Window)
    <3>1. Timely(kk, t, t + Window)' = Timely(kk, t, t + Window)
      BY <1>7, <2>2
    <3> QED
      BY <3>1 DEF RateInv, BudgetAlways
  <2> QED
    BY <2>1, <2>2
<1>14. EvidenceHolds(k, v)'
  BY <1>1 DEF EvidenceHolds, Since
<1>15. ASSUME NEW kk \in Keys, kk # k PROVE EvidenceHolds(kk, windows[kk])'
  <2>1. EvidenceHolds(kk, windows[kk])
    BY DEF RateInv
  <2>2. windows'[kk] = windows[kk] /\ chain' = chain
    BY <1>4, <1>15
  <2> QED
    BY <2>1, <2>2 DEF EvidenceHolds, Since
<1>16. \A kk \in Keys : WindowHolds(kk, windows[kk])' /\ EvidenceHolds(kk, windows[kk])'
  <2>1. WindowHolds(k, windows[k])' /\ EvidenceHolds(k, windows[k])'
    BY <1>4, <1>11, <1>14 DEF WindowHolds, EvidenceHolds
  <2> QED
    BY <1>12, <1>15, <2>1
<1> QED
  BY <1>6, <1>13, <1>16 DEF RateInv

(* check, with no room: the rejection is counted, and the one that reaches *)
(* the threshold is witnessed.                                             *)
LEMMA RejectKeeps ==
    ASSUME ConnInv, RateInv, NEW c \in Conns, NEW k \in Keys, NEW w \in WindowType,
           w.open, WindowHolds(k, w), EvidenceHolds(k, w),
           windows' = [windows EXCEPT ![k] = Rejected(w)],
           chain' = IF w.rejected + 1 >= AbuseThreshold /\ ~w.witnessed
                    THEN Append(chain, Record("RATE_LIMIT", c, k, w.start)) ELSE chain,
           UNCHANGED <<charged, clock>>
    PROVE  RateInv'
<1> DEFINE v == Rejected(w)
           r == Record("RATE_LIMIT", c, k, w.start)
           due == w.rejected + 1 >= AbuseThreshold
<1>0. /\ RateTypes /\ clock \in Nat /\ AbuseThreshold \in Nat /\ c \in Nat
      /\ windows \in [Keys -> WindowType] /\ chain \in Seq(Records)
  BY IngressAssumption DEF ConnInv, ConnTypes, RateInv, RateTypes, Conns
<1>1. /\ v \in WindowType /\ v.start = w.start /\ v.used = w.used /\ v.open = w.open
      /\ v.rejected = w.rejected + 1 /\ v.witnessed = (w.witnessed \/ due)
      /\ w.start \in Nat
  <2>1. (w.witnessed \/ w.rejected + 1 >= AbuseThreshold) \in BOOLEAN
    BY Zenon
  <2>2. v = [w EXCEPT !.rejected = w.rejected + 1, !.witnessed = (w.witnessed \/ due)]
    BY DEF Rejected, WindowType
  <2>3. w.rejected + 1 \in Nat /\ w.start \in Nat
    BY DEF WindowType
  <2>4. ASSUME NEW n \in Nat, NEW b \in BOOLEAN, v = [w EXCEPT !.rejected = n, !.witnessed = b]
        PROVE  /\ v \in WindowType /\ v.start = w.start /\ v.used = w.used /\ v.open = w.open
               /\ v.rejected = n /\ v.witnessed = b
    <3> HIDE DEF v
    <3> QED
      BY <2>4 DEF WindowType
  <2> QED
    BY <2>1, <2>2, <2>3, <2>4
<1>2. r \in Records /\ r.kind = "RATE_LIMIT" /\ r.key = k /\ r.start = w.start
  BY <1>0, <1>1 DEF Record, Records, Kinds
<1>3. /\ windows' = [windows EXCEPT ![k] = v]
      /\ chain' = IF due /\ ~w.witnessed THEN Append(chain, r) ELSE chain
  OBVIOUS
<1> HIDE DEF v, r, due
<1>4. windows'[k] = v /\ \A kk \in Keys : kk # k => windows'[kk] = windows[kk]
  BY <1>0, <1>3
<1>5. /\ chain' \in Seq(Records)
      /\ \A i \in 1..Len(chain) : chain'[i] = chain[i]
      /\ \A kk \in Keys : kk # k => Since(kk)' = Since(kk)
      /\ due /\ ~w.witnessed => /\ Since(k)' = Since(k) \union {Len(chain) + 1}
                                /\ chain'[Len(chain) + 1] = r
      /\ ~(due /\ ~w.witnessed) => Since(k)' = Since(k)
  <2>1. CASE due /\ ~w.witnessed
    <3>0. chain' = Append(chain, r)
      BY <1>3, <2>1
    <3>1. /\ chain' \in Seq(Records) /\ \A i \in 1..Len(chain) : chain'[i] = chain[i]
          /\ chain'[Len(chain) + 1] = r
      BY <1>0, <1>2, <3>0, SinceAppend
    <3>2. \A kk : Since(kk)' = Since(kk) \union IF k = kk THEN {Len(chain) + 1} ELSE {}
      BY <1>0, <1>2, <3>0, SinceAppend
    <3> QED
      BY <2>1, <3>1, <3>2
  <2>2. CASE ~(due /\ ~w.witnessed)
    BY <1>0, <1>3, <2>2 DEF Since
  <2> QED
    BY <2>1, <2>2
<1>6. RateTypes'
  BY <1>0, <1>1, <1>3, <1>5 DEF RateTypes
<1>7. \A kk, from, to : Timely(kk, from, to)' = Timely(kk, from, to)
  BY DEF Timely
<1>8. BudgetAlways'
  BY <1>7 DEF RateInv, BudgetAlways
<1>9. \A kk \in Keys : WindowHolds(kk, windows[kk])'
  <2>1. WindowHolds(k, v)'
    <3>1. WindowHolds(k, w)'
      BY <1>7 DEF WindowHolds
    <3> QED
      BY <1>1, <3>1 DEF WindowHolds
  <2>2. WindowHolds(k, windows[k])'
    BY <1>4, <2>1 DEF WindowHolds
  <2>3. ASSUME NEW kk \in Keys, kk # k PROVE WindowHolds(kk, windows[kk])'
    <3>1. WindowHolds(kk, windows[kk])
      BY DEF RateInv
    <3>2. windows'[kk] = windows[kk]
      BY <1>4, <2>3
    <3> QED
      BY <1>7, <3>1, <3>2 DEF WindowHolds
  <2> QED
    BY <2>2, <2>3
<1>10. \A i \in Since(k) : i \in 1..Len(chain) /\ chain'[i] = chain[i]
  BY <1>5 DEF Since
<1>11. EvidenceHolds(k, windows[k])'
  <2>0. /\ \A i, j \in Since(k) : chain[i].start = chain[j].start => i = j
        /\ \A i \in Since(k) : /\ chain[i].start <= w.start
                               /\ chain[i].start = w.start => w.witnessed
        /\ w.witnessed => \E i \in Since(k) : chain[i].start = w.start
        /\ w.rejected >= AbuseThreshold => w.witnessed
    BY DEF EvidenceHolds
  <2>1. v.rejected >= AbuseThreshold => v.witnessed
    BY <1>1 DEF due
  <2>2. CASE due /\ ~w.witnessed
    <3>1. /\ Since(k)' = Since(k) \union {Len(chain) + 1}
          /\ chain'[Len(chain) + 1].start = w.start /\ v.witnessed
      BY <1>1, <1>2, <1>5, <2>2
    <3>2. \A i \in Since(k) : chain'[i].start <= w.start /\ chain'[i].start # w.start
      BY <1>10, <2>0, <2>2
    <3>3. \A i, j \in Since(k)' : chain'[i].start = chain'[j].start => i = j
      BY <1>10, <2>0, <3>1, <3>2
    <3>4. \A i \in Since(k)' : chain'[i].start <= w.start
      <4>1. w.start <= w.start
        BY <1>1
      <4> QED
        BY <3>1, <3>2, <4>1
    <3>5. \E i \in Since(k)' : chain'[i].start = w.start
      BY <3>1
    <3> QED
      BY <1>1, <1>4, <2>1, <3>1, <3>3, <3>4, <3>5 DEF EvidenceHolds
  <2>3. CASE ~(due /\ ~w.witnessed)
    <3>1. v.witnessed = w.witnessed /\ Since(k)' = Since(k)
      BY <1>1, <1>5, <2>3 DEF WindowType
    <3>2. /\ \A i, j \in Since(k)' : chain'[i].start = chain'[j].start => i = j
          /\ \A i \in Since(k)' : /\ chain'[i].start <= w.start
                                  /\ chain'[i].start = w.start => w.witnessed
          /\ w.witnessed => \E i \in Since(k)' : chain'[i].start = w.start
      BY <1>10, <2>0, <3>1
    <3> QED
      BY <1>1, <1>4, <2>1, <3>1, <3>2 DEF EvidenceHolds
  <2> QED
    BY <2>2, <2>3
<1>12. ASSUME NEW kk \in Keys, kk # k PROVE EvidenceHolds(kk, windows[kk])'
  <2>1. EvidenceHolds(kk, windows[kk])
    BY DEF RateInv
  <2>2. windows'[kk] = windows[kk] /\ Since(kk)' = Since(kk)
    BY <1>4, <1>5, <1>12
  <2>3. \A i \in Since(kk) : chain'[i] = chain[i]
    BY <1>5 DEF Since
  <2>4. PICK o : o = windows[kk]
    OBVIOUS
  <2>5. /\ \A i, j \in Since(kk) : chain[i].start = chain[j].start => i = j
        /\ \A i \in Since(kk) : /\ o.open /\ chain[i].start <= o.start
                                /\ chain[i].start = o.start => o.witnessed
        /\ o.witnessed => \E i \in Since(kk) : chain[i].start = o.start
        /\ o.rejected >= AbuseThreshold => o.witnessed
    BY <2>1, <2>4 DEF EvidenceHolds
  <2>6. PICK S : S = Since(kk)
    OBVIOUS
  <2>7. Since(kk)' = S
    BY <2>2, <2>6
  <2>8. \A i \in S : chain'[i].start = chain[i].start
    BY <2>3, <2>6
  <2>9. /\ \A i, j \in S : chain[i].start = chain[j].start => i = j
        /\ \A i \in S : /\ o.open /\ chain[i].start <= o.start
                        /\ chain[i].start = o.start => o.witnessed
        /\ o.witnessed => \E i \in S : chain[i].start = o.start
    BY <2>5, <2>6
  <2>10. \A i, j \in S : chain'[i].start = chain'[j].start => i = j
    <3> SUFFICES ASSUME NEW i \in S, NEW j \in S, chain'[i].start = chain'[j].start
                 PROVE  i = j
      OBVIOUS
    <3>1. chain'[i].start = chain[i].start /\ chain'[j].start = chain[j].start
      BY <2>8
    <3>2. chain[i].start = chain[j].start
      BY <3>1
    <3>3. \A a, b \in S : chain[a].start = chain[b].start => a = b
      BY <2>9
    <3> QED
      BY <3>2, <3>3
  <2>11. \A i \in S : /\ o.open /\ chain'[i].start <= o.start
                      /\ chain'[i].start = o.start => o.witnessed
    <3> TAKE i \in S
    <3>1. chain'[i].start = chain[i].start
      BY <2>8
    <3>2. o.open /\ chain[i].start <= o.start
      BY <2>9
    <3>3. chain[i].start = o.start => o.witnessed
      BY <2>9
    <3>4. chain'[i].start <= o.start
      BY <3>1, <3>2
    <3>5. chain'[i].start = o.start => o.witnessed
      BY <3>1, <3>3
    <3> QED
      BY <3>2, <3>4, <3>5
  <2>12. o.witnessed => \E i \in S : chain'[i].start = o.start
    <3>1. ASSUME o.witnessed PROVE \E i \in S : chain'[i].start = o.start
      <4>1. PICK i \in S : chain[i].start = o.start
        BY <2>9, <3>1
      <4> QED
        BY <2>8, <4>1
    <3> QED
      BY <3>1
  <2> QED
    BY <2>2, <2>4, <2>5, <2>7, <2>10, <2>11, <2>12 DEF EvidenceHolds
<1> QED
  BY <1>6, <1>8, <1>9, <1>11, <1>12 DEF RateInv

(* What a worker appends outside the limiter, and where the clock stays.   *)
LEMMA ServeRecords ==
    ASSUME ConnInv, RateInv, NEW c \in Conns, Serve(c), ~RateGate(c)
    PROVE  /\ clock' = clock
           /\ \/ chain' = chain
              \/ \E r \in Records : r.kind \notin {"boot", "RATE_LIMIT"} /\ chain' = Append(chain, r)
<1>0. Cert(c) \in Keys /\ c \in Nat
  BY CertIsKey, IngressAssumption DEF Conns
<1>1. clock' = clock
  <2>1. CASE Finish(c)
    BY <2>1 DEF Finish
  <2>2. CASE ~Finish(c)
    BY <2>2, ServeStays DEF ConnInv, Stays
  <2> QED
    BY <2>1, <2>2
<1>2. ASSUME NEW kind \in Kinds, kind \notin {"boot", "RATE_LIMIT"}
      PROVE  LET r == Record(kind, c, Cert(c), 0)
             IN r \in Records /\ r.kind \notin {"boot", "RATE_LIMIT"}
  BY <1>0, <1>2 DEF Record, Records
<1>3. CASE EngineAnswers(c)
  BY <1>1, <1>2, <1>3 DEF EngineAnswers, Kinds
<1>4. CASE IssueSalt(c)
  BY <1>1, <1>2, <1>4 DEF IssueSalt, Kinds
<1>5. CASE AdminHook(c)
  <2>1. CASE load[c].kind = "unwitness"
    BY <1>1, <1>5, <2>1 DEF AdminHook
  <2>2. CASE load[c].kind # "unwitness"
    <3>1. load[c].kind \in {"contain", "release"}
      BY <1>5, <2>2 DEF AdminHook, Handling
    <3>2. chain' = Append(chain, Record(load[c].kind, c, Cert(c), 0))
      BY <1>5, <2>2 DEF AdminHook
    <3>3. load[c].kind \in Kinds /\ load[c].kind \notin {"boot", "RATE_LIMIT"}
      BY <3>1 DEF Kinds
    <3> QED
      BY <1>1, <1>2, <3>2, <3>3
  <2> QED
    BY <2>1, <2>2
<1>6. ASSUME ~EngineAnswers(c), ~IssueSalt(c), ~AdminHook(c) PROVE chain' = chain
  BY <1>6 DEF Serve, Timeout, IngressGate, Deny, Read, CallEngine, EngineFails, Respond, Hello,
     Register, Journal, CheckEnvelope, Finish, nodeVars
<1> QED
  BY <1>1, <1>3, <1>4, <1>5, <1>6

(* Every step keeps the limiter's invariant.                               *)
LEMMA RateNext == ConnInv /\ RateInv /\ [Next]_vars => RateInv'
<1> SUFFICES ASSUME ConnInv, RateInv, [Next]_vars PROVE RateInv'
  OBVIOUS
<1>0. clock \in Nat
  BY DEF ConnInv, ConnTypes
<1>1. ASSUME NEW c \in Conns, RateGate(c) PROVE RateInv'
  <2> DEFINE k == Cert(c)
             w == Fresher(windows[k], now[c])
  <2>0. clock' = clock /\ k \in Keys /\ now[c] \in 0..clock
    BY <1>1, CertIsKey DEF RateGate, handlerKept, ConnInv, ConnTypes
  <2>1. /\ w \in WindowType /\ w.open /\ now[c] < w.start + Window
        /\ WindowHolds(k, w) /\ EvidenceHolds(k, w)
    <3> HIDE DEF k
    <3> QED
      BY <2>0, RollKeeps
  <2>2. CASE Class(c) \notin Limited
    <3>1. UNCHANGED <<windows, charged, chain>>
      BY <1>1, <2>2 DEF RateGate
    <3> QED
      BY <2>0, <3>1, RateQuiet DEF rateVars
  <2>3. CASE Class(c) \in Limited /\ HasRoom(w)
    <3>1. /\ windows' = [windows EXCEPT ![k] = [w EXCEPT !.used = @ + 1]]
          /\ charged' = charged \union {[conn |-> c, key |-> k, read |-> now[c], at |-> clock]}
          /\ UNCHANGED chain /\ w.used < Limit
      BY <1>1, <2>3 DEF RateGate, HasRoom
    <3> HIDE DEF k, w
    <3> QED
      BY <2>0, <2>1, <3>1, ChargeKeeps
  <2>4. CASE Class(c) \in Limited /\ ~HasRoom(w)
    <3>1. /\ windows' = [windows EXCEPT ![k] = Rejected(w)]
          /\ chain' = IF w.rejected + 1 >= AbuseThreshold /\ ~w.witnessed
                      THEN Append(chain, Record("RATE_LIMIT", c, k, w.start)) ELSE chain
          /\ UNCHANGED charged
      BY <1>1, <2>4 DEF RateGate
    <3> HIDE DEF k, w
    <3> QED
      BY <2>0, <2>1, <3>1, RejectKeeps
  <2> QED
    BY <2>2, <2>3, <2>4
<1>2. ASSUME NEW c \in Conns, Serve(c), ~RateGate(c) PROVE RateInv'
  <2>1. UNCHANGED rateVars
    BY <1>2, ServeQuiet
  <2> QED
    BY <1>2, <2>1, ServeRecords, RateQuiet
<1>3. ASSUME NEW n, NEW st, Govern(n, st) PROVE RateInv'
  BY <1>3, GovernQuiet, RateQuiet
<1>4. CASE Reboot
  BY <1>4, RateReboot
<1>5. ASSUME \/ \E c \in Conns : Accept(c)
             \/ Refuse \/ BeaconAges \/ Tick \/ UNCHANGED vars
      PROVE  RateInv'
  <2>1. UNCHANGED <<rateVars, chain>>
    BY <1>5, LoopQuiet
  <2>2. clock' \in {clock, clock + 1}
    BY <1>5 DEF Accept, Handshake, Dispatch, StartFails, Overload, Refuse, BeaconAges, Tick, vars
  <2> QED
    BY <2>1, <2>2, RateQuiet
<1> QED
  BY <1>1, <1>2, <1>3, <1>4, <1>5 DEF Next, Progress, Supervise, Crash

(* The limiter's invariant holds at the start.                             *)
LEMMA RateInit == Init => RateInv
<1> SUFFICES ASSUME Init PROVE RateInv
  OBVIOUS
<1>0. /\ clock = 0 /\ windows = [k \in Keys |-> NoWindow] /\ charged = {} /\ chain = <<>>
      /\ Window \in Nat \ {0} /\ Limit \in Nat /\ AbuseThreshold \in Nat \ {0}
  BY IngressAssumption DEF Init
<1>1. NoWindow \in WindowType /\ NoWindow.start = 0 /\ NoWindow.used = 0 /\ NoWindow.rejected = 0
      /\ NoWindow.witnessed = FALSE
  BY DEF NoWindow, WindowType
<1>2. Cardinality({}) = 0 /\ IsFiniteSet({})
  BY FS_EmptySet
<1>3. RateTypes
  BY <1>0, <1>1, <1>2 DEF RateTypes
<1>4. \A k, u, v : Cardinality(Timely(k, u, v)) = 0
  <2>1. \A k, u, v : Timely(k, u, v) = {}
    BY <1>0 DEF Timely, TimelyIn
  <2> QED
    BY <1>2, <2>1, Zenon
<1>5. BudgetAlways
  BY <1>0, <1>4 DEF BudgetAlways
<1>6. \A k : Since(k) = {}
  BY <1>0 DEF Since
<1>7. ASSUME NEW k \in Keys PROVE WindowHolds(k, windows[k]) /\ EvidenceHolds(k, windows[k])
  <2>1. windows[k] = NoWindow
    BY <1>0
  <2>2. WindowHolds(k, windows[k])
    BY <1>0, <1>1, <1>4, <2>1 DEF WindowHolds
  <2>3. EvidenceHolds(k, windows[k])
    BY <1>0, <1>1, <1>6, <2>1 DEF EvidenceHolds
  <2> QED
    BY <2>2, <2>3
<1> QED
  BY <1>3, <1>5, <1>7 DEF RateInv

(* RateLimiter: in no stretch as long as the window is more than twice the *)
(* limit admitted, and a window of abuse is witnessed once.                *)
THEOREM LimiterAlwaysHolds == IngressSpec => []LimiterHolds
<1>1. RateInv => LimiterHolds
  <2> SUFFICES ASSUME RateInv PROVE BudgetHeld /\ AbuseWitnessedOnce
    BY DEF LimiterHolds
  <2>0. /\ RateTypes /\ Window \in Nat /\ MaxClock \in Nat /\ Limit \in Nat
        /\ AbuseThreshold \in Nat /\ chain \in Seq(Records) /\ Len(chain) \in Nat
        /\ DOMAIN chain = 1..Len(chain)
    BY IngressAssumption DEF RateInv, RateTypes
  <2>1. BudgetHeld
    <3> SUFFICES ASSUME NEW k \in Keys, NEW t \in 0..MaxClock
                 PROVE  Cardinality({a \in charged : /\ a.key = k /\ a.read = a.at
                                       /\ a.at \in t..(t + Window - 1)}) <= 2 * Limit
      BY DEF BudgetHeld
    <3>1. \A a \in charged : a.at \in Nat
      BY <2>0 DEF RateTypes, Charges
    <3>2. {a \in charged : /\ a.key = k /\ a.read = a.at /\ a.at \in t..(t + Window - 1)}
            = Timely(k, t, t + Window)
      BY <2>0, <3>1 DEF Timely, TimelyIn
    <3>3. t \in Nat
      BY <2>0
    <3> QED
      BY <3>2, <3>3 DEF RateInv, BudgetAlways
  <2>2. ASSUME NEW k \in Keys
        PROVE  LET lastBoot == {0} \union {i \in DOMAIN chain : chain[i].kind = "boot"}
                   since == {i \in DOMAIN chain : /\ \A b \in lastBoot : i > b
                                 /\ chain[i].kind = "RATE_LIMIT" /\ chain[i].key = k}
               IN since = Since(k)
    <3> DEFINE lastBoot == {0} \union {i \in DOMAIN chain : chain[i].kind = "boot"}
    <3>1. ASSUME NEW i \in 1..Len(chain), chain[i].kind # "boot"
          PROVE  (\A b \in lastBoot : i > b) <=> \A m \in i..Len(chain) : chain[m].kind # "boot"
      <4>1. ASSUME \A b \in lastBoot : i > b, NEW m \in i..Len(chain), chain[m].kind = "boot"
            PROVE  FALSE
        <5>1. m \in 1..Len(chain) /\ ~(i > m)
          BY <2>0
        <5>2. m \in lastBoot
          BY <2>0, <4>1, <5>1
        <5> QED
          BY <4>1, <5>1, <5>2
      <4>2. ASSUME \A m \in i..Len(chain) : chain[m].kind # "boot", NEW b \in lastBoot
            PROVE  i > b
        <5>1. CASE b = 0
          BY <5>1
        <5>2. CASE b \in 1..Len(chain) /\ chain[b].kind = "boot"
          <6>1. b \notin i..Len(chain)
            BY <4>2, <5>2
          <6> QED
            BY <2>0, <5>2, <6>1
        <5> QED
          BY <2>0, <5>1, <5>2
      <4> HIDE DEF lastBoot
      <4> QED
        BY <4>1, <4>2
    <3> HIDE DEF lastBoot
    <3>2. {i \in DOMAIN chain : /\ \A b \in lastBoot : i > b
                                /\ chain[i].kind = "RATE_LIMIT" /\ chain[i].key = k} = Since(k)
      BY <2>0, <3>1 DEF Since
    <3> QED
      BY <3>2 DEF lastBoot
  <2>3. AbuseWitnessedOnce
    <3> SUFFICES ASSUME NEW k \in Keys
                 PROVE  /\ \A i, j \in Since(k) : chain[i].start = chain[j].start => i = j
                        /\ windows[k].rejected >= AbuseThreshold =>
                              \E i \in Since(k) : chain[i].start = windows[k].start
      BY <2>2 DEF AbuseWitnessedOnce
    <3> QED
      BY DEF RateInv, EvidenceHolds
  <2> QED
    BY <2>1, <2>3
<1> QED
  BY ConnInit, ConnNext, RateInit, RateNext, <1>1, PTL DEF IngressSpec

-----------------------------------------------------------------------------
(* Containment and the requests already past the governor.                 *)

Engines == {c \in Conns : pc[c] = "engine" /\ load[c].kind = "infer"}
ThisLife(i) == \A m \in i..Len(chain) : chain[m].kind # "boot"
StillHeld(i) == \A m \in i..Len(chain) : chain[m].kind # "release"

(* While an order stands, the generations recorded since and those still   *)
(* at the engine are together fewer than the workers there can be.         *)
Bites(i) ==
    /\ Cardinality(After(i)) < MaxConcurrency + failed
    /\ StillHeld(i) => /\ contained
                       /\ Cardinality(After(i)) + Cardinality(Engines) < MaxConcurrency + failed

BiteInv == \A i \in 1..Len(chain) : chain[i].kind = "contain" /\ ThisLife(i) => Bites(i)

(* The records after an order are finitely many.                           *)
LEMMA AfterFinite ==
    ASSUME RateTypes, NEW i
    PROVE  After(i) \subseteq 1..Len(chain) /\ IsFiniteSet(After(i)) /\ Cardinality(After(i)) \in Nat
<1>1. After(i) \subseteq 1..Len(chain) /\ Len(chain) \in Nat
  BY DEF After, RateTypes
<1>2. IsFiniteSet(1..Len(chain))
  BY <1>1, FS_Interval
<1> QED
  BY <1>1, <1>2, FS_Subset, FS_CardinalityType

(* The generations at the engine are finitely many, all of them workers.   *)
LEMMA EnginesFinite ==
    ASSUME ConnTypes
    PROVE  /\ Engines \subseteq Live /\ IsFiniteSet(Engines) /\ Cardinality(Engines) \in Nat
           /\ Cardinality(Engines) <= Cardinality(Live)
<1>1. Engines \subseteq Live
  BY DEF Engines, Live
<1> QED
  BY <1>1, LiveFinite, FS_Subset, FS_CardinalityType

(* What an appended record does to an earlier order, and to a new one.     *)
LEMMA AfterAppend ==
    ASSUME RateTypes, NEW r \in Records, chain' = Append(chain, r)
    PROVE  /\ Len(chain') = Len(chain) + 1 /\ Len(chain) \in Nat /\ chain'[Len(chain) + 1] = r
           /\ \A i : i = Len(chain) + 1 => After(i)' = {}
           /\ \A i \in 1..Len(chain) :
                /\ chain'[i] = chain[i]
                /\ ThisLife(i)' <=> ThisLife(i) /\ r.kind # "boot"
                /\ StillHeld(i)' <=> StillHeld(i) /\ r.kind # "release"
                /\ After(i)' = IF r.kind = "INFER" /\ StillHeld(i)
                               THEN After(i) \union {Len(chain) + 1} ELSE After(i)
<1> DEFINE n == Len(chain)
<1>1. /\ chain' \in Seq(Records) /\ Len(chain') = n + 1 /\ n \in Nat /\ chain'[n + 1] = r
      /\ \A i \in 1..n : chain'[i] = chain[i]
      /\ DOMAIN chain = 1..n /\ DOMAIN chain' = 1..(n + 1)
  BY AppendProperties DEF RateTypes
<1> HIDE DEF n
<1>2. ASSUME NEW i, i = n + 1 PROVE After(i)' = {}
  <2>1. \A j \in 1..(n + 1) : ~(j > i)
    BY <1>1, <1>2
  <2> QED
    BY <1>1, <2>1 DEF After
<1>3. ASSUME NEW i \in 1..n
      PROVE  /\ ThisLife(i)' <=> ThisLife(i) /\ r.kind # "boot"
             /\ StillHeld(i)' <=> StillHeld(i) /\ r.kind # "release"
  <2>0. Len(chain) = n
    BY DEF n
  <2>1. \A m : m \in i..(n + 1) <=> m \in i..n \/ m = n + 1
    BY <1>1
  <2>2. \A m \in i..n : m \in 1..n /\ chain'[m] = chain[m]
    BY <1>1
  <2>3. ThisLife(i)' <=> ThisLife(i) /\ r.kind # "boot"
    BY <1>1, <2>0, <2>1, <2>2 DEF ThisLife
  <2>4. StillHeld(i)' <=> StillHeld(i) /\ r.kind # "release"
    BY <1>1, <2>0, <2>1, <2>2 DEF StillHeld
  <2> QED
    BY <2>3, <2>4
<1>4. ASSUME NEW i \in 1..n
      PROVE  After(i)' = IF r.kind = "INFER" /\ StillHeld(i)
                         THEN After(i) \union {n + 1} ELSE After(i)
  <2>0. Len(chain) = n
    BY DEF n
  <2>1. ASSUME NEW j \in 1..n PROVE j \in After(i)' <=> j \in After(i)
    <3>1. \A m \in i..j : m \in 1..n /\ chain'[m] = chain[m]
      BY <1>1
    <3>2. chain'[j] = chain[j] /\ j \in DOMAIN chain /\ j \in DOMAIN chain'
      BY <1>1
    <3> QED
      BY <3>1, <3>2 DEF After
  <2>2. n + 1 \in After(i)' <=> r.kind = "INFER" /\ StillHeld(i)
    <3>1. \A m : m \in i..(n + 1) <=> m \in i..n \/ m = n + 1
      BY <1>1
    <3>2. \A m \in i..n : m \in 1..n /\ chain'[m] = chain[m]
      BY <1>1
    <3>3. r.kind = "INFER" => r.kind # "release"
      OBVIOUS
    <3>4. n + 1 > i /\ n + 1 \in DOMAIN chain' /\ chain'[n + 1] = r
      BY <1>1
    <3>5. (\A m \in i..(n + 1) : chain'[m].kind # "release") <=> StillHeld(i) /\ r.kind # "release"
      BY <1>1, <2>0, <3>1, <3>2 DEF StillHeld
    <3> QED
      BY <3>3, <3>4, <3>5 DEF After
  <2>3. After(i)' \subseteq 1..(n + 1) /\ After(i) \subseteq 1..n
    BY <1>1 DEF After
  <2>4. \A j : j \in 1..(n + 1) <=> j \in 1..n \/ j = n + 1
    BY <1>1
  <2>5. n + 1 \notin 1..n
    BY <1>1
  <2> QED
    BY <2>1, <2>2, <2>3, <2>4, <2>5
<1> QED
  BY <1>1, <1>2, <1>3, <1>4 DEF n

(* A step that records nothing and lets nobody past a standing order.      *)
LEMMA BiteQuiet ==
    ASSUME ConnInv, RateInv, BiteInv, UNCHANGED <<chain, contained>>,
           failed' \in Nat, failed' >= failed,
           IsFiniteSet(Engines'), Cardinality(Engines') \in Nat,
           contained => Engines' \subseteq Engines
    PROVE  BiteInv'
<1> SUFFICES ASSUME NEW i \in 1..Len(chain), chain[i].kind = "contain", ThisLife(i)
             PROVE  Bites(i)'
  BY DEF BiteInv, ThisLife
<1>1. Bites(i)
  BY DEF BiteInv
<1>2. After(i)' = After(i) /\ Cardinality(After(i)) \in Nat
  BY AfterFinite DEF After, RateInv
<1>3. MaxConcurrency \in Nat /\ failed \in Nat
  BY IngressAssumption DEF ConnInv, ConnTypes
<1>4. StillHeld(i)' <=> StillHeld(i)
  BY DEF StillHeld
<1>5. IsFiniteSet(Engines) /\ Cardinality(Engines) \in Nat
  BY EnginesFinite DEF ConnInv
<1>6. StillHeld(i) => Cardinality(Engines') <= Cardinality(Engines)
  <2>1. StillHeld(i) => Engines' \subseteq Engines
    BY <1>1 DEF Bites
  <2> QED
    BY <1>5, <2>1, FS_Subset
<1> QED
  BY <1>1, <1>2, <1>3, <1>4, <1>5, <1>6 DEF Bites

(* A step that records something, with the engines as they were or the     *)
(* one that answered gone.                                                 *)
LEMMA BiteAppend ==
    ASSUME ConnInv, RateInv, BiteInv, NEW c \in Conns, NEW r \in Records,
           chain' = Append(chain, r), r.kind # "boot", failed' = failed,
           contained' = (r.kind = "contain" \/ (contained /\ r.kind # "release")),
           c \in Live, contained \in BOOLEAN,
           IF r.kind = "INFER" THEN c \in Engines /\ Engines' = Engines \ {c}
           ELSE Engines' = Engines,
           r.kind = "contain" => c \notin Engines
    PROVE  BiteInv'
<1> DEFINE n == Len(chain)
<1>0. /\ MaxConcurrency \in Nat /\ failed \in Nat /\ slots \in Nat
      /\ Cardinality(Live) + slots <= MaxConcurrency + failed
  BY IngressAssumption DEF ConnInv, ConnTypes, SlotsBalance
<1>1. /\ IsFiniteSet(Live) /\ Cardinality(Live) \in Nat
      /\ Engines \subseteq Live /\ IsFiniteSet(Engines) /\ Cardinality(Engines) \in Nat
  BY LiveFinite, EnginesFinite DEF ConnInv
<1>2. /\ Len(chain') = n + 1 /\ n \in Nat /\ chain'[n + 1] = r
      /\ \A i : i = n + 1 => After(i)' = {}
      /\ \A i \in 1..n :
           /\ chain'[i] = chain[i]
           /\ ThisLife(i)' <=> ThisLife(i) /\ r.kind # "boot"
           /\ StillHeld(i)' <=> StillHeld(i) /\ r.kind # "release"
           /\ After(i)' = IF r.kind = "INFER" /\ StillHeld(i)
                          THEN After(i) \union {n + 1} ELSE After(i)
  BY AfterAppend DEF RateInv
<1> SUFFICES ASSUME NEW i \in 1..(n + 1), chain'[i].kind = "contain", ThisLife(i)'
             PROVE  Bites(i)'
  BY <1>2 DEF BiteInv
<1>3. CASE i \in 1..n
  <2>1. /\ chain'[i] = chain[i] /\ ThisLife(i)
        /\ StillHeld(i)' <=> StillHeld(i) /\ r.kind # "release"
        /\ After(i)' = IF r.kind = "INFER" /\ StillHeld(i)
                       THEN After(i) \union {n + 1} ELSE After(i)
    BY <1>2, <1>3
  <2>2. Bites(i)
    BY <1>3, <2>1 DEF BiteInv
  <2>3. After(i) \subseteq 1..n /\ IsFiniteSet(After(i)) /\ Cardinality(After(i)) \in Nat
    BY AfterFinite DEF RateInv
  <2>4. StillHeld(i)' => contained'
    <3>1. ASSUME StillHeld(i)' PROVE contained'
      <4>1. contained /\ r.kind # "release"
        BY <2>1, <2>2, <3>1 DEF Bites
      <4> QED
        BY <4>1
    <3> QED
      BY <3>1
  <2>5. CASE r.kind = "INFER" /\ StillHeld(i)
    <3>1. After(i)' = After(i) \union {n + 1} /\ n + 1 \notin After(i)
      BY <1>2, <2>1, <2>3, <2>5
    <3>2. Cardinality(After(i)') = Cardinality(After(i)) + 1
      BY <2>3, <3>1, FS_AddElement
    <3>3. c \in Engines /\ Engines' = Engines \ {c}
      BY <2>5
    <3>4. Cardinality(Engines') = Cardinality(Engines) - 1
      BY <1>1, <3>3, FS_RemoveElement
    <3>5. Cardinality(Engines) >= 1
      BY <1>1, <3>3, FS_EmptySet
    <3>6. Cardinality(After(i)) + Cardinality(Engines) < MaxConcurrency + failed
      BY <2>2, <2>5 DEF Bites
    <3>7. Cardinality(After(i)') < MaxConcurrency + failed
      BY <1>0, <1>1, <2>3, <3>2, <3>5, <3>6
    <3>8. Cardinality(After(i)') + Cardinality(Engines') < MaxConcurrency + failed
      BY <1>0, <1>1, <2>3, <3>2, <3>4, <3>6
    <3> QED
      BY <2>4, <3>7, <3>8 DEF Bites
  <2>6. CASE ~(r.kind = "INFER" /\ StillHeld(i))
    <3>1. After(i)' = After(i)
      BY <2>1, <2>6
    <3>2. StillHeld(i)' => Engines' = Engines
      BY <2>1, <2>6
    <3>3. StillHeld(i)' => Cardinality(After(i)) + Cardinality(Engines) < MaxConcurrency + failed
      BY <2>1, <2>2 DEF Bites
    <3>4. Cardinality(After(i)) < MaxConcurrency + failed
      BY <2>2 DEF Bites
    <3> QED
      BY <2>4, <3>1, <3>2, <3>3, <3>4 DEF Bites
  <2> QED
    BY <2>5, <2>6
<1>4. CASE i = n + 1
  <2>1. r.kind = "contain" /\ c \notin Engines /\ Engines' = Engines /\ contained'
    BY <1>2, <1>4
  <2>2. Engines \subseteq Live \ {c} /\ IsFiniteSet(Live \ {c})
        /\ Cardinality(Live \ {c}) = Cardinality(Live) - 1
    BY <1>1, <2>1, FS_RemoveElement
  <2>3. Cardinality(Engines) <= Cardinality(Live) - 1
    BY <2>2, FS_Subset
  <2>4. Cardinality(After(i)') = 0
    BY <1>2, <1>4, FS_EmptySet
  <2>5. Cardinality(Engines) < MaxConcurrency + failed
    BY <1>0, <1>1, <2>3
  <2>6. Cardinality(After(i)') + Cardinality(Engines') < MaxConcurrency + failed
    BY <1>1, <2>1, <2>4, <2>5
  <2>7. Cardinality(After(i)') < MaxConcurrency + failed
    BY <1>0, <1>1, <2>4, <2>5
  <2> QED
    BY <2>1, <2>6, <2>7 DEF Bites
<1> QED
  BY <1>2, <1>3, <1>4

(* A worker's step, by what it records: nothing, with somebody new at the  *)
(* engine only while no order stands, or one record.                       *)
LEMMA BiteServe ==
    ASSUME ConnInv, RateInv, BiteInv, contained \in BOOLEAN, NEW c \in Conns, Serve(c)
    PROVE  BiteInv' /\ contained' \in BOOLEAN
<1>0. /\ ConnTypes /\ pc \in [Conns -> PCs] /\ failed \in Nat /\ Cert(c) \in Keys /\ c \in Nat
      /\ load \in Loads
  BY CertIsKey, IngressAssumption DEF ConnInv, ConnTypes, Conns
<1>2. IsFiniteSet(Engines') /\ Cardinality(Engines') \in Nat
  <2>1. Engines' \subseteq Conns /\ IsFiniteSet(Conns)
    BY IngressAssumption, FS_Interval DEF Conns, Engines
  <2> QED
    BY <2>1, FS_Subset, FS_CardinalityType
<1>3. load' = load /\ failed' = failed /\ \E p : pc' = [pc EXCEPT ![c] = p]
  <2>1. CASE Finish(c)
    BY <2>1 DEF Finish, Goto
  <2>2. CASE ~Finish(c)
    BY <1>0, <2>2, ServeStays DEF Stays
  <2> QED
    BY <2>1, <2>2
<1>4. ASSUME NEW p, pc' = [pc EXCEPT ![c] = p], p # "engine"
      PROVE  Engines' = Engines \ {c}
  BY <1>0, <1>3, <1>4 DEF Engines
<1>5. ASSUME pc[c] \in Working, pc[c] # "engine" PROVE c \in Live /\ c \notin Engines
  BY <1>5 DEF Live, Engines, Working
<1>6. ASSUME NEW kind \in Kinds PROVE Record(kind, c, Cert(c), 0) \in Records
                                     /\ Record(kind, c, Cert(c), 0).kind = kind
  BY <1>0 DEF Record, Records
<1> HIDE DEF Engines
<1>7. CASE EngineAnswers(c)
  <2> DEFINE kind == IF load[c].kind = "infer" THEN "INFER" ELSE "SCORE"
             r == Record(kind, c, Cert(c), 0)
  <2>1. /\ pc[c] = "engine" /\ chain' = Append(chain, r) /\ contained' = contained
        /\ pc' = [pc EXCEPT ![c] = "answering"]
    BY <1>7 DEF EngineAnswers, Goto
  <2>2. kind \in Kinds /\ kind \notin {"boot", "contain", "release"}
        /\ (kind = "INFER" <=> load[c].kind = "infer")
    BY DEF Kinds
  <2> HIDE DEF kind
  <2>3. r \in Records /\ r.kind = kind
    BY <1>6, <2>2
  <2>4. Engines' = Engines \ {c} /\ c \in Live
    BY <1>4, <2>1 DEF Live
  <2>5. IF kind = "INFER" THEN c \in Engines /\ Engines' = Engines \ {c} ELSE Engines' = Engines
    BY <2>1, <2>2, <2>4 DEF Engines
  <2> HIDE DEF r
  <2>6. contained' = (r.kind = "contain" \/ (contained /\ r.kind # "release"))
    BY <2>1, <2>2, <2>3
  <2> QED
    BY <1>3, <2>1, <2>2, <2>3, <2>4, <2>5, <2>6, BiteAppend
<1>8. CASE IssueSalt(c) /\ chain' # chain
  <2> DEFINE r == Record("SALT", c, Cert(c), 0)
  <2>1. /\ pc[c] = "checked" /\ chain' = Append(chain, r) /\ contained' = contained
        /\ pc' = [pc EXCEPT ![c] = "answering"]
    BY <1>8 DEF IssueSalt, Goto
  <2>2. r \in Records /\ r.kind = "SALT"
    BY <1>6 DEF Kinds
  <2>3. Engines' = Engines \ {c} /\ c \in Live /\ c \notin Engines
    BY <1>4, <1>5, <2>1 DEF Working
  <2> HIDE DEF r
  <2>4. contained' = (r.kind = "contain" \/ (contained /\ r.kind # "release"))
    BY <2>1, <2>2
  <2> QED
    BY <1>3, <2>1, <2>2, <2>3, <2>4, BiteAppend
<1>9. CASE AdminHook(c) /\ load[c].kind \in {"contain", "release"}
  <2> DEFINE r == Record(load[c].kind, c, Cert(c), 0)
  <2>1. /\ pc[c] = "handle" /\ chain' = Append(chain, r) /\ contained' = (load[c].kind = "contain")
        /\ pc' = [pc EXCEPT ![c] = "done"]
    BY <1>9 DEF AdminHook, Reply, Handling
  <2>2. r \in Records /\ r.kind = load[c].kind
    BY <1>6, <1>9 DEF Kinds
  <2>3. Engines' = Engines \ {c} /\ c \in Live /\ c \notin Engines
    BY <1>4, <1>5, <2>1 DEF Working
  <2> HIDE DEF r
  <2>4. r.kind # "boot" /\ r.kind # "INFER"
    BY <1>9, <2>2
  <2>5. contained' = (r.kind = "contain" \/ (contained /\ r.kind # "release"))
    BY <1>9, <2>1, <2>2
  <2> QED
    BY <1>3, <2>1, <2>2, <2>3, <2>4, <2>5, BiteAppend
<1>10. CASE RateGate(c) /\ chain' # chain
  <2>1. PICK start : /\ pc[c] = "rating" /\ contained' = contained
                     /\ chain' = Append(chain, Record("RATE_LIMIT", c, Cert(c), start))
                     /\ pc' = [pc EXCEPT ![c] = "done"]
                     /\ start = Fresher(windows[Cert(c)], now[c]).start
    BY <1>10 DEF RateGate, Reply
  <2>2. start \in Nat
    <3>1. now[c] \in 0..clock /\ clock \in Nat
      BY <1>0 DEF ConnTypes
    <3>2. windows[Cert(c)] \in WindowType
      BY <1>0 DEF RateInv, RateTypes
    <3> HIDE DEF Cert
    <3> QED
      BY <2>1, <3>1, <3>2 DEF Fresher, NoWindow, WindowType
  <2> DEFINE r == Record("RATE_LIMIT", c, Cert(c), start)
  <2>3. r \in Records /\ r.kind = "RATE_LIMIT"
    BY <1>0, <2>2 DEF Record, Records, Kinds
  <2>4. Engines' = Engines \ {c} /\ c \in Live /\ c \notin Engines
    BY <1>4, <1>5, <2>1 DEF Working
  <2>5. chain' = Append(chain, r)
    BY <2>1
  <2> HIDE DEF r
  <2>6. contained' = (r.kind = "contain" \/ (contained /\ r.kind # "release"))
    BY <2>1, <2>3
  <2> QED
    BY <1>3, <2>1, <2>3, <2>4, <2>5, <2>6, BiteAppend
<1>11. CASE CallEngine(c)
  <2>1. UNCHANGED <<chain, contained>>
    BY <1>11 DEF CallEngine, nodeVars
  <2>2. contained => Engines' \subseteq Engines
    <3> SUFFICES ASSUME contained PROVE Engines' \subseteq Engines
      OBVIOUS
    <3>1. CASE load[c].kind = "infer"
      <4>1. pc' = [pc EXCEPT ![c] = "done"]
        BY <1>11, <3>1 DEF CallEngine, Severed, Reply
      <4> QED
        BY <1>4, <4>1
    <3>2. CASE load[c].kind # "infer"
      BY <1>0, <1>3, <3>2 DEF Engines
    <3> QED
      BY <3>1, <3>2
  <2>3. failed' \in Nat /\ failed' >= failed
    BY <1>0, <1>3
  <2> QED
    BY <1>2, <2>1, <2>2, <2>3, BiteQuiet
<1>12. ASSUME ~EngineAnswers(c), ~(IssueSalt(c) /\ chain' # chain), ~CallEngine(c),
              ~(AdminHook(c) /\ load[c].kind \in {"contain", "release"}),
              ~(RateGate(c) /\ chain' # chain)
       PROVE  BiteInv' /\ contained' \in BOOLEAN
  <2>1. UNCHANGED <<chain, contained>>
    <3>1. CASE IssueSalt(c) \/ RateGate(c)
      BY <1>12, <3>1 DEF IssueSalt, RateGate
    <3>2. CASE AdminHook(c)
      BY <1>12, <3>2 DEF AdminHook, Handling
    <3>3. CASE Timeout(c) \/ IngressGate(c) \/ Deny(c) \/ Read(c) \/ EngineFails(c) \/ Respond(c)
               \/ Hello(c) \/ Register(c) \/ Journal(c) \/ CheckEnvelope(c) \/ Finish(c)
      BY <3>3 DEF Timeout, IngressGate, Deny, Read, EngineFails, Respond, Hello, Register,
         Journal, CheckEnvelope, Finish, nodeVars
    <3> QED
      BY <1>12, <3>1, <3>2, <3>3 DEF Serve
  <2>2. \E p : p # "engine" /\ pc' = [pc EXCEPT ![c] = p]
    <3>1. CASE IssueSalt(c) \/ RateGate(c) \/ AdminHook(c)
      BY <3>1 DEF IssueSalt, RateGate, AdminHook, Goto, Reply
    <3>2. CASE Timeout(c) \/ IngressGate(c) \/ Deny(c) \/ Read(c) \/ EngineFails(c) \/ Respond(c)
      BY <3>2 DEF Timeout, IngressGate, Deny, Read, EngineFails, Respond, Goto, Reply
    <3>3. CASE Hello(c) \/ Register(c) \/ Journal(c) \/ CheckEnvelope(c) \/ Finish(c)
      BY <3>3 DEF Hello, Register, Journal, CheckEnvelope, Finish, Goto, Reply
    <3> QED
      BY <1>12, <3>1, <3>2, <3>3 DEF Serve
  <2>3. Engines' \subseteq Engines
    BY <1>4, <2>2
  <2>4. failed' \in Nat /\ failed' >= failed
    BY <1>0, <1>3
  <2> QED
    BY <1>2, <2>1, <2>3, <2>4, BiteQuiet
<1> QED
  BY <1>7, <1>8, <1>9, <1>10, <1>11, <1>12

(* Every step keeps the order's bite.                                      *)
LEMMA BiteNext ==
    ConnInv /\ RateInv /\ BiteInv /\ contained \in BOOLEAN /\ [Next]_vars
        => BiteInv' /\ contained' \in BOOLEAN
<1> SUFFICES ASSUME ConnInv, RateInv, BiteInv, contained \in BOOLEAN, [Next]_vars
             PROVE  BiteInv' /\ contained' \in BOOLEAN
  OBVIOUS
<1>0. /\ ConnTypes /\ pc \in [Conns -> PCs] /\ failed \in Nat
  BY DEF ConnInv, ConnTypes
<1>1. IsFiniteSet(Engines') /\ Cardinality(Engines') \in Nat
  <2>1. Engines' \subseteq Conns /\ IsFiniteSet(Conns)
    BY IngressAssumption, FS_Interval DEF Conns, Engines
  <2> QED
    BY <2>1, FS_Subset, FS_CardinalityType
<1>2. ASSUME UNCHANGED <<load, chain, contained>>, failed' \in {failed, failed + 1},
             \/ UNCHANGED pc
             \/ \E c \in Conns : \E p : p # "engine" /\ pc' = [pc EXCEPT ![c] = p]
      PROVE  BiteInv' /\ contained' \in BOOLEAN
  <2>1. Engines' \subseteq Engines
    BY <1>0, <1>2 DEF Engines
  <2>2. failed' \in Nat /\ failed' >= failed
    BY <1>0, <1>2
  <2> QED
    BY <1>1, <1>2, <2>1, <2>2, BiteQuiet
<1>3. ASSUME NEW c \in Conns, Accept(c) PROVE BiteInv' /\ contained' \in BOOLEAN
  <2>1. UNCHANGED <<load, chain, contained>>
    BY <1>3, LoopQuiet
  <2>2. failed' \in {failed, failed + 1}
    BY <1>3 DEF Accept, Handshake, Dispatch, StartFails, Overload
  <2>3. \E p : p # "engine" /\ pc' = [pc EXCEPT ![c] = p]
    BY <1>3 DEF Accept, Handshake, Dispatch, StartFails, Overload, Goto
  <2> QED
    BY <1>2, <2>1, <2>2, <2>3
<1>4. CASE Refuse
  <2>1. UNCHANGED <<load, chain, contained>>
    BY <1>4, LoopQuiet
  <2>2. failed' = failed /\ pc' = [pc EXCEPT ![Head(refuseQ)] = "closed"] /\ refuseQ # <<>>
    BY <1>4 DEF Refuse
  <2>3. Head(refuseQ) \in Conns
    BY <2>2, HeadTailProperties, EmptySeq DEF ConnInv, ConnTypes
  <2> QED
    BY <1>2, <2>1, <2>2, <2>3
<1>5. CASE BeaconAges \/ Tick \/ UNCHANGED vars
  <2>1. UNCHANGED <<load, chain, contained, failed, pc>>
    BY <1>5 DEF BeaconAges, Tick, vars, connVars, nodeVars, serverVars
  <2> QED
    BY <1>2, <2>1
<1>6. ASSUME NEW n, NEW st, Govern(n, st) PROVE BiteInv' /\ contained' \in BOOLEAN
  <2>1. UNCHANGED <<load, chain, contained, failed, pc>>
    BY <1>6, GovernQuiet DEF connVars
  <2> QED
    BY <1>2, <2>1
<1>7. CASE Reboot
  <2> DEFINE r == Record("boot", 0, "node", 0)
  <2>1. chain' = Append(chain, r) /\ contained' = FALSE
    BY <1>7 DEF Reboot, BootState
  <2>2. r \in Records /\ r.kind = "boot"
    BY DEF Record, Records, Kinds
  <2> HIDE DEF r
  <2>3. /\ Len(chain') = Len(chain) + 1 /\ Len(chain) \in Nat /\ chain'[Len(chain) + 1] = r
        /\ \A i \in 1..Len(chain) : ~ThisLife(i)'
    BY <2>1, <2>2, AfterAppend DEF RateInv
  <2>4. \A i \in 1..Len(chain') : chain'[i].kind = "contain" => ~ThisLife(i)'
    <3>1. \A i \in 1..Len(chain') : i \in 1..Len(chain) \/ i = Len(chain) + 1
      BY <2>3
    <3> QED
      BY <2>2, <2>3, <3>1
  <2> QED
    BY <2>1, <2>4 DEF BiteInv
<1> QED
  BY <1>3, <1>4, <1>5, <1>6, <1>7, BiteServe DEF Next, Progress, Supervise, Crash

(* Node.contained and the governor: after an order of this life and before *)
(* a release, fewer generations are recorded than workers there can be,    *)
(* because only those that had passed the governor still reach the chain.  *)
THEOREM ContainmentAlwaysBites == IngressSpec => []ContainmentBites
<1>1. Init => BiteInv /\ contained \in BOOLEAN
  <2>1. ASSUME Init PROVE 1..Len(chain) = {} /\ contained = FALSE
    BY <2>1 DEF Init
  <2> QED
    BY <2>1 DEF BiteInv
<1>2. RateInv /\ BiteInv => ContainmentBites
  <2>1. RateInv => DOMAIN chain = 1..Len(chain)
    BY DEF RateInv, RateTypes
  <2> QED
    BY <2>1 DEF BiteInv, Bites, ThisLife, ContainmentBites
<1>3. ConnInv /\ RateInv /\ (BiteInv /\ contained \in BOOLEAN) /\ [Next]_vars
        => (BiteInv /\ contained \in BOOLEAN)'
  BY BiteNext
<1> QED
  BY ConnInit, ConnNext, RateInit, RateNext, <1>1, <1>2, <1>3, PTL DEF IngressSpec

=============================================================================
