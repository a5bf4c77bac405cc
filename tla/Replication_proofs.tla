-------------------------- MODULE Replication_proofs --------------------------
(***************************************************************************)
(* Proofs about Replication, for any set of nodes, any network of them,    *)
(* any threshold and any number of faults: receipts are backed by copies,  *)
(* honest nodes are never accused, forks are never linked away, and        *)
(* bookkeeping is paid for.                                                *)
(***************************************************************************)
EXTENDS Replication, SequenceTheorems, FiniteSetTheorems, WellFoundedInduction, TLAPS

(* A bounded set of numbers that is not empty has a greatest.              *)
LEMMA MaxExists ==
    ASSUME NEW b \in Nat, NEW S, S \subseteq 0..b, S # {}
    PROVE  Max(S) \in S /\ \A y \in S : y <= Max(S)
<1> DEFINE T == {i \in Nat : b - i \in S}
<1>1. \E i : i \in T
  <2>1. PICK x \in S : TRUE
    OBVIOUS
  <2>2. b - x \in Nat /\ b - (b - x) = x
    BY <2>1
  <2> QED
    BY <2>2
<1>2. T \subseteq Nat
  OBVIOUS
<1>3. \E i \in T : \A j \in T : ~(<<j, i>> \in OpToRel(<, Nat))
  <2> HIDE DEF T
  <2> QED
    BY <1>1, <1>2, NatLessThanWellFounded, WFMin, Zenon
<1>4. PICK i \in T : \A j \in T : ~(<<j, i>> \in OpToRel(<, Nat))
  BY <1>3
<1>5. \A j \in T : ~(j < i)
  <2> HIDE DEF T
  <2> QED
    BY <1>2, <1>4 DEF OpToRel
<1>6. b - i \in S /\ i \in Nat
  OBVIOUS
<1>7. ASSUME NEW y \in S PROVE b - i >= y
  <2>1. y \in Nat /\ b - y \in Nat /\ b - (b - y) = y
    OBVIOUS
  <2>2. ~(b - y < i)
    BY <1>5, <2>1
  <2> QED
    BY <1>6, <2>1, <2>2
<1>8. \E x \in S : \A y \in S : x >= y
  BY <1>6, <1>7
<1>9. Max(S) \in S /\ \A y \in S : Max(S) >= y
  BY <1>8 DEF Max
<1>10. \A y \in S : y \in Int
  OBVIOUS
<1> QED
  BY <1>9, <1>10

----------------------------------------------------------------------------
(* Types, and who talks to whom.                                           *)

NodeTypes ==
    /\ net \in Net
    /\ chain \in [Node -> Seq(Rec)]
    /\ faults \in [Fault -> Nat]

StoreTypes ==
    /\ held \in [Node -> [Node -> SUBSET Root]]
    /\ stored \in [Node -> [Node -> SUBSET Root]]
    /\ links \in [Node -> [Node -> SUBSET (Nat \X Nat)]]
    /\ evidence \in [Node -> SUBSET Node]
    /\ \A p, n \in Node : \E b \in Nat :
         \A e \in held[p][n] \union stored[p][n] : e.count <= b

PushTypes ==
    /\ push \in [Node -> Push]
    /\ \A n \in Node : n \notin push[n].todo

MessageTypes ==
    /\ requests \subseteq Request
    /\ handling \in [Node -> SUBSET Handler]
    /\ \A r \in requests : r.from # r.to
    /\ \A n \in Node : \A h \in handling[n] : /\ h.req.to = n /\ h.req.from # n
                                              /\ h.req.env \in held[n][h.req.from]

AckTypes == acks \in [Node -> SUBSET Ack] /\ quorums \in [Node -> SUBSET Root]

StateTypes == NodeTypes /\ StoreTypes /\ PushTypes /\ MessageTypes /\ AckTypes

(* The last record that is not bookkeeping has a place in the chain.       *)
LEMMA HeadIsPlace ==
    ASSUME NodeTypes, NEW n \in Node
    PROVE  SubstantiveHead(n) \in Nat
<1> DEFINE S == {0} \union {i \in 1..Len(chain[n]) : chain[n][i].kind = "WORK"}
<1>1. Len(chain[n]) \in Nat /\ S \subseteq 0..Len(chain[n]) /\ S # {}
  BY DEF NodeTypes
<1>2. Max(S) \in S
  <2> HIDE DEF S
  <2> QED
    BY <1>1, MaxExists
<1> QED
  BY <1>1, <1>2 DEF SubstantiveHead

(* What a receiver wants proved links an older root to a newer one.        *)
LEMMA WantedIs ==
    ASSUME StoreTypes, NEW p \in Node, NEW n \in Node
    PROVE  /\ Wanted(p, n) \in Nat
           /\ Wanted(p, n) > 0 => /\ \E d \in held[p][n] : d.count = Wanted(p, n)
                                  /\ \E e \in held[p][n] : e.count > Wanted(p, n)
<1> DEFINE counts == {e.count : e \in held[p][n]}
           new == Max(counts)
           old == Max(counts \ {new})
<1>1. PICK b \in Nat : \A e \in held[p][n] : e.count <= b
  BY DEF StoreTypes
<1>2. \A e \in held[p][n] : e.count \in Nat
  BY DEF StoreTypes, Root
<1>3. counts \subseteq 0..b
  BY <1>1, <1>2
<1>4. CASE Cardinality(counts) < 2
  BY <1>4 DEF Wanted
<1>5. CASE ~(Cardinality(counts) < 2)
  <2>1. counts # {} /\ \A x : counts # {x}
    <3> HIDE DEF counts
    <3>1. ASSUME counts = {} PROVE FALSE
      BY <1>5, <3>1, FS_EmptySet
    <3>2. ASSUME NEW x, counts = {x} PROVE FALSE
      <4>1. Cardinality({x}) = 1
        BY FS_Singleton, Zenon
      <4> QED
        BY <1>5, <3>2, <4>1
    <3> QED
      BY <3>1, <3>2
  <2>2. new \in counts /\ \A y \in counts : y <= new
    <3> HIDE DEF counts
    <3> QED
      BY <1>3, <2>1, MaxExists
  <2>3. counts \ {new} # {}
    <3> HIDE DEF counts, new
    <3> QED
      BY <2>1, <2>2
  <2>4. old \in counts \ {new}
    <3> HIDE DEF counts, new
    <3>1. counts \ {new} \subseteq 0..b
      BY <1>3
    <3> QED
      BY <2>3, <3>1, MaxExists
  <2>5. old \in counts /\ old < new /\ old \in Nat
    <3> HIDE DEF counts, new, old
    <3>1. old \in Nat /\ new \in Nat /\ old <= new /\ old # new
      BY <1>3, <2>2, <2>4
    <3> QED
      BY <2>4, <3>1
  <2>6. Wanted(p, n) \in {0, old}
    BY DEF Wanted
  <2>7. /\ \E d \in held[p][n] : d.count = old
        /\ \E e \in held[p][n] : e.count > old
    <3>1. PICK d \in held[p][n] : d.count = old
      BY <2>5
    <3>2. PICK e \in held[p][n] : e.count = new
      BY <2>2
    <3> HIDE DEF counts, new, old
    <3>3. e.count > old
      BY <2>5, <3>2, <1>2
    <3> QED
      BY <3>1, <3>3
  <2> HIDE DEF counts, new, old
  <2> QED
    BY <2>5, <2>6, <2>7
<1> QED
  BY <1>4, <1>5

(* A step of one push: what the loop's place becomes.                      *)
Moved(n, v) == v \in Push /\ n \notin v.todo /\ push' = [push EXCEPT ![n] = v]

(* The loop's steps, each as a change of one place.                        *)
LEMMA PushMoves ==
    ASSUME StateTypes, NEW n \in Node
    PROVE  /\ PushStart(n) =>
                Moved(n, [NoPush EXCEPT !.pc = "reading", !.sub = SubstantiveHead(n),
                                        !.env = [NoRoot EXCEPT !.count = Len(chain[n])]])
           /\ SignRoot(n) =>
                Moved(n, [push[n] EXCEPT !.pc = "send", !.env = [push[n].env EXCEPT !.root = chain[n]],
                                         !.todo = Node \ {n}])
           /\ \A p \in Node : Send(n, p) =>
                Moved(n, [push[n] EXCEPT !.pc = "wait", !.todo = push[n].todo \ {p}, !.at = {p},
                                         !.try = TotalFaults])
           /\ GiveUp(n) \/ (\E p \in Node : ProveLink(n, p)) =>
                Moved(n, [push[n] EXCEPT !.pc = "send", !.at = {}, !.old = 0])
           /\ PushDone(n) \/ ReceiptRaises(n) \/ RecordQuorum(n) \/ Reboot(n) => Moved(n, NoPush)
           /\ Receipt(n) => Moved(n, [push[n] EXCEPT !.pc = "record"])
<1>0. /\ push \in [Node -> Push] /\ push[n] \in Push /\ n \notin push[n].todo
      /\ push[n].env \in Root /\ push[n].todo \subseteq Node
  BY DEF StateTypes, PushTypes, Push
<1>1. /\ chain[n] \in Seq(Rec) /\ Len(chain[n]) \in Nat /\ SubstantiveHead(n) \in Nat
      /\ TotalFaults \in Nat
  BY HeadIsPlace DEF StateTypes, NodeTypes, TotalFaults, Fault
<1>2. NoRoot \in Root /\ NoPush \in Push /\ n \notin NoPush.todo
  <2>1. <<>> \in Seq(Rec)
    OBVIOUS
  <2> QED
    BY <2>1 DEF NoRoot, Root, NoPush, Push
<1>3. ASSUME PushStart(n)
      PROVE  Moved(n, [NoPush EXCEPT !.pc = "reading", !.sub = SubstantiveHead(n),
                                     !.env = [NoRoot EXCEPT !.count = Len(chain[n])]])
  <2> DEFINE e == [NoRoot EXCEPT !.count = Len(chain[n])]
  <2>1. e \in Root
    BY <1>1, <1>2 DEF Root
  <2>2. push' = [push EXCEPT ![n] = [NoPush EXCEPT !.pc = "reading", !.sub = SubstantiveHead(n),
                                                   !.env = e]]
    BY <1>3 DEF PushStart
  <2> HIDE DEF e
  <2>3. [NoPush EXCEPT !.pc = "reading", !.sub = SubstantiveHead(n), !.env = e] \in Push
    BY <1>1, <1>2, <2>1 DEF Push
  <2>4. [NoPush EXCEPT !.pc = "reading", !.sub = SubstantiveHead(n), !.env = e].todo = {}
    BY DEF NoPush
  <2> QED
    BY <2>2, <2>3, <2>4 DEF Moved, e
<1>4. ASSUME SignRoot(n)
      PROVE  Moved(n, [push[n] EXCEPT !.pc = "send", !.env = [push[n].env EXCEPT !.root = chain[n]],
                                      !.todo = Node \ {n}])
  <2> DEFINE e == [push[n].env EXCEPT !.root = chain[n]]
  <2>1. e \in Root
    BY <1>0, <1>1 DEF Root
  <2>2. push' = [push EXCEPT ![n] = [push[n] EXCEPT !.pc = "send", !.env = e, !.todo = Node \ {n}]]
    BY <1>0, <1>4 DEF SignRoot, Push
  <2> HIDE DEF e
  <2>3. [push[n] EXCEPT !.pc = "send", !.env = e, !.todo = Node \ {n}] \in Push
    BY <1>0, <2>1 DEF Push
  <2>4. [push[n] EXCEPT !.pc = "send", !.env = e, !.todo = Node \ {n}].todo = Node \ {n}
    BY <1>0 DEF Push
  <2> QED
    BY <2>2, <2>3, <2>4 DEF Moved, e
<1>5. ASSUME NEW p \in Node, Send(n, p)
      PROVE  Moved(n, [push[n] EXCEPT !.pc = "wait", !.todo = push[n].todo \ {p}, !.at = {p},
                                      !.try = TotalFaults])
  BY <1>0, <1>1, <1>5 DEF Send, Moved, Push
<1>6. ASSUME GiveUp(n) \/ (\E p \in Node : ProveLink(n, p))
      PROVE  Moved(n, [push[n] EXCEPT !.pc = "send", !.at = {}, !.old = 0])
  <2>1. push' = [push EXCEPT ![n].pc = "send", ![n].at = {}, ![n].old = 0]
    BY <1>6 DEF GiveUp, ProveLink
  <2> QED
    BY <1>0, <2>1 DEF Moved, Push
<1>7. ASSUME PushDone(n) \/ ReceiptRaises(n) \/ RecordQuorum(n) \/ Reboot(n)
      PROVE  Moved(n, NoPush)
  <2>1. push' = [push EXCEPT ![n] = NoPush]
    BY <1>7 DEF PushDone, ReceiptRaises, RecordQuorum, Reboot, Completed
  <2> QED
    BY <1>2, <2>1 DEF Moved
<1>8. ASSUME Receipt(n) PROVE Moved(n, [push[n] EXCEPT !.pc = "record"])
  <2>1. push' = [push EXCEPT ![n].pc = "record"]
    BY <1>8 DEF Receipt
  <2> QED
    BY <1>0, <2>1 DEF Moved, Push
<1> QED
  BY <1>3, <1>4, <1>5, <1>6, <1>7, <1>8

(* A response, as a change of one place and of the acknowledgements there. *)
LEMMA ResponseMoves ==
    ASSUME StateTypes, NEW r \in Request, NEW acked \in BOOLEAN, NEW wanted \in Nat,
           Respond(r, acked, wanted)
    PROVE  \/ UNCHANGED <<acks, push>>
           \/ /\ Waiting(r)
              /\ Moved(r.from, [push[r.from] EXCEPT !.pc = IF wanted > 0 THEN "prove" ELSE "send",
                                   !.old = wanted, !.at = IF wanted > 0 THEN {r.to} ELSE {}])
              /\ acks' = [acks EXCEPT ![r.from] =
                            IF acked THEN @ \union {[env |-> r.env, by |-> r.to]} ELSE @]
<1>0. /\ push \in [Node -> Push] /\ r.from \in Node /\ r.to \in Node
      /\ push[r.from] \in Push /\ r.from \notin push[r.from].todo
  BY DEF StateTypes, PushTypes, Request
<1>1. CASE ~Waiting(r)
  BY <1>1 DEF Respond
<1>2. CASE Waiting(r)
  <2>1. push[r.from].at = {r.to}
    BY <1>2 DEF Waiting
  <2>2. Moved(r.from, [push[r.from] EXCEPT !.pc = IF wanted > 0 THEN "prove" ELSE "send",
                           !.old = wanted, !.at = IF wanted > 0 THEN {r.to} ELSE {}])
    <3>1. CASE wanted > 0
      BY <1>0, <1>2, <2>1, <3>1 DEF Respond, Moved, Push
    <3>2. CASE ~(wanted > 0)
      BY <1>0, <1>2, <2>1, <3>2 DEF Respond, Moved, Push
    <3> QED
      BY <3>1, <3>2
  <2> QED
    BY <1>2, <2>2 DEF Respond
<1> QED
  BY <1>1, <1>2

(* The steps of a node's own, and those of a handler it runs.              *)
OwnStep(n, p) ==
    \/ Crash(n)
    \/ /\ n \in Pushing
       /\ \/ PushStart(n) \/ SignRoot(n) \/ GiveUp(n) \/ PushDone(n) \/ Receipt(n)
          \/ ReceiptRaises(n) \/ RecordQuorum(n) \/ Rollback(n)
          \/ Send(n, p) \/ ProveLink(n, p) \/ Work(n)
HandlerStep(r) ==
    /\ r.from # r.to /\ r.env \in held[r.to][r.from]
    /\ Persist(r) \/ PersistRaises(r) \/ WitnessPeerRoot(r)

(* Every step is one of them, or the arrival of a request.                 *)
LEMMA NextIsStep ==
    ASSUME StateTypes, [Next]_vars
    PROVE  /\ net' = net
           /\ \/ UNCHANGED vars
              \/ \E n, p \in Node : OwnStep(n, p)
              \/ \E r \in requests : Answer(r) \/ Hold(r)
              \/ \E r \in Request : HandlerStep(r)
<1>1. CASE UNCHANGED vars
  BY <1>1 DEF vars
<1>2. CASE Next
  <2>0. Pushing \subseteq Node /\ net' = net /\ Step
    BY <1>2 DEF StateTypes, NodeTypes, Net, Pushing, Next
  <2>1. ASSUME NEW n \in Node, NEW h \in handling[n],
               Persist(h.req) \/ PersistRaises(h.req) \/ WitnessPeerRoot(h.req)
        PROVE  \E r \in Request : HandlerStep(r)
    <3>1. h \in Handler /\ h.req \in Request
      BY <2>1 DEF StateTypes, MessageTypes, Handler
    <3>2. h.req.to = n /\ h.req.from # n /\ h.req.env \in held[n][h.req.from]
      BY <2>1 DEF StateTypes, MessageTypes
    <3>3. HandlerStep(h.req)
      BY <2>1, <3>2 DEF HandlerStep
    <3> QED
      BY <3>1, <3>3
  <2>2. ASSUME NEW n \in Node, NEW p \in Node, OwnStep(n, p)
        PROVE  \E m, q \in Node : OwnStep(m, q)
    BY <2>2
  <2> QED
    BY <2>0, <2>1, <2>2 DEF Step, OwnStep
<1> QED
  BY <1>1, <1>2

(* Records are appended, or taken back, and faults are counted.            *)
LEMMA NodeTypesNext ==
    ASSUME StateTypes, [Next]_vars
    PROVE  NodeTypes' /\ \A f \in Fault : faults'[f] >= faults[f]
<1>0. net \in Net /\ chain \in [Node -> Seq(Rec)] /\ faults \in [Fault -> Nat]
  BY DEF StateTypes, NodeTypes
<1>1. ASSUME NEW n \in Node, NEW kind \in Kind, chain' = Extended(n, kind)
      PROVE  chain' \in [Node -> Seq(Rec)]
  <2>1. [kind |-> kind, life |-> faults["rollback"]] \in Rec
    BY <1>0 DEF Rec, Fault
  <2> QED
    BY <1>0, <1>1, <2>1 DEF Extended
<1>2. ASSUME NEW f \in Fault, Happens(f)
      PROVE  faults' \in [Fault -> Nat] /\ \A g \in Fault : faults'[g] >= faults[g]
  BY <1>0, <1>2 DEF Happens
<1>3. ASSUME UNCHANGED faults
      PROVE  faults' \in [Fault -> Nat] /\ \A g \in Fault : faults'[g] >= faults[g]
  BY <1>0, <1>3
<1>4. net' = net
  BY NextIsStep
<1>5. CASE UNCHANGED vars
  BY <1>0, <1>3, <1>5 DEF vars, NodeTypes
<1> USE DEF Kind, Fault
<1>6. ASSUME NEW n \in Node, NEW p \in Node, OwnStep(n, p)
      PROVE  NodeTypes' /\ \A f \in Fault : faults'[f] >= faults[f]
  <2>1. CASE PushStart(n) \/ SignRoot(n) \/ PushDone(n) \/ Receipt(n) \/ Send(n, p) \/ ProveLink(n, p)
    <3>1. UNCHANGED <<chain, faults>>
      BY <2>1 DEF PushStart, SignRoot, PushDone, Receipt, Send, ProveLink
    <3> QED
      BY <1>0, <1>3, <1>4, <3>1 DEF NodeTypes
  <2>2. CASE GiveUp(n) \/ ReceiptRaises(n) \/ Crash(n)
    <3>1. chain' = chain /\ (UNCHANGED faults \/ \E f \in Fault : Happens(f))
      BY <2>2 DEF GiveUp, ReceiptRaises, Crash
    <3> QED
      BY <1>0, <1>2, <1>3, <1>4, <3>1 DEF NodeTypes
  <2>3. CASE RecordQuorum(n) \/ Work(n)
    <3>1. UNCHANGED faults /\ \E kind \in Kind : chain' = Extended(n, kind)
      BY <2>3 DEF RecordQuorum, Work
    <3> QED
      BY <1>0, <1>1, <1>3, <1>4, <3>1 DEF NodeTypes
  <2>4. CASE Rollback(n)
    <3>1. PICK len \in 0..(Len(chain[n]) - 1) : chain' = [chain EXCEPT ![n] = SubSeq(@, 1, len)]
      BY <2>4 DEF Rollback
    <3>2. chain[n] \in Seq(Rec) /\ Len(chain[n]) \in Nat /\ 1 \in Int /\ len \in Int
          /\ \A i \in 1..len : chain[n][i] \in Rec
      BY <1>0
    <3>3. SubSeq(chain[n], 1, len) \in Seq(Rec)
      BY <3>2, SubSeqProperties
    <3>4. chain' \in [Node -> Seq(Rec)]
      BY <1>0, <3>1, <3>3
    <3>5. Happens("rollback")
      BY <2>4 DEF Rollback
    <3> QED
      BY <1>0, <1>2, <1>4, <3>4, <3>5 DEF NodeTypes
  <2> QED
    BY <1>6, <2>1, <2>2, <2>3, <2>4 DEF OwnStep
<1>7. ASSUME NEW r \in requests, Answer(r) \/ Hold(r)
      PROVE  NodeTypes' /\ \A f \in Fault : faults'[f] >= faults[f]
  <2>1. UNCHANGED <<chain, faults>>
    BY <1>7 DEF Answer, Hold
  <2> QED
    BY <1>0, <1>3, <1>4, <2>1 DEF NodeTypes
<1>8. ASSUME NEW r \in Request, HandlerStep(r)
      PROVE  NodeTypes' /\ \A f \in Fault : faults'[f] >= faults[f]
  <2>1. CASE Persist(r)
    BY <1>0, <1>3, <1>4, <2>1 DEF NodeTypes, Persist
  <2>2. CASE PersistRaises(r)
    BY <1>0, <1>2, <1>4, <2>2 DEF NodeTypes, PersistRaises
  <2>3. CASE WitnessPeerRoot(r)
    <3>1. chain' = Extended(r.to, "PEER_ROOT") /\ UNCHANGED faults /\ r.to \in Node
      BY <2>3 DEF WitnessPeerRoot, Request
    <3> QED
      BY <1>0, <1>1, <1>3, <1>4, <3>1 DEF NodeTypes
  <2> QED
    BY <1>8, <2>1, <2>2, <2>3 DEF HandlerStep
<1> QED
  BY <1>5, <1>6, <1>7, <1>8, NextIsStep

(* The push of a node, and what is acknowledged to it.                     *)
LEMMA PushTypesNext ==
    ASSUME StateTypes, [Next]_vars
    PROVE  PushTypes' /\ AckTypes'
<1>0. /\ PushTypes /\ AckTypes /\ acks \in [Node -> SUBSET Ack] /\ quorums \in [Node -> SUBSET Root]
      /\ StoreTypes /\ push \in [Node -> Push]
  BY DEF StateTypes, AckTypes, PushTypes
<1>1. ASSUME NEW n \in Node, NEW v, Moved(n, v) PROVE PushTypes'
  BY <1>0, <1>1 DEF Moved, PushTypes
<1>2. ASSUME UNCHANGED push PROVE PushTypes'
  BY <1>0, <1>2 DEF PushTypes
<1>3. CASE UNCHANGED vars
  BY <1>0, <1>2, <1>3 DEF vars, origin, AckTypes
<1>4. ASSUME NEW n \in Node, NEW p \in Node, OwnStep(n, p) PROVE PushTypes' /\ AckTypes'
  <2>1. PushTypes'
    <3>1. Work(n) \/ \E v : Moved(n, v)
      BY <1>4, PushMoves DEF OwnStep, Crash, Rollback
    <3> QED
      BY <1>1, <1>2, <3>1 DEF Work
  <2>2. AckTypes'
    <3>1. CASE Receipt(n)
      <4>1. push[n].env \in Root
        BY <1>0 DEF Push
      <4> QED
        BY <1>0, <3>1, <4>1 DEF Receipt, AckTypes
    <3>2. CASE Crash(n) \/ Rollback(n)
      BY <1>0, <3>2 DEF Crash, Rollback, Reboot, AckTypes
    <3>3. CASE ~Receipt(n) /\ ~Crash(n) /\ ~Rollback(n)
      <4>1. UNCHANGED <<acks, quorums>>
        BY <1>4, <3>3 DEF OwnStep, PushStart, SignRoot, GiveUp, PushDone, ReceiptRaises,
           RecordQuorum, Send, ProveLink, Work, origin
      <4> QED
        BY <1>0, <4>1 DEF AckTypes
    <3> QED
      BY <3>1, <3>2, <3>3
  <2> QED
    BY <2>1, <2>2
<1>5. ASSUME NEW r \in Request, UNCHANGED quorums,
             \/ UNCHANGED <<acks, push>>
             \/ \E acked \in BOOLEAN, wanted \in Nat : Respond(r, acked, wanted)
      PROVE  PushTypes' /\ AckTypes'
  <2>1. CASE UNCHANGED <<acks, push>>
    BY <1>0, <1>2, <1>5, <2>1 DEF AckTypes
  <2>2. ASSUME NEW acked \in BOOLEAN, NEW wanted \in Nat, Respond(r, acked, wanted),
               ~UNCHANGED <<acks, push>>
        PROVE  PushTypes' /\ AckTypes'
    <3>1. /\ \E v : Moved(r.from, v)
          /\ acks' = [acks EXCEPT ![r.from] =
                            IF acked THEN @ \union {[env |-> r.env, by |-> r.to]} ELSE @]
      <4> DEFINE v == [push[r.from] EXCEPT !.pc = IF wanted > 0 THEN "prove" ELSE "send",
                            !.old = wanted, !.at = IF wanted > 0 THEN {r.to} ELSE {}]
      <4>1. /\ Moved(r.from, v)
            /\ acks' = [acks EXCEPT ![r.from] =
                            IF acked THEN @ \union {[env |-> r.env, by |-> r.to]} ELSE @]
        BY <2>2, ResponseMoves
      <4> HIDE DEF v
      <4> QED
        BY <4>1
    <3>2. [env |-> r.env, by |-> r.to] \in Ack /\ r.from \in Node
      BY DEF Request, Ack
    <3> QED
      BY <1>0, <1>1, <1>5, <3>1, <3>2 DEF AckTypes
  <2> QED
    BY <1>5, <2>1, <2>2
<1>6. ASSUME NEW r \in requests, Answer(r) \/ Hold(r) PROVE PushTypes' /\ AckTypes'
  <2>1. r \in Request /\ Wanted(r.to, r.from) \in Nat
    <3>1. r \in Request /\ r.to \in Node /\ r.from \in Node
      BY DEF StateTypes, MessageTypes, Request
    <3> QED
      BY <1>0, <3>1, WantedIs
  <2>2. CASE Hold(r)
    BY <1>5, <2>1, <2>2 DEF Hold, origin
  <2>3. CASE Answer(r)
    <3> DEFINE acked == Outcome(r.to, r.from, r.env) = "duplicate"
               wanted == IF acked THEN Wanted(r.to, r.from) ELSE 0
    <3>1. Respond(r, acked, wanted) /\ UNCHANGED quorums
      BY <2>3 DEF Answer
    <3>2. acked \in BOOLEAN /\ wanted \in Nat
      BY <2>1
    <3> HIDE DEF acked, wanted
    <3> QED
      BY <1>5, <2>1, <3>1, <3>2
  <2> QED
    BY <1>6, <2>2, <2>3
<1>7. ASSUME NEW r \in Request, HandlerStep(r) PROVE PushTypes' /\ AckTypes'
  <2>1. CASE Persist(r)
    BY <1>5, <2>1 DEF Persist, origin
  <2>2. CASE PersistRaises(r)
    BY <1>5, <2>2 DEF PersistRaises
  <2>3. CASE WitnessPeerRoot(r)
    <3>1. r.to \in Node /\ r.from \in Node
      BY DEF Request
    <3>2. Wanted(r.to, r.from) \in Nat
      BY <1>0, <3>1, WantedIs
    <3> QED
      BY <1>5, <2>3, <3>2 DEF WitnessPeerRoot
  <2> QED
    BY <1>7, <2>1, <2>2, <2>3 DEF HandlerStep
<1> QED
  BY <1>3, <1>4, <1>6, <1>7, NextIsStep

(* What an outcome says of the roots held.                                 *)
LEMMA OutcomeIs ==
    ASSUME StoreTypes, NEW p \in Node, NEW n \in Node, NEW e \in Root
    PROVE  /\ Outcome(p, n, e) = "duplicate" => e \in held[p][n]
           /\ Outcome(p, n, e) = "stored" => \A f \in held[p][n] : f.count < e.count
           /\ Outcome(p, n, e) = "divergence" =>
                \E f \in held[p][n] : f.count = e.count /\ f # e
<1> DEFINE H == HeldAt(p, n, e.count)
<1>0. held[p][n] \subseteq Root /\ e.count \in Nat /\ \A f \in held[p][n] : f.count \in Nat
  BY DEF StoreTypes, Root
<1>1. CASE H = {e}
  <2>1. Outcome(p, n, e) = "duplicate"
    BY <1>1 DEF Outcome
  <2>2. e \in held[p][n]
    BY <1>1 DEF HeldAt
  <2> QED
    BY <2>1, <2>2
<1>2. CASE H \notin {{}, {e}}
  <2>1. Outcome(p, n, e) = "divergence"
    BY <1>2 DEF Outcome
  <2>2. PICK f \in H : f # e
    BY <1>2
  <2>3. f \in held[p][n] /\ f.count = e.count
    BY DEF HeldAt
  <2> QED
    BY <2>1, <2>2, <2>3
<1>3. CASE H = {} /\ Stale(p, n, e.count)
  BY <1>3 DEF Outcome
<1>4. CASE H = {} /\ ~Stale(p, n, e.count)
  <2>1. Outcome(p, n, e) = "stored"
    BY <1>4 DEF Outcome
  <2>2. ASSUME NEW f \in held[p][n] PROVE f.count < e.count
    <3>1. f.count # e.count /\ ~(f.count > e.count)
      BY <1>4 DEF HeldAt, Stale
    <3> QED
      BY <1>0, <3>1
  <2> QED
    BY <2>1, <2>2
<1> QED
  BY <1>1, <1>2, <1>3, <1>4

(* A root that is held or stored raises the bound on their counts.         *)
LEMMA BoundGrows ==
    ASSUME NEW b \in Nat, NEW S \in SUBSET Root, NEW e \in Root, \A f \in S : f.count <= b
    PROVE  \E c \in Nat : \A f \in S \union {e} : f.count <= c
<1>1. e.count \in Nat /\ b + e.count \in Nat /\ \A f \in S : f.count \in Nat
  BY DEF Root
<1>2. \A f \in S \union {e} : f.count <= b + e.count
  BY <1>1
<1> QED
  BY <1>1, <1>2

(* An element put in one place of a store of sets.                         *)
LEMMA PutIn ==
    ASSUME NEW S, NEW f \in [Node -> [Node -> SUBSET S]], NEW a \in Node, NEW b \in Node,
           NEW x \in S, NEW g, g = [f EXCEPT ![a][b] = @ \union {x}]
    PROVE  /\ g \in [Node -> [Node -> SUBSET S]]
           /\ \A q, m \in Node : g[q][m] = IF q = a /\ m = b THEN f[q][m] \union {x} ELSE f[q][m]
<1>1. \A q, m \in Node : g[q][m] = IF q = a /\ m = b THEN f[q][m] \union {x} ELSE f[q][m]
  OBVIOUS
<1>2. \A q, m \in Node : g[q][m] \in SUBSET S
  BY <1>1
<1>3. g = [q \in Node |-> g[q]] /\ \A q \in Node : g[q] = [m \in Node |-> g[q][m]]
  OBVIOUS
<1>4. \A q \in Node : g[q] \in [Node -> SUBSET S]
  BY <1>2, <1>3
<1> QED
  BY <1>1, <1>3, <1>4

(* The replica store, and how it may shrink: only by a restart.            *)
LEMMA StoreTypesNext ==
    ASSUME StateTypes, [Next]_vars
    PROVE  /\ StoreTypes'
           /\ \A p, n \in Node : \/ held[p][n] \subseteq held'[p][n]
                                 \/ Crash(p)
                                 \/ p \in Pushing /\ Rollback(p)
<1> DEFINE Grows == \A p, n \in Node : \/ held[p][n] \subseteq held'[p][n]
                                       \/ Crash(p)
                                       \/ p \in Pushing /\ Rollback(p)
<1>0. /\ StoreTypes
      /\ held \in [Node -> [Node -> SUBSET Root]]
      /\ stored \in [Node -> [Node -> SUBSET Root]]
      /\ links \in [Node -> [Node -> SUBSET (Nat \X Nat)]]
      /\ evidence \in [Node -> SUBSET Node]
  BY DEF StateTypes, StoreTypes
<1>1. ASSUME UNCHANGED <<held, stored>>, links' \in [Node -> [Node -> SUBSET (Nat \X Nat)]],
             evidence' \in [Node -> SUBSET Node]
      PROVE  StoreTypes' /\ Grows
  BY <1>0, <1>1 DEF StoreTypes
<1>2. CASE UNCHANGED vars
  BY <1>0, <1>1, <1>2 DEF vars, store
<1>3. ASSUME NEW n \in Node, NEW p \in Node, OwnStep(n, p) PROVE StoreTypes' /\ Grows
  <2>1. CASE ProveLink(n, p)
    <3>1. push[n].old \in Nat /\ Len(chain[n]) \in Nat
      BY DEF StateTypes, NodeTypes, PushTypes, Push
    <3>2. UNCHANGED <<held, stored>>
      BY <2>1 DEF ProveLink
    <3>3. <<push[n].old, Len(chain[n])>> \in Nat \X Nat
      BY <3>1
    <3>4. links' \in [Node -> [Node -> SUBSET (Nat \X Nat)]]
      <4>1. \/ UNCHANGED links
            \/ links' = [links EXCEPT ![p][n] = @ \union {<<push[n].old, Len(chain[n])>>}]
            \/ links' = [links EXCEPT ![p][n] = @]
        BY <2>1 DEF ProveLink
      <4>2. ASSUME links' = [links EXCEPT ![p][n] = @ \union {<<push[n].old, Len(chain[n])>>}]
            PROVE  links' \in [Node -> [Node -> SUBSET (Nat \X Nat)]]
        BY <1>0, <3>3, <4>2, PutIn
      <4>3. ASSUME links' = [links EXCEPT ![p][n] = @] PROVE links' = links
        BY <1>0, <4>3
      <4> QED
        BY <1>0, <4>1, <4>2, <4>3
    <3>5. evidence' \in [Node -> SUBSET Node]
      <4>1. \/ UNCHANGED evidence
            \/ evidence' = [evidence EXCEPT ![p] = @]
            \/ evidence' = [evidence EXCEPT ![p] = @ \union {n}]
        BY <2>1 DEF ProveLink
      <4> QED
        BY <1>0, <4>1
    <3> QED
      BY <1>1, <3>2, <3>4, <3>5
  <2>2. CASE Crash(n) \/ (n \in Pushing /\ Rollback(n))
    <3>1. held' = [held EXCEPT ![n] = stored[n]] /\ UNCHANGED <<stored, links, evidence>>
      BY <2>2 DEF Crash, Rollback, Reboot
    <3>2. held' \in [Node -> [Node -> SUBSET Root]]
      BY <1>0, <3>1
    <3>3. ASSUME NEW q \in Node, NEW m \in Node
          PROVE  \E b \in Nat : \A e \in held'[q][m] \union stored'[q][m] : e.count <= b
      <4>1. PICK b \in Nat : \A e \in held[q][m] \union stored[q][m] : e.count <= b
        BY <1>0 DEF StoreTypes
      <4>2. held'[q][m] \union stored'[q][m] \subseteq held[q][m] \union stored[q][m]
        BY <1>0, <3>1
      <4> QED
        BY <4>1, <4>2
    <3>4. Grows
      BY <1>0, <2>2, <3>1
    <3> QED
      BY <1>0, <3>1, <3>2, <3>3, <3>4 DEF StoreTypes
  <2>3. CASE ~ProveLink(n, p) /\ ~Crash(n) /\ ~(n \in Pushing /\ Rollback(n))
    <3>1. UNCHANGED store
      BY <1>3, <2>3 DEF OwnStep, PushStart, SignRoot, GiveUp, PushDone, Receipt, ReceiptRaises,
           RecordQuorum, Send, Work
    <3> QED
      BY <1>0, <1>1, <3>1 DEF store
  <2> QED
    BY <1>3, <2>1, <2>2, <2>3 DEF OwnStep
<1>7. ASSUME NEW e \in Root,
             \A q, m \in Node :
               held'[q][m] \union stored'[q][m] \subseteq (held[q][m] \union stored[q][m]) \union {e}
      PROVE  \A q, m \in Node : \E c \in Nat : \A f \in held'[q][m] \union stored'[q][m] : f.count <= c
  <2> TAKE q, m \in Node
  <2> DEFINE S == held[q][m] \union stored[q][m]
  <2>1. PICK b \in Nat : \A f \in S : f.count <= b
    BY <1>0 DEF StoreTypes
  <2>2. S \in SUBSET Root
    BY <1>0
  <2>3. held'[q][m] \union stored'[q][m] \subseteq S \union {e}
    BY <1>7
  <2> HIDE DEF S
  <2>4. \E c \in Nat : \A f \in S \union {e} : f.count <= c
    BY <2>1, <2>2, BoundGrows
  <2> QED
    BY <2>3, <2>4
<1>4. ASSUME NEW r \in Request,
             \/ /\ held' = [held EXCEPT ![r.to][r.from] = @ \union {r.env}] /\ stored' = stored
             \/ /\ stored' = [stored EXCEPT ![r.to][r.from] = @ \union {r.env}] /\ held' = held,
             UNCHANGED <<links, evidence>>
      PROVE  StoreTypes' /\ Grows
  <2>0. r.env \in Root /\ r.to \in Node /\ r.from \in Node
    BY DEF Request
  <2>1. CASE held' = [held EXCEPT ![r.to][r.from] = @ \union {r.env}] /\ stored' = stored
    <3>1. /\ held' \in [Node -> [Node -> SUBSET Root]]
          /\ \A q, m \in Node : held'[q][m] = IF q = r.to /\ m = r.from
                                             THEN held[q][m] \union {r.env} ELSE held[q][m]
      <4>1. PICK a \in Node, b \in Node, x \in Root : a = r.to /\ b = r.from /\ x = r.env
        BY <2>0
      <4>2. held' = [held EXCEPT ![a][b] = @ \union {x}]
        BY <2>1, <4>1
      <4>3. /\ held' \in [Node -> [Node -> SUBSET Root]]
            /\ \A q, m \in Node : held'[q][m] = IF q = a /\ m = b
                                               THEN held[q][m] \union {x} ELSE held[q][m]
        <5>1. held \in [Node -> [Node -> SUBSET Root]]
          BY <1>0
        <5>2. held' \in [Node -> [Node -> SUBSET Root]]
          BY <4>2, <5>1, PutIn
        <5>3. \A q, m \in Node : held'[q][m] = IF q = a /\ m = b
                                             THEN held[q][m] \union {x} ELSE held[q][m]
          BY <4>2, <5>1
        <5> QED
          BY <5>2, <5>3
      <4> QED
        BY <4>1, <4>3
    <3>2. \A q, m \in Node :
            held'[q][m] \union stored'[q][m] \subseteq (held[q][m] \union stored[q][m]) \union {r.env}
      BY <2>1, <3>1
    <3>3. Grows
      BY <3>1
    <3> QED
      BY <1>0, <1>4, <1>7, <2>0, <2>1, <3>1, <3>2, <3>3 DEF StoreTypes
  <2>2. CASE stored' = [stored EXCEPT ![r.to][r.from] = @ \union {r.env}] /\ held' = held
    <3>1. /\ stored' \in [Node -> [Node -> SUBSET Root]]
          /\ \A q, m \in Node : stored'[q][m] = IF q = r.to /\ m = r.from
                                             THEN stored[q][m] \union {r.env} ELSE stored[q][m]
      <4>1. PICK a \in Node, b \in Node, x \in Root : a = r.to /\ b = r.from /\ x = r.env
        BY <2>0
      <4>2. stored' = [stored EXCEPT ![a][b] = @ \union {x}]
        BY <2>2, <4>1
      <4>3. /\ stored' \in [Node -> [Node -> SUBSET Root]]
            /\ \A q, m \in Node : stored'[q][m] = IF q = a /\ m = b
                                               THEN stored[q][m] \union {x} ELSE stored[q][m]
        <5>1. stored \in [Node -> [Node -> SUBSET Root]]
          BY <1>0
        <5>2. stored' \in [Node -> [Node -> SUBSET Root]]
          BY <4>2, <5>1, PutIn
        <5>3. \A q, m \in Node : stored'[q][m] = IF q = a /\ m = b
                                             THEN stored[q][m] \union {x} ELSE stored[q][m]
          BY <4>2, <5>1
        <5> QED
          BY <5>2, <5>3
      <4> QED
        BY <4>1, <4>3
    <3>2. \A q, m \in Node :
            held'[q][m] \union stored'[q][m] \subseteq (held[q][m] \union stored[q][m]) \union {r.env}
      BY <2>2, <3>1
    <3>3. Grows
      BY <2>2
    <3> QED
      BY <1>0, <1>4, <1>7, <2>0, <2>2, <3>1, <3>2, <3>3 DEF StoreTypes
  <2> QED
    BY <1>4, <2>1, <2>2
<1>5. ASSUME NEW r \in requests, Answer(r) \/ Hold(r) PROVE StoreTypes' /\ Grows
  <2>1. r \in Request /\ r.to \in Node /\ r.from \in Node
    BY DEF StateTypes, MessageTypes, Request
  <2>2. CASE Hold(r)
    BY <1>4, <2>1, <2>2 DEF Hold
  <2>3. CASE Answer(r)
    <3>1. UNCHANGED <<held, stored, links>>
      BY <2>3 DEF Answer
    <3>2. \/ evidence' = [evidence EXCEPT ![r.to] = @ \union {r.from}]
          \/ evidence' = [evidence EXCEPT ![r.to] = @]
      BY <2>3 DEF Answer
    <3>3. evidence' \in [Node -> SUBSET Node]
      <4>1. evidence[r.to] \in SUBSET Node /\ evidence[r.to] \union {r.from} \in SUBSET Node
        BY <1>0, <2>1
      <4> QED
        BY <1>0, <2>1, <3>2, <4>1
    <3> QED
      BY <1>0, <1>1, <3>1, <3>3
  <2> QED
    BY <1>5, <2>2, <2>3
<1>6. ASSUME NEW r \in Request, HandlerStep(r) PROVE StoreTypes' /\ Grows
  <2>1. CASE Persist(r)
    BY <1>4, <2>1 DEF Persist
  <2>2. CASE PersistRaises(r) \/ WitnessPeerRoot(r)
    BY <1>0, <1>1, <2>2 DEF PersistRaises, WitnessPeerRoot, store
  <2> QED
    BY <1>6, <2>1, <2>2 DEF HandlerStep
<1>8. StoreTypes' /\ Grows
  <2>1. \/ UNCHANGED vars
        \/ \E n, p \in Node : OwnStep(n, p)
        \/ \E r \in requests : Answer(r) \/ Hold(r)
        \/ \E r \in Request : HandlerStep(r)
    BY NextIsStep
  <2> QED
    BY <1>2, <1>3, <1>5, <1>6, <2>1
<1> QED
  BY <1>8 DEF Grows

(* What a handler's step does to the handlers of its node.                 *)
LEMMA HandledIs ==
    ASSUME StateTypes, NEW r \in Request, NEW from, NEW to \in SUBSET {"persist", "append"},
           Handled(r, from, to)
    PROVE  /\ handling' \in [Node -> SUBSET Handler]
           /\ \A n \in Node : \A h \in handling'[n] : h \in handling[n] \/ (n = r.to /\ h.req = r)
<1> DEFINE gone == {[req |-> r, pc |-> pc] : pc \in from}
           new == {[req |-> r, pc |-> pc] : pc \in to}
<1>1. handling \in [Node -> SUBSET Handler] /\ r.to \in Node
  BY DEF StateTypes, MessageTypes, Request
<1>2. new \in SUBSET Handler /\ \A h \in new : h.req = r
  BY DEF Handler
<1>3. handling' = [handling EXCEPT ![r.to] = (handling[r.to] \ gone) \union new]
  BY DEF Handled
<1> HIDE DEF gone, new
<1>4. (handling[r.to] \ gone) \union new \in SUBSET Handler
  BY <1>1, <1>2
<1> QED
  BY <1>1, <1>2, <1>3, <1>4

(* Requests on their way and requests being handled.                       *)
LEMMA MessageTypesNext ==
    ASSUME StateTypes, [Next]_vars
    PROVE  MessageTypes'
<1>0. /\ MessageTypes /\ requests \subseteq Request /\ handling \in [Node -> SUBSET Handler]
      /\ held \in [Node -> [Node -> SUBSET Root]]
      /\ \A r \in requests : r.from # r.to
      /\ \A n \in Node : \A h \in handling[n] : /\ h.req.to = n /\ h.req.from # n
                                                /\ h.req.env \in held[n][h.req.from]
  BY DEF StateTypes, MessageTypes, StoreTypes
<1>1. ASSUME UNCHANGED <<held, handling>>, requests' \subseteq Request,
             \A r \in requests' : r.from # r.to
      PROVE  MessageTypes'
  BY <1>0, <1>1 DEF MessageTypes
<1>2. ASSUME NEW r \in Request, r.from # r.to, requests' \subseteq requests,
             \A p, n \in Node : held[p][n] \subseteq held'[p][n],
             r.env \in held'[r.to][r.from],
             NEW from, NEW to \in SUBSET {"persist", "append"}, Handled(r, from, to)
      PROVE  MessageTypes'
  <2>1. /\ handling' \in [Node -> SUBSET Handler]
        /\ \A n \in Node : \A h \in handling'[n] : h \in handling[n] \/ (n = r.to /\ h.req = r)
    BY <1>2, HandledIs
  <2>2. ASSUME NEW n \in Node, NEW h \in handling'[n]
        PROVE  h.req.to = n /\ h.req.from # n /\ h.req.env \in held'[n][h.req.from]
    <3>1. CASE h \in handling[n]
      <4>1. h.req.from \in Node /\ h.req.to = n /\ h.req.from # n /\ h.req.env \in held[n][h.req.from]
        BY <1>0, <3>1 DEF Handler, Request
      <4> QED
        BY <1>2, <4>1
    <3>2. CASE n = r.to /\ h.req = r
      BY <1>2, <3>2
    <3> QED
      BY <2>1, <3>1, <3>2
  <2> QED
    BY <1>0, <1>2, <2>1, <2>2 DEF MessageTypes
<1>3. CASE UNCHANGED vars
  BY <1>0, <1>1, <1>3 DEF vars, store
<1>4. ASSUME NEW n \in Node, NEW p \in Node, OwnStep(n, p) PROVE MessageTypes'
  <2>1. CASE Send(n, p)
    <3>1. push[n].env \in Root /\ n # p /\ TotalFaults \in Nat
      BY <2>1 DEF Send, StateTypes, PushTypes, Push, NodeTypes, TotalFaults, Fault
    <3> DEFINE s == [from |-> n, to |-> p, env |-> push[n].env, try |-> TotalFaults]
    <3>2. s \in Request /\ s.from # s.to
      BY <3>1 DEF Request
    <3>3. requests' \subseteq requests \union {s}
      BY <2>1 DEF Send
    <3>4. UNCHANGED <<held, handling>>
      BY <2>1 DEF Send, store
    <3> HIDE DEF s
    <3> QED
      BY <1>0, <1>1, <3>2, <3>3, <3>4
  <2>2. CASE Crash(n) \/ Rollback(n)
    <3>1. /\ held' = [held EXCEPT ![n] = stored[n]] /\ handling' = [handling EXCEPT ![n] = {}]
          /\ UNCHANGED requests
      BY <2>2 DEF Crash, Rollback, Reboot
    <3> QED
      BY <1>0, <3>1 DEF MessageTypes
  <2>3. CASE ~Send(n, p) /\ ~Crash(n) /\ ~Rollback(n)
    <3>1. UNCHANGED <<held, handling, requests>>
      BY <1>4, <2>3 DEF OwnStep, PushStart, SignRoot, GiveUp, PushDone, Receipt, ReceiptRaises,
           RecordQuorum, ProveLink, Work, store
    <3> QED
      BY <1>0, <1>1, <3>1
  <2> QED
    BY <2>1, <2>2, <2>3
<1>5. ASSUME NEW r \in requests, Answer(r) \/ Hold(r) PROVE MessageTypes'
  <2>0. r \in Request /\ r.from # r.to /\ r.to \in Node /\ r.from \in Node /\ r.env \in Root
    BY <1>0 DEF Request
  <2>1. CASE Answer(r)
    BY <1>0, <1>1, <2>1 DEF Answer
  <2>2. CASE Hold(r)
    <3>1. held' = [held EXCEPT ![r.to][r.from] = @ \union {r.env}] /\ requests' \subseteq requests
      BY <2>2 DEF Hold
    <3>2. /\ \A p, n \in Node : held[p][n] \subseteq held'[p][n]
          /\ r.env \in held'[r.to][r.from]
      BY <1>0, <2>0, <3>1
    <3>3. Handled(r, {}, {"persist"})
      BY <2>2 DEF Hold
    <3> QED
      BY <1>2, <2>0, <3>1, <3>2, <3>3
  <2> QED
    BY <1>5, <2>1, <2>2
<1>6. ASSUME NEW r \in Request, HandlerStep(r) PROVE MessageTypes'
  <2>1. UNCHANGED <<held, requests>> /\ r.from # r.to /\ r.env \in held[r.to][r.from]
    BY <1>6 DEF HandlerStep, Persist, PersistRaises, WitnessPeerRoot, store
  <2>2. \E from, to \in SUBSET {"persist", "append"} : Handled(r, from, to)
    <3>1. Handled(r, {"persist"}, {"append"}) \/ Handled(r, {"persist"}, {})
          \/ Handled(r, {"append"}, {})
      BY <1>6 DEF HandlerStep, Persist, PersistRaises, WitnessPeerRoot
    <3> QED
      BY <3>1
  <2> QED
    BY <1>2, <2>1, <2>2
<1>7. \/ UNCHANGED vars
      \/ \E n, p \in Node : OwnStep(n, p)
      \/ \E r \in requests : Answer(r) \/ Hold(r)
      \/ \E r \in Request : HandlerStep(r)
  BY NextIsStep
<1> QED
  BY <1>3, <1>4, <1>5, <1>6, <1>7

(* The types hold at the start ...                                         *)
LEMMA TypesInit == Init => StateTypes
<1> SUFFICES ASSUME Init PROVE StateTypes
  OBVIOUS
<1>1. NodeTypes
  BY ReplicationAssumption DEF Init, NodeTypes
<1>2. StoreTypes
  <2>1. 0 \in Nat
    OBVIOUS
  <2> QED
    BY <2>1 DEF Init, StoreTypes
<1>3. PushTypes
  <2>1. NoRoot \in Root
    <3>1. <<>> \in Seq(Rec)
      OBVIOUS
    <3> QED
      BY <3>1 DEF NoRoot, Root
  <2>2. NoPush \in Push /\ NoPush.todo = {}
    BY <2>1 DEF NoPush, Push
  <2> QED
    BY <2>2 DEF Init, PushTypes
<1>4. MessageTypes
  BY DEF Init, MessageTypes
<1>5. AckTypes
  BY DEF Init, AckTypes
<1> QED
  BY <1>1, <1>2, <1>3, <1>4, <1>5 DEF StateTypes

(* ... and every step keeps them.                                          *)
LEMMA TypesNext == StateTypes /\ [Next]_vars => StateTypes'
BY NodeTypesNext, StoreTypesNext, PushTypesNext, MessageTypesNext DEF StateTypes

----------------------------------------------------------------------------
(* Receipts are backed by copies.                                          *)

(* Acknowledgements of peers that lost their copy are paid for by restarts.*)
AcksBacked ==
    \A n \in Node, e \in Root :
        Cardinality(AckedBy(n, e) \ HoldersOf(n, e)) <= Restarts(n)

QuorumInv == AcksBacked /\ QuorumIsHeld

(* The peers in question are finitely many.                                *)
LEMMA PeersFinite ==
    ASSUME NEW S, S \subseteq Node
    PROVE  IsFiniteSet(S) /\ Cardinality(S) \in Nat
BY ReplicationAssumption, FS_Subset, FS_CardinalityType

(* Restarts are a number that grows.                                       *)
LEMMA RestartsGrow ==
    ASSUME StateTypes, [Next]_vars, NEW n \in Node
    PROVE  /\ Restarts(n) \in Nat /\ Restarts(n)' \in Nat /\ Restarts(n)' >= Restarts(n)
           /\ \A q \in Node \ {n} : Crash(q) \/ (q \in Pushing /\ Rollback(q))
                => Restarts(n)' >= Restarts(n) + 1
<1>1. /\ net' = net /\ faults \in [Fault -> Nat] /\ faults' \in [Fault -> Nat]
      /\ \A f \in Fault : faults'[f] >= faults[f]
      /\ "crash" \in Fault /\ "rollback" \in Fault
  BY NextIsStep, NodeTypesNext DEF StateTypes, NodeTypes, Fault
<1>2. Pushing' = Pushing
  BY <1>1 DEF Pushing
<1>3. /\ faults["crash"] \in Nat /\ faults'["crash"] \in Nat /\ faults'["crash"] >= faults["crash"]
      /\ faults["rollback"] \in Nat /\ faults'["rollback"] \in Nat
      /\ faults'["rollback"] >= faults["rollback"]
  BY <1>1
<1>4. /\ Restarts(n) \in Nat /\ Restarts(n)' \in Nat /\ Restarts(n)' >= Restarts(n)
  BY <1>2, <1>3 DEF Restarts
<1>5. ASSUME NEW q \in Node \ {n}, Crash(q) PROVE Restarts(n)' >= Restarts(n) + 1
  <2>1. faults'["crash"] = faults["crash"] + 1
    BY <1>1, <1>5 DEF Crash, Happens
  <2> QED
    BY <1>2, <1>3, <2>1 DEF Restarts
<1>6. ASSUME NEW q \in Node \ {n}, q \in Pushing, Rollback(q) PROVE Restarts(n)' >= Restarts(n) + 1
  <2>1. faults'["rollback"] = faults["rollback"] + 1
    BY <1>1, <1>6 DEF Rollback, Happens
  <2>2. ~(Pushing \subseteq {n})
    BY <1>6
  <2> QED
    BY <1>2, <1>3, <2>1, <2>2 DEF Restarts
<1> QED
  BY <1>4, <1>5, <1>6

(* Copies and restarts together never become fewer.                        *)
LEMMA CopiesLast ==
    ASSUME StateTypes, [Next]_vars, NEW n \in Node, NEW e \in Root
    PROVE  \/ HoldersOf(n, e) \subseteq HoldersOf(n, e)'
           \/ \E q \in Node : /\ HoldersOf(n, e) \ {q} \subseteq HoldersOf(n, e)'
                              /\ Restarts(n)' >= Restarts(n) + 1
<1>1. ASSUME NEW q \in Node, Crash(q) \/ (q \in Pushing /\ Rollback(q))
      PROVE  \A p \in Node \ {q} : held'[p] = held[p]
  <2>1. held' = [held EXCEPT ![q] = stored[q]]
    BY <1>1 DEF Crash, Rollback, Reboot
  <2>2. held \in [Node -> [Node -> SUBSET Root]]
    BY DEF StateTypes, StoreTypes
  <2> QED
    BY <2>1, <2>2
<1>2. CASE \E q \in Node : Crash(q) \/ (q \in Pushing /\ Rollback(q))
  <2>1. PICK q \in Node : Crash(q) \/ (q \in Pushing /\ Rollback(q))
    BY <1>2
  <2>2. CASE q = n
    BY <1>1, <2>1, <2>2 DEF HoldersOf
  <2>3. CASE q # n
    <3>1. HoldersOf(n, e) \ {q} \subseteq HoldersOf(n, e)'
      BY <1>1, <2>1 DEF HoldersOf
    <3>2. Restarts(n)' >= Restarts(n) + 1
      BY <2>1, <2>3, RestartsGrow
    <3> QED
      BY <1>1, <2>1, <3>1, <3>2
  <2> QED
    BY <2>2, <2>3
<1>3. CASE ~\E q \in Node : Crash(q) \/ (q \in Pushing /\ Rollback(q))
  <2>1. \A p \in Node : held[p][n] \subseteq held'[p][n]
    BY <1>3, StoreTypesNext
  <2> QED
    BY <2>1 DEF HoldersOf
<1> QED
  BY <1>2, <1>3

(* What a response acknowledges, the responder holds.                      *)
LEMMA AcksOfHolders ==
    ASSUME StateTypes, [Next]_vars, NEW n \in Node, NEW e \in Root
    PROVE  AckedBy(n, e)' \subseteq AckedBy(n, e) \union HoldersOf(n, e)'
<1>0. acks \in [Node -> SUBSET Ack] /\ StoreTypes
  BY DEF StateTypes, AckTypes
<1>1. ASSUME acks'[n] \subseteq acks[n] PROVE AckedBy(n, e)' \subseteq AckedBy(n, e)
  BY <1>1 DEF AckedBy
<1>2. ASSUME NEW r \in Request, r.from # r.to, r.env \in held[r.to][r.from], held' = held,
             NEW acked \in BOOLEAN, NEW wanted \in Nat, Respond(r, acked, wanted)
      PROVE  AckedBy(n, e)' \subseteq AckedBy(n, e) \union HoldersOf(n, e)'
  <2>1. /\ acks'[n] \subseteq acks[n] \union {[env |-> r.env, by |-> r.to]}
        /\ n # r.from => acks'[n] \subseteq acks[n]
    <3>1. \/ UNCHANGED acks
          \/ acks' = [acks EXCEPT ![r.from] =
                            IF acked THEN @ \union {[env |-> r.env, by |-> r.to]} ELSE @]
      BY <1>2 DEF Respond
    <3> QED
      BY <1>0, <3>1
  <2>2. CASE n # r.from
    BY <1>1, <2>1, <2>2
  <2>3. CASE n = r.from
    <3>1. e = r.env => r.to \in HoldersOf(n, e)'
      BY <1>2, <2>3 DEF HoldersOf, Request
    <3> QED
      BY <2>1, <3>1 DEF AckedBy
  <2> QED
    BY <2>2, <2>3
<1>3. CASE UNCHANGED vars
  BY <1>1, <1>3 DEF vars, origin
<1>4. ASSUME NEW m \in Node, NEW p \in Node, OwnStep(m, p) PROVE acks'[n] \subseteq acks[n]
  <2>1. CASE Crash(m) \/ Rollback(m)
    BY <1>0, <2>1 DEF Crash, Rollback, Reboot
  <2>2. CASE ~Crash(m) /\ ~Rollback(m)
    BY <1>4, <2>2 DEF OwnStep, PushStart, SignRoot, GiveUp, PushDone, Receipt, ReceiptRaises,
       RecordQuorum, Send, ProveLink, Work, origin
  <2> QED
    BY <2>1, <2>2
<1>5. ASSUME NEW r \in requests, Answer(r) \/ Hold(r)
      PROVE  AckedBy(n, e)' \subseteq AckedBy(n, e) \union HoldersOf(n, e)'
  <2>0. /\ r \in Request /\ r.from # r.to /\ r.to \in Node /\ r.from \in Node /\ r.env \in Root
    BY DEF StateTypes, MessageTypes, Request
  <2>1. CASE Hold(r)
    BY <1>1, <2>1 DEF Hold, origin
  <2>2. CASE Answer(r)
    <3>1. CASE Outcome(r.to, r.from, r.env) = "duplicate"
      <4>1. Respond(r, TRUE, Wanted(r.to, r.from)) /\ held' = held
        BY <2>2, <3>1 DEF Answer
      <4>2. r.env \in held[r.to][r.from] /\ Wanted(r.to, r.from) \in Nat
        BY <1>0, <2>0, <3>1, OutcomeIs, WantedIs
      <4> QED
        BY <1>2, <2>0, <4>1, <4>2
    <3>2. CASE Outcome(r.to, r.from, r.env) # "duplicate"
      <4>1. Respond(r, FALSE, 0)
        BY <2>2, <3>2 DEF Answer
      <4>2. acks'[n] = acks[n]
        BY <1>0, <4>1 DEF Respond
      <4> QED
        BY <1>1, <4>2
    <3> QED
      BY <3>1, <3>2
  <2> QED
    BY <1>5, <2>1, <2>2
<1>6. ASSUME NEW r \in Request, HandlerStep(r)
      PROVE  AckedBy(n, e)' \subseteq AckedBy(n, e) \union HoldersOf(n, e)'
  <2>0. r.from # r.to /\ r.env \in held[r.to][r.from] /\ r.to \in Node /\ r.from \in Node
    BY <1>6 DEF HandlerStep, Request
  <2>1. CASE Persist(r)
    BY <1>1, <2>1 DEF Persist, origin
  <2>2. CASE PersistRaises(r)
    <3>1. Respond(r, FALSE, 0)
      BY <2>2 DEF PersistRaises
    <3>2. acks'[n] = acks[n]
      BY <1>0, <3>1 DEF Respond
    <3> QED
      BY <1>1, <3>2
  <2>3. CASE WitnessPeerRoot(r)
    <3>1. Respond(r, TRUE, Wanted(r.to, r.from)) /\ held' = held
      BY <2>3 DEF WitnessPeerRoot, store
    <3>2. Wanted(r.to, r.from) \in Nat
      BY <1>0, <2>0, WantedIs
    <3> QED
      BY <1>2, <2>0, <3>1, <3>2
  <2> QED
    BY <1>6, <2>1, <2>2, <2>3 DEF HandlerStep
<1>7. \/ UNCHANGED vars
      \/ \E m, p \in Node : OwnStep(m, p)
      \/ \E r \in requests : Answer(r) \/ Hold(r)
      \/ \E r \in Request : HandlerStep(r)
  BY NextIsStep
<1> QED
  BY <1>1, <1>3, <1>4, <1>5, <1>6, <1>7

(* Every step keeps the receipts backed.                                   *)
LEMMA QuorumNext == StateTypes /\ QuorumInv /\ [Next]_vars => QuorumInv'
<1> SUFFICES ASSUME StateTypes, QuorumInv, [Next]_vars PROVE QuorumInv'
  OBVIOUS
<1>1. ASSUME NEW n \in Node, NEW e \in Root
      PROVE  Cardinality(AckedBy(n, e)' \ HoldersOf(n, e)') <= Restarts(n)'
  <2> DEFINE A == AckedBy(n, e)
             H == HoldersOf(n, e)
  <2>0. /\ A \subseteq Node /\ A' \subseteq Node
        /\ A' \subseteq A \union H' /\ Cardinality(A \ H) <= Restarts(n)
    <3>1. AckTypes /\ AckTypes'
      BY PushTypesNext DEF StateTypes
    <3>2. A \subseteq Node /\ A' \subseteq Node
      BY <3>1 DEF AckTypes, AckedBy, Ack
    <3> QED
      BY <3>2, AcksOfHolders DEF QuorumInv, AcksBacked
  <2>1. Restarts(n) \in Nat /\ Restarts(n)' \in Nat /\ Restarts(n)' >= Restarts(n)
    BY RestartsGrow
  <2>2. \/ H \subseteq H'
        \/ \E q \in Node : H \ {q} \subseteq H' /\ Restarts(n)' >= Restarts(n) + 1
    BY CopiesLast
  <2> HIDE DEF A, H
  <2>3. /\ IsFiniteSet(A \ H) /\ Cardinality(A \ H) \in Nat
        /\ IsFiniteSet(A' \ H') /\ Cardinality(A' \ H') \in Nat
    BY <2>0, PeersFinite
  <2>4. CASE H \subseteq H'
    <3>1. A' \ H' \subseteq A \ H
      BY <2>0, <2>4
    <3>2. Cardinality(A' \ H') <= Cardinality(A \ H)
      BY <2>3, <3>1, FS_Subset
    <3> QED
      BY <2>0, <2>1, <2>3, <3>2 DEF A, H
  <2>5. ASSUME NEW q \in Node, H \ {q} \subseteq H', Restarts(n)' >= Restarts(n) + 1
        PROVE  Cardinality(A' \ H') <= Restarts(n)'
    <3>1. A' \ H' \subseteq (A \ H) \union {q}
      BY <2>0, <2>5
    <3>2. /\ IsFiniteSet((A \ H) \union {q})
          /\ Cardinality((A \ H) \union {q}) <= Cardinality(A \ H) + 1
          /\ Cardinality((A \ H) \union {q}) \in Nat
      <4>1. CASE q \in A \ H
        <5>1. (A \ H) \union {q} = A \ H
          BY <4>1
        <5> QED
          BY <2>3, <5>1
      <4>2. CASE q \notin A \ H
        <5>1. /\ IsFiniteSet((A \ H) \union {q})
              /\ Cardinality((A \ H) \union {q}) = Cardinality(A \ H) + 1
          BY <2>3, <4>2, FS_AddElement
        <5> QED
          BY <2>3, <5>1
      <4> QED
        BY <4>1, <4>2
    <3>3. Cardinality(A' \ H') <= Cardinality((A \ H) \union {q})
      BY <3>1, <3>2, FS_Subset
    <3> QED
      BY <2>0, <2>1, <2>3, <2>5, <3>2, <3>3
  <2> QED
    BY <2>2, <2>4, <2>5 DEF A, H
<1>2. AcksBacked'
  BY <1>1 DEF AcksBacked
<1>3. ASSUME NEW n \in Node, NEW e \in quorums'[n]
      PROVE  Cardinality(HoldersOf(n, e)') + Restarts(n)' >= K'
  <2> DEFINE A == AckedBy(n, e)
             H == HoldersOf(n, e)
  <2>0. /\ e \in Root /\ net' = net /\ K' = K /\ K \in Nat
    BY PushTypesNext, NextIsStep DEF AckTypes, StateTypes, NodeTypes, Net, K
  <2>1. Restarts(n) \in Nat /\ Restarts(n)' \in Nat /\ Restarts(n)' >= Restarts(n)
    BY RestartsGrow
  <2>2. \/ H \subseteq H'
        \/ \E q \in Node : H \ {q} \subseteq H' /\ Restarts(n)' >= Restarts(n) + 1
    BY <2>0, CopiesLast
  <2>3. H \subseteq Node /\ H' \subseteq Node /\ A \subseteq Node
    BY DEF HoldersOf, AckedBy, StateTypes, AckTypes, Ack
  <2>4. Cardinality(H) + Restarts(n) >= K
    <3>1. CASE e \in quorums[n]
      BY <3>1 DEF QuorumInv, QuorumIsHeld
    <3>2. CASE e \notin quorums[n]
      <4>1. Receipt(n) /\ e = push[n].env
        <5>1. ASSUME NEW m \in Node, NEW p \in Node, OwnStep(m, p), ~Receipt(m)
              PROVE  quorums' = quorums
          BY <5>1 DEF OwnStep, PushStart, SignRoot, GiveUp, PushDone, ReceiptRaises,
             RecordQuorum, Send, ProveLink, Work, Crash, Rollback, Reboot, origin
        <5>2. ASSUME NEW r, Answer(r) \/ Hold(r) \/ HandlerStep(r) PROVE quorums' = quorums
          BY <5>2 DEF Answer, Hold, HandlerStep, Persist, PersistRaises, WitnessPeerRoot, origin
        <5>3. \/ UNCHANGED vars
              \/ \E m, p \in Node : OwnStep(m, p)
              \/ \E r \in requests : Answer(r) \/ Hold(r)
              \/ \E r \in Request : HandlerStep(r)
          BY NextIsStep
        <5>4. quorums' # quorums
          BY <1>3, <3>2
        <5>5. ~UNCHANGED vars
          BY <5>4 DEF vars, origin
        <5>6. PICK m \in Node : Receipt(m)
          BY <5>1, <5>2, <5>3, <5>4, <5>5
        <5>7. quorums' = [quorums EXCEPT ![m] = @ \union {push[m].env}]
          BY <5>6 DEF Receipt
        <5>8. quorums \in [Node -> SUBSET Root]
          BY DEF StateTypes, AckTypes
        <5>9. m = n /\ e = push[m].env
          BY <1>3, <3>2, <5>7, <5>8
        <5> QED
          BY <5>6, <5>9
      <4>2. Cardinality(A) >= K
        BY <4>1 DEF Receipt, Anchors
      <4>3. Cardinality(A \ H) <= Restarts(n)
        BY <2>0 DEF QuorumInv, AcksBacked
      <4> HIDE DEF A, H
      <4>4. /\ IsFiniteSet(A) /\ Cardinality(A) \in Nat /\ IsFiniteSet(H) /\ Cardinality(H) \in Nat
            /\ IsFiniteSet(A \ H) /\ Cardinality(A \ H) \in Nat
        BY <2>3, PeersFinite
      <4>5. /\ IsFiniteSet(H \union (A \ H))
            /\ Cardinality(H \union (A \ H)) <= Cardinality(H) + Cardinality(A \ H)
            /\ Cardinality(H \union (A \ H)) \in Nat
        <5>1. H \cap (A \ H) = {} /\ Cardinality({}) = 0
          BY FS_EmptySet
        <5>2. IsFiniteSet(H \union (A \ H))
              /\ Cardinality(H \union (A \ H))
                   = Cardinality(H) + Cardinality(A \ H) - Cardinality(H \cap (A \ H))
          BY <4>4, FS_Union
        <5>3. Cardinality(H \union (A \ H)) = Cardinality(H) + Cardinality(A \ H) - 0
          BY <5>1, <5>2
        <5> QED
          BY <4>4, <5>2, <5>3
      <4>6. A \subseteq H \union (A \ H)
        OBVIOUS
      <4>7. Cardinality(A) <= Cardinality(H \union (A \ H))
        BY <4>5, <4>6, FS_Subset
      <4> QED
        BY <2>0, <2>1, <4>2, <4>3, <4>4, <4>5, <4>7
    <3> QED
      BY <3>1, <3>2
  <2> HIDE DEF A, H
  <2>5. /\ IsFiniteSet(H) /\ Cardinality(H) \in Nat /\ IsFiniteSet(H') /\ Cardinality(H') \in Nat
    BY <2>3, PeersFinite
  <2>6. CASE H \subseteq H'
    <3>1. Cardinality(H) <= Cardinality(H')
      BY <2>5, <2>6, FS_Subset
    <3> QED
      BY <2>0, <2>1, <2>4, <2>5, <3>1 DEF H
  <2>7. ASSUME NEW q \in Node, H \ {q} \subseteq H', Restarts(n)' >= Restarts(n) + 1
        PROVE  Cardinality(H') + Restarts(n)' >= K'
    <3>1. /\ IsFiniteSet(H \ {q}) /\ Cardinality(H \ {q}) \in Nat
          /\ Cardinality(H \ {q}) >= Cardinality(H) - 1
      <4>1. CASE q \in H
        <5>1. IsFiniteSet(H \ {q}) /\ Cardinality(H \ {q}) = Cardinality(H) - 1
          BY <2>5, <4>1, FS_RemoveElement
        <5>2. Cardinality(H \ {q}) \in Nat
          BY <5>1, FS_CardinalityType
        <5> QED
          BY <2>5, <5>1, <5>2
      <4>2. CASE q \notin H
        <5>1. H \ {q} = H
          BY <4>2
        <5> QED
          BY <2>5, <5>1
      <4> QED
        BY <4>1, <4>2
    <3>2. Cardinality(H \ {q}) <= Cardinality(H')
      BY <2>5, <2>7, FS_Subset
    <3> QED
      BY <2>0, <2>1, <2>4, <2>5, <2>7, <3>1, <3>2
  <2> QED
    BY <2>2, <2>6, <2>7 DEF H
<1>4. QuorumIsHeld'
  BY <1>3 DEF QuorumIsHeld
<1> QED
  BY <1>2, <1>4 DEF QuorumInv

(* push_to_peers, QuorumTracker.receipt: a receipt means that K distinct   *)
(* peers hold that very root, but for the copies that restarts of peers    *)
(* cost, one each.                                                         *)
THEOREM QuorumAlwaysHeld == Spec => []QuorumIsHeld
<1>1. Init => QuorumInv
  <2> SUFFICES ASSUME Init PROVE QuorumInv
    OBVIOUS
  <2>1. QuorumIsHeld
    BY DEF Init, QuorumIsHeld
  <2>2. ASSUME NEW n \in Node, NEW e \in Root
        PROVE  Cardinality(AckedBy(n, e) \ HoldersOf(n, e)) <= Restarts(n)
    <3>1. AckedBy(n, e) \ HoldersOf(n, e) = {}
      BY DEF Init, AckedBy
    <3>2. Cardinality(AckedBy(n, e) \ HoldersOf(n, e)) = 0
      BY <3>1, FS_EmptySet
    <3>3. Restarts(n) = 0
      BY DEF Init, Restarts, Fault
    <3> QED
      BY <3>2, <3>3
  <2> QED
    BY <2>1, <2>2 DEF QuorumInv, AcksBacked
<1>2. QuorumInv => QuorumIsHeld
  BY DEF QuorumInv
<1> QED
  BY TypesInit, TypesNext, QuorumNext, <1>1, <1>2, PTL DEF Spec

----------------------------------------------------------------------------
(* Honest nodes are never accused.                                         *)

(* The roots a node can have signed: those of the prefixes of its chain.   *)
Claims(n) == {e \in Root : /\ e.count <= Len(chain[n]) /\ Len(e.root) = e.count
                           /\ \A i \in 1..e.count : e.root[i] = chain[n][i]}

Honest == faults["rollback"] = 0 /\ ~net.beings

ClaimsHeld ==
    /\ \A p, n \in Node : held[p][n] \subseteq Claims(n) /\ stored[p][n] \subseteq Claims(n)
    /\ \A r \in requests : r.env \in Claims(r.from)

(* Between the two reads of signed_root the chain stands still.            *)
ClaimsSigned ==
    \A n \in Node : /\ push[n].pc = "reading" => push[n].env.count = Len(chain[n])
                    /\ push[n].pc \notin {"idle", "reading"} => push[n].env \in Claims(n)

HonestInv == Honest => ClaimsHeld /\ ClaimsSigned /\ \A p \in Node : evidence[p] = {}

(* Two claims of one length are one claim.                                 *)
LEMMA OneClaim ==
    ASSUME NEW n \in Node, NEW e \in Claims(n), NEW f \in Claims(n), e.count = f.count
    PROVE  e = f
<1>1. /\ e.root \in Seq(Rec) /\ f.root \in Seq(Rec) /\ Len(e.root) = Len(f.root)
      /\ \A i \in 1..Len(e.root) : e.root[i] = f.root[i]
  BY DEF Claims, Root
<1>2. e.root = f.root
  BY <1>1, SeqEqual
<1> QED
  BY <1>2 DEF Claims, Root

(* A consistency claim is a claim.                                         *)
LEMMA ClaimIsClaim ==
    ASSUME NodeTypes, NEW n \in Node, NEW k \in 0..Len(chain[n])
    PROVE  /\ Claim(n, k) \in Claims(n) /\ Claim(n, k).count = k
           /\ Claim(n, k).root = SubSeq(chain[n], 1, k)
           /\ SubSeq(chain[n], 1, k) \in Seq(Rec) /\ Len(SubSeq(chain[n], 1, k)) = k
           /\ \A i \in 1..k : SubSeq(chain[n], 1, k)[i] = chain[n][i]
<1>1. /\ chain[n] \in Seq(Rec) /\ Len(chain[n]) \in Nat /\ k \in Nat
      /\ \A i \in 1..k : chain[n][i] \in Rec
  BY DEF NodeTypes
<1>2. /\ SubSeq(chain[n], 1, k) \in Seq(Rec)
      /\ Len(SubSeq(chain[n], 1, k)) = IF 1 <= k THEN k - 1 + 1 ELSE 0
      /\ \A i \in 1..(k - 1 + 1) : SubSeq(chain[n], 1, k)[i] = chain[n][1 + i - 1]
  BY <1>1, SubSeqProperties
<1>3. Len(SubSeq(chain[n], 1, k)) = k /\ \A i \in 1..k : SubSeq(chain[n], 1, k)[i] = chain[n][i]
  BY <1>1, <1>2
<1>4. Claim(n, k) \in Root /\ Claim(n, k).count = k /\ Claim(n, k).root = SubSeq(chain[n], 1, k)
  BY <1>1, <1>2 DEF Claim, Root
<1> QED
  BY <1>1, <1>2, <1>3, <1>4 DEF Claims

(* A claim stays one while the chain only grows, and it does not grow      *)
(* under the hand of signed_root.                                          *)
LEMMA ClaimsLast ==
    ASSUME StateTypes, [Next]_vars, Honest'
    PROVE  /\ Honest
           /\ \A n \in Node : /\ Claims(n) \subseteq Claims(n)'
                              /\ chain'[n] = chain[n] \/ push[n].pc # "reading"
<1>0. /\ chain \in [Node -> Seq(Rec)] /\ faults \in [Fault -> Nat] /\ net' = net
      /\ faults' \in [Fault -> Nat] /\ faults'["rollback"] >= faults["rollback"]
      /\ "rollback" \in Fault
  BY NextIsStep, NodeTypesNext DEF StateTypes, NodeTypes, Fault
<1>1. Honest
  BY <1>0 DEF Honest
<1>2. ASSUME UNCHANGED chain
      PROVE  \A n \in Node : /\ Claims(n) \subseteq Claims(n)'
                             /\ chain'[n] = chain[n] \/ push[n].pc # "reading"
  BY <1>2 DEF Claims
<1>3. ASSUME NEW m \in Node, NEW kind \in Kind, chain' = Extended(m, kind), push[m].pc # "reading"
      PROVE  \A n \in Node : /\ Claims(n) \subseteq Claims(n)'
                             /\ chain'[n] = chain[n] \/ push[n].pc # "reading"
  <2> TAKE n \in Node
  <2>1. CASE n # m
    <3>1. chain'[n] = chain[n]
      BY <1>0, <1>3, <2>1 DEF Extended
    <3> QED
      BY <3>1 DEF Claims
  <2>2. CASE n = m
    <3> DEFINE r == [kind |-> kind, life |-> faults["rollback"]]
    <3>1. r \in Rec
      BY <1>0 DEF Rec
    <3>2. chain'[n] = Append(chain[n], r)
      BY <1>0, <1>3, <2>2 DEF Extended
    <3> HIDE DEF r
    <3>3. /\ Len(chain'[n]) = Len(chain[n]) + 1 /\ Len(chain[n]) \in Nat
          /\ \A i \in 1..Len(chain[n]) : chain'[n][i] = chain[n][i]
      BY <1>0, <3>1, <3>2, AppendProperties
    <3>4. ASSUME NEW e \in Claims(n) PROVE e \in Claims(n)'
      <4>1. /\ e \in Root /\ e.count \in Nat /\ e.count <= Len(chain[n]) /\ Len(e.root) = e.count
            /\ \A i \in 1..e.count : e.root[i] = chain[n][i]
        BY DEF Claims, Root
      <4>2. e.count <= Len(chain'[n]) /\ \A i \in 1..e.count : e.root[i] = chain'[n][i]
        BY <3>3, <4>1
      <4> QED
        BY <4>1, <4>2 DEF Claims
    <3> QED
      BY <1>3, <2>2, <3>4
  <2> QED
    BY <2>1, <2>2
<1>4. \/ UNCHANGED chain
      \/ \E m \in Node, kind \in Kind : chain' = Extended(m, kind) /\ push[m].pc # "reading"
  <2>1. CASE UNCHANGED vars
    BY <2>1 DEF vars
  <2>2. ASSUME NEW n \in Node, NEW p \in Node, OwnStep(n, p)
        PROVE  \/ UNCHANGED chain
               \/ \E kind \in Kind : chain' = Extended(n, kind) /\ push[n].pc # "reading"
    <3>1. CASE Rollback(n)
      <4>1. faults'["rollback"] = faults["rollback"] + 1
        BY <1>0, <3>1 DEF Rollback, Happens
      <4> QED
        BY <1>0, <4>1 DEF Honest
    <3>2. CASE RecordQuorum(n)
      BY <3>2 DEF RecordQuorum, Kind
    <3>3. CASE Work(n)
      BY <1>1, <3>3 DEF Work, Kind, NodeLockFree, Honest
    <3>4. CASE ~Rollback(n) /\ ~RecordQuorum(n) /\ ~Work(n)
      BY <2>2, <3>4 DEF OwnStep, PushStart, SignRoot, GiveUp, PushDone, Receipt, ReceiptRaises,
         Send, ProveLink, Crash
    <3> QED
      BY <3>1, <3>2, <3>3, <3>4
  <2>3. ASSUME NEW r \in requests, Answer(r) \/ Hold(r) PROVE UNCHANGED chain
    BY <2>3 DEF Answer, Hold
  <2>4. ASSUME NEW r \in Request, HandlerStep(r)
        PROVE  \/ UNCHANGED chain
               \/ chain' = Extended(r.to, "PEER_ROOT") /\ push[r.to].pc # "reading"
    BY <2>4 DEF HandlerStep, Persist, PersistRaises, WitnessPeerRoot, NodeLockFree
  <2>5. "PEER_ROOT" \in Kind /\ \A r \in Request : r.to \in Node
    BY DEF Kind, Request
  <2>6. \/ UNCHANGED vars
        \/ \E m, p \in Node : OwnStep(m, p)
        \/ \E r \in requests : Answer(r) \/ Hold(r)
        \/ \E r \in Request : HandlerStep(r)
    BY NextIsStep
  <2> QED
    BY <2>1, <2>2, <2>3, <2>4, <2>5, <2>6
<1> QED
  BY <1>1, <1>2, <1>3, <1>4

(* What is held, stored or on its way stays a claim of its origin.         *)
LEMMA ClaimsHeldNext ==
    ASSUME StateTypes, HonestInv, [Next]_vars, Honest'
    PROVE  ClaimsHeld'
<1>0. /\ ClaimsHeld /\ ClaimsSigned /\ \A n \in Node : Claims(n) \subseteq Claims(n)'
      /\ held \in [Node -> [Node -> SUBSET Root]] /\ stored \in [Node -> [Node -> SUBSET Root]]
      /\ requests \subseteq Request
  BY ClaimsLast DEF HonestInv, StateTypes, StoreTypes, MessageTypes
<1>1. ASSUME \A p, n \in Node : held'[p][n] \subseteq Claims(n) /\ stored'[p][n] \subseteq Claims(n),
             \A r \in requests' : r.from \in Node /\ r.env \in Claims(r.from)
      PROVE  ClaimsHeld'
  BY <1>0, <1>1 DEF ClaimsHeld
<1>2. /\ \A p, n \in Node : held[p][n] \subseteq Claims(n) /\ stored[p][n] \subseteq Claims(n)
      /\ \A r \in requests : r.from \in Node /\ r.env \in Claims(r.from)
  BY <1>0 DEF ClaimsHeld, Request
<1>3. CASE UNCHANGED vars
  BY <1>1, <1>2, <1>3 DEF vars, store
<1>4. ASSUME NEW n \in Node, NEW p \in Node, OwnStep(n, p) PROVE ClaimsHeld'
  <2>1. CASE Send(n, p)
    <3>1. push[n].env \in Claims(n)
      BY <1>0, <2>1 DEF Send, ClaimsSigned
    <3>2. requests' \subseteq requests \union {[from |-> n, to |-> p, env |-> push[n].env,
                                                try |-> TotalFaults]}
      BY <2>1 DEF Send
    <3>3. \A r \in requests' : r.from \in Node /\ r.env \in Claims(r.from)
      BY <1>2, <3>1, <3>2
    <3>4. UNCHANGED <<held, stored>>
      BY <2>1 DEF Send, store
    <3> QED
      BY <1>1, <1>2, <3>3, <3>4
  <2>2. CASE Crash(n) \/ Rollback(n)
    <3>1. held' = [held EXCEPT ![n] = stored[n]] /\ UNCHANGED <<stored, requests>>
      BY <2>2 DEF Crash, Rollback, Reboot
    <3>2. \A q, m \in Node : held'[q][m] \subseteq held[q][m] \union stored[q][m]
      BY <1>0, <3>1
    <3>3. \A q, m \in Node : held'[q][m] \subseteq Claims(m)
      BY <1>2, <3>2
    <3> QED
      BY <1>1, <1>2, <3>1, <3>3
  <2>3. CASE ~Send(n, p) /\ ~Crash(n) /\ ~Rollback(n)
    <3>1. UNCHANGED <<held, stored, requests>>
      BY <1>4, <2>3 DEF OwnStep, PushStart, SignRoot, GiveUp, PushDone, Receipt, ReceiptRaises,
           RecordQuorum, ProveLink, Work, store
    <3> QED
      BY <1>1, <1>2, <3>1
  <2> QED
    BY <2>1, <2>2, <2>3
<1>5. ASSUME NEW r \in requests, Answer(r) \/ Hold(r) PROVE ClaimsHeld'
  <2>0. r.to \in Node /\ r.from \in Node /\ r.env \in Claims(r.from) /\ requests' \subseteq requests
    BY <1>0, <1>2, <1>5 DEF Answer, Hold, Request
  <2>1. CASE Answer(r)
    BY <1>1, <1>2, <2>0, <2>1 DEF Answer
  <2>2. CASE Hold(r)
    <3>1. held' = [held EXCEPT ![r.to][r.from] = @ \union {r.env}] /\ UNCHANGED stored
      BY <2>2 DEF Hold
    <3>2. ASSUME NEW q \in Node, NEW m \in Node PROVE held'[q][m] \subseteq Claims(m)
      <4>1. \/ held'[q][m] = held[q][m]
            \/ m = r.from /\ held'[q][m] = held[q][m] \union {r.env}
        BY <1>0, <2>0, <3>1
      <4> QED
        BY <1>2, <2>0, <4>1
    <3> QED
      BY <1>1, <1>2, <2>0, <3>1, <3>2
  <2> QED
    BY <1>5, <2>1, <2>2
<1>6. ASSUME NEW r \in Request, HandlerStep(r) PROVE ClaimsHeld'
  <2>0. /\ r.to \in Node /\ r.from \in Node /\ r.env \in held[r.to][r.from]
        /\ UNCHANGED <<held, requests>>
    BY <1>6 DEF HandlerStep, Persist, PersistRaises, WitnessPeerRoot, Request, store
  <2>1. CASE Persist(r)
    <3>1. stored' = [stored EXCEPT ![r.to][r.from] = @ \union {r.env}]
      BY <2>1 DEF Persist
    <3>2. ASSUME NEW q \in Node, NEW m \in Node PROVE stored'[q][m] \subseteq Claims(m)
      <4>1. \/ stored'[q][m] = stored[q][m]
            \/ m = r.from /\ stored'[q][m] = stored[q][m] \union {r.env}
        BY <1>0, <2>0, <3>1
      <4> QED
        BY <1>2, <2>0, <4>1
    <3> QED
      BY <1>1, <1>2, <2>0, <3>2
  <2>2. CASE PersistRaises(r) \/ WitnessPeerRoot(r)
    BY <1>1, <1>2, <2>0, <2>2 DEF PersistRaises, WitnessPeerRoot, store
  <2> QED
    BY <1>6, <2>1, <2>2 DEF HandlerStep
<1>7. \/ UNCHANGED vars
      \/ \E m, p \in Node : OwnStep(m, p)
      \/ \E r \in requests : Answer(r) \/ Hold(r)
      \/ \E r \in Request : HandlerStep(r)
  BY NextIsStep
<1> QED
  BY <1>3, <1>4, <1>5, <1>6, <1>7

(* What a node has signed stays a claim of its own.                        *)
LEMMA ClaimsSignedNext ==
    ASSUME StateTypes, HonestInv, [Next]_vars, Honest'
    PROVE  ClaimsSigned'
<1>0. /\ ClaimsSigned /\ push \in [Node -> Push] /\ chain \in [Node -> Seq(Rec)]
      /\ \A n \in Node : /\ Claims(n) \subseteq Claims(n)'
                         /\ chain'[n] = chain[n] \/ push[n].pc # "reading"
  BY ClaimsLast DEF HonestInv, StateTypes, PushTypes, NodeTypes
<1>1. ASSUME NEW n \in Node, push'[n] = push[n]
      PROVE  /\ push'[n].pc = "reading" => push'[n].env.count = Len(chain'[n])
             /\ push'[n].pc \notin {"idle", "reading"} => push'[n].env \in Claims(n)'
  BY <1>0, <1>1 DEF ClaimsSigned
<1>2. ASSUME NEW n \in Node, push'[n].pc \notin {"idle", "reading"},
             push[n].pc \notin {"idle", "reading"}, push'[n].env = push[n].env
      PROVE  push'[n].env \in Claims(n)'
  BY <1>0, <1>2 DEF ClaimsSigned
<1>3. ASSUME NEW n \in Node, NEW v, Moved(n, v),
             /\ v.pc = "reading" => v.env.count = Len(chain'[n])
             /\ v.pc \notin {"idle", "reading"} => v.env \in Claims(n)'
      PROVE  ClaimsSigned'
  <2>1. push'[n] = v /\ \A m \in Node \ {n} : push'[m] = push[m]
    BY <1>0, <1>3 DEF Moved
  <2> QED
    BY <1>1, <1>3, <2>1 DEF ClaimsSigned
<1>4. ASSUME UNCHANGED push PROVE ClaimsSigned'
  BY <1>1, <1>4 DEF ClaimsSigned
<1>5. ASSUME NEW r \in Request, NEW acked \in BOOLEAN, NEW wanted \in Nat, Respond(r, acked, wanted)
      PROVE  ClaimsSigned'
  <2> DEFINE v == [push[r.from] EXCEPT !.pc = IF wanted > 0 THEN "prove" ELSE "send",
                                   !.old = wanted, !.at = IF wanted > 0 THEN {r.to} ELSE {}]
  <2>1. UNCHANGED push \/ (Waiting(r) /\ Moved(r.from, v))
    BY <1>5, ResponseMoves
  <2>2. CASE Waiting(r) /\ Moved(r.from, v)
    <3>1. r.from \in Node /\ push[r.from] \in Push /\ push[r.from].pc = "wait"
      BY <1>0, <2>2 DEF Request, Waiting
    <3>2. v.env = push[r.from].env /\ v.pc \in {"prove", "send"}
      BY <3>1 DEF Push
    <3>3. push[r.from].env \in Claims(r.from)
      BY <1>0, <3>1 DEF ClaimsSigned
    <3> HIDE DEF v
    <3>4. PICK m \in Node : m = r.from
      BY <3>1
    <3>5. v.env \in Claims(m)'
      BY <1>0, <3>2, <3>3, <3>4
    <3> QED
      BY <1>3, <2>2, <3>2, <3>4, <3>5
  <2> QED
    BY <1>4, <2>1, <2>2
<1>6. CASE UNCHANGED vars
  BY <1>4, <1>6 DEF vars
<1>7. ASSUME NEW n \in Node, NEW p \in Node, OwnStep(n, p) PROVE ClaimsSigned'
  <2>0. push[n] \in Push /\ chain[n] \in Seq(Rec) /\ Len(chain[n]) \in Nat
    BY <1>0
  <2>1. CASE PushStart(n)
    <3> DEFINE v == [NoPush EXCEPT !.pc = "reading", !.sub = SubstantiveHead(n),
                                   !.env = [NoRoot EXCEPT !.count = Len(chain[n])]]
    <3>1. Moved(n, v) /\ chain' = chain
      BY <2>1, PushMoves DEF PushStart
    <3>2. v.pc = "reading" /\ v.env.count = Len(chain[n])
      BY DEF NoPush, NoRoot
    <3> HIDE DEF v
    <3> QED
      BY <1>3, <3>1, <3>2
  <2>2. CASE SignRoot(n)
    <3> DEFINE e == [push[n].env EXCEPT !.root = chain[n]]
               v == [push[n] EXCEPT !.pc = "send", !.env = e, !.todo = Node \ {n}]
    <3>1. Moved(n, v) /\ chain' = chain
      BY <2>2, PushMoves DEF SignRoot
    <3>2. v.pc = "send" /\ v.env = e
      BY <2>0 DEF Push
    <3>3. e \in Root /\ e.root = chain[n] /\ e.count = Len(chain[n])
      BY <1>0, <2>0, <2>2 DEF SignRoot, ClaimsSigned, Push, Root
    <3> HIDE DEF v, e
    <3>4. e \in Claims(n)
      BY <2>0, <3>3 DEF Claims
    <3> QED
      BY <1>0, <1>3, <3>1, <3>2, <3>4
  <2>3. CASE Send(n, p)
    <3> DEFINE v == [push[n] EXCEPT !.pc = "wait", !.todo = push[n].todo \ {p}, !.at = {p},
                                    !.try = TotalFaults]
    <3>1. Moved(n, v) /\ push[n].pc = "send"
      BY <2>3, PushMoves DEF Send
    <3>2. v.pc = "wait" /\ v.env = push[n].env
      BY <2>0 DEF Push
    <3> HIDE DEF v
    <3> QED
      BY <1>0, <1>3, <3>1, <3>2 DEF ClaimsSigned
  <2>4. CASE GiveUp(n) \/ ProveLink(n, p)
    <3> DEFINE v == [push[n] EXCEPT !.pc = "send", !.at = {}, !.old = 0]
    <3>1. Moved(n, v) /\ push[n].pc \in {"wait", "prove"}
      BY <2>4, PushMoves DEF GiveUp, ProveLink
    <3>2. v.pc = "send" /\ v.env = push[n].env
      BY <2>0 DEF Push
    <3> HIDE DEF v
    <3> QED
      BY <1>0, <1>3, <3>1, <3>2 DEF ClaimsSigned
  <2>5. CASE PushDone(n) \/ ReceiptRaises(n) \/ RecordQuorum(n) \/ Crash(n) \/ Rollback(n)
    <3>1. Moved(n, NoPush) /\ NoPush.pc = "idle"
      BY <2>5, PushMoves DEF Crash, Rollback, NoPush
    <3> QED
      BY <1>3, <3>1
  <2>6. CASE Receipt(n)
    <3> DEFINE v == [push[n] EXCEPT !.pc = "record"]
    <3>1. Moved(n, v) /\ push[n].pc = "send"
      BY <2>6, PushMoves DEF Receipt
    <3>2. v.pc = "record" /\ v.env = push[n].env
      BY <2>0 DEF Push
    <3> HIDE DEF v
    <3> QED
      BY <1>0, <1>3, <3>1, <3>2 DEF ClaimsSigned
  <2>7. CASE Work(n)
    BY <1>4, <2>7 DEF Work
  <2> QED
    BY <1>7, <2>1, <2>2, <2>3, <2>4, <2>5, <2>6, <2>7 DEF OwnStep
<1>8. ASSUME NEW r \in requests, Answer(r) \/ Hold(r) PROVE ClaimsSigned'
  <2>0. r \in Request /\ Wanted(r.to, r.from) \in Nat
    <3>1. r \in Request /\ r.to \in Node /\ r.from \in Node /\ StoreTypes
      BY DEF StateTypes, MessageTypes, Request
    <3> QED
      BY <3>1, WantedIs
  <2>1. CASE Answer(r)
    <3> DEFINE acked == Outcome(r.to, r.from, r.env) = "duplicate"
               wanted == IF acked THEN Wanted(r.to, r.from) ELSE 0
    <3>1. Respond(r, acked, wanted) /\ acked \in BOOLEAN /\ wanted \in Nat
      BY <2>0, <2>1 DEF Answer
    <3> HIDE DEF acked, wanted
    <3> QED
      BY <1>5, <2>0, <3>1
  <2>2. CASE Hold(r)
    BY <1>4, <2>2 DEF Hold
  <2> QED
    BY <1>8, <2>1, <2>2
<1>9. ASSUME NEW r \in Request, HandlerStep(r) PROVE ClaimsSigned'
  <2>1. CASE Persist(r)
    BY <1>4, <2>1 DEF Persist
  <2>2. CASE PersistRaises(r)
    BY <1>5, <2>2 DEF PersistRaises
  <2>3. CASE WitnessPeerRoot(r)
    <3>1. r.to \in Node /\ r.from \in Node /\ StoreTypes
      BY DEF Request, StateTypes
    <3>2. Wanted(r.to, r.from) \in Nat
      BY <3>1, WantedIs
    <3> QED
      BY <1>5, <2>3, <3>2 DEF WitnessPeerRoot
  <2> QED
    BY <1>9, <2>1, <2>2, <2>3 DEF HandlerStep
<1>10. \/ UNCHANGED vars
       \/ \E m, p \in Node : OwnStep(m, p)
       \/ \E r \in requests : Answer(r) \/ Hold(r)
       \/ \E r \in Request : HandlerStep(r)
  BY NextIsStep
<1> QED
  BY <1>6, <1>7, <1>8, <1>9, <1>10

(* Claims are never evidence, however late they come and however much the  *)
(* chain has grown.                                                        *)
LEMMA NoEvidenceNext ==
    ASSUME StateTypes, HonestInv, [Next]_vars, Honest'
    PROVE  \A q \in Node : evidence'[q] = {}
<1>0. /\ ClaimsHeld /\ StoreTypes /\ NodeTypes /\ evidence \in [Node -> SUBSET Node]
      /\ requests \subseteq Request /\ \A q \in Node : evidence[q] = {}
  BY ClaimsLast DEF HonestInv, StateTypes, StoreTypes, MessageTypes
<1>1. ASSUME NEW p \in Node, NEW n \in Node, NEW k \in 0..Len(chain[n])
      PROVE  Pinned(p, n, Claim(n, k))
  <2> DEFINE c == Claim(n, k)
  <2>1. c \in Claims(n) /\ c.count = k
    BY <1>0, ClaimIsClaim
  <2> HIDE DEF c
  <2>2. ASSUME NEW e \in HeldAt(p, n, c.count) PROVE e = c
    <3>1. e \in Claims(n) /\ e.count = c.count
      BY <1>0 DEF HeldAt, ClaimsHeld
    <3> QED
      BY <2>1, <3>1, OneClaim
  <2>3. HeldAt(p, n, c.count) \subseteq {c}
    BY <2>2
  <2> QED
    BY <2>3 DEF Pinned, c
<1>2. ASSUME NEW n \in Node, NEW p \in Node, ProveLink(n, p) PROVE \A q \in Node : evidence'[q] = {}
  <2> DEFINE old == push[n].old
             new == Len(chain[n])
             proved == Pinned(p, n, Claim(n, old)) /\ Pinned(p, n, Claim(n, new))
  <2>1. old \in Nat /\ new \in Nat
    BY <1>0 DEF StateTypes, PushTypes, Push, NodeTypes
  <2>2. CASE old > new
    BY <1>0, <1>2, <2>2 DEF ProveLink
  <2>3. CASE ~(old > new)
    <3>1. proved
      BY <1>1, <2>1, <2>3
    <3>2. evidence' = [evidence EXCEPT ![p] = IF proved THEN @ ELSE @ \union {n}]
      BY <1>2, <2>3 DEF ProveLink
    <3> HIDE DEF proved
    <3> QED
      BY <1>0, <3>1, <3>2
  <2> QED
    BY <2>2, <2>3
<1>3. ASSUME NEW r \in requests, Answer(r) PROVE \A q \in Node : evidence'[q] = {}
  <2>0. r.to \in Node /\ r.from \in Node /\ r.env \in Root /\ r.env \in Claims(r.from)
    BY <1>0 DEF Request, ClaimsHeld
  <2>1. Outcome(r.to, r.from, r.env) # "divergence"
    <3>1. ASSUME NEW f \in held[r.to][r.from], f.count = r.env.count PROVE f = r.env
      <4>1. f \in Claims(r.from)
        BY <1>0, <2>0 DEF ClaimsHeld
      <4> QED
        BY <2>0, <3>1, <4>1, OneClaim
    <3> QED
      BY <1>0, <2>0, <3>1, OutcomeIs
  <2>2. evidence' = [evidence EXCEPT ![r.to] = @]
    BY <1>3, <2>1 DEF Answer
  <2> QED
    BY <1>0, <2>2
<1>4. ASSUME NEW n \in Node, NEW p \in Node, OwnStep(n, p), ~ProveLink(n, p)
      PROVE  evidence' = evidence
  BY <1>4 DEF OwnStep, PushStart, SignRoot, GiveUp, PushDone, Receipt, ReceiptRaises,
     RecordQuorum, Send, Work, Crash, Rollback, Reboot, store
<1>5. ASSUME NEW r, Hold(r) \/ HandlerStep(r) PROVE evidence' = evidence
  BY <1>5 DEF Hold, HandlerStep, Persist, PersistRaises, WitnessPeerRoot, store
<1>6. ASSUME UNCHANGED vars PROVE evidence' = evidence
  BY <1>6 DEF vars, store
<1>7. \/ UNCHANGED vars
      \/ \E m, p \in Node : OwnStep(m, p)
      \/ \E r \in requests : Answer(r) \/ Hold(r)
      \/ \E r \in Request : HandlerStep(r)
  BY NextIsStep
<1>8. CASE evidence' = evidence
  BY <1>0, <1>8
<1> QED
  BY <1>2, <1>3, <1>4, <1>5, <1>6, <1>7, <1>8

(* signed_root, ReplicaStore.accept and record_consistency: late, repeated *)
(* and reordered roots, grown chains and crashes never make evidence       *)
(* against a node that was not rolled back and hosts no Being.             *)
THEOREM HonestAlwaysTrusted == Spec => []HonestNeverAccused
<1>1. Init => HonestInv
  <2> SUFFICES ASSUME Init PROVE HonestInv
    OBVIOUS
  <2>1. ClaimsHeld
    BY DEF Init, ClaimsHeld
  <2>2. ClaimsSigned
    BY DEF Init, ClaimsSigned, NoPush
  <2> QED
    BY <2>1, <2>2 DEF Init, HonestInv
<1>2. StateTypes /\ HonestInv /\ [Next]_vars => HonestInv'
  BY ClaimsHeldNext, ClaimsSignedNext, NoEvidenceNext DEF HonestInv
<1>3. HonestInv => HonestNeverAccused
  BY DEF HonestInv, Honest, HonestNeverAccused
<1> QED
  BY TypesInit, TypesNext, <1>1, <1>2, <1>3, PTL DEF Spec

----------------------------------------------------------------------------
(* Forks are never linked away.                                            *)

(* A link, and a proof that is asked for, start from an older root.        *)
LinkedOlder(p, n) ==
    \A x, y \in Nat : <<x, y>> \in links[p][n] => \E f \in held[p][n] : f.count > x
AskedOlder(p, n) ==
    push[n].pc = "prove" /\ push[n].at = {p} => \E f \in held[p][n] : f.count > push[n].old

(* d and e are of the two greatest counts a receiver holds.                *)
Newest(p, n, d, e) ==
    d.count < e.count /\ \A g \in held[p][n] : g.count = e.count \/ g.count <= d.count
LinkedIsPrefix(p, n) ==
    \A d, e \in held[p][n] :
        Newest(p, n, d, e) /\ <<d.count, e.count>> \in links[p][n] => IsPrefix(d.root, e.root)

Linked(p, n) == LinkedOlder(p, n) /\ AskedOlder(p, n) /\ LinkedIsPrefix(p, n)
ForkInv == \A p, n \in Node : NeverRestarted(p) => Linked(p, n)

(* The root of a shorter prefix is a prefix of the root of a longer one.   *)
LEMMA ClaimsArePrefixes ==
    ASSUME NodeTypes, NEW n \in Node, NEW j \in 0..Len(chain[n]), NEW k \in 0..Len(chain[n]), j <= k
    PROVE  IsPrefix(Claim(n, j).root, Claim(n, k).root)
<1> DEFINE s == SubSeq(chain[n], 1, j)
           t == SubSeq(chain[n], 1, k)
<1>1. /\ Claim(n, j).root = s /\ s \in Seq(Rec) /\ Len(s) = j
      /\ \A i \in 1..j : s[i] = chain[n][i]
  BY ClaimIsClaim
<1>2. /\ Claim(n, k).root = t /\ t \in Seq(Rec) /\ Len(t) = k
      /\ \A i \in 1..k : t[i] = chain[n][i]
  BY ClaimIsClaim
<1>3. j \in Nat /\ k \in Nat
  BY DEF NodeTypes
<1> HIDE DEF s, t
<1>4. /\ SubSeq(s, 1, j) \in Seq(Rec) /\ Len(SubSeq(s, 1, j)) = IF 1 <= j THEN j - 1 + 1 ELSE 0
      /\ \A i \in 1..(j - 1 + 1) : SubSeq(s, 1, j)[i] = s[1 + i - 1]
  <2>1. \A i \in 1..j : s[i] \in Rec
    BY <1>1, <1>3
  <2> QED
    BY <1>3, <2>1, SubSeqProperties
<1>5. /\ SubSeq(t, 1, j) \in Seq(Rec) /\ Len(SubSeq(t, 1, j)) = IF 1 <= j THEN j - 1 + 1 ELSE 0
      /\ \A i \in 1..(j - 1 + 1) : SubSeq(t, 1, j)[i] = t[1 + i - 1]
  <2>1. \A i \in 1..j : t[i] \in Rec
    BY <1>2, <1>3
  <2> QED
    BY <1>3, <2>1, SubSeqProperties
<1>6. Len(SubSeq(s, 1, j)) = j /\ Len(SubSeq(t, 1, j)) = j
  BY <1>3, <1>4, <1>5
<1>7. \A i \in 1..j : SubSeq(s, 1, j)[i] = SubSeq(t, 1, j)[i]
  <2> TAKE i \in 1..j
  <2>1. i \in 1..(j - 1 + 1) /\ 1 + i - 1 = i /\ i \in 1..k
    BY <1>3
  <2>2. SubSeq(s, 1, j)[i] = s[i] /\ SubSeq(t, 1, j)[i] = t[i]
    BY <1>4, <1>5, <2>1
  <2> QED
    BY <1>1, <1>2, <2>1, <2>2
<1>8. SubSeq(s, 1, j) = SubSeq(t, 1, j)
  BY <1>4, <1>5, <1>6, <1>7, SeqEqual
<1>9. IsPrefix(s, t)
  BY <1>1, <1>2, <1>8 DEF IsPrefix
<1> QED
  BY <1>1, <1>2, <1>9

(* A receiver that has not restarted has kept what it held.                *)
LEMMA HeldLasts ==
    ASSUME StateTypes, [Next]_vars, NEW p \in Node, NeverRestarted(p)'
    PROVE  NeverRestarted(p) /\ ~Crash(p) /\ ~(p \in Pushing /\ Rollback(p))
<1>0. /\ net' = net /\ faults \in [Fault -> Nat] /\ faults' \in [Fault -> Nat]
      /\ faults'["rollback"] >= faults["rollback"] /\ faults'["crash"] >= faults["crash"]
      /\ "rollback" \in Fault /\ "crash" \in Fault /\ Pushing' = Pushing
  BY NextIsStep, NodeTypesNext DEF StateTypes, NodeTypes, Fault, Pushing
<1>1. NeverRestarted(p)
  BY <1>0 DEF NeverRestarted
<1>2. ~Crash(p)
  <2>1. ASSUME Crash(p) PROVE faults'["crash"] = faults["crash"] + 1
    BY <1>0, <2>1 DEF Crash, Happens
  <2> QED
    BY <1>0, <2>1 DEF NeverRestarted
<1>3. ~(p \in Pushing /\ Rollback(p))
  <2>1. ASSUME Rollback(p) PROVE faults'["rollback"] = faults["rollback"] + 1
    BY <1>0, <2>1 DEF Rollback, Happens
  <2> QED
    BY <1>0, <2>1 DEF NeverRestarted
<1> QED
  BY <1>1, <1>2, <1>3

(* A step that touches neither the roots nor the links of an origin.       *)
LEMMA LinkedQuiet ==
    ASSUME NEW p \in Node, NEW n \in Node, Linked(p, n),
           held'[p][n] = held[p][n], links'[p][n] = links[p][n],
           \/ push'[n] = push[n]
           \/ push'[n].pc # "prove"
           \/ push'[n].at # {p}
           \/ \E f \in held[p][n] : f.count > push'[n].old
    PROVE  Linked(p, n)'
<1>1. LinkedOlder(p, n)'
  BY DEF Linked, LinkedOlder
<1>2. AskedOlder(p, n)'
  BY DEF Linked, AskedOlder
<1>3. LinkedIsPrefix(p, n)'
  BY DEF Linked, LinkedIsPrefix, Newest
<1> QED
  BY <1>1, <1>2, <1>3 DEF Linked

(* A new root is longer than all that are held, so no old link is for it.  *)
LEMMA LinkedHold ==
    ASSUME StateTypes, NEW p \in Node, NEW n \in Node, NEW h \in Root, Linked(p, n),
           \A f \in held[p][n] : f.count < h.count,
           held'[p][n] = held[p][n] \union {h}, links'[p][n] = links[p][n], push' = push
    PROVE  Linked(p, n)'
<1>0. /\ held[p][n] \subseteq Root /\ h.count \in Nat /\ \A f \in held[p][n] : f.count \in Nat
      /\ links[p][n] \subseteq Nat \X Nat
  BY DEF StateTypes, StoreTypes, Root
<1>1. LinkedOlder(p, n)'
  BY DEF Linked, LinkedOlder
<1>2. AskedOlder(p, n)'
  BY DEF Linked, AskedOlder
<1>3. LinkedIsPrefix(p, n)'
  <2> SUFFICES ASSUME NEW d \in held[p][n] \union {h}, NEW e \in held[p][n] \union {h},
                      Newest(p, n, d, e)', <<d.count, e.count>> \in links[p][n]
               PROVE  FALSE
    BY DEF LinkedIsPrefix
  <2>1. d.count \in Nat /\ e.count \in Nat /\ d.count < e.count
    BY <1>0 DEF Newest
  <2>2. PICK f \in held[p][n] : f.count > d.count
    BY <2>1 DEF Linked, LinkedOlder
  <2>3. f.count = e.count /\ f.count < h.count
    BY <1>0, <2>1, <2>2 DEF Newest
  <2>4. h.count = e.count \/ h.count <= d.count
    BY DEF Newest
  <2> QED
    BY <1>0, <2>1, <2>2, <2>3, <2>4
<1> QED
  BY <1>1, <1>2, <1>3 DEF Linked

(* A proof that passes pins both ends of the link it adds.                 *)
LEMMA LinkedProve ==
    ASSUME StateTypes, NEW p \in Node, NEW n \in Node, Linked(p, n), ProveLink(n, p)
    PROVE  Linked(p, n)'
<1> DEFINE old == push[n].old
           new == Len(chain[n])
           proved == Pinned(p, n, Claim(n, old)) /\ Pinned(p, n, Claim(n, new))
<1>0. /\ held[p][n] \subseteq Root /\ \A f \in held[p][n] : f.count \in Nat
      /\ links \in [Node -> [Node -> SUBSET (Nat \X Nat)]] /\ old \in Nat /\ new \in Nat /\ NodeTypes
      /\ push[n] \in Push
  BY DEF StateTypes, StoreTypes, PushTypes, Push, NodeTypes, Root
<1>1. /\ held' = held /\ push[n].pc = "prove" /\ push[n].at = {p} /\ push'[n].pc = "send"
  <2>1. Moved(n, [push[n] EXCEPT !.pc = "send", !.at = {}, !.old = 0])
    BY PushMoves
  <2>2. push \in [Node -> Push]
    BY DEF StateTypes, PushTypes
  <2>3. push'[n] = [push[n] EXCEPT !.pc = "send", !.at = {}, !.old = 0]
    BY <2>1, <2>2 DEF Moved
  <2>4. push'[n].pc = "send"
    BY <1>0, <2>3 DEF Push
  <2> QED
    BY <2>4 DEF ProveLink
<1>2. CASE links'[p][n] = links[p][n]
  BY <1>1, <1>2, LinkedQuiet
<1>3. CASE links'[p][n] # links[p][n]
  <2>1. /\ ~(old > new) /\ proved
        /\ links'[p][n] = links[p][n] \union {<<old, new>>}
    <3>1. ~(old > new)
      BY <1>3 DEF ProveLink
    <3>2. links' = [links EXCEPT ![p][n] = IF proved THEN @ \union {<<old, new>>} ELSE @]
      BY <3>1 DEF ProveLink
    <3> HIDE DEF proved
    <3>3. proved
      BY <1>0, <1>3, <3>2
    <3> QED
      BY <1>0, <3>1, <3>2, <3>3
  <2>2. \E f \in held[p][n] : f.count > old
    BY <1>1 DEF Linked, AskedOlder
  <2>3. LinkedOlder(p, n)'
    <3> SUFFICES ASSUME NEW x \in Nat, NEW y \in Nat, <<x, y>> \in links'[p][n]
                 PROVE  \E f \in held[p][n] : f.count > x
      BY <1>1 DEF LinkedOlder
    <3>1. CASE <<x, y>> \in links[p][n]
      BY <3>1 DEF Linked, LinkedOlder
    <3>2. CASE <<x, y>> = <<old, new>>
      BY <2>2, <3>2
    <3> QED
      BY <2>1, <3>1, <3>2
  <2>4. AskedOlder(p, n)'
    BY <1>1 DEF AskedOlder
  <2>5. LinkedIsPrefix(p, n)'
    <3> SUFFICES ASSUME NEW d \in held[p][n], NEW e \in held[p][n], Newest(p, n, d, e),
                        <<d.count, e.count>> \in links'[p][n]
                 PROVE  IsPrefix(d.root, e.root)
      BY <1>1 DEF LinkedIsPrefix, Newest
    <3>1. CASE <<d.count, e.count>> \in links[p][n]
      BY <3>1 DEF Linked, LinkedIsPrefix
    <3>2. CASE d.count = old /\ e.count = new
      <4>1. old \in 0..Len(chain[n]) /\ new \in 0..Len(chain[n]) /\ old <= new
        BY <1>0, <2>1
      <4>2. Claim(n, old).count = old /\ Claim(n, new).count = new
        BY <1>0, <4>1, ClaimIsClaim
      <4>3. d \in HeldAt(p, n, Claim(n, old).count) /\ e \in HeldAt(p, n, Claim(n, new).count)
        BY <3>2, <4>2 DEF HeldAt
      <4>4. d = Claim(n, old) /\ e = Claim(n, new)
        BY <2>1, <4>3 DEF Pinned
      <4>5. IsPrefix(Claim(n, old).root, Claim(n, new).root)
        BY <1>0, <4>1, ClaimsArePrefixes
      <4> QED
        BY <4>4, <4>5
    <3>3. <<d.count, e.count>> \in links[p][n] \/ <<d.count, e.count>> = <<old, new>>
      BY <2>1
    <3> QED
      BY <3>1, <3>2, <3>3
  <2> QED
    BY <2>3, <2>4, <2>5 DEF Linked
<1> QED
  BY <1>2, <1>3

(* A node's own step never starts to ask for a proof.                      *)
LEMMA OwnStepAsksNot ==
    ASSUME StateTypes, NEW m \in Node, NEW q \in Node, OwnStep(m, q), NEW n \in Node
    PROVE  push'[n] = push[n] \/ push'[n].pc # "prove"
<1>0. push \in [Node -> Push] /\ push[m] \in Push
  BY DEF StateTypes, PushTypes
<1>1. ASSUME NEW v, Moved(m, v), v.pc # "prove" PROVE push'[n] = push[n] \/ push'[n].pc # "prove"
  BY <1>0, <1>1 DEF Moved
<1>2. CASE PushStart(m)
  <2> DEFINE v == [NoPush EXCEPT !.pc = "reading", !.sub = SubstantiveHead(m),
                                 !.env = [NoRoot EXCEPT !.count = Len(chain[m])]]
  <2>1. Moved(m, v) /\ v.pc = "reading"
    BY <1>2, PushMoves DEF NoPush
  <2> HIDE DEF v
  <2> QED
    BY <1>1, <2>1
<1>3. CASE SignRoot(m)
  <2> DEFINE v == [push[m] EXCEPT !.pc = "send", !.env = [push[m].env EXCEPT !.root = chain[m]],
                                  !.todo = Node \ {m}]
  <2>1. Moved(m, v)
    BY <1>3, PushMoves
  <2>2. v.pc = "send"
    BY <1>0 DEF Push
  <2> HIDE DEF v
  <2> QED
    BY <1>1, <2>1, <2>2
<1>4. CASE Send(m, q)
  <2> DEFINE v == [push[m] EXCEPT !.pc = "wait", !.todo = push[m].todo \ {q}, !.at = {q},
                                  !.try = TotalFaults]
  <2>1. Moved(m, v)
    BY <1>4, PushMoves
  <2>2. v.pc = "wait"
    BY <1>0 DEF Push
  <2> HIDE DEF v
  <2> QED
    BY <1>1, <2>1, <2>2
<1>5. CASE GiveUp(m) \/ ProveLink(m, q)
  <2> DEFINE v == [push[m] EXCEPT !.pc = "send", !.at = {}, !.old = 0]
  <2>1. Moved(m, v)
    BY <1>5, PushMoves
  <2>2. v.pc = "send"
    BY <1>0 DEF Push
  <2> HIDE DEF v
  <2> QED
    BY <1>1, <2>1, <2>2
<1>6. CASE PushDone(m) \/ ReceiptRaises(m) \/ RecordQuorum(m) \/ Crash(m) \/ Rollback(m)
  <2>1. Moved(m, NoPush) /\ NoPush.pc = "idle"
    BY <1>6, PushMoves DEF Crash, Rollback, NoPush
  <2> QED
    BY <1>1, <2>1
<1>7. CASE Receipt(m)
  <2> DEFINE v == [push[m] EXCEPT !.pc = "record"]
  <2>1. Moved(m, v)
    BY <1>7, PushMoves
  <2>2. v.pc = "record"
    BY <1>0 DEF Push
  <2> HIDE DEF v
  <2> QED
    BY <1>1, <2>1, <2>2
<1>8. CASE Work(m)
  BY <1>8 DEF Work
<1> QED
  BY <1>2, <1>3, <1>4, <1>5, <1>6, <1>7, <1>8 DEF OwnStep

(* A response asks for a proof that starts from an older root.             *)
LEMMA ResponseAsksOlder ==
    ASSUME StateTypes, NEW r \in Request, NEW acked \in BOOLEAN, NEW p \in Node, NEW n \in Node,
           NEW wanted \in {0, Wanted(r.to, r.from)}, Respond(r, acked, wanted)
    PROVE  \/ push'[n] = push[n]
           \/ push'[n].pc # "prove"
           \/ push'[n].at # {p}
           \/ \E f \in held[p][n] : f.count > push'[n].old
<1>0. /\ push \in [Node -> Push] /\ r.from \in Node /\ r.to \in Node /\ push[r.from] \in Push
      /\ StoreTypes
  BY DEF StateTypes, PushTypes, Request
<1>1. /\ Wanted(r.to, r.from) \in Nat
      /\ Wanted(r.to, r.from) > 0 => \E e \in held[r.to][r.from] : e.count > Wanted(r.to, r.from)
  BY <1>0, WantedIs
<1>2. wanted \in Nat
  BY <1>1
<1> DEFINE v == [push[r.from] EXCEPT !.pc = IF wanted > 0 THEN "prove" ELSE "send",
                                   !.old = wanted, !.at = IF wanted > 0 THEN {r.to} ELSE {}]
<1>3. push' = push \/ Moved(r.from, v)
  BY <1>2, ResponseMoves
<1>4. CASE Moved(r.from, v)
  <2>1. /\ v.pc = IF wanted > 0 THEN "prove" ELSE "send"
        /\ v.old = wanted /\ v.at = IF wanted > 0 THEN {r.to} ELSE {}
    BY <1>0 DEF Push
  <2> HIDE DEF v
  <2>2. push'[n] = IF n = r.from THEN v ELSE push[n]
    BY <1>0, <1>4 DEF Moved
  <2>3. ASSUME n = r.from, v.pc = "prove", v.at = {p}
        PROVE  \E f \in held[p][n] : f.count > v.old
    <3>1. wanted > 0 /\ p = r.to /\ v.old = wanted
      BY <2>1, <2>3
    <3>2. wanted = Wanted(r.to, r.from)
      BY <1>2, <3>1
    <3> QED
      BY <1>1, <2>3, <3>1, <3>2
  <2> QED
    BY <2>2, <2>3
<1>5. CASE push' = push
  BY <1>5
<1> QED
  BY <1>3, <1>4, <1>5

(* Every step keeps the links of receivers that have not restarted true.   *)
LEMMA ForkNext == StateTypes /\ ForkInv /\ [Next]_vars => ForkInv'
<1> SUFFICES ASSUME StateTypes, ForkInv, [Next]_vars, NEW p \in Node, NEW n \in Node,
                    NeverRestarted(p)'
             PROVE  Linked(p, n)'
  BY DEF ForkInv
<1>0. /\ Linked(p, n) /\ ~Crash(p) /\ ~(p \in Pushing /\ Rollback(p))
      /\ held \in [Node -> [Node -> SUBSET Root]]
      /\ links \in [Node -> [Node -> SUBSET (Nat \X Nat)]]
      /\ requests \subseteq Request /\ StoreTypes
  BY HeldLasts DEF ForkInv, StateTypes, StoreTypes, MessageTypes
<1>1. CASE UNCHANGED vars
  BY <1>0, <1>1, LinkedQuiet DEF vars, store
<1>2. ASSUME NEW m \in Node, NEW q \in Node, OwnStep(m, q) PROVE Linked(p, n)'
  <2>0. push'[n] = push[n] \/ push'[n].pc # "prove"
    BY <1>2, OwnStepAsksNot
  <2>1. CASE ProveLink(m, q) /\ q = p /\ m = n
    BY <1>0, <2>1, LinkedProve
  <2>2. CASE ProveLink(m, q) /\ ~(q = p /\ m = n)
    <3>1. held' = held
      BY <2>2 DEF ProveLink
    <3>2. links'[p][n] = links[p][n]
      <4>1. \/ UNCHANGED links
            \/ links' = [links EXCEPT ![q][m] = @ \union {<<push[m].old, Len(chain[m])>>}]
            \/ links' = [links EXCEPT ![q][m] = @]
        BY <2>2 DEF ProveLink
      <4> QED
        BY <1>0, <2>2, <4>1
    <3> QED
      BY <1>0, <2>0, <3>1, <3>2, LinkedQuiet
  <2>3. CASE (Crash(m) \/ (m \in Pushing /\ Rollback(m)))
    <3>1. held' = [held EXCEPT ![m] = stored[m]] /\ UNCHANGED links /\ m # p
      BY <1>0, <2>3 DEF Crash, Rollback, Reboot
    <3>2. held'[p][n] = held[p][n]
      BY <1>0, <3>1
    <3> QED
      BY <1>0, <2>0, <3>1, <3>2, LinkedQuiet
  <2>4. CASE ~ProveLink(m, q) /\ ~Crash(m) /\ ~(m \in Pushing /\ Rollback(m))
    <3>1. UNCHANGED <<held, links>>
      BY <1>2, <2>4 DEF OwnStep, PushStart, SignRoot, GiveUp, PushDone, Receipt, ReceiptRaises,
           RecordQuorum, Send, Work, store
    <3> QED
      BY <1>0, <2>0, <3>1, LinkedQuiet
  <2> QED
    BY <2>1, <2>2, <2>3, <2>4
<1>3. ASSUME NEW r \in Request, NEW acked \in BOOLEAN, NEW wanted \in {0, Wanted(r.to, r.from)},
             Respond(r, acked, wanted), UNCHANGED <<held, links>>
      PROVE  Linked(p, n)'
  BY <1>0, <1>3, ResponseAsksOlder, LinkedQuiet
<1>4. ASSUME NEW r \in requests, Answer(r) \/ Hold(r) PROVE Linked(p, n)'
  <2>0. r \in Request /\ r.to \in Node /\ r.from \in Node /\ r.env \in Root
    BY <1>0 DEF Request
  <2>1. CASE Answer(r)
    <3> DEFINE acked == Outcome(r.to, r.from, r.env) = "duplicate"
               wanted == IF acked THEN Wanted(r.to, r.from) ELSE 0
    <3>1. Respond(r, acked, wanted) /\ UNCHANGED <<held, links>>
      BY <2>1 DEF Answer
    <3>2. acked \in BOOLEAN /\ wanted \in {0, Wanted(r.to, r.from)}
      OBVIOUS
    <3> HIDE DEF acked, wanted
    <3> QED
      BY <1>3, <2>0, <3>1, <3>2
  <2>2. CASE Hold(r)
    <3>1. /\ held' = [held EXCEPT ![r.to][r.from] = @ \union {r.env}] /\ UNCHANGED <<links, push>>
          /\ Outcome(r.to, r.from, r.env) = "stored"
      BY <2>2 DEF Hold
    <3>2. \A f \in held[r.to][r.from] : f.count < r.env.count
      BY <1>0, <2>0, <3>1, OutcomeIs
    <3>3. CASE r.to = p /\ r.from = n
      <4>1. held'[p][n] = held[p][n] \union {r.env}
        BY <1>0, <3>1, <3>3
      <4> QED
        BY <1>0, <2>0, <3>1, <3>2, <3>3, <4>1, LinkedHold
    <3>4. CASE ~(r.to = p /\ r.from = n)
      <4>1. held'[p][n] = held[p][n]
        BY <1>0, <3>1, <3>4
      <4> QED
        BY <1>0, <3>1, <4>1, LinkedQuiet
    <3> QED
      BY <3>3, <3>4
  <2> QED
    BY <1>4, <2>1, <2>2
<1>5. ASSUME NEW r \in Request, HandlerStep(r) PROVE Linked(p, n)'
  <2>1. CASE Persist(r)
    BY <1>0, <2>1, LinkedQuiet DEF Persist
  <2>2. CASE PersistRaises(r) \/ WitnessPeerRoot(r)
    <3>1. /\ UNCHANGED <<held, links>>
          /\ Respond(r, FALSE, 0) \/ Respond(r, TRUE, Wanted(r.to, r.from))
      BY <2>2 DEF PersistRaises, WitnessPeerRoot, store
    <3> QED
      BY <1>3, <3>1
  <2> QED
    BY <1>5, <2>1, <2>2 DEF HandlerStep
<1>6. \/ UNCHANGED vars
      \/ \E m, q \in Node : OwnStep(m, q)
      \/ \E r \in requests : Answer(r) \/ Hold(r)
      \/ \E r \in Request : HandlerStep(r)
  BY NextIsStep
<1> QED
  BY <1>1, <1>2, <1>4, <1>5, <1>6

(* consistency_wanted, record_consistency: a receiver that has not         *)
(* restarted, and whose two newest roots of an origin are of different     *)
(* histories, still wants a proof or has the evidence.                     *)
THEOREM NeverSilentFork == Spec => []NoSilentFork
<1>1. Init => ForkInv
  <2> SUFFICES ASSUME Init, NEW p \in Node, NEW n \in Node PROVE Linked(p, n)
    BY DEF ForkInv
  <2>1. held[p][n] = {} /\ links[p][n] = {} /\ push[n].pc = "idle"
    BY DEF Init, NoPush
  <2> QED
    BY <2>1 DEF Linked, LinkedOlder, AskedOlder, LinkedIsPrefix
<1>2. StateTypes /\ ForkInv => NoSilentFork
  <2> SUFFICES ASSUME StateTypes, ForkInv, NEW p \in Node, NEW n \in Node, NeverRestarted(p),
                      NEW d \in held[p][n], NEW e \in held[p][n],
                      LET counts == {f.count : f \in held[p][n]} IN
                      /\ 0 < d.count /\ d.count < e.count
                      /\ e.count = Max(counts) /\ d.count = Max(counts \ {e.count})
                      /\ Wanted(p, n) = 0 /\ n \notin evidence[p]
               PROVE  IsPrefix(d.root, e.root)
    BY DEF NoSilentFork
  <2> DEFINE counts == {f.count : f \in held[p][n]}
  <2>0. /\ 0 < d.count /\ d.count < e.count
        /\ e.count = Max(counts) /\ d.count = Max(counts \ {e.count}) /\ Wanted(p, n) = 0
    OBVIOUS
  <2>1. /\ StoreTypes /\ \A f \in held[p][n] : f.count \in Nat
        /\ d.count \in Nat /\ e.count \in Nat
    BY DEF StateTypes, StoreTypes, Root
  <2>2. PICK b \in Nat : \A f \in held[p][n] : f.count <= b
    BY <2>1 DEF StoreTypes
  <2>3. counts \subseteq 0..b /\ d.count \in counts /\ e.count \in counts
    <3>1. \A f \in held[p][n] : f.count \in 0..b
      BY <2>1, <2>2
    <3>2. d.count \in counts /\ e.count \in counts
      OBVIOUS
    <3>3. counts \subseteq 0..b
      BY <3>1
    <3> QED
      BY <3>2, <3>3
  <2>4. Newest(p, n, d, e)
    <3> SUFFICES ASSUME NEW g \in held[p][n], g.count # e.count PROVE g.count <= d.count
      BY <2>0 DEF Newest
    <3>1. g.count \in counts \ {e.count}
      OBVIOUS
    <3>2. counts \ {e.count} \subseteq 0..b
      BY <2>3
    <3> HIDE DEF counts
    <3> QED
      BY <2>0, <3>1, <3>2, MaxExists
  <2>5. ~(Cardinality(counts) < 2)
    <3> HIDE DEF counts
    <3>1. IsFiniteSet(0..b)
      <4>1. 0 \in Int /\ b \in Int
        BY <2>2
      <4> QED
        BY <4>1, FS_Interval
    <3>2. IsFiniteSet(counts) /\ Cardinality(counts) \in Nat
      BY <2>3, <3>1, FS_Subset, FS_CardinalityType
    <3>3. IsFiniteSet({d.count}) /\ Cardinality({d.count}) = 1
      BY FS_Singleton, Zenon
    <3>4. e.count \notin {d.count}
      BY <2>0, <2>1
    <3>5. IsFiniteSet({d.count} \union {e.count})
          /\ Cardinality({d.count} \union {e.count}) = Cardinality({d.count}) + 1
      BY <3>3, <3>4, FS_AddElement
    <3>6. {d.count} \union {e.count} \subseteq counts
      BY <2>3
    <3>7. Cardinality({d.count} \union {e.count}) <= Cardinality(counts)
      BY <3>2, <3>6, FS_Subset
    <3> QED
      BY <3>2, <3>3, <3>5, <3>7
  <2>6. <<d.count, e.count>> \in links[p][n]
    <3>1. Wanted(p, n) = IF Cardinality(counts) < 2 \/ <<Max(counts \ {Max(counts)}), Max(counts)>> \in links[p][n]
                         THEN 0 ELSE Max(counts \ {Max(counts)})
      BY DEF Wanted
    <3> HIDE DEF counts
    <3>2. Wanted(p, n) = IF <<d.count, e.count>> \in links[p][n] THEN 0 ELSE d.count
      BY <2>0, <2>5, <3>1
    <3> QED
      BY <2>0, <2>1, <3>2
  <2> QED
    BY <2>4, <2>6 DEF ForkInv, Linked, LinkedIsPrefix
<1> QED
  BY TypesInit, TypesNext, ForkNext, <1>1, <1>2, PTL DEF Spec

----------------------------------------------------------------------------
(* Bookkeeping is paid for.                                                *)

(* The argument keeps a history that the state does not: D, the pairs of a *)
(* node and a root it signed, and for each node those of them that a       *)
(* record on its chain stands for.  A push that is sure to come is a debt; *)
(* work, faults and the way to a node's first receipt are the funds; what  *)
(* was signed and what is owed never exceed them.                          *)

Funds == Cardinality(AllWork) + 2 * Cardinality(Pushing) + TotalFaults

(* What a node keeps of its receipts: before the first one nothing on its  *)
(* chain is covered, and no record says otherwise.                         *)
JournalTypes ==
    /\ receipts \in [Node -> SUBSET Nat] /\ journal \in [Node -> SUBSET Nat]
    /\ covered = [n \in Node |-> covered[n]] /\ lastSub = [n \in Node |-> lastSub[n]]

ReceiptsKept(n) ==
    /\ journal[n] \subseteq receipts[n]
    /\ receipts[n] = {} => covered[n] = 0
    /\ journal[n] = {} => \A i \in 1..Len(chain[n]) : chain[n][i].kind # "ANCHOR_QUORUM"
    /\ push[n].pc = "record" => push[n].env.count \in journal[n]

(* A root that was signed of records that are on the chain.                *)
OnChain(n, e) ==
    /\ e.count <= Len(e.root) /\ Len(e.root) <= Len(chain[n])
    /\ \A i \in 1..Len(e.root) : e.root[i] = chain[n][i]

RootsKnown(D) ==
    /\ \A m \in Node, e \in Root : <<m, e>> \in D => OnChain(m, e)
    /\ \A p, m \in Node : /\ stored[p][m] \subseteq held[p][m]
                          /\ \A e \in held[p][m] : <<m, e>> \in D
    /\ \A r \in requests : <<r.from, r.env>> \in D

(* At most one handler of a node is at work on a root.                     *)
HandlersApart ==
    \A n \in Node : \A h \in handling[n] :
        /\ h.pc = "persist" <=> h.req.env \notin stored[n][h.req.from]
        /\ \A g \in handling[n] : h.req.from = g.req.from /\ h.req.env = g.req.env => h = g

(* Unless there was work since, what a node pushes is newer than all it    *)
(* signed before.                                                          *)
Freshest(D, n, e) ==
    \A d \in Root : <<n, d>> \in D => d = e \/ d.count < e.count

PushSigned(D, n) ==
    /\ push[n].pc # "idle" => push[n].sub <= Len(chain[n])
    /\ push[n].pc = "reading" =>
         /\ push[n].env.count <= Len(chain[n])
         /\ SubstantiveHead(n) = push[n].sub => push[n].env.count = Len(chain[n])
    /\ push[n].pc \notin {"idle", "reading"} =>
         /\ <<n, push[n].env>> \in D
         /\ SubstantiveHead(n) = push[n].sub => Freshest(D, n, push[n].env)

(* Every record of bookkeeping, and the one that is due, stands for a root *)
(* of its own.                                                             *)
Bookkeeping(n) == Len(chain[n]) - Cardinality(WorkOf(n))
Due(n) == Bookkeeping(n) + (IF push[n].pc = "record" THEN 1 ELSE 0)

RecordsPaid(D, S, n) ==
    /\ S \subseteq D
    /\ \A e \in Root : <<n, e>> \in S => e.count \in journal[n]
    /\ \A m \in Node \ {n}, e \in Root : <<m, e>> \in S => e \in stored[n][m]
    /\ \A h \in handling[n] : <<h.req.from, h.req.env>> \notin S
    /\ Due(n) <= Cardinality(S)

(* The peers that will not acknowledge the root of this push any more.     *)
Asked(n) == IF push[n].pc = "wait" THEN push[n].at ELSE {}
Unanswered(n) ==
    Node \ ({n} \union Unreachable \union push[n].todo \union Asked(n)
              \union AckedBy(n, push[n].env))

(* A node that will sign again ...                                         *)
Owes(n) ==
    \/ push[n].pc = "idle" /\ PushWanted(n)
    \/ push[n].pc = "reading"
    \/ push[n].pc \notin {"idle", "reading"} /\ SubstantiveHead(n) # push[n].sub
    \/ /\ push[n].pc \in {"send", "wait", "prove"} /\ receipts[n] = {}
       /\ Unanswered(n) # {} \/ Len(chain[n]) = 0

(* ... and once more after that.                                           *)
OwesTwice(D, n) ==
    \/ push[n].pc \in {"idle", "reading"} /\ Len(chain[n]) = 0 /\ <<n, NoRoot>> \notin D
    \/ push[n].pc = "reading" /\ SubstantiveHead(n) # push[n].sub

Solvent(D) ==
    /\ IsFiniteSet(D) /\ IsFiniteSet(AllWork)
    /\ Cardinality(D) + Cardinality({n \in Pushing : Owes(n)})
         + Cardinality({n \in Pushing : OwesTwice(D, n)}) <= Funds

Accounts(D) ==
    /\ D \subseteq Node \X Root
    /\ RootsKnown(D) /\ Solvent(D)
    /\ \A n \in Node : PushSigned(D, n) /\ \E S : RecordsPaid(D, S, n)

PayInv ==
    faults["rollback"] = 0 /\ QuorumInReach =>
        /\ JournalTypes /\ HandlersApart /\ \A n \in Node : ReceiptsKept(n)
        /\ \E D : Accounts(D)

----------------------------------------------------------------------------
(* Counting, and chains that grow.                                         *)

(* How much a set of nodes can grow or shrink by one of them.              *)
LEMMA OneMoreOrLess ==
    ASSUME NEW A, NEW B, IsFiniteSet(A), IsFiniteSet(B), NEW x
    PROVE  /\ Cardinality(A) \in Nat /\ Cardinality(B) \in Nat
           /\ B \subseteq A => Cardinality(B) <= Cardinality(A)
           /\ B \subseteq A \union {x} => Cardinality(B) <= Cardinality(A) + 1
           /\ B \subseteq A \ {x} /\ x \in A => Cardinality(B) + 1 <= Cardinality(A)
<1>1. Cardinality(A) \in Nat /\ Cardinality(B) \in Nat
  BY FS_CardinalityType
<1>2. ASSUME B \subseteq A PROVE Cardinality(B) <= Cardinality(A)
  BY <1>2, FS_Subset
<1>3. ASSUME B \subseteq A \union {x} PROVE Cardinality(B) <= Cardinality(A) + 1
  <2> DEFINE C == A \union {x}
  <2>1. /\ IsFiniteSet(C)
        /\ Cardinality(C) = IF x \in A THEN Cardinality(A) ELSE Cardinality(A) + 1
    BY FS_AddElement
  <2>2. B \in SUBSET C
    BY <1>3
  <2> HIDE DEF C
  <2>3. Cardinality(B) <= Cardinality(C)
    BY <2>1, <2>2, FS_Subset
  <2> QED
    BY <1>1, <2>1, <2>3
<1>4. ASSUME B \subseteq A \ {x}, x \in A PROVE Cardinality(B) + 1 <= Cardinality(A)
  <2> DEFINE C == A \ {x}
  <2>1. /\ IsFiniteSet(C)
        /\ Cardinality(C) = IF x \in A THEN Cardinality(A) - 1 ELSE Cardinality(A)
    BY FS_RemoveElement
  <2>2. B \in SUBSET C
    BY <1>4
  <2> HIDE DEF C
  <2>3. Cardinality(B) <= Cardinality(C)
    BY <2>1, <2>2, FS_Subset
  <2> QED
    BY <1>1, <1>4, <2>1, <2>3
<1> QED
  BY <1>1, <1>2, <1>3, <1>4

(* A chain that grew by one record.                                        *)
GrownBy(n, kind) ==
    /\ Len(chain'[n]) = Len(chain[n]) + 1
    /\ \A i \in 1..Len(chain[n]) : chain'[n][i] = chain[n][i]
    /\ chain'[n][Len(chain[n]) + 1].kind = kind

(* An appended record grows one chain.                                     *)
LEMMA ExtendedGrows ==
    ASSUME NodeTypes, NEW n \in Node, NEW kind \in Kind, chain' = Extended(n, kind)
    PROVE  GrownBy(n, kind) /\ \A m \in Node \ {n} : chain'[m] = chain[m]
<1>1. chain \in [Node -> Seq(Rec)] /\ faults["rollback"] \in Nat
  BY DEF NodeTypes, Fault
<1> DEFINE r == [kind |-> kind, life |-> faults["rollback"]]
<1>2. r \in Rec /\ r.kind = kind
  BY <1>1 DEF Rec
<1>3. chain'[n] = Append(chain[n], r) /\ \A m \in Node \ {n} : chain'[m] = chain[m]
  BY <1>1 DEF Extended
<1> HIDE DEF r
<1>4. /\ Len(chain'[n]) = Len(chain[n]) + 1
      /\ \A i \in 1..Len(chain[n]) : chain'[n][i] = chain[n][i]
      /\ chain'[n][Len(chain[n]) + 1] = r
  BY <1>1, <1>2, <1>3, AppendProperties
<1> QED
  BY <1>2, <1>3, <1>4 DEF GrownBy

(* The greatest of a bounded set of numbers is its bound, if that is there.*)
LEMMA MaxIsBound ==
    ASSUME NEW b \in Nat, NEW S, S \subseteq 0..b, S # {}
    PROVE  /\ Max(S) \in Nat /\ Max(S) <= b
           /\ b \in S => Max(S) = b
<1>1. PICK m : m = Max(S)
  OBVIOUS
<1>2. m \in S /\ \A y \in S : y <= m
  BY <1>1, MaxExists
<1>3. m \in Nat /\ m <= b
  BY <1>2
<1>4. ASSUME b \in S PROVE m = b
  <2>1. b <= m
    BY <1>2, <1>4
  <2> QED
    BY <1>3, <2>1
<1> QED
  BY <1>1, <1>3, <1>4

(* The last record of work is one, and nothing later is.                   *)
LEMMA HeadIsLast ==
    ASSUME NEW n \in Node, chain \in [Node -> Seq(Rec)]
    PROVE  /\ SubstantiveHead(n) \in Nat /\ SubstantiveHead(n) <= Len(chain[n])
           /\ Len(chain[n]) \in Nat
           /\ \A b \in Nat : Len(chain[n]) = b + 1 /\ chain[n][b + 1].kind = "WORK"
                => SubstantiveHead(n) = b + 1
<1> DEFINE S == {0} \union {i \in 1..Len(chain[n]) : chain[n][i].kind = "WORK"}
<1>1. Len(chain[n]) \in Nat /\ S \subseteq 0..Len(chain[n]) /\ S # {}
  OBVIOUS
<1>2. /\ Max(S) \in Nat /\ Max(S) <= Len(chain[n])
      /\ Len(chain[n]) \in S => Max(S) = Len(chain[n])
  <2> HIDE DEF S
  <2> QED
    BY <1>1, MaxIsBound
<1>3. SubstantiveHead(n) = Max(S)
  BY DEF SubstantiveHead
<1>4. ASSUME NEW b \in Nat, Len(chain[n]) = b + 1, chain[n][b + 1].kind = "WORK"
      PROVE  Len(chain[n]) \in S
  BY <1>4
<1> HIDE DEF S
<1> QED
  BY <1>1, <1>2, <1>3, <1>4

(* What growing does to the last record of work, and to the work.          *)
LEMMA GrowthIs ==
    ASSUME NEW n \in Node, chain \in [Node -> Seq(Rec)], chain' \in [Node -> Seq(Rec)],
           NEW kind, GrownBy(n, kind)
    PROVE  /\ kind = "WORK" => /\ SubstantiveHead(n)' = Len(chain[n]) + 1
                               /\ WorkOf(n)' = WorkOf(n) \union {Len(chain[n]) + 1}
           /\ kind # "WORK" => /\ SubstantiveHead(n)' = SubstantiveHead(n)
                               /\ WorkOf(n)' = WorkOf(n)
           /\ Len(chain[n]) + 1 \notin WorkOf(n)
<1>1. /\ Len(chain[n]) \in Nat /\ Len(chain'[n]) = Len(chain[n]) + 1
      /\ \A i \in 1..Len(chain[n]) : chain'[n][i] = chain[n][i]
      /\ chain'[n][Len(chain[n]) + 1].kind = kind
  BY DEF GrownBy
<1>2. Len(chain[n]) + 1 \notin WorkOf(n)
  BY <1>1 DEF WorkOf
<1>3. ASSUME kind = "WORK"
      PROVE  /\ SubstantiveHead(n)' = Len(chain[n]) + 1
             /\ WorkOf(n)' = WorkOf(n) \union {Len(chain[n]) + 1}
  <2>1. SubstantiveHead(n)' = Len(chain[n]) + 1
    <3> DEFINE S == {0} \union {i \in 1..Len(chain'[n]) : chain'[n][i].kind = "WORK"}
    <3>1. Len(chain'[n]) \in Nat /\ S \subseteq 0..Len(chain'[n]) /\ S # {}
      BY <1>1
    <3>2. Len(chain'[n]) \in S
      BY <1>1, <1>3
    <3>3. SubstantiveHead(n)' = Max(S)
      BY DEF SubstantiveHead
    <3> HIDE DEF S
    <3>4. Max(S) = Len(chain'[n])
      BY <3>1, <3>2, MaxIsBound
    <3> QED
      BY <1>1, <3>3, <3>4
  <2>2. WorkOf(n)' = WorkOf(n) \union {Len(chain[n]) + 1}
    BY <1>1, <1>3 DEF WorkOf
  <2> QED
    BY <2>1, <2>2
<1>4. ASSUME kind # "WORK"
      PROVE  SubstantiveHead(n)' = SubstantiveHead(n) /\ WorkOf(n)' = WorkOf(n)
  <2>1. WorkOf(n)' = WorkOf(n)
    BY <1>1, <1>4 DEF WorkOf
  <2>2. SubstantiveHead(n) = Max({0} \union WorkOf(n))
    BY DEF SubstantiveHead, WorkOf
  <2>3. SubstantiveHead(n)' = Max({0} \union WorkOf(n)')
    BY DEF SubstantiveHead, WorkOf
  <2> QED
    BY <2>1, <2>2, <2>3
<1> QED
  BY <1>2, <1>3, <1>4

(* A chain that did not change.                                            *)
LEMMA StillnessIs ==
    ASSUME NEW n \in Node, chain'[n] = chain[n]
    PROVE  SubstantiveHead(n)' = SubstantiveHead(n) /\ WorkOf(n)' = WorkOf(n)
BY DEF SubstantiveHead, WorkOf

(* Only work moves the last record of work.                                *)
LEMMA HeadMoves ==
    ASSUME NEW n \in Node, chain \in [Node -> Seq(Rec)], chain' \in [Node -> Seq(Rec)]
    PROVE  /\ GrownBy(n, "PEER_ROOT") \/ GrownBy(n, "ANCHOR_QUORUM") =>
                SubstantiveHead(n)' = SubstantiveHead(n) /\ Len(chain'[n]) = Len(chain[n]) + 1
           /\ GrownBy(n, "WORK") =>
                SubstantiveHead(n)' = Len(chain[n]) + 1 /\ Len(chain'[n]) = Len(chain[n]) + 1
<1>1. ASSUME NEW kind, GrownBy(n, kind)
      PROVE  /\ kind = "WORK" => SubstantiveHead(n)' = Len(chain[n]) + 1
             /\ kind # "WORK" => SubstantiveHead(n)' = SubstantiveHead(n)
  BY <1>1, GrowthIs
<1>2. \A kind : GrownBy(n, kind) => Len(chain'[n]) = Len(chain[n]) + 1
  BY DEF GrownBy
<1> QED
  BY <1>1, <1>2

(* What was signed stays on the chain.                                     *)
LEMMA OnChainLasts ==
    ASSUME NEW n \in Node, NEW e \in Root, OnChain(n, e), chain \in [Node -> Seq(Rec)],
           chain'[n] = chain[n] \/ \E kind : GrownBy(n, kind)
    PROVE  OnChain(n, e)'
<1>1. Len(chain[n]) \in Nat /\ e.count \in Nat /\ Len(e.root) \in Nat
  BY DEF Root
<1>2. CASE chain'[n] = chain[n]
  BY <1>2 DEF OnChain
<1>3. CASE \E kind : GrownBy(n, kind)
  BY <1>1, <1>3 DEF OnChain, GrownBy
<1> QED
  BY <1>2, <1>3

(* Unless it is rolled back, a chain only grows.                           *)
LEMMA ChainsGrow ==
    ASSUME StateTypes, [Next]_vars, faults'["rollback"] = 0
    PROVE  /\ faults["rollback"] = 0 /\ net' = net
           /\ chain \in [Node -> Seq(Rec)] /\ chain' \in [Node -> Seq(Rec)]
           /\ \A n \in Node : ~Rollback(n)
           /\ \/ chain' = chain
              \/ \E n \in Node, kind \in Kind : /\ GrownBy(n, kind)
                                                /\ \A m \in Node \ {n} : chain'[m] = chain[m]
<1>0. /\ NodeTypes /\ chain \in [Node -> Seq(Rec)] /\ chain' \in [Node -> Seq(Rec)]
      /\ faults \in [Fault -> Nat] /\ faults' \in [Fault -> Nat]
      /\ net' = net /\ faults'["rollback"] >= faults["rollback"] /\ "rollback" \in Fault
  BY NextIsStep, NodeTypesNext DEF StateTypes, NodeTypes, Fault
<1>1. faults["rollback"] = 0
  BY <1>0
<1>2. ASSUME NEW n \in Node, Rollback(n) PROVE FALSE
  <2>1. faults'["rollback"] = faults["rollback"] + 1
    BY <1>0, <1>2 DEF Rollback, Happens
  <2> QED
    BY <1>0, <2>1
<1>3. \/ chain' = chain
      \/ \E n \in Node, kind \in Kind : chain' = Extended(n, kind)
  <2>1. CASE UNCHANGED vars
    BY <2>1 DEF vars
  <2>2. ASSUME NEW n \in Node, NEW p \in Node, OwnStep(n, p)
        PROVE  chain' = chain \/ \E kind \in Kind : chain' = Extended(n, kind)
    <3>1. CASE RecordQuorum(n) \/ Work(n)
      BY <3>1 DEF RecordQuorum, Work, Kind
    <3>2. CASE ~RecordQuorum(n) /\ ~Work(n)
      BY <1>2, <2>2, <3>2 DEF OwnStep, PushStart, SignRoot, GiveUp, PushDone, Receipt,
         ReceiptRaises, Send, ProveLink, Crash
    <3> QED
      BY <3>1, <3>2
  <2>3. ASSUME NEW r \in requests, Answer(r) \/ Hold(r) PROVE chain' = chain
    BY <2>3 DEF Answer, Hold
  <2>4. ASSUME NEW r \in Request, HandlerStep(r)
        PROVE  chain' = chain \/ \E n \in Node, kind \in Kind : chain' = Extended(n, kind)
    BY <2>4 DEF HandlerStep, Persist, PersistRaises, WitnessPeerRoot, Request, Kind
  <2> QED
    BY <2>1, <2>2, <2>3, <2>4, NextIsStep
<1> QED
  BY <1>0, <1>1, <1>2, <1>3, ExtendedGrows

(* The funds only grow, and work and faults add to them.                   *)
LEMMA FundsGrow ==
    ASSUME StateTypes, [Next]_vars, faults'["rollback"] = 0, IsFiniteSet(AllWork)
    PROVE  /\ IsFiniteSet(AllWork)' /\ Funds \in Nat /\ Funds' \in Nat /\ Funds' >= Funds
           /\ \A n \in Node : GrownBy(n, "WORK") => Funds' >= Funds + 1
           /\ \A f \in Fault : Happens(f) => Funds' >= Funds + 1
<1>0. /\ chain \in [Node -> Seq(Rec)] /\ chain' \in [Node -> Seq(Rec)] /\ net' = net
      /\ faults \in [Fault -> Nat] /\ faults' \in [Fault -> Nat]
      /\ \A f \in Fault : faults'[f] >= faults[f]
  BY ChainsGrow, NodeTypesNext DEF StateTypes, NodeTypes
<1>1. /\ TotalFaults \in Nat /\ TotalFaults' \in Nat /\ TotalFaults' >= TotalFaults
      /\ \A f \in Fault : Happens(f) => TotalFaults' >= TotalFaults + 1
  <2>1. /\ \A f \in Fault : faults[f] \in Nat /\ faults'[f] \in Nat /\ faults'[f] >= faults[f]
        /\ "loss" \in Fault /\ "crash" \in Fault /\ "io" \in Fault /\ "rollback" \in Fault
    BY <1>0 DEF Fault
  <2>2. ASSUME NEW f \in Fault, Happens(f) PROVE faults'[f] >= faults[f] + 1
    BY <1>0, <2>1, <2>2 DEF Happens
  <2>3. ASSUME NEW f \in Fault, Happens(f) PROVE TotalFaults' >= TotalFaults + 1
    <3>1. f \in {"loss", "crash", "io", "rollback"} /\ faults'[f] >= faults[f] + 1
      BY <2>2, <2>3 DEF Fault
    <3> QED
      BY <2>1, <3>1 DEF TotalFaults
  <2> QED
    BY <2>1, <2>3 DEF TotalFaults
<1>2. Pushing \subseteq Node /\ Pushing' = Pushing /\ Cardinality(Pushing) \in Nat
  <2>1. Pushing \subseteq Node /\ Pushing' = Pushing
    BY <1>0 DEF StateTypes, NodeTypes, Net, Pushing
  <2> QED
    BY <2>1, PeersFinite
<1>3. Cardinality(AllWork) \in Nat
  BY FS_CardinalityType
<1>4. ASSUME \A m \in Node : WorkOf(m)' = WorkOf(m)
      PROVE  IsFiniteSet(AllWork)' /\ Cardinality(AllWork)' = Cardinality(AllWork)
  <2>1. AllWork' = AllWork
    BY <1>4 DEF AllWork
  <2> QED
    BY <2>1
<1>5. ASSUME NEW n \in Node, GrownBy(n, "WORK"), \A m \in Node \ {n} : chain'[m] = chain[m]
      PROVE  IsFiniteSet(AllWork)' /\ Cardinality(AllWork)' = Cardinality(AllWork) + 1
  <2> DEFINE w == <<n, Len(chain[n]) + 1>>
  <2>1. /\ WorkOf(n)' = WorkOf(n) \union {Len(chain[n]) + 1} /\ Len(chain[n]) + 1 \notin WorkOf(n)
        /\ \A m \in Node \ {n} : WorkOf(m)' = WorkOf(m)
    BY <1>0, <1>5, GrowthIs, StillnessIs
  <2>2. AllWork' = AllWork \union {w} /\ w \notin AllWork
    <3>1. \A x : x \in AllWork' <=> \E m \in Node : x \in {m} \X WorkOf(m)'
      BY DEF AllWork
    <3>2. \A x : x \in AllWork <=> \E m \in Node : x \in {m} \X WorkOf(m)
      BY DEF AllWork
    <3>3. {n} \X WorkOf(n)' = ({n} \X WorkOf(n)) \union {w}
      BY <2>1
    <3>4. \A m \in Node : w \notin {m} \X WorkOf(m)
      BY <2>1
    <3> HIDE DEF w
    <3>5. ASSUME NEW x PROVE x \in AllWork' <=> x \in AllWork \/ x = w
      BY <2>1, <3>1, <3>2, <3>3
    <3> QED
      BY <3>2, <3>4, <3>5
  <2> HIDE DEF w
  <2> QED
    BY <2>2, FS_AddElement
<1>6. \/ \A m \in Node : WorkOf(m)' = WorkOf(m)
      \/ \E n \in Node : GrownBy(n, "WORK") /\ \A m \in Node \ {n} : chain'[m] = chain[m]
  <2>1. CASE chain' = chain
    BY <2>1, StillnessIs
  <2>2. ASSUME NEW n \in Node, NEW kind \in Kind, GrownBy(n, kind), kind # "WORK",
               \A m \in Node \ {n} : chain'[m] = chain[m]
        PROVE  \A m \in Node : WorkOf(m)' = WorkOf(m)
    BY <1>0, <2>2, GrowthIs, StillnessIs
  <2> QED
    BY <2>1, <2>2, ChainsGrow
<1>7. IsFiniteSet(AllWork)' /\ Cardinality(AllWork)' \in Nat
      /\ Cardinality(AllWork)' >= Cardinality(AllWork)
  BY <1>3, <1>4, <1>5, <1>6
<1>8. ASSUME NEW n \in Node, GrownBy(n, "WORK")
      PROVE  Cardinality(AllWork)' = Cardinality(AllWork) + 1
  <2>1. WorkOf(n)' # WorkOf(n)
    BY <1>0, <1>8, GrowthIs
  <2> QED
    BY <1>5, <1>6, <2>1
<1> QED
  BY <1>1, <1>2, <1>3, <1>7, <1>8 DEF Funds

----------------------------------------------------------------------------
(* What a step does to one node's push and to its receipts.                *)

Kept(n) ==
    /\ receipts'[n] = receipts[n] /\ journal'[n] = journal[n]
    /\ covered'[n] = covered[n] /\ lastSub'[n] = lastSub[n]
Stays(n) == chain'[n] = chain[n] /\ Kept(n) /\ acks'[n] = acks[n]
Goes(n, from, to) == push[n].pc = from /\ push'[n].pc = to
SameRoot(n) == push'[n].env = push[n].env /\ push'[n].sub = push[n].sub
Paid == Funds' >= Funds + 1

(* Someone else's step: at most a peer's root is recorded.                 *)
Bystands(n) ==
    /\ push'[n] = push[n] /\ Kept(n) /\ acks'[n] = acks[n]
    /\ chain'[n] = chain[n] \/ (GrownBy(n, "PEER_ROOT") /\ push[n].pc # "reading")
Worked(n) ==
    push'[n] = push[n] /\ Kept(n) /\ acks'[n] = acks[n] /\ GrownBy(n, "WORK") /\ Paid
Started(n) ==
    /\ Stays(n) /\ Goes(n, "idle", "reading") /\ PushWanted(n)
    /\ push'[n].sub = SubstantiveHead(n) /\ push'[n].env.count = Len(chain[n])
Signed(n) ==
    /\ Stays(n) /\ Goes(n, "reading", "send") /\ push'[n].sub = push[n].sub
    /\ push'[n].env = [count |-> push[n].env.count, root |-> chain[n]]
    /\ push'[n].todo = Node \ {n}
Sent(n) ==
    /\ Stays(n) /\ Goes(n, "send", "wait") /\ SameRoot(n)
    /\ push'[n].todo \union push'[n].at = push[n].todo
GivenUp(n) ==
    /\ Stays(n) /\ push[n].pc \in {"wait", "prove"} /\ push'[n].pc = "send" /\ SameRoot(n)
    /\ push'[n].todo = push[n].todo
    /\ push[n].pc = "wait" => push[n].at \subseteq Unreachable \/ Paid
Finished(n) ==
    /\ chain'[n] = chain[n] /\ Goes(n, "send", "idle") /\ push[n].todo = {} /\ ~Anchors(n)
    /\ lastSub'[n] = push[n].sub
    /\ receipts'[n] = receipts[n] /\ journal'[n] = journal[n] /\ covered'[n] = covered[n]
Receipted(n) ==
    /\ chain'[n] = chain[n] /\ Goes(n, "send", "record") /\ SameRoot(n) /\ Anchors(n)
    /\ receipts'[n] = receipts[n] \union {push[n].env.count}
    /\ journal'[n] = journal[n] \union {push[n].env.count} /\ covered'[n] = covered[n]
Raised(n) ==
    /\ chain'[n] = chain[n] /\ Goes(n, "send", "idle") /\ Anchors(n)
    /\ receipts'[n] = receipts[n] \union {push[n].env.count}
    /\ journal'[n] = journal[n] /\ covered'[n] = covered[n] /\ Paid
Recorded(n) ==
    /\ GrownBy(n, "ANCHOR_QUORUM") /\ Goes(n, "record", "idle")
    /\ covered'[n] = push[n].env.count /\ lastSub'[n] = push[n].sub
    /\ receipts'[n] = receipts[n] /\ journal'[n] = journal[n]
Restarted(n) ==
    /\ chain'[n] = chain[n] /\ push'[n].pc = "idle" /\ Paid
    /\ receipts'[n] = journal[n] /\ journal'[n] = journal[n] /\ covered'[n] = Restored(n)

(* A request of n's is answered: acknowledged, or refused by a peer that   *)
(* has a root of n's that is no older, or ended by a fault.                *)
Refused(n) ==
    \E p \in Node : \E f \in held[p][n] : f # push[n].env /\ f.count >= push[n].env.count
Answered(n) ==
    /\ chain'[n] = chain[n] /\ Kept(n) /\ SameRoot(n)
    /\ push[n].pc = "wait" /\ push'[n].pc \in {"send", "prove"}
    /\ push'[n].todo = push[n].todo
    /\ \/ \E p \in Node : /\ push[n].at = {p}
                          /\ acks'[n] = acks[n] \union {[env |-> push[n].env, by |-> p]}
       \/ acks'[n] = acks[n] /\ (Paid \/ Refused(n))

OwnMove(n) ==
    \/ Started(n) \/ Signed(n) \/ Sent(n) \/ GivenUp(n) \/ Finished(n) \/ Receipted(n)
    \/ Raised(n) \/ Recorded(n) \/ Restarted(n)

(* The loop's steps, as what becomes of its place.                         *)
LEMMA OwnMoves ==
    ASSUME StateTypes, JournalTypes, [Next]_vars, faults'["rollback"] = 0, IsFiniteSet(AllWork),
           NEW n \in Node, NEW p \in Node, OwnStep(n, p)
    PROVE  /\ \A m \in Node \ {n} : Bystands(m)
           /\ Worked(n) \/ OwnMove(n)
           /\ Signed(n) => n \in Pushing
<1>0. /\ push \in [Node -> Push] /\ push[n] \in Push /\ push[n].env \in Root
      /\ acks \in [Node -> SUBSET Ack] /\ NodeTypes
      /\ chain \in [Node -> Seq(Rec)] /\ ~Rollback(n)
      /\ "loss" \in Fault /\ "crash" \in Fault /\ "io" \in Fault
      /\ \A f \in Fault : Happens(f) => Paid
  BY ChainsGrow, FundsGrow DEF StateTypes, PushTypes, AckTypes, NodeTypes, Push, Fault, Paid
<1>1. ASSUME NEW v, Moved(n, v)
      PROVE  push'[n] = v /\ \A m \in Node \ {n} : push'[m] = push[m]
  BY <1>0, <1>1 DEF Moved
<1>2. \A m \in Node \ {n} : Kept(m) /\ acks'[m] = acks[m] /\ push'[m] = push[m]
  <2>1. \A m \in Node \ {n} : push'[m] = push[m]
    BY <1>0 DEF OwnStep, PushStart, SignRoot, GiveUp, PushDone, Receipt, ReceiptRaises, RecordQuorum,
       Send, ProveLink, Crash, Work, Reboot, Completed
  <2>2. \A m \in Node \ {n} : Kept(m) /\ acks'[m] = acks[m]
    BY <1>0 DEF OwnStep, PushStart, SignRoot, GiveUp, PushDone, Receipt, ReceiptRaises, RecordQuorum,
       Send, ProveLink, Crash, Work, Reboot, Completed, origin, Kept, JournalTypes
  <2> QED
    BY <2>1, <2>2
<1>3. ASSUME RecordQuorum(n)
      PROVE  (\A m \in Node \ {n} : Bystands(m)) /\ (Worked(n) \/ OwnMove(n))
  <2>1. chain' = Extended(n, "ANCHOR_QUORUM") /\ "ANCHOR_QUORUM" \in Kind
    BY <1>3 DEF RecordQuorum, Kind
  <2>2. GrownBy(n, "ANCHOR_QUORUM") /\ \A m \in Node \ {n} : chain'[m] = chain[m]
    BY <1>0, <2>1, ExtendedGrows
  <2>3. push'[n] = NoPush
    BY <1>1, <1>3, PushMoves
  <2>4. Recorded(n)
    BY <1>3, <2>2, <2>3 DEF RecordQuorum, Completed, Recorded, Goes, NoPush, JournalTypes
  <2> QED
    BY <1>2, <2>2, <2>4 DEF Bystands, OwnMove
<1>4. ASSUME Work(n)
      PROVE  (\A m \in Node \ {n} : Bystands(m)) /\ (Worked(n) \/ OwnMove(n))
  <2>1. chain' = Extended(n, "WORK") /\ "WORK" \in Kind
    BY <1>4 DEF Work, Kind
  <2>2. GrownBy(n, "WORK") /\ \A m \in Node \ {n} : chain'[m] = chain[m]
    BY <1>0, <2>1, ExtendedGrows
  <2>3. Paid
    BY <2>2, FundsGrow DEF Paid
  <2>4. Worked(n)
    BY <1>4, <2>2, <2>3 DEF Work, Worked, Kept, origin
  <2> QED
    BY <1>2, <2>2, <2>4 DEF Bystands
<1>5. ASSUME ~RecordQuorum(n) /\ ~Work(n)
      PROVE  (\A m \in Node \ {n} : Bystands(m)) /\ (Worked(n) \/ OwnMove(n))
  <2>0. chain' = chain
    BY <1>0, <1>5 DEF OwnStep, PushStart, SignRoot, GiveUp, PushDone, Receipt, ReceiptRaises,
       Send, ProveLink, Crash
  <2>1. ASSUME PushStart(n) PROVE OwnMove(n)
    <3>1. push'[n] = [NoPush EXCEPT !.pc = "reading", !.sub = SubstantiveHead(n),
                                    !.env = [NoRoot EXCEPT !.count = Len(chain[n])]]
      BY <1>1, <2>1, PushMoves
    <3>2. /\ push'[n].pc = "reading" /\ push'[n].sub = SubstantiveHead(n)
          /\ push'[n].env.count = Len(chain[n])
      BY <3>1 DEF NoPush, NoRoot
    <3>3. Started(n)
      BY <2>0, <2>1, <3>2 DEF PushStart, Started, Stays, Kept, Goes, origin
    <3> QED
      BY <3>3 DEF OwnMove
  <2>2. ASSUME SignRoot(n) PROVE OwnMove(n)
    <3>1. push'[n] = [push[n] EXCEPT !.pc = "send", !.env = [push[n].env EXCEPT !.root = chain[n]],
                                     !.todo = Node \ {n}]
      BY <1>1, <2>2, PushMoves
    <3>2. /\ push'[n].pc = "send" /\ push'[n].sub = push[n].sub /\ push'[n].todo = Node \ {n}
          /\ push'[n].env = [push[n].env EXCEPT !.root = chain[n]]
      BY <1>0, <3>1 DEF Push
    <3>3. push'[n].env = [count |-> push[n].env.count, root |-> chain[n]]
      BY <1>0, <3>2 DEF Root
    <3>4. Signed(n)
      BY <2>0, <2>2, <3>2, <3>3 DEF SignRoot, Signed, Stays, Kept, Goes, origin
    <3> QED
      BY <3>4 DEF OwnMove
  <2>3. ASSUME Send(n, p) PROVE OwnMove(n)
    <3>1. push'[n] = [push[n] EXCEPT !.pc = "wait", !.todo = push[n].todo \ {p}, !.at = {p},
                                     !.try = TotalFaults]
      BY <1>1, <2>3, PushMoves
    <3>2. /\ push'[n].pc = "wait" /\ push'[n].todo = push[n].todo \ {p} /\ push'[n].at = {p}
          /\ SameRoot(n)
      BY <1>0, <3>1 DEF Push, SameRoot
    <3>3. Sent(n)
      BY <2>0, <2>3, <3>2 DEF Send, Sent, Stays, Kept, Goes, origin
    <3> QED
      BY <3>3 DEF OwnMove
  <2>4. ASSUME GiveUp(n) \/ ProveLink(n, p) PROVE OwnMove(n)
    <3>1. push'[n] = [push[n] EXCEPT !.pc = "send", !.at = {}, !.old = 0]
      BY <1>1, <2>4, PushMoves
    <3>2. push'[n].pc = "send" /\ push'[n].todo = push[n].todo /\ SameRoot(n)
      BY <1>0, <3>1 DEF Push, SameRoot
    <3>3. /\ push[n].pc \in {"wait", "prove"}
          /\ push[n].pc = "wait" => push[n].at \subseteq Unreachable \/ Paid
      BY <1>0, <2>4 DEF GiveUp, ProveLink
    <3>4. GivenUp(n)
      BY <2>0, <2>4, <3>2, <3>3 DEF GiveUp, ProveLink, GivenUp, Stays, Kept, origin
    <3> QED
      BY <3>4 DEF OwnMove
  <2>5. ASSUME PushDone(n) PROVE OwnMove(n)
    <3>1. push'[n] = NoPush
      BY <1>1, <2>5, PushMoves
    <3>2. Finished(n)
      BY <2>0, <2>5, <3>1 DEF PushDone, Completed, Finished, Goes, NoPush, JournalTypes
    <3> QED
      BY <3>2 DEF OwnMove
  <2>6. ASSUME Receipt(n) PROVE OwnMove(n)
    <3>1. push'[n] = [push[n] EXCEPT !.pc = "record"]
      BY <1>1, <2>6, PushMoves
    <3>2. push'[n].pc = "record" /\ SameRoot(n)
      BY <1>0, <3>1 DEF Push, SameRoot
    <3>3. Receipted(n)
      BY <2>0, <2>6, <3>2 DEF Receipt, Receipted, Goes, JournalTypes
    <3> QED
      BY <3>3 DEF OwnMove
  <2>7. ASSUME ReceiptRaises(n) PROVE OwnMove(n)
    <3>1. push'[n] = NoPush
      BY <1>1, <2>7, PushMoves
    <3>2. Raised(n)
      BY <1>0, <2>0, <2>7, <3>1 DEF ReceiptRaises, Raised, Goes, NoPush, JournalTypes
    <3> QED
      BY <3>2 DEF OwnMove
  <2>8. ASSUME Crash(n) PROVE OwnMove(n)
    <3>1. push'[n] = NoPush
      BY <1>1, <2>8, PushMoves DEF Crash
    <3>2. Restarted(n)
      BY <1>0, <2>0, <2>8, <3>1 DEF Crash, Reboot, Restarted, NoPush, JournalTypes
    <3> QED
      BY <3>2 DEF OwnMove
  <2>9. OwnMove(n)
    BY <1>0, <1>5, <2>1, <2>2, <2>3, <2>4, <2>5, <2>6, <2>7, <2>8 DEF OwnStep
  <2> QED
    BY <1>2, <2>0, <2>9 DEF Bystands
<1>6. Signed(n) => n \in Pushing
  <2>1. CASE Crash(n)
    <3>1. push'[n] = NoPush
      BY <1>1, <2>1, PushMoves DEF Crash
    <3> QED
      BY <3>1 DEF Signed, Goes, NoPush
  <2> QED
    BY <2>1 DEF OwnStep
<1> QED
  BY <1>3, <1>4, <1>5, <1>6

(* A root is refused only by a peer with one that is no older.             *)
LEMMA RefusedIs ==
    ASSUME StoreTypes, NEW p \in Node, NEW n \in Node, NEW e \in Root,
           Outcome(p, n, e) \notin {"stored", "duplicate"}
    PROVE  \E f \in held[p][n] : f # e /\ f.count >= e.count
<1> DEFINE H == HeldAt(p, n, e.count)
<1>0. held[p][n] \subseteq Root /\ e.count \in Nat /\ \A f \in held[p][n] : f.count \in Nat
  BY DEF StoreTypes, Root
<1>1. H # {e}
  BY DEF Outcome
<1>2. CASE H # {}
  <2>1. PICK f \in H : f # e
    BY <1>1, <1>2
  <2>2. f \in held[p][n] /\ f.count = e.count
    BY <2>1 DEF HeldAt
  <2>3. f.count >= e.count
    BY <1>0, <2>2
  <2> QED
    BY <2>1, <2>2, <2>3
<1>3. CASE H = {}
  <2>1. Stale(p, n, e.count)
    BY <1>3 DEF Outcome
  <2>2. PICK f \in held[p][n] : f.count > e.count
    BY <2>1 DEF Stale
  <2>3. f # e /\ f.count >= e.count
    BY <1>0, <2>2
  <2> QED
    BY <2>3
<1> QED
  BY <1>2, <1>3

(* A response, as what becomes of the place it is for.                     *)
LEMMA RespondMoves ==
    ASSUME StateTypes, NEW r \in Request, NEW acked \in BOOLEAN, NEW wanted \in Nat,
           Respond(r, acked, wanted), chain'[r.from] = chain[r.from],
           UNCHANGED <<receipts, journal, covered, lastSub>>,
           acked \/ Paid \/ \E f \in held[r.to][r.from] : f # r.env /\ f.count >= r.env.count
    PROVE  /\ \A m \in Node \ {r.from} : push'[m] = push[m] /\ acks'[m] = acks[m]
           /\ \/ push'[r.from] = push[r.from] /\ acks'[r.from] = acks[r.from]
              \/ Answered(r.from)
<1> DEFINE n == r.from
<1>0. /\ push \in [Node -> Push] /\ n \in Node /\ r.to \in Node /\ push[n] \in Push
      /\ acks \in [Node -> SUBSET Ack]
  BY DEF StateTypes, PushTypes, AckTypes, Request
<1>1. CASE UNCHANGED <<acks, push>>
  BY <1>1
<1>2. CASE ~UNCHANGED <<acks, push>>
  <2>1. PICK v : v = [push[r.from] EXCEPT !.pc = IF wanted > 0 THEN "prove" ELSE "send",
                          !.old = wanted, !.at = IF wanted > 0 THEN {r.to} ELSE {}]
    OBVIOUS
  <2>2. /\ Waiting(r) /\ Moved(n, v)
        /\ acks' = [acks EXCEPT ![n] =
                      IF acked THEN @ \union {[env |-> r.env, by |-> r.to]} ELSE @]
    BY <1>2, <2>1, ResponseMoves
  <2>3. push'[n] = v /\ \A m \in Node \ {n} : push'[m] = push[m] /\ acks'[m] = acks[m]
    BY <1>0, <2>2 DEF Moved
  <2>4. v.pc \in {"send", "prove"} /\ v.env = push[n].env /\ v.sub = push[n].sub
        /\ v.todo = push[n].todo
    BY <1>0, <2>1 DEF Push
  <2>5. push[n].pc = "wait" /\ push[n].at = {r.to} /\ push[n].env = r.env
    BY <2>2 DEF Waiting
  <2>6. \/ \E p \in Node : /\ push[n].at = {p}
                           /\ acks'[n] = acks[n] \union {[env |-> push[n].env, by |-> p]}
        \/ acks'[n] = acks[n] /\ (Paid \/ Refused(n))
    <3>1. CASE acked
      BY <1>0, <2>2, <2>5, <3>1
    <3>2. CASE ~acked
      <4>1. acks'[n] = acks[n]
        BY <1>0, <2>2, <3>2
      <4>2. Paid \/ Refused(n)
        BY <1>0, <2>5, <3>2 DEF Refused
      <4> QED
        BY <4>1, <4>2
    <3> QED
      BY <3>1, <3>2
  <2>7. Answered(n)
    BY <2>3, <2>4, <2>5, <2>6 DEF Answered, SameRoot, Kept
  <2> QED
    BY <2>3, <2>7
<1> QED
  BY <1>1, <1>2

(* A request's steps, as what they do to the places of the nodes.          *)
LEMMA RequestMoves ==
    ASSUME StateTypes, [Next]_vars, faults'["rollback"] = 0, IsFiniteSet(AllWork),
           NEW r \in Request, (r \in requests /\ (Answer(r) \/ Hold(r))) \/ HandlerStep(r)
    PROVE  \/ \A m \in Node : Bystands(m)
           \/ \E n \in Node : (\A m \in Node \ {n} : Bystands(m)) /\ Answered(n)
<1>0. StoreTypes /\ NodeTypes /\ \A f \in Fault : Happens(f) => Paid
  BY FundsGrow DEF StateTypes, Paid
<1>1. CASE r \in requests /\ (Answer(r) \/ Hold(r))
  <2>0. r \in Request /\ r.from \in Node /\ r.to \in Node /\ r.env \in Root
    BY DEF StateTypes, MessageTypes, Request
  <2>1. CASE Hold(r)
    BY <2>1 DEF Hold, origin, Bystands, Kept
  <2>2. CASE Answer(r)
    <3>1. UNCHANGED <<chain, receipts, journal, covered, lastSub>>
      BY <2>2 DEF Answer
    <3>2. \A m \in Node : Kept(m) /\ chain'[m] = chain[m]
      BY <3>1 DEF Kept
    <3>3. /\ \A m \in Node \ {r.from} : push'[m] = push[m] /\ acks'[m] = acks[m]
          /\ \/ push'[r.from] = push[r.from] /\ acks'[r.from] = acks[r.from]
             \/ Answered(r.from)
      <4>1. CASE Outcome(r.to, r.from, r.env) = "duplicate"
        <5>1. Respond(r, TRUE, Wanted(r.to, r.from)) /\ Wanted(r.to, r.from) \in Nat
          BY <1>0, <2>0, <2>2, <4>1, WantedIs DEF Answer
        <5> QED
          BY <2>0, <3>1, <3>2, <5>1, RespondMoves
      <4>2. CASE Outcome(r.to, r.from, r.env) # "duplicate"
        <5>1. Respond(r, FALSE, 0) /\ Outcome(r.to, r.from, r.env) # "stored"
          BY <2>2, <4>2 DEF Answer
        <5>2. \E f \in held[r.to][r.from] : f # r.env /\ f.count >= r.env.count
          BY <1>0, <2>0, <4>2, <5>1, RefusedIs
        <5>3. PICK w \in Nat : w = 0
          OBVIOUS
        <5>4. Respond(r, FALSE, w)
          BY <5>1, <5>3
        <5> QED
          BY <2>0, <3>1, <3>2, <5>2, <5>4, RespondMoves
      <4> QED
        BY <4>1, <4>2
    <3> QED
      BY <2>0, <3>2, <3>3 DEF Bystands
  <2> QED
    BY <1>1, <2>1, <2>2
<1>2. CASE HandlerStep(r)
  <2>0. r.from \in Node /\ r.to \in Node /\ r.from # r.to
    BY <1>2 DEF HandlerStep, Request
  <2>1. CASE Persist(r)
    BY <2>1 DEF Persist, origin, Bystands, Kept
  <2>2. CASE PersistRaises(r)
    <3>1. UNCHANGED <<receipts, journal, covered, lastSub>> /\ Respond(r, FALSE, 0) /\ chain' = chain
      BY <2>2 DEF PersistRaises
    <3>2. Paid
      BY <1>0, <2>2 DEF PersistRaises, Fault
    <3>3. /\ \A m \in Node \ {r.from} : push'[m] = push[m] /\ acks'[m] = acks[m]
          /\ \/ push'[r.from] = push[r.from] /\ acks'[r.from] = acks[r.from]
             \/ Answered(r.from)
      <4>1. PICK w \in Nat : w = 0
        OBVIOUS
      <4>2. Respond(r, FALSE, w) /\ chain'[r.from] = chain[r.from]
        BY <3>1, <4>1
      <4> QED
        BY <3>1, <3>2, <4>2, RespondMoves
    <3> QED
      BY <2>0, <3>1, <3>3 DEF Bystands, Kept
  <2>3. CASE WitnessPeerRoot(r)
    <3>1. /\ UNCHANGED <<receipts, journal, covered, lastSub>>
          /\ Respond(r, TRUE, Wanted(r.to, r.from)) /\ push[r.to].pc # "reading"
          /\ chain' = Extended(r.to, "PEER_ROOT") /\ "PEER_ROOT" \in Kind
      BY <2>3 DEF WitnessPeerRoot, NodeLockFree, Kind
    <3>2. GrownBy(r.to, "PEER_ROOT") /\ \A m \in Node \ {r.to} : chain'[m] = chain[m]
      BY <1>0, <2>0, <3>1, ExtendedGrows
    <3>3. Wanted(r.to, r.from) \in Nat
      BY <1>0, <2>0, WantedIs
    <3>4. /\ \A m \in Node \ {r.from} : push'[m] = push[m] /\ acks'[m] = acks[m]
          /\ \/ push'[r.from] = push[r.from] /\ acks'[r.from] = acks[r.from]
             \/ Answered(r.from)
      BY <2>0, <3>1, <3>2, <3>3, RespondMoves
    <3> QED
      BY <2>0, <3>1, <3>2, <3>4 DEF Bystands, Kept
  <2> QED
    BY <1>2, <2>1, <2>2, <2>3 DEF HandlerStep
<1> QED
  BY <1>1, <1>2

(* Every step, as what it does to the places of the nodes.                 *)
LEMMA NodeMoves ==
    ASSUME StateTypes, JournalTypes, [Next]_vars, faults'["rollback"] = 0, IsFiniteSet(AllWork)
    PROVE  \/ \A m \in Node : Bystands(m)
           \/ \E n \in Node : /\ \A m \in Node \ {n} : Bystands(m)
                              /\ Worked(n) \/ Answered(n) \/ OwnMove(n)
                              /\ Signed(n) => n \in Pushing
<1>1. CASE UNCHANGED vars
  BY <1>1 DEF vars, origin, Bystands, Kept
<1>2. CASE \E n, p \in Node : OwnStep(n, p)
  BY <1>2, OwnMoves
<1>3. ASSUME NEW r \in requests, Answer(r) \/ Hold(r)
      PROVE  \/ \A m \in Node : Bystands(m)
             \/ \E n \in Node : (\A m \in Node \ {n} : Bystands(m)) /\ Answered(n)
  <2>1. r \in Request
    BY DEF StateTypes, MessageTypes
  <2> QED
    BY <1>3, <2>1, RequestMoves
<1>4. ASSUME NEW r \in Request, HandlerStep(r)
      PROVE  \/ \A m \in Node : Bystands(m)
             \/ \E n \in Node : (\A m \in Node \ {n} : Bystands(m)) /\ Answered(n)
  BY <1>4, RequestMoves
<1>5. \A n \in Node : Answered(n) => ~Signed(n)
  BY DEF Answered, Signed, Goes
<1>6. \/ UNCHANGED vars
      \/ \E n, p \in Node : OwnStep(n, p)
      \/ \E r \in requests : Answer(r) \/ Hold(r)
      \/ \E r \in Request : HandlerStep(r)
  BY NextIsStep
<1> QED
  BY <1>1, <1>2, <1>3, <1>4, <1>5, <1>6

----------------------------------------------------------------------------
(* Receipts, and what is pushed.                                           *)

(* The types of what is kept of receipts.                                  *)
LEMMA JournalTypesNext ==
    ASSUME StateTypes, JournalTypes, [Next]_vars
    PROVE  JournalTypes'
<1>0. /\ receipts \in [Node -> SUBSET Nat] /\ journal \in [Node -> SUBSET Nat]
      /\ covered = [n \in Node |-> covered[n]] /\ lastSub = [n \in Node |-> lastSub[n]]
      /\ \A n \in Node : push[n].env.count \in Nat
  BY DEF JournalTypes, StateTypes, PushTypes, Push, Root
<1>1. CASE UNCHANGED <<receipts, journal, covered, lastSub>>
  BY <1>0, <1>1 DEF JournalTypes
<1>2. ASSUME NEW n \in Node, NEW p \in Node, OwnStep(n, p) PROVE JournalTypes'
  <2>1. CASE Receipt(n) \/ ReceiptRaises(n)
    <3>1. /\ receipts' = [receipts EXCEPT ![n] = @ \union {push[n].env.count}]
          /\ journal' = journal \/ journal' = [journal EXCEPT ![n] = @ \union {push[n].env.count}]
          /\ UNCHANGED <<covered, lastSub>>
      BY <2>1 DEF Receipt, ReceiptRaises
    <3> QED
      BY <1>0, <3>1 DEF JournalTypes
  <2>2. CASE PushDone(n) \/ RecordQuorum(n)
    <3>1. /\ UNCHANGED <<receipts, journal>>
          /\ lastSub' = [lastSub EXCEPT ![n] = push[n].sub]
          /\ covered' = covered \/ covered' = [covered EXCEPT ![n] = push[n].env.count]
      BY <2>2 DEF PushDone, RecordQuorum, Completed
    <3>2. /\ lastSub' = [m \in Node |-> lastSub'[m]] /\ covered' = [m \in Node |-> covered'[m]]
      BY <1>0, <3>1
    <3> QED
      BY <1>0, <3>1, <3>2 DEF JournalTypes
  <2>3. CASE Crash(n) \/ Rollback(n)
    <3>1. /\ receipts' = [receipts EXCEPT ![n] = journal[n]] /\ journal' = journal
          /\ lastSub' = [lastSub EXCEPT ![n] = 0] /\ covered' = [covered EXCEPT ![n] = Restored(n)]
      BY <2>3 DEF Crash, Rollback, Reboot
    <3>2. /\ lastSub' = [m \in Node |-> lastSub'[m]] /\ covered' = [m \in Node |-> covered'[m]]
      BY <1>0, <3>1
    <3> QED
      BY <1>0, <3>1, <3>2 DEF JournalTypes
  <2>4. CASE ~(Receipt(n) \/ ReceiptRaises(n) \/ PushDone(n) \/ RecordQuorum(n) \/ Crash(n) \/ Rollback(n))
    BY <1>1, <1>2, <2>4 DEF OwnStep, PushStart, SignRoot, GiveUp, Send, ProveLink, Work, origin
  <2> QED
    BY <2>1, <2>2, <2>3, <2>4
<1>3. CASE UNCHANGED vars
  BY <1>1, <1>3 DEF vars, origin
<1>4. ASSUME NEW r \in requests, Answer(r) \/ Hold(r) PROVE JournalTypes'
  BY <1>1, <1>4 DEF Answer, Hold, origin
<1>5. ASSUME NEW r \in Request, HandlerStep(r) PROVE JournalTypes'
  BY <1>1, <1>5 DEF HandlerStep, Persist, PersistRaises, WitnessPeerRoot, origin
<1> QED
  BY <1>2, <1>3, <1>4, <1>5, NextIsStep

(* A chain that grows by something else holds no more quorum records.      *)
LEMMA ReceiptsNext ==
    ASSUME StateTypes, NEW n \in Node, ReceiptsKept(n),
           Bystands(n) \/ Worked(n) \/ Answered(n) \/ OwnMove(n)
    PROVE  ReceiptsKept(n)'
<1> DEFINE Clean == \A i \in 1..Len(chain[n]) : chain[n][i].kind # "ANCHOR_QUORUM"
<1>0. /\ Len(chain[n]) \in Nat
      /\ journal[n] \subseteq receipts[n] /\ (receipts[n] = {} => covered[n] = 0)
      /\ (journal[n] = {} => Clean)
      /\ (push[n].pc = "record" => push[n].env.count \in journal[n])
  BY DEF StateTypes, NodeTypes, ReceiptsKept
<1>1. ASSUME Clean, \/ chain'[n] = chain[n]
                    \/ \E kind : kind # "ANCHOR_QUORUM" /\ GrownBy(n, kind)
      PROVE  Clean'
  <2>1. CASE chain'[n] = chain[n]
    BY <1>1, <2>1
  <2>2. CASE \E kind : kind # "ANCHOR_QUORUM" /\ GrownBy(n, kind)
    BY <1>0, <1>1, <2>2 DEF GrownBy
  <2> QED
    BY <1>1, <2>1, <2>2
<1>2. CASE Bystands(n) \/ Worked(n)
  <2>1. /\ push'[n] = push[n] /\ Kept(n)
        /\ chain'[n] = chain[n] \/ GrownBy(n, "PEER_ROOT") \/ GrownBy(n, "WORK")
    BY <1>2 DEF Bystands, Worked
  <2>2. Clean => Clean'
    BY <1>1, <2>1
  <2> HIDE DEF Clean
  <2>3. journal'[n] = {} => Clean'
    BY <1>0, <2>1, <2>2 DEF Kept
  <2> QED
    BY <1>0, <2>1, <2>3 DEF Kept, ReceiptsKept, Clean
<1>3. CASE chain'[n] = chain[n] /\ Kept(n) /\ push'[n].pc # "record"
  BY <1>0, <1>3 DEF Kept, ReceiptsKept
<1>4. CASE Finished(n) \/ Raised(n)
  BY <1>0, <1>4 DEF Finished, Raised, ReceiptsKept, Goes
<1>5. CASE Receipted(n)
  <2>1. /\ journal'[n] # {} /\ receipts'[n] # {} /\ journal'[n] \subseteq receipts'[n]
        /\ push'[n].env.count \in journal'[n]
    BY <1>0, <1>5 DEF Receipted, SameRoot
  <2> QED
    BY <2>1 DEF ReceiptsKept
<1>6. CASE Recorded(n)
  <2>1. /\ journal'[n] = journal[n] /\ receipts'[n] = receipts[n] /\ push[n].env.count \in journal[n]
        /\ push'[n].pc = "idle"
    BY <1>0, <1>6 DEF Recorded, Goes
  <2> QED
    BY <1>0, <2>1 DEF ReceiptsKept
<1>7. CASE Restarted(n)
  <2>1. /\ journal'[n] = journal[n] /\ receipts'[n] = journal[n] /\ push'[n].pc = "idle"
        /\ chain'[n] = chain[n] /\ covered'[n] = Restored(n)
    BY <1>7 DEF Restarted
  <2>2. ASSUME journal[n] = {} PROVE Restored(n) = 0
    <3>1. Restored(n) = Max({0})
      BY <2>2 DEF Restored
    <3>2. {0} \subseteq 0..0 /\ {0} # {} /\ 0 \in {0} /\ 0 \in Nat
      OBVIOUS
    <3>3. Max({0}) = 0
      BY <3>2, MaxIsBound
    <3> QED
      BY <3>1, <3>3
  <2> QED
    BY <1>0, <2>1, <2>2 DEF ReceiptsKept
<1>8. CASE Answered(n) \/ Started(n) \/ Signed(n) \/ Sent(n) \/ GivenUp(n)
  BY <1>3, <1>8 DEF Answered, Started, Signed, Sent, GivenUp, Stays, Goes
<1> QED
  BY <1>2, <1>4, <1>5, <1>6, <1>7, <1>8 DEF OwnMove

(* The history, after a step.                                              *)
Later(D) == D \union {<<m, push'[m].env>> : m \in {k \in Node : Signed(k)}}

(* What is in it.                                                          *)
LEMMA LaterIs ==
    ASSUME NEW D, NEW n
    PROVE  /\ D \subseteq Later(D)
           /\ \A e : <<n, e>> \in Later(D) <=>
                       <<n, e>> \in D \/ (n \in Node /\ Signed(n) /\ e = push'[n].env)
BY DEF Later

(* A root signed without work since is newer than all before it.           *)
LEMMA SignedIsFresh ==
    ASSUME StateTypes, NEW n \in Node, NEW D, Signed(n), PushSigned(D, n),
           SubstantiveHead(n) = push[n].sub, \A e \in Root : <<n, e>> \in D => OnChain(n, e)
    PROVE  Freshest(Later(D), n, push'[n].env)
<1> DEFINE f == push'[n].env
<1>0. /\ chain[n] \in Seq(Rec) /\ Len(chain[n]) \in Nat
      /\ f.count = Len(chain[n]) /\ f.root = chain[n]
      /\ f = [count |-> Len(chain[n]), root |-> chain[n]]
  BY DEF StateTypes, NodeTypes, Signed, PushSigned, Goes
<1> HIDE DEF f
<1>1. ASSUME NEW e \in Root, <<n, e>> \in D PROVE e = f \/ e.count < f.count
  <2>1. /\ e.root \in Seq(Rec) /\ e.count \in Nat /\ Len(e.root) \in Nat
        /\ e = [count |-> e.count, root |-> e.root]
    BY DEF Root
  <2>2. /\ e.count <= Len(e.root) /\ Len(e.root) <= Len(chain[n])
        /\ \A i \in 1..Len(e.root) : e.root[i] = chain[n][i]
    BY <1>1 DEF OnChain
  <2>3. CASE e.count = Len(chain[n])
    <3>1. Len(e.root) = Len(chain[n])
      BY <1>0, <2>1, <2>2, <2>3
    <3>2. e.root = chain[n]
      BY <1>0, <2>1, <2>2, <3>1, SeqEqual
    <3> QED
      BY <1>0, <2>1, <2>3, <3>2
  <2>4. CASE e.count # Len(chain[n])
    BY <1>0, <2>1, <2>2, <2>4
  <2> QED
    BY <2>3, <2>4
<1> QED
  BY <1>1, LaterIs DEF Freshest, f

(* What a node pushes stays signed, and newest until there is work.        *)
LEMMA PushSignedNext ==
    ASSUME StateTypes, NEW n \in Node, NEW D, NEW D1, D1 = Later(D), PushSigned(D, n),
           push' \in [Node -> Push], chain' \in [Node -> Seq(Rec)],
           \A e \in Root : <<n, e>> \in D => OnChain(n, e),
           Bystands(n) \/ Worked(n) \/ Answered(n) \/ OwnMove(n)
    PROVE  PushSigned(D1, n)'
<1>0. /\ chain \in [Node -> Seq(Rec)] /\ push[n] \in Push /\ push'[n] \in Push
      /\ push[n].sub \in Nat /\ push[n].env \in Root /\ push[n].env.count \in Nat
      /\ Len(chain[n]) \in Nat /\ SubstantiveHead(n) \in Nat /\ SubstantiveHead(n) <= Len(chain[n])
  BY HeadIsLast DEF StateTypes, NodeTypes, PushTypes, Push, Root
<1>2. SUFFICES ASSUME push'[n].pc # "idle"
               PROVE  /\ push'[n].sub <= Len(chain'[n])
                      /\ push'[n].pc = "reading" =>
                           /\ push'[n].env.count <= Len(chain'[n])
                           /\ SubstantiveHead(n)' = push'[n].sub
                                => push'[n].env.count = Len(chain'[n])
                      /\ push'[n].pc # "reading" =>
                           /\ <<n, push'[n].env>> \in D1
                           /\ SubstantiveHead(n)' = push'[n].sub
                                => Freshest(D1, n, push'[n].env)
  BY DEF PushSigned, Freshest
<1>3. ASSUME ~Signed(n), NEW e PROVE Freshest(D1, n, e) <=> Freshest(D, n, e)
  BY <1>3, LaterIs DEF Freshest
<1>4. D \subseteq D1
  BY LaterIs
<1>5. CASE Bystands(n) \/ Worked(n)
  <2>1. push'[n] = push[n] /\ ~Signed(n)
    BY <1>5 DEF Bystands, Worked, Signed, Goes
  <2>2. CASE chain'[n] = chain[n]
    <3>1. SubstantiveHead(n)' = SubstantiveHead(n)
      BY <2>2, StillnessIs
    <3> QED
      BY <1>0, <1>2, <1>3, <1>4, <2>1, <2>2, <3>1 DEF PushSigned
  <2>3. CASE GrownBy(n, "PEER_ROOT") /\ push[n].pc # "reading"
    <3>1. SubstantiveHead(n)' = SubstantiveHead(n) /\ Len(chain'[n]) = Len(chain[n]) + 1
      BY <1>0, <2>3, HeadMoves
    <3> QED
      BY <1>0, <1>2, <1>3, <1>4, <2>1, <2>3, <3>1 DEF PushSigned
  <2>4. CASE GrownBy(n, "WORK")
    <3>1. SubstantiveHead(n)' = Len(chain[n]) + 1 /\ Len(chain'[n]) = Len(chain[n]) + 1
      BY <1>0, <2>4, HeadMoves
    <3> QED
      BY <1>0, <1>2, <1>4, <2>1, <3>1 DEF PushSigned
  <2> QED
    BY <1>5, <2>2, <2>3, <2>4 DEF Bystands, Worked
<1>6. CASE Started(n)
  <2>1. /\ chain'[n] = chain[n] /\ push'[n].pc = "reading" /\ push'[n].sub = SubstantiveHead(n)
        /\ push'[n].env.count = Len(chain[n])
    BY <1>6 DEF Started, Stays, Goes
  <2> QED
    BY <1>0, <2>1
<1>7. CASE Signed(n)
  <2>1. /\ chain'[n] = chain[n] /\ push'[n].pc = "send" /\ push'[n].sub = push[n].sub
        /\ push[n].pc = "reading"
    BY <1>7 DEF Signed, Stays, Goes
  <2>2. SubstantiveHead(n)' = SubstantiveHead(n)
    BY <2>1, StillnessIs
  <2>3. <<n, push'[n].env>> \in D1
    BY <1>7, LaterIs
  <2>4. SubstantiveHead(n) = push[n].sub => Freshest(D1, n, push'[n].env)
    BY <1>7, SignedIsFresh
  <2> QED
    BY <1>0, <2>1, <2>2, <2>3, <2>4 DEF PushSigned
<1>8. CASE Answered(n) \/ Sent(n) \/ GivenUp(n) \/ Receipted(n)
  <2>1. /\ chain'[n] = chain[n] /\ SameRoot(n) /\ ~Signed(n)
        /\ push[n].pc \notin {"idle", "reading"} /\ push'[n].pc # "reading"
    BY <1>8 DEF Answered, Sent, GivenUp, Receipted, Stays, Goes, Signed
  <2>2. SubstantiveHead(n)' = SubstantiveHead(n)
    BY <2>1, StillnessIs
  <2> QED
    BY <1>3, <1>4, <2>1, <2>2 DEF PushSigned, SameRoot
<1>9. CASE Finished(n) \/ Raised(n) \/ Recorded(n) \/ Restarted(n)
  BY <1>2, <1>9 DEF Finished, Raised, Recorded, Restarted, Goes
<1> QED
  BY <1>5, <1>6, <1>7, <1>8, <1>9 DEF OwnMove

----------------------------------------------------------------------------
(* Debts.                                                                  *)

(* A root of an empty chain is the root of nothing.                        *)
LEMMA EmptyRoot ==
    ASSUME NEW n \in Node, NEW e \in Root, OnChain(n, e), Len(chain[n]) = 0
    PROVE  e = NoRoot
<1>1. /\ e.root \in Seq(Rec) /\ e.count \in Nat /\ Len(e.root) \in Nat
      /\ e = [count |-> e.count, root |-> e.root]
  BY DEF Root
<1>2. e.count = 0 /\ Len(e.root) = 0
  BY <1>1 DEF OnChain
<1>3. e.root = <<>>
  BY <1>1, <1>2
<1> QED
  BY <1>1, <1>2, <1>3 DEF NoRoot

(* When every peer in reach has acknowledged the root of a chain that is   *)
(* not empty, and no receipt was made before, there will be one.           *)
LEMMA FirstReceipt ==
    ASSUME StateTypes, NEW n \in Node, n \in Pushing, QuorumInReach, ReceiptsKept(n),
           push[n].pc = "send", push[n].todo = {}, receipts[n] = {}, Unanswered(n) = {},
           Len(chain[n]) # 0
    PROVE  Anchors(n)
<1> DEFINE e == push[n].env
           S == Node \ ({n} \union Unreachable)
<1>1. /\ S \subseteq AckedBy(n, e) /\ AckedBy(n, e) \subseteq Node /\ K \in Nat
  BY DEF Unanswered, Asked, StateTypes, AckTypes, AckedBy, Ack, NodeTypes, Net, K
<1>2. Cardinality(AckedBy(n, e)) >= K
  <2>1. K <= Cardinality(S)
    BY DEF QuorumInReach
  <2> HIDE DEF S, e
  <2>2. IsFiniteSet(AckedBy(n, e)) /\ Cardinality(AckedBy(n, e)) \in Nat
    BY <1>1, PeersFinite
  <2>3. Cardinality(S) <= Cardinality(AckedBy(n, e)) /\ Cardinality(S) \in Nat
    BY <1>1, <2>2, FS_Subset, FS_CardinalityType
  <2> QED
    BY <1>1, <2>1, <2>2, <2>3
<1>3. e.count \notin receipts[n]
  OBVIOUS
<1>4. \E i \in (covered[n] + 1)..Len(chain[n]) : chain[n][i].kind # "ANCHOR_QUORUM"
  <2>1. covered[n] = 0 /\ \A i \in 1..Len(chain[n]) : chain[n][i].kind # "ANCHOR_QUORUM"
    BY DEF ReceiptsKept
  <2>2. 1 \in 1..Len(chain[n]) /\ 1 \in (covered[n] + 1)..Len(chain[n])
    BY <2>1 DEF StateTypes, NodeTypes
  <2> QED
    BY <2>1, <2>2
<1> QED
  BY <1>2, <1>3, <1>4 DEF Anchors

(* What a step may add to a node's debts.                                  *)
NoNewDebt(n) == Owes(n)' => Owes(n)
NoMoreDebt(D, D1, n) == OwesTwice(D1, n)' => OwesTwice(D, n)

(* Another's step adds nothing.                                            *)
LEMMA BystandersOweNoMore ==
    ASSUME NEW n \in Node, NEW D, NEW D1, D \subseteq D1, Bystands(n), net' = net,
           chain \in [Node -> Seq(Rec)], chain' \in [Node -> Seq(Rec)]
    PROVE  NoNewDebt(n) /\ NoMoreDebt(D, D1, n)
<1>1. /\ push'[n] = push[n] /\ Kept(n) /\ acks'[n] = acks[n] /\ Unreachable' = Unreachable
      /\ Len(chain[n]) \in Nat
  BY DEF Bystands, Unreachable
<1>2. Unanswered(n)' = Unanswered(n)
  BY <1>1 DEF Unanswered, Asked, AckedBy
<1>3. SubstantiveHead(n)' = SubstantiveHead(n) /\ PushWanted(n)' = PushWanted(n)
  <2>1. SubstantiveHead(n)' = SubstantiveHead(n)
    <3>1. CASE chain'[n] = chain[n]
      BY <3>1, StillnessIs
    <3>2. CASE GrownBy(n, "PEER_ROOT")
      BY <3>2, HeadMoves
    <3> QED
      BY <3>1, <3>2 DEF Bystands
  <2> QED
    BY <1>1, <2>1 DEF PushWanted, Kept
<1>4. Len(chain'[n]) = 0 => Len(chain[n]) = 0
  BY <1>1 DEF Bystands, GrownBy
<1>5. NoNewDebt(n)
  BY <1>1, <1>2, <1>3, <1>4 DEF NoNewDebt, Owes, Kept
<1>6. NoMoreDebt(D, D1, n)
  BY <1>1, <1>3, <1>4 DEF NoMoreDebt, OwesTwice
<1> QED
  BY <1>5, <1>6

(* Signing pays a debt, or signs nothing new.                              *)
LEMMA SigningPays ==
    ASSUME StateTypes, NEW n \in Node, NEW D, NEW D1, Signed(n), PushSigned(D, n), net' = net
    PROVE  /\ Owes(n) /\ ~OwesTwice(D1, n)'
           /\ Owes(n)' => OwesTwice(D, n) \/ <<n, push'[n].env>> \in D
<1>0. /\ chain[n] \in Seq(Rec) /\ chain'[n] = chain[n] /\ push[n].pc = "reading"
      /\ push'[n].pc = "send" /\ push'[n].sub = push[n].sub /\ push'[n].todo = Node \ {n}
      /\ push[n].env.count \in Nat
  BY DEF StateTypes, NodeTypes, PushTypes, Push, Root, Signed, Stays, Goes
<1>1. Owes(n) /\ ~OwesTwice(D1, n)'
  BY <1>0 DEF Owes, OwesTwice
<1>2. SubstantiveHead(n)' = SubstantiveHead(n)
  BY <1>0, StillnessIs
<1>3. Unanswered(n)' = {}
  BY <1>0 DEF Unanswered
<1>4. CASE Len(chain[n]) = 0
  <2>1. push'[n].env = [count |-> push[n].env.count, root |-> chain[n]]
    BY DEF Signed
  <2>2. push[n].env.count = 0 /\ chain[n] = <<>>
    BY <1>0, <1>4 DEF PushSigned
  <2>3. push'[n].env = NoRoot
    BY <2>1, <2>2 DEF NoRoot
  <2>4. <<n, NoRoot>> \notin D => OwesTwice(D, n)
    BY <1>0, <1>4 DEF OwesTwice
  <2> QED
    BY <1>1, <2>3, <2>4
<1>5. CASE Len(chain[n]) # 0
  <2>1. Owes(n)' => SubstantiveHead(n) # push[n].sub
    BY <1>0, <1>2, <1>3, <1>5 DEF Owes
  <2>2. SubstantiveHead(n) # push[n].sub => OwesTwice(D, n)
    BY <1>0 DEF OwesTwice
  <2> QED
    BY <1>1, <2>1, <2>2
<1> QED
  BY <1>4, <1>5

(* Any other step of a push adds no debt that is not paid for.             *)
LEMMA DebtsArePaid ==
    ASSUME StateTypes, NEW n \in Node, n \in Pushing, NEW D, NEW D1, D \subseteq D1,
           RootsKnown(D), PushSigned(D, n), ReceiptsKept(n), QuorumInReach, net' = net,
           chain' \in [Node -> Seq(Rec)],
           Worked(n) \/ Answered(n) \/ (OwnMove(n) /\ ~Signed(n))
    PROVE  \/ NoNewDebt(n) /\ NoMoreDebt(D, D1, n)
           \/ Paid /\ (NoNewDebt(n) \/ NoMoreDebt(D, D1, n))
<1>0. /\ chain \in [Node -> Seq(Rec)] /\ Len(chain[n]) \in Nat /\ Unreachable' = Unreachable
      /\ push[n] \in Push /\ push[n].env \in Root
  BY DEF StateTypes, NodeTypes, PushTypes, Push, Unreachable
<1>1. ASSUME chain'[n] = chain[n] PROVE SubstantiveHead(n)' = SubstantiveHead(n)
  BY <1>1, StillnessIs
<1>2. ASSUME push[n].pc \notin {"idle", "reading"}, Len(chain[n]) = 0 PROVE <<n, NoRoot>> \in D
  <2>1. <<n, push[n].env>> \in D
    BY <1>2 DEF PushSigned
  <2>2. OnChain(n, push[n].env)
    BY <1>0, <2>1 DEF RootsKnown
  <2> QED
    BY <1>0, <1>2, <2>1, <2>2, EmptyRoot
<1>3. CASE Worked(n)
  <2>1. /\ push'[n] = push[n] /\ Paid /\ Len(chain'[n]) # 0
    BY <1>0, <1>3 DEF Worked, GrownBy
  <2>2. push[n].pc = "reading" => Owes(n)
    BY DEF Owes
  <2>3. push[n].pc # "reading" => NoMoreDebt(D, D1, n)
    BY <2>1 DEF NoMoreDebt, OwesTwice
  <2> QED
    BY <2>1, <2>2, <2>3 DEF NoNewDebt
<1>4. CASE Started(n)
  <2>1. Owes(n)
    BY <1>4 DEF Started, Goes, Owes
  <2>2. NoMoreDebt(D, D1, n)
    BY <1>1, <1>4 DEF Started, Stays, Goes, NoMoreDebt, OwesTwice
  <2> QED
    BY <2>1, <2>2 DEF NoNewDebt
<1>5. CASE Sent(n) \/ GivenUp(n)
  <2>1. /\ chain'[n] = chain[n] /\ Kept(n) /\ acks'[n] = acks[n] /\ SameRoot(n)
        /\ push[n].pc \in {"send", "wait", "prove"} /\ push'[n].pc \in {"send", "wait", "prove"}
    BY <1>5 DEF Sent, GivenUp, Stays, Goes
  <2>2. NoMoreDebt(D, D1, n)
    BY <2>1 DEF NoMoreDebt, OwesTwice
  <2>3. AckedBy(n, push[n].env)' = AckedBy(n, push[n].env)
    BY <2>1 DEF AckedBy, SameRoot
  <2>4. Paid \/ Unanswered(n)' \subseteq Unanswered(n)
    <3>1. CASE Sent(n)
      BY <1>0, <2>3, <3>1 DEF Sent, Goes, Unanswered, Asked
    <3>2. CASE GivenUp(n)
      BY <1>0, <2>3, <3>2 DEF GivenUp, Unanswered, Asked
    <3> QED
      BY <1>5, <3>1, <3>2
  <2>5. Paid \/ NoNewDebt(n)
    BY <1>1, <2>1, <2>4 DEF NoNewDebt, Owes, Kept, SameRoot
  <2> QED
    BY <2>2, <2>5
<1>6. CASE Answered(n)
  <2>1. /\ chain'[n] = chain[n] /\ Kept(n) /\ SameRoot(n) /\ push'[n].todo = push[n].todo
        /\ push[n].pc = "wait" /\ push'[n].pc \in {"send", "prove"}
    BY <1>6 DEF Answered
  <2>2. NoMoreDebt(D, D1, n)
    BY <2>1 DEF NoMoreDebt, OwesTwice
  <2>3. ASSUME NEW p \in Node, push[n].at = {p},
               acks'[n] = acks[n] \union {[env |-> push[n].env, by |-> p]}
        PROVE  NoNewDebt(n)
    <3>1. AckedBy(n, push[n].env)' = AckedBy(n, push[n].env) \union {p}
      <4>1. PICK e : e = push[n].env
        OBVIOUS
      <4>2. /\ AckedBy(n, push[n].env)' = {a.by : a \in {b \in acks'[n] : b.env = e}}
            /\ AckedBy(n, push[n].env) = {a.by : a \in {b \in acks[n] : b.env = e}}
        BY <2>1, <4>1 DEF AckedBy, SameRoot
      <4>3. acks'[n] = acks[n] \union {[env |-> e, by |-> p]}
        BY <2>3, <4>1
      <4> DEFINE r == [env |-> e, by |-> p]
      <4>4. r.env = e /\ r.by = p
        OBVIOUS
      <4> HIDE DEF r
      <4>5. {b \in acks'[n] : b.env = e} = {b \in acks[n] : b.env = e} \union {r}
        BY <4>3, <4>4 DEF r
      <4> QED
        BY <4>2, <4>4, <4>5
    <3>2. Unanswered(n)' \subseteq Unanswered(n)
      BY <1>0, <2>1, <2>3, <3>1 DEF Unanswered, Asked
    <3> QED
      BY <1>1, <2>1, <3>2 DEF NoNewDebt, Owes, Kept, SameRoot
  <2>4. ASSUME Refused(n) PROVE Owes(n)
    <3>1. PICK p \in Node : \E f \in held[p][n] : f # push[n].env /\ f.count >= push[n].env.count
      BY <2>4 DEF Refused
    <3>2. PICK f \in held[p][n] : f # push[n].env /\ f.count >= push[n].env.count
      BY <3>1
    <3>3. f \in Root /\ <<n, f>> \in D /\ f.count \in Nat /\ push[n].env.count \in Nat
      BY <1>0 DEF StateTypes, StoreTypes, RootsKnown, Root
    <3>4. ~Freshest(D, n, push[n].env)
      BY <3>2, <3>3 DEF Freshest
    <3>5. SubstantiveHead(n) # push[n].sub
      BY <2>1, <3>4 DEF PushSigned
    <3> QED
      BY <2>1, <3>5 DEF Owes
  <2>5. Paid \/ NoNewDebt(n)
    BY <1>6, <2>3, <2>4 DEF Answered, NoNewDebt
  <2> QED
    BY <2>2, <2>5
<1>7. CASE Finished(n)
  <2>1. /\ chain'[n] = chain[n] /\ push[n].pc = "send" /\ push'[n].pc = "idle"
        /\ push[n].todo = {} /\ ~Anchors(n)
        /\ lastSub'[n] = push[n].sub /\ receipts'[n] = receipts[n]
    BY <1>7 DEF Finished, Goes
  <2>2. NoMoreDebt(D, D1, n)
    BY <1>2, <2>1 DEF NoMoreDebt, OwesTwice
  <2>3. ASSUME Owes(n)' PROVE Owes(n)
    <3>1. SubstantiveHead(n) # push[n].sub \/ receipts[n] = {}
      BY <1>1, <2>1, <2>3 DEF Owes, PushWanted
    <3>2. receipts[n] = {} => Unanswered(n) # {} \/ Len(chain[n]) = 0
      BY <2>1, FirstReceipt
    <3> QED
      BY <2>1, <3>1, <3>2 DEF Owes
  <2> QED
    BY <2>2, <2>3 DEF NoNewDebt
<1>8. CASE Receipted(n)
  <2>1. NoMoreDebt(D, D1, n)
    BY <1>8 DEF Receipted, Goes, NoMoreDebt, OwesTwice
  <2>2. NoNewDebt(n)
    BY <1>1, <1>8 DEF Receipted, SameRoot, Goes, NoNewDebt, Owes
  <2> QED
    BY <2>1, <2>2
<1>9. CASE Raised(n)
  <2>1. Paid /\ chain'[n] = chain[n] /\ push[n].pc = "send" /\ push'[n].pc = "idle"
    BY <1>9 DEF Raised, Goes
  <2>2. NoMoreDebt(D, D1, n)
    BY <1>2, <2>1 DEF NoMoreDebt, OwesTwice
  <2> QED
    BY <2>1, <2>2
<1>10. CASE Recorded(n)
  <2>1. /\ push[n].pc = "record" /\ push'[n].pc = "idle" /\ lastSub'[n] = push[n].sub
        /\ receipts'[n] # {} /\ Len(chain'[n]) # 0 /\ SubstantiveHead(n)' = SubstantiveHead(n)
    <3>1. GrownBy(n, "ANCHOR_QUORUM")
      BY <1>10 DEF Recorded
    <3>2. SubstantiveHead(n)' = SubstantiveHead(n) /\ Len(chain'[n]) = Len(chain[n]) + 1
      BY <1>0, <3>1, HeadMoves
    <3>3. Len(chain'[n]) # 0
      BY <1>0, <3>2
    <3> QED
      BY <1>10, <3>2, <3>3 DEF Recorded, Goes, ReceiptsKept
  <2>2. NoMoreDebt(D, D1, n)
    BY <2>1 DEF NoMoreDebt, OwesTwice
  <2>3. NoNewDebt(n)
    BY <2>1 DEF NoNewDebt, Owes, PushWanted
  <2> QED
    BY <2>2, <2>3
<1>11. CASE Restarted(n)
  <2>1. Paid /\ chain'[n] = chain[n] /\ push'[n].pc = "idle"
    BY <1>11 DEF Restarted
  <2>2. NoMoreDebt(D, D1, n)
    BY <1>2, <2>1 DEF NoMoreDebt, OwesTwice
  <2> QED
    BY <2>1, <2>2
<1> QED
  BY <1>3, <1>4, <1>5, <1>6, <1>7, <1>8, <1>9, <1>10, <1>11 DEF OwnMove

----------------------------------------------------------------------------
(* What is signed, held, handled and recorded.                             *)

(* What is on its way or held was signed, of records that are on the chain.*)
LEMMA RootsKnownNext ==
    ASSUME StateTypes, [Next]_vars, faults'["rollback"] = 0, NEW D, NEW D1, D1 = Later(D),
           RootsKnown(D), \A n \in Node : PushSigned(D, n), push' \in [Node -> Push]
    PROVE  RootsKnown(D1)'
<1>0. /\ chain \in [Node -> Seq(Rec)] /\ D \subseteq D1
      /\ held \in [Node -> [Node -> SUBSET Root]] /\ stored \in [Node -> [Node -> SUBSET Root]]
      /\ requests \subseteq Request
  BY LaterIs DEF StateTypes, NodeTypes, StoreTypes, MessageTypes
<1>1. ASSUME NEW m \in Node, NEW e \in Root, <<m, e>> \in D1 PROVE OnChain(m, e)'
  <2>1. CASE <<m, e>> \in D
    <3>1. OnChain(m, e)
      BY <2>1 DEF RootsKnown
    <3>2. chain'[m] = chain[m] \/ \E kind : GrownBy(m, kind)
      BY ChainsGrow
    <3> QED
      BY <1>0, <3>1, <3>2, OnChainLasts
  <2>2. CASE <<m, e>> \notin D
    <3>1. Signed(m) /\ e = push'[m].env
      BY <1>1, <2>2, LaterIs
    <3>2. /\ e = [count |-> push[m].env.count, root |-> chain[m]] /\ chain'[m] = chain[m]
          /\ push[m].pc = "reading"
      BY <3>1 DEF Signed, Stays, Goes
    <3>3. push[m].env.count <= Len(chain[m])
      BY <3>2 DEF PushSigned
    <3>4. e.count = push[m].env.count /\ e.root = chain[m] /\ Len(chain[m]) <= Len(chain[m])
      BY <1>0, <3>2
    <3>5. e.count <= Len(e.root) /\ Len(e.root) <= Len(chain'[m])
          /\ \A i \in 1..Len(e.root) : e.root[i] = chain'[m][i]
      BY <3>2, <3>3, <3>4
    <3> QED
      BY <3>5 DEF OnChain
  <2> QED
    BY <2>1, <2>2
<1> DEFINE Known == /\ \A p, m \in Node : /\ stored'[p][m] \subseteq held'[p][m]
                                          /\ \A e \in held'[p][m] : <<m, e>> \in D1
                    /\ \A r \in requests' : <<r.from, r.env>> \in D1
<1>2. /\ \A p, m \in Node : /\ stored[p][m] \subseteq held[p][m]
                            /\ \A e \in held[p][m] : <<m, e>> \in D1
      /\ \A r \in requests : <<r.from, r.env>> \in D1
  BY <1>0 DEF RootsKnown
<1>3. ASSUME UNCHANGED <<held, stored, requests>> PROVE Known
  BY <1>2, <1>3
<1>4. ASSUME NEW n \in Node, NEW p \in Node, OwnStep(n, p) PROVE Known
  <2>1. CASE Send(n, p)
    <3>1. <<n, push[n].env>> \in D1
      BY <1>0, <2>1 DEF Send, PushSigned
    <3>2. requests' \subseteq requests \union {[from |-> n, to |-> p, env |-> push[n].env,
                                                try |-> TotalFaults]}
      BY <2>1 DEF Send
    <3>3. UNCHANGED <<held, stored>>
      BY <2>1 DEF Send, store
    <3> QED
      BY <1>2, <3>1, <3>2, <3>3
  <2>2. CASE Crash(n)
    <3>1. held' = [held EXCEPT ![n] = stored[n]] /\ UNCHANGED <<stored, requests>>
      BY <2>2 DEF Crash, Reboot
    <3>2. \A q \in Node : held'[q] = IF q = n THEN stored[n] ELSE held[q]
      BY <1>0, <3>1
    <3> QED
      BY <1>2, <3>1, <3>2
  <2>3. CASE ~Send(n, p) /\ ~Crash(n)
    <3>1. ~Rollback(n)
      BY ChainsGrow
    <3>2. UNCHANGED <<held, stored, requests>>
      BY <1>4, <2>3, <3>1 DEF OwnStep, PushStart, SignRoot, GiveUp, PushDone, Receipt, ReceiptRaises,
         RecordQuorum, ProveLink, Work, store
    <3> QED
      BY <1>3, <3>2
  <2> QED
    BY <2>1, <2>2, <2>3
<1>5. ASSUME NEW r \in requests, Answer(r) \/ Hold(r) PROVE Known
  <2>0. /\ r.to \in Node /\ r.from \in Node /\ r.env \in Root
        /\ <<r.from, r.env>> \in D1 /\ requests' \subseteq requests
    BY <1>0, <1>2, <1>5 DEF Answer, Hold, Request
  <2>1. CASE Answer(r)
    BY <1>2, <2>0, <2>1 DEF Answer
  <2>2. CASE Hold(r)
    <3>1. held' = [held EXCEPT ![r.to][r.from] = @ \union {r.env}] /\ UNCHANGED stored
      BY <2>2 DEF Hold
    <3>2. ASSUME NEW q \in Node, NEW m \in Node
          PROVE  /\ held[q][m] \subseteq held'[q][m]
                 /\ \A e \in held'[q][m] : e \in held[q][m] \/ (m = r.from /\ e = r.env)
      BY <1>0, <2>0, <3>1
    <3> QED
      BY <1>2, <2>0, <3>1, <3>2
  <2> QED
    BY <1>5, <2>1, <2>2
<1>6. ASSUME NEW r \in Request, HandlerStep(r) PROVE Known
  <2>0. /\ r.to \in Node /\ r.from \in Node /\ r.env \in Root /\ r.env \in held[r.to][r.from]
        /\ UNCHANGED <<held, requests>>
    BY <1>6 DEF HandlerStep, Persist, PersistRaises, WitnessPeerRoot, Request, store
  <2>1. CASE Persist(r)
    <3>1. stored' = [stored EXCEPT ![r.to][r.from] = @ \union {r.env}]
      BY <2>1 DEF Persist
    <3>2. ASSUME NEW q \in Node, NEW m \in Node PROVE stored'[q][m] \subseteq held[q][m]
      <4>1. stored'[q][m] = IF q = r.to /\ m = r.from THEN stored[q][m] \union {r.env} ELSE stored[q][m]
        BY <1>0, <2>0, <3>1
      <4> QED
        BY <1>2, <2>0, <4>1
    <3> QED
      BY <1>2, <2>0, <3>2
  <2>2. CASE PersistRaises(r) \/ WitnessPeerRoot(r)
    BY <1>3, <2>0, <2>2 DEF PersistRaises, WitnessPeerRoot, store
  <2> QED
    BY <1>6, <2>1, <2>2 DEF HandlerStep
<1>7. ASSUME UNCHANGED vars PROVE Known
  BY <1>3, <1>7 DEF vars, store
<1>8. Known
  BY <1>4, <1>5, <1>6, <1>7, NextIsStep
<1> QED
  BY <1>1, <1>8 DEF RootsKnown

(* A step of a handler, as what becomes of the handlers of its node.       *)
LEMMA HandlingIs ==
    ASSUME StateTypes, NEW r \in Request, NEW from, NEW to, Handled(r, from, to)
    PROVE  /\ \A n \in Node \ {r.to} : handling'[n] = handling[n]
           /\ \A h : h \in handling'[r.to] <=>
                \/ h \in handling[r.to] /\ ~(\E pc \in from : h = [req |-> r, pc |-> pc])
                \/ \E pc \in to : h = [req |-> r, pc |-> pc]
BY DEF Handled, StateTypes, MessageTypes, Request

(* Handlers stay apart.                                                    *)
LEMMA HandlersApartNext ==
    ASSUME StateTypes, HandlersApart, [Next]_vars, faults'["rollback"] = 0,
           \A p, m \in Node : stored[p][m] \subseteq held[p][m]
    PROVE  HandlersApart'
<1>0. /\ stored \in [Node -> [Node -> SUBSET Root]] /\ handling \in [Node -> SUBSET Handler]
      /\ StoreTypes
      /\ \A n \in Node : \A h \in handling[n] : /\ h.req.to = n /\ h.req.from # n
                                                /\ h.req.env \in held[n][h.req.from]
                                                /\ h.req \in Request /\ h.req.from \in Node
                                                /\ h.pc \in {"persist", "append"}
                                                /\ h = [req |-> h.req, pc |-> h.pc]
  BY DEF StateTypes, StoreTypes, MessageTypes, Handler, Request
<1> DEFINE Apart(n) ==
             \A h \in handling[n] :
               /\ h.pc = "persist" <=> h.req.env \notin stored[n][h.req.from]
               /\ \A g \in handling[n] :
                    h.req.from = g.req.from /\ h.req.env = g.req.env => h = g
<1>1. \A n \in Node : Apart(n)
  BY DEF HandlersApart
<1>2. ASSUME NEW n \in Node, handling'[n] \subseteq handling[n], stored'[n] = stored[n]
      PROVE  Apart(n)'
  BY <1>1, <1>2
<1>4. ASSUME NEW m \in Node, NEW p \in Node, OwnStep(m, p) PROVE \A n \in Node : Apart(n)'
  <2>1. stored' = stored /\ \A n \in Node : handling'[n] \subseteq handling[n]
    <3>1. CASE Crash(m)
      BY <1>0, <3>1 DEF Crash, Reboot
    <3>2. CASE ~Crash(m)
      <4>1. ~Rollback(m)
        BY ChainsGrow
      <4> QED
        BY <1>4, <3>2, <4>1 DEF OwnStep, PushStart, SignRoot, GiveUp, PushDone, Receipt,
           ReceiptRaises, RecordQuorum, Send, ProveLink, Work, store
    <3> QED
      BY <3>1, <3>2
  <2> QED
    BY <1>2, <2>1
<1>5. ASSUME NEW r \in requests, Answer(r) \/ Hold(r) PROVE \A n \in Node : Apart(n)'
  <2>0. r \in Request /\ r.to \in Node /\ r.from \in Node /\ r.env \in Root /\ r.env.count \in Nat
    BY DEF StateTypes, MessageTypes, Request, Root
  <2>1. CASE Answer(r)
    BY <1>2, <2>1 DEF Answer
  <2>2. CASE Hold(r)
    <3>1. Handled(r, {}, {"persist"}) /\ stored' = stored
      BY <2>2 DEF Hold
    <3>2. r.env \notin held[r.to][r.from] /\ r.env \notin stored[r.to][r.from]
      <4>1. \A f \in held[r.to][r.from] : f.count < r.env.count
        BY <1>0, <2>0, <2>2, OutcomeIs DEF Hold
      <4>2. r.env \notin held[r.to][r.from]
        BY <2>0, <4>1
      <4> QED
        BY <2>0, <4>2
    <3>3. /\ \A n \in Node \ {r.to} : handling'[n] = handling[n]
          /\ \A h : h \in handling'[r.to] <=> h \in handling[r.to] \/ h = [req |-> r, pc |-> "persist"]
      BY <2>0, <3>1, HandlingIs
    <3>4. Apart(r.to)'
      <4> DEFINE new == [req |-> r, pc |-> "persist"]
      <4>1. new.req = r /\ new.pc = "persist"
        OBVIOUS
      <4>2. \A h \in handling[r.to] : ~(h.req.from = r.from /\ h.req.env = r.env)
        BY <1>0, <2>0, <3>2
      <4>3. \A h \in handling'[r.to] : h \in handling[r.to] \/ h = new
        BY <3>3
      <4> HIDE DEF new
      <4> QED
        BY <1>1, <2>0, <3>1, <3>2, <4>1, <4>2, <4>3
    <3> QED
      BY <1>2, <3>1, <3>3, <3>4
  <2> QED
    BY <1>5, <2>1, <2>2
<1>6. ASSUME NEW r \in Request, HandlerStep(r) PROVE \A n \in Node : Apart(n)'
  <2>0. r.to \in Node /\ r.from \in Node /\ r.env \in Root
    BY DEF Request
  <2>1. CASE Persist(r)
    <3>1. /\ Handled(r, {"persist"}, {"append"})
          /\ stored' = [stored EXCEPT ![r.to][r.from] = @ \union {r.env}]
          /\ [req |-> r, pc |-> "persist"] \in handling[r.to]
      BY <2>1 DEF Persist, At
    <3>2. /\ \A n \in Node \ {r.to} : handling'[n] = handling[n]
          /\ \A h : h \in handling'[r.to] <=>
               \/ h \in handling[r.to] /\ h # [req |-> r, pc |-> "persist"]
               \/ h = [req |-> r, pc |-> "append"]
      BY <2>0, <3>1, HandlingIs
    <3>3. Apart(r.to)'
      <4> DEFINE old == [req |-> r, pc |-> "persist"]
                 new == [req |-> r, pc |-> "append"]
      <4>1. new.req = r /\ new.pc = "append" /\ old.req = r /\ old \in handling[r.to]
        BY <3>1
      <4>2. /\ stored'[r.to][r.from] = stored[r.to][r.from] \union {r.env}
            /\ \A m \in Node \ {r.from} : stored'[r.to][m] = stored[r.to][m]
        BY <1>0, <2>0, <3>1
      <4>3. \A h \in handling'[r.to] : (h \in handling[r.to] /\ h # old) \/ h = new
        BY <3>2
      <4> HIDE DEF old, new
      <4>4. \A h \in handling[r.to] : h # old => ~(h.req.from = r.from /\ h.req.env = r.env)
        BY <1>1, <2>0, <4>1
      <4>5. \A h \in handling[r.to] : h # old =>
              (h.req.env \in stored'[r.to][h.req.from] <=> h.req.env \in stored[r.to][h.req.from])
        BY <1>0, <2>0, <4>2, <4>4
      <4>6. new.req.env \in stored'[r.to][new.req.from]
        BY <4>1, <4>2
      <4> QED
        BY <1>1, <2>0, <4>1, <4>3, <4>4, <4>5, <4>6
    <3>4. \A n \in Node \ {r.to} : stored'[n] = stored[n]
      BY <1>0, <3>1
    <3> QED
      BY <1>2, <3>2, <3>3, <3>4
  <2>2. CASE PersistRaises(r) \/ WitnessPeerRoot(r)
    <3>1. stored' = stored /\ \E from : Handled(r, from, {})
      BY <2>2 DEF PersistRaises, WitnessPeerRoot, store
    <3>2. \A n \in Node : handling'[n] \subseteq handling[n]
      BY <2>0, <3>1, HandlingIs
    <3> QED
      BY <1>2, <3>1, <3>2
  <2> QED
    BY <1>6, <2>1, <2>2 DEF HandlerStep
<1>7. \A n \in Node : Apart(n)'
  <2>1. CASE UNCHANGED vars
    BY <1>2, <2>1 DEF vars, store
  <2> HIDE DEF Apart
  <2> QED
    BY <1>4, <1>5, <1>6, <2>1, NextIsStep
<1> QED
  BY <1>7 DEF HandlersApart

(* A chain has no more records of work than records.                       *)
LEMMA WorkIsCounted ==
    ASSUME NEW s \in Seq(Rec), NEW W, W = {i \in 1..Len(s) : s[i].kind = "WORK"}
    PROVE  IsFiniteSet(W) /\ Cardinality(W) \in Nat /\ Len(s) - Cardinality(W) \in Nat
<1>1. PICK len \in Nat : len = Len(s)
  OBVIOUS
<1>2. 1 \in Int /\ len \in Int
  BY <1>1
<1>3. IsFiniteSet(1..len) /\ Cardinality(1..len) = IF 1 > len THEN 0 ELSE len - 1 + 1
  BY <1>2, FS_Interval
<1>4. Cardinality(1..len) = len
  BY <1>1, <1>3
<1>5. W \in SUBSET (1..len)
  BY <1>1
<1>6. IsFiniteSet(W) /\ Cardinality(W) <= Cardinality(1..len)
  BY ONLY <1>3, <1>5, FS_Subset
<1>7. Cardinality(W) \in Nat
  BY <1>6, FS_CardinalityType
<1> QED
  BY <1>1, <1>4, <1>6, <1>7

(* What growing does to the bookkeeping on a chain.                        *)
LEMMA BookkeepingMoves ==
    ASSUME NEW n \in Node, chain \in [Node -> Seq(Rec)], chain' \in [Node -> Seq(Rec)]
    PROVE  /\ Bookkeeping(n) \in Nat /\ Bookkeeping(n)' \in Nat
           /\ chain'[n] = chain[n] => Bookkeeping(n)' = Bookkeeping(n)
           /\ \A kind : GrownBy(n, kind) =>
                Bookkeeping(n)' = IF kind = "WORK" THEN Bookkeeping(n) ELSE Bookkeeping(n) + 1
<1> DEFINE W == WorkOf(n)
           len == Len(chain[n])
<1>1. chain[n] \in Seq(Rec) /\ chain'[n] \in Seq(Rec) /\ len \in Nat
  OBVIOUS
<1>2. IsFiniteSet(W) /\ Cardinality(W) \in Nat /\ Bookkeeping(n) \in Nat
  BY <1>1, WorkIsCounted DEF WorkOf, Bookkeeping
<1>3. Bookkeeping(n)' \in Nat
  BY <1>1, WorkIsCounted DEF WorkOf, Bookkeeping
<1>4. ASSUME chain'[n] = chain[n] PROVE Bookkeeping(n)' = Bookkeeping(n)
  BY <1>4 DEF Bookkeeping, WorkOf
<1>5. ASSUME NEW kind, GrownBy(n, kind)
      PROVE  Bookkeeping(n)' = IF kind = "WORK" THEN Bookkeeping(n) ELSE Bookkeeping(n) + 1
  <2>0. Bookkeeping(n) = len - Cardinality(W)
        /\ Bookkeeping(n)' = Len(chain'[n]) - Cardinality(WorkOf(n)')
    BY DEF Bookkeeping
  <2>1. /\ Len(chain'[n]) = len + 1 /\ len + 1 \notin W
        /\ kind = "WORK" => WorkOf(n)' = W \union {len + 1}
        /\ kind # "WORK" => WorkOf(n)' = W
    BY <1>5, GrowthIs DEF GrownBy
  <2> HIDE DEF W, len
  <2>2. Cardinality(W \union {len + 1}) = Cardinality(W) + 1
    BY <1>2, <2>1, FS_AddElement
  <2>3. CASE kind = "WORK"
    <3>1. Cardinality(WorkOf(n)') = Cardinality(W) + 1
      BY <2>1, <2>2, <2>3
    <3> QED
      BY <1>1, <1>2, <2>0, <2>1, <2>3, <3>1
  <2>4. CASE kind # "WORK"
    <3>1. WorkOf(n)' = W
      BY <2>1, <2>4
    <3> QED
      BY <1>1, <1>2, <2>0, <2>1, <2>4, <3>1
  <2> QED
    BY <2>3, <2>4
<1> QED
  BY <1>2, <1>3, <1>4, <1>5

(* What a step makes due: a record for a receipt, one for a peer's root.   *)
LEMMA DueMoves ==
    ASSUME NEW n \in Node, chain \in [Node -> Seq(Rec)], chain' \in [Node -> Seq(Rec)]
    PROVE  /\ Due(n) \in Nat /\ Due(n)' \in Nat
           /\ Bystands(n) \/ Receipted(n) => Due(n)' <= Due(n) + 1
           /\ Bystands(n) /\ chain'[n] = chain[n] => Due(n)' <= Due(n)
           /\ Worked(n) \/ Answered(n) \/ (OwnMove(n) /\ ~Receipted(n)) => Due(n)' <= Due(n)
<1> DEFINE b == IF push[n].pc = "record" THEN 1 ELSE 0
           b1 == IF push'[n].pc = "record" THEN 1 ELSE 0
<1>1. Due(n) = Bookkeeping(n) + b /\ Due(n)' = Bookkeeping(n)' + b1
  BY DEF Due
<1>2. Bookkeeping(n) \in Nat /\ Bookkeeping(n)' \in Nat /\ b \in {0, 1} /\ b1 \in {0, 1}
  BY BookkeepingMoves
<1>3. /\ chain'[n] = chain[n] => Bookkeeping(n)' = Bookkeeping(n)
      /\ GrownBy(n, "WORK") => Bookkeeping(n)' = Bookkeeping(n)
      /\ GrownBy(n, "PEER_ROOT") => Bookkeeping(n)' = Bookkeeping(n) + 1
      /\ GrownBy(n, "ANCHOR_QUORUM") => Bookkeeping(n)' = Bookkeeping(n) + 1
  BY BookkeepingMoves
<1>4. ASSUME Bystands(n) \/ Receipted(n) PROVE Due(n)' <= Due(n) + 1
  <2>1. b1 = b \/ (b = 0 /\ chain'[n] = chain[n])
    BY <1>4 DEF Bystands, Receipted, Goes
  <2>2. chain'[n] = chain[n] \/ GrownBy(n, "PEER_ROOT")
    BY <1>4 DEF Bystands, Receipted
  <2> HIDE DEF b, b1
  <2> QED
    BY <1>1, <1>2, <1>3, <2>1, <2>2
<1>5. ASSUME Bystands(n) /\ chain'[n] = chain[n] PROVE Due(n)' <= Due(n)
  <2>1. b1 = b
    BY <1>5 DEF Bystands
  <2> HIDE DEF b, b1
  <2> QED
    BY <1>1, <1>2, <1>3, <1>5, <2>1
<1>6. ASSUME Worked(n) PROVE Due(n)' <= Due(n)
  <2>1. b1 = b /\ GrownBy(n, "WORK")
    BY <1>6 DEF Worked
  <2> HIDE DEF b, b1
  <2> QED
    BY <1>1, <1>2, <1>3, <2>1
<1>7. ASSUME Recorded(n) PROVE Due(n)' <= Due(n)
  <2>1. b = 1 /\ b1 = 0 /\ GrownBy(n, "ANCHOR_QUORUM")
    BY <1>7 DEF Recorded, Goes
  <2> HIDE DEF b, b1
  <2> QED
    BY <1>1, <1>2, <1>3, <2>1
<1>8. ASSUME \/ Answered(n) \/ Started(n) \/ Signed(n) \/ Sent(n) \/ GivenUp(n) \/ Finished(n)
             \/ Raised(n) \/ Restarted(n)
      PROVE  Due(n)' <= Due(n)
  <2>1. chain'[n] = chain[n] /\ b1 = 0
    BY <1>8 DEF Answered, Started, Signed, Sent, GivenUp, Finished, Raised, Restarted, Stays, Goes
  <2> HIDE DEF b, b1
  <2> QED
    BY <1>1, <1>2, <1>3, <2>1
<1>9. Due(n) \in Nat /\ Due(n)' \in Nat
  BY <1>1, <1>2
<1> QED
  BY <1>4, <1>5, <1>6, <1>7, <1>8, <1>9 DEF OwnMove

(* Journals and replicas on disk only grow.                                *)
LEMMA DisksGrow ==
    ASSUME StateTypes, JournalTypes, [Next]_vars, faults'["rollback"] = 0
    PROVE  \A n \in Node : /\ journal[n] \subseteq journal'[n]
                           /\ \A m \in Node : stored[n][m] \subseteq stored'[n][m]
<1>0. /\ journal \in [Node -> SUBSET Nat] /\ stored \in [Node -> [Node -> SUBSET Root]]
      /\ \A n \in Node : ~Rollback(n)
  BY ChainsGrow DEF JournalTypes, StateTypes, StoreTypes
<1>1. UNCHANGED journal \/ \E n \in Node : \E c : journal' = [journal EXCEPT ![n] = @ \union {c}]
  <2>1. ASSUME NEW n \in Node, NEW p \in Node, OwnStep(n, p)
        PROVE  \/ UNCHANGED journal
               \/ journal' = [journal EXCEPT ![n] = @ \union {push[n].env.count}]
    BY <1>0, <2>1 DEF OwnStep, PushStart, SignRoot, GiveUp, PushDone, Receipt, ReceiptRaises,
       RecordQuorum, Send, ProveLink, Crash, Work, Reboot, origin
  <2>2. ASSUME NEW r \in requests, Answer(r) \/ Hold(r) PROVE UNCHANGED journal
    BY <2>2 DEF Answer, Hold, origin
  <2>3. ASSUME NEW r \in Request, HandlerStep(r) PROVE UNCHANGED journal
    BY <2>3 DEF HandlerStep, Persist, PersistRaises, WitnessPeerRoot, origin
  <2>4. CASE UNCHANGED vars
    BY <2>4 DEF vars, origin
  <2> QED
    BY <2>1, <2>2, <2>3, <2>4, NextIsStep
<1>2. \/ UNCHANGED stored
      \/ \E r \in Request : stored' = [stored EXCEPT ![r.to][r.from] = @ \union {r.env}]
  <2>1. ASSUME NEW n \in Node, NEW p \in Node, OwnStep(n, p) PROVE UNCHANGED stored
    BY <1>0, <2>1 DEF OwnStep, PushStart, SignRoot, GiveUp, PushDone, Receipt, ReceiptRaises,
       RecordQuorum, Send, ProveLink, Crash, Work, Reboot, store
  <2>2. ASSUME NEW r \in requests, Answer(r) \/ Hold(r) PROVE UNCHANGED stored
    BY <2>2 DEF Answer, Hold
  <2>3. ASSUME NEW r \in Request, HandlerStep(r)
        PROVE  \/ UNCHANGED stored
               \/ stored' = [stored EXCEPT ![r.to][r.from] = @ \union {r.env}]
    BY <2>3 DEF HandlerStep, Persist, PersistRaises, WitnessPeerRoot, store
  <2>4. CASE UNCHANGED vars
    BY <2>4 DEF vars, store
  <2> QED
    BY <2>1, <2>2, <2>3, <2>4, NextIsStep
<1>3. \A n \in Node : journal[n] \subseteq journal'[n]
  BY <1>0, <1>1
<1>4. \A n, m \in Node : stored[n][m] \subseteq stored'[n][m]
  <2>1. ASSUME NEW r \in Request, stored' = [stored EXCEPT ![r.to][r.from] = @ \union {r.env}],
               NEW n \in Node, NEW m \in Node
        PROVE  stored[n][m] \subseteq stored'[n][m]
    <3>1. r.to \in Node /\ r.from \in Node
      BY DEF Request
    <3> QED
      BY <1>0, <2>1, <3>1
  <2> QED
    BY <1>2, <2>1
<1> QED
  BY <1>3, <1>4

(* Roots that were paid with stay so, if nothing more is due ...           *)
LEMMA PaidStill ==
    ASSUME NEW n \in Node, NEW D, NEW D1, NEW S, RecordsPaid(D, S, n), D \subseteq D1,
           IsFiniteSet(D), Due(n) \in Nat, Due(n)' \in Nat, Due(n)' <= Due(n),
           journal[n] \subseteq journal'[n],
           \A m \in Node : stored[n][m] \subseteq stored'[n][m],
           \A h \in handling'[n] : <<h.req.from, h.req.env>> \notin S
    PROVE  RecordsPaid(D1, S, n)'
<1>1. Cardinality(S) \in Nat
  BY FS_Subset, FS_CardinalityType DEF RecordsPaid
<1>2. Due(n)' <= Cardinality(S)
  BY <1>1 DEF RecordsPaid
<1> QED
  BY <1>2 DEF RecordsPaid

(* ... and one more pays for one more record.                              *)
LEMMA PaidMore ==
    ASSUME NEW n \in Node, NEW D, NEW D1, NEW S, RecordsPaid(D, S, n), D \subseteq D1,
           IsFiniteSet(D), Due(n) \in Nat, Due(n)' \in Nat, Due(n)' <= Due(n) + 1,
           journal[n] \subseteq journal'[n],
           \A m \in Node : stored[n][m] \subseteq stored'[n][m],
           NEW m \in Node, NEW e \in Root, <<m, e>> \in D1, <<m, e>> \notin S,
           IF m = n THEN e.count \in journal'[n] ELSE e \in stored'[n][m],
           \A h \in handling'[n] : /\ <<h.req.from, h.req.env>> \notin S
                                   /\ <<h.req.from, h.req.env>> # <<m, e>>
    PROVE  RecordsPaid(D1, S \union {<<m, e>>}, n)'
<1> DEFINE x == <<m, e>>
           T == S \union {x}
<1>1. IsFiniteSet(S) /\ Cardinality(S) \in Nat
  BY FS_Subset, FS_CardinalityType DEF RecordsPaid
<1>2. Cardinality(T) = Cardinality(S) + 1
  <2> HIDE DEF x
  <2>1. x \notin S
    BY DEF x
  <2> QED
    BY <1>1, <2>1, FS_AddElement
<1>3. Due(n)' <= Cardinality(T)
  <2>1. Due(n) <= Cardinality(S)
    BY DEF RecordsPaid
  <2> HIDE DEF T
  <2> QED
    BY <1>1, <1>2, <2>1
<1>4. T \subseteq D1
  BY DEF RecordsPaid
<1>5. \A d \in Root : <<n, d>> \in T => d.count \in journal'[n]
  BY DEF RecordsPaid
<1>6. \A k \in Node \ {n}, d \in Root : <<k, d>> \in T => d \in stored'[n][k]
  BY DEF RecordsPaid
<1>7. \A h \in handling'[n] : <<h.req.from, h.req.env>> \notin T
  OBVIOUS
<1> QED
  BY <1>3, <1>4, <1>5, <1>6, <1>7 DEF RecordsPaid

(* Every record of bookkeeping goes on standing for a root of its own.     *)
LEMMA RecordsPaidNext ==
    ASSUME StateTypes, JournalTypes, [Next]_vars, faults'["rollback"] = 0, IsFiniteSet(AllWork),
           NEW D, NEW D1, D1 = Later(D), IsFiniteSet(D), RootsKnown(D), HandlersApart,
           NEW n \in Node, PushSigned(D, n), ReceiptsKept(n),
           NEW S, RecordsPaid(D, S, n)
    PROVE  \E S1 : RecordsPaid(D1, S1, n)'
<1>0. /\ chain \in [Node -> Seq(Rec)] /\ chain' \in [Node -> Seq(Rec)] /\ D \subseteq D1
      /\ handling \in [Node -> SUBSET Handler] /\ push[n].env \in Root
      /\ \A m \in Node : stored[n][m] \subseteq held[n][m] /\ held[n][m] \subseteq Root
      /\ \A h \in handling[n] : /\ h.req.from # n /\ h.req.from \in Node /\ h.req.env \in Root
                                /\ <<h.req.from, h.req.env>> \notin S
  <2>1. chain \in [Node -> Seq(Rec)] /\ chain' \in [Node -> Seq(Rec)] /\ D \subseteq D1
    BY ChainsGrow, LaterIs
  <2>2. handling \in [Node -> SUBSET Handler] /\ push[n].env \in Root
    BY DEF StateTypes, MessageTypes, PushTypes, Push
  <2>3. \A m \in Node : stored[n][m] \subseteq held[n][m] /\ held[n][m] \subseteq Root
    BY DEF StateTypes, StoreTypes, RootsKnown
  <2>4. ASSUME NEW h \in handling[n]
        PROVE  /\ h.req.from # n /\ h.req.from \in Node /\ h.req.env \in Root
               /\ <<h.req.from, h.req.env>> \notin S
    BY <2>2 DEF StateTypes, MessageTypes, Handler, Request, RecordsPaid
  <2> QED
    BY <2>1, <2>2, <2>3, <2>4
<1>1. /\ Due(n) \in Nat /\ Due(n)' \in Nat
      /\ Bystands(n) \/ Receipted(n) => Due(n)' <= Due(n) + 1
      /\ Bystands(n) /\ chain'[n] = chain[n] => Due(n)' <= Due(n)
      /\ Worked(n) \/ Answered(n) \/ (OwnMove(n) /\ ~Receipted(n)) => Due(n)' <= Due(n)
  BY <1>0, DueMoves
<1>2. journal[n] \subseteq journal'[n] /\ \A m \in Node : stored[n][m] \subseteq stored'[n][m]
  BY DisksGrow
<1>3. ASSUME Due(n)' <= Due(n),
             \A h \in handling'[n] : <<h.req.from, h.req.env>> \notin S
      PROVE  RecordsPaid(D1, S, n)'
  BY <1>0, <1>1, <1>2, <1>3, PaidStill
<1>4. CASE UNCHANGED vars
  <2>1. Due(n)' <= Due(n)
    <3>1. Bystands(n) /\ chain'[n] = chain[n]
      BY <1>4 DEF vars, origin, Bystands, Kept
    <3> QED
      BY <1>1, <3>1
  <2>2. \A h \in handling'[n] : <<h.req.from, h.req.env>> \notin S
    BY <1>0, <1>4 DEF vars
  <2> QED
    BY <1>3, <2>1, <2>2
<1>5. ASSUME NEW m \in Node, NEW p \in Node, OwnStep(m, p)
      PROVE  \E S1 : RecordsPaid(D1, S1, n)'
  <2>0. ~Rollback(m)
    BY ChainsGrow
  <2>1. \A h \in handling'[n] : h \in handling[n]
    <3>1. CASE Crash(m)
      BY <1>0, <3>1 DEF Crash, Reboot
    <3>2. CASE ~Crash(m)
      BY <1>5, <2>0, <3>2 DEF OwnStep, PushStart, SignRoot, GiveUp, PushDone, Receipt,
         ReceiptRaises, RecordQuorum, Send, ProveLink, Work
    <3> QED
      BY <3>1, <3>2
  <2>2. CASE n # m
    <3>1. Bystands(n)
      BY <1>5, <2>2, OwnMoves
    <3>2. chain'[n] = chain[n]
      BY <1>0, <1>5, <2>0, <2>2 DEF OwnStep, PushStart, SignRoot, GiveUp, PushDone, Receipt,
         ReceiptRaises, RecordQuorum, Send, ProveLink, Crash, Work, Extended
    <3> QED
      BY <1>0, <1>1, <1>3, <2>1, <3>1, <3>2
  <2>3. CASE n = m /\ ~Receipted(n)
    <3>1. Worked(n) \/ OwnMove(n)
      BY <1>5, <2>3, OwnMoves
    <3> QED
      BY <1>0, <1>1, <1>3, <2>1, <2>3, <3>1
  <2>4. CASE Receipted(n)
    <3>0. PICK e \in Root : e = push[n].env
      BY <1>0
    <3>1. push[n].pc = "send" /\ e.count \notin receipts[n] /\ e.count \in journal'[n]
      BY <2>4, <3>0 DEF Receipted, Goes, Anchors
    <3>2. <<n, e>> \in D1
      BY <1>0, <3>0, <3>1 DEF PushSigned
    <3>3. <<n, e>> \notin S
      BY <3>1 DEF RecordsPaid, ReceiptsKept
    <3>4. \A h \in handling'[n] : /\ <<h.req.from, h.req.env>> \notin S
                                  /\ <<h.req.from, h.req.env>> # <<n, e>>
      BY <1>0, <2>1
    <3>5. RecordsPaid(D1, S \union {<<n, e>>}, n)'
      BY <1>0, <1>1, <1>2, <2>4, <3>1, <3>2, <3>3, <3>4, PaidMore
    <3> QED
      BY <3>5
  <2> QED
    BY <2>2, <2>3, <2>4
<1>6. ASSUME NEW r \in requests, Answer(r) \/ Hold(r)
      PROVE  RecordsPaid(D1, S, n)'
  <2>0. /\ r \in Request /\ r.from \in Node /\ r.to \in Node /\ r.from # r.to /\ r.env \in Root
        /\ chain' = chain
    BY <1>6 DEF StateTypes, MessageTypes, Request, Answer, Hold
  <2>1. Due(n)' <= Due(n)
    BY <1>1, <1>6, <2>0, RequestMoves
  <2>2. CASE handling' = handling
    BY <1>0, <1>3, <2>1, <2>2
  <2>3. CASE Hold(r)
    <3>1. Handled(r, {}, {"persist"})
      BY <2>3 DEF Hold
    <3>2. \A h \in handling'[n] : h \in handling[n] \/ (n = r.to /\ h.req = r)
      BY <2>0, <3>1, HandlingIs
    <3>3. n = r.to => r.env \notin stored[n][r.from]
      <4>1. \A f \in held[r.to][r.from] : f.count < r.env.count
        BY <2>0, <2>3, OutcomeIs DEF Hold, StateTypes
      <4> QED
        BY <1>0, <2>0, <4>1 DEF Root
    <3>4. n = r.to => <<r.from, r.env>> \notin S
      BY <2>0, <3>3 DEF RecordsPaid
    <3> QED
      BY <1>0, <1>3, <2>1, <3>2, <3>4
  <2> QED
    BY <1>6, <2>2, <2>3 DEF Answer
<1>7. ASSUME NEW r \in Request, HandlerStep(r)
      PROVE  \E S1 : RecordsPaid(D1, S1, n)'
  <2>0. /\ r.to \in Node /\ r.from \in Node /\ r.env \in Root /\ r.from # r.to
        /\ Bystands(n) \/ Answered(n)
    BY <1>7, RequestMoves DEF Request, HandlerStep
  <2>1. CASE Persist(r)
    <3>1. /\ Handled(r, {"persist"}, {"append"}) /\ chain' = chain
          /\ [req |-> r, pc |-> "persist"] \in handling[r.to]
      BY <2>1 DEF Persist, At
    <3>2. \A h \in handling'[n] : \E g \in handling[n] : h.req = g.req
      BY <2>0, <3>1, HandlingIs
    <3>3. \A h \in handling'[n] : <<h.req.from, h.req.env>> \notin S
      BY <1>0, <3>2
    <3> QED
      BY <1>1, <1>3, <2>0, <3>1, <3>3
  <2>2. ASSUME \E from : Handled(r, from, {}), chain'[n] = chain[n]
        PROVE  \E S1 : RecordsPaid(D1, S1, n)'
    <3>1. \A h \in handling'[n] : h \in handling[n]
      BY <2>0, <2>2, HandlingIs
    <3> QED
      BY <1>0, <1>1, <1>3, <2>0, <2>2, <3>1
  <2>3. CASE PersistRaises(r)
    BY <2>2, <2>3 DEF PersistRaises
  <2>4. CASE WitnessPeerRoot(r) /\ n # r.to
    <3>1. chain'[n] = chain[n] /\ \E from : Handled(r, from, {})
      BY <1>0, <2>0, <2>4 DEF WitnessPeerRoot, Extended
    <3> QED
      BY <2>2, <3>1
  <2>5. CASE WitnessPeerRoot(r) /\ n = r.to
    <3> DEFINE g == [req |-> r, pc |-> "append"]
    <3>1. Handled(r, {"append"}, {}) /\ g \in handling[n]
      BY <2>5 DEF WitnessPeerRoot, At
    <3>2. \A h \in handling'[n] : h \in handling[n] /\ h # g
      BY <2>0, <2>5, <3>1, HandlingIs
    <3>3. g.req = r /\ g.pc = "append"
      OBVIOUS
    <3> HIDE DEF g
    <3>4. r.env \in stored[n][r.from] /\ <<r.from, r.env>> \notin S
      BY <1>0, <3>1, <3>3 DEF HandlersApart
    <3>5. <<r.from, r.env>> \in D1
      BY <1>0, <2>0, <3>4 DEF RootsKnown
    <3>6. \A h \in handling'[n] : /\ <<h.req.from, h.req.env>> \notin S
                                  /\ <<h.req.from, h.req.env>> # <<r.from, r.env>>
      BY <1>0, <3>1, <3>2, <3>3 DEF HandlersApart
    <3>7. Due(n)' <= Due(n) + 1
      BY <1>1, <2>0
    <3>8. r.env \in stored'[n][r.from]
      BY <1>2, <2>0, <3>4
    <3>9. RecordsPaid(D1, S \union {<<r.from, r.env>>}, n)'
      BY <1>0, <1>1, <1>2, <2>0, <2>5, <3>4, <3>5, <3>6, <3>7, <3>8, PaidMore
    <3> QED
      BY <3>9
  <2> QED
    BY <1>7, <2>1, <2>3, <2>4, <2>5 DEF HandlerStep
<1> QED
  BY <1>3, <1>4, <1>5, <1>6, <1>7, NextIsStep

(* What was signed and what is owed never exceed the funds.                *)
LEMMA SolventNext ==
    ASSUME StateTypes, JournalTypes, [Next]_vars, faults'["rollback"] = 0, QuorumInReach,
           NEW D, NEW D1, D1 = Later(D), RootsKnown(D), Solvent(D),
           \A n \in Node : PushSigned(D, n) /\ ReceiptsKept(n)
    PROVE  Solvent(D1)'
<1> DEFINE Owing == {n \in Pushing : Owes(n)}
           Twice == {n \in Pushing : OwesTwice(D, n)}
           Owing1 == {n \in Pushing : Owes(n)'}
           Twice1 == {n \in Pushing : OwesTwice(D1, n)'}
           Growth == Cardinality(D1) + Cardinality(Owing1) + Cardinality(Twice1)
           Total == Cardinality(D) + Cardinality(Owing) + Cardinality(Twice)
<1>0. /\ net' = net /\ Pushing \subseteq Node /\ Pushing' = Pushing /\ D \subseteq D1
      /\ chain \in [Node -> Seq(Rec)] /\ chain' \in [Node -> Seq(Rec)]
      /\ IsFiniteSet(D) /\ IsFiniteSet(AllWork) /\ Total <= Funds
      /\ IsFiniteSet(AllWork)' /\ Funds \in Nat /\ Funds' \in Nat /\ Funds' >= Funds
  <2>1. IsFiniteSet(D) /\ IsFiniteSet(AllWork) /\ Total <= Funds
    BY DEF Solvent
  <2>2. /\ net' = net /\ chain \in [Node -> Seq(Rec)] /\ chain' \in [Node -> Seq(Rec)]
    BY ChainsGrow
  <2>3. Pushing \subseteq Node /\ Pushing' = Pushing
    BY <2>2 DEF StateTypes, NodeTypes, Net, Pushing
  <2>4. D \subseteq D1
    BY LaterIs
  <2> QED
    BY <2>1, <2>2, <2>3, <2>4, FundsGrow
<1>1. /\ IsFiniteSet(Owing) /\ IsFiniteSet(Twice) /\ IsFiniteSet(Owing1) /\ IsFiniteSet(Twice1)
      /\ Cardinality(Owing) \in Nat /\ Cardinality(Twice) \in Nat
      /\ Cardinality(Owing1) \in Nat /\ Cardinality(Twice1) \in Nat /\ Cardinality(D) \in Nat
  <2>1. Owing \subseteq Node /\ Twice \subseteq Node /\ Owing1 \subseteq Node /\ Twice1 \subseteq Node
    BY <1>0
  <2> HIDE DEF Owing, Twice, Owing1, Twice1
  <2> QED
    BY <1>0, <2>1, PeersFinite, FS_CardinalityType
<1>2. \A m \in Node : Bystands(m) =>
        (Owes(m)' => Owes(m)) /\ (OwesTwice(D1, m)' => OwesTwice(D, m)) /\ ~Signed(m)
  <2>1. ASSUME NEW m \in Node, Bystands(m)
        PROVE  (Owes(m)' => Owes(m)) /\ (OwesTwice(D1, m)' => OwesTwice(D, m)) /\ ~Signed(m)
    <3>1. ~Signed(m)
      BY <2>1 DEF Bystands, Signed, Goes
    <3>2. NoNewDebt(m) /\ NoMoreDebt(D, D1, m)
      BY <1>0, <2>1, BystandersOweNoMore
    <3> QED
      BY <3>1, <3>2 DEF NoNewDebt, NoMoreDebt
  <2> QED
    BY <2>1
<1>3. ASSUME \A m \in Node : ~Signed(m) PROVE D1 = D
  BY <1>3 DEF Later
<1>4. ASSUME IsFiniteSet(D1), Growth <= Funds' PROVE Solvent(D1)'
  <2>1. /\ {n \in Pushing : Owes(n)}' = Owing1
        /\ {n \in Pushing : OwesTwice(D1, n)}' = Twice1
    BY <1>0
  <2> QED
    BY <1>0, <1>4, <2>1 DEF Solvent
<1>5. CASE \A m \in Node : Bystands(m)
  <2>1. D1 = D /\ Owing1 \subseteq Owing /\ Twice1 \subseteq Twice
    BY <1>0, <1>2, <1>3, <1>5
  <2> HIDE DEF Owing, Twice, Owing1, Twice1
  <2>2. Cardinality(Owing1) <= Cardinality(Owing) /\ Cardinality(Twice1) <= Cardinality(Twice)
    BY <1>1, <2>1, OneMoreOrLess
  <2>3. Growth <= Funds'
    BY <1>0, <1>1, <2>1, <2>2
  <2> QED
    BY <1>0, <1>4, <2>1, <2>3
<1>6. ASSUME NEW n \in Node, \A m \in Node \ {n} : Bystands(m),
             Worked(n) \/ Answered(n) \/ OwnMove(n), ~Signed(n)
      PROVE  Solvent(D1)'
  <2>1. /\ D1 = D
        /\ Owing1 \subseteq Owing \union {n} /\ Twice1 \subseteq Twice \union {n}
    BY <1>0, <1>2, <1>3, <1>6
  <2>2. \/ Owing1 \subseteq Owing /\ Twice1 \subseteq Twice
        \/ Paid /\ (Owing1 \subseteq Owing \/ Twice1 \subseteq Twice)
    <3>1. CASE n \notin Pushing
      BY <1>0, <1>2, <1>6, <3>1
    <3>2. CASE n \in Pushing
      <4>1. \/ NoNewDebt(n) /\ NoMoreDebt(D, D1, n)
            \/ Paid /\ (NoNewDebt(n) \/ NoMoreDebt(D, D1, n))
        BY <1>0, <1>6, <3>2, DebtsArePaid
      <4>2. NoNewDebt(n) => Owing1 \subseteq Owing
        BY <2>1 DEF NoNewDebt
      <4>3. NoMoreDebt(D, D1, n) => Twice1 \subseteq Twice
        BY <2>1 DEF NoMoreDebt
      <4> QED
        BY <4>1, <4>2, <4>3
    <3> QED
      BY <3>1, <3>2
  <2> HIDE DEF Owing, Twice, Owing1, Twice1
  <2>3. /\ Owing1 \subseteq Owing => Cardinality(Owing1) <= Cardinality(Owing)
        /\ Twice1 \subseteq Twice => Cardinality(Twice1) <= Cardinality(Twice)
        /\ Cardinality(Owing1) <= Cardinality(Owing) + 1
        /\ Cardinality(Twice1) <= Cardinality(Twice) + 1
    BY <1>1, <2>1, OneMoreOrLess
  <2>4. Growth <= Funds'
    <3>1. CASE Owing1 \subseteq Owing /\ Twice1 \subseteq Twice
      BY <1>0, <1>1, <2>1, <2>3, <3>1
    <3>2. CASE Paid /\ Owing1 \subseteq Owing
      BY <1>0, <1>1, <2>1, <2>3, <3>2 DEF Paid
    <3>3. CASE Paid /\ Twice1 \subseteq Twice
      BY <1>0, <1>1, <2>1, <2>3, <3>3 DEF Paid
    <3> QED
      BY <2>2, <3>1, <3>2, <3>3
  <2> QED
    BY <1>0, <1>4, <2>1, <2>4
<1>7. ASSUME NEW n \in Node, \A m \in Node \ {n} : Bystands(m), Signed(n), n \in Pushing
      PROVE  Solvent(D1)'
  <2>0. PICK x : x = <<n, push'[n].env>>
    OBVIOUS
  <2>1. D1 = D \union {x}
    BY <1>2, <1>7, <2>0 DEF Later
  <2>2. n \in Owing /\ n \notin Twice1 /\ (n \in Owing1 => n \in Twice \/ x \in D)
    BY <1>0, <1>7, <2>0, SigningPays
  <2>3. Owing1 \subseteq Owing /\ Twice1 \subseteq Twice
    BY <1>0, <1>2, <1>7, <2>2
  <2> HIDE DEF Owing, Twice, Owing1, Twice1
  <2>4. /\ IsFiniteSet(D1) /\ Cardinality(D1) \in Nat /\ Cardinality(D1) <= Cardinality(D) + 1
        /\ x \in D => D1 = D
    <3>1. IsFiniteSet(D)
      BY <1>0
    <3>2. IsFiniteSet(D1)
      BY <2>1, <3>1, FS_AddElement
    <3>3. D1 \subseteq D \union {x} /\ (x \in D => D1 = D)
      BY <2>1
    <3>4. Cardinality(D1) \in Nat /\ Cardinality(D1) <= Cardinality(D) + 1
      BY ONLY <3>1, <3>2, <3>3, OneMoreOrLess
    <3> QED
      BY <3>2, <3>3, <3>4
  <2>5. Cardinality(Owing1) <= Cardinality(Owing) /\ Cardinality(Twice1) <= Cardinality(Twice)
    BY <1>1, <2>3, OneMoreOrLess
  <2>6. n \notin Owing1 => Cardinality(Owing1) + 1 <= Cardinality(Owing)
    BY <1>1, <2>2, <2>3, OneMoreOrLess
  <2>7. n \in Twice => Cardinality(Twice1) + 1 <= Cardinality(Twice)
    BY <1>1, <2>2, <2>3, OneMoreOrLess
  <2>8. Growth <= Funds'
    BY <1>0, <1>1, <2>2, <2>4, <2>5, <2>6, <2>7
  <2> QED
    BY <1>4, <2>4, <2>8
<1> QED
  BY <1>0, <1>5, <1>6, <1>7, NodeMoves

----------------------------------------------------------------------------
(* The theorem.                                                            *)

(* At the start nothing is signed, owed or recorded ...                    *)
LEMMA PayInit == Init => PayInv
<1> SUFFICES ASSUME Init PROVE PayInv
  OBVIOUS
<1>1. /\ \A n \in Node : chain[n] = <<>> /\ receipts[n] = {} /\ journal[n] = {} /\ covered[n] = 0
      /\ \A n \in Node : push[n].pc = "idle" /\ handling[n] = {}
      /\ \A p, n \in Node : held[p][n] = {} /\ stored[p][n] = {}
      /\ requests = {} /\ net \in Net
  BY ReplicationAssumption DEF Init, NoPush
<1>2. JournalTypes
  BY DEF Init, JournalTypes
<1>3. HandlersApart /\ \A n \in Node : ReceiptsKept(n)
  BY <1>1 DEF HandlersApart, ReceiptsKept
<1>4. PICK D : D = {}
  OBVIOUS
<1>5. \A n \in Node : WorkOf(n) = {} /\ Len(chain[n]) = 0
  BY <1>1 DEF WorkOf
<1>6. AllWork = {}
  BY <1>5 DEF AllWork
<1>7. Solvent(D)
  <2> DEFINE Owing == {n \in Pushing : Owes(n)}
             Twice == {n \in Pushing : OwesTwice(D, n)}
  <2>1. Pushing \subseteq Node
    BY <1>1 DEF Net, Pushing
  <2>2. Owing \subseteq Pushing /\ Twice \subseteq Pushing /\ Owing \subseteq Node
        /\ Twice \subseteq Node
    BY <2>1
  <2>3. TotalFaults = 0
    BY DEF Init, TotalFaults, Fault
  <2>4. IsFiniteSet({}) /\ Cardinality({}) = 0
    BY FS_EmptySet
  <2> HIDE DEF Owing, Twice
  <2>5. /\ Cardinality(Owing) <= Cardinality(Pushing) /\ Cardinality(Owing) \in Nat
        /\ Cardinality(Twice) <= Cardinality(Pushing) /\ Cardinality(Twice) \in Nat
        /\ Cardinality(Pushing) \in Nat
    BY <2>1, <2>2, PeersFinite, FS_Subset
  <2>6. Cardinality(D) + Cardinality(Owing) + Cardinality(Twice) <= Funds
    BY <1>4, <1>6, <2>3, <2>4, <2>5 DEF Funds
  <2> QED
    BY <1>4, <1>6, <2>4, <2>6 DEF Solvent, Owing, Twice
<1>8. RootsKnown(D)
  BY <1>1, <1>4 DEF RootsKnown
<1>9. ASSUME NEW n \in Node PROVE PushSigned(D, n) /\ RecordsPaid(D, D, n)
  <2>1. PushSigned(D, n)
    BY <1>1 DEF PushSigned
  <2>2. Due(n) = 0 /\ Cardinality(D) = 0
    <3>1. Cardinality(WorkOf(n)) = 0 /\ Cardinality(D) = 0
      BY <1>4, <1>5, FS_EmptySet
    <3>2. Bookkeeping(n) = 0
      BY <1>5, <3>1 DEF Bookkeeping
    <3>3. push[n].pc # "record"
      BY <1>1
    <3> QED
      BY <3>1, <3>2, <3>3 DEF Due
  <2>3. RecordsPaid(D, D, n)
    BY <1>1, <1>4, <2>2 DEF RecordsPaid
  <2> QED
    BY <2>1, <2>3
<1>10. Accounts(D)
  BY <1>4, <1>7, <1>8, <1>9 DEF Accounts
<1> QED
  BY <1>2, <1>3, <1>10 DEF PayInv

(* ... and every step keeps the accounts.                                  *)
LEMMA PayNext ==
    ASSUME StateTypes, StateTypes', PayInv, [Next]_vars
    PROVE  PayInv'
<1> SUFFICES ASSUME faults'["rollback"] = 0, QuorumInReach'
             PROVE  /\ JournalTypes' /\ HandlersApart' /\ \A n \in Node : ReceiptsKept(n)'
                    /\ \E D : Accounts(D)'
  BY DEF PayInv
<1>1. /\ faults["rollback"] = 0 /\ net' = net /\ chain' \in [Node -> Seq(Rec)]
      /\ push' \in [Node -> Push]
  BY ChainsGrow DEF StateTypes, PushTypes
<1>2. QuorumInReach
  BY <1>1 DEF QuorumInReach, K, Pushing, Unreachable
<1>3. /\ JournalTypes /\ HandlersApart /\ \A n \in Node : ReceiptsKept(n)
      /\ \E D : Accounts(D)
  BY <1>1, <1>2 DEF PayInv
<1>4. PICK D : Accounts(D)
  BY <1>3
<1>5. /\ D \subseteq Node \X Root /\ RootsKnown(D) /\ Solvent(D)
      /\ IsFiniteSet(D) /\ IsFiniteSet(AllWork)
      /\ \A n \in Node : PushSigned(D, n) /\ \E S : RecordsPaid(D, S, n)
  BY <1>4 DEF Accounts, Solvent
<1>6. PICK D1 : D1 = Later(D)
  OBVIOUS
<1>7. JournalTypes'
  BY <1>3, JournalTypesNext
<1>8. HandlersApart'
  BY <1>3, <1>5, HandlersApartNext DEF RootsKnown
<1>9. ASSUME NEW n \in Node
      PROVE  Bystands(n) \/ Worked(n) \/ Answered(n) \/ OwnMove(n)
  BY <1>3, <1>5, NodeMoves
<1>10. \A n \in Node : ReceiptsKept(n)'
  BY <1>3, <1>9, ReceiptsNext
<1>11. RootsKnown(D1)'
  BY <1>1, <1>5, <1>6, RootsKnownNext
<1>12. Solvent(D1)'
  BY <1>2, <1>3, <1>5, <1>6, SolventNext
<1>13. ASSUME NEW n \in Node PROVE PushSigned(D1, n)' /\ \E S : RecordsPaid(D1, S, n)'
  <2>1. PushSigned(D1, n)'
    <3>1. \A e \in Root : <<n, e>> \in D => OnChain(n, e)
      BY <1>5 DEF RootsKnown
    <3> QED
      BY <1>1, <1>5, <1>6, <1>9, <3>1, PushSignedNext
  <2>2. PICK S : RecordsPaid(D, S, n)
    BY <1>5
  <2>3. \E S1 : RecordsPaid(D1, S1, n)'
    BY <1>3, <1>5, <1>6, <2>2, RecordsPaidNext
  <2> QED
    BY <2>1, <2>3
<1>14. D1 \subseteq Node \X Root
  BY <1>1, <1>5, <1>6 DEF Later, Push
<1>15. Accounts(D1)'
  BY <1>11, <1>12, <1>13, <1>14 DEF Accounts
<1> QED
  BY <1>7, <1>8, <1>10, <1>15

(* Accounts that are kept show that the bookkeeping is paid for.           *)
LEMMA PaidForIs == StateTypes /\ PayInv => BookkeepingIsPaidFor
<1> SUFFICES ASSUME StateTypes, PayInv, faults["rollback"] = 0, QuorumInReach, NEW n \in Node
             PROVE  Bookkeeping(n) <= Funds
  BY DEF BookkeepingIsPaidFor, Bookkeeping, Funds
<1>1. PICK D : Accounts(D)
  BY DEF PayInv
<1>2. IsFiniteSet(D) /\ IsFiniteSet(AllWork)
      /\ Cardinality(D) + Cardinality({m \in Pushing : Owes(m)})
           + Cardinality({m \in Pushing : OwesTwice(D, m)}) <= Funds
  BY <1>1 DEF Accounts, Solvent
<1>3. /\ Cardinality({m \in Pushing : Owes(m)}) \in Nat
      /\ Cardinality({m \in Pushing : OwesTwice(D, m)}) \in Nat
      /\ Cardinality(Pushing) \in Nat
  <2>1. Pushing \subseteq Node
    BY DEF StateTypes, NodeTypes, Net, Pushing
  <2> QED
    BY <2>1, PeersFinite
<1>4. Funds \in Nat
  BY <1>2, <1>3, FS_CardinalityType DEF Funds, TotalFaults, StateTypes, NodeTypes, Fault
<1>5. PICK S : RecordsPaid(D, S, n)
  BY <1>1 DEF Accounts
<1>6. Cardinality(S) \in Nat /\ Cardinality(D) \in Nat /\ Cardinality(S) <= Cardinality(D)
  BY <1>2, <1>5, FS_Subset, FS_CardinalityType DEF RecordsPaid
<1>7. Due(n) <= Cardinality(S)
  BY <1>5 DEF RecordsPaid
<1>8. Bookkeeping(n) \in Nat /\ Bookkeeping(n) <= Due(n) /\ Due(n) \in Nat
  <2>1. Bookkeeping(n) \in Nat
    <3>1. chain[n] \in Seq(Rec)
      BY DEF StateTypes, NodeTypes
    <3> QED
      BY <3>1, WorkIsCounted DEF Bookkeeping, WorkOf
  <2> QED
    BY <2>1 DEF Due
<1> QED
  BY <1>2, <1>3, <1>4, <1>6, <1>7, <1>8

(* _push_loop: unless a chain was rolled back, and where a quorum is in    *)
(* reach, every record of a node's bookkeeping is paid for by work, by a   *)
(* fault or by the way to a first receipt: idle nodes do not grow each     *)
(* other's chains.                                                         *)
THEOREM BookkeepingAlwaysPaid == Spec => []BookkeepingIsPaidFor
<1>1. StateTypes /\ PayInv /\ [Next]_vars => StateTypes' /\ PayInv'
  BY TypesNext, PayNext
<1> QED
  BY <1>1, TypesInit, PayInit, PaidForIs, PTL DEF Spec
=============================================================================
