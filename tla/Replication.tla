------------------------------ MODULE Replication -----------------------------
(***************************************************************************)
(* core/replication.py and its handlers in node/daemon.py: every node      *)
(* pushes its signed root to its peers, a peer stores what is new, refuses *)
(* what is stale, keeps what conflicts as evidence, checkpoints a stored   *)
(* root on its own chain (PEER_ROOT) and acknowledges; K acknowledgements  *)
(* of one root make a receipt and an ANCHOR_QUORUM record.                 *)
(*                                                                         *)
(* Hashes are ideal: the root over n records is the sequence of those n    *)
(* records.  `life' tells records written after a node was rolled back to  *)
(* an older copy of its chain from those it lost.  A node runs one push,   *)
(* in its replication thread, and any number of request handlers, which    *)
(* share the replica store without a lock; the lookup and the update of    *)
(* its memory are one step, the write to its journal is the next one.      *)
(* A consistency proof is made, sent and checked in one step: one that is  *)
(* not answered in time is taken not to have arrived.  Signatures are      *)
(* ideal, every root is of the current algorithm, and the segments that a  *)
(* receiver may ask for in the same response are left out.                 *)
(***************************************************************************)
EXTENDS Naturals, Sequences, FiniteSets, FiniteSetsExt, SequencesExt, Functions

CONSTANTS Node,
          Nets,     \* the networks the nodes may find themselves in
          MaxWork

Fault == {"loss", "crash", "io", "rollback"}
Net == [k : Nat \ {0},
        pushing : SUBSET Node,      \* the nodes that run the replication thread
        unreachable : SUBSET Node,  \* the nodes no request reaches
        beings : BOOLEAN,           \* does a Being append under chain.lock alone?
        maxFaults : Nat]

ASSUME ReplicationAssumption ==
    IsFiniteSet(Node) /\ Nets \subseteq Net /\ MaxWork \in Nat

VARIABLES
    net,        \* the network, which does not change
    chain,      \* the witness chain of each node, durable
    held,       \* ReplicaStore._roots[origin], per receiver
    stored,     \* the REPLICA_ROOT entries of its journal
    links,      \* ReplicaStore._verified_pairs[origin], journaled
    evidence,   \* the origins a receiver holds evidence against, journaled
    acks,       \* QuorumTracker._acks, memory
    receipts,   \* the counts of Node.receipts, memory
    journal,    \* the counts in the receipt journal
    covered,    \* Node._anchor_covered
    lastSub,    \* last_sub of the push loop: the position of that record
    push,       \* the push in progress
    handling,   \* the accepted roots a node has yet to persist or to witness
    requests,   \* requests on their way
    quorums,    \* ghost: the envelopes receipts were assembled for
    faults      \* how often each fault happened

store == <<held, stored, links, evidence>>
origin == <<acks, receipts, journal, covered, lastSub, quorums>>
vars == <<net, chain, store, origin, push, handling, requests, faults>>

K == net.k
Pushing == net.pushing
Unreachable == net.unreachable

Kind == {"WORK", "PEER_ROOT", "ANCHOR_QUORUM"}
Rec == [kind : Kind, life : Nat]
Root == [count : Nat, root : Seq(Rec)]
Ack == [env : Root, by : Node]
Request == [from : Node, to : Node, env : Root, try : Nat]
Handler == [req : Request, pc : {"persist", "append"}]
Push == [pc : {"idle", "reading", "send", "wait", "prove", "record"}, env : Root,
         sub : Nat, todo : SUBSET Node, at : SUBSET Node, old : Nat, try : Nat]
NoRoot == [count |-> 0, root |-> <<>>]
NoPush == [pc |-> "idle", env |-> NoRoot, sub |-> 0, todo |-> {}, at |-> {}, old |-> 0,
           try |-> 0]

TypeOK ==
    /\ net \in Nets
    /\ chain \in [Node -> Seq(Rec)]
    /\ held \in [Node -> [Node -> SUBSET Root]]
    /\ stored \in [Node -> [Node -> SUBSET Root]]
    /\ links \in [Node -> [Node -> SUBSET (Nat \X Nat)]]
    /\ evidence \in [Node -> SUBSET Node]
    /\ acks \in [Node -> SUBSET Ack]
    /\ receipts \in [Node -> SUBSET Nat] /\ journal \in [Node -> SUBSET Nat]
    /\ \A n \in Node : covered[n] \in 0..Len(chain[n]) \/ faults["rollback"] > 0
    /\ lastSub \in [Node -> Nat]
    /\ push \in [Node -> Push]
    /\ handling \in [Node -> SUBSET Handler] /\ requests \subseteq Request
    /\ quorums \in [Node -> SUBSET Root]
    /\ faults \in [Fault -> Nat]

Init ==
    /\ net \in Nets
    /\ chain = [n \in Node |-> <<>>]
    /\ held = [p \in Node |-> [n \in Node |-> {}]]
    /\ stored = [p \in Node |-> [n \in Node |-> {}]]
    /\ links = [p \in Node |-> [n \in Node |-> {}]]
    /\ evidence = [p \in Node |-> {}]
    /\ acks = [n \in Node |-> {}]
    /\ receipts = [n \in Node |-> {}] /\ journal = [n \in Node |-> {}]
    /\ covered = [n \in Node |-> 0]
    /\ lastSub = [n \in Node |-> 0]
    /\ push = [n \in Node |-> NoPush]
    /\ handling = [n \in Node |-> {}] /\ requests = {}
    /\ quorums = [n \in Node |-> {}]
    /\ faults = [f \in Fault |-> 0]

Extended(n, kind) ==
    [chain EXCEPT ![n] = Append(@, [kind |-> kind, life |-> faults["rollback"]])]

TotalFaults == faults["loss"] + faults["crash"] + faults["io"] + faults["rollback"]

Happens(f) == /\ TotalFaults < net.maxFaults
              /\ faults' = [faults EXCEPT ![f] = @ + 1]

(* signed_root holds the node lock over its reads of the chain.            *)
NodeLockFree(n) == push[n].pc # "reading"

----------------------------------------------------------------------------
(* The origin: _push_loop and push_to_peers.                               *)

(* Mutant: only the node's own receipts are taken for bookkeeping.         *)
HeadOnPeerRoots(n) ==
    Max({0} \union {i \in 1..Len(chain[n]) : chain[n][i].kind # "ANCHOR_QUORUM"})

(* The last record that is not bookkeeping.                                *)
SubstantiveHead(n) ==
    Max({0} \union {i \in 1..Len(chain[n]) : chain[n][i].kind = "WORK"})

PushWanted(n) == SubstantiveHead(n) # lastSub[n] \/ receipts[n] = {}

(* signed_root reads the count ...                                         *)
PushStart(n) ==
    /\ push[n].pc = "idle" /\ PushWanted(n)
    /\ push' = [push EXCEPT ![n] =
         [NoPush EXCEPT !.pc = "reading", !.sub = SubstantiveHead(n),
                        !.env = [NoRoot EXCEPT !.count = Len(chain[n])]]]
    /\ UNCHANGED <<chain, store, origin, handling, requests, faults>>

(* ... and then the root.                                                  *)
SignRoot(n) ==
    /\ push[n].pc = "reading"
    /\ push' = [push EXCEPT ![n].pc = "send", ![n].env.root = chain[n],
                            ![n].todo = Node \ {n}]
    /\ UNCHANGED <<chain, store, origin, handling, requests, faults>>

Send(n, p) ==
    /\ push[n].pc = "send" /\ p \in push[n].todo
    /\ LET try == TotalFaults IN
       /\ push' = [push EXCEPT ![n].pc = "wait", ![n].todo = @ \ {p}, ![n].at = {p},
                               ![n].try = try]
       /\ requests' = IF p \in Unreachable THEN requests
                      ELSE requests \union {[from |-> n, to |-> p, env |-> push[n].env,
                                             try |-> try]}
    /\ UNCHANGED <<chain, store, origin, handling, faults>>

(* The request times out or is refused; it may still arrive later.         *)
GiveUp(n) ==
    /\ push[n].pc \in {"wait", "prove"}
    /\ IF push[n].at \subseteq Unreachable THEN UNCHANGED faults ELSE Happens("loss")
    /\ push' = [push EXCEPT ![n].pc = "send", ![n].at = {}, ![n].old = 0]
    /\ UNCHANGED <<chain, store, origin, handling, requests>>

(* Mutant: acknowledgements are not kept apart by root.                    *)
AckedAny(n, e) == {a.by : a \in acks[n]}

(* QuorumTracker._acks at one (count, root).                               *)
AckedBy(n, e) == {a.by : a \in {b \in acks[n] : b.env = e}}

Completed(n) == /\ push' = [push EXCEPT ![n] = NoPush]
                /\ lastSub' = [lastSub EXCEPT ![n] = push[n].sub]

(* QuorumTracker.receipt and the recursion guard.                          *)
Anchors(n) ==
    LET e == push[n].env IN
    /\ Cardinality(AckedBy(n, e)) >= K
    /\ e.count \notin receipts[n]
    /\ \E i \in (covered[n] + 1)..Len(chain[n]) : chain[n][i].kind # "ANCHOR_QUORUM"

PushDone(n) ==
    /\ push[n].pc = "send" /\ push[n].todo = {} /\ ~Anchors(n)
    /\ Completed(n)
    /\ UNCHANGED <<chain, store, acks, receipts, journal, covered, quorums, handling,
                   requests, faults>>

(* The receipt is held in memory, then appended to its journal ...         *)
Receipt(n) ==
    /\ push[n].pc = "send" /\ push[n].todo = {} /\ Anchors(n)
    /\ receipts' = [receipts EXCEPT ![n] = @ \union {push[n].env.count}]
    /\ journal' = [journal EXCEPT ![n] = @ \union {push[n].env.count}]
    /\ quorums' = [quorums EXCEPT ![n] = @ \union {push[n].env}]
    /\ push' = [push EXCEPT ![n].pc = "record"]
    /\ UNCHANGED <<chain, store, acks, covered, lastSub, handling, requests, faults>>

(* ... which may raise: the push ends and last_sub stays.                  *)
ReceiptRaises(n) ==
    /\ push[n].pc = "send" /\ push[n].todo = {} /\ Anchors(n)
    /\ Happens("io")
    /\ receipts' = [receipts EXCEPT ![n] = @ \union {push[n].env.count}]
    /\ push' = [push EXCEPT ![n] = NoPush]
    /\ UNCHANGED <<chain, store, acks, journal, covered, lastSub, quorums, handling,
                   requests>>

RecordQuorum(n) ==
    /\ push[n].pc = "record"
    /\ chain' = Extended(n, "ANCHOR_QUORUM")
    /\ covered' = [covered EXCEPT ![n] = push[n].env.count]
    /\ Completed(n)
    /\ UNCHANGED <<store, acks, receipts, journal, quorums, handling, requests, faults>>

----------------------------------------------------------------------------
(* The receiver: receive_root and ReplicaStore.accept.                     *)

HeldAt(p, n, count) == {e \in held[p][n] : e.count = count}

Stale(p, n, count) == \E e \in held[p][n] : e.count > count

(* Mutant: a root that is late is taken for a conflicting one.             *)
OutcomeLate(p, n, e) ==
    CASE HeldAt(p, n, e.count) = {e} -> "duplicate"
      [] HeldAt(p, n, e.count) # {e} /\ \E h \in held[p][n] : h.count >= e.count
            -> "divergence"
      [] OTHER -> "stored"

(* The outcome of accept for an envelope from n.                           *)
Outcome(p, n, e) ==
    CASE HeldAt(p, n, e.count) = {e} -> "duplicate"
      [] HeldAt(p, n, e.count) \notin {{}, {e}} -> "divergence"
      [] HeldAt(p, n, e.count) = {} /\ Stale(p, n, e.count) -> "stale"
      [] OTHER -> "stored"

(* The connection the response travels on is still open.                   *)
Waiting(r) == /\ push[r.from].pc = "wait" /\ push[r.from].at = {r.to}
              /\ push[r.from].env = r.env /\ push[r.from].try = r.try

Wanted(p, n) ==
    LET counts == {e.count : e \in held[p][n]}
        new == Max(counts)
        old == Max(counts \ {new})
    IN IF Cardinality(counts) < 2 \/ <<old, new>> \in links[p][n] THEN 0 ELSE old

(* The response: an acknowledgement, and the link the receiver wants.      *)
Respond(r, acked, wanted) ==
    IF Waiting(r)
    THEN /\ acks' = [acks EXCEPT ![r.from] =
                       IF acked THEN @ \union {[env |-> r.env, by |-> r.to]} ELSE @]
         /\ push' = [push EXCEPT ![r.from].pc = IF wanted > 0 THEN "prove" ELSE "send",
                                 ![r.from].old = wanted,
                                 ![r.from].at = IF wanted > 0 THEN @ ELSE {}]
    ELSE UNCHANGED <<acks, push>>

(* A root that is not stored: its answer needs nothing written but         *)
(* evidence, and a duplicate is acknowledged again.                        *)
Answer(r) ==
    /\ r \in requests
    /\ LET outcome == Outcome(r.to, r.from, r.env) IN
       /\ outcome # "stored"
       /\ evidence' = [evidence EXCEPT ![r.to] =
                         IF outcome = "divergence" THEN @ \union {r.from} ELSE @]
       /\ Respond(r, outcome = "duplicate",
                  IF outcome = "duplicate" THEN Wanted(r.to, r.from) ELSE 0)
    /\ requests' = requests \ {r}
    /\ UNCHANGED <<chain, held, stored, links, receipts, journal, covered, lastSub,
                   quorums, handling, faults>>

Handled(r, from, to) ==
    handling' = [handling EXCEPT ![r.to] =
                   (@ \ {[req |-> r, pc |-> pc] : pc \in from})
                     \union {[req |-> r, pc |-> pc] : pc \in to}]

(* A new root is held in memory ...                                        *)
Hold(r) ==
    /\ r \in requests /\ Outcome(r.to, r.from, r.env) = "stored"
    /\ held' = [held EXCEPT ![r.to][r.from] = @ \union {r.env}]
    /\ Handled(r, {}, {"persist"})
    /\ requests' = requests \ {r}
    /\ UNCHANGED <<chain, stored, links, evidence, origin, push, faults>>

At(r, pc) == [req |-> r, pc |-> pc] \in handling[r.to]

(* ... then persisted ...                                                  *)
Persist(r) ==
    /\ At(r, "persist")
    /\ stored' = [stored EXCEPT ![r.to][r.from] = @ \union {r.env}]
    /\ Handled(r, {"persist"}, {"append"})
    /\ UNCHANGED <<chain, held, links, evidence, origin, push, requests, faults>>

(* ... unless the write fails, when the root stays held and the request    *)
(* ends in an error ...                                                    *)
PersistRaises(r) ==
    /\ At(r, "persist")
    /\ Happens("io")
    /\ Respond(r, FALSE, 0)
    /\ Handled(r, {"persist"}, {})
    /\ UNCHANGED <<chain, store, receipts, journal, covered, lastSub, quorums, requests>>

(* ... then witnessed on the receiver's own chain and acknowledged.        *)
WitnessPeerRoot(r) ==
    /\ At(r, "append") /\ NodeLockFree(r.to)
    /\ chain' = Extended(r.to, "PEER_ROOT")
    /\ Respond(r, TRUE, Wanted(r.to, r.from))
    /\ Handled(r, {"append"}, {})
    /\ UNCHANGED <<store, receipts, journal, covered, lastSub, quorums, requests, faults>>

----------------------------------------------------------------------------
(* The consistency proof the receiver asked for.  The claim is made from   *)
(* the chain as it is now, which may have grown past the root that was     *)
(* pushed, and the receiver pins it to the roots it holds at both counts.  *)

(* Mutant: the claim is checked against itself only.                       *)
Unpinned(p, n, claim) == TRUE

Pinned(p, n, claim) == HeldAt(p, n, claim.count) \subseteq {claim}

Claim(n, count) == [count |-> count, root |-> SubSeq(chain[n], 1, count)]

ProveLink(n, p) ==
    /\ push[n].pc = "prove" /\ push[n].at = {p} /\ NodeLockFree(n)
    /\ LET old == push[n].old
           new == Len(chain[n])
           proved == Pinned(p, n, Claim(n, old)) /\ Pinned(p, n, Claim(n, new))
       IN IF old > new THEN UNCHANGED <<links, evidence>>
          ELSE /\ links' = [links EXCEPT ![p][n] =
                              IF proved THEN @ \union {<<old, new>>} ELSE @]
               /\ evidence' = [evidence EXCEPT ![p] =
                              IF proved THEN @ ELSE @ \union {n}]
    /\ push' = [push EXCEPT ![n].pc = "send", ![n].at = {}, ![n].old = 0]
    /\ UNCHANGED <<chain, held, stored, origin, handling, requests, faults>>

----------------------------------------------------------------------------
(* Everyone else.                                                          *)

(* A request handler appends under the node lock, a Being without it.      *)
Work(n) ==
    /\ Cardinality({i \in 1..Len(chain[n]) : chain[n][i].kind = "WORK"}) < MaxWork
    /\ NodeLockFree(n) \/ net.beings
    /\ chain' = Extended(n, "WORK")
    /\ UNCHANGED <<store, origin, push, handling, requests, faults>>

(* _anchor_covered after a restart.                                        *)
Restored(n) == Max({0} \union journal[n])

Reboot(n) ==
    /\ held' = [held EXCEPT ![n] = stored[n]]
    /\ acks' = [acks EXCEPT ![n] = {}]
    /\ receipts' = [receipts EXCEPT ![n] = journal[n]]
    /\ covered' = [covered EXCEPT ![n] = Restored(n)]
    /\ lastSub' = [lastSub EXCEPT ![n] = 0]
    /\ push' = [push EXCEPT ![n] = NoPush]
    /\ handling' = [handling EXCEPT ![n] = {}]
    /\ UNCHANGED <<stored, links, evidence, journal, quorums, requests>>

Crash(n) ==
    /\ Happens("crash") /\ Reboot(n)
    /\ UNCHANGED chain

(* The node comes back from an older copy of its chain.                    *)
Rollback(n) ==
    /\ Happens("rollback") /\ Reboot(n)
    /\ \E len \in 0..(Len(chain[n]) - 1) :
         chain' = [chain EXCEPT ![n] = SubSeq(@, 1, len)]

Step ==
    \/ \E n \in Pushing : \/ PushStart(n) \/ SignRoot(n) \/ GiveUp(n)
                          \/ PushDone(n) \/ Receipt(n) \/ ReceiptRaises(n)
                          \/ RecordQuorum(n) \/ Rollback(n)
                          \/ \E p \in Node : Send(n, p) \/ ProveLink(n, p)
    \/ \E r \in requests : Answer(r) \/ Hold(r)
    \/ \E n \in Node : \/ \E h \in handling[n] : \/ Persist(h.req)
                                                \/ PersistRaises(h.req)
                                                \/ WitnessPeerRoot(h.req)
                       \/ Crash(n)
    \/ \E n \in Pushing : Work(n)

Next == Step /\ UNCHANGED net

Spec == Init /\ [][Next]_vars

----------------------------------------------------------------------------
(* Properties.                                                             *)

HoldersOf(n, e) == {p \in Node \ {n} : e \in held[p][n]}

(* The restarts of n's peers: only nodes that push are ever rolled back.   *)
Restarts(n) == faults["crash"] + IF Pushing \subseteq {n} THEN 0 ELSE faults["rollback"]

(* Whatever is lost, late, repeated or reordered, a receipt for a root     *)
(* means that K distinct peers hold that very root, and only the restart   *)
(* of a peer can cost a copy, one each.                                    *)
QuorumIsHeld ==
    \A n \in Node : \A e \in quorums[n] :
        Cardinality(HoldersOf(n, e)) + Restarts(n) >= K

(* signed_root: "The origin must never sign an internally inconsistent     *)
(* root".  Late, repeated and reordered roots, proofs made from a chain    *)
(* that has grown since, and crashes never leave evidence of equivocation  *)
(* or of a false prefix claim against a node that was not rolled back and  *)
(* hosts no Being (one that appends between the reads of signed_root makes *)
(* it sign a root that its own proof contradicts later).                   *)
HonestNeverAccused ==
    faults["rollback"] = 0 /\ ~net.beings => \A p \in Node : evidence[p] = {}

(* consistency_wanted: "None when there is nothing (left) to prove".  A    *)
(* receiver whose two newest roots of an origin are of different histories *)
(* still wants a proof, or has the evidence: proofs of a chain that grew   *)
(* or was rolled back since never pass for the one that was asked for.  (A *)
(* restart may lose a root that was held and not yet persisted, so this is *)
(* said of receivers that have not restarted.)                             *)
NeverRestarted(p) == faults["crash"] = 0 /\ (p \notin Pushing \/ faults["rollback"] = 0)

NoSilentFork ==
    \A p, n \in Node : NeverRestarted(p) => \A d, e \in held[p][n] :
        LET counts == {f.count : f \in held[p][n]} IN
        /\ 0 < d.count /\ d.count < e.count
        /\ e.count = Max(counts) /\ d.count = Max(counts \ {e.count})
        /\ Wanted(p, n) = 0 /\ n \notin evidence[p]
        => IsPrefix(d.root, e.root)

(* _push_loop: without the substantive head "two idle nodes would grow     *)
(* each other's chains forever".  A node's bookkeeping is paid for: every  *)
(* record of it stands for a push, and every push for a work record, a     *)
(* fault, or the way to a node's first receipt.  (A rollback takes work    *)
(* back that was paid for; and where the peers that can be reached are too *)
(* few for a receipt, the nodes push for one again and again.)             *)
QuorumInReach ==
    \A n \in Pushing : K <= Cardinality(Node \ ({n} \union Unreachable))

WorkOf(n) == {i \in 1..Len(chain[n]) : chain[n][i].kind = "WORK"}
AllWork == UNION {{n} \X WorkOf(n) : n \in Node}

BookkeepingIsPaidFor ==
    faults["rollback"] = 0 /\ QuorumInReach => \A n \in Node :
        Len(chain[n]) - Cardinality(WorkOf(n)) <=
            Cardinality(AllWork) + 2 * Cardinality(Pushing) + TotalFaults
=============================================================================
