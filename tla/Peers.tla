------------------------------- MODULE Peers -------------------------------
(***************************************************************************)
(* Peer admission and authenticated requests: core/peers.py.  The registry *)
(* keeps admitted bundles and a status per node in memory and journals     *)
(* both; a reload replays the journal.  Neither register nor set_status    *)
(* takes a lock, so a registration is three steps of its request thread:   *)
(* the read of `already`, the update of memory, the journal append.  The   *)
(* authenticator is two: the checks of the envelope (membership, binding,  *)
(* freshness, signature), then the locked test-and-insert of the nonce.    *)
(***************************************************************************)
EXTENDS Integers, Sequences, FiniteSets

CONSTANTS
    NodeIds,         \* peers that may ask for admission
    Fresh,           \* RequestAuthenticator.window_s
    NonceCapacity    \* RequestAuthenticator._capacity

ASSUME PeersAssumption == Fresh \in Nat /\ NonceCapacity \in Nat

VARIABLES
    peers,     \* PeerRegistry._peers: node ids with an admitted bundle
    status,    \* PeerRegistry._status
    journal,   \* the registry's journal, a sequence of events
    seen,      \* RequestAuthenticator._seen: set of [nonce, expiry]
    honoured,  \* ghost: bag (as a sequence) of nonces accepted since boot
    governed,  \* ghost: what the last completed set_status said of a node
    raced      \* ghost: nodes whose first registration overlapped another
               \* registration or a change of status, or was not journaled

peersVars == <<peers, status, journal, seen, honoured, governed, raced>>

PeersInit ==
    /\ peers = {} /\ journal = <<>> /\ raced = {}
    /\ status = [n \in NodeIds |-> "none"]
    /\ seen = {} /\ honoured = <<>>
    /\ governed = [n \in NodeIds |-> "none"]

(* A bundle, reduced to the checks of verify_admitted_record: the record  *)
(* is signed by the key that derives its node id, and countersigned by a   *)
(* recognised authority over this very record.                             *)
VerifyAdmitted(bundle) == bundle.selfSigned /\ bundle.countersigned

(* Mutant: every registration makes the node active.                       *)
RegisterMemoryAlways(node, already) ==
    /\ peers' = peers \union {node}
    /\ status' = [status EXCEPT ![node] = "active"]
    /\ raced' = IF ~already /\ node \in peers THEN raced \union {node} ELSE raced
    /\ UNCHANGED <<journal, seen, honoured, governed>>

(* register, after the bundle verified: memory.  A node already known      *)
(* keeps its status.                                                       *)
RegisterMemory(node, already) ==
    /\ peers' = peers \union {node}
    /\ status' = IF already THEN status ELSE [status EXCEPT ![node] = "active"]
    /\ raced' = IF ~already /\ node \in peers THEN raced \union {node} ELSE raced
    /\ UNCHANGED <<journal, seen, honoured, governed>>

(* register, the journal append of a new node.                             *)
RegisterJournal(node) ==
    /\ journal' = Append(journal, [kind |-> "PEER_ADMITTED", node |-> node])
    /\ UNCHANGED <<peers, status, seen, honoured, governed, raced>>

(* The append fails: the node stays a friend that no reload will know.     *)
RegisterUnjournaled(node) ==
    /\ raced' = raced \union {node}
    /\ UNCHANGED <<peers, status, journal, seen, honoured, governed>>

(* set_status: memory first, then the journal, whose append may fail; the  *)
(* caller's order stands once the call returned, and nothing does after a  *)
(* failure.  pending are the nodes    *)
(* with a registration still under way.                                    *)
SetStatus(node, st, pending, journaled) ==
    /\ node \in peers
    /\ status' = [status EXCEPT ![node] = st]
    /\ raced' = IF node \in pending THEN raced \union {node} ELSE raced
    /\ IF journaled
       THEN /\ journal' = Append(journal, [kind |-> "PEER_STATUS", node |-> node, status |-> st])
            /\ governed' = [governed EXCEPT ![node] = st]
       ELSE governed' = [governed EXCEPT ![node] = "none"] /\ UNCHANGED journal
    /\ UNCHANGED <<peers, seen, honoured>>

IsFriend(node) == status[node] = "active"

(* check, up to the signature: membership, path and payload binding (the   *)
(* envelope's `bound`), freshness against the clock the thread read.       *)
EnvelopeValid(env, now) ==
    /\ IsFriend(env.sender)
    /\ env.bound
    /\ env.ts - now <= Fresh /\ now - env.ts <= Fresh

(* Mutant: the sweep runs when the cache is full.                          *)
GcEager(now) == IF Cardinality(seen) >= NonceCapacity
                THEN {s \in seen : s.expiry > now} ELSE seen

(* _gc: expired nonces go once the cache holds more than its capacity.     *)
Gc(now) == IF Cardinality(seen) > NonceCapacity
           THEN {s \in seen : s.expiry > now} ELSE seen

CanInsert(env, now) ==
    /\ Cardinality(Gc(now)) < NonceCapacity
    /\ ~\E s \in Gc(now) : s.nonce = env.nonce

(* The locked test-and-insert; now is the time the checks read.            *)
InsertNonce(env, now) ==
    /\ IF CanInsert(env, now)
       THEN /\ seen' = Gc(now) \union {[nonce |-> env.nonce, expiry |-> now + Fresh]}
            /\ honoured' = Append(honoured, env.nonce)
       ELSE seen' = Gc(now) /\ UNCHANGED honoured
    /\ UNCHANGED <<peers, status, journal, governed, raced>>

(* What a reload makes of the journal, event by event: an admission makes  *)
(* the node active, a status counts only for a node already admitted.      *)
Admitted(j) == {j[i].node : i \in {i \in DOMAIN j : j[i].kind = "PEER_ADMITTED"}}

Reloaded(j, node) ==
    LET at == {i \in DOMAIN j : /\ j[i].node = node
                                /\ \E k \in 1..i : /\ j[k].node = node
                                                   /\ j[k].kind = "PEER_ADMITTED"}
        last == CHOOSE i \in at : \A k \in at : k <= i
    IN CASE at = {} -> "none"
         [] at # {} /\ j[last].kind = "PEER_ADMITTED" -> "active"
         [] OTHER -> j[last].status

(* A restart: the registry is reloaded, the nonce cache starts empty.      *)
PeersRestart ==
    /\ peers' = Admitted(journal)
    /\ status' = [n \in NodeIds |-> Reloaded(journal, n)]
    /\ seen' = {} /\ honoured' = <<>>
    /\ UNCHANGED <<journal, governed, raced>>

-----------------------------------------------------------------------------
(* A node that governance suspended is never again a friend until          *)
(* governance says so: not by replaying its admission bundle, not by a     *)
(* reload of the journal.  The exceptions are a registration caught in the *)
(* middle, which register, having no lock, allows, and one whose journal   *)
(* append failed: a reload drops the orders about a node it never heard    *)
(* of, and the old bundle is then a first registration again.              *)
SuspensionSticks ==
    \A n \in NodeIds : governed[n] = "suspended" /\ IsFriend(n) => n \in raced

(* No signed envelope is honoured twice between two starts of the node,    *)
(* whatever the clocks, the sweep of old nonces and the other requests do. *)
NoReplay ==
    \A i, j \in DOMAIN honoured : i # j => honoured[i] # honoured[j]
=============================================================================
