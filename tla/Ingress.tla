------------------------------ MODULE Ingress ------------------------------
(***************************************************************************)
(* The HTTP side of the node daemon: node/daemon.py from the accept loop   *)
(* to the handlers, node/authz.py, node/sdnotify.py, and core/peers.py     *)
(* through the module Peers.  One accept loop takes connections in the     *)
(* order they came and gives each a worker thread if the semaphore has a   *)
(* slot; one refusal worker answers the others.  A worker passes the       *)
(* framing, rate and authorization gates and then runs its handler, each   *)
(* step separated where another thread can run in between.  A watchdog     *)
(* tells the supervisor that the accept loop moves.                        *)
(*                                                                         *)
(* A connection carries one request.  Connections lost to a restart of the *)
(* node are closed; the ones still in the backlog connect again.           *)
(***************************************************************************)
EXTENDS Peers

CONSTANTS
    NConns,          \* how many connections come
    Loads,           \* the sequences of NConns requests that may come
    MaxConcurrency,  \* Node.max_concurrency
    RefuseQueue,     \* BoundedThreadingHTTPServer.REFUSE_QUEUE
    Limited,         \* request classes that have a limit
    Limit, Window,   \* RateLimiter.limits, one pair for every class
    AbuseThreshold,  \* RateLimiter.ABUSE_THRESHOLD
    Rules, Default,  \* AuthzPolicy.rules and .default
    Revoked,         \* Node.revoked_serials
    MaxClock,        \* bound on the clock
    MaxOrders,       \* bound on the changes of status that are journaled
    MaxFaults        \* bound on crashes, failed thread starts and failed writes

ASSUME IngressAssumption ==
    /\ NConns \in Nat /\ \A l \in Loads : DOMAIN l = 1..NConns
    /\ MaxConcurrency \in Nat \ {0} /\ RefuseQueue \in Nat
    /\ Limit \in Nat /\ Window \in Nat \ {0} /\ AbuseThreshold \in Nat \ {0}
    /\ MaxClock \in Nat /\ MaxOrders \in Nat /\ MaxFaults \in Nat

VARIABLES
    load,       \* the requests of this behaviour, in order of arrival
    pc,         \* where the connection of each request is
    answer,     \* what the client was told
    now,        \* the clock a worker read for its rate or freshness check
    already,    \* register's local `already`
    loop,       \* the accept loop: "moving", or "stuck" in a TLS handshake
    slots,      \* the value of Node.ingress_sem
    refuseQ,    \* BoundedThreadingHTTPServer._refuse_q
    windows,    \* RateLimiter._windows
    chain,      \* witness records: [kind, conn, key, start of the rate window or 0]
    contained,  \* the governor's verdict on the Being, memory only
    witnessUp,  \* Node.witness_up
    beacon,     \* whether the liveness beacon is younger than stale_after
    clock,
    charged,    \* ghost: admissions of the rate limiter since boot
    failed,     \* ghost: thread starts that failed since boot
    faults      \* ghost: faults so far

Conns == 1..NConns
connVars == <<load, pc, answer, now, already>>
serverVars == <<loop, slots, refuseQ, failed>>
rateVars == <<windows, charged>>
nodeVars == <<chain, contained, witnessUp>>
vars == <<peersVars, connVars, serverVars, rateVars, nodeVars, beacon, clock, faults>>

Least(a, b) == IF a < b THEN a ELSE b
Cert(c) == load[c].cert
Class(c) == IF load[c].kind \in {"infer", "write"} THEN load[c].kind ELSE "read"
Keys == {r.cert : r \in UNION {{l[i] : i \in DOMAIN l} : l \in Loads}}
NoWindow == [start |-> 0, used |-> 0, rejected |-> 0, witnessed |-> FALSE, open |-> FALSE]

BootState ==
    /\ slots' = MaxConcurrency /\ refuseQ' = <<>> /\ loop' = "moving" /\ failed' = 0
    /\ windows' = [k \in Keys |-> NoWindow] /\ charged' = {}
    /\ contained' = FALSE /\ witnessUp' = TRUE
    /\ beacon' = "fresh"

Init ==
    /\ load \in Loads
    /\ pc = [c \in Conns |-> "new"] /\ answer = [c \in Conns |-> "none"]
    /\ now = [c \in Conns |-> 0] /\ already = [c \in Conns |-> FALSE]
    /\ slots = MaxConcurrency /\ refuseQ = <<>> /\ loop = "moving" /\ failed = 0
    /\ windows = [k \in Keys |-> NoWindow] /\ charged = {}
    /\ chain = <<>> /\ contained = FALSE /\ witnessUp = TRUE
    /\ beacon = "fresh" /\ clock = 0 /\ faults = 0
    /\ PeersInit

Record(kind, c, key, start) == [kind |-> kind, conn |-> c, key |-> key, start |-> start]
Goto(c, p) == /\ pc' = [pc EXCEPT ![c] = p] /\ now' = [now EXCEPT ![c] = 0]
              /\ UNCHANGED <<load, answer, already>>
Reply(c, a) == /\ pc' = [pc EXCEPT ![c] = "done"] /\ now' = [now EXCEPT ![c] = 0]
               /\ answer' = [answer EXCEPT ![c] = a]
               /\ UNCHANGED <<load, already>>

-----------------------------------------------------------------------------
(* The accept loop and the refusal worker.                                 *)

Live == {c \in Conns : pc[c] \notin {"new", "handshake", "refusing", "closed"}}
Backlog == {c \in Conns : pc[c] = "new"}
Head1(c) == c \in Backlog /\ \A d \in Backlog : c <= d

(* A release of the bounded semaphore; one too many is swallowed.          *)
Released(n) == Least(MaxConcurrency, slots + n)

(* The TLS handshake runs inside accept, on the loop, with no clock: a     *)
(* client that never finishes it holds the loop.                           *)
Handshake(c) ==
    /\ loop = "moving" /\ Head1(c) /\ load[c].kind = "mute"
    /\ loop' = "stuck" /\ Goto(c, "handshake")
    /\ UNCHANGED <<slots, refuseQ, failed, rateVars, nodeVars, beacon, clock, faults, peersVars>>

(* process_request with a slot to be had: a worker thread starts.          *)
Dispatch(c) ==
    /\ loop = "moving" /\ Head1(c) /\ load[c].kind # "mute" /\ slots > 0
    /\ slots' = slots - 1 /\ Goto(c, "worker")
    /\ UNCHANGED <<loop, refuseQ, failed, rateVars, nodeVars, beacon, clock, faults, peersVars>>

(* The thread does not start: process_request releases the slot and raises *)
(* again, and the server's own error path calls shutdown_request, which    *)
(* releases it once more.                                                  *)
StartFails(c) ==
    /\ loop = "moving" /\ Head1(c) /\ load[c].kind # "mute" /\ slots > 0
    /\ faults < MaxFaults /\ faults' = faults + 1
    /\ failed' = failed + 1 /\ slots' = Least(MaxConcurrency, slots + 1)
    /\ Goto(c, "closed")
    /\ UNCHANGED <<loop, refuseQ, rateVars, nodeVars, beacon, clock, peersVars>>

(* No slot: the connection goes to the refusal worker, or is closed when   *)
(* its queue is full.                                                      *)
Overload(c) ==
    /\ loop = "moving" /\ Head1(c) /\ load[c].kind # "mute" /\ slots = 0
    /\ IF Len(refuseQ) < RefuseQueue
       THEN refuseQ' = Append(refuseQ, c) /\ Goto(c, "refusing")
       ELSE UNCHANGED refuseQ /\ Goto(c, "closed")
    /\ UNCHANGED <<loop, slots, failed, rateVars, nodeVars, beacon, clock, faults, peersVars>>

(* Mutant: the refusal worker shuts the request down through the override. *)
RefuseReleasing ==
    /\ refuseQ # <<>>
    /\ refuseQ' = Tail(refuseQ) /\ slots' = Released(1)
    /\ pc' = [pc EXCEPT ![Head(refuseQ)] = "closed"]
    /\ answer' = [answer EXCEPT ![Head(refuseQ)] = "overloaded"]
    /\ UNCHANGED <<load, now, already, loop, failed, rateVars, nodeVars,
                   beacon, clock, faults, peersVars>>

(* _refuse_loop: the answer and the drain, whatever the peer does, then    *)
(* the base class's shutdown_request, which knows nothing of slots.        *)
Refuse ==
    /\ refuseQ # <<>>
    /\ refuseQ' = Tail(refuseQ)
    /\ pc' = [pc EXCEPT ![Head(refuseQ)] = "closed"]
    /\ answer' = [answer EXCEPT ![Head(refuseQ)] = "overloaded"]
    /\ UNCHANGED <<load, now, already, loop, slots, failed, rateVars, nodeVars,
                   beacon, clock, faults, peersVars>>

(* shutdown_request, when the worker is through or was thrown out.         *)
Finish(c) ==
    /\ pc[c] = "done"
    /\ slots' = Released(1) /\ Goto(c, "closed")
    /\ UNCHANGED <<loop, refuseQ, failed, rateVars, nodeVars, beacon, clock, faults, peersVars>>

-----------------------------------------------------------------------------
(* The gates.                                                              *)

handlerKept == <<serverVars, beacon, clock>>

(* The clock on the connection: a client that stalls loses its worker.     *)
Timeout(c) ==
    /\ pc[c] = "worker" /\ load[c].kind = "stall" /\ Goto(c, "done")
    /\ UNCHANGED <<handlerKept, rateVars, nodeVars, faults, peersVars>>

(* _ingress_gate on a POST: a body with no usable length is refused before *)
(* any budget is charged.  Then _rate_gate begins by reading the clock.    *)
IngressGate(c) ==
    /\ pc[c] = "worker" /\ load[c].kind # "stall"
    /\ IF load[c].framed
       THEN /\ pc' = [pc EXCEPT ![c] = "rating"] /\ now' = [now EXCEPT ![c] = clock]
            /\ UNCHANGED <<load, answer, already>>
       ELSE Reply(c, "refused")
    /\ UNCHANGED <<handlerKept, rateVars, nodeVars, faults, peersVars>>

(* RateLimiter.check: the window this request is charged to, and whether   *)
(* the window has room.                                                    *)
Fresher(w, t) == IF ~w.open \/ t - w.start >= Window
                 THEN [NoWindow EXCEPT !.start = t, !.open = TRUE] ELSE w
HasRoom(w) == w.used < Limit

(* Mutant: the window forgets that it has been witnessed.                  *)
RejectedForgets(w) == [w EXCEPT !.rejected = @ + 1]

Rejected(w) == [w EXCEPT !.rejected = @ + 1,
                         !.witnessed = @ \/ w.rejected + 1 >= AbuseThreshold]

(* The locked part: charge, or reject and at the threshold witness once.   *)
RateGate(c) ==
    LET k == Cert(c)
        w == Fresher(windows[k], now[c])
    IN /\ pc[c] = "rating"
       /\ IF Class(c) \notin Limited
          THEN Goto(c, "handle") /\ UNCHANGED <<windows, charged, chain>>
          ELSE IF HasRoom(w)
          THEN /\ windows' = [windows EXCEPT ![k] = [w EXCEPT !.used = @ + 1]]
               /\ charged' = charged \union {[conn |-> c, key |-> k, read |-> now[c], at |-> clock]}
               /\ Goto(c, "handle") /\ UNCHANGED chain
          ELSE /\ windows' = [windows EXCEPT ![k] = Rejected(w)]
               /\ chain' = IF w.rejected + 1 >= AbuseThreshold /\ ~w.witnessed
                           THEN Append(chain, Record("RATE_LIMIT", c, k, w.start)) ELSE chain
               /\ Reply(c, "limited") /\ UNCHANGED charged
       /\ UNCHANGED <<handlerKept, contained, witnessUp, faults, peersVars>>

(* AuthzPolicy.check: the most specific rule that covers the path decides. *)
Permits(kind, role) ==
    LET covering == {r \in Rules : kind \in r.covers}
    IN IF covering = {} THEN Default = "allow"
       ELSE role \in (CHOOSE r \in covering : \A q \in covering : q.length <= r.length).allow

(* _authz_gate: revocation first, then the policy.                         *)
Authorized(c) == Cert(c) \notin Revoked /\ Permits(load[c].kind, load[c].role)
Deny(c) ==
    /\ pc[c] = "handle" /\ ~Authorized(c) /\ Reply(c, "refused")
    /\ UNCHANGED <<handlerKept, rateVars, nodeVars, faults, peersVars>>
Handling(c, kinds) == pc[c] = "handle" /\ load[c].kind \in kinds /\ Authorized(c)

-----------------------------------------------------------------------------
(* The handlers.                                                           *)

(* do_GET: every reading endpoint answers from the node's state.           *)
Read(c) ==
    /\ Handling(c, {"read"}) /\ Reply(c, "ok")
    /\ UNCHANGED <<handlerKept, rateVars, nodeVars, faults, peersVars>>

(* Mutant: generation is let through like scoring.                         *)
SeveredScoreOnly(kind) == ~witnessUp

(* handle and handle_score: the envelope, the witness, and for generation  *)
(* the governor, before the engine is called.                              *)
Severed(kind) == ~witnessUp \/ (kind = "infer" /\ contained)

CallEngine(c) ==
    /\ Handling(c, {"infer", "score"})
    /\ IF ~load[c].valid \/ Severed(load[c].kind)
       THEN Reply(c, "refused") ELSE Goto(c, "engine")
    /\ UNCHANGED <<handlerKept, rateVars, nodeVars, faults, peersVars>>

(* The engine's answer is appended to the chain and only then given away;  *)
(* an engine that fails gives 503, a chain that refuses ends the request.  *)
EngineAnswers(c) ==
    /\ pc[c] = "engine"
    /\ chain' = Append(chain, Record(IF load[c].kind = "infer" THEN "INFER" ELSE "SCORE",
                                     c, Cert(c), 0))
    /\ Goto(c, "answering")
    /\ UNCHANGED <<handlerKept, rateVars, contained, witnessUp, faults, peersVars>>
EngineFails(c) ==
    /\ pc[c] = "engine" /\ faults < MaxFaults /\ faults' = faults + 1
    /\ \/ Reply(c, "refused")
       \/ Goto(c, "done")
    /\ UNCHANGED <<handlerKept, rateVars, nodeVars, peersVars>>
Respond(c) ==
    /\ pc[c] = "answering" /\ Reply(c, "ok")
    /\ UNCHANGED <<handlerKept, rateVars, nodeVars, faults, peersVars>>

(* POST /peers/hello: register.                                            *)
Hello(c) ==
    /\ Handling(c, {"hello"})
    /\ IF VerifyAdmitted(load[c].bundle)
       THEN /\ already' = [already EXCEPT ![c] = load[c].bundle.node \in peers]
            /\ pc' = [pc EXCEPT ![c] = "registering"]
            /\ UNCHANGED <<load, answer, now>>
       ELSE Reply(c, "refused")
    /\ UNCHANGED <<handlerKept, rateVars, nodeVars, faults, peersVars>>
Register(c) ==
    /\ pc[c] = "registering"
    /\ RegisterMemory(load[c].bundle.node, already[c])
    /\ IF already[c] THEN Reply(c, "ok") ELSE Goto(c, "journaling")
    /\ UNCHANGED <<handlerKept, rateVars, nodeVars, faults>>
Journal(c) ==
    /\ pc[c] = "journaling"
    /\ \/ RegisterJournal(load[c].bundle.node) /\ Reply(c, "ok") /\ UNCHANGED faults
       \/ /\ faults < MaxFaults /\ faults' = faults + 1
          /\ RegisterUnjournaled(load[c].bundle.node) /\ Goto(c, "done")
    /\ UNCHANGED <<handlerKept, rateVars, nodeVars>>

(* POST /entangle/salt with admission required: the two steps of           *)
(* RequestAuthenticator.check, then the witnessed salt.                    *)
CheckEnvelope(c) ==
    /\ Handling(c, {"salt"})
    /\ IF EnvelopeValid(load[c].env, clock)
       THEN /\ now' = [now EXCEPT ![c] = clock] /\ pc' = [pc EXCEPT ![c] = "checked"]
            /\ UNCHANGED <<load, answer, already>>
       ELSE Reply(c, "refused")
    /\ UNCHANGED <<handlerKept, rateVars, nodeVars, faults, peersVars>>
IssueSalt(c) ==
    /\ pc[c] = "checked"
    /\ InsertNonce(load[c].env, now[c])
    /\ IF CanInsert(load[c].env, now[c])
       THEN /\ chain' = Append(chain, Record("SALT", c, Cert(c), 0)) /\ Goto(c, "answering")
       ELSE UNCHANGED chain /\ Reply(c, "refused")
    /\ UNCHANGED <<handlerKept, rateVars, contained, witnessUp, faults>>

(* The test hooks that stand for the governor's orders and a witness that  *)
(* goes away; each answers in the same step.                               *)
AdminHook(c) ==
    /\ Handling(c, {"contain", "release", "unwitness"})
    /\ contained' = CASE load[c].kind = "contain" -> TRUE
                      [] load[c].kind = "release" -> FALSE
                      [] OTHER -> contained
    /\ witnessUp' = (witnessUp /\ load[c].kind # "unwitness")
    /\ chain' = IF load[c].kind = "unwitness" THEN chain
                ELSE Append(chain, Record(load[c].kind, c, Cert(c), 0))
    /\ Reply(c, "ok")
    /\ UNCHANGED <<handlerKept, rateVars, faults, peersVars>>

-----------------------------------------------------------------------------
(* Governance, time, the watchdog and restarts.                            *)

Registering == {load[c].bundle.node : c \in {c \in Conns : pc[c] \in {"registering", "journaling"}}}

Govern(n, st) ==
    /\ st # governed[n]
    /\ Cardinality({i \in DOMAIN journal : journal[i].kind = "PEER_STATUS"}) < MaxOrders
    /\ \/ SetStatus(n, st, Registering, TRUE) /\ UNCHANGED faults
       \/ /\ faults < MaxFaults /\ faults' = faults + 1
          /\ SetStatus(n, st, Registering, FALSE)
    /\ UNCHANGED <<connVars, serverVars, rateVars, nodeVars, beacon, clock>>

Tick ==
    /\ clock < MaxClock /\ clock' = clock + 1
    /\ UNCHANGED <<connVars, serverVars, rateVars, nodeVars, beacon, faults, peersVars>>

(* Beacon: service_actions touches it on every turn of the accept loop,    *)
(* with or without traffic, so after stale_after it is stale only if the   *)
(* loop stopped turning.                                                   *)
Touched == loop = "moving"

BeaconAges ==
    /\ beacon' = IF Touched THEN "fresh" ELSE "stale"
    /\ beacon' # beacon
    /\ UNCHANGED <<connVars, serverVars, rateVars, nodeVars, clock, faults, peersVars>>

(* Mutant: the watchdog is an ungated timer.                               *)
PingsAlways == TRUE

(* Watchdog.should_ping.                                                   *)
Pings == beacon = "fresh"

(* A restart keeps the chain, the registry's journal and nothing else.     *)
Reboot ==
    /\ BootState
    /\ pc' = [c \in Conns |-> IF pc[c] = "new" THEN "new" ELSE "closed"]
    /\ chain' = Append(chain, Record("boot", 0, "node", 0))
    /\ PeersRestart
    /\ UNCHANGED <<load, answer, now, already, clock>>

(* A period in which the watchdog keeps silent ends with the supervisor    *)
(* restarting the node; a ping leaves everything as it is.                 *)
Supervise == ~Pings /\ Reboot /\ UNCHANGED faults
Crash == faults < MaxFaults /\ faults' = faults + 1 /\ Reboot

Accept(c) == Handshake(c) \/ Dispatch(c) \/ StartFails(c) \/ Overload(c)
Serve(c) ==
    \/ Timeout(c) \/ IngressGate(c) \/ RateGate(c) \/ Deny(c)
    \/ Read(c) \/ CallEngine(c) \/ EngineAnswers(c) \/ EngineFails(c) \/ Respond(c)
    \/ Hello(c) \/ Register(c) \/ Journal(c) \/ CheckEnvelope(c) \/ IssueSalt(c)
    \/ AdminHook(c) \/ Finish(c)

Progress ==
    \/ \E c \in Conns : Accept(c) \/ Serve(c)
    \/ Refuse \/ BeaconAges \/ Supervise

Next ==
    \/ Progress
    \/ \E n \in NodeIds, st \in {"active", "suspended"} : Govern(n, st)
    \/ Tick \/ Crash

(* Some thread of the process, the engine behind it or the supervisor can  *)
(* run, so one of them does.                                               *)
Fairness == WF_vars(Progress)

IngressSpec == Init /\ [][Next]_vars /\ Fairness

-----------------------------------------------------------------------------
IngressTypeOK ==
    /\ load \in Loads
    /\ pc \in [Conns -> {"new", "handshake", "refusing", "worker", "rating", "handle",
                         "engine", "answering", "registering", "journaling", "checked",
                         "done", "closed"}]
    /\ answer \in [Conns -> {"none", "ok", "refused", "limited", "overloaded"}]
    /\ slots \in 0..MaxConcurrency /\ Len(refuseQ) <= RefuseQueue
    /\ \A i \in DOMAIN refuseQ : pc[refuseQ[i]] = "refusing"
    /\ loop = "stuck" <=> \E c \in Conns : pc[c] = "handshake"
    /\ peers = {n \in NodeIds : status[n] # "none"}

(* The ceiling on worker threads: a slot is held by every worker and by    *)
(* nothing else.  No slot is ever lost, and the number of workers passes   *)
(* max_concurrency by no more than the thread starts that failed, each of  *)
(* which gives its slot back twice.                                        *)
CeilingHolds ==
    /\ Cardinality(Live) + slots >= MaxConcurrency
    /\ Cardinality(Live) <= MaxConcurrency + failed

(* The budget of an identity: whatever the interleaving of its requests,   *)
(* in no stretch as long as the window are more than twice the limit       *)
(* admitted.  Requests that slept between reading the clock and taking the *)
(* limiter's lock are not counted: the code charges them to the past.      *)
BudgetHeld ==
    \A k \in Keys, t \in 0..MaxClock :
        Cardinality({a \in charged : /\ a.key = k /\ a.read = a.at
                                     /\ a.at \in t..(t + Window - 1)}) <= 2 * Limit

(* The limiter's evidence: a window that turned away AbuseThreshold        *)
(* requests is on the chain, and never twice, so a flood cannot flood the  *)
(* witness.                                                                *)
AbuseWitnessedOnce ==
    \A k \in Keys :
        LET lastBoot == {0} \union {i \in DOMAIN chain : chain[i].kind = "boot"}
            since == {i \in DOMAIN chain : /\ \A b \in lastBoot : i > b
                                           /\ chain[i].kind = "RATE_LIMIT" /\ chain[i].key = k}
        IN /\ \A i, j \in since : chain[i].start = chain[j].start => i = j
           /\ windows[k].rejected >= AbuseThreshold =>
                \E i \in since : chain[i].start = windows[k].start

(* The limiter under concurrency: budget and evidence together.            *)
LimiterHolds == BudgetHeld /\ AbuseWitnessedOnce

(* Containment severs the hand: after an order of this life of the node,   *)
(* until a release, only requests that were already past the governor can  *)
(* still add an INFER record, and they are fewer than the workers there    *)
(* can be.                                                                 *)
After(i) == {j \in DOMAIN chain : /\ j > i /\ chain[j].kind = "INFER"
                                  /\ \A m \in i..j : chain[m].kind # "release"}
ContainmentBites ==
    \A i \in DOMAIN chain :
        chain[i].kind = "contain" /\ (\A m \in i..Len(chain) : chain[m].kind # "boot")
            => Cardinality(After(i)) < MaxConcurrency + failed

(* Every connection comes to an end: a stalled client loses its worker, a  *)
(* refused one is answered or dropped, and a client that holds the accept  *)
(* loop holds it only until the watchdog falls silent.                     *)
ConnectionsEnd == <>[](\A c \in Conns : pc[c] = "closed")
=============================================================================
