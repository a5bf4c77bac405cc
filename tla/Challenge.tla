----------------------------- MODULE Challenge -----------------------------
(***************************************************************************)
(* The adversarial verification round: core/challenge.py, reached through  *)
(* the daemon's /challenge/ endpoints, so every call may overlap every     *)
(* other.  Only the append to the chain, with the index it returns, is     *)
(* under a lock.  One round; a commitment is the pair it hashes; a seat    *)
(* claim carries the outcome of its VRF proof.                             *)
(***************************************************************************)
EXTENDS Registry

CONSTANTS
    Verifiers,       \* the eligible ones
    CommitWindow, RevealWindow,
    MaxClock         \* bound on the clock

ASSUME ChallengeAssumption ==
    CommitWindow \in Nat /\ RevealWindow \in Nat /\ MaxClock \in Nat

VARIABLES
    clock,
    round,     \* ChallengeRound.rounds[round_id], or no round; `since' is a
               \* ghost, the length of the chain when it was opened
    fraudLog   \* the durable fraud proofs

NoRound == [open |-> FALSE, since |-> 0, commitBy |-> 0, revealBy |-> 0, seats |-> {},
            commits |-> <<>>, reveals |-> <<>>, frauds |-> {}, resolved |-> <<>>]

ChallengeInit == clock = 0 /\ round = NoRound /\ fraudLog = <<>>

Note(phase, v, what) == [kind |-> "CHALLENGE", phase |-> phase, v |-> v, what |-> what, at |-> clock]
Noted(phase, v, what) == chain' = Append(chain, Note(phase, v, what))

challengeKept == <<registryVars, faults, clock>>

(* open: the round exists for other threads before its record does.        *)
Open(th) ==
    /\ Ready(th, "open")
    /\ IF round.open THEN Return(th) /\ UNCHANGED round
       ELSE /\ round' = [NoRound EXCEPT !.open = TRUE, !.since = Len(chain),
                                        !.commitBy = clock + CommitWindow,
                                        !.revealBy = clock + CommitWindow + RevealWindow]
            /\ Goto(th, "noteOpen", <<>>)
    /\ UNCHANGED <<chain, fraudLog, challengeKept>>
NoteOpen(th) ==
    /\ pc[th] = "noteOpen" /\ Noted("open", "-", "-") /\ Return(th)
    /\ UNCHANGED <<round, fraudLog, challengeKept>>

(* claim_seat: the outcome is witnessed, then a win is stored.             *)
ClaimSeat(th) ==
    LET v == Call(th).v
    IN /\ Ready(th, "seat")
       /\ IF ~round.open \/ v \in round.seats THEN Return(th) /\ UNCHANGED chain
          ELSE /\ Noted(IF Call(th).proof = "forged" THEN "seat_refused" ELSE "seat", v, Call(th).proof)
               /\ IF Call(th).proof = "wins" THEN Goto(th, "seated", <<>>) ELSE Return(th)
       /\ UNCHANGED <<round, fraudLog, challengeKept>>
TakeSeat(th) ==
    /\ pc[th] = "seated"
    /\ round' = [round EXCEPT !.seats = @ \union {Call(th).v}]
    /\ Return(th) /\ UNCHANGED <<chain, fraudLog, challengeKept>>

Committed(v) == v \in DOMAIN round.commits

MayNotCommit(v) == ~round.open \/ v \notin round.seats \/ clock > round.commitBy

(* commit: checks; then the record, whose index is read under the chain's  *)
(* lock; then the memory of it.                                            *)
Commit(th) ==
    LET v == Call(th).v
    IN /\ Ready(th, "commit")
       /\ IF MayNotCommit(v)
          THEN Return(th) /\ UNCHANGED chain
          ELSE IF Committed(v)
          THEN Noted("double_commit_refused", v, "-") /\ Return(th)
          ELSE Goto(th, "sealing", <<>>) /\ UNCHANGED chain
       /\ UNCHANGED <<round, fraudLog, challengeKept>>

(* Mutant: the length before the append is taken for the index after it.   *)
IndexOfNext(c) == Len(c) + 1

(* _witness returns the index of the record it appended.                   *)
IndexOf(c) == Len(c)

Seal(th) ==
    /\ pc[th] = "sealing"
    /\ Noted("commit", Call(th).v, Call(th).verdict)
    /\ Goto(th, "sealed", IndexOf(chain'))
    /\ UNCHANGED <<round, fraudLog, challengeKept>>

(* The commits of a round after one more.                                  *)
WithCommit(commits, v, c) ==
    [u \in DOMAIN commits \union {v} |-> IF u = v THEN c ELSE commits[u]]

StoreCommit(th) ==
    /\ pc[th] = "sealed"
    /\ round' = [round EXCEPT !.commits =
                   WithCommit(@, Call(th).v, [verdict |-> Call(th).verdict, index |-> loc[th]])]
    /\ Return(th) /\ UNCHANGED <<chain, fraudLog, challengeKept>>

(* reveal: the commitment and the clock are read, ...                      *)
Reveal(th) ==
    LET v == Call(th).v
    IN /\ Ready(th, "reveal")
       /\ IF ~round.open \/ ~Committed(v) THEN Return(th) /\ UNCHANGED chain
          ELSE IF clock > round.revealBy
          THEN Noted("late_reveal_refused", v, "-") /\ Return(th)
          ELSE Goto(th, "revealing", round.commits[v]) /\ UNCHANGED chain
       /\ UNCHANGED <<round, fraudLog, challengeKept>>

(* ... a verdict that was sealed is stored and witnessed, ...              *)
ShowVerdict(th) ==
    /\ pc[th] = "revealing" /\ Call(th).verdict = loc[th].verdict
    /\ round' = [round EXCEPT !.reveals = WithCommit(@, Call(th).v, Call(th).verdict)]
    /\ Goto(th, "shown", <<>>)
    /\ UNCHANGED <<chain, fraudLog, challengeKept>>
NoteReveal(th) ==
    /\ pc[th] = "shown" /\ Noted("reveal", Call(th).v, Call(th).verdict) /\ Return(th)
    /\ UNCHANGED <<round, fraudLog, challengeKept>>

(* ... another one is a fraud: remembered, logged, witnessed, slashed.     *)
Fraud(th) == [v |-> Call(th).v, index |-> loc[th].index, committed |-> loc[th].verdict,
              revealed |-> Call(th).verdict]
CatchFraud(th) ==
    /\ pc[th] = "revealing" /\ Call(th).verdict # loc[th].verdict
    /\ round' = [round EXCEPT !.frauds = @ \union {Fraud(th)}]
    /\ Goto(th, "fraud", loc[th])
    /\ UNCHANGED <<chain, fraudLog, challengeKept>>
NoteFraud(th) ==
    /\ pc[th] = "fraud"
    /\ fraudLog' = Append(fraudLog, Fraud(th))
    /\ Noted("fraud", Call(th).v, Call(th).verdict)
    /\ Goto(th, "apply", Emission(Slash(Call(th).v), "return", <<>>))
    /\ UNCHANGED <<round, challengeKept>>

(* resolve: the tally, stored and then witnessed.                          *)
ResolveFrom == round.revealBy

(* Mutant: a reveal once accepted stays valid.                             *)
ValidOnce == DOMAIN round.reveals

Fraudsters == {f.v : f \in round.frauds}
Valid == DOMAIN round.reveals \ Fraudsters

Supporters(x) == {v \in Valid : round.reveals[v] = x}
(* Most voters; between equals the tie is settled by the voters' names.    *)
Winners == {x \in {round.reveals[v] : v \in Valid} :
              \A y \in {round.reveals[v] : v \in Valid} :
                  Cardinality(Supporters(y)) <= Cardinality(Supporters(x))}
Resolve(th) ==
    /\ Ready(th, "resolve")
    /\ IF ~round.open \/ round.resolved # <<>> \/ clock < ResolveFrom
       THEN Return(th) /\ UNCHANGED round
       ELSE \E x \in IF Valid = {} THEN {"unresolved"} ELSE Winners :
               /\ round' = [round EXCEPT !.resolved =
                    [verdict |-> x, supporters |-> Supporters(x), revealed |-> Valid,
                     abstained |-> round.seats \ (Valid \union Fraudsters)]]
               /\ Goto(th, "noteResolve", <<>>)
    /\ UNCHANGED <<chain, fraudLog, challengeKept>>
NoteResolve(th) ==
    /\ pc[th] = "noteResolve" /\ Noted("resolve", "-", round.resolved.verdict) /\ Return(th)
    /\ UNCHANGED <<round, fraudLog, challengeKept>>

Challenge(th) ==
    \/ Open(th) \/ NoteOpen(th) \/ ClaimSeat(th) \/ TakeSeat(th)
    \/ Commit(th) \/ Seal(th) \/ StoreCommit(th)
    \/ Reveal(th) \/ ShowVerdict(th) \/ NoteReveal(th) \/ CatchFraud(th) \/ NoteFraud(th)
    \/ Resolve(th) \/ NoteResolve(th)

(* Only the time since a round opened matters.                             *)
Tick == /\ round.open /\ clock < MaxClock /\ clock' = clock + 1
        /\ UNCHANGED <<threadVars, registryVars, chain, faults, round, fraudLog>>

(* Rounds are memory only; the fraud log and the chain stay.               *)
ChallengeRestart == round' = NoRound /\ UNCHANGED <<fraudLog, clock>>

(* verify_fraud_proof.                                                     *)
ProofConvicts(f) ==
    /\ f.index \in DOMAIN chain
    /\ chain[f.index].kind = "CHALLENGE" /\ chain[f.index].phase = "commit"
    /\ chain[f.index].v = f.v /\ chain[f.index].what = f.committed
    /\ f.revealed # f.committed

-----------------------------------------------------------------------------
(* A verifier that seals and shows one verdict only is never accused, in   *)
(* whatever order its calls and everybody else's arrive, repeated ones     *)
(* included.                                                               *)
Honest(v) ==
    \A th, u \in Threads : \A i \in DOMAIN script[th], j \in DOMAIN script[u] :
        LET a == script[th][i]
            b == script[u][j]
        IN (/\ a.op \in {"commit", "reveal"} /\ b.op \in {"commit", "reveal"}
            /\ a.v = v /\ b.v = v) => a.verdict = b.verdict
HonestNeverConvicted ==
    \A v \in Verifiers : Honest(v) =>
        /\ v \notin Fraudsters
        /\ \A i \in DOMAIN fraudLog : fraudLog[i].v # v
        /\ \A i \in DOMAIN events : events[i] # Slash(v)

(* Every fraud proof in the log convicts on the chain alone, whatever was  *)
(* appended around the commitment and whatever restart came since.         *)
FraudProofsConvict == \A i \in DOMAIN fraudLog : ProofConvicts(fraudLog[i])

(* The fraud log is neither too long nor too weak: it names no honest      *)
(* verifier, and each of its proofs stands on the chain alone.             *)
ConvictsTheGuilty == HonestNeverConvicted /\ FraudProofsConvict

(* The records of this round in one phase that beat the reveal deadline; a *)
(* round of the same name that a restart forgot left its own before them.  *)
Timely(phase) ==
    {i \in DOMAIN chain : /\ chain[i].kind = "CHALLENGE" /\ chain[i].phase = phase
                          /\ i > round.since /\ chain[i].at < round.revealBy}

(* A verdict that was on the chain before the reveal deadline is in the    *)
(* tally, unless its verifier was caught in fraud.                         *)
TimelyRevealCounts ==
    round.open /\ round.resolved # <<>> =>
        \A i \in Timely("reveal") : chain[i].v \in round.resolved.revealed \union Fraudsters

(* A verifier whose fraud was witnessed before the deadline decides        *)
(* nothing, not even with the honest reveal it made first.                 *)
FraudDecidesNothing ==
    round.open /\ round.resolved # <<>> =>
        \A i \in Timely("fraud") : chain[i].v \notin round.resolved.supporters

(* Reveal, fraud and resolve overlap at the deadline: a round is decided   *)
(* by the timely verdicts of those not caught, and by all of them.         *)
RoundDecidedOnTime == TimelyRevealCounts /\ FraudDecidesNothing
=============================================================================
