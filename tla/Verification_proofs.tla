------------------------- MODULE Verification_proofs -------------------------
(***************************************************************************)
(* Proofs about Verification, for any number of request threads, any       *)
(* scripts of calls and any number of faults: whom a challenge round       *)
(* convicts, which verdicts decide it, what reputation rests on, why the   *)
(* audit of the registry fails, which panels a query is given and what its *)
(* answer rests on.                                                        *)
(***************************************************************************)
EXTENDS Verification, FiniteSetTheorems, WellFoundedInduction, TLAPS

(* A sequence of whatever it holds.                                        *)
IsSeq(s) == s \in Seq({s[i] : i \in DOMAIN s})

(* One element more, the earlier ones where they were.                     *)
LEMMA SeqAppended ==
    ASSUME NEW s, IsSeq(s), NEW e
    PROVE  /\ Len(s) \in Nat /\ DOMAIN s = 1..Len(s) /\ IsSeq(Append(s, e))
           /\ DOMAIN Append(s, e) = 1..(Len(s) + 1) /\ Len(Append(s, e)) = Len(s) + 1
           /\ \A i \in 1..Len(s) : Append(s, e)[i] = s[i]
           /\ Append(s, e)[Len(s) + 1] = e
<1> DEFINE S == {s[i] : i \in DOMAIN s}  t == Append(s, e)
<1>1. s \in Seq(S)
  BY DEF IsSeq
<1>2. s \in Seq(S \union {e}) /\ e \in S \union {e}
  <2> HIDE DEF S
  <2> QED
    BY <1>1
<1>3. /\ Len(s) \in Nat /\ DOMAIN s = 1..Len(s)
      /\ DOMAIN t = 1..(Len(s) + 1) /\ Len(t) = Len(s) + 1
      /\ \A i \in 1..Len(s) : t[i] = s[i]
      /\ t[Len(s) + 1] = e
      /\ t \in Seq(S \union {e})
  <2> HIDE DEF S
  <2> QED
    BY <1>2
<1>4. t \in Seq({t[i] : i \in DOMAIN t})
  <2> HIDE DEF S, t
  <2> QED
    BY <1>3
<1> QED
  BY <1>3, <1>4 DEF IsSeq

---------------------------------------------------------------------------
(* Where the threads are: in a call of their script when not idle.         *)
Placed ==
    /\ DOMAIN pc = Threads /\ DOMAIN loc = Threads /\ DOMAIN at = Threads
    /\ \A th \in Threads : /\ Len(script[th]) \in Nat /\ DOMAIN script[th] = 1..Len(script[th])
                           /\ at[th] \in Nat \ {0}
                           /\ pc[th] # "idle" => at[th] <= Len(script[th])
(* The round has its fields.                                               *)
RoundShape ==
    round = [open |-> round.open, since |-> round.since, commitBy |-> round.commitBy,
             revealBy |-> round.revealBy, seats |-> round.seats, commits |-> round.commits,
             reveals |-> round.reveals, frauds |-> round.frauds, resolved |-> round.resolved]

(* The threads that took no part stayed where they were.                   *)
Moved(th) ==
    /\ script' = script /\ DOMAIN pc' = Threads /\ DOMAIN loc' = Threads /\ DOMAIN at' = Threads
    /\ \A u \in Threads \ {th} : pc'[u] = pc[u] /\ loc'[u] = loc[u] /\ at'[u] = at[u]

(* A step inside a call.                                                   *)
LEMMA GotoIs ==
    ASSUME Placed, NEW th \in Threads, NEW p, NEW l, Goto(th, p, l)
    PROVE  Moved(th) /\ pc'[th] = p /\ loc'[th] = l /\ at' = at
  BY DEF Placed, Goto, Moved

(* A call that ends.                                                       *)
LEMMA ReturnIs ==
    ASSUME Placed, NEW th \in Threads, Return(th)
    PROVE  Moved(th) /\ pc'[th] = "idle" /\ loc'[th] = <<>> /\ at'[th] = at[th] + 1
  BY DEF Placed, Return, Moved

(* Where an emission goes on to.                                           *)
Onward == {"return", "verified", "rejected", "credited"}

(* Places a thread can be at that say nothing about a challenge.           *)
Elsewhere == {"idle", "subtask", "self", "panel", "scoring", "verified", "rejected",
              "subtaskDone", "asking", "credited", "noteOpen", "seated", "noteResolve"}

(* Routing and cross-verification write no record of a challenge, and what *)
(* they emit are verdicts.                                                 *)
RoutesOn(th) ==
    \/ Return(th)
    \/ \E p \in Elsewhere \ {"idle"} : \E l : Goto(th, p, l)
    \/ \E topic, o, ok, l : \E then \in Onward : Goto(th, "apply", Emission(Verdict(topic, o, ok), then, l))

(* Every step of a route or a cross-verification is such a step.           *)
LEMMA RouteRoutesOn ==
    ASSUME NEW th \in Threads, Route(th)
    PROVE  RoutesOn(th) /\ UNCHANGED <<registryVars, chain, faults>>
<1>1. ASSUME StartRoute(th) PROVE RoutesOn(th)
  BY <1>1 DEF StartRoute, RoutesOn, Elsewhere
<1>2. ASSUME Generate(th) PROVE RoutesOn(th)
  BY <1>2 DEF Generate, RoutesOn, Elsewhere
<1>3. ASSUME SelectPanel(th) PROVE RoutesOn(th)
  BY <1>3 DEF SelectPanel, RoutesOn, Elsewhere
<1>4. ASSUME Score(th) PROVE RoutesOn(th)
  BY <1>4 DEF Score, RoutesOn, Elsewhere
<1>5. ASSUME Judge(th) PROVE RoutesOn(th)
  BY <1>5 DEF Judge, RoutesOn, Onward
<1>6. ASSUME ScoreSelf(th) PROVE RoutesOn(th)
  BY <1>6 DEF ScoreSelf, RoutesOn, Onward
<1>7. ASSUME Claim(th) PROVE RoutesOn(th)
  BY <1>7 DEF Claim, RoutesOn, Elsewhere
<1>8. ASSUME NextSubtask(th) PROVE RoutesOn(th)
  BY <1>8 DEF NextSubtask, RoutesOn, Elsewhere
<1>9. ASSUME StartCross(th) PROVE RoutesOn(th)
  BY <1>9 DEF StartCross, RoutesOn, Elsewhere
<1>10. ASSUME AskPeer(th) PROVE RoutesOn(th)
  BY <1>10 DEF AskPeer, RoutesOn, Elsewhere
<1>11. ASSUME CrossRecord(th) PROVE RoutesOn(th)
  BY <1>11 DEF CrossRecord, RoutesOn, Onward
<1>12. ASSUME CrossDone(th) PROVE RoutesOn(th)
  BY <1>12 DEF CrossDone, RoutesOn
<1>13. RoutesOn(th)
  BY <1>1, <1>2, <1>3, <1>4, <1>5, <1>6, <1>7, <1>8, <1>9, <1>10, <1>11, <1>12 DEF Route
<1>14. UNCHANGED <<registryVars, chain, faults>>
  BY DEF Route, StartRoute, Generate, SelectPanel, Score, Judge, ScoreSelf, Claim,
         NextSubtask, StartCross, AskPeer, CrossRecord, CrossDone, routerKept
<1> QED
  BY <1>13, <1>14

---------------------------------------------------------------------------
(* The commitment c of verifier v is on the chain and was asked for.       *)
Sealed(v, x) == \E th \in Threads : \E i \in DOMAIN script[th] :
                    /\ script[th][i].op = "commit" /\ script[th][i].v = v
                    /\ script[th][i].verdict = x
CommitAt(n, v, x) ==
    /\ n \in DOMAIN chain /\ chain[n].kind = "CHALLENGE" /\ chain[n].phase = "commit"
    /\ chain[n].v = v /\ chain[n].what = x
Backed(v, c) == CommitAt(c.index, v, c.verdict) /\ Sealed(v, c.verdict)

(* Only the guilty are slashed.                                            *)
EventOK(e) == e.ev = "slash" => ~Honest(e.object)

(* What a thread inside a challenge call, or an emission, relies on.       *)
ThreadOK(th) ==
    /\ pc[th] \in {"sealing", "sealed"} => Call(th).op = "commit"
    /\ pc[th] = "sealed" => CommitAt(loc[th], Call(th).v, Call(th).verdict)
    /\ pc[th] \in {"revealing", "shown", "fraud"} => Call(th).op = "reveal"
    /\ pc[th] \in {"revealing", "fraud"} => Backed(Call(th).v, loc[th])
    /\ pc[th] = "fraud" => Call(th).verdict # loc[th].verdict
    /\ pc[th] \in {"apply", "journal", "witness"} =>
           EventOK(loc[th][1]) /\ loc[th][2] \in Onward

EventsOK(s) == IsSeq(s) /\ \A i \in DOMAIN s : EventOK(s[i])
EmissionsOK == EventsOK(events) /\ EventsOK(rjournal)
CommitsOK == \A v \in DOMAIN round.commits : Backed(v, round.commits[v])
FraudsOK == \A f \in round.frauds : ~Honest(f.v)
RoundOK == RoundShape /\ CommitsOK /\ FraudsOK
LogOK == /\ IsSeq(fraudLog)
         /\ \A i \in DOMAIN fraudLog : ~Honest(fraudLog[i].v) /\ ProofConvicts(fraudLog[i])

(* The inductive invariant behind the fraud log.                           *)
GuiltInv == /\ Placed /\ IsSeq(chain) /\ \A th \in Threads : ThreadOK(th)
            /\ EmissionsOK /\ RoundOK /\ LogOK

(* The chain only grows.                                                   *)
Grows == /\ IsSeq(chain') /\ DOMAIN chain \subseteq DOMAIN chain'
         /\ \A i \in DOMAIN chain : chain'[i] = chain[i]

(* An append makes it grow, as does nothing.                               *)
LEMMA ChainGrows ==
    ASSUME IsSeq(chain), chain' = chain \/ \E r : chain' = Append(chain, r)
    PROVE  Grows
<1>1. CASE chain' = chain
  BY <1>1 DEF Grows, IsSeq
<1>2. ASSUME NEW r, chain' = Append(chain, r) PROVE Grows
  BY <1>2, SeqAppended DEF Grows
<1> QED
  BY <1>1, <1>2

(* What was on the chain and in the scripts stays there.                   *)
LEMMA BackedKept ==
    ASSUME Grows, script' = script
    PROVE  /\ \A n, v, x : CommitAt(n, v, x) => CommitAt(n, v, x)'
           /\ \A v, c : Backed(v, c) => Backed(v, c)'
           /\ \A v : Honest(v)' = Honest(v)
           /\ \A e : EventOK(e)' = EventOK(e)
           /\ \A f : ProofConvicts(f) => ProofConvicts(f)'
<1>1. \A n, v, x : CommitAt(n, v, x) => CommitAt(n, v, x)'
  BY DEF Grows, CommitAt
<1>2. \A v, c : Backed(v, c) => Backed(v, c)'
  BY DEF Grows, CommitAt, Backed, Sealed
<1>3. \A v : Honest(v)' = Honest(v)
  BY DEF Honest
<1>4. \A e : EventOK(e)' = EventOK(e)
  BY <1>3 DEF EventOK
<1>5. \A f : ProofConvicts(f) => ProofConvicts(f)'
  BY DEF Grows, ProofConvicts
<1> QED
  BY <1>1, <1>2, <1>3, <1>4, <1>5

(* A thread that did not move still relies on what holds.                  *)
LEMMA OtherThreadOK ==
    ASSUME Grows, script' = script, NEW u \in Threads, ThreadOK(u),
           pc'[u] = pc[u], loc'[u] = loc[u], at'[u] = at[u]
    PROVE  ThreadOK(u)'
<1>1. Call(u)' = Call(u)
  BY DEF Call
<1>2. PICK c : c = Call(u)
  OBVIOUS
<1>3. Call(u)' = c
  BY <1>1, <1>2
<1> QED
  BY <1>2, <1>3, BackedKept DEF ThreadOK

(* Every thread's call is one of its script's.                             *)
LEMMA MovedPlaced ==
    ASSUME Placed, NEW th \in Threads, Moved(th), at'[th] \in {at[th], at[th] + 1},
           pc'[th] # "idle" => at'[th] <= Len(script[th])
    PROVE  Placed'
<1>1. ASSUME NEW u \in Threads
      PROVE  /\ Len(script'[u]) \in Nat /\ DOMAIN script'[u] = 1..Len(script'[u])
             /\ at'[u] \in Nat \ {0} /\ (pc'[u] # "idle" => at'[u] <= Len(script'[u]))
  <2>1. CASE u = th
    BY <2>1 DEF Placed, Moved
  <2>2. CASE u # th
    BY <2>2 DEF Placed, Moved
  <2> QED
    BY <2>1, <2>2
<1> QED
  BY <1>1 DEF Placed, Moved

(* One thread moves: the others still rely on what holds.                  *)
LEMMA AllThreadsOK ==
    ASSUME NEW th \in Threads, \A u \in Threads : ThreadOK(u), Grows, Moved(th), ThreadOK(th)'
    PROVE  (\A u \in Threads : ThreadOK(u))'
<1>1. ASSUME NEW u \in Threads, u # th PROVE ThreadOK(u)'
  <2>1. pc'[u] = pc[u] /\ loc'[u] = loc[u] /\ at'[u] = at[u] /\ script' = script
    BY <1>1 DEF Moved
  <2> QED
    BY <2>1, OtherThreadOK
<1> QED
  BY <1>1

(* Logs that are left alone stay good.                                     *)
LEMMA EmissionsKept ==
    ASSUME EmissionsOK, Grows, script' = script, UNCHANGED <<events, rjournal>>
    PROVE  EmissionsOK'
  BY BackedKept DEF EmissionsOK, EventsOK

(* A round that is left alone stays good.                                 *)
LEMMA RoundKept ==
    ASSUME RoundOK, Grows, script' = script, UNCHANGED round
    PROVE  RoundOK'
<1>1. CommitsOK'
  BY BackedKept DEF RoundOK, CommitsOK
<1>2. FraudsOK'
  BY BackedKept DEF RoundOK, FraudsOK
<1> QED
  BY <1>1, <1>2 DEF RoundOK, RoundShape

(* A fraud log that is left alone stays good.                             *)
LEMMA LogKept ==
    ASSUME LogOK, Grows, script' = script, UNCHANGED fraudLog
    PROVE  LogOK'
  BY BackedKept DEF LogOK

(* A thread that leaves the challenge relies on nothing.                   *)
LEMMA ElsewhereOK ==
    ASSUME NEW th \in Threads, pc'[th] \in Elsewhere
    PROVE  ThreadOK(th)'
  BY DEF Elsewhere, ThreadOK

(* A registry log after one more good event.                               *)
LEMMA EventAppended ==
    ASSUME NEW s, EventsOK(s), NEW e, EventOK(e)
    PROVE  EventsOK(Append(s, e))
<1> DEFINE t == Append(s, e)
<1>1. /\ Len(s) \in Nat /\ DOMAIN s = 1..Len(s) /\ IsSeq(t)
      /\ DOMAIN t = 1..(Len(s) + 1)
      /\ \A i \in 1..Len(s) : t[i] = s[i]
      /\ t[Len(s) + 1] = e
  BY SeqAppended DEF EventsOK
<1> HIDE DEF t
<1>2. ASSUME NEW i \in 1..(Len(s) + 1) PROVE EventOK(t[i])
  <2>1. i \in 1..Len(s) \/ i = Len(s) + 1
    BY <1>1
  <2> QED
    BY <1>1, <2>1 DEF EventsOK
<1>3. EventsOK(t)
  BY <1>1, <1>2 DEF EventsOK
<1> QED
  BY <1>3 DEF t

(* Good events stay good whatever the chain grows by.                      *)
LEMMA EventsKept ==
    ASSUME Grows, script' = script
    PROVE  \A s : EventsOK(s) => EventsOK(s)'
  BY BackedKept DEF EventsOK

(* Nothing but the moving thread's place, and the chain, has changed.      *)
LEMMA OnlyMoved ==
    ASSUME GuiltInv, NEW th \in Threads, Grows, Moved(th), at'[th] \in {at[th], at[th] + 1},
           pc'[th] # "idle" => at'[th] <= Len(script[th]), ThreadOK(th)',
           UNCHANGED <<events, rjournal, round, fraudLog>>
    PROVE  GuiltInv'
<1>1. Placed' /\ script' = script
  BY MovedPlaced DEF GuiltInv, Moved
<1>2. (\A u \in Threads : ThreadOK(u))'
  BY AllThreadsOK DEF GuiltInv
<1>3. EmissionsOK' /\ RoundOK' /\ LogOK'
  BY <1>1, EmissionsKept, RoundKept, LogKept DEF GuiltInv
<1> QED
  BY <1>1, <1>2, <1>3 DEF GuiltInv, Grows

(* _emit: apply, journal, witness.                                         *)
LEMMA EmitKeeps ==
    ASSUME GuiltInv, NEW th \in Threads, Emit(th), UNCHANGED <<round, fraudLog>>
    PROVE  GuiltInv'
<1>1. /\ Placed /\ IsSeq(chain) /\ ThreadOK(th) /\ EventsOK(events) /\ EventsOK(rjournal)
      /\ pc[th] \in {"apply", "journal", "witness"}
      /\ at[th] \in Nat /\ at[th] <= Len(script[th])
      /\ EventOK(loc[th][1]) /\ loc[th][2] \in Onward
  BY DEF GuiltInv, EmissionsOK, Emit, EmitApply, EmitJournal, EmitWitness, Placed, ThreadOK
<1>2. CASE EmitApply(th)
  <2>1. /\ Moved(th) /\ pc'[th] = "journal" /\ loc'[th] = loc[th] /\ at' = at
        /\ events' = Append(events, loc[th][1]) /\ UNCHANGED <<rjournal, chain>>
    BY <1>1, <1>2, GotoIs DEF EmitApply
  <2>2. Grows /\ script' = script
    BY <1>1, <2>1, ChainGrows DEF Moved
  <2>3. ThreadOK(th)'
    BY <1>1, <2>1, <2>2, BackedKept DEF ThreadOK
  <2>4. EmissionsOK'
    <3>1. EventsOK(Append(events, loc[th][1]))
      BY <1>1, EventAppended
    <3> QED
      BY <1>1, <2>1, <2>2, <3>1, EventsKept DEF EmissionsOK
  <2>5. Placed' /\ (\A u \in Threads : ThreadOK(u))'
    BY <1>1, <2>1, <2>2, <2>3, MovedPlaced, AllThreadsOK DEF GuiltInv
  <2> QED
    BY <2>2, <2>4, <2>5, RoundKept, LogKept DEF GuiltInv, Grows
<1>3. CASE EmitJournal(th)
  <2>1. /\ UNCHANGED <<events, chain>>
        /\ \/ rjournal' = Append(rjournal, loc[th][1]) /\ Goto(th, "witness", loc[th])
           \/ rjournal' = rjournal /\ Return(th)
    BY <1>3 DEF EmitJournal
  <2>2. CASE rjournal' = rjournal /\ Return(th)
    <3>1. Moved(th) /\ pc'[th] = "idle" /\ at'[th] = at[th] + 1 /\ Grows /\ ThreadOK(th)'
      BY <1>1, <2>1, <2>2, ReturnIs, ChainGrows, ElsewhereOK DEF Elsewhere
    <3> QED
      BY <2>1, <2>2, <3>1, OnlyMoved
  <2>3. CASE rjournal' = Append(rjournal, loc[th][1]) /\ Goto(th, "witness", loc[th])
    <3>1. Moved(th) /\ pc'[th] = "witness" /\ loc'[th] = loc[th] /\ at' = at
      BY <1>1, <2>3, GotoIs
    <3>2. Grows /\ script' = script
      BY <1>1, <2>1, <3>1, ChainGrows DEF Moved
    <3>3. ThreadOK(th)'
      BY <1>1, <3>1, <3>2, BackedKept DEF ThreadOK
    <3>4. EmissionsOK'
      <4>1. EventsOK(Append(rjournal, loc[th][1]))
        BY <1>1, EventAppended
      <4> QED
        BY <1>1, <2>1, <2>3, <3>2, <4>1, EventsKept DEF EmissionsOK
    <3>5. Placed' /\ (\A u \in Threads : ThreadOK(u))'
      BY <1>1, <3>1, <3>2, <3>3, MovedPlaced, AllThreadsOK DEF GuiltInv
    <3> QED
      BY <3>2, <3>4, <3>5, RoundKept, LogKept DEF GuiltInv, Grows
  <2> QED
    BY <2>1, <2>2, <2>3
<1>4. CASE EmitWitness(th)
  <2>1. /\ UNCHANGED <<events, rjournal>>
        /\ Return(th) \/ (Goto(th, loc[th][2], loc[th][3]) /\ loc[th][2] # "return")
        /\ chain' = chain \/ \E r : chain' = Append(chain, r)
    BY <1>4 DEF EmitWitness
  <2>2. Grows
    BY <1>1, <2>1, ChainGrows
  <2>3. CASE Return(th)
    <3>1. Moved(th) /\ pc'[th] = "idle" /\ at'[th] = at[th] + 1 /\ ThreadOK(th)'
      BY <1>1, <2>3, ReturnIs, ElsewhereOK DEF Elsewhere
    <3> QED
      BY <2>1, <2>2, <3>1, OnlyMoved
  <2>4. CASE Goto(th, loc[th][2], loc[th][3]) /\ loc[th][2] # "return"
    <3>1. Moved(th) /\ pc'[th] = loc[th][2] /\ at' = at
      BY <1>1, <2>4, GotoIs
    <3>2. ThreadOK(th)'
      BY <1>1, <2>4, <3>1, ElsewhereOK DEF Elsewhere, Onward
    <3> QED
      BY <1>1, <2>1, <2>2, <3>1, <3>2, OnlyMoved
  <2> QED
    BY <2>1, <2>3, <2>4
<1> QED
  BY <1>2, <1>3, <1>4 DEF Emit

(* Routing and cross-verification accuse nobody of fraud.                  *)
LEMMA RouteKeeps ==
    ASSUME GuiltInv, NEW th \in Threads, Route(th), UNCHANGED <<round, fraudLog>>,
           at[th] <= Len(script[th])
    PROVE  GuiltInv'
<1>1. RoutesOn(th) /\ UNCHANGED <<events, rjournal, chain>>
  BY RouteRoutesOn DEF registryVars
<1>2. Placed /\ Grows /\ at[th] \in Nat
  BY <1>1, ChainGrows DEF GuiltInv, Placed
<1>3. CASE Return(th)
  <2>1. Moved(th) /\ pc'[th] = "idle" /\ at'[th] = at[th] + 1 /\ ThreadOK(th)'
    BY <1>2, <1>3, ReturnIs, ElsewhereOK DEF Elsewhere
  <2> QED
    BY <1>1, <1>2, <2>1, OnlyMoved
<1>4. ASSUME NEW p \in Elsewhere \ {"idle"}, NEW l, Goto(th, p, l) PROVE GuiltInv'
  <2>1. Moved(th) /\ pc'[th] = p /\ at' = at /\ ThreadOK(th)'
    BY <1>2, <1>4, GotoIs, ElsewhereOK
  <2> QED
    BY <1>1, <1>2, <2>1, OnlyMoved
<1>5. ASSUME NEW topic, NEW o, NEW ok, NEW l, NEW then \in Onward,
             Goto(th, "apply", Emission(Verdict(topic, o, ok), then, l))
      PROVE  GuiltInv'
  <2>1. /\ Moved(th) /\ pc'[th] = "apply" /\ at' = at
        /\ loc'[th] = Emission(Verdict(topic, o, ok), then, l)
    BY <1>2, <1>5, GotoIs
  <2>2. loc'[th][1] = Verdict(topic, o, ok) /\ loc'[th][2] = then
    BY <2>1 DEF Emission
  <2>3. Verdict(topic, o, ok).ev = "verdict"
    BY DEF Verdict
  <2>4. \A e : e = Verdict(topic, o, ok) => EventOK(e)'
    BY <2>3 DEF EventOK
  <2>5. ThreadOK(th)'
    BY <2>1, <2>2, <2>4 DEF ThreadOK
  <2> QED
    BY <1>1, <1>2, <2>1, <2>5, OnlyMoved
<1> QED
  BY <1>1, <1>3, <1>4, <1>5 DEF RoutesOn

(* A challenge step that leaves the round and the fraud log alone: opened  *)
(* and resolved records, seats, seals, refusals.                           *)
LEMMA QuietKeeps ==
    ASSUME GuiltInv, NEW th \in Threads,
           \/ NoteOpen(th) \/ ClaimSeat(th) \/ Commit(th) \/ Seal(th) \/ Reveal(th)
           \/ NoteReveal(th) \/ NoteResolve(th)
    PROVE  GuiltInv'
<1>1. /\ Placed /\ IsSeq(chain) /\ ThreadOK(th) /\ RoundOK
      /\ at[th] \in Nat /\ at[th] <= Len(script[th])
      /\ UNCHANGED <<events, rjournal, round, fraudLog>>
  BY DEF GuiltInv, Placed, NoteOpen, ClaimSeat, Commit, Seal, Reveal, NoteReveal, NoteResolve,
         Ready, challengeKept, registryVars
<1>2. chain' = chain \/ \E r : chain' = Append(chain, r)
  BY DEF NoteOpen, ClaimSeat, Commit, Seal, Reveal, NoteReveal, NoteResolve, Noted
<1>3. Grows
  BY <1>1, <1>2, ChainGrows
<1>4. CASE Return(th)
  <2>1. Moved(th) /\ pc'[th] = "idle" /\ at'[th] = at[th] + 1 /\ ThreadOK(th)'
    BY <1>1, <1>4, ReturnIs, ElsewhereOK DEF Elsewhere
  <2> QED
    BY <1>1, <1>3, <2>1, OnlyMoved
<1>5. ASSUME Goto(th, "seated", <<>>) PROVE GuiltInv'
  <2>1. Moved(th) /\ pc'[th] = "seated" /\ at' = at /\ ThreadOK(th)'
    BY <1>1, <1>5, GotoIs, ElsewhereOK DEF Elsewhere
  <2> QED
    BY <1>1, <1>3, <2>1, OnlyMoved
<1>6. ASSUME Commit(th), Goto(th, "sealing", <<>>) PROVE GuiltInv'
  <2>1. Moved(th) /\ pc'[th] = "sealing" /\ at' = at /\ script' = script
    BY <1>1, <1>6, GotoIs DEF Moved
  <2>2. Call(th)' = Call(th) /\ Call(th).op = "commit"
    BY <1>6, <2>1 DEF Call, Commit, Ready
  <2>3. ThreadOK(th)'
    BY <2>1, <2>2 DEF ThreadOK
  <2> QED
    BY <1>1, <1>3, <2>1, <2>3, OnlyMoved
<1>7. ASSUME Seal(th) PROVE GuiltInv'
  <2>1. PICK c : c = Call(th)
    OBVIOUS
  <2>2. /\ pc[th] = "sealing" /\ chain' = Append(chain, Note("commit", c.v, c.verdict))
        /\ Goto(th, "sealed", Len(chain'))
    BY <1>7, <2>1 DEF Seal, Noted, IndexOf
  <2>3. Moved(th) /\ pc'[th] = "sealed" /\ loc'[th] = Len(chain') /\ at' = at /\ script' = script
    BY <1>1, <2>2, GotoIs DEF Moved
  <2>4. Call(th)' = c /\ c.op = "commit"
    BY <1>1, <2>1, <2>2, <2>3 DEF Call, ThreadOK
  <2>5. /\ Len(chain') \in DOMAIN chain'
        /\ chain'[Len(chain')] = Note("commit", c.v, c.verdict)
    BY <1>1, <2>2, SeqAppended
  <2>6. \A n : n = Len(chain') => CommitAt(n, c.v, c.verdict)'
    BY <2>5 DEF CommitAt, Note
  <2>7. ThreadOK(th)'
    BY <2>3, <2>4, <2>6 DEF ThreadOK
  <2> QED
    BY <1>1, <1>3, <2>3, <2>7, OnlyMoved
<1>8. ASSUME Reveal(th), Committed(Call(th).v), Goto(th, "revealing", round.commits[Call(th).v])
      PROVE  GuiltInv'
  <2>1. PICK c : c = Call(th)
    OBVIOUS
  <2>2. PICK l : l = round.commits[c.v]
    OBVIOUS
  <2>3. Moved(th) /\ pc'[th] = "revealing" /\ loc'[th] = l /\ at' = at /\ script' = script
    BY <1>1, <1>8, <2>1, <2>2, GotoIs DEF Moved
  <2>4. Call(th)' = c /\ c.op = "reveal"
    BY <1>8, <2>1, <2>3 DEF Call, Reveal, Ready
  <2>5. Backed(c.v, l)
    BY <1>1, <1>8, <2>1, <2>2 DEF Committed, RoundOK, CommitsOK
  <2>6. Backed(c.v, l)'
    BY <1>3, <2>3, <2>5, BackedKept
  <2>7. ThreadOK(th)'
    BY <2>3, <2>4, <2>6 DEF ThreadOK
  <2> QED
    BY <1>1, <1>3, <2>3, <2>7, OnlyMoved
<1>9. \/ Return(th) \/ Goto(th, "seated", <<>>)
      \/ Commit(th) /\ Goto(th, "sealing", <<>>)
      \/ Seal(th)
      \/ Reveal(th) /\ Committed(Call(th).v) /\ Goto(th, "revealing", round.commits[Call(th).v])
  BY DEF NoteOpen, ClaimSeat, Commit, Reveal, NoteReveal, NoteResolve
<1> QED
  BY <1>4, <1>5, <1>6, <1>7, <1>8, <1>9

(* The moving thread has changed the round as well.                        *)
LEMMA RoundMoved ==
    ASSUME GuiltInv, NEW th \in Threads, Moved(th), at'[th] \in {at[th], at[th] + 1},
           pc'[th] # "idle" => at'[th] <= Len(script[th]), ThreadOK(th)', RoundOK',
           UNCHANGED <<chain, events, rjournal, fraudLog>>
    PROVE  GuiltInv'
<1>1. Placed' /\ script' = script /\ Grows
  BY MovedPlaced, ChainGrows DEF GuiltInv, Moved
<1>2. (\A u \in Threads : ThreadOK(u))'
  BY <1>1, AllThreadsOK DEF GuiltInv
<1>3. EmissionsOK' /\ LogOK'
  BY <1>1, EmissionsKept, LogKept DEF GuiltInv
<1> QED
  BY <1>1, <1>2, <1>3 DEF GuiltInv, Grows

(* A round with the same commitments and frauds.                           *)
LEMMA SameRoundOK ==
    ASSUME RoundOK, IsSeq(chain), UNCHANGED <<chain, script>>, RoundShape',
           round'.commits = round.commits, round'.frauds = round.frauds
    PROVE  RoundOK'
<1>1. Grows
  BY ChainGrows
<1>2. CommitsOK' /\ FraudsOK'
  BY <1>1, BackedKept DEF RoundOK, CommitsOK, FraudsOK
<1> QED
  BY <1>2 DEF RoundOK

(* open, claim_seat's win, a verdict shown, resolve: neither a commitment  *)
(* nor a fraud is added.                                                   *)
LEMMA RoundKeeps ==
    ASSUME GuiltInv, NEW th \in Threads, Open(th) \/ TakeSeat(th) \/ ShowVerdict(th) \/ Resolve(th)
    PROVE  GuiltInv'
<1>1. /\ Placed /\ IsSeq(chain) /\ ThreadOK(th) /\ RoundOK /\ RoundShape
      /\ at[th] \in Nat /\ at[th] <= Len(script[th])
      /\ UNCHANGED <<chain, events, rjournal, fraudLog>>
  BY DEF GuiltInv, RoundOK, Placed, Open, TakeSeat, ShowVerdict, Resolve, Ready, challengeKept,
         registryVars
<1>2. script' = script
  BY DEF Open, TakeSeat, ShowVerdict, Resolve, Goto, Return
<1>3. RoundOK'
  <2>1. CASE Open(th) /\ round' # round
    <3>1. RoundShape' /\ round'.commits = <<>> /\ round'.frauds = {}
      BY <2>1 DEF Open, NoRound, RoundShape
    <3> QED
      BY <3>1 DEF RoundOK, CommitsOK, FraudsOK
  <2>2. CASE round' = round
    BY <1>1, <1>2, <2>2, SameRoundOK DEF RoundShape
  <2>3. CASE TakeSeat(th)
    <3>1. RoundShape' /\ round'.commits = round.commits /\ round'.frauds = round.frauds
      BY <1>1, <2>3 DEF TakeSeat, RoundShape
    <3> QED
      BY <1>1, <1>2, <3>1, SameRoundOK
  <2>4. CASE ShowVerdict(th)
    <3>1. PICK w : round' = [round EXCEPT !.reveals = w]
      BY <2>4 DEF ShowVerdict
    <3>2. RoundShape' /\ round'.commits = round.commits /\ round'.frauds = round.frauds
      BY <1>1, <3>1 DEF RoundShape
    <3> QED
      BY <1>1, <1>2, <3>2, SameRoundOK
  <2>5. CASE Resolve(th) /\ round' # round
    <3>1. PICK w : round' = [round EXCEPT !.resolved = w]
      BY <2>5 DEF Resolve
    <3>2. RoundShape' /\ round'.commits = round.commits /\ round'.frauds = round.frauds
      BY <1>1, <3>1 DEF RoundShape
    <3> QED
      BY <1>1, <1>2, <3>2, SameRoundOK
  <2> QED
    BY <2>1, <2>2, <2>3, <2>4, <2>5
<1>4. CASE Return(th)
  <2>1. Moved(th) /\ pc'[th] = "idle" /\ at'[th] = at[th] + 1 /\ ThreadOK(th)'
    BY <1>1, <1>4, ReturnIs, ElsewhereOK DEF Elsewhere
  <2> QED
    BY <1>1, <1>3, <2>1, RoundMoved
<1>5. ASSUME NEW p \in {"noteOpen", "noteResolve"}, Goto(th, p, <<>>) PROVE GuiltInv'
  <2>1. Moved(th) /\ pc'[th] = p /\ at' = at /\ ThreadOK(th)'
    BY <1>1, <1>5, GotoIs, ElsewhereOK DEF Elsewhere
  <2> QED
    BY <1>1, <1>3, <2>1, RoundMoved
<1>6. ASSUME ShowVerdict(th) PROVE GuiltInv'
  <2>1. pc[th] = "revealing" /\ Goto(th, "shown", <<>>)
    BY <1>6 DEF ShowVerdict
  <2>2. Moved(th) /\ pc'[th] = "shown" /\ at' = at
    BY <1>1, <2>1, GotoIs
  <2>3. Call(th)' = Call(th) /\ Call(th).op = "reveal"
    BY <1>1, <1>2, <2>1, <2>2 DEF Call, ThreadOK
  <2>4. ThreadOK(th)'
    BY <2>2, <2>3 DEF ThreadOK
  <2> QED
    BY <1>1, <1>3, <2>2, <2>4, RoundMoved
<1>7. \/ Return(th) \/ ShowVerdict(th)
      \/ \E p \in {"noteOpen", "noteResolve"} : Goto(th, p, <<>>)
  BY DEF Open, TakeSeat, Resolve
<1> QED
  BY <1>4, <1>5, <1>6, <1>7

(* A commitment is remembered with the index of its record.                *)
LEMMA StoreKeeps ==
    ASSUME GuiltInv, NEW th \in Threads, StoreCommit(th)
    PROVE  GuiltInv'
<1>1. /\ Placed /\ IsSeq(chain) /\ ThreadOK(th) /\ RoundOK /\ RoundShape
      /\ at[th] \in Nat /\ at[th] <= Len(script[th]) /\ at[th] # 0
      /\ DOMAIN script[th] = 1..Len(script[th]) /\ Len(script[th]) \in Nat
      /\ pc[th] = "sealed" /\ Return(th)
      /\ UNCHANGED <<chain, events, rjournal, fraudLog>>
  BY DEF GuiltInv, RoundOK, Placed, StoreCommit, challengeKept, registryVars
<1>2. PICK c : c = Call(th)
  OBVIOUS
<1>3. PICK n : n = loc[th]
  OBVIOUS
<1> DEFINE new == [verdict |-> c.verdict, index |-> n]
<1>4. Moved(th) /\ pc'[th] = "idle" /\ at'[th] = at[th] + 1 /\ ThreadOK(th)' /\ script' = script
  BY <1>1, ReturnIs, ElsewhereOK DEF Elsewhere, Moved
<1>5. CommitAt(n, c.v, c.verdict) /\ c.op = "commit" /\ c = script[th][at[th]]
  BY <1>1, <1>2, <1>3 DEF ThreadOK, Call
<1>6. Backed(c.v, new)
  <2>1. at[th] \in DOMAIN script[th]
    BY <1>1
  <2>2. Sealed(c.v, c.verdict)
    BY <1>5, <2>1 DEF Sealed
  <2>3. new.index = n /\ new.verdict = c.verdict
    OBVIOUS
  <2> HIDE DEF new
  <2> QED
    BY <1>5, <2>2, <2>3 DEF Backed
<1>7. Grows
  BY <1>1, ChainGrows
<1> HIDE DEF new
<1>8. PICK w : w = WithCommit(round.commits, c.v, new)
  OBVIOUS
<1>9. round' = [round EXCEPT !.commits = w]
  BY <1>2, <1>3, <1>8 DEF StoreCommit, new
<1>10. RoundShape' /\ round'.commits = w /\ round'.frauds = round.frauds
  BY <1>1, <1>9 DEF RoundShape
<1>11. \A v \in DOMAIN w : Backed(v, w[v])
  BY <1>1, <1>6, <1>8 DEF WithCommit, RoundOK, CommitsOK
<1>12. CommitsOK'
  BY <1>4, <1>7, <1>10, <1>11, BackedKept DEF CommitsOK
<1>13. FraudsOK'
  BY <1>1, <1>4, <1>7, <1>10, BackedKept DEF RoundOK, FraudsOK
<1> QED
  BY <1>1, <1>4, <1>10, <1>12, <1>13, RoundMoved DEF RoundOK

(* A reveal that is not what was sealed convicts its author: both calls    *)
(* are in the scripts.                                                     *)
LEMMA RevealerGuilty ==
    ASSUME GuiltInv, NEW th \in Threads, pc[th] \in {"revealing", "fraud"},
           Call(th).verdict # loc[th].verdict
    PROVE  ~Honest(Call(th).v)
<1>1. /\ Backed(Call(th).v, loc[th]) /\ Call(th).op = "reveal"
      /\ at[th] \in DOMAIN script[th]
  BY DEF GuiltInv, ThreadOK, Placed
<1>2. PICK u \in Threads : \E j \in DOMAIN script[u] :
        /\ script[u][j].op = "commit" /\ script[u][j].v = Call(th).v
        /\ script[u][j].verdict = loc[th].verdict
  BY <1>1 DEF Backed, Sealed
<1>3. PICK j \in DOMAIN script[u] :
        /\ script[u][j].op = "commit" /\ script[u][j].v = Call(th).v
        /\ script[u][j].verdict = loc[th].verdict
  BY <1>2
<1>4. SUFFICES ASSUME Honest(Call(th).v) PROVE FALSE
  OBVIOUS
<1>5. script[th][at[th]].verdict = script[u][j].verdict
  BY <1>1, <1>3, <1>4 DEF Honest, Call
<1> QED
  BY <1>3, <1>5 DEF Call

(* The fraud is remembered.                                                *)
LEMMA CatchKeeps ==
    ASSUME GuiltInv, NEW th \in Threads, CatchFraud(th)
    PROVE  GuiltInv'
<1>1. /\ Placed /\ IsSeq(chain) /\ ThreadOK(th) /\ RoundOK /\ RoundShape
      /\ at[th] \in Nat /\ at[th] <= Len(script[th])
      /\ pc[th] = "revealing" /\ Call(th).verdict # loc[th].verdict
      /\ Goto(th, "fraud", loc[th])
      /\ UNCHANGED <<chain, events, rjournal, fraudLog>>
  BY DEF GuiltInv, RoundOK, Placed, CatchFraud, challengeKept, registryVars
<1>2. PICK c : c = Call(th)
  OBVIOUS
<1>3. PICK l : l = loc[th]
  OBVIOUS
<1>4. Moved(th) /\ pc'[th] = "fraud" /\ loc'[th] = l /\ at' = at /\ script' = script
  BY <1>1, <1>3, GotoIs DEF Moved
<1>5. Grows
  BY <1>1, ChainGrows
<1>6. Backed(c.v, l) /\ c.op = "reveal" /\ c.verdict # l.verdict /\ ~Honest(c.v)
  BY <1>1, <1>2, <1>3, RevealerGuilty DEF ThreadOK
<1>7. Backed(c.v, l)' /\ Call(th)' = c
  BY <1>2, <1>4, <1>5, <1>6, BackedKept DEF Call
<1>8. ThreadOK(th)'
  BY <1>4, <1>6, <1>7 DEF ThreadOK
<1>9. PICK f : f = Fraud(th)
  OBVIOUS
<1>10. f.v = c.v /\ round' = [round EXCEPT !.frauds = round.frauds \union {f}]
  BY <1>2, <1>9 DEF CatchFraud, Fraud
<1>11. RoundShape' /\ round'.commits = round.commits /\ round'.frauds = round.frauds \union {f}
  BY <1>1, <1>10 DEF RoundShape
<1>12. CommitsOK' /\ FraudsOK'
  BY <1>1, <1>4, <1>5, <1>6, <1>10, <1>11, BackedKept DEF RoundOK, CommitsOK, FraudsOK
<1> QED
  BY <1>1, <1>4, <1>8, <1>11, <1>12, RoundMoved DEF RoundOK

(* The fraud is logged, witnessed, and its author slashed.                 *)
LEMMA NoteFraudKeeps ==
    ASSUME GuiltInv, NEW th \in Threads, NoteFraud(th)
    PROVE  GuiltInv'
<1>1. PICK c : c = Call(th)
  OBVIOUS
<1>2. PICK f : f = Fraud(th)
  OBVIOUS
<1>3. /\ Placed /\ IsSeq(chain) /\ ThreadOK(th) /\ RoundOK /\ LogOK
      /\ at[th] \in Nat /\ at[th] <= Len(script[th])
      /\ pc[th] = "fraud" /\ Goto(th, "apply", Emission(Slash(c.v), "return", <<>>))
      /\ fraudLog' = Append(fraudLog, f) /\ \E r : chain' = Append(chain, r)
      /\ UNCHANGED <<events, rjournal, round>>
  BY <1>1, <1>2 DEF GuiltInv, Placed, NoteFraud, Noted, challengeKept, registryVars
<1>4. /\ Moved(th) /\ pc'[th] = "apply" /\ at' = at /\ script' = script
      /\ loc'[th][1] = Slash(c.v) /\ loc'[th][2] = "return"
  BY <1>3, GotoIs DEF Moved, Emission
<1>5. Grows
  BY <1>3, ChainGrows
<1>6. ~Honest(c.v) /\ Backed(c.v, loc[th]) /\ c.verdict # loc[th].verdict
  BY <1>1, <1>3, RevealerGuilty DEF ThreadOK
<1>7. f.v = c.v /\ f.index = loc[th].index /\ f.committed = loc[th].verdict /\ f.revealed = c.verdict
  BY <1>1, <1>2 DEF Fraud
<1>8. ProofConvicts(f) /\ ~Honest(f.v)
  BY <1>6, <1>7 DEF ProofConvicts, Backed, CommitAt
<1>9. EventOK(Slash(c.v))
  BY <1>6 DEF EventOK, Slash
<1>10. ThreadOK(th)'
  BY <1>4, <1>5, <1>9, BackedKept DEF ThreadOK, Onward
<1>11. LogOK'
  <2> DEFINE n == Len(fraudLog)
  <2>1. /\ n \in Nat /\ DOMAIN fraudLog = 1..n /\ IsSeq(fraudLog')
        /\ DOMAIN fraudLog' = 1..(n + 1)
        /\ \A i \in 1..n : fraudLog'[i] = fraudLog[i]
        /\ fraudLog'[n + 1] = f
    BY <1>3, SeqAppended DEF LogOK
  <2> HIDE DEF n
  <2>2. ASSUME NEW i \in DOMAIN fraudLog'
        PROVE  ProofConvicts(fraudLog'[i]) /\ ~Honest(fraudLog'[i].v)
    <3>1. i \in 1..n \/ i = n + 1
      BY <2>1
    <3> QED
      BY <1>3, <1>8, <2>1, <3>1 DEF LogOK
  <2> QED
    BY <1>4, <1>5, <2>1, <2>2, BackedKept DEF LogOK
<1>12. Placed' /\ (\A u \in Threads : ThreadOK(u))'
  BY <1>3, <1>4, <1>5, <1>10, MovedPlaced, AllThreadsOK DEF GuiltInv
<1> QED
  BY <1>3, <1>4, <1>5, <1>11, <1>12, EmissionsKept, RoundKept DEF GuiltInv, Grows

(* Nobody is accused at the start.                                         *)
LEMMA GuiltInit == Init => GuiltInv
<1> SUFFICES ASSUME Init PROVE GuiltInv
  OBVIOUS
<1>1. /\ at = [th \in Threads |-> 1] /\ pc = [th \in Threads |-> "idle"]
      /\ loc = [th \in Threads |-> <<>>] /\ events = <<>> /\ rjournal = <<>> /\ chain = <<>>
      /\ round = NoRound /\ fraudLog = <<>>
  BY DEF Init, RegistryInit, ChallengeInit
<1>2. PICK w \in Works : script = w.script
  BY DEF Init
<1>3. ASSUME NEW th \in Threads
      PROVE  Len(script[th]) \in Nat /\ DOMAIN script[th] = 1..Len(script[th])
  <2>1. script[th] \in Seq(Range1(script[th]))
    BY <1>2, WorksAssumption
  <2> HIDE DEF Range1
  <2> QED
    BY <2>1
<1>4. Placed
  BY <1>1, <1>3 DEF Placed
<1>5. ASSUME NEW th \in Threads PROVE ThreadOK(th)
  BY <1>1 DEF ThreadOK
<1>6. IsSeq(<<>>) /\ DOMAIN <<>> = {}
  BY DEF IsSeq
<1>7. RoundOK
  BY <1>1, <1>6 DEF RoundOK, RoundShape, CommitsOK, FraudsOK, NoRound
<1>8. EmissionsOK /\ LogOK /\ IsSeq(chain)
  BY <1>1, <1>6 DEF EmissionsOK, EventsOK, LogOK
<1> QED
  BY <1>4, <1>5, <1>7, <1>8 DEF GuiltInv

(* A restart forgets the round and the calls under way, replays the        *)
(* registry's journal and keeps the fraud log and the chain.               *)
LEMMA CrashKeeps ==
    ASSUME GuiltInv, Crash
    PROVE  GuiltInv'
<1>1. /\ script' = script /\ UNCHANGED <<rjournal, chain, fraudLog>> /\ events' = rjournal
      /\ round' = NoRound
      /\ at' = [th \in Threads |-> IF pc[th] = "idle" THEN at[th] ELSE at[th] + 1]
      /\ pc' = [th \in Threads |-> "idle"] /\ loc' = [th \in Threads |-> <<>>]
  BY DEF Crash, RegistryRestart, ChallengeRestart
<1>2. Placed'
  BY <1>1 DEF GuiltInv, Placed
<1>3. (\A th \in Threads : ThreadOK(th))'
  BY <1>1 DEF ThreadOK
<1>4. Grows
  BY <1>1, ChainGrows DEF GuiltInv
<1>5. EmissionsOK' /\ LogOK'
  BY <1>1, <1>4, EventsKept, LogKept DEF GuiltInv, EmissionsOK
<1>6. DOMAIN <<>> = {}
  OBVIOUS
<1>7. RoundOK'
  BY <1>1, <1>6 DEF RoundOK, RoundShape, CommitsOK, FraudsOK, NoRound
<1> QED
  BY <1>2, <1>3, <1>4, <1>5, <1>7 DEF GuiltInv, Grows

(* Steps that touch no variable the invariant reads.                       *)
LEMMA UntouchedKeeps ==
    ASSUME GuiltInv, UNCHANGED <<script, at, pc, loc, events, rjournal, chain, round, fraudLog>>
    PROVE  GuiltInv'
<1>1. Grows /\ Placed'
  BY ChainGrows DEF GuiltInv, Placed
<1>2. ASSUME NEW u \in Threads PROVE ThreadOK(u)'
  BY <1>1, OtherThreadOK DEF GuiltInv
<1> QED
  BY <1>1, <1>2, EmissionsKept, RoundKept, LogKept DEF GuiltInv, Grows

(* A thread takes a step inside its script only.                           *)
LEMMA RouteInScript ==
    ASSUME Placed, NEW th \in Threads, Route(th)
    PROVE  at[th] <= Len(script[th])
<1>1. pc[th] # "idle" \/ at[th] <= Len(script[th])
  BY DEF Route, StartRoute, Generate, SelectPanel, Score, Judge, ScoreSelf, Claim, NextSubtask,
         StartCross, AskPeer, CrossRecord, CrossDone, Ready
<1> QED
  BY <1>1 DEF Placed

(* Every step keeps the invariant.                                         *)
LEMMA GuiltNext ==
    ASSUME GuiltInv, [Next]_vars
    PROVE  GuiltInv'
<1>1. ASSUME NEW th \in Threads, EmitStep(th) PROVE GuiltInv'
  BY <1>1, EmitKeeps DEF EmitStep
<1>2. ASSUME NEW th \in Threads, RouteStep(th) PROVE GuiltInv'
  BY <1>2, RouteKeeps, RouteInScript DEF RouteStep, GuiltInv
<1>3. ASSUME NEW th \in Threads, ChallengeStep(th) PROVE GuiltInv'
  BY <1>3, QuietKeeps, RoundKeeps, StoreKeeps, CatchKeeps, NoteFraudKeeps
     DEF ChallengeStep, Challenge
<1>4. CASE Tick
  BY <1>4, UntouchedKeeps DEF Tick, threadVars, registryVars
<1>5. CASE Crash
  BY <1>5, CrashKeeps
<1>6. CASE UNCHANGED vars
  BY <1>6, UntouchedKeeps DEF vars, threadVars, registryVars
<1> QED
  BY <1>1, <1>2, <1>3, <1>4, <1>5, <1>6 DEF Next

(* The invariant holds throughout.                                         *)
LEMMA GuiltAlways == VerificationSpec => []GuiltInv
  BY GuiltInit, GuiltNext, PTL DEF VerificationSpec

(* reveal, verify_fraud_proof: a verifier that seals and shows one verdict *)
(* is never accused, logged or slashed, and every proof in the log         *)
(* convicts on the chain alone, after any restarts.                        *)
THEOREM OnlyTheGuilty == VerificationSpec => []ConvictsTheGuilty
<1>1. GuiltInv => ConvictsTheGuilty
  <2> SUFFICES ASSUME GuiltInv PROVE ConvictsTheGuilty
    OBVIOUS
  <2>1. FraudProofsConvict
    BY DEF GuiltInv, LogOK, FraudProofsConvict
  <2>2. ASSUME NEW v \in Verifiers, Honest(v)
        PROVE  /\ v \notin Fraudsters
               /\ \A i \in DOMAIN fraudLog : fraudLog[i].v # v
               /\ \A i \in DOMAIN events : events[i] # Slash(v)
    <3>1. v \notin Fraudsters
      BY <2>2 DEF GuiltInv, RoundOK, FraudsOK, Fraudsters
    <3>2. \A i \in DOMAIN fraudLog : fraudLog[i].v # v
      BY <2>2 DEF GuiltInv, LogOK
    <3>3. Slash(v).ev = "slash" /\ Slash(v).object = v
      BY DEF Slash
    <3>4. \A i \in DOMAIN events : events[i] # Slash(v)
      BY <2>2, <3>3 DEF GuiltInv, EmissionsOK, EventsOK, EventOK
    <3> QED
      BY <3>1, <3>2, <3>4
  <2> QED
    BY <2>1, <2>2 DEF ConvictsTheGuilty, HonestNeverConvicted
<1> QED
  BY <1>1, GuiltAlways, PTL

---------------------------------------------------------------------------
(* A reveal or a fraud is in the round before it is on the chain.          *)
ShownOK(th) ==
    /\ pc[th] \in {"revealing", "shown", "fraud"} => round.open
    /\ pc[th] = "shown" => Call(th).v \in DOMAIN round.reveals
    /\ pc[th] = "fraud" => Call(th).v \in Fraudsters
NotesOK ==
    round.open =>
        /\ round.since \in Nat /\ round.revealBy \in Nat
        /\ \A i \in DOMAIN chain : i > round.since /\ chain[i].kind = "CHALLENGE" =>
              /\ chain[i].phase = "reveal" => chain[i].v \in DOMAIN round.reveals
              /\ chain[i].phase = "fraud" => chain[i].v \in Fraudsters
(* A round is decided once its deadline has passed, on what was in it.     *)
DecidedOK ==
    round.open /\ round.resolved # <<>> =>
        /\ clock >= round.revealBy
        /\ \A i \in Timely("reveal") : chain[i].v \in round.resolved.revealed \union Fraudsters
        /\ \A i \in Timely("fraud") : chain[i].v \notin round.resolved.supporters

(* The inductive invariant behind the tally.                               *)
TallyInv == /\ clock \in Nat /\ NotesOK /\ DecidedOK
            /\ \A th \in Threads : ShownOK(th)

(* Nothing but threads' places moved: they left the reveal, or stayed.     *)
LEMMA TallyKept ==
    ASSUME TallyInv, UNCHANGED <<chain, round, script>>, clock' \in Nat, clock' >= clock,
           NEW th, \A u \in Threads \ {th} : pc'[u] = pc[u] /\ at'[u] = at[u],
           th \in Threads => ShownOK(th)'
    PROVE  TallyInv'
<1>1. NotesOK'
  BY DEF TallyInv, NotesOK, Fraudsters
<1>2. DecidedOK'
  BY DEF TallyInv, NotesOK, DecidedOK, Fraudsters, Timely
<1>3. ASSUME NEW u \in Threads, u # th PROVE ShownOK(u)'
  <2>1. Call(u)' = Call(u) /\ Fraudsters' = Fraudsters
    BY <1>3 DEF Call, Fraudsters
  <2> QED
    BY <1>3, <2>1 DEF TallyInv, ShownOK
<1> QED
  BY <1>1, <1>2, <1>3 DEF TallyInv

(* A record that may follow: made now, and a reveal or a fraud only of one *)
(* the round holds.                                                        *)
RecordOK(r) ==
    r.kind = "CHALLENGE" =>
        /\ r.at = clock
        /\ r.phase = "reveal" => r.v \in DOMAIN round.reveals
        /\ r.phase = "fraud" => r.v \in Fraudsters

(* Such a record changes no tally.                                         *)
LEMMA TallyNoted ==
    ASSUME TallyInv, IsSeq(chain), NEW r, chain' = Append(chain, r), RecordOK(r),
           UNCHANGED <<round, script, clock>>, NEW th \in Threads,
           \A u \in Threads \ {th} : pc'[u] = pc[u] /\ at'[u] = at[u], ShownOK(th)'
    PROVE  TallyInv'
<1> DEFINE n == Len(chain)
<1>1. /\ n \in Nat /\ DOMAIN chain = 1..n /\ DOMAIN chain' = 1..(n + 1)
      /\ \A i \in 1..n : chain'[i] = chain[i]
      /\ chain'[n + 1] = r
  BY SeqAppended
<1> HIDE DEF n
<1>2. Fraudsters' = Fraudsters
  BY DEF Fraudsters
<1>3. NotesOK'
  <2> SUFFICES ASSUME round.open, NEW i \in 1..(n + 1), i > round.since,
                      chain'[i].kind = "CHALLENGE"
               PROVE  /\ chain'[i].phase = "reveal" => chain'[i].v \in DOMAIN round.reveals
                      /\ chain'[i].phase = "fraud" => chain'[i].v \in Fraudsters
    BY <1>1, <1>2 DEF NotesOK, TallyInv
  <2>1. i \in 1..n \/ i = n + 1
    BY <1>1
  <2> QED
    BY <1>1, <2>1 DEF TallyInv, NotesOK, RecordOK
<1>4. DecidedOK'
  <2> SUFFICES ASSUME round.open, round.resolved # <<>> PROVE DecidedOK'
    BY DEF DecidedOK
  <2>1. clock >= round.revealBy /\ round.revealBy \in Nat /\ clock \in Nat
    BY DEF TallyInv, NotesOK, DecidedOK
  <2>2. ASSUME NEW phase \in {"reveal", "fraud"}, NEW i \in Timely(phase)'
        PROVE  i \in Timely(phase) /\ chain'[i] = chain[i]
    <3>1. /\ i \in 1..(n + 1) /\ chain'[i].kind = "CHALLENGE" /\ chain'[i].phase = phase
          /\ i > round.since /\ chain'[i].at < round.revealBy
      BY <1>1, <2>2 DEF Timely
    <3>2. i # n + 1
      BY <1>1, <2>1, <3>1 DEF RecordOK
    <3>3. i \in 1..n
      BY <1>1, <3>1, <3>2
    <3> QED
      BY <1>1, <3>1, <3>3 DEF Timely
  <2>3. \A i \in Timely("reveal")' : chain'[i].v \in round.resolved.revealed \union Fraudsters
    BY <2>2 DEF TallyInv, DecidedOK
  <2>4. \A i \in Timely("fraud")' : chain'[i].v \notin round.resolved.supporters
    BY <2>2 DEF TallyInv, DecidedOK
  <2> QED
    BY <1>2, <2>1, <2>3, <2>4 DEF DecidedOK
<1>5. ASSUME NEW u \in Threads, u # th PROVE ShownOK(u)'
  <2>1. Call(u)' = Call(u)
    BY <1>5 DEF Call
  <2> QED
    BY <1>2, <1>5, <2>1 DEF TallyInv, ShownOK
<1> QED
  BY <1>3, <1>4, <1>5 DEF TallyInv

(* More reveals and more frauds in the round, the rest as it was.          *)
LEMMA TallyGrown ==
    ASSUME TallyInv, UNCHANGED <<chain, script, clock>>,
           round'.open = round.open, round'.since = round.since,
           round'.revealBy = round.revealBy, round'.resolved = round.resolved,
           DOMAIN round.reveals \subseteq DOMAIN round'.reveals,
           round.frauds \subseteq round'.frauds,
           NEW th \in Threads, \A u \in Threads \ {th} : pc'[u] = pc[u] /\ at'[u] = at[u],
           ShownOK(th)'
    PROVE  TallyInv'
<1>1. Fraudsters \subseteq Fraudsters'
  BY DEF Fraudsters
<1>2. NotesOK'
  BY <1>1 DEF TallyInv, NotesOK
<1>3. Timely("reveal")' = Timely("reveal") /\ Timely("fraud")' = Timely("fraud")
  BY DEF Timely
<1>4. DecidedOK'
  BY <1>1, <1>3 DEF TallyInv, DecidedOK
<1>5. ASSUME NEW u \in Threads, u # th PROVE ShownOK(u)'
  <2>1. Call(u)' = Call(u)
    BY <1>5 DEF Call
  <2> QED
    BY <1>1, <1>5, <2>1 DEF TallyInv, ShownOK
<1> QED
  BY <1>2, <1>4, <1>5 DEF TallyInv

(* A thread that is nowhere in a reveal.                                   *)
LEMMA NotRevealing ==
    ASSUME NEW th \in Threads, pc'[th] \notin {"revealing", "shown", "fraud"}
    PROVE  ShownOK(th)'
  BY DEF ShownOK

(* Emissions, routes and cross-verifications write no record of a round.   *)
LEMMA EmitTally ==
    ASSUME GuiltInv, TallyInv, NEW th \in Threads, Emit(th), UNCHANGED <<round, clock>>
    PROVE  TallyInv'
<1>1. /\ Placed /\ IsSeq(chain) /\ ThreadOK(th) /\ clock \in Nat
      /\ pc[th] \in {"apply", "journal", "witness"} /\ loc[th][2] \in Onward
  BY DEF GuiltInv, TallyInv, Emit, EmitApply, EmitJournal, EmitWitness, ThreadOK
<1>2. \/ Return(th) \/ Goto(th, "journal", loc[th]) \/ Goto(th, "witness", loc[th])
      \/ Goto(th, loc[th][2], loc[th][3])
  BY DEF Emit, EmitApply, EmitJournal, EmitWitness
<1>3. /\ Moved(th) /\ pc'[th] \in {"idle", "journal", "witness"} \union Onward
  BY <1>1, <1>2, GotoIs, ReturnIs
<1>4. ShownOK(th)'
  BY <1>3, NotRevealing DEF Onward
<1>5. \/ chain' = chain
      \/ \E r : r.kind = "REGISTRY" /\ chain' = Append(chain, r)
  BY DEF Emit, EmitApply, EmitJournal, EmitWitness, Digest
<1>6. CASE chain' = chain
  BY <1>1, <1>3, <1>4, <1>6, TallyKept DEF Moved
<1>7. ASSUME NEW r, r.kind = "REGISTRY", chain' = Append(chain, r) PROVE TallyInv'
  <2>1. RecordOK(r)
    BY <1>7 DEF RecordOK
  <2> QED
    BY <1>1, <1>3, <1>4, <1>7, <2>1, TallyNoted DEF Moved
<1> QED
  BY <1>5, <1>6, <1>7

(* The steps of a route disturb no round.                                 *)
LEMMA RouteTally ==
    ASSUME GuiltInv, TallyInv, NEW th \in Threads, Route(th), UNCHANGED <<round, clock>>
    PROVE  TallyInv'
<1>1. RoutesOn(th) /\ chain' = chain /\ Placed /\ clock \in Nat
  BY RouteRoutesOn DEF GuiltInv, TallyInv
<1>2. Moved(th) /\ pc'[th] \in Elsewhere \union {"apply"}
  BY <1>1, GotoIs, ReturnIs DEF RoutesOn, Elsewhere
<1>3. ShownOK(th)'
  BY <1>2, NotRevealing DEF Elsewhere
<1> QED
  BY <1>1, <1>2, <1>3, TallyKept DEF Moved

(* Records that are neither reveals nor frauds, and refusals.              *)
LEMMA QuietTally ==
    ASSUME GuiltInv, TallyInv, NEW th \in Threads,
           NoteOpen(th) \/ ClaimSeat(th) \/ Commit(th) \/ Seal(th) \/ Reveal(th) \/ NoteResolve(th)
    PROVE  TallyInv'
<1>1. Placed /\ IsSeq(chain) /\ clock \in Nat /\ UNCHANGED <<round, clock>>
  BY DEF GuiltInv, TallyInv, NoteOpen, ClaimSeat, Commit, Seal, Reveal, NoteResolve, challengeKept
<1>2. \/ Return(th) \/ Goto(th, "seated", <<>>) \/ Goto(th, "sealing", <<>>)
      \/ \E l : Goto(th, "sealed", l)
      \/ round.open /\ \E l : Goto(th, "revealing", l)
  BY DEF NoteOpen, ClaimSeat, Commit, Seal, Reveal, NoteResolve
<1>3. /\ Moved(th)
      /\ \/ pc'[th] \in {"idle", "seated", "sealing", "sealed"}
         \/ pc'[th] = "revealing" /\ round.open
  BY <1>1, <1>2, GotoIs, ReturnIs
<1>4. ShownOK(th)'
  BY <1>1, <1>3 DEF ShownOK
<1>5. \/ chain' = chain
      \/ \E phase, v, what : phase \notin {"reveal", "fraud"}
                             /\ chain' = Append(chain, Note(phase, v, what))
  BY DEF NoteOpen, ClaimSeat, Commit, Seal, Reveal, NoteResolve, Noted
<1>6. CASE chain' = chain
  BY <1>1, <1>3, <1>4, <1>6, TallyKept DEF Moved
<1>7. ASSUME NEW phase, NEW v, NEW what, phase \notin {"reveal", "fraud"},
             chain' = Append(chain, Note(phase, v, what))
      PROVE  TallyInv'
  <2>1. RecordOK(Note(phase, v, what))
    BY <1>7 DEF RecordOK, Note
  <2> QED
    BY <1>1, <1>3, <1>4, <1>7, <2>1, TallyNoted DEF Moved
<1> QED
  BY <1>5, <1>6, <1>7

(* A reveal or a fraud is noted after the round holds it.                  *)
LEMMA NoteTally ==
    ASSUME GuiltInv, TallyInv, NEW th \in Threads, NoteReveal(th) \/ NoteFraud(th)
    PROVE  TallyInv'
<1>1. Placed /\ IsSeq(chain) /\ clock \in Nat /\ UNCHANGED <<round, clock>>
  BY DEF GuiltInv, TallyInv, NoteReveal, NoteFraud, challengeKept
<1>2. Return(th) \/ \E l : Goto(th, "apply", l)
  BY DEF NoteReveal, NoteFraud
<1>3. Moved(th) /\ pc'[th] \in {"idle", "apply"}
  BY <1>1, <1>2, GotoIs, ReturnIs
<1>4. ShownOK(th)'
  BY <1>3, NotRevealing
<1>5. PICK phase \in {"reveal", "fraud"} :
        /\ pc[th] = IF phase = "reveal" THEN "shown" ELSE "fraud"
        /\ chain' = Append(chain, Note(phase, Call(th).v, Call(th).verdict))
  BY DEF NoteReveal, NoteFraud, Noted
<1> DEFINE r == Note(phase, Call(th).v, Call(th).verdict)
<1>6. r.phase = phase /\ r.v = Call(th).v /\ r.at = clock
  BY DEF Note
<1>7. phase = "reveal" => Call(th).v \in DOMAIN round.reveals
  BY <1>5 DEF TallyInv, ShownOK
<1>8. phase = "fraud" => Call(th).v \in Fraudsters
  BY <1>5 DEF TallyInv, ShownOK
<1> HIDE DEF r
<1>9. RecordOK(r)
  BY <1>6, <1>7, <1>8 DEF RecordOK
<1> QED
  BY <1>1, <1>3, <1>4, <1>5, <1>9, TallyNoted DEF Moved, r

(* Seats, commitments, reveals and frauds are only added to a round.       *)
LEMMA GrowTally ==
    ASSUME GuiltInv, TallyInv, NEW th \in Threads,
           TakeSeat(th) \/ StoreCommit(th) \/ ShowVerdict(th) \/ CatchFraud(th)
    PROVE  TallyInv'
<1>1. Placed /\ RoundShape /\ clock \in Nat /\ UNCHANGED <<chain, clock>> /\ ShownOK(th)
  BY DEF GuiltInv, RoundOK, TallyInv, TakeSeat, StoreCommit, ShowVerdict, CatchFraud, challengeKept
<1>2. ASSUME TakeSeat(th) \/ StoreCommit(th) PROVE TallyInv'
  <2>1. PICK w : round' = [round EXCEPT !.seats = w] \/ round' = [round EXCEPT !.commits = w]
    BY <1>2 DEF TakeSeat, StoreCommit
  <2>2. /\ round'.open = round.open /\ round'.since = round.since
        /\ round'.revealBy = round.revealBy /\ round'.resolved = round.resolved
        /\ round'.reveals = round.reveals /\ round'.frauds = round.frauds
    BY <1>1, <2>1 DEF RoundShape
  <2>3. Return(th)
    BY <1>2 DEF TakeSeat, StoreCommit
  <2>4. Moved(th) /\ pc'[th] = "idle"
    BY <1>1, <2>3, ReturnIs
  <2>5. ShownOK(th)'
    BY <2>4, NotRevealing
  <2> QED
    BY <1>1, <2>2, <2>4, <2>5, TallyGrown DEF Moved
<1>3. ASSUME ShowVerdict(th) PROVE TallyInv'
  <2>1. PICK c : c = Call(th)
    OBVIOUS
  <2>2. /\ pc[th] = "revealing" /\ Goto(th, "shown", <<>>)
        /\ round' = [round EXCEPT !.reveals = WithCommit(round.reveals, c.v, c.verdict)]
    BY <1>3, <2>1 DEF ShowVerdict
  <2>3. PICK w : w = WithCommit(round.reveals, c.v, c.verdict)
    OBVIOUS
  <2>4. DOMAIN w = DOMAIN round.reveals \union {c.v}
    BY <2>3 DEF WithCommit
  <2>5. /\ round'.open = round.open /\ round'.since = round.since
        /\ round'.revealBy = round.revealBy /\ round'.resolved = round.resolved
        /\ round'.reveals = w /\ round'.frauds = round.frauds
    BY <1>1, <2>2, <2>3 DEF RoundShape
  <2>6. Moved(th) /\ pc'[th] = "shown" /\ at' = at
    BY <1>1, <2>2, GotoIs
  <2>7. Call(th)' = c /\ round.open
    BY <1>1, <2>1, <2>2, <2>6 DEF Call, Moved, ShownOK
  <2>8. ShownOK(th)'
    BY <2>4, <2>5, <2>6, <2>7 DEF ShownOK
  <2> QED
    BY <1>1, <2>4, <2>5, <2>6, <2>8, TallyGrown DEF Moved
<1>4. ASSUME CatchFraud(th) PROVE TallyInv'
  <2>1. PICK c : c = Call(th)
    OBVIOUS
  <2>2. PICK f : f = Fraud(th)
    OBVIOUS
  <2>3. /\ pc[th] = "revealing" /\ Goto(th, "fraud", loc[th]) /\ f.v = c.v
        /\ round' = [round EXCEPT !.frauds = round.frauds \union {f}]
    BY <1>4, <2>1, <2>2 DEF CatchFraud, Fraud
  <2>4. /\ round'.open = round.open /\ round'.since = round.since
        /\ round'.revealBy = round.revealBy /\ round'.resolved = round.resolved
        /\ round'.reveals = round.reveals /\ round'.frauds = round.frauds \union {f}
    BY <1>1, <2>3 DEF RoundShape
  <2>5. Moved(th) /\ pc'[th] = "fraud" /\ at' = at
    BY <1>1, <2>3, GotoIs
  <2>6. Call(th)' = c /\ round.open
    BY <1>1, <2>1, <2>3, <2>5 DEF Call, Moved, ShownOK
  <2>7. c.v \in Fraudsters'
    BY <2>3, <2>4 DEF Fraudsters
  <2>8. ShownOK(th)'
    BY <2>4, <2>5, <2>6, <2>7 DEF ShownOK
  <2> QED
    BY <1>1, <2>4, <2>5, <2>8, TallyGrown DEF Moved
<1> QED
  BY <1>2, <1>3, <1>4

(* open: a new round starts after everything that is on the chain.         *)
LEMMA OpenTally ==
    ASSUME GuiltInv, TallyInv, NEW th \in Threads, Open(th)
    PROVE  TallyInv'
<1>1. Placed /\ IsSeq(chain) /\ clock \in Nat /\ UNCHANGED <<chain, clock>>
  BY DEF GuiltInv, TallyInv, Open, challengeKept
<1>2. Moved(th) /\ pc'[th] \in {"idle", "noteOpen"}
  BY <1>1, GotoIs, ReturnIs DEF Open
<1>3. ShownOK(th)'
  BY <1>2, NotRevealing
<1>4. CASE round' = round
  BY <1>1, <1>2, <1>3, <1>4, TallyKept DEF Moved
<1>5. CASE round' # round
  <2>1. /\ ~round.open /\ round'.since = Len(chain) /\ round'.resolved = <<>>
        /\ round'.revealBy = clock + CommitWindow + RevealWindow
    BY <1>5 DEF Open, NoRound
  <2>2. Len(chain) \in Nat /\ DOMAIN chain = 1..Len(chain)
    BY <1>1 DEF IsSeq
  <2>3. ~ \E i \in DOMAIN chain : i > Len(chain)
    BY <2>2
  <2>4. clock + CommitWindow + RevealWindow \in Nat
    BY <1>1, ChallengeAssumption
  <2>5. NotesOK' /\ DecidedOK'
    BY <1>1, <2>1, <2>2, <2>3, <2>4 DEF NotesOK, DecidedOK
  <2>6. ASSUME NEW u \in Threads, u # th PROVE ShownOK(u)'
    <3>1. pc'[u] = pc[u] /\ pc[u] \notin {"revealing", "shown", "fraud"}
      BY <1>2, <2>1, <2>6 DEF Moved, TallyInv, ShownOK
    <3> QED
      BY <3>1, NotRevealing
  <2> QED
    BY <1>1, <1>3, <2>5, <2>6 DEF TallyInv
<1> QED
  BY <1>4, <1>5

(* resolve: after the deadline, everything timely is in the round.         *)
LEMMA ResolveTally ==
    ASSUME GuiltInv, TallyInv, NEW th \in Threads, Resolve(th)
    PROVE  TallyInv'
<1>1. Placed /\ RoundShape /\ clock \in Nat /\ UNCHANGED <<chain, clock>> /\ ShownOK(th)
  BY DEF GuiltInv, RoundOK, TallyInv, Resolve, challengeKept
<1>2. Moved(th) /\ pc'[th] \in {"idle", "noteResolve"}
  BY <1>1, GotoIs, ReturnIs DEF Resolve
<1>3. ShownOK(th)'
  BY <1>2, NotRevealing
<1>4. CASE round' = round
  BY <1>1, <1>2, <1>3, <1>4, TallyKept DEF Moved
<1>5. CASE round' # round
  <2>1. /\ round.open /\ ~(clock < round.revealBy)
        /\ \E x : \E abstained :
              round' = [round EXCEPT !.resolved =
                           [verdict |-> x, supporters |-> Supporters(x), revealed |-> Valid,
                            abstained |-> abstained]]
    BY <1>5 DEF Resolve, ResolveFrom
  <2>2. PICK x, abstained :
           round' = [round EXCEPT !.resolved =
                        [verdict |-> x, supporters |-> Supporters(x), revealed |-> Valid,
                         abstained |-> abstained]]
    BY <2>1
  <2>3. /\ round'.open = round.open /\ round'.since = round.since
        /\ round'.revealBy = round.revealBy /\ round'.reveals = round.reveals
        /\ round'.frauds = round.frauds
        /\ round'.resolved.revealed = Valid /\ round'.resolved.supporters = Supporters(x)
    BY <1>1, <2>2 DEF RoundShape
  <2>4. Fraudsters' = Fraudsters
    BY <2>3 DEF Fraudsters
  <2>5. Timely("reveal")' = Timely("reveal") /\ Timely("fraud")' = Timely("fraud")
    BY <1>1, <2>3 DEF Timely
  <2>6. NotesOK'
    BY <1>1, <2>3, <2>4 DEF TallyInv, NotesOK
  <2>7. \A i \in Timely("reveal") : chain[i].v \in Valid \union Fraudsters
    BY <2>1 DEF TallyInv, NotesOK, Timely, Valid
  <2>8. \A i \in Timely("fraud") : chain[i].v \notin Supporters(x)
    BY <2>1 DEF TallyInv, NotesOK, Timely, Valid, Supporters
  <2>9. clock >= round.revealBy
    BY <1>1, <2>1 DEF TallyInv, NotesOK
  <2>10. DecidedOK'
    BY <1>1, <2>3, <2>4, <2>5, <2>7, <2>8, <2>9 DEF DecidedOK
  <2>11. ASSUME NEW u \in Threads, u # th PROVE ShownOK(u)'
    <3>1. pc'[u] = pc[u] /\ Call(u)' = Call(u)
      BY <1>2, <2>11 DEF Moved, Call
    <3> QED
      BY <2>3, <2>4, <2>11, <3>1 DEF TallyInv, ShownOK
  <2> QED
    BY <1>1, <1>3, <2>6, <2>10, <2>11 DEF TallyInv
<1> QED
  BY <1>4, <1>5

(* No round, no tally: at the start and after a restart.                   *)
LEMMA NoRoundTally ==
    ASSUME clock \in Nat, round = NoRound, \A th \in Threads : pc[th] = "idle"
    PROVE  TallyInv
<1>1. ~round.open
  BY DEF NoRound
<1> QED
  BY <1>1 DEF TallyInv, NotesOK, DecidedOK, ShownOK

(* Every step keeps the tally.                                             *)
LEMMA TallyNext ==
    ASSUME GuiltInv, TallyInv, [Next]_vars
    PROVE  TallyInv'
<1>1. ASSUME NEW th \in Threads, EmitStep(th) PROVE TallyInv'
  BY <1>1, EmitTally DEF EmitStep
<1>2. ASSUME NEW th \in Threads, RouteStep(th) PROVE TallyInv'
  BY <1>2, RouteTally DEF RouteStep
<1>3. ASSUME NEW th \in Threads, ChallengeStep(th) PROVE TallyInv'
  BY <1>3, QuietTally, NoteTally, GrowTally, OpenTally, ResolveTally
     DEF ChallengeStep, Challenge
<1>4. ASSUME UNCHANGED <<script, at, pc, loc, chain, round>>, clock' \in Nat, clock' >= clock
      PROVE  TallyInv'
  <2>1. PICK th : th \notin Threads
    BY Zenon, NoSetContainsEverything
  <2> QED
    BY <1>4, <2>1, TallyKept
<1>5. CASE Tick
  <2>1. clock' = clock + 1 /\ UNCHANGED <<script, at, pc, loc, chain, round>>
    BY <1>5 DEF Tick, threadVars
  <2>2. clock' \in Nat /\ clock' >= clock
    BY <2>1 DEF TallyInv
  <2> QED
    BY <1>4, <2>1, <2>2
<1>6. CASE Crash
  <2>1. clock' = clock /\ round' = NoRound /\ pc' = [th \in Threads |-> "idle"]
    BY <1>6 DEF Crash, ChallengeRestart
  <2>2. ~round'.open
    BY <2>1 DEF NoRound
  <2> QED
    BY <2>1, <2>2 DEF TallyInv, NotesOK, DecidedOK, ShownOK
<1>7. CASE UNCHANGED vars
  <2>1. clock' = clock /\ UNCHANGED <<script, at, pc, loc, chain, round>>
    BY <1>7 DEF vars, threadVars
  <2>2. clock' \in Nat /\ clock' >= clock
    BY <2>1 DEF TallyInv
  <2> QED
    BY <1>4, <2>1, <2>2
<1> QED
  BY <1>1, <1>2, <1>3, <1>5, <1>6, <1>7 DEF Next

(* reveal, resolve: a round is decided by the timely verdicts of those not *)
(* caught, and by all of them; whose fraud was witnessed in time decides   *)
(* nothing.                                                                *)
THEOREM DecidedOnTime == VerificationSpec => []RoundDecidedOnTime
<1>1. Init => TallyInv
  <2> SUFFICES ASSUME Init PROVE TallyInv
    OBVIOUS
  <2>1. clock = 0 /\ round = NoRound /\ \A th \in Threads : pc[th] = "idle"
    BY DEF Init, RegistryInit, ChallengeInit
  <2> QED
    BY <2>1, NoRoundTally
<1>2. TallyInv => RoundDecidedOnTime
  BY DEF TallyInv, DecidedOK, RoundDecidedOnTime, TimelyRevealCounts, FraudDecidesNothing
<1> QED
  BY <1>1, <1>2, TallyNext, GuiltAlways, PTL DEF VerificationSpec


---------------------------------------------------------------------------
(* What reputation rests on.  Answers from as many nodes.                  *)
Nodes(good) == {good[i].node : i \in DOMAIN good}
Distinct(good) == IsFiniteSet(Nodes(good)) /\ Cardinality(Nodes(good)) = Len(good)
Counted(good) == IsSeq(good) /\ Distinct(good) /\ Len(good) >= MinVerifiers
IsPlan(l) == l = [sub |-> l.sub, done |-> l.done] /\ IsSeq(l.done)
Top(l) == l.done[Len(l.done)]

Routing == {"subtask", "self", "panel", "scoring", "verified", "rejected", "subtaskDone"}

(* Inside a query: the generators so far, and the panel being asked.       *)
RoutedOK(th) ==
    /\ pc[th] \in Routing => Call(th).op = "route" /\ IsPlan(loc[th])
    /\ pc[th] = "panel" => Len(loc[th].done) > 0
    /\ pc[th] = "scoring" => Len(loc[th].done) > 1
(* Inside a cross-verification: each node whose answer is kept has spent   *)
(* its nonce.                                                              *)
AskedOK(th) ==
    /\ pc[th] = "asking" =>
          /\ Call(th).op = "cross" /\ loc[th] = [left |-> loc[th].left, good |-> loc[th].good]
          /\ IsSeq(loc[th].good) /\ Distinct(loc[th].good)
          /\ \A i \in DOMAIN loc[th].good : <<loc[th].good[i].node, Call(th).nonce>> \in nonces
    /\ pc[th] = "credited" => Call(th).op = "cross" /\ Counted(loc[th])
(* What an emission under way says is what its call goes on to claim.      *)
EmittedOK(th) ==
    pc[th] \in {"apply", "journal", "witness"} =>
        /\ loc[th][2] \in {"verified", "rejected"} =>
              /\ Call(th).op = "route" /\ IsPlan(loc[th][3])
              /\ loc[th][1].object = Top(loc[th][3])
              /\ loc[th][1].ok = (loc[th][2] = "verified")
        /\ loc[th][2] = "credited" => Call(th).op = "cross" /\ Counted(loc[th][3])
CallOK(th) == RoutedOK(th) /\ AskedOK(th) /\ EmittedOK(th)

(* Claims on the trace, and claims to come whose event is journaled.       *)
Claims(o, b) ==
    UNION {{<<th, i>> : i \in {i \in DOMAIN trace[th] : trace[th][i] = R("verify", o, {}, b)}}
              : th \in Threads}
Claiming(th, o, b) ==
    \/ pc[th] = "verified" /\ b /\ o = Top(loc[th])
    \/ pc[th] = "rejected" /\ ~b /\ o = Top(loc[th])
    \/ /\ pc[th] = "witness" /\ loc[th][2] \in {"verified", "rejected"}
       /\ loc[th][1].object = o /\ loc[th][1].ok = b
Owed(o, b) == Claims(o, b) \union {<<th, 0>> : th \in {u \in Threads : Claiming(u, o, b)}}
Booked(o, b) == {i \in DOMAIN rjournal : rjournal[i].object = o /\ rjournal[i].ok = b}

TraceOK == DOMAIN trace = Threads /\ \A th \in Threads : IsSeq(trace[th])
OwedOK == \A o : \A b \in BOOLEAN : /\ IsFiniteSet(Owed(o, b))
                                    /\ Cardinality(Owed(o, b)) <= Cardinality(Booked(o, b))
ResultsOK == /\ DOMAIN results = Threads
             /\ \A th \in Threads : results[th].call.op = "cross" => Counted(results[th].got)

(* The inductive invariant behind reputation.                              *)
EarnInv == TraceOK /\ ResultsOK /\ OwedOK /\ \A th \in Threads : CallOK(th)

(* The empty sequence is one.                                              *)
LEMMA NothingIsSeq == IsSeq(<<>>) /\ Len(<<>>) = 0 /\ Distinct(<<>>)
<1>1. <<>> \in Seq({<<>>[i] : i \in DOMAIN <<>>})
  <2> DEFINE S == {<<>>[i] : i \in DOMAIN <<>>}
  <2> HIDE DEF S
  <2>1. <<>> \in Seq(S)
    OBVIOUS
  <2> QED
    BY <2>1 DEF S
<1>2. DOMAIN <<>> = {} /\ Len(<<>>) = 0
  OBVIOUS
<1>3. Nodes(<<>>) = {}
  BY <1>2 DEF Nodes
<1>4. Distinct(<<>>)
  BY <1>2, <1>3, FS_EmptySet DEF Distinct
<1> QED
  BY <1>1, <1>2, <1>4 DEF IsSeq

(* A sequence as a function.                                               *)
LEMMA SeqIs ==
    ASSUME NEW s, IsSeq(s)
    PROVE  Len(s) \in Nat /\ DOMAIN s = 1..Len(s)
<1> DEFINE S == {s[i] : i \in DOMAIN s}
<1>1. s \in Seq(S)
  BY DEF IsSeq
<1> HIDE DEF S
<1> QED
  BY <1>1

(* Elements in a set make a sequence of what they are.                     *)
LEMMA SeqOfIsSeq ==
    ASSUME NEW S, NEW s \in Seq(S)
    PROVE  IsSeq(s)
<1>1. Len(s) \in Nat /\ DOMAIN s = 1..Len(s) /\ s \in [1..Len(s) -> S]
  OBVIOUS
<1> DEFINE T == {s[i] : i \in DOMAIN s}
<1>2. \A i \in 1..Len(s) : s[i] \in T
  BY <1>1
<1> HIDE DEF T
<1>3. s \in [1..Len(s) -> T]
  BY <1>1, <1>2
<1>4. s \in Seq(T)
  BY <1>1, <1>3
<1> QED
  BY <1>4 DEF T, IsSeq

(* One element replaced.                                                   *)
LEMMA SeqReplaced ==
    ASSUME NEW s, IsSeq(s), NEW n \in DOMAIN s, NEW x
    PROVE  IsSeq([s EXCEPT ![n] = x]) /\ Len([s EXCEPT ![n] = x]) = Len(s)
<1> DEFINE S == {s[i] : i \in DOMAIN s}  t == [s EXCEPT ![n] = x]
<1>1. s \in Seq(S \union {x}) /\ x \in S \union {x}
  <2>1. s \in Seq(S)
    BY DEF IsSeq
  <2> HIDE DEF S
  <2> QED
    BY <2>1
<1>2. t \in Seq(S \union {x}) /\ Len(t) = Len(s)
  <2> HIDE DEF S
  <2> QED
    BY <1>1
<1> HIDE DEF t
<1>3. IsSeq(t)
  BY <1>2, SeqOfIsSeq
<1> QED
  BY <1>2, <1>3 DEF t

(* The last element cut off.                                               *)
LEMMA SeqCut ==
    ASSUME NEW s, IsSeq(s), Len(s) > 1
    PROVE  LET t == SubSeq(s, 1, Len(s) - 1)
           IN IsSeq(t) /\ Len(t) = Len(s) - 1 /\ t[Len(t)] = s[Len(s) - 1]
<1> DEFINE S == {s[i] : i \in DOMAIN s}  t == SubSeq(s, 1, Len(s) - 1)
<1>1. s \in Seq(S) /\ Len(s) \in Nat
  BY SeqIs DEF IsSeq
<1>2. t \in Seq(S) /\ Len(t) = Len(s) - 1 /\ t[Len(s) - 1] = s[Len(s) - 1]
  <2> HIDE DEF S
  <2> QED
    BY <1>1
<1>3. IsSeq(t)
  <2> HIDE DEF S, t
  <2> QED
    BY <1>2, SeqOfIsSeq
<1> QED
  BY <1>2, <1>3


(* A thread that did not move is where it was, however many nonces others  *)
(* spent.                                                                  *)
LEMMA OtherCallOK ==
    ASSUME NEW u \in Threads, CallOK(u), script' = script, nonces \subseteq nonces',
           pc'[u] = pc[u], loc'[u] = loc[u], at'[u] = at[u]
    PROVE  CallOK(u)'
<1>1. Call(u)' = Call(u)
  BY DEF Call
<1>2. PICK c : c = Call(u)
  OBVIOUS
<1>3. Call(u)' = c
  BY <1>1, <1>2
<1>4. RoutedOK(u)'
  BY <1>2, <1>3 DEF CallOK, RoutedOK
<1>5. AskedOK(u)'
  BY <1>2, <1>3 DEF CallOK, AskedOK
<1>6. EmittedOK(u)'
  BY <1>2, <1>3 DEF CallOK, EmittedOK
<1> QED
  BY <1>4, <1>5, <1>6 DEF CallOK

(* Places a thread can be at that rely on none of this.                    *)
Free == {"idle", "noteOpen", "seated", "sealing", "sealed", "revealing", "shown", "fraud",
         "noteResolve"}

(* ... nothing is owed for them.                                           *)
LEMMA FreeOK ==
    ASSUME NEW u \in Threads, pc'[u] \in Free
    PROVE  CallOK(u)' /\ \A o, b : ~Claiming(u, o, b)'
  BY DEF Free, CallOK, RoutedOK, AskedOK, EmittedOK, Routing, Claiming

(* The steps of an emission.                                               *)
LEMMA EmitCall ==
    ASSUME Placed, NEW th \in Threads, Emit(th), ThreadOK(th), CallOK(th)
    PROVE  Moved(th) /\ CallOK(th)'
<1>1. /\ pc[th] \in {"apply", "journal", "witness"} /\ EmittedOK(th)
      /\ loc[th][2] \in Onward
  BY DEF CallOK, Emit, EmitApply, EmitJournal, EmitWitness, ThreadOK
<1>2. CASE Return(th)
  BY <1>2, ReturnIs, FreeOK DEF Free
<1>3. ASSUME NEW p \in {"journal", "witness"}, Goto(th, p, loc[th]) PROVE Moved(th) /\ CallOK(th)'
  <2>1. Moved(th) /\ pc'[th] = p /\ loc'[th] = loc[th] /\ at' = at
    BY <1>3, GotoIs
  <2>2. Call(th)' = Call(th)
    BY <2>1 DEF Call, Moved
  <2>3. EmittedOK(th)'
    BY <1>1, <2>1, <2>2 DEF EmittedOK
  <2> QED
    BY <2>1, <2>3 DEF CallOK, RoutedOK, AskedOK, Routing
<1>4. CASE Goto(th, loc[th][2], loc[th][3]) /\ loc[th][2] # "return"
  <2>1. Moved(th) /\ pc'[th] = loc[th][2] /\ loc'[th] = loc[th][3] /\ at' = at
    BY <1>4, GotoIs
  <2>2. Call(th)' = Call(th)
    BY <2>1 DEF Call, Moved
  <2>3. RoutedOK(th)'
    BY <1>1, <1>4, <2>1, <2>2 DEF EmittedOK, RoutedOK, Routing, Onward
  <2>4. AskedOK(th)'
    BY <1>1, <1>4, <2>1, <2>2 DEF EmittedOK, AskedOK, Onward
  <2>5. EmittedOK(th)'
    BY <1>1, <1>4, <2>1 DEF EmittedOK, Onward
  <2> QED
    BY <2>1, <2>3, <2>4, <2>5 DEF CallOK
<1> QED
  BY <1>1, <1>2, <1>3, <1>4 DEF Emit, EmitApply, EmitJournal, EmitWitness

(* A place in the routing of a query, as the next steps need it.           *)
LEMMA RoutingOK ==
    ASSUME Placed, NEW th \in Threads, NEW p \in Routing, NEW l, Goto(th, p, l),
           Call(th).op = "route", IsPlan(l),
           p = "panel" => Len(l.done) > 0, p = "scoring" => Len(l.done) > 1
    PROVE  Moved(th) /\ CallOK(th)'
<1>1. Moved(th) /\ pc'[th] = p /\ loc'[th] = l /\ at' = at
  BY GotoIs
<1>2. Call(th)' = Call(th)
  BY <1>1 DEF Call, Moved
<1>3. RoutedOK(th)'
  BY <1>1, <1>2 DEF RoutedOK
<1>4. AskedOK(th)' /\ EmittedOK(th)'
  BY <1>1 DEF AskedOK, EmittedOK, Routing
<1> QED
  BY <1>1, <1>3, <1>4 DEF CallOK

(* The emission of a verdict that the query will claim.                    *)
LEMMA VerdictOK ==
    ASSUME Placed, NEW th \in Threads, NEW topic, NEW o, NEW ok \in BOOLEAN, NEW l,
           Goto(th, "apply", Emission(Verdict(topic, o, ok), IF ok THEN "verified" ELSE "rejected", l)),
           Call(th).op = "route", IsPlan(l), o = Top(l)
    PROVE  Moved(th) /\ CallOK(th)'
<1> DEFINE e == Emission(Verdict(topic, o, ok), IF ok THEN "verified" ELSE "rejected", l)
<1>1. Moved(th) /\ pc'[th] = "apply" /\ loc'[th] = e /\ at' = at
  BY GotoIs
<1>2. /\ e[1].object = o /\ e[1].ok = ok /\ e[3] = l
      /\ e[2] = IF ok THEN "verified" ELSE "rejected"
  BY DEF Emission, Verdict
<1>3. Call(th)' = Call(th)
  BY <1>1 DEF Call, Moved
<1> HIDE DEF e
<1>4. EmittedOK(th)'
  BY <1>1, <1>2, <1>3 DEF EmittedOK
<1>5. RoutedOK(th)' /\ AskedOK(th)'
  BY <1>1 DEF RoutedOK, AskedOK, Routing
<1> QED
  BY <1>1, <1>4, <1>5 DEF CallOK

(* A plan with one thing more done.                                        *)
LEMMA PlanGrown ==
    ASSUME NEW l, IsPlan(l), NEW x, NEW m, m = [l EXCEPT !.done = Append(@, x)]
    PROVE  IsPlan(m) /\ Len(m.done) = Len(l.done) + 1 /\ Len(l.done) \in Nat
<1>1. m = [sub |-> l.sub, done |-> Append(l.done, x)]
  <2>1. PICK a, d : l = [sub |-> a, done |-> d]
    BY DEF IsPlan
  <2> QED
    BY ONLY m = [l EXCEPT !.done = Append(@, x)], <2>1
<1>2. IsSeq(Append(l.done, x)) /\ Len(Append(l.done, x)) = Len(l.done) + 1 /\ Len(l.done) \in Nat
  BY SeqAppended DEF IsPlan
<1>3. m.sub = l.sub /\ m.done = Append(l.done, x)
  BY <1>1
<1>4. m = [sub |-> m.sub, done |-> m.done]
  BY <1>1, <1>3
<1>5. IsPlan(m) /\ Len(m.done) = Len(l.done) + 1
  BY <1>2, <1>3, <1>4 DEF IsPlan
<1> QED
  BY <1>2, <1>5

(* The steps of a query up to its panel's verdicts.                        *)
LEMMA QueryCall ==
    ASSUME Placed, NEW th \in Threads, CallOK(th),
           StartRoute(th) \/ Generate(th) \/ SelectPanel(th) \/ Score(th)
    PROVE  Moved(th) /\ CallOK(th)'
<1>1. CASE Return(th)
  BY <1>1, ReturnIs, FreeOK DEF Free
<1>2. CASE StartRoute(th)
  <2> DEFINE l == [sub |-> 1, done |-> <<>>]
  <2>1. Goto(th, "subtask", l) /\ Call(th).op = "route"
    BY <1>2 DEF StartRoute, Ready
  <2>2. IsPlan(l)
    BY NothingIsSeq DEF IsPlan
  <2> HIDE DEF l
  <2> QED
    BY <2>1, <2>2, RoutingOK DEF Routing
<1>3. CASE Generate(th) /\ ~Return(th)
  <2>1. PICK p \in {"subtaskDone", "self", "panel"} :
            \E x : Goto(th, p, [loc[th] EXCEPT !.done = Append(@, x)])
    BY <1>3 DEF Generate
  <2>11. PICK x : Goto(th, p, [loc[th] EXCEPT !.done = Append(@, x)])
    BY <2>1
  <2>2. Call(th).op = "route" /\ IsPlan(loc[th])
    BY <1>3 DEF Generate, CallOK, RoutedOK, Routing
  <2> DEFINE m == [loc[th] EXCEPT !.done = Append(@, x)]
  <2>3. IsPlan(m) /\ Len(m.done) > 0
    <3>1. m = [loc[th] EXCEPT !.done = Append(@, x)]
      OBVIOUS
    <3> HIDE DEF m
    <3>2. /\ IsPlan(m) /\ Len(m.done) = Len(loc[th].done) + 1
          /\ Len(loc[th].done) \in Nat
      BY <2>2, <3>1, PlanGrown, Zenon
    <3> QED
      BY <2>2, <3>2
  <2>4. Goto(th, p, m)
    BY <2>11
  <2> HIDE DEF m
  <2> QED
    BY <2>1, <2>2, <2>3, <2>4, RoutingOK DEF Routing
<1>4. CASE SelectPanel(th) /\ ~Return(th)
  <2>1. PICK x : Goto(th, "scoring", [loc[th] EXCEPT !.done = Append(@, x)])
    BY <1>4 DEF SelectPanel
  <2>2. Call(th).op = "route" /\ IsPlan(loc[th]) /\ Len(loc[th].done) > 0
    BY <1>4 DEF SelectPanel, CallOK, RoutedOK, Routing
  <2> DEFINE m == [loc[th] EXCEPT !.done = Append(@, x)]
  <2>3. IsPlan(m) /\ Len(m.done) > 1
    <3>1. m = [loc[th] EXCEPT !.done = Append(@, x)]
      OBVIOUS
    <3> HIDE DEF m
    <3>2. /\ IsPlan(m) /\ Len(m.done) = Len(loc[th].done) + 1
          /\ Len(loc[th].done) \in Nat
      BY <2>2, <3>1, PlanGrown, Zenon
    <3> QED
      BY <2>2, <3>2
  <2>4. Goto(th, "scoring", m)
    BY <2>1
  <2> HIDE DEF m
  <2> QED
    BY <2>1, <2>2, <2>3, <2>4, RoutingOK DEF Routing
<1>5. CASE Score(th) /\ ~Return(th)
  <2>1. PICK v : Goto(th, "scoring", [loc[th] EXCEPT !.done[Len(loc[th].done)] = @ \ {v}])
    BY <1>5 DEF Score
  <2>2. Call(th).op = "route" /\ IsPlan(loc[th]) /\ Len(loc[th].done) > 1
    BY <1>5 DEF Score, CallOK, RoutedOK, Routing
  <2> DEFINE d == loc[th].done
             t == [d EXCEPT ![Len(d)] = @ \ {v}]
             m == [loc[th] EXCEPT !.done[Len(loc[th].done)] = @ \ {v}]
  <2>3. IsSeq(t) /\ Len(t) = Len(d)
    <3>1. IsSeq(d) /\ Len(d) \in DOMAIN d
      BY <2>2, SeqIs DEF IsPlan
    <3> HIDE DEF d
    <3>2. t = [d EXCEPT ![Len(d)] = d[Len(d)] \ {v}]
      OBVIOUS
    <3> QED
      BY <3>1, <3>2, SeqReplaced
  <2>4. m = [sub |-> loc[th].sub, done |-> t]
    <3>1. PICK a, e : loc[th] = [sub |-> a, done |-> e]
      BY <2>2 DEF IsPlan
    <3>2. loc[th].sub = a /\ d = e
      BY <3>1
    <3> QED
      BY ONLY <3>1, <3>2
  <2>5. Goto(th, "scoring", m)
    BY <2>1
  <2> HIDE DEF t, m, d
  <2>6. m.sub = loc[th].sub /\ m.done = t
    BY <2>4
  <2>7. IsPlan(m) /\ Len(m.done) > 1
    BY <2>2, <2>3, <2>4, <2>6 DEF IsPlan, d
  <2> QED
    BY <2>2, <2>5, <2>7, RoutingOK DEF Routing
<1> QED
  BY <1>1, <1>2, <1>3, <1>4, <1>5


(* Fields replaced in the locals of a call.                                *)
LEMMA PlanCut ==
    ASSUME NEW a, NEW e, NEW l, l = [sub |-> a, done |-> e],
           NEW m, m = [l EXCEPT !.done = SubSeq(@, 1, Len(@) - 1)]
    PROVE  m = [sub |-> a, done |-> SubSeq(e, 1, Len(e) - 1)]
OBVIOUS

(* The locals of a cross-verification after one peer, without its answer.  *)
LEMMA PeersCut ==
    ASSUME NEW a, NEW e, NEW l, l = [left |-> a, good |-> e], NEW m, m = [l EXCEPT !.left = Tail(@)]
    PROVE  m = [left |-> Tail(a), good |-> e]
OBVIOUS

(* ... and with it.                                                        *)
LEMMA AnswerAdded ==
    ASSUME NEW a, NEW e, NEW l, l = [left |-> a, good |-> e], NEW x,
           NEW m, m = [l EXCEPT !.good = Append(@, x)]
    PROVE  m = [left |-> a, good |-> Append(e, x)]
OBVIOUS

(* The verdict of a query, what it claims and where it goes on.            *)
LEMMA JudgedCall ==
    ASSUME Placed, NEW th \in Threads, CallOK(th),
           Judge(th) \/ ScoreSelf(th) \/ Claim(th) \/ NextSubtask(th)
    PROVE  Moved(th) /\ CallOK(th)'
<1>1. CASE Return(th)
  BY <1>1, ReturnIs, FreeOK DEF Free
<1>2. CASE Judge(th)
  <2> DEFINE d == loc[th].done
             t == SubSeq(d, 1, Len(d) - 1)
             l == [loc[th] EXCEPT !.done = SubSeq(@, 1, Len(@) - 1)]
             ok == Unanimous(Verdicts(th))
  <2>1. Call(th).op = "route" /\ IsPlan(loc[th]) /\ Len(d) > 1
    BY <1>2 DEF Judge, CallOK, RoutedOK, Routing
  <2>2. IsSeq(t) /\ t[Len(t)] = Generator(th)
    BY <2>1, SeqCut DEF IsPlan, Generator
  <2>3. l = [sub |-> loc[th].sub, done |-> t]
    <3>1. PICK a, e : loc[th] = [sub |-> a, done |-> e]
      BY <2>1 DEF IsPlan
    <3>2. loc[th].sub = a /\ d = e
      BY <3>1
    <3> QED
      BY <3>1, <3>2, PlanCut, Zenon
  <2>4. Goto(th, "apply", Emission(Verdict(Topic(th), Generator(th), ok),
                                   IF ok THEN "verified" ELSE "rejected", l))
    BY <1>2 DEF Judge
  <2>5. ok \in BOOLEAN
    BY DEF Unanimous
  <2> HIDE DEF l, t, ok
  <2>6. l.sub = loc[th].sub /\ l.done = t
    BY <2>3
  <2>7. IsPlan(l) /\ Generator(th) = Top(l)
    BY <2>2, <2>3, <2>6 DEF IsPlan, Top
  <2> QED
    BY <2>1, <2>4, <2>5, <2>7, VerdictOK
<1>3. CASE ScoreSelf(th) /\ ~Return(th)
  <2>1. PICK ok \in BOOLEAN :
            Goto(th, "apply", Emission(Verdict(Topic(th), Chosen(th), ok),
                                       IF ok THEN "verified" ELSE "rejected", loc[th]))
    BY <1>3 DEF ScoreSelf
  <2>2. Call(th).op = "route" /\ IsPlan(loc[th]) /\ Chosen(th) = Top(loc[th])
    BY <1>3 DEF ScoreSelf, CallOK, RoutedOK, Routing, Chosen, Top
  <2> QED
    BY <2>1, <2>2, VerdictOK
<1>4. CASE Claim(th) /\ ~Return(th)
  <2>1. Goto(th, "subtaskDone", loc[th]) /\ Call(th).op = "route" /\ IsPlan(loc[th])
    BY <1>4 DEF Claim, CallOK, RoutedOK, Routing
  <2> QED
    BY <2>1, RoutingOK DEF Routing
<1>5. CASE NextSubtask(th) /\ ~Return(th)
  <2> DEFINE m == [loc[th] EXCEPT !.sub = @ + 1]
  <2>1. Goto(th, "subtask", m) /\ Call(th).op = "route" /\ IsPlan(loc[th])
    BY <1>5 DEF NextSubtask, CallOK, RoutedOK, Routing
  <2>2. m = [sub |-> loc[th].sub + 1, done |-> loc[th].done]
    <3>1. PICK a, e : loc[th] = [sub |-> a, done |-> e]
      BY <2>1 DEF IsPlan
    <3>2. loc[th].sub = a /\ loc[th].done = e
      BY <3>1
    <3> QED
      BY ONLY <3>1, <3>2
  <2> HIDE DEF m
  <2>3. IsPlan(m)
    BY <2>1, <2>2 DEF IsPlan
  <2> QED
    BY <2>1, <2>3, RoutingOK DEF Routing
<1> QED
  BY <1>1, <1>2, <1>3, <1>4, <1>5

(* An answer whose nonce was not spent is of another node than the ones    *)
(* kept.                                                                   *)
LEMMA AnswerKept ==
    ASSUME NEW good, IsSeq(good), Distinct(good), NEW n, NEW x, x.node = n,
           \A i \in DOMAIN good : good[i].node # n
    PROVE  IsSeq(Append(good, x)) /\ Distinct(Append(good, x))
<1> DEFINE t == Append(good, x)
<1>1. /\ Len(good) \in Nat /\ DOMAIN good = 1..Len(good) /\ IsSeq(t)
      /\ DOMAIN t = 1..(Len(good) + 1)
      /\ \A i \in 1..Len(good) : t[i] = good[i]
      /\ t[Len(good) + 1] = x
  BY SeqAppended
<1> HIDE DEF t
<1>2. Nodes(t) = Nodes(good) \union {n} /\ n \notin Nodes(good)
  <2>1. 1..(Len(good) + 1) = 1..Len(good) \union {Len(good) + 1}
    BY <1>1
  <2> QED
    BY <1>1, <2>1 DEF Nodes
<1>3. Distinct(t)
  <2>1. IsFiniteSet(Nodes(t)) /\ Cardinality(Nodes(t)) = Cardinality(Nodes(good)) + 1
    BY <1>2, FS_AddElement DEF Distinct
  <2>2. Len(t) = Len(good) + 1
    BY SeqAppended DEF t
  <2> QED
    BY <2>1, <2>2 DEF Distinct
<1> QED
  BY <1>1, <1>3 DEF t

(* A place in a cross-verification, as the next steps need it.             *)
LEMMA AskingOK ==
    ASSUME Placed, NEW th \in Threads, NEW l, NEW left, NEW good, Goto(th, "asking", l),
           Call(th).op = "cross", l = [left |-> left, good |-> good],
           IsSeq(good), Distinct(good),
           \A i \in DOMAIN good : <<good[i].node, Call(th).nonce>> \in nonces'
    PROVE  Moved(th) /\ CallOK(th)'
<1>1. Moved(th) /\ pc'[th] = "asking" /\ loc'[th] = l /\ at' = at
  BY GotoIs
<1>2. Call(th)' = Call(th)
  BY <1>1 DEF Call, Moved
<1>3. l.left = left /\ l.good = good
  OBVIOUS
<1>4. AskedOK(th)'
  BY <1>1, <1>2, <1>3 DEF AskedOK
<1>5. RoutedOK(th)' /\ EmittedOK(th)'
  BY <1>1 DEF RoutedOK, EmittedOK, Routing
<1> QED
  BY <1>1, <1>4, <1>5 DEF CallOK

(* The steps of a cross-verification.                                      *)
LEMMA CrossCall ==
    ASSUME Placed, NEW th \in Threads, CallOK(th),
           StartCross(th) \/ AskPeer(th) \/ CrossRecord(th) \/ CrossDone(th)
    PROVE  Moved(th) /\ CallOK(th)'
<1>1. CASE Return(th)
  BY <1>1, ReturnIs, FreeOK DEF Free
<1>2. CASE StartCross(th) /\ ~Return(th)
  <2>1. PICK left : Goto(th, "asking", [left |-> left, good |-> <<>>])
    BY <1>2, Zenon DEF StartCross
  <2>2. Call(th).op = "cross"
    BY <1>2 DEF StartCross, Ready
  <2>3. \A i \in DOMAIN <<>> : <<<<>>[i].node, Call(th).nonce>> \in nonces'
    OBVIOUS
  <2> QED
    BY <2>1, <2>2, <2>3, NothingIsSeq, AskingOK
<1>3. CASE AskPeer(th)
  <2> DEFINE g == loc[th].good
             n == NodeOf[Head(loc[th].left)]
             rest == Tail(loc[th].left)
             skip == [loc[th] EXCEPT !.left = Tail(@)]
  <2>1. /\ Call(th).op = "cross" /\ loc[th] = [left |-> loc[th].left, good |-> g]
        /\ IsSeq(g) /\ Distinct(g)
        /\ \A i \in DOMAIN g : <<g[i].node, Call(th).nonce>> \in nonces
    <3>1. pc[th] = "asking"
      BY <1>3, Zenon DEF AskPeer
    <3> QED
      BY <3>1 DEF CallOK, AskedOK
  <2>2. /\ skip = [left |-> rest, good |-> g]
        /\ \A x : [skip EXCEPT !.good = Append(@, x)] = [left |-> rest, good |-> Append(g, x)]
    <3>1. PICK a, e : loc[th] = [left |-> a, good |-> e]
      BY <2>1, Zenon
    <3>2. loc[th].left = a /\ g = e /\ rest = Tail(a)
      BY <3>1
    <3>3. skip = [left |-> Tail(a), good |-> e]
      <4>1. skip = [loc[th] EXCEPT !.left = Tail(@)]
        OBVIOUS
      <4> HIDE DEF skip
      <4> QED
        BY <3>1, <4>1, PeersCut
    <3>4. ASSUME NEW x PROVE [skip EXCEPT !.good = Append(@, x)] = [left |-> rest, good |-> Append(g, x)]
      <4> DEFINE m == [skip EXCEPT !.good = Append(@, x)]
      <4>1. m = [skip EXCEPT !.good = Append(@, x)]
        OBVIOUS
      <4> HIDE DEF skip, m
      <4>2. m = [left |-> Tail(a), good |-> Append(e, x)]
        BY <3>3, <4>1, AnswerAdded
      <4>3. m = [left |-> rest, good |-> Append(g, x)]
        BY <3>2, <4>2
      <4> QED
        BY <4>3 DEF m
    <3> HIDE DEF skip
    <3> QED
      BY <3>2, <3>3, <3>4
  <2>3. nonces \subseteq nonces'
    <3>1. \/ nonces' = nonces
          \/ nonces' = nonces \union {<<n, Call(th).nonce>>}
      BY <1>3, Zenon DEF AskPeer
    <3> QED
      BY <3>1
  <2>4. CASE Goto(th, "asking", skip)
    <3> HIDE DEF skip, rest, g
    <3> QED
      BY <2>1, <2>2, <2>3, <2>4, AskingOK
  <2>5. CASE ~Goto(th, "asking", skip)
    <3>1. /\ <<n, Call(th).nonce>> \notin nonces
          /\ nonces' = nonces \union {<<n, Call(th).nonce>>}
          /\ \E ok \in BOOLEAN :
                Goto(th, "asking", [skip EXCEPT !.good = Append(@, [node |-> n, ok |-> ok])])
      BY <1>3, <2>5, Zenon DEF AskPeer, UseNonce
    <3>2. PICK ok \in BOOLEAN :
            Goto(th, "asking", [skip EXCEPT !.good = Append(@, [node |-> n, ok |-> ok])])
      BY <3>1, Zenon
    <3> DEFINE x == [node |-> n, ok |-> ok]
               h == Append(g, x)
    <3>3. x.node = n
      OBVIOUS
    <3>4. Goto(th, "asking", [left |-> rest, good |-> h])
      BY <2>2, <3>2, Zenon
    <3> HIDE DEF x, g, n, rest, skip
    <3>5. \A i \in DOMAIN g : g[i].node # n
      BY <2>1, <3>1
    <3>6. IsSeq(h) /\ Distinct(h)
      BY <2>1, <3>3, <3>5, AnswerKept
    <3>7. \A i \in DOMAIN h : <<h[i].node, Call(th).nonce>> \in nonces'
      <4>1. /\ Len(g) \in Nat /\ DOMAIN g = 1..Len(g) /\ DOMAIN h = 1..(Len(g) + 1)
            /\ \A i \in 1..Len(g) : h[i] = g[i]
            /\ h[Len(g) + 1] = x
        BY <2>1, SeqAppended
      <4> HIDE DEF h
      <4>2. ASSUME NEW i \in 1..(Len(g) + 1) PROVE <<h[i].node, Call(th).nonce>> \in nonces'
        <5>1. i \in 1..Len(g) \/ i = Len(g) + 1
          BY <4>1
        <5> QED
          BY <2>1, <3>1, <3>3, <4>1, <5>1
      <4> QED
        BY <4>1, <4>2
    <3> HIDE DEF h
    <3> QED
      BY <2>1, <3>4, <3>6, <3>7, AskingOK
  <2> QED
    BY <2>4, <2>5
<1>4. CASE CrossRecord(th) /\ ~Return(th)
  <2> DEFINE g == loc[th].good
             e == Emission(Verdict("cross", Call(th).generator, Passing(g)), "credited", g)
  <2>1. Goto(th, "apply", e) /\ Len(g) >= MinVerifiers
    BY <1>4 DEF CrossRecord
  <2>2. Call(th).op = "cross" /\ Counted(g)
    BY <1>4, <2>1 DEF CrossRecord, CallOK, AskedOK, Counted
  <2>3. e[2] = "credited" /\ e[3] = g
    BY DEF Emission
  <2> HIDE DEF e, g
  <2>4. Moved(th) /\ pc'[th] = "apply" /\ loc'[th] = e /\ at' = at
    BY <2>1, GotoIs
  <2>5. Call(th)' = Call(th)
    BY <2>4 DEF Call, Moved
  <2>6. EmittedOK(th)'
    BY <2>2, <2>3, <2>4, <2>5 DEF EmittedOK
  <2>7. RoutedOK(th)' /\ AskedOK(th)'
    BY <2>4 DEF RoutedOK, AskedOK, Routing
  <2> QED
    BY <2>4, <2>6, <2>7 DEF CallOK
<1>5. CASE CrossDone(th)
  BY <1>1, <1>5 DEF CrossDone
<1> QED
  BY <1>1, <1>2, <1>3, <1>4, <1>5

(* The steps of a challenge: none is a claim, and what it emits leads to   *)
(* none.                                                                   *)
LEMMA ChallengeCall ==
    ASSUME Placed, NEW th \in Threads, Challenge(th)
    PROVE  Moved(th) /\ CallOK(th)' /\ \A o, b : ~Claiming(th, o, b)'
<1>1. CASE Return(th)
  BY <1>1, ReturnIs, FreeOK DEF Free
<1>2. ASSUME NEW p \in Free, NEW l, Goto(th, p, l) PROVE Moved(th) /\ CallOK(th)' /\ \A o, b : ~Claiming(th, o, b)'
  BY <1>2, GotoIs, FreeOK
<1>3. CASE NoteFraud(th)
  <2> DEFINE e == Emission(Slash(Call(th).v), "return", <<>>)
  <2>1. Moved(th) /\ pc'[th] = "apply" /\ loc'[th] = e
    BY <1>3, GotoIs DEF NoteFraud
  <2>2. e[2] = "return"
    BY DEF Emission
  <2> HIDE DEF e
  <2>3. EmittedOK(th)' /\ RoutedOK(th)' /\ AskedOK(th)'
    BY <2>1, <2>2 DEF EmittedOK, RoutedOK, AskedOK, Routing
  <2>4. \A o, b : ~Claiming(th, o, b)'
    BY <2>1 DEF Claiming
  <2> QED
    BY <2>1, <2>3, <2>4 DEF CallOK
<1>4. ASSUME ~NoteFraud(th) PROVE Return(th) \/ \E p \in Free : \E l : Goto(th, p, l)
  BY <1>4 DEF Challenge, Open, NoteOpen, ClaimSeat, TakeSeat, Commit, Seal, StoreCommit, Reveal,
              ShowVerdict, NoteReveal, CatchFraud, Resolve, NoteResolve, Free
<1> QED
  BY <1>1, <1>2, <1>3, <1>4


---------------------------------------------------------------------------
(* Claims are covered by the journal.  A pair that is owed for.            *)
LEMMA OwedIs ==
    ASSUME NEW o, NEW b, NEW x
    PROVE  x \in Owed(o, b) <=>
             \/ \E th \in Threads : \E i \in DOMAIN trace[th] :
                   x = <<th, i>> /\ trace[th][i] = R("verify", o, {}, b)
             \/ \E th \in Threads : x = <<th, 0>> /\ Claiming(th, o, b)
<1>1. x \in Claims(o, b) <=> \E th \in Threads : \E i \in DOMAIN trace[th] :
                                x = <<th, i>> /\ trace[th][i] = R("verify", o, {}, b)
  BY DEF Claims
<1>2. x \in {<<th, 0>> : th \in {u \in Threads : Claiming(u, o, b)}} <=>
        \E th \in Threads : x = <<th, 0>> /\ Claiming(th, o, b)
  OBVIOUS
<1> QED
  BY <1>1, <1>2 DEF Owed

(* Events of one kind in the journal are finitely many.                    *)
LEMMA BookedFinite ==
    ASSUME IsSeq(rjournal), NEW o, NEW b
    PROVE  IsFiniteSet(Booked(o, b)) /\ Cardinality(Booked(o, b)) \in Nat
<1>1. Len(rjournal) \in Nat /\ DOMAIN rjournal = 1..Len(rjournal)
  BY SeqIs
<1>2. IsFiniteSet(1..Len(rjournal)) /\ Booked(o, b) \in SUBSET (1..Len(rjournal))
  BY <1>1, FS_Interval DEF Booked
<1>3. IsFiniteSet(Booked(o, b))
  BY <1>2, FS_Subset
<1> QED
  BY <1>3, FS_CardinalityType

(* A finite set with one element more, or with less.                       *)
LEMMA OneMore ==
    ASSUME NEW S, IsFiniteSet(S), NEW x
    PROVE  IsFiniteSet(S \union {x}) /\ Cardinality(S \union {x}) <= Cardinality(S) + 1
<1>1. IsFiniteSet(S \union {x}) /\ Cardinality(S) \in Nat
  BY FS_AddElement, FS_CardinalityType
<1>2. CASE x \in S
  <2>1. S \union {x} = S
    BY <1>2
  <2> QED
    BY <1>1, <2>1
<1>3. CASE x \notin S
  <2>1. Cardinality(S \union {x}) = Cardinality(S) + 1
    BY <1>3, FS_AddElement
  <2> QED
    BY <1>1, <2>1
<1> QED
  BY <1>2, <1>3

(* Nothing new is owed and nothing is lost.                                *)
LEMMA OwedLess ==
    ASSUME OwedOK, IsSeq(rjournal), rjournal' = rjournal,
           \A o : \A b \in BOOLEAN : Owed(o, b)' \subseteq Owed(o, b)
    PROVE  OwedOK'
<1> SUFFICES ASSUME NEW o, NEW b \in BOOLEAN
             PROVE  /\ IsFiniteSet(Owed(o, b)')
                    /\ Cardinality(Owed(o, b)') <= Cardinality(Booked(o, b)')
  BY DEF OwedOK
<1>1. /\ IsFiniteSet(Owed(o, b)) /\ Cardinality(Owed(o, b)) <= Cardinality(Booked(o, b))
      /\ Owed(o, b)' \in SUBSET Owed(o, b) /\ Booked(o, b)' = Booked(o, b)
  BY DEF OwedOK, Booked
<1>2. /\ IsFiniteSet(Owed(o, b)') /\ Cardinality(Owed(o, b)') <= Cardinality(Owed(o, b))
  BY <1>1, FS_Subset
<1>3. /\ Cardinality(Owed(o, b)') \in Nat /\ Cardinality(Owed(o, b)) \in Nat
      /\ Cardinality(Booked(o, b)) \in Nat
  BY <1>1, <1>2, BookedFinite, FS_CardinalityType
<1> QED
  BY <1>1, <1>2, <1>3

(* An event more in the journal pays for one claim more of its kind.       *)
LEMMA OwedMore ==
    ASSUME OwedOK, IsSeq(rjournal), NEW e, rjournal' = Append(rjournal, e), NEW x,
           \A o : \A b \in BOOLEAN : Owed(o, b)' \subseteq Owed(o, b) \union
                                        (IF e.object = o /\ e.ok = b THEN {x} ELSE {})
    PROVE  OwedOK'
<1> SUFFICES ASSUME NEW o, NEW b \in BOOLEAN
             PROVE  /\ IsFiniteSet(Owed(o, b)')
                    /\ Cardinality(Owed(o, b)') <= Cardinality(Booked(o, b)')
  BY DEF OwedOK
<1> DEFINE n == Len(rjournal)
<1>1. /\ n \in Nat /\ DOMAIN rjournal = 1..n /\ DOMAIN rjournal' = 1..(n + 1)
      /\ \A i \in 1..n : rjournal'[i] = rjournal[i]
      /\ rjournal'[n + 1] = e
  BY SeqAppended
<1>2. /\ IsFiniteSet(Owed(o, b)) /\ Cardinality(Owed(o, b)) <= Cardinality(Booked(o, b))
      /\ IsFiniteSet(Booked(o, b)) /\ Cardinality(Booked(o, b)) \in Nat
      /\ Cardinality(Owed(o, b)) \in Nat
  BY BookedFinite, FS_CardinalityType DEF OwedOK
<1> HIDE DEF n
<1>3. CASE e.object = o /\ e.ok = b
  <2>1. Booked(o, b)' = Booked(o, b) \union {n + 1} /\ n + 1 \notin Booked(o, b)
    BY <1>1, <1>3 DEF Booked
  <2>2. Cardinality(Booked(o, b)') = Cardinality(Booked(o, b)) + 1
    BY <1>2, <2>1, FS_AddElement
  <2>3. Owed(o, b)' \in SUBSET (Owed(o, b) \union {x})
    BY <1>3
  <2>4. /\ IsFiniteSet(Owed(o, b) \union {x})
        /\ Cardinality(Owed(o, b) \union {x}) <= Cardinality(Owed(o, b)) + 1
    BY <1>2, OneMore
  <2>5. /\ IsFiniteSet(Owed(o, b)')
        /\ Cardinality(Owed(o, b)') <= Cardinality(Owed(o, b) \union {x})
    BY <2>3, <2>4, FS_Subset
  <2>6. /\ Cardinality(Owed(o, b)') \in Nat
        /\ Cardinality(Owed(o, b) \union {x}) \in Nat
    BY <2>4, <2>5, FS_CardinalityType
  <2> QED
    BY <1>2, <2>2, <2>4, <2>5, <2>6
<1>4. CASE ~(e.object = o /\ e.ok = b)
  <2>1. Booked(o, b)' = Booked(o, b)
    BY <1>1, <1>4 DEF Booked
  <2>2. Owed(o, b)' \in SUBSET Owed(o, b)
    BY <1>4
  <2>3. /\ IsFiniteSet(Owed(o, b)') /\ Cardinality(Owed(o, b)') <= Cardinality(Owed(o, b))
    BY <1>2, <2>2, FS_Subset
  <2>4. Cardinality(Owed(o, b)') \in Nat
    BY <2>3, FS_CardinalityType
  <2> QED
    BY <1>2, <2>1, <2>3, <2>4
<1> QED
  BY <1>3, <1>4

(* One thing owed instead of another.                                      *)
LEMMA OwedSwapped ==
    ASSUME OwedOK, IsSeq(rjournal), rjournal' = rjournal, NEW x, NEW y,
           \A o : \A b \in BOOLEAN :
              \/ Owed(o, b)' \subseteq Owed(o, b)
              \/ x \in Owed(o, b) /\ Owed(o, b)' \subseteq (Owed(o, b) \ {x}) \union {y}
    PROVE  OwedOK'
<1> SUFFICES ASSUME NEW o, NEW b \in BOOLEAN
             PROVE  /\ IsFiniteSet(Owed(o, b)')
                    /\ Cardinality(Owed(o, b)') <= Cardinality(Booked(o, b)')
  BY DEF OwedOK
<1>1. /\ IsFiniteSet(Owed(o, b)) /\ Cardinality(Owed(o, b)) <= Cardinality(Booked(o, b))
      /\ Booked(o, b)' = Booked(o, b) /\ Cardinality(Booked(o, b)) \in Nat
      /\ Cardinality(Owed(o, b)) \in Nat
  <2>1. IsFiniteSet(Owed(o, b)) /\ Cardinality(Owed(o, b)) <= Cardinality(Booked(o, b))
    BY DEF OwedOK
  <2>2. Booked(o, b)' = Booked(o, b)
    BY DEF Booked
  <2> QED
    BY <2>1, <2>2, BookedFinite, FS_CardinalityType
<1>2. CASE Owed(o, b)' \subseteq Owed(o, b)
  <2>1. /\ IsFiniteSet(Owed(o, b)') /\ Cardinality(Owed(o, b)') <= Cardinality(Owed(o, b))
    BY <1>1, <1>2, FS_Subset
  <2>2. Cardinality(Owed(o, b)') \in Nat
    BY <2>1, FS_CardinalityType
  <2> QED
    BY <1>1, <2>1, <2>2
<1>3. CASE x \in Owed(o, b) /\ Owed(o, b)' \subseteq (Owed(o, b) \ {x}) \union {y}
  <2> DEFINE S == Owed(o, b) \ {x}
  <2>1. IsFiniteSet(S) /\ Cardinality(S) = Cardinality(Owed(o, b)) - 1
    BY <1>1, <1>3, FS_RemoveElement
  <2>2. Cardinality(S) \in Nat
    BY <2>1, FS_CardinalityType
  <2>3. Owed(o, b)' \in SUBSET (S \union {y})
    BY <1>3
  <2> HIDE DEF S
  <2>4. IsFiniteSet(S \union {y}) /\ Cardinality(S \union {y}) <= Cardinality(S) + 1
    BY <2>1, OneMore
  <2>5. /\ IsFiniteSet(Owed(o, b)') /\ Cardinality(Owed(o, b)') <= Cardinality(S \union {y})
    BY <2>3, <2>4, FS_Subset
  <2>6. Cardinality(Owed(o, b)') \in Nat /\ Cardinality(S \union {y}) \in Nat
    BY <2>4, <2>5, FS_CardinalityType
  <2> QED
    BY <1>1, <2>1, <2>2, <2>4, <2>5, <2>6
<1> QED
  BY <1>2, <1>3


(* Records that claim nothing.                                             *)
NoClaim(recs) == IsSeq(recs) /\ \A i \in DOMAIN recs : recs[i].event # "verify"

(* Two sequences joined.                                                   *)
LEMMA SeqJoined ==
    ASSUME NEW s, IsSeq(s), NEW t, IsSeq(t)
    PROVE  /\ IsSeq(s \o t) /\ DOMAIN (s \o t) = 1..(Len(s) + Len(t))
           /\ Len(s) \in Nat /\ Len(t) \in Nat
           /\ DOMAIN s = 1..Len(s) /\ DOMAIN t = 1..Len(t)
           /\ \A i \in 1..Len(s) : (s \o t)[i] = s[i]
           /\ \A i \in 1..Len(t) : (s \o t)[Len(s) + i] = t[i]
<1> DEFINE S == {s[i] : i \in DOMAIN s}  T == {t[i] : i \in DOMAIN t}  u == s \o t
<1>1. s \in Seq(S \union T) /\ t \in Seq(S \union T)
  <2>1. s \in Seq(S) /\ t \in Seq(T)
    BY DEF IsSeq
  <2> HIDE DEF S, T
  <2> QED
    BY <2>1
<1>2. /\ u \in Seq(S \union T) /\ DOMAIN u = 1..(Len(s) + Len(t))
      /\ Len(s) \in Nat /\ Len(t) \in Nat
      /\ DOMAIN s = 1..Len(s) /\ DOMAIN t = 1..Len(t)
      /\ \A i \in 1..Len(s) : u[i] = s[i]
      /\ \A i \in 1..Len(t) : u[Len(s) + i] = t[i]
  <2> HIDE DEF S, T
  <2> QED
    BY <1>1
<1>3. IsSeq(u)
  <2> HIDE DEF S, T, u
  <2> QED
    BY <1>2, SeqOfIsSeq
<1> QED
  BY <1>2, <1>3

(* One record.                                                             *)
LEMMA SeqOfOne ==
    ASSUME NEW x
    PROVE  IsSeq(<<x>>) /\ DOMAIN <<x>> = {1} /\ <<x>>[1] = x /\ Len(<<x>>) = 1
<1>1. <<x>> \in Seq({x}) /\ DOMAIN <<x>> = {1} /\ <<x>>[1] = x /\ Len(<<x>>) = 1
  OBVIOUS
<1> QED
  BY <1>1, SeqOfIsSeq

(* Two records.                                                            *)
LEMMA SeqOfTwo ==
    ASSUME NEW x, NEW y
    PROVE  /\ IsSeq(<<x, y>>) /\ DOMAIN <<x, y>> = {1, 2} /\ Len(<<x, y>>) = 2
           /\ <<x, y>>[1] = x /\ <<x, y>>[2] = y
<1>1. /\ <<x, y>> \in Seq({x, y}) /\ DOMAIN <<x, y>> = {1, 2} /\ Len(<<x, y>>) = 2
      /\ <<x, y>>[1] = x /\ <<x, y>>[2] = y
  OBVIOUS
<1> QED
  BY <1>1, SeqOfIsSeq

(* Short sequences without a claim.                                        *)
LEMMA NoClaimIn ==
    /\ NoClaim(<<>>)
    /\ \A x : x.event # "verify" => NoClaim(<<x>>)
    /\ \A x, y : x.event # "verify" /\ y.event # "verify" => NoClaim(<<x, y>>)
<1>1. NoClaim(<<>>)
  BY NothingIsSeq DEF NoClaim
<1>2. ASSUME NEW x, x.event # "verify" PROVE NoClaim(<<x>>)
  BY <1>2, SeqOfOne DEF NoClaim
<1>3. ASSUME NEW x, NEW y, x.event # "verify", y.event # "verify" PROVE NoClaim(<<x, y>>)
  BY <1>3, SeqOfTwo DEF NoClaim
<1> QED
  BY <1>1, <1>2, <1>3

(* Joined, they hold none either.                                          *)
LEMMA NoClaimJoined ==
    ASSUME NEW s, NEW t, NoClaim(s), NoClaim(t)
    PROVE  NoClaim(s \o t)
<1> DEFINE u == s \o t
<1>1. /\ IsSeq(u) /\ DOMAIN u = 1..(Len(s) + Len(t)) /\ Len(s) \in Nat /\ Len(t) \in Nat
      /\ DOMAIN s = 1..Len(s) /\ DOMAIN t = 1..Len(t)
      /\ \A i \in 1..Len(s) : u[i] = s[i]
      /\ \A i \in 1..Len(t) : u[Len(s) + i] = t[i]
  BY SeqJoined DEF NoClaim
<1> HIDE DEF u
<1>2. ASSUME NEW i \in 1..(Len(s) + Len(t)) PROVE u[i].event # "verify"
  <2>1. CASE i \in 1..Len(s)
    BY <1>1, <2>1 DEF NoClaim
  <2>2. CASE i \notin 1..Len(s)
    <3>1. i - Len(s) \in 1..Len(t) /\ Len(s) + (i - Len(s)) = i
      BY <1>1, <2>2
    <3> QED
      BY <1>1, <3>1 DEF NoClaim
  <2> QED
    BY <2>1, <2>2
<1> QED
  BY <1>1, <1>2 DEF NoClaim, u

(* What a thread writes comes after what it wrote.                         *)
LEMMA WroteMore ==
    ASSUME TraceOK, NEW th \in Threads, NEW recs, IsSeq(recs), Wrote(th, recs)
    PROVE  /\ TraceOK' /\ \A u \in Threads \ {th} : trace'[u] = trace[u]
           /\ Len(trace[th]) \in Nat /\ DOMAIN trace[th] = 1..Len(trace[th])
           /\ DOMAIN trace'[th] = 1..(Len(trace[th]) + Len(recs))
           /\ Len(recs) \in Nat /\ DOMAIN recs = 1..Len(recs)
           /\ \A i \in 1..Len(trace[th]) : trace'[th][i] = trace[th][i]
           /\ \A i \in 1..Len(recs) : trace'[th][Len(trace[th]) + i] = recs[i]
<1>1. trace'[th] = trace[th] \o recs /\ DOMAIN trace' = Threads
      /\ \A u \in Threads \ {th} : trace'[u] = trace[u]
  BY DEF TraceOK, Wrote
<1>2. IsSeq(trace[th])
  BY DEF TraceOK
<1> DEFINE w == trace[th] \o recs
<1>3. /\ IsSeq(w) /\ DOMAIN w = 1..(Len(trace[th]) + Len(recs))
      /\ Len(trace[th]) \in Nat /\ Len(recs) \in Nat
      /\ DOMAIN trace[th] = 1..Len(trace[th]) /\ DOMAIN recs = 1..Len(recs)
      /\ \A i \in 1..Len(trace[th]) : w[i] = trace[th][i]
      /\ \A i \in 1..Len(recs) : w[Len(trace[th]) + i] = recs[i]
  <2>1. ASSUME NEW s, IsSeq(s), NEW v, v = s \o recs
        PROVE  /\ IsSeq(v) /\ DOMAIN v = 1..(Len(s) + Len(recs))
               /\ Len(s) \in Nat /\ Len(recs) \in Nat
               /\ DOMAIN s = 1..Len(s) /\ DOMAIN recs = 1..Len(recs)
               /\ \A i \in 1..Len(s) : v[i] = s[i]
               /\ \A i \in 1..Len(recs) : v[Len(s) + i] = recs[i]
    BY <2>1, SeqJoined
  <2>2. w = trace[th] \o recs
    OBVIOUS
  <2> HIDE DEF w
  <2> QED
    BY <1>2, <2>1, <2>2
<1>4. w = trace'[th]
  BY <1>1
<1> HIDE DEF w
<1>5. TraceOK'
  BY <1>1, <1>3, <1>4 DEF TraceOK
<1> QED
  BY <1>1, <1>3, <1>4, <1>5

(* Records without a claim change nothing that is owed, except that the    *)
(* thread itself may have moved on.                                        *)
LEMMA WroteNoClaim ==
    ASSUME TraceOK, NEW th \in Threads,
           trace' = trace \/ \E recs : NoClaim(recs) /\ Wrote(th, recs),
           \A u \in Threads \ {th} : pc'[u] = pc[u] /\ loc'[u] = loc[u],
           \A o : \A b \in BOOLEAN : Claiming(th, o, b)' => Claiming(th, o, b)
    PROVE  TraceOK' /\ \A o : \A b \in BOOLEAN : Owed(o, b)' \subseteq Owed(o, b)
<1>1. ASSUME NEW u \in Threads, NEW o, NEW b \in BOOLEAN, Claiming(u, o, b)' PROVE Claiming(u, o, b)
  <2>1. CASE u = th
    BY <1>1, <2>1
  <2>2. CASE u # th
    <3>1. pc'[u] = pc[u] /\ loc'[u] = loc[u]
      BY <2>2
    <3> QED
      BY <1>1, <3>1 DEF Claiming
  <2> QED
    BY <2>1, <2>2
<1>2. TraceOK' /\ \A u \in Threads : \A i \in DOMAIN trace'[u] : \A o : \A b \in BOOLEAN :
                     trace'[u][i] = R("verify", o, {}, b)
                        => i \in DOMAIN trace[u] /\ trace[u][i] = R("verify", o, {}, b)
  <2>1. CASE trace' = trace
    BY <2>1 DEF TraceOK
  <2>2. ASSUME NEW recs, NoClaim(recs), Wrote(th, recs)
        PROVE  TraceOK' /\ \A u \in Threads : \A i \in DOMAIN trace'[u] : \A o : \A b \in BOOLEAN :
                     trace'[u][i] = R("verify", o, {}, b)
                        => i \in DOMAIN trace[u] /\ trace[u][i] = R("verify", o, {}, b)
    <3> DEFINE n == Len(trace[th])
    <3>1. /\ TraceOK' /\ \A u \in Threads \ {th} : trace'[u] = trace[u]
          /\ n \in Nat /\ DOMAIN trace[th] = 1..n
          /\ DOMAIN trace'[th] = 1..(n + Len(recs))
          /\ Len(recs) \in Nat /\ DOMAIN recs = 1..Len(recs)
          /\ \A i \in 1..n : trace'[th][i] = trace[th][i]
          /\ \A i \in 1..Len(recs) : trace'[th][n + i] = recs[i]
      BY <2>2, WroteMore DEF NoClaim
    <3> HIDE DEF n
    <3>2. ASSUME NEW i \in 1..(n + Len(recs)), i \notin 1..n PROVE trace'[th][i].event # "verify"
      <4>1. i - n \in 1..Len(recs) /\ n + (i - n) = i
        BY <3>1, <3>2
      <4>2. trace'[th][n + (i - n)] = recs[i - n]
        BY <3>1, <4>1
      <4>3. trace'[th][i] = recs[i - n]
        BY <4>1, <4>2
      <4> QED
        BY <2>2, <3>1, <4>1, <4>3 DEF NoClaim
    <3>3. \A o, b : R("verify", o, {}, b).event = "verify"
      BY DEF R
    <3>4. ASSUME NEW u \in Threads, NEW i \in DOMAIN trace'[u], NEW o, NEW b \in BOOLEAN,
                 trace'[u][i] = R("verify", o, {}, b)
          PROVE  i \in DOMAIN trace[u] /\ trace[u][i] = R("verify", o, {}, b)
      <4>1. CASE u = th
        <5>1. trace'[th][i].event = "verify" /\ i \in 1..(n + Len(recs))
          BY <3>1, <3>3, <3>4, <4>1
        <5>2. i \in 1..n
          BY <3>2, <5>1
        <5> QED
          BY <3>1, <3>4, <4>1, <5>2
      <4>2. CASE u # th
        BY <3>1, <3>4, <4>2
      <4> QED
        BY <4>1, <4>2
    <3> QED
      BY <3>1, <3>4
  <2> QED
    BY <2>1, <2>2
<1>3. ASSUME NEW o, NEW b \in BOOLEAN, NEW x \in Owed(o, b)' PROVE x \in Owed(o, b)
  <2>1. \/ \E u \in Threads : \E i \in DOMAIN trace'[u] :
              x = <<u, i>> /\ trace'[u][i] = R("verify", o, {}, b)
        \/ \E u \in Threads : x = <<u, 0>> /\ Claiming(u, o, b)'
    <3>1. /\ Owed(o, b)' = Claims(o, b)' \union {<<u, 0>> : u \in {v \in Threads : Claiming(v, o, b)'}}
          /\ \A y : y \in Claims(o, b)' <=> \E u \in Threads : \E i \in DOMAIN trace'[u] :
                       y = <<u, i>> /\ trace'[u][i] = R("verify", o, {}, b)
      BY DEF Owed, Claims
    <3> QED
      BY <1>3, <3>1
  <2> QED
    BY <1>1, <1>2, <2>1, OwedIs
<1> QED
  BY <1>2, <1>3


(* Outside Claim a route writes records that claim nothing, and is not     *)
(* about to claim.                                                         *)
Unclaiming == {"subtask", "self", "panel", "scoring", "subtaskDone", "asking", "apply"}
Writes(th) == trace' = trace \/ \E recs : NoClaim(recs) /\ Wrote(th, recs)
GoesOn(th) == Return(th) \/ \E p \in Unclaiming : \E l : Goto(th, p, l)

(* ... which covers every step of it but Claim.                            *)
LEMMA RouteWrites ==
    ASSUME NEW th \in Threads, Route(th), ~Claim(th)
    PROVE  Writes(th) /\ GoesOn(th)
<1> USE DEF Unclaiming
<1>1. ASSUME NEW e, e \in {"classify", "gate", "refuse", "synthesize"} PROVE Plain(e).event # "verify"
  BY <1>1 DEF Plain, R
<1>2. ASSUME NEW e, NEW o, NEW who, NEW ok, e # "verify" PROVE R(e, o, who, ok).event # "verify"
  BY <1>2 DEF R
<1>3. CASE StartRoute(th)
  BY <1>3 DEF StartRoute, Writes, GoesOn
<1>4. CASE Generate(th)
  <2> DEFINE before == <<Plain("classify"), Plain("gate")>>
  <2>1. NoClaim(before)
    BY <1>1, NoClaimIn
  <2>2. NoClaim(<<Plain("refuse")>>)
    BY <1>1, NoClaimIn
  <2>3. \A o : NoClaim(<<R("dispatch", o, {}, TRUE)>>)
               /\ NoClaim(<<R("dispatch", o, {}, TRUE), R("generate", o, {}, TRUE)>>)
    BY <1>2, NoClaimIn
  <2>4. /\ NoClaim(before \o <<Plain("refuse")>>)
        /\ \A o : /\ NoClaim(before \o <<R("dispatch", o, {}, TRUE)>>)
                  /\ NoClaim(before \o <<R("dispatch", o, {}, TRUE), R("generate", o, {}, TRUE)>>)
    <3> HIDE DEF before
    <3> QED
      BY <2>1, <2>2, <2>3, NoClaimJoined
  <2>5. GoesOn(th)
    BY <1>4 DEF Generate, GoesOn
  <2>6. \/ Wrote(th, before \o <<Plain("refuse")>>)
        \/ \E o : \/ Wrote(th, before \o <<R("dispatch", o, {}, TRUE)>>)
                  \/ Wrote(th, before \o <<R("dispatch", o, {}, TRUE), R("generate", o, {}, TRUE)>>)
    BY <1>4, Zenon DEF Generate
  <2>7. Writes(th)
    <3> HIDE DEF before
    <3> QED
      BY <2>4, <2>6, Zenon DEF Writes
  <2> QED
    BY <2>5, <2>7
<1>5. CASE SelectPanel(th)
  <2>1. \A panel : PanelRecord(th, panel).event # "verify"
    BY DEF PanelRecord
  <2>2. \A panel : /\ NoClaim(<<PanelRecord(th, panel), Plain("refuse")>>)
                   /\ NoClaim(<<PanelRecord(th, panel)>>)
    BY <1>1, <2>1, NoClaimIn
  <2>3. \/ trace' = trace
        \/ \E panel : \/ Wrote(th, <<PanelRecord(th, panel), Plain("refuse")>>)
                      \/ Wrote(th, <<PanelRecord(th, panel)>>)
    BY <1>5, Zenon DEF SelectPanel
  <2>4. Writes(th)
    BY <2>2, <2>3, Zenon DEF Writes
  <2> QED
    BY <1>5, <2>4 DEF SelectPanel, GoesOn
<1>6. CASE Score(th)
  <2>1. \/ trace' = trace
        \/ \E v, ok : Wrote(th, <<R("panel_verify", Generator(th), {v}, ok)>>)
    BY <1>6, Zenon DEF Score
  <2>2. \A v, ok : NoClaim(<<R("panel_verify", Generator(th), {v}, ok)>>)
    BY <1>2, NoClaimIn
  <2>3. Writes(th)
    BY <2>1, <2>2, Zenon DEF Writes
  <2> QED
    BY <1>6, <2>3 DEF Score, GoesOn
<1>7. CASE Judge(th)
  BY <1>7 DEF Judge, Writes, GoesOn
<1>8. CASE ScoreSelf(th)
  BY <1>8 DEF ScoreSelf, Writes, GoesOn
<1>9. CASE NextSubtask(th)
  <2>1. NoClaim(<<Plain("synthesize")>>) /\ NoClaim(<<>>)
    BY <1>1, NoClaimIn
  <2>2. trace' = trace \/ Wrote(th, <<Plain("synthesize")>>) \/ Wrote(th, <<>>)
    BY <1>9 DEF NextSubtask
  <2>3. Writes(th)
    BY <2>1, <2>2, Zenon DEF Writes
  <2> QED
    BY <1>9, <2>3 DEF NextSubtask, GoesOn
<1>10. CASE StartCross(th)
  BY <1>10 DEF StartCross, Writes, GoesOn
<1>11. CASE AskPeer(th)
  <2>1. trace' = trace /\ \E l : Goto(th, "asking", l)
    BY <1>11, Zenon DEF AskPeer
  <2> QED
    BY <2>1 DEF Writes, GoesOn
<1>12. CASE CrossRecord(th)
  BY <1>12 DEF CrossRecord, Writes, GoesOn
<1>13. CASE CrossDone(th)
  BY <1>13 DEF CrossDone, Writes, GoesOn
<1> QED
  BY <1>3, <1>4, <1>5, <1>6, <1>7, <1>8, <1>9, <1>10, <1>11, <1>12, <1>13 DEF Route

(* A thread not about to claim.                                            *)
LEMMA GoesOnQuietly ==
    ASSUME Placed, NEW th \in Threads, GoesOn(th)
    PROVE  Moved(th) /\ \A o, b : ~Claiming(th, o, b)'
<1>1. Moved(th) /\ pc'[th] \in Unclaiming \union {"idle"}
  BY GotoIs, ReturnIs DEF GoesOn
<1> QED
  BY <1>1 DEF Claiming, Unclaiming

(* Outside Claim a route owes nothing new.                                 *)
LEMMA RouteOwed ==
    ASSUME EarnInv, Placed, IsSeq(rjournal), NEW th \in Threads, Route(th), ~Claim(th)
    PROVE  TraceOK' /\ OwedOK'
<1>1. Writes(th) /\ Moved(th) /\ (\A o, b : ~Claiming(th, o, b)') /\ TraceOK /\ OwedOK
  BY RouteWrites, GoesOnQuietly DEF EarnInv
<1>2. rjournal' = rjournal
  BY RouteRoutesOn DEF registryVars
<1>3. TraceOK' /\ \A o : \A b \in BOOLEAN : Owed(o, b)' \subseteq Owed(o, b)
  BY <1>1, WroteNoClaim DEF Writes, Moved
<1> QED
  BY <1>1, <1>2, <1>3, OwedLess

(* A claim takes the place of the event it was owed for.                   *)
LEMMA ClaimOwed ==
    ASSUME EarnInv, Placed, IsSeq(rjournal), NEW th \in Threads, Claim(th)
    PROVE  TraceOK' /\ OwedOK'
<1> DEFINE n == Len(trace[th])
           v == pc[th] = "verified"
           c == R("verify", Chosen(th), {}, v)
<1>1. /\ TraceOK /\ OwedOK /\ rjournal' = rjournal /\ pc[th] \in {"verified", "rejected"}
      /\ Return(th) \/ Goto(th, "subtaskDone", loc[th])
  BY DEF EarnInv, Claim, routerKept, registryVars
<1>2. PICK recs : /\ Wrote(th, recs) /\ IsSeq(recs) /\ Len(recs) \in {1, 2} /\ recs[1] = c
                  /\ Len(recs) = 2 => recs[2].event # "verify"
  <2>1. CASE v
    <3>1. Wrote(th, <<c>>)
      BY <2>1 DEF Claim
    <3> HIDE DEF c
    <3> QED
      BY <3>1, SeqOfOne
  <2>2. CASE ~v
    <3>1. c = R("verify", Chosen(th), {}, FALSE)
      BY <2>2, Zenon
    <3>2. Wrote(th, <<c, Plain("refuse")>>)
      BY <2>2, <3>1, Zenon DEF Claim
    <3>3. Plain("refuse").event # "verify"
      BY DEF Plain, R
    <3> HIDE DEF c
    <3> QED
      BY <3>2, <3>3, SeqOfTwo
  <2> QED
    BY <2>1, <2>2
<1>3. /\ TraceOK' /\ \A u \in Threads \ {th} : trace'[u] = trace[u]
      /\ n \in Nat /\ DOMAIN trace[th] = 1..n /\ DOMAIN trace'[th] = 1..(n + Len(recs))
      /\ \A i \in 1..n : trace'[th][i] = trace[th][i]
      /\ \A i \in 1..Len(recs) : trace'[th][n + i] = recs[i]
  BY <1>1, <1>2, WroteMore
<1>4. Moved(th) /\ (\A o, b : ~Claiming(th, o, b)')
  <2>1. Moved(th) /\ pc'[th] \in {"idle", "subtaskDone"}
    BY <1>1, GotoIs, ReturnIs
  <2> QED
    BY <2>1 DEF Claiming
<1>5. \A o, b : R("verify", o, {}, b).event = "verify" /\ R("verify", o, {}, b).object = o
                /\ R("verify", o, {}, b).ok = b
  BY DEF R
<1>6. v \in BOOLEAN
  OBVIOUS
<1>7. \A u \in Threads \ {th} : \A o, b : Claiming(u, o, b)' => Claiming(u, o, b)
  BY <1>4 DEF Claiming, Moved
<1>8. \A o : \A b \in BOOLEAN : Claiming(th, o, b) <=> o = Chosen(th) /\ b = v
  BY <1>1 DEF Claiming, Chosen, Top
<1> HIDE DEF n, v
<1>9. ASSUME NEW o, NEW b \in BOOLEAN, NEW x \in Owed(o, b)'
      PROVE  \/ x \in Owed(o, b) /\ x # <<th, 0>>
             \/ o = Chosen(th) /\ b = v /\ x = <<th, n + 1>>
  <2>1. \/ \E u \in Threads : \E i \in DOMAIN trace'[u] :
              x = <<u, i>> /\ trace'[u][i] = R("verify", o, {}, b)
        \/ \E u \in Threads : x = <<u, 0>> /\ Claiming(u, o, b)'
    <3>1. /\ Owed(o, b)' = Claims(o, b)' \union {<<u, 0>> : u \in {w \in Threads : Claiming(w, o, b)'}}
          /\ \A y : y \in Claims(o, b)' <=> \E u \in Threads : \E i \in DOMAIN trace'[u] :
                       y = <<u, i>> /\ trace'[u][i] = R("verify", o, {}, b)
      BY DEF Owed, Claims
    <3> QED
      BY <1>9, <3>1
  <2>2. ASSUME NEW u \in Threads, x = <<u, 0>>, Claiming(u, o, b)' PROVE x \in Owed(o, b) /\ x # <<th, 0>>
    <3>1. u # th /\ Claiming(u, o, b)
      BY <1>4, <1>7, <2>2
    <3> QED
      BY <2>2, <3>1, OwedIs
  <2>3. ASSUME NEW u \in Threads, NEW i \in DOMAIN trace'[u], x = <<u, i>>,
               trace'[u][i] = R("verify", o, {}, b), u # th
        PROVE  x \in Owed(o, b) /\ x # <<th, 0>>
    <3>1. trace'[u] = trace[u]
      BY <1>3, <2>3
    <3> QED
      BY <2>3, <3>1, OwedIs
  <2>4. ASSUME NEW i \in DOMAIN trace'[th], x = <<th, i>>, trace'[th][i] = R("verify", o, {}, b)
        PROVE  \/ x \in Owed(o, b) /\ x # <<th, 0>>
               \/ o = Chosen(th) /\ b = v /\ x = <<th, n + 1>>
    <3>1. i \in 1..(n + Len(recs))
      BY <1>3, <2>4
    <3>2. CASE i \in 1..n
      <4>1. i \in DOMAIN trace[th] /\ trace[th][i] = R("verify", o, {}, b)
        BY <1>3, <2>4, <3>2
      <4>2. i # 0
        BY <3>2
      <4> QED
        BY <2>4, <4>1, <4>2, OwedIs
    <3>3. CASE i = n + 1
      <4>1. trace'[th][i] = c
        BY <1>2, <1>3, <3>3
      <4>2. o = Chosen(th) /\ b = v
        BY <1>5, <2>4, <4>1
      <4> QED
        BY <2>4, <3>3, <4>2
    <3>4. CASE i = n + 2 /\ Len(recs) = 2
      <4>1. trace'[th][i].event # "verify"
        BY <1>2, <1>3, <3>4
      <4> QED
        BY <1>5, <2>4, <4>1
    <3> QED
      BY <1>2, <1>3, <3>1, <3>2, <3>3, <3>4
  <2> QED
    BY <2>1, <2>2, <2>3, <2>4
<1>10. ASSUME NEW o, NEW b \in BOOLEAN
       PROVE  \/ Owed(o, b)' \subseteq Owed(o, b)
              \/ /\ <<th, 0>> \in Owed(o, b)
                 /\ Owed(o, b)' \subseteq (Owed(o, b) \ {<<th, 0>>}) \union {<<th, n + 1>>}
  <2>1. CASE o = Chosen(th) /\ b = v
    <3>1. <<th, 0>> \in Owed(o, b)
      BY <1>8, <2>1, OwedIs
    <3> QED
      BY <1>9, <3>1
  <2>2. CASE ~(o = Chosen(th) /\ b = v)
    BY <1>9, <2>2
  <2> QED
    BY <2>1, <2>2
<1>11. PICK x, y : x = <<th, 0>> /\ y = <<th, n + 1>>
  OBVIOUS
<1>12. \A o : \A b \in BOOLEAN :
          \/ Owed(o, b)' \subseteq Owed(o, b)
          \/ x \in Owed(o, b) /\ Owed(o, b)' \subseteq (Owed(o, b) \ {x}) \union {y}
  BY <1>10, <1>11
<1>13. OwedOK'
  BY <1>1, <1>12, OwedSwapped, Zenon
<1> QED
  BY <1>3, <1>13


(* Steps that write nothing and claim nothing new owe nothing new.         *)
LEMMA NothingNewOwed ==
    ASSUME TraceOK, OwedOK, IsSeq(rjournal), trace' = trace, rjournal' = rjournal,
           \A u \in Threads : \A o : \A b \in BOOLEAN : Claiming(u, o, b)' => Claiming(u, o, b)
    PROVE  TraceOK' /\ OwedOK'
<1>1. TraceOK'
  BY DEF TraceOK
<1>2. ASSUME NEW o, NEW b \in BOOLEAN PROVE Owed(o, b)' \subseteq Owed(o, b)
  <2>1. Claims(o, b)' = Claims(o, b)
    BY DEF Claims
  <2>2. \A u \in Threads : Claiming(u, o, b)' => Claiming(u, o, b)
    OBVIOUS
  <2> QED
    BY <2>1, <2>2 DEF Owed
<1>3. \A o : \A b \in BOOLEAN : Owed(o, b)' \subseteq Owed(o, b)
  BY <1>2
<1> QED
  BY <1>1, <1>3, OwedLess

(* An emission: what is journaled pays for what will be claimed.           *)
LEMMA EmitOwed ==
    ASSUME EarnInv, Placed, IsSeq(rjournal), NEW th \in Threads, Emit(th), ThreadOK(th),
           UNCHANGED routerVars
    PROVE  TraceOK' /\ OwedOK'
<1>1. /\ TraceOK /\ OwedOK /\ trace' = trace /\ EmittedOK(th)
      /\ pc[th] \in {"apply", "journal", "witness"} /\ loc[th][2] \in Onward
  BY DEF EarnInv, CallOK, routerVars, Emit, EmitApply, EmitJournal, EmitWitness, ThreadOK
<1>2. Moved(th) /\ \A u \in Threads \ {th} : \A o, b : Claiming(u, o, b)' => Claiming(u, o, b)
  <2>1. Moved(th)
    BY EmitCall DEF EarnInv
  <2> QED
    BY <2>1 DEF Claiming, Moved
<1>3. CASE rjournal' = rjournal /\ \A o : \A b \in BOOLEAN : Claiming(th, o, b)' => Claiming(th, o, b)
  BY <1>1, <1>2, <1>3, NothingNewOwed
<1>4. CASE rjournal' = rjournal /\ Return(th)
  BY <1>3, <1>4, ReturnIs, FreeOK DEF Free
<1>5. CASE EmitApply(th)
  <2>1. rjournal' = rjournal /\ pc'[th] = "journal"
    BY <1>5, GotoIs DEF EmitApply
  <2>2. \A o, b : ~Claiming(th, o, b)'
    BY <2>1 DEF Claiming
  <2> QED
    BY <1>3, <2>1, <2>2
<1>6. CASE rjournal' = Append(rjournal, loc[th][1]) /\ Goto(th, "witness", loc[th])
  <2> DEFINE e == loc[th][1]
  <2>1. rjournal' = Append(rjournal, e) /\ pc'[th] = "witness" /\ loc'[th] = loc[th]
    BY <1>6, GotoIs
  <2>2. \A o, b : Claiming(th, o, b)' => e.object = o /\ e.ok = b
    BY <2>1 DEF Claiming
  <2>3. PICK x : x = <<th, 0>>
    OBVIOUS
  <2>4. ASSUME NEW o, NEW b \in BOOLEAN
        PROVE  Owed(o, b)' \subseteq Owed(o, b) \union (IF e.object = o /\ e.ok = b THEN {x} ELSE {})
    <3>1. Claims(o, b)' = Claims(o, b)
      BY <1>1 DEF Claims
    <3>2. \A u \in Threads : Claiming(u, o, b)' =>
             Claiming(u, o, b) \/ (u = th /\ e.object = o /\ e.ok = b)
      BY <1>2, <2>2
    <3> HIDE DEF e
    <3> QED
      BY <2>3, <3>1, <3>2 DEF Owed
  <2> HIDE DEF e
  <2>5. OwedOK'
    BY <1>1, <2>1, <2>4, OwedMore
  <2> QED
    BY <1>1, <2>5 DEF TraceOK
<1>7. CASE EmitWitness(th) /\ ~Return(th)
  <2>1. /\ rjournal' = rjournal /\ pc[th] = "witness"
        /\ pc'[th] = loc[th][2] /\ loc'[th] = loc[th][3] /\ loc[th][2] # "return"
    BY <1>7, GotoIs DEF EmitWitness
  <2>2. CASE loc[th][2] = "credited"
    <3>1. \A o, b : ~Claiming(th, o, b)'
      BY <2>1, <2>2 DEF Claiming
    <3> QED
      BY <1>3, <2>1, <3>1
  <2>3. CASE loc[th][2] \in {"verified", "rejected"}
    <3>1. /\ loc[th][1].object = Top(loc[th][3])
          /\ loc[th][1].ok = (loc[th][2] = "verified")
      BY <1>1, <2>3 DEF EmittedOK
    <3>2. \A o : \A b \in BOOLEAN : Claiming(th, o, b)' => Claiming(th, o, b)
      <4>1. ASSUME NEW o, NEW b \in BOOLEAN, Claiming(th, o, b)' PROVE Claiming(th, o, b)
        <5>1. o = Top(loc[th][3]) /\ b = (loc[th][2] = "verified")
          BY <2>1, <2>3, <4>1 DEF Claiming
        <5> QED
          BY <2>1, <2>3, <3>1, <5>1 DEF Claiming
      <4> QED
        BY <4>1
    <3> QED
      BY <1>3, <2>1, <3>2
  <2> QED
    BY <1>1, <2>1, <2>2, <2>3 DEF Onward
<1> QED
  BY <1>4, <1>5, <1>6, <1>7 DEF Emit, EmitJournal, EmitWitness

(* A challenge, or the clock, owes nothing new.                            *)
LEMMA ChallengeOwed ==
    ASSUME EarnInv, Placed, IsSeq(rjournal), NEW th \in Threads, Challenge(th),
           UNCHANGED routerVars
    PROVE  TraceOK' /\ OwedOK'
<1>1. /\ TraceOK /\ OwedOK /\ trace' = trace /\ Moved(th)
      /\ \A o, b : ~Claiming(th, o, b)'
  BY ChallengeCall DEF EarnInv, routerVars
<1>2. rjournal' = rjournal
  BY DEF Challenge, Open, NoteOpen, ClaimSeat, TakeSeat, Commit, Seal, StoreCommit, Reveal,
         ShowVerdict, NoteReveal, CatchFraud, NoteFraud, Resolve, NoteResolve, challengeKept,
         registryVars
<1>3. \A u \in Threads : \A o : \A b \in BOOLEAN : Claiming(u, o, b)' => Claiming(u, o, b)
  BY <1>1 DEF Claiming, Moved
<1> QED
  BY <1>1, <1>2, <1>3, NothingNewOwed

(* What a call returned: for a cross-verification, enough distinct nodes.  *)
LEMMA ReturnedOK ==
    ASSUME ResultsOK, NEW th \in Threads, NEW got, Returned(th, got),
           Call(th).op = "cross" => Counted(got)
    PROVE  ResultsOK'
<1> DEFINE r == [call |-> Call(th), got |-> got]
<1>1. r.call = Call(th) /\ r.got = got
  OBVIOUS
<1>2. results' = [results EXCEPT ![th] = r]
  BY DEF Returned
<1> HIDE DEF r
<1>3. DOMAIN results = Threads
  BY DEF ResultsOK
<1>4. results'[th] = r /\ \A u \in Threads \ {th} : results'[u] = results[u]
  BY <1>2, <1>3
<1>5. \A u \in Threads : results'[u].call.op = "cross" => Counted(results'[u].got)
  BY <1>1, <1>4 DEF ResultsOK
<1>6. DOMAIN results' = Threads
  BY <1>2, <1>3
<1> QED
  BY <1>5, <1>6 DEF ResultsOK

(* Only the last step of a query or a cross-verification returns anything. *)
LEMMA RouteResults ==
    ASSUME ResultsOK, NEW th \in Threads, CallOK(th), Route(th)
    PROVE  ResultsOK'
<1>1. CASE results' = results
  BY <1>1 DEF ResultsOK
<1>2. CASE NextSubtask(th) /\ results' # results
  <2>1. Returned(th, loc[th].done) /\ pc[th] = "subtaskDone"
    BY <1>2 DEF NextSubtask
  <2>2. Call(th).op = "route"
    BY <2>1 DEF CallOK, RoutedOK, Routing
  <2> QED
    BY <2>1, <2>2, ReturnedOK
<1>3. CASE CrossDone(th)
  <2>1. Returned(th, loc[th]) /\ pc[th] = "credited"
    BY <1>3 DEF CrossDone
  <2>2. Counted(loc[th])
    BY <2>1 DEF CallOK, AskedOK
  <2> QED
    BY <2>1, <2>2, ReturnedOK
<1>4. ASSUME ~NextSubtask(th), ~CrossDone(th) PROVE results' = results
  <2>1. ~AskPeer(th) \/ results' = results
    BY Zenon DEF AskPeer
  <2> QED
    BY <1>4, <2>1 DEF Route, StartRoute, Generate, SelectPanel, Score, Judge, ScoreSelf, Claim,
         StartCross, CrossRecord
<1> QED
  BY <1>1, <1>2, <1>3, <1>4


(* At the start nothing is owed, nothing returned, and no call under way.  *)
LEMMA EarnInit == Init => EarnInv
<1> SUFFICES ASSUME Init PROVE EarnInv
  OBVIOUS
<1>1. /\ pc = [th \in Threads |-> "idle"] /\ rjournal = <<>>
      /\ trace = [th \in Threads |-> <<>>] /\ results = [th \in Threads |-> NoResult]
  BY DEF Init, RegistryInit, RouterInit
<1>2. IsSeq(<<>>) /\ DOMAIN <<>> = {}
  BY NothingIsSeq
<1>3. TraceOK
  BY <1>1, <1>2 DEF TraceOK
<1>4. ResultsOK
  <2>1. NoResult.call.op # "cross"
    BY DEF NoResult
  <2> HIDE DEF NoResult
  <2> QED
    BY <1>1, <2>1 DEF ResultsOK
<1>5. OwedOK
  <2>1. ASSUME NEW o, NEW b \in BOOLEAN PROVE Owed(o, b) = {} /\ Booked(o, b) = {}
    <3>1. Booked(o, b) = {}
      BY <1>1, <1>2 DEF Booked
    <3>2. ASSUME NEW x \in Owed(o, b) PROVE FALSE
      BY <1>1, <1>2, <3>2, OwedIs DEF Claiming
    <3> QED
      BY <3>1, <3>2
  <2>2. IsFiniteSet({}) /\ Cardinality({}) = 0
    BY FS_EmptySet
  <2>3. \A o : \A b \in BOOLEAN : Cardinality(Owed(o, b)) = 0 /\ Cardinality(Booked(o, b)) = 0
                                   /\ IsFiniteSet(Owed(o, b))
    BY <2>1, <2>2
  <2>4. 0 <= 0
    OBVIOUS
  <2> QED
    BY <2>3, <2>4 DEF OwedOK
<1>6. ASSUME NEW th \in Threads PROVE CallOK(th)
  BY <1>1 DEF CallOK, RoutedOK, AskedOK, EmittedOK, Routing
<1> QED
  BY <1>3, <1>4, <1>5, <1>6 DEF EarnInv

(* A thread's step leaves the other calls as they were.                    *)
LEMMA CallsKept ==
    ASSUME NEW th \in Threads, \A u \in Threads : CallOK(u), Moved(th), CallOK(th)',
           nonces \subseteq nonces'
    PROVE  (\A u \in Threads : CallOK(u))'
<1>1. ASSUME NEW u \in Threads, u # th PROVE CallOK(u)'
  BY <1>1, OtherCallOK DEF Moved
<1>2. ASSUME NEW u \in Threads PROVE CallOK(u)'
  BY <1>1, <1>2
<1> QED
  BY <1>2

(* Every step keeps reputation earned.                                     *)
LEMMA EarnNext ==
    ASSUME GuiltInv, EarnInv, [Next]_vars
    PROVE  EarnInv'
<1>1. /\ Placed /\ IsSeq(rjournal) /\ (\A u \in Threads : CallOK(u) /\ ThreadOK(u))
      /\ TraceOK /\ OwedOK /\ ResultsOK
  BY DEF GuiltInv, EmissionsOK, EventsOK, EarnInv
<1>2. ASSUME NEW th \in Threads, EmitStep(th) PROVE EarnInv'
  <2>1. Emit(th) /\ UNCHANGED routerVars /\ nonces \subseteq nonces' /\ results' = results
    BY <1>2 DEF EmitStep, routerVars
  <2>2. (\A u \in Threads : CallOK(u))'
    BY <1>1, <2>1, EmitCall, CallsKept
  <2>3. TraceOK' /\ OwedOK'
    BY <1>1, <2>1, EmitOwed
  <2> QED
    BY <1>1, <2>1, <2>2, <2>3 DEF EarnInv, ResultsOK
<1>3. ASSUME NEW th \in Threads, RouteStep(th) PROVE EarnInv'
  <2>1. Route(th)
    BY <1>3 DEF RouteStep
  <2>2. nonces \subseteq nonces'
    <3>1. CASE AskPeer(th)
      <4>1. \/ nonces' = nonces
            \/ nonces' = nonces \union {<<NodeOf[Head(loc[th].left)], Call(th).nonce>>}
        BY <3>1, Zenon DEF AskPeer
      <4> QED
        BY <4>1
    <3>2. CASE ~AskPeer(th)
      BY <2>1, <3>2 DEF Route, StartRoute, Generate, SelectPanel, Score, Judge, ScoreSelf,
                        Claim, NextSubtask, StartCross, CrossRecord, CrossDone, routerKept
    <3> QED
      BY <3>1, <3>2
  <2>3. Moved(th) /\ CallOK(th)'
    BY <1>1, <2>1, QueryCall, JudgedCall, CrossCall DEF Route
  <2>4. (\A u \in Threads : CallOK(u))'
    BY <1>1, <2>2, <2>3, CallsKept
  <2>5. TraceOK' /\ OwedOK'
    BY <1>1, <2>1, RouteOwed, ClaimOwed
  <2>6. ResultsOK'
    BY <1>1, <2>1, RouteResults
  <2> QED
    BY <2>4, <2>5, <2>6 DEF EarnInv
<1>4. ASSUME NEW th \in Threads, ChallengeStep(th) PROVE EarnInv'
  <2>1. Challenge(th) /\ UNCHANGED routerVars /\ nonces \subseteq nonces' /\ results' = results
    BY <1>4 DEF ChallengeStep, routerVars
  <2>2. (\A u \in Threads : CallOK(u))'
    BY <1>1, <2>1, ChallengeCall, CallsKept
  <2>3. TraceOK' /\ OwedOK'
    BY <1>1, <2>1, ChallengeOwed
  <2> QED
    BY <1>1, <2>1, <2>2, <2>3 DEF EarnInv, ResultsOK
<1>5. ASSUME UNCHANGED <<script, at, pc, loc, rjournal, trace, nonces, results>> PROVE EarnInv'
  <2>1. (\A u \in Threads : CallOK(u))'
    BY <1>1, <1>5, OtherCallOK
  <2>2. TraceOK' /\ OwedOK'
    <3>1. \A u \in Threads : \A o : \A b \in BOOLEAN : Claiming(u, o, b)' => Claiming(u, o, b)
      BY <1>5 DEF Claiming
    <3> QED
      BY <1>1, <1>5, <3>1, NothingNewOwed
  <2> QED
    BY <1>1, <1>5, <2>1, <2>2 DEF EarnInv, ResultsOK
<1>6. CASE Tick /\ UNCHANGED routerVars
  BY <1>5, <1>6 DEF Tick, threadVars, registryVars, routerVars
<1>7. CASE Crash
  <2>1. /\ pc' = [u \in Threads |-> "idle"]
        /\ UNCHANGED <<rjournal, trace, results>>
    BY <1>7 DEF Crash, RegistryRestart, RouterRestart
  <2>2. \A u \in Threads : pc'[u] \in Free
    BY <2>1 DEF Free
  <2>3. (\A u \in Threads : CallOK(u))' /\ \A u \in Threads : \A o, b : ~Claiming(u, o, b)'
    BY <2>2, FreeOK
  <2>4. TraceOK' /\ OwedOK'
    BY <1>1, <2>1, <2>3, NothingNewOwed
  <2> QED
    BY <1>1, <2>1, <2>3, <2>4 DEF EarnInv, ResultsOK
<1>8. CASE UNCHANGED vars
  BY <1>5, <1>8 DEF vars, threadVars, registryVars, routerVars
<1> QED
  BY <1>2, <1>3, <1>4, <1>6, <1>7, <1>8 DEF Next

(* _verify, CrossVerifier: a verification is claimed on the chain only for *)
(* an event the registry has journaled, one event for every claim, through *)
(* crashes and failed writes; and cross-verification credits a generator   *)
(* only on the word of enough different nodes.                             *)
THEOREM ReputationIsEarned == VerificationSpec => []ReputationEarned
<1>1. EarnInv /\ GuiltInv => ReputationEarned
  <2> SUFFICES ASSUME EarnInv, GuiltInv PROVE ReputationEarned
    OBVIOUS
  <2>1. ASSUME NEW o, NEW b \in BOOLEAN
        PROVE  Cardinality(Claims(o, b)) <= Cardinality(Booked(o, b))
    <3>1. /\ IsFiniteSet(Owed(o, b)) /\ Cardinality(Owed(o, b)) <= Cardinality(Booked(o, b))
          /\ Cardinality(Booked(o, b)) \in Nat
      BY BookedFinite DEF EarnInv, OwedOK, GuiltInv, EmissionsOK, EventsOK
    <3>2. Claims(o, b) \in SUBSET Owed(o, b)
      BY DEF Owed
    <3>3. IsFiniteSet(Claims(o, b)) /\ Cardinality(Claims(o, b)) <= Cardinality(Owed(o, b))
      BY <3>1, <3>2, FS_Subset
    <3>4. Cardinality(Claims(o, b)) \in Nat /\ Cardinality(Owed(o, b)) \in Nat
      BY <3>1, <3>3, FS_CardinalityType
    <3> QED
      BY <3>1, <3>3, <3>4
  <2>2. ClaimsAreRecorded
    BY <2>1, Zenon DEF ClaimsAreRecorded, Claims, Booked
  <2>3. ASSUME NEW th \in Threads, results[th].call.op = "cross"
        PROVE  /\ Len(results[th].got) >= MinVerifiers
               /\ Cardinality({results[th].got[i].node : i \in DOMAIN results[th].got})
                     = Len(results[th].got)
    <3>1. Counted(results[th].got)
      BY <2>3 DEF EarnInv, ResultsOK
    <3> QED
      BY <3>1 DEF Counted, Distinct, Nodes
  <2>4. QuorumIsDistinct
    BY <2>3 DEF QuorumIsDistinct
  <2> QED
    BY <2>2, <2>4 DEF ReputationEarned
<1> QED
  BY <1>1, EarnInit, EarnNext, GuiltAlways, PTL DEF VerificationSpec

---------------------------------------------------------------------------
(* The registry's journal and its records on the chain.                    *)

(* The audit of a log against a chain.                                     *)
OwnIn(c) == {n \in DOMAIN c : c[n].kind = "REGISTRY"}
PlaceIn(S, n) == Cardinality({m \in S : m <= n})
Bound(c, log) ==
    /\ Cardinality(OwnIn(c)) = Len(log)
    /\ \A n \in OwnIn(c) : /\ c[n].ev = log[PlaceIn(OwnIn(c), n)]
                           /\ c[n].snap = SubSeq(log, 1, PlaceIn(OwnIn(c), n))

(* Without two emissions at once and without one cut short: one thread     *)
(* emits at most, and memory, journal and chain agree but for its event.   *)
NobodyEmits == \A th \in Threads : ~Emitting(th)
InStep ==
    /\ \A th, u \in Threads : Emitting(th) /\ Emitting(u) => th = u
    /\ NobodyEmits => events = rjournal /\ Bound(chain, rjournal)
    /\ \A th \in Threads : pc[th] = "journal" =>
          events = Append(rjournal, loc[th][1]) /\ Bound(chain, rjournal)
    /\ \A th \in Threads : pc[th] = "witness" =>
          /\ events = rjournal
          /\ \E log : IsSeq(log) /\ rjournal = Append(log, loc[th][1]) /\ Bound(chain, log)
AuditInv == overlapped \/ cut \/ InStep

(* The records that count have their places, of all the places there are.  *)
LEMMA PlacesIn ==
    ASSUME NEW n \in Nat, NEW S \in SUBSET (1..n), NEW m \in S
    PROVE  /\ IsFiniteSet(S) /\ Cardinality(S) \in Nat
           /\ PlaceIn(S, m) \in 1..Cardinality(S)
<1> DEFINE P == {q \in S : q <= m}
<1>1. IsFiniteSet(1..n)
  BY FS_Interval
<1>2. IsFiniteSet(S)
  BY <1>1, FS_Subset
<1>3. P \in SUBSET S /\ P # {}
  OBVIOUS
<1> HIDE DEF P
<1>4. IsFiniteSet(P) /\ Cardinality(P) <= Cardinality(S)
  BY <1>2, <1>3, FS_Subset
<1>5. Cardinality(P) \in Nat /\ Cardinality(S) \in Nat
  BY <1>2, <1>4, FS_CardinalityType
<1>6. Cardinality(P) # 0
  BY <1>3, <1>4, FS_EmptySet
<1> QED
  BY <1>2, <1>4, <1>5, <1>6 DEF PlaceIn, P

(* The front of a longer log.                                              *)
LEMMA FrontSame ==
    ASSUME NEW s, IsSeq(s), NEW e, NEW i \in 1..Len(s)
    PROVE  SubSeq(Append(s, e), 1, i) = SubSeq(s, 1, i) /\ Append(s, e)[i] = s[i]
<1> DEFINE S == {s[j] : j \in DOMAIN s} \union {e}
<1>1. s \in Seq(S) /\ e \in S
  <2> DEFINE Vals == {s[j] : j \in DOMAIN s}
  <2>1. s \in Seq(Vals)
    BY DEF IsSeq
  <2> HIDE DEF Vals
  <2>2. s \in Seq(Vals \union {e}) /\ e \in Vals \union {e}
    BY <2>1
  <2> QED
    BY <2>2 DEF Vals
<1> HIDE DEF S
<1>2. Append(s, e) \in Seq(S) /\ Len(Append(s, e)) = Len(s) + 1 /\ Len(s) \in Nat
      /\ \A j \in 1..Len(s) : Append(s, e)[j] = s[j]
  BY <1>1
<1>3. PICK t : t = Append(s, e)
  OBVIOUS
<1>4. SubSeq(t, 1, i) = [j \in 1..i |-> t[j]] /\ SubSeq(s, 1, i) = [j \in 1..i |-> s[j]]
  BY <1>1, <1>2, <1>3
<1>5. \A j \in 1..i : t[j] = s[j]
  BY <1>2, <1>3
<1> QED
  BY <1>3, <1>4, <1>5

(* A record of another kind changes nothing.                               *)
LEMMA BoundOther ==
    ASSUME NEW c, IsSeq(c), NEW log, Bound(c, log), NEW r, r.kind # "REGISTRY"
    PROVE  Bound(Append(c, r), log)
<1>1. PICK d : d = Append(c, r)
  OBVIOUS
<1>2. /\ Len(c) \in Nat /\ DOMAIN c = 1..Len(c) /\ DOMAIN d = 1..(Len(c) + 1)
      /\ d[Len(c) + 1] = r /\ \A i \in 1..Len(c) : d[i] = c[i]
  BY <1>1, SeqAppended
<1>3. OwnIn(d) = OwnIn(c)
  BY <1>2 DEF OwnIn
<1>4. \A n \in OwnIn(c) : d[n] = c[n]
  BY <1>2 DEF OwnIn
<1> QED
  BY <1>1, <1>3, <1>4 DEF Bound

(* The record of the next event, with the whole log.                       *)
LEMMA BoundNext ==
    ASSUME NEW c, IsSeq(c), NEW log, IsSeq(log), Bound(c, log), NEW e, NEW r,
           r.kind = "REGISTRY", r.ev = e, r.snap = Append(log, e)
    PROVE  Bound(Append(c, r), Append(log, e))
<1>1. PICK d : d = Append(c, r)
  OBVIOUS
<1>2. PICK k : k = Append(log, e)
  OBVIOUS
<1>3. PICK n : n = Len(c)
  OBVIOUS
<1>4. /\ n \in Nat /\ DOMAIN c = 1..n /\ DOMAIN d = 1..(n + 1)
      /\ d[n + 1] = r /\ \A i \in 1..n : d[i] = c[i]
  BY <1>1, <1>3, SeqAppended
<1>5. /\ Len(log) \in Nat /\ Len(k) = Len(log) + 1 /\ k[Len(log) + 1] = e /\ IsSeq(k)
  BY <1>2, SeqAppended
<1>6. PICK S : S = OwnIn(c)
  OBVIOUS
<1>7. /\ S \in SUBSET (1..n) /\ OwnIn(d) = S \union {n + 1} /\ n + 1 \notin S
      /\ \A i \in S : d[i] = c[i]
  BY <1>4, <1>6 DEF OwnIn
<1>8. IsFiniteSet(S)
  <2>1. IsFiniteSet(1..n)
    BY <1>4, FS_Interval
  <2> QED
    BY <1>7, <2>1, FS_Subset
<1>9. Cardinality(S) = Len(log)
  BY <1>6 DEF Bound
<1>10. Cardinality(S \union {n + 1}) = Len(log) + 1
  BY <1>7, <1>8, <1>9, FS_AddElement
<1>11. {q \in S \union {n + 1} : q <= n + 1} = S \union {n + 1}
  <2>1. \A q \in S \union {n + 1} : q <= n + 1
    BY <1>4, <1>7
  <2> QED
    BY <2>1
<1>12. PlaceIn(S \union {n + 1}, n + 1) = Len(log) + 1
  BY <1>10, <1>11 DEF PlaceIn
<1>13. SubSeq(k, 1, Len(k)) = k
  BY <1>5 DEF IsSeq
<1>14. ASSUME NEW i \in S
       PROVE  d[i].ev = k[PlaceIn(S \union {n + 1}, i)]
              /\ d[i].snap = SubSeq(k, 1, PlaceIn(S \union {n + 1}, i))
  <2>1. {q \in S \union {n + 1} : q <= i} = {q \in S : q <= i}
    BY <1>4, <1>7
  <2>2. PlaceIn(S \union {n + 1}, i) = PlaceIn(S, i)
    BY <2>1 DEF PlaceIn
  <2>3. PICK p : p = PlaceIn(S, i)
    OBVIOUS
  <2>4. p \in 1..Len(log)
    BY <1>4, <1>7, <1>9, <2>3, PlacesIn
  <2>5. c[i].ev = log[p] /\ c[i].snap = SubSeq(log, 1, p)
    BY <1>6, <2>3 DEF Bound
  <2>6. SubSeq(k, 1, p) = SubSeq(log, 1, p) /\ k[p] = log[p]
    BY <1>2, <2>4, FrontSame
  <2> QED
    BY <1>7, <2>2, <2>3, <2>5, <2>6
<1>15. /\ d[n + 1].ev = k[PlaceIn(S \union {n + 1}, n + 1)]
       /\ d[n + 1].snap = SubSeq(k, 1, PlaceIn(S \union {n + 1}, n + 1))
  BY <1>2, <1>4, <1>5, <1>12, <1>13
<1> QED
  BY <1>1, <1>2, <1>5, <1>7, <1>10, <1>14, <1>15 DEF Bound

(* A step that emits nothing, of a thread that is not emitting.            *)
LEMMA NotEmitting ==
    ASSUME AuditInv, IsSeq(chain), NEW th \in Threads, Moved(th), ~Emitting(th), ~(Emitting(th)'),
           UNCHANGED registryVars,
           chain' = chain \/ \E r : r.kind # "REGISTRY" /\ chain' = Append(chain, r)
    PROVE  AuditInv'
<1>1. UNCHANGED <<events, rjournal, overlapped, cut>>
  BY DEF registryVars
<1>2. \A u \in Threads : /\ Emitting(u)' <=> Emitting(u)
                         /\ Emitting(u) => pc'[u] = pc[u] /\ loc'[u] = loc[u]
  BY DEF Moved, Emitting
<1>3. \A log : Bound(chain, log) => Bound(chain', log)
  BY BoundOther
<1>4. ASSUME InStep PROVE InStep'
  <2>1. \A v, u \in Threads : Emitting(v)' /\ Emitting(u)' => v = u
    BY <1>2, <1>4 DEF InStep
  <2>2. NobodyEmits' => NobodyEmits
    BY <1>2 DEF NobodyEmits
  <2>3. NobodyEmits' => events' = rjournal' /\ Bound(chain', rjournal')
    BY <1>1, <1>3, <1>4, <2>2 DEF InStep
  <2>4. ASSUME NEW u \in Threads, pc'[u] = "journal"
        PROVE  events' = Append(rjournal', loc'[u][1]) /\ Bound(chain', rjournal')
    <3>1. pc[u] = "journal" /\ loc'[u] = loc[u]
      BY <1>2, <2>4 DEF Emitting
    <3> QED
      BY <1>1, <1>3, <1>4, <3>1 DEF InStep
  <2>5. ASSUME NEW u \in Threads, pc'[u] = "witness"
        PROVE  /\ events' = rjournal'
               /\ \E log : IsSeq(log) /\ rjournal' = Append(log, loc'[u][1]) /\ Bound(chain', log)
    <3>1. pc[u] = "witness" /\ loc'[u] = loc[u]
      BY <1>2, <2>5 DEF Emitting
    <3> QED
      BY <1>1, <1>3, <1>4, <3>1 DEF InStep
  <2> QED
    BY <2>1, <2>3, <2>4, <2>5 DEF InStep
<1> QED
  BY <1>1, <1>4 DEF AuditInv

(* _emit: the three steps of one thread.                                   *)
LEMMA EmitInStep ==
    ASSUME AuditInv, GuiltInv, NEW th \in Threads, Emit(th)
    PROVE  AuditInv'
<1>1. /\ Placed /\ IsSeq(chain) /\ IsSeq(rjournal) /\ ThreadOK(th)
  BY DEF GuiltInv, EmissionsOK, EventsOK
<1>2. PICK e : e = loc[th][1]
  OBVIOUS
<1>3. SUFFICES ASSUME ~(overlapped'), ~(cut') PROVE InStep'
  BY DEF AuditInv
<1>4. InStep
  BY <1>3 DEF AuditInv, Emit, EmitApply, EmitJournal, EmitWitness
<1>5. CASE EmitApply(th)
  <2>1. /\ pc[th] = "apply" /\ Goto(th, "journal", loc[th])
        /\ events' = Append(events, e) /\ UNCHANGED <<rjournal, chain>>
        /\ \A u \in Threads \ {th} : ~Emitting(u)
    BY <1>2, <1>3, <1>5 DEF EmitApply, Emitting
  <2>2. Moved(th) /\ pc'[th] = "journal" /\ loc'[th][1] = e
    BY <1>1, <1>2, <2>1, GotoIs
  <2>3. NobodyEmits /\ events = rjournal /\ Bound(chain, rjournal)
    BY <1>4, <2>1 DEF InStep, NobodyEmits, Emitting
  <2>4. \A u \in Threads \ {th} : ~(Emitting(u)')
    BY <2>1, <2>2 DEF Moved, Emitting
  <2>5. events' = Append(rjournal', e) /\ Bound(chain', rjournal')
    BY <2>1, <2>3
  <2> QED
    BY <2>2, <2>4, <2>5 DEF InStep, NobodyEmits, Emitting
<1>6. CASE EmitJournal(th)
  <2>1. /\ pc[th] = "journal" /\ Goto(th, "witness", loc[th])
        /\ rjournal' = Append(rjournal, e) /\ UNCHANGED <<events, chain>>
    BY <1>2, <1>3, <1>6 DEF EmitJournal
  <2>2. Moved(th) /\ pc'[th] = "witness" /\ loc'[th][1] = e
    BY <1>1, <1>2, <2>1, GotoIs
  <2>3. /\ events = Append(rjournal, e) /\ Bound(chain, rjournal)
        /\ \A u \in Threads \ {th} : ~Emitting(u)
    BY <1>2, <1>4, <2>1 DEF InStep, Emitting
  <2>4. \A u \in Threads \ {th} : ~(Emitting(u)')
    BY <2>2, <2>3 DEF Moved, Emitting
  <2>5. /\ events' = rjournal'
        /\ \E log : IsSeq(log) /\ rjournal' = Append(log, e) /\ Bound(chain', log)
    BY <1>1, <2>1, <2>3
  <2> QED
    BY <2>2, <2>4, <2>5 DEF InStep, NobodyEmits, Emitting
<1>7. CASE EmitWitness(th)
  <2>1. /\ pc[th] = "witness" /\ chain' = Append(chain, Digest(e))
        /\ Return(th) \/ (Goto(th, loc[th][2], loc[th][3]) /\ loc[th][2] # "return")
        /\ UNCHANGED <<events, rjournal>>
    <3>1. \/ chain' = Append(chain, Digest(loc[th][1]))
          \/ cut' = TRUE
      BY <1>7 DEF EmitWitness
    <3> QED
      BY <1>2, <1>3, <1>7, <3>1 DEF EmitWitness
  <2>2. Moved(th) /\ pc'[th] \in {"idle"} \union Onward
    BY <1>1, <2>1, GotoIs, ReturnIs DEF ThreadOK
  <2>3. ~(Emitting(th)')
    BY <2>2 DEF Emitting, Onward
  <2>4. \A u \in Threads \ {th} : ~Emitting(u)
    BY <1>4, <2>1 DEF InStep, Emitting
  <2>5. \A u \in Threads : ~(Emitting(u)')
    BY <2>2, <2>3, <2>4 DEF Moved, Emitting
  <2>6. /\ events = rjournal
        /\ \E log : IsSeq(log) /\ rjournal = Append(log, e) /\ Bound(chain, log)
    BY <1>2, <1>4, <2>1 DEF InStep
  <2>7. PICK log : IsSeq(log) /\ rjournal = Append(log, e) /\ Bound(chain, log)
    BY <2>6
  <2>8. /\ Digest(e).kind = "REGISTRY" /\ Digest(e).ev = e /\ Digest(e).snap = Append(log, e)
    BY <2>6, <2>7 DEF Digest
  <2>9. Bound(chain', rjournal')
    BY <1>1, <2>1, <2>7, <2>8, BoundNext
  <2> QED
    BY <2>1, <2>5, <2>6, <2>9 DEF InStep, NobodyEmits, Emitting
<1> QED
  BY <1>5, <1>6, <1>7 DEF Emit

(* Memory, journal and chain agree, whatever the threads and the faults.   *)
LEMMA AuditNext ==
    ASSUME AuditInv, GuiltInv, [Next]_vars
    PROVE  AuditInv'
<1>1. Placed /\ IsSeq(chain)
  BY DEF GuiltInv
<1>2. ASSUME NEW th \in Threads, EmitStep(th) PROVE AuditInv'
  BY <1>2, EmitInStep DEF EmitStep
<1>3. ASSUME NEW th \in Threads, RouteStep(th) PROVE AuditInv'
  <2>1. RoutesOn(th) /\ UNCHANGED <<registryVars, chain>>
    BY <1>3, RouteRoutesOn DEF RouteStep
  <2>2. ~Emitting(th)
    BY <1>3 DEF RouteStep, Route, StartRoute, Generate, SelectPanel, Score, Judge, ScoreSelf,
                Claim, NextSubtask, StartCross, AskPeer, CrossRecord, CrossDone, Ready, Emitting
  <2>3. Moved(th) /\ pc'[th] \in Elsewhere \union {"apply"}
    BY <1>1, <2>1, GotoIs, ReturnIs DEF RoutesOn, Elsewhere
  <2>4. ~(Emitting(th)')
    BY <2>3 DEF Emitting, Elsewhere
  <2> QED
    BY <1>1, <2>1, <2>2, <2>3, <2>4, NotEmitting
<1>4. ASSUME NEW th \in Threads, ChallengeStep(th) PROVE AuditInv'
  <2>1. Challenge(th)
    BY <1>4 DEF ChallengeStep
  <2>2. ~Emitting(th)
    BY <2>1 DEF Challenge, Open, NoteOpen, ClaimSeat, TakeSeat, Commit, Seal, StoreCommit, Reveal,
                ShowVerdict, NoteReveal, CatchFraud, NoteFraud, Resolve, NoteResolve, Ready, Emitting
  <2>3. UNCHANGED registryVars
    BY <2>1 DEF Challenge, Open, NoteOpen, ClaimSeat, TakeSeat, Commit, Seal, StoreCommit, Reveal,
                ShowVerdict, NoteReveal, CatchFraud, NoteFraud, Resolve, NoteResolve, challengeKept
  <2>4. chain' = chain \/ \E phase, v, what : Noted(phase, v, what)
    BY <2>1 DEF Challenge, Open, NoteOpen, ClaimSeat, TakeSeat, Commit, Seal, StoreCommit, Reveal,
                ShowVerdict, NoteReveal, CatchFraud, NoteFraud, Resolve, NoteResolve
  <2>5. \A phase, v, what : Note(phase, v, what).kind # "REGISTRY"
    BY DEF Note
  <2>6. chain' = chain \/ \E r : r.kind # "REGISTRY" /\ chain' = Append(chain, r)
    BY <2>4, <2>5 DEF Noted
  <2>7. Return(th) \/ \E p \in Free \union {"apply"} : \E l : Goto(th, p, l)
    BY <2>1 DEF Challenge, Open, NoteOpen, ClaimSeat, TakeSeat, Commit, Seal, StoreCommit, Reveal,
                ShowVerdict, NoteReveal, CatchFraud, NoteFraud, Resolve, NoteResolve, Free
  <2>8. Moved(th) /\ pc'[th] \in Free \union {"apply"}
    BY <1>1, <2>7, GotoIs, ReturnIs DEF Free
  <2>9. ~(Emitting(th)')
    BY <2>8 DEF Emitting, Free
  <2> QED
    BY <1>1, <2>2, <2>3, <2>6, <2>8, <2>9, NotEmitting
<1>5. CASE Crash
  <2>1. /\ UNCHANGED <<rjournal, chain, overlapped>> /\ events' = rjournal
        /\ cut' = (cut \/ \E th \in Threads : pc[th] = "witness")
        /\ \A th \in Threads : pc'[th] = "idle"
    BY <1>5 DEF Crash, RegistryRestart
  <2>2. SUFFICES ASSUME ~(overlapped'), ~(cut') PROVE InStep'
    BY DEF AuditInv
  <2>3. InStep /\ \A th \in Threads : pc[th] # "witness"
    BY <2>1, <2>2 DEF AuditInv
  <2>4. Bound(chain, rjournal)
    <3>1. CASE NobodyEmits
      BY <2>3, <3>1 DEF InStep
    <3>2. CASE ~NobodyEmits
      BY <2>3, <3>2 DEF InStep, NobodyEmits, Emitting
    <3> QED
      BY <3>1, <3>2
  <2>5. \A th \in Threads : ~(Emitting(th)')
    BY <2>1 DEF Emitting
  <2> QED
    BY <2>1, <2>4, <2>5 DEF InStep, NobodyEmits, Emitting
<1>6. CASE (Tick /\ UNCHANGED routerVars) \/ UNCHANGED vars
  <2>1. UNCHANGED <<pc, loc, events, rjournal, chain, overlapped, cut>>
    BY <1>6 DEF Tick, vars, threadVars, registryVars
  <2>2. Bound(chain, rjournal)' <=> Bound(chain, rjournal)
    BY <2>1, Zenon
  <2>3. \A log : Bound(chain', log) <=> Bound(chain, log)
    BY <2>1, Zenon
  <2>4. ASSUME InStep PROVE InStep'
    BY <2>1, <2>2, <2>3, <2>4 DEF InStep, NobodyEmits, Emitting
  <2> QED
    BY <2>1, <2>4 DEF AuditInv
<1> QED
  BY <1>2, <1>3, <1>4, <1>5, <1>6 DEF Next

(* verify_journal_against_chain: the audit that the governance boot runs   *)
(* fails only for a cause.  A registry whose emissions came one at a time  *)
(* and were completed passes it, restarts in between included.             *)
THEOREM AuditsFailForCause == VerificationSpec => []AuditFailsForCause
<1>1. Init => AuditInv
  <2> SUFFICES ASSUME Init PROVE InStep
    BY DEF AuditInv
  <2>1. /\ events = <<>> /\ rjournal = <<>> /\ chain = <<>> /\ pc = [th \in Threads |-> "idle"]
    BY DEF Init, RegistryInit
  <2>2. DOMAIN <<>> = {} /\ Len(<<>>) = 0
    OBVIOUS
  <2>3. OwnIn(chain) = {}
    BY <2>1, <2>2 DEF OwnIn
  <2>4. Bound(chain, rjournal)
    BY <2>1, <2>2, <2>3, FS_EmptySet DEF Bound
  <2>5. \A th \in Threads : pc[th] = "idle"
    BY <2>1
  <2> QED
    BY <2>1, <2>4, <2>5 DEF InStep, Emitting
<1>2. AuditInv /\ GuiltInv /\ [Next]_vars => AuditInv'
  BY AuditNext
<1>3. AuditInv => AuditFailsForCause
  <2> SUFFICES ASSUME InStep, NobodyEmits PROVE Audit
    BY DEF AuditInv, AuditFailsForCause, NobodyEmits
  <2>1. Bound(chain, rjournal)
    BY DEF InStep
  <2>2. OwnIn(chain) = Own
    BY DEF OwnIn, Own
  <2>3. \A n : PlaceIn(Own, n) = PlaceOf(n)
    BY DEF PlaceIn, PlaceOf
  <2>4. Cardinality(Own) = Len(rjournal)
    BY <2>1, <2>2 DEF Bound
  <2>5. \A n \in Own : /\ chain[n].ev = rjournal[PlaceOf(n)]
                       /\ chain[n].snap = SubSeq(rjournal, 1, PlaceOf(n))
    BY <2>1, <2>2, <2>3 DEF Bound
  <2> QED
    BY <2>4, <2>5 DEF Audit
<1> QED
  BY <1>1, <1>2, <1>3, GuiltAlways, PTL DEF VerificationSpec

---------------------------------------------------------------------------
(* The panels of verifiers, and what an answer rests on.                   *)

(* A share of a weight.                                                    *)
LEMMA Share ==
    ASSUME NEW x \in Nat, NEW z \in Nat, z # 0, x <= z
    PROVE  (20 * x) \div z \in 0..20
<1>1. /\ (20 * x) \div z \in Int
      /\ z * ((20 * x) \div z) <= 20 * x /\ 20 * x < z * (((20 * x) \div z) + 1)
  OBVIOUS
<1> DEFINE q == (20 * x) \div z
<1>2. q >= 0
  BY <1>1
<1>3. q <= 20
  BY <1>1
<1> QED
  BY <1>1, <1>2, <1>3

(* Dimensions overlap at most by their weight, alike in both directions.   *)
LEMMA OverlapOK ==
    ASSUME NEW a, NEW b, IsFiniteSet(a.training), IsFiniteSet(b.training)
    PROVE  /\ Overlap(a, b, "base") \in 0..35 /\ Overlap(a, b, "base") = Overlap(b, a, "base")
           /\ Overlap(a, b, "arch") \in 0..20 /\ Overlap(a, b, "arch") = Overlap(b, a, "arch")
           /\ Overlap(a, b, "operator") \in 0..15 /\ Overlap(a, b, "operator") = Overlap(b, a, "operator")
           /\ Overlap(a, b, "jurisdiction") \in 0..10
           /\ Overlap(a, b, "jurisdiction") = Overlap(b, a, "jurisdiction")
           /\ Overlap(a, b, "training") \in 0..20 /\ Overlap(a, b, "training") = Overlap(b, a, "training")
<1>1. /\ WeightOf["base"] = 35 /\ WeightOf["arch"] = 20 /\ WeightOf["operator"] = 15
      /\ WeightOf["jurisdiction"] = 10 /\ WeightOf["training"] = 20
  BY DEF WeightOf
<1>2. /\ Overlap(a, b, "base") \in 0..35 /\ Overlap(a, b, "base") = Overlap(b, a, "base")
      /\ Overlap(a, b, "arch") \in 0..20 /\ Overlap(a, b, "arch") = Overlap(b, a, "arch")
      /\ Overlap(a, b, "operator") \in 0..15 /\ Overlap(a, b, "operator") = Overlap(b, a, "operator")
      /\ Overlap(a, b, "jurisdiction") \in 0..10
      /\ Overlap(a, b, "jurisdiction") = Overlap(b, a, "jurisdiction")
  BY <1>1 DEF Overlap
<1> DEFINE S == a.training  T == b.training
<1>3. a["training"] = S /\ b["training"] = T
  OBVIOUS
<1>4. S \intersect T = T \intersect S /\ S \union T = T \union S
  OBVIOUS
<1>5. Overlap(a, b, "training") = Overlap(b, a, "training")
  <2> HIDE DEF S, T
  <2> QED
    BY <1>3, <1>4, Zenon DEF Overlap
<1>6. Overlap(a, b, "training") \in 0..20
  <2>1. CASE S = {} \/ T = {}
    BY <1>1, <1>3, <2>1 DEF Overlap
  <2>2. CASE S # {} /\ T # {}
    <3> HIDE DEF S, T
    <3>1. IsFiniteSet(S \union T) /\ S \union T # {} /\ S \intersect T \in SUBSET (S \union T)
      BY <2>2, FS_Union DEF S, T
    <3>2. PICK U, V : U = S \union T /\ V = S \intersect T
      OBVIOUS
    <3>3. /\ Cardinality(V) \in Nat /\ Cardinality(U) \in Nat /\ Cardinality(U) # 0
          /\ Cardinality(V) <= Cardinality(U)
      BY <3>1, <3>2, FS_Subset, FS_CardinalityType, FS_EmptySet
    <3>4. (20 * Cardinality(V)) \div Cardinality(U) \in 0..20
      BY <3>3, Share
    <3>5. Overlap(a, b, "training") = (20 * Cardinality(V)) \div Cardinality(U)
      BY <1>1, <1>3, <2>2, <3>2 DEF Overlap
    <3> QED
      BY <3>4, <3>5
  <2> QED
    BY <2>1, <2>2
<1> QED
  BY <1>2, <1>5, <1>6

(* Independence is a percentage, alike in both directions.                 *)
LEMMA IndependenceOK ==
    ASSUME NEW o \in DOMAIN Prov, NEW p \in DOMAIN Prov
    PROVE  Independence(o, p) \in 0..100 /\ Independence(o, p) = Independence(p, o)
<1>1. IsFiniteSet(Prov[o].training) /\ IsFiniteSet(Prov[p].training)
  BY DiversityAssumption
<1> DEFINE Sum(a, b) == Overlap(a, b, "base") + Overlap(a, b, "arch") + Overlap(a, b, "training")
                        + Overlap(a, b, "operator") + Overlap(a, b, "jurisdiction")
<1>2. ASSUME NEW a, NEW b, IsFiniteSet(a.training), IsFiniteSet(b.training)
      PROVE  Sum(a, b) \in 0..100 /\ Sum(a, b) = Sum(b, a)
  BY <1>2, OverlapOK
<1>3. \A x \in DOMAIN Prov, y \in DOMAIN Prov : Independence(x, y) = 100 - Sum(Prov[x], Prov[y])
  <2>1. ASSUME NEW x \in DOMAIN Prov, NEW y \in DOMAIN Prov
        PROVE  Independence(x, y) = 100 - Sum(Prov[x], Prov[y])
    <3>1. <<x, y>> \in (DOMAIN Prov) \X (DOMAIN Prov) /\ <<x, y>>[1] = x /\ <<x, y>>[2] = y
      OBVIOUS
    <3> QED
      BY <3>1 DEF Independence, IndependenceOf
  <2> QED
    BY <2>1
<1> HIDE DEF Sum
<1> QED
  BY <1>1, <1>2, <1>3

(* A candidate taken on, as the greedy choice decides.                     *)
Joins(x, C, g, P) == x \in C /\ Cardinality(P) < PanelK /\ CanJoin(x, P, g)
Joined(x, C, g, P) == IF Joins(x, C, g, P) THEN P \union {x} ELSE P
IsPanel(f, s, C, g, m) ==
    f = [n \in 0..m |-> IF n = 0 THEN {} ELSE Joined(s[n], C, g, f[n - 1])]

(* The choice has a result after every candidate.                          *)
LEMMA PanelExists ==
    ASSUME NEW s, NEW C, NEW g
    PROVE  \A m \in Nat : \E f : IsPanel(f, s, C, g, m)
<1> DEFINE Bad == {m \in Nat : ~ \E f : IsPanel(f, s, C, g, m)}
<1>1. SUFFICES ASSUME Bad # {} PROVE FALSE
  OBVIOUS
<1>2. PICK m \in Bad : \A k \in Bad : ~(<<k, m>> \in OpToRel(<, Nat))
  <2> HIDE DEF Bad
  <2>1. Bad \subseteq Nat
    BY DEF Bad
  <2> QED
    BY <1>1, <2>1, NatLessThanWellFounded, WFMin
<1>3. \A k \in Bad : ~(k < m)
  BY <1>2 DEF OpToRel
<1>4. CASE m = 0
  <2>1. IsPanel([n \in 0..0 |-> {}], s, C, g, 0)
    BY DEF IsPanel
  <2> QED
    BY <2>1, <1>2, <1>4
<1>5. CASE m # 0
  <2>1. m - 1 \in Nat /\ m - 1 < m /\ m - 1 \notin Bad
    <3>1. m \in Nat
      OBVIOUS
    <3> HIDE DEF Bad
    <3> QED
      BY <3>1, <1>5, <1>3
  <2>2. PICK f : IsPanel(f, s, C, g, m - 1)
    BY <2>1
  <2> DEFINE h == [n \in 0..m |-> IF n < m THEN f[n] ELSE Joined(s[m], C, g, f[m - 1])]
  <2>3. ASSUME NEW n \in 0..m
        PROVE  h[n] = IF n = 0 THEN {} ELSE Joined(s[n], C, g, h[n - 1])
    <3>1. CASE n = m
      BY <3>1, <1>5, <2>1
    <3>2. CASE n # m
      <4>1. n \in 0..(m - 1) /\ n < m
        BY <3>2, <2>1
      <4>2. h[n] = f[n] /\ (n # 0 => h[n - 1] = f[n - 1])
        BY <4>1, <2>1
      <4>3. f[n] = IF n = 0 THEN {} ELSE Joined(s[n], C, g, f[n - 1])
        BY <4>1, <2>2 DEF IsPanel
      <4> QED
        BY <4>2, <4>3
    <3> QED
      BY <3>1, <3>2
  <2>4. h = [n \in 0..m |-> h[n]]
    OBVIOUS
  <2>5. IsPanel(h, s, C, g, m)
    <3> HIDE DEF h
    <3> QED
      BY <2>3, <2>4 DEF IsPanel
  <2> QED
    BY <2>5, <1>2
<1> QED
  BY <1>4, <1>5

(* What holds before the first candidate and survives every candidate      *)
(* holds after each: the least one it fails at has a predecessor.          *)
LEMMA LeastCandidate ==
    ASSUME NEW m \in Nat, NEW Good \in SUBSET (0..m), 0 \in Good,
           \A n \in 1..m : n - 1 \in Good => n \in Good
    PROVE  Good = 0..m
<1> DEFINE Bad == (0..m) \ Good
<1>1. SUFFICES ASSUME Bad # {} PROVE FALSE
  OBVIOUS
<1>2. Bad \subseteq Nat
  OBVIOUS
<1>3. PICK n \in Bad : \A k \in Bad : ~(<<k, n>> \in OpToRel(<, Nat))
  <2> HIDE DEF Bad
  <2> QED
    BY <1>1, <1>2, NatLessThanWellFounded, WFMin
<1>4. \A k \in Bad : ~(k < n)
  BY <1>2, <1>3 DEF OpToRel
<1>5. n \in 1..m /\ n - 1 \in 0..m /\ n - 1 < n
  OBVIOUS
<1>6. n - 1 \in Good
  BY <1>4, <1>5
<1> QED
  BY <1>5, <1>6

(* The panels the choice goes through, candidate by candidate.             *)
PanelGrows(f, s, C, g, P) == /\ f[0] = {} /\ P = f[Len(s)]
                        /\ \A n \in 1..Len(s) : f[n] = Joined(s[n], C, g, f[n - 1])

(* ... exist.                                                              *)
LEMMA PanelSteps ==
    ASSUME NEW s, Len(s) \in Nat, NEW C, NEW g
    PROVE  \E f : PanelGrows(f, s, C, g, SelectVerifiers(s, C, g))
<1> DEFINE IsP(f) == f = [n \in 0..Len(s) |->
                            IF n = 0 THEN {}
                            ELSE IF /\ s[n] \in C /\ Cardinality(f[n - 1]) < PanelK
                                    /\ CanJoin(s[n], f[n - 1], g)
                                 THEN f[n - 1] \union {s[n]} ELSE f[n - 1]]
           k == CHOOSE f : IsP(f)
<1>1. \A f : IsP(f) <=> IsPanel(f, s, C, g, Len(s))
  <2>1. ASSUME NEW f
        PROVE  [n \in 0..Len(s) |->
                            IF n = 0 THEN {}
                            ELSE IF /\ s[n] \in C /\ Cardinality(f[n - 1]) < PanelK
                                    /\ CanJoin(s[n], f[n - 1], g)
                                 THEN f[n - 1] \union {s[n]} ELSE f[n - 1]]
               = [n \in 0..Len(s) |-> IF n = 0 THEN {} ELSE Joined(s[n], C, g, f[n - 1])]
    BY DEF Joined, Joins
  <2> QED
    BY <2>1 DEF IsPanel
<1>2. IsPanel(k, s, C, g, Len(s))
  <2>1. \E f : IsP(f)
    BY <1>1, PanelExists
  <2> HIDE DEF IsP
  <2> QED
    BY <1>1, <2>1
<1>3. SelectVerifiers(s, C, g) = k[Len(s)]
  BY DEF SelectVerifiers
<1> HIDE DEF k
<1>4. \A n \in 0..Len(s) : k[n] = IF n = 0 THEN {} ELSE Joined(s[n], C, g, k[n - 1])
  BY <1>2 DEF IsPanel
<1>5. PanelGrows(k, s, C, g, k[Len(s)])
  BY <1>4 DEF PanelGrows
<1> QED
  BY <1>3, <1>5

(* Those of a panel that share a value of a dimension.                     *)
Sharing(P, d, val) == {q \in P : Prov[q][d] = val}

(* Who may join a sound panel leaves it sound.                             *)
LEMMA JoinedSound ==
    ASSUME NEW P \in SUBSET DOMAIN Prov, IsFiniteSet(P), NEW x \in DOMAIN Prov,
           NEW g \in DOMAIN Prov, Sound(P, g), CanJoin(x, P, g)
    PROVE  Sound(P \union {x}, g)
<1>1. /\ g \notin P /\ \A o \in P : Independence(o, g) > 0
      /\ \A o, p \in P : o # p => Independence(o, p) >= MinIndependence
      /\ \A o \in P, d \in GroupDims :
            Prov[o][d] = "unknown" \/ Cardinality(Sharing(P, d, Prov[o][d])) <= MaxPerGroup
  BY DEF Sound, Sharing
<1>2. /\ x # g /\ Independence(x, g) # 0 /\ \A q \in P : ~(Independence(x, q) < MinIndependence)
      /\ \A d \in GroupDims : Prov[x][d] = "unknown"
                              \/ ~(Cardinality(Sharing(P, d, Prov[x][d])) + 1 > MaxPerGroup)
  BY DEF CanJoin, Clashes, OverCap, Sharing
<1>3. MinIndependence \in Int /\ MaxPerGroup \in Int
  BY DiversityAssumption
<1>4. Independence(x, g) > 0
  BY <1>2, IndependenceOK
<1>5. ASSUME NEW o \in P \union {x}, NEW p \in P \union {x}, o # p
      PROVE  Independence(o, p) >= MinIndependence
  <2>1. CASE o \in P /\ p \in P
    BY <1>1, <1>5, <2>1
  <2>2. CASE o = x /\ p \in P
    BY <1>2, <1>3, <2>2, IndependenceOK
  <2>3. CASE p = x /\ o \in P
    <3>1. Independence(o, p) = Independence(x, o) /\ Independence(x, o) \in Int
      BY <2>3, IndependenceOK
    <3> QED
      BY <1>2, <1>3, <2>3, <3>1
  <2> QED
    BY <1>5, <2>1, <2>2, <2>3
<1>6. ASSUME NEW o \in P \union {x}, NEW d \in GroupDims, Prov[o][d] # "unknown"
      PROVE  Cardinality(Sharing(P \union {x}, d, Prov[o][d])) <= MaxPerGroup
  <2>1. PICK val : val = Prov[o][d]
    OBVIOUS
  <2>2. PICK S, T : S = Sharing(P, d, val) /\ T = Sharing(P \union {x}, d, val)
    OBVIOUS
  <2>3. IsFiniteSet(S) /\ Cardinality(S) \in Nat
    <3>1. S \in SUBSET P
      BY <2>2 DEF Sharing
    <3> QED
      BY <3>1, FS_Subset, FS_CardinalityType
  <2>4. CASE Prov[x][d] = val
    <3>1. T = S \union {x}
      BY <2>2, <2>4 DEF Sharing
    <3>2. Cardinality(T) <= Cardinality(S) + 1
      <4>1. Cardinality(T) = IF x \in S THEN Cardinality(S) ELSE Cardinality(S) + 1
        BY <2>3, <3>1, FS_AddElement
      <4> QED
        BY <2>3, <4>1
    <3>3. ~(Cardinality(S) + 1 > MaxPerGroup)
      BY <1>2, <1>6, <2>1, <2>2, <2>4
    <3>4. Cardinality(T) \in Nat
      BY <2>3, <3>1, FS_AddElement, FS_CardinalityType
    <3> QED
      BY <1>3, <2>1, <2>2, <2>3, <3>2, <3>3, <3>4
  <2>5. CASE Prov[x][d] # val
    <3>1. T = S /\ o \in P
      BY <2>1, <2>2, <2>5 DEF Sharing
    <3> QED
      BY <1>1, <1>6, <2>1, <2>2, <3>1
  <2> QED
    BY <2>4, <2>5
<1> QED
  BY <1>1, <1>2, <1>4, <1>5, <1>6 DEF Sound, Sharing

(* Who may not join a panel makes every larger one unsound.                *)
LEMMA LeftOutUnsound ==
    ASSUME NEW P \in SUBSET DOMAIN Prov, IsFiniteSet(P), NEW Q \in SUBSET P,
           NEW x \in DOMAIN Prov, x \notin P, NEW g \in DOMAIN Prov,
           ~CanJoin(x, Q, g), Sound(P \union {x}, g)
    PROVE  FALSE
<1> DEFINE U == P \union {x}
<1>1. /\ g \notin U /\ \A o \in U : Independence(o, g) > 0
      /\ \A o, p \in U : o # p => Independence(o, p) >= MinIndependence
      /\ \A o \in U, d \in GroupDims :
            Prov[o][d] = "unknown" \/ Cardinality(Sharing(U, d, Prov[o][d])) <= MaxPerGroup
  BY DEF Sound, Sharing
<1>2. \/ x = g \/ Independence(x, g) = 0 \/ \E q \in Q : Independence(x, q) < MinIndependence
      \/ \E d \in GroupDims : Prov[x][d] # "unknown"
                              /\ Cardinality(Sharing(Q, d, Prov[x][d])) + 1 > MaxPerGroup
  BY DEF CanJoin, Clashes, OverCap, Sharing
<1>3. MinIndependence \in Int /\ MaxPerGroup \in Int
  BY DiversityAssumption
<1>4. x \in U /\ Q \subseteq U /\ \A q \in Q : q # x
  OBVIOUS
<1>5. ASSUME NEW q \in Q, Independence(x, q) < MinIndependence PROVE FALSE
  <2>1. Independence(x, q) \in Int /\ Independence(x, q) >= MinIndependence
    BY <1>1, <1>4, IndependenceOK
  <2> QED
    BY <1>3, <1>5, <2>1
<1>6. ASSUME NEW d \in GroupDims, Prov[x][d] # "unknown",
             Cardinality(Sharing(Q, d, Prov[x][d])) + 1 > MaxPerGroup
      PROVE  FALSE
  <2>1. PICK S, T : S = Sharing(Q, d, Prov[x][d]) /\ T = Sharing(U, d, Prov[x][d])
    OBVIOUS
  <2>2. S \union {x} \in SUBSET T /\ x \notin S /\ S \in SUBSET P /\ T \in SUBSET U
    BY <2>1 DEF Sharing
  <2>3. IsFiniteSet(S) /\ IsFiniteSet(T)
    <3>1. IsFiniteSet(U)
      BY FS_AddElement
    <3> QED
      BY <2>2, <3>1, FS_Subset
  <2>4. Cardinality(S \union {x}) = Cardinality(S) + 1 /\ Cardinality(S \union {x}) <= Cardinality(T)
    BY <2>2, <2>3, FS_AddElement, FS_Subset
  <2>5. Cardinality(S) \in Nat /\ Cardinality(T) \in Nat /\ Cardinality(T) <= MaxPerGroup
    BY <1>1, <1>4, <1>6, <2>1, <2>3, FS_CardinalityType
  <2> QED
    BY <1>3, <1>6, <2>1, <2>4, <2>5
<1> QED
  BY <1>1, <1>2, <1>4, <1>5, <1>6

(* A panel satisfies the constraints, and one that came out short could    *)
(* have taken on nobody it left out.                                       *)
LEMMA PanelIsSound ==
    ASSUME NEW s, IsSeq(s), \A i \in DOMAIN s : s[i] \in DOMAIN Prov, NEW g \in DOMAIN Prov,
           NEW C, C \subseteq {s[i] : i \in DOMAIN s},
           NEW P, P = SelectVerifiers(s, C, g)
    PROVE  /\ IsFiniteSet(P) /\ P \subseteq C /\ g \notin P /\ Sound(P, g)
           /\ Cardinality(P) < PanelK => \A o \in C \ P : ~Sound(P \union {o}, g)
<1>1. Len(s) \in Nat /\ DOMAIN s = 1..Len(s)
  BY SeqIs
<1>2. PICK f : /\ f[0] = {} /\ P = f[Len(s)]
               /\ \A n \in 1..Len(s) : f[n] = Joined(s[n], C, g, f[n - 1])
  <2>1. \E f : PanelGrows(f, s, C, g, SelectVerifiers(s, C, g))
    BY ONLY <1>1, PanelSteps
  <2>2. \E f : PanelGrows(f, s, C, g, P)
    BY <2>1
  <2> QED
    BY <2>2 DEF PanelGrows
<1> DEFINE Fine(Q) == /\ IsFiniteSet(Q) /\ Q \subseteq C /\ Q \subseteq DOMAIN Prov /\ Sound(Q, g)
           Good == {n \in 0..Len(s) : Fine(f[n])}
<1>3. Good = 0..Len(s)
  <2>1. 0 \in Good
    <3>1. Sound({}, g) /\ IsFiniteSet({})
      BY FS_EmptySet DEF Sound
    <3>2. Fine({})
      BY <3>1
    <3>3. PICK Q : Q = f[0]
      OBVIOUS
    <3>4. Q = {}
      BY <1>2, <3>3
    <3>5. Fine(Q)
      BY <3>2, <3>4
    <3>6. 0 \in 0..Len(s)
      BY <1>1
    <3> HIDE DEF Fine
    <3> QED
      BY <3>3, <3>5, <3>6
  <2>2. ASSUME NEW n \in 1..Len(s), n - 1 \in Good PROVE n \in Good
    <3>1. PICK Q, x : Q = f[n - 1] /\ x = s[n]
      OBVIOUS
    <3>2. Fine(Q) /\ x \in DOMAIN Prov /\ f[n] = Joined(x, C, g, Q)
      BY <1>1, <1>2, <2>2, <3>1
    <3>3. Fine(f[n])
      <4>1. CASE Joins(x, C, g, Q)
        <5>1. f[n] = Q \union {x} /\ x \in C
          BY <3>2, <4>1 DEF Joined, Joins
        <5>2. Sound(Q \union {x}, g)
          BY <3>2, <4>1, JoinedSound DEF Joins
        <5>3. IsFiniteSet(Q \union {x})
          BY <3>2, FS_AddElement
        <5> QED
          BY <3>2, <5>1, <5>2, <5>3
      <4>2. CASE ~Joins(x, C, g, Q)
        BY <3>2, <4>2 DEF Joined
      <4> QED
        BY <4>1, <4>2
    <3> HIDE DEF Fine
    <3> QED
      BY <1>1, <3>3
  <2> HIDE DEF Good
  <2>3. Good \in SUBSET (0..Len(s))
    BY DEF Good
  <2> QED
    BY <1>1, <2>1, <2>2, <2>3, LeastCandidate
<1>4. \A n \in 0..Len(s) : Fine(f[n])
  BY <1>3
<1>5. Fine(P)
  BY <1>1, <1>2, <1>4
<1>6. ASSUME NEW m \in 1..Len(s) PROVE f[m] \subseteq P
  <2> DEFINE Up == {n \in 0..(Len(s) - m) : f[m] \subseteq f[m + n]}
  <2>1. 0 \in Up
    BY <1>1
  <2>2. ASSUME NEW n \in 1..(Len(s) - m), n - 1 \in Up PROVE n \in Up
    <3>1. m + n \in 1..Len(s) /\ (m + n) - 1 = m + (n - 1)
      BY <1>1
    <3>2. f[m + n] = Joined(s[m + n], C, g, f[m + (n - 1)])
      BY <1>2, <3>1
    <3>3. f[m + (n - 1)] \subseteq f[m + n]
      BY <3>2 DEF Joined
    <3> QED
      BY <1>1, <2>2, <3>3
  <2>3. Up = 0..(Len(s) - m)
    <3>1. Up \in SUBSET (0..(Len(s) - m)) /\ Len(s) - m \in Nat
      BY <1>1
    <3> HIDE DEF Up
    <3> QED
      BY <2>1, <2>2, <3>1, LeastCandidate
  <2>4. Len(s) - m \in Up /\ m + (Len(s) - m) = Len(s)
    <3> HIDE DEF Up
    <3> QED
      BY <1>1, <2>3
  <2> QED
    BY <1>2, <2>4
<1>7. ASSUME Cardinality(P) < PanelK, NEW o \in C \ P, Sound(P \union {o}, g) PROVE FALSE
  <2>1. PICK m \in 1..Len(s) : s[m] = o
    BY <1>1
  <2>2. PICK Q : Q = f[m - 1]
    OBVIOUS
  <2>3. f[m] = Joined(o, C, g, Q) /\ f[m] \subseteq P
    BY <1>2, <1>6, <2>1, <2>2
  <2>4. Q \subseteq f[m] /\ Q \subseteq P
    BY <2>3 DEF Joined
  <2>5. Cardinality(Q) <= Cardinality(P) /\ Cardinality(Q) \in Nat /\ Cardinality(P) \in Nat
    BY <1>5, <2>4, FS_Subset, FS_CardinalityType
  <2>6. PanelK \in Nat
    BY DiversityAssumption
  <2>7. ~CanJoin(o, Q, g)
    <3>1. ~Joins(o, C, g, Q)
      BY <1>7, <2>3 DEF Joined
    <3> QED
      BY <1>7, <2>5, <2>6, <3>1 DEF Joins
  <2>8. o \in DOMAIN Prov
    BY <1>1, <2>1
  <2> QED
    BY <1>5, <1>7, <2>4, <2>7, <2>8, LeftOutUnsound
<1> QED
  BY <1>5, <1>7 DEF Sound

---------------------------------------------------------------------------
(* What an answer rests on.  The verdicts on o that a trace t has after    *)
(* its panel p, before the next.                                           *)
Said(t, o, p) ==
    {j \in (p + 1)..Len(t) : /\ t[j].event = "panel_verify" /\ t[j].object = o
                             /\ \A n \in p..j : t[n].event = "panel" => n = p}
(* A panel for o: full in strict mode, and without the generator.          *)
IsFor(e, o, m) == /\ e.event = "panel" /\ e.object = o /\ e.who # {} /\ o \notin e.who
                  /\ m = "strict" => Cardinality(e.who) >= PanelK
Vouches(t, o, p, m) ==
    /\ IsFor(t[p], o, m)
    /\ \A v \in t[p].who : \E j \in Said(t, o, p) : t[j].who = {v}
    /\ \A j \in Said(t, o, p) : t[j].ok
(* All of a panel vouched for o; a settled answer has a later panel, so    *)
(* that no verdict to come is about it.                                    *)
Answered(t, o, m) == \E p \in DOMAIN t : Vouches(t, o, p, m)
Later(t, p) == \E q \in (p + 1)..Len(t) : t[q].event = "panel"
Settled(t, o, m) == \E p \in DOMAIN t : Vouches(t, o, p, m) /\ Later(t, p)

(* The panel under way: the last on the trace, followed by the verdicts of *)
(* those who are not still to be asked.                                    *)
Panelled(t, o, asked, q, m) ==
    /\ q \in DOMAIN t /\ IsFor(t[q], o, m)
    /\ \A j \in (q + 1)..Len(t) :
          t[j].event = "panel_verify" /\ t[j].object = o /\ t[j].ok \in BOOLEAN
    /\ asked \subseteq t[q].who
    /\ \A v \in t[q].who \ asked : \E j \in (q + 1)..Len(t) : t[j].who = {v}

(* A trace and one with more records.                                      *)
Prolongs(t, u) ==
    /\ IsSeq(t) /\ IsSeq(u) /\ Len(t) \in Nat /\ Len(u) \in Nat /\ Len(t) <= Len(u)
    /\ DOMAIN t = 1..Len(t) /\ DOMAIN u = 1..Len(u)
    /\ \A i \in 1..Len(t) : u[i] = t[i]
Newer(t, u) == (Len(t) + 1)..Len(u)
Silent(t, u) == \A j \in Newer(t, u) : u[j].event # "panel_verify"

(* A panel keeps its verdicts while none is added, and for good once there *)
(* is a later panel.                                                       *)
LEMMA VouchesStill ==
    ASSUME NEW t, NEW u, Prolongs(t, u), NEW o, NEW m, NEW p \in DOMAIN t, Vouches(t, o, p, m),
           Silent(t, u) \/ Later(t, p)
    PROVE  Vouches(u, o, p, m) /\ p \in DOMAIN u
<1>1. /\ Len(t) \in Nat /\ Len(u) \in Nat /\ Len(t) <= Len(u) /\ p \in 1..Len(t) /\ p \in DOMAIN u
      /\ \A i \in 1..Len(t) : u[i] = t[i]
  BY DEF Prolongs
<1>2. ASSUME NEW j \in Said(t, o, p) PROVE j \in Said(u, o, p) /\ u[j] = t[j]
  <2>1. /\ j \in (p + 1)..Len(t) /\ t[j].event = "panel_verify" /\ t[j].object = o
        /\ \A n \in p..j : t[n].event = "panel" => n = p
    BY DEF Said
  <2>2. j \in (p + 1)..Len(u) /\ u[j] = t[j] /\ \A n \in p..j : n \in 1..Len(t)
    BY <1>1, <2>1
  <2> QED
    BY <1>1, <2>1, <2>2 DEF Said
<1>3. ASSUME NEW j \in Said(u, o, p) PROVE j \in Said(t, o, p) /\ u[j] = t[j]
  <2>1. /\ j \in (p + 1)..Len(u) /\ u[j].event = "panel_verify" /\ u[j].object = o
        /\ \A n \in p..j : u[n].event = "panel" => n = p
    BY DEF Said
  <2>2. j <= Len(t)
    <3>1. CASE Silent(t, u)
      BY <1>1, <2>1, <3>1 DEF Silent, Newer
    <3>2. ASSUME Later(t, p), j > Len(t) PROVE FALSE
      <4>1. PICK q \in (p + 1)..Len(t) : t[q].event = "panel"
        BY <3>2 DEF Later
      <4>2. q \in p..j /\ u[q].event = "panel" /\ q # p
        BY <1>1, <2>1, <3>2, <4>1
      <4> QED
        BY <2>1, <4>2
    <3> QED
      BY <1>1, <2>1, <3>1, <3>2
  <2>3. j \in (p + 1)..Len(t) /\ u[j] = t[j] /\ \A n \in p..j : n \in 1..Len(t)
    BY <1>1, <2>1, <2>2
  <2> QED
    BY <1>1, <2>1, <2>3 DEF Said
<1>4. u[p] = t[p]
  BY <1>1
<1> QED
  BY <1>1, <1>2, <1>3, <1>4 DEF Vouches

(* What was answered stays answered while no verdict is added, and is      *)
(* settled by another panel.                                               *)
LEMMA AnswersKept ==
    ASSUME NEW t, NEW u, Prolongs(t, u), NEW m
    PROVE  /\ Silent(t, u) => \A o : Answered(t, o, m) => Answered(u, o, m)
           /\ \A o : Settled(t, o, m) => Settled(u, o, m) /\ Answered(u, o, m)
           /\ Silent(t, u) /\ (\E q \in Newer(t, u) : u[q].event = "panel")
                 => \A o : Answered(t, o, m) => Settled(u, o, m)
<1>1. ASSUME Silent(t, u), NEW o, Answered(t, o, m) PROVE Answered(u, o, m)
  BY <1>1, VouchesStill DEF Answered
<1>2. ASSUME NEW o, Settled(t, o, m) PROVE Settled(u, o, m) /\ Answered(u, o, m)
  <2>1. PICK p \in DOMAIN t : Vouches(t, o, p, m) /\ Later(t, p)
    BY <1>2 DEF Settled
  <2>2. Vouches(u, o, p, m) /\ p \in DOMAIN u
    BY <2>1, VouchesStill
  <2>3. PICK q \in (p + 1)..Len(t) : t[q].event = "panel"
    BY <2>1 DEF Later
  <2>4. q \in (p + 1)..Len(u) /\ u[q].event = "panel"
    BY <2>3 DEF Prolongs
  <2> QED
    BY <2>2, <2>4 DEF Settled, Answered, Later
<1>3. ASSUME Silent(t, u), NEW q \in Newer(t, u), u[q].event = "panel", NEW o, Answered(t, o, m)
      PROVE  Settled(u, o, m)
  <2>1. PICK p \in DOMAIN t : Vouches(t, o, p, m)
    BY <1>3 DEF Answered
  <2>2. Vouches(u, o, p, m) /\ p \in DOMAIN u
    BY <1>3, <2>1, VouchesStill
  <2>3. q \in (p + 1)..Len(u)
    BY <1>3 DEF Prolongs, Newer
  <2> QED
    BY <1>3, <2>2, <2>3 DEF Settled, Later
<1> QED
  BY <1>1, <1>2, <1>3

(* A panel of whom nobody is left to ask, all of whom said yes, vouches.   *)
LEMMA PanelVouches ==
    ASSUME NEW t, Len(t) \in Nat, DOMAIN t = 1..Len(t), NEW o, NEW q, NEW m,
           Panelled(t, o, {}, q, m),
           \A j \in (q + 1)..Len(t) : t[j].ok
    PROVE  Answered(t, o, m)
<1>1. /\ q \in 1..Len(t) /\ IsFor(t[q], o, m) /\ t[q].event = "panel"
      /\ \A j \in (q + 1)..Len(t) : t[j].event = "panel_verify" /\ t[j].object = o
      /\ \A v \in t[q].who : \E j \in (q + 1)..Len(t) : t[j].who = {v}
  BY DEF Panelled, IsFor
<1>2. Said(t, o, q) = (q + 1)..Len(t)
  <2>1. ASSUME NEW j \in (q + 1)..Len(t), NEW n \in q..j, t[n].event = "panel" PROVE n = q
    <3>1. n = q \/ n \in (q + 1)..Len(t)
      BY <1>1
    <3> QED
      BY <1>1, <2>1, <3>1
  <2> QED
    BY <1>1, <2>1 DEF Said
<1> QED
  BY <1>1, <1>2 DEF Answered, Vouches

(* What must have been vouched for: the generators done, except those of   *)
(* the subtask under way, and the ones of an answer that was returned.     *)
Checked(call, m) == call.op = "route" /\ call.verify /\ m # "self"
AllAnswered(t, d, k, m) == \A i \in 1..(Len(d) - k) : Answered(t, d[i], m)
AllSettled(t, d, k, m) == \A i \in 1..(Len(d) - k) : Settled(t, d[i], m)
DoneOK(th) ==
    /\ pc[th] # "self"
    /\ pc[th] \in {"subtask", "verified", "subtaskDone"} => AllAnswered(trace[th], loc[th].done, 0, mode)
    /\ pc[th] = "panel" => AllAnswered(trace[th], loc[th].done, 1, mode)
    /\ pc[th] = "scoring" => AllSettled(trace[th], loc[th].done, 2, mode)
    /\ pc[th] \in {"apply", "journal", "witness"} /\ loc[th][2] = "verified" =>
          AllAnswered(trace[th], loc[th][3].done, 0, mode)
UnderwayOK(th) ==
    /\ pc[th] = "panel" => Chosen(th) \in {Objects[i] : i \in DOMAIN Objects}
    /\ pc[th] = "scoring" => \E q : Panelled(trace[th], Generator(th), Asked(th), q, mode)
    /\ Checked(Call(th), mode) => DoneOK(th)
ResultOK(th) ==
    Checked(results[th].call, mode) =>
        \A i \in DOMAIN results[th].got :
            /\ pc[th] # "scoring" => Answered(trace[th], results[th].got[i], mode)
            /\ pc[th] = "scoring" => Settled(trace[th], results[th].got[i], mode)

(* The inductive invariant behind the answers.                             *)
VouchInv == PanelsAreSound /\ \A th \in Threads : UnderwayOK(th) /\ ResultOK(th)

(* A thread that is left alone.                                            *)
LEMMA LeftAloneOK ==
    ASSUME NEW u \in Threads, UnderwayOK(u), ResultOK(u), mode' = mode, script' = script,
           pc'[u] = pc[u], loc'[u] = loc[u], at'[u] = at[u], trace'[u] = trace[u],
           results'[u] = results[u]
    PROVE  UnderwayOK(u)' /\ ResultOK(u)'
<1>1. Call(u)' = Call(u) /\ Chosen(u)' = Chosen(u) /\ Generator(u)' = Generator(u) /\ Asked(u)' = Asked(u)
  BY DEF Call, Chosen, Generator, Asked
<1>2. ResultOK(u)'
  BY DEF ResultOK
<1>3. DoneOK(u) => DoneOK(u)'
  BY DEF DoneOK
<1>4. PICK c, x, g, a : c = Call(u) /\ x = Chosen(u) /\ g = Generator(u) /\ a = Asked(u)
  OBVIOUS
<1>5. Call(u)' = c /\ Chosen(u)' = x /\ Generator(u)' = g /\ Asked(u)' = a
  BY <1>1, <1>4
<1>6. UnderwayOK(u)'
  BY <1>3, <1>4, <1>5 DEF UnderwayOK
<1> QED
  BY <1>2, <1>6

(* Places for which nothing has to be vouched.                             *)
Unbound == {"idle", "rejected", "asking", "credited", "noteOpen", "seated", "sealing", "sealed",
            "revealing", "shown", "fraud", "noteResolve"}
(* ... nor for an emission after which nothing is claimed as verified.     *)
LEMMA UnboundOK ==
    ASSUME NEW th \in Threads,
           \/ pc'[th] \in Unbound
           \/ pc'[th] \in {"apply", "journal", "witness"} /\ loc'[th][2] # "verified"
    PROVE  UnderwayOK(th)' /\ pc'[th] # "scoring"
<1>1. pc'[th] \notin {"panel", "scoring", "self", "subtask", "verified", "subtaskDone"}
  BY DEF Unbound
<1>2. DoneOK(th)'
  BY <1>1 DEF DoneOK, Unbound
<1> QED
  BY <1>1, <1>2 DEF UnderwayOK

(* What was returned stays vouched for.                                    *)
LEMMA ResultKept ==
    ASSUME NEW th \in Threads, ResultOK(th), mode' = mode, results'[th] = results[th],
           Prolongs(trace[th], trace'[th]),
           \/ pc[th] = "scoring"
           \/ Silent(trace[th], trace'[th]) /\ pc'[th] # "scoring"
           \/ Silent(trace[th], trace'[th]) /\ \E q \in Newer(trace[th], trace'[th]) : trace'[th][q].event = "panel"
    PROVE  ResultOK(th)'
<1>1. PICK t, u, r : t = trace[th] /\ u = trace'[th] /\ r = results[th]
  OBVIOUS
<1>2. SUFFICES ASSUME Checked(r.call, mode), NEW i \in DOMAIN r.got
               PROVE  /\ pc'[th] # "scoring" => Answered(u, r.got[i], mode)
                      /\ pc'[th] = "scoring" => Settled(u, r.got[i], mode)
  BY <1>1 DEF ResultOK
<1>3. IF pc[th] = "scoring" THEN Settled(t, r.got[i], mode) ELSE Answered(t, r.got[i], mode)
  BY <1>1, <1>2 DEF ResultOK
<1>4. PICK o, m : o = r.got[i] /\ m = mode
  OBVIOUS
<1>5. /\ Silent(t, u) => (Answered(t, o, m) => Answered(u, o, m))
      /\ Settled(t, o, m) => Settled(u, o, m) /\ Answered(u, o, m)
      /\ Silent(t, u) /\ (\E q \in Newer(t, u) : u[q].event = "panel")
            => (Answered(t, o, m) => Settled(u, o, m) /\ Answered(u, o, m))
  BY <1>1, AnswersKept
<1> QED
  BY <1>1, <1>3, <1>4, <1>5

(* Records that are neither a panel nor a verdict of one.                  *)
Mute(recs) == IsSeq(recs) /\ \A i \in DOMAIN recs : recs[i].event \notin {"panel", "panel_verify"}
Quiet(th) == trace' = trace \/ \E recs : Mute(recs) /\ Wrote(th, recs)

(* Short sequences of them.                                                *)
LEMMA MuteIn ==
    /\ Mute(<<>>)
    /\ \A x : x.event \notin {"panel", "panel_verify"} => Mute(<<x>>)
    /\ \A x, y : x.event \notin {"panel", "panel_verify"} /\ y.event \notin {"panel", "panel_verify"}
          => Mute(<<x, y>>)
<1>1. Mute(<<>>)
  BY NothingIsSeq DEF Mute
<1>2. ASSUME NEW x, x.event \notin {"panel", "panel_verify"} PROVE Mute(<<x>>)
  BY <1>2, SeqOfOne DEF Mute
<1>3. ASSUME NEW x, NEW y, x.event \notin {"panel", "panel_verify"}, y.event \notin {"panel", "panel_verify"}
      PROVE  Mute(<<x, y>>)
  BY <1>3, SeqOfTwo DEF Mute
<1> QED
  BY <1>1, <1>2, <1>3

(* Joined, they are none either.                                           *)
LEMMA MuteJoined ==
    ASSUME NEW s, NEW t, Mute(s), Mute(t)
    PROVE  Mute(s \o t)
<1> DEFINE u == s \o t
<1>1. /\ IsSeq(u) /\ DOMAIN u = 1..(Len(s) + Len(t)) /\ Len(s) \in Nat /\ Len(t) \in Nat
      /\ DOMAIN s = 1..Len(s) /\ DOMAIN t = 1..Len(t)
      /\ \A i \in 1..Len(s) : u[i] = s[i]
      /\ \A i \in 1..Len(t) : u[Len(s) + i] = t[i]
  BY SeqJoined DEF Mute
<1> HIDE DEF u
<1>2. ASSUME NEW i \in 1..(Len(s) + Len(t)) PROVE u[i].event \notin {"panel", "panel_verify"}
  <2>1. CASE i \in 1..Len(s)
    BY <1>1, <2>1 DEF Mute
  <2>2. CASE i \notin 1..Len(s)
    <3>1. i - Len(s) \in 1..Len(t) /\ Len(s) + (i - Len(s)) = i
      BY <1>1, <2>2
    <3> QED
      BY <1>1, <3>1 DEF Mute
  <2> QED
    BY <2>1, <2>2
<1> QED
  BY <1>1, <1>2 DEF Mute, u

(* A thread's trace after it wrote.                                        *)
LEMMA WroteProlongs ==
    ASSUME TraceOK, NEW th \in Threads, NEW recs, IsSeq(recs), Wrote(th, recs)
    PROVE  /\ Prolongs(trace[th], trace'[th]) /\ \A u \in Threads \ {th} : trace'[u] = trace[u]
           /\ Len(trace'[th]) = Len(trace[th]) + Len(recs)
           /\ \A j \in Newer(trace[th], trace'[th]) :
                 j - Len(trace[th]) \in DOMAIN recs /\ trace'[th][j] = recs[j - Len(trace[th])]
<1>1. /\ TraceOK' /\ \A u \in Threads \ {th} : trace'[u] = trace[u]
      /\ Len(trace[th]) \in Nat /\ DOMAIN trace[th] = 1..Len(trace[th])
      /\ DOMAIN trace'[th] = 1..(Len(trace[th]) + Len(recs))
      /\ Len(recs) \in Nat /\ DOMAIN recs = 1..Len(recs)
      /\ \A i \in 1..Len(trace[th]) : trace'[th][i] = trace[th][i]
      /\ \A i \in 1..Len(recs) : trace'[th][Len(trace[th]) + i] = recs[i]
  BY WroteMore
<1>2. PICK t, u : t = trace[th] /\ u = trace'[th]
  OBVIOUS
<1>3. IsSeq(t) /\ IsSeq(u)
  BY <1>1, <1>2 DEF TraceOK
<1>4. Len(u) \in Nat /\ DOMAIN u = 1..Len(u)
  BY <1>3, SeqIs
<1>5. Len(u) = Len(t) + Len(recs)
  BY <1>1, <1>2, <1>4
<1>6. ASSUME NEW j \in (Len(t) + 1)..Len(u)
      PROVE  j - Len(t) \in DOMAIN recs /\ u[j] = recs[j - Len(t)]
  <2>1. j - Len(t) \in 1..Len(recs) /\ Len(t) + (j - Len(t)) = j
    BY <1>1, <1>2, <1>5
  <2>2. u[Len(t) + (j - Len(t))] = recs[j - Len(t)]
    BY <1>1, <1>2, <2>1
  <2> QED
    BY <1>1, <2>1, <2>2
<1>7. Prolongs(t, u)
  BY <1>1, <1>2, <1>3, <1>4, <1>5 DEF Prolongs
<1> QED
  BY <1>1, <1>2, <1>5, <1>6, <1>7 DEF Newer

(* A trace left alone.                                                     *)
LEMMA ProlongsSelf ==
    ASSUME NEW t, IsSeq(t)
    PROVE  Prolongs(t, t) /\ Newer(t, t) = {}
<1>1. Len(t) \in Nat /\ DOMAIN t = 1..Len(t)
  BY SeqIs
<1> QED
  BY <1>1 DEF Prolongs, Newer

(* A quiet step.                                                           *)
LEMMA QuietProlongs ==
    ASSUME TraceOK, NEW th \in Threads, Quiet(th)
    PROVE  /\ Prolongs(trace[th], trace'[th]) /\ \A u \in Threads \ {th} : trace'[u] = trace[u]
           /\ Silent(trace[th], trace'[th])
           /\ \A j \in Newer(trace[th], trace'[th]) : trace'[th][j].event # "panel"
<1>1. CASE trace' = trace
  <2>1. PICK t : t = trace[th]
    OBVIOUS
  <2>2. Prolongs(t, t) /\ Newer(t, t) = {}
    BY <2>1, ProlongsSelf DEF TraceOK
  <2> QED
    BY <1>1, <2>1, <2>2 DEF Silent
<1>2. ASSUME NEW recs, Mute(recs), Wrote(th, recs)
      PROVE  /\ Prolongs(trace[th], trace'[th]) /\ \A u \in Threads \ {th} : trace'[u] = trace[u]
             /\ Silent(trace[th], trace'[th])
             /\ \A j \in Newer(trace[th], trace'[th]) : trace'[th][j].event # "panel"
  <2>1. /\ Prolongs(trace[th], trace'[th]) /\ \A u \in Threads \ {th} : trace'[u] = trace[u]
        /\ \A j \in Newer(trace[th], trace'[th]) :
              j - Len(trace[th]) \in DOMAIN recs /\ trace'[th][j] = recs[j - Len(trace[th])]
    BY <1>2, WroteProlongs DEF Mute
  <2> QED
    BY <1>2, <2>1 DEF Silent, Mute
<1> QED
  BY <1>1, <1>2 DEF Quiet

(* All steps of a route but the choice of a panel and its verdicts.        *)
LEMMA RouteQuiet ==
    ASSUME NEW th \in Threads, Route(th), ~SelectPanel(th), ~Score(th)
    PROVE  Quiet(th)
<1>1. ASSUME NEW e, NEW o, NEW who, NEW ok, e \notin {"panel", "panel_verify"}
      PROVE  R(e, o, who, ok).event \notin {"panel", "panel_verify"}
  BY <1>1 DEF R
<1>2. ASSUME NEW e, e \notin {"panel", "panel_verify"}
      PROVE  Plain(e).event \notin {"panel", "panel_verify"}
  BY <1>2 DEF Plain, R
<1>3. CASE Generate(th)
  <2> DEFINE before == <<Plain("classify"), Plain("gate")>>
  <2>1. Mute(before) /\ Mute(<<Plain("refuse")>>)
    BY <1>2, MuteIn
  <2>2. \A o : Mute(<<R("dispatch", o, {}, TRUE)>>)
               /\ Mute(<<R("dispatch", o, {}, TRUE), R("generate", o, {}, TRUE)>>)
    BY <1>1, MuteIn
  <2>3. /\ Mute(before \o <<Plain("refuse")>>)
        /\ \A o : /\ Mute(before \o <<R("dispatch", o, {}, TRUE)>>)
                  /\ Mute(before \o <<R("dispatch", o, {}, TRUE), R("generate", o, {}, TRUE)>>)
    <3> HIDE DEF before
    <3> QED
      BY <2>1, <2>2, MuteJoined
  <2>4. \/ Wrote(th, before \o <<Plain("refuse")>>)
        \/ \E o : \/ Wrote(th, before \o <<R("dispatch", o, {}, TRUE)>>)
                  \/ Wrote(th, before \o <<R("dispatch", o, {}, TRUE), R("generate", o, {}, TRUE)>>)
    BY <1>3, Zenon DEF Generate
  <2> HIDE DEF before
  <2> QED
    BY <2>3, <2>4, Zenon DEF Quiet
<1>4. CASE Claim(th)
  <2>1. \A o, b : R("verify", o, {}, b).event \notin {"panel", "panel_verify"}
    BY <1>1
  <2>2. Plain("refuse").event \notin {"panel", "panel_verify"}
    BY <1>2
  <2>3. \A o, b : /\ Mute(<<R("verify", o, {}, b)>>)
                  /\ Mute(<<R("verify", o, {}, b), Plain("refuse")>>)
    BY <2>1, <2>2, MuteIn
  <2>4. \/ Wrote(th, <<R("verify", Chosen(th), {}, TRUE)>>)
        \/ Wrote(th, <<R("verify", Chosen(th), {}, FALSE), Plain("refuse")>>)
    BY <1>4, Zenon DEF Claim
  <2> QED
    BY <2>3, <2>4, Zenon DEF Quiet
<1>5. CASE NextSubtask(th)
  <2>1. Mute(<<Plain("synthesize")>>) /\ Mute(<<>>)
    BY <1>2, MuteIn
  <2>2. trace' = trace \/ Wrote(th, <<Plain("synthesize")>>) \/ Wrote(th, <<>>)
    BY <1>5 DEF NextSubtask
  <2> QED
    BY <2>1, <2>2, Zenon DEF Quiet
<1>6. CASE AskPeer(th)
  <2>1. trace' = trace
    BY <1>6, Zenon DEF AskPeer
  <2> QED
    BY <2>1 DEF Quiet
<1> QED
  BY <1>3, <1>4, <1>5, <1>6 DEF Route, Quiet, StartRoute, Judge, ScoreSelf, StartCross, CrossRecord, CrossDone

(* What a panel record says is sound.                                      *)
PanelOK(t) == /\ Sound(t.who, t.object)
              /\ ~t.ok => \A o \in t.rejected : ~Sound(t.who \union {o}, t.object)

(* ... so panels stay sound if those that are added are.                   *)
LEMMA PanelsKept ==
    ASSUME TraceOK, PanelsAreSound, NEW th \in Threads, Prolongs(trace[th], trace'[th]),
           \A u \in Threads \ {th} : trace'[u] = trace[u],
           \A j \in Newer(trace[th], trace'[th]) : trace'[th][j].event = "panel" => PanelOK(trace'[th][j])
    PROVE  PanelsAreSound'
<1>1. \A u \in Threads : \A i \in DOMAIN trace[u] : trace[u][i].event = "panel" => PanelOK(trace[u][i])
  BY DEF PanelsAreSound, PanelOK
<1>2. ASSUME NEW u \in Threads, NEW i \in DOMAIN trace'[u], trace'[u][i].event = "panel"
      PROVE  PanelOK(trace'[u][i])
  <2>1. CASE u # th
    BY <1>1, <1>2, <2>1
  <2>2. CASE u = th
    <3>1. \/ i \in DOMAIN trace[th] /\ trace'[th][i] = trace[th][i]
          \/ i \in Newer(trace[th], trace'[th])
      BY <2>2 DEF Prolongs, Newer
    <3> QED
      BY <1>1, <1>2, <2>2, <3>1
  <2> QED
    BY <2>1, <2>2
<1> QED
  BY <1>2 DEF PanelsAreSound, PanelOK

(* What a quiet step leaves answered.                                      *)
LEMMA QuietAnswers ==
    ASSUME TraceOK, PanelsAreSound, NEW th \in Threads, Quiet(th), ResultOK(th), mode' = mode
    PROVE  /\ \A d, k : AllAnswered(trace[th], d, k, mode) => AllAnswered(trace'[th], d, k, mode)
           /\ \A u \in Threads \ {th} : trace'[u] = trace[u]
           /\ PanelsAreSound'
           /\ results'[th] = results[th] /\ pc'[th] # "scoring" => ResultOK(th)'
<1>1. /\ Prolongs(trace[th], trace'[th]) /\ \A u \in Threads \ {th} : trace'[u] = trace[u]
      /\ Silent(trace[th], trace'[th])
      /\ \A j \in Newer(trace[th], trace'[th]) : trace'[th][j].event # "panel"
  BY QuietProlongs
<1>2. PICK t, u, m : t = trace[th] /\ u = trace'[th] /\ m = mode
  OBVIOUS
<1>3. \A o : Answered(t, o, m) => Answered(u, o, m)
  BY <1>1, <1>2, AnswersKept
<1>4. \A d, k : AllAnswered(t, d, k, m) => AllAnswered(u, d, k, m)
  BY <1>3 DEF AllAnswered
<1>5. PanelsAreSound'
  BY <1>1, PanelsKept
<1>6. results'[th] = results[th] /\ pc'[th] # "scoring" => ResultOK(th)'
  BY <1>1, ResultKept
<1> QED
  BY <1>1, <1>2, <1>4, <1>5, <1>6

(* Whom a query may be dispatched to is one of the objects.                *)
LEMMA ChosenObject ==
    ASSUME NEW topic, NEW q, Capable(topic, q) # {}, NEW o \in Choices(topic, q)
    PROVE  o \in {Objects[i] : i \in DOMAIN Objects}
<1> DEFINE C == Capable(topic, q)
           At == {i \in DOMAIN Objects : Objects[i] \in C}
           first == CHOOSE i \in DOMAIN Objects : /\ Objects[i] \in C
                            /\ \A j \in 1..(i - 1) : Objects[j] \notin C
<1>1. C \subseteq {Objects[i] : i \in DOMAIN Objects} /\ C # {}
  BY DEF Capable, Gated, Pool, Range1
<1>2. DOMAIN Objects = 1..Len(Objects) /\ Len(Objects) \in Nat
  BY RouterAssumption, SeqIs DEF IsSeq
<1>3. \E i \in DOMAIN Objects : /\ Objects[i] \in C
                                /\ \A j \in 1..(i - 1) : Objects[j] \notin C
  <2>1. At # {} /\ At \subseteq Nat /\ At \subseteq 1..Len(Objects)
    BY <1>1, <1>2
  <2>2. PICK i \in At : \A k \in At : ~(<<k, i>> \in OpToRel(<, Nat))
    <3> HIDE DEF At
    <3> QED
      BY <2>1, NatLessThanWellFounded, WFMin
  <2>3. \A k \in At : ~(k < i)
    BY <2>1, <2>2 DEF OpToRel
  <2>4. ASSUME NEW j \in 1..(i - 1), Objects[j] \in C PROVE FALSE
    <3>1. i \in 1..Len(Objects) /\ j \in DOMAIN Objects /\ j < i
      BY <1>2, <2>1
    <3> QED
      BY <2>3, <2>4, <3>1
  <2> QED
    BY <2>4
<1>4. first \in DOMAIN Objects
  BY <1>3
<1>5. o \in C \/ o = Objects[first]
  <2>1. Choices(topic, q) \in {{q.prefer}, History(topic) \intersect C, {Objects[first]}}
    BY DEF Choices
  <2>2. Choices(topic, q) = {q.prefer} => q.prefer \in C \/ o = Objects[first]
    BY Zenon DEF Choices
  <2> QED
    BY <2>1, <2>2
<1> QED
  BY <1>1, <1>4, <1>5

(* The generators of a plan after one more.                                *)
LEMMA DoneGrown ==
    ASSUME NEW l, IsPlan(l), NEW x, NEW m, m = [l EXCEPT !.done = Append(@, x)]
    PROVE  /\ Len(l.done) \in Nat /\ Len(m.done) = Len(l.done) + 1
           /\ \A i \in 1..Len(l.done) : m.done[i] = l.done[i]
           /\ m.done[Len(l.done) + 1] = x
<1>1. m.done = Append(l.done, x)
  <2>1. PICK a, d : l = [sub |-> a, done |-> d]
    BY DEF IsPlan
  <2>2. m = [sub |-> a, done |-> Append(d, x)]
    BY ONLY m = [l EXCEPT !.done = Append(@, x)], <2>1
  <2> QED
    BY <2>1, <2>2
<1>2. PICK d, e : d = l.done /\ e = Append(d, x)
  OBVIOUS
<1>3. /\ Len(d) \in Nat /\ Len(e) = Len(d) + 1
      /\ \A i \in 1..Len(d) : e[i] = d[i]
      /\ e[Len(d) + 1] = x
  BY <1>2, SeqAppended DEF IsPlan
<1> QED
  BY <1>1, <1>2, <1>3

(* ... and with one who is being asked removed.                            *)
LEMMA DoneAsked ==
    ASSUME NEW l, IsPlan(l), Len(l.done) > 1, NEW v, NEW m,
           m = [l EXCEPT !.done[Len(l.done)] = @ \ {v}]
    PROVE  /\ Len(l.done) \in Nat /\ Len(m.done) = Len(l.done)
           /\ \A i \in 1..(Len(l.done) - 1) : m.done[i] = l.done[i]
           /\ m.done[Len(l.done)] = l.done[Len(l.done)] \ {v}
<1>1. PICK a, d : l = [sub |-> a, done |-> d]
  BY DEF IsPlan
<1>2. PICK n : n = Len(d)
  OBVIOUS
<1>3. m = [sub |-> a, done |-> [d EXCEPT ![n] = d[n] \ {v}]]
  <2>1. l.done = d /\ Len(l.done) = n
    BY <1>1, <1>2
  <2>2. m = [l EXCEPT !.done[n] = @ \ {v}]
    BY <2>1
  <2> QED
    BY ONLY <2>2, <1>1
<1>4. PICK e : e = [d EXCEPT ![n] = d[n] \ {v}]
  OBVIOUS
<1>5. /\ n \in Nat /\ n > 1 /\ DOMAIN d = 1..n /\ IsSeq(d)
  BY <1>1, <1>2, SeqIs DEF IsPlan
<1>6. IsSeq(e) /\ Len(e) = n /\ DOMAIN e = 1..n
  <2>1. PICK y : y = d[n] \ {v}
    OBVIOUS
  <2>2. n \in DOMAIN d
    BY <1>5
  <2>3. IsSeq([d EXCEPT ![n] = y]) /\ Len([d EXCEPT ![n] = y]) = Len(d)
    BY ONLY <1>5, <2>2, SeqReplaced
  <2>4. IsSeq(e) /\ Len(e) = Len(d)
    BY <1>4, <2>1, <2>3
  <2> QED
    BY <1>2, <2>4, SeqIs
<1>7. (\A i \in 1..(n - 1) : e[i] = d[i]) /\ e[n] = d[n] \ {v}
  BY <1>4, <1>5
<1>8. m.done = e /\ l.done = d
  <2>1. m = [sub |-> a, done |-> e]
    BY <1>3, <1>4, Zenon
  <2> QED
    BY <1>1, <2>1
<1> QED
  BY <1>2, <1>5, <1>6, <1>7, <1>8

(* ... and without the panel, once it has been asked.                      *)
LEMMA DoneCut ==
    ASSUME NEW l, IsPlan(l), Len(l.done) > 1, NEW m,
           m = [l EXCEPT !.done = SubSeq(@, 1, Len(@) - 1)]
    PROVE  /\ Len(l.done) \in Nat /\ Len(m.done) = Len(l.done) - 1
           /\ \A i \in 1..(Len(l.done) - 1) : m.done[i] = l.done[i]
<1>1. PICK a, d : l = [sub |-> a, done |-> d]
  BY DEF IsPlan
<1>2. m = [sub |-> a, done |-> SubSeq(d, 1, Len(d) - 1)]
  BY <1>1, PlanCut, Zenon
<1>3. IsSeq(d) /\ Len(d) > 1
  BY <1>1 DEF IsPlan
<1>4. PICK S : d \in Seq(S)
  BY <1>3 DEF IsSeq
<1>5. PICK e : e = SubSeq(d, 1, Len(d) - 1)
  OBVIOUS
<1>6. Len(d) \in Nat /\ Len(e) = Len(d) - 1 /\ \A i \in 1..(Len(d) - 1) : e[i] = d[i]
  BY <1>3, <1>4, <1>5
<1>7. m.done = e /\ l.done = d
  BY <1>1, <1>2, <1>5
<1> QED
  BY <1>6, <1>7

(* What every step of a route has to keep.                                 *)
StillVouched(th) ==
    /\ UnderwayOK(th)' /\ ResultOK(th)' /\ PanelsAreSound'
    /\ \A u \in Threads \ {th} : trace'[u] = trace[u]

(* The call stays the same inside it.                                      *)
LEMMA SameCall ==
    ASSUME Placed, NEW th \in Threads, NEW p, NEW l, Goto(th, p, l)
    PROVE  Moved(th) /\ pc'[th] = p /\ loc'[th] = l /\ Call(th)' = Call(th)
<1>1. Moved(th) /\ pc'[th] = p /\ loc'[th] = l /\ at' = at
  BY GotoIs
<1> QED
  BY <1>1 DEF Call, Moved

(* A quiet step to where nothing has to be vouched.                        *)
LEMMA VouchQuietly ==
    ASSUME TraceOK, PanelsAreSound, Placed, NEW th \in Threads, ResultOK(th), mode' = mode,
           Quiet(th), results'[th] = results[th],
           \/ Return(th)
           \/ \E p \in Unbound : \E l : Goto(th, p, l)
           \/ \E e : Goto(th, "apply", e) /\ e[2] # "verified"
    PROVE  StillVouched(th)
<1>1. \/ pc'[th] \in Unbound
      \/ pc'[th] \in {"apply", "journal", "witness"} /\ loc'[th][2] # "verified"
  BY ReturnIs, GotoIs DEF Unbound
<1>2. UnderwayOK(th)' /\ pc'[th] # "scoring"
  BY <1>1, UnboundOK
<1> QED
  BY <1>2, QuietAnswers DEF StillVouched

(* A quiet step to where all generators done are vouched for.              *)
LEMMA VouchAll ==
    ASSUME TraceOK, PanelsAreSound, Placed, NEW th \in Threads, ResultOK(th), mode' = mode,
           Quiet(th), results'[th] = results[th],
           NEW p \in {"subtask", "subtaskDone", "verified"}, NEW l, Goto(th, p, l),
           Checked(Call(th), mode) => AllAnswered(trace[th], l.done, 0, mode)
    PROVE  StillVouched(th)
<1>1. pc'[th] = p /\ loc'[th] = l /\ Call(th)' = Call(th)
  BY SameCall
<1>2. PICK c, m, u, t : c = Call(th) /\ m = mode /\ u = trace'[th] /\ t = trace[th]
  OBVIOUS
<1>3. Call(th)' = c /\ mode' = m
  BY <1>1, <1>2
<1>4. /\ \A d, k : AllAnswered(t, d, k, m) => AllAnswered(u, d, k, m)
      /\ \A v \in Threads \ {th} : trace'[v] = trace[v]
      /\ PanelsAreSound' /\ ResultOK(th)'
  BY <1>1, <1>2, QuietAnswers
<1>5. Checked(c, m) => AllAnswered(u, l.done, 0, m)
  BY <1>2, <1>4
<1>6. Checked(c, m) => DoneOK(th)'
  BY <1>1, <1>2, <1>3, <1>5 DEF DoneOK
<1>7. UnderwayOK(th)'
  BY <1>1, <1>2, <1>3, <1>6 DEF UnderwayOK
<1> QED
  BY <1>4, <1>7 DEF StillVouched

(* Dispatch and generation.                                                *)
LEMMA VouchGenerate ==
    ASSUME TraceOK, PanelsAreSound, Placed, NEW th \in Threads, UnderwayOK(th), ResultOK(th),
           RoutedOK(th), mode' = mode, Quiet(th), Generate(th)
    PROVE  StillVouched(th)
<1>1. pc[th] = "subtask" /\ results'[th] = results[th] /\ IsPlan(loc[th])
  BY DEF Generate, RoutedOK, Routing
<1>2. CASE Return(th)
  BY <1>1, <1>2, VouchQuietly
<1>3. ASSUME ~Return(th)
      PROVE  \E o \in {Objects[i] : i \in DOMAIN Objects} :
                Goto(th, IF ~Call(th).verify THEN "subtaskDone" ELSE IF mode = "self" THEN "self" ELSE "panel",
                     [loc[th] EXCEPT !.done = Append(@, o)])
  <2>1. Capable(Topic(th), Call(th)) # {} /\ \E o \in Choices(Topic(th), Call(th)) :
                Goto(th, IF ~Call(th).verify THEN "subtaskDone" ELSE IF mode = "self" THEN "self" ELSE "panel",
                     [loc[th] EXCEPT !.done = Append(@, o)])
    BY <1>3, Zenon DEF Generate
  <2> QED
    BY <2>1, ChosenObject
<1>4. CASE ~Return(th)
  <2>1. PICK o \in {Objects[i] : i \in DOMAIN Objects} :
                Goto(th, IF ~Call(th).verify THEN "subtaskDone" ELSE IF mode = "self" THEN "self" ELSE "panel",
                     [loc[th] EXCEPT !.done = Append(@, o)])
    BY <1>3, <1>4
  <2>2. PICK c, m, u, t, l, k : /\ c = Call(th) /\ m = mode /\ u = trace'[th] /\ t = trace[th] /\ l = loc[th]
                                /\ k = [l EXCEPT !.done = Append(@, o)]
    OBVIOUS
  <2>3. PICK p : p = IF ~c.verify THEN "subtaskDone" ELSE IF m = "self" THEN "self" ELSE "panel"
    OBVIOUS
  <2>4. Goto(th, p, k)
    BY <2>1, <2>2, <2>3
  <2>5. pc'[th] = p /\ loc'[th] = k /\ Call(th)' = c /\ mode' = m
    BY <2>2, <2>4, SameCall
  <2>6. /\ Len(l.done) \in Nat /\ Len(k.done) = Len(l.done) + 1
        /\ \A i \in 1..Len(l.done) : k.done[i] = l.done[i]
        /\ k.done[Len(l.done) + 1] = o
    BY <1>1, <2>2, DoneGrown
  <2>7. Chosen(th)' = o
    BY <2>5, <2>6 DEF Chosen
  <2>8. /\ \A d, n : AllAnswered(t, d, n, m) => AllAnswered(u, d, n, m)
        /\ \A v \in Threads \ {th} : trace'[v] = trace[v]
        /\ PanelsAreSound' /\ ResultOK(th)'
    BY <1>1, <2>2, <2>3, <2>5, QuietAnswers
  <2>9. ASSUME Checked(c, m) PROVE DoneOK(th)'
    <3>1. AllAnswered(u, l.done, 0, m) /\ p = "panel"
      BY <1>1, <2>2, <2>3, <2>8, <2>9 DEF UnderwayOK, DoneOK, Checked
    <3>2. AllAnswered(u, k.done, 1, m)
      BY <2>6, <3>1 DEF AllAnswered
    <3> QED
      BY <2>2, <2>5, <3>1, <3>2 DEF DoneOK
  <2>10. UnderwayOK(th)'
    BY <2>3, <2>5, <2>7, <2>9 DEF UnderwayOK
  <2> QED
    BY <2>8, <2>10 DEF StillVouched
<1> QED
  BY <1>2, <1>4

(* The record of a panel is sound, ...                                     *)
LEMMA PanelRecordOK ==
    ASSUME NEW th \in Threads, Chosen(th) \in {Objects[i] : i \in DOMAIN Objects},
           NEW panel, panel = SelectVerifiers(Objects, Candidates(th), Chosen(th)),
           NEW rec, rec = PanelRecord(th, panel)
    PROVE  /\ PanelOK(rec) /\ rec.event = "panel" /\ rec.object = Chosen(th) /\ rec.who = panel
           /\ Chosen(th) \notin panel /\ Cardinality(panel) \in Nat
<1>1. PICK g, C : g = Chosen(th) /\ C = Candidates(th)
  OBVIOUS
<1>2. g \in DOMAIN Prov /\ IsSeq(Objects) /\ \A i \in DOMAIN Objects : Objects[i] \in DOMAIN Prov
  BY <1>1, RouterAssumption DEF IsSeq
<1>3. C \subseteq {Objects[i] : i \in DOMAIN Objects}
  BY <1>1 DEF Candidates, Capable, Gated, Pool, Range1
<1>4. panel = SelectVerifiers(Objects, C, g)
  BY <1>1
<1>5. /\ IsFiniteSet(panel) /\ g \notin panel /\ Sound(panel, g)
      /\ Cardinality(panel) < PanelK => \A o \in C \ panel : ~Sound(panel \union {o}, g)
  BY <1>2, <1>3, <1>4, PanelIsSound
<1>6. Cardinality(panel) \in Nat /\ PanelK \in Nat
  BY <1>5, FS_CardinalityType, DiversityAssumption
<1>7. /\ rec.event = "panel" /\ rec.object = g /\ rec.who = panel
      /\ rec.ok = (Cardinality(panel) >= PanelK) /\ rec.rejected = C \ panel
  BY <1>1 DEF PanelRecord
<1>8. PanelOK(rec)
  <2>1. ~rec.ok => Cardinality(panel) < PanelK
    <3>1. Cardinality(panel) >= PanelK \/ Cardinality(panel) < PanelK
      BY <1>6
    <3> QED
      BY <1>7, <3>1, Zenon
  <2>2. ASSUME ~rec.ok, NEW o \in rec.rejected PROVE ~Sound(rec.who \union {o}, rec.object)
    <3>1. PICK q : q = panel \union {o}
      OBVIOUS
    <3>2. ~Sound(q, g)
      BY <1>5, <1>7, <2>1, <2>2, <3>1
    <3> QED
      BY <1>7, <3>1, <3>2
  <2>3. Sound(rec.who, rec.object)
    BY <1>5, <1>7, Zenon
  <2> QED
    BY <2>2, <2>3 DEF PanelOK
<1> QED
  BY <1>1, <1>5, <1>6, <1>7, <1>8

(* ... and leaves the panels of the trace sound, and what is answered      *)
(* settled.                                                                *)
LEMMA PanelWritten ==
    ASSUME TraceOK, PanelsAreSound, NEW th \in Threads, NEW recs, IsSeq(recs), Wrote(th, recs),
           1 \in DOMAIN recs, recs[1].event = "panel", PanelOK(recs[1]),
           \A i \in DOMAIN recs : i # 1 => recs[i].event \notin {"panel", "panel_verify"}
    PROVE  /\ Prolongs(trace[th], trace'[th]) /\ Silent(trace[th], trace'[th])
           /\ Len(trace'[th]) = Len(trace[th]) + Len(recs)
           /\ Len(trace[th]) + 1 \in Newer(trace[th], trace'[th])
           /\ trace'[th][Len(trace[th]) + 1] = recs[1]
           /\ PanelsAreSound' /\ \A u \in Threads \ {th} : trace'[u] = trace[u]
<1>1. PICK t, u : t = trace[th] /\ u = trace'[th]
  OBVIOUS
<1>2. /\ Prolongs(t, u) /\ \A v \in Threads \ {th} : trace'[v] = trace[v]
      /\ Len(u) = Len(t) + Len(recs)
      /\ \A j \in Newer(t, u) : j - Len(t) \in DOMAIN recs /\ u[j] = recs[j - Len(t)]
  BY <1>1, WroteProlongs
<1>3. Len(t) \in Nat /\ Len(recs) \in Nat /\ DOMAIN recs = 1..Len(recs)
  BY <1>2, SeqIs DEF Prolongs
<1>4. Len(t) + 1 \in Newer(t, u) /\ (Len(t) + 1) - Len(t) = 1
  BY <1>2, <1>3 DEF Newer
<1>5. u[Len(t) + 1] = recs[1]
  BY <1>2, <1>4
<1>6. ASSUME NEW j \in Newer(t, u)
      PROVE  u[j].event # "panel_verify" /\ (u[j].event = "panel" => PanelOK(u[j]))
  <2>1. PICK i \in DOMAIN recs : u[j] = recs[i]
    BY <1>2
  <2> QED
    BY <2>1
<1>7. Silent(t, u)
  BY <1>6 DEF Silent
<1>8. PanelsAreSound'
  BY <1>1, <1>2, <1>6, PanelsKept
<1> QED
  BY <1>1, <1>2, <1>4, <1>5, <1>7, <1>8

(* The choice of a panel.                                                  *)
LEMMA VouchSelect ==
    ASSUME TraceOK, PanelsAreSound, Placed, NEW th \in Threads, UnderwayOK(th), ResultOK(th),
           RoutedOK(th), mode' = mode, SelectPanel(th)
    PROVE  StillVouched(th)
<1>1. /\ pc[th] = "panel" /\ results'[th] = results[th] /\ IsPlan(loc[th]) /\ Len(loc[th].done) > 0
      /\ Chosen(th) \in {Objects[i] : i \in DOMAIN Objects}
  BY DEF SelectPanel, RoutedOK, Routing, UnderwayOK
<1>2. PICK panel, rec, no : /\ panel = SelectVerifiers(Objects, Candidates(th), Chosen(th))
                            /\ rec = PanelRecord(th, panel) /\ no = Plain("refuse")
  OBVIOUS
<1>3. \/ Return(th) /\ trace' = trace
      \/ Wrote(th, <<rec, no>>) /\ Return(th)
      \/ Wrote(th, <<rec>>) /\ Return(th)
      \/ /\ Wrote(th, <<rec>>) /\ panel # {} /\ ~(Cardinality(panel) < PanelK /\ mode = "strict")
         /\ Goto(th, "scoring", [loc[th] EXCEPT !.done = Append(@, panel)])
  BY <1>2, Zenon DEF SelectPanel
<1>4. /\ PanelOK(rec) /\ rec.event = "panel" /\ rec.object = Chosen(th) /\ rec.who = panel
      /\ Chosen(th) \notin panel /\ Cardinality(panel) \in Nat
  BY <1>1, <1>2, PanelRecordOK
<1>5. no.event \notin {"panel", "panel_verify"}
  BY <1>2 DEF Plain, R
<1>6. ASSUME NEW recs, Wrote(th, recs), recs = <<rec, no>> \/ recs = <<rec>>
      PROVE  /\ Prolongs(trace[th], trace'[th]) /\ Silent(trace[th], trace'[th])
             /\ Len(trace'[th]) = Len(trace[th]) + Len(recs)
             /\ Len(trace[th]) + 1 \in Newer(trace[th], trace'[th])
             /\ trace'[th][Len(trace[th]) + 1] = rec
             /\ PanelsAreSound' /\ \A u \in Threads \ {th} : trace'[u] = trace[u]
  <2>1. /\ IsSeq(recs) /\ 1 \in DOMAIN recs /\ recs[1] = rec
        /\ \A i \in DOMAIN recs : i # 1 => recs[i] = no
    BY <1>6, SeqOfOne, SeqOfTwo
  <2> QED
    BY <1>4, <1>5, <1>6, <2>1, PanelWritten
<1>7. CASE Return(th) /\ trace' = trace
  BY <1>1, <1>7, VouchQuietly DEF Quiet
<1>8. ASSUME Return(th), NEW recs, Wrote(th, recs), recs = <<rec, no>> \/ recs = <<rec>>
      PROVE  StillVouched(th)
  <2>1. pc'[th] = "idle"
    BY <1>8, ReturnIs
  <2>2. UnderwayOK(th)'
    BY <2>1, UnboundOK DEF Unbound
  <2>3. ResultOK(th)'
    BY <1>1, <1>6, <1>8, <2>1, ResultKept
  <2> QED
    BY <1>6, <1>8, <2>2, <2>3 DEF StillVouched
<1>9. ASSUME Wrote(th, <<rec>>), panel # {}, ~(Cardinality(panel) < PanelK /\ mode = "strict"),
             Goto(th, "scoring", [loc[th] EXCEPT !.done = Append(@, panel)])
      PROVE  StillVouched(th)
  <2>1. PICK c, m, u, t, l, k, o :
            /\ c = Call(th) /\ m = mode /\ u = trace'[th] /\ t = trace[th] /\ l = loc[th]
            /\ k = [l EXCEPT !.done = Append(@, panel)] /\ o = Chosen(th)
    OBVIOUS
  <2>2. Goto(th, "scoring", k)
    BY <1>9, <2>1
  <2>3. pc'[th] = "scoring" /\ loc'[th] = k /\ Call(th)' = c /\ mode' = m
    BY <2>1, <2>2, SameCall
  <2>4. /\ Len(l.done) \in Nat /\ Len(k.done) = Len(l.done) + 1 /\ Len(l.done) > 0
        /\ \A i \in 1..Len(l.done) : k.done[i] = l.done[i]
        /\ k.done[Len(l.done) + 1] = panel
    BY <1>1, <2>1, DoneGrown
  <2>5. Generator(th)' = o /\ Asked(th)' = panel
    BY <2>1, <2>3, <2>4 DEF Generator, Asked, Chosen
  <2>6. PICK recs : recs = <<rec>>
    OBVIOUS
  <2>7. Len(recs) = 1 /\ Wrote(th, recs)
    BY <1>9, <2>6, SeqOfOne
  <2>8. /\ Prolongs(t, u) /\ Silent(t, u) /\ Len(u) = Len(t) + 1
        /\ Len(t) + 1 \in Newer(t, u) /\ u[Len(t) + 1] = rec
        /\ PanelsAreSound' /\ \A v \in Threads \ {th} : trace'[v] = trace[v]
    BY <1>6, <2>1, <2>6, <2>7
  <2>9. \E q \in Newer(t, u) : u[q].event = "panel"
    BY <1>4, <2>8
  <2>10. ResultOK(th)'
    BY <1>1, <2>1, <2>8, <2>9, ResultKept
  <2>11. \A x : Answered(t, x, m) => Settled(u, x, m)
    BY <2>8, <2>9, AnswersKept
  <2>12. IsFor(rec, o, m)
    BY <1>4, <1>9, <2>1, DiversityAssumption DEF IsFor
  <2>13. Panelled(u, o, panel, Len(t) + 1, m)
    BY <1>4, <2>8, <2>12 DEF Panelled, Prolongs
  <2>14. ASSUME Checked(c, m) PROVE DoneOK(th)'
    <3>1. AllAnswered(t, l.done, 1, m)
      BY <1>1, <2>1, <2>14 DEF UnderwayOK, DoneOK
    <3>2. ASSUME NEW i \in 1..(Len(k.done) - 2) PROVE Settled(u, k.done[i], m)
      <4>1. i \in 1..(Len(l.done) - 1) /\ i \in 1..Len(l.done)
        BY <2>4
      <4>2. Answered(t, l.done[i], m) /\ k.done[i] = l.done[i]
        BY <2>4, <3>1, <4>1 DEF AllAnswered
      <4> QED
        BY <2>11, <4>2
    <3>3. AllSettled(u, k.done, 2, m)
      BY <3>2 DEF AllSettled
    <3> QED
      BY <2>1, <2>3, <3>3 DEF DoneOK
  <2>15. UnderwayOK(th)'
    BY <2>1, <2>3, <2>5, <2>13, <2>14 DEF UnderwayOK
  <2> QED
    BY <2>8, <2>10, <2>15 DEF StillVouched
<1> QED
  BY <1>3, <1>7, <1>8, <1>9

(* A verdict is added, and who gave it is no longer to be asked.           *)
LEMMA PanelHeard ==
    ASSUME NEW t, NEW u, Prolongs(t, u), Len(u) = Len(t) + 1, NEW o, NEW a, NEW q, NEW m,
           Panelled(t, o, a, q, m), NEW v \in a, NEW rec, rec = u[Len(t) + 1],
           rec.event = "panel_verify", rec.object = o, rec.who = {v}, rec.ok \in BOOLEAN
    PROVE  Panelled(u, o, a \ {v}, q, m)
<1>1. /\ Len(t) \in Nat /\ Len(u) = Len(t) + 1 /\ DOMAIN t = 1..Len(t) /\ DOMAIN u = 1..Len(u)
      /\ \A i \in 1..Len(t) : u[i] = t[i]
  BY DEF Prolongs
<1>2. /\ q \in 1..Len(t) /\ IsFor(t[q], o, m) /\ a \subseteq t[q].who
      /\ \A j \in (q + 1)..Len(t) :
            t[j].event = "panel_verify" /\ t[j].object = o /\ t[j].ok \in BOOLEAN
      /\ \A w \in t[q].who \ a : \E j \in (q + 1)..Len(t) : t[j].who = {w}
  BY <1>1 DEF Panelled
<1>3. u[q] = t[q] /\ q \in DOMAIN u /\ Len(u) \in (q + 1)..Len(u)
  BY <1>1, <1>2
<1>4. ASSUME NEW j \in (q + 1)..Len(u)
      PROVE  u[j].event = "panel_verify" /\ u[j].object = o /\ u[j].ok \in BOOLEAN
  <2>1. j = Len(t) + 1 \/ (j \in (q + 1)..Len(t) /\ u[j] = t[j])
    BY <1>1, <1>2
  <2> QED
    BY <1>2, <2>1
<1>5. ASSUME NEW w \in u[q].who \ (a \ {v}) PROVE \E j \in (q + 1)..Len(u) : u[j].who = {w}
  <2>1. CASE w = v
    BY <1>1, <1>3, <2>1
  <2>2. CASE w # v
    <3>1. PICK j \in (q + 1)..Len(t) : t[j].who = {w}
      BY <1>2, <1>3, <1>5, <2>2
    <3>2. j \in (q + 1)..Len(u) /\ u[j] = t[j]
      BY <1>1, <1>2
    <3> QED
      BY <3>1, <3>2
  <2> QED
    BY <2>1, <2>2
<1> QED
  BY <1>2, <1>3, <1>4, <1>5 DEF Panelled

(* A single record written.                                                *)
LEMMA WroteOne ==
    ASSUME TraceOK, NEW th \in Threads, NEW rec, NEW recs, recs = <<rec>>, Wrote(th, recs)
    PROVE  /\ Prolongs(trace[th], trace'[th]) /\ \A x \in Threads \ {th} : trace'[x] = trace[x]
           /\ Len(trace'[th]) = Len(trace[th]) + 1
           /\ \A j \in Newer(trace[th], trace'[th]) : trace'[th][j] = rec
<1>1. Len(recs) = 1 /\ IsSeq(recs) /\ DOMAIN recs = {1} /\ recs[1] = rec
  BY SeqOfOne
<1>2. /\ Prolongs(trace[th], trace'[th]) /\ \A u \in Threads \ {th} : trace'[u] = trace[u]
      /\ Len(trace'[th]) = Len(trace[th]) + Len(recs)
      /\ \A j \in Newer(trace[th], trace'[th]) :
            j - Len(trace[th]) \in DOMAIN recs /\ trace'[th][j] = recs[j - Len(trace[th])]
  BY <1>1, WroteProlongs
<1>3. ASSUME NEW j \in Newer(trace[th], trace'[th]) PROVE trace'[th][j] = rec
  BY <1>1, <1>2
<1> QED
  BY <1>1, <1>2, <1>3

(* The verdict of a member of the panel.                                   *)
LEMMA VouchScore ==
    ASSUME TraceOK, PanelsAreSound, Placed, NEW th \in Threads, UnderwayOK(th), ResultOK(th),
           RoutedOK(th), mode' = mode, Score(th)
    PROVE  StillVouched(th)
<1>1. /\ pc[th] = "scoring" /\ results'[th] = results[th] /\ IsPlan(loc[th]) /\ Len(loc[th].done) > 1
  BY DEF Score, RoutedOK, Routing
<1>2. CASE Return(th) /\ trace' = trace
  BY <1>1, <1>2, VouchQuietly DEF Quiet
<1>3. ASSUME NEW v \in Asked(th), NEW ok \in BOOLEAN,
             Wrote(th, <<R("panel_verify", Generator(th), {v}, ok)>>),
             Goto(th, "scoring", [loc[th] EXCEPT !.done[Len(loc[th].done)] = @ \ {v}])
      PROVE  StillVouched(th)
  <2>1. PICK c, m, u, t, l, k, g, a :
            /\ c = Call(th) /\ m = mode /\ u = trace'[th] /\ t = trace[th] /\ l = loc[th]
            /\ k = [l EXCEPT !.done[Len(l.done)] = @ \ {v}] /\ g = Generator(th) /\ a = Asked(th)
    OBVIOUS
  <2>2. PICK rec : rec = R("panel_verify", g, {v}, ok)
    OBVIOUS
  <2>3. rec.event = "panel_verify" /\ rec.object = g /\ rec.who = {v} /\ rec.ok = ok
    BY <2>2 DEF R
  <2>4. PICK recs : recs = <<rec>>
    OBVIOUS
  <2>5. Wrote(th, recs) /\ Goto(th, "scoring", k)
    BY <1>3, <2>1, <2>2, <2>4
  <2>6. Len(recs) = 1 /\ IsSeq(recs) /\ DOMAIN recs = {1} /\ recs[1] = rec
    BY <2>4, SeqOfOne
  <2>7. /\ Prolongs(t, u) /\ (\A x \in Threads \ {th} : trace'[x] = trace[x]) /\ Len(u) = Len(t) + 1
        /\ \A j \in Newer(t, u) : u[j] = rec
    <3>1. /\ Prolongs(trace[th], trace'[th]) /\ \A x \in Threads \ {th} : trace'[x] = trace[x]
          /\ Len(trace'[th]) = Len(trace[th]) + 1
          /\ \A j \in Newer(trace[th], trace'[th]) : trace'[th][j] = rec
      BY <2>4, <2>5, WroteOne
    <3>2. t = trace[th] /\ u = trace'[th]
      BY <2>1
    <3> QED
      BY ONLY <3>1, <3>2
  <2>8. Len(t) + 1 \in Newer(t, u) /\ u[Len(t) + 1] = rec
    BY <2>7 DEF Newer, Prolongs
  <2>9. pc'[th] = "scoring" /\ loc'[th] = k /\ Call(th)' = c /\ mode' = m
    BY <2>1, <2>5, SameCall
  <2>10. /\ Len(l.done) \in Nat /\ Len(k.done) = Len(l.done) /\ Len(l.done) > 1
         /\ \A i \in 1..(Len(l.done) - 1) : k.done[i] = l.done[i]
         /\ k.done[Len(l.done)] = l.done[Len(l.done)] \ {v}
    BY <1>1, <2>1, DoneAsked
  <2>11. g = l.done[Len(l.done) - 1] /\ a = l.done[Len(l.done)]
    BY <2>1 DEF Generator, Asked
  <2>12. Generator(th)' = g /\ Asked(th)' = a \ {v}
    BY <2>9, <2>10, <2>11 DEF Generator, Asked
  <2>13. PICK q : Panelled(t, g, a, q, m)
    BY <1>1, <2>1 DEF UnderwayOK
  <2>14. Panelled(u, g, a \ {v}, q, m)
    BY <1>3, <2>1, <2>3, <2>7, <2>8, <2>13, PanelHeard
  <2>15. PanelsAreSound'
    BY <2>1, <2>3, <2>7, PanelsKept
  <2>16. ResultOK(th)'
    BY <1>1, <2>1, <2>7, ResultKept
  <2>17. ASSUME Checked(c, m) PROVE DoneOK(th)'
    <3>1. AllSettled(t, l.done, 2, m)
      BY <1>1, <2>1, <2>17 DEF UnderwayOK, DoneOK
    <3>2. \A x : Settled(t, x, m) => Settled(u, x, m)
      BY <2>7, AnswersKept
    <3>3. ASSUME NEW i \in 1..(Len(k.done) - 2) PROVE Settled(u, k.done[i], m)
      <4>1. i \in 1..(Len(l.done) - 2) /\ i \in 1..(Len(l.done) - 1)
        BY <2>10
      <4> QED
        BY <2>10, <3>1, <3>2, <4>1 DEF AllSettled
    <3>4. AllSettled(u, k.done, 2, m)
      BY <3>3 DEF AllSettled
    <3> QED
      BY <2>1, <2>9, <3>4 DEF DoneOK
  <2>18. UnderwayOK(th)'
    BY <2>1, <2>9, <2>12, <2>14, <2>17 DEF UnderwayOK
  <2> QED
    BY <2>7, <2>15, <2>16, <2>18 DEF StillVouched
<1> QED
  BY <1>2, <1>3, Zenon DEF Score

(* The verdicts that are judged are those after the panel.                 *)
LEMMA LastPanel ==
    ASSUME NEW th \in Threads, NEW t, t = trace[th], Len(t) \in Nat, DOMAIN t = 1..Len(t),
           NEW o, NEW a, NEW q, NEW m, Panelled(t, o, a, q, m), Unanimous(Verdicts(th))
    PROVE  \A j \in (q + 1)..Len(t) : t[j].ok
<1> DEFINE lastPanel == CHOOSE i \in DOMAIN t : /\ t[i].event = "panel"
                              /\ \A j \in DOMAIN t : t[j].event = "panel" => j <= i
<1>1. /\ q \in 1..Len(t) /\ t[q].event = "panel"
      /\ \A j \in (q + 1)..Len(t) : t[j].event = "panel_verify" /\ t[j].ok \in BOOLEAN
  BY DEF Panelled, IsFor
<1>2. ASSUME NEW j \in DOMAIN t, t[j].event = "panel" PROVE j <= q
  <2>1. j <= q \/ j \in (q + 1)..Len(t)
    BY <1>1
  <2> QED
    BY <1>1, <1>2, <2>1
<1>3. /\ lastPanel \in DOMAIN t /\ t[lastPanel].event = "panel"
      /\ \A j \in DOMAIN t : t[j].event = "panel" => j <= lastPanel
  <2>1. q \in DOMAIN t /\ t[q].event = "panel" /\ \A j \in DOMAIN t : t[j].event = "panel" => j <= q
    BY <1>1, <1>2
  <2> QED
    BY <2>1, Zenon
<1>4. Verdicts(th) = {t[i].ok : i \in {i \in DOMAIN t : i > lastPanel /\ t[i].event = "panel_verify"}}
  BY DEF Verdicts
<1> HIDE DEF lastPanel
<1>5. lastPanel = q
  BY <1>1, <1>2, <1>3
<1>6. ASSUME NEW j \in (q + 1)..Len(t) PROVE t[j].ok
  <2>1. j \in DOMAIN t /\ j > q
    BY <1>1
  <2>2. t[j].ok \in Verdicts(th)
    BY <1>1, <1>4, <1>5, <2>1
  <2> QED
    BY <1>1, <2>2 DEF Unanimous
<1> QED
  BY <1>6

(* The judgement of a panel.                                               *)
LEMMA VouchJudge ==
    ASSUME TraceOK, PanelsAreSound, Placed, NEW th \in Threads, UnderwayOK(th), ResultOK(th),
           RoutedOK(th), mode' = mode, Judge(th)
    PROVE  StillVouched(th)
<1>1. /\ pc[th] = "scoring" /\ results'[th] = results[th] /\ IsPlan(loc[th]) /\ Len(loc[th].done) > 1
      /\ trace' = trace /\ Asked(th) = {}
  BY DEF Judge, RoutedOK, Routing
<1>2. PICK ok, c, m, t, l, k, g, then :
          /\ ok = Unanimous(Verdicts(th)) /\ c = Call(th) /\ m = mode /\ t = trace[th] /\ l = loc[th]
          /\ k = [l EXCEPT !.done = SubSeq(@, 1, Len(@) - 1)] /\ g = Generator(th)
          /\ then = IF ok THEN "verified" ELSE "rejected"
  OBVIOUS
<1>3. PICK e : e = Emission(Verdict(Topic(th), g, ok), then, k)
  OBVIOUS
<1>4. Goto(th, "apply", e)
  BY <1>2, <1>3 DEF Judge
<1>5. e[2] = then /\ e[3] = k
  BY <1>3 DEF Emission
<1>6. CASE ~ok
  <2>1. e[2] # "verified"
    BY <1>2, <1>5, <1>6
  <2>2. Quiet(th)
    BY <1>1 DEF Quiet
  <2> QED
    BY <1>1, <1>4, <2>1, <2>2, VouchQuietly
<1>7. CASE ok
  <2>1. IsSeq(t) /\ Len(t) \in Nat /\ DOMAIN t = 1..Len(t)
    BY <1>2, SeqIs DEF TraceOK
  <2>2. PICK q : Panelled(t, g, {}, q, m)
    BY <1>1, <1>2 DEF UnderwayOK
  <2>3. \A j \in (q + 1)..Len(t) : t[j].ok
    BY <1>2, <1>7, <2>1, <2>2, LastPanel
  <2>4. Answered(t, g, m)
    BY <2>1, <2>2, <2>3, PanelVouches
  <2>5. /\ Len(l.done) \in Nat /\ Len(k.done) = Len(l.done) - 1 /\ Len(l.done) > 1
        /\ \A i \in 1..(Len(l.done) - 1) : k.done[i] = l.done[i]
    BY <1>1, <1>2, DoneCut
  <2>6. g = l.done[Len(l.done) - 1]
    BY <1>2 DEF Generator
  <2>7. pc'[th] = "apply" /\ loc'[th] = e /\ Call(th)' = c /\ mode' = m
    BY <1>2, <1>4, SameCall
  <2>8. Prolongs(t, t)
    BY <2>1, ProlongsSelf
  <2>9. \A x : Settled(t, x, m) => Answered(t, x, m)
    BY <2>8, AnswersKept
  <2>10. ASSUME Checked(c, m) PROVE DoneOK(th)'
    <3>1. AllSettled(t, l.done, 2, m)
      BY <1>1, <1>2, <2>10 DEF UnderwayOK, DoneOK
    <3>2. ASSUME NEW i \in 1..(Len(k.done) - 0) PROVE Answered(t, k.done[i], m)
      <4>1. k.done[i] = l.done[i]
        BY <2>5
      <4>2. i = Len(l.done) - 1 \/ i \in 1..(Len(l.done) - 2)
        BY <2>5
      <4> QED
        BY <2>4, <2>6, <2>9, <3>1, <4>1, <4>2 DEF AllSettled
    <3>3. AllAnswered(t, k.done, 0, m)
      BY <3>2 DEF AllAnswered
    <3>4. trace'[th] = t /\ loc'[th][3].done = k.done
      BY <1>1, <1>2, <1>5, <2>7
    <3> QED
      BY <2>7, <3>3, <3>4 DEF DoneOK
  <2>11. UnderwayOK(th)'
    BY <2>7, <2>10 DEF UnderwayOK
  <2>12. ResultOK(th)'
    <3>1. Prolongs(trace[th], trace'[th])
      BY <1>1, <1>2, <2>8
    <3> QED
      BY <1>1, <3>1, ResultKept
  <2>13. PanelsAreSound'
    BY <1>1 DEF PanelsAreSound, Sound, Independence
  <2> QED
    BY <1>1, <2>11, <2>12, <2>13 DEF StillVouched
<1> QED
  BY <1>6, <1>7

(* The steps of a query around its panels.                                 *)
LEMMA VouchPlain ==
    ASSUME TraceOK, PanelsAreSound, Placed, NEW th \in Threads, UnderwayOK(th), ResultOK(th),
           RoutedOK(th), mode' = mode, results'[th] = results[th],
           StartRoute(th) \/ ScoreSelf(th) \/ Claim(th) \/ NextSubtask(th)
    PROVE  StillVouched(th)
<1>1. Quiet(th)
  <2>1. Route(th) /\ ~SelectPanel(th) /\ ~Score(th)
    BY DEF Route, StartRoute, ScoreSelf, Claim, NextSubtask, SelectPanel, Score, Ready
  <2> QED
    BY <2>1, RouteQuiet
<1>2. CASE Return(th)
  BY <1>1, <1>2, VouchQuietly
<1>3. CASE StartRoute(th)
  <2>1. PICK l : l = [sub |-> 1, done |-> <<>>]
    OBVIOUS
  <2>2. l.done = <<>> /\ Goto(th, "subtask", l)
    BY <1>3, <2>1 DEF StartRoute
  <2>3. Len(l.done) = 0
    BY <2>2, NothingIsSeq
  <2>4. AllAnswered(trace[th], l.done, 0, mode)
    BY <2>3 DEF AllAnswered
  <2> QED
    BY <1>1, <2>2, <2>4, VouchAll
<1>4. CASE ScoreSelf(th) /\ ~Return(th)
  <2>1. PICK ok \in BOOLEAN :
            Goto(th, "apply", Emission(Verdict(Topic(th), Chosen(th), ok),
                                       IF ok THEN "verified" ELSE "rejected", loc[th]))
    BY <1>4 DEF ScoreSelf
  <2>2. PICK e : e = Emission(Verdict(Topic(th), Chosen(th), ok),
                              IF ok THEN "verified" ELSE "rejected", loc[th])
    OBVIOUS
  <2>3. pc'[th] = "apply" /\ Call(th)' = Call(th)
    BY <2>1, SameCall
  <2>4. ~Checked(Call(th), mode)
    BY <1>4 DEF ScoreSelf, UnderwayOK, DoneOK
  <2>5. PICK c, m : c = Call(th) /\ m = mode
    OBVIOUS
  <2>6. UnderwayOK(th)'
    BY <2>3, <2>4, <2>5 DEF UnderwayOK
  <2>7. /\ PanelsAreSound' /\ \A u \in Threads \ {th} : trace'[u] = trace[u]
        /\ ResultOK(th)'
    BY <1>1, <2>3, QuietAnswers
  <2> QED
    BY <2>6, <2>7 DEF StillVouched
<1>5. CASE Claim(th) /\ ~Return(th)
  <2>1. Goto(th, "subtaskDone", loc[th]) /\ pc[th] = "verified"
    BY <1>5 DEF Claim
  <2>2. Checked(Call(th), mode) => AllAnswered(trace[th], loc[th].done, 0, mode)
    BY <2>1 DEF UnderwayOK, DoneOK
  <2>3. PICK l : l = loc[th]
    OBVIOUS
  <2> QED
    BY <1>1, <2>1, <2>2, <2>3, VouchAll
<1>6. CASE NextSubtask(th) /\ ~Return(th)
  <2>1. PICK l : l = [loc[th] EXCEPT !.sub = @ + 1]
    OBVIOUS
  <2>2. Goto(th, "subtask", l) /\ pc[th] = "subtaskDone" /\ IsPlan(loc[th])
    BY <1>6, <2>1 DEF NextSubtask, RoutedOK, Routing
  <2>3. l.done = loc[th].done
    <3>1. PICK a, d : loc[th] = [sub |-> a, done |-> d]
      BY <2>2 DEF IsPlan
    <3>2. l = [sub |-> a + 1, done |-> d]
      BY ONLY <2>1, <3>1
    <3> QED
      BY <3>1, <3>2
  <2>4. Checked(Call(th), mode) => AllAnswered(trace[th], l.done, 0, mode)
    BY <2>2, <2>3 DEF UnderwayOK, DoneOK
  <2> QED
    BY <1>1, <2>2, <2>4, VouchAll
<1> QED
  BY <1>2, <1>3, <1>4, <1>5, <1>6

(* What a call returned, in the ghost that remembers it.                   *)
LEMMA ReturnedIs ==
    ASSUME ResultsOK, NEW th \in Threads, NEW got, Returned(th, got)
    PROVE  /\ results'[th].call = Call(th) /\ results'[th].got = got
           /\ \A u \in Threads \ {th} : results'[u] = results[u]
<1> DEFINE r == [call |-> Call(th), got |-> got]
<1>1. r.call = Call(th) /\ r.got = got
  OBVIOUS
<1>2. results' = [results EXCEPT ![th] = r]
  BY DEF Returned
<1> HIDE DEF r
<1> QED
  BY <1>1, <1>2 DEF ResultsOK

(* The answer to a query: all its generators have been vouched for.        *)
LEMMA VouchAnswer ==
    ASSUME TraceOK, ResultsOK, PanelsAreSound, Placed, NEW th \in Threads, UnderwayOK(th),
           ResultOK(th), RoutedOK(th), mode' = mode, NextSubtask(th),
           Returned(th, loc[th].done), Return(th)
    PROVE  StillVouched(th)
<1>1. pc[th] = "subtaskDone" /\ IsPlan(loc[th])
  BY DEF NextSubtask, RoutedOK, Routing
<1>2. Quiet(th)
  <2>1. Route(th) /\ ~SelectPanel(th) /\ ~Score(th)
    BY <1>1 DEF Route, SelectPanel, Score
  <2> QED
    BY <2>1, RouteQuiet
<1>3. PICK c, m, t, u, d : /\ c = Call(th) /\ m = mode /\ t = trace[th] /\ u = trace'[th]
                           /\ d = loc[th].done
  OBVIOUS
<1>4. /\ \A f, k : AllAnswered(t, f, k, m) => AllAnswered(u, f, k, m)
      /\ \A v \in Threads \ {th} : trace'[v] = trace[v]
      /\ PanelsAreSound'
  BY <1>2, <1>3, QuietAnswers
<1>5. pc'[th] = "idle" /\ results'[th].call = c /\ results'[th].got = d
  BY <1>3, ReturnIs, ReturnedIs
<1>6. Len(d) \in Nat /\ DOMAIN d = 1..Len(d)
  BY <1>1, <1>3, SeqIs DEF IsPlan
<1>7. ASSUME Checked(c, m), NEW i \in DOMAIN d PROVE Answered(u, d[i], m)
  <2>1. AllAnswered(u, d, 0, m)
    BY <1>1, <1>3, <1>4, <1>7 DEF UnderwayOK, DoneOK
  <2>2. i \in 1..(Len(d) - 0)
    BY <1>6
  <2> QED
    BY <2>1, <2>2 DEF AllAnswered
<1>8. ResultOK(th)'
  BY <1>3, <1>5, <1>7 DEF ResultOK
<1>9. UnderwayOK(th)'
  BY <1>5, UnboundOK DEF Unbound
<1> QED
  BY <1>4, <1>8, <1>9 DEF StillVouched

(* A cross-verification has no panels.                                     *)
LEMMA VouchCross ==
    ASSUME TraceOK, ResultsOK, PanelsAreSound, Placed, NEW th \in Threads, ResultOK(th),
           AskedOK(th), mode' = mode,
           StartCross(th) \/ AskPeer(th) \/ CrossRecord(th) \/ CrossDone(th)
    PROVE  StillVouched(th)
<1>1. trace' = trace
  <2>1. AskPeer(th) => trace' = trace
    BY Zenon DEF AskPeer
  <2> QED
    BY <2>1 DEF StartCross, CrossRecord, CrossDone
<1>2. Quiet(th)
  BY <1>1 DEF Quiet
<1>3. CASE CrossDone(th)
  <2>1. /\ pc[th] = "credited" /\ Returned(th, loc[th]) /\ Return(th) /\ Call(th).op = "cross"
    BY <1>3 DEF CrossDone, AskedOK
  <2>2. pc'[th] = "idle" /\ results'[th].call.op = "cross"
    BY <2>1, ReturnIs, ReturnedIs
  <2>3. ResultOK(th)'
    BY <2>2 DEF ResultOK, Checked
  <2>4. UnderwayOK(th)'
    BY <2>2, UnboundOK DEF Unbound
  <2>5. PanelsAreSound'
    BY <1>1 DEF PanelsAreSound, Sound, Independence
  <2> QED
    BY <1>1, <2>3, <2>4, <2>5 DEF StillVouched
<1>4. CASE ~CrossDone(th)
  <2>1. results'[th] = results[th]
    <3>1. AskPeer(th) => results' = results
      BY Zenon DEF AskPeer
    <3> QED
      BY <1>4, <3>1 DEF StartCross, CrossRecord
  <2>2. \/ Return(th)
        \/ \E p \in Unbound : \E l : Goto(th, p, l)
        \/ \E e : Goto(th, "apply", e) /\ e[2] # "verified"
    <3>1. CASE StartCross(th)
      <4>1. Return(th) \/ \E l : Goto(th, "asking", l)
        BY <3>1 DEF StartCross
      <4> QED
        BY <4>1 DEF Unbound
    <3>2. CASE AskPeer(th)
      <4>1. \E l : Goto(th, "asking", l)
        BY <3>2, Zenon DEF AskPeer
      <4> QED
        BY <4>1 DEF Unbound
    <3>3. CASE CrossRecord(th)
      <4>1. Return(th) \/ \E v, l : Goto(th, "apply", Emission(v, "credited", l))
        BY <3>3, Zenon DEF CrossRecord
      <4>2. \A v, l : Emission(v, "credited", l)[2] # "verified"
        BY DEF Emission
      <4> QED
        BY <4>1, <4>2
    <3> QED
      BY <1>4, <3>1, <3>2, <3>3
  <2> QED
    BY <1>2, <2>1, <2>2, VouchQuietly
<1> QED
  BY <1>3, <1>4

(* An emission goes on to the claim it was made for.                       *)
LEMMA VouchEmit ==
    ASSUME TraceOK, PanelsAreSound, Placed, NEW th \in Threads, UnderwayOK(th), ResultOK(th),
           ThreadOK(th), UNCHANGED routerVars, Emit(th)
    PROVE  StillVouched(th)
<1>1. /\ pc[th] \in {"apply", "journal", "witness"} /\ loc[th][2] \in Onward
      /\ trace' = trace /\ mode' = mode /\ results' = results
  BY DEF Emit, EmitApply, EmitJournal, EmitWitness, ThreadOK, routerVars
<1>2. Quiet(th)
  BY <1>1 DEF Quiet
<1>3. PICK c, m, t, l : c = Call(th) /\ m = mode /\ t = trace[th] /\ l = loc[th]
  OBVIOUS
<1>4. Checked(c, m) /\ l[2] = "verified" => AllAnswered(t, l[3].done, 0, m)
  BY <1>1, <1>3 DEF UnderwayOK, DoneOK
<1>5. CASE Return(th)
  BY <1>1, <1>2, <1>5, VouchQuietly
<1>6. ASSUME NEW p \in {"journal", "witness"}, Goto(th, p, l) PROVE StillVouched(th)
  <2>1. pc'[th] = p /\ loc'[th] = l /\ Call(th)' = c
    BY <1>3, <1>6, SameCall
  <2>2. Checked(c, m) => DoneOK(th)'
    BY <1>1, <1>3, <1>4, <2>1 DEF DoneOK
  <2>3. UnderwayOK(th)'
    BY <1>1, <1>3, <2>1, <2>2 DEF UnderwayOK
  <2> QED
    BY <1>1, <1>2, <2>1, <2>3, QuietAnswers DEF StillVouched
<1>7. CASE Goto(th, l[2], l[3]) /\ l[2] # "return"
  <2>1. CASE l[2] = "verified"
    <3>1. PICK k : k = l[3]
      OBVIOUS
    <3>2. Goto(th, "verified", k) /\ (Checked(Call(th), mode) => AllAnswered(trace[th], k.done, 0, mode))
      BY <1>3, <1>4, <1>7, <2>1, <3>1
    <3> QED
      BY <1>1, <1>2, <3>2, VouchAll
  <2>2. CASE l[2] # "verified"
    <3>1. l[2] \in Unbound
      BY <1>1, <1>3, <1>7, <2>2 DEF Onward, Unbound
    <3> QED
      BY <1>1, <1>2, <1>7, <3>1, VouchQuietly
  <2> QED
    BY <2>1, <2>2
<1> QED
  BY <1>3, <1>5, <1>6, <1>7 DEF Emit, EmitApply, EmitJournal, EmitWitness

(* A challenge has no panels either.                                       *)
LEMMA VouchChallenge ==
    ASSUME TraceOK, PanelsAreSound, Placed, NEW th \in Threads, ResultOK(th),
           UNCHANGED routerVars, Challenge(th)
    PROVE  StillVouched(th)
<1>1. /\ trace' = trace /\ mode' = mode /\ results' = results /\ Quiet(th)
  BY DEF routerVars, Quiet
<1>2. CASE NoteFraud(th)
  <2>1. PICK e : e = Emission(Slash(Call(th).v), "return", <<>>)
    OBVIOUS
  <2>2. Goto(th, "apply", e) /\ e[2] # "verified"
    BY <1>2, <2>1 DEF NoteFraud, Emission
  <2> QED
    BY <1>1, <2>2, VouchQuietly
<1>3. CASE ~NoteFraud(th)
  <2>1. Return(th) \/ \E p \in Free : \E l : Goto(th, p, l)
    BY <1>3 DEF Challenge, Open, NoteOpen, ClaimSeat, TakeSeat, Commit, Seal, StoreCommit, Reveal,
              ShowVerdict, NoteReveal, CatchFraud, Resolve, NoteResolve, Free
  <2>2. Free \subseteq Unbound
    BY DEF Free, Unbound
  <2> QED
    BY <1>1, <2>1, <2>2, VouchQuietly
<1> QED
  BY <1>2, <1>3

(* At the start nothing is under way and nothing was returned.             *)
LEMMA VouchInit == Init => VouchInv
<1> SUFFICES ASSUME Init PROVE VouchInv
  OBVIOUS
<1>1. /\ pc = [th \in Threads |-> "idle"] /\ trace = [th \in Threads |-> <<>>]
      /\ results = [th \in Threads |-> NoResult]
  BY DEF Init, RegistryInit, RouterInit
<1>2. PanelsAreSound
  BY <1>1, NothingIsSeq DEF PanelsAreSound
<1>3. ASSUME NEW th \in Threads PROVE UnderwayOK(th) /\ ResultOK(th)
  <2>1. pc[th] = "idle" /\ results[th].call.op = "none"
    BY <1>1 DEF NoResult
  <2>2. ResultOK(th)
    BY <2>1 DEF ResultOK, Checked
  <2>3. UnderwayOK(th)
    BY <2>1 DEF UnderwayOK, DoneOK
  <2> QED
    BY <2>2, <2>3
<1> QED
  BY <1>2, <1>3 DEF VouchInv

(* A thread's step leaves what the others rest on.                         *)
LEMMA OthersVouched ==
    ASSUME VouchInv, NEW th \in Threads, Moved(th), StillVouched(th), mode' = mode,
           \A u \in Threads \ {th} : results'[u] = results[u]
    PROVE  VouchInv'
<1>1. ASSUME NEW u \in Threads, u # th PROVE UnderwayOK(u)' /\ ResultOK(u)'
  <2>1. /\ UnderwayOK(u) /\ ResultOK(u) /\ script' = script
        /\ pc'[u] = pc[u] /\ loc'[u] = loc[u] /\ at'[u] = at[u]
        /\ trace'[u] = trace[u] /\ results'[u] = results[u]
    BY <1>1 DEF VouchInv, Moved, StillVouched
  <2> QED
    BY <2>1, LeftAloneOK
<1>2. ASSUME NEW u \in Threads PROVE UnderwayOK(u)' /\ ResultOK(u)'
  BY <1>1 DEF StillVouched
<1> QED
  BY <1>2 DEF VouchInv, StillVouched

(* The steps of queries and cross-verifications.                           *)
LEMMA RouteVouches ==
    ASSUME Placed, EarnInv, VouchInv, NEW th \in Threads, Route(th)
    PROVE  StillVouched(th) /\ mode' = mode /\ \A u \in Threads \ {th} : results'[u] = results[u]
<1>1. /\ TraceOK /\ ResultsOK /\ RoutedOK(th) /\ AskedOK(th)
      /\ PanelsAreSound /\ UnderwayOK(th) /\ ResultOK(th)
  BY DEF EarnInv, CallOK, VouchInv
<1>2. mode' = mode
  <2>1. AskPeer(th) => mode' = mode
    BY Zenon DEF AskPeer
  <2> QED
    BY <2>1 DEF Route, StartRoute, Generate, SelectPanel, Score, Judge, ScoreSelf, Claim,
                NextSubtask, StartCross, CrossRecord, CrossDone, routerKept
<1>3. CASE CrossDone(th)
  <2>1. Returned(th, loc[th])
    BY <1>3 DEF CrossDone
  <2> QED
    BY <1>1, <1>2, <1>3, <2>1, VouchCross, ReturnedIs
<1>4. CASE NextSubtask(th) /\ results' # results
  <2>1. Returned(th, loc[th].done) /\ Return(th)
    BY <1>4 DEF NextSubtask
  <2> QED
    BY <1>1, <1>2, <1>4, <2>1, VouchAnswer, ReturnedIs
<1>5. CASE ~CrossDone(th) /\ (~NextSubtask(th) \/ results' = results)
  <2>1. results' = results
    <3>1. AskPeer(th) => results' = results
      BY Zenon DEF AskPeer
    <3> QED
      BY <1>5, <3>1 DEF Route, StartRoute, Generate, SelectPanel, Score, Judge, ScoreSelf, Claim,
                        StartCross, CrossRecord
  <2>2. CASE Generate(th)
    BY <1>1, <1>2, <2>1, <2>2, RouteQuiet, VouchGenerate DEF Route, SelectPanel, Score, Generate
  <2>3. CASE SelectPanel(th)
    BY <1>1, <1>2, <2>1, <2>3, VouchSelect
  <2>4. CASE Score(th)
    BY <1>1, <1>2, <2>1, <2>4, VouchScore
  <2>5. CASE Judge(th)
    BY <1>1, <1>2, <2>1, <2>5, VouchJudge
  <2>6. CASE StartRoute(th) \/ ScoreSelf(th) \/ Claim(th) \/ NextSubtask(th)
    BY <1>1, <1>2, <2>1, <2>6, VouchPlain
  <2>7. CASE StartCross(th) \/ AskPeer(th) \/ CrossRecord(th)
    BY <1>1, <1>2, <2>1, <2>7, VouchCross
  <2> QED
    BY <1>2, <1>5, <2>1, <2>2, <2>3, <2>4, <2>5, <2>6, <2>7 DEF Route
<1> QED
  BY <1>3, <1>4, <1>5

(* Every step leaves vouched for what has to be.                           *)
LEMMA VouchNext ==
    ASSUME GuiltInv, EarnInv, VouchInv, [Next]_vars
    PROVE  VouchInv'
<1>1. /\ Placed /\ (\A u \in Threads : CallOK(u) /\ ThreadOK(u)) /\ TraceOK
      /\ PanelsAreSound /\ \A u \in Threads : UnderwayOK(u) /\ ResultOK(u)
  BY DEF GuiltInv, EarnInv, VouchInv
<1>2. ASSUME NEW th \in Threads, EmitStep(th) PROVE VouchInv'
  <2>1. Emit(th) /\ UNCHANGED routerVars /\ mode' = mode /\ results' = results
    BY <1>2 DEF EmitStep, routerVars
  <2>2. Moved(th)
    BY <1>1, <2>1, EmitCall
  <2>3. StillVouched(th)
    BY <1>1, <2>1, VouchEmit
  <2> QED
    BY <2>1, <2>2, <2>3, OthersVouched
<1>3. ASSUME NEW th \in Threads, RouteStep(th) PROVE VouchInv'
  <2>1. Route(th)
    BY <1>3 DEF RouteStep
  <2>2. Moved(th)
    BY <1>1, <2>1, QueryCall, JudgedCall, CrossCall DEF Route
  <2> QED
    BY <1>1, <2>1, <2>2, RouteVouches, OthersVouched
<1>4. ASSUME NEW th \in Threads, ChallengeStep(th) PROVE VouchInv'
  <2>1. Challenge(th) /\ UNCHANGED routerVars /\ mode' = mode /\ results' = results
    BY <1>4 DEF ChallengeStep, routerVars
  <2>2. Moved(th)
    BY <1>1, <2>1, ChallengeCall
  <2>3. StillVouched(th)
    BY <1>1, <2>1, VouchChallenge
  <2> QED
    BY <2>1, <2>2, <2>3, OthersVouched
<1>5. ASSUME UNCHANGED <<mode, trace>> PROVE PanelsAreSound'
  BY <1>1, <1>5 DEF PanelsAreSound, Sound, Independence
<1>6. ASSUME UNCHANGED <<script, at, pc, loc, mode, trace, results>> PROVE VouchInv'
  <2>1. ASSUME NEW u \in Threads PROVE UnderwayOK(u)' /\ ResultOK(u)'
    BY <1>1, <1>6, LeftAloneOK
  <2> QED
    BY <1>5, <1>6, <2>1 DEF VouchInv
<1>7. CASE Tick /\ UNCHANGED routerVars
  BY <1>6, <1>7 DEF Tick, threadVars, routerVars
<1>8. CASE Crash
  <2>1. pc' = [u \in Threads |-> "idle"] /\ UNCHANGED <<mode, trace, results>>
    BY <1>8 DEF Crash, RouterRestart
  <2>2. ASSUME NEW u \in Threads PROVE UnderwayOK(u)' /\ ResultOK(u)'
    <3>1. pc'[u] = "idle"
      BY <2>1
    <3>2. UnderwayOK(u)'
      BY <3>1, UnboundOK DEF Unbound
    <3>3. Prolongs(trace[u], trace'[u])
      <4>1. PICK t : t = trace[u]
        OBVIOUS
      <4>2. Prolongs(t, t)
        BY <1>1, <4>1, ProlongsSelf DEF TraceOK
      <4> QED
        BY <2>1, <4>1, <4>2
    <3>4. Silent(trace[u], trace'[u]) \/ pc[u] = "scoring"
      <4>1. PICK t : t = trace[u]
        OBVIOUS
      <4>2. Newer(t, t) = {}
        BY <1>1, <4>1, ProlongsSelf DEF TraceOK
      <4> QED
        BY <2>1, <4>1, <4>2 DEF Silent
    <3>5. ResultOK(u)'
      BY <1>1, <2>1, <3>1, <3>3, <3>4, ResultKept
    <3> QED
      BY <3>2, <3>5
  <2> QED
    BY <1>5, <2>1, <2>2 DEF VouchInv
<1>9. CASE UNCHANGED vars
  BY <1>6, <1>9 DEF vars, threadVars, routerVars
<1> QED
  BY <1>2, <1>3, <1>4, <1>7, <1>8, <1>9 DEF Next

(* route, _select_panel, _verify: every panel a query was given satisfies  *)
(* the constraints of its policy, short only where nobody was left who     *)
(* could join, and an answer is returned only when, for each of its        *)
(* generators, every member of such a panel said yes; whatever the threads *)
(* do in between, the same route asked again, crashes included.            *)
THEOREM AnswersRestOnPanels == VerificationSpec => []AnswersVerified
<1>1. EarnInv /\ VouchInv => AnswersVerified
  <2> SUFFICES ASSUME EarnInv, VouchInv PROVE AnswersVerified
    OBVIOUS
  <2>1. ASSUME NEW th \in Threads, NEW i \in DOMAIN results[th].got,
               Checked(results[th].call, mode)
        PROVE  Answered(trace[th], results[th].got[i], mode)
    <3>1. PICK t, o, m : t = trace[th] /\ o = results[th].got[i] /\ m = mode
      OBVIOUS
    <3>2. Answered(t, o, m) \/ Settled(t, o, m)
      BY <2>1, <3>1 DEF VouchInv, ResultOK
    <3>3. Prolongs(t, t)
      BY <3>1, ProlongsSelf DEF EarnInv, TraceOK
    <3>4. Settled(t, o, m) => Answered(t, o, m)
      BY <3>3, AnswersKept
    <3> QED
      BY <3>1, <3>2, <3>4
  <2>2. PanelsAreSound
    BY DEF VouchInv
  <2>3. ASSUME NEW th \in Threads, NEW i \in DOMAIN results[th].got,
               Checked(results[th].call, mode)
        PROVE  \E p \in DOMAIN trace[th] :
                 /\ trace[th][p].event = "panel" /\ trace[th][p].object = results[th].got[i]
                 /\ trace[th][p].who # {} /\ results[th].got[i] \notin trace[th][p].who
                 /\ mode = "strict" => Cardinality(trace[th][p].who) >= PanelK
                 /\ \A v \in trace[th][p].who :
                       \E j \in Said(trace[th], results[th].got[i], p) : trace[th][j].who = {v}
                 /\ \A j \in Said(trace[th], results[th].got[i], p) : trace[th][j].ok
    BY <2>1, <2>3 DEF Answered, Vouches, IsFor
  <2> QED
    BY <2>2, <2>3 DEF AnswersVerified, Said, Checked
<1>2. VerificationSpec => []EarnInv
  BY EarnInit, EarnNext, GuiltAlways, PTL DEF VerificationSpec
<1> QED
  BY <1>1, <1>2, VouchInit, VouchNext, GuiltAlways, PTL DEF VerificationSpec
=============================================================================
