------------------------------ MODULE Registry ------------------------------
(***************************************************************************)
(* The champion registry: core/registry.py.  The state is a log of events, *)
(* kept in memory, in a journal, and bound event by event to the witness   *)
(* chain.  _emit applies, journals and witnesses with no lock around the   *)
(* three, and the node's request threads share one registry.               *)
(*                                                                         *)
(* A thread runs the calls of its script one after the other; pc is where  *)
(* it is inside the current one and loc what that call keeps in locals.    *)
(***************************************************************************)
EXTENDS Integers, Sequences, FiniteSets

CONSTANTS
    Threads,    \* request threads
    MaxFaults   \* bound on failed writes and crashes

ASSUME RegistryAssumption == MaxFaults \in Nat

VARIABLES
    script,      \* what each thread is asked to do
    at,          \* the call of its script a thread is in
    pc, loc,
    events,      \* ChampionRegistry._events
    rjournal,    \* the registry's journal
    chain,       \* REGISTRY and CHALLENGE records of the witness chain
    faults,      \* ghost: faults so far
    overlapped,  \* ghost: two emissions were under way at once
    cut          \* ghost: an emission stopped after changing something

threadVars == <<script, at, pc, loc>>
registryVars == <<events, rjournal, overlapped, cut>>

Call(th) == script[th][at[th]]
Ready(th, op) == pc[th] = "idle" /\ at[th] <= Len(script[th]) /\ Call(th).op = op

Goto(th, p, l) == /\ pc' = [pc EXCEPT ![th] = p] /\ loc' = [loc EXCEPT ![th] = l]
                  /\ UNCHANGED <<script, at>>
(* The call is over: returned, refused or thrown out.                      *)
Return(th) == /\ pc' = [pc EXCEPT ![th] = "idle"] /\ loc' = [loc EXCEPT ![th] = <<>>]
              /\ at' = [at EXCEPT ![th] = @ + 1] /\ UNCHANGED script

RegistryInit ==
    /\ at = [th \in Threads |-> 1] /\ pc = [th \in Threads |-> "idle"]
    /\ loc = [th \in Threads |-> <<>>]
    /\ events = <<>> /\ rjournal = <<>> /\ chain = <<>>
    /\ faults = 0 /\ overlapped = FALSE /\ cut = FALSE

Verdict(topic, object, ok) == [ev |-> "verdict", topic |-> topic, object |-> object, ok |-> ok]
Slash(object) == [ev |-> "slash", topic |-> "-", object |-> object, ok |-> FALSE]

(* A call that emits goes to "apply" with the event, and with the place it *)
(* continues at: <<ev, then, rest of its locals>>.                         *)
Emission(ev, then, l) == <<ev, then, l>>

EmitApply(th) ==
    /\ pc[th] = "apply"
    /\ events' = Append(events, loc[th][1])
    /\ overlapped' = (overlapped \/ \E u \in Threads \ {th} : pc[u] \in {"journal", "witness"})
    /\ Goto(th, "journal", loc[th])
    /\ UNCHANGED <<rjournal, chain, faults, cut>>

EmitJournal(th) ==
    /\ pc[th] = "journal"
    /\ \/ /\ rjournal' = Append(rjournal, loc[th][1])
          /\ Goto(th, "witness", loc[th]) /\ UNCHANGED <<faults, cut>>
       \/ /\ faults < MaxFaults /\ faults' = faults + 1 /\ cut' = TRUE
          /\ Return(th) /\ UNCHANGED rjournal
    /\ UNCHANGED <<events, chain, overlapped>>

(* Mutant: the record binds the log without the event.                     *)
DigestBefore(ev) == [kind |-> "REGISTRY", ev |-> ev, snap |-> SubSeq(events, 1, Len(events) - 1)]

(* The record binds the event and the whole log as memory has it now.      *)
Digest(ev) == [kind |-> "REGISTRY", ev |-> ev, snap |-> events]

EmitWitness(th) ==
    /\ pc[th] = "witness"
    /\ \/ /\ chain' = Append(chain, Digest(loc[th][1]))
          /\ IF loc[th][2] = "return" THEN Return(th) ELSE Goto(th, loc[th][2], loc[th][3])
          /\ UNCHANGED <<faults, cut>>
       \/ /\ faults < MaxFaults /\ faults' = faults + 1 /\ cut' = TRUE
          /\ Return(th) /\ UNCHANGED chain
    /\ UNCHANGED <<events, rjournal, overlapped>>

Emit(th) == EmitApply(th) \/ EmitJournal(th) \/ EmitWitness(th)
Emitting(th) == pc[th] \in {"journal", "witness"}

(* A restart replays the journal.                                          *)
RegistryRestart ==
    /\ events' = rjournal
    /\ cut' = (cut \/ \E th \in Threads : pc[th] = "witness")
    /\ UNCHANGED <<rjournal, chain, overlapped>>

(* leaderboard: the objects with a verdict on the topic; their order comes *)
(* from the weights, which are not modelled.                               *)
History(topic) == {events[i].object : i \in {i \in DOMAIN events :
                     events[i].ev = "verdict" /\ events[i].topic = topic}}

(* verify_journal_against_chain: the REGISTRY records, in their order,     *)
(* bind the events of the journal, each with the log up to it.             *)
Own == {n \in DOMAIN chain : chain[n].kind = "REGISTRY"}
PlaceOf(n) == Cardinality({m \in Own : m <= n})
Audit ==
    /\ Cardinality(Own) = Len(rjournal)
    /\ \A n \in Own : /\ chain[n].ev = rjournal[PlaceOf(n)]
                      /\ chain[n].snap = SubSeq(rjournal, 1, PlaceOf(n))

-----------------------------------------------------------------------------
(* The audit of the journal against the chain fails only for a cause: two  *)
(* threads emitted at once, or an emission was stopped half way by a       *)
(* failed write or by a crash between journal and chain.  A registry whose *)
(* emissions came one at a time and were completed, restarts in between    *)
(* included, passes it.                                                    *)
AuditFailsForCause ==
    overlapped \/ cut \/ (\E th \in Threads : Emitting(th)) \/ Audit
=============================================================================
