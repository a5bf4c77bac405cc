------------------------------- MODULE Router -------------------------------
(***************************************************************************)
(* Routing a query to a generator and its output past verifiers:           *)
(* core/router.py, with the panel of core/diversity.py, and the            *)
(* cross-verification of core/crossverify.py and core/verdict.py.  Both    *)
(* end in ChampionRegistry.record.                                         *)
(*                                                                         *)
(* trace[th] holds the ROUTE records of a thread in the order it appended  *)
(* them; how they fall between those of other threads is left out.         *)
(* Registry weights are left out too: any object with history may lead.    *)
(***************************************************************************)
EXTENDS Registry, Diversity

CONSTANTS
    Objects,      \* the route objects, in the order of their names
    About,        \* object -> [topics, origin, capacity, reproducible]
    DenyRules,    \* ABAC: pairs <<query attribute, node origin>>
    NodeOf,       \* verifier url -> the node that answers there
    MinVerifiers  \* CrossVerifier._min

(* Every object declares its provenance, be it as unknown; a generator     *)
(* without any manifest, which ends the query, is left out.                *)
ASSUME RouterAssumption ==
    /\ Objects \in Seq({Objects[i] : i \in DOMAIN Objects})
    /\ \A i \in DOMAIN Objects : Objects[i] \in DOMAIN Prov

VARIABLES
    mode,       \* "strict" or "degraded" panels, "self" without provenance
    trace,
    nonces,     \* NonceRegistry._seen
    results     \* ghost: a thread's last call that returned, and what it got

routerVars == <<mode, trace, nonces, results>>
routerKept == <<registryVars, chain, faults, mode, nonces>>

(* A call that returned an answer.                                         *)
Returned(th, got) == results' = [results EXCEPT ![th] = [call |-> Call(th), got |-> got]]
NoResult == [call |-> [op |-> "none"], got |-> <<>>]

RouterInit ==
    /\ trace = [th \in Threads |-> <<>>]
    /\ nonces = {}
    /\ results = [th \in Threads |-> NoResult]

Range1(s) == {s[i] : i \in DOMAIN s}
Wrote(th, recs) == trace' = [trace EXCEPT ![th] = @ \o recs]
R(event, object, who, ok) == [event |-> event, object |-> object, who |-> who, ok |-> ok]
Plain(event) == R(event, "-", {}, TRUE)

(* RuleClassifier: the topics of the query, or the generalist.             *)
Plan(q) == IF q.topics = <<>> THEN <<"_generalist">> ELSE q.topics

-----------------------------------------------------------------------------
(* _route_subtask; loc is [sub, done], the subtask under way and the       *)
(* results of the ones before it.                                          *)

Pool(topic) == {o \in Range1(Objects) : topic \in About[o].topics \/ topic = "_generalist"}
Gated(topic, q) == {o \in Pool(topic) : ~\E r \in DenyRules : r[1] \in q.attrs /\ r[2] = About[o].origin}
Capable(topic, q) ==
    {o \in Gated(topic, q) : About[o].capacity > 0 /\ (q.verify => About[o].reproducible)}

StartRoute(th) ==
    /\ Ready(th, "route")
    /\ Goto(th, "subtask", [sub |-> 1, done |-> <<>>])
    /\ UNCHANGED <<trace, results, routerKept>>

Topic(th) == Plan(Call(th))[loc[th].sub]

(* _select: the leader among the capable, or the first name on a cold      *)
(* start; a preferred object wins if it is capable.                        *)
Choices(topic, q) ==
    LET capable == Capable(topic, q)
        known == History(topic) \intersect capable
        first == Objects[CHOOSE i \in DOMAIN Objects : /\ Objects[i] \in capable
                            /\ \A j \in 1..(i - 1) : Objects[j] \notin capable]
    IN CASE q.prefer \in capable -> {q.prefer}
         [] q.prefer \notin capable /\ known # {} -> known
         [] OTHER -> {first}

(* Classification, gate, capability, choice and generation; the engine may *)
(* be contained or away, which ends the query without a record.            *)
Generate(th) ==
    LET q == Call(th)
        before == <<Plain("classify"), Plain("gate")>>
    IN /\ pc[th] = "subtask"
       /\ IF Capable(Topic(th), q) = {}
          THEN Wrote(th, before \o <<Plain("refuse")>>) /\ Return(th) /\ UNCHANGED results
          ELSE \E o \in Choices(Topic(th), q) :
                 \/ /\ Wrote(th, before \o <<R("dispatch", o, {}, TRUE)>>)
                    /\ Return(th) /\ UNCHANGED results
                 \/ /\ Wrote(th, before \o <<R("dispatch", o, {}, TRUE), R("generate", o, {}, TRUE)>>)
                    /\ Goto(th, IF ~q.verify THEN "subtaskDone"
                                ELSE IF mode = "self" THEN "self" ELSE "panel",
                            [loc[th] EXCEPT !.done = Append(@, o)])
                    /\ UNCHANGED results
       /\ UNCHANGED routerKept

Chosen(th) == loc[th].done[Len(loc[th].done)]

Candidates(th) == Capable(Topic(th), Call(th)) \ {Chosen(th)}

(* _select_panel: _reputation reads a number where the leaderboard holds a *)
(* pair, so a candidate with history on the topic ends the query.          *)
PanelRaises(th) == Candidates(th) \intersect History(Topic(th)) # {}

PanelRecord(th, panel) ==
    [event |-> "panel", object |-> Chosen(th), who |-> panel, ok |-> Cardinality(panel) >= PanelK,
     rejected |-> Candidates(th) \ panel]

SelectPanel(th) ==
    LET panel == SelectVerifiers(Objects, Candidates(th), Chosen(th))
    IN /\ pc[th] = "panel"
       /\ IF PanelRaises(th) THEN Return(th) /\ UNCHANGED trace
          ELSE IF Cardinality(panel) < PanelK /\ mode = "strict"
          THEN /\ Wrote(th, <<PanelRecord(th, panel), Plain("refuse")>>)
               /\ Return(th)
          ELSE IF panel = {}
          THEN Wrote(th, <<PanelRecord(th, panel)>>) /\ Return(th)
          ELSE /\ Wrote(th, <<PanelRecord(th, panel)>>)
               /\ Goto(th, "scoring", [loc[th] EXCEPT !.done = Append(@, panel)])
       /\ UNCHANGED <<results, routerKept>>

(* While scoring, the last element of done is who is still to be asked.    *)
Asked(th) == loc[th].done[Len(loc[th].done)]
Generator(th) == loc[th].done[Len(loc[th].done) - 1]

(* One member's verdict, or the end of the query if it cannot be had.      *)
Score(th) ==
    /\ pc[th] = "scoring" /\ Asked(th) # {}
    /\ \E v \in Asked(th), ok \in BOOLEAN :
          \/ /\ Wrote(th, <<R("panel_verify", Generator(th), {v}, ok)>>)
             /\ Goto(th, "scoring", [loc[th] EXCEPT !.done[Len(loc[th].done)] = @ \ {v}])
          \/ Return(th) /\ UNCHANGED trace
    /\ UNCHANGED <<results, routerKept>>

(* Mutant: one good verdict is enough.                                     *)
UnanimousAny(verdicts) == TRUE \in verdicts

(* The verdicts of the panel on this subtask: the last ones written.       *)
Verdicts(th) ==
    LET t == trace[th]
        lastPanel == CHOOSE i \in DOMAIN t : /\ t[i].event = "panel"
                                             /\ \A j \in DOMAIN t : t[j].event = "panel" => j <= i
    IN {t[i].ok : i \in {i \in DOMAIN t : i > lastPanel /\ t[i].event = "panel_verify"}}
Unanimous(verdicts) == FALSE \notin verdicts

(* Mutant: the claim goes first.                                           *)
JudgeClaiming(th) ==
    LET l == [loc[th] EXCEPT !.done = SubSeq(@, 1, Len(@) - 1)]
        ok == Unanimous(Verdicts(th))
    IN /\ pc[th] = "scoring" /\ Asked(th) = {}
       /\ Wrote(th, <<R("verify", Generator(th), {}, ok)>>)
       /\ Goto(th, "apply", Emission(Verdict(Topic(th), Generator(th), ok),
                                     IF ok THEN "verified" ELSE "rejected", l))
       /\ UNCHANGED <<results, routerKept>>

(* The registry is fed, then the verification is claimed on the chain.     *)
Judge(th) ==
    LET l == [loc[th] EXCEPT !.done = SubSeq(@, 1, Len(@) - 1)]
        ok == Unanimous(Verdicts(th))
    IN /\ pc[th] = "scoring" /\ Asked(th) = {}
       /\ Goto(th, "apply", Emission(Verdict(Topic(th), Generator(th), ok),
                                     IF ok THEN "verified" ELSE "rejected", l))
       /\ UNCHANGED <<trace, results, routerKept>>

(* The path without provenance: the generator's own node scores.           *)
ScoreSelf(th) ==
    /\ pc[th] = "self"
    /\ \/ \E ok \in BOOLEAN :
            Goto(th, "apply", Emission(Verdict(Topic(th), Chosen(th), ok),
                                       IF ok THEN "verified" ELSE "rejected", loc[th]))
       \/ Return(th)
    /\ UNCHANGED <<trace, results, routerKept>>

Claim(th) ==
    /\ pc[th] \in {"verified", "rejected"}
    /\ IF pc[th] = "verified"
       THEN /\ Wrote(th, <<R("verify", Chosen(th), {}, TRUE)>>)
            /\ Goto(th, "subtaskDone", loc[th])
       ELSE /\ Wrote(th, <<R("verify", Chosen(th), {}, FALSE), Plain("refuse")>>)
            /\ Return(th)
    /\ UNCHANGED <<results, routerKept>>

(* route: the next subtask, or the answer.                                 *)
NextSubtask(th) ==
    /\ pc[th] = "subtaskDone"
    /\ IF loc[th].sub < Len(Plan(Call(th)))
       THEN /\ Goto(th, "subtask", [loc[th] EXCEPT !.sub = @ + 1])
            /\ UNCHANGED <<trace, results>>
       ELSE /\ Wrote(th, IF loc[th].sub > 1 THEN <<Plain("synthesize")>> ELSE <<>>)
            /\ Returned(th, loc[th].done)
            /\ Return(th)
    /\ UNCHANGED routerKept

-----------------------------------------------------------------------------
(* CrossVerifier.verify_and_record; loc is [left, good], the urls still to *)
(* be asked and the audited verdicts.                                      *)

StartCross(th) ==
    LET peers == SelectSeq(Call(th).urls, LAMBDA u : u # Call(th).generator)
    IN /\ Ready(th, "cross")
       /\ IF peers = <<>> THEN Return(th)
          ELSE Goto(th, "asking", [left |-> peers, good |-> <<>>])
       /\ UNCHANGED <<trace, results, routerKept>>

(* open_verdict, at its end: a node's answer to a nonce counts once.       *)
UseNonce(node, nonce) == <<node, nonce>> \notin nonces

(* One peer: it answers, is away, or its envelope or chain does not hold   *)
(* up and it is discarded.  The nonce is spent before the chain is         *)
(* audited.                                                                *)
AskPeer(th) ==
    LET u == Head(loc[th].left)
        skip == [loc[th] EXCEPT !.left = Tail(@)]
        spent == nonces \union {<<NodeOf[u], Call(th).nonce>>}
    IN /\ pc[th] = "asking" /\ loc[th].left # <<>>
       /\ \/ Goto(th, "asking", skip) /\ UNCHANGED nonces
          \/ /\ UseNonce(NodeOf[u], Call(th).nonce) /\ nonces' = spent
             /\ \/ Goto(th, "asking", skip)
                \/ \E ok \in BOOLEAN :
                     Goto(th, "asking", [skip EXCEPT !.good = Append(@, [node |-> NodeOf[u], ok |-> ok])])
       /\ UNCHANGED <<trace, results, registryVars, chain, faults, mode>>

Passing(good) == Cardinality({i \in DOMAIN good : good[i].ok}) >= MinVerifiers

CrossRecord(th) ==
    LET good == loc[th].good
    IN /\ pc[th] = "asking" /\ loc[th].left = <<>>
       /\ IF Len(good) >= MinVerifiers
          THEN /\ Goto(th, "apply", Emission(Verdict("cross", Call(th).generator, Passing(good)),
                                             "credited", good))
          ELSE Return(th)
       /\ UNCHANGED <<trace, results, routerKept>>
CrossDone(th) ==
    /\ pc[th] = "credited"
    /\ Returned(th, loc[th])
    /\ Return(th) /\ UNCHANGED <<trace, routerKept>>

Route(th) ==
    \/ StartRoute(th) \/ Generate(th) \/ SelectPanel(th) \/ Score(th) \/ Judge(th)
    \/ ScoreSelf(th) \/ Claim(th) \/ NextSubtask(th)
    \/ StartCross(th) \/ AskPeer(th) \/ CrossRecord(th) \/ CrossDone(th)

RouterRestart == nonces' = {} /\ UNCHANGED <<mode, trace, results>>

-----------------------------------------------------------------------------
(* Constraints on a panel, stated without the algorithm.                   *)
Sound(panel, generator) ==
    /\ generator \notin panel
    /\ \A o \in panel : Independence(o, generator) > 0
    /\ \A o, p \in panel : o # p => Independence(o, p) >= MinIndependence
    /\ \A o \in panel, d \in GroupDims :
          Prov[o][d] = "unknown" \/ Cardinality({s \in panel : Prov[s][d] = Prov[o][d]}) <= MaxPerGroup

(* Every panel that was put together satisfies the constraints, and one    *)
(* that came out short could not have taken any of the candidates it left  *)
(* out: constraints are neither relaxed nor invented.                      *)
PanelsAreSound ==
    \A th \in Threads : \A i \in DOMAIN trace[th] :
        LET t == trace[th][i]
        IN t.event = "panel" =>
             /\ Sound(t.who, t.object)
             /\ ~t.ok => \A o \in t.rejected : ~Sound(t.who \union {o}, t.object)

(* What a returned answer rests on: panels are sound, and for every        *)
(* generator of a verified query there is one, full unless degraded ones   *)
(* are allowed, each member of which, and the generator is none, said yes  *)
(* before another panel was put together.                                  *)
AnswersVerified ==
    /\ PanelsAreSound
    /\ \A th \in Threads : \A i \in DOMAIN results[th].got :
         LET call == results[th].call
             o == results[th].got[i]
             t == trace[th]
         IN call.op = "route" /\ call.verify /\ mode # "self" =>
             \E p \in DOMAIN t :
                 LET said == {j \in (p + 1)..Len(t) : /\ t[j].event = "panel_verify" /\ t[j].object = o
                                                     /\ \A n \in p..j : t[n].event = "panel" => n = p}
                 IN /\ t[p].event = "panel" /\ t[p].object = o
                    /\ t[p].who # {} /\ o \notin t[p].who
                    /\ mode = "strict" => Cardinality(t[p].who) >= PanelK
                    /\ \A v \in t[p].who : \E j \in said : t[j].who = {v}
                    /\ \A j \in said : t[j].ok

(* A route.verify record says its verdict is in the registry, and it is:   *)
(* journaled before the claim, there after any crash, one event for every  *)
(* claim.                                                                  *)
ClaimsAreRecorded ==
    \A o \in Range1(Objects), b \in BOOLEAN :
        Cardinality(UNION {{<<th, i>> : i \in {i \in DOMAIN trace[th] :
                                trace[th][i] = R("verify", o, {}, b)}} : th \in Threads})
        <= Cardinality({i \in DOMAIN rjournal : rjournal[i].object = o /\ rjournal[i].ok = b})

(* Reputation through cross-verification takes MinVerifiers nodes, not one *)
(* node under several addresses or the same answer sent twice.             *)
QuorumIsDistinct ==
    \A th \in Threads : results[th].call.op = "cross" =>
        LET good == results[th].got
        IN /\ Len(good) >= MinVerifiers
           /\ Cardinality({good[i].node : i \in DOMAIN good}) = Len(good)

(* Reputation is earned: claimed only where it is recorded, and through    *)
(* cross-verification only from distinct nodes.                            *)
ReputationEarned == ClaimsAreRecorded /\ QuorumIsDistinct

=============================================================================
