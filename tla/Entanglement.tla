---------------------------- MODULE Entanglement ----------------------------
(***************************************************************************)
(* Witnessed salts (core/entanglement.py) between two daemons: the ORIGIN  *)
(* signs roots of its chain, draws salts and embeds them in its inference  *)
(* records; the ISSUER witnesses the origin's roots (PEER_ROOT) and the    *)
(* salts it hands out (SALT_ISSUE) on its own ledger.  Whoever holds two   *)
(* histories of the origin judges them against that ledger.                *)
(*                                                                         *)
(* A record's hash binds everything before it, so the prefix that ends in  *)
(* it stands for its hash and a whole chain for its root.  The issuer's    *)
(* Node._lock serialises issue_salt and receive_root; RATE_LIMIT and       *)
(* CHALLENGE records are appended under chain.lock alone and may fall      *)
(* between the two halves of an issuance.                                  *)
(***************************************************************************)
EXTENDS Naturals, FiniteSets, SequencesExt

CONSTANTS
    MaxChain,    \* bound: records of one history of the origin
    MaxLedger,   \* bound: records of the issuer's ledger
    MaxLives,    \* bound: times the origin resumes from another log
    MaxOther,    \* bound: unrelated records on the issuer's ledger
    Strict       \* --entangle-strict of the origin

VARIABLES
    up,          \* the origin is running on its log
    chain,       \* the origin's witness chain
    life,        \* how often the origin has resumed from another log
    past,        \* histories an earlier life had signed up to
    roots,       \* roots the origin has signed
    beacon,      \* current_beacon: the salt it holds
    ledger,      \* the issuer's witness chain
    issuing,     \* the issuance in progress: the chain state it read
    salts,       \* salt envelopes released, in order
    skewed       \* salts another append slipped under

entangleVars == <<up, chain, life, past, roots, beacon,
                  ledger, issuing, salts, skewed>>

NoSalt == 0
Idle == [pc |-> "idle"]

EntangleInit ==
    /\ up = TRUE
    /\ chain = <<>> /\ life = 0 /\ past = {} /\ roots = {}
    /\ beacon = NoSalt
    /\ ledger = <<>> /\ issuing = Idle /\ salts = <<>> /\ skewed = {}

issuerVars == <<ledger, issuing, salts, skewed>>
originVars == <<up, chain, life, past, roots, beacon>>

(***************************************************************************)
(* The issuer.                                                             *)
(***************************************************************************)

\* receive_root: a stored root is witnessed; the store takes a count above
\* every count it holds.
ReceiveRoot(r) ==
    /\ issuing = Idle /\ Len(ledger) < MaxLedger
    /\ \A n \in DOMAIN ledger :
         ledger[n].kind = "PEER_ROOT" => Len(ledger[n].root) < Len(r)
    /\ ledger' = Append(ledger, [kind |-> "PEER_ROOT", salt |-> NoSalt,
                                 root |-> r])
    /\ UNCHANGED <<originVars, issuing, salts, skewed>>

\* RateLimiter and ChallengeRound append under chain.lock, not Node._lock.
OtherAppend ==
    /\ Len(ledger) < MaxLedger
    /\ Len(SelectSeq(ledger, LAMBDA e : e.kind = "OTHER")) < MaxOther
    /\ ledger' = Append(ledger, [kind |-> "OTHER", salt |-> NoSalt,
                                 root |-> <<>>])
    /\ UNCHANGED <<originVars, issuing, salts, skewed>>

\* SaltBeacon.issue, first half: the chain state the envelope will bind.
IssueRead(r) ==
    /\ issuing = Idle /\ Len(ledger) < MaxLedger
    /\ issuing' = [pc |-> "read", index |-> Len(ledger) + 1,
                   head |-> ledger, root |-> r]
    /\ UNCHANGED <<originVars, ledger, salts, skewed>>

IssueEnvelope ==
    [index |-> issuing.index, head |-> issuing.head, root |-> issuing.root]

\* SaltBeacon.issue, second half: sign, witness, release.
IssueAppend ==
    /\ issuing # Idle /\ Len(ledger) < MaxLedger
    /\ LET s == Len(salts) + 1
       IN  /\ ledger' = Append(ledger, [kind |-> "SALT_ISSUE", salt |-> s,
                                        root |-> issuing.root])
           /\ salts' = Append(salts, IssueEnvelope)
           /\ skewed' = IF Len(ledger) >= issuing.index
                        THEN skewed \cup {s} ELSE skewed
    /\ issuing' = Idle
    /\ UNCHANGED originVars

(***************************************************************************)
(* The origin.                                                             *)
(***************************************************************************)

SignRoot ==
    /\ up /\ chain # <<>> /\ chain \notin roots
    /\ roots' = roots \cup {chain}
    /\ UNCHANGED <<up, chain, life, past, beacon, issuerVars>>

\* pull_salts, on a response: beacon_from over the envelopes received.  A
\* response may come late, so any released salt may be the current beacon.
TakeBeacon(s) ==
    /\ up /\ beacon # s
    /\ beacon' = s
    /\ UNCHANGED <<up, chain, life, past, roots, issuerVars>>

\* _fresh_beacon: what is held while it is young, None afterwards; strict
\* refuses to append without one.
FreshBeacon == {beacon, NoSalt} \ (IF Strict THEN {NoSalt} ELSE {})

\* handle: the beacon its gate read goes into the INFER record.
Infer ==
    /\ up /\ Len(chain) < MaxChain
    /\ \E s \in FreshBeacon :
         chain' = Append(chain, [life |-> life, salt |-> s])
    /\ UNCHANGED <<up, life, past, roots, beacon, issuerVars>>

\* The process starts over a log that holds c.
Resume(c) ==
    /\ ~up
    /\ past' = past \cup {chain}
    /\ chain' = c /\ life' = life + 1
    /\ beacon' = NoSalt
    /\ up' = TRUE
    /\ UNCHANGED <<roots, issuerVars>>

EntangleNext ==
    \/ \E r \in roots : ReceiveRoot(r)
    \/ OtherAppend
    \/ \E r \in roots \cup {c \in {chain} : c = <<>>} : IssueRead(r)
    \/ IssueAppend
    \/ SignRoot
    \/ \E s \in DOMAIN salts : TakeBeacon(s)
    \/ Infer

(***************************************************************************)
(* The judgment.                                                           *)
(***************************************************************************)

(* Mutant: the last record that witnesses the root, not the first. *)
CheckpointLatest(r) ==
    LET at == {n \in DOMAIN ledger : ledger[n].root = r}
    IN  IF r = <<>> \/ at = {} THEN 0 ELSE Max(at)

\* find_issuer_checkpoint with root given: the earliest PEER_ROOT or
\* cross-linked SALT_ISSUE that names it.
Checkpoint(r) ==
    LET at == {n \in DOMAIN ledger : ledger[n].root = r}
    IN  IF r = <<>> \/ at = {} THEN 0 ELSE Min(at)

\* verify_beacon_against_issuer.
SaltVerifies(s) ==
    LET e == salts[s]
    IN  /\ e.index <= Len(ledger)
        /\ ledger[e.index].kind = "SALT_ISSUE"
        /\ ledger[e.index].salt = s
        /\ e.head = SubSeq(ledger, 1, e.index - 1)

BelowAgreed(c, r) == 1..Min({Len(c), Len(r)})

\* judge_divergence.scan: the verified salts of the records below the agreed
\* count, as their issuer indices, and those above the checkpoint.
Embedded(c, r) ==
    {salts[c[n].salt].index : n \in {k \in BelowAgreed(c, r) :
        c[k].salt # NoSalt /\ SaltVerifies(c[k].salt)}}
Proven(c, r) ==
    {x \in Embedded(c, r) : Checkpoint(r) > 0 /\ x > Checkpoint(r)}

Latest(c, r) == IF Embedded(c, r) = {} THEN 0 ELSE Max(Embedded(c, r))

JudgeDivergence(a, b, r) ==
    LET pa == Proven(a, r) # {}
        pb == Proven(b, r) # {}
    IN  IF pa # pb
        THEN [side |-> IF pa THEN "a" ELSE "b", confidence |-> "cryptographic"]
        ELSE [side |-> IF 0 \in {Latest(a, r), Latest(b, r)}
                            \/ Latest(a, r) = Latest(b, r)
                       THEN "none"
                       ELSE IF Latest(a, r) > Latest(b, r) THEN "a" ELSE "b",
              confidence |-> "evidential"]

\* issuance_inclusion and its verification, under the issuer's root of
\* count n: the record is searched by its salt hash.
IssuanceInclusion(s, n) ==
    \E k \in 1..n : ledger[k].kind = "SALT_ISSUE" /\ ledger[k].salt = s

(***************************************************************************)
(* Properties.                                                             *)
(***************************************************************************)

Histories == past \cup {chain}

(* judge_divergence finds no proof against a history that extends the      *)
(* agreed root, so it never convicts that side, whichever other history is *)
(* put beside it and however late roots, requests and salts were           *)
(* delivered.                                                              *)
ExtensionNeverConvicted ==
    \A r \in roots, h \in Histories : IsPrefix(r, h) => Proven(h, r) = {}

(* When the origin resumes below a root the issuer witnessed and embeds a  *)
(* salt issued after that, judge_divergence convicts the new history, even *)
(* if the issuer witnessed the old root once more afterwards.  A salt      *)
(* under which another record slipped does not verify and proves nothing.  *)
LateSaltConvicts ==
    life > 0 => \A r \in roots, g \in past :
        ( /\ IsPrefix(r, g) /\ ~IsPrefix(r, chain)
          /\ \E n \in 1..Min({Len(r), Len(chain)}) :
               LET s == chain[n].salt
               IN  /\ s # NoSalt /\ s \notin skewed
                   /\ \E i \in DOMAIN ledger, j \in DOMAIN ledger :
                        i < j /\ ledger[i].root = r /\ ledger[j].salt = s )
        => JudgeDivergence(g, chain, r) = [side |-> "b",
                                           confidence |-> "cryptographic"]

(* A salt the origin embedded can be proved issued: at its claimed index,  *)
(* or, when another append slipped under it, by the inclusion bundle under *)
(* the issuer's current root.                                              *)
EmbeddedSaltProvable ==
    \A h \in Histories : \A n \in DOMAIN h :
        h[n].salt # NoSalt =>
            /\ SaltVerifies(h[n].salt) \/ h[n].salt \in skewed
            /\ IssuanceInclusion(h[n].salt, Len(ledger))

(* Entanglement decides between two histories: the fork is convicted when  *)
(* a late salt gives it away, the extension never, and the salts the       *)
(* decision rests on can be proved.                                        *)
JudgeConvictsForks ==
    /\ ExtensionNeverConvicted
    /\ LateSaltConvicts
    /\ EmbeddedSaltProvable

=============================================================================
