--------------------------- MODULE ReleaseChain ---------------------------
(***************************************************************************)
(* The release ceremony of jjdai/release.py over the build of              *)
(* ReleaseBuild: the key registry, approvals and rebuild evidence,         *)
(* publication into the witness chain, verification of a publication, the  *)
(* tag, the toolset authorizer, and revocation of keys and of releases.    *)
(* jjdai/provenance.py contributes the debt gate and the derived scope.    *)
(*                                                                         *)
(* Signatures verify exactly when made by the key they name, and a hash    *)
(* names one object, so an approval is a record of what its key signed.    *)
(* Keys can sign at any time: the approvals of an attestation are chosen   *)
(* where they are checked.  A call that refuses writes nothing.  chain is  *)
(* the list of witness records; positions are 1-based.  What appends       *)
(* KEY_ACTIVATED, KEY_REVOKED and INFER, and who edits the registry file   *)
(* or the debt ledger, is outside release.py and external.                 *)
(***************************************************************************)
EXTENDS ReleaseBuild, Sequences

CONSTANTS
    KeyInfo,      \* what each key's registry entry would declare
    FirstKeys,    \* a sequence: the keys whose activation opens the chain
    MaxChain,     \* bound: witness records
    MaxStatements \* bound: statements ever assembled

Keys  == DOMAIN KeyInfo
Roles == {"builder", "verifier"}
Boundaries == {"publication", "meaning-of-a-release-tag"}

VARIABLES
    chain,      \* the witness chain
    sound,      \* does verify_chain() hold
    registry,   \* docs/release_keys.json: key -> positions it declares
    debt,       \* boundaries with an open position in the debt ledger
    stmts,      \* every statement assembled (dist/release-statement.json)
    publishing, \* the context of a publish() that has not yet the lock
    verifying,  \* a verification between its two halves
    authorizer  \* the authorizer built last: its snapshot and context

relVars == <<chain, sound, registry, debt, stmts, publishing,
             verifying, authorizer>>

None   == [none |-> TRUE]
Absent == [act |-> 0, rev |-> 0]
Record(kind, key, s, apps) == [kind |-> kind, key |-> key, stmt |-> s,
                               apps |-> apps]
IsAttested(r) == r.kind = "RELEASE_ATTESTED"

ReleaseInit ==
    /\ BuildInit
    /\ chain = [i \in DOMAIN FirstKeys |->
                   Record("KEY_ACTIVATED", FirstKeys[i], None, {})]
    /\ registry = [k \in Keys |->
           IF \E i \in DOMAIN FirstKeys : FirstKeys[i] = k
           THEN [act |-> CHOOSE i \in DOMAIN FirstKeys : FirstKeys[i] = k,
                 rev |-> 0]
           ELSE Absent]
    /\ sound = TRUE /\ stmts = {}
    /\ debt = Boundaries
    /\ publishing = None /\ verifying = None /\ authorizer = None

(* One type invariant for the ceremony and the build under it.             *)
ReleaseTypeOK ==
    /\ BuildTypeOK
    /\ Len(chain) <= MaxChain /\ sound \in BOOLEAN
    /\ \A i \in DOMAIN chain :
          chain[i].kind \in {"KEY_ACTIVATED", "KEY_REVOKED", "INFER",
                             "RELEASE_ATTESTED", "RELEASE_REVOKED"}
    /\ registry \in [Keys -> [act : 0..MaxChain, rev : 0..MaxChain]]
    /\ debt \subseteq Boundaries
    /\ verifying # None => IsAttested(chain[verifying.ref])

---------------------------------------------------------------------------
(* The registry.  load_registry: no two ids over one public key, no two    *)
(* devices on one physical host; an incomplete entry, an unknown role or   *)
(* an unwitnessed lifecycle binding is never loaded, so never here.        *)
LoadRegistry(ks) ==
    \A j, k \in ks : j # k =>
        /\ KeyInfo[j].public # KeyInfo[k].public
        /\ KeyInfo[j].host = KeyInfo[k].host
              => KeyInfo[j].device = KeyInfo[k].device

(* The ceremony opens with a registry that loads.                          *)
ASSUME ReleaseAssumption ==
    /\ FirstKeys \in Seq(Keys)
    /\ LoadRegistry({FirstKeys[i] : i \in DOMAIN FirstKeys})

Registered == {k \in Keys : registry[k].act # 0}

(* lifecycle_projection: what the chain says; the first transition counts. *)
Projection(kind, k) == {i \in DOMAIN chain : chain[i].kind = kind
                                             /\ chain[i].key = k}
First(S) == IF S = {} THEN 0 ELSE CHOOSE i \in S : \A j \in S : i <= j

(* Mutant: only the positions the registry presents are looked up, so a    *)
(* registry that omits a revocation passes.                                *)
LifecyclePresentedOnly(ks) ==
    \A k \in ks :
        /\ registry[k].act \in Projection("KEY_ACTIVATED", k)
        /\ registry[k].rev \in Projection("KEY_REVOKED", k) \cup {0}

(* check_lifecycle_witnessed, for the keys handed to it.                   *)
LifecycleWitnessed(ks) ==
    \A k \in ks :
        /\ registry[k].act \in Projection("KEY_ACTIVATED", k)
        /\ registry[k].rev \in Projection("KEY_REVOKED", k) \cup {0}
        /\ registry[k].act = First(Projection("KEY_ACTIVATED", k))
        /\ registry[k].rev = First(Projection("KEY_REVOKED", k))

(* key_valid_at: judged at a position, never "now".                        *)
KeyValidAt(k, at) == /\ registry[k].act <= at
                     /\ registry[k].rev # 0 => at < registry[k].rev

---------------------------------------------------------------------------
(* Approvals.  A verifier's approval carries the evidence of a rebuild:    *)
(* his own run of the recipe on the statement's tree.  The variants differ *)
(* in one thing each: the builder's run signed again, another class of     *)
(* host, another environment.                                              *)
Variants == {"rebuilt", "samerun", "otherclass", "otherenv"}

BuilderApproval(k, s) ==
    [stmt |-> s, key |-> k, role |-> "builder", run |-> 1, class |-> 1,
     evidence |-> None]
VerifierApproval(k, s, variant) ==
    LET run   == IF variant = "samerun" THEN 1 ELSE 2
        class == IF variant = "otherclass" THEN 2 ELSE 1
    IN [stmt |-> s, key |-> k, role |-> "verifier", run |-> run,
        class |-> class,
        evidence |->
            [stmt |-> s, key |-> k, run |-> run, class |-> class,
             tree |-> s.tree, arts |-> Genuine(s.tree),
             env |-> [epoch |-> s.tree,
                      host |-> IF variant = "otherenv" THEN 2 ELSE 1]]]

(* The statement of an earlier release of the same tree, whose approvals   *)
(* are still lying about: an approval may be carried to another statement. *)
Earlier == [version |-> 0, tree |-> 1, arts |-> Genuine(1), acc |-> NoRun,
            env |-> [epoch |-> 1, host |-> 1]]

(* derive_scope; the statement's scope is the script's default.            *)
DeriveScope(b, v) == IF b.run = v.run THEN "same-host"
                     ELSE IF b.class = v.class THEN "same-host-class"
                     ELSE "cross-host-class"

(* _check_scope: derived from the two approvals, equal to what is recorded.*)
ScopeAgrees(apps) ==
    \E b, v \in apps : /\ b.role = "builder" /\ v.role = "verifier"
                       /\ DeriveScope(b, v) = "same-host-class"

(* _check_environment and environment_matches, field by field.             *)
EnvironmentAgrees(s, measured) == s.env = measured

(* Mutant: the evidence is resolved and signed but not compared.           *)
EvidenceResolves(s, apps) ==
    \A a \in apps : a.role = "verifier" => a.evidence.stmt = s

(* _check_one_evidence: the verifier's own act, another run than the       *)
(* builder's, and the same bytes.                                          *)
OneEvidence(s, e, a, apps) ==
    /\ e.stmt = s /\ e.key = a.key /\ e.key \in Registered
    /\ \A b \in apps : b.role = "builder" => b.run # e.run
    /\ e.run = a.run /\ e.class = a.class
    /\ e.tree = s.tree /\ e.arts = s.arts
    /\ EnvironmentAgrees(s, e.env)
(* _check_rebuild_evidence.                                                *)
EvidenceAgrees(s, apps) ==
    \A a \in apps : a.evidence # None => OneEvidence(s, a.evidence, a, apps)

(* _check_acceptance: this run, green, of this tree.                       *)
AcceptanceAgrees(s, run) == s.acc = run /\ run.green /\ run.tree = s.tree
(* _check_bytes: the files are read as they are now.                       *)
BytesAgree(s) == \A a \in s.arts : dist[a[1]] = a[2]

(* _check_external: the statement against the world.                       *)
External(s, apps, ctx) ==
    /\ ctx.tag = s.version /\ ctx.tree = s.tree
    /\ AcceptanceAgrees(s, ctx.acc) /\ EnvironmentAgrees(s, ctx.env)
    /\ BytesAgree(s) /\ EvidenceAgrees(s, apps) /\ ScopeAgrees(apps)

(* validate_statement: no field empty, the artefact list least of all.     *)
StatementValid(s) == s.arts # {} /\ s.acc # NoRun
(* validate_approval: a verifier names evidence, a builder must not.       *)
ApprovalValid(a) == a.role \in Roles /\ (a.role = "verifier") = (a.evidence # None)

(* verify_attestation, at the position the record takes or holds.  The     *)
(* control block is counted through the registry and equals the recorded   *)
(* default: two signatures, keys and devices, one principal.               *)
VerifyAttestation(s, apps, at, ctx) ==
    LET info(a) == KeyInfo[a.key] IN
    /\ StatementValid(s)
    /\ \A a \in apps : /\ ApprovalValid(a) /\ a.stmt = s
                       /\ a.key \in Registered /\ KeyValidAt(a.key, at)
                       /\ a.role \in info(a).roles
    /\ \A a, b \in apps : a # b => /\ a.key # b.key
                                   /\ info(a).device # info(b).device
    /\ {a.role : a \in apps} = Roles
    /\ Cardinality(apps) = 2
    /\ Cardinality({info(a).principal : a \in apps}) = 1
    /\ External(s, apps, ctx)

(* _check_not_revoked: a matching record refuses, readable or not.         *)
RevokedBy(s, n) == \E i \in 1..n : /\ chain[i].kind = "RELEASE_REVOKED"
                                   /\ chain[i].stmt = s
NotRevoked(s) == ~RevokedBy(s, Len(chain))

(* _check_debt: no position open under this boundary.                      *)
NoDebt(boundary) == boundary \notin debt

---------------------------------------------------------------------------
(* Steps outside release.py that it must live with.                        *)
Free == Len(chain) < MaxChain
Witness(r) == Free /\ chain' = Append(chain, r)

ActivateKey(k) == /\ Projection("KEY_ACTIVATED", k) = {}
                  /\ Witness(Record("KEY_ACTIVATED", k, None, {}))
                  /\ UNCHANGED <<sound, registry, debt, stmts,
                                 publishing, verifying, authorizer>>
RevokeKey(k) == /\ Witness(Record("KEY_REVOKED", k, None, {}))
                /\ Projection("KEY_REVOKED", k) = {}
                /\ Projection("KEY_ACTIVATED", k) # {}
                /\ UNCHANGED <<sound, registry, debt, stmts,
                               publishing, verifying, authorizer>>
Infer == /\ publishing # None
         /\ Witness(Record("INFER", "none", None, {}))
         /\ UNCHANGED <<sound, registry, debt, stmts, publishing,
                        verifying, authorizer>>
Tamper == /\ sound /\ sound' = FALSE
          /\ UNCHANGED <<chain, registry, debt, stmts, publishing,
                         verifying, authorizer>>

(* The registry file is brought up to date with the chain and loaded.      *)
(* Between a key's record and this step the registry is stale: it hides a  *)
(* revocation the chain holds.                                             *)
EditRegistry(k) ==
    /\ Projection("KEY_ACTIVATED", k) # {} /\ LoadRegistry(Registered \cup {k})
    /\ registry' = [registry EXCEPT ![k] =
                       [act |-> First(Projection("KEY_ACTIVATED", k)),
                        rev |-> First(Projection("KEY_REVOKED", k))]]
    /\ registry' # registry
    /\ UNCHANGED <<chain, sound, debt, stmts, publishing, verifying,
                   authorizer>>

(* A debt position is closed with its evidence (project_debt); a settled   *)
(* position never reopens.                                                 *)
CloseDebt(b) == /\ b \in debt /\ debt' = debt \ {b}
                /\ UNCHANGED <<chain, sound, registry, stmts,
                               publishing, verifying, authorizer>>

---------------------------------------------------------------------------
(* make_release_statement.main.                                            *)
MakeStatement(v) ==
    /\ CanState /\ Cardinality(stmts \cup {Statement(v)}) <= MaxStatements
    /\ stmts' = stmts \cup {Statement(v)}
    /\ UNCHANGED <<chain, sound, registry, debt, publishing,
                   verifying, authorizer>>

(* publish: the complete context and the debt before the lock, everything  *)
(* else under it, and the append in the same hold.                         *)
PublishStart(v) ==
    /\ publishing = None /\ CanContext /\ NoDebt("publication")
    /\ publishing' = Context(v)
    /\ UNCHANGED <<chain, sound, registry, debt, stmts, verifying,
                   authorizer>>

(* Mutant: the revocation scan was made before the lock was taken.         *)
AttestableUnscanned(s) == sound /\ LifecycleWitnessed(Registered)

Attestable(s) == sound /\ LifecycleWitnessed(Registered) /\ NotRevoked(s)

PublishLocked(s) ==
    /\ publishing # None /\ Attestable(s)
    /\ \E t \in stmts \cup {Earlier}, b, k \in Keys, x \in Variants :
          LET apps == {BuilderApproval(b, s), VerifierApproval(k, t, x)} IN
          /\ VerifyAttestation(s, apps, Len(chain) + 1, publishing)
          /\ Witness(Record("RELEASE_ATTESTED", "none", s, apps))
    /\ publishing' = None
    /\ UNCHANGED <<sound, registry, debt, stmts, verifying, authorizer>>

PublishRefused == /\ publishing # None /\ publishing' = None
                  /\ UNCHANGED <<chain, sound, registry, debt,
                                 stmts, verifying, authorizer>>

(* revoke_release: reason, key and signature before the lock; soundness,   *)
(* the key's own lifecycle and its validity at the position under it.      *)
RevokeRelease(s, k) ==
    /\ k \in Registered /\ sound /\ LifecycleWitnessed({k})
    /\ KeyValidAt(k, Len(chain) + 1)
    /\ Witness(Record("RELEASE_REVOKED", k, s, {}))
    /\ UNCHANGED <<sound, registry, debt, stmts, publishing,
                   verifying, authorizer>>

---------------------------------------------------------------------------
(* verify_publication takes no lock: the lifecycle and revocation scan     *)
(* first, the chain, the reference and the attestation after.  att names   *)
(* the record the attestation was published in, ref the record the         *)
(* reference points at.                                                    *)
VerifyFirst(what, att, ref, ctx) ==
    /\ verifying = None
    /\ LifecycleWitnessed(Registered) /\ NotRevoked(chain[att].stmt)
    /\ verifying' = [what |-> what, att |-> att, ref |-> ref, ctx |-> ctx,
                     began |-> Len(chain), granted |-> FALSE]
    /\ UNCHANGED <<chain, sound, registry, debt, stmts, publishing,
                   authorizer>>

Attested == {i \in DOMAIN chain : IsAttested(chain[i])}

Resolves(ref, s, apps) == /\ IsAttested(chain[ref]) /\ chain[ref].stmt = s
                          /\ chain[ref].apps = apps

VerifySecond ==
    /\ verifying # None /\ ~verifying.granted /\ sound
    /\ LET s == chain[verifying.att].stmt  apps == chain[verifying.att].apps
       IN /\ Resolves(verifying.ref, s, apps)
          /\ VerifyAttestation(s, apps, verifying.ref, verifying.ctx)
    /\ verifying' = [verifying EXCEPT !.granted = TRUE]
    /\ authorizer' = IF verifying.what = "authorizer"
                     THEN [at |-> verifying.ref, ctx |-> verifying.ctx]
                     ELSE authorizer
    /\ UNCHANGED <<chain, sound, registry, debt, stmts, publishing>>

(* The caller has its answer, or a refusal.                                *)
VerifyReturns == /\ verifying # None /\ verifying' = None
                 /\ UNCHANGED <<chain, sound, registry, debt, stmts,
                                publishing, authorizer>>

(* The callers: check_release_tag, toolset_authorizer and the authorize    *)
(* callback it returns, which verifies its snapshot against the live chain.*)
CheckReleaseTag(att, ref, v) ==
    /\ CanContext /\ NoDebt("meaning-of-a-release-tag")
    /\ chain[att].stmt.version = v
    /\ VerifyFirst("tag", att, ref, Context(v))
ToolsetAuthorizer(att, ref, v) ==
    /\ CanContext /\ NoDebt("publication")
    /\ VerifyFirst("authorizer", att, ref, Context(v))
Authorize == /\ authorizer # None
             /\ VerifyFirst("use", authorizer.at, authorizer.at,
                            authorizer.ctx)

---------------------------------------------------------------------------
(* Bound: builders and developers work until the first release is in the   *)
(* chain, the other writers of the chain, the registry and the ledger act  *)
(* from then on; statements can be published again, so a publish() races   *)
(* all of them.                                                            *)
Building == Attested = {}

Ceremony ==
    \/ \E v \in Versions : MakeStatement(v) \/ PublishStart(v)
    \/ \E s \in stmts : PublishLocked(s)
    \/ PublishRefused
    \/ \E b \in Boundaries : CloseDebt(b)

Afterwards ==
    \/ \E k \in Keys : ActivateKey(k) \/ RevokeKey(k) \/ EditRegistry(k)
    \/ Infer \/ Tamper
    \/ \E s \in stmts, k \in Keys : RevokeRelease(s, k)
    \/ \E i, j \in Attested, v \in Versions :
          CheckReleaseTag(i, j, v) \/ ToolsetAuthorizer(i, j, v)
    \/ Authorize \/ VerifySecond \/ VerifyReturns

ReleaseNext ==
    \/ Building /\ BuildNext /\ UNCHANGED relVars
    \/ Ceremony /\ UNCHANGED buildVars
    \/ ~Building /\ Afterwards /\ UNCHANGED buildVars

ReleaseSpec == ReleaseInit /\ [][ReleaseNext]_<<buildVars, relVars>>

---------------------------------------------------------------------------
(* No record of the chain was signed by a dead key: at its own position,   *)
(* and by the chain's own lifecycle records, every key behind a release or *)
(* a revocation had been activated and not yet revoked.  The registry the  *)
(* callers hold may be stale; the chain is what decides.                   *)
AliveInChain(k, i) ==
    /\ \E j \in 1..(i - 1) : chain[j].kind = "KEY_ACTIVATED"
                             /\ chain[j].key = k
    /\ ~ \E j \in 1..(i - 1) : chain[j].kind = "KEY_REVOKED"
                               /\ chain[j].key = k
DeadKeysSignNothing ==
    \A i \in DOMAIN chain :
        /\ \A a \in chain[i].apps : AliveInChain(a.key, i)
        /\ chain[i].kind = "RELEASE_REVOKED" => AliveInChain(chain[i].key, i)

(* A release is revoked once and for all: no RELEASE_ATTESTED record of a  *)
(* statement follows a RELEASE_REVOKED record of it, whatever happened to  *)
(* the revoking key and however publish and revoke interleave, and no tag, *)
(* no authorizer and no answer of an authorizer is given for it by a       *)
(* verification that began after the revocation.                           *)
RevocationStands ==
    /\ \A i \in Attested : ~RevokedBy(chain[i].stmt, i)
    /\ verifying # None /\ verifying.granted
         => ~RevokedBy(chain[verifying.ref].stmt, verifying.began)

(* What was published is what the pinned recipe makes of the published     *)
(* commit, stale or foreign files in dist/ notwithstanding, and the two    *)
(* approvals come from two physical machines.                              *)
PublishedIsRebuilt ==
    \A i \in Attested :
        /\ chain[i].stmt.arts = Genuine(chain[i].stmt.tree)
        /\ Cardinality({KeyInfo[a.key].host : a \in chain[i].apps}) >= 2
===========================================================================
