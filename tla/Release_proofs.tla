--------------------------- MODULE Release_proofs ---------------------------
(***************************************************************************)
(* Proofs about ReleaseChain and about ToolRun, whose acts run under the   *)
(* manifest a release names.                                               *)
(*                                                                         *)
(* For any keys, any commits and any length of the chain: what the witness *)
(* chain says of releases and revocations was signed by live keys, rebuilt *)
(* on two machines and never revoked before.  For every set of manifests   *)
(* and modules, every pipe size, any amount of input and output and any    *)
(* number of acts: each runs under one sanction and answers in full.       *)
(***************************************************************************)
EXTENDS ReleaseChain, ToolRun, FiniteSetTheorems, WellFoundedInduction, TLAPS

(* A set of numbers that is not empty has a least.                         *)
LEMMA LeastExists ==
    ASSUME NEW S, S \subseteq Nat, S # {}
    PROVE  \E i \in S : \A j \in S : i <= j
<1>1. \E i \in S : \A j \in S : ~(<<j, i>> \in OpToRel(<, Nat))
  BY NatLessThanWellFounded, WFMin, Zenon
<1>2. PICK i \in S : \A j \in S : ~(<<j, i>> \in OpToRel(<, Nat))
  BY <1>1
<1>3. \A j \in S : ~(j < i)
  BY <1>2 DEF OpToRel
<1>4. \A j \in S : i <= j
  BY <1>3
<1> QED
  BY <1>2, <1>4, Zenon

(* lifecycle_projection: the first transition is one of them, and there is *)
(* none exactly when the position is zero.                                 *)
LEMMA FirstIsFirst ==
    ASSUME NEW S, S \subseteq Nat, 0 \notin S
    PROVE  /\ First(S) \in Nat
           /\ First(S) = 0 => S = {}
           /\ S # {} => First(S) \in S /\ \A j \in S : First(S) <= j
<1>1. CASE S = {}
  BY <1>1 DEF First
<1>2. CASE S # {}
  <2>1. \E i \in S : \A j \in S : i <= j
    BY <1>2, LeastExists
  <2>2. First(S) = CHOOSE i \in S : \A j \in S : i <= j
    BY <1>2 DEF First
  <2>3. First(S) \in S /\ \A j \in S : First(S) <= j
    BY <2>1, <2>2
  <2> QED
    BY <1>2, <2>3
<1> QED
  BY <1>1, <1>2

---------------------------------------------------------------------------
(* The chain is a sequence.                                                *)
IsChain == chain \in Seq({chain[i] : i \in DOMAIN chain})

(* witness.append: one record more, the earlier ones where they were.      *)
LEMMA Appended ==
    ASSUME IsChain, NEW r, chain' = Append(chain, r)
    PROVE  /\ IsChain' /\ Len(chain) \in Nat
           /\ DOMAIN chain = 1..Len(chain)
           /\ DOMAIN chain' = 1..(Len(chain) + 1)
           /\ Len(chain') = Len(chain) + 1
           /\ \A i \in 1..Len(chain) : chain'[i] = chain[i]
           /\ chain'[Len(chain) + 1] = r
<1> DEFINE S == {chain[i] : i \in DOMAIN chain}
<1>1. chain \in Seq(S)
  BY DEF IsChain
<1>2. chain \in Seq(S \union {r}) /\ r \in S \union {r}
  <2> HIDE DEF S
  <2> QED
    BY <1>1
<1>3. /\ Len(chain) \in Nat /\ DOMAIN chain = 1..Len(chain)
      /\ DOMAIN chain' = 1..(Len(chain) + 1) /\ Len(chain') = Len(chain) + 1
      /\ \A i \in 1..Len(chain) : chain'[i] = chain[i]
      /\ chain'[Len(chain) + 1] = r
      /\ chain' \in Seq(S \union {r})
  <2> HIDE DEF S
  <2> QED
    BY <1>2
<1>4. chain' \in Seq({chain'[i] : i \in DOMAIN chain'})
  <2> HIDE DEF S
  <2> QED
    BY <1>3
<1> QED
  BY <1>3, <1>4 DEF IsChain

---------------------------------------------------------------------------
(* What every prefix of the chain satisfies.                               *)
ReleasesStand == \A i \in Attested : ~RevokedBy(chain[i].stmt, i)
ChainOK == DeadKeysSignNothing /\ PublishedIsRebuilt /\ ReleasesStand

(* What a record must satisfy to be appended.                              *)
SignedAlive(r) ==
    /\ \A a \in r.apps : AliveInChain(a.key, Len(chain) + 1)
    /\ r.kind = "RELEASE_REVOKED" => AliveInChain(r.key, Len(chain) + 1)
Rebuilt(r) ==
    /\ r.stmt.arts = Genuine(r.stmt.tree)
    /\ Cardinality({KeyInfo[a.key].host : a \in r.apps}) >= 2
Sanctioned(r) == IsAttested(r) => Rebuilt(r) /\ NotRevoked(r.stmt)

(* A record signed by live keys and sanctioned keeps the chain good.       *)
LEMMA GoodRecord ==
    ASSUME IsChain, ChainOK, NEW r, chain' = Append(chain, r),
           SignedAlive(r), Sanctioned(r)
    PROVE  ChainOK'
<1> DEFINE n == Len(chain)
<1>1. /\ n \in Nat /\ DOMAIN chain = 1..n /\ DOMAIN chain' = 1..(n + 1)
      /\ \A i \in 1..n : chain'[i] = chain[i]
      /\ chain'[n + 1] = r
  BY Appended
<1> HIDE DEF n
<1>2. ASSUME NEW k, NEW i \in 1..(n + 1), AliveInChain(k, i) PROVE AliveInChain(k, i)'
  <2>1. \A j \in 1..(i - 1) : chain'[j] = chain[j]
    BY <1>1
  <2> QED
    BY <1>2, <2>1 DEF AliveInChain
<1>3. DeadKeysSignNothing'
  <2> DEFINE Live(k, i) ==
               /\ \E j \in 1..(i - 1) : chain'[j].kind = "KEY_ACTIVATED" /\ chain'[j].key = k
               /\ ~ \E j \in 1..(i - 1) : chain'[j].kind = "KEY_REVOKED" /\ chain'[j].key = k
  <2>0. /\ DeadKeysSignNothing' = \A i \in DOMAIN chain' :
              /\ \A a \in chain'[i].apps : Live(a.key, i)
              /\ chain'[i].kind = "RELEASE_REVOKED" => Live(chain'[i].key, i)
        /\ \A k, i : AliveInChain(k, i)' => Live(k, i)
    BY DEF DeadKeysSignNothing, AliveInChain
  <2> HIDE DEF Live
  <2> SUFFICES ASSUME NEW i \in 1..(n + 1), NEW k,
                      \/ \E a \in chain'[i].apps : k = a.key
                      \/ chain'[i].kind = "RELEASE_REVOKED" /\ k = chain'[i].key
               PROVE  AliveInChain(k, i)'
    BY <1>1, <2>0
  <2>1. ASSUME i \in 1..n PROVE AliveInChain(k, i)
    BY <1>1, <2>1 DEF ChainOK, DeadKeysSignNothing
  <2>2. ASSUME i = n + 1 PROVE AliveInChain(k, i)
    BY <1>1, <2>2 DEF SignedAlive, n
  <2> QED
    BY <1>1, <1>2, <2>1, <2>2
<1>4. PublishedIsRebuilt'
  <2> SUFFICES ASSUME NEW i \in 1..(n + 1), IsAttested(chain'[i]) PROVE Rebuilt(chain'[i])
    BY <1>1 DEF PublishedIsRebuilt, Attested, Rebuilt
  <2>1. ASSUME i \in 1..n PROVE Rebuilt(chain'[i])
    BY <1>1, <2>1 DEF ChainOK, PublishedIsRebuilt, Attested, Rebuilt
  <2>2. ASSUME i = n + 1 PROVE Rebuilt(chain'[i])
    BY <1>1, <2>2 DEF Sanctioned
  <2> QED
    BY <1>1, <2>1, <2>2
<1>5. ReleasesStand'
  <2> SUFFICES ASSUME NEW i \in 1..(n + 1), IsAttested(chain'[i]),
                      NEW j \in 1..i, chain'[j].kind = "RELEASE_REVOKED",
                      chain'[j].stmt = chain'[i].stmt
               PROVE  FALSE
    BY <1>1 DEF ReleasesStand, Attested, RevokedBy
  <2>1. ASSUME i \in 1..n PROVE FALSE
    <3>1. j \in 1..n /\ chain'[j] = chain[j] /\ chain'[i] = chain[i]
      BY <1>1, <2>1
    <3> QED
      BY <1>1, <2>1, <3>1 DEF ChainOK, ReleasesStand, Attested, RevokedBy
  <2>2. ASSUME i = n + 1 PROVE FALSE
    <3>1. chain'[i] = r /\ NotRevoked(r.stmt)
      BY <1>1, <2>2 DEF Sanctioned
    <3>2. j # n + 1
      BY <1>1, <2>2 DEF IsAttested
    <3>3. j \in 1..n /\ chain'[j] = chain[j]
      BY <1>1, <2>2, <3>2
    <3> QED
      BY <3>1, <3>3 DEF NotRevoked, RevokedBy, n
  <2> QED
    BY <1>1, <2>1, <2>2
<1> QED
  BY <1>3, <1>4, <1>5 DEF ChainOK

---------------------------------------------------------------------------
(* check_lifecycle_witnessed and key_valid_at together: a key valid at the *)
(* next position by a registry that tells what the chain tells is alive    *)
(* there by the chain itself.                                              *)
LEMMA WitnessedIsAlive ==
    ASSUME IsChain, NEW ks, LifecycleWitnessed(ks), NEW k \in ks,
           KeyValidAt(k, Len(chain) + 1)
    PROVE  AliveInChain(k, Len(chain) + 1)
<1> DEFINE A == Projection("KEY_ACTIVATED", k)  R == Projection("KEY_REVOKED", k)
<1>1. Len(chain) \in Nat /\ DOMAIN chain = 1..Len(chain) /\ (Len(chain) + 1) - 1 = Len(chain)
  BY DEF IsChain
<1>2. R \subseteq 1..Len(chain) /\ A \subseteq 1..Len(chain)
  BY <1>1 DEF Projection
<1>3. registry[k].act \in A /\ registry[k].rev \in R \union {0} /\ registry[k].rev = First(R)
  BY DEF LifecycleWitnessed
<1>4. registry[k].rev # 0 => Len(chain) + 1 < registry[k].rev
  BY DEF KeyValidAt
<1>5. R = {}
  <2> HIDE DEF R, A
  <2>1. R \subseteq Nat /\ 0 \notin R
    BY <1>1, <1>2
  <2>2. registry[k].rev = 0
    <3>1. ASSUME registry[k].rev \in R PROVE FALSE
      <4>1. registry[k].rev \in 1..Len(chain)
        BY <1>2, <3>1
      <4> QED
        BY <1>1, <1>4, <4>1
    <3> QED
      BY <1>3, <3>1
  <2> QED
    BY <1>3, <2>1, <2>2, FirstIsFirst
<1>6. \E j \in 1..Len(chain) : chain[j].kind = "KEY_ACTIVATED" /\ chain[j].key = k
  BY <1>1, <1>3 DEF Projection
<1>7. ~ \E j \in 1..Len(chain) : chain[j].kind = "KEY_REVOKED" /\ chain[j].key = k
  BY <1>1, <1>5 DEF Projection
<1> QED
  BY <1>1, <1>6, <1>7 DEF AliveInChain

(* Two hosts are two.                                                      *)
LEMMA TwoIsTwo ==
    ASSUME NEW a, NEW b, a # b
    PROVE  Cardinality({a, b}) >= 2
<1>1. IsFiniteSet({a}) /\ Cardinality({a}) = 1
  BY FS_Singleton, Zenon
<1>2. Cardinality({a} \union {b}) = Cardinality({a}) + 1
  BY <1>1, FS_AddElement
<1>3. {a} \union {b} = {a, b}
  OBVIOUS
<1> QED
  BY <1>1, <1>2, <1>3

(* verify_attestation with _check_rebuild_evidence and the registry: what  *)
(* is accepted carries the artefacts the recipe makes of its tree, and is  *)
(* approved from two physical hosts.                                       *)
LEMMA AcceptedIsRebuilt ==
    ASSUME LoadRegistry(Registered), NEW s, NEW t, NEW b, NEW k, NEW x, NEW at, NEW ctx,
           VerifyAttestation(s, {BuilderApproval(b, s), VerifierApproval(k, t, x)}, at, ctx)
    PROVE  Rebuilt(Record("RELEASE_ATTESTED", "none", s,
                          {BuilderApproval(b, s), VerifierApproval(k, t, x)}))
<1> DEFINE ba == BuilderApproval(b, s)  va == VerifierApproval(k, t, x)  apps == {ba, va}
<1>1. /\ ba.role = "builder" /\ ba.key = b
      /\ va.role = "verifier" /\ va.key = k /\ va.stmt = t
      /\ va.evidence.arts = Genuine(t.tree)
  BY DEF BuilderApproval, VerifierApproval
<1> HIDE DEF ba, va
<1>2. /\ \A a \in apps : ApprovalValid(a) /\ a.stmt = s /\ a.key \in Registered
      /\ \A a, c \in apps : a # c => /\ a.key # c.key
                                     /\ KeyInfo[a.key].device # KeyInfo[c.key].device
      /\ EvidenceAgrees(s, apps)
  BY DEF VerifyAttestation, External, ba, va
<1>3. t = s /\ va.evidence # None
  BY <1>1, <1>2 DEF ApprovalValid
<1>4. s.arts = Genuine(s.tree)
  BY <1>1, <1>2, <1>3 DEF EvidenceAgrees, OneEvidence
<1>5. ba # va
  BY <1>1
<1>6. b \in Registered /\ k \in Registered /\ b # k /\ KeyInfo[b].device # KeyInfo[k].device
  BY <1>1, <1>2, <1>5
<1>7. KeyInfo[b].host # KeyInfo[k].host
  BY <1>6 DEF LoadRegistry
<1>8. {KeyInfo[a.key].host : a \in apps} = {KeyInfo[b].host, KeyInfo[k].host}
  BY <1>1
<1>9. Cardinality({KeyInfo[a.key].host : a \in apps}) >= 2
  BY <1>7, <1>8, TwoIsTwo
<1> QED
  BY <1>4, <1>9 DEF Rebuilt, Record, ba, va

---------------------------------------------------------------------------
(* The registry declares positions of known keys and loads.                *)
RegistryLoads ==
    /\ registry \in [Keys -> [act : Nat, rev : Nat]]
    /\ LoadRegistry(Registered)

(* A verification in flight reads records that are there; when it began    *)
(* its release was not revoked, and what it granted is that release.       *)
VerifyingOK ==
    verifying # None =>
        /\ verifying = [what |-> verifying.what, att |-> verifying.att,
                        ref |-> verifying.ref, ctx |-> verifying.ctx,
                        began |-> verifying.began, granted |-> verifying.granted]
        /\ verifying.att \in DOMAIN chain /\ verifying.ref \in DOMAIN chain
        /\ verifying.began \in 0..Len(chain)
        /\ ~RevokedBy(chain[verifying.att].stmt, verifying.began)
        /\ verifying.granted => chain[verifying.ref].stmt = chain[verifying.att].stmt

(* The snapshot of an authorizer is in the chain.                          *)
AuthorizerOK == authorizer # None => authorizer.at \in DOMAIN chain

(* The inductive invariant.                                                *)
ReleaseInv == IsChain /\ ChainOK /\ RegistryLoads /\ VerifyingOK /\ AuthorizerOK

(* The initial chain holds activations only and the registry follows it.   *)
LEMMA ReleaseInvInit == ReleaseInit => ReleaseInv
<1> SUFFICES ASSUME ReleaseInit PROVE ReleaseInv
  OBVIOUS
<1>1. /\ chain = [i \in DOMAIN FirstKeys |-> Record("KEY_ACTIVATED", FirstKeys[i], None, {})]
      /\ verifying = None /\ authorizer = None
  BY DEF ReleaseInit
<1>2. /\ FirstKeys \in Seq(Keys) /\ Len(FirstKeys) \in Nat
      /\ DOMAIN FirstKeys = 1..Len(FirstKeys)
  BY ReleaseAssumption
<1>3. IsChain
  BY <1>1, <1>2 DEF IsChain
<1>4. \A i \in DOMAIN chain : chain[i].kind = "KEY_ACTIVATED" /\ chain[i].apps = {}
  BY <1>1 DEF Record
<1>5. ChainOK
  BY <1>4 DEF ChainOK, DeadKeysSignNothing, PublishedIsRebuilt, ReleasesStand, Attested,
              IsAttested
<1>6. RegistryLoads
  <2> DEFINE at(k) == CHOOSE i \in DOMAIN FirstKeys : FirstKeys[i] = k
             first == {FirstKeys[i] : i \in DOMAIN FirstKeys}
  <2>1. registry = [k \in Keys |-> IF \E i \in DOMAIN FirstKeys : FirstKeys[i] = k
                                   THEN [act |-> at(k), rev |-> 0] ELSE Absent]
    BY DEF ReleaseInit
  <2>2. \A k \in Keys : (\E i \in DOMAIN FirstKeys : FirstKeys[i] = k) => at(k) \in Nat
    <3> SUFFICES ASSUME NEW k \in Keys, \E i \in DOMAIN FirstKeys : FirstKeys[i] = k
                 PROVE  at(k) \in Nat
      OBVIOUS
    <3>1. at(k) \in DOMAIN FirstKeys
      OBVIOUS
    <3> QED
      BY <1>2, <3>1
  <2> HIDE DEF at
  <2>3. registry \in [Keys -> [act : Nat, rev : Nat]]
    BY <2>1, <2>2 DEF Absent
  <2>4. Registered \subseteq first
    BY <2>1 DEF Registered, Absent
  <2>5. LoadRegistry(first)
    BY ReleaseAssumption
  <2>6. LoadRegistry(Registered)
    <3> HIDE DEF first
    <3> QED
      BY <2>4, <2>5 DEF LoadRegistry
  <2> QED
    BY <2>3, <2>6 DEF RegistryLoads
<1> QED
  BY <1>1, <1>3, <1>5, <1>6 DEF ReleaseInv, VerifyingOK, AuthorizerOK

---------------------------------------------------------------------------
(* The records of a chain nobody appended to are as good as before.        *)
LEMMA ChainKept ==
    ASSUME ChainOK, UNCHANGED chain
    PROVE  ChainOK'
<1>1. DeadKeysSignNothing'
  BY DEF ChainOK, DeadKeysSignNothing, AliveInChain
<1>2. PublishedIsRebuilt'
  BY DEF ChainOK, PublishedIsRebuilt, Attested
<1>3. ReleasesStand'
  BY DEF ChainOK, ReleasesStand, Attested, RevokedBy
<1> QED
  BY <1>1, <1>2, <1>3 DEF ChainOK

(* A step that leaves the chain, the verification and the authorizer alone *)
(* changes nothing the invariant says of them.                             *)
LEMMA ChainUntouched ==
    ASSUME ReleaseInv, UNCHANGED <<chain, verifying, authorizer>>
    PROVE  IsChain' /\ ChainOK' /\ VerifyingOK' /\ AuthorizerOK'
<1>1. IsChain' /\ AuthorizerOK'
  BY DEF ReleaseInv, IsChain, AuthorizerOK
<1>2. VerifyingOK'
  BY DEF ReleaseInv, VerifyingOK, RevokedBy
<1>3. ChainOK'
  BY ChainKept DEF ReleaseInv
<1> QED
  BY <1>1, <1>2, <1>3

(* A registry that was not edited still loads.                             *)
LEMMA RegistryUntouched ==
    ASSUME RegistryLoads, UNCHANGED registry
    PROVE  RegistryLoads'
  BY DEF RegistryLoads, Registered

(* Another record does not disturb a verification in flight.               *)
LEMMA AppendKeeps ==
    ASSUME ReleaseInv, NEW r, chain' = Append(chain, r), UNCHANGED <<verifying, authorizer>>
    PROVE  IsChain' /\ VerifyingOK' /\ AuthorizerOK'
<1>1. /\ IsChain' /\ Len(chain) \in Nat /\ DOMAIN chain = 1..Len(chain)
      /\ DOMAIN chain' = 1..(Len(chain) + 1) /\ Len(chain') = Len(chain) + 1
      /\ \A i \in 1..Len(chain) : chain'[i] = chain[i]
  BY Appended DEF ReleaseInv
<1>2. AuthorizerOK'
  BY <1>1 DEF ReleaseInv, AuthorizerOK
<1>3. VerifyingOK'
  <2> SUFFICES ASSUME verifying # None PROVE VerifyingOK'
    BY DEF VerifyingOK
  <2>1. /\ verifying = [what |-> verifying.what, att |-> verifying.att,
                        ref |-> verifying.ref, ctx |-> verifying.ctx,
                        began |-> verifying.began, granted |-> verifying.granted]
        /\ verifying.att \in 1..Len(chain) /\ verifying.ref \in 1..Len(chain)
        /\ verifying.began \in 0..Len(chain)
        /\ ~RevokedBy(chain[verifying.att].stmt, verifying.began)
        /\ verifying.granted => chain[verifying.ref].stmt = chain[verifying.att].stmt
    BY <1>1 DEF ReleaseInv, VerifyingOK
  <2>2. \A i \in 1..verifying.began : i \in 1..Len(chain)
    BY <1>1, <2>1
  <2>3. ~ \E i \in 1..verifying.began : /\ chain'[i].kind = "RELEASE_REVOKED"
                                        /\ chain'[i].stmt = chain'[verifying.att].stmt
    BY <1>1, <2>1, <2>2 DEF RevokedBy
  <2>4. /\ verifying.att \in DOMAIN chain' /\ verifying.ref \in DOMAIN chain'
        /\ verifying.began \in 0..Len(chain')
        /\ verifying.granted => chain'[verifying.ref].stmt = chain'[verifying.att].stmt
    BY <1>1, <2>1
  <2> QED
    BY <2>1, <2>3, <2>4 DEF VerifyingOK, RevokedBy
<1> QED
  BY <1>1, <1>2, <1>3

(* A record of a key's lifecycle or of other work binds no release.        *)
LEMMA PlainRecord ==
    ASSUME ReleaseInv, NEW kind \in {"KEY_ACTIVATED", "KEY_REVOKED", "INFER"}, NEW k,
           Witness(Record(kind, k, None, {})), UNCHANGED <<registry, verifying, authorizer>>
    PROVE  ReleaseInv'
<1> DEFINE r == Record(kind, k, None, {})
<1>1. chain' = Append(chain, r)
  BY DEF Witness
<1>2. r.kind # "RELEASE_REVOKED" /\ r.kind # "RELEASE_ATTESTED" /\ r.apps = {}
  BY DEF Record
<1> HIDE DEF r
<1>3. SignedAlive(r) /\ Sanctioned(r)
  BY <1>2 DEF SignedAlive, Sanctioned, IsAttested
<1>4. ChainOK'
  BY <1>1, <1>3, GoodRecord DEF ReleaseInv
<1> QED
  BY <1>1, <1>4, AppendKeeps, RegistryUntouched DEF ReleaseInv

(* publish under the lock: the record it appends is signed by live keys,   *)
(* rebuilt, and of a statement no record has revoked.                      *)
LEMMA PublishKeeps ==
    ASSUME ReleaseInv, NEW s, PublishLocked(s)
    PROVE  ReleaseInv'
<1>1. PICK t \in stmts \union {Earlier}, b \in Keys, k \in Keys, x \in Variants :
        /\ VerifyAttestation(s, {BuilderApproval(b, s), VerifierApproval(k, t, x)},
                             Len(chain) + 1, publishing)
        /\ Witness(Record("RELEASE_ATTESTED", "none", s,
                          {BuilderApproval(b, s), VerifierApproval(k, t, x)}))
  BY DEF PublishLocked
<1> DEFINE apps == {BuilderApproval(b, s), VerifierApproval(k, t, x)}
           r == Record("RELEASE_ATTESTED", "none", s, apps)
<1>2. Rebuilt(r)
  BY <1>1, AcceptedIsRebuilt DEF ReleaseInv, RegistryLoads
<1> HIDE DEF apps
<1>3. VerifyAttestation(s, apps, Len(chain) + 1, publishing) /\ chain' = Append(chain, r)
  BY <1>1 DEF apps, Witness
<1>4. r.kind = "RELEASE_ATTESTED" /\ r.stmt = s /\ r.apps = apps
  BY DEF Record
<1> HIDE DEF r
<1>5. /\ LifecycleWitnessed(Registered) /\ NotRevoked(s)
      /\ UNCHANGED <<registry, verifying, authorizer>>
  BY DEF PublishLocked, Attestable
<1>6. \A a \in apps : a.key \in Registered /\ KeyValidAt(a.key, Len(chain) + 1)
  BY <1>3 DEF VerifyAttestation
<1>7. \A a \in apps : AliveInChain(a.key, Len(chain) + 1)
  BY <1>5, <1>6, WitnessedIsAlive DEF ReleaseInv
<1>8. SignedAlive(r) /\ Sanctioned(r)
  BY <1>2, <1>4, <1>5, <1>7 DEF SignedAlive, Sanctioned
<1>9. ChainOK'
  BY <1>3, <1>8, GoodRecord DEF ReleaseInv
<1> QED
  BY <1>3, <1>5, <1>9, AppendKeeps, RegistryUntouched DEF ReleaseInv

(* revoke_release: the revoking key is alive at the record's position.     *)
LEMMA RevokeKeeps ==
    ASSUME ReleaseInv, NEW s, NEW k, RevokeRelease(s, k)
    PROVE  ReleaseInv'
<1> DEFINE r == Record("RELEASE_REVOKED", k, s, {})
<1>1. /\ chain' = Append(chain, r) /\ LifecycleWitnessed({k})
      /\ KeyValidAt(k, Len(chain) + 1) /\ UNCHANGED <<registry, verifying, authorizer>>
  BY DEF RevokeRelease, Witness
<1>2. r.kind = "RELEASE_REVOKED" /\ r.key = k /\ r.apps = {}
  BY DEF Record
<1> HIDE DEF r
<1>3. AliveInChain(k, Len(chain) + 1)
  BY <1>1, WitnessedIsAlive DEF ReleaseInv
<1>4. SignedAlive(r) /\ Sanctioned(r)
  BY <1>2, <1>3 DEF SignedAlive, Sanctioned, IsAttested
<1>5. ChainOK'
  BY <1>1, <1>4, GoodRecord DEF ReleaseInv
<1> QED
  BY <1>1, <1>5, AppendKeeps, RegistryUntouched DEF ReleaseInv

(* The registry is edited only into one that loads.                        *)
LEMMA EditKeeps ==
    ASSUME ReleaseInv, NEW k \in Keys, EditRegistry(k)
    PROVE  ReleaseInv'
<1> DEFINE entry == [act |-> First(Projection("KEY_ACTIVATED", k)),
                     rev |-> First(Projection("KEY_REVOKED", k))]
<1>1. /\ registry' = [registry EXCEPT ![k] = entry]
      /\ LoadRegistry(Registered \union {k}) /\ UNCHANGED <<chain, verifying, authorizer>>
  BY DEF EditRegistry
<1>2. \A kind : Projection(kind, k) \subseteq Nat /\ 0 \notin Projection(kind, k)
  BY DEF Projection, ReleaseInv, IsChain
<1>3. entry \in [act : Nat, rev : Nat]
  BY <1>2, FirstIsFirst
<1> HIDE DEF entry
<1>4. registry' \in [Keys -> [act : Nat, rev : Nat]]
  BY <1>1, <1>3 DEF ReleaseInv, RegistryLoads
<1>5. Registered' \subseteq Registered \union {k}
  BY <1>1 DEF ReleaseInv, RegistryLoads, Registered
<1>6. LoadRegistry(Registered)'
  BY <1>1, <1>5 DEF LoadRegistry
<1> QED
  BY <1>1, <1>4, <1>6, ChainUntouched DEF ReleaseInv, RegistryLoads

(* A verification begins on a release no record has revoked by then.       *)
LEMMA FirstKeeps ==
    ASSUME ReleaseInv, NEW what, NEW att \in DOMAIN chain, NEW ref \in DOMAIN chain, NEW ctx,
           VerifyFirst(what, att, ref, ctx)
    PROVE  ReleaseInv'
<1>1. /\ verifying' = [what |-> what, att |-> att, ref |-> ref, ctx |-> ctx,
                       began |-> Len(chain), granted |-> FALSE]
      /\ NotRevoked(chain[att].stmt) /\ UNCHANGED <<chain, registry, authorizer>>
  BY DEF VerifyFirst
<1>2. Len(chain) \in Nat
  BY DEF ReleaseInv, IsChain
<1>3. VerifyingOK'
  BY <1>1, <1>2 DEF VerifyingOK, NotRevoked, RevokedBy
<1>4. IsChain' /\ AuthorizerOK'
  BY <1>1 DEF ReleaseInv, IsChain, AuthorizerOK
<1>5. ChainOK'
  BY <1>1, ChainKept DEF ReleaseInv
<1> QED
  BY <1>1, <1>3, <1>4, <1>5, RegistryUntouched DEF ReleaseInv

(* What the second half grants is the release the first half looked up.    *)
LEMMA SecondKeeps ==
    ASSUME ReleaseInv, VerifySecond \/ VerifyReturns
    PROVE  ReleaseInv'
<1>1. UNCHANGED <<chain, registry>>
  BY DEF VerifySecond, VerifyReturns
<1>2. VerifyingOK' /\ AuthorizerOK'
  <2>1. CASE VerifyReturns
    BY <2>1 DEF VerifyReturns, ReleaseInv, VerifyingOK, AuthorizerOK
  <2>2. CASE VerifySecond
    <3>1. /\ verifying # None /\ verifying' = [verifying EXCEPT !.granted = TRUE]
          /\ chain[verifying.ref].stmt = chain[verifying.att].stmt
          /\ \/ authorizer' = authorizer
             \/ authorizer' = [at |-> verifying.ref, ctx |-> verifying.ctx]
      BY <2>2 DEF VerifySecond, Resolves
    <3>2. /\ verifying = [what |-> verifying.what, att |-> verifying.att,
                          ref |-> verifying.ref, ctx |-> verifying.ctx,
                          began |-> verifying.began, granted |-> verifying.granted]
          /\ verifying.att \in DOMAIN chain /\ verifying.ref \in DOMAIN chain
          /\ verifying.began \in 0..Len(chain)
          /\ ~RevokedBy(chain[verifying.att].stmt, verifying.began)
      BY <3>1 DEF ReleaseInv, VerifyingOK
    <3>3. verifying' = [what |-> verifying.what, att |-> verifying.att,
                        ref |-> verifying.ref, ctx |-> verifying.ctx,
                        began |-> verifying.began, granted |-> TRUE]
      BY <3>1, <3>2
    <3>4. VerifyingOK'
      BY <1>1, <3>1, <3>2, <3>3 DEF VerifyingOK, RevokedBy
    <3>5. AuthorizerOK'
      BY <1>1, <3>1, <3>2 DEF ReleaseInv, AuthorizerOK
    <3> QED
      BY <3>4, <3>5
  <2> QED
    BY <2>1, <2>2
<1>3. IsChain'
  BY <1>1 DEF ReleaseInv, IsChain
<1>4. ChainOK'
  BY <1>1, ChainKept DEF ReleaseInv
<1> QED
  BY <1>1, <1>2, <1>3, <1>4, RegistryUntouched DEF ReleaseInv

(* Every step keeps the invariant.                                         *)
LEMMA ReleaseInvNext ==
    ASSUME ReleaseInv, [ReleaseNext]_<<buildVars, relVars>>
    PROVE  ReleaseInv'
<1>1. CASE UNCHANGED <<chain, registry, verifying, authorizer>>
  BY <1>1, ChainUntouched, RegistryUntouched DEF ReleaseInv
<1>2. CASE Ceremony
  <2>1. ASSUME NEW s \in stmts, PublishLocked(s) PROVE ReleaseInv'
    BY <2>1, PublishKeeps
  <2>2. \/ \E s \in stmts : PublishLocked(s)
        \/ UNCHANGED <<chain, registry, verifying, authorizer>>
    BY <1>2 DEF Ceremony, MakeStatement, PublishStart, PublishRefused, CloseDebt
  <2> QED
    BY <1>1, <2>1, <2>2
<1>3. CASE Afterwards
  <2>1. ASSUME NEW k \in Keys, ActivateKey(k) \/ RevokeKey(k) PROVE ReleaseInv'
    BY <2>1, PlainRecord DEF ActivateKey, RevokeKey
  <2>2. ASSUME NEW k \in Keys, EditRegistry(k) PROVE ReleaseInv'
    BY <2>2, EditKeeps
  <2>3. ASSUME Infer PROVE ReleaseInv'
    BY <2>3, PlainRecord DEF Infer
  <2>4. ASSUME Tamper PROVE ReleaseInv'
    BY <1>1, <2>4 DEF Tamper
  <2>5. ASSUME NEW s \in stmts, NEW k \in Keys, RevokeRelease(s, k) PROVE ReleaseInv'
    BY <2>5, RevokeKeeps
  <2>6. ASSUME NEW i \in Attested, NEW j \in Attested, NEW v \in Versions,
               CheckReleaseTag(i, j, v) \/ ToolsetAuthorizer(i, j, v)
        PROVE  ReleaseInv'
    BY <2>6, FirstKeeps DEF CheckReleaseTag, ToolsetAuthorizer, Attested
  <2>7. ASSUME Authorize PROVE ReleaseInv'
    <3>1. authorizer.at \in DOMAIN chain
      BY <2>7 DEF Authorize, ReleaseInv, AuthorizerOK
    <3> QED
      BY <2>7, <3>1, FirstKeeps DEF Authorize
  <2>8. ASSUME VerifySecond \/ VerifyReturns PROVE ReleaseInv'
    BY <2>8, SecondKeeps
  <2> QED
    BY <1>3, <2>1, <2>2, <2>3, <2>4, <2>5, <2>6, <2>7, <2>8 DEF Afterwards
<1> QED
  BY <1>1, <1>2, <1>3 DEF ReleaseNext, relVars

---------------------------------------------------------------------------
(* The invariant holds throughout.                                         *)
LEMMA ReleaseInvAlways == ReleaseSpec => []ReleaseInv
  BY ReleaseInvInit, ReleaseInvNext, PTL DEF ReleaseSpec

(* check_lifecycle_witnessed, key_valid_at: every key behind a release or  *)
(* a revocation had been activated and not revoked before the record, by   *)
(* the chain's own lifecycle records, however stale the registry was.      *)
THEOREM DeadKeysNeverSign == ReleaseSpec => []DeadKeysSignNothing
<1>1. ReleaseInv => DeadKeysSignNothing
  BY DEF ReleaseInv, ChainOK
<1> QED
  BY <1>1, ReleaseInvAlways, PTL

(* _check_rebuild_evidence and load_registry: what is published is what    *)
(* the recipe makes of the commit, approved from two physical hosts.       *)
THEOREM PublishedAlwaysRebuilt == ReleaseSpec => []PublishedIsRebuilt
<1>1. ReleaseInv => PublishedIsRebuilt
  BY DEF ReleaseInv, ChainOK
<1> QED
  BY <1>1, ReleaseInvAlways, PTL

(* publish, revoke_release and verify_publication: no release follows its  *)
(* revocation, and none is granted by a verification begun after it.       *)
THEOREM RevocationAlwaysStands == ReleaseSpec => []RevocationStands
<1>1. ReleaseInv => RevocationStands
  BY DEF ReleaseInv, ChainOK, ReleasesStand, RevocationStands, VerifyingOK
<1> QED
  BY <1>1, ReleaseInvAlways, PTL

---------------------------------------------------------------------------
(* Tool runs.                                                              *)
Pcs == {"idle", "gate", "ready", "hashed", "resolved", "argv", "limits", "exec", "judge",
        "over", "lost"}
Acts == [pc : Pcs, pin : Modules \union {"none"}, limit : Nat,
         ran : Modules \union {"none"}, sawRevoked : BOOLEAN,
         result : {"none", "refused", "raised", "breach", "ok", "error", "flood", "timeout"},
         given : Nat]
IOs == [pending : Nat, inPipe : Nat, toRead : Nat, toOut : Nat, toErr : Nat,
        outPipe : Nat, errPipe : Nat, out : Nat, err : Nat, exit : Exits,
        killed : {"no", "flood", "timeout"}]

----------------------------------------------------------------------------
(* The inductive invariant.                                                *)

Types ==
    /\ released \in Manifests /\ manifest \in Manifests
    /\ module \in Modules \union {"none"}
    /\ revoked \in BOOLEAN /\ contained \in BOOLEAN
    /\ toolKey \in [act : Nat, rev : Nat]
    /\ act \in Acts /\ io \in IOs
    /\ log \in [intents : Nat, outcomes : Nat]

(* What an act saw revoked stays revoked.                                  *)
SeenIsRevoked == act.sawRevoked => revoked

(* From the digest on, the pin is the one of the release's manifest.       *)
PinIsReleased ==
    act.pc \in {"resolved", "argv", "limits", "exec", "judge"}
        => act.pin = ManifestInfo[released].module

(* A runtime that reports a breach has its message somewhere between the   *)
(* guest and the reader; when the streams have ended it has been read.     *)
MessageInTransit ==
    act.pc \in {"exec", "judge"} /\ io.exit = "breach" => io.toErr + io.errPipe + io.err > 0
StreamsEnded == act.pc = "judge" => io.killed # "no" \/ Drained

(* Nothing is handed on before the verdict.                                *)
NothingYet ==
    /\ act.pc # "over" => act.given = 0
    /\ act.pc \in {"gate", "ready", "hashed", "resolved", "argv", "limits"}
          => io.killed = "no" /\ act.result = "none"

IInv ==
    /\ Types
    /\ SeenIsRevoked
    /\ PinIsReleased
    /\ MessageInTransit
    /\ StreamsEnded
    /\ NothingYet
    /\ OneSanctionPerAct
    /\ NoPartialAnswer

(* A manifest that loads is the one the release names, signed and judged   *)
(* at the position of the release, and the release is not revoked.         *)
LEMMA ToolsetIsReleased ==
    ASSUME Toolset # {}
    PROVE  /\ manifest = released /\ ~revoked
           /\ LET doc == ManifestInfo[released] IN
              /\ doc.signed /\ doc.signer /\ doc.claims \in {0, AttestedAt}
           /\ toolKey.act <= AttestedAt
           /\ toolKey.rev # 0 => AttestedAt < toolKey.rev
<1>1. ManifestValid(manifest)
  BY DEF Toolset
<1> QED
  BY <1>1 DEF ManifestValid, SanctionForm, KeyAuthorized, Authorizes

(* Before the first act there is nothing to say.                           *)
LEMMA InitEstablishes == ToolInit => IInv
<1> SUFFICES ASSUME ToolInit PROVE IInv
  OBVIOUS
<1>1. Types
  <2>1. module \in Modules /\ released \in Manifests /\ manifest \in Manifests
    BY ToolAssumption DEF ToolInit
  <2>2. act \in Acts
    BY DEF ToolInit, NoAct, Acts, Pcs
  <2>3. io \in IOs
    BY DEF ToolInit, NoIO, IOs, Exits
  <2>4. toolKey \in [act : Nat, rev : Nat]
    BY ToolAssumption DEF ToolInit
  <2>5. log \in [intents : Nat, outcomes : Nat] /\ contained \in BOOLEAN
    BY DEF ToolInit
  <2>6. revoked \in BOOLEAN
    BY Zenon DEF ToolInit
  <2> QED
    BY <2>1, <2>2, <2>3, <2>4, <2>5, <2>6 DEF Types
<1>2. act.pc = "idle" /\ act.given = 0 /\ act.sawRevoked = FALSE
  BY DEF ToolInit, NoAct
<1> QED
  BY <1>1, <1>2 DEF IInv, SeenIsRevoked, PinIsReleased, MessageInTransit, StreamsEnded,
                    NothingYet, OneSanctionPerAct, NoPartialAnswer

(* One round of the guest and of the selector loop: no chunk is lost       *)
(* between the guest's error stream and its counter.                       *)
LEMMA ExecEffect ==
    ASSUME Types, Exec
    PROVE  /\ io' \in IOs /\ io'.exit = io.exit
           /\ io'.toErr + io'.errPipe + io'.err = io.toErr + io.errPipe + io.err
<1>0. io \in IOs /\ FloodBudget \in Nat
  BY DEF Types, FloodBudget, Acts
<1> DEFINE Goal == /\ io' \in IOs /\ io'.exit = io.exit
                   /\ io'.toErr + io'.errPipe + io'.err = io.toErr + io.errPipe + io.err
<1>1. CASE ChildWrites("toOut", "outPipe")
  BY ONLY <1>0, <1>1 DEF ChildWrites, IOs
<1>2. CASE ChildWrites("toErr", "errPipe")
  BY ONLY <1>0, <1>2 DEF ChildWrites, IOs
<1>3. CASE ChildReads
  <2>1. io.toRead - 1 \in Nat /\ io.inPipe - 1 \in Nat
    BY ONLY <1>0, <1>3 DEF ChildReads, IOs
  <2>2. io' = [io EXCEPT !.toRead = io.toRead - 1, !.inPipe = io.inPipe - 1]
    BY ONLY <1>3 DEF ChildReads
  <2>3. io' \in IOs
    BY ONLY <1>0, <2>1, <2>2 DEF IOs
  <2>4. /\ io'.exit = io.exit
        /\ io'.toErr + io'.errPipe + io'.err = io.toErr + io.errPipe + io.err
    BY ONLY <1>0, <2>1, <2>2 DEF IOs
  <2> QED
    BY <2>3, <2>4
<1>4. CASE ServeOutput("outPipe", "out")
  <2>a. io.outPipe > 0
    BY ONLY <1>4, Zenon DEF ServeOutput
  <2>0. io.outPipe - 1 \in Nat /\ io.out + 1 \in Nat
    BY ONLY <1>0, <2>a DEF IOs
  <2>1. /\ io.outPipe - 1 \in Nat /\ io.out + 1 \in Nat
        /\ (IF io.out + 1 > FloodBudget THEN "flood" ELSE io.killed)
              \in {"no", "flood", "timeout"}
    BY ONLY <1>0, <2>0 DEF IOs
  <2>2. io' = [io EXCEPT !.outPipe = io.outPipe - 1, !.out = io.out + 1,
                       !.killed = IF io.out + 1 > FloodBudget THEN "flood" ELSE io.killed]
    BY ONLY <1>4 DEF ServeOutput
  <2>3. io' \in IOs
    BY ONLY <1>0, <2>1, <2>2 DEF IOs
  <2>4. /\ io'.exit = io.exit
        /\ io'.toErr + io'.errPipe + io'.err = io.toErr + io.errPipe + io.err
    BY ONLY <1>0, <2>1, <2>2 DEF IOs
  <2> QED
    BY <2>3, <2>4
<1>5. CASE ServeOutput("errPipe", "err")
  <2>a. io.errPipe > 0
    BY ONLY <1>5, Zenon DEF ServeOutput
  <2>0. io.errPipe - 1 \in Nat /\ io.err + 1 \in Nat
    BY ONLY <1>0, <2>a DEF IOs
  <2>1. /\ io.errPipe - 1 \in Nat /\ io.err + 1 \in Nat
        /\ (IF io.err + 1 > FloodBudget THEN "flood" ELSE io.killed)
              \in {"no", "flood", "timeout"}
    BY ONLY <1>0, <2>0 DEF IOs
  <2>2. io' = [io EXCEPT !.errPipe = io.errPipe - 1, !.err = io.err + 1,
                       !.killed = IF io.err + 1 > FloodBudget THEN "flood" ELSE io.killed]
    BY ONLY <1>5 DEF ServeOutput
  <2>3. io' \in IOs
    BY ONLY <1>0, <2>1, <2>2 DEF IOs
  <2>4. /\ io'.exit = io.exit
        /\ io'.toErr + io'.errPipe + io'.err = io.toErr + io.errPipe + io.err
    BY ONLY <1>0, <2>1, <2>2 DEF IOs
  <2> QED
    BY <2>3, <2>4
<1>6. CASE FeedInput
  <2>1. io.pending - 1 \in Nat /\ io.inPipe + 1 \in Nat
    BY ONLY <1>0, <1>6 DEF FeedInput, IOs
  <2>2. io' = [io EXCEPT !.pending = io.pending - 1, !.inPipe = io.inPipe + 1]
    BY ONLY <1>6 DEF FeedInput
  <2>3. io' \in IOs
    BY ONLY <1>0, <2>1, <2>2 DEF IOs
  <2>4. /\ io'.exit = io.exit
        /\ io'.toErr + io'.errPipe + io'.err = io.toErr + io.errPipe + io.err
    BY ONLY <1>0, <2>1, <2>2 DEF IOs
  <2> QED
    BY <2>3, <2>4
<1>7. CASE Deadline
  BY ONLY <1>0, <1>7 DEF Deadline, IOs
<1> QED
  BY <1>1, <1>2, <1>3, <1>4, <1>5, <1>6, <1>7 DEF Exec, GuestStep, ParentStep

(* The verdict's result and answer.                                        *)
LEMMA JudgeType ==
    ASSUME Types
    PROVE  /\ Judge.result \in {"breach", "ok", "error", "flood", "timeout"}
           /\ Judge.given \in Nat
<1>1. Kept \in Nat
  BY DEF Types, IOs, Acts, Kept, Lesser
<1>2. Ending \in {"breach", "ok", "error", "flood", "timeout"}
  BY DEF Types, IOs, Exits, Ending
<1> QED
  BY <1>1, <1>2 DEF Judge

(* Every step keeps the types.                                             *)
LEMMA TypesPreserved == Types /\ [ToolNext]_vars => Types'
<1> SUFFICES ASSUME Types, [ToolNext]_vars PROVE Types'
  OBVIOUS
<1>0. \A m \in Manifests : ManifestInfo[m].module \in Modules /\ ManifestInfo[m].limit \in Nat
  BY ToolAssumption
<1>1. CASE Refused
  <2>1. act' \in Acts
    BY <1>1 DEF Refused, Types, Acts, Pcs
  <2>2. log' \in [intents : Nat, outcomes : Nat]
    BY <1>1 DEF Refused, Types
  <2> QED
    BY <1>1, <2>1, <2>2 DEF Refused, World, Types
<1>2. CASE Lost
  BY <1>2 DEF Lost, World, Types, Acts, Pcs
<1>3. ASSUME NEW p \in Pcs, Goto(p), UNCHANGED <<World, io>>,
             log' = log \/ log' = [log EXCEPT !.intents = @ + 1]
      PROVE  Types'
  BY <1>3 DEF Goto, World, Types, Acts
<1>4. CASE Gate
  <2>1. act' \in Acts
    BY <1>4 DEF Gate, NoAct, Acts, Pcs, Types
  <2>2. io' \in IOs
    BY <1>4 DEF Gate, NoIO, IOs, Exits
  <2> QED
    BY <1>4, <2>1, <2>2 DEF Gate, World, Types
<1>5. CASE EmitIntent
  BY <1>3, <1>5 DEF EmitIntent, Pcs
<1>6. CASE RuntimeReady
  BY <1>1, <1>3, <1>6 DEF RuntimeReady, Pcs
<1>7. CASE HashModule
  <2>1. CASE /\ Toolset # {} /\ module = ManifestInfo[manifest].module
             /\ act' = [act EXCEPT !.pc = "resolved", !.pin = module]
             /\ UNCHANGED <<World, io, log>>
    BY <2>1 DEF World, Types, Acts, Pcs
  <2> QED
    BY <1>1, <1>7, <2>1 DEF HashModule
<1>8. CASE CheckImports
  BY <1>1, <1>3, <1>8 DEF CheckImports, Pcs
<1>9. CASE ArgvLimits
  BY <1>2, <1>3, <1>9 DEF ArgvLimits, Pcs
<1>10. CASE RunLimits
  <2>1. CASE Toolset # {}
    <3>1. \E i \in 0..MaxIn, o, e \in 0..MaxOut, x \in Exits :
          \E r \in 0..i :
            /\ x = "breach" => e > 0
            /\ io' = [NoIO EXCEPT !.pending = i, !.toRead = r, !.toOut = o, !.toErr = e,
                                  !.exit = x]
      BY <1>10, <2>1, Zenon DEF RunLimits
    <3>2. io' \in IOs
      <4>1. PICK i \in 0..MaxIn, o \in 0..MaxOut, e \in 0..MaxOut, x \in Exits :
              \E r \in 0..i : io' = [NoIO EXCEPT !.pending = i, !.toRead = r, !.toOut = o,
                                                !.toErr = e, !.exit = x]
        BY <3>1
      <4>2. PICK r \in 0..i : io' = [NoIO EXCEPT !.pending = i, !.toRead = r, !.toOut = o,
                                                !.toErr = e, !.exit = x]
        BY <4>1
      <4>3. i \in Nat /\ r \in Nat /\ o \in Nat /\ e \in Nat
        OBVIOUS
      <4> QED
        BY <4>2, <4>3 DEF NoIO, IOs
    <3>3. act' \in Acts
      BY <1>0, <1>10, <2>1 DEF RunLimits, Types, Acts, Pcs
    <3> QED
      BY <1>10, <2>1, <3>2, <3>3 DEF RunLimits, World, Types
  <2>2. CASE Toolset = {}
    BY <1>2, <1>10, <2>2 DEF RunLimits
  <2> QED
    BY <2>1, <2>2
<1>11. CASE Exec
  BY <1>11, ExecEffect DEF Exec, World, Types
<1>12. CASE Reap
  BY <1>3, <1>12 DEF Reap, Pcs
<1>13. CASE Outcome
  <2>1. act' \in Acts
    BY <1>13, JudgeType DEF Outcome, Types, Acts, Pcs
  <2> QED
    BY <1>13, <2>1 DEF Outcome, World, Types
<1>14. ASSUME NEW m \in Manifests, ReplaceManifest(m) PROVE Types'
  BY <1>14 DEF ReplaceManifest, Types
<1>15. ASSUME NEW x \in Modules \union {"none"}, ReplaceModule(x) PROVE Types'
  BY <1>15 DEF ReplaceModule, Types
<1>16. CASE RevokeTheRelease
  <2>1. revoked' \in BOOLEAN
    BY <1>16, Zenon DEF RevokeTheRelease
  <2> QED
    BY <1>16, <2>1 DEF RevokeTheRelease, Types
<1>17. CASE RevokeToolKey
  BY <1>17, ToolAssumption DEF RevokeToolKey, Types
<1>18. CASE UNCHANGED vars
  BY <1>18 DEF vars, Types
<1> QED
  BY <1>4, <1>5, <1>6, <1>7, <1>8, <1>9, <1>10, <1>11, <1>12, <1>13, <1>14, <1>15, <1>16,
     <1>17, <1>18 DEF ToolNext, ActStep, WorldStep

(* However the files are swapped between two reads, the reads that let the *)
(* act go on all saw the manifest the release names.                       *)
LEMMA SanctionPreserved ==
    IInv /\ [ToolNext]_vars => SeenIsRevoked' /\ PinIsReleased' /\ OneSanctionPerAct'
<1> SUFFICES ASSUME IInv, [ToolNext]_vars
             PROVE  SeenIsRevoked' /\ PinIsReleased' /\ OneSanctionPerAct'
  OBVIOUS
<1>0. Types /\ SeenIsRevoked /\ PinIsReleased /\ OneSanctionPerAct
      /\ act \in Acts /\ revoked \in BOOLEAN
  BY DEF IInv, Types
<1> DEFINE Goal == SeenIsRevoked' /\ PinIsReleased' /\ OneSanctionPerAct'
<1>1. ASSUME act'.pc \in {"gate", "ready", "hashed", "over", "lost"}, UNCHANGED World,
             act'.sawRevoked => revoked
      PROVE  Goal
  BY <1>1 DEF SeenIsRevoked, PinIsReleased, OneSanctionPerAct, World
<1>2. ASSUME Refused \/ Lost PROVE Goal
  BY <1>0, <1>1, <1>2 DEF Refused, Lost, Acts, SeenIsRevoked
<1>3. ASSUME NEW p \in {"ready", "hashed", "argv", "limits", "judge"}, Goto(p),
             UNCHANGED World,
             p \in {"argv", "limits"} => act.pc \in {"resolved", "argv"},
             p = "judge" => act.pc = "exec"
      PROVE  Goal
  <2>1. act'.pc = p /\ act'.pin = act.pin /\ act'.limit = act.limit
        /\ act'.sawRevoked = act.sawRevoked
    BY <1>0, <1>3 DEF Goto, Acts
  <2> QED
    BY <1>0, <1>3, <2>1 DEF World, SeenIsRevoked, PinIsReleased, OneSanctionPerAct
<1>4. CASE Gate
  <2>1. act'.pc = "gate" /\ act'.sawRevoked = revoked /\ UNCHANGED World
    BY <1>4 DEF Gate, NoAct
  <2> QED
    BY <1>1, <2>1
<1>5. CASE EmitIntent
  BY <1>3, <1>5 DEF EmitIntent
<1>6. CASE RuntimeReady
  BY <1>2, <1>3, <1>6 DEF RuntimeReady
<1>7. CASE HashModule
  <2>1. CASE /\ Toolset # {} /\ module = ManifestInfo[manifest].module
             /\ act' = [act EXCEPT !.pc = "resolved", !.pin = module]
             /\ UNCHANGED <<World, io, log>>
    <3>1. act'.pc = "resolved" /\ act'.pin = module /\ act'.sawRevoked = act.sawRevoked
      BY <1>0, <2>1 DEF Acts
    <3>2. module = ManifestInfo[released].module
      BY <2>1, ToolsetIsReleased
    <3> QED
      BY <1>0, <2>1, <3>1, <3>2
         DEF World, SeenIsRevoked, PinIsReleased, OneSanctionPerAct
  <2> QED
    BY <1>2, <1>7, <2>1 DEF HashModule
<1>8. CASE CheckImports
  BY <1>2, <1>3, <1>8 DEF CheckImports
<1>9. CASE ArgvLimits
  BY <1>2, <1>3, <1>9 DEF ArgvLimits
<1>10. CASE RunLimits
  <2>1. CASE Toolset = {}
    BY <1>2, <1>10, <2>1 DEF RunLimits
  <2>2. CASE Toolset # {}
    <3>1. /\ act' = [act EXCEPT !.pc = "exec", !.limit = ManifestInfo[manifest].limit,
                                !.ran = module]
          /\ UNCHANGED World /\ act.pc = "limits"
      BY <1>10, <2>2 DEF RunLimits
    <3>2. act'.pc = "exec" /\ act'.pin = act.pin /\ act'.sawRevoked = act.sawRevoked
          /\ act'.limit = ManifestInfo[manifest].limit
      BY <1>0, <3>1 DEF Acts
    <3>3. act.pin = ManifestInfo[released].module /\ ~act.sawRevoked
      BY <1>0, <2>2, <3>1, ToolsetIsReleased DEF PinIsReleased, SeenIsRevoked
    <3>4. UNCHANGED <<released, revoked, toolKey>>
      BY <3>1 DEF World
    <3>5. toolKey.rev # 0 => toolKey.rev > AttestedAt
      BY <1>0, <2>2, ToolsetIsReleased, ToolAssumption DEF Types
    <3>6. /\ manifest = released /\ toolKey.act <= AttestedAt
          /\ ManifestInfo[released].signed /\ ManifestInfo[released].signer
          /\ ManifestInfo[released].claims \in {0, AttestedAt}
      BY <2>2, ToolsetIsReleased
    <3>7. OneSanctionPerAct'
      BY <3>2, <3>3, <3>4, <3>5, <3>6 DEF OneSanctionPerAct
    <3> QED
      BY <1>0, <3>2, <3>3, <3>4, <3>7 DEF SeenIsRevoked, PinIsReleased
  <2> QED
    BY <2>1, <2>2
<1>11. CASE Exec
  BY <1>0, <1>11 DEF Exec, World, SeenIsRevoked, PinIsReleased, OneSanctionPerAct
<1>12. CASE Reap
  BY <1>3, <1>12 DEF Reap
<1>13. CASE Outcome
  BY <1>0, <1>1, <1>13 DEF Outcome, Acts, SeenIsRevoked
<1>14. CASE Resolving /\ WorldStep
  <2>1. released' = released /\ act' = act /\ (revoked => revoked')
    BY <1>14 DEF WorldStep, ReplaceManifest, ReplaceModule, RevokeTheRelease, RevokeToolKey
  <2>2. act.pc \notin {"exec", "judge"}
    BY <1>14 DEF Resolving
  <2> QED
    BY <1>0, <2>1, <2>2 DEF SeenIsRevoked, PinIsReleased, OneSanctionPerAct
<1>15. CASE UNCHANGED vars
  BY <1>0, <1>15 DEF vars, SeenIsRevoked, PinIsReleased, OneSanctionPerAct
<1> QED
  BY <1>4, <1>5, <1>6, <1>7, <1>8, <1>9, <1>10, <1>11, <1>12, <1>13, <1>14, <1>15
     DEF ToolNext, ActStep

(* The verdict: what is handed on as a success is everything the tool      *)
(* wrote, and a breach or a flood hands on nothing.                        *)
LEMMA JudgeIsWhole ==
    ASSUME IInv, act.pc = "judge"
    PROVE  /\ Judge.result = "ok" => /\ Judge.given = io.out + io.err
                                     /\ Judge.given <= act.limit
           /\ Judge.result = "breach" \/ io.killed = "flood" => Judge.given = 0
<1>0. /\ io.out \in Nat /\ io.err \in Nat /\ act.limit \in Nat
      /\ io.killed \in {"no", "flood", "timeout"}
  BY DEF IInv, Types, Acts, IOs
<1>1. CASE RuntimeBreach \/ OverLimit
  BY <1>1 DEF Judge
<1>2. CASE ~(RuntimeBreach \/ OverLimit)
  <2>1. Judge.result = Ending /\ Judge.given = Kept
    BY <1>2 DEF Judge
  <2>2. Kept = io.out + io.err /\ io.out + io.err <= act.limit /\ io.killed # "flood"
    BY <1>0, <1>2 DEF OverLimit, Truncated, Kept, Lesser
  <2>3. Ending # "breach"
    <3> SUFFICES ASSUME io.killed = "no", io.exit = "breach" PROVE FALSE
      BY <1>0 DEF Ending
    <3>1. io.toErr = 0 /\ io.errPipe = 0
      BY DEF IInv, StreamsEnded, Drained
    <3>2. io.err > 0
      BY <1>0, <3>1 DEF IInv, MessageInTransit
    <3> QED
      BY <1>2, <3>2 DEF RuntimeBreach
  <2> QED
    BY <2>1, <2>2, <2>3
<1> QED
  BY <1>1, <1>2

(* The pipes keep the runtime's message, and nothing is handed on before   *)
(* the verdict.                                                            *)
LEMMA AnswerPreserved ==
    IInv /\ [ToolNext]_vars
        => MessageInTransit' /\ StreamsEnded' /\ NothingYet' /\ NoPartialAnswer'
<1> SUFFICES ASSUME IInv, [ToolNext]_vars
             PROVE  MessageInTransit' /\ StreamsEnded' /\ NothingYet' /\ NoPartialAnswer'
  OBVIOUS
<1>0. /\ Types /\ MessageInTransit /\ StreamsEnded /\ NothingYet /\ NoPartialAnswer
      /\ act \in Acts /\ io \in IOs
  BY DEF IInv, Types
<1> DEFINE Goal == MessageInTransit' /\ StreamsEnded' /\ NothingYet' /\ NoPartialAnswer'
<1>1. ASSUME Refused, act.pc \in {"ready", "hashed", "resolved"} PROVE Goal
  <2>1. act'.pc = "over" /\ act'.result = "refused" /\ act'.given = act.given /\ io' = io
    BY <1>0, <1>1 DEF Refused, Acts
  <2> QED
    BY <1>0, <1>1, <2>1
       DEF MessageInTransit, StreamsEnded, NothingYet, NoPartialAnswer
<1>2. ASSUME Lost, act.pc \in {"argv", "limits"} PROVE Goal
  <2>1. act'.pc = "lost" /\ act'.given = act.given /\ io' = io
    BY <1>0, <1>2 DEF Lost, Acts
  <2> QED
    BY <1>0, <1>2, <2>1
       DEF MessageInTransit, StreamsEnded, NothingYet, NoPartialAnswer
<1>3. ASSUME NEW p \in {"ready", "hashed", "resolved", "argv", "limits"},
             act'.pc = p, act'.given = act.given, act'.result = act.result, io' = io,
             act.pc \in {"gate", "ready", "hashed", "resolved", "argv"}
      PROVE  Goal
  BY <1>0, <1>3 DEF MessageInTransit, StreamsEnded, NothingYet, NoPartialAnswer
<1>4. CASE Gate
  <2>1. act'.pc = "gate" /\ act'.given = 0 /\ act'.result = "none" /\ io'.killed = "no"
    BY <1>4 DEF Gate, NoAct, NoIO
  <2> QED
    BY <2>1 DEF MessageInTransit, StreamsEnded, NothingYet, NoPartialAnswer
<1>5. ASSUME NEW p \in Pcs, Goto(p)
      PROVE  act'.pc = p /\ act'.given = act.given /\ act'.result = act.result
  BY <1>0, <1>5 DEF Goto, Acts
<1>6. CASE EmitIntent
  BY <1>3, <1>5, <1>6 DEF EmitIntent, Pcs
<1>7. CASE RuntimeReady
  BY <1>1, <1>3, <1>5, <1>7 DEF RuntimeReady, Pcs
<1>8. CASE HashModule
  <2>1. CASE /\ act' = [act EXCEPT !.pc = "resolved", !.pin = module]
             /\ UNCHANGED <<World, io, log>>
    <3>1. act'.pc = "resolved" /\ act'.given = act.given /\ act'.result = act.result
      BY <1>0, <2>1 DEF Acts
    <3> QED
      BY <1>3, <1>8, <2>1, <3>1 DEF HashModule
  <2> QED
    BY <1>1, <1>8, <2>1 DEF HashModule
<1>9. CASE CheckImports
  BY <1>1, <1>3, <1>5, <1>9 DEF CheckImports, Pcs
<1>10. CASE ArgvLimits
  BY <1>2, <1>3, <1>5, <1>10 DEF ArgvLimits, Pcs
<1>11. CASE RunLimits
  <2>1. CASE Toolset = {}
    BY <1>2, <1>11, <2>1 DEF RunLimits
  <2>2. CASE Toolset # {}
    <3>1. \E i \in 0..MaxIn, o, e \in 0..MaxOut, x \in Exits :
          \E r \in 0..i :
            /\ x = "breach" => e > 0
            /\ io' = [NoIO EXCEPT !.pending = i, !.toRead = r, !.toOut = o, !.toErr = e,
                                  !.exit = x]
      BY <1>11, <2>2, Zenon DEF RunLimits
    <3>2. PICK e \in 0..MaxOut, x \in Exits :
            \E i \in 0..MaxIn, o \in 0..MaxOut : \E r \in 0..i :
              /\ x = "breach" => e > 0
              /\ io' = [NoIO EXCEPT !.pending = i, !.toRead = r, !.toOut = o, !.toErr = e,
                                    !.exit = x]
      BY <3>1
    <3>3. io'.toErr = e /\ io'.exit = x /\ io'.errPipe = 0 /\ io'.err = 0
          /\ (x = "breach" => e > 0)
      BY <3>2 DEF NoIO
    <3>4. act'.pc = "exec" /\ act'.given = act.given
      BY <1>0, <1>11, <2>2 DEF RunLimits, Acts
    <3>5. act.pc = "limits"
      BY <1>11 DEF RunLimits
    <3> QED
      BY <1>0, <3>3, <3>4, <3>5
         DEF MessageInTransit, StreamsEnded, NothingYet, NoPartialAnswer
  <2> QED
    BY <2>1, <2>2
<1>12. CASE Exec
  <2>1. act' = act /\ act.pc = "exec"
    BY <1>12 DEF Exec
  <2> QED
    BY <1>0, <1>12, <2>1, ExecEffect
       DEF MessageInTransit, StreamsEnded, NothingYet, NoPartialAnswer
<1>13. CASE Reap
  <2>1. act'.pc = "judge" /\ act'.given = act.given /\ io' = io /\ act.pc = "exec"
        /\ (io.killed # "no" \/ Drained)
    BY <1>5, <1>13 DEF Reap, Pcs
  <2> QED
    BY <1>0, <2>1
       DEF MessageInTransit, StreamsEnded, NothingYet, NoPartialAnswer, Drained
<1>14. CASE Outcome
  <2>1. /\ act'.pc = "over" /\ act'.result = Judge.result /\ act'.given = Judge.given
        /\ act'.limit = act.limit /\ io' = io /\ act.pc = "judge"
    BY <1>0, <1>14 DEF Outcome, Acts
  <2> QED
    BY <2>1, JudgeIsWhole
       DEF MessageInTransit, StreamsEnded, NothingYet, NoPartialAnswer
<1>15. CASE UNCHANGED <<act, io>>
  BY <1>0, <1>15
     DEF MessageInTransit, StreamsEnded, NothingYet, NoPartialAnswer, Drained
<1>16. CASE WorldStep \/ UNCHANGED vars
  BY <1>15, <1>16 DEF WorldStep, ReplaceManifest, ReplaceModule, RevokeTheRelease,
                      RevokeToolKey, vars
<1> QED
  BY <1>4, <1>6, <1>7, <1>8, <1>9, <1>10, <1>11, <1>12, <1>13, <1>14, <1>16
     DEF ToolNext, ActStep

(* The invariant holds in every reachable state.                           *)
LEMMA Invariance == ToolSpec => []IInv
<1>1. IInv /\ [ToolNext]_vars => IInv'
  BY TypesPreserved, SanctionPreserved, AnswerPreserved DEF IInv
<1> QED
  BY <1>1, InitEstablishes, PTL DEF ToolSpec

----------------------------------------------------------------------------
(* isolation.py, WasmWasiProfile: the profile reads the manifest four      *)
(* times and the module three times in one act; whatever is swapped or     *)
(* revoked between two reads, an act that executes does so under the pin   *)
(* and the limit of the one manifest the release names, validly signed,    *)
(* and the release was not revoked when the act began.                     *)
THEOREM ActsUnderOneSanction == ToolSpec => []OneSanctionPerAct
<1>1. IInv => OneSanctionPerAct
  BY DEF IInv
<1> QED
  BY <1>1, Invariance, PTL

(* WasmWasiProfile.run: for any pipe size and any amount of output, an     *)
(* answer handed on as a success is complete and within the limit, and     *)
(* nothing is handed on from a breach or a flood.                          *)
THEOREM AnswersAreWhole == ToolSpec => []NoPartialAnswer
<1>1. IInv => NoPartialAnswer
  BY DEF IInv
<1> QED
  BY <1>1, Invariance, PTL
=============================================================================
