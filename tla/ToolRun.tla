------------------------------ MODULE ToolRun ------------------------------
(***************************************************************************)
(* One act of the Being's hand inside the wasm-wasi profile:               *)
(* Karma._act and Sandbox.run of kernel/karma.py around WasmWasiProfile of *)
(* kernel/isolation.py, the signed toolset manifest of kernel/toolset.py   *)
(* and the `pure` boundary of kernel/wasm_pure.py.                         *)
(*                                                                         *)
(* The profile reads the manifest file and the module file several times   *)
(* during one act; each read is a step, and between two of them the files  *)
(* may be replaced, the release revoked or the toolset key revoked.  A     *)
(* manifest or a module is a name; what its bytes say is in ManifestInfo   *)
(* and PureModules.  Bytes of input and output come in chunks.  The        *)
(* authorizer is the callback of jjdai/release.py (module ReleaseChain):   *)
(* it accepts exactly the manifest the release names while the release is  *)
(* not revoked, and answers the position of its record.                    *)
(***************************************************************************)
EXTENDS Integers, FiniteSets

CONSTANTS
    Manifests,    \* manifest files that may lie in the tools directory
    ManifestInfo, \* what each declares: see the fields below
    Modules,      \* module files that may lie under the tool's path
    PureModules,  \* those importing only the allowlisted functions
    AttestedAt,   \* position of the RELEASE_ATTESTED record
    PipeSize,     \* bound: chunks a pipe holds
    MaxOut,       \* bound: chunks a tool writes to each stream
    MaxIn,        \* bound: chunks of input
    MaxActs       \* bound: acts started

(* form    -- interim authorization form with its sunset condition         *)
(* signer  -- signer block, signing domain, key domain and registry domain *)
(*            are all the toolset's own                                    *)
(* signed  -- the signature verifies over the canonical body               *)
(* claims  -- authorized_at_witness_seq it declares, 0 if none             *)
(* class   -- effect class; limit -- output_bytes, 0 if undeclared         *)
(* module  -- the module whose sha256 it pins                              *)
ASSUME ToolAssumption ==
    /\ \A m \in Manifests :
          /\ ManifestInfo[m].module \in Modules
          /\ ManifestInfo[m].limit \in Nat
    /\ PureModules \subseteq Modules
    /\ PipeSize \in Nat \ {0} /\ AttestedAt \in Nat \ {0}

VARIABLES
    host,      \* the node: runtime usable, key resolver, Gauntlet registered
    released,  \* the manifest the published release names
    revoked,   \* has that release been revoked
    toolKey,   \* lifecycle of the toolset key: positions, 0 for never
    manifest,  \* the manifest file on disk
    module,    \* the module file on disk, "none" if missing
    contained, \* does the governor withhold the executive scope
    act,       \* the act in progress
    io,        \* the pipes and the counters of Sandbox.run
    log        \* karma's events: intents and outcomes written, acts over

vars == <<host, released, revoked, toolKey, manifest, module, contained, act,
          io, log>>
World == <<host, released, revoked, toolKey, manifest, module, contained>>

NoAct == [pc |-> "idle", pin |-> "none", limit |-> 0, ran |-> "none",
          sawRevoked |-> FALSE, result |-> "none", given |-> 0]
NoIO  == [pending |-> 0, inPipe |-> 0, toRead |-> 0, toOut |-> 0, toErr |-> 0,
          outPipe |-> 0, errPipe |-> 0, out |-> 0, err |-> 0, exit |-> "ok",
          killed |-> "no"]

ToolTypeOK ==
    /\ released \in Manifests /\ manifest \in Manifests
    /\ module \in Modules \cup {"none"}
    /\ act.pc \in {"idle", "gate", "ready", "hashed", "resolved", "argv",
                   "limits", "exec", "judge", "over", "lost"}
    /\ act.limit \in Nat
    /\ io.outPipe \in 0..PipeSize /\ io.errPipe \in 0..PipeSize
    /\ io.inPipe \in 0..PipeSize
    /\ log.outcomes <= log.intents /\ log.intents <= MaxActs

(* A node that can act; a start differs from it in at most one part.      *)
Usable == [runtime |-> TRUE, resolver |-> TRUE, gauntlet |-> FALSE]

ToolInit ==
    /\ host \in {h \in [runtime : BOOLEAN, resolver : BOOLEAN,
                          gauntlet : BOOLEAN] :
                     Cardinality({f \in DOMAIN h : h[f] # Usable[f]}) <= 1}
    /\ released \in Manifests /\ manifest = released
    /\ module = ManifestInfo[released].module
    /\ toolKey \in {[act |-> 1, rev |-> 0], [act |-> 1, rev |-> AttestedAt],
                    [act |-> AttestedAt + 1, rev |-> 0]}
    /\ revoked = FALSE /\ contained \in BOOLEAN
    /\ act = NoAct /\ io = NoIO
    /\ log = [intents |-> 0, outcomes |-> 0]

---------------------------------------------------------------------------
(* What the node does not control.                                         *)
ReplaceManifest(m) == /\ manifest # m /\ manifest' = m
                      /\ UNCHANGED <<host, released, revoked, toolKey, module,
                                     contained, act, io, log>>
ReplaceModule(x) == /\ module # x /\ module' = x
                    /\ UNCHANGED <<host, released, revoked, toolKey, manifest,
                                   contained, act, io, log>>
RevokeTheRelease == /\ ~revoked /\ revoked' = TRUE
                    /\ UNCHANGED <<host, released, toolKey, manifest, module,
                                   contained, act, io, log>>
RevokeToolKey == /\ toolKey.rev = 0
                 /\ toolKey' = [toolKey EXCEPT !.rev = AttestedAt + 1]
                 /\ UNCHANGED <<host, released, revoked, manifest, module,
                                contained, act, io, log>>

---------------------------------------------------------------------------
(* Mutant: any authorizer answer will do, the manifest it names is not     *)
(* compared.                                                               *)
AuthorizesAny(m) == ~revoked

(* release.toolset_authorizer's callback.                                  *)
Authorizes(m) == ~revoked /\ m = released

(* validate_manifest: each refusal of it a conjunct.  First the form of    *)
(* the sanction: a resolver, an interim form that has not sunset, a signer.*)
SanctionForm(doc) == host.resolver /\ doc.form /\ ~host.gauntlet /\ doc.signer
(* The key is judged at the position the authorizer answers, never at one  *)
(* the manifest claims.                                                    *)
KeyAuthorized(m, doc) == /\ Authorizes(m) /\ doc.claims \in {0, AttestedAt}
                         /\ toolKey.act <= AttestedAt
                         /\ toolKey.rev # 0 => AttestedAt < toolKey.rev
                         /\ doc.signed
(* check_effect_class and check_limits_declared, per tool.                 *)
EffectAllowed(doc)   == doc.class = "pure"
LimitsDeclared(doc)  == doc.limit > 0
ManifestValid(m) == LET doc == ManifestInfo[m] IN
    SanctionForm(doc) /\ KeyAuthorized(m, doc)
    /\ EffectAllowed(doc) /\ LimitsDeclared(doc)

(* toolset(): the verified manifest, or nothing.                           *)
Toolset == IF ManifestValid(manifest) THEN {manifest} ELSE {}

(* The act is refused: an outcome with the refusal is emitted and raised.  *)
Refused == /\ act' = [act EXCEPT !.pc = "over", !.result = "refused"]
           /\ log' = [log EXCEPT !.outcomes = @ + 1]
           /\ UNCHANGED <<World, io>>

(* An exception _act does not catch leaves it without an outcome.          *)
Lost == /\ act' = [act EXCEPT !.pc = "lost", !.result = "raised"]
        /\ UNCHANGED <<World, io, log>>

Goto(pc) == act' = [act EXCEPT !.pc = pc]

---------------------------------------------------------------------------
(* Karma._act: the governor's gate, then the intent.                       *)
Gate == /\ act.pc \in {"idle", "over", "lost"} /\ log.intents < MaxActs
        /\ ~contained
        /\ act' = [NoAct EXCEPT !.pc = "gate", !.sawRevoked = revoked]
        /\ io' = NoIO /\ UNCHANGED <<World, log>>
EmitIntent == /\ act.pc = "gate" /\ Goto("ready")
              /\ log' = [log EXCEPT !.intents = @ + 1]
              /\ UNCHANGED <<World, io>>

(* _runtime_ready: the runtime, its limit flags, and a manifest that loads.*)
RuntimeReady == /\ act.pc = "ready"
                /\ \/ /\ host.runtime /\ Toolset # {} /\ Goto("hashed")
                      /\ UNCHANGED <<World, io, log>>
                   \/ ~(host.runtime /\ Toolset # {}) /\ Refused

(* _module_for: one manifest read, then the module's digest; then the file *)
(* is read again for its imports.                                          *)
HashModule == /\ act.pc = "hashed"
              /\ \/ /\ Toolset # {} /\ module = ManifestInfo[manifest].module
                    /\ act' = [act EXCEPT !.pc = "resolved", !.pin = module]
                    /\ UNCHANGED <<World, io, log>>
                 \/ ~(Toolset # {} /\ module = ManifestInfo[manifest].module)
                    /\ Refused
CheckImports == /\ act.pc = "resolved"
                /\ \/ /\ module \in PureModules /\ Goto("argv")
                      /\ UNCHANGED <<World, io, log>>
                   \/ module \notin PureModules /\ module # "none" /\ Refused
                   \* the file vanished: an OSError, which _act does record
                   \/ module = "none" /\ Refused

(* How the guest ends: by itself, with an error, or on a limit of the      *)
(* runtime, whose message is then the first thing on its error stream.     *)
Exits == {"ok", "error", "breach"}

(* limits_for, in wasm_argv for the runtime's flags and again in run for   *)
(* the output cap: a manifest that no longer loads has no limits mapping,  *)
(* and that refusal is a PureBoundaryError.                                *)
ArgvLimits == /\ act.pc = "argv"
              /\ \/ /\ Toolset # {} /\ Goto("limits")
                    /\ UNCHANGED <<World, io, log>>
                 \/ Toolset = {} /\ Lost
RunLimits == /\ act.pc = "limits"
             /\ \/ /\ Toolset # {}
                   /\ act' = [act EXCEPT !.pc = "exec",
                                         !.limit = ManifestInfo[manifest].limit,
                                         !.ran = module]
                   /\ \E i \in 0..MaxIn, o, e \in 0..MaxOut, x \in Exits :
                      \E r \in 0..i :
                         /\ x = "breach" => e > 0
                         /\ io' = [NoIO EXCEPT !.pending = i, !.toRead = r,
                                               !.toOut = o, !.toErr = e,
                                               !.exit = x]
                   /\ UNCHANGED <<World, log>>
                \/ Toolset = {} /\ Lost

---------------------------------------------------------------------------
(* The guest writes its output, then reads what it wants of its input,     *)
(* then exits: the order that fills the pipes.  It blocks on a full or an  *)
(* empty pipe.                                                             *)
ChildWrites(todo, pipe) ==
    /\ io[todo] > 0 /\ io[pipe] < PipeSize
    /\ io' = [io EXCEPT ![todo] = @ - 1, ![pipe] = @ + 1]
ChildReads == /\ io.toOut = 0 /\ io.toErr = 0
              /\ io.toRead > 0 /\ io.inPipe > 0
              /\ io' = [io EXCEPT !.toRead = @ - 1, !.inPipe = @ - 1]
Drained == /\ io.toOut = 0 /\ io.toErr = 0 /\ io.toRead = 0
           /\ io.outPipe = 0 /\ io.errPipe = 0

(* Sandbox.run's selector loop: whatever is ready is served, input and     *)
(* output alike; at most limit chunks of a stream are kept, the rest       *)
(* counted; beyond the flood budget or the deadline the group is killed.   *)
FloodBudget == 2 * act.limit

ServeOutput(pipe, total) ==
    /\ io[pipe] > 0
    /\ io' = [io EXCEPT ![pipe] = @ - 1, ![total] = @ + 1,
                        !.killed = IF io[total] + 1 > FloodBudget
                                   THEN "flood" ELSE @]

FeedInput == /\ io.pending > 0 /\ io.inPipe < PipeSize
             /\ io' = [io EXCEPT !.pending = @ - 1, !.inPipe = @ + 1]
Deadline == io' = [io EXCEPT !.killed = "timeout"]

GuestStep  == \/ ChildWrites("toOut", "outPipe")
              \/ ChildWrites("toErr", "errPipe") \/ ChildReads
ParentStep == \/ ServeOutput("outPipe", "out") \/ ServeOutput("errPipe", "err")
              \/ FeedInput

Exec == /\ act.pc = "exec" /\ io.killed = "no"
        /\ GuestStep \/ ParentStep \/ Deadline
        /\ UNCHANGED <<World, act, log>>

(* Mutant: the run is not over before the input is written.                *)
ReapFed == /\ act.pc = "exec" /\ io.pending = 0
           /\ io.killed # "no" \/ Drained
           /\ Goto("judge") /\ UNCHANGED <<World, io, log>>

(* Both streams at end of file, or killed.  The runtime keeps its streams  *)
(* open until it exits, so proc.wait, which has no clock, returns at once. *)
Reap == /\ act.pc = "exec"
        /\ io.killed # "no" \/ Drained
        /\ Goto("judge") /\ UNCHANGED <<World, io, log>>

---------------------------------------------------------------------------
Lesser(a, b) == IF a < b THEN a ELSE b
Kept      == Lesser(io.out, act.limit) + Lesser(io.err, act.limit)
Truncated == io.out > act.limit \/ io.err > act.limit \/ io.killed = "flood"

(* Mutant: the larger stream is compared, not the sum of both.             *)
OverLimitMax == Truncated \/ io.out > act.limit \/ io.err > act.limit

(* WasmWasiProfile.run: the total of both streams against the limit.       *)
OverLimit == Truncated \/ io.out + io.err > act.limit

(* classify_runtime_breach: the runtime's message among what was kept.     *)
RuntimeBreach == io.exit = "breach" /\ io.err > 0

Ending == IF io.killed = "no" THEN io.exit ELSE io.killed

(* A breach the runtime reports, or an output beyond the limit, is a       *)
(* refusal and its partial output is discarded.                            *)
Judge ==
    IF RuntimeBreach \/ OverLimit THEN [result |-> "breach", given |-> 0]
    ELSE [result |-> Ending, given |-> Kept]

Outcome == /\ act.pc = "judge"
           /\ act' = [act EXCEPT !.pc = "over", !.result = Judge.result,
                                 !.given = Judge.given]
           /\ log' = [log EXCEPT !.outcomes = @ + 1]
           /\ UNCHANGED <<World, io>>

---------------------------------------------------------------------------
ActStep == \/ Gate \/ EmitIntent \/ RuntimeReady \/ HashModule \/ CheckImports
           \/ ArgvLimits \/ RunLimits \/ Exec \/ Reap \/ Outcome

(* Bound: the world moves while an act is being resolved.                  *)
Resolving == act.pc \in {"gate", "ready", "hashed", "resolved", "argv",
                         "limits"}
WorldStep == \/ \E m \in Manifests : ReplaceManifest(m)
             \/ \E x \in Modules \cup {"none"} : ReplaceModule(x)
             \/ RevokeTheRelease \/ RevokeToolKey

ToolNext == ActStep \/ (Resolving /\ WorldStep)
ToolSpec == ToolInit /\ [][ToolNext]_vars
               /\ WF_vars(EmitIntent) /\ WF_vars(RuntimeReady)
               /\ WF_vars(HashModule) /\ WF_vars(CheckImports)
               /\ WF_vars(ArgvLimits) /\ WF_vars(RunLimits)
               /\ WF_vars(act.pc = "exec" /\ Exec) /\ WF_vars(Reap)
               /\ WF_vars(Outcome)

---------------------------------------------------------------------------
(* The hand moves only on a released, signed and unexpired sanction, and   *)
(* on one sanction: however the files are swapped between the reads of one *)
(* act, what was pinned and the limits in force are those of the manifest  *)
(* the release names, that manifest is validly signed at the position of   *)
(* the release, and the release was not revoked when the act began.        *)
OneSanctionPerAct ==
    act.pc \in {"exec", "judge"} =>
        LET doc == ManifestInfo[released] IN
        /\ act.pin = doc.module /\ act.limit = doc.limit
        /\ doc.signed /\ doc.signer /\ doc.claims \in {0, AttestedAt}
        /\ toolKey.act <= AttestedAt
        /\ toolKey.rev # 0 => toolKey.rev > AttestedAt
        /\ ~act.sawRevoked

(* An answer is whole or nothing: an output handed on as a success is      *)
(* every chunk the tool wrote, and no more than the manifest allows in     *)
(* total; an act judged a breach or killed by a flood hands nothing on.    *)
NoPartialAnswer ==
    act.pc = "over" =>
        /\ act.result = "ok" => act.given = io.out + io.err /\ act.given <= act.limit
        /\ act.result = "breach" \/ io.killed = "flood" => act.given = 0

(* Every act that was announced ends, with an outcome or an exception.     *)
ActsEnd == act.pc = "ready" ~> act.pc \in {"over", "lost"}
===========================================================================
