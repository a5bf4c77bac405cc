--------------------------- MODULE ReleaseBuild ---------------------------
(***************************************************************************)
(* How the files of a release come to be: the committed tree and its       *)
(* digest (jjdai/source_tree.py), the pinned build backend                 *)
(* (jjdai/build_env.py), the build itself (scripts/build_release.py), the  *)
(* recorded acceptance run (scripts/run_acceptance.py) and the statement   *)
(* assembled from all of them (scripts/make_release_statement.py).         *)
(*                                                                         *)
(* A tree, a file of dist/ and a digest are named by the commit that       *)
(* determines their bytes: equal names, equal bytes.  Whatever no commit   *)
(* and no pinned backend produces is Alien.  A program that refuses        *)
(* leaves nothing behind except what it had already written, so a refusal  *)
(* is a disabled action or a step back to "idle".  The developer's own     *)
(* steps (edit, commit, touching vendor/ or dist/) are external.           *)
(***************************************************************************)
EXTENDS Naturals, FiniteSets

CONSTANTS
    MaxCommit,   \* bound: commits 1..MaxCommit
    VersionOf,   \* the version each commit declares; it names the files
    GoodTrees    \* the commits on which the hermetic suite is green

Commits  == 1..MaxCommit
Alien    == MaxCommit + 1
Versions == {VersionOf[c] : c \in Commits}
Kinds    == {"sdist", "wheel"}
Files    == Kinds \X Versions

ASSUME BuildAssumption ==
    /\ MaxCommit \in Nat \ {0}
    /\ GoodTrees \subseteq Commits

VARIABLES
    head,     \* the commit checked out
    dirty,    \* does the working copy differ from it
    vendor,   \* do the wheels under vendor/build-backend match their pins
    dist,     \* dist/: file -> the commit its bytes come from, 0 if absent
    job,      \* build_release.py --build: where it is, the backend installed
    suite,    \* the acceptance run in progress: the tree it started on
    accept    \* docs/evidence/hermetic.json, NoRun before the first

buildVars == <<head, dirty, vendor, dist, job, suite, accept>>

NoRun == [tree |-> 0, ran |-> 0, green |-> FALSE]
Idle  == [pc |-> "idle", backend |-> "none"]

BuildTypeOK ==
    /\ head \in Commits /\ dirty \in BOOLEAN
    /\ vendor \in {"pinned", "drifted"}
    /\ dist \in [Files -> 0..Alien]
    /\ job \in [pc : {"idle", "pins", "venv", "clean", "sdist"},
                backend : {"none", "pinned", "drifted"}]
    /\ suite \in 0..Alien
    /\ accept \in [tree : 0..Alien, ran : 0..Alien, green : BOOLEAN]

BuildInit ==
    /\ head = 1 /\ dirty = FALSE /\ vendor = "pinned"
    /\ dist = [f \in Files |-> 0]
    /\ job = Idle /\ suite = 0 /\ accept = NoRun

---------------------------------------------------------------------------
(* source_tree.digest: the commit if the caller asks for the committed     *)
(* tree; read from disk, the commit only when nothing was edited.  Files   *)
(* of the declared output set (dist/, the evidence) are outside it.        *)
CommittedDigest == head
WorktreeDigest  == IF dirty THEN Alien ELSE head

(* The developer: an edit, a commit of it, a touched wheel, an emptied     *)
(* dist/.                                                                  *)
Edit       == ~dirty /\ head < MaxCommit /\ dirty' = TRUE
              /\ UNCHANGED <<head, vendor, dist, job, suite, accept>>
Commit     == /\ dirty /\ head < MaxCommit
              /\ head' = head + 1 /\ dirty' = FALSE
              /\ UNCHANGED <<vendor, dist, job, suite, accept>>
TouchWheel == /\ vendor = "pinned" /\ vendor' = "drifted"
              /\ UNCHANGED <<head, dirty, dist, job, suite, accept>>
EmptyDist  == /\ job = Idle /\ \E f \in Files : dist[f] # 0
              /\ dist' = [f \in Files |-> 0]
              /\ UNCHANGED <<head, dirty, vendor, job, suite, accept>>

---------------------------------------------------------------------------
(* run_acceptance: the tests execute the bytes on disk; when they are      *)
(* done write_result digests the tree as it is THEN.  The committed label  *)
(* is earned by equality of the two digests.                               *)
StartSuite == /\ suite = 0 /\ suite' = WorktreeDigest
              /\ UNCHANGED <<head, dirty, vendor, dist, job, accept>>
WriteResult ==
    /\ suite # 0 /\ suite' = 0
    /\ accept' = [tree |-> IF WorktreeDigest = CommittedDigest
                           THEN CommittedDigest ELSE WorktreeDigest,
                  ran |-> suite, green |-> suite \in GoodTrees]
    /\ UNCHANGED <<head, dirty, vendor, dist, job>>

---------------------------------------------------------------------------
(* build_release --build.  prepare: hash the vendored wheels, then create  *)
(* the one-shot environment and install from vendor/, whatever it holds by *)
(* then (only distribution names are compared afterwards).                 *)
VerifyPins == /\ job = Idle /\ vendor = "pinned"
              /\ job' = [job EXCEPT !.pc = "pins"]
              /\ UNCHANGED <<head, dirty, vendor, dist, suite, accept>>
InstallBackend == /\ job.pc = "pins"
                  /\ job' = [pc |-> "venv", backend |-> vendor]
                  /\ UNCHANGED <<head, dirty, vendor, dist, suite, accept>>

(* build: assert_clean; the sdist from the working copy, overwriting the   *)
(* file of that name; refuse unless dist/ then holds exactly one sdist;    *)
(* the wheel from that sdist.  The environment is removed in a finally.    *)
AssertClean == /\ job.pc = "venv" /\ ~dirty
               /\ job' = [job EXCEPT !.pc = "clean"]
               /\ UNCHANGED <<head, dirty, vendor, dist, suite, accept>>

Output(source) == IF job.backend = "pinned" THEN source ELSE Alien

BuildSdist ==
    /\ job.pc = "clean"
    /\ dist' = [dist EXCEPT ![<<"sdist", VersionOf[head]>>]
                    = Output(WorktreeDigest)]
    /\ job' = IF Cardinality({v \in Versions : dist'[<<"sdist", v>>] # 0}) = 1
              THEN [job EXCEPT !.pc = "sdist"] ELSE Idle
    /\ UNCHANGED <<head, dirty, vendor, suite, accept>>

BuildWheel ==
    /\ job.pc = "sdist"
    /\ \E v \in Versions :
          /\ dist[<<"sdist", v>>] # 0
          /\ dist' = [dist EXCEPT ![<<"wheel", v>>]
                          = Output(dist[<<"sdist", v>>])]
    /\ job' = Idle
    /\ UNCHANGED <<head, dirty, vendor, suite, accept>>

BuildFails == /\ job # Idle /\ job' = Idle
              /\ UNCHANGED <<head, dirty, vendor, dist, suite, accept>>

BuildNext == \/ Edit \/ Commit \/ TouchWheel \/ EmptyDist
             \/ StartSuite \/ WriteResult
             \/ VerifyPins \/ InstallBackend \/ AssertClean
             \/ BuildSdist \/ BuildWheel \/ BuildFails

---------------------------------------------------------------------------
(* make_release_statement.  artefacts() lists what dist/ holds, less the   *)
(* script's own outputs (which the model does not put there).              *)
Artefacts == {<<f, dist[f]>> : f \in {g \in Files : dist[g] # 0}}

(* What the pinned recipe makes of a commit: the promise of a rebuild.     *)
Genuine(c) == {<<<<k, VersionOf[c]>>, c>> : k \in Kinds}

(* describe(): the table of the build environment; of its fields only the  *)
(* commit time follows the tree, the others are the host's own.            *)
Environment(host) == [epoch |-> head, host |-> host]

(* statement(): refused on a dirty tree, without a recorded run, and on an *)
(* empty dist/.  Scope and control are the script's defaults.              *)
CanState == ~dirty /\ accept # NoRun /\ Artefacts # {}
Statement(v) == [version |-> v, tree |-> CommittedDigest, arts |-> Artefacts,
                 acc |-> accept, env |-> Environment(1)]

(* context(): tree, run and environment by value, the files by readers.    *)
CanContext == ~dirty /\ accept # NoRun
Context(v) == [tag |-> v, tree |-> CommittedDigest, acc |-> accept,
               env |-> Environment(1)]
===========================================================================
