------------------------------ MODULE Segments ------------------------------
(***************************************************************************)
(* Segment replication and recovery (core/segments.py, receive_segment and *)
(* serve_segment of node/daemon.py).  A peer keeps the origin's records;   *)
(* when the origin loses its disk, an operator rebuilds the log from the   *)
(* peer's store against a root the origin signed, and the origin resumes.  *)
(*                                                                         *)
(* A record is the prefix of the history it ends (module Entanglement), a  *)
(* segment a set of consecutive ones.  An envelope once served may be      *)
(* lost, delivered late, or delivered again: any segment of any history    *)
(* the origin has had may arrive.                                          *)
(***************************************************************************)
EXTENDS Entanglement

CONSTANT MaxSegment   \* MAX_SEGMENT_RECORDS

VARIABLES
    held,      \* SegmentStore._records for this origin
    evidence,  \* SegmentStore._diverged: pairs <<held, offered>>
    disk,      \* the segment journal: records and evidence it brings back
    failed,    \* records whose persist failed
    writing    \* the recovered log: its target and what is written

segmentVars == <<held, evidence, disk, failed, writing>>
historyVars == <<entangleVars, segmentVars>>

HistoryInit ==
    /\ EntangleInit
    /\ held = {} /\ evidence = {} /\ failed = {}
    /\ disk = [recs |-> {}, ev |-> {}]
    /\ writing = Idle

Records(c) == {SubSeq(c, 1, n) : n \in DOMAIN c}

HistoryTypeOK ==
    /\ held \subseteq UNION {Records(h) : h \in Histories}
    /\ {Len(p) : p \in disk.recs} \subseteq {Len(p) : p \in held \cup failed}
    /\ disk.ev \subseteq evidence
    /\ Len(chain) <= MaxChain /\ Len(ledger) <= MaxLedger

\* make_segment over [start, end): bounds and the record cap.
Segment(c, start, end) ==
    IF start < end /\ end <= Len(c) /\ end - start <= MaxSegment
    THEN {SubSeq(c, 1, n) : n \in (start + 1)..end}
    ELSE {}

(* Mutant: a record is looked up by its place in the envelope. *)
ConflictsOffset(env) ==
    {x \in held \X env :
        x[1] # x[2] /\ Len(x[1]) = Cardinality({o \in env : Len(o) <= Len(x[2])})}
\* Records of an envelope that contradict a held one.
Conflicts(env) ==
    {x \in held \X env : Len(x[1]) = Len(x[2]) /\ x[1] # x[2]}
First(pairs) == CHOOSE x \in pairs : \A y \in pairs : Len(x[1]) <= Len(y[1])

\* SegmentStore.accept -> "divergence": evidence, persisted, reported (409);
\* nothing of the envelope is held.
AcceptDivergence(env) ==
    /\ Conflicts(env) # {} /\ First(Conflicts(env)) \notin evidence
    /\ evidence' = evidence \cup {First(Conflicts(env))}
    /\ disk' = [disk EXCEPT !.ev = @ \cup {First(Conflicts(env))}]
    /\ UNCHANGED <<entangleVars, held, failed, writing>>

\* The REPLICA_SEGMENT entry carries the whole envelope.
Persisted(env) == env

\* _hold: a record replaces what was held at its index.
Hold(env) == {q \in held : \A p \in env : Len(p) # Len(q)} \cup env

\* SegmentStore.accept -> "stored": held in memory, then persisted, then
\* acknowledged ("duplicate", when all is held already, changes nothing).
AcceptStored(env) ==
    /\ ~(env \subseteq held) /\ Conflicts(env) = {}
    /\ held' = Hold(env)
    /\ disk' = [disk EXCEPT !.recs = @ \cup Persisted(env)]
    /\ UNCHANGED <<entangleVars, evidence, failed, writing>>

\* The same, and durable_append raises: the records stay in memory, and a
\* retry of the push is answered "duplicate".
AcceptUnpersisted(env) ==
    /\ ~(env \subseteq held) /\ Conflicts(env) = {}
    /\ failed = {}
    /\ failed' = env \ held
    /\ held' = Hold(env)
    /\ UNCHANGED <<entangleVars, evidence, disk, writing>>

\* The peer restarts: SegmentStore.__init__ re-verifies and replays.
RestartPeer ==
    /\ <<held, evidence>> # <<disk.recs, disk.ev>>
    /\ held' = disk.recs /\ evidence' = disk.ev
    /\ UNCHANGED <<entangleVars, disk, failed, writing>>

(***************************************************************************)
(* Recovery.                                                               *)
(***************************************************************************)

\* missing, coverage: indices below count that are not held.
Missing(count) == {n \in 1..count : \A p \in held : Len(p) # n}

\* recover_records: no gap, every seam chains, root and head match.
Recovered(r) ==
    /\ r \in held
    /\ Missing(Len(r)) = {}
    /\ \A p, q \in held : Len(q) = Len(p) + 1 /\ Len(q) <= Len(r)
                            => Front(q) = p

\* The origin's disk is gone, and with it the log.  write_recovered_log
\* refuses a path that exists, then makes one durable_append per record;
\* the process that writes may die between two of them.
StartRecovery(r) ==
    /\ up /\ life < MaxLives
    /\ Recovered(r)
    /\ up' = FALSE
    /\ writing' = [log |-> <<r[1]>>, root |-> r]
    /\ UNCHANGED <<chain, life, past, roots, beacon, issuerVars,
                   held, evidence, disk, failed>>

WriteRecord ==
    /\ writing # Idle /\ writing.log # writing.root
    /\ writing' = [writing EXCEPT !.log = SubSeq(writing.root, 1, Len(@) + 1)]
    /\ UNCHANGED <<entangleVars, held, evidence, disk, failed>>

\* The daemon boots on whatever the recovered log holds.
BootRecovered ==
    /\ writing # Idle
    /\ Resume(writing.log)
    /\ writing' = Idle
    /\ UNCHANGED <<held, evidence, disk, failed>>

HistoryNext ==
    \/ EntangleNext /\ UNCHANGED segmentVars
    \/ \E h \in Histories, start, end \in 0..MaxChain :
         LET env == Segment(h, start, end)
         IN  \/ AcceptDivergence(env)
             \/ AcceptStored(env)
             \/ AcceptUnpersisted(env)
    \/ RestartPeer
    \/ \E r \in roots : StartRecovery(r)
    \/ WriteRecord \/ BootRecovered

HistorySpec == HistoryInit /\ [][HistoryNext]_historyVars

(***************************************************************************)
(* Properties.                                                             *)
(***************************************************************************)

(* Two records in SEGMENT_DIVERGENCE evidence were both signed by the      *)
(* origin, in two different lives: an origin that never resumed from       *)
(* another log is never accused, whatever is lost, delayed or repeated.    *)
(* And what a peer answers for survives its restart: the evidence, and the *)
(* records it reports as stored or as duplicates, unless a persist failed  *)
(* (then the retry was answered "duplicate" for records only in memory).   *)
EvidenceIsFork ==
    /\ \A e \in evidence :
         /\ Len(e[1]) = Len(e[2])
         /\ \E g, h \in Histories :
              g # h /\ IsPrefix(e[1], g) /\ IsPrefix(e[2], h)
    /\ evidence \subseteq disk.ev
    /\ held \ failed \subseteq disk.recs

=============================================================================
