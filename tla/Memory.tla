------------------------------- MODULE Memory -------------------------------
(***************************************************************************)
(* The Being's memory on its one witness chain: SmritiContinuity           *)
(* (kernel/smriti.py, core and recall tiers, export and import), the       *)
(* governed knowledge of core/plane_h.py over core/rag_store.py, the boot  *)
(* audit of core/durable.py, and the way runtime/being.py drives them: one *)
(* task at a time under _task_serial.                                      *)
(*                                                                         *)
(* One call runs at a time; its steps (apply in memory, journal, witness;  *)
(* or begin, mutate, witness, commit) are separate, and between two of     *)
(* them the process may die or an I/O call fail.  A witness append is      *)
(* durable when it returns (module WitnessChain).  Text is a length and an *)
(* identity; a state hash is the state it hashes.                          *)
(***************************************************************************)
EXTENDS Naturals, FiniteSets, SequencesExt

CONSTANTS
    Labels,      \* core block labels
    Sizes,       \* lengths of a written text
    CharLimit,   \* default char_limit of a core block
    Authors,     \* nodes that author proposals; the first grant is Self's
    Self,        \* the node the runtime runs on
    K,           \* chunks a grounding asks for
    OverFetch,   \* chunks read per chunk asked for (4 in the code)
    MaxOps,      \* bound: memory operations
    MaxWrites,   \* bound: knowledge writes witnessed
    MaxFaults    \* bound: crashes and failed calls together

ASSUME MemoryAssumption == Self \in Authors /\ K > 0 /\ OverFetch > 0

VARIABLES
    events,   \* smriti._events, the log that is the state
    journal,  \* smriti.jsonl
    store,    \* chunks and chunk_meta, committed
    grants,   \* WritePolicy: <<op, author>> pairs for the knowledge namespace
    chain,    \* MEMORY records of the witness chain
    call,     \* the call in progress
    task,     \* where the task in progress stands, and what it cited
    acked,    \* operations whose call returned
    faults    \* how many; operations torn from their record, operations lost
              \* by the journal alone, records without their knowledge

vars == <<events, journal, store, grants, chain, call, task, acked, faults>>

Idle == [pc |-> "idle"]

MemoryTypeOK ==
    /\ call.pc \in {"idle", "applied", "journaled", "begun", "mutated",
                    "witnessed"}
    /\ task.stage \in {"none", "grounding", "grounded", "recording",
                       "answered"}
    /\ Len(events) <= MaxOps /\ Len(journal) <= MaxOps
    /\ Len(store) <= MaxWrites
    /\ \A n \in 1..Len(store) : /\ store[n].supersedes < n
                               /\ store[n].by \in {0} \cup (n + 1)..Len(store)

MemoryInit ==
    /\ events = <<>> /\ journal = <<>> /\ store = <<>> /\ chain = <<>>
    /\ grants = {<<op, Self>> : op \in {"add", "supersede", "redact"}}
    /\ call = Idle /\ task = [stage |-> "none", cited |-> {}]
    /\ acked = {} /\ faults = [n |-> 0, torn |-> {}, lost |-> {}, phantom |-> {}]

---------------------------------------------------------------------------
(* The continuity organ.  _apply: the state a log of operations gives.     *)
Blank == [core |-> [l \in Labels |-> [len |-> 0, limit |-> CharLimit]],
          recall |-> <<>>]

(* The length of a block after an addition: a newline before it unless the *)
(* block is empty.                                                         *)
Appended(len, n) == IF len = 0 THEN n ELSE len + 1 + n

ApplyOp(s, op) ==
    CASE op.kind = "core_set" ->
            [s EXCEPT !.core[op.label] = [len |-> op.n, limit |-> op.limit]]
      [] op.kind = "core_append" ->
            [s EXCEPT !.core[op.label].len =
                IF @ = 0 THEN op.n ELSE @ + 1 + op.n]
      [] op.kind = "recall_add" -> [s EXCEPT !.recall = Append(@, op.id)]

State(log) == FoldLeft(ApplyOp, Blank, log)
StateHash == State(events)

(* Identities of operations and of texts.                                  *)
NextId == Len(events) + faults.n
NextText == Len(store) + 1 + faults.n

(* _emit, first step: the operation is applied in memory.                  *)
Emit(op) == /\ call.pc = "idle" /\ Len(events) < MaxOps
            /\ events' = Append(events, op)
            /\ call' = [pc |-> "applied", op |-> op]

CoreSet(l, n, limit) ==
    /\ n <= limit
    /\ Emit([kind |-> "core_set", label |-> l, n |-> n, limit |-> limit,
             id |-> NextId])
    /\ UNCHANGED <<journal, store, grants, chain, task, acked, faults>>
CoreAppend(l, n) ==
    /\ LET blk == StateHash.core[l] IN Appended(blk.len, n) <= blk.limit
    /\ Emit([kind |-> "core_append", label |-> l, n |-> n, id |-> NextId])
    /\ UNCHANGED <<journal, store, grants, chain, task, acked, faults>>
RecallAdd(stage) ==
    /\ Emit([kind |-> "recall_add", id |-> NextId])
    /\ task' = [task EXCEPT !.stage = stage]
    /\ UNCHANGED <<journal, store, grants, chain, acked, faults>>

(* Mutant: the operation is acknowledged without being journaled.          *)
EmitJournalLazy ==
    /\ call.pc = "applied" /\ call' = [call EXCEPT !.pc = "journaled"]
    /\ UNCHANGED <<events, journal, store, grants, chain, task, acked, faults>>

EmitJournal ==
    /\ call.pc = "applied" /\ call' = [call EXCEPT !.pc = "journaled"]
    /\ journal' = Append(journal, call.op)
    /\ UNCHANGED <<events, store, grants, chain, task, acked, faults>>

(* Mutant: the digest binds the state before the operation.                *)
MemoryDigestBefore(op) == [op |-> op, state |-> State(Front(events))]

(* The clear digest: the operation and the state as it is at this moment.  *)
MemoryDigest(op) == [op |-> op, state |-> StateHash]

After == [grounding |-> "grounded", recording |-> "answered"]
EmitWitness ==
    /\ call.pc = "journaled"
    /\ chain' = Append(chain, [organ |-> "smriti",
                               digest |-> MemoryDigest(call.op)])
    /\ acked' = acked \cup {call.op} /\ call' = Idle
    /\ task' = [task EXCEPT !.stage = IF @ \in DOMAIN After THEN After[@]
                                      ELSE @]
    /\ UNCHANGED <<events, journal, store, grants, faults>>

---------------------------------------------------------------------------
(* Governed knowledge.                                                     *)
(* verify_write_proposal, the reserved namespaces and the ACL are the      *)
(* conditions of apply; the target's are those of the operation.           *)
Permits(op, author) == <<op, author>> \in grants
RagAdd(s, env) ==
    Append(s, [doc |-> env.doc, hash |-> env.hash, version |-> env.version,
               supersedes |-> env.target, by |-> 0, redacted |-> FALSE,
               access |-> env.access])
ApplyAdd(s, env) == RagAdd(s, env)

CanSupersede(s, env) ==
    /\ env.target \in 1..Len(s) /\ s[env.target].doc = env.doc
    /\ s[env.target].by = 0 /\ ~s[env.target].redacted

ApplySupersede(s, env) ==
    [RagAdd(s, [env EXCEPT !.version = s[env.target].version + 1])
        EXCEPT ![env.target].by = Len(s) + 1]

CanRedact(s, env) == env.target \in 1..Len(s) /\ ~s[env.target].redacted

(* The tombstone: the text goes, the hash and its place stay.              *)
ApplyRedact(s, env) == [s EXCEPT ![env.target].redacted = TRUE]

(* verify_write_proposal: schema, author, signature and content hash.      *)
ValidProposal(env) == env.valid

Propose(env) ==
    /\ call.pc = "idle" /\ ValidProposal(env) /\ Permits(env.op, env.author)
    /\ call' = [pc |-> "begun", env |-> env]
    /\ UNCHANGED <<events, journal, store, grants, chain, task, acked, faults>>

(* The SQLite work, inside the transaction: nothing of it is committed.    *)
Mutate ==
    /\ call.pc = "begun"
    /\ LET env == call.env
           to(s, n) == /\ call' = [pc |-> "mutated", env |-> env, store |-> s,
                                   chunk |-> n]
                       /\ UNCHANGED <<events, journal, store, grants, chain,
                                      task, acked, faults>>
       IN \/ env.op = "add" /\ to(ApplyAdd(store, env), Len(store) + 1)
          \/ /\ env.op = "supersede" /\ CanSupersede(store, env)
             /\ to(ApplySupersede(store, env), Len(store) + 1)
          \/ /\ env.op = "redact" /\ CanRedact(store, env)
             /\ to(ApplyRedact(store, env), env.target)

(* Mutant: committed before the witness saw it.                            *)
WitnessLearnLate ==
    /\ call.pc = "mutated" /\ store' = call.store
    /\ call' = [call EXCEPT !.pc = "witnessed"]
    /\ UNCHANGED <<events, journal, grants, chain, task, acked, faults>>

WitnessLearn ==
    /\ call.pc = "mutated" /\ call' = [call EXCEPT !.pc = "witnessed"]
    /\ chain' = Append(chain, [organ |-> "plane_h",
                               digest |-> [op |-> call.env.op,
                                           chunk |-> call.chunk,
                                           hash |-> call.env.hash]])
    /\ UNCHANGED <<events, journal, store, grants, task, acked, faults>>

Commit ==
    /\ call.pc = "witnessed" /\ store' = call.store /\ call' = Idle
    /\ task' = [task EXCEPT !.stage = IF @ = "answered" THEN "none" ELSE @]
    /\ UNCHANGED <<events, journal, grants, chain, acked, faults>>

(* A call that raises: smriti keeps what it applied, the knowledge is      *)
(* rolled back, the task in progress ends.                                 *)
Raise == /\ call' = Idle /\ task' = [stage |-> "none", cited |-> {}]
Refuse == /\ call.pc = "begun"
          /\ \/ call.env.op = "supersede" /\ ~CanSupersede(store, call.env)
             \/ call.env.op = "redact" /\ ~CanRedact(store, call.env)
          /\ Raise
          /\ UNCHANGED <<events, journal, store, grants, chain, acked, faults>>
IOFails ==
    /\ call.pc \in {"applied", "journaled", "mutated"}
    /\ faults.n < MaxFaults /\ Raise
    /\ LET op == IF call.pc = "mutated" THEN {} ELSE {call.op}
           failed(lost) == faults' = [faults EXCEPT !.n = @ + 1,
                                          !.torn = @ \cup op,
                                          !.lost = @ \cup lost]
       IN \/ /\ failed(IF call.pc = "applied" THEN op ELSE {})
             /\ UNCHANGED journal
          \* the write reached the file and its fsync failed
          \/ /\ call.pc = "applied" /\ failed({})
             /\ journal' = Append(journal, call.op)
    /\ UNCHANGED <<events, store, grants, chain, acked>>

(* The process dies and starts again: what it knows of itself is what the  *)
(* journal holds; SQLite drops the transaction.                            *)
Crash == /\ faults.n < MaxFaults /\ Raise
         /\ events' = journal
         /\ faults' = [faults EXCEPT !.n = @ + 1,
                !.torn = @ \cup IF call.pc = "journaled" THEN {call.op} ELSE {},
                !.phantom = @ \cup IF call.pc = "witnessed" THEN {Len(chain)}
                                   ELSE {}]
         /\ UNCHANGED <<journal, store, grants, chain, acked>>

Grant(op, a) == /\ call.pc = "idle" /\ grants' = grants \cup {<<op, a>>}
                /\ grants' # grants
                /\ UNCHANGED <<events, journal, store, chain, call, task,
                               acked, faults>>
Revoke(op, a) == /\ call.pc = "idle" /\ grants' = grants \ {<<op, a>>}
                 /\ grants' # grants
                 /\ UNCHANGED <<events, journal, store, chain, call, task,
                                acked, faults>>

---------------------------------------------------------------------------
(* RagStore.retrieve takes the first chunks with text by id (equal scores) *)
(* and GovernedPlaneH.retrieve keeps of those the live and readable ones.  *)
First(S, n) == {x \in S : Cardinality({y \in S : y < x}) < n}
Matching(doc) == {n \in 1..Len(store) : store[n].doc = doc /\
                                        ~store[n].redacted}
Retrieve(doc) ==
    First({n \in First(Matching(doc), K * OverFetch) :
              store[n].by = 0 /\ store[n].access = "internal"}, K)

(* _ground, then the first step of its recall_add.                         *)
Ground(doc) ==
    /\ task.stage = "none" /\ call.pc = "idle" /\ Len(events) < MaxOps
    /\ LET op == [kind |-> "recall_add", id |-> NextId] IN
       /\ events' = Append(events, op)
       /\ call' = [pc |-> "applied", op |-> op]
    /\ task' = [stage |-> "grounding", cited |-> Retrieve(doc)]
    /\ UNCHANGED <<journal, store, grants, chain, acked, faults>>

(* _record: the outcome is remembered, then the answer is learnt.          *)
RecordOutcome == task.stage = "grounded" /\ RecallAdd("recording")
LearnAnswer(doc) ==
    /\ task.stage = "answered"
    /\ Propose([op |-> "add", doc |-> doc, target |-> 0, author |-> Self,
                valid |-> TRUE, version |-> 1, access |-> "internal",
                hash |-> NextText])
Forget == /\ task.stage = "answered" /\ call.pc = "idle"
          /\ task' = [stage |-> "none", cited |-> {}]
          /\ UNCHANGED <<events, journal, store, grants, chain, call, acked,
                         faults>>

Writes == Len(SelectSeq(chain, LAMBDA r : r.organ = "plane_h"))
Proposals == [op : {"add"}, doc : {"d"}, target : {0}]
                \cup [op : {"supersede", "redact"}, doc : {"d", "e"},
                      target : 1..MaxWrites]
Operator ==
    \/ \E l \in Labels, n \in Sizes, lim \in {CharLimit, CharLimit - 1} :
          CoreSet(l, n, lim)
    \/ \E l \in Labels, n \in Sizes : CoreAppend(l, n)
    \/ \E p \in Proposals, a \in Authors, v \in BOOLEAN :
          /\ Writes < MaxWrites
          /\ Propose([op |-> p.op, doc |-> p.doc, target |-> p.target,
                      author |-> a, valid |-> v, version |-> 1,
                      access |-> IF p.op = "add" THEN "internal"
                                 ELSE "restricted",
                      hash |-> NextText])
    \/ \E a \in Authors : Grant("redact", a) \/ Revoke("redact", a)

MemoryNext ==
    \/ Ground("d") \/ RecordOutcome \/ Forget
    \/ Writes < MaxWrites /\ LearnAnswer("d")
    \/ task.stage = "none" /\ Operator
    \/ EmitJournal \/ EmitWitness \/ Mutate \/ WitnessLearn \/ Commit
    \/ Refuse \/ IOFails \/ Crash

MemorySpec == MemoryInit /\ [][MemoryNext]_vars

---------------------------------------------------------------------------
(* export_portable and import_portable: the journal is replayed and every  *)
(* operation and resulting state compared with the Being's own records.    *)
OwnRecords ==
    LET own[n \in 0..Len(chain)] ==
            IF n = 0 THEN <<>>
            ELSE IF chain[n].organ = "smriti" THEN Append(own[n - 1], chain[n])
                 ELSE own[n - 1]
    IN  own[Len(chain)]
Binds(log, recs) ==
    /\ Len(recs) = Len(log)
    /\ \A i \in 1..Len(log) :
          /\ recs[i].organ = "smriti"
          /\ recs[i].digest = [op |-> log[i],
                               state |-> State(SubSeq(log, 1, i))]
ImportAccepts == Binds(events, OwnRecords)

(* A self that no fault tore between its journal and its witness can be    *)
(* carried to another host: the import of its own export succeeds, also    *)
(* after crashes that hit nothing in flight.                               *)
HonestSelfImports == call.pc = "idle" /\ faults.torn = {} => ImportAccepts

WitnessedAs(op, n) ==
    \E i \in 1..Len(chain) : chain[i].organ = "plane_h" /\
        chain[i].digest.op = op /\ chain[i].digest.chunk = n
(* "There must be no unwitnessed mutable knowledge": every chunk, every    *)
(* supersession and every redaction that a restart finds in the store has  *)
(* its record, the crash before the commit included.                       *)
NoUnwitnessedKnowledge ==
    \A n \in 1..Len(store) :
        /\ WitnessedAs(IF store[n].supersedes = 0 THEN "add" ELSE "supersede", n)
        /\ store[n].redacted => WitnessedAs("redact", n)

Told(i) == LET d == chain[i].digest IN
    /\ d.chunk <= Len(store)
    /\ IF d.op = "redact" THEN store[d.chunk].redacted
       ELSE store[d.chunk].hash = d.hash
(* The other direction: a record without its knowledge is the work of a    *)
(* process that died between the witness and the commit, one per death.    *)
PhantomsAreCrashes ==
    \A i \in 1..Len(chain) :
        \/ chain[i].organ = "smriti" \/ Told(i) \/ i \in faults.phantom
        \/ call.pc = "witnessed" /\ i = Len(chain)

(* Knowledge and the records of it agree, in both directions, up to the    *)
(* phantoms that crashes leave.                                            *)
KnowledgeMatchesRecords == NoUnwitnessedKnowledge /\ PhantomsAreCrashes

(* What the organs do together implements what the memory promises.        *)
Promise == INSTANCE MemoryPromise WITH
    log <- journal, told <- acked,
    hashes <- [n \in 1..Len(store) |-> store[n].hash],
    seen <- {<<chain[i].digest.chunk, chain[i].digest.hash>> : i \in
             {j \in 1..Len(chain) : chain[j].organ = "plane_h" /\
                                    chain[j].digest.op # "redact"}}
(* The journal only grows and holds what was acknowledged; the leaves only *)
(* grow, each after its record, and neither redaction nor supersession     *)
(* moves one.                                                              *)
MemoryPromised == Promise!PromiseSpec
===========================================================================
