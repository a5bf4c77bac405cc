---------------------------- MODULE TaskLifecycle -----------------------------
(***************************************************************************)
(* runtime/ and kernel/karma.py: one Being driving tasks through the       *)
(* witnessed decision cycle.  One worker runs tasks one at a time          *)
(* (_task_serial); other threads append to the same witness chain and      *)
(* change the containment state between any two of its steps; the process  *)
(* may crash between any two steps and reboot.  The chain, the task        *)
(* journal and the karma journal are durable (module DurableJournal);      *)
(* everything else is memory.                                              *)
(*                                                                         *)
(* A SANDBOX record and a karma event carry the action hash; the task they *)
(* belong to is kept here for the properties and never read by an action.  *)
(***************************************************************************)
EXTENDS Naturals, Sequences, FiniteSets

CONSTANTS Task, NoTask, NoAction,
          Action,
          Loads,         \* what the Being may have to live through
          MaxLives       \* how often a client may submit one task id

PIPELINE == <<"RECEIVED", "GROUNDED", "PLANNED", "GENERATED", "VERIFIED",
              "AUTHORIZED", "ACTED", "RECORDED">>
BRANCHES == {"REFUSED", "FAILED", "FATE_UNKNOWN", "CONTAINED"}
TERMINAL == {"RECORDED"} \union BRANCHES
State == {PIPELINE[i] : i \in 1..8} \union BRANCHES

(* The action each task asks for (its hash), if any, and the bounds.       *)
Load == [actionOf : [Task -> Action \union {NoAction}],
         maxCrashes : Nat, maxOther : Nat, maxOrders : Nat]

ASSUME LifecycleAssumption ==
    /\ NoTask \notin Task /\ NoAction \notin Action
    /\ Loads \subseteq Load
    /\ MaxLives \in Nat \ {0}

(* LEGAL: one step forward along the pipeline, or into a branch.           *)
LEGAL(s) ==
    IF s \in TERMINAL THEN {}
    ELSE {PIPELINE[i + 1] : i \in {j \in 1..7 : PIPELINE[j] = s}} \union BRANCHES
Following(s) == CHOOSE n \in LEGAL(s) : n \notin BRANCHES

VARIABLES
    load,       \* which of Loads it is
    up,         \* "up", "down" or "refused" (recovery raised at boot)
    pc,         \* the worker's next step
    cur,        \* the task it is driving
    goal,       \* the state it is about to move cur to
    idx,        \* the witness index it has read
    trace,      \* in-memory DecisionTrace.state, "none" if there is no trace
    first,      \* in-memory DecisionTrace.witness_first
    chain,      \* the witness chain
    tj,         \* tasks.jsonl
    kj,         \* karma.jsonl
    executed,   \* ghost: the tasks whose action touched the world
    contained,  \* governor.is_contained(being): the daemon's ledger is memory
    crashes, others, orders

memory == <<pc, cur, goal, idx, trace, first>>
limits == <<load, crashes, others, orders>>
vars == <<up, memory, chain, tj, kj, executed, contained, limits>>

ActionOf == load.actionOf

Steps == {"idle", "opened", "indexed", "work", "gate", "intent", "witnessIntent",
          "act", "outcome", "witnessOutcome", "receipt", "witness", "journal"}

TaskRec(t, s) == [kind |-> "TASK", task |-> t, tag |-> s]
SandboxRec(t, ph) == [kind |-> "SANDBOX", task |-> t, tag |-> ph]
OtherRec == [kind |-> "OTHER", task |-> NoTask, tag |-> "other"]
Rec == [kind : {"TASK"}, task : Task, tag : State]
       \union [kind : {"SANDBOX"}, task : Task, tag : {"intent", "outcome"}]
       \union {OtherRec}

OpenEntry(t) == [op |-> "open", task |-> t, to |-> "RECEIVED", index |-> 0]

(* Mutant: the index is read after the lock was released.                  *)
MoveEntryLate(t, s, i) == [op |-> "move", task |-> t, to |-> s, index |-> Len(chain) - 1]

MoveEntry(t, s, i) == [op |-> "move", task |-> t, to |-> s, index |-> i]
Entry == [op : {"open", "move"}, task : Task, to : State, index : Nat]
Event == [ph : {"intent", "outcome"}, task : Task]

TypeOK ==
    /\ load \in Loads
    /\ up \in {"up", "down", "refused"}
    /\ pc \in Steps
    /\ cur \in Task \union {NoTask}
    /\ goal \in State
    /\ idx \in Nat
    /\ trace \in [Task -> State \union {"none"}]
    /\ first \in [Task -> Nat]
    /\ chain \in Seq(Rec)
    /\ tj \in Seq(Entry)
    /\ kj \in Seq(Event)
    /\ executed \subseteq Task
    /\ contained \in BOOLEAN
    /\ crashes \in Nat /\ others \in Nat /\ orders \in Nat

Init ==
    /\ load \in Loads
    /\ up = "up" /\ pc = "idle" /\ cur = NoTask /\ goal = "RECEIVED" /\ idx = 0
    /\ trace = [t \in Task |-> "none"]
    /\ first = [t \in Task |-> 0]
    /\ chain = <<>> /\ tj = <<>> /\ kj = <<>>
    /\ executed = {}
    /\ contained = FALSE
    /\ crashes = 0 /\ others = 0 /\ orders = 0

----------------------------------------------------------------------------
(* What the journals say.                                                  *)

Opened(t) == \E i \in 1..Len(tj) : tj[i].op = "open" /\ tj[i].task = t
MovesOf(t) == {i \in 1..Len(tj) : tj[i].op = "move" /\ tj[i].task = t}

(* DecisionTrace.from_journal: the state after the last journaled move.    *)
JournalState(t) ==
    IF MovesOf(t) = {} THEN "RECEIVED"
    ELSE tj[CHOOSE i \in MovesOf(t) : \A j \in MovesOf(t) : j <= i].to

InFlight == {t \in Task : Opened(t) /\ JournalState(t) \notin TERMINAL}

(* _orphaned_intents: keyed by action hash.                                *)
HashesOf(ph) == {ActionOf[kj[i].task] : i \in {j \in 1..Len(kj) : kj[j].ph = ph}}

(* Mutant: the difference taken the wrong way round.                       *)
UnintendedOutcomes == HashesOf("outcome") \ HashesOf("intent")

OrphanedIntents == HashesOf("intent") \ HashesOf("outcome")

(* recover_traces without a machine: the fate offline analysis reports.    *)
OfflineFate(t) ==
    CASE t \notin InFlight -> JournalState(t)
      [] t \in InFlight /\ JournalState(t) = "AUTHORIZED"
                        /\ OrphanedIntents # {} -> "FATE_UNKNOWN"
      [] OTHER -> "FAILED"

----------------------------------------------------------------------------
(* TaskStateMachine.open_trace.                                            *)

(* task_id comes from the client; a second submission of the same id is    *)
(* not refused, it starts a second life under the same journal key.        *)
Lives(t) == Cardinality({i \in 1..Len(chain) : chain[i] = TaskRec(t, "RECEIVED")})

OpenTrace(t) ==
    /\ up = "up" /\ pc = "idle" /\ Lives(t) < MaxLives
    /\ chain' = Append(chain, TaskRec(t, "RECEIVED"))
    /\ cur' = t /\ pc' = "opened"
    /\ UNCHANGED <<up, goal, idx, trace, first, tj, kj, executed, contained, limits>>

(* idx is read after chain.lock has been released.                         *)
HeadIndex == Len(chain) - 1

ReadIndex ==
    /\ up = "up" /\ pc = "opened"
    /\ idx' = HeadIndex
    /\ pc' = "indexed"
    /\ UNCHANGED <<up, cur, goal, trace, first, chain, tj, kj, executed, contained,
                   limits>>

JournalOpen ==
    /\ up = "up" /\ pc = "indexed"
    /\ tj' = Append(tj, OpenEntry(cur))
    /\ trace' = [trace EXCEPT ![cur] = "RECEIVED"]
    /\ first' = [first EXCEPT ![cur] = idx]
    /\ pc' = "work"
    /\ UNCHANGED <<up, cur, goal, idx, chain, kj, executed, contained, limits>>

----------------------------------------------------------------------------
(* The stages of _handle_task_serial.                                      *)

(* Ground, plan, generate and record write organ records (memory,          *)
(* deliberation, routing) to the chain.  The evidence every stage journals *)
(* with machine.enrich is data no later step depends on, and is left out.  *)
EmitsOrganRecord == {"RECEIVED", "GROUNDED", "PLANNED", "ACTED"}

Work ==
    /\ up = "up" /\ pc = "work" /\ trace[cur] # "VERIFIED"
    /\ chain' = IF trace[cur] \in EmitsOrganRecord THEN Append(chain, OtherRec)
                                                   ELSE chain
    /\ goal' = Following(trace[cur])
    /\ pc' = "witness"
    /\ UNCHANGED <<up, cur, idx, trace, first, tj, kj, executed, contained, limits>>

(* RefusalError: no panel, no bound artifact, or the verdict failed.       *)
Refuse ==
    /\ up = "up" /\ pc = "work" /\ trace[cur] \in {"PLANNED", "GENERATED"}
    /\ goal' = "REFUSED" /\ pc' = "witness"
    /\ UNCHANGED <<up, cur, idx, trace, first, chain, tj, kj, executed, contained, limits>>

(* Mutant: the exception leaves handle_task.                               *)
StageEscapes ==
    /\ up = "up" /\ pc \in {"work", "gate"}
    /\ pc = "gate" => ActionOf[cur] # NoAction
    /\ pc' = "idle" /\ cur' = NoTask
    /\ UNCHANGED <<up, goal, idx, trace, first, chain, tj, kj, executed, contained,
                   limits>>

(* Any other exception of a stage, or an unknown action kind.              *)
StageRaises ==
    /\ up = "up" /\ pc \in {"work", "gate"}
    /\ pc = "gate" => ActionOf[cur] # NoAction
    /\ goal' = "FAILED" /\ pc' = "witness"
    /\ UNCHANGED <<up, cur, idx, trace, first, chain, tj, kj, executed, contained, limits>>

(* _authorize_and_act up to the AUTHORIZED (or CONTAINED) transition.      *)
Authorize ==
    /\ up = "up" /\ pc = "work" /\ trace[cur] = "VERIFIED"
    /\ goal' = IF ActionOf[cur] # NoAction /\ contained THEN "CONTAINED"
                                                        ELSE "AUTHORIZED"
    /\ pc' = "witness"
    /\ UNCHANGED <<up, cur, idx, trace, first, chain, tj, kj, executed, contained, limits>>

----------------------------------------------------------------------------
(* Karma._act: gate, intent, the act, outcome.                             *)

Gate ==
    /\ up = "up" /\ pc = "gate"
    /\ IF ActionOf[cur] = NoAction
       THEN pc' = "receipt" /\ UNCHANGED goal
       ELSE IF contained THEN pc' = "witness" /\ goal' = "CONTAINED"
                         ELSE pc' = "intent" /\ UNCHANGED goal
    /\ UNCHANGED <<up, cur, idx, trace, first, chain, tj, kj, executed, contained, limits>>

EmitJournal(ph, next) ==
    /\ kj' = Append(kj, [ph |-> ph, task |-> cur])
    /\ pc' = next
    /\ UNCHANGED <<up, cur, goal, idx, trace, first, chain, tj, executed, contained,
                   limits>>

(* Mutant: the act before the intent is witnessed.                         *)
IntentUnwitnessed == up = "up" /\ pc = "intent" /\ EmitJournal("intent", "act")

JournalIntent == up = "up" /\ pc = "intent" /\ EmitJournal("intent", "witnessIntent")

WitnessIntent ==
    /\ up = "up" /\ pc = "witnessIntent"
    /\ chain' = Append(chain, SandboxRec(cur, "intent"))
    /\ pc' = "act"
    /\ UNCHANGED <<up, cur, goal, idx, trace, first, tj, kj, executed, contained, limits>>

(* fn() returns, or raises OSError after touching the world or before.     *)
Act ==
    /\ up = "up" /\ pc = "act"
    /\ executed' \in {executed, executed \union {cur}}
    /\ goal' = "ACTED" /\ pc' = "outcome"
    /\ UNCHANGED <<up, cur, idx, trace, first, chain, tj, kj, contained,
                   limits>>

(* SandboxEscape or IsolationRefused: nothing ran, an outcome is emitted,  *)
(* and the exception closes the task.                                      *)
ActRefused ==
    /\ up = "up" /\ pc = "act"
    /\ goal' = "FAILED" /\ pc' = "outcome"
    /\ UNCHANGED <<up, cur, idx, trace, first, chain, tj, kj, executed, contained,
                   limits>>

(* fn() raises anything else (a NUL in a path): no outcome is written.     *)
ActRaises ==
    /\ up = "up" /\ pc = "act"
    /\ goal' = "FAILED" /\ pc' = "witness"
    /\ UNCHANGED <<up, cur, idx, trace, first, chain, tj, kj, executed, contained, limits>>

(* Mutant: the outcome is not witnessed.                                   *)
OutcomeUnwitnessed == up = "up" /\ pc = "outcome" /\ EmitJournal("outcome", "receipt")

JournalOutcome == up = "up" /\ pc = "outcome" /\ EmitJournal("outcome", "witnessOutcome")

WitnessOutcome ==
    /\ up = "up" /\ pc = "witnessOutcome"
    /\ chain' = Append(chain, SandboxRec(cur, "outcome"))
    /\ pc' = IF goal = "ACTED" THEN "receipt" ELSE "witness"
    /\ UNCHANGED <<up, cur, goal, idx, trace, first, tj, kj, executed, contained, limits>>

Receipt ==
    /\ up = "up" /\ pc = "receipt"
    /\ goal' = "ACTED" /\ pc' = "witness"
    /\ UNCHANGED <<up, cur, idx, trace, first, chain, tj, kj, executed, contained, limits>>

----------------------------------------------------------------------------
(* TaskStateMachine.move: witness and read the index under chain.lock,     *)
(* then journal, then mutate the trace.                                    *)

Witness ==
    /\ up = "up" /\ pc = "witness" /\ goal \in LEGAL(trace[cur])
    /\ chain' = Append(chain, TaskRec(cur, goal))
    /\ idx' = Len(chain') - 1
    /\ pc' = "journal"
    /\ UNCHANGED <<up, cur, goal, trace, first, tj, kj, executed, contained, limits>>

JournalMove ==
    /\ up = "up" /\ pc = "journal"
    /\ tj' = Append(tj, MoveEntry(cur, goal, idx))
    /\ trace' = [trace EXCEPT ![cur] = goal]
    /\ pc' = IF goal \in TERMINAL THEN "idle"
             ELSE IF goal = "AUTHORIZED" THEN "gate" ELSE "work"
    /\ cur' = IF goal \in TERMINAL THEN NoTask ELSE cur
    /\ UNCHANGED <<up, goal, idx, first, chain, kj, executed, contained, limits>>

----------------------------------------------------------------------------
(* Everyone else.                                                          *)

(* Another thread appends: peer roots, inference, rate limiter, challenge. *)
OtherAppend ==
    /\ up = "up" /\ others < load.maxOther
    /\ chain' = Append(chain, OtherRec)
    /\ others' = others + 1
    /\ UNCHANGED <<up, memory, tj, kj, executed, contained, load, crashes, orders>>

(* The governor contains or releases the Being, and witnesses it.          *)
ContainmentOrder ==
    /\ up = "up" /\ orders < load.maxOrders
    /\ contained' = ~contained
    /\ chain' = Append(chain, OtherRec)
    /\ orders' = orders + 1
    /\ UNCHANGED <<up, memory, tj, kj, executed, load, crashes, others>>

Crash ==
    /\ up = "up" /\ crashes < load.maxCrashes
    /\ up' = "down"
    /\ pc' = "idle" /\ cur' = NoTask /\ goal' = "RECEIVED" /\ idx' = 0
    /\ trace' = [t \in Task |-> "none"]
    /\ first' = [t \in Task |-> 0]
    /\ contained' = FALSE
    /\ crashes' = crashes + 1
    /\ UNCHANGED <<chain, tj, kj, executed, load, others, orders>>

(* BeingRuntime.__init__: recover_traces rebuilds every trace.  For an     *)
(* in-flight task machine.move raises PlaneSchemaError, because its detail *)
(* carries the free-text reason that check_plane_value refuses: the        *)
(* constructor, and the boot, fail, this time and the next.                *)
Boot ==
    /\ up \in {"down", "refused"}
    /\ IF InFlight = {}
       THEN /\ up' = "up"
            /\ trace' = [t \in Task |-> IF Opened(t) THEN JournalState(t) ELSE "none"]
            /\ first' = [t \in Task |->
                 IF MovesOf(t) = {} THEN 0
                 ELSE tj[CHOOSE i \in MovesOf(t) : \A j \in MovesOf(t) : i <= j].index]
       ELSE up' = "refused" /\ UNCHANGED <<trace, first>>
    /\ UNCHANGED <<pc, cur, goal, idx, chain, tj, kj, executed, contained, limits>>

Worker ==
    \/ ReadIndex \/ JournalOpen
    \/ Work \/ Refuse \/ StageRaises \/ Authorize
    \/ Gate \/ JournalIntent \/ WitnessIntent
    \/ Act \/ ActRefused \/ ActRaises
    \/ JournalOutcome \/ WitnessOutcome \/ Receipt
    \/ Witness \/ JournalMove

Next ==
    \/ \E t \in Task : OpenTrace(t)
    \/ Worker
    \/ OtherAppend \/ ContainmentOrder
    \/ Crash \/ Boot

Spec == Init /\ [][Next]_vars

(* The worker thread keeps running while the process is up, and a service  *)
(* manager restarts a process that died.                                   *)
FairSpec == Spec /\ WF_vars(Worker) /\ WF_vars(Boot)

----------------------------------------------------------------------------
(* Properties.                                                             *)

OnChain(r, n) == \E i \in 1..n : chain[i] = r

(* state_machine.py: "in that order, so the chain never lags the journal". *)
(* Every journaled move points at its own TASK record on the chain,        *)
(* whatever other threads append and wherever the process crashed.         *)
ChainLeadsJournal ==
    \A i \in 1..Len(tj) : tj[i].op = "move" =>
        /\ tj[i].index < Len(chain)
        /\ chain[tj[i].index + 1] = TaskRec(tj[i].task, tj[i].to)

(* karma.py: "An action can therefore never occur unwitnessed".  Whatever  *)
(* touched the world has its intent on the chain, and before the intent    *)
(* the verdict and the authorization of the same task.                     *)
NeverUnwitnessed ==
    \A t \in executed : \E n \in 1..Len(chain) :
        /\ chain[n] = SandboxRec(t, "intent")
        /\ OnChain(TaskRec(t, "VERIFIED"), n)
        /\ OnChain(TaskRec(t, "AUTHORIZED"), n)

(* The ending a task was given tells the truth about its hand: a refused   *)
(* or contained task never touched the world, and a task that acted and    *)
(* was recorded has its outcome on the chain.                              *)
EndingTellsTruth ==
    \A t \in Task :
        /\ JournalState(t) \in {"REFUSED", "CONTAINED"} => t \notin executed
        /\ JournalState(t) \in {"ACTED", "RECORDED"} /\ ActionOf[t] # NoAction
               => OnChain(SandboxRec(t, "outcome"), Len(chain))

(* recovery.py: an action interrupted between intent and outcome is        *)
(* reported as FATE_UNKNOWN and never as a plain failure.                  *)
OrphanSurfaces ==
    \A t \in executed \intersect InFlight :
        (\A i \in 1..Len(kj) : kj[i] # [ph |-> "outcome", task |-> t])
            => OfflineFate(t) = "FATE_UNKNOWN"

(* being.py handle_task: "Always returns a terminal DecisionTrace".        *)
(* It holds while the process lives, whatever other threads append or      *)
(* order meanwhile.                                                        *)
TasksEndUnlessCrashed ==
    \A t \in Task : Opened(t) ~> (JournalState(t) \in TERMINAL \/ crashes > 0)

(* A restart is no exception: recovery.py, "Every resolution is itself     *)
(* witnessed and journaled".                                               *)
EveryTaskEnds == \A t \in Task : Opened(t) ~> JournalState(t) \in TERMINAL

=============================================================================
