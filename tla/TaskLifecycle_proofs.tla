------------------------- MODULE TaskLifecycle_proofs -------------------------
(***************************************************************************)
(* Proofs about TaskLifecycle for every set of tasks and actions, every    *)
(* load (any number of crashes, containment orders and records of other    *)
(* threads), and every number of lives of a task id unless a theorem says  *)
(* otherwise.                                                              *)
(***************************************************************************)
EXTENDS TaskLifecycle, SequenceTheorems, FiniteSetTheorems, TLAPS

----------------------------------------------------------------------------
(* The pipeline.                                                           *)

(* The state graph of state_machine.py, written out.                       *)
LEMMA StateGraph ==
    /\ State = {"RECEIVED", "GROUNDED", "PLANNED", "GENERATED", "VERIFIED", "AUTHORIZED",
                "ACTED", "RECORDED", "REFUSED", "FAILED", "FATE_UNKNOWN", "CONTAINED"}
    /\ TERMINAL = {"RECORDED", "REFUSED", "FAILED", "FATE_UNKNOWN", "CONTAINED"}
    /\ BRANCHES = {"REFUSED", "FAILED", "FATE_UNKNOWN", "CONTAINED"}
    /\ \A s \in TERMINAL : LEGAL(s) = {}
    /\ LEGAL("RECEIVED") = {"GROUNDED"} \union BRANCHES
    /\ LEGAL("GROUNDED") = {"PLANNED"} \union BRANCHES
    /\ LEGAL("PLANNED") = {"GENERATED"} \union BRANCHES
    /\ LEGAL("GENERATED") = {"VERIFIED"} \union BRANCHES
    /\ LEGAL("VERIFIED") = {"AUTHORIZED"} \union BRANCHES
    /\ LEGAL("AUTHORIZED") = {"ACTED"} \union BRANCHES
    /\ LEGAL("ACTED") = {"RECORDED"} \union BRANCHES
<1>1. /\ PIPELINE[1] = "RECEIVED" /\ PIPELINE[2] = "GROUNDED" /\ PIPELINE[3] = "PLANNED"
      /\ PIPELINE[4] = "GENERATED" /\ PIPELINE[5] = "VERIFIED"
      /\ PIPELINE[6] = "AUTHORIZED" /\ PIPELINE[7] = "ACTED" /\ PIPELINE[8] = "RECORDED"
  BY DEF PIPELINE
<1>2. State = {"RECEIVED", "GROUNDED", "PLANNED", "GENERATED", "VERIFIED", "AUTHORIZED",
               "ACTED", "RECORDED", "REFUSED", "FAILED", "FATE_UNKNOWN", "CONTAINED"}
  BY <1>1 DEF State, BRANCHES
<1>3. \A s \in TERMINAL : LEGAL(s) = {}
  BY DEF LEGAL
<1>4. ASSUME NEW k \in 1..7
      PROVE  LEGAL(PIPELINE[k]) = {PIPELINE[k + 1]} \union BRANCHES
  <2>1. PIPELINE[k] \notin TERMINAL
    BY <1>1 DEF TERMINAL, BRANCHES
  <2>2. {j \in 1..7 : PIPELINE[j] = PIPELINE[k]} = {k}
    BY <1>1
  <2> QED
    BY <2>1, <2>2 DEF LEGAL
<1> QED
  BY <1>1, <1>2, <1>3, <1>4 DEF TERMINAL, BRANCHES

(* A stage that succeeds moves to the one next state of the pipeline.      *)
LEMMA FollowingIsLegal ==
    ASSUME NEW s \in State, s \notin TERMINAL
    PROVE  Following(s) \in LEGAL(s) /\ Following(s) \in State /\ Following(s) \notin BRANCHES
<1>1. \E n \in LEGAL(s) : n \notin BRANCHES
  BY StateGraph
<1>2. Following(s) \in LEGAL(s) /\ Following(s) \notin BRANCHES
  BY <1>1 DEF Following
<1> QED
  BY <1>2, StateGraph

----------------------------------------------------------------------------
(* The inductive invariant for any number of lives.                        *)

Hand == {"gate", "intent", "witnessIntent", "act", "outcome", "witnessOutcome", "receipt"}
Driving == Hand \union {"work", "witness", "journal"}

(* The journaled moves of a task have a first and a last.                  *)
MovesRanked ==
    \A t \in Task : MovesOf(t) # {} =>
        /\ \E i \in MovesOf(t) : \A j \in MovesOf(t) : j <= i
        /\ \E i \in MovesOf(t) : \A j \in MovesOf(t) : i <= j

(* Where the worker is and what the trace of its task says.                *)
WorkerKnowsTask == (pc = "idle" \/ cur \in Task) /\ (up = "up" \/ pc = "idle")
ReceivedFirst == pc # "idle" => OnChain(TaskRec(cur, "RECEIVED"), Len(chain))
StageOfTask ==
    /\ pc = "work" => trace[cur] \in State \ (TERMINAL \union {"AUTHORIZED"})
    /\ pc \in Hand => trace[cur] = "AUTHORIZED"
    /\ pc \in {"outcome", "witnessOutcome"} => goal \in {"ACTED", "FAILED"}
    /\ pc \in {"witness", "journal"} => goal \in LEGAL(trace[cur]) /\ trace[cur] \in State

(* Between the two halves of a move the index points at the move's record. *)
MoveHalfDone ==
    pc = "journal" => idx < Len(chain) /\ chain[idx + 1] = TaskRec(cur, goal)

(* A task that is past its verdict (its authorization) has it on the       *)
(* chain, and the hand moves only after the intent.                        *)
VerdictFirst ==
    pc \in Driving =>
        /\ trace[cur] \in {"VERIFIED", "AUTHORIZED"}
              => OnChain(TaskRec(cur, "VERIFIED"), Len(chain))
        /\ trace[cur] = "AUTHORIZED" => OnChain(TaskRec(cur, "AUTHORIZED"), Len(chain))
Witnessed(t) ==
    \E n \in 1..Len(chain) :
        /\ chain[n] = SandboxRec(t, "intent")
        /\ OnChain(TaskRec(t, "VERIFIED"), n)
        /\ OnChain(TaskRec(t, "AUTHORIZED"), n)
IntentFirst == pc = "act" => Witnessed(cur)

IInv ==
    /\ TypeOK
    /\ MovesRanked
    /\ WorkerKnowsTask
    /\ ReceivedFirst
    /\ StageOfTask
    /\ MoveHalfDone
    /\ VerdictFirst
    /\ IntentFirst
    /\ ChainLeadsJournal
    /\ NeverUnwitnessed

(* Nothing has happened in the initial states.                             *)
LEMMA InitEstablishes == Init => IInv
<1> SUFFICES ASSUME Init PROVE IInv
  OBVIOUS
<1>1. TypeOK
  <2>1. goal \in State /\ trace \in [Task -> State \union {"none"}] /\ pc \in Steps
    BY StateGraph DEF Init, Steps
  <2>2. chain \in Seq(Rec) /\ tj \in Seq(Entry) /\ kj \in Seq(Event)
    BY DEF Init
  <2> QED
    BY <2>1, <2>2 DEF Init, TypeOK
<1>2. MovesRanked
  BY DEF Init, MovesRanked, MovesOf
<1>3. /\ WorkerKnowsTask /\ ReceivedFirst /\ StageOfTask
      /\ MoveHalfDone /\ VerdictFirst /\ IntentFirst
  BY DEF Init, WorkerKnowsTask, ReceivedFirst, StageOfTask, MoveHalfDone, VerdictFirst, IntentFirst,
         Hand, Driving
<1>4. ChainLeadsJournal /\ NeverUnwitnessed
  BY DEF Init, ChainLeadsJournal, NeverUnwitnessed
<1> QED
  BY <1>1, <1>2, <1>3, <1>4 DEF IInv

(* The chain only grows, and its records are of the three kinds.           *)
Grows == chain' = chain \/ \E r \in Rec : chain' = Append(chain, r)

(* The records the code appends are records.                               *)
LEMMA RecordTypes ==
    /\ \A t \in Task, s \in State : TaskRec(t, s) \in Rec
    /\ \A t \in Task, ph \in {"intent", "outcome"} : SandboxRec(t, ph) \in Rec
    /\ OtherRec \in Rec
BY DEF TaskRec, SandboxRec, OtherRec, Rec

(* What was on the chain stays where it was.                               *)
LEMMA ChainKeeps ==
    ASSUME chain \in Seq(Rec), Grows
    PROVE  /\ chain' \in Seq(Rec)
           /\ Len(chain) <= Len(chain') /\ Len(chain) \in Nat /\ Len(chain') \in Nat
           /\ \A i \in 1..Len(chain) : chain'[i] = chain[i]
<1>1. CASE chain' = chain
  BY <1>1
<1>2. ASSUME NEW r \in Rec, chain' = Append(chain, r) PROVE Len(chain') = Len(chain) + 1 /\
        chain' \in Seq(Rec) /\ \A i \in 1..Len(chain) : chain'[i] = chain[i]
  BY <1>2, AppendProperties
<1> QED
  BY <1>1, <1>2 DEF Grows

(* What was witnessed stays witnessed.                                     *)
LEMMA OnChainKeeps ==
    ASSUME chain \in Seq(Rec), Grows
    PROVE  /\ \A r : OnChain(r, Len(chain)) => OnChain(r, Len(chain))'
           /\ \A t : Witnessed(t) => Witnessed(t)'
<1>1. ASSUME NEW r, OnChain(r, Len(chain)) PROVE OnChain(r, Len(chain))'
  BY <1>1, ChainKeeps DEF OnChain
<1>2. ASSUME NEW t, Witnessed(t) PROVE Witnessed(t)'
  <2>1. PICK n \in 1..Len(chain) :
          /\ chain[n] = SandboxRec(t, "intent")
          /\ OnChain(TaskRec(t, "VERIFIED"), n)
          /\ OnChain(TaskRec(t, "AUTHORIZED"), n)
    BY <1>2 DEF Witnessed
  <2>2. n \in 1..Len(chain') /\ chain'[n] = SandboxRec(t, "intent")'
    BY <2>1, ChainKeeps DEF SandboxRec
  <2>3. /\ OnChain(TaskRec(t, "VERIFIED"), n)'
        /\ OnChain(TaskRec(t, "AUTHORIZED"), n)'
    BY <2>1, ChainKeeps DEF OnChain, TaskRec
  <2> QED
    BY <2>2, <2>3 DEF Witnessed
<1> QED
  BY <1>1, <1>2

(* An append to tasks.jsonl adds its move to the moves of its task and     *)
(* nothing else.                                                           *)
LEMMA JournalKeeps ==
    ASSUME tj \in Seq(Entry), NEW e \in Entry, tj' = Append(tj, e)
    PROVE  /\ tj' \in Seq(Entry) /\ Len(tj) \in Nat /\ Len(tj') = Len(tj) + 1
           /\ tj'[Len(tj) + 1] = e
           /\ \A i \in 1..Len(tj) : tj'[i] = tj[i] /\ tj[i] \in Entry
           /\ \A t : MovesOf(t)' = IF e.op = "move" /\ e.task = t
                                   THEN MovesOf(t) \union {Len(tj) + 1} ELSE MovesOf(t)
<1>1. /\ tj' \in Seq(Entry) /\ Len(tj) \in Nat /\ Len(tj') = Len(tj) + 1
      /\ tj'[Len(tj) + 1] = e
      /\ \A i \in 1..Len(tj) : tj'[i] = tj[i] /\ tj[i] \in Entry
  BY AppendProperties
<1>2. ASSUME NEW t PROVE MovesOf(t)' = IF e.op = "move" /\ e.task = t
                                       THEN MovesOf(t) \union {Len(tj) + 1} ELSE MovesOf(t)
  BY <1>1 DEF MovesOf
<1> QED
  BY <1>1, <1>2

(* Appending keeps the moves ranked.                                       *)
LEMMA RankedPreserved ==
    ASSUME TypeOK, MovesRanked, tj' = tj \/ \E e \in Entry : tj' = Append(tj, e)
    PROVE  MovesRanked'
<1>1. CASE tj' = tj
  BY <1>1 DEF MovesRanked, MovesOf
<1>2. ASSUME NEW e \in Entry, tj' = Append(tj, e) PROVE MovesRanked'
  <2> SUFFICES ASSUME NEW t \in Task, MovesOf(t)' # {}
               PROVE  /\ \E i \in MovesOf(t)' : \A j \in MovesOf(t)' : j <= i
                      /\ \E i \in MovesOf(t)' : \A j \in MovesOf(t)' : i <= j
    BY DEF MovesRanked
  <2>1. CASE ~(e.op = "move" /\ e.task = t)
    BY <1>2, <2>1, JournalKeeps DEF TypeOK, MovesRanked
  <2>2. CASE e.op = "move" /\ e.task = t
    <3>1. /\ MovesOf(t)' = MovesOf(t) \union {Len(tj) + 1} /\ Len(tj) \in Nat
          /\ MovesOf(t) \subseteq 1..Len(tj)
      BY <1>2, <2>2, JournalKeeps DEF TypeOK, MovesOf
    <3>2. CASE MovesOf(t) = {}
      BY <3>1, <3>2
    <3>3. CASE MovesOf(t) # {}
      BY <3>1, <3>3 DEF MovesRanked
    <3> QED
      BY <3>2, <3>3
  <2> QED
    BY <2>1, <2>2
<1> QED
  BY <1>1, <1>2

(* The state a journal gives a task is a state.                            *)
LEMMA JournalStateType ==
    ASSUME TypeOK, MovesRanked, NEW t \in Task
    PROVE  /\ JournalState(t) \in State
           /\ MovesOf(t) # {} =>
                tj[CHOOSE i \in MovesOf(t) : \A j \in MovesOf(t) : i <= j].index \in Nat
<1>1. CASE MovesOf(t) = {}
  BY <1>1, StateGraph DEF JournalState
<1>2. CASE MovesOf(t) # {}
  <2>1. MovesOf(t) \subseteq 1..Len(tj) /\ \A i \in 1..Len(tj) : tj[i] \in Entry
    BY DEF MovesOf, TypeOK
  <2>2. /\ (CHOOSE i \in MovesOf(t) : \A j \in MovesOf(t) : j <= i) \in MovesOf(t)
        /\ (CHOOSE i \in MovesOf(t) : \A j \in MovesOf(t) : i <= j) \in MovesOf(t)
    BY <1>2 DEF MovesRanked
  <2> QED
    BY <1>2, <2>1, <2>2 DEF JournalState, Entry
<1> QED
  BY <1>1, <1>2

(* Every step keeps the types, lets the chain only grow, and appends at    *)
(* most one entry to the task journal.                                     *)
JournalGrows == tj' = tj \/ \E e \in Entry : tj' = Append(tj, e)
(* The next state is typed, and the logs only grow.                       *)
LEMMA TypePreserved == IInv /\ [Next]_vars => TypeOK' /\ Grows /\ JournalGrows
<1> SUFFICES ASSUME IInv, [Next]_vars PROVE TypeOK' /\ Grows /\ JournalGrows
  OBVIOUS
<1> USE DEF Grows, JournalGrows
<1>0. TypeOK /\ WorkerKnowsTask /\ ReceivedFirst /\ StageOfTask /\ MovesRanked
  BY DEF IInv
<1>a. \A r \in Rec : Append(chain, r) \in Seq(Rec)
  BY <1>0, AppendProperties DEF TypeOK
<1>b. /\ Len(chain) \in Nat
      /\ {"RECEIVED", "AUTHORIZED", "CONTAINED", "REFUSED", "FAILED", "ACTED"} \subseteq State
      /\ pc # "idle" => cur \in Task
  BY <1>0, StateGraph DEF TypeOK, WorkerKnowsTask
<1>c. \A e \in Entry : Append(tj, e) \in Seq(Entry)
  BY <1>0, AppendProperties DEF TypeOK
<1>d. pc # "idle" => \A ph \in {"intent", "outcome"} :
                        Append(kj, [ph |-> ph, task |-> cur]) \in Seq(Event)
  BY <1>0, <1>b, AppendProperties DEF TypeOK, Event
<1> USE DEF TypeOK, limits, Steps
<1>1. ASSUME NEW t \in Task, OpenTrace(t) PROVE TypeOK' /\ Grows /\ JournalGrows
  <2>1. TaskRec(t, "RECEIVED") \in Rec
    BY RecordTypes, StateGraph
  <2> QED
    BY <1>0, <1>1, <1>a, <2>1 DEF OpenTrace
<1>2. CASE ReadIndex
  <2>1. HeadIndex \in Nat
    BY <1>0, <1>b, <1>2 DEF ReadIndex, HeadIndex, ReceivedFirst, OnChain
  <2> QED
    BY <1>0, <1>2, <2>1 DEF ReadIndex
<1>3. CASE JournalOpen
  <2>1. OpenEntry(cur) \in Entry
    BY <1>b, <1>3 DEF JournalOpen, OpenEntry, Entry
  <2> QED
    BY <1>0, <1>3, <1>b, <1>c, <2>1 DEF JournalOpen
<1>4. CASE Work
  <2>1. Following(trace[cur]) \in State
    BY <1>0, <1>4, FollowingIsLegal DEF Work, StageOfTask
  <2> QED
    BY <1>0, <1>4, <1>a, <2>1, RecordTypes DEF Work
<1>5. CASE Refuse \/ StageRaises \/ Authorize
  BY <1>0, <1>5, <1>b DEF Refuse, StageRaises, Authorize
<1>6. CASE Gate \/ Receipt \/ ActRefused \/ ActRaises
  BY <1>0, <1>6, <1>b DEF Gate, Receipt, ActRefused, ActRaises
<1>7. CASE Act
  BY <1>0, <1>7, <1>b DEF Act
<1>8. CASE JournalIntent \/ JournalOutcome
  BY <1>0, <1>8, <1>d DEF JournalIntent, JournalOutcome, EmitJournal
<1>9. CASE WitnessIntent \/ WitnessOutcome
  BY <1>0, <1>9, <1>a, <1>b, RecordTypes DEF WitnessIntent, WitnessOutcome
<1>10. CASE Witness
  <2>1. TaskRec(cur, goal) \in Rec
    BY <1>0, <1>10, <1>b, RecordTypes DEF Witness
  <2>2. chain' = Append(chain, TaskRec(cur, goal)) /\ Len(chain') - 1 = Len(chain)
    BY <1>0, <1>10, <2>1, AppendProperties DEF Witness
  <2> QED
    BY <1>0, <1>10, <1>a, <1>b, <2>1, <2>2 DEF Witness
<1>11. CASE JournalMove
  <2>1. MoveEntry(cur, goal, idx) \in Entry
    BY <1>0, <1>b, <1>11 DEF JournalMove, MoveEntry, Entry
  <2>2. trace' \in [Task -> State \union {"none"}]
    BY <1>0, <1>11 DEF JournalMove
  <2> QED
    BY <1>0, <1>11, <1>b, <1>c, <2>1, <2>2 DEF JournalMove
<1>12. CASE OtherAppend
  BY <1>0, <1>12, <1>a, RecordTypes DEF OtherAppend, memory
<1>13. CASE ContainmentOrder
  <2>1. contained' \in BOOLEAN
    BY <1>0, <1>13, Zenon DEF ContainmentOrder
  <2> QED
    BY <1>0, <1>13, <1>a, <2>1, RecordTypes DEF ContainmentOrder, memory
<1>14. CASE Crash
  <2>1. trace' \in [Task -> State \union {"none"}] /\ first' \in [Task -> Nat]
    BY <1>14 DEF Crash
  <2>2. contained' \in BOOLEAN
    BY <1>14, Zenon DEF Crash
  <2> QED
    BY <1>0, <1>14, <1>b, <2>1, <2>2 DEF Crash
<1>15. CASE Boot
  <2>1. CASE InFlight = {}
    <3>1. \A t \in Task : JournalState(t) \in State /\ (MovesOf(t) # {} =>
            tj[CHOOSE i \in MovesOf(t) : \A j \in MovesOf(t) : i <= j].index \in Nat)
      BY <1>0, JournalStateType
    <3>2. trace' \in [Task -> State \union {"none"}]
      BY <1>15, <2>1, <3>1 DEF Boot
    <3>3. first' \in [Task -> Nat]
      BY <1>15, <2>1, <3>1 DEF Boot
    <3> QED
      BY <1>0, <1>15, <2>1, <3>2, <3>3 DEF Boot
  <2>2. CASE InFlight # {}
    BY <1>0, <1>15, <2>2 DEF Boot
  <2> QED
    BY <2>1, <2>2
<1>16. CASE UNCHANGED vars
  BY <1>0, <1>16 DEF vars, memory
<1> QED
  BY <1>1, <1>2, <1>3, <1>4, <1>5, <1>6, <1>7, <1>8, <1>9, <1>10, <1>11, <1>12, <1>13,
     <1>14, <1>15, <1>16 DEF Next, Worker

(* The worker stays on the task it is driving, and the task on the         *)
(* pipeline.                                                               *)
LEMMA StagePreserved == IInv /\ [Next]_vars => WorkerKnowsTask' /\ StageOfTask'
<1> SUFFICES ASSUME IInv, [Next]_vars PROVE WorkerKnowsTask' /\ StageOfTask'
  OBVIOUS
<1>0. TypeOK /\ WorkerKnowsTask /\ StageOfTask
  BY DEF IInv
<1> USE <1>0 DEF TypeOK, WorkerKnowsTask, StageOfTask, Hand
<1>1. ASSUME NEW t \in Task, OpenTrace(t) PROVE WorkerKnowsTask' /\ StageOfTask'
  BY <1>1 DEF OpenTrace
<1>2. CASE ReadIndex
  BY <1>2 DEF ReadIndex
<1>3. CASE JournalOpen
  BY <1>3, StateGraph DEF JournalOpen
<1>4. CASE Work
  BY <1>4, FollowingIsLegal DEF Work
<1>5. CASE Refuse \/ StageRaises \/ Authorize
  BY <1>5, StateGraph DEF Refuse, StageRaises, Authorize
<1>6. CASE Gate \/ Receipt \/ ActRefused \/ ActRaises \/ Act
  BY <1>6, StateGraph DEF Gate, Receipt, ActRefused, ActRaises, Act
<1>7. CASE JournalIntent \/ JournalOutcome \/ WitnessIntent
  BY <1>7 DEF JournalIntent, JournalOutcome, EmitJournal, WitnessIntent
<1>8. CASE WitnessOutcome
  BY <1>8, StateGraph DEF WitnessOutcome
<1>9. CASE Witness
  BY <1>9 DEF Witness
<1>10. CASE JournalMove
  <2>1. trace'[cur] = goal /\ cur \in Task
    BY <1>10 DEF JournalMove
  <2> QED
    BY <1>10, <2>1 DEF JournalMove
<1>11. CASE OtherAppend \/ ContainmentOrder
  BY <1>11 DEF OtherAppend, ContainmentOrder, memory
<1>12. CASE Crash
  BY <1>12 DEF Crash
<1>13. CASE Boot
  BY <1>13 DEF Boot
<1>14. CASE UNCHANGED vars
  BY <1>14 DEF vars, memory
<1> QED
  BY <1>1, <1>2, <1>3, <1>4, <1>5, <1>6, <1>7, <1>8, <1>9, <1>10, <1>11, <1>12, <1>13,
     <1>14 DEF Next, Worker

(* The records the worker's step rests on stay on the chain, or were just  *)
(* put there.                                                              *)
LEMMA RecordsPreserved == IInv /\ [Next]_vars => ReceivedFirst' /\ MoveHalfDone'
<1> SUFFICES ASSUME IInv, [Next]_vars PROVE ReceivedFirst' /\ MoveHalfDone'
  OBVIOUS
<1>0. /\ TypeOK /\ WorkerKnowsTask /\ ReceivedFirst /\ MoveHalfDone /\ Grows
      /\ chain \in Seq(Rec)
  BY TypePreserved DEF IInv, TypeOK
<1>a. OnChain(TaskRec(cur, "RECEIVED"), Len(chain))
        => \E i \in 1..Len(chain') : chain'[i] = TaskRec(cur, "RECEIVED")
  BY <1>0, ChainKeeps DEF OnChain
<1>b. pc = "journal" => idx < Len(chain') /\ chain'[idx + 1] = TaskRec(cur, goal)
  <2>1. /\ Len(chain) <= Len(chain') /\ Len(chain) \in Nat /\ Len(chain') \in Nat
        /\ \A i \in 1..Len(chain) : chain'[i] = chain[i]
    BY <1>0, ChainKeeps
  <2>2. idx \in Nat
    BY <1>0 DEF TypeOK
  <2>3. idx < Len(chain) => idx + 1 \in 1..Len(chain)
    BY <2>1, <2>2
  <2> QED
    BY <1>0, <2>1, <2>2, <2>3 DEF MoveHalfDone
<1>1. ASSUME cur' = cur, pc # "idle" \/ pc' = "idle" PROVE ReceivedFirst'
  BY <1>0, <1>1, <1>a DEF ReceivedFirst, OnChain, TaskRec
<1>2. ASSUME cur' = cur, goal' = goal, idx' = idx, pc = "journal" \/ pc' # "journal"
      PROVE  MoveHalfDone'
  BY <1>2, <1>b DEF MoveHalfDone, TaskRec
<1>3. ASSUME NEW t \in Task, OpenTrace(t) PROVE ReceivedFirst' /\ MoveHalfDone'
  <2>1. TaskRec(t, "RECEIVED") \in Rec
    BY RecordTypes, StateGraph
  <2>2. Len(chain') \in 1..Len(chain') /\ chain'[Len(chain')] = TaskRec(t, "RECEIVED")
    BY <1>0, <1>3, <2>1, AppendProperties DEF OpenTrace
  <2> QED
    BY <1>3, <2>2 DEF OpenTrace, ReceivedFirst, MoveHalfDone, OnChain, TaskRec
<1>4. CASE ReadIndex \/ JournalOpen \/ Work \/ Refuse \/ StageRaises \/ Authorize
  BY <1>1, <1>4 DEF ReadIndex, JournalOpen, Work, Refuse, StageRaises, Authorize,
                    MoveHalfDone
<1>5. CASE Gate \/ Receipt \/ ActRefused \/ ActRaises \/ Act
  BY <1>1, <1>5 DEF Gate, Receipt, ActRefused, ActRaises, Act, MoveHalfDone
<1>6. CASE JournalIntent \/ JournalOutcome \/ WitnessIntent \/ WitnessOutcome
  BY <1>1, <1>6 DEF JournalIntent, JournalOutcome, EmitJournal, WitnessIntent,
                    WitnessOutcome, MoveHalfDone
<1>7. CASE Witness
  <2>1. TaskRec(cur, goal) \in Rec
    BY <1>0, <1>7, RecordTypes DEF Witness, WorkerKnowsTask, TypeOK
  <2>2. idx' = Len(chain) /\ Len(chain') = Len(chain) + 1 /\ Len(chain) \in Nat
        /\ chain'[Len(chain) + 1] = TaskRec(cur, goal)
    BY <1>0, <1>7, <2>1, AppendProperties DEF Witness
  <2> QED
    BY <1>1, <1>7, <2>2 DEF Witness, MoveHalfDone, TaskRec
<1>8. CASE JournalMove
  BY <1>1, <1>8 DEF JournalMove, MoveHalfDone, ReceivedFirst
<1>9. CASE OtherAppend \/ ContainmentOrder
  BY <1>1, <1>2, <1>9 DEF OtherAppend, ContainmentOrder, memory, MoveHalfDone
<1>10. CASE Crash
  BY <1>10 DEF Crash, ReceivedFirst, MoveHalfDone
<1>11. CASE Boot
  BY <1>0, <1>11 DEF Boot, WorkerKnowsTask, ReceivedFirst, MoveHalfDone
<1>12. CASE UNCHANGED vars
  BY <1>1, <1>2, <1>12 DEF vars, memory
<1> QED
  BY <1>3, <1>4, <1>5, <1>6, <1>7, <1>8, <1>9, <1>10, <1>11, <1>12 DEF Next, Worker

(* The verdict and the authorization precede the hand, the intent the act. *)
LEMMA VerdictPreserved == IInv /\ [Next]_vars => VerdictFirst' /\ IntentFirst'
<1> SUFFICES ASSUME IInv, [Next]_vars PROVE VerdictFirst' /\ IntentFirst'
  OBVIOUS
<1>0. /\ TypeOK /\ WorkerKnowsTask /\ StageOfTask /\ MoveHalfDone /\ VerdictFirst
      /\ IntentFirst /\ Grows /\ chain \in Seq(Rec)
  BY TypePreserved DEF IInv, TypeOK
<1>a. \A r : OnChain(r, Len(chain)) => OnChain(r, Len(chain))'
  BY <1>0, OnChainKeeps
<1>1. ASSUME cur' = cur, pc \in Driving, trace' = trace PROVE VerdictFirst'
  <2>1. \A s : TaskRec(cur, s)' = TaskRec(cur, s)
    BY <1>1 DEF TaskRec
  <2> QED
    BY <1>0, <1>1, <1>a, <2>1 DEF VerdictFirst, OnChain
<1>2. ASSUME pc' # "act" PROVE IntentFirst'
  BY <1>2 DEF IntentFirst
<1>3. ASSUME NEW t \in Task, OpenTrace(t) PROVE VerdictFirst' /\ IntentFirst'
  BY <1>3 DEF OpenTrace, VerdictFirst, IntentFirst, Driving, Hand
<1>4. CASE ReadIndex
  BY <1>4 DEF ReadIndex, VerdictFirst, IntentFirst, Driving, Hand
<1>5. CASE JournalOpen
  <2>1. trace'[cur] = "RECEIVED" /\ cur' = cur
    BY <1>0, <1>5 DEF JournalOpen, TypeOK, WorkerKnowsTask
  <2> QED
    BY <1>2, <1>5, <2>1 DEF JournalOpen, VerdictFirst
<1>6. CASE Work \/ Refuse \/ StageRaises \/ Authorize
  BY <1>1, <1>2, <1>6 DEF Work, Refuse, StageRaises, Authorize, Driving, Hand
<1>7. CASE Gate \/ Receipt \/ ActRefused \/ ActRaises \/ Act
  BY <1>1, <1>2, <1>7 DEF Gate, Receipt, ActRefused, ActRaises, Act, Driving, Hand
<1>8. CASE JournalIntent \/ JournalOutcome \/ WitnessOutcome
  BY <1>1, <1>2, <1>8 DEF JournalIntent, JournalOutcome, EmitJournal, WitnessOutcome,
                          Driving, Hand
<1>9. CASE WitnessIntent
  <2>1. SandboxRec(cur, "intent") \in Rec /\ chain' = Append(chain, SandboxRec(cur, "intent"))
        /\ cur' = cur
    BY <1>0, <1>9, RecordTypes DEF WitnessIntent, WorkerKnowsTask
  <2>2. /\ Len(chain) \in Nat /\ Len(chain') = Len(chain) + 1
        /\ chain'[Len(chain) + 1] = SandboxRec(cur, "intent")
        /\ \A i \in 1..Len(chain) : chain'[i] = chain[i]
    BY <1>0, <2>1, AppendProperties
  <2>3. /\ OnChain(TaskRec(cur, "VERIFIED"), Len(chain))
        /\ OnChain(TaskRec(cur, "AUTHORIZED"), Len(chain))
    BY <1>0, <1>9 DEF WitnessIntent, StageOfTask, VerdictFirst, Hand, Driving
  <2>4. \A i \in 1..Len(chain) : i \in 1..Len(chain')
    BY <2>2
  <2>5. /\ OnChain(TaskRec(cur, "VERIFIED"), Len(chain))'
        /\ OnChain(TaskRec(cur, "AUTHORIZED"), Len(chain))'
    BY <2>1, <2>2, <2>3, <2>4 DEF OnChain, TaskRec
  <2>6. Witnessed(cur)'
    <3>1. Len(chain) + 1 \in 1..Len(chain') /\ Len(chain) + 1 = Len(chain')
      BY <2>2
    <3> QED
      BY <2>1, <2>2, <2>5, <3>1 DEF Witnessed, SandboxRec
  <2> QED
    BY <1>1, <1>9, <2>6 DEF WitnessIntent, IntentFirst, Driving, Hand
<1>10. CASE Witness
  BY <1>1, <1>2, <1>10 DEF Witness, Driving
<1>11. CASE JournalMove
  <2>1. CASE goal \in TERMINAL
    BY <1>11, <2>1 DEF JournalMove, VerdictFirst, IntentFirst, Driving, Hand
  <2>2. CASE goal \notin TERMINAL
    <3>1. /\ chain' = chain /\ cur' = cur /\ trace'[cur] = goal /\ cur \in Task
          /\ pc' # "act"
      BY <1>0, <1>11, <2>2 DEF JournalMove, TypeOK, WorkerKnowsTask
    <3>2. OnChain(TaskRec(cur, goal), Len(chain))
      <4>1. idx \in Nat /\ Len(chain) \in Nat /\ idx < Len(chain)
            /\ chain[idx + 1] = TaskRec(cur, goal)
        BY <1>0, <1>11 DEF JournalMove, MoveHalfDone, TypeOK
      <4>2. idx + 1 \in 1..Len(chain)
        BY <4>1
      <4> QED
        BY <4>1, <4>2 DEF OnChain
    <3>3. goal = "AUTHORIZED" => trace[cur] = "VERIFIED"
      BY <1>0, <1>11, StateGraph DEF JournalMove, StageOfTask
    <3>4. goal = "AUTHORIZED" => OnChain(TaskRec(cur, "VERIFIED"), Len(chain))
      BY <1>0, <1>11, <3>3 DEF JournalMove, VerdictFirst, Driving
    <3> QED
      BY <1>2, <3>1, <3>2, <3>4 DEF VerdictFirst, OnChain, TaskRec
  <2> QED
    BY <2>1, <2>2
<1>12. CASE UNCHANGED memory
  <2>1. pc' = pc /\ cur' = cur /\ trace' = trace
    BY <1>12 DEF memory
  <2>2. pc = "act" => Witnessed(cur)'
    BY <1>0, OnChainKeeps, <2>1 DEF IntentFirst, Witnessed
  <2>3. IntentFirst'
    BY <2>1, <2>2 DEF IntentFirst
  <2> QED
    BY <1>1, <2>1, <2>3 DEF VerdictFirst
<1>13. CASE Crash
  BY <1>13 DEF Crash, VerdictFirst, IntentFirst, Driving, Hand
<1>14. CASE Boot
  BY <1>0, <1>14 DEF Boot, WorkerKnowsTask, VerdictFirst, IntentFirst, Driving, Hand
<1> QED
  BY <1>3, <1>4, <1>5, <1>6, <1>7, <1>8, <1>9, <1>10, <1>11, <1>12, <1>13, <1>14
     DEF Next, Worker, OtherAppend, ContainmentOrder, vars

(* A move is journaled only behind its record on the chain.                *)
LEMMA JournalPreserved == IInv /\ [Next]_vars => MovesRanked' /\ ChainLeadsJournal'
<1> SUFFICES ASSUME IInv, [Next]_vars PROVE MovesRanked' /\ ChainLeadsJournal'
  OBVIOUS
<1>0. /\ TypeOK /\ MovesRanked /\ WorkerKnowsTask /\ MoveHalfDone /\ ChainLeadsJournal
      /\ Grows /\ JournalGrows /\ chain \in Seq(Rec) /\ tj \in Seq(Entry)
  BY TypePreserved DEF IInv, TypeOK
<1>1. MovesRanked'
  BY <1>0, RankedPreserved DEF JournalGrows
<1>2. /\ Len(chain) <= Len(chain') /\ Len(chain) \in Nat /\ Len(chain') \in Nat
      /\ \A i \in 1..Len(chain) : chain'[i] = chain[i]
  BY <1>0, ChainKeeps
<1>3. ASSUME NEW i \in 1..Len(tj), tj[i].op = "move"
      PROVE  /\ tj[i].index < Len(chain')
             /\ chain'[tj[i].index + 1] = TaskRec(tj[i].task, tj[i].to)
  <2>0. tj[i] \in Entry
    BY <1>0, ElementOfSeq
  <2>1. tj[i].index \in Nat
    BY <2>0 DEF Entry
  <2>2. tj[i].index < Len(chain) /\ chain[tj[i].index + 1] = TaskRec(tj[i].task, tj[i].to)
    BY <1>0, <1>3 DEF ChainLeadsJournal
  <2>3. tj[i].index + 1 \in 1..Len(chain)
    BY <1>2, <2>1, <2>2
  <2> QED
    BY <1>2, <2>1, <2>2, <2>3
<1>4. CASE tj' = tj
  BY <1>1, <1>3, <1>4 DEF ChainLeadsJournal, TaskRec
<1>5. ASSUME NEW e \in Entry, tj' = Append(tj, e),
             e.op = "move" => /\ e.index < Len(chain')
                              /\ chain'[e.index + 1] = TaskRec(e.task, e.to)
      PROVE  ChainLeadsJournal'
  <2> SUFFICES ASSUME NEW i \in 1..Len(tj'), tj'[i].op = "move"
               PROVE  /\ tj'[i].index < Len(chain')
                      /\ chain'[tj'[i].index + 1] = TaskRec(tj'[i].task, tj'[i].to)
    BY DEF ChainLeadsJournal, TaskRec
  <2>1. /\ Len(tj) \in Nat /\ Len(tj') = Len(tj) + 1 /\ tj'[Len(tj) + 1] = e
        /\ \A j \in 1..Len(tj) : tj'[j] = tj[j]
    BY <1>0, <1>5, JournalKeeps
  <2>2. CASE i \in 1..Len(tj)
    BY <1>3, <2>1, <2>2
  <2>3. CASE i = Len(tj) + 1
    BY <1>5, <2>1, <2>3
  <2> QED
    BY <2>1, <2>2, <2>3
<1>6. CASE JournalOpen
  <2>1. OpenEntry(cur) \in Entry /\ OpenEntry(cur).op = "open"
    BY <1>0, <1>6, StateGraph DEF JournalOpen, OpenEntry, Entry, WorkerKnowsTask
  <2> QED
    BY <1>1, <1>5, <1>6, <2>1 DEF JournalOpen
<1>7. CASE JournalMove
  <2>1. /\ MoveEntry(cur, goal, idx) \in Entry
        /\ MoveEntry(cur, goal, idx).index = idx
        /\ MoveEntry(cur, goal, idx).task = cur /\ MoveEntry(cur, goal, idx).to = goal
    BY <1>0, <1>7 DEF JournalMove, MoveEntry, Entry, WorkerKnowsTask, TypeOK
  <2>2. chain' = chain /\ idx < Len(chain) /\ chain[idx + 1] = TaskRec(cur, goal)
    BY <1>0, <1>7 DEF JournalMove, MoveHalfDone
  <2> QED
    BY <1>1, <1>5, <1>7, <2>1, <2>2 DEF JournalMove
<1> QED
  BY <1>1, <1>4, <1>6, <1>7 DEF Next, Worker, OpenTrace, ReadIndex, Work, Refuse,
     StageRaises, Authorize, Gate, JournalIntent, JournalOutcome, EmitJournal,
     WitnessIntent, Act, ActRefused, ActRaises, WitnessOutcome, Receipt, Witness,
     OtherAppend, ContainmentOrder, Crash, Boot, vars

(* Only Act touches the world, and it is entered behind a witnessed        *)
(* intent.                                                                 *)
LEMMA WitnessedPreserved == IInv /\ [Next]_vars => NeverUnwitnessed'
<1> SUFFICES ASSUME IInv, [Next]_vars PROVE NeverUnwitnessed'
  OBVIOUS
<1>0. NeverUnwitnessed /\ IntentFirst /\ Grows /\ chain \in Seq(Rec)
  BY TypePreserved DEF IInv, TypeOK
<1>1. \A t \in executed : Witnessed(t)'
  BY <1>0, OnChainKeeps DEF NeverUnwitnessed, Witnessed
<1>2. ASSUME \A t \in executed' : Witnessed(t)' PROVE NeverUnwitnessed'
  BY <1>2 DEF NeverUnwitnessed, Witnessed
<1>3. CASE Act
  <2>1. Witnessed(cur)'
    BY <1>0, <1>3, OnChainKeeps DEF Act, IntentFirst
  <2> QED
    BY <1>1, <1>2, <1>3, <2>1 DEF Act
<1> QED
  BY <1>1, <1>2, <1>3 DEF Next, Worker, OpenTrace, ReadIndex, JournalOpen, Work, Refuse,
     StageRaises, Authorize, Gate, JournalIntent, JournalOutcome, EmitJournal,
     WitnessIntent, ActRefused, ActRaises, WitnessOutcome, Receipt, Witness, JournalMove,
     OtherAppend, ContainmentOrder, Crash, Boot, vars

(* Every step keeps the invariant.                                         *)
LEMMA IInvPreserved == IInv /\ [Next]_vars => IInv'
BY TypePreserved, StagePreserved, RecordsPreserved, VerdictPreserved, JournalPreserved,
   WitnessedPreserved DEF IInv

(* The invariant holds in every reachable state.                           *)
LEMMA IInvAlways == Spec => []IInv
BY InitEstablishes, IInvPreserved, PTL DEF Spec

(* Every variable keeps its type: in particular the state a restarted      *)
(* process rebuilds from its journal is a state of the pipeline.           *)
THEOREM TypeCorrect == Spec => []TypeOK
<1>1. IInv => TypeOK
  BY DEF IInv
<1> QED
  BY <1>1, IInvAlways, PTL

(* state_machine.py move: whatever other threads append, and wherever the  *)
(* process crashes, every journaled move points at its own record on the   *)
(* witness chain.                                                          *)
THEOREM ChainNeverLags == Spec => []ChainLeadsJournal
<1>1. IInv => ChainLeadsJournal
  BY DEF IInv
<1> QED
  BY <1>1, IInvAlways, PTL

(* karma.py _act: no action reaches the world without its intent on the    *)
(* chain, and before the intent the task's verdict and authorization.      *)
THEOREM NoUnwitnessedAct == Spec => []NeverUnwitnessed
<1>1. IInv => NeverUnwitnessed
  BY DEF IInv
<1> QED
  BY <1>1, IInvAlways, PTL

----------------------------------------------------------------------------
(* One life: what holds when no task id is submitted twice.                *)

Intended(t) == \E i \in 1..Len(kj) : kj[i] = [ph |-> "intent", task |-> t]
Concluded(t) == \E i \in 1..Len(kj) : kj[i] = [ph |-> "outcome", task |-> t]
OutcomeKept(t) == OnChain(SandboxRec(t, "outcome"), Len(chain)) /\ Concluded(t)

(* The journal agrees with the trace of the task that is being driven.     *)
JournalFollows == pc \in Driving => JournalState(cur) = trace[cur]

(* A task nobody received has no moves and no deeds; neither has one that  *)
(* was only just received.                                                 *)
FreshTasks ==
    /\ \A t \in Task : OnChain(TaskRec(t, "RECEIVED"), Len(chain))
                       \/ (MovesOf(t) = {} /\ t \notin executed)
    /\ pc \in {"opened", "indexed"} => MovesOf(cur) = {} /\ cur \notin executed

(* The hand is at work only for a task with an action, behind its intent.  *)
HandHasCause ==
    /\ pc \in {"intent", "witnessIntent", "act", "outcome", "witnessOutcome"}
          => ActionOf[cur] # NoAction
    /\ pc \in {"witnessIntent", "act", "outcome", "witnessOutcome"} => Intended(cur)
    /\ \A t \in executed : ActionOf[t] # NoAction /\ Intended(t)

(* The world is untouched until Act, and whoever ends a task as refused or *)
(* contained does it before.                                               *)
UntouchedBefore ==
    /\ pc \in {"gate", "intent", "witnessIntent", "act"} => cur \notin executed
    /\ pc = "work" /\ trace[cur] # "ACTED" => cur \notin executed
    /\ pc \in {"witness", "journal"}
       /\ (goal \in {"REFUSED", "CONTAINED"} \/ trace[cur] \notin {"AUTHORIZED", "ACTED"})
          => cur \notin executed

(* A task with an action is on its way to ACTED only with its outcome      *)
(* journaled and witnessed.                                                *)
OutcomeFirst ==
    /\ pc = "witnessOutcome" => Concluded(cur)
    /\ (pc = "receipt" \/ (pc \in {"witness", "journal"} /\ goal = "ACTED"))
       /\ ActionOf[cur] # NoAction => OutcomeKept(cur)

(* What the journal says of every task, driven or not.                     *)
JournalTruth ==
    \A t \in Task :
        /\ t \in executed => JournalState(t) \in {"AUTHORIZED", "ACTED", "RECORDED",
                                                  "FAILED", "FATE_UNKNOWN"}
        /\ JournalState(t) \in {"ACTED", "RECORDED"} /\ ActionOf[t] # NoAction
              => OutcomeKept(t)

LifeInv ==
    /\ JournalFollows
    /\ FreshTasks
    /\ HandHasCause
    /\ UntouchedBefore
    /\ OutcomeFirst
    /\ JournalTruth

LastOf(S) == CHOOSE i \in S : \A j \in S : j <= i

(* What a journal append does to the states the journal gives its tasks.   *)
LEMMA JournalStateAfter ==
    ASSUME TypeOK, MovesRanked, NEW e \in Entry, tj' = Append(tj, e)
    PROVE  \A t \in Task : JournalState(t)' = IF e.op = "move" /\ e.task = t
                                              THEN e.to ELSE JournalState(t)
<1> SUFFICES ASSUME NEW t \in Task
             PROVE  JournalState(t)' = IF e.op = "move" /\ e.task = t
                                       THEN e.to ELSE JournalState(t)
  OBVIOUS
<1>0. /\ tj \in Seq(Entry) /\ Len(tj) \in Nat /\ tj'[Len(tj) + 1] = e
      /\ \A i \in 1..Len(tj) : tj'[i] = tj[i]
      /\ MovesOf(t)' = IF e.op = "move" /\ e.task = t
                       THEN MovesOf(t) \union {Len(tj) + 1} ELSE MovesOf(t)
      /\ MovesOf(t) \subseteq 1..Len(tj)
  BY JournalKeeps DEF TypeOK, MovesOf
<1>1. CASE e.op = "move" /\ e.task = t
  <2>1. MovesOf(t)' = MovesOf(t) \union {Len(tj) + 1}
    BY <1>0, <1>1
  <2>2. (CHOOSE i \in MovesOf(t)' : \A j \in MovesOf(t)' : j <= i) = Len(tj) + 1
    <3>1. \A j \in MovesOf(t)' : j <= Len(tj) + 1 /\ j \in Nat
      BY <1>0, <2>1
    <3>2. Len(tj) + 1 \in MovesOf(t)'
      BY <2>1
    <3>3. \A i \in MovesOf(t)' : (\A j \in MovesOf(t)' : j <= i) => i = Len(tj) + 1
      BY <1>0, <3>1, <3>2
    <3> QED
      BY <3>1, <3>2, <3>3
  <2> QED
    BY <1>0, <1>1, <2>1, <2>2 DEF JournalState
<1>2. CASE ~(e.op = "move" /\ e.task = t)
  <2>1. MovesOf(t)' = MovesOf(t)
    BY <1>0, <1>2
  <2>2. MovesOf(t) # {} => LastOf(MovesOf(t)) \in 1..Len(tj)
    BY <1>0 DEF MovesRanked, LastOf
  <2>3. JournalState(t) = IF MovesOf(t) = {} THEN "RECEIVED" ELSE tj[LastOf(MovesOf(t))].to
    BY Zenon DEF JournalState, LastOf
  <2>4. JournalState(t)'
        = IF MovesOf(t)' = {} THEN "RECEIVED" ELSE tj'[LastOf(MovesOf(t)')].to
    BY Zenon DEF JournalState, LastOf
  <2> QED
    BY <1>0, <1>2, <2>1, <2>2, <2>3, <2>4
<1> QED
  BY <1>1, <1>2

(* A task id that may still be submitted was never received.               *)
LEMMA UnusedIdIsFresh ==
    ASSUME TypeOK, MaxLives = 1, NEW t \in Task, Lives(t) < MaxLives
    PROVE  ~OnChain(TaskRec(t, "RECEIVED"), Len(chain))
<1> DEFINE S == {i \in 1..Len(chain) : chain[i] = TaskRec(t, "RECEIVED")}
<1>1. IsFiniteSet(1..Len(chain)) /\ S \subseteq 1..Len(chain)
  <2>1. Len(chain) \in Int
    BY DEF TypeOK
  <2> QED
    BY <2>1, FS_Interval
<1>2. IsFiniteSet(S) /\ Cardinality(S) \in Nat
  BY <1>1, FS_Subset, FS_CardinalityType
<1>3. Cardinality(S) < 1
  BY Zenon DEF Lives
<1>4. S = {}
  <2> HIDE DEF S
  <2>1. Cardinality(S) = 0
    BY <1>2, <1>3
  <2> QED
    BY <1>2, <2>1, FS_EmptySet
<1> QED
  BY <1>4 DEF OnChain

(* karma.jsonl only grows.                                                 *)
KarmaGrows == kj' = kj \/ \E e \in Event : kj' = Append(kj, e)
(* What karma.jsonl says at an index it goes on saying.                   *)
LEMMA KarmaKeeps ==
    ASSUME kj \in Seq(Event), KarmaGrows
    PROVE  /\ \A t : Intended(t) => Intended(t)'
           /\ \A t : Concluded(t) => Concluded(t)'
<1>1. Len(kj) \in Nat /\ Len(kj') \in Nat /\ Len(kj) <= Len(kj')
      /\ \A i \in 1..Len(kj) : kj'[i] = kj[i]
  <2>1. CASE kj' = kj
    BY <2>1
  <2>2. ASSUME NEW e \in Event, kj' = Append(kj, e)
        PROVE  Len(kj') = Len(kj) + 1 /\ Len(kj) \in Nat
               /\ \A i \in 1..Len(kj) : kj'[i] = kj[i]
    BY <2>2, AppendProperties
  <2> QED
    BY <2>1, <2>2 DEF KarmaGrows
<1>2. \A i \in 1..Len(kj) : i \in 1..Len(kj')
  BY <1>1
<1> QED
  BY <1>1, <1>2 DEF Intended, Concluded

(* No step rewrites the load or the karma journal.                         *)
LEMMA KarmaPreserved == IInv /\ [Next]_vars => KarmaGrows /\ ActionOf' = ActionOf
<1> SUFFICES ASSUME IInv, [Next]_vars PROVE KarmaGrows /\ ActionOf' = ActionOf
  OBVIOUS
<1>1. CASE JournalIntent \/ JournalOutcome
  <2>1. /\ [ph |-> "intent", task |-> cur] \in Event
        /\ [ph |-> "outcome", task |-> cur] \in Event
    BY <1>1 DEF IInv, WorkerKnowsTask, JournalIntent, JournalOutcome, Event
  <2> QED
    BY <1>1, <2>1 DEF JournalIntent, JournalOutcome, EmitJournal, KarmaGrows, limits,
                      ActionOf
<1> QED
  BY <1>1 DEF Next, Worker, OpenTrace, ReadIndex, JournalOpen, Work, Refuse,
     StageRaises, Authorize, Gate, WitnessIntent, Act, ActRefused, ActRaises,
     WitnessOutcome, Receipt, Witness, JournalMove, OtherAppend, ContainmentOrder, Crash,
     Boot, vars, limits, KarmaGrows, ActionOf

(* What the journal says changes only with a move of the driven task.      *)
LEMMA JournalStateStep ==
    ASSUME IInv, [Next]_vars
    PROVE  /\ ~JournalMove => \A t \in Task : /\ JournalState(t)' = JournalState(t)
                                              /\ MovesOf(t)' = MovesOf(t)
           /\ JournalMove => \A t \in Task :
                /\ JournalState(t)' = IF t = cur THEN goal ELSE JournalState(t)
                /\ t # cur => MovesOf(t)' = MovesOf(t)
<1>0. TypeOK /\ MovesRanked /\ WorkerKnowsTask /\ tj \in Seq(Entry)
  BY DEF IInv, TypeOK
<1>1. CASE tj' = tj /\ ~JournalMove
  BY <1>1 DEF JournalState, MovesOf
<1>2. CASE JournalOpen
  <2>1. /\ OpenEntry(cur) \in Entry /\ OpenEntry(cur).op = "open"
        /\ tj' = Append(tj, OpenEntry(cur)) /\ ~JournalMove
    BY <1>0, <1>2, StateGraph DEF JournalOpen, JournalMove, OpenEntry, Entry,
                                  WorkerKnowsTask
  <2> QED
    BY <1>0, <2>1, JournalKeeps, JournalStateAfter
<1>3. CASE JournalMove
  <2>1. /\ MoveEntry(cur, goal, idx) \in Entry /\ MoveEntry(cur, goal, idx).op = "move"
        /\ MoveEntry(cur, goal, idx).task = cur /\ MoveEntry(cur, goal, idx).to = goal
        /\ tj' = Append(tj, MoveEntry(cur, goal, idx)) /\ cur \in Task
    BY <1>0, <1>3 DEF JournalMove, MoveEntry, Entry, WorkerKnowsTask, TypeOK
  <2>2. \A t \in Task : JournalState(t)' = IF t = cur THEN goal ELSE JournalState(t)
    BY <1>0, <2>1, JournalStateAfter
  <2>3. \A t \in Task : t # cur => MovesOf(t)' = MovesOf(t)
    BY <1>0, <2>1, JournalKeeps
  <2> QED
    BY <1>3, <2>1, <2>2, <2>3
<1> QED
  BY <1>1, <1>2, <1>3 DEF Next, Worker, OpenTrace, ReadIndex, Work, Refuse,
     StageRaises, Authorize, Gate, JournalIntent, JournalOutcome, EmitJournal,
     WitnessIntent, Act, ActRefused, ActRaises, WitnessOutcome, Receipt, Witness,
     OtherAppend, ContainmentOrder, Crash, Boot, vars

(* A new task starts with an empty history, and from then on the journal   *)
(* keeps up with its trace.                                                *)
LEMMA FreshPreserved ==
    ASSUME MaxLives = 1, IInv, LifeInv, [Next]_vars
    PROVE  FreshTasks' /\ JournalFollows'
<1>0. /\ TypeOK /\ WorkerKnowsTask /\ ReceivedFirst /\ FreshTasks /\ JournalFollows
      /\ Grows /\ chain \in Seq(Rec)
  BY TypePreserved DEF IInv, LifeInv, TypeOK
<1>a. \A t : TaskRec(t, "RECEIVED")' = TaskRec(t, "RECEIVED")
  BY DEF TaskRec
<1>b. \A t : OnChain(TaskRec(t, "RECEIVED"), Len(chain))
             => OnChain(TaskRec(t, "RECEIVED"), Len(chain))'
  BY <1>0, OnChainKeeps, <1>a DEF OnChain
<1>c. pc # "idle" => /\ cur \in Task
                     /\ \A t \in Task : t = cur => OnChain(TaskRec(t, "RECEIVED"), Len(chain))'
  BY <1>0, <1>b DEF WorkerKnowsTask, ReceivedFirst
<1>1. ASSUME \A t \in Task : MovesOf(t)' # MovesOf(t) => t = cur /\ pc # "idle",
             \A t \in executed' : t \in executed \/ (t = cur /\ pc # "idle")
      PROVE  \A t \in Task : OnChain(TaskRec(t, "RECEIVED"), Len(chain))'
                             \/ (MovesOf(t)' = {} /\ t \notin executed')
  BY <1>0, <1>1, <1>b, <1>c DEF FreshTasks
<1>2. \A t \in Task : OnChain(TaskRec(t, "RECEIVED"), Len(chain))'
                      \/ (MovesOf(t)' = {} /\ t \notin executed')
  <2>1. CASE JournalMove
    BY <1>1, <2>1, JournalStateStep DEF JournalMove
  <2>2. CASE Act
    BY <1>1, <2>2, JournalStateStep DEF Act, JournalMove
  <2>3. CASE executed' = executed /\ ~JournalMove
    BY <1>1, <2>3, JournalStateStep
  <2> QED
    BY <2>1, <2>2, <2>3 DEF Next, Worker, OpenTrace, ReadIndex, JournalOpen, Work, Refuse,
     StageRaises, Authorize, Gate, JournalIntent, JournalOutcome, EmitJournal,
     WitnessIntent, ActRefused, ActRaises, WitnessOutcome, Receipt, Witness,
     OtherAppend, ContainmentOrder, Crash, Boot, vars
<1>3. ASSUME pc' \in {"opened", "indexed"} => \E t \in Task :
               t = cur' /\ MovesOf(t)' = {} /\ t \notin executed'
      PROVE  FreshTasks'
  BY <1>2, <1>3, <1>a DEF FreshTasks, OnChain
<1>4. ASSUME ~JournalMove, cur' = cur, trace' = trace, pc \in Driving
      PROVE  JournalFollows'
  BY <1>0, <1>4, <1>c, JournalStateStep DEF JournalFollows, Driving, Hand
<1>5. ASSUME NEW t \in Task, OpenTrace(t) PROVE FreshTasks' /\ JournalFollows'
  <2>1. MovesOf(t) = {} /\ t \notin executed
    BY <1>0, <1>5, UnusedIdIsFresh DEF OpenTrace, FreshTasks
  <2> QED
    BY <1>3, <1>5, <2>1, JournalStateStep
       DEF OpenTrace, JournalMove, JournalFollows, Driving, Hand
<1>6. CASE ReadIndex
  <2>1. MovesOf(cur) = {} /\ cur \notin executed /\ cur \in Task
    BY <1>0, <1>6, <1>c DEF ReadIndex, FreshTasks
  <2> QED
    BY <1>3, <1>6, <2>1, JournalStateStep
       DEF ReadIndex, JournalMove, JournalFollows, Driving, Hand
<1>7. CASE JournalOpen
  <2>1. MovesOf(cur) = {} /\ cur \in Task
    BY <1>0, <1>7, <1>c DEF JournalOpen, FreshTasks
  <2>2. /\ \A t \in Task : t = cur => JournalState(t)' = "RECEIVED"
        /\ trace'[cur] = "RECEIVED" /\ cur' = cur
    BY <1>0, <1>7, <2>1, JournalStateStep DEF JournalOpen, JournalMove, JournalState, TypeOK
  <2> QED
    BY <1>3, <1>7, <2>1, <2>2 DEF JournalOpen, JournalFollows
<1>8. CASE JournalMove
  <2>1. CASE goal \in TERMINAL
    BY <1>3, <1>8, <2>1 DEF JournalMove, JournalFollows, Driving, Hand
  <2>2. CASE goal \notin TERMINAL
    <3>1. /\ \A t \in Task : t = cur => JournalState(t)' = goal
          /\ trace'[cur] = goal /\ cur' = cur /\ cur \in Task
      BY <1>0, <1>8, <1>c, <2>2, JournalStateStep DEF JournalMove, TypeOK
    <3> QED
      BY <1>3, <1>8, <2>2, <3>1 DEF JournalMove, JournalFollows
  <2> QED
    BY <2>1, <2>2
<1>9. CASE Work \/ Refuse \/ StageRaises \/ Authorize
  BY <1>3, <1>4, <1>9 DEF Work, Refuse, StageRaises, Authorize, JournalMove, Driving, Hand
<1>10. CASE Gate \/ Receipt \/ ActRefused \/ ActRaises \/ Act
  BY <1>3, <1>4, <1>10 DEF Gate, Receipt, ActRefused, ActRaises, Act, JournalMove,
                          Driving, Hand
<1>11. CASE JournalIntent \/ JournalOutcome \/ WitnessIntent \/ WitnessOutcome \/ Witness
  BY <1>3, <1>4, <1>11 DEF JournalIntent, JournalOutcome, EmitJournal, WitnessIntent,
                           WitnessOutcome, Witness, JournalMove, Driving, Hand
<1>12. CASE UNCHANGED <<memory, executed>> /\ ~JournalMove
  <2>1. pc' = pc /\ cur' = cur /\ trace' = trace /\ executed' = executed
    BY <1>12 DEF memory
  <2>2. FreshTasks'
    BY <1>0, <1>3, <1>c, <1>12, <2>1, JournalStateStep DEF FreshTasks
  <2>3. JournalFollows'
    BY <1>4, <1>12, <2>1 DEF JournalFollows
  <2> QED
    BY <2>2, <2>3
<1>13. CASE Crash
  BY <1>3, <1>13 DEF Crash, JournalFollows, Driving, Hand
<1>14. CASE Boot
  BY <1>0, <1>3, <1>14 DEF Boot, WorkerKnowsTask, JournalFollows, Driving, Hand
<1> QED
  BY <1>5, <1>6, <1>7, <1>8, <1>9, <1>10, <1>11, <1>12, <1>13, <1>14
     DEF Next, Worker, OtherAppend, ContainmentOrder, vars

(* The hand works behind its intent, and the world is untouched before.    *)
LEMMA HandPreserved ==
    ASSUME IInv, LifeInv, [Next]_vars
    PROVE  HandHasCause' /\ UntouchedBefore'
<1>0. /\ TypeOK /\ WorkerKnowsTask /\ StageOfTask /\ FreshTasks /\ HandHasCause
      /\ UntouchedBefore /\ ActionOf' = ActionOf /\ KarmaGrows /\ kj \in Seq(Event)
      /\ pc # "idle" => cur \in Task
  BY KarmaPreserved DEF IInv, LifeInv, TypeOK, WorkerKnowsTask
<1>a. \A t : Intended(t) => Intended(t)'
  BY <1>0, KarmaKeeps
<1>1. ASSUME executed' = executed, cur' = cur \/ pc' = "idle",
             pc' \in {"intent", "witnessIntent", "act", "outcome", "witnessOutcome"}
                => ActionOf[cur] # NoAction,
             pc' \in {"witnessIntent", "act", "outcome", "witnessOutcome"}
                => \A t \in Task : t = cur => Intended(t)',
             pc' # "idle" => cur \in Task
      PROVE  HandHasCause'
  BY <1>0, <1>1, <1>a DEF HandHasCause
<1>2. ASSUME NEW t \in Task, OpenTrace(t) PROVE HandHasCause' /\ UntouchedBefore'
  BY <1>0, <1>2, <1>a DEF OpenTrace, HandHasCause, UntouchedBefore
<1>3. CASE ReadIndex
  BY <1>0, <1>1, <1>3 DEF ReadIndex, UntouchedBefore
<1>4. CASE JournalOpen
  BY <1>0, <1>1, <1>4 DEF JournalOpen, UntouchedBefore, FreshTasks
<1>5. CASE Work
  BY <1>0, <1>1, <1>5, StateGraph, FollowingIsLegal
     DEF Work, UntouchedBefore, StageOfTask
<1>6. CASE Refuse \/ StageRaises \/ Authorize
  BY <1>0, <1>1, <1>6 DEF Refuse, StageRaises, Authorize, UntouchedBefore, StageOfTask, Hand
<1>7. CASE Gate
  BY <1>0, <1>1, <1>7 DEF Gate, UntouchedBefore
<1>8. CASE JournalIntent
  <2>1. /\ kj' = Append(kj, [ph |-> "intent", task |-> cur])
        /\ [ph |-> "intent", task |-> cur] \in Event
    BY <1>0, <1>8 DEF JournalIntent, EmitJournal, Event
  <2>2. \A t \in Task : t = cur => Intended(t)'
    <3>1. Len(kj') \in 1..Len(kj') /\ kj'[Len(kj')] = [ph |-> "intent", task |-> cur]
      BY <1>0, <2>1, AppendProperties
    <3> QED
      BY <3>1 DEF Intended
  <2> QED
    BY <1>0, <1>1, <1>8, <2>2 DEF JournalIntent, EmitJournal, UntouchedBefore,
                                  HandHasCause
<1>9. CASE WitnessIntent \/ ActRefused \/ ActRaises
  BY <1>0, <1>1, <1>9, <1>a DEF WitnessIntent, ActRefused, ActRaises, UntouchedBefore,
                                HandHasCause
<1>10. CASE Act
  <2>1. \A t \in executed' : ActionOf[t] # NoAction /\ Intended(t)'
    BY <1>0, <1>10, <1>a DEF Act, HandHasCause
  <2>2. HandHasCause'
    BY <1>0, <1>10, <1>a, <2>1 DEF Act, HandHasCause
  <2> QED
    BY <1>10, <2>2 DEF Act, UntouchedBefore
<1>11. CASE JournalOutcome
  BY <1>0, <1>1, <1>11, <1>a DEF JournalOutcome, EmitJournal, UntouchedBefore, HandHasCause
<1>12. CASE WitnessOutcome \/ Receipt
  <2>1. trace[cur] = "AUTHORIZED" /\ goal' \in {"ACTED", "FAILED"}
        /\ pc' \in {"receipt", "witness"} /\ trace' = trace /\ cur' = cur
    BY <1>0, <1>12 DEF WitnessOutcome, Receipt, StageOfTask, Hand
  <2> QED
    BY <1>0, <1>1, <1>12, <2>1 DEF WitnessOutcome, Receipt, UntouchedBefore, HandHasCause
<1>13. CASE Witness
  BY <1>0, <1>1, <1>13 DEF Witness, UntouchedBefore
<1>14. CASE JournalMove
  <2>1. trace'[cur] = goal
    BY <1>0, <1>14 DEF JournalMove, TypeOK
  <2>2. HandHasCause'
    BY <1>0, <1>1, <1>14 DEF JournalMove
  <2>3. goal \notin TERMINAL /\ goal # "ACTED" => trace[cur] \notin {"AUTHORIZED", "ACTED"}
    BY <1>0, <1>14, StateGraph DEF JournalMove, StageOfTask
  <2> QED
    BY <1>0, <1>14, <2>1, <2>2, <2>3 DEF JournalMove, UntouchedBefore
<1>15. CASE UNCHANGED <<memory, executed>>
  BY <1>0, <1>1, <1>15, <1>a DEF memory, UntouchedBefore, HandHasCause
<1>16. CASE Crash
  BY <1>0, <1>1, <1>16 DEF Crash, UntouchedBefore
<1>17. CASE Boot
  BY <1>0, <1>1, <1>17 DEF Boot, WorkerKnowsTask, UntouchedBefore
<1> QED
  BY <1>2, <1>3, <1>4, <1>5, <1>6, <1>7, <1>8, <1>9, <1>10, <1>11, <1>12, <1>13, <1>14,
     <1>15, <1>16, <1>17 DEF Next, Worker, OtherAppend, ContainmentOrder, vars

(* The outcome is journaled and witnessed before the receipt.              *)
LEMMA OutcomePreserved ==
    ASSUME IInv, LifeInv, [Next]_vars
    PROVE  OutcomeFirst'
<1>0. /\ TypeOK /\ WorkerKnowsTask /\ StageOfTask /\ OutcomeFirst
      /\ ActionOf' = ActionOf /\ KarmaGrows /\ kj \in Seq(Event)
      /\ Grows /\ chain \in Seq(Rec)
      /\ pc # "idle" => cur \in Task
  BY KarmaPreserved, TypePreserved DEF IInv, LifeInv, TypeOK, WorkerKnowsTask
<1>a. \A t : Concluded(t) => Concluded(t)'
  BY <1>0, KarmaKeeps
<1>b. \A t : OutcomeKept(t) => OutcomeKept(t)'
  <2>1. \A t : OnChain(SandboxRec(t, "outcome"), Len(chain))
               => OnChain(SandboxRec(t, "outcome"), Len(chain))'
    BY <1>0, ChainKeeps DEF SandboxRec, OnChain
  <2> QED
    BY <1>a, <2>1 DEF OutcomeKept
<1>1. ASSUME pc' \notin {"witnessOutcome", "receipt", "witness", "journal"}
      PROVE  OutcomeFirst'
  BY <1>1 DEF OutcomeFirst
<1>2. ASSUME pc' \in {"witness", "journal"}, goal' # "ACTED"
      PROVE  OutcomeFirst'
  BY <1>2 DEF OutcomeFirst
<1>3. ASSUME NEW t \in Task, OpenTrace(t) PROVE OutcomeFirst'
  BY <1>1, <1>3 DEF OpenTrace
<1>4. CASE ReadIndex \/ JournalOpen \/ Refuse \/ StageRaises \/ Authorize
  BY <1>1, <1>2, <1>4 DEF ReadIndex, JournalOpen, Refuse, StageRaises, Authorize
<1>5. CASE Work
  <2>1. goal' # "ACTED"
    BY <1>0, <1>5, FollowingIsLegal, StateGraph DEF Work, StageOfTask
  <2> QED
    BY <1>2, <1>5, <2>1 DEF Work
<1>6. CASE Gate
  BY <1>0, <1>1, <1>6 DEF Gate, OutcomeFirst
<1>7. CASE JournalIntent \/ WitnessIntent \/ Act \/ ActRefused \/ ActRaises
  BY <1>1, <1>2, <1>7 DEF JournalIntent, EmitJournal, WitnessIntent, Act, ActRefused,
                          ActRaises
<1>8. CASE JournalOutcome
  <2>1. /\ kj' = Append(kj, [ph |-> "outcome", task |-> cur]) /\ cur' = cur
        /\ [ph |-> "outcome", task |-> cur] \in Event /\ pc' = "witnessOutcome"
    BY <1>0, <1>8 DEF JournalOutcome, EmitJournal, Event
  <2>2. Concluded(cur)'
    <3>1. Len(kj') \in 1..Len(kj') /\ kj'[Len(kj')] = [ph |-> "outcome", task |-> cur]
      BY <1>0, <2>1, AppendProperties
    <3> QED
      BY <2>1, <3>1 DEF Concluded
  <2> QED
    BY <2>1, <2>2 DEF OutcomeFirst
<1>9. CASE WitnessOutcome
  <2>1. /\ chain' = Append(chain, SandboxRec(cur, "outcome")) /\ cur' = cur
        /\ SandboxRec(cur, "outcome") \in Rec /\ Concluded(cur)'
    BY <1>0, <1>9, <1>a, RecordTypes DEF WitnessOutcome, OutcomeFirst, Concluded
  <2>2. OutcomeKept(cur)'
    <3>1. Len(chain') \in 1..Len(chain') /\ chain'[Len(chain')] = SandboxRec(cur, "outcome")
      BY <1>0, <2>1, AppendProperties
    <3> QED
      BY <2>1, <3>1 DEF OutcomeKept, OnChain, SandboxRec
  <2> QED
    BY <1>9, <2>2 DEF WitnessOutcome, OutcomeFirst
<1>10. CASE Receipt \/ Witness
  BY <1>0, <1>10, <1>b DEF Receipt, Witness, OutcomeFirst
<1>11. CASE JournalMove
  BY <1>1, <1>11 DEF JournalMove
<1>12. CASE UNCHANGED memory
  BY <1>0, <1>12, <1>a, <1>b DEF memory, OutcomeFirst
<1>13. CASE Crash
  BY <1>1, <1>13 DEF Crash
<1>14. CASE Boot
  BY <1>0, <1>1, <1>14 DEF Boot, WorkerKnowsTask
<1> QED
  BY <1>3, <1>4, <1>5, <1>6, <1>7, <1>8, <1>9, <1>10, <1>11, <1>12, <1>13, <1>14
     DEF Next, Worker, OtherAppend, ContainmentOrder, vars

(* What the journal says of a task stays true.                             *)
LEMMA TruthPreserved ==
    ASSUME IInv, LifeInv, [Next]_vars
    PROVE  JournalTruth'
<1>0. /\ TypeOK /\ WorkerKnowsTask /\ StageOfTask /\ JournalFollows /\ UntouchedBefore
      /\ OutcomeFirst /\ JournalTruth
      /\ ActionOf' = ActionOf /\ KarmaGrows /\ kj \in Seq(Event)
      /\ Grows /\ chain \in Seq(Rec)
      /\ pc # "idle" => cur \in Task
  BY KarmaPreserved, TypePreserved DEF IInv, LifeInv, TypeOK, WorkerKnowsTask
<1>a. \A t : OutcomeKept(t) => OutcomeKept(t)'
  <2>1. \A t : OnChain(SandboxRec(t, "outcome"), Len(chain))
               => OnChain(SandboxRec(t, "outcome"), Len(chain))'
    BY <1>0, ChainKeeps DEF SandboxRec, OnChain
  <2> QED
    BY <1>0, <2>1, KarmaKeeps DEF OutcomeKept
<1>1. CASE JournalMove
  <2>1. /\ executed' = executed /\ cur \in Task
        /\ \A t \in Task : JournalState(t)' = IF t = cur THEN goal ELSE JournalState(t)
    BY <1>0, <1>1, JournalStateStep DEF JournalMove
  <2>2. /\ goal \in LEGAL(trace[cur]) /\ trace[cur] \in State
        /\ JournalState(cur) = trace[cur] /\ pc = "journal"
    BY <1>0, <1>1 DEF JournalMove, StageOfTask, JournalFollows, Driving
  <2>3. cur \in executed => goal \in {"ACTED", "RECORDED", "FAILED", "FATE_UNKNOWN"}
    BY <1>0, <2>2, StateGraph DEF UntouchedBefore
  <2>4. goal \in {"ACTED", "RECORDED"} /\ ActionOf[cur] # NoAction => OutcomeKept(cur)
    <3>1. goal = "RECORDED" => trace[cur] = "ACTED"
      BY <2>2, StateGraph
    <3> QED
      BY <1>0, <2>1, <2>2, <3>1 DEF OutcomeFirst, JournalTruth
  <2>5. ASSUME NEW t \in Task
        PROVE  /\ t \in executed' => JournalState(t)' \in
                     {"AUTHORIZED", "ACTED", "RECORDED", "FAILED", "FATE_UNKNOWN"}
               /\ JournalState(t)' \in {"ACTED", "RECORDED"} /\ ActionOf[t] # NoAction
                     => OutcomeKept(t)'
    BY <1>0, <1>a, <2>1, <2>3, <2>4 DEF JournalTruth
  <2> QED
    BY <1>0, <2>5 DEF JournalTruth
<1>2. CASE Act
  <2>1. \A t \in Task : JournalState(t)' = JournalState(t)
    BY <1>2, JournalStateStep DEF Act, JournalMove
  <2>2. JournalState(cur) = "AUTHORIZED" /\ cur \in Task
    BY <1>0, <1>2 DEF Act, JournalFollows, StageOfTask, Driving, Hand
  <2>3. executed' \subseteq executed \union {cur}
    BY <1>2 DEF Act
  <2> QED
    BY <1>0, <1>a, <2>1, <2>2, <2>3 DEF JournalTruth
<1>3. CASE executed' = executed /\ ~JournalMove
  <2>1. \A t \in Task : JournalState(t)' = JournalState(t)
    BY <1>3, JournalStateStep
  <2> QED
    BY <1>0, <1>3, <1>a, <2>1 DEF JournalTruth
<1> QED
  BY <1>1, <1>2, <1>3 DEF Next, Worker, OpenTrace, ReadIndex, JournalOpen, Work, Refuse,
     StageRaises, Authorize, Gate, JournalIntent, JournalOutcome, EmitJournal,
     WitnessIntent, ActRefused, ActRaises, WitnessOutcome, Receipt, Witness,
     OtherAppend, ContainmentOrder, Crash, Boot, vars

(* The one-life invariant holds in every reachable state.                  *)
LEMMA LifeInvAlways == ASSUME MaxLives = 1 PROVE Spec => [](IInv /\ LifeInv)
<1>1. Init => LifeInv
  <2> SUFFICES ASSUME Init PROVE LifeInv
    OBVIOUS
  <2>1. \A t \in Task : MovesOf(t) = {} /\ JournalState(t) = "RECEIVED"
    BY DEF Init, MovesOf, JournalState
  <2> QED
    BY <2>1 DEF Init, LifeInv, JournalFollows, FreshTasks, HandHasCause, UntouchedBefore,
                OutcomeFirst, JournalTruth, Driving, Hand
<1>2. IInv /\ LifeInv /\ [Next]_vars => IInv' /\ LifeInv'
  BY IInvPreserved, FreshPreserved, HandPreserved, OutcomePreserved, TruthPreserved
     DEF LifeInv
<1> QED
  BY <1>1, <1>2, InitEstablishes, PTL DEF Spec

(* being.py, karma.py: when no task id is submitted twice, a task that     *)
(* ended refused or contained never touched the world, and one that acted  *)
(* and says so has its outcome on the chain.  A second submission of the   *)
(* same id starts a second life under the same journal key, and the ending *)
(* of the second says nothing about the first: hence the hypothesis.       *)
THEOREM EndingsAreTrue == ASSUME MaxLives = 1 PROVE Spec => []EndingTellsTruth
<1>1. LifeInv => EndingTellsTruth
  BY DEF LifeInv, JournalTruth, EndingTellsTruth, OutcomeKept
<1> QED
  BY <1>1, LifeInvAlways, PTL

(* Two tasks never ask for the same action: an action hash covers the      *)
(* action and its parameters, not the task.                                *)
DistinctActions ==
    \A l \in Loads : \A t, u \in Task :
        l.actionOf[t] = l.actionOf[u] /\ l.actionOf[t] # NoAction => t = u

(* recovery.py: when no task id is submitted twice and no two tasks ask    *)
(* for the same action, an action that touched the world and left no       *)
(* outcome is reported as FATE_UNKNOWN.  Both hypotheses are needed: an    *)
(* intent is matched to any outcome of the same hash.                      *)
THEOREM OrphansAlwaysSurface ==
    ASSUME MaxLives = 1, DistinctActions
    PROVE  Spec => []OrphanSurfaces
<1>1. IInv /\ LifeInv => OrphanSurfaces
  <2> SUFFICES ASSUME IInv, LifeInv,
                      NEW t \in executed \intersect InFlight,
                      \A i \in 1..Len(kj) : kj[i] # [ph |-> "outcome", task |-> t]
               PROVE  OfflineFate(t) = "FATE_UNKNOWN"
    BY DEF OrphanSurfaces
  <2>1. /\ t \in Task /\ JournalState(t) \notin TERMINAL /\ t \in InFlight /\ load \in Loads
        /\ kj \in Seq(Event) /\ ~Concluded(t)
        /\ ActionOf[t] # NoAction /\ Intended(t)
    BY DEF IInv, LifeInv, TypeOK, InFlight, HandHasCause, Concluded
  <2>2. JournalState(t) = "AUTHORIZED"
    BY <2>1, StateGraph DEF LifeInv, JournalTruth, OutcomeKept
  <2>3. ActionOf[t] \in HashesOf("intent")
    BY <2>1 DEF HashesOf, Intended
  <2>4. ActionOf[t] \notin HashesOf("outcome")
    <3> SUFFICES ASSUME NEW i \in 1..Len(kj), kj[i].ph = "outcome",
                        ActionOf[t] = ActionOf[kj[i].task]
                 PROVE  FALSE
      BY DEF HashesOf
    <3>1. kj[i] \in Event
      BY <2>1, ElementOfSeq
    <3>2. kj[i].task \in Task /\ kj[i] = [ph |-> "outcome", task |-> kj[i].task]
      BY <3>1 DEF Event
    <3>3. kj[i].task = t
      BY <2>1, <3>2 DEF DistinctActions, ActionOf
    <3> QED
      BY <2>1, <3>2, <3>3 DEF Concluded
  <2> QED
    BY <2>1, <2>2, <2>3, <2>4 DEF OfflineFate, OrphanedIntents
<1> QED
  BY <1>1, LifeInvAlways, PTL

=============================================================================
