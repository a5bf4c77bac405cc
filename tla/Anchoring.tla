------------------------------- MODULE Anchoring ------------------------------
(***************************************************************************)
(* core/anchoring.py: AnchorLog and AnchorScheduler.  Concurrent callers   *)
(* of anchor_now run rounds one at a time under _round_lock: snapshot the  *)
(* chain, decide, submit its root to the backends, journal each receipt,   *)
(* credit the backend, and append one ANCHOR_EXTERNAL record.  The chain   *)
(* and the receipt log are durable; coverage, custody, attempts and the    *)
(* retry clock are memory, rebuilt from the log at a restart.              *)
(*                                                                         *)
(* A root is named by the number of records below it.  The log is kept as  *)
(* what a reload takes from it: the highest count of a receipt, for each   *)
(* backend and status.                                                     *)
(***************************************************************************)
EXTENDS Naturals, Sequences, FiniteSets, FiniteSetsExt

CONSTANTS Backends,      \* the configured backends, in the order of the list
          Policies,      \* the sets of backends an operator may require
          Answers,       \* the statuses each backend may answer with
          Caller, NoCaller,
          MaxOthers, MaxFaults

Backend == {Backends[i] : i \in 1..Len(Backends)}

TERMINAL_SUCCESS == {"recorded", "confirmed"}
CUSTODY == {"pending-attestation", "pending-confirmation"}
Status == TERMINAL_SUCCESS \union CUSTODY \union {"pending", "failed"}
Accepted == TERMINAL_SUCCESS \union CUSTODY

ASSUME AnchoringAssumption ==
    /\ Backends \in Seq(Backend) /\ Backends # <<>>
    /\ Policies \subseteq SUBSET Backend
    /\ Answers \in [Backend -> SUBSET Status]
    /\ NoCaller \notin Caller
    /\ MaxOthers \in Nat /\ MaxFaults \in Nat

VARIABLES
    required,   \* required_backends, given at start
    chain,      \* the kinds of its records: "work", "PEER_ROOT", "ANCHOR_EXTERNAL"
    log,        \* AnchorLog on disk: the highest count per backend and status
    covered, custody, attempted,    \* _covered_by, _custody_by, _attempted_by
    backoff,    \* now < _next_retry_at
    holder,     \* who holds _round_lock
    round,      \* each caller's locals
    given,      \* ghost: the receipts of accepted roots, journaled or not
    faults      \* rounds that raised, and restarts

memory == <<covered, custody, attempted>>
vars == <<chain, log, memory, backoff, holder, round, given, faults>>

Kind == {"work", "PEER_ROOT", "ANCHOR_EXTERNAL"}
BOOKKEEPING == Kind \ {"work"}
Receipt == [backend : Backend, count : Nat, status : Status]
Round == [pc : {"out", "submit", "log", "finish"}, count : Nat, news : BOOLEAN,
          todo : SUBSET (1..Len(Backends)), progressed : BOOLEAN, rec : SUBSET Receipt]
NoRound == [pc |-> "out", count |-> 0, news |-> FALSE, todo |-> {},
            progressed |-> FALSE, rec |-> {}]

TypeOK ==
    /\ required \in Policies
    /\ chain \in Seq(Kind)
    /\ log \in [Backend -> [Status -> 0..Len(chain)]]
    /\ given \subseteq Receipt
    /\ covered \in [Backend -> 0..Len(chain)]
    /\ custody \in [Backend -> 0..Len(chain)]
    /\ attempted \in [Backend -> 0..Len(chain)]
    /\ backoff \in BOOLEAN
    /\ holder \in Caller \union {NoCaller}
    /\ round \in [Caller -> Round]
    /\ faults \in 0..MaxFaults

Init ==
    /\ required \in Policies
    /\ chain = <<>> /\ given = {}
    /\ log = [b \in Backend |-> [s \in Status |-> 0]]
    /\ covered = [b \in Backend |-> 0]
    /\ custody = [b \in Backend |-> 0]
    /\ attempted = [b \in Backend |-> 0]
    /\ backoff = FALSE /\ holder = NoCaller
    /\ round = [c \in Caller |-> NoRound]
    /\ faults = 0

----------------------------------------------------------------------------
(* What a round decides from.                                              *)

Substantive(from, to) == \E i \in (from + 1)..to : chain[i] \notin BOOKKEEPING

Have(b) == IF covered[b] > custody[b] THEN covered[b] ELSE custody[b]

Behind(n) == {b \in required : Substantive(Have(b), n)}

AttemptedHwm == Max({attempted[b] : b \in Backend})

(* Mutant: a retry waits for unrelated work.                               *)
RetryNeedsNews(n) == Behind(n) # {} /\ ~backoff /\ Substantive(AttemptedHwm, n)

RetryDue(n) == Behind(n) # {} /\ ~backoff

(* On a pure retry only the backends that are behind are contacted.        *)
Targets(news, n) ==
    {i \in 1..Len(Backends) : news \/ Backends[i] \in Behind(n)}

(* They are contacted in the order of the list.                            *)
Current(c) == Backends[Min(round[c].todo)]
Rest(c) == round[c].todo \ {Min(round[c].todo)}

----------------------------------------------------------------------------
(* _anchor_round, under _round_lock.                                       *)

(* Snapshot and decision; a round that is skipped changes nothing.         *)
Start(c) ==
    /\ holder = NoCaller /\ round[c].pc = "out"
    /\ LET n == Len(chain)
           news == Substantive(AttemptedHwm, n)
       IN /\ n > 0 /\ (news \/ RetryDue(n))
          /\ round' = [round EXCEPT ![c] =
                         [NoRound EXCEPT !.pc = "submit", !.count = n, !.news = news,
                                         !.todo = Targets(news, n)]]
    /\ holder' = c
    /\ UNCHANGED <<chain, log, memory, backoff, given, faults>>

(* be.submit returns a receipt.                                            *)
Submit(c, s) ==
    /\ round[c].pc = "submit" /\ s \in Answers[Current(c)]
    /\ LET r == [backend |-> Current(c), count |-> round[c].count, status |-> s]
       IN /\ given' = IF s \in Accepted THEN given \union {r} ELSE given
          /\ round' = [round EXCEPT ![c].pc = "log", ![c].rec = {r}]
    /\ UNCHANGED <<chain, log, memory, backoff, holder, faults>>

Raised(m, n) == IF n > m THEN n ELSE m
Logged(r) == [log EXCEPT ![r.backend][r.status] = Raised(@, r.count)]

(* log.add, then the credit the status earns, then the next backend.       *)
Credit(c) ==
    /\ round[c].pc = "log"
    /\ \E r \in round[c].rec :
         /\ log' = Logged(r)
         /\ attempted' = [attempted EXCEPT ![r.backend] = Raised(@, r.count)]
         /\ covered' = [covered EXCEPT ![r.backend] =
              IF r.status \in TERMINAL_SUCCESS THEN Raised(@, r.count) ELSE @]
         /\ custody' = [custody EXCEPT ![r.backend] =
              IF r.status \in Accepted THEN Raised(@, r.count) ELSE @]
         /\ round' = [round EXCEPT
              ![c].pc = IF Rest(c) = {} THEN "finish" ELSE "submit",
              ![c].todo = Rest(c), ![c].rec = {},
              ![c].progressed = @ \/ r.status \in TERMINAL_SUCCESS]
    /\ UNCHANGED <<chain, backoff, holder, given, faults>>

Leave(c) == round' = [round EXCEPT ![c] = NoRound] /\ holder' = NoCaller

(* A retry that changed nothing appends no record.                         *)
Records(c) == round[c].news \/ round[c].progressed

Finish(c) ==
    /\ round[c].pc = "finish"
    /\ backoff' = (Behind(round[c].count) # {})
    /\ chain' = IF Records(c) THEN Append(chain, "ANCHOR_EXTERNAL") ELSE chain
    /\ Leave(c)
    /\ UNCHANGED <<log, memory, given, faults>>

(* An exception leaves the round and releases the lock: a backend that     *)
(* raises something else than OSError, a log.add that fails before or      *)
(* after its bytes reached the disk, an append that fails.                 *)
RoundRaises(c) ==
    /\ round[c].pc # "out" /\ faults < MaxFaults
    /\ round[c].pc = "finish" => Records(c)
    /\ log' \in {log} \union {Logged(r) : r \in round[c].rec}
    /\ backoff' = IF round[c].pc = "finish" THEN Behind(round[c].count) # {}
                                            ELSE backoff
    /\ Leave(c)
    /\ faults' = faults + 1
    /\ UNCHANGED <<chain, memory, given>>

----------------------------------------------------------------------------
(* Everyone else.                                                          *)

Count(kind) == Cardinality({i \in 1..Len(chain) : chain[i] = kind})

(* Other threads append: work, or the roots of peers.                      *)
OtherAppend(kind) ==
    /\ Count("work") + Count("PEER_ROOT") < MaxOthers
    /\ chain' = Append(chain, kind)
    /\ UNCHANGED <<log, memory, backoff, holder, round, given, faults>>

(* The clock passes _next_retry_at.                                        *)
Tick ==
    /\ backoff /\ backoff' = FALSE
    /\ UNCHANGED <<chain, log, memory, holder, round, given, faults>>

(* AnchorScheduler.__init__: the highest count a receipt with one of these *)
(* statuses carries for a backend.                                         *)
Restored(entries, b, statuses) == Max({entries[b][s] : s \in statuses})

(* Mutant: every receipt is coverage.                                      *)
RestoreResurrects(entries) ==
    /\ attempted' = [b \in Backend |-> Restored(entries, b, Status)]
    /\ covered' = [b \in Backend |-> Restored(entries, b, Status)]
    /\ custody' = [b \in Backend |-> Restored(entries, b, Accepted)]

Restore(entries) ==
    /\ attempted' = [b \in Backend |-> Restored(entries, b, Status)]
    /\ covered' = [b \in Backend |-> Restored(entries, b, TERMINAL_SUCCESS)]
    /\ custody' = [b \in Backend |-> Restored(entries, b, Accepted)]

(* A crash at any step and the restart: the receipt being journaled may or *)
(* may not have reached the disk.                                          *)
Restart ==
    /\ faults < MaxFaults
    /\ log' \in {log} \union {Logged(r) : r \in UNION {round[c].rec : c \in Caller}}
    /\ Restore(log')
    /\ backoff' = FALSE /\ holder' = NoCaller
    /\ round' = [c \in Caller |-> NoRound]
    /\ faults' = faults + 1
    /\ UNCHANGED <<chain, given>>

(* What the threads of one process do.                                     *)
Step ==
    \/ \E c \in Caller : Start(c) \/ Credit(c) \/ Finish(c) \/ RoundRaises(c)
    \/ \E c \in Caller, s \in Status : Submit(c, s)
    \/ OtherAppend("work") \/ OtherAppend("PEER_ROOT")
    \/ Tick

(* anchor_now is called again and again (the code leaves the schedule to   *)
(* its operator), a round that started is scheduled, the clock runs, and a *)
(* backend that is asked again and again accepts in the end.               *)
AcceptedBy(c, b) ==
    /\ round[c].pc = "submit" /\ Current(c) = b
    /\ \E s \in Accepted : Submit(c, s)

Fairness ==
    /\ WF_vars(Tick)
    /\ \A c \in Caller :
         /\ WF_vars(Start(c)) /\ WF_vars(Credit(c)) /\ WF_vars(Finish(c))
         /\ WF_vars(\E s \in Status : Submit(c, s))
    /\ \A b \in Backend : SF_vars(\E c \in Caller : AcceptedBy(c, b))

----------------------------------------------------------------------------
(* Properties.                                                             *)

(* "Restart must NOT resurrect coverage from a failed receipt": whatever   *)
(* restarts came before, a backend is credited only with a root it said it *)
(* holds, and settled only with one it said it settled.                    *)
CreditIsHeld ==
    \A b \in Backend :
        /\ covered[b] > 0 => \E s \in TERMINAL_SUCCESS :
               [backend |-> b, count |-> covered[b], status |-> s] \in given
        /\ custody[b] > 0 => \E s \in Accepted :
               [backend |-> b, count |-> custody[b], status |-> s] \in given

(* A required backend that is behind is tried again even on a quiet node   *)
(* (not "on a quiet node, forever"): again and again every required backend *)
(* has caught up with the work on the chain, past failures, raised rounds   *)
(* and restarts.                                                            *)
CatchesUp == []<>(Behind(Len(chain)) = {})
=============================================================================
