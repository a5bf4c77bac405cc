----------------------------- MODULE WitnessChain -----------------------------
(***************************************************************************)
(* jjdai/witness.py, class WitnessChain: the hash chain kept in a durable  *)
(* journal.  A record is built from the in-memory chain (its index and the *)
(* hash of its predecessor), persisted with durable_append, and only then  *)
(* exposed.  The whole append runs under chain.lock, so one append at a    *)
(* time is all the concurrency there is; the faults are DurableJournal's.  *)
(***************************************************************************)
EXTENDS DurableJournal

CONSTANT GENESIS

ASSUME GenesisAssumption == GENESIS \notin Record

VARIABLE body      \* what each attempted record says: its index and prev_hash

wvars == <<journalVars, body>>

Body == [index : Nat, prev : Record \union {GENESIS}]

ChainTypeOK == TypeOK /\ body \in [used -> Body]

(* Mutant: a head cached before the last append.                           *)
HeadHashStale == IF Len(mem) < 2 THEN GENESIS ELSE mem[Len(mem) - 1]

HeadHash == IF mem = <<>> THEN GENESIS ELSE Last(mem)

NextIndex == Len(mem)

ChainInit == Init /\ body = [r \in {} |-> 0]

(* _append_locked up to _persist: the body is fixed before any byte is     *)
(* written, and durable_append begins.                                     *)
AppendLocked(r) ==
    /\ Open(r) /\ UNCHANGED cuts
    /\ body' = [q \in used' |-> IF q = r
                                THEN [index |-> NextIndex, prev |-> HeadHash]
                                ELSE body[q]]

ChainNext ==
    \/ \E r \in Record : AppendLocked(r)
    \/ JournalStep /\ UNCHANGED body

ChainSpec == ChainInit /\ [][ChainNext]_wvars

(* verify_chain: the loop over the records a process exposes.              *)
VerifyChain ==
    \A i \in 1..Len(mem) :
        /\ body[mem[i]].index = i - 1
        /\ body[mem[i]].prev = IF i = 1 THEN GENESIS ELSE mem[i - 1]

(* "persist BEFORE exposing ... the next append would then chain onto a    *)
(* phantom prev_hash and the reloaded chain would be broken": after any    *)
(* kills, power losses and dropped tails a chain boots, unless a write was *)
(* cut exactly before its newline or inside a character, and verifies, as  *)
(* long as no append ever failed in a process that went on appending.      *)
CrashedChainBoots ==
    /\ CrashNeverRefusesBoot
    /\ up = "up" /\ ioErrors = 0 => VerifyChain
=============================================================================
