--------------------------- MODULE MemoryPromise ---------------------------
(***************************************************************************)
(* What the Being's memory promises, without its organs: a log of what it  *)
(* lived through and a line of knowledge, both append-only, neither of     *)
(* them ever behind what its caller was told.  Knowledge may be marked     *)
(* (superseded, redacted) but keeps its place and its hash, and none of it *)
(* exists that the witness has not seen.                                   *)
(***************************************************************************)
EXTENDS Naturals, Sequences

VARIABLES log,     \* operations that survive a restart
          told,    \* operations the caller was told of
          hashes,  \* the namespace's leaves
          seen     \* how many leaves the witness holds a record of

pvars == <<log, told, hashes, seen>>

Prefix(s, t) == Len(s) <= Len(t) /\ SubSeq(t, 1, Len(s)) = s

PromiseInit == log = <<>> /\ told = {} /\ hashes = <<>> /\ seen = {}

Remember == /\ Len(log') = Len(log) + 1 /\ Prefix(log, log')
            /\ UNCHANGED <<told, hashes, seen>>
Tell == /\ told \subseteq told'
        /\ \A op \in told' \ told : \E i \in 1..Len(log) : log[i] = op
        /\ UNCHANGED <<log, hashes>> /\ seen \subseteq seen'
Witness == seen \subseteq seen' /\ UNCHANGED <<log, told, hashes>>
Learn == /\ Len(hashes') = Len(hashes) + 1 /\ Prefix(hashes, hashes')
         /\ <<Len(hashes'), hashes'[Len(hashes')]>> \in seen
         /\ UNCHANGED <<log, told, seen>>

PromiseNext == Remember \/ Tell \/ Witness \/ Learn
PromiseSpec == PromiseInit /\ [][PromiseNext]_pvars
===========================================================================
