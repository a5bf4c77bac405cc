--------------------------- MODULE Persistence_proofs --------------------------
(***************************************************************************)
(* Proofs about what is kept on disk.  Memory, for any labels, sizes,      *)
(* authors and any number of operations, writes, crashes and failed calls: *)
(* knowledge and the witness records of it agree, and the organs together  *)
(* keep what MemoryPromise promises.  DurableJournal and WitnessChain, for *)
(* any records, cuts, kills, power losses and failed system calls: an      *)
(* acknowledged append survives, and a crashed chain boots and verifies.   *)
(***************************************************************************)
EXTENDS Memory, WitnessChain, WellFoundedInduction, TLAPS

----------------------------------------------------------------------------
(* What a reader that keeps the elements in T has after each element.      *)
IsKept(T, g, t, m) ==
    g = [n \in 0..m |-> IF n = 0 THEN <<>>
                        ELSE IF t[n] \in T THEN Append(g[n - 1], t[n]) ELSE g[n - 1]]

(* The reader's loop has a result after every line.                        *)
LEMMA KeptExists ==
    ASSUME NEW T, NEW t
    PROVE  \A m \in Nat : \E g : IsKept(T, g, t, m)
<1> DEFINE Bad == {m \in Nat : ~ \E g : IsKept(T, g, t, m)}
<1>1. SUFFICES ASSUME Bad # {} PROVE FALSE
    OBVIOUS
<1>2. PICK m \in Bad : \A k \in Bad : ~(<<k, m>> \in OpToRel(<, Nat))
    <2> HIDE DEF Bad
    <2>1. Bad \subseteq Nat
        BY DEF Bad
    <2> QED
        BY <1>1, <2>1, NatLessThanWellFounded, WFMin
<1>3. \A k \in Bad : ~(k < m)
    BY <1>2 DEF OpToRel
<1>4. CASE m = 0
    <2>1. IsKept(T, [n \in 0..0 |-> <<>>], t, 0)
        BY DEF IsKept
    <2> QED
        BY <2>1, <1>2, <1>4
<1>5. CASE m # 0
    <2>1. m - 1 \in Nat /\ m - 1 < m /\ m - 1 \notin Bad
        <3>1. m \in Nat
            OBVIOUS
        <3> HIDE DEF Bad
        <3> QED
            BY <3>1, <1>5, <1>3
    <2>2. PICK g : IsKept(T, g, t, m - 1)
        BY <2>1
    <2> DEFINE h == [n \in 0..m |-> IF n < m THEN g[n]
                                    ELSE IF t[m] \in T THEN Append(g[m - 1], t[m])
                                         ELSE g[m - 1]]
    <2>3. \A n \in 0..m : h[n] = IF n = 0 THEN <<>>
                                 ELSE IF t[n] \in T THEN Append(h[n - 1], t[n])
                                      ELSE h[n - 1]
        <3>1. SUFFICES ASSUME NEW n \in 0..m
                       PROVE  h[n] = IF n = 0 THEN <<>>
                                     ELSE IF t[n] \in T THEN Append(h[n - 1], t[n])
                                          ELSE h[n - 1]
            OBVIOUS
        <3>2. CASE n = m
            BY <3>2, <1>5, <2>1
        <3>3. CASE n # m
            <4>1. n \in 0..(m - 1) /\ n < m
                BY <3>3, <2>1
            <4>2. h[n] = g[n] /\ (n # 0 => h[n - 1] = g[n - 1])
                BY <4>1, <2>1
            <4>3. g[n] = IF n = 0 THEN <<>>
                         ELSE IF t[n] \in T THEN Append(g[n - 1], t[n]) ELSE g[n - 1]
                BY <4>1, <2>2 DEF IsKept
            <4> QED
                BY <4>2, <4>3
        <3> QED
            BY <3>2, <3>3
    <2>4. h = [n \in 0..m |-> h[n]]
        OBVIOUS
    <2>5. IsKept(T, h, t, m)
        <3> HIDE DEF h
        <3> QED
            BY <2>3, <2>4 DEF IsKept
    <2> QED
        BY <2>5, <1>2
<1> QED
    BY <1>4, <1>5

(* A property of the kept records that holds before the first line and     *)
(* survives every line holds after each of them: the least line it fails   *)
(* at has a predecessor.                                                   *)
LEMMA LeastLine ==
    ASSUME NEW m \in Nat, NEW Good \in SUBSET (0..m), 0 \in Good,
           \A n \in 1..m : n - 1 \in Good => n \in Good
    PROVE  Good = 0..m
<1> DEFINE Bad == (0..m) \ Good
<1>1. SUFFICES ASSUME Bad # {} PROVE FALSE
    OBVIOUS
<1>2. Bad \subseteq Nat
    OBVIOUS
<1>3. PICK n \in Bad : \A k \in Bad : ~(<<k, n>> \in OpToRel(<, Nat))
    <2> HIDE DEF Bad
    <2> QED
        BY <1>1, <1>2, NatLessThanWellFounded, WFMin
<1>4. \A k \in Bad : ~(k < n)
    BY <1>2, <1>3 DEF OpToRel
<1>5. n \in 1..m /\ n - 1 \in 0..m /\ n - 1 < n
    OBVIOUS
<1>6. n - 1 \in Good
    BY <1>4, <1>5
<1> QED
    BY <1>5, <1>6

(* What the kept records are after each line, for every line.              *)
LEMMA KeptStep ==
    ASSUME NEW T, NEW g, NEW t, NEW m \in Nat, IsKept(T, g, t, m)
    PROVE  /\ g[0] = <<>>
           /\ \A n \in 1..m : g[n] = IF t[n] \in T THEN Append(g[n - 1], t[n])
                                     ELSE g[n - 1]
<1>1. \A n \in 0..m : g[n] = IF n = 0 THEN <<>>
                             ELSE IF t[n] \in T THEN Append(g[n - 1], t[n])
                                  ELSE g[n - 1]
    BY DEF IsKept
<1> QED
    BY <1>1

(* What is kept after n lines depends on those n lines only.               *)
LEMMA KeptAgrees ==
    ASSUME NEW T, NEW t, NEW m \in Nat, NEW g, IsKept(T, g, t, m),
           NEW u, NEW l \in Nat, NEW h, IsKept(T, h, u, l),
           NEW n \in 0..m, n <= l, \A i \in 1..n : t[i] = u[i]
    PROVE  g[n] = h[n]
<1> DEFINE Good == {q \in 0..n : g[q] = h[q]}
<1>0. /\ g[0] = <<>> /\ h[0] = <<>>
      /\ \A q \in 1..m : g[q] = IF t[q] \in T THEN Append(g[q - 1], t[q]) ELSE g[q - 1]
      /\ \A q \in 1..l : h[q] = IF u[q] \in T THEN Append(h[q - 1], u[q]) ELSE h[q - 1]
    BY KeptStep
<1>1. 0 \in Good /\ n \in Nat
    BY <1>0
<1>2. ASSUME NEW q \in 1..n, q - 1 \in Good PROVE q \in Good
    <2>1. q \in 1..m /\ q \in 1..l /\ t[q] = u[q] /\ g[q - 1] = h[q - 1] /\ q \in 0..n
        BY <1>2
    <2> QED
        BY <2>1, <1>0
<1>3. Good = 0..n
    <2> HIDE DEF Good
    <2>1. Good \in SUBSET (0..n)
        BY DEF Good
    <2> QED
        BY <1>1, <1>2, <2>1, LeastLine
<1> QED
    BY <1>1, <1>3

----------------------------------------------------------------------------
(* Memory.                                                                 *)

(* A sequence of whatever it holds.                                        *)
IsSeq(s) == s \in Seq({s[i] : i \in DOMAIN s})

(* One element more, the earlier ones where they were.                     *)
LEMMA SeqAppended ==
    ASSUME NEW s, IsSeq(s), NEW e
    PROVE  /\ Len(s) \in Nat /\ DOMAIN s = 1..Len(s) /\ IsSeq(Append(s, e))
           /\ DOMAIN Append(s, e) = 1..(Len(s) + 1) /\ Len(Append(s, e)) = Len(s) + 1
           /\ \A i \in 1..Len(s) : Append(s, e)[i] = s[i]
           /\ Append(s, e)[Len(s) + 1] = e
<1> DEFINE S == {s[i] : i \in DOMAIN s}  t == Append(s, e)
<1>1. s \in Seq(S)
  BY DEF IsSeq
<1>2. s \in Seq(S \union {e}) /\ e \in S \union {e}
  <2> HIDE DEF S
  <2> QED
    BY <1>1
<1>3. /\ Len(s) \in Nat /\ DOMAIN s = 1..Len(s)
      /\ DOMAIN t = 1..(Len(s) + 1) /\ Len(t) = Len(s) + 1
      /\ \A i \in 1..Len(s) : t[i] = s[i]
      /\ t[Len(s) + 1] = e
      /\ t \in Seq(S \union {e})
  <2> HIDE DEF S
  <2> QED
    BY <1>2
<1>4. t \in Seq({t[i] : i \in DOMAIN t})
  <2> HIDE DEF S, t
  <2> QED
    BY <1>3
<1> QED
  BY <1>3, <1>4 DEF IsSeq

(* A sequence as a function.                                               *)
LEMMA SeqIs ==
    ASSUME NEW s, IsSeq(s)
    PROVE  Len(s) \in Nat /\ DOMAIN s = 1..Len(s)
<1> DEFINE S == {s[i] : i \in DOMAIN s}
<1>1. s \in Seq(S)
  BY DEF IsSeq
<1> HIDE DEF S
<1> QED
  BY <1>1

(* Elements in a set make a sequence of what they are.                     *)
LEMMA SeqOfIsSeq ==
    ASSUME NEW S, NEW s \in Seq(S)
    PROVE  IsSeq(s)
<1>1. Len(s) \in Nat /\ DOMAIN s = 1..Len(s) /\ s \in [1..Len(s) -> S]
  OBVIOUS
<1> DEFINE T == {s[i] : i \in DOMAIN s}
<1>2. \A i \in 1..Len(s) : s[i] \in T
  BY <1>1
<1> HIDE DEF T
<1>3. s \in [1..Len(s) -> T]
  BY <1>1, <1>2
<1>4. s \in Seq(T)
  BY <1>1, <1>3
<1> QED
  BY <1>4 DEF T, IsSeq

(* One element replaced.                                                   *)
LEMMA SeqReplaced ==
    ASSUME NEW s, IsSeq(s), NEW n \in DOMAIN s, NEW x
    PROVE  IsSeq([s EXCEPT ![n] = x]) /\ Len([s EXCEPT ![n] = x]) = Len(s)
<1> DEFINE S == {s[i] : i \in DOMAIN s}  t == [s EXCEPT ![n] = x]
<1>1. s \in Seq(S \union {x}) /\ x \in S \union {x}
  <2>1. s \in Seq(S)
    BY DEF IsSeq
  <2> HIDE DEF S
  <2> QED
    BY <2>1
<1>2. t \in Seq(S \union {x}) /\ Len(t) = Len(s)
  <2> HIDE DEF S
  <2> QED
    BY <1>1
<1> HIDE DEF t
<1>3. IsSeq(t)
  BY <1>2, SeqOfIsSeq
<1> QED
  BY <1>2, <1>3 DEF t

(* What has the elements of s in front begins with s.                      *)
LEMMA PrefixIs ==
    ASSUME NEW s, IsSeq(s), NEW t, IsSeq(t), Len(s) <= Len(t), \A i \in 1..Len(s) : t[i] = s[i]
    PROVE  Promise!Prefix(s, t)
<1> DEFINE S == {s[i] : i \in DOMAIN s}  T == {t[i] : i \in DOMAIN t}  n == Len(s)
<1>1. s \in Seq(S \union T) /\ t \in Seq(S \union T)
  <2>1. s \in Seq(S) /\ t \in Seq(T)
    BY DEF IsSeq
  <2> HIDE DEF S, T
  <2> QED
    BY <2>1
<1> HIDE DEF S, T
<1>2. SubSeq(t, 1, n) = s
  <2>1. n \in Nat /\ DOMAIN s = 1..n /\ n <= Len(t) /\ Len(t) \in Nat /\ s = [i \in 1..n |-> s[i]]
    BY <1>1
  <2>2. /\ SubSeq(t, 1, n) \in Seq(S \union T) /\ Len(SubSeq(t, 1, n)) = n
        /\ \A i \in 1..n : SubSeq(t, 1, n)[i] = t[i]
    BY <1>1, <2>1
  <2>3. SubSeq(t, 1, n) = [i \in 1..n |-> SubSeq(t, 1, n)[i]]
    BY <2>1, <2>2
  <2> QED
    BY <2>1, <2>2, <2>3
<1> QED
  BY <1>2 DEF Promise!Prefix

---------------------------------------------------------------------------
(* The records the steps write and read have their fields.                 *)
IsChunk(c) == c = [doc |-> c.doc, hash |-> c.hash, version |-> c.version,
                   supersedes |-> c.supersedes, by |-> c.by, redacted |-> c.redacted,
                   access |-> c.access]
IsEnv(e) == /\ e = [op |-> e.op, doc |-> e.doc, target |-> e.target, author |-> e.author,
                    valid |-> e.valid, version |-> e.version, access |-> e.access,
                    hash |-> e.hash]
            /\ e.op = "add" => e.target = 0
StoreOK == IsSeq(store) /\ \A n \in 1..Len(store) : IsChunk(store[n])
ChainOK == /\ IsSeq(chain)
           /\ \A i \in 1..Len(chain) : \/ chain[i].organ = "smriti"
                                        \/ chain[i].digest.chunk \in Nat \ {0}
FaultsOK == faults = [n |-> faults.n, torn |-> faults.torn, lost |-> faults.lost,
                      phantom |-> faults.phantom]

(* A chunk is what it was, but for its marks.                              *)
SameLeaf(c, d) == c.hash = d.hash /\ c.supersedes = d.supersedes

(* What the open transaction makes of the store: a leaf more, or a         *)
(* tombstone.                                                              *)
Grown(s, e) == /\ e.op \in {"add", "supersede"} /\ Len(s) = Len(store) + 1
               /\ s[Len(s)].hash = e.hash /\ ~s[Len(s)].redacted
               /\ s[Len(s)].supersedes = 0 <=> e.op = "add"
               /\ \A n \in 1..Len(store) : SameLeaf(s[n], store[n])
                                           /\ s[n].redacted = store[n].redacted
Redacted(s, n) == /\ n \in 1..Len(store) /\ Len(s) = Len(store) /\ s[n].redacted
                  /\ \A m \in 1..Len(store) :
                        /\ SameLeaf(s[m], store[m])
                        /\ m # n => s[m].redacted = store[m].redacted
MutationOK == /\ IsSeq(call.store) /\ \A n \in 1..Len(call.store) : IsChunk(call.store[n])
              /\ \/ Grown(call.store, call.env) /\ call.chunk = Len(call.store)
                 \/ call.env.op = "redact" /\ Redacted(call.store, call.chunk)

(* What a call under way has done.                                         *)
CallOK ==
    /\ call.pc \in {"idle", "applied", "journaled", "begun", "mutated", "witnessed"}
    /\ call.pc \in {"applied", "journaled"} => call = [pc |-> call.pc, op |-> call.op]
    /\ call.pc = "journaled" => \E i \in 1..Len(journal) : journal[i] = call.op
    /\ call.pc = "begun" => IsEnv(call.env)
    /\ call.pc \in {"mutated", "witnessed"} =>
          /\ call = [pc |-> call.pc, env |-> call.env, store |-> call.store,
                     chunk |-> call.chunk]
          /\ MutationOK
    /\ call.pc = "witnessed" =>
          /\ Len(chain) > 0 /\ chain[Len(chain)].organ = "plane_h"
          /\ chain[Len(chain)].digest = [op |-> call.env.op, chunk |-> call.chunk,
                                         hash |-> call.env.hash]

(* The inductive invariant.                                                *)
MemInv == /\ IsSeq(journal) /\ StoreOK /\ ChainOK /\ FaultsOK /\ CallOK
          /\ KnowledgeMatchesRecords


---------------------------------------------------------------------------
(* RagStore.add: the leaves there were, and one more.                      *)
LEMMA LeafAdded ==
    ASSUME StoreOK, NEW e
    PROVE  LET s == RagAdd(store, e)
           IN /\ IsSeq(s) /\ Len(s) = Len(store) + 1 /\ Len(store) \in Nat
              /\ \A n \in 1..Len(store) : s[n] = store[n]
              /\ s[Len(s)].hash = e.hash /\ s[Len(s)].supersedes = e.target
              /\ s[Len(s)].redacted = FALSE
              /\ \A n \in 1..Len(s) : IsChunk(s[n])
<1> DEFINE c == [doc |-> e.doc, hash |-> e.hash, version |-> e.version,
                 supersedes |-> e.target, by |-> 0, redacted |-> FALSE, access |-> e.access]
           s == RagAdd(store, e)
<1>1. s = Append(store, c)
  BY DEF RagAdd
<1>2. c.hash = e.hash /\ c.supersedes = e.target /\ c.redacted = FALSE /\ IsChunk(c)
  BY DEF IsChunk
<1> HIDE DEF c
<1>3. /\ IsSeq(s) /\ Len(s) = Len(store) + 1 /\ Len(store) \in Nat
      /\ \A n \in 1..Len(store) : s[n] = store[n]
      /\ s[Len(store) + 1] = c
  BY <1>1, SeqAppended DEF StoreOK
<1> HIDE DEF s
<1>4. ASSUME NEW n \in 1..Len(s) PROVE IsChunk(s[n])
  <2>1. n \in 1..Len(store) \/ n = Len(store) + 1
    BY <1>3
  <2> QED
    BY <1>2, <1>3, <2>1 DEF StoreOK
<1> QED
  BY <1>2, <1>3, <1>4 DEF s

(* A chunk keeps its fields when one is marked.                            *)
LEMMA Marked ==
    ASSUME NEW c, IsChunk(c), NEW x, NEW d, d = [c EXCEPT !.by = x]
    PROVE  IsChunk(d) /\ SameLeaf(d, c) /\ d.redacted = c.redacted
<1>1. d = [doc |-> c.doc, hash |-> c.hash, version |-> c.version, supersedes |-> c.supersedes,
           by |-> x, redacted |-> c.redacted, access |-> c.access]
  BY DEF IsChunk
<1> QED
  BY <1>1 DEF IsChunk, SameLeaf

(* ... or redacted.                                                        *)
LEMMA Tombstone ==
    ASSUME NEW c, IsChunk(c), NEW d, d = [c EXCEPT !.redacted = TRUE]
    PROVE  IsChunk(d) /\ SameLeaf(d, c) /\ d.redacted
<1>1. d = [doc |-> c.doc, hash |-> c.hash, version |-> c.version, supersedes |-> c.supersedes,
           by |-> c.by, redacted |-> TRUE, access |-> c.access]
  BY DEF IsChunk
<1> QED
  BY <1>1 DEF IsChunk, SameLeaf

(* add.                                                                    *)
LEMMA AddMakes ==
    ASSUME StoreOK, NEW env, IsEnv(env), env.op = "add", NEW s, s = ApplyAdd(store, env)
    PROVE  /\ IsSeq(s) /\ \A n \in 1..Len(s) : IsChunk(s[n])
           /\ Grown(s, env) /\ Len(s) = Len(store) + 1
<1>1. s = RagAdd(store, env)
  BY DEF ApplyAdd
<1>2. /\ IsSeq(s) /\ Len(s) = Len(store) + 1 /\ Len(store) \in Nat
      /\ \A n \in 1..Len(store) : s[n] = store[n]
      /\ s[Len(s)].hash = env.hash /\ s[Len(s)].supersedes = env.target
      /\ s[Len(s)].redacted = FALSE
      /\ \A n \in 1..Len(s) : IsChunk(s[n])
  BY <1>1, LeafAdded
<1> QED
  BY <1>2 DEF Grown, SameLeaf, IsEnv

(* supersede: the new leaf, and the mark on the one it replaces.           *)
LEMMA SupersedeMakes ==
    ASSUME StoreOK, NEW env, IsEnv(env), env.op = "supersede", CanSupersede(store, env),
           NEW s, s = ApplySupersede(store, env)
    PROVE  /\ IsSeq(s) /\ \A n \in 1..Len(s) : IsChunk(s[n])
           /\ Grown(s, env) /\ Len(s) = Len(store) + 1
<1> DEFINE e == [env EXCEPT !.version = store[env.target].version + 1]
           r == RagAdd(store, e)
           k == env.target
<1>1. e.hash = env.hash /\ e.target = env.target
  BY DEF IsEnv
<1>2. k \in 1..Len(store)
  BY DEF CanSupersede
<1>3. s = [r EXCEPT ![k].by = Len(store) + 1]
  BY DEF ApplySupersede
<1> HIDE DEF e
<1>4. /\ IsSeq(r) /\ Len(r) = Len(store) + 1 /\ Len(store) \in Nat
      /\ \A n \in 1..Len(store) : r[n] = store[n]
      /\ r[Len(r)].hash = e.hash /\ r[Len(r)].supersedes = e.target
      /\ r[Len(r)].redacted = FALSE
      /\ \A n \in 1..Len(r) : IsChunk(r[n])
  BY LeafAdded
<1> HIDE DEF r
<1>5. DOMAIN r = 1..Len(r) /\ k \in DOMAIN r /\ k # Len(r)
  BY <1>2, <1>4, SeqIs
<1> DEFINE d == [r[k] EXCEPT !.by = Len(store) + 1]
<1>6. IsChunk(d) /\ SameLeaf(d, r[k]) /\ d.redacted = r[k].redacted
  <2>1. IsChunk(r[k]) /\ d = [r[k] EXCEPT !.by = Len(store) + 1]
    BY <1>4, <1>5
  <2> HIDE DEF d
  <2> QED
    BY <2>1, Marked
<1>7. s = [r EXCEPT ![k] = d]
  <2> HIDE DEF k
  <2> QED
    BY <1>3
<1> HIDE DEF d, k
<1>8. IsSeq(s) /\ Len(s) = Len(r) /\ s[k] = d /\ \A m \in DOMAIN r : m # k => s[m] = r[m]
  <2>1. IsSeq(r) /\ k \in DOMAIN r /\ s = [r EXCEPT ![k] = d]
    BY <1>4, <1>5, <1>7
  <2>2. IsSeq([r EXCEPT ![k] = d]) /\ Len([r EXCEPT ![k] = d]) = Len(r)
    BY ONLY <2>1, SeqReplaced, Zenon
  <2>3. IsSeq(s) /\ Len(s) = Len(r)
    BY <2>1, <2>2
  <2> QED
    BY <1>5, <1>7, <2>3
<1>9. ASSUME NEW n \in 1..Len(s)
      PROVE  IsChunk(s[n]) /\ SameLeaf(s[n], r[n]) /\ s[n].redacted = r[n].redacted
  BY <1>4, <1>5, <1>6, <1>8 DEF SameLeaf
<1>10. ASSUME NEW n \in 1..Len(store)
       PROVE  SameLeaf(s[n], store[n]) /\ s[n].redacted = store[n].redacted
  BY <1>4, <1>8, <1>9 DEF SameLeaf
<1>11. s[Len(s)] = r[Len(r)] /\ env.target # 0
  BY <1>2, <1>4, <1>5, <1>8 DEF k
<1> QED
  BY <1>1, <1>4, <1>8, <1>9, <1>10, <1>11 DEF Grown

(* redact: a tombstone in place.                                           *)
LEMMA RedactMakes ==
    ASSUME StoreOK, NEW env, CanRedact(store, env), NEW s, s = ApplyRedact(store, env)
    PROVE  /\ IsSeq(s) /\ \A n \in 1..Len(s) : IsChunk(s[n])
           /\ Redacted(s, env.target)
<1> DEFINE k == env.target
           d == [store[k] EXCEPT !.redacted = TRUE]
<1>1. k \in 1..Len(store) /\ DOMAIN store = 1..Len(store) /\ IsSeq(store)
  BY SeqIs DEF CanRedact, StoreOK
<1>2. IsChunk(d) /\ SameLeaf(d, store[k]) /\ d.redacted
  <2>1. IsChunk(store[k]) /\ d = [store[k] EXCEPT !.redacted = TRUE]
    BY <1>1 DEF StoreOK
  <2> HIDE DEF d
  <2> QED
    BY <2>1, Tombstone
<1>3. s = [store EXCEPT ![k] = d]
  BY DEF ApplyRedact
<1> HIDE DEF d, k
<1>4. IsSeq(s) /\ Len(s) = Len(store) /\ s[k] = d /\ \A m \in DOMAIN store : m # k => s[m] = store[m]
  <2>1. IsSeq(store) /\ k \in DOMAIN store /\ s = [store EXCEPT ![k] = d]
    BY <1>1, <1>3
  <2>2. IsSeq([store EXCEPT ![k] = d]) /\ Len([store EXCEPT ![k] = d]) = Len(store)
    BY ONLY <2>1, SeqReplaced, Zenon
  <2>3. IsSeq(s) /\ Len(s) = Len(store)
    BY <2>1, <2>2
  <2> QED
    BY <1>1, <1>3, <2>3
<1>5. ASSUME NEW n \in 1..Len(s) PROVE IsChunk(s[n]) /\ SameLeaf(s[n], store[n])
  BY <1>1, <1>2, <1>4 DEF SameLeaf, StoreOK
<1> QED
  BY <1>1, <1>2, <1>4, <1>5 DEF Redacted, k


---------------------------------------------------------------------------
(* Knowledge and records agree as long as neither changes, when a pending  *)
(* record is still pending or is counted as a phantom.                     *)
LEMMA AgreementKept ==
    ASSUME KnowledgeMatchesRecords, store' = store, chain' = chain,
           faults.phantom \subseteq faults'.phantom,
           call.pc = "witnessed" => Len(chain) \in faults'.phantom
    PROVE  KnowledgeMatchesRecords'
<1>1. \A op, n : WitnessedAs(op, n)' <=> WitnessedAs(op, n)
  BY DEF WitnessedAs
<1>2. NoUnwitnessedKnowledge'
  BY <1>1 DEF KnowledgeMatchesRecords, NoUnwitnessedKnowledge
<1>3. \A i : Told(i)' <=> Told(i)
  BY DEF Told
<1>4. PhantomsAreCrashes'
  BY <1>3 DEF KnowledgeMatchesRecords, PhantomsAreCrashes
<1> QED
  BY <1>2, <1>4 DEF KnowledgeMatchesRecords

(* Steps that leave what is durable and only move the call.                *)
LEMMA QuietKeeps ==
    ASSUME MemInv, UNCHANGED <<journal, store, chain>>, FaultsOK', CallOK',
           faults.phantom \subseteq faults'.phantom,
           call.pc = "witnessed" => Len(chain) \in faults'.phantom
    PROVE  MemInv'
<1>1. KnowledgeMatchesRecords'
  BY AgreementKept DEF MemInv
<1> QED
  BY <1>1 DEF MemInv, StoreOK, ChainOK

(* A call that ended.                                                      *)
LEMMA IdleOK == ASSUME call' = Idle PROVE CallOK'
  BY DEF CallOK, Idle

(* A call that applied its operation.                                      *)
LEMMA AppliedOK == ASSUME NEW op, call' = [pc |-> "applied", op |-> op] PROVE CallOK'
<1>1. call'.pc = "applied" /\ call'.op = op
  OBVIOUS
<1> QED
  BY <1>1 DEF CallOK

(* A call that began a write.                                              *)
LEMMA BegunOK == ASSUME NEW env, IsEnv(env), call' = [pc |-> "begun", env |-> env] PROVE CallOK'
<1>1. call'.pc = "begun" /\ call'.env = env
  OBVIOUS
<1> QED
  BY <1>1 DEF CallOK

(* The first steps of an operation.                                        *)
Starts == \E op : call' = [pc |-> "applied", op |-> op] /\ events' = Append(events, op)
Begins == \E env : IsEnv(env) /\ call' = [pc |-> "begun", env |-> env] /\ events' = events
Quiet == /\ call.pc = "idle" /\ UNCHANGED <<journal, store, chain, acked, faults>>
         /\ Starts \/ Begins \/ UNCHANGED <<call, events>>

(* What the task and the operators do are such steps.                      *)
LEMMA QuietSteps ==
    ASSUME \/ Ground("d") \/ RecordOutcome \/ Forget \/ LearnAnswer("d") \/ Operator
    PROVE  Quiet
<1>1. ASSUME NEW op, Emit(op), UNCHANGED <<journal, store, chain, acked, faults>> PROVE Quiet
  BY <1>1 DEF Emit, Quiet, Starts
<1>2. CASE Ground("d")
  BY <1>2 DEF Ground, Quiet, Starts
<1>3. CASE RecordOutcome
  BY <1>1, <1>3 DEF RecordOutcome, RecallAdd
<1>4. CASE Forget
  BY <1>4 DEF Forget, Quiet
<1>5. ASSUME NEW env, IsEnv(env), Propose(env) PROVE Quiet
  BY <1>5 DEF Propose, Quiet, Begins
<1>6. CASE LearnAnswer("d")
  <2> DEFINE env == [op |-> "add", doc |-> "d", target |-> 0, author |-> Self, valid |-> TRUE,
                     version |-> 1, access |-> "internal", hash |-> NextText]
  <2>1. IsEnv(env) /\ Propose(env)
    BY <1>6 DEF LearnAnswer, IsEnv
  <2> HIDE DEF env
  <2> QED
    BY <1>5, <2>1
<1>7. CASE Operator
  <2>1. ASSUME NEW l, NEW n, NEW lim, CoreSet(l, n, lim) PROVE Quiet
    BY <1>1, <2>1 DEF CoreSet
  <2>2. ASSUME NEW l, NEW n, CoreAppend(l, n) PROVE Quiet
    BY <1>1, <2>2 DEF CoreAppend
  <2>3. ASSUME NEW p \in Proposals, NEW a, NEW v,
               Propose([op |-> p.op, doc |-> p.doc, target |-> p.target, author |-> a,
                        valid |-> v, version |-> 1,
                        access |-> IF p.op = "add" THEN "internal" ELSE "restricted",
                        hash |-> NextText])
        PROVE  Quiet
    <3> DEFINE env == [op |-> p.op, doc |-> p.doc, target |-> p.target, author |-> a,
                       valid |-> v, version |-> 1,
                       access |-> IF p.op = "add" THEN "internal" ELSE "restricted",
                       hash |-> NextText]
    <3>1. p.op = "add" => p.target = 0
      BY DEF Proposals
    <3>2. IsEnv(env)
      BY <3>1 DEF IsEnv
    <3>3. Propose(env)
      BY <2>3
    <3> HIDE DEF env
    <3> QED
      BY <1>5, <3>2, <3>3
  <2>4. ASSUME NEW a, Grant("redact", a) \/ Revoke("redact", a) PROVE Quiet
    BY <2>4 DEF Grant, Revoke, Quiet
  <2> QED
    BY <1>7, <2>1, <2>2, <2>3, <2>4 DEF Operator
<1> QED
  BY <1>2, <1>3, <1>4, <1>6, <1>7

(* They keep the invariant.                                                *)
LEMMA QuietOK ==
    ASSUME MemInv, Quiet
    PROVE  MemInv'
<1>1. CallOK'
  <2>1. CASE Starts
    BY <2>1, AppliedOK DEF Starts
  <2>2. CASE Begins
    BY <2>2, BegunOK DEF Begins
  <2>3. CASE call' = call
    <3>1. call.pc = "idle" /\ call' = call
      BY <2>3 DEF Quiet
    <3> QED
      BY <3>1 DEF CallOK
  <2> QED
    BY <2>1, <2>2, <2>3 DEF Quiet
<1>2. FaultsOK' /\ faults' = faults /\ call.pc = "idle" /\ UNCHANGED <<journal, store, chain>>
  BY DEF Quiet, MemInv, FaultsOK
<1> QED
  BY <1>1, <1>2, QuietKeeps


(* _emit journals: the operation is there to be acknowledged.              *)
LEMMA JournalKeeps ==
    ASSUME MemInv, EmitJournal
    PROVE  MemInv' /\ IsSeq(journal') /\ Len(journal') = Len(journal) + 1
           /\ Promise!Prefix(journal, journal')
<1>1. /\ call = [pc |-> "applied", op |-> call.op] /\ call.pc = "applied"
      /\ call' = [call EXCEPT !.pc = "journaled"]
      /\ journal' = Append(journal, call.op) /\ UNCHANGED <<store, chain, faults>>
      /\ IsSeq(journal)
  BY DEF EmitJournal, MemInv, CallOK
<1>2. call' = [pc |-> "journaled", op |-> call.op]
  BY <1>1
<1>3. call'.pc = "journaled" /\ call'.op = call.op
  BY <1>2
<1>4. /\ Len(journal) \in Nat /\ IsSeq(journal') /\ Len(journal') = Len(journal) + 1
      /\ \A i \in 1..Len(journal) : journal'[i] = journal[i]
      /\ journal'[Len(journal) + 1] = call.op
  BY <1>1, SeqAppended
<1>5. Promise!Prefix(journal, journal')
  <2>1. Len(journal) <= Len(journal')
    BY <1>4
  <2> QED
    BY <1>1, <1>4, <2>1, PrefixIs, Zenon
<1>6. CallOK'
  <2>1. \E i \in 1..Len(journal') : journal'[i] = call'.op
    BY <1>3, <1>4
  <2> QED
    BY <1>2, <1>3, <2>1 DEF CallOK
<1>7. KnowledgeMatchesRecords'
  BY <1>1, AgreementKept DEF MemInv
<1> QED
  BY <1>1, <1>4, <1>5, <1>6, <1>7 DEF MemInv, StoreOK, ChainOK, FaultsOK

(* A record more leaves the others where they were.                        *)
LEMMA RecordAdded ==
    ASSUME ChainOK, NEW r, chain' = Append(chain, r),
           r.organ = "smriti" \/ r.digest.chunk \in Nat \ {0}
    PROVE  /\ ChainOK' /\ Len(chain) \in Nat /\ Len(chain') = Len(chain) + 1
           /\ \A i \in 1..Len(chain) : chain'[i] = chain[i]
           /\ chain'[Len(chain')] = r
<1>1. /\ Len(chain) \in Nat /\ IsSeq(chain') /\ Len(chain') = Len(chain) + 1
      /\ \A i \in 1..Len(chain) : chain'[i] = chain[i]
      /\ chain'[Len(chain) + 1] = r
  BY SeqAppended DEF ChainOK
<1>2. \A i \in 1..Len(chain') : i \in 1..Len(chain) \/ i = Len(chain) + 1
  BY <1>1
<1> QED
  BY <1>1, <1>2 DEF ChainOK

(* ... and a record of the other organ, or of a commit still to come, does *)
(* not disturb the agreement.                                              *)
LEMMA AgreementGrows ==
    ASSUME MemInv, NEW r, chain' = Append(chain, r), store' = store, faults' = faults,
           r.organ = "smriti" \/ r.digest.chunk \in Nat \ {0},
           call.pc # "witnessed", r.organ = "smriti" \/ call'.pc = "witnessed"
    PROVE  KnowledgeMatchesRecords' /\ ChainOK'
<1>1. /\ ChainOK' /\ Len(chain) \in Nat /\ Len(chain') = Len(chain) + 1
      /\ \A i \in 1..Len(chain) : chain'[i] = chain[i]
      /\ chain'[Len(chain')] = r
  BY RecordAdded DEF MemInv
<1>2. ASSUME NEW op, NEW n, WitnessedAs(op, n) PROVE WitnessedAs(op, n)'
  BY <1>1, <1>2 DEF WitnessedAs
<1>3. NoUnwitnessedKnowledge'
  BY <1>2 DEF MemInv, KnowledgeMatchesRecords, NoUnwitnessedKnowledge
<1>4. ASSUME NEW i \in 1..Len(chain')
      PROVE  \/ chain'[i].organ = "smriti" \/ Told(i)' \/ i \in faults'.phantom
             \/ call'.pc = "witnessed" /\ i = Len(chain')
  <2>1. CASE i \in 1..Len(chain)
    <3>1. chain[i].organ = "smriti" \/ Told(i) \/ i \in faults.phantom
      BY <2>1 DEF MemInv, KnowledgeMatchesRecords, PhantomsAreCrashes
    <3>2. Told(i) => Told(i)'
      BY <1>1, <2>1 DEF Told
    <3> QED
      BY <1>1, <2>1, <3>1, <3>2
  <2>2. CASE i = Len(chain')
    BY <1>1, <2>2
  <2> QED
    BY <1>1, <2>1, <2>2
<1>5. PhantomsAreCrashes'
  BY <1>4 DEF PhantomsAreCrashes
<1> QED
  BY <1>1, <1>3, <1>5 DEF KnowledgeMatchesRecords

(* _emit witnesses and returns.                                            *)
LEMMA WitnessKeeps ==
    ASSUME MemInv, EmitWitness
    PROVE  MemInv'
<1> DEFINE r == [organ |-> "smriti", digest |-> MemoryDigest(call.op)]
<1>1. /\ chain' = Append(chain, r) /\ call' = Idle /\ UNCHANGED <<journal, store, faults>>
      /\ call.pc = "journaled"
  BY DEF EmitWitness
<1>2. r.organ = "smriti"
  OBVIOUS
<1> HIDE DEF r
<1>3. KnowledgeMatchesRecords' /\ ChainOK'
  BY <1>1, <1>2, AgreementGrows
<1> QED
  BY <1>1, <1>3, IdleOK DEF MemInv, StoreOK, FaultsOK

(* The transaction is made, and nothing of it is seen.                     *)
LEMMA MutateKeeps ==
    ASSUME MemInv, Mutate
    PROVE  MemInv'
<1> DEFINE env == call.env
<1>1. call.pc = "begun" /\ IsEnv(env) /\ UNCHANGED <<journal, store, chain, faults>> /\ StoreOK
  BY DEF Mutate, MemInv, CallOK
<1>2. PICK s, n : /\ call' = [pc |-> "mutated", env |-> env, store |-> s, chunk |-> n]
                  /\ \/ env.op = "add" /\ s = ApplyAdd(store, env) /\ n = Len(store) + 1
                     \/ /\ env.op = "supersede" /\ CanSupersede(store, env)
                        /\ s = ApplySupersede(store, env) /\ n = Len(store) + 1
                     \/ /\ env.op = "redact" /\ CanRedact(store, env)
                        /\ s = ApplyRedact(store, env) /\ n = env.target
  BY DEF Mutate
<1> HIDE DEF env
<1>3. /\ IsSeq(s) /\ \A m \in 1..Len(s) : IsChunk(s[m])
      /\ \/ Grown(s, env) /\ n = Len(s)
         \/ env.op = "redact" /\ Redacted(s, n)
  <2>1. CASE env.op = "add" /\ s = ApplyAdd(store, env) /\ n = Len(store) + 1
    BY <1>1, <2>1, AddMakes
  <2>2. CASE /\ env.op = "supersede" /\ CanSupersede(store, env)
             /\ s = ApplySupersede(store, env) /\ n = Len(store) + 1
    BY <1>1, <2>2, SupersedeMakes
  <2>3. CASE /\ env.op = "redact" /\ CanRedact(store, env)
             /\ s = ApplyRedact(store, env) /\ n = env.target
    BY <1>1, <2>3, RedactMakes
  <2> QED
    BY <1>2, <2>1, <2>2, <2>3
<1>4. call'.pc = "mutated" /\ call'.env = env /\ call'.store = s /\ call'.chunk = n
  BY <1>2
<1>5. MutationOK'
  BY <1>1, <1>3, <1>4 DEF MutationOK, Grown, Redacted
<1>6. CallOK'
  BY <1>2, <1>4, <1>5 DEF CallOK
<1> QED
  BY <1>1, <1>6, QuietKeeps DEF MemInv, FaultsOK


(* The witness sees the write before the store has it.                     *)
LEMMA LearnKeeps ==
    ASSUME MemInv, WitnessLearn
    PROVE  MemInv' /\ Len(chain) \in Nat /\ \A i \in 1..Len(chain) : i \in 1..Len(chain') /\ chain'[i] = chain[i]
<1> DEFINE r == [organ |-> "plane_h", digest |-> [op |-> call.env.op, chunk |-> call.chunk,
                                                 hash |-> call.env.hash]]
<1>1. /\ chain' = Append(chain, r) /\ UNCHANGED <<journal, store, faults>>
      /\ call.pc = "mutated" /\ call' = [call EXCEPT !.pc = "witnessed"]
      /\ call = [pc |-> "mutated", env |-> call.env, store |-> call.store, chunk |-> call.chunk]
      /\ MutationOK /\ IsSeq(store)
  BY DEF WitnessLearn, MemInv, CallOK, StoreOK
<1>2. call' = [pc |-> "witnessed", env |-> call.env, store |-> call.store, chunk |-> call.chunk]
  BY <1>1
<1>3. /\ call'.pc = "witnessed" /\ call'.env = call.env /\ call'.store = call.store
      /\ call'.chunk = call.chunk
  BY <1>2
<1>4. r.organ = "plane_h" /\ r.digest.chunk = call.chunk
      /\ r.digest = [op |-> call.env.op, chunk |-> call.chunk, hash |-> call.env.hash]
  OBVIOUS
<1> HIDE DEF r
<1>5. call.chunk \in Nat \ {0}
  <2>1. Len(store) \in Nat
    BY <1>1, SeqIs
  <2> QED
    BY <1>1, <2>1 DEF MutationOK, Grown, Redacted
<1>6. KnowledgeMatchesRecords' /\ ChainOK'
  BY <1>1, <1>3, <1>4, <1>5, AgreementGrows
<1>7. /\ Len(chain) \in Nat /\ Len(chain') = Len(chain) + 1 /\ chain'[Len(chain')] = r
      /\ \A i \in 1..Len(chain) : chain'[i] = chain[i]
  BY <1>1, <1>4, <1>5, RecordAdded DEF MemInv
<1>8. MutationOK'
  BY <1>1, <1>3 DEF MutationOK, Grown, Redacted
<1>9. CallOK'
  BY <1>2, <1>3, <1>4, <1>7, <1>8 DEF CallOK
<1> QED
  BY <1>1, <1>6, <1>7, <1>9 DEF MemInv, StoreOK, FaultsOK

(* The store has what the witness saw: the pending record is told.         *)
LEMMA CommitKeeps ==
    ASSUME MemInv, Commit
    PROVE  MemInv'
<1> DEFINE s == call.store  e == call.env  k == Len(chain)
<1>1. /\ store' = s /\ call' = Idle /\ UNCHANGED <<journal, chain, faults>>
      /\ call.pc = "witnessed" /\ MutationOK /\ StoreOK /\ ChainOK
      /\ k > 0 /\ chain[k].organ = "plane_h"
      /\ chain[k].digest = [op |-> e.op, chunk |-> call.chunk, hash |-> e.hash]
      /\ KnowledgeMatchesRecords
  BY DEF Commit, MemInv, CallOK
<1>2. k \in Nat /\ Len(store) \in Nat /\ Len(s) \in Nat
  BY <1>1, SeqIs DEF MutationOK, StoreOK, ChainOK
<1>3. /\ chain[k].digest.op = e.op /\ chain[k].digest.chunk = call.chunk
      /\ chain[k].digest.hash = e.hash
  BY <1>1
<1> HIDE DEF s, e, k
<1>4. StoreOK'
  BY <1>1 DEF StoreOK, MutationOK, s
<1>5. /\ Len(s) >= Len(store)
      /\ \A n \in 1..Len(store) : /\ SameLeaf(s[n], store[n])
                                  /\ store[n].redacted => s[n].redacted
      /\ call.chunk \in 1..Len(s)
      /\ \/ /\ e.op \in {"add", "supersede"} /\ Len(s) = Len(store) + 1 /\ call.chunk = Len(s)
            /\ s[Len(s)].hash = e.hash /\ ~s[Len(s)].redacted
            /\ s[Len(s)].supersedes = 0 <=> e.op = "add"
            /\ \A n \in 1..Len(store) : s[n].redacted = store[n].redacted
         \/ /\ e.op = "redact" /\ Len(s) = Len(store) /\ s[call.chunk].redacted
            /\ \A n \in 1..Len(store) : n # call.chunk => s[n].redacted = store[n].redacted
  BY <1>1, <1>2 DEF MutationOK, Grown, Redacted, s, e
<1>6. \A op, n : WitnessedAs(op, n)' <=> WitnessedAs(op, n)
  BY <1>1 DEF WitnessedAs
<1>7. WitnessedAs(e.op, call.chunk)
  BY <1>1, <1>2, <1>3 DEF WitnessedAs, k
<1>8. ASSUME NEW n \in 1..Len(s)
      PROVE  /\ WitnessedAs(IF s[n].supersedes = 0 THEN "add" ELSE "supersede", n)
             /\ s[n].redacted => WitnessedAs("redact", n)
  <2>1. CASE n \in 1..Len(store)
    <3>1. /\ WitnessedAs(IF store[n].supersedes = 0 THEN "add" ELSE "supersede", n)
          /\ store[n].redacted => WitnessedAs("redact", n)
      BY <1>1, <2>1 DEF KnowledgeMatchesRecords, NoUnwitnessedKnowledge
    <3>2. s[n].supersedes = store[n].supersedes
      BY <1>5, <2>1 DEF SameLeaf
    <3>3. s[n].redacted => store[n].redacted \/ (e.op = "redact" /\ n = call.chunk)
      BY <1>5, <2>1
    <3> QED
      BY <1>7, <3>1, <3>2, <3>3
  <2>2. CASE n \notin 1..Len(store)
    <3>1. /\ n = Len(s) /\ n = call.chunk /\ e.op \in {"add", "supersede"}
          /\ s[n].supersedes = 0 <=> e.op = "add"
          /\ ~s[n].redacted
      BY <1>2, <1>5, <2>2
    <3> QED
      BY <1>7, <3>1
  <2> QED
    BY <2>1, <2>2
<1>9. NoUnwitnessedKnowledge'
  BY <1>1, <1>6, <1>8 DEF NoUnwitnessedKnowledge
<1>10. ASSUME NEW i \in 1..k
       PROVE  chain[i].organ = "smriti" \/ Told(i)' \/ i \in faults.phantom
  <2>1. CASE i = k
    <3>1. call.chunk <= Len(s)
      BY <1>2, <1>5
    <3>2. e.op = "redact" => s[call.chunk].redacted
      BY <1>5
    <3>3. e.op # "redact" => s[call.chunk].hash = e.hash
      BY <1>5
    <3>4. /\ chain[i].digest.op = e.op /\ chain[i].digest.chunk = call.chunk
          /\ chain[i].digest.hash = e.hash
      BY <1>3, <2>1
    <3>5. Told(i)'
      <4>1. store' = s /\ chain' = chain
        BY <1>1
      <4> QED
        BY <3>1, <3>2, <3>3, <3>4, <4>1 DEF Told
    <3> QED
      BY <3>5
  <2>2. CASE i # k /\ chain[i].organ # "smriti" /\ i \notin faults.phantom
    <3>1. Told(i)
      BY <1>1, <2>2 DEF KnowledgeMatchesRecords, PhantomsAreCrashes, k
    <3>2. chain[i].digest.chunk \in 1..Len(store)
      <4>1. chain[i].digest.chunk \in Nat \ {0}
        BY <1>1, <2>2 DEF ChainOK, k
      <4>2. chain[i].digest.chunk <= Len(store)
        BY <3>1 DEF Told
      <4> QED
        BY <1>2, <4>1, <4>2
    <3>3. Told(i)'
      BY <1>1, <1>2, <1>5, <3>1, <3>2 DEF Told, SameLeaf
    <3> QED
      BY <3>3
  <2> QED
    BY <2>1, <2>2
<1>11. PhantomsAreCrashes'
  BY <1>1, <1>10 DEF PhantomsAreCrashes, k
<1> QED
  BY <1>1, <1>4, <1>9, <1>11, IdleOK DEF MemInv, KnowledgeMatchesRecords, ChainOK, FaultsOK

(* A failed call is counted, and leaves no phantom.                        *)
LEMMA FaultCounted ==
    ASSUME FaultsOK, NEW torn, NEW gone,
           faults' = [faults EXCEPT !.n = @ + 1, !.torn = @ \union torn, !.lost = @ \union gone]
    PROVE  FaultsOK' /\ faults'.phantom = faults.phantom
<1>1. faults' = [n |-> faults.n + 1, torn |-> faults.torn \union torn,
                 lost |-> faults.lost \union gone, phantom |-> faults.phantom]
  BY DEF FaultsOK
<1> QED
  BY <1>1 DEF FaultsOK

(* A death is counted, with the phantom it may leave.                      *)
LEMMA DeathCounted ==
    ASSUME FaultsOK, NEW torn, NEW phantom,
           faults' = [faults EXCEPT !.n = @ + 1, !.torn = @ \union torn,
                                    !.phantom = @ \union phantom]
    PROVE  FaultsOK' /\ faults'.phantom = faults.phantom \union phantom
<1>1. faults' = [n |-> faults.n + 1, torn |-> faults.torn \union torn, lost |-> faults.lost,
                 phantom |-> faults.phantom \union phantom]
  BY DEF FaultsOK
<1> QED
  BY <1>1 DEF FaultsOK

(* A failed call and a death keep what was told.                           *)
LEMMA FaultKeeps ==
    ASSUME MemInv, Refuse \/ IOFails \/ Crash
    PROVE  MemInv' /\ (journal' = journal \/ (Len(journal') = Len(journal) + 1
                                              /\ Promise!Prefix(journal, journal')))
<1>1. /\ call' = Idle /\ UNCHANGED <<store, chain>>
      /\ journal' = journal \/ \E op : journal' = Append(journal, op)
  BY DEF Refuse, IOFails, Crash, Raise
<1>2. /\ FaultsOK' /\ faults.phantom \subseteq faults'.phantom
      /\ call.pc = "witnessed" => Len(chain) \in faults'.phantom
  <2>1. CASE Refuse
    BY <2>1 DEF Refuse, MemInv, FaultsOK
  <2>2. FaultsOK
    BY DEF MemInv
  <2>3. CASE IOFails
    <3> DEFINE op == IF call.pc = "mutated" THEN {} ELSE {call.op}
    <3>1. call.pc # "witnessed"
      BY <2>3 DEF IOFails
    <3>2. PICK gone : faults' = [faults EXCEPT !.n = @ + 1, !.torn = @ \union op,
                                               !.lost = @ \union gone]
      BY <2>3, Zenon DEF IOFails
    <3> HIDE DEF op
    <3> QED
      BY <2>2, <3>1, <3>2, FaultCounted
  <2>4. CASE Crash
    <3> DEFINE torn == IF call.pc = "journaled" THEN {call.op} ELSE {}
               phantom == IF call.pc = "witnessed" THEN {Len(chain)} ELSE {}
    <3>1. faults' = [faults EXCEPT !.n = @ + 1, !.torn = @ \union torn,
                                   !.phantom = @ \union phantom]
      BY <2>4, Zenon DEF Crash
    <3>2. call.pc = "witnessed" => Len(chain) \in phantom
      OBVIOUS
    <3> HIDE DEF torn, phantom
    <3> QED
      BY <2>2, <3>1, <3>2, DeathCounted
  <2> QED
    BY <2>1, <2>3, <2>4
<1>3. IsSeq(journal') /\ (journal' = journal \/ (Len(journal') = Len(journal) + 1
                                                 /\ Promise!Prefix(journal, journal')))
  <2>1. ASSUME NEW op, journal' = Append(journal, op)
        PROVE  IsSeq(journal') /\ Len(journal') = Len(journal) + 1 /\ Promise!Prefix(journal, journal')
    <3>1. /\ Len(journal) \in Nat /\ IsSeq(journal) /\ IsSeq(journal')
          /\ Len(journal') = Len(journal) + 1
          /\ \A i \in 1..Len(journal) : journal'[i] = journal[i]
      BY <2>1, SeqAppended DEF MemInv
    <3> QED
      BY <3>1, PrefixIs
  <2> QED
    BY <1>1, <2>1 DEF MemInv
<1>4. KnowledgeMatchesRecords'
  BY <1>1, <1>2, AgreementKept DEF MemInv
<1> QED
  BY <1>1, <1>2, <1>3, <1>4, IdleOK DEF MemInv, StoreOK, ChainOK

(* The memory starts empty, with nothing to tell.                          *)
LEMMA MemInit == ASSUME MemoryInit PROVE MemInv
<1>1. /\ journal = <<>> /\ store = <<>> /\ chain = <<>> /\ call = Idle
      /\ faults = [n |-> 0, torn |-> {}, lost |-> {}, phantom |-> {}]
  BY DEF MemoryInit
<1>2. IsSeq(journal) /\ IsSeq(store) /\ IsSeq(chain)
  <2>1. <<>> \in Seq({})
    OBVIOUS
  <2>2. IsSeq(<<>>)
    BY <2>1, SeqOfIsSeq
  <2> QED
    BY <1>1, <2>2
<1>3. Len(store) = 0 /\ Len(chain) = 0
  BY <1>1
<1>4. StoreOK /\ ChainOK /\ FaultsOK
  BY <1>1, <1>2, <1>3 DEF StoreOK, ChainOK, FaultsOK
<1>5. CallOK
  BY <1>1 DEF CallOK, Idle
<1>6. KnowledgeMatchesRecords
  BY <1>3 DEF KnowledgeMatchesRecords, NoUnwitnessedKnowledge, PhantomsAreCrashes
<1> QED
  BY <1>2, <1>4, <1>5, <1>6 DEF MemInv

(* Nothing happens.                                                        *)
LEMMA StillKeeps == ASSUME MemInv, UNCHANGED vars PROVE MemInv'
<1>1. UNCHANGED <<journal, store, chain, call, faults>>
  BY DEF vars
<1>2. KnowledgeMatchesRecords'
  <2>1. NoUnwitnessedKnowledge'
    BY <1>1 DEF MemInv, KnowledgeMatchesRecords, NoUnwitnessedKnowledge, WitnessedAs
  <2>2. PhantomsAreCrashes'
    BY <1>1 DEF MemInv, KnowledgeMatchesRecords, PhantomsAreCrashes, Told
  <2> QED
    BY <2>1, <2>2 DEF KnowledgeMatchesRecords
<1>3. CallOK'
  BY <1>1 DEF MemInv, CallOK, MutationOK, Grown, Redacted
<1> QED
  BY <1>1, <1>2, <1>3 DEF MemInv, StoreOK, ChainOK, FaultsOK

(* Every step keeps the invariant.                                         *)
LEMMA MemNext ==
    ASSUME MemInv, [MemoryNext]_vars
    PROVE  MemInv'
<1>1. CASE Ground("d") \/ RecordOutcome \/ Forget \/ LearnAnswer("d") \/ Operator
  BY <1>1, QuietSteps, QuietOK
<1>2. CASE EmitJournal
  BY <1>2, JournalKeeps
<1>3. CASE EmitWitness
  BY <1>3, WitnessKeeps
<1>4. CASE Mutate
  BY <1>4, MutateKeeps
<1>5. CASE WitnessLearn
  BY <1>5, LearnKeeps
<1>6. CASE Commit
  BY <1>6, CommitKeeps
<1>7. CASE Refuse \/ IOFails \/ Crash
  BY <1>7, FaultKeeps
<1>8. CASE UNCHANGED vars
  BY <1>8, StillKeeps
<1> QED
  BY <1>1, <1>2, <1>3, <1>4, <1>5, <1>6, <1>7, <1>8 DEF MemoryNext

(* Knowledge and the witness records of it agree in both directions: what  *)
(* a restart finds in the store has its record, and a record without its   *)
(* knowledge is the trace of a process that died between the witness       *)
(* append and the SQLite commit (core/plane_h.py GovernedPlaneH.apply).    *)
THEOREM KnowledgeAlwaysMatches == MemorySpec => []KnowledgeMatchesRecords
<1>1. MemoryInit => MemInv
  BY MemInit
<1>2. MemInv /\ [MemoryNext]_vars => MemInv'
  BY MemNext
<1>3. MemInv => KnowledgeMatchesRecords
  BY DEF MemInv
<1> QED
  BY <1>1, <1>2, <1>3, PTL DEF MemorySpec

---------------------------------------------------------------------------
(* The state MemoryPromise speaks of.                                      *)
LeavesOf(s) == [n \in 1..Len(s) |-> s[n].hash]
SeenIn(c) == {<<c[i].digest.chunk, c[i].digest.hash>> : i \in
              {j \in 1..Len(c) : c[j].organ = "plane_h" /\ c[j].digest.op # "redact"}}

(* The leaves of a store are a sequence, as long as the store.             *)
LEMMA LeavesAre ==
    ASSUME NEW s, IsSeq(s)
    PROVE  /\ IsSeq(LeavesOf(s)) /\ Len(LeavesOf(s)) = Len(s)
           /\ \A n \in 1..Len(s) : LeavesOf(s)[n] = s[n].hash
<1> DEFINE m == Len(s)  S == {s[n].hash : n \in 1..m}
<1>1. m \in Nat
  BY SeqIs
<1>2. \A n \in 1..m : s[n].hash \in S
  OBVIOUS
<1>3. LeavesOf(s) = [n \in 1..m |-> s[n].hash]
  BY DEF LeavesOf
<1> HIDE DEF m, S
<1>4. LeavesOf(s) \in Seq(S) /\ Len(LeavesOf(s)) = m
  BY <1>1, <1>2, <1>3
<1>5. IsSeq(LeavesOf(s))
  BY <1>4, SeqOfIsSeq
<1> QED
  BY <1>3, <1>4, <1>5 DEF m

(* What the witness holds is not lost when it is given more.               *)
LEMMA SeenGrows ==
    ASSUME NEW c, NEW d, \A i \in 1..Len(c) : i \in 1..Len(d) /\ d[i] = c[i]
    PROVE  SeenIn(c) \subseteq SeenIn(d)
BY DEF SeenIn

(* A step that leaves the durable logs and the caller alone promises       *)
(* nothing new.                                                            *)
LEMMA StillPromise ==
    ASSUME UNCHANGED <<journal, store, chain, acked>>
    PROVE  UNCHANGED Promise!pvars
BY DEF Promise!pvars

(* _emit's journal write, and the write of a call that failed after it:    *)
(* the log grows by one.                                                   *)
LEMMA RememberPromised ==
    ASSUME Len(journal') = Len(journal) + 1, Promise!Prefix(journal, journal'),
           UNCHANGED <<store, chain, acked>>
    PROVE  Promise!Remember
BY DEF Promise!Remember

(* _emit returns: what it tells its caller is in the log.                  *)
LEMMA TellPromised ==
    ASSUME MemInv, EmitWitness
    PROVE  Promise!Tell
<1> DEFINE r == [organ |-> "smriti", digest |-> MemoryDigest(call.op)]
<1>1. /\ chain' = Append(chain, r) /\ acked' = acked \union {call.op}
      /\ call.pc = "journaled" /\ UNCHANGED <<journal, store>>
  BY DEF EmitWitness
<1>2. r.organ = "smriti"
  OBVIOUS
<1> HIDE DEF r
<1>3. SeenIn(chain) \subseteq SeenIn(chain')
  <2>1. /\ Len(chain) \in Nat /\ Len(chain') = Len(chain) + 1
        /\ \A i \in 1..Len(chain) : chain'[i] = chain[i]
    BY <1>1, <1>2, RecordAdded DEF MemInv
  <2>2. \A i \in 1..Len(chain) : i \in 1..Len(chain')
    BY <2>1
  <2> QED
    BY <2>1, <2>2, SeenGrows
<1>4. \E i \in 1..Len(journal) : journal[i] = call.op
  BY <1>1 DEF MemInv, CallOK
<1> QED
  BY <1>1, <1>3, <1>4 DEF Promise!Tell, SeenIn

(* The witness is given a write that is still to be committed.             *)
LEMMA WitnessPromised ==
    ASSUME MemInv, WitnessLearn
    PROVE  Promise!Witness
<1>1. UNCHANGED <<journal, store, acked>>
  BY DEF WitnessLearn
<1>2. SeenIn(chain) \subseteq SeenIn(chain')
  BY LearnKeeps, SeenGrows
<1> QED
  BY <1>1, <1>2 DEF Promise!Witness, SeenIn

(* A commit adds a leaf the witness saw, or marks one where it is.         *)
LEMMA CommitPromised ==
    ASSUME MemInv, Commit
    PROVE  Promise!Learn \/ UNCHANGED Promise!pvars
<1>1. PICK s : s = call.store
  OBVIOUS
<1>2. PICK k : k = Len(chain)
  OBVIOUS
<1>3. /\ store' = s /\ UNCHANGED <<journal, chain, acked>>
      /\ k > 0 /\ chain[k].organ = "plane_h"
      /\ chain[k].digest = [op |-> call.env.op, chunk |-> call.chunk, hash |-> call.env.hash]
      /\ IsSeq(s) /\ IsSeq(store) /\ IsSeq(chain)
      /\ \/ Grown(s, call.env) /\ call.chunk = Len(s)
         \/ Redacted(s, call.chunk)
  BY <1>1, <1>2 DEF Commit, MemInv, CallOK, MutationOK, StoreOK, ChainOK
<1>4. Len(s) \in Nat /\ Len(store) \in Nat /\ k \in Nat
  BY <1>2, <1>3, SeqIs
<1>5. /\ IsSeq(LeavesOf(s)) /\ Len(LeavesOf(s)) = Len(s)
      /\ \A n \in 1..Len(s) : LeavesOf(s)[n] = s[n].hash
  BY <1>3, LeavesAre
<1>6. /\ IsSeq(LeavesOf(store)) /\ Len(LeavesOf(store)) = Len(store)
      /\ \A n \in 1..Len(store) : LeavesOf(store)[n] = store[n].hash
  BY <1>3, LeavesAre
<1>7. LeavesOf(store)' = LeavesOf(s) /\ SeenIn(chain)' = SeenIn(chain)
  BY <1>3 DEF LeavesOf, SeenIn
<1>8. CASE Grown(s, call.env) /\ call.chunk = Len(s)
  <2>1. /\ Len(s) = Len(store) + 1 /\ s[Len(s)].hash = call.env.hash
        /\ call.env.op # "redact" /\ \A n \in 1..Len(store) : s[n].hash = store[n].hash
    BY <1>8 DEF Grown, SameLeaf
  <2>2. Promise!Prefix(LeavesOf(store), LeavesOf(s))
    <3>1. Len(LeavesOf(store)) <= Len(LeavesOf(s))
      BY <1>4, <1>5, <1>6, <2>1
    <3>2. \A n \in 1..Len(LeavesOf(store)) : LeavesOf(s)[n] = LeavesOf(store)[n]
      BY <1>4, <1>5, <1>6, <2>1
    <3> QED
      BY <1>5, <1>6, <3>1, <3>2, PrefixIs, Zenon
  <2>3. <<Len(LeavesOf(s)), LeavesOf(s)[Len(LeavesOf(s))]>> \in SeenIn(chain)
    <3>1. Len(LeavesOf(s)) = chain[k].digest.chunk
      BY <1>3, <1>5, <1>8
    <3>2. LeavesOf(s)[Len(LeavesOf(s))] = chain[k].digest.hash
      <4>1. Len(s) \in 1..Len(s)
        BY <1>4, <2>1
      <4> QED
        BY <1>3, <1>5, <2>1, <4>1
    <3>3. k \in 1..Len(chain) /\ chain[k].organ = "plane_h" /\ chain[k].digest.op # "redact"
      BY <1>2, <1>3, <1>4, <2>1
    <3> QED
      BY <3>1, <3>2, <3>3 DEF SeenIn
  <2>4. Len(LeavesOf(s)) = Len(LeavesOf(store)) + 1
    BY <1>5, <1>6, <2>1
  <2> QED
    BY <1>3, <1>7, <2>2, <2>3, <2>4 DEF Promise!Learn, LeavesOf, SeenIn
<1>9. CASE Redacted(s, call.chunk)
  <2>1. LeavesOf(s) = LeavesOf(store)
    BY <1>9 DEF LeavesOf, Redacted, SameLeaf
  <2> QED
    BY <1>3, <1>7, <2>1 DEF Promise!pvars, LeavesOf, SeenIn
<1> QED
  BY <1>3, <1>8, <1>9

(* Every step of the organs is a step of the promise, or none.             *)
LEMMA StepMaps ==
    ASSUME MemInv, [MemoryNext]_vars
    PROVE  [Promise!PromiseNext]_(Promise!pvars)
<1>1. CASE Ground("d") \/ RecordOutcome \/ Forget \/ LearnAnswer("d") \/ Operator
  <2>1. UNCHANGED <<journal, store, chain, acked>>
    BY <1>1, QuietSteps DEF Quiet
  <2> QED
    BY <2>1, StillPromise
<1>2. CASE EmitJournal
  <2>1. UNCHANGED <<store, chain, acked>>
    BY <1>2 DEF EmitJournal
  <2> QED
    BY <1>2, <2>1, JournalKeeps, RememberPromised DEF Promise!PromiseNext
<1>3. CASE EmitWitness
  BY <1>3, TellPromised DEF Promise!PromiseNext
<1>4. CASE Mutate
  <2>1. UNCHANGED <<journal, store, chain, acked>>
    BY <1>4 DEF Mutate
  <2> QED
    BY <2>1, StillPromise
<1>5. CASE WitnessLearn
  BY <1>5, WitnessPromised DEF Promise!PromiseNext
<1>6. CASE Commit
  BY <1>6, CommitPromised DEF Promise!PromiseNext
<1>7. CASE Refuse \/ IOFails \/ Crash
  <2>1. UNCHANGED <<store, chain, acked>>
    BY <1>7 DEF Refuse, IOFails, Crash
  <2>2. CASE journal' = journal
    BY <2>1, <2>2, StillPromise
  <2>3. CASE Len(journal') = Len(journal) + 1 /\ Promise!Prefix(journal, journal')
    BY <2>1, <2>3, RememberPromised DEF Promise!PromiseNext
  <2> QED
    BY <1>7, <2>2, <2>3, FaultKeeps
<1>8. CASE UNCHANGED vars
  <2>1. UNCHANGED <<journal, store, chain, acked>>
    BY <1>8 DEF vars
  <2> QED
    BY <2>1, StillPromise
<1> QED
  BY <1>1, <1>2, <1>3, <1>4, <1>5, <1>6, <1>7, <1>8 DEF MemoryNext

(* The organs implement the promise: the journal of smriti.py only grows   *)
(* and holds all that _emit returned for; the leaves of plane_h.py only    *)
(* grow, each after its witness record, and neither a redaction nor a      *)
(* supersession moves one, through crashes and failed writes.              *)
THEOREM PromiseIsKept == MemorySpec => MemoryPromised
<1>1. MemoryInit => MemInv /\ Promise!PromiseInit
  <2>1. ASSUME MemoryInit PROVE Promise!PromiseInit
    <3>1. journal = <<>> /\ store = <<>> /\ chain = <<>> /\ acked = {}
      BY <2>1 DEF MemoryInit
    <3>2. Len(store) = 0 /\ Len(chain) = 0 /\ 1..0 = {}
      BY <3>1
    <3>3. [n \in 1..Len(store) |-> store[n].hash] = <<>>
      BY <3>2
    <3> QED
      BY <3>1, <3>2, <3>3 DEF Promise!PromiseInit
  <2> QED
    BY <2>1, MemInit
<1>2. MemInv /\ [MemoryNext]_vars => MemInv'
  BY MemNext
<1>3. MemInv /\ [MemoryNext]_vars => [Promise!PromiseNext]_(Promise!pvars)
  BY StepMaps
<1> QED
  BY <1>1, <1>2, <1>3, PTL DEF MemorySpec, MemoryPromised, Promise!PromiseSpec

---------------------------------------------------------------------------
(* The continuity organ and its own records.                               *)

(* The continuity records of a chain.                                      *)
OwnOf(c) ==
    LET own[n \in 0..Len(c)] ==
            IF n = 0 THEN <<>>
            ELSE IF c[n].organ = "smriti" THEN Append(own[n - 1], c[n]) ELSE own[n - 1]
    IN  own[Len(c)]

InFlight == call.pc \in {"applied", "journaled"}

(* What is not torn: the log is the journal, but for an operation not yet  *)
(* journaled, and it is bound, but for an operation not yet witnessed.     *)
Bound(log, recs) ==
    \A i \in 1..Len(recs) : /\ recs[i].organ = "smriti"
                            /\ recs[i].digest = [op |-> log[i], state |-> State(SubSeq(log, 1, i))]
Untorn ==
    /\ events = IF call.pc = "applied" THEN Append(journal, call.op) ELSE journal
    /\ Len(events) = Len(OwnOf(chain)) + (IF InFlight THEN 1 ELSE 0)
    /\ InFlight => events[Len(events)] = call.op
    /\ Bound(events, OwnOf(chain))
HonestInv == IsSeq(events) /\ (faults.torn = {} => Untorn)

(* The filter of the import is one of those readers, for any set that      *)
(* holds the continuity records and no other.                              *)
LEMMA OwnIsKept ==
    ASSUME NEW c, Len(c) \in Nat, NEW T,
           \A i \in 1..Len(c) : c[i] \in T <=> c[i].organ = "smriti"
    PROVE  \E g : IsKept(T, g, c, Len(c)) /\ OwnOf(c) = g[Len(c)]
<1> DEFINE IsOwn(g) == g = [n \in 0..Len(c) |->
                               IF n = 0 THEN <<>>
                               ELSE IF c[n].organ = "smriti" THEN Append(g[n - 1], c[n])
                                    ELSE g[n - 1]]
           k == CHOOSE f : IsOwn(f)
<1>1. \A g : IsOwn(g) <=> IsKept(T, g, c, Len(c))
  <2>1. ASSUME NEW g
        PROVE  [n \in 0..Len(c) |-> IF n = 0 THEN <<>>
                                    ELSE IF c[n].organ = "smriti" THEN Append(g[n - 1], c[n])
                                         ELSE g[n - 1]]
               = [n \in 0..Len(c) |-> IF n = 0 THEN <<>>
                                      ELSE IF c[n] \in T THEN Append(g[n - 1], c[n])
                                           ELSE g[n - 1]]
    OBVIOUS
  <2> QED
    BY <2>1 DEF IsKept
<1>2. \E g : IsOwn(g)
  <2> HIDE DEF IsOwn
  <2> QED
    BY <1>1, KeptExists
<1>3. IsOwn(k)
  <2> HIDE DEF IsOwn
  <2> QED
    BY <1>2
<1>4. OwnOf(c) = k[Len(c)]
  BY DEF OwnOf
<1> HIDE DEF IsOwn, k
<1> QED
  BY <1>1, <1>3, <1>4

(* What is kept is a sequence.                                             *)
LEMMA KeptIsSeq ==
    ASSUME NEW T, NEW t, NEW m \in Nat, NEW g, IsKept(T, g, t, m)
    PROVE  \A n \in 0..m : g[n] \in Seq(T)
<1> DEFINE Good == {n \in 0..m : g[n] \in Seq(T)}
<1>0. /\ g[0] = <<>>
      /\ \A n \in 1..m : g[n] = IF t[n] \in T THEN Append(g[n - 1], t[n]) ELSE g[n - 1]
  BY KeptStep
<1>1. 0 \in Good
  <2>1. <<>> \in Seq(T) /\ 0 \in 0..m
    OBVIOUS
  <2> QED
    BY <1>0, <2>1, Zenon
<1>2. ASSUME NEW n \in 1..m, n - 1 \in Good PROVE n \in Good
  <2>1. PICK e : e = g[n - 1]
    OBVIOUS
  <2>2. e \in Seq(T) /\ g[n] = IF t[n] \in T THEN Append(e, t[n]) ELSE e
    BY <1>0, <1>2, <2>1
  <2>3. g[n] \in Seq(T)
    BY <2>2
  <2> QED
    BY <2>3
<1>3. Good = 0..m
  <2> HIDE DEF Good
  <2>1. Good \in SUBSET (0..m)
    BY DEF Good
  <2> QED
    BY <1>1, <1>2, <2>1, LeastLine
<1> QED
  BY <1>3

(* The continuity records are a sequence, and one more record of the chain *)
(* is one more of them if it is one.                                       *)
LEMMA OwnAppended ==
    ASSUME NEW c, IsSeq(c), NEW e
    PROVE  /\ IsSeq(OwnOf(c))
           /\ OwnOf(Append(c, e)) = IF e.organ = "smriti" THEN Append(OwnOf(c), e) ELSE OwnOf(c)
<1>1. PICK u : u = Append(c, e)
  OBVIOUS
<1>2. /\ Len(c) \in Nat /\ Len(u) = Len(c) + 1 /\ u[Len(c) + 1] = e
      /\ \A i \in 1..Len(c) : u[i] = c[i]
  BY <1>1, SeqAppended
<1>3. PICK T : T = {x \in {u[i] : i \in 1..Len(u)} : x.organ = "smriti"}
  OBVIOUS
<1>4. \A i \in 1..Len(u) : u[i] \in T <=> u[i].organ = "smriti"
  BY <1>3
<1>5. \A i \in 1..Len(c) : c[i] \in T <=> c[i].organ = "smriti"
  BY <1>2, <1>4
<1>6. PICK g : IsKept(T, g, c, Len(c)) /\ OwnOf(c) = g[Len(c)]
  BY <1>2, <1>5, OwnIsKept
<1>7. PICK h : IsKept(T, h, u, Len(u)) /\ OwnOf(u) = h[Len(u)]
  <2>1. Len(u) \in Nat
    BY <1>2
  <2> QED
    BY ONLY <1>4, <2>1, OwnIsKept, Zenon
<1>8. PICK m : m = Len(c)
  OBVIOUS
<1>9. /\ m \in Nat /\ m + 1 \in Nat /\ IsKept(T, g, c, m) /\ IsKept(T, h, u, m + 1)
      /\ m \in 0..m /\ m <= m + 1 /\ \A i \in 1..m : c[i] = u[i]
  BY <1>2, <1>6, <1>7, <1>8
<1>10. g[m] = h[m]
  BY <1>9, KeptAgrees
<1>11. \A n \in 1..(m + 1) : h[n] = IF u[n] \in T THEN Append(h[n - 1], u[n]) ELSE h[n - 1]
  BY <1>9, KeptStep
<1>12. m + 1 \in 1..(m + 1) /\ m + 1 - 1 = m
  BY <1>9
<1>13. h[m + 1] = IF e \in T THEN Append(h[m], e) ELSE h[m]
  BY <1>2, <1>8, <1>11, <1>12
<1>14. e \in T <=> e.organ = "smriti"
  BY <1>2, <1>4
<1>15. g[m] \in Seq(T)
  BY <1>9, KeptIsSeq
<1> QED
  BY <1>1, <1>2, <1>6, <1>7, <1>8, <1>10, <1>13, <1>14, <1>15, SeqOfIsSeq

(* The front of a longer log.                                              *)
LEMMA FrontSame ==
    ASSUME NEW s, IsSeq(s), NEW e, NEW i \in 1..Len(s)
    PROVE  SubSeq(Append(s, e), 1, i) = SubSeq(s, 1, i) /\ Append(s, e)[i] = s[i]
<1> DEFINE S == {s[j] : j \in DOMAIN s} \union {e}
<1>1. s \in Seq(S) /\ e \in S
  <2> DEFINE R == {s[j] : j \in DOMAIN s}
  <2>1. s \in Seq(R)
    BY DEF IsSeq
  <2> HIDE DEF R
  <2>2. s \in Seq(R \union {e}) /\ e \in R \union {e}
    BY <2>1
  <2> QED
    BY <2>2 DEF R
<1> HIDE DEF S
<1>2. Append(s, e) \in Seq(S) /\ Len(Append(s, e)) = Len(s) + 1 /\ Len(s) \in Nat
      /\ \A j \in 1..Len(s) : Append(s, e)[j] = s[j]
  BY <1>1
<1>3. PICK t : t = Append(s, e)
  OBVIOUS
<1>4. SubSeq(t, 1, i) = [j \in 1..i |-> t[j]] /\ SubSeq(s, 1, i) = [j \in 1..i |-> s[j]]
  BY <1>1, <1>2, <1>3
<1>5. \A j \in 1..i : t[j] = s[j]
  BY <1>2, <1>3
<1> QED
  BY <1>3, <1>4, <1>5

(* Records bound to a log stay bound to a longer one.                      *)
LEMMA BoundLonger ==
    ASSUME NEW log, IsSeq(log), NEW recs, IsSeq(recs), Len(recs) <= Len(log), NEW op
    PROVE  Bound(Append(log, op), recs) <=> Bound(log, recs)
<1>1. ASSUME NEW i \in 1..Len(recs)
      PROVE  SubSeq(Append(log, op), 1, i) = SubSeq(log, 1, i) /\ Append(log, op)[i] = log[i]
  <2>1. i \in 1..Len(log)
    BY SeqIs
  <2> QED
    BY <2>1, FrontSame
<1> QED
  BY <1>1 DEF Bound

(* A step that neither starts, journals nor witnesses an operation.        *)
LEMMA StillHonest ==
    ASSUME HonestInv, ~InFlight, call'.pc \notin {"applied", "journaled"},
           UNCHANGED <<events, journal>>, OwnOf(chain') = OwnOf(chain),
           faults'.torn = {} => faults.torn = {}
    PROVE  HonestInv'
<1>1. IsSeq(events')
  BY DEF HonestInv
<1>2. ASSUME faults'.torn = {} PROVE Untorn'
  <2>1. Untorn
    BY <1>2 DEF HonestInv
  <2>2. call.pc # "applied" /\ call'.pc # "applied" /\ ~(InFlight')
    BY DEF InFlight
  <2>3. events = journal /\ Len(events) = Len(OwnOf(chain)) + 0 /\ Bound(events, OwnOf(chain))
    BY <2>1, <2>2 DEF Untorn
  <2>4. /\ events' = journal' /\ Len(events') = Len(OwnOf(chain')) + 0
        /\ Bound(events', OwnOf(chain'))
    BY <2>3
  <2> QED
    BY <2>2, <2>4 DEF Untorn
<1> QED
  BY <1>1, <1>2 DEF HonestInv

(* An operation that a fault tears from its record is remembered as torn.  *)
LEMMA TornIsKept ==
    ASSUME MemInv, IOFails \/ Crash, faults'.torn = {}
    PROVE  /\ faults.torn = {}
           /\ IOFails => call.pc = "mutated"
           /\ Crash => call.pc # "journaled"
<1>1. FaultsOK
  BY DEF MemInv
<1>2. CASE IOFails
  <2> DEFINE op == IF call.pc = "mutated" THEN {} ELSE {call.op}
  <2>1. PICK gone : faults' = [faults EXCEPT !.n = @ + 1, !.torn = @ \union op,
                                             !.lost = @ \union gone]
    BY <1>2, Zenon DEF IOFails
  <2> HIDE DEF op
  <2>2. faults' = [n |-> faults.n + 1, torn |-> faults.torn \union op,
                   lost |-> faults.lost \union gone, phantom |-> faults.phantom]
    BY <1>1, <2>1 DEF FaultsOK
  <2>3. faults.torn = {} /\ op = {}
    BY <2>2
  <2>4. call.pc = "mutated"
    BY <2>3 DEF op
  <2> QED
    BY <2>3, <2>4 DEF Crash, IOFails
<1>3. CASE Crash
  <2> DEFINE torn == IF call.pc = "journaled" THEN {call.op} ELSE {}
             phantom == IF call.pc = "witnessed" THEN {Len(chain)} ELSE {}
  <2>1. faults' = [faults EXCEPT !.n = @ + 1, !.torn = @ \union torn,
                                 !.phantom = @ \union phantom]
    BY <1>3, Zenon DEF Crash
  <2> HIDE DEF torn, phantom
  <2>2. faults' = [n |-> faults.n + 1, torn |-> faults.torn \union torn, lost |-> faults.lost,
                   phantom |-> faults.phantom \union phantom]
    BY <1>1, <2>1 DEF FaultsOK
  <2>3. faults.torn = {} /\ torn = {}
    BY <2>2
  <2>4. call.pc # "journaled"
    BY <2>3 DEF torn
  <2>5. IOFails => call.pc = "mutated"
    <3>1. ASSUME IOFails PROVE call.pc = "mutated"
      BY <1>2, <3>1
    <3> QED
      BY <3>1
  <2> QED
    BY <2>3, <2>4, <2>5
<1> QED
  BY <1>2, <1>3

(* _emit, first step: the log is one operation ahead of both.              *)
LEMMA StartHonest ==
    ASSUME HonestInv, MemInv, ~InFlight, NEW op, call' = [pc |-> "applied", op |-> op],
           events' = Append(events, op), UNCHANGED <<journal, chain, faults>>
    PROVE  HonestInv'
<1>1. IsSeq(events) /\ IsSeq(events') /\ Len(events') = Len(events) + 1 /\ Len(events) \in Nat
      /\ events'[Len(events')] = op
  BY SeqAppended DEF HonestInv
<1>2. call'.pc = "applied" /\ call'.op = op /\ InFlight' /\ call.pc # "applied"
  BY DEF InFlight
<1>3. ASSUME faults'.torn = {} PROVE Untorn'
  <2>1. Untorn
    BY <1>3 DEF HonestInv
  <2>2. events = journal /\ Len(events) = Len(OwnOf(chain)) + 0 /\ Bound(events, OwnOf(chain))
    BY <1>2, <2>1 DEF Untorn
  <2>3. IsSeq(OwnOf(chain)) /\ Len(OwnOf(chain)) \in Nat
    BY OwnAppended, SeqIs DEF MemInv, ChainOK
  <2>4. Len(OwnOf(chain)) = Len(events)
    BY <2>2, <2>3
  <2>5. Bound(Append(events, op), OwnOf(chain))
    BY <1>1, <2>2, <2>3, <2>4, BoundLonger
  <2>6. events' = Append(journal', call'.op) /\ Len(events') = Len(OwnOf(chain')) + 1
        /\ Bound(events', OwnOf(chain'))
    BY <1>1, <1>2, <2>2, <2>4, <2>5
  <2> QED
    BY <1>1, <1>2, <2>6 DEF Untorn
<1> QED
  BY <1>1, <1>3 DEF HonestInv

(* The journal holds the operation: it has caught up with the log.         *)
LEMMA JournalHonest == ASSUME HonestInv, MemInv, EmitJournal PROVE HonestInv'
<1>1. /\ call.pc = "applied" /\ call' = [call EXCEPT !.pc = "journaled"]
      /\ journal' = Append(journal, call.op) /\ UNCHANGED <<events, chain, faults>>
  BY DEF EmitJournal
<1>2. call = [pc |-> call.pc, op |-> call.op]
  BY <1>1 DEF MemInv, CallOK
<1>3. call'.pc = "journaled" /\ call'.op = call.op /\ InFlight /\ InFlight'
  BY <1>1, <1>2 DEF InFlight
<1>4. ASSUME faults'.torn = {} PROVE Untorn'
  <2>1. Untorn
    BY <1>1, <1>4 DEF HonestInv
  <2>2. /\ events = Append(journal, call.op) /\ Len(events) = Len(OwnOf(chain)) + 1
        /\ events[Len(events)] = call.op /\ Bound(events, OwnOf(chain))
    BY <1>1, <1>3, <2>1 DEF Untorn
  <2>3. /\ events' = journal' /\ Len(events') = Len(OwnOf(chain')) + 1
        /\ events'[Len(events')] = call'.op /\ Bound(events', OwnOf(chain'))
    BY <1>1, <1>3, <2>2
  <2> QED
    BY <1>3, <2>3 DEF Untorn
<1> QED
  BY <1>1, <1>4 DEF HonestInv

(* The record says the operation and the state after it: the whole log is  *)
(* bound.                                                                  *)
LEMMA WitnessHonest == ASSUME HonestInv, MemInv, EmitWitness PROVE HonestInv'
<1> DEFINE rec == [organ |-> "smriti", digest |-> MemoryDigest(call.op)]
<1>1. /\ call.pc = "journaled" /\ call' = Idle /\ chain' = Append(chain, rec)
      /\ UNCHANGED <<events, journal, faults>>
  BY DEF EmitWitness
<1>2. call'.pc = "idle" /\ InFlight /\ ~(InFlight')
  BY <1>1 DEF Idle, InFlight
<1>3. rec.organ = "smriti" /\ rec.digest = [op |-> call.op, state |-> State(events)]
  BY DEF MemoryDigest, StateHash
<1> HIDE DEF rec
<1>4. PICK own : own = OwnOf(chain)
  OBVIOUS
<1>5. IsSeq(own) /\ OwnOf(chain') = Append(own, rec)
  BY <1>1, <1>3, <1>4, OwnAppended DEF MemInv, ChainOK
<1>6. PICK new : new = Append(own, rec)
  OBVIOUS
<1>7. /\ Len(own) \in Nat /\ Len(new) = Len(own) + 1 /\ new[Len(own) + 1] = rec
      /\ \A i \in 1..Len(own) : new[i] = own[i]
  BY <1>5, <1>6, SeqAppended
<1>8. ASSUME faults'.torn = {} PROVE Untorn'
  <2>1. Untorn
    BY <1>1, <1>8 DEF HonestInv
  <2>2. /\ events = journal /\ Len(events) = Len(own) + 1
        /\ events[Len(events)] = call.op /\ Bound(events, own)
    BY <1>1, <1>2, <1>4, <2>1 DEF Untorn
  <2>3. SubSeq(events, 1, Len(events)) = events
    BY DEF HonestInv, IsSeq
  <2>4. Bound(events, new)
    <3>1. SUFFICES ASSUME NEW i \in 1..Len(new)
                   PROVE  /\ new[i].organ = "smriti"
                          /\ new[i].digest = [op |-> events[i],
                                              state |-> State(SubSeq(events, 1, i))]
      BY DEF Bound
    <3>2. CASE i \in 1..Len(own)
      BY <1>7, <2>2, <3>2 DEF Bound
    <3>3. CASE i \notin 1..Len(own)
      <4>1. i = Len(events) /\ i = Len(own) + 1
        BY <1>7, <2>2, <3>3
      <4>2. new[i] = rec /\ SubSeq(events, 1, i) = events /\ events[i] = call.op
        BY <1>7, <2>2, <2>3, <4>1
      <4> QED
        BY <1>3, <4>2
    <3> QED
      BY <3>2, <3>3
  <2>5. /\ events' = journal' /\ Len(events') = Len(OwnOf(chain')) + 0
        /\ Bound(events', OwnOf(chain'))
    BY <1>1, <1>5, <1>6, <1>7, <2>2, <2>4
  <2> QED
    BY <1>2, <2>5 DEF Untorn
<1> QED
  BY <1>1, <1>8 DEF HonestInv

(* A process that dies before the journal knows of the operation forgets   *)
(* it, and what it remembers is bound.                                     *)
LEMMA CrashHonest == ASSUME HonestInv, MemInv, Crash PROVE HonestInv'
<1>1. call' = Idle /\ events' = journal /\ UNCHANGED <<journal, chain>>
  BY DEF Crash, Raise
<1>2. IsSeq(journal) /\ call'.pc = "idle" /\ ~(InFlight')
  BY <1>1 DEF MemInv, Idle, InFlight
<1>3. ASSUME faults'.torn = {} PROVE Untorn'
  <2>1. faults.torn = {} /\ call.pc # "journaled"
    BY <1>3, TornIsKept
  <2>2. Untorn
    BY <2>1 DEF HonestInv
  <2>3. IsSeq(OwnOf(chain)) /\ Len(OwnOf(chain)) \in Nat
    BY OwnAppended, SeqIs DEF MemInv, ChainOK
  <2>4. Len(journal) = Len(OwnOf(chain)) /\ Bound(journal, OwnOf(chain))
    <3>1. CASE call.pc = "applied"
      <4>1. /\ events = Append(journal, call.op) /\ Len(events) = Len(OwnOf(chain)) + 1
            /\ Bound(Append(journal, call.op), OwnOf(chain))
        BY <2>2, <3>1 DEF Untorn, InFlight
      <4>2. Len(journal) \in Nat /\ Len(Append(journal, call.op)) = Len(journal) + 1
        BY <1>2, SeqAppended
      <4>3. Len(journal) = Len(OwnOf(chain))
        BY <2>3, <4>1, <4>2
      <4> QED
        BY <1>2, <2>3, <4>1, <4>3, BoundLonger
    <3>2. CASE call.pc # "applied"
      <4>1. events = journal /\ Len(events) = Len(OwnOf(chain)) + 0 /\ Bound(events, OwnOf(chain))
        BY <2>1, <2>2, <3>2 DEF Untorn, InFlight
      <4> QED
        BY <2>3, <4>1
    <3> QED
      BY <3>1, <3>2
  <2>5. /\ events' = journal' /\ Len(events') = Len(OwnOf(chain')) + 0
        /\ Bound(events', OwnOf(chain'))
    BY <1>1, <2>3, <2>4
  <2> QED
    BY <1>2, <2>5 DEF Untorn
<1> QED
  BY <1>1, <1>2, <1>3 DEF HonestInv

(* Every step keeps it.                                                    *)
LEMMA HonestNext ==
    ASSUME HonestInv, MemInv, [MemoryNext]_vars
    PROVE  HonestInv'
<1>1. ASSUME ~InFlight, call'.pc \notin {"applied", "journaled"},
             UNCHANGED <<events, journal, chain>>, faults'.torn = {} => faults.torn = {}
      PROVE  HonestInv'
  BY <1>1, StillHonest
<1>2. CASE Ground("d") \/ RecordOutcome \/ Forget \/ LearnAnswer("d") \/ Operator
  <2>1. Quiet
    BY <1>2, QuietSteps
  <2>2. call.pc = "idle" /\ ~InFlight /\ UNCHANGED <<journal, chain, faults>>
    BY <2>1 DEF Quiet, InFlight
  <2>3. CASE Starts
    BY <2>2, <2>3, StartHonest DEF Starts
  <2>4. CASE Begins \/ UNCHANGED <<call, events>>
    <3>1. events' = events /\ call'.pc \notin {"applied", "journaled"}
      BY <2>2, <2>4 DEF Begins
    <3> QED
      BY <1>1, <2>2, <3>1
  <2> QED
    BY <2>1, <2>3, <2>4 DEF Quiet
<1>3. CASE EmitJournal
  BY <1>3, JournalHonest
<1>4. CASE EmitWitness
  BY <1>4, WitnessHonest
<1>5. CASE Mutate \/ Commit \/ Refuse
  <2>1. call.pc \in {"begun", "witnessed"} /\ UNCHANGED <<events, journal, chain, faults>>
    BY <1>5 DEF Mutate, Commit, Refuse
  <2>2. call'.pc \in {"mutated", "idle"}
    BY <1>5 DEF Mutate, Commit, Refuse, Raise, Idle
  <2> QED
    BY <1>1, <2>1, <2>2 DEF InFlight
<1>6. CASE WitnessLearn
  <2> DEFINE rec == [organ |-> "plane_h", digest |-> [op |-> call.env.op, chunk |-> call.chunk,
                                                      hash |-> call.env.hash]]
  <2>1. /\ call.pc = "mutated" /\ call' = [call EXCEPT !.pc = "witnessed"]
        /\ chain' = Append(chain, rec) /\ UNCHANGED <<events, journal, faults>>
    BY <1>6 DEF WitnessLearn
  <2>2. call'.pc = "witnessed"
    BY <2>1 DEF MemInv, CallOK
  <2>3. rec.organ # "smriti"
    OBVIOUS
  <2> HIDE DEF rec
  <2>4. OwnOf(chain') = OwnOf(chain)
    BY <2>1, <2>3, OwnAppended DEF MemInv, ChainOK
  <2> QED
    BY <2>1, <2>2, <2>4, StillHonest DEF InFlight
<1>7. CASE IOFails
  <2>1. call'.pc = "idle" /\ UNCHANGED <<events, chain>>
    BY <1>7 DEF IOFails, Raise, Idle
  <2>2. CASE faults'.torn = {}
    <3>1. faults.torn = {} /\ call.pc = "mutated"
      BY <1>7, <2>2, TornIsKept
    <3>2. journal' = journal
      BY <1>7, <3>1 DEF IOFails
    <3> QED
      BY <1>1, <2>1, <3>1, <3>2 DEF InFlight
  <2>3. CASE faults'.torn # {}
    BY <2>1, <2>3 DEF HonestInv
  <2> QED
    BY <2>2, <2>3
<1>8. CASE Crash
  BY <1>8, CrashHonest
<1>9. CASE UNCHANGED vars
  <2>1. UNCHANGED <<events, journal, chain, call, faults>>
    BY <1>9 DEF vars
  <2> QED
    BY <2>1 DEF HonestInv, Untorn, InFlight, Bound
<1> QED
  BY <1>2, <1>3, <1>4, <1>5, <1>6, <1>7, <1>8, <1>9 DEF MemoryNext

(* A self that no fault tore between its journal and its witness can be    *)
(* carried to another host, whatever crashes hit it when nothing was in    *)
(* flight: import_portable replays its export, compares every operation    *)
(* and state with the Being's own records, and accepts                     *)
(* (kernel/smriti.py import_portable).                                     *)
THEOREM SelvesAlwaysImport == MemorySpec => []HonestSelfImports
<1>1. MemoryInit => MemInv /\ HonestInv
  <2>1. ASSUME MemoryInit PROVE HonestInv
    <3>1. /\ events = <<>> /\ journal = <<>> /\ chain = <<>> /\ call = Idle
      BY <2>1 DEF MemoryInit
    <3>2. Len(<<>>) = 0 /\ <<>> \in Seq({})
      OBVIOUS
    <3>3. IsSeq(events)
      BY <3>1, <3>2, SeqOfIsSeq
    <3>4. \A i \in 1..Len(chain) : chain[i] \in {} <=> chain[i].organ = "smriti"
      BY <3>1, <3>2
    <3>5. PICK g : IsKept({}, g, chain, 0) /\ OwnOf(chain) = g[0]
      BY <3>1, <3>2, <3>4, OwnIsKept
    <3>6. OwnOf(chain) = <<>>
      BY <3>5, KeptStep
    <3>7. /\ events = journal /\ Len(events) = Len(OwnOf(chain)) + 0
          /\ Len(OwnOf(chain)) = 0
      BY <3>1, <3>2, <3>6
    <3>8. call.pc = "idle"
      BY <3>1 DEF Idle
    <3> QED
      BY <3>3, <3>7, <3>8 DEF HonestInv, Untorn, Bound, InFlight
  <2> QED
    BY <2>1, MemInit
<1>2. MemInv /\ HonestInv /\ [MemoryNext]_vars => MemInv' /\ HonestInv'
  BY MemNext, HonestNext
<1>3. HonestInv => HonestSelfImports
  <2>1. ASSUME HonestInv, call.pc = "idle", faults.torn = {} PROVE ImportAccepts
    <3>1. /\ Len(events) = Len(OwnOf(chain)) + 0 /\ Bound(events, OwnOf(chain))
      BY <2>1 DEF HonestInv, Untorn, InFlight
    <3>2. OwnRecords = OwnOf(chain)
      BY DEF OwnRecords, OwnOf
    <3> QED
      BY <3>1, <3>2 DEF ImportAccepts, Binds, Bound
  <2> QED
    BY <2>1 DEF HonestSelfImports
<1> QED
  BY <1>1, <1>2, <1>3, PTL DEF MemorySpec

----------------------------------------------------------------------------
(* DurableJournal and WitnessChain.                                        *)

(* What a file is made of.                                                 *)
Token == Record \union {NL, Frag, BadFrag}

(* r stands on a complete line within the first n tokens of s.             *)
OnLine(s, n, r) == \E p \in 1..Len(s) : p < Len(s) /\ p < n /\ s[p] = r /\ s[p + 1] = NL

Absent(s, r) == \A i \in 1..Len(s) : s[i] # r
Distinct(s) == \A i, j \in 1..Len(s) : s[i] = s[j] => i = j

(* The append in progress has one record, written nowhere before its turn. *)
CallInv ==
    /\ up # "up" => pc = "idle"
    /\ pc = "idle" => cur = {}
    /\ pc # "idle" => \E r \in Record : cur = {r}
    /\ \A r \in cur : /\ Absent(mem, r)
                      /\ pc = "opened" => Absent(file, r)
                      /\ pc = "written" => OnLine(file, Len(file), r)
                      /\ pc = "synced" => OnLine(file, dlen, r)

(* A record reaches the file and the memory once.                          *)
Once(s, u) ==
    /\ \A i \in 1..Len(s) : s[i] \in Record => s[i] \in u
    /\ \A i, j \in 1..Len(s) : s[i] \in Record /\ s[i] = s[j] => i = j
OnceInv ==
    /\ Once(file, used)
    /\ \A i \in 1..Len(mem) : mem[i] \in used
    /\ Distinct(mem)

(* What was acknowledged is a complete line on the device.                 *)
DeviceInv ==
    /\ \A r \in returned \ lost : OnLine(file, dlen, r)
    /\ up = "up" => \A r \in returned \ lost : \E i \in 1..Len(mem) : mem[i] = r

(* The entry of the file is forced before the first append returns.        *)
EntryInv ==
    /\ lost # {} => kills + ioErrors > 0
    /\ kills + ioErrors = 0 =>
          /\ entry # "durable" => returned = {}
          /\ entry = "volatile" => pc # "idle" /\ isNew
          /\ pc # "idle" /\ ~isNew => entry = "durable"

JournalInv == TypeOK /\ CallInv /\ OnceInv /\ DeviceInv /\ EntryInv

(* What crashes leave when writes are cut inside a record.                 *)
Shape(s) ==
    \A i \in 1..Len(s) :
        /\ s[i] \in Record => i < Len(s) /\ s[i + 1] = NL /\ (i = 1 \/ s[i - 1] = NL)
        /\ s[i] \in {Frag, BadFrag} => s[i] = Frag /\ i = Len(s)
Ended(s) == s = <<>> \/ s[Len(s)] = NL
ShapeInv == CutInside => /\ up # "refused"
                         /\ Shape(file)
                         /\ up = "up" => Ended(file)

Chained(b, e) ==
    \A k \in 1..Len(e) : /\ b[e[k]].index = k - 1
                         /\ b[e[k]].prev = IF k = 1 THEN GENESIS ELSE e[k - 1]
ChainInv ==
    ioErrors = 0 =>
        /\ Chained(body, Records(file))
        /\ up = "up" /\ pc \in {"idle", "opened"} => mem = Records(file)
        /\ up = "up" /\ pc \in {"written", "synced"} =>
              \A r \in cur : Records(file) = Append(mem, r)
        /\ \A r \in cur : body[r].index = NextIndex /\ body[r].prev = HeadHash

WInv == JournalInv /\ ChainTypeOK /\ ShapeInv /\ ChainInv

(***************************************************************************)
(* The records of a file, as the reader collects them.                     *)
(***************************************************************************)

(* The records read are what the loop kept after the last line.            *)
LEMMA RecordsKept ==
    ASSUME NEW t, Len(t) \in Nat
    PROVE  \E g : IsKept(Record, g, t, Len(t)) /\ Records(t) = g[Len(t)]
<1>1. PICK g : IsKept(Record, g, t, Len(t))
    BY KeptExists
<1> DEFINE k == CHOOSE f : IsKept(Record, f, t, Len(t))
<1>2. IsKept(Record, k, t, Len(t))
    BY <1>1
<1>3. Records(t) = k[Len(t)]
    BY DEF Records, IsKept
<1> QED
    BY <1>2, <1>3


(* The records kept are records of the file, none is left out, and a file  *)
(* that tells each record once is read as telling it once.                 *)
LEMMA KeptContent ==
    ASSUME NEW t, NEW m \in Nat, NEW g, IsKept(Record, g, t, m)
    PROVE  \A n \in 0..m :
              /\ g[n] \in Seq(Record)
              /\ \A k \in 1..Len(g[n]) : \E i \in 1..n : g[n][k] = t[i]
              /\ \A i \in 1..n : t[i] \in Record => \E k \in 1..Len(g[n]) : g[n][k] = t[i]
              /\ (\A i, j \in 1..n : t[i] \in Record /\ t[i] = t[j] => i = j) => Distinct(g[n])
<1> DEFINE P(n) == /\ g[n] \in Seq(Record)
                   /\ \A k \in 1..Len(g[n]) : \E i \in 1..n : g[n][k] = t[i]
                   /\ \A i \in 1..n : t[i] \in Record => \E k \in 1..Len(g[n]) : g[n][k] = t[i]
                   /\ (\A i, j \in 1..n : t[i] \in Record /\ t[i] = t[j] => i = j)
                      => Distinct(g[n])
       Good == {n \in 0..m : P(n)}
<1>0. /\ g[0] = <<>>
      /\ \A n \in 1..m : g[n] = IF t[n] \in Record THEN Append(g[n - 1], t[n]) ELSE g[n - 1]
    BY KeptStep
<1>1. 0 \in Good
    <2>1. g[0] \in Seq(Record) /\ Len(g[0]) = 0
        BY <1>0
    <2>2. P(0)
        BY <2>1 DEF Distinct
    <2> QED
        BY <2>2
<1>2. ASSUME NEW n \in 1..m, n - 1 \in Good PROVE n \in Good
    <2>1. P(n - 1) /\ n - 1 \in Nat /\ n \in Nat
        BY <1>2
    <2>2. CASE t[n] \in Record
        <3>1. g[n] = Append(g[n - 1], t[n])
            BY <1>0, <2>2
        <3>2. PICK e : e = g[n - 1]
            OBVIOUS
        <3>3. /\ e \in Seq(Record) /\ g[n] = Append(e, t[n]) /\ Len(g[n]) = Len(e) + 1
              /\ g[n] \in Seq(Record) /\ g[n][Len(e) + 1] = t[n]
              /\ \A k \in 1..Len(e) : g[n][k] = e[k]
            BY <3>1, <3>2, <2>1, <2>2
        <3>4. \A k \in 1..Len(g[n]) : \E i \in 1..n : g[n][k] = t[i]
            <4>1. ASSUME NEW k \in 1..Len(g[n]) PROVE \E i \in 1..n : g[n][k] = t[i]
                <5>1. CASE k = Len(e) + 1
                    BY <5>1, <3>3
                <5>2. CASE k # Len(e) + 1
                    <6>1. k \in 1..Len(e)
                        BY <5>2, <3>3
                    <6>2. PICK i \in 1..(n - 1) : e[k] = t[i]
                        BY <6>1, <3>2, <2>1
                    <6> QED
                        BY <6>1, <6>2, <3>3
                <5> QED
                    BY <5>1, <5>2
            <4> QED
                BY <4>1
        <3>5. \A i \in 1..n : t[i] \in Record => \E k \in 1..Len(g[n]) : g[n][k] = t[i]
            <4>1. ASSUME NEW i \in 1..n, t[i] \in Record
                  PROVE  \E k \in 1..Len(g[n]) : g[n][k] = t[i]
                <5>1. CASE i = n
                    BY <5>1, <3>3
                <5>2. CASE i # n
                    <6>1. i \in 1..(n - 1)
                        BY <5>2
                    <6>2. PICK k \in 1..Len(e) : e[k] = t[i]
                        BY <6>1, <4>1, <3>2, <2>1
                    <6> QED
                        BY <6>2, <3>3
                <5> QED
                    BY <5>1, <5>2
            <4> QED
                BY <4>1
        <3>6. ASSUME \A i, j \in 1..n : t[i] \in Record /\ t[i] = t[j] => i = j
              PROVE  Distinct(g[n])
            <4>1. Distinct(e)
                BY <3>6, <3>2, <2>1
            <4>2. \A k \in 1..Len(e) : e[k] # t[n]
                <5>1. SUFFICES ASSUME NEW k \in 1..Len(e), e[k] = t[n] PROVE FALSE
                    OBVIOUS
                <5>2. PICK i \in 1..(n - 1) : e[k] = t[i]
                    BY <3>2, <2>1
                <5>3. i \in 1..n /\ n \in 1..n /\ i # n
                    BY <2>1
                <5> QED
                    BY <5>1, <5>2, <5>3, <3>6, <2>2
            <4> QED
                BY <4>1, <4>2, <3>3 DEF Distinct
        <3>7. n \in 0..m /\ g[n] \in Seq(Record)
            BY <3>3
        <3> QED
            BY <3>4, <3>5, <3>6, <3>7, Zenon
    <2>3. CASE t[n] \notin Record
        <3>1. g[n] = g[n - 1]
            BY <1>0, <2>3
        <3>2. \A k \in 1..Len(g[n]) : \E i \in 1..n : g[n][k] = t[i]
            <4>1. \A i \in 1..(n - 1) : i \in 1..n
                BY <2>1
            <4> QED
                BY <4>1, <3>1, <2>1
        <3>3. \A i \in 1..n : t[i] \in Record => i \in 1..(n - 1)
            BY <2>1, <2>3
        <3>4. \A i \in 1..n : t[i] \in Record => \E k \in 1..Len(g[n]) : g[n][k] = t[i]
            BY <3>1, <3>3, <2>1
        <3>5. (\A i, j \in 1..n : t[i] \in Record /\ t[i] = t[j] => i = j) => Distinct(g[n])
            <4>1. \A i \in 1..(n - 1) : i \in 1..n
                BY <2>1
            <4> QED
                BY <4>1, <3>1, <2>1
        <3>6. n \in 0..m /\ g[n] \in Seq(Record)
            BY <3>1, <2>1
        <3> QED
            BY <3>2, <3>4, <3>5, <3>6, Zenon
    <2> QED
        BY <2>2, <2>3
<1>3. Good = 0..m
    <2> HIDE DEF Good
    <2>1. Good \in SUBSET (0..m)
        BY DEF Good
    <2> QED
        BY <1>1, <1>2, <2>1, LeastLine
<1> QED
    BY <1>3


Continues(f, d) == Len(d) <= Len(f) /\ \A k \in 1..Len(d) : f[k] = d[k]

(* Later lines only add to what was kept before them.                      *)
LEMMA KeptGrows ==
    ASSUME NEW t, NEW m \in Nat, NEW g, IsKept(Record, g, t, m), NEW n \in 0..m
    PROVE  Continues(g[m], g[n])
<1> DEFINE P(q) == Continues(g[q], g[n])
       Good == {q \in 0..m : n <= q => P(q)}
<1>0. \A q \in 0..m : g[q] \in Seq(Record)
    BY KeptContent
<1>1. 0 \in Good
    <2>1. n <= 0 => n = 0
        OBVIOUS
    <2>2. n = 0 => P(0)
        BY <1>0 DEF Continues
    <2> QED
        BY <2>1, <2>2
<1>2. ASSUME NEW q \in 1..m, q - 1 \in Good PROVE q \in Good
    <2>1. SUFFICES ASSUME n <= q PROVE P(q)
        OBVIOUS
    <2>2. CASE n = q
        BY <2>2, <1>0 DEF Continues
    <2>3. CASE n # q
        <3>1. P(q - 1)
            BY <1>2, <2>1, <2>3
        <3>2. PICK e : e = g[q - 1]
            OBVIOUS
        <3>3. PICK f : f = g[q]
            OBVIOUS
        <3>4. PICK d : d = g[n]
            OBVIOUS
        <3>5. f = IF t[q] \in Record THEN Append(e, t[q]) ELSE e
            BY <3>2, <3>3, KeptStep
        <3>6. e \in Seq(Record) /\ d \in Seq(Record)
            BY <1>0, <3>2, <3>4
        <3>7. Continues(e, d)
            BY <3>1, <3>2, <3>4
        <3>8. Continues(f, d)
            BY <3>5, <3>6, <3>7 DEF Continues
        <3> QED
            BY <3>8, <3>3, <3>4
    <2> QED
        BY <2>2, <2>3
<1>3. Good = 0..m
    <2> HIDE DEF Good
    <2>1. Good \in SUBSET (0..m)
        BY DEF Good
    <2> QED
        BY <1>1, <1>2, <2>1, LeastLine
<1>4. m \in 0..m /\ n <= m
    OBVIOUS
<1> QED
    BY <1>3, <1>4

(* A reader exposes records of the file, all of them, each once if the     *)
(* file tells each once.                                                   *)
LEMMA RecordsContent ==
    ASSUME NEW t \in Seq(Token)
    PROVE  /\ Records(t) \in Seq(Record)
           /\ \A k \in 1..Len(Records(t)) : \E i \in 1..Len(t) : Records(t)[k] = t[i]
           /\ \A i \in 1..Len(t) :
                 t[i] \in Record => \E k \in 1..Len(Records(t)) : Records(t)[k] = t[i]
           /\ (\A i, j \in 1..Len(t) : t[i] \in Record /\ t[i] = t[j] => i = j)
              => Distinct(Records(t))
<1>1. Len(t) \in Nat
    OBVIOUS
<1>2. PICK g : IsKept(Record, g, t, Len(t)) /\ Records(t) = g[Len(t)]
    BY <1>1, RecordsKept
<1>3. PICK m : m = Len(t)
    OBVIOUS
<1>4. m \in Nat /\ m \in 0..m /\ IsKept(Record, g, t, m) /\ Records(t) = g[m]
    BY <1>1, <1>2, <1>3
<1>5. /\ g[m] \in Seq(Record)
      /\ \A k \in 1..Len(g[m]) : \E i \in 1..m : g[m][k] = t[i]
      /\ \A i \in 1..m : t[i] \in Record => \E k \in 1..Len(g[m]) : g[m][k] = t[i]
      /\ (\A i, j \in 1..m : t[i] \in Record /\ t[i] = t[j] => i = j) => Distinct(g[m])
    BY ONLY <1>4, KeptContent, Zenon
<1> QED
    BY <1>3, <1>4, <1>5

(* The records of a prefix are a prefix of the records.                    *)
LEMMA RecordsOfPrefix ==
    ASSUME NEW t \in Seq(Token), NEW n \in 0..Len(t)
    PROVE  Continues(Records(t), Records(SubSeq(t, 1, n)))
<1>1. PICK u : u = SubSeq(t, 1, n)
    OBVIOUS
<1>2. u \in Seq(Token) /\ Len(u) = n /\ (\A i \in 1..n : u[i] = t[i]) /\ Len(t) \in Nat
    BY <1>1
<1>3. PICK g : IsKept(Record, g, t, Len(t)) /\ Records(t) = g[Len(t)]
    BY <1>2, RecordsKept
<1>4. PICK h : IsKept(Record, h, u, n) /\ Records(u) = h[n]
    BY <1>2, RecordsKept
<1>5. g[n] = h[n]
    BY <1>2, <1>3, <1>4, KeptAgrees
<1>6. Continues(g[Len(t)], g[n])
    BY <1>2, <1>3, KeptGrows
<1> QED
    BY <1>1, <1>3, <1>4, <1>5, <1>6

(* One more token adds its record, if it is one.                           *)
LEMMA RecordsOfAppend ==
    ASSUME NEW t \in Seq(Token), NEW x \in Token
    PROVE  Records(Append(t, x)) = IF x \in Record THEN Append(Records(t), x) ELSE Records(t)
<1>1. PICK u : u = Append(t, x)
    OBVIOUS
<1>2. /\ u \in Seq(Token) /\ Len(t) \in Nat /\ Len(u) = Len(t) + 1 /\ u[Len(t) + 1] = x
      /\ \A i \in 1..Len(t) : u[i] = t[i]
    BY <1>1
<1>3. PICK g : IsKept(Record, g, t, Len(t)) /\ Records(t) = g[Len(t)]
    BY <1>2, RecordsKept
<1>4. PICK h : IsKept(Record, h, u, Len(u)) /\ Records(u) = h[Len(u)]
    BY <1>2, RecordsKept
<1>5. Len(t) \in 0..Len(t) /\ Len(t) <= Len(u) /\ Len(u) \in 1..Len(u) /\ Len(u) \in Nat
    BY <1>2
<1>6. g[Len(t)] = h[Len(t)]
    <2>1. \A i \in 1..Len(t) : t[i] = u[i]
        BY <1>2
    <2>2. PICK m : m = Len(t)
        OBVIOUS
    <2>3. PICK l : l = Len(u)
        OBVIOUS
    <2>4. /\ m \in Nat /\ l \in Nat /\ IsKept(Record, g, t, m) /\ IsKept(Record, h, u, l)
          /\ m \in 0..m /\ m <= l /\ \A i \in 1..m : t[i] = u[i]
        BY <2>1, <2>2, <2>3, <1>2, <1>3, <1>4, <1>5
    <2>5. g[m] = h[m]
        BY <2>4, KeptAgrees
    <2> QED
        BY <2>2, <2>5
<1>7. h[Len(u)] = IF u[Len(u)] \in Record THEN Append(h[Len(u) - 1], u[Len(u)])
                  ELSE h[Len(u) - 1]
    <2>1. PICK l : l = Len(u)
        OBVIOUS
    <2>2. l \in Nat /\ l \in 1..l /\ IsKept(Record, h, u, l)
        BY <1>4, <1>5, <2>1
    <2>3. \A n \in 1..l : h[n] = IF u[n] \in Record THEN Append(h[n - 1], u[n]) ELSE h[n - 1]
        BY ONLY <2>2, KeptStep
    <2> QED
        BY <2>1, <2>2, <2>3
<1>8. Len(u) - 1 = Len(t) /\ u[Len(u)] = x
    BY <1>2
<1> QED
    BY <1>1, <1>3, <1>4, <1>6, <1>7, <1>8

(* An empty file has no records.                                           *)
LEMMA RecordsOfNothing == Records(<<>>) = <<>>
<1>1. Len(<<>>) = 0
    OBVIOUS
<1>2. PICK g : IsKept(Record, g, <<>>, 0) /\ Records(<<>>) = g[0]
    BY <1>1, RecordsKept
<1> QED
    BY <1>2, KeptStep

(* A complete line adds its record.                                        *)
LEMMA RecordsOfLine ==
    ASSUME NEW t \in Seq(Token), NEW r \in Record
    PROVE  Records(t \o <<r, NL>>) = Append(Records(t), r)
<1>1. t \o <<r, NL>> = Append(Append(t, r), NL)
    BY DEF Token
<1>2. r \in Token /\ NL \in Token /\ Append(t, r) \in Seq(Token) /\ NL \notin Record
    BY JournalAssumption DEF Token
<1>3. Records(Append(t, r)) = Append(Records(t), r)
    BY <1>2, RecordsOfAppend
<1>4. Records(Append(Append(t, r), NL)) = Records(Append(t, r))
    BY <1>2, RecordsOfAppend
<1> QED
    BY <1>1, <1>3, <1>4


(***************************************************************************)
(* What reading, a write cut short and a power loss leave of a file.       *)
(***************************************************************************)

(* The reader drops at most a torn last line, and no newline is in it.     *)
LEMMA LinesReadCut ==
    ASSUME NEW t \in Seq(Token)
    PROVE  \E n \in 0..Len(t) :
              /\ LinesRead(t) = SubSeq(t, 1, n)
              /\ \A p \in 1..Len(t) : t[p] = NL => p <= n
              /\ TornTail(t) => n = 0 \/ t[n] = NL
              /\ ~TornTail(t) => n = Len(t) /\ LinesRead(t) = t
<1> DEFINE LastNL(m, n) == (n = 0 \/ t[n] = NL) /\ \A j \in (n + 1)..m : t[j] # NL
       Good == {m \in 0..Len(t) : \E n \in 0..m : LastNL(m, n)}
<1>0. Len(t) \in Nat
    OBVIOUS
<1>1. 0 \in Good
    <2>1. 0 \in 0..0 /\ LastNL(0, 0)
        OBVIOUS
    <2> QED
        BY <2>1, <1>0
<1>2. ASSUME NEW m \in 1..Len(t), m - 1 \in Good PROVE m \in Good
    <2>1. PICK n \in 0..(m - 1) : LastNL(m - 1, n)
        BY <1>2
    <2>2. CASE t[m] = NL
        <3>1. m \in 0..m /\ LastNL(m, m)
            BY <2>2
        <3> QED
            BY <3>1
    <2>3. CASE t[m] # NL
        <3>1. n \in 0..m /\ LastNL(m, n)
            BY <2>1, <2>3
        <3> QED
            BY <3>1
    <2> QED
        BY <2>2, <2>3
<1>3. Good = 0..Len(t)
    <2> HIDE DEF Good
    <2>1. Good \in SUBSET (0..Len(t))
        BY DEF Good
    <2> QED
        BY <1>0, <1>1, <1>2, <2>1, LeastLine
<1>4. Len(t) \in Good
    BY <1>0, <1>3
<1>5. PICK n \in 0..Len(t) : LastNL(Len(t), n)
    BY <1>4
<1> DEFINE C(k) == /\ k = 0 \/ t[k] = NL
                   /\ k < Len(t) => InTail(t, k + 1)
<1>6. C(n)
    BY <1>5 DEF InTail
<1>7. CASE TornTail(t)
    <2>1. PICK c : c = (CHOOSE k \in 0..Len(t) : C(k))
        OBVIOUS
    <2>2. c \in 0..Len(t) /\ C(c)
        BY <1>5, <1>6, <2>1
    <2>3. LinesRead(t) = SubSeq(t, 1, c)
        BY <1>7, <2>1 DEF LinesRead
    <2>4. \A p \in 1..Len(t) : t[p] = NL => p <= c
        BY <2>2 DEF InTail
    <2> QED
        BY <1>7, <2>2, <2>3, <2>4
<1>8. CASE ~TornTail(t)
    <2>1. PICK m : m = Len(t)
        OBVIOUS
    <2>2. LinesRead(t) = t
        BY <1>8 DEF LinesRead
    <2>3. t = SubSeq(t, 1, m) /\ m \in 0..Len(t)
        BY <2>1, <1>0
    <2>4. \A q \in 1..Len(t) : t[q] = NL => q <= m
        BY <2>1, <1>0
    <2> QED
        BY <1>8, <2>1, <2>2, <2>3, <2>4
<1> QED
    BY <1>7, <1>8

(* A complete line is read: its record is among the events.                *)
LEMMA LineIsRead ==
    ASSUME NEW t \in Seq(Token), NEW d \in Nat, NEW r \in Record, OnLine(t, d, r)
    PROVE  /\ \E k \in 1..Len(Events(t)) : Events(t)[k] = r
           /\ OnLine(LinesRead(t), Len(LinesRead(t)), r)
<1>1. PICK p \in 1..Len(t) : p < Len(t) /\ p < d /\ t[p] = r /\ t[p + 1] = NL
    BY DEF OnLine
<1>2. PICK n \in 0..Len(t) : /\ LinesRead(t) = SubSeq(t, 1, n)
                             /\ \A q \in 1..Len(t) : t[q] = NL => q <= n
    BY LinesReadCut
<1>3. p + 1 \in 1..Len(t) /\ p < n
    BY <1>1, <1>2
<1>4. PICK u : u = LinesRead(t)
    OBVIOUS
<1>5. /\ u \in Seq(Token) /\ Len(u) = n /\ Len(t) \in Nat
      /\ \A i \in 1..n : u[i] = t[i]
    BY <1>2, <1>4
<1>6. u[p] = r /\ u[p + 1] = NL /\ p \in 1..Len(u)
    BY <1>1, <1>3, <1>5
<1>7. OnLine(u, Len(u), r)
    BY <1>3, <1>5, <1>6 DEF OnLine
<1>8. \E k \in 1..Len(Records(u)) : Records(u)[k] = r
    <2>1. u[p] \in Record
        BY <1>6
    <2>2. \E k \in 1..Len(Records(u)) : Records(u)[k] = u[p]
        BY <1>5, <1>6, <2>1, RecordsContent
    <2> QED
        BY <2>2, <1>6
<1> QED
    BY <1>4, <1>7, <1>8 DEF Events

(* A record stays on its line when the file grows or is cut behind it.     *)
LEMMA LineStays ==
    ASSUME NEW t \in Seq(Token), NEW u \in Seq(Token), NEW d \in Nat, NEW e \in Nat, NEW r,
           d <= e, d <= Len(u), OnLine(t, d, r),
           \A i \in 1..d : i <= Len(t) => u[i] = t[i]
    PROVE  OnLine(u, e, r)
<1>1. PICK p \in 1..Len(t) : p < Len(t) /\ p < d /\ t[p] = r /\ t[p + 1] = NL
    BY DEF OnLine
<1>2. p \in 1..d /\ p + 1 \in 1..d /\ p + 1 <= Len(t) /\ p \in 1..Len(u)
    BY <1>1
<1>3. u[p] = r /\ u[p + 1] = NL /\ p < Len(u) /\ p < e
    BY <1>1, <1>2
<1> QED
    BY <1>2, <1>3 DEF OnLine

(* A write cut short adds its record at most, in front.                    *)
LEMMA TornWrite ==
    ASSUME NEW t \in Seq(Token), NEW r \in Record, NEW w \in TornWrites(r)
    PROVE  /\ t \o w \in Seq(Token) /\ Len(t) <= Len(t \o w)
           /\ \A i \in 1..Len(t) : (t \o w)[i] = t[i]
           /\ \A i \in 1..Len(t \o w) :
                 i > Len(t) /\ (t \o w)[i] \in Record => i = Len(t) + 1 /\ (t \o w)[i] = r
<1>1. \/ w = <<>> \/ w = <<r, NL>> \/ w = <<Frag>> \/ w = <<BadFrag>> \/ w = <<r>>
    BY DEF TornWrites, Fragments
<1>2. /\ r \in Token /\ NL \in Token /\ Frag \in Token /\ BadFrag \in Token
      /\ NL \notin Record /\ Frag \notin Record /\ BadFrag \notin Record
    BY JournalAssumption DEF Token
<1>3. CASE w = <<>>
    BY <1>3
<1>4. CASE w = <<r, NL>>
    BY <1>4, <1>2
<1>5. CASE w = <<Frag>>
    BY <1>5, <1>2
<1>6. CASE w = <<BadFrag>>
    BY <1>6, <1>2
<1>7. CASE w = <<r>>
    BY <1>7, <1>2
<1> QED
    BY <1>1, <1>3, <1>4, <1>5, <1>6, <1>7

(* A power loss leaves a prefix that holds all fsync forced, and at most   *)
(* an incomplete record behind it.                                         *)
LEMMA Survivor ==
    ASSUME file \in Seq(Token), dlen \in 0..Len(file), NEW s \in Survivors
    PROVE  \E n \in dlen..Len(file) :
              \/ s = SubSeq(file, 1, n)
                 /\ (n = Len(file) \/ file[n + 1] # NL \/ "newline" \in cuts
                     \/ (n > 0 /\ file[n] \notin Record))
              \/ n < Len(file) /\ file[n + 1] \in Record
                 /\ \E f \in Fragments : s = Append(SubSeq(file, 1, n), f)
<1> DEFINE Ends == {m \in dlen..Len(file) :
                       m = Len(file) \/ file[m + 1] # NL \/ "newline" \in cuts
                                     \/ (m > 0 /\ file[m] \notin Record)}
           Openings == {m \in dlen..(Len(file) - 1) : file[m + 1] \in Record}
<1>0. Len(file) \in Nat
    OBVIOUS
<1>1. ASSUME NEW n \in Ends, s = SubSeq(file, 1, n)
      PROVE  \E k \in dlen..Len(file) :
                s = SubSeq(file, 1, k)
                /\ (k = Len(file) \/ file[k + 1] # NL \/ "newline" \in cuts
                    \/ (k > 0 /\ file[k] \notin Record))
    BY <1>1
<1>2. ASSUME NEW n \in Openings, NEW f \in Fragments, s = Append(SubSeq(file, 1, n), f)
      PROVE  \E k \in dlen..Len(file) :
                k < Len(file) /\ file[k + 1] \in Record
                /\ \E g \in Fragments : s = Append(SubSeq(file, 1, k), g)
    <2>1. n \in dlen..Len(file) /\ n < Len(file) /\ file[n + 1] \in Record
        BY <1>0
    <2> QED
        BY <2>1, <1>2
<1>3. s \in {SubSeq(file, 1, n) : n \in Ends}
           \union UNION {{Append(SubSeq(file, 1, n), f) : f \in Fragments} : n \in Openings}
    BY DEF Survivors
<1>4. CASE s \in {SubSeq(file, 1, n) : n \in Ends}
    <2>1. PICK n \in Ends : s = SubSeq(file, 1, n)
        <3> HIDE DEF Ends
        <3> QED
            BY <1>4
    <2>2. \E k \in dlen..Len(file) :
             s = SubSeq(file, 1, k)
             /\ (k = Len(file) \/ file[k + 1] # NL \/ "newline" \in cuts
                 \/ (k > 0 /\ file[k] \notin Record))
        <3> HIDE DEF Ends
        <3> QED
            BY <2>1, <1>1
    <2> HIDE DEF Ends, Openings
    <2> QED
        BY <2>2, Zenon
<1>5. CASE s \in UNION {{Append(SubSeq(file, 1, n), f) : f \in Fragments} : n \in Openings}
    <2>1. \E f \in Fragments : \E n \in Openings : s = Append(SubSeq(file, 1, n), f)
        <3> HIDE DEF Openings
        <3> QED
            BY <1>5
    <2>2. \E k \in dlen..Len(file) :
             k < Len(file) /\ file[k + 1] \in Record
             /\ \E g \in Fragments : s = Append(SubSeq(file, 1, k), g)
        <3> HIDE DEF Openings
        <3> QED
            BY <2>1, <1>2
    <2> HIDE DEF Ends, Openings
    <2> QED
        BY <2>2, Zenon
<1> QED
    <2> HIDE DEF Ends, Openings
    <2> QED
        BY <1>3, <1>4, <1>5

(* The tokens of what a power loss leaves.                                 *)
LEMMA SurvivorTokens ==
    ASSUME file \in Seq(Token), dlen \in 0..Len(file), NEW s \in Survivors
    PROVE  /\ s \in Seq(Token)
           /\ \E n \in dlen..Len(file) :
                 /\ n <= Len(s)
                 /\ \A i \in 1..n : s[i] = file[i]
                 /\ \A i \in 1..Len(s) : i > n => s[i] \notin Record
                 /\ Records(s) = Records(SubSeq(file, 1, n))
<1>1. PICK n \in dlen..Len(file) :
         \/ s = SubSeq(file, 1, n)
         \/ \E f \in Fragments : s = Append(SubSeq(file, 1, n), f)
    BY Survivor
<1>2. PICK u : u = SubSeq(file, 1, n)
    OBVIOUS
<1>3. /\ u \in Seq(Token) /\ Len(u) = n /\ n \in Nat
      /\ \A i \in 1..n : u[i] = file[i]
    BY <1>2
<1>4. CASE s = u
    BY <1>2, <1>3, <1>4
<1>5. CASE \E f \in Fragments : s = Append(u, f)
    <2>1. PICK f \in Fragments : s = Append(u, f)
        BY <1>5
    <2>2. f \in Token /\ f \notin Record
        BY JournalAssumption DEF Fragments, Token
    <2>3. /\ s \in Seq(Token) /\ n <= Len(s)
          /\ \A i \in 1..n : s[i] = file[i]
          /\ \A i \in 1..Len(s) : i > n => s[i] \notin Record
        BY <1>3, <2>1, <2>2
    <2>4. Records(s) = Records(u)
        BY <1>3, <2>1, <2>2, RecordsOfAppend
    <2> QED
        BY <2>3, <2>4, <1>2
<1> QED
    BY <1>1, <1>2, <1>4, <1>5


(***************************************************************************)
(* The journal's invariant, step by step.                                  *)
(***************************************************************************)

(* A journal that was never opened satisfies the invariant.                *)
LEMMA JournalStarts == Init => JournalInv
<1> SUFFICES ASSUME Init PROVE JournalInv
    OBVIOUS
<1>1. TypeOK
    <2>1. /\ file \in Seq(Record \union {NL, Frag, BadFrag}) /\ mem \in Seq(Record)
          /\ dlen \in 0..Len(file)
        BY DEF Init
    <2>2. /\ cuts \in Cuts /\ entry = "absent" /\ up = "down" /\ pc = "idle"
          /\ cur = {} /\ used = {} /\ returned = {} /\ lost = {} /\ isNew = FALSE
          /\ kills = 0 /\ losses = 0 /\ ioErrors = 0
        BY DEF Init
    <2>3. kills \in 0..MaxKills /\ losses \in 0..MaxPowerLosses /\ ioErrors \in 0..MaxIOErrors
        BY <2>2, JournalAssumption
    <2>4. /\ cuts \in Cuts /\ entry \in {"absent", "volatile", "durable"}
          /\ up \in {"up", "down", "refused"}
          /\ pc \in {"idle", "opened", "written", "synced"} /\ isNew \in BOOLEAN
          /\ cur \subseteq used /\ used \subseteq Record
          /\ returned \subseteq used /\ lost \subseteq returned
        BY <2>2
    <2> QED
        BY <2>1, <2>3, <2>4, Zenon DEF TypeOK
<1>2. CallInv /\ OnceInv /\ DeviceInv /\ EntryInv
    BY JournalAssumption
    DEF Init, CallInv, OnceInv, Once, Distinct, DeviceInv, EntryInv, Absent
<1> QED
    BY <1>1, <1>2 DEF JournalInv

(* A boot exposes what it read, and repairs at most a torn last line.      *)
LEMMA BootKeeps ==
    ASSUME JournalInv, Boot, UNCHANGED cuts
    PROVE  JournalInv'
<1> USE DEF JournalInv
<1>0. file \in Seq(Token) /\ dlen \in 0..Len(file) /\ Len(file) \in Nat
    BY DEF TypeOK, Token
<1>1. /\ up = "down" /\ UNCHANGED <<pc, cur, isNew, used, returned, lost>>
      /\ UNCHANGED <<kills, losses, ioErrors, cuts>>
    BY DEF Boot, appendCall, ghosts, faultCounts
<1>2. pc = "idle" /\ cur = {}
    BY <1>1 DEF CallInv
<1>3. CASE ReadRaises(file)
    <2>1. up' = "refused" /\ UNCHANGED <<file, dlen, entry, mem>>
        BY <1>3 DEF Boot, disk
    <2>2. TypeOK'
        BY <1>1, <2>1 DEF TypeOK
    <2>3. CallInv' /\ OnceInv' /\ DeviceInv' /\ EntryInv'
        BY <1>1, <1>2, <2>1 DEF CallInv, OnceInv, DeviceInv, EntryInv
    <2> QED
        BY <2>2, <2>3
<1>4. CASE ~ReadRaises(file)
    <2>1. up' = "up" /\ mem' = Events(file)
        BY <1>4 DEF Boot
    <2>2. PICK n \in 0..Len(file) : /\ LinesRead(file) = SubSeq(file, 1, n)
                                    /\ ~TornTail(file) => LinesRead(file) = file
        BY <1>0, LinesReadCut
    <2>3. PICK t : t = LinesRead(file)
        OBVIOUS
    <2>4. t \in Seq(Token) /\ Len(t) = n /\ \A i \in 1..n : t[i] = file[i]
        BY <1>0, <2>2, <2>3
    <2>5. mem' = Records(t)
        BY <2>1, <2>3 DEF Events
    <2>6. Once(t, used)
        BY <2>4, <1>0 DEF OnceInv, Once
    <2>7. /\ mem' \in Seq(Record)
          /\ \A k \in 1..Len(mem') : \E i \in 1..Len(t) : mem'[k] = t[i]
          /\ Distinct(mem')
        BY <2>4, <2>5, <2>6, RecordsContent DEF Once
    <2>8. \A k \in 1..Len(mem') : mem'[k] \in used
        <3>1. \A k \in 1..Len(mem') : mem'[k] \in Record
            BY <2>7
        <3> QED
            BY <2>6, <2>7, <3>1 DEF Once
    <2>9. \A r \in returned \ lost :
             /\ \E k \in 1..Len(mem') : mem'[k] = r
             /\ OnLine(t, Len(t), r)
        BY <1>0, <2>1, <2>3, LineIsRead DEF DeviceInv, TypeOK
    <2>10. \/ file' = t /\ dlen' = Len(t) /\ entry' = "durable"
           \/ UNCHANGED <<file, dlen, entry>>
        BY <1>4, <2>3 DEF Boot, TruncateTornTail, disk
    <2>11. TypeOK'
        BY <1>1, <2>1, <2>4, <2>7, <2>10 DEF TypeOK, Token
    <2>12. CallInv'
        BY <1>1, <1>2 DEF CallInv
    <2>13. OnceInv'
        BY <1>1, <2>6, <2>7, <2>8, <2>10 DEF OnceInv
    <2>14. DeviceInv'
        <3>1. \A r \in returned \ lost : OnLine(file', dlen', r)
            BY <2>9, <2>10 DEF DeviceInv
        <3> QED
            BY <1>1, <2>9, <3>1 DEF DeviceInv
    <2>15. EntryInv'
        BY <1>1, <1>2, <2>10 DEF EntryInv
    <2> QED
        BY <2>11, <2>12, <2>13, <2>14, <2>15
<1> QED
    BY <1>3, <1>4

(* An append begins with a record nobody has seen.                         *)
LEMMA OpenKeeps ==
    ASSUME JournalInv, NEW r \in Record, Open(r), UNCHANGED cuts
    PROVE  JournalInv'
<1> USE DEF JournalInv
<1>1. /\ up = "up" /\ pc = "idle" /\ r \notin used
      /\ pc' = "opened" /\ cur' = {r} /\ used' = used \union {r}
      /\ isNew' = (entry = "absent")
      /\ entry' = IF entry = "absent" THEN "volatile" ELSE entry
      /\ UNCHANGED <<file, dlen, up, mem, returned, lost, kills, losses, ioErrors, cuts>>
    BY DEF Open, ghosts, faultCounts
<1>2. TypeOK'
    BY <1>1 DEF TypeOK
<1>3. CallInv'
    <2>1. Absent(mem, r) /\ Absent(file, r)
        BY <1>1 DEF OnceInv, Once, Absent
    <2> QED
        BY <1>1, <2>1 DEF CallInv
<1>4. OnceInv'
    <2>1. Once(file, used')
        BY <1>1 DEF OnceInv, Once
    <2> QED
        BY <1>1, <2>1 DEF OnceInv
<1>5. DeviceInv'
    BY <1>1 DEF DeviceInv
<1>6. EntryInv'
    BY <1>1 DEF EntryInv, TypeOK
<1> QED
    BY <1>2, <1>3, <1>4, <1>5, <1>6

(* The whole line reaches the page cache.                                  *)
LEMMA WriteKeeps ==
    ASSUME JournalInv, Write, UNCHANGED cuts
    PROVE  JournalInv'
<1> USE DEF JournalInv
<1>0. file \in Seq(Token) /\ dlen \in 0..Len(file) /\ Len(file) \in Nat
    BY DEF TypeOK, Token
<1>1. /\ up = "up" /\ pc = "opened" /\ pc' = "written"
      /\ UNCHANGED <<dlen, entry, up, cur, isNew, mem, used, returned, lost>>
      /\ UNCHANGED <<kills, losses, ioErrors, cuts>>
    BY DEF Write, ghosts, faultCounts
<1>2. PICK r \in Record : cur = {r}
    BY <1>1 DEF CallInv
<1>3. PICK f : f = file \o <<r, NL>>
    OBVIOUS
<1>4. file' = f
    BY <1>2, <1>3 DEF Write, Line
<1>5. r \in Token /\ NL \in Token /\ NL \notin Record /\ r \in used /\ Absent(file, r)
      /\ Absent(mem, r)
    BY <1>1, <1>2, JournalAssumption DEF TypeOK, CallInv, Token
<1>6. /\ f \in Seq(Token) /\ Len(f) = Len(file) + 2
      /\ f[Len(file) + 1] = r /\ f[Len(file) + 2] = NL
      /\ \A i \in 1..Len(file) : f[i] = file[i]
    BY <1>0, <1>3, <1>5
<1>7. TypeOK'
    BY <1>0, <1>1, <1>4, <1>6 DEF TypeOK, Token
<1>8. CallInv'
    <2>1. OnLine(f, Len(f), r)
        <3>1. PICK p : p = Len(file) + 1
            OBVIOUS
        <3>2. p \in 1..Len(f) /\ p < Len(f) /\ f[p] = r /\ f[p + 1] = NL
            BY <1>0, <1>6, <3>1
        <3> QED
            BY <3>2 DEF OnLine
    <2> QED
        BY <1>1, <1>2, <1>4, <1>5, <2>1 DEF CallInv
<1>9. OnceInv'
    <2>1. \A i \in 1..Len(f) : f[i] \in Record => i \in 1..Len(file) \/ i = Len(file) + 1
        BY <1>0, <1>5, <1>6
    <2>2. Once(f, used)
        <3>1. \A i \in 1..Len(f) : f[i] \in Record => f[i] \in used
            BY <2>1, <1>5, <1>6 DEF OnceInv, Once
        <3>2. \A i, j \in 1..Len(f) : f[i] \in Record /\ f[i] = f[j] => i = j
            BY <2>1, <1>5, <1>6 DEF OnceInv, Once, Absent
        <3> QED
            BY <3>1, <3>2 DEF Once
    <2> QED
        BY <1>1, <1>4, <2>2 DEF OnceInv
<1>10. DeviceInv'
    <2>1. \A q \in returned \ lost : OnLine(f, dlen, q)
        <3>1. \A i \in 1..dlen : i <= Len(file) => f[i] = file[i]
            BY <1>0, <1>6
        <3>2. dlen \in Nat /\ dlen <= dlen /\ dlen <= Len(f)
            BY <1>0, <1>6
        <3> QED
            BY <1>0, <1>6, <3>1, <3>2, LineStays DEF DeviceInv
    <2> QED
        BY <1>1, <1>4, <2>1 DEF DeviceInv
<1>11. EntryInv'
    BY <1>1 DEF EntryInv
<1> QED
    BY <1>7, <1>8, <1>9, <1>10, <1>11


(* fsync of the file: its line is on the device.                           *)
LEMMA FsyncFileKeeps ==
    ASSUME JournalInv, FsyncFile, UNCHANGED cuts
    PROVE  JournalInv'
<1> USE DEF JournalInv
<1>0. file \in Seq(Token) /\ dlen \in 0..Len(file) /\ Len(file) \in Nat
    BY DEF TypeOK, Token
<1>1. /\ up = "up" /\ pc = "written" /\ pc' = "synced" /\ dlen' = Len(file)
      /\ UNCHANGED <<file, entry, up, cur, isNew, mem, used, returned, lost>>
      /\ UNCHANGED <<kills, losses, ioErrors, cuts>>
    BY DEF FsyncFile, ghosts, faultCounts
<1>2. TypeOK'
    BY <1>0, <1>1 DEF TypeOK
<1>3. CallInv'
    BY <1>1 DEF CallInv
<1>4. OnceInv'
    BY <1>1 DEF OnceInv
<1>5. DeviceInv'
    <2>1. \A r \in returned \ lost : OnLine(file, Len(file), r)
        BY <1>0 DEF DeviceInv, OnLine
    <2> QED
        BY <1>1, <2>1 DEF DeviceInv
<1>6. EntryInv'
    BY <1>1 DEF EntryInv
<1> QED
    BY <1>2, <1>3, <1>4, <1>5, <1>6

(* fsync of the directory: the entry is on the device.                     *)
LEMMA FsyncDirKeeps ==
    ASSUME JournalInv, FsyncDir, UNCHANGED cuts
    PROVE  JournalInv'
<1> USE DEF JournalInv
<1>1. /\ up = "up" /\ pc = "synced" /\ entry' = "durable" /\ isNew' = FALSE
      /\ UNCHANGED <<file, dlen, up, pc, cur, mem, used, returned, lost>>
      /\ UNCHANGED <<kills, losses, ioErrors, cuts>>
    BY DEF FsyncDir, ghosts, faultCounts
<1>2. TypeOK'
    BY <1>1 DEF TypeOK
<1>3. CallInv'
    BY <1>1 DEF CallInv
<1>4. OnceInv'
    BY <1>1 DEF OnceInv
<1>5. DeviceInv'
    BY <1>1 DEF DeviceInv
<1>6. EntryInv'
    BY <1>1 DEF EntryInv
<1> QED
    BY <1>2, <1>3, <1>4, <1>5, <1>6

(* The append returns, and the caller exposes its record.                  *)
LEMMA ReturnKeeps ==
    ASSUME JournalInv, Return, UNCHANGED cuts
    PROVE  JournalInv'
<1> USE DEF JournalInv
<1>1. /\ up = "up" /\ pc = "synced" /\ ~isNew /\ pc' = "idle" /\ cur' = {}
      /\ returned' = returned \union cur
      /\ UNCHANGED <<file, dlen, entry, up, isNew, used, lost>>
      /\ UNCHANGED <<kills, losses, ioErrors, cuts>>
    BY DEF Return, disk, faultCounts
<1>2. PICK r \in Record : cur = {r}
    BY <1>1 DEF CallInv
<1>3. PICK m : m = Append(mem, r)
    OBVIOUS
<1>4. mem' = m
    BY <1>2, <1>3 DEF Return
<1>5. r \in used /\ Absent(mem, r) /\ OnLine(file, dlen, r) /\ mem \in Seq(Record)
    BY <1>1, <1>2 DEF TypeOK, CallInv
<1>6. /\ m \in Seq(Record) /\ Len(m) = Len(mem) + 1 /\ Len(mem) \in Nat
      /\ m[Len(mem) + 1] = r /\ \A i \in 1..Len(mem) : m[i] = mem[i]
    BY <1>3, <1>5
<1>7. TypeOK'
    BY <1>1, <1>4, <1>6 DEF TypeOK
<1>8. CallInv'
    BY <1>1 DEF CallInv
<1>9. OnceInv'
    <2>1. \A i \in 1..Len(m) : i \in 1..Len(mem) \/ i = Len(mem) + 1
        BY <1>6
    <2>2. \A i \in 1..Len(m) : m[i] \in used
        BY <2>1, <1>5, <1>6 DEF OnceInv
    <2>3. Distinct(m)
        BY <2>1, <1>5, <1>6 DEF OnceInv, Distinct, Absent
    <2> QED
        BY <1>1, <1>4, <2>2, <2>3 DEF OnceInv
<1>10. DeviceInv'
    <2>1. \A q \in returned' \ lost : q \in returned \ lost \/ q = r
        BY <1>1, <1>2
    <2>2. \A q \in returned' \ lost : OnLine(file, dlen, q)
        BY <2>1, <1>5 DEF DeviceInv
    <2>3. \A q \in returned' \ lost : \E i \in 1..Len(m) : m[i] = q
        <3>1. ASSUME NEW q \in returned' \ lost PROVE \E i \in 1..Len(m) : m[i] = q
            <4>1. CASE q = r
                BY <4>1, <1>6
            <4>2. CASE q # r
                <5>1. PICK i \in 1..Len(mem) : mem[i] = q
                    BY <1>1, <2>1, <4>2 DEF DeviceInv
                <5> QED
                    BY <5>1, <1>6
            <4> QED
                BY <4>1, <4>2
        <3> QED
            BY <3>1
    <2> QED
        BY <1>1, <1>4, <2>2, <2>3 DEF DeviceInv
<1>11. EntryInv'
    BY <1>1, <1>2 DEF EntryInv
<1> QED
    BY <1>7, <1>8, <1>9, <1>10, <1>11

(* What an append interrupted at any point leaves in the page cache.       *)
LEMMA InterruptedAppend ==
    ASSUME JournalInv,
           IF pc = "opened" THEN \E r \in cur : \E t \in TornWrites(r) : file' = file \o t
           ELSE UNCHANGED file
    PROVE  /\ file' \in Seq(Token) /\ Len(file) <= Len(file')
           /\ \A i \in 1..Len(file) : file'[i] = file[i]
           /\ Once(file', used)
           /\ \A q \in returned \ lost : OnLine(file', dlen, q)
<1>0. /\ file \in Seq(Token) /\ dlen \in 0..Len(file) /\ Len(file) \in Nat
      /\ Once(file, used)
    BY DEF JournalInv, TypeOK, OnceInv, Token
<1>1. CASE pc = "opened"
    <2>1. PICK r \in cur : \E t \in TornWrites(r) : file' = file \o t
        BY <1>1
    <2>2. PICK t \in TornWrites(r) : file' = file \o t
        BY <2>1
    <2>3. r \in Record /\ r \in used /\ Absent(file, r)
        BY <1>1 DEF JournalInv, CallInv, TypeOK
    <2>4. PICK f : f = file \o t
        OBVIOUS
    <2>5. /\ f \in Seq(Token) /\ Len(file) <= Len(f)
          /\ \A i \in 1..Len(file) : f[i] = file[i]
          /\ \A i \in 1..Len(f) : i > Len(file) /\ f[i] \in Record
                                  => i = Len(file) + 1 /\ f[i] = r
        <3>1. /\ file \o t \in Seq(Token) /\ Len(file) <= Len(file \o t)
              /\ \A i \in 1..Len(file) : (file \o t)[i] = file[i]
              /\ \A i \in 1..Len(file \o t) :
                    i > Len(file) /\ (file \o t)[i] \in Record
                    => i = Len(file) + 1 /\ (file \o t)[i] = r
            BY ONLY <1>0, <2>3, TornWrite, Zenon
        <3> QED
            BY <2>4, <3>1
    <2>6. \A i \in 1..Len(f) : f[i] \in Record =>
             \/ i \in 1..Len(file) /\ f[i] = file[i]
             \/ i = Len(file) + 1 /\ f[i] = r
        BY <1>0, <2>5
    <2>7. Once(f, used)
        <3>1. \A i \in 1..Len(f) : f[i] \in Record => f[i] \in used
            BY <2>3, <2>6, <1>0 DEF Once
        <3>2. \A i, j \in 1..Len(f) : f[i] \in Record /\ f[i] = f[j] => i = j
            BY <2>3, <2>6, <1>0 DEF Once, Absent
        <3> QED
            BY <3>1, <3>2 DEF Once
    <2>8. \A q \in returned \ lost : OnLine(f, dlen, q)
        <3>1. \A i \in 1..dlen : i <= Len(file) => f[i] = file[i]
            BY <1>0, <2>5
        <3>2. dlen \in Nat /\ dlen <= dlen /\ dlen <= Len(f)
            BY <1>0, <2>5
        <3> QED
            BY <1>0, <2>5, <3>1, <3>2, LineStays DEF JournalInv, DeviceInv
    <2> QED
        BY <2>2, <2>4, <2>5, <2>7, <2>8
<1>2. CASE pc # "opened"
    <2>1. file' = file
        BY <1>2
    <2> QED
        BY <1>0, <2>1 DEF JournalInv, DeviceInv
<1> QED
    BY <1>1, <1>2

(* A failed system call leaves its bytes; the caller exposes nothing.      *)
LEMMA IOErrorKeeps ==
    ASSUME JournalInv, IOError, UNCHANGED cuts
    PROVE  JournalInv'
<1>0. JournalInv
    OBVIOUS
<1>1. /\ up = "up" /\ pc # "idle" /\ ioErrors < MaxIOErrors
      /\ pc' = "idle" /\ cur' = {} /\ isNew' = FALSE /\ ioErrors' = ioErrors + 1
      /\ UNCHANGED <<dlen, entry, up, mem, used, returned, lost, kills, losses, cuts>>
    BY DEF IOError, ghosts
<1>2. /\ file' \in Seq(Token) /\ Len(file) <= Len(file')
      /\ Once(file', used)
      /\ \A q \in returned \ lost : OnLine(file', dlen, q)
    BY <1>0, <1>1, InterruptedAppend DEF IOError
<1> USE DEF JournalInv
<1>3. TypeOK'
    <2>1. dlen \in 0..Len(file')
        BY <1>2 DEF TypeOK
    <2>2. ioErrors' \in 0..MaxIOErrors
        BY <1>1, JournalAssumption DEF TypeOK
    <2> QED
        BY <1>1, <1>2, <2>1, <2>2 DEF TypeOK, Token
<1>4. CallInv'
    BY <1>1 DEF CallInv
<1>5. OnceInv'
    BY <1>1, <1>2 DEF OnceInv
<1>6. DeviceInv'
    BY <1>1, <1>2 DEF DeviceInv
<1>7. EntryInv'
    <2>1. kills' + ioErrors' > 0
        BY <1>1 DEF TypeOK
    <2> QED
        BY <2>1 DEF EntryInv
<1> QED
    BY <1>3, <1>4, <1>5, <1>6, <1>7

(* A killed process loses its memory, not the page cache.                  *)
LEMMA KillKeeps ==
    ASSUME JournalInv, Kill, UNCHANGED cuts
    PROVE  JournalInv'
<1>0. JournalInv
    OBVIOUS
<1>1. /\ up = "up" /\ kills < MaxKills /\ kills' = kills + 1
      /\ up' = "down" /\ pc' = "idle" /\ cur' = {} /\ isNew' = FALSE /\ mem' = <<>>
      /\ UNCHANGED <<dlen, entry, used, returned, lost, losses, ioErrors, cuts>>
    BY DEF Kill, ProcessDies, ghosts
<1>2. /\ file' \in Seq(Token) /\ Len(file) <= Len(file')
      /\ Once(file', used)
      /\ \A q \in returned \ lost : OnLine(file', dlen, q)
    BY <1>0, <1>1, InterruptedAppend DEF Kill
<1> USE DEF JournalInv
<1>3. TypeOK'
    <2>1. dlen \in 0..Len(file') /\ mem' \in Seq(Record)
        BY <1>1, <1>2 DEF TypeOK
    <2>2. kills' \in 0..MaxKills
        BY <1>1, JournalAssumption DEF TypeOK
    <2> QED
        BY <1>1, <1>2, <2>1, <2>2 DEF TypeOK, Token
<1>4. CallInv'
    BY <1>1 DEF CallInv
<1>5. OnceInv'
    <2>1. Len(mem') = 0
        BY <1>1
    <2> QED
        BY <1>1, <1>2, <2>1 DEF OnceInv, Distinct
<1>6. DeviceInv'
    BY <1>1, <1>2 DEF DeviceInv
<1>7. EntryInv'
    <2>1. kills' + ioErrors' > 0
        BY <1>1 DEF TypeOK
    <2> QED
        BY <2>1 DEF EntryInv
<1> QED
    BY <1>3, <1>4, <1>5, <1>6, <1>7

(* A power loss keeps what fsync forced, unless the entry was never forced *)
(* and the file vanishes with it.                                          *)
LEMMA PowerLossKeeps ==
    ASSUME JournalInv, PowerLoss, UNCHANGED cuts
    PROVE  JournalInv'
<1> USE DEF JournalInv
<1>0. file \in Seq(Token) /\ dlen \in 0..Len(file) /\ Len(file) \in Nat
    BY DEF TypeOK, Token
<1>1. /\ up = "up" /\ losses < MaxPowerLosses /\ losses' = losses + 1
      /\ up' = "down" /\ pc' = "idle" /\ cur' = {} /\ isNew' = FALSE /\ mem' = <<>>
      /\ UNCHANGED <<used, returned, kills, ioErrors, cuts>>
    BY DEF PowerLoss, ProcessDies
<1>2. CallInv'
    BY <1>1 DEF CallInv
<1>3. losses' \in 0..MaxPowerLosses /\ mem' \in Seq(Record) /\ Len(mem') = 0
    BY <1>1, JournalAssumption DEF TypeOK
<1>4. CASE /\ \E s \in Survivors : file' = s /\ dlen' = Len(s)
           /\ entry' = IF entry = "volatile" THEN "durable" ELSE entry
           /\ UNCHANGED lost
    <2>1. PICK s \in Survivors : file' = s /\ dlen' = Len(s)
        BY <1>4
    <2>2. s \in Seq(Token)
        BY <1>0, SurvivorTokens
    <2>3. PICK n \in dlen..Len(file) : /\ n <= Len(s)
                                       /\ \A i \in 1..n : s[i] = file[i]
                                       /\ \A i \in 1..Len(s) : i > n => s[i] \notin Record
        BY <1>0, SurvivorTokens
    <2>4. Once(s, used)
        <3>1. \A i \in 1..Len(s) : s[i] \in Record => i \in 1..Len(file) /\ s[i] = file[i]
            BY <1>0, <2>2, <2>3
        <3> QED
            BY <3>1 DEF OnceInv, Once
    <2>5. \A q \in returned \ lost : OnLine(s, Len(s), q)
        <3>1. \A i \in 1..dlen : i <= Len(file) => s[i] = file[i]
            BY <1>0, <2>3
        <3>2. dlen \in Nat /\ dlen <= Len(s) /\ Len(s) \in Nat
            BY <1>0, <2>2, <2>3
        <3> QED
            BY <1>0, <2>2, <3>1, <3>2, LineStays DEF DeviceInv
    <2>6. TypeOK'
        <3>1. dlen' \in 0..Len(file') /\ file' \in Seq(Token)
            BY <2>1, <2>2
        <3> QED
            BY <1>1, <1>3, <1>4, <3>1 DEF TypeOK, Token
    <2>7. OnceInv'
        BY <1>1, <1>3, <2>1, <2>4 DEF OnceInv, Distinct
    <2>8. DeviceInv'
        BY <1>1, <1>4, <2>1, <2>5 DEF DeviceInv
    <2>9. EntryInv'
        BY <1>1, <1>4 DEF EntryInv, TypeOK
    <2> QED
        BY <1>2, <2>6, <2>7, <2>8, <2>9
<1>5. CASE /\ entry = "volatile"
           /\ file' = <<>> /\ dlen' = 0 /\ entry' = "absent"
           /\ lost' = lost \union returned
    <2>1. Len(file') = 0 /\ file' \in Seq(Token)
        BY <1>5
    <2>2. TypeOK'
        <3>1. dlen' \in 0..Len(file') /\ entry' = "absent" /\ lost' \subseteq returned
            BY <1>5, <2>1 DEF TypeOK
        <3> QED
            BY <1>1, <1>3, <2>1, <3>1 DEF TypeOK, Token
    <2>3. OnceInv'
        BY <1>1, <1>3, <2>1 DEF OnceInv, Once, Distinct
    <2>4. DeviceInv'
        BY <1>1, <1>5 DEF DeviceInv
    <2>5. EntryInv'
        BY <1>1, <1>5 DEF EntryInv, TypeOK
    <2> QED
        BY <1>2, <2>2, <2>3, <2>4, <2>5
<1> QED
    BY <1>4, <1>5 DEF PowerLoss


(***************************************************************************)
(* What crashes leave when every cut falls inside a record.                *)
(***************************************************************************)

(* A file of that shape is read, and what is read of it ends its last line. *)
LEMMA ShapeIsRead ==
    ASSUME NEW t \in Seq(Token), Shape(t)
    PROVE  ~ReadRaises(t) /\ Shape(LinesRead(t)) /\ Ended(LinesRead(t))
<1>0. /\ Len(t) \in Nat /\ NL \notin Record /\ Frag \notin Record /\ BadFrag \notin Record
      /\ NL # Frag /\ NL # BadFrag /\ Frag # BadFrag
      /\ \A i \in 1..Len(t) : t[i] \in Record \/ t[i] = NL \/ t[i] = Frag \/ t[i] = BadFrag
    BY JournalAssumption DEF Token
<1>1. ~Undecodable(t)
    BY <1>0 DEF Undecodable, Shape
<1>2. \A i \in 1..Len(t) : Malformed(t, i) => t[i] = Frag /\ i = Len(t)
    BY <1>0 DEF Malformed, WholeLine, Shape
<1>3. ~Corrupt(t)
    BY <1>0, <1>2 DEF Corrupt, InTail
<1>4. PICK n \in 0..Len(t) : /\ LinesRead(t) = SubSeq(t, 1, n)
                             /\ TornTail(t) => n = 0 \/ t[n] = NL
                             /\ ~TornTail(t) => n = Len(t) /\ LinesRead(t) = t
    BY LinesReadCut
<1>5. PICK u : u = LinesRead(t)
    OBVIOUS
<1>6. u \in Seq(Token) /\ Len(u) = n /\ n \in Nat /\ \A i \in 1..n : u[i] = t[i]
    BY <1>4, <1>5
<1>7. n = 0 \/ t[n] = NL
    <2>1. CASE ~TornTail(t) /\ n # 0
        <3>1. n \in 1..Len(t) /\ n = Len(t)
            BY <2>1, <1>4
        <3>2. t[n] \notin Record
            BY <3>1 DEF Shape
        <3>3. t[n] = Frag \/ t[n] = BadFrag => TornTail(t)
            BY <1>0, <3>1 DEF TornTail, Malformed, WholeLine, InTail
        <3> QED
            BY <1>0, <2>1, <3>1, <3>2, <3>3
    <2> QED
        BY <2>1, <1>4
<1>8. Ended(u)
    <2>1. n = 0 => u = <<>>
        BY <1>6
    <2>2. n # 0 => u[Len(u)] = NL
        BY <1>6, <1>7
    <2> QED
        BY <2>1, <2>2 DEF Ended
<1>9. Shape(u)
    <2>1. SUFFICES ASSUME NEW i \in 1..Len(u)
                   PROVE  /\ u[i] \in Record => i < Len(u) /\ u[i + 1] = NL
                                                /\ (i = 1 \/ u[i - 1] = NL)
                          /\ u[i] \in {Frag, BadFrag} => u[i] = Frag /\ i = Len(u)
        BY DEF Shape
    <2>2. i \in 1..n /\ i \in 1..Len(t) /\ u[i] = t[i] /\ n # 0
        BY <1>6
    <2>3. i < n => i + 1 \in 1..n /\ u[i + 1] = t[i + 1]
        BY <1>6, <2>2
    <2>4. i # 1 => i - 1 \in 1..n /\ u[i - 1] = t[i - 1]
        BY <1>6, <2>2
    <2>5. u[i] \in Record => i < n
        BY <1>0, <1>7, <2>2
    <2>6. u[i] \in {Frag, BadFrag} => u[i] = Frag /\ i = n
        BY <1>0, <2>2 DEF Shape
    <2> QED
        BY <2>2, <2>3, <2>4, <2>5, <2>6, <1>6 DEF Shape
<1> QED
    BY <1>1, <1>3, <1>5, <1>8, <1>9 DEF ReadRaises

(* A line behind a newline keeps the shape, whole or cut inside its record. *)
LEMMA ShapeGrows ==
    ASSUME NEW t \in Seq(Token), Shape(t), Ended(t), NEW r \in Record
    PROVE  /\ Shape(t \o <<r, NL>>) /\ Ended(t \o <<r, NL>>)
           /\ cuts \subseteq {"inside"} => \A w \in TornWrites(r) : Shape(t \o w)
<1>0. /\ Len(t) \in Nat /\ NL \notin Record /\ Frag \notin Record /\ BadFrag \notin Record
      /\ NL # Frag /\ NL # BadFrag /\ Frag # BadFrag
      /\ r \in Token /\ NL \in Token /\ Frag \in Token /\ r \notin {NL, Frag, BadFrag}
    BY JournalAssumption DEF Token
<1>1. Len(t) # 0 => t[Len(t)] = NL
    BY <1>0 DEF Ended
<1>2. \A i \in 1..Len(t) : t[i] \notin {Frag, BadFrag}
    BY <1>0, <1>1 DEF Shape
<1>3. Shape(t \o <<r, NL>>) /\ Ended(t \o <<r, NL>>)
    <2>1. PICK u : u = t \o <<r, NL>>
        OBVIOUS
    <2>2. /\ Len(u) = Len(t) + 2 /\ u[Len(t) + 1] = r /\ u[Len(t) + 2] = NL
          /\ \A i \in 1..Len(t) : u[i] = t[i]
        BY <1>0, <2>1
    <2>3. Shape(u)
        <3>1. SUFFICES ASSUME NEW i \in 1..Len(u)
                       PROVE  /\ u[i] \in Record => i < Len(u) /\ u[i + 1] = NL
                                                    /\ (i = 1 \/ u[i - 1] = NL)
                              /\ u[i] \in {Frag, BadFrag} => u[i] = Frag /\ i = Len(u)
            BY DEF Shape
        <3>2. CASE i \in 1..Len(t)
            <4>1. u[i] = t[i] /\ u[i] \notin {Frag, BadFrag}
                BY <1>2, <2>2, <3>2
            <4>2. ASSUME u[i] \in Record PROVE i < Len(t) /\ t[i + 1] = NL /\ (i = 1 \/ t[i - 1] = NL)
                BY <4>1, <4>2, <3>2 DEF Shape
            <4>3. i < Len(t) => u[i + 1] = t[i + 1]
                BY <2>2, <3>2
            <4>4. i # 1 => u[i - 1] = t[i - 1]
                BY <2>2, <3>2
            <4> QED
                BY <4>1, <4>2, <4>3, <4>4, <2>2, <1>0
        <3>3. CASE i = Len(t) + 1
            <4>1. i = 1 \/ u[i - 1] = NL
                BY <1>0, <1>1, <2>2, <3>3
            <4> QED
                BY <4>1, <1>0, <2>2, <3>3
        <3>4. CASE i = Len(t) + 2
            BY <1>0, <2>2, <3>4
        <3> QED
            BY <1>0, <2>2, <3>2, <3>3, <3>4
    <2>4. Ended(u)
        BY <2>2 DEF Ended
    <2> QED
        BY <2>1, <2>3, <2>4
<1>4. Shape(t \o <<Frag>>)
    <2>1. PICK u : u = t \o <<Frag>>
        OBVIOUS
    <2>2. /\ Len(u) = Len(t) + 1 /\ u[Len(t) + 1] = Frag
          /\ \A i \in 1..Len(t) : u[i] = t[i]
        BY <1>0, <2>1
    <2>3. SUFFICES ASSUME NEW i \in 1..Len(u)
                   PROVE  /\ u[i] \in Record => i < Len(u) /\ u[i + 1] = NL
                                                /\ (i = 1 \/ u[i - 1] = NL)
                          /\ u[i] \in {Frag, BadFrag} => u[i] = Frag /\ i = Len(u)
        BY <2>1 DEF Shape
    <2>4. CASE i \in 1..Len(t)
        <3>1. u[i] = t[i] /\ u[i] \notin {Frag, BadFrag}
            BY <1>2, <2>2, <2>4
        <3>2. ASSUME u[i] \in Record PROVE i < Len(t) /\ t[i + 1] = NL /\ (i = 1 \/ t[i - 1] = NL)
            BY <3>1, <3>2, <2>4 DEF Shape
        <3>3. i < Len(t) => u[i + 1] = t[i + 1]
            BY <2>2, <2>4
        <3>4. i # 1 => u[i - 1] = t[i - 1]
            BY <2>2, <2>4
        <3> QED
            BY <3>1, <3>2, <3>3, <3>4, <2>2, <1>0
    <2>5. CASE i = Len(t) + 1
        BY <1>0, <2>2, <2>5
    <2> QED
        BY <1>0, <2>2, <2>4, <2>5
<1>5. ASSUME cuts \subseteq {"inside"}, NEW w \in TornWrites(r) PROVE Shape(t \o w)
    <2>1. w = <<>> \/ w = <<r, NL>> \/ w = <<Frag>>
        BY <1>5 DEF TornWrites, Fragments
    <2>2. t \o <<>> = t
        OBVIOUS
    <2> QED
        BY <1>3, <1>4, <2>1, <2>2
<1> QED
    BY <1>3, <1>5

(* A power loss keeps the shape.                                           *)
LEMMA ShapeSurvives ==
    ASSUME file \in Seq(Token), dlen \in 0..Len(file), Shape(file),
           cuts \subseteq {"inside"}, NEW s \in Survivors
    PROVE  Shape(s)
<1>0. /\ Len(file) \in Nat /\ NL \notin Record /\ Frag \notin Record /\ BadFrag \notin Record
      /\ NL # Frag /\ NL # BadFrag /\ Frag # BadFrag
      /\ Frag \in Token
    BY JournalAssumption DEF Token
<1>1. PICK n \in dlen..Len(file) :
         \/ s = SubSeq(file, 1, n)
            /\ (n = Len(file) \/ file[n + 1] # NL \/ (n > 0 /\ file[n] \notin Record))
         \/ n < Len(file) /\ file[n + 1] \in Record /\ s = Append(SubSeq(file, 1, n), Frag)
    <2>1. Fragments \subseteq {Frag} /\ "newline" \notin cuts
        BY DEF Fragments
    <2>2. PICK n \in dlen..Len(file) :
             \/ s = SubSeq(file, 1, n)
                /\ (n = Len(file) \/ file[n + 1] # NL \/ "newline" \in cuts
                    \/ (n > 0 /\ file[n] \notin Record))
             \/ n < Len(file) /\ file[n + 1] \in Record
                /\ \E f \in Fragments : s = Append(SubSeq(file, 1, n), f)
        BY Survivor
    <2> QED
        BY <2>1, <2>2
<1>2. PICK u : u = SubSeq(file, 1, n)
    OBVIOUS
<1>3. /\ u \in Seq(Token) /\ Len(u) = n /\ n \in Nat /\ n <= Len(file)
      /\ \A i \in 1..n : u[i] = file[i]
    BY <1>2
<1>4. ASSUME NEW i \in 1..n, file[i] \in Record
      PROVE  i < n /\ u[i + 1] = NL /\ (i = 1 \/ u[i - 1] = NL)
    <2>1. i < Len(file) /\ file[i + 1] = NL /\ (i = 1 \/ file[i - 1] = NL)
        BY <1>3, <1>4 DEF Shape
    <2>2. i # n
        <3>1. SUFFICES ASSUME i = n PROVE FALSE
            OBVIOUS
        <3>2. n < Len(file) /\ file[n + 1] = NL /\ file[n] \in Record
            BY <2>1, <3>1, <1>4
        <3> QED
            BY <3>2, <1>0, <1>1
    <2>3. i < n /\ i + 1 \in 1..n /\ (i # 1 => i - 1 \in 1..n)
        BY <2>2
    <2> QED
        BY <2>1, <2>3, <1>3
<1>5. ASSUME NEW i \in 1..n, file[i] \in {Frag, BadFrag}
      PROVE  file[i] = Frag /\ i = n /\ n = Len(file)
    BY <1>3, <1>5 DEF Shape
<1>6. CASE s = u
    BY <1>3, <1>4, <1>5, <1>6 DEF Shape
<1>7. CASE n < Len(file) /\ s = Append(u, Frag)
    <2>1. /\ Len(s) = n + 1 /\ s[n + 1] = Frag
          /\ \A i \in 1..n : s[i] = u[i]
        BY <1>3, <1>7
    <2>2. SUFFICES ASSUME NEW i \in 1..Len(s)
                   PROVE  /\ s[i] \in Record => i < Len(s) /\ s[i + 1] = NL
                                                /\ (i = 1 \/ s[i - 1] = NL)
                          /\ s[i] \in {Frag, BadFrag} => s[i] = Frag /\ i = Len(s)
        BY DEF Shape
    <2>3. CASE i \in 1..n
        <3>1. s[i] = file[i]
            BY <2>1, <2>3, <1>3
        <3>2. s[i] \in Record => i < n /\ u[i + 1] = NL /\ (i = 1 \/ u[i - 1] = NL)
            BY <3>1, <2>3, <1>4
        <3>3. s[i] \notin {Frag, BadFrag}
            BY <3>1, <2>3, <1>5, <1>7
        <3>4. (i < n => s[i + 1] = u[i + 1]) /\ (i # 1 => s[i - 1] = u[i - 1])
            BY <2>1, <2>3, <1>3
        <3> QED
            BY <3>2, <3>3, <3>4, <2>1, <1>3
    <2>4. CASE i = n + 1
        BY <1>0, <2>1, <2>4, <1>3
    <2> QED
        BY <2>1, <2>3, <2>4, <1>3
<1> QED
    BY <1>1, <1>2, <1>6, <1>7


(* What an append interrupted before its newline or behind it leaves for   *)
(* the reader: its record or nothing.                                      *)
LEMMA TornRecords ==
    ASSUME NEW t \in Seq(Token), NEW r \in Record, NEW w \in TornWrites(r)
    PROVE  Records(t \o w) = Records(t) \/ Records(t \o w) = Append(Records(t), r)
<1>1. \/ w = <<>> \/ w = <<r, NL>> \/ w = <<Frag>> \/ w = <<BadFrag>> \/ w = <<r>>
    BY DEF TornWrites, Fragments
<1>2. /\ r \in Token /\ NL \in Token /\ Frag \in Token /\ BadFrag \in Token
      /\ NL \notin Record /\ Frag \notin Record /\ BadFrag \notin Record
    BY JournalAssumption DEF Token
<1>3. \A x \in Token : t \o <<x>> = Append(t, x)
    OBVIOUS
<1>4. CASE w = <<>>
    BY <1>4
<1>5. CASE w = <<r, NL>>
    BY <1>5, RecordsOfLine
<1>6. ASSUME NEW x \in Token, w = <<x>>, x = r \/ x \notin Record
      PROVE  Records(t \o w) = Records(t) \/ Records(t \o w) = Append(Records(t), r)
    <2>1. t \o w = Append(t, x)
        BY <1>3, <1>6
    <2> QED
        BY <2>1, <1>6, RecordsOfAppend
<1> QED
    BY <1>1, <1>2, <1>4, <1>5, <1>6

(* A chain that verifies is cut or extended to one that verifies.          *)
LEMMA ChainedCut ==
    ASSUME NEW b, NEW e \in Seq(Record), NEW d \in Seq(Record), Continues(e, d), Chained(b, e)
    PROVE  Chained(b, d)
<1> SUFFICES ASSUME NEW k \in 1..Len(d)
             PROVE  b[d[k]].index = k - 1 /\ b[d[k]].prev = IF k = 1 THEN GENESIS ELSE d[k - 1]
    BY DEF Chained
<1>1. k \in 1..Len(e) /\ d[k] = e[k] /\ (k # 1 => d[k - 1] = e[k - 1])
    BY DEF Continues
<1> QED
    BY <1>1 DEF Chained

(* The head of a chain of records.                                         *)
LEMMA ChainedNext ==
    ASSUME NEW b, NEW e \in Seq(Record), Chained(b, e), NEW r \in Record,
           b[r].index = Len(e), b[r].prev = IF e = <<>> THEN GENESIS ELSE Last(e)
    PROVE  Chained(b, Append(e, r))
<1>1. PICK f : f = Append(e, r)
    OBVIOUS
<1>2. /\ Len(f) = Len(e) + 1 /\ Len(e) \in Nat /\ f[Len(e) + 1] = r
      /\ \A k \in 1..Len(e) : f[k] = e[k]
    BY <1>1
<1>3. SUFFICES ASSUME NEW k \in 1..Len(f)
               PROVE  b[f[k]].index = k - 1 /\ b[f[k]].prev = IF k = 1 THEN GENESIS ELSE f[k - 1]
    BY <1>1 DEF Chained
<1>4. CASE k \in 1..Len(e)
    <2>1. f[k] = e[k] /\ (k # 1 => f[k - 1] = e[k - 1])
        BY <1>2, <1>4
    <2> QED
        BY <2>1, <1>4 DEF Chained
<1>5. CASE k = Len(e) + 1
    <2>1. k = 1 <=> e = <<>>
        BY <1>5
    <2>2. k # 1 => f[k - 1] = Last(e)
        BY <1>2, <1>5 DEF Last
    <2> QED
        BY <2>1, <2>2, <1>2, <1>5
<1> QED
    BY <1>2, <1>4, <1>5

(***************************************************************************)
(* The invariants of the journal and of the chain in it.                   *)
(***************************************************************************)

(* Every step keeps the journal's invariant.                               *)
LEMMA JournalNext == JournalInv /\ [ChainNext]_wvars => JournalInv'
<1> SUFFICES ASSUME JournalInv, [ChainNext]_wvars PROVE JournalInv'
    OBVIOUS
<1>1. ASSUME NEW r \in Record, AppendLocked(r) PROVE JournalInv'
    BY <1>1, OpenKeeps DEF AppendLocked
<1>2. CASE JournalStep
    <2>1. UNCHANGED cuts
        BY <1>2 DEF JournalStep
    <2>2. CASE Boot
        BY <2>1, <2>2, BootKeeps
    <2>3. CASE Write
        BY <2>1, <2>3, WriteKeeps
    <2>4. CASE FsyncFile
        BY <2>1, <2>4, FsyncFileKeeps
    <2>5. CASE FsyncDir
        BY <2>1, <2>5, FsyncDirKeeps
    <2>6. CASE Return
        BY <2>1, <2>6, ReturnKeeps
    <2>7. CASE IOError
        BY <2>1, <2>7, IOErrorKeeps
    <2>8. CASE Kill
        BY <2>1, <2>8, KillKeeps
    <2>9. CASE PowerLoss
        BY <2>1, <2>9, PowerLossKeeps
    <2> QED
        BY <1>2, <2>2, <2>3, <2>4, <2>5, <2>6, <2>7, <2>8, <2>9 DEF JournalStep
<1>3. CASE UNCHANGED wvars
    <2>1. TypeOK' /\ CallInv' /\ OnceInv' /\ DeviceInv' /\ EntryInv'
        BY <1>3 DEF wvars, journalVars, JournalInv, TypeOK, CallInv, OnceInv, DeviceInv, EntryInv
    <2> QED
        BY <2>1 DEF JournalInv
<1> QED
    BY <1>1, <1>2, <1>3 DEF ChainNext

(* What the journal's invariant says to a caller.                          *)
LEMMA JournalTells == JournalInv => AckedSurvives
<1> SUFFICES ASSUME JournalInv PROVE AckedSurvives
    OBVIOUS
<1>1. mem \in Seq(Record)
    BY DEF JournalInv, TypeOK
<1>2. ASSUME up = "up" PROVE returned \ lost \subseteq ToSet(mem)
    BY <1>1, <1>2 DEF JournalInv, DeviceInv, ToSet
<1>3. \A i, j \in 1..Len(mem) : mem[i] = mem[j] => i = j
    BY DEF JournalInv, OnceInv, Distinct
<1>4. lost # {} => kills + ioErrors > 0
    BY DEF JournalInv, EntryInv
<1> QED
    BY <1>2, <1>3, <1>4 DEF AckedSurvives

(* Whatever mixture of failed system calls, kills and power losses came    *)
(* before, a process that booted exposes every record durable_append       *)
(* returned for, exactly once (durable.py, durable_append and read_journal *)
(* with truncate_torn_tail), for any cuts, repairing reader or not.        *)
THEOREM AcknowledgedSurvives == ChainSpec => []AckedSurvives
<1>1. ChainInit => JournalInv
    BY JournalStarts DEF ChainInit
<1> QED
    BY <1>1, JournalNext, JournalTells, PTL DEF ChainSpec


(* A step keeps the shape, when the reader repairs a torn tail.            *)
LEMMA ShapeNext ==
    RepairsTail /\ JournalInv /\ ShapeInv /\ [ChainNext]_wvars => ShapeInv'
<1> SUFFICES ASSUME RepairsTail, JournalInv, ShapeInv, [ChainNext]_wvars, CutInside'
             PROVE  up' # "refused" /\ Shape(file') /\ (up' = "up" => Ended(file'))
    BY DEF ShapeInv
<1>0. /\ file \in Seq(Token) /\ dlen \in 0..Len(file) /\ Len(file) \in Nat
      /\ ioErrors \in Nat
    BY DEF JournalInv, TypeOK, Token
<1>1. ioErrors' # ioErrors => ioErrors' = ioErrors + 1
    BY DEF ChainNext, AppendLocked, JournalStep, Open, Boot, Write, FsyncFile, FsyncDir, Return,
           IOError, Kill, PowerLoss, faultCounts, wvars, journalVars
<1>2. cuts' = cuts
    BY DEF ChainNext, AppendLocked, JournalStep, wvars, journalVars
<1>3. ioErrors = 0 /\ ioErrors' = 0 /\ cuts \subseteq {"inside"} /\ CutInside
    BY <1>0, <1>1, <1>2 DEF CutInside
<1>4. up # "refused" /\ Shape(file) /\ (up = "up" => Ended(file))
    BY <1>3 DEF ShapeInv
<1>5. ASSUME UNCHANGED <<file, up>>
      PROVE  up' # "refused" /\ Shape(file') /\ (up' = "up" => Ended(file'))
    BY <1>4, <1>5
<1>6. ASSUME NEW r \in Record, AppendLocked(r) PROVE UNCHANGED <<file, up>>
    BY <1>6 DEF AppendLocked, Open
<1>7. CASE FsyncFile \/ FsyncDir \/ Return
    BY <1>5, <1>7 DEF FsyncFile, FsyncDir, Return, disk
<1>8. CASE IOError
    BY <1>0, <1>3, <1>8 DEF IOError
<1>9. CASE Boot
    <2>1. ~ReadRaises(file) /\ Shape(LinesRead(file)) /\ Ended(LinesRead(file))
        BY <1>0, <1>4, ShapeIsRead
    <2>2. up' = "up"
        BY <1>9, <2>1 DEF Boot
    <2>3. file' = LinesRead(file)
        <3>1. CASE TornTail(file)
            BY <1>9, <2>1, <3>1 DEF Boot, TruncateTornTail
        <3>2. CASE ~TornTail(file)
            BY <1>9, <2>1, <3>2 DEF Boot, LinesRead, disk
        <3> QED
            BY <3>1, <3>2
    <2> QED
        BY <2>1, <2>2, <2>3
<1>10. CASE Write
    <2>1. up = "up" /\ up' = "up" /\ pc = "opened"
        BY <1>10 DEF Write
    <2>2. PICK r \in Record : cur = {r}
        BY <2>1 DEF JournalInv, CallInv
    <2>3. file' = file \o <<r, NL>>
        BY <1>10, <2>2 DEF Write, Line
    <2> QED
        BY <1>0, <1>4, <2>1, <2>3, ShapeGrows
<1>11. CASE Kill
    <2>1. up = "up" /\ up' = "down"
        BY <1>11 DEF Kill, ProcessDies
    <2>2. CASE pc = "opened"
        <3>1. PICK r \in cur : \E w \in TornWrites(r) : file' = file \o w
            BY <1>11, <2>2 DEF Kill
        <3>2. PICK w \in TornWrites(r) : file' = file \o w
            BY <3>1
        <3>3. r \in Record
            BY DEF JournalInv, TypeOK
        <3>4. Shape(file \o w)
            BY <1>0, <1>3, <1>4, <2>1, <3>3, ShapeGrows
        <3> QED
            BY <2>1, <3>2, <3>4
    <2>3. CASE pc # "opened"
        BY <1>4, <1>11, <2>1, <2>3 DEF Kill
    <2> QED
        BY <2>2, <2>3
<1>12. CASE PowerLoss
    <2>1. up' = "down"
        BY <1>12 DEF PowerLoss, ProcessDies
    <2>2. (\E s \in Survivors : file' = s) \/ file' = <<>>
        BY <1>12 DEF PowerLoss
    <2>3. \A s \in Survivors : Shape(s)
        BY <1>0, <1>3, <1>4, ShapeSurvives
    <2>4. Shape(<<>>)
        BY DEF Shape
    <2> QED
        BY <2>1, <2>2, <2>3, <2>4
<1>13. CASE UNCHANGED wvars
    BY <1>5, <1>13 DEF wvars, journalVars
<1> QED
    BY <1>5, <1>6, <1>7, <1>8, <1>9, <1>10, <1>11, <1>12, <1>13 DEF ChainNext, JournalStep

(* A step keeps what each record says of its place in the chain.           *)
LEMMA ChainNextKeeps ==
    RepairsTail /\ JournalInv /\ ChainTypeOK /\ ChainInv /\ [ChainNext]_wvars => ChainInv'
<1> SUFFICES ASSUME RepairsTail, JournalInv, ChainTypeOK, ChainInv, [ChainNext]_wvars,
                    ioErrors' = 0
             PROVE  /\ Chained(body', Records(file'))
                    /\ up' = "up" /\ pc' \in {"idle", "opened"} => mem' = Records(file')
                    /\ up' = "up" /\ pc' \in {"written", "synced"} =>
                          \A r \in cur' : Records(file') = Append(mem', r)
                    /\ \A r \in cur' : body'[r].index = NextIndex' /\ body'[r].prev = HeadHash'
    BY DEF ChainInv
<1>0. /\ file \in Seq(Token) /\ dlen \in 0..Len(file) /\ Len(file) \in Nat
      /\ ioErrors \in Nat /\ mem \in Seq(Record) /\ cur \subseteq Record
    BY DEF JournalInv, TypeOK, Token
<1>1. ioErrors' # ioErrors => ioErrors' = ioErrors + 1
    BY DEF ChainNext, AppendLocked, JournalStep, Open, Boot, Write, FsyncFile, FsyncDir, Return,
           IOError, Kill, PowerLoss, faultCounts, wvars, journalVars
<1>2. ioErrors = 0
    BY <1>0, <1>1
<1>3. /\ Chained(body, Records(file))
      /\ up = "up" /\ pc \in {"idle", "opened"} => mem = Records(file)
      /\ up = "up" /\ pc \in {"written", "synced"} => \A r \in cur : Records(file) = Append(mem, r)
      /\ \A r \in cur : body[r].index = NextIndex /\ body[r].prev = HeadHash
    BY <1>2 DEF ChainInv
<1> DEFINE Goal == /\ Chained(body', Records(file'))
                   /\ up' = "up" /\ pc' \in {"idle", "opened"} => mem' = Records(file')
                   /\ up' = "up" /\ pc' \in {"written", "synced"} =>
                         \A r \in cur' : Records(file') = Append(mem', r)
                   /\ \A r \in cur' : body'[r].index = NextIndex' /\ body'[r].prev = HeadHash'
<1>4. PICK e : e = Records(file)
    OBVIOUS
<1>5. /\ e \in Seq(Record)
      /\ \A k \in 1..Len(e) : \E i \in 1..Len(file) : e[k] = file[i]
    BY <1>0, <1>4, RecordsContent
<1>6. ASSUME NEW r \in Record, AppendLocked(r) PROVE Goal
    <2>1. /\ up = "up" /\ pc = "idle" /\ r \notin used /\ pc' = "opened" /\ cur' = {r}
          /\ used' = used \union {r} /\ UNCHANGED <<file, up, mem>>
          /\ body' = [q \in used' |-> IF q = r THEN [index |-> NextIndex, prev |-> HeadHash]
                                      ELSE body[q]]
        BY <1>6 DEF AppendLocked, Open
    <2>2. PICK b : b = body'
        OBVIOUS
    <2>3. b[r].index = NextIndex /\ b[r].prev = HeadHash
        BY <2>1, <2>2
    <2>4. \A k \in 1..Len(e) : b[e[k]] = body[e[k]]
        <3>1. \A k \in 1..Len(e) : e[k] \in used /\ e[k] # r
            BY <1>5, <2>1 DEF JournalInv, OnceInv, Once
        <3> QED
            BY <2>1, <2>2, <3>1
    <2>5. Chained(b, e)
        BY <1>3, <1>4, <2>4 DEF Chained
    <2>6. NextIndex' = NextIndex /\ HeadHash' = HeadHash
        BY <2>1 DEF NextIndex, HeadHash
    <2>7. mem' = Records(file')
        BY <1>3, <2>1
    <2>8. Chained(body', Records(file'))
        BY <1>4, <2>1, <2>2, <2>5
    <2>9. \A q \in cur' : body'[q].index = NextIndex' /\ body'[q].prev = HeadHash'
        BY <2>1, <2>2, <2>3, <2>6
    <2> QED
        BY <2>1, <2>7, <2>8, <2>9
<1>7. CASE JournalStep /\ UNCHANGED body
    <2>1. CASE Boot
        <3>1. /\ up = "down" /\ UNCHANGED <<pc, cur>> /\ pc' = "idle" /\ cur' = {}
            BY <2>1 DEF Boot, appendCall, JournalInv, CallInv
        <3>2. CASE ReadRaises(file)
            <4>1. up' = "refused" /\ file' = file
                BY <2>1, <3>2 DEF Boot, disk
            <4> QED
                BY <1>3, <1>7, <3>1, <4>1
        <3>3. CASE ~ReadRaises(file)
            <4>1. mem' = Records(LinesRead(file))
                BY <2>1, <3>3 DEF Boot, Events
            <4>2. file' = LinesRead(file)
                <5>1. CASE TornTail(file)
                    BY <2>1, <3>3, <5>1 DEF Boot, TruncateTornTail
                <5>2. CASE ~TornTail(file)
                    BY <2>1, <3>3, <5>2 DEF Boot, LinesRead, disk
                <5> QED
                    BY <5>1, <5>2
            <4>3. PICK n \in 0..Len(file) : LinesRead(file) = SubSeq(file, 1, n)
                BY <1>0, LinesReadCut
            <4>4. PICK t : t = LinesRead(file)
                OBVIOUS
            <4>5. t \in Seq(Token)
                BY <1>0, <4>3, <4>4
            <4>6. Records(t) \in Seq(Record)
                BY <4>5, RecordsContent
            <4>7. Continues(e, Records(t))
                BY <1>0, <1>4, <4>3, <4>4, RecordsOfPrefix
            <4>8. Chained(body, Records(t))
                BY <1>3, <1>4, <1>5, <4>6, <4>7, ChainedCut
            <4>9. file' = t /\ mem' = Records(t)
                BY <4>1, <4>2, <4>4
            <4> QED
                BY <1>7, <3>1, <4>8, <4>9
        <3> QED
            BY <3>2, <3>3
    <2>2. CASE Write
        <3>1. /\ up = "up" /\ pc = "opened" /\ pc' = "written" /\ UNCHANGED <<up, cur, mem>>
            BY <2>2 DEF Write
        <3>2. PICK r \in Record : cur = {r}
            BY <3>1 DEF JournalInv, CallInv
        <3>3. file' = file \o <<r, NL>>
            BY <2>2, <3>2 DEF Write, Line
        <3>4. Records(file') = Append(e, r)
            BY <1>0, <1>4, <3>3, RecordsOfLine
        <3>5. mem = e /\ body[r].index = Len(e)
              /\ body[r].prev = IF e = <<>> THEN GENESIS ELSE Last(e)
            BY <1>3, <1>4, <3>1, <3>2 DEF NextIndex, HeadHash
        <3>6. Chained(body, Append(e, r))
            BY <1>3, <1>4, <1>5, <3>5, ChainedNext
        <3>7. NextIndex' = NextIndex /\ HeadHash' = HeadHash
            BY <3>1 DEF NextIndex, HeadHash
        <3>8. \A q \in cur' : body'[q].index = NextIndex' /\ body'[q].prev = HeadHash'
            BY <1>3, <1>7, <3>1, <3>7
        <3>9. \A q \in cur' : Records(file') = Append(mem', q)
            BY <3>1, <3>2, <3>4, <3>5
        <3>10. Chained(body', Records(file'))
            BY <1>7, <3>4, <3>6
        <3> QED
            BY <3>1, <3>8, <3>9, <3>10
    <2>3. CASE FsyncFile \/ FsyncDir
        <3>1. /\ UNCHANGED <<file, up, cur, mem>> /\ pc \in {"written", "synced"}
              /\ pc' \in {"written", "synced"} /\ up = "up"
            BY <2>3 DEF FsyncFile, FsyncDir
        <3>2. NextIndex' = NextIndex /\ HeadHash' = HeadHash
            BY <3>1 DEF NextIndex, HeadHash
        <3>3. \A q \in cur' : Records(file') = Append(mem', q)
            BY <1>3, <3>1
        <3> QED
            BY <1>3, <1>7, <3>1, <3>2, <3>3
    <2>4. CASE Return
        <3>1. /\ up = "up" /\ pc = "synced" /\ pc' = "idle" /\ cur' = {} /\ UNCHANGED <<file, up>>
            BY <2>4 DEF Return, disk
        <3>2. PICK r \in Record : cur = {r}
            BY <3>1 DEF JournalInv, CallInv
        <3>3. mem' = Append(mem, r)
            BY <2>4, <3>2 DEF Return
        <3>4. mem' = Records(file')
            BY <1>3, <3>1, <3>2, <3>3
        <3> QED
            BY <1>3, <1>7, <3>1, <3>4
    <2>5. CASE IOError
        BY <1>0, <1>2, <2>5 DEF IOError
    <2>6. CASE Kill
        <3>1. up = "up" /\ up' = "down" /\ cur' = {}
            BY <2>6 DEF Kill, ProcessDies
        <3>2. Chained(body, Records(file'))
            <4>1. CASE pc = "opened"
                <5>1. PICK r \in cur : \E w \in TornWrites(r) : file' = file \o w
                    BY <2>6, <4>1 DEF Kill
                <5>2. PICK w \in TornWrites(r) : file' = file \o w
                    BY <5>1
                <5>3. r \in Record
                    BY <1>0
                <5>4. Records(file') = e \/ Records(file') = Append(e, r)
                    BY <1>0, <1>4, <5>2, <5>3, TornRecords
                <5>5. mem = e /\ body[r].index = Len(e)
                      /\ body[r].prev = IF e = <<>> THEN GENESIS ELSE Last(e)
                    BY <1>3, <1>4, <3>1, <4>1 DEF NextIndex, HeadHash
                <5>6. Chained(body, Append(e, r))
                    BY <1>3, <1>4, <1>5, <5>3, <5>5, ChainedNext
                <5> QED
                    BY <1>3, <1>4, <5>4, <5>6
            <4>2. CASE pc # "opened"
                BY <1>3, <2>6, <4>2 DEF Kill
            <4> QED
                BY <4>1, <4>2
        <3> QED
            BY <1>7, <3>1, <3>2
    <2>7. CASE PowerLoss
        <3>1. up' = "down" /\ cur' = {}
            BY <2>7 DEF PowerLoss, ProcessDies
        <3>2. (\E s \in Survivors : file' = s) \/ file' = <<>>
            BY <2>7 DEF PowerLoss
        <3>3. ASSUME NEW s \in Survivors PROVE Chained(body, Records(s))
            <4>1. PICK n \in dlen..Len(file) : Records(s) = Records(SubSeq(file, 1, n))
                BY <1>0, SurvivorTokens
            <4>2. n \in 0..Len(file)
                BY <1>0
            <4>3. PICK u : u = SubSeq(file, 1, n)
                OBVIOUS
            <4>4. u \in Seq(Token)
                BY <1>0, <4>2, <4>3
            <4>5. Records(u) \in Seq(Record)
                BY <4>4, RecordsContent
            <4>6. Continues(e, Records(u))
                BY <1>0, <1>4, <4>2, <4>3, RecordsOfPrefix
            <4>7. Chained(body, Records(u))
                BY <1>3, <1>4, <1>5, <4>5, <4>6, ChainedCut
            <4> QED
                BY <4>1, <4>3, <4>7
        <3>4. Chained(body, Records(<<>>))
            BY RecordsOfNothing DEF Chained
        <3> QED
            BY <1>7, <3>1, <3>2, <3>3, <3>4
    <2> QED
        BY <1>7, <2>1, <2>2, <2>3, <2>4, <2>5, <2>6, <2>7 DEF JournalStep
<1>8. CASE UNCHANGED wvars
    <2>1. UNCHANGED <<file, up, pc, cur, mem, body>>
        BY <1>8 DEF wvars, journalVars
    <2>2. NextIndex' = NextIndex /\ HeadHash' = HeadHash
        BY <2>1 DEF NextIndex, HeadHash
    <2> QED
        BY <1>3, <2>1, <2>2
<1> QED
    BY <1>6, <1>7, <1>8 DEF ChainNext

(* The fields of every record are fixed before its first byte.             *)
LEMMA ChainTypeNext ==
    JournalInv /\ ChainTypeOK /\ [ChainNext]_wvars => ChainTypeOK'
<1> SUFFICES ASSUME JournalInv, ChainTypeOK, [ChainNext]_wvars PROVE ChainTypeOK'
    OBVIOUS
<1>1. TypeOK'
    BY JournalNext DEF JournalInv
<1>2. body' \in [used' -> Body]
    <2>1. ASSUME NEW r \in Record, AppendLocked(r) PROVE body' \in [used' -> Body]
        <3>1. HeadHash \in Record \union {GENESIS} /\ NextIndex \in Nat
            BY DEF HeadHash, NextIndex, Last, JournalInv, TypeOK
        <3>2. [index |-> NextIndex, prev |-> HeadHash] \in Body
            BY <3>1 DEF Body
        <3>3. used' = used \union {r}
            BY <2>1 DEF AppendLocked, Open
        <3> QED
            BY <2>1, <3>2, <3>3 DEF AppendLocked, ChainTypeOK
    <2>2. CASE JournalStep /\ UNCHANGED body
        <3>1. used' = used
            BY <2>2 DEF JournalStep, Boot, Write, FsyncFile, FsyncDir, Return, IOError, Kill, PowerLoss
        <3> QED
            BY <2>2, <3>1 DEF ChainTypeOK
    <2>3. CASE UNCHANGED wvars
        BY <2>3 DEF wvars, journalVars, ChainTypeOK
    <2> QED
        BY <2>1, <2>2, <2>3 DEF ChainNext
<1> QED
    BY <1>1, <1>2 DEF ChainTypeOK

(* What the invariants say to a caller who boots and verifies.             *)
LEMMA ChainTells ==
    JournalInv /\ ShapeInv /\ ChainInv => CrashedChainBoots
<1> SUFFICES ASSUME JournalInv, ShapeInv, ChainInv PROVE CrashedChainBoots
    OBVIOUS
<1>1. CrashNeverRefusesBoot
    BY DEF ShapeInv, CrashNeverRefusesBoot
<1>2. ASSUME up = "up", ioErrors = 0 PROVE VerifyChain
    <2>1. mem \in Seq(Record) /\ file \in Seq(Token) /\ pc \in {"idle", "opened", "written", "synced"}
        BY DEF JournalInv, TypeOK, Token
    <2>2. PICK e : e = Records(file)
        OBVIOUS
    <2>3. e \in Seq(Record) /\ Chained(body, e)
        BY <1>2, <2>1, <2>2, RecordsContent DEF ChainInv
    <2>4. Continues(e, mem)
        <3>1. CASE pc \in {"idle", "opened"}
            BY <1>2, <2>1, <2>2, <3>1 DEF ChainInv, Continues
        <3>2. CASE pc \in {"written", "synced"}
            <4>1. PICK r \in Record : cur = {r}
                BY <3>2 DEF JournalInv, CallInv
            <4>2. e = Append(mem, r)
                BY <1>2, <2>2, <3>2, <4>1 DEF ChainInv
            <4> QED
                BY <2>1, <4>2 DEF Continues
        <3> QED
            BY <2>1, <3>1, <3>2
    <2>5. Chained(body, mem)
        BY <2>1, <2>3, <2>4, ChainedCut
    <2> QED
        BY <2>5 DEF Chained, VerifyChain
<1> QED
    BY <1>1, <1>2 DEF CrashedChainBoots

(* "persist BEFORE exposing" (witness.py, _append_locked over              *)
(* durable_append): with a reader that repairs torn tails, as WitnessChain *)
(* does, no kill and no power loss refuses a boot when cuts fall inside a  *)
(* record, and the chain a process exposes verifies as long as no append   *)
(* failed in a process that went on appending.                             *)
THEOREM CrashedChainVerifies ==
    ASSUME RepairsTail
    PROVE  ChainSpec => []CrashedChainBoots
<1>1. ChainInit => JournalInv /\ ShapeInv /\ ChainInv /\ ChainTypeOK
    <2> SUFFICES ASSUME ChainInit PROVE JournalInv /\ ShapeInv /\ ChainInv /\ ChainTypeOK
        OBVIOUS
    <2>1. JournalInv
        BY JournalStarts DEF ChainInit
    <2>2. ShapeInv
        BY DEF ChainInit, Init, ShapeInv, Shape, Ended
    <2>3. ChainInv
        BY RecordsOfNothing DEF ChainInit, Init, ChainInv, Chained
    <2>4. ChainTypeOK
        <3>1. used = {} /\ body = [r \in {} |-> 0]
            BY DEF ChainInit, Init
        <3> QED
            BY <2>1, <3>1 DEF ChainTypeOK, JournalInv
    <2> QED
        BY <2>1, <2>2, <2>3, <2>4
<1>2. /\ JournalInv /\ ShapeInv /\ ChainInv /\ ChainTypeOK
      /\ [ChainNext]_wvars
      => (JournalInv /\ ShapeInv /\ ChainInv /\ ChainTypeOK)'
    BY JournalNext, ShapeNext, ChainNextKeeps, ChainTypeNext
<1> QED
    BY <1>1, <1>2, ChainTells, PTL DEF ChainSpec

================================================================================
