---------------------------- MODULE DurableJournal ----------------------------
(***************************************************************************)
(* jjdai/durable.py: one append-only JSONL journal, its writer and the     *)
(* disk below it.  The file is a sequence of tokens: a record stands for   *)
(* its complete JSON text, Frag for a proper prefix of one, BadFrag for a  *)
(* prefix that ends inside a multi-byte UTF-8 character (durable_append    *)
(* writes with ensure_ascii=False), NL for the newline.  `dlen' is the     *)
(* length fsync has forced to the device; the rest is page cache, which    *)
(* survives a killed process and not a power loss.                         *)
(***************************************************************************)
EXTENDS Naturals, Sequences, FiniteSets, SequencesExt

CONSTANTS Record,       \* every append attempts a fresh record
          NL, Frag, BadFrag,
          Cuts,         \* the sets of places where an interrupted write may end
          RepairsTail,  \* does the reader call truncate_torn_tail at boot?
          MaxKills, MaxPowerLosses, MaxIOErrors

CutPoints == {"inside", "character", "newline"}

ASSUME JournalAssumption ==
    /\ NL \notin Record /\ Frag \notin Record /\ BadFrag \notin Record
    /\ NL # Frag /\ NL # BadFrag /\ Frag # BadFrag
    /\ Cuts \subseteq SUBSET CutPoints
    /\ RepairsTail \in BOOLEAN
    /\ MaxKills \in Nat /\ MaxPowerLosses \in Nat /\ MaxIOErrors \in Nat

VARIABLES
    cuts,      \* where writes may be cut, fixed by the disk
    file,      \* what a reader of the path sees now
    dlen,      \* length of its prefix that is on the device
    entry,     \* the directory entry: "absent", "volatile" or "durable"
    up,        \* the process: "up", "down" or "refused" (the boot raised)
    pc,        \* inside durable_append: "idle", "opened", "written", "synced"
    cur,       \* the record being appended (a set with at most one element)
    isNew,     \* is_new of the running call
    mem,       \* the records the process exposes
    used,      \* every record whose append was attempted
    returned,     \* ghost: the appends that returned
    lost,      \* ghost: acknowledged records whose file vanished
    kills, losses, ioErrors

journalVars == <<cuts, file, dlen, entry, up, pc, cur, isNew, mem, used, returned, lost,
          kills, losses, ioErrors>>
disk == <<file, dlen, entry>>
appendCall == <<pc, cur, isNew>>
ghosts == <<returned, lost>>
faultCounts == <<kills, losses, ioErrors>>

TypeOK ==
    /\ cuts \in Cuts
    /\ file \in Seq(Record \union {NL, Frag, BadFrag})
    /\ dlen \in 0..Len(file)
    /\ entry \in {"absent", "volatile", "durable"}
    /\ up \in {"up", "down", "refused"}
    /\ pc \in {"idle", "opened", "written", "synced"}
    /\ cur \subseteq used /\ used \subseteq Record
    /\ isNew \in BOOLEAN
    /\ mem \in Seq(Record)
    /\ returned \subseteq used /\ lost \subseteq returned
    /\ kills \in 0..MaxKills
    /\ losses \in 0..MaxPowerLosses
    /\ ioErrors \in 0..MaxIOErrors

Init ==
    /\ cuts \in Cuts
    /\ file = <<>> /\ dlen = 0 /\ entry = "absent"
    /\ up = "down" /\ pc = "idle" /\ cur = {} /\ isNew = FALSE
    /\ mem = <<>> /\ used = {} /\ returned = {} /\ lost = {}
    /\ kills = 0 /\ losses = 0 /\ ioErrors = 0

----------------------------------------------------------------------------
(* What an interrupted write leaves behind.                                *)

Fragments == (IF "inside" \in cuts THEN {Frag} ELSE {})
             \union (IF "character" \in cuts THEN {BadFrag} ELSE {})

TornWrites(r) == {<<>>, <<r, NL>>} \union {<<f>> : f \in Fragments}
                 \union (IF "newline" \in cuts THEN {<<r>>} ELSE {})

(* The prefixes of the file a power loss may leave on the device: at least *)
(* what fsync forced, and possibly a record cut short.                     *)
Survivors ==
    {SubSeq(file, 1, n) : n \in
        {m \in dlen..Len(file) :
            m = Len(file) \/ file[m + 1] # NL \/ "newline" \in cuts
                          \/ (m > 0 /\ file[m] \notin Record)}}
    \union UNION {{Append(SubSeq(file, 1, n), f) : f \in Fragments} : n \in
        {m \in dlen..(Len(file) - 1) : file[m + 1] \in Record}}

----------------------------------------------------------------------------
(* read_journal: how a reader sees a file.                                 *)

WholeLine(s, i) ==
    /\ s[i] \in Record
    /\ i = 1 \/ s[i - 1] = NL
    /\ i = Len(s) \/ s[i + 1] = NL
Malformed(s, i) == s[i] # NL /\ ~WholeLine(s, i)

InTail(s, i) == \A j \in i..Len(s) : s[j] # NL

Undecodable(s) == \E i \in 1..Len(s) : s[i] = BadFrag
Corrupt(s) == \E i \in 1..Len(s) : Malformed(s, i) /\ ~InTail(s, i)
TornTail(s) == \E i \in 1..Len(s) : Malformed(s, i) /\ InTail(s, i)

ReadRaises(s) == Undecodable(s) \/ Corrupt(s)
LinesRead(s) ==
    IF TornTail(s)
    THEN SubSeq(s, 1, CHOOSE n \in 0..Len(s) : /\ n = 0 \/ s[n] = NL
                                               /\ n < Len(s) => InTail(s, n + 1))
    ELSE s
Records(s) ==
    LET kept[n \in 0..Len(s)] ==
            IF n = 0 THEN <<>>
            ELSE IF s[n] \in Record THEN Append(kept[n - 1], s[n]) ELSE kept[n - 1]
    IN  kept[Len(s)]
Events(s) == Records(LinesRead(s))

(* truncate_torn_tail: an atomic replace, with both fsyncs.                *)
TruncateTornTail ==
    /\ file' = LinesRead(file)
    /\ dlen' = Len(file')
    /\ entry' = "durable"

(* A boot reads the journal; a torn tail is dropped from memory and, when  *)
(* the reader repairs, from the file.                                      *)
Boot ==
    /\ up = "down"
    /\ IF ReadRaises(file)
       THEN up' = "refused" /\ UNCHANGED <<disk, mem>>
       ELSE /\ up' = "up"
            /\ mem' = Events(file)
            /\ IF TornTail(file) /\ RepairsTail
               THEN TruncateTornTail
               ELSE UNCHANGED disk
    /\ UNCHANGED <<appendCall, used, ghosts, faultCounts>>

----------------------------------------------------------------------------
(* durable_append: open, write and flush, fsync the file, fsync the        *)
(* directory if the file was new, return to the caller, who exposes.       *)

Open(r) ==
    /\ up = "up" /\ pc = "idle" /\ r \notin used
    /\ pc' = "opened" /\ cur' = {r} /\ used' = used \union {r}
    /\ isNew' = (entry = "absent")
    /\ entry' = IF entry = "absent" THEN "volatile" ELSE entry
    /\ UNCHANGED <<file, dlen, up, mem, ghosts, faultCounts>>

(* The bytes of one append.                                                *)
Line(r) == <<r, NL>>

Write ==
    /\ up = "up" /\ pc = "opened"
    /\ \E r \in cur : file' = file \o Line(r)
    /\ pc' = "written"
    /\ UNCHANGED <<dlen, entry, up, cur, isNew, mem, used, ghosts, faultCounts>>

(* Mutant: flush without fsync.                                            *)
FsyncSkipped ==
    /\ up = "up" /\ pc = "written"
    /\ pc' = "synced"
    /\ UNCHANGED <<disk, up, cur, isNew, mem, used, ghosts, faultCounts>>

FsyncFile ==
    /\ up = "up" /\ pc = "written"
    /\ dlen' = Len(file)
    /\ pc' = "synced"
    /\ UNCHANGED <<file, entry, up, cur, isNew, mem, used, ghosts, faultCounts>>

FsyncDir ==
    /\ up = "up" /\ pc = "synced" /\ isNew
    /\ entry' = "durable" /\ isNew' = FALSE
    /\ UNCHANGED <<file, dlen, up, pc, cur, mem, used, ghosts, faultCounts>>

Return ==
    /\ up = "up" /\ pc = "synced" /\ ~isNew
    /\ \E r \in cur : mem' = Append(mem, r)
    /\ returned' = returned \union cur
    /\ pc' = "idle" /\ cur' = {}
    /\ UNCHANGED <<disk, up, isNew, used, lost, faultCounts>>

(* Any of the three system calls raises: the bytes already handed to the   *)
(* kernel stay, nothing truncates them, and the caller exposes nothing.    *)
IOError ==
    /\ up = "up" /\ pc # "idle" /\ ioErrors < MaxIOErrors
    /\ pc = "synced" => isNew
    /\ IF pc = "opened"
       THEN \E r \in cur : \E t \in TornWrites(r) : file' = file \o t
       ELSE UNCHANGED file
    /\ pc' = "idle" /\ cur' = {} /\ isNew' = FALSE
    /\ ioErrors' = ioErrors + 1
    /\ UNCHANGED <<dlen, entry, up, mem, used, ghosts, kills, losses>>

----------------------------------------------------------------------------
(* The environment.                                                        *)

ProcessDies == /\ up' = "down" /\ pc' = "idle" /\ cur' = {}
               /\ isNew' = FALSE /\ mem' = <<>>

Kill ==
    /\ up = "up" /\ kills < MaxKills
    /\ IF pc = "opened"
       THEN \E r \in cur : \E t \in TornWrites(r) : file' = file \o t
       ELSE UNCHANGED file
    /\ ProcessDies
    /\ kills' = kills + 1
    /\ UNCHANGED <<dlen, entry, used, ghosts, losses, ioErrors>>

PowerLoss ==
    /\ up = "up" /\ losses < MaxPowerLosses
    /\ \/ /\ \E s \in Survivors : file' = s /\ dlen' = Len(s)
          /\ entry' = IF entry = "volatile" THEN "durable" ELSE entry
          /\ UNCHANGED lost
       \/ /\ entry = "volatile"
          /\ file' = <<>> /\ dlen' = 0 /\ entry' = "absent"
          /\ lost' = lost \union returned
    /\ ProcessDies
    /\ losses' = losses + 1
    /\ UNCHANGED <<used, returned, kills, ioErrors>>

(* Every step but the start of an append, which is the owner's.            *)
JournalStep ==
    /\ Boot \/ Write \/ FsyncFile \/ FsyncDir \/ Return \/ IOError \/ Kill \/ PowerLoss
    /\ UNCHANGED cuts

----------------------------------------------------------------------------
(* Properties.                                                             *)

(* No acknowledged append is ever dropped silently or told twice: whatever *)
(* mixture of failed system calls, kills and power losses came before, a   *)
(* process that booted exposes every record durable_append returned for,   *)
(* exactly once.  `lost' are those of a file that vanished with its        *)
(* directory entry: "fsync(dir) is needed too the first time", so power    *)
(* losses alone never cost one; it takes an earlier append interrupted     *)
(* between creating the file and forcing its entry.                        *)
AckedSurvives ==
    /\ up = "up" => (returned \ lost) \subseteq ToSet(mem)
    /\ \A i, j \in 1..Len(mem) : mem[i] = mem[j] => i = j
    /\ lost # {} => kills + ioErrors > 0

CutInside == cuts \subseteq {"inside"} /\ ioErrors = 0

(* "A torn line in the MIDDLE cannot be explained by a crash": nothing in  *)
(* this model tampers with the file, so crashes alone refuse no boot.  It  *)
(* holds when writes are cut inside a record; a cut exactly before the     *)
(* newline or inside a character breaks it.                                *)
CrashNeverRefusesBoot == CutInside => up # "refused"
=============================================================================
