------------------------------ MODULE HashChain ------------------------------
(***************************************************************************)
(* The hash-chained JSONL log (common/hash_chain.py) under several         *)
(* processes: append under flock with repair of a torn tail and reload of  *)
(* a cached head, short writes and their rollback, seal and the anchor     *)
(* file, the kill of a process, a power loss that takes the lines not yet  *)
(* synced, and verify_chain.                                               *)
(*                                                                         *)
(* A hash is the name of the record it is the hash of (no collisions), and *)
(* a file's size is its number of lines and whether a fragment follows.    *)
(***************************************************************************)
EXTENDS Naturals, SequencesExt

CONSTANTS
    Process,        \* each has one HashChainLog on the file
    MaxRecords,     \* bound: append attempts
    MaxSeals,       \* bound: seals
    MaxChainFaults, \* bound: failing writes, kills and power losses
    Nobody

ASSUME HashChainAssumption ==
    /\ {MaxRecords, MaxSeals, MaxChainFaults} \subseteq Nat
    /\ Nobody \notin Process

VARIABLES
    logFile,    \* complete lines
    torn,       \* a fragment without a newline follows them
    anchor,     \* the .head file, or NoAnchor
    flock,      \* holder of the lock on the log file, or Nobody
    chain,      \* process -> fields of its HashChainLog, and its call in progress
    synced,     \* lines a power loss cannot take
    attempts,   \* append attempts, the names of records
    seals,
    chainFaults,
    acked,      \* history: records append(sync=True) has returned
    raced       \* history: a size was remembered that includes another's record

chainVars == <<logFile, torn, anchor, flock, chain, synced, attempts, seals,
               chainFaults, acked, raced>>

Genesis == 0            \* genesis_hash
LegacyName == MaxRecords + 1    \* record_hash of the legacy record
Unknown == <<0, FALSE>>
NoAnchor == [seq |-> 0, hash |-> LegacyName + 1]

LegacyLine == [seq |-> 0, prev |-> Genesis, hash |-> LegacyName, linked |-> FALSE, legacy |-> TRUE]

\* __init__
FreshChain == [loaded |-> FALSE, next |-> 1, prev |-> Genesis, linked |-> FALSE,
               size |-> Unknown, clear |-> TRUE, stage |-> "idle", rec |-> 0, sync |-> FALSE]

ChainInit ==
    /\ logFile \in {<<>>, <<LegacyLine>>}
    /\ torn = FALSE
    /\ anchor = NoAnchor
    /\ flock = Nobody
    /\ chain = [p \in Process |-> FreshChain]
    /\ synced = Len(logFile)
    /\ attempts = 0
    /\ seals = 0
    /\ chainFaults = 0
    /\ acked = {}
    /\ raced = FALSE

-----------------------------------------------------------------------------
(* The cached head                                                         *)

SizeOf(lines, fragment) == <<Len(lines) + 1, fragment>>

\* _ensure_loaded: the head is the last line, the sequence goes on from the
\* largest number; a chain on legacy lines links to the last of them.
Load(c, lines) ==
    IF c.loaded THEN c
    ELSE IF lines = <<>> THEN [c EXCEPT !.loaded = TRUE]
    ELSE [c EXCEPT !.loaded = TRUE,
                   !.prev = Last(lines).hash,
                   !.linked = Last(lines).legacy,
                   !.next = Last(lines).seq + 1]

\* Mutant: the head is loaded once per process.
ReloadNever(c, lines, fragment) == Load(c, lines)

\* _reload_if_externally_appended, then _ensure_loaded.
Reload(c, lines, fragment) ==
    IF c.loaded /\ c.size # SizeOf(lines, fragment)
    THEN Load([c EXCEPT !.loaded = FALSE, !.next = 1, !.prev = Genesis, !.linked = FALSE], lines)
    ELSE Load(c, lines)

-----------------------------------------------------------------------------
(* append                                                                  *)

\* _drop_stale_anchor comes before the lock on the file.
BeginAppend(p, sync) ==
    /\ chain[p].stage = "idle"
    /\ attempts < MaxRecords
    /\ attempts' = attempts + 1
    /\ anchor' = IF chain[p].clear THEN NoAnchor ELSE anchor
    /\ chain' = [chain EXCEPT ![p] = [@ EXCEPT !.clear = FALSE, !.stage = "waiting",
                                               !.rec = attempts', !.sync = sync]]
    /\ UNCHANGED <<logFile, torn, flock, synced, seals, chainFaults, acked, raced>>

\* _repair_torn_tail: the fragment goes to the .torn file.
RepairTornTail == torn' = FALSE

\* The lock, the repair, the head.
EnterAppend(p) ==
    /\ chain[p].stage = "waiting"
    /\ flock = Nobody
    /\ flock' = p
    /\ RepairTornTail
    /\ chain' = [chain EXCEPT ![p] = [Reload(@, logFile, torn') EXCEPT !.stage = "writing"]]
    /\ UNCHANGED <<logFile, anchor, synced, attempts, seals, chainFaults, acked, raced>>

\* The line of the record; bytes written after a fragment make one line with
\* it that nobody can parse.
ChainedLine(p) ==
    [seq |-> chain[p].next, prev |-> IF torn THEN LegacyName + 2 ELSE chain[p].prev,
     hash |-> chain[p].rec, legacy |-> FALSE,
     linked |-> chain[p].linked /\ chain[p].next = 1]

\* The exception handler: the next append scans the file again.
Forget(p) == chain' = [chain EXCEPT ![p] = [@ EXCEPT !.loaded = FALSE, !.size = Unknown,
                                                     !.stage = "idle"]]

\* Mutant: the sync of every record is deferred to the seal.
SyncLater(p, lines) == synced

\* os.fsync, when the caller asked for it.
SyncRecord(p, lines) == IF chain[p].sync THEN Len(lines) ELSE synced

\* The record is in the file (and synced), and the lock is given back.
WriteRecord(p) ==
    /\ chain[p].stage = "writing"
    /\ logFile' = Append(logFile, ChainedLine(p))
    /\ torn' = FALSE
    /\ synced' = SyncRecord(p, logFile')
    /\ acked' = IF chain[p].sync THEN acked \cup {chain[p].rec} ELSE acked
    /\ chain' = [chain EXCEPT ![p].stage = "written"]
    /\ flock' = Nobody
    /\ UNCHANGED <<anchor, attempts, seals, chainFaults, raced>>

\* A short write is truncated away; if that fails, or the write went through
\* the buffered handle, a fragment stays; an fsync may fail after the write.
WriteFails(p) ==
    /\ chain[p].stage = "writing"
    /\ chainFaults < MaxChainFaults
    /\ chainFaults' = chainFaults + 1
    /\ \/ UNCHANGED <<logFile, torn>>
       \/ torn' = TRUE /\ UNCHANGED logFile
       \/ /\ chain[p].sync
          /\ logFile' = Append(logFile, ChainedLine(p)) /\ torn' = FALSE
    /\ Forget(p)
    /\ flock' = Nobody
    /\ UNCHANGED <<anchor, synced, attempts, seals, acked, raced>>

\* The cached head moves on and _remember_size stats the file: by now the lock
\* is free and another process may have written.
RememberSize(p) ==
    LET c == chain[p] IN
    /\ c.stage = "written"
    /\ chain' = [chain EXCEPT ![p] = [c EXCEPT !.stage = "idle", !.prev = c.rec,
                                               !.next = c.next + 1,
                                               !.size = SizeOf(logFile, torn)]]
    /\ raced' = (raced \/ Last(logFile).hash # c.rec)
    /\ UNCHANGED <<logFile, torn, anchor, flock, synced, attempts, seals, chainFaults, acked>>

-----------------------------------------------------------------------------
(* seal and unseal                                                         *)

\* The log is synced before the anchor names its head.
SyncLog == synced' = Len(logFile)

\* seal takes the process's own lock, not the one on the file.
BeginSeal(p) ==
    /\ chain[p].stage = "idle"
    /\ logFile # <<>>
    /\ seals < MaxSeals
    /\ seals' = seals + 1
    /\ SyncLog
    /\ chain' = [chain EXCEPT ![p] = [Reload(@, logFile, torn) EXCEPT !.stage = "sealing"]]
    /\ UNCHANGED <<logFile, torn, anchor, flock, attempts, chainFaults, acked, raced>>

\* The anchor is replaced atomically, or cannot be written.
WriteAnchor(p) ==
    LET c == chain[p] IN
    /\ c.stage = "sealing"
    /\ \/ /\ anchor' = [seq |-> c.next - 1, hash |-> c.prev]
          /\ chain' = [chain EXCEPT ![p] = [c EXCEPT !.stage = "idle", !.clear = TRUE]]
          /\ UNCHANGED chainFaults
       \/ /\ chainFaults < MaxChainFaults
          /\ chainFaults' = chainFaults + 1
          /\ chain' = [chain EXCEPT ![p].stage = "idle"]
          /\ UNCHANGED anchor
    /\ UNCHANGED <<logFile, torn, flock, synced, attempts, seals, acked, raced>>

\* unseal, when a finished run is resumed.
Unseal(p) ==
    /\ chain[p].stage = "idle"
    /\ anchor # NoAnchor
    /\ anchor' = NoAnchor
    /\ UNCHANGED <<logFile, torn, flock, chain, synced, attempts, seals, chainFaults, acked, raced>>

-----------------------------------------------------------------------------
(* Crashes                                                                 *)

\* A process dies, perhaps in the middle of a write, and its lock with it.
Kill(p) ==
    /\ chain[p].loaded \/ chain[p].stage # "idle"
    /\ chainFaults < MaxChainFaults
    /\ chainFaults' = chainFaults + 1
    /\ torn' \in IF chain[p].stage = "writing" THEN BOOLEAN ELSE {torn}
    /\ flock' = IF flock = p THEN Nobody ELSE flock
    /\ chain' = [chain EXCEPT ![p] = FreshChain]
    /\ UNCHANGED <<logFile, anchor, synced, attempts, seals, acked, raced>>

\* The machine dies: what was not synced may be gone, in part or altogether.
PowerLoss ==
    /\ chainFaults < MaxChainFaults
    /\ chainFaults' = chainFaults + 1
    /\ \E n \in synced .. Len(logFile) :
          /\ logFile' = SubSeq(logFile, 1, n)
          /\ torn' \in IF n < Len(logFile) \/ torn THEN BOOLEAN ELSE {FALSE}
          /\ synced' = n
    /\ flock' = Nobody
    /\ chain' = [p \in Process |-> FreshChain]
    /\ UNCHANGED <<anchor, attempts, seals, acked, raced>>

-----------------------------------------------------------------------------
ChainNext ==
    \/ \E p \in Process :
          \/ \E sync \in BOOLEAN : BeginAppend(p, sync)
          \/ EnterAppend(p) \/ WriteRecord(p) \/ WriteFails(p) \/ RememberSize(p)
          \/ BeginSeal(p) \/ WriteAnchor(p) \/ Unseal(p) \/ Kill(p)
    \/ PowerLoss

ChainSpec == ChainInit /\ [][ChainNext]_chainVars

-----------------------------------------------------------------------------
\* verify_chain without an anchor: a legacy prefix that the first chained
\* record declares, no other unchained line, consecutive numbers, every
\* prev_hash the hash before it.
VerifyChain(lines) ==
    \A i \in DOMAIN lines :
        /\ lines[i].legacy => \A j \in 1 .. i : lines[j].legacy
        /\ ~ lines[i].legacy =>
              IF i = 1 \/ lines[i - 1].legacy
              THEN /\ lines[i].linked = (i > 1)
                   /\ lines[i].prev = IF i > 1 THEN lines[i - 1].hash ELSE Genesis
              ELSE /\ lines[i].seq = lines[i - 1].seq + 1
                   /\ lines[i].prev = lines[i - 1].hash

\* What several processes append verifies, whatever writes fail and whoever
\* dies in the middle of one: no false report of tampering.  (RememberSize
\* leaves a window to another process; NeverForked is about it.)
AppendedLogVerifies == ~ raced => VerifyChain(logFile)

\* A record whose append(sync=True) returned is still in the log after any
\* repair, failure or power loss, once.
AckedIsKept ==
    \A r \in acked : Cardinality({i \in DOMAIN logFile : logFile[i].hash = r}) = 1

\* No crash takes the log behind its anchor, which would read as a rollback:
\* seal syncs what it is about to name.
AnchorIsNotAhead ==
    anchor # NoAnchor /\ ~ raced => \E i \in DOMAIN logFile : logFile[i].hash = anchor.hash

\* HashChainLog.append: the whole read-state-then-write sequence runs under an
\* flock, or two processes would fork the chain "into a false 'sequence gap'
\* report".
NeverForked == VerifyChain(logFile)

\* A log that only this code wrote never raises a false alarm: it verifies from
\* the genesis on, and its anchor never seals records the file does not hold.
ChainVerifies == AppendedLogVerifies /\ AnchorIsNotAhead

=============================================================================
