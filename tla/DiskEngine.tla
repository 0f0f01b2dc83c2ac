----------------------------- MODULE DiskEngine -----------------------------
(***************************************************************************)
(* The disk engine: storage/disk.go over the log file of module DiskLog.   *)
(*                                                                         *)
(* Several processes may try to open one database.  Each exported method   *)
(* holds d.mu (or the read lock) from start to end and is one action.      *)
(* Three things are not atomic and are taken apart: a scan, which copies   *)
(* the index under the lock and then reads one record at a time under a    *)
(* lock of its own; a compaction, whose steps on the file system a dying   *)
(* process can separate; and the write of an entry, which can stop short.  *)
(* Calls that fail and change nothing (a closed engine, an oversized       *)
(* entry, a failed open) are not actions.                                  *)
(***************************************************************************)
EXTENDS DiskLog, SequencesExt

CONSTANTS
    Proc,       \* processes that open the database
    Key,        \* byte strings
    Value,      \* byte strings
    Ranges,     \* pairs of bounds, byte strings or Nil, that are scanned
    Nil,        \* Get of a missing key; the missing bound of a scan
    Missing,    \* there is no such file
    NoProc,     \* nobody holds the lock file
    NoScan,     \* the process runs no scan
    Faults,     \* which of AllFaults can happen
    MaxLog      \* bound: cells in the log file

AllFaults ==
    {"short_write",    \* a write stops in the middle of an entry: disk full
     "swap_crash",     \* the process dies between the two renames of a compaction
     "restore_fails"}  \* restoreOriginal's rename fails too

ASSUME FaultsAssumption == Faults \subseteq AllFaults

Position == [offset : Nat, size : Cells]

ScanState ==
    [closed : BOOLEAN,
     items : Seq([key : Seq(Cells), position : Position]),
     promised : Seq(Seq(Cells) \X Seq(Cells))]

ASSUME BytesAssumption ==
    /\ Key \subseteq Seq(Cells) /\ Value \subseteq Seq(Cells)
    /\ Ranges \subseteq (Seq(Cells) \cup {Nil}) \X (Seq(Cells) \cup {Nil})

\* The names of what is absent are no byte strings, processes or scans.
ASSUME AbsentAssumption ==
    Missing \notin Seq(Cells) /\ NoProc \notin Proc /\ NoScan \notin ScanState

VARIABLES
    files,      \* the log file, and compaction's temporary and backup files
    lock,       \* who holds name + ".lock"
    phase,      \* where each process is
    keydir,     \* DiskEngine.keydir of each process
    newKeydir,  \* the index compact builds beside the temporary file
    scan,       \* the iterator each process is running, if any
    store       \* the map that storage.Engine promises; not in the code

vars == <<files, lock, phase, keydir, newKeydir, scan, store>>

\* store takes a step exactly when Set or Delete returns without an error.
KV == INSTANCE KVStore

FileName == {"original", "temp", "backup"}

(***************************************************************************)
(* "open": in use.  The others are NewDiskEngineCompact's: "opened", then  *)
(* "rewritten" (the temporary file is complete), "backedUp" (the log has   *)
(* been renamed away), "installed" (the new log is in its place).          *)
(***************************************************************************)
Phase == {"down", "open", "opened", "rewritten", "backedUp", "installed"}

IsKeydir(d) ==
    DOMAIN d \subseteq Seq(Cells) /\ IsFiniteSet(DOMAIN d) /\ d \in [DOMAIN d -> Position]

TypeOK ==
    /\ files \in [FileName -> Seq(Cells) \cup {Missing}]
    /\ lock \in Proc \cup {NoProc}
    /\ phase \in [Proc -> Phase]
    /\ keydir = [p \in Proc |-> keydir[p]]
    /\ \A p \in Proc : IsKeydir(keydir[p])
    /\ IsKeydir(newKeydir)
    /\ scan \in [Proc -> ScanState \cup {NoScan}]
    /\ store \in [Key -> Value \cup {Nil}]

Init ==
    /\ files = [f \in FileName |-> Missing]
    /\ lock = NoProc
    /\ phase = [p \in Proc |-> "down"]
    /\ keydir = [p \in Proc |-> EmptyKeydir]
    /\ newKeydir = EmptyKeydir
    /\ scan = [p \in Proc |-> NoScan]
    /\ KV!Init

-----------------------------------------------------------------------------
(***************************************************************************)
(* Opening.  newDisLog creates a missing file; the lock is taken first.    *)
(***************************************************************************)
OpenedLog == IF files["original"] = Missing THEN <<>> ELSE files["original"]

\* Mutant: the lock file is not taken.
CanLock_always == TRUE

CanLock == lock = NoProc

Open(p, next) ==
    /\ phase[p] = "down"
    /\ CanLock
    /\ ~RebuildFails(OpenedLog)
    /\ lock' = p
    /\ files' = [files EXCEPT !["original"] = OpenedLog]
    /\ keydir' = [keydir EXCEPT ![p] = rebuildKeydir(OpenedLog)]
    /\ phase' = [phase EXCEPT ![p] = next]
    /\ UNCHANGED <<newKeydir, scan, store>>

NewDiskEngine(p) == Open(p, "open")

\* NewDiskEngineCompact up to its call of compact.
NewDiskEngineCompact(p) == Open(p, "opened")

\* What Close does: drop log and index, release the lock.
Shut(p) ==
    /\ phase' = [phase EXCEPT ![p] = "down"]
    /\ keydir' = [keydir EXCEPT ![p] = EmptyKeydir]
    /\ newKeydir' = EmptyKeydir
    /\ lock' = NoProc
    /\ scan' = [scan EXCEPT ![p] = IF @ = NoScan THEN @ ELSE [@ EXCEPT !.closed = TRUE]]

Close(p) ==
    /\ phase[p] = "open"
    /\ Shut(p)
    /\ UNCHANGED <<files, store>>

\* The process dies; the system drops its lock.  Temporary and backup files
\* stay behind under names that no later run looks for.
Crash(p) ==
    /\ phase[p] # "down"
    /\ phase[p] = "backedUp" => "swap_crash" \in Faults
    /\ phase' = [phase EXCEPT ![p] = "down"]
    /\ keydir' = [keydir EXCEPT ![p] = EmptyKeydir]
    /\ newKeydir' = EmptyKeydir
    /\ lock' = NoProc
    /\ scan' = [scan EXCEPT ![p] = NoScan]
    /\ files' = [files EXCEPT !["temp"] = Missing, !["backup"] = Missing]
    /\ UNCHANGED store

-----------------------------------------------------------------------------
(***************************************************************************)
(* Reading and writing.                                                    *)
(***************************************************************************)
Log == files["original"]

Get(p, k) ==
    IF k \in DOMAIN keydir[p] THEN readLogValue(Log, keydir[p][k]) ELSE Nil

Appendable(key, value, deleted) ==
    /\ FitsEntry(key, value, deleted)
    /\ Len(Log) + entrySize(key, value, deleted) <= MaxLog

AppendCells(cells) == files' = [files EXCEPT !["original"] = @ \o cells]

Set(p, key, value) ==
    /\ phase[p] = "open"
    /\ Appendable(key, value, FALSE)
    /\ AppendCells(EncodedEntry(key, value, FALSE))
    /\ keydir' = [keydir EXCEPT ![p] = Indexed(@, key, EntryPosition(Log, key, value, FALSE))]
    /\ KV!Set(key, value)
    /\ UNCHANGED <<lock, phase, newKeydir, scan>>

Delete(p, key) ==
    /\ phase[p] = "open"
    /\ Appendable(key, <<>>, TRUE)
    /\ AppendCells(EncodedEntry(key, <<>>, TRUE))
    /\ keydir' = [keydir EXCEPT ![p] = Unindexed(@, key)]
    /\ KV!Delete(key)
    /\ UNCHANGED <<lock, phase, newKeydir, scan>>

\* Mutant: the index is updated before the log is written.
SetStopsShort_indexFirst(p, key, value, n) ==
    /\ phase[p] = "open"
    /\ "short_write" \in Faults
    /\ Appendable(key, value, FALSE)
    /\ AppendCells(SubSeq(EncodedEntry(key, value, FALSE), 1, n))
    /\ keydir' = [keydir EXCEPT ![p] = Indexed(@, key, EntryPosition(Log, key, value, FALSE))]
    /\ UNCHANGED <<lock, phase, newKeydir, scan, store>>

\* writer.Flush returns an error after n cells of the entry; nothing takes
\* them back, and the index is left alone.
SetStopsShort(p, key, value, n) ==
    /\ phase[p] = "open"
    /\ "short_write" \in Faults
    /\ Appendable(key, value, FALSE)
    /\ AppendCells(SubSeq(EncodedEntry(key, value, FALSE), 1, n))
    /\ UNCHANGED <<lock, phase, keydir, newKeydir, scan, store>>

DeleteStopsShort(p, key, n) ==
    /\ phase[p] = "open"
    /\ "short_write" \in Faults
    /\ Appendable(key, <<>>, TRUE)
    /\ AppendCells(SubSeq(EncodedEntry(key, <<>>, TRUE), 1, n))
    /\ UNCHANGED <<lock, phase, keydir, newKeydir, scan, store>>

-----------------------------------------------------------------------------
(***************************************************************************)
(* Scanning [start, end).  The B-tree hands out its keys in byte order.    *)
(***************************************************************************)
\* snapshotRange: the positions of the keys in the range, in scan order.
snapshotRange(index, start, end, reverse) ==
    LET ascending == Ascending({k \in DOMAIN index : InRange(k, start, end, Nil)})
        keys == IF reverse THEN Reverse(ascending) ELSE ascending
    IN  [i \in 1..Len(keys) |-> [key |-> keys[i], position |-> index[keys[i]]]]

\* MemoryEngine.scan over the same contents: filter, sort, reverse.
MemoryScan(contents, start, end, reverse) ==
    LET keys == Ascending({k \in DOMAIN contents :
                            /\ start # Nil => ~Less(k, start)
                            /\ end # Nil => Less(k, end)})
        entries == [i \in 1..Len(keys) |-> <<keys[i], contents[keys[i]]>>]
    IN  IF reverse THEN Reverse(entries) ELSE entries

\* The iterator takes its copy of the index.  promised is not in the code: it
\* is what the memory engine, had it the same contents, would still yield.
StartScan(p, start, end, reverse) ==
    /\ phase[p] = "open"
    /\ scan[p] = NoScan
    /\ scan' = [scan EXCEPT ![p] =
                [closed |-> FALSE,
                 items |-> snapshotRange(keydir[p], start, end, reverse),
                 promised |-> MemoryScan([k \in DOMAIN keydir[p] |-> Get(p, k)], start, end, reverse)]]
    /\ UNCHANGED <<files, lock, phase, keydir, newKeydir, store>>

\* Mutant: the index is consulted again instead of the copied position.
ScanItem_current(p, item) ==
    <<item.key, IF item.key \in DOMAIN keydir[p]
                THEN readLogValue(Log, keydir[p][item.key]) ELSE ReadError>>

ScanItem(p, item) == <<item.key, readLogValue(Log, item.position)>>

\* readScanItem succeeds and the entry is yielded.
readScanItem(p) ==
    /\ scan[p] # NoScan
    /\ ~scan[p].closed
    /\ scan[p].items # <<>>
    /\ LET entry == ScanItem(p, Head(scan[p].items))
       IN  /\ entry[2] # ReadError
           /\ scan' = [scan EXCEPT ![p] = [closed |-> FALSE, items |-> Tail(@.items),
                                           promised |-> Tail(@.promised)]]
    /\ UNCHANGED <<files, lock, phase, keydir, newKeydir, store>>

\* The scan is over: no items are left, the consumer breaks off, a read
\* fails, or readScanItem finds the engine closed.
EndScan(p) ==
    /\ scan[p] # NoScan
    /\ scan' = [scan EXCEPT ![p] = NoScan]
    /\ UNCHANGED <<files, lock, phase, keydir, newKeydir, store>>

-----------------------------------------------------------------------------
(***************************************************************************)
(* Compaction, by NewDiskEngineCompact only, before anybody else has the   *)
(* engine.  The names of the temporary and the backup file are fresh every *)
(* time: files has those of the compaction that is running.                *)
(***************************************************************************)
RewriteEntry(s, key, value) ==
    [log |-> s.log \o EncodedEntry(key, value, FALSE),
     keydir |-> Indexed(s.keydir, key, EntryPosition(s.log, key, value, FALSE))]

\* The temporary file, and the index built beside it, after all keys of the
\* B-tree have been copied in their order.
Rewritten(log, index) ==
    LET keys == Ascending(DOMAIN index)
        copied[n \in 0..Len(keys)] ==
            IF n = 0 THEN [log |-> <<>>, keydir |-> EmptyKeydir]
            ELSE RewriteEntry(copied[n - 1], keys[n], readLogValue(log, index[keys[n]]))
    IN  copied[Len(keys)]

CanRewrite(p) == \A k \in DOMAIN keydir[p] : readLogValue(Log, keydir[p][k]) # ReadError

\* Copy the live entries to the temporary file and sync it.
CompactRewrite(p) ==
    /\ phase[p] = "opened"
    /\ CanRewrite(p)
    /\ files' = [files EXCEPT !["temp"] = Rewritten(Log, keydir[p]).log]
    /\ newKeydir' = Rewritten(Log, keydir[p]).keydir
    /\ phase' = [phase EXCEPT ![p] = "rewritten"]
    /\ UNCHANGED <<lock, keydir, scan, store>>

\* os.Rename(originalPath, backupPath)
CompactBackup(p) ==
    /\ phase[p] = "rewritten"
    /\ files' = [files EXCEPT !["original"] = Missing, !["backup"] = files["original"]]
    /\ phase' = [phase EXCEPT ![p] = "backedUp"]
    /\ UNCHANGED <<lock, keydir, newKeydir, scan, store>>

\* os.Rename(tempPath, originalPath)
CompactInstall(p) ==
    /\ phase[p] = "backedUp"
    /\ files' = [files EXCEPT !["original"] = files["temp"], !["temp"] = Missing]
    /\ phase' = [phase EXCEPT ![p] = "installed"]
    /\ UNCHANGED <<lock, keydir, newKeydir, scan, store>>

\* Reopen the log, switch to the new index, remove the backup.
CompactFinish(p) ==
    /\ phase[p] = "installed"
    /\ files' = [files EXCEPT !["backup"] = Missing]
    /\ keydir' = [keydir EXCEPT ![p] = newKeydir]
    /\ newKeydir' = EmptyKeydir
    /\ phase' = [phase EXCEPT ![p] = "open"]
    /\ UNCHANGED <<lock, scan, store>>

\* An error before the first rename took effect, or when the backup is
\* removed: compact returns it and the constructor closes the engine.
CompactFails(p) ==
    /\ phase[p] \in {"opened", "rewritten", "installed"}
    /\ files' = [files EXCEPT !["temp"] = Missing, !["backup"] = Missing]
    /\ Shut(p)
    /\ UNCHANGED store

\* Mutant: the half-installed log is removed but the backup is not renamed.
RestoreOriginal_removeOnly(p) ==
    /\ phase[p] \in {"backedUp", "installed"}
    /\ files' = [f \in FileName |-> Missing]
    /\ Shut(p)
    /\ UNCHANGED store

\* The second rename or the reopening failed: restoreOriginal puts the
\* backup back, compact returns the error and the engine is closed.
RestoreOriginal(p) ==
    /\ phase[p] \in {"backedUp", "installed"}
    /\ files' = [files EXCEPT !["original"] = files["backup"],
                              !["backup"] = Missing, !["temp"] = Missing]
    /\ Shut(p)
    /\ UNCHANGED store

\* restoreOriginal removed the log and could not rename the backup.
RestoreFails(p) ==
    /\ "restore_fails" \in Faults
    /\ phase[p] \in {"backedUp", "installed"}
    /\ files' = [f \in FileName |-> Missing]
    /\ Shut(p)
    /\ UNCHANGED store

-----------------------------------------------------------------------------
Compact(p) ==
    \/ NewDiskEngineCompact(p)
    \/ CompactRewrite(p)
    \/ CompactBackup(p)
    \/ CompactInstall(p)
    \/ CompactFinish(p)
    \/ CompactFails(p)
    \/ RestoreOriginal(p)
    \/ RestoreFails(p)

Scan(p) ==
    \/ \E range \in Ranges, reverse \in BOOLEAN : StartScan(p, range[1], range[2], reverse)
    \/ readScanItem(p)
    \/ EndScan(p)

ProcStep(p) ==
    \/ NewDiskEngine(p)
    \/ Close(p)
    \/ Crash(p)
    \/ \E k \in Key, value \in Value : Set(p, k, value)
    \/ \E k \in Key : Delete(p, k)
    \/ \E k \in Key, value \in Value : \E n \in 1..(entrySize(k, value, FALSE) - 1) :
            SetStopsShort(p, k, value, n)
    \/ \E k \in Key : \E n \in 1..(entrySize(k, <<>>, TRUE) - 1) : DeleteStopsShort(p, k, n)
    \/ Compact(p)
    \/ Scan(p)

Next == \E p \in Proc : ProcStep(p)

Spec == Init /\ [][Next]_vars

-----------------------------------------------------------------------------
(***************************************************************************)
(* Correctness.                                                            *)
(***************************************************************************)

\* The log that holds the database: in the middle of a compaction's swap it
\* is the backup, and compact holds on to it.
DurableLog ==
    IF files["original"] = Missing /\ \E p \in Proc : phase[p] = "backedUp"
    THEN files["backup"] ELSE OpenedLog

\* What a process that opened the database now would read.
Durable ==
    LET index == rebuildKeydir(DurableLog)
    IN  IF RebuildFails(DurableLog) THEN [k \in Key |-> ReadError]
        ELSE [k \in Key |->
                IF k \in DOMAIN index THEN readLogValue(DurableLog, index[k]) ELSE Nil]

(***************************************************************************)
(* The engine is the durable map KVStore describes: in every state a       *)
(* restart would find what the successful Sets and Deletes left.  Opening, *)
(* closing, dying, compacting and an error in any step of a compaction     *)
(* change nothing (rebuildKeydir, compact, restoreOriginal); a full scan   *)
(* before and after a compaction must be identical, says its test.         *)
(***************************************************************************)
DurableIsStore == Durable = store

(***************************************************************************)
(* The index of an open engine is the one a restart would build, position  *)
(* by position: after compaction has switched logs, and with another       *)
(* process trying to open the same file.                                   *)
(***************************************************************************)
IndexMatchesLog ==
    \A p \in Proc : phase[p] = "open" =>
        ~RebuildFails(OpenedLog) /\ keydir[p] = rebuildKeydir(OpenedLog)

(***************************************************************************)
(* For a running engine the comment on Set holds: a Get returns what the   *)
(* last successful Set or Delete of the key left, and a write that failed, *)
(* having left half an entry in the log, changes no answer.                *)
(***************************************************************************)
ReadsLastWrite ==
    [][\A p \in Proc : phase[p] = "open" /\ phase'[p] = "open" =>
        \A k \in Key :
            /\ \A value \in Value : Set(p, k, value) => Get(p, k)' = value
            /\ Delete(p, k) => Get(p, k)' = Nil
            /\ \/ Get(p, k)' = Get(p, k)
               \/ Delete(p, k) \/ \E value \in Value : Set(p, k, value)]_vars

(***************************************************************************)
(* A scan yields what the memory engine would have yielded at the moment   *)
(* it started, however many Sets and Deletes happen between two of its     *)
(* reads; closing the engine can only cut it short.                        *)
(***************************************************************************)
ScanIsSnapshot ==
    \A p \in Proc : scan[p] # NoScan =>
        LET items == scan[p].items
        IN  /\ Len(items) = Len(scan[p].promised)
            /\ ~scan[p].closed =>
                [i \in 1..Len(items) |-> ScanItem(p, items[i])] = scan[p].promised

(***************************************************************************)
(* "Data is not lost by one failed write" (the comment on Set): what an    *)
(* open engine holds under a key is what a restart would find.             *)
(***************************************************************************)
FailedWriteLosesNothing ==
    \A p \in Proc : phase[p] = "open" =>
        \A k \in DOMAIN keydir[p] : k \in Key => Durable[k] = Get(p, k)

=============================================================================
