------------------------------- MODULE DiskLog -------------------------------
(***************************************************************************)
(* The append-only log file of the disk engine: storage/disk_log.go and    *)
(* the functions of storage/disk.go that decode it.                        *)
(*                                                                         *)
(* A file is a sequence of cells.  A cell is a byte of a key or a value or *)
(* one of the two length fields of an entry's header, which the code       *)
(* stores as 4-byte words: an entry is <<key length, value length>>        *)
(* followed by the key and the value.  Nothing marks where an entry        *)
(* starts, so a reader that is off by some cells takes data for lengths.   *)
(* Offsets count cells from 0.                                             *)
(***************************************************************************)
EXTENDS Bytes

CONSTANTS
    Word,       \* how many values a length field has: 2^32 in the code
    ReadError   \* what a read returns that the code answers with an error

ASSUME WordAssumption == Word \in Nat /\ Word >= 4 /\ Word % 2 = 0

Cells == 0..(Word - 1)

ASSUME ReadErrorAssumption == ReadError \notin Seq(Cells)

diskLogHeaderSize == 2
diskLogTombstoneSize == -1
maxDiskLogValueSize == Word \div 2 - 1
maxDiskLogEntrySize == Word - 1

\* Go's conversions of an int to uint32 and of a uint32 to int32.
uint32(n) == n % Word
int32(c) == IF c < Word \div 2 THEN c ELSE c - Word

-----------------------------------------------------------------------------
(***************************************************************************)
(* Writing an entry.                                                       *)
(***************************************************************************)
entrySize(key, value, deleted) ==
    diskLogHeaderSize + Len(key) + (IF deleted THEN 0 ELSE Len(value))

FitsEntry(key, value, deleted) ==
    /\ Len(value) <= maxDiskLogValueSize
    /\ entrySize(key, value, deleted) <= maxDiskLogEntrySize

EncodedEntry(key, value, deleted) ==
    LET valueSize == IF deleted THEN diskLogTombstoneSize ELSE int32(uint32(Len(value)))
    IN  <<uint32(Len(key)), uint32(valueSize)>> \o key \o (IF deleted THEN <<>> ELSE value)

\* Mutant: the offset is counted back from the end of a file that does not
\* have the entry yet.
EntryPosition_unflushed(log, key, value, deleted) ==
    [offset |-> Len(log) - entrySize(key, value, deleted), size |-> uint32(entrySize(key, value, deleted))]

\* What writeEntry returns: where the entry will start, and its size.
EntryPosition(log, key, value, deleted) ==
    [offset |-> Len(log), size |-> uint32(entrySize(key, value, deleted))]

-----------------------------------------------------------------------------
(***************************************************************************)
(* Reading.  file.ReadAt fails when it meets the end of the file before it *)
(* has filled the buffer.                                                  *)
(***************************************************************************)
CanReadAt(log, offset, n) == n = 0 \/ offset + n <= Len(log)

ReadAt(log, offset, n) == SubSeq(log, offset + 1, offset + n)

CanReadEntry(log, offset) ==
    /\ CanReadAt(log, offset, diskLogHeaderSize)
    /\ CanReadAt(log, offset + diskLogHeaderSize, log[offset + 1])

readEntry(log, offset) ==
    [key |-> ReadAt(log, offset + diskLogHeaderSize, log[offset + 1]),
     valueSize |-> int32(log[offset + 2])]

\* DiskEngine.readLogValue
readLogValue(log, position) ==
    IF ~CanReadEntry(log, position.offset) THEN ReadError
    ELSE LET entry == readEntry(log, position.offset)
             keyEnd == position.offset + diskLogHeaderSize + Len(entry.key)
         IN  IF /\ entry.valueSize >= 0
                /\ diskLogHeaderSize + Len(entry.key) + entry.valueSize = position.size
                /\ CanReadAt(log, keyEnd, entry.valueSize)
             THEN ReadAt(log, keyEnd, entry.valueSize)
             ELSE ReadError

-----------------------------------------------------------------------------
(***************************************************************************)
(* The in-memory index: a function from the indexed keys to positions.     *)
(***************************************************************************)
EmptyKeydir == [key \in {} |-> 0]

\* keydir.ReplaceOrInsert
Indexed(keydir, key, position) ==
    [k \in DOMAIN keydir \cup {key} |-> IF k = key THEN position ELSE keydir[k]]

\* keydir.Delete
Unindexed(keydir, key) == [k \in DOMAIN keydir \ {key} |-> keydir[k]]

(***************************************************************************)
(* rebuildKeydir walks from entry to entry.  It stops with an error at an  *)
(* offset where it cannot read an entry, the value length is negative and  *)
(* no deletion, or the entry does not fit.                                 *)
(***************************************************************************)
StoredSize(log, offset) ==
    LET entry == readEntry(log, offset)
    IN  diskLogHeaderSize + Len(entry.key)
        + (IF entry.valueSize = diskLogTombstoneSize THEN 0 ELSE entry.valueSize)

ValidEntry(log, offset) ==
    /\ CanReadEntry(log, offset)
    /\ readEntry(log, offset).valueSize >= diskLogTombstoneSize
    /\ StoredSize(log, offset) <= maxDiskLogEntrySize
    /\ StoredSize(log, offset) <= Len(log) - offset

\* The offsets at which the loop reads an entry.
Visited(log) ==
    LET visits[offset \in 0..Len(log)] ==
            \/ offset = 0
            \/ \E o \in 0..(offset - 1) :
                /\ ValidEntry(log, o)
                /\ o + StoredSize(log, o) = offset
                /\ visits[o]
    IN  {offset \in 0..(Len(log) - 1) : visits[offset]}

\* Later entries of a key replace earlier ones; a deletion removes it.
rebuildKeydir(log) ==
    LET visited == Visited(log)
        last == {o \in visited : \A q \in visited :
                    readEntry(log, q).key = readEntry(log, o).key => q <= o}
        live == {o \in last : readEntry(log, o).valueSize # diskLogTombstoneSize}
        keys == {readEntry(log, o).key : o \in live}
        offsetOf(key) == CHOOSE o \in live : readEntry(log, o).key = key
    IN  [key \in keys |-> [offset |-> offsetOf(key), size |-> StoredSize(log, offsetOf(key))]]

\* rebuildKeydir returns an error, and the engine does not open.
RebuildFails(log) == \E offset \in Visited(log) : ~ValidEntry(log, offset)

=============================================================================
