-------------------------------- MODULE MVCC --------------------------------
(***************************************************************************)
(* The transaction layer of SpaceDB: storage/storage.go over the keys of   *)
(* storage/mvcc_key.go, used the way engine.Session.Execute uses it.       *)
(*                                                                         *)
(* Everything a transaction persists lives in the underlying KV engine     *)
(* under four kinds of keys, one variable each: the next version, one      *)
(* marker per active transaction, one record per (transaction, key)        *)
(* written, and one entry per (key, version) of user data.  Each exported  *)
(* method runs under mvccState.mu, so it is one action; what the mutex     *)
(* cannot hide is an engine call that fails half-way through a method, or  *)
(* the process dying there, and each such prefix is an action of its own   *)
(* (the ...Fails actions).  The engine is a map whose calls either take    *)
(* effect or fail without effect.                                          *)
(*                                                                         *)
(* Session.Execute begins a transaction, lets the executor call Get,       *)
(* ScanPrefix, Set and Delete, rolls back after the first error and        *)
(* commits otherwise; it never uses a transaction after that.              *)
(***************************************************************************)
EXTENDS Integers

CONSTANTS
    Key,         \* the raw keys of user data (tables and rows)
    Value,       \* the values stored under them
    Tombstone,   \* a versioned entry with tag 0: the key was deleted
    NoEntry,     \* no versioned entry under this (key, version)
    Nil,         \* what Get returns for a missing or deleted key
    MaxVersion   \* bound: how many transactions a behaviour begins

ASSUME MaxVersionAssumption == MaxVersion \in Nat
ASSUME SentinelAssumption ==
    /\ Tombstone \notin Value /\ NoEntry \notin Value /\ Nil \notin Value
    /\ Tombstone # NoEntry /\ Tombstone # Nil /\ NoEntry # Nil

VARIABLES
    nextVersion,     \* engine: the NextVersion key; 0 when it is absent
    txnActive,       \* engine: versions with a TxnActive key
    txnWrite,        \* engine: <<version, key>> pairs with a TxnWrite key
    versioned,       \* engine: versioned[k][v] is the entry under Version key (k, v)
    status,          \* memory: what became of the transaction with this version
    activeVersions   \* memory: transactionState.activeVersions of each transaction

vars == <<nextVersion, txnActive, txnWrite, versioned, status, activeVersions>>

Version == 1..MaxVersion

Cell == Value \cup {Tombstone, NoEntry}

(***************************************************************************)
(* "open": a statement is running in it.  "failed": a call returned an     *)
(* error and Execute must roll back.  "dangling": nobody holds the         *)
(* transaction any more but its active marker is still stored (Commit or   *)
(* Rollback failed, or the process died).                                  *)
(***************************************************************************)
Status == {"none", "open", "failed", "committed", "rolledback", "dangling"}

Live(v) == status[v] \in {"open", "failed"}

Written(k, v) == versioned[k][v] # NoEntry

(***************************************************************************)
(* Begin reads the NextVersion key; when it is absent the first version    *)
(* is 1.                                                                   *)
(***************************************************************************)
LoadNext == IF nextVersion = 0 THEN 1 ELSE nextVersion

TypeOK ==
    /\ nextVersion \in 0..(MaxVersion + 1)
    /\ txnActive \in SUBSET Version
    /\ txnWrite \in SUBSET (Version \X Key)
    /\ versioned \in [Key -> [Version -> Cell]]
    /\ status \in [Version -> Status]
    /\ activeVersions \in [Version -> SUBSET Version]

Init ==
    /\ nextVersion = 0
    /\ txnActive = {}
    /\ txnWrite = {}
    /\ versioned = [k \in Key |-> [v \in Version |-> NoEntry]]
    /\ status = [v \in Version |-> "none"]
    /\ activeVersions = [v \in Version |-> {}]

-----------------------------------------------------------------------------
(***************************************************************************)
(* Reading.                                                                *)
(***************************************************************************)

\* Mutant: activeVersions is not consulted.
isVisible_ignoresActive(v, w) == w <= v

\* Mutant: newer versions are not excluded.
isVisible_ignoresNewer(v, w) == w \notin activeVersions[v]

\* transactionState.isVisible: may transaction v see what w wrote?
isVisible(v, w) == w \notin activeVersions[v] /\ w <= v

\* decodeVersionedValue: tag 0 is a deletion, tag 1 a value.
decodeVersionedValue(c) == IF c = Tombstone THEN Nil ELSE c

\* The entries of k that Get's reverse scan over versions 0..v can stop at.
VisibleVersions(v, k) == {w \in Version : w <= v /\ Written(k, w) /\ isVisible(v, w)}

VisibleEntries(v, k) == [w \in VisibleVersions(v, k) |-> versioned[k][w]]

\* The entry with the highest version: the first one a reverse scan meets.
Newest(entries) == entries[CHOOSE w \in DOMAIN entries : \A x \in DOMAIN entries : x <= w]

\* MVCCTransaction.Get
Get(v, k) ==
    LET entries == VisibleEntries(v, k)
    IN  IF DOMAIN entries = {} THEN Nil ELSE decodeVersionedValue(Newest(entries))

\* What the forward scan of ScanPrefix holds for k once it has passed all its
\* versions: every visible version overwrites currentValue, others are skipped.
currentValue(v, k) ==
    LET current[w \in 0..MaxVersion] ==
            IF w = 0 THEN Nil
            ELSE IF Written(k, w) /\ isVisible(v, w)
                 THEN decodeVersionedValue(versioned[k][w])
                 ELSE current[w - 1]
    IN  current[MaxVersion]

\* MVCCTransaction.ScanPrefix over the keys that have the prefix: flush keeps
\* a key whose newest visible version is not a deletion.
ScanPrefix(v, prefixed) ==
    {<<k, currentValue(v, k)>> : k \in {q \in prefixed : currentValue(v, q) # Nil}}

-----------------------------------------------------------------------------
\* Mutant: the scan for active markers is left out.
Begin_noSnapshot ==
    LET next == LoadNext
    IN  /\ next \in Version
        /\ nextVersion' = next + 1
        /\ txnActive' = txnActive \cup {next}
        /\ status' = [status EXCEPT ![next] = "open"]
        /\ activeVersions' = [activeVersions EXCEPT ![next] = {}]
        /\ UNCHANGED <<txnWrite, versioned>>

(***************************************************************************)
(* MVCC.Begin stores next+1, then the active marker, and hands out next    *)
(* with the markers it found before its own.                               *)
(***************************************************************************)
Begin ==
    LET next == LoadNext
    IN  /\ next \in Version
        /\ nextVersion' = next + 1
        /\ txnActive' = txnActive \cup {next}
        /\ status' = [status EXCEPT ![next] = "open"]
        /\ activeVersions' = [activeVersions EXCEPT ![next] = txnActive]
        /\ UNCHANGED <<txnWrite, versioned>>

\* Mutant: the marker is stored before the next version, which then fails.
BeginFails_markerFirst ==
    LET next == LoadNext
    IN  /\ next \in Version
        /\ txnActive' = txnActive \cup {next}
        /\ UNCHANGED <<nextVersion, txnWrite, versioned, status, activeVersions>>

\* Storing the active marker failed: the version is spent, nobody has it.
BeginFails ==
    LET next == LoadNext
    IN  /\ next \in Version
        /\ nextVersion' = next + 1
        /\ UNCHANGED <<txnActive, txnWrite, versioned, status, activeVersions>>

-----------------------------------------------------------------------------
\* Mutant: versions active at Begin are left out of the conflict range.
InConflictRange_newerOnly(v, w) == v + 1 <= w

(***************************************************************************)
(* Writing.  write scans the versions of the key from fromVersion (the     *)
(* oldest version active at Begin, else version+1) upwards and looks only  *)
(* at the newest one: not visible means a write conflict.                  *)
(***************************************************************************)
InConflictRange(v, w) == \E from \in activeVersions[v] \cup {v + 1} : from <= w

ConflictCandidates(v, k) == {w \in Version : InConflictRange(v, w) /\ Written(k, w)}

WriteConflict(v, k) ==
    \E w \in ConflictCandidates(v, k) :
        /\ \A x \in ConflictCandidates(v, k) : x <= w
        /\ ~isVisible(v, w)

RecordWrite(v, k) == txnWrite' = txnWrite \cup {<<v, k>>}

StoreVersion(v, k, c) == versioned' = [versioned EXCEPT ![k][v] = c]

\* MVCCTransaction.write when every engine call succeeds.
write(v, k, c) ==
    /\ status[v] = "open"
    /\ ~WriteConflict(v, k)
    /\ RecordWrite(v, k)
    /\ StoreVersion(v, k, c)
    /\ UNCHANGED <<nextVersion, txnActive, status, activeVersions>>

\* The write record was stored, storing the version failed.
writeFails(v, k) ==
    /\ status[v] = "open"
    /\ ~WriteConflict(v, k)
    /\ RecordWrite(v, k)
    /\ status' = [status EXCEPT ![v] = "failed"]
    /\ UNCHANGED <<nextVersion, txnActive, versioned, activeVersions>>

\* write returns "storage: write conflict".
writeConflicts(v, k) ==
    /\ status[v] = "open"
    /\ WriteConflict(v, k)
    /\ status' = [status EXCEPT ![v] = "failed"]
    /\ UNCHANGED <<nextVersion, txnActive, txnWrite, versioned, activeVersions>>

Set(v, k, value) == write(v, k, value)

Delete(v, k) == write(v, k, Tombstone)

\* Any other error of the executor: a failed read, a duplicate primary key,
\* a type mismatch, a write record that could not be stored.
StatementFails(v) ==
    /\ status[v] = "open"
    /\ status' = [status EXCEPT ![v] = "failed"]
    /\ UNCHANGED <<nextVersion, txnActive, txnWrite, versioned, activeVersions>>

-----------------------------------------------------------------------------
(***************************************************************************)
(* Ending.  WriteSet is what the scan of transactionWritePrefix finds.     *)
(***************************************************************************)
WriteSet(v) == {k \in Key : <<v, k>> \in txnWrite}

ForgetWrites(v, keys) == txnWrite' = txnWrite \ ({v} \X keys)

\* Mutant: Rollback forgets the versions it should delete.
DropVersions_none(v, keys) == UNCHANGED versioned

\* Mutant: Rollback stores an empty value where it should delete the entry.
DropVersions_emptied(v, keys) ==
    versioned' = [k \in Key |-> [w \in Version |->
        IF w = v /\ k \in keys THEN Nil ELSE versioned[k][w]]]

DropVersions(v, keys) ==
    versioned' = [k \in Key |-> [w \in Version |->
        IF w = v /\ k \in keys THEN NoEntry ELSE versioned[k][w]]]

\* MVCCTransaction.Commit: drop the write records, then the active marker.
Commit(v) ==
    /\ status[v] = "open"
    /\ ForgetWrites(v, WriteSet(v))
    /\ txnActive' = txnActive \ {v}
    /\ status' = [status EXCEPT ![v] = "committed"]
    /\ UNCHANGED <<nextVersion, versioned, activeVersions>>

\* Mutant: the marker goes first, the write records after it.
CommitFails_markerFirst(v, forgotten) ==
    /\ status[v] = "open"
    /\ forgotten \subseteq WriteSet(v)
    /\ ForgetWrites(v, forgotten)
    /\ txnActive' = txnActive \ {v}
    /\ status' = [status EXCEPT ![v] = "dangling"]
    /\ UNCHANGED <<nextVersion, versioned, activeVersions>>

\* An engine.Delete of Commit failed: some records are gone, the marker is
\* not.  Execute returns the error and drops the transaction.
CommitFails(v, forgotten) ==
    /\ status[v] = "open"
    /\ forgotten \subseteq WriteSet(v)
    /\ ForgetWrites(v, forgotten)
    /\ status' = [status EXCEPT ![v] = "dangling"]
    /\ UNCHANGED <<nextVersion, txnActive, versioned, activeVersions>>

\* MVCCTransaction.Rollback: for each written key drop the write record and
\* the version, then the active marker.
Rollback(v) ==
    /\ status[v] = "failed"
    /\ ForgetWrites(v, WriteSet(v))
    /\ DropVersions(v, WriteSet(v))
    /\ txnActive' = txnActive \ {v}
    /\ status' = [status EXCEPT ![v] = "rolledback"]
    /\ UNCHANGED <<nextVersion, activeVersions>>

\* An engine.Delete of Rollback failed after the keys in undone; half holds
\* the key, if any, whose record is gone and whose version is not.
RollbackFails(v, undone, half) ==
    /\ status[v] = "failed"
    /\ undone \cup half \subseteq WriteSet(v)
    /\ \A j, k \in half : j = k
    /\ undone \cap half = {}
    /\ ForgetWrites(v, undone \cup half)
    /\ DropVersions(v, undone)
    /\ status' = [status EXCEPT ![v] = "dangling"]
    /\ UNCHANGED <<nextVersion, txnActive, activeVersions>>

\* The process ends and NewMVCC starts over on the same engine.  Nothing
\* looks at the markers, records and versions the dead transactions left.
Crash ==
    /\ status' = [v \in Version |-> IF Live(v) THEN "dangling" ELSE status[v]]
    /\ UNCHANGED <<nextVersion, txnActive, txnWrite, versioned, activeVersions>>

-----------------------------------------------------------------------------
TxnStep(v) ==
    \/ \E k \in Key, value \in Value : Set(v, k, value)
    \/ \E k \in Key : Delete(v, k)
    \/ \E k \in Key : writeFails(v, k)
    \/ \E k \in Key : writeConflicts(v, k)
    \/ StatementFails(v)
    \/ Commit(v)
    \/ \E forgotten \in SUBSET Key : CommitFails(v, forgotten)
    \/ Rollback(v)
    \/ \E undone \in SUBSET Key, half \in SUBSET Key : RollbackFails(v, undone, half)

Next ==
    \/ Begin
    \/ BeginFails
    \/ \E v \in Version : TxnStep(v)
    \/ Crash

Spec == Init /\ [][Next]_vars

-----------------------------------------------------------------------------
(***************************************************************************)
(* Correctness.                                                            *)
(***************************************************************************)

(***************************************************************************)
(* A transaction reads only its own writes and those of transactions that  *)
(* committed: never those of a running one, of one whose rollback or       *)
(* commit broke off, or of one that was running when the process died.     *)
(* This is what Begin's scan for markers together with the order "marker   *)
(* last" in Commit and Rollback is for.                                    *)
(***************************************************************************)
NoDirtyRead ==
    \A v \in Version : Live(v) =>
        \A k \in Key : \A w \in VisibleVersions(v, k) : w = v \/ status[w] = "committed"

(***************************************************************************)
(* First updater wins: when two transactions have written one key, the     *)
(* later one began after the earlier one had ended.  write looks only at   *)
(* the newest version in its range, so it must not be possible for a       *)
(* concurrent version to hide behind a visible one.                        *)
(***************************************************************************)
FirstUpdaterWins ==
    \A k \in Key : \A v, w \in Version :
        v < w /\ Written(k, v) /\ Written(k, w) => v \notin activeVersions[w]

(***************************************************************************)
(* Repeatable reads: while a transaction runs, Get of a key it does not    *)
(* write in that step returns the same value before and after every step   *)
(* of anybody, commits, failed rollbacks and restarts included.            *)
(***************************************************************************)
SnapshotStable(v) ==
    Live(v) /\ Live(v)' =>
        \A k \in Key : versioned[k][v] = versioned'[k][v] => Get(v, k)' = Get(v, k)

SnapshotStability == [][\A v \in Version : SnapshotStable(v)]_vars

(***************************************************************************)
(* ScanPrefix (forward, newest visible version wins, no upper bound on     *)
(* versions) and Get (backward from the own version, first visible entry)  *)
(* agree on every key.                                                     *)
(***************************************************************************)
ScanAgreesWithGet ==
    \A v \in Version : Live(v) =>
        \A k \in Key : ScanPrefix(v, {k}) = IF Get(v, k) = Nil THEN {} ELSE {<<k, Get(v, k)>>}

(***************************************************************************)
(* The inductive invariant, part by part.                                  *)
(***************************************************************************)

\* Versions from next on are unused: Begin never hands out a version that
\* has a marker, a record or an entry.
FreshVersions ==
    \A v \in Version : v >= LoadNext =>
        /\ status[v] = "none" /\ v \notin txnActive
        /\ \A k \in Key : ~Written(k, v) /\ <<v, k>> \notin txnWrite

\* The marker is there exactly while the outcome is open or was lost.
MarkerMeansUndecided ==
    \A v \in Version : v \in txnActive <=> status[v] \in {"open", "failed", "dangling"}

\* A rolled-back transaction, or one that never began, has left nothing.
NothingLeft ==
    \A v \in Version : status[v] \in {"none", "rolledback"} => \A k \in Key : ~Written(k, v)

\* Rollback will find every version the transaction has stored.
WriteSetComplete ==
    \A v \in Version : Live(v) => \A k \in Key : Written(k, v) => <<v, k>> \in txnWrite

\* activeVersions holds older versions only, and every older version that is
\* not in it had been decided for good when the transaction began.
SnapshotDecided ==
    \A v \in Version : status[v] # "none" =>
        \A w \in Version :
            /\ w \in activeVersions[v] => w < v
            /\ w < v /\ w \notin activeVersions[v] =>
                    status[w] \in {"none", "committed", "rolledback"}

\* What was decided when x began was decided when anything later began.
SnapshotsMonotone ==
    \A v, x, w \in Version :
        v < x /\ x < w /\ status[x] # "none" /\ status[w] # "none" /\ v \notin activeVersions[x]
            => v \notin activeVersions[w]

(***************************************************************************)
(* What keeps the three properties above true from step to step: fresh     *)
(* versions, markers that mean "undecided", complete write sets, and       *)
(* snapshots that only miss undecided transactions.                        *)
(***************************************************************************)
IndInv ==
    /\ TypeOK
    /\ FreshVersions
    /\ MarkerMeansUndecided
    /\ NothingLeft
    /\ WriteSetComplete
    /\ SnapshotDecided
    /\ SnapshotsMonotone
    /\ FirstUpdaterWins

(***************************************************************************)
(* When the newest version of a key is not visible, it comes from a        *)
(* transaction that was still active when this one began, or from one that *)
(* began later (storage.go:315-317, above the check in write).  So a       *)
(* transaction that has just begun can meet a write conflict only with one *)
(* that was running at that moment.  But Begin takes its markers for the   *)
(* active transactions, and one whose Commit or Rollback failed, or whose  *)
(* process died, has its marker still.                                     *)
(***************************************************************************)
ConflictsAreWithActive ==
    [][\A v \in Version, k \in Key :
            status[v] = "none" /\ status'[v] = "open" /\ WriteConflict(v, k)' =>
                \E w \in Version : Live(w) /\ Written(k, w)]_vars

=============================================================================
