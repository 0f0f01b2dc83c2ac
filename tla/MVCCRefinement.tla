--------------------------- MODULE MVCCRefinement ---------------------------
(***************************************************************************)
(* The MVCC layer implements snapshot isolation.  The abstract store, the  *)
(* snapshots and the pending writes are all read off the versioned entries *)
(* and the active markers; nothing is remembered on the side.              *)
(***************************************************************************)
EXTENDS MVCC

\* What a transaction beginning now would read.
CommittedEntries(k) ==
    [w \in {x \in Version : Written(k, x) /\ x \notin txnActive} |-> versioned[k][w]]

storeBar ==
    [k \in Key |->
        LET entries == CommittedEntries(k)
        IN  IF DOMAIN entries = {} THEN Nil ELSE decodeVersionedValue(Newest(entries))]

PhaseOf(s) ==
    CASE s = "none" -> "idle"
      [] s \in {"open", "failed"} -> "running"
      [] s = "committed" -> "committed"
      [] s \in {"rolledback", "dangling"} -> "aborted"

phaseBar == [v \in Version |-> PhaseOf(status[v])]

\* The entries visible to v that are not its own.
SnapshotEntries(v, k) ==
    [w \in VisibleVersions(v, k) \ {v} |-> versioned[k][w]]

snapshotBar ==
    [v \in Version |-> [k \in Key |->
        LET entries == SnapshotEntries(v, k)
        IN  IF ~Live(v) \/ DOMAIN entries = {}
            THEN Nil ELSE decodeVersionedValue(Newest(entries))]]

writesBar ==
    [v \in Version |-> [k \in Key |->
        IF Live(v) /\ Written(k, v) THEN decodeVersionedValue(versioned[k][v]) ELSE NoEntry]]

staleBar ==
    [v \in Version |->
        {k \in Key : Live(v) /\ \E w \in Version :
            status[w] = "committed" /\ Written(k, w) /\ ~isVisible(v, w)}]

SI == INSTANCE SnapshotIsolation WITH
        Txn <- Version, NoWrite <- NoEntry,
        store <- storeBar, phase <- phaseBar, snapshot <- snapshotBar,
        writes <- writesBar, stale <- staleBar

(***************************************************************************)
(* Every behaviour of the MVCC layer, with its failing engine calls and    *)
(* crashes, is a behaviour of snapshot isolation: a commit makes all the   *)
(* writes of a transaction visible to later ones and no other step changes *)
(* what later ones see, a running transaction's snapshot never moves, and  *)
(* write lets no two concurrent transactions write one key (storage.go:    *)
(* Begin, write, Commit, Rollback).                                        *)
(***************************************************************************)
ImplementsSnapshotIsolation == SI!Spec

(***************************************************************************)
(* Get returns what snapshot isolation says a running transaction reads:   *)
(* its own last write, else its snapshot.                                  *)
(***************************************************************************)
GetReadsSnapshot ==
    \A v \in Version : Live(v) => \A k \in Key : Get(v, k) = SI!Read(v, k)

=============================================================================
