-------------------------- MODULE SnapshotIsolation --------------------------
(***************************************************************************)
(* What the transaction layer promises: snapshot isolation with the first  *)
(* updater winning.  There are no versions, markers or write records here. *)
(* A transaction gets a copy of the committed store when it begins, keeps  *)
(* its writes to itself, installs all of them at once when it commits, and *)
(* may write a key only if no concurrent transaction has written it.  Any  *)
(* set of running transactions may abort at any time, without a trace.     *)
(***************************************************************************)
CONSTANTS
    Txn,       \* transaction identifiers
    Key,
    Value,
    Nil,       \* the key has no value
    NoWrite    \* the transaction has not written the key

VARIABLES
    store,     \* the committed value of every key
    phase,     \* where each transaction is
    snapshot,  \* the store each running transaction began with
    writes,    \* what each running transaction has written
    stale      \* keys that others committed since the transaction began

vars == <<store, phase, snapshot, writes, stale>>

Running(t) == phase[t] = "running"

NoSnapshot == [k \in Key |-> Nil]

NoWrites == [k \in Key |-> NoWrite]

KeysWritten(t) == {k \in Key : writes[t][k] # NoWrite}

\* What a running transaction reads: its own write if any, else its snapshot.
Read(t, k) == IF writes[t][k] # NoWrite THEN writes[t][k] ELSE snapshot[t][k]

Init ==
    /\ store = NoSnapshot
    /\ phase = [t \in Txn |-> "idle"]
    /\ snapshot = [t \in Txn |-> NoSnapshot]
    /\ writes = [t \in Txn |-> NoWrites]
    /\ stale = [t \in Txn |-> {}]

Begin(t) ==
    /\ phase[t] = "idle"
    /\ phase' = [phase EXCEPT ![t] = "running"]
    /\ snapshot' = [snapshot EXCEPT ![t] = store]
    /\ UNCHANGED <<store, writes, stale>>

\* value is Nil when the transaction deletes the key.
Write(t, k, value) ==
    /\ Running(t)
    /\ k \notin stale[t]
    /\ \A u \in Txn \ {t} : k \notin KeysWritten(u)
    /\ writes' = [writes EXCEPT ![t] = [@ EXCEPT ![k] = value]]
    /\ UNCHANGED <<store, phase, snapshot, stale>>

Commit(t) ==
    /\ Running(t)
    /\ store' = [k \in Key |-> IF k \in KeysWritten(t) THEN writes[t][k] ELSE store[k]]
    /\ phase' = [phase EXCEPT ![t] = "committed"]
    /\ snapshot' = [snapshot EXCEPT ![t] = NoSnapshot]
    /\ writes' = [writes EXCEPT ![t] = NoWrites]
    /\ stale' = [u \in Txn |->
                    IF u # t /\ Running(u) THEN stale[u] \cup KeysWritten(t) ELSE {}]

Abort(aborted) ==
    /\ \A t \in aborted : Running(t)
    /\ phase' = [t \in Txn |-> IF t \in aborted THEN "aborted" ELSE phase[t]]
    /\ snapshot' = [t \in Txn |-> IF t \in aborted THEN NoSnapshot ELSE snapshot[t]]
    /\ writes' = [t \in Txn |-> IF t \in aborted THEN NoWrites ELSE writes[t]]
    /\ stale' = [t \in Txn |-> IF t \in aborted THEN {} ELSE stale[t]]
    /\ UNCHANGED store

Next ==
    \/ \E t \in Txn :
        \/ Begin(t)
        \/ \E k \in Key, value \in Value \cup {Nil} : Write(t, k, value)
        \/ Commit(t)
    \/ \E aborted \in SUBSET Txn : Abort(aborted)

Spec == Init /\ [][Next]_vars

=============================================================================
