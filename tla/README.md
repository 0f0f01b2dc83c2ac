# SpaceDB in TLA+

SpaceDB is a small SQL database in Go: a server takes SQL statements over TCP, a
session runs each one in a transaction of its own, an MVCC layer gives
transactions snapshots, and an engine in memory or on disk keeps keys and values.
This directory models the path of a statement from the client's socket to the log
file and back, model-checks it on small instances with TLC, and proves with TLAPS what
the MVCC layer, the key encodings, the disk engine, the sessions and the server
guarantee for every value of the constants.

Line numbers are those of the Go sources; `PROJECT.json` names for every
definition the lines it models.

## The system

| part | state | operations | used by |
|---|---|---|---|
| memory engine (`storage/memory.go`) | a map | Set, Get, Delete, Scan, ScanPrefix and their reverses | MVCC |
| disk engine (`storage/disk.go`, `disk_log.go`) | an append-only log file, a lock file, an index (B-tree from key to position) | open, Close, Set, Get, Delete, scans, compaction on open | MVCC |
| MVCC (`storage/storage.go`, `mvcc_key.go`) | in the engine: next version, active markers, write records, versioned values; in memory: version and active set of each transaction; one mutex | Begin, Get, ScanPrefix, Set, Delete, Commit, Rollback | KV engine |
| KV engine and sessions (`engine/`) | tables and rows as JSON under encoded keys | CreateTable, GetTable, CreateRow, UpdateRow, DeleteRow, ScanTable; Session.Execute | executors, server |
| executors (`executor/`) | none between statements | one per plan node: create, insert, update, delete, scan, filter; join, aggregate, order, limit, offset, projection | Session.Execute |
| schema, values, expressions (`schema/`, `types/`, `executor/expression.go`) | none | validation, comparison, three-valued predicates | executors, KV engine |
| lexer, parser, planner (`lexer/`, `parser/`, `planner/`) | none between statements | text to tokens to syntax tree to plan | Session.Execute |
| server (`cmd/spacedb-server`) | listener, connections and their scanners, a wait group, the context of the signals | accept, one goroutine per connection, shutdown, closing of the engine | - |
| client (`cmd/spacedb-client`) | one connection | copy input to the connection and responses to the output, CloseWrite | - |

How they interact: a connection's goroutine reads lines and calls
`Session.Execute` for each of them that is not blank. Execute parses and plans, begins a transaction, lets the executors
call it, rolls back at the first error and commits otherwise. Every call of a
transaction takes the MVCC mutex for its own duration only, so the calls of two
statements interleave freely. Every MVCC method is a sequence of engine calls,
each of which can fail on its own, and nothing undoes the earlier ones. On a
signal the server closes the listener and all connections under the goroutines
that use them, waits for the goroutines, and closes the engine.

What is hard here:

- concurrency: snapshots that must not move while others commit, write conflicts
  that must be found from the newest version alone, scans that read the disk one
  record at a time while others write;
- failure: an engine call that fails inside Begin, write, Commit or Rollback; a
  process that dies at any of those points; a log write that stops short; a
  compaction that stops between its renames;
- encodings: byte order of keys, escapes, ranges built from prefixes and
  "version + 1", signed and unsigned lengths, JSON and bytes that are not UTF-8;
- statements of several rows: an UPDATE of primary keys moves rows one by one,
  and a later row may meet an earlier one;
- shutdown: connections close while statements run and responses are written, a
  failing Accept ends the server by another way than a signal does, client and
  server can fill each other's sockets;
- input that is cut: the scanner hands out the rest of a broken connection as a
  line, and only the grammar keeps half a statement from being one;
- queries: a RIGHT JOIN is a LEFT JOIN turned round in two places, the aggregate
  dereferences what the planner has to guarantee, ORDER BY sees columns that the
  projection drops, LIMIT and OFFSET count at their ends.

`PROJECT.json` lists these as hazards, each with the properties that would catch
it going wrong.

## The modules

| module | models | |
|---|---|---|
| `SnapshotIsolation` | what the transaction layer promises | abstract |
| `MVCC` | `storage/storage.go` | |
| `MVCCRefinement` | MVCC implements SnapshotIsolation | refinement mapping |
| `MVCCProofs` | theorems about MVCC, and that it implements SnapshotIsolation | proofs |
| `MVCCKey` | `storage/mvcc_key.go`, the ranges of `storage.go` | operators |
| `KVStore` | what `storage.Engine` promises; the memory engine's map | abstract |
| `DiskLog` | `storage/disk_log.go`, the decoding in `disk.go` | operators |
| `DiskEngine` | `storage/disk.go` | composes DiskLog and KVStore |
| `DiskLogProofs`, `DiskEngineProofs` | theorems about the log and the disk engine | proofs |
| `Bytes` | byte order, `prefixEnd`, ranges | operators |
| `Values` | `types/value.go`, `executor/expression.go`, `filter.go`, `planner/value.go` | operators |
| `Tables` | `schema/schema.go`, `planner/schema.go`, `makeInsertRow`, `validateRow` | operators |
| `Session` | `engine/engine.go`, `engine/kv.go`, the writing executors | composes Tables and SnapshotIsolation |
| `SessionProofs` | theorems about sessions | proofs |
| `RowKey` | the key encoding of `engine/kv.go` | operators |
| `Encodings` | what the layers assume of both encodings | composes MVCCKey and RowKey |
| `EncodingsProofs` | theorems about both encodings | proofs |
| `Parser` | `parser/parser.go`, `parser/ast.go` | operators |
| `Plans` | `planner/plan.go` | operators |
| `Executors` | the reading executors: `executor/executor.go`, `join.go`, `aggregate.go` | operators |
| `Query` | the parse, plan and read of `Session.Execute`; what SELECT means | composes Parser, Plans, Executors, Tables and Values |
| `QueryProofs` | theorems about queries | proofs |
| `Server` | `cmd/spacedb-server`, `cmd/spacedb-client` | |
| `ServerProofs` | theorems about the server and its clients | proofs |
| `Foundations` | induction and recursion over numbers, the order of byte strings | lemmas |
| `MC...` | constants for TLC | |

Definitions named `x_something` directly before a definition `x` are mutants: the
same code with one plausible mistake. Each property is known to fail when one of
them takes the place of the original.

### MVCC

State: `nextVersion`, `txnActive`, `txnWrite` and `versioned` are the four kinds
of keys in the engine; `activeVersions` is the field of `transactionState`;
`status` is where `Session.Execute` is with the transaction. A version identifies
a transaction.

The mutex makes a method one action, unless an engine call in it fails: each
prefix of engine calls that changes anything is an action of its own. `Begin` can
stop after the next version is stored (`BeginFails`), `write` after the write
record (`writeFails`), `Commit` after any part of the records (`CommitFails`),
`Rollback` after any part of its keys, with one key half undone
(`RollbackFails`). A failed Commit or Rollback, or a `Crash`, leaves a
transaction "dangling": nobody holds it, but its marker is stored. A process that
dies inside a method is the failing action followed by `Crash`. Reading is not an
action, since it changes nothing: `Get` and `ScanPrefix` are operators that the
invariants compare. They are two different algorithms in the code (backwards to
the first visible version; forwards keeping the last one), and are here.

### SnapshotIsolation and the refinement

A transaction copies the committed store, writes privately, installs everything
at once, and may write a key only if no concurrent transaction has. Any set of
running transactions may abort together. `MVCCRefinement` reads the abstract
state off the stored entries and markers; there are no history variables. That a
dangling transaction counts as aborted is part of the claim: what it has written
must never be seen, although it is still in the store.

### DiskEngine and DiskLog

The log is a sequence of cells: bytes, and the two length fields of each entry.
Nothing marks where an entry begins, as in the file. `Word` stands for 2^32: with
`Word = 8` the largest value length is 3, so the conversions between int, uint32
and int32 meet their limits, and -1 (a deletion) is the cell 7.

Every method holds the engine's lock and is one action, but a scan copies the
index and then reads record by record (`StartScan`, `readScanItem`, `EndScan`),
compaction goes through its file-system steps (`CompactRewrite`, `CompactBackup`,
`CompactInstall`, `CompactFinish`), any of which can fail (`CompactFails`,
`RestoreOriginal`, `RestoreFails`) or be the last one before a `Crash`, and an
entry can be written in part (`SetStopsShort`, `DeleteStopsShort`). Several
processes try to open one database; the lock file is modelled.

The constant `Faults` says which failures can happen that the engine does not
survive. The runs without them show what it guarantees; the violation runs show
what each of them does. `store` is the map of `KVStore`: it takes a step exactly
when Set or Delete returns without an error.

### Session, Tables, Values

A statement is its syntax tree, an execution of `Session.Execute` a transaction
of `SnapshotIsolation`. Every write call is an action; reads go with the write
they lead up to, which is sound because a snapshot does not move. INSERT goes
through its rows; UPDATE and DELETE read all their rows before they write the
first one; an UPDATE that changes the primary key deletes the old key
(`DeleteOldKey`) and sets the new one (`SetNewKey`), and others may run in
between. An execution may fail at every call (`Fails` for what the code refuses,
`StorageFails` for the engine). Values are a kind and a number; `JSON` is what
storing a value does to it, which matters for strings that are not UTF-8.

`Outcome` and `Allowed` say in one step what a statement means to a whole
database. They are the reference the row-by-row executors are compared with.

### MVCCKey, RowKey, Encodings

`MVCC` uses one variable per kind of key and `Session` uses pairs of a name and a
value; `Encodings` checks what that rests on: distinct records have distinct
encoded keys, the keys sort as the scans need, and every range and prefix selects
exactly its records. Its states are pairs of raw keys or pairs of rows. Bytes have
three bits and words two bytes, so carries, sign bits and the escape byte behave
as they do with eight.

### Parser, Plans, Executors, Query

A parser in the model is a record of the tokens that are left, the node just
built, and whether there was an error; every parse function of the code is an
operator from parser to parser, and a failed one matches nothing, which is the
early return. A plan is the sequence of its nodes, since each node but a join has
one source, and a join's other source is always a scan. `Execute` takes
the rows from node to node; each returns rows, an error, or a panic: the nil dereference
and the type assertions of `aggregate.go` are outcomes of the model and not left
to the reader's trust in the planner.

`Query` takes a statement through the stages of `Session.Execute`. Its states are
few and its data many: a statement as the client means it, the text the server
gets (all of it, or any part of it when the connection breaks), and the snapshot.
The second half of the module says what a SELECT means in another way: sets of
combinations of row numbers instead of loops over rows, positions of columns read
off FROM instead of rows glued together and swapped, groups as sets instead of
maps. The properties compare the two.

The tree of a RIGHT JOIN differs from its text (`parser.go` turns the operands of
its predicate round); a statement here has them as in the text.

### Server

One action per step that others can see: `Accept`, `Read` (the scanner takes what
is in the socket), `Scan` (a line from its buffer), `Begin`, `EndStatement`,
`Answer`, and the ends of each. The context is `signalled`; `CloseListener` and
`CloseConn` are the functions given to `AfterFunc`, which run at any time after
it. A statement is reduced to what `Session` shows about it: it begins a
transaction, and commits it or rolls it back as long as the engine is open
(`EngineIsGone` otherwise). `Signal` is SIGINT or SIGTERM, and also the deferred
stop of `run`, which ends the context after an error of Accept, shortly before the
process exits: from then on connections can be closed.

Whole lines are of four kinds: a statement, one that is refused, a blank one, and one
over `maxRequestSize`. When a connection ends in the middle of a line, the scanner
hands out what it has of it, and that is of two kinds: a "fragment", which does not
parse, or a "remnant", which does. A statement has its only semicolon at its end
(`NoPrefixRuns` of `Query`), so it leaves fragments only; a refused line, such as two
statements in one, can be cut behind its first semicolon (`PartsOf`).

The client's two goroutines are `Send`/`StopSending` and `Receive`/`End`; it may
die at any time (`Die`), and a part of the next line may arrive (`Cuts`). Sockets
hold `SocketBuffer` lines in each direction, and closing one with unread data
resets the connection, as TCP does: responses can be lost then.

`ran` and `late` are history variables that no guard reads.

## The runs

| run | bounds | shows |
|---|---|---|
| `mvcc` | 2 keys, 2 values and deletions, 3 transactions | no dirty reads, first updater wins, repeatable reads, ScanPrefix agrees with Get, the inductive invariant; MVCC implements SnapshotIsolation and Get returns what it says; with every failure and restart |
| `mvcc_zombies` | 1 key, 2 transactions | violation: a transaction that begins alone has a write conflict |
| `encodings` | raw keys of up to 3 bytes out of 4 byte values, 2-byte versions; all 6-bit integers and floats, 5 strings, 3 names | MVCC keys decode and sort by key and version; every range and prefix that a scan uses selects exactly its records; row keys are kept apart and sort by value |
| `disk_store` | 2 processes, 2 keys, 3 values, 10 cells, 5 ranges in both directions | the log holds the successful writes, the index is the one a restart builds, a scan is a snapshot in the memory engine's order |
| `disk_faults` | 2 keys, 2 values, 10 cells, all faults | a running engine answers with the last successful write |
| `disk_torn_entry` | 1 key | violation: half an entry makes older data unreadable after a restart |
| `disk_swap_crash` | 1 key | violation: dying between the renames leaves an empty database |
| `sql_statements` | 4 executions of 11 statements, 3 at a time | a statement does to its snapshot what it means; rows fit their table and sit under their key; schemas are fixed |
| `sql_no_waiting` | 4 executions of 6 statements, 3 at a time | statements that write the same rows in any order never wait for each other |
| `sql_utf8` | 2 executions | violation: a row that is not under the key of its primary key |
| `server` | 2 clients, sockets of 1 line, 3 sets of inputs | answers belong to their statements and are true; no statement that lost its end is committed; after a connection is closed at most one more line is executed; a shutdown ends and leaves no transaction; clients end, with all their answers |
| `queries` | about 1670 statements, whole and cut after every token; 20 databases of 2 tables with up to 4 and 3 rows | a statement reads the rows it says, in the right order and the right window; no sensible query is refused or fails, none panics; every text is parsed to its tree, and no part of one is |

Why the bounds are enough. A conflict needs two concurrent transactions, and one
hiding behind another needs a third: three versions. Two keys are what a
half-finished rollback needs (one key undone, one not). For the log, 10 cells are
three entries of different sizes, so an overwritten one, a deletion and a live
one, with a compaction making room for more, and the byte values double as
lengths, so a misaligned reader goes wrong at once. Raw
keys of three bytes over {00, 01, fe, ff} have every combination of an escape, a
terminator and a following byte. For statements, one execution creates the table,
one fills it, and two act on the rows at the same time; executions are
interchangeable (symmetry).

For the server, one line per socket is what it takes for both sides to be blocked
on a full one (a client that sent everything before it received would be stuck at
once); the inputs are one long enough to fill both directions and the scanner,
one with a line of every kind, and one for two clients whose connections are
closed in either order. For queries, the tables share a column name, every
column but the keys has NULLs, the row counts include 0, and statements combine
every join (up to two, with a table joined to itself), WHERE, GROUP BY, HAVING,
ORDER BY, LIMIT and OFFSET with columns that exist on the left, on the right, on
both sides and nowhere. Floats are multiples of 1/60 (`FloatUnit = 60`), so that
averages of up to six numbers are exact.

`MaxVersion`, `MaxLog`, `MaxSessions`, `MaxRawKey`, `SocketBuffer` and the sets of
statements and inputs are the only bounds on behaviour.

Deadlock is checked in the runs of MVCC and, but for `disk_faults`, of the disk
engine. In `disk_faults` a log can be broken so that it no longer opens: the
system really stops. In the Session runs all executions end, the server exits, a
query is done, and in the run over keys all pairs are built, so those stop too.
`NobodyWaits` says for Session what a deadlock check would: as long as an
execution has not ended, it has a step.

### What the violation runs show

- `mvcc_zombies`: the comment on the conflict check (`storage.go:315-317`) says that
  a newest version that cannot be seen is from a transaction that was active at
  Begin, or from a later one. The trace is Begin, Set, a Commit that fails, Begin:
  now nobody else runs, but the new transaction has a write conflict on that key,
  with one that Begin only took for active because its marker is stored. A `Crash`
  leaves the marker too, and no action of the model removes it afterwards, as nothing
  in the code does. What such a transaction wrote stays invisible, which is right
  (`NoDirtyRead`).
- `disk_torn_entry`: `Set`'s comment (`disk.go:222`) says a failed write loses no
  data. In a running engine that is so (`disk_faults`); after a restart it is
  not, because the broken entry is still in the log.
- `disk_swap_crash`: between its two renames a compaction has no file under the
  database's name. A later open creates an empty one, and the backup is under a
  name nobody looks for.
- `sql_utf8`: the key of a row is computed from the string as given, the row goes
  through JSON, which replaces bytes that are not UTF-8. UPDATE and DELETE
  compute the key from the row they read, and miss it.

Statements have snapshot isolation and not more: two UPDATEs that each pass over the
row the other one writes both commit. The comments of the code promise snapshots
(`storage.go:9`, `:53`), so this is no finding.

The runs that pass also mark out three limits of the server. `ShutdownLeavesNothing`
excepts `serve = "failed"`: when Accept fails of itself, Serve returns without
waiting (`main.go:56`), the engine closes under running statements and their
transactions keep their markers, as in `mvcc_zombies`. And `AnswersAreTrue` speaks
of the answers that arrive: a statement can be committed and its answer lost, when
the connection is closed or reset first, and the client cannot tell. And
`CommitsWhatWasSent` has one exception, the remnant: of a line that would have been
refused as a whole, for instance because it holds two statements, the first one is
committed if the connection breaks right behind its semicolon. It is then the last
thing done for that connection, and never answered.

### Fairness

Only `server` needs it. `ServerFairness` is weak fairness of the server's
goroutines: the Go scheduler runs each of them, Execute ends (no step of a
statement waits for another statement, which is `NobodyWaits` of `Session`: the
mutex is held for one call, and a conflicting write fails instead of waiting),
the functions given to `AfterFunc` run once the context is done, Accept returns a
pending connection, and an error once its listener is closed. Nothing is assumed
of clients, of signals, or of Accept failing of itself; nobody has to dial.
`ShutdownCompletes` holds without any help of the clients. `ClientsEnd` is about a
client that goes on sending and receiving, so `ClientFairness` of that client is
its premise and not part of the specification.

## The proofs

TLC checks small instances; the theorems below hold for all of them. Each module
of proofs extends the module it is about.

| module | theorems | about |
|---|---|---|
| `MVCCProofs` | `TypeCorrect`, `Invariance`, `FirstUpdaterWinsAlways`, `NoDirtyReadAlways`, `SnapshotStabilityAlways`; `Refinement`, `GetReadsSnapshotAlways`, `ScanAgreesWithGetAlways` | any keys, values and number of versions |
| `DiskLogProofs` | lemmas about the log that `DiskEngineProofs` uses | any width of the length fields |
| `DiskEngineProofs` | `TypeCorrect`, `Invariance`, `ScanIsSnapshotAlways`, `ReadsLastWriteAlways`; `IndexMatchesLogAlways` (no short writes); `DurableIsStoreAlways` (no faults) | any processes, keys, values, ranges and size of the log |
| `SessionProofs` | `TypeCorrect`, `Invariance`, `RowsFitTheirTableAlways`, `SchemasAreFixedAlways`; under `Exact`: `RowsUnderTheirKeyAlways`, `EffectInvariance`, `StatementTakesEffectWholeAlways`, `ResultsDescribeSnapshotAlways` | any statements, tables, values and number of executions |
| `ServerProofs` | `TypeCorrect`, `Invariance`, `ShutdownLeavesNothingAlways`, `AnswersAreTrueAlways`, `CommitsWhatWasSentAlways`, `OneStatementAfterCloseAlways`, `EndsWithAllAnswersAlways` | any clients, inputs and size of the sockets |
| `EncodingsProofs` | `AlwaysTyped`, `DecodingInvertsEncoding`, `StoredVersionsAreSorted`, `EveryScanIsExact`, `RowsNeverCollide`, `RowsSortByValue` | raw keys of any bytes and length, any namespace, versions and numbers of any width, any names and texts |
| `QueryProofs` | `NoPrefixIsRun`, `NothingEverPanics`, `PagesAlwaysAreWindows` | any statements of the grammar, any tables and rows |
| `Foundations` | `LeastNumber`, `Induction`, `Recursion`, `Agreement`, `Stays`, `LoopExists`; `LessTotal`, `LessTransitive`, `LessIrreflexive` | |

Assumptions on the constants. `MaxVersionAssumption`, `WordAssumption` (length
fields have an even number of values, at least 4), `NumberAssumption` and
`ServerAssumption` say that bounds are numbers. `SentinelAssumption`,
`ReadErrorAssumption` and the two called `AbsentAssumption` say that what stands
for "nothing" is not a value. `BytesAssumption` says that keys and values are
byte strings. `EncodingsAssumption` says that bytes have an even number of values, at
least 5 (for the kinds and tags), and words at least one byte; that table names are not
empty and have no zero byte, which is what the lexer takes for an identifier; and that
the failure of a decoding is not a value. `StatementAssumption` of `Session` says
that a statement is a syntax tree the parser can return (`IsStatement`): column
types are types, a literal has a value, a WHERE compares two terms; that of `Query`
says that it has one of the types of `parser/ast.go`. `DatabaseAssumption` says
that a row has a value for every column of its table, which `RowsFitTheirTable`
proves of what sessions commit; `UnsetAssumption` that nil is not a value. `SQLValueAssumption` says that the values are finitely
many, among them NULL, and that JSON turns values into values.

### MVCC

None of the properties is inductive by itself. `IndInv` adds what they rest on:

- `FreshVersions`: versions from the next one on have no marker, record or entry;
  without it Begin might hand out a version that is already in use.
- `MarkerMeansUndecided`: a version has a marker exactly while its outcome is
  open or was lost. This is where the order "marker last" of Commit and Rollback
  comes in.
- `NothingLeft`: what was rolled back has no entries.
- `WriteSetComplete`: a live transaction has a record for each of its entries, so
  that Rollback finds them; this is the order "record first" of write.
- `SnapshotDecided`: the active set of a transaction has only older versions, and
  an older version that is not in it was committed, rolled back or never used. With
  it a visible version is a committed one: `NoDirtyRead`.
- `SnapshotsMonotone`: what was decided when one transaction began was decided
  when a later one began.

The heart is `NoConcurrentVersion`: when write finds the newest version in its
range visible, every version of the key is. A version that is not visible is in
the range, so the newest one, x, is above it; x is visible, hence older than the
writer and decided; by `FirstUpdaterWins` for the two of them the hidden version
was decided when x began, and by `SnapshotsMonotone` when the writer began. That
is why it is enough to look at one version.

`SnapshotStability` follows from two lemmas: a step changes only entries of
versions that are live (`StepIsLocal`), and the versions visible to a transaction
and not its own are decided (`VisibleIsDecided`), so a step leaves them alone.

`Refinement` goes through the steps of MVCC from the same `IndInv`. Begin copies
the abstract store because what is visible to a new transaction is exactly what
has no marker; a write is allowed there because of `NoConcurrentVersion`; Commit
installs the writes because by `FirstUpdaterWins` no newer version of their keys
has been committed in between; every failure is a stutter or an abort.

### Disk engine

Three invariants, one for each class of faults:

- `Inv` holds whatever fails. One process has the files, and every position of
  its index, of the items of its scan and of the index compaction is about to
  switch to can be read (`Readable`). Appending, whole or in part, keeps that,
  since a log only grows while a process has it. `ScanIsSnapshot` and
  `ReadsLastWrite` need no more.
- `IndexInv` holds unless a write stops short: every file is a sequence of whole
  entries, and the index in memory is the one a restart would build. It rests on
  the lemma `RebuildAppended` about the loop of `rebuildKeydir`: reading a log with
  one more entry is reading the log and then the entry.
- `StoreInv` holds without faults: all logs that a process could come to open
  have the same contents, the store.

`disk_torn_entry` and `disk_swap_crash` show that the second and the third fail
when their condition does.

### Sessions

`Inv` is about the database and the executions:

- `SnapshotInv`: a snapshot differs from the store only in keys that the
  transaction can no longer write, and not in the tables it has seen. This is
  what makes a check against a snapshot good for the store at Commit.
- `WritesInv`: pending tables are new ones, and pending rows fit a table of the
  snapshot. Two transactions do not write one key (`OneWriter`).
- `LoopInv`: what the executor has checked before its loop, and before the second
  half of a move, is still so.

`EffectInv` relates what a statement has written with what it means. `Applied`
says that the writes are the first c of the new rows under their keys, that the
old keys gone through so far are deleted where no new row took them, and that
nothing else was written. For INSERT the new rows are those of VALUES; for UPDATE
and DELETE a list f of the matching rows of the snapshot fixes the order, the
rows still to come are those of f from Count on, and between the halves of a move
(`Moving`) one old key more is deleted than new rows are written. The hard part
is UPDATE: a new key may be the old key of a row dealt with before, and must not
be one that is still to come, or the row there would be lost; the code reads the
key within its own transaction, and the invariant shows that this is enough. At the end
of the loop, c is the number of rows, and `Applied` is `Outcome`.

The rows of the source are those that satisfy WHERE: `InScanOrder` is a CHOOSE,
so `OrderExists` shows that there is such an order; `FilterRowsIs` that a filter
keeps the rows for which its predicate is true; and `SatisfiesIs` that the
three-valued comparison, with its detour through float64 for mixed kinds, is the
reference's.

`Exact` says that JSON changes no value, that is, that every string is UTF-8. The
run `sql_utf8` shows that `RowsUnderTheirKey` fails without it, and then UPDATE
and DELETE look under keys that do not hold the row. The theorems about types and
schemas hold without it.

### Encodings

The states are simple: two raw keys or two rows (`Typed`). The work is in the lemmas
about bytes, all for strings of any length.

- Two strings are compared at the first byte where they differ (`Below`), or one
  starts with the other (`Compared`). `Below` survives whatever is appended to
  either string (`BelowJoined`); "is shorter" does not. So the point of an
  encoding is that different values get strings that are `Below` one another.
- `EscapedBelow` and `EscapedLonger` show it for raw keys: where two raw keys
  differ, so do their escapes, in the same direction, also when one byte is the
  escaped 00; and where one raw key ends first, its terminator 00 00 is below the
  other's next byte, or below the 00 ff of its next zero. `BigEndianInOrder`
  shows it for versions, by induction over the number of bytes. Together:
  `VersionsInOrder`.
- `PrefixIs`: the range from a prefix to `prefixEnd` holds exactly the strings
  that start with the prefix, also when the prefix ends in ff or consists of
  nothing else. `EscapedPrefix`: the escapes of a raw prefix, not terminated,
  start a stored key exactly if the raw prefix starts the raw key. With
  `KindsApart` this gives `PrefixesExact`; `NextString`, that nothing lies
  between a string and the string with a zero byte more, gives the conflict
  check's range up to the highest version (`RangesExact`).
- `DecodedRawKey` goes from the end of the raw key to its start: behind the
  escapes of all of it the terminator is read; behind all but its last n bytes,
  those n bytes are. `DecodedVersion` is that reading digits undoes writing them.
- `NamesApart`: the separator 00 is below any byte of a name, so the prefixes of
  two tables are `Below` one another even when one name starts with the other.
  `FlippedInteger` and `FlippedFloat` are the sign bit: what is stored is the
  integer plus half of the range, and for floats a monotone map, which is
  one-to-one although the two zeros are one number.

The texts of string keys have no terminator, which is sound only because they come
last in the key; `KeysOfOneKind` and `CommonStart` need just that.

### Queries

The inductive invariant is short: the tree is what `Parse` returned for the text,
the plan is what `Build` made of the tree, and the result what `Execute` returned
for the plan (`Parsed`, `Planned`, `Ran`). The work is in what these three return,
for input of any length.

- The parser. `Leads(T, N, p, q)` says that of parser p a parser q is made that has
  failed, as it must if p has, or has a node of N and tokens of T left. Every
  parse function leads to a node of its type, which is proved along its calls
  (`LeadsOn`), and along its loops with the lemma `Stays`: a loop stays in a set that
  its first state is in and no step of it leaves. At the end, `ParseIs`: a text has
  a tree only if there is a semicolon among its tokens, and a text that starts with
  SELECT has the tree of a SELECT.
- The text. No token of a statement before its end is a semicolon (`TextIs`), since
  a statement's parts consist of keywords, names, literals and the symbols of
  `Token`. So a text cut short has none, and fails (`CutTextFails`).
- The planner and the executors. `Execute` goes from node to node (`Stays` again). Up
  to WHERE, the tables give rows of SQL values, as many as there are columns, or an
  error. At the aggregate, `CanSelect` has seen to it that every item has a name and
  a value: without GROUP BY it is a function, with GROUP BY a function or the column
  of the group. The nodes behind it cannot panic. UPDATE and DELETE have only nodes up to WHERE.
- Pages. The plan of a query with LIMIT and OFFSET and the plan of the query without
  them start with the same nodes; then come OFFSET, LIMIT and the projection, which
  maps rows one by one. So row i of the page is row OFFSET + i of all rows, and there
  are as many as there are numbers in the window.

### Server

The inductive invariant is `IndInv` of module `Server`. `Order` says in
which order the parts of the process end. For each connection, `InputUpTo(c, n)`
says where every line of the input is: the first n are behind the goroutine,
executed but for the blank ones; the next are in the scanner and the socket; the
others are unsent; when the client was cut off, an end is missing and the last
line may be a part of one. `AnswersInOrder` says the same of the responses, and
`NothingLost` that while the server is up nothing but the end of the input closes
a connection. `Lifecycle`, `TxnInStatement` and `LateOnce` tie them to the places
of the goroutines.

### Induction

The theorems of the library that state induction take a predicate as a parameter,
which the installed provers cannot instantiate. Module `Foundations` states them with
sets and functions in place of predicates: `LeastNumber` and `Induction` take a set
of numbers; `Recursion` takes the step of a recursive definition as a function and
shows that there is a function that follows it, `Agreement` that there is only
one. With them, what the recursive functions of `DiskLog`, `Values` (`FilterRows`),
`Bytes` (`Power`) and `MVCCKey` (`decodeVersion`, `decodeRawKey`) return is proved
one step at a time. `LoopExists` is `Recursion` for a loop over a slice, which is what
the functions of `Parser` and `Executors` are, and `Stays` is what one keeps. `FlattenSeq` of the community modules, with which
`EscapedRawKey` is written, is a recursive function too (`EscapedIs`).

### Only model-checked

- Liveness (`ShutdownCompletes`, `ClientsEnd`), which takes fairness, and
  `NobodyWaits`, which takes `ENABLED`.
- That a query reads what it says (`ReadsWhatItSays`, `SensibleQueriesRun`), in the
  order it says (`OrderIsRight`), and that a tree is that of its text
  (`TreeIsTheText`). The first three need what every executor computes and not only
  what kind of rows it returns: a join against sets of combinations, sums and extremes
  over groups. The last needs that the grammar is unambiguous, clause by clause.

## Not modelled

- Power loss. A crash here is the death of the process: what was written to a
  file stays. `writeEntry` does not sync, so a power loss can take back answered
  commits.
- The lexer. It has no state between calls; the model starts from its tokens, and
  characters would add only spelling (quotes, case of keywords, digits).
- Formatting: `FormatResult`, `Value.String`, error messages, logging, flags.
- Rounding. Sums and averages are exact here; in the code they are float64. Several
  integers above 2^53 equal the same float (`Values` has `ExactInteger` for it, the
  runs stay below it), so equality of columns of different types is not transitive.
- Wrap-around of versions at 2^64: only `MVCCKey` has versions of bounded width.

## The plan

Done: the MVCC layer with its abstraction, the disk engine, the encodings,
statements and sessions, parser, planner and queries, the server and its clients.
Every component that keeps state is modelled. Proved: every safety property of
MVCC and of its refinement, of the encodings, of the disk engine, of sessions (but
`NobodyWaits`) and of the server; and of queries that no part of a statement is run,
that nothing panics, and that pages are windows.

What is left is the rest of `Query`: that the grammar is unambiguous and that the
executors compute what a SELECT means, for statements and tables of any size.
