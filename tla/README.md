# Regatta: a verification project

Regatta is a distributed key-value store. Every table is a Raft shard with an
on-disk state machine; a *leader* cluster takes the writes, and any number of
*follower* clusters pull its tables' Raft logs and apply them to shards of
their own. This directory models the parts of Regatta that decide whether data
are lost, reordered or served from the wrong place, checks the models with TLC
on small instances, and proves the main invariants for all instances with
TLAPS. Paths are relative to `src/`.

## 1. Inventory

| Part | State | Operations | Talks to | Where it gets hard |
|---|---|---|---|---|
| metadata store (`storage/kv`) | versioned pairs | get, set, delete with a version check | Raft | updates that time out and are applied; keys that do not exist |
| table leases (`storage/table/manager.go` 93-161, `replication/worker.go`) | the lease of a table, the flag `leased` | LeaseTable, ReturnTable, the worker's routines | metadata store, clock | read-then-write over two Raft calls; late proposals |
| table manager (`storage/table/manager.go`) | table records, shard ID sequence, cleanup records, running replicas, table cache | CreateTable, DeleteTable, Restore, reconcile, cleanup | metadata store, NodeHost | nodes act on records they read earlier; failures in the middle of Restore |
| loading a stream (`readIntoTable`) | batch, size, index | read, propose, retry | table shard | a full batch; retries |
| table state machine (`storage/table/fsm`) | database, flushed part, current directory, update context | Update, Sync, Open, Close, snapshots, lookups | Raft | no write-ahead log; batches of Raft's choice; snapshots under writes |
| log reader (`storage/logreader`) | cache of log entries per shard | QueryRaftLog, compaction events | Raft's log | several streams fill one cache; compaction |
| log server (`regattaserver/replication.go`) | a stream per follower | Replicate | log reader, state machine | mixed answers, size limits |
| replication worker (`replication/worker.go`) | position, stream, proposal in flight | tableState, do, proposeBatch, recover | leader cluster, table shard | stale reads, proposals committed late, two workers at once |
| replication manager (`replication/replication.go`) | registry of workers and its lock | reconcileTables, reconcileWorkers, Close | table manager, leader's metadata | lock order, shutdown |
| data directory (`pebble/dir.go`) | `current` file, database directories | save, replace, clean up | file system | a crash between two steps |
| shard view, gossip (`storage/cluster`) | view of shards | merge, broadcast | memberlist | messages out of order |
| KV API (`regattaserver/kv.go`, `storage/engine.go`, `storage/table/table.go`) | calls in progress | Range, Put, Delete, Txn, Backup | table shard | stale and linearizable reads, timeouts of proposals that are committed |
| messages (`regattapb/*_vtproto.pb.go`, `encoding/proto`) | pool of commands | MarshalVT, UnmarshalVT, pool | everything | absent, empty and zero; reuse of messages |
| backup client, snapshot files, key codec, servers, commands | - | - | - | plain I/O, encoding and wiring |

What should be true: a lease has one owner; a replica's content is a function
of the log alone; nothing that Raft has discarded can be lost in a crash; a
follower is sent, and applies, every entry of the leader; a table's shard is
its own and fully loaded; nodes come to run what the records say; a crash never
finds half of a switch between two databases; the header of a response tells
the truth; what a client is answered fits one order of all commands, and what
it reads from a follower is the leader's table at an earlier index; a restore
restores everything; calls end. `PROJECT.json` lists the places where this
could go wrong (`hazards`), and the property that watches each.

## 2. Modules

    MetaStore   <- TableLease    <- TableLeaseProofs
                <- TableManager  <- TableManagerProofs
    LogCache    <- LogServer     <- LogServerProofs
    TableFSM    <- TableFSMProofs        TableFSM implements ReplicatedTable
    TableFSM + TableCommands = MCTableFSM
    Replication <- ReplicationProofs
    DataDir     <- DataDirProofs         DataDir implements StableStore
    ShardView   <- ShardViewProofs
    Wire <- MvccProto, RegattaProto, ReplicationProto, MaintenanceProto <- Proto
    TableContent <- TableCommands <- Promises
    TableContent <- Service       <- ServiceProofs
    TableCommands + Proto <- TableMessages <- ServiceMessages
    Service + Promises + ServiceMessages = MCService
    TableRestore      ReplicationManager

`Absent` declares the one constant (`Nil`) that commands and messages share, and
`TableContent` the contents of a table.
`MC*` modules add symmetry and the constants that a `.cfg` cannot write.

**MetaStore** is `LFSM.Update` with `MapStore`: an update of an existing key
must carry its version; an update of a missing key passes with any version.

**TableLease** has every node's lease routine and replication routine.
`LeaseTable` is a read (`LeaseGet`), the decision (`LeaseClaim` or
`LeaseNotAcquired`) and a proposal; `ReturnTable` likewise. A proposal stays in
`inflight` after its author has given up and may be applied at any time. The
history variables `held` and `given` record which lease is behind the flag and
which one the node has asked to delete.

**LogCache** holds `cache.put`, `cache.get` and `fixSize` as operators on
sequences; **LogServer** has the log, its compaction, the cache, and a
`Replicate` handler per follower. A query runs under the shard's mutex and is
one step; compaction and the event that empties the cache are two.

**TableCommands** has the handlers of all commands and lookups, as operators on
the content of a table and the update's batch (whether it is indexed, whether
the handler has panicked). **TableFSM** takes the handler as a constant
operator: `Update` is one step per entry and one for the commit, so crashes and
lookups fall between them. `db` is the database, `disk` what a crash leaves of
it. `ref` is the reference: what the log's commands do one at a time.
**ReplicatedTable** says what Raft and the readers may rely on: a replica shows
one version of the table after another, and has one version that a crash takes
it back to.

**Replication** has any number of follower nodes that replicate at the same
time. A shard is the sequence of its commands, each the run of leader entries
it applies. `TableLease` shows why two workers may be at work: the flag
`leased` is read once, before a stream that may take longer than the lease.

**TableManager** has, on every node, one API call, the reconcile loop and the
cleanup loop, each in as many steps as it makes calls of the store or of the
NodeHost. **TableRestore** refines the load of a restore to batches.
**ReplicationManager** has the manager's goroutine, the reader/writer lock of
its registry, the workers and `Close`.

**DataDir** has the steps of `pebble/dir.go` one by one, as `Open` and the two
recoveries (from a snapshot and from a checkpoint) call them. Every file and
directory has two states, the one the process sees (`vol*`) and the one on disk
(`dur*`); a sync of the directory makes them equal, and a crash chooses between
them for every entry. A file that was not synced may be damaged, and then reads
as the empty name (`Root`), as in `GetCurrentDBDirName`. **StableStore** says
what this is for: one stored database, replaced in one step.

**ShardView** has, for one shard, what Raft knows (`leaders`, `config`), what
each replica has heard of it (`info`), each node's view and the exchanged
states under way. `mergeShardInfo` is the code's function; `LocalState` and
`MergeRemoteState` are the two callbacks of the gossip library.

**Wire** says what a row of a table of fields is. The four `*Proto` modules have,
for each message, a table for writing and one for reading, one row per field,
taken from the two generated functions separately, and the zero value of the
struct. **Proto** reads the tables the way `MarshalVT` and `UnmarshalVT` work:
what is left out when empty, what is told apart from nothing, what is merged or
appended when it is there already; and adds the codec and the pool. Lengths and
varints are left out: a field is its number, its wire type and its value.

**TableMessages** translates between messages and the commands of
TableCommands: `ActiveTable.Put`, `Delete` and `Txn` on one side, `wrapCommand`
and `wrapResponseOp` on the other.

**Service** composes all of it: a client's request is encoded, validated
(`KVServer`, `ReadonlyKVServer`), encoded as a command, committed, decoded and
applied by each replica, and its result takes the same way back; the log entries
go on, through `LogServer.Replicate` and the worker's `proposeBatch`, or through
a snapshot, `SnapshotServer.Stream` and `readIntoTable`, to a follower. `ref` is
the table after each entry if the requests were executed directly, with no
message in between; **Promises** has what they do and answer then, in terms of
TableCommands (the constants `Executed` and `Promised` of Service). The state machine of calls, log, replicas and follower is
in Service, with constant operators where a message is made or read (`Check`,
`Proposal`, `Update`, `ReadResult`, `Streamed`, `Sequence`, `Snapshot`, `Load`
and others); **ServiceMessages** has their values, the code of the servers, the
engine and the worker on encoded messages, and `MCService.cfg` joins the two.
The split is what the proofs need: Service says in named assumptions what it
takes from the message layer, and TLC evaluates each of them for the operators
of ServiceMessages, over all contents of the table and all requests of the run.

How they fit together: LogServer's `StreamInOrder` and `ErrorsTruthful` are
what Replication assumes of a stream; TableFSM's `ReplicaIsPrefix` is why
Replication may take a shard as a sequence of commands, and its `CrashSafe` why
a restarted replica is an earlier prefix; TableManager's load is one step
because the table is not served before it ends, and TableRestore looks into it.
TableFSM switches the current directory in one step; DataDir's refinement of
StableStore is why it may. Service takes a replica as a prefix of the log, which
TableFSM proves, and one worker, which Replication generalises; of a response's
header it has the revision, and ShardView the leader and the term.

## 3. Runs

| Run | Checks | Shows |
|---|---|---|
| `lease` | `TypeOK`, `LeaseExclusive`, `LeaseNeverStolen` | one owner at a time, whatever is late or restarted |
| `logserver` | `TypeOK`, `CacheIsRun`, `StreamInOrder`, `ErrorsTruthful`, `PollProgress` | streams are gapless, errors true and polls not in vain, with a shared cache and compaction |
| `fsm` | `TypeOK`, `ReplicaIsPrefix`, `CrashSafe`, `ResponsesSerial`, `ExportExact`, `IndexMonotonic`, `TableReplicated` | batching, crashes and snapshots do not show: the replicas implement ReplicatedTable |
| `fsm_leader_index` | `LeaderIndexSet`, violated | a leader index is lost in an update of two entries |
| `replication` | `TypeOK`, `NoGap` | no entry is skipped |
| `replication_late` | `StateReplicated`, violated | a late proposal overwrites newer content |
| `replication_manager` | `CloseStops`, violated | the goroutine blocks on its own lock |
| `manager` | `TypeOK`, `IdsUnique`, `ServedIsWhole`, `Converges` | shards are not shared, not served half-loaded, and the nodes come to run what the records say |
| `restore` | `Restored`, violated | the pair that fills a batch is lost |
| `datadir` | `TypeOK`, `OpenFindsPromised`, `SwitchIsAtomic`, `Reopens` | the directory implements StableStore, keeps what Raft was promised, and opens again |
| `shardview` | `TypeOK`, `HeaderTruthful`, `NeverBack`, `ViewsConverge` | headers tell the truth, views go forward and come to agree |
| `service` | `TypeOK`, `Linearizable`, `FollowerIsPrefix` | answers fit one order of the commands; a follower is the leader at an earlier index |

### Where the code and its documentation disagree

* `fsm_leader_index`: `parseCommand` overwrites the context's leader index with
  that of every entry, also with none; `Commit` stores the last.
* `replication_late`: a worker's proposal 1..1 times out; it starts again,
  1..2 is committed, then the late 1..1, then 3..3. The leader index says 3 and
  the content is that of entry 1 for a key that entry 2 wrote.
  `NoGap` still holds: nothing was skipped, but something was overwritten.
* `replication_manager`: `reconcileWorkers` holds the registry's lock for
  reading when it calls `stopWorker`, which takes it for writing. It takes a
  table that disappears from the follower. The follower command offers no
  way to delete a table (`DeleteTable` is called by `cmd/leader.go`
  only), so today the path is reached only through the library.
* `restore`: `readIntoTable` drops the pair of the command that brings the
  batch to its limit, in every batch but the last.

Two more are kept among the hazards of `PROJECT.json`. `fixSize` cuts in front
of the entry that reaches `maxSize`, even if it is the first, while the
interface's comment calls the limit a hint: a cached entry of that size makes
`Replicate` answer "up to date" for ever (`PollProgress` fails with
`Sizes = {1, 3}` and `MaxSize = 3`). And the last command of a snapshot stream,
which has no pair, leaves a pair with the empty key in the follower's table
(`FollowerIsPrefix` leaves this key out).

### Bounds

Each bound is a constant named in its module.

* `lease`: two nodes, three proposals (a claim, a competing claim, a return or
  a renewal), a lease of one time unit and two ticks, so that a lease can be
  taken, run out and be taken by the other node with a proposal still in flight.
* `logserver`: two followers, three entries of two sizes, a cache of two (so it
  overflows) and messages of size three (so they are cut); one follower may
  start ahead of the log; one fault.
  Entries are smaller than a message, see above.
* `fsm`: two replicas, a log of two out of four commands which cover puts with
  and without reads, ranges, transactions, and sequences with batches in them, as
  a follower gets the entries of a restored table. Two entries
  are enough for an update of one or two, and a crash or snapshot between them.
  `Checkpoint = FALSE` selects recovery by snapshot; the proofs cover both.
* `replication`: two nodes, two leader entries, two shards (one recovery), two
  commands per shard, one timeout or restart. The violation takes one node,
  three entries and three commands.
* `manager`: two nodes, one table, two calls, one shard ID, a clock of two
  values, which lets the cleanup loop act, and one fault (a failed call that may
  have been applied, a failed reconciliation, or a crash). With one ID a table
  is created or restored, not restored again; a second table and a second ID
  multiply the states beyond what liveness can be checked on, and the proofs of
  the three invariants cover them for all constants.
* `restore`: three pairs of two sizes, a limit that two of them reach.
* `replication_manager`: two tables and one change.
* `datadir`: three names (an old database, a new one, and one left behind),
  indexes up to 3 (so that a database is flushed and replaced), two crashes (the
  second hits what the first has left).
* `shardview`: two nodes, one of which leaves the shard, two terms, one fault.
* `service`: two nodes and a follower, keys 1 and 2 and the empty one, a log of
  two entries, one of which may be an election's, one outstanding proposal, and
  nine requests: writes, a transaction with an empty branch, reads of each kind,
  a backup and two that are refused. There is one client at a time; a second
  one is a proposal whose author has given up, which may be committed at any
  time.

`CHECK_DEADLOCK FALSE` is set where the system may stop: a deleted shard
(`LogServer`), the end of a load (`TableRestore`), a closed manager, a full log
(`Service`).

### Fairness

* `TableManager`: the reconcile loop runs on a ticker and a call is a sequential
  function; both weakly fair. Cleanup and crashes are not.
* `ReplicationManager`: goroutines go on, the metadata shard gets a leader, a
  worker's work has a deadline. The send of `Close` is strongly fair: the
  goroutine comes back to its `select`, and Go's `select` is random
  among ready cases, so that the ticker cannot win for ever.

* `DataDir`: `Open` and a recovery are sequential functions, and Raft opens a
  closed or crashed replica again: their steps are weakly fair. Crashes,
  updates, `Close` and stopped recoveries are not, and crashes are bounded.
* `ShardView`: the gossip library exchanges states with every node from time to
  time, and Raft's heartbeats carry term and leader: both weakly fair. Elections
  and faults are bounded, which is what "in the end" means in `ViewsConverge`.

## 4. Proofs

Each is for every value of the constants; the assumptions on constants are the
named `ASSUME`s of the modules, which TLC evaluates in the runs.

* **TableLeaseProofs**: `LeaseExclusive`, `LeaseNeverStolen`. The invariant
  follows a version from the read to the proposal that carries it: as long as
  the stored pair has that version, it is the pair that was read (`Fresh`), so
  what was decided from it is still true when the proposal is applied
  (`Justified`); an acknowledged lease that is neither given back nor over is
  the stored one or was renewed (`Backed`).
* **LogServerProofs**: `CacheIsRun`, `StreamInOrder`, `ErrorsTruthful`,
  `PollProgress`. The core is `QueryCorrect`: from a cache that is a run of the
  log, a query returns a run from the start of its range, or a true error, and
  leaves such a cache. It rests on lemmas on `findIndex`, `cache.get`,
  `cache.put` and `fixSize`. `PollProgress` is proved for entries smaller than a
  message (`EntriesFit`, a hypothesis of its theorem alone; without it the
  property is false, see above). It also needs that the cache never runs ahead of what
  is applied (`CacheApplied`), since a range past the cache's end is asked of
  the log.
* **TableFSMProofs**: `ReplicaIsPrefix`, `CrashSafe`, `ResponsesSerial`,
  `ExportExact`, `IndexMonotonic`, `TableReplicated`, from `HandleAssumption`: a handler's result
  does not depend on whether the batch is indexed already. TLC evaluates the
  assumption for the commands of TableCommands in the run `fsm`. The invariant
  says that every store (database, disk, snapshot, reader) is the reference at
  its index, that an open context is ahead of its database, and that the log
  still holds what the disk lacks. `TableReplicated` is the refinement of
  ReplicatedTable, one lemma per action: a commit is `Advance`, a flush, `Sync`
  or `Close` is `Persist`, the two halves of a recovery are `Replace` and
  `Settle`, a crash or a panic is `Crash`, and the rest, the entries of a batch and `Open` included, is
  stuttering. It needs that the disk is ahead of the database in the middle of a
  recovery and at no other time (`Busy`).
* **ReplicationProofs**: `NoGap`. The invariant says that every worker, and
  every proposal in flight, goes on from an index that its shard *has reached
  at some time* (`Reached`), which later commands cannot undo.

* **TableManagerProofs**: `IdsUnique`, `ServedIsWhole`. The invariant follows
  who refers to a shard: a stored record, a record that a call has read, or a
  call that was given the ID (`UniqueOK`). Only the update of the sequence makes
  a new reference, and its version check makes it the only one. A reference
  that may become `ClusterID` is to a loaded shard (`WholeOK`). The store lets a
  restore write the record of a table that was deleted meanwhile; the proof
  shows that this does no harm to either property.
* **DataDirProofs**: `OpenFindsPromised`, and `SwitchIsAtomic`, the refinement of
  StableStore: one lemma for initial states, one for steps. The invariant says
  in which order a new database gets complete, on disk and current
  (`RecoveringOK`), and that both names `current` may have after a crash keep
  what was promised (`KeptOK`).
* **ShardViewProofs**: `HeaderTruthful`, `NeverBack`, and three theorems on
  `mergeShardInfo`: two updates of a view give the same result in either order
  (`MergeOrder`), a merged view may be passed on in place of what it was merged
  from (`MergeRelayed`), and a state that arrives again changes nothing
  (`MergeAgain`). So a view depends on the set of states it has heard of, and on
  nothing else that gossip may do. The invariant says that
  everything a node or a message holds was true of Raft once, and that a view
  without a leader has no term, which is what keeps a merge from going back.
* **ServiceProofs**: `TypeOK`, `FollowerIsPrefix`, `Linearizable`, for any number
  of clients and nodes, any set of requests and any length of the log. The
  invariant `Inv` has three layers, and each theorem uses what it needs.
  - `Core`: the reference is what the entries lead to one by one (`LogOK`); a
    node has the reference's content at what it has applied, which is also the
    one at its local index, though elections come in between (`NodesOK`); the
    follower has received the commands that follow its leader index
    (`FollowerOK`); and the proposal of a call that waits is either still a
    proposal or in the log once, after the call's beginning, never both, so
    that a late commit of a call given up cannot answer the next one
    (`CallsOK`). `TypeOK` follows from `Core`.
  - `Prefixed`: the follower's table agrees with the reference at its index. A
    proposal of `proposeBatch` may have any number of commands. What one does is
    an invariant of the log: for every two positions, the commands between them
    in one proposal lead to the content of the second (`Replays`, a conjunct of
    `LogOK`); an entry that is added extends the claim by one command
    (`ReplaysNext`). A recovery uses the local index (`RecoverLoads`).
  - `DoneOK`: the answers given are right, and stay so as the log grows.

  The assumptions are `WriteAssumption` (an entry that was encoded, committed
  and decoded does what the request says, and so does its answer),
  `ReadAssumption`, `StreamAssumption` (a sequence of n commands does what the
  last one does after the first n - 1; the Command of the pool is clean),
  `SnapshotAssumption` and `EmptyKeyAssumption`. The last one is a condition on
  the clients: the servers refuse the empty key in every request but a
  transaction, and a transaction that names it would see the pair that a
  recovery leaves. `TypeOK` does not use it; the other two theorems do, through
  `Prefixed`, on which a follower's answers rest.
  TLC checked `Inv`, but for `Replays`, which takes long to evaluate, as an
  invariant of the run's instance, and with two clients and two proposals,
  before it was proved.

Model-checked only: the liveness properties (`Converges`, `Reopens`,
`ViewsConverge`, `CloseStops`: fairness is out of the prover's reach); the
assumptions of Service on its message layer, whose nested messages need
recursive operators, over the contents and requests of the run; and the
violations.

## 5. Not modelled

Listed in `PROJECT.json` with reasons: configuration, certificates, logging,
metrics, DNS, REST, the bytes of keys, varints and lengths, and the file formats
of snapshots and backups. The listeners and broadcasts of `storage/cluster` have
no caller. Of the generated code, sizes, reflection, stubs and the messages of
restore and reset are left out. Service keeps a table on one shard: what a
client sees through a stale table cache while a restore moves the table is not
covered, nor is the shutdown of a node whose metadata shard never gets a leader.
Wall clocks are one clock for all nodes in TableLease; Raft itself, the database
library, the file system and the membership library are taken by how the code
uses them.
