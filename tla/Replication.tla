---------------------------- MODULE Replication -----------------------------
(***************************************************************************)
(* A follower cluster pulls one table from the leader cluster              *)
(* (replication/worker.go).  The worker of a node reads the leader index   *)
(* of its own replica, streams the leader's log from there, proposes what  *)
(* it receives to the table's shard as SEQUENCE commands, each of which    *)
(* carries the leader index of its last entry, and restores the table from *)
(* a snapshot into a new shard when the leader no longer has the entries.  *)
(*                                                                         *)
(* The leader's stream is what LogServer shows it to be: entries in order, *)
(* or USE_SNAPSHOT.  The flag `leased' is left out: any worker may run at  *)
(* any time, as a flag that is no longer backed by a lease lets it (see    *)
(* TableLease).  A proposal whose context has expired may be committed     *)
(* later, or never.  A replica lags behind its shard and, when its node    *)
(* restarts, falls back to what was flushed (see TableFSM).                *)
(*                                                                         *)
(* A shard is the sequence of its commands; each one is the run lo..hi of  *)
(* leader entries it applies, and leaves the leader index hi.  A snapshot  *)
(* at index k is the run 1..k, and Maintenance.Reset the empty run that    *)
(* leaves 0.                                                               *)
(***************************************************************************)
EXTENDS Integers, Sequences

CONSTANTS
    Nodes,         \* nodes of the follower cluster
    Keys,          \* keys of the table
    KeyOf,         \* the key that each entry of the leader's log writes
    MaxGens,       \* bound on the shards the table is restored into
    MaxShard,      \* bound on the commands of a shard
    MaxTimeouts    \* bound on the proposals that time out

MaxLeader == Len(KeyOf)

Gens == 1..MaxGens

ASSUME ReplicationAssumption ==
    /\ KeyOf \in Seq(Keys)
    /\ MaxGens \in Nat \ {0} /\ MaxShard \in Nat /\ MaxTimeouts \in Nat

VARIABLES
    leader,     \* index the leader's table has applied
    first,      \* first entry that the leader's log still holds
    shard,      \* commands of each shard of the follower's table
    gens,       \* number of shards so far
    table,      \* ClusterID of the table's record in the metadata store
    cache,      \* ClusterID in the table cache of each node
    pos,        \* applied commands of each node's replica of each shard
    worker,     \* the replication routine of each node
    late,       \* proposals that timed out and are not committed so far
    timeouts    \* number of timeouts so far

vars == <<leader, first, shard, gens, table, cache, pos, worker, late, timeouts>>

Run(lo, hi) == [lo |-> lo, hi |-> hi]

(* A routine: its shard, the index it asks for next, the end of its        *)
(* stream, the proposal it waits for and where that was committed.         *)
Worker(pc, gen, next, end, run, at) ==
    [pc |-> pc, gen |-> gen, next |-> next, end |-> end, run |-> run, at |-> at]

NoRun == Run(1, 0)

Idle == Worker("idle", 1, 1, 0, NoRun, 0)

Proposal(id, gen, run) == [id |-> id, gen |-> gen, run |-> run]

(* sysLeaderIndex after the first p commands of shard g.                   *)
LeaderIndex(g, p) == IF p = 0 THEN 0 ELSE shard[g][p].hi

Init ==
    /\ leader = 0
    /\ first = 1
    /\ shard = [g \in Gens |-> <<>>]
    /\ gens = 1
    /\ table = 1
    /\ cache = [n \in Nodes |-> 1]
    /\ pos = [n \in Nodes |-> [g \in Gens |-> 0]]
    /\ worker = [n \in Nodes |-> Idle]
    /\ late = {}
    /\ timeouts = 0

-----------------------------------------------------------------------------
(* The leader cluster and the Raft groups of the follower (external).      *)

LeaderAppend ==
    /\ leader < MaxLeader
    /\ leader' = leader + 1
    /\ UNCHANGED <<first, shard, gens, table, cache, pos, worker, late, timeouts>>

LeaderCompact ==
    /\ \E to \in (first + 1)..(leader + 1) : first' = to
    /\ UNCHANGED <<leader, shard, gens, table, cache, pos, worker, late, timeouts>>

AppendTo(g, run) ==
    /\ Len(shard[g]) < MaxShard
    /\ shard' = [shard EXCEPT ![g] = Append(@, run)]

(* Raft commits the proposal that a worker waits for.                      *)
Commit(n) ==
    LET w == worker[n]
    IN /\ w.pc = "proposing"
       /\ AppendTo(w.gen, w.run)
       /\ worker' = [worker EXCEPT ![n] =
                       Worker("committed", w.gen, w.next, w.end, w.run,
                              Len(shard[w.gen]) + 1)]
       /\ UNCHANGED <<leader, first, gens, table, cache, pos, late, timeouts>>

LateCommit(m) ==
    /\ AppendTo(m.gen, m.run)
    /\ late' = late \ {m}
    /\ UNCHANGED <<leader, first, gens, table, cache, pos, worker, timeouts>>

(* Mutant of ApplyReplica: a replica applies one command twice.            *)
ApplyReplicaTwice(n, g) ==
    /\ pos[n][g] < Len(shard[g])
    /\ pos' = [pos EXCEPT ![n][g] = @ + 2]
    /\ UNCHANGED <<leader, first, shard, gens, table, cache, worker, late, timeouts>>

(* A replica of the shard applies the next command.                        *)
ApplyReplica(n, g) ==
    /\ pos[n][g] < Len(shard[g])
    /\ pos' = [pos EXCEPT ![n][g] = @ + 1]
    /\ UNCHANGED <<leader, first, shard, gens, table, cache, worker, late, timeouts>>

-----------------------------------------------------------------------------
(* The replication routine.                                                *)

(* tableState: a stale read of the leader index; do: the stream is opened. *)
TableState(n) ==
    LET g == cache[n]
    IN /\ worker[n].pc = "idle"
       /\ worker' = [worker EXCEPT ![n] =
                       Worker("do", g, LeaderIndex(g, pos[n][g]) + 1, leader,
                              NoRun, 0)]
       /\ UNCHANGED <<leader, first, shard, gens, table, cache, pos, late, timeouts>>

(* proposeBatch: a part of the commands received, up to desiredProposalSize *)
(* or the end of the message.                                              *)
ProposeBatch(n) ==
    LET w == worker[n]
    IN /\ w.pc = "do"
       /\ first <= w.next
       /\ \E hi \in w.next..w.end :
            worker' = [worker EXCEPT ![n] =
                         Worker("proposing", w.gen, w.next, w.end,
                                Run(w.next, hi), 0)]
       /\ UNCHANGED <<leader, first, shard, gens, table, cache, pos, late, timeouts>>

(* SyncPropose returns once the local replica has applied the proposal.    *)
Proposed(n) ==
    LET w == worker[n]
    IN /\ w.pc = "committed"
       /\ w.at <= pos[n][w.gen]
       /\ worker' = [worker EXCEPT ![n] =
                       Worker("do", w.gen, w.run.hi + 1, w.end, NoRun, 0)]
       /\ UNCHANGED <<leader, first, shard, gens, table, cache, pos, late, timeouts>>

(* Mutant of ProposeTimeout: the error is ignored and the stream goes on.  *)
ProposeTimeoutIgnored(n) ==
    LET w == worker[n]
    IN /\ w.pc = "proposing"
       /\ timeouts < MaxTimeouts
       /\ timeouts' = timeouts + 1
       /\ late' = late \cup {Proposal(timeouts + 1, w.gen, w.run)}
       /\ worker' = [worker EXCEPT ![n] =
                       Worker("do", w.gen, w.run.hi + 1, w.end, NoRun, 0)]
       /\ UNCHANGED <<leader, first, shard, gens, table, cache, pos>>

(* The context of the stream expires before SyncPropose returns.           *)
ProposeTimeout(n) ==
    LET w == worker[n]
    IN /\ w.pc \in {"proposing", "committed"}
       /\ timeouts < MaxTimeouts
       /\ timeouts' = timeouts + 1
       /\ late' = IF w.pc = "proposing"
                  THEN late \cup {Proposal(timeouts + 1, w.gen, w.run)}
                  ELSE late
       /\ worker' = [worker EXCEPT ![n] = Idle]
       /\ UNCHANGED <<leader, first, shard, gens, table, cache, pos>>

(* The stream ends, breaks or expires; or the table is returned because    *)
(* too many recoveries run.                                                *)
DoEnd(n) ==
    /\ worker[n].pc = "do"
    /\ worker' = [worker EXCEPT ![n] = Idle]
    /\ UNCHANGED <<leader, first, shard, gens, table, cache, pos, late, timeouts>>

(* USE_SNAPSHOT: the worker streams a snapshot of the leader's table.      *)
UseSnapshot(n) ==
    LET w == worker[n]
    IN /\ w.pc = "do"
       /\ w.next < first
       /\ worker' = [worker EXCEPT ![n] =
                       Worker("recover", w.gen, w.next, w.end, Run(1, leader),
                              0)]
       /\ UNCHANGED <<leader, first, shard, gens, table, cache, pos, late, timeouts>>

(* Manager.Restore: the snapshot is loaded into a new shard, which becomes *)
(* the table's.                                                            *)
Restore(n) ==
    LET w == worker[n]
    IN /\ w.pc = "recover"
       /\ gens < MaxGens
       /\ gens' = gens + 1
       /\ shard' = [shard EXCEPT ![gens + 1] = <<w.run>>]
       /\ table' = gens + 1
       /\ cache' = [cache EXCEPT ![n] = gens + 1]
       /\ pos' = [pos EXCEPT ![n][gens + 1] = 1]
       /\ worker' = [worker EXCEPT ![n] = Idle]
       /\ UNCHANGED <<leader, first, late, timeouts>>

RestoreFails(n) ==
    /\ worker[n].pc = "recover"
    /\ worker' = [worker EXCEPT ![n] = Idle]
    /\ UNCHANGED <<leader, first, shard, gens, table, cache, pos, late, timeouts>>

(* Manager.reconcile caches the tables' records.                           *)
CacheTable(n) ==
    /\ cache' = [cache EXCEPT ![n] = table]
    /\ UNCHANGED <<leader, first, shard, gens, table, pos, worker, late, timeouts>>

(* ActiveTable.Reset, called by the Maintenance API.                       *)
Reset(n) ==
    /\ AppendTo(cache[n], NoRun)
    /\ UNCHANGED <<leader, first, gens, table, cache, pos, worker, late, timeouts>>

(* The node's process restarts; its replicas replay from what was flushed. *)
Restart(n) ==
    LET w == worker[n]
    IN /\ timeouts < MaxTimeouts
       /\ timeouts' = timeouts + 1
       /\ late' = IF w.pc = "proposing"
                  THEN late \cup {Proposal(timeouts + 1, w.gen, w.run)}
                  ELSE late
       /\ worker' = [worker EXCEPT ![n] = Idle]
       /\ cache' = [cache EXCEPT ![n] = table]
       /\ \E p \in 0..pos[n][table] : pos' = [pos EXCEPT ![n][table] = p]
       /\ UNCHANGED <<leader, first, shard, gens, table>>

Next ==
    \/ LeaderAppend \/ LeaderCompact
    \/ \E m \in late : LateCommit(m)
    \/ \E n \in Nodes :
         \/ Commit(n) \/ TableState(n) \/ ProposeBatch(n) \/ Proposed(n)
         \/ ProposeTimeout(n) \/ DoEnd(n) \/ UseSnapshot(n) \/ Restore(n)
         \/ RestoreFails(n) \/ CacheTable(n) \/ Reset(n) \/ Restart(n)
         \/ \E g \in Gens : ApplyReplica(n, g)

Spec == Init /\ [][Next]_vars

-----------------------------------------------------------------------------
(* Properties.                                                             *)

Runs == [lo : Nat \ {0}, hi : Nat]

(* The state keeps its shape: replicas are within their shards and workers *)
(* and late proposals refer to shards that exist.                          *)
TypeOK ==
    /\ leader \in Nat /\ first \in 1..(leader + 1)
    /\ gens \in Gens /\ table \in 1..gens /\ timeouts \in Nat
    /\ shard \in [Gens -> Seq(Runs)]
    /\ cache \in [Nodes -> 1..gens]
    /\ pos \in [Nodes -> [Gens -> Nat]]
    /\ \A n \in Nodes, g \in Gens : pos[n][g] <= Len(shard[g])
    /\ worker \in [Nodes -> [pc : {"idle", "do", "proposing", "committed",
                                   "recover"},
                             gen : 1..gens, next : Nat \ {0}, end : Nat,
                             run : Runs, at : Nat]]
    /\ late \subseteq [id : Nat, gen : 1..gens, run : Runs]

(* No entry of the leader is ever skipped: whatever a shard's leader index *)
(* claims has been applied to that shard at some time, and exists in the   *)
(* leader.  This holds for any number of workers at once, stale reads of   *)
(* the leader index, late and repeated proposals, recoveries and resets.   *)
NoGap ==
    \A g \in Gens : \A p \in 1..Len(shard[g]) :
        /\ shard[g][p].hi <= leader
        /\ \A e \in 1..shard[g][p].hi : \E q \in 1..p :
              shard[g][q].lo <= e /\ e <= shard[g][q].hi

(* The entry that wrote key k last: in the first i entries of the leader,  *)
(* and in the first p commands of shard g; 0 if there is none.             *)
LastWrite(i, k) ==
    LET writes == {e \in 1..i : KeyOf[e] = k}
    IN IF writes = {} THEN 0 ELSE CHOOSE e \in writes : \A f \in writes : f <= e

ShardWrite(g, k) ==
    LET write(q) == {e \in shard[g][q].lo..shard[g][q].hi : KeyOf[e] = k}
        cmds == {q \in 1..Len(shard[g]) : write(q) # {}}
        last == CHOOSE q \in cmds : \A r \in cmds : r <= q
    IN IF cmds = {} THEN 0
       ELSE CHOOSE e \in write(last) : \A f \in write(last) : f <= e

(* The architecture document: a follower replicates the leader's state.    *)
(* When the table has the leader's index it has the leader's content.      *)
StateReplicated ==
    LeaderIndex(table, Len(shard[table])) = leader =>
        \A k \in Keys : ShardWrite(table, k) = LastWrite(leader, k)
=============================================================================
