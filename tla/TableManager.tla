---------------------------- MODULE TableManager ----------------------------
(***************************************************************************)
(* The table managers of a cluster (storage/table/manager.go).  The tables *)
(* are records of the metadata store; a record names the Raft shard that   *)
(* serves the table and, during a restore, the shard that is being loaded. *)
(* On every node API calls create, delete and restore tables, a reconcile  *)
(* loop starts and stops the node's replicas after the records, and a      *)
(* cleanup loop removes the data of replicas that were stopped long ago.   *)
(*                                                                         *)
(* A read of the store, an update, a start of a replica and a removal of   *)
(* data are separate steps.  An update that fails may have been applied.   *)
(* The version of a pair is not its Raft index but a smaller number with   *)
(* the same equalities among the versions of one key.                      *)
(* A node has one API call at a time.  The clock counts parts of           *)
(* cleanupGracePeriod (5 min), GracePeriod of them in all.  In one part    *)
(* the steps of a call between two reads (bounded by proposalTimeout,      *)
(* 30 s) and a reconciliation (every 30 s) are done; the load of a         *)
(* restored table may take any time.                                       *)
(***************************************************************************)
EXTENDS MetaStore, FiniteSets

CONSTANTS
    Nodes,        \* nodes of the cluster
    Names,        \* names of tables
    MaxIds,       \* bound on the shard IDs handed out
    MaxCalls,     \* bound on the API calls
    GracePeriod,  \* cleanupGracePeriod, in parts
    MaxTime,      \* bound on the clock
    MaxFaults     \* bound on failed updates and reconciliations, and crashes

ASSUME ManagerAssumption ==
    /\ MaxIds \in Nat /\ MaxCalls \in Nat /\ MaxTime \in Nat /\ GracePeriod \in Nat
    /\ MaxFaults \in Nat

VARIABLES
    writes,      \* number of updates of table records so far
    seq,         \* sequenceKey: the last shard ID handed out
    tables,      \* the records of the tables
    cleanups,    \* the Cleanup records, whose value is the time of creation
    started,     \* shards with a replica running on each node
    removed,     \* replicas whose data was removed
    whole,       \* history: shards of new tables, and those fully loaded
    cache,       \* cache.tables: ClusterID of the tables known to each node
    api,         \* the API call of each node
    rec,         \* the reconcile loop of each node
    cln,         \* the cleanup loop of each node
    now,         \* the clock
    reconciled,  \* nodes that have reconciled since the clock moved
    calls,       \* number of API calls so far
    faults       \* number of faults so far

meta == <<writes, seq, tables, cleanups>>

vars == <<writes, seq, tables, cleanups, started, removed, whole, cache, api, rec,
          cln, now, reconciled, calls, faults>>

(* Shard IDs, less tableIDsRangeStart.                                     *)
Ids == 1..MaxIds

Table(cluster, recover) == [cluster |-> cluster, recover |-> recover]

NoTable == Table(0, 0)

SequenceKey == "idseq"

(* A call: the pair of the table it has read, the shard ID it was given or *)
(* is about to take, and the version of the sequence that it has read.     *)
Call(op, pc, name, get, id, ver) ==
    [op |-> op, pc |-> pc, name |-> name, get |-> get, id |-> id, ver |-> ver]

NoCall == Call("none", "idle", NoValue, Absent, 0, 0)

NoTabs == [t \in Names |-> NoTable]

(* A reconciliation: the tables it has read, which it needs as long as it  *)
(* has replicas to start, and the shards to start and to stop.             *)
Reconcile(pc, tabs, start, stop) ==
    [pc |-> pc, tabs |-> IF pc = "apply" /\ start = {} THEN NoTabs ELSE tabs,
     start |-> start, stop |-> stop]

NoReconcile == Reconcile("idle", NoTabs, {}, {})

Cleaning(pc, id, ver) == [pc |-> pc, id |-> id, ver |-> ver]

NoCleaning == Cleaning("idle", 0, 0)

SetOp(key, val, ver) == [op |-> "set", key |-> key, val |-> val, ver |-> ver]

DeleteOp(key, ver) ==
    [op |-> "delete", key |-> key, val |-> NoValue, ver |-> ver]

(* The table of a pair; the zero Table if there is none.                   *)
TableOf(pair) == IF pair.ver = 0 THEN NoTable ELSE pair.val

(* The shards that tables refer to.                                        *)
TableIDs(tabs) ==
    (UNION {{tabs[t].cluster, tabs[t].recover} : t \in Names}) \ {0}

GetTables == [t \in Names |-> TableOf(tables[t])]

Init ==
    /\ writes = 0
    /\ seq = [k \in {SequenceKey} |-> Absent]
    /\ tables = [t \in Names |-> Absent]
    /\ cleanups = [r \in Nodes \X Ids |-> Absent]
    /\ started = [n \in Nodes |-> {}]
    /\ removed = {}
    /\ whole = {}
    /\ cache = [n \in Nodes |-> [t \in Names |-> 0]]
    /\ api = [n \in Nodes |-> NoCall]
    /\ rec = [n \in Nodes |-> NoReconcile]
    /\ cln = [n \in Nodes |-> NoCleaning]
    /\ now = 0
    /\ reconciled = {}
    /\ calls = 0
    /\ faults = 0

-----------------------------------------------------------------------------
(* API calls.  CreateTable and DeleteTable hold the manager's lock, which  *)
(* a reconciliation and a cleanup take for their reads.                    *)

HoldsLock(n) == api[n].op \in {"create", "delete"}

Begin(n, call) ==
    /\ api[n].pc = "idle"
    /\ calls < MaxCalls
    /\ calls' = calls + 1
    /\ api' = [api EXCEPT ![n] = call]

Goto(n, pc) ==
    LET c == api[n]
    IN api' = [api EXCEPT ![n] = Call(c.op, pc, c.name, c.get, c.id, c.ver)]

Return(n) == api' = [api EXCEPT ![n] = NoCall]

CreateTable(n, t) ==
    /\ rec[n].pc # "read"
    /\ ~Exists(tables, t)
    /\ Begin(n, Call("create", "seq", t, Absent, 0, 0))
    /\ UNCHANGED <<meta, started, removed, whole, cache, rec, cln, now, reconciled, faults>>

DeleteTable(n, t) ==
    /\ rec[n].pc # "read"
    /\ Exists(tables, t)
    /\ Begin(n, Call("delete", "delete", t, Get(tables, t), 0, 0))
    /\ UNCHANGED <<meta, started, removed, whole, cache, rec, cln, now, reconciled, faults>>

RestoreTable(n, t) ==
    /\ Begin(n, Call("restore", "seq", t, Get(tables, t), 0, 0))
    /\ UNCHANGED <<meta, started, removed, whole, cache, rec, cln, now, reconciled, faults>>

(* The last shard ID handed out.                                           *)
LastID == IF Exists(seq, SequenceKey) THEN Get(seq, SequenceKey).val ELSE 0

(* incAndGetIDSeq reads the sequence, which may not exist so far.  At the  *)
(* bound of the model the call gives up.                                   *)
SeqGet(n) ==
    LET c == api[n]
    IN /\ c.pc = "seq"
       /\ IF LastID < MaxIds
          THEN api' = [api EXCEPT ![n] =
                         Call(c.op, "seqset", c.name, c.get, LastID + 1,
                              Get(seq, SequenceKey).ver)]
          ELSE Return(n)
       /\ UNCHANGED <<meta, started, removed, whole, cache, rec, cln, now,
                      reconciled, calls, faults>>

(* Mutant of CallUpdate: a restore switches the table to the new shard     *)
(* before it loads it.                                                     *)
CallUpdateEarly(c) ==
    CASE c.pc = "seqset" -> SetOp(SequenceKey, c.id, c.ver)
      [] c.pc = "set" /\ c.op = "create" -> SetOp(c.name, Table(c.id, 0), 0)
      [] c.pc = "set" /\ c.op = "restore" ->
           SetOp(c.name, Table(c.id, 0), c.get.ver)
      [] c.pc = "swap" -> SetOp(c.name, Table(c.id, 0), c.get.ver)
      [] c.pc = "delete" -> DeleteOp(c.name, c.get.ver)

(* The update that a call makes next: of the sequence; of the table, with  *)
(* version 0 for a new one; of the restored table, before the load with    *)
(* RecoverID and after it with ClusterID; its removal.                     *)
CallUpdate(c) ==
    CASE c.pc = "seqset" -> SetOp(SequenceKey, c.id, c.ver)
      [] c.pc = "set" /\ c.op = "create" -> SetOp(c.name, Table(c.id, 0), 0)
      [] c.pc = "set" /\ c.op = "restore" ->
           SetOp(c.name, Table(TableOf(c.get).cluster, c.id), c.get.ver)
      [] c.pc = "swap" -> SetOp(c.name, Table(c.id, 0), c.get.ver)
      [] c.pc = "delete" -> DeleteOp(c.name, c.get.ver)

(* LFSM.Update; ok is its result, a Boolean.                               *)
Apply(c, ok) ==
    LET u == CallUpdate(c)
    IN /\ c.pc \in {"seqset", "set", "swap", "delete"}
       /\ IF c.pc = "seqset"
          THEN /\ ok = ~VersionMismatch(seq, u)
               /\ seq' = Update(seq, u, c.id)
               /\ UNCHANGED <<writes, tables>>
          ELSE /\ ok = ~VersionMismatch(tables, u)
               /\ writes' = writes + 1
               /\ tables' = Update(tables, u, writes + 1)
               /\ UNCHANGED seq
       /\ UNCHANGED cleanups

(* Where a call goes on after an update; a restore ends with cacheTable.   *)
AfterUpdate(c) ==
    CASE c.pc = "seqset" /\ c.op = "create"  -> "set"
      [] c.pc = "seqset" /\ c.op = "restore" -> "start"
      [] c.pc = "set" /\ c.op = "create"     -> "start"
      [] c.pc = "set" /\ c.op = "restore"    -> "load"

(* A shard that was given to a new table is what the table has to be.      *)
AfterSeq(c) == c.pc = "seqset" /\ c.op = "create"

CallUpdated(n) ==
    /\ Apply(api[n], TRUE)
    /\ IF api[n].pc \in {"swap", "delete"} THEN Return(n)
       ELSE Goto(n, AfterUpdate(api[n]))
    /\ cache' = IF api[n].pc = "swap"
                THEN [cache EXCEPT ![n][api[n].name] = api[n].id] ELSE cache
    /\ whole' = IF AfterSeq(api[n]) THEN whole \cup {api[n].id} ELSE whole
    /\ UNCHANGED <<started, removed, rec, cln, now, reconciled, calls, faults>>

(* ErrVersionMismatch.                                                     *)
CallRejected(n) ==
    /\ Apply(api[n], FALSE)
    /\ Return(n)
    /\ UNCHANGED <<started, removed, whole, cache, rec, cln, now, reconciled, calls, faults>>

(* The call fails: a read or an update times out, a replica does not start,*)
(* there is no leader, the stream breaks.  A failed update may be applied. *)
CallFails(n) ==
    /\ api[n].pc # "idle"
    /\ faults < MaxFaults
    /\ faults' = faults + 1
    /\ Return(n)
    /\ \/ UNCHANGED meta
       \/ \E ok \in BOOLEAN : Apply(api[n], ok)
    /\ UNCHANGED <<started, removed, whole, cache, rec, cln, now, reconciled, calls>>

(* Mutant of CallStart: the ID after the one handed out is started.        *)
CallStartNext(n) ==
    LET c == api[n]
    IN /\ c.pc = "start"
       /\ started' = [started EXCEPT ![n] = @ \cup {c.id + 1}]
       /\ IF c.op = "restore" THEN Goto(n, "set") ELSE Return(n)
       /\ UNCHANGED <<meta, removed, whole, cache, rec, cln, now, reconciled,
                      calls, faults>>

(* startTable: of a new table after, of a restored one before its record   *)
(* is written.  If the replica is running, the call fails.                 *)
CallStart(n) ==
    LET c == api[n]
    IN /\ c.pc = "start"
       /\ started' = [started EXCEPT ![n] = @ \cup {c.id}]
       /\ IF c.op = "restore" /\ c.id \notin started[n] THEN Goto(n, "set")
          ELSE Return(n)
       /\ UNCHANGED <<meta, removed, whole, cache, rec, cln, now, reconciled, calls, faults>>

(* waitForLeader and readIntoTable, by way of the node's own replica.      *)
CallLoad(n) ==
    /\ api[n].pc = "load"
    /\ api[n].id \in started[n]
    /\ Goto(n, "get")
    /\ whole' = whole \cup {api[n].id}
    /\ UNCHANGED <<meta, started, removed, cache, rec, cln, now, reconciled,
                   calls, faults>>

(* ErrShardNotFound: the replica has been stopped.                         *)
CallLoadStopped(n) ==
    /\ api[n].pc = "load"
    /\ api[n].id \notin started[n]
    /\ Return(n)
    /\ UNCHANGED <<meta, started, removed, whole, cache, rec, cln, now, reconciled,
                   calls, faults>>

(* The record is read again; the restore fails if it is gone.              *)
CallGet(n) ==
    LET c == api[n]
    IN /\ c.pc = "get"
       /\ IF Exists(tables, c.name)
          THEN api' = [api EXCEPT ![n] =
                         Call(c.op, "swap", c.name, Get(tables, c.name), c.id, 0)]
          ELSE Return(n)
       /\ UNCHANGED <<meta, started, removed, whole, cache, rec, cln, now, reconciled,
                      calls, faults>>

CallStep(n) ==
    \/ SeqGet(n) \/ CallUpdated(n) \/ CallRejected(n) \/ CallStart(n)
    \/ CallLoad(n) \/ CallLoadStopped(n) \/ CallGet(n)

-----------------------------------------------------------------------------
(* The reconcile loop.                                                     *)

ReconcileRead(n) ==
    /\ rec[n].pc = "idle"
    /\ ~HoldsLock(n)
    /\ rec' = [rec EXCEPT ![n] = Reconcile("read", GetTables, {}, {})]
    /\ UNCHANGED <<meta, started, removed, whole, cache, api, cln, now, reconciled,
                   calls, faults>>

(* What is left to do; with nothing left the reconciliation is over.       *)
Remaining(n, tabs, start, stop) ==
    IF start = {} /\ stop = {}
    THEN /\ rec' = [rec EXCEPT ![n] = NoReconcile]
         /\ reconciled' = reconciled \cup {n}
    ELSE /\ rec' = [rec EXCEPT ![n] = Reconcile("apply", tabs, start, stop)]
         /\ UNCHANGED reconciled

(* Mutant of ReconcileDiff: replicas without a table are not stopped.      *)
ReconcileDiffKeep(n) ==
    /\ rec[n].pc = "read"
    /\ Remaining(n, rec[n].tabs, TableIDs(rec[n].tabs) \ started[n], {})
    /\ UNCHANGED <<meta, started, removed, whole, cache, api, cln, now, calls, faults>>

(* GetNodeHostInfo and diffTables, and the records are cached.             *)
ReconcileDiff(n) ==
    LET tabs == rec[n].tabs
        ids == TableIDs(tabs)
    IN /\ rec[n].pc = "read"
       /\ Remaining(n, tabs, ids \ started[n], started[n] \ ids)
       /\ cache' = [cache EXCEPT ![n] =
                      [t \in Names |-> IF tabs[t] = NoTable THEN @[t]
                                       ELSE tabs[t].cluster]]
       /\ UNCHANGED <<meta, started, removed, whole, api, cln, now, calls, faults>>

(* startTable, and the record is cached again.  A replica that is running  *)
(* already is an error, which ends the reconciliation.                     *)
ReconcileStart(n, id) ==
    LET r == rec[n]
    IN /\ r.pc = "apply"
       /\ id \in r.start
       /\ started' = [started EXCEPT ![n] = @ \cup {id}]
       /\ IF id \in started[n]
          THEN /\ rec' = [rec EXCEPT ![n] = NoReconcile]
               /\ UNCHANGED <<cache, reconciled>>
          ELSE /\ Remaining(n, r.tabs, r.start \ {id}, r.stop)
               /\ cache' = [cache EXCEPT ![n] =
                      [t \in Names |->
                         IF id \in {r.tabs[t].cluster, r.tabs[t].recover}
                         THEN r.tabs[t].cluster ELSE @[t]]]
       /\ UNCHANGED <<meta, removed, whole, api, cln, now, calls, faults>>

(* stopTable: the Cleanup record is written first; then clearTable.        *)
ReconcileStop(n, id) ==
    LET r == rec[n]
        key == <<n, id>>
        old == Get(cleanups, key)
    IN /\ r.pc = "apply"
       /\ r.start = {}
       /\ id \in r.stop
       /\ id \in started[n]
       /\ cleanups' = Update(cleanups, SetOp(key, now, old.ver), old.ver + 1)
       /\ started' = [started EXCEPT ![n] = @ \ {id}]
       /\ Remaining(n, r.tabs, {}, r.stop \ {id})
       /\ cache' = [cache EXCEPT ![n] =
                      [t \in Names |-> IF @[t] = id THEN 0 ELSE @[t]]]
       /\ UNCHANGED <<writes, seq, tables, removed, whole, api, cln, now, calls,
                      faults>>

ReconcileFails(n) ==
    /\ rec[n].pc # "idle"
    /\ faults < MaxFaults
    /\ faults' = faults + 1
    /\ rec' = [rec EXCEPT ![n] = NoReconcile]
    /\ UNCHANGED <<meta, started, removed, whole, cache, api, cln, now, reconciled, calls>>

ReconcileStep(n) ==
    \/ ReconcileRead(n) \/ ReconcileDiff(n)
    \/ \E id \in Ids : ReconcileStart(n, id) \/ ReconcileStop(n, id)

-----------------------------------------------------------------------------
(* The cleanup loop, for one record at a time.                             *)

CleanupRead(n, id) ==
    LET c == Get(cleanups, <<n, id>>)
    IN /\ cln[n].pc = "idle"
       /\ c.ver # 0
       /\ c.val + GracePeriod <= now
       /\ cln' = [cln EXCEPT ![n] = Cleaning("check", id, c.ver)]
       /\ UNCHANGED <<meta, started, removed, whole, cache, api, rec, now, reconciled,
                      calls, faults>>

(* GetTableByID: the data stay if a table has the shard as its ClusterID.  *)
CleanupCheck(n) ==
    LET c == cln[n]
        found == \E t \in Names : GetTables[t].cluster = c.id
    IN /\ c.pc = "check"
       /\ ~HoldsLock(n)
       /\ cln' = [cln EXCEPT ![n] =
                    Cleaning(IF found THEN "delete" ELSE "remove", c.id, c.ver)]
       /\ UNCHANGED <<meta, started, removed, whole, cache, api, rec, now, reconciled,
                      calls, faults>>

(* SyncRemoveData waits until the replica is stopped; then RemoveAll.      *)
CleanupRemove(n) ==
    LET c == cln[n]
    IN /\ c.pc = "remove"
       /\ c.id \notin started[n]
       /\ removed' = removed \cup {<<n, c.id>>}
       /\ cln' = [cln EXCEPT ![n] = Cleaning("delete", c.id, c.ver)]
       /\ UNCHANGED <<meta, started, whole, cache, api, rec, now, reconciled, calls,
                      faults>>

CleanupDelete(n) ==
    LET c == cln[n]
    IN /\ c.pc = "delete"
       /\ cleanups' = Update(cleanups, DeleteOp(<<n, c.id>>, c.ver), 0)
       /\ cln' = [cln EXCEPT ![n] = NoCleaning]
       /\ UNCHANGED <<writes, seq, tables, started, removed, whole, cache, api, rec,
                      now, reconciled, calls, faults>>

(* SyncRemoveData waits for a running replica until cleanupTimeout.        *)
CleanupTimeout(n) ==
    /\ cln[n].pc = "remove"
    /\ cln[n].id \in started[n]
    /\ cln' = [cln EXCEPT ![n] = NoCleaning]
    /\ UNCHANGED <<meta, started, removed, whole, cache, api, rec, now, reconciled,
                   calls, faults>>

CleanupStep(n) ==
    \/ \E id \in Ids : CleanupRead(n, id)
    \/ CleanupCheck(n) \/ CleanupRemove(n) \/ CleanupDelete(n) \/ CleanupTimeout(n)

-----------------------------------------------------------------------------
(* Time, and the process of a node crashing and coming back.               *)

Tick ==
    /\ now < MaxTime
    /\ reconciled = Nodes
    /\ \A n \in Nodes : rec[n].pc = "idle" /\ api[n].pc \in {"idle", "load"}
    /\ now' = now + 1
    /\ reconciled' = {}
    /\ UNCHANGED <<meta, started, removed, whole, cache, api, rec, cln, calls, faults>>

Crash(n) ==
    /\ faults < MaxFaults
    /\ faults' = faults + 1
    /\ started' = [started EXCEPT ![n] = {}]
    /\ cache' = [cache EXCEPT ![n] = [t \in Names |-> 0]]
    /\ api' = [api EXCEPT ![n] = NoCall]
    /\ rec' = [rec EXCEPT ![n] = NoReconcile]
    /\ cln' = [cln EXCEPT ![n] = NoCleaning]
    /\ UNCHANGED <<meta, removed, whole, now, reconciled, calls>>

Next ==
    \/ Tick
    \/ \E n \in Nodes :
         \/ \E t \in Names : CreateTable(n, t) \/ DeleteTable(n, t) \/ RestoreTable(n, t)
         \/ CallStep(n) \/ CallFails(n)
         \/ ReconcileStep(n) \/ ReconcileFails(n)
         \/ CleanupStep(n)
         \/ Crash(n)

Spec == Init /\ [][Next]_vars

(* The loops of a node keep running, and a call goes on.                   *)
Fairness ==
    \A n \in Nodes : WF_vars(CallStep(n)) /\ WF_vars(ReconcileStep(n))

FairSpec == Spec /\ Fairness

-----------------------------------------------------------------------------
(* Properties.                                                             *)

TableSet == [cluster : 0..MaxIds, recover : 0..MaxIds]

(* The state keeps its shape, and no shard is in use, or about to be, that *)
(* the sequence has not passed.                                            *)
TypeOK ==
    /\ writes \in Nat /\ LastID \in 0..MaxIds
    /\ TableIDs(GetTables) \subseteq 1..LastID
    /\ \A n \in Nodes :
         /\ started[n] \cup TableIDs(rec[n].tabs) \subseteq 1..LastID
         /\ rec[n].start \cup rec[n].stop \subseteq 1..LastID
         /\ cache[n] \in [Names -> 0..LastID]
         /\ cln[n].id \in 0..LastID
    /\ removed \subseteq Nodes \X (1..LastID)

(* Calls that were given a shard ID.                                       *)
Owns(n) == api[n].pc \in {"start", "set", "load", "get", "swap"}

(* incAndGetIDSeq never gives a shard to two tables or to two calls, on    *)
(* whatever nodes they run: tables do not share shards, and neither do     *)
(* calls; a shard whose call has not named it in a record so far is        *)
(* nobody's.                                                               *)
IdsUnique ==
    /\ \A t, u \in Names : t # u =>
         {GetTables[t].cluster, GetTables[t].recover} \cap
         {GetTables[u].cluster, GetTables[u].recover} \subseteq {0}
    /\ \A t \in Names : GetTables[t].cluster = GetTables[t].recover =>
         GetTables[t].cluster = 0
    /\ \A n, m \in Nodes : n # m /\ Owns(n) /\ Owns(m) => api[n].id # api[m].id
    /\ \A n \in Nodes :
         api[n].pc = "set" \/ (api[n].pc = "start" /\ api[n].op = "restore") =>
            api[n].id \notin TableIDs(GetTables)

(* A table is never served by a shard that a restore has not loaded to the *)
(* end, whatever restores of the table run at the same time or fail.       *)
ServedIsWhole == \A t \in Names : GetTables[t].cluster \in whole \cup {0}

(* In the end every node runs the shards of the tables and no other.       *)
Converges ==
    <>[](\A n \in Nodes : started[n] = TableIDs(GetTables))
=============================================================================
