------------------------- MODULE ReplicationManager -------------------------
(***************************************************************************)
(* The replication manager of a follower's node (replication/replication.go*)
(* and the life of a worker in worker.go).  Its goroutine waits for the    *)
(* table manager, then creates the tables the leader has and keeps one     *)
(* worker for each table of the follower; Close ends the goroutine and     *)
(* stops the workers.                                                      *)
(*                                                                         *)
(* The threads are the goroutine ("loop") and the caller of Close          *)
(* ("close").  What a worker replicates, and its lease, are the subjects   *)
(* of Replication and TableLease: here a worker is busy or not, and sees   *)
(* its closed channel when it is not.                                      *)
(***************************************************************************)
EXTENDS Naturals

CONSTANTS
    Names,         \* names of tables
    MaxChanges     \* bound on the tables created and deleted

VARIABLES
    leader,      \* tables of the leader
    tables,      \* tables of the follower
    ready,       \* tm.readyChan is closed
    loop,        \* where the goroutine is
    tbs,         \* the tables reconcileWorkers has read
    closing,     \* where Close is
    readers,     \* threads that hold workers.mtx for reading
    writer,      \* threads that hold workers.mtx for writing, at most one
    registry,    \* workers.registry
    wg,          \* workers.wg
    worker,      \* the worker of each table
    changes      \* number of changes to tables so far

vars == <<leader, tables, ready, loop, tbs, closing, readers, writer, registry,
          wg, worker, changes>>

locks == <<readers, writer, registry, wg, worker>>

Init ==
    /\ leader \in SUBSET Names
    /\ tables = {}
    /\ ready = FALSE
    /\ loop = "wait"
    /\ tbs = {}
    /\ closing = "open"
    /\ readers = {}
    /\ writer = {}
    /\ registry = {}
    /\ wg = 0
    /\ worker = [t \in Names |-> "none"]
    /\ changes = 0

-----------------------------------------------------------------------------
(* The surroundings: the leader's tables, and Manager.DeleteTable on a     *)
(* node of the follower.                                                   *)

LeaderChange(t) ==
    /\ changes < MaxChanges
    /\ changes' = changes + 1
    /\ leader' \in {leader \cup {t}, leader \ {t}}
    /\ UNCHANGED <<tables, ready, loop, tbs, closing, locks>>

DeleteTable(t) ==
    /\ changes < MaxChanges
    /\ changes' = changes + 1
    /\ t \in tables
    /\ tables' = tables \ {t}
    /\ UNCHANGED <<leader, ready, loop, tbs, closing, locks>>

(* The metadata shard has a leader.                                        *)
Ready ==
    /\ ready' = TRUE
    /\ UNCHANGED <<leader, tables, loop, tbs, closing, locks, changes>>

-----------------------------------------------------------------------------
(* A worker's routines, and how it is started and stopped.                 *)

DoBegin(t) ==
    /\ worker[t] = "running"
    /\ worker' = [worker EXCEPT ![t] = "busy"]
    /\ UNCHANGED <<leader, tables, ready, loop, tbs, closing, readers, writer,
                   registry, wg, changes>>

DoEnd(t) ==
    /\ worker[t] \in {"busy", "draining"}
    /\ worker' = [worker EXCEPT ![t] = IF @ = "busy" THEN "running" ELSE "done"]
    /\ UNCHANGED <<leader, tables, ready, loop, tbs, closing, readers, writer,
                   registry, wg, changes>>

StartWorker(t) ==
    /\ readers = {} /\ writer = {}
    /\ registry' = registry \cup {t}
    /\ wg' = wg + 1
    /\ worker' = [worker EXCEPT ![t] = "running"]
    /\ UNCHANGED <<readers, writer>>

(* stopWorker takes the lock and closes the worker's channel; ...          *)
StopWorker(thread, t) ==
    /\ readers = {} /\ writer = {}
    /\ writer' = {thread}
    /\ worker' = [worker EXCEPT ![t] = IF @ = "busy" THEN "draining" ELSE "done"]
    /\ UNCHANGED <<readers, registry, wg>>

(* ... worker.Close has waited for the routines and returned the table.    *)
WorkerStopped(thread, t) ==
    /\ thread \in writer
    /\ worker[t] = "done"
    /\ writer' = {}
    /\ worker' = [worker EXCEPT ![t] = "none"]
    /\ wg' = wg - 1
    /\ registry' = registry \ {t}
    /\ UNCHANGED readers

-----------------------------------------------------------------------------
(* Manager.Start.                                                          *)

WaitUntilReady ==
    /\ loop = "wait"
    /\ ready
    /\ loop' = "tables"
    /\ UNCHANGED <<leader, tables, ready, tbs, closing, locks, changes>>

(* The metadata of the leader is read and its tables are created, up to    *)
(* the first error.                                                        *)
ReconcileTables ==
    /\ loop = "tables"
    /\ \E created \in SUBSET leader : tables' = tables \cup created
    /\ loop' = "workers"
    /\ UNCHANGED <<leader, ready, tbs, closing, locks, changes>>

(* reconcileWorkers: GetTables, which may fail.                            *)
ReconcileWorkers ==
    /\ loop = "workers"
    /\ \/ loop' = "start" /\ tbs' = tables
       \/ loop' = "select" /\ UNCHANGED tbs
    /\ UNCHANGED <<leader, tables, ready, closing, locks, changes>>

ReconcileStart(t) ==
    /\ loop = "start"
    /\ t \in tbs \ registry
    /\ StartWorker(t)
    /\ UNCHANGED <<leader, tables, ready, loop, tbs, closing, changes>>

(* workers.mtx.RLock                                                       *)
ReconcileRLock ==
    /\ loop = "start"
    /\ tbs \subseteq registry
    /\ writer = {}
    /\ readers' = readers \cup {"loop"}
    /\ loop' = "stop"
    /\ UNCHANGED <<leader, tables, ready, tbs, closing, writer, registry, wg,
                   worker, changes>>

ReconcileStop(t) ==
    /\ loop = "stop"
    /\ t \in registry \ tbs
    /\ StopWorker("loop", t) \/ WorkerStopped("loop", t)
    /\ UNCHANGED <<leader, tables, ready, loop, tbs, closing, changes>>

(* The deferred workers.mtx.RUnlock.                                       *)
ReconcileRUnlock ==
    /\ loop = "stop"
    /\ registry \subseteq tbs
    /\ readers' = readers \ {"loop"}
    /\ loop' = "select"
    /\ UNCHANGED <<leader, tables, ready, tbs, closing, writer, registry, wg,
                   worker, changes>>

(* The ticker fires.                                                       *)
SelectTick ==
    /\ loop = "select"
    /\ loop' = "tables"
    /\ UNCHANGED <<leader, tables, ready, tbs, closing, locks, changes>>

-----------------------------------------------------------------------------
(* Manager.Close.                                                          *)

Close ==
    /\ closing = "open"
    /\ closing' = "send"
    /\ UNCHANGED <<leader, tables, ready, loop, tbs, locks, changes>>

(* m.closer <- struct{}{}, which the goroutine receives in its select.     *)
CloseSend ==
    /\ closing = "send"
    /\ loop = "select"
    /\ closing' = "stop"
    /\ loop' = "stopped"
    /\ UNCHANGED <<leader, tables, ready, tbs, locks, changes>>

CloseStop(t) ==
    /\ closing = "stop"
    /\ t \in registry
    /\ StopWorker("close", t) \/ WorkerStopped("close", t)
    /\ UNCHANGED <<leader, tables, ready, loop, tbs, closing, changes>>

(* workers.wg.Wait                                                         *)
CloseWait ==
    /\ closing = "stop"
    /\ registry = {} /\ wg = 0
    /\ closing' = "closed"
    /\ UNCHANGED <<leader, tables, ready, loop, tbs, locks, changes>>

LoopStep ==
    \/ WaitUntilReady \/ ReconcileTables \/ ReconcileWorkers \/ ReconcileRLock
    \/ ReconcileRUnlock \/ SelectTick
    \/ \E t \in Names : ReconcileStart(t) \/ ReconcileStop(t)

CloseStep == CloseWait \/ \E t \in Names : CloseStop(t)

Next ==
    \/ Ready \/ LoopStep \/ Close \/ CloseSend \/ CloseStep
    \/ \E t \in Names : LeaderChange(t) \/ DeleteTable(t) \/ DoBegin(t) \/ DoEnd(t)

Spec == Init /\ [][Next]_vars

(* The metadata shard gets a leader, the threads go on, what a worker does *)
(* has a deadline, and a channel operation that is possible over and over  *)
(* again is done.                                                          *)
Fairness ==
    /\ WF_vars(Ready) /\ WF_vars(LoopStep) /\ WF_vars(CloseStep)
    /\ SF_vars(CloseSend)
    /\ \A t \in Names : WF_vars(DoEnd(t))

FairSpec == Spec /\ Fairness

-----------------------------------------------------------------------------
(* The comment on Close: it stops the replication goroutine; then it stops *)
(* every worker and returns.                                               *)
CloseStops == closing = "send" ~> closing = "closed"
=============================================================================
