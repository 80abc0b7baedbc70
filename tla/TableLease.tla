----------------------------- MODULE TableLease -----------------------------
(***************************************************************************)
(* The lease of one table of a follower cluster.  Every node of the        *)
(* cluster runs a replication worker for the table; its lease routine      *)
(* (worker.Start) periodically claims or renews the lease in the metadata  *)
(* store (Manager.LeaseTable), and the replication routine replicates only *)
(* while the flag `leased' is set.  A lease is given back by               *)
(* Manager.ReturnTable, called when too many recoveries run and when the   *)
(* worker closes.                                                          *)
(*                                                                         *)
(* A read of the store (SyncRead) and a proposal (SyncPropose) are separate*)
(* steps.  A proposal whose caller has timed out stays in flight: it can   *)
(* be applied at any later time, or never.  `now' is wall-clock time, one  *)
(* clock for all the nodes.                                                *)
(***************************************************************************)
EXTENDS MetaStore

CONSTANTS
    Nodes,           \* IDs of the nodes of the follower cluster
    LeaseDuration,   \* the length of a lease: 4 * leaseInterval
    MaxTime,         \* bound on the clock
    MaxIndex,        \* bound on the entries applied to the metadata store
    MaxProposals     \* bound on the proposals made

ASSUME LeaseAssumption ==
    /\ LeaseDuration \in Nat
    /\ MaxTime \in Nat
    /\ MaxIndex \in Nat
    /\ MaxProposals \in Nat

VARIABLES
    now,        \* wall-clock time
    index,      \* index of the last entry the LFSM has applied
    store,      \* the metadata store, restricted to the key of the lease
    inflight,   \* proposals not applied so far
    proposals,  \* number of proposals made
    status,     \* of the worker on each node
    lease,      \* lease routine: program counter and what it has read
    return,     \* ReturnTable, in the replication routine or in Close
    leased,     \* worker.leased
    held,       \* history: version and end of the lease behind the flag
    given       \* history: newest version the node has proposed to delete

vars == <<now, index, store, inflight, proposals, status, lease, return,
          leased, held, given>>

LeaseKey == "lease"

Leases == [ID : Nodes, Until : Nat]

NoLease == [ver |-> 0, until |-> 0]

(* A routine's program counter, the pair it has read or been answered, and *)
(* the proposal it waits for.                                              *)
Routine(pc, get, id) == [pc |-> pc, get |-> get, id |-> id]

At(pc) == Routine(pc, Absent, 0)

Init ==
    /\ now = 0
    /\ index = 0
    /\ store = [k \in {LeaseKey} |-> Absent]
    /\ inflight = {}
    /\ proposals = 0
    /\ status = [n \in Nodes |-> "running"]
    /\ lease = [n \in Nodes |-> At("idle")]
    /\ return = [n \in Nodes |-> At("idle")]
    /\ leased = [n \in Nodes |-> FALSE]
    /\ held = [n \in Nodes |-> NoLease]
    /\ given = [n \in Nodes |-> 0]

-----------------------------------------------------------------------------
(* The environment: time passes, and Raft applies proposals.  A proposal   *)
(* that is lost is one that stays in flight for ever.                      *)

Tick ==
    /\ now < MaxTime
    /\ now' = now + 1
    /\ UNCHANGED <<index, store, inflight, proposals, status, lease, return,
                   leased, held, given>>

(* Mutant of Answered: the version of the next entry is reported.          *)
AnsweredNext(r, m) ==
    IF r.pc = "proposed" /\ r.id = m.id
    THEN Routine(IF VersionMismatch(store, m) THEN "rejected" ELSE "applied",
                 [ver |-> index + 2, val |-> m.val], 0)
    ELSE r

(* What LeaseTable, if it still waits for proposal m, learns from its      *)
(* result: whether it was accepted, and the pair as stored.  ReturnTable   *)
(* makes no difference between the results.                                *)
Answered(r, m) ==
    IF r.pc = "proposed" /\ r.id = m.id
    THEN Routine(IF VersionMismatch(store, m) THEN "rejected" ELSE "applied",
                 [ver |-> index + 1, val |-> m.val], 0)
    ELSE r

Apply(m) ==
    /\ index < MaxIndex
    /\ inflight' = inflight \ {m}
    /\ index' = index + 1
    /\ store' = Update(store, m, index + 1)
    /\ lease' = [lease EXCEPT ![m.from] = Answered(@, m)]
    /\ UNCHANGED <<now, proposals, status, return, leased, held, given>>

Propose(n, op, val, ver) ==
    /\ proposals < MaxProposals
    /\ proposals' = proposals + 1
    /\ inflight' = inflight \cup
         {[id |-> proposals + 1, from |-> n, op |-> op, key |-> LeaseKey,
           val |-> val, ver |-> ver]}

-----------------------------------------------------------------------------
(* Manager.LeaseTable, called by the lease routine on every tick.          *)

LeaseGet(n) ==
    /\ lease[n].pc = "idle"
    /\ lease' = [lease EXCEPT ![n] = Routine("got", Get(store, LeaseKey), 0)]
    /\ UNCHANGED <<now, index, store, inflight, proposals, status, return,
                   leased, held, given>>

(* The read fails: LeaseTable returns the error.                           *)
LeaseGetFails(n) ==
    /\ lease[n].pc = "idle"
    /\ leased' = [leased EXCEPT ![n] = FALSE]
    /\ held' = [held EXCEPT ![n] = NoLease]
    /\ UNCHANGED <<now, index, store, inflight, proposals, status, lease,
                   return, given>>

(* Mutant of Claimable: a lease is taken over at its last moment.          *)
ClaimableEarly(n, get) ==
    get.ver # 0 => get.val.ID = n \/ get.val.Until <= now

(* unclaimed || l.ID == m.cfg.NodeID || l.Until.Before(time.Now())         *)
Claimable(n, get) ==
    get.ver # 0 => get.val.ID = n \/ get.val.Until < now

LeaseClaim(n) ==
    /\ lease[n].pc = "got"
    /\ Claimable(n, lease[n].get)
    /\ Propose(n, "set", [ID |-> n, Until |-> now + LeaseDuration],
               lease[n].get.ver)
    /\ lease' = [lease EXCEPT ![n] = Routine("proposed", Absent, proposals + 1)]
    /\ UNCHANGED <<now, index, store, status, return, leased, held, given>>

(* ErrLeaseNotAcquired.                                                    *)
LeaseNotAcquired(n) ==
    /\ lease[n].pc = "got"
    /\ ~Claimable(n, lease[n].get)
    /\ lease' = [lease EXCEPT ![n] = At("idle")]
    /\ leased' = [leased EXCEPT ![n] = FALSE]
    /\ held' = [held EXCEPT ![n] = NoLease]
    /\ UNCHANGED <<now, index, store, inflight, proposals, status, return,
                   given>>

LeaseAcquired(n) ==
    /\ lease[n].pc = "applied"
    /\ lease' = [lease EXCEPT ![n] = At("idle")]
    /\ leased' = [leased EXCEPT ![n] = TRUE]
    /\ held' = [held EXCEPT ![n] = [ver |-> lease[n].get.ver,
                                    until |-> lease[n].get.val.Until]]
    /\ UNCHANGED <<now, index, store, inflight, proposals, status, return,
                   given>>

(* ErrVersionMismatch, or the proposal's context expires, whether or not   *)
(* the proposal has been applied.                                          *)
LeaseSetFails(n) ==
    /\ lease[n].pc \in {"proposed", "applied", "rejected"}
    /\ lease' = [lease EXCEPT ![n] = At("idle")]
    /\ leased' = [leased EXCEPT ![n] = FALSE]
    /\ held' = [held EXCEPT ![n] = NoLease]
    /\ UNCHANGED <<now, index, store, inflight, proposals, status, return,
                   given>>

-----------------------------------------------------------------------------
(* The replication routine: one iteration starts with leased.Load().  What *)
(* `do' replicates is the subject of module Replication; here it ends, or  *)
(* it finds that the leader log is gone while too many recoveries run and  *)
(* calls Manager.ReturnTable, which leaves the flag `leased' as it is.     *)

DoBegin(n) ==
    /\ return[n].pc = "idle"
    /\ leased[n]
    /\ return' = [return EXCEPT ![n] = At("do")]
    /\ UNCHANGED <<now, index, store, inflight, proposals, status, lease,
                   leased, held, given>>

DoEnd(n) ==
    /\ return[n].pc = "do"
    /\ return' = [return EXCEPT ![n] = At("idle")]
    /\ UNCHANGED <<now, index, store, inflight, proposals, status, lease,
                   leased, held, given>>

ReturnGet(n) ==
    /\ return[n].pc = "do"
    /\ return' = [return EXCEPT ![n] = Routine("got", Get(store, LeaseKey), 0)]
    /\ UNCHANGED <<now, index, store, inflight, proposals, status, lease,
                   leased, held, given>>

(* ReturnTable is over; in Close it is the last thing the worker does.     *)
ReturnEnd(n) ==
    return' = [return EXCEPT ![n] = IF status[n] = "closed"
                                    THEN At("stopped")
                                    ELSE At("idle")]

ReturnOwn(n) ==
    /\ return[n].pc = "got"
    /\ return[n].get.ver # 0
    /\ return[n].get.val.ID = n
    /\ Propose(n, "delete", NoValue, return[n].get.ver)
    /\ return' = [return EXCEPT ![n] = Routine("proposed", Absent, proposals + 1)]
    /\ given' = [given EXCEPT ![n] = IF @ < return[n].get.ver
                                     THEN return[n].get.ver ELSE @]
    /\ UNCHANGED <<now, index, store, status, lease, leased, held>>

(* There is no lease, or it is another node's.                             *)
ReturnNothing(n) ==
    /\ return[n].pc = "got"
    /\ return[n].get.ver # 0 => return[n].get.val.ID # n
    /\ ReturnEnd(n)
    /\ UNCHANGED <<now, index, store, inflight, proposals, status, lease,
                   leased, held, given>>

(* The result of the deletion, or its timeout.                             *)
ReturnDone(n) ==
    /\ return[n].pc = "proposed"
    /\ ReturnEnd(n)
    /\ UNCHANGED <<now, index, store, inflight, proposals, status, lease,
                   leased, held, given>>

-----------------------------------------------------------------------------
(* worker.Close: both routines see the closed channel between two ticks,   *)
(* Close waits for them and returns the table.                             *)

Close(n) ==
    /\ status[n] = "running"
    /\ status' = [status EXCEPT ![n] = "closing"]
    /\ UNCHANGED <<now, index, store, inflight, proposals, lease, return,
                   leased, held, given>>

StopLease(n) ==
    /\ status[n] = "closing"
    /\ lease[n].pc = "idle"
    /\ lease' = [lease EXCEPT ![n] = At("stopped")]
    /\ UNCHANGED <<now, index, store, inflight, proposals, status, return,
                   leased, held, given>>

StopReplication(n) ==
    /\ status[n] = "closing"
    /\ return[n].pc = "idle"
    /\ return' = [return EXCEPT ![n] = At("stopped")]
    /\ UNCHANGED <<now, index, store, inflight, proposals, status, lease,
                   leased, held, given>>

CloseReturn(n) ==
    /\ status[n] = "closing"
    /\ lease[n].pc = "stopped"
    /\ return[n].pc = "stopped"
    /\ status' = [status EXCEPT ![n] = "closed"]
    /\ return' = [return EXCEPT ![n] = Routine("got", Get(store, LeaseKey), 0)]
    /\ UNCHANGED <<now, index, store, inflight, proposals, lease, leased, held,
                   given>>

CloseReturnFails(n) ==
    /\ status[n] = "closing"
    /\ lease[n].pc = "stopped"
    /\ return[n].pc = "stopped"
    /\ status' = [status EXCEPT ![n] = "closed"]
    /\ UNCHANGED <<now, index, store, inflight, proposals, lease, return,
                   leased, held, given>>

(* The process of node n stops at any point and comes back, or the manager *)
(* starts a new worker for the table: a worker starts with no lease.       *)
Restart(n) ==
    /\ status' = [status EXCEPT ![n] = "running"]
    /\ lease' = [lease EXCEPT ![n] = At("idle")]
    /\ return' = [return EXCEPT ![n] = At("idle")]
    /\ leased' = [leased EXCEPT ![n] = FALSE]
    /\ held' = [held EXCEPT ![n] = NoLease]
    /\ UNCHANGED <<now, index, store, inflight, proposals, given>>

Next ==
    \/ Tick
    \/ \E m \in inflight : Apply(m)
    \/ \E n \in Nodes :
         \/ LeaseGet(n) \/ LeaseGetFails(n) \/ LeaseClaim(n)
         \/ LeaseNotAcquired(n) \/ LeaseAcquired(n) \/ LeaseSetFails(n)
         \/ DoBegin(n) \/ DoEnd(n)
         \/ ReturnGet(n) \/ ReturnOwn(n) \/ ReturnNothing(n) \/ ReturnDone(n)
         \/ Close(n) \/ StopLease(n) \/ StopReplication(n)
         \/ CloseReturn(n) \/ CloseReturnFails(n) \/ Restart(n)

Spec == Init /\ [][Next]_vars

-----------------------------------------------------------------------------
(* Properties.                                                             *)

Stored == store[LeaseKey]

Pairs == [ver : 0..index, val : Leases \cup {NoValue}]

Routines == [pc : {"idle", "do", "got", "proposed", "applied", "rejected",
                   "stopped"},
             get : Pairs,
             id : 0..proposals]

(* The state keeps its shape: every version read, stored or proposed is    *)
(* the index of an entry the LFSM has applied, and every routine waits for *)
(* a proposal that was made.                                               *)
TypeOK ==
    /\ now \in Nat
    /\ index \in Nat
    /\ proposals \in Nat
    /\ store \in [{LeaseKey} -> Pairs]
    /\ inflight \subseteq [id : 1..proposals, from : Nodes,
                           op : {"set", "delete"}, key : {LeaseKey},
                           val : Leases \cup {NoValue}, ver : 0..index]
    /\ status \in [Nodes -> {"running", "closing", "closed"}]
    /\ lease \in [Nodes -> Routines]
    /\ return \in [Nodes -> Routines]
    /\ leased \in [Nodes -> BOOLEAN]
    /\ held \in [Nodes -> [ver : 0..index, until : Nat]]
    /\ given \in [Nodes -> 0..index]

(* The worker of n may rely on its flag: it is set, the lease it was       *)
(* acknowledged has not run out, and n has not asked to give back that     *)
(* lease or a later one.                                                   *)
Holds(n) ==
    /\ leased[n]
    /\ now <= held[n].until
    /\ given[n] < held[n].ver

(* At most one node holds the lease (LeaseTable with the version check of  *)
(* LFSM.Update): whatever is lost, delayed, reordered or restarted, two    *)
(* workers with a valid, unreturned lease are the same worker.             *)
LeaseExclusive == \A n1, n2 \in Nodes : Holds(n1) /\ Holds(n2) => n1 = n2

(* A stored lease that has not run out is only ever taken away by its      *)
(* owner: no LeaseTable of another node replaces it and no ReturnTable of  *)
(* another node, however late it is applied, deletes it.                   *)
NotStolen ==
    \/ Stored.ver = 0
    \/ Stored.val.Until < now
    \/ Stored'.ver # 0 /\ Stored'.val.ID = Stored.val.ID
    \/ given[Stored.val.ID] >= Stored.ver

LeaseNeverStolen == [][NotStolen]_vars
=============================================================================
