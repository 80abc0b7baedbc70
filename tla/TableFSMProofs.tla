--------------------------- MODULE TableFSMProofs ---------------------------
(***************************************************************************)
(* Proofs about TableFSM: for any number of replicas, any commands and     *)
(* handlers that satisfy HandleAssumption, and logs of any length.         *)
(***************************************************************************)
EXTENDS TableFSM, SequenceTheorems, TLAPS

(* The provers, in this order, and their time limits in seconds.           *)
USE ZenonT(5), SMTT(30)

StoreType == [kv : Contents, index : Nat, leader : Nat]

(* Store s holds the content that the first s.index of n commands lead to. *)
StoreOK(n, rf, s) ==
    /\ s \in StoreType
    /\ s.index <= n
    /\ s.kv = rf[s.index].kv

(* An open context holds the content and the responses of its index, and   *)
(* is ahead of the database d.                                             *)
ContextOK(n, rf, c, d) ==
    /\ c.open \in BOOLEAN
    /\ c.open =>
         /\ c.indexed \in BOOLEAN
         /\ c.index \in Nat /\ c.index <= n /\ d.index <= c.index
         /\ c.leader \in Nat \cup {None}
         /\ c.kv \in Contents
         /\ c.kv = rf[c.index].kv
         /\ c.responses = rf[c.index].responses

(* The reference is what the log's commands do one at a time.              *)
RefOK(l, rf) ==
    /\ rf[0].kv = EmptyTable
    /\ \A i \in 0..Len(l) : rf[i].kv \in Contents /\ rf[i].leader \in Nat
    /\ \A i \in 0..(Len(l) - 1) :
         LET h == Handle(Batch(rf[i].kv, FALSE, FALSE), l[i + 1])
         IN rf[i + 1].kv = h.ctx.kv /\ rf[i + 1].responses = h.responses

(* Replica r: d is its database, k its disk, f its first entry.            *)
ReplicaOK(n, rf, d, k, c, f) ==
    /\ StoreOK(n, rf, d)
    /\ StoreOK(n, rf, k)
    /\ ContextOK(n, rf, c, d)
    /\ f <= k.index + 1

(* How a replica's disk relates to its database, and what it is doing.     *)
Busy(r) ==
    /\ up[r] /\ ~Recovering(r) => disk[r].index <= db[r].index
    /\ Recovering(r) => /\ up[r] /\ ~ctx[r].open
                        /\ disk[r] = snap.store
                        /\ db[r].index < snap.store.index
    /\ ~up[r] => /\ ~ctx[r].open
                 /\ reader.at # r
                 /\ snap.to = r => snap.pc = "prepared"

Funs ==
    /\ log \in Seq(Commands)
    /\ up \in [Replicas -> BOOLEAN]
    /\ db \in [Replicas -> StoreType] /\ disk \in [Replicas -> StoreType]
    /\ first \in [Replicas -> Nat \ {0}]
    /\ DOMAIN ctx = Replicas /\ ctx = [r \in Replicas |-> ctx[r]]

IInv ==
    /\ Funs
    /\ RefOK(log, ref)
    /\ StoreOK(Len(log), ref, snap.store)
    /\ snap.pc \in {"none", "prepared", "arrived", "replaced"}
    /\ snap.to \in Replicas \/ snap.to = None
    /\ snap.pc \in {"arrived", "prepared"} => snap.to \in Replicas
    /\ StoreOK(Len(log), ref, reader.store)
    /\ reader.pc \in {"none", "open", "done"}
    /\ \A r \in Replicas :
         /\ ReplicaOK(Len(log), ref, db[r], disk[r], ctx[r], first[r])
         /\ Busy(r)

-----------------------------------------------------------------------------
(* Fields of the records.                                                  *)

(* The fields of the state of a database.                                  *)
LEMMA StoreFields ==
  ASSUME NEW s, NEW kv, NEW index, NEW leader, s = Store(kv, index, leader)
  PROVE  s.kv = kv /\ s.index = index /\ s.leader = leader
<1>1. s = [kv |-> kv, index |-> index, leader |-> leader]
  BY DEF Store
<1> QED
  BY ONLY <1>1

(* The fields of an update's context.                                      *)
LEMMA ContextFields ==
  ASSUME NEW c, NEW open, NEW kv, NEW indexed, NEW index, NEW leader,
         NEW responses,
         c = UpdateContext(open, kv, indexed, index, leader, responses)
  PROVE  /\ c.open = open /\ c.kv = kv /\ c.indexed = indexed
         /\ c.index = index /\ c.leader = leader /\ c.responses = responses
<1>1. c = [open |-> open, kv |-> kv, indexed |-> indexed, index |-> index,
           leader |-> leader, responses |-> responses]
  BY DEF UpdateContext
<1> QED
  BY ONLY <1>1

(* The fields of a snapshot on its way to a replica.                       *)
LEMMA TransferFields ==
  ASSUME NEW t, NEW pc, NEW from, NEW to, NEW store,
         t = Transfer(pc, from, to, store)
  PROVE  t.pc = pc /\ t.from = from /\ t.to = to /\ t.store = store
<1>1. t = [pc |-> pc, from |-> from, to |-> to, store |-> store]
  BY DEF Transfer
<1> QED
  BY ONLY <1>1

(* The fields of a snapshot lookup.                                        *)
LEMMA RequestFields ==
  ASSUME NEW q, NEW pc, NEW at, NEW store, q = Request(pc, at, store)
  PROVE  q.pc = pc /\ q.at = at /\ q.store = store
<1>1. q = [pc |-> pc, at |-> at, store |-> store]
  BY DEF Request
<1> QED
  BY ONLY <1>1

(* The fields of the reference, the log's commands applied one at a time.  *)
LEMMA ReferenceFields ==
  ASSUME NEW x, NEW kv, NEW leader, NEW responses,
         x = Reference(kv, leader, responses)
  PROVE  x.kv = kv /\ x.leader = leader /\ x.responses = responses
<1>1. x = [kv |-> kv, leader |-> leader, responses |-> responses]
  BY DEF Reference
<1> QED
  BY ONLY <1>1

(* A store from its parts.                                                 *)
LEMMA StoreInType ==
  ASSUME NEW kv \in Contents, NEW index \in Nat, NEW leader \in Nat
  PROVE  Store(kv, index, leader) \in StoreType
BY DEF Store, StoreType

(* The database of a new replica has its type and is the empty prefix.     *)
LEMMA NewStoreOK ==
  ASSUME NEW l \in Seq(Commands), NEW rf, RefOK(l, rf)
  PROVE  StoreOK(Len(l), rf, NewStore) /\ NewStore.index = 0
<1>1. NewStore \in StoreType
  BY HandleAssumption, StoreInType DEF NewStore
<1>2. NewStore.kv = EmptyTable /\ NewStore.index = 0
  BY StoreFields DEF NewStore
<1>3. 0 <= Len(l)
  BY LenProperties
<1> QED
  BY <1>1, <1>2, <1>3 DEF StoreOK, RefOK

(* A replica without an update under way satisfies what is said of         *)
(* contexts.                                                               *)
LEMMA NoContextOK ==
  ASSUME NEW n, NEW rf, NEW d
  PROVE  ContextOK(n, rf, NoContext, d) /\ ~NoContext.open
<1>1. NoContext.open = FALSE
  BY Zenon DEF NoContext, UpdateContext
<1> QED
  BY <1>1, Zenon DEF ContextOK

-----------------------------------------------------------------------------
(* The invariant holds initially, and the reference only grows.            *)

(* The inductive invariant holds of new replicas and an empty log.         *)
LEMMA InitIInv == Init => IInv
<1> SUFFICES ASSUME Init PROVE IInv
  OBVIOUS
<1>1. /\ log \in Seq(Commands) /\ Len(log) = 0
      /\ ref[0] = Reference(EmptyTable, 0, <<>>)
  BY EmptySeq DEF Init
<1>2. ref[0].kv = EmptyTable /\ ref[0].leader = 0
  BY <1>1, ReferenceFields
<1>3. RefOK(log, ref)
  BY <1>1, <1>2, HandleAssumption DEF RefOK
<1>4. StoreOK(Len(log), ref, NewStore) /\ NewStore.index = 0
  BY <1>1, <1>3, NewStoreOK, Zenon
<1>5. snap.pc = "none" /\ snap.to = None /\ snap.store = NewStore
  BY TransferFields DEF Init, NoTransfer
<1>6. reader.pc = "none" /\ reader.store = NewStore
  BY RequestFields DEF Init, NoRequest
<1>7. Funs
  BY <1>1, <1>4 DEF Init, Funs, StoreOK
<1>8. ASSUME NEW r \in Replicas
      PROVE  /\ ReplicaOK(Len(log), ref, db[r], disk[r], ctx[r], first[r])
             /\ Busy(r)
  <2>1. /\ db[r] = NewStore /\ disk[r] = NewStore /\ ctx[r] = NoContext
        /\ first[r] = 1 /\ up[r] = TRUE
    BY DEF Init
  <2>2. ContextOK(Len(log), ref, NoContext, NewStore)
    BY NoContextOK
  <2>3. ReplicaOK(Len(log), ref, db[r], disk[r], ctx[r], first[r])
    BY <1>4, <2>1, <2>2 DEF ReplicaOK
  <2>4. ~Recovering(r)
    BY <1>5 DEF Recovering
  <2>5. Busy(r)
    BY <1>4, <2>1, <2>4 DEF Busy
  <2> QED
    BY <2>3, <2>5
<1> QED
  BY <1>3, <1>4, <1>5, <1>6, <1>7, <1>8 DEF IInv

(* A store and a context stay right when the log grows.                    *)
LEMMA Grows ==
  ASSUME NEW n \in Nat, NEW m \in Nat, n <= m, NEW rf, NEW rg,
         \A i \in 0..n : rg[i] = rf[i]
  PROVE  /\ \A s : StoreOK(n, rf, s) => StoreOK(m, rg, s)
         /\ \A c, d : ContextOK(n, rf, c, d) => ContextOK(m, rg, c, d)
<1>1. ASSUME NEW s, StoreOK(n, rf, s) PROVE StoreOK(m, rg, s)
  <2>1. s.index \in 0..n /\ s.index <= m
    BY <1>1 DEF StoreOK, StoreType
  <2> QED
    BY <1>1, <2>1 DEF StoreOK
<1>2. ASSUME NEW c, NEW d, ContextOK(n, rf, c, d) PROVE ContextOK(m, rg, c, d)
  <2>1. c.open => c.index \in 0..n /\ c.index <= m
    BY <1>2 DEF ContextOK
  <2> QED
    BY <1>2, <2>1 DEF ContextOK
<1> QED
  BY <1>1, <1>2

(* What a handler does on any batch of a reference content.                *)
LEMMA HandleInBatch ==
  ASSUME NEW kv \in Contents, NEW indexed \in BOOLEAN, NEW cmd \in Commands
  PROVE  LET h == Handle(Batch(kv, indexed, FALSE), cmd)
             g == Handle(Batch(kv, FALSE, FALSE), cmd)
         IN /\ h.ctx.kv \in Contents /\ h.ctx.indexed \in BOOLEAN
            /\ h.ctx.kv = g.ctx.kv /\ h.responses = g.responses
BY HandleAssumption, Zenon

(* The reference with one more element.                                    *)
LEMMA RefGrows ==
  ASSUME NEW n \in Nat, NEW rf, NEW rg, NEW new,
         rg = [i \in 0..(n + 1) |-> IF i <= n THEN rf[i] ELSE new]
  PROVE  (\A i \in 0..n : rg[i] = rf[i]) /\ rg[n + 1] = new
<1>1. \A i \in 0..n : i \in 0..(n + 1) /\ i <= n
  OBVIOUS
<1>2. n + 1 \in 0..(n + 1) /\ ~(n + 1 <= n)
  OBVIOUS
<1>3. rg[n + 1] = new
  BY <1>2
<1>4. \A i \in 0..n : rg[i] = rf[i]
  BY <1>1
<1> QED
  BY <1>3, <1>4

(* A new entry of the log preserves the invariant.                         *)
LEMMA ProposeStep ==
  ASSUME IInv, Propose
  PROVE  IInv'
<1> DEFINE n == Len(log)
<1>1. n \in Nat /\ log \in Seq(Commands) /\ RefOK(log, ref)
  BY LenProperties DEF IInv, Funs
<1>2. PICK cmd \in Commands :
        LET h == Handle(Batch(ref[n].kv, FALSE, FALSE), cmd)
            leader == IF cmd.leaderIndex = None THEN ref[n].leader
                      ELSE cmd.leaderIndex
        IN /\ log' = Append(log, cmd)
           /\ ref' = [i \in 0..(n + 1) |->
                        IF i <= n THEN ref[i]
                        ELSE Reference(h.ctx.kv, leader, h.responses)]
  BY DEF Propose
<1> DEFINE h == Handle(Batch(ref[n].kv, FALSE, FALSE), cmd)
           leader == IF cmd.leaderIndex = None THEN ref[n].leader
                     ELSE cmd.leaderIndex
<1>3. /\ log' \in Seq(Commands) /\ Len(log') = n + 1 /\ log'[n + 1] = cmd
      /\ \A i \in 1..n : log'[i] = log[i]
  BY <1>1, <1>2, AppendProperties
<1>4. ref[n].kv \in Contents /\ ref[n].leader \in Nat
  BY <1>1 DEF RefOK
<1>5. h.ctx.kv \in Contents /\ leader \in Nat
  BY <1>4, HandleAssumption, Zenon
<1>6. /\ \A i \in 0..n : ref'[i] = ref[i]
      /\ ref'[n + 1] = Reference(h.ctx.kv, leader, h.responses)
  <2> DEFINE new == Reference(h.ctx.kv, leader, h.responses)
  <2>1. ref' = [i \in 0..(n + 1) |-> IF i <= n THEN ref[i] ELSE new]
    BY <1>2
  <2> HIDE DEF new, n
  <2>2. (\A i \in 0..n : ref'[i] = ref[i]) /\ ref'[n + 1] = new
    BY <1>1, <2>1, RefGrows
  <2> QED
    BY <2>2 DEF new
<1> HIDE DEF h, leader
<1>7. /\ ref'[n + 1].kv = h.ctx.kv /\ ref'[n + 1].leader = leader
      /\ ref'[n + 1].responses = h.responses
  BY <1>6, ReferenceFields
<1>8. RefOK(log', ref')
  <2>1. ref'[0].kv = EmptyTable
    BY <1>1, <1>6 DEF RefOK
  <2>2. ASSUME NEW i \in 0..(n + 1)
        PROVE  ref'[i].kv \in Contents /\ ref'[i].leader \in Nat
    BY <1>1, <1>5, <1>6, <1>7 DEF RefOK
  <2>3. ASSUME NEW i \in 0..n
        PROVE  LET g == Handle(Batch(ref'[i].kv, FALSE, FALSE), log'[i + 1])
               IN ref'[i + 1].kv = g.ctx.kv /\ ref'[i + 1].responses = g.responses
    <3>1. CASE i = n
      <4>1. Handle(Batch(ref'[i].kv, FALSE, FALSE), log'[i + 1]) = h
        BY <1>1, <1>3, <1>6, <3>1, Zenon DEF h
      <4> QED
        BY <1>7, <3>1, <4>1, Zenon
    <3>2. CASE i \in 0..(n - 1)
      <4>1. i \in 0..n /\ i + 1 \in 0..n /\ i + 1 \in 1..n
        BY <1>1, <3>2
      <4>2. ref'[i] = ref[i] /\ ref'[i + 1] = ref[i + 1] /\ log'[i + 1] = log[i + 1]
        BY <1>3, <1>6, <4>1
      <4>3. LET g == Handle(Batch(ref[i].kv, FALSE, FALSE), log[i + 1])
            IN ref[i + 1].kv = g.ctx.kv /\ ref[i + 1].responses = g.responses
        BY <1>1, <3>2, Zenon DEF RefOK
      <4> QED
        BY <4>2, <4>3
    <3>3. i = n \/ i \in 0..(n - 1)
      BY <1>1
    <3> QED
      BY <3>1, <3>2, <3>3, Zenon
  <2>4. (n + 1) - 1 = n
    BY <1>1
  <2> QED
    BY <1>3, <2>1, <2>2, <2>3, <2>4, Zenon DEF RefOK
<1>9. /\ \A s : StoreOK(n, ref, s) => StoreOK(n + 1, ref', s)
      /\ \A c, d : ContextOK(n, ref, c, d) => ContextOK(n + 1, ref', c, d)
  BY <1>1, <1>6, Grows
<1>10. UNCHANGED <<first, up, db, disk, ctx, snap, reader>>
  BY DEF Propose
<1>11. Funs'
  BY <1>3, <1>10 DEF IInv, Funs
<1>12. ASSUME NEW r \in Replicas
       PROVE  ReplicaOK(n + 1, ref', db[r], disk[r], ctx[r], first[r])
  BY <1>9 DEF IInv, ReplicaOK
<1>13. ASSUME NEW r \in Replicas PROVE Busy(r)'
  BY <1>10 DEF IInv, Busy, Recovering
<1>14. StoreOK(n + 1, ref', snap.store) /\ StoreOK(n + 1, ref', reader.store)
  BY <1>9 DEF IInv
<1> QED
  BY <1>3, <1>8, <1>10, <1>11, <1>12, <1>13, <1>14 DEF IInv

-----------------------------------------------------------------------------
(* Update.                                                                 *)

(* The batch that the next entry is handled in holds the content of its    *)
(* index.                                                                  *)
LEMMA CurrentOK ==
  ASSUME IInv, NEW r \in Replicas
  PROVE  LET c == Current(r)
         IN /\ c.index \in Nat /\ c.index <= Len(log)
            /\ db[r].index <= c.index
            /\ c.kv \in Contents /\ c.kv = ref[c.index].kv
            /\ c.indexed \in BOOLEAN
<1>1. /\ ReplicaOK(Len(log), ref, db[r], disk[r], ctx[r], first[r])
      /\ StoreOK(Len(log), ref, db[r])
      /\ ContextOK(Len(log), ref, ctx[r], db[r])
  BY DEF IInv, ReplicaOK
<1>2. CASE ctx[r].open
  BY <1>1, <1>2 DEF ContextOK, Current
<1>3. CASE ~ctx[r].open
  <2> DEFINE c == Current(r)
  <2>1. c = UpdateContext(TRUE, db[r].kv, FALSE, db[r].index, None, <<>>)
    BY <1>3 DEF Current
  <2> HIDE DEF c
  <2>2. c.kv = db[r].kv /\ c.index = db[r].index
    BY <2>1, Zenon DEF UpdateContext
  <2>3. c.indexed \in BOOLEAN
    BY <2>1, Zenon DEF UpdateContext
  <2>4. db[r].kv \in Contents /\ db[r].index \in Nat
    BY <1>1 DEF StoreOK, StoreType
  <2>5. /\ c.index \in Nat /\ c.index <= Len(log)
        /\ db[r].index <= c.index
        /\ c.kv \in Contents /\ c.kv = ref[c.index].kv
    BY <1>1, <2>2, <2>4 DEF StoreOK
  <2> QED
    BY <2>3, <2>5 DEF c
<1>4. ctx[r].open \in BOOLEAN
  BY <1>1 DEF ContextOK
<1> QED
  BY <1>2, <1>3, <1>4

(* Only replica r changes, and the invariant holds of it afterwards.       *)
LEMMA OneReplica ==
  ASSUME IInv, NEW r \in Replicas, UNCHANGED <<log, ref, snap, reader>>,
         Funs',
         \A q \in Replicas \ {r} :
            /\ db'[q] = db[q] /\ disk'[q] = disk[q] /\ ctx'[q] = ctx[q]
            /\ first'[q] = first[q] /\ up'[q] = up[q],
         ReplicaOK(Len(log), ref, db'[r], disk'[r], ctx'[r], first'[r]),
         Busy(r)'
  PROVE  IInv'
<1>1. ASSUME NEW q \in Replicas
      PROVE  /\ ReplicaOK(Len(log), ref, db'[q], disk'[q], ctx'[q], first'[q])
             /\ Busy(q)'
  <2>1. CASE q = r
    BY <2>1
  <2>2. CASE q # r
    <3>1. /\ ReplicaOK(Len(log), ref, db[q], disk[q], ctx[q], first[q])
          /\ Busy(q)
      BY DEF IInv
    <3>2. q \in Replicas \ {r}
      BY <2>2
    <3> QED
      BY <3>1, <3>2 DEF Busy, Recovering
  <2> QED
    BY <2>1, <2>2
<1> QED
  BY <1>1 DEF IInv

(* One entry handled by FSM.Update preserves the invariant.                *)
LEMMA UpdateEntryStep ==
  ASSUME IInv, NEW r \in Replicas, UpdateEntry(r)
  PROVE  IInv'
<1> DEFINE c == Current(r)
           i == c.index
           h == Handle(Batch(c.kv, c.indexed, FALSE), log[i + 1])
           g == Handle(Batch(c.kv, FALSE, FALSE), log[i + 1])
           next == UpdateContext(TRUE, h.ctx.kv, h.ctx.indexed, i + 1,
                                 log[i + 1].leaderIndex, h.responses)
<1>1. /\ up[r] /\ ~Recovering(r) /\ i < Len(log)
      /\ ctx' = [ctx EXCEPT ![r] = next]
      /\ UNCHANGED <<log, ref, first, up, db, disk, snap, reader>>
  BY DEF UpdateEntry, HasEntry, Handled
<1>2. /\ i \in Nat /\ i <= Len(log) /\ db[r].index <= i
      /\ c.kv \in Contents /\ c.kv = ref[i].kv /\ c.indexed \in BOOLEAN
  BY CurrentOK
<1>3. Len(log) \in Nat /\ log \in Seq(Commands)
  BY LenProperties DEF IInv, Funs
<1>4. log[i + 1] \in Commands /\ i \in 0..(Len(log) - 1)
  <2> HIDE DEF i
  <2>1. i + 1 \in 1..Len(log) /\ i \in 0..(Len(log) - 1)
    BY <1>1, <1>2, <1>3
  <2> QED
    BY <1>3, <2>1, ElementOfSeq
<1>5. /\ h.ctx.kv \in Contents /\ h.ctx.indexed \in BOOLEAN
      /\ h.ctx.kv = g.ctx.kv /\ h.responses = g.responses
  <2> HIDE DEF c, i
  <2> QED
    BY <1>2, <1>4, HandleInBatch, Zenon
<1>6. ref[i + 1].kv = g.ctx.kv /\ ref[i + 1].responses = g.responses
  <2>1. RefOK(log, ref)
    BY DEF IInv
  <2>2. LET k == Handle(Batch(ref[i].kv, FALSE, FALSE), log[i + 1])
        IN ref[i + 1].kv = k.ctx.kv /\ ref[i + 1].responses = k.responses
    <3> HIDE DEF i
    <3> QED
      BY <1>4, <2>1, Zenon DEF RefOK
  <2> HIDE DEF i, c
  <2> QED
    BY <1>2, <2>2
<1>7. log[i + 1].leaderIndex \in Nat \cup {None}
  <2> HIDE DEF i
  <2> QED
    BY <1>4, HandleAssumption
<1>8. /\ next.open = TRUE /\ next.kv = h.ctx.kv /\ next.indexed = h.ctx.indexed
      /\ next.index = i + 1 /\ next.leader = log[i + 1].leaderIndex
      /\ next.responses = h.responses
  BY Zenon DEF UpdateContext
<1>9. DOMAIN ctx = Replicas
  BY DEF IInv, Funs
<1> HIDE DEF next, h, g, i, c
<1>10. /\ StoreOK(Len(log), ref, db[r]) /\ StoreOK(Len(log), ref, disk[r])
       /\ first[r] <= disk[r].index + 1
  BY DEF IInv, ReplicaOK
<1>11. ContextOK(Len(log), ref, next, db[r])
  <2>1. i + 1 \in Nat /\ i + 1 <= Len(log) /\ db[r].index <= i + 1
    <3>1. db[r].index \in Nat
      BY <1>10 DEF StoreOK, StoreType
    <3> QED
      BY <1>1, <1>2, <1>3, <3>1
  <2> QED
    BY <1>5, <1>6, <1>7, <1>8, <2>1, Zenon DEF ContextOK
<1>12. ctx'[r] = next /\ \A q \in Replicas \ {r} : ctx'[q] = ctx[q]
  BY <1>1, <1>9
<1>13. Funs'
  BY <1>1, <1>9 DEF IInv, Funs
<1>14. ReplicaOK(Len(log), ref, db'[r], disk'[r], ctx'[r], first'[r])
  BY <1>1, <1>10, <1>11, <1>12 DEF ReplicaOK
<1>15. Busy(r)'
  <2>1. Busy(r)
    BY DEF IInv
  <2> QED
    BY <1>1, <2>1 DEF Busy, Recovering
<1> QED
  BY <1>1, <1>12, <1>13, <1>14, <1>15, OneReplica

(* The commit of an update's batch preserves the invariant.                *)
LEMMA UpdateCommitStep ==
  ASSUME IInv, NEW r \in Replicas, UpdateCommit(r)
  PROVE  IInv'
<1> DEFINE c == ctx[r]
           leader == IF c.leader = None THEN db[r].leader ELSE c.leader
           new == Store(c.kv, c.index, leader)
<1>1. /\ c.open
      /\ db' = [db EXCEPT ![r] = new] /\ ctx' = [ctx EXCEPT ![r] = NoContext]
      /\ UNCHANGED <<log, ref, first, up, disk, snap, reader>>
  BY DEF UpdateCommit
<1>2. /\ StoreOK(Len(log), ref, db[r]) /\ StoreOK(Len(log), ref, disk[r])
      /\ ContextOK(Len(log), ref, c, db[r]) /\ first[r] <= disk[r].index + 1
      /\ Busy(r) /\ Funs
  BY DEF IInv, ReplicaOK
<1>3. /\ db[r].leader \in Nat /\ db[r].index \in Nat /\ disk[r].index \in Nat
  BY <1>2 DEF StoreOK, StoreType
<1>4. /\ c.index \in Nat /\ c.index <= Len(log) /\ db[r].index <= c.index
      /\ c.kv \in Contents /\ c.kv = ref[c.index].kv
      /\ c.leader \in Nat \cup {None}
  BY <1>1, <1>2 DEF ContextOK
<1>5. leader \in Nat
  BY <1>3, <1>4
<1>6. new.kv = c.kv /\ new.index = c.index
  BY Zenon DEF Store
<1> HIDE DEF leader
<1>7. new \in StoreType
  BY <1>4, <1>5, StoreInType
<1> HIDE DEF new
<1>8. StoreOK(Len(log), ref, new)
  BY <1>4, <1>6, <1>7 DEF StoreOK
<1>9. /\ db'[r] = new /\ ctx'[r] = NoContext
      /\ \A q \in Replicas \ {r} : db'[q] = db[q] /\ ctx'[q] = ctx[q]
  BY <1>1, <1>2 DEF Funs
<1>10. Funs'
  BY <1>1, <1>2, <1>7 DEF Funs
<1>11. ReplicaOK(Len(log), ref, db'[r], disk'[r], ctx'[r], first'[r])
  BY <1>1, <1>2, <1>8, <1>9, NoContextOK DEF ReplicaOK
<1>12. Busy(r)'
  <2>1. up[r] /\ ~Recovering(r)
    BY <1>1, <1>2 DEF Busy, Funs
  <2>2. disk[r].index <= new.index
    BY <1>2, <1>3, <1>4, <1>6, <2>1 DEF Busy
  <2> QED
    BY <1>1, <1>9, <2>1, <2>2 DEF Busy, Recovering
<1> QED
  BY <1>1, <1>9, <1>10, <1>11, <1>12, OneReplica

-----------------------------------------------------------------------------
(* Durability.                                                             *)

(* A replica goes down with k on its disk.                                 *)
LEMMA DownStep ==
  ASSUME IInv, NEW r \in Replicas, Down(r), UNCHANGED <<log, ref, first>>,
         NEW k, disk' = [disk EXCEPT ![r] = k],
         StoreOK(Len(log), ref, k), first[r] <= k.index + 1
  PROVE  IInv'
<1>1. /\ up' = [up EXCEPT ![r] = FALSE] /\ db' = [db EXCEPT ![r] = NewStore]
      /\ ctx' = [ctx EXCEPT ![r] = NoContext]
      /\ snap' = IF HoldsTransfer(r) THEN NoTransfer ELSE snap
      /\ reader' = IF reader.at = r THEN NoRequest ELSE reader
  BY DEF Down
<1>2. Funs /\ RefOK(log, ref)
  BY DEF IInv
<1>3. StoreOK(Len(log), ref, NewStore) /\ NewStore \in StoreType
  BY <1>2, NewStoreOK DEF Funs, StoreOK
<1>4. k \in StoreType
  BY DEF StoreOK
<1>5. /\ NoTransfer.pc = "none" /\ NoTransfer.to = None
      /\ NoTransfer.store = NewStore
  BY TransferFields DEF NoTransfer
<1>6. /\ NoRequest.pc = "none" /\ NoRequest.at = None
      /\ NoRequest.store = NewStore
  BY RequestFields DEF NoRequest
<1>7. Funs'
  BY <1>1, <1>2, <1>3, <1>4, Zenon DEF Funs
<1>8. /\ snap' = snap \/ snap' = NoTransfer
      /\ StoreOK(Len(log), ref, snap'.store)
      /\ snap'.pc \in {"none", "prepared", "arrived", "replaced"}
      /\ snap'.to \in Replicas \/ snap'.to = None
      /\ snap'.pc \in {"arrived", "prepared"} => snap'.to \in Replicas
  BY <1>1, <1>3, <1>5 DEF IInv
<1>9. /\ reader' = reader \/ reader' = NoRequest
      /\ StoreOK(Len(log), ref, reader'.store)
      /\ reader'.pc \in {"none", "open", "done"}
      /\ reader'.at # r
  BY <1>1, <1>3, <1>6, HandleAssumption DEF IInv
<1>10. ASSUME NEW q \in Replicas
       PROVE  /\ ReplicaOK(Len(log), ref, db'[q], disk'[q], ctx'[q], first'[q])
              /\ Busy(q)'
  <2>1. CASE q = r
    <3>1. /\ db'[q] = NewStore /\ disk'[q] = k /\ ctx'[q] = NoContext
          /\ up'[q] = FALSE /\ first'[q] = first[r]
      BY <1>1, <1>2, <2>1 DEF Funs
    <3>2. ReplicaOK(Len(log), ref, db'[q], disk'[q], ctx'[q], first'[q])
      BY <1>3, <3>1, NoContextOK DEF ReplicaOK
    <3>3. snap'.to = q => snap'.pc = "prepared"
      <4>1. CASE HoldsTransfer(r)
        BY <1>1, <1>5, <4>1, HandleAssumption
      <4>2. CASE ~HoldsTransfer(r)
        BY <1>1, <2>1, <4>2 DEF HoldsTransfer
      <4> QED
        BY <4>1, <4>2
    <3>4. ~Recovering(q)'
      BY <3>3 DEF Recovering
    <3> QED
      BY <1>9, <2>1, <3>1, <3>2, <3>3, <3>4, NoContextOK DEF Busy
  <2>2. CASE q # r
    <3>1. /\ db'[q] = db[q] /\ disk'[q] = disk[q] /\ ctx'[q] = ctx[q]
          /\ up'[q] = up[q] /\ first'[q] = first[q]
      BY <1>1, <1>2, <2>2 DEF Funs
    <3>2. /\ ReplicaOK(Len(log), ref, db[q], disk[q], ctx[q], first[q])
          /\ Busy(q)
      BY DEF IInv
    <3>3. reader.at # q => reader'.at # q
      BY <1>6, <1>9, HandleAssumption
    <3>4. CASE snap' = snap
      BY <3>1, <3>2, <3>3, <3>4 DEF Busy, Recovering
    <3>5. CASE snap' = NoTransfer
      <4>1. ~Recovering(q)' /\ snap'.to # q
        BY <1>5, <3>5, HandleAssumption DEF Recovering
      <4>2. ~HoldsTransfer(r) \/ ~Recovering(q)
        BY <2>2 DEF HoldsTransfer, Recovering
      <4>3. CASE ~HoldsTransfer(r)
        <5>1. snap' = snap
          BY <1>1, <4>3
        <5> QED
          BY <3>4, <5>1
      <4>4. CASE ~Recovering(q)
        BY <3>1, <3>2, <3>3, <4>1, <4>4 DEF Busy
      <4> QED
        BY <4>2, <4>3, <4>4
    <3> QED
      BY <1>8, <3>4, <3>5
  <2> QED
    BY <2>1, <2>2
<1> QED
  BY <1>2, <1>7, <1>8, <1>9, <1>10 DEF IInv

(* Crash and UpdatePanic leave what is on disk.                            *)
LEMMA CrashStep ==
  ASSUME IInv, NEW r \in Replicas, Crash(r) \/ UpdatePanic(r)
  PROVE  IInv'
<1>1. Down(r) /\ UNCHANGED <<log, ref, first, disk>>
  BY DEF Crash, UpdatePanic
<1>2. disk' = [disk EXCEPT ![r] = disk[r]]
  BY <1>1 DEF IInv, Funs
<1>3. StoreOK(Len(log), ref, disk[r]) /\ first[r] <= disk[r].index + 1
  BY DEF IInv, ReplicaOK
<1> QED
  BY <1>1, <1>2, <1>3, DownStep, Zenon

(* What a flush puts on disk is no older than what was there.              *)
LEMMA FlushedOK ==
  ASSUME IInv, NEW r \in Replicas, up[r], ~Recovering(r)
  PROVE  /\ StoreOK(Len(log), ref, db[r])
         /\ first[r] <= db[r].index + 1 /\ db[r].index \in Nat
<1>1. /\ StoreOK(Len(log), ref, db[r]) /\ StoreOK(Len(log), ref, disk[r])
      /\ first[r] <= disk[r].index + 1 /\ disk[r].index <= db[r].index
  BY DEF IInv, ReplicaOK, Busy
<1>2. /\ db[r].index \in Nat /\ disk[r].index \in Nat /\ first[r] \in Nat
  BY <1>1 DEF StoreOK, StoreType, IInv, Funs
<1> QED
  BY <1>1, <1>2

(* FSM.Close preserves the invariant.                                      *)
LEMMA CloseStep ==
  ASSUME IInv, NEW r \in Replicas, Close(r)
  PROVE  IInv'
BY FlushedOK, DownStep, Zenon DEF Close

(* FSM.Open, with what the disk holds, preserves the invariant.            *)
LEMMA OpenStep ==
  ASSUME IInv, NEW r \in Replicas, Open(r)
  PROVE  IInv'
<1>1. /\ ~up[r] /\ up' = [up EXCEPT ![r] = TRUE]
      /\ db' = [db EXCEPT ![r] = disk[r]]
      /\ UNCHANGED <<log, ref, first, disk, ctx, snap, reader>>
  BY DEF Open
<1>2. /\ StoreOK(Len(log), ref, disk[r]) /\ ContextOK(Len(log), ref, ctx[r], db[r])
      /\ first[r] <= disk[r].index + 1 /\ Busy(r) /\ Funs
  BY DEF IInv, ReplicaOK
<1>3. disk[r] \in StoreType /\ disk[r].index \in Nat
  BY <1>2 DEF StoreOK, StoreType
<1>4. /\ db'[r] = disk[r] /\ up'[r] = TRUE
      /\ \A q \in Replicas \ {r} : db'[q] = db[q] /\ up'[q] = up[q]
  BY <1>1, <1>2 DEF Funs
<1>5. Funs'
  BY <1>1, <1>2, <1>3 DEF Funs
<1>6. ~ctx[r].open /\ ~Recovering(r)
  BY <1>1, <1>2 DEF Busy
<1>7. ReplicaOK(Len(log), ref, db'[r], disk'[r], ctx'[r], first'[r])
  BY <1>1, <1>2, <1>4, <1>6 DEF ReplicaOK, ContextOK
<1>8. Busy(r)'
  BY <1>1, <1>3, <1>4, <1>6 DEF Busy, Recovering
<1> QED
  BY <1>1, <1>4, <1>5, <1>7, <1>8, OneReplica, Zenon

(* Flush, and Sync, which also discards entries before the index.          *)
LEMMA FlushStep ==
  ASSUME IInv, NEW r \in Replicas, up[r], ~Recovering(r),
         disk' = [disk EXCEPT ![r] = db[r]],
         NEW to \in Nat \ {0}, to <= db[r].index + 1,
         first' = [first EXCEPT ![r] = to],
         UNCHANGED <<log, ref, up, db, ctx, snap, reader>>
  PROVE  IInv'
<1>1. Funs /\ ContextOK(Len(log), ref, ctx[r], db[r]) /\ Busy(r)
  BY DEF IInv, ReplicaOK
<1>2. StoreOK(Len(log), ref, db[r]) /\ db[r].index \in Nat /\ db[r] \in StoreType
  BY FlushedOK DEF StoreOK
<1>3. /\ disk'[r] = db[r] /\ first'[r] = to
      /\ \A q \in Replicas \ {r} : disk'[q] = disk[q] /\ first'[q] = first[q]
  BY <1>1 DEF Funs
<1>4. Funs'
  BY <1>1, <1>2 DEF Funs
<1>5. ReplicaOK(Len(log), ref, db'[r], disk'[r], ctx'[r], first'[r])
  BY <1>1, <1>2, <1>3 DEF ReplicaOK
<1>6. Busy(r)'
  BY <1>1, <1>2, <1>3 DEF Busy, Recovering
<1> QED
  BY <1>3, <1>4, <1>5, <1>6, OneReplica

-----------------------------------------------------------------------------
(* Snapshots.                                                              *)

(* Only the transfer changes, to one that is not being made current.       *)
LEMMA TransferStep ==
  ASSUME IInv, UNCHANGED <<log, ref, first, up, db, ctx, reader>>,
         \A q \in Replicas : ~Recovering(q),
         Funs', \A q \in Replicas :
            disk'[q] = disk[q] \/ (up[q] /\ disk'[q] = db[q]),
         StoreOK(Len(log), ref, snap'.store),
         snap'.pc \in {"none", "prepared", "arrived"},
         snap'.to \in Replicas \/ snap'.to = None,
         snap'.pc # "none" => snap'.to \in Replicas,
         snap'.to \in Replicas => snap'.pc = "prepared" \/ up[snap'.to]
  PROVE  IInv'
<1>1. ASSUME NEW q \in Replicas
      PROVE  /\ ReplicaOK(Len(log), ref, db[q], disk'[q], ctx[q], first[q])
             /\ Busy(q)'
  <2>1. /\ ReplicaOK(Len(log), ref, db[q], disk[q], ctx[q], first[q])
        /\ Busy(q)
    BY DEF IInv
  <2>2. ~Recovering(q)'
    BY DEF Recovering
  <2>3. CASE disk'[q] = disk[q]
    BY <2>1, <2>2, <2>3 DEF Busy
  <2>4. CASE up[q] /\ disk'[q] = db[q]
    <3>1. /\ StoreOK(Len(log), ref, db[q])
          /\ first[q] <= db[q].index + 1 /\ db[q].index \in Nat
      BY <2>4, FlushedOK
    <3> QED
      BY <2>1, <2>2, <2>4, <3>1 DEF Busy, ReplicaOK
  <2> QED
    BY <2>3, <2>4
<1> QED
  BY <1>1 DEF IInv

(* PrepareSnapshot preserves the invariant.                                *)
LEMMA PrepareSnapshotStep ==
  ASSUME IInv, NEW r \in Replicas, NEW to \in Replicas, PrepareSnapshot(r, to)
  PROVE  IInv'
<1>1. /\ snap.pc = "none" /\ up[r]
      /\ snap' = Transfer("prepared", r, to, db[r])
      /\ disk' = IF Checkpoint THEN [disk EXCEPT ![r] = db[r]] ELSE disk
      /\ UNCHANGED <<log, ref, first, up, db, ctx, reader>>
  BY DEF PrepareSnapshot
<1>2. snap'.pc = "prepared" /\ snap'.to = to /\ snap'.store = db[r]
  BY <1>1, TransferFields
<1>3. \A q \in Replicas : ~Recovering(q)
  BY <1>1 DEF Recovering
<1>4. Funs /\ StoreOK(Len(log), ref, db[r]) /\ db[r] \in StoreType
  BY DEF IInv, ReplicaOK, StoreOK
<1>5. /\ \A q \in Replicas : disk'[q] = disk[q] \/ (up[q] /\ disk'[q] = db[q])
      /\ disk' \in [Replicas -> StoreType]
  <2>1. CASE Checkpoint
    BY <1>1, <1>4, <2>1 DEF Funs
  <2>2. CASE ~Checkpoint
    BY <1>1, <1>4, <2>2 DEF Funs
  <2> QED
    BY <2>1, <2>2
<1>6. Funs'
  BY <1>1, <1>4, <1>5 DEF Funs
<1> QED
  BY <1>1, <1>2, <1>3, <1>4, <1>5, <1>6, TransferStep

(* SaveSnapshot preserves the invariant.                                   *)
LEMMA SaveSnapshotStep ==
  ASSUME IInv, SaveSnapshot
  PROVE  IInv'
<1>1. /\ snap.pc = "prepared" /\ up[snap.to]
      /\ snap' = Transfer("arrived", None, snap.to, snap.store)
      /\ UNCHANGED <<log, ref, first, up, db, disk, ctx, reader>>
  BY DEF SaveSnapshot
<1>2. snap'.pc = "arrived" /\ snap'.to = snap.to /\ snap'.store = snap.store
  BY <1>1, TransferFields
<1>3. \A q \in Replicas : ~Recovering(q)
  BY <1>1 DEF Recovering
<1>4. Funs' /\ StoreOK(Len(log), ref, snap.store) /\ snap.to \in Replicas
  BY <1>1 DEF IInv, Funs
<1> QED
  BY <1>1, <1>2, <1>3, <1>4, TransferStep

(* A snapshot that is given up preserves the invariant.                    *)
LEMMA SnapshotStoppedStep ==
  ASSUME IInv, SnapshotStopped
  PROVE  IInv'
<1>1. /\ snap.pc \in {"prepared", "arrived"} /\ snap' = NoTransfer
      /\ UNCHANGED <<log, ref, first, up, db, disk, ctx, reader>>
  BY DEF SnapshotStopped
<1>2. snap'.pc = "none" /\ snap'.to = None /\ snap'.store = NewStore
  BY <1>1, TransferFields DEF NoTransfer
<1>3. \A q \in Replicas : ~Recovering(q)
  BY <1>1 DEF Recovering
<1>4. Funs' /\ StoreOK(Len(log), ref, NewStore)
  BY <1>1, NewStoreOK DEF IInv, Funs
<1> QED
  BY <1>1, <1>2, <1>3, <1>4, HandleAssumption, TransferStep

(* The switch to the directory of a received snapshot preserves the        *)
(* invariant.                                                              *)
LEMMA RecoverReplaceStep ==
  ASSUME IInv, NEW r \in Replicas, RecoverReplace(r)
  PROVE  IInv'
<1>1. /\ snap.pc = "arrived" /\ snap.to = r /\ ~ctx[r].open
      /\ db[r].index < snap.store.index
      /\ disk' = [disk EXCEPT ![r] = snap.store]
      /\ snap' = Transfer("replaced", None, r, snap.store)
      /\ UNCHANGED <<log, ref, first, up, db, ctx, reader>>
  BY DEF RecoverReplace
<1>2. snap'.pc = "replaced" /\ snap'.to = r /\ snap'.store = snap.store
  BY <1>1, TransferFields
<1>3. /\ Funs /\ StoreOK(Len(log), ref, snap.store)
      /\ snap.store \in StoreType /\ snap.store.index \in Nat
  BY DEF IInv, StoreOK, StoreType
<1>4. Funs'
  BY <1>1, <1>3 DEF Funs
<1>5. ASSUME NEW q \in Replicas
      PROVE  /\ ReplicaOK(Len(log), ref, db[q], disk'[q], ctx[q], first[q])
             /\ Busy(q)'
  <2>1. /\ ReplicaOK(Len(log), ref, db[q], disk[q], ctx[q], first[q])
        /\ Busy(q) /\ ~Recovering(q)
    BY <1>1 DEF IInv, Recovering
  <2>2. CASE q = r
    <3>1. disk'[q] = snap.store /\ Recovering(q)' /\ up[q]
      BY <1>1, <1>2, <1>3, <2>1, <2>2 DEF Funs, Recovering, Busy
    <3>2. first[q] <= db[q].index + 1 /\ db[q].index \in Nat
      BY <2>1, <3>1, FlushedOK
    <3>3. first[q] \in Nat
      BY <1>3 DEF Funs
    <3>4. first[q] <= snap.store.index + 1 /\ db[q].index < snap.store.index
      BY <1>1, <1>3, <2>2, <3>2, <3>3
    <3> QED
      BY <1>1, <1>2, <1>3, <2>1, <2>2, <3>1, <3>4 DEF ReplicaOK, Busy
  <2>3. CASE q # r
    <3>1. disk'[q] = disk[q] /\ ~Recovering(q)' /\ snap'.to # q
      BY <1>1, <1>2, <1>3, <2>3 DEF Funs, Recovering
    <3> QED
      BY <1>1, <2>1, <3>1 DEF Busy
  <2> QED
    BY <2>2, <2>3
<1> QED
  BY <1>1, <1>2, <1>3, <1>4, <1>5, Zenon DEF IInv

(* The swap of the running database for the received one preserves the     *)
(* invariant.                                                              *)
LEMMA RecoverSwapStep ==
  ASSUME IInv, NEW r \in Replicas, RecoverSwap(r)
  PROVE  IInv'
<1>1. /\ Recovering(r)
      /\ db' = [db EXCEPT ![r] = snap.store]
      /\ first' = [first EXCEPT ![r] = snap.store.index + 1]
      /\ snap' = NoTransfer
      /\ reader' = IF reader.at = r THEN NoRequest ELSE reader
      /\ UNCHANGED <<log, ref, up, disk, ctx>>
  BY DEF RecoverSwap
<1>2. snap'.pc = "none" /\ snap'.to = None /\ snap'.store = NewStore
  BY <1>1, TransferFields DEF NoTransfer
<1>3. /\ Funs /\ StoreOK(Len(log), ref, snap.store)
      /\ snap.store \in StoreType /\ snap.store.index \in Nat
  BY DEF IInv, StoreOK, StoreType
<1>4. StoreOK(Len(log), ref, NewStore)
  BY NewStoreOK DEF IInv, Funs
<1>5. /\ NoRequest.pc = "none" /\ NoRequest.at = None
      /\ NoRequest.store = NewStore
  BY RequestFields DEF NoRequest
<1>6. /\ reader' = reader \/ reader' = NoRequest
      /\ StoreOK(Len(log), ref, reader'.store)
      /\ reader'.pc \in {"none", "open", "done"}
  BY <1>1, <1>4, <1>5 DEF IInv
<1>7. Funs'
  BY <1>1, <1>3 DEF Funs
<1>8. ASSUME NEW q \in Replicas
      PROVE  /\ ReplicaOK(Len(log), ref, db'[q], disk[q], ctx[q], first'[q])
             /\ Busy(q)'
  <2>1. /\ ReplicaOK(Len(log), ref, db[q], disk[q], ctx[q], first[q])
        /\ Busy(q)
    BY DEF IInv
  <2>2. ~Recovering(q)' /\ snap'.to # q
    BY <1>2, HandleAssumption DEF Recovering
  <2>3. CASE q = r
    <3>1. /\ db'[q] = snap.store /\ first'[q] = snap.store.index + 1
          /\ disk[q] = snap.store /\ up[q] /\ ~ctx[q].open
      BY <1>1, <1>3, <2>1, <2>3 DEF Funs, Busy
    <3>2. ContextOK(Len(log), ref, ctx[q], db'[q])
      BY <2>1, <3>1 DEF ReplicaOK, ContextOK
    <3>3. snap.store.index + 1 <= snap.store.index + 1
      BY <1>3
    <3>4. ReplicaOK(Len(log), ref, db'[q], disk[q], ctx[q], first'[q])
      BY <1>3, <3>1, <3>2, <3>3 DEF ReplicaOK
    <3>5. disk'[q].index <= db'[q].index
      BY <1>1, <1>3, <3>1
    <3>6. Busy(q)'
      BY <1>1, <2>2, <3>1, <3>5 DEF Busy
    <3> QED
      BY <3>4, <3>6
  <2>4. CASE q # r
    <3>1. db'[q] = db[q] /\ first'[q] = first[q] /\ ~Recovering(q)
      BY <1>1, <1>3, <2>4 DEF Funs, Recovering
    <3>2. reader.at # q => reader'.at # q
      BY <1>5, <1>6, HandleAssumption
    <3> QED
      BY <1>1, <2>1, <2>2, <3>1, <3>2 DEF Busy
  <2> QED
    BY <2>3, <2>4
<1> QED
  BY <1>1, <1>2, <1>3, <1>4, <1>6, <1>7, <1>8 DEF IInv

(* LookupSnapshot and CommandSnapshot.                                     *)
LEMMA ReaderStep ==
  ASSUME IInv, UNCHANGED <<log, ref, first, up, db, disk, ctx, snap>>,
         StoreOK(Len(log), ref, reader'.store),
         reader'.pc \in {"none", "open", "done"},
         \A q \in Replicas : ~up[q] => reader'.at # q
  PROVE  IInv'
<1>1. Funs'
  BY DEF IInv, Funs
<1>2. ASSUME NEW q \in Replicas PROVE Busy(q)'
  <2>1. Busy(q)
    BY DEF IInv
  <2> QED
    BY <2>1 DEF Busy, Recovering
<1> QED
  BY <1>1, <1>2 DEF IInv

-----------------------------------------------------------------------------
(* Every step preserves the invariant.                                     *)
LEMMA NextStep ==
  ASSUME IInv, Next
  PROVE  IInv'
<1>1. CASE Propose
  BY <1>1, ProposeStep
<1>2. CASE SaveSnapshot
  BY <1>2, SaveSnapshotStep
<1>3. CASE SnapshotStopped
  BY <1>3, SnapshotStoppedStep
<1>4. CASE CommandSnapshot
  <2>1. /\ reader' = Request("done", None, reader.store)
        /\ UNCHANGED <<log, ref, first, up, db, disk, ctx, snap>>
    BY <1>4 DEF CommandSnapshot
  <2>2. reader'.pc = "done" /\ reader'.at = None /\ reader'.store = reader.store
    BY <2>1, RequestFields
  <2>3. StoreOK(Len(log), ref, reader.store)
    BY DEF IInv
  <2> QED
    BY <2>1, <2>2, <2>3, HandleAssumption, ReaderStep
<1>5. ASSUME NEW r \in Replicas, UpdateEntry(r) PROVE IInv'
  BY <1>5, UpdateEntryStep
<1>6. ASSUME NEW r \in Replicas, UpdateCommit(r) PROVE IInv'
  BY <1>6, UpdateCommitStep
<1>7. ASSUME NEW r \in Replicas, Crash(r) \/ UpdatePanic(r) PROVE IInv'
  BY <1>7, CrashStep
<1>8. ASSUME NEW r \in Replicas, Close(r) PROVE IInv'
  BY <1>8, CloseStep
<1>9. ASSUME NEW r \in Replicas, Open(r) PROVE IInv'
  BY <1>9, OpenStep
<1>10. ASSUME NEW r \in Replicas, Flush(r) PROVE IInv'
  <2>1. /\ up[r] /\ ~Recovering(r) /\ disk' = [disk EXCEPT ![r] = db[r]]
        /\ UNCHANGED <<log, ref, first, up, db, ctx, snap, reader>>
    BY <1>10 DEF Flush
  <2>2. first[r] <= db[r].index + 1
    BY <2>1, FlushedOK
  <2>3. first[r] \in Nat \ {0} /\ first' = [first EXCEPT ![r] = first[r]]
    BY <2>1 DEF IInv, Funs
  <2> QED
    BY <2>1, <2>2, <2>3, FlushStep, Zenon
<1>11. ASSUME NEW r \in Replicas, Sync(r) PROVE IInv'
  <2>1. /\ up[r] /\ ~Recovering(r) /\ disk' = [disk EXCEPT ![r] = db[r]]
        /\ UNCHANGED <<log, ref, up, db, ctx, snap, reader>>
    BY <1>11 DEF Sync
  <2>2. PICK to \in first[r]..(db[r].index + 1) :
          first' = [first EXCEPT ![r] = to]
    BY <1>11, Zenon DEF Sync
  <2>3. first[r] \in Nat \ {0} /\ db[r].index \in Nat
    BY <2>1, FlushedOK DEF IInv, Funs
  <2>4. to \in Nat \ {0} /\ to <= db[r].index + 1
    BY <2>3
  <2> QED
    BY <2>1, <2>2, <2>4, FlushStep, Zenon
<1>12. ASSUME NEW r \in Replicas, NEW to \in Replicas, PrepareSnapshot(r, to)
       PROVE  IInv'
  BY <1>12, PrepareSnapshotStep
<1>13. ASSUME NEW r \in Replicas, RecoverReplace(r) PROVE IInv'
  BY <1>13, RecoverReplaceStep
<1>14. ASSUME NEW r \in Replicas, RecoverSwap(r) PROVE IInv'
  BY <1>14, RecoverSwapStep
<1>15. ASSUME NEW r \in Replicas, LookupSnapshot(r) PROVE IInv'
  <2>1. /\ up[r] /\ reader' = Request("open", r, db[r])
        /\ UNCHANGED <<log, ref, first, up, db, disk, ctx, snap>>
    BY <1>15 DEF LookupSnapshot
  <2>2. reader'.pc = "open" /\ reader'.at = r /\ reader'.store = db[r]
    BY <2>1, RequestFields
  <2>3. StoreOK(Len(log), ref, db[r])
    BY DEF IInv, ReplicaOK
  <2> QED
    BY <2>1, <2>2, <2>3, ReaderStep
<1> QED
  BY <1>1, <1>2, <1>3, <1>4, <1>5, <1>6, <1>7, <1>8, <1>9, <1>10, <1>11,
     <1>12, <1>13, <1>14, <1>15 DEF Next

(* A step that changes nothing preserves it too.                           *)
LEMMA StutterStep ==
  ASSUME IInv, UNCHANGED vars
  PROVE  IInv'
<1>1. Funs' /\ RefOK(log, ref)'
  BY Zenon DEF IInv, Funs, RefOK, vars
<1>2. ASSUME NEW q \in Replicas
      PROVE  /\ ReplicaOK(Len(log), ref, db[q], disk[q], ctx[q], first[q])'
             /\ Busy(q)'
  <2>1. /\ ReplicaOK(Len(log), ref, db[q], disk[q], ctx[q], first[q])
        /\ Busy(q)
    BY DEF IInv
  <2> QED
    BY <2>1, Zenon DEF Busy, Recovering, vars
<1> QED
  BY <1>1, <1>2, Zenon DEF IInv, vars

(* The inductive invariant.                                                *)
LEMMA Invariance == Spec => []IInv
<1>1. IInv /\ [Next]_vars => IInv'
  BY NextStep, StutterStep
<1> QED
  BY <1>1, InitIInv, PTL DEF Spec

-----------------------------------------------------------------------------
(* Type correctness of the replicas' state: indices stay within the log,   *)
(* and a replica that is down has no call in progress.                     *)
THEOREM TypeCorrect == Spec => []TypeOK
<1>1. IInv => TypeOK
  <2> SUFFICES ASSUME IInv PROVE TypeOK
    OBVIOUS
  <2>1. Len(log) \in Nat /\ Funs
    BY LenProperties DEF IInv, Funs
  <2>2. ASSUME NEW s, StoreOK(Len(log), ref, s) PROVE s \in Stores
    BY <2>1, <2>2 DEF StoreOK, StoreType, Stores
  <2>3. ASSUME NEW r \in Replicas
        PROVE  /\ db[r] \in Stores /\ disk[r] \in Stores
               /\ first[r] \in 1..(Len(log) + 1)
    <3>1. /\ StoreOK(Len(log), ref, db[r]) /\ StoreOK(Len(log), ref, disk[r])
          /\ first[r] <= disk[r].index + 1
      BY DEF IInv, ReplicaOK
    <3>2. disk[r].index \in Nat /\ disk[r].index <= Len(log)
      BY <3>1 DEF StoreOK, StoreType
    <3>3. first[r] \in Nat \ {0}
      BY <2>1 DEF Funs
    <3>4. first[r] \in 1..(Len(log) + 1)
      BY <2>1, <3>1, <3>2, <3>3
    <3> QED
      BY <2>2, <3>1, <3>4
  <2>4. snap.store \in Stores /\ reader.store \in Stores
    BY <2>2 DEF IInv
  <2>5. ASSUME NEW r \in Replicas, ~up[r]
        PROVE  /\ ~ctx[r].open /\ reader.at # r
               /\ snap.to = r => snap.pc = "prepared"
    BY <2>5 DEF IInv, Busy
  <2>6. /\ db \in [Replicas -> Stores] /\ disk \in [Replicas -> Stores]
        /\ first \in [Replicas -> 1..(Len(log) + 1)]
    BY <2>1, <2>3 DEF Funs
  <2> QED
    BY <2>1, <2>4, <2>5, <2>6 DEF TypeOK, IInv, Funs
<1> QED
  BY <1>1, Invariance, PTL

(* Whatever the batches, crashes, replays and snapshots between replicas,  *)
(* the table a replica serves is what the log up to its index makes of an  *)
(* empty table.                                                            *)
THEOREM ReplicasArePrefixes == Spec => []ReplicaIsPrefix
<1>1. IInv => ReplicaIsPrefix
  BY DEF IInv, ReplicaOK, StoreOK, ReplicaIsPrefix
<1> QED
  BY <1>1, Invariance, PTL

(* A crash between any two steps, the two of a recovery included, leaves a *)
(* database at some index and every log entry needed to go on from it.     *)
THEOREM CrashesAreSafe == Spec => []CrashSafe
<1>1. IInv => CrashSafe
  BY Zenon DEF IInv, ReplicaOK, StoreOK, CrashSafe
<1> QED
  BY <1>1, Invariance, PTL

(* The responses that Update returns are those of the serial execution.    *)
THEOREM ResponsesAreSerial == Spec => []ResponsesSerial
<1>1. IInv => ResponsesSerial
  BY Zenon DEF IInv, ReplicaOK, ContextOK, ResponsesSerial
<1> QED
  BY <1>1, Invariance, PTL

(* A streamed snapshot is exact at the index it reports.                   *)
THEOREM ExportsAreExact == Spec => []ExportExact
<1>1. IInv => ExportExact
  BY DEF IInv, StoreOK, ExportExact
<1> QED
  BY <1>1, Invariance, PTL

(* What IndexMonotonic says of replica q in one step.                      *)
Forward(q) ==
    /\ up[q] /\ up'[q] => db'[q].index >= db[q].index
    /\ first'[q] >= first[q]

(* Updates and recoveries only move a running replica forward, and the log *)
(* of a replica is only cut at its start.                                  *)
THEOREM IndicesAreMonotonic == Spec => IndexMonotonic
<1>1. ASSUME IInv, [Next]_vars, NEW q \in Replicas PROVE Forward(q)
  <2>1. /\ db[q].index \in Nat /\ first[q] \in Nat
        /\ DOMAIN db = Replicas /\ DOMAIN first = Replicas
        /\ DOMAIN up = Replicas /\ DOMAIN ctx = Replicas
    BY <1>1 DEF IInv, Funs, ReplicaOK, StoreOK, StoreType
  <2>2. CASE UNCHANGED <<first, db>>
    BY <2>1, <2>2 DEF Forward
  <2>3. ASSUME NEW r \in Replicas, UpdateCommit(r) PROVE Forward(q)
    <3> DEFINE c == ctx[r]
               new == Store(c.kv, c.index,
                            IF c.leader = None THEN db[r].leader ELSE c.leader)
    <3>1. c.open /\ db' = [db EXCEPT ![r] = new] /\ UNCHANGED <<first, up>>
      BY <2>3 DEF UpdateCommit
    <3>2. new.index = c.index
      BY Zenon DEF Store
    <3>3. c.index \in Nat /\ db[r].index <= c.index /\ db[r].index \in Nat
      BY <1>1, <3>1 DEF IInv, ReplicaOK, ContextOK, StoreOK, StoreType
    <3> HIDE DEF new
    <3>4. CASE q = r
      <4>1. db'[q] = new /\ first'[q] = first[q]
        BY <2>1, <3>1, <3>4
      <4> QED
        BY <2>1, <3>2, <3>3, <3>4, <4>1 DEF Forward
    <3>5. CASE q # r
      <4>1. db'[q] = db[q] /\ first'[q] = first[q]
        BY <2>1, <3>1, <3>5
      <4> QED
        BY <2>1, <4>1 DEF Forward
    <3> QED
      BY <3>4, <3>5
  <2>4. ASSUME NEW r \in Replicas, Crash(r) \/ UpdatePanic(r) \/ Close(r)
        PROVE  Forward(q)
    <3>1. /\ up' = [up EXCEPT ![r] = FALSE] /\ db' = [db EXCEPT ![r] = NewStore]
          /\ first' = first
      BY <2>4 DEF Crash, UpdatePanic, Close, Down
    <3>2. q = r => ~up'[q]
      BY <2>1, <3>1
    <3>3. q # r => db'[q] = db[q]
      BY <2>1, <3>1
    <3> QED
      BY <2>1, <3>1, <3>2, <3>3 DEF Forward
  <2>5. ASSUME NEW r \in Replicas, Open(r) PROVE Forward(q)
    <3>1. ~up[r] /\ db' = [db EXCEPT ![r] = disk[r]] /\ first' = first
      BY <2>5 DEF Open
    <3>2. q # r => db'[q] = db[q]
      BY <2>1, <3>1
    <3> QED
      BY <2>1, <3>1, <3>2 DEF Forward
  <2>6. ASSUME NEW r \in Replicas, Sync(r) PROVE Forward(q)
    <3>1. db' = db
      BY <2>6 DEF Sync
    <3>2. PICK to \in first[r]..(db[r].index + 1) :
            first' = [first EXCEPT ![r] = to]
      BY <2>6, Zenon DEF Sync
    <3>3. first'[q] = IF q = r THEN to ELSE first[q]
      BY <2>1, <3>2
    <3>4. first[r] \in Nat /\ db[r].index \in Nat
      BY <1>1 DEF IInv, Funs, ReplicaOK, StoreOK, StoreType
    <3>5. to \in Nat /\ to >= first[r]
      BY <3>4
    <3> QED
      BY <2>1, <3>1, <3>3, <3>5 DEF Forward
  <2>7. ASSUME NEW r \in Replicas, RecoverSwap(r) PROVE Forward(q)
    <3>1. /\ Recovering(r) /\ db' = [db EXCEPT ![r] = snap.store]
          /\ first' = [first EXCEPT ![r] = snap.store.index + 1]
      BY <2>7 DEF RecoverSwap
    <3>2. /\ disk[r] = snap.store /\ db[r].index < snap.store.index
          /\ first[r] <= disk[r].index + 1
      BY <1>1, <3>1 DEF IInv, Busy, ReplicaOK
    <3>3. snap.store.index \in Nat
      BY <1>1 DEF IInv, StoreOK, StoreType
    <3>4. CASE q = r
      <4>1. db'[q] = snap.store /\ first'[q] = snap.store.index + 1
        BY <2>1, <3>1, <3>4
      <4> QED
        BY <2>1, <3>2, <3>3, <3>4, <4>1 DEF Forward
    <3>5. CASE q # r
      <4>1. db'[q] = db[q] /\ first'[q] = first[q]
        BY <2>1, <3>1, <3>5
      <4> QED
        BY <2>1, <4>1 DEF Forward
    <3> QED
      BY <3>4, <3>5
  <2>8. ASSUME NEW r \in Replicas,
               \/ UpdateEntry(r) \/ Flush(r) \/ RecoverReplace(r)
               \/ LookupSnapshot(r)
               \/ \E to \in Replicas : PrepareSnapshot(r, to)
        PROVE  UNCHANGED <<first, db>>
    BY <2>8, Zenon DEF UpdateEntry, Flush, RecoverReplace, LookupSnapshot,
                PrepareSnapshot
  <2>9. ASSUME Propose \/ SaveSnapshot \/ SnapshotStopped \/ CommandSnapshot
        PROVE  UNCHANGED <<first, db>>
    BY <2>9, Zenon DEF Propose, SaveSnapshot, SnapshotStopped, CommandSnapshot
  <2>10. CASE UNCHANGED vars
    BY <2>2, <2>10 DEF vars
  <2>11. CASE Next
    BY <2>2, <2>3, <2>4, <2>5, <2>6, <2>7, <2>8, <2>9, <2>11 DEF Next
  <2> QED
    BY <1>1, <2>10, <2>11
<1>2. IInv /\ [Next]_vars => [\A r \in Replicas :
          /\ up[r] /\ up'[r] => db'[r].index >= db[r].index
          /\ first'[r] >= first[r]]_vars
  BY <1>1 DEF Forward
<1> QED
  BY <1>2, Invariance, PTL DEF Spec, IndexMonotonic
-----------------------------------------------------------------------------
(* Refinement.                                                             *)

(* What a replica shows.                                                   *)
Shown(r) == IF up[r] THEN db[r] ELSE disk[r]

(* The fields of a version.                                                *)
LEMMA ViewFields ==
  ASSUME NEW s
  PROVE  View(s).index = s.index /\ View(s).kv = s.kv
BY DEF View

(* The history is a sequence of contents, one more than commands.          *)
LEMMA HistoryFacts ==
  ASSUME IInv
  PROVE  /\ Len(log) \in Nat /\ History \in Seq(Contents)
         /\ Len(History) = Len(log) + 1
         /\ \A i \in 1..(Len(log) + 1) : History[i] = ref[i - 1].kv
<1>1. Len(log) \in Nat
  BY LenProperties DEF IInv, Funs
<1>2. \A i \in 1..(Len(log) + 1) : ref[i - 1].kv \in Contents
  <2>1. \A i \in 1..(Len(log) + 1) : i - 1 \in 0..Len(log)
    BY <1>1
  <2> QED
    BY <2>1 DEF IInv, RefOK
<1>3. History \in [1..(Len(log) + 1) -> Contents]
  BY <1>2 DEF History
<1>4. Len(log) + 1 \in Nat
  BY <1>1
<1>5. History \in Seq(Contents) /\ Len(History) = Len(log) + 1
  BY <1>3, <1>4
<1> QED
  BY <1>1, <1>5 DEF History

(* A store that is right is a version of the table.                        *)
LEMMA StoreIsVersion ==
  ASSUME IInv, NEW s, StoreOK(Len(log), ref, s)
  PROVE  /\ View(s) \in Table!Versions
         /\ View(s).index = s.index /\ s.index \in Nat
<1>1. Len(log) \in Nat /\ Len(History) - 1 = Len(log)
  BY HistoryFacts
<1>2. s.index \in 0..Len(log) /\ s.kv = ref[s.index].kv
  BY <1>1 DEF StoreOK, StoreType
<1>3. s.index + 1 \in 1..(Len(log) + 1) /\ (s.index + 1) - 1 = s.index
  BY <1>1, <1>2
<1>4. History[s.index + 1] = s.kv
  BY <1>2, <1>3, HistoryFacts
<1>5. View(s) = Table!Version(s.index)
  BY <1>4, Zenon DEF View, Table!Version
<1>6. View(s) \in Table!Versions
  BY <1>1, <1>2, <1>5, Zenon DEF Table!Versions
<1> QED
  BY <1>2, <1>6, ViewFields

(* What a replica shows and what it has on disk are versions, and the one  *)
(* on disk is ahead only in the middle of a recovery.                      *)
LEMMA ReplicaVersions ==
  ASSUME IInv, NEW r \in Replicas
  PROVE  /\ Visible[r] = View(Shown(r)) /\ Stable[r] = View(disk[r])
         /\ Visible[r].index = Shown(r).index /\ Shown(r).index \in Nat
         /\ Stable[r].index = disk[r].index /\ disk[r].index \in Nat
         /\ Table!Ahead(r) <=> Recovering(r)
<1>1. /\ StoreOK(Len(log), ref, db[r]) /\ StoreOK(Len(log), ref, disk[r])
      /\ Busy(r)
  BY DEF IInv, ReplicaOK
<1>2. Visible[r] = View(Shown(r)) /\ Stable[r] = View(disk[r])
  BY DEF Visible, Stable, Shown
<1>3. /\ View(disk[r]).index = disk[r].index /\ disk[r].index \in Nat
      /\ View(Shown(r)).index = Shown(r).index /\ Shown(r).index \in Nat
  BY <1>1, StoreIsVersion DEF Shown
<1>4. CASE Recovering(r)
  BY <1>1, <1>2, <1>3, <1>4 DEF Table!Ahead, Busy, Shown
<1>5. CASE ~Recovering(r)
  BY <1>1, <1>2, <1>3, <1>5 DEF Table!Ahead, Busy, Shown
<1> QED
  BY <1>2, <1>3, <1>4, <1>5
(* One replica shows another version.                                      *)
LEMMA VisibleMoves ==
  ASSUME NEW r \in Replicas, NEW s, Shown(r)' = s,
         \A q \in Replicas \ {r} : Shown(q)' = Shown(q)
  PROVE  Visible' = [Visible EXCEPT ![r] = View(s)]
BY DEF Visible, Shown

(* One replica has another version on disk.                                *)
LEMMA StableMoves ==
  ASSUME NEW r \in Replicas, NEW s, disk'[r] = s,
         \A q \in Replicas \ {r} : disk'[q] = disk[q]
  PROVE  Stable' = [Stable EXCEPT ![r] = View(s)]
BY DEF Stable

(* The initial state: everybody has the empty table.                       *)
LEMMA InitTable == Init => Table!Init
<1> SUFFICES ASSUME Init PROVE Table!Init
  OBVIOUS
<1>1. ref[0].kv = EmptyTable /\ Len(log) = 0
  BY ReferenceFields DEF Init
<1>2. History = <<EmptyTable>>
  BY <1>1 DEF History
<1>3. NewStore.kv = EmptyTable /\ NewStore.index = 0
  BY StoreFields DEF NewStore
<1>4. View(NewStore) = Table!Version(0)
  <2>1. History[0 + 1] = EmptyTable
    BY <1>2
  <2> QED
    BY <1>3, <2>1, Zenon DEF View, Table!Version
<1>5. \A r \in Replicas : up[r] /\ db[r] = NewStore /\ disk[r] = NewStore
  BY DEF Init
<1>6. /\ Visible = [r \in Replicas |-> Table!Version(0)]
      /\ Stable = [r \in Replicas |-> Table!Version(0)]
  BY <1>4, <1>5, Zenon DEF Visible, Stable
<1> QED
  BY <1>2, <1>6 DEF Init, Table!Init

(* A new command of the log adds a content to the history.                 *)
LEMMA ProposeTable ==
  ASSUME IInv, IInv', Propose
  PROVE  Table!Agree
<1> DEFINE n == Len(log)
<1>1. /\ n \in Nat /\ History \in Seq(Contents) /\ Len(History) = n + 1
      /\ \A i \in 1..(n + 1) : History[i] = ref[i - 1].kv
  BY HistoryFacts
<1>2. PICK new :
        /\ \E cmd \in Commands : log' = Append(log, cmd)
        /\ ref' = [i \in 0..(n + 1) |-> IF i <= n THEN ref[i] ELSE new]
  <2>1. PICK cmd \in Commands :
          LET h == Handle(Batch(ref[n].kv, FALSE, FALSE), cmd)
              leader == IF cmd.leaderIndex = None THEN ref[n].leader
                        ELSE cmd.leaderIndex
          IN /\ log' = Append(log, cmd)
             /\ ref' = [i \in 0..(n + 1) |->
                          IF i <= n THEN ref[i]
                          ELSE Reference(h.ctx.kv, leader, h.responses)]
    BY DEF Propose
  <2> DEFINE h == Handle(Batch(ref[n].kv, FALSE, FALSE), cmd)
             new == Reference(h.ctx.kv,
                              IF cmd.leaderIndex = None THEN ref[n].leader
                              ELSE cmd.leaderIndex, h.responses)
  <2>2. /\ log' = Append(log, cmd)
        /\ ref' = [i \in 0..(n + 1) |-> IF i <= n THEN ref[i] ELSE new]
    BY <2>1
  <2> HIDE DEF new
  <2> QED
    BY <2>2
<1>3. Len(log') = n + 1
  BY <1>2, AppendProperties DEF IInv, Funs
<1> HIDE DEF n
<1>4. (\A i \in 0..n : ref'[i] = ref[i]) /\ ref'[n + 1] = new
  BY <1>1, <1>2, RefGrows
<1>5. ref'[n + 1].kv \in Contents
  <2>1. n + 1 \in 0..(n + 1)
    BY <1>1
  <2> QED
    BY <1>3, <2>1, Zenon DEF IInv, RefOK
<1>6. History' = [i \in 1..((n + 1) + 1) |-> ref'[i - 1].kv]
  BY <1>3 DEF History
<1>7. \A i \in 1..(n + 1) : ref'[i - 1].kv = History[i]
  <2>1. \A i \in 1..(n + 1) : i - 1 \in 0..n
    BY <1>1
  <2> QED
    BY <1>1, <1>4, <2>1
<1>8. History' = Append(History, ref'[n + 1].kv)
  <2> DEFINE kv == ref'[n + 1].kv
  <2>1. Append(History, kv) =
          [i \in 1..((n + 1) + 1) |-> IF i \in 1..(n + 1) THEN History[i] ELSE kv]
    <3> HIDE DEF kv
    <3> QED
      BY <1>1, <1>5 DEF kv
  <2>2. ASSUME NEW i \in 1..((n + 1) + 1)
        PROVE  ref'[i - 1].kv = IF i \in 1..(n + 1) THEN History[i] ELSE kv
    <3>1. i \notin 1..(n + 1) => i - 1 = n + 1
      BY <1>1
    <3> QED
      BY <1>7, <3>1
  <2> QED
    BY <1>6, <2>1, <2>2, Zenon
<1>9. UNCHANGED <<Visible, Stable, first>>
  BY DEF Propose, Visible, Stable
<1> QED
  BY <1>5, <1>8, <1>9 DEF Table!Agree
(* The commit of an update's batch shows the version after it.             *)
LEMMA CommitTable ==
  ASSUME IInv, IInv', NEW r \in Replicas, UpdateCommit(r)
  PROVE  Table!Advance(r)
<1>1. /\ ctx[r].open /\ UNCHANGED <<log, ref, first, up, disk>>
      /\ \A q \in Replicas \ {r} : db'[q] = db[q]
  BY DEF UpdateCommit, IInv, Funs
<1>2. up[r] /\ ~Recovering(r)
  BY <1>1 DEF IInv, Funs, Busy
<1>3. Shown(r)' = db'[r] /\ Shown(r) = db[r]
  BY <1>1, <1>2 DEF Shown
<1>4. StoreOK(Len(log), ref, db'[r])
  BY <1>1 DEF IInv, ReplicaOK
<1>5. /\ View(db'[r]) \in Table!Versions /\ View(db'[r]).index = db'[r].index
  BY <1>4, StoreIsVersion
<1>6. db'[r].index >= db[r].index
  <2>1. PICK leader : db' = [db EXCEPT ![r] = Store(ctx[r].kv, ctx[r].index, leader)]
    BY Zenon DEF UpdateCommit
  <2>2. db'[r].index = ctx[r].index
    BY <2>1, StoreFields DEF IInv, Funs
  <2>3. ctx[r].index \in Nat /\ db[r].index <= ctx[r].index /\ db[r].index \in Nat
    BY <1>1 DEF IInv, ReplicaOK, ContextOK, StoreOK, StoreType
  <2> QED
    BY <2>2, <2>3
<1>7. Visible' = [Visible EXCEPT ![r] = View(db'[r])]
  BY <1>1, <1>3, VisibleMoves DEF Shown
<1>8. UNCHANGED <<History, Stable, first>>
  BY <1>1 DEF History, Stable
<1>9. ~Table!Ahead(r) /\ Visible[r].index = db[r].index
  BY <1>2, <1>3, ReplicaVersions
<1> QED
  BY <1>5, <1>6, <1>7, <1>8, <1>9 DEF Table!Advance

(* What is flushed becomes stable; entries that it holds may be discarded. *)
LEMMA FlushTable ==
  ASSUME IInv, NEW r \in Replicas, up[r], ~Recovering(r),
         disk' = [disk EXCEPT ![r] = db[r]],
         NEW to \in first[r]..(db[r].index + 1),
         first' = [first EXCEPT ![r] = to],
         UNCHANGED <<log, ref>>,
         Shown(r)' = db[r], \A q \in Replicas \ {r} : Shown(q)' = Shown(q)
  PROVE  Table!Persist(r)
<1>1. Shown(r) = db[r]
  BY DEF Shown
<1>2. ~Table!Ahead(r) /\ Visible[r] = View(db[r]) /\ Visible[r].index = db[r].index
  BY <1>1, ReplicaVersions
<1>3. /\ disk'[r] = db[r] /\ \A q \in Replicas \ {r} : disk'[q] = disk[q]
  BY DEF IInv, Funs
<1>4. Stable' = [Stable EXCEPT ![r] = Visible[r]]
  BY <1>2, <1>3, StableMoves
<1>5. History' = History
  BY DEF History
<1>6. Visible' = Visible
  <2>1. \A q \in Replicas : Shown(q)' = Shown(q)
    BY <1>1
  <2> QED
    BY <2>1 DEF Visible, Shown
<1> QED
  BY <1>2, <1>4, <1>5, <1>6, Zenon DEF Table!Persist

(* A replica that goes down is taken back to what is stable.               *)
LEMMA CrashTable ==
  ASSUME IInv, NEW r \in Replicas, Crash(r) \/ UpdatePanic(r)
  PROVE  Table!Crash(r)
<1>1. /\ up' = [up EXCEPT ![r] = FALSE] /\ db' = [db EXCEPT ![r] = NewStore]
      /\ UNCHANGED <<log, ref, first, disk>>
  BY DEF Crash, UpdatePanic, Down
<1>2. /\ Shown(r)' = disk[r] /\ \A q \in Replicas \ {r} : Shown(q)' = Shown(q)
  BY <1>1 DEF IInv, Funs, Shown
<1>3. Visible' = [Visible EXCEPT ![r] = View(disk[r])]
  BY <1>2, VisibleMoves
<1>4. UNCHANGED <<History, Stable, first>> /\ Stable[r] = View(disk[r])
  BY <1>1 DEF History, Stable
<1> QED
  BY <1>3, <1>4 DEF Table!Crash
(* Flush, Sync and Close, and the flush of a checkpoint.                   *)
LEMMA PersistTable ==
  ASSUME IInv, NEW r \in Replicas,
         \/ Flush(r) \/ Sync(r) \/ Close(r)
         \/ Checkpoint /\ \E to \in Replicas : PrepareSnapshot(r, to)
  PROVE  Table!Persist(r)
<1>1. /\ up[r] /\ ~Recovering(r) /\ disk' = [disk EXCEPT ![r] = db[r]]
      /\ UNCHANGED <<log, ref>>
  BY DEF Flush, Sync, Close, PrepareSnapshot, Recovering
<1>2. first[r] \in first[r]..(db[r].index + 1)
  BY <1>1, FlushedOK DEF IInv, Funs
<1>3. PICK to \in first[r]..(db[r].index + 1) : first' = [first EXCEPT ![r] = to]
  <2>1. CASE Sync(r)
    BY <2>1, Zenon DEF Sync
  <2>2. CASE ~Sync(r)
    <3>1. first' = first
      BY <2>2, Zenon DEF Flush, Close, PrepareSnapshot
    <3>2. first' = [first EXCEPT ![r] = first[r]]
      BY <3>1 DEF IInv, Funs
    <3> QED
      BY <1>2, <3>2, Zenon
  <2> QED
    BY <2>1, <2>2
<1>4. \/ UNCHANGED <<up, db>>
      \/ up' = [up EXCEPT ![r] = FALSE] /\ db' = [db EXCEPT ![r] = NewStore]
  BY Zenon DEF Flush, Sync, Close, Down, PrepareSnapshot
<1>5. Shown(r)' = db[r] /\ \A q \in Replicas \ {r} : Shown(q)' = Shown(q)
  BY <1>1, <1>4 DEF IInv, Funs, Shown
<1> QED
  BY <1>1, <1>3, <1>5, FlushTable, Zenon

(* The switch to the directory of a snapshot replaces what is stable.      *)
LEMMA ReplaceTable ==
  ASSUME IInv, NEW r \in Replicas, RecoverReplace(r)
  PROVE  Table!Replace(r)
<1>1. /\ snap.pc = "arrived" /\ snap.to = r /\ db[r].index < snap.store.index
      /\ disk' = [disk EXCEPT ![r] = snap.store]
      /\ UNCHANGED <<log, ref, first, up, db>>
  BY DEF RecoverReplace
<1>2. up[r] /\ ~Recovering(r) /\ StoreOK(Len(log), ref, snap.store)
  BY <1>1 DEF IInv, Busy, Recovering
<1>3. View(snap.store) \in Table!Versions /\ View(snap.store).index = snap.store.index
      /\ snap.store.index \in Nat
  BY <1>2, StoreIsVersion
<1>4. ~Table!Ahead(r) /\ Visible[r].index = db[r].index /\ db[r].index \in Nat
  BY <1>2, ReplicaVersions DEF Shown
<1>5. disk'[r] = snap.store /\ \A q \in Replicas \ {r} : disk'[q] = disk[q]
  BY <1>1 DEF IInv, Funs
<1>6. Stable' = [Stable EXCEPT ![r] = View(snap.store)]
  BY <1>5, StableMoves
<1>7. \A q \in Replicas : Shown(q)' = Shown(q)
  BY <1>1, <1>2, <1>5 DEF Shown
<1>8. UNCHANGED <<History, Visible, first>>
  BY <1>1, <1>7 DEF History, Visible, Shown
<1>9. View(snap.store).index > Visible[r].index
  BY <1>1, <1>3, <1>4
<1> QED
  BY <1>3, <1>4, <1>6, <1>8, <1>9, Zenon DEF Table!Replace

(* The swap of the databases shows what is stable already.                 *)
LEMMA SwapTable ==
  ASSUME IInv, NEW r \in Replicas, RecoverSwap(r)
  PROVE  Table!Settle(r)
<1>1. /\ Recovering(r) /\ db' = [db EXCEPT ![r] = snap.store]
      /\ first' = [first EXCEPT ![r] = snap.store.index + 1]
      /\ UNCHANGED <<log, ref, up, disk>>
  BY DEF RecoverSwap
<1>2. up[r] /\ disk[r] = snap.store
  BY <1>1 DEF IInv, Busy
<1>3. Table!Ahead(r) /\ Stable[r] = View(disk[r]) /\ Stable[r].index = disk[r].index
  BY <1>1, ReplicaVersions
<1>4. Shown(r)' = disk[r] /\ \A q \in Replicas \ {r} : Shown(q)' = Shown(q)
  BY <1>1, <1>2 DEF IInv, Funs, Shown
<1>5. Visible' = [Visible EXCEPT ![r] = Stable[r]]
  BY <1>3, <1>4, VisibleMoves
<1>6. UNCHANGED <<History, Stable>>
  BY <1>1 DEF History, Stable
<1>7. first' = [first EXCEPT ![r] = Stable[r].index + 1]
  BY <1>1, <1>2, <1>3
<1> QED
  BY <1>3, <1>5, <1>6, <1>7, Zenon DEF Table!Settle

(* Every step of the replicas is a step of the table, or none.             *)
LEMMA NextTable ==
  ASSUME IInv, IInv', [Next]_vars
  PROVE  [Table!Next]_(Table!vars)
<1>1. ASSUME UNCHANGED <<log, ref, up, db, disk, first>>
      PROVE  UNCHANGED Table!vars
  BY <1>1 DEF Table!vars, History, Visible, Stable
<1>2. CASE Propose
  BY <1>2, ProposeTable DEF Table!Next
<1>3. CASE SaveSnapshot \/ SnapshotStopped \/ CommandSnapshot \/ UNCHANGED vars
  BY <1>1, <1>3, Zenon DEF SaveSnapshot, SnapshotStopped, CommandSnapshot, vars
<1>4. ASSUME NEW r \in Replicas, UpdateEntry(r) \/ LookupSnapshot(r)
      PROVE  UNCHANGED Table!vars
  BY <1>1, <1>4, Zenon DEF UpdateEntry, LookupSnapshot
<1>5. ASSUME NEW r \in Replicas, UpdateCommit(r) PROVE Table!Next
  BY <1>5, CommitTable DEF Table!Next
<1>6. ASSUME NEW r \in Replicas, Crash(r) \/ UpdatePanic(r) PROVE Table!Next
  BY <1>6, CrashTable DEF Table!Next
<1>7. ASSUME NEW r \in Replicas, Open(r) PROVE UNCHANGED Table!vars
  <2>1. /\ ~up[r] /\ up' = [up EXCEPT ![r] = TRUE]
        /\ db' = [db EXCEPT ![r] = disk[r]] /\ UNCHANGED <<log, ref, first, disk>>
    BY <1>7 DEF Open
  <2>2. \A q \in Replicas : Shown(q)' = Shown(q)
    BY <2>1 DEF IInv, Funs, Shown
  <2> QED
    BY <2>1, <2>2 DEF Table!vars, History, Visible, Stable, Shown
<1>8. ASSUME NEW r \in Replicas, Flush(r) \/ Sync(r) \/ Close(r)
      PROVE  Table!Next
  BY <1>8, PersistTable DEF Table!Next
<1>9. ASSUME NEW r \in Replicas, NEW to \in Replicas, PrepareSnapshot(r, to)
      PROVE  [Table!Next]_(Table!vars)
  <2>1. CASE Checkpoint
    BY <1>9, <2>1, PersistTable DEF Table!Next
  <2>2. CASE ~Checkpoint
    BY <1>1, <1>9, <2>2 DEF PrepareSnapshot
  <2> QED
    BY <2>1, <2>2
<1>10. ASSUME NEW r \in Replicas, RecoverReplace(r) PROVE Table!Next
  BY <1>10, ReplaceTable DEF Table!Next
<1>11. ASSUME NEW r \in Replicas, RecoverSwap(r) PROVE Table!Next
  BY <1>11, SwapTable DEF Table!Next
<1> QED
  BY <1>2, <1>3, <1>4, <1>5, <1>6, <1>7, <1>8, <1>9, <1>10, <1>11, Zenon DEF Next

(* The replicas implement the table: whatever parts an update, a flush, a  *)
(* snapshot and a recovery have, readers and crashes find whole versions,  *)
(* and neither goes back to an older one than it may.                      *)
THEOREM ImplementsTable == Spec => TableReplicated
<1>1. IInv /\ IInv' /\ [Next]_vars => [Table!Next]_(Table!vars)
  BY NextTable
<1> QED
  BY <1>1, InitTable, Invariance, PTL DEF Spec, TableReplicated, Table!Spec
=============================================================================
