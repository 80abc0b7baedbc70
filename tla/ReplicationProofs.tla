-------------------------- MODULE ReplicationProofs --------------------------
(***************************************************************************)
(* Proofs about Replication: for any number of nodes, any leader log and   *)
(* any number of shards, commands and timeouts.                            *)
(***************************************************************************)
EXTENDS Replication, SequenceTheorems, TLAPS

(* The provers, in this order, and their time limits in seconds.           *)
USE ZenonT(5), SMTT(30)

Pcs == {"idle", "do", "proposing", "committed", "recover"}

WorkerType == [pc : Pcs, gen : Nat, next : Nat \ {0}, end : Nat, run : Runs,
               at : Nat]

(* Sequence t extends s.                                                   *)
Ext(s, t) ==
    /\ Len(s) <= Len(t)
    /\ \A q \in 1..Len(s) : t[q] = s[q]

(* Every index that shard s has claimed is covered, and at most l.         *)
ShardOK(s, l) ==
    /\ s \in Seq(Runs)
    /\ \A p \in 1..Len(s) :
         /\ s[p].hi <= l
         /\ \A e \in 1..s[p].hi : \E q \in 1..p : s[q].lo <= e /\ e <= s[q].hi

(* Index i was the leader index of shard s at some time, so that i + 1 may *)
(* be applied.                                                             *)
Reached(s, i) == i = 0 \/ \E q \in 1..Len(s) : s[q].hi = i

(* A worker goes on from an index its shard has reached.                   *)
WorkerOK(w, sh, gs, l) ==
    /\ w \in WorkerType
    /\ w.gen \in 1..gs
    /\ w.pc # "idle" => w.end <= l /\ Reached(sh[w.gen], w.next - 1)
    /\ w.pc = "proposing" => w.run.lo = w.next /\ w.run.hi <= l
    /\ w.pc = "committed" => Reached(sh[w.gen], w.run.hi)
    /\ w.pc = "recover" => w.run.lo = 1 /\ w.run.hi <= l

LateOK(m, sh, gs, l) ==
    /\ m \in [id : Nat, gen : Nat, run : Runs]
    /\ m.gen \in 1..gs
    /\ m.run.hi <= l
    /\ Reached(sh[m.gen], m.run.lo - 1)

Numbers ==
    /\ leader \in Nat /\ first \in 1..(leader + 1)
    /\ gens \in Gens /\ table \in 1..gens /\ timeouts \in Nat

Funs ==
    /\ shard \in [Gens -> Seq(Runs)]
    /\ cache \in [Nodes -> 1..gens]
    /\ pos \in [Nodes -> [Gens -> Nat]]
    /\ worker \in [Nodes -> WorkerType]

IInv ==
    /\ Numbers
    /\ Funs
    /\ \A g \in Gens : ShardOK(shard[g], leader)
    /\ \A g \in Gens : g > gens => shard[g] = <<>>
    /\ \A n \in Nodes, g \in Gens : pos[n][g] <= Len(shard[g])
    /\ \A n \in Nodes : WorkerOK(worker[n], shard, gens, leader)
    /\ \A m \in late : LateOK(m, shard, gens, leader)

-----------------------------------------------------------------------------
(* Fields of the records.                                                  *)

(* The fields of a run of commands as proposeBatch proposes it.            *)
LEMMA RunFields ==
  ASSUME NEW r, NEW lo, NEW hi, r = Run(lo, hi)
  PROVE  r.lo = lo /\ r.hi = hi
<1>1. r = [lo |-> lo, hi |-> hi]
  BY DEF Run
<1> QED
  BY ONLY <1>1

(* A run from its ends.                                                    *)
LEMMA RunInRuns ==
  ASSUME NEW lo \in Nat \ {0}, NEW hi \in Nat
  PROVE  Run(lo, hi) \in Runs
BY DEF Run, Runs

(* The empty run of a reset, and of a worker that proposes nothing.        *)
LEMMA NoRunFields == NoRun \in Runs /\ NoRun.lo = 1 /\ NoRun.hi = 0
BY RunFields, RunInRuns DEF NoRun

(* The fields of a worker's state.                                         *)
LEMMA WorkerFields ==
  ASSUME NEW w, NEW pc, NEW gen, NEW next, NEW end, NEW run, NEW at,
         w = Worker(pc, gen, next, end, run, at)
  PROVE  /\ w.pc = pc /\ w.gen = gen /\ w.next = next /\ w.end = end
         /\ w.run = run /\ w.at = at
<1>1. w = [pc |-> pc, gen |-> gen, next |-> next, end |-> end, run |-> run,
           at |-> at]
  BY DEF Worker
<1> QED
  BY ONLY <1>1

(* A worker from its parts.                                                *)
LEMMA WorkerInType ==
  ASSUME NEW pc \in Pcs, NEW gen \in Nat, NEW next \in Nat \ {0}, NEW end \in Nat,
         NEW run \in Runs, NEW at \in Nat
  PROVE  Worker(pc, gen, next, end, run, at) \in WorkerType
BY DEF Worker, WorkerType

(* The fields of a proposal.                                               *)
LEMMA ProposalFields ==
  ASSUME NEW m, NEW id, NEW gen, NEW run, m = Proposal(id, gen, run)
  PROVE  m.id = id /\ m.gen = gen /\ m.run = run
<1>1. m = [id |-> id, gen |-> gen, run |-> run]
  BY DEF Proposal
<1> QED
  BY ONLY <1>1

-----------------------------------------------------------------------------
(* Shards.                                                                 *)

(* What was reached stays reached.                                         *)
LEMMA ReachedGrows ==
  ASSUME NEW s \in Seq(Runs), NEW t \in Seq(Runs), Ext(s, t), NEW i, Reached(s, i)
  PROVE  Reached(t, i)
<1>1. CASE i = 0
  BY <1>1 DEF Reached
<1>2. ASSUME NEW q \in 1..Len(s), s[q].hi = i PROVE Reached(t, i)
  <2>1. Len(s) \in Nat /\ Len(t) \in Nat
    BY LenProperties
  <2>2. q \in 1..Len(t) /\ t[q] = s[q]
    BY <2>1 DEF Ext
  <2> QED
    BY <1>2, <2>2 DEF Reached
<1> QED
  BY <1>1, <1>2 DEF Reached

(* A command that starts right after an index that was reached, and ends   *)
(* within the leader's log, keeps the shard covered.                       *)
LEMMA AppendOK ==
  ASSUME NEW l \in Nat, NEW s, ShardOK(s, l), NEW r \in Runs, r.hi <= l,
         Reached(s, r.lo - 1)
  PROVE  /\ ShardOK(Append(s, r), l) /\ Ext(s, Append(s, r))
         /\ Reached(Append(s, r), r.hi) /\ Len(Append(s, r)) = Len(s) + 1
<1> DEFINE t == Append(s, r)
           n == Len(s)
<1>1. s \in Seq(Runs) /\ n \in Nat
  BY LenProperties DEF ShardOK
<1>2. /\ t \in Seq(Runs) /\ Len(t) = n + 1 /\ t[n + 1] = r
      /\ \A q \in 1..n : t[q] = s[q]
  BY <1>1, AppendProperties
<1>3. r.lo \in Nat \ {0} /\ r.hi \in Nat
  BY DEF Runs
<1> HIDE DEF t
<1>4. ASSUME NEW p \in 1..n
      PROVE  /\ t[p].hi <= l
             /\ \A e \in 1..t[p].hi : \E q \in 1..p : t[q].lo <= e /\ e <= t[q].hi
  <2>1. /\ s[p].hi <= l
        /\ \A e \in 1..s[p].hi : \E q \in 1..p : s[q].lo <= e /\ e <= s[q].hi
    BY DEF ShardOK
  <2>2. \A q \in 1..p : q \in 1..n
    BY <1>1
  <2> QED
    BY <1>2, <2>1, <2>2
<1>5. ASSUME NEW e \in 1..r.hi
      PROVE  \E q \in 1..(n + 1) : t[q].lo <= e /\ e <= t[q].hi
  <2>1. CASE r.lo <= e
    <3>1. n + 1 \in 1..(n + 1) /\ t[n + 1].lo <= e /\ e <= t[n + 1].hi
      BY <1>1, <1>2, <1>3, <2>1
    <3> QED
      BY <3>1
  <2>2. CASE e <= r.lo - 1
    <3>1. PICK q \in 1..n : s[q].hi = r.lo - 1
      BY <1>3, <2>2 DEF Reached
    <3>2. e \in 1..s[q].hi
      BY <1>3, <2>2, <3>1
    <3>3. PICK k \in 1..q : s[k].lo <= e /\ e <= s[k].hi
      BY <3>2 DEF ShardOK
    <3>4. k \in 1..n /\ k \in 1..(n + 1)
      BY <1>1
    <3> QED
      BY <1>2, <3>3, <3>4
  <2> QED
    BY <1>3, <2>1, <2>2
<1>6. ShardOK(t, l)
  <2>1. ASSUME NEW p \in 1..(n + 1)
        PROVE  /\ t[p].hi <= l
               /\ \A e \in 1..t[p].hi :
                    \E q \in 1..p : t[q].lo <= e /\ e <= t[q].hi
    <3>1. p = n + 1 \/ p \in 1..n
      BY <1>1
    <3> QED
      BY <1>2, <1>4, <1>5, <3>1
  <2> QED
    BY <1>2, <2>1 DEF ShardOK
<1>7. Ext(s, t)
  BY <1>1, <1>2 DEF Ext
<1>8. Reached(t, r.hi)
  <2>1. n + 1 \in 1..Len(t)
    BY <1>1, <1>2
  <2> QED
    BY <1>2, <2>1 DEF Reached
<1> QED
  BY <1>2, <1>6, <1>7, <1>8 DEF t

(* A shard that starts with a snapshot of the leader.                      *)
LEMMA SnapshotOK ==
  ASSUME NEW l \in Nat, NEW r \in Runs, r.lo = 1, r.hi <= l
  PROVE  ShardOK(<<r>>, l) /\ Len(<<r>>) = 1
<1>1. ShardOK(<<>>, l) /\ Reached(<<>>, 0)
  BY EmptySeq DEF ShardOK, Reached
<1>2. Append(<<>>, r) = <<r>> /\ Len(<<r>>) = 1
  OBVIOUS
<1>3. Reached(<<>>, r.lo - 1)
  BY <1>1
<1>4. ShardOK(Append(<<>>, r), l)
  BY <1>1, <1>3, AppendOK, Zenon
<1> QED
  BY <1>2, <1>4

-----------------------------------------------------------------------------
(* Workers and late proposals when shards and leader grow.                 *)

(* A shard that exists goes on existing.                                   *)
LEMMA GenGrows ==
  ASSUME NEW gs \in Gens, NEW hs \in Gens, gs <= hs, NEW g \in 1..gs
  PROVE  g \in 1..hs /\ g \in Gens
BY ReplicationAssumption DEF Gens

(* What is known of a worker stays true when the logs of the shards only   *)
(* grow.                                                                   *)
LEMMA WorkerGrows ==
  ASSUME NEW sh \in [Gens -> Seq(Runs)], NEW th \in [Gens -> Seq(Runs)],
         NEW gs \in Gens, NEW hs \in Gens, gs <= hs,
         NEW l \in Nat, NEW k \in Nat, l <= k,
         \A g \in 1..gs : Ext(sh[g], th[g]),
         NEW w, WorkerOK(w, sh, gs, l)
  PROVE  WorkerOK(w, th, hs, k)
<1>1. /\ w \in WorkerType /\ w.gen \in 1..gs
      /\ w.end \in Nat /\ w.run.hi \in Nat
  BY DEF WorkerOK, WorkerType, Runs
<1>2. w.gen \in 1..hs /\ w.gen \in Gens
  BY <1>1, GenGrows
<1>3. \A i : Reached(sh[w.gen], i) => Reached(th[w.gen], i)
  BY <1>1, <1>2, ReachedGrows
<1> QED
  BY <1>1, <1>2, <1>3 DEF WorkerOK

(* What is known of a proposal whose author gave up stays true when the    *)
(* logs of the shards only grow.                                           *)
LEMMA LateGrows ==
  ASSUME NEW sh \in [Gens -> Seq(Runs)], NEW th \in [Gens -> Seq(Runs)],
         NEW gs \in Gens, NEW hs \in Gens, gs <= hs,
         NEW l \in Nat, NEW k \in Nat, l <= k,
         \A g \in 1..gs : Ext(sh[g], th[g]),
         NEW m, LateOK(m, sh, gs, l)
  PROVE  LateOK(m, th, hs, k)
<1>1. /\ m \in [id : Nat, gen : Nat, run : Runs] /\ m.gen \in 1..gs
      /\ m.run.hi \in Nat
  BY DEF LateOK, Runs
<1>2. m.gen \in 1..hs /\ m.gen \in Gens
  BY <1>1, GenGrows
<1>3. Reached(th[m.gen], m.run.lo - 1)
  BY <1>1, <1>2, ReachedGrows DEF LateOK
<1> QED
  BY <1>1, <1>2, <1>3 DEF LateOK

(* A shard stays covered when the leader's log grows.                      *)
LEMMA ShardGrows ==
  ASSUME NEW l \in Nat, NEW k \in Nat, l <= k, NEW s, ShardOK(s, l)
  PROVE  ShardOK(s, k)
<1>1. \A p \in 1..Len(s) : s[p] \in Runs
  BY ElementOfSeq DEF ShardOK
<1>2. \A p \in 1..Len(s) : s[p].hi \in Nat
  BY <1>1 DEF Runs
<1> QED
  BY <1>2 DEF ShardOK

(* What a step has to show.                                                *)
LEMMA Preserved ==
  ASSUME IInv, Numbers', Funs', leader <= leader', gens <= gens',
         \A g \in 1..gens : Ext(shard[g], shard'[g]),
         \A g \in Gens : ShardOK(shard'[g], leader'),
         \A g \in Gens : g > gens' => shard'[g] = <<>>,
         \A n \in Nodes, g \in Gens : pos'[n][g] <= Len(shard'[g]),
         \A n \in Nodes : \/ worker'[n] = worker[n]
                          \/ WorkerOK(worker'[n], shard', gens', leader'),
         \A m \in late' : m \in late \/ LateOK(m, shard', gens', leader')
  PROVE  IInv'
<1>1. /\ shard \in [Gens -> Seq(Runs)] /\ shard' \in [Gens -> Seq(Runs)]
      /\ gens \in Gens /\ gens' \in Gens /\ leader \in Nat /\ leader' \in Nat
  BY DEF IInv, Numbers, Funs
<1>2. ASSUME NEW n \in Nodes PROVE WorkerOK(worker'[n], shard', gens', leader')
  <2>1. WorkerOK(worker[n], shard, gens, leader)
    BY DEF IInv
  <2>2. WorkerOK(worker[n], shard', gens', leader')
    BY <1>1, <2>1, WorkerGrows, Zenon
  <2> QED
    BY <2>2
<1>3. ASSUME NEW m \in late' PROVE LateOK(m, shard', gens', leader')
  <2>1. CASE m \in late
    <3>1. LateOK(m, shard, gens, leader)
      BY <2>1 DEF IInv
    <3> QED
      BY <1>1, <3>1, LateGrows, Zenon
  <2> QED
    BY <2>1
<1> QED
  BY <1>2, <1>3 DEF IInv

(* A sequence extends itself.                                              *)
LEMMA ExtSelf == \A g \in Gens : IInv => Ext(shard[g], shard[g])
BY LenProperties DEF IInv, Funs, Ext

(* A step that leaves shards, leader and table alone.                      *)
LEMMA WorkersOnly ==
  ASSUME IInv, UNCHANGED <<leader, shard, gens, table>>,
         first' \in 1..(leader + 1), timeouts' \in Nat,
         cache' \in [Nodes -> 1..gens], pos' \in [Nodes -> [Gens -> Nat]],
         \A n \in Nodes, g \in Gens : pos'[n][g] <= Len(shard[g]),
         worker' \in [Nodes -> WorkerType],
         \A n \in Nodes : \/ worker'[n] = worker[n]
                          \/ WorkerOK(worker'[n], shard, gens, leader),
         \A m \in late' : m \in late \/ LateOK(m, shard, gens, leader)
  PROVE  IInv'
<1>1. Numbers' /\ Funs'
  BY DEF IInv, Numbers, Funs
<1>2. leader <= leader' /\ gens <= gens' /\ \A g \in 1..gens : g \in Gens
  BY ReplicationAssumption DEF IInv, Numbers, Gens
<1>3. \A g \in 1..gens : Ext(shard[g], shard'[g])
  BY <1>2, ExtSelf
<1>4. /\ \A g \in Gens : ShardOK(shard'[g], leader')
      /\ \A g \in Gens : g > gens' => shard'[g] = <<>>
  BY DEF IInv
<1> QED
  BY <1>1, <1>2, <1>3, <1>4, Preserved

(* A step in which only the worker of n changes.                           *)
LEMMA OneWorker ==
  ASSUME IInv, NEW n \in Nodes, NEW w, WorkerOK(w, shard, gens, leader),
         worker' = [worker EXCEPT ![n] = w],
         UNCHANGED <<leader, first, shard, gens, table, cache, pos, late, timeouts>>
  PROVE  IInv'
<1>1. w \in WorkerType
  BY DEF WorkerOK
<1>2. /\ worker' \in [Nodes -> WorkerType]
      /\ \A k \in Nodes : \/ worker'[k] = worker[k]
                          \/ WorkerOK(worker'[k], shard, gens, leader)
  BY <1>1 DEF IInv, Funs
<1>3. /\ first' \in 1..(leader + 1) /\ timeouts' \in Nat
      /\ cache' \in [Nodes -> 1..gens] /\ pos' \in [Nodes -> [Gens -> Nat]]
      /\ \A k \in Nodes, g \in Gens : pos'[k][g] <= Len(shard[g])
  BY DEF IInv, Numbers, Funs
<1> QED
  BY <1>2, <1>3, WorkersOnly

(* An idle worker is fine.                                                 *)
LEMMA IdleOK ==
  ASSUME NEW sh, NEW gs \in Gens, NEW l
  PROVE  WorkerOK(Idle, sh, gs, l)
<1>1. Idle.pc = "idle" /\ Idle.gen = 1
  BY WorkerFields DEF Idle
<1>2. Idle \in WorkerType
  BY WorkerInType, NoRunFields DEF Idle, Pcs
<1>3. 1 \in 1..gs
  BY DEF Gens
<1> QED
  BY <1>1, <1>2, <1>3 DEF WorkerOK

(* A step that commits the command r to the shard g.                       *)
LEMMA Appended ==
  ASSUME IInv, NEW g \in 1..gens, NEW r \in Runs, r.hi <= leader,
         Reached(shard[g], r.lo - 1), AppendTo(g, r),
         UNCHANGED <<leader, first, gens, table, cache, pos, timeouts>>,
         worker' \in [Nodes -> WorkerType],
         \A n \in Nodes : \/ worker'[n] = worker[n]
                          \/ WorkerOK(worker'[n], shard', gens, leader),
         late' \subseteq late
  PROVE  IInv'
<1>1. /\ shard \in [Gens -> Seq(Runs)] /\ leader \in Nat /\ gens \in Gens
      /\ \A h \in 1..gens : h \in Gens
  BY ReplicationAssumption DEF IInv, Funs, Numbers, Gens
<1>2. g \in Gens /\ ShardOK(shard[g], leader)
  BY <1>1 DEF IInv
<1>3. /\ ShardOK(Append(shard[g], r), leader) /\ Ext(shard[g], Append(shard[g], r))
      /\ Len(Append(shard[g], r)) = Len(shard[g]) + 1
  BY <1>1, <1>2, AppendOK
<1>4. /\ shard'[g] = Append(shard[g], r)
      /\ \A h \in Gens : h # g => shard'[h] = shard[h]
      /\ DOMAIN shard' = Gens /\ shard' = [h \in Gens |-> shard'[h]]
  BY <1>1, <1>2, Zenon DEF AppendTo
<1>5. \A h \in Gens : ShardOK(shard'[h], leader')
  BY <1>3, <1>4, Zenon DEF IInv
<1>6. shard' \in [Gens -> Seq(Runs)]
  BY <1>4, <1>5 DEF ShardOK
<1>7. \A h \in 1..gens : Ext(shard[h], shard'[h])
  BY <1>1, <1>3, <1>4, ExtSelf, Zenon
<1>8. \A h \in Gens : h > gens' => shard'[h] = <<>>
  <2>1. \A h \in Gens : h > gens => h # g
    BY <1>1 DEF Gens
  <2> QED
    BY <1>4, <2>1 DEF IInv
<1>9. \A n \in Nodes, h \in Gens : pos'[n][h] <= Len(shard'[h])
  <2> SUFFICES ASSUME NEW n \in Nodes, NEW h \in Gens
               PROVE  pos[n][h] <= Len(shard'[h])
    OBVIOUS
  <2>1. /\ pos[n][h] <= Len(shard[h]) /\ pos[n][h] \in Nat
        /\ Len(shard[h]) \in Nat
    BY <1>1, LenProperties DEF IInv, Funs
  <2> QED
    BY <1>3, <1>4, <2>1
<1>10. Numbers' /\ Funs' /\ leader <= leader' /\ gens <= gens'
  BY <1>1, <1>6 DEF IInv, Numbers, Funs, Gens
<1>11. /\ \A n \in Nodes : \/ worker'[n] = worker[n]
                          \/ WorkerOK(worker'[n], shard', gens', leader')
       /\ \A m \in late' : m \in late
  OBVIOUS
<1> QED
  BY <1>5, <1>7, <1>8, <1>9, <1>10, <1>11, Preserved

-----------------------------------------------------------------------------
(* The invariant holds initially.                                          *)
LEMMA InitIInv == Init => IInv
<1> SUFFICES ASSUME Init PROVE IInv
  OBVIOUS
<1>1. leader = 0 /\ gens = 1 /\ 1 \in Gens
  BY ReplicationAssumption DEF Init, Gens
<1>2. Numbers
  BY <1>1 DEF Init, Numbers
<1>3. WorkerOK(Idle, shard, gens, leader)
  BY <1>1, IdleOK
<1>4. <<>> \in Seq(Runs) /\ Len(<<>>) = 0 /\ ShardOK(<<>>, 0)
  BY EmptySeq DEF ShardOK
<1>5. shard \in [Gens -> Seq(Runs)] /\ worker \in [Nodes -> WorkerType]
  BY <1>3, <1>4 DEF Init, WorkerOK
<1>6. Funs
  BY <1>1, <1>5 DEF Init, Funs
<1> QED
  BY <1>1, <1>2, <1>3, <1>4, <1>6 DEF Init, IInv

(* The leader's log grows.                                                 *)
LEMMA LeaderAppendStep == IInv /\ LeaderAppend => IInv'
<1> SUFFICES ASSUME IInv, LeaderAppend PROVE IInv'
  OBVIOUS
<1>1. /\ leader \in Nat /\ leader' = leader + 1 /\ leader' \in Nat
      /\ leader <= leader' /\ gens \in Nat /\ gens <= gens'
      /\ UNCHANGED <<first, shard, gens, table, cache, pos, worker, late, timeouts>>
  BY DEF IInv, Numbers, LeaderAppend, Gens
<1>2. Numbers' /\ Funs'
  BY <1>1 DEF IInv, Numbers, Funs
<1>3. /\ \A g \in 1..gens : g \in Gens
      /\ \A g \in Gens : ShardOK(shard[g], leader)
  BY ReplicationAssumption DEF IInv, Numbers, Gens
<1>4. \A g \in Gens : ShardOK(shard'[g], leader')
  BY <1>1, <1>3, ShardGrows
<1>5. \A g \in 1..gens : Ext(shard[g], shard'[g])
  BY <1>1, <1>3, ExtSelf
<1>6. /\ \A g \in Gens : g > gens' => shard'[g] = <<>>
      /\ \A n \in Nodes, g \in Gens : pos'[n][g] <= Len(shard'[g])
      /\ \A n \in Nodes : worker'[n] = worker[n]
      /\ \A m \in late' : m \in late
  BY <1>1 DEF IInv
<1> QED
  BY <1>1, <1>2, <1>4, <1>5, <1>6, Preserved

(* The facts about a worker that its step starts from.                     *)
LEMMA WorkerFacts ==
  ASSUME IInv, NEW n \in Nodes
  PROVE  /\ WorkerOK(worker[n], shard, gens, leader)
         /\ worker[n].gen \in 1..gens /\ worker[n].gen \in Nat
         /\ worker[n].gen \in Gens
         /\ worker[n].next \in Nat \ {0} /\ worker[n].end \in Nat
         /\ worker[n].run \in Runs /\ worker[n].run.hi \in Nat
         /\ gens \in Gens /\ leader \in Nat
         /\ worker \in [Nodes -> WorkerType]
<1>1. WorkerOK(worker[n], shard, gens, leader) /\ gens \in Gens /\ gens <= gens
  BY DEF IInv, Numbers, Gens
<1>2. worker[n].gen \in Gens
  BY <1>1, GenGrows DEF WorkerOK
<1> QED
  BY <1>1, <1>2 DEF WorkerOK, WorkerType, Runs, IInv, Numbers, Funs

(* Raft commits what a worker waits for.                                   *)
LEMMA CommitStep ==
  ASSUME IInv, NEW n \in Nodes, Commit(n)
  PROVE  IInv'
<1> DEFINE w == worker[n]
           p == Len(shard[w.gen]) + 1
           x == Worker("committed", w.gen, w.next, w.end, w.run, p)
<1>1. /\ WorkerOK(w, shard, gens, leader) /\ w.gen \in 1..gens /\ w.gen \in Nat
      /\ w.gen \in Gens
      /\ w.next \in Nat \ {0} /\ w.end \in Nat /\ w.run \in Runs
      /\ w.run.hi \in Nat /\ leader \in Nat /\ worker \in [Nodes -> WorkerType]
  BY WorkerFacts
<1>2. /\ w.pc = "proposing" /\ AppendTo(w.gen, w.run)
      /\ worker' = [worker EXCEPT ![n] = x]
      /\ UNCHANGED <<leader, first, gens, table, cache, pos, late, timeouts>>
  BY DEF Commit
<1>3. w.run.lo - 1 = w.next - 1 /\ w.run.hi <= leader /\ w.end <= leader
      /\ Reached(shard[w.gen], w.next - 1)
  BY <1>1, <1>2 DEF WorkerOK
<1>4. shard \in [Gens -> Seq(Runs)] /\ p \in Nat
  BY <1>1, LenProperties DEF IInv, Funs
<1>5. /\ Ext(shard[w.gen], Append(shard[w.gen], w.run))
      /\ Reached(Append(shard[w.gen], w.run), w.run.hi)
      /\ ShardOK(Append(shard[w.gen], w.run), leader)
  BY <1>1, <1>3, AppendOK DEF IInv
<1>6. shard'[w.gen] = Append(shard[w.gen], w.run)
  BY <1>1, <1>2, <1>4 DEF AppendTo
<1>7. Append(shard[w.gen], w.run) \in Seq(Runs) /\ shard[w.gen] \in Seq(Runs)
  BY <1>1, <1>4, <1>5 DEF ShardOK
<1>8. Reached(shard'[w.gen], w.next - 1) /\ Reached(shard'[w.gen], w.run.hi)
  <2>0. \A i : Reached(shard[w.gen], i) => Reached(Append(shard[w.gen], w.run), i)
    BY <1>5, <1>7, ReachedGrows, Zenon
  <2>1. Reached(Append(shard[w.gen], w.run), w.next - 1)
    BY <1>3, <2>0
  <2> QED
    BY <1>5, <1>6, <2>1
<1>9. x \in WorkerType
  BY <1>1, <1>4, WorkerInType DEF Pcs
<1> HIDE DEF x
<1>10. x.pc = "committed" /\ x.gen = w.gen /\ x.next = w.next /\ x.end = w.end
       /\ x.run = w.run
  BY WorkerFields DEF x
<1>11. WorkerOK(x, shard', gens, leader)
  BY <1>1, <1>3, <1>8, <1>9, <1>10 DEF WorkerOK
<1>12. /\ worker' \in [Nodes -> WorkerType]
       /\ \A k \in Nodes : \/ worker'[k] = worker[k]
                           \/ WorkerOK(worker'[k], shard', gens, leader)
  BY <1>1, <1>2, <1>9, <1>11
<1> QED
  BY <1>1, <1>2, <1>3, <1>12, Appended

(* A proposal that timed out is committed after all.                       *)
LEMMA LateCommitStep ==
  ASSUME IInv, NEW m \in late, LateCommit(m)
  PROVE  IInv'
<1>1. /\ m.gen \in 1..gens /\ m.run \in Runs /\ m.run.hi <= leader
      /\ Reached(shard[m.gen], m.run.lo - 1)
  BY DEF IInv, LateOK
<1>2. /\ worker' \in [Nodes -> WorkerType]
      /\ \A n \in Nodes : worker'[n] = worker[n]
      /\ late' \subseteq late
  BY DEF LateCommit, IInv, Funs
<1> QED
  BY <1>1, <1>2, Appended DEF LateCommit

(* A reset sets the leader index of the table to 0.                        *)
LEMMA ResetStep ==
  ASSUME IInv, NEW n \in Nodes, Reset(n)
  PROVE  IInv'
<1>1. cache[n] \in 1..gens /\ leader \in Nat
  BY DEF IInv, Numbers, Funs
<1>2. NoRun \in Runs /\ NoRun.hi <= leader /\ NoRun.lo - 1 = 0
  BY <1>1, NoRunFields
<1>3. Reached(shard[cache[n]], NoRun.lo - 1)
  BY <1>2 DEF Reached
<1>4. /\ worker' \in [Nodes -> WorkerType]
      /\ \A k \in Nodes : worker'[k] = worker[k]
      /\ late' \subseteq late
  BY DEF Reset, IInv, Funs
<1> QED
  BY <1>1, <1>2, <1>3, <1>4, Appended DEF Reset

(* A replica applies a command.                                            *)
LEMMA ApplyReplicaStep ==
  ASSUME IInv, NEW n \in Nodes, NEW g \in Gens, ApplyReplica(n, g)
  PROVE  IInv'
<1>1. /\ pos \in [Nodes -> [Gens -> Nat]] /\ shard \in [Gens -> Seq(Runs)]
      /\ \A k \in Nodes, h \in Gens : pos[k][h] <= Len(shard[h])
      /\ first \in 1..(leader + 1) /\ timeouts \in Nat
      /\ cache \in [Nodes -> 1..gens] /\ worker \in [Nodes -> WorkerType]
  BY DEF IInv, Funs, Numbers
<1>2. pos[n][g] \in Nat /\ Len(shard[g]) \in Nat /\ pos[n][g] < Len(shard[g])
  BY <1>1, LenProperties DEF ApplyReplica
<1>3. pos' = [pos EXCEPT ![n] = [pos[n] EXCEPT ![g] = pos[n][g] + 1]]
  BY <1>1 DEF ApplyReplica
<1>4. pos' \in [Nodes -> [Gens -> Nat]]
  BY <1>1, <1>2, <1>3
<1>5. \A k \in Nodes, h \in Gens : pos'[k][h] <= Len(shard[h])
  BY <1>1, <1>2, <1>3
<1> QED
  BY <1>1, <1>4, <1>5, WorkersOnly DEF ApplyReplica

(* The log of the leader is compacted.                                     *)
LEMMA LeaderCompactStep == IInv /\ LeaderCompact => IInv'
<1> SUFFICES ASSUME IInv, LeaderCompact PROVE IInv'
  OBVIOUS
<1>1. first' \in 1..(leader + 1)
  BY DEF IInv, Numbers, LeaderCompact
<1>2. /\ timeouts \in Nat /\ cache \in [Nodes -> 1..gens]
      /\ pos \in [Nodes -> [Gens -> Nat]]
      /\ \A n \in Nodes, g \in Gens : pos[n][g] <= Len(shard[g])
      /\ worker \in [Nodes -> WorkerType]
  BY DEF IInv, Numbers, Funs
<1> QED
  BY <1>1, <1>2, WorkersOnly DEF LeaderCompact

(* reconcile caches the table's record.                                    *)
LEMMA CacheTableStep ==
  ASSUME IInv, NEW n \in Nodes, CacheTable(n)
  PROVE  IInv'
<1>1. /\ timeouts \in Nat /\ cache \in [Nodes -> 1..gens] /\ table \in 1..gens
      /\ first \in 1..(leader + 1)
      /\ pos \in [Nodes -> [Gens -> Nat]]
      /\ \A k \in Nodes, g \in Gens : pos[k][g] <= Len(shard[g])
      /\ worker \in [Nodes -> WorkerType]
  BY DEF IInv, Numbers, Funs
<1>2. cache' \in [Nodes -> 1..gens]
  BY <1>1 DEF CacheTable
<1> QED
  BY <1>1, <1>2, WorkersOnly DEF CacheTable

(* A worker that gives up is idle.                                         *)
LEMMA IdleStep ==
  ASSUME IInv, NEW n \in Nodes, DoEnd(n) \/ RestoreFails(n)
  PROVE  IInv'
<1>1. WorkerOK(Idle, shard, gens, leader)
  BY IdleOK DEF IInv, Numbers
<1>2. CASE DoEnd(n)
  BY <1>1, <1>2, OneWorker, Zenon DEF DoEnd
<1>3. CASE RestoreFails(n)
  BY <1>1, <1>3, OneWorker, Zenon DEF RestoreFails
<1> QED
  BY <1>2, <1>3

(* tableState reads an index that the replica, so the shard, has reached.  *)
LEMMA TableStateStep ==
  ASSUME IInv, NEW n \in Nodes, TableState(n)
  PROVE  IInv'
<1> DEFINE g == cache[n]
           i == LeaderIndex(g, pos[n][g])
           x == Worker("do", g, i + 1, leader, NoRun, 0)
<1>1. /\ g \in 1..gens /\ g \in Gens /\ g \in Nat /\ leader \in Nat
      /\ shard[g] \in Seq(Runs)
  BY ReplicationAssumption DEF IInv, Numbers, Funs, Gens
<1>2. pos[n][g] \in Nat /\ pos[n][g] <= Len(shard[g]) /\ Len(shard[g]) \in Nat
  BY <1>1, LenProperties DEF IInv, Funs
<1>3. i \in Nat /\ Reached(shard[g], i)
  <2>1. CASE pos[n][g] = 0
    BY <2>1 DEF LeaderIndex, Reached
  <2>2. CASE pos[n][g] # 0
    <3>1. pos[n][g] \in 1..Len(shard[g]) /\ i = shard[g][pos[n][g]].hi
      BY <1>2, <2>2 DEF LeaderIndex
    <3>2. shard[g][pos[n][g]] \in Runs
      BY <1>1, <3>1, ElementOfSeq
    <3> QED
      BY <3>1, <3>2, Zenon DEF Reached, Runs
  <2> QED
    BY <2>1, <2>2
<1> HIDE DEF i
<1>4. i + 1 \in Nat \ {0} /\ (i + 1) - 1 = i
  BY <1>3
<1>5. x \in WorkerType
  BY <1>1, <1>4, WorkerInType, NoRunFields DEF Pcs
<1> HIDE DEF x
<1>6. x.pc = "do" /\ x.gen = g /\ x.next = i + 1 /\ x.end = leader
  BY WorkerFields DEF x
<1>7. WorkerOK(x, shard, gens, leader)
  BY <1>1, <1>3, <1>4, <1>5, <1>6 DEF WorkerOK
<1>8. worker' = [worker EXCEPT ![n] = x]
  BY DEF TableState, x, i
<1> QED
  BY <1>7, <1>8, OneWorker, Zenon DEF TableState

(* proposeBatch proposes entries from the next one on.                     *)
LEMMA ProposeBatchStep ==
  ASSUME IInv, NEW n \in Nodes, ProposeBatch(n)
  PROVE  IInv'
<1> DEFINE w == worker[n]
<1>1. /\ WorkerOK(w, shard, gens, leader) /\ w.gen \in 1..gens /\ w.gen \in Nat
      /\ w.next \in Nat \ {0} /\ w.end \in Nat /\ leader \in Nat
  BY WorkerFacts
<1>2. PICK hi \in w.next..w.end :
        worker' = [worker EXCEPT ![n] =
                     Worker("proposing", w.gen, w.next, w.end, Run(w.next, hi), 0)]
  BY Zenon DEF ProposeBatch
<1> DEFINE r == Run(w.next, hi)
           x == Worker("proposing", w.gen, w.next, w.end, r, 0)
<1>3. w.end <= leader /\ Reached(shard[w.gen], w.next - 1)
  BY <1>1 DEF ProposeBatch, WorkerOK
<1>4. hi \in Nat /\ hi <= leader
  BY <1>1, <1>3
<1>5. r \in Runs
  BY <1>1, <1>4, RunInRuns
<1> HIDE DEF r
<1>6. r.lo = w.next /\ r.hi = hi
  BY RunFields DEF r
<1>7. x \in WorkerType
  BY <1>1, <1>5, WorkerInType DEF Pcs
<1> HIDE DEF x
<1>8. x.pc = "proposing" /\ x.gen = w.gen /\ x.next = w.next /\ x.end = w.end
      /\ x.run = r
  BY WorkerFields DEF x
<1>9. WorkerOK(x, shard, gens, leader)
  BY <1>1, <1>3, <1>4, <1>6, <1>7, <1>8 DEF WorkerOK
<1>10. worker' = [worker EXCEPT ![n] = x]
  BY <1>2 DEF x, r
<1> QED
  BY <1>9, <1>10, OneWorker, Zenon DEF ProposeBatch

(* The next batch starts after the one that was committed.                 *)
LEMMA ProposedStep ==
  ASSUME IInv, NEW n \in Nodes, Proposed(n)
  PROVE  IInv'
<1> DEFINE w == worker[n]
           x == Worker("do", w.gen, w.run.hi + 1, w.end, NoRun, 0)
<1>1. /\ WorkerOK(w, shard, gens, leader) /\ w.gen \in 1..gens /\ w.gen \in Nat
      /\ w.end \in Nat /\ w.run.hi \in Nat
  BY WorkerFacts
<1>2. w.end <= leader /\ Reached(shard[w.gen], w.run.hi)
  BY <1>1 DEF Proposed, WorkerOK
<1>3. w.run.hi + 1 \in Nat \ {0} /\ (w.run.hi + 1) - 1 = w.run.hi
  BY <1>1
<1>4. x \in WorkerType
  BY <1>1, <1>3, WorkerInType, NoRunFields DEF Pcs
<1> HIDE DEF x
<1>5. x.pc = "do" /\ x.gen = w.gen /\ x.next = w.run.hi + 1 /\ x.end = w.end
  BY WorkerFields DEF x
<1>6. WorkerOK(x, shard, gens, leader)
  BY <1>1, <1>2, <1>3, <1>4, <1>5 DEF WorkerOK
<1>7. worker' = [worker EXCEPT ![n] = x]
  BY DEF Proposed, x
<1> QED
  BY <1>6, <1>7, OneWorker, Zenon DEF Proposed

(* A recovery takes a snapshot of the leader's table as it is.             *)
LEMMA UseSnapshotStep ==
  ASSUME IInv, NEW n \in Nodes, UseSnapshot(n)
  PROVE  IInv'
<1> DEFINE w == worker[n]
           r == Run(1, leader)
           x == Worker("recover", w.gen, w.next, w.end, r, 0)
<1>1. /\ WorkerOK(w, shard, gens, leader) /\ w.gen \in 1..gens /\ w.gen \in Nat
      /\ w.next \in Nat \ {0} /\ w.end \in Nat /\ leader \in Nat
  BY WorkerFacts
<1>2. w.end <= leader /\ Reached(shard[w.gen], w.next - 1)
  BY <1>1 DEF UseSnapshot, WorkerOK
<1>3. r \in Runs
  BY <1>1, RunInRuns
<1> HIDE DEF r
<1>4. r.lo = 1 /\ r.hi = leader
  BY RunFields DEF r
<1>5. x \in WorkerType
  BY <1>1, <1>3, WorkerInType DEF Pcs
<1> HIDE DEF x
<1>6. x.pc = "recover" /\ x.gen = w.gen /\ x.next = w.next /\ x.end = w.end
      /\ x.run = r
  BY WorkerFields DEF x
<1>7. WorkerOK(x, shard, gens, leader)
  BY <1>1, <1>2, <1>4, <1>5, <1>6 DEF WorkerOK
<1>8. worker' = [worker EXCEPT ![n] = x]
  BY DEF UseSnapshot, x, r
<1> QED
  BY <1>7, <1>8, OneWorker, Zenon DEF UseSnapshot

(* A proposal or a node that gives up leaves at most a late proposal.      *)
LEMMA LateProposalOK ==
  ASSUME IInv, NEW n \in Nodes, worker[n].pc = "proposing",
         NEW id \in Nat
  PROVE  LateOK(Proposal(id, worker[n].gen, worker[n].run), shard, gens, leader)
<1> DEFINE w == worker[n]
           m == Proposal(id, w.gen, w.run)
<1>1. /\ WorkerOK(w, shard, gens, leader) /\ w.gen \in 1..gens /\ w.gen \in Nat
      /\ w.run \in Runs
  BY WorkerFacts
<1>2. /\ w.run.lo = w.next /\ w.run.hi <= leader
      /\ Reached(shard[w.gen], w.next - 1)
  BY <1>1 DEF WorkerOK
<1>3. m \in [id : Nat, gen : Nat, run : Runs]
  BY <1>1 DEF Proposal
<1> HIDE DEF m
<1>4. m.gen = w.gen /\ m.run = w.run
  BY ProposalFields DEF m
<1>5. LateOK(m, shard, gens, leader)
  BY <1>1, <1>2, <1>3, <1>4 DEF LateOK
<1> QED
  BY <1>5 DEF m

(* A proposal that times out preserves the invariant: the worker's stream  *)
(* ends and the proposal may be committed later.                           *)
LEMMA ProposeTimeoutStep ==
  ASSUME IInv, NEW n \in Nodes, ProposeTimeout(n)
  PROVE  IInv'
<1>1. /\ timeouts \in Nat /\ cache \in [Nodes -> 1..gens]
      /\ first \in 1..(leader + 1)
      /\ pos \in [Nodes -> [Gens -> Nat]]
      /\ \A k \in Nodes, g \in Gens : pos[k][g] <= Len(shard[g])
      /\ worker \in [Nodes -> WorkerType] /\ gens \in Gens
  BY DEF IInv, Numbers, Funs
<1>2. WorkerOK(Idle, shard, gens, leader)
  BY <1>1, IdleOK
<1>3. /\ worker' \in [Nodes -> WorkerType]
      /\ \A k \in Nodes : \/ worker'[k] = worker[k]
                          \/ WorkerOK(worker'[k], shard, gens, leader)
  BY <1>1, <1>2 DEF ProposeTimeout, WorkerOK
<1>4. \A m \in late' : m \in late \/ LateOK(m, shard, gens, leader)
  <2>1. CASE worker[n].pc = "proposing"
    <3>1. timeouts + 1 \in Nat
      BY <1>1
    <3>2. LateOK(Proposal(timeouts + 1, worker[n].gen, worker[n].run), shard,
                 gens, leader)
      BY <2>1, <3>1, LateProposalOK
    <3> QED
      BY <2>1, <3>2 DEF ProposeTimeout
  <2>2. CASE worker[n].pc # "proposing"
    BY <2>2 DEF ProposeTimeout
  <2> QED
    BY <2>1, <2>2
<1> QED
  BY <1>1, <1>3, <1>4, WorkersOnly DEF ProposeTimeout

(* After a restart the replica may be behind, never ahead.                 *)
LEMMA RestartStep ==
  ASSUME IInv, NEW n \in Nodes, Restart(n)
  PROVE  IInv'
<1>1. /\ timeouts \in Nat /\ cache \in [Nodes -> 1..gens] /\ table \in 1..gens
      /\ first \in 1..(leader + 1)
      /\ pos \in [Nodes -> [Gens -> Nat]] /\ shard \in [Gens -> Seq(Runs)]
      /\ \A k \in Nodes, g \in Gens : pos[k][g] <= Len(shard[g])
      /\ worker \in [Nodes -> WorkerType] /\ gens \in Gens
  BY DEF IInv, Numbers, Funs
<1>2. WorkerOK(Idle, shard, gens, leader)
  BY <1>1, IdleOK
<1>3. /\ worker' \in [Nodes -> WorkerType]
      /\ \A k \in Nodes : \/ worker'[k] = worker[k]
                          \/ WorkerOK(worker'[k], shard, gens, leader)
  BY <1>1, <1>2 DEF Restart, WorkerOK
<1>4. \A m \in late' : m \in late \/ LateOK(m, shard, gens, leader)
  <2>1. CASE worker[n].pc = "proposing"
    <3>1. timeouts + 1 \in Nat
      BY <1>1
    <3>2. LateOK(Proposal(timeouts + 1, worker[n].gen, worker[n].run), shard,
                 gens, leader)
      BY <2>1, <3>1, LateProposalOK
    <3> QED
      BY <2>1, <3>2 DEF Restart
  <2>2. CASE worker[n].pc # "proposing"
    BY <2>2 DEF Restart
  <2> QED
    BY <2>1, <2>2
<1>5. table \in Gens /\ timeouts' \in Nat /\ cache' \in [Nodes -> 1..gens]
  BY <1>1, GenGrows, ReplicationAssumption DEF Restart, Gens
<1>6. PICK p \in 0..pos[n][table] : pos' = [pos EXCEPT ![n][table] = p]
  BY Zenon DEF Restart
<1>7. /\ pos[n][table] \in Nat /\ Len(shard[table]) \in Nat /\ p \in Nat
      /\ p <= pos[n][table]
  BY <1>1, <1>5, LenProperties
<1>8. pos' = [pos EXCEPT ![n] = [pos[n] EXCEPT ![table] = p]]
  BY <1>1, <1>6
<1>9. pos' \in [Nodes -> [Gens -> Nat]]
  BY <1>1, <1>5, <1>7, <1>8
<1>10. \A k \in Nodes, g \in Gens : pos'[k][g] <= Len(shard[g])
  BY <1>1, <1>5, <1>7, <1>8
<1> QED
  BY <1>1, <1>3, <1>4, <1>5, <1>9, <1>10, WorkersOnly DEF Restart

(* A restored table starts with the snapshot.                              *)
LEMMA RestoreStep ==
  ASSUME IInv, NEW n \in Nodes, Restore(n)
  PROVE  IInv'
<1> DEFINE w == worker[n]
           h == gens + 1
<1>1. /\ WorkerOK(w, shard, gens, leader) /\ w.run \in Runs /\ gens \in Gens
      /\ leader \in Nat /\ worker \in [Nodes -> WorkerType]
  BY WorkerFacts
<1>2. w.run.lo = 1 /\ w.run.hi <= leader
  BY <1>1 DEF Restore, WorkerOK
<1>3. ShardOK(<<w.run>>, leader) /\ Len(<<w.run>>) = 1
  BY <1>1, <1>2, SnapshotOK
<1>4. /\ gens \in Nat /\ gens' = h /\ h \in Gens /\ h > gens /\ h \in 1..h
      /\ 1..gens \subseteq 1..h /\ gens <= gens'
      /\ \A g \in 1..gens : g \in Gens /\ g # h
      /\ \A g \in Gens : g > h => g > gens /\ g # h
  BY <1>1, ReplicationAssumption DEF Restore, Gens
<1> HIDE DEF h
<1>5. /\ shard \in [Gens -> Seq(Runs)] /\ cache \in [Nodes -> 1..gens]
      /\ pos \in [Nodes -> [Gens -> Nat]]
      /\ \A k \in Nodes, g \in Gens : pos[k][g] <= Len(shard[g])
      /\ shard[h] = <<>> /\ first \in 1..(leader + 1) /\ timeouts \in Nat
  BY <1>4 DEF IInv, Numbers, Funs
<1>6. /\ shard' = [shard EXCEPT ![h] = <<w.run>>] /\ table' = h
      /\ cache' = [cache EXCEPT ![n] = h]
      /\ pos' = [pos EXCEPT ![n] = [pos[n] EXCEPT ![h] = 1]]
      /\ worker' = [worker EXCEPT ![n] = Idle]
      /\ UNCHANGED <<leader, first, late, timeouts>>
  BY <1>5 DEF Restore, h
<1>7. /\ shard'[h] = <<w.run>> /\ \A g \in Gens : g # h => shard'[g] = shard[g]
      /\ shard' \in [Gens -> Seq(Runs)]
  BY <1>3, <1>4, <1>5, <1>6 DEF ShardOK
<1>8. \A g \in Gens : ShardOK(shard'[g], leader')
  BY <1>3, <1>6, <1>7 DEF IInv
<1>9. \A g \in 1..gens : Ext(shard[g], shard'[g])
  BY <1>4, <1>7, ExtSelf
<1>10. \A g \in Gens : g > gens' => shard'[g] = <<>>
  BY <1>4, <1>7 DEF IInv
<1>11. /\ pos' \in [Nodes -> [Gens -> Nat]]
       /\ \A k \in Nodes, g \in Gens : pos'[k][g] <= Len(shard'[g])
  <2>1. pos' \in [Nodes -> [Gens -> Nat]]
    BY <1>4, <1>5, <1>6
  <2>2. ASSUME NEW k \in Nodes, NEW g \in Gens PROVE pos'[k][g] <= Len(shard'[g])
    <3>1. /\ pos[k][g] <= Len(shard[g]) /\ pos[k][g] \in Nat
          /\ pos[k][h] <= Len(shard[h]) /\ pos[k][h] \in Nat /\ Len(<<>>) = 0
      BY <1>4, <1>5
    <3>2. CASE g = h
      <4>1. pos'[k][h] = 1 \/ pos'[k][h] = pos[k][h]
        BY <1>4, <1>5, <1>6
      <4>2. pos[k][h] <= 0
        BY <1>5, <3>1
      <4>3. pos'[k][h] <= 1
        BY <3>1, <4>1, <4>2
      <4>4. Len(shard'[h]) = 1
        BY <1>3, <1>7
      <4> QED
        BY <3>2, <4>3, <4>4
    <3>3. CASE g # h
      BY <1>5, <1>6, <1>7, <3>1, <3>3
    <3> QED
      BY <3>2, <3>3
  <2> QED
    BY <2>1, <2>2
<1>12. WorkerOK(Idle, shard', gens', leader')
  BY <1>4, IdleOK
<1>13. Numbers' /\ Funs' /\ leader <= leader'
  <2>1. cache' \in [Nodes -> 1..gens']
    BY <1>4, <1>5, <1>6
  <2>2. worker' \in [Nodes -> WorkerType]
    BY <1>1, <1>6, <1>12 DEF WorkerOK
  <2> QED
    BY <1>1, <1>4, <1>5, <1>6, <1>7, <1>11, <2>1, <2>2 DEF Numbers, Funs
<1>14. /\ \A k \in Nodes : \/ worker'[k] = worker[k]
                           \/ WorkerOK(worker'[k], shard', gens', leader')
       /\ \A m \in late' : m \in late
  BY <1>1, <1>6, <1>12
<1> QED
  BY <1>4, <1>8, <1>9, <1>10, <1>11, <1>13, <1>14, Preserved

-----------------------------------------------------------------------------
(* Every step of the follower preserves the invariant.                     *)
LEMMA NextIInv == IInv /\ [Next]_vars => IInv'
<1> SUFFICES ASSUME IInv, [Next]_vars PROVE IInv'
  OBVIOUS
<1>1. CASE UNCHANGED vars
  BY <1>1 DEF vars, IInv, Numbers, Funs, WorkerOK, LateOK
<1>2. CASE LeaderAppend
  BY <1>2, LeaderAppendStep
<1>3. CASE LeaderCompact
  BY <1>3, LeaderCompactStep
<1>4. ASSUME NEW m \in late, LateCommit(m) PROVE IInv'
  BY <1>4, LateCommitStep
<1>5. ASSUME NEW n \in Nodes, Commit(n) PROVE IInv'
  BY <1>5, CommitStep
<1>6. ASSUME NEW n \in Nodes, TableState(n) PROVE IInv'
  BY <1>6, TableStateStep
<1>7. ASSUME NEW n \in Nodes, ProposeBatch(n) PROVE IInv'
  BY <1>7, ProposeBatchStep
<1>8. ASSUME NEW n \in Nodes, Proposed(n) PROVE IInv'
  BY <1>8, ProposedStep
<1>9. ASSUME NEW n \in Nodes, ProposeTimeout(n) PROVE IInv'
  BY <1>9, ProposeTimeoutStep
<1>10. ASSUME NEW n \in Nodes, DoEnd(n) \/ RestoreFails(n) PROVE IInv'
  BY <1>10, IdleStep
<1>11. ASSUME NEW n \in Nodes, UseSnapshot(n) PROVE IInv'
  BY <1>11, UseSnapshotStep
<1>12. ASSUME NEW n \in Nodes, Restore(n) PROVE IInv'
  BY <1>12, RestoreStep
<1>13. ASSUME NEW n \in Nodes, CacheTable(n) PROVE IInv'
  BY <1>13, CacheTableStep
<1>14. ASSUME NEW n \in Nodes, Reset(n) PROVE IInv'
  BY <1>14, ResetStep
<1>15. ASSUME NEW n \in Nodes, Restart(n) PROVE IInv'
  BY <1>15, RestartStep
<1>16. ASSUME NEW n \in Nodes, NEW g \in Gens, ApplyReplica(n, g) PROVE IInv'
  BY <1>16, ApplyReplicaStep
<1> QED
  BY <1>1, <1>2, <1>3, <1>4, <1>5, <1>6, <1>7, <1>8, <1>9, <1>10, <1>11,
     <1>12, <1>13, <1>14, <1>15, <1>16 DEF Next

(* The invariant is what the properties need.                              *)
LEMMA IInvTypeOK == IInv => TypeOK
<1> SUFFICES ASSUME IInv PROVE TypeOK
  OBVIOUS
<1>1. worker \in [Nodes -> [pc : {"idle", "do", "proposing", "committed",
                                 "recover"},
                           gen : 1..gens, next : Nat \ {0}, end : Nat,
                           run : Runs, at : Nat]]
  BY DEF IInv, Funs, WorkerOK, WorkerType, Pcs
<1>2. late \subseteq [id : Nat, gen : 1..gens, run : Runs]
  BY DEF IInv, LateOK
<1> QED
  BY <1>1, <1>2 DEF IInv, Numbers, Funs, TypeOK

(* The inductive invariant holds in every state of the replication.        *)
LEMMA Invariance == Spec => []IInv
BY InitIInv, NextIInv, PTL DEF Spec

(* The state of a replicated table keeps its shape: no replica is ahead of *)
(* its shard, no worker writes to a shard that does not exist.             *)
THEOREM TypeCorrect == Spec => []TypeOK
BY Invariance, IInvTypeOK, PTL

(* worker.go never skips an entry of the leader, whatever the workers of   *)
(* the nodes do at the same time, for any log, shard and number of nodes.  *)
THEOREM NoEntrySkipped == Spec => []NoGap
<1>1. IInv => NoGap
  BY DEF IInv, ShardOK, NoGap
<1> QED
  BY <1>1, Invariance, PTL
=============================================================================
