-------------------------- MODULE ShardViewProofs ---------------------------
(***************************************************************************)
(* Proofs for ShardView, for any nodes, configurations and bounds.         *)
(* The inductive invariant says that everything a node or a message holds  *)
(* was true of Raft once.  A view or a message has no term without a       *)
(* leader, which is what keeps a merge from going back.                    *)
(***************************************************************************)
EXTENDS ShardView, TLAPS

(* The provers, in this order, and their time limits in seconds.           *)
USE ZenonT(5), SMTT(30)

Real(s) == s \in Shards /\ Within(s) /\ Truthful(s)

Known(s) == Real(s) /\ (s.leader = noLeader => s.term = 0)

IInv ==
    /\ TypeOK
    /\ \A n \in Nodes : Real(info[n]) /\ Known(view[n])
    /\ \A p \in Pairs : Known(inflight[p])

-----------------------------------------------------------------------------
(* The fields of a shard's record.                                         *)
LEMMA ShardFields ==
    ASSUME NEW a, NEW b, NEW c, NEW d
    PROVE  /\ Shard(a, b, c, d).nodes = a /\ Shard(a, b, c, d).config = b
           /\ Shard(a, b, c, d).leader = c /\ Shard(a, b, c, d).term = d
BY DEF Shard

(* A record of the right fields is a shard.                                *)
LEMMA ShardTyped ==
    ASSUME NEW a \in SUBSET Nodes, NEW b \in 0..Len(Configs),
           NEW c \in Nodes \cup {noLeader}, NEW d \in 0..MaxTerm
    PROVE  Shard(a, b, c, d) \in Shards
BY DEF Shard, Shards

(* The fields of a shard have their types.                                 *)
LEMMA ShardTypes ==
    ASSUME NEW s \in Shards
    PROVE  /\ s.nodes \in SUBSET Nodes /\ s.config \in 0..Len(Configs)
           /\ s.leader \in Nodes \cup {noLeader} /\ s.term \in 0..MaxTerm
BY DEF Shards

(* The view of an unknown shard is true.                                   *)
LEMMA UnknownKnown == TypeOK => Known(Unknown)
<1> SUFFICES ASSUME TypeOK PROVE Known(Unknown)
  OBVIOUS
<1>1. Unknown \in Shards
  BY ShardTyped, ViewAssumption DEF Unknown
<1>2. /\ Unknown.nodes = {} /\ Unknown.config = 0
      /\ Unknown.leader = noLeader /\ Unknown.term = 0
  BY ShardFields DEF Unknown
<1>3. config \in Nat /\ Len(leaders) \in Nat
  BY ViewAssumption DEF TypeOK
<1>. QED
  BY <1>1, <1>2, <1>3 DEF Known, Real, Within, Truthful

(* mergeShardInfo takes true views to a true view, and never back.         *)
LEMMA MergeKnown ==
    ASSUME TypeOK, NEW u, NEW w, Known(u), Real(w)
    PROVE  /\ Known(mergeShardInfo(u, w))
           /\ u.term <= mergeShardInfo(u, w).term
           /\ u.config <= mergeShardInfo(u, w).config
<1> DEFINE newer == u.config < w.config
           leads == w.leader # noLeader
                      /\ (u.leader = noLeader \/ w.term > u.term)
           m == mergeShardInfo(u, w)
<1>1. /\ u.nodes \in SUBSET Nodes /\ u.config \in 0..Len(Configs)
      /\ u.leader \in Nodes \cup {noLeader} /\ u.term \in 0..MaxTerm
      /\ w.nodes \in SUBSET Nodes /\ w.config \in 0..Len(Configs)
      /\ w.leader \in Nodes \cup {noLeader} /\ w.term \in 0..MaxTerm
  BY ShardTypes DEF Known, Real
<1>2. /\ m.nodes = IF newer THEN w.nodes ELSE u.nodes
      /\ m.config = IF newer THEN w.config ELSE u.config
      /\ m.leader = IF leads THEN w.leader ELSE u.leader
      /\ m.term = IF leads THEN w.term ELSE u.term
  BY ShardFields DEF mergeShardInfo
<1>3. m \in Shards
  BY <1>1, ShardTyped DEF mergeShardInfo
<1>4. Len(Configs) \in Nat /\ MaxTerm \in Nat /\ config \in Nat
      /\ Len(leaders) \in Nat
  BY ViewAssumption DEF TypeOK
<1>5. Within(m)
  BY <1>1, <1>2, <1>4 DEF Known, Real, Within
<1>6. Truthful(m)
  BY <1>1, <1>2, <1>4 DEF Known, Real, Truthful
<1>7. m.leader = noLeader => m.term = 0
  BY <1>1, <1>2 DEF Known
<1>8. u.term <= m.term /\ u.config <= m.config
  BY <1>1, <1>2, <1>4 DEF Known
<1>. QED
  BY <1>3, <1>5, <1>6, <1>7, <1>8 DEF Known, Real

(* A true view stays true when Raft goes on.                               *)
LEMMA RealStays ==
    ASSUME TypeOK, NEW s, Real(s),
           config <= config', config' \in Nat, leaders' \in Seq(Nodes \cup {noLeader}),
           Len(leaders) <= Len(leaders'),
           \A t \in 1..Len(leaders) : leaders'[t] = leaders[t]
    PROVE  /\ s \in Shards
           /\ s.config <= config' /\ s.term <= Len(leaders')
           /\ s.leader # noLeader => s.term > 0 /\ s.leader = leaders'[s.term]
           /\ s.config > 0 => s.nodes = Configs[s.config]
           /\ s.config = 0 => s.nodes = {}
<1>1. s.config \in Nat /\ s.term \in Nat /\ config \in Nat
      /\ Len(leaders) \in Nat /\ Len(leaders') \in Nat
  BY ShardTypes, ViewAssumption DEF Real, TypeOK
<1>2. s.config <= config' /\ s.term <= Len(leaders')
  BY <1>1 DEF Real, Within
<1>3. s.leader # noLeader => s.term > 0 /\ s.leader = leaders'[s.term]
  BY <1>1 DEF Real, Within, Truthful
<1>. QED
  BY <1>2, <1>3 DEF Real, Truthful

-----------------------------------------------------------------------------
(* All views start out unknown.                                            *)
LEMMA InitIInv == Init => IInv
<1> SUFFICES ASSUME Init PROVE IInv
  OBVIOUS
<1> DEFINE first == Shard(Configs[1], 1, noLeader, 0)
<1>1. Len(Configs) \in Nat /\ 1 \in 1..Len(Configs) /\ Configs[1] \in SUBSET Nodes
      /\ MaxTerm \in Nat /\ MaxFaults \in Nat
  BY ViewAssumption
<1>2. first \in Shards
  BY <1>1, ShardTyped
<1>3. /\ first.nodes = Configs[1] /\ first.config = 1
      /\ first.leader = noLeader /\ first.term = 0
  BY ShardFields
<1>4. Unknown \in Shards /\ Unknown.config = 0 /\ Unknown.term = 0
  BY <1>1, ShardTyped, ShardFields DEF Unknown
<1>5. leaders \in Seq(Nodes \cup {noLeader}) /\ Len(leaders) = 0 /\ config = 1
  BY DEF Init
<1>6. TypeOK
  BY <1>1, <1>2, <1>3, <1>4, <1>5 DEF Init, TypeOK, Within
<1>7. Known(Unknown)
  BY <1>6, UnknownKnown
<1>8. Real(first)
  BY <1>2, <1>3, <1>5 DEF Real, Within, Truthful
<1>. QED
  BY <1>6, <1>7, <1>8 DEF Init, IInv

(* What a replica learns of Raft leaves the other state alone.             *)
LEMMA LearnIInv ==
    ASSUME IInv, NEW n \in Nodes, NEW s, Real(s),
           info' = [info EXCEPT ![n] = s], faults' \in 0..MaxFaults,
           UNCHANGED <<leaders, config, view, inflight>>
    PROVE  IInv'
<1>1. \A m \in Nodes : Real(info'[m])
  BY DEF IInv, TypeOK
<1>2. \A m \in Nodes : Real(info[m])'
  BY <1>1 DEF Real, Within, Truthful
<1>3. (\A m \in Nodes : Known(view[m])')
      /\ \A p \in Pairs : Known(inflight[p])'
  BY DEF IInv, Known, Real, Within, Truthful
<1>4. info' \in [Nodes -> Shards]
  BY DEF IInv, TypeOK, Real
<1>5. TypeOK'
  BY <1>2, <1>4 DEF IInv, TypeOK, Real, Within
<1>. QED
  BY <1>2, <1>3, <1>5 DEF IInv

(* Views and states on their way stay true if every new one is.            *)
LEMMA GossipIInv ==
    ASSUME IInv, view' \in [Nodes -> Shards], inflight' \in [Pairs -> Shards],
           \A n \in Nodes : Known(view'[n]),
           \A p \in Pairs : Known(inflight'[p]),
           UNCHANGED <<leaders, config, info, faults>>
    PROVE  IInv'
<1>1. (\A m \in Nodes : Real(info[m])' /\ Known(view[m])')
      /\ \A p \in Pairs : Known(inflight[p])'
  BY DEF IInv, Known, Real, Within, Truthful
<1>2. TypeOK'
  BY <1>1 DEF IInv, TypeOK, Known, Real, Within
<1>. QED
  BY <1>1, <1>2 DEF IInv

(* A new term, or a new configuration, leaves what is known true.          *)
LEMMA RaftIInv ==
    ASSUME IInv, config <= config', config' \in 1..Len(Configs),
           leaders' \in Seq(Nodes \cup {noLeader}),
           Len(leaders) <= Len(leaders'), Len(leaders') <= MaxTerm,
           \A t \in 1..Len(leaders) : leaders'[t] = leaders[t],
           UNCHANGED <<info, view, inflight, faults>>
    PROVE  IInv'
<1>0. TypeOK /\ config' \in Nat
  BY ViewAssumption DEF IInv
<1>1. \A n \in Nodes : Real(info[n])'
  <2> TAKE n \in Nodes
  <2>1. Real(info[n])
    BY DEF IInv
  <2>. QED
    BY <1>0, <2>1, RealStays DEF Real, Within, Truthful
<1>2. \A n \in Nodes : Known(view[n])'
  <2> TAKE n \in Nodes
  <2>1. Known(view[n])
    BY DEF IInv
  <2>2. Real(view[n])
    BY <2>1 DEF Known
  <2>3. Real(view[n])'
    BY <1>0, <2>2, RealStays DEF Real, Within, Truthful
  <2>. QED
    BY <2>1, <2>3 DEF Known
<1>3. \A p \in Pairs : Known(inflight[p])'
  <2> TAKE p \in Pairs
  <2>1. Known(inflight[p])
    BY DEF IInv
  <2>2. Real(inflight[p])
    BY <2>1 DEF Known
  <2>3. Real(inflight[p])'
    BY <1>0, <2>2, RealStays DEF Real, Within, Truthful
  <2>. QED
    BY <2>1, <2>3 DEF Known
<1>4. TypeOK'
  BY <1>1, <1>2, <1>3 DEF IInv, TypeOK, Known, Real
<1>. QED
  BY <1>1, <1>2, <1>3, <1>4 DEF IInv

-----------------------------------------------------------------------------
(* Every step keeps the invariant and takes no view back, but for a        *)
(* restart, which empties it.                                              *)
LEMMA NextIInv ==
    ASSUME IInv, [Next]_vars
    PROVE  /\ IInv'
           /\ \A n \in Nodes : \/ view'[n] = Unknown
                               \/ /\ view[n].term <= view'[n].term
                                  /\ view[n].config <= view'[n].config
<1> DEFINE Forward == \A n \in Nodes : \/ view'[n] = Unknown
                                       \/ /\ view[n].term <= view'[n].term
                                          /\ view[n].config <= view'[n].config
<1> SUFFICES IInv' /\ Forward
  OBVIOUS
<1>0. TypeOK
  BY DEF IInv
<1>a. Len(Configs) \in Nat /\ MaxTerm \in Nat /\ MaxFaults \in Nat
  BY ViewAssumption
<1>b. leaders \in Seq(Nodes \cup {noLeader}) /\ config \in 1..Len(Configs)
      /\ faults \in 0..MaxFaults /\ Len(leaders) \in Nat /\ Len(leaders) <= MaxTerm
  BY <1>0 DEF TypeOK
<1>c. \A n \in Nodes : view[n].term \in Nat /\ view[n].config \in Nat
  BY <1>0, <1>a, ShardTypes DEF TypeOK
<1>d. view' = view => Forward
  BY <1>c
<1>1. CASE Elect
  <2>1. PICK l \in Nodes \cup {noLeader} : leaders' = Append(leaders, l)
    BY <1>1 DEF Elect
  <2>2. /\ leaders' \in Seq(Nodes \cup {noLeader})
        /\ Len(leaders') = Len(leaders) + 1
        /\ \A t \in 1..Len(leaders) : leaders'[t] = leaders[t]
    BY <2>1, <1>b
  <2>3. IInv'
    BY <2>2, <1>1, <1>a, <1>b, RaftIInv DEF Elect
  <2>. QED
    BY <2>3, <1>1, <1>d DEF Elect
<1>2. CASE ChangeConfig
  <2>1. config' \in 1..Len(Configs) /\ config <= config'
    BY <1>2, <1>a, <1>b DEF ChangeConfig
  <2>2. IInv'
    BY <2>1, <1>2, <1>b, RaftIInv DEF ChangeConfig
  <2>. QED
    BY <2>2, <1>2, <1>d DEF ChangeConfig
<1>3. ASSUME NEW n \in Nodes, NEW term \in 1..MaxTerm,
             NEW leader \in Nodes \cup {noLeader}, LearnTerm(n, term, leader)
      PROVE  IInv' /\ Forward
  <2> DEFINE s == Shard(info[n].nodes, info[n].config, leader, term)
  <2>1. Real(info[n]) /\ info[n] \in Shards
    BY DEF IInv, Real
  <2>2. s \in Shards
    BY <2>1, <1>a, ShardTypes, ShardTyped
  <2>3. /\ s.nodes = info[n].nodes /\ s.config = info[n].config
        /\ s.leader = leader /\ s.term = term
    BY ShardFields
  <2>4. Real(s)
    BY <2>1, <2>2, <2>3, <1>3 DEF LearnTerm, Real, Within, Truthful
  <2>5. info' = [info EXCEPT ![n] = s]
    BY <1>3 DEF LearnTerm
  <2>6. IInv'
    BY <2>4, <2>5, <1>3, <1>b, LearnIInv DEF LearnTerm
  <2>. QED
    BY <2>6, <1>3, <1>d DEF LearnTerm
<1>4. ASSUME NEW n \in Nodes, NEW c \in 1..Len(Configs), LearnConfig(n, c)
      PROVE  IInv' /\ Forward
  <2> DEFINE s == Shard(Configs[c], c, info[n].leader, info[n].term)
  <2>1. Real(info[n]) /\ info[n] \in Shards
    BY DEF IInv, Real
  <2>2. Configs[c] \in SUBSET Nodes
    BY ViewAssumption
  <2>3. s \in Shards
    BY <2>1, <2>2, <1>a, ShardTypes, ShardTyped
  <2>4. /\ s.nodes = Configs[c] /\ s.config = c
        /\ s.leader = info[n].leader /\ s.term = info[n].term
    BY ShardFields
  <2>5. c <= config
    BY <2>1, <1>4, <1>a, <1>b, ShardTypes DEF LearnConfig
  <2>6. Real(s)
    BY <2>1, <2>3, <2>4, <2>5 DEF Real, Within, Truthful
  <2>7. info' = [info EXCEPT ![n] = s]
    BY <1>4 DEF LearnConfig
  <2>8. IInv'
    BY <2>6, <2>7, <1>4, <1>b, LearnIInv DEF LearnConfig
  <2>. QED
    BY <2>8, <1>4, <1>d DEF LearnConfig
<1>5. ASSUME NEW n \in Nodes
      PROVE  LET s == Shard(info[n].nodes, info[n].config, noLeader, info[n].term)
             IN Real(s)
  <2> DEFINE s == Shard(info[n].nodes, info[n].config, noLeader, info[n].term)
  <2>1. Real(info[n]) /\ info[n] \in Shards
    BY DEF IInv, Real
  <2>2. s \in Shards
    BY <2>1, <1>a, ShardTypes, ShardTyped
  <2>3. /\ s.nodes = info[n].nodes /\ s.config = info[n].config
        /\ s.leader = noLeader /\ s.term = info[n].term
    BY ShardFields
  <2>. QED
    BY <2>1, <2>2, <2>3 DEF Real, Within, Truthful
<1>6. ASSUME NEW n \in Nodes, Forget(n) PROVE IInv' /\ Forward
  <2>1. faults' \in 0..MaxFaults
    BY <1>6, <1>a, <1>b DEF Forget
  <2>2. IInv'
    BY <2>1, <1>5, <1>6, LearnIInv DEF Forget
  <2>. QED
    BY <2>2, <1>6, <1>d DEF Forget
<1>7. ASSUME NEW n \in Nodes, Restart(n) PROVE IInv' /\ Forward
  <2> DEFINE s == Shard(info[n].nodes, info[n].config, noLeader, info[n].term)
  <2>1. faults' \in 0..MaxFaults
    BY <1>7, <1>a, <1>b DEF Restart
  <2>2. Known(Unknown) /\ Unknown \in Shards
    BY <1>0, UnknownKnown DEF Known, Real
  <2>3. Real(s) /\ s \in Shards
    BY <1>5 DEF Real
  <2>4. info' = [info EXCEPT ![n] = s]
    BY <1>7 DEF Restart
  <2>5. \A m \in Nodes : Real(info'[m]) /\ info'[m] \in Shards
    BY <2>3, <2>4 DEF IInv, TypeOK
  <2>6. \A m \in Nodes : Known(view'[m])
    BY <2>2, <1>7 DEF Restart, IInv, TypeOK
  <2>7. \A p \in Pairs : Known(inflight'[p])
    BY <2>2, <1>7 DEF Restart, IInv, TypeOK
  <2>8. info' \in [Nodes -> Shards] /\ view' \in [Nodes -> Shards]
        /\ inflight' \in [Pairs -> Shards]
    BY <2>2, <2>3, <1>7 DEF Restart, IInv, TypeOK
  <2>9. leaders' = leaders /\ config' = config
    BY <1>7 DEF Restart
  <2>10. (\A m \in Nodes : Real(info[m])' /\ Known(view[m])')
         /\ \A p \in Pairs : Known(inflight[p])'
    BY <2>5, <2>6, <2>7, <2>9 DEF Known, Real, Within, Truthful
  <2>11. TypeOK'
    BY <2>1, <2>8, <2>9, <2>10, <1>b DEF TypeOK, Known, Real
  <2>12. \A m \in Nodes : view'[m] = Unknown \/ view'[m] = view[m]
    BY <1>7, <1>0 DEF Restart, TypeOK
  <2>13. Forward
    BY <2>12, <1>c
  <2>. QED
    BY <2>10, <2>11, <2>13 DEF IInv
<1>8. ASSUME NEW p \in Pairs PROVE p[1] \in Nodes /\ p[2] \in Nodes
  BY DEF Pairs
<1>9. ASSUME NEW p \in Pairs, LocalState(p) PROVE IInv' /\ Forward
  <2> DEFINE n == p[1]
             m == mergeShardInfo(view[n], info[n])
  <2>1. n \in Nodes
    BY <1>8
  <2>2. Known(view[n]) /\ Real(info[n])
    BY <2>1 DEF IInv
  <2>3. Known(m) /\ view[n].term <= m.term /\ view[n].config <= m.config
    BY <2>2, <1>0, MergeKnown
  <2>4. m \in Shards
    BY <2>3 DEF Known, Real
  <2>5. view' = [view EXCEPT ![n] = m] /\ inflight' = [inflight EXCEPT ![p] = m]
        /\ UNCHANGED <<leaders, config, info, faults>>
    BY <1>9 DEF LocalState
  <2> HIDE DEF m, n
  <2>6. view' \in [Nodes -> Shards] /\ inflight' \in [Pairs -> Shards]
    BY <2>4, <2>5, <1>0 DEF TypeOK
  <2>7. (\A k \in Nodes : Known(view'[k])) /\ \A q \in Pairs : Known(inflight'[q])
    BY <2>3, <2>5 DEF IInv, TypeOK
  <2>8. IInv'
    BY <2>5, <2>6, <2>7, GossipIInv
  <2>9. Forward
    BY <2>1, <2>3, <2>5, <1>0, <1>c DEF TypeOK
  <2>. QED
    BY <2>8, <2>9
<1>10. ASSUME NEW p \in Pairs, MergeRemoteState(p) PROVE IInv' /\ Forward
  <2> DEFINE n == p[2]
             m == mergeShardInfo(view[n], inflight[p])
  <2>1. n \in Nodes
    BY <1>8
  <2>2. Known(view[n]) /\ Real(inflight[p])
    BY <2>1 DEF IInv, Known
  <2>3. Known(m) /\ view[n].term <= m.term /\ view[n].config <= m.config
    BY <2>2, <1>0, MergeKnown
  <2>4. m \in Shards /\ Known(Unknown) /\ Unknown \in Shards
    BY <2>3, <1>0, UnknownKnown DEF Known, Real
  <2>5. view' = [view EXCEPT ![n] = m]
        /\ inflight' = [inflight EXCEPT ![p] = Unknown]
        /\ UNCHANGED <<leaders, config, info, faults>>
    BY <1>10 DEF MergeRemoteState
  <2> HIDE DEF m, n
  <2>6. view' \in [Nodes -> Shards] /\ inflight' \in [Pairs -> Shards]
    BY <2>4, <2>5, <1>0 DEF TypeOK
  <2>7. (\A k \in Nodes : Known(view'[k])) /\ \A q \in Pairs : Known(inflight'[q])
    BY <2>3, <2>4, <2>5 DEF IInv, TypeOK
  <2>8. IInv'
    BY <2>5, <2>6, <2>7, GossipIInv
  <2>9. Forward
    BY <2>1, <2>3, <2>5, <1>0, <1>c DEF TypeOK
  <2>. QED
    BY <2>8, <2>9
<1>11. ASSUME NEW p \in Pairs, Lost(p) PROVE IInv' /\ Forward
  <2>1. Known(Unknown) /\ Unknown \in Shards
    BY <1>0, UnknownKnown DEF Known, Real
  <2>2. inflight' \in [Pairs -> Shards] /\ \A q \in Pairs : Known(inflight'[q])
    BY <2>1, <1>11 DEF Lost, IInv, TypeOK
  <2>3. UNCHANGED <<leaders, config, info, view>> /\ faults' \in 0..MaxFaults
    BY <1>11, <1>a, <1>b DEF Lost
  <2>4. (\A m \in Nodes : Real(info[m])' /\ Known(view[m])')
        /\ \A q \in Pairs : Known(inflight[q])'
    BY <2>2, <2>3 DEF IInv, Known, Real, Within, Truthful
  <2>5. TypeOK'
    BY <2>2, <2>3, <2>4, <1>0 DEF TypeOK, Known, Real
  <2>. QED
    BY <2>3, <2>4, <2>5, <1>d DEF IInv
<1>12. CASE UNCHANGED vars
  <2>1. IInv'
    BY <1>12 DEF vars, IInv, TypeOK, Known, Real, Within, Truthful
  <2>. QED
    BY <2>1, <1>12, <1>d DEF vars
<1>. QED
  BY <1>1, <1>2, <1>3, <1>4, <1>6, <1>7, <1>9, <1>10, <1>11, <1>12, Zenon DEF Next

(* The state keeps its shape, and nobody is ahead of Raft.                 *)
THEOREM TypeCorrect == Spec => []TypeOK
<1>1. IInv /\ [Next]_vars => IInv'
  BY NextIInv
<1>2. IInv => TypeOK
  BY DEF IInv
<1>. QED
  BY <1>1, <1>2, InitIInv, PTL DEF Spec

(* The leader and the term of a response header belong together.           *)
THEOREM HeadersTrue == Spec => []HeaderTruthful
<1>1. IInv /\ [Next]_vars => IInv'
  BY NextIInv
<1>2. IInv => HeaderTruthful
  BY DEF IInv, Known, Real, HeaderTruthful
<1>. QED
  BY <1>1, <1>2, InitIInv, PTL DEF Spec

(* The term and the configuration that a running node knows go forward     *)
(* only.                                                                   *)
THEOREM ViewsForward == Spec => NeverBack
<1>1. IInv /\ [Next]_vars => IInv'
  BY NextIInv
<1>2. IInv /\ [Next]_vars =>
        [\A n \in Nodes :
           \/ view'[n] = Unknown
           \/ /\ view[n].term <= view'[n].term
              /\ view[n].config <= view'[n].config]_vars
  BY NextIInv
<1>. QED
  BY <1>1, <1>2, InitIInv, PTL DEF Spec, NeverBack

(* The fields of a merged view.                                            *)
LEMMA MergeFields ==
    ASSUME NEW u, NEW w
    PROVE  LET m == mergeShardInfo(u, w)
               newer == u.config < w.config
               leads == w.leader # noLeader
                          /\ (u.leader = noLeader \/ w.term > u.term)
           IN /\ m.nodes = IF newer THEN w.nodes ELSE u.nodes
              /\ m.config = IF newer THEN w.config ELSE u.config
              /\ m.leader = IF leads THEN w.leader ELSE u.leader
              /\ m.term = IF leads THEN w.term ELSE u.term
              /\ m = Shard(m.nodes, m.config, m.leader, m.term)
BY ShardFields DEF mergeShardInfo

(* A view has a term when it has a leader, and only then.                  *)
Sound(s) ==
    /\ s.config \in Nat /\ s.term \in Nat
    /\ s.leader = noLeader <=> s.term = 0

(* True views are sound, and agree where they speak of the same.           *)
LEMMA KnownSound ==
  ASSUME TypeOK, NEW v, NEW w, Known(v), Known(w)
  PROVE  /\ Sound(v)
         /\ v.config = w.config => v.nodes = w.nodes
         /\ v.term = w.term => v.leader = w.leader
<1>1. ASSUME NEW s, Known(s)
      PROVE  /\ s.config \in Nat /\ s.term \in Nat
             /\ s.leader # noLeader => s.term > 0 /\ s.leader = leaders[s.term]
             /\ s.leader = noLeader => s.term = 0
             /\ s.config > 0 => s.nodes = Configs[s.config]
             /\ s.config = 0 => s.nodes = {}
  BY <1>1, ShardTypes, ViewAssumption DEF Known, Real, Truthful
<1>2. /\ v.config \in Nat /\ w.config \in Nat
      /\ v.term \in Nat /\ w.term \in Nat
  BY <1>1
<1> QED
  BY <1>1, <1>2 DEF Sound

(* Of sound views, a merge takes the newer configuration and the newer     *)
(* term, the first of two that are equal.                                  *)
LEMMA MergeSound ==
  ASSUME NEW u, NEW w, Sound(u), Sound(w)
  PROVE  LET m == mergeShardInfo(u, w)
         IN /\ Sound(m)
            /\ m.nodes = IF u.config < w.config THEN w.nodes ELSE u.nodes
            /\ m.config = IF u.config < w.config THEN w.config ELSE u.config
            /\ m.leader = IF u.term < w.term THEN w.leader ELSE u.leader
            /\ m.term = IF u.term < w.term THEN w.term ELSE u.term
            /\ m = Shard(m.nodes, m.config, m.leader, m.term)
<1> DEFINE m == mergeShardInfo(u, w)
<1>1. /\ m.nodes = IF u.config < w.config THEN w.nodes ELSE u.nodes
      /\ m.config = IF u.config < w.config THEN w.config ELSE u.config
      /\ m = Shard(m.nodes, m.config, m.leader, m.term)
  BY MergeFields
<1>2. /\ m.leader = IF u.term < w.term THEN w.leader ELSE u.leader
      /\ m.term = IF u.term < w.term THEN w.term ELSE u.term
  BY MergeFields DEF Sound
<1> HIDE DEF m
<1>3. Sound(m)
  BY <1>1, <1>2 DEF Sound
<1> QED
  BY <1>1, <1>2, <1>3 DEF m

(* The order in which the states of other nodes arrive does not matter:    *)
(* two true ones lead every view to the same result.                       *)
THEOREM MergeOrder ==
    ASSUME TypeOK, NEW u, NEW v, NEW w, Known(u), Known(v), Known(w)
    PROVE  mergeShardInfo(mergeShardInfo(u, v), w) =
           mergeShardInfo(mergeShardInfo(u, w), v)
<1> DEFINE x == mergeShardInfo(u, v)
           y == mergeShardInfo(u, w)
           a == mergeShardInfo(x, w)
           b == mergeShardInfo(y, v)
<1>1. /\ Sound(u) /\ Sound(v) /\ Sound(w)
      /\ v.config = w.config => v.nodes = w.nodes
      /\ v.term = w.term => v.leader = w.leader
  BY KnownSound
<1>2. /\ Sound(x) /\ Sound(y)
      /\ x.nodes = IF u.config < v.config THEN v.nodes ELSE u.nodes
      /\ x.config = IF u.config < v.config THEN v.config ELSE u.config
      /\ x.leader = IF u.term < v.term THEN v.leader ELSE u.leader
      /\ x.term = IF u.term < v.term THEN v.term ELSE u.term
      /\ y.nodes = IF u.config < w.config THEN w.nodes ELSE u.nodes
      /\ y.config = IF u.config < w.config THEN w.config ELSE u.config
      /\ y.leader = IF u.term < w.term THEN w.leader ELSE u.leader
      /\ y.term = IF u.term < w.term THEN w.term ELSE u.term
  BY <1>1, MergeSound
<1> HIDE DEF x, y
<1>3. /\ a.nodes = IF x.config < w.config THEN w.nodes ELSE x.nodes
      /\ a.config = IF x.config < w.config THEN w.config ELSE x.config
      /\ a.leader = IF x.term < w.term THEN w.leader ELSE x.leader
      /\ a.term = IF x.term < w.term THEN w.term ELSE x.term
      /\ a = Shard(a.nodes, a.config, a.leader, a.term)
  BY <1>1, <1>2, MergeSound
<1>4. /\ b.nodes = IF y.config < v.config THEN v.nodes ELSE y.nodes
      /\ b.config = IF y.config < v.config THEN v.config ELSE y.config
      /\ b.leader = IF y.term < v.term THEN v.leader ELSE y.leader
      /\ b.term = IF y.term < v.term THEN v.term ELSE y.term
      /\ b = Shard(b.nodes, b.config, b.leader, b.term)
  BY <1>1, <1>2, MergeSound
<1> HIDE DEF a, b
<1>5. a.nodes = b.nodes /\ a.config = b.config
  BY <1>1, <1>2, <1>3, <1>4 DEF Sound
<1>6. a.leader = b.leader /\ a.term = b.term
  BY <1>1, <1>2, <1>3, <1>4 DEF Sound
<1> QED
  BY <1>3, <1>4, <1>5, <1>6 DEF a, b, x, y

(* A node that has merged the states of others may pass its view on in     *)
(* their place.                                                            *)
THEOREM MergeRelayed ==
    ASSUME TypeOK, NEW u, NEW v, NEW w, Known(u), Known(v), Known(w)
    PROVE  mergeShardInfo(u, mergeShardInfo(v, w)) =
           mergeShardInfo(mergeShardInfo(u, v), w)
<1> DEFINE x == mergeShardInfo(u, v)
           z == mergeShardInfo(v, w)
           a == mergeShardInfo(x, w)
           b == mergeShardInfo(u, z)
<1>1. Sound(u) /\ Sound(v) /\ Sound(w)
  BY KnownSound
<1>2. /\ Sound(x) /\ Sound(z)
      /\ x.nodes = IF u.config < v.config THEN v.nodes ELSE u.nodes
      /\ x.config = IF u.config < v.config THEN v.config ELSE u.config
      /\ x.leader = IF u.term < v.term THEN v.leader ELSE u.leader
      /\ x.term = IF u.term < v.term THEN v.term ELSE u.term
      /\ z.nodes = IF v.config < w.config THEN w.nodes ELSE v.nodes
      /\ z.config = IF v.config < w.config THEN w.config ELSE v.config
      /\ z.leader = IF v.term < w.term THEN w.leader ELSE v.leader
      /\ z.term = IF v.term < w.term THEN w.term ELSE v.term
  BY <1>1, MergeSound
<1> HIDE DEF x, z
<1>3. /\ a.nodes = IF x.config < w.config THEN w.nodes ELSE x.nodes
      /\ a.config = IF x.config < w.config THEN w.config ELSE x.config
      /\ a.leader = IF x.term < w.term THEN w.leader ELSE x.leader
      /\ a.term = IF x.term < w.term THEN w.term ELSE x.term
      /\ a = Shard(a.nodes, a.config, a.leader, a.term)
  BY <1>1, <1>2, MergeSound
<1>4. /\ b.nodes = IF u.config < z.config THEN z.nodes ELSE u.nodes
      /\ b.config = IF u.config < z.config THEN z.config ELSE u.config
      /\ b.leader = IF u.term < z.term THEN z.leader ELSE u.leader
      /\ b.term = IF u.term < z.term THEN z.term ELSE u.term
      /\ b = Shard(b.nodes, b.config, b.leader, b.term)
  BY <1>1, <1>2, MergeSound
<1> HIDE DEF a, b
<1>5. a.nodes = b.nodes /\ a.config = b.config
  BY <1>1, <1>2, <1>3, <1>4 DEF Sound
<1>6. a.leader = b.leader /\ a.term = b.term
  BY <1>1, <1>2, <1>3, <1>4 DEF Sound
<1> QED
  BY <1>3, <1>4, <1>5, <1>6 DEF a, b, x, z

(* A state that arrives again, after any other, changes nothing.           *)
THEOREM MergeAgain ==
    ASSUME TypeOK, NEW u, NEW v, NEW w, Known(u), Known(v), Known(w)
    PROVE  LET a == mergeShardInfo(mergeShardInfo(u, v), w)
           IN mergeShardInfo(a, v) = a
<1> DEFINE x == mergeShardInfo(u, v)
           a == mergeShardInfo(x, w)
           b == mergeShardInfo(a, v)
<1>1. Sound(u) /\ Sound(v) /\ Sound(w)
  BY KnownSound
<1>2. /\ Sound(x) /\ ~(x.config < v.config) /\ ~(x.term < v.term)
  <2>1. /\ Sound(x)
        /\ x.config = IF u.config < v.config THEN v.config ELSE u.config
        /\ x.term = IF u.term < v.term THEN v.term ELSE u.term
    BY <1>1, MergeSound
  <2> HIDE DEF x
  <2> QED
    BY <1>1, <2>1 DEF Sound
<1> HIDE DEF x
<1>3. /\ Sound(a) /\ ~(a.config < v.config) /\ ~(a.term < v.term)
      /\ a = Shard(a.nodes, a.config, a.leader, a.term)
  <2>1. /\ Sound(a) /\ a = Shard(a.nodes, a.config, a.leader, a.term)
        /\ a.config = IF x.config < w.config THEN w.config ELSE x.config
        /\ a.term = IF x.term < w.term THEN w.term ELSE x.term
    BY <1>1, <1>2, MergeSound
  <2> HIDE DEF a
  <2> QED
    BY <1>1, <1>2, <2>1 DEF Sound
<1> HIDE DEF a
<1>4. /\ b.nodes = a.nodes /\ b.config = a.config
      /\ b.leader = a.leader /\ b.term = a.term
      /\ b = Shard(b.nodes, b.config, b.leader, b.term)
  BY <1>1, <1>3, MergeSound
<1> HIDE DEF b
<1> QED
  BY <1>3, <1>4 DEF a, b, x
=============================================================================
