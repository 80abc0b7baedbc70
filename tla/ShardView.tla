----------------------------- MODULE ShardView ------------------------------
(***************************************************************************)
(* What every node knows of a Raft shard: its leader, term and members     *)
(* (storage/cluster/view.go), spread by the push/pull exchange of the      *)
(* gossip library (storage/cluster/cluster.go) and put into the header of  *)
(* every response (Engine.getHeader).                                      *)
(*                                                                         *)
(* Raft and the gossip library are external.  Raft elects at most one      *)
(* leader in a term and numbers its configurations; a node's own Raft      *)
(* replica learns of either late, and does not always know the leader of   *)
(* its term.  An exchanged state is delivered late or never, so that newer *)
(* ones overtake it, and a restart forgets the view.  The shards do not    *)
(* interact, so one is enough.                                             *)
(***************************************************************************)
EXTENDS Integers, Sequences

CONSTANTS
    Nodes,       \* nodes of the cluster, which are the replicas of the shard
    noLeader,    \* the leader's ID if there is none
    Configs,     \* the members in each configuration of the shard
    MaxTerm,     \* bound on its terms
    MaxFaults    \* bound on restarts, lost states and lost leaders

ASSUME ViewAssumption ==
    /\ noLeader \notin Nodes
    /\ Configs \in Seq(SUBSET Nodes) /\ Len(Configs) > 0
    /\ MaxTerm \in Nat /\ MaxFaults \in Nat

VARIABLES
    leaders,    \* the leader of each term so far, if it has one
    config,     \* index of the shard's configuration
    info,       \* GetNodeHostInfo: what the node's own replica knows
    view,       \* shardView.shards[id] of each node
    inflight,   \* the states on their way, by sender and receiver
    faults      \* number of faults so far

vars == <<leaders, config, info, view, inflight, faults>>

(* A dragonboat.ShardView.                                                 *)
Shard(nodes, index, leader, term) ==
    [nodes |-> nodes, config |-> index, leader |-> leader, term |-> term]

(* The view of a shard that is not known; nothing on its way.              *)
Unknown == Shard({}, 0, noLeader, 0)

Pairs == {p \in Nodes \X Nodes : p[1] # p[2]}

(* The shard has its first configuration when it is started.               *)
Init ==
    /\ leaders = <<>>
    /\ config = 1
    /\ info = [n \in Nodes |-> Shard(Configs[1], 1, noLeader, 0)]
    /\ view = [n \in Nodes |-> Unknown]
    /\ inflight = [p \in Pairs |-> Unknown]
    /\ faults = 0

-----------------------------------------------------------------------------
(* Raft (external).                                                        *)

(* The next term, which may end without a leader.                          *)
Elect ==
    /\ Len(leaders) < MaxTerm
    /\ \E l \in Nodes \cup {noLeader} : leaders' = Append(leaders, l)
    /\ UNCHANGED <<config, info, view, inflight, faults>>

ChangeConfig ==
    /\ config < Len(Configs)
    /\ config' = config + 1
    /\ UNCHANGED <<leaders, info, view, inflight, faults>>

(* A replica learns of a term, or of the leader of its term.               *)
LearnTerm(n, term, leader) ==
    /\ term \in 1..Len(leaders)
    /\ \/ term > info[n].term
       \/ term = info[n].term /\ info[n].leader = noLeader
    /\ leader \in {noLeader, leaders[term]}
    /\ info' = [info EXCEPT ![n] = Shard(@.nodes, @.config, leader, term)]
    /\ UNCHANGED <<leaders, config, view, inflight, faults>>

(* A replica learns of a configuration.                                    *)
LearnConfig(n, c) ==
    /\ c \in (info[n].config + 1)..config
    /\ info' = [info EXCEPT ![n] = Shard(Configs[c], c, @.leader, @.term)]
    /\ UNCHANGED <<leaders, config, view, inflight, faults>>

(* A replica that has not heard from the leader asks for votes.            *)
Forget(n) ==
    /\ info[n].leader # noLeader
    /\ faults < MaxFaults
    /\ faults' = faults + 1
    /\ info' = [info EXCEPT ![n] = Shard(@.nodes, @.config, noLeader, @.term)]
    /\ UNCHANGED <<leaders, config, view, inflight>>

-----------------------------------------------------------------------------
(* The view.                                                               *)

(* Mutant of mergeShardInfo: a term is taken over without its leader.      *)
mergeShardInfoTerm(current, update) ==
    LET newer == current.config < update.config
        leads == update.leader # noLeader
                   /\ (current.leader = noLeader \/ update.term > current.term)
    IN Shard(IF newer THEN update.nodes ELSE current.nodes,
             IF newer THEN update.config ELSE current.config,
             IF leads THEN update.leader ELSE current.leader,
             IF update.term > current.term THEN update.term ELSE current.term)

(* Mutant of mergeShardInfo: the last leader heard of is kept.             *)
mergeShardInfoLast(current, update) ==
    LET newer == current.config < update.config
        leads == update.leader # noLeader
    IN Shard(IF newer THEN update.nodes ELSE current.nodes,
             IF newer THEN update.config ELSE current.config,
             IF leads THEN update.leader ELSE current.leader,
             IF leads THEN update.term ELSE current.term)

(* Mutant of mergeShardInfo: the first leader heard of is kept.            *)
mergeShardInfoFirst(current, update) ==
    LET newer == current.config < update.config
        leads == update.leader # noLeader /\ current.leader = noLeader
    IN Shard(IF newer THEN update.nodes ELSE current.nodes,
             IF newer THEN update.config ELSE current.config,
             IF leads THEN update.leader ELSE current.leader,
             IF leads THEN update.term ELSE current.term)

(* The newer configuration with its members, and the newer of two known    *)
(* leaders with its term.                                                  *)
mergeShardInfo(current, update) ==
    LET newer == current.config < update.config
        leads == update.leader # noLeader
                   /\ (current.leader = noLeader \/ update.term > current.term)
    IN Shard(IF newer THEN update.nodes ELSE current.nodes,
             IF newer THEN update.config ELSE current.config,
             IF leads THEN update.leader ELSE current.leader,
             IF leads THEN update.term ELSE current.term)

(* delegate.LocalState: the view is brought up to date with what the own   *)
(* replica knows, and a copy of it is sent.  (What another update adds to  *)
(* the view between the two is sent too.)                                  *)
LocalState(p) ==
    LET n == p[1]
        merged == mergeShardInfo(view[n], info[n])
    IN /\ inflight[p] = Unknown
       /\ view' = [view EXCEPT ![n] = merged]
       /\ inflight' = [inflight EXCEPT ![p] = merged]
       /\ UNCHANGED <<leaders, config, info, faults>>

(* Mutant of MergeRemoteState: configurations are counted.                 *)
MergeRemoteStateCount(p) ==
    LET n == p[2]
        merged == mergeShardInfo(view[n], inflight[p])
    IN /\ inflight[p] # Unknown
       /\ view' = [view EXCEPT ![n] = Shard(merged.nodes, @.config + 1,
                                           merged.leader, merged.term)]
       /\ inflight' = [inflight EXCEPT ![p] = Unknown]
       /\ UNCHANGED <<leaders, config, info, faults>>

(* delegate.MergeRemoteState.                                              *)
MergeRemoteState(p) ==
    LET n == p[2]
        merged == mergeShardInfo(view[n], inflight[p])
    IN /\ inflight[p] # Unknown
       /\ view' = [view EXCEPT ![n] = merged]
       /\ inflight' = [inflight EXCEPT ![p] = Unknown]
       /\ UNCHANGED <<leaders, config, info, faults>>

Lost(p) ==
    /\ inflight[p] # Unknown
    /\ faults < MaxFaults
    /\ faults' = faults + 1
    /\ inflight' = [inflight EXCEPT ![p] = Unknown]
    /\ UNCHANGED <<leaders, config, info, view>>

(* The process starts again with newView, and its replica with the term    *)
(* and the configuration it has stored; what was on its way to it is lost. *)
Restart(n) ==
    /\ faults < MaxFaults
    /\ faults' = faults + 1
    /\ view' = [view EXCEPT ![n] = Unknown]
    /\ info' = [info EXCEPT ![n] = Shard(@.nodes, @.config, noLeader, @.term)]
    /\ inflight' = [p \in Pairs |->
                      IF p[2] = n THEN Unknown ELSE inflight[p]]
    /\ UNCHANGED <<leaders, config>>

Next ==
    \/ Elect \/ ChangeConfig
    \/ \E n \in Nodes :
         \/ \E term \in 1..MaxTerm, leader \in Nodes \cup {noLeader} :
              LearnTerm(n, term, leader)
         \/ \E c \in 1..Len(Configs) : LearnConfig(n, c)
         \/ Forget(n) \/ Restart(n)
    \/ \E p \in Pairs : LocalState(p) \/ MergeRemoteState(p) \/ Lost(p)

Spec == Init /\ [][Next]_vars

(* Raft tells its replicas of the current term, its leader and the current *)
(* configuration, and the gossip library exchanges states between all      *)
(* nodes from time to time.                                                *)
Fairness ==
    /\ \A n \in Nodes :
         /\ WF_vars(\E l \in Nodes : LearnTerm(n, Len(leaders), l))
         /\ WF_vars(LearnConfig(n, config))
    /\ \A p \in Pairs : WF_vars(LocalState(p) \/ MergeRemoteState(p))

FairSpec == Spec /\ Fairness

-----------------------------------------------------------------------------
(* Properties.                                                             *)

Shards == [nodes : SUBSET Nodes, config : 0..Len(Configs),
           leader : Nodes \cup {noLeader}, term : 0..MaxTerm]

(* What is known lies within what has happened.                            *)
Within(s) == s.config <= config /\ s.term <= Len(leaders)

(* The state keeps its shape, and nobody is ahead of Raft.                 *)
TypeOK ==
    /\ leaders \in Seq(Nodes \cup {noLeader}) /\ Len(leaders) <= MaxTerm
    /\ config \in 1..Len(Configs)
    /\ info \in [Nodes -> Shards]
    /\ view \in [Nodes -> Shards]
    /\ inflight \in [Pairs -> Shards]
    /\ faults \in 0..MaxFaults
    /\ \A n \in Nodes : Within(info[n]) /\ Within(view[n])
    /\ \A p \in Pairs : Within(inflight[p])

(* A view that tells the truth: its leader is the leader of its term, and  *)
(* its members are those of its configuration.                             *)
Truthful(s) ==
    /\ s.leader # noLeader => s.term > 0 /\ s.leader = leaders[s.term]
    /\ s.config > 0 => s.nodes = Configs[s.config]
    /\ s.config = 0 => s.nodes = {}

(* The leader and the term of a response's header (Engine.getHeader) belong *)
(* together: the node did lead in that term, however views were merged,    *)
(* overtaken or lost; a header without a leader has no term either.  And   *)
(* the members in a view are those of the configuration it names.          *)
HeaderTruthful ==
    \A n \in Nodes :
        /\ Truthful(view[n])
        /\ view[n].leader = noLeader => view[n].term = 0

(* The term in the headers of a node, and the configuration it knows, go   *)
(* forward only, as long as the node runs.                                 *)
NeverBack ==
    [][\A n \in Nodes :
         \/ view'[n] = Unknown
         \/ /\ view[n].term <= view'[n].term
            /\ view[n].config <= view'[n].config]_vars

(* When elections and faults are over all nodes come to agree on a view,   *)
(* and it names the leader of the last term if that has one.               *)
ViewsConverge ==
    <>[](/\ \A n, m \in Nodes : view[n] = view[m]
         /\ \A n \in Nodes :
              leaders # <<>> /\ leaders[Len(leaders)] # noLeader =>
                view[n].term = Len(leaders))
=============================================================================
