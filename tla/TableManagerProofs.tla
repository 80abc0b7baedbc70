------------------------- MODULE TableManagerProofs -------------------------
(***************************************************************************)
(* Proofs about TableManager, for every set of nodes and tables and every  *)
(* bound.                                                                  *)
(*                                                                         *)
(* The inductive invariant says who refers to a shard: the record of a     *)
(* table, a record that a call has read, or a call that was given the      *)
(* shard.  No step but the update of the sequence makes a reference that   *)
(* was not there before for the same name, and that update hands out an ID *)
(* above all those in use.  So it does not matter that the state machine   *)
(* of the metadata store lets a restore write the record of a table that   *)
(* was deleted under it.                                                   *)
(***************************************************************************)
EXTENDS TableManager, TLAPS

(* The provers, in this order, and their time limits in seconds.           *)
USE ZenonT(5), SMTT(30)

Tabs(l) == [cluster : 0..l, recover : 0..l]

(* Pairs of tables whose shards are up to l.                               *)
PairSet(l) ==
    {p \in [ver : Nat, val : Tabs(l) \cup {NoValue}] : p.ver # 0 => p.val \in Tabs(l)}

Given == {"start", "set", "load", "get", "swap"}

(* Calls when l is the last shard ID handed out.                           *)
CallSet(l) ==
    {c \in [op : {"none", "create", "delete", "restore"},
            pc : Given \cup {"idle", "seq", "seqset", "delete"},
            name : Names \cup {NoValue}, get : PairSet(l), id : Nat, ver : Nat] :
        /\ c.pc # "idle" => c.name \in Names
        /\ c.pc \in {"seq", "seqset", "start", "set"} => c.op \in {"create", "restore"}
        /\ c.pc \in {"load", "get", "swap"} => c.op = "restore"
        /\ c.pc = "seqset" => c.ver <= l /\ c.id = c.ver + 1 /\ c.id <= MaxIds
        /\ c.pc \in Given => c.id \in 1..l}

SeqOK ==
    /\ seq \in [{SequenceKey} -> [ver : 0..MaxIds, val : Nat \cup {NoValue}]]
    /\ Exists(seq, SequenceKey) => seq[SequenceKey].val = seq[SequenceKey].ver

RecordsOK ==
    /\ writes \in Nat
    /\ tables \in [Names -> PairSet(LastID)]
    /\ api \in [Nodes -> CallSet(LastID)]

RecSet(l) ==
    [pc : {"idle", "read", "apply"}, tabs : [Names -> Tabs(l)],
     start : SUBSET (1..l), stop : SUBSET (1..l)]

ClnSet(l) ==
    {c \in [pc : {"idle", "check", "remove", "delete"}, id : 0..l, ver : Nat] :
        c.pc # "idle" => c.id # 0}

(* The loops know no shard that was not handed out.                        *)
LoopsOK ==
    /\ started \in [Nodes -> SUBSET (1..LastID)]
    /\ rec \in [Nodes -> RecSet(LastID)]
    /\ cache \in [Nodes -> [Names -> 0..LastID]]
    /\ cleanups \in [Nodes \X Ids -> [ver : Nat, val : Nat \cup {NoValue}]]
    /\ \A n \in Nodes, i \in Ids : cleanups[<<n, i>>].ver # 0 => i <= LastID
    /\ cln \in [Nodes -> ClnSet(LastID)]
    /\ removed \subseteq Nodes \X (1..LastID)
    /\ now \in Nat

(* Shards that a pair refers to.                                           *)
PairIDs(p) == {TableOf(p).cluster, TableOf(p).recover} \ {0}

(* A record, or one that a call has read, names shard i.                   *)
Named(i) ==
    \/ \E t \in Names : i \in PairIDs(tables[t])
    \/ \E n \in Nodes : i \in PairIDs(api[n].get)

(* Shard i is used, or will be, for the table of name t.                   *)
Refers(t, i) ==
    \/ i \in PairIDs(tables[t])
    \/ \E n \in Nodes : /\ api[n].name = t
                        /\ i \in PairIDs(api[n].get) \/ (Owns(n) /\ i = api[n].id)

(* Call c has not named its shard in a record so far.                      *)
Naming(c) == c.pc = "set" \/ (c.pc = "start" /\ c.op = "restore")

(* A shard belongs to one name.                                            *)
OneName == \A t, u \in Names, i \in Ids : Refers(t, i) /\ Refers(u, i) => t = u

OneOwner ==
    \A n, m \in Nodes : n # m /\ Owns(n) /\ Owns(m) => api[n].id # api[m].id

Unnamed == \A n \in Nodes : Naming(api[n]) => ~Named(api[n].id)

TwoShards ==
    \A t \in Names : TableOf(tables[t]).cluster = TableOf(tables[t]).recover =>
                     TableOf(tables[t]).cluster = 0

UniqueOK == OneName /\ OneOwner /\ Unnamed /\ TwoShards

(* Call c is about to let its shard serve a table.                         *)
Serving(c) == c.pc \in {"get", "swap"} \/ (c.pc = "set" /\ c.op = "create")

(* What serves a table, or is about to, is whole.                          *)
WholeOK ==
    /\ \A t \in Names : TableOf(tables[t]).cluster \in whole \cup {0}
    /\ \A n \in Nodes :
         /\ TableOf(api[n].get).cluster \in whole \cup {0}
         /\ Serving(api[n]) => api[n].id \in whole

IInv == SeqOK /\ RecordsOK /\ LoopsOK /\ UniqueOK /\ WholeOK

-----------------------------------------------------------------------------
(* Lemmas about the operators.                                             *)

(* The sequence's version is the last ID that incAndGetIDSeq handed out.   *)
LEMMA LastIs ==
    ASSUME SeqOK
    PROVE  LastID = seq[SequenceKey].ver /\ LastID \in 0..MaxIds
  BY DEF SeqOK, LastID, Exists, Get

(* The table of a pair, as getTable decodes it, refers to shards in range. *)
LEMMA PairTab ==
    ASSUME NEW l \in Nat, NEW p \in PairSet(l)
    PROVE  /\ TableOf(p) \in Tabs(l)
           /\ p.ver \in Nat
           /\ PairIDs(p) \subseteq 1..l
  <1>1. TableOf(p) \in Tabs(l)
    BY DEF PairSet, TableOf, NoTable, Table, Tabs
  <1>2. PairIDs(p) \subseteq 1..l
    BY <1>1 DEF PairIDs, Tabs
  <1> QED
    BY <1>1, <1>2 DEF PairSet

(* The zero Pair of a missing key refers to no shard.                      *)
LEMMA AbsentPair ==
    ASSUME NEW l \in Nat
    PROVE  /\ Absent \in PairSet(l)
           /\ TableOf(Absent) = NoTable
           /\ PairIDs(Absent) = {}
  BY DEF Absent, PairSet, TableOf, PairIDs, NoTable, Table

(* The pair that a set stores is one of the given table.                   *)
LEMMA StoredPair ==
    ASSUME NEW l \in Nat, NEW v \in Nat \ {0}, NEW tab \in Tabs(l)
    PROVE  LET p == [ver |-> v, val |-> tab]
           IN p \in PairSet(l) /\ TableOf(p) = tab
  BY DEF PairSet, TableOf

(* The fields of a table record.                                           *)
LEMMA TableFields ==
    ASSUME NEW l \in Nat, NEW c \in 0..l, NEW r \in 0..l
    PROVE  /\ Table(c, r) \in Tabs(l)
           /\ Table(c, r).cluster = c
           /\ Table(c, r).recover = r
  BY DEF Table, Tabs

(* What was in range stays in range when the sequence moves on.            *)
LEMMA Grow ==
    ASSUME NEW l \in Nat, NEW k \in Nat, l <= k
    PROVE  /\ Tabs(l) \subseteq Tabs(k)
           /\ PairSet(l) \subseteq PairSet(k)
           /\ CallSet(l) \subseteq CallSet(k)
           /\ RecSet(l) \subseteq RecSet(k)
           /\ ClnSet(l) \subseteq ClnSet(k)
           /\ 0..l \subseteq 0..k
           /\ 1..l \subseteq 1..k
  <1>1. Tabs(l) \subseteq Tabs(k)
    BY DEF Tabs
  <1>2. PairSet(l) \subseteq PairSet(k)
    BY <1>1 DEF PairSet
  <1>3. CallSet(l) \subseteq CallSet(k)
    BY <1>2 DEF CallSet
  <1>4. 1..l \subseteq 1..k /\ 0..l \subseteq 0..k
    OBVIOUS
  <1>5. RecSet(l) \subseteq RecSet(k)
    BY <1>1, <1>4 DEF RecSet
  <1>6. ClnSet(l) \subseteq ClnSet(k)
    BY <1>4 DEF ClnSet
  <1> QED
    BY <1>1, <1>2, <1>3, <1>4, <1>5, <1>6

(* No call: the state in which a call returns.                             *)
LEMMA Idle ==
    ASSUME NEW l \in Nat
    PROVE  NoCall \in CallSet(l) /\ NoCall.pc = "idle" /\ NoCall.get = Absent
  BY AbsentPair DEF NoCall, Call, CallSet, Given

(* The shards of a set of tables, as diffTables computes them.             *)
LEMMA TableIDsElem ==
    ASSUME NEW tabs, NEW i
    PROVE  i \in TableIDs(tabs) <=>
             i # 0 /\ \E t \in Names : i = tabs[t].cluster \/ i = tabs[t].recover
  <1> DEFINE S == {{tabs[t].cluster, tabs[t].recover} : t \in Names}
  <1>1. ASSUME i \in UNION S
        PROVE  \E t \in Names : i = tabs[t].cluster \/ i = tabs[t].recover
    <2>1. PICK s \in S : i \in s
      BY <1>1, Zenon
    <2>2. PICK t \in Names : s = {tabs[t].cluster, tabs[t].recover}
      BY <2>1
    <2> QED
      BY <2>1, <2>2
  <1>2. ASSUME NEW t \in Names, i = tabs[t].cluster \/ i = tabs[t].recover
        PROVE  i \in UNION S
    <2>1. {tabs[t].cluster, tabs[t].recover} \in S
      OBVIOUS
    <2> QED
      BY <1>2, <2>1, Zenon
  <1>3. TableIDs(tabs) = (UNION S) \ {0}
    BY DEF TableIDs
  <1> HIDE DEF S
  <1> QED
    BY <1>1, <1>2, <1>3, Zenon

-----------------------------------------------------------------------------
(* Steps of a call.                                                        *)

(* The table that an update of call c stores, as in CallUpdate.            *)
Stores(c, tab) ==
    \/ c.pc = "delete" /\ tab = NoTable
    \/ c.pc = "set" /\ c.op = "create" /\ tab = Table(c.id, 0)
    \/ c.pc = "set" /\ c.op = "restore" /\ tab = Table(TableOf(c.get).cluster, c.id)
    \/ c.pc = "swap" /\ tab = Table(c.id, 0)

(* LFSM.Update either hands out the next ID, or changes one table record,  *)
(* or changes nothing.                                                     *)
LEMMA ApplyEffect ==
    ASSUME SeqOK, RecordsOK, NEW n \in Nodes, NEW ok \in BOOLEAN, Apply(api[n], ok)
    PROVE  LET c == api[n]
           IN /\ writes' \in Nat /\ cleanups' = cleanups
              /\ c.pc = "seqset" =>
                   /\ tables' = tables
                   /\ IF ok THEN SeqOK' /\ LastID' = LastID + 1 /\ c.id = LastID'
                      ELSE seq' = seq
              /\ c.pc # "seqset" =>
                   /\ seq' = seq
                   /\ \/ tables' = tables
                      \/ \E p \in PairSet(LastID) :
                           /\ tables' = [tables EXCEPT ![c.name] = p]
                           /\ Stores(c, TableOf(p))
  <1> DEFINE c == api[n]
             u == CallUpdate(c)
             l == LastID
  <1>1. l \in Nat /\ l = seq[SequenceKey].ver /\ l \in 0..MaxIds
    BY LastIs, ManagerAssumption
  <1>2. c \in CallSet(l)
    BY DEF RecordsOK
  <1> HIDE DEF c, l
  <1>3. ASSUME c.pc = "seqset"
        PROVE  /\ writes' \in Nat /\ cleanups' = cleanups /\ tables' = tables
               /\ IF ok THEN SeqOK' /\ LastID' = l + 1 /\ c.id = LastID'
                  ELSE seq' = seq
    <2>1. u = SetOp(SequenceKey, c.id, c.ver)
      BY <1>3 DEF CallUpdate
    <2>2. /\ ok = ~VersionMismatch(seq, u) /\ seq' = Update(seq, u, c.id)
          /\ writes' = writes /\ tables' = tables /\ cleanups' = cleanups
      BY <1>3 DEF Apply, c
    <2>3. c.ver <= l /\ c.id = c.ver + 1 /\ c.id <= MaxIds /\ c.ver \in Nat
      BY <1>2, <1>3 DEF CallSet
    <2>4. CASE VersionMismatch(seq, u)
      BY <2>2, <2>4, Zenon DEF RecordsOK, Update
    <2>5. CASE ~VersionMismatch(seq, u)
      <3>1. c.ver = l
        BY <1>1, <2>1, <2>3, <2>5 DEF VersionMismatch, Exists, SetOp
      <3>2. seq' = [seq EXCEPT ![SequenceKey] = [ver |-> c.id, val |-> c.id]]
        BY <2>1, <2>2, <2>5 DEF Update, SetOp, Set
      <3>3. seq'[SequenceKey] = [ver |-> c.id, val |-> c.id]
        BY <3>2 DEF SeqOK
      <3>4. SeqOK'
        BY <2>3, <3>2, <3>3 DEF SeqOK, Exists
      <3>5. LastID' = c.id
        BY <2>3, <3>3 DEF LastID, Exists, Get
      <3> QED
        BY <1>1, <2>2, <2>3, <2>5, <3>1, <3>4, <3>5, Zenon DEF RecordsOK
    <2> QED
      BY <2>4, <2>5
  <1>4. ASSUME c.pc # "seqset"
        PROVE  /\ writes' \in Nat /\ cleanups' = cleanups /\ seq' = seq
               /\ \/ tables' = tables
                  \/ \E p \in PairSet(l) :
                       /\ tables' = [tables EXCEPT ![c.name] = p]
                       /\ Stores(c, TableOf(p))
    <2>1. /\ c.pc \in {"set", "swap", "delete"}
          /\ writes' = writes + 1 /\ tables' = Update(tables, u, writes + 1)
          /\ seq' = seq /\ cleanups' = cleanups
      BY <1>4 DEF Apply, c
    <2>2. writes + 1 \in Nat \ {0} /\ writes' \in Nat
      BY <2>1 DEF RecordsOK
    <2>3. ASSUME NEW tab \in Tabs(l), NEW v, Stores(c, tab), u = SetOp(c.name, tab, v)
          PROVE  \/ tables' = tables
                 \/ \E p \in PairSet(l) : /\ tables' = [tables EXCEPT ![c.name] = p]
                                          /\ Stores(c, TableOf(p))
      <3> DEFINE p == [ver |-> writes + 1, val |-> tab]
      <3>1. p \in PairSet(l) /\ TableOf(p) = tab
        BY <1>1, <2>2, <2>3, StoredPair
      <3>2. tables' = tables \/ tables' = [tables EXCEPT ![c.name] = p]
        BY <2>1, <2>3 DEF Update, SetOp, Set
      <3> HIDE DEF p
      <3> QED
        BY <2>3, <3>1, <3>2
    <2>4. CASE c.pc = "delete"
      <3>1. u = DeleteOp(c.name, c.get.ver)
        BY <2>4 DEF CallUpdate
      <3>2. tables' = tables \/ tables' = [tables EXCEPT ![c.name] = Absent]
        BY <2>1, <3>1 DEF Update, DeleteOp, Delete
      <3>3. Absent \in PairSet(l) /\ Stores(c, TableOf(Absent))
        BY <1>1, <2>4, AbsentPair DEF Stores
      <3> QED
        BY <2>1, <2>2, <3>2, <3>3
    <2>5. CASE c.pc \in {"set", "swap"}
      <3>1. c.id \in 1..l /\ c.op \in {"create", "restore"} /\ c.get \in PairSet(l)
        BY <1>2, <2>5 DEF CallSet, Given
      <3>2. TableOf(c.get).cluster \in 0..l
        BY <1>1, <3>1, PairTab DEF Tabs
      <3>3. Table(c.id, 0) \in Tabs(l) /\ Table(TableOf(c.get).cluster, c.id) \in Tabs(l)
        BY <1>1, <3>1, <3>2, TableFields
      <3>4. CASE c.pc = "set" /\ c.op = "create"
        <4>1. u = SetOp(c.name, Table(c.id, 0), 0) /\ Stores(c, Table(c.id, 0))
          BY <3>4 DEF CallUpdate, Stores
        <4> QED
          BY <2>1, <2>2, <2>3, <3>3, <4>1
      <3>5. CASE c.pc = "set" /\ c.op = "restore"
        <4>1. /\ u = SetOp(c.name, Table(TableOf(c.get).cluster, c.id), c.get.ver)
              /\ Stores(c, Table(TableOf(c.get).cluster, c.id))
          BY <3>5 DEF CallUpdate, Stores
        <4> QED
          BY <2>1, <2>2, <2>3, <3>3, <4>1, Zenon
      <3>6. CASE c.pc = "swap"
        <4>1. u = SetOp(c.name, Table(c.id, 0), c.get.ver) /\ Stores(c, Table(c.id, 0))
          BY <3>6 DEF CallUpdate, Stores
        <4> QED
          BY <2>1, <2>2, <2>3, <3>3, <4>1, Zenon
      <3> QED
        BY <2>5, <3>1, <3>4, <3>5, <3>6
    <2> QED
      BY <2>1, <2>4, <2>5
  <1> QED
    BY <1>3, <1>4 DEF c, l

(* Node n's call goes on as d: it keeps the name and the shard it has, and *)
(* the pair it has read, or reads the record of the table it is for.       *)
Moves(n, d) ==
    LET c == api[n]
    IN /\ d \in CallSet(LastID)
       /\ d.pc \in Given => c.pc \in Given /\ d.id = c.id /\ d.name = c.name
       /\ \/ d.get = Absent
          \/ d.get = c.get /\ d.name = c.name
          \/ d.name \in Names /\ d.get = tables[d.name]
       /\ Naming(d) => Naming(c)
       /\ Serving(d) => d.id \in whole'

(* The records stay, or the call has made its update.                      *)
Replaces(n, d) ==
    \/ tables' = tables
    \/ \E p \in PairSet(LastID) :
         /\ tables' = [tables EXCEPT ![api[n].name] = p]
         /\ Stores(api[n], TableOf(p))
         /\ ~Naming(d)

(* The shards in the record that an update stores are the call's own, or   *)
(* the one that the call has read as the table's ClusterID.                *)
LEMMA StoredRefs ==
    ASSUME NEW l \in Nat, NEW c \in CallSet(l), NEW p \in PairSet(l),
           Stores(c, TableOf(p))
    PROVE  /\ c.name \in Names
           /\ \A i \in PairIDs(p) : \/ c.pc \in Given /\ i = c.id
                                    \/ i \in PairIDs(c.get)
           /\ TableOf(p).cluster = 0 \/ (Serving(c) /\ TableOf(p).cluster = c.id)
                \/ TableOf(p).cluster = TableOf(c.get).cluster
           /\ TableOf(p).cluster = TableOf(p).recover =>
                TableOf(p).cluster = 0 \/ (Naming(c) /\ c.id \in PairIDs(c.get))
  <1>1. c.name \in Names
    BY DEF CallSet, Stores
  <1>2. TableOf(c.get).cluster \in 0..l /\ c.id \in Nat /\ (c.pc \in Given => c.id \in 1..l)
    BY PairTab DEF CallSet, Tabs
  <1>3. CASE c.pc = "delete" /\ TableOf(p) = NoTable
    BY <1>1, <1>3 DEF PairIDs, NoTable, Table
  <1>4. CASE /\ c.pc = "swap" \/ (c.pc = "set" /\ c.op = "create")
             /\ TableOf(p) = Table(c.id, 0)
    BY <1>1, <1>2, <1>4 DEF PairIDs, Table, Given, Serving
  <1>5. CASE /\ c.pc = "set" /\ c.op = "restore"
             /\ TableOf(p) = Table(TableOf(c.get).cluster, c.id)
    <2>1. TableOf(p).cluster = TableOf(c.get).cluster /\ TableOf(p).recover = c.id
      BY <1>5 DEF Table
    <2> QED
      BY <1>1, <1>2, <1>5, <2>1 DEF PairIDs, Given, Naming
  <1> QED
    BY <1>3, <1>4, <1>5 DEF Stores

(* A step of a call that hands out no ID makes no reference to a shard.    *)
LEMMA NoNewReference ==
    ASSUME SeqOK, RecordsOK, NEW n \in Nodes, NEW d, seq' = seq,
           api' = [api EXCEPT ![n] = d], Moves(n, d), Replaces(n, d)
    PROVE  /\ \A t \in Names, i \in Ids : Refers(t, i)' => Refers(t, i)
           /\ \A i \in Ids : Named(i)' =>
                \/ Named(i)
                \/ Owns(n) /\ i = api[n].id /\ ~Naming(d)
  <1> DEFINE c == api[n]
             l == LastID
  <1>1. l \in Nat
    BY LastIs, ManagerAssumption
  <1>2. /\ c \in CallSet(l) /\ d \in CallSet(l)
        /\ \A m \in Nodes : api'[m] = IF m = n THEN d ELSE api[m]
    BY DEF RecordsOK, Moves
  <1>3. ASSUME NEW i \in PairIDs(d.get)
        PROVE  \/ i \in PairIDs(c.get) /\ d.name = c.name
               \/ d.name \in Names /\ i \in PairIDs(tables[d.name])
    BY <1>1, AbsentPair DEF Moves
  <1>4. ASSUME NEW t \in Names, NEW i \in PairIDs(tables'[t])
        PROVE  \/ i \in PairIDs(tables[t])
               \/ t = c.name /\ i \in PairIDs(c.get)
               \/ t = c.name /\ c.pc \in Given /\ i = c.id /\ ~Naming(d)
    <2>1. CASE tables' = tables
      BY <1>4, <2>1
    <2>2. ASSUME NEW p \in PairSet(l), tables' = [tables EXCEPT ![c.name] = p],
                 Stores(c, TableOf(p)), ~Naming(d)
          PROVE  \/ i \in PairIDs(tables[t])
                 \/ t = c.name /\ i \in PairIDs(c.get)
                 \/ t = c.name /\ c.pc \in Given /\ i = c.id /\ ~Naming(d)
      <3>1. tables'[t] = IF t = c.name THEN p ELSE tables[t]
        BY <2>2 DEF RecordsOK
      <3> QED
        BY <1>1, <1>2, <1>4, <2>2, <3>1, StoredRefs
    <2> QED
      BY <2>1, <2>2 DEF Replaces
  <1>5. Owns(n) <=> c.pc \in Given
    BY DEF Owns, Given
  <1>6. ASSUME NEW t \in Names, NEW i \in Ids, Refers(t, i)'
        PROVE  Refers(t, i)
    <2>1. CASE i \in PairIDs(tables'[t])
      BY <1>4, <1>5, <2>1 DEF Refers
    <2>2. ASSUME NEW m \in Nodes, api'[m].name = t,
                 i \in PairIDs(api'[m].get) \/ (Owns(m)' /\ i = api'[m].id)
          PROVE  Refers(t, i)
      <3>1. CASE m # n
        BY <1>2, <2>2, <3>1 DEF Refers, Owns
      <3>2. CASE m = n /\ i \in PairIDs(d.get)
        BY <1>2, <1>3, <2>2, <3>2 DEF Refers
      <3>3. CASE m = n /\ d.pc \in Given /\ i = d.id
        BY <1>2, <1>5, <2>2, <3>3 DEF Refers, Moves
      <3> QED
        BY <1>2, <2>2, <3>1, <3>2, <3>3 DEF Owns, Given
    <2> QED
      BY <1>6, <2>1, <2>2 DEF Refers
  <1>7. ASSUME NEW i \in Ids, Named(i)'
        PROVE  Named(i) \/ (Owns(n) /\ i = api[n].id /\ ~Naming(d))
    <2>1. ASSUME NEW t \in Names, i \in PairIDs(tables'[t])
          PROVE  Named(i) \/ (Owns(n) /\ i = api[n].id /\ ~Naming(d))
      BY <1>4, <1>5, <2>1 DEF Named
    <2>2. ASSUME NEW m \in Nodes, i \in PairIDs(api'[m].get)
          PROVE  Named(i)
      <3>1. CASE m # n
        BY <1>2, <2>2, <3>1 DEF Named
      <3>2. CASE m = n
        BY <1>2, <1>3, <2>2, <3>2 DEF Named
      <3> QED
        BY <3>1, <3>2
    <2> QED
      BY <1>7, <2>1, <2>2 DEF Named
  <1> QED
    BY <1>6, <1>7

(* The calls and the records keep what is true of them when a call goes on *)
(* without an ID being handed out.                                         *)
LEMMA CallMoves ==
    ASSUME SeqOK, RecordsOK, UniqueOK, WholeOK, NEW n \in Nodes, NEW d, seq' = seq,
           writes' \in Nat, whole \subseteq whole',
           api' = [api EXCEPT ![n] = d], Moves(n, d), Replaces(n, d)
    PROVE  SeqOK' /\ RecordsOK' /\ UniqueOK' /\ WholeOK'
  <1> DEFINE c == api[n]
             l == LastID
  <1>1. l \in Nat /\ l <= MaxIds /\ LastID' = l
    BY LastIs, ManagerAssumption DEF LastID, Exists, Get
  <1>2. /\ c \in CallSet(l) /\ d \in CallSet(l)
        /\ \A m \in Nodes : api'[m] = IF m = n THEN d ELSE api[m]
    BY DEF RecordsOK, Moves
  <1>3. ASSUME NEW m \in Nodes, Owns(m)'
        PROVE  Owns(m) /\ api'[m].id = api[m].id /\ api[m].id \in Ids
    <2>1. Owns(m) /\ api'[m].id = api[m].id
      BY <1>2, <1>3 DEF Owns, Moves, Given
    <2>2. api[m].id \in 1..l
      BY <2>1 DEF RecordsOK, CallSet, Owns, Given
    <2> QED
      BY <1>1, <2>1, <2>2, ManagerAssumption DEF Ids
  <1>4. RecordsOK'
    <2>1. api' \in [Nodes -> CallSet(l)]
      BY <1>2 DEF RecordsOK
    <2>2. tables' \in [Names -> PairSet(l)]
      BY DEF RecordsOK, Replaces
    <2> QED
      BY <1>1, <2>1, <2>2 DEF RecordsOK
  <1>5. OneName'
    BY NoNewReference, Zenon DEF OneName, UniqueOK
  <1>6. OneOwner'
    BY <1>3 DEF OneOwner, UniqueOK
  <1>7. Unnamed'
    <2> SUFFICES ASSUME NEW m \in Nodes, Naming(api[m])', Named(api[m].id)'
                 PROVE  FALSE
      BY DEF Unnamed
    <2>1. Owns(m)'
      BY DEF Owns, Naming
    <2>2. Owns(m) /\ api'[m].id = api[m].id /\ api[m].id \in Ids
      BY <1>3, <2>1
    <2>3. Naming(api[m])
      BY <1>2 DEF Moves
    <2>4. Named(api[m].id) \/ (Owns(n) /\ api[m].id = c.id /\ ~Naming(d))
      BY <2>2, NoNewReference, Zenon
    <2>5. m # n => ~(Owns(n) /\ api[m].id = c.id)
      BY <2>2 DEF OneOwner, UniqueOK
    <2>6. m = n => Naming(d)
      BY <1>2
    <2> QED
      BY <2>3, <2>4, <2>5, <2>6 DEF Unnamed, UniqueOK
  <1>8. ASSUME NEW t \in Names
        PROVE  /\ TableOf(tables'[t]).cluster = TableOf(tables'[t]).recover =>
                    TableOf(tables'[t]).cluster = 0
               /\ TableOf(tables'[t]).cluster \in whole' \cup {0}
    <2>1. CASE tables'[t] = tables[t]
      BY <2>1 DEF UniqueOK, TwoShards, WholeOK
    <2>2. ASSUME NEW p \in PairSet(l), Stores(c, TableOf(p)), tables'[t] = p
          PROVE  /\ TableOf(p).cluster = TableOf(p).recover => TableOf(p).cluster = 0
                 /\ TableOf(p).cluster \in whole' \cup {0}
      <3>1. ~(Naming(c) /\ c.id \in PairIDs(c.get))
        BY DEF UniqueOK, Unnamed, Named
      <3>2. Serving(c) => c.id \in whole
        BY DEF WholeOK
      <3>3. TableOf(c.get).cluster \in whole \cup {0}
        BY DEF WholeOK
      <3> QED
        BY <1>1, <1>2, <2>2, <3>1, <3>2, <3>3, StoredRefs
    <2>3. tables'[t] = tables[t] \/ \E p \in PairSet(l) : /\ Stores(c, TableOf(p))
                                                          /\ tables'[t] = p
      BY DEF Replaces, RecordsOK
    <2> QED
      BY <2>1, <2>2, <2>3
  <1>9. WholeOK'
    <2>1. TableOf(d.get).cluster \in whole \cup {0}
      <3>1. CASE d.get = Absent
        BY <1>1, <3>1, AbsentPair DEF NoTable, Table
      <3>2. CASE d.get = c.get
        BY <3>2 DEF WholeOK
      <3>3. CASE d.name \in Names /\ d.get = tables[d.name]
        BY <3>3 DEF WholeOK
      <3> QED
        BY <3>1, <3>2, <3>3 DEF Moves
    <2>2. Serving(d) => d.id \in whole'
      BY DEF Moves
    <2>3. ASSUME NEW m \in Nodes
          PROVE  /\ TableOf(api'[m].get).cluster \in whole' \cup {0}
                 /\ Serving(api'[m]) => api'[m].id \in whole'
      BY <1>2, <2>1, <2>2 DEF WholeOK
    <2> QED
      BY <1>8, <2>3 DEF WholeOK
  <1>10. SeqOK'
    BY DEF SeqOK, Exists
  <1> QED
    BY <1>4, <1>5, <1>6, <1>7, <1>8, <1>9, <1>10 DEF UniqueOK, TwoShards

(* incAndGetIDSeq hands out an ID above all those in use; the call that    *)
(* gets it goes on with it, or has given up.                               *)
LEMMA HandsOut ==
    ASSUME SeqOK, RecordsOK, UniqueOK, WholeOK, NEW n \in Nodes, NEW d,
           SeqOK', LastID' = LastID + 1, tables' = tables, writes' \in Nat,
           whole \subseteq whole', api' = [api EXCEPT ![n] = d],
           d \in CallSet(LastID'), d.get = api[n].get \/ d.get = Absent,
           d.pc \in Given =>
             d.id = LastID' /\ d.name = api[n].name /\ d.get = api[n].get,
           d.get # Absent => d.name = api[n].name,
           Serving(d) => d.id \in whole'
    PROVE  RecordsOK' /\ UniqueOK' /\ WholeOK'
  <1> DEFINE c == api[n]
             l == LastID
  <1>1. l \in Nat /\ l <= MaxIds /\ LastID' = l + 1 /\ l + 1 <= MaxIds
    <2>1. SeqOK' => LastID' \in 0..MaxIds
      BY DEF SeqOK, LastID, Exists, Get
    <2> QED
      BY <2>1, LastIs, ManagerAssumption
  <1>2. \A m \in Nodes : api'[m] = IF m = n THEN d ELSE api[m]
    BY DEF RecordsOK
  <1>3. /\ \A t \in Names : PairIDs(tables[t]) \subseteq 1..l
        /\ \A m \in Nodes : PairIDs(api[m].get) \subseteq 1..l
        /\ \A m \in Nodes : Owns(m) => api[m].id \in 1..l
    BY <1>1, PairTab DEF RecordsOK, CallSet, Owns, Given
  <1>4. \A i : i \in PairIDs(d.get) => d.name = c.name /\ i \in PairIDs(c.get)
    BY <1>1, AbsentPair
  <1>5. RecordsOK'
    <2>1. CallSet(l) \subseteq CallSet(l + 1) /\ PairSet(l) \subseteq PairSet(l + 1)
      BY <1>1, Grow
    <2>2. api' \in [Nodes -> CallSet(l + 1)]
      BY <1>1, <2>1 DEF RecordsOK
    <2>3. tables' \in [Names -> PairSet(l + 1)]
      BY <2>1 DEF RecordsOK
    <2> QED
      BY <1>1, <2>2, <2>3 DEF RecordsOK
  <1>6. ASSUME NEW m \in Nodes, Owns(m)'
        PROVE  \/ Owns(m) /\ m # n /\ api'[m] = api[m]
               \/ m = n /\ api'[m].id = l + 1
    BY <1>1, <1>2, <1>6 DEF Owns, Given
  <1>7. OneOwner'
    BY <1>1, <1>3, <1>6 DEF OneOwner, UniqueOK
  <1>8. ASSUME NEW t \in Names, NEW i \in Ids, Refers(t, i)'
        PROVE  Refers(t, i) \/ (i = l + 1 /\ t = c.name)
    <2>1. CASE i \in PairIDs(tables[t])
      BY <2>1 DEF Refers
    <2>2. ASSUME NEW m \in Nodes, api'[m].name = t, i \in PairIDs(api'[m].get)
          PROVE  Refers(t, i)
      BY <1>2, <1>4, <2>2 DEF Refers
    <2>3. ASSUME NEW m \in Nodes, api'[m].name = t, Owns(m)', i = api'[m].id
          PROVE  Refers(t, i) \/ (i = l + 1 /\ t = c.name)
      <3>1. CASE m # n
        BY <1>6, <2>3, <3>1 DEF Refers
      <3>2. CASE m = n
        BY <1>1, <1>2, <2>3, <3>2 DEF Owns, Given
      <3> QED
        BY <3>1, <3>2
    <2> QED
      BY <1>8, <2>1, <2>2, <2>3, Zenon DEF Refers
  <1>9. \A t \in Names : ~Refers(t, l + 1)
    BY <1>1, <1>3 DEF Refers
  <1>10. OneName'
    BY <1>8, <1>9 DEF OneName, UniqueOK
  <1>11. \A i : Named(i)' => Named(i)
    BY <1>2, <1>4 DEF Named
  <1>12. ~Named(l + 1)
    BY <1>1, <1>3 DEF Named
  <1>13. Unnamed'
    <2> SUFFICES ASSUME NEW m \in Nodes, Naming(api[m])', Named(api[m].id)'
                 PROVE  FALSE
      BY DEF Unnamed
    <2>1. Owns(m)'
      BY DEF Owns, Naming
    <2>2. Named(api'[m].id)
      BY <1>11
    <2> QED
      BY <1>6, <1>12, <2>1, <2>2 DEF Unnamed, UniqueOK
  <1>14. TwoShards'
    BY DEF TwoShards, UniqueOK
  <1>15. WholeOK'
    <2>1. TableOf(d.get).cluster \in whole \cup {0}
      BY <1>1, AbsentPair DEF WholeOK, NoTable, Table
    <2> QED
      BY <1>2, <2>1 DEF WholeOK
  <1> QED
    BY <1>5, <1>7, <1>10, <1>13, <1>14, <1>15 DEF UniqueOK

-----------------------------------------------------------------------------
(* The actions, and what they do to the calls and the records.             *)

Core == SeqOK /\ RecordsOK /\ UniqueOK /\ WholeOK

(* The loops of a node and the clock do not touch calls or records.        *)
LEMMA CoreQuiet ==
    ASSUME Core, UNCHANGED <<writes, seq, tables, api, whole>>
    PROVE  Core' /\ LastID' = LastID
  <1>1. LastID' = LastID
    BY DEF LastID, Exists, Get
  <1>2. SeqOK' /\ RecordsOK'
    BY <1>1 DEF Core, SeqOK, RecordsOK, Exists
  <1>3. UniqueOK'
    <2>1. /\ \A n \in Nodes : Owns(n)' <=> Owns(n)
          /\ \A t \in Names, i \in Ids : Refers(t, i)' <=> Refers(t, i)
          /\ \A i : Named(i)' <=> Named(i)
      BY DEF Owns, Refers, Named
    <2>2. OneName' /\ OneOwner'
      BY <2>1 DEF Core, UniqueOK, OneName, OneOwner
    <2>3. Unnamed' /\ TwoShards'
      BY <2>1 DEF Core, UniqueOK, Unnamed, TwoShards
    <2> QED
      BY <2>2, <2>3 DEF UniqueOK
  <1>4. WholeOK'
    BY DEF Core, WholeOK
  <1> QED
    BY <1>1, <1>2, <1>3, <1>4 DEF Core

(* The last ID handed out is a number within the bound.                    *)
LEMMA LastIn ==
    ASSUME Core
    PROVE  LastID \in Nat /\ LastID \in 0..MaxIds
  <1>1. LastID \in 0..MaxIds
    BY LastIs DEF Core
  <1> QED
    BY <1>1, ManagerAssumption

(* The fields of a call record.                                            *)
LEMMA CallFields ==
    ASSUME NEW op, NEW pc, NEW name, NEW get, NEW id, NEW ver
    PROVE  LET d == Call(op, pc, name, get, id, ver)
           IN /\ d.op = op /\ d.pc = pc /\ d.name = name
              /\ d.get = get /\ d.id = id /\ d.ver = ver
  BY DEF Call

(* A call that begins: CreateTable, DeleteTable and RestoreTable.          *)
LEMMA CoreBegin ==
    ASSUME Core, NEW n \in Nodes, NEW t \in Names,
           CreateTable(n, t) \/ DeleteTable(n, t) \/ RestoreTable(n, t)
    PROVE  Core'
  <1>1. LastID \in Nat
    BY LastIn
  <1>2. tables[t] \in PairSet(LastID) /\ Absent \in PairSet(LastID)
    BY <1>1, AbsentPair DEF Core, RecordsOK
  <1>3. UNCHANGED <<writes, seq, tables, whole>>
    BY DEF CreateTable, DeleteTable, RestoreTable, meta
  <1>4. \E d : api' = [api EXCEPT ![n] = d] /\ Moves(n, d)
    <2>1. CASE CreateTable(n, t)
      <3> DEFINE d == Call("create", "seq", t, Absent, 0, 0)
      <3>1. api' = [api EXCEPT ![n] = d]
        BY <2>1 DEF CreateTable, Begin
      <3>2. Moves(n, d)
        BY <1>2, Zenon DEF Moves, Call, CallSet, Given, Naming, Serving
      <3> QED
        BY <3>1, <3>2, Zenon
    <2>2. CASE DeleteTable(n, t)
      <3> DEFINE d == Call("delete", "delete", t, tables[t], 0, 0)
      <3>1. api' = [api EXCEPT ![n] = d]
        BY <2>2 DEF DeleteTable, Begin, Get
      <3>2. Moves(n, d)
        BY <1>2 DEF Moves, Call, CallSet, Given, Naming, Serving
      <3> QED
        BY <3>1, <3>2, Zenon
    <2>3. CASE RestoreTable(n, t)
      <3> DEFINE d == Call("restore", "seq", t, tables[t], 0, 0)
      <3>1. api' = [api EXCEPT ![n] = d]
        BY <2>3 DEF RestoreTable, Begin, Get
      <3>2. Moves(n, d)
        BY <1>2, Zenon DEF Moves, Call, CallSet, Given, Naming, Serving
      <3> QED
        BY <3>1, <3>2, Zenon
    <2> QED
      BY <2>1, <2>2, <2>3
  <1>5. PICK d : api' = [api EXCEPT ![n] = d] /\ Moves(n, d)
    BY <1>4, Zenon
  <1>6. Replaces(n, d) /\ writes' \in Nat
    BY <1>3 DEF Replaces, Core, RecordsOK
  <1> QED
    BY <1>3, <1>5, <1>6, CallMoves, Zenon DEF Core

(* A call that returns, whatever was the reason.                           *)
LEMMA CoreReturn ==
    ASSUME Core, NEW n \in Nodes, Return(n), UNCHANGED <<writes, seq, tables, whole>>
    PROVE  Core'
  <1>1. LastID \in Nat
    BY LastIn
  <1>2. Moves(n, NoCall) /\ Replaces(n, NoCall)
    BY <1>1, Idle DEF Moves, Replaces, Naming, Serving, Given
  <1>3. api' = [api EXCEPT ![n] = NoCall] /\ writes' \in Nat
    BY DEF Return, Core, RecordsOK
  <1> QED
    BY <1>2, <1>3, CallMoves, Zenon DEF Core

(* A call that goes on at pc with what it has.                             *)
LEMMA GotoMoves ==
    ASSUME Core, NEW n \in Nodes, NEW pc, Goto(n, pc), api[n].pc \in Given,
           pc \in Given, pc \in {"load", "get", "swap"} => api[n].op = "restore",
           LET d == Call(api[n].op, pc, api[n].name, api[n].get, api[n].id, api[n].ver)
           IN /\ Naming(d) => Naming(api[n])
              /\ Serving(d) => api[n].id \in whole'
    PROVE  LET d == Call(api[n].op, pc, api[n].name, api[n].get, api[n].id, api[n].ver)
           IN api' = [api EXCEPT ![n] = d] /\ Moves(n, d)
  <1> DEFINE c == api[n]
             d == Call(c.op, pc, c.name, c.get, c.id, c.ver)
  <1>1. c \in CallSet(LastID)
    BY DEF Core, RecordsOK
  <1>2. api' = [api EXCEPT ![n] = d]
    BY DEF Goto
  <1>3. /\ d.op = c.op /\ d.pc = pc /\ d.name = c.name
        /\ d.get = c.get /\ d.id = c.id /\ d.ver = c.ver
    BY DEF Call
  <1>4. d \in CallSet(LastID)
    BY <1>1 DEF CallSet, Call, Given
  <1> HIDE DEF d
  <1> QED
    BY <1>2, <1>3, <1>4, Zenon DEF Moves, d

(* incAndGetIDSeq reads the sequence.                                      *)
LEMMA CoreSeqGet ==
    ASSUME Core, NEW n \in Nodes, SeqGet(n)
    PROVE  Core'
  <1> DEFINE c == api[n]
             d == Call(c.op, "seqset", c.name, c.get, LastID + 1, seq[SequenceKey].ver)
  <1>1. LastID \in Nat /\ LastID = seq[SequenceKey].ver
    BY LastIn, LastIs DEF Core
  <1>2. UNCHANGED <<writes, seq, tables, whole>> /\ c.pc = "seq"
    BY DEF SeqGet, meta
  <1>3. CASE Return(n)
    BY <1>2, <1>3, CoreReturn
  <1>4. CASE LastID < MaxIds /\ api' = [api EXCEPT ![n] = d]
    <2>1. c \in CallSet(LastID)
      BY DEF Core, RecordsOK
    <2>2. d \in CallSet(LastID)
      BY <1>1, <1>2, <1>4, <2>1, ManagerAssumption DEF CallSet, Call, Given
    <2>3. Moves(n, d)
      BY <2>2, Zenon DEF Moves, Call, Given, Naming, Serving
    <2>4. Replaces(n, d) /\ writes' \in Nat
      BY <1>2 DEF Replaces, Core, RecordsOK
    <2> HIDE DEF d
    <2> QED
      BY <1>2, <1>4, <2>3, <2>4, CallMoves, Zenon DEF Core
  <1> QED
    BY <1>3, <1>4 DEF SeqGet, Get

(* An update after which the call has returned: CallRejected, a failed     *)
(* call whose update was applied, and the last update of a call.           *)
LEMMA CoreApplyReturn ==
    ASSUME Core, NEW n \in Nodes, NEW ok \in BOOLEAN, Apply(api[n], ok), Return(n),
           whole' = whole
    PROVE  Core' /\ LastID \in Nat /\ LastID' \in Nat /\ LastID <= LastID'
  <1>1. LastID \in Nat
    BY LastIn
  <1>2. api' = [api EXCEPT ![n] = NoCall]
    BY DEF Return
  <1>3. CASE api[n].pc = "seqset" /\ ok
    <2>1. /\ writes' \in Nat /\ tables' = tables /\ SeqOK' /\ LastID' = LastID + 1
      BY <1>3, ApplyEffect, Zenon DEF Core
    <2>2. /\ NoCall \in CallSet(LastID') /\ NoCall.pc = "idle" /\ NoCall.get = Absent
      BY <1>1, <2>1, Idle
    <2>3. ~Serving(NoCall) /\ NoCall.pc \notin Given
      BY <2>2 DEF Serving, Given
    <2>4. RecordsOK' /\ UniqueOK' /\ WholeOK'
      BY <1>2, <2>1, <2>2, <2>3, HandsOut, Zenon DEF Core
    <2> QED
      BY <1>1, <2>1, <2>4 DEF Core
  <1>4. CASE ~(api[n].pc = "seqset" /\ ok)
    <2>1. /\ writes' \in Nat /\ seq' = seq
          /\ \/ tables' = tables
             \/ \E p \in PairSet(LastID) : /\ tables' = [tables EXCEPT ![api[n].name] = p]
                                           /\ Stores(api[n], TableOf(p))
      BY <1>4, ApplyEffect DEF Core
    <2>2. Moves(n, NoCall) /\ Replaces(n, NoCall)
      BY <1>1, <2>1, Idle DEF Moves, Replaces, Naming, Serving, Given
    <2>3. Core'
      BY <1>2, <2>1, <2>2, CallMoves, Zenon DEF Core
    <2>4. LastID' = LastID
      BY <2>1 DEF LastID, Exists, Get
    <2> QED
      BY <1>1, <2>3, <2>4
  <1> QED
    BY <1>3, <1>4

(* An update of a call that is applied.                                    *)
LEMMA CoreUpdated ==
    ASSUME Core, NEW n \in Nodes, CallUpdated(n)
    PROVE  Core' /\ LastID \in Nat /\ LastID' \in Nat /\ LastID <= LastID'
  <1> DEFINE c == api[n]
  <1>1. LastID \in Nat
    BY LastIn
  <1>2. c \in CallSet(LastID)
    BY DEF Core, RecordsOK
  <1>3. Apply(c, TRUE) /\ c.pc \in {"seqset", "set", "swap", "delete"}
    BY DEF CallUpdated, Apply
  <1>4. CASE c.pc \in {"swap", "delete"}
    <2>1. Return(n) /\ whole' = whole
      BY <1>4 DEF CallUpdated, AfterSeq
    <2> QED
      BY <1>3, <2>1, CoreApplyReturn, Zenon
  <1>5. CASE c.pc = "seqset"
    <2> DEFINE pc == AfterUpdate(c)
               d == Call(c.op, pc, c.name, c.get, c.id, c.ver)
    <2>1. /\ writes' \in Nat /\ tables' = tables /\ SeqOK' /\ LastID' = LastID + 1
          /\ c.id = LastID'
      BY <1>3, <1>5, ApplyEffect, Zenon DEF Core
    <2>2. c.op \in {"create", "restore"}
      BY <1>2, <1>5 DEF CallSet
    <2>3. /\ c.op = "create" => pc = "set"
          /\ c.op = "restore" => pc = "start"
      BY <1>5, Zenon DEF AfterUpdate
    <2>4. api' = [api EXCEPT ![n] = d]
      BY <1>5 DEF CallUpdated, Goto
    <2>5. whole' = IF c.op = "create" THEN whole \cup {c.id} ELSE whole
      BY <1>5 DEF CallUpdated, AfterSeq
    <2> HIDE DEF pc
    <2>6. /\ d.op = c.op /\ d.pc = pc /\ d.name = c.name
          /\ d.get = c.get /\ d.id = c.id /\ d.ver = c.ver
      BY CallFields
    <2>7. c \in CallSet(LastID')
      BY <1>1, <1>2, <2>1, Grow
    <2>8. d \in CallSet(LastID')
      BY <1>1, <1>5, <2>1, <2>2, <2>3, <2>7 DEF CallSet, Call, Given
    <2>9. Serving(d) => d.id \in whole'
      BY <2>2, <2>3, <2>5, <2>6 DEF Serving
    <2> HIDE DEF d
    <2>10. RecordsOK' /\ UniqueOK' /\ WholeOK'
      BY <2>1, <2>4, <2>5, <2>6, <2>8, <2>9, HandsOut, Zenon DEF Core
    <2> QED
      BY <1>1, <2>1, <2>10 DEF Core
  <1>6. CASE c.pc = "set"
    <2> DEFINE pc == AfterUpdate(c)
               d == Call(c.op, pc, c.name, c.get, c.id, c.ver)
    <2>1. c.op \in {"create", "restore"}
      BY <1>2, <1>6 DEF CallSet
    <2>2. /\ c.op = "create" => pc = "start"
          /\ c.op = "restore" => pc = "load"
      BY <1>6, Zenon DEF AfterUpdate
    <2>3. Goto(n, pc) /\ whole' = whole
      BY <1>6 DEF CallUpdated, AfterSeq
    <2>4. /\ writes' \in Nat /\ seq' = seq
          /\ \/ tables' = tables
             \/ \E p \in PairSet(LastID) : /\ tables' = [tables EXCEPT ![c.name] = p]
                                           /\ Stores(c, TableOf(p))
      BY <1>3, <1>6, ApplyEffect, Zenon DEF Core
    <2> HIDE DEF pc
    <2>5. ~Naming(d) /\ ~Serving(d)
      BY <2>1, <2>2 DEF Naming, Serving, Call
    <2>6. api' = [api EXCEPT ![n] = d] /\ Moves(n, d)
      BY <1>6, <2>1, <2>2, <2>3, <2>5, GotoMoves, Zenon DEF Given
    <2> HIDE DEF d
    <2>7. Replaces(n, d)
      BY <2>4, <2>5 DEF Replaces
    <2>8. Core'
      BY <2>3, <2>4, <2>6, <2>7, CallMoves, Zenon DEF Core
    <2>9. LastID' = LastID
      BY <2>4 DEF LastID, Exists, Get
    <2> QED
      BY <1>1, <2>8, <2>9
  <1> QED
    BY <1>3, <1>4, <1>5, <1>6

(* The steps of a call that update nothing, and a crash.                   *)
LEMMA CoreOther ==
    ASSUME Core, NEW n \in Nodes,
           \/ CallStart(n) \/ CallLoad(n) \/ CallLoadStopped(n) \/ CallGet(n)
           \/ Crash(n)
    PROVE  Core'
  <1> DEFINE c == api[n]
  <1>1. c \in CallSet(LastID) /\ LastID \in Nat
    BY LastIn DEF Core, RecordsOK
  <1>2. UNCHANGED <<writes, seq, tables>> /\ writes' \in Nat
    BY DEF CallStart, CallLoad, CallLoadStopped, CallGet, Crash, meta, Core, RecordsOK
  <1>3. \A d : Replaces(n, d)
    BY <1>2 DEF Replaces
  <1>4. CASE CallStart(n)
    <2>1. c.pc = "start" /\ whole' = whole
      BY <1>4 DEF CallStart
    <2>2. CASE Return(n)
      BY <1>2, <2>1, <2>2, CoreReturn
    <2>3. CASE c.op = "restore" /\ Goto(n, "set")
      <3> DEFINE d == Call(c.op, "set", c.name, c.get, c.id, c.ver)
      <3>1. (Naming(d) => Naming(c)) /\ ~Serving(d)
        BY <2>1, <2>3 DEF Naming, Serving, Call
      <3>2. api' = [api EXCEPT ![n] = d] /\ Moves(n, d)
        BY <2>1, <2>3, <3>1, GotoMoves, Zenon DEF Given
      <3> HIDE DEF d
      <3> QED
        BY <1>2, <1>3, <2>1, <3>2, CallMoves, Zenon DEF Core
    <2> QED
      BY <1>4, <2>2, <2>3, Zenon DEF CallStart
  <1>5. CASE CallLoad(n)
    <2> DEFINE d == Call(c.op, "get", c.name, c.get, c.id, c.ver)
    <2>1. c.pc = "load" /\ whole' = whole \cup {c.id} /\ Goto(n, "get")
      BY <1>5 DEF CallLoad
    <2>2. c.op = "restore"
      BY <1>1, <2>1 DEF CallSet
    <2>3. ~Naming(d) /\ c.id \in whole'
      BY <2>1 DEF Naming, Call
    <2>4. api' = [api EXCEPT ![n] = d] /\ Moves(n, d)
      BY <2>1, <2>2, <2>3, GotoMoves, Zenon DEF Given
    <2> HIDE DEF d
    <2> QED
      BY <1>2, <1>3, <2>1, <2>4, CallMoves, Zenon DEF Core
  <1>6. CASE CallLoadStopped(n)
    BY <1>2, <1>6, CoreReturn, Zenon DEF CallLoadStopped
  <1>7. CASE CallGet(n)
    <2>1. whole' = whole /\ c.pc = "get"
      BY <1>7 DEF CallGet
    <2>2. CASE Return(n)
      BY <1>2, <2>1, <2>2, CoreReturn
    <2>3. CASE api' = [api EXCEPT ![n] = Call(c.op, "swap", c.name, tables[c.name], c.id, 0)]
      <3> DEFINE d == Call(c.op, "swap", c.name, tables[c.name], c.id, 0)
      <3>1. c.name \in Names /\ tables[c.name] \in PairSet(LastID)
        BY <1>1, <2>1 DEF CallSet, Core, RecordsOK
      <3>2. d \in CallSet(LastID)
        BY <1>1, <2>1, <3>1, Zenon DEF CallSet, Call, Given
      <3>3. c.id \in whole
        BY <2>1 DEF Core, WholeOK, Serving
      <3>4. Moves(n, d)
        BY <2>1, <3>1, <3>2, <3>3, Zenon DEF Moves, Call, Given, Naming
      <3> HIDE DEF d
      <3> QED
        BY <1>2, <1>3, <2>1, <2>3, <3>4, CallMoves, Zenon DEF Core, d
    <2> QED
      BY <1>7, <2>2, <2>3, Zenon DEF CallGet, Get
  <1>8. CASE Crash(n)
    BY <1>2, <1>8, CoreReturn, Zenon DEF Crash, Return
  <1> QED
    BY <1>4, <1>5, <1>6, <1>7, <1>8

-----------------------------------------------------------------------------
(* The actions, and what they do to the loops of the nodes.                *)

(* The loops know no more than before when the sequence moves on.          *)
LEMMA LoopsQuiet ==
    ASSUME LoopsOK, LastID \in Nat, LastID' \in Nat, LastID <= LastID',
           UNCHANGED <<started, rec, cache, cleanups, cln, removed, now>>
    PROVE  LoopsOK'
  <1>1. /\ RecSet(LastID) \subseteq RecSet(LastID')
        /\ ClnSet(LastID) \subseteq ClnSet(LastID')
        /\ 0..LastID \subseteq 0..LastID' /\ 1..LastID \subseteq 1..LastID'
    BY Grow
  <1>2. started' \in [Nodes -> SUBSET (1..LastID')] /\ rec' \in [Nodes -> RecSet(LastID')]
    BY <1>1 DEF LoopsOK
  <1>3. cache' \in [Nodes -> [Names -> 0..LastID']]
    BY <1>1 DEF LoopsOK
  <1>4. cln' \in [Nodes -> ClnSet(LastID')] /\ removed' \subseteq Nodes \X (1..LastID')
    BY <1>1 DEF LoopsOK
  <1>5. \A n \in Nodes, i \in Ids : cleanups'[<<n, i>>].ver # 0 => i <= LastID'
    BY ManagerAssumption DEF LoopsOK, Ids
  <1> QED
    BY <1>2, <1>3, <1>4, <1>5 DEF LoopsOK

(* The records of reconciliations, which cache the tables of a node.       *)
LEMMA RecIn ==
    ASSUME NEW l \in Nat, NEW pc \in {"idle", "read", "apply"},
           NEW tabs \in [Names -> Tabs(l)],
           NEW start \in SUBSET (1..l), NEW stop \in SUBSET (1..l)
    PROVE  Reconcile(pc, tabs, start, stop) \in RecSet(l)
  <1>1. NoTabs \in [Names -> Tabs(l)]
    BY DEF NoTabs, NoTable, Table, Tabs
  <1> QED
    BY <1>1 DEF Reconcile, RecSet

(* The reconciliation that is over.                                        *)
LEMMA RecIdle ==
    ASSUME NEW l \in Nat
    PROVE  NoReconcile \in RecSet(l)
  <1>1. NoTabs \in [Names -> Tabs(l)]
    BY DEF NoTabs, NoTable, Table, Tabs
  <1> QED
    BY <1>1, RecIn DEF NoReconcile

(* What is left of a reconciliation.                                       *)
LEMMA RemainingIn ==
    ASSUME NEW l \in Nat, NEW n \in Nodes, NEW tabs \in [Names -> Tabs(l)],
           NEW start \in SUBSET (1..l), NEW stop \in SUBSET (1..l),
           rec \in [Nodes -> RecSet(l)], Remaining(n, tabs, start, stop)
    PROVE  rec' \in [Nodes -> RecSet(l)]
  <1>1. NoReconcile \in RecSet(l) /\ Reconcile("apply", tabs, start, stop) \in RecSet(l)
    BY RecIdle, RecIn
  <1> QED
    BY <1>1 DEF Remaining

(* The shards that diffTables finds in records in range are in range.      *)
LEMMA IDsIn ==
    ASSUME NEW l \in Nat, NEW tabs \in [Names -> Tabs(l)]
    PROVE  TableIDs(tabs) \in SUBSET (1..l)
  BY TableIDsElem DEF Tabs

(* The tables that getTables returns.                                      *)
LEMMA GetTablesIn ==
    ASSUME Core
    PROVE  GetTables \in [Names -> Tabs(LastID)]
  <1>1. LastID \in Nat
    BY LastIn
  <1> QED
    BY <1>1, PairTab DEF GetTables, Core, RecordsOK

(* The steps of calls and a crash.                                         *)
LEMMA LoopsCalls ==
    ASSUME Core, LoopsOK, NEW n \in Nodes, LastID' = LastID,
           \/ \E t \in Names : CreateTable(n, t) \/ DeleteTable(n, t) \/ RestoreTable(n, t)
           \/ SeqGet(n) \/ CallLoad(n) \/ CallLoadStopped(n) \/ CallGet(n)
           \/ CallStart(n) \/ Crash(n)
    PROVE  LoopsOK'
  <1> DEFINE c == api[n]
             l == LastID
  <1>1. l \in Nat
    BY LastIn
  <1>2. CASE \/ \E t \in Names : CreateTable(n, t) \/ DeleteTable(n, t) \/ RestoreTable(n, t)
             \/ SeqGet(n) \/ CallLoad(n) \/ CallLoadStopped(n) \/ CallGet(n)
    <2>1. UNCHANGED <<started, rec, cache, cleanups, cln, removed, now>>
      BY <1>2, Zenon DEF CreateTable, DeleteTable, RestoreTable, SeqGet,
         CallLoad,
                  CallLoadStopped, CallGet, meta
    <2> QED
      BY <1>1, <2>1, LoopsQuiet
  <1>3. CASE CallStart(n)
    <2>1. /\ started' = [started EXCEPT ![n] = @ \cup {c.id}]
          /\ UNCHANGED <<rec, cache, cleanups, cln, removed, now>> /\ c.pc = "start"
      BY <1>3, Zenon DEF CallStart, meta
    <2>2. c.id \in 1..l
      BY <2>1 DEF Core, RecordsOK, CallSet, Given
    <2>3. started' \in [Nodes -> SUBSET (1..l)]
      BY <2>1, <2>2, Zenon DEF LoopsOK
    <2> QED
      BY <2>1, <2>3, Zenon DEF LoopsOK
  <1>4. CASE Crash(n)
    <2>1. /\ started' = [started EXCEPT ![n] = {}]
          /\ cache' = [cache EXCEPT ![n] = [t \in Names |-> 0]]
          /\ rec' = [rec EXCEPT ![n] = NoReconcile]
          /\ cln' = [cln EXCEPT ![n] = NoCleaning]
          /\ UNCHANGED <<cleanups, removed, now>>
      BY <1>4 DEF Crash, meta
    <2>2. NoReconcile \in RecSet(l) /\ NoCleaning \in ClnSet(l)
      BY <1>1, RecIdle DEF NoCleaning, Cleaning, ClnSet
    <2>3. started' \in [Nodes -> SUBSET (1..l)] /\ rec' \in [Nodes -> RecSet(l)]
      BY <2>1, <2>2 DEF LoopsOK
    <2>4. cache' \in [Nodes -> [Names -> 0..l]]
      BY <1>1, <2>1 DEF LoopsOK
    <2>5. cln' \in [Nodes -> ClnSet(l)]
      BY <2>1, <2>2 DEF LoopsOK
    <2> QED
      BY <2>1, <2>3, <2>4, <2>5 DEF LoopsOK
  <1> QED
    BY <1>2, <1>3, <1>4

(* An update of a call: the end of a restore caches the table.             *)
LEMMA LoopsUpdated ==
    ASSUME Core, LoopsOK, NEW n \in Nodes, CallUpdated(n), Core',
           LastID \in Nat, LastID' \in Nat, LastID <= LastID'
    PROVE  LoopsOK'
  <1> DEFINE c == api[n]
             l == LastID
  <1>1. UNCHANGED <<started, rec, cln, removed, now, cleanups>>
    BY DEF CallUpdated, Apply
  <1>2. CASE cache' = cache
    BY <1>1, <1>2, LoopsQuiet
  <1>3. CASE c.pc = "swap" /\ cache' = [cache EXCEPT ![n][c.name] = c.id]
    <2>1. c.id \in 1..l /\ c.name \in Names
      BY <1>3 DEF Core, RecordsOK, CallSet, Given
    <2>2. seq' = seq
      BY <1>3 DEF CallUpdated, Apply
    <2>3. LastID' = l
      BY <2>2 DEF LastID, Exists, Get
    <2>4. cache' \in [Nodes -> [Names -> 0..l]]
      BY <1>3, <2>1 DEF LoopsOK
    <2> QED
      BY <1>1, <2>3, <2>4 DEF LoopsOK
  <1> QED
    BY <1>2, <1>3 DEF CallUpdated

(* The reconcile loop.                                                     *)
LEMMA LoopsReconcile ==
    ASSUME Core, LoopsOK, NEW n \in Nodes, LastID' = LastID,
           ReconcileStep(n) \/ ReconcileFails(n)
    PROVE  LoopsOK'
  <1> DEFINE r == rec[n]
             l == LastID
  <1>1. l \in Nat
    BY LastIn
  <1>2. /\ r \in RecSet(l) /\ r.tabs \in [Names -> Tabs(l)]
        /\ r.start \in SUBSET (1..l) /\ r.stop \in SUBSET (1..l)
        /\ started[n] \in SUBSET (1..l) /\ rec \in [Nodes -> RecSet(l)]
    BY DEF LoopsOK, RecSet
  <1>3. \A t \in Names : r.tabs[t].cluster \in 0..l
    BY <1>2, Zenon DEF Tabs
  <1>4. CASE ReconcileRead(n)
    <2>1. Reconcile("read", GetTables, {}, {}) \in RecSet(l)
      BY <1>1, GetTablesIn, RecIn
    <2>2. rec' \in [Nodes -> RecSet(l)]
      BY <1>2, <1>4, <2>1, Zenon DEF ReconcileRead
    <2> QED
      BY <1>4, <2>2 DEF ReconcileRead, LoopsOK, meta
  <1>5. CASE ReconcileDiff(n)
    <2>1. TableIDs(r.tabs) \in SUBSET (1..l)
      BY <1>1, <1>2, IDsIn
    <2>2. rec' \in [Nodes -> RecSet(l)]
      <3>1. /\ TableIDs(r.tabs) \ started[n] \in SUBSET (1..l)
            /\ started[n] \ TableIDs(r.tabs) \in SUBSET (1..l)
        BY <1>2, <2>1
      <3>2. Remaining(n, r.tabs, TableIDs(r.tabs) \ started[n],
                      started[n] \ TableIDs(r.tabs))
        BY <1>5 DEF ReconcileDiff
      <3> QED
        BY <1>1, <1>2, <3>1, <3>2, RemainingIn, Zenon
    <2>3. cache' \in [Nodes -> [Names -> 0..l]]
      <3>1. cache' = [cache EXCEPT ![n] =
                        [t \in Names |-> IF r.tabs[t] = NoTable THEN cache[n][t]
                                         ELSE r.tabs[t].cluster]]
        BY <1>5 DEF ReconcileDiff
      <3> QED
        BY <1>3, <3>1, Zenon DEF LoopsOK
    <2>4. UNCHANGED <<started, cleanups, cln, removed, now>>
      BY <1>5 DEF ReconcileDiff, meta
    <2> QED
      BY <2>2, <2>3, <2>4 DEF LoopsOK
  <1>6. ASSUME NEW id \in Ids, ReconcileStart(n, id)
        PROVE  LoopsOK'
    <2>1. /\ id \in r.start /\ started' = [started EXCEPT ![n] = @ \cup {id}]
          /\ UNCHANGED <<cleanups, cln, removed, now>>
      BY <1>6, Zenon DEF ReconcileStart, meta
    <2>2. started' \in [Nodes -> SUBSET (1..l)]
      BY <1>2, <2>1 DEF LoopsOK
    <2>3. CASE rec' = [rec EXCEPT ![n] = NoReconcile] /\ cache' = cache
      <3>1. rec' \in [Nodes -> RecSet(l)]
        BY <1>1, <1>2, <2>3, RecIdle, Zenon
      <3> QED
        BY <2>1, <2>2, <2>3, <3>1, Zenon DEF LoopsOK
    <2>4. CASE /\ Remaining(n, r.tabs, r.start \ {id}, r.stop)
               /\ cache' = [cache EXCEPT ![n] =
                     [t \in Names |->
                        IF id \in {r.tabs[t].cluster, r.tabs[t].recover}
                        THEN r.tabs[t].cluster ELSE cache[n][t]]]
      <3>1. rec' \in [Nodes -> RecSet(l)]
        <4>1. r.start \ {id} \in SUBSET (1..l)
          BY <1>2
        <4> QED
          BY <1>1, <1>2, <2>4, <4>1, RemainingIn, Zenon
      <3>2. cache' \in [Nodes -> [Names -> 0..l]]
        BY <1>3, <2>4 DEF LoopsOK
      <3> QED
        BY <2>1, <2>2, <3>1, <3>2, Zenon DEF LoopsOK
    <2> QED
      BY <1>6, <2>3, <2>4 DEF ReconcileStart
  <1>7. ASSUME NEW id \in Ids, ReconcileStop(n, id)
        PROVE  LoopsOK'
    <2> DEFINE key == <<n, id>>
               u == SetOp(key, now, cleanups[key].ver)
               p == [ver |-> cleanups[key].ver + 1, val |-> now]
    <2>1. /\ id \in started[n] /\ id \in 1..l
          /\ started' = [started EXCEPT ![n] = @ \ {id}]
          /\ cleanups' = Update(cleanups, u, cleanups[key].ver + 1)
          /\ Remaining(n, r.tabs, {}, r.stop \ {id})
          /\ cache' = [cache EXCEPT ![n] =
                         [t \in Names |-> IF cache[n][t] = id THEN 0 ELSE cache[n][t]]]
          /\ UNCHANGED <<cln, removed, now>>
      BY <1>2, <1>7, Zenon DEF ReconcileStop, Get
    <2>2. started' \in [Nodes -> SUBSET (1..l)]
      BY <1>2, <2>1, Zenon DEF LoopsOK
    <2>3. rec' \in [Nodes -> RecSet(l)]
      <3>1. r.stop \ {id} \in SUBSET (1..l) /\ {} \in SUBSET (1..l)
        BY <1>2
      <3> QED
        BY <1>1, <1>2, <2>1, <3>1, RemainingIn, Zenon
    <2>4. cache' \in [Nodes -> [Names -> 0..l]]
      BY <1>1, <2>1 DEF LoopsOK
    <2>5. key \in Nodes \X Ids /\ p \in [ver : Nat, val : Nat \cup {NoValue}]
      BY DEF LoopsOK
    <2>6. cleanups' = cleanups \/ cleanups' = [cleanups EXCEPT ![key] = p]
      BY <2>1, Zenon DEF Update, SetOp, Set
    <2> HIDE DEF p
    <2>7. cleanups' \in [Nodes \X Ids -> [ver : Nat, val : Nat \cup {NoValue}]]
      BY <2>5, <2>6, Zenon DEF LoopsOK
    <2>8. \A m \in Nodes, i \in Ids : cleanups'[<<m, i>>].ver # 0 => i <= l
      <3> SUFFICES ASSUME NEW m \in Nodes, NEW i \in Ids, cleanups'[<<m, i>>].ver # 0
                   PROVE  i <= l
        OBVIOUS
      <3>1. CASE <<m, i>> = key
        BY <1>1, <2>1, <3>1
      <3>2. CASE <<m, i>> # key
        <4>1. cleanups'[<<m, i>>] = cleanups[<<m, i>>]
          BY <2>5, <2>6, <3>2 DEF LoopsOK
        <4> QED
          BY <4>1 DEF LoopsOK
      <3> QED
        BY <3>1, <3>2
    <2> QED
      BY <2>1, <2>2, <2>3, <2>4, <2>7, <2>8, Zenon DEF LoopsOK
  <1>8. CASE ReconcileFails(n)
    <2>1. rec' \in [Nodes -> RecSet(l)]
      BY <1>1, <1>2, <1>8, RecIdle DEF ReconcileFails
    <2> QED
      BY <1>8, <2>1 DEF ReconcileFails, LoopsOK, meta
  <1> QED
    BY <1>4, <1>5, <1>6, <1>7, <1>8 DEF ReconcileStep

(* The cleanup loop, and the clock.                                        *)
LEMMA LoopsCleanup ==
    ASSUME Core, LoopsOK, LastID' = LastID,
           Tick \/ \E n \in Nodes : CleanupStep(n)
    PROVE  LoopsOK'
  <1> DEFINE l == LastID
  <1>1. l \in Nat
    BY LastIn
  <1>2. CASE Tick
    BY <1>2 DEF Tick, LoopsOK, meta
  <1>3. NoCleaning \in ClnSet(l)
    BY <1>1 DEF NoCleaning, Cleaning, ClnSet
  <1>4. ASSUME NEW n \in Nodes, CleanupStep(n)
        PROVE  LoopsOK'
    <2> DEFINE c == cln[n]
    <2>1. c.id \in 0..l /\ c.ver \in Nat /\ (c.pc # "idle" => c.id # 0)
      BY DEF LoopsOK, ClnSet
    <2>2. ASSUME NEW pc \in {"idle", "check", "remove", "delete"}, NEW i \in 0..l,
                 NEW v \in Nat, pc # "idle" => i # 0,
                 cln' = [cln EXCEPT ![n] = Cleaning(pc, i, v)]
          PROVE  cln' \in [Nodes -> ClnSet(l)]
      <3>1. Cleaning(pc, i, v) \in ClnSet(l)
        BY <2>2 DEF Cleaning, ClnSet
      <3> QED
        BY <2>2, <3>1 DEF LoopsOK
    <2>3. ASSUME NEW id \in Ids, CleanupRead(n, id)
          PROVE  LoopsOK'
      <3>1. /\ cln' = [cln EXCEPT ![n] = Cleaning("check", id, cleanups[<<n, id>>].ver)]
            /\ cleanups[<<n, id>>].ver # 0
            /\ UNCHANGED <<started, rec, cache, cleanups, removed, now>>
        BY <2>3, Zenon DEF CleanupRead, Get, meta
      <3>2. id \in 0..l /\ id # 0 /\ cleanups[<<n, id>>].ver \in Nat
        BY <1>1, <3>1, ManagerAssumption DEF LoopsOK, Ids
      <3>3. cln' \in [Nodes -> ClnSet(l)]
        BY <2>2, <3>1, <3>2, Zenon
      <3> QED
        BY <3>1, <3>3 DEF LoopsOK
    <2>4. CASE CleanupCheck(n)
      <3>1. /\ c.pc = "check"
            /\ \/ cln' = [cln EXCEPT ![n] = Cleaning("delete", c.id, c.ver)]
               \/ cln' = [cln EXCEPT ![n] = Cleaning("remove", c.id, c.ver)]
            /\ UNCHANGED <<started, rec, cache, cleanups, removed, now>>
        BY <2>4, Zenon DEF CleanupCheck, meta
      <3>2. cln' \in [Nodes -> ClnSet(l)]
        BY <2>1, <2>2, <3>1
      <3> QED
        BY <3>1, <3>2 DEF LoopsOK
    <2>5. CASE CleanupRemove(n)
      <3>1. /\ c.pc = "remove"
            /\ cln' = [cln EXCEPT ![n] = Cleaning("delete", c.id, c.ver)]
            /\ removed' = removed \cup {<<n, c.id>>}
            /\ UNCHANGED <<started, rec, cache, cleanups, now>>
        BY <2>5 DEF CleanupRemove, meta
      <3>2. cln' \in [Nodes -> ClnSet(l)]
        BY <2>1, <2>2, <3>1, Zenon
      <3>3. c.id \in 1..l
        BY <1>1, <2>1, <3>1
      <3> QED
        BY <3>1, <3>2, <3>3 DEF LoopsOK
    <2>6. CASE CleanupDelete(n)
      <3>1. /\ cleanups' = Update(cleanups, DeleteOp(<<n, c.id>>, c.ver), 0)
            /\ cln' = [cln EXCEPT ![n] = NoCleaning] /\ c.pc = "delete"
            /\ UNCHANGED <<started, rec, cache, removed, now>>
        BY <2>6 DEF CleanupDelete
      <3>2. cln' \in [Nodes -> ClnSet(l)]
        BY <1>3, <3>1 DEF LoopsOK
      <3>3. cleanups' = cleanups \/ cleanups' = [cleanups EXCEPT ![<<n, c.id>>] = Absent]
        BY <3>1 DEF Update, DeleteOp, Delete
      <3>4. Absent \in [ver : Nat, val : Nat \cup {NoValue}] /\ Absent.ver = 0
        BY DEF Absent
      <3>5. cleanups' \in [Nodes \X Ids -> [ver : Nat, val : Nat \cup {NoValue}]]
        BY <3>3, <3>4, Zenon DEF LoopsOK
      <3>6. \A m \in Nodes, i \in Ids : \/ cleanups'[<<m, i>>] = cleanups[<<m, i>>]
                                        \/ cleanups'[<<m, i>>] = Absent
        BY <3>3, Zenon DEF LoopsOK
      <3>7. \A m \in Nodes, i \in Ids : cleanups'[<<m, i>>].ver # 0 => i <= l
        BY <3>4, <3>6 DEF LoopsOK
      <3> QED
        BY <3>1, <3>2, <3>5, <3>7, Zenon DEF LoopsOK
    <2>7. CASE CleanupTimeout(n)
      <3>1. cln' = [cln EXCEPT ![n] = NoCleaning]
        BY <2>7 DEF CleanupTimeout
      <3>2. cln' \in [Nodes -> ClnSet(l)]
        BY <1>3, <3>1 DEF LoopsOK
      <3> QED
        BY <2>7, <3>2 DEF CleanupTimeout, LoopsOK, meta
    <2> QED
      BY <1>4, <2>3, <2>4, <2>5, <2>6, <2>7 DEF CleanupStep
  <1> QED
    BY <1>2, <1>4

-----------------------------------------------------------------------------
(* The inductive invariant.                                                *)

(* No tables, no calls, no replicas.                                       *)
LEMMA InitOK == Init => IInv
  <1> SUFFICES ASSUME Init
               PROVE  IInv
    OBVIOUS
  <1>1. seq[SequenceKey] = Absent /\ Absent.ver = 0
    BY DEF Init, Absent
  <1>2. SeqOK
    BY <1>1, ManagerAssumption DEF Init, SeqOK, Exists, Absent
  <1>3. LastID = 0
    BY <1>1 DEF LastID, Exists
  <1>4. /\ Absent \in PairSet(0) /\ TableOf(Absent) = NoTable /\ PairIDs(Absent) = {}
        /\ NoCall \in CallSet(0) /\ NoCall.pc = "idle" /\ NoCall.get = Absent
        /\ NoReconcile \in RecSet(0) /\ NoCleaning \in ClnSet(0)
    BY AbsentPair, Idle, RecIdle DEF NoCleaning, Cleaning, ClnSet
  <1>5. /\ \A t \in Names : tables[t] = Absent
        /\ \A n \in Nodes : api[n] = NoCall
    BY DEF Init
  <1>6. RecordsOK
    BY <1>3, <1>4 DEF Init, RecordsOK
  <1>7. LoopsOK
    <2>1. Absent \in [ver : Nat, val : Nat \cup {NoValue}]
      BY DEF Absent
    <2>2. cleanups \in [Nodes \X Ids -> [ver : Nat, val : Nat \cup {NoValue}]]
      BY <2>1 DEF Init
    <2>3. \A n \in Nodes, i \in Ids : cleanups[<<n, i>>].ver = 0
      BY <1>1 DEF Init
    <2>4. /\ started \in [Nodes -> SUBSET (1..0)] /\ rec \in [Nodes -> RecSet(0)]
          /\ cln \in [Nodes -> ClnSet(0)]
      BY <1>4 DEF Init
    <2>5. cache \in [Nodes -> [Names -> 0..0]]
      BY DEF Init
    <2>6. removed = {} /\ now = 0
      BY DEF Init
    <2> QED
      BY <1>3, <2>2, <2>3, <2>4, <2>5, <2>6 DEF LoopsOK
  <1>8. NoTable.cluster = 0 /\ NoTable.recover = 0
    BY DEF NoTable, Table
  <1>9. UniqueOK
    <2>1. OneOwner /\ Unnamed
      BY <1>4, <1>5 DEF OneOwner, Unnamed, Owns, Naming
    <2>2. OneName /\ TwoShards
      BY <1>4, <1>5, <1>8 DEF OneName, TwoShards, Refers, Owns
    <2> QED
      BY <2>1, <2>2 DEF UniqueOK
  <1>10. WholeOK
    BY <1>4, <1>5, <1>8 DEF WholeOK, Serving
  <1> QED
    BY <1>2, <1>6, <1>7, <1>9, <1>10 DEF IInv

(* One step of a call, a loop or the clock, a fault or a crash.            *)
LEMMA StepOK == IInv /\ [Next]_vars => IInv'
  <1> SUFFICES ASSUME IInv, [Next]_vars
               PROVE  Core' /\ LoopsOK'
    BY DEF IInv, Core
  <1>1. Core /\ LoopsOK
    BY DEF IInv, Core
  <1>2. LastID \in Nat
    BY <1>1, LastIn
  <1>3. (seq' = seq) => LastID' = LastID
    BY DEF LastID, Exists, Get
  <1>4. CASE Tick
    <2>1. UNCHANGED <<writes, seq, tables, api, whole>>
      BY <1>4 DEF Tick, meta
    <2> QED
      BY <1>1, <1>3, <1>4, <2>1, CoreQuiet, LoopsCleanup
  <1>5. ASSUME NEW n \in Nodes, NEW t \in Names,
               CreateTable(n, t) \/ DeleteTable(n, t) \/ RestoreTable(n, t)
        PROVE  Core' /\ LoopsOK'
    <2>1. Core'
      BY <1>1, <1>5, CoreBegin
    <2>2. seq' = seq
      BY <1>5, Zenon DEF CreateTable, DeleteTable, RestoreTable, meta
    <2> QED
      BY <1>1, <1>3, <1>5, <2>1, <2>2, LoopsCalls
  <1>6. ASSUME NEW n \in Nodes, SeqGet(n)
        PROVE  Core' /\ LoopsOK'
    <2>1. seq' = seq
      BY <1>6 DEF SeqGet, meta
    <2> QED
      BY <1>1, <1>3, <1>6, <2>1, CoreSeqGet, LoopsCalls
  <1>7. ASSUME NEW n \in Nodes, CallUpdated(n)
        PROVE  Core' /\ LoopsOK'
    BY <1>1, <1>7, CoreUpdated, LoopsUpdated
  <1>8. ASSUME NEW n \in Nodes, NEW ok \in BOOLEAN, Apply(api[n], ok), Return(n),
               UNCHANGED <<whole, started, rec, cache, cln, removed, now>>
        PROVE  Core' /\ LoopsOK'
    <2>1. Core' /\ LastID' \in Nat /\ LastID <= LastID'
      BY <1>1, <1>8, CoreApplyReturn
    <2>2. cleanups' = cleanups
      BY <1>8, Zenon DEF Apply
    <2> QED
      BY <1>1, <1>2, <1>8, <2>1, <2>2, LoopsQuiet
  <1>9. ASSUME NEW n \in Nodes, CallRejected(n)
        PROVE  Core' /\ LoopsOK'
    BY <1>8, <1>9, Zenon DEF CallRejected
  <1>10. ASSUME NEW n \in Nodes, CallFails(n)
         PROVE  Core' /\ LoopsOK'
    <2>1. /\ Return(n) /\ UNCHANGED <<whole, started, rec, cache, cln, removed, now>>
          /\ UNCHANGED meta \/ \E ok \in BOOLEAN : Apply(api[n], ok)
      BY <1>10 DEF CallFails
    <2>2. CASE UNCHANGED meta
      <3>1. UNCHANGED <<writes, seq, tables, cleanups>>
        BY <2>2 DEF meta
      <3>2. Core'
        BY <1>1, <2>1, <3>1, CoreReturn
      <3> QED
        BY <1>1, <1>2, <1>3, <2>1, <3>1, <3>2, LoopsQuiet
    <2>3. CASE \E ok \in BOOLEAN : Apply(api[n], ok)
      BY <1>8, <2>1, <2>3
    <2> QED
      BY <2>1, <2>2, <2>3
  <1>11. ASSUME NEW n \in Nodes,
                \/ CallStart(n) \/ CallLoad(n) \/ CallLoadStopped(n) \/ CallGet(n)
                \/ Crash(n)
         PROVE  Core' /\ LoopsOK'
    <2>1. Core'
      BY <1>1, <1>11, CoreOther
    <2>2. seq' = seq
      BY <1>11, Zenon DEF CallStart, CallLoad, CallLoadStopped, CallGet,
         Crash, meta
    <2> QED
      BY <1>1, <1>3, <1>11, <2>1, <2>2, LoopsCalls
  <1>12. ASSUME NEW n \in Nodes, ReconcileStep(n) \/ ReconcileFails(n)
         PROVE  Core' /\ LoopsOK'
    <2>1. UNCHANGED <<writes, seq, tables, api, whole>>
      BY <1>12, Zenon DEF ReconcileStep, ReconcileRead, ReconcileDiff,
         ReconcileStart,
                   ReconcileStop, ReconcileFails, meta
    <2> QED
      BY <1>1, <1>3, <1>12, <2>1, CoreQuiet, LoopsReconcile
  <1>13. ASSUME NEW n \in Nodes, CleanupStep(n)
         PROVE  Core' /\ LoopsOK'
    <2>1. UNCHANGED <<writes, seq, tables, api, whole>>
      BY <1>13, Zenon DEF CleanupStep, CleanupRead, CleanupCheck,
         CleanupRemove,
                   CleanupDelete, CleanupTimeout, meta
    <2> QED
      BY <1>1, <1>3, <1>13, <2>1, CoreQuiet, LoopsCleanup
  <1>14. CASE UNCHANGED vars
    <2>1. /\ UNCHANGED <<writes, seq, tables, api, whole>>
          /\ UNCHANGED <<started, rec, cache, cleanups, cln, removed, now>>
      BY <1>14 DEF vars
    <2> QED
      BY <1>1, <1>2, <2>1, CoreQuiet, LoopsQuiet
  <1> QED
    BY <1>4, <1>5, <1>6, <1>7, <1>9, <1>10, <1>11, <1>12, <1>13, <1>14, Zenon
       DEF Next, CallStep

(* The inductive invariant holds in every state.                           *)
LEMMA Invariant == Spec => []IInv
  BY InitOK, StepOK, PTL DEF Spec

(* TypeOK: the state keeps its shape, and no table, replica, reconcile or  *)
(* cleanup loop refers to a shard that incAndGetIDSeq has not handed out.  *)
THEOREM TypeCorrect == Spec => []TypeOK
  <1>1. IInv => TypeOK
    <2> SUFFICES ASSUME IInv
                 PROVE  TypeOK
      OBVIOUS
    <2>1. Core /\ LoopsOK
      BY DEF IInv, Core
    <2>2. LastID \in Nat /\ LastID \in 0..MaxIds
      BY <2>1, LastIn
    <2>3. TableIDs(GetTables) \subseteq 1..LastID
      BY <2>1, <2>2, GetTablesIn, IDsIn
    <2>4. ASSUME NEW n \in Nodes
          PROVE  /\ started[n] \cup TableIDs(rec[n].tabs) \subseteq 1..LastID
                 /\ rec[n].start \cup rec[n].stop \subseteq 1..LastID
                 /\ cache[n] \in [Names -> 0..LastID]
                 /\ cln[n].id \in 0..LastID
      <3>1. rec[n] \in RecSet(LastID) /\ rec[n].tabs \in [Names -> Tabs(LastID)]
        BY <2>1 DEF LoopsOK, RecSet
      <3>2. TableIDs(rec[n].tabs) \subseteq 1..LastID
        BY <2>2, <3>1, IDsIn
      <3> QED
        BY <2>1, <3>1, <3>2 DEF LoopsOK, RecSet, ClnSet
    <2> QED
      BY <2>1, <2>2, <2>3, <2>4, Zenon DEF TypeOK, Core, RecordsOK, LoopsOK
  <1> QED
    BY <1>1, Invariant, PTL

(* IdsUnique: no interleaving of CreateTable, DeleteTable and RestoreTable *)
(* on any number of nodes, failed updates and crashes included, makes two  *)
(* tables or two calls share a shard.                                      *)
THEOREM ShardsUnique == Spec => []IdsUnique
  <1>1. IInv => IdsUnique
    <2> SUFFICES ASSUME IInv
                 PROVE  IdsUnique
      OBVIOUS
    <2>1. Core /\ UniqueOK /\ LastID \in Nat /\ LastID \in 0..MaxIds
      BY LastIn DEF IInv, Core
    <2>2. \A t \in Names : GetTables[t] = TableOf(tables[t])
      BY DEF GetTables
    <2>3. ASSUME NEW t \in Names
          PROVE  PairIDs(tables[t]) \subseteq Ids
      <3>1. PairIDs(tables[t]) \subseteq 1..LastID
        BY <2>1, PairTab DEF Core, RecordsOK
      <3> QED
        BY <2>1, <3>1, ManagerAssumption DEF Ids
    <2>4. ASSUME NEW t \in Names, NEW u \in Names, t # u
          PROVE  {GetTables[t].cluster, GetTables[t].recover} \cap
                 {GetTables[u].cluster, GetTables[u].recover} \subseteq {0}
      <3>1. PairIDs(tables[t]) \cap PairIDs(tables[u]) = {}
        BY <2>1, <2>3, <2>4 DEF UniqueOK, OneName, Refers
      <3> QED
        BY <2>2, <3>1 DEF PairIDs
    <2>5. \A t \in Names : GetTables[t].cluster = GetTables[t].recover =>
                           GetTables[t].cluster = 0
      BY <2>1, <2>2 DEF UniqueOK, TwoShards
    <2>6. ASSUME NEW n \in Nodes, Naming(api[n]), api[n].id \in TableIDs(GetTables)
          PROVE  FALSE
      <3>1. PICK t \in Names : /\ api[n].id \in {GetTables[t].cluster, GetTables[t].recover}
                               /\ api[n].id # 0
        BY <2>6, TableIDsElem
      <3>2. api[n].id \in PairIDs(tables[t])
        BY <2>2, <3>1 DEF PairIDs
      <3> QED
        BY <2>1, <2>6, <3>2 DEF UniqueOK, Unnamed, Named
    <2> QED
      BY <2>1, <2>4, <2>5, <2>6, Zenon DEF IdsUnique, UniqueOK, OneOwner,
         Naming
  <1> QED
    BY <1>1, Invariant, PTL

(* ServedIsWhole: Restore lets no shard serve a table that readIntoTable   *)
(* has not loaded to the end, whatever other calls for the table do.       *)
THEOREM OnlyWholeServed == Spec => []ServedIsWhole
  <1>1. IInv => ServedIsWhole
    BY DEF IInv, WholeOK, ServedIsWhole, GetTables
  <1> QED
    BY <1>1, Invariant, PTL
=============================================================================
