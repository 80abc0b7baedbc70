------------------------------ MODULE MetaStore ------------------------------
(***************************************************************************)
(* The metadata store (storage/kv): the replicated map in which the table  *)
(* manager of every node keeps table records, the table ID sequence and    *)
(* the replication leases.  LFSM is a Raft state machine around MapStore;  *)
(* a client reads it with SyncRead and changes it with SyncPropose, handing*)
(* in the version of the pair it has read.                                 *)
(*                                                                         *)
(* The module has no variables: it gives the effect of one applied entry   *)
(* on the map.  A map is a function from keys to pairs.  A key that is not *)
(* in the Go map is a key with the zero Pair, whose version is 0; a stored *)
(* pair's version is the Raft index of the entry that wrote it, so it is   *)
(* never 0.                                                                *)
(***************************************************************************)
EXTENDS Naturals

CONSTANT NoValue          \* the value of the zero Pair

Absent == [ver |-> 0, val |-> NoValue]

Exists(st, k) == st[k].ver # 0

Get(st, k) == st[k]

(* Mutant of VersionMismatch: the version is not compared.                 *)
VersionIgnored(st, u) == FALSE

(* An update names the version its author has read.  The state machine     *)
(* compares it only with a pair that is present: on a key that is not in   *)
(* the map an update with any version goes through.                        *)
VersionMismatch(st, u) == Exists(st, u.key) /\ st[u.key].ver # u.ver

Set(st, k, v, ver) == [st EXCEPT ![k] = [ver |-> ver, val |-> v]]

Delete(st, k) == [st EXCEPT ![k] = Absent]

(* LFSM.Update for the entry at Raft index `index'.                        *)
Update(st, u, index) ==
    IF VersionMismatch(st, u) THEN st
    ELSE IF u.op = "set" THEN Set(st, u.key, u.val, index)
    ELSE Delete(st, u.key)
=============================================================================
