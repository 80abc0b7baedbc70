--------------------------- MODULE ReplicatedTable --------------------------
(***************************************************************************)
(* What the state machines of a table's replicas promise to Raft and to    *)
(* their readers.  A replica shows one version of the table after another, *)
(* whole updates at a time; a crash takes it back to the version that is   *)
(* stable, which is never replaced by an older one; and Raft may discard   *)
(* the entries that the stable version holds.                              *)
(***************************************************************************)
EXTENDS Integers, Sequences

CONSTANTS Replicas, Contents, EmptyTable

VARIABLES
    history,   \* the contents of the table, first the empty one
    visible,   \* the version that a replica shows, or would show when opened
    stable,    \* the version that a crash leaves
    kept       \* the first entry that is not discarded

vars == <<history, visible, stable, kept>>

Version(i) == [index |-> i, kv |-> history[i + 1]]

Versions == {Version(i) : i \in 0..(Len(history) - 1)}

Init ==
    /\ history = <<EmptyTable>>
    /\ visible = [r \in Replicas |-> Version(0)]
    /\ stable = [r \in Replicas |-> Version(0)]
    /\ kept = [r \in Replicas |-> 1]

(* The version on disk is to replace the one that is shown.                *)
Ahead(r) == stable[r].index > visible[r].index

Agree ==
    /\ \E kv \in Contents : history' = Append(history, kv)
    /\ UNCHANGED <<visible, stable, kept>>

Advance(r) ==
    /\ ~Ahead(r)
    /\ \E v \in Versions :
         /\ v.index >= visible[r].index
         /\ visible' = [visible EXCEPT ![r] = v]
    /\ UNCHANGED <<history, stable, kept>>

Persist(r) ==
    /\ ~Ahead(r)
    /\ stable' = [stable EXCEPT ![r] = visible[r]]
    /\ \E to \in kept[r]..(visible[r].index + 1) :
         kept' = [kept EXCEPT ![r] = to]
    /\ UNCHANGED <<history, visible>>

Replace(r) ==
    /\ ~Ahead(r)
    /\ \E v \in Versions :
         /\ v.index > visible[r].index
         /\ stable' = [stable EXCEPT ![r] = v]
    /\ UNCHANGED <<history, visible, kept>>

Settle(r) ==
    /\ Ahead(r)
    /\ visible' = [visible EXCEPT ![r] = stable[r]]
    /\ kept' = [kept EXCEPT ![r] = stable[r].index + 1]
    /\ UNCHANGED <<history, stable>>

Crash(r) ==
    /\ visible' = [visible EXCEPT ![r] = stable[r]]
    /\ UNCHANGED <<history, stable, kept>>

Next ==
    \/ Agree
    \/ \E r \in Replicas :
         Advance(r) \/ Persist(r) \/ Replace(r) \/ Settle(r) \/ Crash(r)

Spec == Init /\ [][Next]_vars
=============================================================================
