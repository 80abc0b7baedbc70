------------------------------- MODULE Service ------------------------------
(***************************************************************************)
(* A table as its clients see it: the KV API and the backup of a leader    *)
(* cluster, and the read-only KV API of a follower cluster that replicates *)
(* the table.                                                              *)
(*                                                                         *)
(*   client -> KVServer -> Engine -> ActiveTable -> Raft -> FSM -> client  *)
(*                                                   |                     *)
(*               follower's FSM <- worker <- LogServer                     *)
(*                                                                         *)
(* What the API promises of a request, and what becomes of a message or a  *)
(* log entry between its sender and its reader, is in constant operators,  *)
(* whose values are in Promises and ServiceMessages.  Raft is external: it *)
(* commits proposals in one log, the replicas apply it at their own        *)
(* pace, and a linearizable read waits for what is committed.  A proposal  *)
(* whose caller has given up may be committed later, or never.  The        *)
(* follower cluster has one replica and one worker; Replication has more.  *)
(***************************************************************************)
EXTENDS Integers, Sequences, FiniteSets, TableContent

CONSTANTS
    Clients,      \* each makes one call at a time
    Nodes,        \* of the leader cluster
    follower,     \* the node of the follower cluster
    MaxLog,       \* bound on the entries of the log
    MaxProposed,  \* bound on the proposals that are not committed
    MaxElections  \* bound on the entries without a command

CONSTANTS
    Promised(_, _),   \* the API's answer on (content, what the client means)
    Executed(_, _)    \* the content after it

CONSTANTS
    Sent,         \* requests: what the client means, what the server gets
    Check(_, _, _),   \* (follower's, has the table, request): code or "OK"
    OnlyReads(_),     \* whether a request is a read
    AsksRaft(_),      \* whether a read is linearizable, as the server sees it
    Proposal(_),      \* the data of a request's entry
    Update(_, _, _),  \* FSM.Update of (content, data, index)
    ReadResult(_, _), \* the client's answer to a read of (content, request)
    WriteResult(_, _) \* the client's answer for (request, result of Update)

CONSTANTS
    Metadata,               \* names of the leader's tables
    ReplicateRequest(_),    \* what the LogServer is asked, for an index
    ReplicateCommand(_, _), \* the command of (data, index)
    Streamed(_, _),         \* what the worker reads of (commands, applied)
    UseSnapshot,            \* whether the worker reads the error as such
    Pool, NewCommand,       \* Commands of the pool, a new one
    Sequence(_, _),         \* the proposal of (Command, commands)
    Returned(_),            \* what ReturnToVTPool makes of a Command
    Snapshot(_, _),         \* what the worker reads of (content, index)
    Load(_)                 \* readIntoTable of a snapshot

ASSUME ServiceAssumption ==
    /\ follower \notin Nodes
    /\ Nil \notin Clients
    /\ MaxLog \in Nat /\ MaxProposed \in Nat /\ MaxElections \in Nat

-----------------------------------------------------------------------------
(* The content after a request; an entry of an election has none.          *)
Effect(content, req) ==
    IF req = Nil THEN content
    ELSE Executed(content, req)

Gives(answer, promised) ==
    /\ answer.code = "OK"
    /\ answer.result = promised.result /\ answer.responses = promised.responses

GivesAt(answer, promised, i) ==
    /\ Gives(answer, promised)
    /\ answer.revision = IF promised.responses = <<>> THEN 0 ELSE i

-----------------------------------------------------------------------------
(* What Service takes from the message layer.                              *)

(* Entries of the log: of requests, and of elections.                      *)
Entry(req, data, client) == [req |-> req, data |-> data, client |-> client]

Writes == {s \in Sent : ~OnlyReads(s) /\ Check(FALSE, TRUE, s) = "OK"}

Entries ==
    {Entry(s.req, Proposal(s), Nil) : s \in Writes} \cup {Entry(Nil, Nil, Nil)}

Commands(entries, first) ==
    [k \in DOMAIN entries |-> ReplicateCommand(entries[k].data, first + k - 1)]

Replay(command, content, entries, first) ==
    Update(content, Sequence(command, Commands(entries, first)).data, 0)

(* All contents but for the empty key, which readIntoTable leaves behind.  *)
Agree(a, b) == \A k \in Keys \ {0} : a[k] = b[k]

(* A write that went through the log has the effect and the answer that    *)
(* the API promises.                                                       *)
ASSUME WriteAssumption ==
    \A s \in Writes :
      /\ Proposal(s) # Nil
      /\ \A content \in Tables :
           /\ Effect(content, s.req) \in Tables
           /\ \A i \in 1..MaxLog :
                LET u == Update(content, Proposal(s), i)
                IN ~u.panic =>
                     /\ u.kv = Effect(content, s.req)
                     /\ GivesAt(WriteResult(s, u), Promised(content, s.req), i)

(* So has a read, and the flag of the request arrives.  A follower reads   *)
(* from a table that it has.                                               *)
ASSUME ReadAssumption ==
    \A s \in Sent :
      OnlyReads(s) =>
        /\ Check(TRUE, FALSE, s) # "OK"
        /\ \A onFollower \in BOOLEAN :
             Check(onFollower, TRUE, s) = "OK" =>
               /\ AsksRaft(s) <=> (s.req.type = "RANGE" => s.req.linearizable)
               /\ \A content \in Tables :
                    /\ Gives(ReadResult(content, s), Promised(content, s.req))
                    /\ ReadResult(content, s).revision = 0

(* The proposal of n entries does what the last one does after the others. *)
InSteps(n, entries, first, command, content) ==
    LET u == Replay(command, content, entries, first)
        b == Replay(command, content, [k \in 1..(n - 1) |-> entries[k]], first)
    IN ~u.panic =>
         /\ u.leaderIndex = first + n - 1
         /\ n = 1 => u.kv = Effect(content, entries[1].req)
         /\ n # 1 => ~b.panic /\ u.kv = Effect(b.kv, entries[n].req)

(* The entries of the log arrive in the follower cluster, and a sequence   *)
(* of them is as good as one after the other.  The pool holds no remains.  *)
ASSUME StreamAssumption ==
    /\ NewCommand \in Pool
    /\ \A p \in Pool : p.LeaderIndex = Nil /\ p.Sequence = <<>>
    /\ \A p \in Pool : Returned(p) \in Pool
    /\ \A i \in 1..(MaxLog + 1) : ReplicateRequest(i).LeaderIndex = i
    /\ \A first \in 1..MaxLog : \A n \in 1..(MaxLog - first + 1) :
       \A entries \in [1..n -> Entries] :
         /\ \A last \in 1..MaxLog :
              Streamed(Commands(entries, first), last) =
                Commands(entries, first)
         /\ \A p \in Pool :
              /\ Sequence(p, Commands(entries, first)).command \in Pool
              /\ \A content \in Tables :
                   InSteps(n, entries, first, p, content)

(* So does a snapshot.                                                     *)
ASSUME SnapshotAssumption ==
    \A content \in Tables, i \in 0..MaxLog :
      LET u == Load(Snapshot(content, i))
      IN ~u.panic => /\ u.kv \in Tables
                     /\ Agree(u.kv, content)
                     /\ u.leaderIndex = i

(* No request depends on the empty key: the servers refuse it, but for     *)
(* transactions, and these are taken not to name it.                       *)
ASSUME EmptyKeyAssumption ==
    \A a \in Tables, b \in Tables :
      Agree(a, b) =>
        /\ \A s \in Writes : Agree(Effect(a, s.req), Effect(b, s.req))
        /\ \A s \in Sent :
             OnlyReads(s) /\ Check(TRUE, TRUE, s) = "OK" =>
               Promised(a, s.req) = Promised(b, s.req)

-----------------------------------------------------------------------------
VARIABLES
    log,       \* committed entries: data, and the request and client it is of
    applied,   \* index up to which a replica of the leader cluster is
    kv,        \* content of each replica, and of the follower's
    calls,     \* the call of each client
    proposed,  \* proposals that are neither committed nor lost
    known,     \* the follower has the table
    index,     \* the leader index of the follower's table
    stream,    \* commands received by the follower, to be proposed
    pool,      \* the Command in the pool of the follower
    ref        \* content of the table after each entry, by the API's words

vars == <<log, applied, kv, calls, proposed, known, index, stream, pool, ref>>

Idle == [stage |-> "idle"]

Init ==
    /\ log = <<>>
    /\ applied = [n \in Nodes |-> 0]
    /\ kv = [n \in Nodes \cup {follower} |-> NoKeys]
    /\ calls = [c \in Clients |-> Idle]
    /\ proposed = {}
    /\ known = FALSE
    /\ index = 0
    /\ stream = <<>>
    /\ pool = NewCommand
    /\ ref = <<NoKeys>>

-----------------------------------------------------------------------------
(* The calls.                                                              *)

leader == <<log, applied, proposed, ref>>
replica == <<known, index, stream, pool>>

(* Manager.GetTable finds the table in the follower cluster once it is     *)
(* known there.                                                            *)
Accepts(n, s) == Check(n = follower, n = follower => known, s) = "OK"

Call(stage, s, n, from) ==
    [stage |-> stage, sent |-> s, node |-> n, from |-> from]

Done(s, from, to, answer) ==
    [stage |-> "done", sent |-> s, from |-> from, to |-> to, answer |-> answer]

Begin(c, n, s, stage) ==
    calls' = [calls EXCEPT ![c] = Call(stage, s, n, Len(log))]

(* An error is returned at once, and nothing has changed.                  *)
Reject(c, n, s) ==
    /\ calls[c].stage = "idle"
    /\ ~Accepts(n, s)
    /\ UNCHANGED vars

(* NodeHost.StaleRead, and any read in the follower cluster, where the     *)
(* commit index is the one of its single replica.                          *)
StaleRead(c, n, s) ==
    LET from == IF n = follower THEN 0 ELSE Len(log)
        to == IF n = follower THEN index ELSE applied[n]
    IN /\ calls[c].stage = "idle" /\ OnlyReads(s)
       /\ n = follower \/ ~AsksRaft(s)
       /\ Accepts(n, s)
       /\ calls' = [calls EXCEPT ![c] = Done(s, from, to, ReadResult(kv[n], s))]
       /\ UNCHANGED <<kv, leader, replica>>

(* NodeHost.SyncRead                                                       *)
SyncRead(c, n, s) ==
    /\ calls[c].stage = "idle"
    /\ OnlyReads(s) /\ AsksRaft(s) /\ Accepts(n, s)
    /\ Begin(c, n, s, "reading")
    /\ UNCHANGED <<kv, leader, replica>>

(* NodeHost.SyncPropose                                                    *)
SyncPropose(c, n, s) ==
    /\ calls[c].stage = "idle" /\ Cardinality(proposed) < MaxProposed
    /\ ~OnlyReads(s) /\ Accepts(n, s)
    /\ Begin(c, n, s, "proposed")
    /\ proposed' = proposed \cup {Entry(s.req, Proposal(s), c)}
    /\ UNCHANGED <<log, applied, ref, kv, replica>>

Finish(c, to, answer) ==
    [calls EXCEPT ![c] = Done(calls[c].sent, calls[c].from, to, answer)]

(* Mutant: the read does not wait for what was committed.                  *)
ReadDoneAtOnce(c) ==
    LET call == calls[c]
    IN /\ call.stage = "reading"
       /\ calls' = Finish(c, applied[call.node],
                          ReadResult(kv[call.node], call.sent))
       /\ UNCHANGED <<kv, leader, replica>>

ReadDone(c) ==
    LET call == calls[c]
    IN /\ call.stage = "reading" /\ applied[call.node] >= call.from
       /\ calls' = Finish(c, applied[call.node],
                          ReadResult(kv[call.node], call.sent))
       /\ UNCHANGED <<kv, leader, replica>>

(* The deadline of the context has passed: the client gets an error, and   *)
(* nobody waits for what was proposed, which may still be committed.       *)
Timeout(c) ==
    LET left(p) == Entry(p.req, p.data, IF p.client = c THEN Nil ELSE p.client)
    IN /\ calls[c].stage \in {"reading", "proposed"}
       /\ calls' = [calls EXCEPT ![c] = Idle]
       /\ proposed' = {left(p) : p \in proposed}
       /\ UNCHANGED <<log, applied, ref, kv, replica>>

(* The client has its answer and may call again.                           *)
Return(c) ==
    /\ calls[c].stage = "done"
    /\ calls' = [calls EXCEPT ![c] = Idle]
    /\ UNCHANGED <<kv, leader, replica>>

-----------------------------------------------------------------------------
(* Raft, and the replicas of the leader cluster.                           *)

Commit(p) ==
    /\ Len(log) < MaxLog
    /\ log' = Append(log, p)
    /\ ref' = Append(ref, Effect(ref[Len(ref)], p.req))
    /\ proposed' = proposed \ {p}
    /\ UNCHANGED <<applied, kv, calls, replica>>

(* A new leader's empty entry, which the state machine does not see.       *)
Elect ==
    /\ Len(log) < MaxLog
    /\ Cardinality({i \in DOMAIN log : log[i].data = Nil}) < MaxElections
    /\ log' = Append(log, Entry(Nil, Nil, Nil))
    /\ ref' = Append(ref, ref[Len(ref)])
    /\ UNCHANGED <<applied, kv, calls, proposed, replica>>

(* The result of an entry goes to the call that has proposed it, if it is  *)
(* waiting at this node.                                                   *)
Notify(n, i, client, u) ==
    LET call == calls[client]
        waits == /\ client # Nil /\ call.stage = "proposed"
                 /\ call.node = n /\ call.from < i
    IN calls' = IF waits THEN Finish(client, i, WriteResult(call.sent, u))
                ELSE calls

Updated(n, i, u) ==
    /\ ~u.panic
    /\ kv' = [kv EXCEPT ![n] = u.kv]
    /\ Notify(n, i, log[i].client, u)

Apply(n) ==
    LET i == applied[n] + 1
        data == log[i].data
    IN /\ i <= Len(log)
       /\ applied' = [applied EXCEPT ![n] = i]
       /\ \/ data = Nil /\ UNCHANGED <<kv, calls>>
          \/ data # Nil /\ Updated(n, i, Update(kv[n], data, i))
       /\ UNCHANGED <<log, proposed, ref, replica>>

(* LocalIndexRequest: the last entry the state machine has seen.           *)
LocalIndex(n) ==
    LET seen == {0} \cup {i \in 1..applied[n] : log[i].data # Nil}
    IN CHOOSE i \in seen : \A j \in seen : j <= i

-----------------------------------------------------------------------------
(* The follower cluster.                                                   *)

(* MetadataServer.Get; the replication manager creates the table.          *)
LearnTable ==
    /\ ~known
    /\ known' = (TableName \in Metadata)
    /\ UNCHANGED <<kv, calls, leader, index, stream, pool>>

(* worker.do and LogServer.Replicate: a message with commands, some of     *)
(* those that node n has applied.                                          *)
Replicate(n, last) ==
    LET req == ReplicateRequest(index + 1)
        entries == SubSeq(log, req.LeaderIndex, last)
    IN /\ known /\ stream = <<>> /\ last <= LocalIndex(n)
       /\ req.Table = TableName /\ req.LeaderIndex <= last
       /\ stream' = Streamed(Commands(entries, req.LeaderIndex), LocalIndex(n))
       /\ UNCHANGED <<kv, calls, leader, known, index, pool>>

(* Mutant: the index of the entry to come, not of the last one.            *)
ReplicatedNext(u) ==
    /\ ~u.panic
    /\ kv' = [kv EXCEPT ![follower] = u.kv]
    /\ index' = u.leaderIndex + 1

(* The follower's state machine has applied a command.                     *)
Replicated(u) ==
    /\ ~u.panic
    /\ kv' = [kv EXCEPT ![follower] = u.kv]
    /\ index' = u.leaderIndex

(* proposeBatch: the proposal with the next k commands.  The Command is    *)
(* taken from the pool for a message and is put back after it.             *)
Propose(k) ==
    LET seq == Sequence(pool, SubSeq(stream, 1, k))
    IN /\ k \in DOMAIN stream
       /\ Replicated(Update(kv[follower], seq.data, 0))
       /\ stream' = SubSeq(stream, k + 1, Len(stream))
       /\ pool' = IF k = Len(stream) THEN Returned(seq.command)
                  ELSE seq.command
       /\ UNCHANGED <<calls, leader, known>>

(* A proposal fails, and with it the call of do.  (One that is committed   *)
(* after its caller has given up is in Replication.)                       *)
ProposeFails ==
    /\ stream # <<>>
    /\ stream' = <<>>
    /\ pool' = Returned(pool)
    /\ UNCHANGED <<kv, calls, leader, known, index>>

(* Mutant: the index is read from the log and not from the snapshot.       *)
StreamCommitted(n) == Snapshot(kv[n], Len(log))

(* SnapshotServer.Stream: the pairs of node n and the index they are of.   *)
Stream(n) == Snapshot(kv[n], LocalIndex(n))

(* worker.recover, when the entry asked for is no longer in n's log.       *)
Recover(n) ==
    /\ known /\ stream = <<>> /\ index < LocalIndex(n) /\ UseSnapshot
    /\ Replicated(Load(Stream(n)))
    /\ UNCHANGED <<calls, leader, known, stream, pool>>

-----------------------------------------------------------------------------
(* Nothing else depends on an answer once it is given, so the client reads *)
(* it first.                                                               *)
Quiet == \A c \in Clients : calls[c].stage # "done"

Callers == IF Quiet THEN {c \in Clients : calls[c].stage = "idle"} ELSE {}

Members == IF Quiet THEN Nodes ELSE {}

Next ==
    \/ \E c \in Clients : Return(c)
    \/ \E c \in Callers : \E n \in Nodes \cup {follower}, s \in Sent :
         \/ Reject(c, n, s)
         \/ StaleRead(c, n, s)
         \/ n # follower /\ SyncRead(c, n, s)
         \/ n # follower /\ SyncPropose(c, n, s)
    \/ \E c \in Clients : Quiet /\ ReadDone(c)
    \/ \E c \in Clients : Quiet /\ Timeout(c)
    \/ \E p \in proposed : Quiet /\ Commit(p)
    \/ Quiet /\ Elect
    \/ \E n \in Members : Apply(n)
    \/ \E n \in Members : Recover(n)
    \/ \E n \in Members, last \in 1..MaxLog : Replicate(n, last)
    \/ \E k \in 1..MaxLog : Quiet /\ Propose(k)
    \/ Quiet /\ LearnTable
    \/ Quiet /\ ProposeFails

Spec == Init /\ [][Next]_vars

-----------------------------------------------------------------------------
(* Properties.                                                             *)

(* Types: the replicas are within the log, the follower's leader index is  *)
(* one of the log, and the pooled command is clean.                        *)
TypeOK ==
    /\ Len(ref) = Len(log) + 1 /\ \A i \in DOMAIN ref : ref[i] \in Tables
    /\ applied \in [Nodes -> 0..Len(log)]
    /\ kv \in [Nodes \cup {follower} -> Tables]
    /\ \A c \in Clients :
         calls[c].stage \in {"idle", "proposed", "reading", "done"}
    /\ \A p \in proposed : p.client \in Clients \cup {Nil}
    /\ known \in BOOLEAN
    /\ index \in 0..Len(log)
    /\ pool.LeaderIndex = Nil /\ pool.Sequence = <<>>

(* The answer to a call is the one that the API promises of the request at *)
(* one point between the call's beginning and its end.                     *)
Answered(c) ==
    LET call == calls[c]
        req == call.sent.req
        at(i) == Promised(ref[i], req)
        strict == req.type = "RANGE" => req.linearizable
        own == {i \in call.from + 1..call.to : log[i].client = c}
    IN IF OnlyReads(call.sent)
       THEN /\ call.answer.revision = 0
            /\ \E i \in (IF strict THEN call.from ELSE call.to)..call.to :
                 Gives(call.answer, at(i + 1))
       ELSE \E i \in own : GivesAt(call.answer, at(i), i)

(* A call that succeeds has taken effect at one point between its          *)
(* beginning and its end: a write at the index of its entry, which is the  *)
(* revision it reports (0 when it has no responses); a linearizable read   *)
(* on a content not older than the call; any other read on the content of  *)
(* one index.  What KVServer, Engine.Range, Put, Delete and Txn answer     *)
(* after all the encoding and decoding on the way is what the commands     *)
(* give on the table in one order of all of them.                          *)
Linearizable ==
    \A c \in Clients : calls[c].stage = "done" => Answered(c)

(* The follower's table is, at every moment, the leader's at the leader    *)
(* index it has recorded, apart from the empty key that readIntoTable      *)
(* leaves after a recovery: whatever way the worker has taken, batches     *)
(* of the stream, proposals that failed, a snapshot.                       *)
FollowerIsPrefix ==
    known => Agree(kv[follower], ref[index + 1])
=============================================================================
