-------------------------- MODULE ServiceMessages ---------------------------
(***************************************************************************)
(* The message layer under Service: every request, answer, log entry and   *)
(* snapshot is encoded where the code encodes it and decoded where it is   *)
(* read.  These are the values of Service's constant operators; a request  *)
(* s is what the client means (req) and the message that the server gets   *)
(* (type, msg).  Of a response's header there is the revision, the rest is *)
(* in ShardView.                                                           *)
(***************************************************************************)
EXTENDS TableMessages

CONSTANTS
    Requests,     \* the requests that clients make
    TooLong       \* a key or value beyond the limits

ASSUME MessagesAssumption == TooLong \in Nat \ (Keys \cup Values)

(* The requests as the servers get them.                                   *)
SentRequests ==
    LET sent(r, type) == [req |-> r, type |-> type,
                          msg |-> Received(type, RequestOf(r))]
    IN {sent(r, TypeOf[r.type]) : r \in Requests}

-----------------------------------------------------------------------------
(* What a server does with a request before it is passed on: the code of   *)
(* the error, or "OK".                                                     *)

KVServer_Range(m) ==
    CASE m.Limit < 0 \/ (m.KeysOnly /\ m.CountOnly) -> "InvalidArgument"
      [] m.MinModRevision + m.MaxModRevision + m.MinCreateRevision
           + m.MaxCreateRevision > 0 -> "Unimplemented"
      [] Octets(m.Table) = 0 \/ Octets(m.Key) = 0 -> "InvalidArgument"
      [] OTHER -> "OK"

(* KVServer.Put, KVServer.DeleteRange                                      *)
KVServer_Write(m) ==
    IF Octets(m.Table) = 0 \/ Octets(m.Key) = 0 THEN "InvalidArgument" ELSE "OK"

KVServer_Txn(m) == IF Octets(m.Table) = 0 THEN "InvalidArgument" ELSE "OK"

isReadonlyTransaction(m) ==
    \A op \in Range(m.Success) \cup Range(m.Failure) :
        op.Request.case = "RequestRange"

(* ReadonlyKVServer on the follower, where there is no BackupServer.       *)
ServerCheck(onFollower, type, m) ==
    CASE type = "RangeRequest" -> KVServer_Range(m)
      [] type \in {"PutRequest", "DeleteRangeRequest"} ->
           IF onFollower THEN "Unimplemented" ELSE KVServer_Write(m)
      [] type = "TxnRequest" ->
           IF onFollower /\ ~isReadonlyTransaction(m) THEN "Unimplemented"
           ELSE KVServer_Txn(m)
      [] type = "BackupRequest" ->
           IF onFollower THEN "Unimplemented" ELSE "OK"

(* Manager.GetTable, then the limits of ActiveTable.Range and Put; Delete  *)
(* looks at the key only, and Txn at nothing.                              *)
TableCheck(hasTable, type, m) ==
    LET limited == CASE type = "RangeRequest" -> {m.Key, m.RangeEnd}
                     [] type = "PutRequest" -> {m.Key, m.Value}
                     [] type = "DeleteRangeRequest" -> {m.Key}
                     [] OTHER -> {}
    IN CASE m.Table # TableName \/ ~hasTable -> "NotFound"
         [] TooLong \in limited -> "Internal"
         [] OTHER -> "OK"

CheckRequest(onFollower, hasTable, s) ==
    IF ServerCheck(onFollower, s.type, s.msg) # "OK"
    THEN ServerCheck(onFollower, s.type, s.msg)
    ELSE TableCheck(hasTable, s.type, s.msg)

IsReadonly(s) ==
    \/ s.type \in {"RangeRequest", "BackupRequest"}
    \/ s.type = "TxnRequest" /\ isReadonlyTransaction(s.msg)

(* readTable: whether the read asks Raft for the commit index.             *)
linearizable(s) == s.type = "RangeRequest" => s.msg.Linearizable

(* The first part of proposeTable and of Txn: the data of the entry.       *)
ProposalData(s) ==
    MarshalVT("Command",
      CASE s.type = "PutRequest" -> ActiveTable_Put(s.msg)
        [] s.type = "DeleteRangeRequest" -> ActiveTable_Delete(s.msg)
        [] s.type = "TxnRequest" -> ActiveTable_Txn(s.msg))

-----------------------------------------------------------------------------
(* The state machine.                                                      *)

(* The result of an entry has no data if there are no responses.           *)
UpdateResult(cmd, handled, i) ==
    LET responses == handled.responses.responses
    IN [kv |-> handled.ctx.kv, panic |-> handled.ctx.panic,
        leaderIndex |-> cmd.LeaderIndex, value |-> handled.responses.result,
        data |-> IF responses = <<>> THEN <<>>
                 ELSE MarshalVT("CommandResult",
                                  [Responses |-> Map(wrapResponseOp, responses),
                                   Revision |-> i])]

UpdateCommand(content, cmd, i) ==
    UpdateResult(cmd, HandleCommand(Context(content), wrapCommand(cmd)), i)

(* FSM.Update for one entry.                                               *)
UpdateEntry(content, data, i) ==
    UpdateCommand(content, UnmarshalVT("Command", data), i)

(* FSM.Lookup of a read-only transaction.                                  *)
LookupTxn(content, txn) ==
    LET ok == TxnCompare(content, txn.compare)
        answer(op) == [type |-> "RANGE", range |-> Lookup(content, op)]
    IN [result |-> ok,
        responses |-> Map(answer, IF ok THEN txn.success ELSE txn.failure)]

(* commandSnapshot and writeCommand: the file of a backup or a snapshot,   *)
(* an encoded command for each pair.                                       *)
SnapshotFile(content) ==
    LET put(key) == MarshalVT("Command",
                      [Zero("Command") EXCEPT
                         !.Type = Command_PUT, !.Table = TableName,
                         !.Kv = KeyValue(key, content[key])])
    IN Map(put, SetToSortSeq(Present(content), <))

(* snapshot.Writer.ReadFrom and snapshot.Reader.WriteTo.                   *)
Transferred(file) ==
    LET chunk(part) == Received("SnapshotChunk",
                         [Data |-> <<part>>, Len |-> 1, Index |-> 0]).Data
    IN FlattenSeq(Map(chunk, file))

-----------------------------------------------------------------------------
(* The answers.                                                            *)

Header(revision) == [Zero("ResponseHeader") EXCEPT !.Revision = revision]

(* Engine.Range, Engine.Txn of a read-only transaction, and a backup.      *)
ReadAnswer(content, s) ==
    CASE s.type = "RangeRequest" ->
           LET rng == ResponseOp_RangeOf(Lookup(content, RangeOp(s.msg)))
           IN AnswerOf(s.type, Received("RangeResponse",
                [Kvs |-> rng.Kvs, Count |-> rng.Count, More |-> rng.More,
                 Header |-> Header(0)]))
      [] s.type = "TxnRequest" ->
           LET txn == LookupTxn(content, TxnWith(s.msg))
           IN AnswerOf(s.type, Received("TxnResponse",
                [Succeeded |-> txn.result, Header |-> Header(0),
                 Responses |-> Map(wrapResponseOp, txn.responses)]))
      [] s.type = "BackupRequest" ->
           LET pair(part) == PairOf(UnmarshalVT("Command", part).Kv)
           IN Answer(TRUE, Map(pair, Transferred(SnapshotFile(content))), 0)

(* ActiveTable.Put, Delete and Txn, with the decoded result.               *)
CommandAnswer(type, value, res) ==
    LET op == res.Responses[1].Response
        header == Header(res.Revision)
        is(case) == res.Responses # <<>> /\ op.case = case
    IN CASE type = "PutRequest" /\ is("ResponsePut") ->
              AnswerOf(type, Received("PutResponse",
                [PrevKv |-> op.val.PrevKv, Header |-> header]))
         [] type = "DeleteRangeRequest" /\ is("ResponseDeleteRange") ->
              AnswerOf(type, Received("DeleteRangeResponse",
                [Deleted |-> op.val.Deleted, PrevKvs |-> op.val.PrevKvs,
                 Header |-> header]))
         [] type = "TxnRequest" ->
              AnswerOf(type, Received("TxnResponse",
                [Succeeded |-> value, Responses |-> res.Responses,
                 Header |-> header]))
         [] OTHER -> Error("Internal")

(* proposeTable                                                            *)
ProposalAnswer(s, u) ==
    CommandAnswer(s.type, u.value, UnmarshalVT("CommandResult", u.data))

-----------------------------------------------------------------------------
(* Replication.                                                            *)

(* MetadataServer.Get: the names of the tables.                            *)
MetadataResponse == [Tables |-> <<[Name |-> TableName, Type |-> 0]>>]

MetadataNames ==
    {t.Name : t \in Range(Received("MetadataResponse", MetadataResponse).Tables)}

(* What the LogServer gets from worker.do.                                 *)
ReplicateRequestOf(leaderIndex) ==
    Received("ReplicateRequest",
               [LeaderIndex |-> leaderIndex, Table |-> TableName])

entryToCommand(data, i) ==
    [IF data = Nil
     THEN [Zero("Command") EXCEPT !.Type = Command_DUMMY]
     ELSE UnmarshalVT("Command", data) EXCEPT !.LeaderIndex = i]

ReplicateCommandOf(data, i) ==
    [Command |-> entryToCommand(data, i), LeaderIndex |-> i]

(* A response with commands, as worker.read takes it.                      *)
ReceivedCommands(commands, applied) ==
    Received("ReplicateResponse",
      [LeaderIndex |-> applied,
       Response |-> Case("CommandsResponse",
                           [Commands |-> commands])]).Response.val.Commands

(* The LogServer's error, as worker.do takes it.                           *)
ReceivedError ==
    Received("ReplicateResponse",
      [LeaderIndex |-> 0,
       Response |-> Case("ErrorResponse",
                      [Error |-> ReplicateError_USE_SNAPSHOT])]).Response

ReadsUseSnapshot ==
    /\ ReceivedError.case = "ErrorResponse"
    /\ ReceivedError.val.Error = ReplicateError_USE_SNAPSHOT

(* proposeBatch: the data of the proposal with these commands, and what is *)
(* left in the Command of the pool.                                        *)
ProposedSequence(seq) ==
    [data |-> MarshalVT("Command", seq),
     command |-> [seq EXCEPT !.Sequence = <<>>, !.LeaderIndex = Nil]]

SequenceOf(command, commands) ==
    ProposedSequence(
      [command EXCEPT
         !.Type = Command_SEQUENCE,
         !.Sequence = @ \o [i \in DOMAIN commands |-> commands[i].Command],
         !.LeaderIndex = Last(commands).LeaderIndex])

NewCommandVT == Zero("Command")

(* What the pool of the follower may hold: a new Command, or one that has  *)
(* been the Command of a proposal.                                         *)
PoolCommands ==
    {Zero("Command"), [Zero("Command") EXCEPT !.Type = Command_SEQUENCE]}

-----------------------------------------------------------------------------
(* Recovery.                                                               *)

(* SnapshotServer.Stream: the pairs of a table and a command with the      *)
(* index they are of, as the worker gets them.                             *)
FinalCommand(req, leaderIndex) ==
    [Zero("Command") EXCEPT !.Table = req.Table, !.Type = Command_DUMMY,
                            !.LeaderIndex = leaderIndex]

StreamOf(content, leaderIndex) ==
    Transferred(Append(SnapshotFile(content),
      MarshalVT("Command",
        FinalCommand(Received("SnapshotRequest", [Table |-> TableName]),
                     leaderIndex))))

(* readIntoTable: one batch, with the leader index of the last command     *)
(* and with its pair, which is nil and becomes the empty one.              *)
PutBatch(commands) ==
    [Zero("Command") EXCEPT
       !.Type = Command_PUT_BATCH, !.Table = Last(commands).Table,
       !.LeaderIndex = Last(commands).LeaderIndex,
       !.Batch = [i \in DOMAIN commands |-> commands[i].Kv]]

DecodedCommand(part) == UnmarshalVT("Command", part)

readIntoTable(file) ==
    UpdateEntry(NoKeys,
                MarshalVT("Command", PutBatch(Map(DecodedCommand, file))), 0)
=============================================================================
