----------------------------- MODULE LogServer ------------------------------
(***************************************************************************)
(* The leader's side of replication for one table on one node: the Raft    *)
(* log of the table's shard, the cached log reader that all the streams    *)
(* share (storage/logreader) and the Replicate streams of the follower     *)
(* clusters (regattaserver/replication.go).                                *)
(*                                                                         *)
(* An entry's command is abstracted to its size; an entry is identified by *)
(* its index.  A query runs under the shard's mutex, so it is one step.    *)
(* Compaction of the log and the LogCompacted event that empties the cache *)
(* are two steps, as the event is delivered by the event loop of the       *)
(* NodeHost.  A stream can break at any time; the follower has then        *)
(* applied any prefix of what was sent to it.                              *)
(***************************************************************************)
EXTENDS LogCache

CONSTANTS
    Followers,   \* follower clusters, each with one worker for the table
    Sizes,       \* sizes of the entries
    MaxLog,      \* bound on the length of the log
    Starts,      \* where the followers start: 1 + their leader index
    MaxFaults    \* bound on broken streams and failed reads

ASSUME LogAssumption ==
    /\ Starts \subseteq Nat \ {0}
    /\ Sizes \subseteq Nat \ {0}
    /\ MaxLog \in Nat
    /\ MaxFaults \in Nat

VARIABLES
    log,       \* sizes of all entries ever appended; entry i is log[i]
    first,     \* GetRange: first index that is not compacted
    applied,   \* sysLocalIndex of the table's state machine
    cache,     \* the shard's cache; meaningful while `ready'
    ready,     \* shardCache has an entry for the shard
    event,     \* a LogCompacted event is on its way
    deleted,   \* the table's shard has been removed from the node
    stream,    \* state of the Replicate handler of each follower
    got,       \* entries sent on the stream so far
    next,      \* 1 + leader index of the follower's table
    faults     \* number of faults so far

vars == <<log, first, applied, cache, ready, event, deleted, stream, got, next,
          faults>>

Entry(i) == [Index |-> i, Size |-> log[i]]

Entries(lo, hi) == [i \in 1..(hi - lo) |-> Entry(lo + i - 1)]

(* A stream: the request's index, and logRange.                            *)
Stream(pc, req, lo, hi) == [pc |-> pc, req |-> req, lo |-> lo, hi |-> hi]

NoStream == Stream("idle", 0, 0, 0)

(* A follower starts from nothing (1), or it is ahead of the leader's log, *)
(* as it is after the leader's table was restored into a new shard.        *)
Init ==
    /\ log = <<>>
    /\ first = 1
    /\ applied = 0
    /\ cache = <<>>
    /\ ready = FALSE
    /\ event = FALSE
    /\ deleted = FALSE
    /\ stream = [f \in Followers |-> NoStream]
    /\ got = [f \in Followers |-> <<>>]
    /\ next \in [Followers -> Starts]
    /\ faults = 0

-----------------------------------------------------------------------------
(* Raft (external): the shard appends, applies and compacts entries and    *)
(* tells the log reader of its events.                                     *)

AppendEntry ==
    /\ Len(log) < MaxLog
    /\ ~deleted
    /\ \E size \in Sizes : log' = Append(log, size)
    /\ UNCHANGED <<first, applied, cache, ready, event, deleted, stream, got,
                   next, faults>>

ApplyEntry ==
    /\ ~deleted
    /\ applied < Len(log)
    /\ applied' = applied + 1
    /\ UNCHANGED <<log, first, cache, ready, event, deleted, stream, got, next,
                   faults>>

Compact ==
    /\ ~deleted
    /\ \E to \in (first + 1)..(applied + 1) : first' = to
    /\ event' = TRUE
    /\ UNCHANGED <<log, applied, cache, ready, deleted, stream, got, next,
                   faults>>

RemoveData ==
    /\ ~deleted
    /\ deleted' = TRUE
    /\ UNCHANGED <<log, first, applied, cache, ready, event, stream, got, next,
                   faults>>

(* shardCache.ComputeIfAbsent                                              *)
NodeReady ==
    /\ ~deleted
    /\ ~ready
    /\ ready' = TRUE
    /\ cache' = <<>>
    /\ UNCHANGED <<log, first, applied, event, deleted, stream, got, next,
                   faults>>

NodeDeleted ==
    /\ deleted
    /\ ready
    /\ ready' = FALSE
    /\ cache' = <<>>
    /\ UNCHANGED <<log, first, applied, event, deleted, stream, got, next,
                   faults>>

(* shardCache.Store of an empty shard, whether or not there is one.        *)
LogCompacted ==
    /\ event
    /\ event' = FALSE
    /\ ready' = TRUE
    /\ cache' = <<>>
    /\ UNCHANGED <<log, first, applied, deleted, stream, got, next, faults>>

-----------------------------------------------------------------------------
(* Cached.QueryRaftLog.                                                    *)

Result(err, entries, buf) == [err |-> err, entries |-> entries, buf |-> buf]

(* Mutant of ReadLog: the first entry counts as compacted.                 *)
ReadLogInclusive(lo, hi, k) ==
    IF deleted THEN [err |-> "unknown", entries |-> <<>>]
    ELSE IF Len(log) + 1 = lo THEN [err |-> "", entries |-> <<>>]
    ELSE IF Len(log) < lo THEN [err |-> "behind", entries |-> <<>>]
    ELSE IF lo <= first THEN [err |-> "ahead", entries |-> <<>>]
    ELSE [err |-> "",
          entries |-> Entries(lo, IF lo + k < hi THEN lo + k ELSE hi)]

(* readLog.  ReadonlyLogReader.Entries (external) returns a non-empty      *)
(* prefix of the range; k is its length, if the range is that long.        *)
ReadLog(lo, hi, k) ==
    IF deleted THEN [err |-> "unknown", entries |-> <<>>]
    ELSE IF Len(log) + 1 = lo THEN [err |-> "", entries |-> <<>>]
    ELSE IF Len(log) < lo THEN [err |-> "behind", entries |-> <<>>]
    ELSE IF lo < first THEN [err |-> "ahead", entries |-> <<>>]
    ELSE [err |-> "",
          entries |-> Entries(lo, IF lo + k < hi THEN lo + k ELSE hi)]

(* The range starts before the cached entries.                             *)
QueryPrepend(cached, le) ==
    IF le = <<>> THEN Result("", FixSize(cached), cache)
    ELSE IF cached # <<>> /\ le[Len(le)].Index = cached[1].Index - 1
    THEN Result("", FixSize(le \o cached), cache)
    ELSE Result("", le, IF cache = <<>> THEN Put(cache, le) ELSE cache)

(* Mutant of QueryAppend: the cache takes entries that do not follow it.   *)
QueryAppendAnyway(cached, le) ==
    IF le = <<>> THEN Result("", FixSize(cached), cache)
    ELSE IF cached # <<>>
    THEN Result("", FixSize(cached \o le), Put(cache, le))
    ELSE Result("", le, Put(cache, le))

(* The range goes on behind the cached entries.                            *)
QueryAppend(cached, le) ==
    IF le = <<>> THEN Result("", FixSize(cached), cache)
    ELSE IF cached # <<>>
    THEN Result("", FixSize(cached \o le), Put(cache, le))
    ELSE Result("", le, IF le[1].Index - 1 = LargestIndex(cache)
                        THEN Put(cache, le) ELSE cache)

QueryRaftLog(lo, hi, k) ==
    LET get == CacheGet(cache, lo, hi)
        pre == ReadLog(get.prepend.lo, get.prepend.hi, k)
        app == ReadLog(get.append.lo, get.append.hi, k)
    IN IF lo = hi THEN Result("", <<>>, cache)
       ELSE IF ~ready THEN Result("unknown", <<>>, cache)
       ELSE IF get.prepend # NoRange
       THEN IF pre.err # "" THEN Result(pre.err, <<>>, cache)
            ELSE QueryPrepend(get.entries, pre.entries)
       ELSE IF get.append # NoRange
       THEN IF app.err # "" THEN Result(app.err, <<>>, cache)
            ELSE QueryAppend(get.entries, app.entries)
       ELSE Result("", FixSize(get.entries), cache)

-----------------------------------------------------------------------------
(* LogServer.Replicate, and the follower's worker at the other end.        *)

(* Mutant of Replicate: the range ends one entry late.                     *)
ReplicateOneMore(f) ==
    /\ stream[f].pc = "idle"
    /\ ~deleted
    /\ next[f] <= applied + 1
    /\ stream' = [stream EXCEPT ![f] =
                    Stream("open", next[f], next[f], applied + 2)]
    /\ UNCHANGED <<log, first, applied, cache, ready, event, deleted, got, next,
                   faults>>

(* The worker asks for the entry after its leader index.  GetTable fails   *)
(* for a table that is gone.                                               *)
Replicate(f) ==
    /\ stream[f].pc = "idle"
    /\ ~deleted
    /\ next[f] <= applied + 1
    /\ stream' = [stream EXCEPT ![f] =
                    Stream("open", next[f], next[f], applied + 1)]
    /\ UNCHANGED <<log, first, applied, cache, ready, event, deleted, got, next,
                   faults>>

ReplicateBehind(f) ==
    /\ stream[f].pc = "idle"
    /\ ~deleted
    /\ applied + 1 < next[f]
    /\ stream' = [stream EXCEPT ![f] =
                    Stream("behind", next[f], next[f], applied + 1)]
    /\ UNCHANGED <<log, first, applied, cache, ready, event, deleted, got, next,
                   faults>>

(* Mutant of AfterQuery: the next range starts with the last entry sent.   *)
AfterQueryAgain(s, q) ==
    IF q.err # "" THEN Stream(q.err, s.req, s.lo, s.hi)
    ELSE IF q.entries = <<>> THEN Stream("tail", s.req, s.lo, s.hi)
    ELSE Stream("open", s.req, q.entries[Len(q.entries)].Index, s.hi)

(* What the handler does next: an error response ("behind", "ahead"), the  *)
(* end of the stream without a response ("unknown"), the message that ends *)
(* an up-to-date stream ("tail"), or another query.                        *)
AfterQuery(s, q) ==
    IF q.err # "" THEN Stream(q.err, s.req, s.lo, s.hi)
    ELSE IF q.entries = <<>> THEN Stream("tail", s.req, s.lo, s.hi)
    ELSE LET after == q.entries[Len(q.entries)].Index + 1
         IN Stream("open", s.req, IF after < s.hi THEN after ELSE s.hi, s.hi)

(* One turn of the loop: query, and send the commands.                     *)
ReplicateQuery(f) ==
    /\ stream[f].pc = "open"
    /\ \E k \in 1..MaxLog :
         LET q == QueryRaftLog(stream[f].lo, stream[f].hi, k)
         IN /\ cache' = q.buf
            /\ got' = [got EXCEPT ![f] = @ \o q.entries]
            /\ stream' = [stream EXCEPT ![f] = AfterQuery(@, q)]
    /\ UNCHANGED <<log, first, applied, ready, event, deleted, next, faults>>

(* The worker has applied all that was sent and the stream is over.        *)
StreamEnd(f) ==
    /\ stream[f].pc \in {"behind", "unknown", "tail"}
    /\ next' = [next EXCEPT ![f] = @ + Len(got[f])]
    /\ stream' = [stream EXCEPT ![f] = NoStream]
    /\ got' = [got EXCEPT ![f] = <<>>]
    /\ UNCHANGED <<log, first, applied, cache, ready, event, deleted, faults>>

(* USE_SNAPSHOT: the worker restores the table from a snapshot, which      *)
(* carries the leader's applied index.                                     *)
StreamSnapshot(f) ==
    /\ stream[f].pc = "ahead"
    /\ next' = [next EXCEPT ![f] = applied + 1]
    /\ stream' = [stream EXCEPT ![f] = NoStream]
    /\ got' = [got EXCEPT ![f] = <<>>]
    /\ UNCHANGED <<log, first, applied, cache, ready, event, deleted, faults>>

(* The deadline passes, the connection or a proposal of the follower fails,*)
(* or Entries meets a compaction that runs at the same time.               *)
StreamBreak(f) ==
    /\ stream[f].pc # "idle"
    /\ faults < MaxFaults
    /\ faults' = faults + 1
    /\ \E n \in 0..Len(got[f]) : next' = [next EXCEPT ![f] = @ + n]
    /\ stream' = [stream EXCEPT ![f] = NoStream]
    /\ got' = [got EXCEPT ![f] = <<>>]
    /\ UNCHANGED <<log, first, applied, cache, ready, event, deleted>>

Next ==
    \/ AppendEntry \/ ApplyEntry \/ Compact \/ RemoveData
    \/ NodeReady \/ NodeDeleted \/ LogCompacted
    \/ \E f \in Followers :
         \/ Replicate(f) \/ ReplicateBehind(f) \/ ReplicateQuery(f)
         \/ StreamEnd(f) \/ StreamSnapshot(f) \/ StreamBreak(f)

Spec == Init /\ [][Next]_vars

-----------------------------------------------------------------------------
(* Properties.                                                             *)

(* The state keeps its shape: the log's indices are ordered, and an open   *)
(* stream's range lies within what was applied when it started.            *)
TypeOK ==
    /\ log \in Seq(Sizes)
    /\ applied \in 0..Len(log)
    /\ first \in 1..(applied + 1)
    /\ cache \in Seq([Index : Nat, Size : Sizes])
    /\ ready \in BOOLEAN /\ event \in BOOLEAN /\ deleted \in BOOLEAN
    /\ faults \in Nat
    /\ next \in [Followers -> Nat \ {0}]
    /\ got \in [Followers -> Seq([Index : Nat, Size : Sizes])]
    /\ stream \in [Followers -> [pc : {"idle", "open", "behind", "ahead",
                                       "unknown", "tail"},
                                 req : Nat, lo : Nat, hi : Nat]]
    /\ \A f \in Followers : stream[f].pc = "open" =>
          /\ stream[f].req = next[f]
          /\ stream[f].req <= stream[f].lo
          /\ stream[f].lo <= stream[f].hi
          /\ stream[f].hi <= applied + 1

(* The cache is a gapless run of entries of the log, at most CacheSize of  *)
(* them (the comment on cache.buffer), whatever mix of ranges the streams  *)
(* ask for and whenever the cache is emptied.                              *)
CacheIsRun ==
    /\ Len(cache) <= CacheSize
    /\ \A i \in 1..Len(cache) :
         /\ cache[i].Index = cache[1].Index + i - 1
         /\ cache[i].Index \in 1..Len(log)
         /\ cache[i] = Entry(cache[i].Index)

(* A follower is sent the log's entries in order, each one once, starting  *)
(* with the one it asked for, and none that the leader has not applied:    *)
(* whatever part came from the cache and what from the log, and whatever   *)
(* was compacted meanwhile.                                                *)
StreamInOrder ==
    \A f \in Followers : stream[f].pc # "idle" =>
        /\ got[f] # <<>> => next[f] + Len(got[f]) <= applied + 1
        /\ got[f] = Entries(next[f], next[f] + Len(got[f]))

(* USE_SNAPSHOT is answered only when the entry the stream is at has been  *)
(* compacted (ReplicateError.USE_SNAPSHOT), and LEADER_BEHIND only to a    *)
(* follower ahead of what the leader has applied.                          *)
ErrorsTruthful ==
    \A f \in Followers :
        /\ stream[f].pc = "ahead" => stream[f].lo < first
        /\ stream[f].pc = "behind" => stream[f].hi < stream[f].req

(* A poll makes progress: the first query of a stream to a follower that   *)
(* is behind sends it an entry or sends it to the snapshot, whatever mix   *)
(* of cached and uncached ranges, compaction and size limits it meets, as  *)
(* long as entries are smaller than a message: fixSize cuts a larger one   *)
(* from every cached answer.  (A later query may end the stream early: get *)
(* takes a range that ends where the cache starts for a cached one.  The   *)
(* next poll goes on.)                                                     *)
PollProgress ==
    \A f \in Followers, k \in 1..MaxLog :
        next[f] <= applied /\ ready /\ ~deleted =>
            LET q == QueryRaftLog(next[f], applied + 1, k)
            IN q.entries # <<>> \/ q.err = "ahead"
=============================================================================
