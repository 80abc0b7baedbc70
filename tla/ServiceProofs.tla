--------------------------- MODULE ServiceProofs ----------------------------
(***************************************************************************)
(* Proofs about Service, for every number of clients and nodes, all        *)
(* requests and every length of the log.                                   *)
(***************************************************************************)
EXTENDS Service, TLAPS

(* The provers, in this order, and their time limits in seconds.           *)
USE ZenonT(5), SMTT(30)

-----------------------------------------------------------------------------
(* Sequences.                                                              *)

(* The length and the elements of a sequence.                              *)
LEMMA SeqFacts ==
  ASSUME NEW S, NEW s \in Seq(S)
  PROVE  /\ Len(s) \in Nat /\ DOMAIN s = 1..Len(s)
         /\ \A i \in 1..Len(s) : s[i] \in S
  OBVIOUS

(* Append adds one element and keeps the others.                           *)
LEMMA AppendFacts ==
  ASSUME NEW S, NEW s \in Seq(S), NEW x \in S
  PROVE  /\ Append(s, x) \in Seq(S) /\ Len(Append(s, x)) = Len(s) + 1
         /\ \A i \in 1..Len(s) : Append(s, x)[i] = s[i]
         /\ Append(s, x)[Len(s) + 1] = x
  OBVIOUS

(* A part of a sequence, as a function of the position.                    *)
LEMMA SubSeqIs ==
  ASSUME NEW S, NEW s \in Seq(S), NEW a \in Nat \ {0}, NEW b \in Nat,
         a <= b + 1, b <= Len(s)
  PROVE  SubSeq(s, a, b) = [k \in 1..(b - a + 1) |-> s[a + k - 1]]
  OBVIOUS

(* A position after a and up to b is one of the n that a and b are within. *)
LEMMA Between ==
  ASSUME NEW n \in Nat, NEW a \in 0..n, NEW b \in 0..n, NEW i \in a + 1..b
  PROVE  i \in 1..n /\ i \in 1..(n + 1)
  OBVIOUS

-----------------------------------------------------------------------------
(* The message layer.                                                      *)

(* The entries of the log, with their clients.                             *)
LogEntries ==
    {Entry(e.req, e.data, c) : e \in Entries, c \in Clients \cup {Nil}}

(* An entry is that of a write, or of an election.                         *)
LEMMA EntryCases ==
  ASSUME NEW e \in LogEntries
  PROVE  /\ \/ \E s \in Writes : e.req = s.req /\ e.data = Proposal(s)
            \/ e.req = Nil /\ e.data = Nil
         /\ e.client \in Clients \cup {Nil}
         /\ Entry(e.req, e.data, Nil) \in Entries
         /\ e = Entry(e.req, e.data, e.client)
<1>1. PICK d \in Entries, c \in Clients \cup {Nil} : e = Entry(d.req, d.data, c)
  BY DEF LogEntries
<1>2. \A req, data, client :
        /\ Entry(req, data, client).req = req
        /\ Entry(req, data, client).data = data
        /\ Entry(req, data, client).client = client
  BY DEF Entry
<1>3. \/ \E s \in Writes : d = Entry(s.req, Proposal(s), Nil)
      \/ d = Entry(Nil, Nil, Nil)
  BY DEF Entries
<1>4. d = Entry(d.req, d.data, Nil)
  BY <1>2, <1>3
<1>5. e.req = d.req /\ e.data = d.data /\ e.client = c
  BY <1>1, <1>2
<1>6. \/ \E s \in Writes : e.req = s.req /\ e.data = Proposal(s)
      \/ e.req = Nil /\ e.data = Nil
  BY <1>2, <1>3, <1>5
<1> QED
  BY <1>1, <1>4, <1>5, <1>6, Zenon

(* An entry leads from a content of the table to another one.              *)
LEMMA EffectType ==
  ASSUME NEW e \in LogEntries, NEW content \in Tables
  PROVE  Effect(content, e.req) \in Tables
<1>1. CASE \E s \in Writes : e.req = s.req
  BY <1>1, WriteAssumption
<1>2. CASE e.req = Nil
  BY <1>2 DEF Effect
<1> QED
  BY <1>1, <1>2, EntryCases

(* Contents that differ in the empty key only still do after an entry.     *)
LEMMA EffectAgrees ==
  ASSUME NEW e \in LogEntries, NEW a \in Tables, NEW b \in Tables, Agree(a, b)
  PROVE  Agree(Effect(a, e.req), Effect(b, e.req))
<1>1. CASE \E s \in Writes : e.req = s.req
  BY <1>1, EmptyKeyAssumption, Zenon
<1>2. CASE e.req = Nil
  BY <1>2 DEF Effect
<1> QED
  BY <1>1, <1>2, EntryCases

-----------------------------------------------------------------------------
(* A sequence of entries.                                                  *)

(* The entries that make a proposal of the follower's worker.              *)
Batched(n, entries, first) ==
    /\ first \in 1..MaxLog /\ n \in 1..(MaxLog - first + 1)
    /\ entries \in [1..n -> Entries]

(* The entries of a log after lo, up to m, without their clients.          *)
Slice(l, lo, m) ==
    [k \in 1..(m - lo) |-> Entry(l[lo + k].req, l[lo + k].data, Nil)]

(* They are entries that the message layer carries.                        *)
LEMMA SliceEntries ==
  ASSUME NEW l \in Seq(LogEntries), Len(l) <= MaxLog,
         NEW lo \in 0..Len(l), NEW m \in lo..Len(l)
  PROVE  /\ Slice(l, lo, m) \in [1..(m - lo) -> Entries]
         /\ \A k \in 1..(m - lo) : /\ Slice(l, lo, m)[k].req = l[lo + k].req
                                   /\ Slice(l, lo, m)[k].data = l[lo + k].data
         /\ lo # m => Batched(m - lo, Slice(l, lo, m), lo + 1)
<1> DEFINE e == Slice(l, lo, m)
<1>1. Len(l) \in Nat /\ MaxLog \in Nat
  BY SeqFacts, ServiceAssumption
<1>2. \A k \in 1..(m - lo) : lo + k \in 1..Len(l)
  BY <1>1
<1>3. \A k \in 1..(m - lo) : l[lo + k] \in LogEntries
  BY <1>2, SeqFacts
<1>4. \A req, data, client :
        /\ Entry(req, data, client).req = req
        /\ Entry(req, data, client).data = data
  BY DEF Entry
<1>5. e \in [1..(m - lo) -> Entries]
  BY <1>3, EntryCases DEF Slice
<1>6. \A k \in 1..(m - lo) :
        e[k].req = l[lo + k].req /\ e[k].data = l[lo + k].data
  BY <1>4 DEF Slice
<1> HIDE DEF e
<1>7. lo # m => Batched(m - lo, e, lo + 1)
  BY <1>1, <1>5 DEF Batched
<1> QED
  BY <1>5, <1>6, <1>7 DEF e

(* The follower's state machine, given the entries after lo up to m in one *)
(* proposal: it has a content of the table, and the index of the last      *)
(* entry.  The content agrees with the leader's after m, if it has agreed  *)
(* with the one after lo; r are the leader's contents.                     *)
Replays(l, r, lo, m) ==
    \A p \in Pool, t \in Tables :
      LET u == Replay(p, t, Slice(l, lo, m), lo + 1)
      IN ~u.panic =>
           /\ u.kv \in Tables /\ u.leaderIndex = m
           /\ Agree(t, r[lo + 1]) => Agree(u.kv, r[m + 1])

(* It depends on these entries only.                                       *)
LEMMA ReplaysSame ==
  ASSUME NEW l, NEW r, NEW lo, NEW m, Replays(l, r, lo, m), NEW ll, NEW rr,
         \A k \in 1..(m - lo) : ll[lo + k] = l[lo + k],
         rr[lo + 1] = r[lo + 1], rr[m + 1] = r[m + 1]
  PROVE  Replays(ll, rr, lo, m)
<1>1. Slice(ll, lo, m) = Slice(l, lo, m)
  BY DEF Slice
<1> QED
  BY <1>1, Zenon DEF Replays

(* One entry more: it does what it has done in the leader's table.         *)
LEMMA ReplaysNext ==
  ASSUME NEW l \in Seq(LogEntries), Len(l) <= MaxLog,
         NEW r \in Seq(Tables), Len(r) = Len(l) + 1,
         \A i \in 1..Len(l) : r[i + 1] = Effect(r[i], l[i].req),
         NEW lo \in 0..Len(l), NEW m \in (lo + 1)..Len(l),
         m # lo + 1 => Replays(l, r, lo, m - 1)
  PROVE  Replays(l, r, lo, m)
<1> DEFINE n == m - lo
           e == Slice(l, lo, m)
           f == [k \in 1..(n - 1) |-> e[k]]
<1>1. /\ Len(l) \in Nat /\ lo \in Nat /\ m \in 1..Len(l) /\ n \in Nat \ {0}
      /\ m \in lo..Len(l) /\ lo # m /\ lo + 1 + n - 1 = m /\ lo + n = m
      /\ n = 1 <=> m = lo + 1
  BY SeqFacts
<1>2. /\ Batched(n, e, lo + 1) /\ e[n].req = l[m].req
      /\ n = 1 => e[1].req = l[m].req
  <2>1. /\ Batched(m - lo, e, lo + 1)
        /\ \A k \in 1..(m - lo) : e[k].req = l[lo + k].req
    BY <1>1, SliceEntries
  <2> HIDE DEF e
  <2> QED
    BY <1>1, <2>1
<1>3. m # lo + 1 => f = Slice(l, lo, m - 1)
  BY <1>1 DEF Slice
<1>4. /\ r[m] \in Tables /\ r[m + 1] = Effect(r[m], l[m].req)
      /\ l[m] \in LogEntries
  BY <1>1, SeqFacts
<1> HIDE DEF n, e, f
<1>5. ASSUME NEW t \in Tables
      PROVE  /\ Effect(t, l[m].req) \in Tables
             /\ Agree(t, r[m]) => Agree(Effect(t, l[m].req), r[m + 1])
  BY <1>4, EffectType, EffectAgrees
<1>6. ASSUME NEW p \in Pool, NEW t \in Tables, ~Replay(p, t, e, lo + 1).panic
      PROVE  /\ Replay(p, t, e, lo + 1).kv \in Tables
             /\ Replay(p, t, e, lo + 1).leaderIndex = m
             /\ Agree(t, r[lo + 1]) =>
                  Agree(Replay(p, t, e, lo + 1).kv, r[m + 1])
  <2> DEFINE u == Replay(p, t, e, lo + 1)
             b == Replay(p, t, f, lo + 1)
  <2>1. InSteps(n, e, lo + 1, p, t)
    BY <1>2, StreamAssumption, Zenon DEF Batched
  <2>2. /\ u.leaderIndex = lo + 1 + n - 1
        /\ n = 1 => u.kv = Effect(t, e[1].req)
        /\ n # 1 => ~b.panic /\ u.kv = Effect(b.kv, e[n].req)
    BY <1>6, <2>1, Zenon DEF InSteps, f
  <2> HIDE DEF u, b
  <2>3. u.leaderIndex = m
    BY <1>1, <2>2
  <2>4. CASE m = lo + 1
    BY <1>1, <1>2, <1>5, <2>2, <2>3, <2>4, Zenon DEF u
  <2>5. CASE m # lo + 1
    <3>1. /\ b.kv \in Tables
          /\ Agree(t, r[lo + 1]) => Agree(b.kv, r[m - 1 + 1])
      BY <1>1, <1>3, <2>2, <2>5, Zenon DEF Replays, b
    <3>2. m - 1 + 1 = m
      BY <1>1
    <3> QED
      BY <1>1, <1>2, <1>5, <2>2, <2>3, <2>5, <3>1, <3>2, Zenon DEF u
  <2> QED
    BY <2>4, <2>5
<1> QED
  BY <1>6, Zenon DEF Replays, e

-----------------------------------------------------------------------------
(* The inductive invariant.                                                *)

(* The reference is what the entries of the log lead to, one by one or     *)
(* many in a proposal.                                                     *)
LogOK ==
    /\ log \in Seq(LogEntries) /\ Len(log) <= MaxLog
    /\ ref \in Seq(Tables) /\ Len(ref) = Len(log) + 1
    /\ \A i \in 1..Len(log) : ref[i + 1] = Effect(ref[i], log[i].req)
    /\ \A lo \in 0..Len(log) : \A m \in (lo + 1)..Len(log) :
         Replays(log, ref, lo, m)
    /\ proposed \subseteq LogEntries

(* Entry m is the last one with a command that node n has applied.         *)
Seen(n, m) ==
    /\ m \in 0..applied[n]
    /\ m # 0 => log[m].data # Nil
    /\ \A i \in (m + 1)..applied[n] : log[i].data = Nil

(* A node of the leader cluster has the content of the entries that it has *)
(* applied, which is also the one of the last entry it has seen.           *)
NodesOK ==
    /\ applied \in [Nodes -> 0..Len(log)]
    /\ kv \in [Nodes \cup {follower} -> Tables]
    /\ \A n \in Nodes :
         /\ kv[n] = ref[applied[n] + 1]
         /\ \E m \in 0..applied[n] : Seen(n, m) /\ ref[m + 1] = kv[n]

(* The commands of the entries after lo, up to m.                          *)
CommandsAt(lo, m) ==
    [k \in 1..(m - lo) |-> ReplicateCommand(log[lo + k].data, lo + k)]

(* The follower has received the commands that follow its leader index.    *)
FollowerOK ==
    /\ known \in BOOLEAN
    /\ index \in 0..Len(log)
    /\ \E m \in index..Len(log) : stream = CommandsAt(index, m)
    /\ pool \in Pool

(* Entry e is the one of the write that client c waits for.                *)
Own(c, e) ==
    /\ calls[c].stage = "proposed"
    /\ e.req = calls[c].sent.req
    /\ e.data = Proposal(calls[c].sent)

(* A call that waits is one the server has accepted, and its proposal is   *)
(* either still a proposal or in the log, once.                            *)
CallOK(c) ==
    /\ calls[c].stage \in {"idle", "proposed", "reading", "done"}
    /\ calls[c].stage \in {"proposed", "reading"} =>
         /\ calls[c].sent \in Sent /\ Check(FALSE, TRUE, calls[c].sent) = "OK"
         /\ OnlyReads(calls[c].sent) <=> calls[c].stage = "reading"
         /\ calls[c].node \in Nodes /\ calls[c].from \in 0..Len(log)
    /\ \A p \in proposed : p.client = c => Own(c, p)
    /\ calls[c].stage = "proposed" =>
         \A i \in (calls[c].from + 1)..Len(log) :
           log[i].client = c =>
             Own(c, log[i]) /\ \A p \in proposed : p.client # c

CallsOK == DOMAIN calls = Clients /\ \A c \in Clients : CallOK(c)

Core == LogOK /\ NodesOK /\ FollowerOK /\ CallsOK

(* What is promised of an answer is of the log as it is.                   *)
DoneOK(c) ==
    calls[c].stage = "done" =>
      /\ calls[c].from \in 0..Len(log) /\ calls[c].to \in 0..Len(log)
      /\ Answered(c)

Prefixed == Agree(kv[follower], ref[index + 1])

Inv == Core /\ Prefixed /\ \A c \in Clients : DoneOK(c)

-----------------------------------------------------------------------------
(* Calls and proposals.                                                    *)

(* The fields of a call, of one that is done and of one that is not made.  *)
LEMMA CallFields ==
  ASSUME NEW stage, NEW s, NEW n, NEW from, NEW to, NEW answer
  PROVE  /\ Call(stage, s, n, from).stage = stage
         /\ Call(stage, s, n, from).sent = s
         /\ Call(stage, s, n, from).node = n
         /\ Call(stage, s, n, from).from = from
         /\ Done(s, from, to, answer).stage = "done"
         /\ Done(s, from, to, answer).sent = s
         /\ Done(s, from, to, answer).from = from
         /\ Done(s, from, to, answer).to = to
         /\ Done(s, from, to, answer).answer = answer
         /\ Idle.stage = "idle"
  BY DEF Call, Done, Idle

(* The fields of a call that has become done.                              *)
LEMMA DoneFields ==
  ASSUME NEW call, NEW s, NEW from, NEW to, NEW answer,
         call = Done(s, from, to, answer)
  PROVE  /\ call.stage = "done" /\ call.sent = s
         /\ call.from = from /\ call.to = to /\ call.answer = answer
  BY DEF Done

(* A call that does not change is as good as before, if no proposal is     *)
(* added to it.                                                            *)
LEMMA CallKept ==
  ASSUME NEW d, CallOK(d), calls'[d] = calls[d], log' = log,
         \A p \in proposed' : p.client = d => p \in proposed
  PROVE  CallOK(d)'
  BY Zenon DEF CallOK, Own

(* A call that begins or ends while nothing is proposed for it.            *)
LEMMA CallMoves ==
  ASSUME CallsOK, NEW c \in Clients, NEW call,
         calls' = [calls EXCEPT ![c] = call],
         call.stage \in {"idle", "reading", "done"},
         call.stage = "reading" =>
           /\ call.sent \in Sent /\ Check(FALSE, TRUE, call.sent) = "OK"
           /\ OnlyReads(call.sent)
           /\ call.node \in Nodes /\ call.from \in 0..Len(log),
         UNCHANGED <<log, proposed>>,
         \A p \in proposed : p.client # c
  PROVE  CallsOK'
<1>1. DOMAIN calls' = Clients /\ calls'[c] = call
  BY DEF CallsOK
<1>2. ASSUME NEW d \in Clients \ {c}
      PROVE  CallOK(d)'
  <2>1. calls'[d] = calls[d] /\ CallOK(d)
    BY DEF CallsOK
  <2> QED
    BY <2>1, CallKept
<1>3. CallOK(c)'
  BY <1>1, Zenon DEF CallOK
<1> QED
  BY <1>1, <1>2, <1>3 DEF CallsOK

(* A node of the leader cluster has the table.                             *)
LEMMA AcceptsNode ==
  ASSUME NEW n \in Nodes, NEW s, Accepts(n, s)
  PROVE  Check(FALSE, TRUE, s) = "OK"
<1>1. (n = follower) = FALSE /\ (n = follower => known) = TRUE
  BY ServiceAssumption
<1> QED
  BY <1>1, Zenon DEF Accepts

(* The log and the replicas do not change while calls begin and end.       *)
LEMMA StoresKept ==
  ASSUME LogOK, NodesOK, FollowerOK,
         UNCHANGED <<log, applied, ref, kv, known, index, stream, pool>>,
         proposed' \subseteq LogEntries
  PROVE  LogOK' /\ NodesOK' /\ FollowerOK'
  BY DEF LogOK, NodesOK, FollowerOK, Seen, CommandsAt

(* Only a call that waits for its write has a proposal.                    *)
LEMMA NoProposal ==
  ASSUME CallsOK, NEW c \in Clients, calls[c].stage # "proposed"
  PROVE  \A p \in proposed : p.client # c
  BY Zenon DEF CallsOK, CallOK, Own

(* Return: the client has its answer, and nothing was proposed for it any  *)
(* more.                                                                   *)
LEMMA ReturnCore ==
  ASSUME Core, NEW c \in Clients, Return(c)
  PROVE  Core'
<1>1. LogOK' /\ NodesOK' /\ FollowerOK'
  BY StoresKept DEF Core, Return, leader, replica, LogOK
<1>2. CallsOK'
  BY CallMoves, NoProposal, CallFields, Zenon DEF Core, Return, leader
<1> QED
  BY <1>1, <1>2 DEF Core

(* StaleRead: the call is over at once.                                    *)
LEMMA StaleReadCore ==
  ASSUME Core, NEW c \in Clients, NEW n, NEW s, StaleRead(c, n, s)
  PROVE  Core'
<1>1. LogOK' /\ NodesOK' /\ FollowerOK'
  BY StoresKept DEF Core, StaleRead, leader, replica, LogOK
<1>2. PICK call : calls' = [calls EXCEPT ![c] = call] /\ call.stage = "done"
  <2> DEFINE call == Done(s, IF n = follower THEN 0 ELSE Len(log),
                          IF n = follower THEN index ELSE applied[n],
                          ReadResult(kv[n], s))
  <2>1. calls' = [calls EXCEPT ![c] = call]
    BY DEF StaleRead
  <2>2. call.stage = "done"
    BY CallFields
  <2> HIDE DEF call
  <2> QED
    BY <2>1, <2>2, Zenon
<1>3. \A p \in proposed : p.client # c
  BY NoProposal DEF Core, StaleRead
<1>4. CallsOK'
  BY <1>2, <1>3, CallMoves, Zenon DEF Core, StaleRead, leader
<1> QED
  BY <1>1, <1>4 DEF Core

(* SyncRead: the server has accepted the request, and the call waits from  *)
(* the end of the log.                                                     *)
LEMMA SyncReadCore ==
  ASSUME Core, NEW c \in Clients, NEW n \in Nodes, NEW s \in Sent,
         SyncRead(c, n, s)
  PROVE  Core'
<1> DEFINE call == Call("reading", s, n, Len(log))
<1>1. LogOK' /\ NodesOK' /\ FollowerOK'
  BY StoresKept DEF Core, SyncRead, leader, replica, LogOK
<1>2. /\ calls' = [calls EXCEPT ![c] = call]
      /\ call.stage = "reading" /\ call.sent = s /\ call.node = n
      /\ call.from = Len(log)
  BY CallFields DEF SyncRead, Begin
<1> HIDE DEF call
<1>3. Check(FALSE, TRUE, s) = "OK" /\ OnlyReads(s)
  <2>1. Accepts(n, s) /\ OnlyReads(s)
    BY DEF SyncRead
  <2> QED
    BY <2>1, AcceptsNode, Zenon
<1>4. \A p \in proposed : p.client # c
  BY NoProposal DEF Core, SyncRead
<1>5. Len(log) \in 0..Len(log)
  BY SeqFacts DEF Core, LogOK
<1>6. CallsOK'
  BY <1>2, <1>3, <1>4, <1>5, CallMoves, Zenon DEF Core, SyncRead, leader
<1> QED
  BY <1>1, <1>6 DEF Core

(* ReadDone: the call is over; a read had no proposal.                     *)
LEMMA ReadDoneCore ==
  ASSUME Core, NEW c \in Clients, ReadDone(c)
  PROVE  Core'
<1>1. LogOK' /\ NodesOK' /\ FollowerOK'
  BY StoresKept, Zenon DEF Core, ReadDone, leader, replica, LogOK
<1>2. PICK call : calls' = [calls EXCEPT ![c] = call] /\ call.stage = "done"
  <2> DEFINE call == Done(calls[c].sent, calls[c].from, applied[calls[c].node],
                          ReadResult(kv[calls[c].node], calls[c].sent))
  <2>1. calls' = [calls EXCEPT ![c] = call]
    BY DEF ReadDone, Finish
  <2>2. call.stage = "done"
    BY CallFields
  <2> HIDE DEF call
  <2> QED
    BY <2>1, <2>2, Zenon
<1>3. \A p \in proposed : p.client # c
  BY NoProposal DEF Core, ReadDone
<1>4. CallsOK'
  BY <1>2, <1>3, CallMoves, Zenon DEF Core, ReadDone, leader
<1> QED
  BY <1>1, <1>4 DEF Core

(* SyncPropose: the client gets its first and only proposal, and no entry  *)
(* after the call's beginning is its own yet.                              *)
LEMMA SyncProposeCore ==
  ASSUME Core, NEW c \in Clients, NEW n \in Nodes, NEW s \in Sent,
         SyncPropose(c, n, s)
  PROVE  Core'
<1> DEFINE call == Call("proposed", s, n, Len(log))
           new == Entry(s.req, Proposal(s), c)
<1>1. s \in Writes /\ ~OnlyReads(s) /\ Check(FALSE, TRUE, s) = "OK"
  <2>1. Accepts(n, s) /\ ~OnlyReads(s)
    BY DEF SyncPropose
  <2>2. Check(FALSE, TRUE, s) = "OK"
    BY <2>1, AcceptsNode, Zenon
  <2> QED
    BY <2>1, <2>2, Zenon DEF Writes
<1>2. new \in LogEntries
  <2>1. Entry(s.req, Proposal(s), Nil) \in Entries
    BY <1>1 DEF Entries
  <2>2. /\ Entry(s.req, Proposal(s), Nil).req = s.req
        /\ Entry(s.req, Proposal(s), Nil).data = Proposal(s)
    BY DEF Entry
  <2> QED
    BY <2>1, <2>2 DEF LogEntries
<1>3. LogOK' /\ NodesOK' /\ FollowerOK'
  BY <1>2, StoresKept DEF Core, SyncPropose, replica, LogOK
<1>4. /\ calls' = [calls EXCEPT ![c] = call]
      /\ call.stage = "proposed" /\ call.sent = s /\ call.node = n
      /\ call.from = Len(log)
  BY CallFields DEF SyncPropose, Begin
<1>5. /\ proposed' = proposed \cup {new} /\ log' = log
      /\ new.client = c /\ new.req = s.req /\ new.data = Proposal(s)
  BY Zenon DEF SyncPropose, Entry
<1> HIDE DEF call, new
<1>6. Len(log) \in Nat
  BY SeqFacts DEF Core, LogOK
<1>7. \A p \in proposed : p.client # c
  BY NoProposal DEF Core, SyncPropose
<1>8. DOMAIN calls' = Clients /\ calls'[c] = call
  BY <1>4 DEF Core, CallsOK
<1>9. CallOK(c)'
  <2>1. /\ calls'[c].stage = "proposed" /\ calls'[c].sent = s
        /\ calls'[c].node = n /\ calls'[c].from = Len(log)
    BY <1>4, <1>8
  <2>2. \A p \in proposed' : p.client = c => Own(c, p)'
    BY <1>5, <1>7, <2>1 DEF Own
  <2>3. ~ \E i \in (calls'[c].from + 1)..Len(log') : TRUE
    BY <1>5, <1>6, <2>1
  <2>4. OnlyReads(calls'[c].sent) <=> calls'[c].stage = "reading"
    BY <1>1, <2>1
  <2>5. Check(FALSE, TRUE, calls'[c].sent) = "OK"
    BY <1>1, <2>1, Zenon
  <2>6. /\ calls'[c].sent \in Sent /\ calls'[c].node \in Nodes
        /\ calls'[c].from \in 0..Len(log')
    BY <1>5, <1>6, <2>1
  <2> QED
    BY <2>1, <2>2, <2>3, <2>4, <2>5, <2>6, Zenon DEF CallOK
<1>10. ASSUME NEW d \in Clients \ {c}
       PROVE  CallOK(d)'
  <2>1. calls'[d] = calls[d] /\ CallOK(d)
    BY <1>4 DEF Core, CallsOK
  <2> QED
    BY <1>5, <2>1, CallKept
<1>11. CallsOK'
  BY <1>8, <1>9, <1>10 DEF CallsOK
<1> QED
  BY <1>3, <1>11 DEF Core

(* Timeout: what was proposed stays a proposal, of nobody.                 *)
LEMMA TimeoutCore ==
  ASSUME Core, NEW c \in Clients, Timeout(c)
  PROVE  Core'
<1> DEFINE left(p) == Entry(p.req, p.data,
                            IF p.client = c THEN Nil ELSE p.client)
<1>1. /\ calls' = [calls EXCEPT ![c] = Idle] /\ Idle.stage = "idle"
      /\ proposed' = {left(p) : p \in proposed} /\ log' = log
  BY CallFields DEF Timeout
<1>2. \A p \in proposed :
        /\ left(p) \in LogEntries
        /\ left(p).client # c
        /\ left(p).client \in Clients => left(p) = p
  <2> SUFFICES ASSUME NEW p \in proposed
               PROVE  /\ left(p) \in LogEntries
                      /\ left(p).client # c
                      /\ left(p).client \in Clients => left(p) = p
    OBVIOUS
  <2>1. p \in LogEntries
    BY DEF Core, LogOK
  <2>2. /\ p.client \in Clients \cup {Nil}
        /\ Entry(p.req, p.data, Nil) \in Entries
        /\ p = Entry(p.req, p.data, p.client)
    BY <2>1, EntryCases
  <2>3. /\ Entry(p.req, p.data, Nil).req = p.req
        /\ Entry(p.req, p.data, Nil).data = p.data
        /\ left(p).client = IF p.client = c THEN Nil ELSE p.client
    BY DEF Entry
  <2>4. left(p) \in LogEntries
    BY <2>2, <2>3 DEF LogEntries
  <2>5. left(p).client # c
    BY <2>3, ServiceAssumption
  <2>6. p.client # c => left(p) = p
    BY <2>2
  <2> QED
    BY <2>3, <2>4, <2>5, <2>6, ServiceAssumption
<1> HIDE DEF left
<1>3. LogOK' /\ NodesOK' /\ FollowerOK'
  BY <1>1, <1>2, StoresKept, Zenon DEF Core, Timeout, replica, LogOK
<1>4. DOMAIN calls' = Clients /\ calls'[c] = Idle
  BY <1>1 DEF Core, CallsOK
<1>5. CallOK(c)'
  BY <1>1, <1>2, <1>4, Zenon DEF CallOK
<1>6. ASSUME NEW d \in Clients \ {c}
      PROVE  CallOK(d)'
  <2>1. calls'[d] = calls[d] /\ CallOK(d)
    BY <1>1 DEF Core, CallsOK
  <2>2. \A p \in proposed' : p.client = d => p \in proposed
    BY <1>1, <1>2
  <2> QED
    BY <1>1, <2>1, <2>2, CallKept
<1>7. CallsOK'
  BY <1>4, <1>5, <1>6 DEF CallsOK
<1> QED
  BY <1>3, <1>7 DEF Core

-----------------------------------------------------------------------------
(* The log.                                                                *)

(* Raft commits the entry e.                                               *)
Grows(e) ==
    /\ Len(log) < MaxLog
    /\ log' = Append(log, e)
    /\ ref' = Append(ref, Effect(ref[Len(ref)], e.req))

(* The log and the reference have one element more, and the others as      *)
(* before.                                                                 *)
LEMMA GrowsFacts ==
  ASSUME LogOK, NEW e \in LogEntries, Grows(e)
  PROVE  /\ Len(log) \in Nat /\ Len(log') = Len(log) + 1 /\ Len(log') <= MaxLog
         /\ log' \in Seq(LogEntries) /\ log'[Len(log) + 1] = e
         /\ \A i \in 1..Len(log) : log'[i] = log[i]
         /\ ref' \in Seq(Tables) /\ Len(ref') = Len(log) + 2
         /\ \A i \in 1..(Len(log) + 1) : ref'[i] = ref[i]
         /\ ref'[Len(log) + 2] = Effect(ref[Len(log) + 1], e.req)
<1>1. /\ log \in Seq(LogEntries) /\ ref \in Seq(Tables)
      /\ Len(log) \in Nat /\ Len(ref) = Len(log) + 1
  BY SeqFacts DEF LogOK
<1>2. ref[Len(log) + 1] \in Tables
  <2>1. Len(log) + 1 \in 1..Len(ref)
    BY <1>1
  <2> QED
    BY <1>1, <2>1, SeqFacts
<1>3. Effect(ref[Len(log) + 1], e.req) \in Tables
  BY <1>2, EffectType
<1>4. /\ Len(log') = Len(log) + 1
      /\ log' \in Seq(LogEntries) /\ log'[Len(log) + 1] = e
      /\ \A i \in 1..Len(log) : log'[i] = log[i]
  BY <1>1, AppendFacts DEF Grows
<1>5. /\ ref' \in Seq(Tables) /\ Len(ref') = Len(log) + 2
      /\ \A i \in 1..(Len(log) + 1) : ref'[i] = ref[i]
      /\ ref'[Len(log) + 2] = Effect(ref[Len(log) + 1], e.req)
  BY <1>1, <1>2, <1>3, AppendFacts DEF Grows
<1>6. Len(log') <= MaxLog
  BY <1>1, <1>4, ServiceAssumption DEF Grows
<1> QED
  BY <1>1, <1>4, <1>5, <1>6

(* The replicas have what they had, in the longer log.                     *)
LEMMA GrowsStores ==
  ASSUME LogOK, NodesOK, FollowerOK, NEW e \in LogEntries, Grows(e),
         UNCHANGED <<applied, kv, known, index, stream, pool>>,
         proposed' \subseteq LogEntries
  PROVE  LogOK' /\ NodesOK' /\ FollowerOK'
<1>1. /\ Len(log) \in Nat /\ Len(log') = Len(log) + 1 /\ Len(log') <= MaxLog
      /\ log' \in Seq(LogEntries) /\ log'[Len(log) + 1] = e
      /\ \A i \in 1..Len(log) : log'[i] = log[i]
      /\ ref' \in Seq(Tables) /\ Len(ref') = Len(log) + 2
      /\ \A i \in 1..(Len(log) + 1) : ref'[i] = ref[i]
      /\ ref'[Len(log) + 2] = Effect(ref[Len(log) + 1], e.req)
  BY GrowsFacts
<1>2. LogOK'
  <2>1. ASSUME NEW i \in 1..Len(log')
        PROVE  ref'[i + 1] = Effect(ref'[i], log'[i].req)
    <3>1. CASE i \in 1..Len(log)
      <4>1. ref[i + 1] = Effect(ref[i], log[i].req)
        BY <3>1 DEF LogOK
      <4> QED
        BY <1>1, <3>1, <4>1
    <3>2. CASE i = Len(log) + 1
      BY <1>1, <3>2
    <3> QED
      BY <1>1, <3>1, <3>2
  <2>2. ASSUME NEW lo \in 0..Len(log), NEW m \in (lo + 1)..Len(log)
        PROVE  Replays(log', ref', lo, m)
    <3>1. /\ \A k \in 1..(m - lo) : log'[lo + k] = log[lo + k]
          /\ ref'[lo + 1] = ref[lo + 1] /\ ref'[m + 1] = ref[m + 1]
      <4>1. \A k \in 1..(m - lo) : lo + k \in 1..Len(log)
        BY <1>1
      <4>2. lo + 1 \in 1..(Len(log) + 1) /\ m + 1 \in 1..(Len(log) + 1)
        BY <1>1
      <4> QED
        BY <1>1, <4>1, <4>2, Zenon
    <3>2. Replays(log, ref, lo, m)
      BY DEF LogOK
    <3> QED
      BY <3>1, <3>2, ReplaysSame, Zenon
  <2>3. ASSUME NEW lo \in 0..Len(log'), NEW m \in (lo + 1)..Len(log')
        PROVE  Replays(log', ref', lo, m)
    <3>1. CASE m \in (lo + 1)..Len(log)
      BY <1>1, <2>2, <3>1
    <3>2. CASE m = Len(log')
      <4>1. m # lo + 1 => lo \in 0..Len(log) /\ m - 1 \in (lo + 1)..Len(log)
        BY <1>1, <3>2
      <4>2. m # lo + 1 => Replays(log', ref', lo, m - 1)
        BY <2>2, <4>1, Zenon
      <4>3. Len(ref') = Len(log') + 1
        BY <1>1
      <4> QED
        BY <1>1, <2>1, <4>2, <4>3, ReplaysNext, Zenon
    <3> QED
      BY <1>1, <3>1, <3>2
  <2> QED
    BY <1>1, <2>1, <2>3 DEF LogOK
<1>3. NodesOK'
  <2>1. /\ applied' \in [Nodes -> 0..Len(log')]
        /\ kv' \in [Nodes \cup {follower} -> Tables]
    BY <1>1 DEF NodesOK
  <2>2. ASSUME NEW n \in Nodes
        PROVE  /\ kv'[n] = ref'[applied'[n] + 1]
               /\ \E m \in 0..applied'[n] : Seen(n, m)' /\ ref'[m + 1] = kv'[n]
    <3>1. PICK m \in 0..applied[n] : Seen(n, m) /\ ref[m + 1] = kv[n]
      BY DEF NodesOK
    <3>2. applied[n] \in 0..Len(log) /\ kv[n] = ref[applied[n] + 1]
      BY DEF NodesOK
    <3>3. Seen(n, m)'
      <4>1. \A i \in 1..applied[n] : log'[i] = log[i]
        BY <1>1, <3>2
      <4>2. m # 0 => m \in 1..applied[n]
        BY <3>1, <3>2
      <4>3. \A i \in (m + 1)..applied[n] : i \in 1..applied[n]
        BY <3>1, <3>2
      <4> QED
        BY <3>1, <4>1, <4>2, <4>3 DEF Seen
    <3>4. ref'[m + 1] = kv'[n] /\ kv'[n] = ref'[applied'[n] + 1]
      BY <1>1, <3>1, <3>2
    <3> QED
      BY <3>1, <3>3, <3>4, Zenon
  <2> QED
    BY <2>1, <2>2 DEF NodesOK
<1>4. FollowerOK'
  <2>1. PICK m \in index..Len(log) : stream = CommandsAt(index, m)
    BY DEF FollowerOK
  <2>2. index \in 0..Len(log)
    BY DEF FollowerOK
  <2>3. CommandsAt(index, m)' = CommandsAt(index, m)
    <3>1. \A k \in 1..(m - index) : index + k \in 1..Len(log)
      BY <1>1, <2>1, <2>2
    <3>2. \A k \in 1..(m - index) : log'[index + k] = log[index + k]
      BY <1>1, <3>1
    <3> QED
      BY <3>2 DEF CommandsAt
  <2>4. m \in index'..Len(log') /\ stream' = CommandsAt(index, m)'
    BY <1>1, <2>1, <2>2, <2>3
  <2>5. known' \in BOOLEAN /\ pool' \in Pool /\ index' \in 0..Len(log')
    BY <1>1, <2>2 DEF FollowerOK
  <2> QED
    BY <2>4, <2>5 DEF FollowerOK
<1> QED
  BY <1>2, <1>3, <1>4

(* A proposal is committed once, so the client that waits for it has one   *)
(* entry, in the log or to be.                                             *)
LEMMA CommitCore ==
  ASSUME Core, NEW p \in proposed, Commit(p)
  PROVE  Core'
<1>1. /\ p \in LogEntries /\ Grows(p) /\ proposed' \subseteq proposed
      /\ proposed' \subseteq LogEntries /\ p \notin proposed'
      /\ calls' = calls /\ LogOK /\ CallsOK
  BY DEF Core, LogOK, Commit, Grows
<1>2. LogOK' /\ NodesOK' /\ FollowerOK'
  <2>1. UNCHANGED <<applied, kv, known, index, stream, pool>>
    BY DEF Commit, replica
  <2> QED
    BY <1>1, <2>1, GrowsStores DEF Core
<1>3. /\ Len(log) \in Nat /\ Len(log') = Len(log) + 1
      /\ log'[Len(log) + 1] = p /\ \A i \in 1..Len(log) : log'[i] = log[i]
  BY <1>1, GrowsFacts
<1>4. ASSUME NEW d \in Clients
      PROVE  CallOK(d)'
  <2>1. CallOK(d) /\ calls'[d] = calls[d] /\ \A e : Own(d, e)' <=> Own(d, e)
    BY <1>1 DEF CallsOK, Own
  <2>2. \A q \in proposed' : q.client = d => Own(d, q)
    BY <1>1, <2>1 DEF CallOK
  <2>3. calls[d].stage \in {"proposed", "reading"} =>
          calls[d].from \in 0..Len(log) /\ calls[d].from \in 0..Len(log')
    <3>1. calls[d].stage \in {"proposed", "reading"} =>
            calls[d].from \in 0..Len(log)
      BY <2>1, Zenon DEF CallOK
    <3> QED
      BY <1>3, <3>1
  <2>4. ASSUME calls[d].stage = "proposed",
               NEW i \in (calls[d].from + 1)..Len(log'), log'[i].client = d
        PROVE  Own(d, log'[i]) /\ \A q \in proposed' : q.client # d
    <3>1. CASE i \in 1..Len(log)
      <4>1. i \in (calls[d].from + 1)..Len(log) /\ log[i].client = d
        BY <1>3, <2>3, <2>4, <3>1
      <4>2. Own(d, log[i]) /\ \A q \in proposed : q.client # d
        BY <2>1, <2>4, <4>1 DEF CallOK
      <4> QED
        BY <1>1, <1>3, <3>1, <4>2, Zenon
    <3>2. CASE i = Len(log) + 1
      <4>1. p.client = d /\ Own(d, p)
        BY <1>3, <2>1, <2>4, <3>2, Zenon DEF CallOK
      <4>2. ASSUME NEW q \in proposed', q.client = d
            PROVE  FALSE
        <5>1. Own(d, q) /\ q \in LogEntries
          BY <1>1, <2>2, <4>2
        <5>2. q.req = p.req /\ q.data = p.data /\ q.client = p.client
          BY <4>1, <4>2, <5>1 DEF Own
        <5>3. /\ q = Entry(q.req, q.data, q.client)
              /\ p = Entry(p.req, p.data, p.client)
          BY <1>1, <5>1, EntryCases
        <5> QED
          BY <1>1, <5>2, <5>3
      <4> QED
        BY <1>3, <3>2, <4>1, <4>2
    <3> QED
      BY <1>3, <2>3, <2>4, <3>1, <3>2
  <2> QED
    BY <2>1, <2>2, <2>3, <2>4, Zenon DEF CallOK
<1>5. CallsOK'
  BY <1>1, <1>4, Zenon DEF CallsOK
<1> QED
  BY <1>2, <1>5 DEF Core

(* The entry of an election is one that does not change the content.       *)
LEMMA ElectGrows ==
  ASSUME LogOK, Elect
  PROVE  Entry(Nil, Nil, Nil) \in LogEntries /\ Grows(Entry(Nil, Nil, Nil))
<1>1. Entry(Nil, Nil, Nil).req = Nil /\ Entry(Nil, Nil, Nil).data = Nil
  BY DEF Entry
<1>2. Entry(Nil, Nil, Nil) \in Entries
  BY Zenon DEF Entries
<1>3. Entry(Nil, Nil, Nil) \in LogEntries
  BY <1>1, <1>2 DEF LogEntries
<1> QED
  BY <1>1, <1>3 DEF Elect, Grows, Effect

(* Nobody waits for the entry of an election.                              *)
LEMMA ElectCore ==
  ASSUME Core, Elect
  PROVE  Core'
<1> DEFINE p == Entry(Nil, Nil, Nil)
<1>1. /\ p \in LogEntries /\ Grows(p) /\ p.client = Nil
      /\ calls' = calls /\ proposed' = proposed /\ LogOK /\ CallsOK
  BY ElectGrows DEF Core, Elect, Entry
<1> HIDE DEF p
<1>2. LogOK' /\ NodesOK' /\ FollowerOK'
  <2>1. UNCHANGED <<applied, kv, known, index, stream, pool>>
    BY DEF Elect, replica
  <2>2. proposed' \subseteq LogEntries
    BY <1>1 DEF LogOK
  <2> QED
    BY <1>1, <2>1, <2>2, GrowsStores DEF Core
<1>3. /\ Len(log) \in Nat /\ Len(log') = Len(log) + 1
      /\ log'[Len(log) + 1] = p /\ \A i \in 1..Len(log) : log'[i] = log[i]
  BY <1>1, GrowsFacts
<1>4. ASSUME NEW d \in Clients
      PROVE  CallOK(d)'
  <2>1. CallOK(d) /\ calls'[d] = calls[d] /\ \A e : Own(d, e)' <=> Own(d, e)
    BY <1>1 DEF CallsOK, Own
  <2>2. calls[d].stage \in {"proposed", "reading"} =>
          calls[d].from \in 0..Len(log) /\ calls[d].from \in 0..Len(log')
    <3>1. calls[d].stage \in {"proposed", "reading"} =>
            calls[d].from \in 0..Len(log)
      BY <2>1, Zenon DEF CallOK
    <3> QED
      BY <1>3, <3>1
  <2>3. ASSUME calls[d].stage = "proposed",
               NEW i \in (calls[d].from + 1)..Len(log'), log'[i].client = d
        PROVE  Own(d, log'[i]) /\ \A q \in proposed : q.client # d
    <3>1. i # Len(log) + 1
      BY <1>1, <1>3, <2>3, ServiceAssumption
    <3>2. i \in (calls[d].from + 1)..Len(log) /\ log'[i] = log[i]
      BY <1>3, <2>2, <2>3, <3>1
    <3> QED
      BY <2>1, <2>3, <3>2 DEF CallOK
  <2> QED
    BY <1>1, <2>1, <2>2, <2>3, Zenon DEF CallOK
<1>5. CallsOK'
  BY <1>1, <1>4, Zenon DEF CallsOK
<1> QED
  BY <1>2, <1>5 DEF Core

-----------------------------------------------------------------------------
(* The replicas of the leader cluster.                                     *)

(* The local index of a node is that of the last entry it has seen.        *)
LEMMA LocalIndexSeen ==
  ASSUME NEW n, applied[n] \in Nat, NEW m, Seen(n, m)
  PROVE  LocalIndex(n) = m
<1> DEFINE S == {0} \cup {i \in 1..applied[n] : log[i].data # Nil}
<1>1. m \in S /\ \A i \in S : i \in Nat /\ i <= m
  <2>1. ASSUME NEW i \in 1..applied[n], log[i].data # Nil
        PROVE  i <= m
    BY <2>1 DEF Seen
  <2> QED
    BY <2>1 DEF Seen
<1> HIDE DEF S
<1>2. \A x \in S : (\A y \in S : y <= x) => x = m
  BY <1>1
<1>3. LocalIndex(n) = CHOOSE x \in S : \A y \in S : y <= x
  BY DEF LocalIndex, S
<1> QED
  BY <1>1, <1>2, <1>3, Zenon

(* An entry without a command is of an election and changes nothing; one   *)
(* with a command is of a write.                                           *)
LEMMA EntryData ==
  ASSUME NEW e \in LogEntries
  PROVE  /\ e.data = Nil => e.req = Nil
         /\ e.data # Nil =>
              \E s \in Writes : e.req = s.req /\ e.data = Proposal(s)
  BY EntryCases, WriteAssumption

(* The entry that node n applies, on the content it has.                   *)
LEMMA ApplyEntry ==
  ASSUME LogOK, NodesOK, NEW n \in Nodes, applied[n] + 1 <= Len(log)
  PROVE  LET i == applied[n] + 1
         IN /\ i \in 1..Len(log) /\ i \in 1..MaxLog
            /\ log[i] \in LogEntries
            /\ kv[n] \in Tables /\ kv[n] = ref[i]
            /\ ref[i + 1] = Effect(ref[i], log[i].req)
<1>1. Len(log) \in Nat /\ applied[n] \in 0..Len(log) /\ Len(log) <= MaxLog
  BY SeqFacts DEF LogOK, NodesOK
<1>2. applied[n] + 1 \in 1..Len(log) /\ applied[n] + 1 \in 1..MaxLog
  BY <1>1, ServiceAssumption
<1>3. log[applied[n] + 1] \in LogEntries
  BY <1>2, SeqFacts DEF LogOK
<1> QED
  BY <1>2, <1>3 DEF LogOK, NodesOK

(* The entry of a write leads to the reference's next content.             *)
LEMMA ApplyUpdate ==
  ASSUME LogOK, NodesOK, NEW n \in Nodes, applied[n] + 1 <= Len(log),
         NEW s \in Writes,
         log[applied[n] + 1].req = s.req,
         log[applied[n] + 1].data = Proposal(s),
         NEW u, u = Update(kv[n], log[applied[n] + 1].data, applied[n] + 1),
         ~u.panic
  PROVE  LET i == applied[n] + 1
         IN /\ u.kv = ref[i + 1] /\ u.kv \in Tables
            /\ GivesAt(WriteResult(s, u), Promised(ref[i], s.req), i)
<1> DEFINE i == applied[n] + 1
<1>1. /\ i \in 1..MaxLog /\ kv[n] \in Tables /\ kv[n] = ref[i]
      /\ ref[i + 1] = Effect(ref[i], log[i].req)
  BY ApplyEntry
<1>2. u = Update(kv[n], Proposal(s), i)
  OBVIOUS
<1> HIDE DEF i
<1>3. /\ u.kv = Effect(kv[n], s.req) /\ u.kv \in Tables
      /\ GivesAt(WriteResult(s, u), Promised(kv[n], s.req), i)
  BY <1>1, <1>2, WriteAssumption
<1> QED
  BY <1>1, <1>3 DEF i

(* Apply: the node has the reference's content of one entry more.  The     *)
(* entry is the last one its state machine has seen, if it has a command.  *)
LEMMA ApplyStores ==
  ASSUME LogOK, NodesOK, FollowerOK, NEW n \in Nodes, Apply(n)
  PROVE  LogOK' /\ NodesOK' /\ FollowerOK'
<1>1. PICK i \in Nat : applied[n] \in Nat /\ i = applied[n] + 1
  BY DEF NodesOK
<1>2. /\ i <= Len(log) /\ applied' = [applied EXCEPT ![n] = i]
      /\ UNCHANGED <<log, proposed, ref, known, index, stream, pool>>
  BY <1>1, Zenon DEF Apply, replica
<1>3. LogOK' /\ FollowerOK'
  BY <1>2 DEF LogOK, FollowerOK, CommandsAt
<1>4. /\ i \in 1..Len(log) /\ log[i] \in LogEntries
      /\ kv[n] \in Tables /\ kv[n] = ref[i]
      /\ ref[i + 1] = Effect(ref[i], log[i].req)
  BY <1>2, <1>1, ApplyEntry, Zenon
<1>5. applied' \in [Nodes -> 0..Len(log')] /\ applied'[n] = i
  BY <1>2, <1>4 DEF NodesOK
<1>6. PICK m \in 0..applied[n] : Seen(n, m) /\ ref[m + 1] = kv[n]
  BY DEF NodesOK
<1>7. /\ kv' \in [Nodes \cup {follower} -> Tables]
      /\ \A d \in Nodes \ {n} : kv'[d] = kv[d]
      /\ kv'[n] = ref[i + 1]
      /\ \E j \in 0..i : Seen(n, j)' /\ ref[j + 1] = kv'[n]
  <2>1. CASE log[i].data = Nil
    <3>1. kv' = kv
      BY <1>1, <2>1 DEF Apply, Updated
    <3>2. ref[i + 1] = ref[i]
      BY <1>4, <2>1, EntryData DEF Effect
    <3>3. Seen(n, m)'
      BY <1>2, <1>1, <1>5, <1>6, <2>1 DEF Seen
    <3> QED
      BY <1>4, <1>1, <1>6, <3>1, <3>2, <3>3 DEF NodesOK
  <2>2. CASE log[i].data # Nil
    <3> DEFINE u == Update(kv[n], log[i].data, i)
    <3>1. ~u.panic /\ kv' = [kv EXCEPT ![n] = u.kv]
      BY <1>1, <2>2 DEF Apply, Updated
    <3>2. PICK s \in Writes : log[i].req = s.req /\ log[i].data = Proposal(s)
      BY <1>4, <2>2, EntryData
    <3> HIDE DEF u
    <3>3. u.kv = ref[i + 1] /\ u.kv \in Tables
      BY <1>2, <1>1, <3>1, <3>2, ApplyUpdate DEF u
    <3>4. Seen(n, i)'
      BY <1>2, <1>4, <1>1, <1>5, <2>2 DEF Seen
    <3>5. i \in 0..i
      BY <1>1
    <3>6. /\ kv' \in [Nodes \cup {follower} -> Tables]
          /\ \A d \in Nodes \ {n} : kv'[d] = kv[d]
          /\ kv'[n] = ref[i + 1]
      BY <3>1, <3>3, Zenon DEF NodesOK
    <3> QED
      BY <3>4, <3>5, <3>6
  <2> QED
    BY <2>1, <2>2
<1>8. ASSUME NEW d \in Nodes
      PROVE  /\ kv'[d] = ref'[applied'[d] + 1]
             /\ \E j \in 0..applied'[d] : Seen(d, j)' /\ ref'[j + 1] = kv'[d]
  <2>1. CASE d = n
    BY <1>2, <1>5, <1>7, <2>1, Zenon
  <2>2. CASE d # n
    <3>1. applied'[d] = applied[d] /\ kv'[d] = kv[d]
      BY <1>2, <1>7, <2>2 DEF NodesOK
    <3>2. \A j : Seen(d, j)' <=> Seen(d, j)
      BY <1>2, <3>1 DEF Seen
    <3> QED
      BY <1>2, <3>1, <3>2, Zenon DEF NodesOK
  <2> QED
    BY <2>1, <2>2, Zenon
<1>9. NodesOK'
  BY <1>5, <1>7, <1>8 DEF NodesOK
<1> QED
  BY <1>3, <1>9

(* An entry with a command that node n applies is answered, if its client  *)
(* still waits at that node.                                               *)
Answers(c, n, i) ==
    LET u == Update(kv[n], log[i].data, i)
    IN /\ log[i].client = c /\ ~u.panic
       /\ calls[c].stage = "proposed" /\ calls[c].from < i
       /\ calls' = [calls EXCEPT ![c] =
                      Done(calls[c].sent, calls[c].from, i,
                           WriteResult(calls[c].sent, u))]

(* Apply ends no call but the one that proposed the entry.                 *)
LEMMA Notified ==
  ASSUME LogOK, NodesOK, NEW n \in Nodes, Apply(n)
  PROVE  calls' = calls \/ \E c \in Clients : Answers(c, n, applied[n] + 1)
<1> DEFINE i == applied[n] + 1
           u == Update(kv[n], log[i].data, i)
           c == log[i].client
<1>1. i <= Len(log)
  BY DEF Apply
<1>2. log[i] \in LogEntries
  BY <1>1, ApplyEntry
<1>3. c \in Clients \cup {Nil}
  BY <1>2, EntryCases
<1>4. calls' = calls \/ (~u.panic /\ Notify(n, i, c, u))
  BY Zenon DEF Apply, Updated
<1> HIDE DEF i, u, c
<1>5. ASSUME ~u.panic, calls' # calls, Notify(n, i, c, u)
      PROVE  Answers(c, n, i) /\ c # Nil
  BY <1>5, Zenon DEF Notify, Finish, Answers, c, u
<1> QED
  BY <1>3, <1>4, <1>5 DEF i

(* Apply: a call that is answered has no other proposal, so that none is   *)
(* left behind for its next call.                                          *)
LEMMA ApplyCore ==
  ASSUME Core, NEW n \in Nodes, Apply(n)
  PROVE  Core'
<1>1. LogOK' /\ NodesOK' /\ FollowerOK'
  BY ApplyStores DEF Core
<1>2. LogOK /\ NodesOK /\ CallsOK /\ UNCHANGED <<log, proposed>>
  BY DEF Core, Apply
<1>3. CASE calls' = calls
  BY <1>1, <1>2, <1>3, CallKept DEF Core, CallsOK
<1>4. ASSUME NEW c \in Clients, Answers(c, n, applied[n] + 1)
      PROVE  CallsOK'
  <2>1. PICK i \in 1..Len(log) : i = applied[n] + 1
    BY <1>2, ApplyEntry, Zenon DEF Apply
  <2>2. PICK call : calls' = [calls EXCEPT ![c] = call] /\ call.stage = "done"
    <3> DEFINE call == Done(calls[c].sent, calls[c].from, i,
                            WriteResult(calls[c].sent,
                                        Update(kv[n], log[i].data, i)))
    <3>1. calls' = [calls EXCEPT ![c] = call]
      BY <1>4, <2>1 DEF Answers
    <3>2. call.stage = "done"
      BY DoneFields, SMTT(30)
    <3> HIDE DEF call
    <3> QED
      BY <3>1, <3>2, Zenon
  <2>3. \A p \in proposed : p.client # c
    <3>1. CallOK(c) /\ calls[c].stage = "proposed"
      BY <1>2, <1>4 DEF CallsOK, Answers
    <3>2. /\ calls[c].from \in 0..Len(log) /\ calls[c].from < i
          /\ log[i].client = c
      <4>1. calls[c].from \in 0..Len(log)
        BY <3>1, Zenon DEF CallOK
      <4> QED
        BY <1>4, <2>1, <4>1, Zenon DEF Answers
    <3>3. i \in (calls[c].from + 1)..Len(log)
      BY <2>1, <3>2
    <3> QED
      BY <3>1, <3>2, <3>3, Zenon DEF CallOK
  <2> QED
    BY <1>2, <2>2, <2>3, CallMoves, Zenon
<1>5. CallsOK'
  BY <1>2, <1>3, <1>4, Notified DEF Core
<1> QED
  BY <1>1, <1>5 DEF Core

-----------------------------------------------------------------------------
(* The follower cluster.                                                   *)

(* The local index of a node is an index of the log, and what the node has *)
(* is the content of the table there.                                      *)
LEMMA NodeIndex ==
  ASSUME LogOK, NodesOK, NEW n \in Nodes
  PROVE  LocalIndex(n) \in 0..Len(log) /\ ref[LocalIndex(n) + 1] = kv[n]
<1>1. PICK m \in 0..applied[n] : Seen(n, m) /\ ref[m + 1] = kv[n]
  BY DEF NodesOK
<1>2. applied[n] \in 0..Len(log) /\ Len(log) \in Nat
  BY SeqFacts DEF NodesOK, LogOK
<1>3. LocalIndex(n) = m
  BY <1>1, <1>2, LocalIndexSeen
<1> QED
  BY <1>1, <1>2, <1>3

(* The commands of the entries, as the LogServer and the worker see them.  *)
LEMMA SliceFacts ==
  ASSUME LogOK, NEW lo \in 0..Len(log), NEW m \in lo..Len(log)
  PROVE  /\ Commands(Slice(log, lo, m), lo + 1) = CommandsAt(lo, m)
         /\ Commands(SubSeq(log, lo + 1, m), lo + 1) = CommandsAt(lo, m)
         /\ lo # m => Batched(m - lo, Slice(log, lo, m), lo + 1)
<1> DEFINE e == Slice(log, lo, m)
           q == SubSeq(log, lo + 1, m)
<1>1. log \in Seq(LogEntries) /\ Len(log) \in Nat /\ Len(log) <= MaxLog
  BY SeqFacts DEF LogOK
<1>2. /\ e \in [1..(m - lo) -> Entries]
      /\ \A k \in 1..(m - lo) : e[k].data = log[lo + k].data
      /\ lo # m => Batched(m - lo, e, lo + 1)
  BY <1>1, SliceEntries, Zenon
<1>3. q = [k \in 1..(m - (lo + 1) + 1) |-> log[lo + 1 + k - 1]]
  BY <1>1, SubSeqIs
<1>4. DOMAIN q = 1..(m - lo) /\ \A k \in 1..(m - lo) : q[k] = log[lo + k]
  BY <1>1, <1>3
<1>5. \A k \in 1..(m - lo) : lo + 1 + k - 1 = lo + k
  BY <1>1
<1> HIDE DEF e, q
<1>6. Commands(e, lo + 1) = CommandsAt(lo, m)
  BY <1>2, <1>5 DEF Commands, CommandsAt
<1>7. Commands(q, lo + 1) = CommandsAt(lo, m)
  BY <1>4, <1>5 DEF Commands, CommandsAt
<1> QED
  BY <1>2, <1>6, <1>7 DEF e, q

(* The commands from one index on are the first ones and the others.       *)
LEMMA CommandsSplit ==
  ASSUME LogOK, NEW lo \in 0..Len(log), NEW m \in lo..Len(log),
         NEW k \in 0..(m - lo)
  PROVE  /\ Len(CommandsAt(lo, m)) = m - lo
         /\ DOMAIN CommandsAt(lo, m) = 1..(m - lo)
         /\ SubSeq(CommandsAt(lo, m), 1, k) = CommandsAt(lo, lo + k)
         /\ SubSeq(CommandsAt(lo, m), k + 1, m - lo) = CommandsAt(lo + k, m)
<1> DEFINE S == {ReplicateCommand(log[lo + j].data, lo + j) : j \in 1..(m - lo)}
           q == CommandsAt(lo, m)
<1>1. Len(log) \in Nat /\ m - lo \in Nat
  BY SeqFacts DEF LogOK
<1>2. q \in [1..(m - lo) -> S]
  BY DEF CommandsAt
<1>3. \A j \in 1..(m - lo) : q[j] = ReplicateCommand(log[lo + j].data, lo + j)
  BY DEF CommandsAt
<1> HIDE DEF S, q
<1>4. q \in Seq(S) /\ Len(q) = m - lo /\ DOMAIN q = 1..(m - lo)
  BY <1>1, <1>2
<1>5. SubSeq(q, 1, k) = CommandsAt(lo, lo + k)
  <2>1. SubSeq(q, 1, k) = [j \in 1..(k - 1 + 1) |-> q[1 + j - 1]]
    BY <1>1, <1>4, SubSeqIs
  <2>2. k - 1 + 1 = k /\ lo + k - lo = k
    BY <1>1
  <2>3. \A j \in 1..k :
          q[1 + j - 1] = ReplicateCommand(log[lo + j].data, lo + j)
    BY <1>1, <1>3
  <2> QED
    BY <2>1, <2>2, <2>3 DEF CommandsAt
<1>6. SubSeq(q, k + 1, m - lo) = CommandsAt(lo + k, m)
  <2>1. SubSeq(q, k + 1, m - lo) =
          [j \in 1..(m - lo - (k + 1) + 1) |-> q[k + 1 + j - 1]]
    BY <1>1, <1>4, SubSeqIs
  <2>2. m - lo - (k + 1) + 1 = m - (lo + k)
    BY <1>1
  <2>3. \A j \in 1..(m - (lo + k)) :
          k + 1 + j - 1 \in 1..(m - lo) /\ lo + (k + 1 + j - 1) = lo + k + j
    BY <1>1
  <2>4. \A j \in 1..(m - (lo + k)) :
          q[k + 1 + j - 1] = ReplicateCommand(log[lo + k + j].data, lo + k + j)
    BY <1>3, <2>3
  <2> QED
    BY <2>1, <2>2, <2>4, Zenon DEF CommandsAt
<1> QED
  BY <1>4, <1>5, <1>6 DEF q

(* The follower's steps leave the leader cluster and the calls alone.      *)
LEMMA FollowerSteps ==
  ASSUME Core, FollowerOK', UNCHANGED <<calls, log, applied, proposed, ref>>,
         kv' \in [Nodes \cup {follower} -> Tables],
         \A n \in Nodes : kv'[n] = kv[n]
  PROVE  Core'
<1>1. LogOK' /\ NodesOK'
  BY Zenon DEF Core, LogOK, NodesOK, Seen
<1>2. CallsOK'
  BY CallKept DEF Core, CallsOK
<1> QED
  BY <1>1, <1>2 DEF Core

(* LearnTable: the replication manager of the follower cluster may find    *)
(* the table.                                                              *)
LEMMA LearnTableCore ==
  ASSUME Core, LearnTable
  PROVE  Core'
<1>1. FollowerOK'
  <2>1. (TableName \in Metadata) \in BOOLEAN
    OBVIOUS
  <2> QED
    BY <2>1 DEF Core, FollowerOK, CommandsAt, LearnTable, leader
<1> QED
  BY <1>1, FollowerSteps DEF Core, NodesOK, LearnTable, leader

(* What the worker receives follows the index that it asked from.          *)
LEMMA ReplicateCore ==
  ASSUME Core, NEW n \in Nodes, NEW last \in 1..MaxLog, Replicate(n, last)
  PROVE  Core'
<1>1. /\ LogOK /\ NodesOK /\ FollowerOK /\ index \in 0..Len(log)
      /\ Len(log) \in Nat /\ Len(log) <= MaxLog
  BY SeqFacts DEF Core, LogOK, FollowerOK
<1>2. LocalIndex(n) \in 0..Len(log)
  BY <1>1, NodeIndex
<1>3. ReplicateRequest(index + 1).LeaderIndex = index + 1
  <2>1. index + 1 \in 1..(MaxLog + 1)
    BY <1>1, ServiceAssumption
  <2> QED
    BY <2>1, StreamAssumption
<1>4. /\ last <= LocalIndex(n) /\ index + 1 <= last
      /\ stream' = Streamed(Commands(SubSeq(log, index + 1, last), index + 1),
                            LocalIndex(n))
  BY <1>3 DEF Replicate
<1>5. last \in index..Len(log) /\ last # index /\ LocalIndex(n) \in 1..MaxLog
  BY <1>1, <1>2, <1>4, ServiceAssumption
<1> DEFINE e == Slice(log, index, last)
<1>6. /\ Commands(e, index + 1) = CommandsAt(index, last)
      /\ Commands(SubSeq(log, index + 1, last), index + 1) =
           CommandsAt(index, last)
      /\ Batched(last - index, e, index + 1)
  BY <1>1, <1>5, SliceFacts
<1> HIDE DEF e
<1>7. Streamed(Commands(e, index + 1), LocalIndex(n)) = Commands(e, index + 1)
  BY <1>5, <1>6, StreamAssumption, Zenon DEF Batched
<1>8. stream' = CommandsAt(index, last)
  BY <1>4, <1>6, <1>7
<1>9. FollowerOK'
  <2>1. UNCHANGED <<log, known, index, pool>>
    BY DEF Replicate, leader
  <2>2. CommandsAt(index, last)' = CommandsAt(index, last)
    BY <2>1 DEF CommandsAt
  <2>3. last \in index'..Len(log')
    BY <1>5, <2>1
  <2> QED
    BY <1>1, <1>8, <2>1, <2>2, <2>3 DEF FollowerOK
<1> QED
  BY <1>9, FollowerSteps DEF Core, NodesOK, Replicate, leader

(* The proposal with k commands moves the follower's index by k.           *)
LEMMA ProposeReplays ==
  ASSUME Core, NEW k, Propose(k)
  PROVE  LET e == Slice(log, index, index + k)
             u == Replay(pool, kv[follower], e, index + 1)
         IN /\ k \in 1..Len(stream) /\ index + k \in index..Len(log)
            /\ Batched(k, e, index + 1)
            /\ pool \in Pool /\ kv[follower] \in Tables /\ ~u.panic
            /\ kv' = [kv EXCEPT ![follower] = u.kv] /\ u.kv \in Tables
            /\ index' = index + k
            /\ Prefixed => Agree(u.kv, ref[index + k + 1])
<1>1. /\ LogOK /\ index \in 0..Len(log) /\ Len(log) \in Nat
      /\ pool \in Pool /\ kv[follower] \in Tables
  BY SeqFacts DEF Core, LogOK, NodesOK, FollowerOK
<1>2. PICK m \in index..Len(log) : stream = CommandsAt(index, m)
  BY DEF Core, FollowerOK
<1>3. /\ Len(stream) = m - index /\ DOMAIN stream = 1..(m - index)
      /\ \A j \in 0..(m - index) :
           SubSeq(stream, 1, j) = CommandsAt(index, index + j)
  <2>1. 0 \in 0..(m - index)
    BY <1>1, <1>2
  <2> QED
    BY <1>1, <1>2, <2>1, CommandsSplit, Zenon
<1>4. k \in 1..(m - index)
  BY <1>3 DEF Propose
<1>5. /\ k \in 0..(m - index) /\ k # 0 /\ index + k \in index..Len(log)
      /\ index + k - index = k /\ index + k # index
      /\ index + 1 + k - 1 = index + k
  BY <1>1, <1>4
<1> DEFINE e == Slice(log, index, index + k)
           u == Replay(pool, kv[follower], e, index + 1)
<1>6. /\ Commands(e, index + 1) = CommandsAt(index, index + k)
      /\ Batched(k, e, index + 1)
  BY <1>1, <1>5, SliceFacts
<1>7. u = Update(kv[follower], Sequence(pool, SubSeq(stream, 1, k)).data, 0)
  <2>1. SubSeq(stream, 1, k) = Commands(e, index + 1)
    BY <1>3, <1>5, <1>6
  <2> QED
    BY <2>1, Zenon DEF Replay
<1>8. ~u.panic /\ kv' = [kv EXCEPT ![follower] = u.kv] /\ index' = u.leaderIndex
  BY <1>7, Zenon DEF Propose, Replicated
<1> HIDE DEF e
<1>9. /\ u.kv \in Tables /\ u.leaderIndex = index + k
      /\ Prefixed => Agree(u.kv, ref[index + k + 1])
  <2>1. index + k \in (index + 1)..Len(log)
    BY <1>1, <1>5
  <2>2. Replays(log, ref, index, index + k)
    BY <1>1, <2>1, Zenon DEF LogOK
  <2> QED
    BY <1>1, <1>8, <2>2, Zenon DEF Replays, Prefixed, e
<1> QED
  BY <1>1, <1>3, <1>4, <1>5, <1>6, <1>8, <1>9 DEF e

(* Propose: the commands that remain follow the new index, and the Command *)
(* goes back to the pool as clean as it was.                               *)
LEMMA ProposeCore ==
  ASSUME Core, NEW k, Propose(k)
  PROVE  Core'
<1> DEFINE e == Slice(log, index, index + k)
           u == Replay(pool, kv[follower], e, index + 1)
<1>1. /\ k \in 1..Len(stream) /\ index + k \in index..Len(log)
      /\ Batched(k, e, index + 1) /\ pool \in Pool
      /\ kv' = [kv EXCEPT ![follower] = u.kv] /\ u.kv \in Tables
      /\ index' = index + k
  BY ProposeReplays
<1> HIDE DEF u
<1>2. /\ LogOK /\ index \in 0..Len(log) /\ Len(log) \in Nat
      /\ known \in BOOLEAN
  BY SeqFacts DEF Core, LogOK, FollowerOK
<1>3. PICK m \in index..Len(log) : stream = CommandsAt(index, m)
  BY DEF Core, FollowerOK
<1>4. /\ Len(stream) = m - index
      /\ \A j \in 0..(m - index) :
           /\ SubSeq(stream, 1, j) = CommandsAt(index, index + j)
           /\ SubSeq(stream, j + 1, m - index) = CommandsAt(index + j, m)
  <2>1. 0 \in 0..(m - index)
    BY <1>2, <1>3
  <2> QED
    BY <1>2, <1>3, <2>1, CommandsSplit, Zenon
<1>5. k \in 0..(m - index)
  BY <1>1, <1>2, <1>3, <1>4
<1>6. pool' \in Pool
  <2>1. Commands(e, index + 1) = CommandsAt(index, index + k)
    BY <1>1, <1>2, SliceFacts, Zenon
  <2> HIDE DEF e
  <2>2. SubSeq(stream, 1, k) = Commands(e, index + 1)
    BY <1>4, <1>5, <2>1, Zenon
  <2>3. Sequence(pool, SubSeq(stream, 1, k)).command \in Pool
    BY <1>1, <2>2, StreamAssumption, Zenon DEF Batched
  <2> QED
    BY <2>3, StreamAssumption, Zenon DEF Propose
<1>7. /\ UNCHANGED <<calls, log, applied, proposed, ref, known>>
      /\ stream' = SubSeq(stream, k + 1, Len(stream))
  BY DEF Propose, leader
<1>8. FollowerOK'
  <2>1. stream' = CommandsAt(index + k, m)
    BY <1>4, <1>5, <1>7
  <2>2. CommandsAt(index, m)' = stream'
    BY <1>1, <1>7, <2>1 DEF CommandsAt
  <2>3. index' \in 0..Len(log') /\ m \in index'..Len(log')
    BY <1>1, <1>2, <1>3, <1>5, <1>7
  <2> QED
    BY <1>2, <1>6, <1>7, <2>2, <2>3, Zenon DEF FollowerOK
<1>9. /\ kv' \in [Nodes \cup {follower} -> Tables]
      /\ \A n \in Nodes : kv'[n] = kv[n]
  BY <1>1, ServiceAssumption DEF Core, NodesOK
<1> QED
  BY <1>7, <1>8, <1>9, FollowerSteps

(* ProposeFails: the commands received are dropped, and asked for again.   *)
LEMMA ProposeFailsCore ==
  ASSUME Core, ProposeFails
  PROVE  Core'
<1>1. /\ index \in 0..Len(log) /\ Len(log) \in Nat
      /\ known \in BOOLEAN /\ pool \in Pool
  BY SeqFacts DEF Core, LogOK, FollowerOK
<1>2. /\ UNCHANGED <<calls, log, applied, proposed, ref, kv, known, index>>
      /\ stream' = <<>> /\ pool' = Returned(pool)
  BY DEF ProposeFails, leader
<1>3. CommandsAt(index, index)' = <<>>
  <2>1. 1..(index' - index') = 1..0
    BY <1>1, <1>2
  <2> QED
    BY <2>1 DEF CommandsAt
<1>4. FollowerOK'
  <2>1. index' \in index'..Len(log')
    BY <1>1, <1>2
  <2>2. pool' \in Pool
    BY <1>1, <1>2, StreamAssumption
  <2> QED
    BY <1>1, <1>2, <1>3, <2>1, <2>2 DEF FollowerOK
<1> QED
  BY <1>2, <1>4, FollowerSteps DEF Core, NodesOK

(* A recovery gives the follower the content of a node, and its index.     *)
LEMMA RecoverLoads ==
  ASSUME Core, NEW n \in Nodes, Recover(n)
  PROVE  LET u == Load(Stream(n))
         IN /\ kv' = [kv EXCEPT ![follower] = u.kv] /\ u.kv \in Tables
            /\ index' = LocalIndex(n) /\ LocalIndex(n) \in 0..Len(log)
            /\ Agree(u.kv, ref[LocalIndex(n) + 1])
<1> DEFINE u == Load(Stream(n))
<1>1. LogOK /\ NodesOK /\ Len(log) \in Nat /\ Len(log) <= MaxLog
  BY SeqFacts DEF Core, LogOK
<1>2. LocalIndex(n) \in 0..Len(log) /\ ref[LocalIndex(n) + 1] = kv[n]
  BY <1>1, NodeIndex
<1>3. LocalIndex(n) \in 0..MaxLog /\ kv[n] \in Tables
  BY <1>1, <1>2, ServiceAssumption DEF NodesOK
<1>4. ~u.panic /\ kv' = [kv EXCEPT ![follower] = u.kv] /\ index' = u.leaderIndex
  BY DEF Recover, Replicated
<1>5. u.kv \in Tables /\ Agree(u.kv, kv[n]) /\ u.leaderIndex = LocalIndex(n)
  BY <1>3, <1>4, SnapshotAssumption DEF Stream
<1> QED
  BY <1>2, <1>4, <1>5, Zenon

(* Recover: the index is one of the log, and nothing was left of a stream. *)
LEMMA RecoverCore ==
  ASSUME Core, NEW n \in Nodes, Recover(n)
  PROVE  Core'
<1> DEFINE u == Load(Stream(n))
<1>1. /\ kv' = [kv EXCEPT ![follower] = u.kv] /\ u.kv \in Tables
      /\ index' = LocalIndex(n) /\ LocalIndex(n) \in 0..Len(log)
  BY RecoverLoads
<1> HIDE DEF u
<1>2. Len(log) \in Nat /\ known \in BOOLEAN /\ pool \in Pool
  BY SeqFacts DEF Core, LogOK, FollowerOK
<1>3. /\ UNCHANGED <<calls, log, applied, proposed, ref, known, stream, pool>>
      /\ stream = <<>>
  BY DEF Recover, leader
<1>4. CommandsAt(index, index)' = <<>>
  <2>1. 1..(index' - index') = 1..0
    BY <1>1, <1>2
  <2> QED
    BY <2>1 DEF CommandsAt
<1>5. FollowerOK'
  <2>1. index' \in index'..Len(log') /\ index' \in 0..Len(log')
    BY <1>1, <1>2, <1>3
  <2> QED
    BY <1>2, <1>3, <1>4, <2>1 DEF FollowerOK
<1>6. /\ kv' \in [Nodes \cup {follower} -> Tables]
      /\ \A d \in Nodes : kv'[d] = kv[d]
  BY <1>1, ServiceAssumption DEF Core, NodesOK
<1> QED
  BY <1>3, <1>5, <1>6, FollowerSteps

-----------------------------------------------------------------------------
(* The type invariant.                                                     *)

(* An empty table and no calls.                                            *)
LEMMA InitCore ==
  ASSUME Init
  PROVE  Core
<1>1. NoKeys \in Tables
  BY DEF NoKeys, Tables
<1>2. /\ log = <<>> /\ Len(log) = 0
      /\ ref = <<NoKeys>> /\ Len(ref) = 1 /\ ref[1] = NoKeys
  BY DEF Init
<1>3. LogOK
  BY <1>1, <1>2, ServiceAssumption DEF Init, LogOK
<1>4. NodesOK
  <2>1. \A n \in Nodes : applied[n] = 0 /\ kv[n] = NoKeys
    BY DEF Init
  <2>2. \A n \in Nodes : Seen(n, 0)
    BY <2>1 DEF Seen
  <2>3. /\ applied \in [Nodes -> 0..Len(log)]
        /\ kv \in [Nodes \cup {follower} -> Tables]
    BY <1>1, <1>2 DEF Init
  <2> QED
    BY <1>2, <2>1, <2>2, <2>3 DEF NodesOK
<1>5. FollowerOK
  <2>1. CommandsAt(0, 0) = <<>>
    BY DEF CommandsAt
  <2>2. NewCommand \in Pool
    BY StreamAssumption
  <2>3. index = 0 /\ stream = CommandsAt(index, 0) /\ pool = NewCommand
    BY <2>1 DEF Init
  <2>4. index \in 0..Len(log) /\ 0 \in index..Len(log)
    BY <1>2, <2>3
  <2> QED
    BY <2>2, <2>3, <2>4, Zenon DEF Init, FollowerOK
<1>6. CallsOK
  <2>1. DOMAIN calls = Clients /\ \A c \in Clients : calls[c].stage = "idle"
    BY CallFields DEF Init
  <2>2. proposed = {}
    BY DEF Init
  <2> QED
    BY <2>1, <2>2, Zenon DEF CallsOK, CallOK
<1> QED
  BY <1>3, <1>4, <1>5, <1>6 DEF Core

(* The core of the invariant has the types.                                *)
LEMMA CoreTypes ==
  ASSUME Core
  PROVE  TypeOK
<1>1. Len(ref) = Len(log) + 1 /\ \A i \in DOMAIN ref : ref[i] \in Tables
  BY SeqFacts DEF Core, LogOK
<1>2. \A p \in proposed : p.client \in Clients \cup {Nil}
  BY EntryCases DEF Core, LogOK
<1>3. pool.LeaderIndex = Nil /\ pool.Sequence = <<>>
  BY StreamAssumption, Zenon DEF Core, FollowerOK
<1>4. \A c \in Clients :
        calls[c].stage \in {"idle", "proposed", "reading", "done"}
  BY Zenon DEF Core, CallsOK, CallOK
<1> QED
  BY <1>1, <1>2, <1>3, <1>4 DEF Core, NodesOK, FollowerOK, TypeOK

(* Every step preserves the core of the invariant, whatever requests do    *)
(* with the empty key.                                                     *)
LEMMA CoreStep ==
  ASSUME Core, [Next]_vars
  PROVE  Core'
<1>1. CASE UNCHANGED vars
  <2>1. UNCHANGED <<log, applied, ref, kv, calls, proposed,
                    known, index, stream, pool>>
    BY <1>1 DEF vars
  <2>2. LogOK' /\ NodesOK' /\ FollowerOK'
    BY <2>1, StoresKept DEF Core, LogOK
  <2>3. CallsOK'
    BY <2>1, CallKept DEF Core, CallsOK
  <2> QED
    BY <2>2, <2>3 DEF Core
<1>2. ASSUME NEW c \in Clients, Return(c)
      PROVE  Core'
  BY <1>2, ReturnCore
<1>3. ASSUME NEW c \in Callers, NEW n \in Nodes \cup {follower}, NEW s \in Sent,
             \/ Reject(c, n, s)
             \/ StaleRead(c, n, s)
             \/ n # follower /\ SyncRead(c, n, s)
             \/ n # follower /\ SyncPropose(c, n, s)
      PROVE  Core'
  <2>1. c \in Clients
    BY DEF Callers
  <2>2. CASE Reject(c, n, s)
    BY <1>1, <2>2 DEF Reject
  <2>3. CASE StaleRead(c, n, s)
    BY <2>1, <2>3, StaleReadCore
  <2>4. CASE n # follower /\ SyncRead(c, n, s)
    BY <2>1, <2>4, SyncReadCore
  <2>5. CASE n # follower /\ SyncPropose(c, n, s)
    BY <2>1, <2>5, SyncProposeCore
  <2> QED
    BY <1>3, <2>2, <2>3, <2>4, <2>5, Zenon
<1>4. ASSUME NEW c \in Clients, ReadDone(c)
      PROVE  Core'
  BY <1>4, ReadDoneCore
<1>5. ASSUME NEW c \in Clients, Timeout(c)
      PROVE  Core'
  BY <1>5, TimeoutCore
<1>6. ASSUME NEW p \in proposed, Commit(p)
      PROVE  Core'
  BY <1>6, CommitCore
<1>7. CASE Elect
  BY <1>7, ElectCore
<1>8. ASSUME NEW n \in Members, Apply(n)
      PROVE  Core'
  BY <1>8, ApplyCore DEF Members
<1>9. ASSUME NEW n \in Members, Recover(n)
      PROVE  Core'
  BY <1>9, RecoverCore DEF Members
<1>10. ASSUME NEW n \in Members, NEW last \in 1..MaxLog, Replicate(n, last)
       PROVE  Core'
  BY <1>10, ReplicateCore DEF Members
<1>11. ASSUME NEW k \in 1..MaxLog, Propose(k)
       PROVE  Core'
  BY <1>11, ProposeCore
<1>12. CASE LearnTable
  BY <1>12, LearnTableCore
<1>13. CASE ProposeFails
  BY <1>13, ProposeFailsCore
<1> QED
  BY <1>1, <1>2, <1>3, <1>4, <1>5, <1>6, <1>7, <1>8, <1>9, <1>10, <1>11,
     <1>12, <1>13, Zenon DEF Next

(* The types of Service: the follower's leader index never passes the      *)
(* leader's log, and the worker's Command is clean whenever it is in the   *)
(* pool, for all clients, nodes and requests.                              *)
THEOREM TypeCorrect == Spec => []TypeOK
<1>1. Init => Core
  BY InitCore
<1>2. Core /\ [Next]_vars => Core'
  BY CoreStep
<1>3. Core => TypeOK
  BY CoreTypes
<1> QED
  BY <1>1, <1>2, <1>3, PTL DEF Spec

-----------------------------------------------------------------------------
(* The follower's table.                                                   *)

(* The proposal does in the follower's table what its entries have done in *)
(* the leader's.                                                           *)
LEMMA ProposeAgrees ==
  ASSUME Core, Prefixed, NEW k, Propose(k)
  PROVE  Prefixed'
<1> DEFINE e == Slice(log, index, index + k)
           u == Replay(pool, kv[follower], e, index + 1)
<1>1. /\ kv' = [kv EXCEPT ![follower] = u.kv] /\ index' = index + k
      /\ Agree(u.kv, ref[index + k + 1])
  BY ProposeReplays, Zenon
<1> HIDE DEF u
<1>2. kv \in [Nodes \cup {follower} -> Tables] /\ ref' = ref
  BY DEF Core, NodesOK, Propose, leader
<1> QED
  BY <1>1, <1>2, Zenon DEF Prefixed

(* Every step keeps the follower's table that of its leader index.  The    *)
(* log may grow, and the entries up to the index stay; only proposeBatch   *)
(* and a recovery change the table, together with the index.               *)
LEMMA PrefixedStep ==
  ASSUME Core, Prefixed, [Next]_vars
  PROVE  Prefixed'
<1>1. /\ LogOK /\ NodesOK /\ index \in 0..Len(log) /\ Len(log) \in Nat
      /\ kv \in [Nodes \cup {follower} -> Tables]
  BY SeqFacts DEF Core, LogOK, FollowerOK, NodesOK
<1>2. ASSUME UNCHANGED <<kv, index, ref>>
      PROVE  Prefixed'
  BY <1>2 DEF Prefixed
<1>3. ASSUME NEW e \in LogEntries, Grows(e), UNCHANGED <<kv, index>>
      PROVE  Prefixed'
  <2>1. index + 1 \in 1..(Len(log) + 1)
    BY <1>1
  <2>2. ref'[index + 1] = ref[index + 1]
    BY <1>1, <1>3, <2>1, GrowsFacts, Zenon
  <2> QED
    BY <1>3, <2>2 DEF Prefixed
<1>4. ASSUME NEW c \in Callers, NEW n \in Nodes \cup {follower}, NEW s \in Sent,
             \/ Reject(c, n, s)
             \/ StaleRead(c, n, s)
             \/ n # follower /\ SyncRead(c, n, s)
             \/ n # follower /\ SyncPropose(c, n, s)
      PROVE  Prefixed'
  BY <1>2, <1>4, Zenon
     DEF Reject, StaleRead, SyncRead, SyncPropose, vars, leader, replica
<1>5. ASSUME NEW c \in Clients, Return(c) \/ ReadDone(c) \/ Timeout(c)
      PROVE  Prefixed'
  BY <1>2, <1>5, Zenon DEF Return, ReadDone, Timeout, leader, replica
<1>6. ASSUME NEW p \in proposed, Commit(p)
      PROVE  Prefixed'
  BY <1>1, <1>3, <1>6 DEF LogOK, Commit, Grows, replica
<1>7. CASE Elect
  BY <1>1, <1>3, <1>7, ElectGrows DEF Elect, replica
<1>8. ASSUME NEW n \in Members, Apply(n)
      PROVE  Prefixed'
  <2>1. n # follower /\ UNCHANGED <<index, ref>>
    BY <1>8, ServiceAssumption DEF Members, Apply, replica
  <2>2. kv'[follower] = kv[follower]
    BY <1>1, <1>8, <2>1, Zenon DEF Apply, Updated
  <2> QED
    BY <2>1, <2>2, Zenon DEF Prefixed
<1>9. ASSUME NEW n \in Members, Recover(n)
      PROVE  Prefixed'
  BY <1>1, <1>9, RecoverLoads, Zenon DEF Members, Prefixed, Recover, leader
<1>10. ASSUME NEW n \in Members, NEW last \in 1..MaxLog, Replicate(n, last)
       PROVE  Prefixed'
  BY <1>2, <1>10 DEF Replicate, leader
<1>11. ASSUME NEW k \in 1..MaxLog, Propose(k)
       PROVE  Prefixed'
  BY <1>11, ProposeAgrees
<1>12. CASE LearnTable \/ ProposeFails \/ UNCHANGED vars
  BY <1>2, <1>12 DEF LearnTable, ProposeFails, leader, vars
<1> QED
  BY <1>4, <1>5, <1>6, <1>7, <1>8, <1>9, <1>10, <1>11, <1>12, Zenon DEF Next

(* The follower's table is the leader's at the leader index, apart from    *)
(* the empty key, whatever way the worker has taken there: batches of any  *)
(* size, failed proposals, snapshots of any node.                          *)
THEOREM FollowerPrefix == Spec => []FollowerIsPrefix
<1>1. Init => Core /\ Prefixed
  <2>1. Init => Prefixed
    BY DEF Init, Prefixed, Agree
  <2> QED
    BY <2>1, InitCore
<1>2. (Core /\ Prefixed) /\ [Next]_vars => (Core /\ Prefixed)'
  BY CoreStep, PrefixedStep
<1>3. Core /\ Prefixed => FollowerIsPrefix
  BY DEF Prefixed, FollowerIsPrefix
<1> QED
  BY <1>1, <1>2, <1>3, PTL DEF Spec

-----------------------------------------------------------------------------
(* The answers.                                                            *)

(* An answer that was right stays so: the log and the reference only grow. *)
LEMMA DoneKept ==
  ASSUME NEW d, DoneOK(d), calls'[d] = calls[d],
         Len(log) \in Nat, Len(log') \in Nat, Len(log) <= Len(log'),
         \A i \in 1..Len(log) : log'[i] = log[i],
         \A i \in 1..(Len(log) + 1) : ref'[i] = ref[i]
  PROVE  DoneOK(d)'
<1> DEFINE call == calls[d]
           strict == call.sent.req.type = "RANGE" => call.sent.req.linearizable
<1>1. SUFFICES ASSUME call.stage = "done"
               PROVE  /\ call.from \in 0..Len(log') /\ call.to \in 0..Len(log')
                      /\ Answered(d)'
  BY DEF DoneOK
<1>2. call.from \in 0..Len(log) /\ call.to \in 0..Len(log) /\ Answered(d)
  BY <1>1 DEF DoneOK
<1>3. call.from \in 0..Len(log') /\ call.to \in 0..Len(log')
  BY <1>2
<1>4. CASE OnlyReads(call.sent)
  <2>1. /\ call.answer.revision = 0
        /\ \E i \in (IF strict THEN call.from ELSE call.to)..call.to :
             Gives(call.answer, Promised(ref[i + 1], call.sent.req))
    BY <1>2, <1>4 DEF Answered
  <2>2. \A i \in (IF strict THEN call.from ELSE call.to)..call.to :
          ref'[i + 1] = ref[i + 1]
    BY <1>2
  <2>3. \E i \in (IF strict THEN call.from ELSE call.to)..call.to :
          Gives(call.answer, Promised(ref'[i + 1], call.sent.req))
    BY <2>1, <2>2
  <2>4. Answered(d)'
    BY <1>4, <2>1, <2>3 DEF Answered
  <2> QED
    BY <1>3, <2>4
<1>5. CASE ~OnlyReads(call.sent)
  <2>1. PICK i \in call.from + 1..call.to :
          /\ log[i].client = d
          /\ GivesAt(call.answer, Promised(ref[i], call.sent.req), i)
    BY <1>2, <1>5 DEF Answered
  <2>2. i \in 1..Len(log) /\ i \in 1..(Len(log) + 1)
    BY <1>2, <2>1, Between, SMTT(30)
  <2>3. log'[i] = log[i] /\ ref'[i] = ref[i]
    BY <2>2, Zenon
  <2>4. Answered(d)'
    BY <1>5, <2>1, <2>3, Zenon DEF Answered
  <2> QED
    BY <1>3, <2>4
<1> QED
  BY <1>4, <1>5

(* A read is answered from the content at the call's end.                  *)
LEMMA ReadAnswered ==
  ASSUME NEW c, NEW s, NEW from, NEW to, NEW answer,
         calls'[c] = Done(s, from, to, answer), OnlyReads(s),
         from \in 0..Len(log'), to \in 0..Len(log'),
         (s.req.type = "RANGE" => s.req.linearizable) => from <= to,
         answer.revision = 0, Gives(answer, Promised(ref'[to + 1], s.req))
  PROVE  DoneOK(c)'
<1>1. /\ calls'[c].sent = s /\ calls'[c].from = from /\ calls'[c].to = to
      /\ calls'[c].answer = answer
  BY DoneFields, SMTT(30)
<1>2. to \in (IF s.req.type = "RANGE" => s.req.linearizable
              THEN from ELSE to)..to
  OBVIOUS
<1>3. Answered(c)'
  BY <1>1, <1>2, Zenon DEF Answered
<1> QED
  BY <1>1, <1>3, Zenon DEF DoneOK

(* A stale read, in either cluster.                                        *)
LEMMA StaleReadDone ==
  ASSUME Core, Prefixed, NEW c \in Clients, NEW n \in Nodes \cup {follower},
         NEW s \in Sent, StaleRead(c, n, s)
  PROVE  DoneOK(c)'
<1>1. /\ DOMAIN calls = Clients /\ Len(log) \in Nat /\ index \in 0..Len(log)
      /\ OnlyReads(s) /\ Accepts(n, s) /\ UNCHANGED <<log, ref>>
      /\ kv[n] \in Tables
  BY SeqFacts
     DEF Core, CallsOK, LogOK, NodesOK, FollowerOK, StaleRead, leader
<1>2. CASE n \in Nodes
  <2>1. n # follower /\ ~AsksRaft(s)
    BY <1>2, ServiceAssumption DEF StaleRead
  <2>2. calls'[c] = Done(s, Len(log), applied[n], ReadResult(kv[n], s))
    BY <1>1, <2>1, Zenon DEF StaleRead
  <2>3. Check(FALSE, TRUE, s) = "OK"
    BY <1>1, <1>2, AcceptsNode, Zenon
  <2>4. /\ AsksRaft(s) <=> (s.req.type = "RANGE" => s.req.linearizable)
        /\ Gives(ReadResult(kv[n], s), Promised(kv[n], s.req))
        /\ ReadResult(kv[n], s).revision = 0
    BY <1>1, <2>3, ReadAssumption, Zenon
  <2>5. applied[n] \in 0..Len(log) /\ kv[n] = ref[applied[n] + 1]
    BY <1>2 DEF Core, NodesOK
  <2>6. Len(log) \in 0..Len(log)
    BY <1>1
  <2> QED
    BY <1>1, <2>1, <2>2, <2>4, <2>5, <2>6, ReadAnswered
<1>3. CASE n = follower
  <2>1. calls'[c] = Done(s, 0, index, ReadResult(kv[n], s))
    BY <1>1, <1>3, Zenon DEF StaleRead
  <2>2. Check(TRUE, TRUE, s) = "OK"
    <3>1. Check(TRUE, FALSE, s) # "OK"
      BY <1>1, ReadAssumption, Zenon
    <3>2. Check(TRUE, known, s) = "OK"
      <4>1. (n = follower) = TRUE /\ (n = follower => known) = known
        BY <1>3 DEF Core, FollowerOK
      <4> QED
        BY <1>1, <4>1, Zenon DEF Accepts
    <3>3. known = TRUE \/ known = FALSE
      BY Zenon DEF Core, FollowerOK
    <3> QED
      BY <3>1, <3>2, <3>3, Zenon
  <2>3. /\ Gives(ReadResult(kv[n], s), Promised(kv[n], s.req))
        /\ ReadResult(kv[n], s).revision = 0
    BY <1>1, <2>2, ReadAssumption, Zenon
  <2>4. ref[index + 1] \in Tables /\ Agree(kv[n], ref[index + 1])
    <3>1. index + 1 \in 1..Len(ref)
      BY <1>1 DEF Core, LogOK
    <3> QED
      BY <1>3, <3>1, SeqFacts DEF Core, LogOK, Prefixed
  <2>5. Promised(kv[n], s.req) = Promised(ref[index + 1], s.req)
    BY <1>1, <2>2, <2>4, EmptyKeyAssumption, Zenon
  <2>6. 0 \in 0..Len(log) /\ 0 <= index
    BY <1>1
  <2> QED
    BY <1>1, <2>1, <2>3, <2>5, <2>6, ReadAnswered
<1> QED
  BY <1>2, <1>3

(* A linearizable read waits until its node has what was committed before. *)
LEMMA ReadDoneDone ==
  ASSUME Core, NEW c \in Clients, ReadDone(c)
  PROVE  DoneOK(c)'
<1> DEFINE s == calls[c].sent
           n == calls[c].node
<1>1. CallOK(c) /\ DOMAIN calls = Clients /\ calls[c].stage = "reading"
  BY Zenon DEF Core, CallsOK, ReadDone
<1>2. /\ s \in Sent /\ Check(FALSE, TRUE, s) = "OK" /\ OnlyReads(s)
      /\ n \in Nodes /\ calls[c].from \in 0..Len(log)
  BY <1>1, Zenon DEF CallOK
<1>3. /\ calls'[c] = Done(s, calls[c].from, applied[n], ReadResult(kv[n], s))
      /\ calls[c].from <= applied[n] /\ UNCHANGED <<log, ref>>
  <2>1. applied[n] >= calls[c].from /\ applied[n] \in Nat /\ calls[c].from \in Nat
    BY <1>2 DEF Core, NodesOK, ReadDone
  <2> QED
    BY <1>1, <2>1 DEF ReadDone, Finish, leader
<1>4. /\ applied[n] \in 0..Len(log) /\ kv[n] = ref[applied[n] + 1]
      /\ kv[n] \in Tables
  BY <1>2, Zenon DEF Core, NodesOK
<1>5. /\ Gives(ReadResult(kv[n], s), Promised(kv[n], s.req))
      /\ ReadResult(kv[n], s).revision = 0
  BY <1>2, <1>4, ReadAssumption, Zenon
<1> HIDE DEF s, n
<1> QED
  BY <1>2, <1>3, <1>4, <1>5, ReadAnswered

(* A write is answered with what its entry has done.                       *)
LEMMA ApplyDone ==
  ASSUME Core, NEW n \in Nodes, Apply(n), NEW c \in Clients,
         Answers(c, n, applied[n] + 1)
  PROVE  DoneOK(c)'
<1>1. PICK i \in 1..Len(log) : i = applied[n] + 1
  BY ApplyEntry, Zenon DEF Core, Apply
<1> DEFINE s == calls[c].sent
           u == Update(kv[n], log[i].data, i)
           answer == WriteResult(s, u)
<1>2. /\ LogOK /\ NodesOK /\ CallOK(c) /\ DOMAIN calls = Clients
      /\ UNCHANGED <<log, ref>> /\ i <= Len(log)
  BY <1>1, Zenon DEF Core, CallsOK, Apply
<1>3. /\ log[i].client = c /\ ~u.panic
      /\ calls[c].stage = "proposed" /\ calls[c].from < i
      /\ calls'[c] = Done(s, calls[c].from, i, answer)
  BY <1>1, <1>2, Zenon DEF Answers
<1>4. /\ s \in Sent /\ Check(FALSE, TRUE, s) = "OK" /\ ~OnlyReads(s)
      /\ calls[c].from \in 0..Len(log)
  BY <1>2, <1>3, Zenon DEF CallOK
<1>5. i \in (calls[c].from + 1)..Len(log) /\ i \in calls[c].from + 1..i
  BY <1>1, <1>3, <1>4
<1>6. log[i].req = s.req /\ log[i].data = Proposal(s)
  BY <1>2, <1>3, <1>5, Zenon DEF CallOK, Own
<1>7. s \in Writes
  BY <1>4, Zenon DEF Writes
<1>8. GivesAt(answer, Promised(ref[i], s.req), i)
  <2> HIDE DEF s, u
  <2>1. u = Update(kv[n], log[applied[n] + 1].data, applied[n] + 1)
    BY <1>1 DEF u
  <2> QED
    BY <1>1, <1>2, <1>3, <1>6, <1>7, <2>1, ApplyUpdate, Zenon
<1> HIDE DEF answer
<1>9. /\ calls'[c].sent = s /\ calls'[c].from = calls[c].from
      /\ calls'[c].to = i /\ calls'[c].answer = answer
  BY <1>3, DoneFields, SMTT(30)
<1>10. Answered(c)'
  BY <1>2, <1>3, <1>4, <1>5, <1>8, <1>9 DEF Answered
<1>11. i \in 0..Len(log)
  BY <1>1
<1> QED
  BY <1>2, <1>4, <1>9, <1>10, <1>11, Zenon DEF DoneOK

(* Every step keeps the answers right: those given before, because the log *)
(* only grows, and the one that the step gives.                            *)
LEMMA DoneStep ==
  ASSUME Inv, [Next]_vars
  PROVE  \A c \in Clients : DoneOK(c)'
<1>1. /\ Core /\ Prefixed /\ LogOK /\ NodesOK /\ DOMAIN calls = Clients
      /\ Len(log) \in Nat /\ \A d \in Clients : DoneOK(d)
  BY SeqFacts DEF Inv, Core, LogOK, CallsOK
<1>2. ASSUME UNCHANGED <<log, ref>>, NEW d \in Clients, calls'[d] = calls[d]
      PROVE  DoneOK(d)'
  BY <1>1, <1>2, DoneKept
<1>3. ASSUME UNCHANGED <<log, ref>>, NEW c \in Clients, NEW call,
             calls' = [calls EXCEPT ![c] = call],
             call.stage # "done" \/ DoneOK(c)',
             NEW d \in Clients
      PROVE  DoneOK(d)'
  <2>1. CASE d # c
    BY <1>1, <1>2, <1>3, <2>1
  <2>2. CASE d = c /\ call.stage # "done"
    BY <1>1, <1>3, <2>2 DEF DoneOK
  <2> QED
    BY <1>3, <2>1, <2>2
<1>4. ASSUME UNCHANGED <<log, ref, calls>>, NEW d \in Clients
      PROVE  DoneOK(d)'
  BY <1>2, <1>4
<1>5. ASSUME NEW e \in LogEntries, Grows(e), calls' = calls, NEW d \in Clients
      PROVE  DoneOK(d)'
  <2>1. /\ Len(log') = Len(log) + 1
        /\ \A i \in 1..Len(log) : log'[i] = log[i]
        /\ \A i \in 1..(Len(log) + 1) : ref'[i] = ref[i]
    BY <1>1, <1>5, GrowsFacts
  <2>2. Len(log') \in Nat /\ Len(log) <= Len(log')
    BY <1>1, <2>1
  <2> QED
    BY <1>1, <1>5, <2>1, <2>2, DoneKept
<1> SUFFICES ASSUME NEW d \in Clients PROVE DoneOK(d)'
  OBVIOUS
<1>6. ASSUME NEW c \in Callers, NEW n \in Nodes \cup {follower}, NEW s \in Sent,
             \/ Reject(c, n, s)
             \/ StaleRead(c, n, s)
             \/ n # follower /\ SyncRead(c, n, s)
             \/ n # follower /\ SyncPropose(c, n, s)
      PROVE  DoneOK(d)'
  <2>1. c \in Clients
    BY DEF Callers
  <2>2. CASE Reject(c, n, s)
    BY <1>4, <2>2 DEF Reject, vars
  <2>3. CASE StaleRead(c, n, s)
    <3>1. DoneOK(c)'
      BY <1>1, <2>1, <2>3, StaleReadDone
    <3> QED
      BY <1>3, <2>1, <2>3, <3>1, Zenon DEF StaleRead, leader
  <2>4. ASSUME NEW stage \in {"reading", "proposed"}, Begin(c, n, s, stage),
               UNCHANGED <<log, ref>>
        PROVE  DoneOK(d)'
    <3>1. Call(stage, s, n, Len(log)).stage # "done"
      BY <2>4, CallFields
    <3> QED
      BY <1>3, <2>1, <2>4, <3>1, Zenon DEF Begin
  <2>5. CASE SyncRead(c, n, s)
    BY <2>4, <2>5 DEF SyncRead, leader
  <2>6. CASE SyncPropose(c, n, s)
    BY <2>4, <2>6 DEF SyncPropose
  <2> QED
    BY <1>6, <2>2, <2>3, <2>5, <2>6, Zenon
<1>7. ASSUME NEW c \in Clients, Return(c) \/ Timeout(c)
      PROVE  DoneOK(d)'
  <2>1. Idle.stage # "done"
    BY CallFields
  <2> QED
    BY <1>3, <1>7, <2>1 DEF Return, Timeout, leader
<1>8. ASSUME NEW c \in Clients, ReadDone(c)
      PROVE  DoneOK(d)'
  <2>1. DoneOK(c)'
    BY <1>1, <1>8, ReadDoneDone
  <2> QED
    BY <1>3, <1>8, <2>1, Zenon DEF ReadDone, Finish, leader
<1>9. ASSUME NEW p \in proposed, Commit(p)
      PROVE  DoneOK(d)'
  BY <1>1, <1>5, <1>9 DEF LogOK, Commit, Grows
<1>10. CASE Elect
  BY <1>1, <1>5, <1>10, ElectGrows DEF Elect
<1>11. ASSUME NEW n \in Members, Apply(n)
       PROVE  DoneOK(d)'
  <2>1. n \in Nodes /\ UNCHANGED <<log, ref>>
    BY <1>11 DEF Members, Apply
  <2>2. CASE calls' = calls
    BY <1>4, <2>1, <2>2
  <2>3. ASSUME NEW c \in Clients, Answers(c, n, applied[n] + 1)
        PROVE  DoneOK(d)'
    <3>1. DoneOK(c)'
      BY <1>1, <1>11, <2>1, <2>3, ApplyDone
    <3> QED
      BY <1>3, <2>1, <2>3, <3>1, Zenon DEF Answers
  <2> QED
    BY <1>1, <1>11, <2>1, <2>2, <2>3, Notified
<1>12. ASSUME NEW n \in Members,
              Recover(n) \/ \E last \in 1..MaxLog : Replicate(n, last)
       PROVE  DoneOK(d)'
  BY <1>4, <1>12 DEF Recover, Replicate, leader
<1>13. ASSUME NEW k \in 1..MaxLog, Propose(k)
       PROVE  DoneOK(d)'
  BY <1>4, <1>13 DEF Propose, leader
<1>14. CASE LearnTable \/ ProposeFails \/ UNCHANGED vars
  BY <1>4, <1>14 DEF LearnTable, ProposeFails, leader, vars
<1> QED
  BY <1>6, <1>7, <1>8, <1>9, <1>10, <1>11, <1>12, <1>13, <1>14, Zenon DEF Next

(* KVServer's answers are linearizable: a call that succeeds has taken     *)
(* effect at one point of the log between its beginning and its end, a     *)
(* stale read at the point of its replica.                                 *)
THEOREM ServiceLinearizable == Spec => []Linearizable
<1>1. Init => Inv
  <2>1. Init => Prefixed
    BY DEF Init, Prefixed, Agree
  <2>2. Init => \A c \in Clients : DoneOK(c)
    BY CallFields DEF Init, DoneOK
  <2> QED
    BY <2>1, <2>2, InitCore DEF Inv
<1>2. Inv /\ [Next]_vars => Inv'
  BY CoreStep, PrefixedStep, DoneStep DEF Inv
<1>3. Inv => Linearizable
  BY DEF Inv, DoneOK, Linearizable
<1> QED
  BY <1>1, <1>2, <1>3, PTL DEF Spec
=============================================================================
