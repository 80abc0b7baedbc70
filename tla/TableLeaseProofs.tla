-------------------------- MODULE TableLeaseProofs --------------------------
(***************************************************************************)
(* Proofs about TableLease, for every set of nodes, lease length and bound.*)
(*                                                                         *)
(* The inductive invariant follows a version from the read that obtained   *)
(* it to the proposal that carries it: as long as the stored pair still    *)
(* has that version it is the pair that was read, so whatever was decided  *)
(* from it -- that it is the node's own, or that it has run out -- is still*)
(* true when the proposal is applied.                                      *)
(***************************************************************************)
EXTENDS TableLease, TLAPS

(* The provers, in this order, and their time limits in seconds.           *)
USE ZenonT(5), SMTT(30)

(* A pair that is present at time t holds a lease, which ends within       *)
(* LeaseDuration.                                                          *)
Sound(p, t) ==
    p.ver # 0 => p.val \in Leases /\ p.val.Until <= t + LeaseDuration

(* A pair read earlier is the stored one, s, while the versions agree.     *)
Fresh(p, s, t) == Sound(p, t) /\ (p.ver # 0 /\ p.ver = s.ver => p = s)

(* What a proposal in flight may do to the stored pair it would replace; g *)
(* is the newest version that its author has given back.                   *)
Justified(m, s, t, g) ==
    LET hits == m.ver # 0 /\ m.ver = s.ver
    IN IF m.op = "set"
       THEN /\ m.val \in Leases
            /\ m.val.ID = m.from
            /\ m.val.Until <= t + LeaseDuration
            /\ hits => /\ s.val.ID = m.from \/ s.val.Until < t
                       /\ s.val.Until <= m.val.Until
       ELSE /\ m.ver # 0
            /\ m.ver <= g
            /\ hits => s.val.ID = m.from

(* A lease acknowledged to n with version v and end u, which n has not     *)
(* given back and which has not run out, is the stored one or was renewed. *)
Backed(n, v, u, s, t, g) ==
    t <= u /\ g < v => v <= s.ver /\ s.val.ID = n /\ u <= s.val.Until

ReadsFresh ==
    \A n \in Nodes :
        /\ lease[n].pc = "got" => Fresh(lease[n].get, Stored, now)
        /\ return[n].pc = "got" => Fresh(return[n].get, Stored, now)

(* LeaseTable only ever waits for a Set.                                   *)
AwaitsSet ==
    \A n \in Nodes, m \in inflight :
        lease[n].pc = "proposed" /\ m.id = lease[n].id => m.op = "set"

(* The answer r to a Set of node n.                                        *)
AnswerBacked(n, r, s, t, g) ==
    r.val \in Leases /\ Backed(n, r.ver, r.val.Until, s, t, g)

AnswersBacked ==
    \A n \in Nodes : lease[n].pc = "applied" =>
        AnswerBacked(n, lease[n].get, Stored, now, given[n])

FlagsBacked ==
    \A n \in Nodes : leased[n] =>
        Backed(n, held[n].ver, held[n].until, Stored, now, given[n])

ProposalsJustified ==
    \A m \in inflight : Justified(m, Stored, now, given[m.from])

IInv ==
    /\ TypeOK
    /\ Sound(Stored, now)
    /\ ReadsFresh
    /\ AwaitsSet
    /\ AnswersBacked
    /\ FlagsBacked
    /\ ProposalsJustified

-----------------------------------------------------------------------------

(* The inductive invariant holds before any node has started.              *)
LEMMA InitIInv == Init => IInv
<1> SUFFICES ASSUME Init PROVE IInv
  OBVIOUS
<1>1. TypeOK
  BY LeaseAssumption
     DEF Init, TypeOK, Pairs, Routines, Routine, At, Absent, NoLease
<1>2. Stored = Absent
  BY DEF Init, Stored
<1>3. Sound(Stored, now)
  BY <1>2 DEF Sound, Absent
<1>4. /\ \A n \in Nodes : lease[n].pc = "idle" /\ return[n].pc = "idle"
      /\ inflight = {} /\ \A n \in Nodes : ~leased[n]
  BY DEF Init, At, Routine
<1> QED
  BY <1>1, <1>3, <1>4
     DEF IInv, ReadsFresh, AwaitsSet, AnswersBacked, FlagsBacked,
         ProposalsJustified

(* The shape of the state is preserved by every action.                    *)
LEMMA TypeStep == IInv /\ [Next]_vars => TypeOK'
<1> SUFFICES ASSUME IInv, [Next]_vars PROVE TypeOK'
  OBVIOUS
<1>0. TypeOK /\ \A n \in Nodes : lease[n].pc = "applied" =>
                                    lease[n].get.val \in Leases
  BY DEF IInv, AnswersBacked, AnswerBacked
<1> USE <1>0
<1> USE LeaseAssumption DEF TypeOK, Pairs, Routines, Leases, Routine, At, Absent,
        NoLease, Get, LeaseKey
<1>1. CASE Tick
  BY <1>1 DEF Tick
<1>2. ASSUME NEW m \in inflight, Apply(m) PROVE TypeOK'
  BY <1>2 DEF Apply, Answered, VersionMismatch, Exists, Update, Set, Delete
<1>3. ASSUME NEW n \in Nodes, LeaseGet(n) PROVE TypeOK'
  BY <1>3 DEF LeaseGet
<1>4. ASSUME NEW n \in Nodes, LeaseGetFails(n) PROVE TypeOK'
  BY <1>4 DEF LeaseGetFails
<1>5. ASSUME NEW n \in Nodes, LeaseClaim(n) PROVE TypeOK'
  BY <1>5 DEF LeaseClaim, Propose
<1>6. ASSUME NEW n \in Nodes, LeaseNotAcquired(n) PROVE TypeOK'
  BY <1>6 DEF LeaseNotAcquired
<1>7. ASSUME NEW n \in Nodes, LeaseAcquired(n) PROVE TypeOK'
  BY <1>7 DEF LeaseAcquired
<1>8. ASSUME NEW n \in Nodes, LeaseSetFails(n) PROVE TypeOK'
  BY <1>8 DEF LeaseSetFails
<1>9. ASSUME NEW n \in Nodes, DoBegin(n) \/ DoEnd(n) PROVE TypeOK'
  <2>1. CASE DoBegin(n)
    BY <2>1 DEF DoBegin
  <2>2. CASE DoEnd(n)
    BY <2>2 DEF DoEnd
  <2> QED
    BY <1>9, <2>1, <2>2
<1>10. ASSUME NEW n \in Nodes, ReturnGet(n) PROVE TypeOK'
  BY <1>10 DEF ReturnGet
<1>11. ASSUME NEW n \in Nodes, ReturnOwn(n) PROVE TypeOK'
  BY <1>11 DEF ReturnOwn, Propose
<1>12. ASSUME NEW n \in Nodes, ReturnNothing(n) \/ ReturnDone(n) PROVE TypeOK'
  <2>1. CASE ReturnNothing(n)
    BY <2>1 DEF ReturnNothing, ReturnEnd
  <2>2. CASE ReturnDone(n)
    BY <2>2 DEF ReturnDone, ReturnEnd
  <2> QED
    BY <1>12, <2>1, <2>2
<1>13. ASSUME NEW n \in Nodes,
              Close(n) \/ StopLease(n) \/ StopReplication(n)
       PROVE  TypeOK'
  <2>1. CASE Close(n)
    BY <2>1 DEF Close
  <2>2. CASE StopLease(n)
    BY <2>2 DEF StopLease
  <2>3. CASE StopReplication(n)
    BY <2>3 DEF StopReplication
  <2> QED
    BY <1>13, <2>1, <2>2, <2>3
<1>14. ASSUME NEW n \in Nodes, CloseReturn(n) \/ CloseReturnFails(n)
       PROVE  TypeOK'
  <2>1. CASE CloseReturn(n)
    BY <2>1 DEF CloseReturn
  <2>2. CASE CloseReturnFails(n)
    BY <2>2 DEF CloseReturnFails
  <2> QED
    BY <1>14, <2>1, <2>2
<1>15. ASSUME NEW n \in Nodes, Restart(n) PROVE TypeOK'
  BY <1>15 DEF Restart
<1>16. CASE UNCHANGED vars
  BY <1>16 DEF vars
<1> QED
  BY <1>1, <1>2, <1>3, <1>4, <1>5, <1>6, <1>7, <1>8, <1>9, <1>10, <1>11,
     <1>12, <1>13, <1>14, <1>15, <1>16, Zenon DEF Next

(* What TypeOK says of the versions and times.                             *)
LEMMA Shapes ==
  ASSUME TypeOK
  PROVE  /\ now \in Nat /\ index \in Nat /\ proposals \in Nat
         /\ Stored.ver \in 0..index
         /\ \A n \in Nodes : /\ lease[n].get.ver \in 0..index
                             /\ return[n].get.ver \in 0..index
                             /\ lease[n].id \in 0..proposals
                             /\ held[n].ver \in 0..index
                             /\ held[n].until \in Nat
                             /\ given[n] \in 0..index
         /\ \A m \in inflight : /\ m.id \in 1..proposals /\ m.from \in Nodes
                                /\ m.op \in {"set", "delete"}
                                /\ m.key = LeaseKey /\ m.ver \in 0..index
<1>1. Stored \in Pairs
  BY DEF TypeOK, Stored
<1>2. \A n \in Nodes : lease[n] \in Routines /\ return[n] \in Routines
  BY DEF TypeOK
<1>3. \A n \in Nodes : /\ lease[n].get.ver \in 0..index
                       /\ return[n].get.ver \in 0..index
                       /\ lease[n].id \in 0..proposals
  BY <1>2 DEF Routines, Pairs
<1>4. \A n \in Nodes : /\ held[n].ver \in 0..index /\ held[n].until \in Nat
                       /\ given[n] \in 0..index
  BY DEF TypeOK
<1>5. \A m \in inflight : /\ m.id \in 1..proposals /\ m.from \in Nodes
                          /\ m.op \in {"set", "delete"}
                          /\ m.key = LeaseKey /\ m.ver \in 0..index
  BY DEF TypeOK
<1>6. Stored.ver \in 0..index
  BY <1>1 DEF Pairs
<1> QED
  BY <1>3, <1>4, <1>5, <1>6 DEF TypeOK

(* Time passes: nothing that was known of leases becomes false.            *)
LEMMA TimePasses ==
  ASSUME NEW t \in Nat, NEW s, Sound(s, t)
  PROVE  /\ \A p : Sound(p, t) => Sound(p, t + 1)
         /\ \A p : Fresh(p, s, t) => Fresh(p, s, t + 1)
         /\ \A m, g : Justified(m, s, t, g) => Justified(m, s, t + 1, g)
         /\ \A n, v, g : \A u \in Nat :
              Backed(n, v, u, s, t, g) => Backed(n, v, u, s, t + 1, g)
<1>1. ASSUME NEW p, Sound(p, t) PROVE Sound(p, t + 1)
  BY <1>1, LeaseAssumption DEF Sound, Leases
<1>2. ASSUME NEW p, Fresh(p, s, t) PROVE Fresh(p, s, t + 1)
  BY <1>1, <1>2 DEF Fresh
<1>3. ASSUME NEW m, NEW g, Justified(m, s, t, g)
      PROVE  Justified(m, s, t + 1, g)
  <2>1. s.ver # 0 => s.val.Until \in Nat
    BY DEF Sound, Leases
  <2>2. CASE m.op = "set"
    <3>1. m.val.Until \in Nat
      BY <1>3, <2>2 DEF Justified, Leases
    <3> QED
      BY <1>3, <2>1, <2>2, <3>1, LeaseAssumption DEF Justified
  <2>3. CASE m.op # "set"
    BY <1>3, <2>3 DEF Justified
  <2> QED
    BY <2>2, <2>3
<1>4. ASSUME NEW n, NEW v, NEW g, NEW u \in Nat, Backed(n, v, u, s, t, g)
      PROVE  Backed(n, v, u, s, t + 1, g)
  BY <1>4 DEF Backed
<1> QED
  BY <1>1, <1>2, <1>3, <1>4

(* The stored pair is replaced by one that nobody has read.                *)
LEMMA Replaced ==
  ASSUME NEW s, NEW q, NEW t, NEW p, p.ver = 0 \/ p.ver # q.ver
  PROVE  /\ Fresh(p, s, t) => Fresh(p, q, t)
         /\ \A g : Justified(p, s, t, g) => Justified(p, q, t, g)
BY DEF Fresh, Justified

(* A Set that is applied keeps what was acknowledged: it is a renewal, or  *)
(* the lease it replaces has run out.                                      *)
LEMMA BackedAfterSet ==
  ASSUME NEW s, NEW t \in Nat, NEW i \in Nat, s.ver \in 0..i, Sound(s, t),
         NEW m, NEW h, m.op = "set", Justified(m, s, t, h),
         s.ver # 0 => m.ver = s.ver,
         NEW q, q = [ver |-> i + 1, val |-> m.val],
         NEW n, NEW v \in 0..i, NEW u \in Nat, NEW g \in Nat,
         Backed(n, v, u, s, t, g)
  PROVE  Backed(n, v, u, q, t, g)
<1>1. q.ver = i + 1 /\ q.val = m.val
  OBVIOUS
<1>2. m.val \in Leases /\ m.val.ID = m.from
  BY DEF Justified
<1> SUFFICES ASSUME t <= u, g < v
             PROVE  v <= q.ver /\ q.val.ID = n /\ u <= q.val.Until
  BY DEF Backed
<1>3. v <= s.ver /\ s.val.ID = n /\ u <= s.val.Until
  BY DEF Backed
<1>4. s.ver # 0 /\ m.ver = s.ver
  BY <1>3
<1>5. /\ s.val.ID = m.from \/ s.val.Until < t
      /\ s.val.Until <= m.val.Until
  BY <1>4 DEF Justified
<1>6. s.val.Until \in Nat /\ m.val.Until \in Nat
  BY <1>2, <1>4 DEF Sound, Leases
<1>7. m.from = n
  BY <1>3, <1>5, <1>6
<1> QED
  BY <1>1, <1>2, <1>3, <1>5, <1>6, <1>7

(* A Delete that is applied takes away only what its author gave back.     *)
LEMMA BackedAfterDelete ==
  ASSUME NEW s, NEW t \in Nat, s.ver \in Nat,
         NEW m, m.ver \in Nat, NEW h, m.op = "delete", Justified(m, s, t, h),
         s.ver # 0 => m.ver = s.ver,
         NEW q, NEW n, NEW v \in Nat, NEW u \in Nat, NEW g \in Nat,
         m.from = n => h = g,
         Backed(n, v, u, s, t, g)
  PROVE  Backed(n, v, u, q, t, g)
<1> SUFFICES ASSUME t <= u, g < v PROVE FALSE
  BY DEF Backed
<1>1. v <= s.ver /\ s.val.ID = n
  BY DEF Backed
<1>2. s.ver # 0 /\ m.ver = s.ver
  BY <1>1
<1>3. m.ver <= h /\ s.val.ID = m.from
  BY <1>2 DEF Justified
<1> QED
  BY <1>1, <1>2, <1>3

(* A node gives back a newer version than before.                          *)
LEMMA GivenGrows ==
  ASSUME NEW g \in Nat, NEW h \in Nat, g <= h
  PROVE  /\ \A m, s, t : m.ver \in Nat /\ Justified(m, s, t, g)
                            => Justified(m, s, t, h)
         /\ \A n, u, s, t : \A v \in Nat :
              Backed(n, v, u, s, t, g) => Backed(n, v, u, s, t, h)
<1>1. ASSUME NEW m, NEW s, NEW t, m.ver \in Nat, Justified(m, s, t, g)
      PROVE  Justified(m, s, t, h)
  <2>1. CASE m.op = "set"
    BY <1>1, <2>1 DEF Justified
  <2>2. CASE m.op # "set"
    BY <1>1, <2>2 DEF Justified
  <2> QED
    BY <2>1, <2>2
<1>2. ASSUME NEW n, NEW u, NEW s, NEW t, NEW v \in Nat,
             Backed(n, v, u, s, t, g)
      PROVE  Backed(n, v, u, s, t, h)
  BY <1>2 DEF Backed
<1> QED
  BY <1>1, <1>2

(* A step of one routine that leaves the store, the proposals and the      *)
(* clock alone: the routine reads the store, goes to rest or drops or sets *)
(* its flag.                                                               *)
LEMMA RoutineStep ==
  ASSUME IInv, TypeOK', now' = now, store' = store, inflight' = inflight,
         given' = given,
         \A i \in Nodes : \/ lease'[i] = lease[i]
                          \/ lease'[i].pc = "got" /\ lease'[i].get = Stored
                          \/ lease'[i].pc \in {"idle", "stopped"},
         \A i \in Nodes : \/ return'[i] = return[i]
                          \/ return'[i].pc = "got" /\ return'[i].get = Stored
                          \/ return'[i].pc # "got",
         \A i \in Nodes : leased'[i] =>
            \/ leased[i] /\ held'[i] = held[i]
            \/ Backed(i, held'[i].ver, held'[i].until, Stored, now, given[i])
  PROVE  IInv'
<1>1. Stored' = Stored
  BY DEF Stored
<1>2. Sound(Stored, now) /\ Fresh(Stored, Stored, now)
  BY DEF IInv, Fresh
<1>3. ReadsFresh'
  BY <1>1, <1>2 DEF IInv, ReadsFresh
<1>4. AwaitsSet'
  BY DEF IInv, AwaitsSet
<1>5. AnswersBacked'
  BY <1>1 DEF IInv, AnswersBacked
<1>6. FlagsBacked'
  BY <1>1 DEF IInv, FlagsBacked
<1>7. ProposalsJustified'
  BY <1>1 DEF IInv, ProposalsJustified
<1>8. Sound(Stored, now)'
  BY <1>1, <1>2
<1> QED
  BY <1>3, <1>4, <1>5, <1>6, <1>7, <1>8 DEF IInv

(* A tick of the clock.                                                    *)
LEMMA TickStep ==
  ASSUME IInv, TypeOK', Tick
  PROVE  IInv'
<1>1. /\ now' = now + 1 /\ Stored' = Stored /\ inflight' = inflight
      /\ lease' = lease /\ return' = return /\ leased' = leased
      /\ held' = held /\ given' = given
  BY DEF Tick, Stored
<1>2. Sound(Stored, now) /\ now \in Nat
  BY Shapes DEF IInv
<1>3. Sound(Stored, now)'
  BY <1>1, <1>2, TimePasses
<1>4. ReadsFresh'
  BY <1>1, <1>2, TimePasses DEF IInv, ReadsFresh
<1>5. AnswersBacked'
  <2>1. \A n \in Nodes : lease[n].pc = "applied" =>
            /\ lease[n].get.val \in Leases
            /\ Backed(n, lease[n].get.ver, lease[n].get.val.Until, Stored,
                      now, given[n])
    BY DEF IInv, AnswersBacked, AnswerBacked
  <2>2. \A n \in Nodes : lease[n].pc = "applied" =>
            lease[n].get.val.Until \in Nat
    BY <2>1 DEF Leases
  <2>3. \A n \in Nodes : lease[n].pc = "applied" =>
            AnswerBacked(n, lease[n].get, Stored, now + 1, given[n])
    BY <1>2, <2>1, <2>2, TimePasses DEF AnswerBacked
  <2> QED
    BY <1>1, <2>3 DEF AnswersBacked
<1>6. FlagsBacked'
  <2>1. \A n \in Nodes : held[n].until \in Nat
    BY Shapes DEF IInv
  <2> QED
    BY <1>1, <1>2, <2>1, TimePasses DEF IInv, FlagsBacked
<1>7. ProposalsJustified'
  BY <1>1, <1>2, TimePasses DEF IInv, ProposalsJustified
<1>8. AwaitsSet'
  BY <1>1 DEF IInv, AwaitsSet
<1> QED
  BY <1>3, <1>4, <1>5, <1>6, <1>7, <1>8 DEF IInv

(* The part of a step of Apply that does not depend on the kind of update: *)
(* what was acknowledged stays backed, no version read so far is the one   *)
(* of the new pair, and an answer is backed by the new pair.               *)
LEMMA ApplyFrame ==
  ASSUME IInv, TypeOK', NEW m \in inflight, Apply(m), Sound(Stored', now),
         \A v : v \in 0..index => v = 0 \/ v # Stored'.ver,
         \A n \in Nodes : \A v \in 0..index : \A u \in Nat :
            Backed(n, v, u, Stored, now, given[n])
              => Backed(n, v, u, Stored', now, given[n]),
         \A n \in Nodes : \/ lease'[n] = lease[n]
                          \/ lease'[n].pc = "rejected"
                          \/ /\ lease'[n].pc = "applied"
                             /\ AnswerBacked(n, lease'[n].get, Stored', now,
                                             given[n])
  PROVE  IInv'
<1>1. /\ now' = now /\ inflight' \subseteq inflight /\ return' = return
      /\ leased' = leased /\ held' = held /\ given' = given
  BY DEF Apply
<1>2. /\ \A n \in Nodes : /\ lease[n].get.ver \in 0..index
                          /\ return[n].get.ver \in 0..index
                          /\ held[n].ver \in 0..index /\ held[n].until \in Nat
      /\ \A p \in inflight : p.ver \in 0..index
  BY Shapes DEF IInv
<1>3. ReadsFresh'
  <2>1. \A p : p.ver \in 0..index /\ Fresh(p, Stored, now)
                 => Fresh(p, Stored', now)
    BY Replaced
  <2> QED
    BY <1>1, <1>2, <2>1 DEF IInv, ReadsFresh
<1>4. AwaitsSet'
  BY <1>1 DEF IInv, AwaitsSet
<1>5. AnswersBacked'
  <2>1. ASSUME NEW n \in Nodes, lease[n].pc = "applied"
        PROVE  AnswerBacked(n, lease[n].get, Stored', now, given[n])
    <3>1. /\ lease[n].get.val \in Leases
          /\ Backed(n, lease[n].get.ver, lease[n].get.val.Until, Stored, now,
                    given[n])
      BY <2>1 DEF IInv, AnswersBacked, AnswerBacked
    <3>2. lease[n].get.val.Until \in Nat
      BY <3>1 DEF Leases
    <3> QED
      BY <1>2, <3>1, <3>2 DEF AnswerBacked
  <2> QED
    BY <1>1, <2>1 DEF AnswersBacked
<1>6. FlagsBacked'
  BY <1>1, <1>2 DEF IInv, FlagsBacked
<1>7. ProposalsJustified'
  <2>1. \A p, g : p.ver \in 0..index /\ Justified(p, Stored, now, g)
                    => Justified(p, Stored', now, g)
    BY Replaced
  <2> QED
    BY <1>1, <1>2, <2>1 DEF IInv, ProposalsJustified
<1>8. Sound(Stored, now)'
  BY <1>1
<1> QED
  BY <1>3, <1>4, <1>5, <1>6, <1>7, <1>8 DEF IInv

(* LFSM.Update applies a proposal, accepted or not.                        *)
LEMMA ApplyStep ==
  ASSUME IInv, TypeOK', NEW m \in inflight, Apply(m)
  PROVE  IInv'
<1>1. /\ m.from \in Nodes /\ m.key = LeaseKey /\ m.ver \in 0..index
      /\ m.op \in {"set", "delete"}
      /\ index \in Nat /\ Stored.ver \in 0..index /\ now \in Nat
      /\ \A n \in Nodes : given[n] \in Nat
  BY Shapes DEF IInv
<1>2. Sound(Stored, now) /\ Justified(m, Stored, now, given[m.from])
  BY DEF IInv, ProposalsJustified
<1>3. /\ lease \in [Nodes -> Routines]
      /\ lease' = [lease EXCEPT ![m.from] = Answered(@, m)]
      /\ store \in [{LeaseKey} -> Pairs]
      /\ store' = Update(store, m, index + 1)
  BY DEF IInv, TypeOK, Apply
<1>4. \A n \in Nodes : n # m.from => lease'[n] = lease[n]
  BY <1>1, <1>3
<1>5. lease'[m.from] = Answered(lease[m.from], m)
  BY <1>1, <1>3
<1>6. lease'[m.from] = lease[m.from] \/ lease[m.from].pc = "proposed"
  BY <1>5 DEF Answered
<1>7. CASE VersionMismatch(store, m)
  <2>1. Stored' = Stored
    BY <1>3, <1>7 DEF Update, Stored
  <2>2. lease'[m.from] = lease[m.from] \/ lease'[m.from].pc = "rejected"
    BY <1>5, <1>7 DEF Answered, Routine
  <2>3. /\ now' = now /\ inflight' \subseteq inflight /\ return' = return
        /\ leased' = leased /\ held' = held /\ given' = given
    BY DEF Apply
  <2>4. \A n \in Nodes : lease'[n] = lease[n] \/ lease'[n].pc = "rejected"
    BY <1>4, <2>2
  <2>5. ReadsFresh' /\ AnswersBacked'
    BY <2>1, <2>3, <2>4 DEF IInv, ReadsFresh, AnswersBacked
  <2>6. AwaitsSet' /\ FlagsBacked' /\ ProposalsJustified'
    BY <2>1, <2>3, <2>4 DEF IInv, AwaitsSet, FlagsBacked, ProposalsJustified
  <2>7. Sound(Stored, now)'
    BY <1>2, <2>1, <2>3
  <2> QED
    BY <2>5, <2>6, <2>7 DEF IInv
<1>8. CASE ~VersionMismatch(store, m) /\ m.op = "set"
  <2>1. Stored' = [ver |-> index + 1, val |-> m.val]
    BY <1>1, <1>3, <1>8 DEF Update, Set, Stored
  <2>2. Stored.ver # 0 => m.ver = Stored.ver
    BY <1>1, <1>8 DEF VersionMismatch, Exists, Stored
  <2>3. m.val \in Leases /\ m.val.ID = m.from
        /\ m.val.Until <= now + LeaseDuration
    BY <1>2, <1>8 DEF Justified
  <2>4. Stored'.ver = index + 1 /\ Stored'.val = m.val
    BY <2>1
  <2>5. Sound(Stored', now)
    BY <2>3, <2>4 DEF Sound
  <2>6. \A v : v \in 0..index => v = 0 \/ v # Stored'.ver
    BY <1>1, <2>4
  <2>7. \A n \in Nodes : \A v \in 0..index : \A u \in Nat :
            Backed(n, v, u, Stored, now, given[n])
              => Backed(n, v, u, Stored', now, given[n])
    BY <1>1, <1>2, <1>8, <2>1, <2>2, BackedAfterSet
  <2>8. AnswerBacked(m.from, Stored', Stored', now, given[m.from])
    <3>1. m.val.Until \in Nat
      BY <2>3 DEF Leases
    <3> QED
      BY <1>1, <2>3, <2>4, <3>1 DEF AnswerBacked, Backed
  <2>9. \/ lease'[m.from] = lease[m.from]
        \/ lease'[m.from].pc = "applied" /\ lease'[m.from].get = Stored'
    BY <1>5, <1>8, <2>1 DEF Answered, Routine
  <2>10. \A n \in Nodes : \/ lease'[n] = lease[n]
                          \/ /\ lease'[n].pc = "applied"
                             /\ AnswerBacked(n, lease'[n].get, Stored', now,
                                             given[n])
    BY <1>4, <2>8, <2>9
  <2> QED
    BY <2>5, <2>6, <2>7, <2>10, ApplyFrame
<1>9. CASE ~VersionMismatch(store, m) /\ m.op = "delete"
  <2>1. Stored' = Absent
    BY <1>1, <1>3, <1>9 DEF Update, Delete, Stored
  <2>2. Stored.ver # 0 => m.ver = Stored.ver
    BY <1>1, <1>9 DEF VersionMismatch, Exists, Stored
  <2>3. Stored'.ver = 0
    BY <2>1 DEF Absent
  <2>4. Sound(Stored', now)
    BY <2>3 DEF Sound
  <2>5. \A v : v \in 0..index => v = 0 \/ v # Stored'.ver
    BY <2>3
  <2>6. \A n \in Nodes : \A v \in 0..index : \A u \in Nat :
            Backed(n, v, u, Stored, now, given[n])
              => Backed(n, v, u, Stored', now, given[n])
    <3> SUFFICES ASSUME NEW n \in Nodes, NEW v \in 0..index, NEW u \in Nat,
                        Backed(n, v, u, Stored, now, given[n])
                 PROVE  Backed(n, v, u, Stored', now, given[n])
      OBVIOUS
    <3>1. v \in Nat /\ Stored.ver \in Nat /\ m.ver \in Nat /\ given[n] \in Nat
      BY <1>1
    <3>2. m.from = n => given[m.from] = given[n]
      OBVIOUS
    <3> QED
      BY <1>1, <1>2, <1>9, <2>2, <3>1, <3>2, BackedAfterDelete
  <2>7. lease[m.from].pc = "proposed" => m.id # lease[m.from].id
    BY <1>1, <1>9 DEF IInv, AwaitsSet
  <2>8. \A n \in Nodes : lease'[n] = lease[n]
    BY <1>4, <1>5, <2>7 DEF Answered
  <2> QED
    BY <2>4, <2>5, <2>6, <2>8, ApplyFrame
<1> QED
  BY <1>1, <1>7, <1>8, <1>9

(* LeaseTable proposes a lease.                                            *)
LEMMA ClaimStep ==
  ASSUME IInv, TypeOK', NEW n \in Nodes, LeaseClaim(n)
  PROVE  IInv'
<1> DEFINE val == [ID |-> n, Until |-> now + LeaseDuration]
           new == [id |-> proposals + 1, from |-> n, op |-> "set",
                   key |-> LeaseKey, val |-> val, ver |-> lease[n].get.ver]
<1>1. /\ inflight' = inflight \cup {new} /\ Stored' = Stored /\ now' = now
      /\ given' = given /\ return' = return /\ leased' = leased /\ held' = held
      /\ lease' = [lease EXCEPT ![n] =
                     Routine("proposed", Absent, proposals + 1)]
      /\ lease[n].pc = "got" /\ Claimable(n, lease[n].get)
  BY DEF LeaseClaim, Propose, Stored
<1>2. /\ now \in Nat /\ proposals \in Nat
      /\ \A m \in inflight : m.id \in 1..proposals
      /\ lease \in [Nodes -> Routines]
  BY Shapes DEF IInv, TypeOK
<1>3. \A i \in Nodes : i # n => lease'[i] = lease[i]
  BY <1>1, <1>2
<1>4. lease'[n].pc = "proposed" /\ lease'[n].id = proposals + 1
  BY <1>1, <1>2 DEF Routine
<1>5. /\ new.op = "set" /\ new.id = proposals + 1 /\ new.from = n
      /\ new.val = val /\ new.ver = lease[n].get.ver
  OBVIOUS
<1>6. val \in Leases /\ val.ID = n /\ val.Until = now + LeaseDuration
  BY <1>2, LeaseAssumption DEF Leases
<1>7. Justified(new, Stored, now, given[n])
  <2>1. Fresh(lease[n].get, Stored, now)
    BY <1>1 DEF IInv, ReadsFresh
  <2>2. CASE new.ver # 0 /\ new.ver = Stored.ver
    <3>1. Stored = lease[n].get
      BY <1>5, <2>1, <2>2 DEF Fresh
    <3>2. /\ Stored.val.ID = n \/ Stored.val.Until < now
          /\ Stored.val.Until <= now + LeaseDuration
      BY <1>1, <2>1, <2>2, <3>1 DEF Claimable, Fresh, Sound
    <3>3. val.Until <= now + LeaseDuration /\ Stored.val.Until <= val.Until
      BY <1>2, <1>6, <3>2, LeaseAssumption
    <3> HIDE DEF new, val
    <3> QED
      BY <1>5, <1>6, <3>2, <3>3 DEF Justified
  <2>3. CASE ~(new.ver # 0 /\ new.ver = Stored.ver)
    <3>1. val.Until <= now + LeaseDuration
      BY <1>2, <1>6, LeaseAssumption
    <3> HIDE DEF new, val
    <3> QED
      BY <1>5, <1>6, <2>3, <3>1 DEF Justified
  <2> QED
    BY <2>2, <2>3
<1> HIDE DEF new, val
<1>8. AwaitsSet'
  BY <1>1, <1>2, <1>3, <1>4, <1>5 DEF IInv, AwaitsSet
<1>9. ReadsFresh'
  BY <1>1, <1>3, <1>4 DEF IInv, ReadsFresh
<1>10. AnswersBacked'
  BY <1>1, <1>3, <1>4 DEF IInv, AnswersBacked
<1>11. FlagsBacked'
  BY <1>1 DEF IInv, FlagsBacked
<1>12. ProposalsJustified'
  BY <1>1, <1>5, <1>7 DEF IInv, ProposalsJustified
<1>13. Sound(Stored, now)'
  BY <1>1 DEF IInv
<1> QED
  BY <1>8, <1>9, <1>10, <1>11, <1>12, <1>13 DEF IInv

(* ReturnTable proposes to delete the node's own lease.                    *)
LEMMA ReturnOwnStep ==
  ASSUME IInv, TypeOK', NEW n \in Nodes, ReturnOwn(n)
  PROVE  IInv'
<1> DEFINE new == [id |-> proposals + 1, from |-> n, op |-> "delete",
                   key |-> LeaseKey, val |-> NoValue,
                   ver |-> return[n].get.ver]
<1>1. /\ inflight' = inflight \cup {new} /\ Stored' = Stored /\ now' = now
      /\ lease' = lease /\ leased' = leased /\ held' = held
      /\ return' = [return EXCEPT ![n] =
                      Routine("proposed", Absent, proposals + 1)]
      /\ given' = [given EXCEPT ![n] = IF @ < return[n].get.ver
                                       THEN return[n].get.ver ELSE @]
      /\ return[n].pc = "got" /\ return[n].get.ver # 0
      /\ return[n].get.val.ID = n
  BY DEF ReturnOwn, Propose, Stored
<1>2. /\ proposals \in Nat
      /\ \A i \in Nodes : /\ return[i].get.ver \in Nat
                          /\ lease[i].id \in 0..proposals
                          /\ lease[i].get.ver \in Nat /\ held[i].ver \in Nat
                          /\ given[i] \in Nat
      /\ \A m \in inflight : m.from \in Nodes /\ m.ver \in Nat
  BY Shapes DEF IInv
<1>3. given \in [Nodes -> 0..index] /\ return \in [Nodes -> Routines]
  BY DEF IInv, TypeOK
<1>4. given'[n] = IF given[n] < return[n].get.ver THEN return[n].get.ver
                  ELSE given[n]
  BY <1>1, <1>3
<1>5. \A i \in Nodes : /\ given'[i] \in Nat /\ given[i] <= given'[i]
                       /\ return[n].get.ver <= given'[n]
  BY <1>1, <1>2, <1>3, <1>4
<1>6. \A i \in Nodes : return'[i] = return[i] \/ return'[i].pc = "proposed"
  BY <1>1, <1>3 DEF Routine
<1>7. /\ new.op = "delete" /\ new.id = proposals + 1 /\ new.from = n
      /\ new.ver = return[n].get.ver
  OBVIOUS
<1> HIDE DEF new
<1>8. Justified(new, Stored, now, given'[n])
  <2>1. Fresh(return[n].get, Stored, now)
    BY <1>1 DEF IInv, ReadsFresh
  <2>2. new.ver = Stored.ver => Stored = return[n].get
    BY <1>1, <1>7, <2>1 DEF Fresh
  <2>3. new.ver = Stored.ver => Stored.val.ID = n
    BY <1>1, <2>2
  <2> QED
    BY <1>1, <1>5, <1>7, <2>3 DEF Justified
<1>9. ProposalsJustified'
  <2>1. \A m \in inflight : Justified(m, Stored, now, given'[m.from])
    BY <1>2, <1>5, GivenGrows DEF IInv, ProposalsJustified
  <2> QED
    BY <1>1, <1>7, <1>8, <2>1 DEF ProposalsJustified
<1>10. AnswersBacked'
  <2>1. \A i \in Nodes : lease[i].pc = "applied" =>
            AnswerBacked(i, lease[i].get, Stored, now, given'[i])
    BY <1>2, <1>5, GivenGrows DEF IInv, AnswersBacked, AnswerBacked
  <2> QED
    BY <1>1, <2>1 DEF AnswersBacked
<1>11. FlagsBacked'
  <2>1. \A i \in Nodes : leased[i] =>
            Backed(i, held[i].ver, held[i].until, Stored, now, given'[i])
    BY <1>2, <1>5, GivenGrows DEF IInv, FlagsBacked
  <2> QED
    BY <1>1, <2>1 DEF FlagsBacked
<1>12. AwaitsSet'
  BY <1>1, <1>2, <1>7 DEF IInv, AwaitsSet
<1>13. ReadsFresh'
  BY <1>1, <1>6 DEF IInv, ReadsFresh
<1>14. Sound(Stored, now)'
  BY <1>1 DEF IInv
<1> QED
  BY <1>9, <1>10, <1>11, <1>12, <1>13, <1>14 DEF IInv

(* The rest of the invariant is preserved by every action.                 *)
LEMMA InvStep == IInv /\ [Next]_vars => IInv'
<1> SUFFICES ASSUME IInv, [Next]_vars PROVE IInv'
  OBVIOUS
<1>0. TypeOK'
  BY TypeStep
<1>a. /\ lease \in [Nodes -> Routines] /\ return \in [Nodes -> Routines]
      /\ leased \in [Nodes -> BOOLEAN]
      /\ held \in [Nodes -> [ver : 0..index, until : Nat]]
  BY DEF IInv, TypeOK
<1>1. CASE Tick
  BY <1>0, <1>1, TickStep
<1>2. ASSUME NEW m \in inflight, Apply(m) PROVE IInv'
  BY <1>0, <1>2, ApplyStep
<1>3. ASSUME NEW n \in Nodes, LeaseClaim(n) PROVE IInv'
  BY <1>0, <1>3, ClaimStep
<1>4. ASSUME NEW n \in Nodes, ReturnOwn(n) PROVE IInv'
  BY <1>0, <1>4, ReturnOwnStep
<1>5. ASSUME NEW n \in Nodes, LeaseGet(n) PROVE IInv'
  <2>1. /\ now' = now /\ store' = store /\ inflight' = inflight /\ given' = given
        /\ return' = return /\ leased' = leased /\ held' = held
    BY <1>5 DEF LeaseGet
  <2>2. \A i \in Nodes : \/ lease'[i] = lease[i]
                         \/ lease'[i].pc = "got" /\ lease'[i].get = Stored
    BY <1>5, <1>a DEF LeaseGet, Routine, Get, Stored
  <2> QED
    BY <1>0, <2>1, <2>2, RoutineStep
<1>6. ASSUME NEW n \in Nodes, LeaseGetFails(n) PROVE IInv'
  <2>1. /\ now' = now /\ store' = store /\ inflight' = inflight /\ given' = given
        /\ lease' = lease /\ return' = return
    BY <1>6 DEF LeaseGetFails
  <2>2. \A i \in Nodes : leased'[i] => leased[i] /\ held'[i] = held[i]
    BY <1>6, <1>a DEF LeaseGetFails
  <2> QED
    BY <1>0, <2>1, <2>2, RoutineStep
<1>7. ASSUME NEW n \in Nodes, LeaseNotAcquired(n) PROVE IInv'
  <2>1. /\ now' = now /\ store' = store /\ inflight' = inflight /\ given' = given
        /\ return' = return
    BY <1>7 DEF LeaseNotAcquired
  <2>2. \A i \in Nodes : lease'[i] = lease[i] \/ lease'[i].pc = "idle"
    BY <1>7, <1>a DEF LeaseNotAcquired, At, Routine
  <2>3. \A i \in Nodes : leased'[i] => leased[i] /\ held'[i] = held[i]
    BY <1>7, <1>a DEF LeaseNotAcquired
  <2> QED
    BY <1>0, <2>1, <2>2, <2>3, RoutineStep
<1>8. ASSUME NEW n \in Nodes, LeaseAcquired(n) PROVE IInv'
  <2>1. /\ now' = now /\ store' = store /\ inflight' = inflight /\ given' = given
        /\ return' = return
    BY <1>8 DEF LeaseAcquired
  <2>2. \A i \in Nodes : lease'[i] = lease[i] \/ lease'[i].pc = "idle"
    BY <1>8, <1>a DEF LeaseAcquired, At, Routine
  <2>3. \A i \in Nodes : i # n => leased'[i] = leased[i] /\ held'[i] = held[i]
    BY <1>8, <1>a DEF LeaseAcquired
  <2>4. /\ held'[n].ver = lease[n].get.ver
        /\ held'[n].until = lease[n].get.val.Until
    BY <1>8, <1>a DEF LeaseAcquired
  <2>5. Backed(n, held'[n].ver, held'[n].until, Stored, now, given[n])
    BY <1>8, <2>4 DEF LeaseAcquired, IInv, AnswersBacked, AnswerBacked
  <2> QED
    BY <1>0, <2>1, <2>2, <2>3, <2>5, RoutineStep
<1>9. ASSUME NEW n \in Nodes, LeaseSetFails(n) PROVE IInv'
  <2>1. /\ now' = now /\ store' = store /\ inflight' = inflight /\ given' = given
        /\ return' = return
    BY <1>9 DEF LeaseSetFails
  <2>2. \A i \in Nodes : lease'[i] = lease[i] \/ lease'[i].pc = "idle"
    BY <1>9, <1>a DEF LeaseSetFails, At, Routine
  <2>3. \A i \in Nodes : leased'[i] => leased[i] /\ held'[i] = held[i]
    BY <1>9, <1>a DEF LeaseSetFails
  <2> QED
    BY <1>0, <2>1, <2>2, <2>3, RoutineStep
<1>10. ASSUME NEW n \in Nodes, DoBegin(n) PROVE IInv'
  <2>1. /\ now' = now /\ store' = store /\ inflight' = inflight /\ given' = given
        /\ lease' = lease /\ leased' = leased /\ held' = held
    BY <1>10 DEF DoBegin
  <2>2. \A i \in Nodes : return'[i] = return[i] \/ return'[i].pc # "got"
    BY <1>10, <1>a DEF DoBegin, At, Routine
  <2> QED
    BY <1>0, <2>1, <2>2, RoutineStep
<1>11. ASSUME NEW n \in Nodes, DoEnd(n) PROVE IInv'
  <2>1. /\ now' = now /\ store' = store /\ inflight' = inflight /\ given' = given
        /\ lease' = lease /\ leased' = leased /\ held' = held
    BY <1>11 DEF DoEnd
  <2>2. \A i \in Nodes : return'[i] = return[i] \/ return'[i].pc # "got"
    BY <1>11, <1>a DEF DoEnd, At, Routine
  <2> QED
    BY <1>0, <2>1, <2>2, RoutineStep
<1>12. ASSUME NEW n \in Nodes, ReturnGet(n) PROVE IInv'
  <2>1. /\ now' = now /\ store' = store /\ inflight' = inflight /\ given' = given
        /\ lease' = lease /\ leased' = leased /\ held' = held
    BY <1>12 DEF ReturnGet
  <2>2. \A i \in Nodes : \/ return'[i] = return[i]
                         \/ return'[i].pc = "got" /\ return'[i].get = Stored
    BY <1>12, <1>a DEF ReturnGet, Routine, Get, Stored
  <2> QED
    BY <1>0, <2>1, <2>2, RoutineStep
<1>13. ASSUME NEW n \in Nodes, ReturnNothing(n) PROVE IInv'
  <2>1. /\ now' = now /\ store' = store /\ inflight' = inflight /\ given' = given
        /\ lease' = lease /\ leased' = leased /\ held' = held
    BY <1>13 DEF ReturnNothing, ReturnEnd
  <2>2. \A i \in Nodes : return'[i] = return[i] \/ return'[i].pc # "got"
    BY <1>13, <1>a DEF ReturnNothing, At, Routine, ReturnEnd
  <2> QED
    BY <1>0, <2>1, <2>2, RoutineStep
<1>14. ASSUME NEW n \in Nodes, ReturnDone(n) PROVE IInv'
  <2>1. /\ now' = now /\ store' = store /\ inflight' = inflight /\ given' = given
        /\ lease' = lease /\ leased' = leased /\ held' = held
    BY <1>14 DEF ReturnDone, ReturnEnd
  <2>2. \A i \in Nodes : return'[i] = return[i] \/ return'[i].pc # "got"
    BY <1>14, <1>a DEF ReturnDone, At, Routine, ReturnEnd
  <2> QED
    BY <1>0, <2>1, <2>2, RoutineStep
<1>15. ASSUME NEW n \in Nodes, Close(n) PROVE IInv'
  <2>1. /\ now' = now /\ store' = store /\ inflight' = inflight /\ given' = given
        /\ lease' = lease /\ return' = return /\ leased' = leased /\ held' = held
    BY <1>15 DEF Close
  <2> QED
    BY <1>0, <2>1, RoutineStep
<1>16. ASSUME NEW n \in Nodes, StopLease(n) PROVE IInv'
  <2>1. /\ now' = now /\ store' = store /\ inflight' = inflight /\ given' = given
        /\ return' = return /\ leased' = leased /\ held' = held
    BY <1>16 DEF StopLease
  <2>2. \A i \in Nodes : lease'[i] = lease[i] \/ lease'[i].pc = "stopped"
    BY <1>16, <1>a DEF StopLease, At, Routine
  <2> QED
    BY <1>0, <2>1, <2>2, RoutineStep
<1>17. ASSUME NEW n \in Nodes, StopReplication(n) PROVE IInv'
  <2>1. /\ now' = now /\ store' = store /\ inflight' = inflight /\ given' = given
        /\ lease' = lease /\ leased' = leased /\ held' = held
    BY <1>17 DEF StopReplication
  <2>2. \A i \in Nodes : return'[i] = return[i] \/ return'[i].pc # "got"
    BY <1>17, <1>a DEF StopReplication, At, Routine
  <2> QED
    BY <1>0, <2>1, <2>2, RoutineStep
<1>18. ASSUME NEW n \in Nodes, CloseReturn(n) PROVE IInv'
  <2>1. /\ now' = now /\ store' = store /\ inflight' = inflight /\ given' = given
        /\ lease' = lease /\ leased' = leased /\ held' = held
    BY <1>18 DEF CloseReturn
  <2>2. \A i \in Nodes : \/ return'[i] = return[i]
                         \/ return'[i].pc = "got" /\ return'[i].get = Stored
    BY <1>18, <1>a DEF CloseReturn, Routine, Get, Stored
  <2> QED
    BY <1>0, <2>1, <2>2, RoutineStep
<1>19. ASSUME NEW n \in Nodes, CloseReturnFails(n) PROVE IInv'
  <2>1. /\ now' = now /\ store' = store /\ inflight' = inflight /\ given' = given
        /\ lease' = lease /\ return' = return /\ leased' = leased /\ held' = held
    BY <1>19 DEF CloseReturnFails
  <2> QED
    BY <1>0, <2>1, RoutineStep
<1>20. ASSUME NEW n \in Nodes, Restart(n) PROVE IInv'
  <2>1. /\ now' = now /\ store' = store /\ inflight' = inflight /\ given' = given
    BY <1>20 DEF Restart
  <2>2. \A i \in Nodes : lease'[i] = lease[i] \/ lease'[i].pc = "idle"
    BY <1>20, <1>a DEF Restart, At, Routine
  <2>3. \A i \in Nodes : return'[i] = return[i] \/ return'[i].pc # "got"
    BY <1>20, <1>a DEF Restart, At, Routine
  <2>4. \A i \in Nodes : leased'[i] => leased[i] /\ held'[i] = held[i]
    BY <1>20, <1>a DEF Restart
  <2> QED
    BY <1>0, <2>1, <2>2, <2>3, <2>4, RoutineStep
<1>21. CASE UNCHANGED vars
  BY <1>0, <1>21, RoutineStep DEF vars
<1> QED
  BY <1>1, <1>2, <1>3, <1>4, <1>5, <1>6, <1>7, <1>8, <1>9, <1>10, <1>11,
     <1>12, <1>13, <1>14, <1>15, <1>16, <1>17, <1>18, <1>19, <1>20, <1>21,
     Zenon DEF Next

-----------------------------------------------------------------------------

(* The state keeps its shape in every behaviour.                           *)
THEOREM TypeCorrect == Spec => []TypeOK
<1>1. IInv => TypeOK
  BY DEF IInv
<1> QED
  BY InitIInv, InvStep, <1>1, PTL DEF Spec

(* At most one node at a time has a lease it may rely on: acknowledged by  *)
(* LeaseTable, not expired and not given back by ReturnTable.              *)
THEOREM LeaseIsExclusive == Spec => []LeaseExclusive
<1>1. IInv => LeaseExclusive
  <2> SUFFICES ASSUME IInv, NEW i \in Nodes, NEW j \in Nodes,
                      Holds(i), Holds(j)
               PROVE  i = j
    BY DEF LeaseExclusive
  <2>1. \A n \in Nodes : Holds(n) => Stored.val.ID = n
    BY DEF IInv, FlagsBacked, Backed, Holds
  <2> QED
    BY <2>1
<1> QED
  BY InitIInv, InvStep, <1>1, PTL DEF Spec

(* An unexpired lease is replaced or removed only by its owner.            *)
THEOREM LeaseIsNeverStolen == Spec => LeaseNeverStolen
<1>1. IInv /\ [Next]_vars => [NotStolen]_vars
  <2> SUFFICES ASSUME IInv, Next PROVE NotStolen \/ UNCHANGED vars
    OBVIOUS
  <2>1. ASSUME NEW m \in inflight, Apply(m) PROVE NotStolen
    <3>1. Justified(m, Stored, now, given[m.from]) /\ m.key = LeaseKey /\ m.from \in Nodes
          /\ m.ver \in Nat /\ m.op \in {"set", "delete"}
      BY DEF IInv, ProposalsJustified, TypeOK
    <3>2. Sound(Stored, now) /\ now \in Nat /\ index \in Nat
          /\ store \in [{LeaseKey} -> Pairs]
          /\ given \in [Nodes -> 0..index]
      BY DEF IInv, TypeOK
    <3>3. CASE Stored' = Stored
      BY <3>2, <3>3 DEF NotStolen
    <3>a. Stored.ver # 0 /\ ~VersionMismatch(store, m) => m.ver = Stored.ver
      BY <3>1 DEF VersionMismatch, Exists, Stored
    <3>b. Stored.ver \in Nat /\ (Stored.ver # 0 => Stored.val.Until \in Nat)
      BY <3>2 DEF Sound, Stored, Pairs, Leases
    <3>4. CASE ~VersionMismatch(store, m) /\ m.op = "set"
      <4>1. Stored' = [ver |-> index + 1, val |-> m.val]
        BY <2>1, <3>1, <3>2, <3>4 DEF Apply, Update, Set, Stored
      <4>2. Stored'.ver # 0 /\ Stored'.val = m.val
        BY <3>2, <4>1
      <4>3. Stored.ver # 0 => /\ m.val.ID = m.from
                              /\ \/ Stored.val.ID = m.from
                                 \/ Stored.val.Until < now
        BY <3>1, <3>4, <3>a DEF Justified
      <4> QED
        BY <4>2, <4>3 DEF NotStolen
    <3>5. CASE ~VersionMismatch(store, m) /\ m.op = "delete"
      <4>1. Stored.ver # 0 => /\ m.ver = Stored.ver
                              /\ m.ver <= given[m.from]
                              /\ Stored.val.ID = m.from
        BY <3>1, <3>5, <3>a DEF Justified
      <4>2. given[m.from] \in Nat
        BY <3>1, <3>2
      <4>3. Stored.ver # 0 => given[Stored.val.ID] >= Stored.ver
        BY <3>b, <4>1, <4>2
      <4> QED
        BY <4>3 DEF NotStolen
    <3> QED
      BY <2>1, <3>1, <3>3, <3>4, <3>5 DEF Apply, Update, Stored
  <2>2. ASSUME store' = store PROVE NotStolen
    BY <2>2 DEF Stored, NotStolen
  <2> QED
    BY <2>1, <2>2, Zenon
       DEF Next, Tick, LeaseGet, LeaseGetFails, LeaseClaim, LeaseNotAcquired,
           LeaseAcquired, LeaseSetFails, DoBegin, DoEnd, ReturnGet, ReturnOwn,
           ReturnNothing, ReturnDone, Close, StopLease, StopReplication,
           CloseReturn, CloseReturnFails, Restart
<1> QED
  BY InitIInv, InvStep, <1>1, PTL DEF Spec, LeaseNeverStolen
=============================================================================
