-------------------------- MODULE LogServerProofs ---------------------------
(***************************************************************************)
(* Proofs about LogServer, for every cache size, message size, number of   *)
(* followers and length of the log.                                        *)
(***************************************************************************)
EXTENDS LogServer, SequenceTheorems, WellFoundedInduction, TLAPS

(* The provers, in this order, and their time limits in seconds.           *)
USE ZenonT(5), SMTT(30)

LogEntry == [Index : Nat, Size : Sizes]

(* s is the run of the log's entries that starts at index lo.              *)
IsRun(s, lo) ==
    /\ s \in Seq(LogEntry)
    /\ lo \in Nat \ {0}
    /\ lo + Len(s) <= Len(log) + 1
    /\ \A i \in 1..Len(s) : s[i] = Entry(lo + i - 1)

(* The entries of a run are numbered consecutively.                        *)
LEMMA RunIndex ==
  ASSUME NEW s, NEW lo, IsRun(s, lo), NEW i \in 1..Len(s)
  PROVE  s[i].Index = lo + i - 1
<1>1. s[i] = Entry(lo + i - 1)
  BY DEF IsRun
<1> QED
  BY <1>1 DEF Entry

-----------------------------------------------------------------------------
(* The operators of LogCache.                                              *)

(* A non-empty set of naturals has a least element, which Least chooses.   *)
LEMMA LeastIsLeast ==
  ASSUME NEW S \in SUBSET Nat, S # {}
  PROVE  Least(S) \in S /\ \A j \in S : Least(S) <= j
<1>1. \E x \in S : \A y \in S : ~(<<y, x>> \in OpToRel(<, Nat))
  BY NatLessThanWellFounded, WFMin, Zenon
<1>2. \A x, y \in Nat : y < x => <<y, x>> \in OpToRel(<, Nat)
  BY Zenon DEF OpToRel
<1>3. \E x \in S : \A y \in S : ~(y < x)
  <2>1. PICK x \in S : \A y \in S : ~(<<y, x>> \in OpToRel(<, Nat))
    BY <1>1, Zenon
  <2> QED
    BY <1>2, <2>1, Zenon
<1>4. \E x \in S : \A y \in S : x <= y
  BY <1>3
<1> QED
  BY <1>4, Zenon DEF Least

(* In a run, FindIndex computes the position from the index.               *)
LEMMA FindIndexInRun ==
  ASSUME NEW s, NEW lo, IsRun(s, lo), NEW idx \in Nat
  PROVE  FindIndex(s, idx) = IF lo + Len(s) <= idx THEN Len(s) + 1
                             ELSE IF idx <= lo THEN 1 ELSE idx - lo + 1
<1> DEFINE found == {i \in 1..Len(s) : s[i].Index >= idx}
<1>1. Len(s) \in Nat /\ lo \in Nat \ {0}
  BY LenProperties DEF IsRun
<1>2. \A i \in 1..Len(s) : s[i].Index = lo + i - 1
  BY <1>1, RunIndex
<1>3. found = {i \in 1..Len(s) : lo + i - 1 >= idx}
  BY <1>2
<1>4. CASE lo + Len(s) <= idx
  <2>1. found = {}
    BY <1>1, <1>3, <1>4
  <2> QED
    BY <1>4, <2>1 DEF FindIndex
<1>5. CASE ~(lo + Len(s) <= idx) /\ Len(s) = 0
  <2>1. found = {}
    BY <1>5
  <2>2. FindIndex(s, idx) = 1 /\ idx <= lo
    BY <1>1, <1>5, <2>1 DEF FindIndex
  <2> QED
    BY <1>5, <2>2
<1>6. CASE ~(lo + Len(s) <= idx) /\ Len(s) # 0
  <2> DEFINE p == IF idx <= lo THEN 1 ELSE idx - lo + 1
  <2>1. p \in found /\ \A j \in found : p <= j
    <3>1. p \in 1..Len(s) /\ lo + p - 1 >= idx
      BY <1>1, <1>6
    <3>2. \A j \in 1..Len(s) : lo + j - 1 >= idx => p <= j
      BY <1>1, <1>6
    <3> QED
      BY <1>3, <3>1, <3>2
  <2>2. found \in SUBSET Nat /\ found # {}
    BY <1>1, <2>1
  <2>3. Least(found) \in found /\ \A j \in found : Least(found) <= j
    BY <2>2, LeastIsLeast, Zenon
  <2>4. Least(found) = p
    <3>1. Least(found) <= p /\ p <= Least(found)
      BY <2>1, <2>3
    <3>2. Least(found) \in Nat /\ p \in Nat
      BY <2>1, <2>2, <2>3
    <3> HIDE DEF found, p
    <3> QED
      BY <3>1, <3>2
  <2>5. FindIndex(s, idx) = Least(found)
    BY <2>2 DEF FindIndex
  <2> QED
    BY <1>6, <2>4, <2>5
<1> QED
  BY <1>4, <1>5, <1>6

(* A piece of a run is a run.                                              *)
LEMMA SubRun ==
  ASSUME NEW s, NEW lo, IsRun(s, lo),
         NEW m \in 1..(Len(s) + 1), NEW n \in (m - 1)..Len(s)
  PROVE  /\ IsRun(SubSeq(s, m, n), lo + m - 1)
         /\ Len(SubSeq(s, m, n)) = n - m + 1
<1>1. Len(s) \in Nat /\ lo \in Nat \ {0} /\ s \in Seq(LogEntry)
      /\ lo + Len(s) <= Len(log) + 1
  BY LenProperties DEF IsRun
<1>2. m \in Int /\ n \in Int /\ m \in Nat \ {0} /\ n \in Nat
  BY <1>1
<1>3. \A i \in m..n : s[i] \in LogEntry
  BY <1>1, <1>2, ElementOfSeq
<1>4. /\ SubSeq(s, m, n) \in Seq(LogEntry)
      /\ Len(SubSeq(s, m, n)) = IF m <= n THEN n - m + 1 ELSE 0
      /\ \A i \in 1..(n - m + 1) : SubSeq(s, m, n)[i] = s[m + i - 1]
  BY <1>2, <1>3, SubSeqProperties
<1>5. Len(SubSeq(s, m, n)) = n - m + 1
  BY <1>1, <1>2, <1>4
<1>6. \A i \in 1..(n - m + 1) : s[m + i - 1] = Entry(lo + (m + i - 1) - 1)
  BY <1>1, <1>2 DEF IsRun
<1>7. \A i \in 1..(n - m + 1) :
         lo + (m + i - 1) - 1 = (lo + m - 1) + i - 1
  BY <1>1, <1>2
<1>8. lo + m - 1 \in Nat \ {0} /\ (lo + m - 1) + (n - m + 1) <= Len(log) + 1
  <2>1. (lo + m - 1) + (n - m + 1) = lo + n /\ n <= Len(s)
    BY <1>1, <1>2
  <2>2. log \in Seq(Sizes) => Len(log) \in Nat
    BY LenProperties
  <2> QED
    BY <1>1, <1>2, <2>1
<1> QED
  BY <1>4, <1>5, <1>6, <1>7, <1>8 DEF IsRun

(* Two adjacent runs make a run.                                           *)
LEMMA ConcatRuns ==
  ASSUME NEW s, NEW t, NEW lo, IsRun(s, lo), IsRun(t, lo + Len(s))
  PROVE  IsRun(s \o t, lo) /\ Len(s \o t) = Len(s) + Len(t)
<1>1. /\ Len(s) \in Nat /\ Len(t) \in Nat /\ lo \in Nat \ {0}
      /\ s \in Seq(LogEntry) /\ t \in Seq(LogEntry)
      /\ lo + Len(s) + Len(t) <= Len(log) + 1
  BY LenProperties DEF IsRun
<1>2. /\ s \o t \in Seq(LogEntry) /\ Len(s \o t) = Len(s) + Len(t)
      /\ \A i \in 1..(Len(s) + Len(t)) :
            (s \o t)[i] = IF i <= Len(s) THEN s[i] ELSE t[i - Len(s)]
  BY <1>1, ConcatProperties
<1>3. ASSUME NEW i \in 1..(Len(s) + Len(t))
      PROVE  (s \o t)[i] = Entry(lo + i - 1)
  <2>1. CASE i <= Len(s)
    BY <1>1, <1>2, <2>1 DEF IsRun
  <2>2. CASE ~(i <= Len(s))
    <3>1. i - Len(s) \in 1..Len(t)
          /\ (lo + Len(s)) + (i - Len(s)) - 1 = lo + i - 1
      BY <1>1, <2>2
    <3>2. t[i - Len(s)] = Entry((lo + Len(s)) + (i - Len(s)) - 1)
      BY <3>1 DEF IsRun
    <3> QED
      BY <1>2, <2>2, <3>1, <3>2
  <2> QED
    BY <2>1, <2>2
<1>4. lo + (Len(s) + Len(t)) <= Len(log) + 1
  BY <1>1
<1> QED
  BY <1>1, <1>2, <1>3, <1>4 DEF IsRun

(* fixSize returns a prefix.                                               *)
LEMMA FixSizePrefix ==
  ASSUME NEW s, NEW lo, IsRun(s, lo)
  PROVE  IsRun(FixSize(s), lo) /\ Len(FixSize(s)) \in 0..Len(s)
<1> DEFINE over == {i \in 1..Len(s) : SizeOf(s, i) >= MaxSize}
<1>1. Len(s) \in Nat /\ lo \in Nat \ {0}
  BY LenProperties DEF IsRun
<1>2. CASE over = {}
  BY <1>1, <1>2 DEF FixSize
<1>3. CASE over # {}
  <2>1. over \in SUBSET Nat
    BY <1>1
  <2>2. Least(over) \in 1..Len(s)
    <3>1. Least(over) \in over
      BY <1>3, <2>1, LeastIsLeast
    <3> QED
      BY <3>1
  <2> DEFINE n == Least(over) - 1
  <2>3. n \in 0..Len(s) /\ 1 \in 1..(Len(s) + 1)
    BY <1>1, <2>2
  <2>4. FixSize(s) = SubSeq(s, 1, n)
    BY <1>3, Zenon DEF FixSize
  <2> HIDE DEF n
  <2>5. IsRun(SubSeq(s, 1, n), lo + 1 - 1) /\ Len(SubSeq(s, 1, n)) = n - 1 + 1
    BY <2>3, SubRun
  <2>6. lo + 1 - 1 = lo /\ n - 1 + 1 = n
    BY <1>1, <2>3
  <2> QED
    BY <2>3, <2>4, <2>5, <2>6
<1> QED
  BY <1>2, <1>3

(* The cache is a run, and no longer than CacheSize.                       *)
RunWithin(buf) == \E lo : IsRun(buf, lo) /\ Len(buf) <= CacheSize

(* Newest keeps a run: the newest entries of a run of the log are a run    *)
(* that ends where it ended.                                               *)
LEMMA NewestOfRun ==
  ASSUME NEW e, NEW lo, IsRun(e, lo), e # <<>>
  PROVE  /\ Newest(e) # <<>>
         /\ Len(Newest(e)) = IF Len(e) > CacheSize THEN CacheSize ELSE Len(e)
         /\ IsRun(Newest(e), lo + (Len(e) - Len(Newest(e))))
<1>1. Len(e) \in Nat \ {0} /\ lo \in Nat \ {0} /\ CacheSize \in Nat \ {0}
  BY LenProperties, EmptySeq, CacheAssumption DEF IsRun
<1>2. CASE Len(e) > CacheSize
  <2> DEFINE m == Len(e) - CacheSize + 1
  <2>1. m \in 1..(Len(e) + 1) /\ Len(e) \in (m - 1)..Len(e)
    BY <1>1, <1>2
  <2>2. Newest(e) = SubSeq(e, m, Len(e))
    BY <1>2, Zenon DEF Newest
  <2>3. IsRun(SubSeq(e, m, Len(e)), lo + m - 1)
        /\ Len(SubSeq(e, m, Len(e))) = Len(e) - m + 1
    BY <2>1, SubRun
  <2>4. Len(e) - m + 1 = CacheSize /\ lo + m - 1 = lo + (Len(e) - CacheSize)
    BY <1>1
  <2>5. Newest(e) # <<>>
    BY <1>1, <2>2, <2>3, <2>4, EmptySeq, Zenon
  <2> QED
    BY <1>2, <2>2, <2>3, <2>4, <2>5, Zenon
<1>3. CASE ~(Len(e) > CacheSize)
  <2>1. Newest(e) = e /\ lo + (Len(e) - Len(e)) = lo
    BY <1>1, <1>3 DEF Newest
  <2> QED
    BY <1>3, <2>1
<1> QED
  BY <1>2, <1>3

(* Appending the run that follows the cache leaves a run within the size,  *)
(* whatever is evicted.                                                    *)
LEMMA MakeRoomRun ==
  ASSUME NEW b, NEW e, NEW lo, IsRun(b, lo), IsRun(e, lo + Len(b)),
         Len(b) <= CacheSize, Len(e) <= CacheSize
  PROVE  RunWithin(MakeRoomAndAppend(b, e))
<1>1. Len(b) \in Nat /\ Len(e) \in Nat /\ lo \in Nat \ {0} /\ CacheSize \in Nat
  BY LenProperties, CacheAssumption DEF IsRun
<1> DEFINE excess == Len(b) + Len(e) - CacheSize
<1>2. CASE excess > 0
  <2> DEFINE kept == SubSeq(b, excess + 1, Len(b))
             start == lo + (excess + 1) - 1
  <2>1. excess + 1 \in 1..(Len(b) + 1) /\ Len(b) \in ((excess + 1) - 1)..Len(b)
    BY <1>1, <1>2
  <2>2. IsRun(kept, start) /\ Len(kept) = Len(b) - (excess + 1) + 1
    BY <2>1, SubRun
  <2>4. MakeRoomAndAppend(b, e) = kept \o e
    BY <1>2, Zenon DEF MakeRoomAndAppend
  <2> HIDE DEF kept
  <2>3. start + Len(kept) = lo + Len(b) /\ Len(kept) + Len(e) = CacheSize
    BY <1>1, <2>2
  <2> HIDE DEF start
  <2>5. IsRun(kept \o e, start) /\ Len(kept \o e) = Len(kept) + Len(e)
    BY <2>2, <2>3, ConcatRuns
  <2> QED
    BY <1>1, <2>3, <2>4, <2>5 DEF RunWithin
<1>3. CASE ~(excess > 0)
  <2>1. MakeRoomAndAppend(b, e) = b \o e
    BY <1>3 DEF MakeRoomAndAppend
  <2>2. IsRun(b \o e, lo) /\ Len(b \o e) = Len(b) + Len(e)
    BY ConcatRuns
  <2> QED
    BY <1>1, <1>3, <2>1, <2>2 DEF RunWithin
<1> QED
  BY <1>2, <1>3

(* Appending CacheSize entries replaces the cache.                         *)
LEMMA MakeRoomReplaces ==
  ASSUME NEW b, NEW e, NEW lo, IsRun(b, lo), NEW lo2, IsRun(e, lo2),
         Len(e) = CacheSize
  PROVE  MakeRoomAndAppend(b, e) = e
<1>1. Len(b) \in Nat /\ CacheSize \in Nat /\ b \in Seq(LogEntry)
      /\ e \in Seq(LogEntry)
  BY LenProperties, CacheAssumption DEF IsRun
<1>2. <<>> \o e = e
  BY <1>1, ConcatEmptySeq
<1>3. Len(b) + Len(e) - CacheSize = Len(b)
  BY <1>1
<1>4. CASE Len(b) > 0
  <2>1. SubSeq(b, Len(b) + 1, Len(b)) = <<>>
    BY <1>1, SubSeqEmpty
  <2> QED
    BY <1>2, <1>3, <1>4, <2>1, Zenon DEF MakeRoomAndAppend
<1>5. CASE ~(Len(b) > 0)
  <2>1. b = <<>>
    BY <1>1, <1>5, EmptySeq
  <2> QED
    BY <1>2, <1>3, <1>5, <2>1, Zenon DEF MakeRoomAndAppend
<1> QED
  BY <1>4, <1>5

(* largestIndex of a run is the index of its last entry.                   *)
LEMMA LargestOfRun ==
  ASSUME NEW b, NEW lo, IsRun(b, lo), b # <<>>
  PROVE  /\ LargestIndex(b) = lo + Len(b) - 1 /\ SmallestIndex(b) = lo
         /\ Len(b) \in Nat \ {0} /\ lo \in Nat \ {0}
<1>1. Len(b) \in Nat \ {0} /\ lo \in Nat \ {0}
  BY EmptySeq DEF IsRun
<1>2. 1 \in 1..Len(b) /\ Len(b) \in 1..Len(b)
  BY <1>1
<1>3. b[Len(b)].Index = lo + Len(b) - 1 /\ b[1].Index = lo + 1 - 1
  BY <1>2, RunIndex, Zenon
<1> QED
  BY <1>1, <1>3 DEF LargestIndex, SmallestIndex

(* cache.put of a run that starts the cache or follows it keeps a run.     *)
LEMMA PutRun ==
  ASSUME NEW b, NEW lo, IsRun(b, lo), Len(b) <= CacheSize,
         NEW e, NEW lo2, IsRun(e, lo2), e # <<>>,
         b # <<>> => lo2 = lo + Len(b)
  PROVE  RunWithin(Put(b, e))
<1> DEFINE new == Newest(e)
           start == lo2 + (Len(e) - Len(new))
<1>1. /\ new # <<>> /\ IsRun(new, start)
      /\ Len(new) = IF Len(e) > CacheSize THEN CacheSize ELSE Len(e)
  BY NewestOfRun
<1>2. /\ Len(e) \in Nat \ {0} /\ CacheSize \in Nat \ {0} /\ lo2 \in Nat \ {0}
      /\ Len(b) \in Nat
  BY EmptySeq, LenProperties, CacheAssumption DEF IsRun
<1>0. Newest(e) = new
  OBVIOUS
<1> HIDE DEF new
<1>3. Len(new) \in Nat \ {0} /\ Len(new) <= CacheSize
  BY <1>1, <1>2
<1>4. IsRun(new, start) /\ start \in Nat \ {0}
  BY <1>1 DEF IsRun
<1>5. CASE b = <<>>
  <2>1. Put(b, e) = MakeRoomAndAppend(<<>>, new)
    BY <1>5 DEF Put, LargestIndex, new
  <2>2. Len(<<>>) = 0 /\ <<>> \o new = new
    BY <1>4, ConcatEmptySeq, EmptySeq DEF IsRun
  <2>3. ~(Len(<<>>) + Len(new) - CacheSize > 0)
    BY <1>2, <1>3, <2>2
  <2>4. Put(b, e) = new
    BY <2>1, <2>2, <2>3 DEF MakeRoomAndAppend
  <2> QED
    BY <1>3, <1>4, <2>4 DEF RunWithin
<1>6. CASE b # <<>>
  <2>1. LargestIndex(b) = lo + Len(b) - 1 /\ LargestIndex(b) # 0
        /\ lo \in Nat \ {0} /\ lo2 = lo + Len(b)
    BY <1>2, <1>6, LargestOfRun
  <2>2. start >= LargestIndex(b) + 1
    BY <1>1, <1>2, <1>3, <2>1
  <2>3. FindIndex(new, LargestIndex(b) + 1) = 1
    <3>1. LargestIndex(b) + 1 \in Nat
      BY <1>2, <2>1
    <3>2. FindIndex(new, LargestIndex(b) + 1) =
            IF start + Len(new) <= LargestIndex(b) + 1 THEN Len(new) + 1
            ELSE IF LargestIndex(b) + 1 <= start THEN 1
            ELSE (LargestIndex(b) + 1) - start + 1
      BY <1>4, <3>1, FindIndexInRun
    <3> HIDE DEF start
    <3> QED
      BY <1>3, <1>4, <2>2, <3>1, <3>2
  <2>4. SubSeq(new, 1, Len(new)) = new
    BY <1>4, SubSeqFull DEF IsRun
  <2>5. Put(b, e) = MakeRoomAndAppend(b, new)
    <3>1. ~(1 > Len(new))
      BY <1>3
    <3> QED
      BY <1>0, <2>1, <2>3, <2>4, <3>1, Zenon DEF Put
  <2>6. CASE Len(e) > CacheSize
    <3>1. MakeRoomAndAppend(b, new) = new
      BY <1>1, <2>6, MakeRoomReplaces, Zenon
    <3> QED
      BY <1>3, <1>4, <2>5, <3>1 DEF RunWithin
  <2>7. CASE ~(Len(e) > CacheSize)
    <3>1. start = lo + Len(b)
      BY <1>1, <1>2, <2>1, <2>7
    <3>2. IsRun(new, lo + Len(b))
      BY <1>4, <3>1
    <3>3. RunWithin(MakeRoomAndAppend(b, new))
      BY <1>3, <3>2, MakeRoomRun
    <3> QED
      BY <2>5, <3>3
  <2> QED
    BY <2>6, <2>7
<1> QED
  BY <1>5, <1>6

-----------------------------------------------------------------------------
(* Queries.                                                                *)

(* What the log reader holds for a range is a run that starts at the       *)
(* first index of the range and fills it.                                  *)
LEMMA EntriesRun ==
  ASSUME log \in Seq(Sizes), NEW lo \in Nat \ {0}, NEW hi \in Nat,
         lo <= hi, hi <= Len(log) + 1
  PROVE  IsRun(Entries(lo, hi), lo) /\ Len(Entries(lo, hi)) = hi - lo
<1>1. Len(log) \in Nat /\ \A i \in 1..Len(log) : log[i] \in Sizes
  BY LenProperties, ElementOfSeq
<1>2. \A i \in 1..(hi - lo) : Entry(lo + i - 1) \in LogEntry
  BY <1>1 DEF Entry, LogEntry
<1>3. hi - lo \in Nat
  OBVIOUS
<1>4. Entries(lo, hi) \in [1..(hi - lo) -> LogEntry]
  BY <1>2, Zenon DEF Entries
<1>5. Entries(lo, hi) \in Seq(LogEntry)
  BY <1>3, <1>4, SeqDef
<1>6. Len(Entries(lo, hi)) = hi - lo
  <2>1. DOMAIN Entries(lo, hi) = 1..(hi - lo)
    BY DEF Entries
  <2> QED
    BY <1>3, <1>5, <2>1, LenProperties
<1>7. \A i \in 1..(hi - lo) : Entries(lo, hi)[i] = Entry(lo + i - 1)
  BY DEF Entries
<1>8. lo + (hi - lo) <= Len(log) + 1
  BY <1>1
<1> QED
  BY <1>5, <1>6, <1>7, <1>8 DEF IsRun

(* The fields of the records that the reads return.                        *)
LEMMA ReadFields ==
  ASSUME NEW r, NEW x, NEW y, r = [err |-> x, entries |-> y]
  PROVE  r.err = x /\ r.entries = y
OBVIOUS

(* The fields of what cache.get returns.                                   *)
LEMMA GetFields ==
  ASSUME NEW r, NEW x, NEW y, NEW z,
         r = [entries |-> x, prepend |-> y, append |-> z]
  PROVE  r.entries = x /\ r.prepend = y /\ r.append = z
OBVIOUS

(* The fields of a range of the log.                                       *)
LEMMA RangeFields ==
  ASSUME NEW r, NEW x, NEW y, r = [lo |-> x, hi |-> y]
  PROVE  r.lo = x /\ r.hi = y
OBVIOUS

(* readLog of a range the leader has applied returns its beginning, or the *)
(* range has been compacted, or the shard is gone.                         *)
LEMMA ReadLogRun ==
  ASSUME log \in Seq(Sizes), NEW lo \in Nat \ {0}, NEW hi \in Nat,
         lo < hi, hi <= Len(log) + 1, NEW k \in Nat \ {0},
         NEW r, r = ReadLog(lo, hi, k)
  PROVE  /\ r.err \in {"", "ahead", "unknown"}
         /\ r.err = "ahead" => lo < first
         /\ r.err = "unknown" => deleted
         /\ r.err = "" =>
              /\ IsRun(r.entries, lo)
              /\ r.entries # <<>>
              /\ lo + Len(r.entries) <= hi
<1>1. Len(log) \in Nat
  BY LenProperties
<1>2. Len(log) + 1 # lo /\ ~(Len(log) < lo)
  BY <1>1
<1>3. CASE deleted \/ lo < first
  BY <1>2, <1>3, Zenon DEF ReadLog
<1>4. CASE ~deleted /\ ~(lo < first)
  <2> DEFINE h == IF lo + k < hi THEN lo + k ELSE hi
  <2>1. h \in Nat /\ lo < h /\ lo <= h /\ h <= hi /\ h <= Len(log) + 1
    BY <1>1
  <2>2. ReadLog(lo, hi, k) = [err |-> "", entries |-> Entries(lo, h)]
    BY <1>2, <1>4, Zenon DEF ReadLog
  <2> HIDE DEF h
  <2>3. IsRun(Entries(lo, h), lo) /\ Len(Entries(lo, h)) = h - lo
    BY <2>1, EntriesRun
  <2>4. Entries(lo, h) # <<>>
    <3>1. Len(<<>>) = 0 /\ h - lo # 0
      BY <2>1
    <3> QED
      BY <2>3, <3>1
  <2>5. lo + (h - lo) <= hi
    BY <2>1
  <2>6. /\ r.err = ""
        /\ r.entries = Entries(lo, h)
    BY <2>2, ReadFields, Zenon
  <2> QED
    BY <2>3, <2>4, <2>5, <2>6, Zenon
<1> QED
  BY <1>3, <1>4, Zenon

(* What a query returns and what it leaves in the cache.                   *)
QueryOK(q, lo, hi) ==
    /\ q.err \in {"", "ahead", "unknown"}
    /\ q.err = "ahead" => lo < first
    /\ q.err # "" => q.entries = <<>>
    /\ IsRun(q.entries, lo) /\ lo + Len(q.entries) <= hi
    /\ RunWithin(q.buf)

(* A query that returns no entries and an error that is true of the log    *)
(* is correct.                                                             *)
LEMMA QueryFails ==
  ASSUME NEW err, NEW b, NEW lo, NEW hi,
         err \in {"", "unknown"} \/ (err = "ahead" /\ lo < first),
         IsRun(<<>>, lo), lo + Len(<<>>) <= hi, RunWithin(b)
  PROVE  QueryOK(Result(err, <<>>, b), lo, hi)
<1>1. /\ Result(err, <<>>, b).err = err
      /\ Result(err, <<>>, b).entries = <<>>
      /\ Result(err, <<>>, b).buf = b
  BY Zenon DEF Result
<1>2. err \in {"", "ahead", "unknown"} /\ (err = "ahead" => lo < first)
  BY Zenon
<1> QED
  BY <1>1, <1>2, Zenon DEF QueryOK

(* A query that returns a run from the start of the range is correct.      *)
LEMMA QuerySucceeds ==
  ASSUME NEW e, NEW b, NEW lo, NEW hi,
         IsRun(e, lo), lo + Len(e) <= hi, RunWithin(b)
  PROVE  QueryOK(Result("", e, b), lo, hi)
<1>1. /\ Result("", e, b).err = ""
      /\ Result("", e, b).entries = e
      /\ Result("", e, b).buf = b
  BY Zenon DEF Result
<1> QED
  BY <1>1, Zenon DEF QueryOK

(* No entries at all are a run.                                            *)
LEMMA EmptyRun ==
  ASSUME log \in Seq(Sizes), NEW lo \in Nat \ {0}, lo <= Len(log) + 1
  PROVE  IsRun(<<>>, lo) /\ Len(<<>>) = 0
<1>1. <<>> \in Seq(LogEntry) /\ Len(<<>>) = 0 /\ Len(log) \in Nat
  BY EmptySeq, LenProperties
<1> QED
  BY <1>1 DEF IsRun

(* QueryRaftLog keeps the cache a run of the log and returns a run that    *)
(* starts where the range starts, or an error that is true of the log.     *)
LEMMA QueryCorrect ==
  ASSUME log \in Seq(Sizes), RunWithin(cache),
         NEW lo \in Nat \ {0}, NEW hi \in Nat, lo <= hi,
         hi <= Len(log) + 1, NEW k \in Nat \ {0}, first \in Nat,
         NEW q, q = QueryRaftLog(lo, hi, k)
  PROVE  QueryOK(q, lo, hi)
<1> DEFINE get == CacheGet(cache, lo, hi)
           pre == ReadLog(get.prepend.lo, get.prepend.hi, k)
           app == ReadLog(get.append.lo, get.append.hi, k)
           range == [lo |-> lo, hi |-> hi]
<1>0. q =
        IF lo = hi THEN Result("", <<>>, cache)
        ELSE IF ~ready THEN Result("unknown", <<>>, cache)
        ELSE IF get.prepend # NoRange
        THEN IF pre.err # "" THEN Result(pre.err, <<>>, cache)
             ELSE QueryPrepend(get.entries, pre.entries)
        ELSE IF get.append # NoRange
        THEN IF app.err # "" THEN Result(app.err, <<>>, cache)
             ELSE QueryAppend(get.entries, app.entries)
        ELSE Result("", FixSize(get.entries), cache)
  BY Zenon DEF QueryRaftLog
<1> HIDE DEF get, pre, app
<1>1. Len(log) \in Nat
  BY LenProperties
<1>2. PICK c : IsRun(cache, c) /\ Len(cache) <= CacheSize
  BY DEF RunWithin
<1>3. IsRun(<<>>, lo) /\ lo + Len(<<>>) <= hi
  <2>1. IsRun(<<>>, lo) /\ Len(<<>>) = 0
    BY <1>1, EmptyRun
  <2> QED
    BY <2>1
<1>4. \A err : err \in {"", "unknown"} \/ (err = "ahead" /\ lo < first)
               => (q = Result(err, <<>>, cache) => QueryOK(q, lo, hi))
  <2> TAKE err
  <2>1. HAVE err \in {"", "unknown"} \/ (err = "ahead" /\ lo < first)
  <2>2. HAVE q = Result(err, <<>>, cache)
  <2> QED
    BY <1>3, <2>1, <2>2, QueryFails, Zenon
<1>5. CASE lo = hi
  BY <1>0, <1>4, <1>5, Zenon
<1>6. CASE lo # hi /\ ~ready
  BY <1>0, <1>4, <1>6, Zenon
<1>7. ASSUME lo < hi, ready, cache = <<>> \/ SmallestIndex(cache) > hi
      PROVE  QueryOK(q, lo, hi)
  <2>1. get = [entries |-> <<>>, prepend |-> range, append |-> NoRange]
    BY <1>7 DEF CacheGet, get
  <2>2. get.prepend # NoRange /\ get.entries = <<>>
        /\ get.prepend.lo = lo /\ get.prepend.hi = hi
    BY <2>1, GetFields, RangeFields DEF NoRange
  <2> DEFINE r == ReadLog(lo, hi, k)
  <2>3. q =
          IF r.err # "" THEN Result(r.err, <<>>, cache)
          ELSE QueryPrepend(<<>>, r.entries)
    <3>1. pre = r /\ lo # hi
      BY <1>7, <2>2 DEF pre
    <3> HIDE DEF r
    <3> QED
      BY <1>0, <1>7, <2>2, <3>1, Zenon
  <2>4. /\ r.err \in {"", "ahead", "unknown"}
        /\ r.err = "ahead" => lo < first
        /\ r.err = "" => /\ IsRun(r.entries, lo) /\ r.entries # <<>>
                         /\ lo + Len(r.entries) <= hi
    BY <1>7, ReadLogRun, Zenon
  <2> HIDE DEF r
  <2>5. CASE r.err # ""
    BY <1>4, <2>3, <2>4, <2>5, Zenon
  <2>6. CASE r.err = ""
    <3>1. RunWithin(IF cache = <<>> THEN Put(cache, r.entries) ELSE cache)
      BY <1>2, <2>4, <2>6, PutRun, Zenon
    <3>2. q =
            Result("", r.entries,
                   IF cache = <<>> THEN Put(cache, r.entries) ELSE cache)
      BY <2>3, <2>4, <2>6, Zenon DEF QueryPrepend
    <3> QED
      BY <2>4, <2>6, <3>1, <3>2, QuerySucceeds, Zenon
  <2> QED
    BY <2>5, <2>6, Zenon
<1>8. ASSUME lo < hi, ready, cache # <<>>, ~(SmallestIndex(cache) > hi),
             LargestIndex(cache) < lo
      PROVE  QueryOK(q, lo, hi)
  <2>1. get = [entries |-> <<>>, prepend |-> NoRange, append |-> range]
    BY <1>8 DEF CacheGet, get
  <2>2. get.prepend = NoRange /\ get.entries = <<>> /\ get.append # NoRange
        /\ get.append.lo = lo /\ get.append.hi = hi
    BY <2>1, GetFields, RangeFields DEF NoRange
  <2> DEFINE r == ReadLog(lo, hi, k)
             buf == IF r.entries[1].Index - 1 = LargestIndex(cache)
                    THEN Put(cache, r.entries) ELSE cache
  <2>3. q =
          IF r.err # "" THEN Result(r.err, <<>>, cache)
          ELSE QueryAppend(<<>>, r.entries)
    <3>1. app = r /\ lo # hi
      BY <1>8, <2>2 DEF app
    <3> HIDE DEF r
    <3> QED
      BY <1>0, <1>8, <2>2, <3>1, Zenon
  <2>4. /\ r.err \in {"", "ahead", "unknown"}
        /\ r.err = "ahead" => lo < first
        /\ r.err = "" => /\ IsRun(r.entries, lo) /\ r.entries # <<>>
                         /\ lo + Len(r.entries) <= hi
    BY <1>8, ReadLogRun, Zenon
  <2> HIDE DEF r
  <2>5. CASE r.err # ""
    BY <1>4, <2>3, <2>4, <2>5, Zenon
  <2>6. CASE r.err = ""
    <3>1. /\ LargestIndex(cache) = c + Len(cache) - 1
          /\ Len(cache) \in Nat \ {0} /\ c \in Nat \ {0}
      BY <1>2, <1>8, LargestOfRun
    <3>2. r.entries[1].Index = lo
      <4>1. SmallestIndex(r.entries) = lo
        BY <2>4, <2>6, LargestOfRun, Zenon
      <4> QED
        BY <2>4, <2>6, <4>1, Zenon DEF SmallestIndex
    <3>3. lo - 1 = LargestIndex(cache) => lo = c + Len(cache)
      BY <3>1
    <3>4. RunWithin(buf)
      BY <1>2, <1>8, <2>4, <2>6, <3>2, <3>3, PutRun, Zenon
    <3>5. q = Result("", r.entries, buf)
      BY <2>3, <2>4, <2>6, Zenon DEF QueryAppend
    <3> HIDE DEF buf
    <3> QED
      BY <2>4, <2>6, <3>4, <3>5, QuerySucceeds, Zenon
  <2> QED
    BY <2>5, <2>6, Zenon
<1>9. ASSUME lo < hi, ready, cache # <<>>, ~(SmallestIndex(cache) > hi),
             ~(LargestIndex(cache) < lo)
      PROVE  QueryOK(q, lo, hi)
  <2> DEFINE end == c + Len(cache)
             from == IF lo <= c THEN c ELSE lo
             to == IF hi < end THEN hi ELSE end
             cached == SubSeq(cache, FindIndex(cache, lo),
                              FindIndex(cache, hi) - 1)
  <2>1. /\ LargestIndex(cache) = end - 1 /\ SmallestIndex(cache) = c
        /\ Len(cache) \in Nat \ {0} /\ c \in Nat \ {0}
    BY <1>2, <1>9, LargestOfRun
  <2>2. /\ c <= hi /\ lo < end /\ from \in Nat /\ to \in Nat /\ from <= to
        /\ end <= Len(log) + 1
    BY <1>2, <1>9, <2>1 DEF IsRun
  <2>3. /\ FindIndex(cache, lo) = from - c + 1
        /\ FindIndex(cache, hi) - 1 = to - c
    <3>1. FindIndex(cache, lo) = IF end <= lo THEN Len(cache) + 1
                                 ELSE IF lo <= c THEN 1 ELSE lo - c + 1
      BY <1>2, FindIndexInRun
    <3>2. FindIndex(cache, hi) = IF end <= hi THEN Len(cache) + 1
                                 ELSE IF hi <= c THEN 1 ELSE hi - c + 1
      BY <1>2, FindIndexInRun
    <3> QED
      BY <2>1, <2>2, <3>1, <3>2
  <2>4. IsRun(cached, from) /\ Len(cached) = to - from
    <3> DEFINE m == from - c + 1
               n == to - c
    <3>1. m \in 1..(Len(cache) + 1) /\ n \in (m - 1)..Len(cache)
      BY <2>1, <2>2
    <3>2. IsRun(SubSeq(cache, m, n), c + m - 1)
          /\ Len(SubSeq(cache, m, n)) = n - m + 1
      BY <1>2, <3>1, SubRun
    <3>3. c + m - 1 = from /\ n - m + 1 = to - from
      BY <2>1, <2>2
    <3>4. cached = SubSeq(cache, m, n)
      BY <2>3, Zenon
    <3> HIDE DEF m, n
    <3> QED
      BY <3>2, <3>3, <3>4, Zenon
  <2>5. get = [entries |-> cached,
               prepend |-> IF cached # <<>> /\ lo < c
                           THEN [lo |-> lo, hi |-> c] ELSE NoRange,
               append |-> IF cached # <<>> /\ hi > (end - 1) + 1
                          THEN [lo |-> (end - 1) + 1, hi |-> hi] ELSE NoRange]
    BY <1>9, <2>1 DEF CacheGet, get
  <2> HIDE DEF cached
  <2>6. cached # <<>> <=> from < to
    <3>1. cached # <<>> <=> Len(cached) # 0
      BY <2>4, EmptySeq DEF IsRun
    <3> QED
      BY <2>2, <2>4, <3>1
  <2>7. CASE cached = <<>>
    <3>1. get.prepend = NoRange /\ get.append = NoRange /\ get.entries = <<>>
      BY <2>5, <2>7, GetFields
    <3>2. q = Result("", FixSize(<<>>), cache)
      <4>1. lo # hi
        BY <1>9
      <4> QED
        BY <1>0, <1>9, <3>1, <4>1, Zenon
    <3>3. FixSize(<<>>) = <<>>
      <4>1. Len(FixSize(<<>>)) \in 0..Len(<<>>) /\ IsRun(FixSize(<<>>), lo)
        BY <1>3, FixSizePrefix
      <4>2. Len(FixSize(<<>>)) = 0
        BY <4>1
      <4> QED
        BY <4>1, <4>2, EmptySeq DEF IsRun
    <3> QED
      BY <1>4, <3>2, <3>3, Zenon
  <2>8. CASE cached # <<>> /\ lo < c
    <3> DEFINE r == ReadLog(lo, c, k)
    <3>1. get.prepend = [lo |-> lo, hi |-> c] /\ get.entries = cached
      BY <2>5, <2>8, GetFields
    <3>2. q =
            IF r.err # "" THEN Result(r.err, <<>>, cache)
            ELSE QueryPrepend(cached, r.entries)
      <4>1. get.prepend # NoRange /\ get.prepend.lo = lo /\ get.prepend.hi = c
        BY <2>8, <3>1, RangeFields DEF NoRange
      <4>2. pre = r /\ lo # hi
        BY <1>9, <4>1 DEF pre
      <4> HIDE DEF r
      <4> QED
        BY <1>0, <1>9, <3>1, <4>1, <4>2, Zenon
    <3>3. /\ r.err \in {"", "ahead", "unknown"}
          /\ r.err = "ahead" => lo < first
          /\ r.err = "" => /\ IsRun(r.entries, lo) /\ r.entries # <<>>
                           /\ lo + Len(r.entries) <= c
      <4>1. c \in Nat /\ c <= Len(log) + 1
        BY <1>1, <2>1, <2>2
      <4> QED
        BY <2>8, <4>1, ReadLogRun, Zenon
    <3> HIDE DEF r
    <3>4. CASE r.err # ""
      BY <1>4, <3>2, <3>3, <3>4, Zenon
    <3>5. CASE r.err = ""
      <4> DEFINE le == r.entries
      <4>1. IsRun(le, lo) /\ le # <<>> /\ lo + Len(le) <= c
        BY <3>3, <3>5, Zenon
      <4>2. Len(le) \in Nat /\ le[Len(le)].Index = lo + Len(le) - 1
        BY <4>1, LargestOfRun DEF LargestIndex
      <4>3. cached[1].Index = c
        <5>1. from = c
          BY <2>1, <2>8
        <5> HIDE DEF from
        <5>2. SmallestIndex(cached) = c
          BY <2>4, <2>8, <5>1, LargestOfRun
        <5> QED
          BY <2>8, <5>2 DEF SmallestIndex
      <4>4. CASE le[Len(le)].Index = cached[1].Index - 1
        <5>1. lo + Len(le) = c
          <6> HIDE DEF end, from, to, le
          <6> QED
            BY <2>1, <4>2, <4>3, <4>4
        <5>2. IsRun(cached, lo + Len(le)) /\ Len(cached) = to - c
          <6>1. from = c
            BY <2>1, <2>8
          <6> HIDE DEF from
          <6> QED
            BY <2>4, <5>1, <6>1
        <5>3. IsRun(le \o cached, lo)
              /\ Len(le \o cached) = Len(le) + Len(cached)
          BY <4>1, <5>2, ConcatRuns
        <5>4. IsRun(FixSize(le \o cached), lo)
              /\ Len(FixSize(le \o cached)) \in 0..Len(le \o cached)
          BY <5>3, FixSizePrefix, Zenon
        <5>5. lo + Len(FixSize(le \o cached)) <= hi
          <6>1. lo + (Len(le) + Len(cached)) <= hi
            <7>1. to <= hi /\ to \in Nat
              BY <2>1, <2>2
            <7> HIDE DEF end, from, to, le
            <7> QED
              BY <2>1, <4>2, <5>1, <5>2, <7>1
          <6> QED
            <7> HIDE DEF end, from, to, le
            <7>1. Len(cached) \in Nat /\ Len(FixSize(le \o cached)) \in Nat
                  /\ Len(FixSize(le \o cached)) <= Len(le) + Len(cached)
              BY <2>4, <4>2, <5>3, <5>4, LenProperties DEF IsRun
            <7> QED
              BY <4>2, <6>1, <7>1
        <5>6. q = Result("", FixSize(le \o cached), cache)
          BY <2>8, <3>2, <3>5, <4>1, <4>4, Zenon DEF QueryPrepend
        <5> HIDE DEF le
        <5> QED
          BY <5>4, <5>5, <5>6, QuerySucceeds, Zenon
      <4>5. CASE ~(le[Len(le)].Index = cached[1].Index - 1)
        <5>1. q = Result("", le, cache)
          BY <1>9, <3>2, <3>5, <4>1, <4>5, Zenon DEF QueryPrepend
        <5>2. lo + Len(le) <= hi
          BY <2>1, <2>2, <4>1, <4>2
        <5> HIDE DEF le
        <5> QED
          BY <4>1, <5>1, <5>2, QuerySucceeds, Zenon
      <4> QED
        BY <4>4, <4>5
    <3> QED
      BY <3>4, <3>5, Zenon
  <2>9. CASE cached # <<>> /\ ~(lo < c) /\ hi > end
    <3> DEFINE r == ReadLog(end, hi, k)
    <3>0. from = lo /\ to = end /\ (end - 1) + 1 = end /\ end \in Nat \ {0}
      BY <2>1, <2>2, <2>9
    <3>1. get.prepend = NoRange /\ get.append = [lo |-> end, hi |-> hi]
          /\ get.entries = cached
      BY <2>5, <2>9, <3>0, GetFields
    <3>2. q =
            IF r.err # "" THEN Result(r.err, <<>>, cache)
            ELSE QueryAppend(cached, r.entries)
      <4>1. get.append # NoRange /\ get.append.lo = end /\ get.append.hi = hi
        BY <3>0, <3>1, RangeFields DEF NoRange
      <4>2. app = r /\ lo # hi
        BY <1>9, <4>1 DEF app
      <4> HIDE DEF r
      <4> QED
        BY <1>0, <1>9, <3>1, <4>1, <4>2, Zenon
    <3>3. /\ r.err \in {"", "ahead", "unknown"}
          /\ r.err = "ahead" => end < first
          /\ r.err = "" => /\ IsRun(r.entries, end) /\ r.entries # <<>>
                           /\ end + Len(r.entries) <= hi
      BY <2>9, <3>0, ReadLogRun, Zenon
    <3> HIDE DEF r
    <3>4. CASE r.err # ""
      <4>1. r.err = "ahead" => lo < first
        <5> SUFFICES ASSUME end < first PROVE lo < first
          BY <3>3
        <5> HIDE DEF end
        <5> QED
          BY <2>2, <3>0
      <4> QED
        BY <1>4, <3>2, <3>3, <3>4, <4>1, Zenon
    <3>5. CASE r.err = ""
      <4> DEFINE le == r.entries
      <4>1. IsRun(le, end) /\ le # <<>> /\ end + Len(le) <= hi
            /\ Len(le) \in Nat
        BY <3>3, <3>5, LenProperties, Zenon DEF IsRun
      <4>2. IsRun(cached, lo) /\ lo + Len(cached) = end
        BY <2>2, <2>4, <3>0
      <4>3. IsRun(cached \o le, lo)
            /\ Len(cached \o le) = Len(cached) + Len(le)
        BY <4>1, <4>2, ConcatRuns
      <4>4. IsRun(FixSize(cached \o le), lo)
            /\ Len(FixSize(cached \o le)) \in 0..Len(cached \o le)
        BY <4>3, FixSizePrefix, Zenon
      <4>5. lo + Len(FixSize(cached \o le)) <= hi
        <5> HIDE DEF end, from, to, le
        <5>1. Len(cached) \in Nat /\ Len(FixSize(cached \o le)) \in Nat
              /\ Len(FixSize(cached \o le)) <= Len(cached) + Len(le)
          BY <4>1, <4>2, <4>3, <4>4, LenProperties DEF IsRun
        <5> QED
          BY <3>0, <4>1, <4>2, <5>1
      <4>6. RunWithin(Put(cache, le))
        BY <1>2, <4>1, PutRun
      <4>7. q =
              Result("", FixSize(cached \o le), Put(cache, le))
        BY <2>9, <3>2, <3>5, <4>1, Zenon DEF QueryAppend
      <4> HIDE DEF le
      <4> QED
        BY <4>4, <4>5, <4>6, <4>7, QuerySucceeds, Zenon
    <3> QED
      BY <3>4, <3>5, Zenon
  <2>10. CASE cached # <<>> /\ ~(lo < c) /\ ~(hi > end)
    <3>0. from = lo /\ to = hi /\ (end - 1) + 1 = end
      BY <2>1, <2>2, <2>10
    <3>1. get.prepend = NoRange /\ get.append = NoRange /\ get.entries = cached
      BY <2>5, <2>10, <3>0, GetFields
    <3>2. q = Result("", FixSize(cached), cache)
      <4>1. lo # hi
        BY <1>9
      <4> QED
        BY <1>0, <1>9, <3>1, <4>1, Zenon
    <3>3. IsRun(FixSize(cached), lo) /\ Len(FixSize(cached)) \in 0..Len(cached)
      BY <2>4, <3>0, FixSizePrefix
    <3>4. lo + Len(FixSize(cached)) <= hi
      BY <2>2, <2>4, <3>0, <3>3
    <3> QED
      BY <3>2, <3>3, <3>4, QuerySucceeds, Zenon
  <2> QED
    BY <2>7, <2>8, <2>9, <2>10
<1> QED
  BY <1>5, <1>6, <1>7, <1>8, <1>9

-----------------------------------------------------------------------------
(* The inductive invariant.  It is stated with the log as a parameter, as  *)
(* the log grows under the runs that streams and the cache hold.           *)

RunOf(l, s, lo) ==
    /\ s \in Seq(LogEntry)
    /\ lo \in Nat \ {0}
    /\ lo + Len(s) <= Len(l) + 1
    /\ \A i \in 1..Len(s) : s[i] = [Index |-> lo + i - 1, Size |-> l[lo + i - 1]]

CacheOK(l, buf) == \E c : RunOf(l, buf, c) /\ Len(buf) <= CacheSize

(* What was sent is the run that starts at the follower's next entry, the  *)
(* handler is right behind it, and an error says what is the case.         *)
StreamOK(l, ap, fi, s, g, n) ==
    /\ s.pc = "idle" => g = <<>>
    /\ s.pc = "behind" => g = <<>> /\ s.hi < s.req
    /\ s.pc \in {"open", "ahead", "unknown", "tail"} =>
         RunOf(l, g, n) /\ n + Len(g) <= ap + 1
    /\ s.pc = "open" => /\ s.req = n /\ s.lo = n + Len(g)
                        /\ s.lo <= s.hi /\ s.hi <= ap + 1
    /\ s.pc = "ahead" => s.lo < fi

StreamType == [pc : {"idle", "open", "behind", "ahead", "unknown", "tail"},
               req : Nat, lo : Nat, hi : Nat]

Types ==
    /\ log \in Seq(Sizes)
    /\ applied \in Nat /\ applied <= Len(log)
    /\ first \in Nat \ {0} /\ first <= applied + 1
    /\ cache \in Seq(LogEntry)
    /\ ready \in BOOLEAN /\ event \in BOOLEAN /\ deleted \in BOOLEAN
    /\ faults \in Nat
    /\ next \in [Followers -> Nat \ {0}]
    /\ got \in [Followers -> Seq(LogEntry)]
    /\ stream \in [Followers -> StreamType]

Streams ==
    \A f \in Followers :
      StreamOK(log, applied, first, stream[f], got[f], next[f])

IInv == Types /\ CacheOK(log, cache) /\ Streams

(* A run of the log, stated for the log as a parameter.                    *)
LEMMA RunOfLog ==
  ASSUME NEW s, NEW lo
  PROVE  IsRun(s, lo) <=> RunOf(log, s, lo)
BY DEF IsRun, RunOf, Entry

(* A cache that is a run of the log, stated for the log as a parameter.    *)
LEMMA CacheOKWithin ==
  ASSUME NEW buf
  PROVE  RunWithin(buf) <=> CacheOK(log, buf)
BY RunOfLog DEF RunWithin, CacheOK

(* A run stays one when the log grows.                                     *)
LEMMA RunGrows ==
  ASSUME NEW l \in Seq(Sizes), NEW x \in Sizes, NEW s, NEW lo, RunOf(l, s, lo)
  PROVE  RunOf(Append(l, x), s, lo)
<1>1. /\ Len(l) \in Nat /\ Len(s) \in Nat /\ lo \in Nat \ {0}
      /\ s \in Seq(LogEntry) /\ lo + Len(s) <= Len(l) + 1
  BY LenProperties DEF RunOf
<1>2. Len(Append(l, x)) = Len(l) + 1
  BY AppendProperties
<1>3. ASSUME NEW i \in 1..Len(s)
      PROVE  s[i] = [Index |-> lo + i - 1, Size |-> Append(l, x)[lo + i - 1]]
  <2>1. lo + i - 1 \in 1..Len(l)
    BY <1>1
  <2>2. Append(l, x)[lo + i - 1] = l[lo + i - 1]
    BY <2>1, AppendProperties
  <2> QED
    BY <2>2 DEF RunOf
<1>4. lo + Len(s) <= (Len(l) + 1) + 1
  BY <1>1
<1> QED
  BY <1>1, <1>2, <1>3, <1>4 DEF RunOf

(* The log, the applied index and the first index only grow.               *)
LEMMA StreamOKGrows ==
  ASSUME NEW l, NEW l2, NEW ap \in Nat, NEW ap2 \in Nat, ap <= ap2,
         NEW fi \in Nat, NEW fi2 \in Nat, fi <= fi2,
         NEW s \in StreamType,
         NEW g \in Seq(LogEntry), NEW n \in Nat \ {0},
         RunOf(l, g, n) => RunOf(l2, g, n),
         StreamOK(l, ap, fi, s, g, n)
  PROVE  StreamOK(l2, ap2, fi2, s, g, n)
<1>1. Len(g) \in Nat /\ s.hi \in Nat /\ s.lo \in Nat
  BY LenProperties DEF StreamType
<1>2. n + Len(g) <= ap + 1 => n + Len(g) <= ap2 + 1
  BY <1>1
<1>3. s.hi <= ap + 1 => s.hi <= ap2 + 1
  BY <1>1
<1>4. s.lo < fi => s.lo < fi2
  BY <1>1
<1> QED
  BY <1>2, <1>3, <1>4 DEF StreamOK

(* The fields of the state of a stream.                                    *)
LEMMA StreamFields ==
  ASSUME NEW s, NEW pc, NEW req, NEW lo, NEW hi, s = Stream(pc, req, lo, hi)
  PROVE  s.pc = pc /\ s.req = req /\ s.lo = lo /\ s.hi = hi
<1>1. s = [pc |-> pc, req |-> req, lo |-> lo, hi |-> hi]
  BY DEF Stream
<1> QED
  BY ONLY <1>1

(* A stream made of values of the right types has its type.                *)
LEMMA StreamInType ==
  ASSUME NEW pc \in {"idle", "open", "behind", "ahead", "unknown", "tail"},
         NEW req \in Nat, NEW lo \in Nat, NEW hi \in Nat
  PROVE  Stream(pc, req, lo, hi) \in StreamType
BY DEF Stream, StreamType

(* A query of an open stream goes on where the last one ended, and leaves  *)
(* a run in the cache.                                                     *)
LEMMA QueryStep ==
  ASSUME IInv, NEW f \in Followers, stream[f].pc = "open",
         NEW k \in Nat \ {0},
         NEW q, q = QueryRaftLog(stream[f].lo, stream[f].hi, k)
  PROVE  /\ CacheOK(log, q.buf)
         /\ q.buf \in Seq(LogEntry)
         /\ got[f] \o q.entries \in Seq(LogEntry)
         /\ AfterQuery(stream[f], q) \in StreamType
         /\ StreamOK(log, applied, first, AfterQuery(stream[f], q),
                     got[f] \o q.entries, next[f])
<1> DEFINE s == stream[f]
           lo == s.lo
           hi == s.hi
           n == next[f]
           g == got[f]
           e == q.entries
           t == AfterQuery(s, q)
<1>1. /\ s \in StreamType /\ s.req \in Nat /\ lo \in Nat /\ hi \in Nat
      /\ n \in Nat \ {0} /\ g \in Seq(LogEntry) /\ log \in Seq(Sizes)
      /\ applied \in Nat /\ applied <= Len(log) /\ Len(log) \in Nat
      /\ first \in Nat /\ Len(g) \in Nat
  <2>1. /\ s \in StreamType /\ n \in Nat \ {0} /\ g \in Seq(LogEntry)
        /\ log \in Seq(Sizes)
    BY DEF IInv, Types
  <2>2. Len(log) \in Nat /\ Len(g) \in Nat
    BY <2>1, LenProperties
  <2>3. applied \in Nat /\ applied <= Len(log) /\ first \in Nat
    BY DEF IInv, Types
  <2>4. s.req \in Nat /\ lo \in Nat /\ hi \in Nat
    BY <2>1 DEF StreamType
  <2> HIDE DEF s, n, g, lo, hi
  <2> QED
    BY <2>1, <2>2, <2>3, <2>4
<1>2. /\ RunOf(log, g, n) /\ n + Len(g) <= applied + 1 /\ s.req = n
      /\ lo = n + Len(g) /\ lo <= hi /\ hi <= applied + 1
  BY DEF IInv, Streams, StreamOK
<1> HIDE DEF s, n, g, lo, hi
<1>3. lo \in Nat \ {0} /\ hi <= Len(log) + 1 /\ RunWithin(cache)
  BY <1>1, <1>2, CacheOKWithin DEF IInv
<1>4. QueryOK(q, lo, hi)
  BY <1>1, <1>2, <1>3, QueryCorrect DEF lo, hi, s
<1>5. /\ q.err \in {"", "ahead", "unknown"}
      /\ q.err = "ahead" => lo < first
      /\ IsRun(e, lo) /\ lo + Len(e) <= hi /\ RunWithin(q.buf)
      /\ q.err # "" => e = <<>>
  BY <1>4, Zenon DEF QueryOK
<1>6. CacheOK(log, q.buf) /\ q.buf \in Seq(LogEntry)
  BY <1>5, CacheOKWithin, Zenon DEF RunWithin, IsRun
<1>7. IsRun(g \o e, n) /\ Len(g \o e) = Len(g) + Len(e)
  BY <1>2, <1>5, RunOfLog, ConcatRuns, Zenon
<1>8. RunOf(log, g \o e, n) /\ g \o e \in Seq(LogEntry)
  BY <1>7, RunOfLog, Zenon DEF IsRun
<1>9. Len(e) \in Nat
  BY <1>5, LenProperties, Zenon DEF IsRun
<1>10. n + Len(g \o e) <= applied + 1 /\ n + Len(g \o e) = lo + Len(e)
  <2>1. lo + Len(e) <= hi
    BY <1>5, Zenon
  <2> HIDE DEF e
  <2>2. n + (Len(g) + Len(e)) = lo + Len(e) /\ lo + Len(e) <= applied + 1
    BY <1>1, <1>2, <1>9, <2>1
  <2> QED
    BY <1>7, <2>2
<1>11. CASE q.err # ""
  <2>1. t = Stream(q.err, s.req, lo, hi)
    BY <1>11, Zenon DEF AfterQuery, lo, hi
  <2> HIDE DEF t
  <2>2. t.pc = q.err /\ t.lo = lo
    BY <2>1, StreamFields
  <2>3. t \in StreamType
    <3>1. q.err \in {"ahead", "unknown"}
      BY <1>5, <1>11, Zenon
    <3> QED
      BY <1>1, <2>1, <3>1, StreamInType
  <2>4. StreamOK(log, applied, first, t, g \o e, n)
    <3> HIDE DEF t, e
    <3>1. t.pc \in {"ahead", "unknown"} /\ (t.pc = "ahead" => t.lo < first)
      BY <1>5, <1>11, <2>2, Zenon
    <3> QED
      BY <1>8, <1>10, <3>1 DEF StreamOK
  <2> QED
    BY <1>6, <1>8, <2>3, <2>4 DEF s, g, n, t
<1>12. CASE q.err = "" /\ e = <<>>
  <2>1. t = Stream("tail", s.req, lo, hi)
    BY <1>12, Zenon DEF AfterQuery, lo, hi
  <2> HIDE DEF t
  <2>2. t.pc = "tail"
    BY <2>1, StreamFields
  <2>3. t \in StreamType
    BY <1>1, <2>1, StreamInType
  <2>4. StreamOK(log, applied, first, t, g \o e, n)
    <3> HIDE DEF t, e
    <3> QED
      BY <1>8, <1>10, <2>2 DEF StreamOK
  <2> QED
    BY <1>6, <1>8, <2>3, <2>4 DEF s, g, n, t
<1>13. CASE q.err = "" /\ e # <<>>
  <2> DEFINE after == e[Len(e)].Index + 1
             m == IF after < hi THEN after ELSE hi
  <2>1. t = Stream("open", s.req, m, hi)
    BY <1>13, Zenon DEF AfterQuery, lo, hi
  <2> HIDE DEF t
  <2>2. after = lo + Len(e)
    <3>1. LargestIndex(e) = lo + Len(e) - 1
      BY <1>5, <1>13, LargestOfRun, Zenon
    <3>2. e[Len(e)].Index = lo + Len(e) - 1
      BY <1>13, <3>1, Zenon DEF LargestIndex
    <3> QED
      BY <1>1, <1>9, <3>2
  <2> HIDE DEF after
  <2>3. m = lo + Len(e) /\ m \in Nat /\ m <= hi
    <3>1. lo + Len(e) <= hi
      BY <1>5, Zenon
    <3> HIDE DEF e
    <3> QED
      BY <1>1, <1>9, <2>2, <3>1
  <2> HIDE DEF m
  <2>4. t.pc = "open" /\ t.lo = m /\ t.hi = hi /\ t.req = s.req
    BY <2>1, StreamFields
  <2>5. t \in StreamType
    BY <1>1, <2>1, <2>3, StreamInType
  <2>6. StreamOK(log, applied, first, t, g \o e, n)
    <3> HIDE DEF t, e
    <3> QED
      BY <1>2, <1>8, <1>10, <2>3, <2>4 DEF StreamOK
  <2> QED
    BY <1>6, <1>8, <2>5, <2>6 DEF s, g, n, t
<1> QED
  BY <1>11, <1>12, <1>13, Zenon

-----------------------------------------------------------------------------
(* The invariant holds initially and every step preserves it.              *)

(* The inductive invariant holds when the server starts.                   *)
LEMMA InitIInv == Init => IInv
<1> SUFFICES ASSUME Init PROVE IInv
  OBVIOUS
<1>1. /\ <<>> \in Seq(Sizes) /\ <<>> \in Seq(LogEntry) /\ Len(<<>>) = 0
      /\ NoStream \in StreamType
  BY EmptySeq, StreamInType DEF NoStream
<1>2. \A f \in Followers : stream[f].pc = "idle"
  BY StreamFields DEF Init, NoStream
<1>3. Types
  <2>1. /\ log \in Seq(Sizes) /\ applied \in Nat /\ applied <= Len(log)
        /\ first \in Nat \ {0} /\ first <= applied + 1
    BY <1>1 DEF Init
  <2>2. /\ stream \in [Followers -> StreamType]
        /\ got \in [Followers -> Seq(LogEntry)] /\ cache \in Seq(LogEntry)
    BY <1>1 DEF Init
  <2>3. next \in [Followers -> Nat \ {0}] /\ faults \in Nat
    BY LogAssumption, Zenon DEF Init
  <2>4. ready \in BOOLEAN /\ event \in BOOLEAN /\ deleted \in BOOLEAN
    BY Zenon DEF Init
  <2> QED
    BY <2>1, <2>2, <2>3, <2>4 DEF Types
<1>4. CacheOK(log, cache)
  <2>1. RunOf(<<>>, <<>>, 1)
    BY <1>1 DEF RunOf
  <2>2. Len(<<>>) <= CacheSize
    BY <1>1, CacheAssumption
  <2> QED
    BY <2>1, <2>2 DEF Init, CacheOK
<1>5. Streams
  BY <1>2 DEF Init, Streams, StreamOK
<1> QED
  BY <1>3, <1>4, <1>5 DEF IInv

(* A step of follower f concerns the state of f alone.                     *)
LEMMA OneStream ==
  ASSUME IInv, NEW f \in Followers, NEW s \in StreamType,
         NEW g \in Seq(LogEntry), NEW n \in Nat \ {0},
         StreamOK(log, applied, first, s, g, n),
         log' = log, applied' = applied, first' = first,
         stream' = [stream EXCEPT ![f] = s], got' = [got EXCEPT ![f] = g],
         next' = [next EXCEPT ![f] = n]
  PROVE  /\ Streams'
         /\ stream' \in [Followers -> StreamType]
         /\ got' \in [Followers -> Seq(LogEntry)]
         /\ next' \in [Followers -> Nat \ {0}]
<1>1. /\ stream \in [Followers -> StreamType]
      /\ got \in [Followers -> Seq(LogEntry)]
      /\ next \in [Followers -> Nat \ {0}]
  BY DEF IInv, Types
<1>2. ASSUME NEW h \in Followers
      PROVE  StreamOK(log', applied', first', stream'[h], got'[h], next'[h])
  <2>1. CASE h = f
    <3>1. stream'[h] = s /\ got'[h] = g /\ next'[h] = n
      BY <1>1, <2>1
    <3> QED
      BY <3>1
  <2>2. CASE h # f
    <3>1. stream'[h] = stream[h] /\ got'[h] = got[h] /\ next'[h] = next[h]
      BY <1>1, <2>2
    <3> QED
      BY <3>1 DEF IInv, Streams
  <2> QED
    BY <2>1, <2>2
<1>3. Streams'
  BY <1>2 DEF Streams
<1> QED
  BY <1>1, <1>3

(* The state of all the streams is as it was, and so are their tables.     *)
LEMMA SameStreams ==
  ASSUME IInv, UNCHANGED <<stream, got, next>>,
         applied' \in Nat, applied <= applied', first' \in Nat, first <= first',
         log' = log \/ \E x \in Sizes : log' = Append(log, x)
  PROVE  Streams'
<1>1. /\ log \in Seq(Sizes) /\ applied \in Nat /\ first \in Nat
      /\ stream \in [Followers -> StreamType]
      /\ got \in [Followers -> Seq(LogEntry)]
      /\ next \in [Followers -> Nat \ {0}]
  BY DEF IInv, Types
<1>2. ASSUME NEW f \in Followers
      PROVE  StreamOK(log', applied', first', stream[f], got[f], next[f])
  <2>1. /\ stream[f] \in StreamType /\ got[f] \in Seq(LogEntry)
        /\ next[f] \in Nat \ {0}
        /\ StreamOK(log, applied, first, stream[f], got[f], next[f])
    BY <1>1 DEF IInv, Streams
  <2>2. RunOf(log, got[f], next[f]) => RunOf(log', got[f], next[f])
    BY <1>1, RunGrows, Zenon
  <2> QED
    BY <1>1, <2>1, <2>2, StreamOKGrows
<1> QED
  BY <1>2 DEF Streams

(* A step that leaves the streams, the log and its indices alone.          *)
LEMMA QuietStep ==
  ASSUME IInv, UNCHANGED <<log, first, applied, stream, got, next, faults>>,
         cache' = cache \/ cache' = <<>>,
         ready' \in BOOLEAN, event' \in BOOLEAN, deleted' \in BOOLEAN
  PROVE  IInv'
<1>1. Streams'
  BY DEF IInv, Streams
<1>2. CacheOK(log', cache') /\ cache' \in Seq(LogEntry)
  <2>1. CASE cache' = cache
    BY <2>1 DEF IInv, Types
  <2>2. CASE cache' = <<>>
    <3>1. /\ <<>> \in Seq(LogEntry) /\ Len(<<>>) = 0 /\ Len(log) \in Nat
          /\ Len(<<>>) <= CacheSize
      BY EmptySeq, LenProperties, CacheAssumption DEF IInv, Types
    <3>2. RunOf(log, <<>>, 1)
      BY <3>1 DEF RunOf
    <3> QED
      BY <2>2, <3>1, <3>2 DEF CacheOK
  <2> QED
    BY <2>1, <2>2
<1>3. Types'
  BY <1>2 DEF IInv, Types
<1> QED
  BY <1>1, <1>2, <1>3 DEF IInv

(* A step of follower f alone, with the state it leaves.                   *)
LEMMA FollowerStep ==
  ASSUME IInv, NEW f \in Followers, NEW s \in StreamType,
         NEW g \in Seq(LogEntry), NEW n \in Nat \ {0},
         StreamOK(log, applied, first, s, g, n),
         UNCHANGED <<log, first, applied, ready, event, deleted>>,
         stream' = [stream EXCEPT ![f] = s], got' = [got EXCEPT ![f] = g],
         next' = [next EXCEPT ![f] = n],
         cache' \in Seq(LogEntry), CacheOK(log, cache'), faults' \in Nat
  PROVE  IInv'
<1>1. /\ Streams' /\ stream' \in [Followers -> StreamType]
      /\ got' \in [Followers -> Seq(LogEntry)]
      /\ next' \in [Followers -> Nat \ {0}]
  BY OneStream, Zenon
<1>2. Types'
  BY <1>1 DEF IInv, Types
<1> QED
  BY <1>1, <1>2 DEF IInv

(* Every step preserves the invariant.                                     *)
LEMMA InvStep == IInv /\ [Next]_vars => IInv'
<1> SUFFICES ASSUME IInv, [Next]_vars PROVE IInv'
  OBVIOUS
<1>0. /\ log \in Seq(Sizes) /\ applied \in Nat /\ applied <= Len(log)
      /\ first \in Nat \ {0} /\ first <= applied + 1
      /\ cache \in Seq(LogEntry) /\ faults \in Nat /\ Len(log) \in Nat
      /\ ready \in BOOLEAN /\ event \in BOOLEAN /\ deleted \in BOOLEAN
  BY LenProperties DEF IInv, Types
<1>1. CASE AppendEntry
  <2>1. PICK x \in Sizes : log' = Append(log, x)
    BY <1>1 DEF AppendEntry
  <2>2. Append(log, x) \in Seq(Sizes) /\ Len(Append(log, x)) = Len(log) + 1
    BY <1>0, AppendProperties
  <2>3. Streams'
    BY <1>0, <1>1, <2>1, SameStreams DEF AppendEntry
  <2>4. CacheOK(log', cache')
    BY <1>0, <1>1, <2>1, RunGrows DEF AppendEntry, IInv, CacheOK
  <2>5. applied <= Len(log) + 1
    BY <1>0
  <2>6. Types'
    BY <1>1, <2>1, <2>2, <2>5 DEF AppendEntry, IInv, Types
  <2> QED
    BY <2>3, <2>4, <2>6 DEF IInv
<1>2. CASE ApplyEntry
  <2>1. applied' \in Nat /\ applied <= applied' /\ applied' <= Len(log)
        /\ first <= applied' + 1
    BY <1>0, <1>2 DEF ApplyEntry
  <2>2. Streams'
    BY <1>0, <1>2, <2>1, SameStreams DEF ApplyEntry
  <2>3. Types' /\ CacheOK(log', cache')
    BY <1>2, <2>1 DEF ApplyEntry, IInv, Types
  <2> QED
    BY <2>2, <2>3 DEF IInv
<1>3. CASE Compact
  <2>1. PICK to \in (first + 1)..(applied + 1) : first' = to
    BY <1>3 DEF Compact
  <2>2. first' \in Nat \ {0} /\ first <= first' /\ first' <= applied + 1
    BY <1>0, <2>1
  <2>3. Streams'
    BY <1>0, <1>3, <2>2, SameStreams DEF Compact
  <2>4. Types' /\ CacheOK(log', cache')
    BY <1>3, <2>2 DEF Compact, IInv, Types
  <2> QED
    BY <2>3, <2>4 DEF IInv
<1>4. CASE RemoveData
  BY <1>0, <1>4, QuietStep DEF RemoveData
<1>5. CASE NodeReady
  BY <1>0, <1>5, QuietStep DEF NodeReady
<1>6. CASE NodeDeleted
  BY <1>0, <1>6, QuietStep, Zenon DEF NodeDeleted
<1>7. CASE LogCompacted
  BY <1>0, <1>7, QuietStep, Zenon DEF LogCompacted
<1>8. ASSUME NEW f \in Followers,
             \/ Replicate(f) \/ ReplicateBehind(f) \/ ReplicateQuery(f)
             \/ StreamEnd(f) \/ StreamSnapshot(f) \/ StreamBreak(f)
      PROVE  IInv'
  <2>0. /\ stream \in [Followers -> StreamType]
        /\ got \in [Followers -> Seq(LogEntry)]
        /\ next \in [Followers -> Nat \ {0}]
        /\ stream[f] \in StreamType /\ got[f] \in Seq(LogEntry)
        /\ next[f] \in Nat \ {0}
        /\ StreamOK(log, applied, first, stream[f], got[f], next[f])
        /\ CacheOK(log, cache)
    BY DEF IInv, Types, Streams
  <2>1. /\ Len(got[f]) \in Nat /\ <<>> \in Seq(LogEntry) /\ Len(<<>>) = 0
        /\ got = [got EXCEPT ![f] = got[f]]
        /\ next = [next EXCEPT ![f] = next[f]]
    BY <2>0, LenProperties, EmptySeq
  <2>2. CASE Replicate(f)
    <3> DEFINE s == Stream("open", next[f], next[f], applied + 1)
    <3>1. s \in StreamType
      BY <1>0, <2>0, StreamInType
    <3>2. /\ s.pc = "open" /\ s.req = next[f] /\ s.lo = next[f]
          /\ s.hi = applied + 1
      BY Zenon DEF Stream
    <3>3. got[f] = <<>> /\ next[f] <= applied + 1
      BY <2>0, <2>2 DEF Replicate, StreamOK
    <3>4. RunOf(log, <<>>, next[f])
      BY <1>0, <2>0, <2>1, <3>3 DEF RunOf
    <3>5. StreamOK(log, applied, first, s, <<>>, next[f])
      <4>1. next[f] = next[f] + Len(<<>>) /\ applied + 1 <= applied + 1
        BY <1>0, <2>0, <2>1
      <4> HIDE DEF s
      <4> QED
        BY <3>2, <3>3, <3>4, <4>1 DEF StreamOK
    <3>6. stream' = [stream EXCEPT ![f] = s]
      BY <2>2 DEF Replicate
    <3>7. got' = [got EXCEPT ![f] = <<>>] /\ next' = [next EXCEPT ![f] = next[f]]
      BY <2>1, <2>2, <3>3 DEF Replicate
    <3>8. /\ UNCHANGED <<log, first, applied, ready, event, deleted>>
          /\ cache' \in Seq(LogEntry) /\ CacheOK(log, cache') /\ faults' \in Nat
      BY <1>0, <2>0, <2>2 DEF Replicate
    <3> HIDE DEF s
    <3> QED
      BY <2>0, <2>1, <3>1, <3>5, <3>6, <3>7, <3>8, FollowerStep, Zenon
  <2>3. CASE ReplicateBehind(f)
    <3> DEFINE s == Stream("behind", next[f], next[f], applied + 1)
    <3>1. s \in StreamType
      BY <1>0, <2>0, StreamInType
    <3>2. s.pc = "behind" /\ s.req = next[f] /\ s.hi = applied + 1
      BY Zenon DEF Stream
    <3>3. got[f] = <<>> /\ applied + 1 < next[f]
      BY <2>0, <2>3 DEF ReplicateBehind, StreamOK
    <3>4. stream' = [stream EXCEPT ![f] = s]
      BY <2>3 DEF ReplicateBehind
    <3> HIDE DEF s
    <3>5. StreamOK(log, applied, first, s, <<>>, next[f])
      BY <3>2, <3>3 DEF StreamOK
    <3>6. got' = [got EXCEPT ![f] = <<>>] /\ next' = [next EXCEPT ![f] = next[f]]
      BY <2>1, <2>3, <3>3 DEF ReplicateBehind
    <3>7. /\ UNCHANGED <<log, first, applied, ready, event, deleted>>
          /\ cache' \in Seq(LogEntry) /\ CacheOK(log, cache') /\ faults' \in Nat
      BY <1>0, <2>0, <2>3 DEF ReplicateBehind
    <3> QED
      BY <2>0, <2>1, <3>1, <3>4, <3>5, <3>6, <3>7, FollowerStep, Zenon
  <2>4. CASE ReplicateQuery(f)
    <3>1. PICK k \in 1..MaxLog :
            LET q == QueryRaftLog(stream[f].lo, stream[f].hi, k)
            IN /\ cache' = q.buf
               /\ got' = [got EXCEPT ![f] = @ \o q.entries]
               /\ stream' = [stream EXCEPT ![f] = AfterQuery(@, q)]
      BY <2>4, Zenon DEF ReplicateQuery
    <3> DEFINE q == QueryRaftLog(stream[f].lo, stream[f].hi, k)
               s == AfterQuery(stream[f], q)
               g == got[f] \o q.entries
    <3>2. k \in Nat \ {0} /\ stream[f].pc = "open"
      BY <2>4, LogAssumption DEF ReplicateQuery
    <3>3. /\ CacheOK(log, q.buf) /\ q.buf \in Seq(LogEntry)
          /\ g \in Seq(LogEntry) /\ s \in StreamType
          /\ StreamOK(log, applied, first, s, g, next[f])
      BY <3>2, QueryStep, Zenon
    <3>4. /\ cache' = q.buf /\ got' = [got EXCEPT ![f] = g]
          /\ stream' = [stream EXCEPT ![f] = s]
      BY <3>1, <2>0
    <3> HIDE DEF q, s, g
    <3> QED
      BY <1>0, <2>0, <2>1, <2>4, <3>3, <3>4, FollowerStep, Zenon
         DEF ReplicateQuery
  <2>5. ASSUME NEW n \in Nat, next' = [next EXCEPT ![f] = next[f] + n],
               stream' = [stream EXCEPT ![f] = NoStream],
               got' = [got EXCEPT ![f] = <<>>], faults' \in Nat,
               UNCHANGED <<log, first, applied, cache, ready, event, deleted>>
        PROVE  IInv'
    <3>1. NoStream \in StreamType /\ NoStream.pc = "idle"
      <4>1. NoStream \in StreamType
        BY StreamInType DEF NoStream
      <4>2. NoStream.pc = "idle"
        BY Zenon DEF NoStream, Stream
      <4> QED
        BY <4>1, <4>2
    <3>2. next[f] + n \in Nat \ {0}
      BY <2>0
    <3>3. StreamOK(log, applied, first, NoStream, <<>>, next[f] + n)
      BY <3>1 DEF StreamOK
    <3> QED
      BY <1>0, <2>0, <2>1, <2>5, <3>1, <3>2, <3>3, FollowerStep, Zenon
  <2>6. CASE StreamEnd(f)
    BY <1>0, <2>1, <2>5, <2>6, Zenon DEF StreamEnd
  <2>7. CASE StreamSnapshot(f)
    <3>1. StreamOK(log, applied, first, stream[f], got[f], next[f])
          /\ stream[f].pc = "ahead"
      BY <2>0, <2>7 DEF StreamSnapshot
    <3>2. next[f] + Len(got[f]) <= applied + 1
      BY <3>1 DEF StreamOK
    <3>3. applied + 1 - next[f] \in Nat
          /\ next[f] + (applied + 1 - next[f]) = applied + 1
      BY <1>0, <2>0, <2>1, <3>2
    <3>4. next' = [next EXCEPT ![f] = next[f] + (applied + 1 - next[f])]
      BY <2>7, <3>3, Zenon DEF StreamSnapshot
    <3> QED
      BY <1>0, <2>5, <2>7, <3>3, <3>4, Zenon DEF StreamSnapshot
  <2>8. CASE StreamBreak(f)
    <3>1. PICK n \in 0..Len(got[f]) : next' = [next EXCEPT ![f] = @ + n]
      BY <2>8, Zenon DEF StreamBreak
    <3>2. n \in Nat /\ faults' \in Nat
      BY <1>0, <2>1, <2>8 DEF StreamBreak
    <3> QED
      BY <2>5, <2>8, <3>1, <3>2, Zenon DEF StreamBreak
  <2> QED
    BY <1>8, <2>2, <2>3, <2>4, <2>6, <2>7, <2>8
<1>9. CASE UNCHANGED vars
  BY <1>0, <1>9, QuietStep DEF vars
<1> QED
  BY <1>1, <1>2, <1>3, <1>4, <1>5, <1>6, <1>7, <1>8, <1>9 DEF Next

-----------------------------------------------------------------------------
(* The theorems.                                                           *)

(* The invariant holds in every reachable state.                           *)
LEMMA Invariance == Spec => []IInv
<1>1. Init => IInv
  BY InitIInv
<1>2. IInv /\ [Next]_vars => IInv'
  BY InvStep
<1> QED
  BY <1>1, <1>2, PTL DEF Spec

(* The state keeps its shape, and an open stream's range lies within what  *)
(* the leader has applied.                                                 *)
THEOREM TypeCorrect == Spec => []TypeOK
<1>1. IInv => TypeOK
  <2> SUFFICES ASSUME IInv PROVE TypeOK
    OBVIOUS
  <2>1. Types /\ Streams
    BY DEF IInv
  <2>2. applied \in 0..Len(log) /\ first \in 1..(applied + 1)
    BY <2>1, LenProperties DEF Types
  <2>3. ASSUME NEW f \in Followers, stream[f].pc = "open"
        PROVE  /\ stream[f].req = next[f] /\ stream[f].req <= stream[f].lo
               /\ stream[f].lo <= stream[f].hi /\ stream[f].hi <= applied + 1
    <3>1. got[f] \in Seq(LogEntry) /\ next[f] \in Nat \ {0}
      BY <2>1 DEF Types
    <3>2. /\ stream[f].req = next[f] /\ stream[f].lo = next[f] + Len(got[f])
          /\ stream[f].lo <= stream[f].hi /\ stream[f].hi <= applied + 1
      BY <2>1, <2>3 DEF Streams, StreamOK
    <3>3. next[f] <= next[f] + Len(got[f])
      BY <3>1, LenProperties
    <3> QED
      BY <3>2, <3>3
  <2> QED
    BY <2>1, <2>2, <2>3, Zenon DEF Types, TypeOK, StreamType, LogEntry
<1> QED
  BY <1>1, Invariance, PTL

(* The cache is a gapless run of the log's entries, no longer than         *)
(* CacheSize, whatever ranges the streams ask for.                         *)
THEOREM CacheAlwaysRun == Spec => []CacheIsRun
<1>1. IInv => CacheIsRun
  <2> SUFFICES ASSUME IInv PROVE CacheIsRun
    OBVIOUS
  <2>1. PICK c : RunOf(log, cache, c) /\ Len(cache) <= CacheSize
    BY DEF IInv, CacheOK
  <2>2. /\ c \in Nat \ {0} /\ Len(cache) \in Nat /\ Len(log) \in Nat
        /\ c + Len(cache) <= Len(log) + 1
    BY <2>1, LenProperties DEF RunOf, IInv, Types
  <2>3. \A i \in 1..Len(cache) : cache[i] = Entry(c + i - 1)
    BY <2>1 DEF RunOf, Entry
  <2>4. \A i \in 1..Len(cache) : cache[i].Index = c + i - 1
    <3>1. IsRun(cache, c)
      BY <2>1, RunOfLog
    <3> QED
      BY <3>1, RunIndex
  <2>5. ASSUME NEW i \in 1..Len(cache)
        PROVE  /\ cache[i].Index = cache[1].Index + i - 1
               /\ cache[i].Index \in 1..Len(log)
               /\ cache[i] = Entry(cache[i].Index)
    <3>a. 1 \in 1..Len(cache)
      BY <2>2
    <3>b. cache[1].Index = c + 1 - 1
      BY <2>4, <3>a
    <3>1. cache[1].Index = c
      BY <2>2, <3>b
    <3>2. c + i - 1 \in 1..Len(log)
      BY <2>2
    <3>3. cache[i].Index = c + i - 1 /\ cache[i] = Entry(c + i - 1)
      BY <2>3, <2>4
    <3> QED
      BY <3>1, <3>2, <3>3
  <2> QED
    BY <2>1, <2>5 DEF CacheIsRun
<1> QED
  BY <1>1, Invariance, PTL

(* A follower is sent the log's entries in order, each once, from the one  *)
(* it asked for, and none that the leader has not applied.                 *)
THEOREM StreamsInOrder == Spec => []StreamInOrder
<1>1. IInv => StreamInOrder
  <2> SUFFICES ASSUME IInv, NEW f \in Followers, stream[f].pc # "idle"
               PROVE  /\ got[f] = Entries(next[f], next[f] + Len(got[f]))
                      /\ got[f] # <<>> => next[f] + Len(got[f]) <= applied + 1
    BY DEF StreamInOrder
  <2>1. /\ StreamOK(log, applied, first, stream[f], got[f], next[f])
        /\ stream[f] \in StreamType /\ next[f] \in Nat \ {0}
        /\ got[f] \in Seq(LogEntry) /\ Len(got[f]) \in Nat
    BY LenProperties DEF IInv, Types, Streams
  <2>2. stream[f].pc \in {"open", "ahead", "unknown", "tail", "behind"}
    BY <2>1 DEF StreamType
  <2>3. (next[f] + Len(got[f])) - next[f] = Len(got[f])
    BY <2>1
  <2>4. \A i \in 1..Len(got[f]) : got[f][i] = Entry(next[f] + i - 1)
    <3>1. CASE stream[f].pc = "behind"
      BY <2>1, <3>1, EmptySeq DEF StreamOK
    <3>2. CASE stream[f].pc # "behind"
      BY <2>1, <2>2, <3>2 DEF StreamOK, RunOf, Entry
    <3> QED
      BY <3>1, <3>2
  <2>5. got[f] = [i \in 1..Len(got[f]) |-> Entry(next[f] + i - 1)]
    BY <2>1, <2>4, LenProperties, Zenon
  <2>6. got[f] # <<>> => next[f] + Len(got[f]) <= applied + 1
    BY <2>1, <2>2 DEF StreamOK
  <2> QED
    BY <2>3, <2>5, <2>6 DEF Entries
<1> QED
  BY <1>1, Invariance, PTL

(* USE_SNAPSHOT is answered only when the entry the stream is at has been  *)
(* compacted, LEADER_BEHIND only to a follower ahead of the leader.        *)
THEOREM ErrorsAreTruthful == Spec => []ErrorsTruthful
<1>1. IInv => ErrorsTruthful
  BY DEF IInv, Streams, StreamOK, ErrorsTruthful
<1> QED
  BY <1>1, Invariance, PTL

-----------------------------------------------------------------------------
(* A poll makes progress.                                                  *)

(* The size of the first entry alone, which fixSize looks at first.        *)
LEMMA SizeOfOne ==
  ASSUME NEW s, s[1].Size \in Nat
  PROVE  SizeOf(s, 1) = s[1].Size
<1> DEFINE P(g) ==
             g = [i \in 0..1 |-> IF i = 0 THEN 0 ELSE g[i - 1] + s[i].Size]
<1>1. SizeOf(s, 1) = (CHOOSE g : P(g))[1]
  BY DEF SizeOf
<1>2. P([i \in 0..1 |-> IF i = 0 THEN 0 ELSE s[1].Size])
  OBVIOUS
<1>3. \E g : P(g)
  BY <1>2
<1>4. P(CHOOSE g : P(g))
  BY <1>3, Zenon
<1>5. ASSUME NEW g, P(g) PROVE g[1] = s[1].Size
  <2>1. g[0] = 0
    BY <1>5
  <2>2. g[1] = g[1 - 1] + s[1].Size
    BY <1>5
  <2> QED
    BY <2>1, <2>2
<1> QED
  BY <1>1, <1>4, <1>5, Zenon

(* Every entry is smaller than a message. A put is, with the defaults      *)
(* (MaxValueLen is 2 MB, DefaultMaxGRPCSize 4 MB); a large transaction     *)
(* need not be, nor need a put with a smaller max-send-message-size-bytes, *)
(* so this is a hypothesis of the theorem and not an assumption of the     *)
(* module.                                                                 *)
EntriesFit == \A size \in Sizes : size < MaxSize

(* fixSize never cuts everything when the entries fit.                     *)
LEMMA FixSizeKeepsFirst ==
  ASSUME EntriesFit, NEW s \in Seq(LogEntry), s # <<>>
  PROVE  FixSize(s) # <<>>
<1> DEFINE over == {i \in 1..Len(s) : SizeOf(s, i) >= MaxSize}
<1>1. Len(s) \in Nat \ {0}
  BY EmptySeq, LenProperties
<1>2. s[1] \in LogEntry
  BY <1>1, ElementOfSeq
<1>3. s[1].Size \in Nat /\ s[1].Size < MaxSize /\ MaxSize \in Nat
  BY <1>2, LogAssumption, CacheAssumption DEF LogEntry, EntriesFit
<1>4. 1 \notin over
  BY <1>3, SizeOfOne
<1>5. CASE over = {}
  BY <1>5 DEF FixSize
<1>6. CASE over # {}
  <2>1. over \in SUBSET Nat /\ over \subseteq 1..Len(s)
    BY <1>1
  <2>2. Least(over) \in over
    BY <1>6, <2>1, LeastIsLeast
  <2>3. Least(over) \in 2..Len(s)
    <3>1. Least(over) \in 1..Len(s) /\ Least(over) # 1
      BY <1>4, <2>1, <2>2
    <3> HIDE DEF over
    <3> QED
      BY <1>1, <3>1
  <2> DEFINE n == Least(over) - 1
  <2>4. FixSize(s) = SubSeq(s, 1, n)
    BY <1>6, Zenon DEF FixSize
  <2>5. n \in 1..Len(s) /\ n \in Int /\ n - 1 + 1 = n /\ 1 <= n
    <3> HIDE DEF over
    <3> QED
      BY <1>1, <2>3
  <2> HIDE DEF n
  <2>6. \A i \in 1..n : s[i] \in LogEntry
    BY <1>1, <2>5, ElementOfSeq
  <2>7. Len(SubSeq(s, 1, n)) = n
    BY <2>5, <2>6, SubSeqProperties
  <2> QED
    BY <2>4, <2>5, <2>7
<1> QED
  BY <1>5, <1>6

(* After cache.put the largest index is the old one or that of the new     *)
(* entries.                                                                *)
LEMMA PutLargest ==
  ASSUME NEW b, NEW lo, IsRun(b, lo), NEW e, NEW lo2, IsRun(e, lo2), e # <<>>
  PROVE  LargestIndex(Put(b, e)) \in {LargestIndex(b), LargestIndex(e)}
<1> DEFINE new == Newest(e)
<1>1. /\ new # <<>> /\ IsRun(new, lo2 + (Len(e) - Len(new)))
      /\ Len(new) = IF Len(e) > CacheSize THEN CacheSize ELSE Len(e)
  BY NewestOfRun
<1>2. Newest(e) = new
  OBVIOUS
<1> HIDE DEF new
<1>3. /\ Len(new) \in Nat \ {0} /\ Len(e) \in Nat \ {0} /\ lo2 \in Nat \ {0}
      /\ new \in Seq(LogEntry) /\ b \in Seq(LogEntry)
  BY <1>1, EmptySeq, LenProperties DEF IsRun
<1>4. LargestIndex(new) = LargestIndex(e)
  <2>1. /\ LargestIndex(e) = lo2 + Len(e) - 1
        /\ LargestIndex(new) = (lo2 + (Len(e) - Len(new))) + Len(new) - 1
    BY <1>1, LargestOfRun
  <2> QED
    BY <1>3, <2>1
<1>5. ASSUME NEW x \in Seq(LogEntry), NEW y \in Seq(LogEntry), y # <<>>,
             y[Len(y)] = new[Len(new)]
      PROVE  LargestIndex(x \o y) = LargestIndex(e)
  <2>1. Len(x) \in Nat /\ Len(y) \in Nat \ {0}
    BY <1>5, EmptySeq, LenProperties
  <2>2. Len(x \o y) = Len(x) + Len(y) /\ (x \o y)[Len(x) + Len(y)] = y[Len(y)]
    BY <2>1, ConcatProperties
  <2>3. x \o y # <<>>
    BY <2>1, <2>2
  <2>4. LargestIndex(x \o y) = new[Len(new)].Index
    BY <1>5, <2>2, <2>3 DEF LargestIndex
  <2> QED
    BY <1>1, <1>4, <2>4 DEF LargestIndex
<1>6. ASSUME NEW y \in Seq(LogEntry), y # <<>>, y[Len(y)] = new[Len(new)]
      PROVE  LargestIndex(MakeRoomAndAppend(b, y)) = LargestIndex(e)
  <2> DEFINE excess == Len(b) + Len(y) - CacheSize
             x == IF excess > 0 THEN SubSeq(b, excess + 1, Len(b)) ELSE b
  <2>1. MakeRoomAndAppend(b, y) = x \o y
    BY Zenon DEF MakeRoomAndAppend
  <2>2. x \in Seq(LogEntry)
    <3>1. Len(b) \in Nat /\ Len(y) \in Nat /\ CacheSize \in Nat
      BY <1>3, LenProperties, CacheAssumption
    <3>2. ASSUME excess > 0
          PROVE  SubSeq(b, excess + 1, Len(b)) \in Seq(LogEntry)
      <4>1. \A i \in (excess + 1)..Len(b) : b[i] \in LogEntry
        BY <1>3, <3>1, <3>2, ElementOfSeq
      <4>2. excess + 1 \in Int /\ Len(b) \in Int
        BY <3>1
      <4> HIDE DEF excess
      <4> QED
        BY <4>1, <4>2, SubSeqProperties
    <3> QED
      BY <1>3, <3>2
  <2> HIDE DEF x
  <2> QED
    BY <1>5, <1>6, <2>1, <2>2
<1>7. CASE LargestIndex(b) = 0
  BY <1>1, <1>2, <1>3, <1>6, <1>7 DEF Put
<1>8. CASE LargestIndex(b) # 0
  <2> DEFINE i == FindIndex(new, LargestIndex(b) + 1)
             y == SubSeq(new, i, Len(new))
  <2>1. Put(b, e) = IF i > Len(new) THEN b ELSE MakeRoomAndAppend(b, y)
    BY <1>2, <1>8, Zenon DEF Put
  <2>2. i \in Nat \ {0}
    <3>1. LargestIndex(b) + 1 \in Nat
      <4>1. CASE b = <<>>
        BY <4>1 DEF LargestIndex
      <4>2. CASE b # <<>>
        BY <4>2, LargestOfRun
      <4> QED
        BY <4>1, <4>2
    <3>2. lo2 + (Len(e) - Len(new)) \in Nat \ {0}
      BY <1>1 DEF IsRun
    <3> DEFINE idx == LargestIndex(b) + 1
               l == lo2 + (Len(e) - Len(new))
    <3> HIDE DEF idx, l
    <3>3. FindIndex(new, idx) = IF l + Len(new) <= idx THEN Len(new) + 1
                                ELSE IF idx <= l THEN 1 ELSE idx - l + 1
      BY <1>1, <3>1, FindIndexInRun DEF idx, l
    <3> QED
      BY <1>3, <3>1, <3>2, <3>3 DEF idx, l
  <2>3. ASSUME ~(i > Len(new))
        PROVE  y \in Seq(LogEntry) /\ y # <<>> /\ y[Len(y)] = new[Len(new)]
    <3> HIDE DEF i
    <3>1. i \in 1..(Len(new) + 1) /\ Len(new) \in (i - 1)..Len(new)
      BY <1>3, <2>2, <2>3
    <3>2. \A j \in i..Len(new) : new[j] \in LogEntry
      BY <1>3, <2>2, ElementOfSeq
    <3>3. /\ y \in Seq(LogEntry)
          /\ Len(y) = IF i <= Len(new) THEN Len(new) - i + 1 ELSE 0
          /\ \A j \in 1..(Len(new) - i + 1) : y[j] = new[i + j - 1]
      BY <1>3, <2>2, <3>2, SubSeqProperties
    <3> HIDE DEF y
    <3>4. Len(y) = Len(new) - i + 1 /\ Len(y) \in 1..(Len(new) - i + 1)
      BY <1>3, <2>2, <2>3, <3>3
    <3>5. i + Len(y) - 1 = Len(new)
      BY <1>3, <2>2, <3>4
    <3> QED
      BY <3>3, <3>4, <3>5
  <2> HIDE DEF i, y
  <2> QED
    BY <1>6, <2>1, <2>3
<1> QED
  BY <1>7, <1>8

(* cache.get: the ranges left to read lie in the range asked for and are   *)
(* not empty, and when there is none left, something is cached (unless the *)
(* cache is beyond the range).                                             *)
LEMMA GetRanges ==
  ASSUME log \in Seq(Sizes), RunWithin(cache),
         NEW lo \in Nat \ {0}, NEW hi \in Nat,
         lo < hi, hi <= Len(log) + 1, NEW get, get = CacheGet(cache, lo, hi)
  PROVE  /\ get.entries \in Seq(LogEntry)
         /\ get.prepend # NoRange =>
              /\ get.prepend.lo = lo /\ get.prepend.hi \in Nat
              /\ lo < get.prepend.hi /\ get.prepend.hi <= hi
         /\ get.append # NoRange =>
              /\ get.append.lo \in Nat \ {0} /\ get.append.lo < hi
              /\ get.append.hi = hi
         /\ get.prepend = NoRange /\ get.append = NoRange
              /\ LargestIndex(cache) < hi => get.entries # <<>>
<1> DEFINE range == [lo |-> lo, hi |-> hi]
<1>1. range.lo = lo /\ range.hi = hi /\ range # NoRange
      /\ <<>> \in Seq(LogEntry)
  BY DEF NoRange
<1>2. PICK c : IsRun(cache, c)
  BY DEF RunWithin
<1>3. CASE cache = <<>> \/ SmallestIndex(cache) > hi
  <2>1. get = [entries |-> <<>>, prepend |-> range, append |-> NoRange]
    BY <1>3 DEF CacheGet
  <2>2. get.entries = <<>> /\ get.prepend = range /\ get.append = NoRange
    BY <2>1, GetFields
  <2> QED
    BY <1>1, <2>2
<1>4. CASE /\ cache # <<>> /\ ~(SmallestIndex(cache) > hi)
           /\ LargestIndex(cache) < lo
  <2>1. get = [entries |-> <<>>, prepend |-> NoRange, append |-> range]
    BY <1>4 DEF CacheGet
  <2>2. get.entries = <<>> /\ get.prepend = NoRange /\ get.append = range
    BY <2>1, GetFields
  <2> QED
    BY <1>1, <2>2
<1>5. CASE /\ cache # <<>> /\ ~(SmallestIndex(cache) > hi)
           /\ ~(LargestIndex(cache) < lo)
  <2> DEFINE cached == SubSeq(cache, FindIndex(cache, lo),
                              FindIndex(cache, hi) - 1)
             end == c + Len(cache)
             front == [lo |-> lo, hi |-> c]
             behind == [lo |-> (end - 1) + 1, hi |-> hi]
  <2>1. /\ LargestIndex(cache) = end - 1 /\ SmallestIndex(cache) = c
        /\ Len(cache) \in Nat \ {0} /\ c \in Nat \ {0}
    BY <1>2, <1>5, LargestOfRun
  <2>2. get = [entries |-> cached,
               prepend |-> IF cached # <<>> /\ lo < c THEN front ELSE NoRange,
               append |-> IF cached # <<>> /\ hi > (end - 1) + 1
                          THEN behind ELSE NoRange]
    BY <1>5, <2>1 DEF CacheGet
  <2>3. /\ FindIndex(cache, lo) = IF lo <= c THEN 1 ELSE lo - c + 1
        /\ FindIndex(cache, hi) = IF end <= hi THEN Len(cache) + 1
                                  ELSE IF hi <= c THEN 1 ELSE hi - c + 1
    <3>1. FindIndex(cache, lo) = IF end <= lo THEN Len(cache) + 1
                                 ELSE IF lo <= c THEN 1 ELSE lo - c + 1
      BY <1>2, FindIndexInRun
    <3>2. FindIndex(cache, hi) = IF end <= hi THEN Len(cache) + 1
                                 ELSE IF hi <= c THEN 1 ELSE hi - c + 1
      BY <1>2, FindIndexInRun
    <3> QED
      BY <1>5, <2>1, <3>1, <3>2
  <2> DEFINE m == FindIndex(cache, lo)
             n == FindIndex(cache, hi) - 1
  <2>4. /\ m \in 1..(Len(cache) + 1) /\ n \in (m - 1)..Len(cache)
        /\ end - 1 < hi => m <= n
    BY <1>5, <2>1, <2>3
  <2>5. cached = SubSeq(cache, m, n)
    OBVIOUS
  <2> HIDE DEF m, n, cached
  <2>6. IsRun(cached, c + m - 1) /\ Len(cached) = n - m + 1
    BY <1>2, <2>4, <2>5, SubRun
  <2>7. cached \in Seq(LogEntry) /\ (end - 1 < hi => cached # <<>>)
    <3>1. m <= n => n - m + 1 # 0
      BY <2>1, <2>4
    <3> QED
      BY <2>4, <2>6, <3>1, EmptySeq DEF IsRun
  <2>8. front.lo = lo /\ front.hi = c /\ behind.lo = end /\ behind.hi = hi
    BY <2>1
  <2>9. /\ get.entries = cached
        /\ get.prepend = IF cached # <<>> /\ lo < c THEN front ELSE NoRange
        /\ get.append = IF cached # <<>> /\ hi > end THEN behind ELSE NoRange
    <3>1. (end - 1) + 1 = end
      BY <2>1
    <3> HIDE DEF front, behind, end
    <3> QED
      BY <2>2, <3>1, GetFields
  <2>10. get.prepend # NoRange => get.prepend = front /\ lo < c
    BY <2>9, Zenon
  <2>11. get.append # NoRange => get.append = behind /\ hi > end
    BY <2>9, Zenon
  <2>12. end \in Nat \ {0} /\ c <= hi /\ c \in Nat
    BY <1>5, <2>1
  <2> HIDE DEF front, behind, end
  <2> QED
    BY <2>1, <2>7, <2>8, <2>9, <2>10, <2>11, <2>12
<1> QED
  BY <1>3, <1>4, <1>5

(* What QueryRaftLog makes of a read of the log.                           *)
AfterRead(q, cached, r) ==
    \/ r.err # "" /\ q = Result(r.err, <<>>, cache)
    \/ r.err = "" /\ q = QueryPrepend(cached, r.entries)
    \/ r.err = "" /\ q = QueryAppend(cached, r.entries)

(* A query of a known shard answers from the cache alone, or reads a non-  *)
(* empty part of the range from the log.                                   *)
LEMMA QueryReads ==
  ASSUME log \in Seq(Sizes), RunWithin(cache),
         NEW lo \in Nat \ {0}, NEW hi \in Nat,
         lo < hi, hi <= Len(log) + 1, NEW k \in Nat \ {0}, ready,
         NEW q, q = QueryRaftLog(lo, hi, k)
  PROVE  \E cached \in Seq(LogEntry) :
           \/ /\ q = Result("", FixSize(cached), cache)
              /\ LargestIndex(cache) < hi => cached # <<>>
           \/ \E l \in Nat \ {0}, h \in Nat :
                l < h /\ h <= hi /\ AfterRead(q, cached, ReadLog(l, h, k))
<1> DEFINE get == CacheGet(cache, lo, hi)
           pre == ReadLog(get.prepend.lo, get.prepend.hi, k)
           app == ReadLog(get.append.lo, get.append.hi, k)
<1>1. q =
        IF get.prepend # NoRange
        THEN IF pre.err # "" THEN Result(pre.err, <<>>, cache)
             ELSE QueryPrepend(get.entries, pre.entries)
        ELSE IF get.append # NoRange
        THEN IF app.err # "" THEN Result(app.err, <<>>, cache)
             ELSE QueryAppend(get.entries, app.entries)
        ELSE Result("", FixSize(get.entries), cache)
  <2>1. lo # hi
    OBVIOUS
  <2> QED
    BY <2>1, Zenon DEF QueryRaftLog
<1>2. /\ get.entries \in Seq(LogEntry)
      /\ get.prepend # NoRange =>
           /\ get.prepend.lo = lo /\ get.prepend.hi \in Nat
           /\ lo < get.prepend.hi /\ get.prepend.hi <= hi
      /\ get.append # NoRange =>
           /\ get.append.lo \in Nat \ {0} /\ get.append.lo < hi
           /\ get.append.hi = hi
      /\ get.prepend = NoRange /\ get.append = NoRange
           /\ LargestIndex(cache) < hi => get.entries # <<>>
  BY GetRanges
<1> HIDE DEF get
<1>3. CASE get.prepend # NoRange
  <2>1. AfterRead(q, get.entries, pre)
    BY <1>1, <1>3, Zenon DEF AfterRead
  <2>2. pre = ReadLog(lo, get.prepend.hi, k)
    BY <1>2, <1>3, Zenon
  <2> QED
    BY <1>2, <1>3, <2>1, <2>2, Zenon
<1>4. CASE get.prepend = NoRange /\ get.append # NoRange
  <2>1. AfterRead(q, get.entries, app)
    BY <1>1, <1>4, Zenon DEF AfterRead
  <2>2. app = ReadLog(get.append.lo, hi, k) /\ get.append.lo < hi
    BY <1>2, <1>4, Zenon
  <2>3. hi <= hi
    OBVIOUS
  <2> QED
    BY <1>2, <1>4, <2>1, <2>2, <2>3, Zenon
<1>5. CASE get.prepend = NoRange /\ get.append = NoRange
  BY <1>1, <1>2, <1>5, Zenon
<1> QED
  BY <1>3, <1>4, <1>5, Zenon

(* The fields of the result of a query.                                    *)
LEMMA ResultFields ==
  ASSUME NEW q, NEW err, NEW e, NEW b, q = Result(err, e, b)
  PROVE  q.err = err /\ q.entries = e /\ q.buf = b
BY DEF Result

(* A query leaves nothing in the cache from behind its range.              *)
LEMMA QueryEnd ==
  ASSUME log \in Seq(Sizes), RunWithin(cache),
         NEW lo \in Nat \ {0}, NEW hi \in Nat,
         lo <= hi, hi <= Len(log) + 1, NEW k \in Nat \ {0},
         NEW q, q = QueryRaftLog(lo, hi, k)
  PROVE  LargestIndex(q.buf) = LargestIndex(cache) \/ LargestIndex(q.buf) < hi
<1>1. CASE lo = hi \/ ~ready
  <2>1. \E err : q = Result(err, <<>>, cache)
    BY <1>1, Zenon DEF QueryRaftLog
  <2> QED
    BY <2>1, ResultFields, Zenon
<1>2. CASE lo < hi /\ ready
  <2>1. PICK cached \in Seq(LogEntry) :
          \/ q = Result("", FixSize(cached), cache)
          \/ \E l \in Nat \ {0}, h \in Nat :
               l < h /\ h <= hi /\ AfterRead(q, cached, ReadLog(l, h, k))
    BY <1>2, QueryReads, Zenon
  <2>2. CASE q = Result("", FixSize(cached), cache)
    BY <2>2, ResultFields, Zenon
  <2>3. ASSUME NEW l \in Nat \ {0}, NEW h \in Nat, l < h, h <= hi,
               AfterRead(q, cached, ReadLog(l, h, k))
        PROVE  \/ LargestIndex(q.buf) = LargestIndex(cache)
               \/ LargestIndex(q.buf) < hi
    <3> DEFINE r == ReadLog(l, h, k)
               le == r.entries
    <3>1. CASE r.err # ""
      BY <2>3, <3>1, ResultFields, Zenon DEF AfterRead
    <3>2. CASE r.err = ""
      <4>1. \E e : \/ q = Result("", e, cache)
                   \/ q = Result("", e, Put(cache, le))
        BY <2>3, <3>2, Zenon DEF AfterRead, QueryPrepend, QueryAppend
      <4>2. h <= Len(log) + 1
        <5>1. Len(log) \in Nat
          BY LenProperties
        <5> QED
          BY <2>3, <5>1
      <4>3. IsRun(le, l) /\ le # <<>> /\ l + Len(le) <= h
        BY <2>3, <3>2, <4>2, ReadLogRun, Zenon
      <4> HIDE DEF le
      <4>4. LargestIndex(le) < hi
        <5>1. LargestIndex(le) = l + Len(le) - 1 /\ Len(le) \in Nat
          BY <4>3, LargestOfRun
        <5> QED
          BY <2>3, <4>3, <5>1
      <4>5. LargestIndex(Put(cache, le))
              \in {LargestIndex(cache), LargestIndex(le)}
        BY <4>3, PutLargest, Zenon DEF RunWithin
      <4> QED
        BY <4>1, <4>4, <4>5, ResultFields, Zenon
    <3> QED
      BY <3>1, <3>2
  <2> QED
    BY <2>1, <2>2, <2>3, Zenon
<1> QED
  BY <1>1, <1>2

(* A query of a non-empty range, none of whose successors are cached,      *)
(* returns an entry or says that the log is ahead.                         *)
LEMMA QueryProgress ==
  ASSUME EntriesFit, log \in Seq(Sizes), RunWithin(cache),
         NEW lo \in Nat \ {0}, NEW hi \in Nat,
         lo < hi, hi <= Len(log) + 1, LargestIndex(cache) < hi,
         NEW k \in Nat \ {0}, ready, ~deleted,
         NEW q, q = QueryRaftLog(lo, hi, k)
  PROVE  q.entries # <<>> \/ q.err = "ahead"
<1>1. PICK cached \in Seq(LogEntry) :
        \/ q = Result("", FixSize(cached), cache) /\ cached # <<>>
        \/ \E l \in Nat \ {0}, h \in Nat :
             l < h /\ h <= hi /\ AfterRead(q, cached, ReadLog(l, h, k))
  BY QueryReads, Zenon
<1>2. CASE q = Result("", FixSize(cached), cache) /\ cached # <<>>
  BY <1>2, FixSizeKeepsFirst, ResultFields, Zenon
<1>3. ASSUME NEW l \in Nat \ {0}, NEW h \in Nat, l < h, h <= hi,
             AfterRead(q, cached, ReadLog(l, h, k))
      PROVE  q.entries # <<>> \/ q.err = "ahead"
  <2> DEFINE r == ReadLog(l, h, k)
             le == r.entries
  <2>1. h <= Len(log) + 1
    <3>1. Len(log) \in Nat
      BY LenProperties
    <3> QED
      BY <1>3, <3>1
  <2>2. /\ r.err \in {"", "ahead", "unknown"}
        /\ r.err = "unknown" => deleted
        /\ r.err = "" => IsRun(le, l) /\ le # <<>>
    BY <1>3, <2>1, ReadLogRun, Zenon
  <2>3. CASE r.err # ""
    BY <1>3, <2>2, <2>3, ResultFields, Zenon DEF AfterRead
  <2>4. CASE r.err = ""
    <3>1. le \in Seq(LogEntry) /\ le # <<>>
      BY <2>2, <2>4, Zenon DEF IsRun
    <3>2. \E b : \/ q = Result("", FixSize(le \o cached), b)
                 \/ q = Result("", FixSize(cached \o le), b)
                 \/ q = Result("", le, b)
      BY <1>3, <2>4, <3>1, Zenon DEF AfterRead, QueryPrepend, QueryAppend
    <3> HIDE DEF le
    <3>3. /\ le \o cached \in Seq(LogEntry) /\ le \o cached # <<>>
          /\ cached \o le \in Seq(LogEntry) /\ cached \o le # <<>>
      <4>1. Len(le) \in Nat \ {0} /\ Len(cached) \in Nat
        BY <3>1, EmptySeq, LenProperties
      <4>2. /\ le \o cached \in Seq(LogEntry) /\ cached \o le \in Seq(LogEntry)
            /\ Len(le \o cached) = Len(le) + Len(cached)
            /\ Len(cached \o le) = Len(cached) + Len(le)
        BY <3>1, ConcatProperties
      <4>3. Len(le) + Len(cached) # 0 /\ Len(cached) + Len(le) # 0
        BY <4>1
      <4> QED
        BY <4>2, <4>3, EmptySeq
    <3>4. FixSize(le \o cached) # <<>> /\ FixSize(cached \o le) # <<>>
      BY <3>3, FixSizeKeepsFirst
    <3> QED
      BY <3>1, <3>2, <3>4, ResultFields, Zenon
  <2> QED
    BY <2>3, <2>4
<1> QED
  BY <1>1, <1>2, <1>3, Zenon

(* The largest index of the cache is a number.                             *)
LEMMA LargestNat ==
  ASSUME NEW buf, RunWithin(buf)
  PROVE  LargestIndex(buf) \in Nat
<1>1. PICK c : IsRun(buf, c)
  BY DEF RunWithin
<1>2. CASE buf = <<>>
  BY <1>2 DEF LargestIndex
<1>3. CASE buf # <<>>
  <2>1. /\ LargestIndex(buf) = c + Len(buf) - 1
        /\ Len(buf) \in Nat \ {0} /\ c \in Nat \ {0}
    BY <1>1, <1>3, LargestOfRun
  <2> QED
    BY <2>1
<1> QED
  BY <1>2, <1>3

(* The cache holds no entry that is not applied: with it, cache.get can    *)
(* not take a range that ends where the cache starts.                      *)
CacheApplied == LargestIndex(cache) <= applied

(* Every step keeps the cache within what is applied.                      *)
LEMMA CacheAppliedStep ==
  ASSUME IInv, IInv', CacheApplied, [Next]_vars
  PROVE  CacheApplied'
<1>1. /\ log \in Seq(Sizes) /\ applied \in Nat /\ applied <= Len(log)
      /\ Len(log) \in Nat /\ RunWithin(cache) /\ applied' \in Nat
  BY LenProperties, CacheOKWithin DEF IInv, Types
<1>2. LargestIndex(cache) \in Nat
  BY <1>1, LargestNat
<1>3. ASSUME cache' = <<>> PROVE CacheApplied'
  <2>1. LargestIndex(cache') = 0
    BY <1>3 DEF LargestIndex
  <2> QED
    BY <1>1, <2>1 DEF CacheApplied
<1>4. ASSUME cache' = cache, applied <= applied' PROVE CacheApplied'
  <2>1. LargestIndex(cache') = LargestIndex(cache)
    BY <1>4, Zenon
  <2> QED
    BY <1>1, <1>2, <1>4, <2>1 DEF CacheApplied
<1>5. applied <= applied /\ applied <= applied + 1
  BY <1>1
<1>6. ASSUME NEW f \in Followers, ReplicateQuery(f) PROVE CacheApplied'
  <2>1. PICK k \in 1..MaxLog :
           cache' = QueryRaftLog(stream[f].lo, stream[f].hi, k).buf
    BY <1>6, Zenon DEF ReplicateQuery
  <2> DEFINE lo == stream[f].lo
             hi == stream[f].hi
             q == QueryRaftLog(lo, hi, k)
  <2>2. /\ lo \in Nat \ {0} /\ hi \in Nat /\ lo <= hi /\ hi <= applied + 1
        /\ stream[f].pc = "open" /\ applied' = applied
    <3>1. stream[f].pc = "open" /\ applied' = applied
      BY <1>6 DEF ReplicateQuery
    <3>2. /\ RunOf(log, got[f], next[f]) /\ lo = next[f] + Len(got[f])
          /\ lo <= hi /\ hi <= applied + 1
      BY <3>1 DEF IInv, Streams, StreamOK
    <3>3. stream[f] \in StreamType /\ next[f] \in Nat \ {0} /\ Len(got[f]) \in Nat
      BY LenProperties DEF IInv, Types
    <3>4. hi \in Nat
      BY <3>3 DEF StreamType
    <3> HIDE DEF lo, hi
    <3> QED
      BY <3>1, <3>2, <3>3, <3>4
  <2>3. k \in Nat \ {0}
    BY LogAssumption
  <2> HIDE DEF lo, hi
  <2>4. hi <= Len(log) + 1
    BY <1>1, <2>2
  <2>5. LargestIndex(q.buf) = LargestIndex(cache) \/ LargestIndex(q.buf) < hi
    BY <1>1, <2>2, <2>3, <2>4, QueryEnd
  <2>6. cache' = q.buf
    BY <2>1 DEF lo, hi
  <2> HIDE DEF q
  <2>7. RunWithin(q.buf)
    BY <1>1, <2>2, <2>3, <2>4, QueryCorrect DEF q, QueryOK, IInv, Types
  <2>8. LargestIndex(q.buf) \in Nat
    BY <2>7, LargestNat
  <2>9. LargestIndex(q.buf) <= applied
    BY <1>1, <1>2, <2>2, <2>5, <2>8 DEF CacheApplied
  <2> QED
    BY <2>2, <2>6, <2>9 DEF CacheApplied
<1>7. CASE AppendEntry \/ Compact \/ RemoveData
  BY <1>4, <1>5, <1>7 DEF AppendEntry, Compact, RemoveData
<1>8. CASE ApplyEntry
  BY <1>4, <1>5, <1>8 DEF ApplyEntry
<1>9. CASE NodeReady \/ NodeDeleted \/ LogCompacted
  BY <1>3, <1>9 DEF NodeReady, NodeDeleted, LogCompacted
<1>10. ASSUME NEW f \in Followers, Replicate(f) \/ ReplicateBehind(f)
       PROVE  CacheApplied'
  BY <1>4, <1>5, <1>10 DEF Replicate, ReplicateBehind
<1>11. ASSUME NEW f \in Followers,
              StreamEnd(f) \/ StreamSnapshot(f) \/ StreamBreak(f)
       PROVE  CacheApplied'
  BY <1>4, <1>5, <1>11 DEF StreamEnd, StreamSnapshot, StreamBreak
<1>12. CASE UNCHANGED vars
  BY <1>4, <1>5, <1>12 DEF vars
<1> QED
  BY <1>6, <1>7, <1>8, <1>9, <1>10, <1>11, <1>12, Zenon DEF Next

(* The first query of a poll sends an entry or answers USE_SNAPSHOT        *)
(* (LogServer.Replicate, Cached.QueryRaftLog), for every cache size,       *)
(* whatever is cached and compacted, if entries fit into a message.        *)
THEOREM PollsProgress ==
  ASSUME EntriesFit
  PROVE  Spec => []PollProgress
<1>1. Init => CacheApplied
  BY DEF Init, CacheApplied, LargestIndex
<1>2. IInv /\ CacheApplied /\ IInv' /\ [Next]_vars => CacheApplied'
  BY CacheAppliedStep
<1>3. IInv /\ CacheApplied => PollProgress
  <2> SUFFICES ASSUME IInv, CacheApplied, NEW f \in Followers,
                      NEW k \in 1..MaxLog, next[f] <= applied, ready, ~deleted
               PROVE  LET q == QueryRaftLog(next[f], applied + 1, k)
                      IN q.entries # <<>> \/ q.err = "ahead"
    BY Zenon DEF PollProgress
  <2>1. /\ log \in Seq(Sizes) /\ applied \in Nat /\ applied <= Len(log)
        /\ Len(log) \in Nat /\ RunWithin(cache) /\ next[f] \in Nat \ {0}
        /\ LargestIndex(cache) \in Nat /\ k \in Nat \ {0}
    BY LenProperties, CacheOKWithin, LargestNat, LogAssumption DEF IInv, Types
  <2>2. /\ applied + 1 \in Nat /\ next[f] < applied + 1
        /\ applied + 1 <= Len(log) + 1 /\ LargestIndex(cache) < applied + 1
    BY <2>1 DEF CacheApplied
  <2> QED
    BY <2>1, <2>2, QueryProgress
<1> QED
  BY <1>1, <1>2, <1>3, Invariance, PTL DEF Spec
=============================================================================
