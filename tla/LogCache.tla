------------------------------ MODULE LogCache ------------------------------
(***************************************************************************)
(* The per-shard cache of Raft entries that log readers share              *)
(* (storage/logreader/cache.go), and the size limit of a query's result.   *)
(* An entry is a record with its Index and its Size; a buffer is a sequence*)
(* of entries.  Ranges [lo, hi) are right half-open; the range [0, 0) says *)
(* that nothing is to be read.                                             *)
(***************************************************************************)
EXTENDS Integers, Sequences

CONSTANTS
    CacheSize,   \* ShardCacheSize
    MaxSize      \* LogServer.maxMessageSize

ASSUME CacheAssumption == CacheSize \in Nat \ {0} /\ MaxSize \in Nat

SmallestIndex(buf) == IF buf = <<>> THEN 0 ELSE buf[1].Index

LargestIndex(buf) == IF buf = <<>> THEN 0 ELSE buf[Len(buf)].Index

Least(S) == CHOOSE i \in S : \A j \in S : i <= j

(* Position of the first entry whose index is at least idx; one past the   *)
(* end when there is none.                                                 *)
FindIndex(entries, idx) ==
    LET found == {i \in 1..Len(entries) : entries[i].Index >= idx}
    IN IF found = {} THEN Len(entries) + 1 ELSE Least(found)

MakeRoomAndAppend(buf, entries) ==
    LET excess == Len(buf) + Len(entries) - CacheSize
    IN (IF excess > 0 THEN SubSeq(buf, excess + 1, Len(buf)) ELSE buf)
         \o entries

(* The newest CacheSize entries.                                           *)
Newest(entries) ==
    IF Len(entries) > CacheSize
    THEN SubSeq(entries, Len(entries) - CacheSize + 1, Len(entries))
    ELSE entries

Put(buf, entries) ==
    IF entries = <<>> THEN buf
    ELSE IF LargestIndex(buf) = 0 THEN MakeRoomAndAppend(buf, Newest(entries))
    ELSE LET new == Newest(entries)
             i == FindIndex(new, LargestIndex(buf) + 1)
         IN IF i > Len(new) THEN buf
            ELSE MakeRoomAndAppend(buf, SubSeq(new, i, Len(new)))

NoRange == [lo |-> 0, hi |-> 0]

(* cache.get: the entries of [lo, hi) that are cached, the range missing   *)
(* in front of them and the range missing behind them.                     *)
CacheGet(buf, lo, hi) ==
    LET range == [lo |-> lo, hi |-> hi]
        smallest == SmallestIndex(buf)
        largest == LargestIndex(buf)
        cached == SubSeq(buf, FindIndex(buf, lo), FindIndex(buf, hi) - 1)
    IN IF buf = <<>> \/ smallest > hi
       THEN [entries |-> <<>>, prepend |-> range, append |-> NoRange]
       ELSE IF largest < lo
       THEN [entries |-> <<>>, prepend |-> NoRange, append |-> range]
       ELSE [entries |-> cached,
             prepend |-> IF cached # <<>> /\ lo < smallest
                         THEN [lo |-> lo, hi |-> smallest] ELSE NoRange,
             append |-> IF cached # <<>> /\ hi > largest + 1
                        THEN [lo |-> largest + 1, hi |-> hi] ELSE NoRange]

(* Cumulative size of the first n entries.                                 *)
SizeOf(entries, n) ==
    LET size[i \in 0..n] ==
          IF i = 0 THEN 0 ELSE size[i - 1] + entries[i].Size
    IN size[n]

(* Mutant of FixSize: the result is cut one unit earlier.                  *)
FixSizeTight(entries) ==
    LET over == {i \in 1..Len(entries) : SizeOf(entries, i) + 1 >= MaxSize}
    IN IF over = {} THEN entries ELSE SubSeq(entries, 1, Least(over) - 1)

(* fixSize cuts the result before the entry that reaches MaxSize, be it    *)
(* the first one.                                                          *)
FixSize(entries) ==
    LET over == {i \in 1..Len(entries) : SizeOf(entries, i) >= MaxSize}
    IN IF over = {} THEN entries ELSE SubSeq(entries, 1, Least(over) - 1)
=============================================================================
