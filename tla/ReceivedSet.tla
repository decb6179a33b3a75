---------------------------- MODULE ReceivedSet ----------------------------
(* The set of sequence numbers a reader has had from one writer            *)
(* (rtps/received_set.zig): a list of [lo, hi] ranges, sorted, disjoint and *)
(* never adjacent, that insert() keeps coalesced.  `inserted' is the set    *)
(* the list stands for: a history variable, which no operator reads.        *)
(* A failed allocation in insert() leaves the list as it was.               *)
EXTENDS Integers, Sequences, FiniteSets

CONSTANT MaxSN      \* highest sequence number inserted

ASSUME MaxSNAssumption == MaxSN \in Nat

VARIABLES ranges,   \* ReceivedSet.ranges
          inserted  \* the SNs insert() has accepted

rvars == <<ranges, inserted>>

SnRange(lo, hi) == [lo |-> lo, hi |-> hi]

(* The SNs a list of ranges stands for. *)
Content(rs) == {n \in 1..MaxSN : \E i \in 1..Len(rs) : rs[i].lo <= n /\ n <= rs[i].hi}

(* Sorted: the scan stops at the first range that starts above sn. *)
Contains(rs, sn) ==
    \E i \in 1..Len(rs) : /\ \A j \in 1..i : rs[j].lo <= sn
                          /\ sn <= rs[i].hi

(* How many leading ranges start at or below sn: where insert() puts it. *)
InsertIdx(rs, sn) ==
    CHOOSE i \in 0..Len(rs) : /\ \A j \in 1..i : rs[j].lo <= sn
                              /\ i < Len(rs) => rs[i + 1].lo > sn

JoinsPred(rs, i, sn) == i > 0 /\ rs[i].hi + 1 = sn

(* Fault: a range is never joined to the one that follows it. *)
JoinsSuccNever(rs, i, sn) == FALSE

JoinsSucc(rs, i, sn) == i < Len(rs) /\ sn + 1 = rs[i + 1].lo

(* Fault: the range that a joined pair leaves ends at sn. *)
InsertAtShort(rs, i, sn) ==
    LET p == IF JoinsPred(rs, i, sn) THEN 1 ELSE 0
        s == IF JoinsSucc(rs, i, sn) THEN 1 ELSE 0
    IN  [k \in 1..(Len(rs) + 1 - p - s) |->
            IF k < i + 1 - p THEN rs[k]
            ELSE IF k = i + 1 - p THEN SnRange(IF p = 1 THEN rs[i].lo ELSE sn, sn)
            ELSE rs[k - 1 + p + s]]

(* The list after sn went in behind its first i ranges and was coalesced   *)
(* with its neighbours: a range that joins one or both takes their place.   *)
InsertAt(rs, i, sn) ==
    LET p  == IF JoinsPred(rs, i, sn) THEN 1 ELSE 0
        s  == IF JoinsSucc(rs, i, sn) THEN 1 ELSE 0
        lo == IF p = 1 THEN rs[i].lo ELSE sn
        hi == IF s = 1 THEN rs[i + 1].hi ELSE sn
    IN  [k \in 1..(Len(rs) + 1 - p - s) |->
            IF k < i + 1 - p THEN rs[k]
            ELSE IF k = i + 1 - p THEN SnRange(lo, hi)
            ELSE rs[k - 1 + p + s]]

(* SEQUENCENUMBER_UNKNOWN (-1) and 0 are no SNs. *)
Accepts(rs, sn) == sn >= 1 /\ ~Contains(rs, sn)

InsertResult(rs, sn) ==
    IF Accepts(rs, sn) THEN InsertAt(rs, InsertIdx(rs, sn), sn) ELSE rs

CumulativeAck(rs) == IF rs = <<>> \/ rs[1].lo > 1 THEN 0 ELSE rs[1].hi

MaxReceived(rs) == IF rs = <<>> THEN 0 ELSE rs[Len(rs)].hi

Overlap(r, lo, hi) ==
    LET a == IF r.lo > lo THEN r.lo ELSE lo
        b == IF r.hi < hi THEN r.hi ELSE hi
    IN  IF a <= b THEN b - a + 1 ELSE 0

(* Fault: a range that starts below lo is counted from its own start. *)
CountBetweenUnclipped(rs, lo, hi) ==
    LET sum[i \in 0..Len(rs)] ==
            IF i = 0 THEN 0 ELSE sum[i - 1] + Overlap(rs[i], rs[i].lo, hi)
    IN  sum[Len(rs)]

CountBetween(rs, lo, hi) ==
    LET sum[i \in 0..Len(rs)] ==
            IF i = 0 THEN 0 ELSE sum[i - 1] + Overlap(rs[i], lo, hi)
    IN  sum[Len(rs)]

ReceivedInit == ranges = <<>> /\ inserted = {}

(* insert(sn), for any sn the wire may carry: 0 and negative ones too. *)
Insert(sn) ==
    /\ ranges' = InsertResult(ranges, sn)
    /\ inserted' = IF sn >= 1 THEN inserted \union {sn} ELSE inserted

ReceivedNext == \E sn \in -1..MaxSN : Insert(sn)

ReceivedSpec == ReceivedInit /\ [][ReceivedNext]_rvars

-----------------------------------------------------------------------------
ReceivedTypeOK ==
    /\ ranges \in Seq([lo : 1..MaxSN, hi : 1..MaxSN])
    /\ inserted \in SUBSET (1..MaxSN)

(* What the field comment of ReceivedSet.ranges promises: no range is empty, *)
(* and between one range and the next at least one SN is missing.  contains() *)
(* and max() stop early because of it, cumulativeAck() reads only the first   *)
(* range because of it.                                                       *)
Coalesced ==
    /\ \A i \in 1..Len(ranges) : ranges[i].lo <= ranges[i].hi
    /\ \A i, j \in 1..Len(ranges) : i < j => ranges[i].hi + 1 < ranges[j].lo

(* The list stands for exactly the SNs inserted, whatever order they came in: *)
(* nothing is lost and nothing invented where insert() joins ranges, and      *)
(* contains(), with its early return, finds exactly those.                    *)
ContentExact ==
    /\ Content(ranges) = inserted
    /\ \A sn \in -1..(MaxSN + 1) : Contains(ranges, sn) <=> sn \in inserted

(* cumulativeAck(), max() and countBetween() return what their comments say   *)
(* of the set: the end of its unbroken prefix from 1 (what ACKNACK            *)
(* acknowledges), its greatest SN, and how many it has in an interval.        *)
QueriesExact ==
    /\ LET k == CumulativeAck(ranges)
       IN  1..k \subseteq inserted /\ k + 1 \notin inserted
    /\ LET m == MaxReceived(ranges)
       IN  /\ inserted = {} => m = 0
           /\ inserted # {} => m \in inserted /\ \A n \in inserted : n <= m
    /\ \A lo, hi \in 0..(MaxSN + 1) :
           CountBetween(ranges, lo, hi) = Cardinality(inserted \cap (lo..hi))
=============================================================================
