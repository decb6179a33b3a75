---------------------------- MODULE RtpsReliable ----------------------------
(* One StatefulWriter (rtps/writer_sm.zig), its HistoryCache               *)
(* (rtps/history.zig), and the StatefulReaders (rtps/reader_sm.zig) matched *)
(* with it, over a network that loses, duplicates, delays and reorders.     *)
(*                                                                          *)
(* A handler is one action: it runs under the endpoint's `mu'.  Where the   *)
(* code releases `mu' to send, it has made its state changes first, and a   *)
(* message it sends late is a message the network delays.                   *)
(*                                                                          *)
(* Abstractions.  A message reaches one reader.  HEARTBEAT counts are kept  *)
(* per reader: a reader only compares the counts it gets.  A received set   *)
(* is the set of SNs that module ReceivedSet shows it to stand for.         *)
(* Coherent sets, fragments and held readers are not part of this module.   *)
EXTENDS Integers, FiniteSets

CONSTANTS
    Readers,        \* the readers that may match
    BestEffort,     \* the BEST_EFFORT ones among them
    WantsReplay,    \* those that request TRANSIENT_LOCAL (wants_replay)
    Local,          \* those of the writer's own participant (is_local)
    Instances,      \* instance handles
    MaxSN,          \* bound: changes written
    Depth,          \* KEEP_LAST depth; above MaxSN, KEEP_ALL
    ReplayOnMatch,  \* the writer is TRANSIENT_LOCAL (replay_on_match)
    NackWindow,     \* SNs an ACKNACK bitmap holds (256)
    MaxCount,       \* half the range of a submessage count (2^31)
    MaxMatch,       \* bound: matches the writer makes
    MaxReaderMatch, \* bound: matches each reader makes
    Live,           \* counts wrap, and a message is received at most once
    Cap             \* with Live, how many messages the network holds

ASSUME ReadersAssumption ==
    /\ BestEffort \subseteq Readers /\ WantsReplay \subseteq Readers
    /\ Local \subseteq Readers
ASSUME InstancesAssumption == Instances # {}
ASSUME BoundsAssumption ==
    /\ MaxSN \in Nat /\ Depth \in Nat \ {0} /\ NackWindow \in Nat \ {0}
    /\ MaxCount \in Nat \ {0} /\ MaxMatch \in Nat /\ MaxReaderMatch \in Nat
    /\ Cap \in Nat
ASSUME FlagsAssumption == ReplayOnMatch \in BOOLEAN /\ Live \in BOOLEAN

VARIABLES
    cache,      \* SNs in the writer's HistoryCache
    inst,       \* the instance of each SN written
    nextSn,     \* cache.next_sn
    flushed,    \* last_flushed_sn
    trimmed,    \* trimmed_through
    rp,         \* the writer's ReaderProxy of each reader
    hbCount,    \* hb_count, as each reader sees it
    wMatches,   \* matches the writer has made (last_match_id)
    wp,         \* each reader's WriterProxy
    ackCount,   \* each reader's ack_count
    rMatches,   \* matches each reader has made
    net,        \* messages sent and not lost
    evicted,    \* history: SNs KEEP_LAST has evicted
    given,      \* history: SNs each reader has ever delivered (on_data)
    passed      \* history: SNs each reader has ever delivered or given up

writerVars  == <<cache, inst, nextSn, flushed, trimmed, rp, hbCount, wMatches, evicted>>
readerVars  == <<wp, ackCount, rMatches, given, passed>>
vars        == <<writerVars, readerVars, net>>

SN       == 1..MaxSN
NoCount  == -1
Reliable == Readers \ BestEffort

(* setDropAcked: a RELIABLE writer that replays nothing drops what every    *)
(* reliable reader has acknowledged.                                        *)
DropAcked == ~ReplayOnMatch

Larger(a, b)  == IF a >= b THEN a ELSE b
Smaller(a, b) == IF a <= b THEN a ELSE b

(* minSn() and maxSn(): 0 for an empty set. *)
MinSn(S) == IF S = {} THEN 0 ELSE CHOOSE n \in S : \A m \in S : n <= m
MaxSn(S) == IF S = {} THEN 0 ELSE CHOOSE n \in S : \A m \in S : n >= m

(* ReceivedSet.cumulativeAck(): the unbroken prefix from 1. *)
CumAck(S) == CHOOSE k \in 0..MaxSN : 1..k \subseteq S /\ k + 1 \notin S

(* Counts are compared as signed differences modulo their range. *)
CountMod       == 2 * MaxCount
Newer(c, last) == last = NoCount \/ (c - last) % CountMod \in 1..(MaxCount - 1)

(* The n-th count after c.  With Live it wraps; without, it stops past the  *)
(* bound, and no message that would carry such a count is delivered.        *)
Count(c, n)    == IF Live THEN (c + n) % CountMod
                  ELSE IF c + n <= MaxCount THEN c + n ELSE MaxCount + 1
MayCount(c)    == Live \/ c <= MaxCount

-----------------------------------------------------------------------------
(* Messages, each for (or from) one reader. *)

Data(r, sn)           == [type |-> "DATA", reader |-> r, sn |-> sn]
Gap(r, from, to)      == [type |-> "GAP", reader |-> r, from |-> from, to |-> to]
Hb(r, f, l, c, final) == [type |-> "HB", reader |-> r, first |-> f, last |-> l,
                          count |-> c, final |-> final]
AckNack(r, b, S, c, final) == [type |-> "ACKNACK", reader |-> r, base |-> b, nack |-> S,
                               count |-> c, final |-> final]

(* A network that keeps every message delivers it late, out of order, many  *)
(* times or never.  With Live it delivers each message once, and when it is *)
(* full (Cap) what is sent displaces what was there, which is lost.  A      *)
(* handler that drops a message (unmatched, stale, malformed, a duplicate)  *)
(* changes nothing: not a step.                                             *)
AfterReceiving(m) == IF Live THEN net \ {m} ELSE net
Sent(old, msgs)   == IF Live /\ Cardinality(old \union msgs) > Cap THEN msgs ELSE old \union msgs

-----------------------------------------------------------------------------
(* The writer. *)

UnmatchedReader ==
    [matched |-> FALSE, startSn |-> 1, acked |-> 0, lastAck |-> NoCount, suppress |-> FALSE,
     floor |-> 0, hbFirst |-> 0, ready |-> FALSE]

FirstAvailable(c, t) == IF c = {} THEN (IF t > 0 THEN t + 1 ELSE 0) ELSE MinSn(c)
LastSent(c, t)       == Larger(MaxSn(c), t)

(* Fault: one SN too many is announced as gone. *)
HbFirstSnLate(first, last, start) ==
    IF last = 0 THEN 1 ELSE Larger(IF first = 0 THEN 1 ELSE first, start) + 1

HbFirstSn(first, last, start) ==
    IF last = 0 THEN 1 ELSE Larger(IF first = 0 THEN 1 ELSE first, start)

(* The HEARTBEAT for a reader whose first eligible SN is start, with the GAP *)
(* of what has left the cache since; nothing when it would be malformed.     *)
HeartbeatMsgs(r, start, c, t, last, count, final) ==
    LET first  == FirstAvailable(c, t)
        hbf    == HbFirstSn(first, last, start)
    IN  IF (last > 0 /\ hbf > last + 1) \/ ~MayCount(count)
        THEN {}
        ELSE {Hb(r, hbf, last, count, final)}
                 \union (IF first > start THEN {Gap(r, start, first)} ELSE {})

(* trimForKeepLast: what must leave so that the instance has room for one   *)
(* more: all but its Depth - 1 newest changes.                              *)
KeepLastVictims(ih) ==
    LET same == {s \in cache : inst[s] = ih}
    IN  {s \in same : Cardinality({u \in same : u > s}) >= Depth - 1}

(* trimAckedLocked: the highest SN that every reliable reader has           *)
(* acknowledged, of those already sent.                                     *)
TrimCandidates(f, proxies) ==
    {f} \union {proxies[r].acked : r \in {q \in Reliable : proxies[q].matched}}

TrimFloor(f, proxies) ==
    CHOOSE n \in TrimCandidates(f, proxies) : \A k \in TrimCandidates(f, proxies) : n <= k

TrimThrough(f, proxies) ==
    IF DropAcked THEN Larger(trimmed, TrimFloor(f, proxies)) ELSE trimmed

(* write() (and writeReserved()): a new change of ih, sent to the readers   *)
(* that are not waiting for their history, each reliable one with a         *)
(* HEARTBEAT of its own.                                                    *)
WriteMsgs(c) ==
    UNION {{Data(r, nextSn)}
              \union (IF r \in Reliable
                      THEN HeartbeatMsgs(r, rp[r].startSn, c, trimmed, LastSent(c, trimmed),
                                         Count(hbCount[r], 1), FALSE)
                      ELSE {}) :
           r \in {q \in Readers : rp[q].matched /\ ~rp[q].suppress}}

(* sendChangeToAllLocked copies what it sends, lets go of mu to send it and *)
(* takes it again: what other threads send meanwhile may overtake it, and   *)
(* the network reorders anyway, so the sends are one step with the write.   *)
Write(ih) ==
    LET victims == KeepLastVictims(ih)
        c       == (cache \ victims) \union {nextSn}
        t       == TrimThrough(nextSn, rp)
    IN  /\ nextSn <= MaxSN
        /\ inst' = [inst EXCEPT ![nextSn] = ih]
        /\ nextSn' = nextSn + 1
        /\ flushed' = nextSn
        /\ trimmed' = t
        /\ cache' = c \ (1..t)
        /\ evicted' = evicted \union victims
        /\ hbCount' = [r \in Readers |->
               IF r \in Reliable /\ rp[r].matched /\ ~rp[r].suppress
               THEN Count(hbCount[r], 1) ELSE hbCount[r]]
        /\ net' = Sent(net, WriteMsgs(c))
        /\ UNCHANGED <<rp, wMatches, readerVars>>

(* sendHeartbeat: from the heartbeat timer (non-final), or to assert        *)
(* liveliness (final, best-effort readers too).  A local reader that is     *)
(* caught up gets none.                                                     *)
HeartbeatTargets(liveliness) ==
    {r \in Readers : /\ rp[r].matched
                     /\ r \in Reliable \/ liveliness
                     /\ ~(r \in Local /\ rp[r].acked >= LastSent(cache, trimmed))}

(* Fault: a reader that is replayed its history hears of nothing else. *)
PeriodicLastCapped(r) ==
    IF rp[r].suppress THEN Smaller(LastSent(cache, trimmed), rp[r].floor) ELSE LastSent(cache, trimmed)

PeriodicLast(r) == LastSent(cache, trimmed)

SendHeartbeat(final, liveliness) ==
    /\ HeartbeatTargets(liveliness) # {}
    /\ net' = Sent(net, UNION {HeartbeatMsgs(r, rp[r].startSn, cache, trimmed,
                                             PeriodicLast(r), Count(hbCount[r], 1), final) :
                               r \in HeartbeatTargets(liveliness)})
    /\ hbCount' = [r \in Readers |-> Count(hbCount[r], 1)]
    /\ UNCHANGED <<cache, inst, nextSn, flushed, trimmed, rp, wMatches, evicted, readerVars>>

(* addOrRefreshMatchedReader of a new reader.  A replayed reliable reader   *)
(* gets a HEARTBEAT of the whole history and no live data until it has that *)
(* history; a best-effort one gets the history itself.                      *)
MatchedProxy(r) ==
    LET replay == ReplayOnMatch /\ r \in WantsReplay
        start  == IF replay THEN 1 ELSE nextSn
        last   == LastSent(cache, trimmed)
        hold   == r \in Reliable /\ replay /\ cache # {} /\ MinSn(cache) <= last
    IN  [matched |-> TRUE, startSn |-> start, acked |-> 0, lastAck |-> NoCount,
         suppress |-> hold, floor |-> IF hold THEN last ELSE 0,
         hbFirst |-> HbFirstSn(FirstAvailable(cache, trimmed), last, start),
         ready |-> r \in BestEffort]

AddMatchedReader(r) ==
    LET p == MatchedProxy(r)
    IN  /\ ~rp[r].matched
        /\ wMatches < MaxMatch
        /\ wMatches' = wMatches + 1
        /\ rp' = [rp EXCEPT ![r] = p]
        /\ IF r \in Reliable
           THEN /\ net' = Sent(net, HeartbeatMsgs(r, p.startSn, cache, trimmed,
                                        LastSent(cache, trimmed), Count(hbCount[r], 1), FALSE))
                /\ hbCount' = [hbCount EXCEPT ![r] = Count(@, 1)]
           ELSE /\ net' = Sent(net, IF ReplayOnMatch /\ r \in WantsReplay
                                    THEN {Data(r, s) : s \in cache} ELSE {})
                /\ UNCHANGED hbCount
        /\ UNCHANGED <<cache, inst, nextSn, flushed, trimmed, evicted, readerVars>>

(* removeMatchedReaderDeferred: what only this reader had yet to            *)
(* acknowledge is dropped.                                                  *)
RemoveMatchedReader(r) ==
    LET proxies == [rp EXCEPT ![r].matched = FALSE]
        t       == TrimThrough(flushed, proxies)
    IN  /\ rp[r].matched
        /\ rp' = proxies
        /\ trimmed' = t
        /\ cache' = cache \ (1..t)
        /\ UNCHANGED <<inst, nextSn, flushed, hbCount, wMatches, evicted, readerVars, net>>

(* handleAckNack.  Stale and duplicate ACKNACKs are dropped, but only once  *)
(* live data flows, and by the count of the last one that was answered.     *)
AckIsStale(p, m) == ~p.suppress /\ ~Newer(m.count, p.lastAck)

(* Fault: the reader must ask for more than the match-time HEARTBEAT offered. *)
ShowsReadyLate(p, m) == m.base > p.hbFirst

(* The readiness handshake: the next SN this reader expects is no lower than *)
(* the firstSN of the HEARTBEAT it was sent when it matched.                 *)
ShowsReady(p, m) == m.base >= p.hbFirst

(* The proxy once the ACKNACK is accounted for; c is the trimmed cache. *)
AckedProxy(p, m, c, answered) ==
    LET acked  == Larger(p.acked, m.base - 1)
        past   == MinSn(c) > p.floor \/ (~m.final /\ m.base - 1 >= p.floor)
    IN  [p EXCEPT !.acked = acked, !.ready = @ \/ ShowsReady(p, m),
                  !.suppress = @ /\ ~past,
                  !.lastAck = IF answered THEN m.count ELSE @]

(* What an ACKNACK asks for that this reader may have: each SN is resent,    *)
(* or said to be gone.                                                      *)
Requested(p, m) == {s \in m.nack : s >= p.startSn /\ s < nextSn}

(* The last SN a HEARTBEAT that answers an ACKNACK announces. *)
AnswerLast(p, c, t) ==
    IF p.suppress /\ LastSent(c, t) > 0 THEN Smaller(LastSent(c, t), p.floor) ELSE LastSent(c, t)

AsksForHeartbeat(p, m, c, t) ==
    LET upTo == Smaller(MaxSn(c), LastSent(c, t))
    IN  /\ ~m.final
        /\ (IF p.suppress THEN Smaller(upTo, p.floor) ELSE upTo) >= Larger(m.base, p.startSn)

HandleAckNack(m) ==
    LET r        == m.reader
        early    == [rp EXCEPT ![r].acked = Larger(@, m.base - 1)]
        t        == TrimThrough(flushed, early)
        c        == cache \ (1..t)
        answered == Requested(rp[r], m) # {}
        p        == AckedProxy(rp[r], m, c, answered)
        hb1      == AsksForHeartbeat(p, m, c, t)
        asked    == IF hb1 THEN 1 ELSE 0
        msgs     == {IF s \in c THEN Data(r, s) ELSE Gap(r, s, s + 1) : s \in Requested(p, m)}
                    \union (IF hb1 THEN HeartbeatMsgs(r, p.startSn, c, t, AnswerLast(p, c, t),
                                                      Count(hbCount[r], 1), FALSE)
                            ELSE {})
                    \union (IF answered
                            THEN HeartbeatMsgs(r, p.startSn, c, t, AnswerLast(p, c, t),
                                               Count(hbCount[r], asked + 1), FALSE)
                            ELSE {})
    IN  /\ m.type = "ACKNACK"
        /\ rp[r].matched /\ r \in Reliable /\ ~AckIsStale(rp[r], m)
        /\ rp' = [rp EXCEPT ![r] = p]
        /\ trimmed' = t
        /\ cache' = c
        /\ hbCount' = [hbCount EXCEPT ![r] = Count(@, asked + IF answered THEN 1 ELSE 0)]
        /\ net' = Sent(AfterReceiving(m), msgs)
        /\ UNCHANGED <<inst, nextSn, flushed, wMatches, evicted, readerVars>>

-----------------------------------------------------------------------------
(* The readers. *)

NewWriterProxy(r, match) ==
    [matched |-> match, received |-> {}, pending |-> {}, lastHb |-> NoCount, floor |-> 0,
     est |-> ~(ReplayOnMatch /\ r \in WantsReplay), ready |-> match /\ r \in BestEffort,
     lost |-> {}, calls |-> [s \in SN |-> 0]]

(* on_data for each of S. *)
Deliver(w, S) == [w EXCEPT !.calls = [s \in SN |-> IF s \in S THEN @[s] + 1 ELSE @[s]]]

(* Fault: a buffered change stays buffered when it is delivered. *)
DeliverPendingKept(w, prev) == Deliver(w, {s \in w.pending : prev < s /\ s <= CumAck(w.received)})

(* deliverPendingLocked: buffered changes above prev that are now in order. *)
DeliverPending(w, prev) ==
    LET S == {s \in w.pending : prev < s /\ s <= CumAck(w.received)}
    IN  [Deliver(w, S) EXCEPT !.pending = @ \ S]

(* Fault: a best-effort reader takes whatever arrives. *)
DeliverChangeAny(r, w, sn) ==
    LET got == [w EXCEPT !.received = @ \union {sn}]
    IN  IF r \in BestEffort \/ sn = CumAck(w.received) + 1
        THEN DeliverPending(Deliver(got, {sn}), sn)
        ELSE [got EXCEPT !.pending = @ \union {sn}]

(* deliverChangeLocked. *)
DeliverChange(r, w, sn) ==
    LET got == [w EXCEPT !.received = @ \union {sn}]
    IN  IF r \in BestEffort
        THEN IF sn <= MaxSn(w.received) THEN w ELSE Deliver(got, {sn})
        ELSE IF sn = CumAck(w.received) + 1
        THEN DeliverPending(Deliver(got, {sn}), sn)
        ELSE [got EXCEPT !.pending = @ \union {sn}]

(* The SNs of S will never come: counted lost unless received. *)
GiveUp(w, S) == [w EXCEPT !.lost = @ \union (S \ w.received), !.received = @ \union S]

(* Fault: the highest SN received is acknowledged, holes and all. *)
AckBaseHighest(w, last) == Smaller(MaxSn(w.received), last) + 1

(* missingSnSet: base, and the SNs from there to last that are missing. *)
AckBase(w, last) == Smaller(CumAck(w.received), last) + 1
Missing(w, last) ==
    {s \in AckBase(w, last)..last : s \notin w.received /\ s < AckBase(w, last) + NackWindow}

(* sendAckNackLocked. *)
AckNackMsgs(r, w, last, count, final) ==
    IF MayCount(count) THEN {AckNack(r, AckBase(w, last), Missing(w, last), count, final)} ELSE {}

(* The reader's step to proxy w: what it has ever delivered, and given up. *)
SetProxy(r, w) ==
    /\ wp' = [wp EXCEPT ![r] = w]
    /\ given' = [given EXCEPT ![r] = @ \union {s \in SN : w.calls[s] > 0}]
    /\ passed' = [passed EXCEPT ![r] = @ \union {s \in SN : w.calls[s] > 0} \union w.lost]

(* addOrRefreshMatchedWriter of a new writer: a pre-emptive ACKNACK that    *)
(* acknowledges nothing.  Data held from before the match (unmatched_cache) *)
(* is data that arrives just after it.                                      *)
AddMatchedWriter(r) ==
    LET asks == r \in Reliable /\ r \notin Local
    IN  /\ ~wp[r].matched
        /\ rMatches[r] < MaxReaderMatch
        /\ rMatches' = [rMatches EXCEPT ![r] = @ + 1]
        /\ SetProxy(r, NewWriterProxy(r, TRUE))
        /\ ackCount' = [ackCount EXCEPT ![r] = IF asks THEN Count(@, 1) ELSE @]
        /\ net' = Sent(net, IF asks
                            THEN AckNackMsgs(r, NewWriterProxy(r, TRUE), 0, Count(ackCount[r], 1), FALSE)
                            ELSE {})
        /\ UNCHANGED writerVars

(* removeMatchedWriterDeferred. *)
RemoveMatchedWriter(r) ==
    /\ wp[r].matched
    /\ SetProxy(r, NewWriterProxy(r, FALSE))
    /\ UNCHANGED <<ackCount, rMatches, net, writerVars>>

(* handleData. *)
HandleData(m) ==
    LET r == m.reader
    IN  /\ m.type = "DATA"
        /\ wp[r].matched /\ m.sn \notin wp[r].received
        /\ SetProxy(r, DeliverChange(r, wp[r], m.sn))
        /\ net' = AfterReceiving(m)
        /\ UNCHANGED <<ackCount, rMatches, writerVars>>

(* Fault: gapList.base itself is taken for missing. *)
GapRangeClosed(m) == m.from..m.to

(* The SNs a GAP says will never come. *)
GapRange(m) == m.from..(m.to - 1)

(* handleGap. *)
HandleGap(m) ==
    LET r == m.reader
        w == GiveUp(wp[r], GapRange(m))
    IN  /\ m.type = "GAP"
        /\ wp[r].matched
        /\ SetProxy(r, IF r \in Reliable THEN DeliverPending(w, CumAck(wp[r].received)) ELSE w)
        /\ net' = AfterReceiving(m)
        /\ UNCHANGED <<ackCount, rMatches, writerVars>>

(* Fault: the first HEARTBEAT ends the wait for history. *)
HistoryFloorZero(w, m) == w.floor

(* The history to wait for is what the first HEARTBEAT announces. *)
HistoryFloor(w, m) == IF w.lastHb = NoCount /\ ~w.est THEN m.last ELSE w.floor

Replies(w, m) == ~m.final \/ CumAck(w.received) < m.last

(* handleHeartbeat: SNs below first are gone, a virtual GAP; what is missing *)
(* is asked for.                                                            *)
HeardProxy(r, m) ==
    LET w    == wp[r]
        cum  == CumAck(w.received)
        head == [w EXCEPT !.lastHb = m.count, !.ready = TRUE, !.est = TRUE,
                          !.floor = HistoryFloor(w, m)]
    IN  IF r \in Reliable /\ m.first > cum + 1
        THEN DeliverPending(GiveUp(head, (cum + 1)..(m.first - 1)), cum)
        ELSE head

HandleHeartbeat(m) ==
    LET r       == m.reader
        w       == HeardProxy(r, m)
        missing == CumAck(w.received) < m.last
        replies == r \in Reliable /\ Replies(w, m)
    IN  /\ m.type = "HB"
        /\ wp[r].matched /\ m.last >= m.first - 1 /\ Newer(m.count, wp[r].lastHb)
        /\ SetProxy(r, w)
        /\ ackCount' = [ackCount EXCEPT ![r] = IF replies THEN Count(@, 1) ELSE @]
        /\ net' = Sent(AfterReceiving(m),
                       IF replies THEN AckNackMsgs(r, w, m.last, Count(ackCount[r], 1), ~missing)
                       ELSE {})
        /\ UNCHANGED <<rMatches, writerVars>>

(* Fault: changes buffered behind a missing one are not counted. *)
UndeliveredHistoryUnbuffered(w) ==
    LET cum == CumAck(w.received)
    IN  IF ~w.est \/ w.floor <= cum THEN 0
        ELSE (w.floor - cum) - Cardinality(w.received \cap ((cum + 1)..w.floor))

(* undeliveredHistory: what a wait for historical data would still wait for. *)
UndeliveredHistory(w) ==
    LET cum == CumAck(w.received)
    IN  IF ~w.est \/ w.floor <= cum THEN 0
        ELSE (w.floor - cum) - Cardinality(w.received \cap ((cum + 1)..w.floor))
             + Cardinality({s \in w.pending : s <= w.floor})

-----------------------------------------------------------------------------
Init ==
    /\ cache = {} /\ inst = [s \in SN |-> CHOOSE i \in Instances : TRUE]
    /\ nextSn = 1 /\ flushed = 0 /\ trimmed = 0
    /\ rp = [r \in Readers |-> UnmatchedReader]
    /\ hbCount = [r \in Readers |-> 0] /\ wMatches = 0
    /\ wp = [r \in Readers |-> NewWriterProxy(r, FALSE)]
    /\ ackCount = [r \in Readers |-> 0] /\ rMatches = [r \in Readers |-> 0]
    /\ net = {} /\ evicted = {}
    /\ given = [r \in Readers |-> {}] /\ passed = [r \in Readers |-> {}]

Next ==
    \/ \E ih \in Instances : Write(ih)
    \/ SendHeartbeat(FALSE, FALSE)
    \/ SendHeartbeat(TRUE, TRUE)
    \/ \E r \in Readers : AddMatchedReader(r)
    \/ \E r \in Readers : RemoveMatchedReader(r)
    \/ \E r \in Readers : AddMatchedWriter(r)
    \/ \E r \in Readers : RemoveMatchedWriter(r)
    \/ \E m \in net : HandleAckNack(m)
    \/ \E m \in net : HandleData(m)
    \/ \E m \in net : HandleGap(m)
    \/ \E m \in net : HandleHeartbeat(m)

Spec == Init /\ [][Next]_vars

-----------------------------------------------------------------------------
(* Properties. *)

Message ==
    [type : {"DATA"}, reader : Readers, sn : SN]
    \union [type : {"GAP"}, reader : Readers, from : SN, to : 1..(MaxSN + 1)]
    \union [type : {"HB"}, reader : Readers, first : 1..(MaxSN + 1), last : 0..MaxSN,
            count : Nat, final : BOOLEAN]
    \union [type : {"ACKNACK"}, reader : Readers, base : 1..(MaxSN + 1), nack : SUBSET SN,
            count : Nat, final : BOOLEAN]

ReaderProxy ==
    [matched : BOOLEAN, startSn : 1..(MaxSN + 1), acked : 0..MaxSN, lastAck : Nat \union {NoCount},
     suppress : BOOLEAN, floor : 0..MaxSN, hbFirst : 0..(MaxSN + 1), ready : BOOLEAN]

WriterProxy ==
    [matched : BOOLEAN, received : SUBSET SN, pending : SUBSET SN, lastHb : Nat \union {NoCount},
     floor : 0..MaxSN, est : BOOLEAN, ready : BOOLEAN, lost : SUBSET SN, calls : [SN -> Nat]]

TypeOK ==
    /\ cache \in SUBSET SN /\ inst \in [SN -> Instances] /\ nextSn \in 1..(MaxSN + 1)
    /\ flushed \in 0..MaxSN /\ trimmed \in 0..MaxSN
    /\ rp \in [Readers -> ReaderProxy] /\ hbCount \in [Readers -> Nat] /\ wMatches \in 0..MaxMatch
    /\ wp \in [Readers -> WriterProxy] /\ ackCount \in [Readers -> Nat]
    /\ rMatches \in [Readers -> 0..MaxReaderMatch]
    /\ net \in SUBSET Message /\ evicted \in SUBSET SN
    /\ given \in [Readers -> SUBSET SN] /\ passed \in [Readers -> SUBSET SN]

(* A reliable reader delivers each change once, as soon as everything before *)
(* it is delivered or given up, and holds in `pending' exactly what it has   *)
(* and may not deliver yet (deliverChangeLocked, deliverPendingLocked,       *)
(* handleGap and the virtual GAP of handleHeartbeat together).               *)
DeliveredOnceInOrder ==
    \A r \in Reliable :
        LET w == wp[r]  cum == CumAck(w.received) IN
        \A s \in SN :
            /\ w.calls[s] = IF s <= cum /\ s \notin w.lost THEN 1 ELSE 0
            /\ s \in w.pending <=> s > cum /\ s \in w.received \ w.lost

(* Within a match, no reader (a best-effort one either) is handed a change  *)
(* older than one it was handed before.                                     *)
NeverBackwards ==
    [][\A r \in Readers : wp[r].matched /\ wp'[r].matched =>
          \A s, u \in SN : wp[r].calls[s] > 0 /\ wp'[r].calls[u] > wp[r].calls[u] => s < u]_vars

(* The writer still has every change that a matched reliable reader is owed *)
(* and has not been through: only KEEP_LAST drops it early, never           *)
(* trimAckedLocked, whatever ACKNACKs arrive late or twice, and whoever     *)
(* unmatches.                                                               *)
OwedIsKept ==
    \A r \in Reliable : rp[r].matched =>
        rp[r].startSn..(nextSn - 1) \subseteq cache \union evicted \union passed[r]

(* A reliable reader gives up only changes that KEEP_LAST evicted, that      *)
(* predate its match, or that it had delivered before it was matched anew:  *)
(* no HEARTBEAT or GAP, however stale, makes it skip a change it is owed.    *)
LossIsReal ==
    \A r \in Reliable :
        wp[r].lost \subseteq evicted \union given[r] \union 1..(rp[r].startSn - 1)

(* What the writer takes for acknowledged (waitAllAcked, trimAckedLocked)   *)
(* its reader has delivered or been told is gone.                           *)
AckedIsPassed == \A r \in Reliable : 1..rp[r].acked \subseteq passed[r]

(* undeliveredHistory, reported as SAMPLE_LOST when the writer goes, is the  *)
(* number of changes up to the history floor not delivered nor given up.     *)
HistoryAccounted ==
    \A r \in Reliable : wp[r].est =>
        UndeliveredHistory(wp[r]) =
            Cardinality({s \in 1..wp[r].floor : s \notin wp[r].lost /\ wp[r].calls[s] = 0})

(* historicalDelivered. *)
HistoricalDelivered(w) == w.est /\ CumAck(w.received) >= w.floor

(* When wait_for_historical_data returns, the reader has been through all   *)
(* the history the writer had when it matched the reader.  For the first    *)
(* match: a HEARTBEAT of an earlier one, delayed past a rematch, may carry  *)
(* an older range.                                                          *)
HistoryWaitSound ==
    \A r \in Reliable : wp[r].matched /\ rp[r].matched /\ HistoricalDelivered(wp[r]) =>
        1..rp[r].floor \subseteq passed[r]

(* The protocol implements the reliable topic: seen through what each reader *)
(* has been through (the cumulative acknowledgement of its received set) and *)
(* been handed, every handler is a step of ReliableTopic or changes nothing. *)
(* No loss, duplicate, delay or rematch makes a reader go back, skip what it *)
(* is owed, be handed a change twice, or get past what was written.          *)
Topic ==
    INSTANCE ReliableTopic WITH
        Readers <- Reliable,
        written <- nextSn - 1,
        gone    <- evicted,
        from    <- [r \in Reliable |-> rp[r].startSn],
        through <- [r \in Reliable |-> CumAck(wp[r].received)],
        handed  <- [r \in Reliable |-> wp[r].calls],
        ever    <- [r \in Reliable |-> given[r]]

ImplementsTopic == Topic!Spec
=============================================================================
