------------------------ MODULE RtpsReliable_proofs ------------------------
(* Proofs about RtpsReliable, for any readers, history, bounds and network:  *)
(* the types; that the writer keeps what a reliable reader is owed; that a   *)
(* reader gives up nothing but what is gone; that acknowledged means         *)
(* delivered or gone; and that delivery is in order and once.                *)
EXTENDS RtpsReliable, LeastElement, TLAPS

-----------------------------------------------------------------------------
(* What the helpers return. *)

(* cumulativeAck() is well defined. *)
LEMMA CumAckProperty ==
    ASSUME NEW S \in SUBSET SN
    PROVE  /\ CumAck(S) \in 0..MaxSN
           /\ 1..CumAck(S) \subseteq S
           /\ CumAck(S) + 1 \notin S
<1> DEFINE T == {k \in 1..(MaxSN + 1) : k \notin S}
<1>1. MaxSN \in Nat /\ S \subseteq 1..MaxSN
      BY BoundsAssumption DEF SN
<1>2. T \subseteq Nat /\ MaxSN + 1 \in T
      BY <1>1
<1>3. PICK k \in T : \A y \in T : k <= y
      BY <1>2, LeastNatural
<1>4. k - 1 \in 0..MaxSN /\ (k - 1) + 1 \notin S
      BY <1>1, <1>3
<1>5. \A j \in 1..(k - 1) : j \in S
  <2> TAKE j \in 1..(k - 1)
  <2>1. j \in 1..(MaxSN + 1) /\ ~(k <= j)
        BY <1>1, <1>3
  <2> QED  BY <1>3, <2>1
<1>6. \E n \in 0..MaxSN : 1..n \subseteq S /\ n + 1 \notin S
      BY <1>4, <1>5
<1> QED  BY <1>6 DEF CumAck

LEMMA CumAckUnique ==
    ASSUME NEW S \in SUBSET SN, NEW k \in 0..MaxSN, 1..k \subseteq S, k + 1 \notin S
    PROVE  CumAck(S) = k
<1> DEFINE n == CumAck(S)
<1>1. n \in 0..MaxSN /\ 1..n \subseteq S /\ n + 1 \notin S
      BY CumAckProperty
<1> HIDE DEF n
<1>2. MaxSN \in Nat /\ n \in Int /\ k \in Int
      BY <1>1, BoundsAssumption
<1>3. ~(n < k)
  <2>1. n < k => n + 1 \in 1..k
        BY <1>1, <1>2
  <2> QED  BY <1>1, <2>1
<1>4. ~(k < n)
  <2>1. k < n => k + 1 \in 1..n
        BY <1>1, <1>2
  <2> QED  BY <1>1, <2>1
<1> QED  BY <1>2, <1>3, <1>4 DEF n

(* Receiving more acknowledges no less. *)
LEMMA CumAckMonotone ==
    ASSUME NEW S \in SUBSET SN, NEW T \in SUBSET SN, S \subseteq T
    PROVE  CumAck(S) <= CumAck(T)
<1> DEFINE a == CumAck(S)
           b == CumAck(T)
<1>1. a \in 0..MaxSN /\ 1..a \subseteq S /\ b \in 0..MaxSN /\ b + 1 \notin T
      BY CumAckProperty
<1> HIDE DEF a, b
<1>2. MaxSN \in Nat /\ a \in Int /\ b \in Int
      BY <1>1, BoundsAssumption
<1>3. b < a => b + 1 \in 1..a
      BY <1>1, <1>2
<1>4. ~(b < a)
      BY <1>1, <1>3
<1> QED  BY <1>2, <1>4 DEF a, b

LEMMA MinSnProperty ==
    ASSUME NEW S \in SUBSET SN
    PROVE  /\ MinSn(S) \in 0..MaxSN
           /\ S # {} => MinSn(S) \in S
           /\ \A s \in S : MinSn(S) <= s
<1>1. MaxSN \in Nat /\ S \subseteq 1..MaxSN
      BY BoundsAssumption DEF SN
<1>2. CASE S = {}
      BY <1>1, <1>2 DEF MinSn
<1>3. CASE S # {}
  <2>1. S \subseteq Nat
        BY <1>1
  <2>2. \E n \in S : \A y \in S : n <= y
        BY <1>3, <2>1, LeastNatural
  <2>3. MinSn(S) \in S /\ \A y \in S : MinSn(S) <= y
        BY <1>3, <2>2 DEF MinSn
  <2>4. MinSn(S) \in 1..MaxSN
        BY <1>1, <2>3
  <2> QED  BY <1>1, <2>3, <2>4
<1> QED  BY <1>2, <1>3

LEMMA MaxSnProperty ==
    ASSUME NEW S \in SUBSET SN
    PROVE  /\ MaxSn(S) \in 0..MaxSN
           /\ S # {} => MaxSn(S) \in S
           /\ \A s \in S : s <= MaxSn(S)
<1>1. MaxSN \in Nat /\ S \subseteq 1..MaxSN
      BY BoundsAssumption DEF SN
<1>2. CASE S = {}
      BY <1>1, <1>2 DEF MaxSn
<1>3. CASE S # {}
  <2>1. S \subseteq 0..MaxSN
        BY <1>1
  <2>2. \E n \in S : \A y \in S : y <= n
        BY <1>1, <1>3, <2>1, GreatestNatural
  <2>3. \E n \in S : \A y \in S : n >= y
        BY <2>1, <2>2, <1>1
  <2>4. MaxSn(S) \in S /\ \A y \in S : MaxSn(S) >= y
        BY <1>3, <2>3 DEF MaxSn
  <2>5. MaxSn(S) \in 1..MaxSN
        BY <1>1, <2>4
  <2>6. \A y \in S : y <= MaxSn(S)
        BY <1>1, <2>4, <2>5
  <2> QED  BY <1>1, <2>4, <2>5, <2>6
<1> QED  BY <1>2, <1>3

(* firstAvailableSn: nothing below it is in the cache, and what is below it  *)
(* was trimmed or is older than something cached.                            *)
LEMMA FirstAvailableProperty ==
    ASSUME NEW c \in SUBSET SN, NEW t \in 0..MaxSN
    PROVE  /\ FirstAvailable(c, t) \in 0..(MaxSN + 1)
           /\ \A s \in SN : s < FirstAvailable(c, t) =>
                  s \notin c /\ (s <= t \/ \E u \in c : s < u)
<1>1. MaxSN \in Nat /\ \A s \in SN : s \in Int
      BY BoundsAssumption DEF SN
<1>2. CASE c = {}
      BY <1>1, <1>2 DEF FirstAvailable
<1>3. CASE c # {}
  <2> DEFINE n == MinSn(c)
  <2>1. n \in 0..MaxSN /\ n \in c /\ \A s \in c : n <= s
        BY <1>3, MinSnProperty
  <2>2. FirstAvailable(c, t) = n
        BY <1>3 DEF FirstAvailable
  <2> HIDE DEF n
  <2>3. \A s \in SN : s < n => s \notin c
        BY <1>1, <2>1
  <2> QED  BY <1>1, <2>1, <2>2, <2>3
<1> QED  BY <1>2, <1>3

LEMMA LastSentProperty ==
    ASSUME NEW c \in SUBSET SN, NEW t \in 0..MaxSN
    PROVE  LastSent(c, t) \in 0..MaxSN
BY MaxSnProperty DEF LastSent, Larger

(* Counts stay natural numbers, wrapping or not. *)
LEMMA CountType ==
    ASSUME NEW c \in Nat, NEW n \in Nat
    PROVE  Count(c, n) \in Nat
<1>1. MaxCount \in Nat \ {0} /\ CountMod \in Nat \ {0}
      BY BoundsAssumption DEF CountMod
<1>2. \A x \in Nat, y \in Nat \ {0} : x % y \in Nat
      OBVIOUS
<1> HIDE DEF CountMod
<1> QED  BY <1>1, <1>2 DEF Count

(* trimAckedLocked never passes what is sent, nor what a matched reliable    *)
(* reader has yet to acknowledge.                                            *)
LEMMA TrimProperty ==
    ASSUME NEW proxies \in [Readers -> ReaderProxy], NEW f \in 0..MaxSN, trimmed \in 0..MaxSN
    PROVE  /\ TrimThrough(f, proxies) \in 0..MaxSN
           /\ trimmed <= TrimThrough(f, proxies)
           /\ ReplayOnMatch => TrimThrough(f, proxies) = trimmed
           /\ \/ TrimThrough(f, proxies) = trimmed
              \/ /\ TrimThrough(f, proxies) <= f
                 /\ \A r \in Reliable : proxies[r].matched =>
                        TrimThrough(f, proxies) <= proxies[r].acked
<1> DEFINE C == TrimCandidates(f, proxies)
<1>1. MaxSN \in Nat
      BY BoundsAssumption
<1>2. f \in C /\ \A r \in Reliable : proxies[r].matched => proxies[r].acked \in C
      BY DEF TrimCandidates
<1>3. \A r \in Readers : proxies[r].acked \in 0..MaxSN
      BY DEF ReaderProxy
<1>4. C \subseteq 0..MaxSN
      BY <1>3 DEF TrimCandidates, Reliable
<1>5. \E n \in C : \A k \in C : n <= k
  <2>1. C \subseteq Nat /\ C # {}
        BY <1>1, <1>2, <1>4
  <2> HIDE DEF C
  <2> QED  BY <2>1, LeastNatural
<1>6. TrimFloor(f, proxies) \in C /\ \A k \in C : TrimFloor(f, proxies) <= k
      BY <1>5 DEF TrimFloor
<1> HIDE DEF C
<1>7. TrimFloor(f, proxies) \in 0..MaxSN
      BY <1>4, <1>6
<1> DEFINE n == TrimFloor(f, proxies)
<1>8. n \in 0..MaxSN /\ n <= f /\ \A r \in Reliable : proxies[r].matched => n <= proxies[r].acked
      BY <1>2, <1>6, <1>7
<1>9. TrimThrough(f, proxies) = IF ~ReplayOnMatch THEN (IF trimmed >= n THEN trimmed ELSE n)
                                ELSE trimmed
      BY DEF TrimThrough, DropAcked, Larger
<1> HIDE DEF n
<1>10. trimmed \in Int /\ n \in Int
       BY <1>1, <1>8
<1>11. CASE ReplayOnMatch \/ trimmed >= n
       BY <1>1, <1>9, <1>10, <1>11
<1>12. CASE ~ReplayOnMatch /\ ~(trimmed >= n)
  <2>1. TrimThrough(f, proxies) = n
        BY <1>9, <1>12
  <2> QED  BY <1>8, <1>10, <1>12, <2>1
<1> QED  BY <1>11, <1>12

-----------------------------------------------------------------------------
(* The inductive invariant. *)

(* What the writer has written it has cached, evicted or trimmed, and it      *)
(* trims only when it replays nothing; a reader's first eligible SN never     *)
(* goes back, from one match to the next.                                    *)
WriterAccounts ==
    /\ cache \subseteq 1..(nextSn - 1)
    /\ flushed = nextSn - 1 /\ trimmed <= flushed
    /\ 1..(nextSn - 1) \subseteq cache \union evicted \union 1..trimmed
    /\ ReplayOnMatch => trimmed = 0
    /\ \A r \in Readers : /\ rp[r].startSn <= nextSn
                          /\ ReplayOnMatch /\ r \in WantsReplay => rp[r].startSn = 1

(* What was trimmed, every matched reliable reader it was meant for has been *)
(* through.                                                                  *)
TrimmedIsPassed ==
    \A r \in Reliable : rp[r].matched => rp[r].startSn..trimmed \subseteq passed[r]

(* What a reliable reader may be told it will never get. *)
Gone(r) == evicted \union passed[r] \union 1..(rp[r].startSn - 1)

(* Every message on its way, however old, is true of what the reader it is   *)
(* for, or from, has been through.                                          *)
NetSound ==
    \A m \in net :
        /\ m.type = "ACKNACK" => 1..(m.base - 1) \subseteq passed[m.reader]
        /\ m.type = "HB" /\ m.reader \in Reliable => 1..(m.first - 1) \subseteq Gone(m.reader)
        /\ m.type = "GAP" /\ m.reader \in Reliable =>
               m.from..(m.to - 1) \subseteq Gone(m.reader)

PassedAccounted ==
    \A r \in Reliable : passed[r] \subseteq evicted \union given[r] \union 1..(rp[r].startSn - 1)

(* One proxy of a reliable reader: DeliveredOnceInOrder up to the SN n,      *)
(* which is the cumulative ACK but for a step that is half done.             *)
InOrder(w, n) ==
    /\ w.lost \subseteq w.received
    /\ \A s \in SN : /\ w.calls[s] = IF s <= n /\ s \notin w.lost THEN 1 ELSE 0
                     /\ s \in w.pending <=> s > n /\ s \in w.received \ w.lost

ProxiesInOrder == \A r \in Reliable : InOrder(wp[r], CumAck(wp[r].received))

(* The history variables cover the current match. *)
PassedCovers ==
    \A r \in Reliable : {s \in SN : wp[r].calls[s] > 0} \union wp[r].lost \subseteq passed[r]

IInv ==
    /\ TypeOK
    /\ WriterAccounts
    /\ AckedIsPassed
    /\ TrimmedIsPassed
    /\ NetSound
    /\ PassedAccounted
    /\ ProxiesInOrder
    /\ PassedCovers

-----------------------------------------------------------------------------
(* Types of the operators. *)

LEMMA ConstantsType ==
    /\ MaxSN \in Nat /\ SN = 1..MaxSN /\ \A s \in SN : s \in Int
    /\ Reliable \subseteq Readers
BY BoundsAssumption DEF SN, Reliable

LEMMA NewWriterProxyType ==
    ASSUME NEW r, NEW match \in BOOLEAN
    PROVE  NewWriterProxy(r, match) \in WriterProxy
<1>1. [s \in SN |-> 0] \in [SN -> Nat]
      OBVIOUS
<1>2. (~(ReplayOnMatch /\ r \in WantsReplay)) \in BOOLEAN /\ (match /\ r \in BestEffort) \in BOOLEAN
      OBVIOUS
<1>3. 0 \in 0..MaxSN /\ NoCount \in Nat \union {NoCount}
      BY ConstantsType
<1> QED  BY <1>1, <1>2, <1>3 DEF NewWriterProxy, WriterProxy

LEMMA DeliverType ==
    ASSUME NEW w \in WriterProxy, NEW S
    PROVE  /\ Deliver(w, S) \in WriterProxy
           /\ Deliver(w, S).received = w.received /\ Deliver(w, S).pending = w.pending
           /\ Deliver(w, S).lost = w.lost /\ Deliver(w, S).matched = w.matched
           /\ \A s \in SN : Deliver(w, S).calls[s] = IF s \in S THEN w.calls[s] + 1 ELSE w.calls[s]
<1> DEFINE g == [s \in SN |-> IF s \in S THEN w.calls[s] + 1 ELSE w.calls[s]]
<1>1. w.calls \in [SN -> Nat]
      BY DEF WriterProxy
<1>2. g \in [SN -> Nat]
      BY <1>1
<1>3. Deliver(w, S) = [w EXCEPT !.calls = g]
      BY DEF Deliver
<1>4. \A s \in SN : g[s] = IF s \in S THEN w.calls[s] + 1 ELSE w.calls[s]
      OBVIOUS
<1> HIDE DEF g
<1>5. [w EXCEPT !.calls = g] \in WriterProxy
      BY <1>2 DEF WriterProxy
<1>6. [w EXCEPT !.calls = g].calls = g
      BY DEF WriterProxy
<1> QED  BY <1>3, <1>4, <1>5, <1>6 DEF WriterProxy

LEMMA DeliverPendingType ==
    ASSUME NEW w \in WriterProxy, NEW prev
    PROVE  LET S == {s \in w.pending : prev < s /\ s <= CumAck(w.received)}
               v == DeliverPending(w, prev)
           IN  /\ v \in WriterProxy
               /\ v.received = w.received /\ v.pending = w.pending \ S
               /\ v.lost = w.lost /\ v.matched = w.matched
               /\ \A s \in SN : v.calls[s] = IF s \in S THEN w.calls[s] + 1 ELSE w.calls[s]
<1> DEFINE S == {s \in w.pending : prev < s /\ s <= CumAck(w.received)}
           d == Deliver(w, S)
<1>1. /\ d \in WriterProxy /\ d.received = w.received /\ d.pending = w.pending
      /\ d.lost = w.lost /\ d.matched = w.matched
      /\ \A s \in SN : d.calls[s] = IF s \in S THEN w.calls[s] + 1 ELSE w.calls[s]
      BY DeliverType
<1>2. DeliverPending(w, prev) = [d EXCEPT !.pending = d.pending \ S]
      BY DEF DeliverPending
<1> HIDE DEF d, S
<1>3. d.pending \ S \in SUBSET SN
      BY <1>1 DEF WriterProxy
<1>4. /\ [d EXCEPT !.pending = d.pending \ S] \in WriterProxy
      /\ [d EXCEPT !.pending = d.pending \ S].received = d.received
      /\ [d EXCEPT !.pending = d.pending \ S].pending = d.pending \ S
      /\ [d EXCEPT !.pending = d.pending \ S].lost = d.lost
      /\ [d EXCEPT !.pending = d.pending \ S].matched = d.matched
      /\ [d EXCEPT !.pending = d.pending \ S].calls = d.calls
      BY <1>1, <1>3 DEF WriterProxy
<1> QED  BY <1>1, <1>2, <1>4 DEF S

LEMMA GiveUpType ==
    ASSUME NEW w \in WriterProxy, NEW S \in SUBSET SN
    PROVE  LET v == GiveUp(w, S)
           IN  /\ v \in WriterProxy
               /\ v.received = w.received \union S /\ v.pending = w.pending
               /\ v.lost = w.lost \union (S \ w.received) /\ v.matched = w.matched
               /\ v.calls = w.calls
<1>1. w.received \union S \in SUBSET SN /\ w.lost \union (S \ w.received) \in SUBSET SN
      BY DEF WriterProxy
<1> QED  BY <1>1 DEF GiveUp, WriterProxy

(* deliverPendingLocked completes a step whose prefix has grown: everything  *)
(* up to prev is settled, and what is buffered above it is now in order up   *)
(* to the new cumulative ACK.                                                *)
LEMMA DeliverPendingInOrder ==
    ASSUME NEW w \in WriterProxy, NEW prev \in 0..MaxSN,
           InOrder(w, prev), prev <= CumAck(w.received)
    PROVE  LET v == DeliverPending(w, prev) IN InOrder(v, CumAck(v.received))
<1> DEFINE v   == DeliverPending(w, prev)
           cum == CumAck(w.received)
           S   == {s \in w.pending : prev < s /\ s <= cum}
<1>1. /\ v.received = w.received /\ v.pending = w.pending \ S /\ v.lost = w.lost
      /\ \A s \in SN : v.calls[s] = IF s \in S THEN w.calls[s] + 1 ELSE w.calls[s]
      BY DeliverPendingType
<1>2. cum \in 0..MaxSN /\ 1..cum \subseteq w.received
  <2>1. w.received \in SUBSET SN
        BY DEF WriterProxy
  <2> QED  BY <2>1, CumAckProperty
<1>3. \A s \in SN : s \in S <=> prev < s /\ s <= cum /\ s \notin w.lost
      BY <1>2, ConstantsType DEF InOrder
<1> HIDE DEF v, S, cum
<1>4. ASSUME NEW s \in SN
      PROVE  /\ v.calls[s] = IF s <= cum /\ s \notin v.lost THEN 1 ELSE 0
             /\ s \in v.pending <=> s > cum /\ s \in v.received \ v.lost
  <2>1. /\ w.calls[s] = IF s <= prev /\ s \notin w.lost THEN 1 ELSE 0
        /\ s \in w.pending <=> s > prev /\ s \in w.received \ w.lost
        BY DEF InOrder
  <2>2. s \in Int /\ prev \in Int /\ cum \in Int /\ prev <= cum
        BY <1>2, ConstantsType DEF cum
  <2>3. s <= prev /\ s \notin w.lost => s \notin S /\ s <= cum
        BY <1>3, <2>2
  <2>4. s \in S => ~(s <= prev)
        BY <1>3, <2>2
  <2>5. v.calls[s] = IF s <= cum /\ s \notin v.lost THEN 1 ELSE 0
        BY <1>1, <1>3, <2>1, <2>2, <2>3, <2>4
  <2>6. s \in v.pending <=> s > cum /\ s \in v.received \ v.lost
        BY <1>1, <1>2, <1>3, <2>1, <2>2
  <2> QED  BY <2>5, <2>6
<1>5. v.lost \subseteq v.received
      BY <1>1 DEF InOrder
<1>6. CumAck(v.received) = cum
      BY <1>1 DEF cum
<1> QED  BY <1>4, <1>5, <1>6 DEF InOrder, v

(* What a handler puts on the network, and what it takes off. *)
LEMMA SentProperty ==
    ASSUME NEW old, NEW msgs
    PROVE  Sent(old, msgs) \subseteq old \union msgs
BY DEF Sent

LEMMA AfterReceivingProperty ==
    ASSUME NEW m
    PROVE  AfterReceiving(m) \subseteq net
BY DEF AfterReceiving

(* The fields of a message. *)
LEMMA MessageFields ==
    ASSUME NEW m \in Message
    PROVE  /\ m.reader \in Readers
           /\ m.type = "DATA" => m.sn \in SN
           /\ m.type = "GAP" => m.from \in SN /\ m.to \in 1..(MaxSN + 1)
           /\ m.type = "HB" => /\ m.first \in 1..(MaxSN + 1) /\ m.last \in 0..MaxSN
                               /\ m.count \in Nat
           /\ m.type = "ACKNACK" => /\ m.base \in 1..(MaxSN + 1) /\ m.nack \in SUBSET SN
                                    /\ m.count \in Nat
BY DEF Message

(* sendAckNackLocked: what it acknowledges, the reader has delivered or given *)
(* up.                                                                       *)
LEMMA AckNackSound ==
    ASSUME NEW r \in Readers, NEW w \in WriterProxy, InOrder(w, CumAck(w.received)),
           NEW last \in 0..MaxSN, NEW count \in Nat, NEW final \in BOOLEAN,
           NEW m \in AckNackMsgs(r, w, last, count, final)
    PROVE  /\ m \in Message /\ m.type = "ACKNACK" /\ m.reader = r
           /\ 1..(m.base - 1) \subseteq {s \in SN : w.calls[s] > 0} \union w.lost
<1> DEFINE cum == CumAck(w.received)
           b   == AckBase(w, last)
<1>1. cum \in 0..MaxSN
  <2>1. w.received \in SUBSET SN
        BY DEF WriterProxy
  <2> QED  BY <2>1, CumAckProperty
<1>2. m = AckNack(r, b, Missing(w, last), count, final)
      BY DEF AckNackMsgs
<1>3. b \in 1..(MaxSN + 1) /\ b - 1 <= cum
      BY <1>1, ConstantsType DEF AckBase, Smaller
<1>4. Missing(w, last) \in SUBSET SN
  <2>1. \A s \in b..last : s \in SN
        BY <1>3, ConstantsType
  <2> HIDE DEF b
  <2> QED  BY <2>1 DEF Missing, b
<1> HIDE DEF b, cum
<1>5. m \in Message /\ m.type = "ACKNACK" /\ m.reader = r /\ m.base = b
      BY <1>2, <1>3, <1>4 DEF AckNack, Message
<1>6. \A s \in 1..(b - 1) : s \in SN /\ s <= cum
      BY <1>1, <1>3, ConstantsType
<1>7. \A s \in SN : s <= cum => w.calls[s] > 0 \/ s \in w.lost
      BY DEF InOrder, cum
<1> QED  BY <1>5, <1>6, <1>7

-----------------------------------------------------------------------------
(* The steps. *)

(* A reader's step.  It changes one proxy, to one that is in order and gives  *)
(* up only what is gone, and sends no ACKNACK that says more.                *)
LEMMA ReaderStep ==
    ASSUME IInv, NEW r \in Readers, NEW w \in WriterProxy, SetProxy(r, w), UNCHANGED writerVars,
           r \in Reliable => InOrder(w, CumAck(w.received)) /\ w.lost \subseteq Gone(r),
           ackCount' \in [Readers -> Nat], rMatches' \in [Readers -> 0..MaxReaderMatch],
           NEW msgs, net' \subseteq net \union msgs,
           \A m \in msgs : /\ m \in Message /\ m.type = "ACKNACK" /\ m.reader = r
                           /\ 1..(m.base - 1) \subseteq {s \in SN : w.calls[s] > 0} \union w.lost
    PROVE  IInv'
<1> DEFINE C == {s \in SN : w.calls[s] > 0}
<1>0. /\ wp \in [Readers -> WriterProxy] /\ given \in [Readers -> SUBSET SN]
      /\ passed \in [Readers -> SUBSET SN] /\ w.lost \in SUBSET SN /\ C \in SUBSET SN
      BY DEF IInv, TypeOK, WriterProxy
<1>1. /\ wp' = [wp EXCEPT ![r] = w]
      /\ given' = [given EXCEPT ![r] = @ \union C]
      /\ passed' = [passed EXCEPT ![r] = @ \union C \union w.lost]
      BY DEF SetProxy
<1>2. /\ cache' = cache /\ inst' = inst /\ nextSn' = nextSn /\ flushed' = flushed
      /\ trimmed' = trimmed /\ rp' = rp /\ hbCount' = hbCount /\ wMatches' = wMatches
      /\ evicted' = evicted
      BY DEF writerVars
<1>3. Reliable \subseteq Readers
      BY ConstantsType
<1> HIDE DEF C
<1>4. \A q \in Readers : /\ passed[q] \subseteq passed'[q] /\ given[q] \subseteq given'[q]
                         /\ q # r => /\ passed'[q] = passed[q] /\ given'[q] = given[q]
                                     /\ wp'[q] = wp[q]
      BY <1>0, <1>1
<1>5. /\ wp'[r] = w /\ given'[r] = given[r] \union C
      /\ passed'[r] = passed[r] \union C \union w.lost
      BY <1>0, <1>1
<1>6. \A q \in Readers : Gone(q) \subseteq Gone(q)'
      BY <1>2, <1>4 DEF Gone
<1>7. TypeOK'
  <2>1. /\ wp' \in [Readers -> WriterProxy] /\ given' \in [Readers -> SUBSET SN]
        /\ passed' \in [Readers -> SUBSET SN]
        BY <1>0, <1>1
  <2>2. net' \in SUBSET Message
        BY DEF IInv, TypeOK
  <2> QED  BY <1>2, <2>1, <2>2 DEF IInv, TypeOK
<1>8. WriterAccounts'
      BY <1>2 DEF IInv, WriterAccounts
<1>9. AckedIsPassed' /\ TrimmedIsPassed'
      BY <1>2, <1>3, <1>4 DEF IInv, AckedIsPassed, TrimmedIsPassed
<1>10. NetSound'
  <2> SUFFICES ASSUME NEW m \in net'
               PROVE  /\ m.type = "ACKNACK" => 1..(m.base - 1) \subseteq passed'[m.reader]
                      /\ m.type = "HB" /\ m.reader \in Reliable =>
                             1..(m.first - 1) \subseteq Gone(m.reader)'
                      /\ m.type = "GAP" /\ m.reader \in Reliable =>
                             m.from..(m.to - 1) \subseteq Gone(m.reader)'
      BY DEF NetSound, Gone
  <2>1. CASE m \in net
    <3>1. m.reader \in Readers
          BY <2>1, MessageFields DEF IInv, TypeOK
    <3>2. /\ m.type = "ACKNACK" => 1..(m.base - 1) \subseteq passed[m.reader]
          /\ m.type = "HB" /\ m.reader \in Reliable => 1..(m.first - 1) \subseteq Gone(m.reader)
          /\ m.type = "GAP" /\ m.reader \in Reliable =>
                 m.from..(m.to - 1) \subseteq Gone(m.reader)
          BY <2>1 DEF IInv, NetSound
    <3>3. passed[m.reader] \subseteq passed'[m.reader] /\ Gone(m.reader) \subseteq Gone(m.reader)'
          BY <3>1, <1>4, <1>6
    <3> QED  BY <3>2, <3>3
  <2>2. CASE m \in msgs
        BY <2>2, <1>5 DEF C
  <2> QED  BY <2>1, <2>2
<1>11. PassedAccounted'
  <2> SUFFICES ASSUME NEW q \in Reliable
               PROVE  passed'[q] \subseteq evicted \union given'[q] \union 1..(rp[q].startSn - 1)
      BY <1>2 DEF PassedAccounted
  <2>1. passed[q] \subseteq evicted \union given[q] \union 1..(rp[q].startSn - 1)
        BY DEF IInv, PassedAccounted
  <2>2. CASE q # r
        BY <1>3, <1>4, <2>1, <2>2
  <2>3. CASE q = r
        BY <1>5, <2>1, <2>3 DEF Gone
  <2> QED  BY <2>2, <2>3
<1>12. ProxiesInOrder'
  <2> SUFFICES ASSUME NEW q \in Reliable
               PROVE  InOrder(wp'[q], CumAck(wp'[q].received))
      BY DEF ProxiesInOrder, InOrder, CumAck
  <2>1. CASE q # r
        BY <1>3, <1>4, <2>1 DEF IInv, ProxiesInOrder
  <2>2. CASE q = r
        BY <1>5, <2>2
  <2> QED  BY <2>1, <2>2
<1>13. PassedCovers'
  <2> SUFFICES ASSUME NEW q \in Reliable
               PROVE  {s \in SN : wp'[q].calls[s] > 0} \union wp'[q].lost \subseteq passed'[q]
      BY DEF PassedCovers
  <2>1. CASE q # r
        BY <1>3, <1>4, <2>1 DEF IInv, PassedCovers
  <2>2. CASE q = r
        BY <1>5, <2>2 DEF C
  <2> QED  BY <2>1, <2>2
<1> QED  BY <1>7, <1>8, <1>9, <1>10, <1>11, <1>12, <1>13 DEF IInv

(* A reader's step that sends nothing. *)
LEMMA QuietReaderStep ==
    ASSUME IInv, NEW r \in Readers, NEW w \in WriterProxy, SetProxy(r, w), UNCHANGED writerVars,
           r \in Reliable => InOrder(w, CumAck(w.received)) /\ w.lost \subseteq Gone(r),
           UNCHANGED <<ackCount, rMatches>>, net' \subseteq net
    PROVE  IInv'
<1>1. ackCount' \in [Readers -> Nat] /\ rMatches' \in [Readers -> 0..MaxReaderMatch]
      BY DEF IInv, TypeOK
<1> DEFINE none == {}
<1>2. net' \subseteq net \union none
      OBVIOUS
<1>3. \A m \in none : /\ m \in Message /\ m.type = "ACKNACK" /\ m.reader = r
                    /\ 1..(m.base - 1) \subseteq {s \in SN : w.calls[s] > 0} \union w.lost
      OBVIOUS
<1> HIDE DEF none
<1> QED  BY <1>1, <1>2, <1>3, ReaderStep

(* What a reader's proxy starts from: the facts every handler uses. *)
LEMMA ProxyFacts ==
    ASSUME IInv, NEW r \in Readers
    PROVE  /\ wp[r] \in WriterProxy /\ wp[r].received \in SUBSET SN
           /\ CumAck(wp[r].received) \in 0..MaxSN
           /\ ackCount[r] \in Nat /\ Count(ackCount[r], 1) \in Nat
           /\ r \in Reliable => /\ InOrder(wp[r], CumAck(wp[r].received))
                               /\ wp[r].lost \subseteq Gone(r)
<1>1. wp[r] \in WriterProxy /\ ackCount[r] \in Nat
      BY DEF IInv, TypeOK
<1>2. wp[r].received \in SUBSET SN
      BY <1>1 DEF WriterProxy
<1>3. r \in Reliable => wp[r].lost \subseteq Gone(r)
      BY DEF IInv, PassedCovers, Gone
<1> QED  BY <1>1, <1>2, <1>3, CumAckProperty, CountType DEF IInv, ProxiesInOrder

LEMMA NewWriterProxyInOrder ==
    ASSUME NEW r, NEW match
    PROVE  LET w == NewWriterProxy(r, match)
           IN  /\ InOrder(w, CumAck(w.received)) /\ w.lost = {}
<1> DEFINE w == NewWriterProxy(r, match)
<1>1. /\ w.received = {} /\ w.pending = {} /\ w.lost = {} /\ \A s \in SN : w.calls[s] = 0
      BY DEF NewWriterProxy
<1>2. CumAck({}) = 0
      BY CumAckUnique, ConstantsType
<1> HIDE DEF w
<1>3. InOrder(w, 0)
      BY <1>1, ConstantsType DEF InOrder
<1> QED  BY <1>1, <1>2, <1>3 DEF w

(* addOrRefreshMatchedWriter: the pre-emptive ACKNACK acknowledges nothing. *)
LEMMA AddMatchedWriterInv ==
    ASSUME IInv, NEW r \in Readers, AddMatchedWriter(r)
    PROVE  IInv'
<1> DEFINE w == NewWriterProxy(r, TRUE)
           msgs == IF r \in Reliable /\ r \notin Local
                   THEN AckNackMsgs(r, w, 0, Count(ackCount[r], 1), FALSE) ELSE {}
<1>1. w \in WriterProxy /\ InOrder(w, CumAck(w.received)) /\ w.lost = {}
      BY NewWriterProxyType, NewWriterProxyInOrder
<1>2. SetProxy(r, w) /\ UNCHANGED writerVars
      BY DEF AddMatchedWriter
<1>3. ackCount' \in [Readers -> Nat] /\ rMatches' \in [Readers -> 0..MaxReaderMatch]
  <2>1. /\ ackCount \in [Readers -> Nat] /\ rMatches \in [Readers -> 0..MaxReaderMatch]
        /\ MaxReaderMatch \in Nat
        BY BoundsAssumption DEF IInv, TypeOK
  <2>2. Count(ackCount[r], 1) \in Nat /\ ackCount[r] \in Nat
        BY ProxyFacts
  <2>3. rMatches[r] < MaxReaderMatch /\ rMatches' = [rMatches EXCEPT ![r] = @ + 1]
        BY DEF AddMatchedWriter
  <2>4. ackCount' = [ackCount EXCEPT ![r] = IF r \in Reliable /\ r \notin Local THEN Count(@, 1) ELSE @]
        BY DEF AddMatchedWriter
  <2> QED  BY <2>1, <2>2, <2>3, <2>4
<1>4. net' = Sent(net, msgs)
      BY DEF AddMatchedWriter
<1>5. net' \subseteq net \union msgs
  <2> HIDE DEF msgs
  <2> QED  BY <1>4, SentProperty
<1>6. \A m \in msgs : /\ m \in Message /\ m.type = "ACKNACK" /\ m.reader = r
                      /\ 1..(m.base - 1) \subseteq {s \in SN : w.calls[s] > 0} \union w.lost
  <2>1. 0 \in 0..MaxSN /\ FALSE \in BOOLEAN /\ Count(ackCount[r], 1) \in Nat
        BY ConstantsType, ProxyFacts
  <2> HIDE DEF w
  <2> QED  BY <1>1, <2>1, AckNackSound
<1> HIDE DEF w, msgs
<1> QED  BY <1>1, <1>2, <1>3, <1>5, <1>6, ReaderStep

LEMMA RemoveMatchedWriterInv ==
    ASSUME IInv, NEW r \in Readers, RemoveMatchedWriter(r)
    PROVE  IInv'
<1> DEFINE w == NewWriterProxy(r, FALSE)
<1>1. w \in WriterProxy /\ InOrder(w, CumAck(w.received)) /\ w.lost = {}
      BY NewWriterProxyType, NewWriterProxyInOrder
<1>2. SetProxy(r, w) /\ UNCHANGED writerVars /\ UNCHANGED <<ackCount, rMatches>> /\ net' \subseteq net
      BY DEF RemoveMatchedWriter
<1> HIDE DEF w
<1> QED  BY <1>1, <1>2, QuietReaderStep

(* deliverChangeLocked: a change that is next in order is delivered, with     *)
(* those buffered behind it; another is buffered.                            *)
LEMMA DeliverChangeInOrder ==
    ASSUME NEW r \in Readers, NEW w \in WriterProxy, NEW sn \in SN, sn \notin w.received,
           r \in Reliable => InOrder(w, CumAck(w.received))
    PROVE  LET v == DeliverChange(r, w, sn)
           IN  /\ v \in WriterProxy /\ v.lost = w.lost
               /\ r \in Reliable => InOrder(v, CumAck(v.received))
<1> DEFINE got == [w EXCEPT !.received = @ \union {sn}]
           cum == CumAck(w.received)
           one == Deliver(got, {sn})
           buf == [got EXCEPT !.pending = @ \union {sn}]
<1>1. w.received \in SUBSET SN /\ w.pending \in SUBSET SN /\ w.received \union {sn} \in SUBSET SN
      BY DEF WriterProxy
<1>2. /\ got \in WriterProxy /\ got.received = w.received \union {sn} /\ got.lost = w.lost
      /\ got.pending = w.pending /\ got.calls = w.calls
      BY <1>1 DEF WriterProxy
<1>3. /\ one \in WriterProxy /\ one.received = w.received \union {sn} /\ one.lost = w.lost
      /\ one.pending = w.pending
      /\ \A s \in SN : one.calls[s] = IF s \in {sn} THEN w.calls[s] + 1 ELSE w.calls[s]
  <2> HIDE DEF got
  <2> QED  BY <1>2, DeliverType
<1>4. /\ buf \in WriterProxy /\ buf.received = w.received \union {sn} /\ buf.lost = w.lost
      /\ buf.pending = w.pending \union {sn} /\ buf.calls = w.calls
  <2>1. got.pending \union {sn} \in SUBSET SN
        BY <1>1, <1>2
  <2> HIDE DEF got
  <2> QED  BY <1>2, <2>1 DEF WriterProxy
<1>5. cum \in 0..MaxSN /\ 1..cum \subseteq w.received /\ cum + 1 \notin w.received
      BY <1>1, CumAckProperty
<1>6. DeliverChange(r, w, sn) =
          IF r \in BestEffort
          THEN IF sn <= MaxSn(w.received) THEN w ELSE one
          ELSE IF sn = cum + 1 THEN DeliverPending(one, sn) ELSE buf
      BY DEF DeliverChange
<1> HIDE DEF got, one, buf, cum
<1>7. CASE r \in BestEffort
      BY <1>3, <1>6, <1>7 DEF Reliable
<1>8. CASE r \notin BestEffort /\ sn = cum + 1
  <2>1. InOrder(w, cum)
        BY <1>8 DEF Reliable, cum
  <2>2. InOrder(one, sn)
    <3>1. one.lost \subseteq one.received
          BY <1>3, <2>1 DEF InOrder
    <3>2. ASSUME NEW s \in SN
          PROVE  /\ one.calls[s] = IF s <= sn /\ s \notin one.lost THEN 1 ELSE 0
                 /\ s \in one.pending <=> s > sn /\ s \in one.received \ one.lost
      <4>1. /\ w.calls[s] = IF s <= cum /\ s \notin w.lost THEN 1 ELSE 0
            /\ s \in w.pending <=> s > cum /\ s \in w.received \ w.lost
            BY <2>1 DEF InOrder
      <4>2. sn \notin w.lost
            BY <2>1 DEF InOrder
      <4>3. s \in Int /\ sn \in Int /\ cum \in Int
            BY <1>5, ConstantsType
      <4>4. one.calls[s] = IF s <= sn /\ s \notin one.lost THEN 1 ELSE 0
            BY <1>3, <1>8, <4>1, <4>2, <4>3
      <4>5. s \in one.pending <=> s > sn /\ s \in one.received \ one.lost
            BY <1>3, <1>8, <4>1, <4>2, <4>3
      <4> QED  BY <4>4, <4>5
    <3> QED  BY <3>1, <3>2 DEF InOrder
  <2>3. sn \in 0..MaxSN /\ sn <= CumAck(one.received)
    <3>1. one.received \in SUBSET SN /\ 1..sn \subseteq one.received
          BY <1>1, <1>3, <1>5, <1>8, ConstantsType
    <3> DEFINE k == CumAck(one.received)
    <3>2. k \in 0..MaxSN /\ k + 1 \notin one.received
          BY <3>1, CumAckProperty
    <3> HIDE DEF k
    <3>3. sn \in 0..MaxSN /\ sn \in Int /\ k \in Int /\ (k < sn => k + 1 \in 1..sn)
          BY <3>2, ConstantsType
    <3>4. ~(k < sn)
          BY <3>1, <3>2, <3>3
    <3> QED  BY <3>3, <3>4 DEF k
  <2>4. LET v == DeliverPending(one, sn) IN InOrder(v, CumAck(v.received))
        BY <1>3, <2>2, <2>3, DeliverPendingInOrder
  <2>5. DeliverPending(one, sn) \in WriterProxy /\ DeliverPending(one, sn).lost = one.lost
        BY <1>3, DeliverPendingType
  <2> QED  BY <1>3, <1>6, <1>8, <2>4, <2>5
<1>9. CASE r \notin BestEffort /\ sn # cum + 1
  <2>1. InOrder(w, cum)
        BY <1>9 DEF Reliable, cum
  <2>2. CumAck(buf.received) = cum
    <3>1. buf.received \in SUBSET SN /\ 1..cum \subseteq buf.received /\ cum + 1 \notin buf.received
          BY <1>1, <1>4, <1>5, <1>9
    <3> QED  BY <1>5, <3>1, CumAckUnique
  <2>3. sn > cum /\ sn \notin w.lost
    <3>1. sn \in Int /\ cum \in Int /\ ~(sn \in 1..cum) /\ sn >= 1
          BY <1>5, ConstantsType
    <3> QED  BY <3>1, <2>1 DEF InOrder
  <2>4. InOrder(buf, cum)
        BY <1>4, <2>1, <2>3 DEF InOrder
  <2> QED  BY <1>4, <1>6, <1>9, <2>2, <2>4
<1> QED  BY <1>7, <1>8, <1>9

(* handleData. *)
LEMMA HandleDataInv ==
    ASSUME IInv, NEW m \in net, HandleData(m)
    PROVE  IInv'
<1> DEFINE r == m.reader
           w == DeliverChange(r, wp[r], m.sn)
<1>1. m \in Message /\ m.type = "DATA" /\ m.sn \notin wp[r].received
      BY DEF IInv, TypeOK, HandleData
<1>2. r \in Readers /\ m.sn \in SN
      BY <1>1, MessageFields
<1>3. SetProxy(r, w) /\ UNCHANGED writerVars /\ UNCHANGED <<ackCount, rMatches>> /\ net' \subseteq net
      BY AfterReceivingProperty DEF HandleData
<1> HIDE DEF r
<1>5. /\ w \in WriterProxy /\ w.lost = wp[r].lost
      /\ r \in Reliable => InOrder(w, CumAck(w.received))
      BY <1>1, <1>2, ProxyFacts, DeliverChangeInOrder
<1>6. r \in Reliable => w.lost \subseteq Gone(r)
      BY <1>2, <1>5, ProxyFacts
<1> HIDE DEF w
<1> QED  BY <1>2, <1>3, <1>5, <1>6, QuietReaderStep

(* Giving up SNs that are gone, and delivering what is then in order. *)
LEMMA GiveUpInOrder ==
    ASSUME IInv, NEW r \in Reliable, NEW w \in WriterProxy, NEW S \in SUBSET SN,
           InOrder(w, CumAck(w.received)), w.lost \subseteq Gone(r), S \subseteq Gone(r)
    PROVE  LET v == DeliverPending(GiveUp(w, S), CumAck(w.received))
           IN  v \in WriterProxy /\ InOrder(v, CumAck(v.received)) /\ v.lost \subseteq Gone(r)
<1> DEFINE g   == GiveUp(w, S)
           cum == CumAck(w.received)
<1>1. /\ g \in WriterProxy /\ g.received = w.received \union S /\ g.pending = w.pending
      /\ g.lost = w.lost \union (S \ w.received) /\ g.calls = w.calls
      BY GiveUpType
<1>2. w.received \in SUBSET SN /\ g.received \in SUBSET SN
      BY <1>1 DEF WriterProxy
<1>3. cum \in 0..MaxSN /\ 1..cum \subseteq w.received
      BY <1>2, CumAckProperty
<1>4. cum <= CumAck(g.received)
      BY <1>1, <1>2, CumAckMonotone
<1> HIDE DEF g, cum
<1>5. InOrder(w, cum)
      BY DEF cum
<1>6. InOrder(g, cum)
  <2>1. g.lost \subseteq g.received
        BY <1>1, <1>5 DEF InOrder
  <2>2. \A s \in SN : s <= cum => s \in w.received
        BY <1>3, ConstantsType
  <2>3. ASSUME NEW s \in SN
        PROVE  /\ g.calls[s] = IF s <= cum /\ s \notin g.lost THEN 1 ELSE 0
               /\ s \in g.pending <=> s > cum /\ s \in g.received \ g.lost
    <3>1. /\ w.calls[s] = IF s <= cum /\ s \notin w.lost THEN 1 ELSE 0
          /\ s \in w.pending <=> s > cum /\ s \in w.received \ w.lost
          BY <1>5 DEF InOrder
    <3>2. s <= cum => (s \in g.lost <=> s \in w.lost)
          BY <1>1, <2>2
    <3>3. s \in g.received \ g.lost <=> s \in w.received \ w.lost
      <4>1. w.lost \subseteq w.received
            BY <1>5 DEF InOrder
      <4> QED  BY <1>1, <4>1
    <3> QED  BY <1>1, <3>1, <3>2, <3>3
  <2> QED  BY <2>1, <2>3 DEF InOrder
<1> DEFINE v == DeliverPending(g, cum)
<1>7. v \in WriterProxy /\ v.lost = g.lost
      BY <1>1, DeliverPendingType
<1>8. InOrder(v, CumAck(v.received))
      BY <1>1, <1>3, <1>4, <1>6, DeliverPendingInOrder
<1>9. v.lost \subseteq Gone(r)
      BY <1>1, <1>7
<1> HIDE DEF v
<1> QED  BY <1>7, <1>8, <1>9 DEF v, g, cum

(* handleGap. *)
LEMMA HandleGapInv ==
    ASSUME IInv, NEW m \in net, HandleGap(m)
    PROVE  IInv'
<1> DEFINE r == m.reader
           g == GiveUp(wp[r], GapRange(m))
           w == IF r \in Reliable THEN DeliverPending(g, CumAck(wp[r].received)) ELSE g
<1>1. m \in Message /\ m.type = "GAP"
      BY DEF IInv, TypeOK, HandleGap
<1>2. r \in Readers /\ m.from \in SN /\ m.to \in 1..(MaxSN + 1)
      BY <1>1, MessageFields
<1>3. GapRange(m) \in SUBSET SN
      BY <1>2, ConstantsType DEF GapRange
<1>4. SetProxy(r, w) /\ UNCHANGED writerVars /\ UNCHANGED <<ackCount, rMatches>> /\ net' \subseteq net
      BY AfterReceivingProperty DEF HandleGap
<1>5. r \in Reliable => GapRange(m) \subseteq Gone(r)
      BY <1>1 DEF IInv, NetSound, GapRange
<1> HIDE DEF r
<1>6. g \in WriterProxy
      BY <1>2, <1>3, ProxyFacts, GiveUpType
<1>7. CASE r \in Reliable
  <2>1. w = DeliverPending(g, CumAck(wp[r].received))
        BY <1>7
  <2>2. w \in WriterProxy /\ InOrder(w, CumAck(w.received)) /\ w.lost \subseteq Gone(r)
        BY <1>2, <1>3, <1>5, <1>7, <2>1, ProxyFacts, GiveUpInOrder
  <2> HIDE DEF w
  <2> QED  BY <1>2, <1>4, <2>2, QuietReaderStep
<1>8. CASE r \notin Reliable
  <2>1. w \in WriterProxy
        BY <1>6, <1>8
  <2> HIDE DEF w
  <2> QED  BY <1>2, <1>4, <1>8, <2>1, QuietReaderStep
<1> QED  BY <1>7, <1>8

(* handleHeartbeat: the virtual GAP gives up only what is gone, and the       *)
(* ACKNACK acknowledges only what the reader has been through.               *)
LEMMA HandleHeartbeatInv ==
    ASSUME IInv, NEW m \in net, HandleHeartbeat(m)
    PROVE  IInv'
<1> DEFINE r    == m.reader
           w    == HeardProxy(r, m)
           cum  == CumAck(wp[r].received)
           head == [wp[r] EXCEPT !.lastHb = m.count, !.ready = TRUE, !.est = TRUE,
                                 !.floor = HistoryFloor(wp[r], m)]
           S    == (cum + 1)..(m.first - 1)
           replies == r \in Reliable /\ Replies(w, m)
           final   == ~(CumAck(w.received) < m.last)
           msgs == IF replies THEN AckNackMsgs(r, w, m.last, Count(ackCount[r], 1), final) ELSE {}
<1>1. m \in Message /\ m.type = "HB"
      BY DEF IInv, TypeOK, HandleHeartbeat
<1>2. /\ r \in Readers /\ m.first \in 1..(MaxSN + 1) /\ m.last \in 0..MaxSN /\ m.count \in Nat
      BY <1>1, MessageFields
<1>3. /\ SetProxy(r, w) /\ UNCHANGED writerVars /\ UNCHANGED rMatches
      /\ ackCount' = [ackCount EXCEPT ![r] = IF replies THEN Count(@, 1) ELSE @]
      /\ net' = Sent(AfterReceiving(m), msgs)
      BY DEF HandleHeartbeat
<1>4. w = IF r \in Reliable /\ m.first > cum + 1 THEN DeliverPending(GiveUp(head, S), cum) ELSE head
      BY DEF HeardProxy
<1>5. r \in Reliable => 1..(m.first - 1) \subseteq Gone(r)
      BY <1>1 DEF IInv, NetSound
<1>6. /\ wp[r] \in WriterProxy /\ cum \in 0..MaxSN
      /\ ackCount[r] \in Nat /\ Count(ackCount[r], 1) \in Nat
      /\ r \in Reliable => InOrder(wp[r], cum) /\ wp[r].lost \subseteq Gone(r)
      BY <1>2, ProxyFacts
<1>7. final \in BOOLEAN
      OBVIOUS
<1> HIDE DEF r, cum, replies, w, final, msgs
<1>8. HistoryFloor(wp[r], m) \in 0..MaxSN
      BY <1>2, <1>6 DEF HistoryFloor, WriterProxy
<1>9. /\ head \in WriterProxy /\ head.received = wp[r].received /\ head.lost = wp[r].lost
      /\ head.pending = wp[r].pending /\ head.calls = wp[r].calls
      BY <1>2, <1>6, <1>8 DEF WriterProxy
<1>10. S \in SUBSET SN /\ S \subseteq 1..(m.first - 1)
       BY <1>2, <1>6, ConstantsType
<1> HIDE DEF head, S
<1>11. r \in Reliable => InOrder(head, CumAck(head.received)) /\ head.lost \subseteq Gone(r)
       BY <1>6, <1>9 DEF InOrder, cum
<1>12. w \in WriterProxy /\ (r \in Reliable => InOrder(w, CumAck(w.received)) /\ w.lost \subseteq Gone(r))
  <2>1. CASE r \in Reliable /\ m.first > cum + 1
    <3>1. w = DeliverPending(GiveUp(head, S), CumAck(head.received))
          BY <1>4, <1>9, <2>1 DEF cum
    <3>2. S \subseteq Gone(r)
          BY <1>5, <1>10, <2>1
    <3> QED  BY <1>9, <1>10, <1>11, <2>1, <3>1, <3>2, GiveUpInOrder
  <2>2. CASE ~(r \in Reliable /\ m.first > cum + 1)
        BY <1>4, <1>9, <1>11, <2>2
  <2> QED  BY <2>1, <2>2
<1>13. ackCount' \in [Readers -> Nat] /\ rMatches' \in [Readers -> 0..MaxReaderMatch]
       BY <1>2, <1>3, <1>6 DEF IInv, TypeOK
<1>14. net' \subseteq net \union msgs
       BY <1>3, SentProperty, AfterReceivingProperty
<1>15. \A a \in msgs : /\ a \in Message /\ a.type = "ACKNACK" /\ a.reader = r
                       /\ 1..(a.base - 1) \subseteq {s \in SN : w.calls[s] > 0} \union w.lost
       BY <1>2, <1>6, <1>7, <1>12, AckNackSound DEF msgs, replies
<1> QED  BY <1>2, <1>3, <1>12, <1>13, <1>14, <1>15, ReaderStep

-----------------------------------------------------------------------------
(* The writer's steps. *)

(* The HEARTBEAT and the GAP that go with it name as gone only SNs below the  *)
(* reader's first, and SNs that have left the cache c.                       *)
LEMMA HeartbeatSound ==
    ASSUME NEW r \in Readers, NEW start \in 1..(MaxSN + 1), NEW c \in SUBSET SN,
           NEW t \in 0..MaxSN, NEW last \in 0..MaxSN, NEW count \in Nat, NEW final \in BOOLEAN,
           NEW m \in HeartbeatMsgs(r, start, c, t, last, count, final), NEW G,
           \A s \in SN : /\ s \notin c /\ start <= s
                         /\ s <= t \/ \E u \in c : s < u
                         => s \in G
    PROVE  /\ m \in Message /\ m.reader = r /\ m.type \in {"HB", "GAP"}
           /\ m.type = "HB" => 1..(m.first - 1) \subseteq G \union 1..(start - 1)
           /\ m.type = "GAP" => m.from..(m.to - 1) \subseteq G
<1> DEFINE first == FirstAvailable(c, t)
           hbf   == HbFirstSn(first, last, start)
<1>1. MaxSN \in Nat /\ SN = 1..MaxSN
      BY ConstantsType
<1>2. first \in 0..(MaxSN + 1)
      BY FirstAvailableProperty
<1>3. \A s \in SN : start <= s /\ s < first => s \in G
      BY FirstAvailableProperty
<1>4. \/ m = Hb(r, hbf, last, count, final)
      \/ first > start /\ m = Gap(r, start, first)
      BY DEF HeartbeatMsgs
<1> HIDE DEF first
<1>5. /\ hbf \in 1..(MaxSN + 1)
      /\ \A s \in 1..(hbf - 1) : s \in SN /\ (start <= s => s < first)
      BY <1>1, <1>2 DEF HbFirstSn, Larger
<1> HIDE DEF hbf
<1>6. CASE m = Hb(r, hbf, last, count, final)
  <2>1. /\ m \in Message /\ m.reader = r /\ m.type = "HB" /\ m.first = hbf
        BY <1>5, <1>6 DEF Hb, Message
  <2>2. 1..(hbf - 1) \subseteq G \union 1..(start - 1)
    <3> SUFFICES ASSUME NEW s \in 1..(hbf - 1), ~(s \in 1..(start - 1)) PROVE s \in G
        OBVIOUS
    <3>1. s \in SN /\ start <= s
          BY <1>1, <1>5
    <3> QED  BY <1>3, <1>5, <3>1
  <2> QED  BY <2>1, <2>2
<1>7. CASE first > start /\ m = Gap(r, start, first)
  <2>1. start \in SN /\ first \in 1..(MaxSN + 1)
        BY <1>1, <1>2, <1>7
  <2>2. /\ m \in Message /\ m.reader = r /\ m.type = "GAP" /\ m.from = start /\ m.to = first
        BY <1>7, <2>1 DEF Gap, Message
  <2>3. \A s \in start..(first - 1) : s \in SN /\ start <= s /\ s < first
        BY <1>1, <1>2
  <2> QED  BY <1>3, <2>2, <2>3
<1> QED  BY <1>4, <1>6, <1>7

(* A message the writer may send: what it says is true of the next state. *)
Sendable(m) ==
    /\ m \in Message /\ m.type \in {"DATA", "HB", "GAP"}
    /\ m.type = "HB" /\ m.reader \in Reliable => 1..(m.first - 1) \subseteq Gone(m.reader)'
    /\ m.type = "GAP" /\ m.reader \in Reliable => m.from..(m.to - 1) \subseteq Gone(m.reader)'

(* A writer's step: it leaves the readers alone, un-evicts nothing, gives no  *)
(* reader an earlier first SN, and sends only what is Sendable.              *)
LEMMA WriterStep ==
    ASSUME IInv, UNCHANGED readerVars,
           cache' \in SUBSET SN, inst' \in [SN -> Instances], nextSn' \in 1..(MaxSN + 1),
           flushed' \in 0..MaxSN, trimmed' \in 0..MaxSN, rp' \in [Readers -> ReaderProxy],
           hbCount' \in [Readers -> Nat], wMatches' \in 0..MaxMatch, evicted' \in SUBSET SN,
           WriterAccounts', AckedIsPassed', TrimmedIsPassed',
           evicted \subseteq evicted', \A r \in Readers : rp[r].startSn <= rp'[r].startSn,
           NEW msgs, net' \subseteq net \union msgs, \A m \in msgs : Sendable(m)
    PROVE  IInv'
<1>1. /\ wp' = wp /\ ackCount' = ackCount /\ rMatches' = rMatches /\ given' = given
      /\ passed' = passed
      BY DEF readerVars
<1>2. TypeOK'
  <2>1. net' \in SUBSET Message
        BY DEF IInv, TypeOK, Sendable
  <2> QED  BY <1>1, <2>1 DEF IInv, TypeOK
<1>3. Reliable \subseteq Readers
      BY ConstantsType
<1>4. \A r \in Readers : 1..(rp[r].startSn - 1) \subseteq 1..(rp'[r].startSn - 1)
  <2> TAKE r \in Readers
  <2>1. rp[r].startSn \in Int /\ rp'[r].startSn \in Int /\ rp[r].startSn <= rp'[r].startSn
    <3>1. rp[r] \in ReaderProxy /\ rp'[r] \in ReaderProxy
          BY DEF IInv, TypeOK
    <3> QED  BY <3>1, ConstantsType DEF ReaderProxy
  <2> QED  BY <2>1
<1>5. \A r \in Readers : Gone(r) \subseteq Gone(r)'
      BY <1>1, <1>4 DEF Gone
<1>6. NetSound'
  <2> SUFFICES ASSUME NEW m \in net'
               PROVE  /\ m.type = "ACKNACK" => 1..(m.base - 1) \subseteq passed[m.reader]
                      /\ m.type = "HB" /\ m.reader \in Reliable =>
                             1..(m.first - 1) \subseteq Gone(m.reader)'
                      /\ m.type = "GAP" /\ m.reader \in Reliable =>
                             m.from..(m.to - 1) \subseteq Gone(m.reader)'
      BY <1>1 DEF NetSound, Gone
  <2>1. CASE m \in net
    <3>1. m.reader \in Readers
          BY <2>1, MessageFields DEF IInv, TypeOK
    <3>2. /\ m.type = "ACKNACK" => 1..(m.base - 1) \subseteq passed[m.reader]
          /\ m.type = "HB" /\ m.reader \in Reliable => 1..(m.first - 1) \subseteq Gone(m.reader)
          /\ m.type = "GAP" /\ m.reader \in Reliable =>
                 m.from..(m.to - 1) \subseteq Gone(m.reader)
          BY <2>1 DEF IInv, NetSound
    <3>3. Gone(m.reader) \subseteq Gone(m.reader)'
          BY <3>1, <1>5
    <3> QED  BY <3>2, <3>3
  <2>2. CASE m \in msgs
        BY <2>2 DEF Sendable
  <2> QED  BY <2>1, <2>2
<1>7. PassedAccounted'
  <2> SUFFICES ASSUME NEW r \in Reliable
               PROVE  passed[r] \subseteq evicted' \union given[r] \union 1..(rp'[r].startSn - 1)
      BY <1>1 DEF PassedAccounted
  <2>1. passed[r] \subseteq evicted \union given[r] \union 1..(rp[r].startSn - 1)
        BY DEF IInv, PassedAccounted
  <2> QED  BY <1>3, <1>4, <2>1
<1>8. ProxiesInOrder' /\ PassedCovers'
      BY <1>1 DEF IInv, ProxiesInOrder, PassedCovers, InOrder, CumAck
<1> QED  BY <1>2, <1>6, <1>7, <1>8 DEF IInv

(* What a step's trimming may drop: every matched reliable reader the change  *)
(* was meant for has been through it.                                        *)
LEMMA TrimIsPassed ==
    ASSUME IInv, NEW f \in 0..MaxSN, NEW proxies \in [Readers -> ReaderProxy], NEW r \in Reliable,
           proxies[r].matched, rp[r].matched,
           1..proxies[r].acked \subseteq passed[r]
    PROVE  rp[r].startSn..TrimThrough(f, proxies) \subseteq passed[r]
<1> DEFINE t == TrimThrough(f, proxies)
<1>1. trimmed \in 0..MaxSN /\ rp[r] \in ReaderProxy /\ proxies[r] \in ReaderProxy
      BY ConstantsType DEF IInv, TypeOK
<1>2. rp[r].startSn \in 1..(MaxSN + 1) /\ proxies[r].acked \in 0..MaxSN /\ MaxSN \in Nat
      BY <1>1, ConstantsType DEF ReaderProxy
<1>3. t \in 0..MaxSN /\ (t = trimmed \/ t <= proxies[r].acked)
      BY <1>1, TrimProperty
<1> SUFFICES rp[r].startSn..t \subseteq passed[r]
    OBVIOUS
<1> HIDE DEF t
<1>4. CASE t = trimmed
      BY <1>4 DEF IInv, TrimmedIsPassed
<1>5. CASE t <= proxies[r].acked
  <2>1. rp[r].startSn..t \subseteq 1..proxies[r].acked
        BY <1>2, <1>3, <1>5
  <2> QED  BY <2>1
<1> QED  BY <1>3, <1>4, <1>5

(* What the writer's proxies are before a step. *)
LEMMA WriterFacts ==
    ASSUME IInv
    PROVE  /\ cache \in SUBSET SN /\ nextSn \in 1..(MaxSN + 1) /\ flushed \in 0..MaxSN
           /\ trimmed \in 0..MaxSN /\ rp \in [Readers -> ReaderProxy]
           /\ hbCount \in [Readers -> Nat] /\ evicted \in SUBSET SN
           /\ MaxSN \in Nat /\ SN = 1..MaxSN /\ Reliable \subseteq Readers
           /\ \A r \in Readers : /\ rp[r].startSn \in 1..(MaxSN + 1) /\ rp[r].startSn \in Int
                                 /\ rp[r].acked \in 0..MaxSN /\ rp[r].floor \in 0..MaxSN
                                 /\ hbCount[r] \in Nat
                                 /\ \A n \in Nat : Count(hbCount[r], n) \in Nat
           /\ LastSent(cache, trimmed) \in 0..MaxSN
<1>1. /\ cache \in SUBSET SN /\ nextSn \in 1..(MaxSN + 1) /\ flushed \in 0..MaxSN
      /\ trimmed \in 0..MaxSN /\ rp \in [Readers -> ReaderProxy]
      /\ hbCount \in [Readers -> Nat] /\ evicted \in SUBSET SN
      BY DEF IInv, TypeOK
<1>2. MaxSN \in Nat /\ SN = 1..MaxSN /\ Reliable \subseteq Readers
      BY ConstantsType
<1>3. ASSUME NEW r \in Readers
      PROVE  /\ rp[r].startSn \in 1..(MaxSN + 1) /\ rp[r].acked \in 0..MaxSN
             /\ rp[r].floor \in 0..MaxSN /\ rp[r].startSn \in Int
  <2>1. rp[r] \in ReaderProxy
        BY <1>1
  <2> QED  BY <1>2, <2>1 DEF ReaderProxy
<1>4. \A r \in Readers : hbCount[r] \in Nat /\ \A n \in Nat : Count(hbCount[r], n) \in Nat
      BY <1>1, CountType
<1> QED  BY <1>1, <1>2, <1>3, <1>4, LastSentProperty

(* A hole in the cache is what KEEP_LAST or the trimming left. *)
LEMMA CacheHoles ==
    ASSUME IInv, NEW s \in SN, s \notin cache, s < nextSn
    PROVE  s \in evicted \/ s <= trimmed
<1>1. nextSn \in Int /\ trimmed \in Int /\ s \in Int /\ s >= 1
      BY WriterFacts
<1>2. s \in 1..(nextSn - 1)
      BY <1>1
<1>3. s \in cache \union evicted \union 1..trimmed
      BY <1>2 DEF IInv, WriterAccounts
<1> QED  BY <1>1, <1>3

LEMMA CachedIsWritten ==
    ASSUME IInv, NEW s \in SN, NEW u \in cache, s < u
    PROVE  s < nextSn
<1>1. nextSn \in Int /\ s \in Int /\ u \in 1..(nextSn - 1)
      BY WriterFacts DEF IInv, WriterAccounts
<1> QED  BY <1>1

(* A HEARTBEAT, with its GAP, for a reader that is matched after the step,    *)
(* about a cache c and a trim t that account for what was written.           *)
LEMMA HeartbeatSendable ==
    ASSUME IInv, UNCHANGED readerVars, NEW r \in Readers,
           NEW start \in 1..(MaxSN + 1), NEW c \in SUBSET SN, NEW t \in 0..MaxSN,
           NEW last \in 0..MaxSN, NEW count \in Nat, NEW final \in BOOLEAN,
           NEW m \in HeartbeatMsgs(r, start, c, t, last, count, final),
           rp'[r].startSn = start,
           r \in Reliable => start..t \subseteq passed[r],
           \A s \in SN : s \notin c /\ (\E u \in c : s < u) => s \in evicted' \/ s <= t
    PROVE  Sendable(m)
<1> DEFINE G == IF r \in Reliable THEN evicted' \union passed[r] ELSE SN
<1>1. \A s \in SN : /\ s \notin c /\ start <= s
                    /\ s <= t \/ \E u \in c : s < u
                    => s \in G
  <2> TAKE s \in SN
  <2>1. CASE r \in Reliable
    <3>1. start <= s /\ s <= t => s \in start..t
          BY ConstantsType
    <3> QED  BY <2>1, <3>1
  <2>2. CASE r \notin Reliable
        BY <2>2
  <2> QED  BY <2>1, <2>2
<1> HIDE DEF G
<1>2. /\ m \in Message /\ m.reader = r /\ m.type \in {"HB", "GAP"}
      /\ m.type = "HB" => 1..(m.first - 1) \subseteq G \union 1..(start - 1)
      /\ m.type = "GAP" => m.from..(m.to - 1) \subseteq G
      BY <1>1, HeartbeatSound
<1>3. r \in Reliable => G \union 1..(start - 1) \subseteq Gone(r)'
      BY DEF G, Gone, readerVars
<1> QED  BY <1>2, <1>3 DEF Sendable

(* sendHeartbeat. *)
LEMMA SendHeartbeatInv ==
    ASSUME IInv, NEW final \in BOOLEAN, NEW liveliness, SendHeartbeat(final, liveliness)
    PROVE  IInv'
<1> DEFINE msgs == UNION {HeartbeatMsgs(r, rp[r].startSn, cache, trimmed,
                                        PeriodicLast(r), Count(hbCount[r], 1), final) :
                          r \in HeartbeatTargets(liveliness)}
<1>1. /\ cache' = cache /\ inst' = inst /\ nextSn' = nextSn /\ flushed' = flushed
      /\ trimmed' = trimmed /\ rp' = rp /\ wMatches' = wMatches /\ evicted' = evicted
      /\ UNCHANGED readerVars
      /\ hbCount' = [r \in Readers |-> Count(hbCount[r], 1)]
      BY DEF SendHeartbeat
<1>2. net' \subseteq net \union msgs
  <2>1. net' = Sent(net, msgs)
        BY DEF SendHeartbeat
  <2> HIDE DEF msgs
  <2> QED  BY <2>1, SentProperty
<1>3. \A m \in msgs : Sendable(m)
  <2> TAKE m \in msgs
  <2>1. PICK r \in HeartbeatTargets(liveliness) :
            m \in HeartbeatMsgs(r, rp[r].startSn, cache, trimmed,
                               PeriodicLast(r), Count(hbCount[r], 1), final)
        OBVIOUS
  <2>2. r \in Readers /\ rp[r].matched
        BY DEF HeartbeatTargets
  <2>3. r \in Reliable => rp[r].startSn..trimmed \subseteq passed[r]
        BY <2>2 DEF IInv, TrimmedIsPassed
  <2>4. \A s \in SN : s \notin cache /\ (\E u \in cache : s < u) => s \in evicted \/ s <= trimmed
        BY CacheHoles, CachedIsWritten
  <2>5. /\ rp[r].startSn \in 1..(MaxSN + 1) /\ cache \in SUBSET SN /\ trimmed \in 0..MaxSN
        /\ PeriodicLast(r) \in 0..MaxSN /\ Count(hbCount[r], 1) \in Nat
        BY <2>2, WriterFacts DEF PeriodicLast
  <2> QED  BY <1>1, <2>1, <2>2, <2>3, <2>4, <2>5, HeartbeatSendable
<1>4. hbCount' \in [Readers -> Nat]
      BY <1>1, WriterFacts
<1>5. WriterAccounts' /\ AckedIsPassed' /\ TrimmedIsPassed'
      BY <1>1 DEF IInv, WriterAccounts, AckedIsPassed, TrimmedIsPassed, readerVars
<1>6. \A r \in Readers : rp[r].startSn <= rp'[r].startSn
  <2>1. \A r \in Readers : rp[r].startSn \in Int
        BY WriterFacts
  <2> QED  BY <1>1, <2>1
<1>7. inst' \in [SN -> Instances] /\ wMatches' \in 0..MaxMatch
      BY <1>1 DEF IInv, TypeOK
<1> HIDE DEF msgs
<1> QED  BY <1>1, <1>2, <1>3, <1>4, <1>5, <1>6, <1>7, WriterFacts, WriterStep

(* write(): the trim it makes, the evictions, and what it sends. *)
LEMMA WriteInv ==
    ASSUME IInv, NEW ih \in Instances, Write(ih)
    PROVE  IInv'
<1> DEFINE victims == KeepLastVictims(ih)
           c == (cache \ victims) \union {nextSn}
           t == TrimThrough(nextSn, rp)
           msgs == WriteMsgs(c)
<1>1. /\ nextSn <= MaxSN /\ nextSn' = nextSn + 1 /\ flushed' = nextSn /\ trimmed' = t
      /\ cache' = c \ (1..t) /\ evicted' = evicted \union victims
      /\ inst' = [inst EXCEPT ![nextSn] = ih]
      /\ rp' = rp /\ wMatches' = wMatches /\ UNCHANGED readerVars
      BY DEF Write
<1>2. net' = Sent(net, msgs)
      BY DEF Write
<1>3. hbCount' \in [Readers -> Nat]
      BY WriterFacts DEF Write
<1>4. victims \subseteq cache
      BY DEF KeepLastVictims
<1>5. /\ nextSn \in SN /\ nextSn \in Int /\ nextSn \in 0..MaxSN /\ c \in SUBSET SN
      BY <1>1, <1>4, WriterFacts
<1>6. /\ t \in 0..MaxSN /\ trimmed <= t /\ (ReplayOnMatch => t = trimmed)
      /\ t = trimmed \/ t <= nextSn
  <2>1. nextSn \in 0..MaxSN
        BY <1>1, WriterFacts
  <2> QED  BY <2>1, WriterFacts, TrimProperty
<1> HIDE DEF victims, t
<1>7. net' \subseteq net \union msgs
  <2> HIDE DEF msgs
  <2> QED  BY <1>2, SentProperty
<1>8. \A s \in SN : s \notin c /\ (\E u \in c : s < u) => s \in evicted' \/ s <= trimmed
  <2> SUFFICES ASSUME NEW s \in SN, s \notin c, NEW u \in c, s < u
               PROVE  s \in evicted' \/ s <= trimmed
      OBVIOUS
  <2>1. s < nextSn
        BY CachedIsWritten
  <2>2. CASE s \in victims
        BY <1>1, <2>2
  <2>3. CASE s \notin cache
        BY <1>1, <2>1, <2>3, CacheHoles
  <2> QED  BY <2>2, <2>3
<1> HIDE DEF c
<1>9. \A m \in msgs : Sendable(m)
  <2> TAKE m \in msgs
  <2>1. PICK r \in Readers :
            /\ rp[r].matched
            /\ \/ m = Data(r, nextSn)
               \/ /\ r \in Reliable
                  /\ m \in HeartbeatMsgs(r, rp[r].startSn, c, trimmed, LastSent(c, trimmed),
                                        Count(hbCount[r], 1), FALSE)
        BY DEF WriteMsgs
  <2>2. CASE m = Data(r, nextSn)
    <3>1. m \in Message /\ m.type = "DATA"
          BY <1>5, <2>2 DEF Data, Message
    <3> QED  BY <3>1 DEF Sendable
  <2>3. CASE /\ r \in Reliable
             /\ m \in HeartbeatMsgs(r, rp[r].startSn, c, trimmed, LastSent(c, trimmed),
                                   Count(hbCount[r], 1), FALSE)
    <3>1. rp[r].startSn..trimmed \subseteq passed[r]
          BY <2>1, <2>3 DEF IInv, TrimmedIsPassed
    <3>2. /\ rp[r].startSn \in 1..(MaxSN + 1) /\ trimmed \in 0..MaxSN
          /\ Count(hbCount[r], 1) \in Nat /\ FALSE \in BOOLEAN
          BY <2>1, WriterFacts
    <3>3. LastSent(c, trimmed) \in 0..MaxSN
          BY <1>5, <3>2, LastSentProperty
    <3> QED  BY <1>1, <1>5, <1>8, <2>1, <2>3, <3>1, <3>2, <3>3, HeartbeatSendable
  <2> QED  BY <2>1, <2>2, <2>3
<1>10. WriterAccounts'
  <2>1. /\ cache \subseteq 1..(nextSn - 1) /\ flushed = nextSn - 1 /\ trimmed <= flushed
        /\ 1..(nextSn - 1) \subseteq cache \union evicted \union 1..trimmed
        /\ ReplayOnMatch => trimmed = 0
        /\ \A r \in Readers : /\ rp[r].startSn <= nextSn
                              /\ ReplayOnMatch /\ r \in WantsReplay => rp[r].startSn = 1
        BY DEF IInv, WriterAccounts
  <2>2. MaxSN \in Nat /\ trimmed \in Int /\ t \in Int /\ \A r \in Readers : rp[r].startSn \in Int
        BY <1>6, WriterFacts
  <2>3. t <= nextSn
        BY <1>5, <1>6, <2>1, <2>2
  <2>4. cache' \subseteq 1..nextSn
    <3>1. cache' \subseteq cache \union {nextSn}
          BY <1>1 DEF c
    <3>2. \A s \in 1..(nextSn - 1) : s \in 1..nextSn
          BY <1>5
    <3>3. nextSn \in 1..nextSn
          BY <1>5, WriterFacts
    <3> QED  BY <2>1, <3>1, <3>2, <3>3
  <2>5. 1..nextSn \subseteq cache' \union evicted' \union 1..t
    <3> SUFFICES ASSUME NEW s \in 1..nextSn, s \notin 1..t, s \notin evicted'
                 PROVE  s \in cache'
        OBVIOUS
    <3>1. CASE s = nextSn
          BY <1>1, <3>1 DEF c
    <3>2. CASE s # nextSn
      <4>1. s \in 1..(nextSn - 1) /\ s \notin 1..trimmed /\ s \notin evicted /\ s \notin victims
            BY <1>1, <1>5, <1>6, <2>2, <3>2
      <4> QED  BY <1>1, <2>1, <4>1 DEF c
    <3> QED  BY <3>1, <3>2
  <2>6. \A r \in Readers : rp[r].startSn <= nextSn + 1
        BY <1>5, <2>1, <2>2
  <2>7. (nextSn + 1) - 1 = nextSn
        BY <1>5
  <2> QED  BY <1>1, <1>6, <2>1, <2>3, <2>4, <2>5, <2>6, <2>7 DEF WriterAccounts
<1>11. AckedIsPassed'
       BY <1>1 DEF IInv, AckedIsPassed, readerVars
<1>12. TrimmedIsPassed'
  <2> SUFFICES ASSUME NEW r \in Reliable, rp[r].matched
               PROVE  rp[r].startSn..t \subseteq passed[r]
      BY <1>1 DEF TrimmedIsPassed, readerVars
  <2>1. 1..rp[r].acked \subseteq passed[r]
        BY DEF IInv, AckedIsPassed
  <2>2. nextSn \in 0..MaxSN /\ rp \in [Readers -> ReaderProxy]
        BY <1>5, WriterFacts
  <2> QED  BY <2>1, <2>2, TrimIsPassed DEF t
<1>13. /\ cache' \in SUBSET SN /\ nextSn' \in 1..(MaxSN + 1) /\ flushed' \in 0..MaxSN
       /\ trimmed' \in 0..MaxSN /\ evicted' \in SUBSET SN /\ evicted \subseteq evicted'
       BY <1>1, <1>4, <1>5, <1>6, WriterFacts
<1>14. inst' \in [SN -> Instances] /\ wMatches' \in 0..MaxMatch
       BY <1>1 DEF IInv, TypeOK
<1>15. /\ rp' \in [Readers -> ReaderProxy]
       /\ \A r \in Readers : rp[r].startSn <= rp'[r].startSn
  <2>1. rp \in [Readers -> ReaderProxy] /\ \A r \in Readers : rp[r].startSn \in Int
        BY WriterFacts
  <2> QED  BY <1>1, <2>1
<1> HIDE DEF msgs
<1> QED  BY <1>1, <1>3, <1>7, <1>9, <1>10, <1>11, <1>12, <1>13, <1>14, <1>15, WriterStep

(* addOrRefreshMatchedReader: the new proxy has acknowledged nothing, and its *)
(* first SN is no earlier than at its last match.                            *)
LEMMA AddMatchedReaderInv ==
    ASSUME IInv, NEW r \in Readers, AddMatchedReader(r)
    PROVE  IInv'
<1> DEFINE p == MatchedProxy(r)
           last == LastSent(cache, trimmed)
           msgs == IF r \in Reliable
                   THEN HeartbeatMsgs(r, p.startSn, cache, trimmed, last, Count(hbCount[r], 1), FALSE)
                   ELSE IF ReplayOnMatch /\ r \in WantsReplay
                        THEN {Data(r, s) : s \in cache} ELSE {}
<1>1. /\ wMatches < MaxMatch /\ wMatches' = wMatches + 1 /\ rp' = [rp EXCEPT ![r] = p]
      /\ cache' = cache /\ inst' = inst /\ nextSn' = nextSn /\ flushed' = flushed
      /\ trimmed' = trimmed /\ evicted' = evicted /\ UNCHANGED readerVars
      BY DEF AddMatchedReader
<1>2. net' \subseteq net \union msgs
  <2>1. net' = Sent(net, msgs)
        BY DEF AddMatchedReader
  <2> HIDE DEF msgs
  <2> QED  BY <2>1, SentProperty
<1>3. hbCount' \in [Readers -> Nat]
  <2>1. hbCount \in [Readers -> Nat] /\ Count(hbCount[r], 1) \in Nat
        BY WriterFacts
  <2>2. hbCount' = hbCount \/ hbCount' = [hbCount EXCEPT ![r] = Count(@, 1)]
        BY DEF AddMatchedReader
  <2> QED  BY <2>1, <2>2
<1>4. /\ p.startSn = IF ReplayOnMatch /\ r \in WantsReplay THEN 1 ELSE nextSn
      /\ p.acked = 0 /\ p.matched
      BY DEF MatchedProxy
<1>5. p \in ReaderProxy
  <2> DEFINE replay == ReplayOnMatch /\ r \in WantsReplay
             start  == IF replay THEN 1 ELSE nextSn
             hold   == r \in Reliable /\ replay /\ cache # {} /\ MinSn(cache) <= last
             hbf    == HbFirstSn(FirstAvailable(cache, trimmed), last, start)
             isBest == r \in BestEffort
  <2>1. p = [matched |-> TRUE, startSn |-> start, acked |-> 0, lastAck |-> NoCount,
             suppress |-> hold, floor |-> IF hold THEN last ELSE 0, hbFirst |-> hbf,
             ready |-> isBest]
        BY DEF MatchedProxy
  <2>2. /\ start \in 1..(MaxSN + 1) /\ 0 \in 0..MaxSN /\ last \in 0..MaxSN
    <3>1. /\ 1 \in 1..(MaxSN + 1) /\ nextSn \in 1..(MaxSN + 1) /\ 0 \in 0..MaxSN
          /\ last \in 0..MaxSN
          BY WriterFacts
    <3> QED  BY <3>1
  <2>3. hold \in BOOLEAN /\ isBest \in BOOLEAN
        OBVIOUS
  <2>4. FirstAvailable(cache, trimmed) \in 0..(MaxSN + 1) /\ MaxSN \in Nat
        BY WriterFacts, FirstAvailableProperty
  <2> HIDE DEF start, hold, last
  <2>5. hbf \in 0..(MaxSN + 1)
        BY <2>2, <2>4 DEF HbFirstSn, Larger
  <2> HIDE DEF hbf, p, isBest
  <2>6. (IF hold THEN last ELSE 0) \in 0..MaxSN
        BY <2>2
  <2> QED  BY <2>1, <2>2, <2>3, <2>5, <2>6 DEF ReaderProxy
<1> HIDE DEF p
<1>6. /\ rp' \in [Readers -> ReaderProxy] /\ rp'[r] = p
      /\ \A q \in Readers : q # r => rp'[q] = rp[q]
  <2>1. rp \in [Readers -> ReaderProxy]
        BY WriterFacts
  <2> QED  BY <1>1, <1>5, <2>1
<1>7. WriterAccounts'
  <2>1. nextSn \in Int /\ 1 <= nextSn
        BY WriterFacts
  <2>2. ASSUME NEW q \in Readers
        PROVE  /\ rp'[q].startSn <= nextSn
               /\ ReplayOnMatch /\ q \in WantsReplay => rp'[q].startSn = 1
    <3>1. CASE q = r
          BY <1>4, <1>6, <2>1, <3>1
    <3>2. CASE q # r
          BY <1>6, <3>2 DEF IInv, WriterAccounts
    <3> QED  BY <3>1, <3>2
  <2> QED  BY <1>1, <2>2 DEF IInv, WriterAccounts
<1>8. \A q \in Readers : rp[q].startSn <= rp'[q].startSn
  <2> TAKE q \in Readers
  <2>1. rp[q].startSn \in Int
        BY WriterFacts
  <2>2. CASE q = r
        BY <1>4, <1>6, <2>1, <2>2 DEF IInv, WriterAccounts
  <2>3. CASE q # r
        BY <1>6, <2>1, <2>3
  <2> QED  BY <2>2, <2>3
<1>9. r \in Reliable => p.startSn..trimmed \subseteq passed[r]
  <2>1. nextSn \in Int /\ trimmed \in Int /\ trimmed < nextSn
        BY WriterFacts DEF IInv, WriterAccounts
  <2>2. ReplayOnMatch => trimmed = 0
        BY DEF IInv, WriterAccounts
  <2>3. p.startSn \in Int /\ trimmed < p.startSn
        BY <1>4, <2>1, <2>2
  <2> QED  BY <2>1, <2>3
<1>10. TrimmedIsPassed'
  <2> SUFFICES ASSUME NEW q \in Reliable, rp'[q].matched
               PROVE  rp'[q].startSn..trimmed \subseteq passed[q]
      BY <1>1 DEF TrimmedIsPassed, readerVars
  <2>1. CASE q = r
        BY <1>6, <1>9, <2>1
  <2>2. CASE q # r
        BY <1>6, <2>2, ConstantsType DEF IInv, TrimmedIsPassed
  <2> QED  BY <2>1, <2>2
<1>11. AckedIsPassed'
  <2> SUFFICES ASSUME NEW q \in Reliable
               PROVE  1..rp'[q].acked \subseteq passed[q]
      BY <1>1 DEF AckedIsPassed, readerVars
  <2>1. CASE q = r
        BY <1>4, <1>6, <2>1
  <2>2. CASE q # r
        BY <1>6, <2>2, ConstantsType DEF IInv, AckedIsPassed
  <2> QED  BY <2>1, <2>2
<1>12. \A m \in msgs : Sendable(m)
  <2> TAKE m \in msgs
  <2>1. CASE r \in Reliable
    <3>1. m \in HeartbeatMsgs(r, p.startSn, cache, trimmed, last, Count(hbCount[r], 1), FALSE)
          BY <2>1
    <3>2. /\ cache \in SUBSET SN /\ trimmed \in 0..MaxSN
          /\ last \in 0..MaxSN /\ Count(hbCount[r], 1) \in Nat /\ FALSE \in BOOLEAN
          BY WriterFacts
    <3>4. p.startSn \in 1..(MaxSN + 1) /\ rp'[r].startSn = p.startSn
          BY <1>5, <1>6 DEF ReaderProxy
    <3>3. \A s \in SN : s \notin cache /\ (\E u \in cache : s < u) => s \in evicted' \/ s <= trimmed
          BY <1>1, CacheHoles, CachedIsWritten
    <3> HIDE DEF last, msgs
    <3> QED  BY <1>1, <1>9, <3>1, <3>2, <3>3, <3>4, HeartbeatSendable
  <2>2. CASE r \notin Reliable
    <3>1. PICK s \in cache : m = Data(r, s)
          BY <2>2
    <3>2. m \in Message /\ m.type = "DATA"
          BY <3>1, WriterFacts DEF Data, Message
    <3> QED  BY <3>2 DEF Sendable
  <2> QED  BY <2>1, <2>2
<1>13. inst' \in [SN -> Instances] /\ wMatches' \in 0..MaxMatch
       BY <1>1, BoundsAssumption DEF IInv, TypeOK
<1>14. /\ cache' \in SUBSET SN /\ nextSn' \in 1..(MaxSN + 1) /\ flushed' \in 0..MaxSN
       /\ trimmed' \in 0..MaxSN /\ evicted' \in SUBSET SN /\ evicted \subseteq evicted'
       BY <1>1, WriterFacts
<1> HIDE DEF msgs
<1> QED  BY <1>1, <1>2, <1>3, <1>6, <1>7, <1>8, <1>10, <1>11, <1>12, <1>13, <1>14, WriterStep

(* A step that trims to t and writes nothing: the accounts still balance. *)
LEMMA TrimAccounts ==
    ASSUME IInv, NEW proxies \in [Readers -> ReaderProxy], UNCHANGED <<nextSn, flushed, evicted>>,
           trimmed' = TrimThrough(flushed, proxies), cache' = cache \ (1..trimmed'),
           \A r \in Readers : rp'[r].startSn = rp[r].startSn
    PROVE  /\ WriterAccounts' /\ trimmed' \in 0..MaxSN
           /\ \A s \in SN : s \notin cache' /\ s < nextSn => s \in evicted' \/ s <= trimmed'
<1> DEFINE t == trimmed'
<1>1. /\ flushed \in 0..MaxSN /\ trimmed \in 0..MaxSN /\ nextSn \in 1..(MaxSN + 1)
      /\ MaxSN \in Nat
      BY WriterFacts
<1>2. /\ cache \subseteq 1..(nextSn - 1) /\ flushed = nextSn - 1 /\ trimmed <= flushed
      /\ 1..(nextSn - 1) \subseteq cache \union evicted \union 1..trimmed
      /\ ReplayOnMatch => trimmed = 0
      /\ \A r \in Readers : /\ rp[r].startSn <= nextSn
                            /\ ReplayOnMatch /\ r \in WantsReplay => rp[r].startSn = 1
      BY DEF IInv, WriterAccounts
<1>3. /\ t \in 0..MaxSN /\ trimmed <= t /\ (ReplayOnMatch => t = trimmed)
      /\ t = trimmed \/ t <= flushed
      BY <1>1, TrimProperty
<1> HIDE DEF t
<1>4. t <= flushed /\ 1..trimmed \subseteq 1..t
      BY <1>1, <1>2, <1>3
<1>5. cache' \subseteq 1..(nextSn - 1) /\ cache \subseteq cache' \union 1..t
      BY <1>2 DEF t
<1>6. 1..(nextSn - 1) \subseteq cache' \union evicted \union 1..t
      BY <1>2, <1>4, <1>5
<1>7. WriterAccounts'
      BY <1>2, <1>3, <1>4, <1>5, <1>6 DEF WriterAccounts, t
<1>8. \A s \in SN : s \notin cache' /\ s < nextSn => s \in evicted' \/ s <= t
  <2> TAKE s \in SN
  <2>1. s \in Int /\ (s < nextSn => s \in 1..(nextSn - 1))
        BY <1>1, ConstantsType
  <2>2. s \in 1..t => s <= t
        BY <1>1, <1>3
  <2> QED  BY <1>6, <2>1, <2>2
<1> QED  BY <1>3, <1>7, <1>8 DEF t

(* removeMatchedReader: what only this reader had yet to acknowledge goes. *)
LEMMA RemoveMatchedReaderInv ==
    ASSUME IInv, NEW r \in Readers, RemoveMatchedReader(r)
    PROVE  IInv'
<1> DEFINE proxies == [rp EXCEPT ![r].matched = FALSE]
           t == TrimThrough(flushed, proxies)
<1>1. /\ rp' = proxies /\ trimmed' = t /\ cache' = cache \ (1..t)
      /\ UNCHANGED <<nextSn, flushed, evicted>> /\ UNCHANGED readerVars
      /\ inst' = inst /\ hbCount' = hbCount /\ wMatches' = wMatches /\ net' = net
      BY DEF RemoveMatchedReader
<1>2. rp \in [Readers -> ReaderProxy] /\ \A q \in Readers : rp[q].startSn \in Int
      BY WriterFacts
<1>3. /\ proxies \in [Readers -> ReaderProxy]
      /\ \A q \in Readers : /\ proxies[q].startSn = rp[q].startSn /\ proxies[q].acked = rp[q].acked
                            /\ proxies[q].matched => rp[q].matched
  <2>1. rp[r] \in ReaderProxy
        BY <1>2
  <2>2. [rp[r] EXCEPT !.matched = FALSE] \in ReaderProxy
        BY <2>1 DEF ReaderProxy
  <2>3. /\ [rp[r] EXCEPT !.matched = FALSE].startSn = rp[r].startSn
        /\ [rp[r] EXCEPT !.matched = FALSE].acked = rp[r].acked
        /\ [rp[r] EXCEPT !.matched = FALSE].matched = FALSE
        BY <2>1 DEF ReaderProxy
  <2>4. proxies = [rp EXCEPT ![r] = [rp[r] EXCEPT !.matched = FALSE]]
        OBVIOUS
  <2> HIDE DEF proxies
  <2>5. proxies[r] = [rp[r] EXCEPT !.matched = FALSE] /\ \A q \in Readers : q # r => proxies[q] = rp[q]
        BY <1>2, <2>4
  <2>6. proxies \in [Readers -> ReaderProxy]
        BY <1>2, <2>2, <2>4
  <2> QED  BY <2>3, <2>5, <2>6
<1> HIDE DEF proxies, t
<1>4. WriterAccounts' /\ trimmed' \in 0..MaxSN
      BY <1>1, <1>3, TrimAccounts DEF t
<1>5. AckedIsPassed'
      BY <1>1, <1>3, ConstantsType DEF IInv, AckedIsPassed, readerVars
<1>6. TrimmedIsPassed'
  <2> SUFFICES ASSUME NEW q \in Reliable, proxies[q].matched
               PROVE  rp[q].startSn..t \subseteq passed[q]
      BY <1>1, <1>3, ConstantsType DEF TrimmedIsPassed, readerVars
  <2>1. q \in Readers /\ rp[q].matched /\ proxies[q].acked = rp[q].acked
        BY <1>3, ConstantsType
  <2>2. 1..proxies[q].acked \subseteq passed[q]
        BY <2>1 DEF IInv, AckedIsPassed
  <2>3. flushed \in 0..MaxSN
        BY WriterFacts
  <2> QED  BY <1>3, <2>1, <2>2, <2>3, TrimIsPassed DEF t
<1>7. \A q \in Readers : rp[q].startSn <= rp'[q].startSn
      BY <1>1, <1>2, <1>3
<1>8. /\ cache' \in SUBSET SN /\ nextSn' \in 1..(MaxSN + 1) /\ flushed' \in 0..MaxSN
      /\ evicted' \in SUBSET SN /\ evicted \subseteq evicted' /\ hbCount' \in [Readers -> Nat]
      /\ inst' \in [SN -> Instances] /\ wMatches' \in 0..MaxMatch
      BY <1>1 DEF IInv, TypeOK
<1> DEFINE none == {}
<1>9. net' \subseteq net \union none /\ \A m \in none : Sendable(m)
      BY <1>1
<1> HIDE DEF none
<1> QED  BY <1>1, <1>3, <1>4, <1>5, <1>6, <1>7, <1>8, <1>9, WriterStep

(* handleAckNack: what it takes for acknowledged, drops, resends and says is  *)
(* gone.                                                                     *)
LEMMA HandleAckNackInv ==
    ASSUME IInv, NEW m \in net, HandleAckNack(m)
    PROVE  IInv'
<1> DEFINE r        == m.reader
           early    == [rp EXCEPT ![r].acked = Larger(@, m.base - 1)]
           t        == TrimThrough(flushed, early)
           c        == cache \ (1..t)
           answered == Requested(rp[r], m) # {}
           p        == AckedProxy(rp[r], m, c, answered)
           hb1      == AsksForHeartbeat(p, m, c, t)
           asked    == IF hb1 THEN 1 ELSE 0
           repairs  == {IF s \in c THEN Data(r, s) ELSE Gap(r, s, s + 1) : s \in Requested(p, m)}
           beat(n)  == HeartbeatMsgs(r, p.startSn, c, t, AnswerLast(p, c, t), Count(hbCount[r], n), FALSE)
           msgs     == repairs \union (IF hb1 THEN beat(1) ELSE {})
                               \union (IF answered THEN beat(asked + 1) ELSE {})
<1>1. /\ rp[r].matched /\ r \in Reliable /\ rp' = [rp EXCEPT ![r] = p] /\ trimmed' = t /\ cache' = c
      /\ UNCHANGED <<nextSn, flushed, evicted>> /\ UNCHANGED readerVars
      /\ inst' = inst /\ wMatches' = wMatches
      BY DEF HandleAckNack
<1>2. net' \subseteq net \union msgs
  <2>1. net' = Sent(AfterReceiving(m), msgs)
        BY SMTT(30) DEF HandleAckNack
  <2> HIDE DEF msgs
  <2> QED  BY <2>1, SentProperty, AfterReceivingProperty, SMTT(30)
<1>3. hbCount' = [hbCount EXCEPT ![r] = Count(@, asked + IF answered THEN 1 ELSE 0)]
      BY SMTT(30) DEF HandleAckNack
<1>4. m \in Message /\ m.type = "ACKNACK"
      BY DEF IInv, TypeOK, HandleAckNack
<1>5. /\ r \in Readers /\ m.base \in 1..(MaxSN + 1) /\ m.nack \in SUBSET SN /\ m.count \in Nat
      BY <1>4, MessageFields
<1>6. 1..(m.base - 1) \subseteq passed[r] /\ 1..rp[r].acked \subseteq passed[r]
      BY <1>1, <1>4 DEF IInv, NetSound, AckedIsPassed
<1>7. /\ rp \in [Readers -> ReaderProxy] /\ rp[r] \in ReaderProxy /\ rp[r].acked \in 0..MaxSN
      /\ flushed \in 0..MaxSN /\ MaxSN \in Nat
      BY <1>5, WriterFacts
<1> HIDE DEF r
<1> DEFINE a == Larger(rp[r].acked, m.base - 1)
<1>8. a \in 0..MaxSN /\ 1..a \subseteq passed[r]
  <2>1. a = rp[r].acked \/ a = m.base - 1
        BY DEF Larger
  <2>2. m.base - 1 \in 0..MaxSN
        BY <1>5, <1>7
  <2> HIDE DEF a
  <2> QED  BY <1>6, <1>7, <2>1, <2>2
<1>9. /\ early \in [Readers -> ReaderProxy] /\ early[r].acked = a /\ early[r].matched
      /\ \A q \in Readers : q # r => early[q] = rp[q]
  <2> HIDE DEF a
  <2>1. [rp[r] EXCEPT !.acked = a] \in ReaderProxy
        BY <1>7, <1>8 DEF ReaderProxy
  <2>2. early = [rp EXCEPT ![r] = [rp[r] EXCEPT !.acked = a]]
        BY DEF a
  <2>3. [rp[r] EXCEPT !.acked = a].acked = a /\ [rp[r] EXCEPT !.acked = a].matched = rp[r].matched
        BY <1>7 DEF ReaderProxy
  <2> HIDE DEF early
  <2> QED  BY <1>1, <1>5, <1>7, <2>1, <2>2, <2>3
<1>10. p \in ReaderProxy /\ p.startSn = rp[r].startSn /\ p.acked = a
  <2> DEFINE past == MinSn(c) > rp[r].floor \/ (~m.final /\ m.base - 1 >= rp[r].floor)
             rdy  == rp[r].ready \/ ShowsReady(rp[r], m)
             sup  == rp[r].suppress /\ ~past
             lst  == IF answered THEN m.count ELSE rp[r].lastAck
  <2>1. p = [rp[r] EXCEPT !.acked = a, !.ready = rdy, !.suppress = sup, !.lastAck = lst]
        BY DEF AckedProxy
  <2>2. rdy \in BOOLEAN /\ sup \in BOOLEAN
        OBVIOUS
  <2>3. lst \in Nat \union {NoCount}
        BY <1>5, <1>7 DEF ReaderProxy
  <2> HIDE DEF rdy, sup, lst, p, a
  <2> QED  BY <1>7, <1>8, <2>1, <2>2, <2>3 DEF ReaderProxy
<1> HIDE DEF early, answered, a, p
<1>11. /\ rp' \in [Readers -> ReaderProxy] /\ rp'[r] = p
       /\ \A q \in Readers : q # r => rp'[q] = rp[q]
       BY <1>1, <1>5, <1>7, <1>10
<1>12. \A q \in Readers : rp'[q].startSn = rp[q].startSn
       BY <1>10, <1>11
<1>13. /\ WriterAccounts' /\ t \in 0..MaxSN
       /\ \A s \in SN : s \notin c /\ s < nextSn => s \in evicted' \/ s <= t
       BY <1>1, <1>9, <1>12, TrimAccounts
<1>14. AckedIsPassed'
  <2> SUFFICES ASSUME NEW q \in Reliable PROVE 1..rp'[q].acked \subseteq passed[q]
      BY <1>1 DEF AckedIsPassed, readerVars
  <2>1. CASE q = r
        BY <1>8, <1>10, <1>11, <2>1
  <2>2. CASE q # r
        BY <1>11, <2>2, ConstantsType DEF IInv, AckedIsPassed
  <2> QED  BY <2>1, <2>2
<1>15. ASSUME NEW q \in Reliable, rp[q].matched
       PROVE  rp[q].startSn..t \subseteq passed[q]
  <2>1. q \in Readers /\ early[q].matched /\ 1..early[q].acked \subseteq passed[q]
    <3>1. CASE q = r
          BY <1>5, <1>8, <1>9, <3>1
    <3>2. CASE q # r
          BY <1>9, <1>15, <3>2, ConstantsType DEF IInv, AckedIsPassed
    <3> QED  BY <3>1, <3>2
  <2> QED  BY <1>7, <1>9, <1>15, <2>1, TrimIsPassed
<1>16. TrimmedIsPassed'
  <2> SUFFICES ASSUME NEW q \in Reliable, rp'[q].matched
               PROVE  rp'[q].startSn..t \subseteq passed[q]
      BY <1>1 DEF TrimmedIsPassed, readerVars
  <2>1. q \in Readers /\ rp'[q].startSn = rp[q].startSn /\ rp[q].matched
        BY <1>1, <1>11, <1>12, ConstantsType
  <2> QED  BY <1>15, <2>1
<1> HIDE DEF t
<1>17. c \in SUBSET SN /\ c \subseteq cache
       BY WriterFacts
<1> HIDE DEF c, hb1
<1>18. asked \in Nat /\ hbCount' \in [Readers -> Nat]
  <2>1. asked \in Nat /\ asked + (IF answered THEN 1 ELSE 0) \in Nat
        OBVIOUS
  <2>2. hbCount \in [Readers -> Nat] /\ \A n \in Nat : Count(hbCount[r], n) \in Nat
        BY <1>5, WriterFacts
  <2> HIDE DEF asked
  <2> QED  BY <1>3, <1>5, <2>1, <2>2
<1>19. ASSUME NEW n \in Nat, NEW b \in beat(n)
       PROVE  Sendable(b)
  <2>1. AnswerLast(p, c, t) \in 0..MaxSN
    <3>1. LastSent(c, t) \in 0..MaxSN /\ p.floor \in 0..MaxSN
          BY <1>10, <1>13, <1>17, LastSentProperty DEF ReaderProxy
    <3> QED  BY <1>7, <3>1 DEF AnswerLast, Smaller
  <2>2. p.startSn \in 1..(MaxSN + 1) /\ rp'[r].startSn = p.startSn
        BY <1>10, <1>11 DEF ReaderProxy
  <2>3. p.startSn..t \subseteq passed[r]
        BY <1>1, <1>10, <1>15
  <2>4. \A s \in SN : s \notin c /\ (\E u \in c : s < u) => s \in evicted' \/ s <= t
        BY <1>13, <1>17, CachedIsWritten
  <2>5. Count(hbCount[r], n) \in Nat /\ FALSE \in BOOLEAN
        BY <1>5, WriterFacts
  <2> QED  BY <1>1, <1>5, <1>13, <1>17, <1>19, <2>1, <2>2, <2>3, <2>4, <2>5, HeartbeatSendable
<1>20. ASSUME NEW b \in repairs
       PROVE  Sendable(b)
  <2>1. PICK s \in Requested(p, m) : b = IF s \in c THEN Data(r, s) ELSE Gap(r, s, s + 1)
        OBVIOUS
  <2>2. s \in SN /\ s >= p.startSn /\ s < nextSn
        BY <1>5 DEF Requested
  <2>3. CASE s \in c
    <3>1. b \in Message /\ b.type = "DATA"
          BY <1>5, <2>1, <2>2, <2>3 DEF Data, Message
    <3> QED  BY <3>1 DEF Sendable
  <2>4. CASE s \notin c
    <3>1. s \in evicted' \/ s <= t
          BY <1>13, <2>2, <2>4
    <3>2. s \in Int /\ p.startSn \in Int /\ t \in Int /\ s + 1 \in 1..(MaxSN + 1)
          BY <1>7, <1>10, <1>13, <2>2, ConstantsType DEF ReaderProxy
    <3>3. s \in evicted' \/ s \in passed[r]
      <4>1. s <= t => s \in p.startSn..t
            BY <2>2, <3>2
      <4> QED  BY <1>1, <1>10, <1>15, <3>1, <4>1
    <3>4. s \in Gone(r)'
          BY <1>1, <3>3 DEF Gone, readerVars
    <3>5. b \in Message /\ b.type = "GAP" /\ b.reader = r /\ b.from = s /\ b.to = s + 1
          BY <1>5, <2>1, <2>2, <2>4, <3>2 DEF Gap, Message
    <3>6. \A u \in s..((s + 1) - 1) : u = s
          BY <3>2
    <3> QED  BY <3>4, <3>5, <3>6 DEF Sendable
  <2> QED  BY <2>3, <2>4
<1>21. \A b \in msgs : Sendable(b)
  <2>1. \A b \in msgs : b \in repairs \/ b \in beat(1) \/ b \in beat(asked + 1)
        OBVIOUS
  <2>2. 1 \in Nat /\ asked + 1 \in Nat
        BY <1>18
  <2> HIDE DEF beat, repairs, msgs, asked
  <2> QED  BY <1>19, <1>20, <2>1, <2>2
<1>22. /\ cache' \in SUBSET SN /\ nextSn' \in 1..(MaxSN + 1) /\ flushed' \in 0..MaxSN
       /\ evicted' \in SUBSET SN /\ evicted \subseteq evicted'
       /\ inst' \in [SN -> Instances] /\ wMatches' \in 0..MaxMatch
       BY <1>1, <1>17 DEF IInv, TypeOK
<1>23. \A q \in Readers : rp[q].startSn <= rp'[q].startSn
  <2>1. \A q \in Readers : rp[q].startSn \in Int
        BY WriterFacts
  <2> QED  BY <1>12, <2>1
<1> HIDE DEF msgs
<1> QED  BY <1>1, <1>2, <1>11, <1>13, <1>14, <1>16, <1>18, <1>21, <1>22, <1>23, WriterStep, SMTT(30)

-----------------------------------------------------------------------------
(* The theorems. *)

LEMMA InitIInv == Init => IInv
<1> SUFFICES ASSUME Init PROVE IInv
    OBVIOUS
<1>1. /\ cache = {} /\ nextSn = 1 /\ flushed = 0 /\ trimmed = 0 /\ wMatches = 0 /\ net = {}
      /\ evicted = {} /\ rp = [r \in Readers |-> UnmatchedReader]
      /\ wp = [r \in Readers |-> NewWriterProxy(r, FALSE)]
      /\ hbCount = [r \in Readers |-> 0] /\ ackCount = [r \in Readers |-> 0]
      /\ rMatches = [r \in Readers |-> 0]
      /\ given = [r \in Readers |-> {}] /\ passed = [r \in Readers |-> {}]
      BY DEF Init
<1>2. MaxSN \in Nat /\ MaxMatch \in Nat /\ MaxReaderMatch \in Nat /\ Reliable \subseteq Readers
      BY BoundsAssumption, ConstantsType
<1>3. UnmatchedReader \in ReaderProxy
      BY <1>2 DEF UnmatchedReader, ReaderProxy
<1>4. UnmatchedReader.startSn = 1 /\ UnmatchedReader.acked = 0 /\ UnmatchedReader.matched = FALSE
      BY DEF UnmatchedReader
<1>5. TypeOK
  <2>1. inst \in [SN -> Instances]
        BY InstancesAssumption DEF Init
  <2>2. wp \in [Readers -> WriterProxy]
        BY <1>1, NewWriterProxyType
  <2>3. rp \in [Readers -> ReaderProxy]
        BY <1>1, <1>3
  <2>4. /\ hbCount \in [Readers -> Nat] /\ ackCount \in [Readers -> Nat]
        /\ rMatches \in [Readers -> 0..MaxReaderMatch]
        BY <1>1, <1>2
  <2>5. given \in [Readers -> SUBSET SN] /\ passed \in [Readers -> SUBSET SN]
        BY <1>1
  <2>6. /\ cache \in SUBSET SN /\ nextSn \in 1..(MaxSN + 1) /\ flushed \in 0..MaxSN
        /\ trimmed \in 0..MaxSN /\ wMatches \in 0..MaxMatch /\ net \in SUBSET Message
        /\ evicted \in SUBSET SN
        BY <1>1, <1>2
  <2> QED  BY <2>1, <2>2, <2>3, <2>4, <2>5, <2>6 DEF TypeOK
<1>6. WriterAccounts
      BY <1>1, <1>2, <1>4 DEF WriterAccounts
<1>7. AckedIsPassed /\ TrimmedIsPassed
      BY <1>1, <1>2, <1>4 DEF AckedIsPassed, TrimmedIsPassed
<1>8. NetSound /\ PassedAccounted
      BY <1>1, <1>2 DEF NetSound, PassedAccounted
<1>9. ProxiesInOrder
      BY <1>1, <1>2, NewWriterProxyInOrder DEF ProxiesInOrder
<1>10. PassedCovers
  <2> SUFFICES ASSUME NEW r \in Reliable
               PROVE  {s \in SN : wp[r].calls[s] > 0} \union wp[r].lost \subseteq passed[r]
      BY DEF PassedCovers
  <2>1. wp[r] = NewWriterProxy(r, FALSE)
        BY <1>1, <1>2
  <2>2. \A s \in SN : wp[r].calls[s] = 0
        BY <2>1 DEF NewWriterProxy
  <2>3. wp[r].lost = {}
        BY <2>1 DEF NewWriterProxy
  <2> QED  BY <2>2, <2>3
<1> QED  BY <1>5, <1>6, <1>7, <1>8, <1>9, <1>10 DEF IInv

LEMMA NextIInv == IInv /\ [Next]_vars => IInv'
<1> SUFFICES ASSUME IInv, [Next]_vars PROVE IInv'
    OBVIOUS
<1>1. ASSUME NEW ih \in Instances, Write(ih) PROVE IInv'
      BY <1>1, WriteInv
<1>2. CASE SendHeartbeat(FALSE, FALSE)
      BY <1>2, SendHeartbeatInv
<1>3. CASE SendHeartbeat(TRUE, TRUE)
      BY <1>3, SendHeartbeatInv
<1>4. ASSUME NEW r \in Readers, AddMatchedReader(r) PROVE IInv'
      BY <1>4, AddMatchedReaderInv
<1>5. ASSUME NEW r \in Readers, RemoveMatchedReader(r) PROVE IInv'
      BY <1>5, RemoveMatchedReaderInv
<1>6. ASSUME NEW r \in Readers, AddMatchedWriter(r) PROVE IInv'
      BY <1>6, AddMatchedWriterInv
<1>7. ASSUME NEW r \in Readers, RemoveMatchedWriter(r) PROVE IInv'
      BY <1>7, RemoveMatchedWriterInv
<1>8. ASSUME NEW m \in net, HandleAckNack(m) PROVE IInv'
      BY <1>8, HandleAckNackInv
<1>9. ASSUME NEW m \in net, HandleData(m) PROVE IInv'
      BY <1>9, HandleDataInv
<1>10. ASSUME NEW m \in net, HandleGap(m) PROVE IInv'
       BY <1>10, HandleGapInv
<1>11. ASSUME NEW m \in net, HandleHeartbeat(m) PROVE IInv'
       BY <1>11, HandleHeartbeatInv
<1>12. CASE UNCHANGED vars
       BY <1>12 DEF vars, writerVars, readerVars, IInv, TypeOK, WriterAccounts, AckedIsPassed,
                    TrimmedIsPassed, NetSound, Gone, PassedAccounted, ProxiesInOrder, PassedCovers
<1> QED  BY <1>1, <1>2, <1>3, <1>4, <1>5, <1>6, <1>7, <1>8, <1>9, <1>10, <1>11, <1>12 DEF Next

LEMMA SpecIInv == Spec => []IInv
BY InitIInv, NextIInv, PTL DEF Spec

(* Every variable keeps its type, whatever is lost, late or repeated. *)
THEOREM TypeCorrect == Spec => []TypeOK
<1>1. IInv => TypeOK
      BY DEF IInv
<1> QED  BY <1>1, SpecIInv, PTL

(* The writer never takes for acknowledged what its reader has not delivered *)
(* or been told is gone (handleAckNack, over any unmatching and rematching). *)
THEOREM AcknowledgedIsPassed == Spec => []AckedIsPassed
<1>1. IInv => AckedIsPassed
      BY DEF IInv
<1> QED  BY <1>1, SpecIInv, PTL

(* trimAckedLocked never drops a change that a matched reliable reader is     *)
(* owed and has not been through.                                            *)
THEOREM OwedStaysKept == Spec => []OwedIsKept
<1>1. IInv => OwedIsKept
  <2> SUFFICES ASSUME IInv, NEW r \in Reliable, rp[r].matched,
                      NEW s \in rp[r].startSn..(nextSn - 1), s \notin cache, s \notin evicted
               PROVE  s \in passed[r]
      BY DEF OwedIsKept
  <2>1. /\ rp[r].startSn \in 1..(MaxSN + 1) /\ nextSn \in 1..(MaxSN + 1) /\ MaxSN \in Nat
        /\ SN = 1..MaxSN /\ trimmed \in Int
        BY WriterFacts
  <2>2. s \in SN /\ s < nextSn /\ s \in Int /\ rp[r].startSn <= s
        BY <2>1
  <2>3. s <= trimmed
        BY <2>2, CacheHoles
  <2>4. s \in rp[r].startSn..trimmed
        BY <2>1, <2>2, <2>3
  <2> QED  BY <2>4 DEF IInv, TrimmedIsPassed
<1> QED  BY <1>1, SpecIInv, PTL

(* No HEARTBEAT and no GAP, however stale, makes a reliable reader give up a  *)
(* change that it is owed (handleGap, handleHeartbeat).                      *)
THEOREM LossStaysReal == Spec => []LossIsReal
<1>1. IInv => LossIsReal
      BY DEF IInv, LossIsReal, PassedCovers, PassedAccounted
<1> QED  BY <1>1, SpecIInv, PTL

(* A reliable reader delivers each change at most once, in order, and holds   *)
(* back only what is out of order (deliverChangeLocked,                      *)
(* deliverPendingLocked).                                                    *)
THEOREM DeliveryInOrder == Spec => []DeliveredOnceInOrder
<1>1. IInv => DeliveredOnceInOrder
      BY DEF IInv, DeliveredOnceInOrder, ProxiesInOrder, InOrder
<1> QED  BY <1>1, SpecIInv, PTL
=============================================================================
