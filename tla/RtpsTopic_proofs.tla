-------------------------- MODULE RtpsTopic_proofs --------------------------
(* That RtpsReliable implements ReliableTopic, for any readers, history,     *)
(* bounds and network.                                                       *)
EXTENDS RtpsReliable_proofs, FiniteSetTheorems

(* On top of IInv, which tells what a reader passes over apart from what it   *)
(* is owed: no reader gets, evicts or is sent what was never written, and     *)
(* what a match has handed over is on record.                                *)
NothingInvented ==
    /\ evicted \subseteq 1..(nextSn - 1)
    /\ \A r \in Reliable : /\ passed[r] \subseteq 1..(nextSn - 1)
                           /\ wp[r].received \subseteq 1..(nextSn - 1)
    /\ \A m \in net : m.type = "DATA" => m.sn < nextSn

GivenCovers == \A r \in Reliable : {s \in SN : wp[r].calls[s] > 0} \subseteq given[r]

TInv == IInv /\ NothingInvented /\ GivenCovers

(* How a handler changes a proxy: it has more, and what it newly gives up it *)
(* had not received.                                                         *)
Grows(old, new) ==
    /\ old.received \subseteq new.received /\ old.lost \subseteq new.lost
    /\ new.lost \cap old.received \subseteq old.lost

-----------------------------------------------------------------------------
(* The reader's handlers. *)

LEMMA GoneIsWritten ==
    ASSUME TInv, NEW r \in Reliable
    PROVE  Gone(r) \subseteq 1..(nextSn - 1)
<1>1. /\ evicted \subseteq 1..(nextSn - 1) /\ passed[r] \subseteq 1..(nextSn - 1)
      BY DEF TInv, NothingInvented
<1>2. IInv /\ WriterAccounts
      BY DEF TInv, IInv
<1>3. r \in Readers /\ rp[r].startSn \in Int /\ nextSn \in Int
      BY <1>2, WriterFacts
<1>4. rp[r].startSn <= nextSn
      BY <1>2, <1>3 DEF WriterAccounts
<1>5. 1..(rp[r].startSn - 1) \subseteq 1..(nextSn - 1)
      BY <1>3, <1>4
<1> QED  BY <1>1, <1>5 DEF Gone

(* deliverChangeLocked, of a reliable reader, receives the one SN. *)
LEMMA DeliverChangeGrows ==
    ASSUME NEW r \in Reliable, NEW w \in WriterProxy, NEW sn \in SN
    PROVE  LET v == DeliverChange(r, w, sn)
           IN  v.received = w.received \union {sn} /\ v.lost = w.lost
<1> DEFINE got == [w EXCEPT !.received = @ \union {sn}]
           one == Deliver(got, {sn})
           buf == [got EXCEPT !.pending = @ \union {sn}]
<1>1. w.received \union {sn} \in SUBSET SN
      BY DEF WriterProxy
<1>2. got \in WriterProxy /\ got.received = w.received \union {sn} /\ got.lost = w.lost
      BY <1>1 DEF WriterProxy
<1>3. r \notin BestEffort
      BY DEF Reliable
<1> HIDE DEF got
<1>4. one \in WriterProxy /\ one.received = got.received /\ one.lost = got.lost
      BY <1>2, DeliverType
<1>5. buf.received = got.received /\ buf.lost = got.lost
      BY <1>2 DEF WriterProxy
<1>6. DeliverPending(one, sn).received = one.received /\ DeliverPending(one, sn).lost = one.lost
  <2> HIDE DEF one
  <2> QED  BY <1>4, DeliverPendingType
<1>7. DeliverChange(r, w, sn) = DeliverPending(one, sn) \/ DeliverChange(r, w, sn) = buf
      BY <1>3 DEF DeliverChange, got
<1> HIDE DEF one, buf
<1> QED  BY <1>2, <1>4, <1>5, <1>6, <1>7

(* The proxy that a handler leaves grows, and by nothing that was never      *)
(* written.                                                                  *)
LEMMA HandleDataGrows ==
    ASSUME TInv, NEW m \in net, HandleData(m), m.reader \in Reliable
    PROVE  /\ SetProxy(m.reader, wp'[m.reader]) /\ Grows(wp[m.reader], wp'[m.reader])
           /\ wp'[m.reader].received \subseteq 1..(nextSn - 1)
<1> DEFINE r == m.reader
           w == DeliverChange(r, wp[r], m.sn)
<1>1. m \in Message /\ m.type = "DATA" /\ SetProxy(r, w)
      BY DEF TInv, IInv, TypeOK, HandleData
<1>2. m.sn \in SN /\ m.sn < nextSn /\ r \in Reliable /\ r \in Readers
      BY <1>1, MessageFields DEF TInv, NothingInvented
<1>3. wp \in [Readers -> WriterProxy] /\ wp[r] \in WriterProxy /\ nextSn \in Int /\ SN = 1..MaxSN
      BY <1>2, WriterFacts DEF TInv, IInv, TypeOK
<1>4. wp'[r] = w
      BY <1>1, <1>2, <1>3 DEF SetProxy
<1>5. wp[r].received \subseteq 1..(nextSn - 1)
      BY <1>2 DEF TInv, NothingInvented
<1> HIDE DEF r
<1>6. w.received = wp[r].received \union {m.sn} /\ w.lost = wp[r].lost
      BY <1>2, <1>3, DeliverChangeGrows
<1> HIDE DEF w
<1>7. m.sn \in 1..(nextSn - 1)
      BY <1>2, <1>3
<1>8. Grows(wp[r], w) /\ w.received \subseteq 1..(nextSn - 1)
      BY <1>5, <1>6, <1>7 DEF Grows
<1> QED  BY <1>1, <1>4, <1>8 DEF r

(* Giving up SNs that are gone. *)
LEMMA GiveUpGrows ==
    ASSUME TInv, NEW r \in Reliable, NEW w \in WriterProxy, NEW S \in SUBSET SN,
           NEW prev, S \subseteq Gone(r), w.received \subseteq 1..(nextSn - 1)
    PROVE  LET v == DeliverPending(GiveUp(w, S), prev)
           IN  Grows(w, v) /\ v.received \subseteq 1..(nextSn - 1)
<1> DEFINE g == GiveUp(w, S)
           v == DeliverPending(g, prev)
<1>1. /\ g \in WriterProxy /\ g.received = w.received \union S
      /\ g.lost = w.lost \union (S \ w.received)
      BY GiveUpType
<1> HIDE DEF g
<1>2. v.received = g.received /\ v.lost = g.lost
      BY <1>1, DeliverPendingType
<1> HIDE DEF v
<1>3. S \subseteq 1..(nextSn - 1)
      BY GoneIsWritten
<1>4. Grows(w, v) /\ v.received \subseteq 1..(nextSn - 1)
      BY <1>1, <1>2, <1>3 DEF Grows
<1> QED  BY <1>4 DEF v, g

LEMMA HandleGapGrows ==
    ASSUME TInv, NEW m \in net, HandleGap(m), m.reader \in Reliable
    PROVE  /\ SetProxy(m.reader, wp'[m.reader]) /\ Grows(wp[m.reader], wp'[m.reader])
           /\ wp'[m.reader].received \subseteq 1..(nextSn - 1)
<1> DEFINE r == m.reader
           cum == CumAck(wp[r].received)
           w == DeliverPending(GiveUp(wp[r], GapRange(m)), cum)
<1>1. m \in Message /\ m.type = "GAP" /\ SetProxy(r, w)
      BY DEF TInv, IInv, TypeOK, HandleGap
<1>2. r \in Readers /\ r \in Reliable /\ m.from \in SN /\ m.to \in 1..(MaxSN + 1)
      BY <1>1, MessageFields
<1>3. GapRange(m) \in SUBSET SN /\ GapRange(m) \subseteq Gone(r)
  <2>1. GapRange(m) \in SUBSET SN
        BY <1>2, ConstantsType DEF GapRange
  <2> QED  BY <1>1, <2>1 DEF TInv, IInv, NetSound, GapRange
<1>4. wp \in [Readers -> WriterProxy] /\ wp[r] \in WriterProxy
      BY <1>2 DEF TInv, IInv, TypeOK
<1>5. wp[r].received \subseteq 1..(nextSn - 1)
      BY <1>2 DEF TInv, NothingInvented
<1>6. wp'[r] = w
      BY <1>1, <1>2, <1>4 DEF SetProxy
<1> HIDE DEF r, cum
<1>7. Grows(wp[r], w) /\ w.received \subseteq 1..(nextSn - 1)
      BY <1>2, <1>3, <1>4, <1>5, GiveUpGrows
<1> HIDE DEF w
<1> QED  BY <1>1, <1>6, <1>7 DEF r

LEMMA HandleHeartbeatGrows ==
    ASSUME TInv, NEW m \in net, HandleHeartbeat(m), m.reader \in Reliable
    PROVE  /\ SetProxy(m.reader, wp'[m.reader]) /\ Grows(wp[m.reader], wp'[m.reader])
           /\ wp'[m.reader].received \subseteq 1..(nextSn - 1)
<1> DEFINE r    == m.reader
           w    == HeardProxy(r, m)
           cum  == CumAck(wp[r].received)
           head == [wp[r] EXCEPT !.lastHb = m.count, !.ready = TRUE, !.est = TRUE,
                                 !.floor = HistoryFloor(wp[r], m)]
           S    == (cum + 1)..(m.first - 1)
<1>1. m \in Message /\ m.type = "HB" /\ SetProxy(r, w)
      BY DEF TInv, IInv, TypeOK, HandleHeartbeat
<1>2. /\ r \in Readers /\ r \in Reliable /\ m.first \in 1..(MaxSN + 1) /\ m.last \in 0..MaxSN
      /\ m.count \in Nat
      BY <1>1, MessageFields
<1>3. wp \in [Readers -> WriterProxy] /\ wp[r] \in WriterProxy /\ cum \in 0..MaxSN
      BY <1>2, ProxyFacts DEF TInv, IInv, TypeOK
<1>4. wp[r].received \subseteq 1..(nextSn - 1)
      BY <1>2 DEF TInv, NothingInvented
<1>5. wp'[r] = w
      BY <1>1, <1>2, <1>3 DEF SetProxy
<1>6. w = DeliverPending(GiveUp(head, S), cum) \/ w = head
      BY DEF HeardProxy
<1>7. 1..(m.first - 1) \subseteq Gone(r)
      BY <1>1, <1>2 DEF TInv, IInv, NetSound
<1> HIDE DEF r, cum, w
<1>8. HistoryFloor(wp[r], m) \in 0..MaxSN
      BY <1>2, <1>3 DEF HistoryFloor, WriterProxy
<1>9. /\ head \in WriterProxy /\ head.received = wp[r].received /\ head.lost = wp[r].lost
      BY <1>2, <1>3, <1>8 DEF WriterProxy
<1>10. S \in SUBSET SN /\ S \subseteq Gone(r)
  <2>1. S \in SUBSET SN /\ S \subseteq 1..(m.first - 1)
        BY <1>2, <1>3, ConstantsType
  <2> QED  BY <1>7, <2>1
<1> HIDE DEF head, S
<1>11. Grows(wp[r], w) /\ w.received \subseteq 1..(nextSn - 1)
  <2>1. CASE w = DeliverPending(GiveUp(head, S), cum)
    <3>1. Grows(head, w) /\ w.received \subseteq 1..(nextSn - 1)
          BY <1>2, <1>4, <1>9, <1>10, <2>1, GiveUpGrows
    <3> QED  BY <1>9, <3>1 DEF Grows
  <2>2. CASE w = head
        BY <1>4, <1>9, <2>2 DEF Grows
  <2> QED  BY <1>6, <2>1, <2>2
<1> QED  BY <1>1, <1>5, <1>11 DEF r

-----------------------------------------------------------------------------
(* The steps, seen as steps of the topic. *)

(* What the topic sees of a reader's step, for the readers it leaves alone. *)
LEMMA OthersUnchanged ==
    ASSUME TInv, NEW r \in Readers, NEW w, SetProxy(r, w)
    PROVE  /\ wp'[r] = w /\ given'[r] = given[r] \union {s \in SN : w.calls[s] > 0}
           /\ passed'[r] = passed[r] \union {s \in SN : w.calls[s] > 0} \union w.lost
           /\ \A q \in Readers : q # r => /\ wp'[q] = wp[q] /\ given'[q] = given[q]
                                          /\ passed'[q] = passed[q]
<1>1. /\ wp \in [Readers -> WriterProxy] /\ given \in [Readers -> SUBSET SN]
      /\ passed \in [Readers -> SUBSET SN]
      BY DEF TInv, IInv, TypeOK
<1> QED  BY <1>1 DEF SetProxy

(* A best-effort reader is not part of the topic. *)
LEMMA BestEffortStutters ==
    ASSUME TInv, NEW r \in Readers, r \notin Reliable, NEW w, SetProxy(r, w), UNCHANGED writerVars
    PROVE  UNCHANGED Topic!topicVars
<1>1. \A q \in Reliable : wp'[q] = wp[q] /\ given'[q] = given[q]
      BY OthersUnchanged, ConstantsType
<1>2. nextSn' = nextSn /\ evicted' = evicted /\ rp' = rp
      BY DEF writerVars
<1> QED  BY <1>1, <1>2 DEF Topic!topicVars

(* addOrRefreshMatchedWriter, removeMatchedWriterDeferred. *)
LEMMA NewProxyRestarts ==
    ASSUME TInv, NEW r \in Reliable, NEW match \in BOOLEAN, SetProxy(r, NewWriterProxy(r, match)),
           UNCHANGED writerVars
    PROVE  Topic!Restart(r)
<1> DEFINE w == NewWriterProxy(r, match)
<1>1. w.received = {} /\ w.calls = [s \in SN |-> 0]
      BY DEF NewWriterProxy
<1>2. CumAck({}) = 0
      BY CumAckUnique, ConstantsType
<1>3. {s \in SN : w.calls[s] > 0} = {}
      BY <1>1
<1>4. SetProxy(r, w) /\ r \in Readers /\ Reliable \subseteq Readers
      BY ConstantsType
<1> HIDE DEF w
<1>5. /\ wp'[r] = w /\ given'[r] = given[r]
      /\ \A q \in Reliable : given'[q] = given[q] /\ (q # r => wp'[q] = wp[q])
  <2>1. /\ wp'[r] = w /\ given'[r] = given[r] \union {s \in SN : w.calls[s] > 0}
        /\ \A q \in Readers : q # r => wp'[q] = wp[q] /\ given'[q] = given[q]
        BY <1>4, OthersUnchanged
  <2> QED  BY <1>3, <1>4, <2>1
<1>6. nextSn' = nextSn /\ evicted' = evicted /\ rp' = rp
      BY DEF writerVars
<1>7. Topic!SN = SN
      BY DEF Topic!SN, SN
<1>8. [q \in Reliable |-> CumAck(wp[q].received)]'
          = [[q \in Reliable |-> CumAck(wp[q].received)] EXCEPT ![r] = 0]
      BY <1>1, <1>2, <1>5
<1>9. [q \in Reliable |-> wp[q].calls]'
          = [[q \in Reliable |-> wp[q].calls] EXCEPT ![r] = [s \in SN |-> 0]]
      BY <1>1, <1>5
<1> QED  BY <1>5, <1>6, <1>7, <1>8, <1>9 DEF Topic!Restart

(* A handler that lets a reliable reader on: it is handed, in order, what is *)
(* new up to the cumulative acknowledgement and was not given up.            *)
LEMMA GrowthAdvances ==
    ASSUME TInv, TInv', NEW r \in Reliable, SetProxy(r, wp'[r]), Grows(wp[r], wp'[r]),
           UNCHANGED writerVars
    PROVE  \/ UNCHANGED Topic!topicVars
           \/ \E n \in (CumAck(wp[r].received) + 1)..(nextSn - 1) : Topic!Advance(r, n)
<1> DEFINE v == wp[r]
           w == wp'[r]
           a == CumAck(v.received)
           b == CumAck(w.received)
           C == {s \in SN : w.calls[s] > 0}
           way == (a + 1)..b
           D == way \ w.lost
<1>1. /\ v \in WriterProxy /\ w \in WriterProxy /\ r \in Readers
      /\ v.received \in SUBSET SN /\ w.received \in SUBSET SN
      /\ v.calls \in [SN -> Nat] /\ w.calls \in [SN -> Nat] /\ w.lost \in SUBSET SN
  <2>1. v \in WriterProxy /\ w \in WriterProxy /\ r \in Readers
        BY ConstantsType DEF TInv, IInv, TypeOK
  <2> HIDE DEF v, w
  <2> QED  BY <2>1 DEF WriterProxy
<1>2. /\ a \in 0..MaxSN /\ b \in 0..MaxSN /\ 1..a \subseteq v.received /\ 1..b \subseteq w.received
      /\ a <= b /\ MaxSN \in Nat /\ SN = 1..MaxSN
  <2>1. v.received \subseteq w.received
        BY DEF Grows
  <2> HIDE DEF v, w
  <2> QED  BY <1>1, <2>1, CumAckProperty, CumAckMonotone, ConstantsType
<1>3. InOrder(v, a) /\ InOrder(w, b)
      BY DEF TInv, IInv, ProxiesInOrder
<1>4. /\ nextSn' = nextSn /\ evicted' = evicted /\ rp' = rp
      BY DEF writerVars
<1>5. /\ given'[r] = given[r] \union C
      /\ \A q \in Reliable : q # r => wp'[q] = wp[q] /\ given'[q] = given[q]
      BY <1>1, OthersUnchanged, ConstantsType
<1>6. {s \in SN : v.calls[s] > 0} \subseteq given[r]
      BY DEF TInv, GivenCovers
<1>7. Grows(v, w)
      OBVIOUS
<1>8. w.lost \subseteq evicted \union given'[r] \union 1..(rp[r].startSn - 1)
  <2>1. w.lost \subseteq passed'[r]
        BY DEF TInv, IInv, PassedCovers
  <2>2. passed'[r] \subseteq evicted' \union given'[r] \union 1..(rp'[r].startSn - 1)
        BY DEF TInv, IInv, PassedAccounted
  <2> QED  BY <1>4, <2>1, <2>2
<1>9. w.received \subseteq 1..(nextSn - 1)
      BY <1>4 DEF TInv, NothingInvented
<1>10. nextSn \in Int
      BY WriterFacts DEF TInv
<1> HIDE DEF v, w, a, b
<1>11. \A s \in SN : /\ s \in w.lost /\ s <= a => s \in v.lost
                     /\ s \in v.lost => s \in w.lost
  <2>1. \A s \in SN : s <= a => s \in v.received
        BY <1>2
  <2> QED  BY <1>7, <2>1 DEF Grows
<1>12. \A s \in SN : w.calls[s] = IF s \in D THEN v.calls[s] + 1 ELSE v.calls[s]
  <2> SUFFICES ASSUME NEW s \in SN
               PROVE  w.calls[s] = IF s \in D THEN v.calls[s] + 1 ELSE v.calls[s]
      OBVIOUS
  <2>1. /\ v.calls[s] = IF s <= a /\ s \notin v.lost THEN 1 ELSE 0
        /\ w.calls[s] = IF s <= b /\ s \notin w.lost THEN 1 ELSE 0
        BY <1>3 DEF InOrder
  <2>2. s \in D <=> s > a /\ s <= b /\ s \notin w.lost
        BY <1>2
  <2> HIDE DEF D
  <2> QED  BY <1>2, <1>11, <2>1, <2>2
<1>13. D \subseteq SN /\ C = {s \in SN : v.calls[s] > 0} \union D
  <2>1. D \subseteq SN
        BY <1>2
  <2>2. \A s \in SN : v.calls[s] \in Nat
        BY <1>1
  <2> HIDE DEF D
  <2> QED  BY <1>12, <2>1, <2>2
<1>14. given'[r] = given[r] \union D
      BY <1>5, <1>6, <1>13
<1>15. w.calls = [s \in SN |-> IF s \in D THEN v.calls[s] + 1 ELSE v.calls[s]]
      BY <1>1, <1>12
<1>16. CASE a = b
  <2>1. D = {}
        BY <1>2, <1>16
  <2>2. w.calls = v.calls
        BY <1>1, <1>15, <2>1
  <2>3. given'[r] = given[r]
        BY <1>14, <2>1
  <2>4. /\ \A q \in Reliable : CumAck(wp'[q].received) = CumAck(wp[q].received)
        /\ \A q \in Reliable : wp'[q].calls = wp[q].calls /\ given'[q] = given[q]
        BY <1>5, <1>16, <2>2, <2>3 DEF a, b, v, w
  <2> QED  BY <1>4, <2>4 DEF Topic!topicVars
<1>17. CASE a # b
  <2>1. b \in (a + 1)..(nextSn - 1)
    <3>1. b \in 1..b
          BY <1>2, <1>17
    <3>2. b \in w.received
          BY <1>2, <3>1
    <3>3. b \in 1..(nextSn - 1)
          BY <1>9, <3>2
    <3>4. a \in Int /\ b \in Int /\ a + 1 <= b
          BY <1>2, <1>17
    <3> QED  BY <1>10, <3>3, <3>4
  <2>2. way \ D \subseteq evicted \union 1..(rp[r].startSn - 1) \union given[r]
    <3>1. \A s \in way \ D : s \in w.lost /\ s \in SN
          BY <1>2
    <3>2. \A s \in SN : s \in w.lost => s \notin D
          OBVIOUS
    <3> HIDE DEF D, way
    <3> QED  BY <1>8, <1>14, <3>1, <3>2
  <2>3. [q \in Reliable |-> CumAck(wp[q].received)]'
            = [[q \in Reliable |-> CumAck(wp[q].received)] EXCEPT ![r] = b]
        BY <1>5 DEF b, w
  <2>4. [q \in Reliable |-> wp[q].calls]'
            = [[q \in Reliable |-> wp[q].calls] EXCEPT
                  ![r] = [s \in SN |-> IF s \in D THEN @[s] + 1 ELSE @[s]]]
    <3> HIDE DEF D
    <3> QED  BY <1>5, <1>15 DEF v, w
  <2>5. [q \in Reliable |-> given[q]]'
            = [[q \in Reliable |-> given[q]] EXCEPT ![r] = @ \union D]
    <3> HIDE DEF D
    <3> QED  BY <1>5, <1>14
  <2>6. PICK n \in 0..MaxSN : n = b
        BY <1>2
  <2>7. Topic!Advance(r, n)
    <3>1. Topic!SN = SN
          BY DEF Topic!SN, SN
    <3>2. D \in SUBSET ((CumAck(wp[r].received) + 1)..n)
          BY <2>6 DEF a, v
    <3>3. ((CumAck(wp[r].received) + 1)..n) \ D \subseteq Topic!NotOwed(r)
          BY <2>2, <2>6 DEF Topic!NotOwed, a, v
    <3> HIDE DEF D
    <3> QED  BY <1>4, <2>3, <2>4, <2>5, <2>6, <3>1, <3>2, <3>3 DEF Topic!Advance
  <2>8. n \in (CumAck(wp[r].received) + 1)..(nextSn - 1)
        BY <2>1, <2>6 DEF a, v
  <2> QED  BY <2>7, <2>8
<1> QED  BY <1>16, <1>17

-----------------------------------------------------------------------------
(* TInv is inductive. *)

LEMMA ReaderTInv ==
    ASSUME TInv, IInv', NEW r \in Readers, NEW w, SetProxy(r, w), UNCHANGED writerVars,
           \A m \in net' : m.type = "DATA" => m \in net,
           r \in Reliable => w.received \subseteq 1..(nextSn - 1)
    PROVE  TInv'
<1>1. /\ wp'[r] = w /\ given'[r] = given[r] \union {s \in SN : w.calls[s] > 0}
      /\ passed'[r] = passed[r] \union {s \in SN : w.calls[s] > 0} \union w.lost
      /\ \A q \in Readers : q # r => /\ wp'[q] = wp[q] /\ given'[q] = given[q]
                                     /\ passed'[q] = passed[q]
      BY OthersUnchanged
<1>2. nextSn' = nextSn /\ evicted' = evicted
      BY DEF writerVars
<1>3. Reliable \subseteq Readers
      BY ConstantsType
<1>4. r \in Reliable => {s \in SN : w.calls[s] > 0} \union w.lost \subseteq w.received
  <2> SUFFICES ASSUME r \in Reliable
               PROVE  {s \in SN : w.calls[s] > 0} \union w.lost \subseteq w.received
      OBVIOUS
  <2>1. w \in WriterProxy /\ InOrder(w, CumAck(w.received))
        BY <1>1, <1>3 DEF IInv, TypeOK, ProxiesInOrder
  <2>2. w.received \in SUBSET SN
        BY <2>1 DEF WriterProxy
  <2>3. 1..CumAck(w.received) \subseteq w.received /\ CumAck(w.received) \in 0..MaxSN
        BY <2>2, CumAckProperty
  <2>4. \A s \in SN : s <= CumAck(w.received) => s \in w.received
        BY <2>3, ConstantsType
  <2> QED  BY <2>1, <2>4 DEF InOrder
<1>5. NothingInvented'
  <2>1. \A q \in Reliable : /\ passed'[q] \subseteq 1..(nextSn - 1)
                            /\ wp'[q].received \subseteq 1..(nextSn - 1)
        BY <1>1, <1>3, <1>4 DEF TInv, NothingInvented
  <2> QED  BY <1>2, <2>1 DEF TInv, NothingInvented
<1>6. GivenCovers'
  <2>1. \A q \in Reliable : {s \in SN : wp[q].calls[s] > 0} \subseteq given[q]
        BY DEF TInv, GivenCovers
  <2>2. \A q \in Reliable : {s \in SN : wp'[q].calls[s] > 0} \subseteq given'[q]
        BY <1>1, <1>3, <2>1
  <2> QED  BY <2>2 DEF GivenCovers
<1> QED  BY <1>5, <1>6 DEF TInv

LEMMA IntervalGrows == \A a, b \in Int : a <= b => 1..(a - 1) \subseteq 1..(b - 1)
OBVIOUS

LEMMA WriterTInv ==
    ASSUME TInv, IInv', UNCHANGED readerVars, nextSn <= nextSn',
           evicted' \subseteq 1..(nextSn' - 1),
           \A m \in net' : m.type = "DATA" => m \in net \/ m.sn < nextSn'
    PROVE  TInv'
<1>1. wp' = wp /\ given' = given /\ passed' = passed
      BY DEF readerVars
<1>2. nextSn \in Int /\ nextSn' \in Int /\ nextSn <= nextSn'
  <2>1. nextSn \in 1..(MaxSN + 1) /\ nextSn' \in 1..(MaxSN + 1)
        BY DEF TInv, IInv, TypeOK
  <2> QED  BY <2>1, ConstantsType
<1>3. 1..(nextSn - 1) \subseteq 1..(nextSn' - 1)
      BY <1>2, IntervalGrows
<1>4. NothingInvented'
  <2>1. \A r \in Reliable : /\ passed'[r] \subseteq 1..(nextSn' - 1)
                            /\ wp'[r].received \subseteq 1..(nextSn' - 1)
        BY <1>1, <1>3 DEF TInv, NothingInvented
  <2>2. ASSUME NEW m \in net', m.type = "DATA" PROVE m.sn < nextSn'
    <3>1. CASE m \in net
      <4>1. m \in Message /\ m.sn < nextSn
            BY <2>2, <3>1 DEF TInv, NothingInvented, IInv, TypeOK
      <4>2. m.sn \in Int
            BY <2>2, <4>1, MessageFields, ConstantsType
      <4> QED  BY <1>2, <4>1, <4>2
    <3> QED  BY <2>2, <3>1
  <2> QED  BY <2>1, <2>2 DEF NothingInvented
<1>5. GivenCovers'
      BY <1>1 DEF TInv, GivenCovers
<1> QED  BY <1>4, <1>5 DEF TInv

LEMMA HeartbeatIsNoData ==
    ASSUME NEW r, NEW start, NEW c, NEW t, NEW last, NEW count, NEW final,
           NEW m \in HeartbeatMsgs(r, start, c, t, last, count, final)
    PROVE  m.type # "DATA"
BY DEF HeartbeatMsgs, Hb, Gap

LEMMA AckNackIsNoData ==
    ASSUME NEW r, NEW w, NEW last, NEW count, NEW final,
           NEW m \in AckNackMsgs(r, w, last, count, final)
    PROVE  m.type # "DATA"
BY DEF AckNackMsgs, AckNack

(* What each step leaves of the topic: a handler of a reliable reader lets it *)
(* on, one of a best-effort reader leaves the topic alone.                    *)
LEMMA GrowthStep ==
    ASSUME TInv, IInv', NEW m \in net, m.reader \in Readers,
           SetProxy(m.reader, wp'[m.reader]), UNCHANGED writerVars,
           \A k \in net' : k.type = "DATA" => k \in net,
           m.reader \in Reliable => /\ Grows(wp[m.reader], wp'[m.reader])
                                    /\ wp'[m.reader].received \subseteq 1..(nextSn - 1)
    PROVE  TInv' /\ [Topic!Next]_(Topic!topicVars)
<1>1. PICK r \in Readers : r = m.reader
      OBVIOUS
<1>2. TInv'
      BY <1>1, ReaderTInv
<1>3. CASE r \in Reliable
  <2>1. \/ UNCHANGED Topic!topicVars
        \/ \E n \in (CumAck(wp[r].received) + 1)..(nextSn - 1) : Topic!Advance(r, n)
        BY <1>1, <1>2, <1>3, GrowthAdvances
  <2> QED  BY <1>2, <1>3, <2>1 DEF Topic!Next
<1>4. CASE r \notin Reliable
      BY <1>1, <1>2, <1>4, BestEffortStutters
<1> QED  BY <1>3, <1>4

LEMMA RestartStep ==
    ASSUME TInv, IInv', NEW r \in Readers, NEW match \in BOOLEAN,
           SetProxy(r, NewWriterProxy(r, match)), UNCHANGED writerVars,
           \A m \in net' : m.type = "DATA" => m \in net
    PROVE  TInv' /\ [Topic!Next]_(Topic!topicVars)
<1>1. NewWriterProxy(r, match).received = {}
      BY DEF NewWriterProxy
<1>2. TInv'
      BY <1>1, ReaderTInv
<1>3. CASE r \in Reliable
      BY <1>2, <1>3, NewProxyRestarts DEF Topic!Next
<1>4. CASE r \notin Reliable
      BY <1>2, <1>4, BestEffortStutters
<1> QED  BY <1>3, <1>4

-----------------------------------------------------------------------------
(* The actions. *)

LEMMA WriteStep ==
    ASSUME TInv, NEW ih \in Instances, Write(ih)
    PROVE  TInv' /\ Topic!Write
<1> DEFINE victims == KeepLastVictims(ih)
           c == (cache \ victims) \union {nextSn}
<1>1. IInv'
      BY WriteInv DEF TInv
<1>2. /\ nextSn' = nextSn + 1 /\ evicted' = evicted \union victims
      /\ rp' = rp /\ UNCHANGED readerVars
      BY DEF Write
<1>3. net' = Sent(net, WriteMsgs(c))
      BY DEF Write
<1>4. victims \subseteq cache
      BY DEF KeepLastVictims
<1>5. cache \subseteq 1..(nextSn - 1) /\ evicted \subseteq 1..(nextSn - 1) /\ nextSn \in 1..(MaxSN + 1)
      BY DEF TInv, IInv, TypeOK, WriterAccounts, NothingInvented
<1>6. nextSn \in Int
      BY <1>5, ConstantsType
<1> HIDE DEF victims, c
<1>7. \A m \in net' : m.type = "DATA" => m \in net \/ m.sn < nextSn'
  <2>1. net' \subseteq net \union WriteMsgs(c)
        BY <1>3, SentProperty
  <2>2. ASSUME NEW m \in WriteMsgs(c), m.type = "DATA" PROVE m.sn = nextSn
    <3>1. PICK r \in Readers :
              \/ m = Data(r, nextSn)
              \/ m \in HeartbeatMsgs(r, rp[r].startSn, c, trimmed, LastSent(c, trimmed),
                                     Count(hbCount[r], 1), FALSE)
          BY <2>2 DEF WriteMsgs
    <3>2. m = Data(r, nextSn)
          BY <2>2, <3>1, HeartbeatIsNoData
    <3> QED  BY <3>2 DEF Data
  <2> QED  BY <1>2, <1>6, <2>1, <2>2
<1>8. evicted' \subseteq 1..(nextSn' - 1)
  <2>1. 1..(nextSn - 1) \subseteq 1..(nextSn' - 1)
        BY <1>2, <1>6, IntervalGrows
  <2> QED  BY <1>2, <1>4, <1>5, <2>1
<1>9. TInv'
      BY <1>1, <1>2, <1>6, <1>7, <1>8, WriterTInv
<1>10. Topic!Write
  <2>1. (nextSn - 1)' = (nextSn - 1) + 1
        BY <1>2, <1>6
  <2>2. victims \in SUBSET (1..(nextSn - 1))
        BY <1>4, <1>5
  <2>3. wp' = wp /\ given' = given
        BY <1>2 DEF readerVars
  <2> QED  BY <1>2, <2>1, <2>2, <2>3 DEF Topic!Write
<1> QED  BY <1>9, <1>10

(* A step of the writer that writes nothing and matches nobody. *)
LEMMA WriterStutters ==
    ASSUME TInv, IInv', UNCHANGED readerVars, nextSn' = nextSn, evicted' = evicted,
           \A r \in Readers : rp'[r].startSn = rp[r].startSn,
           \A m \in net' : m.type = "DATA" => m \in net \/ m.sn < nextSn
    PROVE  TInv' /\ UNCHANGED Topic!topicVars
<1>1. wp' = wp /\ given' = given /\ Reliable \subseteq Readers
      BY ConstantsType DEF readerVars
<1>2. evicted \subseteq 1..(nextSn - 1) /\ nextSn \in 1..(MaxSN + 1)
      BY DEF TInv, NothingInvented, IInv, TypeOK
<1>3. nextSn <= nextSn'
      BY <1>2, ConstantsType
<1>4. TInv'
      BY <1>2, <1>3, WriterTInv
<1>5. \A r \in Reliable : rp'[r].startSn = rp[r].startSn
      BY <1>1
<1>6. UNCHANGED Topic!topicVars
      BY <1>1, <1>5 DEF Topic!topicVars
<1> QED  BY <1>4, <1>6

LEMMA SendHeartbeatStep ==
    ASSUME TInv, NEW final \in BOOLEAN, NEW liveliness \in BOOLEAN,
           SendHeartbeat(final, liveliness)
    PROVE  TInv' /\ UNCHANGED Topic!topicVars
<1> DEFINE beat(r) == HeartbeatMsgs(r, rp[r].startSn, cache, trimmed, PeriodicLast(r),
                                    Count(hbCount[r], 1), final)
           msgs == UNION {beat(r) : r \in HeartbeatTargets(liveliness)}
<1>1. IInv'
      BY SendHeartbeatInv DEF TInv
<1>2. /\ UNCHANGED readerVars /\ nextSn' = nextSn /\ evicted' = evicted /\ rp' = rp
      /\ net' = Sent(net, msgs)
      BY DEF SendHeartbeat
<1>3. \A m \in msgs : m.type # "DATA"
      BY HeartbeatIsNoData
<1> HIDE DEF msgs
<1>4. \A m \in net' : m.type = "DATA" => m \in net
      BY <1>2, <1>3, SentProperty
<1> QED  BY <1>1, <1>2, <1>4, WriterStutters

LEMMA AddMatchedReaderStep ==
    ASSUME TInv, NEW r \in Readers, AddMatchedReader(r)
    PROVE  TInv' /\ [Topic!Next]_(Topic!topicVars)
<1> DEFINE p == MatchedProxy(r)
           replays == ReplayOnMatch /\ r \in WantsReplay
           msgs == IF r \in Reliable
                   THEN HeartbeatMsgs(r, p.startSn, cache, trimmed, LastSent(cache, trimmed),
                                      Count(hbCount[r], 1), FALSE)
                   ELSE IF replays THEN {Data(r, s) : s \in cache} ELSE {}
<1>1. IInv'
      BY AddMatchedReaderInv DEF TInv
<1>2. /\ rp' = [rp EXCEPT ![r] = p] /\ nextSn' = nextSn /\ evicted' = evicted
      /\ UNCHANGED readerVars
      BY DEF AddMatchedReader
<1>3. net' = Sent(net, msgs)
      BY DEF AddMatchedReader
<1>4. p.startSn = IF replays THEN 1 ELSE nextSn
      BY DEF MatchedProxy
<1>5. /\ cache \subseteq 1..(nextSn - 1) /\ nextSn \in 1..(MaxSN + 1)
      /\ evicted \subseteq 1..(nextSn - 1) /\ rp \in [Readers -> ReaderProxy]
      /\ replays => rp[r].startSn = 1
      BY DEF TInv, IInv, TypeOK, WriterAccounts, NothingInvented
<1>6. nextSn \in Int /\ Reliable \subseteq Readers
      BY <1>5, ConstantsType
<1>7. \A m \in msgs : m.type = "DATA" => m.sn < nextSn
  <2>1. CASE r \in Reliable
        BY <2>1, HeartbeatIsNoData
  <2>2. CASE r \notin Reliable
    <3>1. \A s \in cache : s < nextSn
          BY <1>5, <1>6
    <3> QED  BY <2>2, <3>1 DEF Data
  <2> QED  BY <2>1, <2>2
<1> HIDE DEF msgs, p
<1>8. \A m \in net' : m.type = "DATA" => m \in net \/ m.sn < nextSn
      BY <1>3, <1>7, SentProperty
<1>9. nextSn <= nextSn' /\ evicted' \subseteq 1..(nextSn' - 1)
      BY <1>2, <1>5, <1>6
<1>10. TInv'
      BY <1>1, <1>2, <1>8, <1>9, WriterTInv
<1>11. CASE replays \/ r \notin Reliable
  <2>1. \A q \in Reliable : rp'[q].startSn = rp[q].startSn
        BY <1>2, <1>4, <1>5, <1>6, <1>11
  <2>2. wp' = wp /\ given' = given
        BY <1>2 DEF readerVars
  <2>3. UNCHANGED Topic!topicVars
        BY <1>2, <2>1, <2>2 DEF Topic!topicVars
  <2> QED  BY <1>10, <2>3
<1>12. CASE ~replays /\ r \in Reliable
  <2>1. rp'[r] = p /\ p.startSn = (nextSn - 1) + 1 /\ \A q \in Reliable : q # r => rp'[q] = rp[q]
        BY <1>2, <1>4, <1>5, <1>6, <1>12
  <2>2. [q \in Reliable |-> rp[q].startSn]'
            = [[q \in Reliable |-> rp[q].startSn] EXCEPT ![r] = (nextSn - 1) + 1]
        BY <1>12, <2>1
  <2>3. wp' = wp /\ given' = given
        BY <1>2 DEF readerVars
  <2>4. Topic!Match(r)
        BY <1>2, <2>2, <2>3 DEF Topic!Match
  <2> QED  BY <1>10, <1>12, <2>4 DEF Topic!Next
<1> QED  BY <1>11, <1>12

LEMMA RemoveMatchedReaderStep ==
    ASSUME TInv, NEW r \in Readers, RemoveMatchedReader(r)
    PROVE  TInv' /\ UNCHANGED Topic!topicVars
<1>1. IInv'
      BY RemoveMatchedReaderInv DEF TInv
<1>2. /\ rp' = [rp EXCEPT ![r].matched = FALSE] /\ UNCHANGED readerVars
      /\ nextSn' = nextSn /\ evicted' = evicted /\ net' = net
      BY DEF RemoveMatchedReader
<1>3. rp \in [Readers -> ReaderProxy]
      BY DEF TInv, IInv, TypeOK
<1>4. \A q \in Readers : rp'[q].startSn = rp[q].startSn
      BY <1>2, <1>3 DEF ReaderProxy
<1> QED  BY <1>1, <1>2, <1>4, WriterStutters

LEMMA HandleAckNackStep ==
    ASSUME TInv, NEW m \in net, HandleAckNack(m)
    PROVE  TInv' /\ UNCHANGED Topic!topicVars
<1> DEFINE r        == m.reader
           t        == TrimThrough(flushed, [rp EXCEPT ![r].acked = Larger(@, m.base - 1)])
           c        == cache \ (1..t)
           answered == Requested(rp[r], m) # {}
           p        == AckedProxy(rp[r], m, c, answered)
           hb1      == AsksForHeartbeat(p, m, c, t)
           asked    == IF hb1 THEN 1 ELSE 0
           repairs  == {IF s \in c THEN Data(r, s) ELSE Gap(r, s, s + 1) : s \in Requested(p, m)}
           beat(n)  == HeartbeatMsgs(r, p.startSn, c, t, AnswerLast(p, c, t), Count(hbCount[r], n), FALSE)
           msgs     == repairs \union (IF hb1 THEN beat(1) ELSE {})
                               \union (IF answered THEN beat(asked + 1) ELSE {})
<1>1. IInv'
      BY HandleAckNackInv, SMTT(30) DEF TInv
<1>2. /\ rp' = [rp EXCEPT ![r] = p] /\ r \in Reliable /\ UNCHANGED readerVars
      /\ nextSn' = nextSn /\ evicted' = evicted
      BY SMTT(30) DEF HandleAckNack
<1>3. net' = Sent(AfterReceiving(m), msgs)
      BY DEF HandleAckNack
<1>4. /\ rp \in [Readers -> ReaderProxy] /\ r \in Readers /\ rp[r] \in ReaderProxy
      /\ cache \subseteq 1..(nextSn - 1) /\ nextSn \in 1..(MaxSN + 1)
      BY <1>2, ConstantsType DEF TInv, IInv, TypeOK, WriterAccounts
<1>5. p.startSn = rp[r].startSn
      BY <1>4 DEF AckedProxy, ReaderProxy
<1>6. \A q \in Readers : rp'[q].startSn = rp[q].startSn
  <2> HIDE DEF p, r
  <2> QED  BY <1>2, <1>4, <1>5
<1>7. \A k \in msgs : k.type = "DATA" => k.sn < nextSn
  <2>1. \A s \in c : s < nextSn
        BY <1>4, ConstantsType
  <2>2. \A k \in repairs : k.type = "DATA" => k.sn < nextSn
    <3> HIDE DEF c, p, r
    <3> QED  BY <2>1 DEF Data, Gap
  <2>3. \A n : \A k \in beat(n) : k.type # "DATA"
        BY HeartbeatIsNoData
  <2> HIDE DEF repairs, beat, hb1, answered
  <2> QED  BY <2>2, <2>3
<1> HIDE DEF msgs
<1>8. \A k \in net' : k.type = "DATA" => k \in net \/ k.sn < nextSn
      BY <1>3, <1>7, SentProperty, AfterReceivingProperty
<1> HIDE DEF p, r
<1> QED  BY <1>1, <1>2, <1>6, <1>8, WriterStutters

LEMMA AddMatchedWriterStep ==
    ASSUME TInv, NEW r \in Readers, AddMatchedWriter(r)
    PROVE  TInv' /\ [Topic!Next]_(Topic!topicVars)
<1> DEFINE msgs == IF r \in Reliable /\ r \notin Local
                   THEN AckNackMsgs(r, NewWriterProxy(r, TRUE), 0, Count(ackCount[r], 1), FALSE)
                   ELSE {}
<1>1. IInv'
      BY AddMatchedWriterInv DEF TInv
<1>2. SetProxy(r, NewWriterProxy(r, TRUE)) /\ UNCHANGED writerVars /\ net' = Sent(net, msgs)
      BY DEF AddMatchedWriter
<1>3. \A m \in msgs : m.type # "DATA"
      BY AckNackIsNoData
<1> HIDE DEF msgs
<1>4. \A m \in net' : m.type = "DATA" => m \in net
      BY <1>2, <1>3, SentProperty
<1> QED  BY <1>1, <1>2, <1>4, RestartStep

LEMMA RemoveMatchedWriterStep ==
    ASSUME TInv, NEW r \in Readers, RemoveMatchedWriter(r)
    PROVE  TInv' /\ [Topic!Next]_(Topic!topicVars)
<1>1. IInv'
      BY RemoveMatchedWriterInv DEF TInv
<1>2. SetProxy(r, NewWriterProxy(r, FALSE)) /\ UNCHANGED writerVars /\ net' = net
      BY DEF RemoveMatchedWriter
<1> QED  BY <1>1, <1>2, RestartStep

(* SetProxy of a handler's reader, in terms of the proxy it leaves. *)
LEMMA ProxyLeft ==
    ASSUME TInv, NEW r \in Readers, NEW w, SetProxy(r, w)
    PROVE  SetProxy(r, wp'[r])
<1>1. wp'[r] = w
      BY OthersUnchanged
<1> QED  BY <1>1

LEMMA HandleDataStep ==
    ASSUME TInv, NEW m \in net, HandleData(m)
    PROVE  TInv' /\ [Topic!Next]_(Topic!topicVars)
<1>1. IInv'
      BY HandleDataInv DEF TInv
<1>2. m.reader \in Readers
      BY MessageFields DEF TInv, IInv, TypeOK
<1>3. /\ SetProxy(m.reader, DeliverChange(m.reader, wp[m.reader], m.sn))
      /\ UNCHANGED writerVars /\ net' = AfterReceiving(m)
      BY DEF HandleData
<1>4. SetProxy(m.reader, wp'[m.reader])
      BY <1>2, <1>3, ProxyLeft
<1>5. \A k \in net' : k.type = "DATA" => k \in net
      BY <1>3, AfterReceivingProperty
<1> QED  BY <1>1, <1>2, <1>3, <1>4, <1>5, HandleDataGrows, GrowthStep

LEMMA HandleGapStep ==
    ASSUME TInv, NEW m \in net, HandleGap(m)
    PROVE  TInv' /\ [Topic!Next]_(Topic!topicVars)
<1> DEFINE g == GiveUp(wp[m.reader], GapRange(m))
           w == IF m.reader \in Reliable THEN DeliverPending(g, CumAck(wp[m.reader].received)) ELSE g
<1>1. IInv'
      BY HandleGapInv DEF TInv
<1>2. m.reader \in Readers
      BY MessageFields DEF TInv, IInv, TypeOK
<1>3. SetProxy(m.reader, w) /\ UNCHANGED writerVars /\ net' = AfterReceiving(m)
      BY DEF HandleGap
<1> HIDE DEF w
<1>4. SetProxy(m.reader, wp'[m.reader])
      BY <1>2, <1>3, ProxyLeft
<1>5. \A k \in net' : k.type = "DATA" => k \in net
      BY <1>3, AfterReceivingProperty
<1> QED  BY <1>1, <1>2, <1>3, <1>4, <1>5, HandleGapGrows, GrowthStep

LEMMA HandleHeartbeatStep ==
    ASSUME TInv, NEW m \in net, HandleHeartbeat(m)
    PROVE  TInv' /\ [Topic!Next]_(Topic!topicVars)
<1> DEFINE r    == m.reader
           w    == HeardProxy(r, m)
           msgs == IF r \in Reliable /\ Replies(w, m)
                   THEN AckNackMsgs(r, w, m.last, Count(ackCount[r], 1), ~(CumAck(w.received) < m.last))
                   ELSE {}
<1>1. IInv'
      BY HandleHeartbeatInv DEF TInv
<1>2. m.reader \in Readers
      BY MessageFields DEF TInv, IInv, TypeOK
<1>3. SetProxy(r, w) /\ UNCHANGED writerVars /\ net' = Sent(AfterReceiving(m), msgs)
      BY DEF HandleHeartbeat
<1>4. \A k \in msgs : k.type # "DATA"
      BY AckNackIsNoData
<1> HIDE DEF w, msgs
<1>5. SetProxy(m.reader, wp'[m.reader])
      BY <1>2, <1>3, ProxyLeft
<1>6. \A k \in net' : k.type = "DATA" => k \in net
      BY <1>3, <1>4, SentProperty, AfterReceivingProperty
<1> QED  BY <1>1, <1>2, <1>3, <1>5, <1>6, HandleHeartbeatGrows, GrowthStep

-----------------------------------------------------------------------------
(* The initial states, and every step. *)

LEMMA InitTopic == Init => TInv /\ Topic!Init
<1> SUFFICES ASSUME Init PROVE TInv /\ Topic!Init
    OBVIOUS
<1>1. /\ nextSn = 1 /\ net = {} /\ evicted = {} /\ rp = [r \in Readers |-> UnmatchedReader]
      /\ wp = [r \in Readers |-> NewWriterProxy(r, FALSE)]
      /\ given = [r \in Readers |-> {}] /\ passed = [r \in Readers |-> {}]
      BY DEF Init
<1>2. UnmatchedReader.startSn = 1 /\ Reliable \subseteq Readers
      BY ConstantsType DEF UnmatchedReader
<1>3. \A r \in Reliable : /\ rp[r].startSn = 1 /\ given[r] = {} /\ passed[r] = {}
                          /\ wp[r] = NewWriterProxy(r, FALSE)
      BY <1>1, <1>2
<1>4. \A r \in Reliable : wp[r].received = {} /\ wp[r].calls = [s \in SN |-> 0]
  <2> TAKE r \in Reliable
  <2>1. /\ NewWriterProxy(r, FALSE).received = {}
        /\ NewWriterProxy(r, FALSE).calls = [s \in SN |-> 0]
        BY DEF NewWriterProxy
  <2> QED  BY <1>3, <2>1
<1>5. CumAck({}) = 0
      BY CumAckUnique, ConstantsType
<1>6. NothingInvented
  <2>1. \A r \in Reliable : /\ passed[r] \subseteq 1..(nextSn - 1)
                            /\ wp[r].received \subseteq 1..(nextSn - 1)
        BY <1>3, <1>4, Zenon
  <2>2. evicted \subseteq 1..(nextSn - 1) /\ \A m \in net : m.type = "DATA" => m.sn < nextSn
        BY <1>1, Zenon
  <2> QED  BY <2>1, <2>2 DEF NothingInvented
<1>7. GivenCovers
  <2>1. \A r \in Reliable : \A s \in SN : wp[r].calls[s] = 0
        BY <1>4
  <2> QED  BY <2>1 DEF GivenCovers
<1>8. Topic!Init
  <2>1. Topic!SN = SN
        BY DEF Topic!SN, SN
  <2>2. /\ [r \in Reliable |-> rp[r].startSn] = [r \in Reliable |-> 1]
        /\ [r \in Reliable |-> given[r]] = [r \in Reliable |-> {}]
        BY <1>3
  <2>3. [r \in Reliable |-> CumAck(wp[r].received)] = [r \in Reliable |-> 0]
        BY <1>4, <1>5
  <2>4. [r \in Reliable |-> wp[r].calls] = [r \in Reliable |-> [s \in SN |-> 0]]
        BY <1>4
  <2>5. nextSn - 1 = 0
        BY <1>1
  <2> QED  BY <1>1, <2>1, <2>2, <2>3, <2>4, <2>5 DEF Topic!Init
<1> QED  BY <1>6, <1>7, <1>8, InitIInv DEF TInv

LEMMA NextTopic == TInv /\ [Next]_vars => TInv' /\ [Topic!Next]_(Topic!topicVars)
<1> SUFFICES ASSUME TInv, [Next]_vars PROVE TInv' /\ [Topic!Next]_(Topic!topicVars)
    OBVIOUS
<1>1. ASSUME NEW ih \in Instances, Write(ih) PROVE TInv' /\ [Topic!Next]_(Topic!topicVars)
      BY <1>1, WriteStep DEF Topic!Next
<1>2. CASE SendHeartbeat(FALSE, FALSE) \/ SendHeartbeat(TRUE, TRUE)
      BY <1>2, SendHeartbeatStep
<1>3. ASSUME NEW r \in Readers, AddMatchedReader(r)
      PROVE  TInv' /\ [Topic!Next]_(Topic!topicVars)
      BY <1>3, AddMatchedReaderStep
<1>4. ASSUME NEW r \in Readers, RemoveMatchedReader(r)
      PROVE  TInv' /\ [Topic!Next]_(Topic!topicVars)
      BY <1>4, RemoveMatchedReaderStep
<1>5. ASSUME NEW r \in Readers, AddMatchedWriter(r)
      PROVE  TInv' /\ [Topic!Next]_(Topic!topicVars)
      BY <1>5, AddMatchedWriterStep
<1>6. ASSUME NEW r \in Readers, RemoveMatchedWriter(r)
      PROVE  TInv' /\ [Topic!Next]_(Topic!topicVars)
      BY <1>6, RemoveMatchedWriterStep
<1>7. ASSUME NEW m \in net, HandleAckNack(m) PROVE TInv' /\ [Topic!Next]_(Topic!topicVars)
      BY <1>7, HandleAckNackStep
<1>8. ASSUME NEW m \in net, HandleData(m) PROVE TInv' /\ [Topic!Next]_(Topic!topicVars)
      BY <1>8, HandleDataStep
<1>9. ASSUME NEW m \in net, HandleGap(m) PROVE TInv' /\ [Topic!Next]_(Topic!topicVars)
      BY <1>9, HandleGapStep
<1>10. ASSUME NEW m \in net, HandleHeartbeat(m) PROVE TInv' /\ [Topic!Next]_(Topic!topicVars)
      BY <1>10, HandleHeartbeatStep
<1>11. CASE UNCHANGED vars
  <2>1. IInv'
        BY <1>11, NextIInv DEF TInv
  <2>2. /\ UNCHANGED readerVars /\ nextSn' = nextSn /\ evicted' = evicted /\ rp' = rp /\ net' = net
        BY <1>11 DEF vars, writerVars
  <2> QED  BY <2>1, <2>2, WriterStutters
<1> QED  BY <1>1, <1>2, <1>3, <1>4, <1>5, <1>6, <1>7, <1>8, <1>9, <1>10, <1>11 DEF Next

(* The protocol implements the reliable topic, whatever is lost, duplicated,  *)
(* delayed or reordered, and whoever matches and unmatches when: a reliable   *)
(* reader goes through what was written in order, is handed each change once *)
(* in a match, and passes over none it is owed (write, handleAckNack,         *)
(* handleData, handleGap and handleHeartbeat together).                       *)
THEOREM ProtocolImplementsTopic == Spec => ImplementsTopic
<1>1. Init => TInv /\ Topic!Init
      BY InitTopic
<1>2. TInv /\ [Next]_vars => TInv' /\ [Topic!Next]_(Topic!topicVars)
      BY NextTopic
<1> QED  BY <1>1, <1>2, PTL DEF Spec, ImplementsTopic, Topic!Spec

-----------------------------------------------------------------------------
(* No reader is handed an older change after a newer one.                      *)

(* What a step makes of the proxy of r: nothing, a new one when r matches or   *)
(* unmatches, or what the handler of one of its messages does.                 *)
LEMMA ReaderChange ==
    ASSUME TInv, [Next]_vars, NEW r \in Readers
    PROVE  \/ wp'[r] = wp[r]
           \/ \E match \in BOOLEAN : wp'[r] = NewWriterProxy(r, match) /\ ~(wp[r].matched /\ match)
           \/ \E m \in net : m.reader = r /\ (HandleData(m) \/ HandleGap(m) \/ HandleHeartbeat(m))
<1>1. CASE UNCHANGED readerVars
      BY <1>1 DEF readerVars
<1>2. ASSUME NEW q \in Readers, AddMatchedWriter(q)
      PROVE  wp'[r] = wp[r] \/ (wp'[r] = NewWriterProxy(r, TRUE) /\ ~wp[r].matched)
  <2> DEFINE w == NewWriterProxy(q, TRUE)
  <2>1. SetProxy(q, w) /\ ~wp[q].matched
        BY <1>2 DEF AddMatchedWriter
  <2> HIDE DEF w
  <2>2. wp'[q] = w /\ (r # q => wp'[r] = wp[r])
        BY <2>1, OthersUnchanged
  <2> QED  BY <2>1, <2>2 DEF w
<1>3. ASSUME NEW q \in Readers, RemoveMatchedWriter(q)
      PROVE  wp'[r] = wp[r] \/ wp'[r] = NewWriterProxy(r, FALSE)
  <2> DEFINE w == NewWriterProxy(q, FALSE)
  <2>1. SetProxy(q, w)
        BY <1>3 DEF RemoveMatchedWriter
  <2> HIDE DEF w
  <2>2. wp'[q] = w /\ (r # q => wp'[r] = wp[r])
        BY <2>1, OthersUnchanged
  <2> QED  BY <2>2 DEF w
<1>4. ASSUME NEW m \in net, HandleData(m) \/ HandleGap(m) \/ HandleHeartbeat(m), m.reader # r
      PROVE  wp'[r] = wp[r]
  <2>1. m.reader \in Readers
        BY MessageFields DEF TInv, IInv, TypeOK
  <2>2. \E w : SetProxy(m.reader, w)
        BY <1>4 DEF HandleData, HandleGap, HandleHeartbeat
  <2> QED  BY <1>4, <2>1, <2>2, OthersUnchanged
<1>5. CASE UNCHANGED vars
      BY <1>5 DEF vars, readerVars
<1>6. CASE Next
  <2>1. \/ UNCHANGED readerVars
        \/ \E q \in Readers : AddMatchedWriter(q) \/ RemoveMatchedWriter(q)
        \/ \E m \in net : HandleData(m) \/ HandleGap(m) \/ HandleHeartbeat(m)
        BY <1>6 DEF Next, Write, SendHeartbeat, AddMatchedReader, RemoveMatchedReader, HandleAckNack
  <2> QED  BY <1>1, <1>2, <1>3, <1>4, <2>1
<1> QED  BY <1>5, <1>6

LEMMA NewWriterProxyFields ==
    ASSUME NEW r, NEW match
    PROVE  LET w == NewWriterProxy(r, match)
           IN  /\ w.matched = match /\ w.received = {} /\ w.calls = [s \in SN |-> 0]
               /\ w.floor = 0 /\ w.lastHb = NoCount /\ w.est = ~(ReplayOnMatch /\ r \in WantsReplay)
BY DEF NewWriterProxy

(* A proxy that is matched before and after was changed by a handler, if at all. *)
LEMMA MatchedStep ==
    ASSUME TInv, [Next]_vars, NEW r \in Readers, wp[r].matched, wp'[r].matched
    PROVE  \/ wp'[r] = wp[r]
           \/ \E m \in net : m.reader = r /\ (HandleData(m) \/ HandleGap(m) \/ HandleHeartbeat(m))
<1>1. ASSUME NEW match \in BOOLEAN, wp'[r] = NewWriterProxy(r, match), ~(wp[r].matched /\ match)
      PROVE  FALSE
  <2>1. NewWriterProxy(r, match).matched = match
        BY NewWriterProxyFields
  <2> QED  BY <1>1, <2>1
<1> QED  BY <1>1, ReaderChange

(* A reliable reader: what it is newly handed is above its cumulative         *)
(* acknowledgement, and what it was handed before is not.                     *)
LEMMA ReliableForward ==
    ASSUME TInv, TInv', [Next]_vars, NEW r \in Reliable, wp[r].matched, wp'[r].matched,
           NEW s \in SN, NEW u \in SN, wp[r].calls[s] > 0, wp'[r].calls[u] > wp[r].calls[u]
    PROVE  s < u
<1> DEFINE cum == CumAck(wp[r].received)
<1>1. r \in Readers
      BY ConstantsType
<1>2. Grows(wp[r], wp'[r])
  <2>1. wp[r].calls \in [SN -> Nat]
        BY <1>1 DEF TInv, IInv, TypeOK, WriterProxy
  <2>2. wp'[r] # wp[r]
    <3>1. wp[r].calls[u] \in Nat
          BY <2>1
    <3> QED  BY <3>1
  <2> QED  BY <1>1, <2>2, MatchedStep, HandleDataGrows, HandleGapGrows, HandleHeartbeatGrows
<1>3. cum \in Int /\ InOrder(wp[r], cum) /\ s \in Int /\ u \in Int
      BY <1>1, ProxyFacts, ConstantsType DEF TInv
<1> HIDE DEF cum
<1>4. InOrder(wp'[r], CumAck(wp'[r].received))
      BY DEF TInv, IInv, ProxiesInOrder
<1>5. s <= cum
      BY <1>3 DEF InOrder
<1>6. wp'[r].calls[u] \in {0, 1} /\ wp[r].calls[u] \in {0, 1} /\ (wp'[r].calls[u] = 1 => u \notin wp'[r].lost)
      BY <1>3, <1>4 DEF InOrder
<1>7. wp[r].calls[u] = 0 /\ u \notin wp'[r].lost
      BY <1>6
<1>8. u \notin wp[r].lost
      BY <1>2, <1>7 DEF Grows
<1>9. ~(u <= cum)
      BY <1>3, <1>7, <1>8 DEF InOrder
<1> QED  BY <1>3, <1>5, <1>9

(* A best-effort reader has on record what it was handed. *)
Handed(r) == {s \in SN : wp[r].calls[s] > 0}
BestEffortHeard == \A r \in BestEffort : Handed(r) \subseteq wp[r].received

LEMMA BestEffortData ==
    ASSUME TInv, BestEffortHeard, NEW m \in net, HandleData(m), m.reader \in BestEffort
    PROVE  LET r == m.reader
           IN  /\ Handed(r)' \subseteq wp'[r].received
               /\ \A s, u \in SN : wp[r].calls[s] > 0 /\ wp'[r].calls[u] > wp[r].calls[u] => s < u
<1> DEFINE r   == m.reader
           got == [wp[r] EXCEPT !.received = @ \union {m.sn}]
           one == Deliver(got, {m.sn})
           v   == DeliverChange(r, wp[r], m.sn)
<1>1. m \in Message /\ m.type = "DATA" /\ SetProxy(r, v) /\ r \in Readers /\ r \in BestEffort
      BY MessageFields DEF TInv, IInv, TypeOK, HandleData
<1>2. m.sn \in SN
      BY <1>1, MessageFields
<1>3. wp[r] \in WriterProxy /\ wp[r].received \in SUBSET SN /\ wp[r].calls \in [SN -> Nat]
      BY <1>1 DEF TInv, IInv, TypeOK, WriterProxy
<1>4. wp'[r] = v
      BY <1>1, OthersUnchanged
<1>5. Handed(r) \subseteq wp[r].received
      BY <1>1 DEF BestEffortHeard
<1>6. v = IF m.sn <= MaxSn(wp[r].received) THEN wp[r] ELSE one
      BY <1>1 DEF DeliverChange
<1> HIDE DEF r
<1>7. wp[r].received \union {m.sn} \in SUBSET SN
      BY <1>2, <1>3
<1>8. /\ got \in WriterProxy /\ got.received = wp[r].received \union {m.sn} /\ got.calls = wp[r].calls
      BY <1>3, <1>7 DEF WriterProxy
<1> HIDE DEF got
<1>9. /\ one.received = wp[r].received \union {m.sn}
      /\ \A s \in SN : one.calls[s] = IF s \in {m.sn} THEN wp[r].calls[s] + 1 ELSE wp[r].calls[s]
      BY <1>8, DeliverType
<1> HIDE DEF one, v
<1>10. CASE m.sn <= MaxSn(wp[r].received)
  <2>1. wp'[r] = wp[r]
        BY <1>4, <1>6, <1>10
  <2>2. \A s \in SN : wp[r].calls[s] \in Nat
        BY <1>3
  <2> QED  BY <1>5, <2>1, <2>2 DEF Handed, r
<1>11. CASE ~(m.sn <= MaxSn(wp[r].received))
  <2>1. wp'[r] = one
        BY <1>4, <1>6, <1>11
  <2>2. Handed(r)' \subseteq wp'[r].received
        BY <1>5, <1>9, <2>1 DEF Handed
  <2>3. MaxSn(wp[r].received) \in Int /\ \A s \in wp[r].received : s <= MaxSn(wp[r].received)
        BY <1>3, MaxSnProperty, ConstantsType
  <2>4. ASSUME NEW s \in SN, NEW u \in SN, wp[r].calls[s] > 0, wp'[r].calls[u] > wp[r].calls[u]
        PROVE  s < u
    <3>1. s \in wp[r].received
          BY <1>5, <2>4 DEF Handed
    <3>2. wp[r].calls[u] \in Nat
          BY <1>3
    <3>3. u = m.sn
          BY <1>9, <2>1, <2>4, <3>2
    <3>4. s \in Int /\ u \in Int
          BY ConstantsType
    <3> QED  BY <1>11, <2>3, <3>1, <3>3, <3>4
  <2> QED  BY <2>2, <2>4 DEF r
<1> QED  BY <1>10, <1>11

(* GAP and HEARTBEAT hand a best-effort reader nothing. *)
LEMMA BestEffortQuiet ==
    ASSUME TInv, NEW m \in net, HandleGap(m) \/ HandleHeartbeat(m), m.reader \in BestEffort
    PROVE  /\ wp'[m.reader].calls = wp[m.reader].calls
           /\ wp[m.reader].received \subseteq wp'[m.reader].received
<1> DEFINE r == m.reader
<1>1. m \in Message /\ r \in Readers /\ r \notin Reliable
      BY MessageFields DEF TInv, IInv, TypeOK, Reliable
<1>2. wp[r] \in WriterProxy
      BY <1>1 DEF TInv, IInv, TypeOK
<1>3. CASE HandleGap(m)
  <2> DEFINE w == GiveUp(wp[r], GapRange(m))
  <2>1. SetProxy(r, w) /\ m.type = "GAP"
        BY <1>1, <1>3 DEF HandleGap
  <2>2. GapRange(m) \in SUBSET SN
        BY <1>1, <2>1, MessageFields, ConstantsType DEF GapRange
  <2>3. wp'[r] = w
        BY <1>1, <2>1, OthersUnchanged
  <2> QED  BY <1>2, <2>2, <2>3, GiveUpType
<1>4. CASE HandleHeartbeat(m)
  <2>1. SetProxy(r, HeardProxy(r, m))
        BY <1>4 DEF HandleHeartbeat
  <2>2. wp'[r] = HeardProxy(r, m)
        BY <1>1, <2>1, OthersUnchanged
  <2>3. HeardProxy(r, m) = [wp[r] EXCEPT !.lastHb = m.count, !.ready = TRUE, !.est = TRUE,
                                         !.floor = HistoryFloor(wp[r], m)]
        BY <1>1 DEF HeardProxy
  <2> QED  BY <1>2, <2>2, <2>3 DEF WriterProxy
<1> QED  BY <1>3, <1>4

LEMMA BestEffortForward ==
    ASSUME TInv, BestEffortHeard, [Next]_vars, NEW r \in BestEffort, wp[r].matched, wp'[r].matched
    PROVE  /\ Handed(r)' \subseteq wp'[r].received
           /\ \A s, u \in SN : wp[r].calls[s] > 0 /\ wp'[r].calls[u] > wp[r].calls[u] => s < u
<1>1. r \in Readers /\ Handed(r) \subseteq wp[r].received
      BY ReadersAssumption DEF BestEffortHeard
<1>2. wp[r].calls \in [SN -> Nat]
      BY <1>1 DEF TInv, IInv, TypeOK, WriterProxy
<1>3. \A s \in SN : wp[r].calls[s] \in Nat
      BY <1>2
<1>4. CASE wp'[r] = wp[r]
      BY <1>1, <1>3, <1>4 DEF Handed
<1>5. ASSUME NEW m \in net, m.reader = r, HandleData(m)
      PROVE  /\ Handed(r)' \subseteq wp'[r].received
             /\ \A s, u \in SN : wp[r].calls[s] > 0 /\ wp'[r].calls[u] > wp[r].calls[u] => s < u
      BY <1>5, BestEffortData
<1>6. ASSUME NEW m \in net, m.reader = r, HandleGap(m) \/ HandleHeartbeat(m)
      PROVE  /\ Handed(r)' \subseteq wp'[r].received
             /\ \A s, u \in SN : wp[r].calls[s] > 0 /\ wp'[r].calls[u] > wp[r].calls[u] => s < u
  <2>1. wp'[r].calls = wp[r].calls /\ wp[r].received \subseteq wp'[r].received
        BY <1>6, BestEffortQuiet
  <2> QED  BY <1>1, <1>3, <2>1 DEF Handed
<1> QED  BY <1>1, <1>4, <1>5, <1>6, MatchedStep

LEMMA BestEffortHeardStays ==
    ASSUME TInv, BestEffortHeard, [Next]_vars
    PROVE  BestEffortHeard'
<1> SUFFICES ASSUME NEW r \in BestEffort PROVE Handed(r)' \subseteq wp'[r].received
    BY DEF BestEffortHeard
<1>1. r \in Readers /\ Handed(r) \subseteq wp[r].received
      BY ReadersAssumption DEF BestEffortHeard
<1>2. CASE wp'[r] = wp[r]
      BY <1>1, <1>2 DEF Handed
<1>3. ASSUME NEW match \in BOOLEAN, wp'[r] = NewWriterProxy(r, match) PROVE Handed(r)' \subseteq wp'[r].received
  <2>1. wp'[r].calls = [s \in SN |-> 0]
        BY <1>3, NewWriterProxyFields
  <2> QED  BY <2>1 DEF Handed
<1>4. ASSUME NEW m \in net, m.reader = r, HandleData(m) PROVE Handed(r)' \subseteq wp'[r].received
      BY <1>4, BestEffortData
<1>5. ASSUME NEW m \in net, m.reader = r, HandleGap(m) \/ HandleHeartbeat(m)
      PROVE  Handed(r)' \subseteq wp'[r].received
  <2>1. wp'[r].calls = wp[r].calls /\ wp[r].received \subseteq wp'[r].received
        BY <1>5, BestEffortQuiet
  <2> QED  BY <1>1, <2>1 DEF Handed
<1> QED  BY <1>1, <1>2, <1>3, <1>4, <1>5, ReaderChange

LEMMA SpecTInv == Spec => []TInv
<1>1. Init => TInv
      BY InitTopic
<1>2. TInv /\ [Next]_vars => TInv'
      BY NextTopic
<1> QED  BY <1>1, <1>2, PTL DEF Spec

(* Within a match no reader, best-effort or reliable, is handed a change older *)
(* than one it was handed before, whatever order the network chooses           *)
(* (deliverChangeLocked).                                                      *)
THEOREM DeliveryNeverBackwards == Spec => NeverBackwards
<1>1. Init => BestEffortHeard
  <2> SUFFICES ASSUME Init, NEW r \in BestEffort PROVE Handed(r) \subseteq wp[r].received
      BY DEF BestEffortHeard
  <2>1. r \in Readers
        BY ReadersAssumption
  <2>2. wp[r] = NewWriterProxy(r, FALSE)
        BY <2>1 DEF Init
  <2>3. wp[r].calls = [s \in SN |-> 0]
        BY <2>2 DEF NewWriterProxy
  <2> QED  BY <2>3 DEF Handed
<1>2. TInv /\ BestEffortHeard /\ [Next]_vars => BestEffortHeard'
      BY BestEffortHeardStays
<1>3. TInv /\ TInv' /\ BestEffortHeard /\ [Next]_vars =>
        [\A r \in Readers : wp[r].matched /\ wp'[r].matched =>
            \A s, u \in SN : wp[r].calls[s] > 0 /\ wp'[r].calls[u] > wp[r].calls[u] => s < u]_vars
  <2> SUFFICES ASSUME TInv, TInv', BestEffortHeard, [Next]_vars,
                      NEW r \in Readers, wp[r].matched, wp'[r].matched
               PROVE  \A s, u \in SN : wp[r].calls[s] > 0 /\ wp'[r].calls[u] > wp[r].calls[u] => s < u
      OBVIOUS
  <2>1. CASE r \in BestEffort
        BY <2>1, BestEffortForward
  <2>2. CASE r \in Reliable
        BY <2>2, ReliableForward
  <2> QED  BY <2>1, <2>2 DEF Reliable
<1> QED  BY <1>1, <1>2, <1>3, SpecTInv, PTL DEF Spec, NeverBackwards

-----------------------------------------------------------------------------
(* The history. *)

(* undeliveredHistory counts by intervals and set sizes; in order delivery      *)
(* makes that the number of changes still to come: those missing, and those     *)
(* that wait behind one that is.                                                *)
LEMMA UndeliveredCounted ==
    ASSUME NEW w \in WriterProxy, InOrder(w, CumAck(w.received)), w.est
    PROVE  UndeliveredHistory(w) = Cardinality({s \in 1..w.floor : s \notin w.lost /\ w.calls[s] = 0})
<1> DEFINE cum == CumAck(w.received)
           A   == (cum + 1)..w.floor
           R   == w.received \cap A
           P   == {s \in w.pending : s <= w.floor}
           T   == {s \in 1..w.floor : s \notin w.lost /\ w.calls[s] = 0}
<1>1. /\ w.received \in SUBSET SN /\ w.pending \in SUBSET SN /\ w.floor \in 0..MaxSN
      /\ MaxSN \in Nat /\ SN = 1..MaxSN
      BY ConstantsType DEF WriterProxy
<1>2. cum \in 0..MaxSN /\ 1..cum \subseteq w.received
      BY <1>1, CumAckProperty
<1>3. /\ w.lost \subseteq w.received
      /\ \A s \in SN : /\ w.calls[s] = IF s <= cum /\ s \notin w.lost THEN 1 ELSE 0
                       /\ s \in w.pending <=> s > cum /\ s \in w.received \ w.lost
      BY DEF InOrder
<1>4. UndeliveredHistory(w) = IF w.floor <= cum THEN 0
                              ELSE (w.floor - cum) - Cardinality(R) + Cardinality(P)
      BY DEF UndeliveredHistory
<1> HIDE DEF cum
<1>5. CASE w.floor <= cum
  <2>1. \A s \in 1..w.floor : s \in SN /\ s <= cum
        BY <1>1, <1>2, <1>5
  <2>2. T = {}
        BY <1>3, <2>1
  <2> QED  BY <1>4, <1>5, <2>2, FS_EmptySet
<1>6. CASE ~(w.floor <= cum)
  <2>1. \A s \in SN : s \in Int /\ (s \in A <=> s > cum /\ s <= w.floor)
        BY <1>1, <1>2
  <2>2. A \subseteq SN /\ 1..w.floor \subseteq SN /\ \A s \in SN : s \in 1..w.floor <=> s <= w.floor
        BY <1>1, <1>2
  <2>3. IsFiniteSet(A) /\ Cardinality(A) = w.floor - cum
    <3>1. cum + 1 \in Int /\ w.floor \in Int
          BY <1>1, <1>2
    <3>2. IsFiniteSet(A) /\ Cardinality(A) = IF cum + 1 > w.floor THEN 0 ELSE w.floor - (cum + 1) + 1
          BY <3>1, FS_Interval
    <3> QED  BY <1>1, <1>2, <1>6, <3>1, <3>2
  <2>4. T = (A \ R) \cup P /\ (A \ R) \cap P = {}
    <3>1. ASSUME NEW s \in SN PROVE s \in T <=> s \in (A \ R) \cup P
      <4>1. s \in T <=> s <= w.floor /\ s \notin w.lost /\ s > cum
            BY <1>2, <1>3, <2>1, <2>2, <1>1
      <4>2. s \in P <=> s <= w.floor /\ s > cum /\ s \in w.received \ w.lost
            BY <1>3
      <4>3. s \in A \ R <=> s > cum /\ s <= w.floor /\ s \notin w.received
            BY <2>1
      <4> QED  BY <1>3, <4>1, <4>2, <4>3
    <3>2. T \subseteq SN /\ P \subseteq SN /\ A \ R \subseteq SN
          BY <1>1, <2>2
    <3>3. P \subseteq w.received
          BY <1>1, <1>3
    <3> QED  BY <2>1, <2>2, <3>1, <3>2, <3>3
  <2>5. A \cap R = R /\ P \subseteq A
        BY <1>1, <1>3, <2>1
  <2> HIDE DEF A, R, P, T
  <2>6. IsFiniteSet(P) /\ IsFiniteSet(R) /\ R \subseteq A
        BY <2>3, <2>5, FS_Subset
  <2>7. IsFiniteSet(A \ R) /\ Cardinality(A \ R) = Cardinality(A) - Cardinality(R)
    <3>1. IsFiniteSet(A \ R) /\ Cardinality(A \ R) = Cardinality(A) - Cardinality(A \cap R)
          BY <2>3, FS_Difference
    <3> QED  BY <2>5, <3>1
  <2>8. Cardinality(T) = Cardinality(A \ R) + Cardinality(P) - Cardinality({})
        BY <2>4, <2>6, <2>7, FS_Union
  <2>9. Cardinality(A) \in Nat /\ Cardinality(R) \in Nat /\ Cardinality(P) \in Nat /\ Cardinality({}) = 0
        BY <2>3, <2>6, FS_CardinalityType, FS_EmptySet
  <2>10. Cardinality(T) = (w.floor - cum) - Cardinality(R) + Cardinality(P)
        BY <1>1, <1>2, <2>3, <2>7, <2>8, <2>9
  <2> QED  BY <1>4, <1>6, <2>10 DEF T
<1> QED  BY <1>5, <1>6

(* What is reported as lost history when the writer goes is what was neither    *)
(* delivered nor given up (undeliveredHistory).                                 *)
THEOREM HistoryIsAccounted == Spec => []HistoryAccounted
<1>1. TInv => HistoryAccounted
  <2> SUFFICES ASSUME TInv, NEW r \in Reliable, wp[r].est
               PROVE  UndeliveredHistory(wp[r]) =
                          Cardinality({s \in 1..wp[r].floor : s \notin wp[r].lost /\ wp[r].calls[s] = 0})
      BY DEF HistoryAccounted
  <2>1. wp[r] \in WriterProxy /\ InOrder(wp[r], CumAck(wp[r].received))
        BY ProxyFacts, ConstantsType DEF TInv
  <2> QED  BY <2>1, UndeliveredCounted
<1> QED  BY <1>1, SpecTInv, PTL

(* When wait_for_historical_data returns.  The floor a reader's proxy keeps on *)
(* the writer's side is what had been written when it matched; every HEARTBEAT *)
(* there is for the reader announces at least that; so the first one the       *)
(* reader accepts sets a floor of its own that is no lower.                    *)
Replayed(r) == ReplayOnMatch /\ r \in WantsReplay

LastIsKnown == nextSn - 1 \in cache \/ trimmed = nextSn - 1

FloorsWritten ==
    \A r \in Readers : /\ rp[r].matched => rp[r].hbFirst >= 1
                       /\ rp[r].floor <= nextSn - 1
                       /\ ~Replayed(r) => rp[r].floor = 0

FloorsAnnounced ==
    \A m \in net : m.type = "HB" => rp[m.reader].hbFirst >= 1 /\ rp[m.reader].floor <= m.last

FloorAwaited(r) ==
    /\ wp[r].lastHb # NoCount => wp[r].est
    /\ wp[r].est /\ Replayed(r) => rp[r].hbFirst >= 1
    /\ wp[r].est => rp[r].floor <= wp[r].floor
FloorsAwaited == \A r \in Reliable : FloorAwaited(r)

HInv == LastIsKnown /\ FloorsWritten /\ FloorsAnnounced /\ FloorsAwaited

(* No reader is matched anew by the writer: until then a HEARTBEAT of an       *)
(* earlier match cannot be taken for one of this match.                        *)
FirstMatch   == \A r \in Readers : ~rp[r].matched /\ rp'[r].matched => rp[r] = UnmatchedReader
FirstMatches == [][FirstMatch]_vars

(* lastAvailableSnLocked is the last change written. *)
LEMMA LastSentIs ==
    ASSUME NEW c \in SUBSET SN, NEW t \in 0..MaxSN, NEW n \in 0..MaxSN,
           c \subseteq 1..n, t <= n, n \in c \/ t = n
    PROVE  LastSent(c, t) = n
<1> DEFINE k == MaxSn(c)
<1>1. k \in 0..MaxSN /\ (c # {} => k \in c) /\ \A s \in c : s <= k
      BY MaxSnProperty
<1>2. k = 0 \/ k \in c
      BY DEF MaxSn
<1>3. k \in Int /\ t \in Int /\ n \in Int /\ n >= 0 /\ k <= n
      BY <1>1, <1>2, ConstantsType
<1>4. LastSent(c, t) = IF k >= t THEN k ELSE t
      BY DEF LastSent, Larger
<1>5. n \in c => n <= k
      BY <1>1
<1> HIDE DEF k
<1> QED  BY <1>3, <1>4, <1>5

LEMMA HeartbeatLast ==
    ASSUME NEW r, NEW start, NEW c, NEW t, NEW last, NEW count, NEW final,
           NEW m \in HeartbeatMsgs(r, start, c, t, last, count, final), m.type = "HB"
    PROVE  m.reader = r /\ m.last = last
BY DEF HeartbeatMsgs, Hb, Gap

LEMMA HistoryFacts ==
    ASSUME TInv, HInv
    PROVE  /\ nextSn \in 1..(MaxSN + 1) /\ nextSn \in Int /\ nextSn - 1 \in 0..MaxSN
           /\ trimmed \in 0..MaxSN /\ trimmed <= nextSn - 1
           /\ cache \in SUBSET SN /\ cache \subseteq 1..(nextSn - 1)
           /\ LastSent(cache, trimmed) = nextSn - 1
           /\ rp \in [Readers -> ReaderProxy]
           /\ \A r \in Readers : /\ rp[r].floor \in 0..MaxSN /\ rp[r].floor \in Int
                                 /\ rp[r].floor <= nextSn - 1 /\ rp[r].hbFirst \in Int
           /\ SN = 1..MaxSN /\ MaxSN \in Nat /\ Reliable \subseteq Readers
<1>1. /\ nextSn \in 1..(MaxSN + 1) /\ trimmed \in 0..MaxSN /\ cache \in SUBSET SN
      /\ SN = 1..MaxSN /\ MaxSN \in Nat /\ Reliable \subseteq Readers /\ rp \in [Readers -> ReaderProxy]
      /\ \A r \in Readers : rp[r].floor \in 0..MaxSN
      BY WriterFacts DEF TInv
<1>2. trimmed <= nextSn - 1 /\ cache \subseteq 1..(nextSn - 1)
      BY DEF TInv, IInv, WriterAccounts
<1>3. nextSn \in Int /\ nextSn - 1 \in 0..MaxSN
      BY <1>1
<1>4. LastSent(cache, trimmed) = nextSn - 1
      BY <1>1, <1>2, <1>3, LastSentIs DEF HInv, LastIsKnown
<1>5. \A r \in Readers : rp[r].floor \in Int /\ rp[r].floor <= nextSn - 1 /\ rp[r].hbFirst \in Int
      BY <1>1 DEF HInv, FloorsWritten, ReaderProxy
<1> QED  BY <1>1, <1>2, <1>3, <1>4, <1>5

(* A step of the writer that matches nobody, and announces enough. *)
LEMMA HistoryWriterStep ==
    ASSUME TInv, HInv, UNCHANGED readerVars, LastIsKnown', nextSn' \in Int, nextSn <= nextSn',
           \A r \in Readers : /\ rp'[r].floor = rp[r].floor /\ rp'[r].hbFirst = rp[r].hbFirst
                              /\ rp'[r].matched => rp[r].matched,
           NEW msgs, net' \subseteq net \cup msgs,
           \A m \in msgs : m.type = "HB" => /\ m.reader \in Readers /\ rp[m.reader].matched
                                            /\ rp[m.reader].floor <= m.last
    PROVE  HInv'
<1> USE DEF HInv
<1>1. FloorsWritten'
      BY HistoryFacts DEF FloorsWritten, Replayed
<1>2. FloorsAnnounced'
  <2> SUFFICES ASSUME NEW m \in net', m.type = "HB"
               PROVE  rp'[m.reader].hbFirst >= 1 /\ rp'[m.reader].floor <= m.last
      BY DEF FloorsAnnounced
  <2>1. CASE m \in net
    <3>1. m.reader \in Readers
          BY <2>1, MessageFields DEF TInv, IInv, TypeOK
    <3> QED  BY <2>1, <3>1 DEF FloorsAnnounced
  <2>2. CASE m \in msgs
        BY <2>2 DEF FloorsWritten
  <2> QED  BY <2>1, <2>2
<1>3. FloorsAwaited'
  <2>1. Reliable \subseteq Readers /\ wp' = wp
        BY ConstantsType DEF readerVars
  <2> QED  BY <2>1 DEF FloorsAwaited, FloorAwaited, Replayed
<1> QED  BY <1>1, <1>2, <1>3

LEMMA LastStaysKnown ==
    ASSUME TInv', nextSn' \in Int, NEW C, cache' = C \ (1..trimmed'),
           nextSn' - 1 \in C \/ trimmed' = nextSn' - 1, nextSn' - 1 >= 0
    PROVE  LastIsKnown'
<1>1. trimmed' \in 0..MaxSN
      BY DEF TInv, IInv, TypeOK
<1>2. trimmed' <= flushed' /\ flushed' = nextSn' - 1
      BY DEF TInv, IInv, WriterAccounts
<1>3. \A n \in Int, t \in 0..MaxSN : t <= n - 1 /\ n - 1 \in 1..t => t = n - 1
      BY ConstantsType
<1>4. nextSn' - 1 \in 1..trimmed' => trimmed' = nextSn' - 1
      BY <1>1, <1>2, <1>3
<1> QED  BY <1>4 DEF LastIsKnown

LEMMA TrimmedGrows ==
    ASSUME TInv, NEW m \in net, HandleAckNack(m)
    PROVE  trimmed <= trimmed'
<1> DEFINE r == m.reader
           early == [rp EXCEPT ![r].acked = Larger(@, m.base - 1)]
<1>1. /\ trimmed' = TrimThrough(flushed, early) /\ r \in Readers /\ m \in Message /\ m.type = "ACKNACK"
      BY MessageFields DEF TInv, IInv, TypeOK, HandleAckNack
<1>2. /\ rp \in [Readers -> ReaderProxy] /\ rp[r] \in ReaderProxy /\ rp[r].acked \in 0..MaxSN
      /\ flushed \in 0..MaxSN /\ trimmed \in 0..MaxSN /\ MaxSN \in Nat
      BY <1>1, WriterFacts DEF TInv
<1>3. m.base \in 1..(MaxSN + 1)
      BY <1>1, MessageFields
<1>4. Larger(rp[r].acked, m.base - 1) \in 0..MaxSN
      BY <1>2, <1>3 DEF Larger
<1>5. early \in [Readers -> ReaderProxy]
  <2> DEFINE a == Larger(rp[r].acked, m.base - 1)
  <2>1. a \in 0..MaxSN
        BY <1>4
  <2>2. early = [rp EXCEPT ![r] = [rp[r] EXCEPT !.acked = a]]
        BY <1>1, <1>2
  <2> HIDE DEF a, early, r
  <2>3. [rp[r] EXCEPT !.acked = a] \in ReaderProxy
        BY <1>2, <2>1 DEF ReaderProxy
  <2> QED  BY <1>2, <2>2, <2>3
<1> HIDE DEF early
<1> QED  BY <1>1, <1>2, <1>5, TrimProperty

LEMMA WriteHistory ==
    ASSUME TInv, TInv', HInv, NEW ih \in Instances, Write(ih)
    PROVE  HInv'
<1> DEFINE c    == (cache \ KeepLastVictims(ih)) \union {nextSn}
           msgs == WriteMsgs(c)
<1>1. /\ nextSn <= MaxSN /\ nextSn' = nextSn + 1 /\ cache' = c \ (1..trimmed') /\ rp' = rp
      /\ net' = Sent(net, msgs) /\ UNCHANGED readerVars
      BY DEF Write
<1>2. nextSn \in Int /\ nextSn - 1 \in 0..MaxSN /\ trimmed \in 0..MaxSN /\ trimmed <= nextSn - 1
      BY HistoryFacts
<1>3. c \in SUBSET SN /\ c \subseteq 1..nextSn /\ nextSn \in c /\ nextSn \in 0..MaxSN
      BY <1>1, <1>2, HistoryFacts
<1> HIDE DEF c
<1>4. LastSent(c, trimmed) = nextSn
      BY <1>2, <1>3, LastSentIs, ConstantsType
<1>5. ASSUME NEW m \in msgs, m.type = "HB"
      PROVE  m.reader \in Readers /\ rp[m.reader].matched /\ rp[m.reader].floor <= m.last
  <2>1. PICK r \in Readers : /\ rp[r].matched
                             /\ m = Data(r, nextSn) \/ m \in HeartbeatMsgs(r, rp[r].startSn, c, trimmed,
                                       LastSent(c, trimmed), Count(hbCount[r], 1), FALSE)
        BY DEF WriteMsgs
  <2>2. m.reader = r /\ m.last = nextSn
    <3>1. Data(r, nextSn).type # "HB"
          BY DEF Data
    <3>2. m \in HeartbeatMsgs(r, rp[r].startSn, c, trimmed, LastSent(c, trimmed), Count(hbCount[r], 1), FALSE)
          BY <1>5, <2>1, <3>1
    <3>3. \E final : m \in HeartbeatMsgs(r, rp[r].startSn, c, trimmed, LastSent(c, trimmed), Count(hbCount[r], 1), final)
          BY <3>2
    <3> QED  BY <1>4, <1>5, <3>3, HeartbeatLast
  <2>3. rp[r].floor \in Int /\ rp[r].floor <= nextSn - 1
        BY HistoryFacts
  <2> QED  BY <1>2, <2>1, <2>2, <2>3
<1> HIDE DEF msgs
<1>6. LastIsKnown'
      BY <1>1, <1>2, <1>3, LastStaysKnown
<1>7. net' \subseteq net \cup msgs
      BY <1>1, SentProperty
<1> QED  BY <1>1, <1>2, <1>5, <1>6, <1>7, HistoryWriterStep

LEMMA SendHeartbeatHistory ==
    ASSUME TInv, HInv, NEW final, NEW liveliness, SendHeartbeat(final, liveliness)
    PROVE  HInv'
<1> DEFINE msgs == UNION {HeartbeatMsgs(r, rp[r].startSn, cache, trimmed,
                                        PeriodicLast(r), Count(hbCount[r], 1), final) :
                          r \in HeartbeatTargets(liveliness)}
<1>1. /\ nextSn' = nextSn /\ cache' = cache /\ trimmed' = trimmed /\ rp' = rp
      /\ net' = Sent(net, msgs) /\ UNCHANGED readerVars
      BY DEF SendHeartbeat
<1>2. ASSUME NEW m \in msgs, m.type = "HB"
      PROVE  m.reader \in Readers /\ rp[m.reader].matched /\ rp[m.reader].floor <= m.last
  <2>1. PICK r \in HeartbeatTargets(liveliness) :
               m \in HeartbeatMsgs(r, rp[r].startSn, cache, trimmed,
                                   PeriodicLast(r), Count(hbCount[r], 1), final)
        OBVIOUS
  <2>2. r \in Readers /\ rp[r].matched
        BY DEF HeartbeatTargets
  <2>3. m.reader = r /\ m.last = nextSn - 1
        BY <1>2, <2>1, HeartbeatLast, HistoryFacts DEF PeriodicLast
  <2> QED  BY <2>2, <2>3, HistoryFacts
<1> HIDE DEF msgs
<1>3. LastIsKnown'
      BY <1>1 DEF HInv, LastIsKnown
<1>4. net' \subseteq net \cup msgs
      BY <1>1, SentProperty
<1>5. nextSn' \in Int /\ nextSn <= nextSn'
      BY <1>1, HistoryFacts
<1> QED  BY <1>1, <1>2, <1>3, <1>4, <1>5, HistoryWriterStep

LEMMA RemoveMatchedReaderHistory ==
    ASSUME TInv, TInv', HInv, NEW r \in Readers, RemoveMatchedReader(r)
    PROVE  HInv'
<1>1. /\ nextSn' = nextSn /\ cache' = cache \ (1..trimmed') /\ rp' = [rp EXCEPT ![r].matched = FALSE]
      /\ trimmed' = TrimThrough(flushed, rp') /\ net' = net /\ UNCHANGED readerVars
      BY DEF RemoveMatchedReader
<1>2. rp \in [Readers -> ReaderProxy] /\ rp[r] \in ReaderProxy
      BY HistoryFacts
<1>3. \A q \in Readers : /\ rp'[q].floor = rp[q].floor /\ rp'[q].hbFirst = rp[q].hbFirst
                         /\ rp'[q].matched => rp[q].matched
      BY <1>1, <1>2 DEF ReaderProxy
<1>4. trimmed <= trimmed' /\ flushed \in 0..MaxSN
  <2>1. flushed \in 0..MaxSN /\ trimmed \in 0..MaxSN /\ rp' \in [Readers -> ReaderProxy]
        BY DEF TInv, IInv, TypeOK
  <2> QED  BY <1>1, <2>1, TrimProperty
<1>5. LastIsKnown'
  <2>1. nextSn' \in Int /\ nextSn' - 1 >= 0 /\ trimmed \in Int /\ trimmed' \in Int /\ trimmed' <= nextSn' - 1
        BY <1>1, HistoryFacts, ConstantsType DEF TInv, IInv, TypeOK, WriterAccounts
  <2>2. nextSn' - 1 \in cache \/ trimmed' = nextSn' - 1
        BY <1>1, <1>4, <2>1 DEF HInv, LastIsKnown
  <2> QED  BY <1>1, <2>1, <2>2, LastStaysKnown
<1> DEFINE none == {}
<1>6. net' \subseteq net \cup none
      BY <1>1
<1>7. nextSn' \in Int /\ nextSn <= nextSn'
      BY <1>1, HistoryFacts
<1>8. \A m \in none : m.type = "HB" => /\ m.reader \in Readers /\ rp[m.reader].matched
                                       /\ rp[m.reader].floor <= m.last
      OBVIOUS
<1> HIDE DEF none
<1> QED  BY <1>1, <1>3, <1>5, <1>6, <1>7, <1>8, HistoryWriterStep

LEMMA HandleAckNackHistory ==
    ASSUME TInv, TInv', HInv, NEW m \in net, HandleAckNack(m)
    PROVE  HInv'
<1> DEFINE r        == m.reader
           t        == TrimThrough(flushed, [rp EXCEPT ![r].acked = Larger(@, m.base - 1)])
           c        == cache \ (1..t)
           answered == Requested(rp[r], m) # {}
           p        == AckedProxy(rp[r], m, c, answered)
           hb1      == AsksForHeartbeat(p, m, c, t)
           asked    == IF hb1 THEN 1 ELSE 0
           repairs  == {IF s \in c THEN Data(r, s) ELSE Gap(r, s, s + 1) : s \in Requested(p, m)}
           beat(n)  == HeartbeatMsgs(r, p.startSn, c, t, AnswerLast(p, c, t), Count(hbCount[r], n), FALSE)
           msgs     == repairs \union (IF hb1 THEN beat(1) ELSE {})
                               \union (IF answered THEN beat(asked + 1) ELSE {})
<1>1. /\ rp' = [rp EXCEPT ![r] = p] /\ r \in Reliable /\ rp[r].matched /\ UNCHANGED readerVars
      /\ nextSn' = nextSn /\ trimmed' = t /\ cache' = c
      BY SMTT(30) DEF HandleAckNack
<1>2. net' = Sent(AfterReceiving(m), msgs)
      BY DEF HandleAckNack
<1>3. rp \in [Readers -> ReaderProxy] /\ r \in Readers /\ rp[r] \in ReaderProxy
      BY <1>1, HistoryFacts
<1>4. p.floor = rp[r].floor /\ p.hbFirst = rp[r].hbFirst
      BY <1>3 DEF AckedProxy, ReaderProxy
<1> HIDE DEF r, t
<1>5. /\ nextSn \in Int /\ nextSn - 1 \in 0..MaxSN /\ t \in 0..MaxSN /\ t <= nextSn - 1 /\ trimmed <= t
      /\ trimmed \in Int
  <2>1. nextSn \in Int /\ nextSn - 1 \in 0..MaxSN /\ trimmed \in 0..MaxSN /\ flushed = nextSn - 1
        BY HistoryFacts DEF TInv, IInv, WriterAccounts
  <2>2. t \in 0..MaxSN
        BY <1>1 DEF TInv, IInv, TypeOK
  <2>3. t <= flushed' /\ flushed' = nextSn' - 1
        BY <1>1 DEF TInv, IInv, WriterAccounts
  <2>4. trimmed <= t
        BY <1>1, <2>1, TrimmedGrows
  <2> QED  BY <1>1, <2>1, <2>2, <2>3, <2>4, ConstantsType
<1>6. nextSn - 1 \in c \/ t = nextSn - 1
  <2>1. nextSn - 1 \in cache \/ trimmed = nextSn - 1
        BY DEF HInv, LastIsKnown
  <2>2. nextSn - 1 \in 1..t => t = nextSn - 1
        BY <1>5, ConstantsType
  <2> QED  BY <1>5, <2>1, <2>2, ConstantsType
<1>7. LastSent(c, t) = nextSn - 1
  <2>1. c \in SUBSET SN /\ c \subseteq 1..(nextSn - 1)
        BY HistoryFacts
  <2> QED  BY <1>5, <1>6, <2>1, LastSentIs
<1>8. rp[r].floor \in Int /\ rp[r].floor <= nextSn - 1
      BY <1>3, HistoryFacts
<1>9. AnswerLast(p, c, t) \in Int /\ rp[r].floor <= AnswerLast(p, c, t)
  <2> HIDE DEF p, c
  <2>1. AnswerLast(p, c, t) = IF p.suppress /\ nextSn - 1 > 0
                              THEN (IF nextSn - 1 <= rp[r].floor THEN nextSn - 1 ELSE rp[r].floor)
                              ELSE nextSn - 1
        BY <1>4, <1>7 DEF AnswerLast, Smaller
  <2> QED  BY <1>5, <1>8, <2>1
<1>10. ASSUME NEW k \in msgs, k.type = "HB"
       PROVE  k.reader \in Readers /\ rp[k.reader].matched /\ rp[k.reader].floor <= k.last
  <2>1. k \notin repairs
    <3> HIDE DEF c, p
    <3> QED  BY <1>10 DEF Data, Gap
  <2>2. \A n : k \in beat(n) => k.reader = r /\ k.last = AnswerLast(p, c, t)
    <3> SUFFICES ASSUME NEW n, k \in beat(n) PROVE k.reader = r /\ k.last = AnswerLast(p, c, t)
        OBVIOUS
    <3>1. \E final : k \in HeartbeatMsgs(r, p.startSn, c, t, AnswerLast(p, c, t), Count(hbCount[r], n), final)
          OBVIOUS
    <3> HIDE DEF p, c, beat
    <3> QED  BY <1>10, <3>1, HeartbeatLast
  <2> HIDE DEF repairs, beat, hb1, answered
  <2>3. k.reader = r /\ k.last = AnswerLast(p, c, t)
        BY <2>1, <2>2
  <2> QED  BY <1>1, <1>3, <1>9, <2>3
<1> HIDE DEF msgs, p, c
<1>11. \A q \in Readers : /\ rp'[q].floor = rp[q].floor /\ rp'[q].hbFirst = rp[q].hbFirst
                          /\ rp'[q].matched => rp[q].matched
      BY <1>1, <1>3, <1>4
<1>12. net' \subseteq net \cup msgs
      BY <1>2, SentProperty, AfterReceivingProperty
<1>13. LastIsKnown'
      BY <1>1, <1>6 DEF LastIsKnown
<1> QED  BY <1>1, <1>5, <1>10, <1>11, <1>12, <1>13, HistoryWriterStep

(* A first match: its floor is what had been written, and the HEARTBEAT that    *)
(* goes with it announces that.                                                *)
LEMMA AddMatchedReaderHistory ==
    ASSUME TInv, HInv, NEW r \in Readers, AddMatchedReader(r), rp[r] = UnmatchedReader
    PROVE  HInv'
<1> DEFINE p    == MatchedProxy(r)
           last == LastSent(cache, trimmed)
           msgs == IF r \in Reliable
                   THEN HeartbeatMsgs(r, p.startSn, cache, trimmed, last, Count(hbCount[r], 1), FALSE)
                   ELSE IF ReplayOnMatch /\ r \in WantsReplay THEN {Data(r, s) : s \in cache} ELSE {}
<1>1. /\ rp' = [rp EXCEPT ![r] = p] /\ UNCHANGED readerVars
      /\ nextSn' = nextSn /\ trimmed' = trimmed /\ cache' = cache
      BY DEF AddMatchedReader
<1>2. net' = Sent(net, msgs)
      BY DEF AddMatchedReader
<1>3. last = nextSn - 1 /\ nextSn \in Int /\ nextSn - 1 >= 0 /\ rp \in [Readers -> ReaderProxy]
      BY HistoryFacts, ConstantsType
<1>4. p.floor \in {0, nextSn - 1} /\ (~Replayed(r) => p.floor = 0)
      BY <1>3 DEF MatchedProxy, Replayed
<1>5. p.hbFirst >= 1
  <2> DEFINE start == IF ReplayOnMatch /\ r \in WantsReplay THEN 1 ELSE nextSn
             f     == FirstAvailable(cache, trimmed)
  <2>1. p.hbFirst = HbFirstSn(f, last, start)
        BY DEF MatchedProxy
  <2>2. start \in Int /\ start >= 1
        BY <1>3
  <2>3. f \in Int
    <3>1. cache \in SUBSET SN /\ trimmed \in 0..MaxSN
          BY HistoryFacts
    <3>2. f \in 0..(MaxSN + 1)
          BY <3>1, FirstAvailableProperty
    <3> QED  BY <3>2, ConstantsType
  <2> HIDE DEF start, f, p, last
  <2>4. HbFirstSn(f, last, start) >= 1
        BY <2>2, <2>3 DEF HbFirstSn, Larger
  <2> QED  BY <2>1, <2>4
<1>6. ASSUME NEW m \in msgs, m.type = "HB" PROVE m.reader = r /\ m.last = nextSn - 1
  <2>1. CASE r \in Reliable
    <3>1. \E final : m \in HeartbeatMsgs(r, p.startSn, cache, trimmed, last, Count(hbCount[r], 1), final)
          BY <1>6, <2>1
    <3> HIDE DEF p, last
    <3> QED  BY <1>3, <1>6, <3>1, HeartbeatLast
  <2>2. CASE r \notin Reliable
        BY <1>6, <2>2 DEF Data
  <2> QED  BY <2>1, <2>2
<1> HIDE DEF msgs, p, last
<1>7. rp'[r] = p /\ \A q \in Readers : q # r => rp'[q] = rp[q]
      BY <1>1, <1>3
<1>8. rp[r].hbFirst = 0
      BY DEF UnmatchedReader
<1>9. FloorsWritten'
  <2> SUFFICES ASSUME NEW q \in Readers
               PROVE  /\ rp'[q].matched => rp'[q].hbFirst >= 1
                      /\ rp'[q].floor <= nextSn' - 1
                      /\ ~Replayed(q) => rp'[q].floor = 0
      BY DEF FloorsWritten, Replayed
  <2>1. CASE q = r
        BY <1>1, <1>3, <1>4, <1>5, <1>7, <2>1
  <2>2. CASE q # r
        BY <1>1, <1>7, <2>2 DEF HInv, FloorsWritten
  <2> QED  BY <2>1, <2>2
<1>10. FloorsAnnounced'
  <2> SUFFICES ASSUME NEW m \in net', m.type = "HB"
               PROVE  rp'[m.reader].hbFirst >= 1 /\ rp'[m.reader].floor <= m.last
      BY DEF FloorsAnnounced
  <2>1. CASE m \in net
    <3>1. m.reader \in Readers /\ rp[m.reader].hbFirst >= 1 /\ rp[m.reader].floor <= m.last
          BY <2>1, MessageFields DEF TInv, IInv, TypeOK, HInv, FloorsAnnounced
    <3>2. m.reader # r
          BY <1>8, <3>1
    <3> QED  BY <1>7, <3>1, <3>2
  <2>2. CASE m \in msgs
        BY <1>3, <1>4, <1>5, <1>6, <1>7, <2>2
  <2> QED  BY <1>2, <2>1, <2>2, SentProperty
<1>11. FloorsAwaited'
  <2> SUFFICES ASSUME NEW q \in Reliable PROVE FloorAwaited(q)'
      BY DEF FloorsAwaited
  <2>1. FloorAwaited(q) /\ wp' = wp /\ q \in Readers
        BY <1>1, ConstantsType DEF HInv, FloorsAwaited, readerVars
  <2>2. CASE q # r
        BY <1>7, <2>1, <2>2 DEF FloorAwaited, Replayed
  <2>3. CASE q = r
    <3>1. wp[r].est => ~Replayed(r)
          BY <1>8, <2>1, <2>3 DEF FloorAwaited
    <3>2. wp[r].floor \in 0..MaxSN
          BY DEF TInv, IInv, TypeOK, WriterProxy
    <3>3. wp[r].est => rp'[r].floor <= wp'[r].floor
          BY <1>4, <1>7, <2>1, <3>1, <3>2, ConstantsType
    <3> QED  BY <1>5, <1>7, <2>1, <2>3, <3>3 DEF FloorAwaited, Replayed
  <2> QED  BY <2>2, <2>3
<1>12. LastIsKnown'
      BY <1>1 DEF HInv, LastIsKnown
<1> QED  BY <1>9, <1>10, <1>11, <1>12 DEF HInv

(* Delivering and giving up leave alone what the reader knows of the history. *)
SameHistory(v, w) == v.floor = w.floor /\ v.est = w.est /\ v.lastHb = w.lastHb

LEMMA DeliverSameHistory ==
    ASSUME NEW w \in WriterProxy, NEW S
    PROVE  Deliver(w, S) \in WriterProxy /\ SameHistory(Deliver(w, S), w)
<1>1. Deliver(w, S) \in WriterProxy
      BY DeliverType
<1> DEFINE g == [s \in SN |-> IF s \in S THEN w.calls[s] + 1 ELSE w.calls[s]]
<1>2. Deliver(w, S) = [w EXCEPT !.calls = g]
      BY DEF Deliver
<1> HIDE DEF g
<1>3. SameHistory([w EXCEPT !.calls = g], w)
      BY DEF SameHistory, WriterProxy
<1> QED  BY <1>1, <1>2, <1>3

LEMMA DeliverPendingSameHistory ==
    ASSUME NEW w \in WriterProxy, NEW prev
    PROVE  SameHistory(DeliverPending(w, prev), w)
<1> DEFINE S == {s \in w.pending : prev < s /\ s <= CumAck(w.received)}
           d == Deliver(w, S)
           P == d.pending \ S
<1>1. d \in WriterProxy /\ SameHistory(d, w)
      BY DeliverSameHistory
<1>2. DeliverPending(w, prev) = [d EXCEPT !.pending = P]
      BY DEF DeliverPending
<1> HIDE DEF P, d
<1>3. SameHistory([d EXCEPT !.pending = P], d)
      BY <1>1 DEF SameHistory, WriterProxy
<1> QED  BY <1>1, <1>2, <1>3 DEF SameHistory

LEMMA GiveUpSameHistory ==
    ASSUME NEW w \in WriterProxy, NEW S \in SUBSET SN
    PROVE  GiveUp(w, S) \in WriterProxy /\ SameHistory(GiveUp(w, S), w)
<1>1. GiveUp(w, S) \in WriterProxy
      BY GiveUpType
<1>2. SameHistory(GiveUp(w, S), w)
      BY DEF GiveUp, SameHistory, WriterProxy
<1> QED  BY <1>1, <1>2

LEMMA DeliverChangeSameHistory ==
    ASSUME NEW r, NEW w \in WriterProxy, NEW sn \in SN
    PROVE  SameHistory(DeliverChange(r, w, sn), w)
<1> DEFINE got == [w EXCEPT !.received = @ \union {sn}]
           one == Deliver(got, {sn})
           buf == [got EXCEPT !.pending = @ \union {sn}]
<1>1. w.received \union {sn} \in SUBSET SN
      BY DEF WriterProxy
<1>2. got \in WriterProxy /\ SameHistory(got, w)
      BY <1>1 DEF WriterProxy, SameHistory
<1>3. DeliverChange(r, w, sn) \in {w, one, DeliverPending(one, sn), buf}
      BY DEF DeliverChange
<1> HIDE DEF got
<1>4. one \in WriterProxy /\ SameHistory(one, got)
      BY <1>2, DeliverSameHistory
<1>5. SameHistory(buf, got)
      BY <1>2 DEF WriterProxy, SameHistory
<1> HIDE DEF one, buf
<1>6. SameHistory(DeliverPending(one, sn), one)
      BY <1>4, DeliverPendingSameHistory
<1> QED  BY <1>2, <1>3, <1>4, <1>5, <1>6 DEF SameHistory

LEMMA HandlersSameHistory ==
    ASSUME TInv, NEW m \in net, HandleData(m) \/ HandleGap(m)
    PROVE  SameHistory(wp'[m.reader], wp[m.reader])
<1> DEFINE r == m.reader
<1>1. m \in Message /\ r \in Readers
      BY MessageFields DEF TInv, IInv, TypeOK
<1>2. wp[r] \in WriterProxy
      BY <1>1 DEF TInv, IInv, TypeOK
<1>3. CASE HandleData(m)
  <2> DEFINE v == DeliverChange(r, wp[r], m.sn)
  <2>1. SetProxy(r, v) /\ m.sn \in SN
        BY <1>1, <1>3, MessageFields DEF HandleData
  <2>2. SameHistory(v, wp[r])
        BY <1>2, <2>1, DeliverChangeSameHistory
  <2> HIDE DEF v
  <2> QED  BY <1>1, <2>1, <2>2, OthersUnchanged
<1>4. CASE HandleGap(m)
  <2> DEFINE w == GiveUp(wp[r], GapRange(m))
             v == IF r \in Reliable THEN DeliverPending(w, CumAck(wp[r].received)) ELSE w
  <2>1. SetProxy(r, v) /\ m.type = "GAP"
        BY <1>4 DEF HandleGap
  <2>2. GapRange(m) \in SUBSET SN
        BY <1>1, <2>1, MessageFields, ConstantsType DEF GapRange
  <2>3. w \in WriterProxy /\ SameHistory(w, wp[r])
        BY <1>2, <2>2, GiveUpSameHistory
  <2> HIDE DEF w
  <2>4. SameHistory(v, wp[r])
        BY <2>3, DeliverPendingSameHistory DEF SameHistory
  <2> HIDE DEF v
  <2> QED  BY <1>1, <2>1, <2>4, OthersUnchanged
<1> QED  BY <1>3, <1>4

LEMMA HeartbeatHistory ==
    ASSUME TInv, NEW m \in net, HandleHeartbeat(m)
    PROVE  wp'[m.reader].est /\ wp'[m.reader].floor = HistoryFloor(wp[m.reader], m)
<1> DEFINE r    == m.reader
           cum  == CumAck(wp[r].received)
           f    == HistoryFloor(wp[r], m)
           head == [wp[r] EXCEPT !.lastHb = m.count, !.ready = TRUE, !.est = TRUE, !.floor = f]
           S    == (cum + 1)..(m.first - 1)
<1>1. m \in Message /\ r \in Readers /\ m.type = "HB"
      BY MessageFields DEF TInv, IInv, TypeOK, HandleHeartbeat
<1>2. wp[r] \in WriterProxy /\ cum \in 0..MaxSN
      BY <1>1, ProxyFacts DEF TInv
<1>3. m.first \in 1..(MaxSN + 1) /\ m.last \in 0..MaxSN /\ m.count \in Nat
      BY <1>1, MessageFields
<1>4. SetProxy(r, HeardProxy(r, m))
      BY DEF HandleHeartbeat
<1>5. wp'[r] = HeardProxy(r, m)
      BY <1>1, <1>4, OthersUnchanged
<1>6. HeardProxy(r, m) \in {head, DeliverPending(GiveUp(head, S), cum)}
      BY DEF HeardProxy
<1> HIDE DEF cum
<1>7. S \in SUBSET SN
      BY <1>2, <1>3, ConstantsType
<1>8. f \in 0..MaxSN
      BY <1>2, <1>3 DEF HistoryFloor, WriterProxy
<1> HIDE DEF S, f
<1>9. head \in WriterProxy /\ head.est = TRUE /\ head.floor = f
      BY <1>2, <1>3, <1>8 DEF WriterProxy
<1> HIDE DEF head
<1>10. GiveUp(head, S) \in WriterProxy /\ SameHistory(GiveUp(head, S), head)
      BY <1>7, <1>9, GiveUpSameHistory
<1>11. SameHistory(DeliverPending(GiveUp(head, S), cum), GiveUp(head, S))
      BY <1>10, DeliverPendingSameHistory
<1> QED  BY <1>5, <1>6, <1>9, <1>10, <1>11 DEF SameHistory, f

(* A reader that is to be replayed the history starts out waiting for it. *)
LEMMA NewProxyWaits ==
    ASSUME NEW r, NEW match
    PROVE  LET w == NewWriterProxy(r, match)
           IN  w.floor = 0 /\ w.lastHb = NoCount /\ (w.est => ~Replayed(r))
<1>1. NewWriterProxy(r, match).floor = 0 /\ NewWriterProxy(r, match).lastHb = NoCount
      BY DEF NewWriterProxy
<1>2. NewWriterProxy(r, match).est = ~(ReplayOnMatch /\ r \in WantsReplay)
      BY DEF NewWriterProxy
<1>3. NewWriterProxy(r, match).est => ~Replayed(r)
      BY <1>2, Zenon DEF Replayed
<1> QED  BY <1>1, <1>3, Zenon

(* A step of a reader: the first HEARTBEAT it accepts is what sets its floor. *)
LEMMA ReaderHistory ==
    ASSUME TInv, HInv, [Next]_vars, UNCHANGED writerVars,
           \A m \in net' : m.type = "HB" => m \in net
    PROVE  HInv'
<1>1. nextSn' = nextSn /\ cache' = cache /\ trimmed' = trimmed /\ rp' = rp
      BY DEF writerVars
<1>2. LastIsKnown' /\ FloorsWritten' /\ FloorsAnnounced'
      BY <1>1 DEF HInv, LastIsKnown, FloorsWritten, FloorsAnnounced, Replayed
<1>3. FloorsAwaited'
  <2> SUFFICES ASSUME NEW r \in Reliable PROVE FloorAwaited(r)'
      BY DEF FloorsAwaited
  <2>1. FloorAwaited(r) /\ r \in Readers
        BY ConstantsType DEF HInv, FloorsAwaited
  <2>2. CASE SameHistory(wp'[r], wp[r])
        BY <1>1, <2>1, <2>2 DEF FloorAwaited, SameHistory, Replayed
  <2>3. ASSUME NEW match \in BOOLEAN, wp'[r] = NewWriterProxy(r, match) PROVE FloorAwaited(r)'
    <3>1. wp'[r].floor = 0 /\ wp'[r].lastHb = NoCount /\ (wp'[r].est => ~Replayed(r))
          BY <2>3, NewProxyWaits
    <3>2. ~Replayed(r) => rp[r].floor = 0
          BY <2>1 DEF HInv, FloorsWritten
    <3> QED  BY <1>1, <3>1, <3>2 DEF FloorAwaited, Replayed
  <2>4. ASSUME NEW m \in net, m.reader = r, HandleHeartbeat(m) PROVE FloorAwaited(r)'
    <3>1. wp'[r].est /\ wp'[r].floor = HistoryFloor(wp[r], m)
          BY <2>4, HeartbeatHistory
    <3>2. rp[r].hbFirst >= 1 /\ rp[r].floor <= m.last
          BY <2>4 DEF HInv, FloorsAnnounced, HandleHeartbeat
    <3>3. rp[r].floor <= wp'[r].floor
      <4>1. wp[r].est \/ wp[r].lastHb = NoCount
            BY <2>1 DEF FloorAwaited
      <4> QED  BY <2>1, <3>1, <3>2, <4>1 DEF FloorAwaited, HistoryFloor
    <3> QED  BY <1>1, <3>1, <3>2, <3>3 DEF FloorAwaited, Replayed
  <2>5. CASE wp'[r] = wp[r]
        BY <2>2, <2>5 DEF SameHistory
  <2> QED  BY <2>1, <2>2, <2>3, <2>4, <2>5, ReaderChange, HandlersSameHistory
<1> QED  BY <1>2, <1>3 DEF HInv

LEMMA ReaderMessages ==
    ASSUME NEW r, NEW w, NEW last, NEW count, NEW final,
           NEW m \in AckNackMsgs(r, w, last, count, final)
    PROVE  m.type # "HB"
BY DEF AckNackMsgs, AckNack

LEMMA InitHistory == Init => HInv
<1> SUFFICES ASSUME Init PROVE HInv
    OBVIOUS
<1>1. /\ cache = {} /\ nextSn = 1 /\ trimmed = 0 /\ net = {}
      /\ rp = [r \in Readers |-> UnmatchedReader] /\ wp = [r \in Readers |-> NewWriterProxy(r, FALSE)]
      BY DEF Init
<1>2. UnmatchedReader.matched = FALSE /\ UnmatchedReader.floor = 0
      BY DEF UnmatchedReader
<1>3. LastIsKnown /\ FloorsAnnounced
      BY <1>1 DEF LastIsKnown, FloorsAnnounced
<1>4. FloorsWritten
      BY <1>1, <1>2 DEF FloorsWritten
<1>5. ASSUME NEW r \in Reliable PROVE FloorAwaited(r)
  <2>1. r \in Readers /\ rp[r].floor = 0
        BY <1>1, <1>2, ConstantsType
  <2>2. \E match : wp[r] = NewWriterProxy(r, match)
        BY <1>1, <2>1
  <2>3. wp[r].floor = 0 /\ wp[r].lastHb = NoCount /\ (wp[r].est => ~Replayed(r))
        BY <2>2, NewProxyWaits
  <2>4. rp[r].floor <= wp[r].floor
        BY <2>1, <2>3
  <2> QED  BY <2>3, <2>4, Zenon DEF FloorAwaited
<1> QED  BY <1>3, <1>4, <1>5 DEF HInv, FloorsAwaited

LEMMA NextHistory == TInv /\ TInv' /\ HInv /\ [Next]_vars /\ [FirstMatch]_vars => HInv'
<1> SUFFICES ASSUME TInv, TInv', HInv, [Next]_vars, [FirstMatch]_vars PROVE HInv'
    OBVIOUS
<1>1. ASSUME NEW ih \in Instances, Write(ih) PROVE HInv'
      BY <1>1, WriteHistory
<1>2. CASE SendHeartbeat(FALSE, FALSE)
  <2>1. \E final, liveliness : SendHeartbeat(final, liveliness)
        BY <1>2
  <2> QED  BY <2>1, SendHeartbeatHistory
<1>3. CASE SendHeartbeat(TRUE, TRUE)
  <2>1. \E final, liveliness : SendHeartbeat(final, liveliness)
        BY <1>3
  <2> QED  BY <2>1, SendHeartbeatHistory
<1>4. ASSUME NEW r \in Readers, AddMatchedReader(r) PROVE HInv'
  <2>1. ~rp[r].matched /\ rp' = [rp EXCEPT ![r] = MatchedProxy(r)]
        BY <1>4 DEF AddMatchedReader
  <2>2. rp'[r].matched
    <3>1. MatchedProxy(r).matched
          BY DEF MatchedProxy
    <3>2. rp \in [Readers -> ReaderProxy]
          BY HistoryFacts
    <3> QED  BY <2>1, <3>1, <3>2
  <2>3. rp' # rp
        BY <2>1, <2>2
  <2>4. FirstMatch
        BY <2>3 DEF vars, writerVars
  <2>5. rp[r] = UnmatchedReader
        BY <2>1, <2>2, <2>4 DEF FirstMatch
  <2> QED  BY <1>4, <2>5, AddMatchedReaderHistory
<1>5. ASSUME NEW r \in Readers, RemoveMatchedReader(r) PROVE HInv'
      BY <1>5, RemoveMatchedReaderHistory
<1>6. ASSUME NEW r \in Readers, AddMatchedWriter(r) PROVE HInv'
  <2> DEFINE w    == NewWriterProxy(r, TRUE)
             msgs == IF r \in Reliable /\ r \notin Local
                     THEN AckNackMsgs(r, w, 0, Count(ackCount[r], 1), FALSE) ELSE {}
  <2>1. UNCHANGED writerVars /\ net' = Sent(net, msgs)
        BY <1>6 DEF AddMatchedWriter
  <2>2. \A m \in msgs : m.type # "HB"
    <3> HIDE DEF w
    <3>1. \A m \in msgs : \E last, final : m \in AckNackMsgs(r, w, last, Count(ackCount[r], 1), final)
          OBVIOUS
    <3> QED  BY <3>1, ReaderMessages
  <2> HIDE DEF msgs
  <2> QED  BY <2>1, <2>2, SentProperty, ReaderHistory
<1>7. ASSUME NEW r \in Readers, RemoveMatchedWriter(r) PROVE HInv'
      BY <1>7, ReaderHistory DEF RemoveMatchedWriter
<1>8. ASSUME NEW m \in net, HandleAckNack(m) PROVE HInv'
      BY <1>8, HandleAckNackHistory
<1>9. ASSUME NEW m \in net, HandleData(m) \/ HandleGap(m) PROVE HInv'
  <2>1. UNCHANGED writerVars /\ net' = AfterReceiving(m)
        BY <1>9 DEF HandleData, HandleGap
  <2> QED  BY <2>1, AfterReceivingProperty, ReaderHistory
<1>10. ASSUME NEW m \in net, HandleHeartbeat(m) PROVE HInv'
  <2> DEFINE r    == m.reader
             w    == HeardProxy(r, m)
             fin  == ~(CumAck(w.received) < m.last)
             msgs == IF r \in Reliable /\ Replies(w, m)
                     THEN AckNackMsgs(r, w, m.last, Count(ackCount[r], 1), fin) ELSE {}
  <2>1. UNCHANGED writerVars /\ net' = Sent(AfterReceiving(m), msgs)
        BY <1>10 DEF HandleHeartbeat
  <2>2. \A a \in msgs : a.type # "HB"
    <3> HIDE DEF r, w, fin
    <3> QED  BY ReaderMessages
  <2> HIDE DEF msgs
  <2> QED  BY <2>1, <2>2, SentProperty, AfterReceivingProperty, ReaderHistory
<1>11. CASE UNCHANGED vars
  <2>1. UNCHANGED writerVars /\ net' = net
        BY <1>11 DEF vars
  <2> QED  BY <2>1, ReaderHistory
<1> QED  BY <1>1, <1>2, <1>3, <1>4, <1>5, <1>6, <1>7, <1>8, <1>9, <1>10, <1>11 DEF Next

(* As long as the writer matches no reader anew, a wait for historical data     *)
(* that returns has delivered, or given up as gone, all that had been written   *)
(* when the writer matched the reader, whatever HEARTBEATs come late, out of    *)
(* order or twice and however often the reader itself matches anew              *)
(* (handleHeartbeat, historicalDelivered).                                      *)
THEOREM HistoryWaitIsSound == Spec /\ FirstMatches => []HistoryWaitSound
<1>1. TInv /\ HInv => HistoryWaitSound
  <2> SUFFICES ASSUME TInv, HInv, NEW r \in Reliable, HistoricalDelivered(wp[r])
               PROVE  1..rp[r].floor \subseteq passed[r]
      BY DEF HistoryWaitSound
  <2> DEFINE cum == CumAck(wp[r].received)
  <2>1. r \in Readers /\ rp[r].floor \in 0..MaxSN /\ rp[r].floor <= wp[r].floor /\ wp[r].floor <= cum
        BY HistoryFacts DEF HInv, FloorsAwaited, FloorAwaited, HistoricalDelivered
  <2>2. InOrder(wp[r], cum) /\ cum \in 0..MaxSN
        BY <2>1, ProxyFacts DEF TInv
  <2>3. wp[r].floor \in 0..MaxSN
        BY <2>1 DEF TInv, IInv, TypeOK, WriterProxy
  <2>4. {s \in SN : wp[r].calls[s] > 0} \union wp[r].lost \subseteq passed[r]
        BY DEF TInv, IInv, PassedCovers
  <2> HIDE DEF cum
  <2> SUFFICES ASSUME NEW s \in 1..rp[r].floor PROVE s \in passed[r]
      OBVIOUS
  <2>5. s \in SN /\ s <= cum
        BY <2>1, <2>2, <2>3, ConstantsType
  <2> QED  BY <2>2, <2>4, <2>5 DEF InOrder
<1> QED  BY <1>1, InitHistory, NextHistory, SpecTInv, PTL DEF Spec, FirstMatches
=============================================================================
