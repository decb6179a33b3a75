------------------------------- MODULE GroupSets -------------------------------
(***************************************************************************)
(* GROUP coherent sets: how a publisher cuts them (publisher.zig            *)
(* vtEndCoherent), what each reader tracks of each writer (reader.zig       *)
(* trackCoherentLocked) and how begin_access puts a set together again      *)
(* from its readers' parts (subscriber.zig beginGroupCoherentAccessLocked). *)
(*                                                                          *)
(* One publisher and one subscriber.  The readers are numbered in the order *)
(* the subscriber created them; each has its topic's writers.  A change     *)
(* goes missing on its way if its kind is in Losable: a reliable reader is  *)
(* told of samples its writer has dropped, and gets every end marker (one   *)
(* not acknowledged is kept, up to 1024 of them: writer_sm.zig              *)
(* retireEndMarkersLocked); a BEST_EFFORT reader may miss anything.         *)
(*                                                                          *)
(* begin_access looks at one reader at a time under that reader's lock:     *)
(* deliveries, matches and unmatches fall between two readers' turns.       *)
(*                                                                          *)
(* Left out: other publishers (each has its own sets, ids and verdicts),    *)
(* writers that send no group set id (other implementations'), and failed   *)
(* allocations.  Without those a writer is tracked, and its publisher known,*)
(* from its match on: the verdict never waits for publisher_known.         *)
(***************************************************************************)
EXTENDS Naturals, Sequences, FiniteSets
LOCAL INSTANCE FiniteSetsExt

CONSTANTS ReaderCount,  \* readers of the subscriber
          WriterCount,  \* writers of the publisher
          Losable,      \* kinds of change that may never arrive
          MaxPart,      \* a bound on the samples of one writer in one set
          MaxSets,      \* a bound on the sets
          Loose         \* writers that also write one sample outside any set

ASSUME GroupAssumption ==
  /\ {ReaderCount, WriterCount, MaxPart, MaxSets} \subseteq Nat
  /\ ReaderCount > 0
  /\ Loose \subseteq 1..WriterCount
  /\ Losable \subseteq {"sample", "outside", "end"}

DataReaders  == 1..ReaderCount
GroupWriters == 1..WriterCount
TopicReader(w) == 1 + ((w - 1) % ReaderCount)

VARIABLES gsn,      \* group_seq_num_counter
          lastSn,   \* writer -> the last sequence number it has used
          outside,  \* writers that wrote outside a set
          line,     \* writer -> changes on their way to its reader
          cw,       \* writer -> its reader's CoherentWriter; tracked if matched
          wip,      \* writer -> its reader's CoherentWipEntry
          parts,    \* reader -> coherent_committed
          setsDone, \* group_sets_done of the publisher, 0 for no entry
          access,   \* the begin_access under way
          sets,     \* history: the sets ended, each writer's samples in them
          due,      \* history: writer -> sets sent in the present match
          shown     \* history: sets exposed

sendSide == <<gsn, lastSn, outside, sets>>
gvars == <<sendSide, line, cw, wip, parts, setsDone, access, due, shown>>

AtLeast(a, b) == IF a < b THEN b ELSE a

-------------------------------------------------------------------------------
(* The publisher *)

(* A change: a sample of a set (cs its first sample's sequence number, g   *)
(* the group set's id), a sample outside any set, or an end marker.        *)
Change(n, kind, cs, g) == [sn |-> n, kind |-> kind, cs |-> cs, g |-> g]

(* end_coherent_changes, with the set's samples: held back until now, they *)
(* are given the set's id, the group sequence number of its first sample;  *)
(* every writer, one without samples too, ends its part with a marker, and *)
(* the markers take one more number.                                       *)
EndCoherent(n) ==
  LET id    == gsn + 1
      total == MapThenSumSet(LAMBDA w : n[w], GroupWriters)
      sent(w) == Append([i \in 1..n[w] |-> Change(lastSn[w] + i, "sample", lastSn[w] + 1, id)],
                        Change(lastSn[w] + n[w] + 1, "end", 0, id))
  IN
  /\ Len(sets) < MaxSets
  /\ total > 0
  /\ gsn' = gsn + total + 1
  /\ lastSn' = [w \in GroupWriters |-> lastSn[w] + n[w] + 1]
  /\ line' = [w \in GroupWriters |-> IF cw[w].tracked THEN line[w] \o sent(w) ELSE line[w]]
  /\ sets' = Append(sets, [id |-> id, size |-> n])
  /\ due' = [w \in GroupWriters |-> IF cw[w].tracked THEN due[w] \cup {id} ELSE due[w]]
  /\ UNCHANGED <<outside, cw, wip, parts, setsDone, access, shown>>

WriteOutside(w) ==
  /\ w \in Loose \ outside
  /\ outside' = outside \cup {w}
  /\ lastSn' = [lastSn EXCEPT ![w] = @ + 1]
  /\ line' = [line EXCEPT ![w] = IF cw[w].tracked THEN Append(@, Change(lastSn[w] + 1, "outside", 0, 0)) ELSE @]
  /\ UNCHANGED <<gsn, cw, wip, parts, setsDone, access, sets, due, shown>>

Lose(w) ==
  /\ line[w] # <<>> /\ Head(line[w]).kind \in Losable
  /\ line' = [line EXCEPT ![w] = Tail(@)]
  /\ UNCHANGED <<sendSide, cw, wip, parts, setsDone, access, due, shown>>

-------------------------------------------------------------------------------
(* The readers *)

(* CoherentWriter.  `next` and `done` are 0 for null, `from` is             *)
(* complete_from; last_progress_ns is left out: see Judge.                 *)
NewWriter == [tracked |-> TRUE, next |-> 0, done |-> 0, from |-> 0]
Untracked == [NewWriter EXCEPT !.tracked = FALSE]

(* CoherentWipEntry, n its samples. *)
NoWip == [open |-> FALSE, cs |-> 0, g |-> 0, intact |-> FALSE, n |-> 0]

(* onWriterMatchingCb *)
WriterMatching(w) ==
  /\ ~cw[w].tracked
  /\ cw' = [cw EXCEPT ![w] = NewWriter]
  /\ UNCHANGED <<sendSide, line, wip, parts, setsDone, access, due, shown>>

(* onWriterUnmatchingCb: what is queued stays. *)
WriterUnmatching(w) ==
  /\ cw[w].tracked
  /\ line' = [line EXCEPT ![w] = <<>>]
  /\ cw' = [cw EXCEPT ![w] = Untracked]
  /\ wip' = [wip EXCEPT ![w] = NoWip]
  /\ due' = [due EXCEPT ![w] = {}]
  /\ UNCHANGED <<sendSide, parts, setsDone, access, shown>>

(* endCoherentWipLocked, if there is a set in progress: its part is queued, *)
(* without its samples if one is missing.                                  *)
Ended(w, gap) ==
  LET whole == wip[w].intact /\ ~gap
      ended == [writer |-> w, g |-> wip[w].g, complete |-> whole,
                n |-> IF whole THEN wip[w].n ELSE 0]
  IN  parts' = [parts EXCEPT ![TopicReader(w)] = IF wip[w].open THEN Append(@, ended) ELSE @]
AfterEnd(w, c) ==
  IF wip[w].open THEN [c EXCEPT !.done = AtLeast(@, wip[w].g)] ELSE c

(* trackCoherentLocked *)

(* A sequence number is missing right before this one, or, for the first   *)
(* change received, this is not the writer's first.                        *)
GapBefore(w, m) == IF cw[w].next = 0 THEN m.sn # 1 ELSE m.sn # cw[w].next
Tracked(w, m) == [cw[w] EXCEPT !.next = m.sn + 1]

(* One more sample of the set in progress. *)
TrackInSet(w, m) ==
  /\ m.kind = "sample" /\ wip[w].open /\ wip[w].cs = m.cs
  /\ wip' = [wip EXCEPT ![w] = [@ EXCEPT !.intact = @ /\ ~GapBefore(w, m), !.n = @ + 1]]
  /\ cw' = [cw EXCEPT ![w] = Tracked(w, m)]
  /\ UNCHANGED parts

(* A sample of a new set ends the previous one. *)
TrackNewSet(w, m) ==
  LET c == AfterEnd(w, Tracked(w, m)) IN
  /\ m.kind = "sample" /\ ~(wip[w].open /\ wip[w].cs = m.cs)
  /\ Ended(w, GapBefore(w, m))
  /\ cw' = [cw EXCEPT ![w] =
       [c EXCEPT !.from = IF ~wip[w].open /\ GapBefore(w, m) THEN AtLeast(@, m.g) ELSE @,
                 !.done = AtLeast(@, m.g - 1)]]
  /\ wip' = [wip EXCEPT ![w] = [open |-> TRUE, cs |-> m.cs, g |-> m.g, intact |-> m.sn = m.cs, n |-> 1]]

(* A sample outside any set ends the set in progress. *)
TrackOutside(w, m) ==
  /\ m.kind = "outside"
  /\ Ended(w, GapBefore(w, m))
  /\ cw' = [cw EXCEPT ![w] = AfterEnd(w, Tracked(w, m))]
  /\ wip' = [wip EXCEPT ![w] = NoWip]

(* Fault: a marker with sequence numbers missing before it only says that   *)
(* the writer is done.                                                     *)
TrackMarkerTrusting(w, m) ==
  LET c == AfterEnd(w, Tracked(w, m)) IN
  /\ m.kind = "end"
  /\ Ended(w, GapBefore(w, m))
  /\ cw' = [cw EXCEPT ![w] = [c EXCEPT !.done = AtLeast(@, m.g)]]
  /\ wip' = [wip EXCEPT ![w] = NoWip]

(* A marker: the writer is done with the set, whether or not it has a part. *)
TrackMarker(w, m) ==
  LET c == AfterEnd(w, Tracked(w, m)) IN
  /\ m.kind = "end"
  /\ Ended(w, GapBefore(w, m))
  /\ cw' = [cw EXCEPT ![w] =
       [c EXCEPT !.from = IF ~wip[w].open /\ GapBefore(w, m) THEN AtLeast(@, m.g + 1) ELSE @,
                 !.done = AtLeast(@, m.g)]]
  /\ wip' = [wip EXCEPT ![w] = NoWip]

Deliver(w) ==
  /\ line[w] # <<>>
  /\ line' = [line EXCEPT ![w] = Tail(@)]
  /\ LET m == Head(line[w]) IN
       TrackInSet(w, m) \/ TrackNewSet(w, m) \/ TrackOutside(w, m) \/ TrackMarker(w, m)
  /\ UNCHANGED <<sendSide, setsDone, access, due, shown>>

-------------------------------------------------------------------------------
(* begin_access *)

(* `r` is the reader whose turn it is, `id` the set at hand (0 for none),   *)
(* `excused` the writers its verdict does not wait for, `exposed` the       *)
(* samples of each writer that came out, `heard` whether a reader still     *)
(* hears from the publisher.                                               *)
NoAccess == [at |-> "off", r |-> 1, id |-> 0, verdict |-> "none", excused |-> {},
             exposed |-> [w \in GroupWriters |-> 0], heard |-> FALSE]

LastReader == access.r = ReaderCount
TurnOf(r) == {w \in GroupWriters : TopicReader(w) = r}
Queued(r) == {parts[r][i] : i \in DOMAIN parts[r]}
ThenOldest == [NoAccess EXCEPT !.at = "oldest"]
ThenPrune  == [NoAccess EXCEPT !.at = "prune"]

BeginAccess ==
  /\ access.at = "off"
  /\ access' = ThenOldest
  /\ UNCHANGED <<sendSide, line, cw, wip, parts, setsDone, due, shown>>

(* oldestGroupSetLocked, one reader; then groupSetVerdictLocked's first     *)
(* test.                                                                   *)
ScanOldest ==
  LET ids   == {p.g : p \in Queued(access.r)} \cup ({access.id} \ {0})
      id    == IF ids = {} THEN 0 ELSE Min(ids)
  IN
  /\ access.at = "oldest"
  /\ access' =
       IF ~LastReader THEN [access EXCEPT !.id = id, !.r = @ + 1]
       ELSE IF id = 0 THEN ThenPrune
       ELSE IF id <= setsDone THEN [access EXCEPT !.at = "take", !.id = id, !.r = 1, !.verdict = "discard"]
       ELSE [access EXCEPT !.at = "judge", !.id = id, !.r = 1, !.verdict = "deliver"]
  /\ UNCHANGED <<sendSide, line, cw, wip, parts, setsDone, due, shown>>

(* groupSetVerdictLocked: what one writer says of the set.  A part of it, or *)
(* of an earlier one, that is on its way is waited for however long it      *)
(* takes; a writer with nothing in progress until it is idle past the gate. *)
Behind(w)    == cw[w].tracked /\ cw[w].done < access.id
Arriving(w)  == wip[w].open /\ wip[w].g <= access.id
MayLack(w)   == cw[w].tracked /\ cw[w].from > access.id
HoldsBack(w, idle) == Behind(w) /\ (Arriving(w) \/ w \notin idle)

(* groupSetVerdictLocked, one reader.  `idle` are the writers that made no  *)
(* progress for coherent_idle_gate_ns: at any time, any of them.           *)
Judge(idle) ==
  LET ws      == TurnOf(access.r)
      discard == \/ \E p \in Queued(access.r) : p.g = access.id /\ ~p.complete
                 \/ \E w \in ws : MayLack(w)
      verdict == IF \E w \in ws : HoldsBack(w, idle) THEN "wait" ELSE access.verdict
      judged  == [access EXCEPT !.r = @ + 1, !.verdict = verdict,
                    !.excused = @ \cup {w \in ws : ~cw[w].tracked \/ (Behind(w) /\ ~HoldsBack(w, idle))}]
  IN
  /\ access.at = "judge"
  /\ access' = IF discard THEN [access EXCEPT !.at = "take", !.r = 1, !.verdict = "discard"]
               ELSE IF ~LastReader THEN judged
               ELSE IF verdict = "wait" THEN ThenPrune
               ELSE [judged EXCEPT !.at = "take", !.r = 1]
  /\ UNCHANGED <<sendSide, line, cw, wip, parts, setsDone, due, shown>>

(* takeGroupSetLocked, one reader: its parts of the set are exposed        *)
(* (promoteCommittedSetLocked) or dropped.                                 *)
Take ==
  LET r    == access.r
      out  == {p \in Queued(r) : p.g = access.id /\ access.verdict = "deliver"}
      took == [access EXCEPT !.r = @ + 1,
                 !.exposed = [w \in GroupWriters |->
                   @[w] + MapThenSumSet(LAMBDA p : p.n, {p \in out : p.writer = w})]]
  IN
  /\ access.at = "take"
  /\ setsDone' = AtLeast(setsDone, access.id)
  /\ parts' = [parts EXCEPT ![r] = SelectSeq(@, LAMBDA p : p.g # access.id)]
  /\ access' = IF ~LastReader THEN took
               ELSE IF access.verdict = "discard" THEN ThenOldest
               ELSE [took EXCEPT !.at = "settle", !.r = 1]
  /\ UNCHANGED <<sendSide, line, cw, wip, due, shown>>

(* The publisher is settled: it gives up one set at most in one access. *)
Settle ==
  /\ access.at = "settle"
  /\ shown' = shown \cup {access.id}
  /\ access' = ThenPrune
  /\ UNCHANGED <<sendSide, line, cw, wip, parts, setsDone, due>>

(* pruneGroupSetsDoneLocked, one reader (hearsFromPublisher). *)
Prune ==
  LET heard == \/ access.heard
               \/ Queued(access.r) # {}
               \/ \E w \in TurnOf(access.r) : cw[w].tracked
  IN
  /\ access.at = "prune"
  /\ access' = IF LastReader THEN NoAccess ELSE [access EXCEPT !.r = @ + 1, !.heard = heard]
  /\ setsDone' = IF LastReader /\ ~heard THEN 0 ELSE setsDone
  /\ UNCHANGED <<sendSide, line, cw, wip, parts, due, shown>>

-------------------------------------------------------------------------------
GroupInit ==
  /\ gsn = 0 /\ outside = {} /\ sets = <<>> /\ shown = {}
  /\ lastSn = [w \in GroupWriters |-> 0]
  /\ line = [w \in GroupWriters |-> <<>>]
  /\ cw = [w \in GroupWriters |-> Untracked]
  /\ wip = [w \in GroupWriters |-> NoWip]
  /\ parts = [r \in DataReaders |-> <<>>]
  /\ setsDone = 0
  /\ access = NoAccess
  /\ due = [w \in GroupWriters |-> {}]

GroupNext ==
  \/ \E n \in [GroupWriters -> 0..MaxPart] : EndCoherent(n)
  \/ \E w \in GroupWriters : \/ WriteOutside(w) \/ Lose(w) \/ Deliver(w)
                             \/ WriterMatching(w) \/ WriterUnmatching(w)
  \/ \E idle \in SUBSET TurnOf(access.r) : Judge(idle)
  \/ BeginAccess \/ ScanOldest \/ Take \/ Settle \/ Prune

GroupSpec == GroupInit /\ [][GroupNext]_gvars

-------------------------------------------------------------------------------
(* The shape of the state: positions are numbers, a part is queued by its  *)
(* writer's reader, and what is due or exposed was ended (the fields of     *)
(* CoherentWriter, CoherentWipEntry and CommittedSet).                      *)
GroupTypeOK ==
  /\ {gsn, setsDone} \subseteq Nat
  /\ outside \subseteq Loose
  /\ shown \subseteq {sets[i].id : i \in DOMAIN sets}
  /\ \A w \in GroupWriters :
       /\ {lastSn[w], cw[w].next, cw[w].done, cw[w].from, wip[w].cs, wip[w].g, wip[w].n} \subseteq Nat
       /\ \A i \in DOMAIN line[w] : line[w][i].kind \in {"sample", "outside", "end"}
       /\ due[w] \subseteq {sets[i].id : i \in DOMAIN sets}
  /\ \A r \in DataReaders : \A p \in Queued(r) : TopicReader(p.writer) = r
  /\ access.at \in {"off", "oldest", "judge", "take", "settle", "prune"}
  /\ access.r \in 1..(ReaderCount + 1)
  /\ access.excused \subseteq GroupWriters

(* The samples of each writer in the set at hand. *)
PartSizes == sets[CHOOSE i \in DOMAIN sets : sets[i].id = access.id].size

(* A group set is exposed once, and whole: every writer's part of it comes  *)
(* out in the same access, or does not come out at all because the writer   *)
(* was not matched when its reader's turn came, had been idle for longer    *)
(* than the gate, or was unmatched after the set was sent.  Nothing is      *)
(* exposed of a set with a sample missing (beginGroupCoherentAccessLocked:  *)
(* "discarded if any part is incomplete").  It holds where end markers are   *)
(* not lost, and not where they are.                                        *)
GroupAtomic ==
  access.at = "settle" =>
    /\ access.id \notin shown
    /\ \A w \in GroupWriters :
         \/ access.exposed[w] = PartSizes[w]
         \/ access.exposed[w] = 0 /\ (w \in access.excused \/ access.id \notin due[w])
===============================================================================
