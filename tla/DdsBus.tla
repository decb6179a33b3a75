-------------------------------- MODULE DdsBus --------------------------------
(***************************************************************************)
(* The middleware as a program sees it through the C API, and programs      *)
(* running on it: discovery between participants, one-sided matching,       *)
(* reliable delivery, reader caches, listeners, ignore lists, deferred      *)
(* enabling, filters, coherent groups, liveliness and participant leases.   *)
(*                                                                         *)
(* Every process runs the sequence of steps CodeOf gives it.  What the      *)
(* network and the middleware still have to do is the set Pending; each of  *)
(* those events happens within Latency ticks of becoming possible, in any   *)
(* order that keeps one writer's samples to one reader in order.  How a     *)
(* reliable pair achieves that is RtpsReliable's subject: here it is a      *)
(* queue.                                                                   *)
(*                                                                         *)
(* A tick passes only when every process waits and no event is overdue;     *)
(* with nothing on its way, time runs to the next timer at once.            *)
(***************************************************************************)
EXTENDS ProgramSteps, FiniteSets, FiniteSetsExt, SequencesExt

CONSTANTS Scenarios,  \* the scenarios explored, one chosen initially
          EndsOf,     \* scenario -> endpoint name -> endpoint
          CodeOf,     \* scenario -> process -> its steps
          StartOf,    \* scenario -> process -> conditions for its start
          UnwindsOf,  \* scenario -> its C++ programs
          Latency,    \* ticks within which an event happens
          Lease,      \* ticks after which a silent participant is dropped
          Announce,   \* ticks between two announcements of a participant
          Faulty,     \* scenarios in which one call or one datagram may fail
          Robust,     \* scenarios whose verdict must not depend on timing
          Drains      \* scenarios whose writers wait before they leave

VARIABLES scenario, \* the scenario explored, with its endpoints and programs
          pc,       \* process -> its next step
          state,    \* process -> idle, running, ok or failed
          left,     \* process -> ticks before its waiting step ends
          faults,   \* the process one of whose calls failed, or the network
          part,     \* process -> its participant: none, up, left or dead
          live,     \* endpoints announced and not deleted
          news,     \* <<process, source, kind>> -> announcements on their way
          known,    \* process -> endpoints of others it has heard of
          peers,    \* process -> participants it has discovered
          ignored,  \* process -> participants, topics, endpoints it ignores
          matched,  \* endpoint -> endpoints it is matched with
          ever,     \* endpoints that have been matched
          ready,    \* writer -> readers it was told have answered a HEARTBEAT
          history,  \* writer -> samples it holds
          evicted,  \* writer -> samples KEEP_LAST has dropped
          queue,    \* <<writer, reader>> -> items on their way
          owed,     \* <<writer, reader>> -> historical samples on their way
          open,     \* endpoint -> samples of its coherent set not ended yet
          parts,    \* reader -> coherent sets received and not exposed
          cache,    \* reader -> samples it may take
          taken,    \* reader -> samples taken
          rejected, \* reader -> samples refused by RESOURCE_LIMITS
          lost,     \* reader -> samples reported lost
          heard,    \* endpoint with a lease -> ticks before it expires
          offline,  \* endpoint -> times its lease expired
          listens,  \* readers with a data listener
          calls,    \* readers whose listener will take once more
          closing,  \* readers that are being deleted
          armed,    \* processes whose allocation guard is armed
          filter,   \* reader -> values its content filter refuses
          age       \* pending event -> ticks it has been pending

procVars == <<pc, state, left, faults, armed>>
discVars == <<part, live, news, known, peers, ignored, matched, ever, ready>>
sendVars == <<history, evicted, queue, owed>>
readVars == <<open, parts, cache, taken, rejected, lost, listens, filter, calls, closing>>
liveVars == <<heard, offline>>
vars == <<scenario, procVars, discVars, sendVars, readVars, liveVars, age>>

-------------------------------------------------------------------------------
Kinds == {"writer", "reader"}
Of(ends, kind) == {e \in DOMAIN ends : ends[e].kind = kind}

\* What one scenario is made of: its endpoints, its programs, what the harness
\* waits for before it starts each; writers and readers of one topic in two
\* processes; processes that share a topic, the only ones whose discovery of
\* each other matters; writers whose program waits for
\* on_reliable_reader_ready; programs with a watchdog.
PairsOf(ends) ==
  {x \in Of(ends, "writer") \X Of(ends, "reader") : /\ ends[x[1]].topic = ends[x[2]].topic
                                                   /\ ends[x[1]].proc # ends[x[2]].proc}
LinksOf(ends) ==
  UNION {{<<ends[x[1]].proc, ends[x[2]].proc>>, <<ends[x[2]].proc, ends[x[1]].proc>>} : x \in PairsOf(ends)}
ScenarioOf(s) ==
  LET ends  == EndsOf[s]
      code  == CodeOf[s]
  IN  [name |-> s, ends |-> ends, code |-> code, start |-> StartOf[s], unwinds |-> UnwindsOf[s],
       pairs |-> PairsOf(ends), links |-> LinksOf(ends),
       asked |-> {w \in Of(ends, "writer") : \E p \in DOMAIN code : \E i \in DOMAIN code[p] :
                    code[p][i].do = "await" /\ Ready(w) \in code[p][i].cs},
       watched |-> {p \in DOMAIN code : \E i \in DOMAIN code[p] :
                      code[p][i].do \in Waiting /\ code[p][i].n = Rest}]

Ends    == scenario.ends
Procs   == DOMAIN scenario.code
Code(p) == scenario.code[p]
Writers == Of(Ends, "writer")
Readers == Of(Ends, "reader")
Pairs   == scenario.pairs
Links   == scenario.links
Owner(e) == Ends[e].proc

\* Whether two endpoints match by topic and by requested durability.
Compatible(e, f) ==
  \/ <<e, f>> \in Pairs /\ (Ends[f].durable => Ends[e].durable)
  \/ <<f, e>> \in Pairs /\ (Ends[e].durable => Ends[f].durable)

\* Ignore lists that hold endpoints only (a mutant of Ignored).
IgnoredEndpoint(q, e) == e \in ignored[q]

\* onWriterDiscovered and onReaderDiscovered's ignore lists.
Ignored(q, e) == {e, Owner(e), Ends[e].topic} \cap ignored[q] # {}

\* discovered_participants: ignore_participant takes a participant out of it,
\* and its next announcement does not bring it back.
Discovered(p) == peers[p] \ ignored[p]

Up(p)   == part[p] = "up"
Over(p) == state[p] \in {"ok", "failed"}
Running(p) == state[p] = "running"
Step(p) == Code(p)[pc[p]]

\* Items on their way from a writer to a reader.
Sample(v) == [is |-> "sample", v |-> v]
Eoc(g)    == [is |-> "eoc", g |-> g]
Alive     == [is |-> "alive"]
Gap(n)    == [is |-> "gap", n |-> n]

-------------------------------------------------------------------------------
\* What a condition of a polling loop means.
Holds(c) ==
  CASE c.is = "matched"      -> Cardinality(matched[c.e]) >= c.n
    [] c.is = "unmatched"    -> matched[c.e] = {}
    [] c.is = "departed"     -> c.e \in ever /\ matched[c.e] = {}
    [] c.is = "met"          -> c.e \in ever
    [] c.is = "ready"        -> ready[c.e] # {}
    [] c.is = "took"         -> Len(taken[c.e]) >= c.n
    [] c.is = "tookExactly"  -> taken[c.e] = c.s
    [] c.is = "tookAtLeast"  -> c.s \subseteq ToSet(taken[c.e])
    [] c.is = "inTurn"       -> \A i \in DOMAIN taken[c.e] :
                                  taken[c.e][i] = c.b => \E j \in 1..(i - 1) : taken[c.e][j] = c.a
    [] c.is = "seesPeer"     -> Discovered(c.p) # {}
    [] c.is = "someRejected" -> rejected[c.e] > 0
    [] c.is = "conserved"    -> rejected[c.e] + Len(taken[c.e]) = c.n
    [] c.is = "someLost"     -> lost[c.e] > 0
    [] c.is = "historical"   -> /\ matched[c.e] # {}
                                /\ \A w \in matched[c.e] : c.e \in matched[w] /\ owed[w, c.e] = 0
    [] c.is = "offline"      -> offline[c.e] >= c.n
    [] c.is = "neverOffline" -> offline[c.e] = 0
    [] c.is = "recovered"    -> offline[c.e] > 0 /\ heard[c.e] > 0
    [] c.is = "acked"        -> \A r \in matched[c.e] : queue[c.e, r] = <<>>
    [] c.is = "disabled"     -> c.e \notin live
    [] c.is = "said"         -> \E i \in 1..(pc[c.p] - 1) : Code(c.p)[i] = Say(c.m)
    [] c.is = "finished"     -> Over(c.p)
    [] c.is = "started"      -> state[c.p] # "idle"
AllHold(cs) == \A c \in cs : Holds(c)

\* What the middleware and the harness may have to do.
Events ==
  [ev : {"start"}, p : Procs]
  \cup {[ev |-> k, q |-> x[1], p |-> x[2]] : k \in {"find", "lose", "lease"}, x \in Links}
  \cup {[ev |-> "note", q |-> x[1], p |-> x[2], k |-> k] : x \in Links, k \in Kinds}
  \cup {[ev |-> k, w |-> x[1], r |-> x[2]] : k \in {"ready", "data"}, x \in Pairs}
  \cup {[ev |-> "call", r |-> r] : r \in Readers}

\* Both sides of the pair are there and matched with each other.
Linked(w, r) == Up(Owner(w)) /\ Up(Owner(r)) /\ r \in matched[w] /\ w \in matched[r]
Due(ev) ==
  CASE ev.ev = "start" -> state[ev.p] = "idle" /\ AllHold(scenario.start[ev.p])
    [] ev.ev = "find"  -> Up(ev.q) /\ Up(ev.p) /\ ev.p \notin peers[ev.q]
    [] ev.ev = "note"  -> Up(ev.q) /\ Up(ev.p) /\ ev.p \in peers[ev.q] /\ news[ev.q, ev.p, ev.k] # <<>>
    [] ev.ev = "lose"  -> Up(ev.q) /\ part[ev.p] = "left" /\ ev.p \in peers[ev.q]
    [] ev.ev = "lease" -> Up(ev.q) /\ part[ev.p] = "dead" /\ ev.p \in peers[ev.q]
    [] ev.ev = "ready" -> Linked(ev.w, ev.r) /\ ev.w \in scenario.asked /\ ev.r \notin ready[ev.w]
    [] ev.ev = "data"  -> Linked(ev.w, ev.r) /\ queue[ev.w, ev.r] # <<>>
    [] ev.ev = "call"  -> Running(Owner(ev.r)) /\ ev.r \in listens /\ cache[ev.r] # <<>>
Pending == {ev \in Events : Due(ev)}

\* An event happens within Latency ticks; a silent participant is dropped when
\* Lease ticks have passed since its last announcement, which was at most
\* Announce ticks before it died.
Age(ev) == IF ev \in DOMAIN age THEN age[ev] ELSE 0
Overdue(ev) == Age(ev) >= (IF ev.ev = "lease" THEN Lease ELSE Latency)
Slack(ev) == IF ev.ev = "lease" /\ Age(ev) < Lease - Announce THEN Lease - Announce - Age(ev) ELSE 1

\* After an action, events that are still pending keep their age; the one that
\* just happened starts again.
Nothing == [ev |-> "nothing"]
Keeping(done) ==
  age' = [ev \in {x \in DOMAIN age : x # done /\ Due(x)'} |-> age[ev]]

-------------------------------------------------------------------------------
Init ==
  /\ \E s \in Scenarios : scenario = ScenarioOf(s)
  /\ pc = [p \in Procs |-> 1]
  /\ state = [p \in Procs |-> "idle"]
  /\ left = [p \in Procs |-> 0]
  /\ faults = {}
  /\ part = [p \in Procs |-> "none"]
  /\ live = {}
  /\ news = [x \in {<<l[1], l[2], k>> : l \in Links, k \in Kinds} |-> <<>>]
  /\ known = [p \in Procs |-> {}]
  /\ peers = [p \in Procs |-> {}]
  /\ ignored = [p \in Procs |-> {}]
  /\ matched = [e \in DOMAIN Ends |-> {}]
  /\ ever = {}
  /\ ready = [w \in Writers |-> {}]
  /\ history = [w \in Writers |-> <<>>]
  /\ evicted = [w \in Writers |-> 0]
  /\ queue = [x \in Pairs |-> <<>>]
  /\ owed = [x \in Pairs |-> 0]
  /\ open = [e \in DOMAIN Ends |-> <<>>]
  /\ parts = [r \in Readers |-> <<>>]
  /\ cache = [r \in Readers |-> <<>>]
  /\ taken = [r \in Readers |-> <<>>]
  /\ rejected = [r \in Readers |-> 0]
  /\ lost = [r \in Readers |-> 0]
  /\ heard = [e \in {f \in DOMAIN Ends : Ends[f].lease > 0} |-> 0]
  /\ offline = [e \in DOMAIN Ends |-> 0]
  /\ listens = {}
  /\ filter = [r \in Readers |-> {}]
  /\ calls = {}
  /\ closing = {}
  /\ armed = {}
  /\ age = <<>>

-------------------------------------------------------------------------------
\* Leaving a step: the next one's timer starts; after the last one main
\* returns 0.
Timer(p, s) == IF s.do \in Waiting /\ s.n # Rest THEN s.n
               ELSE IF p \in scenario.watched THEN left[p] ELSE 0
Advance(p) ==
  LET next == pc[p] + 1 IN
  /\ pc' = [pc EXCEPT ![p] = next]
  /\ state' = [state EXCEPT ![p] = IF next > Len(Code(p)) THEN "ok" ELSE @]
  /\ left' = [left EXCEPT ![p] = IF next > Len(Code(p)) THEN 0 ELSE Timer(p, Code(p)[next])]
  /\ UNCHANGED faults
Proceed(p) == Advance(p) /\ UNCHANGED armed

\* How a participant ends that main did not delete: a C++ main that returns
\* destroys its factory and leaves the domain, any other falls silent.
Unwound(p) == IF p \in scenario.unwinds THEN "left" ELSE "dead"

\* The process ends with a nonzero exit code: its participant ends so.
Abort(p, how, end) ==
  /\ state' = [state EXCEPT ![p] = how]
  /\ left' = [left EXCEPT ![p] = 0]
  /\ part' = [part EXCEPT ![p] = IF Up(p) THEN end ELSE @]
  /\ calls' = {r \in calls : Owner(r) # p}
  /\ armed' = armed \ {p}
  /\ UNCHANGED <<pc, live, news, known, peers, ignored, matched, ever, ready, sendVars, liveVars,
                 open, parts, cache, taken, rejected, lost, listens, filter, closing>>

\* Process p is at a step of the given kind.
At(p, do) == Running(p) /\ Step(p).do = do

\* e is matched with fs as well; each writer queues what a durable reader is
\* owed, after the loss KEEP_LAST has already caused.
Backlog(w, r) ==
  IF Ends[w].durable /\ Ends[r].durable
    THEN (IF evicted[w] > 0 THEN <<Gap(evicted[w])>> ELSE <<>>) \o history[w]
    ELSE <<>>
Match(es, fs) ==
  LET new(e) == {f \in fs : Compatible(e, f)} \ matched[e]
      fresh  == {x \in Pairs : x[1] \in es /\ x[2] \in new(x[1])}
  IN  /\ matched' = [e \in DOMAIN Ends |-> IF e \in es THEN matched[e] \cup new(e) ELSE matched[e]]
      /\ ever' = ever \cup {e \in es : new(e) # {}}
      /\ queue' = [x \in Pairs |-> IF x \in fresh THEN Backlog(x[1], x[2]) ELSE queue[x]]
      /\ owed' = [x \in Pairs |-> IF x \in fresh THEN Len(Backlog(x[1], x[2])) ELSE owed[x]]
      /\ heard' = [e \in DOMAIN heard |->
                     IF e \in es \cap Readers /\ new(e) # {} THEN Ends[e].lease ELSE heard[e]]

\* es are no longer matched with fs; an unmatched reader drops the coherent set
\* that was arriving.
Unmatch(es, fs) ==
  /\ matched' = [e \in DOMAIN Ends |-> IF e \in es THEN matched[e] \ fs ELSE matched[e]]
  /\ queue' = [x \in Pairs |-> IF (x[1] \in es /\ x[2] \in fs) \/ (x[2] \in es /\ x[1] \in fs)
                                 THEN <<>> ELSE queue[x]]
  /\ open' = [e \in DOMAIN Ends |->
                IF e \in es \cap Readers /\ matched[e] \cap fs # {} THEN <<>> ELSE open[e]]

-------------------------------------------------------------------------------
\* The steps of a program.

\* The harness starts the program, once its marker has appeared.
Start(p) ==
  /\ Due([ev |-> "start", p |-> p])
  /\ state' = [state EXCEPT ![p] = "running"]
  /\ left' = [left EXCEPT ![p] = Timer(p, Code(p)[1])]
  /\ UNCHANGED <<scenario, pc, faults, armed, discVars, sendVars, readVars, liveVars>>
  /\ Keeping([ev |-> "start", p |-> p])

\* create_participant.
JoinDomain(p) ==
  /\ At(p, "join")
  /\ part' = [part EXCEPT ![p] = "up"]
  /\ Proceed(p)
  /\ UNCHANGED <<scenario, live, news, known, peers, ignored, matched, ever, ready,
                 sendVars, readVars, liveVars>>
  /\ Keeping(Nothing)

\* delete_participant, or destroy_factory with its participant.
LeaveDomain(p) ==
  /\ At(p, "leave")
  /\ part' = [part EXCEPT ![p] = "left"]
  /\ matched' = [e \in DOMAIN Ends |-> IF Owner(e) = p THEN {} ELSE matched[e]]
  /\ listens' = {r \in listens : Owner(r) # p}
  /\ Proceed(p)
  /\ UNCHANGED <<scenario, live, news, known, peers, ignored, ever, ready, sendVars, liveVars,
                 open, parts, cache, taken, rejected, lost, filter, calls, closing>>
  /\ Keeping(Nothing)

\* SEDP tells every process with an endpoint on the topic.
Told(e, add) ==
  [x \in DOMAIN news |->
     IF x[2] = Owner(e) /\ x[3] = Ends[e].kind
        /\ \E f \in DOMAIN Ends : Owner(f) = x[1] /\ (<<e, f>> \in Pairs \/ <<f, e>> \in Pairs)
       THEN Append(news[x], [e |-> e, add |-> add]) ELSE news[x]]

\* Announcing e: it matches, inside the call, what its participant already knows.
Announcement(p, e) ==
  LET fs == {f \in known[p] : Compatible(e, f) /\ ~Ignored(p, f)} IN
  /\ live' = live \cup {e}
  /\ news' = Told(e, TRUE)
  /\ matched' = [matched EXCEPT ![e] = fs]
  /\ ever' = IF fs = {} THEN ever ELSE ever \cup {e}
  /\ heard' = [f \in DOMAIN heard |->
                 IF f = e /\ (e \in Writers \/ fs # {}) THEN Ends[e].lease ELSE heard[f]]

\* create_datawriter, create_datareader: announced unless autoenable is off.
CreateEndpoint(p) ==
  /\ At(p, "create")
  /\ LET e == Step(p).e IN
       /\ IF Ends[e].enabled THEN Announcement(p, e)
                             ELSE UNCHANGED <<live, news, matched, ever, heard>>
       /\ listens' = IF Ends[e].listening THEN listens \cup {e} ELSE listens
  /\ Proceed(p)
  /\ UNCHANGED <<scenario, part, known, peers, ignored, ready, sendVars, offline,
                 open, parts, cache, taken, rejected, lost, filter, calls, closing>>
  /\ Keeping(Nothing)

\* Publisher enable, then DataWriter enable.
EnableEndpoint(p) ==
  /\ At(p, "enable")
  /\ Announcement(p, Step(p).e)
  /\ Proceed(p)
  /\ UNCHANGED <<scenario, part, known, peers, ignored, ready, sendVars, readVars, offline>>
  /\ Keeping(Nothing)

\* The endpoint leaves the protocol: unmatched, and its deletion announced.
Retire(e) ==
  /\ live' = live \ {e}
  /\ news' = Told(e, FALSE)
  /\ Unmatch({e}, matched[e])
  /\ listens' = listens \ {e}

\* delete_datareader while the reader's listener still runs: the reader leaves
\* the protocol and is closed to new takes, and the call waits for the listener.
BeginDelete(p) ==
  /\ At(p, "delete")
  /\ Step(p).e \in calls \ closing
  /\ Retire(Step(p).e)
  /\ closing' = closing \cup {Step(p).e}
  /\ UNCHANGED <<scenario, procVars, part, known, peers, ignored, ever, ready, history, evicted, owed,
                 liveVars, parts, cache, taken, rejected, lost, filter, calls>>
  /\ Keeping(Nothing)

\* delete_datareader, delete_datawriter.
DeleteEndpoint(p) ==
  /\ At(p, "delete")
  /\ Step(p).e \notin calls
  /\ Retire(Step(p).e)
  /\ Proceed(p)
  /\ UNCHANGED <<scenario, part, known, peers, ignored, ever, ready, history, evicted, owed, liveVars,
                 parts, cache, taken, rejected, lost, filter, calls, closing>>
  /\ Keeping(Nothing)

\* ignore_topic by the topic's own handle, ignore_participant by the first
\* handle of get_discovered_participants, ignore_publication and
\* ignore_subscription by the first matched handle of a probe.
IgnoreEntity(p) ==
  /\ \/ At(p, "ignoreTopic") /\ ignored' = [ignored EXCEPT ![p] = @ \cup {Step(p).x}]
     \/ /\ At(p, "ignorePeer")
        /\ \E q \in Discovered(p) : ignored' = [ignored EXCEPT ![p] = @ \cup {q}]
     \/ /\ At(p, "ignoreMatch")
        /\ \E f \in matched[Step(p).e] : ignored' = [ignored EXCEPT ![p] = @ \cup {f}]
  /\ Proceed(p)
  /\ UNCHANGED <<scenario, part, live, news, known, peers, matched, ever, ready,
                 sendVars, readVars, liveVars>>
  /\ Keeping(Nothing)

\* write: kept in the history, and sent to every matched reader, which a
\* coherent set leaves to its end.
Keep(w, s) == IF Ends[w].depth > 0 /\ Len(s) > Ends[w].depth THEN Tail(s) ELSE s
WriteSample(p) ==
  /\ At(p, "write")
  /\ LET w == Step(p).e
         x == Append(history[w], Sample(Step(p).v))
     IN  /\ history' = [history EXCEPT ![w] = Keep(w, x)]
         /\ evicted' = [evicted EXCEPT ![w] = @ + Len(x) - Len(Keep(w, x))]
         /\ open' = [open EXCEPT ![w] = IF Ends[w].group THEN Append(@, Sample(Step(p).v)) ELSE @]
         /\ queue' = [y \in Pairs |-> IF y[1] = w /\ y[2] \in matched[w] /\ ~Ends[w].group
                                        THEN Append(queue[y], Sample(Step(p).v)) ELSE queue[y]]
         /\ heard' = [e \in DOMAIN heard |->
                        IF e = w /\ ~Ends[w].manual THEN Ends[w].lease ELSE heard[e]]
  /\ Proceed(p)
  /\ UNCHANGED <<scenario, discVars, owed, offline, parts, cache, taken, rejected, lost, listens,
                 filter, calls, closing>>
  /\ Keeping(Nothing)

\* end_coherent_changes sends each writer's part of the set and marks its end,
\* with the set's id.
SetNumber(p) == Cardinality({i \in 1..pc[p] : Code(p)[i].do = "endSet"})
EndCoherentChanges(p) ==
  /\ At(p, "endSet")
  /\ queue' = [y \in Pairs |-> IF y[1] \in Step(p).es /\ y[2] \in matched[y[1]]
                                 THEN queue[y] \o Append(open[y[1]], Eoc(SetNumber(p))) ELSE queue[y]]
  /\ open' = [e \in DOMAIN Ends |-> IF e \in Step(p).es THEN <<>> ELSE open[e]]
  /\ Proceed(p)
  /\ UNCHANGED <<scenario, discVars, history, evicted, owed, liveVars, parts, cache, taken, rejected,
                 lost, listens, filter, calls, closing>>
  /\ Keeping(Nothing)

\* assert_liveliness of a MANUAL_BY_TOPIC writer.
AssertLiveliness(p) ==
  /\ At(p, "assert")
  /\ LET w == Step(p).e IN
       /\ heard' = [heard EXCEPT ![w] = Ends[w].lease]
       /\ queue' = [y \in Pairs |-> IF y[1] = w /\ y[2] \in matched[w]
                                      THEN Append(queue[y], Alive) ELSE queue[y]]
  /\ Proceed(p)
  /\ UNCHANGED <<scenario, discVars, history, evicted, owed, readVars, offline>>
  /\ Keeping(Nothing)

\* take until there is nothing left.
TakeSamples(p) ==
  /\ At(p, "take")
  /\ LET r == Step(p).e IN
       /\ taken' = [taken EXCEPT ![r] = @ \o cache[r]]
       /\ cache' = [cache EXCEPT ![r] = <<>>]
  /\ Proceed(p)
  /\ UNCHANGED <<scenario, discVars, sendVars, liveVars,
                 open, parts, rejected, lost, listens, filter, calls, closing>>
  /\ Keeping(Nothing)

\* set_listener (it fires at once for what is already in the cache),
\* create or set_expression_parameters of a content filter, the assignment of
\* the typed reader the listener uses, and the markers the harness waits for.
Configure(p) ==
  /\ \/ /\ At(p, "listen")
        /\ listens' = listens \cup {Step(p).e} /\ UNCHANGED filter
     \/ /\ At(p, "filter")
        /\ filter' = [filter EXCEPT ![Step(p).e] = Step(p).s] /\ UNCHANGED listens
     \/ Running(p) /\ Step(p).do \in {"say", "bind"} /\ UNCHANGED <<listens, filter>>
  /\ Proceed(p)
  /\ UNCHANGED <<scenario, discVars, sendVars, liveVars,
                 open, parts, cache, taken, rejected, lost, calls, closing>>
  /\ Keeping(Nothing)

\* begin_access exposes the oldest group set once every reader of the
\* subscriber that still has a writer has heard the end of it, and takes the
\* parts with its id.  Here nothing of a set is lost and no writer goes idle in
\* it: the whole verdict, incomplete parts, late matches and the idle gate
\* included, is GroupSets' subject.
GroupReaders(p) == {r \in Readers : Owner(r) = p /\ Ends[r].group}
OldestSet(p) == Min({parts[r][1].g : r \in {q \in GroupReaders(p) : parts[q] # <<>>}})
Exposes(p) ==
  /\ \E r \in GroupReaders(p) : parts[r] # <<>>
  /\ \A r \in GroupReaders(p) : parts[r] # <<>> \/ matched[r] = {}

\* One round of a polling loop that takes: read access first where the
\* subscriber's presentation is coherent.
Poll(p) ==
  /\ Running(p) /\ Step(p).do \in Polling
  /\ \/ /\ \E r \in Step(p).rs : cache[r] # <<>>
        /\ taken' = [r \in Readers |-> IF r \in Step(p).rs THEN taken[r] \o cache[r] ELSE taken[r]]
        /\ cache' = [r \in Readers |-> IF r \in Step(p).rs THEN <<>> ELSE cache[r]]
        /\ UNCHANGED parts
     \/ /\ Exposes(p)
        /\ LET out == {r \in Step(p).rs : parts[r] # <<>> /\ parts[r][1].g = OldestSet(p)} IN
             /\ taken' = [r \in Readers |-> IF r \in out THEN taken[r] \o parts[r][1].s ELSE taken[r]]
             /\ parts' = [r \in Readers |-> IF r \in out THEN Tail(parts[r]) ELSE parts[r]]
        /\ UNCHANGED cache
  /\ UNCHANGED <<scenario, procVars, discVars, sendVars, liveVars,
                 open, rejected, lost, listens, filter, calls, closing>>
  /\ Keeping(Nothing)

\* A loop that has seen what it waits for, a sleep or a quiet window that is
\* over, a check that holds.
Pass(p) ==
  /\ \/ At(p, "await") /\ AllHold(Step(p).cs)
     \/ At(p, "refuse") /\ left[p] = 0 /\ ~AllHold(Step(p).cs)
     \/ At(p, "sleep") /\ left[p] = 0
     \/ At(p, "try") /\ (left[p] = 0 \/ AllHold(Step(p).cs))
     \/ At(p, "check") /\ AllHold(Step(p).cs)
  /\ Proceed(p)
  /\ UNCHANGED <<scenario, discVars, sendVars, readVars, liveVars>>
  /\ Keeping(Nothing)

\* noalloc_guard_try_arm after a loop that saw its condition, and
\* noalloc_guard_try_disarm.
Guard(p) ==
  /\ \/ /\ At(p, "arm") /\ (left[p] = 0 \/ AllHold(Step(p).cs))
        /\ armed' = IF AllHold(Step(p).cs) THEN armed \cup {p} ELSE armed
     \/ At(p, "disarm") /\ armed' = armed \ {p}
  /\ Advance(p)
  /\ UNCHANGED <<scenario, discVars, sendVars, readVars, liveVars>>
  /\ Keeping(Nothing)

\* A loop that timed out, a window that was not quiet, a check that fails.
Fail(p) ==
  /\ \/ At(p, "await") /\ left[p] = 0 /\ ~AllHold(Step(p).cs)
     \/ At(p, "refuse") /\ AllHold(Step(p).cs)
     \/ At(p, "check") /\ ~AllHold(Step(p).cs)
  /\ Abort(p, "failed", Unwound(p))
  /\ UNCHANGED <<scenario, faults>>
  /\ Keeping(Nothing)

\* A call returns an error: the program prints FAIL and returns 1.  The
\* programs do not look at what their teardown returns.
CallFails(p) ==
  /\ scenario.name \in Faulty /\ faults = {}
  /\ Running(p) /\ Step(p).do \notin Waiting \cup {"check", "say", "bind", "disarm", "delete", "leave"}
  /\ faults' = faults \cup {p}
  /\ Abort(p, "failed", Unwound(p))
  /\ UNCHANGED scenario
  /\ Keeping(Nothing)

-------------------------------------------------------------------------------
\* What the middleware does.

\* SPDP: q discovers participant p.
FindParticipant(q, p) ==
  /\ Due([ev |-> "find", q |-> q, p |-> p])
  /\ peers' = [peers EXCEPT ![q] = @ \cup {p}]
  /\ UNCHANGED <<scenario, procVars, part, live, news, known, ignored, matched, ever, ready,
                 sendVars, readVars, liveVars>>
  /\ Keeping(Nothing)

\* SEDP: q processes the next announcement of p's endpoints of one kind.  The
\* code decides under its lock and matches after it, with a generation that
\* drops a decision overtaken by a newer one: here that is one step.
NoteEndpoint(q, p, k) ==
  LET ev == [ev |-> "note", q |-> q, p |-> p, k |-> k]
      a  == Head(news[q, p, k])
      es == {e \in live : Owner(e) = q}
  IN
  /\ Due(ev)
  /\ \/ /\ a.add /\ ~Ignored(q, a.e)
        /\ Match(es, {a.e})
        /\ UNCHANGED open
     \/ /\ a.add /\ Ignored(q, a.e)
        /\ UNCHANGED <<matched, ever, queue, owed, heard, open>>
     \/ /\ ~a.add
        /\ Unmatch(es, {a.e})
        /\ UNCHANGED <<ever, owed, heard>>
  /\ known' = [known EXCEPT ![q] = IF ~a.add THEN @ \ {a.e}
                                   ELSE IF Ignored(q, a.e) THEN @ ELSE @ \cup {a.e}]
  /\ news' = [news EXCEPT ![q, p, k] = Tail(@)]
  /\ UNCHANGED <<scenario, procVars, part, live, peers, ignored, ready, history, evicted, offline,
                 parts, cache, taken, rejected, lost, listens, filter, calls, closing>>
  /\ Keeping(ev)

\* q learns that p's participant was deleted, or drops a silent one; the
\* callbacks the code defers until its locks are free are part of the step.
LoseParticipant(q, p) ==
  LET es == {e \in DOMAIN Ends : Owner(e) = p}
      silent == [ev |-> "lease", q |-> q, p |-> p]
  IN
  /\ \/ Due([ev |-> "lose", q |-> q, p |-> p])
     \/ Due(silent) /\ Age(silent) >= Lease - Announce
  /\ peers' = [peers EXCEPT ![q] = @ \ {p}]
  /\ known' = [known EXCEPT ![q] = @ \ es]
  /\ Unmatch({e \in DOMAIN Ends : Owner(e) = q}, es)
  /\ UNCHANGED <<scenario, procVars, part, live, news, ignored, ever, ready, history, evicted, owed,
                 parts, cache, taken, rejected, lost, listens, filter, calls, closing, liveVars>>
  /\ Keeping(Nothing)

\* The reader answers the writer's HEARTBEAT: on_reliable_reader_ready.
ReaderReady(w, r) ==
  /\ Due([ev |-> "ready", w |-> w, r |-> r])
  /\ ready' = [ready EXCEPT ![w] = @ \cup {r}]
  /\ UNCHANGED <<scenario, procVars, part, live, news, known, peers, ignored, matched, ever,
                 sendVars, readVars, liveVars>>
  /\ Keeping(Nothing)

\* A sample reaches the reader: the filter drops it, a coherent set buffers
\* it, KEEP_LAST pushes out the oldest, a full cache refuses it.
Accept(r, v) ==
  LET kept == IF Ends[r].depth > 0 /\ Len(cache[r]) >= Ends[r].depth THEN Tail(cache[r]) ELSE cache[r]
      full == Ends[r].limit > 0 /\ Len(kept) >= Ends[r].limit
  IN
  IF v \in filter[r] THEN UNCHANGED <<open, cache, rejected>>
  ELSE IF Ends[r].group
    THEN open' = [open EXCEPT ![r] = Append(@, v)] /\ UNCHANGED <<cache, rejected>>
  ELSE /\ cache' = [cache EXCEPT ![r] = IF full THEN kept ELSE Append(kept, v)]
       /\ rejected' = [rejected EXCEPT ![r] = IF full THEN @ + 1 ELSE @]
       /\ UNCHANGED open

Receive(w, r) ==
  LET ev == [ev |-> "data", w |-> w, r |-> r]
      m  == Head(queue[w, r])
  IN
  /\ Due(ev)
  /\ queue' = [queue EXCEPT ![w, r] = Tail(@)]
  /\ owed' = [owed EXCEPT ![w, r] = IF @ > 0 THEN @ - 1 ELSE 0]
  /\ heard' = [e \in DOMAIN heard |->
                 IF e = r /\ m.is \in {"sample", "alive"} THEN Ends[r].lease ELSE heard[e]]
  /\ \/ m.is = "sample" /\ Accept(r, m.v) /\ UNCHANGED <<parts, lost>>
     \/ /\ m.is = "eoc"
        /\ parts' = [parts EXCEPT ![r] = Append(@, [g |-> m.g, s |-> open[r]])]
        /\ open' = [open EXCEPT ![r] = <<>>]
        /\ UNCHANGED <<cache, rejected, lost>>
     \/ /\ m.is = "gap"
        /\ lost' = [lost EXCEPT ![r] = @ + m.n]
        /\ UNCHANGED <<open, parts, cache, rejected>>
     \/ m.is = "alive" /\ UNCHANGED <<open, parts, cache, rejected, lost>>
  /\ UNCHANGED <<scenario, procVars, discVars, history, evicted, taken, listens, filter, calls, closing, offline>>
  /\ Keeping(ev)

\* A BEST_EFFORT reader misses the next sample.
LoseSample(w, r) ==
  LET ev == [ev |-> "data", w |-> w, r |-> r] IN
  /\ Due(ev) /\ Ends[r].lossy /\ scenario.name \in Faulty /\ faults = {}
  /\ faults' = {"network"}
  /\ queue' = [queue EXCEPT ![w, r] = Tail(@)]
  /\ UNCHANGED <<scenario, pc, state, left, armed, discVars, history, evicted, owed, readVars, liveVars>>
  /\ Keeping(ev)

\* The typed reader the listener of r uses has not been assigned yet.
Unbound(r) ==
  LET p == Owner(r) IN \E i \in pc[p]..Len(Code(p)) : Code(p)[i] = Bind(r)

\* on_data_available: the program's callback takes everything; a callback that
\* loops on take_raw comes back once more.  One that runs before its typed
\* reader is assigned ends the process.
OnDataAvailable(r) ==
  /\ Due([ev |-> "call", r |-> r]) /\ r \notin calls
  /\ \/ /\ ~Unbound(r)
        /\ taken' = [taken EXCEPT ![r] = @ \o cache[r]]
        /\ cache' = [cache EXCEPT ![r] = <<>>]
        /\ calls' = IF Ends[r].raw THEN calls \cup {r} ELSE calls
        /\ UNCHANGED <<procVars, discVars, sendVars, liveVars,
                       open, parts, rejected, lost, listens, filter, closing>>
     \/ Unbound(r) /\ Abort(Owner(r), "failed", "dead") /\ UNCHANGED faults
  /\ UNCHANGED scenario
  /\ Keeping([ev |-> "call", r |-> r])

\* The callback's last take_raw: it finds nothing more, or takes what has come
\* meanwhile, or is refused by a reader that is being deleted and exits.
LastTake(r) ==
  /\ r \in calls
  /\ \/ /\ r \notin closing
        /\ taken' = [taken EXCEPT ![r] = @ \o cache[r]]
        /\ cache' = [cache EXCEPT ![r] = <<>>]
        /\ calls' = IF cache[r] = <<>> THEN calls \ {r} ELSE calls
        /\ UNCHANGED <<procVars, discVars, sendVars, liveVars,
                       open, parts, rejected, lost, listens, filter, closing>>
     \/ r \in closing /\ Abort(Owner(r), "failed", "dead") /\ UNCHANGED faults
  /\ UNCHANGED scenario
  /\ Keeping(Nothing)

-------------------------------------------------------------------------------
\* Time passes when every program waits and nothing is overdue.
Blocked(p) ==
  Running(p) => /\ Step(p).do \in Waiting /\ left[p] > 0
                /\ Step(p).do # "sleep" => ~AllHold(Step(p).cs)
                /\ Step(p).do \in Polling =>
                     ~Exposes(p) /\ \A r \in Step(p).rs : cache[r] = <<>>
Ticking  == {p \in Procs : Running(p)}
Counting == {e \in DOMAIN heard : heard[e] > 0 /\ Running(Owner(e))}

\* What is left of a loop's time after d ticks; a loop that takes a new deadline
\* in every round (a mutant of Remaining).
RemainingAnew(p, d) == IF Step(p).do = "await" THEN left[p] ELSE left[p] - d
Remaining(p, d) == left[p] - d

\* A writer's own lease restarts when it expires; a reader's stays expired.
\* An AUTOMATIC writer is kept alive at its readers by its participant.
Renewed(e) == /\ Ends[e].kind = "reader" /\ ~Ends[e].manual
              /\ \E w \in matched[e] : Up(Owner(w))
Tick ==
  /\ Ticking # {} /\ calls = {}
  /\ \A p \in Procs : Blocked(p)
  /\ \A ev \in Pending : ~Overdue(ev)
  /\ LET d == Min({left[p] : p \in Ticking} \cup {heard[e] : e \in Counting}
                    \cup {Slack(ev) : ev \in Pending})
     IN  /\ left' = [p \in Procs |-> IF p \in Ticking THEN Remaining(p, d) ELSE left[p]]
         /\ age' = [ev \in Pending |-> Age(ev) + d]
         /\ offline' = [e \in DOMAIN Ends |->
              IF e \in Counting /\ heard[e] = d /\ ~Renewed(e) THEN offline[e] + 1 ELSE offline[e]]
         /\ heard' = [e \in DOMAIN heard |->
              IF e \notin Counting THEN heard[e]
              ELSE IF Renewed(e) \/ (heard[e] = d /\ Ends[e].kind = "writer") THEN Ends[e].lease
              ELSE heard[e] - d]
  /\ UNCHANGED <<scenario, pc, state, faults, armed, discVars, sendVars, readVars>>

\* Every program has returned, but for those the harness never starts because
\* the marker it waits for cannot come any more.
AllOver == \A p \in Procs : Over(p) \/ (state[p] = "idle" /\ ~AllHold(scenario.start[p]))
Done == AllOver /\ UNCHANGED vars

ProgramStep(p) ==
  \/ JoinDomain(p) \/ LeaveDomain(p) \/ CreateEndpoint(p) \/ EnableEndpoint(p)
  \/ BeginDelete(p) \/ DeleteEndpoint(p) \/ IgnoreEntity(p) \/ WriteSample(p) \/ EndCoherentChanges(p)
  \/ AssertLiveliness(p) \/ TakeSamples(p) \/ Configure(p) \/ Poll(p) \/ Pass(p)
  \/ Guard(p) \/ Fail(p)

BusStep ==
  \/ \E x \in Links : FindParticipant(x[1], x[2]) \/ LoseParticipant(x[1], x[2])
  \/ \E x \in Links, k \in Kinds : NoteEndpoint(x[1], x[2], k)
  \/ \E x \in Pairs : ReaderReady(x[1], x[2]) \/ Receive(x[1], x[2]) \/ LoseSample(x[1], x[2])
  \/ \E r \in Readers : OnDataAvailable(r) \/ LastTake(r)

Next ==
  \/ \E p \in Procs : Start(p) \/ ProgramStep(p) \/ CallFails(p)
  \/ BusStep
  \/ Tick
  \/ Done

\* Processes are scheduled, timers expire and the network delivers.
Spec == Init /\ [][Next]_vars /\ WF_vars(Next)

-------------------------------------------------------------------------------
\* Properties.

\* The shape of the state: matches are between endpoints of one topic, a match,
\* a queue or a cached sample belongs to an endpoint of the scenario.
TypeOK ==
  /\ \A p \in Procs : /\ pc[p] \in 1..(Len(Code(p)) + 1)
                      /\ state[p] \in {"idle", "running", "ok", "failed"}
                      /\ left[p] >= 0
                      /\ part[p] \in {"none", "up", "left", "dead"}
                      /\ peers[p] \subseteq Procs
                      /\ \A e \in known[p] : Owner(e) # p
  /\ faults \subseteq Procs \cup {"network"}
  /\ live \cup ever \subseteq DOMAIN Ends
  /\ \A e \in DOMAIN Ends : \A f \in matched[e] : Compatible(e, f)
  /\ \A w \in Writers : ready[w] # {} => w \in ever
  /\ listens \cup calls \cup closing \subseteq Readers
  /\ armed \subseteq Procs
  /\ \A e \in DOMAIN heard : heard[e] \in 0..Ends[e].lease

\* No correct run fails: whatever the order of discovery, delivery, callbacks
\* and timers, a program of a Robust scenario reports FAIL only if a call of
\* one of them failed.
NoFalseFailure ==
  scenario.name \in Robust /\ AllOver /\ (\E p \in Procs : state[p] = "failed") =>
    faults \cap Procs # {}

\* A program of a Drains scenario that leaves the domain, and does not because
\* it failed, leaves no sample it wrote on its way to a reader it was matched
\* with: that is what the drain loops, and shape's wait_for_acknowledgments,
\* are there for.
NothingStranded ==
  scenario.name \in Drains =>
    \A x \in Pairs : LET p == Owner(x[1]) IN
      part[p] = "left" /\ state[p] \in {"running", "ok"} /\ ~Ignored(Owner(x[2]), x[1])
        => queue[x] = <<>>

\* Once a program has armed its allocation guard, which aborts it on the next
\* allocation, none of its endpoints gets a new match (a match allocates).
ArmedQuiet ==
  [][\A e \in DOMAIN Ends : Owner(e) \in armed \cap armed' => matched[e]' \subseteq matched[e]]_vars

\* The session of delete-contained-entities: once it has begun to delete, a
\* match of one of its endpoints changes in its own deletions only (the
\* callbacks fail the program otherwise).
TornDownQuiet ==
  [][\A p \in Procs : Running(p) /\ Holds(Said(p, "deleting")) =>
       \A e \in DOMAIN Ends : Owner(e) = p /\ matched[e]' # matched[e] => pc[p]' # pc[p]]_vars

\* Every program ends: no polling loop, no deletion waiting for a listener and
\* no pair of programs waiting for each other goes on for ever.
Terminates == <>AllOver
===============================================================================
