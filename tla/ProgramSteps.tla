----------------------------- MODULE ProgramSteps -----------------------------
(***************************************************************************)
(* The vocabulary in which the C programs of the repository are written     *)
(* down: endpoints, the conditions a program polls, and its steps.          *)
(*                                                                         *)
(* A program is a sequence of steps.  A step is one call of the C API that  *)
(* changes something others see, one polling loop with its timeout, one     *)
(* sleep or one check.  Calls that only touch the caller's own memory (the  *)
(* factory, type support, topics, QoS records, buffers) have no step.       *)
(* Names of endpoints are the programs' own variable names, prefixed where  *)
(* two programs of a scenario share one.  DdsBus gives steps their meaning. *)
(***************************************************************************)
EXTENDS Naturals, Sequences

\* Time is counted in half seconds.
Seconds(n) == 2 * n

\* An endpoint of process p on a topic, RELIABLE and KEEP_ALL; a program that
\* asks for something else overrides a field:
\*   durable    TRANSIENT_LOCAL durability
\*   limit      RESOURCE_LIMITS.max_samples, 0 for none
\*   depth      KEEP_LAST depth, 0 for KEEP_ALL
\*   enabled    announced when created (autoenable_created_entities)
\*   group      PRESENTATION coherent_access with GROUP scope
\*   listening  a data listener is passed to create_datareader
\*   lease      LIVELINESS lease_duration in ticks, 0 for infinite
\*   manual     liveliness is asserted by the program only
\*   raw        the listener ends with one more take_raw, which a reader that
\*              is being deleted refuses
\*   lossy      BEST_EFFORT: a sample may be lost
Endpoint(p, kind, topic) ==
  [proc |-> p, kind |-> kind, topic |-> topic, durable |-> FALSE, limit |-> 0,
   depth |-> 0, enabled |-> TRUE, group |-> FALSE, listening |-> FALSE,
   lease |-> 0, manual |-> FALSE, raw |-> FALSE, lossy |-> FALSE]
WriterOf(p, topic) == Endpoint(p, "writer", topic)
ReaderOf(p, topic) == Endpoint(p, "reader", topic)
Listening(e)       == [e EXCEPT !.listening = TRUE]
Durable(e)         == [e EXCEPT !.durable = TRUE]
KeepLast(e, n)     == [e EXCEPT !.depth = n]
Deferred(e)        == [e EXCEPT !.enabled = FALSE]
Grouped(e)         == [e EXCEPT !.group = TRUE]
Leased(e, n, m)    == [e EXCEPT !.lease = n, !.manual = m]
TakingRaw(e)       == [e EXCEPT !.raw = TRUE]
BestEffort(e)      == [e EXCEPT !.lossy = TRUE]

\* Conditions.  A polling loop waits until a set of them holds.
Matched(e, n)      == [is |-> "matched", e |-> e, n |-> n]
Met(e)             == [is |-> "met", e |-> e]
Unmatched(e)       == [is |-> "unmatched", e |-> e]
Departed(e)        == [is |-> "departed", e |-> e]
Ready(e)           == [is |-> "ready", e |-> e]
Took(r, n)         == [is |-> "took", e |-> r, n |-> n]
TookExactly(r, s)  == [is |-> "tookExactly", e |-> r, s |-> s]
TookAtLeast(r, vs) == [is |-> "tookAtLeast", e |-> r, s |-> vs]
InTurn(r, a, b)    == [is |-> "inTurn", e |-> r, a |-> a, b |-> b]
SeesPeer(p)        == [is |-> "seesPeer", p |-> p]
SomeRejected(r)    == [is |-> "someRejected", e |-> r]
Conserved(r, n)    == [is |-> "conserved", e |-> r, n |-> n]
SomeLost(r)        == [is |-> "someLost", e |-> r]
Historical(r)      == [is |-> "historical", e |-> r]
Offline(e, n)      == [is |-> "offline", e |-> e, n |-> n]
NeverOffline(e)    == [is |-> "neverOffline", e |-> e]
Recovered(r)       == [is |-> "recovered", e |-> r]
Acked(w)           == [is |-> "acked", e |-> w]
Disabled(e)        == [is |-> "disabled", e |-> e]
Said(p, m)         == [is |-> "said", p |-> p, m |-> m]
Finished(p)        == [is |-> "finished", p |-> p]
Started(p)         == [is |-> "started", p |-> p]

\* Steps.
Join             == [do |-> "join"]
Leave            == [do |-> "leave"]
Create(e)        == [do |-> "create", e |-> e]
Enable(e)        == [do |-> "enable", e |-> e]
Delete(e)        == [do |-> "delete", e |-> e]
IgnoreTopic(t)   == [do |-> "ignoreTopic", x |-> t]
IgnorePeer       == [do |-> "ignorePeer"]
IgnoreMatch(e)   == [do |-> "ignoreMatch", e |-> e]
Write(w, v)      == [do |-> "write", e |-> w, v |-> v]
EndSet(ws)       == [do |-> "endSet", es |-> ws]
AssertAlive(w)   == [do |-> "assert", e |-> w]
Take(r)          == [do |-> "take", e |-> r]
Listen(r)        == [do |-> "listen", e |-> r]
Filter(r, vs)    == [do |-> "filter", e |-> r, s |-> vs]
Bind(r)          == [do |-> "bind", e |-> r]
Disarm           == [do |-> "disarm"]
Say(m)           == [do |-> "say", m |-> m]
Check(cs)        == [do |-> "check", cs |-> cs]
Sleep(n)         == [do |-> "sleep", n |-> n]
Await(cs, n)     == [do |-> "await", cs |-> cs, rs |-> {}, n |-> n]
Collect(rs, cs, n) == [do |-> "await", cs |-> cs, rs |-> rs, n |-> n]
Refuse(cs, n)    == [do |-> "refuse", cs |-> cs, n |-> n]
\* A loop that goes on when its time is up, and one that arms the allocation
\* guard if it sees what it waits for.
Try(rs, cs, n)   == [do |-> "try", cs |-> cs, rs |-> rs, n |-> n]
Arm(cs, n)       == [do |-> "arm", cs |-> cs, rs |-> {}, n |-> n]

\* Steps that wait for time to pass; steps that may take meanwhile.  A wait of
\* Rest ticks has what the program's watchdog has left.
Waiting == {"await", "refuse", "sleep", "try", "arm"}
Polling == {"await", "try", "arm"}
Rest    == 0

\* w writes the values from..to; the endpoints of es are created, deleted.
WriteAll(w, from, to) == [i \in 1..(to + 1 - from) |-> Write(w, from + i - 1)]
CreateAll(es) == [i \in DOMAIN es |-> Create(es[i])]
DeleteAll(es) == [i \in DOMAIN es |-> Delete(es[i])]
===============================================================================
