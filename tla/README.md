# A TLA+ verification of zzdds

zzdds is a DDS implementation in Zig: DCPS entities on top of the RTPS protocol,
discovery (SPDP, SEDP, a static variant, writer liveliness), UDP, TCP and
in-memory transports, and a shared runtime that runs the turns of all of them.
Paths below that do not start with `src/` or with a directory of the repository's
root are relative to `src/src/`; the C ABI, the C++ binding (`include/zzdds_cpp.hpp`),
the Java natives (`java_runtime/`) and the programs of `integration-tests/` and
`examples/` are built on top of it.

This project models the parts whose correctness depends on order: the reliable
RTPS protocol between a writer and its readers, the runtime that schedules turns
and timers, the backend in which its threads sleep, the GROUP coherent sets that
a subscriber puts together from its readers' parts, the wait sets and what the
language bindings keep beside them, and the programs that come with the
repository, running against each other on the middleware as its API shows it.
TLC checks the models on small instances; TLAPS proves the most important safety
properties for instances of any size: of the protocol, which is also shown to
implement a specification of a reliable topic that has no messages in it, of the
runtime, of its backend, of the wait sets and of the Java natives.

## 1. Inventory

| Part | State | Operations | Hard because |
|---|---|---|---|
| `rtps/writer_sm.zig` StatefulWriter | cache, `last_flushed_sn`, `trimmed_through`, a ReaderProxy per reader (acknowledged base, start SN, `suppress_live_data`, readiness, counts) | write, match, unmatch, HEARTBEAT timer, ACKNACK, replay, end markers, probes | messages lost, duplicated, late, across a rematch; sends with the lock released; trimming against lagging readers |
| `rtps/reader_sm.zig` StatefulReader | a WriterProxy per writer (received set, pending changes, history floor, counts) | DATA, GAP, HEARTBEAT, match, unmatch, ACKNACK, wait for history | same, and delivery in order with holes |
| `rtps/history.zig`, `rtps/received_set.zig` | changes by SN; sorted ranges of SNs | add, evict, remove; insert, cumulative ACK, count | off by one at range ends, KEEP_LAST holes |
| `rtps/reassembly.zig`, `rtps/unmatched_cache.zig` | partial fragments; data of writers not matched yet | insert, evict, claim | bounds and eviction |
| `runtime/core.zig` Runtime, Context, Request, Timer | ready queue, `busy`, `waiting`, owners, state; per context execution state, queue, credit, `firing`; timer heap | submit, submitInternal, wake, drive, help, serve, arm, cancel, fire, close, retire, stop | lock-free counters beside two levels of locks, deletion at any time, nested turns |
| `runtime/poll_backend.zig`, `io_backend.zig` | wake sequence, `polling`, `waiters`, wake descriptor, sources and their flags | wake, prepareWait, wait, service, register, arm, pause, resume, unregister | lost wake-ups, hand-over of the one poll, stale readiness |
| `runtime/default_registry.zig`, `hosted.zig` | current and retired generations, leases | acquire, release, reap | reclaiming a runtime its own thread still runs in |
| `dcps/listener_lane.zig`, `util/listener_*.zig` | groups, identities, pending invocations | post, run, replace, close, await | callback exclusion, re-entrance, deletion from the callback |
| `dcps/waitset.zig`, `util/entity_quiesce.zig` | attached conditions, wake-up lists, a `notified` flag, reference counts | attach, detach, trigger, wait, destroy | lost triggers, deletion under a waiter, two lists with a lock each and teardown from either end |
| `include/zzdds_cpp.hpp` WaitSetSupport, GuardConditionSupport; the same in `java_runtime/` | a keep-alive context per attachment, released by the core | attach, detach, drop the last handle | a release may destroy a condition in the middle of a teardown; who releases a refused context |
| `java_runtime/zzdds_java_runtime.c` | cached classes and constructors, type-support contexts | natives, register, callbacks of the core | first calls racing; a type support replaced while readers use it; a registration failing half way |
| `integration-tests/`, `examples/` | each program's own: what it has seen, how long it waits | the calls of its `main`, its listeners | discovery, matching and delivery in any order; a peer that leaves, fails or dies; fixed timeouts |
| `dcps/participant.zig`, `reader.zig`, `writer.zig`, `publisher.zig`, `subscriber.zig`, `topic.zig`, `factory.zig` | entities and containment; instances, samples, loans, statuses | create, delete, read, take, write, match callbacks | entity deleted under a callback (`util/entity_quiesce.zig`), limits, coherent access |
| GROUP coherent sets: `dcps/publisher.zig` vtEndCoherent, `reader.zig` trackCoherentLocked, `subscriber.zig` beginGroupCoherentAccessLocked | group sequence numbers; per writer the next SN, `done_through`, `complete_from` and the set in progress; queued parts; `group_sets_done` | end a set, track a change, match, unmatch, begin_access | a set is spread over readers looked at one after the other; gaps, late matches, writers without a part |
| `dcps/qos_match.zig`, `qos_change.zig`, `filter.zig` | none | predicates | many cases |
| `discovery/*.zig` | known participants and leases, endpoints, liveliness | announce, receive, expire, probe | leases racing announcements, unmatch and rematch |
| `transport/*.zig` | sockets, connections, channels with generations, ingress budget | send, receive, connect, pause for room | back-pressure, stale channels |
| codec, the rest of the C ABI, configuration, resources, type support, security, tracing | none that is shared | conversions | not a matter of order |

How they interact. The participant owns a context of the runtime per entity
group; received datagrams, timers and discovery events become requests that run
as *turns* on it, one at a time. A turn calls the RTPS state machines, which send
through a transport and call back into the DCPS entities; listener callbacks run
in contexts of a separate lane, so that a thread blocked in the library can help
with protocol turns only. Transports register their handles as sources of the
backend, which every idle thread of the runtime sleeps in. Entity deletion closes
a context and frees it once the last turn, timer fire and callback is gone.

The bindings wrap these entities: an application's condition may be owned by a
wait set alone, and a type support by the participant alone, so the core decides
when the binding's memory goes. The programs see the result: two or three
processes, started by a harness that waits for marker lines, discover each other,
exchange samples and check what they were told.

What makes each part correct: the protocol delivers, in order and once, all that
the QoS promises, and forgets nothing somebody still needs; the runtime never
leaves work without an executor, never gives a context two, and never touches
freed memory; the backend never lets everybody sleep over something to do; a
teardown, from whichever side it starts, releases everything once and leaves
nobody waiting; a group set is seen whole or not at all; and a program's verdict
does not depend on timing.
The list of concrete hazards, each with its line and the properties aimed at it,
is in `PROJECT.json` (`hazards`).

## 2. Modules

| Module | Models | Used by |
|---|---|---|
| `ReceivedSet` | `rtps/received_set.zig` | `MCParts`, `ReceivedSet_proofs`; justifies the set of SNs in `RtpsReliable` |
| `RtpsReliable` | writer, readers, cache, network | `RtpsLive`, `RtpsReliable_proofs` |
| `RtpsLive` | the same with fairness | run `live_replay` |
| `LeastElement` | that a nonempty set of naturals has a least element | `RtpsReliable_proofs` |
| `ReliableTopic` | what a reliable writer promises, abstractly | `RtpsReliable!ImplementsTopic` |
| `RtpsTopic_proofs` | that `RtpsReliable` implements it; its properties of the history | |
| `Runtime`, `MCRuntime` | `runtime/core.zig`, `runtime/close_latch.zig` | runs `rt_*`, `Runtime_proofs` |
| `PollBackend` | `runtime/poll_backend.zig`, `runtime/io_backend.zig`, `runtime/backend.zig` and the loops of `core.zig` around them | runs `poll_*`, `PollBackend_proofs` |
| `Callers` | the threads that call the bindings, and the value that stands for nothing | the next two |
| `WaitSets` | `dcps/waitset.zig`, `util/entity_quiesce.zig`, the attachments of the C++ and the Java binding | `MCParts`, `WaitSets_proofs` |
| `JavaRuntime` | `java_runtime/zzdds_java_runtime.c`, with `c_abi/typesupport.zig` and `registerTypeSupport` of `dcps/participant.zig` | `MCParts`, run `java_register`, `JavaRuntime_proofs` |
| `GroupSets` | the GROUP coherent sets of a publisher, its readers and a subscriber | `MCParts`, run `group_gap` |
| `MCParts` | `ReceivedSet`, `WaitSets`, `JavaRuntime` and `GroupSets`, one in each behaviour (they share no state) | run `parts` |
| `ProgramSteps` | the vocabulary programs are written in: endpoints, conditions, steps | the next three |
| `IntegrationPrograms` | the programs of `integration-tests/c` | `MCPrograms` |
| `ExamplePrograms` | the programs of `examples/c` | `MCPrograms` |
| `CppPrograms` | their C++ ports, and the cross-language pairs | `MCPrograms` |
| `DdsBus` | what a step means: the middleware between processes | `MCPrograms` |
| `MCPrograms` | puts the scenarios together | run `programs` |

### ReceivedSet

The list of ranges is a sequence of records, `Insert(sn)` is `insert()` for any SN
a message may carry (0 and negative ones too), and the queries are the functions
of the same name. The history variable `inserted` is what the list must stand for.

### RtpsReliable

One writer, any set of readers, best-effort and reliable, local and remote,
replayed or not. One action per handler: `Write`, `SendHeartbeat`,
`AddMatchedReader`, `RemoveMatchedReader`, `HandleAckNack` on the writer's side,
`AddMatchedWriter`, `RemoveMatchedWriter`, `HandleData`, `HandleGap`,
`HandleHeartbeat` on the reader's. The handlers run under the endpoint's mutex.
Where the code releases it to send (`sendChangeToAllLocked`, for the DATA and the
HEARTBEATs of a write), what is sent was copied and the state was changed before, so
the send is part of the step: sending late is what the network may do anyway. Only
`last_flushed_sn` is raised after it, to the SN just written.

The network is a set of messages none of which ever leaves it, which is loss,
duplication, delay and reordering at once. With `Live`, a message is received at
most once and the network holds at most `Cap` messages, older ones being lost, so
that the state space is finite while heartbeats go on for ever and the counts
wrap, compared modulo `2 * MaxCount` as the code compares them modulo 2^32.

Abstractions: payloads are SNs with an instance; a message is addressed to one
reader; heartbeat counts are kept per reader (a reader compares only the counts it
gets); the received set is a set; a change that arrived before its writer matched
(`unmatched_cache.zig`) is one that arrives right after. Not part of it: fragments,
coherent sets, held readers, connection generations, probes, failing allocations.

History variables: `evicted` (dropped by KEEP_LAST), `given` (ever delivered to a
reader), `passed` (ever delivered or given up).

### ReliableTopic

The promise without the protocol: changes are written, some are *gone* from the
history, and each reader goes through them in order from a first one it is owed.
`Advance` is the only way on: every change on the way is handed over once, unless it
is gone, of before the match, or was handed over in an earlier match. `RtpsReliable`
maps `gone` to `evicted`, `from` to the start SN of the reader's proxy on the
writer's side, `through` to the cumulative acknowledgement (what the reader holds
back is not through yet), `handed` to the count of calls in the match and `ever`
to `given`. Heartbeats, requests, GAPs, trimming and buffering are stutters.

### Runtime

A thread is a stack of frames, each naming the next step of a call, so calls nest
as in the code: a turn may submit, drive, help, delete or arm. One step is one
atomic operation or one critical section; a section under a context's gate that
takes the runtime's gate inside is one step. Sleeping is left out (that is
`PollBackend`); the clock may have reached any deadline. The timer heap is the set of
armed timers, as any of them may be the next to fall due. The ready list is linked
through the contexts, so a context is on it once (`Linked`) and leaves it from
wherever it is (`Unlinked`). `latch` follows the owner's deletion
of a context through `CloseLatch` to the moment its storage is freed.
`Context.close`, which the listener lane uses instead of `closeDiscarding`, is not
part of it. Deletion happens from outside the runtime, from the context's own turn,
or from a listener's turn, as the library does it.

### PollBackend

A waiter's life is `service`, run, `prepareWait`, recheck, `wait`; inside `wait` it
either claims the poll or sleeps in the futex. Only whether the wake sequence moved
since a waiter took its token matters, so `stale` has the waiters for which it did.
Sources carry registered, paused, kicked and armed flags as in `backend.zig`, and
input, room and a held frame as the transport has them; `HandleInput` is what a TCP
connection does with input that does not fit (it holds the frame and pauses).
An unregister under way is in `closing`, as several threads may close different
sources, and it ends when no service holds `service_mu`.
Deadlines are left out: no wait here is rescued by one.

### WaitSets

A wait set has its list of attached conditions under `mu`; a condition has its list
of wait sets to wake, under its own lock; both have the reference count of an
`EntityQuiesce`. One action is one critical section or one atomic step, and a thread
is a stack of frames, because a release hook, which runs with no lock held, may be
the last holder of a condition and destroy it in the middle of the teardown that
fired it. The two bindings differ in what keeps a condition: a `shared_ptr` copied
into the context (C++), a global reference (Java); a behaviour picks one at the start,
and whether the binding's own attach replaces the generated one. Attach may fail for
want of memory, or because the condition's list is full, and takes back what it did.

The application keeps to what the API asks: nothing is called on a wait set while it
is destroyed, a Java condition is not destroyed while a call on it other than detach is
being made, and a wait set has one waiter. Under that assumption an attach never meets
a wait set that is closed or a condition that is retired; the code tests for both, and
`AttachRetired` has the branches so that the model says what the code does.

### JavaRuntime

`zzdds_java_get_or_cache_class` step by step, under its mutex, for the two caches a
native has, one to check its argument and one to box its result: `asZzddsDataWriter`
stands for the natives that use both, `registerTypeSupport` for those that only check;
and the life of a type-support context: allocated by the native,
handed to the core with an adapter, installed, refreshed in every active reader,
swapped for the old one, which is then released. Allocations and lookups may fail.
Readers of the type are created, deleted, receive, are queried and match meanwhile.
The field getter's own unlocked caches of `Long` and `Double` are not in the model.
The participant's mutex, a reader's and the cache's are locks a call holds over
several steps. The application deletes a participant when its readers are gone and no
call is being made, registers nothing afterwards, and makes no query on a reader while
deleting it.

### GroupSets

A publisher with its writers, and a subscriber whose readers each have the writers of
one topic. `EndCoherent` cuts a set: the samples get their group id, and every writer,
one without a sample too, gets an end marker. `Deliver` is `trackCoherentLocked`, by
kind of change: a sample of the set in progress, one of a new set, one outside any set,
a marker. `begin_access` takes one step per reader, because it holds only that reader's
lock: `ScanOldest`, `Judge`, `Take`, and `Prune`; deliveries, matches and unmatches
fall in between. Whether a writer has been idle past `coherent_idle_gate_ns` is a free
choice at each verdict. `Losable` says which changes may go missing: with reliable
readers the samples a writer has dropped, with BEST_EFFORT ones the markers too.

The history variables hold what each set was made of (`sets`), which sets each writer
has sent in the present match (`due`), and what was exposed (`shown`).

### Programs and DdsBus

A program is a sequence of steps: a call that changes something others see, a polling
loop with its timeout, a sleep, a check, or a marker line. Timeouts, delays and lease
durations are those of the code; numbers of samples are scaled down to one or two
except where they are a duration. Calls that only touch the caller's own memory have no
step. A scenario is the processes of one test or example, their endpoints and what
the harness waits for before it starts each.

`DdsBus` is the middleware between them as the API shows it, not how it does it: a
participant is found and its endpoints are announced per kind, in any order; each side
matches for itself; a writer learns that a reader is ready; samples travel in order per
pair of endpoints and no order is kept between pairs; a reader takes from its cache or
its listener does, on another thread; history, KEEP_LAST, sample limits, content
filters, coherent groups, ignore lists, deferred enabling, liveliness leases and the
participant's lease behave as the programs use them. Deletion waits for a listener that
is running. A C `main` that fails returns and leaves its participant to the others'
leases; a C++ one unwinds and leaves the domain. In a *faulty* scenario one call may
fail, or one best-effort datagram be lost.

What the middleware does inside itself to get there is collapsed: a discovered endpoint
is noted, matched and reported in one step, although the code decides under the
participant's lock and installs the match after it, checked against a generation; a
lost participant is swept from every reader and writer in one step, with the callbacks
that the code defers; allocations do not fail there; and `begin_access` exposes the
oldest group set, by its id, when every reader that has a writer has its part, which is
what `GroupSets` comes to when nothing is lost and nobody is late.

Time is counted in half seconds. What is under way happens within `Latency` ticks, and
otherwise time passes only when every process waits.

## 3. Runs

| Run | Checks | Bounds, and why they are enough |
|---|---|---|
| `rtps_replay` | `DeliveredOnceInOrder`, `HistoryAccounted`, `HistoryWaitSound`, `ImplementsTopic` | three changes over two instances with KEEP_LAST 1, so that holes appear in the middle of the cache; a NACK window of 2, smaller than the history; the reader matches twice |
| `rtps_rematch` | `TypeOK`, `OwedIsKept`, `LossIsReal`, `AckedIsPassed`, `NeverBackwards` | the writer matches each reader twice, messages of the first match staying around in the second; a best-effort reader beside a local reliable one |
| `live_replay` | `EventuallyAcked`, `EventuallyReady` | two changes of one or two instances with KEEP_LAST 1, so that a request can meet a hole; one message in flight at a time; counts that wrap at 4 |
| `rt_hosted` | `NeverStranded`, `RequestsAccounted`, `WakeNotLost`, `FreedUntouched` | two workers, a client, two requests (one more than the context admits), a timer, three stimuli (enough to submit, wait and wake, or to arm, cancel and re-arm), and a deletion at any time |
| `rt_manual` | `NeverStranded`, `FreedUntouched` | two threads that drive and help, turns nested two deep, two contexts of different lanes |
| `poll_sources` | `SleepersHavePoller`, `UnregisteredUntouched`, `InputIsRead`, `OutputIsTaken`, `WorkRuns` | a driver and a helper, so that the poll changes hands; one source; five events |
| `programs` | `NoFalseFailure`, `NothingStranded`, `ArmedQuiet`, `TornDownQuiet`, `Terminates` | thirty-three scenarios of two or three processes; `Latency` one tick (a half second, so that events overtake each other and the shortest sleeps of the programs), leases of 10 s and announcements every 3 s as configured by default |
| `parts` | `FreedUntouched`, `ReleasedOnce`, `AttachedIsKept`, `Reclaimed`, `SleeperOwedNothing`, `HolderRuns`; `ActiveReadersLive`, `RegistrationsReclaimed`, `ClassCacheWhole`; `Coalesced`, `ContentExact`, `QueriesExact`; `GroupAtomic` | two threads, two wait sets and two conditions of which one is gone from the start (`Bygone`: a wait set with two conditions, or a condition in two wait sets), two contexts, one wake-up slot, so that an attach finds the list full; three registrations, so that one replaces one that replaced one; SNs up to 6: every way to join no, one or two ranges among up to three; two readers with a writer each, two sets of at most one sample per writer and one sample outside, which is enough for a part to be missing before, in and after a set, and for a set to overtake another |
| `rt_fire` | violates `FireIsRun` | finding 1 |
| `java_register` | violates `ContextReleasedOnce` | finding 2 |
| `poll_helpers` | violates `PolledWhileWaiting` | finding 3 |
| `group_gap` | violates `GroupAtomic` | finding 4: as in `parts`, with markers that are lost too |

The type invariant of each module states the shape of its state. Those of
`ReceivedSet`, `RtpsReliable`, `PollBackend` and `JavaRuntime` are proved; the others
hold in the same runs, and their configurations leave them out because they say
little about the code.
Deadlock checking is off where the system may stop: the bounds use up the events, and
a runtime nobody submits to rests. Every property has a mutant (`PROJECT.json`),
an operator marked *Fault* or *mutant* in its module, under which the same run finds it
violated.

Symmetry (`MCRuntime!Symmetry`) permutes workers, clients and plain requests, which
no definition tells apart, and `MCParts!Symmetry` threads and contexts; it is used in
runs of invariants only.

Fairness. `RtpsLive`: the heartbeat timer re-arms itself while a reliable reader is
matched (weak fairness); discovery completes on both sides (weak); and a kind of
message that would be accepted and is sent for ever arrives sometimes (strong
fairness per kind), which is what a lossy network that still works does. Writing is
not fair. `PollBackend`: a thread that is under way takes its next step (weak
fairness of each thread); no fairness for clients, sockets or deadlines.
`DdsBus`: weak fairness of the next-state relation as a whole: processes are scheduled,
timers run out and the network delivers; `Terminates` needs no more, because every step
of a program and every tick brings its end nearer. `Runtime`, `WaitSets`, `JavaRuntime`
and `GroupSets` are checked for safety only.

What the passing runs show: messages of an earlier match never make a reader
skip, repeat or reorder a change, nor the writer drop one that is owed, even
though staleness tests are skipped while live data is suppressed; the periodic
HEARTBEAT alone recovers from any loss, the loss of the readiness handshake
included; `busy`, taken before the state is read, and `firing`, taken before the
gate is released, are enough to keep a context until the last one that uses it;
the poll hand-over always wakes somebody who can take the poll over, and with one
helper beside the driver (`poll_sources`) no input stays unread; with two it may, for a
while (finding 3). A wait set and its conditions
can be torn down from either end, or from a release hook, without a lock around both;
a re-registration never leaves an active reader with the old context. As long as
readers get the end markers, no group set is exposed with a part missing, however
matches, unmatches, losses and deliveries fall between the readers' turns in
begin_access. The programs
outside the list below end with the verdict they should, whatever the order of
discovery, delivery and callbacks.

`NoFalseFailure` speaks of the scenarios in `Robust`, `NothingStranded` of those in
`Drains` (the same, and the historical ones). The others are explored too, and left out
because their verdict does depend on timing:

- `rejected`: the sample that says "all written" travels on another topic and may
  overtake the samples it speaks of;
- `contained`: the session deletes its writers as soon as it has received what it waits
  for, and its last samples may not have reached the peer, which then times out;
- `liveliness`: how often a lease runs out depends on the pace of the programs;
- `rawloan`: `main` may delete the reader before the callback's last `take_raw`;
- `byhand`, `hello_world` started by hand rather than by the smoke test: the listener
  is live before `main` has stored the typed reader it uses;
- `historical`, `crossHistorical`: nothing keeps the subscriber from matching before the
  publisher looks, and the publisher then prints FAIL and returns 1
  (`wait-for-historical-data/src/publisher.c:146-159`; the comment there says so);
- `cppHistorical`: the same, and a subscriber that came too early fails and leaves, and the
  publisher, which looks at the current number of matches, no longer sees that.

### Findings

1. *A timer fire can be lost* (`rt_fire`). Between `timerRun`'s last look at
   `fire_pending` and the end of `runTurn`, a fire finds its request busy and nobody
   looks again.
2. *A refused registration releases its context twice* (`java_register`).
   `registerTypeSupport` consumes the support on every outcome; the Java native takes a
   failure to mean that nobody did, and releases it again.
3. *The poll can be handed to nobody* (`poll_helpers`). A poller that stops wakes one
   futex waiter. With two helpers beside a driver that one may be a helper whose own
   wait is over: it leaves without waiting again and wakes nobody, and the driver sleeps
   on without a poller until a deadline or another wake. That no proof of "somebody
   polls while somebody sleeps" went through is how it was found; what does hold, and is
   proved, is that a sleeper whose token is current has a poller or a hand-over ahead.
4. *A group set can be exposed without a part* (`group_gap`). A gap while a writer's set
   is in progress spoils that set only; `complete_from` is not raised. With BEST_EFFORT
   readers the gap may hold the end of that set and the whole part of the next, which
   begin_access then exposes to the other readers.

Other things met while modelling, which contradict no statement of the repository or
only one about the intended design:

- A change held back by `suppress_live_data` is sent all the same when the reader asks
  for it (`writer_sm.zig:2326`): the periodic HEARTBEAT is not capped at the history
  floor, so a reader can NACK live changes before it has the history. The liveness run
  needs that uncapped HEARTBEAT: with it capped (mutant `PeriodicLastCapped`) a reader
  can wait for ever.
- `tryStop` reads `busy` and `waiting` before it takes the gate (`core.zig:495-499`): a
  claim in between is missed, and the runtime says BACKEND_STOPPED with a turn to run.
  The turn still runs, which is why `NeverStranded` holds.
- `resumeInput` between a thread's `service` and its `prepareWait`
  (`poll_backend.zig:345`) leaves a kicked source that the recheck does not see; the
  next wake serves it.
- A condition that is true already when it is attached does not wake a wait in progress
  (`waitset.zig:596`), which `docs/design/concurrency/operations.md:656` asks for.
- `prematchFor` copies a key-hash context under the participant's lock and calls it
  after the unlock (`participant.zig:3303`), and a dispatch that pinned a reader before
  its deletion may filter with a getter that is no longer refreshed
  (`participant.zig:2251`): a re-registration in between releases what they use.
- The field getter publishes `long_cls` before `long_value_mid`, without a lock
  (`zzdds_java_runtime.c:653-656`): a second thread may find the class and call with a
  method ID that is still NULL. The comment calls the race benign because the look-ups
  are idempotent.
- If a Java native cannot find the class of its result, the native object it has created
  already stays (`zzdds_java_runtime.c:251-256`).

## 4. Theorems

`ReceivedSet_proofs` (for every `MaxSN`): `TypeCorrect`, `StaysCoalesced`,
`StaysExact`, `QueriesStayExact`. The invariant is `ReceivedTypeOK`, `Coalesced` and
`Content(ranges) = inserted`; the lemmas give the shape of the list after an insertion
(`InsertAtShape`), that it stays sorted and apart (`InsertAtSorted`, `InsertAtApart`) and
what it contains (`InsertAtContent`), by whether the new SN joins its neighbours. The
queries follow from the invariant alone. The hard one is `CountBetween`, a sum over the
list: the number of SNs of the interval in the first `i` ranges (`Within`) obeys the same
recursion, since sorted ranges are disjoint (`WithinGrows`), and two functions that obey it
differ nowhere, for there is no least place where they would (`CountBetweenExact`, with
`LeastElement`).

`RtpsReliable_proofs` (for every set of readers and instances, every depth, window,
bound and QoS): `TypeCorrect`, `AcknowledgedIsPassed`, `OwedStaysKept`,
`LossStaysReal`, `DeliveryInOrder`. None of these is inductive. The invariant `IInv`
adds what ties the two sides together:

- `WriterAccounts`: every SN below `next_sn` is in the cache, evicted or trimmed;
- `TrimmedIsPassed`: what was trimmed, every matched reliable reader has passed or
  was never owed;
- `NetSound`: each message in flight is true whenever it arrives. An ACKNACK
  acknowledges only what its reader has passed; a HEARTBEAT's first SN and a GAP's
  range leave out only what is evicted, passed, or before the reader's start;
- `PassedAccounted`, `PassedCovers`, `ProxiesInOrder`: what a reader's proxy has
  received is what it delivered, gave up or holds back, in order.

That messages stay true for ever is what makes duplicates and stragglers of an
earlier match harmless: what they say about the past is only said of sets that
grow (`evicted`, `passed`). The proof has a lemma per action (`WriteInv`,
`SendHeartbeatInv`, `HandleAckNackInv`, ...), which all reduce to `WriterStep` or
`ReaderStep` and to the soundness of the messages sent (`HeartbeatSound`,
`AckNackSound`).

`RtpsTopic_proofs`: `ProtocolImplementsTopic`, that `RtpsReliable!Spec` implies
`ReliableTopic!Spec` under the mapping above, for every value of the constants. On top
of `IInv` it needs `NothingInvented` (nothing that was never written is evicted,
passed, received or in flight) and `GivenCovers` (what a match has handed over is on
record). `LossIsReal`'s invariant says why what a reader passes over is not owed to it,
`DeliveredOnceInOrder`'s that the calls of a step are exactly what it moves through;
each of the reader's handlers is shown to be an `Advance` or a stutter, each of the
writer's a `Write`, a `Match` or a stutter, and a match or unmatch on the reader's side
a `Restart`.

`RtpsTopic_proofs` also has `DeliveryNeverBackwards`, which follows from the same step
lemmas, `HistoryIsAccounted`, which counts what is held back between the cumulative
acknowledgement and the floor, and
`HistoryWaitIsSound`: a wait for historical data that returns has delivered, or given
up as gone, all that was written when the writer matched. Its invariant `HInv` follows
the floor: the writer's floor is the last change written when it matched
(`FloorsWritten`, `LastIsKnown`), no HEARTBEAT that sets a reader's floor announces less
(`FloorsAnnounced`), and a reader that waits for nothing has a floor no lower than the
writer's (`FloorsAwaited`). It is stated for behaviours in which the writer matches each
reader once (`FirstMatches`); the reader may match as often as it likes. In a second
match of the writer a HEARTBEAT of the first can set the floor, and a wait then returns
for the history of the first match, which is all the code remembers.

`Runtime_proofs` (any threads, contexts, requests and timers, any nesting):
`ContextsNeverStranded`, `WakesAreNotLost`, `RequestsAreAccounted`,
`FreedContextsAreUntouched`, `RuntimeTypeCorrect`. What makes these hard is that the facts are spread over the stacks: who runs a context, who holds a claim on
it, which wake is half way. Sets of frames name the holders, `Held` and `Once` say that
some, or at most one, frame of the set is on a stack, and lemmas for the ways a stack
moves (call, return, goto) say what becomes of every such fact. `RInv` says

- `ContextSound`: a context that is running has exactly one turn, one that is scheduled
  is on the ready list or in one claim, exactly once, and one that is idle has neither,
  and no request to run;
- `QueueSound`, `RequestSound`: a request is in its context's queue exactly when it is
  ready, once, and is run by one turn exactly when it is running;
- `WakesSound`: a wake under way was made for a generation no later than the request's;
  one for the present generation is kept in `wake` if it comes before the request waits;
- `Counted`: `pending` and `waiting` of a context, and `waiting` of the runtime, are the
  cardinalities of what they count.

That a freed context is not touched needs how many frames of a kind there are, not only
whether there is one: `firing` and `busy` are decremented by each, and a deletion is over
when the last one is gone. `Count(S)` is the number of places of the stacks with a frame of
`S`, a place being counted from the bottom of its stack, so that a step changes only those
of its own frames (`Recount`: what it takes off and what it puts on). On top of `RInv`,
`LInv` says

- `LatchSound`: at most one deletion of a context is on the stacks, and its step, the
  latch, the life of the context and whether its close hook is on the way agree in one of
  the ways `Phase` lists. The case that matters is a deletion made from inside a turn of
  the context: it leaves the freeing to the hook (`rest`) or waits for it, and only one of
  the two will free;
- `Deletion`: a closed context is idle, with nothing queued, waiting or firing, and
  `firing` is the number of timer fires under way for it, so that it cannot close under one;
- `ArmedSound`: a timer is armed only until the deletion of its context has cancelled it;
- `Within`: what is queued from inside, and a deletion that leaves the rest to the hook,
  is above a turn of its context, which therefore is running and does not close;
- `Finite`, and that `busy` is the number of the frames it stands for.

The steps that deserve an argument are those that may close a context (the end of a turn,
of a fire, and the closing itself), where the hook is pushed exactly as the life becomes
closed, and the discarding of a queue at the close. `RuntimeTypeCorrect` needs both
invariants, since no counter goes below zero only because each counts something, and
`InLimit`: no context holds more credits than `PendingLimit`, for those queued from inside
take none.

`PollBackend_proofs` (any drivers, helpers, clients, sources): `PollTypeCorrect`,
`PollIsHandedOver`, `UnregisterIsSafe`. The invariant `PInv`: `polling` says whether a
thread is in the poll, and never two are; `waiters` counts those inside `wait`; a futex
waiter whose token is current has a poller, or one on its way to hand over; `service_mu`
is held by the thread that services, over the calls its handlers make; and what a service
still has to handle is of registered sources, or of one whose unregister waits for it.

`WaitSets_proofs` (any threads, wait sets, conditions, contexts and wakeup slots; either
binding): `WaitSetsFreedUntouched`, `WaitSetsReleasedOnce`, `WaitSetsAttachedIsKept`,
`WaitSetsReclaimed`, `WaitSetsSleeperOwedNothing`, `WaitSetsHolderRuns`, all from one
invariant, `Inv` (`WaitSetsInvariant`). No lock is held over both sides of an attachment,
so between two steps they disagree; `Inv` says how, by the frames that are on the way:

- `CountedC`, `CountedW`: the references to a condition are its owner's and one for each
  attachment, from the moment attach has acquired to the moment a release gives back;
  those to a wait set its owner's and one for each condition that has pinned it.
  `FreeSound`: what has no reference left is freed, or its teardown is on a stack;
- `ListedFrom`, `ListedTo`: the wait sets on a condition's list and the entries of the
  wait sets agree, but for an attach that has not registered yet, a detach that has
  unregistered, a wait set that is being freed and a condition that has taken its list
  and goes through it;
- `OwnSound`, `ReleaseSound`, `HookSound`: a live context has one owner, an entry or a
  frame, and one frame at most is about to release an attachment;
- `UseSound`, `TearSound`: what a call uses is still held, by the application or a
  context, and each object has one destructor; with the C++ binding a condition is being
  destroyed exactly when nothing holds it any more;
- `Mutex`, `AddingSound`, `ScanSound`: what holds while a thread is inside a wait set's
  lock; `OwedSound`, `OneWaiter`: a trigger that a wait has not seen is being notified,
  or the flag is set, or the wait has yet to clear it and look.

A step pops some frames from a stack and pushes others (`Swapped`). For each part there
is a lemma that it is kept when the popped and the pushed frames weigh the same in it
(`Even`, `Level`), so that an action's proof deals only with the parts it disturbs. The
hard ones are the steps that drop a context: each may end the last hold on a condition
and push its destructor on top of the call that was being made.

`JavaRuntime_proofs` (any threads, natives, readers, registrations): `JavaTypeCorrect`,
`ReadersStayLive`, `RegistrationsDoNotLeak`, `ClassCachesWhole`. `JInv`: a context that
was allocated and not released is the registry's or exactly one registration's
(`ContextsOwned`); the participant's mutex is held by the refresh and by a reception that
hashes (`ParticipantMu`); and what an active reader uses is the registry's context or,
once the refresh has been to it, the one being registered (`ReadersCurrent`).

Assumptions are those the modules name: subsets of `Readers`, a nonempty set of
instances, natural bounds; finitely many threads (`BackendAssumption`), requests
(`RuntimeAssumption`), wait sets and conditions (`WaitSetsAssumption`), which are counted;
and that the value for "none" is no thread, context, request, wait set or condition.

Only model-checked: liveness, which is out of the prover's reach; `GroupAtomic`; and what
`DdsBus` says of the programs (`NoFalseFailure`, `NothingStranded`, `ArmedQuiet`,
`TornDownQuiet`). The last are about the scenarios of the examples and tests, which are data:
for an arbitrary set of `Scenarios` they are false, since a program can be written that
fails, and for the ones the repository has a run covers each entirely.

## 5. Plan

1. `ListenerLane`: `listener_lane.zig`, `listener_identity.zig`: at most one
   invocation per identity, replacement and deletion end, no grant lost.
2. `WriterSend`: the sends with the lock released (`match_id`, `sending_sn`,
   `unsent_from_sn`, replay retries, connection generations), refining the writer of
   `RtpsReliable`; the cap on end markers; `waitAllAcked`.
3. `Ingress`: `ingress_budget.zig`, `channel_table.zig` and `queued_receive.zig`
   together: admissions accounted for, no waiter left queued that fits, no stale
   channel reaching a reused slot.
4. `Discovery`: SPDP leases, probes and rematch, SEDP endpoints, WLP liveliness,
   shown to give what `DdsBus` assumes (`qos_match.zig` as operators).
5. `RuntimeRegistry`: generations of the default runtime and their reclamation.

## 6. Not modelled

Byte-level encoding (`rtps/message`, `discovery/wire_codec.zig`), content filters,
configuration, resources, type support, tracing, the rest of the C ABI and the Java
natives that only convert arguments and call through have no shared state. Sockets, interface monitoring and TCP connection set-up are I/O. The
no-op security plugin and nil entities have no behaviour. Failing allocations,
clock adjustments and deadlines are left out of the modules above, save the failures
of `JavaRuntime`, `WaitSets` and the programs' calls; fragments, replay retries and
probes are left to the plan.

Of the coherent sets: several publishers, writers that send no group id (their sets are
paired by position), the INSTANCE and TOPIC scopes, sets that a late joiner gets from
history, and the failed allocations after which a writer's publisher is not known. Of
the backend: sources for output only, a descriptor that is not open, lists that cannot
be allocated.

Of the wait sets, read, query and status conditions are left out: no release protects
them. Of the examples: `shape`'s exit after ten seconds without a reader, its idle gate
for coherent sets, its options and its output; the preloaded allocation guard and the
static pool of `custom-allocator`, of which the model has when they are armed; the C++
ports of `sample-rejected-lost`, `ignore-entities`, `delete-contained-entities`,
`liveliness-lost`, `waitset`, `raw-loan`, `custom-allocator` and `shape`, and the OpenCV
example. Memory that belongs to one program alone, such as the locals of a C++ `main`
that a listener uses, is not part of the programs' model.

Liveness, `ENABLED` and RECURSIVE operators are out of TLAPS' reach, and so is an
induction whose hypothesis is an operator; where a proof needs one, it is an argument
about a least counterexample instead (`LeastElement`). The properties that need the
others are TLC's.
