----------------------------- MODULE PollBackend -----------------------------
(* The progress backend (runtime/poll_backend.zig, runtime/io_backend.zig)   *)
(* and the loops that sleep in it (serveUntilStopped, drive and helpUntil of *)
(* runtime/core.zig): wakes, one poller among the waiters, the handing over  *)
(* of the poll, and the servicing of sources.                                *)
(*                                                                          *)
(* Grain.  One step is one atomic operation, one critical section or one    *)
(* system call.                                                             *)
(*                                                                          *)
(* Abstractions.  Only whether the wake sequence has moved since a waiter    *)
(* took its token matters: `stale' has the waiters for which it has (the     *)
(* sequence is a u32; 2^32 wakes between token and wait are left out).      *)
(* Deadlines are left out: no wait here ends because of one.  Ready turns   *)
(* are counted per lane; a turn does nothing.                               *)
EXTENDS Integers, FiniteSets

CONSTANTS
    Runners,      \* threads that run any turn: hosted workers, or the driver
    Helpers,      \* application threads that call helpUntil: internal turns only
    Clients,      \* application threads that do not
    Sources,
    Readiness,    \* PollBackend, or else IoBackend, which has no sources
    Budget,       \* inputs handled by one service call
    MaxEvents     \* bound: what clients and sockets do

Waiters == Runners \union Helpers
Threads == Waiters \union Clients
Lanes   == {"internal", "listener"}

ASSUME BackendAssumption ==
    /\ Runners \cap Helpers = {} /\ Waiters \cap Clients = {}
    /\ Readiness \in BOOLEAN /\ (~Readiness => Sources = {})
    /\ Budget \in Nat \ {0} /\ MaxEvents \in Nat
    /\ IsFiniteSet(Threads) /\ "nobody" \notin Threads

VARIABLES
    work,       \* ready turns of each lane
    src,        \* each source: registered, paused, kicked, armed, input, room, held
    stale,      \* the waiters whose token is older than the wake sequence
    polling,    \* a waiter is the poller
    waiters,    \* how many threads are inside wait
    signaled,   \* the wake descriptor is readable
    polled,     \* what the poller waits for, as <<source, event>> pairs
    serviceMu,  \* who holds service_mu
    revents,    \* of the service in progress: <<source, event>> pairs to handle
    served,     \* of the service in progress: inputs handled
    pc, ret,    \* each thread's next step, and where its call returns to
    closing,    \* the calls of unregister under way, as <<thread, source>>
    events      \* how many of MaxEvents are used

seqVars == <<stale, polling, waiters, signaled, polled>>
srvVars == <<serviceMu, revents, served>>
vars    == <<work, src, seqVars, srvVars, pc, ret, closing, events>>

Nobody == "nobody"

Goto(t, l)     == pc' = [pc EXCEPT ![t] = l] /\ UNCHANGED <<ret, closing>>
Jump(t, l, r)   == pc' = [pc EXCEPT ![t] = l] /\ ret' = [ret EXCEPT ![t] = r]
CallTo(t, l, r) == Jump(t, l, r) /\ UNCHANGED closing
Event          == events < MaxEvents /\ events' = events + 1

(* What is ready on the handles, and waitEvents: what to wait on s for. *)
Pending(s)    == (IF src[s].input > 0 THEN {"in"} ELSE {}) \union (IF src[s].room THEN {"out"} ELSE {})
WaitEvents(s) == (IF src[s].paused THEN {} ELSE {"in"}) \union (IF src[s].armed THEN {"out"} ELSE {})
Registered    == {s \in Sources : src[s].registered}
Watched       == {w \in Registered \X {"in", "out"} : w[2] \in WaitEvents(w[1])}

-----------------------------------------------------------------------------
(* Waking: wakeN. *)

(* The sequence moves. *)
WakeSeq(t) ==
    /\ pc[t] = "wakeSeq"
    /\ stale' = Waiters
    /\ Goto(t, "wakeFutex")
    /\ UNCHANGED <<work, src, polling, waiters, signaled, polled, srvVars, events>>

(* futexWake of one waiter, if any sleeps there. *)
WokenByFutex(t, next) ==
    LET asleep == {u \in Waiters : pc[u] = "futex"}
    IN  IF asleep = {} THEN Goto(t, next)
        ELSE \E u \in asleep : pc' = [pc EXCEPT ![t] = next, ![u] = "leave"] /\ UNCHANGED <<ret, closing>>

WakeFutex(t) ==
    /\ pc[t] = "wakeFutex"
    /\ WokenByFutex(t, "wakeSignal")
    /\ UNCHANGED <<work, src, seqVars, srvVars, events>>

WakeSignal(t) ==
    /\ pc[t] = "wakeSignal"
    /\ signaled' = (signaled \/ (Readiness /\ polling))
    /\ Goto(t, ret[t])
    /\ UNCHANGED <<work, src, stale, polling, waiters, polled, srvVars, events>>

-----------------------------------------------------------------------------
(* The loops.  Each services the sources, runs a turn if it can and         *)
(* otherwise waits; a turn that runs may leave nothing for the others.       *)

Mine(t) == IF t \in Runners THEN Lanes ELSE {"internal"}

Run(t) ==
    /\ pc[t] = "run"
    /\ \/ \E l \in Mine(t) : work[l] > 0 /\ work' = [work EXCEPT ![l] = @ - 1] /\ Goto(t, "service")
       \/ (\A l \in Mine(t) : work[l] = 0) /\ UNCHANGED work /\ Goto(t, "prepare")
    /\ UNCHANGED <<src, seqVars, srvVars, events>>

(* prepareWait takes the token; then the loop looks for work again. *)
PrepareWait(t) ==
    /\ pc[t] = "prepare"
    /\ stale' = stale \ {t}
    /\ Goto(t, "recheck")
    /\ UNCHANGED <<work, src, polling, waiters, signaled, polled, srvVars, events>>

(* Fault: the loop sleeps on what it saw before it took the token. *)
RecheckNot(t) ==
    /\ pc[t] = "recheck"
    /\ Goto(t, "wait")
    /\ UNCHANGED <<work, src, seqVars, srvVars, events>>

Recheck(t) ==
    /\ pc[t] = "recheck"
    /\ Goto(t, IF \E l \in Mine(t) : work[l] > 0 THEN "service" ELSE "wait")
    /\ UNCHANGED <<work, src, seqVars, srvVars, events>>

(* wait, with a token. *)
WaitBegins(t) ==
    /\ pc[t] = "wait"
    /\ IF t \in stale THEN Goto(t, "service") /\ UNCHANGED waiters
       ELSE Goto(t, IF Readiness THEN "claimPoll" ELSE "futexEnter") /\ waiters' = waiters + 1
    /\ UNCHANGED <<work, src, stale, polling, signaled, polled, srvVars, events>>

ClaimPoll(t) ==
    /\ pc[t] = "claimPoll"
    /\ polling' = TRUE
    /\ Goto(t, IF polling THEN "futexEnter" ELSE "pollSeq")
    /\ UNCHANGED <<work, src, stale, waiters, signaled, polled, srvVars, events>>

(* futexWait: does not sleep if the sequence has moved. *)
FutexEnter(t) ==
    /\ pc[t] = "futexEnter"
    /\ Goto(t, IF t \in stale THEN "leave" ELSE "futex")
    /\ UNCHANGED <<work, src, seqVars, srvVars, events>>

PollSeq(t) ==
    /\ pc[t] = "pollSeq"
    /\ Goto(t, IF t \in stale THEN "drain" ELSE "waitFds")
    /\ UNCHANGED <<work, src, seqVars, srvVars, events>>

WaitFds(t) ==
    /\ pc[t] = "waitFds"
    /\ polled' = Watched
    /\ Goto(t, "poll")
    /\ UNCHANGED <<work, src, stale, polling, waiters, signaled, srvVars, events>>

Poll(t) ==
    /\ pc[t] = "poll"
    /\ signaled \/ \E w \in polled : w[2] \in Pending(w[1])
    /\ Goto(t, "drain")
    /\ UNCHANGED <<work, src, seqVars, srvVars, events>>

Drain(t) ==
    /\ pc[t] = "drain"
    /\ signaled' = FALSE /\ polled' = {}
    /\ Goto(t, "unpoll")
    /\ UNCHANGED <<work, src, stale, polling, waiters, srvVars, events>>

Unpoll(t) ==
    /\ pc[t] = "unpoll"
    /\ polling' = FALSE
    /\ Goto(t, "handOver")
    /\ UNCHANGED <<work, src, stale, waiters, signaled, polled, srvVars, events>>

(* Fault: the poll is not handed over. *)
HandOverNot(t) ==
    /\ pc[t] = "handOver"
    /\ Goto(t, "leave")
    /\ UNCHANGED <<work, src, seqVars, srvVars, events>>

(* Another waiter polls in this one's place. *)
HandOver(t) ==
    /\ pc[t] = "handOver"
    /\ stale' = IF waiters > 1 THEN Waiters ELSE stale
    /\ Goto(t, IF waiters > 1 THEN "handOverWake" ELSE "leave")
    /\ UNCHANGED <<work, src, polling, waiters, signaled, polled, srvVars, events>>

HandOverWake(t) ==
    /\ pc[t] = "handOverWake"
    /\ WokenByFutex(t, "leave")
    /\ UNCHANGED <<work, src, seqVars, srvVars, events>>

Leave(t) ==
    /\ pc[t] = "leave"
    /\ waiters' = waiters - 1
    /\ Goto(t, "service")
    /\ UNCHANGED <<work, src, stale, polling, signaled, polled, srvVars, events>>

-----------------------------------------------------------------------------
(* Servicing. *)

Service(t) ==
    /\ pc[t] = "service"
    /\ IF Readiness /\ serviceMu = Nobody
       THEN serviceMu' = t /\ served' = 0 /\ Goto(t, "servicePoll")
       ELSE UNCHANGED <<serviceMu, served>> /\ Goto(t, "run")
    /\ UNCHANGED <<work, src, seqVars, revents, events>>

(* The list is rebuilt and polled; a kicked source counts as ready.  Every   *)
(* source here has input, an open descriptor and a place in the list: those  *)
(* for output only, POLLNVAL and a list that cannot be allocated are left out.*)
ServicePoll(t) ==
    /\ pc[t] = "servicePoll"
    /\ revents' = {w \in Watched : w[2] \in Pending(w[1])}
                    \union {<<w[1], "in">> : w \in {v \in Watched : src[v[1]].kicked}}
    /\ Goto(t, "handle")
    /\ UNCHANGED <<work, src, seqVars, serviceMu, served, events>>

HandleEnds(t) ==
    /\ pc[t] = "handle" /\ (revents = {} \/ served = Budget)
    /\ serviceMu' = Nobody /\ revents' = {} /\ served' = 0
    /\ Goto(t, "run")
    /\ UNCHANGED <<work, src, seqVars, events>>

(* Output is handled before input: the source is disarmed and `writable'     *)
(* runs, once per arming.                                                    *)
HandleOutput(t, s) ==
    /\ pc[t] = "handle" /\ served < Budget /\ <<s, "out">> \in revents
    /\ revents' = revents \ {<<s, "out">>}
    /\ src' = [src EXCEPT ![s].armed = FALSE]
    /\ served' = served + 1
    /\ Goto(t, "handle")
    /\ UNCHANGED <<work, seqVars, serviceMu, events>>

HandlesInput(t, s) ==
    pc[t] = "handle" /\ served < Budget /\ <<s, "in">> \in revents /\ <<s, "out">> \notin revents

(* The source has nothing to read, or holds what it read. *)
HandleNoInput(t, s) ==
    /\ HandlesInput(t, s)
    /\ IF src[s].held THEN src[s].paused ELSE src[s].input = 0
    /\ revents' = revents \ {<<s, "in">>}
    /\ src' = [src EXCEPT ![s].kicked = FALSE]
    /\ Goto(t, "handle")
    /\ UNCHANGED <<work, seqVars, serviceMu, served, events>>

(* It takes one input, or offers what it holds again: that becomes a turn,   *)
(* is dropped, or finds no room, so that it is held and input pauses.        *)
HandleInput(t, s, outcome) ==
    LET x == [src[s] EXCEPT !.kicked = FALSE, !.held = FALSE, !.input = IF src[s].held THEN @ ELSE @ - 1]
    IN  /\ HandlesInput(t, s)
        /\ IF src[s].held THEN ~src[s].paused ELSE src[s].input > 0
        /\ \/ /\ outcome = "turn"
              /\ src' = [src EXCEPT ![s] = x]
              /\ work' = [work EXCEPT !["internal"] = @ + 1]
              /\ served' = served + 1 /\ UNCHANGED revents
              /\ CallTo(t, "wakeSeq", "handle")
           \/ /\ outcome = "dropped"
              /\ src' = [src EXCEPT ![s] = x]
              /\ served' = served + 1
              /\ UNCHANGED <<work, revents, pc, ret, closing>>
           \/ /\ outcome = "held"
              /\ src' = [src EXCEPT ![s] = [x EXCEPT !.held = TRUE, !.paused = TRUE]]
              /\ revents' = revents \ {<<s, "in">>}
              /\ UNCHANGED <<work, served, pc, ret, closing>>
        /\ UNCHANGED <<seqVars, serviceMu, events>>

(* The source's handler closes it: it leaves the list of the service.        *)
HandleCloses(t, s) ==
    /\ HandlesInput(t, s) /\ Event
    /\ src' = [src EXCEPT ![s].registered = FALSE]
    /\ revents' = revents \ ({s} \X {"in", "out"})
    /\ CallTo(t, "signal", "handle")
    /\ UNCHANGED <<work, seqVars, serviceMu, served>>

-----------------------------------------------------------------------------
(* What clients and sockets do. *)

Outside(t) == t \in Clients \union Helpers /\ pc[t] = "idle"

(* helpUntil begins, and ends when what it waits for has happened: it looks  *)
(* at that at the top of its loop and after prepareWait.                     *)
HelpBegins(t) ==
    /\ t \in Helpers /\ Outside(t) /\ Event
    /\ Goto(t, "service")
    /\ UNCHANGED <<work, src, seqVars, srvVars>>

HelpEnds(t) ==
    /\ t \in Helpers /\ pc[t] \in {"service", "recheck"}
    /\ Goto(t, "idle")
    /\ UNCHANGED <<work, src, seqVars, srvVars, events>>

(* A submission that schedules its context. *)
SubmitWork(t, l) ==
    /\ Outside(t) /\ Event
    /\ work' = [work EXCEPT ![l] = @ + 1]
    /\ CallTo(t, "wakeSeq", "idle")
    /\ UNCHANGED <<src, seqVars, srvVars>>

Fresh == [registered |-> FALSE, paused |-> FALSE, kicked |-> FALSE, armed |-> FALSE,
          input |-> 0, room |-> FALSE, held |-> FALSE]

Register(t, s) ==
    /\ Outside(t) /\ Event /\ src[s] = Fresh
    /\ src' = [src EXCEPT ![s].registered = TRUE]
    /\ CallTo(t, "signal", "idle")
    /\ UNCHANGED <<work, seqVars, srvVars>>

ArmOutput(t, s) ==
    /\ Outside(t) /\ Event /\ src[s].registered /\ ~src[s].armed
    /\ src' = [src EXCEPT ![s].armed = TRUE]
    /\ CallTo(t, "signal", "idle")
    /\ UNCHANGED <<work, seqVars, srvVars>>

(* Fault: a poller already waiting goes on with the old list. *)
SignalNot(t) ==
    /\ pc[t] = "signal"
    /\ Goto(t, ret[t])
    /\ UNCHANGED <<work, src, seqVars, srvVars, events>>

(* A poller already waiting starts again with the new list. *)
Signal(t) ==
    /\ pc[t] = "signal"
    /\ signaled' = (signaled \/ polling)
    /\ Goto(t, ret[t])
    /\ UNCHANGED <<work, src, stale, polling, waiters, polled, srvVars, events>>

(* Room is made for what the source holds. *)
ResumeInput(t, s) ==
    /\ Outside(t) /\ Event /\ src[s].registered /\ src[s].paused
    /\ src' = [src EXCEPT ![s].kicked = TRUE, ![s].paused = FALSE]
    /\ CallTo(t, "wakeSeq", "idle")
    /\ UNCHANGED <<work, seqVars, srvVars>>

(* unregister: once out of the sources, it waits for the service. *)
Unregister(t, s) ==
    /\ Outside(t) /\ Event /\ src[s].registered
    /\ src' = [src EXCEPT ![s].registered = FALSE]
    /\ Jump(t, "signal", "unregister") /\ closing' = closing \union {<<t, s>>}
    /\ UNCHANGED <<work, seqVars, srvVars>>

(* Fault: a service that saw the source may still be running. *)
UnregisterEndsAtOnce(t) ==
    /\ pc[t] = "unregister"
    /\ Jump(t, "idle", "idle") /\ closing' = closing \ ({t} \X Sources)
    /\ UNCHANGED <<work, src, seqVars, srvVars, events>>

UnregisterEnds(t) ==
    /\ pc[t] = "unregister" /\ serviceMu = Nobody
    /\ Jump(t, "idle", "idle") /\ closing' = closing \ ({t} \X Sources)
    /\ UNCHANGED <<work, src, seqVars, srvVars, events>>

InputArrives(s) ==
    /\ Event /\ src[s].registered
    /\ src' = [src EXCEPT ![s].input = @ + 1]
    /\ UNCHANGED <<work, seqVars, srvVars, pc, ret, closing>>

RoomAppears(s) ==
    /\ Event /\ src[s].registered /\ ~src[s].room
    /\ src' = [src EXCEPT ![s].room = TRUE]
    /\ UNCHANGED <<work, seqVars, srvVars, pc, ret, closing>>

-----------------------------------------------------------------------------
Init ==
    /\ work = [l \in Lanes |-> 0]
    /\ src = [s \in Sources |-> Fresh]
    /\ stale = {} /\ polling = FALSE /\ waiters = 0 /\ signaled = FALSE /\ polled = {}
    /\ serviceMu = Nobody /\ revents = {} /\ served = 0
    /\ pc = [t \in Threads |-> IF t \in Runners THEN "service" ELSE "idle"]
    /\ ret = [t \in Threads |-> "idle"] /\ closing = {}
    /\ events = 0

(* The steps of a thread that is under way. *)
Continue(t) ==
    \/ WakeSeq(t) \/ WakeFutex(t) \/ WakeSignal(t) \/ Signal(t) \/ UnregisterEnds(t)
    \/ Run(t) \/ PrepareWait(t) \/ Recheck(t) \/ WaitBegins(t) \/ ClaimPoll(t) \/ FutexEnter(t)
    \/ PollSeq(t) \/ WaitFds(t) \/ Poll(t) \/ Drain(t) \/ Unpoll(t) \/ HandOver(t) \/ HandOverWake(t)
    \/ Leave(t)
    \/ Service(t) \/ ServicePoll(t) \/ HandleEnds(t)
    \/ \E s \in Sources : HandleOutput(t, s) \/ HandleNoInput(t, s)
    \/ \E s \in Sources, outcome \in {"turn", "dropped", "held"} : HandleInput(t, s, outcome)

Use(t, s) ==
    \/ Register(t, s) \/ ArmOutput(t, s) \/ ResumeInput(t, s) \/ Unregister(t, s) \/ HandleCloses(t, s)

Next ==
    \/ \E t \in Threads : Continue(t)
    \/ \E t \in Threads : HelpBegins(t) \/ HelpEnds(t)
    \/ \E t \in Threads, l \in Lanes : SubmitWork(t, l)
    \/ \E t \in Threads, s \in Sources : Use(t, s)
    \/ \E s \in Sources : InputArrives(s) \/ RoomAppears(s)

(* Every thread that is under way goes on. *)
Spec == Init /\ [][Next]_vars /\ \A t \in Threads : WF_vars(Continue(t))

-----------------------------------------------------------------------------
(* Properties. *)

TypeOK ==
    /\ work \in [Lanes -> Nat]
    /\ src \in [Sources -> [registered : BOOLEAN, paused : BOOLEAN, kicked : BOOLEAN, armed : BOOLEAN,
                            input : Nat, room : BOOLEAN, held : BOOLEAN]]
    /\ stale \subseteq Waiters /\ waiters \in 0..Cardinality(Waiters)
    /\ {polling, signaled} \subseteq BOOLEAN
    /\ {polled, revents} \subseteq SUBSET (Sources \X {"in", "out"})
    /\ serviceMu \in Waiters \union {Nobody} /\ served \in 0..Budget /\ events \in 0..MaxEvents

(* Work that anyone can run is run though every wake reaches one waiter     *)
(* only, and may come while that waiter decides to sleep.                   *)
WorkRuns == work["internal"] > 0 ~> work["internal"] = 0

(* A registered source's input is read, whoever polls and whoever wakes.    *)
Readable(s)  == src[s].registered /\ ~src[s].paused /\ src[s].input > 0
InputIsRead  == \A s \in Sources : Readable(s) ~> ~Readable(s)

(* `writable' runs after armOutput once the handle can take output. *)
Writable(s)   == src[s].registered /\ src[s].armed /\ src[s].room
OutputIsTaken == \A s \in Sources : Writable(s) ~> ~Writable(s)

(* One waiter polls at most, and none sleeps on a poll that has ended: of    *)
(* the waiters in the futex whose token is current, there is a poller, or    *)
(* the one that was is about to move the sequence and wake (vtWait, "Another *)
(* waiter polls in this one's place").                                       *)
Pollers  == {t \in Waiters : pc[t] \in {"pollSeq", "waitFds", "poll", "drain", "unpoll"}}
SleepersHavePoller ==
    /\ Cardinality(Pollers) = IF polling THEN 1 ELSE 0
    /\ Readiness => \A t \in Waiters : pc[t] = "futex" /\ t \notin stale =>
           polling \/ \E u \in Waiters : pc[u] = "handOver"

(* "a poller that stops polling wakes one of them, so the sources are polled *)
(* whenever anyone waits": a waiter in the futex is not left there by        *)
(* everybody else.                                                          *)
PolledWhileWaiting ==
    Readiness /\ (\E t \in Waiters : pc[t] = "futex") =>
        \E t \in Threads : pc[t] \notin {"futex", "idle"}

(* Once unregister has returned, no service touches the source: what it had  *)
(* still to handle of the source is done before (unregister waits for the    *)
(* service, the handler that closes its own source drops it from the list). *)
Closing(s) == \E t \in Threads : <<t, s>> \in closing
UnregisteredUntouched ==
    \A s \in Sources : ~src[s].registered /\ ~Closing(s) => revents \cap ({s} \X {"in", "out"}) = {}
=============================================================================
