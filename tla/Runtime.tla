------------------------------- MODULE Runtime -------------------------------
(* The shared runtime (runtime/core.zig) with the close latch               *)
(* (runtime/close_latch.zig): threads submit requests to execution          *)
(* contexts, claim ready contexts and run turns, fire timers, delete        *)
(* contexts and retire the runtime.                                         *)
(*                                                                          *)
(* Grain.  One step is one atomic operation (busy, waiting, owners, state)  *)
(* or one critical section under a gate.  A section under a context's gate  *)
(* that takes the runtime's gate inside is one step: whoever sees the ready *)
(* queue change must take the context's gate before using the context.  A   *)
(* thread's calls nest: `stack' has its frames, innermost first.            *)
(*                                                                          *)
(* Abstractions.  The timer heap is the set of the armed timers: which of   *)
(* them is the next to be due is the choice of their deadlines, made when   *)
(* it fires.  Sleeping in the backend is left out: a thread may look for    *)
(* work at any time.                                                        *)
EXTENDS Integers, Sequences, FiniteSets, SequencesExt

CONSTANTS
    Workers,        \* threads in serveUntilStopped; none in manual mode
    Clients,        \* application threads
    Contexts,
    ListenerLane,   \* the contexts whose turns run application listeners
    Plain,          \* requests other than timer fires
    Timers,
    Home,           \* the context of each timer
    PendingLimit,   \* external requests a context admits
    Yields, Waits,  \* whether the turns of plain requests may end so
    Retires,        \* whether the owner of the runtime releases it
    Deletes,        \* the contexts whose owners may delete them
    MaxNesting,     \* bound: turns on one thread's stack
    MaxStimuli      \* bound: submissions, yields, waits, wakes, (dis)armings

Threads == Workers \union Clients
Reqs    == Plain \union Timers
Manual  == Workers = {}

ASSUME RuntimeAssumption ==
    /\ Workers \cap Clients = {} /\ Plain \cap Timers = {}
    /\ ListenerLane \subseteq Contexts /\ Deletes \subseteq Contexts
    /\ Home \in [Timers -> Contexts]
    /\ PendingLimit \in Nat /\ MaxNesting \in Nat /\ MaxStimuli \in Nat
    /\ {Yields, Waits, Retires} \subseteq BOOLEAN
    /\ "none" \notin Contexts \union Reqs
    /\ IsFiniteSet(Reqs)

VARIABLES
    ctx,      \* each Context: life, exec, queue, waiting, pending, firing
    req,      \* each Request: place, on (its context), gen, wake, internal
    timer,    \* each Timer: gen, fireGen, firePending
    armed,    \* the timers in the heap
    ready,    \* the ready queue
    busy, waiting, owners, state,   \* the Runtime's atomics
    stack,    \* each thread's frames
    latch,    \* each context's deletion: its CloseLatch, and its storage
    woken,    \* history: the wait tokens that have been woken
    stimuli   \* how many of MaxStimuli are used

schedVars == <<ctx, req, ready>>
timerVars == <<timer, armed>>
atomics   == <<busy, waiting, owners, state>>
vars == <<schedVars, timerVars, atomics, stack, latch, woken, stimuli>>

None == "none"

-----------------------------------------------------------------------------
(* Frames: what a thread does next, for which context, request and token.  *)

Frame(pc, c, r)  == [pc |-> pc, ctx |-> c, req |-> r, gen |-> 0]
EndBusy          == Frame("endBusy", None, None)
Top(t)           == Head(stack[t])
At(t, pc)        == stack[t] # <<>> /\ Top(t).pc = pc
Call(t, frames)  == stack' = [stack EXCEPT ![t] = frames \o @]
Goto(t, frames)  == stack' = [stack EXCEPT ![t] = frames \o Tail(@)]
Return(t)        == Goto(t, <<>>)

(* The turns on a thread's stack; the innermost is its running_context. *)
TurnPcs           == {"turn", "waits", "timerRun", "callback", "timerEnd", "finishDone",
                      "finishYield"}
Turns(t)          == {i \in DOMAIN stack[t] : stack[t][i].pc \in TurnPcs}
RunningHere(t, c) == \E i \in Turns(t) : stack[t][i].ctx = c /\ \A j \in Turns(t) : i <= j
StartTurn(c, r)   == Frame(IF r \in Timers THEN "timerRun" ELSE "turn", c, r)

(* Code of the runtime's users runs outside the runtime and in turns. *)
Outside(t)   == t \in Clients /\ stack[t] = <<>>
MayCall(t)   == Outside(t) \/ At(t, "turn") \/ At(t, "callback")
Stimulate    == stimuli < MaxStimuli /\ stimuli' = stimuli + 1

-----------------------------------------------------------------------------
(* Contexts. *)

(* Fault: a fire on its way does not hold the context open. *)
DrainedFiring(x) == x.life = "draining" /\ x.exec = "idle" /\ x.queue = <<>> /\ x.waiting = 0

(* Fault: a turn that is still running does not either. *)
DrainedRunning(x) == x.life = "draining" /\ x.queue = <<>> /\ x.waiting = 0 /\ x.firing = 0

(* closeIfDrainedLocked: the record of the context, closed if it is. *)
Drained(x) ==
    x.life = "draining" /\ x.exec = "idle" /\ x.queue = <<>> /\ x.waiting = 0 /\ x.firing = 0

CloseIfDrained(x) == [x EXCEPT !.life = IF Drained(x) THEN "closed" ELSE @]

(* The hook that runs when the end of a turn, claim or fire closes it. *)
HookFrames(c, x) == IF Drained(x) THEN <<Frame("hook", c, None)>> ELSE <<>>

(* scheduleIfIdleLocked: the context enters the ready queue before its gate *)
(* is released.                                                             *)
Schedules(x)    == x.exec = "idle" /\ x.queue # <<>>
Schedule(x)     == [x EXCEPT !.exec = IF Schedules(x) THEN "scheduled" ELSE @]
LinkReady(c, x) == IF Schedules(x) THEN Append(ready, c) ELSE ready

(* appendLocked, with the request it appends. *)
Queued(x, r)    == [x EXCEPT !.queue = Append(@, r)]

(* A request that can be submitted. *)
Free(r) == req[r].place \in {"new", "done"}

(* Admits r, external or internal, at the tail of c's queue. *)
Admit(c, r, internal) ==
    LET x == Queued([ctx[c] EXCEPT !.pending = @ + (IF internal THEN 0 ELSE 1)], r)
    IN  /\ ctx' = [ctx EXCEPT ![c] = Schedule(x)]
        /\ ready' = LinkReady(c, x)
        /\ req' = [req EXCEPT ![r].place = "ready", ![r].on = c, ![r].wake = FALSE,
                              ![r].internal = internal]

(* busy.fetchAdd(1): the first step of admissions, claims and closes. *)
Begin(t, frames) ==
    /\ busy' = busy + 1
    /\ Call(t, frames)
    /\ UNCHANGED <<schedVars, timerVars, waiting, owners, state, latch, woken>>

-----------------------------------------------------------------------------
(* Retirement. *)

(* endBusy: the last to end looks whether a retiring runtime may stop. *)
EndBusyStep(t) ==
    /\ At(t, "endBusy")
    /\ busy' = busy - 1
    /\ Goto(t, IF busy = 1 THEN <<Frame("stopState", None, None)>> ELSE <<>>)
    /\ UNCHANGED <<schedVars, timerVars, waiting, owners, state, latch, woken, stimuli>>

(* tryStop, one read at a time. *)
StopState(t) ==
    /\ At(t, "stopState")
    /\ Goto(t, IF state = "retiring" THEN <<Frame("stopBusy", None, None)>> ELSE <<>>)
    /\ UNCHANGED <<schedVars, timerVars, atomics, latch, woken, stimuli>>

StopBusy(t) ==
    /\ At(t, "stopBusy")
    /\ Goto(t, IF busy = 0 THEN <<Frame("stopWaiting", None, None)>> ELSE <<>>)
    /\ UNCHANGED <<schedVars, timerVars, atomics, latch, woken, stimuli>>

StopWaiting(t) ==
    /\ At(t, "stopWaiting")
    /\ Goto(t, IF waiting = 0 THEN <<Frame("stopGate", None, None)>> ELSE <<>>)
    /\ UNCHANGED <<schedVars, timerVars, atomics, latch, woken, stimuli>>

StopGate(t) ==
    /\ At(t, "stopGate")
    /\ state' = IF ready = <<>> /\ state = "retiring" THEN "backend_stopped" ELSE state
    /\ Return(t)
    /\ UNCHANGED <<schedVars, timerVars, busy, waiting, owners, latch, woken, stimuli>>

(* tryRetainOwner. *)
TryRetainOwner(t) ==
    /\ MayCall(t) /\ owners > 0 /\ Stimulate
    /\ owners' = owners + 1
    /\ UNCHANGED <<schedVars, timerVars, busy, waiting, state, stack, latch, woken>>

(* releaseOwner: the last one retires the runtime and cancels every timer. *)
ReleaseOwner(t) ==
    /\ Retires /\ MayCall(t) /\ owners > 0
    /\ owners' = owners - 1
    /\ IF owners = 1 THEN Call(t, <<Frame("retire", None, None)>>) ELSE UNCHANGED stack
    /\ UNCHANGED <<schedVars, timerVars, busy, waiting, state, latch, woken, stimuli>>

Disarm(tms) == [tm \in Timers |-> IF tm \in tms THEN [timer[tm] EXCEPT !.gen = @ + 1]
                                  ELSE timer[tm]]

Retire(t) ==
    /\ At(t, "retire")
    /\ state' = "retiring"
    /\ timer' = Disarm(armed)
    /\ armed' = {}
    /\ Goto(t, <<Frame("stopState", None, None)>>)
    /\ UNCHANGED <<schedVars, busy, waiting, owners, latch, woken, stimuli>>

-----------------------------------------------------------------------------
(* Admission. *)

(* submit: the state is read before the context's gate is taken. *)
Submit(t, c, r) ==
    /\ MayCall(t) /\ Stimulate /\ latch[c] # "freed"
    /\ Begin(t, <<Frame("submitState", c, r)>>)

SubmitState(t) ==
    /\ At(t, "submitState")
    /\ Goto(t, <<IF state = "running" THEN [Top(t) EXCEPT !.pc = "submitGate"] ELSE EndBusy>>)
    /\ UNCHANGED <<schedVars, timerVars, atomics, latch, woken, stimuli>>

Refuses(c, r) == ctx[c].life # "open" \/ ~Free(r) \/ ctx[c].pending >= PendingLimit

SubmitQueues(t) ==
    LET c == Top(t).ctx  r == Top(t).req
    IN  /\ At(t, "submitGate")
        /\ IF Refuses(c, r) THEN UNCHANGED schedVars ELSE Admit(c, r, FALSE)
        /\ Goto(t, <<EndBusy>>)
        /\ UNCHANGED <<timerVars, atomics, latch, woken, stimuli>>

(* With an executor, never from a turn: an idle context runs it at once. *)
SubmitInline(t) ==
    LET c == Top(t).ctx  r == Top(t).req
    IN  /\ At(t, "submitGate") /\ Turns(t) = {} /\ ~Refuses(c, r)
        /\ ctx[c].exec = "idle" /\ ctx[c].queue = <<>>
        /\ ctx' = [ctx EXCEPT ![c].pending = @ + 1, ![c].exec = "running"]
        /\ req' = [req EXCEPT ![r].place = "running", ![r].on = c, ![r].wake = FALSE,
                              ![r].internal = FALSE]
        /\ busy' = busy + 1
        /\ Goto(t, <<StartTurn(c, r), EndBusy>>)
        /\ UNCHANGED <<ready, timerVars, waiting, owners, state, latch, woken, stimuli>>

(* submitInternal: work that a turn of the context continues with. *)
SubmitInternal(t, r) ==
    /\ At(t, "turn") /\ Stimulate
    /\ Begin(t, <<Frame("internalGate", Top(t).ctx, r)>>)

InternalGate(t) ==
    LET c == Top(t).ctx  r == Top(t).req
    IN  /\ At(t, "internalGate")
        /\ IF ctx[c].life = "closed" \/ ~Free(r) THEN UNCHANGED schedVars ELSE Admit(c, r, TRUE)
        /\ Goto(t, <<EndBusy>>)
        /\ UNCHANGED <<timerVars, atomics, latch, woken, stimuli>>

(* wakeRequest, with any token handed out for r so far. *)
WakeRequest(t, r, gen) ==
    /\ MayCall(t) /\ Stimulate
    /\ gen <= req[r].gen /\ req[r].on # None /\ latch[req[r].on] # "freed"
    /\ Begin(t, <<[Frame("wakeGate", req[r].on, r) EXCEPT !.gen = gen]>>)

(* Fault: a wake that finds the request still running is dropped. *)
WakeGateLate(t) ==
    LET f == Top(t)  c == f.ctx  r == f.req
        x == Queued([ctx[c] EXCEPT !.waiting = @ - 1], r)
    IN  /\ At(t, "wakeGate")
        /\ woken' = woken \union {<<r, f.gen>>}
        /\ IF f.gen = req[r].gen /\ req[r].place = "waiting"
           THEN /\ req' = [req EXCEPT ![r].place = "ready", ![r].gen = @ + 1]
                /\ ctx' = [ctx EXCEPT ![c] = Schedule(x)]
                /\ ready' = LinkReady(c, x)
                /\ waiting' = waiting - 1
           ELSE UNCHANGED <<schedVars, waiting>>
        /\ Goto(t, <<EndBusy>>)
        /\ UNCHANGED <<timerVars, busy, owners, state, latch, stimuli>>

WakeGate(t) ==
    LET f == Top(t)  c == f.ctx  r == f.req
        x == Queued([ctx[c] EXCEPT !.waiting = @ - 1], r)
        current == f.gen = req[r].gen
    IN  /\ At(t, "wakeGate")
        /\ woken' = woken \union {<<r, f.gen>>}
        /\ IF current /\ req[r].place = "waiting"
           THEN /\ req' = [req EXCEPT ![r].place = "ready", ![r].gen = @ + 1]
                /\ ctx' = [ctx EXCEPT ![c] = Schedule(x)]
                /\ ready' = LinkReady(c, x)
                /\ waiting' = waiting - 1
           ELSE /\ req' = [req EXCEPT ![r].wake = @ \/ (current /\ req[r].place = "running")]
                /\ UNCHANGED <<ctx, ready, waiting>>
        /\ Goto(t, <<EndBusy>>)
        /\ UNCHANGED <<timerVars, busy, owners, state, latch, stimuli>>

-----------------------------------------------------------------------------
(* Execution. *)

(* Who looks for work: a worker (serveUntilStopped), the one driver of a     *)
(* manual runtime (drive) and, for internal contexts only, whoever helps it *)
(* while blocked (helpUntil).  Each fires the due timers first.             *)
Serve(t) ==
    /\ At(t, "serve")
    /\ Begin(t, <<Frame("fire", None, None), Frame("runNext", None, None)>>)
    /\ UNCHANGED stimuli

Drive(t) ==
    /\ Manual /\ Outside(t)
    /\ \A u \in Clients : ~\E i \in 1..Len(stack[u]) : stack[u][i].pc = "drive"
    /\ Begin(t, <<Frame("fire", None, None), Frame("runNext", None, None), Frame("drive", None, None)>>)
    /\ UNCHANGED stimuli

Help(t) ==
    /\ Manual /\ MayCall(t) /\ Cardinality(Turns(t)) < MaxNesting
    /\ Begin(t, <<Frame("fire", None, None), Frame("runNextInternal", None, None)>>)
    /\ UNCHANGED stimuli

(* After a drive, and when a worker finds nothing: tryStop. *)
DriveEnds(t) ==
    /\ At(t, "drive")
    /\ Goto(t, <<Frame("stopState", None, None)>>)
    /\ UNCHANGED <<schedVars, timerVars, atomics, latch, woken, stimuli>>

ServeIdle(t) ==
    /\ At(t, "serveIdle")
    /\ Goto(t, <<Frame("stopState", None, None), Frame("serveCheck", None, None)>>)
    /\ UNCHANGED <<schedVars, timerVars, atomics, latch, woken, stimuli>>

(* A worker leaves once the runtime has stopped. *)
ServeCheck(t) ==
    /\ At(t, "serveCheck")
    /\ Goto(t, <<Frame(IF state = "backend_stopped" THEN "exited" ELSE "serve", None, None)>>)
    /\ UNCHANGED <<schedVars, timerVars, atomics, latch, woken, stimuli>>

(* runNextIn: one claim, counted busy. *)
RunNext(t) ==
    /\ At(t, "runNext") \/ At(t, "runNextInternal")
    /\ Begin(t, <<Frame("take", None, None)>>)
    /\ UNCHANGED stimuli

(* takeReadyLocked: the oldest ready context, of the internal lane only when *)
(* helping.  A worker that finds none goes on to tryStop.                    *)
Claimable(pc) == {i \in 1..Len(ready) : pc = "runNext" \/ ready[i] \notin ListenerLane}

Idle(frames) == IF frames # <<>> /\ Head(frames).pc = "serve"
                THEN <<Frame("serveIdle", None, None)>> \o Tail(frames) ELSE frames

TakeReady(t) ==
    LET found == Claimable(stack[t][2].pc)
    IN  /\ At(t, "take")
        /\ \/ /\ found = {}
              /\ stack' = [stack EXCEPT ![t] = <<EndBusy>> \o Idle(Tail(Tail(@)))]
              /\ UNCHANGED ready
           \/ \E i \in found :
              /\ \A j \in found : i <= j
              /\ ready' = RemoveAt(ready, i)
              /\ Goto(t, <<Frame("claim", ready[i], None)>>)
        /\ UNCHANGED <<ctx, req, timerVars, atomics, latch, woken, stimuli>>

(* The claim of a context whose work was discarded meanwhile releases it,    *)
(* and looks for another.                                                    *)
Claim(t) ==
    LET c    == Top(t).ctx
        idle == [ctx[c] EXCEPT !.exec = "idle"]
        r    == Head(ctx[c].queue)
    IN  /\ At(t, "claim")
        /\ IF ctx[c].queue = <<>>
           THEN /\ ctx' = [ctx EXCEPT ![c] = CloseIfDrained(idle)]
                /\ Goto(t, <<EndBusy>> \o HookFrames(c, idle))
                /\ UNCHANGED req
           ELSE /\ ctx' = [ctx EXCEPT ![c].exec = "running", ![c].queue = Tail(@)]
                /\ req' = [req EXCEPT ![r].place = "running"]
                /\ stack' = [stack EXCEPT ![t] = <<StartTurn(c, r)>> \o Tail(Tail(@))]
        /\ UNCHANGED <<ready, timerVars, atomics, latch, woken, stimuli>>

(* runTurn, once the turn has run: x is its context and q its request as    *)
(* the outcome leaves them; the context is released.                        *)
Release(t, x, q) ==
    LET c == Top(t).ctx  r == Top(t).req
        y == [x EXCEPT !.exec = "idle"]
    IN  /\ ctx' = [ctx EXCEPT ![c] = CloseIfDrained(Schedule(y))]
        /\ ready' = LinkReady(c, y)
        /\ req' = [req EXCEPT ![r] = q]
        /\ Goto(t, <<EndBusy>> \o HookFrames(c, Schedule(y)))
        /\ UNCHANGED <<timerVars, busy, owners, state, latch, woken>>

(* Fault: internal requests return external credit. *)
FinishDoneCredit(t) ==
    LET q == req[Top(t).req]
    IN  /\ At(t, "turn") \/ At(t, "finishDone")
        /\ Release(t, [ctx[Top(t).ctx] EXCEPT !.pending = IF @ > 0 THEN @ - 1 ELSE 0],
                      [q EXCEPT !.place = "done", !.wake = FALSE])
        /\ UNCHANGED <<waiting, stimuli>>

FinishDone(t) ==
    LET q == req[Top(t).req]
    IN  /\ At(t, "turn") \/ At(t, "finishDone")
        /\ Release(t, [ctx[Top(t).ctx] EXCEPT !.pending = @ - (IF q.internal THEN 0 ELSE 1)],
                      [q EXCEPT !.place = "done", !.wake = FALSE])
        /\ UNCHANGED <<waiting, stimuli>>

FinishYield(t) ==
    /\ \/ At(t, "turn") /\ Yields /\ Stimulate
       \/ At(t, "finishYield") /\ UNCHANGED stimuli
    /\ Release(t, Queued(ctx[Top(t).ctx], Top(t).req), [req[Top(t).req] EXCEPT !.place = "ready"])
    /\ UNCHANGED waiting

(* Turn.prepareWait: a token of the new wait is handed out. *)
PrepareWait(t) ==
    /\ At(t, "turn") /\ Waits /\ Stimulate
    /\ req' = [req EXCEPT ![Top(t).req].gen = @ + 1, ![Top(t).req].wake = FALSE]
    /\ Goto(t, <<[Top(t) EXCEPT !.pc = "waits"]>>)
    /\ UNCHANGED <<ctx, ready, timerVars, atomics, latch, woken>>

FinishWait(t) ==
    LET q == req[Top(t).req]
    IN  /\ At(t, "waits")
        /\ IF q.wake
           THEN /\ Release(t, Queued(ctx[Top(t).ctx], Top(t).req),
                              [q EXCEPT !.place = "ready", !.wake = FALSE, !.gen = @ + 1])
                /\ UNCHANGED waiting
           ELSE /\ Release(t, [ctx[Top(t).ctx] EXCEPT !.waiting = @ + 1], [q EXCEPT !.place = "waiting"])
                /\ waiting' = waiting + 1
        /\ UNCHANGED stimuli

-----------------------------------------------------------------------------
(* Timers. *)

(* armTimer and armTimerNoLater, which leaves alone a timer that has a      *)
(* current fire queued or an earlier deadline.  Its owner arms it in its     *)
(* callback or elsewhere, never once it is being deleted.                   *)
ArmTimer(t, tm, noLater) ==
    /\ (At(t, "callback") /\ Top(t).req = tm) \/ Outside(t)
    /\ latch[Home[tm]] = "open" /\ state = "running" /\ Stimulate
    /\ noLater => ~(timer[tm].firePending /\ timer[tm].gen = timer[tm].fireGen)
    /\ armed' = armed \union {tm}
    /\ timer' = Disarm({tm})
    /\ UNCHANGED <<schedVars, atomics, stack, latch, woken>>

CancelTimer(t, tm) ==
    /\ MayCall(t) /\ latch[Home[tm]] = "open" /\ Stimulate
    /\ armed' = armed \ {tm}
    /\ timer' = Disarm({tm})
    /\ UNCHANGED <<schedVars, atomics, stack, latch, woken>>

(* fireDueTimers.  The first timer leaves the heap; its fire holds its context open. *)
Fire(t) ==
    \E tm \in armed :
        /\ At(t, "fire")
        /\ armed' = armed \ {tm}
        /\ timer' = [timer EXCEPT ![tm].fireGen = timer[tm].gen, ![tm].firePending = TRUE]
        /\ ctx' = [ctx EXCEPT ![Home[tm]].firing = @ + 1]
        /\ Call(t, <<Frame("fireSubmit", Home[tm], tm)>>)
        /\ UNCHANGED <<req, ready, atomics, latch, woken, stimuli>>

FireNoMore(t) ==
    /\ At(t, "fire")
    /\ Goto(t, <<EndBusy>>)
    /\ UNCHANGED <<schedVars, timerVars, atomics, latch, woken, stimuli>>

(* submitInternal of the fire: a request that is busy is left to run again. *)
FireSubmit(t) ==
    LET c == Top(t).ctx  r == Top(t).req
        closed == ctx[c].life = "closed"
    IN  /\ At(t, "fireSubmit")
        /\ IF closed \/ ~Free(r) THEN UNCHANGED schedVars ELSE Admit(c, r, TRUE)
        /\ timer' = [timer EXCEPT ![r].firePending = @ /\ ~closed]
        /\ Goto(t, <<[Top(t) EXCEPT !.pc = "endFire"]>>)
        /\ UNCHANGED <<armed, atomics, latch, woken, stimuli>>

EndFire(t) ==
    LET c == Top(t).ctx
        x == [ctx[c] EXCEPT !.firing = @ - 1]
    IN  /\ At(t, "endFire")
        /\ ctx' = [ctx EXCEPT ![c] = CloseIfDrained(x)]
        /\ Goto(t, HookFrames(c, x))
        /\ UNCHANGED <<req, ready, timerVars, atomics, latch, woken, stimuli>>

(* timerRun, the turn of a fire: a stale one does nothing, and a timer that *)
(* fired again during the turn has another.                                 *)
TimerRun(t) ==
    LET tm == Top(t).req
    IN  /\ At(t, "timerRun")
        /\ timer' = [timer EXCEPT ![tm].firePending = FALSE]
        /\ Goto(t, <<[Top(t) EXCEPT !.pc = IF timer[tm].gen = timer[tm].fireGen
                                           THEN "callback" ELSE "timerEnd"]>>)
        /\ UNCHANGED <<schedVars, armed, atomics, latch, woken, stimuli>>

CallbackReturns(t) ==
    /\ At(t, "callback")
    /\ Goto(t, <<[Top(t) EXCEPT !.pc = "timerEnd"]>>)
    /\ UNCHANGED <<schedVars, timerVars, atomics, latch, woken, stimuli>>

TimerEnd(t) ==
    /\ At(t, "timerEnd")
    /\ Goto(t, <<[Top(t) EXCEPT !.pc = IF timer[Top(t).req].firePending
                                       THEN "finishYield" ELSE "finishDone"]>>)
    /\ UNCHANGED <<schedVars, timerVars, atomics, latch, woken, stimuli>>

-----------------------------------------------------------------------------
(* Deletion of a context by its owner: stop arming its timers, cancel them,  *)
(* close it through its CloseLatch, and free it.                             *)

(* From outside, from one of its own turns, or from a listener's turn when   *)
(* it runs no listeners itself.                                              *)
Delete(t, c) ==
    /\ c \in Deletes /\ MayCall(t) /\ latch[c] = "open"
    /\ \/ Turns(t) = {}
       \/ RunningHere(t, c) /\ Cardinality(Turns(t)) = 1
       \/ /\ c \notin ListenerLane /\ \E d \in ListenerLane : RunningHere(t, d)
          /\ \A i \in Turns(t) : stack[t][i].ctx # c
    /\ latch' = [latch EXCEPT ![c] = "stopping"]
    /\ Call(t, <<Frame("cancel", c, None)>>)
    /\ UNCHANGED <<schedVars, timerVars, atomics, woken, stimuli>>

CancelAll(t) ==
    /\ At(t, "cancel")
    /\ armed' = {tm \in armed : Home[tm] # Top(t).ctx}
    /\ timer' = Disarm({tm \in Timers : Home[tm] = Top(t).ctx})
    /\ Goto(t, <<[Top(t) EXCEPT !.pc = "closeBegin"]>>)
    /\ UNCHANGED <<schedVars, atomics, latch, woken, stimuli>>

CloseBegin(t) ==
    /\ At(t, "closeBegin")
    /\ busy' = busy + 1
    /\ Goto(t, <<[Top(t) EXCEPT !.pc = "closeGate"]>>)
    /\ UNCHANGED <<schedVars, timerVars, waiting, owners, state, latch, woken, stimuli>>

(* Fault: the claim in flight is forgotten. *)
DiscardClaimed(c) ==
    LET x        == ctx[c]
        external == {i \in 1..Len(x.queue) : ~req[x.queue[i]].internal}
    IN  [x EXCEPT !.life = "draining", !.queue = <<>>, !.pending = @ - Cardinality(external),
                  !.exec = IF @ = "scheduled" THEN "idle" ELSE @]

(* unlinkReady: a claim may have unlinked it already. *)
Linked(c) == \E i \in 1..Len(ready) : ready[i] = c
Unlinked(c) == IF Linked(c) THEN RemoveAt(ready, CHOOSE i \in 1..Len(ready) : ready[i] = c) ELSE ready

(* Context.closeDiscarding: what is queued is dropped.  A claim in flight    *)
(* still has the context; otherwise it leaves the ready queue.               *)
Discard(c) ==
    LET x        == ctx[c]
        external == {i \in 1..Len(x.queue) : ~req[x.queue[i]].internal}
    IN  [x EXCEPT !.life = "draining", !.queue = <<>>, !.pending = @ - Cardinality(external),
                  !.exec = IF @ = "scheduled" /\ Linked(c) THEN "idle" ELSE @]

(* CloseLatch.close: then the owner goes on, leaves the rest to the closing *)
(* hook (finishWith), or waits for it.                                      *)
CloseGate(t) ==
    LET c == Top(t).ctx
        x == Discard(c)
        next == IF Drained(x) THEN "free" ELSE IF RunningHere(t, c) THEN "finishWith" ELSE "await"
    IN  /\ At(t, "closeGate")
        /\ ctx' = [ctx EXCEPT ![c] = CloseIfDrained(x)]
        /\ req' = [r \in Reqs |-> IF r \in ToSet(ctx[c].queue)
                                  THEN [req[r] EXCEPT !.place = "done", !.wake = FALSE] ELSE req[r]]
        /\ ready' = Unlinked(c)
        /\ Goto(t, <<EndBusy, Frame(next, c, None)>>)
        /\ UNCHANGED <<timerVars, atomics, latch, woken, stimuli>>

FinishWith(t) ==
    /\ At(t, "finishWith")
    /\ latch' = [latch EXCEPT ![Top(t).ctx] = "rest"]
    /\ Return(t)
    /\ UNCHANGED <<schedVars, timerVars, atomics, woken, stimuli>>

Await(t) ==
    /\ At(t, "await") /\ latch[Top(t).ctx] = "closed"
    /\ Goto(t, <<[Top(t) EXCEPT !.pc = "free"]>>)
    /\ UNCHANGED <<schedVars, timerVars, atomics, latch, woken, stimuli>>

(* The owner frees a context once its own submitters and wakers are done. *)
UserPcs == {"submitState", "submitGate", "wakeGate"}
Unused(c) == \A u \in Threads : \A i \in 1..Len(stack[u]) :
                 stack[u][i].pc \in UserPcs => stack[u][i].ctx # c

FreeContext(t) ==
    /\ At(t, "free") /\ Unused(Top(t).ctx)
    /\ latch' = [latch EXCEPT ![Top(t).ctx] = "freed"]
    /\ Return(t)
    /\ UNCHANGED <<schedVars, timerVars, atomics, woken, stimuli>>

(* CloseLatch.onClosed. *)
OnClosed(t) ==
    LET c == Top(t).ctx
    IN  /\ At(t, "hook") /\ (latch[c] = "rest" => Unused(c))
        /\ latch' = [latch EXCEPT ![c] = IF @ = "rest" THEN "freed" ELSE "closed"]
        /\ Return(t)
        /\ UNCHANGED <<schedVars, timerVars, atomics, woken, stimuli>>

-----------------------------------------------------------------------------
Init ==
    /\ ctx = [c \in Contexts |-> [life |-> "open", exec |-> "idle", queue |-> <<>>, waiting |-> 0,
                                  pending |-> 0, firing |-> 0]]
    /\ req = [r \in Reqs |-> [place |-> "new", on |-> None, gen |-> 0, wake |-> FALSE,
                              internal |-> FALSE]]
    /\ timer = [tm \in Timers |-> [gen |-> 0, fireGen |-> 0, firePending |-> FALSE]]
    /\ armed = {} /\ ready = <<>>
    /\ busy = 0 /\ waiting = 0 /\ owners = 1 /\ state = "running"
    /\ stack = [t \in Threads |-> IF t \in Workers THEN <<Frame("serve", None, None)>> ELSE <<>>]
    /\ latch = [c \in Contexts |-> "open"]
    /\ woken = {} /\ stimuli = 0

(* The steps of a call a thread has begun. *)
Continue(t) ==
    \/ EndBusyStep(t) \/ StopState(t) \/ StopBusy(t) \/ StopWaiting(t) \/ StopGate(t) \/ Retire(t)
    \/ SubmitState(t) \/ SubmitQueues(t) \/ SubmitInline(t) \/ InternalGate(t) \/ WakeGate(t)
    \/ DriveEnds(t) \/ ServeIdle(t) \/ ServeCheck(t) \/ RunNext(t) \/ TakeReady(t) \/ Claim(t)
    \/ FinishDone(t) \/ FinishYield(t) \/ FinishWait(t)
    \/ Fire(t) \/ FireNoMore(t) \/ FireSubmit(t) \/ EndFire(t)
    \/ TimerRun(t) \/ CallbackReturns(t) \/ TimerEnd(t)
    \/ CancelAll(t) \/ CloseBegin(t) \/ CloseGate(t) \/ FinishWith(t) \/ Await(t)
    \/ FreeContext(t) \/ OnClosed(t)

(* The calls a thread may begin. *)
Start(t) ==
    \/ TryRetainOwner(t) \/ ReleaseOwner(t)
    \/ \E c \in Contexts, r \in Plain : Submit(t, c, r)
    \/ \E r \in Plain : SubmitInternal(t, r)
    \/ \E r \in Plain : \E gen \in 1..req[r].gen : WakeRequest(t, r, gen)
    \/ PrepareWait(t)
    \/ Serve(t) \/ Drive(t) \/ Help(t)
    \/ \E tm \in Timers, noLater \in BOOLEAN : ArmTimer(t, tm, noLater)
    \/ \E tm \in Timers : CancelTimer(t, tm)
    \/ \E c \in Deletes : Delete(t, c)

Next == \E t \in Threads : Start(t) \/ Continue(t)

Spec == Init /\ [][Next]_vars

-----------------------------------------------------------------------------
(* Properties. *)

Pcs == TurnPcs \union UserPcs \union
    {"endBusy", "stopState", "stopBusy", "stopWaiting", "stopGate", "retire", "internalGate",
     "serve", "serveIdle", "serveCheck", "exited", "drive", "runNext", "runNextInternal", "take", "claim",
     "fire", "fireSubmit", "endFire", "cancel", "closeBegin", "closeGate",
     "finishWith", "await", "free", "hook"}

TypeOK ==
    /\ ctx \in [Contexts -> [life : {"open", "draining", "closed"},
                             exec : {"idle", "scheduled", "running"}, queue : Seq(Reqs),
                             waiting : Nat, pending : 0..PendingLimit, firing : Nat]]
    /\ req \in [Reqs -> [place : {"new", "ready", "running", "waiting", "done"},
                         on : Contexts \union {None}, gen : Nat, wake : BOOLEAN, internal : BOOLEAN]]
    /\ timer \in [Timers -> [gen : Nat, fireGen : Nat, firePending : BOOLEAN]]
    /\ armed \in SUBSET Timers /\ ready \in Seq(Contexts)
    /\ busy \in Nat /\ waiting \in Nat /\ owners \in Nat
    /\ state \in {"running", "retiring", "backend_stopped"}
    /\ stack \in [Threads -> Seq([pc : Pcs, ctx : Contexts \union {None},
                                  req : Reqs \union {None}, gen : Nat])]
    /\ latch \in [Contexts -> {"open", "stopping", "rest", "closed", "freed"}]
    /\ woken \in SUBSET (Reqs \X Nat) /\ stimuli \in 0..MaxStimuli

(* The frames of all threads that are for c, as <<thread, depth>> pairs. *)
Holders(c, pcs) ==
    UNION {{t} \X {i \in DOMAIN stack[t] : stack[t][i].ctx = c /\ stack[t][i].pc \in pcs} : t \in Threads}

(* At most one executor has a context, and a context with work always has   *)
(* one coming: SCHEDULED means exactly one of a place in the ready queue    *)
(* and a claim in flight, RUNNING exactly one turn, and a queue is never    *)
(* left behind by an IDLE context, whatever submit, wake, the end of a turn *)
(* and closeDiscarding do at once.                                          *)
NeverStranded ==
    \A c \in Contexts :
        /\ Cardinality(Holders(c, TurnPcs)) = IF ctx[c].exec = "running" THEN 1 ELSE 0
        /\ Cardinality(Holders(c, {"claim"})) + Cardinality({i \in 1..Len(ready) : ready[i] = c})
               = IF ctx[c].exec = "scheduled" THEN 1 ELSE 0
        /\ ctx[c].queue # <<>> => ctx[c].exec # "idle"

(* Every request is in one place only, and the budgets count it once:       *)
(* `pending' has the external requests of the context that are not done,    *)
(* `waiting' the waiting ones.                                              *)
RequestsAccounted ==
    /\ \A c \in Contexts :
        LET mine == {r \in Reqs : req[r].on = c}
        IN  /\ ctx[c].pending = Cardinality({r \in mine : ~req[r].internal
                                             /\ req[r].place \in {"ready", "running", "waiting"}})
            /\ ctx[c].waiting = Cardinality({r \in mine : req[r].place = "waiting"})
            /\ \A r \in mine : Cardinality({i \in 1..Len(ctx[c].queue) : ctx[c].queue[i] = r})
                                  = IF req[r].place = "ready" THEN 1 ELSE 0
    /\ waiting = Cardinality({r \in Reqs : req[r].place = "waiting"})

(* A request that waits has not been woken: a wake that comes between       *)
(* prepareWait and the end of the turn is kept.                             *)
WakeNotLost ==
    \A r \in Reqs : req[r].place = "waiting" => <<r, req[r].gen>> \notin woken

(* Once its owner has freed a context, nothing in the runtime refers to it  *)
(* or to its timers: no claim, turn, fire or hook is on its way, and it is   *)
(* in no queue.                                                             *)
ContextPcs == TurnPcs \union {"claim", "internalGate", "fireSubmit", "endFire",
                              "closeGate", "hook"}
FreedUntouched ==
    \A c \in Contexts : latch[c] = "freed" =>
        /\ Holders(c, ContextPcs) = {} /\ ~Linked(c)
        /\ \A tm \in armed : Home[tm] # c

(* What fireDueTimers says of a fire that finds its request busy: "Its       *)
(* request is queued, or running a turn that runs it again".                *)
FireIsRun ==
    \A tm \in Timers : timer[tm].firePending =>
        \/ req[tm].place \in {"ready", "running"}
        \/ Holders(Home[tm], {"fireSubmit"}) # {}
        \/ ctx[Home[tm]].life # "open"
=============================================================================
