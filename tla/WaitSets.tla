------------------------------- MODULE WaitSets -------------------------------
(***************************************************************************)
(* Wait sets and guard conditions (src/dcps/waitset.zig), and what the     *)
(* C++ and the Java binding add to an attachment: a keep-alive context     *)
(* that the core releases when the attachment ends, however it ends        *)
(* (include/zzdds_cpp.hpp, WaitSetSupport; java_runtime, "WaitSet          *)
(* condition-attachment keepalive").                                       *)
(*                                                                         *)
(* The two lists (a wait set's conditions, a condition's wakeups) have a   *)
(* lock each and are never locked together by a teardown; what keeps the   *)
(* other side's memory alive is a reference count on each object           *)
(* (util/entity_quiesce.zig).  A release hook runs with no lock held and   *)
(* may destroy a condition, which may free a wait set, and so on: a thread *)
(* is therefore a stack of frames, and one action is one step of the       *)
(* topmost.  The binding of a behaviour is fixed at the start.             *)
(***************************************************************************)
EXTENDS Callers, Naturals, Sequences, FiniteSets

CONSTANTS
    WaitSetIds,  \* wait sets the application creates
    Conds,       \* guard conditions it creates
    Ctxs,        \* keep-alive contexts: a bound on the attach calls that get one
    Slots,       \* WAKEUP_SLOTS of a condition
    Bygone       \* the sets of objects that may be gone from the start (a bound)

ASSUME WaitSetsAssumption ==
    /\ Slots \in Nat \ {0}
    /\ None \notin Threads \cup Ctxs \cup WaitSetIds \cup Conds
    /\ WaitSetIds \cap Conds = {}
    /\ IsFiniteSet(WaitSetIds) /\ IsFiniteSet(Conds)
    /\ Bygone \subseteq SUBSET (WaitSetIds \cup Conds)

VARIABLES
    binding,   \* "cpp" or "java"
    hooked,    \* the binding's attach replaces the generated one
    made,      \* objects that were created
    mine,      \* objects the application has a handle of
    stack,     \* per thread, its frames, the innermost first
    attached,  \* per wait set, `conditions`: records of a condition and its context
    mu,        \* per wait set, the thread inside `mu`
    notified,  \* per wait set, the flag under `cv_mu`
    wakeups,   \* per condition, the wait sets of its WakeupList
    trigger,   \* per condition
    refs,      \* per object, the count of its EntityQuiesce
    closed,    \* objects that are tearing down
    retired,   \* objects whose handle is retired
    freed,     \* objects whose memory is gone
    ctx,       \* per context, the condition it keeps and whether it is live
    owed       \* history: wait sets that a trigger set since their last scan concerns

vars == <<binding, hooked, made, mine, stack, attached, mu, notified, wakeups, trigger, refs, closed, retired, freed, ctx, owed>>

Objects == WaitSetIds \cup Conds

-------------------------------------------------------------------------------
(* Frames.  `todo` is the wait sets a teardown has still to tell, or the   *)
(* conditions a wait has still to look at.                                 *)

Frame(op, at, w, c, x) == [op |-> op, at |-> at, w |-> w, c |-> c, x |-> x, todo |-> {}]

Idle(t) == stack[t] = <<>>
Top(t) == Head(stack[t])
At(t, op, at) == stack[t] # <<>> /\ Top(t).op = op /\ Top(t).at = at

Goto(t, at)      == [stack EXCEPT ![t] = <<[Head(@) EXCEPT !.at = at]>> \o Tail(@)]
GotoWith(t, f)   == [stack EXCEPT ![t] = <<f>> \o Tail(@)]
Return(t)        == [stack EXCEPT ![t] = Tail(@)]
Call(t, f)       == [stack EXCEPT ![t] = <<f>> \o @]

FramesOf(t) == {stack[t][i] : i \in 1..Len(stack[t])}
InCall(ops, k, o) == \E t \in Threads : \E f \in FramesOf(t) : f.op \in ops /\ f[k] = o

(* What keeps a C++ guard condition alive: the application's shared_ptr,   *)
(* the contexts that copied it, and the argument of a call being made.     *)
Holders(c, m, x, s) ==
    (IF c \in m THEN {c} ELSE {})
    \cup {y \in Ctxs : x[y].live /\ x[y].c = c}
    \cup {t \in Threads : \E i \in 1..Len(s[t]) :
             /\ s[t][i].c = c
             /\ \/ s[t][i].op = "detach"
                \/ s[t][i].op = "attach" /\ s[t][i].at = "alloc"}

Destroyer(o) ==
    IF o \in Conds THEN Frame("destroyGuard", "close", None, o, None)
                   ELSE Frame("destroyWaitSet", "close", o, None, None)

LastHolder(c, m, x, s) == binding = "cpp" /\ c \notin closed /\ Holders(c, m, x, s) = {}

(* The thread goes on at s; the holder it gave up was the condition's last *)
(* one, so ~GuardConditionSupport runs first.                              *)
AfterDrop(t, c, m, x, s) ==
    IF LastHolder(c, m, x, s)
    THEN [s EXCEPT ![t] = <<Destroyer(c)>> \o @]
    ELSE s

(* create_waitset and create_guardcondition: the native object, then its   *)
(* wrapper.  The wrapper may not come about: C++'s scope guard destroys    *)
(* the native object while bad_alloc is on its way out, Java returns NULL  *)
(* and leaves it.                                                          *)
Create(t, o) ==
    /\ Idle(t)
    /\ o \notin made
    /\ made' = made \cup {o}
    /\ refs' = [refs EXCEPT ![o] = 1]
    /\ \/ mine' = mine \cup {o} /\ UNCHANGED stack
       \/ /\ stack' = IF binding = "cpp" THEN Call(t, Destroyer(o)) ELSE stack
          /\ UNCHANGED mine
    /\ UNCHANGED <<binding, hooked, attached, mu, notified, wakeups, trigger, closed, retired, freed, ctx, owed>>

-------------------------------------------------------------------------------
(* attach_condition *)

(* The application attaches a condition it has a handle of.  Without the   *)
(* binding's hook (the registration of the native method did not succeed)  *)
(* the generated attach runs: it stores no context.                        *)
CallAttach(t, w, c) ==
    /\ Idle(t)
    /\ {w, c} \subseteq mine
    /\ stack' = Call(t, Frame("attach", IF hooked THEN "alloc" ELSE "retired", w, c, None))
    /\ UNCHANGED <<binding, hooked, made, mine, attached, mu, notified, wakeups, trigger, refs, closed, retired, freed, ctx, owed>>

(* allocReleaseCtx, or malloc and NewGlobalRef: out of memory, nothing is  *)
(* attached (C++ lets bad_alloc out, Java returns OUT_OF_RESOURCES).       *)
AttachAlloc(t) ==
    /\ At(t, "attach", "alloc")
    /\ \/ /\ stack' = AfterDrop(t, Top(t).c, mine, ctx, Return(t))
          /\ UNCHANGED ctx
       \/ \E x \in Ctxs :
            /\ ctx[x].c = None
            /\ ctx' = [ctx EXCEPT ![x] = [c |-> Top(t).c, live |-> TRUE]]
            /\ stack' = GotoWith(t, [Top(t) EXCEPT !.at = "retired", !.x = x])
    /\ UNCHANGED <<binding, hooked, made, mine, attached, mu, notified, wakeups, trigger, refs, closed, retired, freed, owed>>

(* What is left of the call when this context was not stored: the binding  *)
(* frees it; the generated attach just returns.                            *)
NotStored(t) == IF Top(t).x = None THEN Return(t) ELSE Goto(t, "discard")

(* conditionRetired, before the lock. *)
AttachRetired(t) ==
    /\ At(t, "attach", "retired")
    /\ stack' = IF Top(t).c \in retired THEN NotStored(t) ELSE Goto(t, "lock")
    /\ UNCHANGED <<binding, hooked, made, mine, attached, mu, notified, wakeups, trigger, refs, closed, retired, freed, ctx, owed>>

(* Mutant: a second attach replaces the stored context. *)
AttachReplaces(t) ==
    LET w == Top(t).w  c == Top(t).c IN
    /\ At(t, "attach", "lock")
    /\ mu[w] = None
    /\ attached' = [attached EXCEPT ![w] = {e \in @ : e.c # c} \cup {[c |-> c, x |-> Top(t).x]}]
    /\ IF \E e \in attached[w] : e.c = c
       THEN stack' = Return(t) /\ UNCHANGED mu
       ELSE stack' = Goto(t, "acquire") /\ mu' = [mu EXCEPT ![w] = t]
    /\ UNCHANGED <<binding, hooked, made, mine, notified, wakeups, trigger, refs, closed, retired, freed, ctx, owed>>

(* Under the wait set's mu: a condition already attached is left as it is, *)
(* out_accepted false; otherwise the entry is appended (or there is no     *)
(* memory for it).                                                         *)
AttachAppend(t) ==
    LET w == Top(t).w  c == Top(t).c IN
    /\ At(t, "attach", "lock")
    /\ mu[w] = None
    /\ \/ /\ \E e \in attached[w] : e.c = c
          /\ stack' = NotStored(t)
          /\ UNCHANGED <<attached, mu>>
       \/ /\ \A e \in attached[w] : e.c # c
          /\ stack' = NotStored(t)
          /\ UNCHANGED <<attached, mu>>
       \/ /\ \A e \in attached[w] : e.c # c
          /\ attached' = [attached EXCEPT ![w] = @ \cup {[c |-> c, x |-> Top(t).x]}]
          /\ mu' = [mu EXCEPT ![w] = t]
          /\ stack' = Goto(t, "acquire")
    /\ UNCHANGED <<binding, hooked, made, mine, notified, wakeups, trigger, refs, closed, retired, freed, ctx, owed>>

(* Mutant: the attachment takes no reference on the condition. *)
AttachAcquireNone(t) ==
    /\ At(t, "attach", "acquire")
    /\ stack' = Goto(t, "register")
    /\ UNCHANGED <<binding, hooked, made, mine, attached, mu, notified, wakeups, trigger, refs, closed, retired, freed, ctx, owed>>

(* gc.quiesce.acquire(), the reference the attachment holds; refused once  *)
(* the condition is tearing down, and the entry is taken back.             *)
AttachAcquire(t) ==
    LET w == Top(t).w  c == Top(t).c IN
    /\ At(t, "attach", "acquire")
    /\ IF c \in closed
       THEN /\ attached' = [attached EXCEPT ![w] = {e \in @ : e.c # c}]
            /\ mu' = [mu EXCEPT ![w] = None]
            /\ stack' = NotStored(t)
            /\ UNCHANGED refs
       ELSE /\ refs' = [refs EXCEPT ![c] = @ + 1]
            /\ stack' = Goto(t, "register")
            /\ UNCHANGED <<attached, mu>>
    /\ UNCHANGED <<binding, hooked, made, mine, notified, wakeups, trigger, closed, retired, freed, ctx, owed>>

(* Mutant: the binding frees the context of an accepted attach too. *)
AttachRegisterDiscards(t) ==
    LET w == Top(t).w  c == Top(t).c IN
    /\ At(t, "attach", "register")
    /\ mu' = [mu EXCEPT ![w] = None]
    /\ wakeups' = [wakeups EXCEPT ![c] = @ \cup {w}]
    /\ stack' = NotStored(t)
    /\ UNCHANGED <<binding, hooked, made, mine, attached, notified, trigger, refs, closed, retired, freed, ctx, owed>>

(* wakeups.register: the list is full, and the entry and the reference are *)
(* taken back; or the wait set is in it.  Either way mu is released.       *)
AttachRegister(t) ==
    LET w == Top(t).w  c == Top(t).c IN
    /\ At(t, "attach", "register")
    /\ mu' = [mu EXCEPT ![w] = None]
    /\ IF Cardinality(wakeups[c]) = Slots
       THEN /\ refs' = [refs EXCEPT ![c] = @ - 1]
            /\ attached' = [attached EXCEPT ![w] = {e \in @ : e.c # c}]
            /\ stack' = NotStored(t)
            /\ UNCHANGED wakeups
       ELSE /\ wakeups' = [wakeups EXCEPT ![c] = @ \cup {w}]
            /\ stack' = Return(t)
            /\ UNCHANGED <<refs, attached>>
    /\ UNCHANGED <<binding, hooked, made, mine, notified, trigger, closed, retired, freed, ctx, owed>>

(* rc # OK or not accepted: the binding frees the context itself. *)
AttachDiscard(t) ==
    /\ At(t, "attach", "discard")
    /\ ctx' = [ctx EXCEPT ![Top(t).x].live = FALSE]
    /\ stack' = AfterDrop(t, Top(t).c, mine, ctx', Return(t))
    /\ UNCHANGED <<binding, hooked, made, mine, attached, mu, notified, wakeups, trigger, refs, closed, retired, freed, owed>>

-------------------------------------------------------------------------------
(* The end of an attachment *)

(* The release hook of a context: it is freed, and with it what it kept.   *)
(* The frame goes on at `at`.                                              *)
FireRelease(t, x, s) ==
    IF x = None
    THEN stack' = s /\ UNCHANGED ctx
    ELSE /\ ctx' = [ctx EXCEPT ![x].live = FALSE]
         /\ stack' = AfterDrop(t, ctx[x].c, mine, ctx', s)

(* A guard condition's reference is given back; the last one frees it. *)
GuardReleased(c) ==
    /\ refs' = [refs EXCEPT ![c] = @ - 1]
    /\ freed' = IF refs[c] = 1 THEN freed \cup {c} ELSE freed

CallDetach(t, w, c) ==
    /\ Idle(t)
    /\ {w, c} \subseteq mine
    /\ stack' = Call(t, Frame("detach", "lock", w, c, None))
    /\ UNCHANGED <<binding, hooked, made, mine, attached, mu, notified, wakeups, trigger, refs, closed, retired, freed, ctx, owed>>

(* Nothing to detach: PRECONDITION_NOT_MET.  Else the entry goes, and mu   *)
(* is kept until the wait set is out of the condition's list.              *)
DetachRemove(t) ==
    LET w == Top(t).w  c == Top(t).c IN
    /\ At(t, "detach", "lock")
    /\ mu[w] = None
    /\ \/ /\ \A e \in attached[w] : e.c # c
          /\ stack' = Goto(t, "return")
          /\ UNCHANGED <<attached, mu>>
       \/ \E e \in attached[w] :
            /\ e.c = c
            /\ attached' = [attached EXCEPT ![w] = @ \ {e}]
            /\ mu' = [mu EXCEPT ![w] = t]
            /\ stack' = GotoWith(t, [Top(t) EXCEPT !.at = "unregister", !.x = e.x])
    /\ UNCHANGED <<binding, hooked, made, mine, notified, wakeups, trigger, refs, closed, retired, freed, ctx, owed>>

DetachUnregister(t) ==
    /\ At(t, "detach", "unregister")
    /\ wakeups' = [wakeups EXCEPT ![Top(t).c] = @ \ {Top(t).w}]
    /\ stack' = Goto(t, "release")
    /\ owed' = owed \ {<<Top(t).w, Top(t).c>>}
    /\ UNCHANGED <<binding, hooked, made, mine, attached, mu, notified, trigger, refs, closed, retired, freed, ctx>>

(* Mutant: the release hook fires inside mu. *)
DetachReleaseLocked(t) ==
    /\ At(t, "detach", "release")
    /\ GuardReleased(Top(t).c)
    /\ stack' = Goto(t, "fire")
    /\ UNCHANGED <<binding, hooked, made, mine, attached, mu, notified, wakeups, trigger, closed, retired, ctx, owed>>

DetachRelease(t) ==
    /\ At(t, "detach", "release")
    /\ GuardReleased(Top(t).c)
    /\ mu' = [mu EXCEPT ![Top(t).w] = None]
    /\ stack' = Goto(t, "fire")
    /\ UNCHANGED <<binding, hooked, made, mine, attached, notified, wakeups, trigger, closed, retired, ctx, owed>>

DetachFire(t) ==
    /\ At(t, "detach", "fire")
    /\ FireRelease(t, Top(t).x, Goto(t, "return"))
    /\ UNCHANGED <<binding, hooked, made, mine, attached, mu, notified, wakeups, trigger, refs, closed, retired, freed, owed>>

DetachReturn(t) ==
    /\ At(t, "detach", "return")
    /\ stack' = AfterDrop(t, Top(t).c, mine, ctx, Return(t))
    /\ UNCHANGED <<binding, hooked, made, mine, attached, mu, notified, wakeups, trigger, refs, closed, retired, freed, ctx, owed>>

-------------------------------------------------------------------------------
(* Destruction *)

(* zzdds_destroy_waitset, from ~WaitSetSupport or destroyWaitSet.  None of *)
(* the wait set's operations takes a reference on it: the application ends *)
(* them first.                                                             *)
CallDestroyWaitSet(t, w) ==
    /\ Idle(t)
    /\ w \in mine
    /\ ~InCall({"attach", "detach", "wait"}, "w", w)
    /\ mine' = mine \ {w}
    /\ stack' = Call(t, Destroyer(w))
    /\ UNCHANGED <<binding, hooked, made, attached, mu, notified, wakeups, trigger, refs, closed, retired, freed, ctx, owed>>

WaitSetClose(t) ==
    /\ At(t, "destroyWaitSet", "close")
    /\ closed' = closed \cup {Top(t).w}
    /\ retired' = retired \cup {Top(t).w}
    /\ stack' = Goto(t, "teardown")
    /\ UNCHANGED <<binding, hooked, made, mine, attached, mu, notified, wakeups, trigger, refs, freed, ctx, owed>>

(* The owner's reference, or a drained handle's, is given back: the last   *)
(* one runs reallyDeinit in its place.                                     *)
WaitSetReleased(t, w, s) ==
    /\ refs' = [refs EXCEPT ![w] = @ - 1]
    /\ stack' = IF refs[w] = 1
                THEN [s EXCEPT ![t] = <<Frame("freeWaitSet", "next", w, None, None)>> \o @]
                ELSE s

WaitSetTeardown(t) ==
    /\ At(t, "destroyWaitSet", "teardown")
    /\ WaitSetReleased(t, Top(t).w, Return(t))
    /\ UNCHANGED <<binding, hooked, made, mine, attached, mu, notified, wakeups, trigger, closed, retired, freed, ctx, owed>>

(* reallyDeinit: every entry left is unregistered from its condition, the  *)
(* condition's reference given back, the hook fired; then the memory goes. *)
FreeUnregister(t) ==
    LET w == Top(t).w IN
    /\ At(t, "freeWaitSet", "next")
    /\ \/ \E e \in attached[w] :
            /\ wakeups' = [wakeups EXCEPT ![e.c] = @ \ {w}]
            /\ attached' = [attached EXCEPT ![w] = @ \ {e}]
            /\ stack' = GotoWith(t, [Top(t) EXCEPT !.at = "release", !.c = e.c, !.x = e.x])
            /\ owed' = owed \ {<<w, e.c>>}
            /\ UNCHANGED freed
       \/ /\ attached[w] = {}
          /\ freed' = freed \cup {w}
          /\ stack' = Return(t)
          /\ UNCHANGED <<wakeups, attached, owed>>
    /\ UNCHANGED <<binding, hooked, made, mine, mu, notified, trigger, refs, closed, retired, ctx>>

FreeRelease(t) ==
    /\ At(t, "freeWaitSet", "release")
    /\ GuardReleased(Top(t).c)
    /\ stack' = Goto(t, "fire")
    /\ UNCHANGED <<binding, hooked, made, mine, attached, mu, notified, wakeups, trigger, closed, retired, ctx, owed>>

FreeFire(t) ==
    /\ At(t, "freeWaitSet", "fire")
    /\ FireRelease(t, Top(t).x, GotoWith(t, [Top(t) EXCEPT !.at = "next", !.c = None, !.x = None]))
    /\ UNCHANGED <<binding, hooked, made, mine, attached, mu, notified, wakeups, trigger, refs, closed, retired, freed, owed>>

(* The application gives up its condition: C++ drops its shared_ptr, and   *)
(* the condition dies with its last holder; Java destroys it explicitly,   *)
(* attached or not.  Neither does so during a call that borrows it.        *)
DropGuard(t, c) ==
    /\ Idle(t)
    /\ c \in mine
    /\ ~InCall({"set"} \cup IF binding = "java" THEN {"attach"} ELSE {}, "c", c)
    /\ mine' = mine \ {c}
    /\ stack' = IF binding = "java"
                THEN Call(t, Destroyer(c))
                ELSE AfterDrop(t, c, mine', ctx, stack)
    /\ UNCHANGED <<binding, hooked, made, attached, mu, notified, wakeups, trigger, refs, closed, retired, freed, ctx, owed>>

GuardClose(t) ==
    /\ At(t, "destroyGuard", "close")
    /\ closed' = closed \cup {Top(t).c}
    /\ stack' = Goto(t, "drain")
    /\ UNCHANGED <<binding, hooked, made, mine, attached, mu, notified, wakeups, trigger, refs, retired, freed, ctx, owed>>

(* quiesce.acquireIfAlive: a wait set that is tearing down can still be    *)
(* told, as long as its memory is held.                                    *)
CanAcquireHandle(w) == refs[w] > 0

(* WakeupList.drain, under the list's mutex: the list is emptied, and each *)
(* wait set in it pinned or, its last reference gone, left out.            *)
GuardDrain(t) ==
    LET c == Top(t).c
        pinned == {w \in wakeups[c] : CanAcquireHandle(w)} IN
    /\ At(t, "destroyGuard", "drain")
    /\ refs' = [o \in Objects |-> IF o \in pinned THEN refs[o] + 1 ELSE refs[o]]
    /\ wakeups' = [wakeups EXCEPT ![c] = {}]
    /\ stack' = GotoWith(t, [Top(t) EXCEPT !.at = "invalidate", !.todo = pinned])
    /\ owed' = {p \in owed : p[2] # c}
    /\ UNCHANGED <<binding, hooked, made, mine, attached, mu, notified, trigger, closed, retired, freed, ctx>>

(* vtInvalidateHandle of the next wait set: its entry goes, unless a       *)
(* detach took it first.                                                   *)
GuardInvalidate(t) ==
    LET c == Top(t).c IN
    /\ At(t, "destroyGuard", "invalidate")
    /\ \E w \in Top(t).todo :
         LET gone == {e \in attached[w] : e.c = c}
             told == [Top(t) EXCEPT !.w = w, !.todo = @ \ {w}] IN
         /\ mu[w] = None
         /\ attached' = [attached EXCEPT ![w] = @ \ gone]
         /\ stack' = GotoWith(t, IF gone = {}
                                 THEN [told EXCEPT !.at = "unpin"]
                                 ELSE [told EXCEPT !.at = "release", !.x = (CHOOSE e \in gone : TRUE).x])
    /\ UNCHANGED <<binding, hooked, made, mine, mu, notified, wakeups, trigger, refs, closed, retired, freed, ctx, owed>>

(* Mutant: the attachment's reference is not given back. *)
GuardUnrefDropped(t) ==
    /\ At(t, "destroyGuard", "release")
    /\ stack' = Goto(t, "fire")
    /\ UNCHANGED <<binding, hooked, made, mine, attached, mu, notified, wakeups, trigger, refs, closed, retired, freed, ctx, owed>>

(* The attachment's reference; the destroying thread still has the owner's. *)
GuardUnref(t) ==
    /\ At(t, "destroyGuard", "release")
    /\ GuardReleased(Top(t).c)
    /\ stack' = Goto(t, "fire")
    /\ UNCHANGED <<binding, hooked, made, mine, attached, mu, notified, wakeups, trigger, closed, retired, ctx, owed>>

GuardFire(t) ==
    /\ At(t, "destroyGuard", "fire")
    /\ FireRelease(t, Top(t).x, Goto(t, "unpin"))
    /\ UNCHANGED <<binding, hooked, made, mine, attached, mu, notified, wakeups, trigger, refs, closed, retired, freed, owed>>

GuardUnpin(t) ==
    /\ At(t, "destroyGuard", "unpin")
    /\ WaitSetReleased(t, Top(t).w, GotoWith(t, [Top(t) EXCEPT !.at = "invalidate", !.w = None, !.x = None]))
    /\ UNCHANGED <<binding, hooked, made, mine, attached, mu, notified, wakeups, trigger, closed, retired, freed, ctx, owed>>

(* c_abi.retire and beginTeardown: an attachment whose wait set is itself  *)
(* being freed may hold the last reference.                                *)
GuardTeardown(t) ==
    /\ At(t, "destroyGuard", "invalidate")
    /\ Top(t).todo = {}
    /\ retired' = retired \cup {Top(t).c}
    /\ GuardReleased(Top(t).c)
    /\ stack' = Return(t)
    /\ UNCHANGED <<binding, hooked, made, mine, attached, mu, notified, wakeups, trigger, closed, ctx, owed>>

-------------------------------------------------------------------------------
(* wait and set_trigger_value *)

(* One thread waits on a wait set at a time, as DDS requires of the        *)
(* application.                                                            *)
CallWait(t, w) ==
    /\ Idle(t)
    /\ w \in mine
    /\ ~InCall({"wait"}, "w", w)
    /\ stack' = Call(t, Frame("wait", "lock", w, None, None))
    /\ UNCHANGED <<binding, hooked, made, mine, attached, mu, notified, wakeups, trigger, refs, closed, retired, freed, ctx, owed>>

WaitLock(t) ==
    LET w == Top(t).w IN
    /\ At(t, "wait", "lock")
    /\ mu[w] = None
    /\ mu' = [mu EXCEPT ![w] = t]
    /\ stack' = GotoWith(t, [Top(t) EXCEPT !.at = "scan", !.todo = {e.c : e \in attached[w]}])
    /\ owed' = {p \in owed : p[1] # w}
    /\ UNCHANGED <<binding, hooked, made, mine, attached, notified, wakeups, trigger, refs, closed, retired, freed, ctx>>

(* Each trigger is read once, at a moment of its own; a triggered one ends *)
(* the wait (what else is triggered only lengthens the answer).            *)
WaitScan(t) ==
    LET w == Top(t).w IN
    /\ At(t, "wait", "scan")
    /\ \/ \E c \in Top(t).todo :
            IF c \notin retired /\ trigger[c]
            THEN /\ mu' = [mu EXCEPT ![w] = None]
                 /\ stack' = Return(t)
            ELSE /\ stack' = GotoWith(t, [Top(t) EXCEPT !.todo = @ \ {c}])
                 /\ UNCHANGED mu
       \/ /\ Top(t).todo = {}
          /\ mu' = [mu EXCEPT ![w] = None]
          /\ stack' = Goto(t, "block")
    /\ UNCHANGED <<binding, hooked, made, mine, attached, notified, wakeups, trigger, refs, closed, retired, freed, ctx, owed>>

(* Mutant: the wait sleeps whether or not it was notified. *)
WaitBlockAlways(t) ==
    /\ At(t, "wait", "block")
    /\ notified' = [notified EXCEPT ![Top(t).w] = FALSE]
    /\ stack' = Goto(t, "asleep")
    /\ UNCHANGED <<binding, hooked, made, mine, attached, mu, wakeups, trigger, refs, closed, retired, freed, ctx, owed>>

(* Under cv_mu: a notification since the scan is consumed instead of       *)
(* sleeping.                                                               *)
WaitBlock(t) ==
    /\ At(t, "wait", "block")
    /\ notified' = [notified EXCEPT ![Top(t).w] = FALSE]
    /\ stack' = Goto(t, IF notified[Top(t).w] THEN "lock" ELSE "asleep")
    /\ UNCHANGED <<binding, hooked, made, mine, attached, mu, wakeups, trigger, refs, closed, retired, freed, ctx, owed>>

(* The condition variable was signalled, or the deadline passed. *)
WaitWake(t) ==
    /\ At(t, "wait", "asleep")
    /\ notified' = [notified EXCEPT ![Top(t).w] = FALSE]
    /\ \/ notified[Top(t).w] /\ stack' = Goto(t, "lock")
       \/ stack' = Return(t)
    /\ UNCHANGED <<binding, hooked, made, mine, attached, mu, wakeups, trigger, refs, closed, retired, freed, ctx, owed>>

CallSetTrigger(t, c, v) ==
    /\ Idle(t)
    /\ c \in mine
    /\ trigger' = [trigger EXCEPT ![c] = v]
    /\ stack' = IF v THEN Call(t, Frame("set", "notify", None, c, None)) ELSE stack
    /\ owed' = IF v THEN owed \cup (wakeups[c] \X {c}) ELSE {p \in owed : p[2] # c}
    /\ UNCHANGED <<binding, hooked, made, mine, attached, mu, notified, wakeups, refs, closed, retired, freed, ctx>>

(* notifyAll: wakeNotify of every wait set in the list. *)
NotifyAll(t) ==
    /\ At(t, "set", "notify")
    /\ notified' = [w \in WaitSetIds |-> notified[w] \/ w \in wakeups[Top(t).c]]
    /\ stack' = Return(t)
    /\ UNCHANGED <<binding, hooked, made, mine, attached, mu, wakeups, trigger, refs, closed, retired, freed, ctx, owed>>

-------------------------------------------------------------------------------
TypeOK ==
    /\ binding \in {"cpp", "java"} /\ hooked \in BOOLEAN
    /\ mine \subseteq made /\ made \subseteq Objects
    /\ attached \in [WaitSetIds -> SUBSET [c : Conds, x : Ctxs \cup {None}]]
    /\ mu \in [WaitSetIds -> Threads \cup {None}]
    /\ notified \in [WaitSetIds -> BOOLEAN] /\ trigger \in [Conds -> BOOLEAN]
    /\ wakeups \in [Conds -> SUBSET WaitSetIds]
    /\ refs \in [Objects -> Nat]
    /\ freed \subseteq closed /\ retired \subseteq closed /\ closed \subseteq made
    /\ \A x \in Ctxs : ctx[x].c \in Conds \cup {None} /\ ctx[x].live \in BOOLEAN
    /\ owed \subseteq WaitSetIds \X Conds

Init ==
    /\ binding \in {"cpp", "java"}
    /\ hooked \in {TRUE, binding = "cpp"}
    /\ made \in Bygone /\ mine = {}
    /\ stack = [t \in Threads |-> <<>>]
    /\ attached = [w \in WaitSetIds |-> {}]
    /\ mu = [w \in WaitSetIds |-> None]
    /\ notified = [w \in WaitSetIds |-> FALSE]
    /\ wakeups = [c \in Conds |-> {}]
    /\ trigger = [c \in Conds |-> FALSE]
    /\ refs = [o \in Objects |-> 0]
    /\ closed = made /\ retired = made /\ freed = made
    /\ ctx = [x \in Ctxs |-> [c |-> None, live |-> FALSE]]
    /\ owed = {}

(* A step of a call being made. *)
Step(t) ==
    \/ AttachAlloc(t) \/ AttachRetired(t) \/ AttachAppend(t) \/ AttachAcquire(t)
    \/ AttachRegister(t) \/ AttachDiscard(t)
    \/ DetachRemove(t) \/ DetachUnregister(t) \/ DetachRelease(t) \/ DetachFire(t) \/ DetachReturn(t)
    \/ WaitSetClose(t) \/ WaitSetTeardown(t) \/ FreeUnregister(t) \/ FreeRelease(t) \/ FreeFire(t)
    \/ GuardClose(t) \/ GuardDrain(t) \/ GuardInvalidate(t) \/ GuardUnref(t) \/ GuardFire(t)
    \/ GuardUnpin(t) \/ GuardTeardown(t)
    \/ WaitLock(t) \/ WaitScan(t) \/ WaitBlock(t) \/ WaitWake(t)
    \/ NotifyAll(t)

(* The application makes a call. *)
Begin(t) ==
    \/ \E o \in Objects : Create(t, o)
    \/ \E w \in WaitSetIds, c \in Conds : CallAttach(t, w, c) \/ CallDetach(t, w, c)
    \/ \E w \in WaitSetIds : CallDestroyWaitSet(t, w) \/ CallWait(t, w)
    \/ \E c \in Conds : DropGuard(t, c) \/ \E v \in BOOLEAN : CallSetTrigger(t, c, v)

Next == \E t \in Threads : Step(t) \/ Begin(t)

Spec == Init /\ [][Next]_vars

-------------------------------------------------------------------------------
(* Properties *)

(* What a frame's remaining steps read or write. *)
Touched(f) ==
    CASE f.op = "attach" /\ f.at # "discard" -> {f.w, f.c}
      [] f.op = "detach" /\ f.at \in {"unregister", "release"} -> {f.w, f.c}
      [] f.op = "detach" /\ f.at = "lock" -> {f.w}
      [] f.op \in {"destroyWaitSet", "wait"} -> {f.w} \cup f.todo
      [] f.op = "freeWaitSet" -> {f.w} \cup {e.c : e \in attached[f.w]}
                                 \cup IF f.at = "release" THEN {f.c} ELSE {}
      [] f.op = "destroyGuard" -> {f.c} \cup f.todo \cup IF f.w = None THEN {} ELSE {f.w}
      [] f.op = "set" -> {f.c} \cup wakeups[f.c]
      [] OTHER -> {}

(* Whichever side is torn down first, and whatever a hook destroys on the  *)
(* way, no step of any thread touches a wait set or a condition that is    *)
(* freed, and no list of a living object names one that is (waitset.zig,   *)
(* "Teardown (lifecycle safety)").                                         *)
FreedUntouched ==
    /\ \A t \in Threads : \A f \in FramesOf(t) : Touched(f) \cap freed = {}
    /\ \A w \in WaitSetIds \ freed : \A e \in attached[w] : e.c \notin freed
    /\ \A c \in Conds \ freed : wakeups[c] \cap freed = {}

(* The owners of a context: an attach that may still discard it, an entry  *)
(* of a wait set, a frame that is about to fire it.                        *)
Owners(x) ==
    {p \in WaitSetIds \X UNION {attached[w] : w \in WaitSetIds} :
        p[2] \in attached[p[1]] /\ p[2].x = x}
    \cup {t \in Threads : \E f \in FramesOf(t) :
            /\ f.x = x
            /\ \/ f.op = "attach" /\ f.at \notin {"acquire", "register"}
               \/ f.op \in {"detach", "destroyGuard"} /\ f.at \in {"unregister", "release", "fire"}
               \/ f.op = "freeWaitSet" /\ f.at \in {"release", "fire"}}

(* Every keep-alive context is released exactly once: as long as it lives  *)
(* exactly one party will release it, and once released nobody will        *)
(* (zzdds_c.h, "fires exactly once when THIS attachment ends").            *)
ReleasedOnce ==
    \A x \in Ctxs : Cardinality(Owners(x)) = IF ctx[x].live THEN 1 ELSE 0

(* While a C++ condition is attached with a context, nothing begins to     *)
(* destroy it, though the application dropped its last shared_ptr          *)
(* (WaitSetSupport::attach_condition).                                     *)
AttachedIsKept ==
    binding = "cpp" => \A w \in WaitSetIds : \A e \in attached[w] : e.c \notin closed

(* Nothing leaks: with no call being made, whatever the application gave   *)
(* up and no wait set holds is freed.                                      *)
Reclaimed ==
    (\A t \in Threads : Idle(t)) =>
        /\ closed \subseteq freed
        /\ binding = "cpp" =>
             \A o \in made \ freed :
                \/ o \in mine
                \/ \E w \in WaitSetIds : \E e \in attached[w] : e.c = o

(* No wakeup is lost between a wait's scan and its sleep: a waiter that    *)
(* sleeps unsignalled is owed nothing, unless the thread that set the      *)
(* trigger has still to notify it (vtWait's `notified` flag).              *)
SleeperOwedNothing ==
    \A t \in Threads : \A p \in owed :
        (At(t, "wait", "asleep") /\ Top(t).w = p[1] /\ ~notified[p[1]]) => InCall({"set"}, "c", p[2])

(* A thread inside a wait set's lock is in the middle of a step sequence   *)
(* that waits for no other lock and runs no hook, so every call comes to   *)
(* its end (AttachedCondition.fireRelease, "Never call while holding").    *)
HolderRuns ==
    \A w \in WaitSetIds : mu[w] # None =>
        /\ ~Idle(mu[w])
        /\ Top(mu[w]).w = w
        /\ <<Top(mu[w]).op, Top(mu[w]).at>> \in
             {<<"attach", "acquire">>, <<"attach", "register">>,
              <<"detach", "unregister">>, <<"detach", "release">>, <<"wait", "scan">>}
===============================================================================
