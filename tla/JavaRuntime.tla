----------------------------- MODULE JavaRuntime -----------------------------
(***************************************************************************)
(* The Java runtime's natives (java_runtime/zzdds_java_runtime.c): the     *)
(* lazily cached classes they share, and the registration of a type        *)
(* support, whose context the core owns once installed                     *)
(* (c_abi/typesupport.zig, dcps/participant.zig registerTypeSupport) and   *)
(* every receive, match and query of the type calls back through.          *)
(*                                                                         *)
(* One participant and one type.  A thread is in one call at a time;       *)
(* participant.mu, a reader's mu and the class cache's mutex are locks a   *)
(* frame holds over several steps, so that what they order is visible.     *)
(***************************************************************************)
EXTENDS Callers, Integers, FiniteSets

CONSTANTS
    Regs,      \* type-support contexts: a bound on the registrations
    Readers,   \* data readers of the type
    Called     \* names of the natives that are called

ASSUME JavaAssumption == None \notin Threads \cup Regs \cup Readers

VARIABLES
    frame,     \* per thread, the call it is in
    context,   \* per registration, "unused", "live" or "released"
    getter,    \* registrations whose class has getFieldFromCdr
    registry,  \* the type's entry of type_support_registry
    pmu,       \* the thread inside participant.mu
    rmu,       \* per reader, the thread inside its mu
    reader,    \* per reader, its place in active_readers and what it cached
    gone,      \* the participant is deleted
    cache,     \* per native and use, the static zzdds_java_class_cache
    globals,   \* per native and use, global references to the class
    cmu        \* the thread inside zzdds_java_class_cache_mu

jvars == <<frame, context, getter, registry, pmu, rmu, reader, gone, cache, globals, cmu>>

-------------------------------------------------------------------------------
(* The natives: the class an argument must be an instance of, and the      *)
(* class the result is boxed into.  Each has a static cache for either.    *)
(* One that checks and one that does both stand for the others, which      *)
(* differ in their classes only, or box without a check.                   *)

Native(name, checks, boxes) == [name |-> name, checks |-> checks, boxes |-> boxes]

RegisterTypeSupport == Native("registerTypeSupport", "dcps.DomainParticipantImpl", None)
AsZzddsDataWriter   == Native("asZzddsDataWriter", "dcps.DataWriterImpl", "ext.DataWriterImpl")

Natives ==
    {n \in {RegisterTypeSupport, AsZzddsDataWriter} : n.name \in Called}

Caches == Natives \X {"checks", "boxes"}

-------------------------------------------------------------------------------
(* Frames: `use` is the cache of the class lookup being made, `x` the      *)
(* context the call holds a pointer to, `old` the one it replaced, `r` the *)
(* reader it is about and `todo` the readers a registration has yet to     *)
(* refresh.                                                                *)

NoCall == [op |-> "none", at |-> "none", native |-> None, use |-> None,
           x |-> None, old |-> None, r |-> None, todo |-> {}]

NewCall(op, at) == [NoCall EXCEPT !.op = op, !.at = at]

Free(t) == frame[t] = NoCall
In(t, op, at) == frame[t].op = op /\ frame[t].at = at
GoOn(t, at)    == frame' = [frame EXCEPT ![t].at = at]
Continue(t, f) == frame' = [frame EXCEPT ![t] = f]
End(t)      == frame' = [frame EXCEPT ![t] = NoCall]

-------------------------------------------------------------------------------
(* zzdds_java_get_or_cache_class *)

CallNative(t, n) ==
    /\ Free(t)
    /\ n = RegisterTypeSupport => ~gone
    /\ Continue(t, [NewCall("native", "lookup") EXCEPT
                        !.native = n, !.use = "checks"])
    /\ UNCHANGED <<context, getter, registry, pmu, rmu, reader, gone, cache, globals, cmu>>

Key(t) == <<frame[t].native, frame[t].use>>

(* Mutant: the lookup goes on though another thread is inside the mutex. *)
LookupUnlocked(t) ==
    /\ In(t, "native", "lookup")
    /\ IF cache[Key(t)].cls
       THEN GoOn(t, "found") /\ UNCHANGED cmu
       ELSE GoOn(t, "find") /\ cmu' = t
    /\ UNCHANGED <<context, getter, registry, pmu, rmu, reader, gone, cache, globals>>

LookupLock(t) ==
    /\ In(t, "native", "lookup")
    /\ cmu = None
    /\ IF cache[Key(t)].cls
       THEN GoOn(t, "found") /\ UNCHANGED cmu
       ELSE GoOn(t, "find") /\ cmu' = t
    /\ UNCHANGED <<context, getter, registry, pmu, rmu, reader, gone, cache, globals>>

(* FindClass and NewGlobalRef: either may fail, and the cache stays empty  *)
(* for a later call to try again.                                          *)
LookupFind(t) ==
    /\ In(t, "native", "find")
    /\ \/ End(t) /\ cmu' = None /\ UNCHANGED globals
       \/ GoOn(t, "method") /\ globals' = [globals EXCEPT ![Key(t)] = @ + 1] /\ UNCHANGED cmu
    /\ UNCHANGED <<context, getter, registry, pmu, rmu, reader, gone, cache>>

(* GetMethodID: on failure the global reference is deleted; else the       *)
(* constructor is stored first.                                            *)
LookupMethod(t) ==
    /\ In(t, "native", "method")
    /\ \/ /\ End(t)
          /\ cmu' = None
          /\ globals' = [globals EXCEPT ![Key(t)] = @ - 1]
          /\ UNCHANGED cache
       \/ /\ GoOn(t, "publish")
          /\ cache' = [cache EXCEPT ![Key(t)].ctor = TRUE]
          /\ UNCHANGED <<cmu, globals>>
    /\ UNCHANGED <<context, getter, registry, pmu, rmu, reader, gone>>

LookupPublish(t) ==
    /\ In(t, "native", "publish")
    /\ cache' = [cache EXCEPT ![Key(t)].cls = TRUE]
    /\ cmu' = None
    /\ GoOn(t, "found")
    /\ UNCHANGED <<context, getter, registry, pmu, rmu, reader, gone, globals>>

(* zzdds_java_require_instance_of, the unboxing and the native call: the   *)
(* argument is not what it must be, and an exception is left pending; or   *)
(* the call was made and its result, if any, is to be boxed.               *)
NativeChecked(t) ==
    LET n == frame[t].native IN
    /\ In(t, "native", "found")
    /\ frame[t].use = "checks"
    /\ \/ End(t)
       \/ n = RegisterTypeSupport /\ ~gone /\ Continue(t, NewCall("register", "alloc"))
       \/ n.boxes # None /\ Continue(t, [frame[t] EXCEPT !.at = "lookup", !.use = "boxes"])
    /\ UNCHANGED <<context, getter, registry, pmu, rmu, reader, gone, cache, globals, cmu>>

(* NewObject of the cached pair, read outside the mutex. *)
NativeBoxes(t) ==
    /\ In(t, "native", "found")
    /\ frame[t].use = "boxes"
    /\ End(t)
    /\ UNCHANGED <<context, getter, registry, pmu, rmu, reader, gone, cache, globals, cmu>>

-------------------------------------------------------------------------------
(* registerTypeSupport *)

(* malloc, NewGlobalRef or GetStaticMethodID fails and what was made is    *)
(* released again; or there is a context, of a class with or without       *)
(* getFieldFromCdr.                                                        *)
RegisterAlloc(t) ==
    /\ In(t, "register", "alloc")
    /\ \/ End(t) /\ UNCHANGED <<context, getter>>
       \/ \E x \in Regs :
            /\ context[x] = "unused"
            /\ context' = [context EXCEPT ![x] = "live"]
            /\ getter' \in {getter, getter \cup {x}}
            /\ Continue(t, [frame[t] EXCEPT !.at = "adapter", !.x = x])
    /\ UNCHANGED <<registry, pmu, rmu, reader, gone, cache, globals, cmu>>

(* zzdds_register_type_support_ctx: no adapter, no registration. *)
RegisterAdapter(t) ==
    /\ In(t, "register", "adapter")
    /\ \E at \in {"failed", "install"} : GoOn(t, at)
    /\ UNCHANGED <<context, getter, registry, pmu, rmu, reader, gone, cache, globals, cmu>>

(* participant.registerTypeSupport: it consumes the support on every       *)
(* outcome.  It fails (no memory for the name or the entry, or the entry   *)
(* is an immutable registration): its deferred cleanup releases the        *)
(* context, through deinitAdapter and zzdds_java_ts_ctx_deinit.  Or it     *)
(* goes on inside participant.mu, with the readers to refresh if it        *)
(* replaces an entry.                                                      *)
RegisterInstall(t) ==
    /\ In(t, "register", "install")
    /\ pmu = None
    /\ \/ /\ context' = [context EXCEPT ![frame[t].x] = "released"]
          /\ GoOn(t, "failed")
          /\ UNCHANGED pmu
       \/ /\ pmu' = t
          /\ Continue(t, [frame[t] EXCEPT !.at = "refresh",
                  !.todo = IF registry = None THEN {} ELSE {r \in Readers : reader[r].active}])
          /\ UNCHANGED context
    /\ UNCHANGED <<getter, registry, rmu, reader, gone, cache, globals, cmu>>

Getter(x) == IF x \in getter THEN x ELSE None

(* Mutant: what the reader filters with is not refreshed. *)
RegisterRefreshKeyOnly(t) ==
    /\ In(t, "register", "refresh")
    /\ \E r \in frame[t].todo :
        /\ reader' = [reader EXCEPT ![r].key = frame[t].x]
        /\ Continue(t, [frame[t] EXCEPT !.todo = @ \ {r}])
    /\ UNCHANGED <<context, getter, registry, pmu, rmu, gone, cache, globals, cmu>>

(* One active reader is moved off the old context: its key-hash functions, *)
(* and, under its own mu, what refreshGetFieldFn caches, if the reader has *)
(* registered for it yet.                                                  *)
RegisterRefresh(t) ==
    /\ In(t, "register", "refresh")
    /\ \E r \in frame[t].todo :
        /\ rmu[r] = None
        /\ reader' = [reader EXCEPT ![r].key = frame[t].x,
                                    ![r].field = IF reader[r].refreshes THEN Getter(frame[t].x) ELSE @]
        /\ Continue(t, [frame[t] EXCEPT !.todo = @ \ {r}])
    /\ UNCHANGED <<context, getter, registry, pmu, rmu, gone, cache, globals, cmu>>

RegisterSwap(t) ==
    /\ In(t, "register", "refresh")
    /\ frame[t].todo = {}
    /\ registry' = frame[t].x
    /\ pmu' = None
    /\ IF registry = None
       THEN End(t)
       ELSE Continue(t, [frame[t] EXCEPT !.at = "cleanup", !.old = registry, !.x = None])
    /\ UNCHANGED <<context, getter, rmu, reader, gone, cache, globals, cmu>>

(* The deferred cleanup, after the unlock: the replaced context. *)
RegisterCleanup(t) ==
    /\ In(t, "register", "cleanup")
    /\ context' = [context EXCEPT ![frame[t].old] = "released"]
    /\ End(t)
    /\ UNCHANGED <<getter, registry, pmu, rmu, reader, gone, cache, globals, cmu>>

(* Mutant: the native returns the error and releases nothing. *)
RegisterFailedLeaks(t) ==
    /\ In(t, "register", "failed")
    /\ End(t)
    /\ UNCHANGED <<context, getter, registry, pmu, rmu, reader, gone, cache, globals, cmu>>

(* rc # 0: "nothing installed it", the native releases the context.        *)
RegisterFailed(t) ==
    /\ In(t, "register", "failed")
    /\ context' = [context EXCEPT ![frame[t].x] = "released"]
    /\ End(t)
    /\ UNCHANGED <<getter, registry, pmu, rmu, reader, gone, cache, globals, cmu>>

-------------------------------------------------------------------------------
(* Readers of the type *)

NoReader == [made |-> FALSE, active |-> FALSE, refreshes |-> FALSE, key |-> None, field |-> None]

(* subCreateProtoReader: the reader is entered with the key-hash functions *)
(* of the registry's present entry.                                        *)
CreateReader(t, r) ==
    /\ Free(t) /\ ~gone /\ pmu = None
    /\ ~reader[r].made
    /\ reader' = [reader EXCEPT ![r] = [NoReader EXCEPT !.made = TRUE, !.active = TRUE, !.key = registry]]
    /\ Continue(t, [NewCall("create", "field") EXCEPT !.r = r])
    /\ UNCHANGED <<context, getter, registry, pmu, rmu, gone, cache, globals, cmu>>

(* subRegisterReaderGetFieldRefresh: from now on a registration refreshes  *)
(* the reader, and its first value is pushed in the same critical section. *)
CreateField(t) ==
    LET r == frame[t].r IN
    /\ In(t, "create", "field")
    /\ pmu = None /\ rmu[r] = None
    /\ reader' = [reader EXCEPT ![r].refreshes = TRUE, ![r].field = Getter(registry)]
    /\ End(t)
    /\ UNCHANGED <<context, getter, registry, pmu, rmu, gone, cache, globals, cmu>>

(* subDestroyProtoReader: out of active_readers.  Calls that pinned the    *)
(* reader before go on.                                                    *)
DeleteReader(t, r) ==
    /\ Free(t) /\ pmu = None
    /\ reader[r].active /\ reader[r].refreshes
    /\ \A u \in Threads : frame[u].op # "query" \/ frame[u].r # r
    /\ reader' = [reader EXCEPT ![r].active = FALSE]
    /\ UNCHANGED <<frame, context, getter, registry, pmu, rmu, gone, cache, globals, cmu>>

(* A DATA for the reader: inside participant.mu it is pinned, and a sample *)
(* without PID_KEY_HASH has its key hash computed (pinReaderLocked,        *)
(* resolveKeyHash).                                                        *)
Receive(t, r) ==
    /\ Free(t) /\ pmu = None
    /\ reader[r].active
    /\ pmu' = t
    /\ Continue(t, [NewCall("receive", "hash") EXCEPT !.r = r])
    /\ UNCHANGED <<context, getter, registry, rmu, reader, gone, cache, globals, cmu>>

ReceiveHash(t) ==
    /\ In(t, "receive", "hash")
    /\ pmu' = None
    /\ GoOn(t, "deliver")
    /\ UNCHANGED <<context, getter, registry, rmu, reader, gone, cache, globals, cmu>>

(* onReceive of the pinned reader: the content filter, inside its mu. *)
ReceiveLock(t) ==
    LET r == frame[t].r IN
    /\ In(t, "receive", "deliver")
    /\ rmu[r] = None
    /\ rmu' = [rmu EXCEPT ![r] = t]
    /\ GoOn(t, "filter")
    /\ UNCHANGED <<context, getter, registry, pmu, reader, gone, cache, globals, cmu>>

(* A read or take with a QueryCondition. *)
Query(t, r) ==
    /\ Free(t)
    /\ reader[r].active /\ reader[r].refreshes
    /\ rmu[r] = None
    /\ rmu' = [rmu EXCEPT ![r] = t]
    /\ Continue(t, [NewCall("query", "filter") EXCEPT !.r = r])
    /\ UNCHANGED <<context, getter, registry, pmu, reader, gone, cache, globals, cmu>>

(* zzdds_java_get_field_from_cdr_ctx reads the field through its context.  *)
(* The static caches it unboxes the value with are not modelled.           *)
Filtered(t) ==
    /\ frame[t].at = "filter"
    /\ rmu' = [rmu EXCEPT ![frame[t].r] = None]
    /\ End(t)
    /\ UNCHANGED <<context, getter, registry, pmu, reader, gone, cache, globals, cmu>>

(* A writer matches: inside participant.mu, prematchFor copies the         *)
(* reader's key-hash context into the job.                                 *)
Match(t, r) ==
    /\ Free(t) /\ pmu = None
    /\ reader[r].active /\ reader[r].key # None
    /\ Continue(t, [NewCall("match", "collect") EXCEPT !.r = r, !.x = reader[r].key])
    /\ UNCHANGED <<context, getter, registry, pmu, rmu, reader, gone, cache, globals, cmu>>

(* The job, outside participant.mu: Prematch.collect. *)
MatchCollect(t) ==
    /\ In(t, "match", "collect")
    /\ End(t)
    /\ UNCHANGED <<context, getter, registry, pmu, rmu, reader, gone, cache, globals, cmu>>

(* The participant's teardown, its readers deleted and the calls on it at  *)
(* an end: what the registry holds is released.                            *)
DeleteParticipant(t) ==
    /\ \A u \in Threads : frame[u].op \in {"none", "native"}
    /\ Free(t) /\ ~gone
    /\ \A r \in Readers : ~reader[r].active
    /\ gone' = TRUE
    /\ context' = [x \in Regs |-> IF x = registry THEN "released" ELSE context[x]]
    /\ registry' = None
    /\ UNCHANGED <<frame, getter, pmu, rmu, reader, cache, globals, cmu>>

-------------------------------------------------------------------------------
(* The calls a thread may be in. *)
Calls ==
    [op     : {"none", "native", "register", "create", "receive", "query", "match"},
     at     : {"none", "lookup", "find", "method", "publish", "found", "alloc", "adapter", "install",
               "refresh", "cleanup", "failed", "field", "hash", "deliver", "filter", "collect"},
     native : Natives \cup {None}, use : {"checks", "boxes", None},
     x      : Regs \cup {None},    old : Regs \cup {None},
     r      : Readers \cup {None}, todo : SUBSET Readers]

JavaTypeOK ==
    /\ frame \in [Threads -> Calls]
    /\ context \in [Regs -> {"unused", "live", "released"}] /\ getter \subseteq Regs
    /\ registry \in Regs \cup {None}
    /\ pmu \in Threads \cup {None} /\ cmu \in Threads \cup {None}
    /\ rmu \in [Readers -> Threads \cup {None}]
    /\ reader \in [Readers -> [made : BOOLEAN, active : BOOLEAN, refreshes : BOOLEAN,
                               key : Regs \cup {None}, field : Regs \cup {None}]]
    /\ gone \in BOOLEAN
    /\ cache \in [Caches -> [cls : BOOLEAN, ctor : BOOLEAN]] /\ globals \in [Caches -> Int]

Blank ==
    /\ frame = [t \in Threads |-> NoCall]
    /\ context = [x \in Regs |-> "unused"]
    /\ getter = {} /\ registry = None
    /\ pmu = None /\ rmu = [r \in Readers |-> None]
    /\ reader = [r \in Readers |-> NoReader]
    /\ cache = [k \in Caches |-> [cls |-> FALSE, ctor |-> FALSE]]
    /\ globals = [k \in Caches |-> 0]
    /\ cmu = None

JavaInit == Blank /\ gone = FALSE

JavaStep(t) ==
    \/ LookupLock(t) \/ LookupFind(t) \/ LookupMethod(t) \/ LookupPublish(t)
    \/ NativeChecked(t) \/ NativeBoxes(t)
    \/ RegisterAlloc(t) \/ RegisterAdapter(t) \/ RegisterInstall(t) \/ RegisterRefresh(t)
    \/ RegisterSwap(t) \/ RegisterCleanup(t) \/ RegisterFailed(t)
    \/ CreateField(t) \/ ReceiveHash(t) \/ ReceiveLock(t) \/ Filtered(t) \/ MatchCollect(t)

JavaBegin(t) ==
    \/ \E n \in Natives : CallNative(t, n)
    \/ \E r \in Readers : CreateReader(t, r) \/ DeleteReader(t, r) \/ Receive(t, r)
                          \/ Query(t, r) \/ Match(t, r)
    \/ DeleteParticipant(t)

JavaNext == \E t \in Threads : JavaStep(t) \/ JavaBegin(t)

JavaSpec == JavaInit /\ [][JavaNext]_jvars

-------------------------------------------------------------------------------
(* Properties *)

Live(x) == x = None \/ context[x] = "live"

(* What an active reader computes key hashes and filters with is live at   *)
(* every moment of a re-registration, which moves each reader off the old  *)
(* context before it releases it (registerTypeSupport, "this must run      *)
(* first").                                                                *)
ActiveReadersLive ==
    /\ Live(registry)
    /\ \A r \in Readers : reader[r].active => Live(reader[r].key) /\ Live(reader[r].field)
    /\ \A t \in Threads : In(t, "receive", "hash") => Live(reader[frame[t].r].key)

(* No registration leaks, whichever step of it failed: with no call being  *)
(* made, the only live context is the registry's (registerTypeSupport's    *)
(* failure path, zzdds_java_ts_ctx_deinit).                                *)
RegistrationsReclaimed ==
    (\A t \in Threads : frame[t].op \in {"none", "native"}) =>
        {x \in Regs : context[x] = "live"} = {registry} \ {None}

(* A call past a class lookup finds the class and its constructor, and     *)
(* outside the mutex one global reference backs each cached class, none an *)
(* empty cache (zzdds_java_class_cache).                                   *)
ClassCacheWhole ==
    /\ \A t \in Threads : In(t, "native", "found") => cache[Key(t)].cls /\ cache[Key(t)].ctor
    /\ cmu = None => \A k \in DOMAIN cache : globals[k] = IF cache[k].cls THEN 1 ELSE 0

(* The contexts the next step of a call uses or releases. *)
Touches(t) ==
    CASE In(t, "register", "failed")  -> {frame[t].x}
      [] In(t, "register", "cleanup") -> {frame[t].old}
      [] In(t, "receive", "hash")     -> {reader[frame[t].r].key}
      [] frame[t].at = "filter"       -> {reader[frame[t].r].field}
      [] In(t, "match", "collect")    -> {frame[t].x}
      [] OTHER -> {}

(* A type-support context is released once and used by nobody afterwards,  *)
(* and what a failed registration leaves to the native is still its own    *)
(* (registerTypeSupport, "nothing installed it, so nothing will ever call  *)
(* ctx_deinit for it").                                                    *)
ContextReleasedOnce ==
    \A t \in Threads : \A x \in Touches(t) : Live(x)
===============================================================================
