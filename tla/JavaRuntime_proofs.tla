-------------------------- MODULE JavaRuntime_proofs --------------------------
(* Proofs about JavaRuntime, for any threads, readers, natives and number of   *)
(* registrations: that a type support can be replaced under its readers, that  *)
(* no registration leaks, and that the class caches are whole.                 *)
EXTENDS JavaRuntime, TLAPS

-------------------------------------------------------------------------------
(* The inductive invariant.                                                    *)

(* A frame at the step `at' of a registration. *)
Registers(t, ats) == frame[t].op = "register" /\ frame[t].at \in ats

(* Where a call is: its fields are what the step needs. *)
CallsFit ==
    \A t \in Threads :
        /\ frame[t].op = "native" => frame[t].native \in Natives /\ frame[t].use \in {"checks", "boxes"}
        /\ frame[t].op \in {"create", "receive", "query", "match"} => frame[t].r \in Readers
        /\ frame[t].op = "register" =>
             frame[t].at \in {"alloc", "adapter", "install", "refresh", "cleanup", "failed"}
        /\ frame[t].at = "filter" => frame[t].op \in {"receive", "query"}
        /\ frame[t].op = "none" => frame[t].at = "none"

(* participant.mu is held by the registration that refreshes and by the        *)
(* reception that hashes, and the reader of the latter is active.              *)
ParticipantMu ==
    \A t \in Threads :
        /\ pmu = t <=> In(t, "register", "refresh") \/ In(t, "receive", "hash")
        /\ In(t, "receive", "hash") => reader[frame[t].r].active

(* Who owns a context: the registration under way, until it is installed, and  *)
(* then the one it replaced.                                                   *)
Owns(t, x) ==
    \/ Registers(t, {"adapter", "install", "refresh", "failed"}) /\ frame[t].x = x
    \/ Registers(t, {"cleanup"}) /\ frame[t].old = x

(* A context that was allocated and not released yet is the registry's or      *)
(* exactly one registration's.                                                 *)
ContextsOwned ==
    /\ registry # None => context[registry] = "live"
    /\ \A t \in Threads :
         /\ Registers(t, {"adapter", "install", "refresh", "failed"}) => frame[t].x \in Regs
         /\ Registers(t, {"cleanup"}) => frame[t].old \in Regs
    /\ \A t \in Threads, x \in Regs : Owns(t, x) =>
         /\ x # registry /\ context[x] # "unused"
         /\ frame[t].at # "failed" => context[x] = "live"
         /\ \A u \in Threads : Owns(u, x) => u = t
    /\ \A x \in Regs : context[x] = "live" => x = registry \/ \E t \in Threads : Owns(t, x)

(* What an active reader uses is the registry's, or, once a registration has   *)
(* refreshed the reader, the context being registered.                         *)
Uses(r, xs) == reader[r].key \in xs \cup {None} /\ reader[r].field \in xs \cup {None}

ReaderCurrent(r) ==
    /\ ~reader[r].refreshes => reader[r].field = None
    /\ reader[r].active =>
         \/ /\ Uses(r, {registry})
            /\ \A t \in Threads : In(t, "register", "refresh") => r \in frame[t].todo \/ registry = None
         \/ \E t \in Threads : /\ In(t, "register", "refresh")
                               /\ r \notin frame[t].todo /\ Uses(r, {frame[t].x})

ReadersCurrent == \A r \in Readers : ReaderCurrent(r)

(* The class cache: outside the mutex each cache is whole; inside it, the one  *)
(* that is being filled has come as far as the thread has.                     *)
CacheWhole(k) == /\ globals[k] = IF cache[k].cls THEN 1 ELSE 0
                 /\ cache[k].cls => cache[k].ctor

CacheMu ==
    \A t \in Threads : cmu = t <=> frame[t].op = "native" /\ frame[t].at \in {"find", "method", "publish"}

OthersWhole ==
    \A k \in Caches : (\A t \in Threads : cmu = t => k # Key(t)) => CacheWhole(k)

LookupAt(t) ==
    /\ In(t, "native", "find") => ~cache[Key(t)].cls /\ globals[Key(t)] = 0
    /\ In(t, "native", "method") => ~cache[Key(t)].cls /\ globals[Key(t)] = 1
    /\ In(t, "native", "publish") => cache[Key(t)].ctor /\ globals[Key(t)] = 1
    /\ In(t, "native", "found") => cache[Key(t)].cls /\ cache[Key(t)].ctor

CachesFilled == CacheMu /\ OthersWhole /\ \A t \in Threads : LookupAt(t)

JInv ==
    JavaTypeOK /\ CallsFit /\ ParticipantMu /\ ContextsOwned /\ ReadersCurrent /\ CachesFilled
-------------------------------------------------------------------------------
(* The frame of a thread.                                                      *)

(* What a step of t leaves alone: the calls of the other threads. *)
OthersStay(t) ==
    frame' \in [Threads -> Calls] /\ \A u \in Threads \ {t} : frame'[u] = frame[u]

(* No call at all, and a call at its first step, are calls. *)
LEMMA NoCallTyped == NoCall \in Calls
BY DEF NoCall, Calls

LEMMA NewCallTyped ==
    ASSUME NEW op \in {"native", "register", "create", "receive", "query", "match"},
           NEW at \in {"lookup", "alloc", "field", "hash", "filter", "collect"}
    PROVE  /\ NewCall(op, at) \in Calls
           /\ NewCall(op, at).op = op /\ NewCall(op, at).at = at
           /\ NewCall(op, at).x = None
<1>1. NewCall(op, at) \in Calls
  <2> DEFINE f == NoCall
  <2>1. f \in Calls
        BY NoCallTyped
  <2> HIDE DEF f
  <2>2. [f EXCEPT !.op = op, !.at = at] \in Calls
        BY <2>1 DEF Calls
  <2> QED  BY <2>2 DEF f, NewCall
<1>2. NewCall(op, at).op = op /\ NewCall(op, at).at = at /\ NewCall(op, at).x = None
      BY DEF NoCall, NewCall
<1> QED  BY <1>1, <1>2

(* What the next call of t is, once it is a call, says what frame' is. *)
LEMMA ContinueStays ==
    ASSUME JavaTypeOK, NEW t \in Threads, NEW f \in Calls, Continue(t, f)
    PROVE  frame'[t] = f /\ OthersStay(t)
BY DEF JavaTypeOK, Continue, OthersStay

LEMMA EndStays ==
    ASSUME JavaTypeOK, NEW t \in Threads, End(t)
    PROVE  frame'[t] = NoCall /\ OthersStay(t)
BY NoCallTyped DEF JavaTypeOK, End, OthersStay

LEMMA GoOnStays ==
    ASSUME JavaTypeOK, NEW t \in Threads, NEW at, GoOn(t, at),
           at \in {"found", "find", "method", "publish", "failed", "install", "deliver", "filter"}
    PROVE  /\ frame'[t] = [frame[t] EXCEPT !.at = at]
           /\ OthersStay(t)
<1>1. frame'[t] = [frame[t] EXCEPT !.at = at]
      BY DEF JavaTypeOK, GoOn
<1>2. frame[t] \in Calls
      BY DEF JavaTypeOK
<1>3. [frame[t] EXCEPT !.at = at] \in Calls
      BY <1>2 DEF Calls
<1> QED  BY <1>1, <1>3 DEF JavaTypeOK, GoOn, OthersStay

-------------------------------------------------------------------------------
(* Steps that leave a part of the invariant alone.                             *)

(* A call that holds a context or participant.mu. *)
Engaged(t) ==
    \/ Registers(t, {"adapter", "install", "refresh", "failed", "cleanup"})
    \/ In(t, "receive", "hash")

(* A step of a call that is not engaged, before or after. *)
LEMMA NotEngaged ==
    ASSUME JInv, NEW t \in Threads, OthersStay(t), ~Engaged(t), ~Engaged(t)',
           UNCHANGED <<context, registry, pmu, reader>>
    PROVE  ParticipantMu' /\ ContextsOwned' /\ ReadersCurrent'
<1> USE DEF JInv, Engaged, Registers, In, OthersStay
<1>1. ParticipantMu'
      BY DEF ParticipantMu
<1>2. \A u \in Threads, x \in Regs : Owns(u, x)' <=> Owns(u, x)
      BY DEF Owns
<1>3. ContextsOwned'
      BY <1>2 DEF ContextsOwned, Owns
<1>4. ReadersCurrent'
      BY DEF ReadersCurrent, ReaderCurrent, Uses
<1> QED  BY <1>1, <1>3, <1>4

(* A step of a call that looks no class up, before or after. *)
LEMMA NoLookup ==
    ASSUME JInv, NEW t \in Threads, OthersStay(t), UNCHANGED <<cache, globals, cmu>>,
           frame[t].op = "native" => frame[t].at \in {"found", "none"},
           frame'[t].op = "native" => frame'[t].at = "lookup"
    PROVE  CachesFilled'
BY DEF JInv, CachesFilled, CacheMu, OthersWhole, LookupAt, OthersStay, In, Key, CacheWhole

-------------------------------------------------------------------------------
(* The natives.                                                                *)

LEMMA CallNativeInv ==
    ASSUME JInv, NEW t \in Threads, NEW n \in Natives, CallNative(t, n)
    PROVE  JInv'
<1> DEFINE f == [NewCall("native", "lookup") EXCEPT
                    !.native = n, !.use = "checks"]
<1>1. /\ f \in Calls /\ f.op = "native" /\ f.at = "lookup"
      /\ f.native \in Natives /\ f.use \in {"checks", "boxes"}
  <2> DEFINE g == NewCall("native", "lookup")
             use == "checks"
  <2>1. g \in Calls /\ g.op = "native" /\ g.at = "lookup"
        BY NewCallTyped
  <2>2. use \in {"checks", "boxes"}
        OBVIOUS
  <2> HIDE DEF g, use
  <2>3. f = [g EXCEPT !.native = n, !.use = use]
        BY DEF g, use
  <2> HIDE DEF f
  <2> QED  BY <2>1, <2>2, <2>3 DEF Calls
<1> HIDE DEF f
<1>2. frame'[t] = f /\ OthersStay(t)
      BY <1>1, ContinueStays DEF JInv, CallNative, f
<1>3. ParticipantMu' /\ ContextsOwned' /\ ReadersCurrent'
      BY <1>1, <1>2, NotEngaged DEF CallNative, Free, NoCall, Engaged, Registers, In
<1>4. CachesFilled'
      BY <1>1, <1>2, NoLookup DEF CallNative, Free, NoCall
<1>5. JavaTypeOK' /\ CallsFit'
      BY <1>1, <1>2 DEF JInv, JavaTypeOK, CallsFit, CallNative, OthersStay
<1> QED  BY <1>3, <1>4, <1>5 DEF JInv

(* A step inside a class lookup, which leaves everything else alone. *)
LEMMA LookupAside ==
    ASSUME JInv, NEW t \in Threads, OthersStay(t), frame[t].op = "native",
           frame[t].at \in {"lookup", "find", "method", "publish"},
           \/ frame'[t] = NoCall
           \/ \E at \in {"find", "method", "publish", "found"} : frame'[t] = [frame[t] EXCEPT !.at = at],
           UNCHANGED <<context, getter, registry, pmu, rmu, reader, gone>>
    PROVE  /\ ParticipantMu' /\ ContextsOwned' /\ ReadersCurrent' /\ CallsFit'
           /\ frame'[t] # NoCall => Key(t)' = Key(t)
           /\ Key(t) \in Caches
<1>1. frame[t] \in Calls
      BY DEF JInv, JavaTypeOK
<1>2. \/ frame'[t] = NoCall
      \/ /\ frame'[t].op = "native" /\ frame'[t].native = frame[t].native
         /\ frame'[t].use = frame[t].use /\ frame'[t].at \in {"find", "method", "publish", "found"}
      BY <1>1 DEF Calls
<1>3. ParticipantMu' /\ ContextsOwned' /\ ReadersCurrent'
      BY <1>2, NotEngaged DEF NoCall, Engaged, Registers, In
<1>4. CallsFit'
      BY <1>2 DEF JInv, CallsFit, OthersStay, NoCall
<1>5. Key(t) \in Caches
      BY DEF JInv, CallsFit, Key, Caches
<1> QED  BY <1>2, <1>3, <1>4, <1>5 DEF Key

LEMMA LookupLockInv ==
    ASSUME JInv, NEW t \in Threads, LookupLock(t)
    PROVE  JInv'
<1>1. /\ OthersStay(t)
      /\ frame'[t] = [frame[t] EXCEPT !.at = IF cache[Key(t)].cls THEN "found" ELSE "find"]
      BY GoOnStays DEF JInv, LookupLock
<1>2. /\ ParticipantMu' /\ ContextsOwned' /\ ReadersCurrent' /\ CallsFit'
      /\ frame'[t] # NoCall => Key(t)' = Key(t)
      /\ Key(t) \in Caches
      BY <1>1, LookupAside DEF LookupLock, In
<1>3. frame'[t].op = "native" /\ frame'[t].at = IF cache[Key(t)].cls THEN "found" ELSE "find"
      BY <1>1 DEF LookupLock, In, JInv, JavaTypeOK, Calls
<1>4. JavaTypeOK'
      BY <1>1 DEF JInv, JavaTypeOK, OthersStay, LookupLock
<1>5. CachesFilled'
  <2>1. frame'[t] # NoCall /\ Key(t)' = Key(t)
        BY <1>2, <1>3 DEF NoCall
  <2>2. t # None /\ \A u \in Threads : u # None
        BY JavaAssumption
  <2>3. \A k \in Caches : CacheWhole(k)
        BY <2>2 DEF JInv, CachesFilled, OthersWhole, LookupLock
  <2>a. OthersStay(t)
        BY <1>1
  <2>b. cmu = None /\ CacheMu
        BY DEF JInv, CachesFilled, LookupLock
  <2>4. CacheMu'
    <3>1. CASE cache[Key(t)].cls
      <4>1. cmu' = cmu /\ frame'[t].at = "found"
            BY <1>3, <3>1 DEF LookupLock
      <4> QED  BY <1>3, <2>2, <2>a, <2>b, <4>1 DEF CacheMu, OthersStay
    <3>2. CASE ~cache[Key(t)].cls
      <4>1. cmu' = t /\ frame'[t].at = "find"
            BY <1>3, <3>2 DEF LookupLock
      <4> QED  BY <1>3, <2>2, <2>a, <2>b, <4>1 DEF CacheMu, OthersStay
    <3> QED  BY <3>1, <3>2
  <2>5. OthersWhole'
        BY <2>3 DEF OthersWhole, CacheWhole, LookupLock
  <2>6. ASSUME NEW u \in Threads PROVE LookupAt(u)'
    <3>1. CASE u = t
          BY <1>2, <1>3, <2>1, <2>3, <3>1 DEF LookupAt, CacheWhole, In, LookupLock
    <3>2. CASE u # t
          BY <1>1, <3>2 DEF JInv, CachesFilled, LookupAt, OthersStay, In, Key, LookupLock
    <3> QED  BY <3>1, <3>2
  <2> QED  BY <2>4, <2>5, <2>6 DEF CachesFilled
<1> QED  BY <1>2, <1>4, <1>5 DEF JInv

LEMMA LookupFindInv ==
    ASSUME JInv, NEW t \in Threads, LookupFind(t)
    PROVE  JInv'
<1> USE DEF In
<1>1. CASE End(t) /\ cmu' = None /\ UNCHANGED globals
  <2>1. OthersStay(t) /\ frame'[t] = NoCall
        BY <1>1, EndStays DEF JInv
  <2>2. /\ ParticipantMu' /\ ContextsOwned' /\ ReadersCurrent' /\ CallsFit'
        /\ Key(t) \in Caches
        BY <2>1, LookupAside DEF LookupFind
  <2>3. JavaTypeOK'
        BY <1>1, <2>1 DEF JInv, JavaTypeOK, OthersStay, LookupFind
  <2>4. cmu = t /\ \A u \in Threads : u # None
        BY JavaAssumption DEF JInv, CachesFilled, CacheMu, LookupAt, LookupFind
  <2>5. CachesFilled'
        BY <1>1, <2>1, <2>2, <2>4 
           DEF JInv, CachesFilled, CacheMu, OthersWhole, LookupAt, OthersStay, NoCall, Key, CacheWhole, LookupFind
  <2> QED  BY <2>2, <2>3, <2>5 DEF JInv
<1>2. CASE GoOn(t, "method") /\ globals' = [globals EXCEPT ![Key(t)] = @ + 1] /\ UNCHANGED cmu
  <2>1. OthersStay(t) /\ frame'[t] = [frame[t] EXCEPT !.at = "method"]
        BY <1>2, GoOnStays DEF JInv
  <2>2. /\ ParticipantMu' /\ ContextsOwned' /\ ReadersCurrent' /\ CallsFit'
        /\ frame'[t] # NoCall => Key(t)' = Key(t)
        /\ Key(t) \in Caches
        BY <2>1, LookupAside DEF LookupFind
  <2>3. frame'[t].op = "native" /\ frame'[t].at = "method"
        BY <2>1 DEF LookupFind, JInv, JavaTypeOK, Calls
  <2>4. JavaTypeOK'
        BY <1>2, <2>1, <2>2 DEF JInv, JavaTypeOK, OthersStay, LookupFind
  <2>5. CachesFilled'
    <3>1. Key(t)' = Key(t)
          BY <2>2, <2>3 DEF NoCall
    <3>2. /\ globals'[Key(t)] = 1 /\ ~cache'[Key(t)].cls
          /\ \A k \in Caches : k # Key(t) => globals'[k] = globals[k]
          BY <1>2, <2>2 DEF JInv, JavaTypeOK, CachesFilled, LookupAt, LookupFind
    <3>3. cmu = t /\ \A u \in Threads : u # t => cmu # u
          BY DEF JInv, CachesFilled, CacheMu, LookupAt, LookupFind
    <3>4. CacheMu'
          BY <1>2, <2>1, <2>3 DEF JInv, CachesFilled, CacheMu, OthersStay, LookupFind
    <3>5. OthersWhole'
          BY <1>2, <3>1, <3>2, <3>3 DEF JInv, CachesFilled, OthersWhole, CacheWhole, LookupFind
    <3>6. ASSUME NEW u \in Threads PROVE LookupAt(u)'
      <4>1. CASE u = t
            BY <2>3, <3>1, <3>2, <4>1 DEF LookupAt
      <4>2. CASE u # t
            BY <2>1, <3>3, <4>2 DEF JInv, CachesFilled, CacheMu, LookupAt, OthersStay, Key, LookupFind
      <4> QED  BY <4>1, <4>2
    <3> QED  BY <3>4, <3>5, <3>6 DEF CachesFilled
  <2> QED  BY <2>2, <2>4, <2>5 DEF JInv
<1> QED  BY <1>1, <1>2 DEF LookupFind

LEMMA LookupMethodInv ==
    ASSUME JInv, NEW t \in Threads, LookupMethod(t)
    PROVE  JInv'
<1> USE DEF In
<1>0. cmu = t /\ t # None /\ \A u \in Threads : u # t => cmu # u
      BY JavaAssumption DEF JInv, CachesFilled, CacheMu, LookupMethod
<1>1. CASE End(t) /\ cmu' = None /\ globals' = [globals EXCEPT ![Key(t)] = @ - 1] /\ UNCHANGED cache
  <2>1. OthersStay(t) /\ frame'[t] = NoCall
        BY <1>1, EndStays DEF JInv
  <2>2. /\ ParticipantMu' /\ ContextsOwned' /\ ReadersCurrent' /\ CallsFit'
        /\ Key(t) \in Caches
        BY <2>1, LookupAside DEF LookupMethod
  <2>3. JavaTypeOK'
        BY <1>1, <2>1, <2>2 DEF JInv, JavaTypeOK, OthersStay, LookupMethod
  <2>4. /\ globals'[Key(t)] = 0 /\ ~cache'[Key(t)].cls
        /\ \A k \in Caches : k # Key(t) => globals'[k] = globals[k]
        BY <1>1, <2>2 DEF JInv, JavaTypeOK, CachesFilled, LookupAt, LookupMethod
  <2>5. CacheMu'
        BY <1>0, <1>1, <2>1, JavaAssumption DEF JInv, CachesFilled, CacheMu, OthersStay, NoCall
  <2>6. OthersWhole'
        BY <1>0, <1>1, <2>4 DEF JInv, CachesFilled, OthersWhole, CacheWhole
  <2>7. ASSUME NEW u \in Threads PROVE LookupAt(u)'
    <3>1. CASE u = t
          BY <2>1, <3>1 DEF LookupAt, NoCall
    <3>2. CASE u # t
          BY <1>0, <1>1, <2>1, <3>2 DEF JInv, CachesFilled, CacheMu, LookupAt, OthersStay, Key
    <3> QED  BY <3>1, <3>2
  <2> QED  BY <2>2, <2>3, <2>5, <2>6, <2>7 DEF JInv, CachesFilled
<1>2. CASE /\ GoOn(t, "publish") /\ cache' = [cache EXCEPT ![Key(t)].ctor = TRUE]
           /\ UNCHANGED <<cmu, globals>>
  <2>1. OthersStay(t) /\ frame'[t] = [frame[t] EXCEPT !.at = "publish"]
        BY <1>2, GoOnStays DEF JInv
  <2>2. /\ ParticipantMu' /\ ContextsOwned' /\ ReadersCurrent' /\ CallsFit'
        /\ frame'[t] # NoCall => Key(t)' = Key(t)
        /\ Key(t) \in Caches
        BY <2>1, LookupAside DEF LookupMethod
  <2>3. frame'[t].op = "native" /\ frame'[t].at = "publish"
        BY <2>1 DEF LookupMethod, JInv, JavaTypeOK, Calls
  <2>4. Key(t)' = Key(t)
        BY <2>2, <2>3 DEF NoCall
  <2>5. JavaTypeOK'
        BY <1>2, <2>1, <2>2 DEF JInv, JavaTypeOK, OthersStay, LookupMethod
  <2>6. /\ cache'[Key(t)].ctor /\ globals'[Key(t)] = 1
        /\ \A k \in Caches : k # Key(t) => cache'[k] = cache[k]
        /\ ~cache[Key(t)].cls
        BY <1>2, <2>2 DEF JInv, JavaTypeOK, CachesFilled, LookupAt, LookupMethod
  <2>7. CacheMu'
        BY <1>0, <1>2, <2>1, <2>3 DEF JInv, CachesFilled, CacheMu, OthersStay
  <2>8. OthersWhole'
        BY <1>0, <1>2, <2>4, <2>6 DEF JInv, CachesFilled, OthersWhole, CacheWhole
  <2>9. ASSUME NEW u \in Threads PROVE LookupAt(u)'
    <3>1. CASE u = t
          BY <2>3, <2>4, <2>6, <3>1 DEF LookupAt
    <3>2. CASE u # t
      <4>1. Key(u)' = Key(u) /\ (frame'[u].op = "native" => Key(u) \in Caches)
            BY <2>1, <3>2 DEF JInv, CallsFit, OthersStay, Key, Caches
      <4> QED  BY <1>0, <1>2, <2>1, <2>6, <3>2, <4>1 DEF JInv, CachesFilled, CacheMu, LookupAt, OthersStay
    <3> QED  BY <3>1, <3>2
  <2> QED  BY <2>2, <2>5, <2>7, <2>8, <2>9 DEF JInv, CachesFilled
<1> QED  BY <1>1, <1>2 DEF LookupMethod

LEMMA LookupPublishInv ==
    ASSUME JInv, NEW t \in Threads, LookupPublish(t)
    PROVE  JInv'
<1> USE DEF In
<1>0. cmu = t /\ t # None /\ \A u \in Threads : u # t => cmu # u
      BY JavaAssumption DEF JInv, CachesFilled, CacheMu, LookupPublish
<1>1. OthersStay(t) /\ frame'[t] = [frame[t] EXCEPT !.at = "found"]
      BY GoOnStays DEF JInv, LookupPublish
<1>2. /\ ParticipantMu' /\ ContextsOwned' /\ ReadersCurrent' /\ CallsFit'
      /\ frame'[t] # NoCall => Key(t)' = Key(t)
      /\ Key(t) \in Caches
      BY <1>1, LookupAside DEF LookupPublish
<1>3. frame'[t].op = "native" /\ frame'[t].at = "found"
      BY <1>1 DEF LookupPublish, JInv, JavaTypeOK, Calls
<1>4. Key(t)' = Key(t)
      BY <1>2, <1>3 DEF NoCall
<1>5. JavaTypeOK'
      BY <1>1, <1>2 DEF JInv, JavaTypeOK, OthersStay, LookupPublish
<1>6. /\ cache'[Key(t)].cls /\ cache'[Key(t)].ctor /\ globals'[Key(t)] = 1
      /\ \A k \in Caches : k # Key(t) => cache'[k] = cache[k]
      BY <1>2 DEF JInv, JavaTypeOK, CachesFilled, LookupAt, LookupPublish
<1>7. CacheMu'
  <2>1. OthersStay(t) /\ CacheMu /\ cmu' = None /\ \A u \in Threads : u # None
        BY <1>1, JavaAssumption DEF JInv, CachesFilled, LookupPublish
  <2> QED  BY <1>0, <1>3, <2>1 DEF CacheMu, OthersStay
<1>8. OthersWhole'
      BY <1>0, <1>6 DEF JInv, CachesFilled, OthersWhole, CacheWhole, LookupPublish
<1>9. ASSUME NEW u \in Threads PROVE LookupAt(u)'
  <2>1. CASE u = t
        BY <1>3, <1>4, <1>6, <2>1 DEF LookupAt
  <2>2. CASE u # t
    <3>1. Key(u)' = Key(u) /\ (frame'[u].op = "native" => Key(u) \in Caches)
          BY <1>1, <2>2 DEF JInv, CallsFit, OthersStay, Key, Caches
    <3> QED  BY <1>0, <1>1, <1>6, <2>2, <3>1
             DEF JInv, CachesFilled, CacheMu, LookupAt, OthersStay, LookupPublish
  <2> QED  BY <2>1, <2>2
<1> QED  BY <1>2, <1>5, <1>7, <1>8, <1>9 DEF JInv, CachesFilled

LEMMA NativeCheckedInv ==
    ASSUME JInv, NEW t \in Threads, NativeChecked(t)
    PROVE  JInv'
<1>1. /\ OthersStay(t) /\ frame'[t].op \in {"none", "register", "native"}
      /\ frame'[t].op = "none" => frame'[t].at = "none"
      /\ frame'[t].op = "register" => frame'[t].at = "alloc"
      /\ frame'[t].op = "native" => /\ frame'[t].at = "lookup" /\ frame'[t].use = "boxes"
                                    /\ frame'[t].native = frame[t].native
  <2>1. CASE End(t)
        BY <2>1, EndStays DEF JInv, NoCall
  <2>2. CASE Continue(t, NewCall("register", "alloc"))
        BY <2>2, NewCallTyped, ContinueStays DEF JInv
  <2>3. CASE Continue(t, [frame[t] EXCEPT !.at = "lookup", !.use = "boxes"])
    <3> DEFINE f == [frame[t] EXCEPT !.at = "lookup", !.use = "boxes"]
    <3>1. f \in Calls /\ f.op = frame[t].op /\ f.at = "lookup" /\ f.use = "boxes"
             /\ f.native = frame[t].native
      <4>1. frame[t] \in Calls
            BY DEF JInv, JavaTypeOK
      <4> QED  BY <4>1 DEF Calls
    <3>2. Continue(t, f)
          BY <2>3
    <3> HIDE DEF f
    <3> QED  BY <3>1, <3>2, ContinueStays DEF JInv, NativeChecked, In
  <2> QED  BY <2>1, <2>2, <2>3 DEF NativeChecked
<1>2. ParticipantMu' /\ ContextsOwned' /\ ReadersCurrent'
      BY <1>1, NotEngaged DEF NativeChecked, Engaged, Registers, In
<1>3. CachesFilled'
      BY <1>1, NoLookup DEF NativeChecked, In
<1>4. JavaTypeOK'
      BY <1>1 DEF JInv, JavaTypeOK, NativeChecked, OthersStay
<1>5. CallsFit'
      BY <1>1 DEF JInv, CallsFit, NativeChecked, OthersStay, In
<1> QED  BY <1>2, <1>3, <1>4, <1>5 DEF JInv

LEMMA NativeBoxesInv ==
    ASSUME JInv, NEW t \in Threads, NativeBoxes(t)
    PROVE  JInv'
<1>1. OthersStay(t) /\ frame'[t].op = "none" /\ frame'[t].at = "none"
      BY EndStays DEF JInv, NativeBoxes, NoCall
<1>2. ParticipantMu' /\ ContextsOwned' /\ ReadersCurrent'
      BY <1>1, NotEngaged DEF NativeBoxes, Engaged, Registers, In
<1>3. CachesFilled'
      BY <1>1, NoLookup DEF NativeBoxes, In
<1>4. JavaTypeOK' /\ CallsFit'
      BY <1>1 DEF JInv, JavaTypeOK, CallsFit, NativeBoxes, OthersStay
<1> QED  BY <1>2, <1>3, <1>4 DEF JInv

-------------------------------------------------------------------------------
(* registerTypeSupport.                                                        *)

LEMMA RegisterAllocInv ==
    ASSUME JInv, NEW t \in Threads, RegisterAlloc(t)
    PROVE  JInv'
<1> USE DEF In, Registers
<1>1. CASE End(t) /\ UNCHANGED <<context, getter>>
  <2>1. OthersStay(t) /\ frame'[t].op = "none" /\ frame'[t].at = "none"
        BY <1>1, EndStays DEF JInv, NoCall
  <2>2. ParticipantMu' /\ ContextsOwned' /\ ReadersCurrent'
        BY <1>1, <2>1, NotEngaged DEF RegisterAlloc, Engaged
  <2>3. CachesFilled'
        BY <2>1, NoLookup DEF RegisterAlloc
  <2>4. JavaTypeOK' /\ CallsFit'
        BY <1>1, <2>1 DEF JInv, JavaTypeOK, CallsFit, RegisterAlloc, OthersStay
  <2> QED  BY <2>2, <2>3, <2>4 DEF JInv
<1>2. ASSUME NEW x \in Regs, context[x] = "unused", context' = [context EXCEPT ![x] = "live"],
             getter' \in {getter, getter \cup {x}},
             Continue(t, [frame[t] EXCEPT !.at = "adapter", !.x = x])
      PROVE  JInv'
  <2> DEFINE f == [frame[t] EXCEPT !.at = "adapter", !.x = x]
  <2>1. f \in Calls /\ f.op = "register" /\ f.at = "adapter" /\ f.x = x
    <3>1. frame[t] \in Calls /\ frame[t].op = "register"
          BY DEF JInv, JavaTypeOK, RegisterAlloc
    <3> QED  BY <3>1 DEF Calls
  <2> HIDE DEF f
  <2>2. frame'[t] = f /\ OthersStay(t)
        BY <1>2, <2>1, ContinueStays DEF JInv, f
  <2>3. /\ registry' = registry /\ pmu' = pmu /\ reader' = reader
        /\ frame[t].op = "register" /\ frame[t].at = "alloc"
        BY DEF RegisterAlloc
  <2>4. context'[x] = "live" /\ \A y \in Regs \ {x} : context'[y] = context[y]
        BY <1>2 DEF JInv, JavaTypeOK
  <2>5. /\ \A u \in Threads : ~Owns(u, x) /\ (u # t => ~Owns(u, x)')
        /\ \A u \in Threads, y \in Regs \ {x} : Owns(u, y)' <=> Owns(u, y)
        /\ Owns(t, x)'
        BY <1>2, <2>1, <2>2, <2>3 DEF JInv, ContextsOwned, Owns, OthersStay
  <2>6. ContextsOwned'
    <3>1. registry # None => registry # x /\ context'[registry] = "live"
          BY <1>2, <2>4 DEF JInv, ContextsOwned, JavaTypeOK
    <3>2. \A u \in Threads :
             /\ Registers(u, {"adapter", "install", "refresh", "failed"})' => frame'[u].x \in Regs
             /\ Registers(u, {"cleanup"})' => frame'[u].old \in Regs
          BY <2>1, <2>2 DEF JInv, ContextsOwned, OthersStay
    <3>3. ASSUME NEW u \in Threads, NEW y \in Regs, Owns(u, y)'
          PROVE  /\ y # registry /\ context'[y] # "unused"
                 /\ frame'[u].at # "failed" => context'[y] = "live"
                 /\ \A v \in Threads : Owns(v, y)' => v = u
      <4>1. CASE y = x
            BY <1>2, <2>4, <2>5, <3>1, <3>3, <4>1, JavaAssumption
      <4>2. CASE y # x
        <5>1. Owns(u, y) /\ context'[y] = context[y] /\ u # t
              BY <2>1, <2>2, <2>4, <2>5, <3>3, <4>2 DEF Owns
        <5> QED  BY <2>2, <2>5, <4>2, <5>1 DEF JInv, ContextsOwned, OthersStay
      <4> QED  BY <4>1, <4>2
    <3>4. \A y \in Regs : context'[y] = "live" => y = registry \/ \E u \in Threads : Owns(u, y)'
          BY <2>4, <2>5 DEF JInv, ContextsOwned
    <3> QED  BY <2>3, <3>1, <3>2, <3>3, <3>4 DEF ContextsOwned
  <2>7. ParticipantMu'
        BY <2>1, <2>2, <2>3 DEF JInv, ParticipantMu, OthersStay
  <2>8. ReadersCurrent'
        BY <2>1, <2>2, <2>3 DEF JInv, ReadersCurrent, ReaderCurrent, Uses, OthersStay
  <2>9. CachesFilled'
        BY <2>1, <2>2, NoLookup DEF RegisterAlloc
  <2>10. CallsFit'
        BY <2>1, <2>2 DEF JInv, CallsFit, OthersStay
  <2>11. JavaTypeOK'
        BY <1>2, <2>2 DEF JInv, JavaTypeOK, OthersStay, RegisterAlloc
  <2> QED  BY <2>6, <2>7, <2>8, <2>9, <2>10, <2>11 DEF JInv
<1> QED  BY <1>1, <1>2 DEF RegisterAlloc

(* The call of a registration keeps its context, and the readers stay. *)
LEMMA RegisterAdapterInv ==
    ASSUME JInv, NEW t \in Threads, RegisterAdapter(t)
    PROVE  JInv'
<1> USE DEF In, Registers
<1>1. PICK at \in {"failed", "install"} : GoOn(t, at)
      BY DEF RegisterAdapter
<1>2. OthersStay(t) /\ frame'[t] = [frame[t] EXCEPT !.at = at]
      BY <1>1, GoOnStays DEF JInv
<1>3. frame'[t].op = "register" /\ frame'[t].at = at /\ frame'[t].x = frame[t].x
  <2>1. frame[t] \in Calls /\ frame[t].op = "register"
        BY DEF JInv, JavaTypeOK, RegisterAdapter
  <2> QED  BY <1>2, <2>1 DEF Calls
<1>4. /\ frame[t].op = "register" /\ frame[t].at = "adapter"
      /\ UNCHANGED <<context, registry, pmu, reader>>
      BY DEF RegisterAdapter
<1>a. OthersStay(t)
      BY <1>2
<1>5. \A u \in Threads, y \in Regs : Owns(u, y)' <=> Owns(u, y)
      BY <1>3, <1>4, <1>a DEF Owns, OthersStay
<1>6. ContextsOwned'
      BY <1>3, <1>4, <1>5, <1>a DEF JInv, ContextsOwned, Owns, OthersStay
<1>7. ParticipantMu'
      BY <1>3, <1>4, <1>a DEF JInv, ParticipantMu, OthersStay
<1>8. ReadersCurrent'
      BY <1>3, <1>4, <1>a DEF JInv, ReadersCurrent, ReaderCurrent, Uses, OthersStay
<1>9. CachesFilled'
      BY <1>3, <1>4, <1>a, NoLookup DEF RegisterAdapter
<1>10. CallsFit'
      BY <1>3, <1>a DEF JInv, CallsFit, OthersStay
<1>11. JavaTypeOK'
      BY <1>a DEF JInv, JavaTypeOK, OthersStay, RegisterAdapter
<1> QED  BY <1>6, <1>7, <1>8, <1>9, <1>10, <1>11 DEF JInv

LEMMA RegisterInstallInv ==
    ASSUME JInv, NEW t \in Threads, RegisterInstall(t)
    PROVE  JInv'
<1> USE DEF In, Registers
<1>0. /\ frame[t].op = "register" /\ frame[t].at = "install" /\ frame[t] \in Calls
      /\ frame[t].x \in Regs /\ Owns(t, frame[t].x) /\ pmu = None /\ t # None
      BY JavaAssumption DEF JInv, JavaTypeOK, ContextsOwned, Owns, RegisterInstall
<1>1. CASE /\ context' = [context EXCEPT ![frame[t].x] = "released"]
           /\ GoOn(t, "failed") /\ UNCHANGED pmu
  <2>1. OthersStay(t) /\ frame'[t] = [frame[t] EXCEPT !.at = "failed"]
        BY <1>1, GoOnStays DEF JInv
  <2>a. OthersStay(t)
        BY <2>1
  <2>2. frame'[t].op = "register" /\ frame'[t].at = "failed" /\ frame'[t].x = frame[t].x
        BY <1>0, <2>1 DEF Calls
  <2>3. UNCHANGED <<registry, pmu, reader>>
        BY <1>1 DEF RegisterInstall
  <2>4. \A u \in Threads, y \in Regs : Owns(u, y)' <=> Owns(u, y)
        BY <1>0, <2>2, <2>a DEF Owns, OthersStay
  <2>5. /\ context'[frame[t].x] = "released"
        /\ \A y \in Regs : y # frame[t].x => context'[y] = context[y]
        BY <1>0, <1>1 DEF JInv, JavaTypeOK
  <2>6. ContextsOwned'
    <3>1. registry # frame[t].x /\ (registry # None => context'[registry] = "live")
          BY <1>0, <2>5 DEF JInv, ContextsOwned, JavaTypeOK
    <3>2. \A u \in Threads :
             /\ Registers(u, {"adapter", "install", "refresh", "failed"})' => frame'[u].x \in Regs
             /\ Registers(u, {"cleanup"})' => frame'[u].old \in Regs
          BY <1>0, <2>2, <2>a DEF JInv, ContextsOwned, OthersStay
    <3>3. ASSUME NEW u \in Threads, NEW y \in Regs, Owns(u, y)'
          PROVE  /\ y # registry /\ context'[y] # "unused"
                 /\ frame'[u].at # "failed" => context'[y] = "live"
                 /\ \A v \in Threads : Owns(v, y)' => v = u
      <4>1. Owns(u, y)
            BY <2>4, <3>3
      <4>2. y = frame[t].x => u = t
            BY <1>0, <4>1 DEF JInv, ContextsOwned
      <4>3. u # t => y # frame[t].x /\ frame'[u].at = frame[u].at
            BY <1>0, <2>a, <4>1 DEF JInv, ContextsOwned, OthersStay
      <4>4. y # registry /\ context'[y] # "unused"
            BY <2>5, <4>1 DEF JInv, ContextsOwned
      <4>5. frame'[u].at # "failed" => context'[y] = "live"
            BY <2>2, <2>5, <4>1, <4>3 DEF JInv, ContextsOwned
      <4>6. \A v \in Threads : Owns(v, y)' => v = u
            BY <2>4, <4>1 DEF JInv, ContextsOwned
      <4> QED  BY <4>4, <4>5, <4>6
    <3>4. \A y \in Regs : context'[y] = "live" => y = registry \/ \E u \in Threads : Owns(u, y)'
          BY <2>4, <2>5 DEF JInv, ContextsOwned
    <3> QED  BY <2>3, <3>1, <3>2, <3>3, <3>4 DEF ContextsOwned
  <2>7. ParticipantMu'
        BY <1>0, <2>2, <2>3, <2>a DEF JInv, ParticipantMu, OthersStay
  <2>8. ReadersCurrent'
        BY <1>0, <2>2, <2>3, <2>a DEF JInv, ReadersCurrent, ReaderCurrent, Uses, OthersStay
  <2>9. CachesFilled'
        BY <1>0, <2>2, <2>a, NoLookup DEF RegisterInstall
  <2>10. CallsFit'
        BY <2>2, <2>a DEF JInv, CallsFit, OthersStay
  <2>11. JavaTypeOK'
        BY <1>0, <1>1, <2>a DEF JInv, JavaTypeOK, OthersStay, RegisterInstall
  <2> QED  BY <2>6, <2>7, <2>8, <2>9, <2>10, <2>11 DEF JInv
<1>2. CASE /\ pmu' = t
           /\ Continue(t, [frame[t] EXCEPT !.at = "refresh",
                  !.todo = IF registry = None THEN {} ELSE {r \in Readers : reader[r].active}])
           /\ UNCHANGED context
  <2> DEFINE todo == IF registry = None THEN {} ELSE {r \in Readers : reader[r].active}
             f == [frame[t] EXCEPT !.at = "refresh", !.todo = todo]
  <2>1. todo \subseteq Readers /\ \A r \in Readers : reader[r].active => r \in todo \/ registry = None
        OBVIOUS
  <2> HIDE DEF todo
  <2>2. f \in Calls /\ f.op = "register" /\ f.at = "refresh" /\ f.x = frame[t].x /\ f.todo = todo
        BY <1>0, <2>1 DEF Calls
  <2> HIDE DEF f
  <2>3. frame'[t] = f /\ OthersStay(t)
    <3>1. Continue(t, f)
          BY <1>2 DEF f, todo
    <3> QED  BY <2>2, <3>1, ContinueStays DEF JInv
  <2>4. UNCHANGED <<context, registry, reader>> /\ pmu' = t
        BY <1>2 DEF RegisterInstall
  <2>5. \A u \in Threads : ~(frame[u].op = "register" /\ frame[u].at = "refresh")
                           /\ ~(frame[u].op = "receive" /\ frame[u].at = "hash")
        BY <1>0, JavaAssumption DEF JInv, ParticipantMu
  <2>6. \A u \in Threads, y \in Regs : Owns(u, y)' <=> Owns(u, y)
        BY <1>0, <2>2, <2>3 DEF Owns, OthersStay
  <2>7. ContextsOwned'
        BY <1>0, <2>2, <2>3, <2>4, <2>6 DEF JInv, ContextsOwned, Owns, OthersStay
  <2>8. ParticipantMu'
        BY <1>0, <2>2, <2>3, <2>4, <2>5 DEF JInv, ParticipantMu, OthersStay
  <2>9. ReadersCurrent'
        BY <2>1, <2>2, <2>3, <2>4, <2>5 DEF JInv, ReadersCurrent, ReaderCurrent, Uses, OthersStay
  <2>10. CachesFilled'
        BY <1>0, <2>2, <2>3, NoLookup DEF RegisterInstall
  <2>11. CallsFit'
        BY <2>2, <2>3 DEF JInv, CallsFit, OthersStay
  <2>12. JavaTypeOK'
        BY <2>3, <2>4 DEF JInv, JavaTypeOK, OthersStay, RegisterInstall
  <2> QED  BY <2>7, <2>8, <2>9, <2>10, <2>11, <2>12 DEF JInv
<1> QED  BY <1>1, <1>2 DEF RegisterInstall

LEMMA RegisterRefreshInv ==
    ASSUME JInv, NEW t \in Threads, RegisterRefresh(t)
    PROVE  JInv'
<1> USE DEF In, Registers
<1>0. /\ frame[t].op = "register" /\ frame[t].at = "refresh" /\ frame[t] \in Calls
      /\ frame[t].x \in Regs /\ frame[t].todo \subseteq Readers /\ pmu = t
      BY DEF JInv, JavaTypeOK, Calls, ContextsOwned, ParticipantMu, RegisterRefresh
<1>1. PICK r \in frame[t].todo :
        /\ reader' = [reader EXCEPT ![r].key = frame[t].x,
                                    ![r].field = IF reader[r].refreshes THEN Getter(frame[t].x) ELSE @]
        /\ Continue(t, [frame[t] EXCEPT !.todo = @ \ {r}])
      BY DEF RegisterRefresh
<1> DEFINE f == [frame[t] EXCEPT !.todo = @ \ {r}]
<1>2. /\ f \in Calls /\ f.op = "register" /\ f.at = "refresh" /\ f.x = frame[t].x
      /\ f.todo = frame[t].todo \ {r}
      BY <1>0 DEF Calls
<1> HIDE DEF f
<1>3. frame'[t] = f /\ OthersStay(t)
      BY <1>1, <1>2, ContinueStays DEF JInv, f
<1>4. UNCHANGED <<context, registry, pmu>>
      BY DEF RegisterRefresh
<1>5. \A u \in Threads : u # t => ~(frame[u].op = "register" /\ frame[u].at = "refresh")
                                  /\ ~(frame[u].op = "receive" /\ frame[u].at = "hash")
      BY <1>0 DEF JInv, ParticipantMu
<1>6. /\ reader' \in [Readers -> [made : BOOLEAN, active : BOOLEAN, refreshes : BOOLEAN,
                                  key : Regs \cup {None}, field : Regs \cup {None}]]
      /\ \A s \in Readers : s # r => reader'[s] = reader[s]
      /\ reader'[r].active = reader[r].active /\ reader'[r].refreshes = reader[r].refreshes
      /\ reader'[r].key = frame[t].x
      /\ reader'[r].field = IF reader[r].refreshes THEN Getter(frame[t].x) ELSE reader[r].field
      /\ r \in Readers
  <2>1. r \in Readers /\ Getter(frame[t].x) \in Regs \cup {None}
        BY <1>0 DEF Getter
  <2>2. reader[r].field \in Regs \cup {None}
        BY <2>1 DEF JInv, JavaTypeOK
  <2> DEFINE fld == IF reader[r].refreshes THEN Getter(frame[t].x) ELSE reader[r].field
             R == [made : BOOLEAN, active : BOOLEAN, refreshes : BOOLEAN,
                   key : Regs \cup {None}, field : Regs \cup {None}]
             g == [reader[r] EXCEPT !.key = frame[t].x, !.field = fld]
  <2>3. fld \in Regs \cup {None}
        BY <2>1, <2>2
  <2>4. reader \in [Readers -> R] /\ reader[r] \in R
        BY <2>1 DEF JInv, JavaTypeOK
  <2>5. reader' = [reader EXCEPT ![r] = g]
        BY <1>1, <2>4
  <2> HIDE DEF fld
  <2>6. /\ g \in R /\ g.active = reader[r].active /\ g.refreshes = reader[r].refreshes
        /\ g.key = frame[t].x /\ g.field = fld
        BY <1>0, <2>3, <2>4
  <2> HIDE DEF g
  <2>7. reader' \in [Readers -> R] /\ reader'[r] = g /\ \A s \in Readers : s # r => reader'[s] = reader[s]
        BY <2>1, <2>4, <2>5, <2>6
  <2> QED  BY <2>1, <2>6, <2>7 DEF fld
<1>7. ContextsOwned'
  <2>1. \A u \in Threads, y \in Regs : Owns(u, y)' <=> Owns(u, y)
        BY <1>0, <1>2, <1>3 DEF Owns, OthersStay
  <2> QED  BY <1>0, <1>2, <1>3, <1>4, <2>1 DEF JInv, ContextsOwned, Owns, OthersStay
<1>8. ParticipantMu'
      BY <1>0, <1>2, <1>3, <1>4, <1>5 DEF JInv, ParticipantMu, OthersStay
<1>9. ReadersCurrent'
  <2> SUFFICES ASSUME NEW s \in Readers PROVE ReaderCurrent(s)'
      BY DEF ReadersCurrent
  <2>1. CASE s = r
    <3>1. Uses(s, {frame[t].x})'
      <4>1. ~reader[r].refreshes => reader[r].field = None
            BY <1>6 DEF JInv, ReadersCurrent, ReaderCurrent
      <4> QED  BY <1>2, <1>3, <1>6, <2>1, <4>1 DEF Uses, Getter
    <3> QED  BY <1>2, <1>3, <1>6, <2>1, <3>1 DEF JInv, ReadersCurrent, ReaderCurrent
  <2>2. CASE s # r
    <3>1. ReaderCurrent(s) /\ reader'[s] = reader[s]
          BY <1>6, <2>2 DEF JInv, ReadersCurrent
    <3> QED  BY <1>0, <1>2, <1>3, <1>4, <1>5, <2>2, <3>1 DEF ReaderCurrent, Uses, OthersStay
  <2> QED  BY <2>1, <2>2
<1>10. CachesFilled'
      BY <1>0, <1>2, <1>3, NoLookup DEF RegisterRefresh
<1>11. CallsFit'
      BY <1>2, <1>3 DEF JInv, CallsFit, OthersStay
<1>12. JavaTypeOK'
      BY <1>3, <1>6 DEF JInv, JavaTypeOK, OthersStay, RegisterRefresh
<1> QED  BY <1>7, <1>8, <1>9, <1>10, <1>11, <1>12 DEF JInv

LEMMA RegisterSwapInv ==
    ASSUME JInv, NEW t \in Threads, RegisterSwap(t)
    PROVE  JInv'
<1> USE DEF In, Registers
<1>0. /\ frame[t].op = "register" /\ frame[t].at = "refresh" /\ frame[t] \in Calls
      /\ frame[t].x \in Regs /\ frame[t].todo = {} /\ pmu = t /\ Owns(t, frame[t].x)
      /\ registry \in Regs \cup {None}
      BY DEF JInv, JavaTypeOK, ContextsOwned, ParticipantMu, RegisterSwap, Owns
<1>1. /\ OthersStay(t)
      /\ registry = None => frame'[t].op = "none" /\ frame'[t].at = "none"
      /\ registry # None => frame'[t].op = "register" /\ frame'[t].at = "cleanup" /\ frame'[t].old = registry
  <2>1. CASE registry = None
    <3>1. End(t)
          BY <2>1 DEF RegisterSwap
    <3> QED  BY <2>1, <3>1, EndStays DEF JInv, NoCall
  <2>2. CASE registry # None
    <3> DEFINE f == [frame[t] EXCEPT !.at = "cleanup", !.old = registry, !.x = None]
    <3>1. f \in Calls /\ f.op = "register" /\ f.at = "cleanup" /\ f.old = registry
          BY <1>0 DEF Calls
    <3>2. Continue(t, f)
          BY <2>2 DEF RegisterSwap
    <3> HIDE DEF f
    <3> QED  BY <2>2, <3>1, <3>2, ContinueStays DEF JInv
  <2> QED  BY <2>1, <2>2
<1>2. registry' = frame[t].x /\ pmu' = None /\ UNCHANGED <<context, reader>>
      BY DEF RegisterSwap
<1>3. \A u \in Threads : u # t => ~(frame[u].op = "register" /\ frame[u].at = "refresh")
                                  /\ ~(frame[u].op = "receive" /\ frame[u].at = "hash")
      BY <1>0 DEF JInv, ParticipantMu
<1>4. /\ \A u \in Threads, y \in Regs : u # t => (Owns(u, y)' <=> Owns(u, y))
      /\ \A y \in Regs : Owns(t, y)' <=> y = registry
      /\ \A y \in Regs : Owns(t, y) <=> y = frame[t].x
      BY <1>0, <1>1, JavaAssumption DEF Owns, OthersStay
<1>5. ContextsOwned'
  <2>1. context'[registry'] = "live" /\ (registry # None => context[registry] = "live")
        BY <1>0, <1>2 DEF JInv, ContextsOwned
  <2>2. \A u \in Threads :
           /\ Registers(u, {"adapter", "install", "refresh", "failed"})' => frame'[u].x \in Regs
           /\ Registers(u, {"cleanup"})' => frame'[u].old \in Regs
        BY <1>0, <1>1 DEF JInv, ContextsOwned, OthersStay
  <2>3. ASSUME NEW u \in Threads, NEW y \in Regs, Owns(u, y)'
        PROVE  /\ y # registry' /\ context'[y] # "unused"
               /\ frame'[u].at # "failed" => context'[y] = "live"
               /\ \A v \in Threads : Owns(v, y)' => v = u
    <3>1. CASE u = t
      <4>1. y = registry /\ y # frame[t].x /\ context'[y] = "live"
            BY <1>0, <1>2, <1>4, <2>1, <2>3, <3>1, JavaAssumption DEF JInv, ContextsOwned
      <4>2. \A v \in Threads : Owns(v, y)' => v = t
            BY <1>4, <4>1 DEF JInv, ContextsOwned
      <4> QED  BY <1>2, <3>1, <4>1, <4>2
    <3>2. CASE u # t
      <4>1. Owns(u, y) /\ frame'[u].at = frame[u].at
            BY <1>1, <1>4, <2>3, <3>2 DEF OthersStay
      <4>2. y # frame[t].x /\ y # registry
            BY <1>0, <3>2, <4>1 DEF JInv, ContextsOwned
      <4>3. \A v \in Threads : Owns(v, y)' => Owns(v, y)
            BY <1>4, <4>2
      <4> QED  BY <1>2, <4>1, <4>2, <4>3 DEF JInv, ContextsOwned
    <3> QED  BY <3>1, <3>2
  <2>4. \A y \in Regs : context'[y] = "live" => y = registry' \/ \E u \in Threads : Owns(u, y)'
    <3> SUFFICES ASSUME NEW y \in Regs, context[y] = "live", y # frame[t].x
                 PROVE  \E u \in Threads : Owns(u, y)'
        BY <1>2
    <3>1. y = registry \/ \E u \in Threads : Owns(u, y)
          BY DEF JInv, ContextsOwned
    <3> QED  BY <1>4, <3>1
  <2> QED  BY <2>1, <2>2, <2>3, <2>4 DEF ContextsOwned
<1>6. ParticipantMu'
      BY <1>1, <1>2, <1>3, JavaAssumption DEF JInv, ParticipantMu, OthersStay
<1>7. ReadersCurrent'
  <2> SUFFICES ASSUME NEW r \in Readers PROVE ReaderCurrent(r)'
      BY DEF ReadersCurrent
  <2>1. ReaderCurrent(r) /\ reader' = reader
        BY <1>2 DEF JInv, ReadersCurrent
  <2>2. reader[r].active => Uses(r, {frame[t].x})
        BY <1>0, <1>3, <2>1 DEF ReaderCurrent, Uses
  <2>3. \A u \in Threads : ~(frame'[u].op = "register" /\ frame'[u].at = "refresh")
        BY <1>0, <1>1, <1>3 DEF OthersStay
  <2> QED  BY <1>2, <2>1, <2>2, <2>3 DEF ReaderCurrent, Uses
<1>8. CachesFilled'
      BY <1>0, <1>1, NoLookup DEF RegisterSwap
<1>9. CallsFit'
      BY <1>0, <1>1 DEF JInv, CallsFit, OthersStay
<1>10. JavaTypeOK'
      BY <1>0, <1>1, <1>2 DEF JInv, JavaTypeOK, OthersStay, RegisterSwap
<1> QED  BY <1>5, <1>6, <1>7, <1>8, <1>9, <1>10 DEF JInv

(* The end of a registration, which releases the context x it owns. *)
LEMMA ReleaseInv ==
    ASSUME JInv, NEW t \in Threads, NEW x \in Regs, Owns(t, x),
           frame[t].at \in {"cleanup", "failed"}, End(t),
           context' = [context EXCEPT ![x] = "released"],
           UNCHANGED <<getter, registry, pmu, rmu, reader, gone, cache, globals, cmu>>
    PROVE  JInv'
<1> USE DEF In, Registers
<1>1. OthersStay(t) /\ frame'[t].op = "none" /\ frame'[t].at = "none"
      BY EndStays DEF JInv, NoCall
<1>2. frame[t].op = "register"
      BY DEF Owns
<1>3. /\ \A u \in Threads, y \in Regs : u # t => (Owns(u, y)' <=> Owns(u, y))
      /\ \A y \in Regs : ~Owns(t, y)' /\ (Owns(t, y) <=> y = x)
      BY <1>1 DEF Owns, OthersStay
<1>4. context'[x] = "released" /\ \A y \in Regs : y # x => context'[y] = context[y]
      BY DEF JInv, JavaTypeOK
<1>5. ContextsOwned'
  <2>1. registry # x /\ (registry # None => context'[registry] = "live")
        BY <1>4 DEF JInv, ContextsOwned, JavaTypeOK
  <2>2. \A u \in Threads :
           /\ Registers(u, {"adapter", "install", "refresh", "failed"})' => frame'[u].x \in Regs
           /\ Registers(u, {"cleanup"})' => frame'[u].old \in Regs
        BY <1>1 DEF JInv, ContextsOwned, OthersStay
  <2>3. ASSUME NEW u \in Threads, NEW y \in Regs, Owns(u, y)'
        PROVE  /\ y # registry' /\ context'[y] # "unused"
               /\ frame'[u].at # "failed" => context'[y] = "live"
               /\ \A v \in Threads : Owns(v, y)' => v = u
    <3>1. u # t /\ Owns(u, y) /\ frame'[u].at = frame[u].at
          BY <1>1, <1>3, <2>3 DEF OthersStay
    <3>2. y # x
          BY <3>1 DEF JInv, ContextsOwned
    <3>3. \A v \in Threads : Owns(v, y)' => Owns(v, y)
          BY <1>3
    <3> QED  BY <1>4, <3>1, <3>2, <3>3 DEF JInv, ContextsOwned
  <2>4. \A y \in Regs : context'[y] = "live" => y = registry \/ \E u \in Threads : Owns(u, y)'
        BY <1>3, <1>4 DEF JInv, ContextsOwned
  <2> QED  BY <2>1, <2>2, <2>3, <2>4 DEF ContextsOwned
<1>6. ParticipantMu'
      BY <1>1, <1>2 DEF JInv, ParticipantMu, OthersStay
<1>7. ReadersCurrent'
      BY <1>1, <1>2 DEF JInv, ReadersCurrent, ReaderCurrent, Uses, OthersStay
<1>8. CachesFilled'
      BY <1>1, <1>2, NoLookup
<1>9. CallsFit'
      BY <1>1 DEF JInv, CallsFit, OthersStay
<1>10. JavaTypeOK'
      BY <1>1 DEF JInv, JavaTypeOK, OthersStay
<1> QED  BY <1>5, <1>6, <1>7, <1>8, <1>9, <1>10 DEF JInv

LEMMA RegisterCleanupInv ==
    ASSUME JInv, NEW t \in Threads, RegisterCleanup(t)
    PROVE  JInv'
<1>1. frame[t].old \in Regs /\ Owns(t, frame[t].old) /\ frame[t].at = "cleanup"
      BY DEF JInv, ContextsOwned, RegisterCleanup, Owns, Registers, In
<1> QED  BY <1>1, ReleaseInv DEF RegisterCleanup

LEMMA RegisterFailedInv ==
    ASSUME JInv, NEW t \in Threads, RegisterFailed(t)
    PROVE  JInv'
<1>1. frame[t].x \in Regs /\ Owns(t, frame[t].x) /\ frame[t].at = "failed"
      BY DEF JInv, ContextsOwned, RegisterFailed, Owns, Registers, In
<1> QED  BY <1>1, ReleaseInv DEF RegisterFailed

-------------------------------------------------------------------------------
(* The readers.                                                                *)

(* What a step that changes one reader, outside participant.mu, has to keep. *)
LEMMA ReaderStep ==
    ASSUME JInv, NEW t \in Threads, NEW r \in Readers, OthersStay(t), ~Engaged(t), ~Engaged(t)',
           pmu = None, UNCHANGED <<context, registry, pmu>>,
           \A s \in Readers : s # r => reader'[s] = reader[s],
           ReaderCurrent(r)'
    PROVE  ParticipantMu' /\ ContextsOwned' /\ ReadersCurrent'
<1> USE DEF Engaged, Registers, In, OthersStay
<1>1. \A u \in Threads : ~(frame[u].op = "register" /\ frame[u].at = "refresh")
                         /\ ~(frame[u].op = "receive" /\ frame[u].at = "hash")
      BY JavaAssumption DEF JInv, ParticipantMu
<1>2. ParticipantMu'
      BY <1>1, JavaAssumption DEF JInv, ParticipantMu
<1>3. \A u \in Threads, x \in Regs : Owns(u, x)' <=> Owns(u, x)
      BY DEF Owns
<1>4. ContextsOwned'
      BY <1>3 DEF JInv, ContextsOwned, Owns
<1>5. ReadersCurrent'
      BY <1>1 DEF JInv, ReadersCurrent, ReaderCurrent, Uses
<1> QED  BY <1>2, <1>4, <1>5

(* A new call about a reader. *)
LEMMA CallOnReader ==
    ASSUME JInv, NEW t \in Threads, NEW r \in Readers, NEW op, NEW at, NEW x \in Regs \cup {None},
           op \in {"create", "receive", "query", "match"},
           at \in {"field", "hash", "filter", "collect"},
           \/ Continue(t, [NewCall(op, at) EXCEPT !.r = r])
           \/ Continue(t, [NewCall(op, at) EXCEPT !.r = r, !.x = x])
    PROVE  OthersStay(t) /\ frame'[t].op = op /\ frame'[t].at = at /\ frame'[t].r = r
<1> DEFINE g == NewCall(op, at)
<1>1. g \in Calls /\ g.op = op /\ g.at = at
      BY NewCallTyped
<1> HIDE DEF g
<1> DEFINE f == [g EXCEPT !.r = r]
           h == [g EXCEPT !.r = r, !.x = x]
<1>2. f \in Calls /\ f.op = op /\ f.at = at /\ f.r = r
      BY <1>1 DEF Calls
<1>3. h \in Calls /\ h.op = op /\ h.at = at /\ h.r = r
      BY <1>1 DEF Calls
<1>4. Continue(t, f) \/ Continue(t, h)
      BY DEF g
<1> HIDE DEF f, h
<1> QED  BY <1>2, <1>3, <1>4, ContinueStays DEF JInv

LEMMA CreateReaderInv ==
    ASSUME JInv, NEW t \in Threads, NEW r \in Readers, CreateReader(t, r)
    PROVE  JInv'
<1>1. OthersStay(t) /\ frame'[t].op = "create" /\ frame'[t].at = "field" /\ frame'[t].r = r
      BY CallOnReader DEF CreateReader
<1> DEFINE new == [NoReader EXCEPT !.made = TRUE, !.active = TRUE, !.key = registry]
<1>2. /\ new \in [made : BOOLEAN, active : BOOLEAN, refreshes : BOOLEAN,
                  key : Regs \cup {None}, field : Regs \cup {None}]
      /\ new.key = registry /\ new.field = None
      BY DEF NoReader, JInv, JavaTypeOK
<1>3. reader' = [reader EXCEPT ![r] = new]
      BY DEF CreateReader
<1> HIDE DEF new
<1>4. /\ reader' \in [Readers -> [made : BOOLEAN, active : BOOLEAN, refreshes : BOOLEAN,
                                  key : Regs \cup {None}, field : Regs \cup {None}]]
      /\ reader'[r] = new /\ \A s \in Readers : s # r => reader'[s] = reader[s]
      BY <1>2, <1>3 DEF JInv, JavaTypeOK
<1>5. ReaderCurrent(r)'
  <2>1. \A u \in Threads : ~(frame'[u].op = "register" /\ frame'[u].at = "refresh")
        BY <1>1, JavaAssumption DEF CreateReader, JInv, ParticipantMu, OthersStay, In
  <2>2. registry' = registry
        BY DEF CreateReader
  <2> QED  BY <1>2, <1>4, <2>1, <2>2 DEF ReaderCurrent, Uses, In
<1>6. ParticipantMu' /\ ContextsOwned' /\ ReadersCurrent'
      BY <1>1, <1>4, <1>5, ReaderStep DEF CreateReader, Free, NoCall, Engaged, Registers, In
<1>7. CachesFilled'
      BY <1>1, NoLookup DEF CreateReader, Free, NoCall
<1>8. CallsFit'
      BY <1>1 DEF JInv, CallsFit, OthersStay
<1>9. JavaTypeOK'
      BY <1>1, <1>4 DEF JInv, JavaTypeOK, OthersStay, CreateReader
<1> QED  BY <1>6, <1>7, <1>8, <1>9 DEF JInv

LEMMA CreateFieldInv ==
    ASSUME JInv, NEW t \in Threads, CreateField(t)
    PROVE  JInv'
<1> DEFINE r == frame[t].r
           R == [made : BOOLEAN, active : BOOLEAN, refreshes : BOOLEAN,
                 key : Regs \cup {None}, field : Regs \cup {None}]
<1>1. r \in Readers /\ frame[t].op = "create" /\ frame[t].at = "field"
      BY DEF CreateField, In, JInv, CallsFit
<1>2. OthersStay(t) /\ frame'[t].op = "none" /\ frame'[t].at = "none"
      BY EndStays DEF JInv, NoCall, CreateField
<1>3. Getter(registry) \in {registry, None} /\ registry \in Regs \cup {None} /\ registry' = registry
      BY DEF Getter, JInv, JavaTypeOK, CreateField
<1>4. reader \in [Readers -> R] /\ reader[r] \in R
      BY <1>1 DEF JInv, JavaTypeOK
<1> DEFINE g == [reader[r] EXCEPT !.refreshes = TRUE, !.field = Getter(registry)]
<1>5. reader' = [reader EXCEPT ![r] = g]
      BY <1>4 DEF CreateField
<1>6. /\ g \in R /\ g.refreshes = TRUE /\ g.field = Getter(registry)
      /\ g.key = reader[r].key /\ g.active = reader[r].active
      BY <1>3, <1>4
<1> HIDE DEF g
<1>7. reader' \in [Readers -> R] /\ reader'[r] = g /\ \A s \in Readers : s # r => reader'[s] = reader[s]
      BY <1>1, <1>4, <1>5, <1>6
<1>8. \A z : z = r => ReaderCurrent(z)'
  <2>1. \A u \in Threads : ~(frame[u].op = "register" /\ frame[u].at = "refresh")
        BY JavaAssumption DEF CreateField, JInv, ParticipantMu, In
  <2>2. \A u \in Threads : ~(frame'[u].op = "register" /\ frame'[u].at = "refresh")
        BY <1>2, <2>1 DEF OthersStay
  <2>3. reader[r].active => reader[r].key \in {registry, None}
        BY <1>1, <2>1 DEF JInv, ReadersCurrent, ReaderCurrent, Uses, In
  <2>4. /\ reader'[r].refreshes /\ reader'[r].field \in {registry', None}
        /\ reader'[r].active => reader'[r].key \in {registry', None}
        BY <1>3, <1>6, <1>7, <2>3
  <2>5. \A z \in Readers :
          (/\ reader'[z].refreshes /\ reader'[z].field \in {registry', None}
           /\ reader'[z].active => reader'[z].key \in {registry', None}) => ReaderCurrent(z)'
        BY <2>2 DEF ReaderCurrent, Uses, In
  <2> QED  BY <1>1, <2>4, <2>5
<1>9. ParticipantMu' /\ ContextsOwned' /\ ReadersCurrent'
  <2>1. PICK z \in Readers : z = r
        BY <1>1
  <2>2. ReaderCurrent(z)' /\ \A s \in Readers : s # z => reader'[s] = reader[s]
        BY <1>7, <1>8, <2>1
  <2> HIDE DEF r
  <2> QED  BY <1>1, <1>2, <2>2, ReaderStep DEF CreateField, Engaged, Registers, In
<1>10. CachesFilled'
      BY <1>1, <1>2, NoLookup DEF CreateField
<1>11. CallsFit'
      BY <1>2 DEF JInv, CallsFit, OthersStay
<1>12. JavaTypeOK'
      BY <1>2, <1>7 DEF JInv, JavaTypeOK, OthersStay, CreateField
<1> QED  BY <1>9, <1>10, <1>11, <1>12 DEF JInv

LEMMA DeleteReaderInv ==
    ASSUME JInv, NEW t \in Threads, NEW r \in Readers, DeleteReader(t, r)
    PROVE  JInv'
<1> DEFINE R == [made : BOOLEAN, active : BOOLEAN, refreshes : BOOLEAN,
                 key : Regs \cup {None}, field : Regs \cup {None}]
           g == [reader[r] EXCEPT !.active = FALSE]
<1>1. OthersStay(t) /\ frame[t].op = "none" /\ frame'[t] = frame[t] /\ frame' = frame
      BY DEF DeleteReader, Free, NoCall, OthersStay, JInv, JavaTypeOK
<1>2. reader \in [Readers -> R] /\ reader[r] \in R /\ reader' = [reader EXCEPT ![r] = g]
      BY DEF JInv, JavaTypeOK, DeleteReader
<1>3. g \in R /\ g.refreshes = reader[r].refreshes /\ ~g.active
      BY <1>2
<1> HIDE DEF g
<1>4. reader' \in [Readers -> R] /\ reader'[r] = g /\ \A s \in Readers : s # r => reader'[s] = reader[s]
      BY <1>2, <1>3
<1>5. ReaderCurrent(r)'
      BY <1>3, <1>4 DEF ReaderCurrent, DeleteReader
<1>6. ParticipantMu' /\ ContextsOwned' /\ ReadersCurrent'
      BY <1>1, <1>4, <1>5, ReaderStep DEF DeleteReader, Engaged, Registers, In
<1>7. CachesFilled'
      BY <1>1, NoLookup DEF DeleteReader
<1>8. JavaTypeOK' /\ CallsFit'
      BY <1>1, <1>4 DEF JInv, JavaTypeOK, CallsFit, DeleteReader
<1> QED  BY <1>6, <1>7, <1>8 DEF JInv

LEMMA ReceiveInv ==
    ASSUME JInv, NEW t \in Threads, NEW r \in Readers, Receive(t, r)
    PROVE  JInv'
<1> USE DEF In, Registers
<1>1. OthersStay(t) /\ frame'[t].op = "receive" /\ frame'[t].at = "hash" /\ frame'[t].r = r
      BY CallOnReader DEF Receive
<1>2. /\ frame[t].op = "none" /\ pmu = None /\ pmu' = t /\ reader[r].active
      /\ UNCHANGED <<context, registry, reader>>
      BY DEF Receive, Free, NoCall
<1>3. \A u \in Threads : ~(frame[u].op = "register" /\ frame[u].at = "refresh")
                         /\ ~(frame[u].op = "receive" /\ frame[u].at = "hash")
      BY <1>2, JavaAssumption DEF JInv, ParticipantMu
<1>4. ParticipantMu'
      BY <1>1, <1>2, <1>3 DEF ParticipantMu, OthersStay
<1>5. \A u \in Threads, x \in Regs : Owns(u, x)' <=> Owns(u, x)
      BY <1>1, <1>2 DEF Owns, OthersStay
<1>6. ContextsOwned'
      BY <1>1, <1>2, <1>5 DEF JInv, ContextsOwned, Owns, OthersStay
<1>7. ReadersCurrent'
      BY <1>1, <1>2, <1>3 DEF JInv, ReadersCurrent, ReaderCurrent, Uses, OthersStay
<1>8. CachesFilled'
      BY <1>1, <1>2, NoLookup DEF Receive
<1>9. CallsFit'
      BY <1>1 DEF JInv, CallsFit, OthersStay
<1>10. JavaTypeOK'
      BY <1>1, <1>2 DEF JInv, JavaTypeOK, OthersStay, Receive
<1> QED  BY <1>4, <1>6, <1>7, <1>8, <1>9, <1>10 DEF JInv

LEMMA ReceiveHashInv ==
    ASSUME JInv, NEW t \in Threads, ReceiveHash(t)
    PROVE  JInv'
<1> USE DEF In, Registers
<1>1. OthersStay(t) /\ frame'[t] = [frame[t] EXCEPT !.at = "deliver"]
      BY GoOnStays DEF JInv, ReceiveHash
<1>a. OthersStay(t)
      BY <1>1
<1>2. /\ frame[t].op = "receive" /\ frame[t].at = "hash" /\ pmu = t /\ pmu' = None /\ frame[t] \in Calls
      /\ frame[t].r \in Readers /\ UNCHANGED <<context, registry, reader>>
      BY DEF ReceiveHash, JInv, ParticipantMu, JavaTypeOK, CallsFit
<1>3. frame'[t].op = "receive" /\ frame'[t].at = "deliver" /\ frame'[t].r = frame[t].r
      BY <1>1, <1>2 DEF Calls
<1>4. \A u \in Threads : u # t => ~(frame[u].op = "register" /\ frame[u].at = "refresh")
                                  /\ ~(frame[u].op = "receive" /\ frame[u].at = "hash")
      BY <1>2 DEF JInv, ParticipantMu
<1>5. ParticipantMu'
      BY <1>2, <1>3, <1>4, <1>a, JavaAssumption DEF ParticipantMu, OthersStay
<1>6. \A u \in Threads, x \in Regs : Owns(u, x)' <=> Owns(u, x)
      BY <1>2, <1>3, <1>a DEF Owns, OthersStay
<1>7. ContextsOwned'
      BY <1>2, <1>3, <1>6, <1>a DEF JInv, ContextsOwned, Owns, OthersStay
<1>8. ReadersCurrent'
      BY <1>2, <1>3, <1>a DEF JInv, ReadersCurrent, ReaderCurrent, Uses, OthersStay
<1>9. CachesFilled'
      BY <1>2, <1>3, <1>a, NoLookup DEF ReceiveHash
<1>10. CallsFit'
      BY <1>2, <1>3, <1>a DEF JInv, CallsFit, OthersStay
<1>11. JavaTypeOK'
      BY <1>2, <1>a DEF JInv, JavaTypeOK, OthersStay, ReceiveHash
<1> QED  BY <1>5, <1>7, <1>8, <1>9, <1>10, <1>11 DEF JInv

(* Calls about a reader that hold no context and not participant.mu: only      *)
(* the frame and the mu of a reader change.                                    *)
LEMMA ReaderCallInv ==
    ASSUME JInv, NEW t \in Threads, OthersStay(t),
           frame[t].op \in {"none", "receive", "query", "match"}, frame[t].at # "hash",
           \/ frame'[t].op = "none" /\ frame'[t].at = "none"
           \/ /\ frame'[t].op \in {"receive", "query", "match"} /\ frame'[t].r \in Readers
              /\ frame'[t].at \in {"filter", "collect"}
              /\ frame'[t].at = "filter" => frame'[t].op # "match",
           rmu' \in [Readers -> Threads \cup {None}],
           UNCHANGED <<context, getter, registry, pmu, reader, gone, cache, globals, cmu>>
    PROVE  JInv'
<1>1. ParticipantMu' /\ ContextsOwned' /\ ReadersCurrent'
      BY NotEngaged DEF Engaged, Registers, In
<1>2. CachesFilled'
      BY NoLookup
<1>3. CallsFit'
      BY DEF JInv, CallsFit, OthersStay
<1>4. JavaTypeOK'
      BY DEF JInv, JavaTypeOK, OthersStay
<1> QED  BY <1>1, <1>2, <1>3, <1>4 DEF JInv

LEMMA ReceiveLockInv ==
    ASSUME JInv, NEW t \in Threads, ReceiveLock(t)
    PROVE  JInv'
<1>1. OthersStay(t) /\ frame'[t] = [frame[t] EXCEPT !.at = "filter"]
      BY GoOnStays DEF JInv, ReceiveLock
<1>2. /\ frame[t].op = "receive" /\ frame[t].at = "deliver" /\ frame[t].r \in Readers /\ frame[t] \in Calls
      /\ rmu' \in [Readers -> Threads \cup {None}]
      BY DEF JInv, JavaTypeOK, CallsFit, ReceiveLock, In
<1>3. frame'[t].op = "receive" /\ frame'[t].at = "filter" /\ frame'[t].r \in Readers
      BY <1>1, <1>2 DEF Calls
<1>4. OthersStay(t)
      BY <1>1
<1>5. UNCHANGED <<context, getter, registry, pmu, reader, gone, cache, globals, cmu>>
      BY DEF ReceiveLock
<1> QED  BY <1>2, <1>3, <1>4, <1>5, ReaderCallInv

LEMMA QueryInv ==
    ASSUME JInv, NEW t \in Threads, NEW r \in Readers, Query(t, r)
    PROVE  JInv'
<1>1. OthersStay(t) /\ frame'[t].op = "query" /\ frame'[t].at = "filter" /\ frame'[t].r = r
      BY CallOnReader DEF Query
<1>2. /\ frame[t].op = "none" /\ frame[t].at = "none" /\ rmu' \in [Readers -> Threads \cup {None}]
      /\ UNCHANGED <<context, getter, registry, pmu, reader, gone, cache, globals, cmu>>
      BY DEF Query, Free, NoCall, JInv, JavaTypeOK
<1> QED  BY <1>1, <1>2, ReaderCallInv

LEMMA FilteredInv ==
    ASSUME JInv, NEW t \in Threads, Filtered(t)
    PROVE  JInv'
<1>1. OthersStay(t) /\ frame'[t].op = "none" /\ frame'[t].at = "none"
      BY EndStays DEF JInv, NoCall, Filtered
<1>2. /\ frame[t].op \in {"receive", "query"} /\ frame[t].at = "filter"
      /\ rmu' \in [Readers -> Threads \cup {None}]
      /\ UNCHANGED <<context, getter, registry, pmu, reader, gone, cache, globals, cmu>>
      BY DEF Filtered, JInv, JavaTypeOK, CallsFit
<1> QED  BY <1>1, <1>2, ReaderCallInv

LEMMA MatchInv ==
    ASSUME JInv, NEW t \in Threads, NEW r \in Readers, Match(t, r)
    PROVE  JInv'
<1>1. reader[r].key \in Regs \cup {None}
      BY DEF JInv, JavaTypeOK
<1>2. OthersStay(t) /\ frame'[t].op = "match" /\ frame'[t].at = "collect" /\ frame'[t].r = r
      BY <1>1, CallOnReader DEF Match
<1>3. /\ frame[t].op = "none" /\ frame[t].at = "none" /\ rmu' \in [Readers -> Threads \cup {None}]
      /\ UNCHANGED <<context, getter, registry, pmu, reader, gone, cache, globals, cmu>>
      BY DEF Match, Free, NoCall, JInv, JavaTypeOK
<1> QED  BY <1>2, <1>3, ReaderCallInv

LEMMA MatchCollectInv ==
    ASSUME JInv, NEW t \in Threads, MatchCollect(t)
    PROVE  JInv'
<1>1. OthersStay(t) /\ frame'[t].op = "none" /\ frame'[t].at = "none"
      BY EndStays DEF JInv, NoCall, MatchCollect
<1>2. /\ frame[t].op = "match" /\ frame[t].at = "collect"
      /\ rmu' \in [Readers -> Threads \cup {None}]
      /\ UNCHANGED <<context, getter, registry, pmu, reader, gone, cache, globals, cmu>>
      BY DEF MatchCollect, In, JInv, JavaTypeOK
<1> QED  BY <1>1, <1>2, ReaderCallInv

LEMMA DeleteParticipantInv ==
    ASSUME JInv, NEW t \in Threads, DeleteParticipant(t)
    PROVE  JInv'
<1> USE DEF In, Registers
<1>1. /\ frame' = frame /\ OthersStay(t) /\ frame[t].op = "none" /\ frame'[t].op = "none"
      /\ \A u \in Threads : frame[u].op \in {"none", "native"}
      /\ pmu' = pmu /\ reader' = reader /\ registry' = None
      BY DEF DeleteParticipant, Free, NoCall, OthersStay, JInv, JavaTypeOK
<1>2. \A x \in Regs : context'[x] = IF x = registry THEN "released" ELSE context[x]
      BY DEF DeleteParticipant
<1>3. \A u \in Threads, x \in Regs : ~Owns(u, x) /\ ~Owns(u, x)'
      BY <1>1 DEF Owns
<1>4. ContextsOwned'
      BY <1>1, <1>2, <1>3 DEF JInv, ContextsOwned
<1>5. ParticipantMu'
      BY <1>1 DEF JInv, ParticipantMu
<1>6. ReadersCurrent'
      BY <1>1 DEF JInv, ReadersCurrent, ReaderCurrent, DeleteParticipant
<1>7. CachesFilled'
      BY <1>1, NoLookup DEF DeleteParticipant
<1>8. context' \in [Regs -> {"unused", "live", "released"}]
      BY DEF JInv, JavaTypeOK, DeleteParticipant
<1>9. JavaTypeOK' /\ CallsFit'
      BY <1>1, <1>8 DEF JInv, JavaTypeOK, CallsFit, DeleteParticipant
<1> QED  BY <1>4, <1>5, <1>6, <1>7, <1>9 DEF JInv

-------------------------------------------------------------------------------
(* The invariant, and what it gives.                                           *)

LEMMA JavaInitInv == JavaInit => JInv
<1> SUFFICES ASSUME JavaInit PROVE JInv
    OBVIOUS
<1> USE DEF JavaInit, Blank
<1>1. /\ \A t \in Threads : frame[t] = NoCall /\ frame[t].op = "none" /\ frame[t].at = "none"
      /\ frame \in [Threads -> Calls]
      BY NoCallTyped DEF NoCall
<1>2. \A k \in Caches : ~cache[k].cls /\ globals[k] = 0
      OBVIOUS
<1>3. \A r \in Readers : ~reader[r].active /\ ~reader[r].refreshes /\ reader[r].field = None
      BY DEF NoReader
<1>4. JavaTypeOK
  <2>1. reader \in [Readers -> [made : BOOLEAN, active : BOOLEAN, refreshes : BOOLEAN,
                                key : Regs \cup {None}, field : Regs \cup {None}]]
        BY DEF NoReader
  <2>2. cache \in [Caches -> [cls : BOOLEAN, ctor : BOOLEAN]] /\ globals \in [Caches -> Int]
        OBVIOUS
  <2> QED  BY <1>1, <2>1, <2>2 DEF JavaTypeOK
<1>5. CallsFit
      BY <1>1 DEF CallsFit
<1>6. ParticipantMu
      BY <1>1, JavaAssumption DEF ParticipantMu, In
<1>7. ContextsOwned
      BY <1>1 DEF ContextsOwned, Owns, Registers
<1>8. ReadersCurrent
      BY <1>3 DEF ReadersCurrent, ReaderCurrent
<1>9. CachesFilled
      BY <1>1, <1>2, JavaAssumption DEF CachesFilled, CacheMu, OthersWhole, LookupAt, CacheWhole, In
<1> QED  BY <1>4, <1>5, <1>6, <1>7, <1>8, <1>9 DEF JInv

LEMMA JavaStutterInv == JInv /\ UNCHANGED jvars => JInv'
<1> SUFFICES ASSUME JInv, UNCHANGED jvars PROVE JInv'
    OBVIOUS
<1> USE DEF jvars
<1>1. JavaTypeOK' /\ CallsFit' /\ ParticipantMu'
      BY DEF JInv, JavaTypeOK, CallsFit, ParticipantMu, In
<1>2. ContextsOwned'
      BY DEF JInv, ContextsOwned, Owns, Registers
<1>3. ReadersCurrent'
      BY DEF JInv, ReadersCurrent, ReaderCurrent, Uses, In
<1>4. CachesFilled'
      BY DEF JInv, CachesFilled, CacheMu, OthersWhole, LookupAt, CacheWhole, Key, In
<1> QED  BY <1>1, <1>2, <1>3, <1>4 DEF JInv

LEMMA JavaNextInv == JInv /\ [JavaNext]_jvars => JInv'
<1> SUFFICES ASSUME JInv, JavaNext PROVE JInv'
    BY JavaStutterInv
<1>1. PICK t \in Threads : JavaStep(t) \/ JavaBegin(t)
      BY DEF JavaNext
<1>2. CASE JavaStep(t)
      BY <1>2, LookupLockInv, LookupFindInv, LookupMethodInv, LookupPublishInv, NativeCheckedInv,
         NativeBoxesInv, RegisterAllocInv, RegisterAdapterInv, RegisterInstallInv,
         RegisterRefreshInv, RegisterSwapInv, RegisterCleanupInv, RegisterFailedInv,
         CreateFieldInv, ReceiveHashInv, ReceiveLockInv, FilteredInv, MatchCollectInv DEF JavaStep
<1>3. CASE JavaBegin(t)
      BY <1>3, CallNativeInv, CreateReaderInv, DeleteReaderInv, ReceiveInv, QueryInv, MatchInv,
         DeleteParticipantInv DEF JavaBegin
<1> QED  BY <1>1, <1>2, <1>3

LEMMA JavaInvariant == JavaSpec => []JInv
BY JavaInitInv, JavaNextInv, PTL DEF JavaSpec

(* The natives keep their types: every call, lock, cached class and reader     *)
(* entry is what java_runtime/zzdds_java_runtime.c declares it to be.          *)
THEOREM JavaTypeCorrect == JavaSpec => []JavaTypeOK
<1>1. JInv => JavaTypeOK
      BY DEF JInv
<1> QED  BY <1>1, JavaInvariant, PTL

(* For any number of threads, readers and registrations: what an active reader *)
(* computes key hashes and filters with is live at every moment of a           *)
(* re-registration (registerTypeSupport moves each reader first, then swaps    *)
(* the registry's entry, and releases the old context last).                   *)
THEOREM ReadersStayLive == JavaSpec => []ActiveReadersLive
<1>1. JInv => ActiveReadersLive
  <2> SUFFICES ASSUME JInv PROVE ActiveReadersLive
      OBVIOUS
  <2>1. Live(registry)
        BY DEF JInv, ContextsOwned, Live
  <2>2. \A t \in Threads : In(t, "register", "refresh") => Live(frame[t].x)
        BY DEF JInv, ContextsOwned, Owns, Registers, In, Live
  <2>3. ASSUME NEW r \in Readers, reader[r].active
        PROVE  Live(reader[r].key) /\ Live(reader[r].field)
    <3>1. CASE Uses(r, {registry})
          BY <2>1, <3>1 DEF Uses, Live
    <3>2. CASE \E t \in Threads : In(t, "register", "refresh") /\ Uses(r, {frame[t].x})
          BY <2>2, <3>2 DEF Uses, Live
    <3> QED  BY <2>3, <3>1, <3>2 DEF JInv, ReadersCurrent, ReaderCurrent
  <2>4. ASSUME NEW t \in Threads, In(t, "receive", "hash")
        PROVE  Live(reader[frame[t].r].key)
    <3>1. frame[t].r \in Readers /\ reader[frame[t].r].active
          BY <2>4 DEF JInv, CallsFit, ParticipantMu, In
    <3> QED  BY <2>3, <3>1
  <2> QED  BY <2>1, <2>3, <2>4 DEF ActiveReadersLive
<1> QED  BY <1>1, JavaInvariant, PTL

(* No registration leaks its context, whichever of its steps failed and        *)
(* however many run at once: with none being made, the only live context is    *)
(* the registry's (registerTypeSupport, zzdds_java_ts_ctx_deinit).             *)
THEOREM RegistrationsDoNotLeak == JavaSpec => []RegistrationsReclaimed
<1>1. JInv => RegistrationsReclaimed
  <2> SUFFICES ASSUME JInv, \A t \in Threads : frame[t].op \in {"none", "native"}
               PROVE  {x \in Regs : context[x] = "live"} = {registry} \ {None}
      BY DEF RegistrationsReclaimed
  <2>1. \A t \in Threads, x \in Regs : ~Owns(t, x)
        BY DEF Owns, Registers
  <2>2. \A x \in Regs : context[x] = "live" => x = registry
        BY <2>1 DEF JInv, ContextsOwned
  <2>3. registry # None => registry \in Regs /\ context[registry] = "live"
        BY DEF JInv, ContextsOwned, JavaTypeOK
  <2> QED  BY <2>2, <2>3, JavaAssumption
<1> QED  BY <1>1, JavaInvariant, PTL

(* For any set of natives and threads, a call past a class lookup finds the    *)
(* class and its constructor, and outside the mutex exactly one global         *)
(* reference backs each cached class (zzdds_java_get_or_cache_class).          *)
THEOREM ClassCachesWhole == JavaSpec => []ClassCacheWhole
<1>1. JInv => ClassCacheWhole
  <2> SUFFICES ASSUME JInv PROVE ClassCacheWhole
      OBVIOUS
  <2>1. \A t \in Threads : In(t, "native", "found") => cache[Key(t)].cls /\ cache[Key(t)].ctor
        BY DEF JInv, CachesFilled, LookupAt
  <2>2. DOMAIN cache = Caches
        BY DEF JInv, JavaTypeOK
  <2>3. cmu = None => \A k \in Caches : globals[k] = IF cache[k].cls THEN 1 ELSE 0
        BY JavaAssumption DEF JInv, CachesFilled, OthersWhole, CacheWhole
  <2> QED  BY <2>1, <2>2, <2>3 DEF ClassCacheWhole
<1> QED  BY <1>1, JavaInvariant, PTL
===============================================================================
