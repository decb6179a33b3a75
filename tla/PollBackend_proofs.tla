-------------------------- MODULE PollBackend_proofs --------------------------
(* Proofs about PollBackend, for any number of threads, sources and events:    *)
(* that there is one poller and none sleeps on a poll that has ended, and that *)
(* no service touches a source whose unregister has returned.                  *)
EXTENDS PollBackend, FiniteSetTheorems, TLAPS

-------------------------------------------------------------------------------
(* The inductive invariant.                                                    *)

PollLabels  == {"pollSeq", "waitFds", "poll", "drain", "unpoll"}
WaitLabels  == PollLabels \union {"claimPoll", "futexEnter", "futex", "handOver", "handOverWake", "leave"}
WakeLabels  == {"wakeSeq", "wakeFutex", "wakeSignal", "signal"}
CallLabels  == WakeLabels \union {"idle", "unregister"}
Labels      == WaitLabels \union CallLabels
                 \union {"run", "prepare", "recheck", "wait", "service", "servicePoll", "handle"}

SourceStates == [registered : BOOLEAN, paused : BOOLEAN, kicked : BOOLEAN, armed : BOOLEAN,
                 input : Nat, room : BOOLEAN, held : BOOLEAN]

(* Everything of TypeOK but the bound on waiters, the steps and the calls.     *)
Typed ==
    /\ work \in [Lanes -> Nat] /\ src \in [Sources -> SourceStates]
    /\ stale \subseteq Waiters /\ polling \in BOOLEAN /\ signaled \in BOOLEAN /\ waiters \in Nat
    /\ polled \subseteq Sources \X {"in", "out"} /\ revents \subseteq Sources \X {"in", "out"}
    /\ served \in 0..Budget /\ events \in 0..MaxEvents

Steps ==
    /\ pc \in [Threads -> Labels] /\ ret \in [Threads -> {"idle", "handle", "unregister"}]
    /\ closing \subseteq Threads \X Sources
    /\ \A t \in Threads : t \notin Waiters => pc[t] \in CallLabels /\ ret[t] # "handle"

(* polling says whether there is a poller, and there are never two. *)
Polls(t) == pc[t] \in PollLabels

OnePoller ==
    /\ polling <=> \E t \in Waiters : Polls(t)
    /\ \A t, u \in Waiters : Polls(t) /\ Polls(u) => t = u

(* waiters counts the threads inside wait. *)
Inside == {t \in Waiters : pc[t] \in WaitLabels}

WaitersCounted == IsFiniteSet(Inside) /\ waiters = Cardinality(Inside)

(* A waiter that sleeps or is about to, with a current token, has a poller.    *)
Covered ==
    Readiness => \A t \in Waiters : pc[t] \in {"futexEnter", "futex"} /\ t \notin stale =>
        polling \/ \E u \in Waiters : pc[u] = "handOver"

(* service_mu is held by the thread that services, calls it makes included.    *)
Servicing(t) == pc[t] \in {"servicePoll", "handle"} \/ (pc[t] \in WakeLabels /\ ret[t] = "handle")

ServiceHeld ==
    /\ serviceMu \in Waiters \union {Nobody}
    /\ \A t \in Threads : serviceMu = t <=> Servicing(t)

(* What the service has still to handle is of sources that are registered, or  *)
(* whose unregister waits for it.                                              *)
RevsCovered ==
    /\ serviceMu = Nobody => revents = {}
    /\ \A w \in revents : src[w[1]].registered \/ \E t \in Threads : <<t, w[1]>> \in closing

PInv == Typed /\ Steps /\ OnePoller /\ WaitersCounted /\ Covered /\ ServiceHeld /\ RevsCovered

-------------------------------------------------------------------------------
(* Steps of one thread.                                                        *)

(* What a step of t leaves alone: where the others are. *)
OthersStay(t) ==
    /\ pc' \in [Threads -> Labels] /\ ret' \in [Threads -> {"idle", "handle", "unregister"}]
    /\ \A u \in Threads \ {t} : pc'[u] = pc[u] /\ ret'[u] = ret[u]

LEMMA GotoStays ==
    ASSUME Steps, NEW t \in Threads, NEW l \in Labels, Goto(t, l)
    PROVE  OthersStay(t) /\ pc'[t] = l /\ ret' = ret /\ closing' = closing
BY DEF Steps, Goto, OthersStay

LEMMA JumpStays ==
    ASSUME Steps, NEW t \in Threads, NEW l \in Labels, NEW r \in {"idle", "handle", "unregister"},
           Jump(t, l, r)
    PROVE  OthersStay(t) /\ pc'[t] = l /\ ret'[t] = r
BY DEF Steps, Jump, OthersStay

(* The labels of the loops, of wait and of service are those of waiters. *)
LEMMA InLoop ==
    ASSUME Steps, NEW t \in Threads, pc[t] \notin CallLabels
    PROVE  t \in Waiters
BY DEF Steps

(* A step outside wait. *)
LEMMA WaitAside ==
    ASSUME PInv, NEW t \in Threads, OthersStay(t), pc[t] \notin WaitLabels, pc'[t] \notin WaitLabels,
           UNCHANGED <<polling, waiters>>, stale \ {t} \subseteq stale'
    PROVE  OnePoller' /\ WaitersCounted' /\ Covered'
<1> USE DEF PInv, OthersStay
<1>0. Waiters \subseteq Threads
      BY DEF Threads
<1>1. OnePoller'
      BY <1>0 DEF OnePoller, Polls, WaitLabels
<1>2. Inside' = Inside
      BY <1>0 DEF Inside
<1>3. WaitersCounted'
      BY <1>2 DEF WaitersCounted
<1>4. Covered'
      BY <1>0 DEF Covered, WaitLabels
<1> QED  BY <1>1, <1>3, <1>4

(* A step that neither begins nor ends a service, and no unregister. *)
LEMMA ServiceAside ==
    ASSUME PInv, NEW t \in Threads, OthersStay(t), Servicing(t)' <=> Servicing(t),
           UNCHANGED <<serviceMu, revents>>, closing \subseteq closing',
           \A s \in Sources : src[s].registered => src'[s].registered \/ \E u \in Threads : <<u, s>> \in closing'
    PROVE  ServiceHeld' /\ RevsCovered'
<1> USE DEF PInv, OthersStay
<1>1. \A u \in Threads : Servicing(u)' <=> Servicing(u)
      BY DEF Servicing
<1>2. ServiceHeld'
      BY <1>1 DEF ServiceHeld
<1>3. \A w \in revents : w[1] \in Sources
      BY DEF Typed
<1>4. RevsCovered'
      BY <1>3 DEF RevsCovered
<1> QED  BY <1>2, <1>4

(* futexWake: t goes on, and a sleeper leaves the futex. *)
LEMMA FutexWoken ==
    ASSUME PInv, NEW t \in Threads, NEW next,
           \/ pc[t] = "wakeFutex" /\ next = "wakeSignal"
           \/ pc[t] = "handOverWake" /\ next = "leave",
           WokenByFutex(t, next), UNCHANGED <<work, src, seqVars, srvVars, events>>
    PROVE  PInv'
<1> USE DEF PInv
<1>0. Waiters \subseteq Threads
      BY DEF Threads
<1>1. CASE Goto(t, next)
  <2>1. OthersStay(t) /\ pc'[t] = next /\ ret' = ret /\ closing' = closing
        BY <1>1, GotoStays DEF Labels, CallLabels, WakeLabels, WaitLabels
  <2>2. Steps'
        BY <2>1 DEF Steps, OthersStay, CallLabels, WakeLabels
  <2>3. \A u \in Threads : Servicing(u)' <=> Servicing(u)
        BY <2>1 DEF Servicing, OthersStay, WakeLabels
  <2>4. ServiceHeld' /\ RevsCovered'
        BY <2>1, <2>3, ServiceAside DEF srvVars
  <2>5. OnePoller'
        BY <1>0, <2>1 DEF OnePoller, Polls, PollLabels, OthersStay, seqVars
  <2>6. Inside' = Inside
        BY <1>0, <2>1 DEF Inside, WaitLabels, PollLabels, OthersStay
  <2>7. WaitersCounted'
        BY <2>6 DEF WaitersCounted, seqVars
  <2>8. Covered'
        BY <1>0, <2>1 DEF Covered, OthersStay, seqVars
  <2>9. Typed'
        BY DEF Typed, seqVars, srvVars
  <2> QED  BY <2>2, <2>4, <2>5, <2>7, <2>8, <2>9
<1>2. ASSUME NEW v \in Waiters, pc[v] = "futex", pc' = [pc EXCEPT ![t] = next, ![v] = "leave"],
             UNCHANGED <<ret, closing>>
      PROVE  PInv'
  <2>1. /\ v # t /\ pc'[t] = next /\ pc'[v] = "leave" /\ pc' \in [Threads -> Labels]
        /\ \A u \in Threads : u # t /\ u # v => pc'[u] = pc[u]
        BY <1>0, <1>2 DEF Steps, Labels, CallLabels, WakeLabels, WaitLabels
  <2>2. Steps'
        BY <1>0, <1>2, <2>1 DEF Steps, CallLabels, WakeLabels
  <2>3. \A u \in Threads : Servicing(u)' <=> Servicing(u)
        BY <1>2, <2>1 DEF Servicing, WakeLabels
  <2>4. ServiceHeld'
        BY <2>3 DEF ServiceHeld, srvVars
  <2>5. RevsCovered'
        BY <1>2 DEF RevsCovered, srvVars
  <2>6. OnePoller'
        BY <1>0, <1>2, <2>1 DEF OnePoller, Polls, PollLabels, seqVars
  <2>7. Inside' = Inside
        BY <1>0, <1>2, <2>1 DEF Inside, WaitLabels, PollLabels
  <2>8. WaitersCounted'
        BY <2>7 DEF WaitersCounted, seqVars
  <2>9. Covered'
        BY <1>0, <1>2, <2>1 DEF Covered, seqVars
  <2>10. Typed'
        BY DEF Typed, seqVars, srvVars
  <2> QED  BY <2>2, <2>4, <2>5, <2>6, <2>8, <2>9, <2>10
<1> QED  BY <1>1, <1>2 DEF WokenByFutex

-------------------------------------------------------------------------------
(* Waking, and the loops.                                                      *)

LEMMA WakeFutexInv ==
    ASSUME PInv, NEW t \in Threads, WakeFutex(t)
    PROVE  PInv'
BY FutexWoken DEF WakeFutex

LEMMA HandOverWakeInv ==
    ASSUME PInv, NEW t \in Threads, HandOverWake(t)
    PROVE  PInv'
BY FutexWoken DEF HandOverWake

LEMMA WakeSeqInv ==
    ASSUME PInv, NEW t \in Threads, WakeSeq(t)
    PROVE  PInv'
<1> USE DEF PInv
<1>1. OthersStay(t) /\ pc'[t] \in {"wakeFutex"} /\ ret' = ret /\ closing' = closing
      BY GotoStays DEF Steps, WakeSeq, Labels, CallLabels, WakeLabels, WaitLabels, PollLabels
<1>2. OnePoller' /\ WaitersCounted' /\ Covered'
      BY <1>1, WaitAside DEF WakeSeq, seqVars, Typed, Labels, CallLabels, WakeLabels, WaitLabels, PollLabels
<1>3. ServiceHeld' /\ RevsCovered'
      BY <1>1, ServiceAside DEF WakeSeq, Servicing, srvVars, WakeLabels
<1>4. Steps'
      BY <1>1, InLoop DEF WakeSeq, Steps, OthersStay, Labels, CallLabels, WakeLabels, WaitLabels, PollLabels
<1>5. Typed'
      BY DEF WakeSeq, Typed, seqVars, srvVars
<1> QED  BY <1>2, <1>3, <1>4, <1>5

LEMMA WakeSignalInv ==
    ASSUME PInv, NEW t \in Threads, WakeSignal(t)
    PROVE  PInv'
<1> USE DEF PInv
<1>0. pc[t] = "wakeSignal" /\ ret[t] \in {"idle", "handle", "unregister"}
      BY DEF WakeSignal, Steps
<1>1. OthersStay(t) /\ pc'[t] = ret[t] /\ ret' = ret /\ closing' = closing
      BY <1>0, GotoStays DEF WakeSignal, Labels, CallLabels, WakeLabels, WaitLabels, PollLabels
<1>2. OnePoller' /\ WaitersCounted' /\ Covered'
      BY <1>0, <1>1, WaitAside DEF WakeSignal, Labels, CallLabels, WakeLabels, WaitLabels, PollLabels
<1>3. ServiceHeld' /\ RevsCovered'
      BY <1>0, <1>1, ServiceAside DEF WakeSignal, Servicing, srvVars, WakeLabels
<1>4. Steps'
      BY <1>0, <1>1 DEF Steps, OthersStay, CallLabels, WakeLabels
<1>5. Typed'
      BY BackendAssumption DEF WakeSignal, Typed, srvVars
<1> QED  BY <1>2, <1>3, <1>4, <1>5

LEMMA SignalInv ==
    ASSUME PInv, NEW t \in Threads, Signal(t)
    PROVE  PInv'
<1> USE DEF PInv
<1>0. pc[t] = "signal" /\ ret[t] \in {"idle", "handle", "unregister"}
      BY DEF Signal, Steps
<1>1. OthersStay(t) /\ pc'[t] = ret[t] /\ ret' = ret /\ closing' = closing
      BY <1>0, GotoStays DEF Signal, Labels, CallLabels, WakeLabels, WaitLabels, PollLabels
<1>2. OnePoller' /\ WaitersCounted' /\ Covered'
      BY <1>0, <1>1, WaitAside DEF Signal, Labels, CallLabels, WakeLabels, WaitLabels, PollLabels
<1>3. ServiceHeld' /\ RevsCovered'
      BY <1>0, <1>1, ServiceAside DEF Signal, Servicing, srvVars, WakeLabels
<1>4. Steps'
      BY <1>0, <1>1 DEF Steps, OthersStay, CallLabels, WakeLabels
<1>5. Typed'
      BY BackendAssumption DEF Signal, Typed, srvVars
<1> QED  BY <1>2, <1>3, <1>4, <1>5

LEMMA RunInv ==
    ASSUME PInv, NEW t \in Threads, Run(t)
    PROVE  PInv'
<1> USE DEF PInv
<1>1. OthersStay(t) /\ pc'[t] \in {"service", "prepare"} /\ ret' = ret /\ closing' = closing
      BY GotoStays DEF Run, Labels, CallLabels, WakeLabels, WaitLabels, PollLabels
<1>2. OnePoller' /\ WaitersCounted' /\ Covered'
      BY <1>1, WaitAside DEF Run, seqVars, Labels, CallLabels, WakeLabels, WaitLabels, PollLabels
<1>3. ServiceHeld' /\ RevsCovered'
      BY <1>1, ServiceAside DEF Run, Servicing, srvVars, WakeLabels
<1>4. Steps'
      BY <1>1, InLoop DEF Run, Steps, OthersStay, Labels, CallLabels, WakeLabels, WaitLabels, PollLabels
<1>5. work' \in [Lanes -> Nat]
      BY DEF Run, Typed, Lanes, Mine
<1>6. Typed'
      BY <1>5 DEF Run, Typed, seqVars, srvVars
<1> QED  BY <1>2, <1>3, <1>4, <1>6

LEMMA PrepareWaitInv ==
    ASSUME PInv, NEW t \in Threads, PrepareWait(t)
    PROVE  PInv'
<1> USE DEF PInv
<1>1. OthersStay(t) /\ pc'[t] \in {"recheck"} /\ ret' = ret /\ closing' = closing
      BY GotoStays DEF Steps, PrepareWait, Labels, CallLabels, WakeLabels, WaitLabels, PollLabels
<1>2. OnePoller' /\ WaitersCounted' /\ Covered'
      BY <1>1, WaitAside DEF PrepareWait, seqVars, Typed, Labels, CallLabels, WakeLabels, WaitLabels, PollLabels
<1>3. ServiceHeld' /\ RevsCovered'
      BY <1>1, ServiceAside DEF PrepareWait, Servicing, srvVars, WakeLabels
<1>4. Steps'
      BY <1>1, InLoop DEF PrepareWait, Steps, OthersStay, Labels, CallLabels, WakeLabels, WaitLabels, PollLabels
<1>5. Typed'
      BY DEF PrepareWait, Typed, seqVars, srvVars
<1> QED  BY <1>2, <1>3, <1>4, <1>5

LEMMA RecheckInv ==
    ASSUME PInv, NEW t \in Threads, Recheck(t)
    PROVE  PInv'
<1> USE DEF PInv
<1>1. OthersStay(t) /\ pc'[t] \in {"service", "wait"} /\ ret' = ret /\ closing' = closing
      BY GotoStays DEF Steps, Recheck, Labels, CallLabels, WakeLabels, WaitLabels, PollLabels
<1>2. OnePoller' /\ WaitersCounted' /\ Covered'
      BY <1>1, WaitAside DEF Recheck, seqVars, Typed, Labels, CallLabels, WakeLabels, WaitLabels, PollLabels
<1>3. ServiceHeld' /\ RevsCovered'
      BY <1>1, ServiceAside DEF Recheck, Servicing, srvVars, WakeLabels
<1>4. Steps'
      BY <1>1, InLoop DEF Recheck, Steps, OthersStay, Labels, CallLabels, WakeLabels, WaitLabels, PollLabels
<1>5. Typed'
      BY DEF Recheck, Typed, seqVars, srvVars
<1> QED  BY <1>2, <1>3, <1>4, <1>5

-------------------------------------------------------------------------------
(* wait.                                                                       *)

(* A step inside wait: service is aside, and as many are inside. *)
LEMMA InsideStep ==
    ASSUME PInv, NEW t \in Threads, OthersStay(t), ret' = ret, closing' = closing,
           pc[t] \in WaitLabels, pc'[t] \in WaitLabels, UNCHANGED <<src, srvVars, waiters>>
    PROVE  ServiceHeld' /\ RevsCovered' /\ Steps' /\ WaitersCounted' /\ t \in Waiters
<1> USE DEF PInv
<1>1. t \in Waiters
      BY InLoop DEF CallLabels, WakeLabels, WaitLabels, PollLabels
<1>2. ServiceHeld' /\ RevsCovered'
      BY ServiceAside DEF Servicing, srvVars, WakeLabels, WaitLabels, PollLabels
<1>3. Steps'
      BY <1>1 DEF Steps, OthersStay
<1>4. Inside' = Inside
      BY DEF Inside, OthersStay, Threads
<1>5. WaitersCounted'
      BY <1>4 DEF WaitersCounted
<1> QED  BY <1>1, <1>2, <1>3, <1>5

LEMMA WaitBeginsInv ==
    ASSUME PInv, NEW t \in Threads, WaitBegins(t)
    PROVE  PInv'
<1> USE DEF PInv
<1>0. t \in Waiters /\ pc[t] = "wait" /\ Waiters \subseteq Threads
      BY InLoop DEF WaitBegins, CallLabels, WakeLabels, Threads
<1>1. CASE t \in stale
  <2>1. OthersStay(t) /\ pc'[t] = "service" /\ ret' = ret /\ closing' = closing
        BY <1>1, GotoStays DEF WaitBegins, Labels, CallLabels, WakeLabels, WaitLabels, PollLabels
  <2>2. OnePoller' /\ WaitersCounted' /\ Covered'
        BY <1>1, <2>1, WaitAside DEF WaitBegins, Labels, CallLabels, WakeLabels, WaitLabels, PollLabels
  <2>3. ServiceHeld' /\ RevsCovered'
        BY <2>1, ServiceAside DEF WaitBegins, Servicing, srvVars, WakeLabels
  <2>4. Steps'
        BY <1>0, <2>1 DEF Steps, OthersStay
  <2>5. Typed'
        BY <1>1 DEF WaitBegins, Typed, srvVars
  <2> QED  BY <2>2, <2>3, <2>4, <2>5
<1>2. CASE t \notin stale
  <2>1. /\ OthersStay(t) /\ pc'[t] \in {"claimPoll", "futexEnter"} /\ ret' = ret /\ closing' = closing
        /\ Readiness => pc'[t] = "claimPoll"
        /\ waiters' = waiters + 1
        BY <1>2, GotoStays DEF WaitBegins, Labels, CallLabels, WakeLabels, WaitLabels, PollLabels
  <2>2. OnePoller'
        BY <1>0, <2>1 DEF WaitBegins, OnePoller, Polls, PollLabels, OthersStay
  <2>3. WaitersCounted'
    <3>1. Inside' = Inside \union {t} /\ t \notin Inside
          BY <1>0, <2>1 DEF Inside, WaitLabels, PollLabels, OthersStay
    <3> QED  BY <2>1, <3>1, FS_AddElement DEF WaitersCounted
  <2>4. Covered'
        BY <1>0, <2>1 DEF WaitBegins, Covered, OthersStay
  <2>5. ServiceHeld' /\ RevsCovered'
        BY <2>1, ServiceAside DEF WaitBegins, Servicing, srvVars, WakeLabels
  <2>6. Steps'
        BY <1>0, <2>1 DEF Steps, OthersStay
  <2>7. Typed'
        BY <2>1 DEF WaitBegins, Typed, srvVars
  <2> QED  BY <2>2, <2>3, <2>4, <2>5, <2>6, <2>7
<1> QED  BY <1>1, <1>2

LEMMA ClaimPollInv ==
    ASSUME PInv, NEW t \in Threads, ClaimPoll(t)
    PROVE  PInv'
<1> USE DEF PInv
<1>1. /\ OthersStay(t) /\ pc'[t] = (IF polling THEN "futexEnter" ELSE "pollSeq")
      /\ ret' = ret /\ closing' = closing
      BY GotoStays DEF ClaimPoll, Labels, CallLabels, WakeLabels, WaitLabels, PollLabels
<1>2. ServiceHeld' /\ RevsCovered' /\ Steps' /\ WaitersCounted' /\ t \in Waiters
      BY <1>1, InsideStep DEF ClaimPoll, WaitLabels, PollLabels
<1>3. OnePoller'
      BY <1>1, <1>2 DEF ClaimPoll, OnePoller, Polls, PollLabels, OthersStay, Threads
<1>4. Covered'
      BY DEF ClaimPoll, Covered
<1>5. Typed'
      BY DEF ClaimPoll, Typed, srvVars
<1> QED  BY <1>2, <1>3, <1>4, <1>5

LEMMA FutexEnterInv ==
    ASSUME PInv, NEW t \in Threads, FutexEnter(t)
    PROVE  PInv'
<1> USE DEF PInv
<1>1. /\ OthersStay(t) /\ pc'[t] = (IF t \in stale THEN "leave" ELSE "futex")
      /\ ret' = ret /\ closing' = closing
      BY GotoStays DEF FutexEnter, Labels, CallLabels, WakeLabels, WaitLabels, PollLabels
<1>2. ServiceHeld' /\ RevsCovered' /\ Steps' /\ WaitersCounted' /\ t \in Waiters
      BY <1>1, InsideStep DEF FutexEnter, seqVars, WaitLabels, PollLabels
<1>3. OnePoller'
      BY <1>1, <1>2 DEF FutexEnter, OnePoller, Polls, PollLabels, OthersStay, Threads, seqVars
<1>4. Covered'
      BY <1>1, <1>2 DEF FutexEnter, Covered, OthersStay, Threads, seqVars
<1>5. Typed'
      BY DEF FutexEnter, Typed, seqVars, srvVars
<1> QED  BY <1>2, <1>3, <1>4, <1>5

LEMMA PollSeqInv ==
    ASSUME PInv, NEW t \in Threads, PollSeq(t)
    PROVE  PInv'
<1> USE DEF PInv
<1>1. /\ OthersStay(t) /\ pc'[t] \in {"drain", "waitFds"}
      /\ ret' = ret /\ closing' = closing
      BY GotoStays DEF PollSeq, Labels, CallLabels, WakeLabels, WaitLabels, PollLabels
<1>2. ServiceHeld' /\ RevsCovered' /\ Steps' /\ WaitersCounted' /\ t \in Waiters
      BY <1>1, InsideStep DEF PollSeq, seqVars, WaitLabels, PollLabels
<1>3. OnePoller'
      BY <1>1, <1>2 DEF PollSeq, OnePoller, Polls, PollLabels, OthersStay, Threads, seqVars
<1>4. Covered'
      BY <1>1, <1>2 DEF PollSeq, Covered, OthersStay, Threads, seqVars
<1>5. Typed'
      BY DEF PollSeq, Typed, seqVars, srvVars, Watched, Registered
<1> QED  BY <1>2, <1>3, <1>4, <1>5

LEMMA WaitFdsInv ==
    ASSUME PInv, NEW t \in Threads, WaitFds(t)
    PROVE  PInv'
<1> USE DEF PInv
<1>1. /\ OthersStay(t) /\ pc'[t] \in {"poll"}
      /\ ret' = ret /\ closing' = closing
      BY GotoStays DEF WaitFds, Labels, CallLabels, WakeLabels, WaitLabels, PollLabels
<1>2. ServiceHeld' /\ RevsCovered' /\ Steps' /\ WaitersCounted' /\ t \in Waiters
      BY <1>1, InsideStep DEF WaitFds, seqVars, WaitLabels, PollLabels
<1>3. OnePoller'
      BY <1>1, <1>2 DEF WaitFds, OnePoller, Polls, PollLabels, OthersStay, Threads, seqVars
<1>4. Covered'
      BY <1>1, <1>2 DEF WaitFds, Covered, OthersStay, Threads, seqVars
<1>5. Typed'
      BY DEF WaitFds, Typed, seqVars, srvVars, Watched, Registered
<1> QED  BY <1>2, <1>3, <1>4, <1>5

LEMMA PollInv ==
    ASSUME PInv, NEW t \in Threads, Poll(t)
    PROVE  PInv'
<1> USE DEF PInv
<1>1. /\ OthersStay(t) /\ pc'[t] \in {"drain"}
      /\ ret' = ret /\ closing' = closing
      BY GotoStays DEF Poll, Labels, CallLabels, WakeLabels, WaitLabels, PollLabels
<1>2. ServiceHeld' /\ RevsCovered' /\ Steps' /\ WaitersCounted' /\ t \in Waiters
      BY <1>1, InsideStep DEF Poll, seqVars, WaitLabels, PollLabels
<1>3. OnePoller'
      BY <1>1, <1>2 DEF Poll, OnePoller, Polls, PollLabels, OthersStay, Threads, seqVars
<1>4. Covered'
      BY <1>1, <1>2 DEF Poll, Covered, OthersStay, Threads, seqVars
<1>5. Typed'
      BY DEF Poll, Typed, seqVars, srvVars, Watched, Registered
<1> QED  BY <1>2, <1>3, <1>4, <1>5

LEMMA DrainInv ==
    ASSUME PInv, NEW t \in Threads, Drain(t)
    PROVE  PInv'
<1> USE DEF PInv
<1>1. /\ OthersStay(t) /\ pc'[t] \in {"unpoll"}
      /\ ret' = ret /\ closing' = closing
      BY GotoStays DEF Drain, Labels, CallLabels, WakeLabels, WaitLabels, PollLabels
<1>2. ServiceHeld' /\ RevsCovered' /\ Steps' /\ WaitersCounted' /\ t \in Waiters
      BY <1>1, InsideStep DEF Drain, seqVars, WaitLabels, PollLabels
<1>3. OnePoller'
      BY <1>1, <1>2 DEF Drain, OnePoller, Polls, PollLabels, OthersStay, Threads, seqVars
<1>4. Covered'
      BY <1>1, <1>2 DEF Drain, Covered, OthersStay, Threads, seqVars
<1>5. Typed'
      BY DEF Drain, Typed, seqVars, srvVars, Watched, Registered
<1> QED  BY <1>2, <1>3, <1>4, <1>5

LEMMA UnpollInv ==
    ASSUME PInv, NEW t \in Threads, Unpoll(t)
    PROVE  PInv'
<1> USE DEF PInv
<1>1. OthersStay(t) /\ pc'[t] = "handOver" /\ ret' = ret /\ closing' = closing
      BY GotoStays DEF Unpoll, Labels, CallLabels, WakeLabels, WaitLabels, PollLabels
<1>2. ServiceHeld' /\ RevsCovered' /\ Steps' /\ WaitersCounted' /\ t \in Waiters
      BY <1>1, InsideStep DEF Unpoll, WaitLabels, PollLabels
<1>3. OnePoller'
      BY <1>1, <1>2 DEF Unpoll, OnePoller, Polls, PollLabels, OthersStay, Threads
<1>4. Covered'
      BY <1>1, <1>2 DEF Covered
<1>5. Typed'
      BY DEF Unpoll, Typed, srvVars
<1> QED  BY <1>2, <1>3, <1>4, <1>5

(* Two threads inside are counted as two, so the hand-over sees the other. *)
LEMMA TwoInside ==
    ASSUME WaitersCounted, NEW t \in Inside, NEW u \in Inside, t # u
    PROVE  waiters > 1
<1>1. IsFiniteSet(Inside \ {t}) /\ Cardinality(Inside \ {t}) = Cardinality(Inside) - 1
      BY FS_RemoveElement DEF WaitersCounted
<1>2. Cardinality(Inside \ {t}) # 0
      BY <1>1, FS_EmptySet
<1>3. Cardinality(Inside \ {t}) \in Nat /\ Cardinality(Inside) \in Nat
      BY <1>1, FS_CardinalityType DEF WaitersCounted
<1> QED  BY <1>1, <1>2, <1>3 DEF WaitersCounted

LEMMA HandOverInv ==
    ASSUME PInv, NEW t \in Threads, HandOver(t)
    PROVE  PInv'
<1> USE DEF PInv
<1>1. OthersStay(t) /\ pc'[t] \in {"handOverWake", "leave"} /\ ret' = ret /\ closing' = closing
      BY GotoStays DEF HandOver, Labels, CallLabels, WakeLabels, WaitLabels, PollLabels
<1>2. ServiceHeld' /\ RevsCovered' /\ Steps' /\ WaitersCounted' /\ t \in Waiters
      BY <1>1, InsideStep DEF HandOver, WaitLabels, PollLabels
<1>3. OnePoller'
      BY <1>1, <1>2 DEF HandOver, OnePoller, Polls, PollLabels, OthersStay, Threads
<1>4. Covered'
  <2> SUFFICES ASSUME NEW u \in Waiters, pc'[u] \in {"futexEnter", "futex"}, u \notin stale'
               PROVE  FALSE
      BY DEF Covered
  <2>1. u # t /\ pc[u] = pc'[u]
        BY <1>1 DEF OthersStay, Threads
  <2>2. t \in Inside /\ u \in Inside
        BY <1>2, <2>1 DEF HandOver, Inside, WaitLabels, PollLabels
  <2>3. waiters > 1
        BY <2>1, <2>2, TwoInside
  <2> QED  BY <2>3 DEF HandOver
<1>5. Typed'
      BY DEF HandOver, Typed, srvVars
<1> QED  BY <1>2, <1>3, <1>4, <1>5

LEMMA LeaveInv ==
    ASSUME PInv, NEW t \in Threads, Leave(t)
    PROVE  PInv'
<1> USE DEF PInv
<1>0. t \in Waiters /\ pc[t] = "leave" /\ Waiters \subseteq Threads
      BY InLoop DEF Leave, CallLabels, WakeLabels, Threads
<1>1. OthersStay(t) /\ pc'[t] = "service" /\ ret' = ret /\ closing' = closing
      BY GotoStays DEF Leave, Labels, CallLabels, WakeLabels, WaitLabels, PollLabels
<1>2. OnePoller'
      BY <1>0, <1>1 DEF Leave, OnePoller, Polls, PollLabels, OthersStay
<1>3. WaitersCounted' /\ waiters' \in Nat
  <2>1. Inside' = Inside \ {t} /\ t \in Inside
        BY <1>0, <1>1 DEF Inside, WaitLabels, PollLabels, OthersStay
  <2>2. IsFiniteSet(Inside \ {t}) /\ Cardinality(Inside \ {t}) = Cardinality(Inside) - 1
        BY <2>1, FS_RemoveElement DEF WaitersCounted
  <2> QED  BY <2>1, <2>2, FS_CardinalityType DEF Leave, WaitersCounted
<1>4. Covered'
      BY <1>0, <1>1 DEF Leave, Covered, OthersStay
<1>5. ServiceHeld' /\ RevsCovered'
      BY <1>1, ServiceAside DEF Leave, Servicing, srvVars, WakeLabels
<1>6. Steps'
      BY <1>0, <1>1 DEF Steps, OthersStay
<1>7. Typed'
      BY <1>3 DEF Leave, Typed, srvVars
<1> QED  BY <1>2, <1>3, <1>4, <1>5, <1>6, <1>7

-------------------------------------------------------------------------------
(* service.                                                                    *)

LEMMA ServiceInv ==
    ASSUME PInv, NEW t \in Threads, Service(t)
    PROVE  PInv'
<1> USE DEF PInv
<1>0. t \in Waiters /\ pc[t] = "service" /\ \A u \in Threads : u # Nobody
      BY InLoop, BackendAssumption DEF Service, CallLabels, WakeLabels, Nobody
<1>1. OthersStay(t) /\ pc'[t] \in {"servicePoll", "run"} /\ ret' = ret /\ closing' = closing
      BY GotoStays DEF Service, Labels, CallLabels, WakeLabels, WaitLabels, PollLabels
<1>2. OnePoller' /\ WaitersCounted' /\ Covered'
      BY <1>1, WaitAside DEF Service, seqVars, Labels, CallLabels, WakeLabels, WaitLabels, PollLabels
<1>3. Steps'
      BY <1>0, <1>1 DEF Steps, OthersStay
<1>4. Typed'
      BY BackendAssumption DEF Service, Typed, seqVars
<1>5. CASE Readiness /\ serviceMu = Nobody
  <2>1. serviceMu' = t /\ pc'[t] = "servicePoll" /\ revents' = revents /\ src' = src
        BY <1>0, <1>5, GotoStays DEF Service, Labels, CallLabels, WakeLabels, WaitLabels, PollLabels
  <2>2. ServiceHeld'
        BY <1>0, <1>1, <1>5, <2>1 DEF ServiceHeld, Servicing, WakeLabels, OthersStay
  <2>3. RevsCovered'
        BY <1>1, <1>5, <2>1 DEF RevsCovered
  <2> QED  BY <1>2, <1>3, <1>4, <2>2, <2>3
<1>6. CASE ~(Readiness /\ serviceMu = Nobody)
  <2>1. serviceMu' = serviceMu /\ pc'[t] = "run" /\ revents' = revents /\ src' = src
        BY <1>0, <1>6, GotoStays DEF Service, Labels, CallLabels, WakeLabels, WaitLabels, PollLabels
  <2>2. ServiceHeld' /\ RevsCovered'
        BY <1>0, <1>1, <2>1, ServiceAside DEF Servicing, WakeLabels
  <2> QED  BY <1>2, <1>3, <1>4, <2>2
<1> QED  BY <1>5, <1>6

LEMMA ServicePollInv ==
    ASSUME PInv, NEW t \in Threads, ServicePoll(t)
    PROVE  PInv'
<1> USE DEF PInv
<1>0. t \in Waiters /\ pc[t] = "servicePoll"
      BY InLoop DEF ServicePoll, CallLabels, WakeLabels
<1>1. OthersStay(t) /\ pc'[t] = "handle" /\ ret' = ret /\ closing' = closing
      BY GotoStays DEF ServicePoll, Labels, CallLabels, WakeLabels, WaitLabels, PollLabels
<1>2. OnePoller' /\ WaitersCounted' /\ Covered'
      BY <1>0, <1>1, WaitAside DEF ServicePoll, seqVars, Labels, CallLabels, WakeLabels, WaitLabels, PollLabels
<1>3. Steps'
      BY <1>0, <1>1 DEF Steps, OthersStay
<1>4. ServiceHeld'
      BY <1>0, <1>1 DEF ServicePoll, ServiceHeld, Servicing, WakeLabels, OthersStay
<1>5. serviceMu' # Nobody
      BY <1>0, BackendAssumption DEF ServicePoll, ServiceHeld, Servicing, Nobody
<1>6. \A w \in revents' : w \in Sources \X {"in", "out"} /\ src[w[1]].registered
      BY DEF ServicePoll, Watched, Registered
<1>7. RevsCovered'
      BY <1>5, <1>6 DEF ServicePoll, RevsCovered
<1>8. Typed'
      BY <1>6 DEF ServicePoll, Typed, seqVars
<1> QED  BY <1>2, <1>3, <1>4, <1>7, <1>8

LEMMA HandleEndsInv ==
    ASSUME PInv, NEW t \in Threads, HandleEnds(t)
    PROVE  PInv'
<1> USE DEF PInv
<1>0. t \in Waiters /\ pc[t] = "handle" /\ serviceMu = t /\ \A u \in Threads : u # Nobody
      BY InLoop, BackendAssumption DEF HandleEnds, CallLabels, WakeLabels, ServiceHeld, Servicing, Nobody
<1>1. OthersStay(t) /\ pc'[t] = "run" /\ ret' = ret /\ closing' = closing
      BY GotoStays DEF HandleEnds, Labels, CallLabels, WakeLabels, WaitLabels, PollLabels
<1>2. OnePoller' /\ WaitersCounted' /\ Covered'
      BY <1>0, <1>1, WaitAside DEF HandleEnds, seqVars, Labels, CallLabels, WakeLabels, WaitLabels, PollLabels
<1>3. Steps'
      BY <1>0, <1>1 DEF Steps, OthersStay
<1>4. ServiceHeld'
      BY <1>0, <1>1 DEF HandleEnds, ServiceHeld, Servicing, WakeLabels, OthersStay
<1>5. RevsCovered'
      BY DEF HandleEnds, RevsCovered
<1>6. Typed'
      BY BackendAssumption DEF HandleEnds, Typed, seqVars
<1> QED  BY <1>2, <1>3, <1>4, <1>5, <1>6

(* A handler's step: the service goes on, perhaps inside a call, with less to  *)
(* handle, and every source it may still handle is as registered as before.    *)
LEMMA HandlerStep ==
    ASSUME PInv, NEW t \in Threads, OthersStay(t), pc[t] = "handle",
           pc'[t] = "handle" \/ (pc'[t] \in WakeLabels /\ ret'[t] = "handle"),
           closing' = closing, UNCHANGED <<seqVars, serviceMu>>, revents' \subseteq revents,
           \A w \in revents' : src'[w[1]].registered = src[w[1]].registered
    PROVE  OnePoller' /\ WaitersCounted' /\ Covered' /\ Steps' /\ ServiceHeld' /\ RevsCovered'
<1> USE DEF PInv
<1>0. t \in Waiters /\ serviceMu = t /\ t # Nobody
      BY InLoop, BackendAssumption DEF CallLabels, WakeLabels, ServiceHeld, Servicing, Nobody
<1>1. OnePoller' /\ WaitersCounted' /\ Covered'
      BY WaitAside DEF seqVars, Labels, CallLabels, WakeLabels, WaitLabels, PollLabels
<1>2. Steps'
      BY <1>0 DEF Steps, OthersStay
<1>3. ServiceHeld'
      BY <1>0 DEF ServiceHeld, Servicing, WakeLabels, OthersStay
<1>4. RevsCovered'
      BY <1>0 DEF RevsCovered
<1> QED  BY <1>1, <1>2, <1>3, <1>4

(* A source with new flags that is as registered as it was. *)
LEMMA SourceStep ==
    ASSUME Typed, NEW s \in Sources, NEW x \in SourceStates, src' = [src EXCEPT ![s] = x]
    PROVE  /\ src' \in [Sources -> SourceStates]
           /\ src'[s] = x /\ \A z \in Sources : z # s => src'[z] = src[z]
BY DEF Typed

LEMMA HandleOutputInv ==
    ASSUME PInv, NEW t \in Threads, NEW s \in Sources, HandleOutput(t, s)
    PROVE  PInv'
<1> USE DEF PInv
<1> DEFINE x == [src[s] EXCEPT !.armed = FALSE]
<1>1. OthersStay(t) /\ pc[t] = "handle" /\ pc'[t] = "handle" /\ ret' = ret /\ closing' = closing
      BY GotoStays DEF HandleOutput, Labels, CallLabels, WakeLabels, WaitLabels, PollLabels
<1>a. src[s] \in SourceStates
      BY DEF Typed
<1>b. x \in SourceStates /\ x.registered = src[s].registered
      BY <1>a DEF SourceStates
<1>c. src' = [src EXCEPT ![s] = x]
      BY DEF HandleOutput
<1>2. src' = [src EXCEPT ![s] = x] /\ x \in SourceStates /\ x.registered = src[s].registered
      BY <1>b, <1>c
<1> HIDE DEF x
<1>3. src' \in [Sources -> SourceStates] /\ \A z \in Sources : src'[z].registered = src[z].registered
      BY <1>2, SourceStep
<1>4. revents' \subseteq revents /\ \A w \in revents : w[1] \in Sources
      BY DEF HandleOutput, Typed
<1>5. OnePoller' /\ WaitersCounted' /\ Covered' /\ Steps' /\ ServiceHeld' /\ RevsCovered'
      BY <1>1, <1>3, <1>4, HandlerStep DEF HandleOutput
<1>6. Typed'
      BY <1>3, <1>4, BackendAssumption DEF HandleOutput, Typed, seqVars
<1> QED  BY <1>5, <1>6

LEMMA HandleNoInputInv ==
    ASSUME PInv, NEW t \in Threads, NEW s \in Sources, HandleNoInput(t, s)
    PROVE  PInv'
<1> USE DEF PInv
<1> DEFINE x == [src[s] EXCEPT !.kicked = FALSE]
<1>1. OthersStay(t) /\ pc[t] = "handle" /\ pc'[t] = "handle" /\ ret' = ret /\ closing' = closing
      BY GotoStays DEF HandleNoInput, HandlesInput, Labels, CallLabels, WakeLabels, WaitLabels, PollLabels
<1>2. src' = [src EXCEPT ![s] = x] /\ x \in SourceStates /\ x.registered = src[s].registered
      BY DEF HandleNoInput, Typed, SourceStates
<1> HIDE DEF x
<1>3. src' \in [Sources -> SourceStates] /\ \A z \in Sources : src'[z].registered = src[z].registered
      BY <1>2, SourceStep
<1>4. revents' \subseteq revents /\ \A w \in revents : w[1] \in Sources
      BY DEF HandleNoInput, Typed
<1>5. OnePoller' /\ WaitersCounted' /\ Covered' /\ Steps' /\ ServiceHeld' /\ RevsCovered'
      BY <1>1, <1>3, <1>4, HandlerStep DEF HandleNoInput
<1>6. Typed'
      BY <1>3, <1>4 DEF HandleNoInput, Typed, seqVars
<1> QED  BY <1>5, <1>6

LEMMA HandleInputInv ==
    ASSUME PInv, NEW t \in Threads, NEW s \in Sources, NEW outcome \in {"turn", "dropped", "held"},
           HandleInput(t, s, outcome)
    PROVE  PInv'
<1> USE DEF PInv
<1> DEFINE input == IF src[s].held THEN src[s].input ELSE src[s].input - 1
           x == [src[s] EXCEPT !.kicked = FALSE, !.held = FALSE,
                               !.input = IF src[s].held THEN @ ELSE @ - 1]
           y == [x EXCEPT !.held = TRUE, !.paused = TRUE]
<1>0. src[s] \in SourceStates /\ pc[t] = "handle" /\ served < Budget
      BY DEF Typed, HandleInput, HandlesInput
<1>1. input \in Nat
      BY <1>0 DEF HandleInput, SourceStates
<1> HIDE DEF input
<1>2. x = [src[s] EXCEPT !.kicked = FALSE, !.held = FALSE, !.input = input]
      BY <1>0 DEF input, SourceStates
<1> HIDE DEF x
<1>3. x \in SourceStates /\ x.registered = src[s].registered
      BY <1>0, <1>1, <1>2 DEF SourceStates
<1>4. y \in SourceStates /\ y.registered = src[s].registered
      BY <1>3 DEF SourceStates
<1> HIDE DEF y
<1>5. /\ src' = [src EXCEPT ![s] = x] \/ src' = [src EXCEPT ![s] = y]
      /\ OthersStay(t) /\ closing' = closing
      /\ pc'[t] = "handle" \/ (pc'[t] = "wakeSeq" /\ ret'[t] = "handle")
      /\ revents' \subseteq revents
      /\ work' \in [Lanes -> Nat] /\ served' \in 0..Budget
      /\ UNCHANGED <<seqVars, serviceMu, events>>
  <2>0. UNCHANGED <<seqVars, serviceMu, events>>
        BY DEF HandleInput
  <2>1. CASE /\ src' = [src EXCEPT ![s] = x] /\ work' = [work EXCEPT !["internal"] = @ + 1]
             /\ served' = served + 1 /\ UNCHANGED revents /\ CallTo(t, "wakeSeq", "handle")
    <3>1. OthersStay(t) /\ pc'[t] = "wakeSeq" /\ ret'[t] = "handle" /\ closing' = closing
          BY <2>1, JumpStays DEF CallTo, Labels, CallLabels, WakeLabels, WaitLabels, PollLabels
    <3>2. work' \in [Lanes -> Nat] /\ served' \in 0..Budget
          BY <1>0, <2>1, BackendAssumption DEF Typed, Lanes
    <3> QED  BY <2>0, <2>1, <3>1, <3>2
  <2>2. CASE /\ src' = [src EXCEPT ![s] = x] /\ served' = served + 1
             /\ UNCHANGED <<work, revents, pc, ret, closing>>
    <3>1. OthersStay(t) /\ pc'[t] = "handle"
          BY <1>0, <2>2 DEF OthersStay, Steps
    <3>2. work' \in [Lanes -> Nat] /\ served' \in 0..Budget
          BY <1>0, <2>2, BackendAssumption DEF Typed
    <3> QED  BY <2>0, <2>2, <3>1, <3>2
  <2>3. CASE /\ src' = [src EXCEPT ![s] = y] /\ revents' = revents \ {<<s, "in">>}
             /\ UNCHANGED <<work, served, pc, ret, closing>>
    <3>1. OthersStay(t) /\ pc'[t] = "handle"
          BY <1>0, <2>3 DEF OthersStay, Steps
    <3>2. work' \in [Lanes -> Nat] /\ served' \in 0..Budget
          BY <2>3 DEF Typed
    <3> QED  BY <2>0, <2>3, <3>1, <3>2
  <2> QED  BY <2>1, <2>2, <2>3 DEF HandleInput, x, y
<1>6. src' \in [Sources -> SourceStates] /\ \A z \in Sources : src'[z].registered = src[z].registered
      BY <1>3, <1>4, <1>5, SourceStep
<1>7. \A w \in revents : w[1] \in Sources
      BY DEF Typed
<1>8. OnePoller' /\ WaitersCounted' /\ Covered' /\ Steps' /\ ServiceHeld' /\ RevsCovered'
      BY <1>0, <1>5, <1>6, <1>7, HandlerStep DEF WakeLabels
<1>9. Typed'
      BY <1>5, <1>6 DEF Typed, seqVars
<1> QED  BY <1>8, <1>9

LEMMA HandleClosesInv ==
    ASSUME PInv, NEW t \in Threads, NEW s \in Sources, HandleCloses(t, s)
    PROVE  PInv'
<1> USE DEF PInv
<1> DEFINE x == [src[s] EXCEPT !.registered = FALSE]
<1>1. /\ OthersStay(t) /\ pc[t] = "handle" /\ pc'[t] = "signal" /\ ret'[t] = "handle"
      /\ closing' = closing
      BY JumpStays DEF HandleCloses, CallTo, HandlesInput, Labels, CallLabels, WakeLabels, WaitLabels, PollLabels
<1>2. src' = [src EXCEPT ![s] = x] /\ x \in SourceStates
      BY DEF HandleCloses, Typed, SourceStates
<1> HIDE DEF x
<1>3. src' \in [Sources -> SourceStates] /\ \A z \in Sources : z # s => src'[z] = src[z]
      BY <1>2, SourceStep
<1>4. revents' \subseteq revents /\ \A w \in revents' : w[1] \in Sources \ {s}
      BY DEF HandleCloses, Typed
<1>5. OnePoller' /\ WaitersCounted' /\ Covered' /\ Steps' /\ ServiceHeld' /\ RevsCovered'
      BY <1>1, <1>3, <1>4, HandlerStep DEF HandleCloses, WakeLabels
<1>6. Typed'
      BY <1>3, <1>4, BackendAssumption DEF HandleCloses, Event, Typed, seqVars
<1> QED  BY <1>5, <1>6

-------------------------------------------------------------------------------
(* What clients and sockets do.                                                *)

(* A step of a thread outside the loops, or of one that leaves them. *)
LEMMA OutsideStep ==
    ASSUME PInv, NEW t \in Threads, OthersStay(t), pc[t] \in {"idle", "service", "recheck"},
           pc'[t] \in {"idle", "service", "wakeSeq", "signal"},
           t \notin Waiters => pc'[t] # "service", ret'[t] # "handle" \/ pc'[t] \in {"idle", "service"},
           t \notin Waiters => ret'[t] # "handle",
           closing' \subseteq Threads \X Sources, closing \subseteq closing',
           UNCHANGED <<seqVars, srvVars>>, src' \in [Sources -> SourceStates],
           \A s \in Sources : src[s].registered => src'[s].registered \/ \E u \in Threads : <<u, s>> \in closing',
           work' \in [Lanes -> Nat], events' \in 0..MaxEvents
    PROVE  PInv'
<1> USE DEF PInv
<1>1. OnePoller' /\ WaitersCounted' /\ Covered'
      BY WaitAside DEF seqVars, Labels, CallLabels, WakeLabels, WaitLabels, PollLabels
<1>2. ServiceHeld' /\ RevsCovered'
      BY ServiceAside DEF Servicing, srvVars, WakeLabels
<1>3. Steps'
      BY DEF Steps, OthersStay, CallLabels, WakeLabels
<1>4. Typed'
      BY DEF Typed, seqVars, srvVars
<1> QED  BY <1>1, <1>2, <1>3, <1>4

LEMMA EventTyped == ASSUME Typed, Event PROVE events' \in 0..MaxEvents
BY BackendAssumption DEF Typed, Event

LEMMA HelpBeginsInv ==
    ASSUME PInv, NEW t \in Threads, HelpBegins(t)
    PROVE  PInv'
<1>1. OthersStay(t) /\ pc'[t] = "service" /\ ret' = ret /\ closing' = closing
      BY GotoStays DEF PInv, HelpBegins, Labels, CallLabels, WakeLabels, WaitLabels, PollLabels
<1>2. events' \in 0..MaxEvents /\ t \in Waiters
      BY EventTyped DEF PInv, HelpBegins, Waiters
<1> QED  BY <1>1, <1>2, OutsideStep DEF PInv, HelpBegins, Outside, Typed, Steps

LEMMA HelpEndsInv ==
    ASSUME PInv, NEW t \in Threads, HelpEnds(t)
    PROVE  PInv'
<1>1. OthersStay(t) /\ pc'[t] = "idle" /\ ret' = ret /\ closing' = closing
      BY GotoStays DEF PInv, HelpEnds, Labels, CallLabels, WakeLabels, WaitLabels, PollLabels
<1>2. t \in Waiters
      BY DEF HelpEnds, Waiters
<1> QED  BY <1>1, <1>2, OutsideStep DEF PInv, HelpEnds, Typed, Steps

LEMMA SubmitWorkInv ==
    ASSUME PInv, NEW t \in Threads, NEW l \in Lanes, SubmitWork(t, l)
    PROVE  PInv'
<1>1. OthersStay(t) /\ pc'[t] = "wakeSeq" /\ ret'[t] = "idle" /\ closing' = closing
      BY JumpStays DEF PInv, SubmitWork, CallTo, Labels, CallLabels, WakeLabels, WaitLabels, PollLabels
<1>2. events' \in 0..MaxEvents
      BY EventTyped DEF PInv, SubmitWork
<1>3. work' \in [Lanes -> Nat]
      BY DEF PInv, Typed, SubmitWork
<1> QED  BY <1>1, <1>2, <1>3, OutsideStep DEF PInv, SubmitWork, Outside, Typed, Steps

LEMMA RegisterInv ==
    ASSUME PInv, NEW t \in Threads, NEW s \in Sources, Register(t, s)
    PROVE  PInv'
<1> DEFINE x == [src[s] EXCEPT !.registered = TRUE]
<1>1. OthersStay(t) /\ pc'[t] = "signal" /\ ret'[t] = "idle" /\ closing' = closing
      BY JumpStays DEF PInv, Register, CallTo, Labels, CallLabels, WakeLabels, WaitLabels, PollLabels
<1>2. events' \in 0..MaxEvents
      BY EventTyped DEF PInv, Register
<1>3. /\ src' = [src EXCEPT ![s] = x] /\ x \in SourceStates
      /\ src[s].registered => x.registered
      BY DEF PInv, Register, Typed, SourceStates
<1> HIDE DEF x
<1>4. src' \in [Sources -> SourceStates] /\ \A z \in Sources : src[z].registered => src'[z].registered
      BY <1>3, SourceStep DEF PInv
<1> QED  BY <1>1, <1>2, <1>4, OutsideStep DEF PInv, Register, Outside, Typed, Steps

LEMMA ArmOutputInv ==
    ASSUME PInv, NEW t \in Threads, NEW s \in Sources, ArmOutput(t, s)
    PROVE  PInv'
<1> DEFINE x == [src[s] EXCEPT !.armed = TRUE]
<1>1. OthersStay(t) /\ pc'[t] = "signal" /\ ret'[t] = "idle" /\ closing' = closing
      BY JumpStays DEF PInv, ArmOutput, CallTo, Labels, CallLabels, WakeLabels, WaitLabels, PollLabels
<1>2. events' \in 0..MaxEvents
      BY EventTyped DEF PInv, ArmOutput
<1>3. /\ src' = [src EXCEPT ![s] = x] /\ x \in SourceStates
      /\ src[s].registered => x.registered
      BY DEF PInv, ArmOutput, Typed, SourceStates
<1> HIDE DEF x
<1>4. src' \in [Sources -> SourceStates] /\ \A z \in Sources : src[z].registered => src'[z].registered
      BY <1>3, SourceStep DEF PInv
<1> QED  BY <1>1, <1>2, <1>4, OutsideStep DEF PInv, ArmOutput, Outside, Typed, Steps

LEMMA ResumeInputInv ==
    ASSUME PInv, NEW t \in Threads, NEW s \in Sources, ResumeInput(t, s)
    PROVE  PInv'
<1> DEFINE x == [src[s] EXCEPT !.kicked = TRUE, !.paused = FALSE]
<1>1. OthersStay(t) /\ pc'[t] = "wakeSeq" /\ ret'[t] = "idle" /\ closing' = closing
      BY JumpStays DEF PInv, ResumeInput, CallTo, Labels, CallLabels, WakeLabels, WaitLabels, PollLabels
<1>2. events' \in 0..MaxEvents
      BY EventTyped DEF PInv, ResumeInput
<1>3. /\ src' = [src EXCEPT ![s] = x] /\ x \in SourceStates
      /\ src[s].registered => x.registered
      BY DEF PInv, ResumeInput, Typed, SourceStates
<1> HIDE DEF x
<1>4. src' \in [Sources -> SourceStates] /\ \A z \in Sources : src[z].registered => src'[z].registered
      BY <1>3, SourceStep DEF PInv
<1> QED  BY <1>1, <1>2, <1>4, OutsideStep DEF PInv, ResumeInput, Outside, Typed, Steps

LEMMA UnregisterInv ==
    ASSUME PInv, NEW t \in Threads, NEW s \in Sources, Unregister(t, s)
    PROVE  PInv'
<1> DEFINE x == [src[s] EXCEPT !.registered = FALSE]
<1>1. /\ OthersStay(t) /\ pc'[t] = "signal" /\ ret'[t] = "unregister"
      /\ closing' = closing \union {<<t, s>>}
      BY JumpStays DEF PInv, Unregister, Labels, CallLabels, WakeLabels, WaitLabels, PollLabels
<1>2. events' \in 0..MaxEvents
      BY EventTyped DEF PInv, Unregister
<1>3. src' = [src EXCEPT ![s] = x] /\ x \in SourceStates
      BY DEF PInv, Unregister, Typed, SourceStates
<1> HIDE DEF x
<1>4. src' \in [Sources -> SourceStates] /\ \A z \in Sources : z # s => src'[z] = src[z]
      BY <1>3, SourceStep DEF PInv
<1>5. closing' \subseteq Threads \X Sources /\ closing \subseteq closing' /\ <<t, s>> \in closing'
      BY <1>1 DEF PInv, Steps
<1>6. \A z \in Sources : src[z].registered => src'[z].registered \/ \E u \in Threads : <<u, z>> \in closing'
      BY <1>4, <1>5
<1>7. work' \in [Lanes -> Nat] /\ pc[t] = "idle" /\ UNCHANGED <<seqVars, srvVars>>
      BY DEF PInv, Unregister, Outside, Typed
<1> QED  BY <1>1, <1>2, <1>4, <1>5, <1>6, <1>7, OutsideStep

(* unregister ends outside every service, which then has nothing to handle. *)
LEMMA UnregisterEndsInv ==
    ASSUME PInv, NEW t \in Threads, UnregisterEnds(t)
    PROVE  PInv'
<1> USE DEF PInv
<1>1. OthersStay(t) /\ pc[t] = "unregister" /\ pc'[t] = "idle" /\ ret'[t] = "idle"
      BY JumpStays DEF UnregisterEnds, Labels, CallLabels, WakeLabels, WaitLabels, PollLabels
<1>2. OnePoller' /\ WaitersCounted' /\ Covered'
      BY <1>1, WaitAside DEF UnregisterEnds, seqVars, Labels, CallLabels, WakeLabels, WaitLabels, PollLabels
<1>3. \A u \in Threads : Servicing(u)' <=> Servicing(u)
      BY <1>1 DEF Servicing, OthersStay, WakeLabels
<1>4. ServiceHeld'
      BY <1>3 DEF UnregisterEnds, ServiceHeld, srvVars
<1>5. RevsCovered'
      BY DEF UnregisterEnds, RevsCovered, srvVars
<1>6. Steps'
      BY <1>1 DEF UnregisterEnds, Steps, OthersStay, CallLabels
<1>7. Typed'
      BY DEF UnregisterEnds, Typed, seqVars, srvVars
<1> QED  BY <1>2, <1>4, <1>5, <1>6, <1>7

(* A step of a socket. *)
LEMMA SocketStep ==
    ASSUME PInv, src' \in [Sources -> SourceStates], events' \in 0..MaxEvents,
           \A s \in Sources : src'[s].registered = src[s].registered,
           UNCHANGED <<work, seqVars, srvVars, pc, ret, closing>>
    PROVE  PInv'
<1> USE DEF PInv, seqVars, srvVars
<1>1. Typed' /\ Steps'
      BY DEF Typed, Steps
<1>2. OnePoller'
      BY DEF OnePoller, Polls
<1>3. WaitersCounted' /\ Covered'
      BY DEF WaitersCounted, Inside, Covered
<1>4. ServiceHeld'
      BY DEF ServiceHeld, Servicing
<1>5. \A w \in revents : w[1] \in Sources
      BY DEF Typed
<1>6. RevsCovered'
      BY <1>5 DEF RevsCovered
<1> QED  BY <1>1, <1>2, <1>3, <1>4, <1>6

LEMMA InputArrivesInv ==
    ASSUME PInv, NEW s \in Sources, InputArrives(s)
    PROVE  PInv'
<1> DEFINE x == [src[s] EXCEPT !.input = @ + 1]
<1>1. events' \in 0..MaxEvents
      BY EventTyped DEF PInv, InputArrives
<1>a. src[s] \in SourceStates
      BY DEF PInv, Typed
<1>b. x \in SourceStates /\ x.registered = src[s].registered
      BY <1>a DEF SourceStates
<1>c. src' = [src EXCEPT ![s] = x]
      BY DEF InputArrives
<1>2. src' = [src EXCEPT ![s] = x] /\ x \in SourceStates /\ x.registered = src[s].registered
      BY <1>b, <1>c
<1> HIDE DEF x
<1>3. src' \in [Sources -> SourceStates] /\ \A z \in Sources : src'[z].registered = src[z].registered
      BY <1>2, SourceStep DEF PInv
<1> QED  BY <1>1, <1>3, SocketStep DEF InputArrives

LEMMA RoomAppearsInv ==
    ASSUME PInv, NEW s \in Sources, RoomAppears(s)
    PROVE  PInv'
<1> DEFINE x == [src[s] EXCEPT !.room = TRUE]
<1>1. events' \in 0..MaxEvents
      BY EventTyped DEF PInv, RoomAppears
<1>2. src' = [src EXCEPT ![s] = x] /\ x \in SourceStates /\ x.registered = src[s].registered
      BY DEF PInv, RoomAppears, Typed, SourceStates
<1> HIDE DEF x
<1>3. src' \in [Sources -> SourceStates] /\ \A z \in Sources : src'[z].registered = src[z].registered
      BY <1>2, SourceStep DEF PInv
<1> QED  BY <1>1, <1>3, SocketStep DEF RoomAppears

-------------------------------------------------------------------------------
(* The invariant, and what it gives.                                           *)

LEMMA PollInit == Init => PInv
<1> SUFFICES ASSUME Init PROVE PInv
    OBVIOUS
<1> USE DEF Init
<1>0. Waiters \subseteq Threads /\ \A t \in Threads : t \notin Waiters => t \notin Runners
      BY DEF Threads, Waiters
<1>a. Fresh \in SourceStates
      BY DEF SourceStates, Fresh
<1>b. src \in [Sources -> SourceStates] /\ work \in [Lanes -> Nat]
      BY <1>a
<1>c. served \in 0..Budget /\ events \in 0..MaxEvents /\ waiters \in Nat
      BY BackendAssumption
<1>d. stale = {} /\ polling = FALSE /\ signaled = FALSE /\ polled = {} /\ revents = {}
      OBVIOUS
<1>e. polling \in BOOLEAN /\ signaled \in BOOLEAN
      BY <1>d
<1>f. stale \subseteq Waiters /\ polled \subseteq Sources \X {"in", "out"} /\ revents \subseteq Sources \X {"in", "out"}
      BY <1>d
<1>1. Typed
      BY <1>b, <1>c, <1>e, <1>f DEF Typed
<1>2. Steps
      BY <1>0 DEF Steps, Labels, CallLabels, WakeLabels, WaitLabels, PollLabels
<1>3. OnePoller
      BY <1>0 DEF OnePoller, Polls, PollLabels
<1>4. WaitersCounted
  <2>1. Inside = {}
        BY <1>0 DEF Inside, WaitLabels, PollLabels
  <2> QED  BY <2>1, FS_EmptySet DEF WaitersCounted
<1>5. Covered
      BY <1>0 DEF Covered
<1>6. ServiceHeld
      BY BackendAssumption DEF ServiceHeld, Servicing, WakeLabels, Nobody
<1>7. RevsCovered
      BY DEF RevsCovered
<1> QED  BY <1>1, <1>2, <1>3, <1>4, <1>5, <1>6, <1>7 DEF PInv

LEMMA PollNext == PInv /\ [Next]_vars => PInv'
<1> SUFFICES ASSUME PInv, [Next]_vars PROVE PInv'
    OBVIOUS
<1>1. ASSUME NEW t \in Threads, Continue(t) PROVE PInv'
      BY <1>1, WakeSeqInv, WakeFutexInv, WakeSignalInv, SignalInv, UnregisterEndsInv, RunInv,
         PrepareWaitInv, RecheckInv, WaitBeginsInv, ClaimPollInv, FutexEnterInv, PollSeqInv, WaitFdsInv,
         PollInv, DrainInv, UnpollInv, HandOverInv, HandOverWakeInv, LeaveInv, ServiceInv,
         ServicePollInv, HandleEndsInv, HandleOutputInv, HandleNoInputInv, HandleInputInv DEF Continue
<1>2. ASSUME NEW t \in Threads, HelpBegins(t) \/ HelpEnds(t) PROVE PInv'
      BY <1>2, HelpBeginsInv, HelpEndsInv
<1>3. ASSUME NEW t \in Threads, NEW l \in Lanes, SubmitWork(t, l) PROVE PInv'
      BY <1>3, SubmitWorkInv
<1>4. ASSUME NEW t \in Threads, NEW s \in Sources, Use(t, s) PROVE PInv'
      BY <1>4, RegisterInv, ArmOutputInv, ResumeInputInv, UnregisterInv, HandleClosesInv DEF Use
<1>5. ASSUME NEW s \in Sources, InputArrives(s) \/ RoomAppears(s) PROVE PInv'
      BY <1>5, InputArrivesInv, RoomAppearsInv
<1>6. CASE UNCHANGED vars
  <2>1. UNCHANGED <<work, seqVars, srvVars, pc, ret, closing>> /\ src' = src /\ events' = events
        BY <1>6 DEF vars
  <2>2. src' \in [Sources -> SourceStates] /\ events' \in 0..MaxEvents
        BY <2>1 DEF PInv, Typed
  <2> QED  BY <2>1, <2>2, SocketStep
<1> QED  BY <1>1, <1>2, <1>3, <1>4, <1>5, <1>6 DEF Next

LEMMA PollInvariant == Spec => []PInv
BY PollInit, PollNext, PTL DEF Spec

(* The backend keeps its types; never more threads are inside wait than there  *)
(* are waiters (PollBackend.waiters).                                          *)
THEOREM PollTypeCorrect == Spec => []TypeOK
<1>1. PInv => TypeOK
  <2> SUFFICES ASSUME PInv PROVE TypeOK
      OBVIOUS
  <2>1. waiters \in 0..Cardinality(Waiters)
    <3>1. IsFiniteSet(Waiters)
          BY BackendAssumption, FS_Subset DEF Threads
    <3>2. Inside \subseteq Waiters
          BY DEF Inside
    <3>3. Cardinality(Inside) \in Nat /\ Cardinality(Waiters) \in Nat /\ Cardinality(Inside) <= Cardinality(Waiters)
          BY <3>1, <3>2, FS_Subset, FS_CardinalityType
    <3> QED  BY <3>3 DEF PInv, WaitersCounted
  <2> QED  BY <2>1 DEF PInv, Typed, TypeOK, ServiceHeld, SourceStates
<1> QED  BY <1>1, PollInvariant, PTL

(* However many threads wait and whatever wakes them, polling is set exactly   *)
(* while one thread polls, and no thread sleeps in the futex with a current    *)
(* token once the poll has ended, unless the one that polled is still to hand  *)
(* it over (PollBackend.vtWait).                                               *)
THEOREM PollIsHandedOver == Spec => []SleepersHavePoller
<1>1. PInv => SleepersHavePoller
  <2> SUFFICES ASSUME PInv PROVE SleepersHavePoller
      OBVIOUS
  <2>1. Pollers = {t \in Waiters : Polls(t)}
        BY DEF Pollers, Polls, PollLabels
  <2>2. Cardinality(Pollers) = IF polling THEN 1 ELSE 0
    <3>1. CASE polling
      <4>1. PICK t \in Waiters : Polls(t)
            BY <3>1 DEF PInv, OnePoller
      <4>2. Pollers = {t}
            BY <2>1, <4>1 DEF PInv, OnePoller
      <4> QED  BY <3>1, <4>2, FS_Singleton
    <3>2. CASE ~polling
      <4>1. Pollers = {}
            BY <2>1, <3>2 DEF PInv, OnePoller
      <4> QED  BY <3>2, <4>1, FS_EmptySet
    <3> QED  BY <3>1, <3>2
  <2>3. Readiness => \A t \in Waiters : pc[t] = "futex" /\ t \notin stale =>
           polling \/ \E u \in Waiters : pc[u] = "handOver"
        BY DEF PInv, Covered
  <2> QED  BY <2>2, <2>3 DEF SleepersHavePoller
<1> QED  BY <1>1, PollInvariant, PTL

(* With any number of threads servicing, closing and unregistering any number  *)
(* of sources, a service has nothing left to handle of a source whose          *)
(* unregister has returned (PollBackend.vtUnregister, vtService).              *)
THEOREM UnregisterIsSafe == Spec => []UnregisteredUntouched
<1>1. PInv => UnregisteredUntouched
  <2> SUFFICES ASSUME PInv, NEW s \in Sources, ~src[s].registered, ~Closing(s)
               PROVE  revents \cap ({s} \X {"in", "out"}) = {}
      BY DEF UnregisteredUntouched
  <2>1. \A w \in revents : w[1] # s
        BY DEF PInv, RevsCovered, Closing
  <2> QED  BY <2>1
<1> QED  BY <1>1, PollInvariant, PTL
===============================================================================
