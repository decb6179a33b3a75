--------------------------- MODULE Runtime_proofs ---------------------------
(* Proofs about Runtime, for any threads, contexts, requests, timers and      *)
(* bounds: what is on the stacks and the states of contexts and requests     *)
(* (RInv), then the deletion of contexts (LInv), then the types of the rest. *)
EXTENDS Runtime, SequenceTheorems, FiniteSetTheorems, TLAPS

-----------------------------------------------------------------------------
(* Frames and stacks. *)

(* A frame that is about a context or a request names one. *)
Fit(f) ==
    /\ f.pc \in TurnPcs \union UserPcs \union {"internalGate"} => f.ctx \in Contexts /\ f.req \in Reqs
    /\ f.pc \in {"claim", "fireSubmit", "endFire", "cancel", "closeBegin", "closeGate", "finishWith",
                 "await", "free", "hook"} => f.ctx \in Contexts
    /\ f.pc \in {"fireSubmit", "endFire"} => f.req \in Timers /\ f.ctx = Home[f.req]

FrameSet ==
    {f \in [pc : Pcs, ctx : Contexts \union {None}, req : Reqs \union {None}, gen : Nat] : Fit(f)}

(* The stack of t has d frames less on its top, and those of n instead. *)
Moved(t, n, d) ==
    /\ n \in Seq(FrameSet) /\ d \in 0..Len(stack[t])
    /\ stack' \in [Threads -> Seq(FrameSet)]
    /\ Len(stack'[t]) = Len(n) + Len(stack[t]) - d
    /\ \A i \in 1..Len(n) : stack'[t][i] = n[i]
    /\ \A i \in (d + 1)..Len(stack[t]) : stack'[t][i - d + Len(n)] = stack[t][i]
    /\ \A u \in Threads : u # t => stack'[u] = stack[u]

StacksTyped == stack \in [Threads -> Seq(FrameSet)]

LEMMA SeqFacts ==
    ASSUME NEW S, NEW s \in Seq(S)
    PROVE  /\ Len(s) \in Nat /\ DOMAIN s = 1..Len(s) /\ \A i \in 1..Len(s) : s[i] \in S
           /\ s # <<>> => /\ Len(s) >= 1 /\ Head(s) = s[1] /\ Tail(s) \in Seq(S) /\ Len(Tail(s)) = Len(s) - 1
                          /\ \A i \in 1..(Len(s) - 1) : Tail(s)[i] = s[i + 1]
           /\ Len(s) >= 1 => s # <<>>
<1>1. Len(s) \in Nat /\ DOMAIN s = 1..Len(s) /\ \A i \in 1..Len(s) : s[i] \in S
      BY LenProperties, ElementOfSeq
<1>2. ASSUME s # <<>>
      PROVE  /\ Len(s) >= 1 /\ Head(s) = s[1] /\ Tail(s) \in Seq(S) /\ Len(Tail(s)) = Len(s) - 1
             /\ \A i \in 1..(Len(s) - 1) : Tail(s)[i] = s[i + 1]
  <2>1. /\ Head(s) = s[1] /\ Tail(s) \in Seq(S) /\ Len(Tail(s)) = Len(s) - 1
        /\ \A i \in 1..Len(Tail(s)) : Tail(s)[i] = s[i + 1]
        BY <1>2, HeadTailProperties
  <2>2. Len(s) >= 1
        BY <1>1, <1>2, EmptySeq
  <2> QED  BY <2>1, <2>2
<1>3. Len(s) >= 1 => s # <<>>
      BY EmptySeq
<1> QED  BY <1>1, <1>2, <1>3

LEMMA ConcatFacts ==
    ASSUME NEW S, NEW n \in Seq(S), NEW s \in Seq(S)
    PROVE  /\ n \o s \in Seq(S) /\ Len(n \o s) = Len(n) + Len(s)
           /\ \A i \in 1..Len(n) : (n \o s)[i] = n[i]
           /\ \A i \in 1..Len(s) : (n \o s)[i + Len(n)] = s[i]
<1>1. /\ n \o s \in Seq(S) /\ Len(n \o s) = Len(n) + Len(s)
      /\ \A i \in 1..(Len(n) + Len(s)) : (n \o s)[i] = IF i <= Len(n) THEN n[i] ELSE s[i - Len(n)]
      BY ConcatProperties
<1>2. Len(n) \in Nat /\ Len(s) \in Nat
      BY LenProperties
<1> QED  BY <1>1, <1>2

LEMMA StackMoves ==
    ASSUME StacksTyped, NEW t \in Threads, NEW n \in Seq(FrameSet), NEW d \in 0..Len(stack[t]),
           NEW v \in Seq(FrameSet), Len(v) = Len(stack[t]) - d,
           \A i \in 1..Len(v) : v[i] = stack[t][i + d],
           stack' = [stack EXCEPT ![t] = n \o v]
    PROVE  Moved(t, n, d)
<1>1. stack \in [Threads -> Seq(FrameSet)] /\ stack[t] \in Seq(FrameSet)
      BY DEF StacksTyped
<1>2. /\ n \o v \in Seq(FrameSet) /\ Len(n \o v) = Len(n) + Len(v)
      /\ \A i \in 1..Len(n) : (n \o v)[i] = n[i]
      /\ \A i \in 1..Len(v) : (n \o v)[i + Len(n)] = v[i]
  <2> DEFINE S == FrameSet
  <2>1. n \in Seq(S) /\ v \in Seq(S)
        OBVIOUS
  <2> HIDE DEF S
  <2>2. /\ n \o v \in Seq(S) /\ Len(n \o v) = Len(n) + Len(v)
        /\ \A i \in 1..Len(n) : (n \o v)[i] = n[i]
        /\ \A i \in 1..Len(v) : (n \o v)[i + Len(n)] = v[i]
        BY ONLY <2>1, ConcatFacts
  <2> QED  BY <2>2 DEF S
<1>3. Len(n) \in Nat /\ Len(v) \in Nat /\ Len(stack[t]) \in Nat
      BY <1>1, LenProperties
<1>4. stack'[t] = n \o v /\ \A u \in Threads : u # t => stack'[u] = stack[u]
      BY <1>1
<1>5. stack' \in [Threads -> Seq(FrameSet)]
      BY <1>1, <1>2
<1>6. ASSUME NEW i \in (d + 1)..Len(stack[t]) PROVE stack'[t][i - d + Len(n)] = stack[t][i]
  <2> DEFINE k == i - d
  <2>1. k \in 1..Len(v) /\ k + d = i
        BY <1>3
  <2> HIDE DEF k
  <2>2. v[k] = stack[t][i] /\ (n \o v)[k + Len(n)] = v[k]
        BY <1>2, <2>1
  <2> QED  BY <1>4, <2>2 DEF k
<1>7. Len(stack'[t]) = Len(n) + Len(stack[t]) - d
      BY <1>2, <1>3, <1>4
<1> QED  BY <1>2, <1>4, <1>5, <1>6, <1>7 DEF Moved

LEMMA CallMoves ==
    ASSUME StacksTyped, NEW t \in Threads, NEW n \in Seq(FrameSet), Call(t, n)
    PROVE  Moved(t, n, 0)
<1>1. stack[t] \in Seq(FrameSet) /\ stack' = [stack EXCEPT ![t] = n \o stack[t]]
      BY DEF StacksTyped, Call
<1>2. Len(stack[t]) \in Nat
      BY <1>1, LenProperties
<1>3. 0 \in 0..Len(stack[t]) /\ Len(stack[t]) = Len(stack[t]) - 0
      BY <1>2
<1>4. \A i \in 1..Len(stack[t]) : stack[t][i] = stack[t][i + 0]
      BY <1>2
<1> QED  BY <1>1, <1>3, <1>4, StackMoves

LEMMA GotoMoves ==
    ASSUME StacksTyped, NEW t \in Threads, stack[t] # <<>>, NEW n \in Seq(FrameSet), Goto(t, n)
    PROVE  Moved(t, n, 1)
<1>1. stack[t] \in Seq(FrameSet) /\ stack' = [stack EXCEPT ![t] = n \o Tail(stack[t])]
      BY DEF StacksTyped, Goto
<1>2. /\ Tail(stack[t]) \in Seq(FrameSet) /\ Len(Tail(stack[t])) = Len(stack[t]) - 1
      /\ Len(stack[t]) \in Nat /\ Len(stack[t]) >= 1
      /\ \A i \in 1..(Len(stack[t]) - 1) : Tail(stack[t])[i] = stack[t][i + 1]
      BY <1>1, SeqFacts
<1>3. 1 \in 0..Len(stack[t])
      BY <1>2
<1> QED  BY <1>1, <1>2, <1>3, StackMoves

-----------------------------------------------------------------------------
(* Who has what: the frames of a set S on all stacks. *)

Held(S) == \E u \in Threads : \E i \in 1..Len(stack[u]) : stack[u][i] \in S
Once(S) == \A u, v \in Threads : \A i \in 1..Len(stack[u]), j \in 1..Len(stack[v]) :
               stack[u][i] \in S /\ stack[v][j] \in S => u = v /\ i = j

(* Where a frame of the new stacks comes from. *)
LEMMA MovedFrom ==
    ASSUME StacksTyped, NEW t \in Threads, NEW n, NEW d, Moved(t, n, d),
           NEW u \in Threads, NEW i \in 1..Len(stack'[u])
    PROVE  \/ u = t /\ i \in 1..Len(n) /\ stack'[u][i] = n[i]
           \/ u = t /\ i > Len(n) /\ i - Len(n) + d \in (d + 1)..Len(stack[u]) /\ stack'[u][i] = stack[u][i - Len(n) + d]
           \/ u # t /\ i \in 1..Len(stack[u]) /\ stack'[u][i] = stack[u][i]
<1>1. stack[t] \in Seq(FrameSet) /\ n \in Seq(FrameSet)
      BY DEF StacksTyped, Moved
<1>2. Len(n) \in Nat /\ Len(stack[t]) \in Nat /\ d \in 0..Len(stack[t])
      BY <1>1, LenProperties DEF Moved
<1>3. CASE u # t
      BY <1>3 DEF Moved
<1>4. CASE u = t /\ i <= Len(n)
  <2>1. i \in 1..Len(n)
        BY <1>2, <1>4
  <2> QED  BY <1>4, <2>1 DEF Moved
<1>5. CASE u = t /\ ~(i <= Len(n))
  <2> DEFINE k == i - Len(n) + d
  <2>1. Len(stack'[t]) = Len(n) + Len(stack[t]) - d
        BY DEF Moved
  <2>2. i \in Int /\ i > Len(n) /\ k \in (d + 1)..Len(stack[t]) /\ k - d + Len(n) = i
        BY <1>2, <1>5, <2>1
  <2> HIDE DEF k
  <2>3. stack'[t][k - d + Len(n)] = stack[t][k]
        BY <2>2 DEF Moved
  <2> QED  BY <1>5, <2>2, <2>3 DEF k
<1> QED  BY <1>3, <1>4, <1>5

(* Where a frame of the old stacks that stays goes. *)
LEMMA MovedTo ==
    ASSUME StacksTyped, NEW t \in Threads, NEW n, NEW d, Moved(t, n, d),
           NEW u \in Threads, NEW i \in 1..Len(stack[u]), u = t => i > d
    PROVE  \E j \in 1..Len(stack'[u]) : stack'[u][j] = stack[u][i]
<1>1. stack[t] \in Seq(FrameSet) /\ n \in Seq(FrameSet)
      BY DEF StacksTyped, Moved
<1>2. Len(n) \in Nat /\ Len(stack[t]) \in Nat /\ d \in 0..Len(stack[t])
      BY <1>1, LenProperties DEF Moved
<1>3. CASE u # t
      BY <1>3 DEF Moved
<1>4. CASE u = t
  <2>1. i \in (d + 1)..Len(stack[t]) /\ Len(stack'[t]) = Len(n) + Len(stack[t]) - d
        BY <1>2, <1>4 DEF Moved
  <2>2. i - d + Len(n) \in 1..Len(stack'[t])
        BY <1>2, <2>1
  <2>3. stack'[t][i - d + Len(n)] = stack[t][i]
        BY <2>1 DEF Moved
  <2> QED  BY <1>4, <2>2, <2>3
<1> QED  BY <1>3, <1>4

(* Nothing of S is pushed or popped. *)
LEMMA HeldKept ==
    ASSUME StacksTyped, NEW t \in Threads, NEW n, NEW d, Moved(t, n, d), NEW S,
           \A i \in 1..d : stack[t][i] \notin S, \A i \in 1..Len(n) : n[i] \notin S
    PROVE  /\ Held(S)' <=> Held(S)
           /\ Once(S) => Once(S)'
<1>0. Len(n) \in Nat /\ Len(stack[t]) \in Nat /\ d \in 0..Len(stack[t])
      BY LenProperties DEF Moved, StacksTyped
<1>1. ASSUME NEW u \in Threads, NEW i \in 1..Len(stack[u]), stack[u][i] \in S PROVE Held(S)'
  <2>1. u = t => i > d
        BY <1>0, <1>1
  <2> QED  BY <1>1, <2>1, MovedTo DEF Held
<1>2. ASSUME NEW u \in Threads, NEW i \in 1..Len(stack'[u]), stack'[u][i] \in S
      PROVE  \E k \in 1..Len(stack[u]) : /\ stack[u][k] \in S
                                         /\ i = IF u = t THEN k + Len(n) - d ELSE k
  <2>1. CASE u # t
        BY <1>2, <2>1, MovedFrom
  <2>2. CASE u = t
    <3>1. i > Len(n) /\ i - Len(n) + d \in (d + 1)..Len(stack[u]) /\ stack'[u][i] = stack[u][i - Len(n) + d]
          BY <1>2, <2>2, MovedFrom
    <3>2. i - Len(n) + d \in 1..Len(stack[u]) /\ i = (i - Len(n) + d) + Len(n) - d
          BY <1>0, <2>2, <3>1
    <3> QED  BY <1>2, <2>2, <3>1, <3>2
  <2> QED  BY <2>1, <2>2
<1>3. Held(S)' => Held(S)
      BY <1>2 DEF Held
<1>4. ASSUME Once(S), NEW u \in Threads, NEW v \in Threads, NEW i \in 1..Len(stack'[u]), NEW j \in 1..Len(stack'[v]),
             stack'[u][i] \in S, stack'[v][j] \in S
      PROVE  u = v /\ i = j
  <2>1. PICK k \in 1..Len(stack[u]) : stack[u][k] \in S /\ i = IF u = t THEN k + Len(n) - d ELSE k
        BY <1>2, <1>4
  <2>2. PICK l \in 1..Len(stack[v]) : stack[v][l] \in S /\ j = IF v = t THEN l + Len(n) - d ELSE l
        BY <1>2, <1>4
  <2>3. u = v /\ k = l
        BY <1>4, <2>1, <2>2 DEF Once
  <2> QED  BY <2>1, <2>2, <2>3
<1> QED  BY <1>1, <1>3, <1>4 DEF Held, Once

(* The only one of S is popped. *)
LEMMA HeldEnds ==
    ASSUME StacksTyped, NEW t \in Threads, NEW n, NEW d, Moved(t, n, d), NEW S,
           NEW k \in 1..d, stack[t][k] \in S, Once(S), \A i \in 1..Len(n) : n[i] \notin S
    PROVE  ~Held(S)'
<1>0. Len(n) \in Nat /\ Len(stack[t]) \in Nat /\ d \in 0..Len(stack[t])
      BY LenProperties DEF Moved, StacksTyped
<1> SUFFICES ASSUME NEW u \in Threads, NEW i \in 1..Len(stack'[u]), stack'[u][i] \in S PROVE FALSE
    BY DEF Held
<1>1. k \in 1..Len(stack[t]) /\ k <= d
      BY <1>0
<1>2. CASE u # t
  <2>1. i \in 1..Len(stack[u]) /\ stack[u][i] \in S
        BY <1>2, MovedFrom
  <2> QED  BY <1>1, <1>2, <2>1 DEF Once
<1>3. CASE u = t
  <2> DEFINE l == i - Len(n) + d
  <2>1. i > Len(n) /\ l \in (d + 1)..Len(stack[t]) /\ stack[t][l] \in S
        BY <1>3, MovedFrom
  <2> HIDE DEF l
  <2>2. l \in 1..Len(stack[t]) /\ l # k
        BY <1>0, <1>1, <2>1
  <2> QED  BY <1>1, <2>1, <2>2 DEF Once
<1> QED  BY <1>2, <1>3

(* The first of S is pushed. *)
LEMMA HeldBegins ==
    ASSUME StacksTyped, NEW t \in Threads, NEW n, NEW d, Moved(t, n, d), NEW S, ~Held(S),
           NEW m \in 1..Len(n), n[m] \in S, \A i \in 1..Len(n) : n[i] \in S => i = m
    PROVE  Held(S)' /\ Once(S)'
<1>0. Len(n) \in Nat /\ Len(stack[t]) \in Nat /\ d \in 0..Len(stack[t]) /\ Len(stack'[t]) = Len(n) + Len(stack[t]) - d
      BY LenProperties DEF Moved, StacksTyped
<1>1. m \in 1..Len(stack'[t]) /\ stack'[t][m] \in S
      BY <1>0 DEF Moved
<1>2. ASSUME NEW u \in Threads, NEW i \in 1..Len(stack'[u]), stack'[u][i] \in S
      PROVE  u = t /\ i = m
  <2>1. CASE u # t
        BY <1>2, <2>1, MovedFrom DEF Held
  <2>2. CASE u = t
    <3>1. ~(i > Len(n) /\ i - Len(n) + d \in (d + 1)..Len(stack[u]) /\ stack'[u][i] = stack[u][i - Len(n) + d])
      <4>1. ASSUME NEW l \in (d + 1)..Len(stack[t]) PROVE stack[t][l] \notin S
        <5>1. l \in 1..Len(stack[t])
              BY <1>0
        <5> QED  BY <5>1 DEF Held
      <4> QED  BY <1>2, <2>2, <4>1
    <3>2. i \in 1..Len(n) /\ stack'[u][i] = n[i]
          BY <2>2, <3>1, MovedFrom
    <3> QED  BY <1>2, <2>2, <3>2
  <2> QED  BY <2>1, <2>2
<1> QED  BY <1>1, <1>2 DEF Held, Once

(* The only one of S is popped, and another pushed. *)
LEMMA HeldPassed ==
    ASSUME StacksTyped, NEW t \in Threads, NEW n, NEW d, Moved(t, n, d), NEW S,
           NEW k \in 1..d, stack[t][k] \in S, Once(S),
           NEW m \in 1..Len(n), n[m] \in S, \A i \in 1..Len(n) : n[i] \in S => i = m
    PROVE  Held(S) /\ Held(S)' /\ Once(S)'
<1>0. Len(n) \in Nat /\ Len(stack[t]) \in Nat /\ d \in 0..Len(stack[t]) /\ Len(stack'[t]) = Len(n) + Len(stack[t]) - d
      BY LenProperties DEF Moved, StacksTyped
<1>1. m \in 1..Len(stack'[t]) /\ stack'[t][m] \in S
      BY <1>0 DEF Moved
<1>2. k \in 1..Len(stack[t]) /\ k <= d
      BY <1>0
<1>3. ASSUME NEW u \in Threads, NEW i \in 1..Len(stack'[u]), stack'[u][i] \in S
      PROVE  u = t /\ i = m
  <2>1. CASE u # t
    <3>1. i \in 1..Len(stack[u]) /\ stack[u][i] \in S
          BY <1>3, <2>1, MovedFrom
    <3> QED  BY <1>2, <2>1, <3>1 DEF Once
  <2>2. CASE u = t
    <3>1. ~(i > Len(n) /\ i - Len(n) + d \in (d + 1)..Len(stack[u]) /\ stack'[u][i] = stack[u][i - Len(n) + d])
      <4>1. ASSUME NEW l \in (d + 1)..Len(stack[t]) PROVE stack[t][l] \notin S
        <5>1. l \in 1..Len(stack[t]) /\ l # k
              BY <1>0, <1>2
        <5> QED  BY <1>2, <5>1 DEF Once
      <4> QED  BY <1>3, <2>2, <4>1
    <3>2. i \in 1..Len(n) /\ stack'[u][i] = n[i]
          BY <2>2, <3>1, MovedFrom
    <3> QED  BY <1>3, <2>2, <3>2
  <2> QED  BY <2>1, <2>2
<1> QED  BY <1>1, <1>2, <1>3, ZenonT(40) DEF Held, Once
-----------------------------------------------------------------------------
(* The inductive invariant. *)

TurnOf(c)        == {f \in FrameSet : f.pc \in TurnPcs /\ f.ctx = c}
ClaimOf(c)       == {f \in FrameSet : f.pc = "claim" /\ f.ctx = c}
TurnFor(r)       == {f \in FrameSet : f.pc \in TurnPcs /\ f.req = r}
TurnAt(r, c)     == {f \in FrameSet : f.pc \in TurnPcs /\ f.req = r /\ f.ctx = c}
WaitFor(r)       == {f \in FrameSet : f.pc = "waits" /\ f.req = r}
WakeAt(r, c, g)  == {f \in FrameSet : f.pc = "wakeGate" /\ f.req = r /\ f.ctx = c /\ f.gen = g}

CtxT == [life : {"open", "draining", "closed"}, exec : {"idle", "scheduled", "running"},
         queue : Seq(Reqs), waiting : Int, pending : Int, firing : Int]
ReqT == [place : {"new", "ready", "running", "waiting", "done"}, on : Contexts \union {None},
         gen : Nat, wake : BOOLEAN, internal : BOOLEAN]

(* A claim is made by somebody who looks for work. *)
RunPcs == {"runNext", "runNextInternal"}
Below  == \A u \in Threads : \A i \in 1..Len(stack[u]) :
              stack[u][i].pc \in {"take", "claim"} => i < Len(stack[u]) /\ stack[u][i + 1].pc \in RunPcs

Typed ==
    /\ ctx \in [Contexts -> CtxT] /\ req \in [Reqs -> ReqT] /\ ready \in Seq(Contexts)
    /\ StacksTyped /\ Below
    /\ armed \subseteq Timers /\ woken \subseteq Reqs \X Nat

(* Who has the context: a turn if it is running, a claim or a link in the   *)
(* ready queue if it is scheduled, nobody if it is idle.                    *)
LinkedOnce(c) == \A i, j \in 1..Len(ready) : ready[i] = c /\ ready[j] = c => i = j

ContextSound(c) ==
    /\ Once(TurnOf(c)) /\ (ctx[c].exec = "running" <=> Held(TurnOf(c)))
    /\ Once(ClaimOf(c)) /\ LinkedOnce(c) /\ ~(Held(ClaimOf(c)) /\ Linked(c))
    /\ ctx[c].exec = "scheduled" <=> Held(ClaimOf(c)) \/ Linked(c)
    /\ ctx[c].queue # <<>> => ctx[c].exec # "idle"

(* A queue has requests that are ready, each once. *)
QueueSound(c) ==
    /\ \A i \in 1..Len(ctx[c].queue) : req[ctx[c].queue[i]].place = "ready" /\ req[ctx[c].queue[i]].on = c
    /\ \A i, j \in 1..Len(ctx[c].queue) : ctx[c].queue[i] = ctx[c].queue[j] => i = j

(* A running request has one turn, in its context; a ready one is queued.   *)
InQueue(r) == \E i \in 1..Len(ctx[req[r].on].queue) : ctx[req[r].on].queue[i] = r

RequestSound(r) ==
    /\ Once(TurnFor(r)) /\ (req[r].place = "running" <=> Held(TurnFor(r)))
    /\ req[r].place # "new" => req[r].on \in Contexts
    /\ req[r].place = "ready" => InQueue(r)
    /\ \A c \in Contexts : Held(TurnAt(r, c)) => req[r].on = c

(* No token beyond the generation has been used.  While a wait is prepared  *)
(* or taken, a wake with its token goes to the context of the request, and  *)
(* one that came before the request waits is kept in `wake'.                *)
InWait(r) == req[r].place = "waiting" \/ Held(WaitFor(r))

WakesSound(r) ==
    /\ \A g \in Nat : <<r, g>> \in woken => g <= req[r].gen
    /\ \A c \in Contexts, g \in Nat :
          Held(WakeAt(r, c, g)) => g <= req[r].gen /\ (g = req[r].gen /\ InWait(r) => req[r].on = c)
    /\ Held(WaitFor(r)) /\ <<r, req[r].gen>> \in woken => req[r].wake
    /\ req[r].place = "waiting" => <<r, req[r].gen>> \notin woken

(* The budgets. *)
ExternalOn(c) == {r \in Reqs : req[r].on = c /\ ~req[r].internal /\ req[r].place \in {"ready", "running", "waiting"}}
WaitingOn(c)  == {r \in Reqs : req[r].on = c /\ req[r].place = "waiting"}
WaitingReqs   == {r \in Reqs : req[r].place = "waiting"}

Counted ==
    /\ \A c \in Contexts : /\ ctx[c].pending = Cardinality(ExternalOn(c))
                           /\ ctx[c].waiting = Cardinality(WaitingOn(c))
    /\ waiting = Cardinality(WaitingReqs)

ContextsSound == \A c \in Contexts : ContextSound(c)
RequestsSound == (\A c \in Contexts : QueueSound(c)) /\ \A r \in Reqs : RequestSound(r) /\ WakesSound(r)

RInv == Typed /\ ContextsSound /\ RequestsSound /\ Counted
-----------------------------------------------------------------------------
(* The frames that steps push. *)

AboutPcs == TurnPcs \union UserPcs \union {"internalGate"}
OnCtxPcs == {"claim", "cancel", "closeBegin", "closeGate", "finishWith", "await", "free", "hook"}
PlainPcs == {"endBusy", "stopState", "stopBusy", "stopWaiting", "stopGate", "retire", "serve", "serveIdle",
             "serveCheck", "exited", "drive", "runNext", "runNextInternal", "take", "fire"}

(* What the proofs follow: turns, claims, those about to claim, and wakes. *)
HotPcs == TurnPcs \union {"take", "claim", "wakeGate"}
Cold(f) == f \in FrameSet /\ f.pc \notin HotPcs

LEMMA FrameIn ==
    ASSUME NEW pc \in Pcs, NEW c \in Contexts \union {None}, NEW r \in Reqs \union {None},
           Fit(Frame(pc, c, r))
    PROVE  /\ Frame(pc, c, r) \in FrameSet
           /\ Frame(pc, c, r).pc = pc /\ Frame(pc, c, r).ctx = c /\ Frame(pc, c, r).req = r /\ Frame(pc, c, r).gen = 0
BY DEF Frame, FrameSet

LEMMA PlainFrame ==
    ASSUME NEW pc \in PlainPcs
    PROVE  Frame(pc, None, None) \in FrameSet /\ Frame(pc, None, None).pc = pc
<1>1. pc \in Pcs /\ Fit(Frame(pc, None, None))
      BY DEF PlainPcs, Pcs, TurnPcs, UserPcs, Fit, Frame
<1> QED  BY <1>1, FrameIn

LEMMA CtxFrame ==
    ASSUME NEW pc \in OnCtxPcs, NEW c \in Contexts
    PROVE  Frame(pc, c, None) \in FrameSet /\ Frame(pc, c, None).pc = pc /\ Frame(pc, c, None).ctx = c
<1>1. pc \in Pcs /\ Fit(Frame(pc, c, None))
      BY DEF OnCtxPcs, Pcs, TurnPcs, UserPcs, Fit, Frame
<1> QED  BY <1>1, FrameIn

LEMMA ReqFrame ==
    ASSUME NEW pc \in AboutPcs, NEW c \in Contexts, NEW r \in Reqs
    PROVE  /\ Frame(pc, c, r) \in FrameSet
           /\ Frame(pc, c, r).pc = pc /\ Frame(pc, c, r).ctx = c /\ Frame(pc, c, r).req = r
<1>1. pc \in Pcs /\ Fit(Frame(pc, c, r))
      BY DEF AboutPcs, Pcs, TurnPcs, UserPcs, Fit, Frame
<1> QED  BY <1>1, FrameIn

LEMMA FireFrame ==
    ASSUME NEW tm \in Timers
    PROVE  Cold(Frame("fireSubmit", Home[tm], tm))
<1>1. tm \in Reqs /\ Home[tm] \in Contexts
      BY RuntimeAssumption DEF Reqs
<1>2. "fireSubmit" \in Pcs /\ Fit(Frame("fireSubmit", Home[tm], tm))
      BY <1>1 DEF Pcs, TurnPcs, UserPcs, Fit, Frame
<1> QED  BY <1>1, <1>2, FrameIn DEF Cold, HotPcs, TurnPcs

(* A frame goes on to another place in the same function. *)
LEMMA MovedFrame ==
    ASSUME NEW f \in FrameSet, NEW pc \in Pcs,
           \/ f.pc \in AboutPcs /\ pc \in AboutPcs
           \/ f.pc \in OnCtxPcs /\ pc \in OnCtxPcs
           \/ f.pc = "fireSubmit" /\ pc = "endFire"
    PROVE  /\ [f EXCEPT !.pc = pc] \in FrameSet /\ [f EXCEPT !.pc = pc].pc = pc
           /\ [f EXCEPT !.pc = pc].ctx = f.ctx /\ [f EXCEPT !.pc = pc].req = f.req /\ [f EXCEPT !.pc = pc].gen = f.gen
<1>1. f \in [pc : Pcs, ctx : Contexts \union {None}, req : Reqs \union {None}, gen : Nat] /\ Fit(f)
      BY DEF FrameSet
<1> DEFINE g == [f EXCEPT !.pc = pc]
<1>2. /\ g \in [pc : Pcs, ctx : Contexts \union {None}, req : Reqs \union {None}, gen : Nat]
      /\ g.pc = pc /\ g.ctx = f.ctx /\ g.req = f.req /\ g.gen = f.gen
      BY <1>1
<1> HIDE DEF g
<1>3. Fit(g)
      BY <1>1, <1>2 DEF Fit, AboutPcs, OnCtxPcs, TurnPcs, UserPcs
<1>4. g \in FrameSet
      BY <1>2, <1>3 DEF FrameSet
<1> QED  BY <1>2, <1>4 DEF g

LEMMA TopFrame ==
    ASSUME StacksTyped, NEW t \in Threads, stack[t] # <<>>
    PROVE  /\ Len(stack[t]) \in Nat /\ Len(stack[t]) >= 1
           /\ Top(t) \in FrameSet /\ Top(t) = stack[t][1] /\ Fit(Top(t))
<1>1. stack[t] \in Seq(FrameSet)
      BY DEF StacksTyped
<1>2. Len(stack[t]) \in Nat /\ Len(stack[t]) >= 1 /\ Head(stack[t]) = stack[t][1] /\ stack[t][1] \in FrameSet
      BY <1>1, SeqFacts
<1> QED  BY <1>2 DEF Top, FrameSet

LEMMA ColdPlain ==
    /\ Cold(EndBusy)
    /\ \A pc \in PlainPcs \ {"take"} : Cold(Frame(pc, None, None))
<1>1. \A pc \in PlainPcs \ {"take"} : Cold(Frame(pc, None, None))
      BY PlainFrame DEF Cold, HotPcs, TurnPcs, PlainPcs
<1>2. "endBusy" \in PlainPcs \ {"take"}
      BY DEF PlainPcs
<1> QED  BY <1>1, <1>2 DEF EndBusy

-----------------------------------------------------------------------------
(* Steps that move nothing the proofs follow. *)

Quiet(t) ==
    \E n, d : /\ Moved(t, n, d)
              /\ \A i \in 1..d : stack[t][i].pc \notin TurnPcs \union {"claim"}
              /\ \A i \in 1..Len(n) : Cold(n[i])

LEMMA QuietCall ==
    ASSUME StacksTyped, NEW t \in Threads, NEW n \in Seq(FrameSet), Call(t, n), \A i \in 1..Len(n) : Cold(n[i])
    PROVE  Quiet(t)
<1>1. Moved(t, n, 0)
      BY CallMoves
<1>2. \A i \in 1..0 : stack[t][i].pc \notin TurnPcs \union {"claim"}
      OBVIOUS
<1> QED  BY <1>1, <1>2 DEF Quiet

LEMMA QuietGoto ==
    ASSUME StacksTyped, NEW t \in Threads, stack[t] # <<>>, Top(t).pc \notin TurnPcs \union {"claim"},
           NEW n \in Seq(FrameSet), Goto(t, n), \A i \in 1..Len(n) : Cold(n[i])
    PROVE  Quiet(t)
<1>1. Moved(t, n, 1)
      BY GotoMoves
<1>2. \A i \in 1..1 : stack[t][i].pc \notin TurnPcs \union {"claim"}
      BY TopFrame
<1> QED  BY <1>1, <1>2 DEF Quiet

LEMMA QuietSame ==
    ASSUME StacksTyped, NEW t \in Threads, stack' = stack
    PROVE  Quiet(t)
<1>1. <<>> \in Seq(FrameSet) /\ Len(<<>>) = 0
      OBVIOUS
<1>2. stack[t] \in Seq(FrameSet) /\ Len(stack[t]) \in Nat /\ stack \in [Threads -> Seq(FrameSet)]
      BY LenProperties DEF StacksTyped
<1>3. 0 \in 0..Len(stack[t]) /\ Len(stack[t]) = Len(<<>>) + Len(stack[t]) - 0
      BY <1>1, <1>2
<1>4. \A i \in (0 + 1)..Len(stack[t]) : i - 0 + Len(<<>>) = i
      BY <1>1, <1>2
<1>5. Moved(t, <<>>, 0)
      BY <1>1, <1>2, <1>3, <1>4 DEF Moved
<1>6. (\A i \in 1..0 : stack[t][i].pc \notin TurnPcs \union {"claim"}) /\ \A i \in 1..Len(<<>>) : Cold(<<>>[i])
      BY <1>1
<1> QED  BY <1>5, <1>6 DEF Quiet

LEMMA QuietCall1 ==
    ASSUME StacksTyped, NEW t \in Threads, NEW a, Cold(a), Call(t, <<a>>)
    PROVE  Quiet(t)
<1>1. <<a>> \in Seq(FrameSet) /\ \A i \in 1..Len(<<a>>) : <<a>>[i] = a
      BY DEF Cold
<1>2. \A i \in 1..Len(<<a>>) : Cold(<<a>>[i])
      BY <1>1
<1> QED  BY <1>1, <1>2, QuietCall

LEMMA QuietGoto0 ==
    ASSUME StacksTyped, NEW t \in Threads, stack[t] # <<>>, Top(t).pc \notin TurnPcs \union {"claim"}, Goto(t, <<>>)
    PROVE  Quiet(t)
<1>1. <<>> \in Seq(FrameSet) /\ Len(<<>>) = 0
      OBVIOUS
<1>2. \A i \in 1..Len(<<>>) : Cold(<<>>[i])
      BY <1>1
<1> QED  BY <1>1, <1>2, QuietGoto

LEMMA QuietGoto1 ==
    ASSUME StacksTyped, NEW t \in Threads, stack[t] # <<>>, Top(t).pc \notin TurnPcs \union {"claim"},
           NEW a, Cold(a), Goto(t, <<a>>)
    PROVE  Quiet(t)
<1>1. <<a>> \in Seq(FrameSet) /\ \A i \in 1..Len(<<a>>) : <<a>>[i] = a
      BY DEF Cold
<1>2. \A i \in 1..Len(<<a>>) : Cold(<<a>>[i])
      BY <1>1
<1> QED  BY <1>1, <1>2, QuietGoto

LEMMA QuietGoto2 ==
    ASSUME StacksTyped, NEW t \in Threads, stack[t] # <<>>, Top(t).pc \notin TurnPcs \union {"claim"},
           NEW a, NEW b, Cold(a), Cold(b), Goto(t, <<a, b>>)
    PROVE  Quiet(t)
<1>1. <<a, b>> \in Seq(FrameSet) /\ \A i \in 1..Len(<<a, b>>) : <<a, b>>[i] = a \/ <<a, b>>[i] = b
      BY DEF Cold
<1>2. \A i \in 1..Len(<<a, b>>) : Cold(<<a, b>>[i])
      BY <1>1
<1> QED  BY <1>1, <1>2, QuietGoto

(* Nobody begins or ends to have a frame of S. *)
Same(S) == (Held(S)' <=> Held(S)) /\ (Once(S) => Once(S)')

Followed == {f \in FrameSet : f.pc \in TurnPcs \union {"claim"}}

LEMMA FollowedSets ==
    \A c, r : /\ TurnOf(c) \subseteq Followed /\ ClaimOf(c) \subseteq Followed /\ TurnFor(r) \subseteq Followed
              /\ TurnAt(r, c) \subseteq Followed /\ WaitFor(r) \subseteq Followed
BY DEF TurnOf, ClaimOf, TurnFor, TurnAt, WaitFor, Followed, TurnPcs

LEMMA QuietHeld ==
    ASSUME StacksTyped, NEW t \in Threads, Quiet(t), NEW S, S \subseteq Followed
    PROVE  Same(S)
<1>1. PICK n, d : /\ Moved(t, n, d)
                  /\ \A i \in 1..d : stack[t][i].pc \notin TurnPcs \union {"claim"}
                  /\ \A i \in 1..Len(n) : Cold(n[i])
      BY DEF Quiet
<1>2. \A i \in 1..d : stack[t][i] \notin S
      BY <1>1 DEF Followed
<1>3. \A i \in 1..Len(n) : n[i] \notin S
      BY <1>1 DEF Followed, Cold, HotPcs
<1> QED  BY <1>1, <1>2, <1>3, HeldKept DEF Same

(* A frame of S that is there was there, unless it is pushed. *)
LEMMA HeldNotNew ==
    ASSUME StacksTyped, NEW t \in Threads, NEW n, NEW d, Moved(t, n, d), NEW S, \A i \in 1..Len(n) : n[i] \notin S
    PROVE  Held(S)' => Held(S)
<1>0. Len(n) \in Nat /\ Len(stack[t]) \in Nat /\ d \in 0..Len(stack[t])
      BY LenProperties DEF Moved, StacksTyped
<1> SUFFICES ASSUME NEW u \in Threads, NEW i \in 1..Len(stack'[u]), stack'[u][i] \in S PROVE Held(S)
    BY DEF Held
<1>1. CASE u # t
      BY <1>1, MovedFrom DEF Held
<1>2. CASE u = t
  <2> DEFINE k == i - Len(n) + d
  <2>1. k \in (d + 1)..Len(stack[u]) /\ stack'[u][i] = stack[u][k]
        BY <1>2, MovedFrom
  <2> HIDE DEF k
  <2>2. k \in 1..Len(stack[u])
        BY <1>0, <1>2, <2>1
  <2> QED  BY <2>1, <2>2 DEF Held
<1> QED  BY <1>1, <1>2

LEMMA QuietWakes ==
    ASSUME StacksTyped, NEW t \in Threads, Quiet(t), NEW r, NEW c, NEW g
    PROVE  Held(WakeAt(r, c, g))' => Held(WakeAt(r, c, g))
<1>1. PICK n, d : Moved(t, n, d) /\ \A i \in 1..Len(n) : Cold(n[i])
      BY DEF Quiet
<1> DEFINE S == WakeAt(r, c, g)
<1>2. \A i \in 1..Len(n) : n[i] \notin S
      BY <1>1 DEF Cold, HotPcs, WakeAt
<1> HIDE DEF S
<1>3. Held(S)' => Held(S)
      BY <1>1, <1>2, HeldNotNew
<1> QED  BY <1>3 DEF S

(* What is below a frame stays there. *)
LEMMA BelowKept ==
    ASSUME StacksTyped, Below, NEW t \in Threads, NEW n, NEW d, Moved(t, n, d),
           \A i \in 1..Len(n) : n[i].pc \in {"take", "claim"} =>
               i = Len(n) /\ d < Len(stack[t]) /\ stack[t][d + 1].pc \in RunPcs
    PROVE  Below'
<1>0. Len(n) \in Nat /\ Len(stack[t]) \in Nat /\ d \in 0..Len(stack[t]) /\ Len(stack'[t]) = Len(n) + Len(stack[t]) - d
      BY LenProperties DEF Moved, StacksTyped
<1> SUFFICES ASSUME NEW u \in Threads, NEW i \in 1..Len(stack'[u]), stack'[u][i].pc \in {"take", "claim"}
             PROVE  i < Len(stack'[u]) /\ stack'[u][i + 1].pc \in RunPcs
    BY DEF Below
<1>1. CASE u # t
      BY <1>1 DEF Moved, Below
<1>2. CASE u = t /\ i \in 1..Len(n) /\ stack'[u][i] = n[i]
  <2>1. i = Len(n) /\ d < Len(stack[t]) /\ stack[t][d + 1].pc \in RunPcs
        BY <1>2
  <2>2. d + 1 \in (d + 1)..Len(stack[t]) /\ (d + 1) - d + Len(n) = i + 1 /\ i < Len(stack'[t])
        BY <1>0, <2>1
  <2>3. stack'[t][i + 1] = stack[t][d + 1]
        BY <2>2 DEF Moved
  <2> QED  BY <1>2, <2>1, <2>2, <2>3
<1>3. CASE u = t /\ ~(i \in 1..Len(n) /\ stack'[u][i] = n[i])
  <2> DEFINE k == i - Len(n) + d
  <2>1. k \in (d + 1)..Len(stack[t]) /\ stack'[t][i] = stack[t][k]
        BY <1>3, MovedFrom
  <2>2. i \in Int /\ i = k - d + Len(n)
        BY <1>0, <1>3, <2>1
  <2> HIDE DEF k
  <2>3. k \in 1..Len(stack[t])
        BY <1>0, <2>1
  <2>7. stack[t][k].pc \in {"take", "claim"}
        BY <1>3, <2>1
  <2>4. k < Len(stack[t]) /\ stack[t][k + 1].pc \in RunPcs
        BY <2>3, <2>7 DEF Below
  <2>8. \A a, b, l, e \in Int : a < l /\ a \in (e + 1)..l =>
            a + 1 \in (e + 1)..l /\ (a + 1) - e + b = (a - e + b) + 1 /\ a - e + b < b + l - e
        OBVIOUS
  <2>5. k + 1 \in (d + 1)..Len(stack[t]) /\ (k + 1) - d + Len(n) = i + 1 /\ i < Len(stack'[t])
    <3>1. k \in Int /\ d \in Int /\ Len(n) \in Int /\ Len(stack[t]) \in Int
          BY <1>0, <2>1
    <3> QED  BY <1>0, <2>1, <2>2, <2>4, <2>8, <3>1
  <2>6. stack'[t][i + 1] = stack[t][k + 1]
        BY <2>5, SMTT(40) DEF Moved
  <2> QED  BY <1>3, <2>4, <2>5, <2>6
<1> QED  BY <1>1, <1>2, <1>3

LEMMA QuietTyped ==
    ASSUME StacksTyped, Below, NEW t \in Threads, Quiet(t)
    PROVE  StacksTyped' /\ Below'
<1>1. PICK n, d : Moved(t, n, d) /\ \A i \in 1..Len(n) : Cold(n[i])
      BY DEF Quiet
<1>2. \A i \in 1..Len(n) : n[i].pc \notin {"take", "claim"}
      BY <1>1 DEF Cold, HotPcs
<1>3. Below'
      BY <1>1, <1>2, BelowKept
<1>4. StacksTyped'
      BY <1>1 DEF Moved, StacksTyped
<1> QED  BY <1>3, <1>4

-----------------------------------------------------------------------------
(* What the steps do to a context's record and to the ready queue. *)

LEMMA ScheduleFacts ==
    ASSUME NEW x \in CtxT
    PROVE  /\ Schedule(x) \in CtxT
           /\ Schedule(x).exec = IF Schedules(x) THEN "scheduled" ELSE x.exec
           /\ Schedule(x).queue = x.queue /\ Schedule(x).waiting = x.waiting /\ Schedule(x).pending = x.pending
BY DEF CtxT, Schedule

LEMMA CloseFacts ==
    ASSUME NEW x \in CtxT
    PROVE  /\ CloseIfDrained(x) \in CtxT
           /\ CloseIfDrained(x).exec = x.exec /\ CloseIfDrained(x).queue = x.queue
           /\ CloseIfDrained(x).waiting = x.waiting /\ CloseIfDrained(x).pending = x.pending
BY DEF CtxT, CloseIfDrained

LEMMA AppendFacts ==
    ASSUME NEW S, NEW s \in Seq(S), NEW e \in S
    PROVE  /\ Append(s, e) \in Seq(S) /\ Len(Append(s, e)) = Len(s) + 1 /\ Append(s, e) # <<>>
           /\ \A i \in 1..Len(s) : i \in 1..Len(Append(s, e)) /\ Append(s, e)[i] = s[i]
           /\ Len(s) + 1 \in 1..Len(Append(s, e)) /\ Append(s, e)[Len(s) + 1] = e
           /\ \A i \in 1..Len(Append(s, e)) : i \in 1..Len(s) \/ i = Len(s) + 1
<1>1. Len(s) \in Nat
      BY LenProperties
<1>2. /\ Append(s, e) \in Seq(S) /\ Append(s, e) # <<>> /\ Len(Append(s, e)) = Len(s) + 1
      /\ \A i \in 1..Len(s) : Append(s, e)[i] = s[i]
      /\ Append(s, e)[Len(s) + 1] = e
      BY AppendProperties
<1> QED  BY <1>1, <1>2

LEMMA RemoveFacts ==
    ASSUME NEW S, NEW s \in Seq(S), NEW k \in 1..Len(s)
    PROVE  /\ RemoveAt(s, k) \in Seq(S) /\ Len(RemoveAt(s, k)) = Len(s) - 1
           /\ \A i \in 1..Len(RemoveAt(s, k)) : RemoveAt(s, k)[i] = IF i < k THEN s[i] ELSE s[i + 1]
<1>1. Len(s) \in Nat
      BY LenProperties
<1> DEFINE a == SubSeq(s, 1, k - 1)  b == SubSeq(s, k + 1, Len(s))
<1>2. /\ a \in Seq(S) /\ Len(a) = k - 1 /\ \A i \in 1..(k - 1) : a[i] = s[i]
  <2>1. a \in Seq(S)
        BY <1>1, SubSeqProperties
  <2>2. CASE k = 1
    <3>1. a = <<>>
          BY <1>1, <2>2
    <3> QED  BY <2>1, <2>2, <3>1
  <2>3. CASE k > 1
    <3>1. 1 \in 1..Len(s) /\ k - 1 \in 1..Len(s) /\ 1 <= k - 1 + 1
          BY <1>1, <2>3
    <3>2. Len(a) = k - 1
          BY <1>1, <3>1, SubSeqProperties
    <3> QED  BY <1>1, <2>1, <3>1, <3>2, SubSeqProperties
  <2> QED  BY <1>1, <2>2, <2>3
<1>3. /\ b \in Seq(S) /\ Len(b) = Len(s) - k /\ \A i \in 1..(Len(s) - k) : b[i] = s[k + i]
  <2>1. b \in Seq(S)
        BY <1>1, SubSeqProperties
  <2> QED  BY <1>1, <2>1, SubSeqProperties
<1> HIDE DEF a, b
<1>4. RemoveAt(s, k) = a \o b
      BY DEF RemoveAt, a, b
<1>5. /\ a \o b \in Seq(S) /\ Len(a \o b) = Len(a) + Len(b)
      /\ \A i \in 1..Len(a) : (a \o b)[i] = a[i]
      /\ \A i \in 1..Len(b) : (a \o b)[i + Len(a)] = b[i]
  <2>1. a \in Seq(S) /\ b \in Seq(S)
        BY <1>2, <1>3
  <2> QED  BY ONLY <2>1, ConcatFacts
<1>6. Len(a \o b) = Len(s) - 1
      BY <1>1, <1>2, <1>3, <1>5
<1>7. ASSUME NEW i \in 1..(Len(s) - 1) PROVE (a \o b)[i] = IF i < k THEN s[i] ELSE s[i + 1]
  <2>1. CASE i < k
        BY <1>1, <1>2, <1>5, <2>1
  <2>2. CASE ~(i < k)
    <3> DEFINE j == i - (k - 1)
    <3>1. j \in 1..(Len(s) - k) /\ j + (k - 1) = i /\ k + j = i + 1
          BY <1>1, <2>2
    <3> HIDE DEF j
    <3>2. (a \o b)[i] = b[j]
          BY <1>2, <1>3, <1>5, <3>1
    <3>3. b[j] = s[i + 1]
          BY <1>3, <3>1
    <3> QED  BY <2>2, <3>2, <3>3
  <2> QED  BY <2>1, <2>2
<1> QED  BY <1>4, <1>5, <1>6, <1>7

(* c enters the ready queue. *)
LEMMA ReadyAppend ==
    ASSUME ready \in Seq(Contexts), NEW c \in Contexts, ready' = Append(ready, c)
    PROVE  /\ ready' \in Seq(Contexts)
           /\ Linked(c)' /\ (~Linked(c) => LinkedOnce(c)')
           /\ \A e \in Contexts : e # c => (Linked(e)' <=> Linked(e)) /\ (LinkedOnce(e) => LinkedOnce(e)')
<1>1. /\ ready' \in Seq(Contexts)
      /\ \A i \in 1..Len(ready) : i \in 1..Len(ready') /\ ready'[i] = ready[i]
      /\ Len(ready) + 1 \in 1..Len(ready') /\ ready'[Len(ready) + 1] = c
      /\ \A i \in 1..Len(ready') : i \in 1..Len(ready) \/ i = Len(ready) + 1
      BY AppendFacts
<1>2. Linked(c)'
      BY <1>1 DEF Linked
<1>3. ~Linked(c) => LinkedOnce(c)'
      BY <1>1 DEF Linked, LinkedOnce
<1>4. ASSUME NEW e \in Contexts, e # c PROVE (Linked(e)' <=> Linked(e)) /\ (LinkedOnce(e) => LinkedOnce(e)')
  <2>1. Linked(e)' <=> Linked(e)
        BY <1>1, <1>4 DEF Linked
  <2>2. LinkedOnce(e) => LinkedOnce(e)'
        BY <1>1, <1>4 DEF LinkedOnce
  <2> QED  BY <2>1, <2>2
<1> QED  BY <1>1, <1>2, <1>3, <1>4

(* c leaves it. *)
LEMMA ReadyRemoved ==
    ASSUME ready \in Seq(Contexts), NEW k \in 1..Len(ready), ready' = RemoveAt(ready, k)
    PROVE  /\ ready' \in Seq(Contexts) /\ ready[k] \in Contexts
           /\ LinkedOnce(ready[k]) => ~(\E i \in 1..Len(ready') : ready'[i] = ready[k])
           /\ \A e \in Contexts : LinkedOnce(e) => LinkedOnce(e)'
           /\ \A e \in Contexts : e # ready[k] => (Linked(e)' <=> Linked(e))
<1>1. /\ ready' \in Seq(Contexts) /\ Len(ready') = Len(ready) - 1
      /\ \A i \in 1..Len(ready') : ready'[i] = IF i < k THEN ready[i] ELSE ready[i + 1]
      BY RemoveFacts
<1>2. Len(ready) \in Nat /\ ready[k] \in Contexts
      BY LenProperties, ElementOfSeq
<1> DEFINE from(i) == IF i < k THEN i ELSE i + 1
<1>3. \A i \in 1..Len(ready') : from(i) \in 1..Len(ready) /\ from(i) # k /\ ready'[i] = ready[from(i)]
      BY <1>1, <1>2
<1>4. \A i, j \in 1..Len(ready') : from(i) = from(j) => i = j
      BY <1>1, <1>2
<1>5. \A i \in 1..Len(ready) : i # k => \E j \in 1..Len(ready') : ready'[j] = ready[i]
  <2> SUFFICES ASSUME NEW i \in 1..Len(ready), i # k PROVE \E j \in 1..Len(ready') : ready'[j] = ready[i]
      OBVIOUS
  <2>1. CASE i < k
    <3>1. i \in 1..Len(ready')
          BY <1>1, <1>2, <2>1
    <3> QED  BY <1>1, <2>1, <3>1
  <2>2. CASE ~(i < k)
    <3>1. i - 1 \in 1..Len(ready') /\ ~(i - 1 < k) /\ (i - 1) + 1 = i
          BY <1>1, <1>2, <2>2
    <3> QED  BY <1>1, <3>1
  <2> QED  BY <2>1, <2>2
<1> HIDE DEF from
<1>6. LinkedOnce(ready[k]) => ~(\E i \in 1..Len(ready') : ready'[i] = ready[k])
      BY <1>3 DEF LinkedOnce
<1>7. ASSUME NEW e \in Contexts, LinkedOnce(e) PROVE LinkedOnce(e)'
      BY <1>3, <1>4, <1>7 DEF LinkedOnce
<1>8. ASSUME NEW e \in Contexts, e # ready[k] PROVE Linked(e)' <=> Linked(e)
  <2>1. Linked(e)' => Linked(e)
        BY <1>3 DEF Linked
  <2>2. Linked(e) => Linked(e)'
        BY <1>5, <1>8 DEF Linked
  <2> QED  BY <2>1, <2>2
<1> QED  BY <1>1, <1>2, <1>6, <1>7, <1>8

-----------------------------------------------------------------------------
(* Most steps leave contexts, requests, the ready queue and the tokens alone. *)

StartCall(t) ==
    \/ TryRetainOwner(t) \/ ReleaseOwner(t) \/ Serve(t) \/ Drive(t) \/ Help(t)
    \/ \E c \in Contexts, r \in Plain : Submit(t, c, r)
    \/ \E r \in Plain : SubmitInternal(t, r)
    \/ \E tm \in Timers, noLater \in BOOLEAN : ArmTimer(t, tm, noLater)
    \/ \E tm \in Timers : CancelTimer(t, tm)
    \/ \E c \in Deletes : Delete(t, c)

Shutdown(t) ==
    \/ EndBusyStep(t) \/ StopState(t) \/ StopBusy(t) \/ StopWaiting(t) \/ StopGate(t) \/ Retire(t)
    \/ DriveEnds(t) \/ ServeIdle(t) \/ ServeCheck(t) \/ FireNoMore(t)

Closing(t) ==
    \/ SubmitState(t) \/ CancelAll(t) \/ CloseBegin(t) \/ FinishWith(t) \/ Await(t) \/ FreeContext(t) \/ OnClosed(t)

Undisturbed == UNCHANGED <<ctx, req, ready, woken, waiting>> /\ armed' \subseteq Timers

LEMMA AtTop ==
    ASSUME StacksTyped, NEW t \in Threads, NEW pc, At(t, pc)
    PROVE  /\ stack[t] # <<>> /\ Top(t).pc = pc /\ Top(t) \in FrameSet /\ Fit(Top(t))
           /\ Len(stack[t]) \in Nat /\ Len(stack[t]) >= 1 /\ Top(t) = stack[t][1]
<1>1. stack[t] # <<>> /\ Top(t).pc = pc
      BY DEF At
<1> QED  BY <1>1, TopFrame

LEMMA ShutdownSteps ==
    ASSUME Typed, NEW t \in Threads, Shutdown(t)
    PROVE  Quiet(t) /\ Undisturbed
<1>0. StacksTyped /\ armed \subseteq Timers
      BY DEF Typed
<1>a. \A pc \in PlainPcs \ {"take"} : Cold(Frame(pc, None, None))
      BY ColdPlain
<1>b. Cold(EndBusy)
      BY ColdPlain
<1>1. CASE EndBusyStep(t)
  <2>1. stack[t] # <<>> /\ Top(t).pc \notin TurnPcs \union {"claim"}
        BY <1>0, <1>1, AtTop DEF EndBusyStep, TurnPcs
  <2>2. Goto(t, <<Frame("stopState", None, None)>>) \/ Goto(t, <<>>)
        BY <1>1 DEF EndBusyStep
  <2>3. Cold(Frame("stopState", None, None))
        BY <1>a DEF PlainPcs
  <2>4. Quiet(t)
        BY <1>0, <2>1, <2>2, <2>3, QuietGoto1, QuietGoto0
  <2>5. Undisturbed
        BY <1>0, <1>1 DEF EndBusyStep, Undisturbed, schedVars, timerVars, atomics
  <2> QED  BY <2>4, <2>5
<1>2. CASE StopState(t)
  <2>1. stack[t] # <<>> /\ Top(t).pc \notin TurnPcs \union {"claim"}
        BY <1>0, <1>2, AtTop DEF StopState, TurnPcs
  <2>2. Goto(t, <<Frame("stopBusy", None, None)>>) \/ Goto(t, <<>>)
        BY <1>2 DEF StopState
  <2>3. Cold(Frame("stopBusy", None, None))
        BY <1>a DEF PlainPcs
  <2>4. Quiet(t)
        BY <1>0, <2>1, <2>2, <2>3, QuietGoto1, QuietGoto0
  <2>5. Undisturbed
        BY <1>0, <1>2 DEF StopState, Undisturbed, schedVars, timerVars, atomics
  <2> QED  BY <2>4, <2>5
<1>3. CASE StopBusy(t)
  <2>1. stack[t] # <<>> /\ Top(t).pc \notin TurnPcs \union {"claim"}
        BY <1>0, <1>3, AtTop DEF StopBusy, TurnPcs
  <2>2. Goto(t, <<Frame("stopWaiting", None, None)>>) \/ Goto(t, <<>>)
        BY <1>3 DEF StopBusy
  <2>3. Cold(Frame("stopWaiting", None, None))
        BY <1>a DEF PlainPcs
  <2>4. Quiet(t)
        BY <1>0, <2>1, <2>2, <2>3, QuietGoto1, QuietGoto0
  <2>5. Undisturbed
        BY <1>0, <1>3 DEF StopBusy, Undisturbed, schedVars, timerVars, atomics
  <2> QED  BY <2>4, <2>5
<1>4. CASE StopWaiting(t)
  <2>1. stack[t] # <<>> /\ Top(t).pc \notin TurnPcs \union {"claim"}
        BY <1>0, <1>4, AtTop DEF StopWaiting, TurnPcs
  <2>2. Goto(t, <<Frame("stopGate", None, None)>>) \/ Goto(t, <<>>)
        BY <1>4 DEF StopWaiting
  <2>3. Cold(Frame("stopGate", None, None))
        BY <1>a DEF PlainPcs
  <2>4. Quiet(t)
        BY <1>0, <2>1, <2>2, <2>3, QuietGoto1, QuietGoto0
  <2>5. Undisturbed
        BY <1>0, <1>4 DEF StopWaiting, Undisturbed, schedVars, timerVars, atomics
  <2> QED  BY <2>4, <2>5
<1>5. CASE StopGate(t)
  <2>1. stack[t] # <<>> /\ Top(t).pc \notin TurnPcs \union {"claim"}
        BY <1>0, <1>5, AtTop DEF StopGate, TurnPcs
  <2>4. Quiet(t)
        BY <1>0, <1>5, <2>1, QuietGoto0 DEF StopGate, Return
  <2>5. Undisturbed
        BY <1>0, <1>5 DEF StopGate, Undisturbed, schedVars, timerVars, atomics
  <2> QED  BY <2>4, <2>5
<1>6. CASE Retire(t)
  <2>1. stack[t] # <<>> /\ Top(t).pc \notin TurnPcs \union {"claim"}
        BY <1>0, <1>6, AtTop DEF Retire, TurnPcs
  <2>3. Cold(Frame("stopState", None, None))
        BY <1>a DEF PlainPcs
  <2>4. Quiet(t)
        BY <1>0, <1>6, <2>1, <2>3, QuietGoto1 DEF Retire
  <2>5. Undisturbed
        BY <1>0, <1>6 DEF Retire, Undisturbed, schedVars, timerVars, atomics
  <2> QED  BY <2>4, <2>5
<1>7. CASE DriveEnds(t)
  <2>1. stack[t] # <<>> /\ Top(t).pc \notin TurnPcs \union {"claim"}
        BY <1>0, <1>7, AtTop DEF DriveEnds, TurnPcs
  <2>3. Cold(Frame("stopState", None, None))
        BY <1>a DEF PlainPcs
  <2>4. Quiet(t)
        BY <1>0, <1>7, <2>1, <2>3, QuietGoto1 DEF DriveEnds
  <2>5. Undisturbed
        BY <1>0, <1>7 DEF DriveEnds, Undisturbed, schedVars, timerVars, atomics
  <2> QED  BY <2>4, <2>5
<1>8. CASE ServeIdle(t)
  <2>1. stack[t] # <<>> /\ Top(t).pc \notin TurnPcs \union {"claim"}
        BY <1>0, <1>8, AtTop DEF ServeIdle, TurnPcs
  <2>3. Cold(Frame("stopState", None, None)) /\ Cold(Frame("serveCheck", None, None))
        BY <1>a DEF PlainPcs
  <2>4. Quiet(t)
        BY <1>0, <1>8, <2>1, <2>3, QuietGoto2 DEF ServeIdle
  <2>5. Undisturbed
        BY <1>0, <1>8 DEF ServeIdle, Undisturbed, schedVars, timerVars, atomics
  <2> QED  BY <2>4, <2>5
<1>9. CASE ServeCheck(t)
  <2>1. stack[t] # <<>> /\ Top(t).pc \notin TurnPcs \union {"claim"}
        BY <1>0, <1>9, AtTop DEF ServeCheck, TurnPcs
  <2>2. \E pc \in {"exited", "serve"} : Goto(t, <<Frame(pc, None, None)>>)
        BY <1>9 DEF ServeCheck
  <2>3. \A pc \in {"exited", "serve"} : Cold(Frame(pc, None, None))
        BY <1>a DEF PlainPcs
  <2>4. Quiet(t)
        BY <1>0, <2>1, <2>2, <2>3, QuietGoto1
  <2>5. Undisturbed
        BY <1>0, <1>9 DEF ServeCheck, Undisturbed, schedVars, timerVars, atomics
  <2> QED  BY <2>4, <2>5
<1>10. CASE FireNoMore(t)
  <2>1. stack[t] # <<>> /\ Top(t).pc \notin TurnPcs \union {"claim"}
        BY <1>0, <1>10, AtTop DEF FireNoMore, TurnPcs
  <2>4. Quiet(t)
        BY <1>0, <1>10, <1>b, <2>1, QuietGoto1 DEF FireNoMore
  <2>5. Undisturbed
        BY <1>0, <1>10 DEF FireNoMore, Undisturbed, schedVars, timerVars, atomics
  <2> QED  BY <2>4, <2>5
<1> QED  BY <1>1, <1>2, <1>3, <1>4, <1>5, <1>6, <1>7, <1>8, <1>9, <1>10 DEF Shutdown

LEMMA ClosingSteps ==
    ASSUME Typed, NEW t \in Threads, Closing(t)
    PROVE  Quiet(t) /\ Undisturbed
<1>0. StacksTyped /\ armed \subseteq Timers
      BY DEF Typed
<1>1. CASE SubmitState(t)
  <2>1. /\ stack[t] # <<>> /\ Top(t).pc = "submitState" /\ Top(t) \in FrameSet
        BY <1>0, <1>1, AtTop DEF SubmitState
  <2> DEFINE a == [Top(t) EXCEPT !.pc = "submitGate"]
  <2>2. a \in FrameSet /\ a.pc = "submitGate"
        BY <2>1, MovedFrame DEF AboutPcs, UserPcs, Pcs
  <2>3. Cold(a) /\ Cold(EndBusy)
        BY <2>2, ColdPlain DEF Cold, HotPcs, TurnPcs
  <2>4. Goto(t, <<a>>) \/ Goto(t, <<EndBusy>>)
        BY <1>1 DEF SubmitState
  <2>5. Top(t).pc \notin TurnPcs \union {"claim"}
        BY <2>1 DEF TurnPcs
  <2> HIDE DEF a
  <2>6. Quiet(t)
        BY <1>0, <2>1, <2>3, <2>4, <2>5, QuietGoto1
  <2>7. Undisturbed
        BY <1>0, <1>1 DEF SubmitState, Undisturbed, schedVars, timerVars, atomics
  <2> QED  BY <2>6, <2>7
<1>2. ASSUME NEW pc \in {"cancel", "closeBegin", "await"}, NEW to \in {"closeBegin", "closeGate", "free"},
             At(t, pc), Goto(t, <<[Top(t) EXCEPT !.pc = to]>>)
      PROVE  Quiet(t)
  <2>1. /\ stack[t] # <<>> /\ Top(t).pc = pc /\ Top(t) \in FrameSet
        BY <1>0, <1>2, AtTop
  <2> DEFINE a == [Top(t) EXCEPT !.pc = to]
  <2>2. Top(t).pc \in OnCtxPcs /\ to \in OnCtxPcs /\ to \in Pcs
        BY <2>1 DEF OnCtxPcs, Pcs
  <2>3. a \in FrameSet /\ a.pc = to
        BY <2>1, <2>2, MovedFrame
  <2>4. Cold(a)
        BY <2>3 DEF Cold, HotPcs, TurnPcs
  <2>5. Top(t).pc \notin TurnPcs \union {"claim"}
        BY <2>1 DEF TurnPcs
  <2> HIDE DEF a
  <2>6. Goto(t, <<a>>)
        BY <1>2 DEF a
  <2> QED  BY <1>0, <2>1, <2>4, <2>5, <2>6, QuietGoto1
<1>3. CASE CancelAll(t)
  <2>1. At(t, "cancel") /\ Goto(t, <<[Top(t) EXCEPT !.pc = "closeBegin"]>>)
        BY <1>3 DEF CancelAll
  <2>2. Undisturbed
        BY <1>0, <1>3 DEF CancelAll, Undisturbed, schedVars, atomics
  <2> QED  BY <1>2, <2>1, <2>2
<1>4. CASE CloseBegin(t)
  <2>1. At(t, "closeBegin") /\ Goto(t, <<[Top(t) EXCEPT !.pc = "closeGate"]>>)
        BY <1>4 DEF CloseBegin
  <2>2. Undisturbed
        BY <1>0, <1>4 DEF CloseBegin, Undisturbed, schedVars, timerVars
  <2> QED  BY <1>2, <2>1, <2>2
<1>5. CASE Await(t)
  <2>1. At(t, "await") /\ Goto(t, <<[Top(t) EXCEPT !.pc = "free"]>>)
        BY <1>5 DEF Await
  <2>2. Undisturbed
        BY <1>0, <1>5 DEF Await, Undisturbed, schedVars, timerVars, atomics
  <2> QED  BY <1>2, <2>1, <2>2
<1>6. ASSUME NEW pc \in {"finishWith", "free", "hook"}, At(t, pc), Goto(t, <<>>)
      PROVE  Quiet(t)
  <2>1. stack[t] # <<>> /\ Top(t).pc \notin TurnPcs \union {"claim"}
        BY <1>0, <1>6, AtTop DEF TurnPcs
  <2> QED  BY <1>0, <1>6, <2>1, QuietGoto0
<1>7. CASE FinishWith(t)
  <2>1. At(t, "finishWith") /\ Goto(t, <<>>)
        BY <1>7 DEF FinishWith, Return
  <2>2. Undisturbed
        BY <1>0, <1>7 DEF FinishWith, Undisturbed, schedVars, timerVars, atomics
  <2> QED  BY <1>6, <2>1, <2>2
<1>8. CASE FreeContext(t)
  <2>1. At(t, "free") /\ Goto(t, <<>>)
        BY <1>8 DEF FreeContext, Return
  <2>2. Undisturbed
        BY <1>0, <1>8 DEF FreeContext, Undisturbed, schedVars, timerVars, atomics
  <2> QED  BY <1>6, <2>1, <2>2
<1>9. CASE OnClosed(t)
  <2>1. At(t, "hook") /\ Goto(t, <<>>)
        BY <1>9 DEF OnClosed, Return
  <2>2. Undisturbed
        BY <1>0, <1>9 DEF OnClosed, Undisturbed, schedVars, timerVars, atomics
  <2> QED  BY <1>6, <2>1, <2>2
<1> QED  BY <1>1, <1>3, <1>4, <1>5, <1>7, <1>8, <1>9 DEF Closing

LEMMA StartSteps ==
    ASSUME Typed, NEW t \in Threads, StartCall(t)
    PROVE  Quiet(t) /\ Undisturbed
<1>0. StacksTyped /\ armed \subseteq Timers
      BY DEF Typed
<1>a. \A pc \in PlainPcs \ {"take"} : Cold(Frame(pc, None, None))
      BY ColdPlain
<1>1. CASE TryRetainOwner(t)
  <2>1. stack' = stack /\ Undisturbed
        BY <1>0, <1>1 DEF TryRetainOwner, Undisturbed, schedVars, timerVars
  <2> QED  BY <1>0, <2>1, QuietSame
<1>2. CASE ReleaseOwner(t)
  <2>1. Call(t, <<Frame("retire", None, None)>>) \/ stack' = stack
        BY <1>2 DEF ReleaseOwner
  <2>2. Cold(Frame("retire", None, None))
        BY <1>a DEF PlainPcs
  <2>3. Undisturbed
        BY <1>0, <1>2 DEF ReleaseOwner, Undisturbed, schedVars, timerVars
  <2> QED  BY <1>0, <2>1, <2>2, <2>3, QuietSame, QuietCall1
<1>3. ASSUME NEW n \in Seq(FrameSet), Begin(t, n), \A i \in 1..Len(n) : Cold(n[i])
      PROVE  Quiet(t) /\ Undisturbed
  <2>1. Call(t, n) /\ Undisturbed
        BY <1>0, <1>3 DEF Begin, Undisturbed, schedVars, timerVars
  <2> QED  BY <1>0, <1>3, <2>1, QuietCall
<1>4. CASE Serve(t) \/ Help(t)
  <2> DEFINE a == Frame("fire", None, None)
  <2>1. \E b \in {Frame("runNext", None, None), Frame("runNextInternal", None, None)} : Begin(t, <<a, b>>)
        BY <1>4 DEF Serve, Help
  <2>2. Cold(a) /\ \A b \in {Frame("runNext", None, None), Frame("runNextInternal", None, None)} : Cold(b)
        BY <1>a DEF PlainPcs
  <2> HIDE DEF a
  <2>3. PICK b : Begin(t, <<a, b>>) /\ Cold(b)
        BY <2>1, <2>2
  <2>4. <<a, b>> \in Seq(FrameSet) /\ \A i \in 1..Len(<<a, b>>) : <<a, b>>[i] = a \/ <<a, b>>[i] = b
        BY <2>2, <2>3 DEF Cold
  <2>5. \A i \in 1..Len(<<a, b>>) : Cold(<<a, b>>[i])
        BY <2>2, <2>3, <2>4
  <2> QED  BY <1>3, <2>3, <2>4, <2>5
<1>5. CASE Drive(t)
  <2> DEFINE a == Frame("fire", None, None)  b == Frame("runNext", None, None)  e == Frame("drive", None, None)
  <2>1. Begin(t, <<a, b, e>>)
        BY <1>5 DEF Drive
  <2>2. Cold(a) /\ Cold(b) /\ Cold(e)
        BY <1>a DEF PlainPcs
  <2> HIDE DEF a, b, e
  <2>3. /\ <<a, b, e>> \in Seq(FrameSet)
        /\ \A i \in 1..Len(<<a, b, e>>) : <<a, b, e>>[i] = a \/ <<a, b, e>>[i] = b \/ <<a, b, e>>[i] = e
        BY <2>2 DEF Cold
  <2>4. \A i \in 1..Len(<<a, b, e>>) : Cold(<<a, b, e>>[i])
        BY <2>2, <2>3
  <2> QED  BY <1>3, <2>1, <2>3, <2>4
<1>6. ASSUME NEW a, Cold(a), Begin(t, <<a>>)
      PROVE  Quiet(t) /\ Undisturbed
  <2>1. <<a>> \in Seq(FrameSet) /\ \A i \in 1..Len(<<a>>) : <<a>>[i] = a
        BY <1>6 DEF Cold
  <2>2. \A i \in 1..Len(<<a>>) : Cold(<<a>>[i])
        BY <1>6, <2>1
  <2> QED  BY <1>3, <1>6, <2>1, <2>2
<1>7. ASSUME NEW c \in Contexts, NEW r \in Plain, Submit(t, c, r) PROVE Quiet(t) /\ Undisturbed
  <2>1. Begin(t, <<Frame("submitState", c, r)>>) /\ r \in Reqs
        BY <1>7 DEF Submit, Reqs
  <2>2. Cold(Frame("submitState", c, r))
        BY <2>1, ReqFrame DEF Cold, HotPcs, TurnPcs, AboutPcs, UserPcs
  <2> QED  BY <1>6, <2>1, <2>2
<1>8. ASSUME NEW r \in Plain, SubmitInternal(t, r) PROVE Quiet(t) /\ Undisturbed
  <2>1. Begin(t, <<Frame("internalGate", Top(t).ctx, r)>>) /\ r \in Reqs /\ At(t, "turn")
        BY <1>8 DEF SubmitInternal, Reqs
  <2>2. Top(t).ctx \in Contexts
        BY <1>0, <2>1, AtTop DEF Fit, TurnPcs
  <2>3. Cold(Frame("internalGate", Top(t).ctx, r))
        BY <2>1, <2>2, ReqFrame DEF Cold, HotPcs, TurnPcs, AboutPcs
  <2> QED  BY <1>6, <2>1, <2>3
<1>9. ASSUME NEW tm \in Timers, NEW noLater \in BOOLEAN, ArmTimer(t, tm, noLater) PROVE Quiet(t) /\ Undisturbed
  <2>1. stack' = stack /\ Undisturbed
        BY <1>0, <1>9 DEF ArmTimer, Undisturbed, schedVars, atomics
  <2> QED  BY <1>0, <2>1, QuietSame
<1>10. ASSUME NEW tm \in Timers, CancelTimer(t, tm) PROVE Quiet(t) /\ Undisturbed
  <2>1. stack' = stack /\ Undisturbed
        BY <1>0, <1>10 DEF CancelTimer, Undisturbed, schedVars, atomics
  <2> QED  BY <1>0, <2>1, QuietSame
<1>11. ASSUME NEW c \in Deletes, Delete(t, c) PROVE Quiet(t) /\ Undisturbed
  <2>1. Call(t, <<Frame("cancel", c, None)>>) /\ c \in Contexts
        BY <1>11, RuntimeAssumption DEF Delete
  <2>2. Cold(Frame("cancel", c, None))
        BY <2>1, CtxFrame DEF Cold, HotPcs, TurnPcs, OnCtxPcs
  <2>3. Undisturbed
        BY <1>0, <1>11 DEF Delete, Undisturbed, schedVars, timerVars, atomics
  <2> QED  BY <1>0, <2>1, <2>2, <2>3, QuietCall1
<1> QED  BY <1>1, <1>2, <1>4, <1>5, <1>7, <1>8, <1>9, <1>10, <1>11 DEF StartCall

-----------------------------------------------------------------------------
(* What keeps each part of the invariant. *)

LEMMA ContextKept ==
    ASSUME NEW c \in Contexts, ContextSound(c), Same(TurnOf(c)), Same(ClaimOf(c)),
           ctx'[c].exec = ctx[c].exec, ctx'[c].queue # <<>> => ctx[c].queue # <<>> \/ ctx[c].exec # "idle",
           Linked(c)' <=> Linked(c), LinkedOnce(c) => LinkedOnce(c)'
    PROVE  ContextSound(c)'
<1>1. /\ Once(TurnOf(c))' /\ (ctx'[c].exec = "running" <=> Held(TurnOf(c))')
      /\ Once(ClaimOf(c))' /\ (Held(ClaimOf(c))' <=> Held(ClaimOf(c)))
      BY DEF ContextSound, Same
<1> QED  BY <1>1 DEF ContextSound

LEMMA QueueKept ==
    ASSUME NEW c \in Contexts, QueueSound(c), ctx'[c].queue = ctx[c].queue,
           \A i \in 1..Len(ctx[c].queue) :
               LET r == ctx[c].queue[i] IN req'[r].place = req[r].place /\ req'[r].on = req[r].on
    PROVE  QueueSound(c)'
BY DEF QueueSound

(* The queue of the context has what it had. *)
LEMMA RequestKept ==
    ASSUME NEW r \in Reqs, RequestSound(r), req'[r].place = req[r].place, req'[r].on = req[r].on,
           Same(TurnFor(r)), \A c \in Contexts : Held(TurnAt(r, c))' => Held(TurnAt(r, c)),
           req[r].place = "ready" => InQueue(r)'
    PROVE  RequestSound(r)'
<1>1. Once(TurnFor(r))' /\ (req'[r].place = "running" <=> Held(TurnFor(r))')
      BY DEF RequestSound, Same
<1>2. /\ req'[r].place # "new" => req'[r].on \in Contexts
      /\ req'[r].place = "ready" => InQueue(r)'
      BY DEF RequestSound
<1>3. \A c \in Contexts : Held(TurnAt(r, c))' => req'[r].on = c
      BY DEF RequestSound
<1> QED  BY <1>1, <1>2, <1>3 DEF RequestSound

LEMMA WakesKept ==
    ASSUME NEW r \in Reqs, WakesSound(r),
           req'[r].gen = req[r].gen, req'[r].wake = req[r].wake,
           req'[r].place = "waiting" => req[r].place = "waiting",
           Held(WaitFor(r))' => Held(WaitFor(r)), InWait(r)' => req'[r].on = req[r].on,
           \A g \in Nat : <<r, g>> \in woken' <=> <<r, g>> \in woken,
           \A c \in Contexts, g \in Nat : Held(WakeAt(r, c, g))' => Held(WakeAt(r, c, g)), req[r].gen \in Nat
    PROVE  WakesSound(r)'
<1>1. \A g \in Nat : <<r, g>> \in woken' => g <= req'[r].gen
      BY DEF WakesSound
<1>2. InWait(r)' => InWait(r)
      BY DEF InWait
<1>3. ASSUME NEW c \in Contexts, NEW g \in Nat, Held(WakeAt(r, c, g))'
      PROVE  g <= req'[r].gen /\ (g = req'[r].gen /\ InWait(r)' => req'[r].on = c)
  <2>1. Held(WakeAt(r, c, g))
        BY <1>3
  <2> QED  BY <1>2, <2>1 DEF WakesSound
<1>4. Held(WaitFor(r))' /\ <<r, req'[r].gen>> \in woken' => req'[r].wake
      BY DEF WakesSound
<1>5. req'[r].place = "waiting" => <<r, req'[r].gen>> \notin woken'
      BY DEF WakesSound
<1> QED  BY <1>1, <1>3, <1>4, <1>5 DEF WakesSound

(* The requests are where they were. *)
SamePlaces == \A r \in Reqs : /\ req'[r].place = req[r].place /\ req'[r].on = req[r].on
                              /\ req'[r].internal = req[r].internal

LEMMA CountedKept ==
    ASSUME Counted, SamePlaces, waiting' = waiting,
           \A c \in Contexts : ctx'[c].pending = ctx[c].pending /\ ctx'[c].waiting = ctx[c].waiting
    PROVE  Counted'
<1>1. WaitingReqs' = WaitingReqs /\ \A c \in Contexts : ExternalOn(c)' = ExternalOn(c) /\ WaitingOn(c)' = WaitingOn(c)
      BY DEF SamePlaces, WaitingReqs, ExternalOn, WaitingOn
<1> QED  BY <1>1 DEF Counted

(* Nobody gets or loses a turn or a claim. *)
Still ==
    /\ StacksTyped' /\ Below'
    /\ \A c : Same(TurnOf(c)) /\ Same(ClaimOf(c))
    /\ \A r : Same(TurnFor(r)) /\ \A c : Same(TurnAt(r, c))

(* Nobody prepares to wait, or begins to wake. *)
NoNewWaits(r) == Held(WaitFor(r))' => Held(WaitFor(r))
NoNewWakes(r) == \A c, g : Held(WakeAt(r, c, g))' => Held(WakeAt(r, c, g))

LEMMA QuietStill ==
    ASSUME StacksTyped, Below, NEW t \in Threads, Quiet(t)
    PROVE  Still /\ \A r : NoNewWaits(r) /\ NoNewWakes(r)
<1>0. StacksTyped' /\ Below'
      BY QuietTyped
<1>1. ASSUME NEW c PROVE Same(TurnOf(c)) /\ Same(ClaimOf(c))
      BY FollowedSets, QuietHeld
<1>2. ASSUME NEW r PROVE Same(TurnFor(r)) /\ NoNewWaits(r)
      BY FollowedSets, QuietHeld DEF Same, NoNewWaits
<1>3. ASSUME NEW r, NEW c PROVE Same(TurnAt(r, c))
      BY FollowedSets, QuietHeld
<1>4. ASSUME NEW r PROVE NoNewWakes(r)
      BY QuietWakes DEF NoNewWakes
<1> QED  BY <1>0, <1>1, <1>2, <1>3, <1>4 DEF Still

(* Such a step, when it leaves the requests where they are, and of the      *)
(* contexts what scheduling them is about.                                  *)
LEMMA StillInvariant ==
    ASSUME RInv, Still, UNCHANGED <<ready, waiting>>, armed' \subseteq Timers, req' \in [Reqs -> ReqT], SamePlaces,
           woken' \subseteq Reqs \X Nat, \A r \in Reqs : WakesSound(r)', ctx' \in [Contexts -> CtxT],
           \A c \in Contexts : /\ ctx'[c].exec = ctx[c].exec /\ ctx'[c].queue = ctx[c].queue
                               /\ ctx'[c].pending = ctx[c].pending /\ ctx'[c].waiting = ctx[c].waiting
    PROVE  RInv'
<1>0. Typed
      BY DEF RInv
<1>1. /\ StacksTyped' /\ Below' /\ \A c : Same(TurnOf(c)) /\ Same(ClaimOf(c))
      /\ \A r : Same(TurnFor(r)) /\ \A c : Same(TurnAt(r, c))
      BY DEF Still
<1>2. Typed'
      BY <1>0, <1>1 DEF Typed
<1>4. ASSUME NEW c \in Contexts PROVE ContextSound(c)' /\ QueueSound(c)'
  <2>1. ContextSound(c) /\ QueueSound(c)
        BY DEF RInv, ContextsSound, RequestsSound
  <2>2. (Linked(c)' <=> Linked(c)) /\ (LinkedOnce(c) => LinkedOnce(c)')
        BY DEF Linked, LinkedOnce
  <2>3. ContextSound(c)'
        BY <1>1, <2>1, <2>2, ContextKept
  <2>4. QueueSound(c)'
    <3>1. ctx[c].queue \in Seq(Reqs)
          BY <1>0 DEF Typed, CtxT
    <3>2. \A i \in 1..Len(ctx[c].queue) : ctx[c].queue[i] \in Reqs
          BY <3>1, ElementOfSeq
    <3> QED  BY <2>1, <3>2, QueueKept DEF SamePlaces
  <2> QED  BY <2>3, <2>4
<1>5. ASSUME NEW r \in Reqs PROVE RequestSound(r)'
  <2>0. req'[r].place = req[r].place /\ req'[r].on = req[r].on
        BY DEF SamePlaces
  <2>1. RequestSound(r)
        BY DEF RInv, RequestsSound
  <2>2. Same(TurnFor(r)) /\ \A c : Same(TurnAt(r, c))
        BY <1>1
  <2>3. \A c \in Contexts : Held(TurnAt(r, c))' => Held(TurnAt(r, c))
        BY <2>2 DEF Same
  <2>4. req[r].place = "ready" => InQueue(r)'
    <3>1. SUFFICES ASSUME req[r].place = "ready" PROVE InQueue(r)'
          OBVIOUS
    <3>2. InQueue(r) /\ req[r].on \in Contexts
          BY <2>1, <3>1 DEF RequestSound
    <3> QED  BY <2>0, <3>2 DEF InQueue
  <2> QED  BY <2>0, <2>1, <2>2, <2>3, <2>4, RequestKept
<1>6. Counted'
      BY CountedKept DEF RInv
<1> QED  BY <1>2, <1>4, <1>5, <1>6 DEF RInv, ContextsSound, RequestsSound

(* The wakes of a request that the step does not touch. *)
LEMMA StillWakes ==
    ASSUME RInv, NEW r \in Reqs, NoNewWaits(r), NoNewWakes(r), req'[r] = req[r],
           \A g \in Nat : <<r, g>> \in woken' <=> <<r, g>> \in woken
    PROVE  WakesSound(r)'
<1>1. WakesSound(r) /\ req[r].gen \in Nat
      BY DEF RInv, RequestsSound, Typed, ReqT
<1>2. \A c \in Contexts, g \in Nat : Held(WakeAt(r, c, g))' => Held(WakeAt(r, c, g))
      BY DEF NoNewWakes
<1>3. Held(WaitFor(r))' => Held(WaitFor(r))
      BY DEF NoNewWaits
<1> QED  BY <1>1, <1>2, <1>3, WakesKept

LEMMA UndisturbedInvariant ==
    ASSUME RInv, Still, \A r : NoNewWaits(r) /\ NoNewWakes(r), Undisturbed
    PROVE  RInv'
<1>1. UNCHANGED <<req, ready, woken, waiting>> /\ armed' \subseteq Timers /\ ctx' = ctx
      BY DEF Undisturbed
<1>2. ctx' \in [Contexts -> CtxT] /\ woken' \subseteq Reqs \X Nat /\ req' \in [Reqs -> ReqT] /\ SamePlaces
      BY <1>1 DEF RInv, Typed, SamePlaces
<1>3. \A c \in Contexts : /\ ctx'[c].exec = ctx[c].exec /\ ctx'[c].queue = ctx[c].queue
                          /\ ctx'[c].pending = ctx[c].pending /\ ctx'[c].waiting = ctx[c].waiting
      BY <1>1
<1>4. ASSUME NEW r \in Reqs PROVE WakesSound(r)'
      BY <1>1, StillWakes
<1> QED  BY <1>1, <1>2, <1>3, <1>4, StillInvariant

LEMMA QuietInvariant ==
    ASSUME RInv, NEW t \in Threads, Quiet(t), Undisturbed
    PROVE  RInv'
<1>1. StacksTyped /\ Below
      BY DEF RInv, Typed
<1> QED  BY <1>1, QuietStill, UndisturbedInvariant

(* A fire begins and ends. *)
LEMMA FiringSteps ==
    ASSUME RInv, NEW t \in Threads, Fire(t) \/ EndFire(t)
    PROVE  RInv'
<1>0. Typed /\ StacksTyped /\ Below /\ ctx \in [Contexts -> CtxT] /\ armed \subseteq Timers /\ woken \subseteq Reqs \X Nat
      BY DEF RInv, Typed
<1>1. ASSUME Quiet(t), UNCHANGED <<req, ready, woken, waiting>>, armed' \subseteq Timers, NEW c \in Contexts, NEW y \in CtxT,
             ctx' = [ctx EXCEPT ![c] = y], y.exec = ctx[c].exec, y.queue = ctx[c].queue,
             y.pending = ctx[c].pending, y.waiting = ctx[c].waiting
      PROVE  RInv'
  <2>1. Still /\ \A r : NoNewWaits(r) /\ NoNewWakes(r)
        BY <1>0, <1>1, QuietStill
  <2>2. ctx' \in [Contexts -> CtxT]
        BY <1>0, <1>1
  <2>3. \A e \in Contexts : /\ ctx'[e].exec = ctx[e].exec /\ ctx'[e].queue = ctx[e].queue
                            /\ ctx'[e].pending = ctx[e].pending /\ ctx'[e].waiting = ctx[e].waiting
        BY <1>0, <1>1
  <2>4. ASSUME NEW r \in Reqs PROVE WakesSound(r)'
        BY <1>1, <2>1, StillWakes
  <2>5. req' \in [Reqs -> ReqT] /\ SamePlaces
        BY <1>1 DEF RInv, Typed, SamePlaces
  <2> QED  BY <1>0, <1>1, <2>1, <2>2, <2>3, <2>4, <2>5, StillInvariant
<1>2. CASE Fire(t)
  <2>1. PICK tm \in armed : /\ armed' = armed \ {tm} /\ ctx' = [ctx EXCEPT ![Home[tm]].firing = @ + 1]
                            /\ Call(t, <<Frame("fireSubmit", Home[tm], tm)>>)
                            /\ UNCHANGED <<req, ready, waiting, woken>>
        BY <1>2 DEF Fire, atomics
  <2>2. tm \in Timers /\ Home[tm] \in Contexts
        BY <1>0, RuntimeAssumption
  <2>3. Quiet(t)
        BY <1>0, <2>1, <2>2, FireFrame, QuietCall1
  <2> DEFINE c == Home[tm]  y == [ctx[c] EXCEPT !.firing = @ + 1]
  <2>4. ctx[c] \in CtxT
        BY <1>0, <2>2
  <2>5. /\ y \in CtxT /\ y.exec = ctx[c].exec /\ y.queue = ctx[c].queue
        /\ y.pending = ctx[c].pending /\ y.waiting = ctx[c].waiting
        BY <2>4 DEF CtxT
  <2>6. ctx' = [ctx EXCEPT ![c] = y]
        BY <2>1
  <2> HIDE DEF y, c
  <2>7. armed' \subseteq Timers /\ c \in Contexts
        BY <1>0, <2>1, <2>2 DEF c
  <2> QED  BY <1>1, <2>1, <2>3, <2>5, <2>6, <2>7
<1>3. CASE EndFire(t)
  <2> DEFINE c == Top(t).ctx  x == [ctx[c] EXCEPT !.firing = @ - 1]
  <2>1. /\ At(t, "endFire") /\ ctx' = [ctx EXCEPT ![c] = CloseIfDrained(x)]
        /\ Goto(t, HookFrames(c, x)) /\ UNCHANGED <<req, ready, armed, waiting, woken>>
        BY <1>3 DEF EndFire, timerVars, atomics
  <2>2. stack[t] # <<>> /\ Top(t).pc = "endFire" /\ Fit(Top(t))
        BY <1>0, <2>1, AtTop
  <2>3. c \in Contexts /\ Top(t).pc \notin TurnPcs \union {"claim"}
        BY <2>2, RuntimeAssumption DEF Fit, TurnPcs
  <2>4. ctx[c] \in CtxT
        BY <1>0, <2>3
  <2>5. /\ x \in CtxT /\ x.exec = ctx[c].exec /\ x.queue = ctx[c].queue
        /\ x.pending = ctx[c].pending /\ x.waiting = ctx[c].waiting
        BY <2>4 DEF CtxT
  <2> HIDE DEF x, c
  <2>6. Cold(Frame("hook", c, None))
        BY <2>3, CtxFrame DEF Cold, HotPcs, TurnPcs, OnCtxPcs
  <2>7. Goto(t, <<>>) \/ Goto(t, <<Frame("hook", c, None)>>)
        BY <2>1 DEF HookFrames
  <2>8. Quiet(t)
        BY <1>0, <2>2, <2>3, <2>6, <2>7, QuietGoto0, QuietGoto1
  <2> DEFINE y == CloseIfDrained(x)
  <2>9. /\ y \in CtxT /\ y.exec = ctx[c].exec /\ y.queue = ctx[c].queue
        /\ y.pending = ctx[c].pending /\ y.waiting = ctx[c].waiting
        BY <2>5, CloseFacts
  <2>10. ctx' = [ctx EXCEPT ![c] = y]
        BY <2>1
  <2> HIDE DEF y
  <2>11. armed' \subseteq Timers
        BY <1>0, <2>1
  <2> QED  BY <1>1, <2>1, <2>3, <2>8, <2>9, <2>10, <2>11
<1> QED  BY <1>2, <1>3

(* A thread begins to look for a ready context. *)
LEMMA RunNextStep ==
    ASSUME RInv, NEW t \in Threads, RunNext(t)
    PROVE  RInv'
<1>0. StacksTyped /\ Below /\ armed \subseteq Timers
      BY DEF RInv, Typed
<1> DEFINE a == Frame("take", None, None)  n == <<a>>
<1>1. PICK pc \in RunPcs : At(t, pc)
      BY DEF RunNext, RunPcs
<1>2. Call(t, n) /\ Undisturbed
      BY <1>0 DEF RunNext, Begin, Undisturbed, schedVars, timerVars
<1>3. a \in FrameSet /\ a.pc = "take"
      BY PlainFrame DEF PlainPcs
<1> HIDE DEF a
<1>4. n \in Seq(FrameSet) /\ Len(n) = 1 /\ n[1] = a
      BY <1>3
<1> HIDE DEF n
<1>5. Moved(t, n, 0)
      BY <1>0, <1>2, <1>4, CallMoves
<1>6. Len(stack[t]) >= 1 /\ Len(stack[t]) \in Nat /\ stack[t][0 + 1].pc \in RunPcs
      BY <1>0, <1>1, AtTop
<1>7. \A i \in 1..Len(n) : i = Len(n) /\ 0 < Len(stack[t]) /\ stack[t][0 + 1].pc \in RunPcs
      BY <1>4, <1>6
<1>8. StacksTyped' /\ Below'
      BY <1>0, <1>5, <1>7, BelowKept DEF Moved, StacksTyped
<1>9. ASSUME NEW S, S \subseteq Followed PROVE Same(S)
  <2>1. \A i \in 1..Len(n) : n[i] \notin S
        BY <1>3, <1>4, <1>9 DEF Followed, TurnPcs
  <2>2. \A i \in 1..0 : stack[t][i] \notin S
        OBVIOUS
  <2> QED  BY <1>0, <1>5, <2>1, <2>2, HeldKept DEF Same
<1>10. ASSUME NEW r PROVE NoNewWaits(r) /\ NoNewWakes(r)
  <2>3. Same(WaitFor(r))
        BY <1>9, FollowedSets
  <2> SUFFICES ASSUME NEW c, NEW g PROVE Held(WakeAt(r, c, g))' => Held(WakeAt(r, c, g))
      BY <2>3 DEF NoNewWakes, NoNewWaits, Same
  <2> DEFINE S == WakeAt(r, c, g)
  <2>1. \A i \in 1..Len(n) : n[i] \notin S
        BY <1>3, <1>4 DEF WakeAt
  <2> HIDE DEF S
  <2>2. Held(S)' => Held(S)
        BY <1>0, <1>5, <2>1, HeldNotNew
  <2> QED  BY <2>2 DEF S
<1>11. Still
      BY <1>8, <1>9, FollowedSets DEF Still
<1> QED  BY <1>2, <1>10, <1>11, UndisturbedInvariant

(* A frame is replaced by one that is in the same sets. *)
LEMMA SamePassed ==
    ASSUME StacksTyped, NEW t \in Threads, stack[t] # <<>>, NEW b, Moved(t, <<b>>, 1), NEW S, Top(t) \in S <=> b \in S
    PROVE  Same(S)
<1> DEFINE n == <<b>>
<1>1. Len(n) = 1 /\ n[1] = b /\ Moved(t, n, 1)
      OBVIOUS
<1> HIDE DEF n
<1>2. Top(t) = stack[t][1] /\ Len(stack[t]) \in Nat /\ Len(stack[t]) >= 1
      BY TopFrame
<1>3. CASE b \notin S
  <2>1. (\A i \in 1..1 : stack[t][i] \notin S) /\ \A i \in 1..Len(n) : n[i] \notin S
        BY <1>1, <1>2, <1>3
  <2> QED  BY <1>1, <2>1, HeldKept DEF Same
<1>4. CASE b \in S
  <2>1. 1 \in 1..1 /\ stack[t][1] \in S /\ 1 \in 1..Len(n) /\ n[1] \in S /\ \A i \in 1..Len(n) : n[i] \in S => i = 1
        BY <1>1, <1>2, <1>4
  <2>2. Once(S) => Once(S)'
        BY <1>1, <2>1, HeldPassed
  <2>3. Held(S)
    <3>1. 1 \in 1..Len(stack[t])
          BY <1>2
    <3> QED  BY <2>1, <3>1 DEF Held
  <2>4. Held(S)'
    <3>1. Len(stack'[t]) = Len(n) + Len(stack[t]) - 1 /\ stack'[t][1] = n[1]
          BY <1>1, <2>1 DEF Moved
    <3>2. 1 \in 1..Len(stack'[t])
          BY <1>1, <1>2, <3>1
    <3> QED  BY <2>1, <3>1, <3>2 DEF Held
  <2> QED  BY <2>2, <2>3, <2>4 DEF Same
<1> QED  BY <1>3, <1>4

(* The turn of f goes on at pc. *)
LEMMA TurnGoesOn ==
    ASSUME StacksTyped, Below, NEW t \in Threads, stack[t] # <<>>, Top(t).pc \in TurnPcs, NEW pc \in TurnPcs,
           Goto(t, <<[Top(t) EXCEPT !.pc = pc]>>)
    PROVE  /\ Still /\ \A r : NoNewWakes(r)
           /\ \A r : r # Top(t).req \/ pc # "waits" => NoNewWaits(r)
<1> DEFINE b == [Top(t) EXCEPT !.pc = pc]  n == <<b>>
<1>1. Top(t) \in FrameSet /\ Top(t) = stack[t][1] /\ Len(stack[t]) \in Nat /\ Len(stack[t]) >= 1
      BY TopFrame
<1>2. b \in FrameSet /\ b.pc = pc /\ b.ctx = Top(t).ctx /\ b.req = Top(t).req
      BY <1>1, MovedFrame DEF AboutPcs, Pcs
<1>3. Goto(t, n)
      OBVIOUS
<1> HIDE DEF b
<1>4. n \in Seq(FrameSet) /\ Len(n) = 1 /\ n[1] = b
      BY <1>2
<1>5. Moved(t, n, 1)
      BY <1>3, <1>4, GotoMoves
<1>6. \A i \in 1..Len(n) : n[i].pc \notin {"take", "claim"}
      BY <1>2, <1>4 DEF TurnPcs
<1>7. StacksTyped' /\ Below'
      BY <1>5, <1>6, BelowKept DEF Moved, StacksTyped
<1>8. ASSUME NEW S, Top(t) \in S <=> b \in S PROVE Same(S)
      BY <1>5, <1>8, SamePassed
<1>9. ASSUME NEW c PROVE Same(TurnOf(c)) /\ Same(ClaimOf(c))
      BY <1>1, <1>2, <1>8 DEF TurnOf, ClaimOf, TurnPcs
<1>10. ASSUME NEW r PROVE Same(TurnFor(r))
      BY <1>1, <1>2, <1>8 DEF TurnFor
<1>11. ASSUME NEW r, NEW c PROVE Same(TurnAt(r, c))
      BY <1>1, <1>2, <1>8 DEF TurnAt
<1>12. ASSUME NEW r, r # Top(t).req \/ pc # "waits" PROVE NoNewWaits(r)
  <2> DEFINE S == WaitFor(r)
  <2>1. \A i \in 1..Len(n) : n[i] \notin S
        BY <1>2, <1>4, <1>12 DEF WaitFor
  <2> HIDE DEF S, n
  <2>2. Held(S)' => Held(S)
        BY <1>5, <2>1, HeldNotNew
  <2> QED  BY <2>2 DEF S, NoNewWaits
<1>13. ASSUME NEW r PROVE NoNewWakes(r)
  <2> SUFFICES ASSUME NEW c, NEW g PROVE Held(WakeAt(r, c, g))' => Held(WakeAt(r, c, g))
      BY DEF NoNewWakes
  <2> DEFINE S == WakeAt(r, c, g)
  <2>1. \A i \in 1..Len(n) : n[i] \notin S
        BY <1>2, <1>4 DEF WakeAt, TurnPcs
  <2> HIDE DEF S, n
  <2>2. Held(S)' => Held(S)
        BY <1>5, <2>1, HeldNotNew
  <2> QED  BY <2>2 DEF S
<1> QED  BY <1>7, <1>9, <1>10, <1>11, <1>12, <1>13 DEF Still

(* The turn of a fire. *)
LEMMA FireTurnSteps ==
    ASSUME RInv, NEW t \in Threads, TimerRun(t) \/ CallbackReturns(t) \/ TimerEnd(t)
    PROVE  RInv'
<1>0. StacksTyped /\ Below /\ armed \subseteq Timers
      BY DEF RInv, Typed
<1>1. Undisturbed
      BY <1>0 DEF TimerRun, CallbackReturns, TimerEnd, Undisturbed, schedVars, timerVars, atomics
<1>2. PICK pc \in {"timerRun", "callback", "timerEnd"} : At(t, pc)
      BY DEF TimerRun, CallbackReturns, TimerEnd
<1>3. PICK to \in {"callback", "timerEnd", "finishYield", "finishDone"} : Goto(t, <<[Top(t) EXCEPT !.pc = to]>>)
  <2>1. CASE TimerRun(t)
    <3>1. CASE timer[Top(t).req].gen = timer[Top(t).req].fireGen
          BY <2>1, <3>1 DEF TimerRun
    <3>2. CASE timer[Top(t).req].gen # timer[Top(t).req].fireGen
          BY <2>1, <3>2 DEF TimerRun
    <3> QED  BY <3>1, <3>2
  <2>2. CASE CallbackReturns(t)
        BY <2>2 DEF CallbackReturns
  <2>3. CASE TimerEnd(t)
    <3>1. CASE timer[Top(t).req].firePending
          BY <2>3, <3>1 DEF TimerEnd
    <3>2. CASE ~timer[Top(t).req].firePending
          BY <2>3, <3>2 DEF TimerEnd
    <3> QED  BY <3>1, <3>2
  <2> QED  BY <2>1, <2>2, <2>3
<1>4. stack[t] # <<>> /\ Top(t).pc \in TurnPcs /\ Top(t).pc # "waits" /\ to \in TurnPcs /\ to # "waits"
      BY <1>0, <1>2, AtTop DEF TurnPcs
<1>5. Still /\ \A r : NoNewWaits(r) /\ NoNewWakes(r)
      BY <1>0, <1>3, <1>4, TurnGoesOn
<1> QED  BY <1>1, <1>5, UndisturbedInvariant

(* A turn that is on top of a stack. *)
LEMMA TopTurn ==
    ASSUME RInv, NEW t \in Threads, stack[t] # <<>>, Top(t).pc \in TurnPcs
    PROVE  /\ Top(t) \in FrameSet /\ Top(t).ctx \in Contexts /\ Top(t).req \in Reqs
           /\ ctx[Top(t).ctx].exec = "running" /\ req[Top(t).req].place = "running" /\ req[Top(t).req].on = Top(t).ctx
           /\ Top(t).pc = "waits" => Held(WaitFor(Top(t).req))
<1>0. StacksTyped
      BY DEF RInv, Typed
<1>1. Top(t) \in FrameSet /\ Top(t) = stack[t][1] /\ 1 \in 1..Len(stack[t]) /\ Fit(Top(t))
      BY <1>0, TopFrame
<1> DEFINE c == Top(t).ctx  r == Top(t).req
<1>2. c \in Contexts /\ r \in Reqs
      BY <1>1 DEF Fit
<1>3. Top(t) \in TurnAt(r, c) /\ Top(t) \in TurnFor(r) /\ Top(t) \in TurnOf(c)
      BY <1>1 DEF TurnAt, TurnFor, TurnOf
<1>4. Held(TurnAt(r, c)) /\ Held(TurnFor(r)) /\ Held(TurnOf(c))
      BY <1>1, <1>3 DEF Held
<1>5. Top(t).pc = "waits" => Held(WaitFor(r))
      BY <1>1 DEF Held, WaitFor
<1>6. ContextSound(c) /\ RequestSound(r)
      BY <1>2 DEF RInv, ContextsSound, RequestsSound
<1>7. ctx[c].exec = "running"
      BY <1>4, <1>6 DEF ContextSound
<1>8. req[r].place = "running" /\ req[r].on = c
      BY <1>2, <1>4, <1>6 DEF RequestSound
<1> QED  BY <1>1, <1>2, <1>5, <1>7, <1>8

(* Changing one field of a request. *)
LEMMA PlaceField ==
    ASSUME NEW q \in ReqT, NEW p \in {"new", "ready", "running", "waiting", "done"}
    PROVE  LET y == [q EXCEPT !.place = p]
           IN  y \in ReqT /\ y.place = p /\ y.on = q.on /\ y.gen = q.gen /\ y.wake = q.wake /\ y.internal = q.internal
BY DEF ReqT

LEMMA OnField ==
    ASSUME NEW q \in ReqT, NEW c \in Contexts
    PROVE  LET y == [q EXCEPT !.on = c]
           IN  y \in ReqT /\ y.place = q.place /\ y.on = c /\ y.gen = q.gen /\ y.wake = q.wake /\ y.internal = q.internal
BY DEF ReqT

LEMMA GenField ==
    ASSUME NEW q \in ReqT
    PROVE  LET y == [q EXCEPT !.gen = @ + 1]
           IN  /\ y \in ReqT /\ y.place = q.place /\ y.on = q.on /\ y.gen = q.gen + 1 /\ y.wake = q.wake
               /\ y.internal = q.internal
BY DEF ReqT

LEMMA WakeField ==
    ASSUME NEW q \in ReqT, NEW w \in BOOLEAN
    PROVE  LET y == [q EXCEPT !.wake = w]
           IN  y \in ReqT /\ y.place = q.place /\ y.on = q.on /\ y.gen = q.gen /\ y.wake = w /\ y.internal = q.internal
BY DEF ReqT

LEMMA InternalField ==
    ASSUME NEW q \in ReqT, NEW b \in BOOLEAN
    PROVE  LET y == [q EXCEPT !.internal = b]
           IN  y \in ReqT /\ y.place = q.place /\ y.on = q.on /\ y.gen = q.gen /\ y.wake = q.wake /\ y.internal = b
BY DEF ReqT

LEMMA PrepareWaitStep ==
    ASSUME RInv, NEW t \in Threads, PrepareWait(t)
    PROVE  RInv'
<1>0. StacksTyped /\ Below /\ armed \subseteq Timers /\ req \in [Reqs -> ReqT] /\ woken \subseteq Reqs \X Nat
      BY DEF RInv, Typed
<1> PICK r : r = Top(t).req
    OBVIOUS
<1>1. /\ At(t, "turn") /\ req' = [req EXCEPT ![r].gen = @ + 1, ![r].wake = FALSE]
      /\ Goto(t, <<[Top(t) EXCEPT !.pc = "waits"]>>) /\ UNCHANGED <<ctx, ready, armed, waiting, woken>>
      BY DEF PrepareWait, timerVars, atomics
<1>2. stack[t] # <<>> /\ Top(t).pc \in TurnPcs /\ "waits" \in TurnPcs
      BY <1>0, <1>1, AtTop DEF TurnPcs
<1>3. /\ Still /\ \A q : NoNewWakes(q)
      /\ \A q : q # r => NoNewWaits(q)
      BY <1>0, <1>1, <1>2, TurnGoesOn
<1>4. r \in Reqs /\ req[r].place = "running"
      BY <1>2, TopTurn
<1>5. req[r] \in ReqT
      BY <1>0, <1>4
<1>6. req'[r] = [req[r] EXCEPT !.gen = @ + 1, !.wake = FALSE] /\ \A q \in Reqs : q # r => req'[q] = req[q]
      BY <1>0, <1>1, <1>4
<1>7. /\ req'[r] \in ReqT /\ req'[r].place = req[r].place /\ req'[r].on = req[r].on
      /\ req'[r].internal = req[r].internal /\ req'[r].gen = req[r].gen + 1
  <2>1. \E w \in BOOLEAN : req'[r] = [req[r] EXCEPT !.gen = @ + 1, !.wake = w]
        BY <1>6
  <2>2. PICK w \in BOOLEAN : req'[r] = [req[r] EXCEPT !.gen = @ + 1, !.wake = w]
        BY <2>1
  <2> DEFINE y == [req[r] EXCEPT !.gen = @ + 1]
  <2>3. y \in ReqT /\ y.place = req[r].place /\ y.on = req[r].on /\ y.gen = req[r].gen + 1 /\ y.internal = req[r].internal
        BY <1>5, GenField
  <2>4. req'[r] = [y EXCEPT !.wake = w]
        BY <2>2
  <2> HIDE DEF y
  <2> DEFINE z == [y EXCEPT !.wake = w]
  <2>5. z \in ReqT /\ z.place = y.place /\ z.on = y.on /\ z.gen = y.gen /\ z.internal = y.internal
        BY <2>3, WakeField
  <2> HIDE DEF z
  <2>6. req'[r] = z
        BY <2>4 DEF z
  <2> QED  BY <2>3, <2>5, <2>6
<1>8. req' \in [Reqs -> ReqT]
  <2>1. \A q \in Reqs : req'[q] \in ReqT
        BY <1>0, <1>6, <1>7
  <2>2. DOMAIN req' = Reqs /\ req' = [q \in DOMAIN req' |-> req'[q]]
        BY <1>0, <1>1
  <2> QED  BY <2>1, <2>2
<1>9. SamePlaces
      BY <1>6, <1>7 DEF SamePlaces
<1>10. WakesSound(r)'
  <2>1. WakesSound(r) /\ req[r].gen \in Nat
        BY <1>4, <1>5 DEF RInv, RequestsSound, ReqT
  <2>2. \A g \in Nat : <<r, g>> \in woken' => g <= req[r].gen
        BY <1>1, <2>1 DEF WakesSound
  <2>3. ASSUME NEW c \in Contexts, NEW g \in Nat, Held(WakeAt(r, c, g))' PROVE g <= req[r].gen
    <3>1. Held(WakeAt(r, c, g))
          BY <1>3, <2>3 DEF NoNewWakes
    <3> QED  BY <2>1, <3>1 DEF WakesSound
  <2>4. \A g \in Nat : g <= req[r].gen => g <= req'[r].gen /\ g # req'[r].gen
        BY <1>7, <2>1
  <2>5. req'[r].gen \in Nat /\ <<r, req'[r].gen>> \notin woken'
        BY <1>7, <2>1, <2>2
  <2>6. req'[r].place # "waiting"
        BY <1>4, <1>7
  <2>7. \A g \in Nat : <<r, g>> \in woken' => g <= req'[r].gen
        BY <2>2, <2>4
  <2>8. \A c \in Contexts, g \in Nat : Held(WakeAt(r, c, g))' => g <= req'[r].gen /\ g # req'[r].gen
        BY <2>3, <2>4
  <2> QED  BY <2>5, <2>6, <2>7, <2>8 DEF WakesSound
<1>11. ASSUME NEW q \in Reqs PROVE WakesSound(q)'
  <2>1. CASE q = r
        BY <1>10, <2>1
  <2>2. CASE q # r
        BY <1>1, <1>3, <1>6, <2>2, StillWakes
  <2> QED  BY <2>1, <2>2
<1>12. ctx' \in [Contexts -> CtxT] /\ \A c \in Contexts : /\ ctx'[c].exec = ctx[c].exec /\ ctx'[c].queue = ctx[c].queue
                                     /\ ctx'[c].pending = ctx[c].pending /\ ctx'[c].waiting = ctx[c].waiting
      BY <1>1 DEF RInv, Typed
<1>13. armed' \subseteq Timers /\ woken' \subseteq Reqs \X Nat
      BY <1>0, <1>1
<1> QED  BY <1>1, <1>3, <1>8, <1>9, <1>11, <1>12, <1>13, StillInvariant

(* A wake begins: its token is not beyond the generation of the request. *)
LEMMA WakeRequestStep ==
    ASSUME RInv, NEW t \in Threads, NEW r \in Plain, NEW gen \in 1..req[r].gen, WakeRequest(t, r, gen)
    PROVE  RInv'
<1>0. StacksTyped /\ Below /\ armed \subseteq Timers /\ req \in [Reqs -> ReqT] /\ woken \subseteq Reqs \X Nat
      BY DEF RInv, Typed
<1>1. r \in Reqs /\ req[r] \in ReqT
      BY <1>0 DEF Reqs
<1> DEFINE c == req[r].on  b == Frame("wakeGate", c, r)  a == [b EXCEPT !.gen = gen]  n == <<a>>
<1>2. Call(t, n) /\ UNCHANGED <<ctx, req, ready, armed, waiting, woken>> /\ c # None
      BY DEF WakeRequest, Begin, schedVars, timerVars
<1>3. c \in Contexts /\ gen \in Nat /\ gen <= req[r].gen /\ req[r].gen \in Nat
      BY <1>1, <1>2 DEF ReqT
<1>4. b \in FrameSet /\ b.pc = "wakeGate" /\ b.ctx = c /\ b.req = r
      BY <1>1, <1>3, ReqFrame DEF AboutPcs, UserPcs
<1> HIDE DEF b
<1>5. a \in FrameSet /\ a.pc = "wakeGate" /\ a.ctx = c /\ a.req = r /\ a.gen = gen
      BY <1>3, <1>4 DEF FrameSet, Fit
<1> HIDE DEF a
<1>6. n \in Seq(FrameSet) /\ Len(n) = 1 /\ n[1] = a
      BY <1>5
<1> HIDE DEF n
<1>7. Moved(t, n, 0)
      BY <1>0, <1>2, <1>6, CallMoves
<1>8. StacksTyped' /\ Below'
  <2>1. \A i \in 1..Len(n) : n[i].pc \notin {"take", "claim"}
        BY <1>5, <1>6
  <2> QED  BY <1>0, <1>7, <2>1, BelowKept DEF Moved, StacksTyped
<1>9. ASSUME NEW S, S \subseteq Followed PROVE Same(S)
  <2>1. \A i \in 1..Len(n) : n[i] \notin S
        BY <1>5, <1>6, <1>9 DEF Followed, TurnPcs
  <2>2. \A i \in 1..0 : stack[t][i] \notin S
        OBVIOUS
  <2> QED  BY <1>0, <1>7, <2>1, <2>2, HeldKept DEF Same
<1>10. Still /\ \A q : NoNewWaits(q)
      BY <1>8, <1>9, FollowedSets DEF Still, NoNewWaits, Same
<1>11. ASSUME NEW q \in Reqs, NEW e \in Contexts, NEW g \in Nat, Held(WakeAt(q, e, g))'
       PROVE  Held(WakeAt(q, e, g)) \/ (q = r /\ e = c /\ g = gen)
  <2>1. CASE a \in WakeAt(q, e, g)
        BY <1>5, <2>1 DEF WakeAt
  <2>2. CASE a \notin WakeAt(q, e, g)
    <3> DEFINE S == WakeAt(q, e, g)
    <3>1. \A i \in 1..Len(n) : n[i] \notin S
          BY <1>6, <2>2
    <3>2. Held(S)'
          BY <1>11
    <3> HIDE DEF S
    <3>3. Held(S)
          BY <1>0, <1>7, <3>1, <3>2, HeldNotNew
    <3> QED  BY <3>3 DEF S
  <2> QED  BY <2>1, <2>2
<1>12. ASSUME NEW q \in Reqs PROVE WakesSound(q)'
  <2>1. WakesSound(q)
        BY DEF RInv, RequestsSound
  <2>2. Held(WaitFor(q))' => Held(WaitFor(q))
        BY <1>10 DEF NoNewWaits
  <2>3. InWait(q)' => InWait(q)
        BY <1>2, <2>2 DEF InWait
  <2>4. ASSUME NEW e \in Contexts, NEW g \in Nat, Held(WakeAt(q, e, g))'
        PROVE  g <= req'[q].gen /\ (g = req'[q].gen /\ InWait(q)' => req'[q].on = e)
    <3>1. CASE Held(WakeAt(q, e, g))
          BY <1>2, <2>1, <2>3, <3>1 DEF WakesSound
    <3>2. CASE q = r /\ e = c /\ g = gen
          BY <1>2, <1>3, <3>2
    <3> QED  BY <1>11, <2>4, <3>1, <3>2
  <2>5. /\ \A g \in Nat : <<q, g>> \in woken' => g <= req'[q].gen
        /\ Held(WaitFor(q))' /\ <<q, req'[q].gen>> \in woken' => req'[q].wake
        /\ req'[q].place = "waiting" => <<q, req'[q].gen>> \notin woken'
        BY <1>2, <2>1, <2>2 DEF WakesSound
  <2> QED  BY <2>4, <2>5 DEF WakesSound
<1>13. ctx' \in [Contexts -> CtxT] /\ \A e \in Contexts : /\ ctx'[e].exec = ctx[e].exec /\ ctx'[e].queue = ctx[e].queue
                                     /\ ctx'[e].pending = ctx[e].pending /\ ctx'[e].waiting = ctx[e].waiting
      BY <1>2 DEF RInv, Typed
<1>14. req' \in [Reqs -> ReqT] /\ SamePlaces /\ armed' \subseteq Timers /\ woken' \subseteq Reqs \X Nat
      BY <1>0, <1>2 DEF SamePlaces
<1> QED  BY <1>2, <1>10, <1>12, <1>13, <1>14, StillInvariant

-----------------------------------------------------------------------------
(* Counting requests. *)

Live == {"ready", "running", "waiting"}
One(b) == IF b THEN 1 ELSE 0

LEMMA CountOne ==
    ASSUME NEW A, NEW B, A \subseteq Reqs, B \subseteq Reqs, NEW r \in Reqs, \A p \in Reqs : p # r => (p \in A <=> p \in B)
    PROVE  Cardinality(B) = Cardinality(A) + One(r \in B) - One(r \in A) /\ Cardinality(A) \in Nat
<1>1. IsFiniteSet(A) /\ IsFiniteSet(B)
      BY RuntimeAssumption, FS_Subset
<1>2. Cardinality(A) \in Nat /\ Cardinality(B) \in Nat
      BY <1>1, FS_CardinalityType
<1>3. CASE r \in A /\ r \in B
  <2>1. A = B
        BY <1>3
  <2> QED  BY <1>2, <1>3, <2>1 DEF One
<1>4. CASE r \notin A /\ r \notin B
  <2>1. A = B
        BY <1>4
  <2> QED  BY <1>2, <1>4, <2>1 DEF One
<1>5. CASE r \notin A /\ r \in B
  <2>1. B = A \union {r}
        BY <1>5
  <2>2. Cardinality(A \union {r}) = Cardinality(A) + 1
        BY <1>1, <1>5, FS_AddElement
  <2> QED  BY <1>2, <1>5, <2>1, <2>2 DEF One
<1>6. CASE r \in A /\ r \notin B
  <2>1. A = B \union {r}
        BY <1>6
  <2>2. Cardinality(B \union {r}) = Cardinality(B) + 1
        BY <1>1, <1>6, FS_AddElement
  <2> QED  BY <1>2, <1>6, <2>1, <2>2 DEF One
<1> QED  BY <1>3, <1>4, <1>5, <1>6

(* One request of one context changes its place. *)
LEMMA CountedMove ==
    ASSUME Counted, NEW r \in Reqs, NEW c \in Contexts, \A p \in Reqs : p # r => req'[p] = req[p],
           \A e \in Contexts : e # c => ctx'[e].pending = ctx[e].pending /\ ctx'[e].waiting = ctx[e].waiting,
           req[r].place \in Live => req[r].on = c, req'[r].place \in Live => req'[r].on = c,
           ctx'[c].pending = ctx[c].pending + One(r \in ExternalOn(c)') - One(r \in ExternalOn(c)),
           ctx'[c].waiting = ctx[c].waiting + One(req'[r].place = "waiting") - One(req[r].place = "waiting"),
           waiting' = waiting + One(req'[r].place = "waiting") - One(req[r].place = "waiting")
    PROVE  Counted'
<1>1. WaitingReqs \subseteq Reqs /\ WaitingReqs' \subseteq Reqs
      BY DEF WaitingReqs
<1>2. \A p \in Reqs : p # r => (p \in WaitingReqs <=> p \in WaitingReqs')
      BY DEF WaitingReqs
<1>3. /\ r \in WaitingReqs <=> req[r].place = "waiting"
      /\ r \in WaitingReqs' <=> req'[r].place = "waiting"
      BY DEF WaitingReqs
<1>4. /\ r \in WaitingOn(c) <=> req[r].place = "waiting"
      /\ r \in WaitingOn(c)' <=> req'[r].place = "waiting"
      BY DEF WaitingOn, Live
<1>5. ASSUME NEW e \in Contexts, e # c PROVE ExternalOn(e)' = ExternalOn(e) /\ WaitingOn(e)' = WaitingOn(e)
  <2>1. r \notin ExternalOn(e) /\ r \notin ExternalOn(e)' /\ r \notin WaitingOn(e) /\ r \notin WaitingOn(e)'
        BY <1>5 DEF ExternalOn, WaitingOn, Live
  <2>2. ExternalOn(e)' = ExternalOn(e)
    <3>1. \A p \in Reqs : p # r => (p \in ExternalOn(e) <=> p \in ExternalOn(e)')
          BY DEF ExternalOn
    <3>2. ExternalOn(e) \subseteq Reqs /\ ExternalOn(e)' \subseteq Reqs
          BY DEF ExternalOn
    <3> QED  BY <2>1, <3>1, <3>2
  <2>3. WaitingOn(e)' = WaitingOn(e)
    <3>1. \A p \in Reqs : p # r => (p \in WaitingOn(e) <=> p \in WaitingOn(e)')
          BY DEF WaitingOn
    <3>2. WaitingOn(e) \subseteq Reqs /\ WaitingOn(e)' \subseteq Reqs
          BY DEF WaitingOn
    <3>3. \A p \in Reqs : p \in WaitingOn(e) <=> p \in WaitingOn(e)'
          BY <2>1, <3>1
    <3> QED  BY <3>2, <3>3
  <2> QED  BY <2>2, <2>3
<1>6. waiting' = Cardinality(WaitingReqs')
  <2>1. Cardinality(WaitingReqs') = Cardinality(WaitingReqs) + One(r \in WaitingReqs') - One(r \in WaitingReqs)
        BY <1>1, <1>2, CountOne
  <2> QED  BY <1>3, <2>1 DEF Counted
<1>7. ctx'[c].pending = Cardinality(ExternalOn(c)')
  <2> DEFINE A == ExternalOn(c)  B == ExternalOn(c)'
  <2>0. A \subseteq Reqs /\ B \subseteq Reqs /\ \A p \in Reqs : p # r => (p \in A <=> p \in B)
        BY DEF ExternalOn
  <2> HIDE DEF A, B
  <2>2. Cardinality(B) = Cardinality(A) + One(r \in B) - One(r \in A)
        BY <2>0, CountOne
  <2>1. Cardinality(ExternalOn(c)') = Cardinality(ExternalOn(c)) + One(r \in ExternalOn(c)') - One(r \in ExternalOn(c))
        BY <2>2 DEF A, B
  <2> QED  BY <2>1 DEF Counted
<1>8. ctx'[c].waiting = Cardinality(WaitingOn(c)')
  <2> DEFINE A == WaitingOn(c)  B == WaitingOn(c)'
  <2>0. A \subseteq Reqs /\ B \subseteq Reqs /\ \A p \in Reqs : p # r => (p \in A <=> p \in B)
        BY DEF WaitingOn
  <2> HIDE DEF A, B
  <2>2. Cardinality(B) = Cardinality(A) + One(r \in B) - One(r \in A)
        BY <2>0, CountOne
  <2>1. Cardinality(WaitingOn(c)') = Cardinality(WaitingOn(c)) + One(r \in WaitingOn(c)') - One(r \in WaitingOn(c))
        BY <2>2 DEF A, B
  <2> QED  BY <1>4, <2>1 DEF Counted
<1>9. ASSUME NEW e \in Contexts PROVE ctx'[e].pending = Cardinality(ExternalOn(e)') /\ ctx'[e].waiting = Cardinality(WaitingOn(e)')
  <2>1. CASE e = c
        BY <1>7, <1>8, <2>1
  <2>2. CASE e # c
        BY <1>5, <2>2 DEF Counted
  <2> QED  BY <2>1, <2>2
<1> QED  BY <1>6, <1>9 DEF Counted

-----------------------------------------------------------------------------
(* A request joins a queue. *)

LEMMA HeldSub ==
    ASSUME NEW S, NEW T, S \subseteq T
    PROVE  (Held(S) => Held(T)) /\ (Held(S)' => Held(T)') /\ (Once(T) => Once(S)) /\ (Once(T)' => Once(S)')
BY DEF Held, Once

LEMMA NotHeld ==
    ASSUME NEW S
    PROVE  (~Held(S) => Once(S)) /\ (~Held(S)' => Once(S)')
BY DEF Held, Once

(* scheduleIfIdleLocked puts a context that has work into the ready queue. *)
LEMMA ScheduledContext ==
    ASSUME NEW c \in Contexts, ready \in Seq(Contexts), ContextSound(c), Same(TurnOf(c)), Same(ClaimOf(c)),
           NEW x \in CtxT, x.exec = ctx[c].exec, ctx'[c].exec = Schedule(x).exec, ctx'[c].queue = x.queue,
           ready' = LinkReady(c, x)
    PROVE  ContextSound(c)'
<1>1. /\ Once(TurnOf(c))' /\ (Held(TurnOf(c))' <=> Held(TurnOf(c)))
      /\ Once(ClaimOf(c))' /\ (Held(ClaimOf(c))' <=> Held(ClaimOf(c)))
      BY DEF ContextSound, Same
<1>2. CASE Schedules(x)
  <2>1. ctx[c].exec = "idle" /\ ctx'[c].exec = "scheduled" /\ ready' = Append(ready, c)
        BY <1>2, ScheduleFacts DEF Schedules, LinkReady
  <2>2. ~Linked(c) /\ ~Held(ClaimOf(c)) /\ ~Held(TurnOf(c))
        BY <2>1 DEF ContextSound
  <2>3. Linked(c)' /\ LinkedOnce(c)'
        BY <2>1, <2>2, ReadyAppend
  <2> QED  BY <1>1, <2>1, <2>2, <2>3 DEF ContextSound
<1>3. CASE ~Schedules(x)
  <2>1. ctx'[c].exec = ctx[c].exec /\ ready' = ready
        BY <1>3, ScheduleFacts DEF LinkReady
  <2>2. (Linked(c)' <=> Linked(c)) /\ (LinkedOnce(c)' <=> LinkedOnce(c))
        BY <2>1 DEF Linked, LinkedOnce
  <2>3. ctx'[c].queue # <<>> => ctx'[c].exec # "idle"
        BY <1>3, <2>1 DEF Schedules
  <2> QED  BY <1>1, <2>1, <2>2, <2>3 DEF ContextSound
<1> QED  BY <1>2, <1>3

(* The others do not notice. *)
LEMMA LinkOthers ==
    ASSUME NEW c \in Contexts, ready \in Seq(Contexts), NEW x, ready' = LinkReady(c, x)
    PROVE  /\ ready' \in Seq(Contexts)
           /\ \A e \in Contexts : e # c => (Linked(e)' <=> Linked(e)) /\ (LinkedOnce(e) => LinkedOnce(e)')
<1>1. CASE Schedules(x)
  <2>1. ready' = Append(ready, c)
        BY <1>1 DEF LinkReady
  <2> QED  BY <2>1, ReadyAppend
<1>2. CASE ~Schedules(x)
  <2>1. ready' = ready
        BY <1>2 DEF LinkReady
  <2> QED  BY <2>1 DEF Linked, LinkedOnce
<1> QED  BY <1>1, <1>2

(* Where the requests are once r is at the end of the queue of c. *)
LEMMA Enqueued ==
    ASSUME RInv, NEW c \in Contexts, NEW r \in Reqs,
           ctx'[c].queue = Append(ctx[c].queue, r), \A e \in Contexts : e # c => ctx'[e].queue = ctx[e].queue,
           \A p \in Reqs : p # r => req'[p] = req[p],
           req[r].place # "ready", req'[r].place = "ready", req'[r].on = c,
           ~Held(TurnFor(r))', \A p \in Reqs : p # r => Same(TurnFor(p)) /\ \A e : Held(TurnAt(p, e))' => Held(TurnAt(p, e))
    PROVE  (\A e \in Contexts : QueueSound(e)') /\ \A p \in Reqs : RequestSound(p)'
<1>1. \A e \in Contexts : ctx[e].queue \in Seq(Reqs)
      BY DEF RInv, Typed, CtxT
<1>2. \A e \in Contexts : \A i \in 1..Len(ctx[e].queue) : ctx[e].queue[i] \in Reqs
      BY <1>1, ElementOfSeq
<1>3. \A e \in Contexts : QueueSound(e)
      BY DEF RInv, RequestsSound
<1>4. \A e \in Contexts : \A i \in 1..Len(ctx[e].queue) : ctx[e].queue[i] # r
      BY <1>3 DEF QueueSound
<1> DEFINE s == ctx[c].queue
<1>5. /\ \A i \in 1..Len(s) : i \in 1..Len(ctx'[c].queue) /\ ctx'[c].queue[i] = s[i]
      /\ Len(s) + 1 \in 1..Len(ctx'[c].queue) /\ ctx'[c].queue[Len(s) + 1] = r
      /\ \A i \in 1..Len(ctx'[c].queue) : i \in 1..Len(s) \/ i = Len(s) + 1
      BY <1>1, AppendFacts
<1>6. QueueSound(c)'
  <2>1. ASSUME NEW i \in 1..Len(ctx'[c].queue)
        PROVE  req'[ctx'[c].queue[i]].place = "ready" /\ req'[ctx'[c].queue[i]].on = c
    <3>1. CASE i \in 1..Len(s)
          BY <1>2, <1>3, <1>4, <1>5, <3>1 DEF QueueSound
    <3>2. CASE i = Len(s) + 1
          BY <1>5, <3>2
    <3> QED  BY <1>5, <3>1, <3>2
  <2>2. ASSUME NEW i \in 1..Len(ctx'[c].queue), NEW j \in 1..Len(ctx'[c].queue), ctx'[c].queue[i] = ctx'[c].queue[j]
        PROVE  i = j
    <3>1. CASE i \in 1..Len(s) /\ j \in 1..Len(s)
          BY <1>3, <1>5, <2>2, <3>1 DEF QueueSound
    <3>2. CASE ~(i \in 1..Len(s) /\ j \in 1..Len(s))
          BY <1>4, <1>5, <2>2, <3>2
    <3> QED  BY <3>1, <3>2
  <2> QED  BY <2>1, <2>2 DEF QueueSound
<1>7. ASSUME NEW e \in Contexts PROVE QueueSound(e)'
  <2>1. CASE e = c
        BY <1>6, <2>1
  <2>2. CASE e # c
        BY <1>2, <1>3, <1>4, <2>2, QueueKept
  <2> QED  BY <2>1, <2>2
<1>8. RequestSound(r)'
  <2>1. Once(TurnFor(r))'
        BY NotHeld
  <2>2. \A e \in Contexts : TurnAt(r, e) \subseteq TurnFor(r)
        BY DEF TurnAt, TurnFor
  <2>3. \A e \in Contexts : ~Held(TurnAt(r, e))'
        BY <2>2, HeldSub
  <2>4. InQueue(r)'
        BY <1>5 DEF InQueue
  <2> QED  BY <2>1, <2>3, <2>4 DEF RequestSound
<1>9. ASSUME NEW p \in Reqs, p # r PROVE RequestSound(p)'
  <2>1. RequestSound(p)
        BY DEF RInv, RequestsSound
  <2>2. req[p].place = "ready" => InQueue(p)'
    <3>1. SUFFICES ASSUME req[p].place = "ready" PROVE InQueue(p)'
          OBVIOUS
    <3>2. InQueue(p) /\ req[p].on \in Contexts /\ req'[p] = req[p]
          BY <1>9, <2>1, <3>1 DEF RequestSound
    <3>3. CASE req[p].on = c
          BY <1>5, <3>2, <3>3 DEF InQueue
    <3>4. CASE req[p].on # c
          BY <3>2, <3>4 DEF InQueue
    <3> QED  BY <3>3, <3>4
  <2> QED  BY <1>9, <2>1, <2>2, RequestKept
<1> QED  BY <1>7, <1>8, <1>9

LEMMA QueuedFacts ==
    ASSUME NEW x \in CtxT, NEW r \in Reqs
    PROVE  /\ Queued(x, r) \in CtxT /\ Queued(x, r).queue = Append(x.queue, r) /\ Queued(x, r).exec = x.exec
           /\ Queued(x, r).pending = x.pending /\ Queued(x, r).waiting = x.waiting
<1>1. x.queue \in Seq(Reqs)
      BY DEF CtxT
<1>2. Append(x.queue, r) \in Seq(Reqs)
      BY <1>1, AppendFacts
<1> QED  BY <1>2 DEF CtxT, Queued

LEMMA BudgetFacts ==
    ASSUME NEW x \in CtxT, NEW k \in Int
    PROVE  /\ LET y == [x EXCEPT !.pending = k]
              IN  y \in CtxT /\ y.queue = x.queue /\ y.exec = x.exec /\ y.pending = k /\ y.waiting = x.waiting
           /\ LET y == [x EXCEPT !.waiting = k]
              IN  y \in CtxT /\ y.queue = x.queue /\ y.exec = x.exec /\ y.pending = x.pending /\ y.waiting = k
BY DEF CtxT

(* r joins the queue of c; nobody's turn begins or ends. *)
LEMMA JoinQueue ==
    ASSUME RInv, NEW t \in Threads, Quiet(t), NEW c \in Contexts, NEW r \in Reqs, NEW x \in CtxT,
           x.exec = ctx[c].exec, x.queue = Append(ctx[c].queue, r),
           x.pending = ctx[c].pending + One(r \in ExternalOn(c)') - One(r \in ExternalOn(c)),
           x.waiting = ctx[c].waiting - One(req[r].place = "waiting"),
           waiting' = waiting - One(req[r].place = "waiting"),
           ctx' = [ctx EXCEPT ![c] = Schedule(x)], ready' = LinkReady(c, x),
           req' \in [Reqs -> ReqT], \A p \in Reqs : p # r => req'[p] = req[p],
           req[r].place \in {"new", "done", "waiting"}, req'[r].place = "ready", req'[r].on = c,
           req[r].place = "waiting" => req[r].on = c,
           woken' \subseteq Reqs \X Nat, \A p \in Reqs, g \in Nat : p # r => (<<p, g>> \in woken' <=> <<p, g>> \in woken),
           armed' \subseteq Timers, WakesSound(r)'
    PROVE  RInv'
<1>0. /\ StacksTyped /\ Below /\ ctx \in [Contexts -> CtxT] /\ ready \in Seq(Contexts)
      /\ \A e \in Contexts : ContextSound(e) /\ ctx[e].pending \in Int /\ ctx[e].waiting \in Int
      BY DEF RInv, Typed, ContextsSound, CtxT
<1>1. Still /\ \A p : NoNewWaits(p) /\ NoNewWakes(p)
      BY <1>0, QuietStill
<1>2. Schedule(x) \in CtxT /\ Schedule(x).queue = x.queue /\ Schedule(x).waiting = x.waiting /\ Schedule(x).pending = x.pending
      BY ScheduleFacts
<1>3. ctx'[c] = Schedule(x) /\ ctx' \in [Contexts -> CtxT] /\ \A e \in Contexts : e # c => ctx'[e] = ctx[e]
      BY <1>0, <1>2
<1>4. /\ ready' \in Seq(Contexts)
      /\ \A e \in Contexts : e # c => (Linked(e)' <=> Linked(e)) /\ (LinkedOnce(e) => LinkedOnce(e)')
      BY <1>0, LinkOthers
<1>5. Typed'
      BY <1>1, <1>3, <1>4 DEF Still, Typed
<1>6. ASSUME NEW e \in Contexts PROVE ContextSound(e)'
  <2>1. Same(TurnOf(e)) /\ Same(ClaimOf(e))
        BY <1>1 DEF Still
  <2>2. CASE e = c
    <3>1. ContextSound(c)'
          BY <1>0, <1>2, <1>3, <2>1, <2>2, ScheduledContext
    <3> QED  BY <2>2, <3>1
  <2>3. CASE e # c
        BY <1>0, <1>3, <1>4, <2>1, <2>3, ContextKept
  <2> QED  BY <2>2, <2>3
<1>7. (\A e \in Contexts : QueueSound(e)') /\ \A p \in Reqs : RequestSound(p)'
  <2>1. RequestSound(r) /\ Same(TurnFor(r))
        BY <1>1 DEF RInv, RequestsSound, Still
  <2>2. ~Held(TurnFor(r))'
        BY <2>1 DEF RequestSound, Same
  <2>3. ASSUME NEW p \in Reqs PROVE Same(TurnFor(p)) /\ \A e : Held(TurnAt(p, e))' => Held(TurnAt(p, e))
        BY <1>1 DEF Still, Same
  <2>4. req[r].place # "ready"
        OBVIOUS
  <2> QED  BY <1>2, <1>3, <2>2, <2>3, <2>4, Enqueued
<1>8. ASSUME NEW p \in Reqs PROVE WakesSound(p)'
  <2>1. CASE p = r
        BY <2>1
  <2>2. CASE p # r
        BY <1>1, <2>2, StillWakes
  <2> QED  BY <2>1, <2>2
<1>9. Counted'
  <2>1. One(req'[r].place = "waiting") = 0 /\ One(req[r].place = "waiting") \in Int
        BY DEF One
  <2>2. waiting' = waiting + One(req'[r].place = "waiting") - One(req[r].place = "waiting")
    <3>1. waiting \in Int
      <4>1. Cardinality(WaitingReqs) \in Nat
            BY CountOne DEF WaitingReqs
      <4> QED  BY <4>1 DEF RInv, Counted
    <3> QED  BY <2>1, <3>1
  <2>3. ctx'[c].waiting = ctx[c].waiting + One(req'[r].place = "waiting") - One(req[r].place = "waiting")
        BY <1>0, <1>2, <1>3, <2>1
  <2>4. ctx'[c].pending = ctx[c].pending + One(r \in ExternalOn(c)') - One(r \in ExternalOn(c))
        BY <1>2, <1>3
  <2>5. Counted /\ (req[r].place \in Live => req[r].on = c) /\ (req'[r].place \in Live => req'[r].on = c)
        BY DEF RInv, Live
  <2>6. \A e \in Contexts : e # c => ctx'[e].pending = ctx[e].pending /\ ctx'[e].waiting = ctx[e].waiting
        BY <1>3
  <2> QED  BY <2>2, <2>3, <2>4, <2>5, <2>6, CountedMove
<1> QED  BY <1>5, <1>6, <1>7, <1>8, <1>9 DEF RInv, ContextsSound, RequestsSound

(* Admission. *)
LEMMA AdmitStep ==
    ASSUME RInv, NEW t \in Threads, Quiet(t), NEW c \in Contexts, NEW r \in Reqs, NEW b \in BOOLEAN, Admit(c, r, b), Free(r),
           UNCHANGED <<woken, waiting>>, armed' \subseteq Timers
    PROVE  RInv'
<1>0. StacksTyped /\ Below /\ ctx[c] \in CtxT /\ req \in [Reqs -> ReqT] /\ req[r] \in ReqT /\ woken \subseteq Reqs \X Nat
      BY DEF RInv, Typed
<1> DEFINE k == ctx[c].pending + (IF b THEN 0 ELSE 1)  y == [ctx[c] EXCEPT !.pending = k]  x == Queued(y, r)
<1>1. /\ ctx' = [ctx EXCEPT ![c] = Schedule(x)] /\ ready' = LinkReady(c, x)
      /\ \E w \in BOOLEAN : req' = [req EXCEPT ![r].place = "ready", ![r].on = c, ![r].wake = w, ![r].internal = b]
      BY DEF Admit
<1>2. k \in Int /\ k = ctx[c].pending + One(~b) /\ ctx[c].pending \in Int
      BY <1>0 DEF CtxT, One
<1> HIDE DEF k
<1>3. y \in CtxT /\ y.queue = ctx[c].queue /\ y.exec = ctx[c].exec /\ y.pending = k /\ y.waiting = ctx[c].waiting
      BY <1>0, <1>2, BudgetFacts, ZenonT(40)
<1> HIDE DEF y
<1>4. /\ x \in CtxT /\ x.queue = Append(ctx[c].queue, r) /\ x.exec = ctx[c].exec /\ x.pending = k
      /\ x.waiting = ctx[c].waiting
      BY <1>3, QueuedFacts
<1> HIDE DEF x
<1>5. PICK w \in BOOLEAN : req' = [req EXCEPT ![r].place = "ready", ![r].on = c, ![r].wake = w, ![r].internal = b]
      BY <1>1
<1> DEFINE q1 == [req[r] EXCEPT !.place = "ready"]  q2 == [q1 EXCEPT !.on = c]  q3 == [q2 EXCEPT !.wake = w]
           q == [q3 EXCEPT !.internal = b]
<1>6. req' = [req EXCEPT ![r] = q]
      BY <1>5
<1>7. q1 \in ReqT /\ q1.place = "ready" /\ q1.gen = req[r].gen
      BY <1>0, PlaceField
<1> HIDE DEF q1
<1>8. q2 \in ReqT /\ q2.place = "ready" /\ q2.on = c /\ q2.gen = req[r].gen
      BY <1>7, OnField
<1> HIDE DEF q2
<1>9. q3 \in ReqT /\ q3.place = "ready" /\ q3.on = c /\ q3.gen = req[r].gen
      BY <1>8, WakeField
<1> HIDE DEF q3
<1>10. q \in ReqT /\ q.place = "ready" /\ q.on = c /\ q.gen = req[r].gen /\ q.internal = b
      BY <1>9, InternalField
<1> HIDE DEF q
<1>11. req' \in [Reqs -> ReqT] /\ req'[r] = q /\ \A p \in Reqs : p # r => req'[p] = req[p]
      BY <1>0, <1>6, <1>10
<1>12. req[r].place \in {"new", "done"} /\ req[r].gen \in Nat
      BY <1>0 DEF Free, ReqT
<1>13. r \notin ExternalOn(c) /\ (r \in ExternalOn(c)' <=> ~b)
      BY <1>10, <1>11, <1>12 DEF ExternalOn
<1>14. x.pending = ctx[c].pending + One(r \in ExternalOn(c)') - One(r \in ExternalOn(c))
  <2>1. One(r \in ExternalOn(c)) = 0 /\ One(r \in ExternalOn(c)') = One(~b) /\ One(~b) \in Int
        BY <1>13 DEF One
  <2> QED  BY <1>2, <1>4, <2>1
<1>15. x.waiting = ctx[c].waiting - One(req[r].place = "waiting") /\ waiting' = waiting - One(req[r].place = "waiting")
  <2>1. One(req[r].place = "waiting") = 0
        BY <1>12 DEF One
  <2>2. ctx[c].waiting \in Int /\ waiting \in Int
    <3>1. Cardinality(WaitingReqs) \in Nat
          BY CountOne DEF WaitingReqs
    <3> QED  BY <1>0, <3>1 DEF CtxT, RInv, Counted
  <2> QED  BY <1>4, <2>1, <2>2
<1>16. WakesSound(r)'
  <2>1. WakesSound(r) /\ req'[r].gen = req[r].gen /\ req'[r].place = "ready"
        BY <1>10, <1>11 DEF RInv, RequestsSound
  <2>2. ~Held(WaitFor(r))'
    <3>1. Still
          BY <1>0, QuietStill
    <3>2. Same(TurnFor(r)) /\ RequestSound(r)
          BY <3>1 DEF Still, RInv, RequestsSound
    <3>3. ~Held(TurnFor(r))'
          BY <1>12, <3>2 DEF Same, RequestSound
    <3>4. WaitFor(r) \subseteq TurnFor(r)
          BY DEF WaitFor, TurnFor, TurnPcs
    <3> QED  BY <3>3, <3>4, HeldSub
  <2>3. ~InWait(r)'
        BY <2>1, <2>2 DEF InWait
  <2>4. NoNewWakes(r)
        BY <1>0, QuietStill
  <2>5. ASSUME NEW e \in Contexts, NEW g \in Nat, Held(WakeAt(r, e, g))' PROVE g <= req'[r].gen
    <3>1. Held(WakeAt(r, e, g))
          BY <2>4, <2>5 DEF NoNewWakes
    <3> QED  BY <2>1, <3>1 DEF WakesSound
  <2>6. \A g \in Nat : <<r, g>> \in woken' => g <= req'[r].gen
        BY <2>1 DEF WakesSound
  <2> QED  BY <2>1, <2>2, <2>3, <2>5, <2>6 DEF WakesSound
<1>17. woken' \subseteq Reqs \X Nat /\ \A p \in Reqs, g \in Nat : p # r => (<<p, g>> \in woken' <=> <<p, g>> \in woken)
      BY <1>0
<1>18. /\ req[r].place \in {"new", "done", "waiting"} /\ (req[r].place = "waiting" => req[r].on = c)
       /\ req'[r].place = "ready" /\ req'[r].on = c
      BY <1>10, <1>11, <1>12
<1> QED  BY <1>1, <1>4, <1>11, <1>14, <1>15, <1>16, <1>17, <1>18, JoinQueue

LEMMA SubmitSteps ==
    ASSUME RInv, NEW t \in Threads, SubmitQueues(t) \/ InternalGate(t)
    PROVE  RInv'
<1>0. StacksTyped /\ Below /\ armed \subseteq Timers
      BY DEF RInv, Typed
<1> PICK c, r : c = Top(t).ctx /\ r = Top(t).req
    OBVIOUS
<1>1. /\ At(t, "submitGate") \/ At(t, "internalGate")
      /\ Goto(t, <<EndBusy>>) /\ UNCHANGED <<armed, waiting, woken>>
      BY DEF SubmitQueues, InternalGate, timerVars, atomics
<1>2. UNCHANGED schedVars \/ \E b \in BOOLEAN : Admit(c, r, b) /\ Free(r)
  <2>1. CASE SubmitQueues(t)
    <3>1. CASE Refuses(c, r)
          BY <2>1, <3>1 DEF SubmitQueues
    <3>2. CASE ~Refuses(c, r)
      <4>1. Admit(c, r, FALSE) /\ Free(r)
            BY <2>1, <3>2 DEF SubmitQueues, Refuses
      <4> QED  BY <4>1, Zenon
    <3> QED  BY <3>1, <3>2
  <2>2. CASE InternalGate(t)
    <3>1. CASE ctx[c].life = "closed" \/ ~Free(r)
          BY <2>2, <3>1 DEF InternalGate
    <3>2. CASE ~(ctx[c].life = "closed" \/ ~Free(r))
      <4>1. Admit(c, r, TRUE) /\ Free(r)
            BY <2>2, <3>2 DEF InternalGate
      <4> QED  BY <4>1, Zenon
    <3> QED  BY <3>1, <3>2
  <2> QED  BY <2>1, <2>2
<1>3. stack[t] # <<>> /\ Top(t).pc \notin TurnPcs \union {"claim"} /\ c \in Contexts /\ r \in Reqs
  <2>1. CASE At(t, "submitGate")
        BY <1>0, <2>1, AtTop DEF Fit, UserPcs, TurnPcs
  <2>2. CASE At(t, "internalGate")
        BY <1>0, <2>2, AtTop DEF Fit, TurnPcs
  <2> QED  BY <1>1, <2>1, <2>2
<1>4. Quiet(t)
      BY <1>0, <1>1, <1>3, ColdPlain, QuietGoto1
<1>5. CASE UNCHANGED schedVars
      BY <1>0, <1>1, <1>4, <1>5, QuietInvariant DEF Undisturbed, schedVars
<1>6. CASE \E b \in BOOLEAN : Admit(c, r, b) /\ Free(r)
      BY <1>0, <1>1, <1>3, <1>4, <1>6, AdmitStep
<1> QED  BY <1>2, <1>5, <1>6

LEMMA FireSubmitStep ==
    ASSUME RInv, NEW t \in Threads, FireSubmit(t)
    PROVE  RInv'
<1>0. StacksTyped /\ Below /\ armed \subseteq Timers
      BY DEF RInv, Typed
<1> PICK c, r : c = Top(t).ctx /\ r = Top(t).req
    OBVIOUS
<1> DEFINE a == [Top(t) EXCEPT !.pc = "endFire"]
<1>1. At(t, "fireSubmit") /\ Goto(t, <<a>>) /\ UNCHANGED <<armed, waiting, woken>>
      BY DEF FireSubmit, atomics
<1>2. UNCHANGED schedVars \/ \E b \in BOOLEAN : Admit(c, r, b) /\ Free(r)
  <2>1. CASE ctx[c].life = "closed" \/ ~Free(r)
        BY <2>1 DEF FireSubmit
  <2>2. CASE ~(ctx[c].life = "closed" \/ ~Free(r))
    <3>1. Admit(c, r, TRUE) /\ Free(r)
          BY <2>2 DEF FireSubmit
    <3> QED  BY <3>1, Zenon
  <2> QED  BY <2>1, <2>2
<1>3. stack[t] # <<>> /\ Top(t).pc = "fireSubmit" /\ Top(t) \in FrameSet /\ Fit(Top(t))
      BY <1>0, <1>1, AtTop
<1>4. c \in Contexts /\ r \in Reqs /\ Top(t).pc \notin TurnPcs \union {"claim"}
      BY <1>3 DEF Fit, TurnPcs, Reqs
<1>5. a \in FrameSet /\ a.pc = "endFire"
      BY <1>3, MovedFrame DEF Pcs
<1> HIDE DEF a
<1>6. Quiet(t)
  <2>1. Cold(a)
        BY <1>5 DEF Cold, HotPcs, TurnPcs
  <2> QED  BY <1>0, <1>1, <1>3, <1>4, <2>1, QuietGoto1
<1>7. CASE UNCHANGED schedVars
      BY <1>0, <1>1, <1>6, <1>7, QuietInvariant DEF Undisturbed, schedVars
<1>8. CASE \E b \in BOOLEAN : Admit(c, r, b) /\ Free(r)
      BY <1>0, <1>1, <1>4, <1>6, <1>8, AdmitStep
<1> QED  BY <1>2, <1>7, <1>8

(* A wake puts a waiting request into its queue, and is kept for one that   *)
(* is about to wait.                                                        *)
LEMMA WakeGateStep ==
    ASSUME RInv, NEW t \in Threads, WakeGate(t)
    PROVE  RInv'
<1>0. /\ StacksTyped /\ Below /\ armed \subseteq Timers /\ req \in [Reqs -> ReqT] /\ ctx \in [Contexts -> CtxT]
      /\ woken \subseteq Reqs \X Nat
      BY DEF RInv, Typed
<1> PICK c, r, g : c = Top(t).ctx /\ r = Top(t).req /\ g = Top(t).gen
    OBVIOUS
<1>1. At(t, "wakeGate") /\ Goto(t, <<EndBusy>>) /\ armed' = armed /\ woken' = woken \union {<<r, g>>}
      BY DEF WakeGate, timerVars
<1>2. /\ stack[t] # <<>> /\ Top(t).pc = "wakeGate" /\ Top(t) \in FrameSet /\ Fit(Top(t))
      /\ Top(t) = stack[t][1] /\ 1 \in 1..Len(stack[t])
      BY <1>0, <1>1, AtTop
<1>3. c \in Contexts /\ r \in Reqs /\ g \in Nat /\ Top(t).pc \notin TurnPcs \union {"claim"}
      BY <1>2 DEF Fit, UserPcs, TurnPcs, FrameSet
<1>4. Quiet(t)
      BY <1>0, <1>1, <1>2, <1>3, ColdPlain, QuietGoto1
<1>5. Still /\ \A p : NoNewWaits(p) /\ NoNewWakes(p)
      BY <1>0, <1>4, QuietStill
<1>6. Held(WakeAt(r, c, g))
  <2>1. stack[t][1] \in WakeAt(r, c, g)
        BY <1>2 DEF WakeAt
  <2> QED  BY <1>2, <2>1 DEF Held
<1>7. /\ WakesSound(r) /\ RequestSound(r) /\ req[r] \in ReqT /\ req[r].gen \in Nat /\ ctx[c] \in CtxT
      BY <1>0, <1>3 DEF RInv, RequestsSound, ReqT
<1>8. g <= req[r].gen /\ (g = req[r].gen /\ InWait(r) => req[r].on = c)
      BY <1>3, <1>6, <1>7 DEF WakesSound
<1>9. /\ woken' \subseteq Reqs \X Nat /\ \A p \in Reqs, h \in Nat : p # r => (<<p, h>> \in woken' <=> <<p, h>> \in woken)
      /\ \A h \in Nat : <<r, h>> \in woken' => <<r, h>> \in woken \/ h = g
      BY <1>0, <1>1, <1>3
<1>10. \A h \in Nat : <<r, h>> \in woken' => h <= req[r].gen
      BY <1>7, <1>8, <1>9 DEF WakesSound
<1>11. \A e \in Contexts, h \in Nat :
          Held(WakeAt(r, e, h))' => h <= req[r].gen /\ (h = req[r].gen /\ InWait(r) => req[r].on = e)
  <2> SUFFICES ASSUME NEW e \in Contexts, NEW h \in Nat, Held(WakeAt(r, e, h))'
               PROVE  h <= req[r].gen /\ (h = req[r].gen /\ InWait(r) => req[r].on = e)
      OBVIOUS
  <2>1. Held(WakeAt(r, e, h))
        BY <1>5 DEF NoNewWakes
  <2> QED  BY <1>7, <2>1 DEF WakesSound
<1>12. armed' \subseteq Timers
      BY <1>0, <1>1
<1>13. CASE g = req[r].gen /\ req[r].place = "waiting"
  <2> DEFINE y == [ctx[c] EXCEPT !.waiting = ctx[c].waiting - 1]  x == Queued(y, r)
             q1 == [req[r] EXCEPT !.place = "ready"]  q == [q1 EXCEPT !.gen = @ + 1]
  <2>1. /\ ctx' = [ctx EXCEPT ![c] = Schedule(x)] /\ ready' = LinkReady(c, x) /\ waiting' = waiting - 1
        /\ req' = [req EXCEPT ![r].place = "ready", ![r].gen = @ + 1]
        BY <1>13 DEF WakeGate
  <2>2. req' = [req EXCEPT ![r] = q]
        BY <1>0, <1>3, <2>1
  <2>3. ctx[c].waiting - 1 \in Int /\ ctx[c].waiting \in Int /\ ctx[c].pending \in Int
        BY <1>7 DEF CtxT
  <2>4. y \in CtxT /\ y.queue = ctx[c].queue /\ y.exec = ctx[c].exec /\ y.pending = ctx[c].pending /\ y.waiting = ctx[c].waiting - 1
        BY <1>7, <2>3, BudgetFacts, ZenonT(40)
  <2> HIDE DEF y
  <2>5. /\ x \in CtxT /\ x.queue = Append(ctx[c].queue, r) /\ x.exec = ctx[c].exec
        /\ x.pending = ctx[c].pending /\ x.waiting = ctx[c].waiting - 1
        BY <1>3, <2>4, QueuedFacts, SMTT(40)
  <2> HIDE DEF x
  <2>6. q1 \in ReqT /\ q1.place = "ready" /\ q1.on = req[r].on /\ q1.gen = req[r].gen /\ q1.internal = req[r].internal
        BY <1>7, PlaceField
  <2> HIDE DEF q1
  <2>7. q \in ReqT /\ q.place = "ready" /\ q.on = req[r].on /\ q.gen = req[r].gen + 1 /\ q.internal = req[r].internal
        BY <2>6, GenField
  <2> HIDE DEF q
  <2>8. req' \in [Reqs -> ReqT] /\ req'[r] = q /\ \A p \in Reqs : p # r => req'[p] = req[p]
        BY <1>0, <1>3, <2>2, <2>7
  <2>9. req[r].on = c
        BY <1>8, <1>13 DEF InWait
  <2>10. r \in ExternalOn(c)' <=> r \in ExternalOn(c)
        BY <1>3, <1>13, <2>7, <2>8, <2>9 DEF ExternalOn
  <2>11. x.pending = ctx[c].pending + One(r \in ExternalOn(c)') - One(r \in ExternalOn(c))
        BY <2>3, <2>5, <2>10 DEF One
  <2>12. One(req[r].place = "waiting") = 1
        BY <1>13 DEF One
  <2>13. WakesSound(r)'
    <3>1. req'[r].gen = req[r].gen + 1 /\ req'[r].place = "ready"
          BY <2>7, <2>8
    <3>2. \A h \in Nat : h <= req[r].gen => h <= req'[r].gen /\ h # req'[r].gen
          BY <1>7, <3>1
    <3>3. req'[r].gen \in Nat
          BY <1>7, <3>1
    <3>4. \A h \in Nat : <<r, h>> \in woken' => h <= req'[r].gen /\ h # req'[r].gen
          BY <1>10, <3>2
    <3>5. \A e \in Contexts, h \in Nat : Held(WakeAt(r, e, h))' => h <= req'[r].gen /\ h # req'[r].gen
          BY <1>11, <3>2
    <3> QED  BY <3>1, <3>3, <3>4, <3>5 DEF WakesSound
  <2>14. req[r].place \in {"new", "done", "waiting"} /\ req'[r].place = "ready" /\ req'[r].on = c
        BY <1>13, <2>7, <2>8, <2>9
  <2> QED  BY <1>3, <1>4, <1>9, <1>12, <2>1, <2>5, <2>8, <2>9, <2>11, <2>12, <2>13, <2>14, JoinQueue, ZenonT(40)
<1>14. CASE ~(g = req[r].gen /\ req[r].place = "waiting")
  <2>1. /\ UNCHANGED <<ctx, ready, waiting>>
        /\ req' = [req EXCEPT ![r].wake = @ \/ (g = req[r].gen /\ req[r].place = "running")]
        BY <1>14 DEF WakeGate
  <2>2. PICK w \in BOOLEAN : w = (req[r].wake \/ (g = req[r].gen /\ req[r].place = "running"))
        OBVIOUS
  <2> DEFINE q == [req[r] EXCEPT !.wake = w]
  <2>3. q \in ReqT /\ q.place = req[r].place /\ q.on = req[r].on /\ q.gen = req[r].gen /\ q.internal = req[r].internal /\ q.wake = w
        BY <1>7, WakeField
  <2>4. req' = [req EXCEPT ![r] = q]
        BY <1>0, <1>3, <2>1, <2>2
  <2> HIDE DEF q
  <2>5. req' \in [Reqs -> ReqT] /\ req'[r] = q /\ \A p \in Reqs : p # r => req'[p] = req[p]
        BY <1>0, <1>3, <2>3, <2>4
  <2>6. SamePlaces
        BY <2>3, <2>5 DEF SamePlaces
  <2>7. WakesSound(r)'
    <3>1. req'[r].gen = req[r].gen /\ req'[r].place = req[r].place /\ req'[r].on = req[r].on
          BY <2>3, <2>5
    <3>2. InWait(r)' => InWait(r)
          BY <1>5, <3>1 DEF InWait, NoNewWaits
    <3>3. \A h \in Nat : <<r, h>> \in woken' => h <= req'[r].gen
          BY <1>10, <3>1
    <3>4. \A e \in Contexts, h \in Nat :
              Held(WakeAt(r, e, h))' => h <= req'[r].gen /\ (h = req'[r].gen /\ InWait(r)' => req'[r].on = e)
          BY <1>11, <3>1, <3>2
    <3>5. req'[r].place = "waiting" => <<r, req'[r].gen>> \notin woken'
          BY <1>7, <1>9, <1>14, <3>1 DEF WakesSound
    <3>6. ASSUME Held(WaitFor(r))', <<r, req'[r].gen>> \in woken' PROVE req'[r].wake
      <4>1. Held(WaitFor(r))
            BY <1>5, <3>6 DEF NoNewWaits
      <4>2. req[r].place = "running"
        <5>1. WaitFor(r) \subseteq TurnFor(r)
              BY DEF WaitFor, TurnFor, TurnPcs
        <5>2. Held(TurnFor(r))
              BY <4>1, <5>1, HeldSub
        <5> QED  BY <1>7, <5>2 DEF RequestSound
      <4>3. <<r, req[r].gen>> \in woken => req[r].wake
            BY <1>7, <4>1 DEF WakesSound
      <4>4. <<r, req[r].gen>> \in woken \/ req[r].gen = g
            BY <1>7, <1>9, <3>1, <3>6
      <4>5. w
            BY <2>2, <4>2, <4>3, <4>4, Zenon
      <4>6. req'[r].wake = w
            BY <2>3, <2>5
      <4> QED  BY <4>5, <4>6, Zenon
    <3> QED  BY <3>3, <3>4, <3>5, <3>6 DEF WakesSound
  <2>8. ASSUME NEW p \in Reqs PROVE WakesSound(p)'
    <3>1. CASE p = r
          BY <2>7, <3>1
    <3>2. CASE p # r
          BY <1>5, <1>9, <2>5, <3>2, StillWakes
    <3> QED  BY <3>1, <3>2
  <2>9. ctx' \in [Contexts -> CtxT] /\ \A e \in Contexts : /\ ctx'[e].exec = ctx[e].exec /\ ctx'[e].queue = ctx[e].queue
                                     /\ ctx'[e].pending = ctx[e].pending /\ ctx'[e].waiting = ctx[e].waiting
        BY <1>0, <2>1
  <2> QED  BY <1>5, <1>9, <1>12, <2>1, <2>5, <2>6, <2>8, <2>9, StillInvariant
<1> QED  BY <1>13, <1>14

-----------------------------------------------------------------------------
(* Turns begin and end. *)

LEMMA MovedSame ==
    ASSUME StacksTyped, NEW t \in Threads, NEW n, NEW d, Moved(t, n, d), NEW S,
           \A i \in 1..d : stack[t][i] \notin S, \A i \in 1..Len(n) : n[i] \notin S
    PROVE  Same(S)
BY HeldKept DEF Same

(* What a turn that begins for r in c, or ends, leaves alone. *)
Elsewhere(c, r) ==
    /\ StacksTyped' /\ Below'
    /\ \A e : e # c => Same(TurnOf(e))
    /\ \A p : p # r => Same(TurnFor(p))
    /\ \A p, e : Held(TurnAt(p, e))' => Held(TurnAt(p, e)) \/ (p = r /\ e = c)
    /\ \A p : NoNewWaits(p) /\ NoNewWakes(p)

LEMMA TurnBegins ==
    ASSUME StacksTyped, Below, NEW t \in Threads, NEW n, NEW d, Moved(t, n, d), NEW c, NEW r,
           Len(n) >= 1, n[1] \in FrameSet, n[1].pc \in TurnPcs \ {"waits"}, n[1].ctx = c, n[1].req = r,
           \A i \in 2..Len(n) : Cold(n[i]), \A i \in 1..d : stack[t][i].pc \notin TurnPcs
    PROVE  /\ Elsewhere(c, r)
           /\ ~Held(TurnOf(c)) => Held(TurnOf(c))' /\ Once(TurnOf(c))'
           /\ ~Held(TurnFor(r)) => Held(TurnFor(r))' /\ Once(TurnFor(r))'
           /\ \A e : (\A i \in 1..d : stack[t][i] \notin ClaimOf(e)) => Same(ClaimOf(e))
<1>0. Len(n) \in Nat /\ 1 \in 1..Len(n) /\ \A i \in 1..Len(n) : i = 1 \/ i \in 2..Len(n)
      BY LenProperties DEF Moved
<1>1. \A i \in 1..Len(n) : i # 1 => Cold(n[i])
      BY <1>0
<1>2. StacksTyped' /\ Below'
  <2>1. \A i \in 1..Len(n) : n[i].pc \notin {"take", "claim"}
        BY <1>0, <1>1 DEF Cold, HotPcs, TurnPcs
  <2> QED  BY <2>1, BelowKept DEF Moved, StacksTyped
<1>3. ASSUME NEW S, S \subseteq Followed, n[1] \notin S, \A i \in 1..d : stack[t][i] \notin S PROVE Same(S)
  <2>1. \A i \in 1..Len(n) : n[i] \notin S
        BY <1>1, <1>3 DEF Followed, Cold, HotPcs
  <2> QED  BY <1>3, <2>1, MovedSame
<1>4. ASSUME NEW S, S \subseteq Followed, n[1] \in S, ~Held(S) PROVE Held(S)' /\ Once(S)'
  <2>1. \A i \in 1..Len(n) : n[i] \in S => i = 1
        BY <1>1, <1>4 DEF Followed, Cold, HotPcs
  <2> QED  BY <1>0, <1>4, <2>1, HeldBegins
<1>5. ASSUME NEW S, n[1] \notin S, \A i \in 1..Len(n) : i # 1 => n[i] \notin S PROVE Held(S)' => Held(S)
  <2>1. \A i \in 1..Len(n) : n[i] \notin S
        BY <1>5
  <2> QED  BY <2>1, HeldNotNew
<1>6. ASSUME NEW e, e # c PROVE Same(TurnOf(e))
  <2>1. n[1] \notin TurnOf(e) /\ \A i \in 1..d : stack[t][i] \notin TurnOf(e)
        BY <1>6 DEF TurnOf
  <2> QED  BY <1>3, <2>1, FollowedSets
<1>7. ASSUME NEW p, p # r PROVE Same(TurnFor(p))
  <2>1. n[1] \notin TurnFor(p) /\ \A i \in 1..d : stack[t][i] \notin TurnFor(p)
        BY <1>7 DEF TurnFor
  <2> QED  BY <1>3, <2>1, FollowedSets
<1>8. ASSUME NEW p, NEW e, Held(TurnAt(p, e))', ~(p = r /\ e = c) PROVE Held(TurnAt(p, e))
  <2>1. n[1] \notin TurnAt(p, e) /\ \A i \in 1..d : stack[t][i] \notin TurnAt(p, e)
        BY <1>8 DEF TurnAt
  <2>2. Same(TurnAt(p, e))
        BY <1>3, <2>1, FollowedSets
  <2> QED  BY <1>8, <2>2 DEF Same
<1>9. ASSUME NEW p PROVE NoNewWaits(p) /\ NoNewWakes(p)
  <2>1. n[1] \notin WaitFor(p) /\ \A i \in 1..d : stack[t][i] \notin WaitFor(p)
        BY DEF WaitFor, TurnPcs
  <2>2. Same(WaitFor(p))
        BY <1>3, <2>1, FollowedSets
  <2>3. ASSUME NEW e, NEW g PROVE Held(WakeAt(p, e, g))' => Held(WakeAt(p, e, g))
    <3>1. n[1] \notin WakeAt(p, e, g) /\ \A i \in 1..Len(n) : i # 1 => n[i] \notin WakeAt(p, e, g)
          BY <1>1 DEF WakeAt, TurnPcs, Cold, HotPcs
    <3> QED  BY <1>5, <3>1
  <2> QED  BY <2>2, <2>3 DEF NoNewWaits, NoNewWakes, Same
<1>10. ~Held(TurnOf(c)) => Held(TurnOf(c))' /\ Once(TurnOf(c))'
  <2>1. n[1] \in TurnOf(c)
        BY DEF TurnOf
  <2> QED  BY <1>4, <2>1, FollowedSets
<1>11. ~Held(TurnFor(r)) => Held(TurnFor(r))' /\ Once(TurnFor(r))'
  <2>1. n[1] \in TurnFor(r)
        BY DEF TurnFor
  <2> QED  BY <1>4, <2>1, FollowedSets
<1>12. ASSUME NEW e, \A i \in 1..d : stack[t][i] \notin ClaimOf(e) PROVE Same(ClaimOf(e))
  <2>1. n[1] \notin ClaimOf(e)
        BY DEF ClaimOf, TurnPcs
  <2> QED  BY <1>3, <1>12, <2>1, FollowedSets
<1> QED  BY <1>2, <1>6, <1>7, <1>8, <1>9, <1>10, <1>11, <1>12 DEF Elsewhere

LEMMA TurnEnds ==
    ASSUME StacksTyped, Below, NEW t \in Threads, stack[t] # <<>>, Top(t).pc \in TurnPcs, NEW n, Moved(t, n, 1),
           \A i \in 1..Len(n) : Cold(n[i]), NEW c, NEW r, c = Top(t).ctx, r = Top(t).req
    PROVE  /\ Elsewhere(c, r)
           /\ Once(TurnOf(c)) => ~Held(TurnOf(c))'
           /\ Once(TurnFor(r)) => ~Held(TurnFor(r))'
           /\ \A e : Same(ClaimOf(e))
<1>0. Top(t) = stack[t][1] /\ Top(t) \in FrameSet /\ 1 \in 1..1 /\ \A i \in 1..1 : i = 1
      BY TopFrame
<1>1. StacksTyped' /\ Below'
  <2>1. \A i \in 1..Len(n) : n[i].pc \notin {"take", "claim"}
        BY DEF Cold, HotPcs
  <2> QED  BY <2>1, BelowKept DEF Moved, StacksTyped
<1>2. ASSUME NEW S, S \subseteq Followed PROVE \A i \in 1..Len(n) : n[i] \notin S
      BY <1>2 DEF Followed, Cold, HotPcs
<1>3. ASSUME NEW S, S \subseteq Followed, Top(t) \notin S PROVE Same(S)
  <2>1. \A i \in 1..1 : stack[t][i] \notin S
        BY <1>0, <1>3
  <2> QED  BY <1>2, <1>3, <2>1, MovedSame
<1>4. ASSUME NEW S, S \subseteq Followed, Top(t) \in S, Once(S) PROVE ~Held(S)'
      BY <1>0, <1>2, <1>4, HeldEnds
<1>5. ASSUME NEW S, \A i \in 1..Len(n) : n[i] \notin S PROVE Held(S)' => Held(S)
      BY <1>5, HeldNotNew
<1>6. ASSUME NEW e, e # c PROVE Same(TurnOf(e))
  <2>1. Top(t) \notin TurnOf(e)
        BY <1>6 DEF TurnOf
  <2> QED  BY <1>3, <2>1, FollowedSets
<1>7. ASSUME NEW p, p # r PROVE Same(TurnFor(p))
  <2>1. Top(t) \notin TurnFor(p)
        BY <1>7 DEF TurnFor
  <2> QED  BY <1>3, <2>1, FollowedSets
<1>8. ASSUME NEW p, NEW e PROVE Held(TurnAt(p, e))' => Held(TurnAt(p, e))
      BY <1>2, <1>5, FollowedSets
<1>9. ASSUME NEW p PROVE NoNewWaits(p) /\ NoNewWakes(p)
  <2>1. Held(WaitFor(p))' => Held(WaitFor(p))
        BY <1>2, <1>5, FollowedSets
  <2>3. ASSUME NEW e, NEW g PROVE Held(WakeAt(p, e, g))' => Held(WakeAt(p, e, g))
    <3>1. \A i \in 1..Len(n) : n[i] \notin WakeAt(p, e, g)
          BY DEF WakeAt, Cold, HotPcs
    <3> QED  BY <1>5, <3>1
  <2> QED  BY <2>1, <2>3 DEF NoNewWaits, NoNewWakes
<1>10. Once(TurnOf(c)) => ~Held(TurnOf(c))'
  <2>1. Top(t) \in TurnOf(c)
        BY <1>0 DEF TurnOf
  <2> QED  BY <1>4, <2>1, FollowedSets
<1>11. Once(TurnFor(r)) => ~Held(TurnFor(r))'
  <2>1. Top(t) \in TurnFor(r)
        BY <1>0 DEF TurnFor
  <2> QED  BY <1>4, <2>1, FollowedSets
<1>12. ASSUME NEW e PROVE Same(ClaimOf(e))
  <2>1. Top(t) \notin ClaimOf(e)
        BY DEF ClaimOf, TurnPcs
  <2> QED  BY <1>3, <2>1, FollowedSets
<1> QED  BY <1>1, <1>6, <1>7, <1>8, <1>9, <1>10, <1>11, <1>12 DEF Elsewhere

(* A request that does not wait has no wait prepared. *)
LEMMA NotRunningNotWaiting ==
    ASSUME NEW r \in Reqs, RequestSound(r), req[r].place # "running"
    PROVE  ~Held(TurnFor(r)) /\ ~Held(WaitFor(r)) /\ \A e : ~Held(TurnAt(r, e))
<1>1. WaitFor(r) \subseteq TurnFor(r) /\ \A e : TurnAt(r, e) \subseteq TurnFor(r)
      BY DEF WaitFor, TurnFor, TurnAt, TurnPcs
<1>2. ~Held(TurnFor(r))
      BY DEF RequestSound
<1> QED  BY <1>1, <1>2, HeldSub

LEMMA Started ==
    ASSUME RInv, NEW c \in Contexts, NEW r \in Reqs, Elsewhere(c, r), Held(TurnFor(r))', Once(TurnFor(r))',
           \A p \in Reqs : p # r => req'[p] = req[p], req[r].place \in {"new", "done", "ready"},
           req'[r].place = "running", req'[r].on = c, req'[r].gen = req[r].gen, woken' = woken,
           \A p \in Reqs : p # r /\ req[p].place = "ready" => InQueue(p)'
    PROVE  \A p \in Reqs : RequestSound(p)' /\ WakesSound(p)'
<1>1. ASSUME NEW p \in Reqs PROVE RequestSound(p) /\ WakesSound(p)
      BY DEF RInv, RequestsSound
<1>2. ~Held(TurnFor(r)) /\ ~Held(WaitFor(r)) /\ \A e : ~Held(TurnAt(r, e))
      BY <1>1, NotRunningNotWaiting
<1>3. RequestSound(r)'
  <2>1. \A e \in Contexts : Held(TurnAt(r, e))' => e = c
        BY <1>2 DEF Elsewhere
  <2> QED  BY <2>1 DEF RequestSound
<1>4. WakesSound(r)'
  <2>1. NoNewWaits(r) /\ NoNewWakes(r) /\ WakesSound(r)
        BY <1>1 DEF Elsewhere
  <2>2. ~Held(WaitFor(r))'
        BY <1>2, <2>1 DEF NoNewWaits
  <2>3. ~InWait(r)'
        BY <2>2 DEF InWait
  <2>4. ASSUME NEW e \in Contexts, NEW g \in Nat, Held(WakeAt(r, e, g))' PROVE g <= req'[r].gen
    <3>1. Held(WakeAt(r, e, g))
          BY <2>1, <2>4 DEF NoNewWakes
    <3> QED  BY <2>1, <3>1 DEF WakesSound
  <2>5. \A g \in Nat : <<r, g>> \in woken' => g <= req'[r].gen
        BY <2>1 DEF WakesSound
  <2> QED  BY <2>2, <2>3, <2>4, <2>5 DEF WakesSound
<1>5. ASSUME NEW p \in Reqs, p # r PROVE RequestSound(p)' /\ WakesSound(p)'
  <2>1. RequestSound(p) /\ req'[p] = req[p] /\ Same(TurnFor(p)) /\ NoNewWaits(p) /\ NoNewWakes(p)
        BY <1>1, <1>5 DEF Elsewhere
  <2>2. \A e \in Contexts : Held(TurnAt(p, e))' => Held(TurnAt(p, e))
        BY <1>5 DEF Elsewhere
  <2>3. RequestSound(p)'
        BY <1>5, <2>1, <2>2, RequestKept
  <2>4. WakesSound(p)'
        BY <2>1, StillWakes
  <2> QED  BY <2>3, <2>4
<1> QED  BY <1>3, <1>4, <1>5

LEMMA StartFrame ==
    ASSUME NEW c \in Contexts, NEW r \in Reqs
    PROVE  /\ StartTurn(c, r) \in FrameSet /\ StartTurn(c, r).pc \in TurnPcs \ {"waits"}
           /\ StartTurn(c, r).ctx = c /\ StartTurn(c, r).req = r
<1>1. PICK pc \in {"timerRun", "turn"} : StartTurn(c, r) = Frame(pc, c, r)
  <2>1. CASE r \in Timers
        BY <2>1 DEF StartTurn
  <2>2. CASE r \notin Timers
        BY <2>2 DEF StartTurn
  <2> QED  BY <2>1, <2>2
<1>2. pc \in AboutPcs /\ pc \in TurnPcs \ {"waits"}
      BY DEF AboutPcs, TurnPcs
<1> QED  BY <1>1, <1>2, ReqFrame

(* An idle context runs a request at once. *)
LEMMA SubmitInlineStep ==
    ASSUME RInv, NEW t \in Threads, SubmitInline(t)
    PROVE  RInv'
<1>0. /\ StacksTyped /\ Below /\ armed \subseteq Timers /\ req \in [Reqs -> ReqT] /\ ctx \in [Contexts -> CtxT]
      /\ woken \subseteq Reqs \X Nat /\ ready \in Seq(Contexts)
      BY DEF RInv, Typed
<1> PICK c, r : c = Top(t).ctx /\ r = Top(t).req
    OBVIOUS
<1> DEFINE n == <<StartTurn(c, r), EndBusy>>
<1>1. /\ At(t, "submitGate") /\ Free(r) /\ ctx[c].exec = "idle" /\ ctx[c].queue = <<>>
      /\ ctx' = [ctx EXCEPT ![c].pending = @ + 1, ![c].exec = "running"]
      /\ \E b \in BOOLEAN, w \in BOOLEAN :
            ~b /\ req' = [req EXCEPT ![r].place = "running", ![r].on = c, ![r].wake = w, ![r].internal = b]
      /\ Goto(t, n) /\ UNCHANGED <<ready, armed, waiting, woken>>
      BY DEF SubmitInline, timerVars, Refuses
<1>2. stack[t] # <<>> /\ Top(t).pc = "submitGate" /\ c \in Contexts /\ r \in Reqs /\ Top(t) = stack[t][1]
      BY <1>0, <1>1, AtTop DEF Fit, UserPcs
<1>3. /\ StartTurn(c, r) \in FrameSet /\ StartTurn(c, r).pc \in TurnPcs \ {"waits"}
      /\ StartTurn(c, r).ctx = c /\ StartTurn(c, r).req = r /\ Cold(EndBusy)
      BY <1>2, StartFrame, ColdPlain
<1>4. n \in Seq(FrameSet) /\ Len(n) = 2 /\ n[1] = StartTurn(c, r) /\ n[2] = EndBusy
      BY <1>3 DEF Cold
<1> HIDE DEF n
<1>5. Moved(t, n, 1)
      BY <1>0, <1>1, <1>2, <1>4, GotoMoves
<1>6. /\ \A i \in 2..Len(n) : Cold(n[i])
      /\ \A i \in 1..1 : stack[t][i].pc \notin TurnPcs
      /\ \A e : \A i \in 1..1 : stack[t][i] \notin ClaimOf(e)
      BY <1>2, <1>3, <1>4 DEF TurnPcs, ClaimOf
<1>7. ContextSound(c) /\ RequestSound(r) /\ ctx[c] \in CtxT /\ req[r] \in ReqT /\ req[r].place \in {"new", "done"}
      BY <1>0, <1>1, <1>2 DEF RInv, ContextsSound, RequestsSound, Free
<1>8. ~Held(TurnOf(c)) /\ ~Held(ClaimOf(c)) /\ ~Linked(c)
      BY <1>1, <1>7 DEF ContextSound
<1>9. ~Held(TurnFor(r))
      BY <1>2, <1>7, NotRunningNotWaiting
<1>10. /\ Elsewhere(c, r) /\ Held(TurnOf(c))' /\ Once(TurnOf(c))' /\ Held(TurnFor(r))' /\ Once(TurnFor(r))'
       /\ \A e : Same(ClaimOf(e))
  <2>1. /\ Elsewhere(c, r)
        /\ ~Held(TurnOf(c)) => Held(TurnOf(c))' /\ Once(TurnOf(c))'
        /\ ~Held(TurnFor(r)) => Held(TurnFor(r))' /\ Once(TurnFor(r))'
        /\ \A e : (\A i \in 1..1 : stack[t][i] \notin ClaimOf(e)) => Same(ClaimOf(e))
        BY <1>0, <1>3, <1>4, <1>5, <1>6, TurnBegins
  <2> QED  BY <1>6, <1>8, <1>9, <2>1
<1> DEFINE y == [ctx[c] EXCEPT !.pending = ctx[c].pending + 1]  x == [y EXCEPT !.exec = "running"]
<1>11. ctx' = [ctx EXCEPT ![c] = x]
      BY <1>0, <1>1, <1>2
<1>12. ctx[c].pending + 1 \in Int /\ ctx[c].pending \in Int /\ ctx[c].waiting \in Int
      BY <1>7 DEF CtxT
<1>13. y \in CtxT /\ y.queue = ctx[c].queue /\ y.pending = ctx[c].pending + 1 /\ y.waiting = ctx[c].waiting
      BY <1>7, <1>12, BudgetFacts
<1> HIDE DEF y
<1>14. x \in CtxT /\ x.queue = ctx[c].queue /\ x.pending = ctx[c].pending + 1 /\ x.waiting = ctx[c].waiting /\ x.exec = "running"
      BY <1>13 DEF CtxT
<1> HIDE DEF x
<1>15. ctx' \in [Contexts -> CtxT] /\ ctx'[c] = x /\ \A e \in Contexts : e # c => ctx'[e] = ctx[e]
      BY <1>0, <1>2, <1>11, <1>14
<1>16. PICK b \in BOOLEAN, w \in BOOLEAN :
           ~b /\ req' = [req EXCEPT ![r].place = "running", ![r].on = c, ![r].wake = w, ![r].internal = b]
      BY <1>1
<1> DEFINE q1 == [req[r] EXCEPT !.place = "running"]  q2 == [q1 EXCEPT !.on = c]  q3 == [q2 EXCEPT !.wake = w]
           q == [q3 EXCEPT !.internal = b]
<1>17. req' = [req EXCEPT ![r] = q]
      BY <1>16
<1>18. q1 \in ReqT /\ q1.place = "running" /\ q1.gen = req[r].gen
      BY <1>7, PlaceField
<1> HIDE DEF q1
<1>19. q2 \in ReqT /\ q2.place = "running" /\ q2.on = c /\ q2.gen = req[r].gen
      BY <1>2, <1>18, OnField
<1> HIDE DEF q2
<1>20. q3 \in ReqT /\ q3.place = "running" /\ q3.on = c /\ q3.gen = req[r].gen
      BY <1>19, WakeField
<1> HIDE DEF q3
<1>21. q \in ReqT /\ q.place = "running" /\ q.on = c /\ q.gen = req[r].gen /\ q.internal = b
      BY <1>20, InternalField
<1> HIDE DEF q
<1>22. req' \in [Reqs -> ReqT] /\ req'[r] = q /\ \A p \in Reqs : p # r => req'[p] = req[p]
      BY <1>0, <1>2, <1>17, <1>21
<1>23. Typed'
      BY <1>0, <1>1, <1>10, <1>15, <1>22 DEF Elsewhere, Typed
<1>24. \A e \in Contexts : (Linked(e)' <=> Linked(e)) /\ (LinkedOnce(e)' <=> LinkedOnce(e))
      BY <1>1 DEF Linked, LinkedOnce
<1>25. ASSUME NEW e \in Contexts PROVE ContextSound(e)' /\ QueueSound(e)'
  <2>1. ContextSound(e) /\ QueueSound(e) /\ Same(ClaimOf(e)) /\ ctx'[e].queue = ctx[e].queue
        BY <1>10, <1>14, <1>15 DEF RInv, ContextsSound, RequestsSound
  <2>2. ASSUME e = c PROVE ContextSound(e)'
    <3>1. Once(ClaimOf(c))' /\ ~Held(ClaimOf(c))'
          BY <1>8, <2>1, <2>2 DEF ContextSound, Same
    <3>2. ctx'[c].exec = "running" /\ LinkedOnce(c)' /\ ~Linked(c)'
          BY <1>7, <1>8, <1>14, <1>15, <1>2, <1>24 DEF ContextSound
    <3>3. ContextSound(c)'
          BY <1>10, <3>1, <3>2 DEF ContextSound
    <3> QED  BY <2>2, <3>3
  <2>3. ASSUME e # c PROVE ContextSound(e)'
        BY <1>10, <1>15, <1>24, <2>1, <2>3, ContextKept DEF Elsewhere
  <2>4. QueueSound(e)'
    <3>1. ctx[e].queue \in Seq(Reqs)
          BY <1>0 DEF CtxT
    <3>2. \A i \in 1..Len(ctx[e].queue) : ctx[e].queue[i] \in Reqs /\ ctx[e].queue[i] # r
          BY <1>7, <2>1, <3>1, ElementOfSeq DEF QueueSound
    <3> QED  BY <1>22, <2>1, <3>2, QueueKept
  <2> QED  BY <2>2, <2>3, <2>4
<1>26. \A p \in Reqs : RequestSound(p)' /\ WakesSound(p)'
  <2>1. ASSUME NEW p \in Reqs, p # r, req[p].place = "ready" PROVE InQueue(p)'
    <3>1. InQueue(p) /\ req[p].on \in Contexts /\ req'[p] = req[p]
          BY <1>22, <2>1 DEF RInv, RequestsSound, RequestSound
    <3>2. ctx'[req[p].on].queue = ctx[req[p].on].queue
          BY <1>14, <1>15, <3>1
    <3> QED  BY <3>1, <3>2 DEF InQueue
  <2> QED  BY <1>1, <1>2, <1>7, <1>10, <1>21, <1>22, <2>1, Started, ZenonT(40)
<1>27. Counted'
  <2>1. r \notin ExternalOn(c) /\ r \in ExternalOn(c)'
        BY <1>2, <1>7, <1>16, <1>21, <1>22 DEF ExternalOn
  <2>2. /\ One(r \in ExternalOn(c)) = 0 /\ One(r \in ExternalOn(c)') = 1
        /\ One(req'[r].place = "waiting") = 0 /\ One(req[r].place = "waiting") = 0
        BY <1>7, <1>21, <1>22, <2>1 DEF One
  <2>3. ctx'[c].pending = ctx[c].pending + One(r \in ExternalOn(c)') - One(r \in ExternalOn(c))
        BY <1>12, <1>14, <1>15, <2>2
  <2>4. waiting \in Int
    <3>1. Cardinality(WaitingReqs) \in Nat
          BY <1>2, CountOne DEF WaitingReqs
    <3> QED  BY <3>1 DEF RInv, Counted
  <2>5. /\ ctx'[c].waiting = ctx[c].waiting + One(req'[r].place = "waiting") - One(req[r].place = "waiting")
        /\ waiting' = waiting + One(req'[r].place = "waiting") - One(req[r].place = "waiting")
        BY <1>1, <1>12, <1>14, <1>15, <2>2, <2>4
  <2>6. Counted /\ (req[r].place \in Live => req[r].on = c) /\ (req'[r].place \in Live => req'[r].on = c)
        BY <1>7, <1>21, <1>22 DEF RInv, Live
  <2>7. \A e \in Contexts : e # c => ctx'[e].pending = ctx[e].pending /\ ctx'[e].waiting = ctx[e].waiting
        BY <1>15
  <2> QED  BY <1>2, <1>22, <2>3, <2>5, <2>6, <2>7, CountedMove
<1> QED  BY <1>23, <1>25, <1>26, <1>27 DEF RInv, ContextsSound, RequestsSound

-----------------------------------------------------------------------------
(* Claims. *)

LEMMA PairConcat ==
    ASSUME NEW a, NEW b
    PROVE  <<a>> \o <<b>> = <<a, b>>
<1> DEFINE S == {a, b}  p == <<a>>  q == <<b>>  s == <<a, b>>
<1>1. p \in Seq(S) /\ q \in Seq(S) /\ s \in Seq(S) /\ Len(p) = 1 /\ Len(q) = 1 /\ Len(s) = 2
      /\ p[1] = a /\ q[1] = b /\ s[1] = a /\ s[2] = b
      OBVIOUS
<1> HIDE DEF S, p, q, s
<1>2. p \o q \in Seq(S) /\ Len(p \o q) = 2 /\ (p \o q)[1] = a /\ (p \o q)[2] = b
  <2>1. /\ p \o q \in Seq(S) /\ Len(p \o q) = 1 + 1
        /\ \A i \in 1 .. 1 + 1 : (p \o q)[i] = IF i <= 1 THEN p[i] ELSE q[i - 1]
        BY <1>1, ConcatProperties
  <2> QED  BY <1>1, <2>1
<1>3. \A i \in 1..Len(p \o q) : (p \o q)[i] = s[i]
      BY <1>1, <1>2
<1> QED  BY <1>1, <1>2, <1>3, SeqEqual DEF p, q, s

(* Those who look for a context and find none. *)
LEMMA TakeNoneQuiet ==
    ASSUME StacksTyped, Below, NEW t \in Threads, At(t, "take"),
           stack' = [stack EXCEPT ![t] = <<EndBusy>> \o Idle(Tail(Tail(stack[t])))]
    PROVE  Quiet(t)
<1> DEFINE s == stack[t]  v == Tail(Tail(s))  w == Tail(v)  a == Frame("serveIdle", None, None)
<1>1. s \in Seq(FrameSet) /\ s # <<>> /\ Len(s) \in Nat /\ Len(s) >= 1 /\ s[1].pc = "take"
      BY AtTop DEF StacksTyped
<1>2. 1 < Len(s) /\ s[2].pc \in RunPcs
  <2>1. 1 \in 1..Len(s) /\ 1 + 1 = 2
        BY <1>1
  <2> QED  BY <1>1, <2>1 DEF Below
<1>3. Tail(s) \in Seq(FrameSet) /\ Len(Tail(s)) = Len(s) - 1 /\ \A i \in 1..(Len(s) - 1) : Tail(s)[i] = s[i + 1]
      BY <1>1, SeqFacts
<1>4. /\ v \in Seq(FrameSet) /\ Len(v) = Len(s) - 2
      /\ \A i \in 1..(Len(s) - 2) : v[i] = Tail(s)[i + 1]
  <2> DEFINE z == Tail(s)
  <2>1. z \in Seq(FrameSet) /\ Len(z) >= 1 /\ Len(z) - 1 = Len(s) - 2
        BY <1>1, <1>2, <1>3
  <2> HIDE DEF s, z
  <2>2. z # <<>>
        BY <2>1
  <2>3. Tail(z) \in Seq(FrameSet) /\ Len(Tail(z)) = Len(z) - 1 /\ \A i \in 1..(Len(z) - 1) : Tail(z)[i] = z[i + 1]
        BY <2>1, <2>2, SeqFacts
  <2> QED  BY <2>1, <2>3 DEF z
<1>5. \A i \in 1..Len(v) : v[i] = s[i + 2]
      BY <1>1, <1>2, <1>3, <1>4
<1>6. Cold(EndBusy) /\ Cold(a)
      BY ColdPlain DEF PlainPcs
<1> HIDE DEF s, v, a
<1>7. CASE v # <<>> /\ Head(v).pc = "serve"
  <2>1. w \in Seq(FrameSet) /\ Len(w) = Len(v) - 1 /\ Head(v) = v[1] /\ Len(v) >= 1 /\ \A i \in 1..(Len(v) - 1) : w[i] = v[i + 1]
        BY <1>4, <1>7, SeqFacts
  <2>2. Len(w) = Len(s) - 3 /\ 3 \in 0..Len(s) /\ s[3].pc = "serve" /\ \A i \in 1..Len(w) : w[i] = s[i + 3]
        BY <1>1, <1>2, <1>4, <1>5, <1>7, <2>1
  <2> HIDE DEF w
  <2>3. <<EndBusy>> \in Seq(FrameSet) /\ <<a>> \in Seq(FrameSet) /\ <<EndBusy, a>> \in Seq(FrameSet)
        BY <1>6 DEF Cold
  <2>4. <<EndBusy>> \o (<<a>> \o w) = <<EndBusy, a>> \o w
    <3>1. <<EndBusy>> \o (<<a>> \o w) = (<<EndBusy>> \o <<a>>) \o w
          BY <2>1, <2>3, ConcatAssociative
    <3>2. <<EndBusy>> \o <<a>> = <<EndBusy, a>>
          BY PairConcat
    <3> QED  BY <3>1, <3>2
  <2>5. stack' = [stack EXCEPT ![t] = <<EndBusy, a>> \o w]
        BY <1>7, <2>4 DEF Idle, s, v, w, a
  <2>6. Moved(t, <<EndBusy, a>>, 3)
        BY <2>1, <2>2, <2>3, <2>5, StackMoves DEF s
  <2>7. \A i \in 1..3 : stack[t][i].pc \notin TurnPcs \union {"claim"}
        BY <1>1, <1>2, <2>2 DEF s, RunPcs, TurnPcs
  <2>8. \A i \in 1..Len(<<EndBusy, a>>) : Cold(<<EndBusy, a>>[i])
        BY <1>6
  <2> QED  BY <2>6, <2>7, <2>8 DEF Quiet
<1>8. CASE ~(v # <<>> /\ Head(v).pc = "serve")
  <2>1. stack' = [stack EXCEPT ![t] = <<EndBusy>> \o v]
        BY <1>8 DEF Idle, s, v
  <2>2. <<EndBusy>> \in Seq(FrameSet) /\ 2 \in 0..Len(s)
        BY <1>1, <1>2, <1>6 DEF Cold
  <2>3. Moved(t, <<EndBusy>>, 2)
        BY <1>4, <1>5, <2>1, <2>2, StackMoves DEF s
  <2>4. \A i \in 1..2 : stack[t][i].pc \notin TurnPcs \union {"claim"}
        BY <1>1, <1>2 DEF s, RunPcs, TurnPcs
  <2>5. \A i \in 1..Len(<<EndBusy>>) : Cold(<<EndBusy>>[i])
        BY <1>6
  <2> QED  BY <2>3, <2>4, <2>5 DEF Quiet
<1> QED  BY <1>7, <1>8

(* Those who find one take it out of the ready queue. *)
LEMMA TakeReadyStep ==
    ASSUME RInv, NEW t \in Threads, TakeReady(t)
    PROVE  RInv'
<1>0. /\ StacksTyped /\ Below /\ armed \subseteq Timers /\ req \in [Reqs -> ReqT] /\ ctx \in [Contexts -> CtxT]
      /\ woken \subseteq Reqs \X Nat /\ ready \in Seq(Contexts)
      BY DEF RInv, Typed
<1>1. At(t, "take") /\ UNCHANGED <<ctx, req, armed, waiting, woken>>
      BY DEF TakeReady, timerVars, atomics
<1>2. CASE /\ stack' = [stack EXCEPT ![t] = <<EndBusy>> \o Idle(Tail(Tail(stack[t])))]
           /\ UNCHANGED ready
  <2>1. Quiet(t)
        BY <1>0, <1>1, <1>2, TakeNoneQuiet
  <2>2. Undisturbed
        BY <1>0, <1>1, <1>2 DEF Undisturbed
  <2> QED  BY <2>1, <2>2, QuietInvariant
<1>3. ASSUME NEW i \in 1..Len(ready), ready' = RemoveAt(ready, i), Goto(t, <<Frame("claim", ready[i], None)>>)
      PROVE  RInv'
  <2>1. PICK c, f : c = ready[i] /\ f = Frame("claim", c, None)
        OBVIOUS
  <2>2. /\ ready' \in Seq(Contexts) /\ c \in Contexts
        /\ LinkedOnce(ready[i]) => ~(\E j \in 1..Len(ready') : ready'[j] = ready[i])
        /\ \A e \in Contexts : LinkedOnce(e) => LinkedOnce(e)'
        /\ \A e \in Contexts : e # c => (Linked(e)' <=> Linked(e))
        BY <1>0, <1>3, <2>1, ReadyRemoved
  <2>3. f \in FrameSet /\ f.pc = "claim" /\ f.ctx = c
        BY <2>1, <2>2, CtxFrame DEF OnCtxPcs
  <2>4. /\ stack[t] # <<>> /\ Top(t).pc = "take" /\ Top(t) = stack[t][1]
        /\ Len(stack[t]) \in Nat /\ Len(stack[t]) >= 1
        BY <1>0, <1>1, AtTop
  <2>5. <<f>> \in Seq(FrameSet) /\ Len(<<f>>) = 1 /\ <<f>>[1] = f
        BY <2>3
  <2>6. Moved(t, <<f>>, 1)
        BY <1>0, <1>3, <2>1, <2>4, <2>5, GotoMoves
  <2>7. StacksTyped' /\ Below'
    <3>1. 1 < Len(stack[t]) /\ stack[t][1 + 1].pc \in RunPcs
      <4>1. 1 \in 1..Len(stack[t])
            BY <2>4
      <4> QED  BY <1>0, <2>4, <4>1 DEF Below
    <3>2. \A j \in 1..Len(<<f>>) : <<f>>[j].pc \in {"take", "claim"} =>
              j = Len(<<f>>) /\ 1 < Len(stack[t]) /\ stack[t][1 + 1].pc \in RunPcs
          BY <2>5, <3>1
    <3>3. Below'
          BY <1>0, <2>6, <3>2, BelowKept
    <3> QED  BY <2>6, <3>3 DEF Moved, StacksTyped
  <2>8. ASSUME NEW S, f \notin S, stack[t][1] \notin S PROVE Same(S)
        BY <1>0, <2>5, <2>6, <2>8, MovedSame
  <2>9. /\ \A e : Same(TurnOf(e)) /\ (e # c => Same(ClaimOf(e)))
        /\ \A r : Same(TurnFor(r)) /\ Same(WaitFor(r)) /\ \A e : Same(TurnAt(r, e))
    <3>1. \A e : f \notin TurnOf(e) /\ stack[t][1] \notin TurnOf(e)
          BY <2>3, <2>4 DEF TurnOf, TurnPcs
    <3>2. \A e : e # c => f \notin ClaimOf(e) /\ stack[t][1] \notin ClaimOf(e)
          BY <2>3, <2>4 DEF ClaimOf
    <3>3. \A r : f \notin TurnFor(r) /\ stack[t][1] \notin TurnFor(r) /\ f \notin WaitFor(r) /\ stack[t][1] \notin WaitFor(r)
          BY <2>3, <2>4 DEF TurnFor, WaitFor, TurnPcs
    <3>4. \A r, e : f \notin TurnAt(r, e) /\ stack[t][1] \notin TurnAt(r, e)
          BY <2>3, <2>4 DEF TurnAt, TurnPcs
    <3> QED  BY <2>8, <3>1, <3>2, <3>3, <3>4
  <2>10. \A r : NoNewWaits(r) /\ NoNewWakes(r)
    <3>1. \A r : NoNewWaits(r)
          BY <2>9 DEF Same, NoNewWaits
    <3>2. ASSUME NEW r, NEW e, NEW g PROVE Held(WakeAt(r, e, g))' => Held(WakeAt(r, e, g))
      <4>1. f \notin WakeAt(r, e, g)
            BY <2>3 DEF WakeAt
      <4> QED  BY <1>0, <2>5, <2>6, <4>1, HeldNotNew
    <3> QED  BY <3>1, <3>2 DEF NoNewWakes
  <2>11. ContextSound(c) /\ Linked(c) /\ LinkedOnce(c) /\ ~Held(ClaimOf(c)) /\ ctx[c].exec = "scheduled"
    <3>1. ContextSound(c) /\ Linked(c)
          BY <1>3, <2>1, <2>2 DEF RInv, ContextsSound, Linked
    <3> QED  BY <3>1 DEF ContextSound
  <2>12. Held(ClaimOf(c))' /\ Once(ClaimOf(c))'
    <3>1. f \in ClaimOf(c)
          BY <2>3 DEF ClaimOf
    <3>2. 1 \in 1..Len(<<f>>) /\ \A j \in 1..Len(<<f>>) : j = 1
          BY <2>5
    <3> QED  BY <1>0, <2>5, <2>6, <2>11, <3>1, <3>2, HeldBegins
  <2>13. ~Linked(c)' /\ LinkedOnce(c)'
        BY <2>1, <2>2, <2>11 DEF Linked
  <2>14. ContextSound(c)'
    <3>1. Same(TurnOf(c)) /\ ctx' = ctx
          BY <1>1, <2>9
    <3>2. Once(TurnOf(c))' /\ (ctx'[c].exec = "running" <=> Held(TurnOf(c))') /\ ctx'[c].exec = "scheduled"
          BY <2>11, <3>1 DEF ContextSound, Same
    <3> QED  BY <2>12, <2>13, <3>2 DEF ContextSound
  <2>15. \A e \in Contexts : ContextSound(e)'
    <3>1. ASSUME NEW e \in Contexts, e # c PROVE ContextSound(e)'
      <4>1. ContextSound(e) /\ ctx' = ctx /\ Same(TurnOf(e)) /\ Same(ClaimOf(e))
            BY <1>1, <2>9, <3>1 DEF RInv, ContextsSound
      <4> QED  BY <2>2, <3>1, <4>1, ContextKept
    <3> QED  BY <2>14, <3>1
  <2>16. \A e \in Contexts : QueueSound(e)'
        BY <1>1, QueueKept DEF RInv, RequestsSound
  <2>17. ASSUME NEW r \in Reqs PROVE RequestSound(r)' /\ WakesSound(r)'
    <3>1. RequestSound(r) /\ (req[r].place = "ready" => InQueue(r)')
          BY <1>1 DEF RInv, RequestsSound, RequestSound, InQueue
    <3>2. Same(TurnFor(r)) /\ \A e \in Contexts : Held(TurnAt(r, e))' => Held(TurnAt(r, e))
          BY <2>9 DEF Same
    <3>3. RequestSound(r)'
          BY <1>1, <3>1, <3>2, RequestKept
    <3>4. WakesSound(r)'
          BY <1>1, <2>10, StillWakes
    <3> QED  BY <3>3, <3>4
  <2>18. Counted'
        BY <1>1, CountedKept DEF RInv, SamePlaces
  <2>19. Typed'
        BY <1>0, <1>1, <2>2, <2>7 DEF Typed
  <2> QED  BY <2>15, <2>16, <2>17, <2>18, <2>19 DEF RInv, ContextsSound, RequestsSound
<1> QED  BY <1>2, <1>3 DEF TakeReady, Claimable

(* The hook of a context that closes. *)
LEMMA HookCold ==
    ASSUME NEW c \in Contexts, NEW x
    PROVE  LET n == <<EndBusy>> \o HookFrames(c, x)
           IN  n \in Seq(FrameSet) /\ Len(n) \in Nat /\ \A i \in 1..Len(n) : Cold(n[i])
<1> DEFINE h == Frame("hook", c, None)
<1>1. Cold(h) /\ Cold(EndBusy)
      BY CtxFrame, ColdPlain DEF OnCtxPcs, Cold, HotPcs, TurnPcs
<1> HIDE DEF h
<1>2. <<EndBusy>> \in Seq(FrameSet) /\ <<EndBusy, h>> \in Seq(FrameSet)
      BY <1>1 DEF Cold
<1>3. CASE Drained(x)
  <2>1. <<EndBusy>> \o HookFrames(c, x) = <<EndBusy, h>>
        BY <1>3, PairConcat DEF HookFrames, h
  <2>2. \A i \in 1..Len(<<EndBusy, h>>) : Cold(<<EndBusy, h>>[i])
        BY <1>1
  <2> QED  BY <1>2, <2>1, <2>2
<1>4. CASE ~Drained(x)
  <2>1. <<EndBusy>> \o HookFrames(c, x) = <<EndBusy>>
        BY <1>2, <1>4, ConcatEmptySeq DEF HookFrames
  <2>2. \A i \in 1..Len(<<EndBusy>>) : Cold(<<EndBusy>>[i])
        BY <1>1
  <2> QED  BY <1>2, <2>1, <2>2
<1> QED  BY <1>3, <1>4

(* A claim ends; the turns go on. *)
LEMMA ClaimEnds ==
    ASSUME StacksTyped, Below, NEW t \in Threads, stack[t] # <<>>, Top(t).pc = "claim", NEW n, Moved(t, n, 1),
           \A i \in 1..Len(n) : Cold(n[i]), NEW c, c = Top(t).ctx
    PROVE  /\ StacksTyped' /\ Below'
           /\ \A e : Same(TurnOf(e)) /\ (e # c => Same(ClaimOf(e)))
           /\ Once(ClaimOf(c)) => ~Held(ClaimOf(c))'
           /\ \A r : Same(TurnFor(r)) /\ \A e : Same(TurnAt(r, e))
           /\ \A r : NoNewWaits(r) /\ NoNewWakes(r)
<1>1. Top(t) \in FrameSet /\ Top(t) = stack[t][1] /\ Len(stack[t]) \in Nat /\ Len(stack[t]) >= 1
      BY TopFrame
<1>2. \A i \in 1..Len(n) : n[i] \in FrameSet /\ n[i].pc \notin HotPcs
      BY DEF Cold
<1>3. \A i \in 1..1 : stack[t][i] = Top(t)
      BY <1>1
<1>4. StacksTyped' /\ Below'
  <2>1. \A i \in 1..Len(n) : n[i].pc \notin {"take", "claim"}
        BY <1>2 DEF HotPcs
  <2>2. Below'
        BY <2>1, BelowKept
  <2> QED  BY <2>2 DEF Moved, StacksTyped
<1>5. ASSUME NEW S, \A f \in S : f.pc \in HotPcs PROVE \A i \in 1..Len(n) : n[i] \notin S
      BY <1>2, <1>5
<1>6. ASSUME NEW S, \A f \in S : f.pc \in HotPcs, Top(t) \notin S PROVE Same(S)
  <2>1. \A i \in 1..Len(n) : n[i] \notin S
        BY <1>5, <1>6
  <2> QED  BY <1>3, <1>6, <2>1, MovedSame
<1>7. \A e : Same(TurnOf(e)) /\ (e # c => Same(ClaimOf(e)))
  <2>1. \A e : (\A f \in TurnOf(e) : f.pc \in HotPcs) /\ Top(t) \notin TurnOf(e)
        BY DEF TurnOf, HotPcs, TurnPcs
  <2>2. \A e : (\A f \in ClaimOf(e) : f.pc \in HotPcs) /\ (e # c => Top(t) \notin ClaimOf(e))
        BY DEF ClaimOf, HotPcs
  <2> QED  BY <1>6, <2>1, <2>2
<1>8. Once(ClaimOf(c)) => ~Held(ClaimOf(c))'
  <2>1. \A f \in ClaimOf(c) : f.pc \in HotPcs
        BY DEF ClaimOf, HotPcs
  <2>2. \A i \in 1..Len(n) : n[i] \notin ClaimOf(c)
        BY <1>5, <2>1
  <2>3. 1 \in 1..1 /\ stack[t][1] \in ClaimOf(c)
        BY <1>1 DEF ClaimOf
  <2> QED  BY <2>2, <2>3, HeldEnds
<1>9. \A r : Same(TurnFor(r)) /\ Same(WaitFor(r)) /\ \A e : Same(TurnAt(r, e))
  <2>1. \A r : (\A f \in TurnFor(r) : f.pc \in HotPcs) /\ Top(t) \notin TurnFor(r)
        BY DEF TurnFor, HotPcs, TurnPcs
  <2>2. \A r : (\A f \in WaitFor(r) : f.pc \in HotPcs) /\ Top(t) \notin WaitFor(r)
        BY DEF WaitFor, HotPcs, TurnPcs
  <2>3. \A r, e : (\A f \in TurnAt(r, e) : f.pc \in HotPcs) /\ Top(t) \notin TurnAt(r, e)
        BY DEF TurnAt, HotPcs, TurnPcs
  <2> QED  BY <1>6, <2>1, <2>2, <2>3
<1>10. \A r : NoNewWaits(r) /\ NoNewWakes(r)
  <2>1. \A r : NoNewWaits(r)
        BY <1>9 DEF Same, NoNewWaits
  <2>2. ASSUME NEW r, NEW e, NEW g PROVE Held(WakeAt(r, e, g))' => Held(WakeAt(r, e, g))
    <3>1. \A f \in WakeAt(r, e, g) : f.pc \in HotPcs
          BY DEF WakeAt, HotPcs
    <3>2. \A i \in 1..Len(n) : n[i] \notin WakeAt(r, e, g)
          BY <1>5, <3>1
    <3> QED  BY <3>2, HeldNotNew
  <2> QED  BY <2>1, <2>2 DEF NoNewWakes
<1> QED  BY <1>4, <1>7, <1>8, <1>9, <1>10

LEMMA ExecField ==
    ASSUME NEW x \in CtxT, NEW k \in {"idle", "scheduled", "running"}
    PROVE  LET y == [x EXCEPT !.exec = k]
           IN  y \in CtxT /\ y.queue = x.queue /\ y.exec = k /\ y.pending = x.pending /\ y.waiting = x.waiting
BY DEF CtxT

LEMMA QueueField ==
    ASSUME NEW x \in CtxT, NEW s \in Seq(Reqs)
    PROVE  LET y == [x EXCEPT !.queue = s]
           IN  y \in CtxT /\ y.queue = s /\ y.exec = x.exec /\ y.pending = x.pending /\ y.waiting = x.waiting
BY DEF CtxT

(* A claim on top of a stack: its context is scheduled and not linked. *)
LEMMA TopClaim ==
    ASSUME RInv, NEW t \in Threads, At(t, "claim")
    PROVE  /\ stack[t] # <<>> /\ Top(t).pc = "claim" /\ Top(t) \in FrameSet /\ Top(t).ctx \in Contexts
           /\ Top(t) = stack[t][1] /\ 1 < Len(stack[t]) /\ Len(stack[t]) \in Nat /\ stack[t][2].pc \in RunPcs
           /\ Once(ClaimOf(Top(t).ctx)) /\ ~Linked(Top(t).ctx) /\ ~Held(TurnOf(Top(t).ctx))
           /\ ctx[Top(t).ctx].exec = "scheduled"
<1>0. StacksTyped /\ Below /\ ContextsSound
      BY DEF RInv, Typed
<1>1. /\ stack[t] # <<>> /\ Top(t).pc = "claim" /\ Top(t) \in FrameSet /\ Fit(Top(t))
      /\ Top(t) = stack[t][1] /\ Len(stack[t]) \in Nat /\ Len(stack[t]) >= 1
      BY <1>0, AtTop
<1>2. Top(t).ctx \in Contexts
      BY <1>1 DEF Fit
<1>3. 1 \in 1..Len(stack[t]) /\ 1 + 1 = 2
      BY <1>1
<1>4. 1 < Len(stack[t]) /\ stack[t][2].pc \in RunPcs
      BY <1>0, <1>1, <1>3 DEF Below
<1>5. ContextSound(Top(t).ctx)
      BY <1>0, <1>2 DEF ContextsSound
<1>6. Held(ClaimOf(Top(t).ctx))
  <2>1. stack[t][1] \in ClaimOf(Top(t).ctx)
        BY <1>1 DEF ClaimOf
  <2> QED  BY <1>3, <2>1 DEF Held
<1>7. Once(ClaimOf(Top(t).ctx)) /\ ~Linked(Top(t).ctx) /\ ctx[Top(t).ctx].exec = "scheduled"
      BY <1>5, <1>6 DEF ContextSound
<1>8. ~Held(TurnOf(Top(t).ctx))
      BY <1>5, <1>7 DEF ContextSound
<1> QED  BY <1>1, <1>2, <1>4, <1>7, <1>8

(* Its work has been discarded. *)
LEMMA ClaimNoneStep ==
    ASSUME RInv, NEW t \in Threads, Claim(t), ctx[Top(t).ctx].queue = <<>>
    PROVE  RInv'
<1>0. /\ StacksTyped /\ Below /\ armed \subseteq Timers /\ req \in [Reqs -> ReqT] /\ ctx \in [Contexts -> CtxT]
      /\ woken \subseteq Reqs \X Nat /\ ready \in Seq(Contexts)
      BY DEF RInv, Typed
<1> PICK c : c = Top(t).ctx
    OBVIOUS
<1> DEFINE x == [ctx[c] EXCEPT !.exec = "idle"]  z == CloseIfDrained(x)  n == <<EndBusy>> \o HookFrames(c, x)
<1>1. /\ At(t, "claim") /\ ctx' = [ctx EXCEPT ![c] = z] /\ Goto(t, n)
      /\ UNCHANGED <<req, ready, armed, waiting, woken>>
      BY DEF Claim, timerVars, atomics
<1>2. /\ stack[t] # <<>> /\ Top(t).pc = "claim" /\ c \in Contexts
      /\ Once(ClaimOf(c)) /\ ~Linked(c) /\ ~Held(TurnOf(c))
      BY <1>1, TopClaim
<1>3. n \in Seq(FrameSet) /\ \A i \in 1..Len(n) : Cold(n[i])
      BY <1>2, HookCold
<1> HIDE DEF n
<1>4. Moved(t, n, 1)
      BY <1>0, <1>1, <1>2, <1>3, GotoMoves
<1>5. /\ StacksTyped' /\ Below'
      /\ \A e : Same(TurnOf(e)) /\ (e # c => Same(ClaimOf(e)))
      /\ Once(ClaimOf(c)) => ~Held(ClaimOf(c))'
      /\ \A r : Same(TurnFor(r)) /\ \A e : Same(TurnAt(r, e))
      /\ \A r : NoNewWaits(r) /\ NoNewWakes(r)
      BY <1>0, <1>2, <1>3, <1>4, ClaimEnds
<1>6. x \in CtxT /\ x.queue = ctx[c].queue /\ x.exec = "idle" /\ x.pending = ctx[c].pending /\ x.waiting = ctx[c].waiting
      BY <1>0, <1>2, ExecField
<1> HIDE DEF x
<1>7. z \in CtxT /\ z.queue = ctx[c].queue /\ z.exec = "idle" /\ z.pending = ctx[c].pending /\ z.waiting = ctx[c].waiting
      BY <1>6, CloseFacts
<1> HIDE DEF z
<1>8. ctx' \in [Contexts -> CtxT] /\ ctx'[c] = z /\ \A e \in Contexts : e # c => ctx'[e] = ctx[e]
      BY <1>0, <1>1, <1>2, <1>7
<1>9. \A e \in Contexts : (Linked(e)' <=> Linked(e)) /\ (LinkedOnce(e)' <=> LinkedOnce(e))
      BY <1>1 DEF Linked, LinkedOnce
<1>10. \A e \in Contexts : /\ ctx'[e].queue = ctx[e].queue /\ ctx'[e].pending = ctx[e].pending
                           /\ ctx'[e].waiting = ctx[e].waiting
      BY <1>7, <1>8
<1>11. ContextSound(c)'
  <2>1. ContextSound(c) /\ Same(TurnOf(c)) /\ ctx'[c].exec = "idle" /\ ctx'[c].queue = <<>>
        BY <1>2, <1>5, <1>7, <1>8 DEF RInv, ContextsSound
  <2>2. Once(TurnOf(c))' /\ ~Held(TurnOf(c))' /\ LinkedOnce(c)' /\ ~Linked(c)'
        BY <1>2, <1>9, <2>1 DEF ContextSound, Same
  <2>3. ~Held(ClaimOf(c))' /\ Once(ClaimOf(c))'
        BY <1>2, <1>5, NotHeld
  <2> QED  BY <2>1, <2>2, <2>3 DEF ContextSound
<1>12. \A e \in Contexts : ContextSound(e)'
  <2>1. ASSUME NEW e \in Contexts, e # c PROVE ContextSound(e)'
    <3>1. ContextSound(e) /\ ctx'[e] = ctx[e] /\ Same(TurnOf(e)) /\ Same(ClaimOf(e))
          BY <1>5, <1>8, <2>1 DEF RInv, ContextsSound
    <3> QED  BY <1>9, <3>1, ContextKept
  <2> QED  BY <1>11, <2>1
<1>13. \A e \in Contexts : QueueSound(e)'
      BY <1>1, <1>10, QueueKept DEF RInv, RequestsSound
<1>14. ASSUME NEW r \in Reqs PROVE RequestSound(r)' /\ WakesSound(r)'
  <2>1. RequestSound(r) /\ req' = req
        BY <1>1 DEF RInv, RequestsSound
  <2>2. req[r].place = "ready" => InQueue(r)'
        BY <1>10, <2>1 DEF RequestSound, InQueue
  <2>3. Same(TurnFor(r)) /\ \A e \in Contexts : Held(TurnAt(r, e))' => Held(TurnAt(r, e))
        BY <1>5 DEF Same
  <2>4. RequestSound(r)'
        BY <2>1, <2>2, <2>3, RequestKept
  <2>5. WakesSound(r)'
        BY <1>1, <1>5, StillWakes
  <2> QED  BY <2>4, <2>5
<1>15. Counted'
      BY <1>1, <1>10, CountedKept DEF RInv, SamePlaces
<1>16. Typed'
      BY <1>0, <1>1, <1>5, <1>8 DEF Typed
<1> QED  BY <1>12, <1>13, <1>14, <1>15, <1>16 DEF RInv, ContextsSound, RequestsSound

(* The first of a queue leaves it. *)
LEMMA Dequeued ==
    ASSUME RInv, NEW c \in Contexts, NEW r \in Reqs, ctx[c].queue # <<>>, r = Head(ctx[c].queue),
           ctx'[c].queue = Tail(ctx[c].queue), \A e \in Contexts : e # c => ctx'[e].queue = ctx[e].queue,
           \A p \in Reqs : p # r => req'[p] = req[p]
    PROVE  /\ req[r].place = "ready" /\ req[r].on = c
           /\ \A e \in Contexts : QueueSound(e)'
           /\ \A p \in Reqs : p # r /\ req[p].place = "ready" => InQueue(p)'
<1>0. ctx[c] \in CtxT /\ \A e \in Contexts : ctx[e].queue \in Seq(Reqs)
      BY DEF RInv, Typed, CtxT
<1> DEFINE s == ctx[c].queue
<1>1. /\ s \in Seq(Reqs) /\ Len(s) \in Nat /\ Len(s) >= 1 /\ r = s[1] /\ Tail(s) \in Seq(Reqs)
      /\ Len(Tail(s)) = Len(s) - 1 /\ \A i \in 1..(Len(s) - 1) : Tail(s)[i] = s[i + 1]
      BY <1>0, SeqFacts
<1>2. QueueSound(c) /\ 1 \in 1..Len(s)
      BY <1>1 DEF RInv, RequestsSound
<1>3. req[r].place = "ready" /\ req[r].on = c
      BY <1>1, <1>2 DEF QueueSound
<1>4. ASSUME NEW e \in Contexts, e # c PROVE QueueSound(e)'
  <2>1. QueueSound(e) /\ ctx'[e].queue = ctx[e].queue
        BY <1>4 DEF RInv, RequestsSound
  <2>2. \A i \in 1..Len(ctx[e].queue) : ctx[e].queue[i] \in Reqs /\ req[ctx[e].queue[i]].on = e
        BY <1>0, <2>1, ElementOfSeq DEF QueueSound
  <2>3. \A i \in 1..Len(ctx[e].queue) : req'[ctx[e].queue[i]] = req[ctx[e].queue[i]]
        BY <1>3, <1>4, <2>2
  <2> QED  BY <2>1, <2>3, QueueKept
<1>5. QueueSound(c)'
  <2> DEFINE v == Tail(s)
  <2>1. v = ctx'[c].queue /\ Len(v) = Len(s) - 1 /\ \A i \in 1..Len(v) : i + 1 \in 1..Len(s) /\ v[i] = s[i + 1]
        BY <1>1
  <2>2. /\ \A i \in 1..Len(s) : s[i] \in Reqs /\ req[s[i]].place = "ready" /\ req[s[i]].on = c
        /\ \A i, j \in 1..Len(s) : s[i] = s[j] => i = j
        BY <1>1, <1>2, ElementOfSeq DEF QueueSound
  <2> HIDE DEF v, s
  <2>3. ASSUME NEW i \in 1..Len(v) PROVE req'[v[i]].place = "ready" /\ req'[v[i]].on = c
    <3>1. i + 1 \in 1..Len(s) /\ v[i] = s[i + 1] /\ i + 1 # 1
          BY <1>1, <2>1
    <3>2. s[i + 1] # s[1]
          BY <1>2, <2>2, <3>1
    <3> QED  BY <1>1, <2>2, <3>1, <3>2
  <2>4. ASSUME NEW i \in 1..Len(v), NEW j \in 1..Len(v), v[i] = v[j] PROVE i = j
    <3>1. i + 1 = j + 1
          BY <2>1, <2>2, <2>4
    <3> QED  BY <3>1
  <2> QED  BY <2>1, <2>3, <2>4 DEF QueueSound
<1>6. ASSUME NEW p \in Reqs, p # r, req[p].place = "ready" PROVE InQueue(p)'
  <2>1. InQueue(p) /\ req[p].on \in Contexts /\ req'[p] = req[p]
        BY <1>6 DEF RInv, RequestsSound, RequestSound
  <2>2. CASE req[p].on # c
        BY <2>1, <2>2 DEF InQueue
  <2>3. CASE req[p].on = c
    <3>1. PICK i \in 1..Len(s) : s[i] = p
          BY <2>1, <2>3 DEF InQueue
    <3>2. i # 1
          BY <1>1, <1>6, <3>1
    <3>3. i - 1 \in 1..(Len(s) - 1) /\ (i - 1) + 1 = i
          BY <1>1, <3>2
    <3>4. Tail(s)[i - 1] = p
          BY <1>1, <3>1, <3>3
    <3>5. i - 1 \in 1..Len(ctx'[c].queue) /\ ctx'[c].queue[i - 1] = p /\ req'[p].on = c
          BY <1>1, <2>1, <2>3, <3>3, <3>4
    <3> HIDE DEF s
    <3> QED  BY <3>5 DEF InQueue
  <2> QED  BY <2>2, <2>3
<1> QED  BY <1>3, <1>4, <1>5, <1>6

(* A claim becomes the turn of the first request. *)
LEMMA ClaimTurnStep ==
    ASSUME RInv, NEW t \in Threads, Claim(t), ctx[Top(t).ctx].queue # <<>>
    PROVE  RInv'
<1>0. /\ StacksTyped /\ Below /\ armed \subseteq Timers /\ req \in [Reqs -> ReqT] /\ ctx \in [Contexts -> CtxT]
      /\ woken \subseteq Reqs \X Nat /\ ready \in Seq(Contexts)
      BY DEF RInv, Typed
<1> PICK c, r : c = Top(t).ctx /\ r = Head(ctx[c].queue)
    OBVIOUS
<1> DEFINE n == <<StartTurn(c, r)>>  v == Tail(Tail(stack[t]))
<1>1. /\ At(t, "claim") /\ ctx[c].queue # <<>>
      /\ ctx' = [ctx EXCEPT ![c].exec = "running", ![c].queue = Tail(@)]
      /\ req' = [req EXCEPT ![r].place = "running"]
      /\ stack' = [stack EXCEPT ![t] = n \o v] /\ UNCHANGED <<ready, armed, waiting, woken>>
      BY DEF Claim, timerVars, atomics
<1>1a. ctx[c].queue # <<>> /\ woken' = woken /\ waiting' = waiting
      BY <1>1
<1>2. /\ stack[t] # <<>> /\ Top(t).pc = "claim" /\ Top(t) \in FrameSet /\ c \in Contexts
      /\ Top(t) = stack[t][1] /\ 1 < Len(stack[t]) /\ Len(stack[t]) \in Nat /\ stack[t][2].pc \in RunPcs
      /\ Once(ClaimOf(c)) /\ ~Linked(c) /\ ~Held(TurnOf(c))
      BY <1>1, TopClaim
<1>3. ctx[c] \in CtxT /\ ctx[c].queue \in Seq(Reqs) /\ r \in Reqs /\ Tail(ctx[c].queue) \in Seq(Reqs)
      BY <1>0, <1>1, <1>2, HeadTailProperties DEF CtxT
<1>4. /\ StartTurn(c, r) \in FrameSet /\ StartTurn(c, r).pc \in TurnPcs \ {"waits"}
      /\ StartTurn(c, r).ctx = c /\ StartTurn(c, r).req = r
      BY <1>2, <1>3, StartFrame
<1>5. n \in Seq(FrameSet) /\ Len(n) = 1 /\ n[1] = StartTurn(c, r)
      BY <1>4
<1> HIDE DEF n
<1>6. Moved(t, n, 2)
  <2> DEFINE s == stack[t]  z == Tail(s)
  <2>1. s \in Seq(FrameSet) /\ s # <<>> /\ Len(s) \in Nat /\ 1 < Len(s)
        BY <1>0, <1>2 DEF StacksTyped
  <2>2. z \in Seq(FrameSet) /\ Len(z) = Len(s) - 1 /\ \A i \in 1..(Len(s) - 1) : z[i] = s[i + 1]
        BY <2>1, SeqFacts
  <2> HIDE DEF s, z
  <2>3. z # <<>>
        BY <2>1, <2>2
  <2>4. Tail(z) \in Seq(FrameSet) /\ Len(Tail(z)) = Len(z) - 1 /\ \A i \in 1..(Len(z) - 1) : Tail(z)[i] = z[i + 1]
        BY <2>2, <2>3, SeqFacts
  <2>5. /\ Tail(z) \in Seq(FrameSet) /\ Len(Tail(z)) = Len(s) - 2 /\ \A i \in 1..Len(Tail(z)) : Tail(z)[i] = s[i + 2]
        /\ 2 \in 0..Len(s)
        BY <2>1, <2>2, <2>4
  <2>6. /\ v \in Seq(FrameSet) /\ Len(v) = Len(stack[t]) - 2 /\ \A i \in 1..Len(v) : v[i] = stack[t][i + 2]
        /\ 2 \in 0..Len(stack[t])
        BY <2>5 DEF s, z
  <2> HIDE DEF v
  <2> QED  BY <1>0, <1>1, <1>5, <2>6, StackMoves
<1>7. /\ \A i \in 2..Len(n) : Cold(n[i])
      /\ \A i \in 1..2 : stack[t][i].pc \notin TurnPcs
      /\ \A e : e # c => \A i \in 1..2 : stack[t][i] \notin ClaimOf(e)
      BY <1>2, <1>5 DEF TurnPcs, ClaimOf, RunPcs
<1> DEFINE y == [ctx[c] EXCEPT !.exec = "running"]  x == [y EXCEPT !.queue = Tail(ctx[c].queue)]
<1>8. ctx' = [ctx EXCEPT ![c] = x]
      BY <1>0, <1>1, <1>2
<1>9. y \in CtxT /\ y.exec = "running" /\ y.pending = ctx[c].pending /\ y.waiting = ctx[c].waiting
      BY <1>3, ExecField
<1> HIDE DEF y
<1>10. /\ x \in CtxT /\ x.queue = Tail(ctx[c].queue) /\ x.exec = "running" /\ x.pending = ctx[c].pending
       /\ x.waiting = ctx[c].waiting
      BY <1>3, <1>9, QueueField
<1> HIDE DEF x
<1>11. ctx' \in [Contexts -> CtxT] /\ ctx'[c] = x /\ \A e \in Contexts : e # c => ctx'[e] = ctx[e]
      BY <1>0, <1>2, <1>8, <1>10
<1> DEFINE q == [req[r] EXCEPT !.place = "running"]
<1>12. req' = [req EXCEPT ![r] = q] /\ req[r] \in ReqT
      BY <1>0, <1>1, <1>3
<1>13. q \in ReqT /\ q.place = "running" /\ q.on = req[r].on /\ q.gen = req[r].gen /\ q.internal = req[r].internal
      BY <1>12, PlaceField
<1> HIDE DEF q
<1>14. req' \in [Reqs -> ReqT] /\ req'[r] = q /\ \A p \in Reqs : p # r => req'[p] = req[p]
      BY <1>0, <1>3, <1>12, <1>13
<1>15. /\ req[r].place = "ready" /\ req[r].on = c
       /\ \A e \in Contexts : QueueSound(e)'
       /\ \A p \in Reqs : p # r /\ req[p].place = "ready" => InQueue(p)'
  <2>1. ctx'[c].queue = Tail(ctx[c].queue) /\ \A e \in Contexts : e # c => ctx'[e].queue = ctx[e].queue
        BY <1>10, <1>11
  <2>2. RInv /\ c \in Contexts /\ r \in Reqs /\ r = Head(ctx[c].queue) /\ \A p \in Reqs : p # r => req'[p] = req[p]
        BY <1>2, <1>3, <1>14
  <2> QED  BY ONLY <1>1a, <2>1, <2>2, Dequeued
<1>16. RequestSound(r) /\ ~Held(TurnFor(r))
  <2>1. RequestSound(r) /\ req[r].place # "running"
        BY <1>3, <1>15 DEF RInv, RequestsSound
  <2> QED  BY <1>3, <2>1, NotRunningNotWaiting
<1>17. /\ Elsewhere(c, r) /\ Held(TurnOf(c))' /\ Once(TurnOf(c))' /\ Held(TurnFor(r))' /\ Once(TurnFor(r))'
       /\ \A e : e # c => Same(ClaimOf(e))
  <2>1. /\ Elsewhere(c, r)
        /\ ~Held(TurnOf(c)) => Held(TurnOf(c))' /\ Once(TurnOf(c))'
        /\ ~Held(TurnFor(r)) => Held(TurnFor(r))' /\ Once(TurnFor(r))'
        /\ \A e : (\A i \in 1..2 : stack[t][i] \notin ClaimOf(e)) => Same(ClaimOf(e))
        BY <1>0, <1>4, <1>5, <1>6, <1>7, TurnBegins
  <2> QED  BY <1>2, <1>7, <1>16, <2>1
<1>18. ~Held(ClaimOf(c))' /\ Once(ClaimOf(c))'
  <2>1. 1 \in 1..2 /\ stack[t][1] \in ClaimOf(c) /\ \A i \in 1..Len(n) : n[i] \notin ClaimOf(c)
        BY <1>2, <1>4, <1>5, SMTT(40) DEF ClaimOf, TurnPcs
  <2>2. ~Held(ClaimOf(c))'
        BY <1>0, <1>2, <1>6, <2>1, HeldEnds
  <2> QED  BY <2>2, NotHeld
<1>19. \A e \in Contexts : (Linked(e)' <=> Linked(e)) /\ (LinkedOnce(e)' <=> LinkedOnce(e))
      BY <1>1 DEF Linked, LinkedOnce
<1>20. ContextSound(c)'
  <2>1. ctx'[c].exec = "running" /\ LinkedOnce(c)' /\ ~Linked(c)'
        BY <1>2, <1>10, <1>11, <1>19 DEF RInv, ContextsSound, ContextSound
  <2> QED  BY <1>17, <1>18, <2>1 DEF ContextSound
<1>21. \A e \in Contexts : ContextSound(e)'
  <2>1. ASSUME NEW e \in Contexts, e # c PROVE ContextSound(e)'
    <3>1. ContextSound(e) /\ ctx'[e] = ctx[e] /\ Same(TurnOf(e)) /\ Same(ClaimOf(e))
          BY <1>11, <1>17, <2>1 DEF RInv, ContextsSound, Elsewhere
    <3> QED  BY <1>19, <3>1, ContextKept
  <2> QED  BY <1>20, <2>1
<1>22. \A p \in Reqs : RequestSound(p)' /\ WakesSound(p)'
  <2>1. /\ req'[r].place = "running" /\ req'[r].on = c /\ req'[r].gen = req[r].gen
        /\ req[r].place \in {"new", "done", "ready"}
        BY <1>13, <1>14, <1>15
  <2>2. RInv /\ c \in Contexts /\ r \in Reqs /\ \A p \in Reqs : p # r => req'[p] = req[p]
        BY <1>2, <1>3, <1>14
  <2> QED  BY ONLY <1>1a, <1>15, <1>17, <2>1, <2>2, Started
<1>23. Counted'
  <2>1. r \in ExternalOn(c) <=> r \in ExternalOn(c)'
        BY <1>3, <1>13, <1>14, <1>15 DEF ExternalOn
  <2>2. /\ One(r \in ExternalOn(c)') = One(r \in ExternalOn(c)) /\ One(r \in ExternalOn(c)) \in Int
        /\ One(req'[r].place = "waiting") = 0 /\ One(req[r].place = "waiting") = 0
        BY <1>13, <1>14, <1>15, <2>1 DEF One
  <2>3. ctx[c].pending \in Int /\ ctx[c].waiting \in Int
        BY <1>3 DEF CtxT
  <2>4. ctx'[c].pending = ctx[c].pending + One(r \in ExternalOn(c)') - One(r \in ExternalOn(c))
        BY <1>10, <1>11, <2>2, <2>3
  <2>5. waiting \in Int
    <3>1. Cardinality(WaitingReqs) \in Nat
          BY <1>3, CountOne DEF WaitingReqs
    <3> QED  BY <3>1 DEF RInv, Counted
  <2>6. /\ ctx'[c].waiting = ctx[c].waiting + One(req'[r].place = "waiting") - One(req[r].place = "waiting")
        /\ waiting' = waiting + One(req'[r].place = "waiting") - One(req[r].place = "waiting")
        BY <1>1a, <1>10, <1>11, <2>2, <2>3, <2>5
  <2>7. Counted /\ (req[r].place \in Live => req[r].on = c) /\ (req'[r].place \in Live => req'[r].on = c)
        BY <1>13, <1>14, <1>15 DEF RInv
  <2>8. \A e \in Contexts : e # c => ctx'[e].pending = ctx[e].pending /\ ctx'[e].waiting = ctx[e].waiting
        BY <1>11
  <2> QED  BY <1>2, <1>3, <1>14, <2>4, <2>6, <2>7, <2>8, CountedMove
<1>24. Typed'
      BY <1>0, <1>1, <1>11, <1>14, <1>17 DEF Elsewhere, Typed
<1> QED  BY <1>15, <1>21, <1>22, <1>23, <1>24 DEF RInv, ContextsSound, RequestsSound

-----------------------------------------------------------------------------
(* A turn ends. *)

(* A turn that has ended leaves its context idle, or linked if it has work. *)
LEMMA ReleasedContext ==
    ASSUME NEW c \in Contexts, ready \in Seq(Contexts), ContextSound(c), ctx[c].exec = "running",
           ~Held(TurnOf(c))', Same(ClaimOf(c)), NEW y \in CtxT, y.exec = "idle",
           ctx'[c].exec = Schedule(y).exec, ctx'[c].queue = y.queue, ready' = LinkReady(c, y)
    PROVE  ContextSound(c)'
<1>1. ~Held(ClaimOf(c)) /\ ~Linked(c) /\ LinkedOnce(c)
      BY DEF ContextSound
<1>2. ~Held(ClaimOf(c))' /\ Once(ClaimOf(c))' /\ Once(TurnOf(c))'
      BY <1>1, NotHeld DEF Same
<1>3. Schedule(y).exec = IF Schedules(y) THEN "scheduled" ELSE y.exec
      BY ScheduleFacts
<1>4. CASE y.queue # <<>>
  <2>1. Schedules(y)
        BY <1>4 DEF Schedules
  <2>2. ctx'[c].exec = "scheduled" /\ ready' = Append(ready, c)
        BY <1>3, <2>1 DEF LinkReady
  <2>3. Linked(c)' /\ LinkedOnce(c)'
        BY <1>1, <2>2, ReadyAppend
  <2> QED  BY <1>2, <2>2, <2>3 DEF ContextSound
<1>5. CASE y.queue = <<>>
  <2>1. ~Schedules(y)
        BY <1>5 DEF Schedules
  <2>2. ctx'[c].exec = "idle" /\ ready' = ready
        BY <1>3, <2>1 DEF LinkReady
  <2>3. ~Linked(c)' /\ LinkedOnce(c)'
        BY <1>1, <2>2 DEF Linked, LinkedOnce
  <2> QED  BY <1>2, <1>5, <2>2, <2>3 DEF ContextSound
<1> QED  BY <1>4, <1>5

(* A request that has run is done or waits. *)
LEMMA Left ==
    ASSUME RInv, NEW c \in Contexts, NEW r \in Reqs, req[r].place = "running", req[r].on = c, Elsewhere(c, r),
           ~Held(TurnFor(r))', \A e \in Contexts : ctx'[e].queue = ctx[e].queue,
           \A p \in Reqs : p # r => req'[p] = req[p], req'[r].place \in {"done", "waiting"}, req'[r].on = c
    PROVE  (\A e \in Contexts : QueueSound(e)') /\ \A p \in Reqs : RequestSound(p)'
<1>1. ASSUME NEW e \in Contexts PROVE QueueSound(e)'
  <2>1. QueueSound(e) /\ ctx'[e].queue = ctx[e].queue /\ ctx[e].queue \in Seq(Reqs)
        BY DEF RInv, RequestsSound, Typed, CtxT
  <2>2. \A i \in 1..Len(ctx[e].queue) : ctx[e].queue[i] \in Reqs /\ req[ctx[e].queue[i]].place = "ready"
        BY <2>1, ElementOfSeq DEF QueueSound
  <2>3. \A i \in 1..Len(ctx[e].queue) : req'[ctx[e].queue[i]] = req[ctx[e].queue[i]]
        BY <2>2
  <2> QED  BY <2>1, <2>3, QueueKept
<1>2. ASSUME NEW p \in Reqs, p # r PROVE RequestSound(p)'
  <2>1. RequestSound(p) /\ req'[p] = req[p] /\ Same(TurnFor(p))
        BY <1>2 DEF RInv, RequestsSound, Elsewhere
  <2>2. req[p].place = "ready" => InQueue(p)'
    <3>1. req[p].place = "ready" => InQueue(p) /\ req[p].on \in Contexts
          BY <2>1 DEF RequestSound
    <3> QED  BY <2>1, <3>1 DEF InQueue
  <2>3. \A e \in Contexts : Held(TurnAt(p, e))' => Held(TurnAt(p, e))
        BY <1>2 DEF Elsewhere
  <2> QED  BY <2>1, <2>2, <2>3, RequestKept
<1>3. RequestSound(r)'
  <2>1. Once(TurnFor(r))'
        BY NotHeld
  <2>2. ASSUME NEW e \in Contexts PROVE ~Held(TurnAt(r, e))'
    <3>1. TurnAt(r, e) \subseteq TurnFor(r)
          BY DEF TurnAt, TurnFor
    <3> QED  BY <3>1, HeldSub
  <2> QED  BY <2>1, <2>2 DEF RequestSound
<1> QED  BY <1>1, <1>2, <1>3

(* A request that waits was not woken, and one that does not wait has no    *)
(* wait prepared any more.                                                  *)
LEMMA WakesAfterTurn ==
    ASSUME NEW r \in Reqs, WakesSound(r), NoNewWakes(r), ~Held(TurnFor(r))', woken' = woken,
           req[r].gen \in Nat, req'[r].gen \in Nat, req'[r].gen >= req[r].gen, req'[r].on = req[r].on,
           req'[r].place = "waiting" => req'[r].gen = req[r].gen /\ Held(WaitFor(r)) /\ <<r, req[r].gen>> \notin woken
    PROVE  WakesSound(r)'
<1>1. ~Held(WaitFor(r))'
  <2>1. WaitFor(r) \subseteq TurnFor(r)
        BY DEF WaitFor, TurnFor, TurnPcs
  <2> QED  BY <2>1, HeldSub
<1>2. \A g \in Nat : <<r, g>> \in woken' => g <= req'[r].gen
  <2>1. \A g \in Nat : <<r, g>> \in woken => g <= req[r].gen
        BY DEF WakesSound
  <2> QED  BY <2>1
<1>3. ASSUME NEW e \in Contexts, NEW g \in Nat, Held(WakeAt(r, e, g))'
      PROVE  g <= req'[r].gen /\ (g = req'[r].gen /\ InWait(r)' => req'[r].on = e)
  <2>1. Held(WakeAt(r, e, g))
        BY <1>3 DEF NoNewWakes
  <2>2. g <= req[r].gen /\ (g = req[r].gen /\ InWait(r) => req[r].on = e)
        BY <2>1 DEF WakesSound
  <2>3. InWait(r)' => req'[r].gen = req[r].gen /\ InWait(r)
        BY <1>1 DEF InWait
  <2>4. g <= req'[r].gen
        BY <2>2
  <2> QED  BY <2>2, <2>3, <2>4
<1>4. req'[r].place = "waiting" => <<r, req'[r].gen>> \notin woken'
      OBVIOUS
<1> QED  BY <1>1, <1>2, <1>3, <1>4 DEF WakesSound

(* Release, for the request q and the context x that the outcome leaves. *)
LEMMA ReleaseStep ==
    ASSUME RInv, NEW t \in Threads, stack[t] # <<>>, Top(t).pc \in TurnPcs, NEW c, NEW r, c = Top(t).ctx, r = Top(t).req,
           NEW x \in CtxT, NEW q \in ReqT, Release(t, x, q),
           \/ q.place = "ready" /\ x.queue = Append(ctx[c].queue, r)
           \/ q.place \in {"done", "waiting"} /\ x.queue = ctx[c].queue,
           q.on = c, q.gen >= req[r].gen,
           q.place = "waiting" => q.gen = req[r].gen /\ Held(WaitFor(r)) /\ <<r, req[r].gen>> \notin woken,
           q.internal = req[r].internal,
           x.pending = ctx[c].pending - One(q.place = "done" /\ ~q.internal),
           x.waiting = ctx[c].waiting + One(q.place = "waiting"), waiting' = waiting + One(q.place = "waiting")
    PROVE  RInv'
<1>0. /\ StacksTyped /\ Below /\ armed \subseteq Timers /\ req \in [Reqs -> ReqT] /\ ctx \in [Contexts -> CtxT]
      /\ woken \subseteq Reqs \X Nat /\ ready \in Seq(Contexts)
      BY DEF RInv, Typed
<1> DEFINE y == [x EXCEPT !.exec = "idle"]  s == Schedule(y)  z == CloseIfDrained(s)  n == <<EndBusy>> \o HookFrames(c, s)
<1>1. /\ ctx' = [ctx EXCEPT ![c] = z] /\ ready' = LinkReady(c, y) /\ req' = [req EXCEPT ![r] = q] /\ Goto(t, n)
      BY DEF Release
<1>1a. woken' = woken /\ armed' = armed
      BY DEF Release, timerVars
<1>2. /\ c \in Contexts /\ r \in Reqs /\ ctx[c].exec = "running" /\ req[r].place = "running" /\ req[r].on = c
      BY TopTurn
<1>3. y \in CtxT /\ y.queue = x.queue /\ y.exec = "idle" /\ y.pending = x.pending /\ y.waiting = x.waiting
      BY ExecField
<1> HIDE DEF y
<1>4. s \in CtxT /\ s.queue = x.queue /\ s.pending = x.pending /\ s.waiting = x.waiting
      BY <1>3, ScheduleFacts
<1>5. n \in Seq(FrameSet) /\ \A i \in 1..Len(n) : Cold(n[i])
      BY <1>2, HookCold
<1> HIDE DEF n
<1>6. /\ z \in CtxT /\ z.exec = Schedule(y).exec /\ z.queue = x.queue /\ z.pending = x.pending /\ z.waiting = x.waiting
      BY <1>4, CloseFacts
<1> HIDE DEF s, z
<1>7. ctx' \in [Contexts -> CtxT] /\ ctx'[c] = z /\ \A e \in Contexts : e # c => ctx'[e] = ctx[e]
      BY <1>0, <1>1, <1>2, <1>6
<1>8. req' \in [Reqs -> ReqT] /\ req'[r] = q /\ \A p \in Reqs : p # r => req'[p] = req[p]
      BY <1>0, <1>1, <1>2
<1>9. Moved(t, n, 1)
      BY <1>0, <1>1, <1>5, GotoMoves
<1>10. /\ Elsewhere(c, r) /\ ~Held(TurnOf(c))' /\ ~Held(TurnFor(r))' /\ \A e : Same(ClaimOf(e))
  <2>1. /\ Elsewhere(c, r)
        /\ Once(TurnOf(c)) => ~Held(TurnOf(c))'
        /\ Once(TurnFor(r)) => ~Held(TurnFor(r))'
        /\ \A e : Same(ClaimOf(e))
        BY <1>0, <1>5, <1>9, TurnEnds
  <2>2. Once(TurnOf(c)) /\ Once(TurnFor(r))
        BY <1>2 DEF RInv, ContextsSound, ContextSound, RequestsSound, RequestSound
  <2> QED  BY <2>1, <2>2
<1>11. ready' = LinkReady(c, y)
      BY <1>1
<1>12. /\ ready' \in Seq(Contexts)
       /\ \A e \in Contexts : e # c => (Linked(e)' <=> Linked(e)) /\ (LinkedOnce(e) => LinkedOnce(e)')
      BY <1>0, <1>2, <1>11, LinkOthers
<1>13. ContextSound(c)'
  <2>1. ContextSound(c) /\ ctx'[c].exec = Schedule(y).exec /\ ctx'[c].queue = y.queue /\ Same(ClaimOf(c))
        BY <1>2, <1>3, <1>6, <1>7, <1>10 DEF RInv, ContextsSound
  <2> QED  BY <1>0, <1>2, <1>3, <1>10, <1>11, <2>1, ReleasedContext
<1>14. \A e \in Contexts : ContextSound(e)'
  <2>1. ASSUME NEW e \in Contexts, e # c PROVE ContextSound(e)'
    <3>1. ContextSound(e) /\ ctx'[e] = ctx[e] /\ Same(TurnOf(e)) /\ Same(ClaimOf(e))
          BY <1>7, <1>10, <2>1 DEF RInv, ContextsSound, Elsewhere
    <3> QED  BY <1>12, <2>1, <3>1, ContextKept
  <2> QED  BY <1>13, <2>1
<1>15. (\A e \in Contexts : QueueSound(e)') /\ \A p \in Reqs : RequestSound(p)'
  <2>1. \A e \in Contexts : e # c => ctx'[e].queue = ctx[e].queue
        BY <1>7
  <2>2. req'[r].on = c /\ req'[r].place = q.place /\ ctx'[c].queue = x.queue
        BY <1>6, <1>7, <1>8
  <2>3. CASE q.place = "ready" /\ x.queue = Append(ctx[c].queue, r)
    <3>1. \A p \in Reqs : p # r => Same(TurnFor(p)) /\ \A e : Held(TurnAt(p, e))' => Held(TurnAt(p, e))
          BY <1>10 DEF Elsewhere
    <3>2. \A p \in Reqs : p # r => req'[p] = req[p]
          BY <1>8
    <3>3. req'[r].place = "ready" /\ req[r].place # "ready" /\ ctx'[c].queue = Append(ctx[c].queue, r) /\ ~Held(TurnFor(r))'
          BY <1>2, <1>10, <2>2, <2>3
    <3> QED  BY <1>2, <2>1, <2>2, <3>1, <3>2, <3>3, Enqueued
  <2>4. CASE q.place \in {"done", "waiting"} /\ x.queue = ctx[c].queue
    <3>1. \A e \in Contexts : ctx'[e].queue = ctx[e].queue
          BY <2>1, <2>2, <2>4
    <3>2. \A p \in Reqs : p # r => req'[p] = req[p]
          BY <1>8
    <3> QED  BY <1>2, <1>10, <2>2, <2>4, <3>1, <3>2, Left
  <2> QED  BY <2>3, <2>4
<1>16. \A p \in Reqs : WakesSound(p)'
  <2>1. ASSUME NEW p \in Reqs, p # r PROVE WakesSound(p)'
    <3>1. req'[p] = req[p] /\ NoNewWaits(p) /\ NoNewWakes(p)
          BY <1>8, <1>10, <2>1 DEF Elsewhere
    <3> QED  BY <1>1a, <3>1, StillWakes
  <2>2. WakesSound(r)'
    <3>1. WakesSound(r) /\ NoNewWakes(r) /\ ~Held(TurnFor(r))'
          BY <1>2, <1>10 DEF RInv, RequestsSound, Elsewhere
    <3>2. req[r].gen \in Nat /\ q.gen \in Nat
          BY <1>0, <1>2 DEF ReqT
    <3>3. /\ req'[r].gen = q.gen /\ req'[r].on = req[r].on /\ req'[r].place = q.place
          BY <1>2, <1>8
    <3> QED  BY <1>1a, <1>2, <3>1, <3>2, <3>3, WakesAfterTurn
  <2> QED  BY <2>1, <2>2
<1>17. Counted'
  <2>1. (r \in ExternalOn(c) <=> ~q.internal) /\ (r \in ExternalOn(c)' <=> ~q.internal /\ q.place # "done")
        BY <1>2, <1>8 DEF ExternalOn
  <2>2. One(r \in ExternalOn(c)') - One(r \in ExternalOn(c)) = 0 - One(q.place = "done" /\ ~q.internal)
        BY <2>1 DEF One
  <2>3. /\ One(r \in ExternalOn(c)') \in Int /\ One(r \in ExternalOn(c)) \in Int /\ One(q.place = "done" /\ ~q.internal) \in Int
        /\ One(q.place = "waiting") \in Int
        BY DEF One
  <2>4. ctx[c].pending \in Int /\ ctx[c].waiting \in Int
        BY <1>0, <1>2 DEF CtxT
  <2>5. ctx'[c].pending = ctx[c].pending - One(q.place = "done" /\ ~q.internal)
        BY <1>6, <1>7
  <2>6. ctx'[c].pending = ctx[c].pending + One(r \in ExternalOn(c)') - One(r \in ExternalOn(c))
    <3>1. \A a, b, k, m \in Int : a - b = 0 - k => m - k = m + a - b
          OBVIOUS
    <3> QED  BY <2>2, <2>3, <2>4, <2>5, <3>1
  <2>7. waiting \in Int
    <3>1. Cardinality(WaitingReqs) \in Nat
          BY <1>2, CountOne DEF WaitingReqs
    <3> QED  BY <3>1 DEF RInv, Counted
  <2>8. One(req[r].place = "waiting") = 0 /\ One(req'[r].place = "waiting") = One(q.place = "waiting")
        BY <1>2, <1>8 DEF One
  <2>9. ctx'[c].waiting = ctx[c].waiting + One(q.place = "waiting")
        BY <1>6, <1>7
  <2>10. /\ ctx'[c].waiting = ctx[c].waiting + One(req'[r].place = "waiting") - One(req[r].place = "waiting")
         /\ waiting' = waiting + One(req'[r].place = "waiting") - One(req[r].place = "waiting")
    <3>1. \A a, b \in Int : a + b = a + b - 0
          OBVIOUS
    <3> QED  BY <2>3, <2>4, <2>7, <2>8, <2>9, <3>1
  <2>11. Counted /\ (req[r].place \in Live => req[r].on = c) /\ (req'[r].place \in Live => req'[r].on = c)
        BY <1>2, <1>8 DEF RInv
  <2>12. \A e \in Contexts : e # c => ctx'[e].pending = ctx[e].pending /\ ctx'[e].waiting = ctx[e].waiting
        BY <1>7
  <2>13. \A p \in Reqs : p # r => req'[p] = req[p]
        BY <1>8
  <2> QED  BY ONLY <1>2, <2>6, <2>10, <2>11, <2>12, <2>13, CountedMove
<1>18. Typed'
      BY <1>0, <1>1a, <1>7, <1>8, <1>10, <1>12 DEF Elsewhere, Typed
<1> QED  BY <1>14, <1>15, <1>16, <1>17, <1>18 DEF RInv, ContextsSound, RequestsSound

LEMMA FinishDoneStep ==
    ASSUME RInv, NEW t \in Threads, FinishDone(t)
    PROVE  RInv'
<1>0. StacksTyped /\ req \in [Reqs -> ReqT] /\ ctx \in [Contexts -> CtxT]
      BY DEF RInv, Typed
<1> PICK c, r : c = Top(t).ctx /\ r = Top(t).req
    OBVIOUS
<1>1. stack[t] # <<>> /\ Top(t).pc \in TurnPcs
      BY <1>0 DEF FinishDone, At, TurnPcs
<1>2. c \in Contexts /\ r \in Reqs /\ req[r].on = c /\ req[r] \in ReqT /\ ctx[c] \in CtxT
      BY <1>0, <1>1, TopTurn
<1>3. PICK w \in BOOLEAN, k \in {0, 1} :
          /\ k = (IF req[r].internal THEN 0 ELSE 1) /\ waiting' = waiting
          /\ Release(t, [ctx[c] EXCEPT !.pending = ctx[c].pending - k], [req[r] EXCEPT !.place = "done", !.wake = w])
  <2>1. /\ waiting' = waiting
        /\ Release(t, [ctx[c] EXCEPT !.pending = ctx[c].pending - (IF req[r].internal THEN 0 ELSE 1)],
                      [req[r] EXCEPT !.place = "done", !.wake = FALSE])
        BY DEF FinishDone
  <2>2. (IF req[r].internal THEN 0 ELSE 1) \in {0, 1} /\ FALSE \in BOOLEAN
        OBVIOUS
  <2> QED  BY <2>1, <2>2, Zenon
<1> DEFINE x == [ctx[c] EXCEPT !.pending = ctx[c].pending - k]  p == [req[r] EXCEPT !.place = "done"]  q == [p EXCEPT !.wake = w]
<1>4. Release(t, x, q)
      BY <1>3
<1>5. ctx[c].pending - k \in Int /\ ctx[c].waiting \in Int /\ req[r].gen \in Nat
      BY <1>2 DEF CtxT, ReqT
<1>6. x \in CtxT /\ x.queue = ctx[c].queue /\ x.pending = ctx[c].pending - k /\ x.waiting = ctx[c].waiting
      BY <1>2, <1>5, BudgetFacts
<1>7. p \in ReqT /\ p.place = "done" /\ p.on = c /\ p.gen = req[r].gen /\ p.internal = req[r].internal
      BY <1>2, PlaceField
<1> HIDE DEF p, x
<1>8. q \in ReqT /\ q.place = "done" /\ q.on = c /\ q.gen = req[r].gen /\ q.internal = req[r].internal
      BY <1>7, WakeField
<1> HIDE DEF q
<1>9. One(q.place = "done" /\ ~q.internal) = k /\ One(q.place = "waiting") = 0
      BY <1>3, <1>8 DEF One
<1>10. waiting \in Int
  <2>1. Cardinality(WaitingReqs) \in Nat
        BY <1>2, CountOne DEF WaitingReqs
  <2> QED  BY <2>1 DEF RInv, Counted
<1>11. /\ x.pending = ctx[c].pending - One(q.place = "done" /\ ~q.internal)
       /\ x.waiting = ctx[c].waiting + One(q.place = "waiting") /\ waiting' = waiting + One(q.place = "waiting")
      BY <1>3, <1>5, <1>6, <1>9, <1>10
<1>12. q.gen >= req[r].gen /\ q.place # "waiting" /\ q.place \in {"done", "waiting"}
      BY <1>5, <1>8
<1> QED  BY <1>1, <1>4, <1>6, <1>8, <1>11, <1>12, ReleaseStep

LEMMA YieldStep ==
    ASSUME RInv, NEW t \in Threads, stack[t] # <<>>, Top(t).pc \in TurnPcs, NEW c, NEW r, c = Top(t).ctx, r = Top(t).req,
           NEW q \in ReqT, Release(t, Queued(ctx[c], r), q), q.place = "ready", q.on = c, q.gen >= req[r].gen,
           q.internal = req[r].internal, waiting' = waiting
    PROVE  RInv'
<1>1. c \in Contexts /\ r \in Reqs /\ ctx[c] \in CtxT
      BY TopTurn DEF RInv, Typed
<1> DEFINE x == Queued(ctx[c], r)
<1>2. x \in CtxT /\ x.queue = Append(ctx[c].queue, r) /\ x.pending = ctx[c].pending /\ x.waiting = ctx[c].waiting
      BY <1>1, QueuedFacts
<1>3. Release(t, x, q)
      OBVIOUS
<1> HIDE DEF x
<1>4. One(q.place = "done" /\ ~q.internal) = 0 /\ One(q.place = "waiting") = 0
      BY DEF One
<1>5. waiting \in Int /\ ctx[c].pending \in Int /\ ctx[c].waiting \in Int
  <2>1. Cardinality(WaitingReqs) \in Nat
        BY <1>1, CountOne DEF WaitingReqs
  <2> QED  BY <1>1, <2>1 DEF RInv, Counted, CtxT
<1>6. /\ x.pending = ctx[c].pending - One(q.place = "done" /\ ~q.internal)
      /\ x.waiting = ctx[c].waiting + One(q.place = "waiting") /\ waiting' = waiting + One(q.place = "waiting")
      BY <1>2, <1>4, <1>5
<1> QED  BY <1>2, <1>3, <1>6, ReleaseStep

LEMMA FinishYieldStep ==
    ASSUME RInv, NEW t \in Threads, FinishYield(t)
    PROVE  RInv'
<1>0. StacksTyped /\ req \in [Reqs -> ReqT] /\ ctx \in [Contexts -> CtxT]
      BY DEF RInv, Typed
<1> PICK c, r : c = Top(t).ctx /\ r = Top(t).req
    OBVIOUS
<1>1. stack[t] # <<>> /\ Top(t).pc \in TurnPcs
      BY <1>0 DEF FinishYield, At, TurnPcs
<1>2. c \in Contexts /\ r \in Reqs /\ req[r].on = c /\ req[r] \in ReqT
      BY <1>0, <1>1, TopTurn
<1> DEFINE q == [req[r] EXCEPT !.place = "ready"]
<1>3. Release(t, Queued(ctx[c], r), q) /\ waiting' = waiting
      BY DEF FinishYield
<1>4. q \in ReqT /\ q.place = "ready" /\ q.on = c /\ q.gen = req[r].gen /\ q.internal = req[r].internal
      BY <1>2, PlaceField
<1> HIDE DEF q
<1>5. q.gen >= req[r].gen
      BY <1>2, <1>4 DEF ReqT
<1> QED  BY <1>1, <1>3, <1>4, <1>5, YieldStep

LEMMA FinishWaitStep ==
    ASSUME RInv, NEW t \in Threads, FinishWait(t)
    PROVE  RInv'
<1>0. StacksTyped /\ req \in [Reqs -> ReqT] /\ ctx \in [Contexts -> CtxT]
      BY DEF RInv, Typed
<1> PICK c, r : c = Top(t).ctx /\ r = Top(t).req
    OBVIOUS
<1>1. stack[t] # <<>> /\ Top(t).pc \in TurnPcs /\ Top(t).pc = "waits"
      BY <1>0 DEF FinishWait, At, TurnPcs
<1>2. c \in Contexts /\ r \in Reqs /\ req[r].on = c /\ req[r] \in ReqT /\ ctx[c] \in CtxT /\ Held(WaitFor(r))
      BY <1>0, <1>1, TopTurn
<1>3. CASE req[r].wake
  <2>1. PICK w \in BOOLEAN :
            /\ Release(t, Queued(ctx[c], r), [req[r] EXCEPT !.place = "ready", !.wake = w, !.gen = @ + 1])
            /\ waiting' = waiting
    <3>1. /\ Release(t, Queued(ctx[c], r), [req[r] EXCEPT !.place = "ready", !.wake = FALSE, !.gen = @ + 1])
          /\ waiting' = waiting
          BY <1>3 DEF FinishWait
    <3>2. FALSE \in BOOLEAN
          OBVIOUS
    <3> QED  BY <3>1, <3>2, Zenon
  <2> DEFINE a == [req[r] EXCEPT !.place = "ready"]  b == [a EXCEPT !.wake = w]  q == [b EXCEPT !.gen = @ + 1]
  <2>2. Release(t, Queued(ctx[c], r), q)
        BY <2>1
  <2>3. a \in ReqT /\ a.place = "ready" /\ a.on = c /\ a.gen = req[r].gen /\ a.internal = req[r].internal
        BY <1>2, PlaceField
  <2> HIDE DEF a
  <2>4. b \in ReqT /\ b.place = "ready" /\ b.on = c /\ b.gen = req[r].gen /\ b.internal = req[r].internal
        BY <2>3, WakeField
  <2> HIDE DEF b
  <2>5. q \in ReqT /\ q.place = "ready" /\ q.on = c /\ q.gen = req[r].gen + 1 /\ q.internal = req[r].internal
        BY <2>4, GenField
  <2> HIDE DEF q
  <2>6. q.gen >= req[r].gen
        BY <1>2, <2>5 DEF ReqT
  <2> QED  BY <1>1, <2>1, <2>2, <2>5, <2>6, YieldStep
<1>4. CASE ~req[r].wake
  <2> DEFINE x == [ctx[c] EXCEPT !.waiting = ctx[c].waiting + 1]  q == [req[r] EXCEPT !.place = "waiting"]
  <2>1. Release(t, x, q) /\ waiting' = waiting + 1
        BY <1>4 DEF FinishWait
  <2>2. ctx[c].waiting + 1 \in Int /\ ctx[c].pending \in Int /\ req[r].gen \in Nat
        BY <1>2 DEF CtxT, ReqT
  <2>3. x \in CtxT /\ x.queue = ctx[c].queue /\ x.pending = ctx[c].pending /\ x.waiting = ctx[c].waiting + 1
        BY <1>2, <2>2, BudgetFacts
  <2>4. q \in ReqT /\ q.place = "waiting" /\ q.on = c /\ q.gen = req[r].gen /\ q.internal = req[r].internal
        BY <1>2, PlaceField
  <2> HIDE DEF x, q
  <2>5. One(q.place = "done" /\ ~q.internal) = 0 /\ One(q.place = "waiting") = 1
        BY <2>4 DEF One
  <2>6. /\ x.pending = ctx[c].pending - One(q.place = "done" /\ ~q.internal)
        /\ x.waiting = ctx[c].waiting + One(q.place = "waiting") /\ waiting' = waiting + One(q.place = "waiting")
        BY <2>1, <2>2, <2>3, <2>5
  <2>7. <<r, req[r].gen>> \notin woken
        BY <1>2, <1>4 DEF RInv, RequestsSound, WakesSound
  <2>8. q.gen >= req[r].gen /\ q.place \in {"done", "waiting"}
        BY <2>2, <2>4
  <2> QED  BY <1>1, <1>2, <2>1, <2>3, <2>4, <2>6, <2>7, <2>8, ReleaseStep
<1> QED  BY <1>3, <1>4

-----------------------------------------------------------------------------
(* A context is closed. *)

(* A queue has as many places as it has requests. *)
LEMMA CountPlaces ==
    ASSUME NEW s \in Seq(Reqs), \A i, j \in 1..Len(s) : s[i] = s[j] => i = j, NEW S
    PROVE  LET I == {i \in 1..Len(s) : s[i] \in S}
               Q == {p \in S : \E i \in 1..Len(s) : s[i] = p}
           IN  Cardinality(I) = Cardinality(Q) /\ Cardinality(I) \in Nat
<1> DEFINE I == {i \in 1..Len(s) : s[i] \in S}  Q == {p \in S : \E i \in 1..Len(s) : s[i] = p}
           f == [i \in I |-> s[i]]
<1>1. Len(s) \in Nat
      OBVIOUS
<1>2. IsFiniteSet(I) /\ Cardinality(I) \in Nat
  <2>1. IsFiniteSet(1..Len(s)) /\ I \subseteq 1..Len(s)
        BY <1>1, FS_Interval
  <2> QED  BY <2>1, FS_Subset, FS_CardinalityType
<1>3. f \in [I -> Q] /\ \A i \in I : f[i] = s[i] /\ i \in 1..Len(s)
      OBVIOUS
<1>4. \A p \in Q : \E i \in I : s[i] = p
      OBVIOUS
<1> HIDE DEF f, I, Q
<1>5. \A i, j \in I : f[i] = f[j] => i = j
      BY <1>3
<1>6. \A p \in Q : \E i \in I : f[i] = p
      BY <1>3, <1>4
<1>7. f \in Bijection(I, Q)
  <2>1. DOMAIN f = I
        BY <1>3
  <2>2. f \in Injection(I, Q)
        BY <1>3, <1>5, <2>1 DEF Injection, IsInjective
  <2>3. f \in Surjection(I, Q)
        BY <1>3, <1>6 DEF Surjection
  <2> QED  BY <2>2, <2>3 DEF Bijection
<1>8. ExistsBijection(I, Q)
      BY <1>7 DEF ExistsBijection
<1>9. Cardinality(Q) = Cardinality(I)
      BY <1>2, <1>8, FS_Bijection
<1> QED  BY <1>2, <1>9 DEF I, Q

ExternalPlaces(c) == {i \in 1..Len(ctx[c].queue) : ~req[ctx[c].queue[i]].internal}

(* closeDiscarding empties the queue. *)
LEMMA DiscardFacts ==
    ASSUME NEW c, ctx[c] \in CtxT, Cardinality(ExternalPlaces(c)) \in Nat
    PROVE  /\ Discard(c) \in CtxT /\ Discard(c).queue = <<>> /\ Discard(c).waiting = ctx[c].waiting
           /\ Discard(c).exec = IF ctx[c].exec = "scheduled" /\ Linked(c) THEN "idle" ELSE ctx[c].exec
           /\ Discard(c).pending = ctx[c].pending - Cardinality(ExternalPlaces(c))
<1> DEFINE k == Cardinality(ExternalPlaces(c))
           m == IF ctx[c].exec = "scheduled" /\ Linked(c) THEN "idle" ELSE ctx[c].exec
           a == [ctx[c] EXCEPT !.life = "draining"]
           b == [a EXCEPT !.queue = <<>>]
           d == [b EXCEPT !.pending = ctx[c].pending - k]
           e == [d EXCEPT !.exec = m]
<1>1. Discard(c) = e
      BY DEF Discard, ExternalPlaces
<1>2. m \in {"idle", "scheduled", "running"} /\ ctx[c].pending - k \in Int
      BY DEF CtxT
<1> HIDE DEF k, m
<1>3. a \in CtxT /\ a.exec = ctx[c].exec /\ a.pending = ctx[c].pending /\ a.waiting = ctx[c].waiting
      BY DEF CtxT
<1> HIDE DEF a
<1>4. b \in CtxT /\ b.queue = <<>> /\ b.exec = ctx[c].exec /\ b.waiting = ctx[c].waiting
  <2>1. <<>> \in Seq(Reqs)
        OBVIOUS
  <2> QED  BY <1>3, <2>1, QueueField
<1> HIDE DEF b
<1>5. d \in CtxT /\ d.queue = <<>> /\ d.pending = ctx[c].pending - k /\ d.waiting = ctx[c].waiting
      BY <1>2, <1>4, BudgetFacts
<1> HIDE DEF d
<1>6. e \in CtxT /\ e.queue = <<>> /\ e.exec = m /\ e.pending = ctx[c].pending - k /\ e.waiting = ctx[c].waiting
  <2>1. e \in CtxT /\ e.queue = d.queue /\ e.exec = m /\ e.pending = d.pending /\ e.waiting = d.waiting
        BY ONLY <1>2, <1>5, ExecField
  <2> QED  BY ONLY <1>5, <2>1
<1> HIDE DEF e
<1> QED  BY <1>1, <1>6 DEF k, m

(* unlinkReady takes the context out of the ready queue. *)
LEMMA UnlinkFacts ==
    ASSUME ready \in Seq(Contexts), NEW c \in Contexts, LinkedOnce(c), ready' = Unlinked(c)
    PROVE  /\ ready' \in Seq(Contexts) /\ ~Linked(c)'
           /\ \A e \in Contexts : LinkedOnce(e) => LinkedOnce(e)'
           /\ \A e \in Contexts : e # c => (Linked(e)' <=> Linked(e))
<1>1. CASE Linked(c)
  <2> DEFINE k == CHOOSE i \in 1..Len(ready) : ready[i] = c
  <2>1. k \in 1..Len(ready) /\ ready[k] = c
        BY <1>1 DEF Linked
  <2>2. ready' = RemoveAt(ready, k)
        BY <1>1 DEF Unlinked
  <2> HIDE DEF k
  <2>3. /\ ready' \in Seq(Contexts)
        /\ LinkedOnce(ready[k]) => ~(\E i \in 1..Len(ready') : ready'[i] = ready[k])
        /\ \A e \in Contexts : LinkedOnce(e) => LinkedOnce(e)'
        /\ \A e \in Contexts : e # ready[k] => (Linked(e)' <=> Linked(e))
        BY <2>1, <2>2, ReadyRemoved
  <2>4. ~Linked(c)'
        BY <2>1, <2>3 DEF Linked
  <2> QED  BY <2>1, <2>3, <2>4
<1>2. CASE ~Linked(c)
  <2>1. ready' = ready
        BY <1>2 DEF Unlinked
  <2> QED  BY <1>2, <2>1 DEF Linked, LinkedOnce
<1> QED  BY <1>1, <1>2

(* The requests once a queue has been dropped. *)
Dropped(c, p) == \E i \in 1..Len(ctx[c].queue) : ctx[c].queue[i] = p

LEMMA DroppedRequests ==
    ASSUME RInv, NEW c \in Contexts, Still, ctx'[c].queue = <<>>, \A e \in Contexts : e # c => ctx'[e].queue = ctx[e].queue,
           \A p \in Reqs : NoNewWaits(p) /\ NoNewWakes(p), woken' = woken,
           \A p \in Reqs : ~Dropped(c, p) => req'[p] = req[p],
           \A p \in Reqs : Dropped(c, p) => /\ req'[p].place = "done" /\ req'[p].on = req[p].on
                                            /\ req'[p].gen = req[p].gen /\ req'[p].internal = req[p].internal
    PROVE  (\A e \in Contexts : QueueSound(e)') /\ \A p \in Reqs : RequestSound(p)' /\ WakesSound(p)'
<1>0. \A e \in Contexts : ctx[e].queue \in Seq(Reqs)
      BY DEF RInv, Typed, CtxT
<1>1. \A p \in Reqs : Dropped(c, p) => req[p].place = "ready" /\ req[p].on = c
      BY DEF RInv, RequestsSound, QueueSound, Dropped
<1>2. QueueSound(c)'
      BY DEF QueueSound
<1>3. ASSUME NEW e \in Contexts, e # c PROVE QueueSound(e)'
  <2>1. QueueSound(e) /\ ctx'[e].queue = ctx[e].queue
        BY <1>3 DEF RInv, RequestsSound
  <2>2. \A i \in 1..Len(ctx[e].queue) : ctx[e].queue[i] \in Reqs /\ req[ctx[e].queue[i]].on = e
        BY <1>0, <2>1, ElementOfSeq DEF QueueSound
  <2>3. \A i \in 1..Len(ctx[e].queue) : req'[ctx[e].queue[i]] = req[ctx[e].queue[i]]
        BY <1>1, <1>3, <2>2
  <2> QED  BY <2>1, <2>3, QueueKept
<1>4. ASSUME NEW p \in Reqs, ~Dropped(c, p) PROVE RequestSound(p)' /\ WakesSound(p)'
  <2>1. RequestSound(p) /\ req'[p] = req[p] /\ Same(TurnFor(p)) /\ NoNewWaits(p) /\ NoNewWakes(p)
        BY <1>4 DEF RInv, RequestsSound, Still
  <2>2. req[p].place = "ready" => InQueue(p)'
    <3>1. req[p].place = "ready" => InQueue(p) /\ req[p].on \in Contexts
          BY <2>1 DEF RequestSound
    <3>2. InQueue(p) => req[p].on # c
          BY <1>4 DEF InQueue, Dropped
    <3> QED  BY <2>1, <3>1, <3>2 DEF InQueue
  <2>3. \A e \in Contexts : Held(TurnAt(p, e))' => Held(TurnAt(p, e))
        BY DEF Still, Same
  <2>4. RequestSound(p)'
        BY <2>1, <2>2, <2>3, RequestKept
  <2>5. WakesSound(p)'
        BY <2>1, StillWakes
  <2> QED  BY <2>4, <2>5
<1>5. ASSUME NEW p \in Reqs, Dropped(c, p) PROVE RequestSound(p)' /\ WakesSound(p)'
  <2>1. RequestSound(p) /\ WakesSound(p) /\ req[p].place # "running" /\ req[p].gen \in Nat
        BY <1>1, <1>5 DEF RInv, RequestsSound, Typed, ReqT
  <2>2. ~Held(TurnFor(p)) /\ ~Held(WaitFor(p)) /\ \A e : ~Held(TurnAt(p, e))
        BY <2>1, NotRunningNotWaiting
  <2>3. /\ req'[p].place = "done" /\ req'[p].on \in Contexts /\ req'[p].gen = req[p].gen
        BY <1>1, <1>5
  <2>4. ~Held(TurnFor(p))' /\ Once(TurnFor(p))'
    <3>1. Same(TurnFor(p))
          BY DEF Still
    <3> QED  BY <2>2, <3>1, NotHeld DEF Same
  <2>5. \A e \in Contexts : ~Held(TurnAt(p, e))'
    <3>1. \A e : Same(TurnAt(p, e))
          BY DEF Still
    <3> QED  BY <2>2, <3>1 DEF Same
  <2>6. RequestSound(p)'
        BY <2>3, <2>4, <2>5 DEF RequestSound
  <2>7. ~Held(WaitFor(p))'
        BY <2>2 DEF NoNewWaits
  <2>8. ~InWait(p)'
        BY <2>3, <2>7 DEF InWait
  <2>9. \A g \in Nat : <<p, g>> \in woken' => g <= req'[p].gen
        BY <2>1, <2>3 DEF WakesSound
  <2>10. ASSUME NEW e \in Contexts, NEW g \in Nat, Held(WakeAt(p, e, g))' PROVE g <= req'[p].gen
    <3>1. Held(WakeAt(p, e, g))
          BY <2>10 DEF NoNewWakes
    <3> QED  BY <2>1, <2>3, <3>1 DEF WakesSound
  <2>11. WakesSound(p)'
        BY <2>3, <2>7, <2>8, <2>9, <2>10 DEF WakesSound
  <2> QED  BY <2>6, <2>11
<1> QED  BY <1>2, <1>3, <1>4, <1>5

(* The budget gives back what the queue had of it. *)
LEMMA DroppedCounted ==
    ASSUME RInv, NEW c \in Contexts, \A p \in Reqs : ~Dropped(c, p) => req'[p] = req[p],
           \A p \in Reqs : Dropped(c, p) => /\ req'[p].place = "done" /\ req'[p].on = req[p].on
                                            /\ req'[p].internal = req[p].internal,
           waiting' = waiting, ctx'[c].waiting = ctx[c].waiting,
           ctx'[c].pending = ctx[c].pending - Cardinality(ExternalPlaces(c)),
           \A e \in Contexts : e # c => ctx'[e].pending = ctx[e].pending /\ ctx'[e].waiting = ctx[e].waiting
    PROVE  Counted'
<1>0. Counted /\ ctx[c].queue \in Seq(Reqs) /\ QueueSound(c)
      BY DEF RInv, Typed, CtxT, RequestsSound
<1>1. \A p \in Reqs : Dropped(c, p) => req[p].place = "ready" /\ req[p].on = c
      BY <1>0 DEF QueueSound, Dropped
<1>2. WaitingReqs' = WaitingReqs
      BY <1>1 DEF WaitingReqs
<1>3. \A e \in Contexts : WaitingOn(e)' = WaitingOn(e)
      BY <1>1 DEF WaitingOn
<1>4. \A e \in Contexts : e # c => ExternalOn(e)' = ExternalOn(e)
      BY <1>1 DEF ExternalOn
<1> DEFINE Q == {p \in ExternalOn(c) : \E i \in 1..Len(ctx[c].queue) : ctx[c].queue[i] = p}
<1>5. ExternalOn(c)' = ExternalOn(c) \ Q
      BY <1>1 DEF ExternalOn, Dropped
<1>6. Cardinality(ExternalPlaces(c)) = Cardinality(Q)
  <2>1. {i \in 1..Len(ctx[c].queue) : ctx[c].queue[i] \in ExternalOn(c)} = ExternalPlaces(c)
    <3>1. \A i \in 1..Len(ctx[c].queue) : /\ ctx[c].queue[i] \in Reqs /\ req[ctx[c].queue[i]].place = "ready"
                                          /\ req[ctx[c].queue[i]].on = c
          BY <1>0, ElementOfSeq DEF QueueSound
    <3> QED  BY <3>1 DEF ExternalOn, ExternalPlaces
  <2>2. \A i, j \in 1..Len(ctx[c].queue) : ctx[c].queue[i] = ctx[c].queue[j] => i = j
        BY <1>0 DEF QueueSound
  <2>3. Cardinality({i \in 1..Len(ctx[c].queue) : ctx[c].queue[i] \in ExternalOn(c)}) = Cardinality(Q)
        BY ONLY <1>0, <2>2, CountPlaces
  <2> QED  BY ONLY <2>1, <2>3
<1>7. IsFiniteSet(ExternalOn(c)) /\ ExternalOn(c) \cap Q = Q
  <2>1. ExternalOn(c) \subseteq Reqs /\ IsFiniteSet(Reqs)
        BY RuntimeAssumption DEF ExternalOn
  <2> QED  BY <2>1, FS_Subset
<1> HIDE DEF Q
<1>8. Cardinality(ExternalOn(c) \ Q) = Cardinality(ExternalOn(c)) - Cardinality(Q)
  <2>1. Cardinality(ExternalOn(c) \ Q) = Cardinality(ExternalOn(c)) - Cardinality(ExternalOn(c) \cap Q)
        BY ONLY <1>7, FS_Difference
  <2> QED  BY ONLY <1>7, <2>1
<1>9. ctx'[c].pending = Cardinality(ExternalOn(c)')
      BY <1>0, <1>5, <1>6, <1>8 DEF Counted
<1>10. ASSUME NEW e \in Contexts PROVE ctx'[e].pending = Cardinality(ExternalOn(e)') /\ ctx'[e].waiting = Cardinality(WaitingOn(e)')
  <2>1. ctx[e].pending = Cardinality(ExternalOn(e)) /\ ctx[e].waiting = Cardinality(WaitingOn(e))
        BY <1>0 DEF Counted
  <2>2. CASE e = c
        BY <1>3, <1>9, <2>1, <2>2
  <2>3. CASE e # c
        BY <1>3, <1>4, <2>1, <2>3
  <2> QED  BY <2>2, <2>3
<1>11. waiting' = Cardinality(WaitingReqs')
      BY <1>0, <1>2 DEF Counted
<1> QED  BY <1>10, <1>11 DEF Counted

(* The context of a dropped queue. *)
LEMMA DiscardedContext ==
    ASSUME NEW c \in Contexts, ContextSound(c), Same(TurnOf(c)), Same(ClaimOf(c)), ~Linked(c)', LinkedOnce(c)',
           ctx'[c].exec = IF ctx[c].exec = "scheduled" /\ Linked(c) THEN "idle" ELSE ctx[c].exec, ctx'[c].queue = <<>>,
           ctx[c].exec \in {"idle", "scheduled", "running"}
    PROVE  ContextSound(c)'
<1>1. Once(TurnOf(c))' /\ Once(ClaimOf(c))'
      BY DEF ContextSound, Same
<1>2. CASE Linked(c)
  <2>1. ctx[c].exec = "scheduled" /\ ~Held(ClaimOf(c)) /\ ~Held(TurnOf(c))
        BY <1>2 DEF ContextSound
  <2>2. ctx'[c].exec = "idle" /\ ~Held(ClaimOf(c))' /\ ~Held(TurnOf(c))'
        BY <1>2, <2>1 DEF Same
  <2> QED  BY <1>1, <2>2 DEF ContextSound
<1>3. CASE ~Linked(c)
  <2>1. ctx'[c].exec = ctx[c].exec /\ (ctx[c].exec = "running" <=> Held(TurnOf(c))) /\ (ctx[c].exec = "scheduled" <=> Held(ClaimOf(c)))
        BY <1>3 DEF ContextSound
  <2>2. (ctx'[c].exec = "running" <=> Held(TurnOf(c))') /\ (ctx'[c].exec = "scheduled" <=> Held(ClaimOf(c))')
        BY <2>1 DEF Same
  <2> QED  BY <1>1, <2>2 DEF ContextSound
<1> QED  BY <1>2, <1>3

(* CloseLatch.close with closeDiscarding. *)
LEMMA CloseGateStep ==
    ASSUME RInv, NEW t \in Threads, CloseGate(t)
    PROVE  RInv'
<1>0. /\ StacksTyped /\ Below /\ armed \subseteq Timers /\ req \in [Reqs -> ReqT] /\ ctx \in [Contexts -> CtxT]
      /\ woken \subseteq Reqs \X Nat /\ ready \in Seq(Contexts)
      BY DEF RInv, Typed
<1> PICK c : c = Top(t).ctx
    OBVIOUS
<1>1. /\ At(t, "closeGate") /\ ctx' = [ctx EXCEPT ![c] = CloseIfDrained(Discard(c))] /\ ready' = Unlinked(c)
      /\ \E pc \in {"free", "finishWith", "await"} : Goto(t, <<EndBusy, Frame(pc, c, None)>>)
      BY DEF CloseGate
<1>2. /\ woken' = woken /\ armed' = armed /\ waiting' = waiting
      /\ req' = [r \in Reqs |-> IF r \in ToSet(ctx[c].queue)
                                THEN [req[r] EXCEPT !.place = "done", !.wake = FALSE] ELSE req[r]]
      BY DEF CloseGate, timerVars, atomics
<1>3. stack[t] # <<>> /\ Top(t).pc = "closeGate" /\ c \in Contexts
      BY <1>0, <1>1, AtTop DEF Fit
<1>4. Quiet(t)
  <2>1. PICK pc \in {"free", "finishWith", "await"} : Goto(t, <<EndBusy, Frame(pc, c, None)>>)
        BY <1>1
  <2>2. Cold(EndBusy) /\ Cold(Frame(pc, c, None))
        BY <1>3, CtxFrame, ColdPlain DEF OnCtxPcs, Cold, HotPcs, TurnPcs
  <2>3. Top(t).pc \notin TurnPcs \union {"claim"}
        BY <1>3 DEF TurnPcs
  <2> QED  BY <1>0, <1>3, <2>1, <2>2, <2>3, QuietGoto2
<1>5. Still /\ \A r : NoNewWaits(r) /\ NoNewWakes(r)
      BY <1>0, <1>4, QuietStill
<1>6. ctx[c] \in CtxT /\ ctx[c].queue \in Seq(Reqs) /\ QueueSound(c) /\ ContextSound(c)
      BY <1>0, <1>3 DEF CtxT, RInv, RequestsSound, ContextsSound
<1>7. Cardinality(ExternalPlaces(c)) \in Nat
  <2>1. Len(ctx[c].queue) \in Nat
        BY <1>6
  <2>2. IsFiniteSet(1..Len(ctx[c].queue)) /\ ExternalPlaces(c) \subseteq 1..Len(ctx[c].queue)
        BY <2>1, FS_Interval DEF ExternalPlaces
  <2> QED  BY <2>2, FS_Subset, FS_CardinalityType
<1> DEFINE x == Discard(c)  z == CloseIfDrained(x)
<1>8. /\ x \in CtxT /\ x.queue = <<>> /\ x.waiting = ctx[c].waiting
      /\ x.exec = IF ctx[c].exec = "scheduled" /\ Linked(c) THEN "idle" ELSE ctx[c].exec
      /\ x.pending = ctx[c].pending - Cardinality(ExternalPlaces(c))
      BY <1>6, <1>7, DiscardFacts
<1> HIDE DEF x
<1>9. z \in CtxT /\ z.queue = <<>> /\ z.waiting = ctx[c].waiting /\ z.exec = x.exec /\ z.pending = x.pending
      BY <1>8, CloseFacts
<1>10. ctx' = [ctx EXCEPT ![c] = z]
      BY <1>1 DEF x
<1> HIDE DEF z
<1>11. ctx' \in [Contexts -> CtxT] /\ ctx'[c] = z /\ \A e \in Contexts : e # c => ctx'[e] = ctx[e]
      BY <1>0, <1>3, <1>9, <1>10
<1>12. \A p \in Reqs : p \in ToSet(ctx[c].queue) <=> Dropped(c, p)
      BY <1>6, LenProperties DEF ToSet, Dropped
<1>13. ASSUME NEW p \in Reqs
       PROVE  /\ req'[p] \in ReqT /\ (~Dropped(c, p) => req'[p] = req[p])
              /\ Dropped(c, p) => /\ req'[p].place = "done" /\ req'[p].on = req[p].on
                                  /\ req'[p].gen = req[p].gen /\ req'[p].internal = req[p].internal
  <2>1. req[p] \in ReqT
        BY <1>0
  <2>2. CASE ~Dropped(c, p)
        BY <1>2, <1>12, <2>1, <2>2
  <2>3. CASE Dropped(c, p)
    <3>1. req'[p] = [req[p] EXCEPT !.place = "done", !.wake = FALSE]
          BY <1>2, <1>12, <2>3
    <3>2. PICK w \in BOOLEAN : req'[p] = [req[p] EXCEPT !.place = "done", !.wake = w]
      <4>1. FALSE \in BOOLEAN
            OBVIOUS
      <4> QED  BY <3>1, <4>1, Zenon
    <3> DEFINE a == [req[p] EXCEPT !.place = "done"]  q == [a EXCEPT !.wake = w]
    <3>3. req'[p] = q
          BY <3>2
    <3>4. a \in ReqT /\ a.place = "done" /\ a.on = req[p].on /\ a.gen = req[p].gen /\ a.internal = req[p].internal
          BY <2>1, PlaceField
    <3> HIDE DEF a
    <3>5. q \in ReqT /\ q.place = "done" /\ q.on = req[p].on /\ q.gen = req[p].gen /\ q.internal = req[p].internal
          BY <3>4, WakeField
    <3> HIDE DEF q
    <3> QED  BY <2>3, <3>3, <3>5
  <2> QED  BY <2>2, <2>3
<1>14. req' \in [Reqs -> ReqT]
  <2>1. DOMAIN req' = Reqs /\ req' = [r \in Reqs |-> req'[r]]
        BY <1>2
  <2> QED  BY <1>13, <2>1
<1>15. /\ ready' \in Seq(Contexts) /\ ~Linked(c)'
       /\ \A e \in Contexts : LinkedOnce(e) => LinkedOnce(e)'
       /\ \A e \in Contexts : e # c => (Linked(e)' <=> Linked(e))
  <2>1. LinkedOnce(c) /\ ready' = Unlinked(c)
        BY <1>1, <1>6 DEF ContextSound
  <2> QED  BY <1>0, <1>3, <2>1, UnlinkFacts
<1>16. ContextSound(c)'
  <2>1. /\ ctx'[c].exec = IF ctx[c].exec = "scheduled" /\ Linked(c) THEN "idle" ELSE ctx[c].exec
        /\ ctx'[c].queue = <<>>
        BY <1>8, <1>9, <1>11
  <2>2. Same(TurnOf(c)) /\ Same(ClaimOf(c)) /\ LinkedOnce(c)' /\ ctx[c].exec \in {"idle", "scheduled", "running"}
        BY <1>3, <1>5, <1>6, <1>15 DEF Still, ContextSound, CtxT
  <2> QED  BY <1>3, <1>6, <1>15, <2>1, <2>2, DiscardedContext
<1>17. \A e \in Contexts : ContextSound(e)'
  <2>1. ASSUME NEW e \in Contexts, e # c PROVE ContextSound(e)'
    <3>1. ContextSound(e) /\ ctx'[e] = ctx[e] /\ Same(TurnOf(e)) /\ Same(ClaimOf(e))
          BY <1>5, <1>11, <2>1 DEF RInv, ContextsSound, Still
    <3> QED  BY <1>15, <2>1, <3>1, ContextKept
  <2> QED  BY <1>16, <2>1
<1>18. (\A e \in Contexts : QueueSound(e)') /\ \A p \in Reqs : RequestSound(p)' /\ WakesSound(p)'
  <2>1. ctx'[c].queue = <<>> /\ \A e \in Contexts : e # c => ctx'[e].queue = ctx[e].queue
        BY <1>9, <1>11
  <2>2. woken' = woken
        BY <1>2
  <2> QED  BY <1>3, <1>5, <1>13, <2>1, <2>2, DroppedRequests
<1>19. Counted'
  <2>1. /\ ctx'[c].pending = ctx[c].pending - Cardinality(ExternalPlaces(c)) /\ ctx'[c].waiting = ctx[c].waiting
        /\ \A e \in Contexts : e # c => ctx'[e].pending = ctx[e].pending /\ ctx'[e].waiting = ctx[e].waiting
        BY <1>8, <1>9, <1>11
  <2>2. waiting' = waiting
        BY <1>2
  <2> QED  BY <1>3, <1>13, <2>1, <2>2, DroppedCounted
<1>20. StacksTyped' /\ Below'
      BY <1>5 DEF Still
<1>21. woken' = woken /\ armed' = armed
      BY <1>2
<1>22. Typed'
      BY <1>0, <1>11, <1>14, <1>15, <1>20, <1>21 DEF Typed
<1> QED  BY <1>17, <1>18, <1>19, <1>22 DEF RInv, ContextsSound, RequestsSound

-----------------------------------------------------------------------------
(* The invariant holds initially and is kept by every step. *)

LEMMA InitInvariant == Init => RInv
<1> SUFFICES ASSUME Init PROVE RInv
    OBVIOUS
<1>1. Frame("serve", None, None) \in FrameSet /\ Frame("serve", None, None).pc = "serve"
      BY PlainFrame DEF PlainPcs
<1> DEFINE f == Frame("serve", None, None)
<1>2. \A u \in Threads : stack[u] = <<f>> \/ stack[u] = <<>>
      BY DEF Init
<1>3. DOMAIN stack = Threads /\ stack = [u \in Threads |-> stack[u]]
      BY DEF Init
<1>4. Init
      OBVIOUS
<1> HIDE DEF f
<1>5. <<f>> \in Seq(FrameSet) /\ Len(<<f>>) = 1 /\ <<f>>[1] = f /\ <<>> \in Seq(FrameSet) /\ Len(<<>>) = 0 /\ f.pc = "serve"
      BY <1>1 DEF f
<1>6. StacksTyped
  <2>1. \A u \in Threads : stack[u] \in Seq(FrameSet)
        BY <1>2, <1>5
  <2> QED  BY <1>3, <2>1 DEF StacksTyped
<1>7. \A u \in Threads : \A i \in 1..Len(stack[u]) : stack[u][i].pc = "serve"
      BY <1>2, <1>5
<1>8. Below
      BY <1>7 DEF Below
<1>9. /\ \A c : ~Held(TurnOf(c)) /\ ~Held(ClaimOf(c))
      /\ \A r : ~Held(TurnFor(r)) /\ ~Held(WaitFor(r)) /\ \A c : ~Held(TurnAt(r, c)) /\ \A g : ~Held(WakeAt(r, c, g))
      BY <1>7 DEF Held, TurnOf, ClaimOf, TurnFor, WaitFor, TurnAt, WakeAt, TurnPcs
<1>10. /\ \A c : Once(TurnOf(c)) /\ Once(ClaimOf(c))
       /\ \A r : Once(TurnFor(r))
      BY <1>9, NotHeld
<1>11. ctx \in [Contexts -> CtxT] /\ \A c \in Contexts : /\ ctx[c].exec = "idle" /\ ctx[c].queue = <<>>
                                                         /\ ctx[c].pending = 0 /\ ctx[c].waiting = 0
      BY DEF Init, CtxT
<1>12. \A r \in Reqs : req[r].place = "new" /\ req[r].gen = 0
      BY DEF Init
<1>13. req \in [Reqs -> ReqT]
      BY DEF Init, ReqT
<1>14. ready = <<>> /\ ready \in Seq(Contexts) /\ armed = {} /\ woken = {} /\ waiting = 0
      BY DEF Init
<1>15. Typed
      BY <1>6, <1>8, <1>11, <1>13, <1>14 DEF Typed
<1>16. \A c \in Contexts : ~Linked(c) /\ LinkedOnce(c)
      BY <1>14 DEF Linked, LinkedOnce
<1>17. ContextsSound
      BY <1>9, <1>10, <1>11, <1>16 DEF ContextsSound, ContextSound
<1>18. \A c \in Contexts : QueueSound(c)
      BY <1>11 DEF QueueSound
<1>19. \A r \in Reqs : RequestSound(r) /\ WakesSound(r)
      BY <1>9, <1>10, <1>12, <1>14 DEF RequestSound, WakesSound
<1>20. Counted
  <2>1. WaitingReqs = {} /\ \A c : ExternalOn(c) = {} /\ WaitingOn(c) = {}
        BY <1>12 DEF WaitingReqs, ExternalOn, WaitingOn
  <2> QED  BY <1>11, <1>14, <2>1, FS_EmptySet DEF Counted
<1> QED  BY <1>15, <1>17, <1>18, <1>19, <1>20 DEF RInv, RequestsSound

LEMMA StutterInvariant ==
    ASSUME RInv, UNCHANGED vars
    PROVE  RInv'
<1>1. stack' = stack
      BY DEF vars
<1>2. Undisturbed
      BY DEF Undisturbed, vars, schedVars, timerVars, atomics, RInv, Typed
<1>3. \A S : (Held(S)' <=> Held(S)) /\ (Once(S)' <=> Once(S))
      BY <1>1 DEF Held, Once
<1>4. StacksTyped' /\ Below'
      BY <1>1 DEF RInv, Typed, StacksTyped, Below
<1>5. Still
      BY <1>3, <1>4 DEF Still, Same
<1>6. \A r : NoNewWaits(r) /\ NoNewWakes(r)
      BY <1>3 DEF NoNewWaits, NoNewWakes
<1> QED  BY <1>2, <1>5, <1>6, UndisturbedInvariant

LEMMA NextInvariant == RInv /\ Next => RInv'
<1> SUFFICES ASSUME RInv, NEW t \in Threads, Start(t) \/ Continue(t) PROVE RInv'
    BY DEF Next
<1>0. Typed
      BY DEF RInv
<1>1. CASE Start(t)
  <2>1. CASE StartCall(t)
        BY <1>0, <2>1, StartSteps, QuietInvariant
  <2>2. CASE PrepareWait(t)
        BY <2>2, PrepareWaitStep
  <2>3. ASSUME NEW r \in Plain, NEW gen \in 1..req[r].gen, WakeRequest(t, r, gen) PROVE RInv'
        BY <2>3, WakeRequestStep
  <2> QED  BY <1>1, <2>1, <2>2, <2>3 DEF Start, StartCall
<1>2. CASE Continue(t)
  <2>1. CASE Shutdown(t)
        BY <1>0, <2>1, ShutdownSteps, QuietInvariant
  <2>2. CASE Closing(t)
        BY <1>0, <2>2, ClosingSteps, QuietInvariant
  <2>3. CASE SubmitQueues(t) \/ InternalGate(t)
        BY <2>3, SubmitSteps
  <2>4. CASE SubmitInline(t)
        BY <2>4, SubmitInlineStep
  <2>5. CASE WakeGate(t)
        BY <2>5, WakeGateStep
  <2>6. CASE RunNext(t)
        BY <2>6, RunNextStep
  <2>7. CASE TakeReady(t)
        BY <2>7, TakeReadyStep
  <2>8. CASE Claim(t)
        BY <2>8, ClaimNoneStep, ClaimTurnStep
  <2>9. CASE FinishDone(t)
        BY <2>9, FinishDoneStep
  <2>10. CASE FinishYield(t)
        BY <2>10, FinishYieldStep
  <2>11. CASE FinishWait(t)
        BY <2>11, FinishWaitStep
  <2>12. CASE Fire(t) \/ EndFire(t)
        BY <2>12, FiringSteps
  <2>13. CASE FireSubmit(t)
        BY <2>13, FireSubmitStep
  <2>14. CASE TimerRun(t) \/ CallbackReturns(t) \/ TimerEnd(t)
        BY <2>14, FireTurnSteps
  <2>15. CASE CloseGate(t)
        BY <2>15, CloseGateStep
  <2> QED  BY <1>2, <2>1, <2>2, <2>3, <2>4, <2>5, <2>6, <2>7, <2>8, <2>9, <2>10, <2>11, <2>12, <2>13, <2>14, <2>15
           DEF Continue, Shutdown, Closing
<1> QED  BY <1>1, <1>2

LEMMA RuntimeInvariant == Spec => []RInv
<1>1. RInv /\ [Next]_vars => RInv'
      BY NextInvariant, StutterInvariant
<1> QED  BY InitInvariant, <1>1, PTL DEF Spec

-----------------------------------------------------------------------------
(* Counting holders and links. *)

LEMMA HoldersCounted ==
    ASSUME StacksTyped, NEW c, NEW pcs, NEW S, S = {f \in FrameSet : f.pc \in pcs /\ f.ctx = c}, Once(S)
    PROVE  Cardinality(Holders(c, pcs)) = One(Held(S))
<1>1. \A u \in Threads : DOMAIN stack[u] = 1..Len(stack[u]) /\ \A i \in 1..Len(stack[u]) : stack[u][i] \in FrameSet
      BY SeqFacts DEF StacksTyped
<1>2. \A p : p \in Holders(c, pcs) <=> \E u \in Threads : \E i \in 1..Len(stack[u]) : p = <<u, i>> /\ stack[u][i] \in S
      BY <1>1 DEF Holders
<1>3. CASE Held(S)
  <2>0. PICK u \in Threads : \E i \in 1..Len(stack[u]) : stack[u][i] \in S
        BY <1>3 DEF Held
  <2>1. PICK i \in 1..Len(stack[u]) : stack[u][i] \in S
        BY <2>0
  <2>2. Holders(c, pcs) = {<<u, i>>}
    <3>1. <<u, i>> \in Holders(c, pcs)
          BY <1>2, <2>1
    <3>2. ASSUME NEW p \in Holders(c, pcs) PROVE p = <<u, i>>
      <4>0. PICK v \in Threads : \E j \in 1..Len(stack[v]) : p = <<v, j>> /\ stack[v][j] \in S
            BY <1>2
      <4>1. PICK j \in 1..Len(stack[v]) : p = <<v, j>> /\ stack[v][j] \in S
            BY <4>0
      <4>2. u = v /\ i = j
            BY <2>1, <4>1 DEF Once
      <4> QED  BY <4>1, <4>2
    <3> QED  BY <3>1, <3>2
  <2> QED  BY <1>3, <2>2, FS_Singleton DEF One
<1>4. CASE ~Held(S)
  <2>1. Holders(c, pcs) = {}
        BY <1>2, <1>4 DEF Held
  <2> QED  BY <1>4, <2>1, FS_EmptySet DEF One
<1> QED  BY <1>3, <1>4

(* The places of e in a sequence that has it at most once. *)
LEMMA PlacesCounted ==
    ASSUME NEW s, NEW e, \A i, j \in 1..Len(s) : s[i] = e /\ s[j] = e => i = j
    PROVE  Cardinality({i \in 1..Len(s) : s[i] = e}) = One(\E i \in 1..Len(s) : s[i] = e)
<1>1. CASE \E i \in 1..Len(s) : s[i] = e
  <2>1. PICK i \in 1..Len(s) : s[i] = e
        BY <1>1
  <2>2. {j \in 1..Len(s) : s[j] = e} = {i}
        BY <2>1
  <2> QED  BY <1>1, <2>2, FS_Singleton DEF One
<1>2. CASE ~\E i \in 1..Len(s) : s[i] = e
  <2>1. {j \in 1..Len(s) : s[j] = e} = {}
        BY <1>2
  <2> QED  BY <1>2, <2>1, FS_EmptySet DEF One
<1> QED  BY <1>1, <1>2

-----------------------------------------------------------------------------
(* At most one executor has a context, and a context with work has one      *)
(* coming: nothing that submit, wake, the end of a turn, a claim and        *)
(* closeDiscarding do at once (core.zig) strands a request or runs a        *)
(* context twice.                                                           *)
THEOREM ContextsNeverStranded == Spec => []NeverStranded
<1>1. RInv => NeverStranded
  <2> SUFFICES ASSUME RInv, NEW c \in Contexts
               PROVE  /\ Cardinality(Holders(c, TurnPcs)) = IF ctx[c].exec = "running" THEN 1 ELSE 0
                      /\ Cardinality(Holders(c, {"claim"})) + Cardinality({i \in 1..Len(ready) : ready[i] = c})
                             = IF ctx[c].exec = "scheduled" THEN 1 ELSE 0
                      /\ ctx[c].queue # <<>> => ctx[c].exec # "idle"
      BY DEF NeverStranded
  <2>1. StacksTyped /\ ContextSound(c)
        BY DEF RInv, Typed, ContextsSound
  <2>2. Cardinality(Holders(c, TurnPcs)) = One(Held(TurnOf(c)))
    <3>1. Once(TurnOf(c))
          BY <2>1 DEF ContextSound
    <3>2. TurnOf(c) = {f \in FrameSet : f.pc \in TurnPcs /\ f.ctx = c}
          BY DEF TurnOf
    <3> QED  BY <2>1, <3>1, <3>2, HoldersCounted
  <2>3. Cardinality(Holders(c, {"claim"})) = One(Held(ClaimOf(c)))
    <3>1. Once(ClaimOf(c))
          BY <2>1 DEF ContextSound
    <3>2. ClaimOf(c) = {f \in FrameSet : f.pc \in {"claim"} /\ f.ctx = c}
          BY DEF ClaimOf
    <3> QED  BY <2>1, <3>1, <3>2, HoldersCounted
  <2>4. Cardinality({i \in 1..Len(ready) : ready[i] = c}) = One(Linked(c))
    <3>1. \A i, j \in 1..Len(ready) : ready[i] = c /\ ready[j] = c => i = j
          BY <2>1 DEF ContextSound, LinkedOnce
    <3> QED  BY <3>1, PlacesCounted DEF Linked
  <2>5. /\ ctx[c].exec = "running" <=> Held(TurnOf(c))
        /\ ~(Held(ClaimOf(c)) /\ Linked(c)) /\ (ctx[c].exec = "scheduled" <=> Held(ClaimOf(c)) \/ Linked(c))
        /\ ctx[c].queue # <<>> => ctx[c].exec # "idle"
        BY <2>1 DEF ContextSound
  <2>6. One(Held(ClaimOf(c))) + One(Linked(c)) = IF ctx[c].exec = "scheduled" THEN 1 ELSE 0
        BY <2>5 DEF One
  <2>7. One(Held(TurnOf(c))) = IF ctx[c].exec = "running" THEN 1 ELSE 0
        BY <2>5 DEF One
  <2> QED  BY <2>2, <2>3, <2>4, <2>5, <2>6, <2>7
<1> QED  BY <1>1, RuntimeInvariant, PTL

(* A request that waits has not been woken with the token of its wait:      *)
(* Turn.prepareWait, wakeRequest and the end of the turn lose no wake-up    *)
(* (core.zig), whichever comes first.                                       *)
THEOREM WakesAreNotLost == Spec => []WakeNotLost
<1>1. RInv => WakeNotLost
      BY DEF RInv, RequestsSound, WakesSound, WakeNotLost
<1> QED  BY <1>1, RuntimeInvariant, PTL

(* Every request is in one place, and the budgets of the contexts and of    *)
(* the runtime count it once: what submit, submitInternal, runTurn,         *)
(* wakeRequest and closeDiscarding (core.zig) add and subtract balances.    *)
THEOREM RequestsAreAccounted == Spec => []RequestsAccounted
<1>1. RInv => RequestsAccounted
  <2> SUFFICES ASSUME RInv PROVE RequestsAccounted
      OBVIOUS
  <2>1. ASSUME NEW c \in Contexts
        PROVE  LET mine == {r \in Reqs : req[r].on = c}
               IN  /\ ctx[c].pending = Cardinality({r \in mine : ~req[r].internal
                                                    /\ req[r].place \in {"ready", "running", "waiting"}})
                   /\ ctx[c].waiting = Cardinality({r \in mine : req[r].place = "waiting"})
                   /\ \A r \in mine : Cardinality({i \in 1..Len(ctx[c].queue) : ctx[c].queue[i] = r})
                                         = IF req[r].place = "ready" THEN 1 ELSE 0
    <3> DEFINE mine == {r \in Reqs : req[r].on = c}
    <3>1. ExternalOn(c) = {r \in mine : ~req[r].internal /\ req[r].place \in {"ready", "running", "waiting"}}
          BY DEF ExternalOn
    <3>2. WaitingOn(c) = {r \in mine : req[r].place = "waiting"}
          BY DEF WaitingOn
    <3>3. ctx[c].pending = Cardinality(ExternalOn(c)) /\ ctx[c].waiting = Cardinality(WaitingOn(c))
          BY DEF RInv, Counted
    <3>4. ASSUME NEW r \in mine
          PROVE  Cardinality({i \in 1..Len(ctx[c].queue) : ctx[c].queue[i] = r}) = IF req[r].place = "ready" THEN 1 ELSE 0
      <4>1. QueueSound(c) /\ RequestSound(r) /\ req[r].on = c
            BY DEF RInv, RequestsSound
      <4>2. \A i, j \in 1..Len(ctx[c].queue) : ctx[c].queue[i] = r /\ ctx[c].queue[j] = r => i = j
            BY <4>1 DEF QueueSound
      <4>3. (\E i \in 1..Len(ctx[c].queue) : ctx[c].queue[i] = r) <=> req[r].place = "ready"
            BY <4>1 DEF QueueSound, RequestSound, InQueue
      <4>4. Cardinality({i \in 1..Len(ctx[c].queue) : ctx[c].queue[i] = r})
                = One(\E i \in 1..Len(ctx[c].queue) : ctx[c].queue[i] = r)
            BY <4>2, PlacesCounted
      <4> QED  BY <4>3, <4>4 DEF One
    <3> QED  BY <3>1, <3>2, <3>3, <3>4
  <2>2. waiting = Cardinality({r \in Reqs : req[r].place = "waiting"})
        BY DEF RInv, Counted, WaitingReqs
  <2> QED  BY <2>1, <2>2 DEF RequestsAccounted
<1> QED  BY <1>1, RuntimeInvariant, PTL

-----------------------------------------------------------------------------
(* Counting the frames of a set.  A place is counted from the bottom of its *)
(* stack, so that a step moves none of the frames that stay.                *)

Places(S) == {p \in Threads \X Nat : /\ p[2] < Len(stack[p[1]])
                                     /\ stack[p[1]][Len(stack[p[1]]) - p[2]] \in S}
Count(S)  == Cardinality(Places(S))

(* The frames that a counter of the runtime stands for, and those of        *)
(* deletions.                                                               *)
BusyPcs   == TurnPcs \union UserPcs \union {"endBusy", "internalGate", "closeGate", "fire", "take", "claim"}
FirePcs   == {"fireSubmit", "endFire"}
EarlyPcs  == {"cancel", "closeBegin", "closeGate"}
DelPcs    == EarlyPcs \union {"finishWith", "await", "free"}
LitPcs    == DelPcs \union FirePcs \union {"hook"}

Tracked   == {f \in FrameSet : f.pc \in BusyPcs \union LitPcs}
Finite    == IsFiniteSet(Places(Tracked))

(* For every set of tracked frames, a step takes away a and adds b and e. *)
Recounted(a, b, e) ==
    \A S : S \subseteq Tracked =>
        Count(S)' = ((Count(S) - One(a \in S)) + One(b \in S)) + One(e \in S)

LEMMA PlaceIn ==
    ASSUME NEW S, NEW p
    PROVE  p \in Places(S) <=> \E u \in Threads, k \in Nat : p = <<u, k>> /\ k < Len(stack[u]) /\ stack[u][Len(stack[u]) - k] \in S
BY DEF Places

LEMMA CountNat ==
    ASSUME Finite, NEW S, S \subseteq Tracked
    PROVE  IsFiniteSet(Places(S)) /\ Count(S) \in Nat
<1>1. Places(S) \subseteq Places(Tracked)
      BY DEF Places
<1> QED  BY <1>1, FS_Subset, FS_CardinalityType DEF Finite, Count

(* One frame less, one frame more. *)
LEMMA OneLess ==
    ASSUME NEW X, IsFiniteSet(X), NEW p
    PROVE  IsFiniteSet(X \ {p}) /\ Cardinality(X \ {p}) = Cardinality(X) - One(p \in X)
<1>1. Cardinality(X) \in Nat
      BY FS_CardinalityType
<1>2. CASE p \in X
      BY <1>2, FS_RemoveElement DEF One
<1>3. CASE p \notin X
  <2>1. X \ {p} = X
        BY <1>3
  <2>2. One(p \in X) = 0
        BY <1>3 DEF One
  <2>3. Cardinality(X \ {p}) = Cardinality(X) /\ IsFiniteSet(X \ {p})
        BY <2>1
  <2> QED  BY <1>1, <2>2, <2>3
<1> QED  BY <1>2, <1>3

LEMMA OneMore ==
    ASSUME NEW X, IsFiniteSet(X), NEW p, p \notin X, NEW b \in BOOLEAN
    PROVE  /\ IsFiniteSet(IF b THEN X \union {p} ELSE X)
           /\ Cardinality(IF b THEN X \union {p} ELSE X) = Cardinality(X) + One(b)
<1>1. Cardinality(X) \in Nat
      BY FS_CardinalityType
<1>2. CASE b
      BY <1>2, FS_AddElement DEF One
<1>3. CASE ~b
      BY <1>1, <1>3 DEF One
<1> QED  BY <1>2, <1>3

LEMMA Recount ==
    ASSUME StacksTyped, Finite, NEW t \in Threads, NEW n, NEW d, Moved(t, n, d), Len(n) <= 2 \/ n[3] \notin Tracked, Len(n) <= 3,
           NEW a, IF d = 0 THEN a \notin Tracked ELSE a = stack[t][1],
           NEW b, IF Len(n) = 0 THEN b \notin Tracked ELSE b = n[1],
           NEW e, IF Len(n) <= 1 THEN e \notin Tracked ELSE e = n[2],
           \A i \in 2..d : stack[t][i] \notin Tracked
    PROVE  Finite' /\ Recounted(a, b, e)
<1>0. /\ Len(n) \in Nat /\ Len(stack[t]) \in Nat /\ d \in 0..Len(stack[t])
      /\ Len(stack'[t]) = Len(n) + Len(stack[t]) - d
      BY LenProperties DEF Moved, StacksTyped
<1> DEFINE L == Len(stack[t])  m == Len(n)
           o == <<t, L - 1>>  p == <<t, L - d + m - 1>>  q == <<t, L - d + m - 2>>
<1>1. ASSUME NEW S, S \subseteq Tracked
      PROVE  LET P == Places(S)
                 X == IF d = 0 THEN P ELSE P \ {o}
                 Y == IF m >= 1 /\ n[1] \in S THEN X \union {p} ELSE X
             IN  /\ (m >= 1 => p \notin X) /\ (m >= 2 => q \notin Y)
                 /\ Places(S)' = IF m >= 2 /\ n[2] \in S THEN Y \union {q} ELSE Y
                 /\ (d # 0 => (o \in P <=> a \in S))
  <2> DEFINE P == Places(S)
             X == IF d = 0 THEN P ELSE P \ {o}
             Y == IF m >= 1 /\ n[1] \in S THEN X \union {p} ELSE X
             Z == IF m >= 2 /\ n[2] \in S THEN Y \union {q} ELSE Y
  <2>1. ASSUME NEW k \in Nat PROVE <<t, k>> \in X <=> k < L - d /\ stack[t][L - k] \in S
    <3>1. <<t, k>> \in P <=> k < L /\ stack[t][L - k] \in S
          BY DEF Places
    <3>2. CASE d = 0
          BY <1>0, <3>1, <3>2
    <3>3. CASE d # 0
      <4>1. <<t, k>> \in X <=> k < L /\ stack[t][L - k] \in S /\ k # L - 1
            BY <3>1, <3>3
      <4>2. CASE k < L - d
            BY <1>0, <3>3, <4>1, <4>2
      <4>3. CASE ~(k < L - d) /\ k < L /\ k # L - 1
        <5>1. L - k \in 2..d
              BY <1>0, <3>3, <4>3
        <5>2. stack[t][L - k] \notin Tracked
              BY <5>1
        <5> QED  BY <1>1, <4>3, <5>2, <4>1
      <4>4. CASE ~(k < L - d) /\ ~(k < L /\ k # L - 1)
            BY <4>1, <4>4
      <4> QED  BY <4>2, <4>3, <4>4
    <3> QED  BY <3>2, <3>3
  <2>2. (m >= 1 => p \notin X) /\ (m >= 2 => q \notin X)
    <3>1. m >= 1 => L - d + m - 1 \in Nat /\ ~(L - d + m - 1 < L - d)
          BY <1>0
    <3>2. m >= 2 => L - d + m - 2 \in Nat /\ ~(L - d + m - 2 < L - d)
          BY <1>0
    <3> HIDE DEF X
    <3> QED  BY <2>1, <3>1, <3>2
  <2>3. m >= 2 => q \notin Y
    <3>1. L - d + m - 1 # L - d + m - 2
          BY <1>0
    <3>2. p # q
          BY <3>1
    <3> HIDE DEF X, p, q
    <3> QED  BY <2>2, <3>2
  <2>4. ASSUME NEW k \in Nat PROVE <<t, k>> \in Places(S)' <=> <<t, k>> \in Z
    <3>0. <<t, k>> \in Places(S)' <=> k < Len(stack'[t]) /\ stack'[t][Len(stack'[t]) - k] \in S
          BY DEF Places
    <3>1. <<t, k>> \in Places(S)' <=> k < m + L - d /\ stack'[t][m + L - d - k] \in S
          BY <1>0, <3>0
    <3>2. CASE k < L - d
      <4>0. L \in Int /\ d \in Int /\ m \in Int /\ k \in Int /\ 0 <= k /\ 0 <= d
            BY <1>0
      <4>1. L - k \in (d + 1)..L /\ (L - k) - d + m = m + L - d - k
        <5> HIDE DEF L, m
        <5> QED  BY <3>2, <4>0
      <4>2. stack'[t][m + L - d - k] = stack[t][L - k]
            BY <4>1 DEF Moved
      <4>3. <<t, k>> \in Places(S)' <=> <<t, k>> \in X
            BY <1>0, <2>1, <3>1, <3>2, <4>2
      <4>5. (m >= 1 => k # L - d + m - 1) /\ (m >= 2 => k # L - d + m - 2)
            BY <1>0, <3>2
      <4> HIDE DEF L, m
      <4>6. \A i, j : i # j => <<t, i>> # <<t, j>>
            OBVIOUS
      <4>4. (m >= 1 => <<t, k>> # p) /\ (m >= 2 => <<t, k>> # q)
            BY <4>5, <4>6 DEF p, q
      <4> HIDE DEF X, p, q
      <4> QED  BY <4>3, <4>4 DEF Z, Y
    <3>3. CASE k >= L - d /\ k < m + L - d
      <4>0. \A x, y, z, w \in Int : z >= x - y /\ z < w + x - y => w + x - y - z \in 1..w
            OBVIOUS
      <4>1. m + L - d - k \in 1..m
            BY <1>0, <3>3, <4>0
      <4>2. stack'[t][m + L - d - k] = n[m + L - d - k]
            BY <4>1 DEF Moved
      <4>3. <<t, k>> \notin X
            BY <1>0, <2>1, <3>3
      <4>4. <<t, k>> = p <=> m + L - d - k = 1
            BY <1>0
      <4>5. <<t, k>> = q <=> m + L - d - k = 2
            BY <1>0
      <4>6. m + L - d - k \in {1, 2, 3} /\ (m + L - d - k = 3 => n[3] \notin Tracked)
        <5>1. PICK v : v = m + L - d - k
              OBVIOUS
        <5>2. m \in Nat /\ m <= 3 /\ (m <= 2 \/ n[3] \notin Tracked)
              BY <1>0
        <5> HIDE DEF L, m
        <5>3. v \in 1..m
              BY <4>1, <5>1
        <5>4. v \in {1, 2, 3} /\ (v = 3 => n[3] \notin Tracked)
              BY <5>2, <5>3
        <5> QED  BY <5>1, <5>4
      <4>7. (m + L - d - k = 1 => m >= 1) /\ (m + L - d - k = 2 => m >= 2)
            BY <4>1, <1>0
      <4> DEFINE j == m + L - d - k
      <4>8. <<t, k>> \in Places(S)' <=> n[j] \in S
            BY <3>1, <3>3, <4>2
      <4> HIDE DEF X, p, q, j
      <4>9. CASE j = 1
            BY <4>3, <4>4, <4>5, <4>7, <4>8, <4>9 DEF j
      <4>10. CASE j = 2
            BY <4>3, <4>4, <4>5, <4>7, <4>8, <4>10 DEF j
      <4>11. CASE j = 3
            BY <1>1, <4>3, <4>4, <4>5, <4>6, <4>8, <4>11 DEF j
      <4> QED  BY <4>6, <4>9, <4>10, <4>11 DEF j
    <3>4. CASE k >= m + L - d
      <4>1. <<t, k>> \notin X
            BY <1>0, <2>1, <3>4
      <4>2. (m >= 1 => <<t, k>> # p) /\ (m >= 2 => <<t, k>> # q)
            BY <1>0, <3>4
      <4>3. <<t, k>> \notin Places(S)'
            BY <1>0, <3>1, <3>4
      <4> HIDE DEF X, p, q
      <4> QED  BY <4>1, <4>2, <4>3
    <3> QED  BY <1>0, <3>2, <3>3, <3>4
  <2>5. ASSUME NEW u \in Threads, u # t, NEW k \in Nat PROVE <<u, k>> \in Places(S)' <=> <<u, k>> \in Z
    <3>1. stack'[u] = stack[u]
          BY <2>5 DEF Moved
    <3>2. <<u, k>> \in Places(S)' <=> <<u, k>> \in P
          BY <3>1 DEF Places
    <3>3. <<u, k>> # o /\ <<u, k>> # p /\ <<u, k>> # q
          BY <2>5
    <3> HIDE DEF P, p, q, o
    <3> QED  BY <3>2, <3>3
  <2>6. Places(S)' \subseteq Threads \X Nat
        BY DEF Places
  <2>7. Z \subseteq Threads \X Nat
    <3>1. P \subseteq Threads \X Nat
          BY DEF Places
    <3>2. m >= 1 => p \in Threads \X Nat
          BY <1>0
    <3>3. m >= 2 => q \in Threads \X Nat
          BY <1>0
    <3> HIDE DEF P, p, q, o
    <3> QED  BY <3>1, <3>2, <3>3
  <2>8. Places(S)' = Z
    <3> HIDE DEF Z
    <3>1. ASSUME NEW x \in Threads \X Nat PROVE x \in Places(S)' <=> x \in Z
      <4>1. PICK u \in Threads, k \in Nat : x = <<u, k>>
            OBVIOUS
      <4> QED  BY <2>4, <2>5, <4>1
    <3> QED  BY <2>6, <2>7, <3>1
  <2>9. d # 0 => (o \in P <=> a \in S)
    <3>1. d # 0 => L - 1 \in Nat /\ L - 1 < L /\ L - (L - 1) = 1
          BY <1>0
    <3> QED  BY <3>1 DEF Places
  <2> HIDE DEF p, q, o, m
  <2> QED  BY <2>2, <2>3, <2>8, <2>9
<1> HIDE DEF o, p, q
<1>2. ASSUME NEW S, S \subseteq Tracked
      PROVE  /\ IsFiniteSet(Places(S)')
             /\ Cardinality(Places(S)') = ((Count(S) - One(a \in S)) + One(b \in S)) + One(e \in S)
  <2> DEFINE P == Places(S)
             X == IF d = 0 THEN P ELSE P \ {o}
             Y == IF m >= 1 /\ n[1] \in S THEN X \union {p} ELSE X
             Z == IF m >= 2 /\ n[2] \in S THEN Y \union {q} ELSE Y
  <2>1. /\ m >= 1 => p \notin X
        /\ m >= 2 => q \notin Y
        /\ Places(S)' = Z
        /\ d # 0 => (o \in P <=> a \in S)
        BY <1>1, <1>2
  <2>2. IsFiniteSet(P) /\ Cardinality(P) = Count(S) /\ Count(S) \in Nat
        BY <1>2, CountNat DEF Count
  <2>3. IsFiniteSet(X) /\ Cardinality(X) = Cardinality(P) - One(a \in S)
    <3>1. CASE d = 0
      <4>1. a \notin S
            BY <1>2, <3>1
      <4> HIDE DEF P
      <4> QED  BY <2>2, <3>1, <4>1 DEF One
    <3>2. CASE d # 0
      <4> HIDE DEF P
      <4>1. One(o \in P) = One(a \in S)
            BY <2>1, <3>2 DEF One
      <4> QED  BY <2>2, <3>2, <4>1, OneLess
    <3> QED  BY <3>1, <3>2
  <2>4. IsFiniteSet(Y) /\ Cardinality(Y) = Cardinality(X) + One(b \in S)
    <3> HIDE DEF X
    <3>1. Cardinality(X) \in Nat
          BY <2>3, FS_CardinalityType
    <3>2. CASE m = 0
      <4>1. b \notin S
            BY <1>2, <3>2
      <4> QED  BY <2>3, <3>1, <3>2, <4>1 DEF One
    <3>3. CASE m # 0
      <4>1. m >= 1 /\ b = n[1] /\ p \notin X
            BY <1>0, <2>1, <3>3
      <4>2. Y = IF b \in S THEN X \union {p} ELSE X
            BY <4>1
      <4> HIDE DEF Y
      <4> DEFINE z == b \in S
      <4>3. z \in BOOLEAN /\ Y = IF z THEN X \union {p} ELSE X
            BY <4>2
      <4> HIDE DEF z
      <4>4. IsFiniteSet(Y) /\ Cardinality(Y) = Cardinality(X) + One(z)
            BY <2>3, <4>1, <4>3, OneMore
      <4> QED  BY <4>4 DEF z
    <3> QED  BY <3>2, <3>3
  <2>5. IsFiniteSet(Z) /\ Cardinality(Z) = Cardinality(Y) + One(e \in S)
    <3> HIDE DEF Y
    <3>1. Cardinality(Y) \in Nat
          BY <2>4, FS_CardinalityType
    <3>2. CASE m <= 1
      <4>1. e \notin S /\ ~(m >= 2)
            BY <1>0, <1>2, <3>2
      <4> QED  BY <2>4, <3>1, <4>1 DEF One
    <3>3. CASE ~(m <= 1)
      <4>1. m >= 2 /\ e = n[2] /\ q \notin Y
            BY <1>0, <2>1, <3>3
      <4>2. Z = IF e \in S THEN Y \union {q} ELSE Y
            BY <4>1
      <4> HIDE DEF Z
      <4> DEFINE z == e \in S
      <4>3. z \in BOOLEAN /\ Z = IF z THEN Y \union {q} ELSE Y
            BY <4>2
      <4> HIDE DEF z
      <4>4. IsFiniteSet(Z) /\ Cardinality(Z) = Cardinality(Y) + One(z)
            BY <2>4, <4>1, <4>3, OneMore
      <4> QED  BY <4>4 DEF z
    <3> QED  BY <3>2, <3>3
  <2> HIDE DEF P, X, Y, Z
  <2> QED  BY <2>1, <2>2, <2>3, <2>4, <2>5
<1>3. Finite'
  <2> DEFINE T == Tracked
  <2>1. IsFiniteSet(Places(T)')
        BY <1>2
  <2> QED  BY <2>1 DEF Finite, Tracked
<1> QED  BY <1>2, <1>3 DEF Recounted, Count

-----------------------------------------------------------------------------
(* What is queued internally, and what leaves the freeing of a context to   *)
(* its hook, happens inside a turn of the context.                          *)
WithinPcs == {"internalGate", "finishWith"}
Within ==
    \A u \in Threads : \A i \in 1..Len(stack[u]) : stack[u][i].pc \in WithinPcs =>
        \E j \in (i + 1)..Len(stack[u]) : stack[u][j].pc \in TurnPcs /\ stack[u][j].ctx = stack[u][i].ctx

LEMMA WithinKept ==
    ASSUME StacksTyped, Within, NEW t \in Threads, NEW n, NEW d, Moved(t, n, d),
           \A i \in 1..Len(n) : n[i].pc \in WithinPcs =>
               \E k \in (d + 1)..Len(stack[t]) : stack[t][k].pc \in TurnPcs /\ stack[t][k].ctx = n[i].ctx
    PROVE  Within'
<1>0. Len(n) \in Nat /\ Len(stack[t]) \in Nat /\ d \in 0..Len(stack[t]) /\ Len(stack'[t]) = Len(n) + Len(stack[t]) - d
      BY LenProperties DEF Moved, StacksTyped
<1> SUFFICES ASSUME NEW u \in Threads, NEW i \in 1..Len(stack'[u]), stack'[u][i].pc \in WithinPcs
             PROVE  \E j \in (i + 1)..Len(stack'[u]) : stack'[u][j].pc \in TurnPcs /\ stack'[u][j].ctx = stack'[u][i].ctx
    BY DEF Within
<1>1. CASE u # t
  <2>1. stack'[u] = stack[u]
        BY <1>1 DEF Moved
  <2> QED  BY <2>1 DEF Within
<1>2. CASE u = t /\ i \in 1..Len(n) /\ stack'[u][i] = n[i]
  <2>1. PICK k \in (d + 1)..Len(stack[t]) : stack[t][k].pc \in TurnPcs /\ stack[t][k].ctx = n[i].ctx
        BY <1>2
  <2>2. stack'[t][k - d + Len(n)] = stack[t][k]
        BY DEF Moved
  <2>3. k - d + Len(n) \in (i + 1)..Len(stack'[t])
        BY <1>0, <1>2
  <2> QED  BY <1>2, <2>1, <2>2, <2>3
<1>3. CASE u = t /\ ~(i \in 1..Len(n) /\ stack'[u][i] = n[i])
  <2> DEFINE k == i - Len(n) + d
  <2>1. k \in (d + 1)..Len(stack[t]) /\ stack'[t][i] = stack[t][k]
        BY <1>3, MovedFrom
  <2>2. i \in Int /\ i = k - d + Len(n)
        BY <1>0, <1>3, <2>1
  <2> HIDE DEF k
  <2>3. k \in 1..Len(stack[t])
        BY <1>0, <2>1
  <2>4. stack[t][k].pc \in WithinPcs
        BY <1>3, <2>1
  <2>5. PICK j \in (k + 1)..Len(stack[t]) : stack[t][j].pc \in TurnPcs /\ stack[t][j].ctx = stack[t][k].ctx
        BY <2>3, <2>4 DEF Within
  <2>6. j \in (d + 1)..Len(stack[t]) /\ j - d + Len(n) \in (i + 1)..Len(stack'[t])
    <3>1. /\ j \in Int /\ k \in Int /\ d \in Int /\ i = k - d + Len(n)
          /\ d < k /\ k < j /\ j <= Len(stack[t])
          BY <1>0, <2>1, <2>2
    <3> QED  BY <1>0, <3>1
  <2>7. stack'[t][j - d + Len(n)] = stack[t][j]
        BY <2>6 DEF Moved
  <2> QED  BY <1>3, <2>1, <2>5, <2>6, <2>7
<1> QED  BY <1>1, <1>2, <1>3

-----------------------------------------------------------------------------
(* The invariant of deletion. *)

Of(pcs, c) == {f \in FrameSet : f.pc \in pcs /\ f.ctx = c}
BusyFrames == {f \in FrameSet : f.pc \in BusyPcs}

(* Where the deletion of a context is: la is its latch, life that of the    *)
(* context, and the numbers those of the frames that cancel its timers,     *)
(* close it, leave the rest to the hook, await the hook, free it, and of    *)
(* hooks.                                                                   *)
Phase(la, life, cancels, closes, leaves, awaits, frees, hooks) ==
    /\ (((cancels + closes) + leaves) + awaits) + frees <= 1
    /\ \/ la = "open" /\ life = "open" /\ (((cancels + closes) + leaves) + awaits) + frees = 0 /\ hooks = 0
       \/ /\ la = "stopping"
          /\ \/ cancels + closes = 1 /\ life = "open" /\ hooks = 0
             \/ leaves = 1 /\ life = "draining" /\ hooks = 0
             \/ awaits = 1 /\ ((life = "draining" /\ hooks = 0) \/ (life = "closed" /\ hooks = 1))
             \/ frees = 1 /\ life = "closed" /\ hooks = 0
       \/ /\ la = "rest" /\ (((cancels + closes) + leaves) + awaits) + frees = 0
          /\ ((life = "draining" /\ hooks = 0) \/ (life = "closed" /\ hooks = 1))
       \/ la = "closed" /\ awaits + frees = 1 /\ life = "closed" /\ hooks = 0
       \/ la = "freed" /\ (((cancels + closes) + leaves) + awaits) + frees = 0 /\ life = "closed" /\ hooks = 0

LatchSound(c) ==
    Phase(latch[c], ctx[c].life, Count(Of({"cancel"}, c)), Count(Of({"closeBegin", "closeGate"}, c)),
          Count(Of({"finishWith"}, c)), Count(Of({"await"}, c)), Count(Of({"free"}, c)), Count(Of({"hook"}, c)))

(* A closed context has nothing left to do. *)
Done(x) == x.exec = "idle" /\ x.queue = <<>> /\ x.waiting = 0 /\ x.firing = 0

Deletion(c) ==
    /\ LatchSound(c)
    /\ ctx[c].life = "closed" => Done(ctx[c])
    /\ ctx[c].firing = Count(Of(FirePcs, c))

(* A timer is armed only until its context's deletion has cancelled it. *)
ArmedSound == \A tm \in armed : latch[Home[tm]] = "open" \/ Count(Of({"cancel"}, Home[tm])) # 0

LInv ==
    /\ Finite /\ busy = Count(BusyFrames) /\ Within /\ ArmedSound
    /\ \A c \in Contexts : Deletion(c)

-----------------------------------------------------------------------------
(* What the counts of a step are. *)

(* A frame of no interest. *)
Nought == Frame("exited", None, None)

LEMMA NoughtFrame == Nought \in FrameSet /\ Nought.pc = "exited" /\ Nought \notin Tracked
<1>1. Nought \in FrameSet /\ Nought.pc = "exited"
      BY PlainFrame DEF PlainPcs, Nought
<1> QED  BY <1>1 DEF Tracked, BusyPcs, LitPcs, DelPcs, EarlyPcs, FirePcs, TurnPcs, UserPcs

LEMMA OfTracked ==
    ASSUME NEW pcs, pcs \subseteq BusyPcs \union LitPcs, NEW c
    PROVE  Of(pcs, c) \subseteq Tracked
BY DEF Of, Tracked

LEMMA RecountOf ==
    ASSUME NEW a \in FrameSet, NEW b \in FrameSet, NEW e \in FrameSet, Recounted(a, b, e),
           NEW pcs, pcs \subseteq BusyPcs \union LitPcs, NEW c
    PROVE  Count(Of(pcs, c))' = ((Count(Of(pcs, c)) - One(a.pc \in pcs /\ a.ctx = c))
                                     + One(b.pc \in pcs /\ b.ctx = c)) + One(e.pc \in pcs /\ e.ctx = c)
<1> DEFINE S == Of(pcs, c)
<1>1. S \subseteq Tracked
      BY OfTracked
<1>2. \A f \in FrameSet : One(f \in S) = One(f.pc \in pcs /\ f.ctx = c)
      BY DEF Of, One
<1> HIDE DEF S
<1>3. Count(S)' = ((Count(S) - One(a \in S)) + One(b \in S)) + One(e \in S)
      BY <1>1 DEF Recounted
<1> QED  BY <1>2, <1>3 DEF S

LEMMA RecountBusy ==
    ASSUME NEW a \in FrameSet, NEW b \in FrameSet, NEW e \in FrameSet, Recounted(a, b, e)
    PROVE  Count(BusyFrames)' = ((Count(BusyFrames) - One(a.pc \in BusyPcs)) + One(b.pc \in BusyPcs)) + One(e.pc \in BusyPcs)
<1> DEFINE S == BusyFrames
<1>1. S \subseteq Tracked
      BY DEF BusyFrames, Tracked
<1>2. \A f \in FrameSet : One(f \in S) = One(f.pc \in BusyPcs)
      BY DEF BusyFrames, One
<1> HIDE DEF S
<1>3. Count(S)' = ((Count(S) - One(a \in S)) + One(b \in S)) + One(e \in S)
      BY <1>1 DEF Recounted
<1> QED  BY <1>2, <1>3 DEF S

LEMMA CountsOf ==
    ASSUME Finite, NEW c
    PROVE  /\ Count(Of({"cancel"}, c)) \in Nat /\ Count(Of({"closeBegin", "closeGate"}, c)) \in Nat
           /\ Count(Of({"finishWith"}, c)) \in Nat /\ Count(Of({"await"}, c)) \in Nat
           /\ Count(Of({"free"}, c)) \in Nat /\ Count(Of({"hook"}, c)) \in Nat
           /\ Count(Of(FirePcs, c)) \in Nat
<1>1. ASSUME NEW pcs, pcs \subseteq LitPcs PROVE Count(Of(pcs, c)) \in Nat
  <2>1. Of(pcs, c) \subseteq Tracked
        BY <1>1, OfTracked
  <2> QED  BY <2>1, CountNat
<1>2. /\ {"cancel"} \subseteq LitPcs /\ {"closeBegin", "closeGate"} \subseteq LitPcs /\ {"finishWith"} \subseteq LitPcs
      /\ {"await"} \subseteq LitPcs /\ {"free"} \subseteq LitPcs /\ {"hook"} \subseteq LitPcs /\ FirePcs \subseteq LitPcs
      BY DEF LitPcs, DelPcs, EarlyPcs, FirePcs
<1> QED  BY <1>1, <1>2

(* A frame of a set that is not counted is nowhere, and conversely. *)
LEMMA CountHeld ==
    ASSUME StacksTyped, Finite, NEW S, S \subseteq Tracked
    PROVE  Count(S) # 0 <=> Held(S)
<1>0. IsFiniteSet(Places(S))
      BY CountNat
<1>1. Count(S) # 0 <=> Places(S) # {}
      BY <1>0, FS_EmptySet DEF Count
<1>2. ASSUME NEW p \in Places(S) PROVE Held(S)
  <2>1. PICK u \in Threads, k \in Nat : k < Len(stack[u]) /\ stack[u][Len(stack[u]) - k] \in S
        BY PlaceIn
  <2>2. Len(stack[u]) \in Nat
        BY LenProperties DEF StacksTyped
  <2>3. Len(stack[u]) - k \in 1..Len(stack[u])
        BY <2>1, <2>2
  <2> QED  BY <2>1, <2>3 DEF Held
<1>3. ASSUME NEW u \in Threads, NEW i \in 1..Len(stack[u]), stack[u][i] \in S PROVE Places(S) # {}
  <2>1. Len(stack[u]) \in Nat
        BY LenProperties DEF StacksTyped
  <2> DEFINE k == Len(stack[u]) - i
  <2>2. k \in Nat /\ k < Len(stack[u]) /\ Len(stack[u]) - k = i
        BY <2>1
  <2> HIDE DEF k
  <2>3. <<u, k>> \in Places(S)
        BY <1>3, <2>2 DEF Places
  <2> QED  BY <2>3
<1>4. Held(S) => Places(S) # {}
      BY <1>3 DEF Held
<1>5. Places(S) # {} => Held(S)
      BY <1>2
<1> QED  BY <1>1, <1>4, <1>5

-----------------------------------------------------------------------------
(* The stack moves of the steps. *)

(* Frame a goes, b and e come. *)
Passes(a, b, e) == a \in FrameSet /\ b \in FrameSet /\ e \in FrameSet /\ Finite' /\ Recounted(a, b, e) /\ Within'

Tracks == StacksTyped /\ Finite /\ Within

LEMMA PassesSame ==
    ASSUME Tracks, stack' = stack
    PROVE  Passes(Nought, Nought, Nought)
<1>1. Within' /\ \A S : Places(S)' = Places(S)
      BY DEF Tracks, Within, Places
<1>2. Finite' /\ \A S : Count(S)' = Count(S)
      BY <1>1 DEF Tracks, Finite, Count, Tracked
<1>3. ASSUME NEW S, S \subseteq Tracked
      PROVE  Count(S)' = ((Count(S) - One(Nought \in S)) + One(Nought \in S)) + One(Nought \in S)
  <2>1. One(Nought \in S) = 0 /\ Count(S) \in Nat
        BY <1>3, NoughtFrame, CountNat DEF One, Tracks
  <2> QED  BY <1>2, <2>1
<1> QED  BY <1>1, <1>2, <1>3, NoughtFrame DEF Passes, Recounted

LEMMA PassesCall ==
    ASSUME Tracks, NEW t \in Threads, NEW b \in FrameSet, Call(t, <<b>>),
           b.pc \in WithinPcs => At(t, "turn") /\ Top(t).ctx = b.ctx
    PROVE  Passes(Nought, b, Nought)
<1> DEFINE n == <<b>>
<1>1. n \in Seq(FrameSet) /\ Len(n) = 1 /\ n[1] = b
      OBVIOUS
<1>2. Call(t, n) /\ StacksTyped /\ Finite /\ Within
      BY DEF Tracks
<1> HIDE DEF n
<1>3. Moved(t, n, 0)
      BY <1>1, <1>2, CallMoves
<1>4. \A i \in 2..0 : stack[t][i] \notin Tracked
      OBVIOUS
<1>p. /\ IF 0 = 0 THEN Nought \notin Tracked ELSE Nought = stack[t][1]
      /\ IF Len(n) = 0 THEN b \notin Tracked ELSE b = n[1]
      /\ IF Len(n) <= 1 THEN Nought \notin Tracked ELSE Nought = n[2]
      /\ (Len(n) <= 2 \/ n[3] \notin Tracked) /\ Len(n) <= 3
      BY <1>1, NoughtFrame
<1>5. Finite' /\ Recounted(Nought, b, Nought)
      BY <1>2, <1>3, <1>4, <1>p, Recount
<1>6. b.pc \in WithinPcs => \E k \in (0 + 1)..Len(stack[t]) : stack[t][k].pc \in TurnPcs /\ stack[t][k].ctx = b.ctx
      BY <1>2, AtTop DEF TurnPcs
<1>7. \A i \in 1..Len(n) : n[i] = b
      BY <1>1
<1>8. Within'
      BY <1>2, <1>3, <1>6, <1>7, WithinKept
<1> QED  BY <1>5, <1>8, NoughtFrame DEF Passes

LEMMA PassesFire ==
    ASSUME Tracks, NEW t \in Threads, NEW n \in Seq(FrameSet), Call(t, n), Len(n) \in {2, 3},
           n[1].pc = "fire", \A i \in 2..Len(n) : n[i].pc \in {"runNext", "runNextInternal", "drive"}
    PROVE  Passes(Nought, n[1], Nought)
<1>1. StacksTyped /\ Finite /\ Within
      BY DEF Tracks
<1>2. Moved(t, n, 0)
      BY <1>1, CallMoves
<1>3. \A i \in 2..0 : stack[t][i] \notin Tracked
      OBVIOUS
<1>4. \A i \in 2..Len(n) : n[i] \notin Tracked
      BY DEF Tracked, BusyPcs, LitPcs, DelPcs, EarlyPcs, FirePcs, TurnPcs, UserPcs
<1>5. n[2] \notin Tracked /\ (Len(n) <= 2 \/ n[3] \notin Tracked) /\ Len(n) <= 3 /\ Len(n) # 0 /\ ~(Len(n) <= 1)
      BY <1>4
<1>6. Finite' /\ Recounted(Nought, n[1], n[2])
      BY <1>1, <1>2, <1>3, <1>5, NoughtFrame, Recount
<1>7. Recounted(Nought, n[1], Nought)
      BY <1>5, <1>6, NoughtFrame DEF Recounted, One
<1>8. \A i \in 1..Len(n) : n[i].pc \notin WithinPcs
  <2>1. \A i \in 1..Len(n) : i = 1 \/ i \in 2..Len(n)
        OBVIOUS
  <2> QED  BY <2>1 DEF WithinPcs
<1>9. Within'
      BY <1>1, <1>2, <1>8, WithinKept
<1>10. n[1] \in FrameSet
      BY ElementOfSeq
<1> QED  BY <1>6, <1>7, <1>9, <1>10, NoughtFrame DEF Passes

LEMMA PassesReturn ==
    ASSUME Tracks, NEW t \in Threads, stack[t] # <<>>, Goto(t, <<>>)
    PROVE  Passes(Top(t), Nought, Nought)
<1> DEFINE n == <<>>
<1>1. n \in Seq(FrameSet) /\ Len(n) = 0
      OBVIOUS
<1>2. Goto(t, n) /\ StacksTyped /\ Finite /\ Within
      BY DEF Tracks
<1> HIDE DEF n
<1>3. Moved(t, n, 1)
      BY <1>1, <1>2, GotoMoves
<1>4. Top(t) \in FrameSet /\ Top(t) = stack[t][1]
      BY <1>2, TopFrame
<1>5. \A i \in 2..1 : stack[t][i] \notin Tracked
      OBVIOUS
<1>p. /\ IF 1 = 0 THEN Top(t) \notin Tracked ELSE Top(t) = stack[t][1]
      /\ IF Len(n) = 0 THEN Nought \notin Tracked ELSE Nought = n[1]
      /\ IF Len(n) <= 1 THEN Nought \notin Tracked ELSE Nought = n[2]
      /\ (Len(n) <= 2 \/ n[3] \notin Tracked) /\ Len(n) <= 3
      BY <1>1, <1>4, NoughtFrame
<1>6. Finite' /\ Recounted(Top(t), Nought, Nought)
      BY <1>2, <1>3, <1>5, <1>p, Recount
<1>7. Within'
      BY <1>1, <1>2, <1>3, WithinKept
<1> QED  BY <1>4, <1>6, <1>7, NoughtFrame DEF Passes

LEMMA PassesGoto ==
    ASSUME Tracks, NEW t \in Threads, stack[t] # <<>>, NEW b \in FrameSet, Goto(t, <<b>>), b.pc \notin WithinPcs
    PROVE  Passes(Top(t), b, Nought)
<1> DEFINE n == <<b>>
<1>1. n \in Seq(FrameSet) /\ Len(n) = 1 /\ n[1] = b
      OBVIOUS
<1>2. Goto(t, n) /\ StacksTyped /\ Finite /\ Within
      BY DEF Tracks
<1> HIDE DEF n
<1>3. Moved(t, n, 1)
      BY <1>1, <1>2, GotoMoves
<1>4. Top(t) \in FrameSet /\ Top(t) = stack[t][1]
      BY <1>2, TopFrame
<1>5. \A i \in 2..1 : stack[t][i] \notin Tracked
      OBVIOUS
<1>p. /\ IF 1 = 0 THEN Top(t) \notin Tracked ELSE Top(t) = stack[t][1]
      /\ IF Len(n) = 0 THEN b \notin Tracked ELSE b = n[1]
      /\ IF Len(n) <= 1 THEN Nought \notin Tracked ELSE Nought = n[2]
      /\ (Len(n) <= 2 \/ n[3] \notin Tracked) /\ Len(n) <= 3
      BY <1>1, <1>4, NoughtFrame
<1>6. Finite' /\ Recounted(Top(t), b, Nought)
      BY <1>2, <1>3, <1>5, <1>p, Recount
<1>7. \A i \in 1..Len(n) : n[i] = b
      BY <1>1
<1>8. Within'
      BY <1>2, <1>3, <1>7, WithinKept
<1> QED  BY <1>4, <1>6, <1>8, NoughtFrame DEF Passes

(* The second frame may leave the rest to the hook, inside a turn. *)
LEMMA PassesGoto2 ==
    ASSUME Tracks, NEW t \in Threads, stack[t] # <<>>, NEW b \in FrameSet, NEW e \in FrameSet, Goto(t, <<b, e>>),
           b.pc \notin WithinPcs,
           e.pc \in WithinPcs => \E k \in 2..Len(stack[t]) : stack[t][k].pc \in TurnPcs /\ stack[t][k].ctx = e.ctx
    PROVE  Passes(Top(t), b, e)
<1> DEFINE n == <<b, e>>
<1>1. n \in Seq(FrameSet) /\ Len(n) = 2 /\ n[1] = b /\ n[2] = e
      OBVIOUS
<1>2. Goto(t, n) /\ StacksTyped /\ Finite /\ Within
      BY DEF Tracks
<1> HIDE DEF n
<1>3. Moved(t, n, 1)
      BY <1>1, <1>2, GotoMoves
<1>4. Top(t) \in FrameSet /\ Top(t) = stack[t][1]
      BY <1>2, TopFrame
<1>5. \A i \in 2..1 : stack[t][i] \notin Tracked
      OBVIOUS
<1>p. /\ IF 1 = 0 THEN Top(t) \notin Tracked ELSE Top(t) = stack[t][1]
      /\ IF Len(n) = 0 THEN b \notin Tracked ELSE b = n[1]
      /\ IF Len(n) <= 1 THEN e \notin Tracked ELSE e = n[2]
      /\ (Len(n) <= 2 \/ n[3] \notin Tracked) /\ Len(n) <= 3
      BY <1>1, <1>4, NoughtFrame
<1>6. Finite' /\ Recounted(Top(t), b, e)
      BY <1>2, <1>3, <1>5, <1>p, Recount
<1>7. \A i \in 1..Len(n) : n[i] = b \/ n[i] = e
      BY <1>1
<1>8. \A i \in 1..Len(n) : n[i].pc \in WithinPcs =>
          \E k \in (1 + 1)..Len(stack[t]) : stack[t][k].pc \in TurnPcs /\ stack[t][k].ctx = n[i].ctx
      BY <1>7
<1>9. Within'
      BY <1>2, <1>3, <1>8, WithinKept
<1> QED  BY <1>4, <1>6, <1>9 DEF Passes

-----------------------------------------------------------------------------
(* A step that deletes nothing: it may begin and end fires, and close a      *)
(* context that has drained, whose hook is to run.                           *)

LEMMA StepInvariant ==
    ASSUME LInv, NEW a, NEW b, NEW e, Passes(a, b, e),
           a.pc \notin DelPcs \union {"hook"}, b.pc \notin DelPcs \union {"hook"}, e.pc \notin DelPcs \union FirePcs,
           busy' = ((busy - One(a.pc \in BusyPcs)) + One(b.pc \in BusyPcs)) + One(e.pc \in BusyPcs),
           latch' = latch, armed' \subseteq armed,
           \A c \in Contexts : ctx'[c].firing = (ctx[c].firing - One(a.pc \in FirePcs /\ a.ctx = c))
                                                    + One(b.pc \in FirePcs /\ b.ctx = c),
           \A c \in Contexts :
               IF e.pc = "hook" /\ e.ctx = c
               THEN /\ ctx[c].life = "draining" /\ ctx'[c].life = "closed" /\ Done(ctx'[c])
                    /\ Count(Of({"finishWith"}, c)) = 0
               ELSE /\ ctx'[c].life = ctx[c].life
                    /\ ctx[c].life = "closed" => Done(ctx'[c])
    PROVE  LInv'
<1>0. /\ a \in FrameSet /\ b \in FrameSet /\ e \in FrameSet /\ Recounted(a, b, e) /\ Finite' /\ Within'
      /\ Finite /\ busy = Count(BusyFrames) /\ ArmedSound /\ \A c \in Contexts : Deletion(c)
      BY DEF Passes, LInv
<1>1. busy' = Count(BusyFrames)'
      BY <1>0, RecountBusy
<1>2. ASSUME NEW c
      PROVE  /\ Count(Of({"cancel"}, c))' = Count(Of({"cancel"}, c))
             /\ Count(Of({"closeBegin", "closeGate"}, c))' = Count(Of({"closeBegin", "closeGate"}, c))
             /\ Count(Of({"finishWith"}, c))' = Count(Of({"finishWith"}, c))
             /\ Count(Of({"await"}, c))' = Count(Of({"await"}, c))
             /\ Count(Of({"free"}, c))' = Count(Of({"free"}, c))
             /\ Count(Of({"hook"}, c))' = Count(Of({"hook"}, c)) + One(e.pc = "hook" /\ e.ctx = c)
             /\ Count(Of(FirePcs, c))' = (Count(Of(FirePcs, c)) - One(a.pc \in FirePcs /\ a.ctx = c))
                                             + One(b.pc \in FirePcs /\ b.ctx = c)
  <2>0. /\ Count(Of({"cancel"}, c)) \in Nat /\ Count(Of({"closeBegin", "closeGate"}, c)) \in Nat
        /\ Count(Of({"finishWith"}, c)) \in Nat /\ Count(Of({"await"}, c)) \in Nat
        /\ Count(Of({"free"}, c)) \in Nat /\ Count(Of({"hook"}, c)) \in Nat
        /\ Count(Of(FirePcs, c)) \in Nat
        BY <1>0, CountsOf
  <2>a. ASSUME NEW pcs, pcs \subseteq DelPcs, Count(Of(pcs, c)) \in Nat
        PROVE  Count(Of(pcs, c))' = Count(Of(pcs, c))
    <3>1. One(a.pc \in pcs /\ a.ctx = c) = 0 /\ One(b.pc \in pcs /\ b.ctx = c) = 0 /\ One(e.pc \in pcs /\ e.ctx = c) = 0
          BY <2>a DEF One
    <3>2. pcs \subseteq BusyPcs \union LitPcs
          BY <2>a DEF LitPcs
    <3> HIDE DEF Of
    <3>3. Count(Of(pcs, c))' = ((Count(Of(pcs, c)) - One(a.pc \in pcs /\ a.ctx = c))
                                     + One(b.pc \in pcs /\ b.ctx = c)) + One(e.pc \in pcs /\ e.ctx = c)
          BY <1>0, <3>2, RecountOf
    <3> QED  BY <2>a, <3>1, <3>3
  <2>1. /\ {"cancel"} \subseteq DelPcs /\ {"closeBegin", "closeGate"} \subseteq DelPcs /\ {"finishWith"} \subseteq DelPcs
        /\ {"await"} \subseteq DelPcs /\ {"free"} \subseteq DelPcs
        BY DEF DelPcs, EarlyPcs
  <2>2. Count(Of({"hook"}, c))' = Count(Of({"hook"}, c)) + One(e.pc = "hook" /\ e.ctx = c)
    <3>1. {"hook"} \subseteq BusyPcs \union LitPcs
          BY DEF LitPcs
    <3>2. One(a.pc \in {"hook"} /\ a.ctx = c) = 0 /\ One(b.pc \in {"hook"} /\ b.ctx = c) = 0
          BY DEF One
    <3>3. One(e.pc \in {"hook"} /\ e.ctx = c) = One(e.pc = "hook" /\ e.ctx = c)
          BY DEF One
    <3>4. Count(Of({"hook"}, c))' = ((Count(Of({"hook"}, c)) - One(a.pc \in {"hook"} /\ a.ctx = c))
                                        + One(b.pc \in {"hook"} /\ b.ctx = c)) + One(e.pc \in {"hook"} /\ e.ctx = c)
          BY <1>0, <3>1, RecountOf
    <3> QED  BY <2>0, <3>2, <3>3, <3>4
  <2>3. Count(Of(FirePcs, c))' = (Count(Of(FirePcs, c)) - One(a.pc \in FirePcs /\ a.ctx = c))
                                      + One(b.pc \in FirePcs /\ b.ctx = c)
    <3>1. FirePcs \subseteq BusyPcs \union LitPcs
          BY DEF LitPcs
    <3>2. One(e.pc \in FirePcs /\ e.ctx = c) = 0 /\ One(b.pc \in FirePcs /\ b.ctx = c) \in Nat /\ One(a.pc \in FirePcs /\ a.ctx = c) \in Nat
          BY DEF One
    <3>4. Count(Of(FirePcs, c))' = ((Count(Of(FirePcs, c)) - One(a.pc \in FirePcs /\ a.ctx = c))
                                        + One(b.pc \in FirePcs /\ b.ctx = c)) + One(e.pc \in FirePcs /\ e.ctx = c)
          BY <1>0, <3>1, RecountOf
    <3> QED  BY <2>0, <3>2, <3>4
  <2> QED  BY <2>0, <2>a, <2>1, <2>2, <2>3
<1>3. ArmedSound'
  <2> SUFFICES ASSUME NEW tm \in armed' PROVE latch'[Home[tm]] = "open" \/ Count(Of({"cancel"}, Home[tm]))' # 0
      BY DEF ArmedSound
  <2>1. latch[Home[tm]] = "open" \/ Count(Of({"cancel"}, Home[tm])) # 0
        BY <1>0 DEF ArmedSound
  <2> QED  BY <1>2, <2>1
<1>4. ASSUME NEW c \in Contexts PROVE Deletion(c)'
  <2>0. Deletion(c)
        BY <1>0
  <2> DEFINE k == Count(Of({"cancel"}, c))  l == Count(Of({"closeBegin", "closeGate"}, c))
             f == Count(Of({"finishWith"}, c))  w == Count(Of({"await"}, c))  r == Count(Of({"free"}, c))
             h == Count(Of({"hook"}, c))
  <2>1. k \in Nat /\ l \in Nat /\ f \in Nat /\ w \in Nat /\ r \in Nat /\ h \in Nat
        BY <1>0, CountsOf
  <2>2. Phase(latch[c], ctx[c].life, k, l, f, w, r, h)
        BY <2>0 DEF Deletion, LatchSound
  <2>3. LatchSound(c)' <=> Phase(latch[c], ctx'[c].life, k, l, f, w, r, h + One(e.pc = "hook" /\ e.ctx = c))
        BY <1>2 DEF LatchSound
  <2> HIDE DEF k, l, f, w, r, h
  <2>4. LatchSound(c)'
    <3>1. CASE e.pc = "hook" /\ e.ctx = c
      <4>1. ctx[c].life = "draining" /\ ctx'[c].life = "closed" /\ f = 0 /\ One(e.pc = "hook" /\ e.ctx = c) = 1
            BY <3>1 DEF f, One
      <4> QED  BY <2>1, <2>2, <2>3, <4>1 DEF Phase
    <3>2. CASE ~(e.pc = "hook" /\ e.ctx = c)
      <4>1. ctx'[c].life = ctx[c].life /\ One(e.pc = "hook" /\ e.ctx = c) = 0
            BY <3>2 DEF One
      <4>2. h + 0 = h
            BY <2>1
      <4> QED  BY <2>2, <2>3, <4>1, <4>2
    <3> QED  BY <3>1, <3>2
  <2>5. ctx'[c].firing = Count(Of(FirePcs, c))'
        BY <1>2, <2>0 DEF Deletion
  <2>6. ctx'[c].life = "closed" => Done(ctx'[c])
        OBVIOUS
  <2> QED  BY <2>4, <2>5, <2>6 DEF Deletion
<1> QED  BY <1>0, <1>1, <1>3, <1>4 DEF LInv

-----------------------------------------------------------------------------
(* Steps that move no fire, no deletion and no hook, and close nothing. *)

Steady ==
    /\ latch' = latch /\ armed' \subseteq armed
    /\ \A c \in Contexts : /\ ctx'[c].life = ctx[c].life /\ ctx'[c].firing = ctx[c].firing
                           /\ ctx[c].life = "closed" => Done(ctx'[c])

LEMMA BusyNat ==
    ASSUME LInv
    PROVE  busy \in Nat /\ \A c \in Contexts : ctx[c].firing \in Nat
<1>1. Finite /\ busy = Count(BusyFrames) /\ \A c \in Contexts : ctx[c].firing = Count(Of(FirePcs, c))
      BY DEF LInv, Deletion
<1>2. BusyFrames \subseteq Tracked
      BY DEF BusyFrames, Tracked
<1> QED  BY <1>1, <1>2, CountNat, CountsOf

LEMMA UnchangedSteady ==
    ASSUME LInv, ctx' = ctx, latch' = latch, armed' \subseteq armed
    PROVE  Steady
BY DEF LInv, Deletion, Steady

LEMMA InvTracks ==
    ASSUME RInv, LInv
    PROVE  Tracks /\ StacksTyped
BY DEF RInv, Typed, LInv, Tracks

LEMMA CalmInvariant ==
    ASSUME LInv, NEW a, NEW b, NEW e, Passes(a, b, e), a.pc \notin LitPcs, b.pc \notin LitPcs, e.pc \notin LitPcs,
           busy' = ((busy - One(a.pc \in BusyPcs)) + One(b.pc \in BusyPcs)) + One(e.pc \in BusyPcs), Steady
    PROVE  LInv'
<1>1. /\ a.pc \notin DelPcs \union {"hook"} \union FirePcs /\ b.pc \notin DelPcs \union {"hook"} \union FirePcs
      /\ e.pc \notin DelPcs \union {"hook"} \union FirePcs
      BY DEF LitPcs
<1>2. \A c \in Contexts : ctx'[c].firing = (ctx[c].firing - One(a.pc \in FirePcs /\ a.ctx = c)) + One(b.pc \in FirePcs /\ b.ctx = c)
  <2> SUFFICES ASSUME NEW c \in Contexts
               PROVE  ctx'[c].firing = (ctx[c].firing - One(a.pc \in FirePcs /\ a.ctx = c)) + One(b.pc \in FirePcs /\ b.ctx = c)
      OBVIOUS
  <2>1. One(a.pc \in FirePcs /\ a.ctx = c) = 0 /\ One(b.pc \in FirePcs /\ b.ctx = c) = 0
        BY <1>1 DEF One
  <2>2. ctx[c].firing \in Nat /\ ctx'[c].firing = ctx[c].firing
        BY BusyNat DEF Steady
  <2> QED  BY <2>1, <2>2
<1>3. \A c \in Contexts : ~(e.pc = "hook" /\ e.ctx = c) /\ ctx'[c].life = ctx[c].life /\ (ctx[c].life = "closed" => Done(ctx'[c]))
      BY <1>1 DEF Steady
<1>4. latch' = latch /\ armed' \subseteq armed
      BY DEF Steady
<1> QED  BY <1>1, <1>2, <1>3, <1>4, StepInvariant

LEMMA NoughtCold == Nought.pc \notin LitPcs /\ One(Nought.pc \in BusyPcs) = 0
BY NoughtFrame DEF One, LitPcs, DelPcs, EarlyPcs, FirePcs, BusyPcs, TurnPcs, UserPcs

LEMMA OneNat == \A f : One(f.pc \in BusyPcs) \in {0, 1}
BY DEF One

LEMMA CalmSame ==
    ASSUME RInv, LInv, stack' = stack, busy' = busy, Steady
    PROVE  LInv'
<1>1. Passes(Nought, Nought, Nought)
      BY InvTracks, PassesSame
<1>2. busy' = ((busy - One(Nought.pc \in BusyPcs)) + One(Nought.pc \in BusyPcs)) + One(Nought.pc \in BusyPcs)
      BY BusyNat, NoughtCold
<1> QED  BY <1>1, <1>2, NoughtCold, CalmInvariant

LEMMA CalmCall ==
    ASSUME RInv, LInv, NEW t \in Threads, NEW b \in FrameSet, Call(t, <<b>>), b.pc \notin LitPcs,
           b.pc \in WithinPcs => At(t, "turn") /\ Top(t).ctx = b.ctx,
           busy' = busy + One(b.pc \in BusyPcs), Steady
    PROVE  LInv'
<1>1. Passes(Nought, b, Nought)
      BY InvTracks, PassesCall
<1>2. busy' = ((busy - One(Nought.pc \in BusyPcs)) + One(b.pc \in BusyPcs)) + One(Nought.pc \in BusyPcs)
      BY BusyNat, NoughtCold, OneNat
<1> QED  BY <1>1, <1>2, NoughtCold, CalmInvariant

LEMMA CalmReturn ==
    ASSUME RInv, LInv, NEW t \in Threads, stack[t] # <<>>, Goto(t, <<>>), Top(t).pc \notin LitPcs,
           busy' = busy - One(Top(t).pc \in BusyPcs), Steady
    PROVE  LInv'
<1>1. Passes(Top(t), Nought, Nought)
      BY InvTracks, PassesReturn
<1>2. busy' = ((busy - One(Top(t).pc \in BusyPcs)) + One(Nought.pc \in BusyPcs)) + One(Nought.pc \in BusyPcs)
      BY BusyNat, NoughtCold, OneNat
<1> QED  BY <1>1, <1>2, NoughtCold, CalmInvariant

LEMMA CalmGoto ==
    ASSUME RInv, LInv, NEW t \in Threads, stack[t] # <<>>, NEW b \in FrameSet, Goto(t, <<b>>), Top(t).pc \notin LitPcs,
           b.pc \notin LitPcs \union WithinPcs,
           busy' = (busy - One(Top(t).pc \in BusyPcs)) + One(b.pc \in BusyPcs), Steady
    PROVE  LInv'
<1>1. Passes(Top(t), b, Nought)
      BY InvTracks, PassesGoto
<1>2. busy' = ((busy - One(Top(t).pc \in BusyPcs)) + One(b.pc \in BusyPcs)) + One(Nought.pc \in BusyPcs)
      BY BusyNat, NoughtCold, OneNat
<1> QED  BY <1>1, <1>2, NoughtCold, CalmInvariant

LEMMA CalmGoto2 ==
    ASSUME RInv, LInv, NEW t \in Threads, stack[t] # <<>>, NEW b \in FrameSet, NEW e \in FrameSet, Goto(t, <<b, e>>),
           Top(t).pc \notin LitPcs, b.pc \notin LitPcs \union WithinPcs, e.pc \notin LitPcs \union WithinPcs,
           busy' = ((busy - One(Top(t).pc \in BusyPcs)) + One(b.pc \in BusyPcs)) + One(e.pc \in BusyPcs), Steady
    PROVE  LInv'
<1>1. Passes(Top(t), b, e)
      BY InvTracks, PassesGoto2
<1> QED  BY <1>1, CalmInvariant

(* Which frames are counted busy. *)
FreePcs == {"stopState", "stopBusy", "stopWaiting", "stopGate", "retire", "serve", "serveIdle", "serveCheck", "exited",
            "drive", "runNext", "runNextInternal"}

LEMMA FreePlain ==
    ASSUME NEW pc \in FreePcs
    PROVE  /\ Frame(pc, None, None) \in FrameSet /\ Frame(pc, None, None).pc = pc
           /\ pc \notin LitPcs \union WithinPcs \union BusyPcs /\ One(pc \in BusyPcs) = 0
<1>1. pc \in PlainPcs
      BY DEF FreePcs, PlainPcs
<1>2. pc \notin LitPcs \union WithinPcs \union BusyPcs
      BY DEF FreePcs, LitPcs, DelPcs, EarlyPcs, FirePcs, WithinPcs, BusyPcs, TurnPcs, UserPcs
<1> QED  BY <1>1, <1>2, PlainFrame DEF One

LEMMA BusyPlain ==
    ASSUME NEW pc \in {"endBusy", "fire", "take"}
    PROVE  /\ Frame(pc, None, None) \in FrameSet /\ Frame(pc, None, None).pc = pc
           /\ pc \notin LitPcs \union WithinPcs /\ pc \in BusyPcs /\ One(pc \in BusyPcs) = 1
<1>1. pc \in PlainPcs
      BY DEF PlainPcs
<1>2. pc \notin LitPcs \union WithinPcs /\ pc \in BusyPcs
      BY DEF LitPcs, DelPcs, EarlyPcs, FirePcs, WithinPcs, BusyPcs
<1> QED  BY <1>1, <1>2, PlainFrame DEF One

LEMMA EndBusyFrame ==
    /\ EndBusy \in FrameSet /\ EndBusy.pc = "endBusy" /\ EndBusy.pc \notin LitPcs \union WithinPcs
    /\ EndBusy.pc \in BusyPcs /\ One(EndBusy.pc \in BusyPcs) = 1
BY BusyPlain DEF EndBusy

(* Turns, submissions and wakes are counted; a claim, and work queued        *)
(* internally, too.                                                          *)
LEMMA BusyWork ==
    ASSUME NEW pc \in TurnPcs \union UserPcs \union {"claim", "internalGate"}
    PROVE  /\ pc \notin LitPcs /\ pc \in BusyPcs /\ One(pc \in BusyPcs) = 1
           /\ pc # "internalGate" => pc \notin WithinPcs
BY DEF LitPcs, DelPcs, EarlyPcs, FirePcs, WithinPcs, BusyPcs, TurnPcs, UserPcs, One

-----------------------------------------------------------------------------
LEMMA ShutdownDeletion ==
    ASSUME RInv, LInv, NEW t \in Threads, Shutdown(t)
    PROVE  LInv'
<1>0. StacksTyped /\ busy \in Nat
      BY InvTracks, BusyNat
<1>1. ASSUME NEW pc \in FreePcs, NEW to \in FreePcs, At(t, pc), Goto(t, <<Frame(to, None, None)>>) \/ Goto(t, <<>>),
             busy' = busy, Steady
      PROVE  LInv'
  <2>1. stack[t] # <<>> /\ Top(t).pc = pc
        BY <1>0, <1>1, AtTop
  <2> DEFINE b == Frame(to, None, None)
  <2>2. /\ Top(t).pc \notin LitPcs /\ One(Top(t).pc \in BusyPcs) = 0
        /\ b \in FrameSet /\ b.pc \notin LitPcs \union WithinPcs /\ One(b.pc \in BusyPcs) = 0
        BY <2>1, FreePlain
  <2>3. Goto(t, <<b>>) \/ Goto(t, <<>>)
        BY <1>1
  <2> HIDE DEF b
  <2>4. busy' = busy - One(Top(t).pc \in BusyPcs) /\ busy' = (busy - One(Top(t).pc \in BusyPcs)) + One(b.pc \in BusyPcs)
        BY <1>0, <1>1, <2>2
  <2> QED  BY <1>1, <2>1, <2>2, <2>3, <2>4, CalmGoto, CalmReturn
<1>2. ASSUME UNCHANGED <<schedVars, latch>>, armed' \subseteq armed PROVE Steady
      BY <1>2, UnchangedSteady DEF schedVars
<1>3. CASE EndBusyStep(t)
  <2>1. At(t, "endBusy") /\ busy' = busy - 1 /\ Steady
        BY <1>2, <1>3 DEF EndBusyStep, timerVars
  <2>2. Goto(t, <<Frame("stopState", None, None)>>) \/ Goto(t, <<>>)
        BY <1>3 DEF EndBusyStep
  <2>3. stack[t] # <<>> /\ Top(t).pc = "endBusy"
        BY <1>0, <2>1, AtTop
  <2>4. Top(t).pc \notin LitPcs /\ One(Top(t).pc \in BusyPcs) = 1
        BY <2>3, BusyPlain
  <2> DEFINE b == Frame("stopState", None, None)
  <2>5. b \in FrameSet /\ b.pc \notin LitPcs \union WithinPcs /\ One(b.pc \in BusyPcs) = 0
    <3>1. "stopState" \in FreePcs
          BY DEF FreePcs
    <3> QED  BY <3>1, FreePlain
  <2> HIDE DEF b
  <2>6. Goto(t, <<b>>) \/ Goto(t, <<>>)
        BY <2>2 DEF b
  <2>7. busy' = busy - One(Top(t).pc \in BusyPcs) /\ busy' = (busy - One(Top(t).pc \in BusyPcs)) + One(b.pc \in BusyPcs)
        BY <1>0, <2>1, <2>4, <2>5
  <2> QED  BY <2>1, <2>3, <2>4, <2>5, <2>6, <2>7, CalmGoto, CalmReturn
<1>4. CASE StopState(t) \/ StopBusy(t) \/ StopWaiting(t) \/ StopGate(t)
  <2>1. busy' = busy /\ Steady
        BY <1>2, <1>4 DEF StopState, StopBusy, StopWaiting, StopGate, timerVars, atomics
  <2>2. \E pc \in {"stopState", "stopBusy", "stopWaiting", "stopGate"}, to \in {"stopBusy", "stopWaiting", "stopGate"} :
            At(t, pc) /\ (Goto(t, <<Frame(to, None, None)>>) \/ Goto(t, <<>>))
    <3>1. CASE StopState(t)
          BY <3>1 DEF StopState
    <3>2. CASE StopBusy(t)
          BY <3>2 DEF StopBusy
    <3>3. CASE StopWaiting(t)
          BY <3>3 DEF StopWaiting
    <3>4. CASE StopGate(t)
          BY <3>4 DEF StopGate, Return
    <3> QED  BY <1>4, <3>1, <3>2, <3>3, <3>4
  <2>3. {"stopState", "stopBusy", "stopWaiting", "stopGate"} \subseteq FreePcs
        BY DEF FreePcs
  <2> QED  BY <1>1, <2>1, <2>2, <2>3
<1>5. CASE Retire(t) \/ DriveEnds(t)
  <2>1. busy' = busy /\ Steady
        BY <1>2, <1>5 DEF Retire, DriveEnds, timerVars, atomics
  <2>2. \E pc \in {"retire", "drive"} : At(t, pc) /\ Goto(t, <<Frame("stopState", None, None)>>)
        BY <1>5 DEF Retire, DriveEnds
  <2>3. {"retire", "drive", "stopState"} \subseteq FreePcs
        BY DEF FreePcs
  <2> QED  BY <1>1, <2>1, <2>2, <2>3
<1>6. CASE ServeCheck(t)
  <2>1. busy' = busy /\ Steady
        BY <1>2, <1>6 DEF ServeCheck, timerVars, atomics
  <2>2. \E to \in {"exited", "serve"} : At(t, "serveCheck") /\ Goto(t, <<Frame(to, None, None)>>)
        BY <1>6 DEF ServeCheck
  <2>3. {"serveCheck", "exited", "serve"} \subseteq FreePcs
        BY DEF FreePcs
  <2> QED  BY <1>1, <2>1, <2>2, <2>3
<1>7. CASE ServeIdle(t)
  <2> DEFINE b == Frame("stopState", None, None)  e == Frame("serveCheck", None, None)
  <2>1. busy' = busy /\ Steady
        BY <1>2, <1>7 DEF ServeIdle, timerVars, atomics
  <2>2. At(t, "serveIdle") /\ Goto(t, <<b, e>>)
        BY <1>7 DEF ServeIdle
  <2>3. "serveIdle" \in FreePcs /\ "stopState" \in FreePcs /\ "serveCheck" \in FreePcs
        BY DEF FreePcs
  <2>4. stack[t] # <<>> /\ Top(t).pc = "serveIdle"
        BY <1>0, <2>2, AtTop
  <2>5. /\ Top(t).pc \notin LitPcs /\ One(Top(t).pc \in BusyPcs) = 0
        /\ b \in FrameSet /\ b.pc \notin LitPcs \union WithinPcs /\ One(b.pc \in BusyPcs) = 0
        /\ e \in FrameSet /\ e.pc \notin LitPcs \union WithinPcs /\ One(e.pc \in BusyPcs) = 0
        BY <2>3, <2>4, FreePlain
  <2> HIDE DEF b, e
  <2>6. busy' = ((busy - One(Top(t).pc \in BusyPcs)) + One(b.pc \in BusyPcs)) + One(e.pc \in BusyPcs)
        BY <1>0, <2>1, <2>5
  <2> QED  BY <2>1, <2>2, <2>4, <2>5, <2>6, CalmGoto2
<1>8. CASE FireNoMore(t)
  <2>1. busy' = busy /\ Steady
        BY <1>2, <1>8 DEF FireNoMore, timerVars, atomics
  <2>2. At(t, "fire") /\ Goto(t, <<EndBusy>>)
        BY <1>8 DEF FireNoMore
  <2>3. stack[t] # <<>> /\ Top(t).pc = "fire"
        BY <1>0, <2>2, AtTop
  <2>4. Top(t).pc \notin LitPcs /\ One(Top(t).pc \in BusyPcs) = 1
        BY <2>3, BusyPlain
  <2>5. busy' = (busy - One(Top(t).pc \in BusyPcs)) + One(EndBusy.pc \in BusyPcs)
        BY <1>0, <2>1, <2>4, EndBusyFrame
  <2> QED  BY <2>1, <2>2, <2>3, <2>4, <2>5, EndBusyFrame, CalmGoto
<1> QED  BY <1>3, <1>4, <1>5, <1>6, <1>7, <1>8 DEF Shutdown

-----------------------------------------------------------------------------
(* Calls begin. *)

LEMMA StartDeletion ==
    ASSUME RInv, LInv, NEW t \in Threads,
           \/ TryRetainOwner(t) \/ ReleaseOwner(t) \/ Serve(t) \/ Drive(t) \/ Help(t) \/ RunNext(t)
           \/ \E c \in Contexts, r \in Plain : Submit(t, c, r)
           \/ \E r \in Plain : SubmitInternal(t, r)
           \/ \E r \in Plain : \E gen \in 1..req[r].gen : WakeRequest(t, r, gen)
           \/ \E tm \in Timers : CancelTimer(t, tm)
    PROVE  LInv'
<1>0. Tracks /\ StacksTyped /\ busy \in Nat
      BY InvTracks, BusyNat
<1>a. ASSUME ctx' = ctx, latch' = latch, armed' \subseteq armed PROVE Steady
      BY <1>a, UnchangedSteady
<1>b. ASSUME NEW n, Begin(t, n) PROVE busy' = busy + 1 /\ Call(t, n) /\ Steady
      BY <1>a, <1>b DEF Begin, schedVars, timerVars
<1>1. CASE TryRetainOwner(t) \/ \E tm \in Timers : CancelTimer(t, tm)
  <2>1. stack' = stack /\ busy' = busy /\ ctx' = ctx /\ latch' = latch /\ armed' \subseteq armed
        BY <1>1 DEF TryRetainOwner, CancelTimer, schedVars, timerVars, atomics
  <2> QED  BY <1>a, <2>1, CalmSame
<1>2. CASE ReleaseOwner(t)
  <2>1. busy' = busy /\ ctx' = ctx /\ latch' = latch /\ armed' \subseteq armed
        BY <1>2 DEF ReleaseOwner, schedVars, timerVars, atomics
  <2> DEFINE b == Frame("retire", None, None)
  <2>2. Call(t, <<b>>) \/ stack' = stack
        BY <1>2 DEF ReleaseOwner
  <2>3. b \in FrameSet /\ b.pc \notin LitPcs \union WithinPcs /\ One(b.pc \in BusyPcs) = 0
    <3>1. "retire" \in FreePcs
          BY DEF FreePcs
    <3> QED  BY <3>1, FreePlain
  <2> HIDE DEF b
  <2>4. busy' = busy + One(b.pc \in BusyPcs)
        BY <1>0, <2>1, <2>3
  <2> QED  BY <1>a, <2>1, <2>2, <2>3, <2>4, CalmSame, CalmCall
<1>3. ASSUME NEW n \in Seq(FrameSet), Begin(t, n), Len(n) \in {2, 3}, n[1].pc = "fire",
             \A i \in 2..Len(n) : n[i].pc \in {"runNext", "runNextInternal", "drive"}
      PROVE  LInv'
  <2>1. busy' = busy + 1 /\ Call(t, n) /\ Steady
        BY <1>b, <1>3
  <2>2. Passes(Nought, n[1], Nought)
        BY <1>0, <1>3, <2>1, PassesFire
  <2>3. n[1].pc \notin LitPcs /\ One(n[1].pc \in BusyPcs) = 1
        BY <1>3, BusyPlain
  <2>4. busy' = ((busy - One(Nought.pc \in BusyPcs)) + One(n[1].pc \in BusyPcs)) + One(Nought.pc \in BusyPcs)
        BY <1>0, <2>1, <2>3, NoughtCold
  <2> QED  BY <2>1, <2>2, <2>3, <2>4, NoughtCold, CalmInvariant
<1>4. CASE Serve(t) \/ Help(t) \/ Drive(t)
  <2> DEFINE a == Frame("fire", None, None)
  <2>1. \E b \in {Frame("runNext", None, None), Frame("runNextInternal", None, None)} :
            Begin(t, <<a, b>>) \/ Begin(t, <<a, b, Frame("drive", None, None)>>)
        BY <1>4 DEF Serve, Help, Drive
  <2>2. a \in FrameSet /\ a.pc = "fire"
        BY BusyPlain
  <2>3. /\ \A b \in {Frame("runNext", None, None), Frame("runNextInternal", None, None)} :
               b \in FrameSet /\ b.pc \in {"runNext", "runNextInternal", "drive"}
        /\ Frame("drive", None, None) \in FrameSet /\ Frame("drive", None, None).pc = "drive"
    <3>1. {"runNext", "runNextInternal", "drive"} \subseteq FreePcs
          BY DEF FreePcs
    <3> QED  BY <3>1, FreePlain
  <2> DEFINE e == Frame("drive", None, None)
  <2>4. PICK b \in FrameSet : /\ b.pc \in {"runNext", "runNextInternal", "drive"}
                              /\ Begin(t, <<a, b>>) \/ Begin(t, <<a, b, e>>)
        BY <2>1, <2>3
  <2>5. e \in FrameSet /\ e.pc = "drive"
        BY <2>3
  <2> HIDE DEF a, e
  <2>6. CASE Begin(t, <<a, b>>)
    <3> DEFINE n == <<a, b>>
    <3>1. n \in Seq(FrameSet) /\ Len(n) = 2 /\ n[1] = a /\ n[2] = b
          BY <2>2
    <3>2. \A i \in 2..Len(n) : n[i] = b
          BY <3>1
    <3>3. Begin(t, n)
          BY <2>6
    <3> HIDE DEF n
    <3> QED  BY <1>3, <2>2, <2>4, <3>1, <3>2, <3>3
  <2>7. CASE Begin(t, <<a, b, e>>)
    <3> DEFINE n == <<a, b, e>>
    <3>1. n \in Seq(FrameSet) /\ Len(n) = 3 /\ n[1] = a /\ n[2] = b /\ n[3] = e
          BY <2>2, <2>5
    <3>2. \A i \in 2..Len(n) : n[i] = b \/ n[i] = e
          BY <3>1
    <3>3. Begin(t, n)
          BY <2>7
    <3> HIDE DEF n
    <3> QED  BY <1>3, <2>2, <2>4, <2>5, <3>1, <3>2, <3>3
  <2> QED  BY <2>4, <2>6, <2>7
<1>5. ASSUME NEW b \in FrameSet, Begin(t, <<b>>), b.pc \notin LitPcs, One(b.pc \in BusyPcs) = 1,
             b.pc \in WithinPcs => At(t, "turn") /\ Top(t).ctx = b.ctx
      PROVE  LInv'
  <2>1. busy' = busy + 1 /\ Call(t, <<b>>) /\ Steady
        BY <1>b, <1>5
  <2>2. busy' = busy + One(b.pc \in BusyPcs)
        BY <1>5, <2>1
  <2> QED  BY <1>5, <2>1, <2>2, CalmCall
<1>6. CASE RunNext(t)
  <2>1. Begin(t, <<Frame("take", None, None)>>)
        BY <1>6 DEF RunNext
  <2> QED  BY <1>5, <2>1, BusyPlain
<1>7. ASSUME NEW c \in Contexts, NEW r \in Plain, Submit(t, c, r) PROVE LInv'
  <2> DEFINE b == Frame("submitState", c, r)
  <2>1. Begin(t, <<b>>) /\ r \in Reqs
        BY <1>7 DEF Submit, Reqs
  <2>2. b \in FrameSet /\ b.pc = "submitState"
        BY <2>1, ReqFrame DEF AboutPcs, UserPcs
  <2>3. b.pc \notin LitPcs /\ One(b.pc \in BusyPcs) = 1 /\ b.pc \notin WithinPcs
        BY <2>2, BusyWork DEF UserPcs
  <2> HIDE DEF b
  <2> QED  BY <1>5, <2>1, <2>2, <2>3
<1>8. ASSUME NEW r \in Plain, SubmitInternal(t, r) PROVE LInv'
  <2> DEFINE b == Frame("internalGate", Top(t).ctx, r)
  <2>1. Begin(t, <<b>>) /\ r \in Reqs /\ At(t, "turn")
        BY <1>8 DEF SubmitInternal, Reqs
  <2>2. Top(t).ctx \in Contexts
        BY <1>0, <2>1, AtTop DEF Fit, TurnPcs
  <2>3. b \in FrameSet /\ b.pc = "internalGate" /\ b.ctx = Top(t).ctx
        BY <2>1, <2>2, ReqFrame DEF AboutPcs
  <2>4. b.pc \notin LitPcs /\ One(b.pc \in BusyPcs) = 1
        BY <2>3, BusyWork
  <2> HIDE DEF b
  <2> QED  BY <1>5, <2>1, <2>3, <2>4
<1>9. ASSUME NEW r \in Plain, NEW gen \in 1..req[r].gen, WakeRequest(t, r, gen) PROVE LInv'
  <2> DEFINE o == req[r].on  f == Frame("wakeGate", o, r)  b == [f EXCEPT !.gen = gen]
  <2>1. Begin(t, <<b>>) /\ r \in Reqs /\ o # None
        BY <1>9 DEF WakeRequest, Reqs
  <2>2. o \in Contexts /\ req[r].gen \in Nat
        BY <2>1 DEF RInv, Typed, ReqT
  <2>3. f \in FrameSet /\ f.pc = "wakeGate" /\ f.ctx = o
        BY <2>1, <2>2, ReqFrame DEF AboutPcs, UserPcs
  <2> HIDE DEF o, f
  <2>4. gen \in Nat
        BY <2>2
  <2>5. b \in FrameSet /\ b.pc = "wakeGate"
        BY <2>3, <2>4 DEF FrameSet, Fit, TurnPcs, UserPcs
  <2>6. b.pc \notin LitPcs /\ One(b.pc \in BusyPcs) = 1 /\ b.pc \notin WithinPcs
        BY <2>5, BusyWork DEF UserPcs
  <2> HIDE DEF b
  <2> QED  BY <1>5, <2>1, <2>5, <2>6
<1> QED  BY <1>1, <1>2, <1>4, <1>6, <1>7, <1>8, <1>9

(* A timer is armed only while nobody has begun to delete its context. *)
LEMMA ArmDeletion ==
    ASSUME RInv, LInv, NEW t \in Threads, NEW tm \in Timers, NEW noLater \in BOOLEAN, ArmTimer(t, tm, noLater)
    PROVE  LInv'
<1>1. /\ latch[Home[tm]] = "open" /\ armed' = armed \union {tm}
      /\ stack' = stack /\ busy' = busy /\ ctx' = ctx /\ latch' = latch
      BY DEF ArmTimer, schedVars, atomics
<1>2. \A S : Places(S)' = Places(S) /\ Count(S)' = Count(S)
      BY <1>1 DEF Places, Count
<1>3. Finite' /\ busy' = Count(BusyFrames)' /\ Within'
      BY <1>1, <1>2 DEF LInv, Finite, Within, Tracked, BusyFrames
<1>4. ArmedSound'
      BY <1>1, <1>2 DEF LInv, ArmedSound
<1>5. ASSUME NEW c \in Contexts PROVE Deletion(c)'
  <2>1. Deletion(c)
        BY DEF LInv
  <2>2. LatchSound(c)' <=> LatchSound(c)
        BY <1>1, <1>2 DEF LatchSound
  <2> QED  BY <1>1, <1>2, <2>1, <2>2 DEF Deletion
<1> QED  BY <1>3, <1>4, <1>5 DEF LInv

-----------------------------------------------------------------------------
(* Submissions, wakes and turns go on. *)

LEMMA OneSteady ==
    ASSUME LInv, ctx \in [Contexts -> CtxT], latch' = latch, armed' \subseteq armed, NEW c \in Contexts, NEW y,
           ctx' = [ctx EXCEPT ![c] = y], y.life = ctx[c].life, y.firing = ctx[c].firing, ctx[c].life # "closed"
    PROVE  Steady
<1>1. ASSUME NEW e \in Contexts
      PROVE  /\ ctx'[e].life = ctx[e].life /\ ctx'[e].firing = ctx[e].firing
             /\ ctx[e].life = "closed" => Done(ctx'[e])
  <2>1. CASE e = c
        BY <2>1
  <2>2. CASE e # c
        BY <2>2 DEF LInv, Deletion
  <2> QED  BY <2>1, <2>2
<1> QED  BY <1>1 DEF Steady

(* What steps do to the record of a context leaves its life and its fires   *)
(* alone.                                                                   *)
LEMMA LifeKept ==
    ASSUME NEW x \in CtxT, NEW k
    PROVE  /\ [x EXCEPT !.pending = k].life = x.life /\ [x EXCEPT !.pending = k].firing = x.firing
           /\ [x EXCEPT !.waiting = k].life = x.life /\ [x EXCEPT !.waiting = k].firing = x.firing
           /\ [x EXCEPT !.queue = k].life = x.life /\ [x EXCEPT !.queue = k].firing = x.firing
           /\ [x EXCEPT !.exec = k].life = x.life /\ [x EXCEPT !.exec = k].firing = x.firing
BY DEF CtxT

LEMMA JoinedLife ==
    ASSUME NEW x \in CtxT, NEW r \in Reqs
    PROVE  /\ Queued(x, r) \in CtxT /\ Queued(x, r).life = x.life /\ Queued(x, r).firing = x.firing
           /\ Schedule(x) \in CtxT /\ Schedule(x).life = x.life /\ Schedule(x).firing = x.firing
<1>1. Queued(x, r) \in CtxT /\ Schedule(x) \in CtxT
      BY QueuedFacts, ScheduleFacts
<1>2. Queued(x, r) = [x EXCEPT !.queue = Append(x.queue, r)]
      BY DEF Queued
<1>3. Schedule(x) = [x EXCEPT !.exec = IF Schedules(x) THEN "scheduled" ELSE x.exec]
      BY DEF Schedule
<1>4. Queued(x, r).life = x.life /\ Queued(x, r).firing = x.firing
      BY <1>2, LifeKept
<1>5. Schedule(x).life = x.life /\ Schedule(x).firing = x.firing
      BY <1>3, LifeKept
<1> QED  BY <1>1, <1>4, <1>5

LEMMA AdmitSteady ==
    ASSUME RInv, LInv, latch' = latch, armed' \subseteq armed, NEW c \in Contexts, NEW r \in Reqs, NEW internal \in BOOLEAN,
           Admit(c, r, internal), ctx[c].life # "closed"
    PROVE  Steady
<1>1. ctx \in [Contexts -> CtxT] /\ ctx[c] \in CtxT
      BY DEF RInv, Typed
<1> DEFINE w == [ctx[c] EXCEPT !.pending = @ + (IF internal THEN 0 ELSE 1)]
           x == Queued(w, r)  y == Schedule(x)
<1>2. ctx' = [ctx EXCEPT ![c] = y]
      BY DEF Admit
<1>3. w \in CtxT /\ w.life = ctx[c].life /\ w.firing = ctx[c].firing
  <2>1. PICK k \in Int : k = ctx[c].pending + (IF internal THEN 0 ELSE 1)
        BY <1>1 DEF CtxT
  <2>2. w = [ctx[c] EXCEPT !.pending = k]
        BY <2>1
  <2> HIDE DEF w
  <2> QED  BY <1>1, <2>2, BudgetFacts, LifeKept
<1> HIDE DEF w
<1>4. x \in CtxT /\ x.life = ctx[c].life /\ x.firing = ctx[c].firing
      BY <1>3, JoinedLife
<1> HIDE DEF x
<1>5. y.life = ctx[c].life /\ y.firing = ctx[c].firing
      BY <1>4, JoinedLife
<1> HIDE DEF y
<1> QED  BY <1>1, <1>2, <1>5, OneSteady

LEMMA SubmitDeletion ==
    ASSUME RInv, LInv, NEW t \in Threads, SubmitState(t) \/ SubmitQueues(t) \/ InternalGate(t)
    PROVE  LInv'
<1>0. Tracks /\ StacksTyped /\ busy \in Nat
      BY InvTracks, BusyNat
<1>1. ASSUME NEW pc \in {"submitState", "submitGate", "internalGate"}, At(t, pc), NEW b \in FrameSet, Goto(t, <<b>>),
             b.pc \in {"submitGate", "endBusy"}, busy' = busy, Steady
      PROVE  LInv'
  <2>1. stack[t] # <<>> /\ Top(t).pc = pc
        BY <1>0, <1>1, AtTop
  <2>2. Top(t).pc \notin LitPcs /\ One(Top(t).pc \in BusyPcs) = 1
        BY <2>1, BusyWork DEF UserPcs
  <2>3. b.pc \notin LitPcs \union WithinPcs /\ One(b.pc \in BusyPcs) = 1
        BY <1>1, BusyWork, EndBusyFrame DEF UserPcs
  <2>4. busy' = (busy - One(Top(t).pc \in BusyPcs)) + One(b.pc \in BusyPcs)
        BY <1>0, <1>1, <2>2, <2>3
  <2> QED  BY <1>1, <2>1, <2>2, <2>3, <2>4, CalmGoto
<1>2. CASE SubmitState(t)
  <2>1. At(t, "submitState") /\ busy' = busy /\ ctx' = ctx /\ latch' = latch /\ armed' = armed
        BY <1>2 DEF SubmitState, schedVars, timerVars, atomics
  <2> DEFINE a == [Top(t) EXCEPT !.pc = "submitGate"]
  <2>2. Top(t) \in FrameSet /\ Top(t).pc = "submitState"
        BY <1>0, <2>1, AtTop
  <2>3. a \in FrameSet /\ a.pc = "submitGate"
        BY <2>2, MovedFrame DEF AboutPcs, UserPcs, Pcs
  <2>4. Goto(t, <<a>>) \/ Goto(t, <<EndBusy>>)
        BY <1>2 DEF SubmitState
  <2> HIDE DEF a
  <2>5. Steady
        BY <2>1, UnchangedSteady
  <2> QED  BY <1>1, <2>1, <2>3, <2>4, <2>5, EndBusyFrame
<1>3. CASE SubmitQueues(t)
  <2> DEFINE c == Top(t).ctx  r == Top(t).req
  <2>1. At(t, "submitGate") /\ busy' = busy /\ latch' = latch /\ armed' = armed /\ Goto(t, <<EndBusy>>)
        BY <1>3 DEF SubmitQueues, timerVars, atomics
  <2>2. c \in Contexts /\ r \in Reqs
        BY <1>0, <2>1, AtTop DEF Fit, UserPcs
  <2>3. ctx' = ctx \/ (~Refuses(c, r) /\ Admit(c, r, FALSE))
        BY <1>3 DEF SubmitQueues, schedVars
  <2>4. ~Refuses(c, r) => ctx[c].life # "closed"
        BY DEF Refuses
  <2> HIDE DEF c, r
  <2>5. Steady
        BY <2>1, <2>2, <2>3, <2>4, UnchangedSteady, AdmitSteady
  <2> QED  BY <1>1, <2>1, <2>5, EndBusyFrame
<1>4. CASE InternalGate(t)
  <2> DEFINE c == Top(t).ctx  r == Top(t).req
  <2>1. At(t, "internalGate") /\ busy' = busy /\ latch' = latch /\ armed' = armed /\ Goto(t, <<EndBusy>>)
        BY <1>4 DEF InternalGate, timerVars, atomics
  <2>2. c \in Contexts /\ r \in Reqs
        BY <1>0, <2>1, AtTop DEF Fit
  <2>3. ctx' = ctx \/ (ctx[c].life # "closed" /\ Admit(c, r, TRUE))
        BY <1>4 DEF InternalGate, schedVars
  <2> HIDE DEF c, r
  <2>5. Steady
        BY <2>1, <2>2, <2>3, UnchangedSteady, AdmitSteady
  <2> QED  BY <1>1, <2>1, <2>5, EndBusyFrame
<1> QED  BY <1>2, <1>3, <1>4

-----------------------------------------------------------------------------
(* Turns go on, and those that look for work. *)

LEMMA TurnDeletion ==
    ASSUME RInv, LInv, NEW t \in Threads,
           PrepareWait(t) \/ TimerRun(t) \/ CallbackReturns(t) \/ TimerEnd(t)
    PROVE  LInv'
<1>0. Tracks /\ StacksTyped /\ busy \in Nat
      BY InvTracks, BusyNat
<1>1. busy' = busy /\ ctx' = ctx /\ latch' = latch /\ armed' = armed
      BY DEF PrepareWait, TimerRun, CallbackReturns, TimerEnd, schedVars, timerVars, atomics
<1>2. \E pc \in TurnPcs, to \in TurnPcs : At(t, pc) /\ Goto(t, <<[Top(t) EXCEPT !.pc = to]>>)
  <2>0. {"turn", "waits", "timerRun", "callback", "timerEnd", "finishDone", "finishYield"} = TurnPcs
        BY DEF TurnPcs
  <2>1. CASE PrepareWait(t)
        BY <2>0, <2>1 DEF PrepareWait
  <2>2. CASE TimerRun(t)
        BY <2>0, <2>2 DEF TimerRun
  <2>3. CASE CallbackReturns(t)
        BY <2>0, <2>3 DEF CallbackReturns
  <2>4. CASE TimerEnd(t)
        BY <2>0, <2>4 DEF TimerEnd
  <2> QED  BY <2>1, <2>2, <2>3, <2>4
<1>3. PICK pc \in TurnPcs, to \in TurnPcs : At(t, pc) /\ Goto(t, <<[Top(t) EXCEPT !.pc = to]>>)
      BY <1>2
<1>4. stack[t] # <<>> /\ Top(t).pc = pc /\ Top(t) \in FrameSet
      BY <1>0, <1>3, AtTop
<1> DEFINE b == [Top(t) EXCEPT !.pc = to]
<1>5. b \in FrameSet /\ b.pc = to
      BY <1>4, MovedFrame DEF AboutPcs, Pcs
<1>6. Goto(t, <<b>>)
      BY <1>3
<1> HIDE DEF b
<1>7. /\ Top(t).pc \notin LitPcs /\ One(Top(t).pc \in BusyPcs) = 1
      /\ b.pc \notin LitPcs \union WithinPcs /\ One(b.pc \in BusyPcs) = 1
  <2>1. pc # "internalGate" /\ to # "internalGate"
        BY DEF TurnPcs
  <2> QED  BY <1>4, <1>5, <2>1, BusyWork
<1>8. busy' = (busy - One(Top(t).pc \in BusyPcs)) + One(b.pc \in BusyPcs)
      BY <1>0, <1>1, <1>7
<1>9. Steady
      BY <1>1, UnchangedSteady
<1> QED  BY <1>4, <1>5, <1>6, <1>7, <1>8, <1>9, CalmGoto

LEMMA InlineDeletion ==
    ASSUME RInv, LInv, NEW t \in Threads, SubmitInline(t)
    PROVE  LInv'
<1>0. Tracks /\ StacksTyped /\ busy \in Nat /\ ctx \in [Contexts -> CtxT]
      BY InvTracks, BusyNat DEF RInv, Typed
<1> PICK c, r : c = Top(t).ctx /\ r = Top(t).req
    OBVIOUS
<1> DEFINE b == StartTurn(c, r)
<1>1. /\ At(t, "submitGate") /\ ctx[c].life = "open" /\ Goto(t, <<b, EndBusy>>)
      /\ ctx' = [ctx EXCEPT ![c].pending = @ + 1, ![c].exec = "running"]
      /\ busy' = busy + 1 /\ latch' = latch /\ armed' = armed
      BY DEF SubmitInline, timerVars, Refuses
<1>2. stack[t] # <<>> /\ Top(t).pc = "submitGate" /\ c \in Contexts /\ r \in Reqs
      BY <1>0, <1>1, AtTop DEF Fit, UserPcs
<1>3. b \in FrameSet /\ b.pc \in TurnPcs
      BY <1>2, StartFrame
<1> HIDE DEF b
<1>4. /\ Top(t).pc \notin LitPcs /\ One(Top(t).pc \in BusyPcs) = 1
      /\ b.pc \notin LitPcs \union WithinPcs /\ One(b.pc \in BusyPcs) = 1
  <2>1. b.pc # "internalGate" /\ Top(t).pc \in UserPcs
        BY <1>2, <1>3 DEF TurnPcs, UserPcs
  <2> QED  BY <1>3, <2>1, BusyWork
<1>5. busy' = ((busy - One(Top(t).pc \in BusyPcs)) + One(b.pc \in BusyPcs)) + One(EndBusy.pc \in BusyPcs)
      BY <1>0, <1>1, <1>4, EndBusyFrame
<1>6. Steady
  <2> DEFINE y == [ctx[c] EXCEPT !.pending = ctx[c].pending + 1]  x == [y EXCEPT !.exec = "running"]
  <2>1. ctx' = [ctx EXCEPT ![c] = x]
        BY <1>0, <1>1, <1>2
  <2>2. ctx[c] \in CtxT /\ ctx[c].pending + 1 \in Int
        BY <1>0, <1>2 DEF CtxT
  <2>3. y \in CtxT /\ y.life = ctx[c].life /\ y.firing = ctx[c].firing
        BY <2>2, BudgetFacts, LifeKept
  <2> HIDE DEF y
  <2>4. x.life = ctx[c].life /\ x.firing = ctx[c].firing
        BY <2>3, LifeKept
  <2> HIDE DEF x
  <2> QED  BY <1>0, <1>1, <1>2, <2>1, <2>4, OneSteady
<1> QED  BY <1>1, <1>2, <1>3, <1>4, <1>5, <1>6, EndBusyFrame, CalmGoto2

LEMMA WakeDeletion ==
    ASSUME RInv, LInv, NEW t \in Threads, WakeGate(t)
    PROVE  LInv'
<1>0. Tracks /\ StacksTyped /\ busy \in Nat /\ ctx \in [Contexts -> CtxT] /\ req \in [Reqs -> ReqT]
      BY InvTracks, BusyNat DEF RInv, Typed
<1> PICK c, r, g : c = Top(t).ctx /\ r = Top(t).req /\ g = Top(t).gen
    OBVIOUS
<1>1. At(t, "wakeGate") /\ Goto(t, <<EndBusy>>) /\ armed' = armed /\ busy' = busy /\ latch' = latch
      BY DEF WakeGate, timerVars
<1>2. /\ stack[t] # <<>> /\ Top(t).pc = "wakeGate" /\ Top(t) \in FrameSet /\ Fit(Top(t))
      /\ Top(t) = stack[t][1] /\ 1 \in 1..Len(stack[t])
      BY <1>0, <1>1, AtTop
<1>3. c \in Contexts /\ r \in Reqs /\ g \in Nat
      BY <1>2 DEF Fit, UserPcs, FrameSet
<1>4. Top(t).pc \notin LitPcs /\ One(Top(t).pc \in BusyPcs) = 1
      BY <1>2, BusyWork DEF UserPcs
<1>5. busy' = (busy - One(Top(t).pc \in BusyPcs)) + One(EndBusy.pc \in BusyPcs)
      BY <1>0, <1>1, <1>4, EndBusyFrame
<1>6. Steady
  <2>1. CASE ~(g = req[r].gen /\ req[r].place = "waiting")
    <3>1. ctx' = ctx
          BY <2>1 DEF WakeGate
    <3> QED  BY <1>1, <3>1, UnchangedSteady
  <2>2. CASE g = req[r].gen /\ req[r].place = "waiting"
    <3>1. Held(WakeAt(r, c, g))
      <4>1. stack[t][1] \in WakeAt(r, c, g)
            BY <1>2 DEF WakeAt
      <4> QED  BY <1>2, <4>1 DEF Held
    <3>2. WakesSound(r)
          BY <1>3 DEF RInv, RequestsSound
    <3>3. req[r].on = c
          BY <1>3, <2>2, <3>1, <3>2 DEF WakesSound, InWait
    <3>4. ctx[c].waiting # 0
      <4>1. r \in WaitingOn(c)
            BY <1>3, <2>2, <3>3 DEF WaitingOn
      <4>2. IsFiniteSet(WaitingOn(c))
        <5>1. WaitingOn(c) \subseteq Reqs
              BY DEF WaitingOn
        <5> QED  BY <5>1, RuntimeAssumption, FS_Subset
      <4>3. Cardinality(WaitingOn(c)) # 0
            BY <4>1, <4>2, FS_EmptySet
      <4> QED  BY <1>3, <4>3 DEF RInv, Counted
    <3>5. ctx[c].life # "closed"
          BY <1>3, <3>4 DEF LInv, Deletion, Done
    <3> DEFINE y == [ctx[c] EXCEPT !.waiting = ctx[c].waiting - 1]  x == Queued(y, r)  z == Schedule(x)
    <3>6. ctx' = [ctx EXCEPT ![c] = z]
          BY <2>2 DEF WakeGate
    <3>7. ctx[c] \in CtxT /\ ctx[c].waiting - 1 \in Int
          BY <1>0, <1>3 DEF CtxT
    <3>8. y \in CtxT /\ y.life = ctx[c].life /\ y.firing = ctx[c].firing
          BY <3>7, BudgetFacts, LifeKept
    <3> HIDE DEF y
    <3>9. x \in CtxT /\ x.life = ctx[c].life /\ x.firing = ctx[c].firing
          BY <1>3, <3>8, JoinedLife
    <3> HIDE DEF x
    <3>10. z.life = ctx[c].life /\ z.firing = ctx[c].firing
          BY <1>3, <3>9, JoinedLife
    <3> HIDE DEF z
    <3> QED  BY <1>0, <1>1, <1>3, <3>5, <3>6, <3>10, OneSteady
  <2> QED  BY <2>1, <2>2
<1> QED  BY <1>1, <1>2, <1>4, <1>5, <1>6, EndBusyFrame, CalmGoto

-----------------------------------------------------------------------------
(* Claims. *)

(* Those who look for a context and find none. *)
LEMMA TakeNonePasses ==
    ASSUME Tracks, Below, NEW t \in Threads, At(t, "take"),
           stack' = [stack EXCEPT ![t] = <<EndBusy>> \o Idle(Tail(Tail(stack[t])))]
    PROVE  Passes(Top(t), EndBusy, Nought)
<1>0. StacksTyped /\ Finite /\ Within
      BY DEF Tracks
<1> DEFINE s == stack[t]  v == Tail(Tail(s))  w == Tail(v)  a == Frame("serveIdle", None, None)
<1>1. /\ s \in Seq(FrameSet) /\ s # <<>> /\ Len(s) \in Nat /\ Len(s) >= 1 /\ s[1].pc = "take"
      /\ Top(t) \in FrameSet /\ Top(t) = s[1]
      BY <1>0, AtTop DEF StacksTyped
<1>2. 1 < Len(s) /\ s[2].pc \in RunPcs
  <2>1. 1 \in 1..Len(s) /\ 1 + 1 = 2
        BY <1>1
  <2> QED  BY <1>1, <2>1 DEF Below
<1>3. Tail(s) \in Seq(FrameSet) /\ Len(Tail(s)) = Len(s) - 1 /\ \A i \in 1..(Len(s) - 1) : Tail(s)[i] = s[i + 1]
      BY <1>1, SeqFacts
<1>4. /\ v \in Seq(FrameSet) /\ Len(v) = Len(s) - 2
      /\ \A i \in 1..(Len(s) - 2) : v[i] = Tail(s)[i + 1]
  <2> DEFINE z == Tail(s)
  <2>1. z \in Seq(FrameSet) /\ Len(z) >= 1 /\ Len(z) - 1 = Len(s) - 2
        BY <1>1, <1>2, <1>3
  <2> HIDE DEF s, z
  <2>2. z # <<>>
        BY <2>1
  <2>3. Tail(z) \in Seq(FrameSet) /\ Len(Tail(z)) = Len(z) - 1 /\ \A i \in 1..(Len(z) - 1) : Tail(z)[i] = z[i + 1]
        BY <2>1, <2>2, SeqFacts
  <2> QED  BY <2>1, <2>3 DEF z
<1>5. \A i \in 1..Len(v) : v[i] = s[i + 2]
      BY <1>1, <1>2, <1>3, <1>4
<1>6. a \in FrameSet /\ a.pc = "serveIdle"
      BY PlainFrame DEF PlainPcs
<1>6a. /\ \A f \in FrameSet : f.pc \in RunPcs \union {"serve", "serveIdle"} => f \notin Tracked /\ f.pc \notin WithinPcs
       /\ EndBusy \in FrameSet /\ EndBusy.pc \notin WithinPcs
      BY EndBusyFrame DEF Tracked, BusyPcs, LitPcs, DelPcs, EarlyPcs, FirePcs, TurnPcs, UserPcs, RunPcs, WithinPcs
<1> HIDE DEF s, v, a
<1>7. CASE v # <<>> /\ Head(v).pc = "serve"
  <2>1. w \in Seq(FrameSet) /\ Len(w) = Len(v) - 1 /\ Head(v) = v[1] /\ Len(v) >= 1 /\ \A i \in 1..(Len(v) - 1) : w[i] = v[i + 1]
        BY <1>4, <1>7, SeqFacts
  <2>2. Len(w) = Len(s) - 3 /\ 3 \in 0..Len(s) /\ s[3].pc = "serve" /\ \A i \in 1..Len(w) : w[i] = s[i + 3]
        BY <1>1, <1>2, <1>4, <1>5, <1>7, <2>1
  <2> HIDE DEF w
  <2> DEFINE n == <<EndBusy, a>>
  <2>3. /\ <<EndBusy>> \in Seq(FrameSet) /\ <<a>> \in Seq(FrameSet) /\ n \in Seq(FrameSet)
        /\ Len(n) = 2 /\ n[1] = EndBusy /\ n[2] = a
        BY <1>6, <1>6a
  <2>4. <<EndBusy>> \o (<<a>> \o w) = n \o w
    <3>1. <<EndBusy>> \o (<<a>> \o w) = (<<EndBusy>> \o <<a>>) \o w
          BY <2>1, <2>3, ConcatAssociative
    <3>2. <<EndBusy>> \o <<a>> = <<EndBusy, a>>
          BY PairConcat
    <3> QED  BY <3>1, <3>2
  <2>5. stack' = [stack EXCEPT ![t] = n \o w]
        BY <1>7, <2>4 DEF Idle, s, v, w, a
  <2> HIDE DEF n
  <2>6. Moved(t, n, 3)
        BY <1>0, <2>1, <2>2, <2>3, <2>5, StackMoves DEF s
  <2>7. \A i \in 2..3 : stack[t][i] \notin Tracked
    <3>1. s[2] \in FrameSet /\ s[3] \in FrameSet
          BY <1>1, <2>2, ElementOfSeq
    <3> QED  BY <1>2, <1>6a, <2>2, <3>1 DEF s
  <2>8. a \notin Tracked
        BY <1>6, <1>6a
  <2>p. /\ IF 3 = 0 THEN Top(t) \notin Tracked ELSE Top(t) = stack[t][1]
        /\ IF Len(n) = 0 THEN EndBusy \notin Tracked ELSE EndBusy = n[1]
        /\ IF Len(n) <= 1 THEN a \notin Tracked ELSE a = n[2]
        /\ (Len(n) <= 2 \/ n[3] \notin Tracked) /\ Len(n) <= 3
        BY <1>1, <2>3 DEF s
  <2>9. Finite' /\ Recounted(Top(t), EndBusy, a)
        BY <1>0, <2>6, <2>7, <2>p, Recount
  <2>10. Recounted(Top(t), EndBusy, Nought)
        BY <2>8, <2>9, NoughtFrame DEF Recounted, One
  <2>11. \A i \in 1..Len(n) : n[i].pc \notin WithinPcs
        BY <1>6, <1>6a, <2>3
  <2>12. Within'
        BY <1>0, <2>6, <2>11, WithinKept
  <2> QED  BY <1>1, <1>6a, <2>9, <2>10, <2>12, NoughtFrame DEF Passes
<1>8. CASE ~(v # <<>> /\ Head(v).pc = "serve")
  <2> DEFINE n == <<EndBusy>>
  <2>1. stack' = [stack EXCEPT ![t] = n \o v]
        BY <1>8 DEF Idle, s, v
  <2>2. n \in Seq(FrameSet) /\ 2 \in 0..Len(s) /\ Len(n) = 1 /\ n[1] = EndBusy
        BY <1>1, <1>2, <1>6a
  <2> HIDE DEF n
  <2>3. Moved(t, n, 2)
        BY <1>0, <1>4, <1>5, <2>1, <2>2, StackMoves DEF s
  <2>4. \A i \in 2..2 : stack[t][i] \notin Tracked
    <3>1. s[2] \in FrameSet
          BY <1>1, <1>2, ElementOfSeq
    <3> QED  BY <1>2, <1>6a, <3>1 DEF s
  <2>p. /\ IF 2 = 0 THEN Top(t) \notin Tracked ELSE Top(t) = stack[t][1]
        /\ IF Len(n) = 0 THEN EndBusy \notin Tracked ELSE EndBusy = n[1]
        /\ IF Len(n) <= 1 THEN Nought \notin Tracked ELSE Nought = n[2]
        /\ (Len(n) <= 2 \/ n[3] \notin Tracked) /\ Len(n) <= 3
        BY <1>1, <2>2, NoughtFrame DEF s
  <2>5. Finite' /\ Recounted(Top(t), EndBusy, Nought)
        BY <1>0, <2>3, <2>4, <2>p, Recount
  <2>6. \A i \in 1..Len(n) : n[i].pc \notin WithinPcs
        BY <1>6a, <2>2
  <2>7. Within'
        BY <1>0, <2>3, <2>6, WithinKept
  <2> QED  BY <1>1, <1>6a, <2>5, <2>7, NoughtFrame DEF Passes
<1> QED  BY <1>7, <1>8

LEMMA TakeDeletion ==
    ASSUME RInv, LInv, NEW t \in Threads, TakeReady(t)
    PROVE  LInv'
<1>0. Tracks /\ StacksTyped /\ Below /\ busy \in Nat /\ ready \in Seq(Contexts)
      BY InvTracks, BusyNat DEF RInv, Typed
<1>1. At(t, "take") /\ busy' = busy /\ ctx' = ctx /\ latch' = latch /\ armed' = armed
      BY DEF TakeReady, timerVars, atomics
<1>2. Steady
      BY <1>1, UnchangedSteady
<1>3. stack[t] # <<>> /\ Top(t).pc = "take"
      BY <1>0, <1>1, AtTop
<1>4. Top(t).pc \notin LitPcs /\ One(Top(t).pc \in BusyPcs) = 1
      BY <1>3, BusyPlain
<1>5. CASE stack' = [stack EXCEPT ![t] = <<EndBusy>> \o Idle(Tail(Tail(stack[t])))]
  <2>1. Passes(Top(t), EndBusy, Nought)
        BY <1>0, <1>1, <1>5, TakeNonePasses
  <2>2. busy' = ((busy - One(Top(t).pc \in BusyPcs)) + One(EndBusy.pc \in BusyPcs)) + One(Nought.pc \in BusyPcs)
        BY <1>0, <1>1, <1>4, EndBusyFrame, NoughtCold
  <2> QED  BY <1>2, <1>4, <2>1, <2>2, EndBusyFrame, NoughtCold, CalmInvariant
<1>6. CASE \E i \in 1..Len(ready) : Goto(t, <<Frame("claim", ready[i], None)>>)
  <2>1. PICK i \in 1..Len(ready) : Goto(t, <<Frame("claim", ready[i], None)>>)
        BY <1>6
  <2> DEFINE b == Frame("claim", ready[i], None)
  <2>2. ready[i] \in Contexts
        BY <1>0, ElementOfSeq
  <2>3. b \in FrameSet /\ b.pc = "claim"
        BY <2>2, CtxFrame DEF OnCtxPcs
  <2>4. b.pc \notin LitPcs \union WithinPcs /\ One(b.pc \in BusyPcs) = 1
        BY <2>3, BusyWork
  <2>5. Goto(t, <<b>>)
        BY <2>1
  <2> HIDE DEF b
  <2>6. busy' = (busy - One(Top(t).pc \in BusyPcs)) + One(b.pc \in BusyPcs)
        BY <1>0, <1>1, <1>4, <2>4
  <2> QED  BY <1>2, <1>3, <1>4, <2>3, <2>4, <2>5, <2>6, CalmGoto
<1> QED  BY <1>5, <1>6 DEF TakeReady, Claimable

-----------------------------------------------------------------------------
(* Contexts are released, and close when they have drained. *)

(* Whoever leaves the rest to the hook is inside a turn of the context. *)
LEMMA LeavesWithin ==
    ASSUME StacksTyped, Finite, Within, NEW c \in Contexts, Count(Of({"finishWith"}, c)) # 0
    PROVE  \E u \in Threads : \E j \in 2..Len(stack[u]) : stack[u][j] \in TurnOf(c)
<1>1. Of({"finishWith"}, c) \subseteq Tracked
      BY OfTracked DEF LitPcs, DelPcs
<1>2. Held(Of({"finishWith"}, c))
      BY <1>1, CountHeld
<1>3a. PICK u \in Threads : \E i \in 1..Len(stack[u]) : stack[u][i] \in Of({"finishWith"}, c)
      BY <1>2 DEF Held
<1>3. PICK i \in 1..Len(stack[u]) : stack[u][i] \in Of({"finishWith"}, c)
      BY <1>3a
<1>4. stack[u][i].pc \in WithinPcs /\ stack[u][i].ctx = c
      BY <1>3 DEF Of, WithinPcs
<1>5. PICK j \in (i + 1)..Len(stack[u]) : stack[u][j].pc \in TurnPcs /\ stack[u][j].ctx = c
      BY <1>4 DEF Within
<1>6. stack[u] \in Seq(FrameSet) /\ Len(stack[u]) \in Nat
      BY LenProperties DEF StacksTyped
<1>7. j \in 2..Len(stack[u]) /\ j \in 1..Len(stack[u])
      BY <1>6
<1>8. stack[u][j] \in FrameSet
      BY <1>6, <1>7, ElementOfSeq
<1> QED  BY <1>5, <1>7, <1>8 DEF TurnOf

(* A context without a turn has nobody who leaves the rest to its hook, nor *)
(* has one whose only turn is on top of a stack.                            *)
LEMMA NobodyLeaves ==
    ASSUME RInv, LInv, NEW c \in Contexts,
           \/ ctx[c].exec # "running"
           \/ \E t \in Threads : stack[t] # <<>> /\ Top(t) \in TurnOf(c)
    PROVE  Count(Of({"finishWith"}, c)) = 0
<1>0. StacksTyped /\ Finite /\ Within /\ ContextSound(c)
      BY InvTracks DEF LInv, RInv, ContextsSound
<1> SUFFICES ASSUME Count(Of({"finishWith"}, c)) # 0 PROVE FALSE
    OBVIOUS
<1>1a. PICK u \in Threads : \E j \in 2..Len(stack[u]) : stack[u][j] \in TurnOf(c)
      BY <1>0, LeavesWithin
<1>1. PICK j \in 2..Len(stack[u]) : stack[u][j] \in TurnOf(c)
      BY <1>1a
<1>2. Len(stack[u]) \in Nat
      BY <1>0, LenProperties DEF StacksTyped
<1>3. j \in 1..Len(stack[u]) /\ j # 1
      BY <1>2
<1>4. Held(TurnOf(c))
      BY <1>1, <1>3 DEF Held
<1>5. PICK t \in Threads : stack[t] # <<>> /\ Top(t) \in TurnOf(c)
      BY <1>0, <1>4 DEF ContextSound
<1>6. 1 \in 1..Len(stack[t]) /\ stack[t][1] \in TurnOf(c)
      BY <1>0, <1>5, TopFrame
<1>7. Once(TurnOf(c))
      BY <1>0 DEF ContextSound
<1>8. j = 1
      BY <1>1, <1>3, <1>6, <1>7 DEF Once
<1> QED  BY <1>3, <1>8

(* closeIfDrainedLocked, with the hook. *)
LEMMA ClosedFacts ==
    ASSUME NEW x \in CtxT
    PROVE  /\ CloseIfDrained(x).firing = x.firing
           /\ Drained(x) => x.life = "draining" /\ CloseIfDrained(x).life = "closed" /\ Done(CloseIfDrained(x))
           /\ ~Drained(x) => CloseIfDrained(x).life = x.life
<1>1. /\ CloseIfDrained(x) \in CtxT
      /\ CloseIfDrained(x).exec = x.exec /\ CloseIfDrained(x).queue = x.queue
      /\ CloseIfDrained(x).waiting = x.waiting
      BY CloseFacts
<1>2. /\ CloseIfDrained(x).firing = x.firing
      /\ CloseIfDrained(x).life = IF Drained(x) THEN "closed" ELSE x.life
      BY DEF CtxT, CloseIfDrained
<1> QED  BY <1>1, <1>2 DEF Drained, Done

LEMMA CloseDeletion ==
    ASSUME RInv, LInv, NEW t \in Threads, stack[t] # <<>>, Top(t).pc \notin LitPcs, One(Top(t).pc \in BusyPcs) = 1,
           NEW c \in Contexts, NEW x \in CtxT, x.life = ctx[c].life, x.firing = ctx[c].firing, ctx[c].life # "closed",
           Count(Of({"finishWith"}, c)) = 0,
           Goto(t, <<EndBusy>> \o HookFrames(c, x)), ctx' = [ctx EXCEPT ![c] = CloseIfDrained(x)],
           busy' = busy, latch' = latch, armed' = armed
    PROVE  LInv'
<1>0. Tracks /\ StacksTyped /\ busy \in Nat /\ ctx \in [Contexts -> CtxT] /\ \A d \in Contexts : ctx[d].firing \in Nat
      BY InvTracks, BusyNat DEF RInv, Typed
<1> DEFINE z == CloseIfDrained(x)  h == Frame("hook", c, None)
<1>1. /\ z.firing = ctx[c].firing
      /\ Drained(x) => ctx[c].life = "draining" /\ z.life = "closed" /\ Done(z)
      /\ ~Drained(x) => z.life = ctx[c].life
      BY ClosedFacts
<1>2. h \in FrameSet /\ h.pc = "hook" /\ h.ctx = c
      BY CtxFrame DEF OnCtxPcs
<1>3. ctx' = [ctx EXCEPT ![c] = z]
      OBVIOUS
<1>4. CASE ~Drained(x)
  <2>1. <<EndBusy>> \o HookFrames(c, x) = <<EndBusy>>
    <3>1. <<EndBusy>> \in Seq(FrameSet)
          BY EndBusyFrame
    <3> QED  BY <1>4, <3>1, ConcatEmptySeq DEF HookFrames
  <2>2. Goto(t, <<EndBusy>>)
        BY <2>1
  <2>3. z.life = ctx[c].life
        BY <1>1, <1>4
  <2> HIDE DEF z
  <2>4. Steady
        BY <1>0, <1>1, <1>3, <2>3, OneSteady
  <2>5. busy' = (busy - One(Top(t).pc \in BusyPcs)) + One(EndBusy.pc \in BusyPcs)
        BY <1>0, EndBusyFrame
  <2> QED  BY <2>2, <2>4, <2>5, EndBusyFrame, CalmGoto
<1>5. CASE Drained(x)
  <2>1. Goto(t, <<EndBusy, h>>)
        BY <1>5, PairConcat DEF HookFrames
  <2>2. ctx[c].life = "draining" /\ z.life = "closed" /\ Done(z)
        BY <1>1, <1>5
  <2> HIDE DEF z, h
  <2>3. Passes(Top(t), EndBusy, h)
    <3>1. h.pc \notin WithinPcs
          BY <1>2 DEF WithinPcs
    <3> QED  BY <1>0, <1>2, <2>1, <3>1, EndBusyFrame, PassesGoto2
  <2>4. ASSUME NEW d \in Contexts
        PROVE  /\ ctx'[d].firing = (ctx[d].firing - One(Top(t).pc \in FirePcs /\ Top(t).ctx = d)) + One(EndBusy.pc \in FirePcs /\ EndBusy.ctx = d)
               /\ IF h.pc = "hook" /\ h.ctx = d
                  THEN /\ ctx[d].life = "draining" /\ ctx'[d].life = "closed" /\ Done(ctx'[d])
                       /\ Count(Of({"finishWith"}, d)) = 0
                  ELSE /\ ctx'[d].life = ctx[d].life
                       /\ ctx[d].life = "closed" => Done(ctx'[d])
    <3>1. One(Top(t).pc \in FirePcs /\ Top(t).ctx = d) = 0 /\ One(EndBusy.pc \in FirePcs /\ EndBusy.ctx = d) = 0
          BY EndBusyFrame DEF One, LitPcs
    <3>2. CASE d = c
      <4>1. ctx'[d] = z
            BY <1>0, <1>3, <3>2
      <4>2. ctx'[d].firing = ctx[d].firing /\ ctx[d].firing \in Nat
            BY <1>0, <1>1, <3>2, <4>1
      <4> QED  BY <1>2, <2>2, <3>1, <3>2, <4>1, <4>2
    <3>3. CASE d # c
      <4>1. ctx'[d] = ctx[d] /\ Deletion(d) /\ ctx[d].firing \in Nat
            BY <1>0, <1>3, <3>3 DEF LInv
      <4>2. ~(h.pc = "hook" /\ h.ctx = d)
            BY <1>2, <3>3
      <4>3. ctx[d].life = "closed" => Done(ctx'[d])
            BY <4>1 DEF Deletion
      <4> QED  BY <3>1, <4>1, <4>2, <4>3
    <3> QED  BY <3>2, <3>3
  <2>5. busy' = ((busy - One(Top(t).pc \in BusyPcs)) + One(EndBusy.pc \in BusyPcs)) + One(h.pc \in BusyPcs)
    <3>1. One(h.pc \in BusyPcs) = 0
          BY <1>2 DEF One, BusyPcs, TurnPcs, UserPcs
    <3> QED  BY <1>0, <3>1, EndBusyFrame
  <2>6. /\ Top(t).pc \notin DelPcs \union {"hook"} /\ EndBusy.pc \notin DelPcs \union {"hook"}
        /\ h.pc \notin DelPcs \union FirePcs /\ armed' \subseteq armed
        BY <1>2, EndBusyFrame DEF LitPcs, DelPcs, EarlyPcs, FirePcs
  <2> QED  BY <2>3, <2>4, <2>5, <2>6, StepInvariant
<1> QED  BY <1>4, <1>5

-----------------------------------------------------------------------------
LEMMA ExecLife ==
    ASSUME NEW x \in CtxT, NEW k \in {"idle", "scheduled", "running"}
    PROVE  LET y == [x EXCEPT !.exec = k]
           IN  y \in CtxT /\ y.life = x.life /\ y.firing = x.firing
BY DEF CtxT

LEMMA ClaimNoneDeletion ==
    ASSUME RInv, LInv, NEW t \in Threads, Claim(t), ctx[Top(t).ctx].queue = <<>>
    PROVE  LInv'
<1>0. ctx \in [Contexts -> CtxT]
      BY DEF RInv, Typed
<1> PICK c : c = Top(t).ctx
    OBVIOUS
<1> DEFINE x == [ctx[c] EXCEPT !.exec = "idle"]
<1>1. /\ At(t, "claim") /\ ctx' = [ctx EXCEPT ![c] = CloseIfDrained(x)] /\ Goto(t, <<EndBusy>> \o HookFrames(c, x))
      /\ busy' = busy /\ latch' = latch /\ armed' = armed
      BY DEF Claim, timerVars, atomics
<1>2. stack[t] # <<>> /\ Top(t).pc = "claim" /\ c \in Contexts /\ ctx[c].exec = "scheduled"
      BY <1>1, TopClaim
<1>3. x \in CtxT /\ x.life = ctx[c].life /\ x.firing = ctx[c].firing
  <2>1. ctx[c] \in CtxT
        BY <1>0, <1>2
  <2> QED  BY <2>1, ExecLife
<1> HIDE DEF x
<1>4. ctx[c].life # "closed"
      BY <1>2 DEF LInv, Deletion, Done
<1>5. Count(Of({"finishWith"}, c)) = 0
      BY <1>2, NobodyLeaves
<1>6. Top(t).pc \notin LitPcs /\ One(Top(t).pc \in BusyPcs) = 1
      BY <1>2, BusyWork
<1> QED  BY <1>1, <1>2, <1>3, <1>4, <1>5, <1>6, CloseDeletion

LEMMA ClaimTurnDeletion ==
    ASSUME RInv, LInv, NEW t \in Threads, Claim(t), ctx[Top(t).ctx].queue # <<>>
    PROVE  LInv'
<1>0. Tracks /\ StacksTyped /\ Finite /\ Within /\ busy \in Nat /\ ctx \in [Contexts -> CtxT]
      BY InvTracks, BusyNat DEF RInv, Typed, LInv
<1> PICK c, r : c = Top(t).ctx /\ r = Head(ctx[c].queue)
    OBVIOUS
<1> DEFINE b == StartTurn(c, r)  n == <<b>>  v == Tail(Tail(stack[t]))
<1>1. /\ At(t, "claim") /\ ctx[c].queue # <<>>
      /\ ctx' = [ctx EXCEPT ![c].exec = "running", ![c].queue = Tail(@)]
      /\ stack' = [stack EXCEPT ![t] = n \o v] /\ busy' = busy /\ latch' = latch /\ armed' = armed
      BY DEF Claim, timerVars, atomics
<1>2. /\ stack[t] # <<>> /\ Top(t).pc = "claim" /\ Top(t) \in FrameSet /\ c \in Contexts /\ ctx[c].exec = "scheduled"
      /\ Top(t) = stack[t][1] /\ 1 < Len(stack[t]) /\ Len(stack[t]) \in Nat /\ stack[t][2].pc \in RunPcs
      BY <1>1, TopClaim
<1>3. ctx[c] \in CtxT /\ r \in Reqs
      BY <1>0, <1>1, <1>2, HeadTailProperties DEF CtxT
<1>4. b \in FrameSet /\ b.pc \in TurnPcs
      BY <1>2, <1>3, StartFrame
<1> HIDE DEF b
<1>5. n \in Seq(FrameSet) /\ Len(n) = 1 /\ n[1] = b
      BY <1>4
<1> HIDE DEF n
<1>6. Moved(t, n, 2)
  <2> DEFINE s == stack[t]  z == Tail(s)
  <2>1. s \in Seq(FrameSet) /\ s # <<>> /\ Len(s) \in Nat /\ 1 < Len(s)
        BY <1>0, <1>2 DEF StacksTyped
  <2>2. z \in Seq(FrameSet) /\ Len(z) = Len(s) - 1 /\ \A i \in 1..(Len(s) - 1) : z[i] = s[i + 1]
        BY <2>1, SeqFacts
  <2> HIDE DEF s, z
  <2>3. z # <<>>
        BY <2>1, <2>2
  <2>4. Tail(z) \in Seq(FrameSet) /\ Len(Tail(z)) = Len(z) - 1 /\ \A i \in 1..(Len(z) - 1) : Tail(z)[i] = z[i + 1]
        BY <2>2, <2>3, SeqFacts
  <2>5. /\ Tail(z) \in Seq(FrameSet) /\ Len(Tail(z)) = Len(s) - 2 /\ \A i \in 1..Len(Tail(z)) : Tail(z)[i] = s[i + 2]
        /\ 2 \in 0..Len(s)
        BY <2>1, <2>2, <2>4
  <2>6. /\ v \in Seq(FrameSet) /\ Len(v) = Len(stack[t]) - 2 /\ \A i \in 1..Len(v) : v[i] = stack[t][i + 2]
        /\ 2 \in 0..Len(stack[t])
        BY <2>5 DEF s, z
  <2> HIDE DEF v
  <2> QED  BY <1>0, <1>1, <1>5, <2>6, StackMoves
<1>7. \A i \in 2..2 : stack[t][i] \notin Tracked
      BY <1>2 DEF Tracked, BusyPcs, LitPcs, DelPcs, EarlyPcs, FirePcs, TurnPcs, UserPcs, RunPcs
<1>p. /\ IF 2 = 0 THEN Top(t) \notin Tracked ELSE Top(t) = stack[t][1]
      /\ IF Len(n) = 0 THEN b \notin Tracked ELSE b = n[1]
      /\ IF Len(n) <= 1 THEN Nought \notin Tracked ELSE Nought = n[2]
      /\ (Len(n) <= 2 \/ n[3] \notin Tracked) /\ Len(n) <= 3
      BY <1>2, <1>5, NoughtFrame
<1>8. Finite' /\ Recounted(Top(t), b, Nought)
      BY <1>0, <1>6, <1>7, <1>p, Recount
<1>9. b.pc \notin LitPcs \union WithinPcs /\ One(b.pc \in BusyPcs) = 1 /\ Top(t).pc \notin LitPcs /\ One(Top(t).pc \in BusyPcs) = 1
  <2>1. b.pc # "internalGate"
        BY <1>4 DEF TurnPcs
  <2> QED  BY <1>2, <1>4, <2>1, BusyWork
<1>10. Within'
  <2>1. \A i \in 1..Len(n) : n[i].pc \notin WithinPcs
        BY <1>5, <1>9
  <2> QED  BY <1>0, <1>6, <2>1, WithinKept
<1>11. Passes(Top(t), b, Nought)
      BY <1>2, <1>4, <1>8, <1>10, NoughtFrame DEF Passes
<1>12. Steady
  <2> DEFINE y == [ctx[c] EXCEPT !.exec = "running"]  x == [y EXCEPT !.queue = Tail(ctx[c].queue)]
  <2>1. ctx' = [ctx EXCEPT ![c] = x]
        BY <1>0, <1>1, <1>2
  <2>2. y \in CtxT /\ y.life = ctx[c].life /\ y.firing = ctx[c].firing
        BY <1>3, ExecLife
  <2> HIDE DEF y
  <2>3. x.life = ctx[c].life /\ x.firing = ctx[c].firing
        BY <2>2, LifeKept
  <2> HIDE DEF x
  <2>4. ctx[c].life # "closed"
        BY <1>2 DEF LInv, Deletion, Done
  <2> QED  BY <1>0, <1>1, <1>2, <2>1, <2>3, <2>4, OneSteady
<1>13. busy' = ((busy - One(Top(t).pc \in BusyPcs)) + One(b.pc \in BusyPcs)) + One(Nought.pc \in BusyPcs)
      BY <1>0, <1>1, <1>9, NoughtCold
<1> QED  BY <1>9, <1>11, <1>12, <1>13, NoughtCold, CalmInvariant

(* The end of a turn. *)
LEMMA ReleaseDeletion ==
    ASSUME RInv, LInv, NEW t \in Threads, stack[t] # <<>>, Top(t).pc \in TurnPcs, NEW c, c = Top(t).ctx,
           NEW x \in CtxT, NEW q, Release(t, x, q), x.life = ctx[c].life, x.firing = ctx[c].firing
    PROVE  LInv'
<1> DEFINE y == [x EXCEPT !.exec = "idle"]  s == Schedule(y)
<1>1. /\ ctx' = [ctx EXCEPT ![c] = CloseIfDrained(s)] /\ Goto(t, <<EndBusy>> \o HookFrames(c, s))
      /\ busy' = busy /\ latch' = latch /\ armed' = armed
      BY DEF Release, timerVars
<1>2. c \in Contexts /\ ctx[c].exec = "running" /\ Top(t) \in FrameSet /\ Top(t).req \in Reqs
      BY TopTurn
<1>3. y \in CtxT /\ y.life = x.life /\ y.firing = x.firing
      BY ExecLife
<1> HIDE DEF y
<1>4. s \in CtxT /\ s.life = ctx[c].life /\ s.firing = ctx[c].firing
      BY <1>2, <1>3, JoinedLife
<1> HIDE DEF s
<1>5. ctx[c].life # "closed"
      BY <1>2 DEF LInv, Deletion, Done
<1>6. Count(Of({"finishWith"}, c)) = 0
  <2>1. Top(t) \in TurnOf(c)
        BY <1>2 DEF TurnOf
  <2> QED  BY <1>2, <2>1, NobodyLeaves
<1>7. Top(t).pc \notin LitPcs /\ One(Top(t).pc \in BusyPcs) = 1
      BY BusyWork
<1> QED  BY <1>1, <1>2, <1>4, <1>5, <1>6, <1>7, CloseDeletion

LEMMA FinishDeletion ==
    ASSUME RInv, LInv, NEW t \in Threads, FinishDone(t) \/ FinishYield(t) \/ FinishWait(t)
    PROVE  LInv'
<1> PICK c, r : c = Top(t).ctx /\ r = Top(t).req
    OBVIOUS
<1>1. stack[t] # <<>> /\ Top(t).pc \in TurnPcs
      BY DEF FinishDone, FinishYield, FinishWait, At, TurnPcs
<1>2. c \in Contexts /\ r \in Reqs /\ ctx[c] \in CtxT
      BY <1>1, TopTurn DEF RInv, Typed
<1>3. ASSUME NEW q, Release(t, Queued(ctx[c], r), q) PROVE LInv'
  <2> DEFINE x == Queued(ctx[c], r)
  <2>1. x \in CtxT /\ x.life = ctx[c].life /\ x.firing = ctx[c].firing
        BY <1>2, JoinedLife
  <2>2. Release(t, x, q)
        BY <1>3
  <2> HIDE DEF x
  <2> QED  BY <1>1, <2>1, <2>2, ReleaseDeletion
<1>4. ASSUME NEW q, NEW k \in Int,
             \/ Release(t, [ctx[c] EXCEPT !.pending = k], q)
             \/ Release(t, [ctx[c] EXCEPT !.waiting = k], q)
      PROVE  LInv'
  <2> DEFINE x == [ctx[c] EXCEPT !.pending = k]  y == [ctx[c] EXCEPT !.waiting = k]
  <2>1. x \in CtxT /\ x.life = ctx[c].life /\ x.firing = ctx[c].firing
        BY <1>2, BudgetFacts, LifeKept
  <2>2. y \in CtxT /\ y.life = ctx[c].life /\ y.firing = ctx[c].firing
        BY <1>2, BudgetFacts, LifeKept
  <2>3. Release(t, x, q) \/ Release(t, y, q)
        BY <1>4
  <2> HIDE DEF x, y
  <2> QED  BY <1>1, <2>1, <2>2, <2>3, ReleaseDeletion
<1>5. CASE FinishDone(t)
  <2>1. \E q : Release(t, [ctx[c] EXCEPT !.pending = ctx[c].pending - (IF req[r].internal THEN 0 ELSE 1)], q)
        BY <1>5 DEF FinishDone
  <2>2. PICK k \in Int : k = ctx[c].pending - (IF req[r].internal THEN 0 ELSE 1)
        BY <1>2 DEF CtxT
  <2> QED  BY <1>4, <2>1, <2>2
<1>6. CASE FinishYield(t)
  <2>1. \E q : Release(t, Queued(ctx[c], r), q)
        BY <1>6 DEF FinishYield
  <2> QED  BY <1>3, <2>1
<1>7. CASE FinishWait(t)
  <2>1. (\E q : Release(t, Queued(ctx[c], r), q)) \/ \E q : Release(t, [ctx[c] EXCEPT !.waiting = ctx[c].waiting + 1], q)
        BY <1>7 DEF FinishWait
  <2>2. PICK k \in Int : k = ctx[c].waiting + 1
        BY <1>2 DEF CtxT
  <2> QED  BY <1>3, <1>4, <2>1, <2>2
<1> QED  BY <1>5, <1>6, <1>7

-----------------------------------------------------------------------------
(* Timers fire. *)

(* The firing of a timer, one more or one less. *)
LEMMA FiringField ==
    ASSUME NEW x \in CtxT, NEW k \in Int
    PROVE  LET y == [x EXCEPT !.firing = k]
           IN  /\ y \in CtxT /\ y.life = x.life /\ y.firing = k /\ y.exec = x.exec
BY DEF CtxT

(* Nobody has closed the context of an armed timer. *)
LEMMA ArmedOpen ==
    ASSUME LInv, NEW tm \in armed, Home[tm] \in Contexts
    PROVE  ctx[Home[tm]].life = "open"
<1> DEFINE c == Home[tm]
           k == Count(Of({"cancel"}, c))  l == Count(Of({"closeBegin", "closeGate"}, c))
           f == Count(Of({"finishWith"}, c))  w == Count(Of({"await"}, c))  r == Count(Of({"free"}, c))
           h == Count(Of({"hook"}, c))
<1>1. k \in Nat /\ l \in Nat /\ f \in Nat /\ w \in Nat /\ r \in Nat /\ h \in Nat
      BY CountsOf DEF LInv
<1>2. Phase(latch[c], ctx[c].life, k, l, f, w, r, h)
      BY DEF LInv, Deletion, LatchSound
<1>3. latch[c] = "open" \/ k # 0
      BY DEF LInv, ArmedSound
<1> HIDE DEF k, l, f, w, r, h
<1> QED  BY <1>1, <1>2, <1>3 DEF Phase

LEMMA FireDeletion ==
    ASSUME RInv, LInv, NEW t \in Threads, Fire(t)
    PROVE  LInv'
<1>0. Tracks /\ StacksTyped /\ busy \in Nat /\ ctx \in [Contexts -> CtxT] /\ armed \subseteq Timers
      /\ \A d \in Contexts : ctx[d].firing \in Nat /\ Deletion(d)
      BY InvTracks, BusyNat DEF RInv, Typed, LInv
<1>1. PICK tm \in armed : /\ armed' = armed \ {tm} /\ ctx' = [ctx EXCEPT ![Home[tm]].firing = @ + 1]
                          /\ Call(t, <<Frame("fireSubmit", Home[tm], tm)>>)
                          /\ busy' = busy /\ latch' = latch
      BY DEF Fire, atomics
<1>2. tm \in Timers /\ Home[tm] \in Contexts /\ tm \in Reqs
      BY <1>0, RuntimeAssumption DEF Reqs
<1> PICK c : c = Home[tm]
    OBVIOUS
<1> DEFINE b == Frame("fireSubmit", c, tm)  y == [ctx[c] EXCEPT !.firing = ctx[c].firing + 1]
<1>3. b \in FrameSet /\ b.pc = "fireSubmit" /\ b.ctx = c
      BY <1>2, FireFrame DEF Cold, Frame
<1>4. Call(t, <<b>>) /\ ctx' = [ctx EXCEPT ![c] = y]
      BY <1>1
<1>5. ctx[c] \in CtxT /\ ctx[c].firing + 1 \in Int /\ c \in Contexts /\ ctx[c].life = "open"
      BY <1>0, <1>2, ArmedOpen
<1>6. y.life = ctx[c].life /\ y.firing = ctx[c].firing + 1
      BY <1>5, FiringField
<1> HIDE DEF b, y
<1>7. Passes(Nought, b, Nought)
  <2>1. b.pc \notin WithinPcs
        BY <1>3 DEF WithinPcs
  <2> QED  BY <1>0, <1>3, <1>4, <2>1, PassesCall
<1>8. ASSUME NEW d \in Contexts
      PROVE  /\ ctx'[d].firing = (ctx[d].firing - One(Nought.pc \in FirePcs /\ Nought.ctx = d)) + One(b.pc \in FirePcs /\ b.ctx = d)
             /\ ~(Nought.pc = "hook" /\ Nought.ctx = d) /\ ctx'[d].life = ctx[d].life
             /\ ctx[d].life = "closed" => Done(ctx'[d])
  <2>1. One(Nought.pc \in FirePcs /\ Nought.ctx = d) = 0 /\ Nought.pc # "hook"
        BY NoughtFrame DEF One, FirePcs
  <2>2. CASE d = c
    <3>1. One(b.pc \in FirePcs /\ b.ctx = d) = 1 /\ ctx'[d] = y /\ ctx[d].firing \in Nat
          BY <1>0, <1>3, <1>4, <1>5, <2>2 DEF One, FirePcs
    <3> QED  BY <1>5, <1>6, <2>1, <2>2, <3>1
  <2>3. CASE d # c
    <3>1. One(b.pc \in FirePcs /\ b.ctx = d) = 0 /\ ctx'[d] = ctx[d] /\ ctx[d].firing \in Nat
          BY <1>0, <1>3, <1>4, <2>3 DEF One
    <3>2. ctx[d].life = "closed" => Done(ctx'[d])
          BY <1>0, <3>1 DEF Deletion
    <3> QED  BY <2>1, <3>1, <3>2
  <2> QED  BY <2>2, <2>3
<1>9. busy' = ((busy - One(Nought.pc \in BusyPcs)) + One(b.pc \in BusyPcs)) + One(Nought.pc \in BusyPcs)
  <2>1. One(b.pc \in BusyPcs) = 0
        BY <1>3 DEF One, BusyPcs, TurnPcs, UserPcs
  <2> QED  BY <1>0, <1>1, <2>1, NoughtCold
<1>10. /\ Nought.pc \notin DelPcs \union {"hook"} /\ Nought.pc \notin DelPcs \union FirePcs
       /\ b.pc \notin DelPcs \union {"hook"} /\ armed' \subseteq armed
      BY <1>1, <1>3, NoughtCold DEF LitPcs, DelPcs, EarlyPcs
<1> QED  BY <1>1, <1>7, <1>8, <1>9, <1>10, StepInvariant

LEMMA FireSubmitDeletion ==
    ASSUME RInv, LInv, NEW t \in Threads, FireSubmit(t)
    PROVE  LInv'
<1>0. Tracks /\ StacksTyped /\ busy \in Nat /\ \A d \in Contexts : ctx[d].firing \in Nat
      BY InvTracks, BusyNat
<1> PICK c, r : c = Top(t).ctx /\ r = Top(t).req
    OBVIOUS
<1> DEFINE b == [Top(t) EXCEPT !.pc = "endFire"]
<1>1. /\ At(t, "fireSubmit") /\ Goto(t, <<b>>) /\ armed' = armed /\ busy' = busy /\ latch' = latch
      /\ ctx' = ctx \/ (ctx[c].life # "closed" /\ Admit(c, r, TRUE))
      BY DEF FireSubmit, atomics, schedVars
<1>2. stack[t] # <<>> /\ Top(t).pc = "fireSubmit" /\ Top(t) \in FrameSet /\ Fit(Top(t))
      BY <1>0, <1>1, AtTop
<1>3. c \in Contexts /\ r \in Reqs
      BY <1>2 DEF Fit, Reqs
<1>4. b \in FrameSet /\ b.pc = "endFire" /\ b.ctx = c
      BY <1>2, MovedFrame DEF Pcs
<1> HIDE DEF b
<1>5. Steady
      BY <1>1, <1>3, UnchangedSteady, AdmitSteady
<1>6. Passes(Top(t), b, Nought)
  <2>1. b.pc \notin WithinPcs
        BY <1>4 DEF WithinPcs
  <2> QED  BY <1>0, <1>1, <1>2, <1>4, <2>1, PassesGoto
<1>7. ASSUME NEW d \in Contexts
      PROVE  /\ ctx'[d].firing = (ctx[d].firing - One(Top(t).pc \in FirePcs /\ Top(t).ctx = d)) + One(b.pc \in FirePcs /\ b.ctx = d)
             /\ ~(Nought.pc = "hook" /\ Nought.ctx = d) /\ ctx'[d].life = ctx[d].life
             /\ ctx[d].life = "closed" => Done(ctx'[d])
  <2>1. Nought.pc # "hook"
        BY NoughtFrame
  <2>2. One(Top(t).pc \in FirePcs /\ Top(t).ctx = d) = One(b.pc \in FirePcs /\ b.ctx = d) /\ One(b.pc \in FirePcs /\ b.ctx = d) \in {0, 1}
        BY <1>2, <1>4 DEF One, FirePcs
  <2>3. ctx[d].firing \in Nat /\ ctx'[d].firing = ctx[d].firing
        BY <1>0, <1>5 DEF Steady
  <2> QED  BY <1>5, <2>1, <2>2, <2>3 DEF Steady
<1>8. busy' = ((busy - One(Top(t).pc \in BusyPcs)) + One(b.pc \in BusyPcs)) + One(Nought.pc \in BusyPcs)
  <2>1. One(b.pc \in BusyPcs) = 0 /\ One(Top(t).pc \in BusyPcs) = 0
        BY <1>2, <1>4 DEF One, BusyPcs, TurnPcs, UserPcs
  <2> QED  BY <1>0, <1>1, <2>1, NoughtCold
<1>9. /\ Top(t).pc \notin DelPcs \union {"hook"} /\ Nought.pc \notin DelPcs \union FirePcs
      /\ b.pc \notin DelPcs \union {"hook"} /\ armed' \subseteq armed
      BY <1>1, <1>2, <1>4, NoughtCold DEF LitPcs, DelPcs, EarlyPcs
<1> QED  BY <1>1, <1>6, <1>7, <1>8, <1>9, StepInvariant

(* A frame that comes first or second. *)
LEMMA PassesSwap ==
    ASSUME Finite, NEW a, NEW b, Passes(a, b, Nought)
    PROVE  Passes(a, Nought, b)
<1>1. ASSUME NEW S, S \subseteq Tracked
      PROVE  Count(S)' = ((Count(S) - One(a \in S)) + One(Nought \in S)) + One(b \in S)
  <2>1. Count(S)' = ((Count(S) - One(a \in S)) + One(b \in S)) + One(Nought \in S)
        BY <1>1 DEF Passes, Recounted
  <2>2. Count(S) \in Nat /\ One(a \in S) \in Nat /\ One(b \in S) \in Nat /\ One(Nought \in S) \in Nat
        BY <1>1, CountNat DEF One
  <2> QED  BY <2>1, <2>2
<1> QED  BY <1>1 DEF Passes, Recounted

LEMMA EndFireDeletion ==
    ASSUME RInv, LInv, NEW t \in Threads, EndFire(t)
    PROVE  LInv'
<1>0. /\ Tracks /\ StacksTyped /\ Finite /\ busy \in Nat /\ ctx \in [Contexts -> CtxT]
      /\ \A d \in Contexts : ctx[d].firing \in Nat /\ Deletion(d)
      BY InvTracks, BusyNat DEF RInv, Typed, LInv
<1> PICK c : c = Top(t).ctx
    OBVIOUS
<1> DEFINE x == [ctx[c] EXCEPT !.firing = ctx[c].firing - 1]  z == CloseIfDrained(x)  h == Frame("hook", c, None)
<1>1. /\ At(t, "endFire") /\ ctx' = [ctx EXCEPT ![c] = z] /\ Goto(t, HookFrames(c, x))
      /\ busy' = busy /\ latch' = latch /\ armed' = armed
      BY DEF EndFire, timerVars, atomics
<1>2. stack[t] # <<>> /\ Top(t).pc = "endFire" /\ Top(t) \in FrameSet /\ Fit(Top(t)) /\ Top(t) = stack[t][1] /\ 1 \in 1..Len(stack[t])
      BY <1>0, <1>1, AtTop
<1>3. c \in Contexts /\ ctx[c] \in CtxT /\ ctx[c].firing \in Nat /\ ctx[c].firing - 1 \in Int
      BY <1>0, <1>2 DEF Fit
<1>4. x \in CtxT /\ x.life = ctx[c].life /\ x.firing = ctx[c].firing - 1 /\ x.exec = ctx[c].exec
      BY <1>3, FiringField
<1>5. ctx[c].firing # 0 /\ ctx[c].life # "closed"
  <2>1. Of(FirePcs, c) \subseteq Tracked
        BY OfTracked DEF LitPcs
  <2>2. stack[t][1] \in Of(FirePcs, c)
        BY <1>2 DEF Of, FirePcs
  <2>3. Held(Of(FirePcs, c))
        BY <1>2, <2>2 DEF Held
  <2>4. Count(Of(FirePcs, c)) # 0
        BY <1>0, <2>1, <2>3, CountHeld
  <2> QED  BY <1>0, <1>3, <2>4 DEF Deletion, Done
<1>6. h \in FrameSet /\ h.pc = "hook" /\ h.ctx = c
      BY <1>3, CtxFrame DEF OnCtxPcs
<1>7. Goto(t, IF Drained(x) THEN <<h>> ELSE <<>>)
      BY <1>1 DEF HookFrames
<1>8. /\ z.firing = x.firing
      /\ Drained(x) => x.life = "draining" /\ z.life = "closed" /\ Done(z)
      /\ ~Drained(x) => z.life = x.life
      BY <1>4, ClosedFacts
<1>9. Drained(x) => Count(Of({"finishWith"}, c)) = 0
  <2>1. Drained(x) => ctx[c].exec = "idle"
        BY <1>4 DEF Drained
  <2> QED  BY <1>3, <2>1, NobodyLeaves
<1> HIDE DEF z, x, h
<1> PICK e : e = IF Drained(x) THEN h ELSE Nought
    OBVIOUS
<1>10. Passes(Top(t), Nought, e)
  <2>1. CASE Drained(x)
    <3>1. Goto(t, <<h>>) /\ h.pc \notin WithinPcs
          BY <1>6, <1>7, <2>1 DEF WithinPcs
    <3>2. Passes(Top(t), h, Nought)
          BY <1>0, <1>2, <1>6, <3>1, PassesGoto
    <3> QED  BY <1>0, <2>1, <3>2, PassesSwap
  <2>2. CASE ~Drained(x)
        BY <1>0, <1>2, <1>7, <2>2, PassesReturn
  <2> QED  BY <2>1, <2>2
<1>11. ASSUME NEW d \in Contexts
       PROVE  /\ ctx'[d].firing = (ctx[d].firing - One(Top(t).pc \in FirePcs /\ Top(t).ctx = d)) + One(Nought.pc \in FirePcs /\ Nought.ctx = d)
              /\ IF e.pc = "hook" /\ e.ctx = d
                 THEN /\ ctx[d].life = "draining" /\ ctx'[d].life = "closed" /\ Done(ctx'[d])
                      /\ Count(Of({"finishWith"}, d)) = 0
                 ELSE /\ ctx'[d].life = ctx[d].life
                      /\ ctx[d].life = "closed" => Done(ctx'[d])
  <2>1. One(Nought.pc \in FirePcs /\ Nought.ctx = d) = 0 /\ Nought.pc # "hook"
        BY NoughtFrame DEF One, FirePcs
  <2>2. CASE d = c
    <3>1. One(Top(t).pc \in FirePcs /\ Top(t).ctx = d) = 1 /\ ctx'[d] = z
          BY <1>0, <1>1, <1>2, <2>2 DEF One, FirePcs
    <3>2. ctx'[d].firing = (ctx[d].firing - 1) + 0
          BY <1>3, <1>4, <1>8, <2>2, <3>1
    <3>3. CASE Drained(x)
          BY <1>4, <1>6, <1>8, <1>9, <2>1, <2>2, <3>1, <3>2, <3>3
    <3>4. CASE ~Drained(x)
      <4>1. ~(e.pc = "hook" /\ e.ctx = d)
            BY <2>1, <3>4
      <4> QED  BY <1>4, <1>5, <1>8, <2>1, <2>2, <3>1, <3>2, <3>4, <4>1
    <3> QED  BY <3>3, <3>4
  <2>3. CASE d # c
    <3>1. One(Top(t).pc \in FirePcs /\ Top(t).ctx = d) = 0 /\ ctx'[d] = ctx[d] /\ ctx[d].firing \in Nat
          BY <1>0, <1>1, <2>3 DEF One
    <3>2. ctx[d].life = "closed" => Done(ctx'[d])
          BY <1>0, <3>1 DEF Deletion
    <3>3. ~(e.pc = "hook" /\ e.ctx = d)
          BY <1>6, <2>1, <2>3
    <3> QED  BY <2>1, <3>1, <3>2, <3>3
  <2> QED  BY <2>2, <2>3
<1>12. e.pc \in {"hook", "exited"}
      BY <1>6, NoughtFrame
<1>13. busy' = ((busy - One(Top(t).pc \in BusyPcs)) + One(Nought.pc \in BusyPcs)) + One(e.pc \in BusyPcs)
  <2>1. One(e.pc \in BusyPcs) = 0 /\ One(Top(t).pc \in BusyPcs) = 0
        BY <1>2, <1>12 DEF One, BusyPcs, TurnPcs, UserPcs
  <2> QED  BY <1>0, <1>1, <2>1, NoughtCold
<1>14. /\ Top(t).pc \notin DelPcs \union {"hook"} /\ Nought.pc \notin DelPcs \union {"hook"}
       /\ e.pc \notin DelPcs \union FirePcs /\ armed' \subseteq armed
      BY <1>1, <1>2, <1>12, NoughtCold DEF LitPcs, DelPcs, EarlyPcs, FirePcs
<1> QED  BY <1>1, <1>10, <1>11, <1>13, <1>14, StepInvariant

-----------------------------------------------------------------------------
(* A context is deleted. *)

LatchTyped == latch \in [Contexts -> {"open", "stopping", "rest", "closed", "freed"}]

(* A step of the deletion of c leaves the other contexts alone. *)
LEMMA OwnStep ==
    ASSUME LInv, NEW a, NEW b, NEW e, Passes(a, b, e), NEW c \in Contexts,
           \A f \in {a, b, e} : f.pc \notin FirePcs /\ (f.pc \in DelPcs \union {"hook"} => f.ctx = c),
           busy' = ((busy - One(a.pc \in BusyPcs)) + One(b.pc \in BusyPcs)) + One(e.pc \in BusyPcs),
           ctx'[c].firing = ctx[c].firing, ctx'[c].life = "closed" => Done(ctx'[c]), LatchSound(c)',
           \A d \in Contexts : d # c => latch'[d] = latch[d] /\ ctx'[d] = ctx[d],
           armed' \subseteq armed, \A tm \in armed' : Home[tm] \in Contexts,
           \A tm \in armed' : Home[tm] = c => Count(Of({"cancel"}, c))' # 0
    PROVE  LInv'
<1>0. /\ a \in FrameSet /\ b \in FrameSet /\ e \in FrameSet /\ Recounted(a, b, e) /\ Finite' /\ Within'
      /\ Finite /\ busy = Count(BusyFrames) /\ ArmedSound /\ \A d \in Contexts : Deletion(d)
      BY DEF Passes, LInv
<1>1. busy' = Count(BusyFrames)'
      BY <1>0, RecountBusy
<1>2. ASSUME NEW d \in Contexts, d # c, NEW pcs, pcs \subseteq LitPcs
      PROVE  Count(Of(pcs, d))' = Count(Of(pcs, d))
  <2>1. pcs \subseteq DelPcs \union {"hook"} \union FirePcs /\ pcs \subseteq BusyPcs \union LitPcs
        BY <1>2 DEF LitPcs
  <2>2. /\ One(a.pc \in pcs /\ a.ctx = d) = 0 /\ One(b.pc \in pcs /\ b.ctx = d) = 0
        /\ One(e.pc \in pcs /\ e.ctx = d) = 0
        BY <1>2, <2>1 DEF One
  <2>3. Count(Of(pcs, d)) \in Nat
    <3>2. Of(pcs, d) \subseteq Tracked
          BY <2>1, OfTracked
    <3> QED  BY <1>0, <3>2, CountNat
  <2>4. Count(Of(pcs, d))' = ((Count(Of(pcs, d)) - One(a.pc \in pcs /\ a.ctx = d))
                                  + One(b.pc \in pcs /\ b.ctx = d)) + One(e.pc \in pcs /\ e.ctx = d)
        BY <1>0, <2>1, RecountOf
  <2> QED  BY <2>2, <2>3, <2>4
<1>2a. /\ {"cancel"} \subseteq LitPcs /\ {"closeBegin", "closeGate"} \subseteq LitPcs /\ {"finishWith"} \subseteq LitPcs
       /\ {"await"} \subseteq LitPcs /\ {"free"} \subseteq LitPcs /\ {"hook"} \subseteq LitPcs /\ FirePcs \subseteq LitPcs
      BY DEF LitPcs, DelPcs, EarlyPcs, FirePcs
<1>3. ASSUME NEW d \in Contexts, d # c PROVE Deletion(d)'
  <2>1. Deletion(d) /\ latch'[d] = latch[d] /\ ctx'[d] = ctx[d]
        BY <1>0, <1>3
  <2>2. LatchSound(d)' <=> LatchSound(d)
        BY <1>2, <1>2a, <1>3, <2>1 DEF LatchSound
  <2>3. Count(Of(FirePcs, d))' = Count(Of(FirePcs, d))
        BY <1>2, <1>2a, <1>3
  <2> QED  BY <2>1, <2>2, <2>3 DEF Deletion
<1>4. Deletion(c)'
  <2>1. Count(Of(FirePcs, c))' = Count(Of(FirePcs, c))
    <3>1. /\ One(a.pc \in FirePcs /\ a.ctx = c) = 0 /\ One(b.pc \in FirePcs /\ b.ctx = c) = 0
          /\ One(e.pc \in FirePcs /\ e.ctx = c) = 0
          BY DEF One
    <3>2. Count(Of(FirePcs, c)) \in Nat
          BY <1>0, CountsOf
    <3>3. Count(Of(FirePcs, c))' = ((Count(Of(FirePcs, c)) - One(a.pc \in FirePcs /\ a.ctx = c))
                                  + One(b.pc \in FirePcs /\ b.ctx = c)) + One(e.pc \in FirePcs /\ e.ctx = c)
      <4>1. FirePcs \subseteq BusyPcs \union LitPcs
            BY <1>2a
      <4> QED  BY <1>0, <4>1, RecountOf
    <3> QED  BY <3>1, <3>2, <3>3
  <2>2. ctx[c].firing = Count(Of(FirePcs, c))
        BY <1>0 DEF Deletion
  <2> QED  BY <2>1, <2>2 DEF Deletion
<1>5. ArmedSound'
  <2> SUFFICES ASSUME NEW tm \in armed' PROVE latch'[Home[tm]] = "open" \/ Count(Of({"cancel"}, Home[tm]))' # 0
      BY DEF ArmedSound
  <2>1. CASE Home[tm] = c
        BY <2>1
  <2>2. CASE Home[tm] # c
    <3>1. latch[Home[tm]] = "open" \/ Count(Of({"cancel"}, Home[tm])) # 0
          BY <1>0 DEF ArmedSound
    <3>2. Home[tm] \in Contexts /\ latch'[Home[tm]] = latch[Home[tm]]
          BY <2>2
    <3>3. Count(Of({"cancel"}, Home[tm]))' = Count(Of({"cancel"}, Home[tm]))
          BY <1>2, <1>2a, <2>2, <3>2
    <3> QED  BY <3>1, <3>2, <3>3
  <2> QED  BY <2>1, <2>2
<1> QED  BY <1>0, <1>1, <1>3, <1>4, <1>5 DEF LInv

(* A frame on top of a stack is counted. *)
LEMMA TopCounted ==
    ASSUME RInv, LInv, NEW t \in Threads, stack[t] # <<>>, NEW c, NEW pcs, Top(t).pc \in pcs, Top(t).ctx = c, pcs \subseteq LitPcs
    PROVE  Count(Of(pcs, c)) # 0
<1>0. StacksTyped /\ Finite
      BY InvTracks DEF LInv
<1>1. Of(pcs, c) \subseteq Tracked
      BY OfTracked
<1>2. Top(t) = stack[t][1] /\ 1 \in 1..Len(stack[t]) /\ Top(t) \in FrameSet
      BY <1>0, TopFrame
<1>3. stack[t][1] \in Of(pcs, c)
      BY <1>2 DEF Of
<1>4. Held(Of(pcs, c))
      BY <1>2, <1>3 DEF Held
<1> QED  BY <1>0, <1>1, <1>4, CountHeld

LEMMA ArmedHome ==
    ASSUME RInv, NEW tm \in armed
    PROVE  Home[tm] \in Contexts
BY RuntimeAssumption DEF RInv, Typed

(* The numbers after a step from p to q and s. *)
LEMMA NewCounts ==
    ASSUME NEW a, NEW b, NEW e, Passes(a, b, e), NEW c, NEW p, NEW q, NEW s, a.pc = p, b.pc = q, e.pc = s,
           \A f \in {a, b, e} : f.pc \in DelPcs \union {"hook"} => f.ctx = c
    PROVE  /\ Count(Of({"cancel"}, c))' = ((Count(Of({"cancel"}, c)) - One(p = "cancel")) + One(q = "cancel")) + One(s = "cancel")
           /\ Count(Of({"closeBegin", "closeGate"}, c))' =
                  ((Count(Of({"closeBegin", "closeGate"}, c)) - One(p \in {"closeBegin", "closeGate"}))
                       + One(q \in {"closeBegin", "closeGate"})) + One(s \in {"closeBegin", "closeGate"})
           /\ Count(Of({"finishWith"}, c))' = ((Count(Of({"finishWith"}, c)) - One(p = "finishWith")) + One(q = "finishWith")) + One(s = "finishWith")
           /\ Count(Of({"await"}, c))' = ((Count(Of({"await"}, c)) - One(p = "await")) + One(q = "await")) + One(s = "await")
           /\ Count(Of({"free"}, c))' = ((Count(Of({"free"}, c)) - One(p = "free")) + One(q = "free")) + One(s = "free")
           /\ Count(Of({"hook"}, c))' = ((Count(Of({"hook"}, c)) - One(p = "hook")) + One(q = "hook")) + One(s = "hook")
<1>1. ASSUME NEW pcs, pcs \subseteq DelPcs \union {"hook"}
      PROVE  Count(Of(pcs, c))' = ((Count(Of(pcs, c)) - One(p \in pcs)) + One(q \in pcs)) + One(s \in pcs)
  <2>1. Count(Of(pcs, c))' = ((Count(Of(pcs, c)) - One(a.pc \in pcs /\ a.ctx = c))
                                  + One(b.pc \in pcs /\ b.ctx = c)) + One(e.pc \in pcs /\ e.ctx = c)
    <3>1. pcs \subseteq BusyPcs \union LitPcs
          BY <1>1 DEF LitPcs
    <3>2. a \in FrameSet /\ b \in FrameSet /\ e \in FrameSet /\ Recounted(a, b, e)
          BY DEF Passes
    <3> QED  BY <3>1, <3>2, RecountOf
  <2>2. /\ One(a.pc \in pcs /\ a.ctx = c) = One(p \in pcs) /\ One(b.pc \in pcs /\ b.ctx = c) = One(q \in pcs)
        /\ One(e.pc \in pcs /\ e.ctx = c) = One(s \in pcs)
        BY <1>1 DEF One
  <2> QED  BY <2>1, <2>2
<1>2. ASSUME NEW pc \in {"cancel", "finishWith", "await", "free", "hook"}
      PROVE  Count(Of({pc}, c))' = ((Count(Of({pc}, c)) - One(p = pc)) + One(q = pc)) + One(s = pc)
  <2>1. {pc} \subseteq DelPcs \union {"hook"}
        BY DEF DelPcs, EarlyPcs
  <2>2. Count(Of({pc}, c))' = ((Count(Of({pc}, c)) - One(p \in {pc})) + One(q \in {pc})) + One(s \in {pc})
        BY <1>1, <2>1
  <2>3. One(p \in {pc}) = One(p = pc) /\ One(q \in {pc}) = One(q = pc) /\ One(s \in {pc}) = One(s = pc)
        BY DEF One
  <2> QED  BY <2>2, <2>3
<1>3. {"closeBegin", "closeGate"} \subseteq DelPcs \union {"hook"}
      BY DEF DelPcs, EarlyPcs
<1> QED  BY <1>1, <1>2, <1>3

LEMMA DeleteDeletion ==
    ASSUME RInv, LInv, LatchTyped, NEW t \in Threads, NEW c \in Contexts, Delete(t, c)
    PROVE  LInv'
<1>0. Tracks /\ StacksTyped /\ busy \in Nat /\ Deletion(c)
      BY InvTracks, BusyNat DEF LInv
<1> DEFINE b == Frame("cancel", c, None)
<1>1. /\ latch[c] = "open" /\ latch' = [latch EXCEPT ![c] = "stopping"] /\ Call(t, <<b>>)
      /\ busy' = busy /\ ctx' = ctx /\ armed' = armed
      BY DEF Delete, schedVars, timerVars, atomics
<1>2. b \in FrameSet /\ b.pc = "cancel" /\ b.ctx = c
      BY CtxFrame DEF OnCtxPcs
<1> HIDE DEF b
<1>3. latch'[c] = "stopping" /\ \A d \in Contexts : d # c => latch'[d] = latch[d]
      BY <1>1 DEF LatchTyped
<1>4. Passes(Nought, b, Nought)
  <2>1. b.pc \notin WithinPcs
        BY <1>2 DEF WithinPcs
  <2> QED  BY <1>0, <1>1, <1>2, <2>1, PassesCall
<1>5. Nought.pc = "exited" /\ \A f \in {Nought, b} : f.pc \notin FirePcs /\ (f.pc \in DelPcs \union {"hook"} => f.ctx = c)
      BY <1>2, NoughtFrame DEF DelPcs, EarlyPcs, FirePcs
<1> DEFINE k == Count(Of({"cancel"}, c))  l == Count(Of({"closeBegin", "closeGate"}, c))
           f == Count(Of({"finishWith"}, c))  w == Count(Of({"await"}, c))  r == Count(Of({"free"}, c))
           h == Count(Of({"hook"}, c))
<1>6. k \in Nat /\ l \in Nat /\ f \in Nat /\ w \in Nat /\ r \in Nat /\ h \in Nat
      BY CountsOf DEF LInv
<1>7. Phase(latch[c], ctx[c].life, k, l, f, w, r, h)
      BY <1>0 DEF Deletion, LatchSound
<1>8. k' = k + 1 /\ l' = l /\ f' = f /\ w' = w /\ r' = r /\ h' = h
  <2>1. /\ k' = ((k - 0) + 1) + 0 /\ l' = ((l - 0) + 0) + 0 /\ f' = ((f - 0) + 0) + 0
        /\ w' = ((w - 0) + 0) + 0 /\ r' = ((r - 0) + 0) + 0 /\ h' = ((h - 0) + 0) + 0
        BY <1>2, <1>4, <1>5, NewCounts DEF One
  <2> QED  BY <1>6, <2>1
<1>9. LatchSound(c)' <=> Phase(latch'[c], ctx'[c].life, k', l', f', w', r', h')
      BY DEF LatchSound
<1>10. k' # 0
      BY <1>6, <1>8
<1> HIDE DEF k, l, f, w, r, h
<1>11. LatchSound(c)'
      BY <1>1, <1>3, <1>6, <1>7, <1>8, <1>9 DEF Phase
<1>12. busy' = ((busy - One(Nought.pc \in BusyPcs)) + One(b.pc \in BusyPcs)) + One(Nought.pc \in BusyPcs)
  <2>1. One(b.pc \in BusyPcs) = 0
        BY <1>2 DEF One, BusyPcs, TurnPcs, UserPcs
  <2> QED  BY <1>0, <1>1, <2>1, NoughtCold
<1>13. \A tm \in armed' : Home[tm] \in Contexts
      BY <1>1, ArmedHome
<1>14. ctx'[c].life = "closed" => Done(ctx'[c])
      BY <1>0, <1>1 DEF Deletion
<1> QED  BY <1>1, <1>3, <1>4, <1>5, <1>10, <1>11, <1>12, <1>13, <1>14, OwnStep DEF k

-----------------------------------------------------------------------------
(* The frame p of the deletion of a context goes on as q, and the latch     *)
(* from la to lb.                                                           *)
PhaseStep(la, life, p, q, lb) ==
    \A k, l, f, w, r, h \in Nat :
        /\ Phase(la, life, k, l, f, w, r, h)
        /\ k >= One(p = "cancel") /\ l >= One(p \in {"closeBegin", "closeGate"}) /\ f >= One(p = "finishWith")
        /\ w >= One(p = "await") /\ r >= One(p = "free") /\ h >= One(p = "hook")
        => Phase(lb, life, (k - One(p = "cancel")) + One(q = "cancel"),
                 (l - One(p \in {"closeBegin", "closeGate"})) + One(q \in {"closeBegin", "closeGate"}),
                 (f - One(p = "finishWith")) + One(q = "finishWith"), (w - One(p = "await")) + One(q = "await"),
                 (r - One(p = "free")) + One(q = "free"), (h - One(p = "hook")) + One(q = "hook"))

(* A deletion beyond the cancelling of timers has stopped the latch. *)
LEMMA PhaseBegun ==
    ASSUME NEW la, NEW life, NEW k \in Nat, NEW l \in Nat, NEW f \in Nat, NEW w \in Nat, NEW r \in Nat, NEW h \in Nat,
           Phase(la, life, k, l, f, w, r, h), l >= 1 \/ f >= 1 \/ w >= 1 \/ r >= 1 \/ h >= 1
    PROVE  la # "open" /\ k = 0
<1>1. (((k + l) + f) + w) + r <= 1
      BY DEF Phase
<1>2. CASE h >= 1
  <2>1. h # 0
        BY <1>2
  <2>2. la # "open"
        BY <2>1 DEF Phase
  <2>3. w = 1 \/ (((k + l) + f) + w) + r = 0
        BY <2>1 DEF Phase
  <2> QED  BY <1>1, <2>2, <2>3
<1>3. CASE l >= 1 \/ f >= 1 \/ w >= 1 \/ r >= 1
  <2>1. (((k + l) + f) + w) + r # 0 /\ k = 0
        BY <1>1, <1>3
  <2> QED  BY <2>1 DEF Phase
<1> QED  BY <1>2, <1>3

LEMMA LatchStep ==
    ASSUME RInv, LInv, NEW t \in Threads, stack[t] # <<>>, NEW p \in DelPcs \union {"hook"}, Top(t).pc = p, NEW c \in Contexts,
           Top(t).ctx = c, NEW b, NEW q, b.pc = q, q \notin FirePcs, q \in DelPcs \union {"hook"} => b.ctx = c,
           Passes(Top(t), b, Nought), busy' = (busy - One(p \in BusyPcs)) + One(q \in BusyPcs), ctx' = ctx,
           armed' \subseteq armed, p = "cancel" => \A tm \in armed' : Home[tm] # c,
           NEW la, latch'[c] = la, \A d \in Contexts : d # c => latch'[d] = latch[d],
           PhaseStep(latch[c], ctx[c].life, p, q, la)
    PROVE  LInv'
<1>0. busy \in Nat /\ Deletion(c)
      BY BusyNat DEF LInv
<1> DEFINE k == Count(Of({"cancel"}, c))  l == Count(Of({"closeBegin", "closeGate"}, c))
           f == Count(Of({"finishWith"}, c))  w == Count(Of({"await"}, c))  r == Count(Of({"free"}, c))
           h == Count(Of({"hook"}, c))
<1>1. k \in Nat /\ l \in Nat /\ f \in Nat /\ w \in Nat /\ r \in Nat /\ h \in Nat
      BY CountsOf DEF LInv
<1>2. Phase(latch[c], ctx[c].life, k, l, f, w, r, h)
      BY <1>0 DEF Deletion, LatchSound
<1>3. /\ k >= One(p = "cancel") /\ l >= One(p \in {"closeBegin", "closeGate"}) /\ f >= One(p = "finishWith")
      /\ w >= One(p = "await") /\ r >= One(p = "free") /\ h >= One(p = "hook")
  <2>0. /\ {"cancel"} \subseteq LitPcs /\ {"closeBegin", "closeGate"} \subseteq LitPcs /\ {"finishWith"} \subseteq LitPcs
        /\ {"await"} \subseteq LitPcs /\ {"free"} \subseteq LitPcs /\ {"hook"} \subseteq LitPcs
        BY DEF LitPcs, DelPcs, EarlyPcs
  <2>1. /\ p = "cancel" => k # 0
        /\ p \in {"closeBegin", "closeGate"} => l # 0
        /\ p = "finishWith" => f # 0
        /\ p = "await" => w # 0
        /\ p = "free" => r # 0
        /\ p = "hook" => h # 0
        BY <2>0, TopCounted
  <2> HIDE DEF k, l, f, w, r, h
  <2> QED  BY <1>1, <2>1 DEF One
<1>4. Nought.pc = "exited" /\ \A g \in {Top(t), b, Nought} : g.pc \notin FirePcs /\ (g.pc \in DelPcs \union {"hook"} => g.ctx = c)
      BY NoughtFrame DEF DelPcs, EarlyPcs, FirePcs
<1>5. /\ k' = (k - One(p = "cancel")) + One(q = "cancel")
      /\ l' = (l - One(p \in {"closeBegin", "closeGate"})) + One(q \in {"closeBegin", "closeGate"})
      /\ f' = (f - One(p = "finishWith")) + One(q = "finishWith") /\ w' = (w - One(p = "await")) + One(q = "await")
      /\ r' = (r - One(p = "free")) + One(q = "free") /\ h' = (h - One(p = "hook")) + One(q = "hook")
  <2>1. /\ k' = ((k - One(p = "cancel")) + One(q = "cancel")) + One("exited" = "cancel")
        /\ l' = ((l - One(p \in {"closeBegin", "closeGate"})) + One(q \in {"closeBegin", "closeGate"}))
                    + One("exited" \in {"closeBegin", "closeGate"})
        /\ f' = ((f - One(p = "finishWith")) + One(q = "finishWith")) + One("exited" = "finishWith")
        /\ w' = ((w - One(p = "await")) + One(q = "await")) + One("exited" = "await")
        /\ r' = ((r - One(p = "free")) + One(q = "free")) + One("exited" = "free")
        /\ h' = ((h - One(p = "hook")) + One(q = "hook")) + One("exited" = "hook")
        BY <1>4, NewCounts
  <2>2. /\ One("exited" = "cancel") = 0 /\ One("exited" \in {"closeBegin", "closeGate"}) = 0 /\ One("exited" = "finishWith") = 0
        /\ One("exited" = "await") = 0 /\ One("exited" = "free") = 0 /\ One("exited" = "hook") = 0
        BY DEF One
  <2>3. ASSUME NEW x \in Nat, NEW y \in {0, 1}, NEW z \in {0, 1} PROVE ((x - y) + z) + 0 = (x - y) + z
        OBVIOUS
  <2>4. /\ One(p = "cancel") \in {0, 1} /\ One(q = "cancel") \in {0, 1}
        /\ One(p \in {"closeBegin", "closeGate"}) \in {0, 1} /\ One(q \in {"closeBegin", "closeGate"}) \in {0, 1}
        /\ One(p = "finishWith") \in {0, 1} /\ One(q = "finishWith") \in {0, 1} /\ One(p = "await") \in {0, 1} /\ One(q = "await") \in {0, 1}
        /\ One(p = "free") \in {0, 1} /\ One(q = "free") \in {0, 1} /\ One(p = "hook") \in {0, 1} /\ One(q = "hook") \in {0, 1}
        BY DEF One
  <2> HIDE DEF k, l, f, w, r, h
  <2>5. k' = (k - One(p = "cancel")) + One(q = "cancel")
        BY <1>1, <2>1, <2>2, <2>3, <2>4
  <2>6. l' = (l - One(p \in {"closeBegin", "closeGate"})) + One(q \in {"closeBegin", "closeGate"})
        BY <1>1, <2>1, <2>2, <2>3, <2>4
  <2>7. f' = (f - One(p = "finishWith")) + One(q = "finishWith")
        BY <1>1, <2>1, <2>2, <2>3, <2>4
  <2>8. w' = (w - One(p = "await")) + One(q = "await")
        BY <1>1, <2>1, <2>2, <2>3, <2>4
  <2>9. r' = (r - One(p = "free")) + One(q = "free")
        BY <1>1, <2>1, <2>2, <2>3, <2>4
  <2>10. h' = (h - One(p = "hook")) + One(q = "hook")
        BY <1>1, <2>1, <2>2, <2>3, <2>4
  <2> QED  BY <2>5, <2>6, <2>7, <2>8, <2>9, <2>10
<1>6. LatchSound(c)' <=> Phase(latch'[c], ctx'[c].life, k', l', f', w', r', h')
      BY DEF LatchSound
<1> HIDE DEF k, l, f, w, r, h
<1>7. Phase(latch'[c], ctx'[c].life, k', l', f', w', r', h')
      BY <1>1, <1>2, <1>3, <1>5, ZenonT(40) DEF PhaseStep
<1>8. p # "cancel" => latch[c] # "open" /\ k = 0
  <2>1. p # "cancel" => l >= 1 \/ f >= 1 \/ w >= 1 \/ r >= 1 \/ h >= 1
        BY <1>3 DEF One, DelPcs, EarlyPcs
  <2> QED  BY <1>1, <1>2, <2>1, PhaseBegun
<1>9. \A tm \in armed' : Home[tm] \in Contexts /\ Home[tm] # c
  <2>1. \A tm \in armed : latch[Home[tm]] = "open" \/ Count(Of({"cancel"}, Home[tm])) # 0
        BY DEF LInv, ArmedSound
  <2> QED  BY <1>8, <2>1, ArmedHome DEF k
<1>10. busy' = ((busy - One(Top(t).pc \in BusyPcs)) + One(b.pc \in BusyPcs)) + One(Nought.pc \in BusyPcs)
      BY <1>0, NoughtCold, OneNat
<1>11. ctx'[c].firing = ctx[c].firing /\ (ctx'[c].life = "closed" => Done(ctx'[c])) /\ \A d \in Contexts : ctx'[d] = ctx[d]
      BY <1>0 DEF Deletion
<1> QED  BY <1>4, <1>6, <1>7, <1>9, <1>10, <1>11, OwnStep

LEMMA ClosingDeletion ==
    ASSUME RInv, LInv, LatchTyped, NEW t \in Threads,
           CancelAll(t) \/ CloseBegin(t) \/ FinishWith(t) \/ Await(t) \/ FreeContext(t) \/ OnClosed(t)
    PROVE  LInv'
<1>0. Tracks /\ StacksTyped /\ busy \in Nat
      BY InvTracks, BusyNat
<1> PICK c : c = Top(t).ctx
    OBVIOUS
<1>a. ASSUME NEW pc \in DelPcs \union {"hook"}, At(t, pc)
      PROVE  stack[t] # <<>> /\ Top(t).pc = pc /\ Top(t) \in FrameSet /\ c \in Contexts /\ pc \in OnCtxPcs
      BY <1>0, <1>a, AtTop DEF Fit, DelPcs, EarlyPcs, OnCtxPcs
<1>b. ASSUME NEW pc \in DelPcs, NEW to \in DelPcs, At(t, pc), to # "finishWith", Goto(t, <<[Top(t) EXCEPT !.pc = to]>>)
      PROVE  LET b == [Top(t) EXCEPT !.pc = to] IN b.pc = to /\ b.ctx = c /\ Passes(Top(t), b, Nought)
  <2> DEFINE b == [Top(t) EXCEPT !.pc = to]
  <2>1. stack[t] # <<>> /\ Top(t).pc = pc /\ Top(t) \in FrameSet /\ pc \in OnCtxPcs /\ to \in OnCtxPcs /\ to \in Pcs
        BY <1>a, <1>b DEF DelPcs, EarlyPcs, OnCtxPcs, Pcs
  <2>2. b \in FrameSet /\ b.pc = to /\ b.ctx = c
        BY <2>1, MovedFrame
  <2>3. Goto(t, <<b>>)
        BY <1>b
  <2> HIDE DEF b
  <2>4. b.pc \notin WithinPcs
        BY <1>b, <2>2 DEF WithinPcs, DelPcs, EarlyPcs
  <2>5. Passes(Top(t), b, Nought)
        BY <1>0, <2>1, <2>2, <2>3, <2>4, PassesGoto
  <2> QED  BY <2>2, <2>5 DEF b
<1>c. {"cancel", "closeBegin", "closeGate", "finishWith", "await", "free"} = DelPcs /\ "exited" \notin DelPcs \union {"hook"}
      /\ \A pc \in DelPcs \union {"hook"} \union {"exited"} : pc \notin FirePcs
      BY DEF DelPcs, EarlyPcs, FirePcs
<1>d. /\ \A pc \in {"cancel", "closeBegin", "finishWith", "await", "free", "hook", "exited"} : One(pc \in BusyPcs) = 0
      /\ One("closeGate" \in BusyPcs) = 1
      BY DEF One, BusyPcs, TurnPcs, UserPcs
<1>1. CASE CancelAll(t)
  <2> DEFINE b == [Top(t) EXCEPT !.pc = "closeBegin"]
  <2>1. /\ At(t, "cancel") /\ armed' = {tm \in armed : Home[tm] # c} /\ Goto(t, <<b>>)
        /\ ctx' = ctx /\ busy' = busy /\ latch' = latch
        BY <1>1 DEF CancelAll, schedVars, atomics
  <2>2. stack[t] # <<>> /\ Top(t).pc = "cancel" /\ c \in Contexts
        BY <1>a, <1>c, <2>1
  <2>3. b.pc = "closeBegin" /\ b.ctx = c /\ Passes(Top(t), b, Nought)
        BY <1>b, <1>c, <2>1
  <2> HIDE DEF b
  <2>4. busy' = (busy - One("cancel" \in BusyPcs)) + One("closeBegin" \in BusyPcs) /\ armed' \subseteq armed
        /\ \A tm \in armed' : Home[tm] # c
        BY <1>0, <1>d, <2>1
  <2>5. PhaseStep(latch[c], ctx[c].life, "cancel", "closeBegin", latch[c])
        BY DEF PhaseStep, Phase, One
  <2> QED  BY <1>c, <2>1, <2>2, <2>3, <2>4, <2>5, LatchStep
<1>2. CASE CloseBegin(t)
  <2> DEFINE b == [Top(t) EXCEPT !.pc = "closeGate"]
  <2>1. At(t, "closeBegin") /\ Goto(t, <<b>>) /\ ctx' = ctx /\ busy' = busy + 1 /\ latch' = latch /\ armed' = armed
        BY <1>2 DEF CloseBegin, schedVars, timerVars
  <2>2. stack[t] # <<>> /\ Top(t).pc = "closeBegin" /\ c \in Contexts
        BY <1>a, <1>c, <2>1
  <2>3. b.pc = "closeGate" /\ b.ctx = c /\ Passes(Top(t), b, Nought)
        BY <1>b, <1>c, <2>1
  <2> HIDE DEF b
  <2>4. busy' = (busy - One("closeBegin" \in BusyPcs)) + One("closeGate" \in BusyPcs) /\ armed' \subseteq armed
        BY <1>0, <1>d, <2>1
  <2>5. PhaseStep(latch[c], ctx[c].life, "closeBegin", "closeGate", latch[c])
        BY DEF PhaseStep, Phase, One
  <2> QED  BY <1>c, <2>1, <2>2, <2>3, <2>4, <2>5, LatchStep
<1>3. CASE Await(t)
  <2> DEFINE b == [Top(t) EXCEPT !.pc = "free"]
  <2>1. /\ At(t, "await") /\ Goto(t, <<b>>) /\ ctx' = ctx /\ busy' = busy /\ latch' = latch /\ armed' = armed
        /\ latch[c] = "closed"
        BY <1>3 DEF Await, schedVars, timerVars, atomics
  <2>2. stack[t] # <<>> /\ Top(t).pc = "await" /\ c \in Contexts
        BY <1>a, <1>c, <2>1
  <2>3. b.pc = "free" /\ b.ctx = c /\ Passes(Top(t), b, Nought)
        BY <1>b, <1>c, <2>1
  <2> HIDE DEF b
  <2>4. busy' = (busy - One("await" \in BusyPcs)) + One("free" \in BusyPcs) /\ armed' \subseteq armed
        BY <1>0, <1>d, <2>1
  <2>5. PhaseStep(latch[c], ctx[c].life, "await", "free", latch[c])
        BY <2>1 DEF PhaseStep, Phase, One
  <2> QED  BY <1>c, <2>1, <2>2, <2>3, <2>4, <2>5, LatchStep
<1>4. ASSUME NEW p \in {"finishWith", "free", "hook"}, At(t, p), Return(t), ctx' = ctx, busy' = busy, armed' = armed,
             NEW la, latch' = [latch EXCEPT ![c] = la], PhaseStep(latch[c], ctx[c].life, p, "exited", la)
      PROVE  LInv'
  <2>1. stack[t] # <<>> /\ Top(t).pc = p /\ c \in Contexts /\ p \in DelPcs \union {"hook"}
        BY <1>a, <1>c, <1>4
  <2>2. Passes(Top(t), Nought, Nought) /\ Nought.pc = "exited"
        BY <1>0, <1>4, <2>1, PassesReturn, NoughtFrame DEF Return
  <2>3. latch'[c] = la /\ \A d \in Contexts : d # c => latch'[d] = latch[d]
        BY <1>4, <2>1 DEF LatchTyped
  <2>4. busy' = (busy - One(p \in BusyPcs)) + One("exited" \in BusyPcs) /\ armed' \subseteq armed
        BY <1>0, <1>d, <1>4
  <2> QED  BY <1>c, <1>4, <2>1, <2>2, <2>3, <2>4, LatchStep
<1>5. CASE FinishWith(t)
  <2>1. /\ At(t, "finishWith") /\ Return(t) /\ ctx' = ctx /\ busy' = busy /\ armed' = armed
        /\ latch' = [latch EXCEPT ![c] = "rest"]
        BY <1>5 DEF FinishWith, schedVars, timerVars, atomics
  <2>2. PhaseStep(latch[c], ctx[c].life, "finishWith", "exited", "rest")
    <3>1. ASSUME NEW k \in Nat, NEW l \in Nat, NEW f \in Nat, NEW w \in Nat, NEW r \in Nat, NEW h \in Nat,
                 Phase(latch[c], ctx[c].life, k, l, f, w, r, h), f >= 1
          PROVE  Phase("rest", ctx[c].life, (k - 0) + 0, (l - 0) + 0, (f - 1) + 0, (w - 0) + 0, (r - 0) + 0, (h - 0) + 0)
      <4>1. k = 0 /\ l = 0 /\ f = 1 /\ w = 0 /\ r = 0
            BY <3>1 DEF Phase
      <4>2. ctx[c].life = "draining" /\ h = 0
        <5>1. Phase(latch[c], ctx[c].life, 0, 0, 1, 0, 0, h)
              BY <3>1, <4>1
        <5> QED  BY <5>1 DEF Phase
      <4>3. Phase("rest", "draining", 0, 0, 0, 0, 0, 0)
            BY DEF Phase
      <4>4. (k - 0) + 0 = 0 /\ (l - 0) + 0 = 0 /\ (f - 1) + 0 = 0 /\ (w - 0) + 0 = 0 /\ (r - 0) + 0 = 0 /\ (h - 0) + 0 = 0
            BY <4>1, <4>2
      <4> QED  BY <4>2, <4>3, <4>4
    <3>2. /\ One("finishWith" = "cancel") = 0 /\ One("finishWith" \in {"closeBegin", "closeGate"}) = 0 /\ One("finishWith" = "finishWith") = 1
          /\ One("finishWith" = "await") = 0 /\ One("finishWith" = "free") = 0 /\ One("finishWith" = "hook") = 0
          /\ One("exited" = "cancel") = 0 /\ One("exited" \in {"closeBegin", "closeGate"}) = 0 /\ One("exited" = "finishWith") = 0
          /\ One("exited" = "await") = 0 /\ One("exited" = "free") = 0 /\ One("exited" = "hook") = 0
          BY DEF One
    <3> SUFFICES ASSUME NEW k \in Nat, NEW l \in Nat, NEW f \in Nat, NEW w \in Nat, NEW r \in Nat, NEW h \in Nat,
                        Phase(latch[c], ctx[c].life, k, l, f, w, r, h), f >= One("finishWith" = "finishWith")
                 PROVE  Phase("rest", ctx[c].life, (k - One("finishWith" = "cancel")) + One("exited" = "cancel"),
                              (l - One("finishWith" \in {"closeBegin", "closeGate"})) + One("exited" \in {"closeBegin", "closeGate"}),
                              (f - One("finishWith" = "finishWith")) + One("exited" = "finishWith"), (w - One("finishWith" = "await")) + One("exited" = "await"),
                              (r - One("finishWith" = "free")) + One("exited" = "free"), (h - One("finishWith" = "hook")) + One("exited" = "hook"))
        BY DEF PhaseStep
    <3>3. (k - One("finishWith" = "cancel")) + One("exited" = "cancel") = (k - 0) + 0
          BY <3>2
    <3>4. (l - One("finishWith" \in {"closeBegin", "closeGate"})) + One("exited" \in {"closeBegin", "closeGate"}) = (l - 0) + 0
          BY <3>2
    <3>5. (f - One("finishWith" = "finishWith")) + One("exited" = "finishWith") = (f - 1) + 0
          BY <3>2
    <3>6. (w - One("finishWith" = "await")) + One("exited" = "await") = (w - 0) + 0
          BY <3>2
    <3>7. (r - One("finishWith" = "free")) + One("exited" = "free") = (r - 0) + 0
          BY <3>2
    <3>8. (h - One("finishWith" = "hook")) + One("exited" = "hook") = (h - 0) + 0
          BY <3>2
    <3>9. f >= 1
          BY <3>2
    <3> QED  BY <3>1, <3>3, <3>4, <3>5, <3>6, <3>7, <3>8, <3>9, SMTT(40)
  <2> QED  BY <1>4, <2>1, <2>2
<1>6. CASE FreeContext(t)
  <2>1. /\ At(t, "free") /\ Return(t) /\ ctx' = ctx /\ busy' = busy /\ armed' = armed
        /\ latch' = [latch EXCEPT ![c] = "freed"]
        BY <1>6 DEF FreeContext, schedVars, timerVars, atomics
  <2>2. PhaseStep(latch[c], ctx[c].life, "free", "exited", "freed")
    <3>1. ASSUME NEW k \in Nat, NEW l \in Nat, NEW f \in Nat, NEW w \in Nat, NEW r \in Nat, NEW h \in Nat,
                 Phase(latch[c], ctx[c].life, k, l, f, w, r, h), r >= 1
          PROVE  Phase("freed", ctx[c].life, (k - 0) + 0, (l - 0) + 0, (f - 0) + 0, (w - 0) + 0, (r - 1) + 0, (h - 0) + 0)
      <4>1. /\ (k - 0) + 0 = k /\ (l - 0) + 0 = l /\ (f - 0) + 0 = f /\ (w - 0) + 0 = w
            /\ (r - 1) + 0 = r - 1 /\ (h - 0) + 0 = h
            OBVIOUS
      <4>2. (((k + l) + f) + w) + r <= 1
            BY <3>1 DEF Phase
      <4>3. k = 0 /\ l = 0 /\ f = 0 /\ w = 0 /\ r = 1
            BY <3>1, <4>2
      <4>4. ctx[c].life = "closed" /\ h = 0
            BY <3>1, <4>3 DEF Phase
      <4>5. Phase("freed", "closed", 0, 0, 0, 0, 0, 0)
            BY DEF Phase
      <4> QED  BY <4>1, <4>3, <4>4, <4>5
    <3>2. /\ One("free" = "cancel") = 0 /\ One("free" \in {"closeBegin", "closeGate"}) = 0 /\ One("free" = "finishWith") = 0
          /\ One("free" = "await") = 0 /\ One("free" = "free") = 1 /\ One("free" = "hook") = 0
          /\ One("exited" = "cancel") = 0 /\ One("exited" \in {"closeBegin", "closeGate"}) = 0 /\ One("exited" = "finishWith") = 0
          /\ One("exited" = "await") = 0 /\ One("exited" = "free") = 0 /\ One("exited" = "hook") = 0
          BY DEF One
    <3> SUFFICES ASSUME NEW k \in Nat, NEW l \in Nat, NEW f \in Nat, NEW w \in Nat, NEW r \in Nat, NEW h \in Nat,
                        Phase(latch[c], ctx[c].life, k, l, f, w, r, h), r >= One("free" = "free")
                 PROVE  Phase("freed", ctx[c].life, (k - One("free" = "cancel")) + One("exited" = "cancel"),
                              (l - One("free" \in {"closeBegin", "closeGate"})) + One("exited" \in {"closeBegin", "closeGate"}),
                              (f - One("free" = "finishWith")) + One("exited" = "finishWith"), (w - One("free" = "await")) + One("exited" = "await"),
                              (r - One("free" = "free")) + One("exited" = "free"), (h - One("free" = "hook")) + One("exited" = "hook"))
        BY DEF PhaseStep
    <3>3. (k - One("free" = "cancel")) + One("exited" = "cancel") = (k - 0) + 0
          BY <3>2
    <3>4. (l - One("free" \in {"closeBegin", "closeGate"})) + One("exited" \in {"closeBegin", "closeGate"}) = (l - 0) + 0
          BY <3>2
    <3>5. (f - One("free" = "finishWith")) + One("exited" = "finishWith") = (f - 0) + 0
          BY <3>2
    <3>6. (w - One("free" = "await")) + One("exited" = "await") = (w - 0) + 0
          BY <3>2
    <3>7. (r - One("free" = "free")) + One("exited" = "free") = (r - 1) + 0
          BY <3>2
    <3>8. (h - One("free" = "hook")) + One("exited" = "hook") = (h - 0) + 0
          BY <3>2
    <3>9. r >= 1
          BY <3>2
    <3> QED  BY <3>1, <3>3, <3>4, <3>5, <3>6, <3>7, <3>8, <3>9, SMTT(30)
  <2> QED  BY <1>4, <2>1, <2>2
<1>7. CASE OnClosed(t)
  <2>1. /\ At(t, "hook") /\ Return(t) /\ ctx' = ctx /\ busy' = busy /\ armed' = armed
        /\ latch' = [latch EXCEPT ![c] = IF latch[c] = "rest" THEN "freed" ELSE "closed"]
        BY <1>7 DEF OnClosed, schedVars, timerVars, atomics
  <2>2. PICK la : la = IF latch[c] = "rest" THEN "freed" ELSE "closed"
        OBVIOUS
  <2>3. PhaseStep(latch[c], ctx[c].life, "hook", "exited", la)
        BY <2>2 DEF PhaseStep, Phase, One
  <2> QED  BY <1>4, <2>1, <2>2, <2>3
<1> QED  BY <1>1, <1>2, <1>3, <1>5, <1>6, <1>7

-----------------------------------------------------------------------------
(* closeDiscarding. *)

LEMMA DiscardLife ==
    ASSUME NEW c, ctx[c] \in CtxT, Cardinality(ExternalPlaces(c)) \in Nat
    PROVE  Discard(c).life = "draining" /\ Discard(c).firing = ctx[c].firing
<1> DEFINE k == Cardinality(ExternalPlaces(c))
           m == IF ctx[c].exec = "scheduled" /\ Linked(c) THEN "idle" ELSE ctx[c].exec
           a == [ctx[c] EXCEPT !.life = "draining"]
           b == [a EXCEPT !.queue = <<>>]
           d == [b EXCEPT !.pending = ctx[c].pending - k]
           e == [d EXCEPT !.exec = m]
<1>1. Discard(c) = e
      BY DEF Discard, ExternalPlaces
<1>2. m \in {"idle", "scheduled", "running"} /\ ctx[c].pending - k \in Int
      BY DEF CtxT
<1> HIDE DEF k, m
<1>3. a \in CtxT /\ a.life = "draining" /\ a.firing = ctx[c].firing
      BY DEF CtxT
<1> HIDE DEF a
<1>4. b \in CtxT /\ b.life = "draining" /\ b.firing = ctx[c].firing
  <2>1. <<>> \in Seq(Reqs)
        OBVIOUS
  <2> QED  BY <1>3, <2>1, QueueField, LifeKept
<1> HIDE DEF b
<1>5. d \in CtxT /\ d.life = "draining" /\ d.firing = ctx[c].firing
      BY <1>2, <1>4, BudgetFacts, LifeKept
<1> HIDE DEF d
<1>6. e.life = "draining" /\ e.firing = ctx[c].firing
  <2>1. e.life = d.life /\ e.firing = d.firing
        BY ONLY <1>5, LifeKept
  <2> QED  BY ONLY <1>5, <2>1
<1> HIDE DEF e
<1> QED  BY <1>1, <1>6

(* A turn that is not on top of its stack is below. *)
LEMMA HereBelow ==
    ASSUME StacksTyped, NEW t \in Threads, stack[t] # <<>>, Top(t).pc \notin TurnPcs, NEW c, RunningHere(t, c)
    PROVE  \E k \in 2..Len(stack[t]) : stack[t][k].pc \in TurnPcs /\ stack[t][k].ctx = c
<1>1. PICK i \in DOMAIN stack[t] : stack[t][i].pc \in TurnPcs /\ stack[t][i].ctx = c
      BY DEF RunningHere, Turns
<1>2. stack[t] \in Seq(FrameSet) /\ Len(stack[t]) \in Nat /\ DOMAIN stack[t] = 1..Len(stack[t])
      BY LenProperties DEF StacksTyped
<1>3. Top(t) = stack[t][1]
      BY <1>2 DEF Top
<1>4. i \in 1..Len(stack[t]) /\ i # 1
      BY <1>1, <1>2, <1>3
<1>5. i \in 2..Len(stack[t])
      BY <1>2, <1>4
<1> QED  BY <1>1, <1>5

LEMMA CloseGateDeletion ==
    ASSUME RInv, LInv, NEW t \in Threads, CloseGate(t)
    PROVE  LInv'
<1>0. Tracks /\ StacksTyped /\ busy \in Nat /\ ctx \in [Contexts -> CtxT]
      BY InvTracks, BusyNat DEF RInv, Typed
<1> PICK c : c = Top(t).ctx
    OBVIOUS
<1> DEFINE x == Discard(c)  z == CloseIfDrained(x)
<1>1. /\ At(t, "closeGate") /\ ctx' = [ctx EXCEPT ![c] = z] /\ busy' = busy /\ armed' = armed /\ latch' = latch
      /\ \E q \in {"free", "finishWith", "await"} :
             /\ Goto(t, <<EndBusy, Frame(q, c, None)>>) /\ (q = "free" <=> Drained(x))
             /\ q = "finishWith" => RunningHere(t, c)
      BY DEF CloseGate, timerVars, atomics
<1>2. stack[t] # <<>> /\ Top(t).pc = "closeGate" /\ c \in Contexts
      BY <1>0, <1>1, AtTop DEF Fit
<1>3. ctx[c] \in CtxT /\ ctx[c].queue \in Seq(Reqs) /\ Deletion(c)
      BY <1>0, <1>2 DEF CtxT, LInv
<1>4. Cardinality(ExternalPlaces(c)) \in Nat
  <2>1. Len(ctx[c].queue) \in Nat
        BY <1>3
  <2>2. 1 \in Int /\ Len(ctx[c].queue) \in Int
        BY <2>1
  <2>3. IsFiniteSet(1..Len(ctx[c].queue))
        BY <2>2, FS_Interval
  <2>4. ExternalPlaces(c) \subseteq 1..Len(ctx[c].queue)
        BY DEF ExternalPlaces
  <2> QED  BY <2>3, <2>4, FS_Subset, FS_CardinalityType
<1>5. x \in CtxT /\ x.life = "draining" /\ x.firing = ctx[c].firing
      BY <1>3, <1>4, DiscardFacts, DiscardLife
<1>6. PICK q \in {"free", "finishWith", "await"} :
          /\ Goto(t, <<EndBusy, Frame(q, c, None)>>) /\ (q = "free" <=> Drained(x))
          /\ q = "finishWith" => RunningHere(t, c)
      BY <1>1
<1> HIDE DEF x
<1>7. /\ z.firing = ctx[c].firing /\ (z.life = "closed" => Done(z))
      /\ z.life = IF q = "free" THEN "closed" ELSE "draining"
      BY <1>5, <1>6, ClosedFacts
<1> HIDE DEF z
<1>8. ctx'[c] = z /\ \A d \in Contexts : d # c => ctx'[d] = ctx[d]
      BY <1>0, <1>1, <1>2
<1> DEFINE e == Frame(q, c, None)
<1>9. e \in FrameSet /\ e.pc = q /\ e.ctx = c /\ Goto(t, <<EndBusy, e>>)
      BY <1>2, <1>6, CtxFrame DEF OnCtxPcs
<1> HIDE DEF e
<1>10. Passes(Top(t), EndBusy, e)
  <2>1. e.pc \in WithinPcs => \E i \in 2..Len(stack[t]) : stack[t][i].pc \in TurnPcs /\ stack[t][i].ctx = e.ctx
    <3>1. Top(t).pc \notin TurnPcs
          BY <1>2 DEF TurnPcs
    <3>2. e.pc \in WithinPcs => RunningHere(t, c)
          BY <1>6, <1>9 DEF WithinPcs
    <3> QED  BY <1>0, <1>2, <1>9, <3>1, <3>2, HereBelow
  <2> QED  BY <1>0, <1>2, <1>9, <2>1, EndBusyFrame, PassesGoto2
<1>11. \A g \in {Top(t), EndBusy, e} : g.pc \notin FirePcs /\ (g.pc \in DelPcs \union {"hook"} => g.ctx = c)
      BY <1>2, <1>6, <1>9, EndBusyFrame DEF FirePcs, DelPcs, EarlyPcs, LitPcs
<1>12. busy' = ((busy - One(Top(t).pc \in BusyPcs)) + One(EndBusy.pc \in BusyPcs)) + One(e.pc \in BusyPcs)
  <2>1. One(Top(t).pc \in BusyPcs) = 1 /\ One(e.pc \in BusyPcs) = 0
        BY <1>2, <1>6, <1>9 DEF One, BusyPcs, TurnPcs, UserPcs
  <2> QED  BY <1>0, <1>1, <2>1, EndBusyFrame
<1> DEFINE k == Count(Of({"cancel"}, c))  l == Count(Of({"closeBegin", "closeGate"}, c))
           f == Count(Of({"finishWith"}, c))  w == Count(Of({"await"}, c))  r == Count(Of({"free"}, c))
           h == Count(Of({"hook"}, c))
<1>13. k \in Nat /\ l \in Nat /\ f \in Nat /\ w \in Nat /\ r \in Nat /\ h \in Nat
      BY CountsOf DEF LInv
<1>14. Phase(latch[c], ctx[c].life, k, l, f, w, r, h)
      BY <1>3 DEF Deletion, LatchSound
<1>15. l # 0
  <2>1. {"closeBegin", "closeGate"} \subseteq LitPcs
        BY DEF LitPcs, DelPcs, EarlyPcs
  <2> QED  BY <1>2, <2>1, TopCounted
<1>16. /\ k' = ((k - 0) + 0) + 0 /\ l' = ((l - 1) + 0) + 0 /\ f' = ((f - 0) + 0) + One(q = "finishWith")
       /\ w' = ((w - 0) + 0) + One(q = "await") /\ r' = ((r - 0) + 0) + One(q = "free") /\ h' = ((h - 0) + 0) + 0
  <2>1. /\ k' = ((k - One("closeGate" = "cancel")) + One("endBusy" = "cancel")) + One(q = "cancel")
        /\ l' = ((l - One("closeGate" \in {"closeBegin", "closeGate"})) + One("endBusy" \in {"closeBegin", "closeGate"}))
                    + One(q \in {"closeBegin", "closeGate"})
        /\ f' = ((f - One("closeGate" = "finishWith")) + One("endBusy" = "finishWith")) + One(q = "finishWith")
        /\ w' = ((w - One("closeGate" = "await")) + One("endBusy" = "await")) + One(q = "await")
        /\ r' = ((r - One("closeGate" = "free")) + One("endBusy" = "free")) + One(q = "free")
        /\ h' = ((h - One("closeGate" = "hook")) + One("endBusy" = "hook")) + One(q = "hook")
        BY <1>2, <1>9, <1>10, <1>11, EndBusyFrame, NewCounts
  <2>2. /\ One("closeGate" = "cancel") = 0 /\ One("closeGate" \in {"closeBegin", "closeGate"}) = 1
        /\ One("closeGate" = "finishWith") = 0 /\ One("closeGate" = "await") = 0 /\ One("closeGate" = "free") = 0
        /\ One("closeGate" = "hook") = 0 /\ One("endBusy" = "cancel") = 0
        /\ One("endBusy" \in {"closeBegin", "closeGate"}) = 0 /\ One("endBusy" = "finishWith") = 0
        /\ One("endBusy" = "await") = 0 /\ One("endBusy" = "free") = 0 /\ One("endBusy" = "hook") = 0
        BY DEF One
  <2>3. One(q = "cancel") = 0 /\ One(q \in {"closeBegin", "closeGate"}) = 0 /\ One(q = "hook") = 0
        BY <1>6 DEF One
  <2> HIDE DEF k, l, f, w, r, h
  <2> QED  BY <2>1, <2>2, <2>3
<1>17. LatchSound(c)' <=> Phase(latch'[c], ctx'[c].life, k', l', f', w', r', h')
      BY DEF LatchSound
<1> HIDE DEF k, l, f, w, r, h
<1>18. latch[c] = "stopping" /\ k = 0 /\ l = 1 /\ f = 0 /\ w = 0 /\ r = 0 /\ h = 0
      BY <1>13, <1>14, <1>15 DEF Phase
<1>19. LatchSound(c)'
  <2>1. k' = 0 /\ l' = 0 /\ h' = 0 /\ f' = One(q = "finishWith") /\ w' = One(q = "await") /\ r' = One(q = "free")
        BY <1>16, <1>18 DEF One
  <2>2. latch'[c] = "stopping" /\ ctx'[c].life = IF q = "free" THEN "closed" ELSE "draining"
        BY <1>1, <1>7, <1>8, <1>18
  <2>3. CASE q = "free"
        BY <1>17, <2>1, <2>2, <2>3 DEF Phase, One
  <2>4. CASE q = "finishWith"
        BY <1>17, <2>1, <2>2, <2>4 DEF Phase, One
  <2>5. CASE q = "await"
        BY <1>17, <2>1, <2>2, <2>5 DEF Phase, One
  <2> QED  BY <1>6, <2>3, <2>4, <2>5
<1>20. armed' \subseteq armed /\ \A tm \in armed' : Home[tm] \in Contexts /\ Home[tm] # c
  <2>1. \A tm \in armed : latch[Home[tm]] = "open" \/ Count(Of({"cancel"}, Home[tm])) # 0
        BY DEF LInv, ArmedSound
  <2> QED  BY <1>1, <1>18, <2>1, ArmedHome DEF k
<1>21. ctx'[c].firing = ctx[c].firing /\ (ctx'[c].life = "closed" => Done(ctx'[c]))
      BY <1>7, <1>8
<1> QED  BY <1>1, <1>2, <1>8, <1>10, <1>11, <1>12, <1>19, <1>20, <1>21, OwnStep

-----------------------------------------------------------------------------
(* The invariant of deletion holds. *)

(* A latch moves among its five values. *)
LEMMA LatchKept ==
    ASSUME LatchTyped, NEW t \in Threads, Start(t) \/ Continue(t)
    PROVE  LatchTyped'
<1>1. CASE latch' = latch
      BY <1>1 DEF LatchTyped
<1>2. ASSUME NEW c, NEW la \in {"open", "stopping", "rest", "closed", "freed"}, latch' = [latch EXCEPT ![c] = la]
      PROVE  LatchTyped'
      BY <1>2 DEF LatchTyped
<1>3. CASE Start(t)
  <2>1. CASE TryRetainOwner(t) \/ ReleaseOwner(t) \/ PrepareWait(t)
        BY <1>1, <2>1 DEF TryRetainOwner, ReleaseOwner, PrepareWait
  <2>2. ASSUME NEW frames, Begin(t, frames) PROVE LatchTyped'
        BY <1>1, <2>2 DEF Begin
  <2>3. CASE Serve(t) \/ Drive(t) \/ Help(t)
        BY <2>2, <2>3 DEF Serve, Drive, Help
  <2>4. CASE \E c \in Contexts, r \in Plain : Submit(t, c, r)
        BY <2>2, <2>4 DEF Submit
  <2>5. CASE \E r \in Plain : SubmitInternal(t, r)
        BY <2>2, <2>5 DEF SubmitInternal
  <2>6. CASE \E r \in Plain : \E gen \in 1..req[r].gen : WakeRequest(t, r, gen)
        BY <2>2, <2>6 DEF WakeRequest
  <2>7. CASE \E tm \in Timers, noLater \in BOOLEAN : ArmTimer(t, tm, noLater)
        BY <1>1, <2>7 DEF ArmTimer
  <2>8. CASE \E tm \in Timers : CancelTimer(t, tm)
        BY <1>1, <2>8 DEF CancelTimer
  <2>9. CASE \E c \in Deletes : Delete(t, c)
        BY <1>2, <2>9 DEF Delete
  <2> QED  BY <1>3, <2>1, <2>3, <2>4, <2>5, <2>6, <2>7, <2>8, <2>9 DEF Start
<1>4. CASE Continue(t)
  <2>1. CASE Shutdown(t)
        BY <1>1, <2>1 DEF Shutdown, EndBusyStep, StopState, StopBusy, StopWaiting, StopGate, Retire, DriveEnds, ServeIdle,
                          ServeCheck, FireNoMore
  <2>2. CASE SubmitState(t) \/ CancelAll(t) \/ CloseBegin(t) \/ Await(t) \/ CloseGate(t)
        BY <1>1, <2>2 DEF SubmitState, CancelAll, CloseBegin, Await, CloseGate
  <2>3. CASE FinishWith(t)
        BY <1>2, <2>3 DEF FinishWith
  <2>4. CASE FreeContext(t)
        BY <1>2, <2>4 DEF FreeContext
  <2>5. CASE OnClosed(t)
        BY <1>2, <2>5 DEF OnClosed
  <2>6. CASE SubmitQueues(t) \/ InternalGate(t) \/ SubmitInline(t) \/ WakeGate(t)
        BY <1>1, <2>6 DEF SubmitQueues, InternalGate, SubmitInline, WakeGate
  <2>7. CASE RunNext(t)
        BY <1>1, <2>7 DEF RunNext, Begin
  <2>8. CASE TakeReady(t) \/ Claim(t)
        BY <1>1, <2>8 DEF TakeReady, Claim
  <2>9. CASE FinishDone(t) \/ FinishYield(t) \/ FinishWait(t)
        BY <1>1, <2>9 DEF FinishDone, FinishYield, FinishWait, Release
  <2>10. CASE Fire(t) \/ FireSubmit(t) \/ EndFire(t)
        BY <1>1, <2>10 DEF Fire, FireSubmit, EndFire
  <2>11. CASE TimerRun(t) \/ CallbackReturns(t) \/ TimerEnd(t)
        BY <1>1, <2>11 DEF TimerRun, CallbackReturns, TimerEnd
  <2> QED  BY <1>4, <2>1, <2>2, <2>3, <2>4, <2>5, <2>6, <2>7, <2>8, <2>9, <2>10, <2>11 DEF Continue, Shutdown
<1> QED  BY <1>3, <1>4

(* At first no thread is in a call that is counted. *)
LEMMA InitDeletion == Init => LInv /\ LatchTyped
<1> SUFFICES ASSUME Init PROVE LInv /\ LatchTyped
    OBVIOUS
<1>1. StacksTyped /\ LatchTyped /\ armed = {} /\ busy = 0
      BY InitInvariant DEF RInv, Typed, Init, LatchTyped
<1>2. \A u \in Threads : \A i \in 1..Len(stack[u]) : stack[u][i].pc = "serve"
  <2> DEFINE f == Frame("serve", None, None)
  <2>1. f.pc = "serve" /\ \A u \in Threads : stack[u] = <<f>> \/ stack[u] = <<>>
        BY DEF Init, Frame
  <2> HIDE DEF f
  <2> QED  BY <2>1
<1>3. ~Held(Tracked) /\ Within
      BY <1>2 DEF Held, Tracked, Within, WithinPcs, BusyPcs, LitPcs, DelPcs, EarlyPcs, FirePcs, TurnPcs, UserPcs
<1>4. Places(Tracked) = {}
  <2> SUFFICES ASSUME NEW p \in Places(Tracked) PROVE FALSE
      OBVIOUS
  <2>1. PICK u \in Threads, k \in Nat : k < Len(stack[u]) /\ stack[u][Len(stack[u]) - k] \in Tracked
        BY PlaceIn
  <2>2. Len(stack[u]) \in Nat
        BY <1>1, LenProperties DEF StacksTyped
  <2>3. Len(stack[u]) - k \in 1..Len(stack[u])
        BY <2>1, <2>2
  <2> QED  BY <1>3, <2>1, <2>3 DEF Held
<1>5. Finite
      BY <1>4, FS_EmptySet DEF Finite
<1>6. ASSUME NEW S, S \subseteq Tracked PROVE Count(S) = 0
  <2>1. ~Held(S)
        BY <1>3, <1>6 DEF Held
  <2> QED  BY <1>1, <1>5, <1>6, <2>1, CountHeld
<1>7. busy = Count(BusyFrames)
      BY <1>1, <1>6 DEF BusyFrames, Tracked
<1>8. ASSUME NEW c \in Contexts, NEW pcs, pcs \subseteq LitPcs PROVE Count(Of(pcs, c)) = 0
      BY <1>6, <1>8, OfTracked
<1>9. /\ {"cancel"} \subseteq LitPcs /\ {"closeBegin", "closeGate"} \subseteq LitPcs /\ {"finishWith"} \subseteq LitPcs
      /\ {"await"} \subseteq LitPcs /\ {"free"} \subseteq LitPcs /\ {"hook"} \subseteq LitPcs /\ FirePcs \subseteq LitPcs
      BY DEF LitPcs, DelPcs, EarlyPcs, FirePcs
<1>10. ASSUME NEW c \in Contexts PROVE Deletion(c)
  <2>1. latch[c] = "open" /\ ctx[c].life = "open" /\ ctx[c].firing = 0
        BY DEF Init
  <2>2. /\ Count(Of({"cancel"}, c)) = 0 /\ Count(Of({"closeBegin", "closeGate"}, c)) = 0
        /\ Count(Of({"finishWith"}, c)) = 0 /\ Count(Of({"await"}, c)) = 0 /\ Count(Of({"free"}, c)) = 0
        /\ Count(Of({"hook"}, c)) = 0 /\ Count(Of(FirePcs, c)) = 0
        BY <1>8, <1>9
  <2>3. Phase("open", "open", 0, 0, 0, 0, 0, 0)
        BY DEF Phase
  <2> QED  BY <2>1, <2>2, <2>3 DEF Deletion, LatchSound
<1>11. ArmedSound
      BY <1>1 DEF ArmedSound
<1> QED  BY <1>1, <1>3, <1>5, <1>7, <1>10, <1>11 DEF LInv

LEMMA StutterDeletion ==
    ASSUME RInv, LInv, LatchTyped, UNCHANGED vars
    PROVE  LInv' /\ LatchTyped'
<1>1. stack' = stack /\ busy' = busy /\ ctx' = ctx /\ latch' = latch /\ armed' = armed
      BY DEF vars, schedVars, timerVars, atomics
<1>2. Steady
      BY <1>1, UnchangedSteady
<1> QED  BY <1>1, <1>2, CalmSame DEF LatchTyped

LEMMA NextDeletion ==
    ASSUME RInv, LInv, LatchTyped, NEW t \in Threads, Start(t) \/ Continue(t)
    PROVE  LInv'
<1>1. CASE Start(t)
  <2>1. CASE PrepareWait(t)
        BY <2>1, TurnDeletion
  <2>2. CASE \E tm \in Timers, noLater \in BOOLEAN : ArmTimer(t, tm, noLater)
        BY <2>2, ArmDeletion
  <2>3. CASE \E c \in Deletes : Delete(t, c)
        BY <2>3, DeleteDeletion, RuntimeAssumption
  <2>4. CASE TryRetainOwner(t) \/ ReleaseOwner(t) \/ Serve(t) \/ Drive(t) \/ Help(t)
        BY <2>4, StartDeletion
  <2>5. CASE \E c \in Contexts, r \in Plain : Submit(t, c, r)
        BY <2>5, StartDeletion
  <2>6. CASE \E r \in Plain : SubmitInternal(t, r)
        BY <2>6, StartDeletion
  <2>7. CASE \E r \in Plain : \E gen \in 1..req[r].gen : WakeRequest(t, r, gen)
        BY <2>7, StartDeletion
  <2>8. CASE \E tm \in Timers : CancelTimer(t, tm)
        BY <2>8, StartDeletion
  <2> QED  BY <1>1, <2>1, <2>2, <2>3, <2>4, <2>5, <2>6, <2>7, <2>8 DEF Start
<1>2. CASE Continue(t)
  <2>1. CASE Shutdown(t)
        BY <2>1, ShutdownDeletion
  <2>2. CASE CancelAll(t) \/ CloseBegin(t) \/ FinishWith(t) \/ Await(t) \/ FreeContext(t) \/ OnClosed(t)
        BY <2>2, ClosingDeletion
  <2>3. CASE SubmitState(t) \/ SubmitQueues(t) \/ InternalGate(t)
        BY <2>3, SubmitDeletion
  <2>4. CASE SubmitInline(t)
        BY <2>4, InlineDeletion
  <2>5. CASE WakeGate(t)
        BY <2>5, WakeDeletion
  <2>6. CASE RunNext(t)
        BY <2>6, StartDeletion
  <2>7. CASE TakeReady(t)
        BY <2>7, TakeDeletion
  <2>8. CASE Claim(t)
        BY <2>8, ClaimNoneDeletion, ClaimTurnDeletion
  <2>9. CASE FinishDone(t) \/ FinishYield(t) \/ FinishWait(t)
        BY <2>9, FinishDeletion
  <2>10. CASE Fire(t)
        BY <2>10, FireDeletion
  <2>11. CASE FireSubmit(t)
        BY <2>11, FireSubmitDeletion
  <2>12. CASE EndFire(t)
        BY <2>12, EndFireDeletion
  <2>13. CASE TimerRun(t) \/ CallbackReturns(t) \/ TimerEnd(t)
        BY <2>13, TurnDeletion
  <2>14. CASE CloseGate(t)
        BY <2>14, CloseGateDeletion
  <2> QED  BY <1>2, <2>1, <2>2, <2>3, <2>4, <2>5, <2>6, <2>7, <2>8, <2>9, <2>10, <2>11, <2>12, <2>13, <2>14
           DEF Continue, Shutdown
<1> QED  BY <1>1, <1>2

LEMMA DeletionInvariant == Spec => [](RInv /\ LInv /\ LatchTyped)
<1>1. RInv /\ LInv /\ LatchTyped /\ [Next]_vars => (RInv /\ LInv /\ LatchTyped)'
  <2> SUFFICES ASSUME RInv, LInv, LatchTyped, [Next]_vars PROVE (RInv /\ LInv /\ LatchTyped)'
      OBVIOUS
  <2>1. CASE UNCHANGED vars
        BY <2>1, StutterInvariant, StutterDeletion
  <2>2. CASE Next
    <3>1. RInv'
          BY <2>2, NextInvariant
    <3>2. PICK t \in Threads : Start(t) \/ Continue(t)
          BY <2>2 DEF Next
    <3> QED  BY <3>1, <3>2, NextDeletion, LatchKept
  <2> QED  BY <2>1, <2>2
<1>2. Init => RInv /\ LInv /\ LatchTyped
      BY InitInvariant, InitDeletion
<1> QED  BY <1>1, <1>2, PTL DEF Spec

(* Once its owner has freed a context, no claim, turn, fire or hook for it   *)
(* is on any thread's way, it is in no queue and none of its timers is      *)
(* armed: whatever closeDiscarding, closeIfDrainedLocked, the CloseLatch    *)
(* and fireDueTimers (core.zig, timer.zig) do at once, the context is freed *)
(* only when the runtime is through with it.                                *)
THEOREM FreedContextsAreUntouched == Spec => []FreedUntouched
<1>1. RInv /\ LInv => FreedUntouched
  <2> SUFFICES ASSUME RInv, LInv, NEW c \in Contexts, latch[c] = "freed"
               PROVE  Holders(c, ContextPcs) = {} /\ ~Linked(c) /\ \A tm \in armed : Home[tm] # c
      BY DEF FreedUntouched
  <2>1. StacksTyped /\ Finite /\ Within /\ ContextSound(c) /\ Deletion(c) /\ ArmedSound
        BY DEF RInv, Typed, ContextsSound, LInv
  <2> DEFINE k == Count(Of({"cancel"}, c))  l == Count(Of({"closeBegin", "closeGate"}, c))
             f == Count(Of({"finishWith"}, c))  w == Count(Of({"await"}, c))  r == Count(Of({"free"}, c))
             h == Count(Of({"hook"}, c))
  <2>2. k \in Nat /\ l \in Nat /\ f \in Nat /\ w \in Nat /\ r \in Nat /\ h \in Nat
        BY <2>1, CountsOf
  <2>3. Phase("freed", ctx[c].life, k, l, f, w, r, h)
        BY <2>1 DEF Deletion, LatchSound
  <2>4. ctx[c].life = "closed" /\ k = 0 /\ l = 0 /\ h = 0
    <3> HIDE DEF k, l, f, w, r, h
    <3> QED  BY <2>2, <2>3 DEF Phase
  <2>5. ctx[c].exec = "idle" /\ Count(Of(FirePcs, c)) = 0
        BY <2>1, <2>4 DEF Deletion, Done
  <2>6. ~Held(TurnOf(c)) /\ ~Held(ClaimOf(c)) /\ ~Linked(c)
        BY <2>1, <2>5 DEF ContextSound
  <2>7. ~Held(Of({"closeBegin", "closeGate"}, c)) /\ ~Held(Of({"hook"}, c)) /\ ~Held(Of(FirePcs, c))
    <3>1. {"closeBegin", "closeGate"} \subseteq LitPcs /\ {"hook"} \subseteq LitPcs /\ FirePcs \subseteq LitPcs
          BY DEF LitPcs, DelPcs, EarlyPcs, FirePcs
    <3>2. Of({"closeBegin", "closeGate"}, c) \subseteq Tracked /\ Of({"hook"}, c) \subseteq Tracked /\ Of(FirePcs, c) \subseteq Tracked
          BY <3>1, OfTracked
    <3> QED  BY <2>1, <2>4, <2>5, <3>2, CountHeld
  <2>8. ASSUME NEW u \in Threads, NEW i \in 1..Len(stack[u]), stack[u][i].ctx = c, stack[u][i].pc \in ContextPcs
        PROVE  FALSE
    <3>1. \A j \in 1..Len(stack[u]) : stack[u][j] \in FrameSet
          BY <2>1, SeqFacts DEF StacksTyped
    <3>2. \A j \in 1..Len(stack[u]) : ~(stack[u][j].pc \in TurnPcs /\ stack[u][j].ctx = c)
          BY <2>6, <3>1 DEF Held, TurnOf
    <3>3. stack[u][i].pc # "claim"
          BY <2>6, <2>8, <3>1 DEF Held, ClaimOf
    <3>4. stack[u][i].pc \notin FirePcs \union {"closeGate", "hook"}
          BY <2>7, <2>8, <3>1 DEF Held, Of
    <3>5. stack[u][i].pc # "internalGate"
      <4>1. SUFFICES ASSUME stack[u][i].pc = "internalGate" PROVE FALSE
            OBVIOUS
      <4>2. PICK j \in (i + 1)..Len(stack[u]) : stack[u][j].pc \in TurnPcs /\ stack[u][j].ctx = stack[u][i].ctx
            BY <2>1, <4>1 DEF Within, WithinPcs
      <4>3. Len(stack[u]) \in Nat
            BY <2>1, LenProperties DEF StacksTyped
      <4>4. j \in 1..Len(stack[u])
            BY <4>3
      <4> QED  BY <2>8, <3>2, <4>2, <4>4
    <3> QED  BY <2>8, <3>2, <3>3, <3>4, <3>5 DEF ContextPcs, FirePcs
  <2>9. Holders(c, ContextPcs) = {}
    <3>1. \A u \in Threads : DOMAIN stack[u] = 1..Len(stack[u])
          BY <2>1, SeqFacts DEF StacksTyped
    <3> QED  BY <2>8, <3>1 DEF Holders
  <2>10. \A tm \in armed : Home[tm] # c
        BY <2>1, <2>4 DEF ArmedSound
  <2> QED  BY <2>6, <2>9, <2>10
<1> QED  BY <1>1, DeletionInvariant, PTL

-----------------------------------------------------------------------------
(* Type correctness, and that no context has more external requests than    *)
(* its limit.                                                               *)

TimerT == [gen : Nat, fireGen : Nat, firePending : BOOLEAN]

Scalars ==
    /\ timer \in [Timers -> TimerT] /\ owners \in Nat
    /\ state \in {"running", "retiring", "backend_stopped"} /\ stimuli \in 0..MaxStimuli

LEMMA DisarmTyped ==
    ASSUME timer \in [Timers -> TimerT], NEW tms
    PROVE  Disarm(tms) \in [Timers -> TimerT]
<1>1. ASSUME NEW tm \in Timers PROVE (IF tm \in tms THEN [timer[tm] EXCEPT !.gen = @ + 1] ELSE timer[tm]) \in TimerT
      BY DEF TimerT
<1> QED  BY <1>1 DEF Disarm

LEMMA StimulateTyped ==
    ASSUME stimuli \in 0..MaxStimuli, Stimulate
    PROVE  stimuli' \in 0..MaxStimuli
BY RuntimeAssumption DEF Stimulate

LEMMA ScalarsKept ==
    ASSUME RInv, Scalars, NEW t \in Threads, Start(t) \/ Continue(t)
    PROVE  Scalars'
<1>0. StacksTyped /\ armed \subseteq Timers
      BY DEF RInv, Typed
<1>1. ASSUME timer' = timer \/ \E tms : timer' = Disarm(tms), owners' \in Nat, state' = state,
             stimuli' = stimuli \/ Stimulate
      PROVE  Scalars'
      BY <1>1, DisarmTyped, StimulateTyped DEF Scalars
<1>2. owners \in Nat
      BY DEF Scalars
<1>3. CASE Start(t)
  <2>1. CASE TryRetainOwner(t)
        BY <1>1, <1>2, <2>1 DEF TryRetainOwner, timerVars
  <2>2. CASE ReleaseOwner(t)
    <3>1. owners' \in Nat /\ timer' = timer /\ state' = state /\ stimuli' = stimuli
          BY <1>2, <2>2 DEF ReleaseOwner, timerVars
    <3> QED  BY <1>1, <3>1
  <2>3. CASE PrepareWait(t)
        BY <1>1, <1>2, <2>3 DEF PrepareWait, timerVars, atomics
  <2>4. ASSUME NEW frames, Begin(t, frames), stimuli' = stimuli \/ Stimulate PROVE Scalars'
        BY <1>1, <1>2, <2>4 DEF Begin, timerVars
  <2>5. CASE Serve(t) \/ Drive(t) \/ Help(t)
        BY <2>4, <2>5 DEF Serve, Drive, Help
  <2>6. CASE \E c \in Contexts, r \in Plain : Submit(t, c, r)
        BY <2>4, <2>6 DEF Submit
  <2>7. CASE \E r \in Plain : SubmitInternal(t, r)
        BY <2>4, <2>7 DEF SubmitInternal
  <2>8. CASE \E r \in Plain : \E gen \in 1..req[r].gen : WakeRequest(t, r, gen)
        BY <2>4, <2>8 DEF WakeRequest
  <2>9. CASE \E tm \in Timers, noLater \in BOOLEAN : ArmTimer(t, tm, noLater)
        BY <1>1, <1>2, <2>9 DEF ArmTimer, atomics
  <2>10. CASE \E tm \in Timers : CancelTimer(t, tm)
        BY <1>1, <1>2, <2>10 DEF CancelTimer, atomics
  <2>11. CASE \E c \in Deletes : Delete(t, c)
        BY <1>1, <1>2, <2>11 DEF Delete, timerVars, atomics
  <2> QED  BY <1>3, <2>1, <2>2, <2>3, <2>5, <2>6, <2>7, <2>8, <2>9, <2>10, <2>11 DEF Start
<1>4. CASE Continue(t)
  <2>1. CASE EndBusyStep(t) \/ StopState(t) \/ StopBusy(t) \/ StopWaiting(t) \/ DriveEnds(t) \/ ServeIdle(t)
             \/ ServeCheck(t) \/ FireNoMore(t)
        BY <1>1, <1>2, <2>1 DEF EndBusyStep, StopState, StopBusy, StopWaiting, DriveEnds, ServeIdle, ServeCheck, FireNoMore,
                                timerVars, atomics
  <2>2. CASE StopGate(t)
    <3>1. timer' = timer /\ owners' = owners /\ stimuli' = stimuli /\ state' \in {state, "backend_stopped"}
          BY <2>2 DEF StopGate, timerVars
    <3> QED  BY <3>1 DEF Scalars
  <2>3. CASE Retire(t)
    <3>1. timer' = Disarm(armed) /\ owners' = owners /\ stimuli' = stimuli /\ state' = "retiring"
          BY <2>3 DEF Retire
    <3> QED  BY <3>1, DisarmTyped DEF Scalars
  <2>4. CASE SubmitState(t) \/ CloseBegin(t) \/ Await(t) \/ CloseGate(t) \/ FinishWith(t) \/ FreeContext(t) \/ OnClosed(t)
        BY <1>1, <1>2, <2>4 DEF SubmitState, CloseBegin, Await, CloseGate, FinishWith, FreeContext, OnClosed, timerVars, atomics
  <2>5. CASE CancelAll(t)
        BY <1>1, <1>2, <2>5 DEF CancelAll, atomics
  <2>6. CASE SubmitQueues(t) \/ InternalGate(t) \/ SubmitInline(t) \/ WakeGate(t)
        BY <1>1, <1>2, <2>6 DEF SubmitQueues, InternalGate, SubmitInline, WakeGate, timerVars, atomics
  <2>7. CASE RunNext(t)
        BY <1>1, <1>2, <2>7 DEF RunNext, Begin, timerVars
  <2>8. CASE TakeReady(t) \/ Claim(t)
        BY <1>1, <1>2, <2>8 DEF TakeReady, Claim, timerVars, atomics
  <2>9. CASE FinishDone(t) \/ FinishYield(t) \/ FinishWait(t)
        BY <1>1, <1>2, <2>9 DEF FinishDone, FinishYield, FinishWait, Release, timerVars
  <2>10. CASE EndFire(t) \/ CallbackReturns(t) \/ TimerEnd(t)
        BY <1>1, <1>2, <2>10 DEF EndFire, CallbackReturns, TimerEnd, timerVars, atomics
  <2>11. CASE Fire(t)
    <3>1. PICK tm \in armed : timer' = [timer EXCEPT ![tm].fireGen = timer[tm].gen, ![tm].firePending = TRUE]
          BY <2>11 DEF Fire
    <3>2. timer' \in [Timers -> TimerT]
      <4>1. timer \in [Timers -> TimerT] /\ tm \in Timers
            BY <1>0, <3>1 DEF Scalars
      <4> QED  BY <3>1, <4>1 DEF TimerT
    <3>3. owners' = owners /\ state' = state /\ stimuli' = stimuli
          BY <2>11 DEF Fire, atomics
    <3> QED  BY <3>2, <3>3 DEF Scalars
  <2>12. ASSUME NEW tm, NEW b \in BOOLEAN, timer' = [timer EXCEPT ![tm].firePending = b],
                owners' = owners, state' = state, stimuli' = stimuli
         PROVE  Scalars'
    <3>1. timer' \in [Timers -> TimerT]
      <4>1. timer \in [Timers -> TimerT]
            BY DEF Scalars
      <4> QED  BY <2>12, <4>1 DEF TimerT
    <3> QED  BY <2>12, <3>1 DEF Scalars
  <2>13. CASE FireSubmit(t)
    <3>1. PICK r : r = Top(t).req
          OBVIOUS
    <3>2. r \in Timers
          BY <1>0, <2>13, <3>1, AtTop DEF FireSubmit, Fit
    <3>3. PICK b \in BOOLEAN : b <=> (timer[r].firePending /\ ~(ctx[Top(t).ctx].life = "closed"))
          OBVIOUS
    <3>4. timer' = [timer EXCEPT ![r].firePending = b]
      <4>1. timer[r].firePending \in BOOLEAN
            BY <3>2 DEF Scalars, TimerT
      <4>2. b = (timer[r].firePending /\ ~(ctx[Top(t).ctx].life = "closed"))
            BY <3>3, <4>1
      <4> QED  BY <2>13, <3>1, <4>2 DEF FireSubmit
    <3> QED  BY <2>12, <2>13, <3>2, <3>4 DEF FireSubmit, atomics
  <2>14. CASE TimerRun(t)
        BY <2>12, <2>14 DEF TimerRun, atomics
  <2> QED  BY <1>4, <2>1, <2>2, <2>3, <2>4, <2>5, <2>6, <2>7, <2>8, <2>9, <2>10, <2>11, <2>13, <2>14 DEF Continue
<1> QED  BY <1>3, <1>4

-----------------------------------------------------------------------------
(* The credit of a context. *)
InLimit == \A c \in Contexts : ctx[c].pending <= PendingLimit

LEMMA InLimitKept ==
    ASSUME RInv, InLimit, NEW c \in Contexts, NEW y, ctx' = [ctx EXCEPT ![c] = y],
           y.pending <= ctx[c].pending \/ y.pending <= PendingLimit, y.pending \in Int
    PROVE  InLimit'
<1>1. ctx \in [Contexts -> CtxT] /\ PendingLimit \in Nat
      BY RuntimeAssumption DEF RInv, Typed
<1>2. ctx'[c] = y /\ \A d \in Contexts : d # c => ctx'[d] = ctx[d]
      BY <1>1
<1>3. ctx[c].pending \in Int /\ ctx[c].pending <= PendingLimit
      BY <1>1 DEF CtxT, InLimit
<1>4. y.pending <= PendingLimit
      BY <1>1, <1>3
<1> QED  BY <1>2, <1>4 DEF InLimit

LEMMA AdmitInLimit ==
    ASSUME RInv, InLimit, NEW c \in Contexts, NEW r \in Reqs, NEW internal \in BOOLEAN, Admit(c, r, internal),
           internal \/ ctx[c].pending < PendingLimit
    PROVE  InLimit'
<1>1. ctx[c] \in CtxT /\ ctx[c].pending \in Int /\ PendingLimit \in Nat
      BY RuntimeAssumption DEF RInv, Typed, CtxT
<1>2. PICK k \in Int : k = ctx[c].pending + (IF internal THEN 0 ELSE 1)
      BY <1>1
<1> DEFINE a == [ctx[c] EXCEPT !.pending = k]  x == Queued(a, r)  y == Schedule(x)
<1>3. ctx' = [ctx EXCEPT ![c] = y]
      BY <1>2 DEF Admit
<1>4. a \in CtxT /\ a.pending = k
      BY <1>1, BudgetFacts
<1> HIDE DEF a
<1>5. x \in CtxT /\ x.pending = k
      BY <1>4, QueuedFacts
<1> HIDE DEF x
<1>6. y.pending = k
      BY <1>5, ScheduleFacts
<1> HIDE DEF y
<1>7. k <= ctx[c].pending \/ k <= PendingLimit
      BY <1>1, <1>2
<1> QED  BY <1>3, <1>6, <1>7, InLimitKept

LEMMA ReleaseInLimit ==
    ASSUME RInv, InLimit, NEW t \in Threads, Top(t).ctx \in Contexts, NEW x \in CtxT, NEW q, Release(t, x, q),
           x.pending <= ctx[Top(t).ctx].pending
    PROVE  InLimit'
<1> PICK c \in Contexts : c = Top(t).ctx
    OBVIOUS
<1> DEFINE y == [x EXCEPT !.exec = "idle"]  s == Schedule(y)  z == CloseIfDrained(s)
<1>1. ctx' = [ctx EXCEPT ![c] = z]
      BY DEF Release
<1>2. y \in CtxT /\ y.pending = x.pending
      BY ExecField
<1> HIDE DEF y
<1>3. s \in CtxT /\ s.pending = x.pending
      BY <1>2, ScheduleFacts
<1> HIDE DEF s
<1>4. z \in CtxT /\ z.pending = x.pending
      BY <1>3, CloseFacts
<1> HIDE DEF z
<1>5. x.pending \in Int
      BY DEF CtxT
<1> QED  BY <1>1, <1>4, <1>5, InLimitKept

LEMMA FinishInLimit ==
    ASSUME RInv, InLimit, NEW t \in Threads, FinishDone(t) \/ FinishYield(t) \/ FinishWait(t)
    PROVE  InLimit'
<1>0. StacksTyped /\ ctx \in [Contexts -> CtxT]
      BY DEF RInv, Typed
<1>1. Top(t).pc \in TurnPcs /\ Fit(Top(t))
      BY <1>0, AtTop DEF FinishDone, FinishYield, FinishWait, TurnPcs
<1>2. PICK c \in Contexts : c = Top(t).ctx
      BY <1>1 DEF Fit
<1>3. PICK r \in Reqs : r = Top(t).req
      BY <1>1 DEF Fit
<1>4. ctx[c] \in CtxT /\ ctx[c].pending \in Int /\ ctx[c].waiting \in Int
      BY <1>0 DEF CtxT
<1>5. CASE FinishDone(t)
  <2>1. PICK k \in Int : k = ctx[c].pending - (IF req[r].internal THEN 0 ELSE 1)
        BY <1>4
  <2>2. Release(t, [ctx[c] EXCEPT !.pending = k], [req[r] EXCEPT !.place = "done", !.wake = FALSE])
        BY <1>2, <1>3, <1>5, <2>1 DEF FinishDone
  <2>3. k <= ctx[c].pending
        BY <1>4, <2>1
  <2>4. [ctx[c] EXCEPT !.pending = k] \in CtxT /\ [ctx[c] EXCEPT !.pending = k].pending = k
        BY <1>4, BudgetFacts
  <2> QED  BY <1>2, <2>2, <2>3, <2>4, ReleaseInLimit
<1>6. ASSUME NEW q, Release(t, Queued(ctx[c], r), q) PROVE InLimit'
  <2>1. Queued(ctx[c], r) \in CtxT /\ Queued(ctx[c], r).pending = ctx[c].pending
        BY <1>4, QueuedFacts
  <2>2. Queued(ctx[c], r).pending <= ctx[Top(t).ctx].pending
        BY <1>2, <1>4, <2>1
  <2> QED  BY <1>2, <1>6, <2>1, <2>2, ReleaseInLimit
<1>7. ASSUME NEW q, NEW k \in Int, Release(t, [ctx[c] EXCEPT !.waiting = k], q) PROVE InLimit'
  <2>1. [ctx[c] EXCEPT !.waiting = k] \in CtxT /\ [ctx[c] EXCEPT !.waiting = k].pending = ctx[c].pending
        BY <1>4, BudgetFacts
  <2>2. [ctx[c] EXCEPT !.waiting = k].pending <= ctx[Top(t).ctx].pending
        BY <1>2, <1>4, <2>1
  <2> QED  BY <1>2, <1>7, <2>1, <2>2, ReleaseInLimit
<1>8. CASE FinishYield(t)
      BY <1>2, <1>3, <1>6, <1>8 DEF FinishYield
<1>9. CASE FinishWait(t)
  <2>1. PICK k \in Int : k = ctx[c].waiting + 1
        BY <1>4
  <2> QED  BY <1>2, <1>3, <1>6, <1>7, <1>9, <2>1 DEF FinishWait
<1> QED  BY <1>5, <1>8, <1>9

LEMMA ClaimInLimit ==
    ASSUME RInv, InLimit, NEW t \in Threads, Claim(t)
    PROVE  InLimit'
<1>0. StacksTyped /\ ctx \in [Contexts -> CtxT]
      BY DEF RInv, Typed
<1>1. PICK c \in Contexts : c = Top(t).ctx
      BY <1>0, AtTop DEF Claim, Fit
<1>2. ctx[c] \in CtxT /\ ctx[c].pending \in Int /\ ctx[c].queue \in Seq(Reqs)
      BY <1>0 DEF CtxT
<1>3. CASE ctx[c].queue = <<>>
  <2> DEFINE y == [ctx[c] EXCEPT !.exec = "idle"]  z == CloseIfDrained(y)
  <2>1. ctx' = [ctx EXCEPT ![c] = z]
        BY <1>1, <1>3 DEF Claim
  <2>2. y \in CtxT /\ y.pending = ctx[c].pending
        BY <1>2, ExecField
  <2> HIDE DEF y
  <2>3. z.pending = ctx[c].pending
        BY <2>2, CloseFacts
  <2> HIDE DEF z
  <2>4. z.pending <= ctx[c].pending /\ z.pending \in Int
        BY <1>2, <2>3
  <2> QED  BY <2>1, <2>4, InLimitKept
<1>4. CASE ctx[c].queue # <<>>
  <2> DEFINE a == [ctx[c] EXCEPT !.exec = "running"]  y == [a EXCEPT !.queue = Tail(ctx[c].queue)]
  <2>1. ctx' = [ctx EXCEPT ![c].exec = "running", ![c].queue = Tail(@)]
        BY <1>1, <1>4 DEF Claim
  <2>2. ctx' = [ctx EXCEPT ![c] = y]
        BY <1>0, <2>1 DEF CtxT
  <2>3. a \in CtxT /\ a.pending = ctx[c].pending
        BY <1>2, ExecField
  <2> HIDE DEF a
  <2>4. Tail(ctx[c].queue) \in Seq(Reqs)
        BY <1>2, <1>4
  <2>5. y.pending = ctx[c].pending
        BY <2>3, <2>4, QueueField
  <2> HIDE DEF y
  <2>6. y.pending <= ctx[c].pending /\ y.pending \in Int
        BY <1>2, <2>5
  <2> QED  BY <2>2, <2>6, InLimitKept
<1> QED  BY <1>3, <1>4

LEMMA WakeInLimit ==
    ASSUME RInv, InLimit, NEW t \in Threads, WakeGate(t)
    PROVE  InLimit'
<1>0. StacksTyped /\ ctx \in [Contexts -> CtxT]
      BY DEF RInv, Typed
<1>1. Top(t).ctx \in Contexts /\ Top(t).req \in Reqs
      BY <1>0, AtTop DEF WakeGate, Fit, UserPcs
<1> PICK c \in Contexts : c = Top(t).ctx
    BY <1>1
<1> PICK r \in Reqs : r = Top(t).req
    BY <1>1
<1>2. ctx[c] \in CtxT /\ ctx[c].pending \in Int /\ ctx[c].waiting - 1 \in Int
      BY <1>0 DEF CtxT
<1> DEFINE a == [ctx[c] EXCEPT !.waiting = ctx[c].waiting - 1]  x == Queued(a, r)  y == Schedule(x)
<1>3. ctx' = [ctx EXCEPT ![c] = y] \/ ctx' = ctx
      BY DEF WakeGate
<1>4. a \in CtxT /\ a.pending = ctx[c].pending
      BY <1>2, BudgetFacts
<1> HIDE DEF a
<1>5. x \in CtxT /\ x.pending = ctx[c].pending
      BY <1>4, QueuedFacts
<1> HIDE DEF x
<1>6. y.pending = ctx[c].pending
      BY <1>5, ScheduleFacts
<1> HIDE DEF y
<1>7. CASE ctx' = ctx
      BY <1>7 DEF InLimit
<1> QED  BY <1>2, <1>3, <1>6, <1>7, InLimitKept

LEMMA InlineInLimit ==
    ASSUME RInv, InLimit, NEW t \in Threads, SubmitInline(t)
    PROVE  InLimit'
<1>0. StacksTyped /\ ctx \in [Contexts -> CtxT] /\ PendingLimit \in Nat
      BY RuntimeAssumption DEF RInv, Typed
<1>1. PICK c \in Contexts : c = Top(t).ctx
      BY <1>0, AtTop DEF SubmitInline, Fit, UserPcs
<1>2. ctx[c] \in CtxT /\ ctx[c].pending \in Int
      BY <1>0 DEF CtxT
<1>3. ctx' = [ctx EXCEPT ![c].pending = @ + 1, ![c].exec = "running"] /\ ~(ctx[c].pending >= PendingLimit)
      BY <1>1 DEF SubmitInline, Refuses
<1> DEFINE a == [ctx[c] EXCEPT !.pending = ctx[c].pending + 1]  y == [a EXCEPT !.exec = "running"]
<1>4. ctx' = [ctx EXCEPT ![c] = y]
      BY <1>0, <1>3 DEF CtxT
<1>5. a \in CtxT /\ a.pending = ctx[c].pending + 1
  <2>1. ctx[c].pending + 1 \in Int
        BY <1>2
  <2> QED  BY <1>2, <2>1, BudgetFacts
<1> HIDE DEF a
<1>6. y.pending = ctx[c].pending + 1
      BY <1>5, ExecField
<1> HIDE DEF y
<1>7. y.pending \in Int /\ y.pending <= PendingLimit
      BY <1>0, <1>2, <1>3, <1>6
<1> QED  BY <1>4, <1>7, InLimitKept

LEMMA FireInLimit ==
    ASSUME RInv, InLimit, NEW t \in Threads, Fire(t) \/ EndFire(t)
    PROVE  InLimit'
<1>0. StacksTyped /\ ctx \in [Contexts -> CtxT] /\ armed \subseteq Timers
      BY DEF RInv, Typed
<1>1. ASSUME NEW c \in Contexts, NEW k \in Int
      PROVE  LET y == [ctx[c] EXCEPT !.firing = k]
             IN  y \in CtxT /\ y.pending = ctx[c].pending /\ y.pending \in Int
      BY <1>0 DEF CtxT
<1>2. \A c \in Contexts : ctx[c].firing \in Int
      BY <1>0 DEF CtxT
<1>3. CASE Fire(t)
  <2>1. PICK tm \in armed : ctx' = [ctx EXCEPT ![Home[tm]].firing = @ + 1]
        BY <1>3 DEF Fire
  <2>2. PICK c \in Contexts : c = Home[tm]
        BY ArmedHome
  <2>3. ctx' = [ctx EXCEPT ![c] = [ctx[c] EXCEPT !.firing = ctx[c].firing + 1]]
        BY <2>1, <2>2
  <2>4. ctx[c].firing + 1 \in Int
        BY <1>2
  <2> DEFINE y == [ctx[c] EXCEPT !.firing = ctx[c].firing + 1]
  <2>5. y.pending = ctx[c].pending /\ y.pending \in Int
        BY <1>1, <2>4
  <2>6. ctx' = [ctx EXCEPT ![c] = y]
        BY <2>3
  <2> HIDE DEF y
  <2>7. y.pending <= ctx[c].pending
        BY <2>5
  <2> QED  BY <2>5, <2>6, <2>7, InLimitKept
<1>4. CASE EndFire(t)
  <2>1. PICK c \in Contexts : c = Top(t).ctx
        BY <1>0, <1>4, AtTop DEF EndFire, Fit
  <2> DEFINE x == [ctx[c] EXCEPT !.firing = ctx[c].firing - 1]  z == CloseIfDrained(x)
  <2>2. ctx' = [ctx EXCEPT ![c] = z]
        BY <1>4, <2>1 DEF EndFire
  <2>3. ctx[c].firing - 1 \in Int
        BY <1>2
  <2>4. x \in CtxT /\ x.pending = ctx[c].pending /\ x.pending \in Int
        BY <1>1, <2>3
  <2> HIDE DEF x
  <2>5. z.pending = ctx[c].pending
        BY <2>4, CloseFacts
  <2> HIDE DEF z
  <2>6. z.pending <= ctx[c].pending /\ z.pending \in Int
        BY <2>4, <2>5
  <2> QED  BY <2>2, <2>6, InLimitKept
<1> QED  BY <1>3, <1>4

LEMMA CloseInLimit ==
    ASSUME RInv, InLimit, NEW t \in Threads, CloseGate(t)
    PROVE  InLimit'
<1>0. StacksTyped /\ ctx \in [Contexts -> CtxT]
      BY DEF RInv, Typed
<1>1. PICK c \in Contexts : c = Top(t).ctx
      BY <1>0, AtTop DEF CloseGate, Fit
<1>2. ctx[c] \in CtxT /\ ctx[c].pending \in Int /\ ctx[c].queue \in Seq(Reqs)
      BY <1>0 DEF CtxT
<1>3. Cardinality(ExternalPlaces(c)) \in Nat
  <2>1. Len(ctx[c].queue) \in Nat
        BY <1>2
  <2>2. IsFiniteSet(1..Len(ctx[c].queue)) /\ ExternalPlaces(c) \subseteq 1..Len(ctx[c].queue)
        BY <2>1, FS_Interval DEF ExternalPlaces
  <2> QED  BY <2>2, FS_Subset, FS_CardinalityType
<1> DEFINE x == Discard(c)  z == CloseIfDrained(x)
<1>4. ctx' = [ctx EXCEPT ![c] = z]
      BY <1>1 DEF CloseGate
<1>5. x \in CtxT /\ x.pending = ctx[c].pending - Cardinality(ExternalPlaces(c))
      BY <1>2, <1>3, DiscardFacts
<1> HIDE DEF x
<1>6. z.pending = ctx[c].pending - Cardinality(ExternalPlaces(c))
      BY <1>5, CloseFacts
<1> HIDE DEF z
<1>7. z.pending \in Int /\ z.pending <= ctx[c].pending
      BY <1>2, <1>3, <1>6
<1> QED  BY <1>4, <1>7, InLimitKept

LEMMA NextInLimit ==
    ASSUME RInv, InLimit, NEW t \in Threads, Start(t) \/ Continue(t)
    PROVE  InLimit'
<1>0. StacksTyped
      BY DEF RInv, Typed
<1>1. CASE ctx' = ctx
      BY <1>1 DEF InLimit
<1>2. CASE Start(t)
  <2>1. ctx' = ctx
        BY <1>2 DEF Start, TryRetainOwner, ReleaseOwner, Submit, SubmitInternal, WakeRequest, PrepareWait, Serve, Drive, Help,
                    ArmTimer, CancelTimer, Delete, Begin, schedVars
  <2> QED  BY <1>1, <2>1
<1>3. CASE Continue(t)
  <2>1. CASE Shutdown(t)
        BY <1>1, <2>1 DEF Shutdown, EndBusyStep, StopState, StopBusy, StopWaiting, StopGate, Retire, DriveEnds, ServeIdle,
                          ServeCheck, FireNoMore, schedVars
  <2>2. CASE Closing(t)
        BY <1>1, <2>2 DEF Closing, SubmitState, CancelAll, CloseBegin, FinishWith, Await, FreeContext, OnClosed, schedVars
  <2>3. CASE SubmitQueues(t) \/ InternalGate(t) \/ FireSubmit(t)
    <3>1. Top(t).ctx \in Contexts /\ Top(t).req \in Reqs
          BY <1>0, <2>3, AtTop DEF SubmitQueues, InternalGate, FireSubmit, Fit, UserPcs, Reqs
    <3> PICK c \in Contexts : c = Top(t).ctx
        BY <3>1
    <3> PICK r \in Reqs : r = Top(t).req
        BY <3>1
    <3>2. \/ ctx' = ctx
          \/ Admit(c, r, TRUE)
          \/ Admit(c, r, FALSE) /\ ~(ctx[c].pending >= PendingLimit)
          BY <2>3 DEF SubmitQueues, InternalGate, FireSubmit, Refuses, schedVars
    <3>3. ctx[c].pending \in Int /\ PendingLimit \in Nat
          BY RuntimeAssumption DEF RInv, Typed, CtxT
    <3>4. ~(ctx[c].pending >= PendingLimit) => ctx[c].pending < PendingLimit
          BY <3>3
    <3> QED  BY <1>1, <3>2, <3>4, AdmitInLimit
  <2>4. CASE SubmitInline(t)
        BY <2>4, InlineInLimit
  <2>5. CASE WakeGate(t)
        BY <2>5, WakeInLimit
  <2>6. CASE RunNext(t) \/ TakeReady(t) \/ TimerRun(t) \/ CallbackReturns(t) \/ TimerEnd(t)
        BY <1>1, <2>6 DEF RunNext, Begin, TakeReady, TimerRun, CallbackReturns, TimerEnd, schedVars
  <2>7. CASE Claim(t)
        BY <2>7, ClaimInLimit
  <2>8. CASE FinishDone(t) \/ FinishYield(t) \/ FinishWait(t)
        BY <2>8, FinishInLimit
  <2>9. CASE Fire(t) \/ EndFire(t)
        BY <2>9, FireInLimit
  <2>10. CASE CloseGate(t)
        BY <2>10, CloseInLimit
  <2> QED  BY <1>3, <2>1, <2>2, <2>3, <2>4, <2>5, <2>6, <2>7, <2>8, <2>9, <2>10 DEF Continue, Shutdown, Closing
<1> QED  BY <1>2, <1>3

-----------------------------------------------------------------------------
LEMMA TypesInvariant == Spec => [](RInv /\ LInv /\ LatchTyped /\ Scalars /\ InLimit)
<1>1. RInv /\ Scalars /\ InLimit /\ [Next]_vars => (Scalars /\ InLimit)'
  <2> SUFFICES ASSUME RInv, Scalars, InLimit, [Next]_vars PROVE (Scalars /\ InLimit)'
      OBVIOUS
  <2>1. CASE UNCHANGED vars
        BY <2>1 DEF vars, schedVars, timerVars, atomics, Scalars, InLimit
  <2>2. CASE Next
        BY <2>2, ScalarsKept, NextInLimit DEF Next
  <2> QED  BY <2>1, <2>2
<1>2. Init => Scalars /\ InLimit
  <2> SUFFICES ASSUME Init PROVE Scalars /\ InLimit
      OBVIOUS
  <2>1. MaxStimuli \in Nat /\ PendingLimit \in Nat
        BY RuntimeAssumption
  <2>2. timer \in [Timers -> TimerT]
        BY DEF Init, TimerT
  <2>3. owners = 1 /\ state = "running" /\ stimuli = 0 /\ \A c \in Contexts : ctx[c].pending = 0
        BY DEF Init
  <2> QED  BY <2>1, <2>2, <2>3 DEF Scalars, InLimit
<1> QED  BY <1>1, <1>2, DeletionInvariant, PTL DEF Spec

(* The runtime's state is what core.zig declares: in particular no counter  *)
(* (busy, waiting, pending, firing) goes below zero, where the code would   *)
(* wrap, and no context has more external requests than its pending_limit.  *)
THEOREM RuntimeTypeCorrect == Spec => []TypeOK
<1>1. RInv /\ LInv /\ LatchTyped /\ Scalars /\ InLimit => TypeOK
  <2> SUFFICES ASSUME RInv, LInv, LatchTyped, Scalars, InLimit PROVE TypeOK
      OBVIOUS
  <2>1. /\ ctx \in [Contexts -> CtxT] /\ req \in [Reqs -> ReqT] /\ ready \in Seq(Contexts) /\ StacksTyped
        /\ armed \subseteq Timers /\ woken \subseteq Reqs \X Nat
        BY DEF RInv, Typed
  <2>2. IsFiniteSet(Reqs) /\ PendingLimit \in Nat
        BY RuntimeAssumption
  <2>3. waiting \in Nat /\ \A c \in Contexts : ctx[c].pending \in Nat /\ ctx[c].waiting \in Nat
    <3>1. \A S : S \subseteq Reqs => Cardinality(S) \in Nat
          BY <2>2, FS_Subset, FS_CardinalityType
    <3>2. WaitingReqs \subseteq Reqs /\ \A c : ExternalOn(c) \subseteq Reqs /\ WaitingOn(c) \subseteq Reqs
          BY DEF WaitingReqs, ExternalOn, WaitingOn
    <3> QED  BY <3>1, <3>2 DEF RInv, Counted
  <2>4. busy \in Nat /\ \A c \in Contexts : ctx[c].firing \in Nat
        BY BusyNat
  <2>5. \A c \in Contexts : ctx[c].pending \in 0..PendingLimit
        BY <2>2, <2>3 DEF InLimit
  <2>6. ctx \in [Contexts -> [life : {"open", "draining", "closed"}, exec : {"idle", "scheduled", "running"}, queue : Seq(Reqs),
                              waiting : Nat, pending : 0..PendingLimit, firing : Nat]]
    <3>1. ASSUME NEW x \in CtxT, x.waiting \in Nat, x.pending \in 0..PendingLimit, x.firing \in Nat
          PROVE  x \in [life : {"open", "draining", "closed"}, exec : {"idle", "scheduled", "running"}, queue : Seq(Reqs),
                        waiting : Nat, pending : 0..PendingLimit, firing : Nat]
          BY <3>1 DEF CtxT
    <3>2. \A c \in Contexts : ctx[c] \in [life : {"open", "draining", "closed"}, exec : {"idle", "scheduled", "running"},
                                          queue : Seq(Reqs), waiting : Nat, pending : 0..PendingLimit, firing : Nat]
          BY <2>1, <2>3, <2>4, <2>5, <3>1
    <3> QED  BY <2>1, <3>2
  <2>7. stack \in [Threads -> Seq([pc : Pcs, ctx : Contexts \union {None}, req : Reqs \union {None}, gen : Nat])]
    <3> DEFINE F == [pc : Pcs, ctx : Contexts \union {None}, req : Reqs \union {None}, gen : Nat]
    <3>1. FrameSet \subseteq F
          BY DEF FrameSet
    <3> HIDE DEF F
    <3>2. \A s \in Seq(FrameSet) : s \in Seq(F)
          BY <3>1
    <3> QED  BY <2>1, <3>2 DEF StacksTyped, F
  <2> QED  BY <2>1, <2>3, <2>4, <2>6, <2>7 DEF TypeOK, ReqT, Scalars, TimerT, LatchTyped
<1> QED  BY <1>1, TypesInvariant, PTL

=============================================================================
