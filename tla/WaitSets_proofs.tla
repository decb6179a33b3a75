--------------------------- MODULE WaitSets_proofs ---------------------------
(* Proofs about WaitSets, for any threads, wait sets, conditions, contexts     *)
(* and number of wakeup slots.                                                 *)
EXTENDS WaitSets, SequenceTheorems, FiniteSetTheorems, TLAPS

-------------------------------------------------------------------------------
(* Frames and stacks.                                                          *)

(* What each kind of call keeps in its frame, step by step. *)
Fit(f) ==
    \/ /\ f.op = "attach" /\ f.at \in {"alloc", "retired", "lock", "acquire", "register", "discard"}
       /\ f.w \in WaitSetIds /\ f.c \in Conds /\ f.todo = {}
       /\ f.at = "alloc" => f.x = None
       /\ f.at = "discard" => f.x # None
    \/ /\ f.op = "detach" /\ f.at \in {"lock", "unregister", "release", "fire", "return"}
       /\ f.w \in WaitSetIds /\ f.c \in Conds /\ f.todo = {}
    \/ /\ f.op = "wait" /\ f.at \in {"lock", "scan", "block", "asleep"}
       /\ f.w \in WaitSetIds /\ f.c = None /\ f.x = None /\ f.todo \subseteq Conds
       /\ f.at # "scan" => f.todo = {}
    \/ /\ f.op = "set" /\ f.at = "notify"
       /\ f.w = None /\ f.c \in Conds /\ f.x = None /\ f.todo = {}
    \/ /\ f.op = "destroyWaitSet" /\ f.at \in {"close", "teardown"}
       /\ f.w \in WaitSetIds /\ f.c = None /\ f.x = None /\ f.todo = {}
    \/ /\ f.op = "freeWaitSet" /\ f.at = "next"
       /\ f.w \in WaitSetIds /\ f.c = None /\ f.x = None /\ f.todo = {}
    \/ /\ f.op = "freeWaitSet" /\ f.at \in {"release", "fire"}
       /\ f.w \in WaitSetIds /\ f.c \in Conds /\ f.todo = {}
    \/ /\ f.op = "destroyGuard" /\ f.at \in {"close", "drain", "invalidate"}
       /\ f.w = None /\ f.c \in Conds /\ f.x = None /\ f.todo \subseteq WaitSetIds
       /\ f.at # "invalidate" => f.todo = {}
    \/ /\ f.op = "destroyGuard" /\ f.at \in {"release", "fire", "unpin"}
       /\ f.w \in WaitSetIds \ f.todo /\ f.c \in Conds /\ f.todo \subseteq WaitSetIds

Ops == {"attach", "detach", "wait", "set", "destroyWaitSet", "freeWaitSet", "destroyGuard"}
Ats == {"alloc", "retired", "lock", "acquire", "register", "discard", "unregister", "release", "fire",
        "return", "scan", "block", "asleep", "notify", "close", "teardown", "next", "drain", "invalidate",
        "unpin"}

RawFrames == [op : Ops, at : Ats, w : WaitSetIds \cup {None}, c : Conds \cup {None},
              x : Ctxs \cup {None}, todo : SUBSET Objects]
FrameSet == {f \in RawFrames : Fit(f)}

StacksTyped == stack \in [Threads -> Seq(FrameSet)]

(* The frames on all stacks. *)
Frames == {f \in FrameSet : \E u \in Threads : \E i \in 1..Len(stack[u]) : stack[u][i] = f}

(* At most one of them is in S. *)
Once(S) == \A u, v \in Threads : \A i \in 1..Len(stack[u]), j \in 1..Len(stack[v]) :
               stack[u][i] \in S /\ stack[v][j] \in S => u = v /\ i = j

(* The stack of t has d frames less on its top, and those of n instead. *)
Moved(t, n, d) ==
    /\ n \in Seq(FrameSet) /\ d \in 0..Len(stack[t])
    /\ stack' \in [Threads -> Seq(FrameSet)]
    /\ Len(stack'[t]) = Len(n) + Len(stack[t]) - d
    /\ \A i \in 1..Len(n) : stack'[t][i] = n[i]
    /\ \A i \in (d + 1)..Len(stack[t]) : stack'[t][i - d + Len(n)] = stack[t][i]
    /\ \A u \in Threads : u # t => stack'[u] = stack[u]

(* The frames of P are popped from the stack of t, those of N are pushed. *)
Swapped(t, P, N) ==
    /\ StacksTyped'
    /\ Frames' \subseteq Frames \cup N /\ Frames \subseteq Frames' \cup P
    /\ N \subseteq Frames' /\ P \subseteq Frames
    /\ \A S : Once(S) =>
         /\ N \cap S = {} => Once(S)'
         /\ P \cap S # {} => Frames' \cap S \subseteq N
         /\ \A g : N \cap S = {g} /\ (Frames \cap S = {} \/ P \cap S # {}) => Once(S)'
    /\ \A u \in Threads : u # t => stack'[u] = stack[u]
    /\ \A g : N = {g} => stack'[t] # <<>> /\ stack'[t][1] = g

LEMMA SeqFacts ==
    ASSUME NEW S, NEW s \in Seq(S)
    PROVE  /\ Len(s) \in Nat /\ DOMAIN s = 1..Len(s) /\ \A i \in 1..Len(s) : s[i] \in S
           /\ s # <<>> => /\ Len(s) >= 1 /\ Head(s) = s[1] /\ Tail(s) \in Seq(S) /\ Len(Tail(s)) = Len(s) - 1
                          /\ \A i \in 1..(Len(s) - 1) : Tail(s)[i] = s[i + 1]
           /\ Len(s) >= 1 => s # <<>>
<1>1. Len(s) \in Nat /\ DOMAIN s = 1..Len(s) /\ \A i \in 1..Len(s) : s[i] \in S
      BY LenProperties, ElementOfSeq
<1>2. ASSUME s # <<>>
      PROVE  /\ Len(s) >= 1 /\ Head(s) = s[1] /\ Tail(s) \in Seq(S) /\ Len(Tail(s)) = Len(s) - 1
             /\ \A i \in 1..(Len(s) - 1) : Tail(s)[i] = s[i + 1]
  <2>1. /\ Head(s) = s[1] /\ Tail(s) \in Seq(S) /\ Len(Tail(s)) = Len(s) - 1
        /\ \A i \in 1..Len(Tail(s)) : Tail(s)[i] = s[i + 1]
        BY <1>2, HeadTailProperties
  <2>2. Len(s) >= 1
        BY <1>1, <1>2, EmptySeq
  <2> QED  BY <2>1, <2>2
<1>3. Len(s) >= 1 => s # <<>>
      BY EmptySeq
<1> QED  BY <1>1, <1>2, <1>3

LEMMA ConcatFacts ==
    ASSUME NEW S, NEW n \in Seq(S), NEW s \in Seq(S)
    PROVE  /\ n \o s \in Seq(S) /\ Len(n \o s) = Len(n) + Len(s)
           /\ \A i \in 1..Len(n) : (n \o s)[i] = n[i]
           /\ \A i \in 1..Len(s) : (n \o s)[i + Len(n)] = s[i]
<1>1. /\ n \o s \in Seq(S) /\ Len(n \o s) = Len(n) + Len(s)
      /\ \A i \in 1..(Len(n) + Len(s)) : (n \o s)[i] = IF i <= Len(n) THEN n[i] ELSE s[i - Len(n)]
      BY ConcatProperties
<1>2. Len(n) \in Nat /\ Len(s) \in Nat
      BY LenProperties
<1> QED  BY <1>1, <1>2

LEMMA StackMoves ==
    ASSUME StacksTyped, NEW t \in Threads, NEW n \in Seq(FrameSet), NEW d \in 0..Len(stack[t]),
           NEW v \in Seq(FrameSet), Len(v) = Len(stack[t]) - d,
           \A i \in 1..Len(v) : v[i] = stack[t][i + d],
           stack' = [stack EXCEPT ![t] = n \o v]
    PROVE  Moved(t, n, d)
<1>1. stack \in [Threads -> Seq(FrameSet)] /\ stack[t] \in Seq(FrameSet)
      BY DEF StacksTyped
<1>2. /\ n \o v \in Seq(FrameSet) /\ Len(n \o v) = Len(n) + Len(v)
      /\ \A i \in 1..Len(n) : (n \o v)[i] = n[i]
      /\ \A i \in 1..Len(v) : (n \o v)[i + Len(n)] = v[i]
  <2> DEFINE S == FrameSet
  <2>1. n \in Seq(S) /\ v \in Seq(S)
        OBVIOUS
  <2> HIDE DEF S
  <2>2. /\ n \o v \in Seq(S) /\ Len(n \o v) = Len(n) + Len(v)
        /\ \A i \in 1..Len(n) : (n \o v)[i] = n[i]
        /\ \A i \in 1..Len(v) : (n \o v)[i + Len(n)] = v[i]
        BY ONLY <2>1, ConcatFacts
  <2> QED  BY <2>2 DEF S
<1>3. Len(n) \in Nat /\ Len(v) \in Nat /\ Len(stack[t]) \in Nat
      BY <1>1, LenProperties
<1>4. stack'[t] = n \o v /\ \A u \in Threads : u # t => stack'[u] = stack[u]
      BY <1>1
<1>5. stack' \in [Threads -> Seq(FrameSet)]
      BY <1>1, <1>2
<1>6. ASSUME NEW i \in (d + 1)..Len(stack[t]) PROVE stack'[t][i - d + Len(n)] = stack[t][i]
  <2> DEFINE k == i - d
  <2>1. k \in 1..Len(v) /\ k + d = i
        BY <1>3
  <2> HIDE DEF k
  <2>2. v[k] = stack[t][i] /\ (n \o v)[k + Len(n)] = v[k]
        BY <1>2, <2>1
  <2> QED  BY <1>4, <2>2 DEF k
<1>7. Len(stack'[t]) = Len(n) + Len(stack[t]) - d
      BY <1>2, <1>3, <1>4
<1> QED  BY <1>2, <1>4, <1>5, <1>6, <1>7 DEF Moved

(* Where a frame of the new stacks comes from. *)
LEMMA MovedFrom ==
    ASSUME StacksTyped, NEW t \in Threads, NEW n, NEW d, Moved(t, n, d),
           NEW u \in Threads, NEW i \in 1..Len(stack'[u])
    PROVE  \/ u = t /\ i \in 1..Len(n) /\ stack'[u][i] = n[i]
           \/ u = t /\ i > Len(n) /\ i - Len(n) + d \in (d + 1)..Len(stack[u]) /\ stack'[u][i] = stack[u][i - Len(n) + d]
           \/ u # t /\ i \in 1..Len(stack[u]) /\ stack'[u][i] = stack[u][i]
<1>1. stack[t] \in Seq(FrameSet) /\ n \in Seq(FrameSet)
      BY DEF StacksTyped, Moved
<1>2. Len(n) \in Nat /\ Len(stack[t]) \in Nat /\ d \in 0..Len(stack[t])
      BY <1>1, LenProperties DEF Moved
<1>3. CASE u # t
      BY <1>3 DEF Moved
<1>4. CASE u = t /\ i <= Len(n)
  <2>1. i \in 1..Len(n)
        BY <1>2, <1>4
  <2> QED  BY <1>4, <2>1 DEF Moved
<1>5. CASE u = t /\ ~(i <= Len(n))
  <2> DEFINE k == i - Len(n) + d
  <2>1. Len(stack'[t]) = Len(n) + Len(stack[t]) - d
        BY DEF Moved
  <2>2. i \in Int /\ i > Len(n) /\ k \in (d + 1)..Len(stack[t]) /\ k - d + Len(n) = i
        BY <1>2, <1>5, <2>1
  <2> HIDE DEF k
  <2>3. stack'[t][k - d + Len(n)] = stack[t][k]
        BY <2>2 DEF Moved
  <2> QED  BY <1>5, <2>2, <2>3 DEF k
<1> QED  BY <1>3, <1>4, <1>5

(* Where a frame of the old stacks that stays goes. *)
LEMMA MovedTo ==
    ASSUME StacksTyped, NEW t \in Threads, NEW n, NEW d, Moved(t, n, d),
           NEW u \in Threads, NEW i \in 1..Len(stack[u]), u = t => i > d
    PROVE  \E j \in 1..Len(stack'[u]) : stack'[u][j] = stack[u][i]
<1>1. stack[t] \in Seq(FrameSet) /\ n \in Seq(FrameSet)
      BY DEF StacksTyped, Moved
<1>2. Len(n) \in Nat /\ Len(stack[t]) \in Nat /\ d \in 0..Len(stack[t])
      BY <1>1, LenProperties DEF Moved
<1>3. CASE u # t
      BY <1>3 DEF Moved
<1>4. CASE u = t
  <2>1. i \in (d + 1)..Len(stack[t]) /\ Len(stack'[t]) = Len(n) + Len(stack[t]) - d
        BY <1>2, <1>4 DEF Moved
  <2>2. i - d + Len(n) \in 1..Len(stack'[t])
        BY <1>2, <2>1
  <2>3. stack'[t][i - d + Len(n)] = stack[t][i]
        BY <2>1 DEF Moved
  <2> QED  BY <1>4, <2>2, <2>3
<1> QED  BY <1>3, <1>4

LEMMA MovedSwaps ==
    ASSUME StacksTyped, NEW t \in Threads, NEW n, NEW d, Moved(t, n, d),
           NEW P, P = {stack[t][i] : i \in 1..d}, NEW N, N = {n[i] : i \in 1..Len(n)},
           \A i, j \in 1..Len(n) : n[i] = n[j] => i = j
    PROVE  Swapped(t, P, N)
<1>0. /\ Len(n) \in Nat /\ Len(stack[t]) \in Nat /\ d \in 0..Len(stack[t]) /\ n \in Seq(FrameSet)
      /\ stack \in [Threads -> Seq(FrameSet)] /\ stack' \in [Threads -> Seq(FrameSet)]
      BY LenProperties DEF Moved, StacksTyped
<1>1. ASSUME NEW u \in Threads, NEW i \in 1..Len(stack'[u])
      PROVE  \/ u = t /\ i \in 1..Len(n) /\ stack'[u][i] = n[i]
             \/ \E k \in 1..Len(stack[u]) : /\ stack'[u][i] = stack[u][k] /\ (u = t => k > d)
                                            /\ i = IF u = t THEN k + Len(n) - d ELSE k
  <2>1. CASE u # t
        BY <1>1, <2>1, MovedFrom
  <2>2. CASE u = t /\ ~(i \in 1..Len(n) /\ stack'[u][i] = n[i])
    <3> DEFINE k == i - Len(n) + d
    <3>1. i > Len(n) /\ k \in (d + 1)..Len(stack[u]) /\ stack'[u][i] = stack[u][k]
          BY <1>1, <2>2, MovedFrom
    <3>2. k \in 1..Len(stack[u]) /\ i = k + Len(n) - d /\ k > d
          BY <1>0, <2>2, <3>1
    <3> QED  BY <2>2, <3>1, <3>2
  <2> QED  BY <2>1, <2>2
<1>2. \A u \in Threads : /\ \A i \in 1..Len(stack[u]) : stack[u][i] \in FrameSet
                         /\ \A i \in 1..Len(stack'[u]) : stack'[u][i] \in FrameSet
      BY <1>0, SeqFacts
<1>3. Frames' \subseteq Frames \cup N
  <2> SUFFICES ASSUME NEW u \in Threads, NEW i \in 1..Len(stack'[u]), stack'[u][i] \notin N
               PROVE  stack'[u][i] \in Frames
      BY DEF Frames
  <2>1. PICK k \in 1..Len(stack[u]) : stack'[u][i] = stack[u][k]
        BY <1>1
  <2> QED  BY <1>2, <2>1 DEF Frames
<1>4. Frames \subseteq Frames' \cup P
  <2> SUFFICES ASSUME NEW f \in Frames, f \notin P PROVE f \in Frames'
      OBVIOUS
  <2>3. PICK u \in Threads : \E i \in 1..Len(stack[u]) : stack[u][i] = f
        BY DEF Frames
  <2>4. PICK i \in 1..Len(stack[u]) : stack[u][i] = f
        BY <2>3
  <2>1. u = t => i > d
        BY <1>0, <2>4
  <2>2. \E j \in 1..Len(stack'[u]) : stack'[u][j] = stack[u][i]
        BY <2>1, MovedTo
  <2> QED  BY <1>2, <2>2, <2>4 DEF Frames
<1>5. N \subseteq Frames'
  <2> SUFFICES ASSUME NEW i \in 1..Len(n) PROVE n[i] \in Frames'
      OBVIOUS
  <2>1. i \in 1..Len(stack'[t]) /\ stack'[t][i] = n[i]
        BY <1>0 DEF Moved
  <2> QED  BY <1>2, <2>1 DEF Frames
<1>6. P \subseteq Frames
  <2> SUFFICES ASSUME NEW i \in 1..d PROVE stack[t][i] \in Frames
      OBVIOUS
  <2>1. i \in 1..Len(stack[t])
        BY <1>0
  <2> QED  BY <1>2, <2>1 DEF Frames
<1>7. ASSUME NEW S, Once(S)
      PROVE  /\ N \cap S = {} => Once(S)'
             /\ P \cap S # {} => Frames' \cap S \subseteq N
             /\ \A g : N \cap S = {g} /\ (Frames \cap S = {} \/ P \cap S # {}) => Once(S)'
  <2>1. ASSUME N \cap S = {} PROVE Once(S)'
    <3> SUFFICES ASSUME NEW u \in Threads, NEW v \in Threads, NEW i \in 1..Len(stack'[u]), NEW j \in 1..Len(stack'[v]),
                        stack'[u][i] \in S, stack'[v][j] \in S
                 PROVE  u = v /\ i = j
        BY DEF Once
    <3>4. \A m \in 1..Len(n) : n[m] \notin S
          BY <2>1
    <3>1. PICK k \in 1..Len(stack[u]) : stack[u][k] \in S /\ i = IF u = t THEN k + Len(n) - d ELSE k
      <4>1. ~(u = t /\ i \in 1..Len(n) /\ stack'[u][i] = n[i])
            BY <3>4
      <4>2. PICK k \in 1..Len(stack[u]) : stack'[u][i] = stack[u][k] /\ i = IF u = t THEN k + Len(n) - d ELSE k
            BY <1>1, <4>1
      <4> QED  BY <4>2
    <3>2. PICK l \in 1..Len(stack[v]) : stack[v][l] \in S /\ j = IF v = t THEN l + Len(n) - d ELSE l
      <4>1. ~(v = t /\ j \in 1..Len(n) /\ stack'[v][j] = n[j])
            BY <3>4
      <4>2. PICK l \in 1..Len(stack[v]) : stack'[v][j] = stack[v][l] /\ j = IF v = t THEN l + Len(n) - d ELSE l
            BY <1>1, <4>1
      <4> QED  BY <4>2
    <3>3. u = v /\ k = l
          BY <1>7, <3>1, <3>2 DEF Once
    <3> QED  BY <3>1, <3>2, <3>3
  <2>2. ASSUME P \cap S # {}, NEW u \in Threads, NEW i \in 1..Len(stack'[u]), stack'[u][i] \in S
        PROVE  u = t /\ i \in 1..Len(n) /\ stack'[u][i] = n[i]
    <3>1. PICK m \in 1..d : stack[t][m] \in S
          BY <2>2
    <3>2. m \in 1..Len(stack[t]) /\ m <= d
          BY <1>0
    <3>3. ASSUME NEW k \in 1..Len(stack[u]), stack'[u][i] = stack[u][k], u = t => k > d
          PROVE  FALSE
      <4>1. u = t /\ k = m
            BY <1>7, <2>2, <3>1, <3>2, <3>3 DEF Once
      <4> QED  BY <1>0, <3>2, <3>3, <4>1
    <3> QED  BY <1>1, <2>2, <3>3
  <2>3. ASSUME Frames \cap S = {}, NEW u \in Threads, NEW i \in 1..Len(stack'[u]), stack'[u][i] \in S
        PROVE  u = t /\ i \in 1..Len(n) /\ stack'[u][i] = n[i]
    <3>1. \A k \in 1..Len(stack[u]) : stack[u][k] \notin S
          BY <1>2, <2>3 DEF Frames
    <3> QED  BY <1>1, <2>3, <3>1
  <2>4. ASSUME P \cap S # {} PROVE Frames' \cap S \subseteq N
    <3> SUFFICES ASSUME NEW u \in Threads, NEW i \in 1..Len(stack'[u]), stack'[u][i] \in S PROVE stack'[u][i] \in N
        BY DEF Frames
    <3> QED  BY <2>2, <2>4
  <2>5. ASSUME NEW g, N \cap S = {g}, Frames \cap S = {} \/ P \cap S # {} PROVE Once(S)'
    <3> SUFFICES ASSUME NEW u \in Threads, NEW v \in Threads, NEW i \in 1..Len(stack'[u]), NEW j \in 1..Len(stack'[v]),
                        stack'[u][i] \in S, stack'[v][j] \in S
                 PROVE  u = v /\ i = j
        BY DEF Once
    <3>1. u = t /\ i \in 1..Len(n) /\ stack'[u][i] = n[i]
          BY <2>2, <2>3, <2>5
    <3>2. v = t /\ j \in 1..Len(n) /\ stack'[v][j] = n[j]
          BY <2>2, <2>3, <2>5
    <3>3. n[i] \in N \cap S /\ n[j] \in N \cap S
          BY <3>1, <3>2
    <3> QED  BY <2>5, <3>1, <3>2, <3>3
  <2> QED  BY <2>1, <2>4, <2>5
<1>8. ASSUME NEW g, N = {g} PROVE stack'[t] # <<>> /\ stack'[t][1] = g
  <2>1. PICK m \in 1..Len(n) : n[m] = g
        BY <1>8
  <2>2. 1 \in 1..Len(n) /\ n[1] \in N
    <3>1. \A a \in Nat : \A b \in 1..a : 1 \in 1..a
          OBVIOUS
    <3> QED  BY <1>0, <3>1
  <2>5. Len(stack'[t]) = Len(n) + Len(stack[t]) - d
        BY DEF Moved
  <2>3. n[1] = g /\ stack'[t][1] = g /\ Len(stack'[t]) >= 1
    <3>1. n[1] = g /\ stack'[t][1] = g
          BY <1>8, <2>2 DEF Moved
    <3> QED  BY <1>0, <2>2, <2>5, <3>1
  <2>4. stack'[t] \in Seq(FrameSet)
        BY <1>0
  <2> QED  BY <2>3, <2>4, SeqFacts
<1> QED  BY <1>0, <1>3, <1>4, <1>5, <1>6, <1>7, <1>8 DEF Swapped, Moved, StacksTyped

LEMMA TopFrame ==
    ASSUME StacksTyped, NEW t \in Threads, stack[t] # <<>>
    PROVE  /\ Len(stack[t]) \in Nat /\ Len(stack[t]) >= 1 /\ stack[t] \in Seq(FrameSet)
           /\ Top(t) \in FrameSet /\ Top(t) = stack[t][1] /\ Top(t) \in Frames
<1>1. stack[t] \in Seq(FrameSet)
      BY DEF StacksTyped
<1>2. Len(stack[t]) \in Nat /\ Len(stack[t]) >= 1 /\ Head(stack[t]) = stack[t][1] /\ stack[t][1] \in FrameSet
      BY <1>1, SeqFacts
<1>3. 1 \in 1..Len(stack[t])
      BY <1>2
<1> QED  BY <1>1, <1>2, <1>3 DEF Top, Frames

LEMMA TailFacts ==
    ASSUME StacksTyped, NEW t \in Threads, stack[t] # <<>>
    PROVE  /\ Tail(stack[t]) \in Seq(FrameSet) /\ Len(Tail(stack[t])) = Len(stack[t]) - 1
           /\ \A i \in 1..Len(Tail(stack[t])) : Tail(stack[t])[i] = stack[t][i + 1]
           /\ 1 \in 0..Len(stack[t])
<1>1. stack[t] \in Seq(FrameSet)
      BY DEF StacksTyped
<1>2. /\ Tail(stack[t]) \in Seq(FrameSet) /\ Len(Tail(stack[t])) = Len(stack[t]) - 1
      /\ Len(stack[t]) \in Nat /\ Len(stack[t]) >= 1
      /\ \A i \in 1..(Len(stack[t]) - 1) : Tail(stack[t])[i] = stack[t][i + 1]
      BY <1>1, SeqFacts
<1> QED  BY <1>2

LEMMA StaySwaps ==
    ASSUME StacksTyped, NEW t \in Threads, stack' = stack
    PROVE  Swapped(t, {}, {})
<1>1. Frames' = Frames /\ \A S : Once(S)' <=> Once(S)
      BY DEF Frames, Once
<1> QED  BY <1>1 DEF Swapped, StacksTyped

LEMMA CallSwaps ==
    ASSUME StacksTyped, NEW t \in Threads, NEW g \in FrameSet, stack' = [stack EXCEPT ![t] = <<g>> \o stack[t]]
    PROVE  Swapped(t, {}, {g})
<1> DEFINE n == <<g>>
<1>1. n \in Seq(FrameSet) /\ Len(n) = 1 /\ n[1] = g
      OBVIOUS
<1>2. stack[t] \in Seq(FrameSet) /\ Len(stack[t]) \in Nat
      BY LenProperties DEF StacksTyped
<1>3. stack' = [stack EXCEPT ![t] = n \o stack[t]]
      OBVIOUS
<1> HIDE DEF n
<1>4. 0 \in 0..Len(stack[t]) /\ Len(stack[t]) = Len(stack[t]) - 0 /\ \A i \in 1..Len(stack[t]) : stack[t][i] = stack[t][i + 0]
      BY <1>2
<1>5. Moved(t, n, 0)
      BY <1>1, <1>2, <1>3, <1>4, StackMoves
<1>6. {} = {stack[t][i] : i \in 1..0} /\ {g} = {n[i] : i \in 1..Len(n)} /\ \A i, j \in 1..Len(n) : n[i] = n[j] => i = j
      BY <1>1
<1> QED  BY <1>5, <1>6, MovedSwaps

LEMMA GotoSwaps ==
    ASSUME StacksTyped, NEW t \in Threads, stack[t] # <<>>, NEW g \in FrameSet,
           stack' = [stack EXCEPT ![t] = <<g>> \o Tail(stack[t])]
    PROVE  Swapped(t, {Top(t)}, {g})
<1> DEFINE n == <<g>>
<1>1. n \in Seq(FrameSet) /\ Len(n) = 1 /\ n[1] = g
      OBVIOUS
<1>3. stack' = [stack EXCEPT ![t] = n \o Tail(stack[t])]
      OBVIOUS
<1> HIDE DEF n
<1>5. Moved(t, n, 1)
      BY <1>1, <1>3, StackMoves, TailFacts
<1>6. {Top(t)} = {stack[t][i] : i \in 1..1} /\ {g} = {n[i] : i \in 1..Len(n)} /\ \A i, j \in 1..Len(n) : n[i] = n[j] => i = j
      BY <1>1, TopFrame
<1> QED  BY <1>5, <1>6, MovedSwaps

LEMMA ReturnSwaps ==
    ASSUME StacksTyped, NEW t \in Threads, stack[t] # <<>>, stack' = [stack EXCEPT ![t] = Tail(stack[t])]
    PROVE  Swapped(t, {Top(t)}, {})
<1> DEFINE n == <<>>
<1>1. n \in Seq(FrameSet) /\ Len(n) = 0
      OBVIOUS
<1>2. n \o Tail(stack[t]) = Tail(stack[t])
      BY TailFacts, ConcatEmptySeq
<1>3. stack' = [stack EXCEPT ![t] = n \o Tail(stack[t])]
      BY <1>2
<1> HIDE DEF n
<1>5. Moved(t, n, 1)
      BY <1>1, <1>3, StackMoves, TailFacts
<1>6. {Top(t)} = {stack[t][i] : i \in 1..1} /\ {} = {n[i] : i \in 1..Len(n)} /\ \A i, j \in 1..Len(n) : n[i] = n[j] => i = j
      BY <1>1, TopFrame
<1> QED  BY <1>5, <1>6, MovedSwaps

LEMMA GotoCallSwaps ==
    ASSUME StacksTyped, NEW t \in Threads, stack[t] # <<>>, NEW g \in FrameSet, NEW h \in FrameSet, h # g,
           stack' = [stack EXCEPT ![t] = <<h>> \o (<<g>> \o Tail(stack[t]))]
    PROVE  Swapped(t, {Top(t)}, {g, h})
<1>4. /\ <<h>> \in Seq(FrameSet) /\ Len(<<h>>) = 1 /\ <<h>>[1] = h
      /\ <<g>> \in Seq(FrameSet) /\ Len(<<g>>) = 1 /\ <<g>>[1] = g
      OBVIOUS
<1> DEFINE a == <<h>>  b == <<g>>  n == a \o b
<1>0. a \in Seq(FrameSet) /\ Len(a) = 1 /\ a[1] = h /\ b \in Seq(FrameSet) /\ Len(b) = 1 /\ b[1] = g
      BY <1>4
<1>8. stack' = [stack EXCEPT ![t] = a \o (b \o Tail(stack[t]))]
      OBVIOUS
<1> HIDE DEF a, b
<1>1. n \in Seq(FrameSet) /\ Len(n) = 2 /\ n[1] = h /\ n[2] = g
  <2>1. /\ n \in Seq(FrameSet) /\ Len(n) = Len(a) + Len(b)
        /\ (\A i \in 1..Len(a) : n[i] = a[i]) /\ (\A i \in 1..Len(b) : n[i + Len(a)] = b[i])
        BY <1>0, ConcatFacts
  <2>2. 1 \in 1..Len(a) /\ 1 \in 1..Len(b) /\ 1 + Len(a) = 2
        BY <1>0
  <2> HIDE DEF n
  <2>3. n[1] = a[1] /\ n[1 + Len(a)] = b[1]
        BY <2>1, <2>2
  <2> QED  BY <1>0, <2>1, <2>2, <2>3
<1>2. n \o Tail(stack[t]) = a \o (b \o Tail(stack[t]))
  <2> DEFINE v == Tail(stack[t])  S == FrameSet
  <2>1. a \in Seq(S) /\ b \in Seq(S) /\ v \in Seq(S)
        BY <1>0, TailFacts
  <2> HIDE DEF v, S
  <2>2. (a \o b) \o v = a \o (b \o v)
        BY ONLY <2>1, ConcatAssociative
  <2> QED  BY <2>2 DEF v
<1>3. stack' = [stack EXCEPT ![t] = n \o Tail(stack[t])]
      BY <1>2, <1>8
<1> HIDE DEF n
<1>5. Moved(t, n, 1)
      BY <1>1, <1>3, StackMoves, TailFacts
<1>6. {g, h} = {n[i] : i \in 1..Len(n)} /\ \A i, j \in 1..Len(n) : n[i] = n[j] => i = j
      BY <1>1
<1>7. {Top(t)} = {stack[t][i] : i \in 1..1}
      BY TopFrame
<1> QED  BY <1>5, <1>6, <1>7, MovedSwaps

-------------------------------------------------------------------------------
(* The inductive invariant.                                                    *)

DestroyW(w)  == {f \in FrameSet : f.op = "destroyWaitSet" /\ f.w = w}
FreeW(w)     == {f \in FrameSet : f.op = "freeWaitSet" /\ f.w = w}
DestroyG(c)  == {f \in FrameSet : f.op = "destroyGuard" /\ f.c = c}
WaitOn(w)    == {f \in FrameSet : f.op = "wait" /\ f.w = w}
InsideOf(w)  == {f \in FrameSet : /\ f.w = w
                                  /\ \/ f.op = "attach" /\ f.at \in {"acquire", "register"}
                                     \/ f.op = "detach" /\ f.at \in {"unregister", "release"}
                                     \/ f.op = "wait" /\ f.at = "scan"}
Keeping(c)   == {f \in FrameSet : f.c = c /\ (f.op = "detach" \/ (f.op = "attach" /\ f.at = "alloc"))}
Pinning(c, w) == {f \in FrameSet : f.op = "destroyGuard" /\ f.c = c /\ (w \in f.todo \/ w = f.w)}
Releasing(w, c) ==
    {f \in FrameSet : /\ f.w = w /\ f.c = c
                      /\ \/ f.op = "detach" /\ f.at \in {"unregister", "release"}
                         \/ f.op \in {"freeWaitSet", "destroyGuard"} /\ f.at = "release"}
Adding(w, c, at) == {f \in FrameSet : f.op = "attach" /\ f.at = at /\ f.w = w /\ f.c = c}
Removing(w, c)   == {f \in FrameSet : f.op = "detach" /\ f.at = "unregister" /\ f.w = w /\ f.c = c}
Owning(x) ==
    {f \in FrameSet : /\ f.x = x
                      /\ \/ f.op = "attach" /\ f.at \notin {"acquire", "register"}
                         \/ f.op \in {"detach", "destroyGuard"} /\ f.at \in {"unregister", "release", "fire"}
                         \/ f.op = "freeWaitSet" /\ f.at \in {"release", "fire"}}

Held(S) == \E f \in Frames : f \in S

Entry(w, c)   == \E e \in attached[w] : e.c = c
EntryX(x)     == \E w \in WaitSetIds : \E e \in attached[w] : e.x = x
Destroying(c) == c \in closed \/ Held(DestroyG(c))
Unheld(c)     == /\ c \notin mine /\ ~Held(Keeping(c))
                 /\ \A y \in Ctxs : ~(ctx[y].live /\ ctx[y].c = c)

Typed ==
    /\ StacksTyped
    /\ binding \in {"cpp", "java"} /\ hooked \in BOOLEAN /\ (hooked \/ binding = "java")
    /\ mine \subseteq made /\ made \subseteq Objects /\ closed \subseteq made
    /\ retired \subseteq closed /\ freed \subseteq Objects
    /\ attached \in [WaitSetIds -> SUBSET [c : Conds, x : Ctxs \cup {None}]]
    /\ mu \in [WaitSetIds -> Threads \cup {None}]
    /\ notified \in [WaitSetIds -> BOOLEAN] /\ trigger \in [Conds -> BOOLEAN]
    /\ wakeups \in [Conds -> SUBSET WaitSetIds]
    /\ refs \in [Objects -> Nat]
    /\ ctx \in [Ctxs -> [c : Conds \cup {None}, live : BOOLEAN]]
    /\ \A x \in Ctxs : ctx[x].c = None \/ ctx[x].c \in made
    /\ owed \subseteq WaitSetIds \X Conds

(* The lock of a wait set: at most one thread is inside, and the flag says so. *)
Mutex ==
    /\ HolderRuns
    /\ \A w \in WaitSetIds : Once(InsideOf(w)) /\ (Held(InsideOf(w)) => mu[w] # None)

-------------------------------------------------------------------------------
(* Steps of the topmost frame.                                                 *)

LEMMA FrameFields ==
    ASSUME NEW op, NEW at, NEW w, NEW c, NEW x
    PROVE  LET f == Frame(op, at, w, c, x)
           IN  f.op = op /\ f.at = at /\ f.w = w /\ f.c = c /\ f.x = x /\ f.todo = {}
BY DEF Frame

LEMMA NewFrame ==
    ASSUME NEW op \in Ops, NEW at \in Ats, NEW w \in WaitSetIds \cup {None}, NEW c \in Conds \cup {None},
           NEW x \in Ctxs \cup {None}
    PROVE  Frame(op, at, w, c, x) \in RawFrames
BY DEF Frame, RawFrames

(* g is f, but for the step it is at. *)
Like(g, f, at) == g.op = f.op /\ g.at = at /\ g.w = f.w /\ g.c = f.c /\ g.x = f.x /\ g.todo = f.todo

LEMMA AtField ==
    ASSUME NEW f \in RawFrames, NEW at \in Ats
    PROVE  [f EXCEPT !.at = at] \in RawFrames /\ Like([f EXCEPT !.at = at], f, at)
BY DEF RawFrames, Like

LEMMA AtTop ==
    ASSUME StacksTyped, NEW t \in Threads, NEW op, NEW at, At(t, op, at)
    PROVE  /\ stack[t] # <<>> /\ Top(t) \in FrameSet /\ Top(t) \in Frames
           /\ Top(t).op = op /\ Top(t).at = at /\ Fit(Top(t)) /\ Top(t) \in RawFrames
           /\ Top(t).w \in WaitSetIds \cup {None} /\ Top(t).c \in Conds \cup {None} /\ Top(t).x \in Ctxs \cup {None}
<1>1. stack[t] # <<>> /\ Top(t).op = op /\ Top(t).at = at
      BY DEF At
<1> QED  BY <1>1, TopFrame DEF FrameSet, RawFrames

(* The topmost frame goes on at another step. *)
LEMMA GotoGoes ==
    ASSUME StacksTyped, NEW t \in Threads, stack[t] # <<>>, NEW at \in Ats, stack' = Goto(t, at),
           \A g \in RawFrames : Like(g, Top(t), at) => Fit(g)
    PROVE  \E g \in FrameSet : Like(g, Top(t), at) /\ Swapped(t, {Top(t)}, {g})
<1> DEFINE g == [Top(t) EXCEPT !.at = at]
<1>1. Top(t) \in RawFrames
      BY TopFrame DEF FrameSet
<1>2. g \in RawFrames /\ Like(g, Top(t), at)
      BY <1>1, AtField
<1>3. stack' = [stack EXCEPT ![t] = <<g>> \o Tail(stack[t])]
      BY DEF Goto, Top
<1> HIDE DEF g
<1>4. g \in FrameSet
      BY <1>2 DEF FrameSet
<1> QED  BY <1>2, <1>3, <1>4, GotoSwaps

LEMMA GotoWithGoes ==
    ASSUME StacksTyped, NEW t \in Threads, stack[t] # <<>>, NEW g \in FrameSet, stack' = GotoWith(t, g)
    PROVE  Swapped(t, {Top(t)}, {g})
BY GotoSwaps DEF GotoWith

LEMMA ReturnGoes ==
    ASSUME StacksTyped, NEW t \in Threads, stack[t] # <<>>, stack' = Return(t)
    PROVE  Swapped(t, {Top(t)}, {})
BY ReturnSwaps DEF Return

LEMMA CallGoes ==
    ASSUME StacksTyped, NEW t \in Threads, NEW g \in FrameSet, stack' = Call(t, g)
    PROVE  Swapped(t, {}, {g})
BY CallSwaps DEF Call

LEMMA DestroyerFrame ==
    ASSUME NEW o \in Objects
    PROVE  /\ Destroyer(o) \in FrameSet /\ Destroyer(o).at = "close" /\ Destroyer(o).todo = {} /\ Destroyer(o).x = None
           /\ o \in Conds => Destroyer(o).op = "destroyGuard" /\ Destroyer(o).c = o /\ Destroyer(o).w = None
           /\ o \notin Conds => Destroyer(o).op = "destroyWaitSet" /\ Destroyer(o).w = o /\ Destroyer(o).c = None
<1>1. CASE o \in Conds
  <2> DEFINE f == Frame("destroyGuard", "close", None, o, None)
  <2>1. f.op = "destroyGuard" /\ f.at = "close" /\ f.w = None /\ f.c = o /\ f.x = None /\ f.todo = {}
        BY FrameFields
  <2>2. f \in RawFrames
        BY <1>1, NewFrame DEF Ops, Ats
  <2>3. f = Destroyer(o)
        BY <1>1 DEF Destroyer
  <2> HIDE DEF f
  <2>4. f \in FrameSet
        BY <1>1, <2>1, <2>2 DEF FrameSet, Fit
  <2> QED  BY <1>1, <2>1, <2>3, <2>4
<1>2. CASE o \notin Conds
  <2> DEFINE f == Frame("destroyWaitSet", "close", o, None, None)
  <2>1. f.op = "destroyWaitSet" /\ f.at = "close" /\ f.w = o /\ f.c = None /\ f.x = None /\ f.todo = {}
        BY FrameFields
  <2>2. o \in WaitSetIds /\ f \in RawFrames
        BY <1>2, NewFrame DEF Ops, Ats, Objects
  <2>3. f = Destroyer(o)
        BY <1>2 DEF Destroyer
  <2> HIDE DEF f
  <2>4. f \in FrameSet
        BY <2>1, <2>2 DEF FrameSet, Fit
  <2> QED  BY <1>2, <2>1, <2>3, <2>4
<1> QED  BY <1>1, <1>2

(* A frame of the destructor is on top of s, or s is all there is: then the    *)
(* condition has no holder in s if it has none in the next state.              *)
LEMMA HoldersOf ==
    ASSUME NEW c \in Conds, NEW s \in [Threads -> Seq(FrameSet)], NEW t \in Threads,
           stack' = s \/ stack' = [s EXCEPT ![t] = <<Destroyer(c)>> \o s[t]]
    PROVE  Holders(c, mine', ctx', s) = {} <=> Unheld(c)'
<1> DEFINE D == Destroyer(c)
<1>1. D \in FrameSet /\ D.op = "destroyGuard"
      BY DestroyerFrame DEF Objects
<1>2. D \notin Keeping(c)
      BY <1>1 DEF Keeping
<1> DEFINE Any == \E u \in Threads : \E i \in 1..Len(s[u]) : s[u][i] \in Keeping(c)
<1>3. \A u \in Threads : s[u] \in Seq(FrameSet) /\ Len(s[u]) \in Nat /\ \A i \in 1..Len(s[u]) : s[u][i] \in FrameSet
      BY SeqFacts
<1> HIDE DEF D
<1>4. CASE stack' = s
  <2>1. Held(Keeping(c))' <=> Any
        BY <1>3, <1>4 DEF Held, Frames, Keeping
  <2> QED  BY <1>3, <2>1 DEF Unheld, Holders, Keeping
<1>5. CASE stack' = [s EXCEPT ![t] = <<D>> \o s[t]]
  <2>1. <<D>> \in Seq(FrameSet) /\ Len(<<D>>) = 1 /\ <<D>>[1] = D
        BY <1>1
  <2> DEFINE n == <<D>>
  <2>2. stack'[t] = n \o s[t] /\ \A u \in Threads : u # t => stack'[u] = s[u]
        BY <1>5
  <2>3. n \in Seq(FrameSet) /\ Len(n) = 1 /\ n[1] = D /\ s[t] \in Seq(FrameSet)
        BY <2>1
  <2> HIDE DEF n
  <2>4. /\ Len(n \o s[t]) = Len(n) + Len(s[t])
        /\ \A i \in 1..Len(n) : (n \o s[t])[i] = n[i]
        /\ \A i \in 1..Len(s[t]) : (n \o s[t])[i + Len(n)] = s[t][i]
        BY <2>3, ConcatFacts
  <2>5. ASSUME NEW u \in Threads, NEW i \in 1..Len(s[u]), s[u][i] \in Keeping(c)
        PROVE  Held(Keeping(c))'
    <3>1. CASE u # t
          BY <1>3, <2>2, <2>5, <3>1 DEF Held, Frames
    <3>2. CASE u = t
      <4>1. i + 1 \in 1..Len(stack'[t]) /\ stack'[t][i + 1] = s[t][i]
            BY <1>3, <2>2, <2>3, <2>4, <3>2
      <4> QED  BY <1>3, <2>5, <3>2, <4>1 DEF Held, Frames
    <3> QED  BY <3>1, <3>2
  <2>6. ASSUME NEW u \in Threads, NEW i \in 1..Len(stack'[u]), stack'[u][i] \in Keeping(c)
        PROVE  Any
    <3>1. CASE u # t
          BY <1>3, <2>2, <2>6, <3>1
    <3>2. CASE u = t
      <4>1. i # 1
            BY <1>2, <2>2, <2>3, <2>4, <2>6, <3>2
      <4> DEFINE k == i - 1
      <4>2. k \in 1..Len(s[t]) /\ k + Len(n) = i
            BY <1>3, <2>2, <2>3, <2>4, <3>2, <4>1
      <4> HIDE DEF k
      <4>3. stack'[t][i] = s[t][k]
            BY <2>2, <2>4, <4>2
      <4> QED  BY <2>6, <3>2, <4>2, <4>3
    <3> QED  BY <3>1, <3>2
  <2>7. Held(Keeping(c))' <=> Any
        BY <2>5, <2>6 DEF Held, Frames
  <2> QED  BY <1>3, <2>7 DEF Unheld, Holders, Keeping
<1> QED  BY <1>4, <1>5 DEF D

(* The last holder of c is gone: its destructor is about to run. *)
Orphaned(c) == binding = "cpp" /\ c \notin closed /\ Unheld(c)'

LEMMA DropGoes ==
    ASSUME NEW t \in Threads, NEW c \in Conds, NEW s \in [Threads -> Seq(FrameSet)],
           stack' = AfterDrop(t, c, mine', ctx', s)
    PROVE  /\ Orphaned(c) => stack' = [s EXCEPT ![t] = <<Destroyer(c)>> \o s[t]]
           /\ ~Orphaned(c) => stack' = s
<1>1. stack' = s \/ stack' = [s EXCEPT ![t] = <<Destroyer(c)>> \o s[t]]
      BY DEF AfterDrop
<1>2. Holders(c, mine', ctx', s) = {} <=> Unheld(c)'
      BY <1>1, HoldersOf
<1> QED  BY <1>2 DEF AfterDrop, LastHolder, Orphaned

LEMMA ReturnDropGoes ==
    ASSUME StacksTyped, NEW t \in Threads, stack[t] # <<>>, NEW c \in Conds,
           stack' = AfterDrop(t, c, mine', ctx', Return(t))
    PROVE  /\ Orphaned(c) => Swapped(t, {Top(t)}, {Destroyer(c)})
           /\ ~Orphaned(c) => Swapped(t, {Top(t)}, {})
<1> DEFINE s == Return(t)
<1>1. s \in [Threads -> Seq(FrameSet)] /\ s[t] = Tail(stack[t]) /\ s = [stack EXCEPT ![t] = Tail(stack[t])]
      BY TailFacts DEF Return, StacksTyped
<1>2. [s EXCEPT ![t] = <<Destroyer(c)>> \o s[t]] = [stack EXCEPT ![t] = <<Destroyer(c)>> \o Tail(stack[t])]
      BY <1>1 DEF StacksTyped
<1> HIDE DEF s
<1>3. /\ Orphaned(c) => stack' = [s EXCEPT ![t] = <<Destroyer(c)>> \o s[t]]
      /\ ~Orphaned(c) => stack' = s
      BY <1>1, DropGoes DEF s
<1>4. Destroyer(c) \in FrameSet
      BY DestroyerFrame DEF Objects
<1> QED  BY <1>1, <1>2, <1>3, <1>4, GotoSwaps, ReturnSwaps

LEMMA GotoDropGoes ==
    ASSUME StacksTyped, NEW t \in Threads, stack[t] # <<>>, NEW c \in Conds, NEW g \in FrameSet,
           g # Destroyer(c), stack' = AfterDrop(t, c, mine', ctx', GotoWith(t, g))
    PROVE  /\ Orphaned(c) => Swapped(t, {Top(t)}, {g, Destroyer(c)})
           /\ ~Orphaned(c) => Swapped(t, {Top(t)}, {g})
<1> DEFINE s == GotoWith(t, g)  v == <<g>> \o Tail(stack[t])
<1>0. <<g>> \in Seq(FrameSet) /\ Tail(stack[t]) \in Seq(FrameSet)
      BY TailFacts
<1>5. v \in Seq(FrameSet)
      BY <1>0, ConcatProperties
<1>1. s \in [Threads -> Seq(FrameSet)] /\ s[t] = v /\ s = [stack EXCEPT ![t] = v]
      BY <1>5 DEF GotoWith, StacksTyped
<1>2. [s EXCEPT ![t] = <<Destroyer(c)>> \o s[t]] = [stack EXCEPT ![t] = <<Destroyer(c)>> \o v]
      BY <1>1 DEF StacksTyped
<1> HIDE DEF s
<1>3. /\ Orphaned(c) => stack' = [s EXCEPT ![t] = <<Destroyer(c)>> \o s[t]]
      /\ ~Orphaned(c) => stack' = s
      BY <1>1, DropGoes DEF s
<1>4. Destroyer(c) \in FrameSet
      BY DestroyerFrame DEF Objects
<1> QED  BY <1>1, <1>2, <1>3, <1>4, GotoSwaps, GotoCallSwaps

LEMMA StayDropGoes ==
    ASSUME StacksTyped, NEW t \in Threads, NEW c \in Conds, stack' = AfterDrop(t, c, mine', ctx', stack)
    PROVE  /\ Orphaned(c) => Swapped(t, {}, {Destroyer(c)})
           /\ ~Orphaned(c) => Swapped(t, {}, {})
<1>3. /\ Orphaned(c) => stack' = [stack EXCEPT ![t] = <<Destroyer(c)>> \o stack[t]]
      /\ ~Orphaned(c) => stack' = stack
      BY DropGoes DEF StacksTyped
<1>4. Destroyer(c) \in FrameSet
      BY DestroyerFrame DEF Objects
<1> QED  BY <1>3, <1>4, CallSwaps, StaySwaps

-------------------------------------------------------------------------------
(* The parts of the inductive invariant.                                       *)

(* A call that has appended its entry finds it there; a scan looks at          *)
(* conditions that are attached.                                               *)
AddingSound == \A h \in Frames : h.op = "attach" /\ h.at \in {"acquire", "register"} =>
                                    [c |-> h.c, x |-> h.x] \in attached[h.w]
ScanSound   == \A h \in Frames : h.op = "wait" => \A c \in h.todo : Entry(h.w, c)

(* An attachment in flight: its entry is gone, its reference is not. *)
ReleaseSound == \A w \in WaitSetIds, c \in Conds :
                   Once(Releasing(w, c)) /\ (Held(Releasing(w, c)) => ~Entry(w, c))
EntriesApart == \A w \in WaitSetIds : \A e, d \in attached[w] : e.c = d.c => e = d

(* A live context has exactly one owner, an entry or a frame. *)
OwnedOnce(x) ==
    /\ Once(Owning(x))
    /\ \A h \in Frames : h \in Owning(x) => ctx[x].live /\ ctx[x].c = h.c
    /\ \A w \in WaitSetIds : \A e \in attached[w] : e.x = x => ctx[x].live /\ ctx[x].c = e.c /\ ~Held(Owning(x))
    /\ \A w, v \in WaitSetIds : \A e \in attached[w], d \in attached[v] : e.x = x /\ d.x = x => w = v /\ e = d
    /\ ctx[x].live => Held(Owning(x)) \/ EntryX(x)
OwnSound == \A x \in Ctxs : OwnedOnce(x)

(* With the C++ binding every attachment has a context. *)
HookSound == binding = "cpp" =>
    /\ \A h \in Frames : h.op = "attach" /\ h.at # "alloc" => h.x # None
    /\ \A w \in WaitSetIds : \A e \in attached[w] : e.x # None

(* What a call is about is kept by the application, or by the call. *)
UseSound == \A h \in Frames :
    /\ h.op = "attach" => h.c \in made /\ ~Destroying(h.c)
    /\ h.op = "set" => h.c \in mine
    /\ h.op \in {"attach", "detach", "wait"} => h.w \in mine
    /\ h.op = "detach" => h.c \in made

(* Whoever tears an object down is the only one to do so. *)
TearSound ==
    /\ \A h \in Frames :
         /\ h.op = "destroyGuard" => h.c \in made /\ h.c \notin mine /\ (h.at = "close" <=> h.c \notin closed)
         /\ h.op = "destroyWaitSet" => h.w \in made /\ h.w \notin mine /\ (h.at = "close" <=> h.w \notin closed)
    /\ mine \cap closed = {}
    /\ \A c \in Conds : Once(DestroyG(c))
    /\ \A w \in WaitSetIds : Once(DestroyW(w))
    /\ binding = "cpp" => \A c \in Conds \cap made : Destroying(c) <=> Unheld(c)
    /\ binding = "cpp" => \A w \in WaitSetIds \cap made : w \in mine \/ w \in closed \/ Held(DestroyW(w))

(* Memory goes with the last reference. *)
FreeSound ==
    /\ \A o \in Objects : o \notin made => refs[o] = 0
    /\ \A c \in Conds : c \in freed <=> c \in made /\ refs[c] = 0
    /\ \A w \in WaitSetIds :
         /\ Once(FreeW(w))
         /\ Held(FreeW(w)) => w \in made /\ refs[w] = 0 /\ w \notin freed
         /\ w \in freed => w \in made /\ refs[w] = 0
         /\ w \in made /\ refs[w] = 0 => w \in freed \/ Held(FreeW(w))
         /\ w \in freed \/ w \notin made => attached[w] = {}

(* The counts: the owner's reference and, of a condition, one for each         *)
(* attachment, of a wait set, one for each condition that has pinned it.       *)
OwnerRef(o) == o \in made /\ (o \notin closed \/ Held(DestroyG(o)) \/ Held(DestroyW(o)))
Attached(w, c) == (Entry(w, c) /\ ~Held(Adding(w, c, "acquire"))) \/ Held(Releasing(w, c))
Attachments(c) == {w \in WaitSetIds : Attached(w, c)}
Pins(w)        == {c \in Conds : Held(Pinning(c, w))}
One(b) == IF b THEN 1 ELSE 0

CountedC == \A c \in Conds : refs[c] = One(OwnerRef(c)) + Cardinality(Attachments(c))
CountedW == \A w \in WaitSetIds : refs[w] = One(OwnerRef(w)) + Cardinality(Pins(w))

(* A condition knows the wait sets it is attached to, until it tells them that *)
(* it goes.                                                                    *)
ListedFrom == \A c \in Conds : \A w \in wakeups[c] :
    /\ \/ Entry(w, c) /\ ~Held(Adding(w, c, "acquire")) /\ ~Held(Adding(w, c, "register"))
       \/ Held(Removing(w, c))
    /\ c \in closed => \E h \in Frames : h.op = "destroyGuard" /\ h.c = c /\ h.at = "drain"
ListedTo == \A w \in WaitSetIds : \A e \in attached[w] :
    \/ w \in wakeups[e.c] \/ Held(Adding(w, e.c, "acquire")) \/ Held(Adding(w, e.c, "register")) \/ Held(FreeW(w))
    \/ \E h \in Frames : h.op = "destroyGuard" /\ h.c = e.c /\ w \in h.todo

(* A trigger that a wait has not seen yet is being notified, or was. *)
OwedSound == \A p \in owed :
    /\ p[1] \in wakeups[p[2]]
    /\ \/ \E h \in Frames : h.op = "set" /\ h.c = p[2]
       \/ notified[p[1]]
       \/ \A h \in Frames : h.op = "wait" /\ h.w = p[1] => h.at = "lock"
OneWaiter == \A w \in WaitSetIds : Once(WaitOn(w))

Inv == /\ Typed /\ Mutex /\ AddingSound /\ ScanSound /\ ReleaseSound /\ EntriesApart /\ OwnSound /\ HookSound
       /\ UseSound /\ TearSound /\ FreeSound /\ CountedC /\ CountedW /\ ListedFrom /\ ListedTo
       /\ OwedSound /\ OneWaiter

-------------------------------------------------------------------------------
(* The lock of a wait set.                                                     *)

LEMMA InsidePlaces ==
    ASSUME NEW f \in FrameSet, NEW w
    PROVE  f \in InsideOf(w) <=>
             /\ f.w = w
             /\ <<f.op, f.at>> \in {<<"attach", "acquire">>, <<"attach", "register">>,
                                    <<"detach", "unregister">>, <<"detach", "release">>, <<"wait", "scan">>}
BY DEF InsideOf

LEMMA MutexKept ==
    ASSUME Typed, Mutex, NEW t \in Threads, NEW P, NEW N, Swapped(t, P, N), UNCHANGED mu,
           IF stack[t] = <<>> THEN TRUE ELSE \A w \in WaitSetIds : Top(t) \notin InsideOf(w),
           \A w \in WaitSetIds : N \cap InsideOf(w) = {}
    PROVE  Mutex'
<1>1. HolderRuns'
  <2> SUFFICES ASSUME NEW w \in WaitSetIds, mu[w] # None
               PROVE  /\ ~Idle(mu[w])' /\ Top(mu[w])'.w = w
                      /\ <<Top(mu[w])'.op, Top(mu[w])'.at>> \in
                           {<<"attach", "acquire">>, <<"attach", "register">>,
                            <<"detach", "unregister">>, <<"detach", "release">>, <<"wait", "scan">>}
      BY DEF HolderRuns
  <2>1. /\ ~Idle(mu[w]) /\ Top(mu[w]).w = w
        /\ <<Top(mu[w]).op, Top(mu[w]).at>> \in
                           {<<"attach", "acquire">>, <<"attach", "register">>,
                            <<"detach", "unregister">>, <<"detach", "release">>, <<"wait", "scan">>}
        BY DEF Mutex, HolderRuns
  <2>2. mu[w] # t
    <3>1. SUFFICES ASSUME mu[w] = t PROVE FALSE
          OBVIOUS
    <3>2. stack[t] # <<>> /\ Top(t) \in FrameSet
          BY <2>1, <3>1, TopFrame DEF Idle, Typed
    <3> QED  BY <2>1, <3>1, <3>2, InsidePlaces
  <2>3. mu[w] \in Threads
        BY DEF Typed
  <2> QED  BY <2>1, <2>2, <2>3 DEF Swapped, Idle, Top
<1>2. ASSUME NEW w \in WaitSetIds PROVE Once(InsideOf(w))' /\ (Held(InsideOf(w))' => mu'[w] # None)
  <2>1. Once(InsideOf(w)) /\ (Held(InsideOf(w)) => mu[w] # None) /\ N \cap InsideOf(w) = {}
        BY DEF Mutex
  <2> QED  BY <2>1 DEF Swapped, Held
<1> QED  BY <1>1, <1>2 DEF Mutex

(* What HolderRuns says of one wait set. *)
Holder(w) ==
    mu[w] # None => /\ ~Idle(mu[w]) /\ Top(mu[w]).w = w
                    /\ <<Top(mu[w]).op, Top(mu[w]).at>> \in
                         {<<"attach", "acquire">>, <<"attach", "register">>,
                          <<"detach", "unregister">>, <<"detach", "release">>, <<"wait", "scan">>}

(* Another wait set's lock, seen from a step of t inside w. *)
LEMMA HolderElsewhere ==
    ASSUME Typed, Mutex, NEW t \in Threads, NEW P, NEW N, Swapped(t, P, N), NEW w \in WaitSetIds,
           NEW v \in WaitSetIds, v # w, mu'[v] = mu[v],
           stack[t] # <<>>, \A u \in WaitSetIds \ {w} : Top(t) \notin InsideOf(u)
    PROVE  Holder(v)'
<1>1. SUFFICES ASSUME mu[v] # None PROVE Holder(v)'
      BY DEF Holder
<1>2. Holder(v)
      BY DEF Mutex, HolderRuns, Holder
<1>3. mu[v] # t
  <2>1. SUFFICES ASSUME mu[v] = t PROVE FALSE
        OBVIOUS
  <2>2. Top(t) \in FrameSet
        BY TopFrame DEF Typed
  <2> QED  BY <1>1, <1>2, <2>1, <2>2, InsidePlaces DEF Holder
<1>4. mu[v] \in Threads
      BY <1>1 DEF Typed
<1> QED  BY <1>1, <1>2, <1>3, <1>4 DEF Swapped, Idle, Top, Holder

LEMMA MutexEnter ==
    ASSUME Typed, Mutex, WaitSetsAssumption, NEW t \in Threads, NEW w \in WaitSetIds, NEW g \in FrameSet,
           Swapped(t, {Top(t)}, {g}), mu[w] = None, mu' = [mu EXCEPT ![w] = t], stack[t] # <<>>,
           \A u \in WaitSetIds : Top(t) \notin InsideOf(u), g \in InsideOf(w)
    PROVE  Mutex'
<1>1. ASSUME NEW v \in WaitSetIds PROVE Holder(v)'
  <2>1. CASE v # w
        BY <2>1, HolderElsewhere DEF Typed
  <2>2. CASE v = w
    <3>0. mu'[w] = t
          BY DEF Typed
    <3>1. mu'[w] = t /\ stack'[t] # <<>> /\ stack'[t][1] = g
          BY <3>0 DEF Swapped
    <3>2. Top(t)' = g
      <4>1. stack'[t] \in Seq(FrameSet)
            BY DEF Swapped, StacksTyped
      <4> QED  BY <3>1, <4>1, SeqFacts DEF Top
    <3> QED  BY <2>2, <3>1, <3>2, InsidePlaces DEF Holder, Idle
  <2> QED  BY <2>1, <2>2
<1>2. ASSUME NEW v \in WaitSetIds PROVE Once(InsideOf(v))' /\ (Held(InsideOf(v))' => mu'[v] # None)
  <2>1. Once(InsideOf(v)) /\ (Held(InsideOf(v)) => mu[v] # None)
        BY DEF Mutex
  <2>2. CASE v # w
    <3>1. {g} \cap InsideOf(v) = {}
          BY <2>2 DEF InsideOf
    <3> QED  BY <2>1, <2>2, <3>1 DEF Swapped, Held, Typed
  <2>3. CASE v = w
    <3>1. {g} \cap InsideOf(w) = {g} /\ Frames \cap InsideOf(w) = {}
          BY <2>1, <2>3 DEF Held
    <3>2. mu'[w] = t /\ t # None
          BY DEF Typed, WaitSetsAssumption
    <3> QED  BY <2>1, <2>3, <3>1, <3>2 DEF Swapped
  <2> QED  BY <2>2, <2>3
<1> QED  BY <1>1, <1>2 DEF Mutex, HolderRuns, Holder

LEMMA MutexStay ==
    ASSUME Typed, Mutex, NEW t \in Threads, NEW w \in WaitSetIds, NEW g \in FrameSet,
           Swapped(t, {Top(t)}, {g}), UNCHANGED mu, stack[t] # <<>>, Top(t) \in InsideOf(w), g \in InsideOf(w)
    PROVE  Mutex'
<1>0. \A u \in WaitSetIds \ {w} : Top(t) \notin InsideOf(u) /\ g \notin InsideOf(u)
      BY DEF InsideOf
<1>1. ASSUME NEW v \in WaitSetIds PROVE Holder(v)'
  <2>1. CASE v # w
        BY <1>0, <2>1, HolderElsewhere
  <2>2. CASE v = w
    <3>1. stack'[t] # <<>> /\ stack'[t][1] = g
          BY DEF Swapped
    <3>2. Top(t)' = g
      <4>1. stack'[t] \in Seq(FrameSet)
            BY DEF Swapped, StacksTyped
      <4> QED  BY <3>1, <4>1, SeqFacts DEF Top
    <3>3. mu[w] = t \/ mu[w] = None
      <4>1. SUFFICES ASSUME mu[w] # None PROVE mu[w] = t
            OBVIOUS
      <4>2. mu[w] \in Threads /\ stack[mu[w]] # <<>>
            BY <4>1 DEF Typed, Mutex, HolderRuns, Idle
      <4>5. Top(mu[w]) \in FrameSet
            BY <4>2, TopFrame DEF Typed
      <4>3. Top(mu[w]) \in InsideOf(w)
            BY <4>1, <4>5, InsidePlaces DEF Mutex, HolderRuns
      <4>4. 1 \in 1..Len(stack[t]) /\ 1 \in 1..Len(stack[mu[w]]) /\ Top(t) = stack[t][1] /\ Top(mu[w]) = stack[mu[w]][1]
            BY <4>2, TopFrame DEF Typed
      <4> QED  BY <4>2, <4>3, <4>4 DEF Mutex, Once
    <3> QED  BY <2>2, <3>1, <3>2, <3>3, InsidePlaces DEF Holder, Idle
  <2> QED  BY <2>1, <2>2
<1>2. ASSUME NEW v \in WaitSetIds PROVE Once(InsideOf(v))' /\ (Held(InsideOf(v))' => mu'[v] # None)
  <2>1. Once(InsideOf(v)) /\ (Held(InsideOf(v)) => mu[v] # None)
        BY DEF Mutex
  <2>2. CASE v # w
    <3>1. {g} \cap InsideOf(v) = {}
          BY <1>0, <2>2
    <3> QED  BY <2>1, <2>2, <3>1 DEF Swapped, Held
  <2>3. CASE v = w
    <3>1. {g} \cap InsideOf(w) = {g} /\ {Top(t)} \cap InsideOf(w) # {}
          OBVIOUS
    <3>2. Held(InsideOf(w))
          BY DEF Swapped, Held
    <3> QED  BY <2>1, <2>3, <3>1, <3>2 DEF Swapped
  <2> QED  BY <2>2, <2>3
<1> QED  BY <1>1, <1>2 DEF Mutex, HolderRuns, Holder

LEMMA MutexLeave ==
    ASSUME Typed, Mutex, NEW t \in Threads, NEW w \in WaitSetIds, NEW N,
           Swapped(t, {Top(t)}, N), mu' = [mu EXCEPT ![w] = None], stack[t] # <<>>, Top(t) \in InsideOf(w),
           \A u \in WaitSetIds : N \cap InsideOf(u) = {}
    PROVE  Mutex'
<1>0. \A u \in WaitSetIds \ {w} : Top(t) \notin InsideOf(u)
      BY DEF InsideOf
<1>1. ASSUME NEW v \in WaitSetIds PROVE Holder(v)'
  <2>1. CASE v # w
        BY <1>0, <2>1, HolderElsewhere DEF Typed
  <2>2. CASE v = w
        BY <2>2 DEF Holder, Typed
  <2> QED  BY <2>1, <2>2
<1>2. ASSUME NEW v \in WaitSetIds PROVE Once(InsideOf(v))' /\ (Held(InsideOf(v))' => mu'[v] # None)
  <2>1. Once(InsideOf(v)) /\ (Held(InsideOf(v)) => mu[v] # None) /\ N \cap InsideOf(v) = {}
        BY DEF Mutex
  <2>2. CASE v # w
        BY <2>1, <2>2 DEF Swapped, Held, Typed
  <2>3. CASE v = w
    <3>1. {Top(t)} \cap InsideOf(w) # {}
          OBVIOUS
    <3> QED  BY <2>1, <2>3, <3>1 DEF Swapped, Held
  <2> QED  BY <2>2, <2>3
<1> QED  BY <1>1, <1>2 DEF Mutex, HolderRuns, Holder

-------------------------------------------------------------------------------
(* Steps that touch no attachment: the frames they pop and push hold no lock   *)
(* and no reference, and nothing has been closed for the destructors they      *)
(* call.                                                                       *)

Soft(h) ==
    \/ h.op \in {"attach", "detach", "wait", "set"} /\ h.at \notin {"acquire", "register", "unregister", "release"}
    \/ h.op = "destroyGuard" /\ h.at = "close" /\ h.c \notin closed
    \/ h.op = "destroyWaitSet" /\ h.at = "close" /\ h.w \notin closed

LEMMA SoftKept ==
    ASSUME Inv, NEW t \in Threads, NEW P, NEW N, Swapped(t, P, N), \A h \in P \cup N : h \in FrameSet /\ Soft(h),
           UNCHANGED <<made, attached, wakeups, refs, closed, freed>>
    PROVE  /\ ReleaseSound' /\ EntriesApart' /\ FreeSound' /\ CountedC' /\ CountedW' /\ ListedFrom' /\ ListedTo'
           /\ AddingSound'
<1>0. Frames' \subseteq Frames \cup N /\ Frames \subseteq Frames' \cup P
      BY DEF Swapped
<1>1. ASSUME NEW w \in WaitSetIds, NEW c \in Conds
      PROVE  /\ Held(Releasing(w, c))' <=> Held(Releasing(w, c))
             /\ Once(Releasing(w, c)) => Once(Releasing(w, c))'
             /\ Held(Pinning(c, w))' <=> Held(Pinning(c, w))
             /\ \A at \in {"acquire", "register"} : Held(Adding(w, c, at))' <=> Held(Adding(w, c, at))
             /\ Held(Removing(w, c))' <=> Held(Removing(w, c))
  <2>1. \A h \in P \cup N : /\ h \notin Releasing(w, c) /\ h \notin Removing(w, c)
                            /\ h \notin Adding(w, c, "acquire") /\ h \notin Adding(w, c, "register")
        BY DEF Soft, Releasing, Removing, Adding
  <2>2. \A h \in P \cup N : h \notin Pinning(c, w)
    <3> SUFFICES ASSUME NEW h \in P \cup N, h \in Pinning(c, w) PROVE FALSE
        OBVIOUS
    <3>1. h.op = "destroyGuard" /\ h.at = "close" /\ (w \in h.todo \/ w = h.w) /\ Fit(h)
          BY DEF Soft, Pinning, FrameSet
    <3>2. h.w = None /\ h.todo = {}
          BY <3>1 DEF Fit
    <3>3. w = None
          BY <3>1, <3>2
    <3> QED  BY <3>3, WaitSetsAssumption DEF WaitSetsAssumption
  <2>3. Once(Releasing(w, c)) => Once(Releasing(w, c))'
    <3>1. N \cap Releasing(w, c) = {}
          BY <2>1
    <3> QED  BY <3>1 DEF Swapped
  <2> QED  BY <1>0, <2>1, <2>2, <2>3 DEF Held
<1>2. \A w \in WaitSetIds, c \in Conds : Entry(w, c)' <=> Entry(w, c)
      BY DEF Entry
<1>3. ReleaseSound'
      BY <1>1, <1>2 DEF Inv, ReleaseSound
<1>4. EntriesApart'
      BY DEF Inv, EntriesApart
<1>12. ASSUME NEW w \in WaitSetIds
       PROVE  (Held(FreeW(w))' <=> Held(FreeW(w))) /\ (Once(FreeW(w)) => Once(FreeW(w))')
  <2>1. \A h \in P \cup N : h \notin FreeW(w)
        BY DEF Soft, FreeW
  <2>2. N \cap FreeW(w) = {}
        BY <2>1
  <2> QED  BY <1>0, <2>1, <2>2 DEF Held, Swapped
<1>5. FreeSound'
      BY <1>12 DEF Inv, FreeSound
<1>6. \A o \in Objects : OwnerRef(o)' <=> OwnerRef(o)
  <2> SUFFICES ASSUME NEW o \in Objects, o \in made, o \in closed
               PROVE  (Held(DestroyG(o))' <=> Held(DestroyG(o))) /\ (Held(DestroyW(o))' <=> Held(DestroyW(o)))
      BY DEF OwnerRef
  <2>1. \A h \in P \cup N : h \notin DestroyG(o) /\ h \notin DestroyW(o)
        BY DEF Soft, DestroyG, DestroyW
  <2> QED  BY <1>0, <2>1 DEF Held
<1>7. CountedC'
  <2> SUFFICES ASSUME NEW c \in Conds PROVE refs'[c] = One(OwnerRef(c)') + Cardinality(Attachments(c)')
      BY DEF CountedC, One
  <2>1. Attachments(c)' = Attachments(c)
        BY <1>1, <1>2 DEF Attachments, Attached
  <2>2. c \in Objects
        BY DEF Objects
  <2> QED  BY <1>6, <2>1, <2>2 DEF Inv, CountedC, One
<1>8. CountedW'
  <2> SUFFICES ASSUME NEW w \in WaitSetIds PROVE refs'[w] = One(OwnerRef(w)') + Cardinality(Pins(w)')
      BY DEF CountedW, One
  <2>1. Pins(w)' = Pins(w)
        BY <1>1 DEF Pins
  <2>2. w \in Objects
        BY DEF Objects
  <2> QED  BY <1>6, <2>1, <2>2 DEF Inv, CountedW, One
<1>9. ListedFrom'
  <2> SUFFICES ASSUME NEW c \in Conds, NEW w \in wakeups[c]
               PROVE  /\ \/ Entry(w, c)' /\ ~Held(Adding(w, c, "acquire"))' /\ ~Held(Adding(w, c, "register"))'
                         \/ Held(Removing(w, c))'
                      /\ c \in closed => \E h \in Frames' : h.op = "destroyGuard" /\ h.c = c /\ h.at = "drain"
      BY DEF ListedFrom
  <2>1. w \in WaitSetIds
        BY DEF Inv, Typed
  <2>2. /\ \/ Entry(w, c) /\ ~Held(Adding(w, c, "acquire")) /\ ~Held(Adding(w, c, "register"))
           \/ Held(Removing(w, c))
        /\ c \in closed => \E h \in Frames : h.op = "destroyGuard" /\ h.c = c /\ h.at = "drain"
        BY DEF Inv, ListedFrom
  <2>3. ASSUME NEW h \in Frames, h.op = "destroyGuard", h.at = "drain" PROVE h \in Frames'
        BY <1>0, <2>3 DEF Soft
  <2> QED  BY <1>1, <1>2, <2>1, <2>2, <2>3
<1>10. ListedTo'
  <2> SUFFICES ASSUME NEW w \in WaitSetIds, NEW e \in attached[w]
               PROVE  \/ w \in wakeups[e.c] \/ Held(Adding(w, e.c, "acquire"))' \/ Held(Adding(w, e.c, "register"))'
                      \/ Held(FreeW(w))' \/ \E h \in Frames' : h.op = "destroyGuard" /\ h.c = e.c /\ w \in h.todo
      BY DEF ListedTo
  <2>1. e.c \in Conds
        BY DEF Inv, Typed
  <2>2. \/ w \in wakeups[e.c] \/ Held(Adding(w, e.c, "acquire")) \/ Held(Adding(w, e.c, "register"))
        \/ Held(FreeW(w)) \/ \E h \in Frames : h.op = "destroyGuard" /\ h.c = e.c /\ w \in h.todo
        BY DEF Inv, ListedTo
  <2>3. ASSUME NEW h \in Frames, h.op = "destroyGuard", h.c = e.c, w \in h.todo PROVE h \in Frames'
    <3>1. h \in Pinning(e.c, w)
          BY <2>3 DEF Pinning, Frames
    <3>2. SUFFICES ASSUME h \in P PROVE FALSE
          BY <1>0
    <3>3. h.at = "close" /\ Fit(h)
          BY <2>3, <3>2 DEF Soft, FrameSet
    <3> QED  BY <2>3, <3>3 DEF Fit
  <2> QED  BY <1>1, <1>12, <2>1, <2>2, <2>3
<1>11. AddingSound'
      BY <1>0 DEF Inv, AddingSound, Soft
<1> QED  BY <1>3, <1>4, <1>5, <1>7, <1>8, <1>9, <1>10, <1>11

-------------------------------------------------------------------------------
(* Calls begin.                                                                *)

LEMMA CallAttachInv ==
    ASSUME Inv, NEW t \in Threads, NEW w \in WaitSetIds, NEW c \in Conds, CallAttach(t, w, c)
    PROVE  Inv'
<1> PICK g : g = Frame("attach", (IF hooked THEN "alloc" ELSE "retired"), w, c, None)
    OBVIOUS
<1>1. g.op = "attach" /\ g.at = (IF hooked THEN "alloc" ELSE "retired") /\ g.w = w /\ g.c = c /\ g.x = None /\ g.todo = {}
      BY FrameFields
<1>2. g \in FrameSet
  <2>1. g \in RawFrames
        BY NewFrame DEF Ops, Ats
  <2> QED  BY <1>1, <2>1 DEF FrameSet, Fit
<1>3. stack[t] = <<>> /\ Swapped(t, {}, {g}) /\ Frames' \subseteq Frames \cup {g} /\ Frames \subseteq Frames' /\ g \in Frames'
  <2>1. Swapped(t, {}, {g})
        BY <1>2, CallGoes DEF CallAttach, Inv, Typed
  <2> QED  BY <2>1 DEF CallAttach, Idle, Swapped
<1>5. w \in mine /\ c \in mine /\ UNCHANGED <<binding, hooked, made, mine, attached, mu, notified, wakeups, trigger, refs, closed, retired, freed, ctx, owed>>
      BY DEF CallAttach
<1>4. /\ ReleaseSound' /\ EntriesApart' /\ FreeSound' /\ CountedC' /\ CountedW' /\ ListedFrom' /\ ListedTo'
      /\ AddingSound'
      BY <1>1, <1>2, <1>3, <1>5, SoftKept DEF Soft
<1>20. Typed'
      BY <1>1, <1>3, <1>5 DEF Inv, Typed, Swapped
<1>21. Mutex'
  <2>1. \A v \in WaitSetIds : {g} \cap InsideOf(v) = {}
        BY <1>1 DEF InsideOf
  <2> QED  BY <1>3, <1>5, <2>1, MutexKept DEF Inv
<1>23. ScanSound'
      BY <1>1, <1>3, <1>5 DEF Inv, ScanSound, Entry
<1>26. OwnSound'
  <2> SUFFICES ASSUME NEW y \in Ctxs PROVE OwnedOnce(y)'
      BY DEF OwnSound
  <2>1. OwnedOnce(y)
        BY DEF Inv, OwnSound
  <2>2. g \notin Owning(y) /\ {g} \cap Owning(y) = {}
        BY <1>1, WaitSetsAssumption DEF Owning, WaitSetsAssumption
  <2> QED  BY <1>3, <1>5, <2>1, <2>2 DEF OwnedOnce, Held, EntryX, Swapped
<1>27. HookSound'
      BY <1>1, <1>3, <1>5 DEF Inv, Typed, HookSound
<1>28. UseSound'
  <2>1. c \in made /\ ~Destroying(c)
        BY <1>5 DEF Inv, Typed, TearSound, Destroying, Held, DestroyG
  <2> QED  BY <1>1, <1>3, <1>5, <2>1 DEF Inv, UseSound, Destroying, Held, DestroyG
<1>29. TearSound'
      BY <1>1, <1>3, <1>5 DEF Inv, TearSound, Destroying, Unheld, Held, DestroyG, DestroyW, Keeping, Swapped
<1>35. OwedSound'
      BY <1>1, <1>3, <1>5 DEF Inv, OwedSound
<1>36. OneWaiter'
  <2> SUFFICES ASSUME NEW v \in WaitSetIds PROVE Once(WaitOn(v))'
      BY DEF OneWaiter
  <2>1. Once(WaitOn(v))
        BY DEF Inv, OneWaiter
  <2> QED  BY <1>1, <1>3, <1>5, <2>1 DEF WaitOn, Swapped
<1> QED  BY <1>4, <1>20, <1>21, <1>23, <1>26, <1>27, <1>28, <1>29, <1>35, <1>36 DEF Inv

LEMMA CallDetachInv ==
    ASSUME Inv, NEW t \in Threads, NEW w \in WaitSetIds, NEW c \in Conds, CallDetach(t, w, c)
    PROVE  Inv'
<1> PICK g : g = Frame("detach", "lock", w, c, None)
    OBVIOUS
<1>1. g.op = "detach" /\ g.at = "lock" /\ g.w = w /\ g.c = c /\ g.x = None /\ g.todo = {}
      BY FrameFields
<1>2. g \in FrameSet
  <2>1. g \in RawFrames
        BY NewFrame DEF Ops, Ats
  <2> QED  BY <1>1, <2>1 DEF FrameSet, Fit
<1>3. stack[t] = <<>> /\ Swapped(t, {}, {g}) /\ Frames' \subseteq Frames \cup {g} /\ Frames \subseteq Frames' /\ g \in Frames'
  <2>1. Swapped(t, {}, {g})
        BY <1>2, CallGoes DEF CallDetach, Inv, Typed
  <2> QED  BY <2>1 DEF CallDetach, Idle, Swapped
<1>5. w \in mine /\ c \in mine /\ UNCHANGED <<binding, hooked, made, mine, attached, mu, notified, wakeups, trigger, refs, closed, retired, freed, ctx, owed>>
      BY DEF CallDetach
<1>4. /\ ReleaseSound' /\ EntriesApart' /\ FreeSound' /\ CountedC' /\ CountedW' /\ ListedFrom' /\ ListedTo'
      /\ AddingSound'
      BY <1>1, <1>2, <1>3, <1>5, SoftKept DEF Soft
<1>20. Typed'
      BY <1>1, <1>3, <1>5 DEF Inv, Typed, Swapped
<1>21. Mutex'
  <2>1. \A v \in WaitSetIds : {g} \cap InsideOf(v) = {}
        BY <1>1 DEF InsideOf
  <2> QED  BY <1>3, <1>5, <2>1, MutexKept DEF Inv
<1>23. ScanSound'
      BY <1>1, <1>3, <1>5 DEF Inv, ScanSound, Entry
<1>26. OwnSound'
  <2> SUFFICES ASSUME NEW y \in Ctxs PROVE OwnedOnce(y)'
      BY DEF OwnSound
  <2>1. OwnedOnce(y)
        BY DEF Inv, OwnSound
  <2> QED  BY <1>1, <1>3, <1>5, <2>1 DEF OwnedOnce, Owning, Held, EntryX, Swapped
<1>27. HookSound'
      BY <1>1, <1>3, <1>5 DEF Inv, HookSound
<1>28. UseSound'
      BY <1>1, <1>3, <1>5 DEF Inv, Typed, UseSound, Destroying, Held, DestroyG
<1>29. TearSound'
      BY <1>1, <1>3, <1>5 DEF Inv, TearSound, Destroying, Unheld, Held, DestroyG, DestroyW, Keeping, Swapped
<1>35. OwedSound'
      BY <1>1, <1>3, <1>5 DEF Inv, OwedSound
<1>36. OneWaiter'
  <2> SUFFICES ASSUME NEW v \in WaitSetIds PROVE Once(WaitOn(v))'
      BY DEF OneWaiter
  <2>1. Once(WaitOn(v))
        BY DEF Inv, OneWaiter
  <2> QED  BY <1>1, <1>3, <1>5, <2>1 DEF WaitOn, Swapped
<1> QED  BY <1>4, <1>20, <1>21, <1>23, <1>26, <1>27, <1>28, <1>29, <1>35, <1>36 DEF Inv

LEMMA CallWaitInv ==
    ASSUME Inv, NEW t \in Threads, NEW w \in WaitSetIds, CallWait(t, w)
    PROVE  Inv'
<1> PICK g : g = Frame("wait", "lock", w, None, None)
    OBVIOUS
<1>1. g.op = "wait" /\ g.at = "lock" /\ g.w = w /\ g.c = None /\ g.x = None /\ g.todo = {}
      BY FrameFields
<1>2. g \in FrameSet
  <2>1. g \in RawFrames
        BY NewFrame DEF Ops, Ats
  <2> QED  BY <1>1, <2>1 DEF FrameSet, Fit
<1>3. stack[t] = <<>> /\ Swapped(t, {}, {g}) /\ Frames' \subseteq Frames \cup {g} /\ Frames \subseteq Frames' /\ g \in Frames'
  <2>1. Swapped(t, {}, {g})
        BY <1>2, CallGoes DEF CallWait, Inv, Typed
  <2> QED  BY <2>1 DEF CallWait, Idle, Swapped
<1>5. w \in mine /\ ~InCall({"wait"}, "w", w) /\ UNCHANGED <<binding, hooked, made, mine, attached, mu, notified, wakeups, trigger, refs, closed, retired, freed, ctx, owed>>
      BY DEF CallWait
<1>4. /\ ReleaseSound' /\ EntriesApart' /\ FreeSound' /\ CountedC' /\ CountedW' /\ ListedFrom' /\ ListedTo'
      /\ AddingSound'
      BY <1>1, <1>2, <1>3, <1>5, SoftKept DEF Soft
<1>20. Typed'
      BY <1>1, <1>3, <1>5 DEF Inv, Typed, Swapped
<1>21. Mutex'
  <2>1. \A v \in WaitSetIds : {g} \cap InsideOf(v) = {}
        BY <1>1 DEF InsideOf
  <2> QED  BY <1>3, <1>5, <2>1, MutexKept DEF Inv
<1>23. ScanSound'
      BY <1>1, <1>3, <1>5 DEF Inv, ScanSound, Entry
<1>26. OwnSound'
  <2> SUFFICES ASSUME NEW y \in Ctxs PROVE OwnedOnce(y)'
      BY DEF OwnSound
  <2>1. OwnedOnce(y)
        BY DEF Inv, OwnSound
  <2> QED  BY <1>1, <1>3, <1>5, <2>1 DEF OwnedOnce, Owning, Held, EntryX, Swapped
<1>27. HookSound'
      BY <1>1, <1>3, <1>5 DEF Inv, HookSound
<1>28. UseSound'
      BY <1>1, <1>3, <1>5 DEF Inv, UseSound, Destroying, Held, DestroyG
<1>29. TearSound'
      BY <1>1, <1>3, <1>5 DEF Inv, TearSound, Destroying, Unheld, Held, DestroyG, DestroyW, Keeping, Swapped
<1>35. OwedSound'
      BY <1>1, <1>3, <1>5 DEF Inv, OwedSound
<1>36. OneWaiter'
  <2> SUFFICES ASSUME NEW v \in WaitSetIds PROVE Once(WaitOn(v))'
      BY DEF OneWaiter
  <2>1. Once(WaitOn(v))
        BY DEF Inv, OneWaiter
  <2>2. CASE v # w
    <3>1. {g} \cap WaitOn(v) = {}
          BY <1>1, <2>2 DEF WaitOn
    <3> QED  BY <1>3, <2>1, <3>1 DEF Swapped
  <2>3. CASE v = w
    <3>1. Frames \cap WaitOn(w) = {}
          BY <1>5 DEF InCall, FramesOf, Frames, WaitOn
    <3>2. {g} \cap WaitOn(w) = {g}
          BY <1>1, <1>2 DEF WaitOn
    <3> QED  BY <1>3, <2>1, <2>3, <3>1, <3>2 DEF Swapped
  <2> QED  BY <2>2, <2>3
<1> QED  BY <1>4, <1>20, <1>21, <1>23, <1>26, <1>27, <1>28, <1>29, <1>35, <1>36 DEF Inv

-------------------------------------------------------------------------------
(* Frames with several fields set anew.                                        *)

LEMMA FieldsTodo ==
    ASSUME NEW f \in RawFrames, NEW S \in SUBSET Objects
    PROVE  LET g == [f EXCEPT !.todo = S]
           IN  /\ g \in RawFrames /\ g.op = f.op /\ g.at = f.at /\ g.w = f.w /\ g.c = f.c /\ g.x = f.x /\ g.todo = S
BY DEF RawFrames

LEMMA CallSetTriggerInv ==
    ASSUME Inv, NEW t \in Threads, NEW c \in Conds, NEW v \in BOOLEAN, CallSetTrigger(t, c, v)
    PROVE  Inv'
<1>1. /\ stack[t] = <<>> /\ c \in mine /\ trigger' = [trigger EXCEPT ![c] = v]
      /\ UNCHANGED <<binding, hooked, made, mine, attached, mu, notified, wakeups, refs, closed, retired, freed, ctx>>
      BY DEF CallSetTrigger, Idle
<1> PICK g : g = Frame("set", "notify", None, c, None)
    OBVIOUS
<1>2. g.op = "set" /\ g.at = "notify" /\ g.w = None /\ g.c = c /\ g.x = None /\ g.todo = {} /\ g \in FrameSet
  <2>1. g.op = "set" /\ g.at = "notify" /\ g.w = None /\ g.c = c /\ g.x = None /\ g.todo = {}
        BY FrameFields
  <2>2. g \in RawFrames
        BY NewFrame DEF Ops, Ats
  <2> QED  BY <2>1, <2>2 DEF FrameSet, Fit
<1> DEFINE N == IF v THEN {g} ELSE {}
<1>3. Swapped(t, {}, N) /\ Frames' \subseteq Frames \cup N /\ Frames \subseteq Frames' /\ N \subseteq {g}
  <2>1. CASE v
    <3>1. stack' = Call(t, g)
          BY <2>1 DEF CallSetTrigger
    <3>2. Swapped(t, {}, {g})
          BY <1>2, <3>1, CallGoes DEF Inv, Typed
    <3> QED  BY <2>1, <3>2 DEF Swapped
  <2>2. CASE ~v
    <3>1. stack' = stack
          BY <2>2 DEF CallSetTrigger
    <3>2. Swapped(t, {}, {})
          BY <3>1, StaySwaps DEF Inv, Typed
    <3> QED  BY <2>2, <3>2 DEF Swapped
  <2> QED  BY <2>1, <2>2
<1>35. OwedSound'
  <2>1. CASE v
    <3>1. owed' = owed \cup (wakeups[c] \X {c}) /\ g \in Frames'
          BY <1>3, <2>1 DEF CallSetTrigger, Swapped
    <3> QED  BY <1>1, <1>2, <1>3, <3>1 DEF Inv, OwedSound
  <2>2. CASE ~v
    <3>1. owed' = {p \in owed : p[2] # c}
          BY <2>2 DEF CallSetTrigger
    <3> QED  BY <1>1, <1>3, <2>2, <3>1 DEF Inv, OwedSound
  <2> QED  BY <2>1, <2>2
<1>20. Typed'
  <2>1. owed' \subseteq WaitSetIds \X Conds
        BY DEF CallSetTrigger, Inv, Typed
  <2> QED  BY <1>1, <1>3, <2>1 DEF Inv, Typed, Swapped
<1> HIDE DEF N
<1>4. /\ ReleaseSound' /\ EntriesApart' /\ FreeSound' /\ CountedC' /\ CountedW' /\ ListedFrom' /\ ListedTo'
      /\ AddingSound'
      BY <1>1, <1>2, <1>3, SoftKept DEF Soft
<1>21. Mutex'
  <2>1. \A u \in WaitSetIds : N \cap InsideOf(u) = {}
        BY <1>2, <1>3 DEF InsideOf
  <2> QED  BY <1>1, <1>3, <2>1, MutexKept DEF Inv
<1>23. ScanSound'
      BY <1>1, <1>2, <1>3 DEF Inv, ScanSound, Entry
<1>26. OwnSound'
  <2> SUFFICES ASSUME NEW y \in Ctxs PROVE OwnedOnce(y)'
      BY DEF OwnSound
  <2>1. OwnedOnce(y)
        BY DEF Inv, OwnSound
  <2> QED  BY <1>1, <1>2, <1>3, <2>1 DEF OwnedOnce, Owning, Held, EntryX, Swapped
<1>27. HookSound'
      BY <1>1, <1>2, <1>3 DEF Inv, HookSound
<1>28. UseSound'
      BY <1>1, <1>2, <1>3 DEF Inv, UseSound, Destroying, Held, DestroyG
<1>29. TearSound'
      BY <1>1, <1>2, <1>3 DEF Inv, TearSound, Destroying, Unheld, Held, DestroyG, DestroyW, Keeping, Swapped
<1>36. OneWaiter'
  <2> SUFFICES ASSUME NEW w \in WaitSetIds PROVE Once(WaitOn(w))'
      BY DEF OneWaiter
  <2>1. Once(WaitOn(w))
        BY DEF Inv, OneWaiter
  <2> QED  BY <1>1, <1>2, <1>3, <2>1 DEF WaitOn, Swapped
<1> QED  BY <1>4, <1>20, <1>35, <1>21, <1>23, <1>26, <1>27, <1>28, <1>29, <1>36 DEF Inv

LEMMA NotifyAllInv ==
    ASSUME Inv, NEW t \in Threads, NotifyAll(t)
    PROVE  Inv'
<1> PICK f, w, c, x : f = Top(t) /\ w = Top(t).w /\ c = Top(t).c /\ x = Top(t).x
    OBVIOUS
<1>1. /\ stack[t] # <<>> /\ f \in FrameSet /\ f \in Frames /\ f.op = "set" /\ f.at = "notify" /\ Fit(f) /\ f \in RawFrames
      /\ f.w = w /\ f.c = c /\ f.x = x /\ c \in Conds
  <2>1. At(t, "set", "notify")
        BY DEF NotifyAll
  <2>2. /\ stack[t] # <<>> /\ f \in FrameSet /\ f \in Frames /\ f.op = "set" /\ f.at = "notify" /\ Fit(f) /\ f \in RawFrames
        /\ x \in Ctxs \cup {None}
        BY <2>1, AtTop DEF Inv, Typed
  <2> QED  BY <2>2 DEF Fit
<1>3. Swapped(t, {f}, {}) /\ Frames' \subseteq Frames /\ Frames \subseteq Frames' \cup {f}
  <2>1. stack' = Return(t)
        BY DEF NotifyAll
  <2>2. Swapped(t, {f}, {})
        BY <1>1, <2>1, ReturnGoes DEF Inv, Typed
  <2> QED  BY <2>2 DEF Swapped
<1>5. /\ notified' = [v \in WaitSetIds |-> notified[v] \/ v \in wakeups[c]]
      /\ UNCHANGED <<binding, hooked, made, mine, attached, mu, wakeups, trigger, refs, closed, retired, freed, ctx, owed>>
      BY DEF NotifyAll
<1>4. /\ ReleaseSound' /\ EntriesApart' /\ FreeSound' /\ CountedC' /\ CountedW' /\ ListedFrom' /\ ListedTo'
      /\ AddingSound'
      BY <1>1, <1>3, <1>5, SoftKept DEF Soft
<1>20. Typed'
      BY <1>1, <1>3, <1>5 DEF Inv, Typed, Swapped
<1>21. Mutex'
  <2>1. \A v \in WaitSetIds : f \notin InsideOf(v) /\ {} \cap InsideOf(v) = {}
        BY <1>1 DEF InsideOf
  <2> QED  BY <1>1, <1>3, <1>5, <2>1, MutexKept DEF Inv
<1>23. ScanSound'
      BY <1>1, <1>3, <1>5 DEF Inv, ScanSound, Entry
<1>26. OwnSound'
  <2> SUFFICES ASSUME NEW y \in Ctxs PROVE OwnedOnce(y)'
      BY DEF OwnSound
  <2>1. OwnedOnce(y)
        BY DEF Inv, OwnSound
  <2> QED  BY <1>1, <1>3, <1>5, <2>1 DEF OwnedOnce, Owning, Held, EntryX, Swapped
<1>27. HookSound'
      BY <1>1, <1>3, <1>5 DEF Inv, HookSound
<1>28. UseSound'
      BY <1>1, <1>3, <1>5 DEF Inv, UseSound, Destroying, Held, DestroyG
<1>29. TearSound'
      BY <1>1, <1>3, <1>5 DEF Inv, TearSound, Destroying, Unheld, Held, DestroyG, DestroyW, Keeping, Swapped
<1>35. OwedSound'
  <2> SUFFICES ASSUME NEW p \in owed
               PROVE  /\ p[1] \in wakeups[p[2]]
                      /\ \/ \E h \in Frames' : h.op = "set" /\ h.c = p[2]
                         \/ notified'[p[1]]
                         \/ \A h \in Frames' : h.op = "wait" /\ h.w = p[1] => h.at = "lock"
      BY <1>5 DEF OwedSound
  <2>1. /\ p[1] \in wakeups[p[2]] /\ p[1] \in WaitSetIds
        /\ \/ \E h \in Frames : h.op = "set" /\ h.c = p[2]
           \/ notified[p[1]]
           \/ \A h \in Frames : h.op = "wait" /\ h.w = p[1] => h.at = "lock"
        BY DEF Inv, OwedSound, Typed
  <2>2. CASE p[2] = c
        BY <1>5, <2>1, <2>2
  <2>3. CASE p[2] # c
        BY <1>1, <1>3, <1>5, <2>1, <2>3
  <2> QED  BY <2>2, <2>3
<1>36. OneWaiter'
  <2> SUFFICES ASSUME NEW v \in WaitSetIds PROVE Once(WaitOn(v))'
      BY DEF OneWaiter
  <2>1. Once(WaitOn(v))
        BY DEF Inv, OneWaiter
  <2> QED  BY <1>1, <1>3, <1>5, <2>1 DEF WaitOn, Swapped
<1> QED  BY <1>4, <1>20, <1>21, <1>23, <1>26, <1>27, <1>28, <1>29, <1>35, <1>36 DEF Inv

-------------------------------------------------------------------------------
(* What the frames popped and pushed mean for a set of frames.                 *)

(* Frames of S are pushed if and only if frames of S are popped. *)
Even(P, N, S) == P \cap S = {} <=> N \cap S = {}
(* At most one frame of S is pushed. *)
Single(N, S)  == \A a, b \in N \cap S : a = b

LEMMA EvenHeld ==
    ASSUME NEW t, NEW P, NEW N, Swapped(t, P, N), NEW S, Even(P, N, S)
    PROVE  Held(S)' <=> Held(S)
<1>1. Frames' \subseteq Frames \cup N /\ Frames \subseteq Frames' \cup P /\ N \subseteq Frames' /\ P \subseteq Frames
      BY DEF Swapped
<1> QED  BY <1>1 DEF Held, Even

LEMMA EvenOnce ==
    ASSUME NEW t, NEW P, NEW N, Swapped(t, P, N), NEW S, Even(P, N, S), Single(N, S), Once(S)
    PROVE  Once(S)'
<1>1. CASE N \cap S = {}
      BY <1>1 DEF Swapped
<1>2. CASE N \cap S # {}
  <2>1. PICK g : g \in N \cap S
        BY <1>2
  <2>2. N \cap S = {g} /\ P \cap S # {}
        BY <1>2, <2>1 DEF Single, Even
  <2> QED  BY <2>2 DEF Swapped
<1> QED  BY <1>1, <1>2

(* The only frame of S is popped and none is pushed. *)
LEMMA GoneHeld ==
    ASSUME NEW t, NEW P, NEW N, Swapped(t, P, N), NEW S, Once(S), P \cap S # {}, N \cap S = {}
    PROVE  ~Held(S)' /\ Once(S)'
BY DEF Swapped, Held

(* The first frame of S is pushed. *)
LEMMA NewHeld ==
    ASSUME NEW t, NEW P, NEW N, Swapped(t, P, N), NEW S, Once(S), ~Held(S), Single(N, S)
    PROVE  Once(S)' /\ (Held(S)' <=> N \cap S # {})
<1>1. Frames \cap S = {}
      BY DEF Held
<1>2. Held(S)' <=> N \cap S # {}
      BY <1>1 DEF Held, Swapped
<1>3. CASE N \cap S = {}
      BY <1>2, <1>3 DEF Swapped
<1>4. CASE N \cap S # {}
  <2>1. PICK g : g \in N \cap S
        BY <1>4
  <2>2. N \cap S = {g}
        BY <2>1 DEF Single
  <2> QED  BY <1>1, <1>2, <2>2 DEF Swapped
<1> QED  BY <1>3, <1>4

-------------------------------------------------------------------------------
(* Each part of the invariant, for steps that do not concern it.               *)

LEMMA ScanKept ==
    ASSUME Inv, NEW t, NEW P, NEW N, Swapped(t, P, N), UNCHANGED attached,
           \A h \in N : h.op = "wait" => \A c \in h.todo : Entry(h.w, c)
    PROVE  ScanSound'
<1>1. \A h \in Frames' : h \in Frames \/ h \in N
      BY DEF Swapped
<1> QED  BY <1>1 DEF Inv, ScanSound, Entry

LEMMA OwnKept ==
    ASSUME Inv, NEW t, NEW P, NEW N, Swapped(t, P, N), UNCHANGED <<attached, ctx>>,
           \A y \in Ctxs : /\ Even(P, N, Owning(y)) /\ Single(N, Owning(y))
                           /\ \A g \in N \cap Owning(y) : \E f \in P \cap Owning(y) : f.c = g.c
    PROVE  OwnSound'
<1> SUFFICES ASSUME NEW y \in Ctxs PROVE OwnedOnce(y)'
    BY DEF OwnSound
<1>1. OwnedOnce(y)
      BY DEF Inv, OwnSound
<1>2. (Held(Owning(y))' <=> Held(Owning(y))) /\ Once(Owning(y))'
      BY <1>1, EvenHeld, EvenOnce DEF OwnedOnce
<1>3. \A h \in Frames' : h \in Frames \/ h \in N
      BY DEF Swapped
<1>4. P \subseteq Frames
      BY DEF Swapped
<1>5. \A h \in Frames' : h \in Owning(y) => ctx[y].live /\ ctx[y].c = h.c
      BY <1>1, <1>3, <1>4 DEF OwnedOnce
<1> QED  BY <1>1, <1>2, <1>5 DEF OwnedOnce, EntryX

(* The owner of the context x fires it. *)
LEMMA OwnFired ==
    ASSUME Inv, NEW t, NEW P, NEW N, Swapped(t, P, N), NEW x \in Ctxs, UNCHANGED attached,
           ~ctx'[x].live, \A y \in Ctxs : y # x => ctx'[y] = ctx[y], P \cap Owning(x) # {},
           \A y \in Ctxs : N \cap Owning(y) = {} /\ (y # x => P \cap Owning(y) = {})
    PROVE  OwnSound'
<1> SUFFICES ASSUME NEW y \in Ctxs PROVE OwnedOnce(y)'
    BY DEF OwnSound
<1>1. OwnedOnce(y)
      BY DEF Inv, OwnSound
<1>3. \A h \in Frames' : h \in Owning(y) => h \in Frames
      BY DEF Swapped
<1>4. CASE y # x
  <2>1. ctx'[y] = ctx[y]
        BY <1>4
  <2>2. (Held(Owning(y))' <=> Held(Owning(y))) /\ Once(Owning(y))'
        BY <1>1, <1>4, EvenHeld, EvenOnce DEF OwnedOnce, Even, Single
  <2> QED  BY <1>1, <1>3, <2>1, <2>2 DEF OwnedOnce, EntryX
<1>5. CASE y = x
  <2>1. ~Held(Owning(x))' /\ Once(Owning(x))'
        BY <1>1, <1>5, GoneHeld DEF OwnedOnce
  <2>2. Held(Owning(x))
        BY DEF Held, Swapped
  <2> QED  BY <1>1, <1>5, <2>1, <2>2 DEF OwnedOnce, EntryX, Held
<1> QED  BY <1>4, <1>5

LEMMA HookKept ==
    ASSUME Inv, NEW t, NEW P, NEW N, Swapped(t, P, N), UNCHANGED <<binding, attached>>,
           binding = "cpp" => \A h \in N : h.op = "attach" /\ h.at # "alloc" => h.x # None
    PROVE  HookSound'
<1>1. \A h \in Frames' : h \in Frames \/ h \in N
      BY DEF Swapped
<1> QED  BY <1>1 DEF Inv, HookSound

(* What UseSound says of one frame. *)
UseOf(h) ==
    /\ h.op = "attach" => h.c \in made /\ ~Destroying(h.c)
    /\ h.op = "set" => h.c \in mine
    /\ h.op \in {"attach", "detach", "wait"} => h.w \in mine
    /\ h.op = "detach" => h.c \in made

LEMMA UseKept ==
    ASSUME Inv, NEW t, NEW P, NEW N, Swapped(t, P, N), UNCHANGED <<made, mine>>,
           \A c \in Conds : Destroying(c)' => Destroying(c),
           \A h \in N : UseOf(h) /\ (h.op = "attach" => h.c \in Conds)
    PROVE  UseSound'
<1>1. \A h \in Frames' : h \in Frames \/ h \in N
      BY DEF Swapped
<1>2. \A h \in Frames' : UseOf(h)
      BY <1>1 DEF Inv, UseSound, UseOf
<1>3. \A h \in Frames' : h.op = "attach" => h.c \in Conds
      BY <1>1 DEF Frames, FrameSet, Fit
<1> QED  BY <1>2, <1>3 DEF UseOf, UseSound

LEMMA DestroyingKept ==
    ASSUME NEW t, NEW P, NEW N, Swapped(t, P, N), UNCHANGED closed, NEW c, Even(P, N, DestroyG(c))
    PROVE  Destroying(c)' <=> Destroying(c)
<1>1. Held(DestroyG(c))' <=> Held(DestroyG(c))
      BY EvenHeld
<1> QED  BY <1>1 DEF Destroying

(* What TearSound says of one frame. *)
TearOf(h) ==
    /\ h.op = "destroyGuard" => h.c \in made /\ h.c \notin mine /\ (h.at = "close" <=> h.c \notin closed)
    /\ h.op = "destroyWaitSet" => h.w \in made /\ h.w \notin mine /\ (h.at = "close" <=> h.w \notin closed)

LEMMA TearKept ==
    ASSUME Inv, NEW t, NEW P, NEW N, Swapped(t, P, N), UNCHANGED <<binding, made, mine, closed>>,
           \A h \in N : TearOf(h),
           \A c \in Conds : /\ Even(P, N, DestroyG(c)) /\ Single(N, DestroyG(c))
                            /\ binding = "cpp" => (Unheld(c)' <=> Unheld(c)),
           \A w \in WaitSetIds : /\ Even(P, N, DestroyW(w)) /\ Single(N, DestroyW(w))
    PROVE  TearSound'
<1>1. \A h \in Frames' : h \in Frames \/ h \in N
      BY DEF Swapped
<1>2. \A h \in Frames' : TearOf(h)
      BY <1>1 DEF Inv, TearSound, TearOf
<1>3. ASSUME NEW c \in Conds PROVE Once(DestroyG(c))' /\ (Destroying(c)' <=> Destroying(c))
      BY EvenOnce, DestroyingKept DEF Inv, TearSound
<1>4. ASSUME NEW w \in WaitSetIds PROVE Once(DestroyW(w))' /\ (Held(DestroyW(w))' <=> Held(DestroyW(w)))
      BY EvenOnce, EvenHeld DEF Inv, TearSound
<1>5. binding = "cpp" => \A c \in Conds \cap made : Destroying(c)' <=> Unheld(c)'
      BY <1>3 DEF Inv, TearSound
<1>6. binding = "cpp" => \A w \in WaitSetIds \cap made : w \in mine \/ w \in closed \/ Held(DestroyW(w))'
      BY <1>4 DEF Inv, TearSound
<1>7. mine' \cap closed' = {}
      BY DEF Inv, TearSound
<1>8. TearSound' <=> /\ \A h \in Frames' : TearOf(h)
                     /\ mine' \cap closed' = {}
                     /\ \A c \in Conds : Once(DestroyG(c))'
                     /\ \A w \in WaitSetIds : Once(DestroyW(w))'
                     /\ binding = "cpp" => \A c \in Conds \cap made : Destroying(c)' <=> Unheld(c)'
                     /\ binding = "cpp" => \A w \in WaitSetIds \cap made : w \in mine \/ w \in closed \/ Held(DestroyW(w))'
      BY DEF TearSound, TearOf
<1> QED  BY <1>2, <1>3, <1>4, <1>5, <1>6, <1>7, <1>8

LEMMA UnheldKept ==
    ASSUME NEW t, NEW P, NEW N, Swapped(t, P, N), UNCHANGED <<mine, ctx>>, NEW c, Even(P, N, Keeping(c))
    PROVE  Unheld(c)' <=> Unheld(c)
<1>1. Held(Keeping(c))' <=> Held(Keeping(c))
      BY EvenHeld
<1> QED  BY <1>1 DEF Unheld

LEMMA OwedKept ==
    ASSUME Inv, NEW t, NEW P, NEW N, Swapped(t, P, N), UNCHANGED notified, owed' \subseteq owed,
           \A p \in owed' : p[1] \in wakeups'[p[2]], \A h \in P : h.op # "set",
           \A h \in N : h.op = "wait" => h.at = "lock" \/ \E f \in P : f.op = "wait" /\ f.w = h.w /\ f.at # "lock"
    PROVE  OwedSound'
<1> SUFFICES ASSUME NEW p \in owed'
             PROVE  \/ \E h \in Frames' : h.op = "set" /\ h.c = p[2]
                    \/ notified'[p[1]]
                    \/ \A h \in Frames' : h.op = "wait" /\ h.w = p[1] => h.at = "lock"
    BY DEF OwedSound
<1>1. \/ \E h \in Frames : h.op = "set" /\ h.c = p[2]
      \/ notified[p[1]]
      \/ \A h \in Frames : h.op = "wait" /\ h.w = p[1] => h.at = "lock"
      BY DEF Inv, OwedSound
<1>2. /\ \A h \in Frames' : h \in Frames \/ h \in N
      /\ \A h \in Frames : h \in Frames' \/ h \in P
      /\ P \subseteq Frames
      BY DEF Swapped
<1> QED  BY <1>1, <1>2

LEMMA OneWaiterKept ==
    ASSUME Inv, NEW t, NEW P, NEW N, Swapped(t, P, N),
           \A w \in WaitSetIds : Even(P, N, WaitOn(w)) /\ Single(N, WaitOn(w))
    PROVE  OneWaiter'
BY EvenOnce DEF Inv, OneWaiter

-------------------------------------------------------------------------------
(* The lists and the counts, for steps that leave them alone.                  *)

Draining(c)   == {f \in FrameSet : f.op = "destroyGuard" /\ f.c = c /\ f.at = "drain"}
Telling(w, c) == {f \in FrameSet : f.op = "destroyGuard" /\ f.c = c /\ w \in f.todo}

(* Nobody begins or ends to have a reference, an entry or a free of its own. *)
LevelAt(P, N, w, c) ==
    /\ Even(P, N, Releasing(w, c)) /\ Single(N, Releasing(w, c))
    /\ Even(P, N, Pinning(c, w)) /\ Even(P, N, Telling(w, c)) /\ Even(P, N, Removing(w, c))
    /\ Even(P, N, Adding(w, c, "acquire")) /\ Even(P, N, Adding(w, c, "register"))
LevelW(P, N, w) == Even(P, N, FreeW(w)) /\ Single(N, FreeW(w)) /\ (w \in closed => Even(P, N, DestroyW(w)))
LevelC(P, N, c) == Even(P, N, Draining(c)) /\ (c \in closed => Even(P, N, DestroyG(c)))
Level(P, N) ==
    /\ \A w \in WaitSetIds, c \in Conds : LevelAt(P, N, w, c)
    /\ \A w \in WaitSetIds : LevelW(P, N, w)
    /\ \A c \in Conds : LevelC(P, N, c)

(* Only one side has destructors. *)
LEMMA OneSide ==
    /\ \A w \in WaitSetIds : DestroyG(w) = {}
    /\ \A c \in Conds : DestroyW(c) = {}
<1>1. ASSUME NEW w \in WaitSetIds, NEW f \in DestroyG(w) PROVE FALSE
  <2>1. f.op = "destroyGuard" /\ f.c = w /\ Fit(f)
        BY DEF DestroyG, FrameSet
  <2> QED  BY <2>1, WaitSetsAssumption DEF Fit, WaitSetsAssumption
<1>2. ASSUME NEW c \in Conds, NEW f \in DestroyW(c) PROVE FALSE
  <2>1. f.op = "destroyWaitSet" /\ f.w = c /\ Fit(f)
        BY DEF DestroyW, FrameSet
  <2> QED  BY <2>1, WaitSetsAssumption DEF Fit, WaitSetsAssumption
<1> QED  BY <1>1, <1>2

(* What is attached, counted and listed is told by these. *)
LEMMA LevelHeld ==
    ASSUME NEW t, NEW P, NEW N, Swapped(t, P, N), Level(P, N), NEW w \in WaitSetIds, NEW c \in Conds
    PROVE  /\ Held(Releasing(w, c))' <=> Held(Releasing(w, c))
           /\ Once(Releasing(w, c)) => Once(Releasing(w, c))'
           /\ Held(Pinning(c, w))' <=> Held(Pinning(c, w))
           /\ Held(Telling(w, c))' <=> Held(Telling(w, c))
           /\ Held(Removing(w, c))' <=> Held(Removing(w, c))
           /\ Held(Adding(w, c, "acquire"))' <=> Held(Adding(w, c, "acquire"))
           /\ Held(Adding(w, c, "register"))' <=> Held(Adding(w, c, "register"))
           /\ Held(FreeW(w))' <=> Held(FreeW(w))
           /\ Once(FreeW(w)) => Once(FreeW(w))'
           /\ w \in closed => (Held(DestroyW(w))' <=> Held(DestroyW(w)))
           /\ Held(Draining(c))' <=> Held(Draining(c))
           /\ c \in closed => (Held(DestroyG(c))' <=> Held(DestroyG(c)))
<1>1. LevelAt(P, N, w, c) /\ LevelW(P, N, w) /\ LevelC(P, N, c)
      BY DEF Level
<1>2. /\ Held(Releasing(w, c))' <=> Held(Releasing(w, c))
      /\ Once(Releasing(w, c)) => Once(Releasing(w, c))'
      BY <1>1, EvenHeld, EvenOnce DEF LevelAt
<1>3. /\ Held(Pinning(c, w))' <=> Held(Pinning(c, w))
      /\ Held(Telling(w, c))' <=> Held(Telling(w, c))
      /\ Held(Removing(w, c))' <=> Held(Removing(w, c))
      BY <1>1, EvenHeld DEF LevelAt
<1>4. /\ Held(Adding(w, c, "acquire"))' <=> Held(Adding(w, c, "acquire"))
      /\ Held(Adding(w, c, "register"))' <=> Held(Adding(w, c, "register"))
      BY <1>1, EvenHeld DEF LevelAt
<1>5. /\ Held(FreeW(w))' <=> Held(FreeW(w))
      /\ Once(FreeW(w)) => Once(FreeW(w))'
      /\ w \in closed => (Held(DestroyW(w))' <=> Held(DestroyW(w)))
      BY <1>1, EvenHeld, EvenOnce DEF LevelW
<1>6. /\ Held(Draining(c))' <=> Held(Draining(c))
      /\ c \in closed => (Held(DestroyG(c))' <=> Held(DestroyG(c)))
      BY <1>1, EvenHeld DEF LevelC
<1> QED  BY <1>2, <1>3, <1>4, <1>5, <1>6

(* The same parts in these terms. *)
LEMMA ListsMean ==
    /\ ListedFrom <=> \A c \in Conds : \A w \in wakeups[c] :
          /\ \/ Entry(w, c) /\ ~Held(Adding(w, c, "acquire")) /\ ~Held(Adding(w, c, "register"))
             \/ Held(Removing(w, c))
          /\ c \in closed => Held(Draining(c))
    /\ ListedTo <=> \A w \in WaitSetIds : \A e \in attached[w] :
          \/ w \in wakeups[e.c] \/ Held(Adding(w, e.c, "acquire")) \/ Held(Adding(w, e.c, "register"))
          \/ Held(FreeW(w)) \/ Held(Telling(w, e.c))
<1>1. \A c : Held(Draining(c)) <=> \E h \in Frames : h.op = "destroyGuard" /\ h.c = c /\ h.at = "drain"
      BY DEF Held, Draining, Frames
<1>2. \A w, c : Held(Telling(w, c)) <=> \E h \in Frames : h.op = "destroyGuard" /\ h.c = c /\ w \in h.todo
      BY DEF Held, Telling, Frames
<1> QED  BY <1>1, <1>2 DEF ListedFrom, ListedTo

LEMMA ListsMeanNext ==
    /\ ListedFrom' <=> \A c \in Conds : \A w \in wakeups'[c] :
          /\ \/ Entry(w, c)' /\ ~Held(Adding(w, c, "acquire"))' /\ ~Held(Adding(w, c, "register"))'
             \/ Held(Removing(w, c))'
          /\ c \in closed' => Held(Draining(c))'
    /\ ListedTo' <=> \A w \in WaitSetIds : \A e \in attached'[w] :
          \/ w \in wakeups'[e.c] \/ Held(Adding(w, e.c, "acquire"))' \/ Held(Adding(w, e.c, "register"))'
          \/ Held(FreeW(w))' \/ Held(Telling(w, e.c))'
<1>1. \A c : Held(Draining(c))' <=> \E h \in Frames' : h.op = "destroyGuard" /\ h.c = c /\ h.at = "drain"
      BY DEF Held, Draining, Frames
<1>2. \A w, c : Held(Telling(w, c))' <=> \E h \in Frames' : h.op = "destroyGuard" /\ h.c = c /\ w \in h.todo
      BY DEF Held, Telling, Frames
<1> QED  BY <1>1, <1>2 DEF ListedFrom, ListedTo

LEMMA OwnerOf ==
    /\ \A c \in Conds : /\ OwnerRef(c) <=> c \in made /\ (c \notin closed \/ Held(DestroyG(c)))
                        /\ OwnerRef(c)' <=> c \in made' /\ (c \notin closed' \/ Held(DestroyG(c))')
    /\ \A w \in WaitSetIds : /\ OwnerRef(w) <=> w \in made /\ (w \notin closed \/ Held(DestroyW(w)))
                             /\ OwnerRef(w)' <=> w \in made' /\ (w \notin closed' \/ Held(DestroyW(w))')
BY OneSide DEF OwnerRef, Held

(* The counts stay when what they count does. *)
LEMMA CountsKept ==
    ASSUME Inv, UNCHANGED refs,
           \A o \in Objects : OwnerRef(o)' <=> OwnerRef(o),
           \A w \in WaitSetIds, c \in Conds : /\ Attached(w, c)' <=> Attached(w, c)
                                              /\ Held(Pinning(c, w))' <=> Held(Pinning(c, w))
    PROVE  CountedC' /\ CountedW'
<1>1. CountedC'
  <2> SUFFICES ASSUME NEW c \in Conds PROVE refs'[c] = One(OwnerRef(c)') + Cardinality(Attachments(c)')
      BY DEF CountedC, One
  <2>1. Attachments(c)' = Attachments(c) /\ (OwnerRef(c)' <=> OwnerRef(c))
        BY DEF Attachments, Objects
  <2> QED  BY <2>1 DEF Inv, CountedC, One
<1>2. CountedW'
  <2> SUFFICES ASSUME NEW w \in WaitSetIds PROVE refs'[w] = One(OwnerRef(w)') + Cardinality(Pins(w)')
      BY DEF CountedW, One
  <2>1. Pins(w)' = Pins(w) /\ (OwnerRef(w)' <=> OwnerRef(w))
        BY DEF Pins, Objects
  <2> QED  BY <2>1 DEF Inv, CountedW, One
<1> QED  BY <1>1, <1>2

LEMMA ListsKept ==
    ASSUME Inv, NEW t, NEW P, NEW N, Swapped(t, P, N), Level(P, N),
           UNCHANGED <<made, attached, wakeups, refs, closed, freed>>,
           \A h \in N : h.op = "attach" /\ h.at \in {"acquire", "register"} => [c |-> h.c, x |-> h.x] \in attached[h.w]
    PROVE  /\ ReleaseSound' /\ EntriesApart' /\ FreeSound' /\ CountedC' /\ CountedW' /\ ListedFrom' /\ ListedTo'
           /\ AddingSound'
<1>1. \A w \in WaitSetIds, c \in Conds : Entry(w, c)' <=> Entry(w, c)
      BY DEF Entry
<1>2. ReleaseSound' /\ EntriesApart'
      BY <1>1, LevelHeld DEF Inv, ReleaseSound, EntriesApart
<1>3. FreeSound'
  <2>1. CASE Conds # {}
    <3>1. \A w \in WaitSetIds : (Held(FreeW(w))' <=> Held(FreeW(w))) /\ (Once(FreeW(w)) => Once(FreeW(w))')
          BY <2>1, LevelHeld
    <3> QED  BY <3>1 DEF Inv, FreeSound
  <2>2. CASE Conds = {}
    <3>1. \A w \in WaitSetIds : (Held(FreeW(w))' <=> Held(FreeW(w))) /\ (Once(FreeW(w)) => Once(FreeW(w))')
          BY EvenHeld, EvenOnce DEF Level, LevelW
    <3> QED  BY <3>1 DEF Inv, FreeSound
  <2> QED  BY <2>1, <2>2
<1>4. \A w \in WaitSetIds, c \in Conds : /\ Attached(w, c)' <=> Attached(w, c)
                                         /\ Held(Pinning(c, w))' <=> Held(Pinning(c, w))
      BY <1>1, LevelHeld DEF Attached
<1>5. \A o \in Objects : OwnerRef(o)' <=> OwnerRef(o)
  <2>1. ASSUME NEW c \in Conds PROVE OwnerRef(c)' <=> OwnerRef(c)
    <3>1. c \in closed => (Held(DestroyG(c))' <=> Held(DestroyG(c)))
          BY EvenHeld DEF Level, LevelC
    <3>2. Held(DestroyW(c))' <=> Held(DestroyW(c))
          BY OneSide DEF Held
    <3> QED  BY <3>1, <3>2 DEF OwnerRef
  <2>2. ASSUME NEW w \in WaitSetIds PROVE OwnerRef(w)' <=> OwnerRef(w)
    <3>1. w \in closed => (Held(DestroyW(w))' <=> Held(DestroyW(w)))
          BY EvenHeld DEF Level, LevelW
    <3>2. Held(DestroyG(w))' <=> Held(DestroyG(w))
          BY OneSide DEF Held
    <3> QED  BY <3>1, <3>2 DEF OwnerRef
  <2> QED  BY <2>1, <2>2 DEF Objects
<1>6. CountedC' /\ CountedW'
      BY <1>4, <1>5, CountsKept
<1>7. ListedFrom'
  <2> SUFFICES ASSUME NEW c \in Conds, NEW w \in wakeups[c]
               PROVE  /\ \/ Entry(w, c)' /\ ~Held(Adding(w, c, "acquire"))' /\ ~Held(Adding(w, c, "register"))'
                         \/ Held(Removing(w, c))'
                      /\ c \in closed => Held(Draining(c))'
      BY ListsMeanNext
  <2>1. w \in WaitSetIds
        BY DEF Inv, Typed
  <2> QED  BY <1>1, <2>1, LevelHeld, ListsMean DEF Inv
<1>8. ListedTo'
  <2> SUFFICES ASSUME NEW w \in WaitSetIds, NEW e \in attached[w]
               PROVE  \/ w \in wakeups[e.c] \/ Held(Adding(w, e.c, "acquire"))' \/ Held(Adding(w, e.c, "register"))'
                      \/ Held(FreeW(w))' \/ Held(Telling(w, e.c))'
      BY ListsMeanNext
  <2>1. e.c \in Conds
        BY DEF Inv, Typed
  <2> QED  BY <2>1, LevelHeld, ListsMean DEF Inv
<1>9. AddingSound'
      BY DEF Inv, AddingSound, Swapped
<1> QED  BY <1>2, <1>3, <1>6, <1>7, <1>8, <1>9

-------------------------------------------------------------------------------
(* wait.                                                                       *)

(* What is left to show of a step of wait: types, the lock and what is owed. *)
LEMMA WaitSteps ==
    ASSUME Inv, NEW t \in Threads, NEW f \in FrameSet, NEW N, Swapped(t, {f}, N), f.op = "wait",
           N = {} \/ \E g : N = {g},
           \A g \in N : g \in FrameSet /\ g.op = "wait" /\ g.w = f.w /\ \A c \in g.todo : Entry(g.w, c),
           UNCHANGED <<binding, hooked, made, mine, attached, wakeups, trigger, refs, closed, retired, freed, ctx>>,
           Typed', Mutex', OwedSound'
    PROVE  Inv'
<1>1. \A h \in {f} \cup N : h \in FrameSet /\ h.op = "wait" /\ Fit(h)
      BY DEF FrameSet
<1>2. \A h \in {f} \cup N : h \in FrameSet /\ Soft(h)
      BY <1>1 DEF Soft, Fit
<1>3. /\ ReleaseSound' /\ EntriesApart' /\ FreeSound' /\ CountedC' /\ CountedW' /\ ListedFrom' /\ ListedTo'
      /\ AddingSound'
      BY <1>2, SoftKept
<1>4. ScanSound'
      BY ScanKept
<1>5. OwnSound'
  <2>1. \A y \in Ctxs : {f} \cap Owning(y) = {} /\ N \cap Owning(y) = {}
        BY <1>1 DEF Owning
  <2> QED  BY <2>1, OwnKept DEF Even, Single
<1>6. HookSound'
      BY HookKept
<1>7. \A c : {f} \cap DestroyG(c) = {} /\ N \cap DestroyG(c) = {} /\ {f} \cap Keeping(c) = {} /\ N \cap Keeping(c) = {}
      BY <1>1 DEF DestroyG, Keeping
<1>8. \A c : (Destroying(c)' <=> Destroying(c)) /\ (Unheld(c)' <=> Unheld(c))
      BY <1>7, DestroyingKept, UnheldKept DEF Even
<1>9. UseSound'
  <2>1. f.w \in mine
        BY DEF Swapped, Inv, UseSound
  <2>2. \A h \in N : UseOf(h)
        BY <2>1 DEF UseOf
  <2> QED  BY <1>1, <1>8, <2>2, UseKept
<1>10. TearSound'
  <2>1. \A w : {f} \cap DestroyW(w) = {} /\ N \cap DestroyW(w) = {}
        BY <1>1 DEF DestroyW
  <2>2. \A h \in N : TearOf(h)
        BY DEF TearOf
  <2> QED  BY <1>7, <1>8, <2>1, <2>2, TearKept DEF Even, Single
<1>11. OneWaiter'
  <2>1. \A w \in WaitSetIds : Single(N, WaitOn(w))
        BY DEF Single
  <2>2. ASSUME NEW w \in WaitSetIds, N # {} PROVE Even({f}, N, WaitOn(w))
        BY <2>2 DEF Even, WaitOn
  <2>3. CASE N # {}
        BY <2>1, <2>2, <2>3, OneWaiterKept
  <2>4. CASE N = {}
        BY <2>4 DEF OneWaiter, Inv, Swapped
  <2> QED  BY <2>3, <2>4
<1> QED  BY <1>3, <1>4, <1>5, <1>6, <1>9, <1>10, <1>11 DEF Inv

LEMMA WaitLockInv ==
    ASSUME Inv, NEW t \in Threads, WaitLock(t)
    PROVE  Inv'
<1> PICK f, w, c, x : f = Top(t) /\ w = Top(t).w /\ c = Top(t).c /\ x = Top(t).x
    OBVIOUS
<1>1. /\ stack[t] # <<>> /\ f \in FrameSet /\ f \in Frames /\ f.op = "wait" /\ f.at = "lock" /\ Fit(f) /\ f \in RawFrames
      /\ f.w = w /\ f.c = c /\ f.x = x /\ w \in WaitSetIds /\ c = None /\ x = None /\ f.todo = {}
  <2>1. At(t, "wait", "lock")
        BY DEF WaitLock
  <2>2. /\ stack[t] # <<>> /\ f \in FrameSet /\ f \in Frames /\ f.op = "wait" /\ f.at = "lock" /\ Fit(f) /\ f \in RawFrames
        /\ x \in Ctxs \cup {None}
        BY <2>1, AtTop DEF Inv, Typed
  <2> QED  BY <2>2 DEF Fit
<1> PICK S : S = {e.c : e \in attached[w]}
    OBVIOUS
<1>6. S \subseteq Conds /\ S \in SUBSET Objects /\ \A d \in S : Entry(w, d)
      BY <1>1 DEF Inv, Typed, Objects, Entry
<1>8. "scan" \in Ats
      BY DEF Ats
<1> DEFINE g == [f EXCEPT !.at = "scan", !.todo = S]
<1>7. /\ g \in RawFrames /\ g.op = "wait" /\ g.at = "scan" /\ g.w = w /\ g.c = None /\ g.x = None /\ g.todo = S
  <2>1. f \in RawFrames /\ S \in SUBSET Objects /\ "scan" \in Ats /\ f.op = "wait" /\ f.w = w /\ f.c = None /\ f.x = None
        BY <1>1, <1>6, <1>8
  <2> QED  BY ONLY <2>1 DEF g, RawFrames
<1>9. stack' = GotoWith(t, g)
      BY DEF WaitLock
<1> HIDE DEF g
<1>2. g \in FrameSet /\ Swapped(t, {f}, {g})
  <2>1. g \in FrameSet
        BY <1>1, <1>6, <1>7 DEF FrameSet, Fit
  <2> QED  BY <1>1, <1>9, <2>1, GotoWithGoes DEF Inv, Typed
<1>5. /\ mu[w] = None /\ mu' = [mu EXCEPT ![w] = t] /\ owed' = {p \in owed : p[1] # w}
      /\ UNCHANGED notified /\ UNCHANGED <<binding, hooked, made, mine, attached, wakeups, trigger, refs, closed, retired, freed, ctx>>
      BY DEF WaitLock
<1>10. Typed'
      BY <1>1, <1>2, <1>5 DEF Inv, Typed, Swapped
<1>11. Mutex'
  <2>1. g \in InsideOf(w) /\ \A v \in WaitSetIds : f \notin InsideOf(v)
        BY <1>1, <1>2, <1>7 DEF InsideOf
  <2> QED  BY <1>1, <1>2, <1>5, <2>1, MutexEnter, WaitSetsAssumption DEF Inv
<1>12. OwedSound'
  <2> SUFFICES ASSUME NEW p \in owed'
               PROVE  /\ p[1] \in wakeups[p[2]]
                      /\ \/ \E h \in Frames' : h.op = "set" /\ h.c = p[2]
                         \/ notified'[p[1]]
                         \/ \A h \in Frames' : h.op = "wait" /\ h.w = p[1] => h.at = "lock"
      BY <1>5 DEF OwedSound
  <2>1. /\ p \in owed /\ p[1] \in wakeups[p[2]] /\ p[1] \in WaitSetIds
        /\ \/ \E h \in Frames : h.op = "set" /\ h.c = p[2]
           \/ notified[p[1]]
           \/ \A h \in Frames : h.op = "wait" /\ h.w = p[1] => h.at = "lock"
        BY <1>5 DEF Inv, OwedSound, Typed
  <2>2. p[1] # w /\ \A h \in Frames' : h \in Frames \/ h = g
        BY <1>2, <1>5 DEF Swapped
  <2>3. \A h \in Frames : h.op = "set" => h \in Frames'
        BY <1>1, <1>2 DEF Swapped
  <2> QED  BY <1>5, <1>7, <2>1, <2>2, <2>3
<1>13. ({g} = {} \/ \E k : {g} = {k}) /\ \A k \in {g} : k \in FrameSet /\ k.op = "wait" /\ k.w = f.w /\ \A d \in k.todo : Entry(k.w, d)
      BY <1>1, <1>2, <1>6, <1>7
<1> QED  BY <1>1, <1>2, <1>5, <1>10, <1>11, <1>12, <1>13, WaitSteps

(* One more condition is looked at, and is not triggered. *)
LEMMA WaitLookInv ==
    ASSUME Inv, NEW t \in Threads, At(t, "wait", "scan"), NEW S, S \subseteq Top(t).todo,
           stack' = GotoWith(t, [Top(t) EXCEPT !.todo = S]), UNCHANGED <<binding, hooked, made, mine, attached, mu, notified, wakeups, trigger, refs, closed, retired, freed, ctx, owed>>
    PROVE  Inv'
<1> PICK f, w, c, x : f = Top(t) /\ w = Top(t).w /\ c = Top(t).c /\ x = Top(t).x
    OBVIOUS
<1>1. /\ stack[t] # <<>> /\ f \in FrameSet /\ f \in Frames /\ f.op = "wait" /\ f.at = "scan" /\ Fit(f) /\ f \in RawFrames
      /\ f.w = w /\ f.c = c /\ f.x = x /\ w \in WaitSetIds /\ c = None /\ x = None /\ f.todo \subseteq Conds
  <2>1. At(t, "wait", "scan")
        OBVIOUS
  <2>2. /\ stack[t] # <<>> /\ f \in FrameSet /\ f \in Frames /\ f.op = "wait" /\ f.at = "scan" /\ Fit(f) /\ f \in RawFrames
        /\ x \in Ctxs \cup {None}
        BY <2>1, AtTop DEF Inv, Typed
  <2> QED  BY <2>2 DEF Fit
<1>6. S \in SUBSET Objects /\ S \subseteq Conds /\ \A d \in S : Entry(w, d)
      BY <1>1 DEF Objects, Inv, ScanSound
<1> DEFINE g == [f EXCEPT !.todo = S]
<1>7. /\ g \in RawFrames /\ g.op = "wait" /\ g.at = "scan" /\ g.w = w /\ g.c = None /\ g.x = None /\ g.todo = S
      BY <1>1, <1>6, FieldsTodo
<1>9. stack' = GotoWith(t, g)
      OBVIOUS
<1> HIDE DEF g
<1>2. g \in FrameSet /\ Swapped(t, {f}, {g})
  <2>1. g \in FrameSet
        BY <1>1, <1>6, <1>7 DEF FrameSet, Fit
  <2> QED  BY <1>1, <1>9, <2>1, GotoWithGoes DEF Inv, Typed
<1>10. Typed'
      BY <1>1, <1>2 DEF Inv, Typed, Swapped
<1>11. Mutex'
  <2>1. f \in InsideOf(w) /\ g \in InsideOf(w)
        BY <1>1, <1>2, <1>7 DEF InsideOf
  <2> QED  BY <1>1, <1>2, <2>1, MutexStay DEF Inv
<1>12. OwedSound'
      BY <1>1, <1>2, <1>7, OwedKept DEF Inv, OwedSound
<1>13. ({g} = {} \/ \E k : {g} = {k}) /\ \A k \in {g} : k \in FrameSet /\ k.op = "wait" /\ k.w = f.w /\ \A d \in k.todo : Entry(k.w, d)
      BY <1>1, <1>2, <1>6, <1>7
<1> QED  BY <1>1, <1>2, <1>10, <1>11, <1>12, <1>13, WaitSteps

(* The scan ends, with a triggered condition or with none left. *)
LEMMA WaitScannedInv ==
    ASSUME Inv, NEW t \in Threads, At(t, "wait", "scan"), mu' = [mu EXCEPT ![Top(t).w] = None],
           stack' = Return(t) \/ (Top(t).todo = {} /\ stack' = Goto(t, "block")),
           UNCHANGED <<binding, hooked, made, mine, attached, notified, wakeups, trigger, refs, closed, retired, freed, ctx, owed>>
    PROVE  Inv'
<1> PICK f, w, c, x : f = Top(t) /\ w = Top(t).w /\ c = Top(t).c /\ x = Top(t).x
    OBVIOUS
<1>1. /\ stack[t] # <<>> /\ f \in FrameSet /\ f \in Frames /\ f.op = "wait" /\ f.at = "scan" /\ Fit(f) /\ f \in RawFrames
      /\ f.w = w /\ f.c = c /\ f.x = x /\ w \in WaitSetIds /\ c = None /\ x = None /\ f.todo \subseteq Conds
  <2>1. At(t, "wait", "scan")
        OBVIOUS
  <2>2. /\ stack[t] # <<>> /\ f \in FrameSet /\ f \in Frames /\ f.op = "wait" /\ f.at = "scan" /\ Fit(f) /\ f \in RawFrames
        /\ x \in Ctxs \cup {None}
        BY <2>1, AtTop DEF Inv, Typed
  <2> QED  BY <2>2 DEF Fit
<1>2. PICK N : /\ Swapped(t, {f}, N) /\ N \subseteq FrameSet /\ \A g \in N : Like(g, f, "block") /\ g.todo = {}
               /\ N = {} \/ \E g : N = {g}
  <2>1. CASE stack' = Return(t)
    <3>1. Swapped(t, {f}, {})
          BY <1>1, <2>1, ReturnGoes DEF Inv, Typed
    <3> QED  BY <3>1
  <2>2. CASE Top(t).todo = {} /\ stack' = Goto(t, "block")
    <3>1. \A h \in RawFrames : Like(h, f, "block") => Fit(h)
          BY <1>1, <2>2 DEF Like, Fit
    <3>2. "block" \in Ats
          BY DEF Ats
    <3>3. PICK g \in FrameSet : Like(g, f, "block") /\ Swapped(t, {f}, {g})
          BY <1>1, <2>2, <3>1, <3>2, GotoGoes DEF Inv, Typed
    <3> QED  BY <2>2, <3>3 DEF Like
  <2> QED  BY <2>1, <2>2
<1>3. \A g \in N : g.op = "wait" /\ g.at = "block" /\ g.w = w /\ g.c = None /\ g.x = None /\ g.todo = {}
      BY <1>1, <1>2 DEF Like
<1>5. mu' = [mu EXCEPT ![w] = None]
      OBVIOUS
<1>10. Typed'
      BY <1>1, <1>2, <1>5 DEF Inv, Typed, Swapped
<1>11. Mutex'
  <2>1. f \in InsideOf(w) /\ \A v \in WaitSetIds : N \cap InsideOf(v) = {}
        BY <1>1, <1>3 DEF InsideOf
  <2> QED  BY <1>1, <1>2, <1>5, <2>1, MutexLeave DEF Inv
<1>12. OwedSound'
      BY <1>1, <1>2, <1>3, OwedKept DEF Inv, OwedSound
<1>13. (N = {} \/ \E k : N = {k}) /\ \A k \in N : k \in FrameSet /\ k.op = "wait" /\ k.w = f.w /\ \A d \in k.todo : Entry(k.w, d)
      BY <1>1, <1>2, <1>3
<1> QED  BY <1>1, <1>2, <1>10, <1>11, <1>12, <1>13, WaitSteps

LEMMA WaitScanInv ==
    ASSUME Inv, NEW t \in Threads, WaitScan(t)
    PROVE  Inv'
<1>1. At(t, "wait", "scan") /\ UNCHANGED <<binding, hooked, made, mine, attached, notified, wakeups, trigger, refs, closed, retired, freed, ctx, owed>>
      BY DEF WaitScan
<1>2. \/ mu' = [mu EXCEPT ![Top(t).w] = None] /\ stack' = Return(t)
      \/ \E d \in Top(t).todo : stack' = GotoWith(t, [Top(t) EXCEPT !.todo = Top(t).todo \ {d}]) /\ UNCHANGED mu
      \/ Top(t).todo = {} /\ mu' = [mu EXCEPT ![Top(t).w] = None] /\ stack' = Goto(t, "block")
      BY DEF WaitScan
<1>3. ASSUME NEW d, stack' = GotoWith(t, [Top(t) EXCEPT !.todo = Top(t).todo \ {d}]), UNCHANGED mu PROVE Inv'
  <2> DEFINE S == Top(t).todo \ {d}
  <2>1. S \subseteq Top(t).todo /\ stack' = GotoWith(t, [Top(t) EXCEPT !.todo = S])
        BY <1>3
  <2> HIDE DEF S
  <2> QED  BY <1>1, <1>3, <2>1, WaitLookInv
<1> QED  BY <1>1, <1>2, <1>3, WaitScannedInv

LEMMA WaitBlockInv ==
    ASSUME Inv, NEW t \in Threads, WaitBlock(t)
    PROVE  Inv'
<1> PICK f, w, c, x : f = Top(t) /\ w = Top(t).w /\ c = Top(t).c /\ x = Top(t).x
    OBVIOUS
<1>1. /\ stack[t] # <<>> /\ f \in FrameSet /\ f \in Frames /\ f.op = "wait" /\ f.at = "block" /\ Fit(f) /\ f \in RawFrames
      /\ f.w = w /\ f.c = c /\ f.x = x /\ w \in WaitSetIds /\ c = None /\ x = None /\ f.todo = {}
  <2>1. At(t, "wait", "block")
        BY DEF WaitBlock
  <2>2. /\ stack[t] # <<>> /\ f \in FrameSet /\ f \in Frames /\ f.op = "wait" /\ f.at = "block" /\ Fit(f) /\ f \in RawFrames
        /\ x \in Ctxs \cup {None}
        BY <2>1, AtTop DEF Inv, Typed
  <2> QED  BY <2>2 DEF Fit
<1>2. PICK N : /\ Swapped(t, {f}, N) /\ N \subseteq FrameSet /\ (N = {} \/ \E g : N = {g})
               /\ \A g \in N : /\ g.op = "wait" /\ g.w = w /\ g.c = None /\ g.x = None /\ g.todo = {}
                              /\ g.at \in {"lock", "asleep"} /\ (notified[w] => g.at = "lock")
  <2>1. \A at \in {"lock", "asleep"} : at \in Ats /\ \A h \in RawFrames : Like(h, f, at) => Fit(h)
        BY <1>1 DEF Like, Fit, Ats
  <2>2. PICK at \in {"lock", "asleep"} : stack' = Goto(t, at) /\ (notified[w] => at = "lock")
        BY DEF WaitBlock
  <2>3. PICK g \in FrameSet : Like(g, f, at) /\ Swapped(t, {f}, {g})
        BY <1>1, <2>1, <2>2, GotoGoes DEF Inv, Typed
  <2> QED  BY <1>1, <2>2, <2>3 DEF Like
<1>3. \A g \in N : g.op = "wait" /\ g.w = w /\ g.c = None /\ g.x = None /\ g.todo = {}
      BY <1>1, <1>2
<1>5. notified' = [notified EXCEPT ![w] = FALSE] /\ UNCHANGED <<mu, owed>> /\ UNCHANGED <<binding, hooked, made, mine, attached, wakeups, trigger, refs, closed, retired, freed, ctx>>
      BY DEF WaitBlock
<1>10. Typed'
      BY <1>1, <1>2, <1>5 DEF Inv, Typed, Swapped
<1>11. Mutex'
  <2>1. f \notin {} /\ \A v \in WaitSetIds : f \notin InsideOf(v) /\ N \cap InsideOf(v) = {}
        BY <1>1, <1>2, <1>3 DEF InsideOf
  <2> QED  BY <1>1, <1>2, <1>5, <2>1, MutexKept DEF Inv
<1>12. OwedSound'
  <2> SUFFICES ASSUME NEW p \in owed'
               PROVE  /\ p[1] \in wakeups[p[2]]
                      /\ \/ \E h \in Frames' : h.op = "set" /\ h.c = p[2]
                         \/ notified'[p[1]]
                         \/ \A h \in Frames' : h.op = "wait" /\ h.w = p[1] => h.at = "lock"
      BY <1>5 DEF OwedSound
  <2>1. /\ p \in owed /\ p[1] \in wakeups[p[2]] /\ p[1] \in WaitSetIds
        /\ \/ \E h \in Frames : h.op = "set" /\ h.c = p[2]
           \/ notified[p[1]]
           \/ \A h \in Frames : h.op = "wait" /\ h.w = p[1] => h.at = "lock"
        BY <1>5 DEF Inv, OwedSound, Typed
  <2>2. /\ \A h \in Frames' : h \in Frames \/ h \in N
        /\ \A h \in Frames : h \in Frames' \/ h = f
        BY <1>2 DEF Swapped
  <2>3. CASE p[1] # w
        BY <1>1, <1>3, <1>5, <2>1, <2>2, <2>3 DEF Inv, Typed
  <2>4. CASE p[1] = w /\ \E h \in Frames : h.op = "set" /\ h.c = p[2]
        BY <1>1, <2>1, <2>2, <2>4
  <2>5. CASE p[1] = w /\ ~\E h \in Frames : h.op = "set" /\ h.c = p[2]
    <3>1. notified[w]
          BY <1>1, <2>1, <2>5
    <3>2. \A h \in N : h.at = "lock"
          BY <1>2, <3>1
    <3>3. Frames' \cap WaitOn(w) \subseteq N
      <4>1. Once(WaitOn(w)) /\ {f} \cap WaitOn(w) # {}
            BY <1>1 DEF Inv, OneWaiter, WaitOn
      <4> QED  BY <1>2, <4>1 DEF Swapped
    <3>4. ASSUME NEW h \in Frames', h.op = "wait", h.w = w PROVE h.at = "lock"
      <4>1. h \in WaitOn(w)
            BY <3>4 DEF Frames, WaitOn
      <4> QED  BY <3>2, <3>3, <4>1
    <3> QED  BY <2>1, <2>5, <3>4
  <2> QED  BY <2>3, <2>4, <2>5
<1>13. (N = {} \/ \E k : N = {k}) /\ \A k \in N : k \in FrameSet /\ k.op = "wait" /\ k.w = f.w /\ \A d \in k.todo : Entry(k.w, d)
      BY <1>1, <1>2, <1>3
<1> QED  BY <1>1, <1>2, <1>5, <1>10, <1>11, <1>12, <1>13, WaitSteps

LEMMA WaitWakeInv ==
    ASSUME Inv, NEW t \in Threads, WaitWake(t)
    PROVE  Inv'
<1> PICK f, w, c, x : f = Top(t) /\ w = Top(t).w /\ c = Top(t).c /\ x = Top(t).x
    OBVIOUS
<1>1. /\ stack[t] # <<>> /\ f \in FrameSet /\ f \in Frames /\ f.op = "wait" /\ f.at = "asleep" /\ Fit(f) /\ f \in RawFrames
      /\ f.w = w /\ f.c = c /\ f.x = x /\ w \in WaitSetIds /\ c = None /\ x = None /\ f.todo = {}
  <2>1. At(t, "wait", "asleep")
        BY DEF WaitWake
  <2>2. /\ stack[t] # <<>> /\ f \in FrameSet /\ f \in Frames /\ f.op = "wait" /\ f.at = "asleep" /\ Fit(f) /\ f \in RawFrames
        /\ x \in Ctxs \cup {None}
        BY <2>1, AtTop DEF Inv, Typed
  <2> QED  BY <2>2 DEF Fit
<1>2. PICK N : /\ Swapped(t, {f}, N) /\ N \subseteq FrameSet /\ (N = {} \/ \E g : N = {g})
               /\ \A g \in N : /\ g.op = "wait" /\ g.w = w /\ g.c = None /\ g.x = None /\ g.todo = {}
                              /\ g.at \in {"lock", "asleep"} /\ (notified[w] => g.at = "lock")
  <2>1. "lock" \in Ats /\ \A h \in RawFrames : Like(h, f, "lock") => Fit(h)
        BY <1>1 DEF Like, Fit, Ats
  <2>2. CASE stack' = Goto(t, "lock")
    <3>1. PICK g \in FrameSet : Like(g, f, "lock") /\ Swapped(t, {f}, {g})
          BY <1>1, <2>1, <2>2, GotoGoes DEF Inv, Typed
    <3> QED  BY <1>1, <3>1 DEF Like
  <2>3. CASE stack' = Return(t)
    <3>1. Swapped(t, {f}, {})
          BY <1>1, <2>3, ReturnGoes DEF Inv, Typed
    <3> QED  BY <3>1
  <2> QED  BY <2>2, <2>3 DEF WaitWake
<1>3. \A g \in N : g.op = "wait" /\ g.w = w /\ g.c = None /\ g.x = None /\ g.todo = {}
      BY <1>1, <1>2
<1>5. notified' = [notified EXCEPT ![w] = FALSE] /\ UNCHANGED <<mu, owed>> /\ UNCHANGED <<binding, hooked, made, mine, attached, wakeups, trigger, refs, closed, retired, freed, ctx>>
      BY DEF WaitWake
<1>10. Typed'
      BY <1>1, <1>2, <1>5 DEF Inv, Typed, Swapped
<1>11. Mutex'
  <2>1. f \notin {} /\ \A v \in WaitSetIds : f \notin InsideOf(v) /\ N \cap InsideOf(v) = {}
        BY <1>1, <1>2, <1>3 DEF InsideOf
  <2> QED  BY <1>1, <1>2, <1>5, <2>1, MutexKept DEF Inv
<1>12. OwedSound'
  <2> SUFFICES ASSUME NEW p \in owed'
               PROVE  /\ p[1] \in wakeups[p[2]]
                      /\ \/ \E h \in Frames' : h.op = "set" /\ h.c = p[2]
                         \/ notified'[p[1]]
                         \/ \A h \in Frames' : h.op = "wait" /\ h.w = p[1] => h.at = "lock"
      BY <1>5 DEF OwedSound
  <2>1. /\ p \in owed /\ p[1] \in wakeups[p[2]] /\ p[1] \in WaitSetIds
        /\ \/ \E h \in Frames : h.op = "set" /\ h.c = p[2]
           \/ notified[p[1]]
           \/ \A h \in Frames : h.op = "wait" /\ h.w = p[1] => h.at = "lock"
        BY <1>5 DEF Inv, OwedSound, Typed
  <2>2. /\ \A h \in Frames' : h \in Frames \/ h \in N
        /\ \A h \in Frames : h \in Frames' \/ h = f
        BY <1>2 DEF Swapped
  <2>3. CASE p[1] # w
        BY <1>1, <1>3, <1>5, <2>1, <2>2, <2>3 DEF Inv, Typed
  <2>4. CASE p[1] = w /\ \E h \in Frames : h.op = "set" /\ h.c = p[2]
        BY <1>1, <2>1, <2>2, <2>4
  <2>5. CASE p[1] = w /\ ~\E h \in Frames : h.op = "set" /\ h.c = p[2]
    <3>1. notified[w]
          BY <1>1, <2>1, <2>5
    <3>2. \A h \in N : h.at = "lock"
          BY <1>2, <3>1
    <3>3. Frames' \cap WaitOn(w) \subseteq N
      <4>1. Once(WaitOn(w)) /\ {f} \cap WaitOn(w) # {}
            BY <1>1 DEF Inv, OneWaiter, WaitOn
      <4> QED  BY <1>2, <4>1 DEF Swapped
    <3>4. ASSUME NEW h \in Frames', h.op = "wait", h.w = w PROVE h.at = "lock"
      <4>1. h \in WaitOn(w)
            BY <3>4 DEF Frames, WaitOn
      <4> QED  BY <3>2, <3>3, <4>1
    <3> QED  BY <2>1, <2>5, <3>4
  <2> QED  BY <2>3, <2>4, <2>5
<1>13. (N = {} \/ \E k : N = {k}) /\ \A k \in N : k \in FrameSet /\ k.op = "wait" /\ k.w = f.w /\ \A d \in k.todo : Entry(k.w, d)
      BY <1>1, <1>2, <1>3
<1> QED  BY <1>1, <1>2, <1>5, <1>10, <1>11, <1>12, <1>13, WaitSteps

-------------------------------------------------------------------------------
(* Steps of attach and detach outside the lock, and drops.                     *)

LEMMA SoftSteps ==
    ASSUME Inv, NEW t \in Threads, NEW P, NEW N, Swapped(t, P, N),
           \A h \in P \cup N : h \in FrameSet /\ Soft(h) /\ h.op # "wait" /\ h.op # "set",
           stack[t] = <<>> \/ Top(t) \in P,
           UNCHANGED <<made, attached, mu, notified, wakeups, refs, closed, freed, owed>>
    PROVE  /\ ReleaseSound' /\ EntriesApart' /\ FreeSound' /\ CountedC' /\ CountedW' /\ ListedFrom' /\ ListedTo'
           /\ AddingSound' /\ Mutex' /\ ScanSound' /\ OwedSound' /\ OneWaiter'
<1>1. /\ ReleaseSound' /\ EntriesApart' /\ FreeSound' /\ CountedC' /\ CountedW' /\ ListedFrom' /\ ListedTo'
      /\ AddingSound'
      BY SoftKept
<1>2. Mutex'
  <2>1. \A h \in P \cup N : \A w \in WaitSetIds : h \notin InsideOf(w)
        BY DEF Soft, InsideOf
  <2>2. \A w \in WaitSetIds : N \cap InsideOf(w) = {}
        BY <2>1
  <2> QED  BY <2>1, <2>2, MutexKept DEF Inv
<1>3. ScanSound'
      BY ScanKept
<1>4. OwedSound'
      BY OwedKept DEF Inv, OwedSound
<1>5. OneWaiter'
  <2>1. \A w \in WaitSetIds : P \cap WaitOn(w) = {} /\ N \cap WaitOn(w) = {}
        BY DEF WaitOn
  <2> QED  BY <2>1, OneWaiterKept DEF Even, Single
<1> QED  BY <1>1, <1>2, <1>3, <1>4, <1>5

(* A condition may have lost a holder.  Its destructor begins if B holds, and  *)
(* B tells whether it was the last one.                                        *)
LEMMA DropTear ==
    ASSUME Inv, NEW t \in Threads, NEW P, NEW M, NEW N, NEW c \in Conds, NEW B \in BOOLEAN, Swapped(t, P, N),
           UNCHANGED <<binding, made, closed>>, mine' \subseteq mine, c \in made,
           N = (IF B THEN M \cup {Destroyer(c)} ELSE M),
           \A h \in M : TearOf(h)',
           \A d \in Conds : Even(P, M, DestroyG(d)) /\ Single(M, DestroyG(d)),
           \A w \in WaitSetIds : Even(P, M, DestroyW(w)) /\ Single(M, DestroyW(w)) /\ (w \in mine' <=> w \in mine),
           B => c \notin mine' /\ ~Destroying(c) /\ P \cap DestroyG(c) = {},
           binding = "cpp" => IF B THEN Unheld(c)' ELSE (Unheld(c)' <=> Destroying(c)),
           binding = "cpp" => \A d \in Conds \ {c} : Unheld(d)' <=> Unheld(d)
    PROVE  TearSound' /\ \A d \in Conds : Destroying(d)' => Destroying(d) \/ (d = c /\ B)
<1> DEFINE D == Destroyer(c)
<1>0. D \in FrameSet /\ D.op = "destroyGuard" /\ D.c = c /\ D.at = "close" /\ D.w = None
      BY DestroyerFrame DEF Objects
<1>20. N = IF B THEN M \cup {D} ELSE M
      OBVIOUS
<1> HIDE DEF D
<1>1. \A h \in Frames' : h \in Frames \/ h \in M \/ (B /\ h = D)
      BY <1>20 DEF Swapped
<1>2. \A h \in Frames : TearOf(h)
      BY DEF Inv, TearSound, TearOf
<1>3. B => TearOf(D)'
      BY <1>0 DEF TearOf, Destroying
<1>4. \A h \in Frames' : TearOf(h)'
  <2>1. ASSUME NEW h, TearOf(h) PROVE TearOf(h)'
        BY <2>1 DEF TearOf
  <2> QED  BY <1>1, <1>2, <1>3, <2>1
<1>5. ASSUME NEW d \in Conds
      PROVE  Once(DestroyG(d))' /\ (Held(DestroyG(d))' <=> Held(DestroyG(d)) \/ (B /\ d = c))
  <2>0. Once(DestroyG(d))
        BY DEF Inv, TearSound
  <2>1. CASE ~(B /\ d = c)
    <3>1. N \cap DestroyG(d) = M \cap DestroyG(d)
          BY <1>0, <1>20, <2>1 DEF DestroyG
    <3>2. Even(P, N, DestroyG(d)) /\ Single(N, DestroyG(d))
          BY <3>1 DEF Even, Single
    <3> QED  BY <2>0, <2>1, <3>2, EvenHeld, EvenOnce
  <2>2. CASE B /\ d = c
    <3>1. N \cap DestroyG(d) = {D} /\ ~Held(DestroyG(d))
      <4>1. M \cap DestroyG(c) = {}
            BY <2>2 DEF Even
      <4>2. D \in DestroyG(c) /\ ~Held(DestroyG(c))
            BY <1>0, <2>2 DEF DestroyG, Destroying
      <4> QED  BY <1>20, <2>2, <4>1, <4>2
    <3>2. Single(N, DestroyG(d)) /\ N \cap DestroyG(d) # {}
          BY <3>1 DEF Single
    <3> QED  BY <2>0, <2>2, <3>1, <3>2, NewHeld
  <2> QED  BY <2>1, <2>2
<1>6. ASSUME NEW w \in WaitSetIds PROVE Once(DestroyW(w))' /\ (Held(DestroyW(w))' <=> Held(DestroyW(w)))
  <2>1. N \cap DestroyW(w) = M \cap DestroyW(w)
        BY <1>0, <1>20 DEF DestroyW
  <2>2. Even(P, N, DestroyW(w)) /\ Single(N, DestroyW(w))
        BY <2>1 DEF Even, Single
  <2> QED  BY <2>2, EvenHeld, EvenOnce DEF Inv, TearSound
<1>7. \A d \in Conds : Destroying(d)' <=> Destroying(d) \/ (B /\ d = c)
      BY <1>5 DEF Destroying
<1>8. binding' = "cpp" => \A d \in Conds \cap made' : Destroying(d)' <=> Unheld(d)'
  <2> SUFFICES ASSUME binding = "cpp", NEW d \in Conds, d \in made PROVE Destroying(d)' <=> Unheld(d)'
      OBVIOUS
  <2>1. Destroying(d) <=> Unheld(d)
        BY DEF Inv, TearSound
  <2>2. CASE d # c
        BY <1>7, <2>1, <2>2
  <2>3. CASE d = c /\ B
        BY <1>7, <2>3
  <2>4. CASE d = c /\ ~B
        BY <1>7, <2>4
  <2> QED  BY <2>2, <2>3, <2>4
<1>9. binding' = "cpp" => \A w \in WaitSetIds \cap made' : w \in mine' \/ w \in closed' \/ Held(DestroyW(w))'
      BY <1>6 DEF Inv, TearSound
<1>10. mine' \cap closed' = {}
      BY DEF Inv, TearSound
<1>11. TearSound' <=> /\ \A h \in Frames' : TearOf(h)'
                      /\ mine' \cap closed' = {}
                      /\ \A d \in Conds : Once(DestroyG(d))'
                      /\ \A w \in WaitSetIds : Once(DestroyW(w))'
                      /\ binding' = "cpp" => \A d \in Conds \cap made' : Destroying(d)' <=> Unheld(d)'
                      /\ binding' = "cpp" => \A w \in WaitSetIds \cap made' : w \in mine' \/ w \in closed' \/ Held(DestroyW(w))'
      BY DEF TearSound, TearOf
<1> QED  BY <1>4, <1>5, <1>6, <1>7, <1>8, <1>9, <1>10, <1>11

(* No attach is under way of a condition that nobody holds. *)
LEMMA NobodyAttaches ==
    ASSUME HookSound', OwnSound', AddingSound', Typed', NEW c \in Conds, binding' = "cpp", Unheld(c)',
           NEW h \in Frames', h.op = "attach"
    PROVE  h.c # c
<1> SUFFICES ASSUME h.c = c PROVE FALSE
    OBVIOUS
<1>1. h \in FrameSet /\ h.w \in WaitSetIds /\ h.x \in Ctxs \cup {None}
      BY DEF Frames, FrameSet, Fit, RawFrames
<1>2. h.at # "alloc"
      BY <1>1 DEF Unheld, Held, Keeping
<1>3. h.x \in Ctxs
      BY <1>1, <1>2 DEF HookSound
<1>4. OwnedOnce(h.x)'
      BY <1>3 DEF OwnSound
<1>5. CASE h.at \in {"acquire", "register"}
  <2> DEFINE e == [c |-> h.c, x |-> h.x]
  <2>1. e \in attached'[h.w] /\ e.x = h.x /\ e.c = c
        BY <1>5 DEF AddingSound
  <2> QED  BY <1>1, <1>3, <1>4, <2>1 DEF OwnedOnce, Unheld
<1>6. CASE h.at \notin {"acquire", "register"}
  <2>1. h \in Owning(h.x)
        BY <1>1, <1>6 DEF Owning
  <2> QED  BY <1>3, <1>4, <2>1 DEF OwnedOnce, Unheld
<1> QED  BY <1>5, <1>6

LEMMA UseDropped ==
    ASSUME Inv, NEW t \in Threads, NEW P, NEW N, Swapped(t, P, N), UNCHANGED <<binding, made>>,
           HookSound', OwnSound', AddingSound', Typed', NEW c \in Conds, NEW B \in BOOLEAN,
           \A d \in Conds : Destroying(d)' => Destroying(d) \/ (d = c /\ B),
           B /\ binding = "cpp" => Unheld(c)',
           B /\ binding = "java" => \A h \in Frames' : h.op = "attach" => h.c # c,
           \A h \in N : UseOf(h) /\ (h.op = "attach" => h.c \in Conds),
           \A h \in Frames' : /\ h.op = "set" => h.c \in mine'
                              /\ h.op \in {"attach", "detach", "wait"} => h.w \in mine'
    PROVE  UseSound'
<1>1. \A h \in Frames' : h \in Frames \/ h \in N
      BY DEF Swapped
<1>2. \A h \in Frames' : UseOf(h)
      BY <1>1 DEF Inv, UseSound, UseOf
<1>3. ASSUME NEW h \in Frames', h.op = "attach" PROVE h.c \in made' /\ ~Destroying(h.c)'
  <2>1. h.c \in Conds
        BY <1>1, <1>3 DEF Frames, FrameSet, Fit
  <2>2. B => h.c # c
        BY <1>3, NobodyAttaches DEF Inv, Typed
  <2> QED  BY <1>2, <1>3, <2>1, <2>2 DEF UseOf
<1> QED  BY <1>2, <1>3 DEF UseSound, UseOf

LEMMA AttachRetiredInv ==
    ASSUME Inv, NEW t \in Threads, AttachRetired(t)
    PROVE  Inv'
<1> PICK f, w, c, x : f = Top(t) /\ w = Top(t).w /\ c = Top(t).c /\ x = Top(t).x
    OBVIOUS
<1>1. /\ stack[t] # <<>> /\ f \in FrameSet /\ f \in Frames /\ f.op = "attach" /\ f.at = "retired" /\ Fit(f) /\ f \in RawFrames
      /\ f.w = w /\ f.c = c /\ f.x = x /\ w \in WaitSetIds /\ c \in Conds /\ x \in Ctxs \cup {None} /\ f.todo = {}
  <2>1. At(t, "attach", "retired")
        BY DEF AttachRetired
  <2>2. /\ stack[t] # <<>> /\ f \in FrameSet /\ f \in Frames /\ f.op = "attach" /\ f.at = "retired" /\ Fit(f) /\ f \in RawFrames
        /\ x \in Ctxs \cup {None}
        BY <2>1, AtTop DEF Inv, Typed
  <2> QED  BY <2>2 DEF Fit
<1>2. PICK N : /\ Swapped(t, {f}, N) /\ N \subseteq FrameSet /\ ((N = {} /\ x = None) \/ \E g : N = {g})
               /\ \A g \in N : g.op = "attach" /\ g.at \in {"lock", "discard"} /\ g.w = w /\ g.c = c /\ g.x = x
  <2>1. /\ {"lock", "discard"} \subseteq Ats
        /\ \A h \in RawFrames : Like(h, f, "lock") \/ (x # None /\ Like(h, f, "discard")) => Fit(h)
        BY <1>1 DEF Like, Fit, Ats
  <2>2. \/ stack' = Return(t) /\ x = None
        \/ \E at \in {"lock", "discard"} : stack' = Goto(t, at) /\ (at = "discard" => x # None)
        BY DEF AttachRetired, NotStored
  <2>3. CASE stack' = Return(t) /\ x = None
    <3>1. Swapped(t, {f}, {})
          BY <1>1, <2>3, ReturnGoes DEF Inv, Typed
    <3> QED  BY <2>3, <3>1
  <2>4. ASSUME NEW at \in {"lock", "discard"}, stack' = Goto(t, at), at = "discard" => x # None
        PROVE  \E g \in FrameSet : Like(g, f, at) /\ Swapped(t, {f}, {g})
        BY <1>1, <2>1, <2>4, GotoGoes DEF Inv, Typed
  <2>5. ASSUME NEW at \in {"lock", "discard"}, stack' = Goto(t, at), at = "discard" => x # None
        PROVE  \E N : /\ Swapped(t, {f}, N) /\ N \subseteq FrameSet /\ ((N = {} /\ x = None) \/ \E g : N = {g})
                      /\ \A g \in N : g.op = "attach" /\ g.at \in {"lock", "discard"} /\ g.w = w /\ g.c = c /\ g.x = x
    <3>1. PICK g \in FrameSet : Like(g, f, at) /\ Swapped(t, {f}, {g})
          BY <2>4, <2>5
    <3>2. g.op = "attach" /\ g.at \in {"lock", "discard"} /\ g.w = w /\ g.c = c /\ g.x = x
          BY <1>1, <3>1 DEF Like
    <3>3. {g} \subseteq FrameSet /\ \E k : {g} = {k}
          OBVIOUS
    <3> QED  BY ONLY <3>1, <3>2, <3>3
  <2> QED  BY <2>2, <2>3, <2>5
<1>5. UNCHANGED <<binding, hooked, made, mine, attached, mu, notified, wakeups, trigger, refs, closed, retired, freed, ctx, owed>>
      BY DEF AttachRetired
<1>6. \A h \in {f} \cup N : h \in FrameSet /\ h.op = "attach" /\ h.at \in {"retired", "lock", "discard"} /\ h.c = c
      BY <1>1, <1>2
<1>7. /\ ReleaseSound' /\ EntriesApart' /\ FreeSound' /\ CountedC' /\ CountedW' /\ ListedFrom' /\ ListedTo'
      /\ AddingSound' /\ Mutex' /\ ScanSound' /\ OwedSound' /\ OneWaiter'
  <2>1. \A h \in {f} \cup N : h \in FrameSet /\ Soft(h) /\ h.op # "wait" /\ h.op # "set"
        BY <1>6 DEF Soft
  <2> QED  BY <1>1, <1>2, <1>5, <2>1, SoftSteps
<1>8. Typed'
      BY <1>2, <1>5 DEF Inv, Typed, Swapped
<1>9. OwnSound'
  <2>1. ASSUME NEW y \in Ctxs
        PROVE  /\ Even({f}, N, Owning(y)) /\ Single(N, Owning(y))
               /\ \A g \in N \cap Owning(y) : \E h \in {f} \cap Owning(y) : h.c = g.c
    <3>1. f \in Owning(y) <=> x = y
          BY <1>1 DEF Owning
    <3>2. \A g \in N : g \in Owning(y) <=> x = y
          BY <1>2 DEF Owning
    <3>3. y # None
          BY WaitSetsAssumption DEF WaitSetsAssumption
    <3> QED  BY <1>1, <1>2, <3>1, <3>2, <3>3 DEF Even, Single
  <2> QED  BY <1>2, <1>5, <2>1, OwnKept
<1>10. HookSound'
  <2>1. binding = "cpp" => x # None
        BY <1>1 DEF Inv, HookSound
  <2> QED  BY <1>2, <1>5, <2>1, HookKept
<1>11. \A d : {f} \cap DestroyG(d) = {} /\ N \cap DestroyG(d) = {} /\ {f} \cap Keeping(d) = {} /\ N \cap Keeping(d) = {}
      BY <1>6 DEF DestroyG, Keeping
<1>12. \A d : (Destroying(d)' <=> Destroying(d)) /\ (Unheld(d)' <=> Unheld(d))
      BY <1>2, <1>5, <1>11, DestroyingKept, UnheldKept DEF Even
<1>13. UseSound'
  <2>1. UseOf(f)
        BY <1>1 DEF Inv, UseSound, UseOf
  <2>2. \A h \in N : UseOf(h) /\ h.c \in Conds
        BY <1>1, <1>2, <2>1 DEF UseOf
  <2> QED  BY <1>2, <1>5, <1>12, <2>2, UseKept
<1>14. TearSound'
  <2>1. \A v : {f} \cap DestroyW(v) = {} /\ N \cap DestroyW(v) = {}
        BY <1>6 DEF DestroyW
  <2>2. \A h \in N : TearOf(h)
        BY <1>6 DEF TearOf
  <2> QED  BY <1>2, <1>5, <1>11, <1>12, <2>1, <2>2, TearKept DEF Even, Single
<1> QED  BY <1>7, <1>8, <1>9, <1>10, <1>13, <1>14 DEF Inv

(* Every context keeps its condition, for as long as it keeps one. *)
ConditionsKept ==
    ctx' \in [Ctxs -> [c : Conds \cup {None}, live : BOOLEAN]] /\ \A y \in Ctxs : ctx'[y].c = ctx[y].c

(* A call ends and gives up what it held of its condition: its argument, or    *)
(* its context.                                                                *)
LEMMA ReturnDropInv ==
    ASSUME Inv, NEW t \in Threads, stack[t] # <<>>, NEW f, f = Top(t), f \in FrameSet, f.op \in {"attach", "detach"}, Soft(f),
           NEW c \in Conds, f.c = c, stack' = AfterDrop(t, c, mine', ctx', Return(t)),
           UNCHANGED <<binding, hooked, made, mine, attached, mu, notified, wakeups, trigger, refs, closed, retired, freed, owed>>,
           OwnSound', ConditionsKept,
           binding = "cpp" => ~Unheld(c), \A d \in Conds \ {c} : Unheld(d)' <=> Unheld(d)
    PROVE  Inv'
<1> DEFINE D == Destroyer(c)  B == Orphaned(c)  N == IF B THEN {D} ELSE {}
<1>0. D \in FrameSet /\ D.op = "destroyGuard" /\ D.c = c /\ D.at = "close" /\ D.w = None /\ D.x = None
      BY DestroyerFrame DEF Objects
<1>1. Swapped(t, {f}, N) /\ f \in Frames
  <2>1. Swapped(t, {f}, N)
        BY ReturnDropGoes DEF Inv, Typed
  <2> QED  BY <2>1 DEF Swapped
<1>2. N = (IF B THEN {} \cup {Destroyer(c)} ELSE {}) /\ N \subseteq {D} /\ B \in BOOLEAN
      BY DEF Orphaned
<1>3. B => binding = "cpp" /\ c \notin closed /\ Unheld(c)'
      BY DEF Orphaned
<1>4. ~B /\ binding = "cpp" => c \in closed \/ ~Unheld(c)'
      BY DEF Orphaned
<1>16. N # {} => B
      OBVIOUS
<1> HIDE DEF D, B, N
<1>5. UseOf(f) /\ c \in made
      BY <1>1 DEF Inv, UseSound, UseOf
<1>6. binding = "cpp" => ~Destroying(c)
      BY <1>5 DEF Inv, TearSound
<1>7. /\ ReleaseSound' /\ EntriesApart' /\ FreeSound' /\ CountedC' /\ CountedW' /\ ListedFrom' /\ ListedTo'
      /\ AddingSound' /\ Mutex' /\ ScanSound' /\ OwedSound' /\ OneWaiter'
  <2>1. \A h \in {f} \cup N : h \in FrameSet /\ Soft(h) /\ h.op # "wait" /\ h.op # "set"
        BY <1>0, <1>2, <1>3, <1>16 DEF Soft
  <2> QED  BY <1>1, <2>1, SoftSteps
<1>8. Typed'
      BY <1>1 DEF Inv, Typed, Swapped, ConditionsKept
<1>10. HookSound'
      BY <1>0, <1>1, <1>2, HookKept
<1>11. TearSound' /\ \A d \in Conds : Destroying(d)' => Destroying(d) \/ (d = c /\ B)
  <2>1. \A d : {f} \cap DestroyG(d) = {} /\ {f} \cap DestroyW(d) = {}
        BY DEF DestroyG, DestroyW
  <2>2. B => c \notin mine' /\ ~Destroying(c) /\ {f} \cap DestroyG(c) = {}
        BY <1>3, <1>6, <2>1 DEF Unheld
  <2>3. binding = "cpp" => IF B THEN Unheld(c)' ELSE (Unheld(c)' <=> Destroying(c))
        BY <1>3, <1>4, <1>6 DEF Destroying
  <2>4. \A d \in Conds : Even({f}, {}, DestroyG(d)) /\ Single({}, DestroyG(d))
        BY <2>1 DEF Even, Single
  <2>5. \A v \in WaitSetIds : Even({f}, {}, DestroyW(v)) /\ Single({}, DestroyW(v)) /\ (v \in mine' <=> v \in mine)
        BY <2>1 DEF Even, Single
  <2>6. mine' \subseteq mine /\ \A h \in {} : TearOf(h)'
        OBVIOUS
  <2>7. B \in BOOLEAN /\ N = (IF B THEN {} \cup {Destroyer(c)} ELSE {})
        BY <1>2
  <2> QED  BY <1>1, <1>5, <2>2, <2>3, <2>4, <2>5, <2>6, <2>7, DropTear
<1>12. UseSound'
  <2>1. \A h \in Frames' : h \in Frames \/ h \in N
        BY <1>1 DEF Swapped
  <2>2. \A h \in N : UseOf(h) /\ h.op # "attach"
        BY <1>0, <1>2 DEF UseOf
  <2>3. \A h \in Frames' : /\ h.op = "set" => h.c \in mine'
                           /\ h.op \in {"attach", "detach", "wait"} => h.w \in mine'
        BY <1>0, <1>2, <2>1 DEF Inv, UseSound
  <2>4. (B /\ binding = "cpp" => Unheld(c)') /\ ~(B /\ binding = "java")
        BY <1>3
  <2> QED  BY <1>1, <1>2, <1>7, <1>8, <1>10, <1>11, <2>2, <2>3, <2>4, UseDropped
<1> QED  BY <1>7, <1>8, <1>10, <1>11, <1>12 DEF Inv

LEMMA DetachReturnInv ==
    ASSUME Inv, NEW t \in Threads, DetachReturn(t)
    PROVE  Inv'
<1> PICK f, w, c, x : f = Top(t) /\ w = Top(t).w /\ c = Top(t).c /\ x = Top(t).x
    OBVIOUS
<1>1. /\ stack[t] # <<>> /\ f \in FrameSet /\ f \in Frames /\ f.op = "detach" /\ f.at = "return" /\ Fit(f) /\ f \in RawFrames
      /\ f.w = w /\ f.c = c /\ f.x = x /\ w \in WaitSetIds /\ c \in Conds /\ x \in Ctxs \cup {None} /\ f.todo = {}
  <2>1. At(t, "detach", "return")
        BY DEF DetachReturn
  <2>2. /\ stack[t] # <<>> /\ f \in FrameSet /\ f \in Frames /\ f.op = "detach" /\ f.at = "return" /\ Fit(f) /\ f \in RawFrames
        /\ x \in Ctxs \cup {None}
        BY <2>1, AtTop DEF Inv, Typed
  <2> QED  BY <2>2 DEF Fit
<1>2. stack' = AfterDrop(t, c, mine, ctx, Return(t)) /\ UNCHANGED <<binding, hooked, made, mine, attached, mu, notified, wakeups, trigger, refs, closed, retired, freed, ctx, owed>>
      BY DEF DetachReturn
<1>3. stack' = AfterDrop(t, c, mine', ctx', Return(t))
      BY <1>2
<1> DEFINE D == Destroyer(c)  N == IF Orphaned(c) THEN {D} ELSE {}
<1>4. D.op = "destroyGuard" /\ D.at = "close" /\ D.x = None
      BY <1>1, DestroyerFrame DEF Objects
<1>5. Swapped(t, {f}, N) /\ N \subseteq {D}
      BY <1>1, <1>3, ReturnDropGoes DEF Inv, Typed
<1> HIDE DEF D, N
<1>6. OwnSound'
  <2>1. \A y \in Ctxs : {f} \cap Owning(y) = {} /\ N \cap Owning(y) = {}
        BY <1>1, <1>4, <1>5 DEF Owning
  <2> QED  BY <1>2, <1>5, <2>1, OwnKept DEF Even, Single
<1>7. ~Unheld(c)
      BY <1>1 DEF Unheld, Held, Keeping
<1>8. ASSUME NEW d \in Conds \ {c} PROVE Unheld(d)' <=> Unheld(d)
  <2>1. {f} \cap Keeping(d) = {} /\ N \cap Keeping(d) = {}
        BY <1>1, <1>4, <1>5 DEF Keeping
  <2> QED  BY <1>2, <1>5, <2>1, UnheldKept DEF Even
<1>9. Soft(f)
      BY <1>1 DEF Soft
<1>10. ConditionsKept
      BY <1>2 DEF Inv, Typed, ConditionsKept
<1> QED  BY <1>1, <1>2, <1>3, <1>6, <1>7, <1>8, <1>9, <1>10, ReturnDropInv

LEMMA AttachDiscardInv ==
    ASSUME Inv, NEW t \in Threads, AttachDiscard(t)
    PROVE  Inv'
<1> PICK f, w, c, x : f = Top(t) /\ w = Top(t).w /\ c = Top(t).c /\ x = Top(t).x
    OBVIOUS
<1>1. /\ stack[t] # <<>> /\ f \in FrameSet /\ f \in Frames /\ f.op = "attach" /\ f.at = "discard" /\ Fit(f) /\ f \in RawFrames
      /\ f.w = w /\ f.c = c /\ f.x = x /\ w \in WaitSetIds /\ c \in Conds /\ x \in Ctxs \cup {None} /\ f.todo = {} /\ x # None
  <2>1. At(t, "attach", "discard")
        BY DEF AttachDiscard
  <2>2. /\ stack[t] # <<>> /\ f \in FrameSet /\ f \in Frames /\ f.op = "attach" /\ f.at = "discard" /\ Fit(f) /\ f \in RawFrames
        /\ x \in Ctxs \cup {None}
        BY <2>1, AtTop DEF Inv, Typed
  <2> QED  BY <2>2 DEF Fit
<1>2. /\ stack' = AfterDrop(t, c, mine, ctx', Return(t)) /\ ctx' = [ctx EXCEPT ![x].live = FALSE] /\ x \in Ctxs
      /\ UNCHANGED <<binding, hooked, made, mine, attached, mu, notified, wakeups, trigger, refs, closed, retired, freed, owed>>
      BY <1>1 DEF AttachDiscard
<1>3. stack' = AfterDrop(t, c, mine', ctx', Return(t))
      BY <1>2
<1> DEFINE D == Destroyer(c)  N == IF Orphaned(c) THEN {D} ELSE {}
<1>4. D.op = "destroyGuard" /\ D.at = "close" /\ D.x = None
      BY <1>1, DestroyerFrame DEF Objects
<1>5. Swapped(t, {f}, N) /\ N \subseteq {D}
      BY <1>1, <1>3, ReturnDropGoes DEF Inv, Typed
<1> HIDE DEF D, N
<1>11. f \in Owning(x)
      BY <1>1 DEF Owning
<1>12. ctx[x].live /\ ctx[x].c = c /\ ctx \in [Ctxs -> [c : Conds \cup {None}, live : BOOLEAN]]
      BY <1>1, <1>2, <1>11 DEF Inv, Typed, OwnSound, OwnedOnce
<1>6. OwnSound'
  <2>1. \A y \in Ctxs : N \cap Owning(y) = {} /\ (y # x => {f} \cap Owning(y) = {})
        BY <1>1, <1>4, <1>5 DEF Owning
  <2>2. {f} \cap Owning(x) # {}
        BY <1>11
  <2>3. UNCHANGED attached
        BY <1>2
  <2>4. ~ctx'[x].live /\ \A y \in Ctxs : y # x => ctx'[y] = ctx[y]
        BY <1>2, <1>12
  <2> QED  BY <1>2, <1>5, <2>1, <2>2, <2>3, <2>4, OwnFired
<1>7. ~Unheld(c)
      BY <1>2, <1>12 DEF Unheld
<1>8. ASSUME NEW d \in Conds \ {c} PROVE Unheld(d)' <=> Unheld(d)
  <2>1. {f} \cap Keeping(d) = {} /\ N \cap Keeping(d) = {}
        BY <1>1, <1>4, <1>5 DEF Keeping
  <2>2. Held(Keeping(d))' <=> Held(Keeping(d))
        BY <1>5, <2>1, EvenHeld DEF Even
  <2>3. \A y \in Ctxs : ctx'[y].c = ctx[y].c /\ (y # x => ctx'[y] = ctx[y])
        BY <1>2, <1>12
  <2> QED  BY <1>2, <1>12, <2>2, <2>3 DEF Unheld
<1>9. Soft(f)
      BY <1>1 DEF Soft
<1>10. ConditionsKept
      BY <1>2, <1>12 DEF ConditionsKept
<1> QED  BY <1>1, <1>2, <1>3, <1>6, <1>7, <1>8, <1>9, <1>10, ReturnDropInv

(* A context is allocated: it has one owner, the frame g. *)
LEMMA OwnNew ==
    ASSUME Inv, NEW t, NEW P, NEW N, Swapped(t, P, N), NEW x \in Ctxs, NEW g \in FrameSet, UNCHANGED attached,
           ctx[x].c = None, ctx'[x].live, ctx'[x].c = g.c, \A y \in Ctxs : y # x => ctx'[y] = ctx[y],
           N \cap Owning(x) = {g},
           \A y \in Ctxs : y # x => N \cap Owning(y) = {} /\ P \cap Owning(y) = {}
    PROVE  OwnSound'
<1> SUFFICES ASSUME NEW y \in Ctxs PROVE OwnedOnce(y)'
    BY DEF OwnSound
<1>1. OwnedOnce(y) /\ OwnedOnce(x)
      BY DEF Inv, OwnSound
<1>2. \A h \in Frames' : h \in Frames \/ h \in N
      BY DEF Swapped
<1>3. CASE y # x
  <2>2. (Held(Owning(y))' <=> Held(Owning(y))) /\ Once(Owning(y))'
        BY <1>1, <1>3, EvenHeld, EvenOnce DEF OwnedOnce, Even, Single
  <2> QED  BY <1>1, <1>2, <1>3, <2>2 DEF OwnedOnce, EntryX
<1>4. CASE y = x
  <2>1. ~Held(Owning(x))
    <3> SUFFICES ASSUME NEW h \in Frames, h \in Owning(x) PROVE FALSE
        BY DEF Held
    <3>1. h.c = None
          BY <1>1 DEF OwnedOnce
    <3>2. h.c \in Conds
          BY DEF Owning, FrameSet, Fit
    <3> QED  BY <3>1, <3>2, WaitSetsAssumption DEF WaitSetsAssumption
  <2>2. \A w \in WaitSetIds : \A e \in attached[w] : e.x # x
    <3> SUFFICES ASSUME NEW w \in WaitSetIds, NEW e \in attached[w], e.x = x PROVE FALSE
        OBVIOUS
    <3>1. e.c = None /\ e.c \in Conds
          BY <1>1 DEF OwnedOnce, Inv, Typed
    <3> QED  BY <3>1, WaitSetsAssumption DEF WaitSetsAssumption
  <2>3. Once(Owning(x))' /\ Held(Owning(x))'
    <3>1. Single(N, Owning(x)) /\ N \cap Owning(x) # {}
          BY DEF Single
    <3> QED  BY <1>1, <2>1, <3>1, NewHeld DEF OwnedOnce
  <2>4. \A h \in Frames' : h \in Owning(x) => h = g
        BY <1>2, <2>1 DEF Held
  <2> QED  BY <1>4, <2>2, <2>3, <2>4 DEF OwnedOnce, EntryX
<1> QED  BY <1>3, <1>4

LEMMA AttachAllocatedInv ==
    ASSUME Inv, NEW t \in Threads, At(t, "attach", "alloc"), NEW x \in Ctxs, ctx[x].c = None,
           ctx' = [ctx EXCEPT ![x] = [c |-> Top(t).c, live |-> TRUE]],
           stack' = GotoWith(t, [Top(t) EXCEPT !.at = "retired", !.x = x]),
           UNCHANGED <<binding, hooked, made, mine, attached, mu, notified, wakeups, trigger, refs, closed, retired, freed, owed>>
    PROVE  Inv'
<1> PICK f, w, c : f = Top(t) /\ w = Top(t).w /\ c = Top(t).c
    OBVIOUS
<1>1. /\ stack[t] # <<>> /\ f \in FrameSet /\ f \in Frames /\ f.op = "attach" /\ f.at = "alloc" /\ Fit(f) /\ f \in RawFrames
      /\ f.w = w /\ f.c = c /\ f.x = None /\ w \in WaitSetIds /\ c \in Conds /\ f.todo = {}
  <2>1. /\ stack[t] # <<>> /\ f \in FrameSet /\ f \in Frames /\ f.op = "attach" /\ f.at = "alloc" /\ Fit(f) /\ f \in RawFrames
        BY AtTop DEF Inv, Typed
  <2> QED  BY <2>1 DEF Fit
<1> DEFINE g == [f EXCEPT !.at = "retired", !.x = x]
<1>2. g \in RawFrames /\ g.op = "attach" /\ g.at = "retired" /\ g.w = w /\ g.c = c /\ g.x = x /\ g.todo = {}
  <2>1. "retired" \in Ats
        BY DEF Ats
  <2> QED  BY <1>1, <2>1 DEF RawFrames
<1>3. stack' = GotoWith(t, g)
      OBVIOUS
<1> HIDE DEF g
<1>4. g \in FrameSet /\ Swapped(t, {f}, {g})
  <2>1. g \in FrameSet
        BY <1>1, <1>2 DEF FrameSet, Fit
  <2> QED  BY <1>1, <1>3, <2>1, GotoWithGoes DEF Inv, Typed
<1>5. /\ ctx \in [Ctxs -> [c : Conds \cup {None}, live : BOOLEAN]] /\ ctx'[x].live /\ ctx'[x].c = c
      /\ \A y \in Ctxs : y # x => ctx'[y] = ctx[y]
      /\ ctx' \in [Ctxs -> [c : Conds \cup {None}, live : BOOLEAN]]
      BY <1>1 DEF Inv, Typed
<1>7. /\ ReleaseSound' /\ EntriesApart' /\ FreeSound' /\ CountedC' /\ CountedW' /\ ListedFrom' /\ ListedTo'
      /\ AddingSound' /\ Mutex' /\ ScanSound' /\ OwedSound' /\ OneWaiter'
  <2>1. \A h \in {f} \cup {g} : h \in FrameSet /\ Soft(h) /\ h.op # "wait" /\ h.op # "set"
        BY <1>1, <1>2, <1>4 DEF Soft
  <2> QED  BY <1>1, <1>4, <2>1, SoftSteps
<1>8. Typed'
  <2>1. c \in made
        BY <1>1 DEF Inv, UseSound
  <2> QED  BY <1>4, <1>5, <2>1 DEF Inv, Typed, Swapped
<1>9. OwnSound'
  <2>1. {g} \cap Owning(x) = {g}
        BY <1>2, <1>4 DEF Owning
  <2>2. \A y \in Ctxs : y # x => {g} \cap Owning(y) = {} /\ {f} \cap Owning(y) = {}
        BY <1>1, <1>2, WaitSetsAssumption DEF Owning, WaitSetsAssumption
  <2> QED  BY <1>2, <1>4, <1>5, <2>1, <2>2, OwnNew
<1>10. HookSound'
  <2>1. x # None
        BY WaitSetsAssumption DEF WaitSetsAssumption
  <2> QED  BY <1>2, <1>4, <2>1, HookKept
<1>11. \A d : {f} \cap DestroyG(d) = {} /\ {g} \cap DestroyG(d) = {}
      BY <1>1, <1>2 DEF DestroyG
<1>12. ASSUME NEW d \in Conds PROVE (Destroying(d)' <=> Destroying(d)) /\ (Unheld(d)' <=> Unheld(d))
  <2>1. Destroying(d)' <=> Destroying(d)
        BY <1>4, <1>11, DestroyingKept DEF Even
  <2>2. CASE d = c
    <3>1. f \in Keeping(c)
          BY <1>1 DEF Keeping
    <3> QED  BY <1>1, <1>5, <2>1, <2>2, <3>1 DEF Unheld, Held
  <2>3. CASE d # c
    <3>1. {f} \cap Keeping(d) = {} /\ {g} \cap Keeping(d) = {}
          BY <1>1, <1>2, <2>3 DEF Keeping
    <3>2. Held(Keeping(d))' <=> Held(Keeping(d))
          BY <1>4, <3>1, EvenHeld DEF Even
    <3>3. ctx[x].c # d
          BY WaitSetsAssumption DEF WaitSetsAssumption
    <3> QED  BY <1>5, <2>1, <2>3, <3>2, <3>3 DEF Unheld
  <2> QED  BY <2>2, <2>3
<1>13. UseSound'
  <2>1. UseOf(f)
        BY <1>1 DEF Inv, UseSound, UseOf
  <2>2. UseOf(g)
        BY <1>1, <1>2, <2>1 DEF UseOf
  <2> QED  BY <1>1, <1>2, <1>4, <1>12, <2>2, UseKept
<1>14. TearSound'
  <2>1. \A v : {f} \cap DestroyW(v) = {} /\ {g} \cap DestroyW(v) = {}
        BY <1>1, <1>2 DEF DestroyW
  <2>2. TearOf(g)
        BY <1>2 DEF TearOf
  <2> QED  BY <1>4, <1>11, <1>12, <2>1, <2>2, TearKept DEF Even, Single
<1> QED  BY <1>7, <1>8, <1>9, <1>10, <1>13, <1>14 DEF Inv

LEMMA AttachAllocInv ==
    ASSUME Inv, NEW t \in Threads, AttachAlloc(t)
    PROVE  Inv'
<1> PICK f, w, c, x : f = Top(t) /\ w = Top(t).w /\ c = Top(t).c /\ x = Top(t).x
    OBVIOUS
<1>1. /\ stack[t] # <<>> /\ f \in FrameSet /\ f \in Frames /\ f.op = "attach" /\ f.at = "alloc" /\ Fit(f) /\ f \in RawFrames
      /\ f.w = w /\ f.c = c /\ f.x = x /\ w \in WaitSetIds /\ c \in Conds /\ x \in Ctxs \cup {None} /\ f.todo = {} /\ x = None
  <2>1. At(t, "attach", "alloc")
        BY DEF AttachAlloc
  <2>2. /\ stack[t] # <<>> /\ f \in FrameSet /\ f \in Frames /\ f.op = "attach" /\ f.at = "alloc" /\ Fit(f) /\ f \in RawFrames
        /\ x \in Ctxs \cup {None}
        BY <2>1, AtTop DEF Inv, Typed
  <2> QED  BY <2>2 DEF Fit
<1>2. UNCHANGED <<binding, hooked, made, mine, attached, mu, notified, wakeups, trigger, refs, closed, retired, freed, owed>>
      BY DEF AttachAlloc
<1>20. CASE stack' = AfterDrop(t, c, mine, ctx, Return(t)) /\ ctx' = ctx
  <2>3. stack' = AfterDrop(t, c, mine', ctx', Return(t))
        BY <1>2, <1>20
  <2> DEFINE D == Destroyer(c)  N == IF Orphaned(c) THEN {D} ELSE {}
  <2>4. D.op = "destroyGuard" /\ D.at = "close" /\ D.x = None
        BY <1>1, DestroyerFrame DEF Objects
  <2>5. Swapped(t, {f}, N) /\ N \subseteq {D}
        BY <1>1, <2>3, ReturnDropGoes DEF Inv, Typed
  <2> HIDE DEF D, N
  <2>6. OwnSound'
    <3>1. \A y \in Ctxs : {f} \cap Owning(y) = {} /\ N \cap Owning(y) = {}
      <4>1. f.x = None /\ \A h \in N : h.x = None
            BY <1>1, <2>4, <2>5
      <4>2. None \notin Ctxs
            BY WaitSetsAssumption DEF WaitSetsAssumption
      <4> QED  BY <4>1, <4>2 DEF Owning
    <3> QED  BY <1>2, <1>20, <2>5, <3>1, OwnKept DEF Even, Single
  <2>7. ~Unheld(c)
        BY <1>1 DEF Unheld, Held, Keeping
  <2>8. ASSUME NEW d \in Conds \ {c} PROVE Unheld(d)' <=> Unheld(d)
    <3>1. {f} \cap Keeping(d) = {} /\ N \cap Keeping(d) = {}
          BY <1>1, <2>4, <2>5 DEF Keeping
    <3> QED  BY <1>2, <1>20, <2>5, <3>1, UnheldKept DEF Even
  <2>9. Soft(f)
        BY <1>1 DEF Soft
  <2>10. ConditionsKept
        BY <1>20 DEF Inv, Typed, ConditionsKept
  <2> QED  BY <1>1, <1>2, <2>3, <2>6, <2>7, <2>8, <2>9, <2>10, ReturnDropInv
<1>21. CASE \E y \in Ctxs : /\ ctx[y].c = None
                            /\ ctx' = [ctx EXCEPT ![y] = [c |-> Top(t).c, live |-> TRUE]]
                            /\ stack' = GotoWith(t, [Top(t) EXCEPT !.at = "retired", !.x = y])
  <2>1. At(t, "attach", "alloc")
        BY DEF AttachAlloc
  <2> QED  BY <1>2, <1>21, <2>1, AttachAllocatedInv
<1> QED  BY <1>20, <1>21 DEF AttachAlloc

LEMMA DetachFireInv ==
    ASSUME Inv, NEW t \in Threads, DetachFire(t)
    PROVE  Inv'
<1> PICK f, w, c, x : f = Top(t) /\ w = Top(t).w /\ c = Top(t).c /\ x = Top(t).x
    OBVIOUS
<1>1. /\ stack[t] # <<>> /\ f \in FrameSet /\ f \in Frames /\ f.op = "detach" /\ f.at = "fire" /\ Fit(f) /\ f \in RawFrames
      /\ f.w = w /\ f.c = c /\ f.x = x /\ w \in WaitSetIds /\ c \in Conds /\ x \in Ctxs \cup {None} /\ f.todo = {}
  <2>1. At(t, "detach", "fire")
        BY DEF DetachFire
  <2>2. /\ stack[t] # <<>> /\ f \in FrameSet /\ f \in Frames /\ f.op = "detach" /\ f.at = "fire" /\ Fit(f) /\ f \in RawFrames
        /\ x \in Ctxs \cup {None}
        BY <2>1, AtTop DEF Inv, Typed
  <2> QED  BY <2>2 DEF Fit
<1>2. UNCHANGED <<binding, hooked, made, mine, attached, mu, notified, wakeups, trigger, refs, closed, retired, freed, owed>>
      BY DEF DetachFire
<1> DEFINE g == [f EXCEPT !.at = "return"]
<1>3. g \in FrameSet /\ Like(g, f, "return") /\ Goto(t, "return") = GotoWith(t, g)
  <2>1. "return" \in Ats
        BY DEF Ats
  <2>2. g \in RawFrames /\ Like(g, f, "return")
        BY <1>1, <2>1, AtField
  <2>3. Goto(t, "return") = GotoWith(t, g)
        BY DEF Goto, GotoWith, Top
  <2> HIDE DEF g
  <2>4. Fit(g)
        BY <1>1, <2>2 DEF Like, Fit
  <2> QED  BY <2>2, <2>3, <2>4 DEF FrameSet
<1> HIDE DEF g
<1>4. g.op = "detach" /\ g.at = "return" /\ g.w = w /\ g.c = c /\ g.x = x
      BY <1>1, <1>3 DEF Like
<1>5. f \in Keeping(c) /\ g \in Keeping(c)
      BY <1>1, <1>3, <1>4 DEF Keeping
<1>6. /\ Swapped(t, {f}, {g}) /\ OwnSound' /\ ctx' \in [Ctxs -> [c : Conds \cup {None}, live : BOOLEAN]]
      /\ \A y \in Ctxs : ctx'[y] = ctx[y] \/ (ctx'[y].c = ctx[y].c /\ ctx[y].c = c)
  <2>1. CASE x = None
    <3>1. stack' = GotoWith(t, g) /\ ctx' = ctx
          BY <1>3, <2>1 DEF DetachFire, FireRelease
    <3>2. Swapped(t, {f}, {g})
          BY <1>1, <1>3, <3>1, GotoWithGoes DEF Inv, Typed
    <3>3. \A y \in Ctxs : {f} \cap Owning(y) = {} /\ {g} \cap Owning(y) = {}
          BY <1>1, <1>4, <2>1, WaitSetsAssumption DEF Owning, WaitSetsAssumption
    <3>4. OwnSound'
          BY <1>2, <3>1, <3>2, <3>3, OwnKept DEF Even, Single
    <3> QED  BY <3>1, <3>2, <3>4 DEF Inv, Typed
  <2>2. CASE x # None
    <3>1. f \in Owning(x) /\ x \in Ctxs
          BY <1>1, <2>2 DEF Owning
    <3>2. ctx[x].live /\ ctx[x].c = c /\ ctx \in [Ctxs -> [c : Conds \cup {None}, live : BOOLEAN]]
          BY <1>1, <3>1 DEF Inv, Typed, OwnSound, OwnedOnce
    <3>3. ctx' = [ctx EXCEPT ![x].live = FALSE] /\ stack' = AfterDrop(t, c, mine', ctx', GotoWith(t, g))
          BY <1>2, <1>3, <2>2, <3>2 DEF DetachFire, FireRelease
    <3>4. g # Destroyer(c)
          BY <1>1, <1>4, DestroyerFrame DEF Objects
    <3>5. /\ Orphaned(c) => Swapped(t, {f}, {g, Destroyer(c)})
          /\ ~Orphaned(c) => Swapped(t, {f}, {g})
          BY <1>1, <1>3, <3>3, <3>4, GotoDropGoes DEF Inv, Typed
    <3>6. Swapped(t, {f}, {g})
      <4>1. SUFFICES ASSUME Orphaned(c) PROVE FALSE
            BY <3>5
      <4>2. g \in Frames'
            BY <3>5, <4>1 DEF Swapped
      <4> QED  BY <1>5, <4>1, <4>2 DEF Orphaned, Unheld, Held
    <3>7. ~ctx'[x].live /\ (\A y \in Ctxs : y # x => ctx'[y] = ctx[y]) /\ ctx'[x].c = c
          /\ ctx' \in [Ctxs -> [c : Conds \cup {None}, live : BOOLEAN]]
          BY <3>1, <3>2, <3>3
    <3>8. (\A y \in Ctxs : {g} \cap Owning(y) = {} /\ (y # x => {f} \cap Owning(y) = {})) /\ {f} \cap Owning(x) # {}
          BY <1>1, <1>4, <3>1 DEF Owning
    <3>9. OwnSound'
          BY <1>2, <3>1, <3>6, <3>7, <3>8, OwnFired
    <3> QED  BY <3>2, <3>6, <3>7, <3>9
  <2> QED  BY <2>1, <2>2
<1>7. /\ ReleaseSound' /\ EntriesApart' /\ FreeSound' /\ CountedC' /\ CountedW' /\ ListedFrom' /\ ListedTo'
      /\ AddingSound' /\ Mutex' /\ ScanSound' /\ OwedSound' /\ OneWaiter'
  <2>1. \A h \in {f} \cup {g} : h \in FrameSet /\ Soft(h) /\ h.op # "wait" /\ h.op # "set"
        BY <1>1, <1>3, <1>4 DEF Soft
  <2> QED  BY <1>1, <1>2, <1>6, <2>1, SoftSteps
<1>8. Typed'
      BY <1>2, <1>6 DEF Inv, Typed, Swapped
<1>10. HookSound'
      BY <1>2, <1>4, <1>6, HookKept
<1>11. \A d : {f} \cap DestroyG(d) = {} /\ {g} \cap DestroyG(d) = {}
      BY <1>1, <1>4 DEF DestroyG
<1>12. ASSUME NEW d \in Conds PROVE (Destroying(d)' <=> Destroying(d)) /\ (Unheld(d)' <=> Unheld(d))
  <2>1. Destroying(d)' <=> Destroying(d)
        BY <1>2, <1>6, <1>11, DestroyingKept DEF Even
  <2>2. CASE d = c
    <3>1. g \in Frames'
          BY <1>6 DEF Swapped
    <3> QED  BY <1>1, <1>5, <2>1, <2>2, <3>1 DEF Unheld, Held
  <2>3. CASE d # c
    <3>1. {f} \cap Keeping(d) = {} /\ {g} \cap Keeping(d) = {}
          BY <1>1, <1>4, <2>3 DEF Keeping
    <3>2. Held(Keeping(d))' <=> Held(Keeping(d))
          BY <1>6, <3>1, EvenHeld DEF Even
    <3> QED  BY <1>2, <1>6, <2>1, <2>3, <3>2 DEF Unheld
  <2> QED  BY <2>2, <2>3
<1>13. UseSound'
  <2>1. UseOf(f)
        BY <1>1 DEF Inv, UseSound, UseOf
  <2>2. UseOf(g)
        BY <1>1, <1>4, <2>1 DEF UseOf
  <2> QED  BY <1>2, <1>4, <1>6, <1>12, <2>2, UseKept
<1>14. TearSound'
  <2>1. \A v : {f} \cap DestroyW(v) = {} /\ {g} \cap DestroyW(v) = {}
        BY <1>1, <1>4 DEF DestroyW
  <2>2. TearOf(g)
        BY <1>4 DEF TearOf
  <2> QED  BY <1>2, <1>6, <1>11, <1>12, <2>1, <2>2, TearKept DEF Even, Single
<1> QED  BY <1>6, <1>7, <1>8, <1>10, <1>13, <1>14 DEF Inv

-------------------------------------------------------------------------------
(* Steps about an attachment: what they leave alone.                           *)

(* The frame g goes on for f. *)
Heir(f, g) ==
    /\ g.op = f.op /\ g.op \in {"attach", "detach", "freeWaitSet", "destroyGuard"}
    /\ f.at \notin {"close", "alloc"} /\ g.at \notin {"close", "alloc"}
    /\ g.op # "freeWaitSet" => g.c = f.c
    /\ g.op # "destroyGuard" => g.w = f.w

LEMMA CalmSteps ==
    ASSUME Inv, NEW t \in Threads, NEW f \in FrameSet, NEW N, Swapped(t, {f}, N),
           f.op \in {"attach", "detach", "freeWaitSet", "destroyGuard"}, f.at \notin {"close", "alloc"},
           \A g \in N : g \in FrameSet /\ (Heir(f, g) \/ g.op = "freeWaitSet"),
           f.op \in {"detach", "destroyGuard"} => \E g \in N : Heir(f, g),
           \A g, h \in N : g.op = "destroyGuard" /\ h.op = "destroyGuard" => g = h,
           UNCHANGED <<binding, made, mine, closed, ctx, notified>>, owed' \subseteq owed,
           \A p \in owed' : p[1] \in wakeups'[p[2]]
    PROVE  UseSound' /\ TearSound' /\ OneWaiter' /\ OwedSound'
<1>1. ASSUME NEW d
      PROVE  /\ Even({f}, N, DestroyG(d)) /\ Single(N, DestroyG(d))
             /\ {f} \cap DestroyW(d) = {} /\ N \cap DestroyW(d) = {}
             /\ {f} \cap WaitOn(d) = {} /\ N \cap WaitOn(d) = {}
             /\ Even({f}, N, Keeping(d))
  <2>1. {f} \cap DestroyW(d) = {} /\ N \cap DestroyW(d) = {} /\ {f} \cap WaitOn(d) = {} /\ N \cap WaitOn(d) = {}
        BY DEF DestroyW, WaitOn, Heir
  <2>2. Single(N, DestroyG(d))
        BY DEF Single, DestroyG
  <2>3. \A g \in N : g \in DestroyG(d) => f \in DestroyG(d)
        BY DEF Heir, DestroyG
  <2>4. \A g \in N : Heir(f, g) => (f \in DestroyG(d) => g \in DestroyG(d)) /\ (f \in Keeping(d) => g \in Keeping(d))
        BY DEF Heir, DestroyG, Keeping
  <2>5. \A g \in N : g \in Keeping(d) => f \in Keeping(d)
        BY DEF Heir, Keeping
  <2>6. f \in DestroyG(d) \/ f \in Keeping(d) => \E g \in N : Heir(f, g)
        BY DEF DestroyG, Keeping
  <2> QED  BY <2>1, <2>2, <2>3, <2>4, <2>5, <2>6 DEF Even
<1>2. f \in Frames
      BY DEF Swapped
<1>3. UseOf(f) /\ TearOf(f)
      BY <1>2 DEF Inv, UseSound, UseOf, TearSound, TearOf
<1>4. \A g \in N : UseOf(g) /\ TearOf(g) /\ (g.op = "attach" => g.c \in Conds)
  <2> SUFFICES ASSUME NEW g \in N PROVE UseOf(g) /\ TearOf(g) /\ (g.op = "attach" => g.c \in Conds)
      OBVIOUS
  <2>1. g.op = "attach" => g.c \in Conds
        BY DEF FrameSet, Fit
  <2>2. CASE g.op = "freeWaitSet"
        BY <2>1, <2>2 DEF UseOf, TearOf
  <2>3. CASE Heir(f, g)
        BY <1>3, <2>1, <2>3 DEF Heir, UseOf, TearOf
  <2> QED  BY <2>2, <2>3
<1>5. \A d : (Destroying(d)' <=> Destroying(d)) /\ (Unheld(d)' <=> Unheld(d))
      BY <1>1, DestroyingKept, UnheldKept
<1>6. UseSound'
      BY <1>4, <1>5, UseKept
<1>7. TearSound'
      BY <1>1, <1>4, <1>5, TearKept DEF Even, Single
<1>8. OneWaiter'
      BY <1>1, OneWaiterKept DEF Even, Single
<1>9. OwedSound'
  <2>1. f.op # "set" /\ \A g \in N : g.op # "wait"
        BY DEF Heir
  <2> QED  BY <2>1, OwedKept
<1> QED  BY <1>6, <1>7, <1>8, <1>9

LEMMA HookBut ==
    ASSUME Inv, NEW t, NEW P, NEW N, Swapped(t, P, N), UNCHANGED binding,
           binding = "cpp" => \A h \in N : h.op = "attach" /\ h.at # "alloc" => h.x # None,
           binding = "cpp" => \A w \in WaitSetIds : \A e \in attached'[w] : e \in attached[w] \/ e.x # None
    PROVE  HookSound'
<1>1. \A h \in Frames' : h \in Frames \/ h \in N
      BY DEF Swapped
<1> QED  BY <1>1 DEF Inv, HookSound

(* The frame that owned a context stored it in an entry. *)
LEMMA OwnStored ==
    ASSUME Inv, NEW t, NEW f, NEW g, Swapped(t, {f}, {g}), UNCHANGED ctx, NEW w \in WaitSetIds, NEW e \in attached'[w],
           attached'[w] = attached[w] \cup {e}, \A v \in WaitSetIds : v # w => attached'[v] = attached[v],
           \A y \in Ctxs : (f \in Owning(y) <=> y = e.x) /\ g \notin Owning(y), f.c = e.c
    PROVE  OwnSound'
<1> SUFFICES ASSUME NEW y \in Ctxs PROVE OwnedOnce(y)'
    BY DEF OwnSound
<1>1. OwnedOnce(y) /\ f \in Frames
      BY DEF Inv, OwnSound, Swapped
<1>2. \A h \in Frames' : h \in Frames \/ h = g
      BY DEF Swapped
<1>3. CASE y # e.x
  <2>1. Even({f}, {g}, Owning(y)) /\ Single({g}, Owning(y))
        BY <1>3 DEF Even, Single
  <2>2. (Held(Owning(y))' <=> Held(Owning(y))) /\ Once(Owning(y))'
        BY <1>1, <2>1, EvenHeld, EvenOnce DEF OwnedOnce
  <2>3. \A v \in WaitSetIds : \A d : d.x = y => (d \in attached'[v] <=> d \in attached[v])
        BY <1>3
  <2> QED  BY <1>1, <1>2, <2>2, <2>3 DEF OwnedOnce, EntryX
<1>4. CASE y = e.x
  <2>1. {f} \cap Owning(y) # {} /\ {g} \cap Owning(y) = {}
        BY <1>4
  <2>2. ~Held(Owning(y))' /\ Once(Owning(y))'
        BY <1>1, <2>1, GoneHeld DEF OwnedOnce
  <2>3. ctx[y].live /\ ctx[y].c = e.c /\ \A v \in WaitSetIds : \A d \in attached[v] : d.x # y
        BY <1>1, <1>4 DEF OwnedOnce, Held
  <2>4. \A v \in WaitSetIds : \A d \in attached'[v] : d.x = y => v = w /\ d = e
        BY <2>3
  <2>5. EntryX(y)'
        BY <1>4 DEF EntryX
  <2> QED  BY <1>4, <2>2, <2>3, <2>4, <2>5 DEF OwnedOnce, Held
<1> QED  BY <1>3, <1>4

(* A frame took the context of an entry that goes. *)
Takes(f, N, e) ==
    \A y \in Ctxs : /\ f \notin Owning(y) /\ Single(N, Owning(y)) /\ (N \cap Owning(y) # {} <=> y = e.x)
                    /\ \A g \in N \cap Owning(y) : g.c = e.c
EntryGone(w, e) ==
    /\ e \in attached[w] /\ attached'[w] = attached[w] \ {e}
    /\ \A v \in WaitSetIds : v # w => attached'[v] = attached[v]

LEMMA OwnTaken ==
    ASSUME Inv, NEW t, NEW f, NEW N, Swapped(t, {f}, N), UNCHANGED ctx, NEW w \in WaitSetIds, NEW e,
           EntryGone(w, e), Takes(f, N, e)
    PROVE  OwnSound'
<1> USE DEF Takes, EntryGone
<1> SUFFICES ASSUME NEW y \in Ctxs PROVE OwnedOnce(y)'
    BY DEF OwnSound
<1>1. OwnedOnce(y)
      BY DEF Inv, OwnSound
<1>2. \A h \in Frames' : h \in Frames \/ h \in N
      BY DEF Swapped
<1>3. CASE y # e.x
  <2>1. Even({f}, N, Owning(y)) /\ Single(N, Owning(y))
        BY <1>3 DEF Even
  <2>2. (Held(Owning(y))' <=> Held(Owning(y))) /\ Once(Owning(y))'
        BY <1>1, <2>1, EvenHeld, EvenOnce DEF OwnedOnce
  <2>3. \A v \in WaitSetIds : \A d : d.x = y => (d \in attached'[v] <=> d \in attached[v])
        BY <1>3
  <2>4. N \cap Owning(y) = {}
        BY <1>3
  <2> QED  BY <1>1, <1>2, <2>2, <2>3, <2>4 DEF OwnedOnce, EntryX
<1>4. CASE y = e.x
  <2>1. ~Held(Owning(y)) /\ ctx[y].live /\ ctx[y].c = e.c
        BY <1>1, <1>4 DEF OwnedOnce
  <2>2. Once(Owning(y))' /\ Held(Owning(y))'
        BY <1>1, <1>4, <2>1, NewHeld DEF OwnedOnce
  <2>3. \A h \in Frames' : h \in Owning(y) => h \in N
        BY <1>2, <2>1 DEF Held
  <2>4. \A v \in WaitSetIds : \A d \in attached'[v] : d.x # y
    <3> SUFFICES ASSUME NEW v \in WaitSetIds, NEW d \in attached'[v], d.x = y PROVE FALSE
        OBVIOUS
    <3>1. d \in attached[v] /\ (v = w => d # e)
          OBVIOUS
    <3>2. v = w /\ d = e
          BY <1>1, <1>4, <3>1 DEF OwnedOnce
    <3> QED  BY <3>1, <3>2
  <2> QED  BY <2>1, <2>2, <2>3, <2>4 DEF OwnedOnce, EntryX
<1> QED  BY <1>3, <1>4

LEMMA AttachmentsFinite ==
    ASSUME NEW c
    PROVE  /\ IsFiniteSet(Attachments(c)) /\ Cardinality(Attachments(c)) \in Nat
           /\ IsFiniteSet(Pins(c)) /\ Cardinality(Pins(c)) \in Nat
<1>1. IsFiniteSet(WaitSetIds) /\ IsFiniteSet(Conds)
      BY WaitSetsAssumption DEF WaitSetsAssumption
<1>2. Attachments(c) \subseteq WaitSetIds /\ Pins(c) \subseteq Conds
      BY DEF Attachments, Pins
<1> QED  BY <1>1, <1>2, FS_Subset, FS_CardinalityType

(* The count of a condition follows the one attachment that changes. *)
LEMMA CountedStep ==
    ASSUME Inv, NEW w \in WaitSetIds, NEW c \in Conds,
           \A v \in WaitSetIds, d \in Conds : v # w \/ d # c => (Attached(v, d)' <=> Attached(v, d)),
           \A d \in Conds : OwnerRef(d)' <=> OwnerRef(d),
           \A d \in Conds : d # c => refs'[d] = refs[d],
           \/ (Attached(w, c)' <=> Attached(w, c)) /\ refs'[c] = refs[c]
           \/ ~Attached(w, c) /\ Attached(w, c)' /\ refs'[c] = refs[c] + 1
           \/ Attached(w, c) /\ ~Attached(w, c)' /\ refs'[c] = refs[c] - 1
    PROVE  CountedC'
<1> SUFFICES ASSUME NEW d \in Conds PROVE refs'[d] = One(OwnerRef(d)') + Cardinality(Attachments(d)')
    BY DEF CountedC, One
<1>1. refs[d] = One(OwnerRef(d)) + Cardinality(Attachments(d))
      BY DEF Inv, CountedC
<1>2. One(OwnerRef(d)') = One(OwnerRef(d)) /\ One(OwnerRef(d)) \in Nat
      BY DEF One
<1>3. CASE d # c \/ (Attached(w, c)' <=> Attached(w, c))
  <2>1. Attachments(d)' = Attachments(d)
        BY <1>3 DEF Attachments
  <2>2. refs'[d] = refs[d]
        BY <1>3
  <2> QED  BY <1>1, <1>2, <2>1, <2>2
<1>4. CASE d = c /\ ~Attached(w, c) /\ Attached(w, c)'
  <2>1. Attachments(d)' = Attachments(d) \cup {w} /\ w \notin Attachments(d)
        BY <1>4 DEF Attachments
  <2>2. Cardinality(Attachments(d)') = Cardinality(Attachments(d)) + 1
        BY <2>1, AttachmentsFinite, FS_AddElement
  <2>3. refs'[d] = refs[d] + 1
        BY <1>4
  <2> QED  BY <1>1, <1>2, <2>2, <2>3, AttachmentsFinite
<1>5. CASE d = c /\ Attached(w, c) /\ ~Attached(w, c)'
  <2>1. Attachments(d)' = Attachments(d) \ {w} /\ w \in Attachments(d)
        BY <1>5 DEF Attachments
  <2>2. Cardinality(Attachments(d)') = Cardinality(Attachments(d)) - 1
        BY <2>1, AttachmentsFinite, FS_RemoveElement
  <2>3. refs'[d] = refs[d] - 1
        BY <1>5
  <2> QED  BY <1>1, <1>2, <2>2, <2>3, AttachmentsFinite
<1> QED  BY <1>3, <1>4, <1>5

LEMMA CountedWKept ==
    ASSUME Inv, \A w \in WaitSetIds : refs'[w] = refs[w] /\ (OwnerRef(w)' <=> OwnerRef(w)),
           \A w \in WaitSetIds, c \in Conds : Held(Pinning(c, w))' <=> Held(Pinning(c, w))
    PROVE  CountedW'
<1> SUFFICES ASSUME NEW w \in WaitSetIds PROVE refs'[w] = One(OwnerRef(w)') + Cardinality(Pins(w)')
    BY DEF CountedW, One
<1>1. Pins(w)' = Pins(w)
      BY DEF Pins
<1> QED  BY <1>1 DEF Inv, CountedW, One

(* An entry of w comes or goes, and only frames of N are inside w. *)
LEMMA EntryChange ==
    ASSUME Inv, NEW t, NEW P, NEW N, Swapped(t, P, N), NEW w \in WaitSetIds,
           Frames' \cap InsideOf(w) \subseteq N, \A v \in WaitSetIds : v # w => attached'[v] = attached[v],
           \A h \in N : h.op # "wait",
           \A h \in N : h.op = "attach" /\ h.at \in {"acquire", "register"} => [c |-> h.c, x |-> h.x] \in attached'[h.w]
    PROVE  AddingSound' /\ ScanSound'
<1>1. ASSUME NEW h \in Frames' PROVE (h \in Frames \/ h \in N) /\ h \in FrameSet /\ Fit(h)
      BY DEF Swapped, Frames, FrameSet
<1>2. ASSUME NEW h \in Frames', h.op = "attach", h.at \in {"acquire", "register"}
      PROVE  [c |-> h.c, x |-> h.x] \in attached'[h.w]
  <2>1. CASE h \in N
        BY <1>2, <2>1
  <2>2. CASE h \notin N
    <3>1. h.w # w /\ h.w \in WaitSetIds /\ h \in Frames
          BY <1>1, <1>2, <2>2 DEF InsideOf, Fit
    <3> QED  BY <1>2, <3>1 DEF Inv, AddingSound
  <2> QED  BY <2>1, <2>2
<1>3. ASSUME NEW h \in Frames', h.op = "wait", NEW c \in h.todo
      PROVE  Entry(h.w, c)'
  <2>1. h \in Frames /\ h \notin N /\ h.at = "scan" /\ h.w \in WaitSetIds
        BY <1>1, <1>3 DEF Fit
  <2>2. h.w # w
        BY <1>1, <1>3, <2>1 DEF InsideOf
  <2>3. Entry(h.w, c)
        BY <1>3, <2>1 DEF Inv, ScanSound
  <2> QED  BY <2>1, <2>2, <2>3 DEF Entry
<1> QED  BY <1>2, <1>3 DEF AddingSound, ScanSound

(* A step that concerns the attachment of c to w and no other. *)
Elsewhere(P, N, w, c) ==
    /\ \A v \in WaitSetIds, d \in Conds : v # w \/ d # c => LevelAt(P, N, v, d)
    /\ \A v \in WaitSetIds : LevelW(P, N, v)
    /\ \A d \in Conds : LevelC(P, N, d)
    /\ Even(P, N, Pinning(c, w))
ListsElsewhere(w, c) ==
    \A v \in WaitSetIds, d \in Conds : v # w \/ d # c =>
       /\ \A e : e.c = d => (e \in attached'[v] <=> e \in attached[v])
       /\ v \in wakeups'[d] <=> v \in wakeups[d]
ReleaseAt(w, c) == Once(Releasing(w, c)) /\ (Held(Releasing(w, c)) => ~Entry(w, c))
ListedFromAt(w, c) ==
    w \in wakeups[c] => \/ Entry(w, c) /\ ~Held(Adding(w, c, "acquire")) /\ ~Held(Adding(w, c, "register"))
                        \/ Held(Removing(w, c))
ListedToAt(w, c) ==
    Entry(w, c) => \/ w \in wakeups[c] \/ Held(Adding(w, c, "acquire")) \/ Held(Adding(w, c, "register"))
                   \/ Held(FreeW(w)) \/ Held(Telling(w, c))
CountAt(w, c) ==
    /\ \A o \in Objects : o # c => refs'[o] = refs[o]
    /\ \/ (Attached(w, c)' <=> Attached(w, c)) /\ refs'[c] = refs[c]
       \/ ~Attached(w, c) /\ Attached(w, c)' /\ refs'[c] = refs[c] + 1
       \/ Attached(w, c) /\ ~Attached(w, c)' /\ refs'[c] = refs[c] - 1
FreedAt(w, c) ==
    /\ \A o \in Objects : o # c => (o \in freed' <=> o \in freed)
    /\ c \in freed' <=> refs'[c] = 0
    /\ attached'[w] # {} => attached[w] # {} \/ (w \in made /\ w \notin freed)

LEMMA AttachmentStep ==
    ASSUME Inv, NEW t, NEW P, NEW N, Swapped(t, P, N), NEW w \in WaitSetIds, NEW c \in Conds, UNCHANGED <<made, closed>>,
           Typed', c \in made, Elsewhere(P, N, w, c), ListsElsewhere(w, c),
           ReleaseAt(w, c)', ListedFromAt(w, c)', ListedToAt(w, c)', CountAt(w, c), FreedAt(w, c),
           c \in closed /\ w \in wakeups'[c] => w \in wakeups[c],
           \A e, d \in attached'[w] : e.c = c /\ d.c = c => e = d
    PROVE  /\ ReleaseSound' /\ EntriesApart' /\ FreeSound' /\ CountedC' /\ CountedW' /\ ListedFrom' /\ ListedTo'
<1>0. \A v \in WaitSetIds : \A e \in attached[v] : e.c \in Conds
      BY DEF Inv, Typed
<1>22. /\ \A v \in WaitSetIds, d \in Conds : v # w \/ d # c =>
              /\ LevelAt(P, N, v, d)
              /\ \A e : e.c = d => (e \in attached'[v] <=> e \in attached[v])
              /\ v \in wakeups'[d] <=> v \in wakeups[d]
       /\ (\A v \in WaitSetIds : LevelW(P, N, v)) /\ (\A d \in Conds : LevelC(P, N, d)) /\ Even(P, N, Pinning(c, w))
       BY DEF Elsewhere, ListsElsewhere
<1>23. /\ Once(Releasing(w, c))' /\ (Held(Releasing(w, c))' => ~Entry(w, c)')
       /\ w \in wakeups'[c] =>
              \/ Entry(w, c)' /\ ~Held(Adding(w, c, "acquire"))' /\ ~Held(Adding(w, c, "register"))'
              \/ Held(Removing(w, c))'
       /\ Entry(w, c)' =>
              \/ w \in wakeups'[c] \/ Held(Adding(w, c, "acquire"))' \/ Held(Adding(w, c, "register"))'
              \/ Held(FreeW(w))' \/ Held(Telling(w, c))'
       BY DEF ReleaseAt, ListedFromAt, ListedToAt
<1>24. /\ \A o \in Objects : o # c => refs'[o] = refs[o]
       /\ \/ (Attached(w, c)' <=> Attached(w, c)) /\ refs'[c] = refs[c]
          \/ ~Attached(w, c) /\ Attached(w, c)' /\ refs'[c] = refs[c] + 1
          \/ Attached(w, c) /\ ~Attached(w, c)' /\ refs'[c] = refs[c] - 1
       /\ (\A o \in Objects : o # c => (o \in freed' <=> o \in freed)) /\ (c \in freed' <=> refs'[c] = 0)
       /\ attached'[w] # {} => attached[w] # {} \/ (w \in made /\ w \notin freed)
       BY DEF CountAt, FreedAt
<1>20. \A v \in WaitSetIds : \A e \in attached'[v] : e.c \in Conds
      BY DEF Typed
<1>21. \A d \in Conds : wakeups'[d] \subseteq WaitSetIds
      BY DEF Typed
<1>1. ASSUME NEW v \in WaitSetIds, NEW d \in Conds, v # w \/ d # c
      PROVE  /\ Held(Releasing(v, d))' <=> Held(Releasing(v, d))
             /\ Once(Releasing(v, d)) => Once(Releasing(v, d))'
             /\ Held(Pinning(d, v))' <=> Held(Pinning(d, v))
             /\ Held(Telling(v, d))' <=> Held(Telling(v, d))
             /\ Held(Removing(v, d))' <=> Held(Removing(v, d))
             /\ Held(Adding(v, d, "acquire"))' <=> Held(Adding(v, d, "acquire"))
             /\ Held(Adding(v, d, "register"))' <=> Held(Adding(v, d, "register"))
             /\ Entry(v, d)' <=> Entry(v, d)
  <2>1. LevelAt(P, N, v, d)
        BY <1>1, <1>22
  <2>2. Entry(v, d)' <=> Entry(v, d)
        BY <1>1, <1>22 DEF Entry
  <2> QED  BY <2>1, <2>2, EvenHeld, EvenOnce DEF LevelAt
<1>2. ASSUME NEW v \in WaitSetIds
      PROVE  /\ Held(FreeW(v))' <=> Held(FreeW(v))
             /\ Once(FreeW(v)) => Once(FreeW(v))'
             /\ v \in closed => (Held(DestroyW(v))' <=> Held(DestroyW(v)))
  <2>1. LevelW(P, N, v)
        BY <1>22
  <2> QED  BY <2>1, EvenHeld, EvenOnce DEF LevelW
<1>3. ASSUME NEW d \in Conds
      PROVE  /\ Held(Draining(d))' <=> Held(Draining(d))
             /\ d \in closed => (Held(DestroyG(d))' <=> Held(DestroyG(d)))
  <2>1. LevelC(P, N, d)
        BY <1>22
  <2> QED  BY <2>1, EvenHeld DEF LevelC
<1>4. ReleaseSound'
  <2> SUFFICES ASSUME NEW v \in WaitSetIds, NEW d \in Conds
               PROVE  Once(Releasing(v, d))' /\ (Held(Releasing(v, d))' => ~Entry(v, d)')
      BY DEF ReleaseSound
  <2>1. CASE v # w \/ d # c
        BY <1>1, <2>1 DEF Inv, ReleaseSound
  <2> QED  BY <1>23, <2>1
<1>5. EntriesApart'
  <2> SUFFICES ASSUME NEW v \in WaitSetIds, NEW e \in attached'[v], NEW d \in attached'[v], e.c = d.c PROVE e = d
      BY DEF EntriesApart
  <2>1. CASE v # w \/ e.c # c
        BY <1>20, <1>22, <2>1 DEF Inv, EntriesApart
  <2> QED  BY <2>1
<1>6. ListedFrom'
  <2> SUFFICES ASSUME NEW d \in Conds, NEW v \in wakeups'[d]
               PROVE  /\ \/ Entry(v, d)' /\ ~Held(Adding(v, d, "acquire"))' /\ ~Held(Adding(v, d, "register"))'
                         \/ Held(Removing(v, d))'
                      /\ d \in closed' => Held(Draining(d))'
      BY ListsMeanNext
  <2>0. v \in WaitSetIds /\ closed' = closed
        BY <1>21
  <2>1. CASE v # w \/ d # c
    <3>1. v \in wakeups[d]
          BY <1>22, <2>0, <2>1
    <3> QED  BY <1>1, <1>3, <2>0, <2>1, <3>1, ListsMean DEF Inv
  <2>2. CASE v = w /\ d = c
        BY <1>3, <1>23, <2>0, <2>2, ListsMean DEF Inv
  <2> QED  BY <2>1, <2>2
<1>7. ListedTo'
  <2> SUFFICES ASSUME NEW v \in WaitSetIds, NEW e \in attached'[v]
               PROVE  \/ v \in wakeups'[e.c] \/ Held(Adding(v, e.c, "acquire"))' \/ Held(Adding(v, e.c, "register"))'
                      \/ Held(FreeW(v))' \/ Held(Telling(v, e.c))'
      BY ListsMeanNext
  <2>0. e.c \in Conds
        BY <1>20
  <2>1. CASE v # w \/ e.c # c
    <3>1. e \in attached[v]
          BY <1>22, <2>0, <2>1
    <3>2. \/ v \in wakeups[e.c] \/ Held(Adding(v, e.c, "acquire")) \/ Held(Adding(v, e.c, "register"))
          \/ Held(FreeW(v)) \/ Held(Telling(v, e.c))
          BY <3>1, ListsMean DEF Inv
    <3> QED  BY <1>1, <1>2, <1>22, <2>0, <2>1, <3>2
  <2>2. CASE v = w /\ e.c = c
        BY <1>23, <2>2 DEF Entry
  <2> QED  BY <2>1, <2>2
<1>8. \A d \in Conds : OwnerRef(d)' <=> OwnerRef(d)
      BY <1>3, OwnerOf
<1>9. \A v \in WaitSetIds : OwnerRef(v)' <=> OwnerRef(v)
      BY <1>2, OwnerOf
<1>10. CountedC'
  <2>1. \A v \in WaitSetIds, d \in Conds : v # w \/ d # c => (Attached(v, d)' <=> Attached(v, d))
        BY <1>1 DEF Attached
  <2>2. \A d \in Conds : d # c => refs'[d] = refs[d]
        BY <1>24 DEF Objects
  <2> QED  BY <1>8, <1>24, <2>1, <2>2, CountedStep
<1>11. w # c /\ \A v \in WaitSetIds : v # c /\ v \in Objects
      BY WaitSetsAssumption DEF WaitSetsAssumption, Objects
<1>12. CountedW'
  <2>1. \A v \in WaitSetIds, d \in Conds : Held(Pinning(d, v))' <=> Held(Pinning(d, v))
    <3> SUFFICES ASSUME NEW v \in WaitSetIds, NEW d \in Conds PROVE Held(Pinning(d, v))' <=> Held(Pinning(d, v))
        OBVIOUS
    <3>1. CASE v # w \/ d # c
          BY <1>1, <3>1
    <3>2. CASE v = w /\ d = c
          BY <1>22, <3>2, EvenHeld
    <3> QED  BY <3>1, <3>2
  <2> QED  BY <1>9, <1>11, <1>24, <2>1, CountedWKept
<1>13. FreeSound'
  <2>1. \A o \in Objects : o \notin made' => refs'[o] = 0
        BY <1>24 DEF Inv, FreeSound
  <2>2. \A d \in Conds : d \in freed' <=> d \in made' /\ refs'[d] = 0
        BY <1>24 DEF Inv, FreeSound, Objects
  <2>3. ASSUME NEW v \in WaitSetIds
        PROVE /\ Once(FreeW(v))'
              /\ Held(FreeW(v))' => v \in made' /\ refs'[v] = 0 /\ v \notin freed'
              /\ v \in freed' => v \in made' /\ refs'[v] = 0
              /\ v \in made' /\ refs'[v] = 0 => v \in freed' \/ Held(FreeW(v))'
              /\ v \in freed' \/ v \notin made' => attached'[v] = {}
    <3>1. refs'[v] = refs[v] /\ (v \in freed' <=> v \in freed)
          BY <1>11, <1>24
    <3>2. attached'[v] # {} => attached[v] # {} \/ (v \in made /\ v \notin freed)
      <4>1. CASE v # w
        <5>1. \A e \in attached'[v] : e \in attached[v]
              BY <1>20, <1>22, <4>1
        <5> QED  BY <5>1
      <4> QED  BY <1>24, <4>1
    <3> QED  BY <1>2, <3>1, <3>2 DEF Inv, FreeSound
  <2> QED  BY <2>1, <2>2, <2>3 DEF FreeSound
<1> QED  BY <1>4, <1>5, <1>6, <1>7, <1>10, <1>12, <1>13

(* The frames of a step about w and c mean nothing elsewhere. *)
LEMMA LevelElsewhere ==
    ASSUME NEW P, NEW N, NEW w \in WaitSetIds, NEW c \in Conds,
           \A h \in P \cup N : /\ h \in FrameSet /\ h.op \in {"attach", "detach", "freeWaitSet"} /\ h.w = w
                               /\ h.c = c \/ h.c = None,
           (\E h \in P : h.op = "freeWaitSet") <=> (\E h \in N : h.op = "freeWaitSet"), \A g, h \in N : g = h
    PROVE  Elsewhere(P, N, w, c) /\ Even(P, N, Telling(w, c)) /\ Single(N, Releasing(w, c))
<1>1. \A v, d : \A h \in P \cup N : h \notin Pinning(d, v) /\ h \notin Telling(v, d)
      BY DEF Pinning, Telling
<1>2. \A d : \A h \in P \cup N : h \notin Draining(d) /\ h \notin DestroyG(d) /\ h \notin DestroyW(d)
      BY DEF Draining, DestroyG, DestroyW
<1>3. ASSUME NEW v \in WaitSetIds, NEW d \in Conds, v # w \/ d # c PROVE LevelAt(P, N, v, d)
  <2>1. d # None
        BY WaitSetsAssumption DEF WaitSetsAssumption
  <2>2. \A h \in P \cup N : /\ h \notin Releasing(v, d) /\ h \notin Removing(v, d)
                            /\ h \notin Adding(v, d, "acquire") /\ h \notin Adding(v, d, "register")
        BY <1>3, <2>1 DEF Releasing, Removing, Adding
  <2> QED  BY <1>1, <2>2 DEF LevelAt, Even, Single
<1>4. ASSUME NEW v \in WaitSetIds PROVE LevelW(P, N, v)
  <2>1. \A h \in P \cup N : h \in FreeW(v) <=> v = w /\ h.op = "freeWaitSet"
        BY DEF FreeW
  <2> QED  BY <1>2, <2>1 DEF LevelW, Even, Single
<1>5. \A d \in Conds : LevelC(P, N, d)
      BY <1>2 DEF LevelC, Even
<1>6. Even(P, N, Pinning(c, w)) /\ Even(P, N, Telling(w, c)) /\ Single(N, Releasing(w, c))
      BY <1>1 DEF Even, Single
<1> QED  BY <1>3, <1>4, <1>5, <1>6 DEF Elsewhere

(* Nobody else is inside. *)
LEMMA InsideAlone ==
    ASSUME Inv, NEW t, NEW f, NEW N, Swapped(t, {f}, N), NEW w \in WaitSetIds, f \in InsideOf(w) \/ mu[w] = None
    PROVE  Frames' \cap InsideOf(w) \subseteq N
<1>1. Once(InsideOf(w)) /\ (Held(InsideOf(w)) => mu[w] # None)
      BY DEF Inv, Mutex
<1>2. CASE f \in InsideOf(w)
  <2>1. {f} \cap InsideOf(w) # {}
        BY <1>2
  <2> QED  BY <1>1, <2>1 DEF Swapped
<1>3. CASE mu[w] = None
      BY <1>1, <1>3 DEF Swapped, Held
<1> QED  BY <1>2, <1>3

(* An object with a reference is there. *)
LEMMA RefHeld ==
    ASSUME Inv, NEW c \in Conds, OwnerRef(c) \/ \E w \in WaitSetIds : Attached(w, c)
    PROVE  refs[c] \in Nat /\ refs[c] >= 1 /\ c \in made /\ c \notin freed
<1>1. refs[c] = One(OwnerRef(c)) + Cardinality(Attachments(c)) /\ c \in Objects
      BY DEF Inv, CountedC, Objects
<1>2. One(OwnerRef(c)) \in Nat /\ Cardinality(Attachments(c)) \in Nat
      BY AttachmentsFinite DEF One
<1>3. refs[c] >= 1
  <2>1. CASE OwnerRef(c)
        BY <1>1, <1>2, <2>1 DEF One
  <2>2. CASE \E w \in WaitSetIds : Attached(w, c)
    <3>1. Attachments(c) # {}
          BY <2>2 DEF Attachments
    <3>2. Cardinality(Attachments(c)) # 0
          BY <3>1, AttachmentsFinite, FS_EmptySet
    <3> QED  BY <1>1, <1>2, <3>2
  <2> QED  BY <2>1, <2>2
<1>4. refs[c] \in Nat
      BY <1>1, <1>2
<1> QED  BY <1>1, <1>3, <1>4 DEF Inv, FreeSound

LEMMA GuardReleasedMeans ==
    ASSUME Inv, NEW c \in Conds, refs[c] >= 1, c \in made, c \notin freed, GuardReleased(c)
    PROVE  /\ refs' \in [Objects -> Nat] /\ refs'[c] = refs[c] - 1 /\ \A o \in Objects : o # c => refs'[o] = refs[o]
           /\ c \in freed' <=> refs'[c] = 0
           /\ \A o \in Objects : o # c => (o \in freed' <=> o \in freed)
           /\ freed' \subseteq Objects
<1>1. c \in Objects /\ refs \in [Objects -> Nat] /\ freed \subseteq Objects
      BY DEF Inv, Typed, Objects
<1>2. refs' = [refs EXCEPT ![c] = refs[c] - 1] /\ freed' = IF refs[c] = 1 THEN freed \cup {c} ELSE freed
      BY DEF GuardReleased
<1> QED  BY <1>1, <1>2

LEMMA OwedStays ==
    ASSUME Inv, UNCHANGED <<wakeups, owed>>
    PROVE  \A p \in owed' : p[1] \in wakeups'[p[2]]
BY DEF Inv, OwedSound

LEMMA AttachAcquireInv ==
    ASSUME Inv, NEW t \in Threads, AttachAcquire(t)
    PROVE  Inv'
<1> PICK f, w, c, x : f = Top(t) /\ w = Top(t).w /\ c = Top(t).c /\ x = Top(t).x
    OBVIOUS
<1>1. /\ stack[t] # <<>> /\ f \in FrameSet /\ f \in Frames /\ f.op = "attach" /\ f.at = "acquire" /\ Fit(f) /\ f \in RawFrames
      /\ f.w = w /\ f.c = c /\ f.x = x /\ w \in WaitSetIds /\ c \in Conds /\ x \in Ctxs \cup {None} /\ f.todo = {}
  <2>1. At(t, "attach", "acquire")
        BY DEF AttachAcquire
  <2>2. /\ stack[t] # <<>> /\ f \in FrameSet /\ f \in Frames /\ f.op = "attach" /\ f.at = "acquire" /\ Fit(f) /\ f \in RawFrames
        /\ x \in Ctxs \cup {None}
        BY <2>1, AtTop DEF Inv, Typed
  <2> QED  BY <2>2 DEF Fit
<1>2. UseOf(f) /\ c \in made /\ c \notin closed
      BY <1>1 DEF Inv, UseSound, UseOf, Destroying
<1>3. /\ refs' = [refs EXCEPT ![c] = @ + 1] /\ stack' = Goto(t, "register")
      /\ UNCHANGED <<binding, hooked, made, mine, attached, mu, notified, wakeups, trigger, closed, retired, freed, ctx, owed>>
      BY <1>2 DEF AttachAcquire
<1>4. PICK g \in FrameSet : Like(g, f, "register") /\ Swapped(t, {f}, {g})
  <2>1. "register" \in Ats /\ \A h \in RawFrames : Like(h, f, "register") => Fit(h)
        BY <1>1 DEF Like, Fit, Ats
  <2> QED  BY <1>1, <1>3, <2>1, GotoGoes DEF Inv, Typed
<1>5. g.op = "attach" /\ g.at = "register" /\ g.w = w /\ g.c = c /\ g.x = x /\ g \in Frames'
      BY <1>1, <1>4 DEF Like, Swapped
<1>6. f \in InsideOf(w) /\ g \in InsideOf(w) /\ Frames' \cap InsideOf(w) \subseteq {g}
  <2>1. f \in InsideOf(w) /\ g \in InsideOf(w)
        BY <1>1, <1>5 DEF InsideOf
  <2> QED  BY <1>1, <1>4, <2>1, InsideAlone
<1>7. [c |-> c, x |-> x] \in attached[w]
      BY <1>1 DEF Inv, AddingSound
<1>8. Typed'
  <2>1. refs' \in [Objects -> Nat]
        BY <1>1, <1>3 DEF Inv, Typed, Objects
  <2> QED  BY <1>3, <1>4, <2>1 DEF Inv, Typed, Swapped
<1>9. Mutex'
      BY <1>1, <1>3, <1>4, <1>6, MutexStay DEF Inv
<1>10. AddingSound' /\ ScanSound'
      BY <1>1, <1>3, <1>4, <1>5, <1>6, <1>7, EntryChange
<1>11. OwnSound'
  <2>1. \A y \in Ctxs : {f} \cap Owning(y) = {} /\ {g} \cap Owning(y) = {}
        BY <1>1, <1>5 DEF Owning
  <2> QED  BY <1>3, <1>4, <2>1, OwnKept DEF Even, Single
<1>12. HookSound'
  <2>1. binding = "cpp" => x # None
        BY <1>1 DEF Inv, HookSound
  <2> QED  BY <1>3, <1>4, <1>5, <2>1, HookKept
<1>13. UseSound' /\ TearSound' /\ OneWaiter' /\ OwedSound'
  <2>1. Heir(f, g)
        BY <1>1, <1>5 DEF Heir
  <2>2. owed' \subseteq owed /\ \A p \in owed' : p[1] \in wakeups'[p[2]]
        BY <1>3, OwedStays
  <2> QED  BY <1>1, <1>3, <1>4, <1>5, <2>1, <2>2, CalmSteps
<1>14. /\ ReleaseSound' /\ EntriesApart' /\ FreeSound' /\ CountedC' /\ CountedW' /\ ListedFrom' /\ ListedTo'
  <2>1. Elsewhere({f}, {g}, w, c)
    <3>1. \A h \in {f} \cup {g} : /\ h \in FrameSet /\ h.op \in {"attach", "detach", "freeWaitSet"} /\ h.w = w
                                  /\ h.c = c \/ h.c = None
          BY <1>1, <1>5
    <3> QED  BY <1>1, <1>5, <3>1, LevelElsewhere
  <2>2. ListsElsewhere(w, c) /\ Entry(w, c) /\ Entry(w, c)'
        BY <1>3, <1>7 DEF Entry, ListsElsewhere
  <2>3. Once(Releasing(w, c))' /\ ~Held(Releasing(w, c))' /\ ~Held(Releasing(w, c))
    <3>1. f \notin Releasing(w, c) /\ g \notin Releasing(w, c)
          BY <1>1, <1>5 DEF Releasing
    <3>2. Even({f}, {g}, Releasing(w, c)) /\ Single({g}, Releasing(w, c))
          BY <3>1 DEF Even, Single
    <3> QED  BY <1>1, <1>4, <2>2, <3>2, EvenHeld, EvenOnce DEF Inv, ReleaseSound
  <2>4. f \in Adding(w, c, "acquire") /\ g \in Adding(w, c, "register")
        BY <1>1, <1>5 DEF Adding
  <2>5. ~Attached(w, c) /\ Attached(w, c)'
    <3>1. ~Held(Adding(w, c, "acquire"))'
      <4> SUFFICES ASSUME NEW h \in Frames', h \in Adding(w, c, "acquire") PROVE FALSE
          BY DEF Held
      <4>1. h \in InsideOf(w)
            BY DEF Adding, InsideOf
      <4> QED  BY <1>5, <1>6, <4>1 DEF Adding
    <3> QED  BY <1>1, <2>2, <2>3, <2>4, <3>1 DEF Attached, Held
  <2>6. w \notin wakeups'[c]
    <3>1. w \notin wakeups[c]
      <4>1. ~Held(Removing(w, c))
            BY <2>3 DEF Held, Removing, Releasing
      <4> QED  BY <1>1, <2>4, <4>1, ListsMean DEF Inv, Held
    <3> QED  BY <1>3, <3>1
  <2>7. ReleaseAt(w, c)' /\ ListedFromAt(w, c)' /\ ListedToAt(w, c)'
        BY <1>5, <2>3, <2>4, <2>6 DEF Held, ReleaseAt, ListedFromAt, ListedToAt
  <2>8. CountAt(w, c) /\ FreedAt(w, c)
    <3>1. OwnerRef(c)
          BY <1>2 DEF OwnerRef
    <3>2. refs[c] \in Nat /\ refs[c] >= 1 /\ c \notin freed
          BY <1>1, <3>1, RefHeld
    <3>3. refs'[c] = refs[c] + 1 /\ \A o \in Objects : o # c => refs'[o] = refs[o]
          BY <1>1, <1>3 DEF Inv, Typed, Objects
    <3> QED  BY <1>3, <2>5, <3>2, <3>3 DEF CountAt, FreedAt
  <2>9. \A e, d \in attached'[w] : e.c = c /\ d.c = c => e = d
        BY <1>1, <1>3 DEF Inv, EntriesApart
  <2> QED  BY <1>1, <1>2, <1>3, <1>4, <1>8, <2>1, <2>2, <2>6, <2>7, <2>8, <2>9, AttachmentStep
<1> QED  BY <1>8, <1>9, <1>10, <1>11, <1>12, <1>13, <1>14 DEF Inv

LEMMA OnceSame ==
    ASSUME NEW S, Once(S), NEW f \in Frames, NEW h \in Frames, f \in S, h \in S
    PROVE  f = h
<1>1. PICK u \in Threads : \E i \in 1..Len(stack[u]) : stack[u][i] = f
      BY DEF Frames
<1>2. PICK i \in 1..Len(stack[u]) : stack[u][i] = f
      BY <1>1
<1>3. PICK v \in Threads : \E j \in 1..Len(stack[v]) : stack[v][j] = h
      BY DEF Frames
<1>4. PICK j \in 1..Len(stack[v]) : stack[v][j] = h
      BY <1>3
<1>5. u = v /\ i = j
      BY <1>2, <1>4 DEF Once
<1> QED  BY <1>2, <1>4, <1>5

(* One frame goes on for another. *)
LEMMA CalmStep ==
    ASSUME Inv, NEW t \in Threads, NEW f \in FrameSet, NEW g \in FrameSet, Swapped(t, {f}, {g}), Heir(f, g),
           UNCHANGED <<binding, made, mine, closed, ctx, notified>>, owed' \subseteq owed,
           \A p \in owed' : p[1] \in wakeups'[p[2]]
    PROVE  UseSound' /\ TearSound' /\ OneWaiter' /\ OwedSound'
<1> PICK N : N = {g}
    OBVIOUS
<1>1. /\ Swapped(t, {f}, N) /\ \A k \in N : k \in FrameSet /\ (Heir(f, k) \/ k.op = "freeWaitSet")
      /\ \E k \in N : Heir(f, k)
      /\ \A k, h \in N : k.op = "destroyGuard" /\ h.op = "destroyGuard" => k = h
      OBVIOUS
<1>2. f.op \in {"attach", "detach", "freeWaitSet", "destroyGuard"} /\ f.at \notin {"close", "alloc"}
      BY DEF Heir
<1> QED  BY <1>1, <1>2, CalmSteps

LEMMA OwnPassed ==
    ASSUME Inv, NEW t, NEW f, NEW g, Swapped(t, {f}, {g}), UNCHANGED <<attached, ctx>>, f.c = g.c,
           \A y \in Ctxs : f \in Owning(y) <=> g \in Owning(y)
    PROVE  OwnSound'
<1> PICK N : N = {g}
    OBVIOUS
<1>1. \A y \in Ctxs : /\ Even({f}, N, Owning(y)) /\ Single(N, Owning(y))
                      /\ \A k \in N \cap Owning(y) : \E h \in {f} \cap Owning(y) : h.c = k.c
      BY DEF Even, Single
<1>2. Swapped(t, {f}, N)
      OBVIOUS
<1> QED  BY <1>1, <1>2, OwnKept

LEMMA LikeElsewhere ==
    ASSUME NEW f \in FrameSet, NEW g \in FrameSet, Like(g, f, "fire"), f.at = "release", NEW w \in WaitSetIds, NEW c \in Conds,
           f.w = w, f.c = c
    PROVE  Elsewhere({f}, {g}, w, c)
<1>1. g.op = f.op /\ g.at = "fire" /\ g.w = w /\ g.c = c /\ g.x = f.x /\ g.todo = f.todo
      BY DEF Like
<1>2. ASSUME NEW v, NEW d
      PROVE  /\ f \in Pinning(d, v) <=> g \in Pinning(d, v)
             /\ f \in Telling(v, d) <=> g \in Telling(v, d)
             /\ f \notin Removing(v, d) /\ g \notin Removing(v, d)
             /\ f \notin Adding(v, d, "acquire") /\ g \notin Adding(v, d, "acquire")
             /\ f \notin Adding(v, d, "register") /\ g \notin Adding(v, d, "register")
             /\ v # w \/ d # c => f \notin Releasing(v, d) /\ g \notin Releasing(v, d)
      BY <1>1 DEF Pinning, Telling, Removing, Adding, Releasing
<1>3. ASSUME NEW d
      PROVE  /\ f \in FreeW(d) <=> g \in FreeW(d)
             /\ f \in DestroyW(d) <=> g \in DestroyW(d)
             /\ f \in DestroyG(d) <=> g \in DestroyG(d)
             /\ f \notin Draining(d) /\ g \notin Draining(d)
      BY <1>1 DEF FreeW, DestroyW, DestroyG, Draining
<1>4. \A S : (f \in S <=> g \in S) => Even({f}, {g}, S)
      BY DEF Even
<1>5. \A S : Single({g}, S)
      BY DEF Single
<1>6. \A v \in WaitSetIds, d \in Conds : v # w \/ d # c => LevelAt({f}, {g}, v, d)
      BY <1>2, <1>4, <1>5 DEF LevelAt
<1>7. \A v \in WaitSetIds : LevelW({f}, {g}, v)
      BY <1>3, <1>4, <1>5 DEF LevelW
<1>8. \A d \in Conds : LevelC({f}, {g}, d)
      BY <1>3, <1>4 DEF LevelC
<1>9. Even({f}, {g}, Pinning(c, w))
      BY <1>2, <1>4
<1> QED  BY <1>6, <1>7, <1>8, <1>9 DEF Elsewhere

(* The reference of an attachment whose entry is gone is given back. *)
LEMMA ReleaseStep ==
    ASSUME Inv, NEW t \in Threads, NEW f \in FrameSet, NEW g \in FrameSet, Like(g, f, "fire"), Swapped(t, {f}, {g}),
           f.at = "release", f.op \in {"detach", "freeWaitSet", "destroyGuard"},
           NEW w \in WaitSetIds, NEW c \in Conds, f.w = w, f.c = c, GuardReleased(c), Mutex',
           mu' \in [WaitSetIds -> Threads \cup {None}],
           UNCHANGED <<binding, hooked, made, mine, attached, notified, wakeups, trigger, closed, retired, ctx, owed>>
    PROVE  Inv'
<1>1. g.op = f.op /\ g.at = "fire" /\ g.w = w /\ g.c = c /\ g.x = f.x /\ f \in Frames
      BY DEF Like, Swapped
<1>2. f \in Releasing(w, c) /\ g \notin Releasing(w, c)
      BY <1>1 DEF Releasing
<1>3. Attached(w, c) /\ ~Entry(w, c)
      BY <1>1, <1>2 DEF Attached, Held, Inv, ReleaseSound
<1>4. refs[c] \in Nat /\ refs[c] >= 1 /\ c \in made /\ c \notin freed
      BY <1>3, RefHeld
<1>5. /\ refs' \in [Objects -> Nat] /\ refs'[c] = refs[c] - 1 /\ \A o \in Objects : o # c => refs'[o] = refs[o]
      /\ c \in freed' <=> refs'[c] = 0
      /\ \A o \in Objects : o # c => (o \in freed' <=> o \in freed)
      /\ freed' \subseteq Objects
      BY <1>4, GuardReleasedMeans
<1>6. Typed'
      BY <1>5 DEF Inv, Typed, Swapped
<1>7. ScanSound'
      BY <1>1, ScanKept
<1>8. AddingSound'
      BY <1>1 DEF Swapped, Inv, AddingSound
<1>9. OwnSound'
  <2>1. \A y \in Ctxs : f \in Owning(y) <=> g \in Owning(y)
        BY <1>1 DEF Owning
  <2> QED  BY <1>1, <2>1, OwnPassed
<1>10. HookSound'
      BY <1>1, HookKept
<1>11. UseSound' /\ TearSound' /\ OneWaiter' /\ OwedSound'
  <2>1. Heir(f, g)
        BY <1>1 DEF Heir
  <2>2. owed' \subseteq owed /\ \A p \in owed' : p[1] \in wakeups'[p[2]]
        BY OwedStays
  <2> QED  BY <2>1, <2>2, CalmStep
<1>12. /\ ReleaseSound' /\ EntriesApart' /\ FreeSound' /\ CountedC' /\ CountedW' /\ ListedFrom' /\ ListedTo'
  <2>1. Elsewhere({f}, {g}, w, c)
        BY LikeElsewhere
  <2>2. ListsElsewhere(w, c) /\ ~Entry(w, c)'
        BY <1>3 DEF Entry, ListsElsewhere
  <2>3. Once(Releasing(w, c))' /\ ~Held(Releasing(w, c))'
    <3>1. {f} \cap Releasing(w, c) # {} /\ {g} \cap Releasing(w, c) = {}
          BY <1>2
    <3> QED  BY <3>1, GoneHeld DEF Inv, ReleaseSound
  <2>5. ~Attached(w, c)'
        BY <2>2, <2>3 DEF Attached
  <2>6. w \notin wakeups'[c]
    <3>1. w \notin wakeups[c]
      <4>1. ~Held(Removing(w, c))
        <5> SUFFICES ASSUME NEW h \in Frames, h \in Removing(w, c) PROVE FALSE
            BY DEF Held
        <5>1. h \in Releasing(w, c) /\ h.at = "unregister"
              BY DEF Removing, Releasing
        <5>2. h = f
              BY <1>1, <1>2, <5>1, OnceSame DEF Inv, ReleaseSound
        <5> QED  BY <5>1, <5>2
      <4> QED  BY <1>3, <4>1, ListsMean DEF Inv
    <3> QED  BY <3>1
  <2>7. ReleaseAt(w, c)' /\ ListedFromAt(w, c)' /\ ListedToAt(w, c)'
        BY <2>2, <2>3, <2>6 DEF ReleaseAt, ListedFromAt, ListedToAt
  <2>8. CountAt(w, c) /\ FreedAt(w, c)
        BY <1>3, <1>5, <2>5 DEF CountAt, FreedAt
  <2>9. \A e, d \in attached'[w] : e.c = c /\ d.c = c => e = d
        BY DEF Inv, EntriesApart
  <2> QED  BY <1>4, <1>6, <2>1, <2>2, <2>6, <2>7, <2>8, <2>9, AttachmentStep
<1> QED  BY <1>6, <1>7, <1>8, <1>9, <1>10, <1>11, <1>12 DEF Inv

LEMMA DetachReleaseInv ==
    ASSUME Inv, NEW t \in Threads, DetachRelease(t)
    PROVE  Inv'
<1> PICK f, w, c, x : f = Top(t) /\ w = Top(t).w /\ c = Top(t).c /\ x = Top(t).x
    OBVIOUS
<1>1. /\ stack[t] # <<>> /\ f \in FrameSet /\ f \in Frames /\ f.op = "detach" /\ f.at = "release" /\ Fit(f) /\ f \in RawFrames
      /\ f.w = w /\ f.c = c /\ f.x = x /\ w \in WaitSetIds /\ c \in Conds /\ x \in Ctxs \cup {None} /\ f.todo = {}
  <2>1. At(t, "detach", "release")
        BY DEF DetachRelease
  <2>2. /\ stack[t] # <<>> /\ f \in FrameSet /\ f \in Frames /\ f.op = "detach" /\ f.at = "release" /\ Fit(f) /\ f \in RawFrames
        /\ x \in Ctxs \cup {None}
        BY <2>1, AtTop DEF Inv, Typed
  <2> QED  BY <2>2 DEF Fit
<1>2. /\ GuardReleased(c) /\ mu' = [mu EXCEPT ![w] = None] /\ stack' = Goto(t, "fire")
      /\ UNCHANGED <<binding, hooked, made, mine, attached, notified, wakeups, trigger, closed, retired, ctx, owed>>
      BY DEF DetachRelease
<1>3. PICK g \in FrameSet : Like(g, f, "fire") /\ Swapped(t, {f}, {g})
  <2>1. "fire" \in Ats /\ \A h \in RawFrames : Like(h, f, "fire") => Fit(h)
        BY <1>1 DEF Like, Fit, Ats
  <2> QED  BY <1>1, <1>2, <2>1, GotoGoes DEF Inv, Typed
<1>4. Mutex'
  <2>1. f \in InsideOf(w) /\ \A v \in WaitSetIds : {g} \cap InsideOf(v) = {}
        BY <1>1, <1>3 DEF InsideOf, Like
  <2> QED  BY <1>1, <1>2, <1>3, <2>1, MutexLeave DEF Inv
<1>5. mu' \in [WaitSetIds -> Threads \cup {None}]
      BY <1>2 DEF Inv, Typed
<1> QED  BY <1>1, <1>2, <1>3, <1>4, <1>5, ReleaseStep

LEMMA FreeReleaseInv ==
    ASSUME Inv, NEW t \in Threads, FreeRelease(t)
    PROVE  Inv'
<1> PICK f, w, c, x : f = Top(t) /\ w = Top(t).w /\ c = Top(t).c /\ x = Top(t).x
    OBVIOUS
<1>1. /\ stack[t] # <<>> /\ f \in FrameSet /\ f \in Frames /\ f.op = "freeWaitSet" /\ f.at = "release" /\ Fit(f) /\ f \in RawFrames
      /\ f.w = w /\ f.c = c /\ f.x = x /\ w \in WaitSetIds /\ c \in Conds /\ x \in Ctxs \cup {None} /\ f.todo = {}
  <2>1. At(t, "freeWaitSet", "release")
        BY DEF FreeRelease
  <2>2. /\ stack[t] # <<>> /\ f \in FrameSet /\ f \in Frames /\ f.op = "freeWaitSet" /\ f.at = "release" /\ Fit(f) /\ f \in RawFrames
        /\ x \in Ctxs \cup {None}
        BY <2>1, AtTop DEF Inv, Typed
  <2> QED  BY <2>2 DEF Fit
<1>2. /\ GuardReleased(c) /\ stack' = Goto(t, "fire")
      /\ UNCHANGED <<binding, hooked, made, mine, attached, mu, notified, wakeups, trigger, closed, retired, ctx, owed>>
      BY DEF FreeRelease
<1>3. PICK g \in FrameSet : Like(g, f, "fire") /\ Swapped(t, {f}, {g})
  <2>1. "fire" \in Ats /\ \A h \in RawFrames : Like(h, f, "fire") => Fit(h)
        BY <1>1 DEF Like, Fit, Ats
  <2> QED  BY <1>1, <1>2, <2>1, GotoGoes DEF Inv, Typed
<1>4. Mutex'
  <2>1. \A v \in WaitSetIds : f \notin InsideOf(v) /\ {g} \cap InsideOf(v) = {}
        BY <1>1, <1>3 DEF InsideOf, Like
  <2> QED  BY <1>1, <1>2, <1>3, <2>1, MutexKept DEF Inv
<1>5. mu' \in [WaitSetIds -> Threads \cup {None}]
      BY <1>2 DEF Inv, Typed
<1> QED  BY <1>1, <1>2, <1>3, <1>4, <1>5, ReleaseStep

LEMMA GuardUnrefInv ==
    ASSUME Inv, NEW t \in Threads, GuardUnref(t)
    PROVE  Inv'
<1> PICK f, w, c, x : f = Top(t) /\ w = Top(t).w /\ c = Top(t).c /\ x = Top(t).x
    OBVIOUS
<1>1. /\ stack[t] # <<>> /\ f \in FrameSet /\ f \in Frames /\ f.op = "destroyGuard" /\ f.at = "release" /\ Fit(f) /\ f \in RawFrames
      /\ f.w = w /\ f.c = c /\ f.x = x /\ w \in WaitSetIds /\ c \in Conds /\ x \in Ctxs \cup {None}
  <2>1. At(t, "destroyGuard", "release")
        BY DEF GuardUnref
  <2>2. /\ stack[t] # <<>> /\ f \in FrameSet /\ f \in Frames /\ f.op = "destroyGuard" /\ f.at = "release" /\ Fit(f) /\ f \in RawFrames
        /\ x \in Ctxs \cup {None}
        BY <2>1, AtTop DEF Inv, Typed
  <2> QED  BY <2>2 DEF Fit
<1>2. /\ GuardReleased(c) /\ stack' = Goto(t, "fire")
      /\ UNCHANGED <<binding, hooked, made, mine, attached, mu, notified, wakeups, trigger, closed, retired, ctx, owed>>
      BY DEF GuardUnref
<1>3. PICK g \in FrameSet : Like(g, f, "fire") /\ Swapped(t, {f}, {g})
  <2>1. "fire" \in Ats /\ \A h \in RawFrames : Like(h, f, "fire") => Fit(h)
        BY <1>1 DEF Like, Fit, Ats
  <2> QED  BY <1>1, <1>2, <2>1, GotoGoes DEF Inv, Typed
<1>4. Mutex'
  <2>1. \A v \in WaitSetIds : f \notin InsideOf(v) /\ {g} \cap InsideOf(v) = {}
        BY <1>1, <1>3 DEF InsideOf, Like
  <2> QED  BY <1>1, <1>2, <1>3, <2>1, MutexKept DEF Inv
<1>5. mu' \in [WaitSetIds -> Threads \cup {None}]
      BY <1>2 DEF Inv, Typed
<1> QED  BY <1>1, <1>2, <1>3, <1>4, <1>5, ReleaseStep

LEMMA DetachUnregisterInv ==
    ASSUME Inv, NEW t \in Threads, DetachUnregister(t)
    PROVE  Inv'
<1> PICK f, w, c, x : f = Top(t) /\ w = Top(t).w /\ c = Top(t).c /\ x = Top(t).x
    OBVIOUS
<1>1. /\ stack[t] # <<>> /\ f \in FrameSet /\ f \in Frames /\ f.op = "detach" /\ f.at = "unregister" /\ Fit(f) /\ f \in RawFrames
      /\ f.w = w /\ f.c = c /\ f.x = x /\ w \in WaitSetIds /\ c \in Conds /\ x \in Ctxs \cup {None} /\ f.todo = {}
  <2>1. At(t, "detach", "unregister")
        BY DEF DetachUnregister
  <2>2. /\ stack[t] # <<>> /\ f \in FrameSet /\ f \in Frames /\ f.op = "detach" /\ f.at = "unregister" /\ Fit(f) /\ f \in RawFrames
        /\ x \in Ctxs \cup {None}
        BY <2>1, AtTop DEF Inv, Typed
  <2> QED  BY <2>2 DEF Fit
<1>2. /\ wakeups' = [wakeups EXCEPT ![c] = @ \ {w}] /\ stack' = Goto(t, "release") /\ owed' = owed \ {<<w, c>>}
      /\ UNCHANGED <<binding, hooked, made, mine, attached, mu, notified, trigger, refs, closed, retired, freed, ctx>>
      BY DEF DetachUnregister
<1>3. PICK g \in FrameSet : Like(g, f, "release") /\ Swapped(t, {f}, {g})
  <2>1. "release" \in Ats /\ \A h \in RawFrames : Like(h, f, "release") => Fit(h)
        BY <1>1 DEF Like, Fit, Ats
  <2> QED  BY <1>1, <1>2, <2>1, GotoGoes DEF Inv, Typed
<1>4. g.op = "detach" /\ g.at = "release" /\ g.w = w /\ g.c = c /\ g.x = x /\ g \in Frames'
      BY <1>1, <1>3 DEF Like, Swapped
<1>5. \A v \in WaitSetIds, d \in Conds : v \in wakeups'[d] <=> v \in wakeups[d] /\ (v # w \/ d # c)
      BY <1>1, <1>2 DEF Inv, Typed
<1>6. f \in Releasing(w, c) /\ g \in Releasing(w, c) /\ f \in InsideOf(w) /\ g \in InsideOf(w)
      BY <1>1, <1>4 DEF Releasing, InsideOf
<1>7. Attached(w, c) /\ ~Entry(w, c) /\ Attached(w, c)' /\ ~Entry(w, c)'
  <2>1. Attached(w, c) /\ ~Entry(w, c)
        BY <1>1, <1>6 DEF Attached, Held, Inv, ReleaseSound
  <2> QED  BY <1>2, <1>4, <1>6, <2>1 DEF Entry, Attached, Held
<1>8. refs[c] \in Nat /\ refs[c] >= 1 /\ c \in made /\ c \notin freed
      BY <1>1, <1>7, RefHeld
<1>9. Typed'
  <2>1. wakeups' \in [Conds -> SUBSET WaitSetIds] /\ owed' \subseteq WaitSetIds \X Conds
        BY <1>1, <1>2 DEF Inv, Typed
  <2> QED  BY <1>2, <1>3, <2>1 DEF Inv, Typed, Swapped
<1>10. Mutex'
      BY <1>1, <1>2, <1>3, <1>6, MutexStay DEF Inv
<1>11. ScanSound'
      BY <1>2, <1>3, <1>4, ScanKept
<1>12. AddingSound'
      BY <1>2, <1>3, <1>4 DEF Swapped, Inv, AddingSound
<1>13. OwnSound'
  <2>1. \A y \in Ctxs : f \in Owning(y) <=> g \in Owning(y)
        BY <1>1, <1>4 DEF Owning
  <2> QED  BY <1>1, <1>2, <1>3, <1>4, <2>1, OwnPassed
<1>14. HookSound'
      BY <1>2, <1>3, <1>4, HookKept
<1>15. UseSound' /\ TearSound' /\ OneWaiter' /\ OwedSound'
  <2>1. Heir(f, g)
        BY <1>1, <1>4 DEF Heir
  <2>2. owed' \subseteq owed
        BY <1>2
  <2>3. ASSUME NEW p \in owed' PROVE p[1] \in wakeups'[p[2]]
    <3>1. p \in WaitSetIds \X Conds /\ p # <<w, c>> /\ p[1] \in wakeups[p[2]]
          BY <1>2, <2>3 DEF Inv, Typed, OwedSound
    <3>2. p[1] \in WaitSetIds /\ p[2] \in Conds /\ (p[1] # w \/ p[2] # c)
          BY <3>1
    <3> QED  BY <1>5, <3>1, <3>2
  <2> QED  BY <1>1, <1>2, <1>3, <2>1, <2>2, <2>3, CalmStep
<1>16. /\ ReleaseSound' /\ EntriesApart' /\ FreeSound' /\ CountedC' /\ CountedW' /\ ListedFrom' /\ ListedTo'
  <2>1. Elsewhere({f}, {g}, w, c)
    <3>1. \A h \in {f} \cup {g} : /\ h \in FrameSet /\ h.op \in {"attach", "detach", "freeWaitSet"} /\ h.w = w
                                  /\ h.c = c \/ h.c = None
          BY <1>1, <1>4
    <3> QED  BY <1>1, <1>4, <3>1, LevelElsewhere
  <2>2. ListsElsewhere(w, c)
        BY <1>2, <1>5 DEF ListsElsewhere
  <2>3. Once(Releasing(w, c))'
    <3>1. Even({f}, {g}, Releasing(w, c)) /\ Single({g}, Releasing(w, c))
          BY <1>6 DEF Even, Single
    <3> QED  BY <1>1, <1>3, <3>1, EvenOnce DEF Inv, ReleaseSound
  <2>6. w \notin wakeups'[c]
        BY <1>1, <1>5
  <2>7. ReleaseAt(w, c)' /\ ListedFromAt(w, c)' /\ ListedToAt(w, c)'
        BY <1>7, <2>3, <2>6 DEF ReleaseAt, ListedFromAt, ListedToAt
  <2>8. CountAt(w, c) /\ FreedAt(w, c)
        BY <1>2, <1>7, <1>8 DEF CountAt, FreedAt
  <2>9. \A e, d \in attached'[w] : e.c = c /\ d.c = c => e = d
        BY <1>1, <1>2 DEF Inv, EntriesApart
  <2> QED  BY <1>1, <1>2, <1>3, <1>8, <1>9, <2>1, <2>2, <2>6, <2>7, <2>8, <2>9, AttachmentStep
<1> QED  BY <1>9, <1>10, <1>11, <1>12, <1>13, <1>14, <1>15, <1>16 DEF Inv

(* The attach finds its condition attached, or has no memory for the entry. *)
LEMMA NotStoredInv ==
    ASSUME Inv, NEW t \in Threads, At(t, "attach", "lock"), stack' = NotStored(t),
           UNCHANGED <<binding, hooked, made, mine, attached, mu, notified, wakeups, trigger, refs, closed, retired, freed, ctx, owed>>
    PROVE  Inv'
<1> PICK f, w, c, x : f = Top(t) /\ w = Top(t).w /\ c = Top(t).c /\ x = Top(t).x
    OBVIOUS
<1>1. /\ stack[t] # <<>> /\ f \in FrameSet /\ f \in Frames /\ f.op = "attach" /\ f.at = "lock" /\ Fit(f) /\ f \in RawFrames
      /\ f.w = w /\ f.c = c /\ f.x = x /\ w \in WaitSetIds /\ c \in Conds /\ x \in Ctxs \cup {None} /\ f.todo = {}
  <2>1. At(t, "attach", "lock")
        OBVIOUS
  <2>2. /\ stack[t] # <<>> /\ f \in FrameSet /\ f \in Frames /\ f.op = "attach" /\ f.at = "lock" /\ Fit(f) /\ f \in RawFrames
        /\ x \in Ctxs \cup {None}
        BY <2>1, AtTop DEF Inv, Typed
  <2> QED  BY <2>2 DEF Fit
<1>2. PICK N : /\ Swapped(t, {f}, N) /\ N \subseteq FrameSet /\ ((N = {} /\ x = None) \/ \E g : N = {g})
               /\ \A g \in N : g.op = "attach" /\ g.at \in {"lock", "discard"} /\ g.w = w /\ g.c = c /\ g.x = x
  <2>1. /\ {"lock", "discard"} \subseteq Ats
        /\ \A h \in RawFrames : Like(h, f, "lock") \/ (x # None /\ Like(h, f, "discard")) => Fit(h)
        BY <1>1 DEF Like, Fit, Ats
  <2>2. \/ stack' = Return(t) /\ x = None
        \/ \E at \in {"lock", "discard"} : stack' = Goto(t, at) /\ (at = "discard" => x # None)
        BY DEF NotStored
  <2>3. CASE stack' = Return(t) /\ x = None
    <3>1. Swapped(t, {f}, {})
          BY <1>1, <2>3, ReturnGoes DEF Inv, Typed
    <3> QED  BY <2>3, <3>1
  <2>4. ASSUME NEW at \in {"lock", "discard"}, stack' = Goto(t, at), at = "discard" => x # None
        PROVE  \E g \in FrameSet : Like(g, f, at) /\ Swapped(t, {f}, {g})
        BY <1>1, <2>1, <2>4, GotoGoes DEF Inv, Typed
  <2>5. ASSUME NEW at \in {"lock", "discard"}, stack' = Goto(t, at), at = "discard" => x # None
        PROVE  \E N : /\ Swapped(t, {f}, N) /\ N \subseteq FrameSet /\ ((N = {} /\ x = None) \/ \E g : N = {g})
                      /\ \A g \in N : g.op = "attach" /\ g.at \in {"lock", "discard"} /\ g.w = w /\ g.c = c /\ g.x = x
    <3>1. PICK g \in FrameSet : Like(g, f, at) /\ Swapped(t, {f}, {g})
          BY <2>4, <2>5
    <3>2. g.op = "attach" /\ g.at \in {"lock", "discard"} /\ g.w = w /\ g.c = c /\ g.x = x
          BY <1>1, <3>1 DEF Like
    <3>3. {g} \subseteq FrameSet /\ \E k : {g} = {k}
          OBVIOUS
    <3> QED  BY ONLY <3>1, <3>2, <3>3
  <2> QED  BY <2>2, <2>3, <2>5
<1>5. UNCHANGED <<binding, hooked, made, mine, attached, mu, notified, wakeups, trigger, refs, closed, retired, freed, ctx, owed>>
      OBVIOUS
<1>6. \A h \in {f} \cup N : h \in FrameSet /\ h.op = "attach" /\ h.at \in {"lock", "discard"} /\ h.c = c
      BY <1>1, <1>2
<1>7. /\ ReleaseSound' /\ EntriesApart' /\ FreeSound' /\ CountedC' /\ CountedW' /\ ListedFrom' /\ ListedTo'
      /\ AddingSound' /\ Mutex' /\ ScanSound' /\ OwedSound' /\ OneWaiter'
  <2>1. \A h \in {f} \cup N : h \in FrameSet /\ Soft(h) /\ h.op # "wait" /\ h.op # "set"
        BY <1>6 DEF Soft
  <2> QED  BY <1>1, <1>2, <1>5, <2>1, SoftSteps
<1>8. Typed'
      BY <1>2, <1>5 DEF Inv, Typed, Swapped
<1>9. OwnSound'
  <2>1. ASSUME NEW y \in Ctxs
        PROVE  /\ Even({f}, N, Owning(y)) /\ Single(N, Owning(y))
               /\ \A g \in N \cap Owning(y) : \E h \in {f} \cap Owning(y) : h.c = g.c
    <3>1. f \in Owning(y) <=> x = y
          BY <1>1 DEF Owning
    <3>2. \A g \in N : g \in Owning(y) <=> x = y
          BY <1>2 DEF Owning
    <3>3. y # None
          BY WaitSetsAssumption DEF WaitSetsAssumption
    <3> QED  BY <1>1, <1>2, <3>1, <3>2, <3>3 DEF Even, Single
  <2> QED  BY <1>2, <1>5, <2>1, OwnKept
<1>10. HookSound'
  <2>1. binding = "cpp" => x # None
        BY <1>1 DEF Inv, HookSound
  <2> QED  BY <1>2, <1>5, <2>1, HookKept
<1>11. \A d : {f} \cap DestroyG(d) = {} /\ N \cap DestroyG(d) = {} /\ {f} \cap Keeping(d) = {} /\ N \cap Keeping(d) = {}
      BY <1>6 DEF DestroyG, Keeping
<1>12. \A d : (Destroying(d)' <=> Destroying(d)) /\ (Unheld(d)' <=> Unheld(d))
      BY <1>2, <1>5, <1>11, DestroyingKept, UnheldKept DEF Even
<1>13. UseSound'
  <2>1. UseOf(f)
        BY <1>1 DEF Inv, UseSound, UseOf
  <2>2. \A h \in N : UseOf(h) /\ h.c \in Conds
        BY <1>1, <1>2, <2>1 DEF UseOf
  <2> QED  BY <1>2, <1>5, <1>12, <2>2, UseKept
<1>14. TearSound'
  <2>1. \A v : {f} \cap DestroyW(v) = {} /\ N \cap DestroyW(v) = {}
        BY <1>6 DEF DestroyW
  <2>2. \A h \in N : TearOf(h)
        BY <1>6 DEF TearOf
  <2> QED  BY <1>2, <1>5, <1>11, <1>12, <2>1, <2>2, TearKept DEF Even, Single
<1> QED  BY <1>7, <1>8, <1>9, <1>10, <1>13, <1>14 DEF Inv

(* A wait set with a reference is there. *)
LEMMA RefHeldW ==
    ASSUME Inv, NEW w \in WaitSetIds, OwnerRef(w) \/ \E c \in Conds : Held(Pinning(c, w))
    PROVE  refs[w] \in Nat /\ refs[w] >= 1 /\ w \in made /\ w \notin freed /\ ~Held(FreeW(w))
<1>1. refs[w] = One(OwnerRef(w)) + Cardinality(Pins(w)) /\ w \in Objects
      BY DEF Inv, CountedW, Objects
<1>2. One(OwnerRef(w)) \in Nat /\ Cardinality(Pins(w)) \in Nat
      BY AttachmentsFinite DEF One
<1>3. refs[w] >= 1
  <2>1. CASE OwnerRef(w)
        BY <1>1, <1>2, <2>1 DEF One
  <2>2. CASE \E c \in Conds : Held(Pinning(c, w))
    <3>1. Pins(w) # {}
          BY <2>2 DEF Pins
    <3>2. Cardinality(Pins(w)) # 0
          BY <3>1, AttachmentsFinite, FS_EmptySet
    <3> QED  BY <1>1, <1>2, <3>2
  <2> QED  BY <2>1, <2>2
<1>4. refs[w] \in Nat
      BY <1>1, <1>2
<1> QED  BY <1>1, <1>3, <1>4 DEF Inv, FreeSound

LEMMA MineHeld ==
    ASSUME Inv, NEW w \in WaitSetIds, w \in mine
    PROVE  w \in made /\ w \notin closed /\ w \notin freed /\ ~Held(FreeW(w))
<1>1. w \in made /\ w \notin closed
      BY DEF Inv, Typed, TearSound
<1> QED  BY <1>1, RefHeldW DEF OwnerRef

(* Nobody operates on a wait set that is being freed. *)
LEMMA FreeAlone ==
    ASSUME Inv, NEW w \in WaitSetIds, Held(FreeW(w)) \/ w \in freed
    PROVE  /\ w \notin mine /\ \A h \in Frames : h.w = w => h.op \notin {"attach", "detach", "wait"}
           /\ Frames \cap InsideOf(w) = {}
<1>1. w \notin mine
      BY MineHeld
<1>2. \A h \in Frames : h.w = w => h.op \notin {"attach", "detach", "wait"}
      BY <1>1 DEF Inv, UseSound
<1> QED  BY <1>1, <1>2 DEF InsideOf

LEMMA AttachAppendedInv ==
    ASSUME Inv, NEW t \in Threads, At(t, "attach", "lock"), NEW w, w = Top(t).w, NEW c, c = Top(t).c, mu[w] = None,
           \A e \in attached[w] : e.c # c,
           attached' = [attached EXCEPT ![w] = @ \cup {[c |-> c, x |-> Top(t).x]}],
           mu' = [mu EXCEPT ![w] = t], stack' = Goto(t, "acquire"),
           UNCHANGED <<binding, hooked, made, mine, notified, wakeups, trigger, refs, closed, retired, freed, ctx, owed>>
    PROVE  Inv'
<1> PICK f, x : f = Top(t) /\ x = Top(t).x
    OBVIOUS
<1>1. /\ stack[t] # <<>> /\ f \in FrameSet /\ f \in Frames /\ f.op = "attach" /\ f.at = "lock" /\ Fit(f) /\ f \in RawFrames
      /\ f.w = w /\ f.c = c /\ f.x = x /\ w \in WaitSetIds /\ c \in Conds /\ x \in Ctxs \cup {None} /\ f.todo = {}
  <2>1. /\ stack[t] # <<>> /\ f \in FrameSet /\ f \in Frames /\ f.op = "attach" /\ f.at = "lock" /\ Fit(f) /\ f \in RawFrames
        /\ x \in Ctxs \cup {None}
        BY AtTop DEF Inv, Typed
  <2> QED  BY <2>1 DEF Fit
<1>2. UseOf(f) /\ c \in made /\ c \notin closed /\ ~Held(DestroyG(c)) /\ w \in mine
      BY <1>1 DEF Inv, UseSound, UseOf, Destroying
<1>3. w \in made /\ w \notin closed /\ w \notin freed /\ ~Held(FreeW(w))
      BY <1>1, <1>2, MineHeld
<1>4. PICK g \in FrameSet : Like(g, f, "acquire") /\ Swapped(t, {f}, {g})
  <2>1. "acquire" \in Ats /\ \A h \in RawFrames : Like(h, f, "acquire") => Fit(h)
        BY <1>1 DEF Like, Fit, Ats
  <2> QED  BY <1>1, <2>1, GotoGoes DEF Inv, Typed
<1>5. g.op = "attach" /\ g.at = "acquire" /\ g.w = w /\ g.c = c /\ g.x = x /\ g \in Frames'
      BY <1>1, <1>4 DEF Like, Swapped
<1> PICK e : e = [c |-> c, x |-> x]
    OBVIOUS
<1>6. /\ e.c = c /\ e.x = x /\ e \in [c : Conds, x : Ctxs \cup {None}] /\ e = [c |-> g.c, x |-> g.x]
      /\ attached \in [WaitSetIds -> SUBSET [c : Conds, x : Ctxs \cup {None}]]
      BY <1>1, <1>5 DEF Inv, Typed
<1>7. /\ \A v \in WaitSetIds : attached'[v] = IF v = w THEN attached[w] \cup {e} ELSE attached[v]
      /\ attached' \in [WaitSetIds -> SUBSET [c : Conds, x : Ctxs \cup {None}]]
  <2>1. attached' = [attached EXCEPT ![w] = attached[w] \cup {e}]
        OBVIOUS
  <2> QED  BY ONLY <1>1, <1>6, <2>1
<1>8. f \notin InsideOf(w) /\ g \in InsideOf(w) /\ Frames' \cap InsideOf(w) \subseteq {g} /\ Frames \cap InsideOf(w) = {}
  <2>1. f \notin InsideOf(w) /\ g \in InsideOf(w)
        BY <1>1, <1>5 DEF InsideOf
  <2>2. Frames \cap InsideOf(w) = {}
        BY <1>1 DEF Inv, Mutex, Held
  <2> QED  BY <1>1, <1>4, <2>1, <2>2, InsideAlone
<1>9. Typed'
  <2>1. mu' \in [WaitSetIds -> Threads \cup {None}]
        BY <1>1 DEF Inv, Typed
  <2> QED  BY <1>4, <1>7, <2>1 DEF Inv, Typed, Swapped
<1>10. Mutex'
  <2>1. \A u \in WaitSetIds : f \notin InsideOf(u)
        BY <1>1 DEF InsideOf
  <2> QED  BY <1>1, <1>4, <1>8, <2>1, MutexEnter, WaitSetsAssumption DEF Inv
<1>11. AddingSound' /\ ScanSound'
  <2>1. \A h \in {g} : h.op = "attach" /\ h.at \in {"acquire", "register"} => [c |-> h.c, x |-> h.x] \in attached'[h.w]
        BY <1>1, <1>5, <1>6, <1>7
  <2>2. (\A v \in WaitSetIds : v # w => attached'[v] = attached[v]) /\ \A h \in {g} : h.op # "wait"
        BY <1>5, <1>7
  <2> QED  BY <1>1, <1>4, <1>8, <2>1, <2>2, EntryChange
<1>12. OwnSound'
  <2>1. \A y \in Ctxs : (f \in Owning(y) <=> y = e.x) /\ g \notin Owning(y)
        BY <1>1, <1>5, <1>6 DEF Owning
  <2>2. Inv /\ Swapped(t, {f}, {g}) /\ UNCHANGED ctx /\ w \in WaitSetIds /\ f.c = e.c
        BY <1>1, <1>4, <1>6
  <2>3. e \in attached'[w] /\ attached'[w] = attached[w] \cup {e} /\ \A v \in WaitSetIds : v # w => attached'[v] = attached[v]
        BY <1>1, <1>7
  <2> QED  BY ONLY <2>1, <2>2, <2>3, OwnStored
<1>13. HookSound'
  <2>1. binding = "cpp" => x # None
        BY <1>1 DEF Inv, HookSound
  <2>2. binding = "cpp" => \A h \in {g} : h.op = "attach" /\ h.at # "alloc" => h.x # None
        BY <1>5, <2>1
  <2>3. binding = "cpp" => \A v \in WaitSetIds : \A d \in attached'[v] : d \in attached[v] \/ d.x # None
        BY <1>6, <1>7, <2>1
  <2> QED  BY <1>4, <2>2, <2>3, HookBut
<1>14. UseSound' /\ TearSound' /\ OneWaiter' /\ OwedSound'
  <2>1. Heir(f, g)
        BY <1>1, <1>5 DEF Heir
  <2>2. owed' \subseteq owed /\ \A p \in owed' : p[1] \in wakeups'[p[2]]
        BY OwedStays
  <2> QED  BY <1>1, <1>4, <2>1, <2>2, CalmStep
<1>15. /\ ReleaseSound' /\ EntriesApart' /\ FreeSound' /\ CountedC' /\ CountedW' /\ ListedFrom' /\ ListedTo'
  <2>1. Elsewhere({f}, {g}, w, c)
    <3>1. \A h \in {f} \cup {g} : /\ h \in FrameSet /\ h.op \in {"attach", "detach", "freeWaitSet"} /\ h.w = w
                                  /\ h.c = c \/ h.c = None
          BY <1>1, <1>5
    <3> QED  BY <1>1, <1>5, <3>1, LevelElsewhere
  <2>2. ListsElsewhere(w, c) /\ ~Entry(w, c) /\ Entry(w, c)'
        BY <1>1, <1>6, <1>7 DEF Entry, ListsElsewhere
  <2>3. ~Held(Releasing(w, c))
    <3> SUFFICES ASSUME NEW h \in Frames, h \in Releasing(w, c) PROVE FALSE
        BY DEF Held
    <3>1. CASE h.op = "detach"
      <4>1. h \in InsideOf(w)
            BY <3>1 DEF InsideOf, Releasing
      <4> QED  BY <1>8, <4>1
    <3>2. CASE h.op = "freeWaitSet"
          BY <1>3, <3>2 DEF Held, FreeW, Releasing
    <3>3. CASE h.op = "destroyGuard"
          BY <1>2, <3>3 DEF Held, DestroyG, Releasing
    <3> QED  BY <3>1, <3>2, <3>3 DEF Releasing
  <2>4. Once(Releasing(w, c))' /\ ~Held(Releasing(w, c))'
    <3>1. f \notin Releasing(w, c) /\ g \notin Releasing(w, c)
          BY <1>1, <1>5 DEF Releasing
    <3>2. Even({f}, {g}, Releasing(w, c)) /\ Single({g}, Releasing(w, c))
          BY <3>1 DEF Even, Single
    <3> QED  BY <1>1, <1>4, <2>3, <3>2, EvenHeld, EvenOnce DEF Inv, ReleaseSound
  <2>5. g \in Adding(w, c, "acquire") /\ Held(Adding(w, c, "acquire"))'
        BY <1>5 DEF Adding, Held
  <2>6. ~Attached(w, c) /\ ~Attached(w, c)'
        BY <2>2, <2>3, <2>4, <2>5 DEF Attached
  <2>7. w \notin wakeups'[c]
    <3>1. ~Held(Removing(w, c))
          BY <2>3 DEF Held, Removing, Releasing
    <3> QED  BY <1>1, <2>2, <3>1, ListsMean DEF Inv
  <2>8. ReleaseAt(w, c)' /\ ListedFromAt(w, c)' /\ ListedToAt(w, c)'
        BY <2>4, <2>5, <2>7 DEF ReleaseAt, ListedFromAt, ListedToAt
  <2>9. CountAt(w, c)
        BY <2>6 DEF CountAt
  <2>10. FreedAt(w, c)
    <3>1. c \in freed <=> refs[c] = 0
          BY <1>1, <1>2 DEF Inv, FreeSound
    <3> QED  BY <1>3, <3>1 DEF FreedAt
  <2>11. \A a, d \in attached'[w] : a.c = c /\ d.c = c => a = d
        BY <1>1, <1>7
  <2> QED  BY <1>1, <1>2, <1>4, <1>9, <2>1, <2>2, <2>7, <2>8, <2>9, <2>10, <2>11, AttachmentStep
<1> QED  BY <1>9, <1>10, <1>11, <1>12, <1>13, <1>14, <1>15 DEF Inv

LEMMA AttachAppendInv ==
    ASSUME Inv, NEW t \in Threads, AttachAppend(t)
    PROVE  Inv'
<1> PICK w, c : w = Top(t).w /\ c = Top(t).c
    OBVIOUS
<1>1. /\ At(t, "attach", "lock") /\ mu[w] = None
      /\ UNCHANGED <<binding, hooked, made, mine, notified, wakeups, trigger, refs, closed, retired, freed, ctx, owed>>
      BY DEF AttachAppend
<1>2. CASE stack' = NotStored(t) /\ UNCHANGED <<attached, mu>>
      BY <1>1, <1>2, NotStoredInv
<1>3. CASE /\ \A e \in attached[w] : e.c # c
           /\ attached' = [attached EXCEPT ![w] = @ \cup {[c |-> c, x |-> Top(t).x]}]
           /\ mu' = [mu EXCEPT ![w] = t]
           /\ stack' = Goto(t, "acquire")
      BY <1>1, <1>3, AttachAppendedInv
<1> QED  BY <1>2, <1>3 DEF AttachAppend

(* The list is full: the entry and the reference are taken back. *)
LEMMA AttachFullInv ==
    ASSUME Inv, NEW t \in Threads, At(t, "attach", "register"), NEW w, w = Top(t).w, NEW c, c = Top(t).c,
           refs' = [refs EXCEPT ![c] = @ - 1],
           attached' = [attached EXCEPT ![w] = {d \in @ : d.c # c}],
           mu' = [mu EXCEPT ![w] = None], stack' = NotStored(t),
           UNCHANGED <<binding, hooked, made, mine, notified, wakeups, trigger, closed, retired, freed, ctx, owed>>
    PROVE  Inv'
<1> PICK f, x : f = Top(t) /\ x = Top(t).x
    OBVIOUS
<1>1. /\ stack[t] # <<>> /\ f \in FrameSet /\ f \in Frames /\ f.op = "attach" /\ f.at = "register" /\ Fit(f) /\ f \in RawFrames
      /\ f.w = w /\ f.c = c /\ f.x = x /\ w \in WaitSetIds /\ c \in Conds /\ x \in Ctxs \cup {None} /\ f.todo = {}
  <2>1. /\ stack[t] # <<>> /\ f \in FrameSet /\ f \in Frames /\ f.op = "attach" /\ f.at = "register" /\ Fit(f) /\ f \in RawFrames
        /\ x \in Ctxs \cup {None}
        BY AtTop DEF Inv, Typed
  <2> QED  BY <2>1 DEF Fit
<1>2. UseOf(f) /\ c \in made /\ c \notin closed
      BY <1>1 DEF Inv, UseSound, UseOf, Destroying
<1>3. PICK N : /\ Swapped(t, {f}, N) /\ N \subseteq FrameSet /\ ((N = {} /\ x = None) \/ \E g : N = {g} /\ x # None)
               /\ \A g \in N : g.op = "attach" /\ g.at = "discard" /\ g.w = w /\ g.c = c /\ g.x = x
  <2>1. "discard" \in Ats /\ (x # None => \A h \in RawFrames : Like(h, f, "discard") => Fit(h))
        BY <1>1 DEF Like, Fit, Ats
  <2>2. CASE x = None
    <3>1. stack' = Return(t)
          BY <2>2 DEF NotStored
    <3>2. Swapped(t, {f}, {})
          BY <1>1, <3>1, ReturnGoes DEF Inv, Typed
    <3> QED  BY <2>2, <3>2
  <2>3. CASE x # None
    <3>0. stack' = Goto(t, "discard")
          BY <2>3 DEF NotStored
    <3>1. PICK g \in FrameSet : Like(g, f, "discard") /\ Swapped(t, {f}, {g})
          BY <1>1, <2>1, <2>3, <3>0, GotoGoes DEF Inv, Typed
    <3>2. g.op = "attach" /\ g.at = "discard" /\ g.w = w /\ g.c = c /\ g.x = x
          BY <1>1, <3>1 DEF Like
    <3>3. {g} \subseteq FrameSet /\ (\E k : {g} = {k} /\ x # None)
          BY <2>3
    <3> QED  BY ONLY <3>1, <3>2, <3>3
  <2> QED  BY <2>2, <2>3
<1> PICK e : e = [c |-> c, x |-> x]
    OBVIOUS
<1>4. e.c = c /\ e.x = x /\ e \in attached[w] /\ attached \in [WaitSetIds -> SUBSET [c : Conds, x : Ctxs \cup {None}]]
      BY <1>1 DEF Inv, AddingSound, Typed
<1>5. \A d \in attached[w] : d.c = c => d = e
      BY <1>1, <1>4 DEF Inv, EntriesApart
<1>6. /\ attached'[w] = attached[w] \ {e} /\ \A v \in WaitSetIds : v # w => attached'[v] = attached[v]
      /\ attached' \in [WaitSetIds -> SUBSET [c : Conds, x : Ctxs \cup {None}]]
      BY <1>1, <1>4, <1>5
<1>7. f \in InsideOf(w) /\ Frames' \cap InsideOf(w) = {} /\ \A u \in WaitSetIds : N \cap InsideOf(u) = {}
  <2>1. f \in InsideOf(w) /\ \A u \in WaitSetIds : N \cap InsideOf(u) = {}
        BY <1>1, <1>3 DEF InsideOf
  <2>2. Frames' \cap InsideOf(w) \subseteq N
        BY <1>1, <1>3, <2>1, InsideAlone
  <2> QED  BY <1>1, <2>1, <2>2
<1>8. ~Held(Releasing(w, c)) /\ ~Held(Adding(w, c, "acquire")) /\ w \notin wakeups[c] /\ Attached(w, c)
  <2>1. Entry(w, c)
        BY <1>4 DEF Entry
  <2>2. ~Held(Releasing(w, c))
        BY <1>1, <2>1 DEF Inv, ReleaseSound
  <2>3. ~Held(Adding(w, c, "acquire"))
    <3> SUFFICES ASSUME NEW h \in Frames, h \in Adding(w, c, "acquire") PROVE FALSE
        BY DEF Held
    <3>1. h \in InsideOf(w) /\ h.at = "acquire"
          BY DEF Adding, InsideOf
    <3>2. h = f
          BY <1>1, <1>7, <3>1, OnceSame DEF Inv, Mutex
    <3> QED  BY <1>1, <3>1, <3>2
  <2>4. w \notin wakeups[c]
    <3>1. ~Held(Removing(w, c))
          BY <2>2 DEF Held, Removing, Releasing
    <3>2. Held(Adding(w, c, "register"))
          BY <1>1 DEF Held, Adding
    <3> QED  BY <1>1, <3>1, <3>2, ListsMean DEF Inv
  <2> QED  BY <2>1, <2>2, <2>3, <2>4 DEF Attached
<1>9. /\ refs[c] \in Nat /\ refs[c] >= 2 /\ c \notin freed
      /\ refs' \in [Objects -> Nat] /\ refs'[c] = refs[c] - 1 /\ \A o \in Objects : o # c => refs'[o] = refs[o]
  <2>1. refs[c] = One(OwnerRef(c)) + Cardinality(Attachments(c)) /\ OwnerRef(c)
        BY <1>1, <1>2 DEF Inv, CountedC, OwnerRef
  <2>2. Attachments(c) # {}
        BY <1>1, <1>8 DEF Attachments
  <2>3. Cardinality(Attachments(c)) \in Nat /\ Cardinality(Attachments(c)) # 0
        BY <2>2, AttachmentsFinite, FS_EmptySet
  <2>4. refs[c] \in Nat /\ refs[c] >= 2
        BY <2>1, <2>3 DEF One
  <2>5. c \in Objects /\ refs \in [Objects -> Nat]
        BY <1>1 DEF Inv, Typed, Objects
  <2>6. c \notin freed
        BY <1>1, <2>4 DEF Inv, FreeSound
  <2>7. refs[c] - 1 \in Nat
        BY <2>4
  <2> QED  BY <2>4, <2>5, <2>6, <2>7
<1>10. Typed'
  <2>1. mu' \in [WaitSetIds -> Threads \cup {None}]
        BY <1>1 DEF Inv, Typed
  <2> QED  BY <1>3, <1>6, <1>9, <2>1 DEF Inv, Typed, Swapped
<1>11. Mutex'
      BY <1>1, <1>3, <1>7, MutexLeave DEF Inv
<1>12. AddingSound' /\ ScanSound'
  <2>1. (\A h \in N : h.op # "wait") /\ \A h \in N : h.op = "attach" /\ h.at \in {"acquire", "register"} => [c |-> h.c, x |-> h.x] \in attached'[h.w]
        BY <1>3
  <2> QED  BY <1>1, <1>3, <1>6, <1>7, <2>1, EntryChange
<1>13. OwnSound'
  <2>1. Takes(f, N, e)
    <3> SUFFICES ASSUME NEW y \in Ctxs
                 PROVE  /\ f \notin Owning(y) /\ Single(N, Owning(y)) /\ (N \cap Owning(y) # {} <=> y = e.x)
                        /\ \A g \in N \cap Owning(y) : g.c = e.c
        BY DEF Takes
    <3>1. y # None
          BY WaitSetsAssumption DEF WaitSetsAssumption
    <3>2. f \notin Owning(y) /\ \A g \in N : g \in Owning(y) <=> y = x
          BY <1>1, <1>3 DEF Owning
    <3> QED  BY <1>3, <1>4, <3>1, <3>2 DEF Single
  <2>2. EntryGone(w, e)
        BY <1>4, <1>6 DEF EntryGone
  <2> QED  BY <1>1, <1>3, <2>1, <2>2, OwnTaken
<1>14. HookSound'
  <2>1. binding = "cpp" => x # None
        BY <1>1 DEF Inv, HookSound
  <2>2. \A v \in WaitSetIds : \A d \in attached'[v] : d \in attached[v]
        BY <1>6
  <2> QED  BY <1>3, <2>1, <2>2, HookBut
<1>15. UseSound' /\ TearSound' /\ OneWaiter' /\ OwedSound'
  <2>1. \A g \in N : g \in FrameSet /\ Heir(f, g)
        BY <1>1, <1>3 DEF Heir
  <2>2. owed' \subseteq owed /\ \A p \in owed' : p[1] \in wakeups'[p[2]]
        BY OwedStays
  <2>3. \A g, h \in N : g.op = "destroyGuard" /\ h.op = "destroyGuard" => g = h
        BY <1>3
  <2> QED  BY <1>1, <1>3, <2>1, <2>2, <2>3, CalmSteps
<1>16. /\ ReleaseSound' /\ EntriesApart' /\ FreeSound' /\ CountedC' /\ CountedW' /\ ListedFrom' /\ ListedTo'
  <2>1. Elsewhere({f}, N, w, c)
    <3>1. \A h \in {f} \cup N : /\ h \in FrameSet /\ h.op \in {"attach", "detach", "freeWaitSet"} /\ h.w = w
                                /\ h.c = c \/ h.c = None
          BY <1>1, <1>3
    <3>2. (\A g, h \in N : g = h) /\ f.op # "freeWaitSet" /\ \A h \in N : h.op # "freeWaitSet"
          BY <1>1, <1>3
    <3> QED  BY <1>1, <3>1, <3>2, LevelElsewhere
  <2>2. ListsElsewhere(w, c) /\ ~Entry(w, c)'
    <3>1. ~Entry(w, c)'
          BY <1>5, <1>6 DEF Entry
    <3>2. \A v \in WaitSetIds, d \in Conds : v # w \/ d # c => \A a : a.c = d => (a \in attached'[v] <=> a \in attached[v])
          BY <1>4, <1>6
    <3> QED  BY <3>1, <3>2 DEF ListsElsewhere
  <2>3. Once(Releasing(w, c))' /\ ~Held(Releasing(w, c))'
    <3>1. Even({f}, N, Releasing(w, c)) /\ Single(N, Releasing(w, c))
          BY <1>1, <1>3 DEF Even, Single, Releasing
    <3> QED  BY <1>1, <1>3, <1>8, <3>1, EvenHeld, EvenOnce DEF Inv, ReleaseSound
  <2>4. ReleaseAt(w, c)' /\ ListedFromAt(w, c)' /\ ListedToAt(w, c)'
        BY <1>8, <2>2, <2>3 DEF ReleaseAt, ListedFromAt, ListedToAt
  <2>5. ~Attached(w, c)'
        BY <2>2, <2>3 DEF Attached
  <2>6. CountAt(w, c)
        BY <1>8, <1>9, <2>5 DEF CountAt
  <2>7. FreedAt(w, c)
    <3>1. attached'[w] # {} => attached[w] # {}
          BY <1>6
    <3>2. refs'[c] # 0
          BY <1>9
    <3> QED  BY <1>9, <3>1, <3>2 DEF FreedAt
  <2>8. \A a, d \in attached'[w] : a.c = c /\ d.c = c => a = d
        BY <1>5, <1>6
  <2>9. ~(w \in wakeups'[c])
        BY <1>8
  <2> QED  BY <1>1, <1>2, <1>3, <1>10, <2>1, <2>2, <2>4, <2>6, <2>7, <2>8, <2>9, AttachmentStep
<1> QED  BY <1>10, <1>11, <1>12, <1>13, <1>14, <1>15, <1>16 DEF Inv

(* The wait set is in the condition's list: the attachment is complete. *)
LEMMA AttachListedInv ==
    ASSUME Inv, NEW t \in Threads, At(t, "attach", "register"), NEW w, w = Top(t).w, NEW c, c = Top(t).c,
           wakeups' = [wakeups EXCEPT ![c] = @ \cup {w}],
           mu' = [mu EXCEPT ![w] = None], stack' = Return(t),
           UNCHANGED <<binding, hooked, made, mine, attached, notified, trigger, refs, closed, retired, freed, ctx, owed>>
    PROVE  Inv'
<1> PICK f, x : f = Top(t) /\ x = Top(t).x
    OBVIOUS
<1>1. /\ stack[t] # <<>> /\ f \in FrameSet /\ f \in Frames /\ f.op = "attach" /\ f.at = "register" /\ Fit(f) /\ f \in RawFrames
      /\ f.w = w /\ f.c = c /\ f.x = x /\ w \in WaitSetIds /\ c \in Conds /\ x \in Ctxs \cup {None} /\ f.todo = {}
  <2>1. /\ stack[t] # <<>> /\ f \in FrameSet /\ f \in Frames /\ f.op = "attach" /\ f.at = "register" /\ Fit(f) /\ f \in RawFrames
        /\ x \in Ctxs \cup {None}
        BY AtTop DEF Inv, Typed
  <2> QED  BY <2>1 DEF Fit
<1>2. UseOf(f) /\ c \in made /\ c \notin closed
      BY <1>1 DEF Inv, UseSound, UseOf, Destroying
<1> PICK N : N = {}
    OBVIOUS
<1>3. Swapped(t, {f}, N)
      BY <1>1, ReturnGoes DEF Inv, Typed
<1> PICK e : e = [c |-> c, x |-> x]
    OBVIOUS
<1>4. e.c = c /\ e \in attached[w] /\ Entry(w, c) /\ Entry(w, c)'
      BY <1>1 DEF Inv, AddingSound, Entry
<1>5. /\ \A v \in WaitSetIds, d \in Conds : v \in wakeups'[d] <=> v \in wakeups[d] \/ (v = w /\ d = c)
      /\ wakeups' \in [Conds -> SUBSET WaitSetIds]
      BY <1>1 DEF Inv, Typed
<1>7. f \in InsideOf(w) /\ Frames' \cap InsideOf(w) = {}
  <2>1. f \in InsideOf(w)
        BY <1>1 DEF InsideOf
  <2>2. Frames' \cap InsideOf(w) \subseteq N
        BY <1>1, <1>3, <2>1, InsideAlone
  <2> QED  BY <2>1, <2>2
<1>8. /\ ~Held(Adding(w, c, "acquire"))' /\ ~Held(Adding(w, c, "register"))'
      BY <1>7 DEF Held, Adding, InsideOf
<1>9. ~Held(Adding(w, c, "acquire"))
  <2> SUFFICES ASSUME NEW h \in Frames, h \in Adding(w, c, "acquire") PROVE FALSE
      BY DEF Held
  <2>1. h \in InsideOf(w) /\ h.at = "acquire"
        BY DEF Adding, InsideOf
  <2>2. h = f
        BY <1>1, <1>7, <2>1, OnceSame DEF Inv, Mutex
  <2> QED  BY <1>1, <2>1, <2>2
<1>10. Typed'
  <2>1. mu' \in [WaitSetIds -> Threads \cup {None}]
        BY <1>1 DEF Inv, Typed
  <2> QED  BY <1>3, <1>5, <2>1 DEF Inv, Typed, Swapped
<1>11. Mutex'
      BY <1>1, <1>3, <1>7, MutexLeave DEF Inv
<1>12. AddingSound' /\ ScanSound'
      BY <1>1, <1>3, <1>7, EntryChange
<1>13. OwnSound'
  <2>1. \A y \in Ctxs : {f} \cap Owning(y) = {} /\ N \cap Owning(y) = {}
        BY <1>1 DEF Owning
  <2> QED  BY <1>3, <2>1, OwnKept DEF Even, Single
<1>14. HookSound'
      BY <1>3, HookKept
<1>15. UseSound' /\ TearSound' /\ OneWaiter' /\ OwedSound'
  <2>1. owed' \subseteq owed
        OBVIOUS
  <2>2. ASSUME NEW p \in owed' PROVE p[1] \in wakeups'[p[2]]
    <3>1. p[1] \in WaitSetIds /\ p[2] \in Conds /\ p[1] \in wakeups[p[2]]
          BY <2>2 DEF Inv, Typed, OwedSound
    <3> QED  BY <1>5, <3>1
  <2>3. UNCHANGED <<binding, made, mine, closed, ctx, notified>>
        OBVIOUS
  <2> QED  BY <1>1, <1>3, <2>1, <2>2, <2>3, CalmSteps
<1>16. /\ ReleaseSound' /\ EntriesApart' /\ FreeSound' /\ CountedC' /\ CountedW' /\ ListedFrom' /\ ListedTo'
  <2>1. Elsewhere({f}, N, w, c)
    <3>1. \A h \in {f} \cup N : /\ h \in FrameSet /\ h.op \in {"attach", "detach", "freeWaitSet"} /\ h.w = w
                                /\ h.c = c \/ h.c = None
          BY <1>1
    <3> QED  BY <1>1, <3>1, LevelElsewhere
  <2>2. ListsElsewhere(w, c)
        BY <1>5 DEF ListsElsewhere
  <2>3. Once(Releasing(w, c))' /\ ~Held(Releasing(w, c))' /\ ~Held(Releasing(w, c))
    <3>1. Even({f}, N, Releasing(w, c)) /\ Single(N, Releasing(w, c))
          BY <1>1 DEF Even, Single, Releasing
    <3> QED  BY <1>1, <1>3, <1>4, <3>1, EvenHeld, EvenOnce DEF Inv, ReleaseSound
  <2>4. ReleaseAt(w, c)' /\ ListedFromAt(w, c)' /\ ListedToAt(w, c)'
        BY <1>1, <1>4, <1>5, <1>8, <2>3 DEF ReleaseAt, ListedFromAt, ListedToAt
  <2>5. Attached(w, c)' <=> Attached(w, c)
        BY <1>4, <1>8, <1>9 DEF Attached
  <2>6. CountAt(w, c)
        BY <2>5 DEF CountAt
  <2>7. FreedAt(w, c)
        BY <1>1, <1>2 DEF FreedAt, Inv, FreeSound
  <2>8. \A a, d \in attached'[w] : a.c = c /\ d.c = c => a = d
        BY <1>1 DEF Inv, EntriesApart
  <2> QED  BY <1>1, <1>2, <1>3, <1>10, <2>1, <2>2, <2>4, <2>6, <2>7, <2>8, AttachmentStep
<1> QED  BY <1>10, <1>11, <1>12, <1>13, <1>14, <1>15, <1>16 DEF Inv

LEMMA AttachRegisterInv ==
    ASSUME Inv, NEW t \in Threads, AttachRegister(t)
    PROVE  Inv'
<1> PICK w, c : w = Top(t).w /\ c = Top(t).c
    OBVIOUS
<1>1. CASE Cardinality(wakeups[c]) = Slots
  <2>1. /\ At(t, "attach", "register") /\ mu' = [mu EXCEPT ![w] = None]
        /\ refs' = [refs EXCEPT ![c] = @ - 1] /\ attached' = [attached EXCEPT ![w] = {e \in @ : e.c # c}]
        /\ stack' = NotStored(t)
        /\ UNCHANGED <<binding, hooked, made, mine, notified, wakeups, trigger, closed, retired, freed, ctx, owed>>
        BY <1>1 DEF AttachRegister
  <2> QED  BY <2>1, AttachFullInv
<1>2. CASE Cardinality(wakeups[c]) # Slots
  <2>1. /\ At(t, "attach", "register") /\ mu' = [mu EXCEPT ![w] = None]
        /\ wakeups' = [wakeups EXCEPT ![c] = @ \cup {w}] /\ stack' = Return(t)
        /\ UNCHANGED <<binding, hooked, made, mine, attached, notified, trigger, refs, closed, retired, freed, ctx, owed>>
        BY <1>2 DEF AttachRegister
  <2> QED  BY <2>1, AttachListedInv
<1> QED  BY <1>1, <1>2

(* Nothing to detach. *)
LEMMA DetachNothingInv ==
    ASSUME Inv, NEW t \in Threads, At(t, "detach", "lock"), stack' = Goto(t, "return"),
           UNCHANGED <<binding, hooked, made, mine, attached, mu, notified, wakeups, trigger, refs, closed, retired, freed, ctx, owed>>
    PROVE  Inv'
<1> PICK f, w, c, x : f = Top(t) /\ w = Top(t).w /\ c = Top(t).c /\ x = Top(t).x
    OBVIOUS
<1>1. /\ stack[t] # <<>> /\ f \in FrameSet /\ f \in Frames /\ f.op = "detach" /\ f.at = "lock" /\ Fit(f) /\ f \in RawFrames
      /\ f.w = w /\ f.c = c /\ f.x = x /\ w \in WaitSetIds /\ c \in Conds /\ x \in Ctxs \cup {None} /\ f.todo = {}
  <2>1. /\ stack[t] # <<>> /\ f \in FrameSet /\ f \in Frames /\ f.op = "detach" /\ f.at = "lock" /\ Fit(f) /\ f \in RawFrames
        /\ x \in Ctxs \cup {None}
        BY AtTop DEF Inv, Typed
  <2> QED  BY <2>1 DEF Fit
<1>2. PICK g \in FrameSet : Like(g, f, "return") /\ Swapped(t, {f}, {g})
  <2>1. "return" \in Ats /\ \A h \in RawFrames : Like(h, f, "return") => Fit(h)
        BY <1>1 DEF Like, Fit, Ats
  <2> QED  BY <1>1, <2>1, GotoGoes DEF Inv, Typed
<1>3. g.op = "detach" /\ g.at = "return" /\ g.w = w /\ g.c = c
      BY <1>1, <1>2 DEF Like
<1>4. /\ ReleaseSound' /\ EntriesApart' /\ FreeSound' /\ CountedC' /\ CountedW' /\ ListedFrom' /\ ListedTo'
      /\ AddingSound' /\ Mutex' /\ ScanSound'
  <2>1. \A h \in {f} \cup {g} : h \in FrameSet /\ Soft(h) /\ h.op # "wait" /\ h.op # "set"
        BY <1>1, <1>3 DEF Soft
  <2> QED  BY <1>1, <1>2, <2>1, SoftSteps
<1>5. Typed'
      BY <1>2 DEF Inv, Typed, Swapped
<1>6. OwnSound'
  <2>1. \A y \in Ctxs : f \in Owning(y) <=> g \in Owning(y)
        BY <1>1, <1>3 DEF Owning
  <2> QED  BY <1>1, <1>2, <1>3, <2>1, OwnPassed
<1>7. HookSound'
      BY <1>2, <1>3, HookKept
<1>8. UseSound' /\ TearSound' /\ OneWaiter' /\ OwedSound'
  <2>1. Heir(f, g)
        BY <1>1, <1>3 DEF Heir
  <2>2. owed' \subseteq owed /\ \A p \in owed' : p[1] \in wakeups'[p[2]]
        BY OwedStays
  <2> QED  BY <1>1, <1>2, <2>1, <2>2, CalmStep
<1> QED  BY <1>4, <1>5, <1>6, <1>7, <1>8 DEF Inv

(* The entry goes, and the detach is inside until it is out of the list. *)
LEMMA DetachTakenInv ==
    ASSUME Inv, NEW t \in Threads, At(t, "detach", "lock"), NEW w, w = Top(t).w, NEW c, c = Top(t).c, mu[w] = None,
           NEW e \in attached[w], e.c = c,
           attached' = [attached EXCEPT ![w] = @ \ {e}],
           mu' = [mu EXCEPT ![w] = t],
           stack' = GotoWith(t, [Top(t) EXCEPT !.at = "unregister", !.x = e.x]),
           UNCHANGED <<binding, hooked, made, mine, notified, wakeups, trigger, refs, closed, retired, freed, ctx, owed>>
    PROVE  Inv'
<1> PICK f, x : f = Top(t) /\ x = e.x
    OBVIOUS
<1>1. /\ stack[t] # <<>> /\ f \in FrameSet /\ f \in Frames /\ f.op = "detach" /\ f.at = "lock" /\ Fit(f) /\ f \in RawFrames
      /\ f.w = w /\ f.c = c /\ w \in WaitSetIds /\ c \in Conds /\ f.todo = {}
  <2>1. /\ stack[t] # <<>> /\ f \in FrameSet /\ f \in Frames /\ f.op = "detach" /\ f.at = "lock" /\ Fit(f) /\ f \in RawFrames
        BY AtTop DEF Inv, Typed
  <2> QED  BY <2>1 DEF Fit
<1>2. c \in made /\ w \in mine
      BY <1>1 DEF Inv, UseSound
<1>3. w \in made /\ w \notin closed /\ w \notin freed /\ ~Held(FreeW(w))
      BY <1>1, <1>2, MineHeld
<1>4. x \in Ctxs \cup {None} /\ attached \in [WaitSetIds -> SUBSET [c : Conds, x : Ctxs \cup {None}]]
      BY <1>1 DEF Inv, Typed
<1> DEFINE g == [f EXCEPT !.at = "unregister", !.x = x]
<1>5. /\ g \in RawFrames /\ g.op = "detach" /\ g.at = "unregister" /\ g.w = w /\ g.c = c /\ g.x = x /\ g.todo = {}
      /\ stack' = GotoWith(t, g)
  <2>1. "unregister" \in Ats
        BY DEF Ats
  <2>2. stack' = GotoWith(t, g)
        OBVIOUS
  <2>3. g \in RawFrames /\ g.op = f.op /\ g.at = "unregister" /\ g.w = f.w /\ g.c = f.c /\ g.x = x /\ g.todo = f.todo
        BY ONLY <1>1, <1>4, <2>1 DEF g, RawFrames
  <2> QED  BY <1>1, <2>2, <2>3
<1> HIDE DEF g
<1>6. g \in FrameSet /\ Swapped(t, {f}, {g}) /\ g \in Frames'
  <2>1. g \in FrameSet
        BY <1>1, <1>5 DEF FrameSet, Fit
  <2>2. Swapped(t, {f}, {g})
        BY <1>1, <1>5, <2>1, GotoWithGoes DEF Inv, Typed
  <2> QED  BY <2>1, <2>2 DEF Swapped
<1>7. EntryGone(w, e) /\ attached' \in [WaitSetIds -> SUBSET [c : Conds, x : Ctxs \cup {None}]]
  <2>1. attached'[w] = attached[w] \ {e} /\ \A v \in WaitSetIds : v # w => attached'[v] = attached[v]
        BY <1>1, <1>4
  <2> QED  BY <1>1, <1>4, <2>1 DEF EntryGone
<1>8. f \notin InsideOf(w) /\ g \in InsideOf(w) /\ Frames' \cap InsideOf(w) \subseteq {g} /\ Frames \cap InsideOf(w) = {}
  <2>1. f \notin InsideOf(w) /\ g \in InsideOf(w)
        BY <1>1, <1>5, <1>6 DEF InsideOf
  <2>2. Frames \cap InsideOf(w) = {}
        BY <1>1 DEF Inv, Mutex, Held
  <2> QED  BY <1>1, <1>6, <2>1, <2>2, InsideAlone
<1>9. Typed'
  <2>1. mu' \in [WaitSetIds -> Threads \cup {None}]
        BY <1>1 DEF Inv, Typed
  <2> QED  BY <1>6, <1>7, <2>1 DEF Inv, Typed, Swapped
<1>10. Mutex'
  <2>1. \A u \in WaitSetIds : f \notin InsideOf(u)
        BY <1>1 DEF InsideOf
  <2> QED  BY <1>1, <1>6, <1>8, <2>1, MutexEnter, WaitSetsAssumption DEF Inv
<1>11. AddingSound' /\ ScanSound'
  <2>1. \A h \in {g} : h.op # "wait" /\ h.op # "attach"
        BY <1>5
  <2> QED  BY <1>1, <1>6, <1>7, <1>8, <2>1, EntryChange DEF EntryGone
<1>12. OwnSound'
  <2>1. Takes(f, {g}, e)
    <3> SUFFICES ASSUME NEW y \in Ctxs
                 PROVE  /\ f \notin Owning(y) /\ (g \in Owning(y) <=> y = e.x)
        BY <1>5 DEF Takes, Single
    <3> QED  BY <1>1, <1>5, <1>6 DEF Owning
  <2> QED  BY <1>1, <1>6, <1>7, <2>1, OwnTaken
<1>13. HookSound'
  <2>1. \A v \in WaitSetIds : \A d \in attached'[v] : d \in attached[v]
        BY <1>7 DEF EntryGone
  <2>2. \A h \in {g} : h.op # "attach"
        BY <1>5
  <2> QED  BY <1>6, <2>1, <2>2, HookBut
<1>14. UseSound' /\ TearSound' /\ OneWaiter' /\ OwedSound'
  <2>1. Heir(f, g)
        BY <1>1, <1>5 DEF Heir
  <2>2. owed' \subseteq owed /\ \A p \in owed' : p[1] \in wakeups'[p[2]]
        BY OwedStays
  <2> QED  BY <1>1, <1>6, <2>1, <2>2, CalmStep
<1>15. /\ ReleaseSound' /\ EntriesApart' /\ FreeSound' /\ CountedC' /\ CountedW' /\ ListedFrom' /\ ListedTo'
  <2>1. Elsewhere({f}, {g}, w, c)
    <3>1. \A h \in {f} \cup {g} : /\ h \in FrameSet /\ h.op \in {"attach", "detach", "freeWaitSet"} /\ h.w = w
                                  /\ h.c = c \/ h.c = None
          BY <1>1, <1>5, <1>6
    <3> QED  BY <1>1, <1>5, <3>1, LevelElsewhere
  <2>2. Entry(w, c) /\ ~Entry(w, c)' /\ \A d \in attached[w] : d.c = c => d = e
    <3>1. \A d \in attached[w] : d.c = c => d = e
          BY <1>1 DEF Inv, EntriesApart
    <3> QED  BY <1>7, <3>1 DEF Entry, EntryGone
  <2>3. ListsElsewhere(w, c)
        BY <1>7 DEF ListsElsewhere, EntryGone
  <2>4. ~Held(Releasing(w, c)) /\ ~Held(Adding(w, c, "acquire"))
        BY <1>1, <1>8, <2>2 DEF Inv, ReleaseSound, Held, Adding, InsideOf
  <2>5. g \in Releasing(w, c) /\ g \in Removing(w, c)
        BY <1>5, <1>6 DEF Releasing, Removing
  <2>6. Once(Releasing(w, c))'
        BY <1>1, <1>6, <2>4, <2>5, NewHeld DEF Single, Inv, ReleaseSound
  <2>7. Attached(w, c) /\ Attached(w, c)' /\ Held(Removing(w, c))'
        BY <1>6, <2>2, <2>4, <2>5 DEF Attached, Held
  <2>8. ReleaseAt(w, c)' /\ ListedFromAt(w, c)' /\ ListedToAt(w, c)'
        BY <2>2, <2>6, <2>7 DEF ReleaseAt, ListedFromAt, ListedToAt
  <2>9. CountAt(w, c)
        BY <2>7 DEF CountAt
  <2>10. FreedAt(w, c)
    <3>1. c \in freed <=> refs[c] = 0
          BY <1>1, <1>2 DEF Inv, FreeSound
    <3> QED  BY <1>3, <3>1 DEF FreedAt
  <2>11. \A a, d \in attached'[w] : a.c = c /\ d.c = c => a = d
        BY <2>2 DEF Entry
  <2> QED  BY <1>1, <1>2, <1>6, <1>9, <2>1, <2>3, <2>8, <2>9, <2>10, <2>11, AttachmentStep
<1> QED  BY <1>9, <1>10, <1>11, <1>12, <1>13, <1>14, <1>15 DEF Inv

LEMMA DetachRemoveInv ==
    ASSUME Inv, NEW t \in Threads, DetachRemove(t)
    PROVE  Inv'
<1> PICK w, c : w = Top(t).w /\ c = Top(t).c
    OBVIOUS
<1>1. /\ At(t, "detach", "lock") /\ mu[w] = None
      /\ UNCHANGED <<binding, hooked, made, mine, notified, wakeups, trigger, refs, closed, retired, freed, ctx, owed>>
      BY DEF DetachRemove
<1>2. \/ stack' = Goto(t, "return") /\ UNCHANGED <<attached, mu>>
      \/ \E e \in attached[w] : /\ e.c = c /\ attached' = [attached EXCEPT ![w] = @ \ {e}] /\ mu' = [mu EXCEPT ![w] = t]
                                /\ stack' = GotoWith(t, [Top(t) EXCEPT !.at = "unregister", !.x = e.x])
      BY DEF DetachRemove
<1>3. CASE stack' = Goto(t, "return") /\ UNCHANGED <<attached, mu>>
      BY <1>1, <1>3, DetachNothingInv
<1>4. CASE \E e \in attached[w] : /\ e.c = c /\ attached' = [attached EXCEPT ![w] = @ \ {e}] /\ mu' = [mu EXCEPT ![w] = t]
                                  /\ stack' = GotoWith(t, [Top(t) EXCEPT !.at = "unregister", !.x = e.x])
      BY <1>1, <1>4, DetachTakenInv
<1> QED  BY <1>2, <1>3, <1>4

-------------------------------------------------------------------------------
(* The free of a wait set.                                                     *)

(* One more entry goes, and is taken out of its condition's list. *)
LEMMA FreeEntryInv ==
    ASSUME Inv, NEW t \in Threads, At(t, "freeWaitSet", "next"), NEW w, w = Top(t).w, NEW e \in attached[w], NEW c, c = e.c,
           wakeups' = [wakeups EXCEPT ![c] = @ \ {w}],
           attached' = [attached EXCEPT ![w] = @ \ {e}],
           stack' = GotoWith(t, [Top(t) EXCEPT !.at = "release", !.c = c, !.x = e.x]),
           owed' = owed \ {<<w, c>>},
           UNCHANGED <<binding, hooked, made, mine, mu, notified, trigger, refs, closed, retired, freed, ctx>>
    PROVE  Inv'
<1> PICK f, x : f = Top(t) /\ x = e.x
    OBVIOUS
<1>1. /\ stack[t] # <<>> /\ f \in FrameSet /\ f \in Frames /\ f.op = "freeWaitSet" /\ f.at = "next" /\ Fit(f) /\ f \in RawFrames
      /\ f.w = w /\ w \in WaitSetIds /\ f.c = None /\ f.x = None /\ f.todo = {}
  <2>1. /\ stack[t] # <<>> /\ f \in FrameSet /\ f \in Frames /\ f.op = "freeWaitSet" /\ f.at = "next" /\ Fit(f) /\ f \in RawFrames
        BY AtTop DEF Inv, Typed
  <2> QED  BY <2>1 DEF Fit
<1>2. /\ c \in Conds /\ x \in Ctxs \cup {None} /\ attached \in [WaitSetIds -> SUBSET [c : Conds, x : Ctxs \cup {None}]]
      BY <1>1 DEF Inv, Typed
<1>3. f \in FreeW(w) /\ (\A h \in Frames : h.w = w => h.op \notin {"attach", "detach", "wait"}) /\ Frames \cap InsideOf(w) = {}
  <2>1. f \in FreeW(w) /\ Held(FreeW(w))
        BY <1>1 DEF FreeW, Held
  <2> QED  BY <1>1, <2>1, FreeAlone
<1> DEFINE g == [f EXCEPT !.at = "release", !.c = c, !.x = x]
<1>5. /\ g \in RawFrames /\ g.op = "freeWaitSet" /\ g.at = "release" /\ g.w = w /\ g.c = c /\ g.x = x /\ g.todo = {}
      /\ stack' = GotoWith(t, g)
  <2>1. "release" \in Ats
        BY DEF Ats
  <2>2. stack' = GotoWith(t, g)
        OBVIOUS
  <2>3. g \in RawFrames /\ g.op = f.op /\ g.at = "release" /\ g.w = f.w /\ g.c = c /\ g.x = x /\ g.todo = f.todo
        BY ONLY <1>1, <1>2, <2>1 DEF g, RawFrames
  <2> QED  BY <1>1, <2>2, <2>3
<1> HIDE DEF g
<1>6. g \in FrameSet /\ Swapped(t, {f}, {g}) /\ g \in Frames'
  <2>1. g \in FrameSet
        BY <1>1, <1>2, <1>5 DEF FrameSet, Fit
  <2>2. Swapped(t, {f}, {g})
        BY <1>1, <1>5, <2>1, GotoWithGoes DEF Inv, Typed
  <2> QED  BY <2>1, <2>2 DEF Swapped
<1>7. EntryGone(w, e) /\ attached' \in [WaitSetIds -> SUBSET [c : Conds, x : Ctxs \cup {None}]]
  <2>1. attached'[w] = attached[w] \ {e} /\ \A v \in WaitSetIds : v # w => attached'[v] = attached[v]
        BY <1>1, <1>2
  <2> QED  BY <1>1, <1>2, <2>1 DEF EntryGone
<1>8. /\ \A v \in WaitSetIds, d \in Conds : v \in wakeups'[d] <=> v \in wakeups[d] /\ (v # w \/ d # c)
      /\ wakeups' \in [Conds -> SUBSET WaitSetIds]
      BY <1>1, <1>2 DEF Inv, Typed
<1>9. Typed'
  <2>1. owed' \subseteq WaitSetIds \X Conds
        BY DEF Inv, Typed
  <2> QED  BY <1>6, <1>7, <1>8, <2>1 DEF Inv, Typed, Swapped
<1>10. Mutex'
  <2>1. \A u \in WaitSetIds : f \notin InsideOf(u) /\ {g} \cap InsideOf(u) = {}
        BY <1>1, <1>5 DEF InsideOf
  <2> QED  BY <1>1, <1>6, <2>1, MutexKept DEF Inv
<1>11. AddingSound' /\ ScanSound'
  <2>1. \A h \in {g} : h.op # "wait" /\ h.op # "attach"
        BY <1>5
  <2>2. Frames' \cap InsideOf(w) \subseteq {g}
        BY <1>3, <1>6 DEF Swapped
  <2> QED  BY <1>1, <1>6, <1>7, <2>1, <2>2, EntryChange DEF EntryGone
<1>12. OwnSound'
  <2>1. Takes(f, {g}, e)
    <3> SUFFICES ASSUME NEW y \in Ctxs
                 PROVE  /\ f \notin Owning(y) /\ (g \in Owning(y) <=> y = e.x)
        BY <1>5 DEF Takes, Single
    <3> QED  BY <1>1, <1>5, <1>6 DEF Owning
  <2> QED  BY <1>1, <1>6, <1>7, <2>1, OwnTaken
<1>13. HookSound'
  <2>1. \A v \in WaitSetIds : \A d \in attached'[v] : d \in attached[v]
        BY <1>7 DEF EntryGone
  <2>2. \A h \in {g} : h.op # "attach"
        BY <1>5
  <2> QED  BY <1>6, <2>1, <2>2, HookBut
<1>14. UseSound' /\ TearSound' /\ OneWaiter' /\ OwedSound'
  <2>1. Heir(f, g)
        BY <1>1, <1>5 DEF Heir
  <2>2. owed' \subseteq owed
        OBVIOUS
  <2>3. ASSUME NEW p \in owed' PROVE p[1] \in wakeups'[p[2]]
    <3>1. p \in WaitSetIds \X Conds /\ p # <<w, c>> /\ p[1] \in wakeups[p[2]]
          BY <2>3 DEF Inv, Typed, OwedSound
    <3>2. p[1] \in WaitSetIds /\ p[2] \in Conds /\ (p[1] # w \/ p[2] # c)
          BY <3>1
    <3> QED  BY <1>8, <3>1, <3>2
  <2> QED  BY <1>1, <1>6, <2>1, <2>2, <2>3, CalmStep
<1>15. /\ ReleaseSound' /\ EntriesApart' /\ FreeSound' /\ CountedC' /\ CountedW' /\ ListedFrom' /\ ListedTo'
  <2>1. Elsewhere({f}, {g}, w, c)
    <3>1. \A h \in {f} \cup {g} : /\ h \in FrameSet /\ h.op \in {"attach", "detach", "freeWaitSet"} /\ h.w = w
                                  /\ h.c = c \/ h.c = None
          BY <1>1, <1>5, <1>6
    <3> QED  BY <1>1, <1>2, <1>5, <3>1, LevelElsewhere
  <2>2. Entry(w, c) /\ ~Entry(w, c)' /\ \A d \in attached[w] : d.c = c => d = e
    <3>1. \A d \in attached[w] : d.c = c => d = e
          BY <1>1 DEF Inv, EntriesApart
    <3> QED  BY <1>7, <3>1 DEF Entry, EntryGone
  <2>3. ListsElsewhere(w, c)
        BY <1>7, <1>8 DEF ListsElsewhere, EntryGone
  <2>4. ~Held(Releasing(w, c)) /\ ~Held(Adding(w, c, "acquire"))
        BY <1>1, <1>2, <1>3, <2>2 DEF Inv, ReleaseSound, Held, Adding
  <2>5. g \in Releasing(w, c)
        BY <1>5, <1>6 DEF Releasing
  <2>6. Once(Releasing(w, c))'
        BY <1>1, <1>2, <1>6, <2>4, <2>5, NewHeld DEF Single, Inv, ReleaseSound
  <2>7. Attached(w, c) /\ Attached(w, c)'
        BY <1>6, <2>2, <2>4, <2>5 DEF Attached, Held
  <2>12. w \notin wakeups'[c]
        BY <1>1, <1>2, <1>8
  <2>8. ReleaseAt(w, c)' /\ ListedFromAt(w, c)' /\ ListedToAt(w, c)'
        BY <2>2, <2>6, <2>12 DEF ReleaseAt, ListedFromAt, ListedToAt
  <2>9. CountAt(w, c)
        BY <2>7 DEF CountAt
  <2>13. c \in made /\ (c \in freed <=> refs[c] = 0)
    <3>1. c \in made
          BY <1>1, <1>2, <2>7, RefHeld
    <3> QED  BY <1>2, <3>1 DEF Inv, FreeSound
  <2>10. FreedAt(w, c)
        BY <1>7, <2>13 DEF FreedAt, EntryGone
  <2>11. \A a, d \in attached'[w] : a.c = c /\ d.c = c => a = d
        BY <2>2 DEF Entry
  <2> QED  BY <1>1, <1>2, <1>6, <1>9, <2>1, <2>3, <2>8, <2>9, <2>10, <2>11, <2>12, <2>13, AttachmentStep
<1> QED  BY <1>9, <1>10, <1>11, <1>12, <1>13, <1>14, <1>15 DEF Inv

(* No entry is left: the memory goes. *)
LEMMA FreeDoneInv ==
    ASSUME Inv, NEW t \in Threads, At(t, "freeWaitSet", "next"), NEW w, w = Top(t).w, attached[w] = {},
           freed' = freed \cup {w}, stack' = Return(t),
           UNCHANGED <<binding, hooked, made, mine, attached, mu, notified, wakeups, trigger, refs, closed, retired, ctx, owed>>
    PROVE  Inv'
<1> PICK f, N : f = Top(t) /\ N = {}
    OBVIOUS
<1>1. /\ stack[t] # <<>> /\ f \in FrameSet /\ f \in Frames /\ f.op = "freeWaitSet" /\ f.at = "next" /\ Fit(f) /\ f \in RawFrames
      /\ f.w = w /\ w \in WaitSetIds /\ f.c = None /\ f.x = None /\ f.todo = {}
  <2>1. /\ stack[t] # <<>> /\ f \in FrameSet /\ f \in Frames /\ f.op = "freeWaitSet" /\ f.at = "next" /\ Fit(f) /\ f \in RawFrames
        BY AtTop DEF Inv, Typed
  <2> QED  BY <2>1 DEF Fit
<1>2. Swapped(t, {f}, N) /\ Frames' \subseteq Frames
  <2>1. Swapped(t, {f}, N)
        BY <1>1, ReturnGoes DEF Inv, Typed
  <2> QED  BY <2>1 DEF Swapped
<1>3. f \in FreeW(w) /\ w \in made /\ refs[w] = 0 /\ w \notin freed /\ w \notin Conds
  <2>1. f \in FreeW(w) /\ Held(FreeW(w))
        BY <1>1 DEF FreeW, Held
  <2> QED  BY <1>1, <2>1, WaitSetsAssumption DEF Inv, FreeSound, WaitSetsAssumption
<1>4. Typed'
  <2>1. freed' \subseteq Objects
        BY <1>1 DEF Inv, Typed, Objects
  <2> QED  BY <1>2, <2>1 DEF Inv, Typed, Swapped
<1>5. Mutex'
  <2>1. \A u \in WaitSetIds : f \notin InsideOf(u) /\ N \cap InsideOf(u) = {}
        BY <1>1 DEF InsideOf
  <2> QED  BY <1>1, <1>2, <2>1, MutexKept DEF Inv
<1>6. ScanSound'
      BY <1>2, ScanKept
<1>7. AddingSound'
      BY <1>2 DEF Inv, AddingSound
<1>8. OwnSound'
  <2>1. \A y \in Ctxs : {f} \cap Owning(y) = {} /\ N \cap Owning(y) = {}
        BY <1>1 DEF Owning
  <2> QED  BY <1>2, <2>1, OwnKept DEF Even, Single
<1>9. HookSound'
      BY <1>2, HookKept
<1>10. UseSound' /\ TearSound' /\ OneWaiter' /\ OwedSound'
  <2>1. owed' \subseteq owed /\ \A p \in owed' : p[1] \in wakeups'[p[2]]
        BY OwedStays
  <2> QED  BY <1>1, <1>2, <2>1, CalmSteps
<1>11. ASSUME NEW v \in WaitSetIds, NEW d \in Conds
       PROVE  /\ Held(Releasing(v, d))' <=> Held(Releasing(v, d))
              /\ Once(Releasing(v, d))'
              /\ Held(Pinning(d, v))' <=> Held(Pinning(d, v))
              /\ Held(Telling(v, d))' <=> Held(Telling(v, d))
              /\ Held(Removing(v, d))' <=> Held(Removing(v, d))
              /\ Held(Adding(v, d, "acquire"))' <=> Held(Adding(v, d, "acquire"))
              /\ Held(Adding(v, d, "register"))' <=> Held(Adding(v, d, "register"))
              /\ Held(DestroyW(v))' <=> Held(DestroyW(v))
              /\ Held(Draining(d))' <=> Held(Draining(d))
              /\ Held(DestroyG(d))' <=> Held(DestroyG(d))
  <2>1. /\ f \notin Releasing(v, d) /\ f \notin Pinning(d, v) /\ f \notin Telling(v, d) /\ f \notin Removing(v, d)
        /\ f \notin Adding(v, d, "acquire") /\ f \notin Adding(v, d, "register")
        /\ f \notin DestroyW(v) /\ f \notin Draining(d) /\ f \notin DestroyG(d)
        BY <1>1 DEF Releasing, Pinning, Telling, Removing, Adding, DestroyW, Draining, DestroyG
  <2>2. ASSUME NEW S, f \notin S PROVE (Held(S)' <=> Held(S)) /\ (Once(S) => Once(S)')
    <3>1. Even({f}, N, S) /\ Single(N, S)
          BY <2>2 DEF Even, Single
    <3> QED  BY <1>2, <3>1, EvenHeld, EvenOnce
  <2>3. Once(Releasing(v, d))
        BY DEF Inv, ReleaseSound
  <2> QED  BY <2>1, <2>2, <2>3
<1>12. ReleaseSound' /\ EntriesApart'
      BY <1>11 DEF Inv, ReleaseSound, EntriesApart, Entry
<1>13. ASSUME NEW v \in WaitSetIds
       PROVE  /\ v = w => ~Held(FreeW(v))' /\ Once(FreeW(v))'
              /\ v # w => (Held(FreeW(v))' <=> Held(FreeW(v))) /\ Once(FreeW(v))'
  <2>0. Once(FreeW(v))
        BY DEF Inv, FreeSound
  <2>1. CASE v = w
    <3>1. {f} \cap FreeW(v) # {} /\ N \cap FreeW(v) = {}
          BY <1>3, <2>1
    <3> QED  BY <1>2, <2>0, <2>1, <3>1, GoneHeld
  <2>2. CASE v # w
    <3>1. Even({f}, N, FreeW(v)) /\ Single(N, FreeW(v))
          BY <1>1, <2>2 DEF Even, Single, FreeW
    <3> QED  BY <1>2, <2>0, <2>2, <3>1, EvenHeld, EvenOnce
  <2> QED  BY <2>1, <2>2
<1>14. FreeSound'
  <2>1. \A o \in Objects : o \notin made' => refs'[o] = 0
        BY DEF Inv, FreeSound
  <2>2. \A d \in Conds : d \in freed' <=> d \in made' /\ refs'[d] = 0
        BY <1>3 DEF Inv, FreeSound
  <2>3. ASSUME NEW v \in WaitSetIds
        PROVE  /\ Once(FreeW(v))'
               /\ Held(FreeW(v))' => v \in made' /\ refs'[v] = 0 /\ v \notin freed'
               /\ v \in freed' => v \in made' /\ refs'[v] = 0
               /\ v \in made' /\ refs'[v] = 0 => v \in freed' \/ Held(FreeW(v))'
               /\ v \in freed' \/ v \notin made' => attached'[v] = {}
    <3>1. CASE v = w
          BY <1>3, <1>13, <3>1
    <3>2. CASE v # w
          BY <1>13, <3>2 DEF Inv, FreeSound
    <3> QED  BY <3>1, <3>2
  <2> QED  BY <2>1, <2>2, <2>3 DEF FreeSound
<1>15. CountedC' /\ CountedW'
  <2>1. \A v \in WaitSetIds, d \in Conds : /\ Attached(v, d)' <=> Attached(v, d)
                                           /\ Held(Pinning(d, v))' <=> Held(Pinning(d, v))
        BY <1>11 DEF Attached, Entry
  <2>2. \A v : Held(DestroyW(v))' <=> Held(DestroyW(v))
    <3>1. \A v : Even({f}, N, DestroyW(v))
          BY <1>1 DEF Even, DestroyW
    <3> QED  BY <1>2, <3>1, EvenHeld
  <2>3. \A d : Held(DestroyG(d))' <=> Held(DestroyG(d))
    <3>1. \A d : Even({f}, N, DestroyG(d))
          BY <1>1 DEF Even, DestroyG
    <3> QED  BY <1>2, <3>1, EvenHeld
  <2>4. \A o \in Objects : OwnerRef(o)' <=> OwnerRef(o)
        BY <2>2, <2>3 DEF OwnerRef
  <2> QED  BY <2>1, <2>4, CountsKept
<1>16. ListedFrom'
  <2>1. ListedFrom
        BY DEF Inv
  <2>2. wakeups \in [Conds -> SUBSET WaitSetIds]
        BY DEF Inv, Typed
  <2> QED  BY <1>11, <2>1, <2>2, ListsMean, ListsMeanNext DEF Entry
<1>17. ListedTo'
  <2>1. ListedTo
        BY DEF Inv
  <2>2. SUFFICES ASSUME NEW v \in WaitSetIds, NEW d \in attached[v]
                 PROVE  \/ v \in wakeups[d.c] \/ Held(Adding(v, d.c, "acquire"))' \/ Held(Adding(v, d.c, "register"))'
                        \/ Held(FreeW(v))' \/ Held(Telling(v, d.c))'
        BY ListsMeanNext
  <2>3. v # w /\ d.c \in Conds
        BY DEF Inv, Typed
  <2> QED  BY <1>11, <1>13, <2>1, <2>3, ListsMean
<1> QED  BY <1>4, <1>5, <1>6, <1>7, <1>8, <1>9, <1>10, <1>12, <1>14, <1>15, <1>16, <1>17 DEF Inv

LEMMA FreeUnregisterInv ==
    ASSUME Inv, NEW t \in Threads, FreeUnregister(t)
    PROVE  Inv'
<1> PICK w : w = Top(t).w
    OBVIOUS
<1>1. At(t, "freeWaitSet", "next") /\ UNCHANGED <<binding, hooked, made, mine, mu, notified, trigger, refs, closed, retired, ctx>>
      BY DEF FreeUnregister
<1>2. CASE attached[w] = {} /\ freed' = freed \cup {w} /\ stack' = Return(t) /\ UNCHANGED <<wakeups, attached, owed>>
      BY <1>1, <1>2, FreeDoneInv
<1>3. ASSUME NEW e \in attached[w], wakeups' = [wakeups EXCEPT ![e.c] = @ \ {w}],
             attached' = [attached EXCEPT ![w] = @ \ {e}],
             stack' = GotoWith(t, [Top(t) EXCEPT !.at = "release", !.c = e.c, !.x = e.x]),
             owed' = owed \ {<<w, e.c>>}, UNCHANGED freed
      PROVE  Inv'
      BY <1>1, <1>3, FreeEntryInv
<1> QED  BY <1>2, <1>3 DEF FreeUnregister

(* The hook of a context fires, and the thread goes on with g.  It may have    *)
(* been the last to keep the condition.                                        *)
LEMMA FireStep ==
    ASSUME Inv, NEW t \in Threads, stack[t] # <<>>, NEW f, f = Top(t), f \in FrameSet, f \in Frames, f.at = "fire",
           f.op \in {"freeWaitSet", "destroyGuard"}, NEW c \in Conds, f.c = c, NEW w \in WaitSetIds, f.w = w,
           NEW g \in FrameSet, g.op = f.op, g.w = w, g.todo = f.todo,
           f.op = "freeWaitSet" => g.at = "next", f.op = "destroyGuard" => g.at = "unpin" /\ g.c = c,
           FireRelease(t, f.x, GotoWith(t, g)),
           UNCHANGED <<binding, hooked, made, mine, attached, mu, notified, wakeups, trigger, refs, closed, retired, freed, owed>>
    PROVE  Inv'
<1> PICK x, D : x = f.x /\ D = Destroyer(c)
    OBVIOUS
<1>1. /\ D \in FrameSet /\ D.at = "close" /\ D.todo = {} /\ D.x = None /\ D.op = "destroyGuard" /\ D.c = c /\ D.w = None
      /\ D # g /\ x \in Ctxs \cup {None}
  <2>1. /\ D \in FrameSet /\ D.at = "close" /\ D.todo = {} /\ D.x = None /\ D.op = "destroyGuard" /\ D.c = c /\ D.w = None
        BY DestroyerFrame DEF Objects
  <2> QED  BY <2>1 DEF FrameSet, RawFrames
<1> PICK B \in BOOLEAN : B <=> x # None /\ Orphaned(c)
  <2>1. (x # None /\ Orphaned(c)) \in BOOLEAN
        OBVIOUS
  <2> QED  BY <2>1
<1> PICK M, N : M = {g} /\ N = (IF B THEN M \cup {D} ELSE M)
    OBVIOUS
<1>2. x # None => /\ x \in Ctxs /\ f \in Owning(x) /\ ctx[x].live /\ ctx[x].c = c /\ c \in made
                  /\ ctx \in [Ctxs -> [c : Conds \cup {None}, live : BOOLEAN]] /\ c # None
  <2> SUFFICES ASSUME x # None
               PROVE /\ x \in Ctxs /\ f \in Owning(x) /\ ctx[x].live /\ ctx[x].c = c /\ c \in made
                     /\ ctx \in [Ctxs -> [c : Conds \cup {None}, live : BOOLEAN]] /\ c # None
      OBVIOUS
  <2>1. x \in Ctxs /\ f \in Owning(x)
        BY <1>1 DEF Owning
  <2>2. ctx[x].live /\ ctx[x].c = c
        BY <2>1 DEF Inv, OwnSound, OwnedOnce
  <2>3. c # None
        BY WaitSetsAssumption DEF WaitSetsAssumption
  <2> QED  BY <2>1, <2>2, <2>3 DEF Inv, Typed
<1>3. Swapped(t, {f}, N)
  <2>1. CASE x = None
    <3>1. stack' = GotoWith(t, g)
          BY <2>1 DEF FireRelease
    <3> QED  BY <2>1, <3>1, GotoWithGoes DEF Inv, Typed
  <2>2. CASE x # None
    <3>1. stack' = AfterDrop(t, c, mine', ctx', GotoWith(t, g))
          BY <1>2, <2>2 DEF FireRelease
    <3>2. /\ Orphaned(c) => Swapped(t, {f}, {g, D})
          /\ ~Orphaned(c) => Swapped(t, {f}, {g})
          BY <1>1, <3>1, GotoDropGoes DEF Inv, Typed
    <3>3. M \cup {D} = {g, D}
          OBVIOUS
    <3> QED  BY <2>2, <3>2, <3>3
  <2> QED  BY <2>1, <2>2
<1>4. /\ g \in N /\ (\A h \in N : h = g \/ (h = D /\ B)) /\ (B => D \in N)
      /\ Frames' \subseteq Frames \cup N
      BY <1>3 DEF Swapped
<1>5. B => binding = "cpp" /\ c \notin closed /\ Unheld(c)' /\ f.op = "freeWaitSet"
  <2>1. f.op = "destroyGuard" => c \in closed
        BY DEF Inv, TearSound
  <2> QED  BY <2>1 DEF Orphaned
<1>6. /\ x = None => ctx' = ctx
      /\ x # None => ~ctx'[x].live /\ ctx'[x].c = c /\ \A y \in Ctxs : y # x => ctx'[y] = ctx[y]
      /\ ConditionsKept
  <2>1. CASE x = None
        BY <2>1 DEF FireRelease, Inv, Typed, ConditionsKept
  <2>2. CASE x # None
    <3>1. ctx' = [ctx EXCEPT ![x].live = FALSE]
          BY <2>2 DEF FireRelease
    <3>2. /\ ~ctx'[x].live /\ ctx'[x].c = c /\ \A y \in Ctxs : y # x => ctx'[y] = ctx[y]
          /\ ctx' \in [Ctxs -> [c : Conds \cup {None}, live : BOOLEAN]]
      <4>1. x \in Ctxs /\ ctx[x].c = c /\ ctx \in [Ctxs -> [c : Conds \cup {None}, live : BOOLEAN]]
            BY <1>2, <2>2
      <4> QED  BY ONLY <3>1, <4>1
    <3> QED  BY <1>2, <2>2, <3>2 DEF ConditionsKept
  <2> QED  BY <2>1, <2>2
<1>7. Typed'
      BY <1>3, <1>6 DEF Inv, Typed, Swapped, ConditionsKept
<1>8. Mutex'
  <2>1. \A u \in WaitSetIds : f \notin InsideOf(u) /\ N \cap InsideOf(u) = {}
        BY <1>1, <1>4 DEF InsideOf
  <2> QED  BY <1>3, <2>1, MutexKept DEF Inv
<1>9. ScanSound'
  <2>1. \A h \in N : h.op # "wait"
        BY <1>1, <1>4
  <2> QED  BY <1>3, <2>1, ScanKept
<1>10. /\ ReleaseSound' /\ EntriesApart' /\ FreeSound' /\ CountedC' /\ CountedW' /\ ListedFrom' /\ ListedTo'
       /\ AddingSound'
  <2>1. ASSUME NEW v \in WaitSetIds, NEW d \in Conds PROVE LevelAt({f}, N, v, d)
    <3>0. v # None
          BY WaitSetsAssumption DEF WaitSetsAssumption
    <3>1. \A h \in {f} \cup N : /\ h \notin Releasing(v, d) /\ h \notin Removing(v, d)
                                /\ h \notin Adding(v, d, "acquire") /\ h \notin Adding(v, d, "register")
          BY <1>1, <1>4 DEF Releasing, Removing, Adding
    <3>2. D \notin Pinning(d, v) /\ D \notin Telling(v, d)
          BY <1>1, <3>0 DEF Pinning, Telling
    <3>3. (g \in Pinning(d, v) <=> f \in Pinning(d, v)) /\ (g \in Telling(v, d) <=> f \in Telling(v, d))
          BY DEF Pinning, Telling
    <3> QED  BY <1>4, <3>1, <3>2, <3>3 DEF LevelAt, Even, Single
  <2>2. ASSUME NEW v \in WaitSetIds PROVE LevelW({f}, N, v)
    <3>1. (g \in FreeW(v) <=> f \in FreeW(v)) /\ D \notin FreeW(v)
          BY <1>1 DEF FreeW
    <3>2. f \notin DestroyW(v) /\ g \notin DestroyW(v) /\ D \notin DestroyW(v)
          BY <1>1 DEF DestroyW
    <3> QED  BY <1>4, <3>1, <3>2 DEF LevelW, Even, Single
  <2>3. ASSUME NEW d \in Conds PROVE LevelC({f}, N, d)
    <3>1. f \notin Draining(d) /\ g \notin Draining(d) /\ D \notin Draining(d)
          BY <1>1 DEF Draining
    <3>2. g \in DestroyG(d) <=> f \in DestroyG(d)
          BY DEF DestroyG
    <3>3. B /\ d \in closed => D \notin DestroyG(d)
          BY <1>1, <1>5 DEF DestroyG
    <3> QED  BY <1>4, <3>1, <3>2, <3>3 DEF LevelC, Even
  <2>4. Level({f}, N)
        BY <2>1, <2>2, <2>3 DEF Level
  <2>5. \A h \in N : h.op # "attach"
        BY <1>1, <1>4
  <2> QED  BY <1>3, <2>4, <2>5, ListsKept
<1>11. OwnSound'
  <2>1. \A y \in Ctxs : N \cap Owning(y) = {}
    <3>1. \A y \in Ctxs : g \notin Owning(y) /\ D \notin Owning(y)
          BY <1>1 DEF Owning
    <3> QED  BY <1>4, <3>1
  <2>2. CASE x = None
    <3>1. \A y \in Ctxs : {f} \cap Owning(y) = {}
          BY <2>2, WaitSetsAssumption, Zenon DEF Owning, WaitSetsAssumption
    <3> QED  BY <1>3, <1>6, <2>1, <2>2, <3>1, OwnKept DEF Even, Single
  <2>3. CASE x # None
    <3>1. \A y \in Ctxs : N \cap Owning(y) = {} /\ (y # x => {f} \cap Owning(y) = {})
          BY <2>1 DEF Owning
    <3>2. {f} \cap Owning(x) # {} /\ x \in Ctxs
          BY <1>2, <2>3
    <3> QED  BY <1>3, <1>6, <2>3, <3>1, <3>2, OwnFired
  <2> QED  BY <2>2, <2>3
<1>12. HookSound'
  <2>1. \A h \in N : h.op # "attach"
        BY <1>1, <1>4
  <2> QED  BY <1>3, <2>1, HookKept
<1>13. OneWaiter' /\ OwedSound'
  <2>1. \A h \in {f} \cup N : h.op # "wait" /\ h.op # "set"
        BY <1>1, <1>4
  <2>2. \A v \in WaitSetIds : {f} \cap WaitOn(v) = {} /\ N \cap WaitOn(v) = {}
        BY <2>1 DEF WaitOn
  <2>3. owed' \subseteq owed /\ \A p \in owed' : p[1] \in wakeups'[p[2]]
        BY OwedStays
  <2> QED  BY <1>3, <2>1, <2>2, <2>3, OneWaiterKept, OwedKept DEF Even, Single
<1>14. CASE x = None
  <2>1. Heir(f, g) /\ N = {g}
        BY <1>1, <1>4, <1>14 DEF Heir
  <2>2. owed' \subseteq owed /\ \A p \in owed' : p[1] \in wakeups'[p[2]]
        BY OwedStays
  <2>3. UseSound' /\ TearSound'
        BY <1>3, <1>6, <1>14, <2>1, <2>2, CalmStep
  <2> QED  BY <1>7, <1>8, <1>9, <1>10, <1>11, <1>12, <1>13, <2>3 DEF Inv
<1>15. CASE x # None
  <2>1. ~Unheld(c) /\ c \in made /\ (binding = "cpp" => ~Destroying(c))
    <3>1. ~Unheld(c) /\ c \in made
          BY <1>2, <1>15 DEF Unheld
    <3> QED  BY <3>1 DEF Inv, TearSound
  <2>2. TearSound' /\ \A d \in Conds : Destroying(d)' => Destroying(d) \/ (d = c /\ B)
    <3>1. \A h \in M : TearOf(h)'
      <4>1. TearOf(f)
            BY DEF Inv, TearSound, TearOf
      <4> QED  BY <4>1 DEF TearOf
    <3>2. \A d \in Conds : Even({f}, M, DestroyG(d)) /\ Single(M, DestroyG(d))
      <4>1. \A d \in Conds : f \in DestroyG(d) <=> g \in DestroyG(d)
            BY DEF DestroyG
      <4> QED  BY <4>1 DEF Even, Single
    <3>3. \A v \in WaitSetIds : Even({f}, M, DestroyW(v)) /\ Single(M, DestroyW(v)) /\ (v \in mine' <=> v \in mine)
          BY DEF Even, Single, DestroyW
    <3>4. B => c \notin mine' /\ ~Destroying(c) /\ {f} \cap DestroyG(c) = {}
          BY <1>5, <2>1 DEF Unheld, DestroyG
    <3>5. binding = "cpp" => IF B THEN Unheld(c)' ELSE (Unheld(c)' <=> Destroying(c))
          BY <1>5, <1>15, <2>1 DEF Orphaned, Destroying
    <3>6. ASSUME NEW d \in Conds \ {c} PROVE Unheld(d)' <=> Unheld(d)
      <4>1. {f} \cap Keeping(d) = {} /\ N \cap Keeping(d) = {}
            BY <1>1, <1>4 DEF Keeping
      <4>2. Held(Keeping(d))' <=> Held(Keeping(d))
            BY <1>3, <4>1, EvenHeld DEF Even
      <4> QED  BY <1>2, <1>6, <1>15, <4>2 DEF Unheld
    <3>7. N = (IF B THEN M \cup {Destroyer(c)} ELSE M) /\ mine' \subseteq mine
          OBVIOUS
    <3> QED  BY <1>3, <2>1, <3>1, <3>2, <3>3, <3>4, <3>5, <3>6, <3>7, DropTear
  <2>3. UseSound'
    <3>1. \A h \in N : UseOf(h) /\ (h.op = "attach" => h.c \in Conds)
          BY <1>1, <1>4 DEF UseOf
    <3>2. \A h \in Frames' : /\ h.op = "set" => h.c \in mine'
                             /\ h.op \in {"attach", "detach", "wait"} => h.w \in mine'
          BY <1>1, <1>4 DEF Inv, UseSound
    <3>3. (B /\ binding = "cpp" => Unheld(c)') /\ ~(B /\ binding = "java")
          BY <1>5
    <3>4. HookSound' /\ OwnSound' /\ AddingSound' /\ Typed'
          BY <1>7, <1>10, <1>11, <1>12
    <3>5. \A d \in Conds : Destroying(d)' => Destroying(d) \/ (d = c /\ B)
          BY <2>2
    <3> QED  BY <1>3, <3>1, <3>2, <3>3, <3>4, <3>5, UseDropped
  <2> QED  BY <1>7, <1>8, <1>9, <1>10, <1>11, <1>12, <1>13, <2>2, <2>3 DEF Inv
<1> QED  BY <1>14, <1>15

LEMMA FreeFireInv ==
    ASSUME Inv, NEW t \in Threads, FreeFire(t)
    PROVE  Inv'
<1> PICK f, w, c, x : f = Top(t) /\ w = Top(t).w /\ c = Top(t).c /\ x = Top(t).x
    OBVIOUS
<1>1. /\ stack[t] # <<>> /\ f \in FrameSet /\ f \in Frames /\ f.op = "freeWaitSet" /\ f.at = "fire" /\ Fit(f) /\ f \in RawFrames
      /\ f.w = w /\ f.c = c /\ f.x = x /\ w \in WaitSetIds /\ c \in Conds /\ f.todo = {}
  <2>1. At(t, "freeWaitSet", "fire")
        BY DEF FreeFire
  <2>2. /\ stack[t] # <<>> /\ f \in FrameSet /\ f \in Frames /\ f.op = "freeWaitSet" /\ f.at = "fire" /\ Fit(f) /\ f \in RawFrames
        BY <2>1, AtTop DEF Inv, Typed
  <2> QED  BY <2>2 DEF Fit
<1> DEFINE g == [f EXCEPT !.at = "next", !.c = None, !.x = None]
<1>2. FireRelease(t, x, GotoWith(t, g)) /\ UNCHANGED <<binding, hooked, made, mine, attached, mu, notified, wakeups, trigger, refs, closed, retired, freed, owed>>
      BY DEF FreeFire
<1>3. g \in RawFrames /\ g.op = f.op /\ g.at = "next" /\ g.w = f.w /\ g.c = None /\ g.x = None /\ g.todo = f.todo
  <2>1. "next" \in Ats
        BY DEF Ats
  <2> QED  BY ONLY <1>1, <2>1 DEF g, RawFrames
<1> HIDE DEF g
<1>4. g \in FrameSet
      BY <1>1, <1>3 DEF FrameSet, Fit
<1> QED  BY <1>1, <1>2, <1>3, <1>4, FireStep

LEMMA GuardFireInv ==
    ASSUME Inv, NEW t \in Threads, GuardFire(t)
    PROVE  Inv'
<1> PICK f, w, c, x : f = Top(t) /\ w = Top(t).w /\ c = Top(t).c /\ x = Top(t).x
    OBVIOUS
<1>1. /\ stack[t] # <<>> /\ f \in FrameSet /\ f \in Frames /\ f.op = "destroyGuard" /\ f.at = "fire" /\ Fit(f) /\ f \in RawFrames
      /\ f.w = w /\ f.c = c /\ f.x = x /\ w \in WaitSetIds /\ c \in Conds
  <2>1. At(t, "destroyGuard", "fire")
        BY DEF GuardFire
  <2>2. /\ stack[t] # <<>> /\ f \in FrameSet /\ f \in Frames /\ f.op = "destroyGuard" /\ f.at = "fire" /\ Fit(f) /\ f \in RawFrames
        BY <2>1, AtTop DEF Inv, Typed
  <2> QED  BY <2>2 DEF Fit
<1> DEFINE g == [f EXCEPT !.at = "unpin"]
<1>2. FireRelease(t, x, GotoWith(t, g)) /\ UNCHANGED <<binding, hooked, made, mine, attached, mu, notified, wakeups, trigger, refs, closed, retired, freed, owed>>
  <2>1. Goto(t, "unpin") = GotoWith(t, g)
        BY DEF Goto, GotoWith, Top
  <2> QED  BY <2>1 DEF GuardFire
<1>3. g \in RawFrames /\ Like(g, f, "unpin")
  <2>1. "unpin" \in Ats
        BY DEF Ats
  <2> QED  BY <1>1, <2>1, AtField
<1> HIDE DEF g
<1>4. g \in FrameSet
      BY <1>1, <1>3 DEF FrameSet, Fit, Like
<1> QED  BY <1>1, <1>2, <1>3, <1>4, FireStep DEF Like

-------------------------------------------------------------------------------
(* The destruction of a condition.                                             *)

(* While it tells the wait sets, its own list is empty. *)
LEMMA DrainedList ==
    ASSUME Inv, NEW f \in Frames, f.op = "destroyGuard", f.at \notin {"close", "drain"}, NEW c \in Conds, f.c = c
    PROVE  c \in made /\ c \notin mine /\ c \in closed /\ wakeups[c] = {} /\ Held(DestroyG(c)) /\ OwnerRef(c)
<1>1. f \in DestroyG(c) /\ Held(DestroyG(c))
      BY DEF DestroyG, Held, Frames
<1>2. c \in made /\ c \notin mine /\ c \in closed
      BY DEF Inv, TearSound
<1>3. ~Held(Draining(c))
  <2> SUFFICES ASSUME NEW h \in Frames, h \in Draining(c) PROVE FALSE
      BY DEF Held
  <2>1. h \in DestroyG(c) /\ h.at = "drain"
        BY DEF Draining, DestroyG
  <2>2. h = f
        BY <1>1, <2>1, OnceSame DEF Inv, TearSound
  <2> QED  BY <2>1, <2>2
<1>4. wakeups[c] = {}
      BY <1>2, <1>3, ListsMean DEF Inv
<1> QED  BY <1>1, <1>2, <1>4 DEF OwnerRef

(* A wait set is told: its entry goes, unless a detach took it first. *)
LEMMA GuardToldInv ==
    ASSUME Inv, NEW t \in Threads, stack[t] # <<>>, NEW f, f = Top(t), f \in FrameSet, f \in Frames, f.op = "destroyGuard",
           f.at = "invalidate", f.w = None, f.x = None, NEW c \in Conds, f.c = c, NEW w \in WaitSetIds, w \in f.todo, mu[w] = None,
           NEW g \in FrameSet, g.op = "destroyGuard", g.w = w, g.c = c, g.todo = f.todo \ {w}, Swapped(t, {f}, {g}),
           \/ g.at = "unpin" /\ attached' = attached /\ ~Entry(w, c)
           \/ g.at = "release" /\ \E e : EntryGone(w, e) /\ e.c = c /\ e.x = g.x,
           attached' \in [WaitSetIds -> SUBSET [c : Conds, x : Ctxs \cup {None}]],
           UNCHANGED <<binding, hooked, made, mine, mu, notified, wakeups, trigger, refs, closed, retired, freed, ctx, owed>>
    PROVE  Inv'
<1>1. g \in Frames' /\ Frames' \subseteq Frames \cup {g}
      BY DEF Swapped
<1>2. c \in made /\ c \in closed /\ wakeups[c] = {}
      BY DrainedList
<1>3. Frames \cap InsideOf(w) = {} /\ Frames' \cap InsideOf(w) \subseteq {g}
  <2>1. Frames \cap InsideOf(w) = {}
        BY DEF Inv, Mutex, Held
  <2> QED  BY <1>1, <2>1
<1>4. /\ \A v \in WaitSetIds : v # w => attached'[v] = attached[v]
      /\ \A e : e \in attached'[w] => e \in attached[w]
      /\ \A e : e.c # c => (e \in attached'[w] <=> e \in attached[w])
      BY DEF EntryGone
<1>5. Typed'
      BY DEF Inv, Typed, Swapped
<1>6. Mutex'
  <2>1. \A u \in WaitSetIds : f \notin InsideOf(u) /\ {g} \cap InsideOf(u) = {}
        BY DEF InsideOf
  <2> QED  BY <2>1, MutexKept DEF Inv
<1>7. AddingSound' /\ ScanSound'
  <2>1. \A h \in {g} : h.op # "wait" /\ h.op # "attach"
        OBVIOUS
  <2> QED  BY <1>3, <1>4, <2>1, EntryChange
<1>8. OwnSound'
  <2>1. \A y \in Ctxs : f \notin Owning(y) /\ (g \in Owning(y) <=> g.at = "release" /\ y = g.x)
        BY DEF Owning
  <2>2. CASE g.at = "unpin" /\ attached' = attached
    <3>1. \A y \in Ctxs : f \in Owning(y) <=> g \in Owning(y)
          BY <2>1, <2>2
    <3> QED  BY <2>2, <3>1, OwnPassed
  <2>3. CASE g.at = "release" /\ \E e : EntryGone(w, e) /\ e.c = c /\ e.x = g.x
    <3>1. PICK e : EntryGone(w, e) /\ e.c = c /\ e.x = g.x
          BY <2>3
    <3>2. Takes(f, {g}, e)
          BY <2>1, <2>3, <3>1 DEF Takes, Single
    <3> QED  BY <3>1, <3>2, OwnTaken
  <2> QED  BY <2>2, <2>3
<1>9. HookSound'
  <2>1. \A v \in WaitSetIds : \A d \in attached'[v] : d \in attached[v]
        BY <1>4
  <2>2. \A h \in {g} : h.op # "attach"
        OBVIOUS
  <2> QED  BY <2>1, <2>2, HookBut
<1>10. UseSound' /\ TearSound' /\ OneWaiter' /\ OwedSound'
  <2>1. Heir(f, g)
        BY DEF Heir
  <2>2. owed' \subseteq owed /\ \A p \in owed' : p[1] \in wakeups'[p[2]]
        BY OwedStays
  <2> QED  BY <2>1, <2>2, CalmStep
<1>11. /\ ReleaseSound' /\ EntriesApart' /\ FreeSound' /\ CountedC' /\ CountedW' /\ ListedFrom' /\ ListedTo'
  <2>1. Elsewhere({f}, {g}, w, c)
    <3>1. ASSUME NEW v \in WaitSetIds, NEW d \in Conds, v # w \/ d # c PROVE LevelAt({f}, {g}, v, d)
      <4>0. v # None
            BY WaitSetsAssumption DEF WaitSetsAssumption
      <4>1. /\ f \notin Releasing(v, d) /\ f \notin Removing(v, d)
            /\ f \notin Adding(v, d, "acquire") /\ f \notin Adding(v, d, "register")
            BY DEF Releasing, Removing, Adding
      <4>2. /\ g \notin Releasing(v, d) /\ g \notin Removing(v, d)
            /\ g \notin Adding(v, d, "acquire") /\ g \notin Adding(v, d, "register")
            BY <3>1 DEF Releasing, Removing, Adding
      <4>3. (g \in Pinning(d, v) <=> f \in Pinning(d, v)) /\ (g \in Telling(v, d) <=> f \in Telling(v, d))
            BY <3>1, <4>0 DEF Pinning, Telling
      <4> QED  BY <4>1, <4>2, <4>3 DEF LevelAt, Even, Single
    <3>2. ASSUME NEW v \in WaitSetIds PROVE LevelW({f}, {g}, v)
          BY DEF LevelW, Even, Single, FreeW, DestroyW
    <3>3. ASSUME NEW d \in Conds PROVE LevelC({f}, {g}, d)
      <4>1. f \notin Draining(d) /\ g \notin Draining(d) /\ (f \in DestroyG(d) <=> g \in DestroyG(d))
            BY DEF Draining, DestroyG
      <4> QED  BY <4>1 DEF LevelC, Even
    <3>4. f \in Pinning(c, w) /\ g \in Pinning(c, w)
          BY DEF Pinning
    <3> QED  BY <3>1, <3>2, <3>3, <3>4 DEF Elsewhere, Even
  <2>2. ListsElsewhere(w, c)
        BY <1>4 DEF ListsElsewhere
  <2>3. \A e, d \in attached'[w] : e.c = c /\ d.c = c => e = d
        BY <1>4 DEF Inv, EntriesApart
  <2>4. ~Held(Adding(w, c, "acquire"))
        BY <1>3 DEF Held, Adding, InsideOf
  <2>5. ~Held(Adding(w, c, "acquire"))'
    <3>1. Even({f}, {g}, Adding(w, c, "acquire"))
          BY DEF Even, Adding
    <3> QED  BY <2>4, <3>1, EvenHeld
  <2>6. ~Entry(w, c)' /\ Once(Releasing(w, c))' /\ (Attached(w, c)' <=> Attached(w, c))
    <3>0. Once(Releasing(w, c)) /\ (Held(Releasing(w, c)) => ~Entry(w, c)) /\ f \notin Releasing(w, c)
          BY DEF Inv, ReleaseSound, Releasing
    <3>1. CASE g.at = "unpin" /\ attached' = attached /\ ~Entry(w, c)
      <4>1. Even({f}, {g}, Releasing(w, c)) /\ Single({g}, Releasing(w, c))
            BY <3>0, <3>1 DEF Even, Single, Releasing
      <4>2. (Held(Releasing(w, c))' <=> Held(Releasing(w, c))) /\ Once(Releasing(w, c))'
            BY <3>0, <4>1, EvenHeld, EvenOnce
      <4> QED  BY <3>1, <4>2 DEF Attached, Entry
    <3>2. CASE g.at = "release" /\ \E e : EntryGone(w, e) /\ e.c = c /\ e.x = g.x
      <4>1. PICK e : EntryGone(w, e) /\ e.c = c
            BY <3>2
      <4>2. Entry(w, c) /\ ~Entry(w, c)'
            BY <4>1 DEF Entry, EntryGone, Inv, EntriesApart
      <4>3. g \in Releasing(w, c) /\ ~Held(Releasing(w, c))
            BY <3>0, <3>2, <4>2 DEF Releasing
      <4>4. Once(Releasing(w, c))' /\ Held(Releasing(w, c))'
            BY <1>1, <3>0, <4>3, NewHeld DEF Single, Held
      <4> QED  BY <2>4, <4>2, <4>4 DEF Attached
    <3> QED  BY <3>1, <3>2
  <2>7. ReleaseAt(w, c)' /\ ListedFromAt(w, c)' /\ ListedToAt(w, c)'
        BY <1>2, <2>6 DEF ReleaseAt, ListedFromAt, ListedToAt
  <2>8. CountAt(w, c)
        BY <2>6 DEF CountAt
  <2>9. FreedAt(w, c)
    <3>1. c \in freed <=> refs[c] = 0
          BY <1>2 DEF Inv, FreeSound
    <3>2. attached'[w] # {} => attached[w] # {}
          BY <1>4
    <3> QED  BY <3>1, <3>2 DEF FreedAt
  <2> QED  BY <1>2, <1>5, <2>1, <2>2, <2>3, <2>7, <2>8, <2>9, AttachmentStep
<1> QED  BY <1>5, <1>6, <1>7, <1>8, <1>9, <1>10, <1>11 DEF Inv

LEMMA GuardInvalidateInv ==
    ASSUME Inv, NEW t \in Threads, GuardInvalidate(t)
    PROVE  Inv'
<1> PICK f, c : f = Top(t) /\ c = Top(t).c
    OBVIOUS
<1>1. /\ stack[t] # <<>> /\ f \in FrameSet /\ f \in Frames /\ f.op = "destroyGuard" /\ f.at = "invalidate" /\ Fit(f) /\ f \in RawFrames
      /\ f.w = None /\ f.x = None /\ f.c = c /\ c \in Conds /\ f.todo \subseteq WaitSetIds
  <2>1. At(t, "destroyGuard", "invalidate")
        BY DEF GuardInvalidate
  <2>2. /\ stack[t] # <<>> /\ f \in FrameSet /\ f \in Frames /\ f.op = "destroyGuard" /\ f.at = "invalidate" /\ Fit(f) /\ f \in RawFrames
        BY <2>1, AtTop DEF Inv, Typed
  <2> QED  BY <2>2 DEF Fit
<1> DEFINE Gone(w) == {e \in attached[w] : e.c = c}
           Told(w) == [f EXCEPT !.w = w, !.todo = @ \ {w}]
<1>2. PICK w \in f.todo : /\ mu[w] = None /\ attached' = [attached EXCEPT ![w] = @ \ Gone(w)]
                          /\ stack' = GotoWith(t, IF Gone(w) = {} THEN [Told(w) EXCEPT !.at = "unpin"]
                                                  ELSE [Told(w) EXCEPT !.at = "release", !.x = (CHOOSE e \in Gone(w) : TRUE).x])
      BY Zenon DEF GuardInvalidate
<1>3. UNCHANGED <<binding, hooked, made, mine, mu, notified, wakeups, trigger, refs, closed, retired, freed, ctx, owed>> /\ w \in WaitSetIds
      BY <1>1 DEF GuardInvalidate
<1>4. attached \in [WaitSetIds -> SUBSET [c : Conds, x : Ctxs \cup {None}]]
      BY DEF Inv, Typed
<1>5. CASE Gone(w) = {}
  <2> DEFINE g == [f EXCEPT !.w = w, !.todo = @ \ {w}, !.at = "unpin"]
  <2>1. stack' = GotoWith(t, g)
        BY <1>2, <1>5
  <2>2. "unpin" \in Ats /\ f.todo \ {w} \in SUBSET Objects
        BY <1>1 DEF Ats, Objects
  <2>3. g \in RawFrames /\ g.op = f.op /\ g.w = w /\ g.c = f.c /\ g.x = f.x /\ g.todo = f.todo \ {w} /\ g.at = "unpin"
        BY ONLY <1>1, <1>3, <2>2 DEF g, RawFrames
  <2> HIDE DEF g
  <2>4. g \in FrameSet
        BY <1>1, <1>3, <2>3 DEF FrameSet, Fit
  <2>5. Swapped(t, {f}, {g})
        BY <1>1, <2>1, <2>4, GotoWithGoes DEF Inv, Typed
  <2>6. attached' = attached /\ ~Entry(w, c)
        BY <1>2, <1>3, <1>4, <1>5 DEF Entry
  <2>7. attached' \in [WaitSetIds -> SUBSET [c : Conds, x : Ctxs \cup {None}]]
        BY <1>4, <2>6
  <2>8. mu[w] = None /\ w \in f.todo
        BY <1>2
  <2> HIDE DEF Gone, Told
  <2> QED  BY <1>1, <1>3, <2>3, <2>4, <2>5, <2>6, <2>7, <2>8, GuardToldInv
<1>6. CASE Gone(w) # {}
  <2> PICK e : e = (CHOOSE a \in Gone(w) : TRUE)
      OBVIOUS
  <2>1. e \in Gone(w)
        BY <1>6
  <2>2. e \in attached[w] /\ e.c = c /\ e.x \in Ctxs \cup {None} /\ Gone(w) = {e}
        BY <1>3, <1>4, <2>1 DEF Inv, EntriesApart
  <2> DEFINE g == [f EXCEPT !.w = w, !.todo = @ \ {w}, !.at = "release", !.x = e.x]
  <2>3. stack' = GotoWith(t, g)
        BY <1>2, <1>6
  <2>4. "release" \in Ats /\ f.todo \ {w} \in SUBSET Objects
        BY <1>1 DEF Ats, Objects
  <2>5. g \in RawFrames /\ g.op = f.op /\ g.w = w /\ g.c = f.c /\ g.x = e.x /\ g.todo = f.todo \ {w} /\ g.at = "release"
        BY ONLY <1>1, <1>3, <2>2, <2>4 DEF g, RawFrames
  <2> HIDE DEF g
  <2>6. g \in FrameSet
        BY <1>1, <1>3, <2>5 DEF FrameSet, Fit
  <2>7. Swapped(t, {f}, {g})
        BY <1>1, <2>3, <2>6, GotoWithGoes DEF Inv, Typed
  <2> HIDE DEF Gone
  <2>8. attached' = [attached EXCEPT ![w] = @ \ {e}]
        BY <1>2, <2>2
  <2>9. EntryGone(w, e) /\ attached' \in [WaitSetIds -> SUBSET [c : Conds, x : Ctxs \cup {None}]]
        BY <1>3, <1>4, <2>2, <2>8 DEF EntryGone
  <2>10. \E a : EntryGone(w, a) /\ a.c = c /\ a.x = g.x
        BY <2>2, <2>5, <2>9
  <2> QED  BY <1>1, <1>2, <1>3, <2>5, <2>6, <2>7, <2>9, <2>10, GuardToldInv
<1> QED  BY <1>5, <1>6

(* The lists and the counts, for a step that closes an object. *)
LEMMA CloseLists ==
    ASSUME Inv, NEW t, NEW P, NEW N, Swapped(t, P, N), UNCHANGED <<made, attached, wakeups, refs, freed>>,
           \A v \in WaitSetIds, d \in Conds : LevelAt(P, N, v, d),
           \A v \in WaitSetIds : Even(P, N, FreeW(v)) /\ Single(N, FreeW(v)),
           \A o \in Objects : OwnerRef(o)' <=> OwnerRef(o),
           \A d \in Conds : wakeups[d] # {} /\ d \in closed' => Held(Draining(d))'
    PROVE  ReleaseSound' /\ EntriesApart' /\ FreeSound' /\ CountedC' /\ CountedW' /\ ListedFrom' /\ ListedTo'
<1>1. ASSUME NEW v \in WaitSetIds, NEW d \in Conds
      PROVE  /\ Held(Releasing(v, d))' <=> Held(Releasing(v, d))
             /\ Once(Releasing(v, d)) => Once(Releasing(v, d))'
             /\ Held(Pinning(d, v))' <=> Held(Pinning(d, v))
             /\ Held(Telling(v, d))' <=> Held(Telling(v, d))
             /\ Held(Removing(v, d))' <=> Held(Removing(v, d))
             /\ Held(Adding(v, d, "acquire"))' <=> Held(Adding(v, d, "acquire"))
             /\ Held(Adding(v, d, "register"))' <=> Held(Adding(v, d, "register"))
  <2>1. LevelAt(P, N, v, d)
        OBVIOUS
  <2> QED  BY <2>1, EvenHeld, EvenOnce DEF LevelAt
<1>2. ASSUME NEW v \in WaitSetIds PROVE (Held(FreeW(v))' <=> Held(FreeW(v))) /\ (Once(FreeW(v)) => Once(FreeW(v))')
      BY EvenHeld, EvenOnce
<1>3. ReleaseSound' /\ EntriesApart'
      BY <1>1 DEF Inv, ReleaseSound, EntriesApart, Entry
<1>4. FreeSound'
      BY <1>2 DEF Inv, FreeSound
<1>5. CountedC' /\ CountedW'
  <2>1. \A v \in WaitSetIds, d \in Conds : /\ Attached(v, d)' <=> Attached(v, d)
                                           /\ Held(Pinning(d, v))' <=> Held(Pinning(d, v))
        BY <1>1 DEF Attached, Entry
  <2> QED  BY <2>1, CountsKept
<1>6. ListedFrom'
  <2>1. ListedFrom /\ wakeups \in [Conds -> SUBSET WaitSetIds]
        BY DEF Inv, Typed
  <2> QED  BY <1>1, <2>1, ListsMean, ListsMeanNext DEF Entry
<1>7. ListedTo'
  <2>1. ListedTo /\ attached \in [WaitSetIds -> SUBSET [c : Conds, x : Ctxs \cup {None}]]
        BY DEF Inv, Typed
  <2>2. \A v \in WaitSetIds : \A d \in attached[v] : d.c \in Conds
        BY <2>1
  <2> QED  BY <1>1, <1>2, <2>1, <2>2, ListsMean, ListsMeanNext
<1> QED  BY <1>3, <1>4, <1>5, <1>6, <1>7

(* The frame f closes its object, and goes on as g. *)
Closes(f, g, o) ==
    /\ f \in Frames /\ f \in FrameSet /\ g \in FrameSet /\ f.at = "close"
    /\ g.op = f.op /\ g.w = f.w /\ g.c = f.c /\ g.x = f.x /\ g.todo = f.todo
    /\ \/ f.op = "destroyGuard" /\ g.at = "drain" /\ o = f.c /\ o \in Conds /\ f.w = None
       \/ f.op = "destroyWaitSet" /\ g.at = "teardown" /\ o = f.w /\ o \in WaitSetIds
    /\ f.todo = {} /\ f.x = None
    /\ closed' = closed \cup {o}

LEMMA CloseTear ==
    ASSUME Inv, NEW t, NEW f, NEW g, Swapped(t, {f}, {g}), NEW o, Closes(f, g, o), UNCHANGED <<binding, made, mine, ctx>>
    PROVE  /\ TearSound' /\ o \in made /\ o \notin mine /\ \A d \in Conds : Destroying(d)' <=> Destroying(d)
           /\ \A p \in Objects : OwnerRef(p)' <=> OwnerRef(p)
<1> USE DEF Closes
<1>1. o \in made /\ o \notin mine /\ o \notin closed /\ g \in Frames'
      BY DEF Inv, TearSound, Swapped
<1>2. \A d : f \in DestroyG(d) <=> g \in DestroyG(d)
      BY DEF DestroyG
<1>3. \A d : f \in DestroyW(d) <=> g \in DestroyW(d)
      BY DEF DestroyW
<1>4. \A d : /\ (Held(DestroyG(d))' <=> Held(DestroyG(d))) /\ (Once(DestroyG(d)) => Once(DestroyG(d))')
             /\ (Held(DestroyW(d))' <=> Held(DestroyW(d))) /\ (Once(DestroyW(d)) => Once(DestroyW(d))')
  <2>1. \A d : Even({f}, {g}, DestroyG(d)) /\ Single({g}, DestroyG(d)) /\ Even({f}, {g}, DestroyW(d)) /\ Single({g}, DestroyW(d))
        BY <1>2, <1>3 DEF Even, Single
  <2> QED  BY <2>1, EvenHeld, EvenOnce
<1>5. o \in Conds => g \in DestroyG(o) /\ f \in DestroyG(o)
      BY WaitSetsAssumption DEF DestroyG, WaitSetsAssumption
<1>6. o \notin Conds => g \in DestroyW(o) /\ f \in DestroyW(o)
      BY DEF DestroyW
<1>7. \A d \in Conds : Destroying(d)' <=> Destroying(d)
  <2>1. o \in Conds => Held(DestroyG(o))
        BY <1>5 DEF Held
  <2> QED  BY <1>4, <2>1 DEF Destroying
<1>8. \A p \in Objects : OwnerRef(p)' <=> OwnerRef(p)
  <2>1. Held(DestroyG(o)) \/ Held(DestroyW(o))
        BY <1>5, <1>6 DEF Held
  <2> QED  BY <1>4, <2>1 DEF OwnerRef
<1>9. TearSound'
  <2>1. \A h \in Frames' : h \in Frames \/ h = g
        BY DEF Swapped
  <2>2. ASSUME NEW h \in Frames' PROVE TearOf(h)'
    <3>1. CASE h = g
          BY <1>1, <3>1 DEF TearOf
    <3>2. CASE h # g
      <4>1. h \in Frames /\ h \in FrameSet
            BY <2>1, <3>2 DEF Frames
      <4>2. TearOf(h)
            BY <4>1 DEF Inv, TearSound, TearOf
      <4>3. h.op = "destroyGuard" => h.c # o
        <5> SUFFICES ASSUME h.op = "destroyGuard", h.c = o PROVE FALSE
            OBVIOUS
        <5>1. o \in Conds
              BY <4>1 DEF FrameSet, Fit
        <5>2. h \in DestroyG(o)
              BY <4>1 DEF DestroyG
        <5>3. Frames' \cap DestroyG(o) \subseteq {g}
              BY <1>5, <5>1 DEF Swapped, Inv, TearSound
        <5> QED  BY <3>2, <5>2, <5>3
      <4>4. h.op = "destroyWaitSet" => h.w # o
        <5> SUFFICES ASSUME h.op = "destroyWaitSet", h.w = o PROVE FALSE
            OBVIOUS
        <5>1. o \in WaitSetIds /\ o \notin Conds
              BY <4>1, WaitSetsAssumption DEF FrameSet, Fit, WaitSetsAssumption
        <5>2. h \in DestroyW(o)
              BY <4>1 DEF DestroyW
        <5>3. Frames' \cap DestroyW(o) \subseteq {g}
              BY <1>6, <5>1 DEF Swapped, Inv, TearSound
        <5> QED  BY <3>2, <5>2, <5>3
      <4> QED  BY <4>2, <4>3, <4>4 DEF TearOf
    <3> QED  BY <3>1, <3>2
  <2>3. mine' \cap closed' = {}
        BY <1>1 DEF Inv, TearSound
  <2>4. (\A d \in Conds : Once(DestroyG(d))') /\ \A v \in WaitSetIds : Once(DestroyW(v))'
        BY <1>4 DEF Inv, TearSound
  <2>5. ASSUME NEW d \in Conds PROVE Unheld(d)' <=> Unheld(d)
    <3>1. Even({f}, {g}, Keeping(d))
          BY DEF Even, Keeping
    <3> QED  BY <3>1, UnheldKept
  <2>6. binding' = "cpp" => \A d \in Conds \cap made' : Destroying(d)' <=> Unheld(d)'
        BY <1>7, <2>5 DEF Inv, TearSound
  <2>7. binding' = "cpp" => \A v \in WaitSetIds \cap made' : v \in mine' \/ v \in closed' \/ Held(DestroyW(v))'
        BY <1>4 DEF Inv, TearSound
  <2> QED  BY <2>2, <2>3, <2>4, <2>6, <2>7 DEF TearSound, TearOf
<1> QED  BY <1>1, <1>7, <1>8, <1>9

LEMMA CloseStep ==
    ASSUME Inv, NEW t \in Threads, stack[t] # <<>>, NEW f, f = Top(t), NEW g, Swapped(t, {f}, {g}), NEW o, Closes(f, g, o),
           retired' \subseteq retired \cup {o},
           UNCHANGED <<binding, hooked, made, mine, attached, mu, notified, wakeups, trigger, refs, freed, ctx, owed>>
    PROVE  Inv'
<1> USE DEF Closes
<1>1. /\ TearSound' /\ o \in made /\ o \notin mine /\ (\A d \in Conds : Destroying(d)' <=> Destroying(d))
      /\ (\A p \in Objects : OwnerRef(p)' <=> OwnerRef(p))
      BY CloseTear
<1>2. Typed'
      BY <1>1 DEF Inv, Typed, Swapped
<1>3. g \in Frames' /\ Frames' \subseteq Frames \cup {g} /\ Frames \subseteq Frames' \cup {f}
      BY DEF Swapped
<1>4. Mutex'
  <2>1. \A u \in WaitSetIds : f \notin InsideOf(u) /\ {g} \cap InsideOf(u) = {}
        BY DEF InsideOf
  <2> QED  BY <2>1, MutexKept DEF Inv
<1>5. ScanSound' /\ AddingSound' /\ HookSound'
  <2>1. \A h \in {g} : h.op # "wait" /\ h.op # "attach"
        OBVIOUS
  <2>2. AddingSound'
        BY <1>3 DEF Inv, AddingSound
  <2> QED  BY <2>1, <2>2, ScanKept, HookKept
<1>6. OwnSound'
  <2>1. \A y \in Ctxs : f \in Owning(y) <=> g \in Owning(y)
        BY DEF Owning
  <2> QED  BY <2>1, OwnPassed
<1>7. UseSound'
  <2>1. \A h \in {g} : UseOf(h) /\ (h.op = "attach" => h.c \in Conds)
        BY DEF UseOf
  <2> QED  BY <1>1, <2>1, UseKept
<1>8. OneWaiter' /\ OwedSound'
  <2>1. \A h \in {f} \cup {g} : h.op # "wait" /\ h.op # "set"
        OBVIOUS
  <2>2. \A v \in WaitSetIds : {f} \cap WaitOn(v) = {} /\ {g} \cap WaitOn(v) = {}
        BY <2>1 DEF WaitOn
  <2>3. owed' \subseteq owed /\ \A p \in owed' : p[1] \in wakeups'[p[2]]
        BY OwedStays
  <2> QED  BY <2>1, <2>2, <2>3, OneWaiterKept, OwedKept DEF Even, Single
<1>9. ReleaseSound' /\ EntriesApart' /\ FreeSound' /\ CountedC' /\ CountedW' /\ ListedFrom' /\ ListedTo'
  <2>1. ASSUME NEW v \in WaitSetIds, NEW d \in Conds PROVE LevelAt({f}, {g}, v, d)
    <3>0. v # None
          BY WaitSetsAssumption DEF WaitSetsAssumption
    <3>1. \A h \in {f, g} : /\ h \notin Releasing(v, d) /\ h \notin Removing(v, d) /\ h \notin Pinning(d, v)
                            /\ h \notin Telling(v, d) /\ h \notin Adding(v, d, "acquire") /\ h \notin Adding(v, d, "register")
          BY <3>0 DEF Releasing, Removing, Adding, Pinning, Telling
    <3> QED  BY <3>1 DEF LevelAt, Even, Single
  <2>2. \A v \in WaitSetIds : Even({f}, {g}, FreeW(v)) /\ Single({g}, FreeW(v))
        BY DEF Even, Single, FreeW
  <2>3. ASSUME NEW d \in Conds, wakeups[d] # {}, d \in closed' PROVE Held(Draining(d))'
    <3>1. CASE d = o
      <4>1. g \in Draining(d)
            BY <3>1, WaitSetsAssumption DEF Draining, WaitSetsAssumption
      <4> QED  BY <1>3, <4>1 DEF Held
    <3>2. CASE d # o
      <4>1. Held(Draining(d))
        <5>1. PICK v \in wakeups[d] : TRUE
              BY <2>3
        <5> QED  BY <2>3, <3>2, <5>1, ListsMean DEF Inv
      <4>2. f \notin Draining(d)
            BY DEF Draining
      <4> QED  BY <1>3, <4>1, <4>2 DEF Held
    <3> QED  BY <3>1, <3>2
  <2> QED  BY <1>1, <2>1, <2>2, <2>3, CloseLists
<1> QED  BY <1>1, <1>2, <1>4, <1>5, <1>6, <1>7, <1>8, <1>9 DEF Inv

LEMMA GuardCloseInv ==
    ASSUME Inv, NEW t \in Threads, GuardClose(t)
    PROVE  Inv'
<1> PICK f, c : f = Top(t) /\ c = Top(t).c
    OBVIOUS
<1>1. /\ stack[t] # <<>> /\ f \in FrameSet /\ f \in Frames /\ f.op = "destroyGuard" /\ f.at = "close" /\ Fit(f) /\ f \in RawFrames
      /\ f.w = None /\ f.x = None /\ f.c = c /\ c \in Conds /\ f.todo = {}
  <2>1. At(t, "destroyGuard", "close")
        BY DEF GuardClose
  <2>2. /\ stack[t] # <<>> /\ f \in FrameSet /\ f \in Frames /\ f.op = "destroyGuard" /\ f.at = "close" /\ Fit(f) /\ f \in RawFrames
        BY <2>1, AtTop DEF Inv, Typed
  <2> QED  BY <2>2 DEF Fit
<1>2. stack' = Goto(t, "drain") /\ closed' = closed \cup {c} /\ UNCHANGED <<binding, hooked, made, mine, attached, mu, notified, wakeups, trigger, refs, retired, freed, ctx, owed>>
      BY DEF GuardClose
<1>3. PICK g \in FrameSet : Like(g, f, "drain") /\ Swapped(t, {f}, {g})
  <2>1. "drain" \in Ats /\ \A h \in RawFrames : Like(h, f, "drain") => Fit(h)
        BY <1>1 DEF Like, Fit, Ats
  <2> QED  BY <1>1, <1>2, <2>1, GotoGoes DEF Inv, Typed
<1>4. Closes(f, g, c) /\ retired' \subseteq retired \cup {c}
      BY <1>1, <1>2, <1>3 DEF Closes, Like
<1> QED  BY <1>1, <1>2, <1>3, <1>4, CloseStep

LEMMA WaitSetCloseInv ==
    ASSUME Inv, NEW t \in Threads, WaitSetClose(t)
    PROVE  Inv'
<1> PICK f, w : f = Top(t) /\ w = Top(t).w
    OBVIOUS
<1>1. /\ stack[t] # <<>> /\ f \in FrameSet /\ f \in Frames /\ f.op = "destroyWaitSet" /\ f.at = "close" /\ Fit(f) /\ f \in RawFrames
      /\ f.w = w /\ f.x = None /\ f.c = None /\ w \in WaitSetIds /\ f.todo = {}
  <2>1. At(t, "destroyWaitSet", "close")
        BY DEF WaitSetClose
  <2>2. /\ stack[t] # <<>> /\ f \in FrameSet /\ f \in Frames /\ f.op = "destroyWaitSet" /\ f.at = "close" /\ Fit(f) /\ f \in RawFrames
        BY <2>1, AtTop DEF Inv, Typed
  <2> QED  BY <2>2 DEF Fit
<1>2. stack' = Goto(t, "teardown") /\ closed' = closed \cup {w} /\ retired' = retired \cup {w} /\ UNCHANGED <<binding, hooked, made, mine, attached, mu, notified, wakeups, trigger, refs, freed, ctx, owed>>
      BY DEF WaitSetClose
<1>3. PICK g \in FrameSet : Like(g, f, "teardown") /\ Swapped(t, {f}, {g})
  <2>1. "teardown" \in Ats /\ \A h \in RawFrames : Like(h, f, "teardown") => Fit(h)
        BY <1>1 DEF Like, Fit, Ats
  <2> QED  BY <1>1, <1>2, <2>1, GotoGoes DEF Inv, Typed
<1>4. Closes(f, g, w) /\ retired' \subseteq retired \cup {w}
      BY <1>1, <1>2, <1>3 DEF Closes, Like
<1> QED  BY <1>1, <1>2, <1>3, <1>4, CloseStep

(* What is listed and attached, for a step about a reference. *)
Quiet(P, N, v, d) ==
    /\ Even(P, N, Releasing(v, d)) /\ Single(N, Releasing(v, d))
    /\ Even(P, N, Telling(v, d)) /\ Even(P, N, Removing(v, d))
    /\ Even(P, N, Adding(v, d, "acquire")) /\ Even(P, N, Adding(v, d, "register"))

LEMMA RefLists ==
    ASSUME Inv, NEW t, NEW P, NEW N, Swapped(t, P, N), UNCHANGED <<attached, wakeups, closed>>,
           \A v \in WaitSetIds, d \in Conds : Quiet(P, N, v, d),
           \A d \in Conds : wakeups[d] # {} => Even(P, N, Draining(d)),
           \A v \in WaitSetIds : Held(FreeW(v)) => Held(FreeW(v))'
    PROVE  /\ ReleaseSound' /\ EntriesApart' /\ ListedFrom' /\ ListedTo'
           /\ \A v \in WaitSetIds, d \in Conds : Attached(v, d)' <=> Attached(v, d)
<1>1. ASSUME NEW v \in WaitSetIds, NEW d \in Conds
      PROVE  /\ Held(Releasing(v, d))' <=> Held(Releasing(v, d))
             /\ Once(Releasing(v, d)) => Once(Releasing(v, d))'
             /\ Held(Telling(v, d))' <=> Held(Telling(v, d))
             /\ Held(Removing(v, d))' <=> Held(Removing(v, d))
             /\ Held(Adding(v, d, "acquire"))' <=> Held(Adding(v, d, "acquire"))
             /\ Held(Adding(v, d, "register"))' <=> Held(Adding(v, d, "register"))
  <2>1. Quiet(P, N, v, d)
        OBVIOUS
  <2> QED  BY <2>1, EvenHeld, EvenOnce DEF Quiet
<1>2. ReleaseSound' /\ EntriesApart'
      BY <1>1 DEF Inv, ReleaseSound, EntriesApart, Entry
<1>3. \A v \in WaitSetIds, d \in Conds : Attached(v, d)' <=> Attached(v, d)
      BY <1>1 DEF Attached, Entry
<1>4. ListedFrom'
  <2>1. ListedFrom /\ wakeups \in [Conds -> SUBSET WaitSetIds]
        BY DEF Inv, Typed
  <2>2. \A d \in Conds : wakeups[d] # {} => (Held(Draining(d))' <=> Held(Draining(d)))
        BY EvenHeld
  <2> QED  BY <1>1, <2>1, <2>2, ListsMean, ListsMeanNext DEF Entry
<1>5. ListedTo'
  <2>1. ListedTo /\ attached \in [WaitSetIds -> SUBSET [c : Conds, x : Ctxs \cup {None}]]
        BY DEF Inv, Typed
  <2>2. \A v \in WaitSetIds : \A d \in attached[v] : d.c \in Conds
        BY <2>1
  <2> QED  BY <1>1, <2>1, <2>2, ListsMean, ListsMeanNext
<1> QED  BY <1>2, <1>3, <1>4, <1>5

(* The owner's reference of a condition is given back. *)
LEMMA GuardTeardownInv ==
    ASSUME Inv, NEW t \in Threads, GuardTeardown(t)
    PROVE  Inv'
<1> PICK f, c, N : f = Top(t) /\ c = Top(t).c /\ N = {}
    OBVIOUS
<1>1. /\ stack[t] # <<>> /\ f \in FrameSet /\ f \in Frames /\ f.op = "destroyGuard" /\ f.at = "invalidate" /\ Fit(f) /\ f \in RawFrames
      /\ f.w = None /\ f.x = None /\ f.c = c /\ c \in Conds /\ f.todo = {}
  <2>1. At(t, "destroyGuard", "invalidate") /\ f.todo = {}
        BY DEF GuardTeardown
  <2>2. /\ stack[t] # <<>> /\ f \in FrameSet /\ f \in Frames /\ f.op = "destroyGuard" /\ f.at = "invalidate" /\ Fit(f) /\ f \in RawFrames
        BY <2>1, AtTop DEF Inv, Typed
  <2> QED  BY <2>1, <2>2 DEF Fit
<1>2. /\ retired' = retired \cup {c} /\ GuardReleased(c) /\ stack' = Return(t)
      /\ UNCHANGED <<binding, hooked, made, mine, attached, mu, notified, wakeups, trigger, closed, ctx, owed>>
      BY DEF GuardTeardown
<1>3. Swapped(t, {f}, N) /\ Frames' \subseteq Frames
  <2>1. Swapped(t, {f}, N)
        BY <1>1, <1>2, ReturnGoes DEF Inv, Typed
  <2> QED  BY <2>1 DEF Swapped
<1>4. c \in made /\ c \notin mine /\ c \in closed /\ wakeups[c] = {} /\ OwnerRef(c)
      BY <1>1, DrainedList
<1>5. refs[c] \in Nat /\ refs[c] >= 1 /\ c \notin freed
      BY <1>1, <1>4, RefHeld
<1>6. /\ refs' \in [Objects -> Nat] /\ refs'[c] = refs[c] - 1 /\ (\A o \in Objects : o # c => refs'[o] = refs[o])
      /\ (c \in freed' <=> refs'[c] = 0)
      /\ (\A o \in Objects : o # c => (o \in freed' <=> o \in freed))
      /\ freed' \subseteq Objects
      BY <1>1, <1>2, <1>4, <1>5, GuardReleasedMeans
<1>7. Typed'
      BY <1>2, <1>3, <1>4, <1>6 DEF Inv, Typed, Swapped
<1>8. Mutex'
  <2>1. \A u \in WaitSetIds : f \notin InsideOf(u) /\ N \cap InsideOf(u) = {}
        BY <1>1 DEF InsideOf
  <2> QED  BY <1>1, <1>2, <1>3, <2>1, MutexKept DEF Inv
<1>9. ScanSound' /\ AddingSound' /\ HookSound'
  <2>1. AddingSound'
        BY <1>2, <1>3 DEF Inv, AddingSound
  <2> QED  BY <1>2, <1>3, <2>1, ScanKept, HookKept
<1>10. OwnSound'
  <2>1. \A y \in Ctxs : {f} \cap Owning(y) = {} /\ N \cap Owning(y) = {}
        BY <1>1 DEF Owning
  <2> QED  BY <1>2, <1>3, <2>1, OwnKept DEF Even, Single
<1>11. \A d \in Conds : d # c => (Held(DestroyG(d))' <=> Held(DestroyG(d)))
  <2>1. \A d \in Conds : d # c => Even({f}, N, DestroyG(d))
        BY <1>1 DEF Even, DestroyG
  <2> QED  BY <1>3, <2>1, EvenHeld
<1>12. \A v : Held(DestroyW(v))' <=> Held(DestroyW(v))
  <2>1. \A v : Even({f}, N, DestroyW(v))
        BY <1>1 DEF Even, DestroyW
  <2> QED  BY <1>3, <2>1, EvenHeld
<1>13. \A d \in Conds : Destroying(d)' <=> Destroying(d)
      BY <1>2, <1>4, <1>11 DEF Destroying
<1>14. UseSound'
      BY <1>2, <1>3, <1>13, UseKept
<1>15. TearSound'
  <2>1. \A h \in Frames' : TearOf(h)'
        BY <1>2, <1>3 DEF Inv, TearSound, TearOf
  <2>2. mine' \cap closed' = {}
        BY <1>2 DEF Inv, TearSound
  <2>3. (\A d \in Conds : Once(DestroyG(d))') /\ \A v \in WaitSetIds : Once(DestroyW(v))'
    <3>1. \A S : Once(S) => Once(S)'
          BY <1>3 DEF Swapped
    <3> QED  BY <3>1 DEF Inv, TearSound
  <2>4. ASSUME NEW d \in Conds PROVE Unheld(d)' <=> Unheld(d)
    <3>1. Even({f}, N, Keeping(d))
          BY <1>1 DEF Even, Keeping
    <3> QED  BY <1>2, <1>3, <3>1, UnheldKept
  <2>5. binding' = "cpp" => \A d \in Conds \cap made' : Destroying(d)' <=> Unheld(d)'
        BY <1>2, <1>13, <2>4 DEF Inv, TearSound
  <2>6. binding' = "cpp" => \A v \in WaitSetIds \cap made' : v \in mine' \/ v \in closed' \/ Held(DestroyW(v))'
        BY <1>2, <1>12 DEF Inv, TearSound
  <2> QED  BY <2>1, <2>2, <2>3, <2>5, <2>6 DEF TearSound, TearOf
<1>16. OneWaiter' /\ OwedSound'
  <2>1. \A h \in {f} \cup N : h.op # "wait" /\ h.op # "set"
        BY <1>1
  <2>2. \A v \in WaitSetIds : {f} \cap WaitOn(v) = {} /\ N \cap WaitOn(v) = {}
        BY <2>1 DEF WaitOn
  <2>3. owed' \subseteq owed /\ \A p \in owed' : p[1] \in wakeups'[p[2]]
        BY <1>2, OwedStays
  <2> QED  BY <1>2, <1>3, <2>1, <2>2, <2>3, OneWaiterKept, OwedKept DEF Even, Single
<1>17. \A v \in WaitSetIds : (Held(FreeW(v))' <=> Held(FreeW(v))) /\ (Once(FreeW(v)) => Once(FreeW(v))')
  <2>1. \A v \in WaitSetIds : Even({f}, N, FreeW(v)) /\ Single(N, FreeW(v))
        BY <1>1 DEF Even, Single, FreeW
  <2> QED  BY <1>3, <2>1, EvenHeld, EvenOnce
<1>18. /\ ReleaseSound' /\ EntriesApart' /\ ListedFrom' /\ ListedTo'
       /\ \A v \in WaitSetIds, d \in Conds : Attached(v, d)' <=> Attached(v, d)
  <2>1. ASSUME NEW v \in WaitSetIds, NEW d \in Conds PROVE Quiet({f}, N, v, d)
        BY <1>1 DEF Quiet, Even, Single, Releasing, Telling, Removing, Adding
  <2>2. \A d \in Conds : wakeups[d] # {} => Even({f}, N, Draining(d))
        BY <1>1 DEF Even, Draining
  <2> QED  BY <1>2, <1>3, <1>17, <2>1, <2>2, RefLists
<1>19. c \notin WaitSetIds
      BY <1>1, WaitSetsAssumption DEF WaitSetsAssumption
<1>20. FreeSound'
  <2>1. \A o \in Objects : o \notin made' => refs'[o] = 0
        BY <1>2, <1>4, <1>6 DEF Inv, FreeSound
  <2>2. \A d \in Conds : d \in freed' <=> d \in made' /\ refs'[d] = 0
        BY <1>2, <1>4, <1>6 DEF Inv, FreeSound, Objects
  <2>3. ASSUME NEW v \in WaitSetIds
        PROVE  /\ Once(FreeW(v))'
               /\ Held(FreeW(v))' => v \in made' /\ refs'[v] = 0 /\ v \notin freed'
               /\ v \in freed' => v \in made' /\ refs'[v] = 0
               /\ v \in made' /\ refs'[v] = 0 => v \in freed' \/ Held(FreeW(v))'
               /\ v \in freed' \/ v \notin made' => attached'[v] = {}
    <3>1. refs'[v] = refs[v] /\ (v \in freed' <=> v \in freed)
          BY <1>6, <1>19 DEF Objects
    <3> QED  BY <1>2, <1>17, <3>1 DEF Inv, FreeSound
  <2> QED  BY <2>1, <2>2, <2>3 DEF FreeSound
<1>21. CountedC'
  <2> SUFFICES ASSUME NEW d \in Conds PROVE refs'[d] = One(OwnerRef(d)') + Cardinality(Attachments(d)')
      BY DEF CountedC, One
  <2>1. Attachments(d)' = Attachments(d)
        BY <1>18 DEF Attachments
  <2>2. refs[d] = One(OwnerRef(d)) + Cardinality(Attachments(d)) /\ Cardinality(Attachments(d)) \in Nat
        BY AttachmentsFinite DEF Inv, CountedC
  <2>3. CASE d = c
    <3>1. ~Held(DestroyG(c))'
      <4>1. f \in DestroyG(c)
            BY <1>1 DEF DestroyG
      <4>2. Once(DestroyG(c)) /\ {f} \cap DestroyG(c) # {} /\ N \cap DestroyG(c) = {}
            BY <1>1, <4>1 DEF Inv, TearSound
      <4> QED  BY <1>3, <4>2, GoneHeld
    <3>2. ~OwnerRef(c)'
          BY <1>1, <1>2, <1>4, <3>1, OwnerOf
    <3> QED  BY <1>4, <1>5, <1>6, <2>1, <2>2, <2>3, <3>2 DEF One
  <2>4. CASE d # c
    <3>1. OwnerRef(d)' <=> OwnerRef(d)
          BY <1>2, <1>11, <2>4, OwnerOf
    <3>2. refs'[d] = refs[d]
          BY <1>6, <2>4 DEF Objects
    <3> QED  BY <2>1, <2>2, <3>1, <3>2 DEF One
  <2> QED  BY <2>3, <2>4
<1>22. CountedW'
  <2>1. \A v \in WaitSetIds : refs'[v] = refs[v] /\ (OwnerRef(v)' <=> OwnerRef(v))
        BY <1>2, <1>6, <1>12, <1>19, OwnerOf DEF Objects
  <2>2. ASSUME NEW v \in WaitSetIds, NEW d \in Conds PROVE Held(Pinning(d, v))' <=> Held(Pinning(d, v))
    <3>0. v # None
          BY WaitSetsAssumption DEF WaitSetsAssumption
    <3>1. Even({f}, N, Pinning(d, v))
          BY <1>1, <3>0 DEF Even, Pinning
    <3> QED  BY <1>3, <3>1, EvenHeld
  <2> QED  BY <2>1, <2>2, CountedWKept
<1> QED  BY <1>7, <1>8, <1>9, <1>10, <1>14, <1>15, <1>16, <1>18, <1>20, <1>21, <1>22 DEF Inv

-------------------------------------------------------------------------------
(* A reference of a wait set is given back.                                    *)

(* f gives the reference on w back, the frames of N go on: the last one frees  *)
(* the wait set.                                                               *)
Gives(f, N, w) ==
    /\ f \in FrameSet /\ f \in Frames /\ f.op \in {"destroyWaitSet", "destroyGuard"}
    /\ \A h \in N : h \in FrameSet /\ h.op \in {"freeWaitSet", "destroyGuard"}
    /\ \A y \in Ctxs : f \notin Owning(y) /\ N \cap Owning(y) = {}
    /\ \A v \in WaitSetIds, d \in Conds : Quiet({f}, N, v, d)
    /\ \A d \in Conds : Even({f}, N, Draining(d))
    /\ \A v \in WaitSetIds : Single(N, FreeW(v)) /\ (N \cap FreeW(v) # {} <=> v = w /\ refs[w] = 1)

(* Of what counts for wait sets, only this reference goes. *)
OnlyRefOf(w) ==
    /\ One(OwnerRef(w)') + Cardinality(Pins(w)') = One(OwnerRef(w)) + Cardinality(Pins(w)) - 1
    /\ \A v \in WaitSetIds : v # w => (OwnerRef(v)' <=> OwnerRef(v)) /\ Pins(v)' = Pins(v)
    /\ \A d \in Conds : OwnerRef(d)' <=> OwnerRef(d)

LEMMA WaitSetUnref ==
    ASSUME Inv, NEW t \in Threads, stack[t] # <<>>, NEW f, f = Top(t), NEW N, Swapped(t, {f}, N), NEW w \in WaitSetIds,
           Gives(f, N, w), OnlyRefOf(w), OwnerRef(w) \/ \E c \in Conds : Held(Pinning(c, w)),
           refs' = [refs EXCEPT ![w] = @ - 1],
           UNCHANGED <<binding, hooked, made, mine, attached, mu, notified, wakeups, trigger, closed, retired, freed, ctx, owed>>,
           UseSound', TearSound', OneWaiter', OwedSound'
    PROVE  Inv'
<1>1. refs[w] \in Nat /\ refs[w] >= 1 /\ w \in made /\ w \notin freed /\ ~Held(FreeW(w))
      BY RefHeldW
<1>2. /\ refs' \in [Objects -> Nat] /\ refs'[w] = refs[w] - 1 /\ \A o \in Objects : o # w => refs'[o] = refs[o]
  <2>1. refs \in [Objects -> Nat] /\ w \in Objects
        BY DEF Inv, Typed, Objects
  <2> QED  BY <1>1, <2>1
<1>3. Typed'
      BY <1>2 DEF Inv, Typed, Swapped
<1>4. Frames' \subseteq Frames \cup N
      BY DEF Swapped
<1>5. Mutex'
  <2>1. \A u \in WaitSetIds : f \notin InsideOf(u) /\ N \cap InsideOf(u) = {}
        BY DEF Gives, InsideOf
  <2> QED  BY <2>1, MutexKept DEF Inv
<1>6. ScanSound' /\ AddingSound' /\ HookSound'
  <2>1. \A h \in N : h.op # "wait" /\ h.op # "attach"
        BY DEF Gives
  <2>2. AddingSound'
        BY <1>4, <2>1 DEF Inv, AddingSound
  <2> QED  BY <2>1, <2>2, ScanKept, HookKept
<1>7. OwnSound'
  <2>1. \A y \in Ctxs : {f} \cap Owning(y) = {} /\ N \cap Owning(y) = {}
        BY DEF Gives
  <2> QED  BY <2>1, OwnKept DEF Even, Single
<1>8. ASSUME NEW v \in WaitSetIds
      PROVE  Once(FreeW(v))' /\ (Held(FreeW(v))' <=> Held(FreeW(v)) \/ (v = w /\ refs[w] = 1))
  <2>0. Once(FreeW(v)) /\ Single(N, FreeW(v)) /\ (N \cap FreeW(v) # {} <=> v = w /\ refs[w] = 1) /\ f \notin FreeW(v)
        BY DEF Inv, FreeSound, Gives, FreeW
  <2>1. CASE v = w
        BY <1>1, <2>0, <2>1, NewHeld
  <2>2. CASE v # w
    <3>1. Even({f}, N, FreeW(v))
          BY <2>0, <2>2 DEF Even
    <3> QED  BY <2>0, <2>2, <3>1, EvenHeld, EvenOnce
  <2> QED  BY <2>1, <2>2
<1>9. /\ ReleaseSound' /\ EntriesApart' /\ ListedFrom' /\ ListedTo'
      /\ \A v \in WaitSetIds, d \in Conds : Attached(v, d)' <=> Attached(v, d)
  <2>1. ASSUME NEW v \in WaitSetIds, NEW d \in Conds PROVE Quiet({f}, N, v, d)
        BY DEF Gives
  <2>2. \A d \in Conds : wakeups[d] # {} => Even({f}, N, Draining(d))
        BY DEF Gives
  <2> QED  BY <1>8, <2>1, <2>2, RefLists
<1>10. \A d \in Conds : refs'[d] = refs[d]
      BY <1>2, WaitSetsAssumption DEF Objects, WaitSetsAssumption
<1>11. FreeSound'
  <2>1. \A o \in Objects : o \notin made' => refs'[o] = 0
        BY <1>1, <1>2 DEF Inv, FreeSound
  <2>2. \A d \in Conds : d \in freed' <=> d \in made' /\ refs'[d] = 0
        BY <1>10 DEF Inv, FreeSound
  <2>3. ASSUME NEW v \in WaitSetIds
        PROVE  /\ Once(FreeW(v))'
               /\ Held(FreeW(v))' => v \in made' /\ refs'[v] = 0 /\ v \notin freed'
               /\ v \in freed' => v \in made' /\ refs'[v] = 0
               /\ v \in made' /\ refs'[v] = 0 => v \in freed' \/ Held(FreeW(v))'
               /\ v \in freed' \/ v \notin made' => attached'[v] = {}
    <3>1. CASE v = w
          BY <1>1, <1>2, <1>8, <3>1
    <3>2. CASE v # w
      <4>1. refs'[v] = refs[v]
            BY <1>2, <3>2 DEF Objects
      <4> QED  BY <1>8, <3>2, <4>1 DEF Inv, FreeSound
    <3> QED  BY <3>1, <3>2
  <2> QED  BY <2>1, <2>2, <2>3 DEF FreeSound
<1>12. CountedC'
  <2> SUFFICES ASSUME NEW d \in Conds PROVE refs'[d] = One(OwnerRef(d)') + Cardinality(Attachments(d)')
      BY DEF CountedC, One
  <2>1. Attachments(d)' = Attachments(d) /\ (OwnerRef(d)' <=> OwnerRef(d))
        BY <1>9 DEF Attachments, OnlyRefOf
  <2> QED  BY <1>10, <2>1 DEF Inv, CountedC, One
<1>13. CountedW'
  <2> SUFFICES ASSUME NEW v \in WaitSetIds PROVE refs'[v] = One(OwnerRef(v)') + Cardinality(Pins(v)')
      BY DEF CountedW, One
  <2>1. refs[v] = One(OwnerRef(v)) + Cardinality(Pins(v))
        BY DEF Inv, CountedW
  <2>2. CASE v = w
    <3>1. refs'[w] = One(OwnerRef(w)') + Cardinality(Pins(w)')
      <4>1. refs[w] = One(OwnerRef(w)) + Cardinality(Pins(w))
            BY DEF Inv, CountedW
      <4>2. One(OwnerRef(w)') + Cardinality(Pins(w)') = One(OwnerRef(w)) + Cardinality(Pins(w)) - 1
            BY DEF OnlyRefOf
      <4>3. One(OwnerRef(w)) \in Nat /\ Cardinality(Pins(w)) \in Nat
            BY AttachmentsFinite DEF One
      <4> QED  BY ONLY <1>2, <4>1, <4>2, <4>3
    <3> QED  BY ONLY <2>2, <3>1
  <2>3. CASE v # w
    <3>1. refs'[v] = refs[v] /\ (OwnerRef(v)' <=> OwnerRef(v)) /\ Pins(v)' = Pins(v)
          BY <1>2, <2>3 DEF Objects, OnlyRefOf
    <3> QED  BY <2>1, <3>1 DEF One
  <2> QED  BY <2>2, <2>3
<1> QED  BY <1>3, <1>5, <1>6, <1>7, <1>9, <1>11, <1>12, <1>13 DEF Inv

LEMMA FreeFrame ==
    ASSUME NEW w \in WaitSetIds
    PROVE  LET h == Frame("freeWaitSet", "next", w, None, None)
           IN  h \in FrameSet /\ h.op = "freeWaitSet" /\ h.at = "next" /\ h.w = w /\ h.c = None /\ h.x = None /\ h.todo = {}
<1> DEFINE f == Frame("freeWaitSet", "next", w, None, None)
<1>1. f.op = "freeWaitSet" /\ f.at = "next" /\ f.w = w /\ f.c = None /\ f.x = None /\ f.todo = {}
      BY FrameFields
<1>2. f \in RawFrames
      BY NewFrame DEF Ops, Ats
<1> HIDE DEF f
<1>3. f \in FrameSet
      BY <1>1, <1>2 DEF FrameSet, Fit
<1> QED  BY <1>1, <1>3 DEF f

(* The owner's reference of a wait set is given back. *)
LEMMA TeardownEnds ==
    ASSUME Inv, NEW t \in Threads, stack[t] # <<>>, NEW f, f = Top(t), f \in FrameSet, f \in Frames, f.op = "destroyWaitSet",
           f.at = "teardown", NEW w \in WaitSetIds, f.w = w, f.c = None, f.x = None, f.todo = {},
           NEW N, Swapped(t, {f}, N),
           \A h \in N : h \in FrameSet /\ h.op = "freeWaitSet" /\ h.at = "next" /\ h.w = w /\ h.c = None /\ h.x = None /\ h.todo = {},
           N = {} \/ \E h : N = {h}, N # {} <=> refs[w] = 1,
           refs' = [refs EXCEPT ![w] = @ - 1],
           UNCHANGED <<binding, hooked, made, mine, attached, mu, notified, wakeups, trigger, closed, retired, freed, ctx, owed>>
    PROVE  Inv'
<1>1. w \in made /\ w \notin mine /\ w \in closed /\ f \in DestroyW(w) /\ Held(DestroyW(w))
      BY DEF Inv, TearSound, DestroyW, Held
<1>2. OwnerRef(w)
      BY <1>1 DEF OwnerRef
<1>3. \A d : Held(DestroyG(d))' <=> Held(DestroyG(d))
  <2>1. \A d : Even({f}, N, DestroyG(d))
        BY DEF Even, DestroyG
  <2> QED  BY <2>1, EvenHeld
<1>4. \A v \in WaitSetIds : v # w => (Held(DestroyW(v))' <=> Held(DestroyW(v)))
  <2>1. \A v \in WaitSetIds : v # w => Even({f}, N, DestroyW(v))
        BY DEF Even, DestroyW
  <2> QED  BY <2>1, EvenHeld
<1>5. ~Held(DestroyW(w))'
  <2>1. Once(DestroyW(w)) /\ {f} \cap DestroyW(w) # {} /\ N \cap DestroyW(w) = {}
        BY <1>1 DEF Inv, TearSound, DestroyW
  <2> QED  BY <2>1, GoneHeld
<1>6. Frames' \subseteq Frames \cup N
      BY DEF Swapped
<1>7. \A d \in Conds : Destroying(d)' <=> Destroying(d)
      BY <1>3 DEF Destroying
<1>8. UseSound'
  <2>1. \A h \in N : UseOf(h) /\ (h.op = "attach" => h.c \in Conds)
        BY DEF UseOf
  <2> QED  BY <1>7, <2>1, UseKept
<1>9. TearSound'
  <2>1. \A h \in Frames' : TearOf(h)'
        BY <1>6 DEF Inv, TearSound, TearOf
  <2>2. mine' \cap closed' = {}
        BY DEF Inv, TearSound
  <2>3. (\A d \in Conds : Once(DestroyG(d))') /\ \A v \in WaitSetIds : Once(DestroyW(v))'
    <3>1. \A d : N \cap DestroyG(d) = {} /\ N \cap DestroyW(d) = {}
          BY DEF DestroyG, DestroyW
    <3>2. \A S : Once(S) /\ N \cap S = {} => Once(S)'
          BY DEF Swapped
    <3> QED  BY <3>1, <3>2 DEF Inv, TearSound
  <2>4. ASSUME NEW d \in Conds PROVE Unheld(d)' <=> Unheld(d)
    <3>1. Even({f}, N, Keeping(d))
          BY DEF Even, Keeping
    <3> QED  BY <3>1, UnheldKept
  <2>5. binding' = "cpp" => \A d \in Conds \cap made' : Destroying(d)' <=> Unheld(d)'
        BY <1>7, <2>4 DEF Inv, TearSound
  <2>6. binding' = "cpp" => \A v \in WaitSetIds \cap made' : v \in mine' \/ v \in closed' \/ Held(DestroyW(v))'
        BY <1>1, <1>4 DEF Inv, TearSound
  <2> QED  BY <2>1, <2>2, <2>3, <2>5, <2>6 DEF TearSound, TearOf
<1>10. OneWaiter' /\ OwedSound'
  <2>1. \A h \in {f} \cup N : h.op # "wait" /\ h.op # "set"
        OBVIOUS
  <2>2. \A v \in WaitSetIds : {f} \cap WaitOn(v) = {} /\ N \cap WaitOn(v) = {}
        BY <2>1 DEF WaitOn
  <2>3. owed' \subseteq owed /\ \A p \in owed' : p[1] \in wakeups'[p[2]]
        BY OwedStays
  <2> QED  BY <2>1, <2>2, <2>3, OneWaiterKept, OwedKept DEF Even, Single
<1>11. Gives(f, N, w)
  <2>1. \A y \in Ctxs : f \notin Owning(y) /\ N \cap Owning(y) = {}
        BY DEF Owning
  <2>2. ASSUME NEW v \in WaitSetIds, NEW d \in Conds PROVE Quiet({f}, N, v, d)
        BY DEF Quiet, Even, Single, Releasing, Telling, Removing, Adding
  <2>3. \A d \in Conds : Even({f}, N, Draining(d))
        BY DEF Even, Draining
  <2>4. ASSUME NEW v \in WaitSetIds PROVE Single(N, FreeW(v)) /\ (N \cap FreeW(v) # {} <=> v = w /\ refs[w] = 1)
    <3>1. \A h \in N : h \in FreeW(v) <=> v = w
          BY DEF FreeW
    <3> QED  BY <3>1 DEF Single
  <2> QED  BY <2>1, <2>2, <2>3, <2>4 DEF Gives
<1>12. \A v \in WaitSetIds : Pins(v)' = Pins(v)
  <2>1. \A v \in WaitSetIds, d \in Conds : Even({f}, N, Pinning(d, v))
        BY DEF Even, Pinning
  <2>2. \A v \in WaitSetIds, d \in Conds : Held(Pinning(d, v))' <=> Held(Pinning(d, v))
        BY <2>1, EvenHeld
  <2> QED  BY <2>2 DEF Pins
<1>13. OnlyRefOf(w)
  <2>1. ~OwnerRef(w)'
        BY <1>1, <1>5, OwnerOf
  <2>2. One(OwnerRef(w)') = 0 /\ One(OwnerRef(w)) = 1
        BY <1>2, <2>1 DEF One
  <2>3. Pins(w)' = Pins(w) /\ Cardinality(Pins(w)) \in Nat
        BY <1>12, AttachmentsFinite
  <2>4. One(OwnerRef(w)') + Cardinality(Pins(w)') = One(OwnerRef(w)) + Cardinality(Pins(w)) - 1
        BY <2>2, <2>3
  <2>5. \A v \in WaitSetIds : v # w => (OwnerRef(v)' <=> OwnerRef(v))
        BY <1>4, OwnerOf
  <2>6. \A d \in Conds : OwnerRef(d)' <=> OwnerRef(d)
        BY <1>3, OwnerOf
  <2> QED  BY <1>12, <2>4, <2>5, <2>6 DEF OnlyRefOf
<1> QED  BY <1>2, <1>8, <1>9, <1>10, <1>11, <1>13, WaitSetUnref

LEMMA WaitSetTeardownInv ==
    ASSUME Inv, NEW t \in Threads, WaitSetTeardown(t)
    PROVE  Inv'
<1> PICK f, w : f = Top(t) /\ w = Top(t).w
    OBVIOUS
<1>1. /\ stack[t] # <<>> /\ f \in FrameSet /\ f \in Frames /\ f.op = "destroyWaitSet" /\ f.at = "teardown" /\ Fit(f) /\ f \in RawFrames
      /\ f.w = w /\ f.x = None /\ f.c = None /\ w \in WaitSetIds /\ f.todo = {}
  <2>1. At(t, "destroyWaitSet", "teardown")
        BY DEF WaitSetTeardown
  <2>2. /\ stack[t] # <<>> /\ f \in FrameSet /\ f \in Frames /\ f.op = "destroyWaitSet" /\ f.at = "teardown" /\ Fit(f) /\ f \in RawFrames
        BY <2>1, AtTop DEF Inv, Typed
  <2> QED  BY <2>2 DEF Fit
<1>2. WaitSetReleased(t, w, Return(t)) /\ UNCHANGED <<binding, hooked, made, mine, attached, mu, notified, wakeups, trigger, closed, retired, freed, ctx, owed>>
      BY DEF WaitSetTeardown
<1>3. refs' = [refs EXCEPT ![w] = @ - 1]
      BY <1>2 DEF WaitSetReleased
<1> PICK h : h = Frame("freeWaitSet", "next", w, None, None)
    OBVIOUS
<1>4. h \in FrameSet /\ h.op = "freeWaitSet" /\ h.at = "next" /\ h.w = w /\ h.c = None /\ h.x = None /\ h.todo = {}
      BY <1>1, FreeFrame
<1>5. CASE refs[w] = 1
  <2>1. stack' = [stack EXCEPT ![t] = <<h>> \o Tail(stack[t])]
    <3> DEFINE s == Return(t)
    <3>1. s = [stack EXCEPT ![t] = Tail(stack[t])] /\ stack \in [Threads -> Seq(FrameSet)]
          BY DEF Return, Inv, Typed, StacksTyped
    <3>2. stack' = [s EXCEPT ![t] = <<h>> \o s[t]]
          BY <1>2, <1>5 DEF WaitSetReleased
    <3> HIDE DEF s
    <3> QED  BY <3>1, <3>2
  <2> PICK N : N = {h}
      OBVIOUS
  <2>2. Swapped(t, {f}, N)
        BY <1>1, <1>4, <2>1, GotoSwaps DEF Inv, Typed
  <2>3. /\ \A k \in N : k \in FrameSet /\ k.op = "freeWaitSet" /\ k.at = "next" /\ k.w = w /\ k.c = None /\ k.x = None /\ k.todo = {}
        /\ (N # {} <=> refs[w] = 1) /\ \E k : N = {k}
        BY <1>4, <1>5
  <2> QED  BY <1>1, <1>2, <1>3, <2>2, <2>3, TeardownEnds
<1>6. CASE refs[w] # 1
  <2> PICK N : N = {}
      OBVIOUS
  <2>1. Swapped(t, {f}, N)
    <3>1. stack' = Return(t)
          BY <1>2, <1>6 DEF WaitSetReleased
    <3> QED  BY <1>1, <3>1, ReturnGoes DEF Inv, Typed
  <2>2. /\ \A k \in N : k \in FrameSet /\ k.op = "freeWaitSet" /\ k.at = "next" /\ k.w = w /\ k.c = None /\ k.x = None /\ k.todo = {}
        /\ (N # {} <=> refs[w] = 1)
        BY <1>6
  <2> QED  BY <1>1, <1>2, <1>3, <2>1, <2>2, TeardownEnds
<1> QED  BY <1>5, <1>6

(* A condition that goes gives the wait set it has told back. *)
Unpins(f, g, w, c) ==
    /\ f \in FrameSet /\ f \in Frames /\ f.op = "destroyGuard" /\ f.at = "unpin" /\ f.w = w /\ w \notin f.todo /\ f.c = c
    /\ g \in FrameSet /\ g.op = "destroyGuard" /\ g.at = "invalidate" /\ g.w = None /\ g.c = c /\ g.x = None /\ g.todo = f.todo
UnpinsTo(g, N, w) ==
    /\ g \in N /\ (\A a, b \in N : a # g /\ b # g => a = b) /\ (N # {g} <=> refs[w] = 1)
    /\ \A h \in N : h = g \/ /\ h \in FrameSet /\ h.op = "freeWaitSet" /\ h.at = "next"
                             /\ h.w = w /\ h.c = None /\ h.x = None /\ h.todo = {}

LEMMA UnpinEnds ==
    ASSUME Inv, NEW t \in Threads, stack[t] # <<>>, NEW f, f = Top(t), NEW w \in WaitSetIds, NEW c \in Conds, NEW g,
           Unpins(f, g, w, c), NEW N, Swapped(t, {f}, N), UnpinsTo(g, N, w),
           refs' = [refs EXCEPT ![w] = @ - 1],
           UNCHANGED <<binding, hooked, made, mine, attached, mu, notified, wakeups, trigger, closed, retired, freed, ctx, owed>>
    PROVE  Inv'
<1> USE DEF Unpins, UnpinsTo
<1>1. c \in closed /\ OwnerRef(c)
      BY DrainedList
<1>0. \A v \in WaitSetIds : v # None
      BY WaitSetsAssumption DEF WaitSetsAssumption
<1>2. f \in Pinning(c, w) /\ Held(Pinning(c, w))
      BY DEF Pinning, Held
<1>3. ~Held(Pinning(c, w))'
  <2> SUFFICES ASSUME NEW k \in Frames', k \in Pinning(c, w) PROVE FALSE
      BY DEF Held
  <2>1. k \in DestroyG(c) /\ k.op = "destroyGuard"
        BY DEF Pinning, DestroyG
  <2>2. {f} \cap DestroyG(c) # {} /\ Once(DestroyG(c))
        BY DEF DestroyG, Inv, TearSound
  <2>3. Frames' \cap DestroyG(c) \subseteq N
        BY <2>2 DEF Swapped
  <2>4. k = g
        BY <2>1, <2>3
  <2> QED  BY <1>0, <2>4 DEF Pinning
<1>4. \A v \in WaitSetIds, d \in Conds : v # w \/ d # c => (Held(Pinning(d, v))' <=> Held(Pinning(d, v)))
  <2>1. ASSUME NEW v \in WaitSetIds, NEW d \in Conds, v # w \/ d # c PROVE Even({f}, N, Pinning(d, v))
    <3>1. f \in Pinning(d, v) <=> g \in Pinning(d, v)
          BY <1>0, <2>1 DEF Pinning
    <3>2. \A h \in N : h \in Pinning(d, v) => h = g
          BY DEF Pinning
    <3> QED  BY <3>1, <3>2 DEF Even
  <2> QED  BY <2>1, EvenHeld
<1>5. UseSound' /\ TearSound' /\ OneWaiter' /\ OwedSound'
  <2>1. Heir(f, g)
        BY DEF Heir
  <2>2. /\ \A k \in N : k \in FrameSet /\ (Heir(f, k) \/ k.op = "freeWaitSet")
        /\ \E k \in N : Heir(f, k)
        /\ \A k, h \in N : k.op = "destroyGuard" /\ h.op = "destroyGuard" => k = h
        BY <2>1
  <2>3. f.op \in {"attach", "detach", "freeWaitSet", "destroyGuard"} /\ f.at \notin {"close", "alloc"}
        OBVIOUS
  <2>4. owed' \subseteq owed /\ \A p \in owed' : p[1] \in wakeups'[p[2]]
        BY OwedStays
  <2> QED  BY <2>2, <2>3, <2>4, CalmSteps
<1>6. Gives(f, N, w)
  <2>0. \A h \in N : h \in FrameSet /\ h.op \in {"freeWaitSet", "destroyGuard"}
        OBVIOUS
  <2>1. \A y \in Ctxs : f \notin Owning(y) /\ N \cap Owning(y) = {}
        BY DEF Owning
  <2>2. ASSUME NEW v \in WaitSetIds, NEW d \in Conds PROVE Quiet({f}, N, v, d)
    <3>1. \A h \in {f} \cup N : /\ h \notin Releasing(v, d) /\ h \notin Removing(v, d)
                                /\ h \notin Adding(v, d, "acquire") /\ h \notin Adding(v, d, "register")
          BY DEF Releasing, Removing, Adding
    <3>2. (f \in Telling(v, d) <=> g \in Telling(v, d)) /\ \A h \in N : h \in Telling(v, d) => h = g
          BY DEF Telling
    <3> QED  BY <3>1, <3>2 DEF Quiet, Even, Single
  <2>3. \A d \in Conds : Even({f}, N, Draining(d))
        BY DEF Even, Draining
  <2>4. ASSUME NEW v \in WaitSetIds PROVE Single(N, FreeW(v)) /\ (N \cap FreeW(v) # {} <=> v = w /\ refs[w] = 1)
    <3>1. \A h \in N : h \in FreeW(v) <=> v = w /\ h # g
          BY DEF FreeW
    <3>2. N # {g} <=> \E h \in N : h # g
          OBVIOUS
    <3>3. \A a, b \in N : a # g /\ b # g => a = b
          OBVIOUS
    <3> QED  BY <3>1, <3>2, <3>3 DEF Single
  <2> QED  BY <2>0, <2>1, <2>2, <2>3, <2>4 DEF Gives
<1>7. \A d : (Held(DestroyG(d))' <=> Held(DestroyG(d))) /\ (Held(DestroyW(d))' <=> Held(DestroyW(d)))
  <2>1. ASSUME NEW d PROVE Even({f}, N, DestroyG(d)) /\ Even({f}, N, DestroyW(d))
    <3>1. (f \in DestroyG(d) <=> g \in DestroyG(d)) /\ (\A h \in N : h \in DestroyG(d) => h = g) /\ \A h \in {f} \cup N : h \notin DestroyW(d)
          BY DEF DestroyG, DestroyW
    <3> QED  BY <3>1 DEF Even
  <2> QED  BY <2>1, EvenHeld
<1>8. OnlyRefOf(w)
  <2>1. \A v \in WaitSetIds : OwnerRef(v)' <=> OwnerRef(v)
        BY <1>7, OwnerOf
  <2>2. \A d \in Conds : OwnerRef(d)' <=> OwnerRef(d)
        BY <1>7, OwnerOf
  <2>3. \A v \in WaitSetIds : v # w => Pins(v)' = Pins(v)
        BY <1>4 DEF Pins
  <2>4. Pins(w)' = Pins(w) \ {c} /\ c \in Pins(w)
        BY <1>2, <1>3, <1>4 DEF Pins
  <2>5. Cardinality(Pins(w)') = Cardinality(Pins(w)) - 1 /\ Cardinality(Pins(w)) \in Nat
        BY <2>4, AttachmentsFinite, FS_RemoveElement
  <2>6. One(OwnerRef(w)') = One(OwnerRef(w)) /\ One(OwnerRef(w)) \in Nat
        BY <2>1 DEF One
  <2>7. One(OwnerRef(w)') + Cardinality(Pins(w)') = One(OwnerRef(w)) + Cardinality(Pins(w)) - 1
        BY ONLY <2>5, <2>6
  <2> QED  BY <2>1, <2>2, <2>3, <2>7 DEF OnlyRefOf
<1>9. \E d \in Conds : Held(Pinning(d, w))
      BY <1>2
<1> QED  BY <1>5, <1>6, <1>8, <1>9, WaitSetUnref

LEMMA GuardUnpinInv ==
    ASSUME Inv, NEW t \in Threads, GuardUnpin(t)
    PROVE  Inv'
<1> PICK f, w, c : f = Top(t) /\ w = Top(t).w /\ c = Top(t).c
    OBVIOUS
<1>1. /\ stack[t] # <<>> /\ f \in FrameSet /\ f \in Frames /\ f.op = "destroyGuard" /\ f.at = "unpin" /\ Fit(f) /\ f \in RawFrames
      /\ f.w = w /\ f.c = c /\ w \in WaitSetIds /\ w \notin f.todo /\ c \in Conds /\ f.todo \subseteq WaitSetIds
  <2>1. At(t, "destroyGuard", "unpin")
        BY DEF GuardUnpin
  <2>2. /\ stack[t] # <<>> /\ f \in FrameSet /\ f \in Frames /\ f.op = "destroyGuard" /\ f.at = "unpin" /\ Fit(f) /\ f \in RawFrames
        BY <2>1, AtTop DEF Inv, Typed
  <2> QED  BY <2>2 DEF Fit
<1> DEFINE g == [f EXCEPT !.at = "invalidate", !.w = None, !.x = None]
<1>2. WaitSetReleased(t, w, GotoWith(t, g)) /\ UNCHANGED <<binding, hooked, made, mine, attached, mu, notified, wakeups, trigger, closed, retired, freed, ctx, owed>>
      BY DEF GuardUnpin
<1>3. "invalidate" \in Ats
      BY DEF Ats
<1>4. g \in RawFrames /\ g.op = f.op /\ g.w = None /\ g.c = f.c /\ g.x = None /\ g.todo = f.todo /\ g.at = "invalidate"
      BY ONLY <1>1, <1>3 DEF g, RawFrames
<1> HIDE DEF g
<1>10. UNCHANGED <<binding, hooked, made, mine, attached, mu, notified, wakeups, trigger, closed, retired, freed, ctx, owed>>
      BY <1>2
<1>11. g.op = "destroyGuard" /\ g.at = "invalidate" /\ g.w = None /\ g.c = c /\ g.x = None /\ g.todo = f.todo
      BY <1>1, <1>4
<1>5. g \in FrameSet
      BY <1>1, <1>4 DEF FrameSet, Fit
<1>12. Unpins(f, g, w, c)
      BY <1>1, <1>5, <1>11 DEF Unpins
<1>6. refs' = [refs EXCEPT ![w] = @ - 1]
      BY <1>2 DEF WaitSetReleased
<1> PICK h : h = Frame("freeWaitSet", "next", w, None, None)
    OBVIOUS
<1>7. h \in FrameSet /\ h.op = "freeWaitSet" /\ h.at = "next" /\ h.w = w /\ h.c = None /\ h.x = None /\ h.todo = {} /\ h # g
      BY <1>1, <1>4, FreeFrame
<1>8. CASE refs[w] = 1
  <2>1. stack' = [stack EXCEPT ![t] = <<h>> \o (<<g>> \o Tail(stack[t]))]
    <3> DEFINE s == GotoWith(t, g)
    <3>1. s = [stack EXCEPT ![t] = <<g>> \o Tail(stack[t])] /\ stack \in [Threads -> Seq(FrameSet)]
          BY DEF GotoWith, Inv, Typed, StacksTyped
    <3>2. stack' = [s EXCEPT ![t] = <<h>> \o s[t]]
          BY <1>2, <1>8 DEF WaitSetReleased
    <3> HIDE DEF s
    <3> QED  BY <3>1, <3>2
  <2> PICK N : N = {g, h}
      OBVIOUS
  <2>2. Swapped(t, {f}, N)
        BY <1>1, <1>5, <1>7, <2>1, GotoCallSwaps DEF Inv, Typed
  <2>3. /\ \A k \in N : k = g \/ (k \in FrameSet /\ k.op = "freeWaitSet" /\ k.at = "next" /\ k.w = w /\ k.c = None /\ k.x = None /\ k.todo = {})
        /\ (N # {g} <=> refs[w] = 1) /\ (\A a, b \in N : a # g /\ b # g => a = b) /\ g \in N
        BY <1>7, <1>8
  <2>4. UnpinsTo(g, N, w)
        BY ONLY <2>3 DEF UnpinsTo
  <2> QED  BY <1>1, <1>6, <1>10, <1>12, <2>2, <2>4, UnpinEnds
<1>9. CASE refs[w] # 1
  <2> PICK N : N = {g}
      OBVIOUS
  <2>1. Swapped(t, {f}, N)
    <3>1. stack' = GotoWith(t, g)
          BY <1>2, <1>9 DEF WaitSetReleased
    <3> QED  BY <1>1, <1>5, <3>1, GotoWithGoes DEF Inv, Typed
  <2>2. /\ \A k \in N : k = g \/ (k \in FrameSet /\ k.op = "freeWaitSet" /\ k.at = "next" /\ k.w = w /\ k.c = None /\ k.x = None /\ k.todo = {})
        /\ (N # {g} <=> refs[w] = 1) /\ (\A a, b \in N : a # g /\ b # g => a = b) /\ g \in N
        BY <1>9
  <2>4. UnpinsTo(g, N, w)
        BY ONLY <2>2 DEF UnpinsTo
  <2> QED  BY <1>1, <1>6, <1>10, <1>12, <2>1, <2>4, UnpinEnds
<1> QED  BY <1>8, <1>9

(* A condition takes the wait sets that can still be told out of its list, and *)
(* pins them.                                                                  *)
LEMMA GuardDrainInv ==
    ASSUME Inv, NEW t \in Threads, GuardDrain(t)
    PROVE  Inv'
<1> PICK f, c, pinned : f = Top(t) /\ c = Top(t).c /\ pinned = {w \in wakeups[c] : CanAcquireHandle(w)}
    OBVIOUS
<1>1. /\ stack[t] # <<>> /\ f \in FrameSet /\ f \in Frames /\ f.op = "destroyGuard" /\ f.at = "drain" /\ Fit(f) /\ f \in RawFrames
      /\ f.w = None /\ f.x = None /\ f.c = c /\ c \in Conds /\ f.todo = {}
  <2>1. At(t, "destroyGuard", "drain")
        BY DEF GuardDrain
  <2>2. /\ stack[t] # <<>> /\ f \in FrameSet /\ f \in Frames /\ f.op = "destroyGuard" /\ f.at = "drain" /\ Fit(f) /\ f \in RawFrames
        BY <2>1, AtTop DEF Inv, Typed
  <2> QED  BY <2>2 DEF Fit
<1>2. pinned \subseteq WaitSetIds /\ \A v \in WaitSetIds : v \in pinned <=> v \in wakeups[c] /\ refs[v] > 0
      BY <1>1 DEF Inv, Typed, CanAcquireHandle
<1> DEFINE g == [f EXCEPT !.at = "invalidate", !.todo = pinned]
<1>3. /\ refs' = [o \in Objects |-> IF o \in pinned THEN refs[o] + 1 ELSE refs[o]]
      /\ wakeups' = [wakeups EXCEPT ![c] = {}] /\ owed' = {p \in owed : p[2] # c}
      /\ stack' = GotoWith(t, g)
      /\ UNCHANGED <<binding, hooked, made, mine, attached, mu, notified, trigger, closed, retired, freed, ctx>>
      BY DEF GuardDrain
<1>4. "invalidate" \in Ats /\ pinned \in SUBSET Objects
      BY <1>2 DEF Ats, Objects
<1>5. g \in RawFrames /\ g.op = f.op /\ g.w = f.w /\ g.c = f.c /\ g.x = f.x /\ g.todo = pinned /\ g.at = "invalidate"
      BY ONLY <1>1, <1>4 DEF g, RawFrames
<1> HIDE DEF g
<1>6. g \in FrameSet
      BY <1>1, <1>2, <1>5 DEF FrameSet, Fit
<1>7. Swapped(t, {f}, {g})
      BY <1>1, <1>3, <1>6, GotoWithGoes DEF Inv, Typed
<1> PICK N : N = {g}
    OBVIOUS
<1>8. Swapped(t, {f}, N) /\ g \in Frames' /\ Frames' \subseteq Frames \cup N
  <2>1. Swapped(t, {f}, N)
        BY <1>7
  <2> QED  BY <2>1 DEF Swapped
<1>9. c \in made /\ c \in closed /\ f \in DestroyG(c) /\ Once(DestroyG(c))
      BY <1>1 DEF Inv, TearSound, DestroyG
<1>10. /\ refs \in [Objects -> Nat] /\ wakeups \in [Conds -> SUBSET WaitSetIds]
       /\ owed \subseteq WaitSetIds \X Conds
      BY DEF Inv, Typed
<1>11. /\ refs' \in [Objects -> Nat] /\ (\A o \in Objects : o \in pinned => refs'[o] = refs[o] + 1)
       /\ (\A o \in Objects : o \notin pinned => refs'[o] = refs[o])
      BY <1>3, <1>10
<1>12. /\ wakeups' \in [Conds -> SUBSET WaitSetIds] /\ wakeups'[c] = {}
       /\ (\A d \in Conds : d # c => wakeups'[d] = wakeups[d]) /\ owed' \subseteq WaitSetIds \X Conds
      BY <1>1, <1>3, <1>10
<1>13. Typed'
      BY <1>3, <1>8, <1>11, <1>12 DEF Inv, Typed, Swapped
<1>14. Mutex'
  <2>1. \A u \in WaitSetIds : f \notin InsideOf(u) /\ N \cap InsideOf(u) = {}
        BY <1>1, <1>5 DEF InsideOf
  <2> QED  BY <1>1, <1>3, <1>8, <2>1, MutexKept DEF Inv
<1>15. ScanSound' /\ AddingSound' /\ HookSound'
  <2>1. \A h \in N : h.op # "wait" /\ h.op # "attach"
        BY <1>1, <1>5
  <2>2. AddingSound'
        BY <1>3, <1>8, <2>1 DEF Inv, AddingSound
  <2> QED  BY <1>3, <1>8, <2>1, <2>2, ScanKept, HookKept
<1>16. OwnSound'
  <2>1. \A y \in Ctxs : {f} \cap Owning(y) = {} /\ N \cap Owning(y) = {}
        BY <1>1, <1>5 DEF Owning
  <2> QED  BY <1>3, <1>8, <2>1, OwnKept DEF Even, Single
<1>17. UseSound' /\ TearSound' /\ OneWaiter' /\ OwedSound'
  <2>1. Heir(f, g)
        BY <1>1, <1>5 DEF Heir
  <2>2. owed' \subseteq owed
        BY <1>3
  <2>3. ASSUME NEW p \in owed' PROVE p[1] \in wakeups'[p[2]]
    <3>1. p \in owed /\ p[2] # c /\ p[2] \in Conds
          BY <1>3, <1>10
    <3>2. p[1] \in wakeups[p[2]]
          BY <3>1 DEF Inv, OwedSound
    <3> QED  BY <1>12, <3>1, <3>2
  <2> QED  BY <1>1, <1>3, <1>6, <1>7, <2>1, <2>2, <2>3, CalmStep
<1>18. ASSUME NEW v \in WaitSetIds, NEW d \in Conds
       PROVE  /\ Held(Releasing(v, d))' <=> Held(Releasing(v, d))
              /\ Once(Releasing(v, d)) => Once(Releasing(v, d))'
              /\ Held(Removing(v, d))' <=> Held(Removing(v, d))
              /\ Held(Adding(v, d, "acquire"))' <=> Held(Adding(v, d, "acquire"))
              /\ Held(Adding(v, d, "register"))' <=> Held(Adding(v, d, "register"))
  <2>1. /\ {f} \cap Releasing(v, d) = {} /\ N \cap Releasing(v, d) = {} /\ {f} \cap Removing(v, d) = {} /\ N \cap Removing(v, d) = {}
        /\ \A at : {f} \cap Adding(v, d, at) = {} /\ N \cap Adding(v, d, at) = {}
        BY <1>1, <1>5 DEF Releasing, Removing, Adding
  <2> QED  BY <1>8, <2>1, EvenHeld, EvenOnce DEF Even, Single
<1>19. ASSUME NEW v \in WaitSetIds
       PROVE  /\ Held(FreeW(v))' <=> Held(FreeW(v))
              /\ Once(FreeW(v)) => Once(FreeW(v))'
              /\ Held(DestroyW(v))' <=> Held(DestroyW(v))
  <2>1. {f} \cap FreeW(v) = {} /\ N \cap FreeW(v) = {} /\ {f} \cap DestroyW(v) = {} /\ N \cap DestroyW(v) = {}
        BY <1>1, <1>5 DEF FreeW, DestroyW
  <2> QED  BY <1>8, <2>1, EvenHeld, EvenOnce DEF Even, Single
<1>20. ASSUME NEW d \in Conds
       PROVE  /\ Held(DestroyG(d))' <=> Held(DestroyG(d))
              /\ d # c => (Held(Draining(d))' <=> Held(Draining(d)))
              /\ d # c => \A v \in WaitSetIds : /\ Held(Pinning(d, v))' <=> Held(Pinning(d, v))
                                                /\ Held(Telling(v, d))' <=> Held(Telling(v, d))
  <2>1. Even({f}, N, DestroyG(d))
        BY <1>1, <1>5, <1>6 DEF Even, DestroyG
  <2>2. d # c => /\ Even({f}, N, Draining(d))
                 /\ \A v \in WaitSetIds : Even({f}, N, Pinning(d, v)) /\ Even({f}, N, Telling(v, d))
        BY <1>1, <1>5 DEF Even, Draining, Pinning, Telling
  <2> QED  BY <1>8, <2>1, <2>2, EvenHeld
<1>21. ASSUME NEW v \in WaitSetIds
       PROVE  /\ ~Held(Pinning(c, v)) /\ ~Held(Telling(v, c))
              /\ Held(Pinning(c, v))' <=> v \in pinned
              /\ Held(Telling(v, c))' <=> v \in pinned
  <2>0. v # None
        BY WaitSetsAssumption DEF WaitSetsAssumption
  <2>1. \A h : h \in Pinning(c, v) \/ h \in Telling(v, c) => h \in DestroyG(c)
        BY DEF Pinning, Telling, DestroyG
  <2>2. f \notin Pinning(c, v) /\ f \notin Telling(v, c)
        BY <1>1, <2>0 DEF Pinning, Telling
  <2>3. \A h \in Frames : h \in DestroyG(c) => h = f
        BY <1>1, <1>9, OnceSame
  <2>4. (g \in Pinning(c, v) <=> v \in pinned) /\ (g \in Telling(v, c) <=> v \in pinned)
        BY <1>1, <1>5, <1>6, <2>0 DEF Pinning, Telling
  <2>5. \A h \in Frames' : h \in DestroyG(c) => h = g
    <3>1. {f} \cap DestroyG(c) # {}
          BY <1>9
    <3>2. Frames' \cap DestroyG(c) \subseteq N
          BY <1>8, <1>9, <3>1 DEF Swapped
    <3> QED  BY <3>2
  <2> QED  BY <1>8, <2>1, <2>2, <2>3, <2>4, <2>5 DEF Held
<1>22. ReleaseSound' /\ EntriesApart' /\ \A v \in WaitSetIds, d \in Conds : Attached(v, d)' <=> Attached(v, d)
  <2>1. ReleaseSound' /\ EntriesApart'
        BY <1>3, <1>18 DEF Inv, ReleaseSound, EntriesApart, Entry
  <2>2. \A v \in WaitSetIds, d \in Conds : Attached(v, d)' <=> Attached(v, d)
        BY <1>3, <1>18 DEF Attached, Entry
  <2> QED  BY <2>1, <2>2
<1>23. (\A d \in Conds : refs'[d] = refs[d]) /\ \A o \in Objects : refs[o] \in Nat /\ refs'[o] \in Nat /\ (refs'[o] = 0 <=> refs[o] = 0)
  <2>1. \A d \in Conds : d \notin pinned /\ d \in Objects
        BY <1>2, WaitSetsAssumption DEF WaitSetsAssumption, Objects
  <2>2. \A o \in pinned : refs[o] > 0
        BY <1>2
  <2> QED  BY <1>10, <1>11, <2>1, <2>2
<1>24. FreeSound'
  <2>1. \A o \in Objects : o \notin made' => refs'[o] = 0
        BY <1>3, <1>23 DEF Inv, FreeSound
  <2>2. \A d \in Conds : d \in freed' <=> d \in made' /\ refs'[d] = 0
        BY <1>3, <1>23 DEF Inv, FreeSound
  <2>3. \A v \in WaitSetIds : v \in Objects
        BY DEF Objects
  <2> QED  BY <1>3, <1>19, <1>23, <2>1, <2>2, <2>3 DEF Inv, FreeSound
<1>25. CountedC'
  <2> SUFFICES ASSUME NEW d \in Conds PROVE refs'[d] = One(OwnerRef(d)') + Cardinality(Attachments(d)')
      BY DEF CountedC, One
  <2>1. Attachments(d)' = Attachments(d) /\ (OwnerRef(d)' <=> OwnerRef(d))
        BY <1>3, <1>20, <1>22, OwnerOf DEF Attachments
  <2> QED  BY <1>23, <2>1 DEF Inv, CountedC, One
<1>26. CountedW'
  <2> SUFFICES ASSUME NEW v \in WaitSetIds PROVE refs'[v] = One(OwnerRef(v)') + Cardinality(Pins(v)')
      BY DEF CountedW, One
  <2>1. refs[v] = One(OwnerRef(v)) + Cardinality(Pins(v)) /\ v \in Objects
        BY DEF Inv, CountedW, Objects
  <2>2. One(OwnerRef(v)') = One(OwnerRef(v)) /\ One(OwnerRef(v)) \in Nat
    <3>1. OwnerRef(v)' <=> OwnerRef(v)
          BY <1>3, <1>19, OwnerOf
    <3> QED  BY <3>1 DEF One
  <2>3. \A d \in Conds : d \in Pins(v)' <=> d \in Pins(v) \/ (d = c /\ v \in pinned)
        BY <1>20, <1>21 DEF Pins
  <2>4. c \notin Pins(v) /\ Pins(v) \subseteq Conds /\ Pins(v)' \subseteq Conds
        BY <1>21 DEF Pins
  <2>5. CASE v \in pinned
    <3>1. Pins(v)' = Pins(v) \cup {c}
          BY <1>1, <2>3, <2>4, <2>5
    <3>2. Cardinality(Pins(v)') = Cardinality(Pins(v)) + 1 /\ Cardinality(Pins(v)) \in Nat
          BY <2>4, <3>1, AttachmentsFinite, FS_AddElement
    <3>3. refs'[v] = refs[v] + 1
          BY <1>11, <2>1, <2>5
    <3> QED  BY ONLY <2>1, <2>2, <3>2, <3>3
  <2>6. CASE v \notin pinned
    <3>1. Pins(v)' = Pins(v)
          BY <2>3, <2>4, <2>6
    <3>2. refs'[v] = refs[v]
          BY <1>11, <2>1, <2>6
    <3> QED  BY ONLY <2>1, <2>2, <3>1, <3>2
  <2> QED  BY <2>5, <2>6
<1>27. ListedFrom'
  <2>1. ListedFrom
        BY DEF Inv
  <2>2. \A d \in Conds : \A v \in wakeups'[d] : d # c /\ v \in wakeups[d] /\ v \in WaitSetIds
        BY <1>10, <1>12
  <2> QED  BY <1>3, <1>18, <1>20, <2>1, <2>2, ListsMean, ListsMeanNext DEF Entry
<1>28. ListedTo'
  <2> SUFFICES ASSUME NEW v \in WaitSetIds, NEW e \in attached[v]
               PROVE  \/ v \in wakeups'[e.c] \/ Held(Adding(v, e.c, "acquire"))' \/ Held(Adding(v, e.c, "register"))'
                      \/ Held(FreeW(v))' \/ Held(Telling(v, e.c))'
      BY <1>3, ListsMeanNext
  <2>1. e.c \in Conds
        BY DEF Inv, Typed
  <2>2. \/ v \in wakeups[e.c] \/ Held(Adding(v, e.c, "acquire")) \/ Held(Adding(v, e.c, "register"))
        \/ Held(FreeW(v)) \/ Held(Telling(v, e.c))
        BY ListsMean DEF Inv
  <2>3. CASE e.c # c
        BY <1>12, <1>18, <1>19, <1>20, <2>1, <2>2, <2>3
  <2>4. CASE e.c = c /\ v \in wakeups[c]
    <3>1. CASE v \in pinned
          BY <1>21, <2>4, <3>1
    <3>2. CASE v \notin pinned
      <4>1. refs[v] = 0
            BY <1>2, <1>23, <2>4, <3>2 DEF Objects
      <4>2. Held(FreeW(v))
            BY <4>1 DEF Inv, FreeSound
      <4> QED  BY <1>19, <4>2
    <3> QED  BY <3>1, <3>2
  <2>5. CASE e.c = c /\ v \notin wakeups[c]
        BY <1>18, <1>19, <1>21, <2>1, <2>2, <2>5
  <2> QED  BY <2>3, <2>4, <2>5
<1> QED  BY <1>13, <1>14, <1>15, <1>16, <1>17, <1>22, <1>24, <1>25, <1>26, <1>27, <1>28 DEF Inv

-------------------------------------------------------------------------------
(* The application gives an object up.                                         *)

(* No frame is a call of ops about o. *)
LEMMA NotInCall ==
    ASSUME Typed, NEW ops, NEW o
    PROVE  /\ ~InCall(ops, "c", o) => \A h \in Frames : h.op \in ops => h.c # o
           /\ ~InCall(ops, "w", o) => \A h \in Frames : h.op \in ops => h.w # o
BY DEF InCall, FramesOf, Frames

LEMMA CallDestroyWaitSetInv ==
    ASSUME Inv, NEW t \in Threads, NEW w \in WaitSetIds, CallDestroyWaitSet(t, w)
    PROVE  Inv'
<1> PICK g : g = Destroyer(w)
    OBVIOUS
<1> PICK N, P : N = {g} /\ P = {}
    OBVIOUS
<1>1. stack[t] = <<>> /\ w \in mine /\ mine' = mine \ {w} /\ stack' = Call(t, g) /\ UNCHANGED <<binding, hooked, made, attached, mu, notified, wakeups, trigger, refs, closed, retired, freed, ctx, owed>>
      BY DEF CallDestroyWaitSet, Idle
<1>2. \A h \in Frames : h.op \in {"attach", "detach", "wait"} => h.w # w
  <2>1. ~InCall({"attach", "detach", "wait"}, "w", w)
        BY DEF CallDestroyWaitSet
  <2> QED  BY <2>1, NotInCall DEF Inv
<1>3. g \in FrameSet /\ g.op = "destroyWaitSet" /\ g.at = "close" /\ g.w = w /\ g.c = None /\ g.x = None /\ g.todo = {}
  <2>1. w \in Objects /\ w \notin Conds
        BY WaitSetsAssumption DEF Objects, WaitSetsAssumption
  <2> QED  BY <2>1, DestroyerFrame
<1>4. Swapped(t, P, N) /\ Frames' \subseteq Frames \cup N /\ g \in Frames'
  <2>1. Swapped(t, P, N)
        BY <1>1, <1>3, CallGoes DEF Inv, Typed
  <2> QED  BY <2>1 DEF Swapped
<1>5. w \in made /\ w \notin closed
      BY <1>1, MineHeld
<1>6. Typed'
      BY <1>1, <1>4 DEF Inv, Typed, Swapped
<1>7. /\ ReleaseSound' /\ EntriesApart' /\ FreeSound' /\ CountedC' /\ CountedW' /\ ListedFrom' /\ ListedTo'
      /\ AddingSound' /\ Mutex' /\ ScanSound' /\ OwedSound' /\ OneWaiter'
  <2>1. \A h \in P \cup N : h \in FrameSet /\ Soft(h) /\ h.op # "wait" /\ h.op # "set"
        BY <1>3, <1>5 DEF Soft
  <2> QED  BY <1>1, <1>4, <2>1, SoftSteps
<1>8. HookSound' /\ OwnSound'
  <2>1. \A h \in N : h.op # "attach"
        BY <1>3
  <2>2. \A y \in Ctxs : P \cap Owning(y) = {} /\ N \cap Owning(y) = {}
        BY <1>3 DEF Owning
  <2> QED  BY <1>1, <1>4, <2>1, <2>2, HookKept, OwnKept DEF Even, Single
<1>9. \A d \in Conds : (Destroying(d)' <=> Destroying(d)) /\ Once(DestroyG(d))'
  <2>1. \A d \in Conds : Even(P, N, DestroyG(d)) /\ Single(N, DestroyG(d))
        BY <1>3 DEF Even, Single, DestroyG
  <2>2. \A d \in Conds : Once(DestroyG(d))
        BY DEF Inv, TearSound
  <2> QED  BY <1>1, <1>4, <2>1, <2>2, EvenOnce, DestroyingKept
<1>10. UseSound'
  <2>1. \A h \in Frames : h.op = "set" => h.c # w
    <3>1. \A h \in Frames : h.op = "set" => h.c \in Conds
          BY DEF Frames, FrameSet, Fit
    <3> QED  BY <3>1, WaitSetsAssumption DEF WaitSetsAssumption
  <2>2. \A h \in Frames : h.op = "attach" => h.c \in Conds
        BY DEF Frames, FrameSet, Fit
  <2>3. \A h \in Frames' : h \in Frames \/ h.op = "destroyWaitSet"
        BY <1>3, <1>4
  <2> QED  BY <1>1, <1>2, <1>9, <2>1, <2>2, <2>3 DEF Inv, UseSound
<1>11. TearSound'
  <2>1. ASSUME NEW h \in Frames' PROVE TearOf(h)'
    <3>1. CASE h = g
          BY <1>1, <1>3, <1>5, <3>1 DEF TearOf
    <3>2. CASE h # g
      <4>1. h \in Frames
            BY <1>4, <3>2
      <4> QED  BY <1>1, <4>1 DEF Inv, TearSound, TearOf
    <3> QED  BY <3>1, <3>2
  <2>2. mine' \cap closed' = {}
        BY <1>1 DEF Inv, TearSound
  <2>3. ~Held(DestroyW(w))
        BY <1>1 DEF Inv, TearSound, Held, DestroyW
  <2>4. ASSUME NEW v \in WaitSetIds
        PROVE  Once(DestroyW(v))' /\ (Held(DestroyW(v))' <=> Held(DestroyW(v)) \/ v = w)
    <3>0. Once(DestroyW(v)) /\ Single(N, DestroyW(v)) /\ (N \cap DestroyW(v) # {} <=> v = w)
          BY <1>3 DEF Inv, TearSound, Single, DestroyW
    <3>1. CASE v = w
          BY <1>4, <2>3, <3>0, <3>1, NewHeld
    <3>2. CASE v # w
      <4>1. Even(P, N, DestroyW(v))
            BY <3>0, <3>2 DEF Even
      <4> QED  BY <1>4, <3>0, <3>2, <4>1, EvenHeld, EvenOnce
    <3> QED  BY <3>1, <3>2
  <2>5. ASSUME NEW d \in Conds PROVE Unheld(d)' <=> Unheld(d)
    <3>1. Even(P, N, Keeping(d))
          BY <1>3 DEF Even, Keeping
    <3>2. Held(Keeping(d))' <=> Held(Keeping(d))
          BY <1>4, <3>1, EvenHeld
    <3>3. d # w
          BY WaitSetsAssumption DEF WaitSetsAssumption
    <3> QED  BY <1>1, <3>2, <3>3 DEF Unheld
  <2>6. binding' = "cpp" => \A d \in Conds \cap made' : Destroying(d)' <=> Unheld(d)'
        BY <1>1, <1>9, <2>5 DEF Inv, TearSound
  <2>7. binding' = "cpp" => \A v \in WaitSetIds \cap made' : v \in mine' \/ v \in closed' \/ Held(DestroyW(v))'
        BY <1>1, <2>4 DEF Inv, TearSound
  <2> QED  BY <1>9, <2>1, <2>2, <2>4, <2>6, <2>7 DEF TearSound, TearOf
<1> QED  BY <1>6, <1>7, <1>8, <1>10, <1>11 DEF Inv

LEMMA DropGuardInv ==
    ASSUME Inv, NEW t \in Threads, NEW c \in Conds, DropGuard(t, c)
    PROVE  Inv'
<1> PICK g : g = Destroyer(c)
    OBVIOUS
<1> PICK M, B : M = {} /\ B = (binding = "java" \/ Orphaned(c)) /\ B \in BOOLEAN
    OBVIOUS
<1> PICK N : N = IF B THEN M \cup {Destroyer(c)} ELSE M
    OBVIOUS
<1>1. /\ stack[t] = <<>> /\ c \in mine /\ mine' = mine \ {c} /\ UNCHANGED <<binding, hooked, made, attached, mu, notified, wakeups, trigger, refs, closed, retired, freed, ctx, owed>>
      /\ stack' = IF binding = "java" THEN Call(t, Destroyer(c)) ELSE AfterDrop(t, c, mine', ctx, stack)
      /\ ~InCall({"set"} \cup IF binding = "java" THEN {"attach"} ELSE {}, "c", c)
      BY DEF DropGuard, Idle
<1>2. /\ \A h \in Frames : h.op = "set" => h.c # c
      /\ binding = "java" => \A h \in Frames : h.op = "attach" => h.c # c
  <2>1. CASE binding = "java"
    <3>1. ~InCall({"set"} \cup {"attach"}, "c", c)
          BY <1>1, <2>1
    <3> QED  BY <3>1, NotInCall DEF Inv
  <2>2. CASE binding # "java"
    <3>1. ~InCall({"set"} \cup {}, "c", c)
          BY <1>1, <2>2
    <3>2. "set" \in {"set"} \cup {}
          OBVIOUS
    <3> QED  BY <2>2, <3>1, <3>2, NotInCall DEF Inv
  <2> QED  BY <2>1, <2>2
<1>3. g \in FrameSet /\ g.op = "destroyGuard" /\ g.at = "close" /\ g.w = None /\ g.c = c /\ g.x = None /\ g.todo = {}
      BY DestroyerFrame DEF Objects
<1>4. c \in made /\ c \notin closed /\ ~Destroying(c)
  <2>1. c \in made /\ c \notin closed
        BY <1>1 DEF Inv, Typed, TearSound
  <2>2. ~Held(DestroyG(c))
        BY <1>1 DEF Inv, TearSound, Held, DestroyG
  <2> QED  BY <2>1, <2>2 DEF Destroying
<1>5. \A h \in N : h = g
      OBVIOUS
<1>6. Swapped(t, {}, N)
  <2>1. CASE binding = "java"
    <3>1. N = {g}
          BY <2>1
    <3>2. Swapped(t, {}, {g})
          BY <1>1, <1>3, <2>1, CallGoes DEF Inv, Typed
    <3> QED  BY <3>1, <3>2
  <2>2. CASE binding # "java"
    <3>1. stack' = AfterDrop(t, c, mine', ctx', stack)
          BY <1>1, <2>2
    <3>2. /\ Orphaned(c) => Swapped(t, {}, {Destroyer(c)})
          /\ ~Orphaned(c) => Swapped(t, {}, {})
          BY <3>1, StayDropGoes DEF Inv, Typed
    <3>3. (Orphaned(c) => N = {Destroyer(c)}) /\ (~Orphaned(c) => N = {})
          BY <2>2
    <3> QED  BY <3>2, <3>3
  <2> QED  BY <2>1, <2>2
<1>7. Frames' \subseteq Frames \cup N
      BY <1>6 DEF Swapped
<1>8. Typed'
      BY <1>1, <1>6 DEF Inv, Typed, Swapped
<1>9. /\ ReleaseSound' /\ EntriesApart' /\ FreeSound' /\ CountedC' /\ CountedW' /\ ListedFrom' /\ ListedTo'
      /\ AddingSound' /\ Mutex' /\ ScanSound' /\ OwedSound' /\ OneWaiter'
  <2>1. \A h \in {} \cup N : h \in FrameSet /\ Soft(h) /\ h.op # "wait" /\ h.op # "set"
        BY <1>3, <1>4, <1>5 DEF Soft
  <2> QED  BY <1>1, <1>6, <2>1, SoftSteps
<1>10. HookSound' /\ OwnSound'
  <2>1. \A h \in N : h.op # "attach"
        BY <1>3, <1>5
  <2>2. \A y \in Ctxs : {} \cap Owning(y) = {} /\ N \cap Owning(y) = {}
        BY <1>3, <1>5 DEF Owning
  <2> QED  BY <1>1, <1>6, <2>1, <2>2, HookKept, OwnKept DEF Even, Single
<1>11. TearSound' /\ \A d \in Conds : Destroying(d)' => Destroying(d) \/ (d = c /\ B)
  <2>1. \A d \in Conds : Even({}, M, DestroyG(d)) /\ Single(M, DestroyG(d))
        BY DEF Even, Single
  <2>2. \A w \in WaitSetIds : Even({}, M, DestroyW(w)) /\ Single(M, DestroyW(w)) /\ (w \in mine' <=> w \in mine)
        BY <1>1, WaitSetsAssumption DEF Even, Single, WaitSetsAssumption
  <2>3. ASSUME NEW d \in Conds \ {c} PROVE Unheld(d)' <=> Unheld(d)
    <3>1. Even({}, N, Keeping(d))
          BY <1>3, <1>5 DEF Even, Keeping
    <3>2. Held(Keeping(d))' <=> Held(Keeping(d))
          BY <1>6, <3>1, EvenHeld
    <3> QED  BY <1>1, <3>2 DEF Unheld
  <2>4. binding = "cpp" => IF B THEN Unheld(c)' ELSE (Unheld(c)' <=> Destroying(c))
        BY <1>4 DEF Orphaned
  <2>5. B => c \notin mine' /\ ~Destroying(c) /\ {} \cap DestroyG(c) = {}
        BY <1>1, <1>4
  <2>6. mine' \subseteq mine /\ \A h \in M : TearOf(h)'
        BY <1>1
  <2>7. UNCHANGED <<binding, made, closed>>
        BY <1>1
  <2> QED  BY <1>4, <1>6, <2>1, <2>2, <2>3, <2>4, <2>5, <2>6, <2>7, DropTear
<1>12. UseSound'
  <2>1. B /\ binding = "cpp" => Unheld(c)'
        BY DEF Orphaned
  <2>2. \A h \in Frames' : h \in Frames \/ h.op = "destroyGuard"
        BY <1>3, <1>5, <1>7
  <2>3. B /\ binding = "java" => \A h \in Frames' : h.op = "attach" => h.c # c
        BY <1>2, <2>2
  <2>4. \A h \in N : UseOf(h) /\ (h.op = "attach" => h.c \in Conds)
        BY <1>3, <1>5 DEF UseOf
  <2>5. \A h \in Frames' : h.op = "set" => h.c \in mine'
        BY <1>1, <1>2, <2>2 DEF Inv, UseSound
  <2>6. \A h \in Frames' : h.op \in {"attach", "detach", "wait"} => h.w \in mine'
    <3>1. \A h \in Frames : h.op \in {"attach", "detach", "wait"} => h.w \in WaitSetIds /\ h.w \in mine
          BY DEF Inv, UseSound, Frames, FrameSet, Fit
    <3> QED  BY <1>1, <2>2, <3>1, WaitSetsAssumption DEF WaitSetsAssumption
  <2> QED  BY <1>1, <1>6, <1>8, <1>9, <1>10, <1>11, <2>1, <2>3, <2>4, <2>5, <2>6, UseDropped
<1> QED  BY <1>8, <1>9, <1>10, <1>11, <1>12 DEF Inv

-------------------------------------------------------------------------------
(* An object is created.                                                       *)

(* Nothing is known of it before. *)
LEMMA Unmade ==
    ASSUME Inv, NEW o \in Objects, o \notin made
    PROVE  /\ refs[o] = 0 /\ o \notin freed /\ o \notin closed /\ o \notin mine /\ ~OwnerRef(o)
           /\ ~Held(DestroyG(o)) /\ ~Held(DestroyW(o)) /\ ~Held(FreeW(o)) /\ ~Held(Keeping(o))
           /\ o \in Conds => (Attachments(o) = {} /\ \A y \in Ctxs : ctx[y].c # o)
           /\ o \in WaitSetIds => Pins(o) = {}
<1>1. o \notin closed /\ o \notin mine /\ refs[o] = 0
      BY DEF Inv, Typed, FreeSound
<1>2. o \notin freed
      BY DEF Inv, FreeSound, Objects
<1>3. ~Held(DestroyG(o)) /\ ~Held(DestroyW(o))
      BY DEF Inv, TearSound, Held, DestroyG, DestroyW
<1>4. ~Held(FreeW(o))
  <2>1. CASE o \in WaitSetIds
        BY <2>1 DEF Inv, FreeSound
  <2>2. CASE o \notin WaitSetIds
        BY <2>2 DEF Held, FreeW, FrameSet, Fit
  <2> QED  BY <2>1, <2>2
<1>5. ~Held(Keeping(o))
      BY DEF Inv, UseSound, Held, Keeping
<1>6. o \in Conds => Attachments(o) = {}
  <2> SUFFICES ASSUME o \in Conds, Attachments(o) # {} PROVE FALSE
      OBVIOUS
  <2>1. \E w \in WaitSetIds : Attached(w, o)
        BY DEF Attachments
  <2> QED  BY <2>1, RefHeld
<1>7. o \in Conds => \A y \in Ctxs : ctx[y].c # o
  <2> SUFFICES ASSUME o \in Conds, NEW y \in Ctxs, ctx[y].c = o PROVE FALSE
      OBVIOUS
  <2>1. o # None
        BY WaitSetsAssumption DEF WaitSetsAssumption
  <2> QED  BY <2>1 DEF Inv, Typed
<1>8. o \in WaitSetIds => Pins(o) = {}
  <2> SUFFICES ASSUME o \in WaitSetIds, Pins(o) # {} PROVE FALSE
      OBVIOUS
  <2>1. \E c \in Conds : Held(Pinning(c, o))
        BY DEF Pins
  <2> QED  BY <2>1, RefHeldW
<1> QED  BY <1>1, <1>2, <1>3, <1>4, <1>5, <1>6, <1>7, <1>8 DEF OwnerRef

LEMMA CreateInv ==
    ASSUME Inv, NEW t \in Threads, NEW o \in Objects, Create(t, o)
    PROVE  Inv'
<1> PICK g : g = Destroyer(o)
    OBVIOUS
<1>1. /\ stack[t] = <<>> /\ o \notin made /\ made' = made \cup {o} /\ refs' = [refs EXCEPT ![o] = 1]
      /\ UNCHANGED <<binding, hooked, attached, mu, notified, wakeups, trigger, closed, retired, freed, ctx, owed>>
      BY DEF Create, Idle
<1>2. /\ refs[o] = 0 /\ o \notin freed /\ o \notin closed /\ o \notin mine /\ ~OwnerRef(o)
      /\ ~Held(DestroyG(o)) /\ ~Held(DestroyW(o)) /\ ~Held(FreeW(o)) /\ ~Held(Keeping(o))
      /\ (o \in Conds => (Attachments(o) = {} /\ \A y \in Ctxs : ctx[y].c # o))
      /\ (o \in WaitSetIds => Pins(o) = {})
      BY <1>1, Unmade
<1>3. /\ g \in FrameSet /\ g.at = "close" /\ g.todo = {} /\ g.x = None
      /\ (o \in Conds => g.op = "destroyGuard" /\ g.c = o /\ g.w = None)
      /\ (o \notin Conds => g.op = "destroyWaitSet" /\ g.w = o /\ g.c = None)
      BY DestroyerFrame
<1>4. PICK N : /\ Swapped(t, {}, N)
               /\ \/ mine' = mine \cup {o} /\ N = {}
                  \/ mine' = mine /\ N = {g} /\ binding = "cpp"
                  \/ mine' = mine /\ N = {} /\ binding # "cpp"
  <2>1. CASE mine' = mine \cup {o} /\ UNCHANGED stack
    <3>1. Swapped(t, {}, {})
          BY <2>1, StaySwaps DEF Inv, Typed
    <3> QED  BY <2>1, <3>1
  <2>2. CASE UNCHANGED mine /\ stack' = IF binding = "cpp" THEN Call(t, Destroyer(o)) ELSE stack
    <3>1. CASE binding = "cpp"
      <4>1. Swapped(t, {}, {g})
            BY <1>3, <2>2, <3>1, CallGoes DEF Inv, Typed
      <4> QED  BY <2>2, <3>1, <4>1
    <3>2. CASE binding # "cpp"
      <4>1. Swapped(t, {}, {})
            BY <2>2, <3>2, StaySwaps DEF Inv, Typed
      <4> QED  BY <2>2, <3>2, <4>1
    <3> QED  BY <3>1, <3>2
  <2> QED  BY <2>1, <2>2 DEF Create
<1>5. (\A h \in N : h = g /\ h \in FrameSet /\ h.op \in {"destroyGuard", "destroyWaitSet"}) /\ Frames' \subseteq Frames \cup N /\ N \subseteq Frames'
      BY <1>3, <1>4 DEF Swapped
<1> PICK P : P = {}
    OBVIOUS
<1>6. Swapped(t, P, N) /\ \A S : P \cap S = {}
      BY <1>4
<1>7. /\ refs' \in [Objects -> Nat] /\ refs'[o] = 1 /\ \A p \in Objects : p # o => refs'[p] = refs[p]
  <2>1. refs \in [Objects -> Nat]
        BY DEF Inv, Typed
  <2> QED  BY <1>1, <2>1
<1>8. mine \subseteq mine' /\ mine' \subseteq mine \cup {o} /\ made \subseteq made'
      BY <1>1, <1>4
<1>9. Typed'
      BY <1>1, <1>4, <1>7, <1>8 DEF Inv, Typed, Swapped
<1>10. Mutex'
  <2>1. \A u \in WaitSetIds : N \cap InsideOf(u) = {}
        BY <1>5 DEF InsideOf
  <2> QED  BY <1>1, <1>6, <2>1, MutexKept DEF Inv
<1>11. ScanSound' /\ AddingSound' /\ HookSound'
  <2>1. \A h \in N : h.op # "wait" /\ h.op # "attach"
        BY <1>5
  <2>2. AddingSound'
        BY <1>1, <1>5, <2>1 DEF Inv, AddingSound
  <2> QED  BY <1>1, <1>6, <2>1, <2>2, ScanKept, HookKept
<1>12. OwnSound'
  <2>1. \A y \in Ctxs : N \cap Owning(y) = {}
        BY <1>3, <1>5 DEF Owning
  <2> QED  BY <1>1, <1>6, <2>1, OwnKept DEF Even, Single
<1>13. OneWaiter' /\ OwedSound'
  <2>1. \A h \in P \cup N : h.op # "wait" /\ h.op # "set"
        BY <1>5
  <2>2. \A v \in WaitSetIds : P \cap WaitOn(v) = {} /\ N \cap WaitOn(v) = {}
        BY <2>1 DEF WaitOn
  <2>3. owed' \subseteq owed /\ \A p \in owed' : p[1] \in wakeups'[p[2]]
        BY <1>1, OwedStays
  <2> QED  BY <1>1, <1>6, <2>1, <2>2, <2>3, OneWaiterKept, OwedKept DEF Even, Single
<1>14. ASSUME NEW v \in WaitSetIds PROVE (Held(FreeW(v))' <=> Held(FreeW(v))) /\ (Once(FreeW(v)) => Once(FreeW(v))')
  <2>1. N \cap FreeW(v) = {}
        BY <1>5 DEF FreeW
  <2> QED  BY <1>6, <2>1, EvenHeld, EvenOnce DEF Even, Single
<1>15. /\ ReleaseSound' /\ EntriesApart' /\ ListedFrom' /\ ListedTo'
       /\ \A v \in WaitSetIds, d \in Conds : Attached(v, d)' <=> Attached(v, d)
  <2>1. ASSUME NEW v \in WaitSetIds, NEW d \in Conds PROVE Quiet(P, N, v, d)
    <3>1. \A h \in N : /\ h \notin Releasing(v, d) /\ h \notin Removing(v, d) /\ h \notin Telling(v, d)
                       /\ h \notin Adding(v, d, "acquire") /\ h \notin Adding(v, d, "register")
          BY <1>3, <1>5 DEF Releasing, Removing, Adding, Telling
    <3> QED  BY <1>6, <3>1 DEF Quiet, Even, Single
  <2>2. \A d \in Conds : wakeups[d] # {} => Even(P, N, Draining(d))
        BY <1>3, <1>5, <1>6 DEF Even, Draining
  <2> QED  BY <1>1, <1>6, <1>14, <2>1, <2>2, RefLists
<1>16. ASSUME NEW p \in Objects
       PROVE  /\ Once(DestroyG(p)) => Once(DestroyG(p))'
              /\ Once(DestroyW(p)) => Once(DestroyW(p))'
              /\ Held(DestroyG(p))' <=> Held(DestroyG(p)) \/ (N # {} /\ p = o /\ o \in Conds)
              /\ Held(DestroyW(p))' <=> Held(DestroyW(p)) \/ (N # {} /\ p = o /\ o \notin Conds)
  <2>0. o # None /\ p # None
        BY WaitSetsAssumption DEF Objects, WaitSetsAssumption
  <2>1. /\ Single(N, DestroyG(p)) /\ (N \cap DestroyG(p) # {} <=> N # {} /\ p = o /\ o \in Conds)
        /\ Single(N, DestroyW(p)) /\ (N \cap DestroyW(p) # {} <=> N # {} /\ p = o /\ o \notin Conds)
        BY <1>3, <1>5, <2>0 DEF Single, DestroyG, DestroyW
  <2>2. CASE p = o
    <3>1. Once(DestroyG(p)) /\ Once(DestroyW(p))
      <4>1. (p \in Conds => Once(DestroyG(p)) /\ DestroyW(p) = {}) /\ (p \in WaitSetIds => Once(DestroyW(p)) /\ DestroyG(p) = {})
            BY OneSide DEF Inv, TearSound
      <4>2. Once({})
            BY DEF Once
      <4> QED  BY <4>1, <4>2 DEF Objects
    <3>2. ~Held(DestroyG(p)) /\ ~Held(DestroyW(p))
          BY <1>2, <2>2
    <3> QED  BY <1>6, <2>1, <3>1, <3>2, NewHeld
  <2>3. CASE p # o
    <3>1. Even(P, N, DestroyG(p)) /\ Even(P, N, DestroyW(p))
          BY <1>6, <2>1, <2>3 DEF Even
    <3> QED  BY <1>6, <2>1, <2>3, <3>1, EvenHeld, EvenOnce
  <2> QED  BY <2>2, <2>3
<1>17. OwnerRef(o)' /\ \A p \in Objects : p # o => (OwnerRef(p)' <=> OwnerRef(p))
  <2>1. OwnerRef(o)'
        BY <1>1, <1>2 DEF OwnerRef
  <2>2. \A p \in Objects : p # o => (OwnerRef(p)' <=> OwnerRef(p))
        BY <1>1, <1>16 DEF OwnerRef
  <2> QED  BY <2>1, <2>2
<1>18. UseSound'
  <2>1. ASSUME NEW h \in Frames', h.op = "attach" PROVE h.c \in made' /\ ~Destroying(h.c)'
    <3>1. h \in Frames /\ h.c \in made /\ ~Destroying(h.c) /\ h.c \in Objects
          BY <1>5, <2>1 DEF Inv, UseSound, Typed
    <3>2. h.c # o
          BY <1>1, <3>1
    <3> QED  BY <1>1, <1>8, <1>16, <3>1, <3>2 DEF Destroying
  <2>2. \A h \in Frames' : h \in Frames \/ h.op \in {"destroyGuard", "destroyWaitSet"}
        BY <1>5
  <2> QED  BY <1>8, <2>1, <2>2 DEF Inv, UseSound
<1>19. TearSound'
  <2>1. ASSUME NEW h \in Frames' PROVE TearOf(h)'
    <3>1. CASE h \in N
      <4>1. h = g /\ mine' = mine /\ o \in made' /\ o \notin closed'
            BY <1>1, <1>2, <1>4, <1>5, <3>1
      <4> QED  BY <1>2, <1>3, <4>1 DEF TearOf
    <3>2. CASE h \notin N
      <4>1. h \in Frames /\ TearOf(h)
            BY <1>5, <3>2 DEF Inv, TearSound, TearOf
      <4> QED  BY <1>1, <1>8, <4>1 DEF TearOf
    <3> QED  BY <3>1, <3>2
  <2>2. mine' \cap closed' = {}
        BY <1>1, <1>2, <1>8 DEF Inv, TearSound
  <2>3. (\A d \in Conds : Once(DestroyG(d))') /\ \A v \in WaitSetIds : Once(DestroyW(v))'
        BY <1>16 DEF Inv, TearSound, Objects
  <2>4. ASSUME NEW d \in Conds PROVE Held(Keeping(d))' <=> Held(Keeping(d))
    <3>1. Even(P, N, Keeping(d))
          BY <1>5, <1>6 DEF Even, Keeping
    <3> QED  BY <1>6, <3>1, EvenHeld
  <2>5. ASSUME binding = "cpp", NEW d \in Conds, d \in made' PROVE Destroying(d)' <=> Unheld(d)'
    <3>1. CASE d # o
      <4>1. d \in made /\ (Destroying(d) <=> Unheld(d))
            BY <1>1, <2>5, <3>1 DEF Inv, TearSound
      <4>2. Destroying(d)' <=> Destroying(d)
            BY <1>1, <1>16, <3>1 DEF Destroying, Objects
      <4>3. Unheld(d)' <=> Unheld(d)
            BY <1>1, <1>8, <2>4, <3>1 DEF Unheld
      <4> QED  BY <4>1, <4>2, <4>3
    <3>2. CASE d = o
      <4>1. Destroying(d)' <=> N # {}
            BY <1>1, <1>2, <1>16, <3>2 DEF Destroying, Objects
      <4>2. Unheld(d)' <=> o \notin mine'
            BY <1>1, <1>2, <2>4, <3>2 DEF Unheld
      <4>3. N # {} <=> o \notin mine'
            BY <1>2, <1>4, <2>5
      <4> QED  BY <4>1, <4>2, <4>3
    <3> QED  BY <3>1, <3>2
  <2>6. ASSUME binding = "cpp", NEW v \in WaitSetIds, v \in made' PROVE v \in mine' \/ v \in closed' \/ Held(DestroyW(v))'
    <3>0. v \notin Conds /\ v \in Objects
          BY WaitSetsAssumption DEF WaitSetsAssumption, Objects
    <3>1. CASE v # o
      <4>1. v \in mine \/ v \in closed \/ Held(DestroyW(v))
            BY <1>1, <2>6, <3>1 DEF Inv, TearSound
      <4> QED  BY <1>1, <1>8, <1>16, <3>0, <4>1
    <3>2. CASE v = o
      <4>1. N # {} \/ o \in mine'
            BY <1>4, <2>6
      <4> QED  BY <1>16, <3>0, <3>2, <4>1
    <3> QED  BY <3>1, <3>2
  <2> QED  BY <1>1, <2>1, <2>2, <2>3, <2>5, <2>6 DEF TearSound, TearOf
<1>20. FreeSound'
  <2>1. \A p \in Objects : p \notin made' => refs'[p] = 0
        BY <1>1, <1>7 DEF Inv, FreeSound
  <2>2. \A d \in Conds : d \in freed' <=> d \in made' /\ refs'[d] = 0
        BY <1>1, <1>2, <1>7 DEF Inv, FreeSound, Objects
  <2>3. ASSUME NEW v \in WaitSetIds
        PROVE  /\ Once(FreeW(v))'
               /\ Held(FreeW(v))' => v \in made' /\ refs'[v] = 0 /\ v \notin freed'
               /\ v \in freed' => v \in made' /\ refs'[v] = 0
               /\ v \in made' /\ refs'[v] = 0 => v \in freed' \/ Held(FreeW(v))'
               /\ v \in freed' \/ v \notin made' => attached'[v] = {}
    <3>1. CASE v = o
          BY <1>1, <1>2, <1>7, <1>14, <3>1 DEF Inv, FreeSound
    <3>2. CASE v # o
      <4>1. refs'[v] = refs[v] /\ (v \in made' <=> v \in made)
            BY <1>1, <1>7, <3>2 DEF Objects
      <4> QED  BY <1>1, <1>14, <4>1 DEF Inv, FreeSound
    <3> QED  BY <3>1, <3>2
  <2> QED  BY <2>1, <2>2, <2>3 DEF FreeSound
<1>21. CountedC'
  <2> SUFFICES ASSUME NEW d \in Conds PROVE refs'[d] = One(OwnerRef(d)') + Cardinality(Attachments(d)')
      BY DEF CountedC, One
  <2>1. Attachments(d)' = Attachments(d) /\ d \in Objects
        BY <1>15 DEF Attachments, Objects
  <2>2. CASE d = o
    <3>1. Cardinality(Attachments(d)') = 0 /\ One(OwnerRef(d)') = 1
          BY <1>2, <1>17, <2>1, <2>2, FS_EmptySet DEF One
    <3> QED  BY <1>7, <2>2, <3>1
  <2>3. CASE d # o
        BY <1>7, <1>17, <2>1, <2>3 DEF Inv, CountedC, One
  <2> QED  BY <2>2, <2>3
<1>22. CountedW'
  <2> SUFFICES ASSUME NEW v \in WaitSetIds PROVE refs'[v] = One(OwnerRef(v)') + Cardinality(Pins(v)')
      BY DEF CountedW, One
  <2>0. v # None
        BY WaitSetsAssumption DEF WaitSetsAssumption
  <2>1. Pins(v)' = Pins(v) /\ v \in Objects
    <3>1. ASSUME NEW d \in Conds PROVE Held(Pinning(d, v))' <=> Held(Pinning(d, v))
      <4>1. N \cap Pinning(d, v) = {}
        <5>1. g \notin Pinning(d, v)
              BY <1>3, <2>0 DEF Pinning
        <5> QED  BY <1>5, <5>1
      <4>2. Even(P, N, Pinning(d, v))
            BY <1>6, <4>1 DEF Even
      <4> QED  BY <1>6, <4>2, EvenHeld
    <3> QED  BY <3>1 DEF Pins, Objects
  <2>2. CASE v = o
    <3>1. Cardinality(Pins(v)') = 0 /\ One(OwnerRef(v)') = 1
          BY <1>2, <1>17, <2>1, <2>2, FS_EmptySet DEF One
    <3> QED  BY <1>7, <2>2, <3>1
  <2>3. CASE v # o
        BY <1>7, <1>17, <2>1, <2>3 DEF Inv, CountedW, One
  <2> QED  BY <2>2, <2>3
<1> QED  BY <1>9, <1>10, <1>11, <1>12, <1>13, <1>15, <1>18, <1>19, <1>20, <1>21, <1>22 DEF Inv

-------------------------------------------------------------------------------
(* The invariant is inductive.                                                 *)

LEMMA NoFrames ==
    ASSUME \A t \in Threads : Idle(t)
    PROVE  Frames = {} /\ (\A S : Once(S) /\ ~Held(S))
<1>1. \A u \in Threads : Len(stack[u]) = 0
      BY DEF Idle
<1>2. Frames = {}
      BY <1>1 DEF Frames
<1>3. \A S : Once(S)
      BY <1>1 DEF Once
<1> QED  BY <1>2, <1>3 DEF Held

LEMMA InitInv ==
    ASSUME Init
    PROVE  Inv
<1>1. \A u \in Threads : Idle(u)
      BY DEF Init, Idle
<1>2. Frames = {} /\ \A S : Once(S) /\ ~Held(S)
      BY <1>1, NoFrames
<1>3. /\ \A w \in WaitSetIds : attached[w] = {} /\ mu[w] = None
      /\ \A c \in Conds : wakeups[c] = {}
      /\ \A x \in Ctxs : ctx[x].c = None /\ ~ctx[x].live
      /\ \A o \in Objects : refs[o] = 0
      /\ made \subseteq Objects
      BY WaitSetsAssumption DEF Init, WaitSetsAssumption, Objects
<1>4. Typed
  <2>1. <<>> \in Seq(FrameSet)
        OBVIOUS
  <2>2. stack \in [Threads -> Seq(FrameSet)]
        BY <2>1 DEF Init
  <2> QED  BY <1>3, <2>2 DEF Init, Typed, StacksTyped
<1>5. Mutex
      BY <1>2, <1>3 DEF Mutex, HolderRuns
<1>6. AddingSound /\ ScanSound /\ ReleaseSound /\ EntriesApart /\ HookSound /\ UseSound /\ OwedSound /\ OneWaiter
      BY <1>2, <1>3 DEF AddingSound, ScanSound, ReleaseSound, EntriesApart, HookSound, UseSound, OwedSound, OneWaiter, Init
<1>7. OwnSound
      BY <1>2, <1>3 DEF OwnSound, OwnedOnce
<1>8. mine = {} /\ closed = made /\ freed = made
      BY DEF Init
<1>9. TearSound
  <2>1. \A c \in Conds \cap made : Destroying(c) /\ Unheld(c)
        BY <1>2, <1>3, <1>8 DEF Destroying, Unheld
  <2> QED  BY <1>2, <1>8, <2>1 DEF TearSound
<1>10. FreeSound
      BY <1>2, <1>3, <1>8 DEF FreeSound, Objects
<1>11. CountedC /\ CountedW
  <2>1. \A o : ~OwnerRef(o)
        BY <1>2, <1>8 DEF OwnerRef
  <2>2. \A c \in Conds : Attachments(c) = {}
        BY <1>2, <1>3 DEF Attachments, Attached, Entry
  <2>3. \A w \in WaitSetIds : Pins(w) = {}
        BY <1>2 DEF Pins
  <2>4. \A o : One(OwnerRef(o)) = 0
        BY <2>1 DEF One
  <2>5. Cardinality({}) = 0
        BY FS_EmptySet
  <2>6. CountedC
        BY <1>3, <2>2, <2>4, <2>5 DEF CountedC, Objects
  <2>7. CountedW
        BY <1>3, <2>3, <2>4, <2>5 DEF CountedW, Objects
  <2> QED  BY <2>6, <2>7
<1>12. ListedFrom /\ ListedTo
      BY <1>3 DEF ListedFrom, ListedTo
<1> QED  BY <1>4, <1>5, <1>6, <1>7, <1>9, <1>10, <1>11, <1>12 DEF Inv

LEMMA StepInv ==
    ASSUME Inv, NEW t \in Threads, Step(t)
    PROVE  Inv'
<1>1. CASE AttachAlloc(t) \/ AttachRetired(t) \/ AttachAppend(t) \/ AttachAcquire(t) \/ AttachRegister(t) \/ AttachDiscard(t)
      BY <1>1, AttachAllocInv, AttachRetiredInv, AttachAppendInv, AttachAcquireInv, AttachRegisterInv, AttachDiscardInv
<1>2. CASE DetachRemove(t) \/ DetachUnregister(t) \/ DetachRelease(t) \/ DetachFire(t) \/ DetachReturn(t)
      BY <1>2, DetachRemoveInv, DetachUnregisterInv, DetachReleaseInv, DetachFireInv, DetachReturnInv
<1>3. CASE WaitSetClose(t) \/ WaitSetTeardown(t) \/ FreeUnregister(t) \/ FreeRelease(t) \/ FreeFire(t)
      BY <1>3, WaitSetCloseInv, WaitSetTeardownInv, FreeUnregisterInv, FreeReleaseInv, FreeFireInv
<1>4. CASE GuardClose(t) \/ GuardDrain(t) \/ GuardInvalidate(t) \/ GuardUnref(t) \/ GuardFire(t) \/ GuardUnpin(t) \/ GuardTeardown(t)
      BY <1>4, GuardCloseInv, GuardDrainInv, GuardInvalidateInv, GuardUnrefInv, GuardFireInv, GuardUnpinInv, GuardTeardownInv
<1>5. CASE WaitLock(t) \/ WaitScan(t) \/ WaitBlock(t) \/ WaitWake(t) \/ NotifyAll(t)
      BY <1>5, WaitLockInv, WaitScanInv, WaitBlockInv, WaitWakeInv, NotifyAllInv
<1> QED  BY <1>1, <1>2, <1>3, <1>4, <1>5 DEF Step

LEMMA BeginInv ==
    ASSUME Inv, NEW t \in Threads, Begin(t)
    PROVE  Inv'
<1>1. CASE \E o \in Objects : Create(t, o)
      BY <1>1, CreateInv
<1>2. CASE \E w \in WaitSetIds, c \in Conds : CallAttach(t, w, c) \/ CallDetach(t, w, c)
      BY <1>2, CallAttachInv, CallDetachInv
<1>3. CASE \E w \in WaitSetIds : CallDestroyWaitSet(t, w) \/ CallWait(t, w)
      BY <1>3, CallDestroyWaitSetInv, CallWaitInv
<1>4. CASE \E c \in Conds : DropGuard(t, c) \/ \E v \in BOOLEAN : CallSetTrigger(t, c, v)
  <2>1. PICK c \in Conds : DropGuard(t, c) \/ \E v \in BOOLEAN : CallSetTrigger(t, c, v)
        BY <1>4
  <2> QED  BY <2>1, DropGuardInv, CallSetTriggerInv
<1> QED  BY <1>1, <1>2, <1>3, <1>4 DEF Begin

LEMMA StutterInv ==
    ASSUME Inv, UNCHANGED vars
    PROVE  Inv'
<1>1. /\ binding' = binding /\ hooked' = hooked /\ made' = made /\ mine' = mine /\ stack' = stack /\ attached' = attached
      /\ mu' = mu /\ notified' = notified /\ wakeups' = wakeups /\ trigger' = trigger /\ refs' = refs /\ closed' = closed
      /\ retired' = retired /\ freed' = freed /\ ctx' = ctx /\ owed' = owed
      BY DEF vars
<1>2. Frames' = Frames /\ \A S : Once(S)' <=> Once(S)
      BY <1>1 DEF Frames, Once
<1>3. \A S : Held(S)' <=> Held(S)
      BY <1>2 DEF Held
<1>4. Typed' /\ Mutex'
      BY <1>1, <1>2, <1>3 DEF Inv, Typed, StacksTyped, Mutex, HolderRuns, Idle, Top
<1>5. /\ AddingSound' /\ ScanSound' /\ ReleaseSound' /\ EntriesApart' /\ HookSound' /\ OneWaiter' /\ OwedSound' /\ FreeSound'
      BY <1>1, <1>2, <1>3
         DEF Inv, AddingSound, ScanSound, ReleaseSound, EntriesApart, HookSound, OneWaiter, OwedSound, FreeSound, Entry
<1>6. OwnSound'
      BY <1>1, <1>2, <1>3 DEF Inv, OwnSound, OwnedOnce, EntryX
<1>7. UseSound' /\ TearSound'
      BY <1>1, <1>2, <1>3 DEF Inv, UseSound, TearSound, Destroying, Unheld
<1>8. CountedC' /\ CountedW'
  <2>1. \A o \in Objects : OwnerRef(o)' <=> OwnerRef(o)
        BY <1>1, <1>3 DEF OwnerRef
  <2>2. \A w \in WaitSetIds, c \in Conds : /\ Attached(w, c)' <=> Attached(w, c)
                                           /\ Held(Pinning(c, w))' <=> Held(Pinning(c, w))
        BY <1>1, <1>3 DEF Attached, Entry
  <2> QED  BY <1>1, <2>1, <2>2, CountsKept
<1>9. ListedFrom' /\ ListedTo'
      BY <1>1, <1>2, <1>3 DEF Inv, ListedFrom, ListedTo, Entry
<1> QED  BY <1>4, <1>5, <1>6, <1>7, <1>8, <1>9 DEF Inv

(* The inductive invariant holds in every reachable state of the wait sets and *)
(* guard conditions of waitset.zig under either binding.                       *)
THEOREM WaitSetsInvariant == Spec => []Inv
<1>1. Init => Inv
      BY InitInv
<1>2. Inv /\ [Next]_vars => Inv'
      BY StepInv, BeginInv, StutterInv DEF Next
<1> QED  BY <1>1, <1>2, PTL DEF Spec

-------------------------------------------------------------------------------
(* What the invariant means for the properties of the model.                   *)

(* A wait set that a condition lists has memory. *)
LEMMA ListedHeld ==
    ASSUME Inv, NEW c \in Conds, NEW v \in wakeups[c]
    PROVE  v \in WaitSetIds /\ v \notin freed
<1>1. v \in WaitSetIds
      BY DEF Inv, Typed
<1>2. CASE Entry(v, c)
      BY <1>1, <1>2 DEF Entry, Inv, FreeSound
<1>3. CASE Held(Removing(v, c))
  <2>1. v \in mine
        BY <1>3 DEF Held, Removing, Inv, UseSound
  <2> QED  BY <1>1, <2>1, MineHeld
<1> QED  BY <1>1, <1>2, <1>3, ListsMean DEF Inv

(* What somebody operates on, or holds a reference of, has memory. *)
LEMMA TouchedHeld ==
    ASSUME Inv, NEW f \in Frames, NEW o \in Touched(f)
    PROVE  o \notin freed
<1>1. f \in FrameSet /\ Fit(f)
      BY DEF Frames, FrameSet
<1>2. CASE f.op = "attach"
  <2>1. f.w \in WaitSetIds /\ f.c \in Conds /\ o \in {f.w, f.c}
        BY <1>1, <1>2 DEF Fit, Touched
  <2>2. f.w \in mine /\ f.c \in made /\ f.c \notin closed
        BY <1>2 DEF Inv, UseSound, Destroying
  <2>3. f.w \notin freed
        BY <2>1, <2>2, MineHeld
  <2>4. f.c \notin freed
        BY <2>1, <2>2, RefHeld DEF OwnerRef
  <2> QED  BY <2>1, <2>3, <2>4
<1>3. CASE f.op = "detach"
  <2>1. f.w \in WaitSetIds /\ f.c \in Conds /\ (o = f.w \/ (o = f.c /\ f.at \in {"unregister", "release"}))
        BY <1>1, <1>3 DEF Fit, Touched
  <2>2. f.w \notin freed
        BY <1>3, <2>1, MineHeld DEF Inv, UseSound
  <2>3. f.at \in {"unregister", "release"} => f.c \notin freed
    <3> SUFFICES ASSUME f.at \in {"unregister", "release"} PROVE f.c \notin freed
        OBVIOUS
    <3>1. Attached(f.w, f.c)
          BY <1>1, <1>3 DEF Attached, Held, Releasing
    <3> QED  BY <2>1, <3>1, RefHeld
  <2> QED  BY <2>1, <2>2, <2>3
<1>4. CASE f.op = "destroyWaitSet"
  <2>1. f.w \in WaitSetIds /\ o = f.w
        BY <1>1, <1>4 DEF Fit, Touched
  <2>2. OwnerRef(f.w)
        BY <1>1, <1>4 DEF OwnerRef, Held, DestroyW, Inv, TearSound
  <2> QED  BY <2>1, <2>2, RefHeldW
<1>5. CASE f.op = "wait"
  <2>1. f.w \in WaitSetIds /\ f.todo \subseteq Conds /\ (f.at # "scan" => f.todo = {}) /\ (o = f.w \/ o \in f.todo)
        BY <1>1, <1>5 DEF Fit, Touched
  <2>2. f.w \notin freed
        BY <1>5, <2>1, MineHeld DEF Inv, UseSound
  <2>3. ASSUME o \in f.todo PROVE o \notin freed
    <3>1. Entry(f.w, o) /\ f.at = "scan"
          BY <1>5, <2>1, <2>3 DEF Inv, ScanSound
    <3>2. ~Held(Adding(f.w, o, "acquire"))
      <4> SUFFICES ASSUME NEW h \in Frames, h \in Adding(f.w, o, "acquire") PROVE FALSE
          BY DEF Held
      <4>1. h \in InsideOf(f.w) /\ f \in InsideOf(f.w) /\ h.op = "attach"
            BY <1>1, <1>5, <3>1 DEF Adding, InsideOf
      <4>2. h = f
            BY <2>1, <4>1, OnceSame DEF Inv, Mutex
      <4> QED  BY <1>5, <4>1, <4>2
    <3> QED  BY <2>1, <2>3, <3>1, <3>2, RefHeld DEF Attached
  <2> QED  BY <2>1, <2>2, <2>3
<1>6. CASE f.op = "freeWaitSet"
  <2>1. /\ f.w \in WaitSetIds
        /\ o = f.w \/ (\E e \in attached[f.w] : o = e.c) \/ (f.at = "release" /\ o = f.c /\ f.c \in Conds)
        BY <1>1, <1>6 DEF Fit, Touched
  <2>2. Held(FreeW(f.w)) /\ f.w \notin freed
    <3>1. Held(FreeW(f.w))
          BY <1>1, <1>6 DEF Held, FreeW
    <3> QED  BY <2>1, <3>1 DEF Inv, FreeSound
  <2>3. ASSUME NEW e \in attached[f.w], o = e.c PROVE o \notin freed
    <3>1. e.c \in Conds /\ Entry(f.w, e.c)
          BY <2>1 DEF Inv, Typed, Entry
    <3>2. ~Held(Adding(f.w, e.c, "acquire"))
          BY <2>1, <2>2, FreeAlone DEF Held, Adding
    <3> QED  BY <2>1, <2>3, <3>1, <3>2, RefHeld DEF Attached
  <2>4. ASSUME f.at = "release", o = f.c, f.c \in Conds PROVE o \notin freed
    <3>1. Attached(f.w, f.c)
          BY <1>1, <1>6, <2>4 DEF Attached, Held, Releasing
    <3> QED  BY <2>1, <2>4, <3>1, RefHeld
  <2> QED  BY <2>1, <2>2, <2>3, <2>4
<1>7. CASE f.op = "destroyGuard"
  <2>1. /\ f.c \in Conds /\ f.todo \subseteq WaitSetIds /\ f.w \in WaitSetIds \cup {None}
        /\ o = f.c \/ o \in f.todo \/ (f.w # None /\ o = f.w)
        BY <1>1, <1>7 DEF Fit, Touched
  <2>2. CASE o = f.c
    <3>1. OwnerRef(f.c)
          BY <1>1, <1>7 DEF OwnerRef, Held, DestroyG, Inv, TearSound
    <3> QED  BY <2>1, <2>2, <3>1, RefHeld
  <2>3. CASE o \in f.todo \/ (f.w # None /\ o = f.w)
    <3>1. o \in WaitSetIds /\ Held(Pinning(f.c, o))
          BY <1>1, <1>7, <2>1, <2>3 DEF Held, Pinning
    <3> QED  BY <2>1, <3>1, RefHeldW
  <2> QED  BY <2>1, <2>2, <2>3
<1>8. CASE f.op = "set"
  <2>1. f.c \in Conds /\ (o = f.c \/ o \in wakeups[f.c])
        BY <1>1, <1>8 DEF Fit, Touched
  <2>2. f.c \in mine /\ f.c \in made /\ f.c \notin closed
        BY <1>8 DEF Inv, UseSound, Typed, TearSound
  <2>3. f.c \notin freed
        BY <2>1, <2>2, RefHeld DEF OwnerRef
  <2> QED  BY <2>1, <2>3, ListedHeld
<1> QED  BY <1>1, <1>2, <1>3, <1>4, <1>5, <1>6, <1>7, <1>8 DEF Fit

LEMMA FreedUntouchedMeant ==
    ASSUME Inv
    PROVE  FreedUntouched
<1>1. ASSUME NEW t \in Threads, NEW f \in FramesOf(t) PROVE Touched(f) \cap freed = {}
  <2>1. PICK i \in 1..Len(stack[t]) : f = stack[t][i]
        BY DEF FramesOf
  <2>2. stack[t] \in Seq(FrameSet)
        BY DEF Inv, Typed, StacksTyped
  <2>3. f \in Frames
        BY <2>1, <2>2, SeqFacts DEF Frames
  <2> QED  BY <2>3, TouchedHeld
<1>2. ASSUME NEW w \in WaitSetIds, NEW e \in attached[w] PROVE e.c \notin freed
  <2>1. e.c \in Conds /\ Entry(w, e.c)
        BY DEF Inv, Typed, Entry
  <2>2. CASE Held(Adding(w, e.c, "acquire"))
    <3>1. PICK h \in Frames : h.op = "attach" /\ h.c = e.c
          BY <2>2 DEF Held, Adding
    <3>2. e.c \in made /\ e.c \notin closed
          BY <3>1 DEF Inv, UseSound, Destroying
    <3> QED  BY <2>1, <3>2, RefHeld DEF OwnerRef
  <2>3. CASE ~Held(Adding(w, e.c, "acquire"))
        BY <2>1, <2>3, RefHeld DEF Attached
  <2> QED  BY <2>2, <2>3
<1>3. ASSUME NEW c \in Conds PROVE wakeups[c] \cap freed = {}
      BY ListedHeld
<1> QED  BY <1>1, <1>2, <1>3 DEF FreedUntouched

LEMMA ReleasedOnceMeant ==
    ASSUME Inv
    PROVE  ReleasedOnce
<1> SUFFICES ASSUME NEW x \in Ctxs PROVE Cardinality(Owners(x)) = IF ctx[x].live THEN 1 ELSE 0
    BY DEF ReleasedOnce
<1> DEFINE E == {p \in WaitSetIds \X UNION {attached[w] : w \in WaitSetIds} : p[2] \in attached[p[1]] /\ p[2].x = x}
           T == {t \in Threads : \E f \in FramesOf(t) :
                   /\ f.x = x
                   /\ \/ f.op = "attach" /\ f.at \notin {"acquire", "register"}
                      \/ f.op \in {"detach", "destroyGuard"} /\ f.at \in {"unregister", "release", "fire"}
                      \/ f.op = "freeWaitSet" /\ f.at \in {"release", "fire"}}
<1>1. Owners(x) = E \cup T
      BY DEF Owners
<1>2. OwnedOnce(x)
      BY DEF Inv, OwnSound
<1>3. \A t \in Threads : t \in T <=> \E i \in 1..Len(stack[t]) : stack[t][i] \in Owning(x)
  <2>1. \A t \in Threads : \A i \in 1..Len(stack[t]) : stack[t][i] \in FrameSet
    <3>1. \A t \in Threads : stack[t] \in Seq(FrameSet)
          BY DEF Inv, Typed, StacksTyped
    <3> QED  BY <3>1, SeqFacts
  <2> QED  BY <2>1 DEF FramesOf, Owning
<1>4. Held(Owning(x)) <=> \E t \in Threads : t \in T
  <2>1. Held(Owning(x)) <=> \E t \in Threads : \E i \in 1..Len(stack[t]) : stack[t][i] \in Owning(x)
    <3>1. \A f \in Owning(x) : f \in FrameSet
          BY DEF Owning
    <3> QED  BY <3>1 DEF Held, Frames
  <2> HIDE DEF T
  <2> QED  BY <1>3, <2>1
<1>5. \A t, u \in Threads : t \in T /\ u \in T => t = u
  <2> HIDE DEF T
  <2> QED  BY <1>2, <1>3 DEF OwnedOnce, Once
<1>6. T \subseteq Threads
      OBVIOUS
<1>7. /\ \A w \in WaitSetIds : \A e \in attached[w] : e.x = x => <<w, e>> \in E
      /\ \A p \in E : \E w \in WaitSetIds : \E e \in attached[w] : e.x = x /\ p = <<w, e>>
      OBVIOUS
<1> HIDE DEF E, T
<1>8. CASE Held(Owning(x))
  <2>1. E = {} /\ ctx[x].live
        BY <1>2, <1>7, <1>8 DEF OwnedOnce, Held
  <2>2. PICK t \in Threads : t \in T
        BY <1>4, <1>8
  <2>3. Owners(x) = {t}
        BY <1>1, <1>5, <1>6, <2>1, <2>2
  <2> QED  BY <2>1, <2>3, FS_Singleton
<1>9. CASE ~Held(Owning(x)) /\ EntryX(x)
  <2>1. T = {}
        BY <1>4, <1>6, <1>9
  <2>2. PICK w \in WaitSetIds : \E e \in attached[w] : e.x = x
        BY <1>9 DEF EntryX
  <2>3. PICK e \in attached[w] : e.x = x
        BY <2>2
  <2>4. ctx[x].live /\ E = {<<w, e>>}
    <3>1. ctx[x].live
          BY <1>2, <2>3 DEF OwnedOnce
    <3>2. <<w, e>> \in E
          BY <1>7, <2>3
    <3>3. \A p \in E : p = <<w, e>>
          BY <1>2, <1>7, <2>3 DEF OwnedOnce
    <3> QED  BY <3>1, <3>2, <3>3
  <2>5. Owners(x) = {<<w, e>>}
        BY <1>1, <2>1, <2>4
  <2> QED  BY <2>4, <2>5, FS_Singleton
<1>10. CASE ~Held(Owning(x)) /\ ~EntryX(x)
  <2>1. T = {} /\ E = {} /\ ~ctx[x].live
        BY <1>2, <1>4, <1>6, <1>7, <1>10 DEF OwnedOnce, EntryX
  <2>2. Owners(x) = {}
        BY <1>1, <2>1
  <2> QED  BY <2>1, <2>2, FS_EmptySet
<1> QED  BY <1>8, <1>9, <1>10

LEMMA AttachedIsKeptMeant ==
    ASSUME Inv
    PROVE  AttachedIsKept
<1> SUFFICES ASSUME binding = "cpp", NEW w \in WaitSetIds, NEW e \in attached[w] PROVE e.c \notin closed
    BY DEF AttachedIsKept
<1>1. e.c \in Conds /\ e.x \in Ctxs
      BY DEF Inv, Typed, HookSound
<1>2. ctx[e.x].live /\ ctx[e.x].c = e.c
      BY <1>1 DEF Inv, OwnSound, OwnedOnce
<1>3. e.c # None
      BY <1>1, WaitSetsAssumption DEF WaitSetsAssumption
<1>4. e.c \in made /\ ~Unheld(e.c)
      BY <1>1, <1>2, <1>3 DEF Inv, Typed, Unheld
<1> QED  BY <1>1, <1>4 DEF Inv, TearSound, Destroying

LEMMA ReclaimedMeant ==
    ASSUME Inv
    PROVE  Reclaimed
<1> SUFFICES ASSUME \A t \in Threads : Idle(t)
             PROVE  /\ closed \subseteq freed
                    /\ binding = "cpp" =>
                         \A o \in made \ freed : \/ o \in mine
                                                 \/ \E w \in WaitSetIds : \E e \in attached[w] : e.c = o
    BY DEF Reclaimed
<1>1. Frames = {} /\ \A S : ~Held(S)
      BY NoFrames
<1>2. closed \subseteq made /\ made \subseteq Objects
      BY DEF Inv, Typed
<1>3. ASSUME NEW o \in closed PROVE o \in freed
  <2>1. o \in made /\ o \in Objects /\ ~OwnerRef(o) /\ One(OwnerRef(o)) = 0
        BY <1>1, <1>2 DEF OwnerRef, One
  <2>2. CASE o \in Conds
    <3>1. Attachments(o) = {}
      <4> SUFFICES ASSUME NEW w \in WaitSetIds, Attached(w, o) PROVE FALSE
          BY DEF Attachments
      <4>1. PICK e \in attached[w] : e.c = o
            BY <1>1 DEF Attached, Entry
      <4>2. w \in wakeups[o]
            BY <1>1, <4>1, ListsMean DEF Inv
      <4> QED  BY <1>1, <2>2, <4>2, ListsMean DEF Inv
    <3>2. refs[o] = 0
          BY <2>1, <2>2, <3>1, FS_EmptySet DEF Inv, CountedC
    <3> QED  BY <2>1, <2>2, <3>2 DEF Inv, FreeSound
  <2>3. CASE o \in WaitSetIds
    <3>1. Pins(o) = {}
          BY <1>1 DEF Pins
    <3>2. refs[o] = 0
          BY <2>1, <2>3, <3>1, FS_EmptySet DEF Inv, CountedW
    <3> QED  BY <1>1, <2>1, <2>3, <3>2 DEF Inv, FreeSound
  <2> QED  BY <2>1, <2>2, <2>3 DEF Objects
<1>4. ASSUME binding = "cpp", NEW o \in made \ freed, o \notin mine
      PROVE  \E w \in WaitSetIds : \E e \in attached[w] : e.c = o
  <2>1. o \notin closed /\ o \in Objects
        BY <1>2, <1>3
  <2>2. o \in Conds
        BY <1>1, <1>4, <2>1 DEF Inv, TearSound, Objects
  <2>3. ~Unheld(o)
        BY <1>1, <1>4, <2>1, <2>2 DEF Inv, TearSound, Destroying
  <2>4. PICK y \in Ctxs : ctx[y].live /\ ctx[y].c = o
        BY <1>1, <1>4, <2>3 DEF Unheld
  <2>5. OwnedOnce(y)
        BY DEF Inv, OwnSound
  <2>6. PICK w \in WaitSetIds : \E e \in attached[w] : e.x = y
        BY <1>1, <2>4, <2>5 DEF OwnedOnce, EntryX
  <2> QED  BY <2>4, <2>5, <2>6 DEF OwnedOnce
<1> QED  BY <1>3, <1>4

LEMMA SleeperMeant ==
    ASSUME Inv
    PROVE  SleeperOwedNothing
<1> SUFFICES ASSUME NEW t \in Threads, NEW p \in owed, At(t, "wait", "asleep"), Top(t).w = p[1], ~notified[p[1]]
             PROVE  InCall({"set"}, "c", p[2])
    BY DEF SleeperOwedNothing
<1>1. Top(t) \in Frames /\ Top(t).op = "wait" /\ Top(t).at = "asleep"
      BY AtTop DEF Inv, Typed
<1>2. PICK h \in Frames : h.op = "set" /\ h.c = p[2]
      BY <1>1 DEF Inv, OwedSound
<1>3. PICK u \in Threads : \E i \in 1..Len(stack[u]) : stack[u][i] = h
      BY <1>2 DEF Frames
<1> QED  BY <1>2, <1>3 DEF InCall, FramesOf

(* Whichever side is torn down first, and whatever a release hook destroys on  *)
(* the way, no step of any thread touches a freed wait set or condition, and   *)
(* no list of a living one names it (waitset.zig, reallyDeinit and drain).     *)
THEOREM WaitSetsFreedUntouched == Spec => []FreedUntouched
BY WaitSetsInvariant, FreedUntouchedMeant, PTL

(* Every keep-alive context of an attachment is released exactly once, however *)
(* the attachment ends: detach, the destruction of either side, or an attach   *)
(* that is refused (fireRelease, and the bindings' release contexts).          *)
THEOREM WaitSetsReleasedOnce == Spec => []ReleasedOnce
BY WaitSetsInvariant, ReleasedOnceMeant, PTL

(* While a C++ condition is attached nothing begins to destroy it, though the  *)
(* application dropped its last shared_ptr (WaitSetSupport::attach_condition). *)
THEOREM WaitSetsAttachedIsKept == Spec => []AttachedIsKept
BY WaitSetsInvariant, AttachedIsKeptMeant, PTL

(* With no call being made, whatever the application gave up and no wait set   *)
(* holds is freed (beginTeardown, release and reallyDeinit).                   *)
THEOREM WaitSetsReclaimed == Spec => []Reclaimed
BY WaitSetsInvariant, ReclaimedMeant, PTL

(* No wakeup is lost between a wait's scan and its sleep (vtWait's `notified`  *)
(* flag under cv_mu, and wakeNotify).                                          *)
THEOREM WaitSetsSleeperOwedNothing == Spec => []SleeperOwedNothing
BY WaitSetsInvariant, SleeperMeant, PTL

(* The thread inside a wait set's lock waits for no other lock and runs no     *)
(* release hook.                                                               *)
THEOREM WaitSetsHolderRuns == Spec => []HolderRuns
<1>1. Inv => HolderRuns
      BY DEF Inv, Mutex
<1> QED  BY <1>1, WaitSetsInvariant, PTL
==============================================================================
