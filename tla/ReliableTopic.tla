--------------------------- MODULE ReliableTopic ---------------------------
(* What a reliable writer promises its readers, with no messages in it: the  *)
(* changes 1, 2, 3... of one writer, and for each reader the place `through' *)
(* up to which it has been in the current match.  A reader goes through the  *)
(* changes in order and is handed each of them, but for those it is not      *)
(* owed.  RtpsReliable implements this.                                      *)
EXTENDS Integers

CONSTANTS Readers,  \* the reliable readers
          MaxSN     \* bound: changes written

VARIABLES
    written,    \* how many changes there are
    gone,       \* those the writer's history did not keep
    from,       \* the first change each reader is owed
    through,    \* the last change each reader has been through in this match
    handed,     \* how often each reader was handed each change in this match
    ever        \* the changes each reader was ever handed

SN == 1..MaxSN

topicVars == <<written, gone, from, through, handed, ever>>

(* What a reader may pass over: changes that are gone, changes of before its *)
(* match, and those an earlier match handed it.                              *)
NotOwed(r) == gone \union 1..(from[r] - 1) \union ever[r]

Init ==
    /\ written = 0 /\ gone = {}
    /\ from = [r \in Readers |-> 1] /\ through = [r \in Readers |-> 0]
    /\ handed = [r \in Readers |-> [s \in SN |-> 0]] /\ ever = [r \in Readers |-> {}]

(* A change is written, and the history makes room for it. *)
Write ==
    /\ written' = written + 1
    /\ \E S \in SUBSET (1..written) : gone' = gone \union S
    /\ UNCHANGED <<from, through, handed, ever>>

(* The writer matches a reader that it owes no history: the reader is owed   *)
(* what is written from now on.                                              *)
Match(r) ==
    /\ from' = [from EXCEPT ![r] = written + 1]
    /\ UNCHANGED <<written, gone, through, handed, ever>>

(* The reader's match with the writer begins or ends. *)
Restart(r) ==
    /\ through' = [through EXCEPT ![r] = 0]
    /\ handed' = [handed EXCEPT ![r] = [s \in SN |-> 0]]
    /\ UNCHANGED <<written, gone, from, ever>>

(* The reader goes on to the n-th change: it is handed D, each once, and the *)
(* others on its way are not owed to it.                                     *)
Advance(r, n) ==
    LET way == (through[r] + 1)..n IN
    \E D \in SUBSET way :
        /\ way \ D \subseteq NotOwed(r)
        /\ through' = [through EXCEPT ![r] = n]
        /\ handed' = [handed EXCEPT ![r] = [s \in SN |-> IF s \in D THEN @[s] + 1 ELSE @[s]]]
        /\ ever' = [ever EXCEPT ![r] = @ \union D]
        /\ UNCHANGED <<written, gone, from>>

Next ==
    \/ Write
    \/ \E r \in Readers : Match(r) \/ Restart(r)
    \/ \E r \in Readers : \E n \in (through[r] + 1)..written : Advance(r, n)

Spec == Init /\ [][Next]_topicVars
=============================================================================
