-------------------------------- MODULE MCParts --------------------------------
(***************************************************************************)
(* The parts that share no state: the attachments of WaitSets and the       *)
(* natives of JavaRuntime, which the language bindings keep beside the      *)
(* core, and what a reader keeps of each of its writers: the intervals of   *)
(* ReceivedSet and the coherent sets of GroupSets.  A behaviour exercises   *)
(* one of them and leaves the others as they started.                      *)
(***************************************************************************)
EXTENDS WaitSets, JavaRuntime, ReceivedSet, GroupSets, TLC

VARIABLE part   \* what the behaviour exercises

PartsInit ==
    /\ Init /\ JavaInit /\ ReceivedInit /\ GroupInit
    /\ part \in {"attachments", "natives", "intervals", "groups"}
    /\ part # "attachments" => /\ binding = "java" /\ hooked
                               /\ made = CHOOSE b \in Bygone : TRUE

PartsNext ==
    \/ part = "attachments" /\ Next         /\ UNCHANGED <<part, jvars, rvars, gvars>>
    \/ part = "natives"     /\ JavaNext     /\ UNCHANGED <<part, vars, rvars, gvars>>
    \/ part = "intervals"   /\ ReceivedNext /\ UNCHANGED <<part, vars, jvars, gvars>>
    \/ part = "groups"      /\ GroupNext    /\ UNCHANGED <<part, vars, jvars, rvars>>

PartsSpec == PartsInit /\ [][PartsNext]_<<part, vars, jvars, rvars, gvars>>

(* Threads and contexts are interchangeable. *)
Symmetry == Permutations(Threads) \cup Permutations(Ctxs)
===============================================================================
