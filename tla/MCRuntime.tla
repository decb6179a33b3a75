----------------------------- MODULE MCRuntime -----------------------------
(* Instances of Runtime for TLC. *)
EXTENDS Runtime, TLC

CONSTANT c1

(* Every timer is in the context c1. *)
HomeOf == [tm \in Timers |-> c1]

(* Threads of one kind, requests and timers are interchangeable. *)
Symmetry ==
    Permutations(Workers) \union Permutations(Clients) \union Permutations(Plain)
        \union Permutations(Timers)
=============================================================================
