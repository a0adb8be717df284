---------------------------- MODULE OncePerTick ----------------------------
(***************************************************************************)
(* What SynchronizedClock promises the processes that schedule one flow:   *)
(* of a store, each tick is taken by one of them, until the clock is reset.*)
(***************************************************************************)
EXTENDS Naturals

CONSTANTS
    Ticks,  \* when the flow is due
    Stores  \* where clocks are kept: Redis, or the memory of each process

VARIABLE
    taken   \* how often a store gave each tick away since its last reset

Init == taken = [s \in Stores |-> [t \in Ticks |-> 0]]

Take(s, t) ==
    /\ taken[s][t] = 0
    /\ taken' = [taken EXCEPT ![s][t] = 1]

Reset(s) == taken' = [taken EXCEPT ![s] = [t \in Ticks |-> 0]]

Next == \E s \in Stores : Reset(s) \/ \E t \in Ticks : Take(s, t)

Spec == Init /\ [][Next]_taken
=============================================================================
