---------------------------- MODULE BoundedPool ----------------------------
(***************************************************************************)
(* What a Go channel used as a counting semaphore promises to the tasks    *)
(* that send on it before their work and receive from it after: at most    *)
(* Capacity tasks run, a task waits only while the pool is full, tasks     *)
(* that wait are admitted in the order in which they came, and a task that *)
(* leaves admits the next one in the same step. A restart of the process   *)
(* empties the pool.                                                       *)
(***************************************************************************)
EXTENDS Naturals, FiniteSets, Sequences

CONSTANTS Tasks, Capacity

VARIABLES
    running,  \* tasks that hold a place
    waiting   \* tasks blocked on the send, in order of arrival

pool == <<running, waiting>>

Init == running = {} /\ waiting = <<>>

Arrive(t) ==
    /\ t \notin running
    /\ \A i \in 1 .. Len(waiting) : waiting[i] # t
    /\ \/ /\ Cardinality(running) < Capacity
          /\ running' = running \cup {t}
          /\ UNCHANGED waiting
       \/ /\ Cardinality(running) >= Capacity
          /\ waiting' = Append(waiting, t)
          /\ UNCHANGED running

Leave(t) ==
    /\ t \in running
    /\ \/ /\ waiting = <<>>
          /\ running' = running \ {t}
          /\ UNCHANGED waiting
       \/ /\ waiting # <<>>
          /\ running' = (running \ {t}) \cup {Head(waiting)}
          /\ waiting' = Tail(waiting)

Restart == running' = {} /\ waiting' = <<>>

Next == (\E t \in Tasks : Arrive(t) \/ Leave(t)) \/ Restart

Spec == Init /\ [][Next]_pool
=============================================================================
