-------------------------- MODULE CountingSemaphore --------------------------
(***************************************************************************)
(* What threads/synch.h promises of the class Semaphore: an integer that   *)
(* is never negative, a P that waits until it is positive and then takes   *)
(* one from it, a V that adds one.  There is no CPU here, no ready list    *)
(* and no sleep queue: a waiting thread is a member of a set.              *)
(***************************************************************************)
EXTENDS Integers

CONSTANTS Threads,      \* the threads that may call P and V
          Sems,         \* the semaphores
          InitVal       \* the initial value of each

VARIABLES permits,      \* permits[s]: the semaphore's value
          waiting       \* waiting[s]: the threads inside P that have not returned

svars == <<permits, waiting>>

SemInit ==
    /\ permits = InitVal
    /\ waiting = [s \in Sems |-> {}]

\* P returns at once.
Acquire(s) ==
    /\ permits[s] > 0
    /\ permits' = [permits EXCEPT ![s] = @ - 1]
    /\ UNCHANGED waiting

\* P finds nothing to take; a thread waits for one semaphore at a time.
Request(t, s) ==
    /\ permits[s] = 0
    /\ \A r \in Sems : t \notin waiting[r]
    /\ waiting' = [waiting EXCEPT ![s] = @ \cup {t}]
    /\ UNCHANGED permits

\* A waiting P returns.
Grant(t, s) ==
    /\ t \in waiting[s]
    /\ permits[s] > 0
    /\ permits' = [permits EXCEPT ![s] = @ - 1]
    /\ waiting' = [waiting EXCEPT ![s] = @ \ {t}]

\* V.
Release(s) ==
    /\ permits' = [permits EXCEPT ![s] = @ + 1]
    /\ UNCHANGED waiting

SemNext ==
    \E s \in Sems :
        \/ Acquire(s)
        \/ Release(s)
        \/ \E t \in Threads : Request(t, s) \/ Grant(t, s)

SemSpec == SemInit /\ [][SemNext]_svars
=============================================================================
