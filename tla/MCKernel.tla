------------------------------- MODULE MCKernel -------------------------------
(***************************************************************************)
(* Kernel on a small instance.  The value of a semaphore and the number of *)
(* interrupts under way grow without bound when nobody calls P, so the     *)
(* calls of V and the start of an operation stop at a bound.               *)
(***************************************************************************)
EXTENDS Kernel

CONSTANTS MaxValue,     \* V is called only while the value is below
          MaxPending    \* an operation is started only while fewer are under way

MCInitVal == [s \in Sems |-> 0]

MCNext ==
    \/ Yield
    \/ Switch
    \/ Finish
    \/ IdleHalt
    \/ Halt
    \/ \E t \in Threads : Fork(t)
    \/ \E s \in Sems : Wait(s) \/ Take(s)
    \/ \E s \in Sems : value[s] < MaxValue /\ V(s)
    \/ \E s \in Sems : value[s] + pending[s] < MaxPending /\ StartIO(s)
    \/ \E s \in Sems : Interrupt(s)

MCSpec == Init /\ [][MCNext]_kvars

MCFairSpec == MCSpec /\ Fairness
=============================================================================
