--------------------------- MODULE ProcessLifecycle ---------------------------
(***************************************************************************)
(* What userprog/syscall.h promises of Exec, Exit and Join, with no table, *)
(* no semaphore and no scheduler: a process is created by another, exits   *)
(* with a code, and its parent gets that code, once.                       *)
(***************************************************************************)
EXTENDS Integers

CONSTANTS Ids,          \* process ids; 0 is the program NachOS was started with
          Codes         \* exit codes

VARIABLES life,         \* "none", "live", "exited" or "reaped"
          parentOf,     \* who created it, -1 before that and for process 0
          codeOf,       \* the code it exited with, 0 before that
          answer        \* what its last Exec or Join returned, 0 before that

lvars == <<life, parentOf, codeOf, answer>>

LifeInit ==
    /\ life = [i \in Ids |-> IF i = 0 THEN "live" ELSE "none"]
    /\ parentOf = [i \in Ids |-> -1]
    /\ codeOf = [i \in Ids |-> 0]
    /\ answer = [i \in Ids |-> 0]

\* A process calls Exec or Join; the answer is still to come.
Ask(p) ==
    /\ life[p] = "live"
    /\ answer' = [answer EXCEPT ![p] = 0]
    /\ UNCHANGED <<life, parentOf, codeOf>>

\* The new process exists before Exec returns to its creator.
Spawn(p, i) ==
    /\ life[p] = "live"
    /\ life[i] = "none"
    /\ life' = [life EXCEPT ![i] = "live"]
    /\ parentOf' = [parentOf EXCEPT ![i] = p]
    /\ UNCHANGED <<codeOf, answer>>

SpawnReturns(p, i) ==
    /\ life[p] = "live"
    /\ life[i] # "none"
    /\ parentOf[i] = p
    /\ answer' = [answer EXCEPT ![p] = i]
    /\ UNCHANGED <<life, parentOf, codeOf>>

\* Exec or Join returns -1.
Refuse(p) ==
    /\ life[p] = "live"
    /\ answer' = [answer EXCEPT ![p] = -1]
    /\ UNCHANGED <<life, parentOf, codeOf>>

Leave(i, c) ==
    /\ life[i] = "live"
    /\ life' = [life EXCEPT ![i] = "exited"]
    /\ codeOf' = [codeOf EXCEPT ![i] = c]
    /\ UNCHANGED <<parentOf, answer>>

\* Join returns the code, to the parent, after the exit.
Reap(p, i) ==
    /\ life[p] = "live"
    /\ life[i] = "exited"
    /\ parentOf[i] = p
    /\ life' = [life EXCEPT ![i] = "reaped"]
    /\ answer' = [answer EXCEPT ![p] = codeOf[i]]
    /\ UNCHANGED <<parentOf, codeOf>>

LifeNext ==
    \E p \in Ids :
        \/ Ask(p)
        \/ Refuse(p)
        \/ \E c \in Codes : Leave(p, c)
        \/ \E i \in Ids : Spawn(p, i) \/ SpawnReturns(p, i) \/ Reap(p, i)

LifeSpec == LifeInit /\ [][LifeNext]_lvars
=============================================================================
