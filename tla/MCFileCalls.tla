------------------------------ MODULE MCFileCalls ------------------------------
(* The file calls of both stages, with few processes, descriptors and bytes. *)
EXTENDS FileCalls, EarlyFiles, TLC

\* What a behaviour exercises: the stage before, one process in either build, or
\* two in the native build, where a write can come between another's steps.
VARIABLE setting

vars == <<fvars, evars, setting>>

FileSymmetry == Permutations(Procs) \cup Permutations(Addresses)

\* What is not exercised keeps one of its initial states.
MCInit ==
  /\ setting \in {"early", "alone", "together"} /\ Init /\ EarlyInit
  /\ setting = "together" => ~stub
  /\ IF setting = "early" THEN stub /\ \A n \in Names : files[n] = Absent
     ELSE leftFirst /\ \A n \in EarlyNames : hosts[n] = NoFile

Untouched(q) == flags[q] = {} /\ \A d \in FileDescriptors : list[q][d].type = Unset

\* Bound: all processes but one have made no call with a descriptor.
Alone == \E p \in Procs : \A q \in Procs \ {p} : Untouched(q)

\* Bound: each process has the first file descriptor only.
OneEach == \A q \in Procs : flags[q] \subseteq {2} /\ list[q][3].type = Unset

\* Bound: of two processes that misused a pointer, only a write it has hit goes on.
Followed == sound \/ \E p \in Procs : InCall(p) /\ Deleted(p)

MCNext ==
  /\ UNCHANGED setting
  /\ \/ setting = "alone" /\ Next /\ Alone' /\ UNCHANGED evars
     \/ setting = "together" /\ Followed /\ Next /\ OneEach' /\ UNCHANGED evars
     \/ setting = "early" /\ EarlyNext /\ UNCHANGED fvars

MCSpec == MCInit /\ [][MCNext]_vars
===============================================================================
