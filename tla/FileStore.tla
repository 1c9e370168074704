------------------------------- MODULE FileStore -------------------------------
(***************************************************************************)
(* What filesys/filesys.cc promises its callers: files of a fixed size     *)
(* under unique names on a disk of a fixed capacity. An operation takes    *)
(* effect as a whole; if the machine stops during one, it has or has not   *)
(* taken effect, or the disk is damaged, as the file's comment concedes.   *)
(***************************************************************************)
EXTENDS Integers, FiniteSets

CONSTANTS Names, NoName, Sizes,
          Capacity,     \* sectors left for headers and data
          MaxFiles,     \* entries of the directory
          MaxSize       \* sectors a header can describe

VARIABLES files,        \* name -> size in sectors, or Absent
          call,         \* the operation under way, or None
          refused,      \* the last request that was refused
          damaged       \* nothing is promised any more

svars == <<files, call, refused, damaged>>

Absent == -1
None == [op |-> "none"]
NoRefusal == [name |-> NoName, size |-> -1]
Requests == [name : Names \cup {NoName}, size : Sizes \cup {-1}]
Stored(f) == {n \in Names : f[n] # Absent}

StoreInit ==
  /\ files = [n \in Names |-> Absent]
  /\ call = None /\ refused = NoRefusal /\ damaged = FALSE

\* A file takes its data sectors and one for its header, its piece 0.
Pieces == UNION {{n} \X (0..files[n]) : n \in Stored(files)}
Fits(k) ==
  /\ Cardinality(Stored(files)) < MaxFiles
  /\ k + 1 + Cardinality(Pieces) <= Capacity

After == [files EXCEPT ![call.name] = IF call.op = "create" THEN call.size ELSE Absent]

\* A request is refused only for a reason; a size of -1 stands for Remove.
Refuse(n, k) ==
  /\ call = None
  /\ IF k = -1 THEN files[n] = Absent ELSE files[n] # Absent \/ ~Fits(k)
  /\ refused' = [name |-> n, size |-> k]
  /\ UNCHANGED <<files, call, damaged>>

BeginCreate(n, k) ==
  /\ call = None /\ files[n] = Absent /\ Fits(k) /\ k <= MaxSize
  /\ call' = [op |-> "create", name |-> n, size |-> k]
  /\ refused' = NoRefusal
  /\ UNCHANGED <<files, damaged>>

BeginRemove(n) ==
  /\ call = None /\ files[n] # Absent
  /\ call' = [op |-> "remove", name |-> n]
  /\ refused' = NoRefusal
  /\ UNCHANGED <<files, damaged>>

End ==
  /\ call # None
  /\ files' = After /\ call' = None
  /\ UNCHANGED <<refused, damaged>>

\* The machine stops: an operation under way has taken effect or has not.
Stop ==
  /\ call # None
  /\ files' \in {files, After} /\ call' = None
  /\ UNCHANGED <<refused, damaged>>

\* Damage: the machine stops at the wrong moment, a removed file is written
\* to, or a file is created that is larger than a header can describe.
Damage ==
  /\ damaged' = TRUE
  /\ files' = [n \in Names |-> Absent] /\ call' = None
  /\ UNCHANGED refused

AfterDamage ==
  /\ damaged /\ refused' \in Requests
  /\ UNCHANGED <<files, call, damaged>>

StoreNext ==
  \/ End \/ Stop \/ Damage \/ AfterDamage
  \/ \E n \in Names : BeginRemove(n) \/ Refuse(n, -1) \/ \E k \in Sizes : BeginCreate(n, k) \/ Refuse(n, k)

StoreSpec == StoreInit /\ [][StoreNext]_svars
===============================================================================
