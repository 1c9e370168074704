----------------------------- MODULE MachineProofs -----------------------------
(***************************************************************************)
(* Proof that the one machine, with its one set of registers, one page     *)
(* table and one memory, gives every process a processor and a memory of   *)
(* its own (Processors), for any instruction set, any executables and any  *)
(* number of processes and frames.                                         *)
(***************************************************************************)
EXTENDS Machine, TLAPS

\* The types of the machine's state, as far as the proof needs them.
Shapes ==
  /\ mainMemory = [f \in Frames |-> [o \in Offsets |-> mainMemory[f][o]]]
  /\ current \in Processes \cup {None}
  /\ DOMAIN userRegisters = Processes /\ userRegisters = [p \in Processes |-> userRegisters[p]]
  /\ status \in [Processes -> {"free", "new", "starting", "user", "kernel"}]
  /\ frames = [p \in Processes |-> frames[p]]
  /\ \A p \in Processes :
       /\ frames[p] = [v \in DOMAIN frames[p] |-> frames[p][v]]
       /\ \A v \in DOMAIN frames[p] : frames[p][v] \in Frames

\* A frame has one owner, in which it has one place, and is marked.
FramesApart ==
  \A p, q \in Processes : \A v \in DOMAIN frames[p], w \in DOMAIN frames[q] :
    /\ frames[p][v] \in physPages
    /\ frames[p][v] = frames[q][w] => p = q /\ v = w

\* The machine translates by the table of the process whose instructions it
\* executes, which has been dispatched.
TableCurrent ==
  current # None =>
    /\ status[current] \notin {"free", "new"}
    /\ status[current] \in {"user", "kernel"} => table = current

MachineInv == Shapes /\ FramesApart /\ TableCurrent

-------------------------------------------------------------------------------
(* What an instruction comes to *)

\* An instruction or a system call stores at most one word, on a page that the
\* address space has.
StoresOne(outcome, memory) ==
  \/ outcome.stores = {}
  \/ \E v, o, w : /\ v \in DOMAIN memory
                  /\ outcome.stores = {[page |-> v, offset |-> o, word |-> w]}

\* A load in flight, a trap and a fault store nothing; a store stores one word.
LEMMA OutcomesStore ==
  ASSUME NEW r, NEW memory, NEW v, NEW w
  PROVE  /\ StoresOne(Goes(r), memory) /\ StoresOne(Traps(r), memory)
         /\ StoresOne(Faults(r), memory)
         /\ Translates(memory, v) => StoresOne(Stores(r, v, w), memory)
  <1>1. Goes(r).stores = {} /\ Traps(r).stores = {} /\ Faults(r).stores = {}
    BY DEF Goes, Traps, Faults
  <1>2. Stores(r, v, w).stores = {[page |-> Page(v), offset |-> Offset(v), word |-> w]}
    BY DEF Stores, Goes
  <1>3. Translates(memory, v) => Page(v) \in DOMAIN memory
    BY DEF Translates
  <1> QED BY <1>1, <1>2, <1>3 DEF StoresOne

\* No instruction stores more (Machine::OneInstruction).
LEMMA InstructionStores ==
  ASSUME NEW r, NEW memory
  PROVE  StoresOne(OneInstruction(r, memory), memory)
  <1>1. ASSUME NEW i PROVE StoresOne(Execute(r, i, memory), memory)
    BY OutcomesStore DEF Execute
  <1> QED BY <1>1, OutcomesStore DEF OneInstruction

\* Nor does a system call that copies out a result (System2User).
LEMMA CopyStores ==
  ASSUME NEW r, NEW memory, NEW v, NEW w
  PROVE  StoresOne(CopiesOut(r, memory, v, w), memory)
  BY OutcomesStore DEF CopiesOut

-------------------------------------------------------------------------------
(* The processors that processes see execute the same instructions *)

\* The operators of Processor mean the same on both levels.
LEMMA SameProcessor ==
  /\ View!NoRegs = NoRegs
  /\ View!Offsets = Offsets
  /\ \A d : View!InitRegisters(d) = InitRegisters(d)
  /\ \A r : View!DelayedLoad(r, 0, 0) = DelayedLoad(r, 0, 0)
  /\ \A r, m : View!OneInstruction(r, m) = OneInstruction(r, m)
  /\ \A r, w : View!Goes(View!Returned(r, w)) = Goes(Returned(r, w))
  /\ \A r, m, v, w : View!CopiesOut(r, m, v, w) = CopiesOut(r, m, v, w)
  <1>1. View!NoRegs = NoRegs /\ View!Offsets = Offsets
    BY DEF View!NoRegs, NoRegs, View!Offsets, Offsets
  <1>2. \A d : View!InitRegisters(d) = InitRegisters(d)
    BY DEF View!InitRegisters, InitRegisters, View!NoRegs, NoRegs, View!Cardinality, Cardinality
  <1>3. \A r, n, x : View!DelayedLoad(r, n, x) = DelayedLoad(r, n, x)
    BY DEF View!DelayedLoad, DelayedLoad
  <1>4. \A r, m : View!OneInstruction(r, m) = OneInstruction(r, m)
    BY DEF View!OneInstruction, OneInstruction, View!Execute, Execute, View!Goes, Goes,
           View!Stores, Stores, View!Traps, Traps, View!Faults, Faults, View!Advance, Advance,
           View!DelayedLoad, DelayedLoad, View!Translates, Translates, View!Word, Word,
           View!Page, Page, View!Offset, Offset
  <1>5. \A r, w : View!Goes(View!Returned(r, w)) = Goes(Returned(r, w))
    BY DEF View!Goes, Goes, View!Returned, Returned
  <1>6. \A r, m, v, w : View!CopiesOut(r, m, v, w) = CopiesOut(r, m, v, w)
    BY DEF View!CopiesOut, CopiesOut, View!Goes, Goes, View!Stores, Stores, View!Traps, Traps,
           View!Faults, Faults, View!DelayedLoad, DelayedLoad, View!Translates, Translates,
           View!Page, Page, View!Offset, Offset
  <1> QED BY <1>1, <1>2, <1>3, <1>4, <1>5, <1>6

-------------------------------------------------------------------------------
(* Steps that change only what the processes do not see *)

\* What the processes see, and what owns which frame.
LEMMA SeenUnchanged ==
  ASSUME Shapes, UNCHANGED <<mainMemory, frames>>
  PROVE  Spaces' = Spaces
  BY DEF Spaces, Space

\* The machine that has just been built satisfies the invariant, and no process
\* sees anything yet.
LEMMA InitRefines == MachineInit => MachineInv /\ View!Init
  <1> SUFFICES ASSUME MachineInit PROVE MachineInv /\ View!Init
    OBVIOUS
  <1>1. Shapes
    BY DEF MachineInit, Shapes, Blank, NoFrames
  <1>2. FramesApart /\ TableCurrent
    BY DEF MachineInit, FramesApart, TableCurrent, NoFrames
  <1>3. Phase = [p \in Processes |-> "free"] /\ halted = FALSE
    BY DEF MachineInit, Phase
  <1>4. SeenRegisters = [p \in Processes |-> NoRegs]
    BY DEF MachineInit, SeenRegisters
  <1>5. Spaces = [p \in Processes |-> [v \in {} |-> 0]]
    <2>1. ASSUME NEW p \in Processes PROVE Space(p) = [v \in {} |-> 0]
      BY DEF MachineInit, Space, NoFrames
    <2> QED BY <2>1 DEF Spaces
  <1> QED BY <1>1, <1>2, <1>3, <1>4, <1>5, SameProcessor
          DEF MachineInv, View!Init, View!NoMemory

\* A context switch is seen by no process (Scheduler::Run with SaveUserState,
\* RestoreUserState and RestoreState).
LEMMA SwitchRefines ==
  ASSUME MachineInv, NEW q \in Processes \cup {None}, Switch(q)
  PROVE  MachineInv' /\ UNCHANGED View!pvars
  <1>1. /\ UNCHANGED <<mainMemory, frames, physPages, halted>>
        /\ current' = q /\ q # current
        /\ q # None => q \in Processes /\ status[q] # "free"
    BY DEF Switch
  <1>2. /\ \A p \in Processes : status'[p] = IF p = q /\ status[p] = "new" THEN "starting"
                                              ELSE status[p]
        /\ status' \in [Processes -> {"free", "new", "starting", "user", "kernel"}]
    BY MachineAssumption DEF Switch, MachineInv, Shapes
  <1>3. /\ DOMAIN userRegisters' = Processes
        /\ userRegisters' = [p \in Processes |-> userRegisters'[p]]
        /\ \A p \in Processes : userRegisters'[p] = IF p = current THEN registers
                                                     ELSE userRegisters[p]
    <2>1. CASE current = None
      BY <2>1, MachineAssumption DEF Switch, MachineInv, Shapes
    <2>2. CASE current # None
      BY <2>2 DEF Switch, MachineInv, Shapes
    <2> QED BY <2>1, <2>2
  <1>4. Shapes' /\ FramesApart'
    BY <1>1, <1>2, <1>3 DEF MachineInv, Shapes, FramesApart
  <1>5. TableCurrent'
    BY <1>1, <1>2, MachineAssumption DEF Switch, TableCurrent, MachineInv, Shapes
  <1>6. Phase' = Phase
    BY <1>2 DEF Phase
  <1>7. SeenRegisters' = SeenRegisters
    <2>1. ASSUME NEW p \in Processes
          PROVE  SeenRegisters'[p] = SeenRegisters[p]
      <3>1. CASE status[p] \notin {"user", "kernel"}
        BY <1>2, <3>1 DEF SeenRegisters
      <3>2. CASE status[p] \in {"user", "kernel"} /\ p = q
        BY <1>1, <1>2, <3>2, MachineAssumption DEF SeenRegisters, Switch
      <3>3. CASE status[p] \in {"user", "kernel"} /\ p # q
        BY <1>1, <1>2, <1>3, <3>3 DEF SeenRegisters
      <3> QED BY <3>1, <3>2, <3>3
    <2> QED BY <2>1 DEF SeenRegisters
  <1>8. Spaces' = Spaces
    BY <1>1, SeenUnchanged DEF MachineInv
  <1> QED BY <1>1, <1>4, <1>5, <1>6, <1>7, <1>8 DEF MachineInv, View!pvars

-------------------------------------------------------------------------------
(* Processes come to be, begin and end *)

\* ExecBridge gives the process the registers it expects, whatever the machine
\* held before.
LEMMA BeginRefines ==
  ASSUME MachineInv, NEW p \in Processes, Begin(p)
  PROVE  MachineInv' /\ View!Start(p)
  <1>1. /\ current = p /\ status[p] = "starting" /\ table' = p
        /\ status' = [status EXCEPT ![p] = "user"]
        /\ registers' = InitRegisters(DOMAIN frames[p])
        /\ UNCHANGED <<mainMemory, current, userRegisters, frames, physPages, halted>>
    BY DEF Begin
  <1>2. Shapes' /\ FramesApart' /\ TableCurrent'
    BY <1>1 DEF MachineInv, Shapes, FramesApart, TableCurrent
  <1>3. Phase[p] = "new" /\ Phase' = [Phase EXCEPT ![p] = "user"]
    BY <1>1 DEF Phase, MachineInv, Shapes
  <1>4. SeenRegisters' = [SeenRegisters EXCEPT ![p] = InitRegisters(DOMAIN frames[p])]
    BY <1>1 DEF SeenRegisters, MachineInv, Shapes
  <1>5. Spaces' = Spaces /\ DOMAIN Spaces[p] = DOMAIN frames[p]
    BY <1>1, SeenUnchanged DEF MachineInv, Spaces, Space
  <1> QED BY <1>1, <1>2, <1>3, <1>4, <1>5, SameProcessor DEF MachineInv, View!Start

\* The constructor of AddrSpace takes frames that nobody has.
LEMMA LoadRefines ==
  ASSUME MachineInv, NEW p \in Processes, Load(p)
  PROVE  MachineInv' /\ View!Create(p)
  <1>1. /\ status[p] = "free"
        /\ current # None => status[current] = "kernel"
        /\ status' = [status EXCEPT ![p] = "new"]
        /\ UNCHANGED <<registers, table, current, userRegisters, halted>>
    BY DEF Load
  <1>2. TableCurrent'
    BY <1>1 DEF MachineInv, TableCurrent, Shapes
  <1>3. Phase[p] = "free" /\ Phase' = [Phase EXCEPT ![p] = "new"]
    BY <1>1 DEF Phase, MachineInv, Shapes
  <1>4. SeenRegisters' = SeenRegisters
    BY <1>1 DEF SeenRegisters, MachineInv, Shapes
  <1> DEFINE Loads(image, n, f) ==
               /\ Found(f, n)
               /\ frames' = [frames EXCEPT ![p] = f]
               /\ physPages' = physPages \cup {f[v] : v \in 0..(n - 1)}
               /\ mainMemory' = [g \in Frames |->
                    IF \E v \in 0..(n - 1) : f[v] = g
                    THEN image[CHOOSE v \in 0..(n - 1) : f[v] = g] ELSE mainMemory[g]]
  <1>5. PICK image \in Images, n \in 1..NumPhysPages :
          /\ DOMAIN image = 0..(n - 1)
          /\ \E f \in [0..(n - 1) -> Frames \ physPages] : Loads(image, n, f)
    BY DEF Load
  <1>6. PICK f \in [0..(n - 1) -> Frames \ physPages] :
          Loads(image, n, f) /\ DOMAIN image = 0..(n - 1)
    BY <1>5
  <1>7. image = [v \in 0..(n - 1) |-> [o \in Offsets |-> image[v][o]]]
    BY <1>6, MachineAssumption
  <1>8. \A v, w \in 0..(n - 1) : f[v] = f[w] => v = w
    <2> SUFFICES ASSUME NEW v \in 0..(n - 1), NEW w \in 0..(n - 1), f[v] = f[w], v # w
                 PROVE  FALSE
      OBVIOUS
    <2>1. f[v] \in Int /\ f[w] \in Int
      BY MachineAssumption DEF Frames
    <2>2. v < w \/ w < v
      BY MachineAssumption
    <2> QED BY <1>6, <2>1, <2>2 DEF Found
  <1>9. \A v \in 0..(n - 1) : mainMemory'[f[v]] = image[v]
    BY <1>6, <1>8
  <1>10. \A g \in Frames : (\A v \in 0..(n - 1) : f[v] # g) => mainMemory'[g] = mainMemory[g]
    BY <1>6
  <1>11. /\ frames'[p] = f /\ \A q \in Processes \ {p} : frames'[q] = frames[q]
        /\ frames' = [q \in Processes |-> frames'[q]]
    BY <1>6 DEF MachineInv, Shapes
  <1>12. Shapes'
    <2>1. ASSUME NEW g \in Frames
          PROVE  mainMemory'[g] = [o \in Offsets |-> mainMemory'[g][o]]
      <3>1. CASE \E v \in 0..(n - 1) : f[v] = g
        BY <1>7, <1>9, <3>1
      <3>2. CASE ~\E v \in 0..(n - 1) : f[v] = g
        BY <1>10, <3>2 DEF MachineInv, Shapes
      <3> QED BY <3>1, <3>2
    <2>2. mainMemory' = [g \in Frames |-> mainMemory'[g]]
      BY <1>6
    <2>3. mainMemory' = [g \in Frames |-> [o \in Offsets |-> mainMemory'[g][o]]]
      BY <2>1, <2>2
    <2>4. ASSUME NEW q \in Processes
          PROVE  /\ frames'[q] = [v \in DOMAIN frames'[q] |-> frames'[q][v]]
                 /\ \A v \in DOMAIN frames'[q] : frames'[q][v] \in Frames
      <3>1. CASE q = p
        BY <1>11, <3>1
      <3>2. CASE q # p
        BY <1>11, <3>2 DEF MachineInv, Shapes
      <3> QED BY <3>1, <3>2
    <2> QED BY <1>1, <1>11, <2>3, <2>4 DEF MachineInv, Shapes
  <1>13. FramesApart'
    <2> SUFFICES ASSUME NEW q \in Processes, NEW s \in Processes,
                        NEW v \in DOMAIN frames'[q], NEW w \in DOMAIN frames'[s]
                 PROVE  /\ frames'[q][v] \in physPages'
                        /\ frames'[q][v] = frames'[s][w] => q = s /\ v = w
      BY DEF FramesApart
    <2>1. CASE q # p /\ s # p
      BY <1>6, <1>11, <2>1 DEF MachineInv, FramesApart
    <2>2. CASE q = p /\ s = p
      BY <1>6, <1>8, <1>11, <2>2
    <2>3. CASE q = p /\ s # p
      BY <1>6, <1>11, <2>3 DEF MachineInv, FramesApart
    <2>4. CASE q # p /\ s = p
      BY <1>6, <1>11, <2>4 DEF MachineInv, FramesApart
    <2> QED BY <2>1, <2>2, <2>3, <2>4
  <1>14. Spaces' = [Spaces EXCEPT ![p] = image]
    <2>1. Space(p)' = image
      <3>1. Space(p)' = [v \in 0..(n - 1) |-> mainMemory'[f[v]]]
        BY <1>11 DEF Space
      <3> QED BY <1>7, <1>9, <3>1
    <2>2. ASSUME NEW q \in Processes \ {p} PROVE Space(q)' = Space(q)
      <3>1. ASSUME NEW v \in DOMAIN frames[q]
            PROVE  mainMemory'[frames[q][v]] = mainMemory[frames[q][v]]
        <4>1. frames[q][v] \in Frames /\ frames[q][v] \in physPages
          BY DEF MachineInv, Shapes, FramesApart
        <4> QED BY <1>10, <4>1
      <3> QED BY <1>11, <3>1 DEF Space
    <2> QED BY <2>1, <2>2 DEF Spaces
  <1> QED BY <1>1, <1>2, <1>3, <1>4, <1>12, <1>13, <1>14 DEF MachineInv, View!Create

\* ~AddrSpace gives back the frames of the process and of no other (SC_Exit).
LEMMA ExitRefines ==
  ASSUME MachineInv, NEW p \in Processes, Exit(p)
  PROVE  MachineInv' /\ View!End(p)
  <1>1. /\ current = p /\ status[p] = "kernel"
        /\ physPages' = physPages \ FramesOf(p)
        /\ frames' = [frames EXCEPT ![p] = NoFrames]
        /\ status' = [status EXCEPT ![p] = "free"]
        /\ current' = None
        /\ UNCHANGED <<registers, mainMemory, userRegisters, halted>>
    BY DEF Exit
  <1>2. /\ frames'[p] = NoFrames /\ \A q \in Processes \ {p} : frames'[q] = frames[q]
        /\ frames' = [q \in Processes |-> frames'[q]]
    BY <1>1 DEF MachineInv, Shapes
  <1>3. Shapes' /\ TableCurrent'
    BY <1>1, <1>2 DEF MachineInv, Shapes, TableCurrent, NoFrames
  <1>4. FramesApart'
    BY <1>1, <1>2 DEF MachineInv, FramesApart, FramesOf, NoFrames
  <1>5. Phase[p] = "kernel" /\ Phase' = [Phase EXCEPT ![p] = "free"]
    BY <1>1 DEF Phase, MachineInv, Shapes
  <1>6. SeenRegisters' = [SeenRegisters EXCEPT ![p] = NoRegs]
    BY <1>1, MachineAssumption DEF SeenRegisters, MachineInv, Shapes
  <1>7. Spaces' = [Spaces EXCEPT ![p] = [v \in {} |-> 0]]
    <2>1. Space(p)' = [v \in {} |-> 0]
      BY <1>2 DEF Space, NoFrames
    <2>2. \A q \in Processes \ {p} : Space(q)' = Space(q)
      BY <1>1, <1>2 DEF Space
    <2> QED BY <2>1, <2>2 DEF Spaces
  <1> QED BY <1>1, <1>3, <1>4, <1>5, <1>6, <1>7, SameProcessor
          DEF MachineInv, View!End, View!NoMemory

-------------------------------------------------------------------------------
(* Processes run *)

\* What Take does to the registers, the phase and the memory of the current
\* process, it does to what that process sees, and to no other.
LEMMA TakeRefines ==
  ASSUME MachineInv, NEW p \in Processes, current = p, status[p] \in {"user", "kernel"},
         NEW mode \in {"user", "kernel"}, NEW outcome, StoresOne(outcome, Space(p)),
         Take(p, mode, outcome)
  PROVE  MachineInv' /\ View!Becomes(p, mode, outcome)
  <1>1. /\ registers' = outcome.regs /\ halted' = (outcome.mode = "halt")
        /\ status' = [status EXCEPT ![p] = mode]
        /\ UNCHANGED <<table, current, userRegisters, frames, physPages>>
        /\ table = p
    BY MachineAssumption DEF Take, MachineInv, TableCurrent
  <1>2. /\ mainMemory = [f \in Frames |-> [o \in Offsets |-> mainMemory[f][o]]]
        /\ \A q \in Processes : \A v \in DOMAIN frames[q] : frames[q][v] \in Frames
    BY DEF MachineInv, Shapes
  <1>3. TableCurrent' /\ FramesApart'
    BY <1>1 DEF MachineInv, TableCurrent, FramesApart, Shapes
  <1>4. Phase' = [Phase EXCEPT ![p] = mode]
    BY <1>1 DEF Phase, MachineInv, Shapes
  <1>5. SeenRegisters' = [SeenRegisters EXCEPT ![p] = outcome.regs]
    BY <1>1 DEF SeenRegisters, MachineInv, Shapes
  <1> DEFINE Written(memory) ==
               [v \in DOMAIN memory |-> [o \in Offsets |->
                  IF \E s \in outcome.stores : s.page = v /\ s.offset = o
                  THEN (CHOOSE s \in outcome.stores : s.page = v /\ s.offset = o).word
                  ELSE memory[v][o]]]
  <1>6. Space(p) = [v \in DOMAIN frames[p] |-> mainMemory[frames[p][v]]]
    BY DEF Space
  <1>7. /\ mainMemory' = [f \in Frames |-> [o \in Offsets |-> mainMemory'[f][o]]]
        /\ Space(p)' = Written(Space(p))
        /\ \A q \in Processes \ {p} : Space(q)' = Space(q)
    <2>1. CASE outcome.stores = {}
      <3>1. mainMemory' = [f \in Frames |-> [o \in Offsets |-> mainMemory[f][o]]]
        BY <2>1 DEF Take
      <3>2. mainMemory' = mainMemory
        BY <1>2, <3>1
      <3>3. \A q \in Processes : Space(q)' = Space(q)
        BY <1>1, <3>2 DEF Space
      <3>4. Written(Space(p)) = [v \in DOMAIN Space(p) |-> [o \in Offsets |-> Space(p)[v][o]]]
        BY <2>1
      <3>5. \A v \in DOMAIN frames[p] :
              mainMemory[frames[p][v]] = [o \in Offsets |-> mainMemory[frames[p][v]][o]]
        BY <1>2
      <3>6. Written(Space(p)) = Space(p)
        BY <1>6, <3>4, <3>5
      <3> QED BY <1>2, <3>2, <3>3, <3>6
    <2>2. ASSUME NEW x \in DOMAIN Space(p), NEW offset, NEW w,
                 outcome.stores = {[page |-> x, offset |-> offset, word |-> w]}
          PROVE  /\ mainMemory' = [f \in Frames |-> [o \in Offsets |-> mainMemory'[f][o]]]
                 /\ Space(p)' = Written(Space(p))
                 /\ \A q \in Processes \ {p} : Space(q)' = Space(q)
      <3> DEFINE store == [page |-> x, offset |-> offset, word |-> w]
                 Taken(f, o) ==
                   IF \E s \in outcome.stores : frames[p][s.page] = f /\ s.offset = o
                   THEN (CHOOSE s \in outcome.stores :
                           frames[p][s.page] = f /\ s.offset = o).word
                   ELSE mainMemory[f][o]
                 TakenNow(f, o) ==
                   IF frames[p][x] = f /\ offset = o THEN w ELSE mainMemory[f][o]
                 Became(v, o) ==
                   IF \E s \in outcome.stores : s.page = v /\ s.offset = o
                   THEN (CHOOSE s \in outcome.stores : s.page = v /\ s.offset = o).word
                   ELSE Space(p)[v][o]
                 BecameNow(v, o) == IF x = v /\ offset = o THEN w ELSE Space(p)[v][o]
      <3>1. x \in DOMAIN frames[p] /\ frames[p][x] \in Frames
        BY <1>2, <1>6
      <3>7. store.word = w
        OBVIOUS
      <3>2. mainMemory' = [f \in Frames |-> [o \in Offsets |-> TakenNow(f, o)]]
        <4>1. ASSUME NEW f, NEW o PROVE Taken(f, o) = TakenNow(f, o)
          <5>1. CASE frames[p][x] = f /\ offset = o
            <6>1. store \in outcome.stores /\ frames[p][store.page] = f /\ store.offset = o
              BY <2>2, <5>1
            <6>2. (CHOOSE s \in outcome.stores : frames[p][s.page] = f /\ s.offset = o)
                    = store
              BY <2>2, <6>1
            <6>3. Taken(f, o) = store.word
              BY <6>1, <6>2
            <6> QED BY <3>7, <5>1, <6>3
          <5>2. CASE ~(frames[p][x] = f /\ offset = o)
            BY <2>2, <5>2
          <5> QED BY <5>1, <5>2
        <4>2. mainMemory' = [f \in Frames |-> [o \in Offsets |-> Taken(f, o)]]
          BY <1>1 DEF Take
        <4> HIDE DEF Taken, TakenNow
        <4> QED BY <4>1, <4>2
      <3>3. Written(Space(p)) =
              [v \in DOMAIN Space(p) |-> [o \in Offsets |-> BecameNow(v, o)]]
        <4>1. ASSUME NEW v, NEW o PROVE Became(v, o) = BecameNow(v, o)
          <5>1. CASE x = v /\ offset = o
            <6>1. store \in outcome.stores /\ store.page = v /\ store.offset = o
              BY <2>2, <5>1
            <6>2. (CHOOSE s \in outcome.stores : s.page = v /\ s.offset = o) = store
              BY <2>2, <6>1
            <6>3. Became(v, o) = store.word
              BY <6>1, <6>2
            <6> QED BY <3>7, <5>1, <6>3
          <5>2. CASE ~(x = v /\ offset = o)
            BY <2>2, <5>2
          <5> QED BY <5>1, <5>2
        <4>2. Written(Space(p)) = [v \in DOMAIN Space(p) |-> [o \in Offsets |-> Became(v, o)]]
          OBVIOUS
        <4> HIDE DEF Written, Became, BecameNow
        <4> QED BY <4>1, <4>2
      <3> HIDE DEF Written
      <3>4. Space(p)' = Written(Space(p))
        <4>1. \A v \in DOMAIN frames[p] : frames[p][v] = frames[p][x] => v = x
          BY <3>1 DEF MachineInv, FramesApart
        <4>2. \A v \in DOMAIN frames[p] :
                mainMemory'[frames[p][v]] = [o \in Offsets |->
                  IF x = v /\ offset = o THEN w ELSE mainMemory[frames[p][v]][o]]
          BY <1>2, <3>2, <4>1
        <4>3. Space(p)' = [v \in DOMAIN frames[p] |-> mainMemory'[frames[p][v]]]
          BY <1>1 DEF Space
        <4>4. DOMAIN Space(p) = DOMAIN frames[p]
          BY <1>6
        <4>5. \A v \in DOMAIN frames[p] : Space(p)[v] = mainMemory[frames[p][v]]
          BY <1>6
        <4>6. Written(Space(p)) = [v \in DOMAIN frames[p] |-> [o \in Offsets |->
                IF x = v /\ offset = o THEN w ELSE mainMemory[frames[p][v]][o]]]
          BY <3>3, <4>4, <4>5
        <4> HIDE DEF store
        <4> QED BY <4>2, <4>3, <4>6
      <3>5. ASSUME NEW q \in Processes \ {p} PROVE Space(q)' = Space(q)
        <4>1. \A v \in DOMAIN frames[q] : frames[q][v] # frames[p][x]
          BY <3>1 DEF MachineInv, FramesApart
        <4>2. \A v \in DOMAIN frames[q] : mainMemory'[frames[q][v]] = mainMemory[frames[q][v]]
          BY <1>2, <3>2, <4>1
        <4> QED BY <1>1, <4>2 DEF Space
      <3>6. mainMemory' = [f \in Frames |-> [o \in Offsets |-> mainMemory'[f][o]]]
        BY <3>2
      <3> QED BY <3>4, <3>5, <3>6
    <2> QED BY <2>1, <2>2 DEF StoresOne
  <1>8. Shapes'
    BY <1>1, <1>7 DEF MachineInv, Shapes
  <1>9. Spaces' = [Spaces EXCEPT ![p] = Written(Space(p))]
    <2> HIDE DEF Written
    <2> QED BY <1>7 DEF Spaces
  <1>10. Spaces[p] = Space(p)
    BY DEF Spaces
  <1> QED BY <1>1, <1>3, <1>4, <1>5, <1>8, <1>9, <1>10, SameProcessor
          DEF MachineInv, View!Becomes

\* The state that the process that is running sees.
LEMMA CurrentSees ==
  ASSUME MachineInv, NEW p \in Processes, current = p, status[p] \in {"user", "kernel"}
  PROVE  /\ table = p /\ Phase[p] = status[p]
         /\ SeenRegisters[p] = registers /\ Spaces[p] = Space(p)
  BY MachineAssumption DEF MachineInv, TableCurrent, Phase, SeenRegisters, Spaces, Shapes

\* A turn of Machine::Run is an instruction of the process.
LEMMA RunRefines ==
  ASSUME MachineInv, NEW p \in Processes, Run(p)
  PROVE  MachineInv' /\ View!Step(p)
  <1> DEFINE outcome == OneInstruction(registers, Space(p))
             mode == IF outcome.mode = "user" THEN "user" ELSE "kernel"
  <1>1. current = p /\ status[p] = "user" /\ table = p
    BY MachineAssumption DEF Run, MachineInv, TableCurrent
  <1>2. Take(p, mode, outcome)
    BY <1>1 DEF Run
  <1>3. mode \in {"user", "kernel"} /\ StoresOne(outcome, Space(p))
    BY InstructionStores
  <1>4. /\ Phase[p] = "user"
        /\ View!OneInstruction(SeenRegisters[p], Spaces[p]) = outcome
    BY <1>1, CurrentSees, SameProcessor
  <1> HIDE DEF outcome, mode
  <1>5. MachineInv' /\ View!Becomes(p, mode, outcome)
    BY <1>1, <1>2, <1>3, TakeRefines
  <1> QED BY <1>4, <1>5 DEF View!Step, mode

\* A system call answers in the registers, or stores a result in the memory, of
\* the process that made it.
LEMMA CallRefines ==
  ASSUME MachineInv, NEW p \in Processes, Call(p)
  PROVE  MachineInv' /\ View!Answer(p)
  <1>1. current = p /\ status[p] = "kernel" /\ table = p
    BY MachineAssumption DEF Call, MachineInv, TableCurrent
  <1>2. Phase[p] = "kernel" /\ SeenRegisters[p] = registers /\ Spaces[p] = Space(p)
    BY <1>1, CurrentSees
  <1>3. ASSUME NEW v \in CopyTo, NEW w \in Results,
               Take(p, "kernel", CopiesOut(registers, Space(table), v, w))
        PROVE  MachineInv' /\ View!Answer(p)
    <2>1. MachineInv' /\ View!Becomes(p, "kernel", CopiesOut(registers, Space(p), v, w))
      BY <1>1, <1>3, CopyStores, TakeRefines
    <2> QED BY <1>2, <2>1, SameProcessor DEF View!Answer
  <1>4. ASSUME NEW w \in Results, Take(p, "user", Goes(Returned(registers, w)))
        PROVE  MachineInv' /\ View!Answer(p)
    <2>1. MachineInv' /\ View!Becomes(p, "user", Goes(Returned(registers, w)))
      BY <1>1, <1>4, OutcomesStore, TakeRefines
    <2> QED BY <1>2, <2>1, SameProcessor DEF View!Answer
  <1> QED BY <1>3, <1>4 DEF Call

\* An interrupt completes a load in flight, of the process whose registers the
\* machine holds (Interrupt::CheckIfDue).
LEMMA InterruptRefines ==
  ASSUME MachineInv, NEW p \in Processes, Interrupt(p)
  PROVE  MachineInv' /\ (View!Settle(p) \/ UNCHANGED View!pvars)
  <1>1. /\ current = p /\ status[p] \in {"starting", "user", "kernel"}
        /\ registers' = DelayedLoad(registers, 0, 0)
        /\ UNCHANGED <<mainMemory, table, current, userRegisters, frames, physPages, status,
                       halted>>
    BY DEF Interrupt
  <1>2. MachineInv'
    BY <1>1 DEF MachineInv, Shapes, FramesApart, TableCurrent
  <1>3. Phase' = Phase /\ Spaces' = Spaces
    BY <1>1, SeenUnchanged DEF Phase, MachineInv
  <1>4. CASE status[p] = "starting"
    <2>1. SeenRegisters' = SeenRegisters
      BY <1>1, <1>4 DEF SeenRegisters
    <2> QED BY <1>1, <1>2, <1>3, <2>1 DEF View!pvars
  <1>5. CASE status[p] \in {"user", "kernel"}
    <2>1. SeenRegisters' = [SeenRegisters EXCEPT ![p] = DelayedLoad(SeenRegisters[p], 0, 0)]
      BY <1>1, <1>5 DEF SeenRegisters
    <2>2. Phase[p] \in {"user", "kernel"}
      BY <1>1, <1>5, CurrentSees
    <2> QED BY <1>1, <1>2, <1>3, <2>1, <2>2, SameProcessor DEF View!Settle
  <1> QED BY <1>1, <1>4, <1>5

-------------------------------------------------------------------------------

\* Every step of the machine is a step of one process, or seen by none.
LEMMA NextRefines ==
  ASSUME MachineInv, [MachineNext]_mvars
  PROVE  MachineInv' /\ [View!Next]_(View!pvars)
  <1>1. CASE UNCHANGED mvars
    <2>1. MachineInv'
      BY <1>1 DEF mvars, MachineInv, Shapes, FramesApart, TableCurrent
    <2>2. UNCHANGED View!pvars
      BY <1>1 DEF mvars, View!pvars, Phase, SeenRegisters, Spaces, Space
    <2> QED BY <2>1, <2>2
  <1>2. CASE MachineNext
    <2>1. ~halted
      BY <1>2 DEF MachineNext
    <2>2. ASSUME NEW q \in Processes \cup {None}, Switch(q)
          PROVE  MachineInv' /\ UNCHANGED View!pvars
      BY <2>2, SwitchRefines
    <2>3. ASSUME NEW p \in Processes,
                 Load(p) \/ Begin(p) \/ Run(p) \/ Interrupt(p) \/ Call(p) \/ Exit(p)
          PROVE  MachineInv' /\ [View!Next]_(View!pvars)
      BY <2>1, <2>3, LoadRefines, BeginRefines, RunRefines, InterruptRefines, CallRefines,
         ExitRefines DEF View!Next
    <2> QED BY <1>2, <2>2, <2>3 DEF MachineNext
  <1> QED BY <1>1, <1>2

\* Every process runs as if it had a processor and a memory of its own, however
\* the machine is switched between them: no register, delayed load or word of
\* memory of one process is ever seen or changed by another (Scheduler::Run,
\* Thread::SaveUserState and RestoreUserState, AddrSpace).
THEOREM ProcessesRunAlone == MachineSpec => RunsAlone
  <1>1. MachineInit => MachineInv /\ View!Init
    BY InitRefines
  <1>2. MachineInv /\ [MachineNext]_mvars => MachineInv' /\ [View!Next]_(View!pvars)
    BY NextRefines
  <1> QED BY <1>1, <1>2, PTL DEF MachineSpec, RunsAlone, View!Spec
===============================================================================
