------------------------------- MODULE PostOffice -------------------------------
(***************************************************************************)
(* Mail between machines: the simulated network of machine/network.cc and  *)
(* the post office of network/post.cc, whose mailboxes are SynchLists      *)
(* (threads/synchlist.cc). Each machine is a run of Nachos of its own; the *)
(* network is its UNIX sockets, which keep packets in order and forget     *)
(* them when their machine stops.                                          *)
(*                                                                         *)
(* Lock and Condition are empty in this code (threads/synch.cc), except    *)
(* that Condition::Wait aborts. A thread is switched after a P or a V.     *)
(***************************************************************************)
EXTENDS Integers, Sequences, FiniteSets

CONSTANTS
  Machines,
  Senders,    \* threads that send mail
  Home,       \* the machine of each sender
  Boxes,      \* the mailboxes of a post office
  MaxMail,    \* bound on the mails sent
  MaxStarts   \* bound on the times a machine is started

ASSUME PostAssumption ==
  /\ IsFiniteSet(Senders)
  /\ Home \in [Senders -> Machines]
  /\ MaxMail \in Nat /\ MaxStarts \in Nat

VARIABLES
  up,         \* the machine runs
  starts,     \* history: how often each machine was started
  socket,     \* packets on their way to each machine
  inHdr,      \* the packet in the network's one buffer, or NoMail
  available,  \* messageAvailable
  sent,       \* messageSent
  sendDone,   \* the send interrupts each machine has still to take
  awaiting,   \* the senders that wait for messageSent
  delivering, \* the machines whose postal worker is past its P
  boxes,      \* the mail in each box of each machine
  posted,     \* history: how many mails were sent
  arrived     \* history: what was put in each box since the machine started

pvars == <<up, starts, socket, inHdr, available, sent, sendDone, awaiting,
           delivering, boxes, posted, arrived>>

Mail == [by : Senders, no : 1..MaxMail, box : Boxes]
NoMail == [by |-> "nobody", no |-> 0, box |-> "nowhere"]

PostInit ==
  /\ up = [m \in Machines |-> FALSE] /\ starts = [m \in Machines |-> 0]
  /\ socket = [m \in Machines |-> <<>>]
  /\ inHdr = [m \in Machines |-> NoMail]
  /\ available = [m \in Machines |-> 0] /\ sent = [m \in Machines |-> 0]
  /\ sendDone = [m \in Machines |-> 0]
  /\ awaiting = {} /\ delivering = {}
  /\ boxes = [m \in Machines |-> [b \in Boxes |-> <<>>]]
  /\ posted = 0
  /\ arrived = [m \in Machines |-> [b \in Boxes |-> <<>>]]

-------------------------------------------------------------------------------
(* The sockets, machine/sysdep.cc: one per machine, which has the machine's *)
(* number for a name as long as it runs                                    *)

AssignNameToSocket(m) == up' = [up EXCEPT ![m] = TRUE]
DeAssignNameToSocket(m) == up' = [up EXCEPT ![m] = FALSE]
CloseSocket(m) == socket' = [socket EXCEPT ![m] = <<>>]
PollSocket(m) == socket[m] # <<>>
ReadFromSocket(m) ==
  inHdr' = [inHdr EXCEPT ![m] = Head(socket[m])] /\ socket' = [socket EXCEPT ![m] = Tail(@)]
SendToSocket(m, mail) == socket' = [socket EXCEPT ![m] = Append(@, mail)]

-------------------------------------------------------------------------------
(* Machines start and stop *)

\* What machine m leaves behind when it stops, for whatever reason, and what a
\* new PostOffice on it begins with.
Forget(m) ==
  /\ CloseSocket(m)
  /\ inHdr' = [inHdr EXCEPT ![m] = NoMail]
  /\ available' = [available EXCEPT ![m] = 0]
  /\ sent' = [sent EXCEPT ![m] = 0]
  /\ sendDone' = [sendDone EXCEPT ![m] = 0]
  /\ awaiting' = {t \in awaiting : Home[t] # m}
  /\ delivering' = delivering \ {m}
  /\ boxes' = [boxes EXCEPT ![m] = [b \in Boxes |-> <<>>]]
  /\ arrived' = [arrived EXCEPT ![m] = [b \in Boxes |-> <<>>]]

\* The constructors of Network and PostOffice.
Start(m) ==
  /\ ~up[m]
  /\ starts[m] < MaxStarts
  /\ AssignNameToSocket(m)
  /\ starts' = [starts EXCEPT ![m] = @ + 1]
  /\ UNCHANGED <<socket, inHdr, available, sent, sendDone, awaiting, delivering,
                 boxes, posted, arrived>>

\* The machine halts, is interrupted by its user, or fails an ASSERT.
Stop(m) ==
  /\ up[m]
  /\ DeAssignNameToSocket(m)
  /\ Forget(m)
  /\ UNCHANGED <<starts, posted>>

-------------------------------------------------------------------------------
(* Sending *)

\* A slip: no interrupt is scheduled for a packet that is lost.
NetworkSendForgetsLost(t, m, b, lost) ==
  LET mail == [by |-> t, no |-> posted + 1, box |-> b]
  IN  /\ sendDone' = [sendDone EXCEPT ![Home[t]] = IF lost THEN @ ELSE @ + 1]
      /\ IF lost THEN UNCHANGED socket ELSE SendToSocket(m, mail)

\* Network::Send: the interrupt is scheduled whether or not the packet is lost.
\* sendBusy is tested but never set, so nothing stops a second Send.
NetworkSend(t, m, b, lost) ==
  LET mail == [by |-> t, no |-> posted + 1, box |-> b]
  IN  /\ sendDone' = [sendDone EXCEPT ![Home[t]] = @ + 1]
      /\ IF lost THEN UNCHANGED socket ELSE SendToSocket(m, mail)

\* PostOffice::Send up to its P; sendLock->Acquire does nothing. A packet for a
\* machine that does not run fails the ASSERT of SendToSocket.
Send(t, m, b, lost) ==
  /\ up[Home[t]] /\ t \notin awaiting
  /\ posted < MaxMail
  /\ lost \/ up[m]
  /\ NetworkSend(t, m, b, lost)
  /\ awaiting' = awaiting \cup {t}
  /\ posted' = posted + 1
  /\ UNCHANGED <<up, starts, inHdr, available, sent, delivering, boxes, arrived>>

SendToNobody(t, m) ==
  /\ t \notin awaiting /\ posted < MaxMail
  /\ ~up[m]
  /\ Stop(Home[t])

\* Network::SendDone and PostOffice::PacketSent.
SendDone(m) ==
  /\ sendDone[m] > 0
  /\ sendDone' = [sendDone EXCEPT ![m] = @ - 1]
  /\ sent' = [sent EXCEPT ![m] = @ + 1]
  /\ UNCHANGED <<up, starts, socket, inHdr, available, awaiting, delivering,
                 boxes, posted, arrived>>

\* messageSent->P and the end of PostOffice::Send.
Sent(t) ==
  /\ t \in awaiting /\ sent[Home[t]] > 0
  /\ sent' = [sent EXCEPT ![Home[t]] = @ - 1]
  /\ awaiting' = awaiting \ {t}
  /\ UNCHANGED <<up, starts, socket, inHdr, available, sendDone, delivering,
                 boxes, posted, arrived>>

-------------------------------------------------------------------------------
(* Receiving *)

\* Network::CheckPktAvail, the interrupt that polls the socket for ever, with
\* PostOffice::IncomingPacket.
CheckPktAvail(m) ==
  /\ up[m] /\ inHdr[m] = NoMail /\ PollSocket(m)
  /\ ReadFromSocket(m)
  /\ available' = [available EXCEPT ![m] = @ + 1]
  /\ UNCHANGED <<up, starts, sent, sendDone, awaiting, delivering, boxes, posted, arrived>>

\* The postal worker: messageAvailable->P.
AwaitMail(m) ==
  /\ m \notin delivering /\ available[m] > 0
  /\ available' = [available EXCEPT ![m] = @ - 1]
  /\ delivering' = delivering \cup {m}
  /\ UNCHANGED <<up, starts, socket, inHdr, sent, sendDone, awaiting, boxes, posted, arrived>>

\* MailBox::Put and Get: a SynchList, which has mail when Get is reached.
Put(m, mail) ==
  /\ boxes' = [boxes EXCEPT ![m][mail.box] = Append(@, mail)]
  /\ arrived' = [arrived EXCEPT ![m][mail.box] = Append(@, mail)]
Get(m, b) == boxes' = [boxes EXCEPT ![m][b] = Tail(@)] /\ UNCHANGED arrived

\* Network::Receive and MailBox::Put, which reaches no P or V.
Deliver(m) ==
  /\ m \in delivering
  /\ inHdr' = [inHdr EXCEPT ![m] = NoMail]
  /\ Put(m, inHdr[m])
  /\ delivering' = delivering \ {m}
  /\ UNCHANGED <<up, starts, socket, available, sent, sendDone, awaiting, posted>>

\* PostOffice::Receive on a box with mail.
Receive(m, b) ==
  /\ up[m] /\ boxes[m][b] # <<>>
  /\ Get(m, b)
  /\ UNCHANGED <<up, starts, socket, inHdr, available, sent, sendDone, awaiting,
                 delivering, posted>>

\* On an empty box SynchList::Remove calls Condition::Wait, which aborts.
ReceiveTooEarly(m) == (\E b \in Boxes : boxes[m][b] = <<>>) /\ Stop(m)

-------------------------------------------------------------------------------

\* What a running machine does whatever its programs do.
Runs(m) == SendDone(m) \/ CheckPktAvail(m) \/ AwaitMail(m) \/ Deliver(m)

PostNext ==
  \/ \E m \in Machines : \/ Runs(m) \/ Start(m) \/ Stop(m)
                         \/ ReceiveTooEarly(m) \/ (\E b \in Boxes : Receive(m, b))
  \/ \E t \in Senders : \/ Sent(t)
                        \/ \E m \in Machines : SendToNobody(t, m)
                        \/ \E m \in Machines, b \in Boxes, lost \in BOOLEAN : Send(t, m, b, lost)

PostSpec == PostInit /\ [][PostNext]_pvars

PostFairness ==
  \A m \in Machines : /\ WF_pvars(SendDone(m)) /\ WF_pvars(CheckPktAvail(m))
                      /\ WF_pvars(AwaitMail(m) \/ Deliver(m))

-------------------------------------------------------------------------------
(* Properties *)

\* The types of the network, the post offices and the mail.
PostTypeOK ==
  /\ up \in [Machines -> BOOLEAN] /\ starts \in [Machines -> 0..MaxStarts]
  /\ socket \in [Machines -> Seq(Mail)]
  /\ inHdr \in [Machines -> Mail \cup {NoMail}]
  /\ available \in [Machines -> Nat] /\ sent \in [Machines -> Nat] /\ sendDone \in [Machines -> Nat]
  /\ awaiting \subseteq Senders /\ delivering \subseteq Machines
  /\ boxes \in [Machines -> [Boxes -> Seq(Mail)]]
  /\ arrived \in [Machines -> [Boxes -> Seq(Mail)]]
  /\ posted \in 0..MaxMail

\* Every sender that waits has an interrupt still to come or a V not yet used,
\* although senders take each other's, packets are lost and machines restart.
SendersAnswered ==
  \A m \in Machines :
    Cardinality({t \in awaiting : Home[t] = m}) = sendDone[m] + sent[m]

\* The one buffer is full exactly when the worker has been told of it and has
\* not emptied it yet, so that it never takes a packet from an empty buffer.
BufferAnnounced ==
  \A m \in Machines :
    available[m] + (IF m \in delivering THEN 1 ELSE 0) = IF inHdr[m] = NoMail THEN 0 ELSE 1

\* Mail may be lost, but what one sender sent to one box arrives there at most
\* once and in the order it was sent.
InOrderOnce ==
  \A m \in Machines, b \in Boxes : \A i, j \in DOMAIN arrived[m][b] :
    i < j /\ arrived[m][b][i].by = arrived[m][b][j].by
      => arrived[m][b][i].no < arrived[m][b][j].no

\* What the post office promises over a network that loses packets.
MailSafe == PostTypeOK /\ SendersAnswered /\ BufferAnnounced /\ InOrderOnce

\* A packet that the network did not lose reaches its box, unless the machine
\* stops first.
Delivered ==
  \A m \in Machines, n \in 1..MaxMail :
    (\E i \in DOMAIN socket[m] : socket[m][i].no = n)
      ~> (~up[m] \/ \E b \in Boxes : \E i \in DOMAIN arrived[m][b] : arrived[m][b][i].no = n)
===============================================================================
