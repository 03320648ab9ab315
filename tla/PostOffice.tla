----------------------------- MODULE PostOffice -----------------------------
(***************************************************************************)
(* The post office of network/post.cc on machines that are connected by    *)
(* the simulated network of machine/network.cc, with clients that send and *)
(* receive mail; MailTest of network/nettest.cc is the client that exists. *)
(*                                                                         *)
(* Each machine is a nachos of its own with one socket.  Its locks,        *)
(* semaphores and SynchLists are used here by what they promise: a lock    *)
(* has one owner, P takes a unit, Append and Remove are atomic and Remove  *)
(* waits.  A step ends where a thread may be switched out, so that device  *)
(* interrupts and other threads come between any two calls.                *)
(***************************************************************************)
EXTENDS Integers, Sequences, FiniteSets, SequencesExt

CONSTANTS
  Machines,     \* network addresses
  Boxes,        \* mailboxes of every post office
  Clients,      \* threads that send and receive
  NoClient,
  Setups,    \* what runs: a home and a program for every client
  MaxLost       \* bound: packets the network loses

\* The operations of a program.  A reply goes to the sender of the last mail.
Send(to, box, replyTo) == [op |-> "send", to |-> to, box |-> box, replyTo |-> replyTo]
Reply == [op |-> "reply"]
Receive(box) == [op |-> "receive", box |-> box]
HaltCall == [op |-> "halt"]

Operations ==
  [op : {"send"}, to : Machines, box : Boxes, replyTo : Boxes]
    \cup [op : {"receive"}, box : Boxes] \cup {Reply, HaltCall}

\* A program replies when it has received something; acknowledgements go to box 1.
ASSUME PostOfficeAssumption ==
  /\ NoClient \notin Clients \cup Machines
  /\ MaxLost \in Nat
  /\ 1 \in Boxes
  /\ \A s \in Setups :
       /\ s.home \in [Clients -> Machines]
       /\ s.program \in [Clients -> Seq(Operations)]
       /\ \A c \in Clients : \A i \in DOMAIN s.program[c] :
            s.program[c][i].op = "reply" => \E j \in 1 .. i - 1 : s.program[c][j].op = "receive"

VARIABLES
  scenario,     \* the scenario that was started
  power,        \* of each machine: "off", "on" or "halted"
  socket,       \* packets in each machine's socket
  inHdr,        \* Network::inHdr and inbox: at most one packet
  available,    \* PostOffice::messageAvailable
  messageSent,  \* PostOffice::messageSent
  sendPending,  \* NetworkSendInt interrupts still to come
  sendLock,     \* owner of PostOffice::sendLock
  worker,       \* where each postal worker is, and what it carries
  boxes,        \* the mail in each box
  step,         \* the next operation in the program of each client
  phase,        \* how far that operation is
  lastMail,     \* what each client received last
  wire,         \* history: packets that entered some socket, in order
  got,          \* history: mail taken out of each box, in order
  lost          \* history: packets lost

deviceVars == <<socket, inHdr, sendPending>>
officeVars == <<available, messageSent, sendLock, worker, boxes>>
clientVars == <<step, phase, lastMail>>
mailVars == <<wire, got, lost>>
poVars == <<scenario, power, deviceVars, officeVars, clientVars, mailVars>>

\* MailTest: a message to the other machine, its message, acknowledgements.
MailTest(farAddr) ==
  << Send(farAddr, 0, 1), Receive(0), Reply, Receive(1), HaltCall >>

NoPacket == [from |-> NoClient]
Home(c) == scenario.home[c]
Program(c) == scenario.program[c]
On(c) == power[Home(c)] = "on"
Next1(c) == IF step[c] <= Len(Program(c)) THEN Program(c)[step[c]] ELSE [op |-> "none"]
AtOp(c, op) == On(c) /\ Next1(c).op = op

POBegin(s, p) ==
  /\ scenario = s
  /\ power = [m \in Machines |-> p]
  /\ socket = [m \in Machines |-> << >>]
  /\ inHdr = [m \in Machines |-> NoPacket]
  /\ available = [m \in Machines |-> 0]
  /\ messageSent = [m \in Machines |-> 0]
  /\ sendPending = [m \in Machines |-> 0]
  /\ sendLock = [m \in Machines |-> NoClient]
  /\ worker = [m \in Machines |-> [at |-> "P", mail |-> NoPacket]]
  /\ boxes = [m \in Machines |-> [b \in Boxes |-> << >>]]
  /\ step = [c \in Clients |-> 1]
  /\ phase = [c \in Clients |-> "begin"]
  /\ lastMail = [c \in Clients |-> NoPacket]
  /\ wire = << >>
  /\ got = [m \in Machines |-> [b \in Boxes |-> << >>]]
  /\ lost = 0

POInit == \E s \in Setups : POBegin(s, "off")

----------------------------------------------------------------------------
\* A nachos is started: its socket exists from Initialize on.
PowerOn(m) ==
  /\ power[m] = "off"
  /\ power' = [power EXCEPT ![m] = "on"]
  /\ UNCHANGED <<scenario, deviceVars, officeVars, clientVars, mailVars>>

\* Halt: the socket is closed and removed with all it holds.
TurnOff(m) ==
  /\ power' = [power EXCEPT ![m] = "halted"]
  /\ socket' = [socket EXCEPT ![m] = << >>]

\* The packet of the operation client c is at.
Outgoing(c) ==
  LET o == Next1(c)
      mail == lastMail[c]
  IN IF o.op = "send"
       THEN [from |-> Home(c), to |-> o.to, box |-> o.box, replyTo |-> o.replyTo, id |-> <<c, step[c]>>]
       ELSE [from |-> Home(c), to |-> mail.from, box |-> mail.replyTo, replyTo |-> 1, id |-> <<c, step[c]>>]
Sends(c) == AtOp(c, "send") \/ AtOp(c, "reply")
Phase(c, p) == phase' = [phase EXCEPT ![c] = p]
Proceed(c) ==
  /\ step' = [step EXCEPT ![c] = @ + 1]
  /\ Phase(c, "begin")

\* PostOffice::Send up to sendLock->Acquire().
LockSend(c) ==
  /\ Sends(c) /\ phase[c] = "begin"
  /\ sendLock[Home(c)] = NoClient
  /\ sendLock' = [sendLock EXCEPT ![Home(c)] = c]
  /\ Phase(c, "locked")
  /\ UNCHANGED <<scenario, power, deviceVars, available, messageSent, worker, boxes,
                 step, lastMail, mailVars>>

\* Network::Send: the interrupt is scheduled in any case; the packet is lost,
\* or goes into the socket of a machine that runs, or cannot be sent.
StartSend(c) ==
  /\ Sends(c) /\ phase[c] = "locked"
  /\ sendPending' = [sendPending EXCEPT ![Home(c)] = @ + 1]
  /\ UNCHANGED <<scenario, power, inHdr, officeVars, step, lastMail, got>>

SendLost(c) ==
  /\ StartSend(c)
  /\ lost < MaxLost
  /\ lost' = lost + 1
  /\ Phase(c, "sent")
  /\ UNCHANGED <<socket, wire>>

SendDelivered(c) ==
  /\ StartSend(c)
  /\ LET packet == Outgoing(c)
     IN /\ power[packet.to] = "on"
        /\ socket' = [socket EXCEPT ![packet.to] = Append(@, packet)]
        /\ wire' = Append(wire, packet)
  /\ Phase(c, "sent")
  /\ UNCHANGED lost

SendFailed(c) ==
  /\ StartSend(c)
  /\ power[Outgoing(c).to] # "on"
  /\ Phase(c, "failed")
  /\ UNCHANGED <<socket, wire, lost>>

\* The two handlers of the network's interrupts.
PacketSent(m) == messageSent' = [messageSent EXCEPT ![m] = @ + 1]
IncomingPacket(m) == available' = [available EXCEPT ![m] = @ + 1]

\* NetworkSendInt: Network::SendDone.
SendDone(m) ==
  /\ power[m] = "on"
  /\ sendPending[m] > 0
  /\ sendPending' = [sendPending EXCEPT ![m] = @ - 1]
  /\ PacketSent(m)
  /\ UNCHANGED <<scenario, power, socket, inHdr, available, sendLock, worker, boxes,
                 clientVars, mailVars>>

\* messageSent->P(), sendLock->Release(), and the result of Send: MailTest
\* halts its machine when the packet could not be sent.
SendReturn(c) ==
  /\ On(c)
  /\ phase[c] \in {"sent", "failed"}
  /\ messageSent[Home(c)] > 0
  /\ messageSent' = [messageSent EXCEPT ![Home(c)] = @ - 1]
  /\ sendLock' = [sendLock EXCEPT ![Home(c)] = NoClient]
  /\ IF phase[c] = "sent"
       THEN /\ Proceed(c)
            /\ UNCHANGED <<power, socket>>
       ELSE /\ TurnOff(Home(c))
            /\ Phase(c, "refused")
            /\ UNCHANGED step
  /\ UNCHANGED <<scenario, inHdr, sendPending, available, worker, boxes, lastMail, mailVars>>

----------------------------------------------------------------------------
\* Mutant of CheckPktAvail: a packet that is still buffered is overwritten.
CheckPktOverwrites(m) ==
  /\ power[m] = "on"
  /\ socket[m] # << >>
  /\ inHdr' = [inHdr EXCEPT ![m] = Head(socket[m])]
  /\ socket' = [socket EXCEPT ![m] = Tail(@)]
  /\ IncomingPacket(m)
  /\ UNCHANGED <<scenario, power, sendPending, messageSent, sendLock, worker, boxes,
                 clientVars, mailVars>>

\* NetworkRecvInt, the poll that is scheduled again and again: a packet moves
\* from the socket into the one buffer when that is empty, and the handler runs.
CheckPktAvail(m) ==
  /\ power[m] = "on"
  /\ inHdr[m] = NoPacket
  /\ socket[m] # << >>
  /\ inHdr' = [inHdr EXCEPT ![m] = Head(socket[m])]
  /\ socket' = [socket EXCEPT ![m] = Tail(@)]
  /\ IncomingPacket(m)
  /\ UNCHANGED <<scenario, power, sendPending, messageSent, sendLock, worker, boxes,
                 clientVars, mailVars>>

\* Mutant of WorkerWaits: the buffer is read without waiting for a message.
WorkerRushes(m) ==
  /\ power[m] = "on"
  /\ worker[m].at = "P"
  /\ worker' = [worker EXCEPT ![m].at = "Receive"]
  /\ UNCHANGED <<scenario, power, deviceVars, available, messageSent, sendLock, boxes, clientVars, mailVars>>

\* PostalDelivery: messageAvailable->P(); network->Receive(); and, after a
\* switch that SynchList's lock may bring, boxes[to].Put().
WorkerWaits(m) ==
  /\ power[m] = "on"
  /\ worker[m].at = "P" /\ available[m] > 0
  /\ available' = [available EXCEPT ![m] = @ - 1]
  /\ worker' = [worker EXCEPT ![m].at = "Receive"]
  /\ UNCHANGED <<scenario, power, deviceVars, messageSent, sendLock, boxes, clientVars, mailVars>>

\* Mutant of WorkerReceives: the buffer is not marked empty.
WorkerPeeks(m) ==
  /\ power[m] = "on"
  /\ worker[m].at = "Receive"
  /\ worker' = [worker EXCEPT ![m] = [at |-> "Put", mail |-> inHdr[m]]]
  /\ UNCHANGED <<scenario, power, deviceVars, available, messageSent, sendLock,
                 boxes, clientVars, mailVars>>

WorkerReceives(m) ==
  /\ power[m] = "on"
  /\ worker[m].at = "Receive"
  /\ worker' = [worker EXCEPT ![m] = [at |-> "Put", mail |-> inHdr[m]]]
  /\ inHdr' = [inHdr EXCEPT ![m] = NoPacket]
  /\ UNCHANGED <<scenario, power, socket, sendPending, available, messageSent, sendLock,
                 boxes, clientVars, mailVars>>

\* MailBox::Put and MailBox::Get.  The list is a SynchList: Get waits for mail.
Put(m, mail) == boxes' = [boxes EXCEPT ![m][mail.box] = Append(@, mail)]

Get(m, b, c) ==
  /\ boxes[m][b] # << >>
  /\ lastMail' = [lastMail EXCEPT ![c] = Head(boxes[m][b])]
  /\ got' = [got EXCEPT ![m][b] = Append(@, Head(boxes[m][b]))]
  /\ boxes' = [boxes EXCEPT ![m][b] = Tail(@)]

WorkerPuts(m) ==
  /\ power[m] = "on"
  /\ worker[m].at = "Put"
  /\ Put(m, worker[m].mail)
  /\ worker' = [worker EXCEPT ![m] = [at |-> "P", mail |-> NoPacket]]
  /\ UNCHANGED <<scenario, power, deviceVars, available, messageSent, sendLock,
                 clientVars, mailVars>>

----------------------------------------------------------------------------
\* PostOffice::Receive.
ReceiveMail(c) ==
  /\ AtOp(c, "receive")
  /\ Get(Home(c), Next1(c).box, c)
  /\ Proceed(c)
  /\ UNCHANGED <<scenario, power, deviceVars, available, messageSent, sendLock, worker, wire, lost>>

\* The end of MailTest.
HaltMachine(c) ==
  /\ AtOp(c, "halt")
  /\ TurnOff(Home(c))
  /\ Proceed(c)
  /\ UNCHANGED <<scenario, inHdr, sendPending, officeVars, lastMail, mailVars>>

PONext ==
  \/ \E m \in Machines : PowerOn(m)
  \/ \E c \in Clients : LockSend(c)
  \/ \E c \in Clients : SendLost(c)
  \/ \E c \in Clients : SendDelivered(c)
  \/ \E c \in Clients : SendFailed(c)
  \/ \E m \in Machines : SendDone(m)
  \/ \E c \in Clients : SendReturn(c)
  \/ \E m \in Machines : CheckPktAvail(m)
  \/ \E m \in Machines : WorkerWaits(m)
  \/ \E m \in Machines : WorkerReceives(m)
  \/ \E m \in Machines : WorkerPuts(m)
  \/ \E c \in Clients : ReceiveMail(c)
  \/ \E c \in Clients : HaltMachine(c)

POSpec == POInit /\ [][PONext]_poVars

WorkerStep(m) == WorkerWaits(m) \/ WorkerReceives(m) \/ WorkerPuts(m)
ClientStep(c) ==
  \/ LockSend(c) \/ SendLost(c) \/ SendDelivered(c) \/ SendFailed(c)
  \/ SendReturn(c) \/ ReceiveMail(c) \/ HaltMachine(c)

\* Fairness: pending interrupts and the poll come, since simulated time goes
\* on while a machine idles; a thread that can run does, and a lock or a box
\* has a queue in order of arrival; every nachos is started.  The network need not lose anything.
POFairness ==
  /\ \A m \in Machines :
       /\ WF_poVars(PowerOn(m))
       /\ WF_poVars(SendDone(m))
       /\ WF_poVars(CheckPktAvail(m))
       /\ WF_poVars(WorkerStep(m))
  /\ \A c \in Clients : SF_poVars(ClientStep(c))

FairPOSpec == POSpec /\ POFairness

----------------------------------------------------------------------------
Packets == [from : Machines, to : Machines, box : Boxes, replyTo : Boxes, id : Clients \X Nat]

\* Types; in particular the postal worker never handles an empty buffer, whose
\* mail header is whatever was in it ("check that arriving message is legal").
POTypeOK ==
  /\ scenario \in Setups
  /\ power \in [Machines -> {"off", "on", "halted"}]
  /\ socket \in [Machines -> Seq(Packets)]
  /\ inHdr \in [Machines -> Packets \cup {NoPacket}]
  /\ worker \in [Machines -> [at : {"P", "Receive", "Put"}, mail : Packets \cup {NoPacket}]]
  /\ \A m \in Machines : worker[m].at = "Put" => worker[m].mail \in Packets
  /\ boxes \in [Machines -> [Boxes -> Seq(Packets)]] /\ got \in [Machines -> [Boxes -> Seq(Packets)]]
  /\ wire \in Seq(Packets)
  /\ available \in [Machines -> Nat] /\ messageSent \in [Machines -> Nat]
  /\ sendPending \in [Machines -> Nat]
  /\ sendLock \in [Machines -> Clients \cup {NoClient}]
  /\ step \in [Clients -> Nat \ {0}]
  /\ phase \in [Clients -> {"begin", "locked", "sent", "failed", "refused"}]
  /\ lastMail \in [Clients -> Packets \cup {NoPacket}]
  /\ lost \in 0 .. MaxLost

Sending(m) == {c \in Clients : Home(c) = m /\ phase[c] \in {"sent", "failed"}}

\* "only one message can be sent to the network at any one time" (post.cc:287):
\* there is at most one sender between network->Send and the end of its wait,
\* and the one interrupt that is due, or the unit it left, is for that sender.
OneSendAtATime ==
  \A m \in Machines :
    power[m] = "on" => /\ Cardinality(Sending(m)) <= 1
                       /\ sendPending[m] + messageSent[m] = Cardinality(Sending(m))

\* Mail on its way through machine m, first come first.
OnItsWay(m) ==
  (IF worker[m].at = "Put" THEN <<worker[m].mail>> ELSE << >>)
    \o (IF inHdr[m] = NoPacket THEN << >> ELSE <<inHdr[m]>>)
    \o socket[m]
Kept(s, p, m, b) == IF p.to = m /\ p.box = b THEN Append(s, p) ELSE s
ForBox(s, m, b) ==
  LET upTo[i \in 0 .. Len(s)] == IF i = 0 THEN << >> ELSE Kept(upTo[i - 1], s[i], m, b)
  IN upTo[Len(s)]

\* A machine that runs loses, repeats and reorders nothing: what was taken from
\* a box, what lies in it and what is on its way to it is exactly what entered
\* the socket for that box, in the same order.
\* And senders take turns: OneSendAtATime.
MailIsKept ==
  /\ POTypeOK
  /\ OneSendAtATime
  /\ \A m \in Machines, b \in Boxes :
       power[m] = "on" =>
         got[m][b] \o boxes[m][b] \o ForBox(OnItsWay(m), m, b) = ForBox(wire, m, b)

\* Every program comes to its end, unless the network lost a packet or a
\* machine was found switched off.
Ended == \A c \in Clients : step[c] > Len(Program(c))
Trouble == lost > 0 \/ \E c \in Clients : phase[c] \in {"failed", "refused"}
ProgramsEnd == <>(Ended \/ Trouble)

=============================================================================
