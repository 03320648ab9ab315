----------------------------- MODULE MCDevices -----------------------------
(* Devices and the network, and the lists that the kernel keeps for them, *)
(* in parts that do not touch each other.                                 *)
(* "devices": three threads on the disk, without a console, or two that   *)
(* read and write lines with a third on the disk.                         *)
(* "disk": one disk on its own, turning.                                  *)
(* "network": two machines with MailTest, or a burst of two senders.      *)
(* "list": one list of at most three items.                               *)
EXTENDS Devices, Disk, PostOffice, Lists, TLC

CONSTANTS t1, t2, t3, x, y, nl, m1, m2, c1, c2, c3, c4

Typed == <<x, nl, y>>
Lines == t1 :> <<ReadLine(2), WriteLine(<<x, y>>)>> @@ t2 :> <<WriteLine(<<y, nl>>), ReadLine(1)>>
           @@ t3 :> <<DiskCall>>
Sectors == [t \in {t1, t2, t3} |-> IF t = t1 THEN <<DiskCall, DiskCall>> ELSE <<DiskCall>>]
Both == {[program |-> Lines, console |-> TRUE], [program |-> Sectors, console |-> FALSE]}

Network(p1, p2, p3, p4) ==
  [ home |-> c1 :> m1 @@ c2 :> m2 @@ c3 :> m1 @@ c4 :> m2,
    program |-> c1 :> p1 @@ c2 :> p2 @@ c3 :> p3 @@ c4 :> p4 ]
MailTests == Network(MailTest(m2), MailTest(m1), << >>, << >>)
Burst == Network(<< Send(m2, 0, 1), Send(m2, 1, 0) >>, << Receive(0), Receive(0) >>,
                 << Send(m2, 0, 1) >>, << Receive(1), Reply >>)
Silence == Network(<< >>, << >>, << >>, << >>)   \* of the other parts, too
Networks == {MailTests, Burst, Silence}

VARIABLE part

NoDevices ==
  /\ mode = "halted" /\ currentThread = NoThread /\ yieldOnReturn = FALSE
  /\ pending = << >> /\ program = [t \in Threads |-> << >>]
  /\ place = [t \in Threads |-> "done"] /\ left = [t \in Threads |-> 0]
  /\ owner = [d \in Devs |-> NoThread] /\ units = [d \in Devs |-> 0]
  /\ busy = [d \in {"disk", "out"} |-> NoThread] /\ served = busy
  /\ incoming = EOF /\ keyboard = Input /\ toType = << >>
  /\ screen = << >> /\ readBy = << >>

NoNetwork == POBegin(Silence, "halted")

Init ==
  /\ DiskInit /\ ListsInit
  /\ \/ part = "devices" /\ DevInit /\ NoNetwork
     \/ part = "network" /\ NoDevices /\ POInit
     \/ part \in {"disk", "list"} /\ NoDevices /\ NoNetwork

Next ==
  \/ part = "devices" /\ DevNext /\ UNCHANGED <<diskVars, poVars, listsVars, part>>
  \/ part = "disk" /\ DiskNext /\ UNCHANGED <<devVars, poVars, listsVars, part>>
  \/ part = "network" /\ PONext /\ UNCHANGED <<devVars, diskVars, listsVars, part>>
  \/ part = "list" /\ ListsNext /\ UNCHANGED <<devVars, diskVars, poVars, part>>

mcVars == <<devVars, diskVars, poVars, listsVars, part>>

\* DevFairness and POFairness, of the part that runs: a condition of each at a
\* time, since the other one's action is then disabled for ever.
Others == UNCHANGED <<diskVars, listsVars, part>>
OfDevices(A) == part = "devices" /\ A /\ UNCHANGED poVars /\ Others
OfNetwork(A) == part = "network" /\ A /\ UNCHANGED devVars /\ Others
PartsFairness ==
  /\ SF_mcVars(OfDevices(Dispatch(t1)) \/ OfNetwork(ClientStep(c1)))
  /\ SF_mcVars(OfDevices(Dispatch(t2)) \/ OfNetwork(ClientStep(c2)))
  /\ SF_mcVars(OfDevices(Dispatch(t3)) \/ OfNetwork(ClientStep(c3)))
  /\ SF_mcVars(OfDevices(LongPeriod) \/ OfNetwork(ClientStep(c4)))
  /\ WF_mcVars(OfDevices(ThreadStep(t1)) \/ OfNetwork(PowerOn(m1)))
  /\ WF_mcVars(OfDevices(ThreadStep(t2)) \/ OfNetwork(PowerOn(m2)))
  /\ WF_mcVars(OfDevices(ThreadStep(t3)) \/ OfNetwork(SendDone(m1)))
  /\ WF_mcVars(OfDevices(ClockStep) \/ OfNetwork(SendDone(m2)))
  /\ WF_mcVars(OfDevices(Type) \/ OfNetwork(CheckPktAvail(m1)))
  /\ WF_mcVars(OfNetwork(CheckPktAvail(m2)))
  /\ WF_mcVars(OfNetwork(WorkerStep(m1)))
  /\ WF_mcVars(OfNetwork(WorkerStep(m2)))

Spec == Init /\ [][Next]_mcVars /\ PartsFairness
=============================================================================
