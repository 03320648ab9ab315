---------------------------- MODULE KernelOffice ----------------------------
(***************************************************************************)
(* The passport office on kernel threads: threads/threadtest.cc, which     *)
(* nachos runs, and the later properTestfile.cc, in which a senator goes   *)
(* before everybody.  The state is that of PassportOffice; what the user   *)
(* program does not have is added.                                         *)
(*                                                                         *)
(* A kernel thread is switched out only where interrupts are enabled       *)
(* again: at the end of an operation on a lock or a condition, and in      *)
(* Yield.  A step runs from one access to data that no lock protects to    *)
(* the next, so that clerkMoney += 500 is one step here.  While a clerk    *)
(* works it yields with its clerkLock held; nobody looks at what it writes *)
(* meanwhile, so its work is one step.  A free lock goes to any thread     *)
(* that asks for it.                                                       *)
(***************************************************************************)
EXTENDS PassportOffice, SequencesExt

\* The tests: version, clerkArray, number of the first clerk, types and places.
CONSTANTS KernelOffices

VARIABLES
  version,           \* the program: "threadtest" or "properTestfile"
  clerkArray,        \* how many clerks there are of each of ClerkTypes
  senatorLineCount,
  clerkSenatorCV,    \* who sleeps on it for each clerk: the clerk or the senator
  clerkSenatorCVLock,\* of each clerk: who owns it
  clerkLock,         \* the clerks whose clerkLock the senator owns
  outsideLineCV      \* the customers asleep outside

senatorVars == <<senatorLineCount, clerkSenatorCV, clerkSenatorCVLock, clerkLock, outsideLineCV>>
programVars == <<version, clerkArray>>
kernelVars == <<programVars, senatorVars>>
officeKernelVars == <<officeVars, kernelVars>>

\* The last customer is the senator: Test 7 has one.
Senator == CustomerCount - 1
HasSenator == version = "properTestfile"
People == IF HasSenator THEN Customers \ {Senator} ELSE Customers

\* createClerkThreads: the clerks are numbered type by type, from first on.
ClerkTypes == <<"ApplicationClerk", "PictureClerk", "PassportClerk", "Cashier">>
Numbered(counts) ==
  FlattenSeq([i \in DOMAIN counts |-> [j \in 1 .. counts[i] |-> ClerkTypes[i]]])
ClerkThreads(first, counts) ==
  [k \in first .. first + Len(Numbered(counts)) - 1 |-> Numbered(counts)[k - first + 1]]

ASSUME KernelOfficeAssumption ==
  \A office \in KernelOffices :
    /\ office.version \in {"threadtest", "properTestfile"}
    /\ office.clerkArray \in [1 .. 4 -> Nat] /\ \E i \in 1 .. 4 : office.clerkArray[i] # 0
    /\ office.first \in Nat /\ office.types = ClerkThreads(office.first, office.clerkArray)
    /\ office.reached \subseteq Stages
    /\ office.clerks = IF office.version = "threadtest" THEN "choose" ELSE "top"

KernelClerkPlaces == {"top", "choose", "break", "test", "toCounter", "counter", "signOff",
                      "senator", "forSenator", "toSenator"}
KernelCustomerPlaces == {"arrive", "goingOut", "outside", "choosing", "line", "approach",
                         "served", "confirm", "visit", "gone"}

KernelTypeOK ==
  /\ clerkPlace \in [Clerks -> KernelClerkPlaces]
  /\ customerPlace \in [Customers -> KernelCustomerPlaces]
  /\ clerkLineLock \in {Self(k) : k \in Clerks} \cup {NoCustomer}
  /\ senatorLineCount \in 0 .. 1
  /\ clerkSenatorCV \in [Clerks -> Seq(Threads)]
  /\ clerkSenatorCVLock \in [Clerks -> Threads \cup {NoCustomer}]
  /\ clerkLock \subseteq Clerks
  /\ outsideLineCV \in Seq(Customers)

\* createClerkLocksAndConditions, of what the senators added.
SenatorsBegin ==
  /\ senatorLineCount = 0
  /\ clerkSenatorCV = [k \in Clerks |-> << >>]
  /\ clerkSenatorCVLock = [k \in Clerks |-> NoCustomer]
  /\ clerkLock = {}
  /\ outsideLineCV = << >>

\* Part2: everybody has been forked.
KernelInit(office) ==
  /\ version = office.version
  /\ clerkArray = office.clerkArray
  /\ ClerksBegin(office) /\ CustomersBegin(office) /\ LinesBegin /\ SenatorsBegin /\ BooksBegin
  /\ messUps = 0
  /\ manager = "count"
  /\ currentTotalBoolCount = 0
  /\ allCustomersAreDone = FALSE

----------------------------------------------------------------------------
LineLockFor(t) == clerkLineLock \in {t, NoCustomer}
\* The clerkLock of k: the steps of clerk and customers end without it.
ClerkLockFree(k) == k \notin clerkLock

\* chooseCustomerFromLine of properTestfile.cc, the top of its loop: is there a
\* senator?  No lock protects the count.
LookForSenator(k) ==
  /\ clerkPlace[k] = "top"
  /\ ClerkGoto(k, IF senatorLineCount > 0 THEN "senator" ELSE "choose")
  /\ UNCHANGED <<fixedVars, clerkStates, customerVars, lineVars, counterVars, attributeVars,
                 moneyVars, managerVars, kernelVars>>

\* The lines of a clerk; its monitor is kept until it has its clerkLock.
TakeFromBribeLine(k) ==
  /\ clerkPlace[k] = "choose" /\ LineLockFor(Self(k))
  /\ clerkBribeLineCount[k] > 0
  /\ clerkBribeLineCV' = [clerkBribeLineCV EXCEPT ![k] = TailOf(@)]
  /\ clerkLineLock' = Self(k)
  /\ SetState(k, "BUSY")
  /\ ClerkGoto(k, "toCounter")
  /\ UNCHANGED <<fixedVars, customerVars, clerkLineCV, clerkLineCount, clerkBribeLineCount,
                 counterVars, attributeVars, moneyVars, managerVars, kernelVars>>

TakeFromLine(k) ==
  /\ clerkPlace[k] = "choose" /\ LineLockFor(Self(k))
  /\ clerkBribeLineCount[k] = 0 /\ clerkLineCount[k] > 0
  /\ clerkLineCV' = [clerkLineCV EXCEPT ![k] = TailOf(@)]
  /\ clerkLineLock' = Self(k)
  /\ SetState(k, "BUSY")
  /\ ClerkGoto(k, "toCounter")
  /\ UNCHANGED <<fixedVars, customerVars, clerkBribeLineCV, clerkLineCount, clerkBribeLineCount,
                 counterVars, attributeVars, moneyVars, managerVars, kernelVars>>

TakeABreak(k) ==
  /\ clerkPlace[k] = "choose" /\ LineLockFor(Self(k))
  /\ clerkBribeLineCount[k] = 0 /\ clerkLineCount[k] = 0
  /\ clerkLineLock' = NoCustomer
  /\ SetState(k, "ONBREAK")
  /\ ClerkGoto(k, "break")
  /\ UNCHANGED <<fixedVars, customerVars, clerkLineCV, clerkBribeLineCV, clerkLineCount,
                 clerkBribeLineCount, counterVars, attributeVars, moneyVars, managerVars, kernelVars>>

\* while(clerkStates[myLine] != BUSY), after a break, with no lock.
TestState(k) ==
  /\ clerkPlace[k] = "test"
  /\ ClerkGoto(k, IF clerkStates[k] = "BUSY" THEN "toCounter"
                  ELSE IF HasSenator THEN "top" ELSE "choose")
  /\ UNCHANGED <<fixedVars, clerkStates, customerVars, lineVars, counterVars, attributeVars,
                 moneyVars, managerVars, kernelVars>>

\* clerkLock[myLine]->Acquire(); clerkLineLock->Release(), which does nothing
\* for a clerk back from its break; clerkCV[myLine]->Wait().
StandAtCounter(k) ==
  /\ clerkPlace[k] = "toCounter"
  /\ ClerkLockFree(k)
  /\ clerkLineLock' = IF clerkLineLock = Self(k) THEN NoCustomer ELSE clerkLineLock
  /\ GoToCounter(k)
  /\ UNCHANGED <<fixedVars, clerkStates, customerVars, clerkLineCV, clerkBribeLineCV, clerkLineCount,
                 clerkBribeLineCount, customerData, attributeVars, moneyVars, managerVars, kernelVars>>

\* The senator branch: tell the senator, and wait for it.
AnswerSenator(k) ==
  /\ clerkPlace[k] = "senator" /\ clerkSenatorCVLock[k] = NoCustomer
  /\ clerkSenatorCV' = [clerkSenatorCV EXCEPT ![k] = Append(TailOf(@), Self(k))]
  /\ ClerkGoto(k, "forSenator")
  /\ UNCHANGED <<fixedVars, clerkStates, customerVars, lineVars, counterVars, attributeVars, moneyVars,
                 managerVars, programVars, senatorLineCount, clerkSenatorCVLock, clerkLock, outsideLineCV>>

BackFromSenator(k) ==
  clerkPlace[k] = "forSenator" /\ ~IsIn(clerkSenatorCV[k], Self(k)) /\ clerkSenatorCVLock[k] = NoCustomer

\* It has been called...
CalledBySenator(k) ==
  /\ BackFromSenator(k) /\ senatorLineCount > 0
  /\ clerkSenatorCVLock' = [clerkSenatorCVLock EXCEPT ![k] = Self(k)]
  /\ SetState(k, "BUSY")
  /\ ClerkGoto(k, "toSenator")
  /\ UNCHANGED <<fixedVars, customerVars, lineVars, counterVars, attributeVars, moneyVars, managerVars,
                 programVars, senatorLineCount, clerkSenatorCV, clerkLock, outsideLineCV>>

\* ... or the senator has left: the lines' monitor is kept until the next look.
SenatorHasLeft(k) ==
  /\ BackFromSenator(k) /\ senatorLineCount = 0
  /\ LineLockFor(Self(k))
  /\ clerkLineLock' = Self(k)
  /\ SetState(k, "AVAILABLE")
  /\ ClerkGoto(k, "choose")
  /\ UNCHANGED <<fixedVars, customerVars, clerkLineCV, clerkBribeLineCV, clerkLineCount,
                 clerkBribeLineCount, counterVars, attributeVars, moneyVars, managerVars, kernelVars>>

\* testFlag: once it has its clerkLock the clerk lets the senator come.
StandForSenator(k) ==
  /\ clerkPlace[k] = "toSenator" /\ ClerkLockFree(k)
  /\ clerkSenatorCV' = [clerkSenatorCV EXCEPT ![k] = TailOf(@)]
  /\ clerkSenatorCVLock' = [clerkSenatorCVLock EXCEPT ![k] = NoCustomer]
  /\ GoToCounter(k)
  /\ UNCHANGED <<fixedVars, clerkStates, customerVars, lineVars, customerData, attributeVars, moneyVars,
                 managerVars, programVars, senatorLineCount, clerkLock, outsideLineCV>>

----------------------------------------------------------------------------
\* A customer has signalled: the clerk works for the number at its counter.
Works(k, c) ==
  /\ clerkPlace[k] = "counter" /\ ~IsIn(clerkCV[k], Self(k)) /\ ClerkLockFree(k)
  /\ c = customerData[k]
  /\ SignOff(k)

MayMessUp(c) == ~HasSenator \/ c # Senator

TakesApplication(k, c) ==
  /\ clerkTypes[k] = "ApplicationClerk" /\ Works(k, c)
  /\ SetState(k, "BUSY")
  /\ Reaches(c, "applicationIsFiled")
  /\ UNCHANGED <<fixedVars, customerVars, lineVars, customerData, clerkMessedUp, messUps, moneyVars,
                 managerVars, kernelVars>>

\* Until the customer likes it.
TakesPicture(k, c) ==
  /\ clerkTypes[k] = "PictureClerk" /\ Works(k, c)
  /\ SetState(k, "BUSY")
  /\ Reaches(c, "likesPicture")
  /\ UNCHANGED <<fixedVars, customerVars, lineVars, customerData, clerkMessedUp, messUps, moneyVars,
                 managerVars, kernelVars>>

Certifies(k, c) ==
  /\ clerkTypes[k] = "PassportClerk" /\ Works(k, c)
  /\ {"applicationIsFiled", "likesPicture"} \subseteq reached[c]
  /\ MessesUpOr(c, "hasCertification") /\ (messUps' # messUps => MayMessUp(c))
  /\ SetState(k, "BUSY")
  /\ UNCHANGED <<fixedVars, customerVars, lineVars, customerData, moneyVars, managerVars, kernelVars>>

Sells(k, c) ==
  /\ clerkTypes[k] = "Cashier" /\ Works(k, c)
  /\ "hasCertification" \in reached[c]
  /\ money' = [money EXCEPT ![c] = @ - 100]
  /\ clerkMoney' = [clerkMoney EXCEPT ![k] = @ + 100]
  /\ MessesUpOr(c, "isDone") /\ (messUps' # messUps => MayMessUp(c))
  /\ SetState(k, "BUSY")
  /\ UNCHANGED <<fixedVars, register, bookVars, customerVars, lineVars, customerData, managerVars,
                 kernelVars>>

\* Both of these send a customer away that lacks something.
SendsBack(k, c) ==
  /\ Works(k, c)
  /\ \/ clerkTypes[k] = "PassportClerk" /\ ~({"applicationIsFiled", "likesPicture"} \subseteq reached[c])
     \/ clerkTypes[k] = "Cashier" /\ "hasCertification" \notin reached[c]
  /\ UNCHANGED <<fixedVars, clerkStates, customerVars, lineVars, customerData, attributeVars, moneyVars,
                 managerVars, kernelVars>>

\* clerkSignalsNextCustomer has been answered: while(true).
NextInLine(k) ==
  /\ clerkPlace[k] = "signOff" /\ ~IsIn(clerkCV[k], Self(k)) /\ ClerkLockFree(k)
  /\ ClerkGoto(k, IF HasSenator THEN "top" ELSE "choose")
  /\ UNCHANGED <<fixedVars, clerkStates, customerVars, lineVars, counterVars, attributeVars, moneyVars,
                 managerVars, kernelVars>>

----------------------------------------------------------------------------
\* The clerks that can do something for c now: both kinds of first clerk count.
Candidates(c) ==
  {k \in Clerks :
     CASE clerkTypes[k] = "ApplicationClerk" -> "applicationIsFiled" \notin reached[c]
       [] clerkTypes[k] = "PictureClerk" -> "likesPicture" \notin reached[c]
       [] clerkTypes[k] = "PassportClerk" ->
            /\ {"applicationIsFiled", "likesPicture"} \subseteq reached[c]
            /\ "hasCertification" \notin reached[c]
       [] OTHER -> "hasCertification" \in reached[c]}

\* The first of the shortest lines; in the later program Rand has picked one of
\* the two first kinds.
KernelLines(c) ==
  IF HasSenator THEN Lines(c)
  ELSE {k \in Candidates(c) :
          \A j \in Candidates(c) :
            LineSize(k) < LineSize(j) \/ (LineSize(k) = LineSize(j) /\ k <= j)}

\* The later program sends the customers out while there is a senator.  They
\* look at its count without a lock...
LookForSenators(c) ==
  /\ HasSenator /\ customerPlace[c] = "arrive"
  /\ CustomerGoto(c, IF senatorLineCount > 0 THEN "goingOut" ELSE "choosing")
  /\ UNCHANGED <<fixedVars, clerkVars, myLine, bribe, lineVars, counterVars, attributeVars,
                 moneyVars, managerVars, kernelVars>>

\* ... and wait outside, without a second look.
WaitOutside(c) ==
  /\ customerPlace[c] = "goingOut"
  /\ outsideLineCV' = Append(outsideLineCV, c)
  /\ CustomerGoto(c, "outside")
  /\ UNCHANGED <<fixedVars, clerkVars, myLine, bribe, lineVars, counterVars, attributeVars, moneyVars,
                 managerVars, programVars, senatorLineCount, clerkSenatorCV, clerkSenatorCVLock, clerkLock>>

\* c has the lines' monitor and chooses the line of k.
Chooses(c, k) ==
  /\ \/ ~HasSenator /\ customerPlace[c] = "arrive"
     \/ customerPlace[c] = "choosing"
     \/ customerPlace[c] = "outside" /\ ~IsIn(outsideLineCV, c)
  /\ LinesFree
  /\ k \in KernelLines(c)
  /\ myLine' = [myLine EXCEPT ![c] = k]

EnterStraight(c, k) ==
  /\ Chooses(c, k) /\ clerkStates[k] = "AVAILABLE"
  /\ SetState(k, "BUSY")
  /\ CustomerGoto(c, "approach")
  /\ UNCHANGED <<fixedVars, clerkPlace, bribe, lineVars, counterVars, attributeVars, moneyVars,
                 managerVars, kernelVars>>

EnterLine(c, k) ==
  /\ Chooses(c, k) /\ clerkStates[k] # "AVAILABLE" /\ money[c] <= 100
  /\ clerkLineCount' = [clerkLineCount EXCEPT ![k] = @ + 1]
  /\ clerkLineCV' = [clerkLineCV EXCEPT ![k] = Append(@, c)]
  /\ CustomerGoto(c, "line")
  /\ UNCHANGED <<fixedVars, clerkVars, bribe, clerkLineLock, clerkBribeLineCV, clerkBribeLineCount,
                 counterVars, attributeVars, moneyVars, managerVars, kernelVars>>

\* Nothing is switched between reading money or clerkMoney and storing it.
EnterBribeLineWith(c, k, taken) ==
  /\ Chooses(c, k) /\ clerkStates[k] # "AVAILABLE" /\ money[c] > 100
  /\ money' = [money EXCEPT ![c] = @ - taken]
  /\ clerkMoney' = [clerkMoney EXCEPT ![k] = @ + 500]
  /\ clerkBribeLineCount' = [clerkBribeLineCount EXCEPT ![k] = @ + 1]
  /\ clerkBribeLineCV' = [clerkBribeLineCV EXCEPT ![k] = Append(@, c)]
  /\ bribe' = [bribe EXCEPT ![c] = TRUE]
  /\ CustomerGoto(c, "line")
  /\ UNCHANGED <<fixedVars, clerkVars, register, bookVars, clerkLineLock, clerkLineCV, clerkLineCount,
                 counterVars, attributeVars, managerVars, kernelVars>>

\* Mutant of EnterBribeLine: the customer keeps its money.
EnterBribeLineForFree(c, k) == EnterBribeLineWith(c, k, 0)

EnterBribeLine(c, k) == EnterBribeLineWith(c, k, 500)

\* The rest is what the user program does, once the clerkLock is free.
LeaveTheLine(c) == LeaveLine(c) /\ UNCHANGED kernelVars
ApproachClerk(c) == c \in People /\ Approach(c) /\ ClerkLockFree(myLine[c]) /\ UNCHANGED kernelVars
LeaveClerk(c) == c \in People /\ LeaveCounter(c) /\ ClerkLockFree(myLine[c]) /\ UNCHANGED kernelVars

----------------------------------------------------------------------------
\* The senator takes every clerkSenatorCVLock and waits for the first clerk.
SenatorArrives ==
  LET first == CHOOSE k \in Clerks : \A j \in Clerks : k <= j IN
  /\ HasSenator /\ customerPlace[Senator] = "arrive"
  /\ \A k \in Clerks : clerkSenatorCVLock[k] = NoCustomer
  /\ senatorLineCount' = 1
  /\ clerkSenatorCVLock' = [k \in Clerks |-> IF k = first THEN NoCustomer ELSE Senator]
  /\ clerkSenatorCV' = [clerkSenatorCV EXCEPT ![first] = Append(@, Senator)]
  /\ myLine' = [myLine EXCEPT ![Senator] = first]
  /\ CustomerGoto(Senator, "confirm")
  /\ UNCHANGED <<fixedVars, clerkVars, bribe, lineVars, counterVars, attributeVars, moneyVars,
                 managerVars, programVars, clerkLock, outsideLineCV>>

\* The senator comes back from its wait for k, with the lock it waited with.
SenatorIsBack(place, k) ==
  /\ HasSenator /\ customerPlace[Senator] = place /\ k = myLine[Senator]
  /\ ~IsIn(clerkSenatorCV[k], Senator) /\ clerkSenatorCVLock[k] = NoCustomer

\* Confirmed by k: wait for the next clerk.
Confirmed(k) ==
  /\ SenatorIsBack("confirm", k) /\ k + 1 \in Clerks
  /\ clerkSenatorCVLock' = [clerkSenatorCVLock EXCEPT ![k] = Senator, ![k + 1] = NoCustomer]
  /\ clerkSenatorCV' = [clerkSenatorCV EXCEPT ![k + 1] = Append(@, Senator)]
  /\ myLine' = [myLine EXCEPT ![Senator] = k + 1]
  /\ UNCHANGED <<fixedVars, clerkVars, customerPlace, bribe, lineVars, counterVars, attributeVars,
                 moneyVars, managerVars, programVars, senatorLineCount, clerkLock, outsideLineCV>>

\* Signal the last clerk that fits and wait for it; locks are the
\* clerkSenatorCVLocks, of which Wait frees one.
Visit(locks) ==
  LET k == CHOOSE j \in Candidates(Senator) : \A i \in Candidates(Senator) : i <= j IN
  /\ clerkSenatorCV' = [clerkSenatorCV EXCEPT ![k] = Append(TailOf(@), Senator)]
  /\ clerkSenatorCVLock' = [locks EXCEPT ![k] = IF @ = Senator THEN NoCustomer ELSE @]
  /\ myLine' = [myLine EXCEPT ![Senator] = k]
  /\ CustomerGoto(Senator, "visit")

\* Mutant of AllConfirmed: the first confirmation is enough.
ConfirmedOnce(k) ==
  /\ SenatorIsBack("confirm", k)
  /\ Visit([clerkSenatorCVLock EXCEPT ![k] = Senator])
  /\ UNCHANGED <<fixedVars, clerkVars, bribe, lineVars, counterVars, attributeVars, moneyVars,
                 managerVars, programVars, senatorLineCount, clerkLock, outsideLineCV>>

\* All clerks have confirmed.
AllConfirmed(k) ==
  /\ SenatorIsBack("confirm", k) /\ k + 1 \notin Clerks
  /\ Visit([clerkSenatorCVLock EXCEPT ![k] = Senator])
  /\ UNCHANGED <<fixedVars, clerkVars, bribe, lineVars, counterVars, attributeVars, moneyVars,
                 managerVars, programVars, senatorLineCount, clerkLock, outsideLineCV>>

\* The clerk lets the senator come: its number, Signal and Wait.
SenatorApproaches(k) ==
  /\ SenatorIsBack("visit", k)
  /\ customerData' = [customerData EXCEPT ![k] = Senator]
  /\ SignalAndWait(k, Senator)
  /\ clerkLock' = clerkLock \ {k}
  /\ CustomerGoto(Senator, "served")
  /\ UNCHANGED <<fixedVars, clerkVars, myLine, bribe, lineVars, attributeVars, moneyVars, managerVars,
                 programVars, senatorLineCount, clerkSenatorCV, clerkSenatorCVLock, outsideLineCV>>

\* The clerk has signalled.  The senator keeps its clerkLock, and the clerk with it.
SenatorServedBy(k) ==
  /\ HasSenator /\ customerPlace[Senator] = "served" /\ k = myLine[Senator]
  /\ ~IsIn(clerkCV[k], Senator)

SenatorGoesOn(k) ==
  /\ SenatorServedBy(k) /\ "isDone" \notin reached[Senator]
  /\ clerkLock' = clerkLock \cup {k}
  /\ Visit(clerkSenatorCVLock)
  /\ UNCHANGED <<fixedVars, clerkVars, bribe, lineVars, counterVars, attributeVars, moneyVars,
                 managerVars, programVars, senatorLineCount, outsideLineCV>>

\* The senator frees the clerks, all its locks and the customers outside.  A
\* thread may be switched out between the signals of this loop; nothing is said
\* of the clerks then, and the loop is one step.
SenatorLeaves(k) ==
  /\ SenatorServedBy(k) /\ "isDone" \in reached[Senator]
  /\ senatorLineCount' = 0
  /\ clerkCV' = [j \in Clerks |-> TailOf(clerkCV[j])]
  /\ clerkLock' = {}
  /\ clerkSenatorCV' = [j \in Clerks |-> TailOf(clerkSenatorCV[j])]
  /\ clerkSenatorCVLock' = [j \in Clerks |-> IF clerkSenatorCVLock[j] = Senator THEN NoCustomer
                                             ELSE clerkSenatorCVLock[j]]
  /\ outsideLineCV' = << >>
  /\ CustomerGoto(Senator, "gone")
  /\ UNCHANGED <<fixedVars, clerkVars, myLine, bribe, lineVars, customerData, attributeVars, moneyVars,
                 managerVars, programVars>>

----------------------------------------------------------------------------
LinesAreLong ==
  IF HasSenator THEN WaitingInLines > LongLines \/ senatorLineCount > 0
                ELSE WaitingInLines >= 2

\* Manager, with interrupts off: 2 in line are enough in threadtest.cc; in the
\* later program it takes more, or a senator.
KernelCountLines ==
  /\ manager = "count"
  /\ \/ LinesAreLong /\ WakeUpClerks
     \/ ~LinesAreLong /\ UNCHANGED clerkVars
  /\ manager' = "check"
  /\ UNCHANGED <<fixedVars, customerVars, lineVars, counterVars, attributeVars, moneyVars,
                 currentTotalBoolCount, allCustomersAreDone, kernelVars>>

PeopleBoolCount == Total([c \in People |-> Cardinality(reached[c])])

\* printMoney: what the manager counts for a type, by the numbers of its clerks.
ClerksUpTo(i) == FoldFunctionOnSet(+, 0, clerkArray, 1 .. i)
MoneyOf(i) ==
  LET first == CHOOSE k \in Clerks : \A j \in Clerks : k <= j IN
  FoldFunctionOnSet(+, 0, clerkMoney, first + ClerksUpTo(i - 1) .. first + ClerksUpTo(i) - 1)

\* customersAreAllDone of threadtest.cc counts the passports.
CountPassports ==
  /\ ~HasSenator /\ manager = "check"
  /\ manager' = IF EverybodyDone THEN "exit" ELSE "count"
  /\ UNCHANGED <<fixedVars, clerkVars, customerVars, lineVars, counterVars, attributeVars, moneyVars,
                 currentTotalBoolCount, allCustomersAreDone, kernelVars>>

\* In the later program it also wakes the clerks when no customer, the senator
\* apart, has got any further.
CheckProgress ==
  /\ HasSenator /\ manager = "check"
  /\ \/ PeopleBoolCount = currentTotalBoolCount /\ WakeUpClerks
     \/ PeopleBoolCount # currentTotalBoolCount /\ UNCHANGED clerkVars
  /\ currentTotalBoolCount' = PeopleBoolCount
  /\ manager' = IF EverybodyDone THEN "exit" ELSE "count"
  /\ UNCHANGED <<fixedVars, customerVars, lineVars, counterVars, attributeVars, moneyVars,
                 allCustomersAreDone, kernelVars>>

----------------------------------------------------------------------------
KernelClerkStep(k) ==
  \/ LookForSenator(k) \/ TakeFromBribeLine(k) \/ TakeFromLine(k) \/ TakeABreak(k)
  \/ TestState(k) \/ StandAtCounter(k) \/ NextInLine(k)
  \/ AnswerSenator(k) \/ CalledBySenator(k) \/ SenatorHasLeft(k) \/ StandForSenator(k)
  \/ \E c \in Customers : \/ TakesApplication(k, c) \/ TakesPicture(k, c)
                         \/ Certifies(k, c) \/ Sells(k, c) \/ SendsBack(k, c)

KernelCustomerStep(c) ==
  \/ LookForSenators(c) \/ WaitOutside(c)
  \/ \E k \in Clerks : EnterStraight(c, k) \/ EnterLine(c, k) \/ EnterBribeLine(c, k)
  \/ LeaveTheLine(c) \/ ApproachClerk(c) \/ LeaveClerk(c)

SenatorStep ==
  \/ SenatorArrives
  \/ \E k \in Clerks : \/ Confirmed(k) \/ AllConfirmed(k) \/ SenatorApproaches(k)
                        \/ SenatorGoesOn(k) \/ SenatorLeaves(k)

KernelOfficeNext ==
  \/ \E k \in Clerks : KernelClerkStep(k)
  \/ \E c \in People : KernelCustomerStep(c)
  \/ SenatorStep
  \/ KernelCountLines
  \/ CountPassports
  \/ CheckProgress
  \/ OfficeOver /\ UNCHANGED kernelVars

\* version says which program runs: the user's, or one of the kernel's.
UserProgram == version = "user"

UserInit == OfficeInit /\ version = "user" /\ clerkArray = << >> /\ SenatorsBegin
ProgramsInit == UserInit \/ \E office \in KernelOffices : KernelInit(office)

ProgramsNext ==
  \/ UserProgram /\ OfficeNext /\ UNCHANGED kernelVars
  \/ ~UserProgram /\ KernelOfficeNext

ProgramsSpec == ProgramsInit /\ [][ProgramsNext]_officeKernelVars

----------------------------------------------------------------------------

\* The counts that clerks, customers and the manager go by are exact whenever
\* the lines' monitor is free, in the user program and in those of the kernel,
\* whatever the senator does to those in line.
OfficeCountsAreExact ==
  /\ UserProgram => LineCountsAreExact
  /\ ~UserProgram => KernelTypeOK /\ CountsAreExact

\* The manager gives each type the money of its clerks, and leaves nothing out.
ManagerCountsRight ==
  \A i \in 1 .. 4 :
    MoneyOf(i) = FoldFunctionOnSet(+, 0, clerkMoney, {k \in Clerks : clerkTypes[k] = ClerkTypes[i]})

\* "Total sales never suffers from a race condition" (properTestfile.cc:735): on
\* kernel threads every dollar is counted, for the right clerks.  The user program
\* may be preempted inside += and -= and loses payments, on both sides, but counts
\* none of them twice.
SalesAddUp ==
  IF UserProgram THEN PaymentsAreNotCountedTwice ELSE AllMoneyIsThere /\ ManagerCountsRight

\* chooseCustomerFromLine "chooses senator line first" (properTestfile.cc:780):
\* once all clerks have confirmed, and until the senator leaves, no clerk looks
\* at its lines, and no other clerk waits at its counter, although the clerks
\* read senatorLineCount without a lock.
SenatorGoesFirst ==
  HasSenator /\ customerPlace[Senator] \in {"visit", "served"} =>
    \A k \in Clerks : /\ clerkPlace[k] \notin {"choose", "break", "test", "toCounter"}
                      /\ clerkPlace[k] = "counter" => k = myLine[Senator]

=============================================================================
