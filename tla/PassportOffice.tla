--------------------------- MODULE PassportOffice ---------------------------
(***************************************************************************)
(* The passport office of test/passportoffice.c: clerks, customers and the *)
(* manager are threads of one user program, over the locks and condition   *)
(* variables of the kernel.                                                *)
(*                                                                         *)
(* The timer may preempt a user program between any two instructions.  A   *)
(* step is a critical section of one monitor (the lines under              *)
(* clerkLineLock, the counter of a clerk under its clerkLock, the break of *)
(* a clerk under its breakLock) or one access to data that its lock does   *)
(* not protect.  Money is such data: a customer pays a bribe under         *)
(* clerkLineLock and a cashier charges under its clerkLock, so "money -="  *)
(* and "clerkMoney +=" are each a step that reads and a step that stores.  *)
(* The tests that the program is built with have no senators, so           *)
(* senatorLineCount stays 0.                                               *)
(***************************************************************************)
EXTENDS Integers, Sequences, FiniteSets, Functions

CONSTANTS
  CustomerCount,  \* customerCount
  Offices,        \* the parts of an office to begin with
  Money,          \* moneyArray, what a customer may come with
  LongLines,      \* the manager acts on longer lines: 2 in the program
  MaxMessUps,     \* bound: how often the clerks mess up
  NoCustomer

Customers == 0 .. CustomerCount - 1
Stages == {"applicationIsFiled", "likesPicture", "hasCertification", "isDone"}
Types == {"ApplicationClerk", "PictureClerk", "PassportClerk", "Cashier"}

\* A part of an office: the types of some of its clerks, by their numbers, and
\* the stages that the customers have behind them when they come to these.
ASSUME OfficeAssumption ==
  /\ CustomerCount \in Nat \ {0}
  /\ \A office \in Offices : /\ IsFiniteSet(DOMAIN office.types)
                           /\ DOMAIN office.types \subseteq Nat
                           /\ office.types \in [DOMAIN office.types -> Types]
                           /\ office.reached \subseteq Stages
                           /\ office.clerks \in {"choose", "break"}
  /\ Money \subseteq Nat
  /\ LongLines \in Nat
  /\ MaxMessUps \in Nat
  /\ NoCustomer \notin Int

VARIABLES
  clerkTypes,          \* the type of each clerk, as createClerkThreads set it
  clerkPlace,          \* where each clerk is in its code
  clerkStates,
  clerkMoney,
  customerPlace,       \* where each customer is in its code
  myLine,              \* the customer's local: the clerk it has chosen
  bribe,               \* the customer's local: it waits in the bribe line
  register,            \* what a thread paying or counting money has read
  clerkLineLock,       \* the customer inside the lines' monitor
  clerkLineCV, clerkBribeLineCV,        \* the customers asleep in each line
  clerkLineCount, clerkBribeLineCount,
  clerkCV,             \* who sleeps at each counter: customers, or the clerk
  customerData,
  reached,             \* the Stages in a customer's attributes that are true
  clerkMessedUp,       \* the customers whose clerkMessedUp is true
  messUps,             \* how often clerks messed up
  money,               \* of a customer's attributes
  brought,             \* history: the money the customers came with
  sold,                \* history: what each clerk has taken, by exact books
  left,                \* history: what is left of each customer's, by exact books
  manager,             \* where the manager is in its code
  currentTotalBoolCount,
  allCustomersAreDone

Clerks == DOMAIN clerkTypes

fixedVars == <<clerkTypes, brought>>
clerkVars == <<clerkPlace, clerkStates>>
customerVars == <<customerPlace, myLine, bribe>>
lineVars == <<clerkLineLock, clerkLineCV, clerkBribeLineCV, clerkLineCount,
              clerkBribeLineCount>>
counterVars == <<clerkCV, customerData>>
attributeVars == <<reached, clerkMessedUp, messUps>>
bookVars == <<sold, left>>
moneyVars == <<money, clerkMoney, register, bookVars>>
managerVars == <<manager, currentTotalBoolCount,
                 allCustomersAreDone>>
officeVars == <<fixedVars, clerkVars, customerVars, lineVars, counterVars, attributeVars,
                moneyVars, managerVars>>

\* The thread of a clerk, in a queue that customers are in, too.
Self(k) == -1 - k
Threads == Customers \cup {Self(k) : k \in Clerks}

\* Inside clerkMoney += 100 and the money -= 100 before it; the same of a bribe.
CashierPlaces == {"charging", "charged", "pay"}
BriberPlaces == {"bribing", "paying", "paid", "adding"}

ClerkPlaces == {"choose", "break", "test", "counter", "signOff", "exit"} \cup CashierPlaces
CustomerPlaces == {"arrive", "line", "approach", "served", "gone"} \cup BriberPlaces
ManagerPlaces == {"count", "check", "finish", "exit"}

OfficeTypeOK ==
  /\ clerkPlace \in [Clerks -> ClerkPlaces]
  /\ clerkStates \in [Clerks -> {"AVAILABLE", "BUSY", "ONBREAK"}]
  /\ clerkMoney \in [Clerks -> Int]
  /\ customerPlace \in [Customers -> CustomerPlaces]
  /\ myLine \in [Customers -> Clerks \cup {-1}]
  /\ bribe \in [Customers -> BOOLEAN]
  /\ register \in [Threads -> Int]
  /\ clerkLineLock \in Customers \cup {NoCustomer}
  /\ clerkLineCV \in [Clerks -> Seq(Customers)]
  /\ clerkBribeLineCV \in [Clerks -> Seq(Customers)]
  /\ clerkLineCount \in [Clerks -> Nat]
  /\ clerkBribeLineCount \in [Clerks -> Nat]
  /\ clerkCV \in [Clerks -> Seq(Threads)]
  /\ customerData \in [Clerks -> Customers]
  /\ reached \in [Customers -> SUBSET Stages]
  /\ clerkMessedUp \subseteq Customers
  /\ messUps \in 0..MaxMessUps
  /\ money \in [Customers -> Int]
  /\ brought \in Nat
  /\ sold \in [Clerks -> Nat]
  /\ left \in [Customers -> Int]
  /\ manager \in ManagerPlaces
  /\ currentTotalBoolCount \in 0 .. 4 * CustomerCount
  /\ allCustomersAreDone \in BOOLEAN

Total(f) == FoldFunction(+, 0, f)

\* createClerkThreads: the clerks are AVAILABLE until they go on break.
ClerksBegin(office) ==
  /\ clerkTypes = office.types
  /\ clerkPlace = [k \in Clerks |-> office.clerks]
  /\ clerkStates = [k \in Clerks |-> IF office.clerks = "break" THEN "ONBREAK"
                                                               ELSE "AVAILABLE"]
  /\ clerkMoney = [k \in Clerks |-> 0]
  /\ customerData = [k \in Clerks |-> 0]

\* createClerkLocksAndConditions: nobody is in a queue.
LinesBegin ==
  /\ clerkLineLock = NoCustomer
  /\ clerkLineCV = [k \in Clerks |-> << >>]
  /\ clerkBribeLineCV = [k \in Clerks |-> << >>]
  /\ clerkCV = [k \in Clerks |-> << >>]
  /\ clerkLineCount = [k \in Clerks |-> 0]
  /\ clerkBribeLineCount = [k \in Clerks |-> 0]

\* initCustAttr of every customer.
CustomersBegin(office) ==
  /\ reached = [c \in Customers |-> office.reached]
  /\ clerkMessedUp = {}
  /\ money \in [Customers -> Money]
  /\ customerPlace = [c \in Customers |-> "arrive"]
  /\ myLine = [c \in Customers |-> -1]
  /\ bribe = [c \in Customers |-> FALSE]

BooksBegin ==
  /\ register = [t \in Threads |-> 0]
  /\ brought = Total(money)
  /\ sold = [k \in Clerks |-> 0]
  /\ left = money

\* createTestVariables has forked everybody.
OfficeInit ==
  /\ \E office \in Offices : ClerksBegin(office) /\ CustomersBegin(office)
  /\ LinesBegin /\ BooksBegin
  /\ messUps = 0
  /\ manager = "count"
  /\ currentTotalBoolCount = 0
  /\ allCustomersAreDone = FALSE

----------------------------------------------------------------------------
IsIn(q, t) == t \in Range(q)
TailOf(q) == IF q = << >> THEN q ELSE Tail(q)

ClerkGoto(k, place) == clerkPlace' = [clerkPlace EXCEPT ![k] = place]
CustomerGoto(c, place) == customerPlace' = [customerPlace EXCEPT ![c] = place]
SetState(k, state) == clerkStates' = [clerkStates EXCEPT ![k] = state]

\* Nobody else is inside the lines' monitor, or at the counter of k.
LinesFree == clerkLineLock = NoCustomer
CounterFree(k) == clerkPlace[k] \notin CashierPlaces

\* Signal(clerkLock[k], clerkCV[k]), then Wait on it or Release.
SignalAndWait(k, t) == clerkCV' = [clerkCV EXCEPT ![k] = Append(TailOf(@), t)]
SignalCounter(k) == clerkCV' = [clerkCV EXCEPT ![k] = TailOf(@)]

\* Acquire(clerkLock[k]) and Wait(clerkLock[k], clerkCV[k]): no customer keeps
\* the lock of a counter longer than a step.
GoToCounter(k) ==
  /\ ClerkGoto(k, "counter")
  /\ clerkCV' = [clerkCV EXCEPT ![k] = Append(@, Self(k))]

\* chooseCustomerFromLine: a customer of the bribe line, else one of the
\* regular line, else a break.
ChooseBribe(k) ==
  /\ clerkPlace[k] = "choose" /\ LinesFree
  /\ clerkBribeLineCount[k] > 0
  /\ clerkBribeLineCV' = [clerkBribeLineCV EXCEPT ![k] = TailOf(@)]
  /\ SetState(k, "BUSY")
  /\ GoToCounter(k)
  /\ UNCHANGED <<fixedVars, customerVars, clerkLineLock, clerkLineCV, clerkLineCount,
                 clerkBribeLineCount, customerData, attributeVars, moneyVars,
                 managerVars>>

ChooseRegular(k) ==
  /\ clerkPlace[k] = "choose" /\ LinesFree
  /\ clerkBribeLineCount[k] = 0 /\ clerkLineCount[k] > 0
  /\ clerkLineCV' = [clerkLineCV EXCEPT ![k] = TailOf(@)]
  /\ SetState(k, "BUSY")
  /\ GoToCounter(k)
  /\ UNCHANGED <<fixedVars, customerVars, clerkLineLock, clerkBribeLineCV,
                 clerkLineCount, clerkBribeLineCount, customerData, attributeVars,
                 moneyVars, managerVars>>

GoOnBreak(k) ==
  /\ clerkPlace[k] = "choose" /\ LinesFree
  /\ clerkBribeLineCount[k] = 0 /\ clerkLineCount[k] = 0
  /\ SetState(k, "ONBREAK")
  /\ ClerkGoto(k, "break")
  /\ UNCHANGED <<fixedVars, customerVars, lineVars, counterVars, attributeVars,
                 moneyVars, managerVars>>

\* Off break, the loop tests the state without clerkLineLock: a customer may have
\* made the clerk BUSY since the manager woke it.
GoOnTest(k) ==
  /\ clerkPlace[k] = "test"
  /\ \/ allCustomersAreDone /\ ClerkGoto(k, "exit") /\ UNCHANGED clerkCV
     \/ ~allCustomersAreDone /\ clerkStates[k] = "BUSY" /\ GoToCounter(k)
     \/ ~allCustomersAreDone /\ clerkStates[k] # "BUSY" /\ ClerkGoto(k, "choose") /\ UNCHANGED clerkCV
  /\ UNCHANGED <<fixedVars, clerkStates, customerVars, lineVars, customerData, attributeVars,
                 moneyVars, managerVars>>

\* A customer has signalled: the clerk has the lock of its counter again, takes
\* the customer's number and works for it.
Serves(k, c) ==
  /\ clerkPlace[k] = "counter" /\ ~IsIn(clerkCV[k], Self(k))
  /\ c = customerData[k]
  /\ SetState(k, "BUSY")

\* clerkSignalsNextCustomer, until its Wait.
SignOff(k) == ClerkGoto(k, "signOff") /\ SignalAndWait(k, Self(k))

Reaches(c, stage) == reached' = [reached EXCEPT ![c] = @ \cup {stage}]

FileApplication(k, c) ==
  /\ clerkTypes[k] = "ApplicationClerk" /\ Serves(k, c)
  /\ Reaches(c, "applicationIsFiled")
  /\ SignOff(k)
  /\ UNCHANGED <<fixedVars, customerVars, lineVars, customerData, clerkMessedUp, messUps,
                 moneyVars, managerVars>>

\* Pictures are taken until the customer likes one.
TakePicture(k, c) ==
  /\ clerkTypes[k] = "PictureClerk" /\ Serves(k, c)
  /\ Reaches(c, "likesPicture")
  /\ SignOff(k)
  /\ UNCHANGED <<fixedVars, customerVars, lineVars, customerData, clerkMessedUp, messUps,
                 moneyVars, managerVars>>

\* Rand decides whether the clerk reaches the stage for its customer or messes up.
MessesUpOr(c, stage) ==
  \/ /\ Reaches(c, stage)
     /\ clerkMessedUp' = clerkMessedUp \ {c}
     /\ UNCHANGED messUps
  \/ /\ messUps < MaxMessUps
     /\ messUps' = messUps + 1
     /\ clerkMessedUp' = clerkMessedUp \cup {c}
     /\ UNCHANGED reached

Certify(k, c) ==
  /\ clerkTypes[k] = "PassportClerk" /\ Serves(k, c)
  /\ \/ /\ {"applicationIsFiled", "likesPicture"} \subseteq reached[c]
        /\ MessesUpOr(c, "hasCertification")
     \/ /\ ~({"applicationIsFiled", "likesPicture"} \subseteq reached[c])
        /\ UNCHANGED attributeVars
  /\ SignOff(k)
  /\ UNCHANGED <<fixedVars, customerVars, lineVars, customerData, moneyVars, managerVars>>

\* What a thread has read of money or clerkMoney, until it stores the result.
Holds(t, amount) == register' = [register EXCEPT ![t] = amount]

\* The Cashier takes $100: it reads what the customer has...
Charge(k, c) ==
  /\ clerkTypes[k] = "Cashier" /\ Serves(k, c)
  /\ "hasCertification" \in reached[c]
  /\ Holds(Self(k), money[c])
  /\ ClerkGoto(k, "charging")
  /\ UNCHANGED <<fixedVars, money, clerkMoney, bookVars, customerVars, lineVars, counterVars,
                 attributeVars, managerVars>>

\* ... and stores the rest;
TakeMoney(k) ==
  /\ clerkPlace[k] = "charging"
  /\ money' = [money EXCEPT ![customerData[k]] = register[Self(k)] - 100]
  /\ left' = [left EXCEPT ![customerData[k]] = @ - 100]
  /\ Holds(Self(k), 0)
  /\ ClerkGoto(k, "charged")
  /\ UNCHANGED <<fixedVars, clerkStates, clerkMoney, sold, customerVars, lineVars, counterVars,
                 attributeVars, managerVars>>

\* it reads clerkMoney...
CountMoney(k) ==
  /\ clerkPlace[k] = "charged"
  /\ Holds(Self(k), clerkMoney[k])
  /\ ClerkGoto(k, "pay")
  /\ UNCHANGED <<fixedVars, clerkStates, money, clerkMoney, bookVars, customerVars, lineVars,
                 counterVars, attributeVars, managerVars>>

\* ... stores the sum, and hands over the passport.
HandOver(k) ==
  /\ clerkPlace[k] = "pay"
  /\ clerkMoney' = [clerkMoney EXCEPT ![k] = register[Self(k)] + 100]
  /\ sold' = [sold EXCEPT ![k] = @ + 100]
  /\ Holds(Self(k), 0)
  /\ MessesUpOr(customerData[k], "isDone")
  /\ SignOff(k)
  /\ UNCHANGED <<fixedVars, clerkStates, money, left, customerVars, lineVars, customerData, managerVars>>

Refuse(k, c) ==
  /\ clerkTypes[k] = "Cashier" /\ Serves(k, c)
  /\ "hasCertification" \notin reached[c]
  /\ SignOff(k)
  /\ UNCHANGED <<fixedVars, customerVars, lineVars, customerData, attributeVars, moneyVars,
                 managerVars>>

\* The customer has signalled that it leaves: the next one, or the end.
NextCustomer(k) ==
  /\ clerkPlace[k] = "signOff" /\ ~IsIn(clerkCV[k], Self(k))
  /\ ClerkGoto(k, IF allCustomersAreDone THEN "exit" ELSE "choose")
  /\ UNCHANGED <<fixedVars, clerkStates, customerVars, lineVars, counterVars,
                 attributeVars, moneyVars, managerVars>>

----------------------------------------------------------------------------
\* The type of clerk a customer may need now; Rand picks the first of two.
Wanted(c) ==
  CASE {"applicationIsFiled", "likesPicture"} \cap reached[c] = {} ->
         {"ApplicationClerk", "PictureClerk"}
    [] "applicationIsFiled" \notin reached[c] -> {"ApplicationClerk"}
    [] "likesPicture" \notin reached[c] -> {"PictureClerk"}
    [] "hasCertification" \notin reached[c] -> {"PassportClerk"}
    [] OTHER -> {"Cashier"}

LineSize(k) == clerkLineCount[k] + clerkBribeLineCount[k]

\* The first of the shortest lines of that type.
ShortestLine(type) ==
  LET of == {k \in Clerks : clerkTypes[k] = type}
      shortest == {k \in of : \A j \in of : LineSize(k) <= LineSize(j)}
  IN  CHOOSE k \in shortest : \A j \in shortest : k <= j

\* The lines of clerks that c may choose.
Lines(c) == {ShortestLine(type) : type \in Wanted(c) \cap Range(clerkTypes)}

\* Inside the lines' monitor with the clerk AVAILABLE: straight to its counter.
GoStraight(c) ==
  /\ customerPlace[c] = "arrive" /\ LinesFree
  /\ \E k \in Lines(c) :
       /\ clerkStates[k] = "AVAILABLE"
       /\ SetState(k, "BUSY")
       /\ myLine' = [myLine EXCEPT ![c] = k]
  /\ CustomerGoto(c, "approach")
  /\ UNCHANGED <<fixedVars, clerkPlace, bribe, lineVars, counterVars, attributeVars,
                 moneyVars, managerVars>>

\* Too poor to bribe: Wait in the regular line.
QueueUp(c) ==
  /\ customerPlace[c] = "arrive" /\ LinesFree
  /\ money[c] <= 100
  /\ \E k \in Lines(c) :
       /\ clerkStates[k] # "AVAILABLE"
       /\ clerkLineCount' = [clerkLineCount EXCEPT ![k] = @ + 1]
       /\ clerkLineCV' = [clerkLineCV EXCEPT ![k] = Append(@, c)]
       /\ myLine' = [myLine EXCEPT ![c] = k]
  /\ CustomerGoto(c, "line")
  /\ UNCHANGED <<fixedVars, clerkVars, bribe, clerkLineLock, clerkBribeLineCV, clerkBribeLineCount,
                 counterVars, attributeVars, moneyVars, managerVars>>

\* Rich enough: a bribe, with the lines' monitor kept.
Bribe(c) ==
  /\ customerPlace[c] = "arrive" /\ LinesFree
  /\ money[c] > 100
  /\ \E k \in Lines(c) :
       /\ clerkStates[k] # "AVAILABLE"
       /\ myLine' = [myLine EXCEPT ![c] = k]
  /\ clerkLineLock' = c
  /\ CustomerGoto(c, "bribing")
  /\ UNCHANGED <<fixedVars, clerkVars, bribe, clerkLineCV, clerkBribeLineCV, clerkLineCount,
                 clerkBribeLineCount, counterVars, attributeVars, moneyVars, managerVars>>

\* The customer reads what it has...
ReachForMoney(c) ==
  /\ customerPlace[c] = "bribing"
  /\ Holds(c, money[c])
  /\ CustomerGoto(c, "paying")
  /\ UNCHANGED <<fixedVars, clerkVars, money, clerkMoney, bookVars, myLine, bribe, lineVars,
                 counterVars, attributeVars, managerVars>>

\* ... and stores the rest;
PayBribe(c) ==
  /\ customerPlace[c] = "paying"
  /\ money' = [money EXCEPT ![c] = register[c] - 500]
  /\ left' = [left EXCEPT ![c] = @ - 500]
  /\ Holds(c, 0)
  /\ CustomerGoto(c, "paid")
  /\ UNCHANGED <<fixedVars, clerkVars, clerkMoney, sold, myLine, bribe, lineVars, counterVars,
                 attributeVars, managerVars>>

\* it reads clerkMoney...
CountBribe(c) ==
  /\ customerPlace[c] = "paid"
  /\ Holds(c, clerkMoney[myLine[c]])
  /\ CustomerGoto(c, "adding")
  /\ UNCHANGED <<fixedVars, clerkVars, money, clerkMoney, bookVars, myLine, bribe, lineVars,
                 counterVars, attributeVars, managerVars>>

\* ... stores the sum, and Waits in the bribe line.
QueueInFront(c) ==
  /\ customerPlace[c] = "adding"
  /\ LET k == myLine[c] IN
       /\ clerkMoney' = [clerkMoney EXCEPT ![k] = register[c] + 500]
       /\ sold' = [sold EXCEPT ![k] = @ + 500]
       /\ clerkBribeLineCount' = [clerkBribeLineCount EXCEPT ![k] = @ + 1]
       /\ clerkBribeLineCV' = [clerkBribeLineCV EXCEPT ![k] = Append(@, c)]
  /\ bribe' = [bribe EXCEPT ![c] = TRUE]
  /\ Holds(c, 0)
  /\ clerkLineLock' = NoCustomer
  /\ CustomerGoto(c, "line")
  /\ UNCHANGED <<fixedVars, clerkVars, money, left, myLine, clerkLineCV, clerkLineCount, counterVars,
                 attributeVars, managerVars>>

\* Mutants of LeaveLine: the bribe line is never counted down; both are.
LeavesLineWith(c, fromBribe, fromRegular) ==
  /\ customerPlace[c] = "line" /\ LinesFree
  /\ ~IsIn(clerkLineCV[myLine[c]] \o clerkBribeLineCV[myLine[c]], c)
  /\ clerkBribeLineCount' = [clerkBribeLineCount EXCEPT ![myLine[c]] = @ - fromBribe]
  /\ clerkLineCount' = [clerkLineCount EXCEPT ![myLine[c]] = @ - fromRegular]
  /\ bribe' = [bribe EXCEPT ![c] = FALSE]
  /\ CustomerGoto(c, "approach")
  /\ UNCHANGED <<fixedVars, clerkVars, myLine, clerkLineLock, clerkLineCV,
                 clerkBribeLineCV, counterVars, attributeVars, moneyVars, managerVars>>

LeavesRegularLine(c) == LeavesLineWith(c, 0, IF bribe[c] THEN 0 ELSE 1)
LeavesBothLines(c) == LeavesLineWith(c, 1, 1)

\* A clerk has signalled the line: the customer leaves it.
LeaveLine(c) ==
  /\ customerPlace[c] = "line" /\ LinesFree
  /\ LET k == myLine[c] IN
       /\ ~IsIn(clerkLineCV[k], c) /\ ~IsIn(clerkBribeLineCV[k], c)
       /\ clerkBribeLineCount' =
            [clerkBribeLineCount EXCEPT ![k] = IF bribe[c] THEN @ - 1 ELSE @]
       /\ clerkLineCount' = [clerkLineCount EXCEPT ![k] = IF bribe[c] THEN @ ELSE @ - 1]
  /\ bribe' = [bribe EXCEPT ![c] = FALSE]
  /\ CustomerGoto(c, "approach")
  /\ UNCHANGED <<fixedVars, clerkVars, myLine, clerkLineLock, clerkLineCV, clerkBribeLineCV,
                 counterVars, attributeVars, moneyVars, managerVars>>

\* At the counter: the number for the clerk, Signal and Wait.
Approach(c) ==
  /\ customerPlace[c] = "approach"
  /\ CounterFree(myLine[c])
  /\ customerData' = [customerData EXCEPT ![myLine[c]] = c]
  /\ SignalAndWait(myLine[c], c)
  /\ CustomerGoto(c, "served")
  /\ UNCHANGED <<fixedVars, clerkVars, myLine, bribe, lineVars, attributeVars, moneyVars,
                 managerVars>>

\* Signalled: Signal, Release, and once more if there is no passport yet.
LeaveCounter(c) ==
  /\ customerPlace[c] = "served"
  /\ CounterFree(myLine[c]) /\ ~IsIn(clerkCV[myLine[c]], c)
  /\ SignalCounter(myLine[c])
  /\ clerkMessedUp' = clerkMessedUp \ {c}
  /\ CustomerGoto(c, IF "isDone" \in reached[c] THEN "gone" ELSE "arrive")
  /\ myLine' = [myLine EXCEPT ![c] = -1]
  /\ UNCHANGED <<fixedVars, clerkVars, bribe, lineVars, customerData, reached, messUps, moneyVars,
                 managerVars>>

----------------------------------------------------------------------------
\* wakeUpClerks: the manager reads the states without a lock and signals, and
\* the clerk that wakes sets its state, without clerkLineLock.
WakeUpClerks ==
  LET woken == {k \in Clerks : clerkPlace[k] = "break"} IN
  /\ clerkPlace' = [k \in Clerks |-> IF k \in woken THEN "test" ELSE clerkPlace[k]]
  /\ clerkStates' = [k \in Clerks |-> IF k \in woken THEN "AVAILABLE" ELSE clerkStates[k]]

WaitingInLines == Total([k \in Clerks |-> LineSize(k)])

\* Manager: are the lines too long?
CountLines ==
  /\ manager = "count"
  /\ \/ WaitingInLines > LongLines /\ WakeUpClerks
     \/ WaitingInLines <= LongLines /\ UNCHANGED clerkVars
  /\ manager' = "check"
  /\ UNCHANGED <<fixedVars, customerVars, lineVars, counterVars, attributeVars,
                 moneyVars, currentTotalBoolCount, allCustomersAreDone>>

BoolCount == Total([c \in Customers |-> Cardinality(reached[c])])
EverybodyDone == \A c \in Customers : "isDone" \in reached[c]

\* Mutants of CheckCustomers: the clerks are never woken; certified customers
\* count as done.
CheckWithout(wakes, stage) ==
  /\ manager = "check"
  /\ currentTotalBoolCount' = BoolCount
  /\ \/ BoolCount = currentTotalBoolCount /\ wakes /\ WakeUpClerks
     \/ ~(BoolCount = currentTotalBoolCount /\ wakes) /\ UNCHANGED clerkVars
  /\ manager' = IF \A c \in Customers : stage \in reached[c] THEN "finish" ELSE "count"
  /\ UNCHANGED <<fixedVars, customerVars, lineVars, counterVars, attributeVars,
                 moneyVars, allCustomersAreDone>>

NeverWakes == CheckWithout(FALSE, "isDone")
DoneWhenCertified == CheckWithout(TRUE, "hasCertification")

\* customersAreAllDone: a round without progress wakes the clerks.
CheckCustomers ==
  /\ manager = "check"
  /\ currentTotalBoolCount' = BoolCount
  /\ \/ BoolCount = currentTotalBoolCount /\ WakeUpClerks
     \/ BoolCount # currentTotalBoolCount /\ UNCHANGED clerkVars
  /\ manager' = IF EverybodyDone THEN "finish" ELSE "count"
  /\ UNCHANGED <<fixedVars, customerVars, lineVars, counterVars, attributeVars,
                 moneyVars, allCustomersAreDone>>

\* The clerks may go: wake those on break for the last time, and Exit.
CloseOffice ==
  /\ manager = "finish"
  /\ allCustomersAreDone' = TRUE
  /\ WakeUpClerks
  /\ manager' = "exit"
  /\ UNCHANGED <<fixedVars, customerVars, lineVars, counterVars, attributeVars,
                 moneyVars, currentTotalBoolCount>>

\* Everybody has left or sleeps for ever; other programs go on.
OfficeOver == manager = "exit" /\ UNCHANGED officeVars

----------------------------------------------------------------------------
ClerkStep(k) ==
  \/ ChooseBribe(k) \/ ChooseRegular(k) \/ GoOnBreak(k)
  \/ GoOnTest(k) \/ NextCustomer(k)
  \/ TakeMoney(k) \/ CountMoney(k) \/ HandOver(k)
  \/ \E c \in Customers : \/ FileApplication(k, c) \/ TakePicture(k, c) \/ Certify(k, c)
                         \/ Charge(k, c) \/ Refuse(k, c)

CustomerStep(c) ==
  \/ GoStraight(c) \/ QueueUp(c)
  \/ Bribe(c) \/ ReachForMoney(c) \/ PayBribe(c) \/ CountBribe(c) \/ QueueInFront(c)
  \/ LeaveLine(c) \/ Approach(c) \/ LeaveCounter(c)

ManagerStep ==
  CountLines \/ CheckCustomers \/ CloseOffice

OfficeNext ==
  \/ \E k \in Clerks : ClerkStep(k)
  \/ \E c \in Customers : CustomerStep(c)
  \/ ManagerStep
  \/ OfficeOver

OfficeSpec == OfficeInit /\ [][OfficeNext]_officeVars

(***************************************************************************)
(* Fairness: the kernel dispatches every thread that is ready again and    *)
(* again, a lock goes to the threads that wait for it in their order, and  *)
(* Rand lets a customer like a picture in the end.                         *)
(***************************************************************************)
AllClerks == UNION {DOMAIN office.types : office \in Offices}

OfficeFairness ==
  /\ WF_officeVars(ManagerStep)
  /\ \A k \in AllClerks : SF_officeVars(k \in Clerks /\ ClerkStep(k))
  /\ \A c \in Customers : SF_officeVars(CustomerStep(c))

FairOfficeSpec == OfficeSpec /\ OfficeFairness

----------------------------------------------------------------------------
InLine(k, bribes) ==
  {c \in Customers : customerPlace[c] = "line" /\ myLine[c] = k /\ bribe[c] = bribes}

\* The counts that clerks, customers and the manager go by are exact whenever
\* the lines' monitor is free, although customers leave a line on their own
\* some time after a clerk has signalled it.
CountsAreExact ==
  \A k \in Clerks : /\ clerkLineCount[k] = Cardinality(InLine(k, FALSE))
                    /\ clerkBribeLineCount[k] = Cardinality(InLine(k, TRUE))

LineCountsAreExact == OfficeTypeOK /\ CountsAreExact

\* Payments race: a charge and a bribe of one customer, under different locks,
\* lose one of them in its money, and so do two payments to one clerk in
\* clerkMoney.  Such races lose payments and do nothing else: no clerk shows more
\* than has been paid at its counter, and no customer is left with less than its
\* payments leave it.
PaymentsAreNotCountedTwice ==
  /\ \A k \in Clerks : clerkMoney[k] <= sold[k]
  /\ \A c \in Customers : money[c] >= left[c]

AllMoneyIsThere == Total(clerkMoney) + Total(money) = brought

\* "Total sales never suffers from a race condition" (passportoffice.c:310):
\* between two payments every dollar is there.  The code does not keep this.
SalesAreExact ==
  (\A k \in Clerks : CounterFree(k)) /\ (\A c \in Customers : customerPlace[c] \notin BriberPlaces)
    => AllMoneyIsThere

\* The manager sends the clerks home only after the last passport, although it
\* counts the passports without a lock.
OpenUntilAllAreDone == allCustomersAreDone \/ manager = "exit" => EverybodyDone

OnBreak(k) == k \in Clerks /\ clerkPlace[k] = "break"

\* "Managers get Clerks off their break when lines get too long"
\* (passportoffice.c:302), and in the end when there is a line at all.
ClerksComeBack == \A k \in AllClerks : OnBreak(k) /\ LineSize(k) > 0 ~> ~OnBreak(k)

\* The customers at the counter of k, and those on their way to it.
AtCounter(k) == {c \in Customers : customerPlace[c] = "served" /\ myLine[c] = k}
Coming(k) ==
  {c \in Customers : myLine[c] = k /\
     \/ customerPlace[c] = "approach"
     \/ customerPlace[c] = "line" /\ ~IsIn(clerkLineCV[k] \o clerkBribeLineCV[k], c)
     \/ customerPlace[c] = "served" /\ ~IsIn(clerkCV[k], c)}

\* "wait for customer" (passportoffice.c:403), "wait for clerk to do their job"
\* (781): a clerk and a customer do not sleep at one counter with nobody coming.
CounterKeepsGoing ==
  \A k \in Clerks : clerkPlace[k] = "counter" /\ IsIn(clerkCV[k], Self(k))
                    /\ AtCounter(k) # {} => Coming(k) # {}

=============================================================================
