--------------------------- MODULE DevicesProofs ---------------------------
(***************************************************************************)
(* DevInv is an inductive invariant of Devices: a thread in a call owns    *)
(* the lock of the device, each request has its one interrupt, or the unit *)
(* that it left, and the list of pending interrupts is sorted, with        *)
(* nothing late in it.  POInv is one of PostOffice: a sender has the one   *)
(* interrupt of its machine, and mail goes on in order.  DiskInv is one of *)
(* Disk: a request has a sector time of its sector that ends in time.      *)
(* ListInv is one of Lists: the elements are in one chain.                 *)
(* From them follow the safety properties of the run, for any threads,     *)
(* programs, periods, disks, machines, boxes and calls of a list, and that *)
(* Lists implements AbstractList.                                          *)
(***************************************************************************)
EXTENDS Devices, PostOffice, Disk, Lists, SequenceTheorems, FiniteSetTheorems, WellFoundedInduction, TLAPS

Requested == {"disk", "out"}
Ints == [type : Types, due : Int]

\* What a list of pending interrupts holds of a type.
None(list, type) == \A i \in DOMAIN list : list[i].type # type
One(list, type) == \E i \in DOMAIN list : \A j \in DOMAIN list : list[j].type = type <=> j = i
Has(list, type) == \E i \in DOMAIN list : list[i].type = type

\* Its order, and the time of what is not the timer's.
Sorted(list) == \A i, j \in DOMAIN list : i < j => list[i].due <= list[j].due
NotBefore(list, n) == \A i \in DOMAIN list : list[i].type # "TimerInt" => list[i].due >= n

DevTypes ==
  /\ DevTypeOK
  /\ pending \in Seq(Ints)
  /\ program \in [Threads -> Seq(Calls)]
  /\ busy \in [Requested -> Threads \cup {NoThread}]
  /\ served \in [Requested -> Threads \cup {NoThread}]
  /\ keyboard \in Seq(Range(Input)) /\ toType \in Seq(Range(Input))
  /\ screen \in Seq([thread : Threads, rest : Nat])
  /\ readBy \in Seq([char : Range(Input), thread : Threads, call : Nat])

\* A thread behind the Acquire of its call owns the lock of the device, and
\* has a request or a character left while it waits.
Holding == {"held", "P", "served", "read"}

LocksAreOwned ==
  \A t \in Threads :
    /\ place[t] \in Holding \cup {"lock"} => program[t] # << >>
    /\ place[t] = "done" => program[t] = << >>
    /\ place[t] \in Holding => owner[Dev(t)] = t
    /\ \A d \in Devs : owner[d] = t => place[t] \in Holding /\ Dev(t) = d
    /\ place[t] = "served" => Dev(t) \in Requested
    /\ place[t] = "read" => Dev(t) = "in"
    /\ place[t] \in Holding \ {"held"} => left[t] > 0

OwnerAt(d, p) == owner[d] # NoThread /\ place[owner[d]] = p

\* A thread that waits for its request has one interrupt to come or the unit
\* that it left; nobody else has a request.
Answered(d) ==
  /\ OwnerAt(d, "P") =>
       \/ units[d] = 0 /\ busy[d] = owner[d] /\ One(pending, IntOf(d))
       \/ units[d] = 1 /\ busy[d] = NoThread /\ None(pending, IntOf(d)) /\ served[d] = owner[d]
  /\ ~OwnerAt(d, "P") => units[d] = 0 /\ busy[d] = NoThread /\ None(pending, IntOf(d))
  /\ OwnerAt(d, "served") => served[d] = owner[d]

RequestsAreAnswered == \A d \in Requested : Answered(d)

\* The console's buffer is full from the poll to GetChar, and has its unit
\* until a reader has taken it.
BufferIsAnnounced ==
  /\ OwnerAt("in", "read") => units["in"] = 0 /\ incoming # EOF
  /\ ~OwnerAt("in", "read") => units["in"] = (IF incoming = EOF THEN 0 ELSE 1)

\* The clock: nothing but the timer is due when a thread runs or is dispatched.
Early == IF mode \in {"run", "tick", "dispatch"} THEN 1 ELSE 0

InTime ==
  /\ Sorted(pending)
  /\ NotBefore(pending, Early)
  /\ mode = "run" => ~Due

\* A console is polled for ever, and without one nobody calls it.
ConsoleIsPolled == Has(pending, "ConsoleReadInt") \/ \A t \in Threads : \A c \in Range(program[t]) : c.dev = "disk"

AllDoneAtTheEnd == mode = "halted" => \A t \in Threads : place[t] = "done"

ClockIsRight == InTime /\ ConsoleIsPolled /\ AllDoneAtTheEnd

\* The line on the screen is complete, or belongs to the owner of outputMutex,
\* who has as many characters left.
LastLine == IF screen = << >> THEN [thread |-> NoThread, rest |-> 0] ELSE screen[Len(screen)]

LinesGoOn ==
  /\ owner["out"] = NoThread => LastLine.rest = 0
  /\ OwnerAt("out", "held") => LastLine.rest = 0 \/ LastLine = [thread |-> owner["out"], rest |-> left[owner["out"]]]
  /\ OwnerAt("out", "P") \/ OwnerAt("out", "served")
       => LastLine = [thread |-> owner["out"], rest |-> left[owner["out"]] - 1]

\* What was read by a call that goes on belongs to the owner of inputMutex, and
\* so does all that was read after it.
SameCall(r, q) == r.thread = q.thread /\ r.call = q.call
Open(r) == r.call = Len(program[r.thread])

TurnOf(i) ==
  /\ readBy[i].call > 0
  /\ readBy[i].call >= Len(program[readBy[i].thread])
  /\ Open(readBy[i]) => /\ owner["in"] = readBy[i].thread
                        /\ SameCall(readBy[Len(readBy)], readBy[i])

ReadersTakeTurns == \A i \in DOMAIN readBy : TurnOf(i)

DevInv ==
  /\ DevTypes
  /\ LocksAreOwned
  /\ RequestsAreAnswered
  /\ BufferIsAnnounced
  /\ ClockIsRight
  /\ LinesGoOn
  /\ ReadersTakeTurns
  /\ LinesAreWhole
----------------------------------------------------------------------------
(***************************************************************************)
(* The list of pending interrupts.                                         *)
(***************************************************************************)
\* A set of numbers has a least one.
LEMMA LeastNumber ==
  ASSUME NEW M \in SUBSET Nat, M # {}
  PROVE  \E n \in M : \A k \in M : n <= k
<1>1. \E n \in M : \A k \in M : ~(<<k, n>> \in OpToRel(<, Nat))
  BY WFMin, NatLessThanWellFounded, Zenon
<1>2. \A i, j \in Nat : j < i => <<j, i>> \in OpToRel(<, Nat)
  BY Zenon DEF OpToRel
<1>3. PICK n \in M : \A k \in M : ~(k < n)
  BY <1>1, <1>2, Zenon
<1> QED BY <1>3

\* There is a place for an interrupt: the first that is due later has it.
LEMMA PlaceExists ==
  ASSUME NEW list \in Seq(Ints), NEW int \in Ints
  PROVE  /\ PlaceOf(list, int) \in 1 .. Len(list) + 1
         /\ \A i \in 1 .. PlaceOf(list, int) - 1 : list[i].due <= int.due
         /\ PlaceOf(list, int) <= Len(list) => list[PlaceOf(list, int)].due > int.due
<1> DEFINE M == {p \in Nat \ {0} : p <= Len(list) => list[p].due > int.due}
<1>1. Len(list) \in Nat /\ int.due \in Int /\ \A i \in 1 .. Len(list) : list[i] \in Ints /\ list[i].due \in Int
  <2>1. Len(list) \in Nat /\ \A i \in 1 .. Len(list) : list[i] \in Ints
    BY ElementOfSeq, LenProperties
  <2> QED BY <2>1 DEF Ints
<1>2. Len(list) + 1 \in M /\ M \subseteq Nat
  BY <1>1
<1>3. PICK m \in M : \A k \in M : m <= k
  BY <1>2, LeastNumber
<1>4. m \in 1 .. Len(list) + 1
  BY <1>1, <1>2, <1>3
<1>5. \A i \in 1 .. m - 1 : list[i].due <= int.due
  <2> SUFFICES ASSUME NEW i \in 1 .. m - 1  PROVE list[i].due <= int.due
    OBVIOUS
  <2>1. i \in Nat \ {0} /\ i < m /\ i <= Len(list) /\ list[i].due \in Int
    BY <1>1, <1>4
  <2>2. i \notin M
    BY <1>3, <2>1
  <2> QED BY <1>1, <2>1, <2>2
<1>6. m <= Len(list) => list[m].due > int.due
  BY <1>3
<1> HIDE DEF M
<1> QED BY <1>4, <1>5, <1>6 DEF PlaceOf

\* SortedInsert puts it there and moves what is behind it.
LEMMA InsertFacts ==
  ASSUME NEW list \in Seq(Ints), NEW int \in Ints
  PROVE  LET new == Insert(list, int)
             p == PlaceOf(list, int)
         IN /\ new \in Seq(Ints) /\ Len(new) = Len(list) + 1
            /\ \A i \in 1 .. p - 1 : new[i] = list[i]
            /\ new[p] = int
            /\ \A i \in p .. Len(list) : new[i + 1] = list[i]
<1> DEFINE p == PlaceOf(list, int)
           a == SubSeq(list, 1, p - 1)
           b == SubSeq(list, p, Len(list))
<1>1. p \in 1 .. Len(list) + 1 /\ Len(list) \in Nat
  BY PlaceExists
<1>2. /\ a \in Seq(Ints) /\ Len(a) = p - 1
      /\ \A i \in 1 .. p - 1 : a[i] = list[i]
  <2>1. \A i \in 1 .. p - 1 : list[i] \in Ints
    BY <1>1, ElementOfSeq
  <2> QED BY <1>1, <2>1, SubSeqProperties
<1>3. /\ b \in Seq(Ints) /\ Len(b) = Len(list) - p + 1
      /\ \A i \in 1 .. Len(list) - p + 1 : b[i] = list[p + i - 1]
  <2>1. \A i \in p .. Len(list) : list[i] \in Ints
    BY <1>1, ElementOfSeq
  <2> QED BY <1>1, <2>1, SubSeqProperties
<1>4. Insert(list, int) = (a \o <<int>>) \o b
  BY DEF Insert, InsertAt
<1> HIDE DEF a, b, p
<1>5. /\ a \o <<int>> \in Seq(Ints) /\ Len(a \o <<int>>) = p
      /\ \A i \in 1 .. p : (a \o <<int>>)[i] = IF i <= Len(a) THEN a[i] ELSE <<int>>[i - Len(a)]
  BY <1>1, <1>2, ConcatProperties
<1>6. DEFINE c == a \o <<int>>
<1>7. /\ \A i \in 1 .. p - 1 : c[i] = list[i]
      /\ c[p] = int
  <2>1. c[p] = int
    <3>1. p \in 1 .. p /\ ~(p <= Len(a)) /\ p - Len(a) = 1
      BY <1>1, <1>2
    <3>2. c[p] = <<int>>[p - Len(a)]
      BY <1>5, <3>1
    <3> QED BY <3>1, <3>2
  <2>2. ASSUME NEW i \in 1 .. p - 1  PROVE c[i] = a[i]
    <3>1. i \in 1 .. p /\ i <= Len(a)
      BY <1>1, <1>2
    <3> QED BY <1>5, <3>1
  <2> QED BY <1>2, <2>1, <2>2
<1>8. c \in Seq(Ints) /\ Len(c) = p
  BY <1>5
<1> HIDE DEF c
<1>9. /\ c \o b \in Seq(Ints) /\ Len(c \o b) = Len(c) + Len(b)
      /\ \A i \in 1 .. Len(c) + Len(b) : (c \o b)[i] = IF i <= Len(c) THEN c[i] ELSE b[i - Len(c)]
  BY <1>3, <1>8, ConcatProperties
<1>10. Insert(list, int) = c \o b
  BY <1>4 DEF c
<1>11. Len(c \o b) = Len(list) + 1
  BY <1>1, <1>3, <1>8, <1>9
<1>12. \A i \in 1 .. p : (c \o b)[i] = c[i]
  BY <1>1, <1>3, <1>8, <1>9
<1>13. \A i \in p .. Len(list) : (c \o b)[i + 1] = list[i]
  <2> SUFFICES ASSUME NEW i \in p .. Len(list)  PROVE (c \o b)[i + 1] = list[i]
    OBVIOUS
  <2>1. i + 1 \in 1 .. Len(c) + Len(b) /\ ~(i + 1 <= Len(c)) /\ i + 1 - Len(c) \in 1 .. Len(list) - p + 1
    BY <1>1, <1>3, <1>8
  <2>2. (c \o b)[i + 1] = b[i + 1 - Len(c)]
    BY <1>9, <2>1
  <2>3. p + (i + 1 - Len(c)) - 1 = i
    BY <1>1, <1>8
  <2> QED BY <1>3, <2>1, <2>2, <2>3
<1>14. /\ \A i \in 1 .. p - 1 : (c \o b)[i] = list[i]
       /\ (c \o b)[p] = int
  <2>1. p \in 1 .. p /\ \A i \in 1 .. p - 1 : i \in 1 .. p
    BY <1>1
  <2> QED BY <1>7, <1>12, <2>1
<1>15. p = PlaceOf(list, int)
  BY DEF p
<1> QED BY <1>9, <1>10, <1>11, <1>13, <1>14, <1>15

\* What Schedule does to what the invariant says of the list.
LEMMA ScheduleKeeps ==
  ASSUME NEW list \in Seq(Ints), NEW type \in Types, NEW due \in Int
  PROVE  LET new == Schedule(list, type, due)
         IN /\ new \in Seq(Ints) /\ new # << >>
            /\ Sorted(list) => Sorted(new)
            /\ \A n \in Int : NotBefore(list, n) /\ (type = "TimerInt" \/ due >= n) => NotBefore(new, n)
            /\ Has(new, type) /\ \A T \in Types : Has(list, T) => Has(new, T)
            /\ None(list, type) => One(new, type)
            /\ \A T \in Types \ {type} : (None(list, T) => None(new, T)) /\ (One(list, T) => One(new, T))
<1> DEFINE int == [type |-> type, due |-> due]
           new == Insert(list, int)
           p == PlaceOf(list, int)
<1>1. int \in Ints /\ int.type = type /\ int.due = due
  BY DEF Ints
<1>2. new = Schedule(list, type, due)
  BY DEF Schedule
<1> HIDE DEF int
<1>3. /\ p \in 1 .. Len(list) + 1
      /\ \A i \in 1 .. p - 1 : list[i].due <= int.due
      /\ p <= Len(list) => list[p].due > int.due
  BY <1>1, PlaceExists
<1>4. /\ new \in Seq(Ints) /\ Len(new) = Len(list) + 1
      /\ \A i \in 1 .. p - 1 : new[i] = list[i]
      /\ new[p] = int
      /\ \A i \in p .. Len(list) : new[i + 1] = list[i]
  BY <1>1, InsertFacts
<1> HIDE DEF new, p
<1>5. /\ Len(list) \in Nat /\ DOMAIN list = 1 .. Len(list) /\ DOMAIN new = 1 .. Len(list) + 1
      /\ p \in DOMAIN new
  BY <1>3, <1>4, LenProperties
<1>6. \A i \in DOMAIN list : list[i] \in Ints /\ list[i].due \in Int
  <2>1. \A i \in 1 .. Len(list) : list[i] \in Ints
    BY ElementOfSeq
  <2> QED BY <1>5, <2>1 DEF Ints
\* Where an element of the list has gone to, and where one of the new list was.
<1>7. DEFINE To(i) == IF i < p THEN i ELSE i + 1
             From(j) == IF j < p THEN j ELSE j - 1
<1>8. \A i \in DOMAIN list : To(i) \in DOMAIN new \ {p} /\ new[To(i)] = list[i] /\ From(To(i)) = i
  <2> SUFFICES ASSUME NEW i \in DOMAIN list
               PROVE  To(i) \in DOMAIN new \ {p} /\ new[To(i)] = list[i] /\ From(To(i)) = i
    OBVIOUS
  <2>1. i \in 1 .. Len(list) /\ p \in Int
    BY <1>3, <1>5
  <2>2. CASE i < p
    BY <1>4, <1>5, <2>1, <2>2
  <2>3. CASE ~(i < p)
    <3>1. i \in p .. Len(list) /\ i + 1 # p /\ ~(i + 1 < p) /\ (i + 1) - 1 = i
      BY <1>5, <2>1, <2>3
    <3> QED BY <1>4, <1>5, <2>1, <2>3, <3>1
  <2> QED BY <2>2, <2>3
<1>9. \A j \in DOMAIN new \ {p} : From(j) \in DOMAIN list /\ new[j] = list[From(j)] /\ To(From(j)) = j
  <2> SUFFICES ASSUME NEW j \in DOMAIN new \ {p}
               PROVE  From(j) \in DOMAIN list /\ new[j] = list[From(j)] /\ To(From(j)) = j
    OBVIOUS
  <2>1. CASE j < p
    BY <1>3, <1>4, <1>5, <2>1
  <2>2. CASE j > p
    <3>1. j - 1 \in p .. Len(list) /\ (j - 1) + 1 = j
      BY <1>3, <1>5, <2>2
    <3> QED BY <1>4, <1>5, <2>2, <3>1
  <2> QED BY <1>3, <1>5, <2>1, <2>2
<1>10. \A j, k \in DOMAIN new \ {p} : j < k => From(j) < From(k)
  BY <1>3, <1>5
<1> HIDE DEF To, From
<1>11. new # << >>
  BY <1>4, <1>5, EmptySeq
<1>12. ASSUME Sorted(list)  PROVE Sorted(new)
  <2>1. \A i \in DOMAIN list : IF i < p THEN list[i].due <= due ELSE list[i].due > due
    <3> SUFFICES ASSUME NEW i \in DOMAIN list, ~(i < p)  PROVE list[i].due > due
      BY <1>1, <1>3, <1>5
    <3>1. p \in DOMAIN list /\ list[p].due > due /\ p <= i
      BY <1>1, <1>3, <1>5
    <3>2. list[p].due <= list[i].due
      BY <1>6, <1>12, <3>1 DEF Sorted
    <3> QED BY <1>6, <3>1, <3>2
  <2>2. \A j \in DOMAIN new \ {p} : IF j < p THEN From(j) < p ELSE ~(From(j) < p)
    BY <1>3, <1>5 DEF From
  <2>3. \A j \in DOMAIN new \ {p} : IF j < p THEN new[j].due <= due ELSE new[j].due > due
    BY <1>9, <2>1, <2>2
  <2> SUFFICES ASSUME NEW j \in DOMAIN new, NEW k \in DOMAIN new, j < k
               PROVE  new[j].due <= new[k].due
    BY DEF Sorted
  <2>4. CASE j # p /\ k # p
    BY <1>9, <1>10, <1>12, <2>4 DEF Sorted
  <2>5. CASE j = p
    BY <1>1, <1>4, <1>5, <1>6, <1>9, <2>3, <2>5
  <2>6. CASE k = p
    BY <1>1, <1>4, <1>5, <2>3, <2>6
  <2> QED BY <2>4, <2>5, <2>6
<1>13. \A n \in Int : NotBefore(list, n) /\ (type = "TimerInt" \/ due >= n) => NotBefore(new, n)
  BY <1>1, <1>4, <1>9 DEF NotBefore
<1>14. Has(new, type) /\ \A T \in Types : Has(list, T) => Has(new, T)
  BY <1>1, <1>4, <1>5, <1>8 DEF Has
<1>15. ASSUME None(list, type)  PROVE One(new, type)
  <2>1. \A j \in DOMAIN new : new[j].type = type <=> j = p
    BY <1>1, <1>4, <1>9, <1>15 DEF None
  <2> QED BY <1>5, <2>1 DEF One
<1>16. ASSUME NEW T \in Types \ {type}
       PROVE  (None(list, T) => None(new, T)) /\ (One(list, T) => One(new, T))
  <2>1. None(list, T) => None(new, T)
    BY <1>1, <1>4, <1>9 DEF None
  <2>2. ASSUME One(list, T)  PROVE One(new, T)
    <3>1. PICK i \in DOMAIN list : \A k \in DOMAIN list : list[k].type = T <=> k = i
      BY <2>2 DEF One
    <3>2. \A j \in DOMAIN new \ {p} : new[j].type = T <=> j = To(i)
      BY <1>8, <1>9, <3>1
    <3>3. new[p].type # T
      BY <1>1, <1>4
    <3> QED BY <1>8, <3>1, <3>2, <3>3 DEF One
  <2> QED BY <2>1, <2>2
<1> QED BY <1>2, <1>4, <1>11, <1>12, <1>13, <1>14, <1>15, <1>16

\* What the removal of the first interrupt does to it.
LEMMA TailKeeps ==
  ASSUME NEW list \in Seq(Ints), list # << >>
  PROVE  /\ Tail(list) \in Seq(Ints) /\ Head(list) \in Ints
         /\ Sorted(list) => Sorted(Tail(list))
         /\ \A n \in Int : NotBefore(list, n) => NotBefore(Tail(list), n)
         /\ One(list, Head(list).type) => None(Tail(list), Head(list).type)
         /\ \A T \in Types \ {Head(list).type} :
              /\ None(list, T) => None(Tail(list), T)
              /\ One(list, T) => One(Tail(list), T)
              /\ Has(list, T) => Has(Tail(list), T)
<1> DEFINE new == Tail(list)
           front == Head(list)
<1>1. /\ front \in Ints
      /\ new \in Seq(Ints) /\ Len(new) = Len(list) - 1
      /\ \A i \in 1 .. Len(new) : new[i] = list[i + 1]
  BY HeadTailProperties
<1>2. front = list[1]
  OBVIOUS
<1> HIDE DEF new, front
<1>3. /\ Len(list) \in Nat \ {0} /\ DOMAIN list = 1 .. Len(list) /\ DOMAIN new = 1 .. Len(list) - 1
  BY <1>1, LenProperties, EmptySeq
<1>4. /\ 1 \in DOMAIN list
      /\ \A i \in DOMAIN new : i + 1 \in DOMAIN list \ {1} /\ new[i] = list[i + 1]
  BY <1>1, <1>3
<1>5. \A j \in DOMAIN list \ {1} : j - 1 \in DOMAIN new /\ new[j - 1] = list[j]
  <2> SUFFICES ASSUME NEW j \in DOMAIN list \ {1}
               PROVE  j - 1 \in DOMAIN new /\ new[j - 1] = list[j]
    OBVIOUS
  <2>1. j - 1 \in DOMAIN new /\ (j - 1) + 1 = j
    BY <1>3
  <2> QED BY <1>4, <2>1
<1>6. Sorted(list) => Sorted(new)
  <2> SUFFICES ASSUME Sorted(list), NEW i \in DOMAIN new, NEW j \in DOMAIN new, i < j
               PROVE  new[i].due <= new[j].due
    BY DEF Sorted
  <2>1. i + 1 < j + 1
    BY <1>3
  <2> QED BY <1>4, <2>1 DEF Sorted
<1>7. \A n \in Int : NotBefore(list, n) => NotBefore(new, n)
  BY <1>4 DEF NotBefore
<1>8. One(list, front.type) => None(new, front.type)
  BY <1>2, <1>4 DEF One, None
<1>9. ASSUME NEW T \in Types \ {front.type}
      PROVE  /\ None(list, T) => None(new, T)
             /\ One(list, T) => One(new, T)
             /\ Has(list, T) => Has(new, T)
  <2>1. None(list, T) => None(new, T)
    BY <1>4 DEF None
  <2>2. Has(list, T) => Has(new, T)
    BY <1>2, <1>5, <1>9 DEF Has
  <2>3. ASSUME One(list, T)  PROVE One(new, T)
    <3>1. PICK i \in DOMAIN list : \A k \in DOMAIN list : list[k].type = T <=> k = i
      BY <2>3 DEF One
    <3>2. i # 1
      BY <1>2, <1>9, <3>1
    <3>3. i - 1 \in DOMAIN new
      BY <1>5, <3>1, <3>2
    <3>4. \A j \in DOMAIN new : new[j].type = T <=> j = i - 1
      <4> SUFFICES ASSUME NEW j \in DOMAIN new  PROVE new[j].type = T <=> j = i - 1
        OBVIOUS
      <4>1. new[j].type = T <=> j + 1 = i
        BY <1>4, <3>1
      <4>2. j + 1 = i <=> j = i - 1
        BY <1>3, <3>1
      <4> QED BY <4>1, <4>2
    <3> QED BY <3>3, <3>4 DEF One
  <2> QED BY <2>1, <2>2, <2>3
<1> QED BY <1>1, <1>6, <1>7, <1>8, <1>9 DEF new, front

\* What the passing of time does to it.
LEMMA LaterKeeps ==
  ASSUME NEW list \in Seq(Ints), NEW time \in Int
  PROVE  LET new == Later(list, time)
         IN /\ new \in Seq(Ints)
            /\ DOMAIN new = DOMAIN list
            /\ \A i \in DOMAIN list : new[i].type = list[i].type /\ new[i].due = list[i].due - time
            /\ Sorted(list) => Sorted(new)
            /\ \A n \in Int : NotBefore(list, n) => NotBefore(new, n - time)
            /\ \A T \in Types : /\ None(list, T) => None(new, T)
                                /\ One(list, T) => One(new, T)
                                /\ Has(list, T) => Has(new, T)
<1> DEFINE new == Later(list, time)
<1>1. /\ DOMAIN list = 1 .. Len(list) /\ Len(list) \in Nat
      /\ \A i \in DOMAIN list : list[i] \in Ints
  BY LenProperties, ElementOfSeq
<1>2. new = [i \in 1 .. Len(list) |-> [list[i] EXCEPT !.due = @ - time]]
  BY <1>1 DEF Later
<1>3. \A i \in 1 .. Len(list) : [list[i] EXCEPT !.due = @ - time] \in Ints
  BY <1>1 DEF Ints
<1>4. new \in Seq(Ints) /\ DOMAIN new = DOMAIN list
  <2>1. new \in [1 .. Len(list) -> Ints]
    BY <1>2, <1>3
  <2> QED BY <1>1, <2>1, IsASeq
<1>5. \A i \in DOMAIN list : /\ new[i].type = list[i].type /\ new[i].due = list[i].due - time
                             /\ list[i].due \in Int
  BY <1>1, <1>2 DEF Ints
<1> HIDE DEF new
<1>6. Sorted(list) => Sorted(new)
  BY <1>4, <1>5 DEF Sorted
<1>7. \A n \in Int : NotBefore(list, n) => NotBefore(new, n - time)
  BY <1>4, <1>5 DEF NotBefore
<1>8. \A T \in Types : /\ None(list, T) => None(new, T)
                       /\ One(list, T) => One(new, T)
                       /\ Has(list, T) => Has(new, T)
  <2>1. \A i \in DOMAIN list : new[i].type = list[i].type
    BY <1>5
  <2> SUFFICES ASSUME NEW T \in Types
               PROVE  /\ None(list, T) => None(new, T)
                      /\ One(list, T) => One(new, T)
                      /\ Has(list, T) => Has(new, T)
    OBVIOUS
  <2>2. \A i \in DOMAIN list : new[i].type = T <=> list[i].type = T
    BY <2>1
  <2>3. None(list, T) => None(new, T)
    BY <1>4, <2>2 DEF None
  <2>4. One(list, T) => One(new, T)
    BY <1>4, <2>2 DEF One
  <2>5. Has(list, T) => Has(new, T)
    BY <1>4, <2>2 DEF Has
  <2> QED BY <2>3, <2>4, <2>5
<1> QED BY <1>4, <1>5, <1>6, <1>7, <1>8 DEF new

----------------------------------------------------------------------------
(***************************************************************************)
(* Types.                                                                  *)
(***************************************************************************)
\* The times at which interrupts come, and their types.
LEMMA TimesAndTypes ==
  /\ TimerDelays \subseteq Nat \ {0} /\ DiskTimes \subseteq Nat \ {0} /\ ConsoleTime \in Nat \ {0}
  /\ "TimerInt" \in Types /\ "ConsoleReadInt" \in Types
  /\ \A d \in Requested : /\ IntOf(d) \in Types \ {"TimerInt", "ConsoleReadInt"}
                          /\ \A e \in Requested : IntOf(d) = IntOf(e) => d = e
  /\ IntOf("disk") = "DiskInt" /\ IntOf("out") = "ConsoleWriteInt"
  /\ Requested \subseteq Devs /\ Devs = Requested \cup {"in"} /\ "in" \in Devs /\ "in" \notin Requested
BY DevicesAssumption DEF TimerDelays, Types, Requested, IntOf, Devs

\* The call a thread is in, and those that come after it.
LEMMA CallFacts ==
  ASSUME DevTypes, NEW t \in Threads, program[t] # << >>
  PROVE  /\ Call(t) \in Calls /\ Dev(t) \in Devs /\ Call(t).size \in Nat
         /\ Call(t) \in Range(program[t])
         /\ Len(program[t]) \in Nat \ {0}
         /\ Tail(program[t]) \in Seq(Calls) /\ Len(Tail(program[t])) = Len(program[t]) - 1
         /\ Range(Tail(program[t])) \subseteq Range(program[t])
<1> DEFINE q == program[t]
           r == Tail(q)
<1>1. q \in Seq(Calls) /\ q # << >>
  BY DEF DevTypes
<1>2. Head(q) = q[1]
  OBVIOUS
<1> HIDE DEF q
<1>3. /\ Head(q) \in Calls
      /\ r \in Seq(Calls) /\ Len(r) = Len(q) - 1
      /\ \A i \in 1 .. Len(r) : r[i] = q[i + 1]
  BY <1>1, HeadTailProperties
<1> HIDE DEF r
<1>4. Len(q) \in Nat \ {0} /\ DOMAIN q = 1 .. Len(q) /\ DOMAIN r = 1 .. Len(q) - 1
  BY <1>1, <1>3, LenProperties, EmptySeq
<1>5. Range(r) \subseteq Range(q)
  <2> SUFFICES ASSUME NEW i \in 1 .. Len(q) - 1  PROVE r[i] \in Range(q)
    BY <1>4 DEF Range
  <2>1. i + 1 \in DOMAIN q /\ r[i] = q[i + 1]
    BY <1>3, <1>4
  <2> QED BY <2>1 DEF Range
<1>6. Head(q) \in Range(q)
  BY <1>2, <1>4 DEF Range
<1>7. Head(q).dev \in Devs /\ Head(q).size \in Nat
  BY <1>3 DEF Calls
<1>8. Call(t) = Head(q) /\ Dev(t) = Head(q).dev
  BY DEF Call, Dev, q
<1> QED BY <1>3, <1>4, <1>5, <1>6, <1>7, <1>8 DEF q, r

\* The list has the type of its elements, and of its first one when it has any.
LEMMA ListFacts ==
  ASSUME NEW list \in Seq(Ints)
  PROVE  /\ \A i \in DOMAIN list : list[i] \in [type : Types, due : Int]
         /\ DOMAIN list = 1 .. Len(list) /\ Len(list) \in Nat
         /\ list # << >> => /\ Len(list) > 0 /\ 1 \in DOMAIN list
                            /\ Head(list) = list[1] /\ Head(list) \in Ints
<1>1. DOMAIN list = 1 .. Len(list) /\ Len(list) \in Nat
  BY LenProperties
<1>2. \A i \in 1 .. Len(list) : list[i] \in Ints
  BY ElementOfSeq
<1>3. list # << >> => Len(list) > 0
  BY <1>1, EmptySeq
<1> QED BY <1>1, <1>2, <1>3 DEF Ints

\* P changes the unit of the device, the thread's place and the mode only.
LEMMA PTypes ==
  ASSUME DevTypes, NEW t \in Threads, program[t] # << >>, NEW after \in Places, PDev(t, after)
  PROVE  /\ mode' \in {"tick", "dispatch"}
         /\ units' \in [Devs -> Nat]
         /\ place' \in [Threads -> Places]
<1>1. units \in [Devs -> Nat] /\ place \in [Threads -> Places] /\ Dev(t) \in Devs
  BY CallFacts DEF DevTypes, DevTypeOK
<1>2. CASE units[Dev(t)] > 0 /\ units' = [units EXCEPT ![Dev(t)] = @ - 1] /\ Goes(t, after) /\ mode' = "tick"
  <2>1. units[Dev(t)] - 1 \in Nat
    BY <1>1, <1>2
  <2> QED BY <1>1, <1>2, <2>1 DEF Goes
<1>3. CASE UNCHANGED units /\ Goes(t, "P") /\ mode' = "dispatch"
  BY <1>1, <1>3 DEF Goes, Places
<1> QED BY <1>2, <1>3 DEF PDev

\* V adds a unit.
LEMMA VTypes ==
  ASSUME DevTypes, NEW d \in Devs, V(d)
  PROVE  units' \in [Devs -> Nat] /\ units'[d] = units[d] + 1 /\ \A e \in Devs \ {d} : units'[e] = units[e]
BY DEF DevTypes, DevTypeOK, V

\* The elements of a sequence of input, one less or one more.
LEMMA InputFacts ==
  ASSUME NEW q \in Seq(Range(Input)), q # << >>
  PROVE  Head(q) \in Range(Input) /\ Tail(q) \in Seq(Range(Input))
BY HeadTailProperties
\* A request is scheduled, and the list stays a list.
LEMMA RequestTypes ==
  ASSUME DevTypes, NEW t \in Threads, Dev(t) \in Requested, Request(t)
  PROVE  \E time \in Nat \ {0} : pending' = Schedule(pending, IntOf(Dev(t)), time)
<1>1. CASE Dev(t) = "disk"
  <2>1. PICK time \in DiskTimes : pending' = Schedule(pending, "DiskInt", time)
    BY <1>1 DEF Request
  <2> QED BY <1>1, <2>1, TimesAndTypes
<1>2. CASE Dev(t) = "out"
  <2>1. pending' = Schedule(pending, "ConsoleWriteInt", ConsoleTime)
    BY <1>2 DEF Request
  <2> QED BY <1>2, <2>1, TimesAndTypes
<1> QED BY <1>1, <1>2 DEF Requested

\* The step of a thread that holds the lock is on its call.
LEMMA HolderFacts ==
  ASSUME DevTypes, LocksAreOwned, NEW t \in Threads, place[t] \in Holding
  PROVE  /\ program[t] # << >> /\ Dev(t) \in Devs /\ owner[Dev(t)] = t
         /\ \A d \in Devs : owner[d] = t => d = Dev(t)
         /\ OwnerAt(Dev(t), place[t])
         /\ left[t] \in Nat /\ (place[t] # "held" => left[t] > 0)
<1>1. program[t] # << >> /\ owner[Dev(t)] = t /\ (place[t] # "held" => left[t] > 0)
  BY DEF LocksAreOwned
<1>2. Dev(t) \in Devs
  BY <1>1, CallFacts
<1>3. t # NoThread
  BY DevicesAssumption
<1>4. \A d \in Devs : owner[d] = t => d = Dev(t)
  BY <1>3 DEF LocksAreOwned
<1>5. left[t] \in Nat
  BY DEF DevTypes, DevTypeOK
<1> QED BY <1>1, <1>2, <1>3, <1>4, <1>5 DEF OwnerAt

\* One that does not hold a lock owns none.
LEMMA OtherFacts ==
  ASSUME DevTypes, LocksAreOwned, NEW t \in Threads, place[t] \notin Holding
  PROVE  \A d \in Devs : owner[d] # t
BY DevicesAssumption DEF LocksAreOwned
\* Time passes, or not, when the next interrupt is due already.
LEMMA TimePasses ==
  ASSUME DevTypes, OneTick \/ Idle
  PROVE  \E time \in Int : pending' = Later(pending, time)
<1>0. pending \in Seq(Ints)
  BY DEF DevTypes
<1>1. CASE OneTick
  BY <1>1 DEF OneTick
<1>2. CASE Idle /\ Head(pending).due > 0
  <2>1. pending # << >>
    BY <1>2 DEF Idle, OnlyTimer
  <2>2. Head(pending).due \in Int
    BY <1>0, <2>1, ListFacts DEF Ints
  <2> QED BY <1>2, <2>2 DEF Idle
<1>3. CASE Idle /\ ~(Head(pending).due > 0)
  <2>1. pending' = pending
    BY <1>3 DEF Idle
  <2>2. Later(pending, 0) = pending
    <3>1. \A i \in DOMAIN pending : [pending[i] EXCEPT !.due = @ - 0] = pending[i]
      BY <1>0, ListFacts
    <3>2. pending = [i \in DOMAIN pending |-> pending[i]]
      BY <1>0, LenProperties
    <3> QED BY <3>1, <3>2 DEF Later
  <2> QED BY <2>1, <2>2
<1> QED BY <1>1, <1>2, <1>3

\* Every step keeps the types.
LEMMA TypesKept ==
  ASSUME DevInv, DevNext
  PROVE  DevTypes'
<1>0. DevTypes /\ LocksAreOwned /\ BufferIsAnnounced
  BY DEF DevInv
<1>a. pending \in Seq(Ints)
  BY <1>0 DEF DevTypes
<1>b. ASSUME NEW list \in Seq(Ints), pending' = list
      PROVE  pending' \in Seq(Ints) /\ \A i \in DOMAIN pending' : pending'[i] \in [type : Types, due : Int]
  BY <1>b, ListFacts
<1>1. ASSUME NEW t \in Threads, AcquireDev(t)  PROVE DevTypes'
  <2>1. Dev(t) \in Devs /\ Call(t).size \in Nat
    BY <1>0, <1>1, CallFacts DEF AcquireDev
  <2>2. left' \in [Threads -> Nat] /\ mode' \in {"tick", "dispatch"}
    BY <1>0, <1>1, <2>1 DEF DevTypes, DevTypeOK, AcquireDev
  <2>3. owner' \in [Devs -> Threads \cup {NoThread}] /\ place' \in [Threads -> Places]
    <3>1. owner' \in [Devs -> Threads \cup {NoThread}]
      BY <1>0, <1>1, <2>1 DEF DevTypes, DevTypeOK, AcquireDev
    <3>2. place' \in [Threads -> Places]
      BY <1>0, <1>1 DEF DevTypes, DevTypeOK, AcquireDev, Goes, Places
    <3> QED BY <3>1, <3>2
  <2>4. UNCHANGED <<currentThread, yieldOnReturn, pending, program, units, busy, consoleVars, historyVars>>
    BY <1>1 DEF AcquireDev
  <2> QED BY <1>0, <2>2, <2>3, <2>4 DEF DevTypes, DevTypeOK, consoleVars, historyVars
<1>2. ASSUME NEW t \in Threads, Request(t)  PROVE DevTypes'
  <2>1. program[t] # << >> /\ Dev(t) \in Requested /\ left[t] \in Nat \ {0}
    BY <1>0, <1>2 DEF LocksAreOwned, Request, Running, Requested, Holding, DevTypes, DevTypeOK
  <2>2. mode' \in {"tick", "dispatch"} /\ units' \in [Devs -> Nat] /\ place' \in [Threads -> Places]
    <3>1. PDev(t, "served") /\ "served" \in Places
      BY <1>2 DEF Request, Places
    <3> QED BY <1>0, <2>1, <3>1, PTypes
  <2>3. busy' \in [Requested -> Threads \cup {NoThread}]
    BY <1>0, <1>2, <2>1 DEF Request, DevTypes
  <2>4. pending' \in Seq(Ints) /\ \A i \in DOMAIN pending' : pending'[i] \in [type : Types, due : Int]
    <3>1. PICK time \in Nat \ {0} : pending' = Schedule(pending, IntOf(Dev(t)), time)
      BY <1>0, <1>2, <2>1, RequestTypes
    <3>2. Schedule(pending, IntOf(Dev(t)), time) \in Seq(Ints)
      BY <1>a, <2>1, ScheduleKeeps, TimesAndTypes
    <3> QED BY <1>b, <3>1, <3>2
  <2>5. screen' \in Seq([thread : Threads, rest : Nat])
    <3>1. [thread |-> t, rest |-> left[t] - 1] \in [thread : Threads, rest : Nat]
      BY <2>1
    <3>2. screen \in Seq([thread : Threads, rest : Nat])
      BY <1>0 DEF DevTypes
    <3>3. Append(screen, [thread |-> t, rest |-> left[t] - 1]) \in Seq([thread : Threads, rest : Nat])
      BY <3>1, <3>2, AppendProperties
    <3> QED BY <1>2, <3>2, <3>3 DEF Request
  <2>6. UNCHANGED <<currentThread, yieldOnReturn, program, left, owner, consoleVars, readBy, served>>
    BY <1>2 DEF Request
  <2> QED BY <1>0, <2>2, <2>3, <2>4, <2>5, <2>6 DEF DevTypes, DevTypeOK, consoleVars
<1>3. ASSUME NEW t \in Threads, Served(t)  PROVE DevTypes'
  <2>1. left[t] \in Nat \ {0}
    BY <1>0, <1>3, HolderFacts DEF Served, Running, Holding
  <2>2. left' \in [Threads -> Nat] /\ place' \in [Threads -> Places]
    BY <1>0, <1>3, <2>1 DEF Served, Goes, Places, DevTypes, DevTypeOK
  <2>3. UNCHANGED <<clockVars, program, syncVars, busy, consoleVars, historyVars>>
    BY <1>3 DEF Served
  <2> QED BY <1>0, <2>2, <2>3 DEF DevTypes, DevTypeOK, clockVars, syncVars, consoleVars, historyVars
<1>4. ASSUME NEW t \in Threads, WaitForChar(t)  PROVE DevTypes'
  <2>1. program[t] # << >>
    BY <1>0, <1>4 DEF LocksAreOwned, WaitForChar, Running, Holding
  <2>2. mode' \in {"tick", "dispatch"} /\ units' \in [Devs -> Nat] /\ place' \in [Threads -> Places]
    <3>1. PDev(t, "read") /\ "read" \in Places
      BY <1>4 DEF WaitForChar, Places
    <3> QED BY <1>0, <2>1, <3>1, PTypes
  <2>3. UNCHANGED <<currentThread, yieldOnReturn, pending, program, left, owner, busy, consoleVars, historyVars>>
    BY <1>4 DEF WaitForChar
  <2> QED BY <1>0, <2>2, <2>3 DEF DevTypes, DevTypeOK, consoleVars, historyVars
<1>5. ASSUME NEW t \in Threads, GetChar(t)  PROVE DevTypes'
  <2>1. left[t] \in Nat \ {0} /\ program[t] # << >> /\ Dev(t) = "in" /\ OwnerAt("in", "read")
    <3>1. place[t] = "read"
      BY <1>5 DEF GetChar, Running
    <3> QED BY <1>0, <3>1, HolderFacts DEF LocksAreOwned, Holding
  <2>2. incoming \in Range(Input)
    BY <1>0, <2>1 DEF BufferIsAnnounced, DevTypes, DevTypeOK
  <2>3. left' \in [Threads -> Nat] /\ place' \in [Threads -> Places]
    <3>1. left \in [Threads -> Nat] /\ place \in [Threads -> Places]
      BY <1>0 DEF DevTypes, DevTypeOK
    <3>2. (IF incoming = Newline THEN 0 ELSE left[t] - 1) \in Nat
      BY <2>1
    <3> QED BY <1>5, <3>1, <3>2 DEF GetChar, Goes, Places
  <2>4. readBy' \in Seq([char : Range(Input), thread : Threads, call : Nat])
    <3>1. Len(program[t]) \in Nat
      BY <1>0, <2>1, CallFacts
    <3>2. [char |-> incoming, thread |-> t, call |-> Len(program[t])] \in [char : Range(Input), thread : Threads, call : Nat]
      BY <2>2, <3>1
    <3>3. readBy \in Seq([char : Range(Input), thread : Threads, call : Nat])
      BY <1>0 DEF DevTypes
    <3>4. Append(readBy, [char |-> incoming, thread |-> t, call |-> Len(program[t])])
            \in Seq([char : Range(Input), thread : Threads, call : Nat])
      BY <3>2, <3>3, AppendProperties
    <3> QED BY <1>5, <3>4 DEF GetChar
  <2>5. incoming' = EOF /\ UNCHANGED <<clockVars, program, syncVars, busy, keyboard, toType, screen, served>>
    BY <1>5 DEF GetChar
  <2> QED BY <1>0, <2>3, <2>4, <2>5 DEF DevTypes, DevTypeOK, clockVars, syncVars
<1>6. ASSUME NEW t \in Threads, ReleaseDev(t)  PROVE DevTypes'
  <2>1. program[t] # << >> /\ Dev(t) \in Devs /\ Tail(program[t]) \in Seq(Calls)
    <3>1. program[t] # << >>
      BY <1>0, <1>6 DEF LocksAreOwned, ReleaseDev, Running, Holding
    <3> QED BY <1>0, <3>1, CallFacts
  <2>2. program' \in [Threads -> Seq(Calls)]
    BY <1>0, <1>6, <2>1 DEF ReleaseDev, DevTypes
  <2>3. owner' \in [Devs -> Threads \cup {NoThread}] /\ place' \in [Threads -> Places] /\ mode' = "tick"
    BY <1>0, <1>6, <2>1 DEF ReleaseDev, Goes, Places, DevTypes, DevTypeOK
  <2>4. UNCHANGED <<currentThread, yieldOnReturn, pending, left, units, busy, consoleVars, historyVars>>
    BY <1>6 DEF ReleaseDev
  <2> QED BY <1>0, <2>2, <2>3, <2>4 DEF DevTypes, DevTypeOK, consoleVars, historyVars
<1>7. ASSUME NEW t \in Threads, FinishDev(t)  PROVE DevTypes'
  <2>1. place' \in [Threads -> Places] /\ mode' = "dispatch"
    BY <1>0, <1>7 DEF FinishDev, Goes, Places, DevTypes, DevTypeOK
  <2>2. UNCHANGED <<currentThread, yieldOnReturn, pending, program, left, syncVars, busy, consoleVars, historyVars>>
    BY <1>7 DEF FinishDev
  <2> QED BY <1>0, <2>1, <2>2 DEF DevTypes, DevTypeOK, syncVars, consoleVars, historyVars
<1>8. ASSUME NEW t \in Threads, Dispatch(t)  PROVE DevTypes'
  <2>1. mode' = "tick" /\ currentThread' = t
        /\ UNCHANGED <<yieldOnReturn, pending, program, left, busy, consoleVars, historyVars>>
    BY <1>8 DEF Dispatch
  <2>2. /\ owner' \in [Devs -> Threads \cup {NoThread}]
        /\ units' \in [Devs -> Nat]
        /\ place' \in [Threads -> Places]
    <3>1. /\ owner \in [Devs -> Threads \cup {NoThread}]
          /\ units \in [Devs -> Nat]
          /\ place \in [Threads -> Places]
      BY <1>0 DEF DevTypes, DevTypeOK
    <3>2. CASE place[t] = "lock"
      BY <1>8, <3>1, <3>2 DEF Dispatch, Goes, Places
    <3>3. CASE place[t] = "P"
      <4>1. Dev(t) \in Devs /\ units[Dev(t)] > 0
        BY <1>0, <1>8, <3>3, HolderFacts DEF Dispatch, Runnable, Holding
      <4>2. units[Dev(t)] - 1 \in Nat
        BY <3>1, <4>1
      <4> QED BY <1>8, <3>1, <3>3, <4>1, <4>2 DEF Dispatch, Goes, Places
    <3>4. CASE place[t] \notin {"lock", "P"}
      BY <1>8, <3>1, <3>4 DEF Dispatch
    <3> QED BY <3>2, <3>3, <3>4
  <2> QED BY <1>0, <2>1, <2>2 DEF DevTypes, DevTypeOK, consoleVars, historyVars
<1>9. CASE OneTick \/ Idle
  <2>1. PICK time \in Int : pending' = Later(pending, time)
    BY <1>0, <1>9, TimePasses
  <2>2. pending' \in Seq(Ints) /\ \A i \in DOMAIN pending' : pending'[i] \in [type : Types, due : Int]
    <3>1. Later(pending, time) \in Seq(Ints)
      BY <1>a, LaterKeeps
    <3> QED BY <1>b, <2>1, <3>1
  <2>3. mode' \in {"handlers", "idle"}
        /\ UNCHANGED <<currentThread, yieldOnReturn, threadVars, syncVars, busy, consoleVars, historyVars>>
    BY <1>9 DEF OneTick, Idle
  <2> QED BY <1>0, <2>2, <2>3 DEF DevTypes, DevTypeOK, threadVars, syncVars, consoleVars, historyVars
<1>10. CASE TimerExpired
  <2>1. pending' \in Seq(Ints) /\ \A i \in DOMAIN pending' : pending'[i] \in [type : Types, due : Int]
    <3>1. PICK d \in TimerDelays : pending' = Schedule(Tail(pending), "TimerInt", d)
      BY <1>10 DEF TimerExpired
    <3>2. Tail(pending) \in Seq(Ints)
      BY <1>a, <1>10, TailKeeps DEF TimerExpired, Fires, Due
    <3>3. "TimerInt" \in Types /\ d \in Int
      BY TimesAndTypes
    <3>4. Schedule(Tail(pending), "TimerInt", d) \in Seq(Ints)
      BY <3>2, <3>3, ScheduleKeeps
    <3> QED BY <1>b, <3>1, <3>4
  <2>2. yieldOnReturn' \in BOOLEAN
        /\ UNCHANGED <<mode, currentThread, threadVars, syncVars, busy, consoleVars, historyVars>>
    BY <1>10 DEF TimerExpired
  <2> QED BY <1>0, <2>1, <2>2 DEF DevTypes, DevTypeOK, threadVars, syncVars, consoleVars, historyVars
<1>11. ASSUME NEW d \in Requested, RequestDone(IntOf(d), d)  PROVE DevTypes'
  <2>1. pending' \in Seq(Ints) /\ \A i \in DOMAIN pending' : pending'[i] \in [type : Types, due : Int]
    <3>1. Tail(pending) \in Seq(Ints)
      BY <1>a, <1>11, TailKeeps DEF RequestDone, Fires, Due
    <3> QED BY <1>11, <1>b, <3>1 DEF RequestDone
  <2>2. /\ busy' \in [Requested -> Threads \cup {NoThread}]
        /\ served' \in [Requested -> Threads \cup {NoThread}]
    BY <1>0, <1>11 DEF RequestDone, DevTypes
  <2>3. units' \in [Devs -> Nat]
    BY <1>0, <1>11, VTypes, TimesAndTypes DEF RequestDone
  <2>4. UNCHANGED <<mode, currentThread, yieldOnReturn, threadVars, owner, consoleVars, screen, readBy>>
    BY <1>11 DEF RequestDone
  <2> QED BY <1>0, <2>1, <2>2, <2>3, <2>4 DEF DevTypes, DevTypeOK, threadVars, consoleVars
<1>12. CASE CheckCharAvail
  <2>1. pending' \in Seq(Ints) /\ \A i \in DOMAIN pending' : pending'[i] \in [type : Types, due : Int]
    <3>1. Tail(pending) \in Seq(Ints)
      BY <1>a, <1>12, TailKeeps DEF CheckCharAvail, Fires, Due
    <3>2. "ConsoleReadInt" \in Types /\ ConsoleTime \in Int
      BY TimesAndTypes
    <3>3. Schedule(Tail(pending), "ConsoleReadInt", ConsoleTime) \in Seq(Ints)
      BY <3>1, <3>2, ScheduleKeeps
    <3> QED BY <1>12, <1>b, <3>3 DEF CheckCharAvail
  <2>2. /\ incoming' \in Range(Input) \cup {EOF}
        /\ keyboard' \in Seq(Range(Input))
        /\ units' \in [Devs -> Nat]
    <3>1. keyboard \in Seq(Range(Input)) /\ incoming \in Range(Input) \cup {EOF} /\ units \in [Devs -> Nat]
      BY <1>0 DEF DevTypes, DevTypeOK
    <3>2. CASE incoming = EOF /\ keyboard # << >>
      <4>1. incoming' = Head(keyboard) /\ keyboard' = Tail(keyboard) /\ V("in")
        BY <1>12, <3>2 DEF CheckCharAvail
      <4>2. units' \in [Devs -> Nat]
        BY <1>0, <4>1, VTypes, TimesAndTypes
      <4> QED BY <3>1, <3>2, <4>1, <4>2, InputFacts
    <3>3. CASE ~(incoming = EOF /\ keyboard # << >>)
      BY <1>12, <3>1, <3>3 DEF CheckCharAvail
    <3> QED BY <3>2, <3>3
  <2>3. UNCHANGED <<mode, currentThread, yieldOnReturn, threadVars, owner, busy, toType, historyVars>>
    BY <1>12 DEF CheckCharAvail
  <2> QED BY <1>0, <2>1, <2>2, <2>3 DEF DevTypes, DevTypeOK, threadVars, historyVars
<1>13. CASE EndTick \/ EndIdle \/ Halt
  <2>1. /\ mode' \in {"dispatch", "run", "halted"} /\ yieldOnReturn' \in BOOLEAN
        /\ UNCHANGED <<currentThread, pending, threadVars, syncVars, busy, consoleVars, historyVars>>
    BY <1>0, <1>13 DEF EndTick, EndIdle, Halt, DevTypes, DevTypeOK
  <2> QED BY <1>0, <2>1 DEF DevTypes, DevTypeOK, threadVars, syncVars, consoleVars, historyVars
<1>14. CASE Type
  <2>1. toType' \in Seq(Range(Input)) /\ keyboard' \in Seq(Range(Input))
    <3>1. toType \in Seq(Range(Input)) /\ keyboard \in Seq(Range(Input)) /\ toType # << >>
      BY <1>0, <1>14 DEF Type, DevTypes
    <3>2. Head(toType) \in Range(Input) /\ Tail(toType) \in Seq(Range(Input))
      BY <3>1, InputFacts
    <3>3. Append(keyboard, Head(toType)) \in Seq(Range(Input))
      BY <3>1, <3>2, AppendProperties
    <3> QED BY <1>14, <3>2, <3>3 DEF Type
  <2>2. UNCHANGED <<clockVars, threadVars, syncVars, busy, incoming, historyVars>>
    BY <1>14 DEF Type
  <2> QED BY <1>0, <2>1, <2>2 DEF DevTypes, DevTypeOK, clockVars, threadVars, syncVars, historyVars
<1>15. CASE DevStopped
  BY <1>0, <1>15 DEF DevTypes, DevTypeOK, DevStopped, devVars, clockVars, threadVars, syncVars, consoleVars, historyVars
<1> QED
  BY <1>1, <1>2, <1>3, <1>4, <1>5, <1>6, <1>7, <1>8, <1>9, <1>10, <1>11, <1>12, <1>13, <1>14, <1>15, TimesAndTypes
     DEF DevNext, ThreadStep, ClockStep, DiskDone, ConsoleWriteDone, Requested
----------------------------------------------------------------------------
(***************************************************************************)
(* The locks.                                                              *)
(***************************************************************************)
\* What the clock does leaves the threads' places alone.
LEMMA ClockLeavesThreads ==
  ASSUME ClockStep \/ Type \/ DevStopped
  PROVE  UNCHANGED <<program, place, left, owner, readBy, screen>>
BY DEF ClockStep, OneTick, TimerExpired, DiskDone, ConsoleWriteDone, RequestDone, CheckCharAvail, EndTick,
       Idle, EndIdle, Halt, Type, DevStopped, devVars, clockVars, threadVars, syncVars, consoleVars, historyVars
\* A thread that goes on in its call keeps the lock.
LEMMA HolderGoesOn ==
  ASSUME DevTypes, LocksAreOwned, NEW t \in Threads, NEW p \in Holding,
         place[t] \in Holding, Goes(t, p), UNCHANGED <<program, owner>>,
         p = "served" => Dev(t) \in Requested,
         p = "read" => Dev(t) = "in",
         p # "held" => left'[t] > 0,
         \A s \in Threads \ {t} : left'[s] = left[s]
  PROVE  LocksAreOwned'
<1>1. \A s \in Threads : Dev(s)' = Dev(s) /\ program'[s] = program[s]
  BY DEF Dev, Call
<1>2. /\ place'[t] = p /\ \A s \in Threads \ {t} : place'[s] = place[s]
  BY DEF DevTypes, DevTypeOK, Goes
<1>3. ASSUME NEW s \in Threads
      PROVE  /\ place'[s] \in Holding \cup {"lock"} => program'[s] # << >>
             /\ place'[s] = "done" => program'[s] = << >>
             /\ place'[s] \in Holding => owner'[Dev(s)'] = s
             /\ \A d \in Devs : owner'[d] = s => place'[s] \in Holding /\ Dev(s)' = d
             /\ place'[s] = "served" => Dev(s)' \in Requested
             /\ place'[s] = "read" => Dev(s)' = "in"
             /\ place'[s] \in Holding \ {"held"} => left'[s] > 0
  <2>1. CASE s = t
    BY <1>1, <1>2, <2>1 DEF LocksAreOwned, Holding
  <2>2. CASE s # t
    BY <1>1, <1>2, <2>2 DEF LocksAreOwned
  <2> QED BY <2>1, <2>2
<1> QED BY <1>3 DEF LocksAreOwned

\* A thread that gets the lock of its device is its only owner.
LEMMA LockTaken ==
  ASSUME DevTypes, LocksAreOwned, NEW t \in Threads,
         place[t] \notin Holding, program[t] # << >>, owner[Dev(t)] = NoThread,
         owner' = [owner EXCEPT ![Dev(t)] = t], Goes(t, "held"), UNCHANGED program,
         \A s \in Threads \ {t} : left'[s] = left[s]
  PROVE  LocksAreOwned'
<1>1. \A s \in Threads : Dev(s)' = Dev(s) /\ program'[s] = program[s]
  BY DEF Dev, Call
<1>2. /\ place'[t] = "held" /\ \A s \in Threads \ {t} : place'[s] = place[s]
  BY DEF DevTypes, DevTypeOK, Goes
<1>3. Dev(t) \in Devs
  BY CallFacts
<1>4. owner'[Dev(t)] = t /\ \A d \in Devs \ {Dev(t)} : owner'[d] = owner[d]
  BY <1>3 DEF DevTypes, DevTypeOK
<1>5. ASSUME NEW s \in Threads
      PROVE  /\ place'[s] \in Holding \cup {"lock"} => program'[s] # << >>
             /\ place'[s] = "done" => program'[s] = << >>
             /\ place'[s] \in Holding => owner'[Dev(s)'] = s
             /\ \A d \in Devs : owner'[d] = s => place'[s] \in Holding /\ Dev(s)' = d
             /\ place'[s] = "served" => Dev(s)' \in Requested
             /\ place'[s] = "read" => Dev(s)' = "in"
             /\ place'[s] \in Holding \ {"held"} => left'[s] > 0
  <2>1. CASE s = t
    <3>1. \A d \in Devs : owner[d] # t
      BY OtherFacts
    <3>2. \A d \in Devs : owner'[d] = t => d = Dev(t)
      BY <1>4, <3>1
    <3> QED BY <1>1, <1>2, <1>4, <2>1, <3>2 DEF Holding
  <2>2. CASE s # t
    <3>1. place[s] \in Holding => Dev(s) \in Devs /\ Dev(s) # Dev(t)
      BY HolderFacts, DevicesAssumption
    <3> QED BY <1>1, <1>2, <1>4, <2>2, <3>1 DEF LocksAreOwned
  <2> QED BY <2>1, <2>2
<1> QED BY <1>5 DEF LocksAreOwned

\* A thread outside the locks may go anywhere outside them, and one that
\* releases its lock was its only owner.
LEMMA OutsideLocks ==
  ASSUME DevTypes, LocksAreOwned, NEW t \in Threads, NEW p \in {"ready", "lock", "done"}, Goes(t, p),
         p = "lock" => program'[t] # << >>,
         p = "done" => program'[t] = << >>,
         \A s \in Threads \ {t} : program'[s] = program[s] /\ left'[s] = left[s],
         \/ place[t] \notin Holding /\ UNCHANGED owner
         \/ place[t] \in Holding /\ owner' = [owner EXCEPT ![Dev(t)] = NoThread]
  PROVE  LocksAreOwned'
<1>1. \A s \in Threads \ {t} : Dev(s)' = Dev(s) /\ program'[s] = program[s] /\ left'[s] = left[s]
  BY DEF Dev, Call
<1>2. /\ place'[t] = p /\ p \notin Holding /\ \A s \in Threads \ {t} : place'[s] = place[s]
  BY DEF DevTypes, DevTypeOK, Goes, Holding
<1>3. \A d \in Devs : /\ owner'[d] # t
                      /\ owner'[d] = owner[d] \/ (owner'[d] = NoThread /\ owner[d] = t)
  <2>1. CASE place[t] \notin Holding /\ UNCHANGED owner
    <3>1. \A d \in Devs : owner[d] # t
      BY <2>1, OtherFacts
    <3> QED BY <2>1, <3>1
  <2>2. CASE place[t] \in Holding /\ owner' = [owner EXCEPT ![Dev(t)] = NoThread]
    <3>1. Dev(t) \in Devs /\ owner[Dev(t)] = t /\ \A d \in Devs : owner[d] = t => d = Dev(t)
      BY <2>2, HolderFacts
    <3>2. \A d \in Devs : owner'[d] = IF d = Dev(t) THEN NoThread ELSE owner[d]
      BY <2>2 DEF DevTypes, DevTypeOK
    <3> QED BY <3>1, <3>2, DevicesAssumption
  <2> QED BY <2>1, <2>2
<1>4. ASSUME NEW s \in Threads
      PROVE  /\ place'[s] \in Holding \cup {"lock"} => program'[s] # << >>
             /\ place'[s] = "done" => program'[s] = << >>
             /\ place'[s] \in Holding => owner'[Dev(s)'] = s
             /\ \A d \in Devs : owner'[d] = s => place'[s] \in Holding /\ Dev(s)' = d
             /\ place'[s] = "served" => Dev(s)' \in Requested
             /\ place'[s] = "read" => Dev(s)' = "in"
             /\ place'[s] \in Holding \ {"held"} => left'[s] > 0
  <2>1. CASE s = t
    BY <1>2, <1>3, <2>1 DEF Holding
  <2>2. CASE s # t
    <3>1. place[s] \in Holding => Dev(s) \in Devs /\ owner[Dev(s)] = s
      BY HolderFacts
    <3>2. place[s] \in Holding => owner'[Dev(s)] = s
      BY <1>3, <2>2, <3>1
    <3>3. \A d \in Devs : owner'[d] = s => owner[d] = s
      BY <1>3, DevicesAssumption
    <3> QED BY <1>1, <1>2, <2>2, <3>2, <3>3 DEF LocksAreOwned
  <2> QED BY <2>1, <2>2
<1> QED BY <1>4 DEF LocksAreOwned
\* Every step leaves each lock with the thread that is behind its Acquire.
LEMMA LocksKept ==
  ASSUME DevInv, DevNext
  PROVE  LocksAreOwned'
<1>0. DevTypes /\ LocksAreOwned
  BY DEF DevInv
<1>a. left \in [Threads -> Nat] /\ place \in [Threads -> Places] /\ owner \in [Devs -> Threads \cup {NoThread}]
  BY <1>0 DEF DevTypes, DevTypeOK
<1>1. ASSUME NEW t \in Threads, AcquireDev(t)  PROVE LocksAreOwned'
  <2>1. /\ place[t] \notin Holding /\ program[t] # << >> /\ UNCHANGED program
        /\ \A s \in Threads \ {t} : left'[s] = left[s]
    BY <1>a, <1>1 DEF AcquireDev, Running, Holding
  <2>2. \A s \in Threads : program'[s] = program[s]
    BY <2>1
  <2>3. CASE owner[Dev(t)] = NoThread
    BY <1>0, <1>1, <2>1, <2>3, LockTaken DEF AcquireDev
  <2>4. CASE owner[Dev(t)] # NoThread
    <3>1. Goes(t, "lock") /\ UNCHANGED owner
      BY <1>1, <2>4 DEF AcquireDev
    <3> QED BY <1>0, <2>1, <2>2, <3>1, OutsideLocks
  <2> QED BY <2>3, <2>4
<1>2. ASSUME NEW t \in Threads, NEW after \in Holding, PDev(t, after), place[t] \in Holding,
             after = "served" => Dev(t) \in Requested, after = "read" => Dev(t) = "in", left[t] > 0,
             UNCHANGED <<program, left, owner>>
      PROVE  LocksAreOwned'
  <2>1. \A s \in Threads : left'[s] = left[s]
    BY <1>2
  <2>2. CASE Goes(t, after)
    BY <1>0, <1>2, <2>1, <2>2, HolderGoesOn
  <2>3. CASE Goes(t, "P")
    <3>1. "P" \in Holding
      BY DEF Holding
    <3> QED BY <1>0, <1>2, <2>1, <2>3, <3>1, HolderGoesOn
  <2> QED BY <1>2, <2>2, <2>3 DEF PDev
<1>3. ASSUME NEW t \in Threads, Request(t)  PROVE LocksAreOwned'
  <2>1. /\ place[t] \in Holding /\ PDev(t, "served") /\ "served" \in Holding /\ left[t] > 0
        /\ Dev(t) \in Requested /\ UNCHANGED <<program, left, owner>>
    BY <1>3 DEF Request, Running, Holding, Requested
  <2> QED BY <1>2, <2>1
<1>4. ASSUME NEW t \in Threads, WaitForChar(t)  PROVE LocksAreOwned'
  <2>1. /\ place[t] \in Holding /\ PDev(t, "read") /\ "read" \in Holding /\ left[t] > 0
        /\ Dev(t) = "in" /\ UNCHANGED <<program, left, owner>>
    BY <1>4 DEF WaitForChar, Running, Holding
  <2> QED BY <1>2, <2>1
<1>5. ASSUME NEW t \in Threads, Served(t) \/ GetChar(t)  PROVE LocksAreOwned'
  <2>1. /\ place[t] \in Holding /\ Goes(t, "held") /\ "held" \in Holding /\ UNCHANGED <<program, owner>>
        /\ \A s \in Threads \ {t} : left'[s] = left[s]
    BY <1>a, <1>5 DEF Served, GetChar, Running, Holding, syncVars
  <2> QED BY <1>0, <2>1, HolderGoesOn
<1>6. ASSUME NEW t \in Threads, ReleaseDev(t)  PROVE LocksAreOwned'
  <2>1. /\ place[t] \in Holding /\ Goes(t, "ready") /\ owner' = [owner EXCEPT ![Dev(t)] = NoThread]
        /\ program' = [program EXCEPT ![t] = Tail(@)] /\ UNCHANGED left
    BY <1>6 DEF ReleaseDev, Running, Holding
  <2>2. \A s \in Threads \ {t} : program'[s] = program[s] /\ left'[s] = left[s]
    BY <1>0, <2>1 DEF DevTypes
  <2> QED BY <1>0, <2>1, <2>2, OutsideLocks
<1>7. ASSUME NEW t \in Threads, FinishDev(t)  PROVE LocksAreOwned'
  <2>1. /\ place[t] \notin Holding /\ Goes(t, "done") /\ UNCHANGED owner /\ program'[t] = << >>
        /\ \A s \in Threads : program'[s] = program[s] /\ left'[s] = left[s]
    BY <1>7 DEF FinishDev, Running, Holding, syncVars
  <2> QED BY <1>0, <2>1, OutsideLocks
<1>8. ASSUME NEW t \in Threads, Dispatch(t)  PROVE LocksAreOwned'
  <2>1. UNCHANGED <<program, left>> /\ \A s \in Threads : left'[s] = left[s]
    BY <1>8 DEF Dispatch
  <2>2. CASE place[t] = "lock"
    <3>1. place[t] \notin Holding /\ program[t] # << >>
      BY <1>0, <2>2 DEF LocksAreOwned, Holding
    <3>2. owner[Dev(t)] = NoThread /\ owner' = [owner EXCEPT ![Dev(t)] = t] /\ Goes(t, "held")
      BY <1>8, <2>2 DEF Dispatch, Runnable
    <3> QED BY <1>0, <2>1, <3>1, <3>2, LockTaken
  <2>3. CASE place[t] = "P"
    <3> DEFINE p == IF Dev(t) = "in" THEN "read" ELSE "served"
    <3>1. place[t] \in Holding /\ p \in Holding
      BY <2>3 DEF Holding
    <3>2. Goes(t, p) /\ UNCHANGED owner
      BY <1>8, <2>3 DEF Dispatch
    <3>3. Dev(t) \in Devs /\ left[t] > 0
      BY <1>0, <2>3, <3>1, HolderFacts
    <3>4. (p = "served" => Dev(t) \in Requested) /\ (p = "read" => Dev(t) = "in")
      BY <3>3, TimesAndTypes
    <3> HIDE DEF p
    <3> QED BY <1>0, <2>1, <3>1, <3>2, <3>3, <3>4, HolderGoesOn
  <2>4. CASE place[t] \notin {"lock", "P"}
    BY <1>0, <1>8, <2>1, <2>4 DEF Dispatch, LocksAreOwned, Dev, Call
  <2> QED BY <2>2, <2>3, <2>4
<1>9. CASE ClockStep \/ Type \/ DevStopped
  BY <1>0, <1>9, ClockLeavesThreads DEF LocksAreOwned, Dev, Call
<1> QED BY <1>1, <1>3, <1>4, <1>5, <1>6, <1>7, <1>8, <1>9 DEF DevNext, ThreadStep
----------------------------------------------------------------------------
(***************************************************************************)
(* The requests.                                                           *)
(***************************************************************************)
\* A step of a thread leaves the other threads where they are.
LEMMA OneMoves ==
  ASSUME DevTypes, NEW t \in Threads, ThreadStep(t) \/ Dispatch(t)
  PROVE  \A s \in Threads \ {t} : place'[s] = place[s] /\ left'[s] = left[s] /\ program'[s] = program[s]
<1>1. place \in [Threads -> Places] /\ left \in [Threads -> Nat] /\ program \in [Threads -> Seq(Calls)]
  BY DEF DevTypes, DevTypeOK
<1>2. CASE AcquireDev(t)
  BY <1>1, <1>2 DEF AcquireDev, Goes
<1>3. CASE Request(t)
  BY <1>1, <1>3 DEF Request, PDev, Goes
<1>4. CASE Served(t)
  BY <1>1, <1>4 DEF Served, Goes
<1>5. CASE WaitForChar(t)
  BY <1>1, <1>5 DEF WaitForChar, PDev, Goes
<1>6. CASE GetChar(t)
  BY <1>1, <1>6 DEF GetChar, Goes
<1>7. CASE ReleaseDev(t)
  BY <1>1, <1>7 DEF ReleaseDev, Goes
<1>8. CASE FinishDev(t)
  BY <1>1, <1>8 DEF FinishDev, Goes
<1>9. CASE Dispatch(t)
  <2>1. UNCHANGED <<left, program>>
    BY <1>9 DEF Dispatch
  <2>2. (\E p \in Places : Goes(t, p)) \/ UNCHANGED place
    BY <1>9 DEF Dispatch, Places
  <2> QED BY <1>1, <2>1, <2>2 DEF Goes
<1> QED BY <1>2, <1>3, <1>4, <1>5, <1>6, <1>7, <1>8, <1>9 DEF ThreadStep

\* ... and leaves every device alone that it does not own before or after it.
LEMMA OtherDevices ==
  ASSUME DevTypes, LocksAreOwned, NEW t \in Threads, ThreadStep(t) \/ Dispatch(t),
         NEW d \in Devs, owner[d] # t, owner'[d] # t
  PROVE  /\ owner'[d] = owner[d] /\ units'[d] = units[d]
         /\ \A p \in Places : OwnerAt(d, p)' <=> OwnerAt(d, p)
         /\ d \in Requested => busy'[d] = busy[d]
<1>1. /\ owner \in [Devs -> Threads \cup {NoThread}] /\ units \in [Devs -> Nat]
      /\ busy \in [Requested -> Threads \cup {NoThread}]
  BY DEF DevTypes, DevTypeOK
<1>2. place[t] \in Holding => Dev(t) # d
  BY HolderFacts
<1>3. owner'[d] = owner[d] /\ units'[d] = units[d] /\ (d \in Requested => busy'[d] = busy[d])
  <2>1. CASE AcquireDev(t)
    BY <1>1, <2>1 DEF AcquireDev
  <2>2. CASE Request(t)
    BY <1>1, <1>2, <2>2 DEF Request, PDev, Running, Holding
  <2>3. CASE WaitForChar(t)
    BY <1>1, <1>2, <2>3 DEF WaitForChar, PDev, Running, Holding
  <2>4. CASE ReleaseDev(t)
    BY <1>1, <1>2, <2>4 DEF ReleaseDev, Running, Holding
  <2>5. CASE Served(t) \/ GetChar(t) \/ FinishDev(t)
    BY <2>5 DEF Served, GetChar, FinishDev, syncVars
  <2>6. CASE Dispatch(t) /\ place[t] = "lock"
    BY <1>1, <2>6 DEF Dispatch
  <2>7. CASE Dispatch(t) /\ place[t] = "P"
    BY <1>1, <1>2, <2>7 DEF Dispatch, Holding
  <2>8. CASE Dispatch(t) /\ place[t] \notin {"lock", "P"}
    BY <2>8 DEF Dispatch
  <2> QED BY <2>1, <2>2, <2>3, <2>4, <2>5, <2>6, <2>7, <2>8 DEF ThreadStep
<1>4. owner[d] # NoThread => place'[owner[d]] = place[owner[d]]
  BY <1>1, OneMoves
<1> QED BY <1>3, <1>4 DEF OwnerAt

\* A thread that becomes the owner of a lock has taken a free one, and nothing
\* else happens.
LEMMA LockArrives ==
  ASSUME DevTypes, LocksAreOwned, NEW t \in Threads, ThreadStep(t) \/ Dispatch(t),
         NEW d \in Devs, owner[d] # t, owner'[d] = t
  PROVE  /\ owner[d] = NoThread /\ place'[t] = "held"
         /\ UNCHANGED <<units, pending, busy, program, consoleVars, historyVars>>
<1>1. owner \in [Devs -> Threads \cup {NoThread}] /\ place \in [Threads -> Places]
  BY DEF DevTypes, DevTypeOK
<1>2. CASE AcquireDev(t)
  BY <1>1, <1>2 DEF AcquireDev, Goes
<1>3. CASE Dispatch(t)
  BY <1>1, <1>3 DEF Dispatch, Goes, Runnable
<1>4. CASE ReleaseDev(t)
  BY <1>1, <1>4, DevicesAssumption DEF ReleaseDev
<1>5. UNCHANGED owner => FALSE
  OBVIOUS
<1> QED BY <1>2, <1>3, <1>4, <1>5 DEF ThreadStep, Request, Served, WaitForChar, GetChar, FinishDev, syncVars

\* The owner of a lock, in a step of its own.
LEMMA OwnerSteps ==
  ASSUME DevTypes, LocksAreOwned, NEW t \in Threads, ThreadStep(t) \/ Dispatch(t), NEW d \in Devs, owner[d] = t
  PROVE  /\ Dev(t) = d /\ place[t] \in Holding /\ program[t] # << >> /\ OwnerAt(d, place[t])
         /\ left[t] \in Nat /\ (place[t] # "held" => left[t] > 0)
         /\ \/ Request(t) \/ Served(t) \/ WaitForChar(t) \/ GetChar(t) \/ ReleaseDev(t)
            \/ Dispatch(t) /\ place[t] = "P"
            \/ Dispatch(t) /\ place[t] # "P" /\ UNCHANGED <<owner, units, place>>
<1>1. Dev(t) = d /\ place[t] \in Holding
  BY DEF LocksAreOwned
<1>2. program[t] # << >> /\ OwnerAt(d, place[t]) /\ left[t] \in Nat /\ (place[t] # "held" => left[t] > 0)
  BY <1>1, HolderFacts
<1>3. ~AcquireDev(t) /\ ~FinishDev(t) /\ place[t] # "lock"
  BY <1>1 DEF AcquireDev, FinishDev, Running, Holding
<1>4. Dispatch(t) /\ place[t] # "P" => UNCHANGED <<owner, units, place>>
  BY <1>3 DEF Dispatch
<1> QED BY <1>1, <1>2, <1>3, <1>4 DEF ThreadStep

\* What leaves a device and its owner alone keeps the answer that is due.
LEMMA AnswerKept ==
  ASSUME NEW d \in Requested, Answered(d),
         OwnerAt(d, "P")' <=> OwnerAt(d, "P"),
         OwnerAt(d, "P") => owner'[d] = owner[d],
         OwnerAt(d, "served")' => OwnerAt(d, "served") /\ owner'[d] = owner[d],
         units'[d] = units[d], busy'[d] = busy[d], served'[d] = served[d],
         None(pending, IntOf(d)) => None(pending, IntOf(d))',
         One(pending, IntOf(d)) => One(pending, IntOf(d))'
  PROVE  Answered(d)'
BY DEF Answered
\* A thread changes the list only by a request to the device it owns.
LEMMA PendingOfThreads ==
  ASSUME DevTypes, LocksAreOwned, NEW t \in Threads, ThreadStep(t) \/ Dispatch(t),
         NEW d \in Requested, Request(t) => Dev(t) # d
  PROVE  /\ None(pending, IntOf(d)) => None(pending, IntOf(d))'
         /\ One(pending, IntOf(d)) => One(pending, IntOf(d))'
         /\ UNCHANGED served
<1>1. UNCHANGED served
  BY DEF ThreadStep, AcquireDev, Request, Served, WaitForChar, GetChar, ReleaseDev, FinishDev, Dispatch, historyVars
<1>2. CASE UNCHANGED pending
  BY <1>1, <1>2 DEF None, One, IntOf
<1>3. CASE Request(t)
  <2>1. Dev(t) \in Requested /\ Dev(t) # d
    BY <1>3 DEF Request, Requested
  <2>2. PICK time \in Nat \ {0} : pending' = Schedule(pending, IntOf(Dev(t)), time)
    BY <1>3, <2>1, RequestTypes
  <2>3. IntOf(Dev(t)) \in Types /\ IntOf(d) \in Types \ {IntOf(Dev(t))} /\ pending \in Seq(Ints) /\ time \in Int
    BY <2>1, TimesAndTypes DEF DevTypes
  <2> DEFINE new == Schedule(pending, IntOf(Dev(t)), time)
  <2>4. /\ None(pending, IntOf(d)) => None(new, IntOf(d))
        /\ One(pending, IntOf(d)) => One(new, IntOf(d))
    BY <2>3, ScheduleKeeps
  <2>5. pending' = new
    BY <2>2
  <2> HIDE DEF new
  <2> QED BY <1>1, <2>4, <2>5 DEF None, One, IntOf
<1> QED
  BY <1>2, <1>3 DEF ThreadStep, AcquireDev, Served, WaitForChar, GetChar, ReleaseDev, FinishDev, Dispatch, clockVars

\* Every step of a thread leaves each request with its one answer.
LEMMA ThreadKeepsAnswers ==
  ASSUME DevTypes, LocksAreOwned, RequestsAreAnswered,
         NEW t \in Threads, ThreadStep(t) \/ Dispatch(t), NEW d \in Requested
  PROVE  Answered(d)'
<1>1. Answered(d) /\ d \in Devs
  BY TimesAndTypes DEF RequestsAreAnswered
<1>a. /\ owner \in [Devs -> Threads \cup {NoThread}] /\ units \in [Devs -> Nat] /\ place \in [Threads -> Places]
      /\ busy \in [Requested -> Threads \cup {NoThread}]
  BY DEF DevTypes, DevTypeOK
<1>2. CASE owner[d] # t /\ owner'[d] # t
  <2>1. Request(t) => Dev(t) # d
    BY <1>2, HolderFacts DEF Request, Running, Holding
  <2>2. "P" \in Places /\ "served" \in Places
    BY DEF Places
  <2> QED BY <1>1, <1>2, <2>1, <2>2, OtherDevices, PendingOfThreads, AnswerKept
<1>3. CASE owner[d] # t /\ owner'[d] = t
  <2>1. owner[d] = NoThread /\ place'[t] = "held" /\ UNCHANGED <<units, pending, busy, historyVars>>
    BY <1>1, <1>3, LockArrives
  <2>2. ~OwnerAt(d, "P") /\ ~OwnerAt(d, "P")' /\ ~OwnerAt(d, "served")'
    BY <1>3, <2>1 DEF OwnerAt
  <2>3. units'[d] = 0 /\ busy'[d] = NoThread /\ None(pending, IntOf(d))'
    BY <1>1, <2>1, <2>2 DEF Answered, None, IntOf
  <2> QED BY <2>2, <2>3 DEF Answered
<1>4. CASE owner[d] = t
  <2>1. /\ Dev(t) = d /\ OwnerAt(d, place[t])
        /\ \/ Request(t) \/ Served(t) \/ WaitForChar(t) \/ GetChar(t) \/ ReleaseDev(t)
           \/ Dispatch(t) /\ place[t] = "P"
           \/ Dispatch(t) /\ place[t] # "P" /\ UNCHANGED <<owner, units, place>>
    BY <1>1, <1>4, OwnerSteps
  <2>2. t # NoThread /\ \A p \in Places : OwnerAt(d, p) <=> place[t] = p
    BY <1>4, DevicesAssumption DEF OwnerAt
  <2>3. CASE Request(t)
    <3>1. place[t] = "held" /\ units[d] = 0 /\ None(pending, IntOf(d))
      BY <1>1, <2>2, <2>3 DEF Request, Running, Answered, Places
    <3>2. place'[t] = "P" /\ units' = units /\ owner' = owner /\ busy'[d] = t
      <4>1. units' = units /\ owner' = owner
        BY <2>1, <2>3, <3>1 DEF Request, PDev
      <4>2. place'[t] = "P"
        BY <1>1, <1>a, <2>1, <2>3, <3>1 DEF Request, PDev, Goes
      <4>3. busy'[d] = t
        BY <1>1, <1>a, <2>1, <2>3 DEF Request
      <4> QED BY <4>1, <4>2, <4>3
    <3>3. One(pending, IntOf(d))'
      <4>1. PICK time \in Nat \ {0} : pending' = Schedule(pending, IntOf(d), time)
        BY <2>1, <2>3, RequestTypes
      <4>2. IntOf(d) \in Types /\ pending \in Seq(Ints) /\ time \in Int
        BY TimesAndTypes DEF DevTypes
      <4> DEFINE new == Schedule(pending, IntOf(d), time)
      <4>3. One(new, IntOf(d)) /\ pending' = new
        BY <3>1, <4>1, <4>2, ScheduleKeeps
      <4> HIDE DEF new
      <4> QED BY <4>3 DEF One, IntOf
    <3>4. OwnerAt(d, "P")' /\ ~OwnerAt(d, "served")'
      BY <1>4, <2>2, <3>2 DEF OwnerAt
    <3> QED BY <1>4, <3>1, <3>2, <3>3, <3>4 DEF Answered
  <2>4. CASE Dispatch(t) /\ place[t] = "P"
    <3>1. units[d] = 1 /\ busy[d] = NoThread /\ None(pending, IntOf(d)) /\ served[d] = t
      BY <1>1, <1>4, <2>1, <2>4 DEF Dispatch, Runnable, Answered
    <3>2. units'[d] = 0 /\ place'[t] = "served" /\ UNCHANGED <<owner, busy, served, pending>>
      <4>1. Dev(t) # "in"
        BY <2>1, TimesAndTypes
      <4> QED BY <1>1, <1>a, <2>1, <2>4, <3>1, <4>1 DEF Dispatch, Goes, historyVars
    <3>3. ~OwnerAt(d, "P")' /\ None(pending, IntOf(d))'
      BY <1>4, <3>1, <3>2 DEF OwnerAt, None, IntOf
    <3> QED BY <1>4, <3>1, <3>2, <3>3 DEF Answered
  <2>5. CASE Served(t) \/ ReleaseDev(t)
    <3>1. place[t] \in {"served", "held"} /\ UNCHANGED <<units, busy, pending>>
      BY <2>5 DEF Served, ReleaseDev, Running, syncVars, clockVars
    <3>2. ~OwnerAt(d, "P")
      BY <3>1, <2>2 DEF Places
    <3>3. ~OwnerAt(d, "P")' /\ ~OwnerAt(d, "served")'
      BY <1>1, <1>a, <1>4, <2>1, <2>5 DEF Served, ReleaseDev, OwnerAt, Goes, syncVars
    <3>4. units'[d] = 0 /\ busy'[d] = NoThread /\ None(pending, IntOf(d))'
      BY <1>1, <3>1, <3>2 DEF Answered, None, IntOf
    <3> QED BY <3>3, <3>4 DEF Answered
  <2>6. CASE Dispatch(t) /\ place[t] # "P" /\ UNCHANGED <<owner, units, place>>
    <3>1. UNCHANGED <<pending, busy, served>>
      BY <2>6 DEF Dispatch, historyVars
    <3> QED BY <1>1, <2>6, <3>1 DEF Answered, OwnerAt, None, One, IntOf
  <2>7. CASE WaitForChar(t) \/ GetChar(t)
    <3>1. Dev(t) = "in"
      BY <2>7 DEF WaitForChar, GetChar, Running, LocksAreOwned
    <3> QED BY <2>1, <3>1, TimesAndTypes
  <2> QED BY <2>1, <2>3, <2>4, <2>5, <2>6, <2>7
<1> QED BY <1>2, <1>3, <1>4

\* So does every step of the clock: the interrupt of a device leaves the unit.
LEMMA ClockKeepsAnswers ==
  ASSUME DevTypes, LocksAreOwned, RequestsAreAnswered, ClockStep \/ Type \/ DevStopped, NEW d \in Requested
  PROVE  Answered(d)'
<1>1. Answered(d) /\ d \in Devs /\ UNCHANGED <<owner, place>>
  BY TimesAndTypes, ClockLeavesThreads DEF RequestsAreAnswered
<1>a. /\ owner \in [Devs -> Threads \cup {NoThread}] /\ units \in [Devs -> Nat]
      /\ busy \in [Requested -> Threads \cup {NoThread}]
      /\ pending \in Seq(Ints)
  BY DEF DevTypes, DevTypeOK
<1>2. \A p : OwnerAt(d, p)' <=> OwnerAt(d, p)
  BY <1>1 DEF OwnerAt
<1>3. ASSUME units'[d] = units[d], busy'[d] = busy[d], served'[d] = served[d],
             None(pending, IntOf(d)) => None(pending, IntOf(d))',
             One(pending, IntOf(d)) => One(pending, IntOf(d))'
      PROVE  Answered(d)'
  BY <1>1, <1>2, <1>3, AnswerKept
<1>4. CASE OneTick \/ Idle
  <2>1. UNCHANGED <<units, busy, served>>
    BY <1>4 DEF OneTick, Idle, syncVars, historyVars
  <2>2. PICK time \in Int : pending' = Later(pending, time)
    BY <1>4, TimePasses
  <2>3. IntOf(d) \in Types
    BY TimesAndTypes
  <2> DEFINE new == Later(pending, time)
  <2>4. (None(pending, IntOf(d)) => None(new, IntOf(d))) /\ (One(pending, IntOf(d)) => One(new, IntOf(d)))
    BY <1>a, <2>3, LaterKeeps
  <2>5. pending' = new
    BY <2>2
  <2> HIDE DEF new
  <2> QED BY <1>3, <2>1, <2>4, <2>5 DEF None, One, IntOf
<1>5. ASSUME NEW T \in Types \ {IntOf(d)}, NEW n \in Int, pending # << >>, Head(pending).type = T,
             pending' = Schedule(Tail(pending), T, n)
      PROVE  /\ None(pending, IntOf(d)) => None(pending, IntOf(d))'
             /\ One(pending, IntOf(d)) => One(pending, IntOf(d))'
  <2>1. IntOf(d) \in Types \ {T} /\ Tail(pending) \in Seq(Ints)
    BY <1>a, <1>5, TailKeeps, TimesAndTypes
  <2> DEFINE rest == Tail(pending)
             new == Schedule(rest, T, n)
  <2>2. (None(pending, IntOf(d)) => None(rest, IntOf(d))) /\ (One(pending, IntOf(d)) => One(rest, IntOf(d)))
    BY <1>a, <1>5, <2>1, TailKeeps
  <2>3. rest \in Seq(Ints)
    BY <2>1
  <2> HIDE DEF rest
  <2>4. (None(rest, IntOf(d)) => None(new, IntOf(d))) /\ (One(rest, IntOf(d)) => One(new, IntOf(d)))
    BY <2>1, <2>3, ScheduleKeeps
  <2>5. pending' = new
    BY <1>5 DEF rest
  <2> HIDE DEF new
  <2> QED BY <2>2, <2>4, <2>5 DEF None, One, IntOf
<1>6. CASE TimerExpired
  <2>1. pending # << >> /\ Head(pending).type = "TimerInt" /\ UNCHANGED <<units, busy, served>>
    BY <1>6 DEF TimerExpired, Fires, Due, syncVars, historyVars
  <2>2. PICK n \in TimerDelays : pending' = Schedule(Tail(pending), "TimerInt", n)
    BY <1>6 DEF TimerExpired
  <2>3. "TimerInt" \in Types \ {IntOf(d)} /\ n \in Int
    BY TimesAndTypes
  <2> QED BY <1>3, <1>5, <2>1, <2>2, <2>3
<1>7. CASE CheckCharAvail
  <2>1. /\ pending # << >> /\ Head(pending).type = "ConsoleReadInt" /\ UNCHANGED <<busy, served>>
        /\ pending' = Schedule(Tail(pending), "ConsoleReadInt", ConsoleTime)
    BY <1>7 DEF CheckCharAvail, Fires, Due, historyVars
  <2>2. "ConsoleReadInt" \in Types \ {IntOf(d)} /\ ConsoleTime \in Int
    BY TimesAndTypes
  <2>3. units'[d] = units[d]
    BY <1>a, <1>7, TimesAndTypes DEF CheckCharAvail, V
  <2> QED BY <1>3, <1>5, <2>1, <2>2, <2>3
<1>8. ASSUME NEW e \in Requested, RequestDone(IntOf(e), e)  PROVE Answered(d)'
  <2>1. /\ pending # << >> /\ Head(pending).type = IntOf(e) /\ pending' = Tail(pending)
        /\ busy' = [busy EXCEPT ![e] = NoThread] /\ served' = [served EXCEPT ![e] = busy[e]] /\ V(e)
    BY <1>8 DEF RequestDone, Fires, Due
  <2> DEFINE rest == Tail(pending)
  <2>2. /\ One(pending, IntOf(e)) => None(rest, IntOf(e))
        /\ d # e => /\ None(pending, IntOf(d)) => None(rest, IntOf(d))
                    /\ One(pending, IntOf(d)) => One(rest, IntOf(d))
    <3>1. d # e => IntOf(d) \in Types \ {IntOf(e)}
      BY TimesAndTypes
    <3> QED BY <1>a, <2>1, <3>1, TailKeeps
  <2>3. e \in Devs /\ units'[e] = units[e] + 1 /\ \A f \in Devs \ {e} : units'[f] = units[f]
    BY <1>a, <2>1, VTypes, TimesAndTypes
  <2>4. pending' = rest
    BY <2>1
  <2> HIDE DEF rest
  <2>5. CASE d # e
    <3>1. /\ None(pending, IntOf(d)) => None(pending, IntOf(d))'
          /\ One(pending, IntOf(d)) => One(pending, IntOf(d))'
      BY <2>2, <2>4, <2>5 DEF None, One, IntOf
    <3>2. busy'[d] = busy[d] /\ served'[d] = served[d] /\ units'[d] = units[d]
      BY <1>1, <1>a, <2>1, <2>3, <2>5 DEF DevTypes
    <3> QED BY <1>3, <3>1, <3>2
  <2>6. CASE d = e
    <3>1. ~None(pending, IntOf(d))
      BY <1>a, <2>1, <2>6, ListFacts DEF None
    <3>2. OwnerAt(d, "P") /\ units[d] = 0 /\ busy[d] = owner[d] /\ One(pending, IntOf(d))
      BY <1>1, <3>1 DEF Answered
    <3>3. None(pending, IntOf(d))'
      BY <2>2, <2>4, <2>6, <3>2 DEF None, IntOf
    <3>4. busy'[d] = NoThread /\ served'[d] = owner'[d] /\ units'[d] = 1
      BY <1>1, <1>a, <2>1, <2>3, <2>6, <3>2 DEF DevTypes
    <3>5. OwnerAt(d, "P")' /\ ~OwnerAt(d, "served")'
      BY <1>1, <3>2 DEF OwnerAt
    <3> QED BY <3>3, <3>4, <3>5 DEF Answered
  <2> QED BY <2>5, <2>6
<1>9. CASE EndTick \/ EndIdle \/ Halt \/ Type \/ DevStopped
  <2>1. UNCHANGED <<pending, units, busy, served>>
    BY <1>9 DEF EndTick, EndIdle, Halt, Type, DevStopped, devVars, clockVars, syncVars, historyVars
  <2> QED BY <1>3, <2>1 DEF None, One, IntOf
<1> QED
  BY <1>4, <1>6, <1>7, <1>8, <1>9, TimesAndTypes DEF ClockStep, DiskDone, ConsoleWriteDone, Requested

\* Each request keeps its one answer.
LEMMA RequestsKept ==
  ASSUME DevInv, DevNext
  PROVE  RequestsAreAnswered'
<1>1. DevTypes /\ LocksAreOwned /\ RequestsAreAnswered
  BY DEF DevInv
<1>2. \A d \in Requested : Answered(d)'
  BY <1>1, ThreadKeepsAnswers, ClockKeepsAnswers DEF DevNext
<1> QED BY <1>2 DEF RequestsAreAnswered
----------------------------------------------------------------------------
(***************************************************************************)
(* The console's buffer.                                                   *)
(***************************************************************************)
\* Every step leaves the buffer with its unit, or with the reader that took it.
LEMMA BufferKept ==
  ASSUME DevInv, DevNext
  PROVE  BufferIsAnnounced'
<1>0. DevTypes /\ LocksAreOwned /\ BufferIsAnnounced
  BY DEF DevInv
<1>a. /\ owner \in [Devs -> Threads \cup {NoThread}] /\ units \in [Devs -> Nat] /\ place \in [Threads -> Places]
      /\ "in" \in Devs /\ "in" \notin Requested /\ "read" \in Places
  BY <1>0, TimesAndTypes DEF DevTypes, DevTypeOK, Places
<1>b. ASSUME OwnerAt("in", "read")' <=> OwnerAt("in", "read"), units'["in"] = units["in"], UNCHANGED incoming
      PROVE  BufferIsAnnounced'
  BY <1>0, <1>b DEF BufferIsAnnounced
<1>1. ASSUME NEW t \in Threads, ThreadStep(t) \/ Dispatch(t)  PROVE BufferIsAnnounced'
  <2>1. ~GetChar(t) => UNCHANGED incoming
    BY <1>1 DEF ThreadStep, AcquireDev, Request, Served, WaitForChar, ReleaseDev, FinishDev, Dispatch, consoleVars
  <2>2. CASE owner["in"] # t /\ owner'["in"] # t
    <3>1. ~GetChar(t)
      <4>1. SUFFICES ASSUME GetChar(t)  PROVE FALSE
        OBVIOUS
      <4>2. Dev(t) = "in" /\ owner[Dev(t)] = t
        BY <1>0, <4>1 DEF GetChar, Running, LocksAreOwned, Holding
      <4> QED BY <2>2, <4>2
    <3> QED BY <1>0, <1>1, <1>a, <1>b, <2>1, <2>2, <3>1, OtherDevices
  <2>3. CASE owner["in"] # t /\ owner'["in"] = t
    <3>1. owner["in"] = NoThread /\ place'[t] = "held" /\ UNCHANGED <<units, consoleVars>>
      BY <1>0, <1>1, <1>a, <2>3, LockArrives
    <3>2. ~OwnerAt("in", "read") /\ ~OwnerAt("in", "read")'
      BY <2>3, <3>1 DEF OwnerAt
    <3> QED BY <1>b, <3>1, <3>2 DEF consoleVars
  <2>4. CASE owner["in"] = t
    <3>1. /\ Dev(t) = "in"
          /\ \/ Request(t) \/ Served(t) \/ WaitForChar(t) \/ GetChar(t) \/ ReleaseDev(t)
             \/ Dispatch(t) /\ place[t] = "P"
             \/ Dispatch(t) /\ place[t] # "P" /\ UNCHANGED <<owner, units, place>>
      BY <1>0, <1>1, <1>a, <2>4, OwnerSteps
    <3>2. t # NoThread /\ (OwnerAt("in", "read") <=> place[t] = "read")
      BY <2>4, DevicesAssumption DEF OwnerAt
    <3>3. CASE Request(t) \/ Served(t)
      <4>1. Dev(t) \in Requested
        BY <1>0, <3>3 DEF Request, Served, Running, Requested, LocksAreOwned
      <4> QED BY <1>a, <3>1, <4>1
    <3>4. ASSUME units["in"] > 0, place[t] # "read", units'["in"] = units["in"] - 1, place'[t] = "read",
                 UNCHANGED <<owner, incoming>>
          PROVE  BufferIsAnnounced'
      <4>1. units["in"] = 1 /\ incoming # EOF
        BY <1>0, <3>2, <3>4 DEF BufferIsAnnounced
      <4>2. OwnerAt("in", "read")'
        BY <2>4, <3>2, <3>4 DEF OwnerAt
      <4> QED BY <3>4, <4>1, <4>2 DEF BufferIsAnnounced
    <3>5. CASE WaitForChar(t)
      <4>1. place[t] # "read" /\ UNCHANGED <<owner, incoming>> /\ PDev(t, "read")
        BY <3>5 DEF WaitForChar, Running, consoleVars
      <4>2. CASE units[Dev(t)] > 0 /\ units' = [units EXCEPT ![Dev(t)] = @ - 1] /\ Goes(t, "read")
        BY <1>a, <3>1, <3>4, <4>1, <4>2 DEF Goes
      <4>3. CASE UNCHANGED units /\ Goes(t, "P")
        <5>1. ~OwnerAt("in", "read")'
          BY <1>a, <2>4, <4>1, <4>3 DEF OwnerAt, Goes
        <5> QED BY <1>b, <3>2, <4>1, <4>3, <5>1
      <4> QED BY <4>1, <4>2, <4>3 DEF PDev
    <3>6. CASE Dispatch(t) /\ place[t] = "P"
      BY <1>a, <3>1, <3>4, <3>6 DEF Dispatch, Runnable, Goes, consoleVars
    <3>7. CASE GetChar(t)
      <4>1. place[t] = "read" /\ incoming' = EOF /\ UNCHANGED <<owner, units>> /\ place'[t] = "held"
        BY <1>a, <3>7 DEF GetChar, Running, Goes, syncVars
      <4>2. units["in"] = 0 /\ ~OwnerAt("in", "read")'
        BY <1>0, <2>4, <3>2, <4>1 DEF BufferIsAnnounced, OwnerAt
      <4> QED BY <4>1, <4>2 DEF BufferIsAnnounced
    <3>8. CASE ReleaseDev(t)
      <4>1. place[t] = "held" /\ UNCHANGED <<units, incoming>> /\ owner'["in"] = NoThread
        BY <1>a, <3>1, <3>8 DEF ReleaseDev, Running, consoleVars
      <4> QED BY <1>b, <3>2, <4>1 DEF OwnerAt
    <3>9. CASE Dispatch(t) /\ place[t] # "P" /\ UNCHANGED <<owner, units, place>>
      BY <1>b, <3>9 DEF Dispatch, OwnerAt, consoleVars
    <3> QED BY <3>1, <3>3, <3>5, <3>6, <3>7, <3>8, <3>9
  <2> QED BY <2>2, <2>3, <2>4
<1>2. CASE ClockStep \/ Type \/ DevStopped
  <2>1. OwnerAt("in", "read")' <=> OwnerAt("in", "read")
    BY <1>2, ClockLeavesThreads DEF OwnerAt
  <2>2. CASE CheckCharAvail /\ incoming = EOF /\ keyboard # << >>
    <3>1. units'["in"] = units["in"] + 1 /\ incoming' = Head(keyboard)
      BY <1>a, <2>2 DEF CheckCharAvail, V
    <3>2. Head(keyboard) # EOF
      <4>1. keyboard \in Seq(Range(Input))
        BY <1>0 DEF DevTypes
      <4> QED BY <2>2, <4>1, InputFacts, DevicesAssumption
    <3>3. ~OwnerAt("in", "read") /\ units["in"] = 0
      BY <1>0, <2>2 DEF BufferIsAnnounced
    <3> QED BY <2>1, <3>1, <3>2, <3>3 DEF BufferIsAnnounced
  <2>3. CASE CheckCharAvail /\ ~(incoming = EOF /\ keyboard # << >>)
    BY <1>b, <2>1, <2>3 DEF CheckCharAvail
  <2>4. CASE DiskDone \/ ConsoleWriteDone
    BY <1>a, <1>b, <2>1, <2>4 DEF DiskDone, ConsoleWriteDone, RequestDone, V, consoleVars
  <2>5. CASE OneTick \/ TimerExpired \/ EndTick \/ Idle \/ EndIdle \/ Halt \/ Type \/ DevStopped
    BY <1>b, <2>1, <2>5 DEF OneTick, TimerExpired, EndTick, Idle, EndIdle, Halt, Type, DevStopped,
                            devVars, syncVars, consoleVars
  <2> QED BY <1>2, <2>2, <2>3, <2>4, <2>5 DEF ClockStep
<1> QED BY <1>1, <1>2 DEF DevNext

----------------------------------------------------------------------------
(***************************************************************************)
(* The lines on the screen and the lines read.                             *)
(***************************************************************************)
\* A thread puts characters out by a request to the screen, and takes them by
\* GetChar.
LEMMA HistoryOfThreads ==
  ASSUME NEW t \in Threads, ThreadStep(t) \/ Dispatch(t)
  PROVE  /\ ~(Request(t) /\ Dev(t) = "out") => UNCHANGED screen
         /\ ~GetChar(t) => UNCHANGED readBy
         /\ ~ReleaseDev(t) => UNCHANGED program
BY DEF ThreadStep, AcquireDev, Request, Served, WaitForChar, GetChar, ReleaseDev, FinishDev, Dispatch, historyVars

\* The last line changes with the screen only, and has the new character last.
LEMMA LastLineFacts ==
  ASSUME DevTypes
  PROVE  /\ LastLine \in [thread : Threads \cup {NoThread}, rest : Nat]
         /\ UNCHANGED screen => UNCHANGED LastLine
         /\ \A c \in [thread : Threads, rest : Nat] : screen' = Append(screen, c) => LastLine' = c
<1>1. screen \in Seq([thread : Threads, rest : Nat])
  BY DEF DevTypes
<1>2. LastLine \in [thread : Threads \cup {NoThread}, rest : Nat]
  <2>1. CASE screen = << >>
    BY <2>1 DEF LastLine
  <2>2. CASE screen # << >>
    <3>1. Len(screen) \in 1 .. Len(screen)
      BY <1>1, <2>2, EmptySeq, LenProperties
    <3>2. screen[Len(screen)] \in [thread : Threads, rest : Nat]
      BY <1>1, <3>1, ElementOfSeq
    <3> QED BY <2>2, <3>2 DEF LastLine
  <2> QED BY <2>1, <2>2
<1>3. UNCHANGED screen => UNCHANGED LastLine
  BY DEF LastLine
<1>4. ASSUME NEW c \in [thread : Threads, rest : Nat], screen' = Append(screen, c)  PROVE LastLine' = c
  <2>1. /\ Append(screen, c) # << >> /\ Len(Append(screen, c)) = Len(screen) + 1
        /\ Append(screen, c)[Len(screen) + 1] = c
    BY <1>1, AppendProperties
  <2> QED BY <1>4, <2>1 DEF LastLine
<1> QED BY <1>2, <1>3, <1>4
\* Every step leaves the last line whole or with the owner of outputMutex.
LEMMA LinesKept ==
  ASSUME DevInv, DevNext
  PROVE  LinesGoOn'
<1>0. DevTypes /\ LocksAreOwned /\ RequestsAreAnswered /\ LinesGoOn
  BY DEF DevInv
<1>a. /\ owner \in [Devs -> Threads \cup {NoThread}] /\ units \in [Devs -> Nat] /\ place \in [Threads -> Places]
      /\ left \in [Threads -> Nat] /\ "out" \in Devs /\ "out" \in Requested
      /\ "held" \in Places /\ "P" \in Places /\ "served" \in Places
  BY <1>0 DEF DevTypes, DevTypeOK, Places, Devs, Requested
<1>b. /\ LastLine \in [thread : Threads \cup {NoThread}, rest : Nat]
      /\ UNCHANGED screen => UNCHANGED LastLine
      /\ \A c \in [thread : Threads, rest : Nat] : screen' = Append(screen, c) => LastLine' = c
  BY <1>0, LastLineFacts
<1>1. ASSUME NEW t \in Threads, ThreadStep(t) \/ Dispatch(t)  PROVE LinesGoOn'
  <2>1. ~(Request(t) /\ Dev(t) = "out") => UNCHANGED screen
    BY <1>1, HistoryOfThreads
  <2>2. CASE owner["out"] # t /\ owner'["out"] # t
    <3>1. UNCHANGED screen
      <4>1. SUFFICES ASSUME Request(t), Dev(t) = "out"  PROVE FALSE
        BY <2>1
      <4>2. owner[Dev(t)] = t
        BY <1>0, <4>1 DEF Request, Running, LocksAreOwned, Holding
      <4> QED BY <2>2, <4>1, <4>2
    <3>2. owner'["out"] = owner["out"] /\ \A p \in Places : OwnerAt("out", p)' <=> OwnerAt("out", p)
      BY <1>0, <1>1, <1>a, <2>2, OtherDevices
    <3>3. owner["out"] # NoThread => left'[owner["out"]] = left[owner["out"]]
      BY <1>0, <1>1, <1>a, <2>2, OneMoves
    <3>4. LastLine' = LastLine
      BY <1>b, <3>1
    <3>5. /\ OwnerAt("out", "held")' <=> OwnerAt("out", "held")
          /\ OwnerAt("out", "P")' <=> OwnerAt("out", "P")
          /\ OwnerAt("out", "served")' <=> OwnerAt("out", "served")
      BY <1>a, <3>2
    <3>6. OwnerAt("out", "held") \/ OwnerAt("out", "P") \/ OwnerAt("out", "served") => owner["out"] # NoThread
      BY DEF OwnerAt
    <3> QED BY <1>0, <3>2, <3>3, <3>4, <3>5, <3>6 DEF LinesGoOn
  <2>3. CASE owner["out"] # t /\ owner'["out"] = t
    <3>1. owner["out"] = NoThread /\ place'[t] = "held" /\ UNCHANGED historyVars
      BY <1>0, <1>1, <1>a, <2>3, LockArrives
    <3>2. LastLine'.rest = 0
      BY <1>0, <1>b, <3>1 DEF LinesGoOn, historyVars
    <3>3. ~OwnerAt("out", "P")' /\ ~OwnerAt("out", "served")'
      BY <2>3, <3>1 DEF OwnerAt
    <3> QED BY <3>2, <3>3 DEF LinesGoOn
  <2>4. CASE owner["out"] = t
    <3>1. /\ Dev(t) = "out" /\ left[t] \in Nat /\ (place[t] # "held" => left[t] > 0)
          /\ \/ Request(t) \/ Served(t) \/ WaitForChar(t) \/ GetChar(t) \/ ReleaseDev(t)
             \/ Dispatch(t) /\ place[t] = "P"
             \/ Dispatch(t) /\ place[t] # "P" /\ UNCHANGED <<owner, units, place>>
      BY <1>0, <1>1, <1>a, <2>4, OwnerSteps
    <3>2. t # NoThread /\ \A p \in Places : OwnerAt("out", p) <=> place[t] = p
      BY <2>4, DevicesAssumption DEF OwnerAt
    <3>3. CASE Request(t)
      <4>1. place[t] = "held" /\ left[t] > 0 /\ units["out"] = 0 /\ UNCHANGED <<left, owner>>
        BY <1>0, <1>a, <3>2, <3>3 DEF Request, Running, RequestsAreAnswered, Answered
      <4>2. place'[t] = "P"
        BY <1>a, <3>1, <3>3, <4>1 DEF Request, PDev, Goes
      <4> DEFINE c == [thread |-> t, rest |-> left[t] - 1]
      <4>3. c \in [thread : Threads, rest : Nat]
        BY <3>1, <4>1
      <4>4. screen' = Append(screen, c)
        BY <3>1, <3>3 DEF Request
      <4>5. LastLine' = c
        BY <1>b, <4>3, <4>4
      <4>6. owner'["out"] = t /\ left'[t] = left[t] /\ ~OwnerAt("out", "held")'
        BY <2>4, <4>1, <4>2 DEF OwnerAt
      <4> QED BY <3>2, <4>5, <4>6 DEF LinesGoOn
    <3>4. CASE Served(t)
      <4>1. place[t] = "served" /\ place'[t] = "held" /\ left'[t] = left[t] - 1 /\ UNCHANGED <<owner, screen>>
        BY <1>a, <3>4 DEF Served, Running, Goes, syncVars, historyVars
      <4>2. LastLine' = [thread |-> t, rest |-> left[t] - 1]
        BY <1>0, <1>a, <1>b, <2>4, <3>2, <4>1 DEF LinesGoOn
      <4>3. owner'["out"] = t /\ ~OwnerAt("out", "P")' /\ ~OwnerAt("out", "served")'
        BY <2>4, <4>1 DEF OwnerAt
      <4> QED BY <3>2, <4>1, <4>2, <4>3 DEF LinesGoOn
    <3>5. CASE ReleaseDev(t)
      <4>1. place[t] = "held" /\ left[t] = 0 /\ UNCHANGED screen /\ owner'["out"] = NoThread
        BY <1>a, <3>1, <3>5 DEF ReleaseDev, Running, historyVars
      <4>2. LastLine.rest = 0
        BY <1>0, <1>a, <2>4, <3>2, <4>1 DEF LinesGoOn
      <4> QED BY <1>b, <4>1, <4>2 DEF LinesGoOn, OwnerAt
    <3>6. CASE Dispatch(t) /\ place[t] = "P"
      <4>1. place'[t] = "served" /\ UNCHANGED <<owner, left, screen>>
        BY <1>a, <3>1, <3>6 DEF Dispatch, Goes, historyVars
      <4>2. LastLine' = [thread |-> t, rest |-> left[t] - 1]
        BY <1>0, <1>a, <1>b, <2>4, <3>2, <3>6, <4>1 DEF LinesGoOn
      <4>3. owner'["out"] = t /\ ~OwnerAt("out", "held")' /\ left'[t] = left[t]
        BY <2>4, <4>1 DEF OwnerAt
      <4> QED BY <3>2, <4>2, <4>3 DEF LinesGoOn
    <3>7. CASE Dispatch(t) /\ place[t] # "P" /\ UNCHANGED <<owner, units, place>>
      <4>1. UNCHANGED <<left, screen>>
        BY <3>7 DEF Dispatch, historyVars
      <4> QED BY <1>0, <3>7, <4>1 DEF LinesGoOn, LastLine, OwnerAt
    <3>8. CASE WaitForChar(t) \/ GetChar(t)
      <4>1. Dev(t) = "in"
        BY <1>0, <3>8 DEF WaitForChar, GetChar, Running, LocksAreOwned
      <4> QED BY <3>1, <4>1
    <3> QED BY <3>1, <3>3, <3>4, <3>5, <3>6, <3>7, <3>8
  <2> QED BY <2>2, <2>3, <2>4
<1>2. CASE ClockStep \/ Type \/ DevStopped
  BY <1>0, <1>2, ClockLeavesThreads DEF LinesGoOn, LastLine, OwnerAt
<1> QED BY <1>1, <1>2 DEF DevNext

\* What GetChar does: it appends the character of the buffer.
LEMMA ReadByFacts ==
  ASSUME DevInv, NEW t \in Threads, GetChar(t)
  PROVE  /\ owner["in"] = t /\ owner'["in"] = t /\ program' = program
         /\ incoming \in Range(Input) /\ incoming' = EOF /\ keyboard' = keyboard /\ toType' = toType
         /\ Len(readBy) \in Nat /\ DOMAIN readBy = 1 .. Len(readBy)
         /\ Len(readBy') = Len(readBy) + 1 /\ DOMAIN readBy' = 1 .. Len(readBy) + 1
         /\ \A i \in 1 .. Len(readBy) : readBy'[i] = readBy[i]
         /\ readBy'[Len(readBy) + 1].char = incoming
         /\ readBy'[Len(readBy) + 1].thread = t
         /\ readBy'[Len(readBy) + 1].call = Len(program[t])
         /\ Len(program[t]) \in Nat \ {0}
<1> DEFINE c == [char |-> incoming, thread |-> t, call |-> Len(program[t])]
           S == [char : Range(Input), thread : Threads, call : Nat]
<1>0. DevTypes /\ LocksAreOwned /\ BufferIsAnnounced
  BY DEF DevInv
<1>1. place[t] = "read" /\ readBy' = Append(readBy, c) /\ UNCHANGED <<owner, program>> /\ incoming' = EOF
      /\ UNCHANGED <<keyboard, toType>>
  BY DEF GetChar, Running, syncVars
<1>2. program[t] # << >> /\ Dev(t) = "in" /\ OwnerAt("in", "read") /\ owner["in"] = t
  <2>1. Dev(t) = "in" /\ place[t] \in Holding
    BY <1>0, <1>1 DEF LocksAreOwned, Holding
  <2> QED BY <1>0, <1>1, <2>1, HolderFacts
<1>3. incoming \in Range(Input) /\ Len(program[t]) \in Nat \ {0}
  BY <1>0, <1>2, CallFacts DEF BufferIsAnnounced, DevTypes, DevTypeOK
<1>4. c \in S /\ c.char = incoming /\ c.thread = t /\ c.call = Len(program[t]) /\ readBy \in Seq(S)
  BY <1>0, <1>3 DEF DevTypes
<1> HIDE DEF c, S
<1>5. /\ Append(readBy, c) \in Seq(S) /\ Len(Append(readBy, c)) = Len(readBy) + 1
      /\ \A i \in 1 .. Len(readBy) : Append(readBy, c)[i] = readBy[i]
      /\ Append(readBy, c)[Len(readBy) + 1] = c
  BY <1>4, AppendProperties
<1>6. Len(readBy) \in Nat /\ DOMAIN readBy = 1 .. Len(readBy) /\ DOMAIN Append(readBy, c) = 1 .. Len(Append(readBy, c))
  BY <1>4, <1>5, LenProperties
<1>7. /\ Len(readBy') = Len(readBy) + 1 /\ DOMAIN readBy' = 1 .. Len(readBy) + 1
      /\ \A i \in DOMAIN readBy : readBy'[i] = readBy[i]
      /\ readBy'[Len(readBy) + 1] = c
  BY <1>1, <1>5, <1>6
<1>8. owner'["in"] = t /\ program' = program /\ keyboard' = keyboard /\ toType' = toType /\ incoming' = EOF
  BY <1>1, <1>2
<1> QED BY <1>2, <1>3, <1>4, <1>6, <1>7, <1>8
\* What was read has its reader and its call.
LEMMA ReaderFacts ==
  ASSUME DevTypes
  PROVE  /\ Len(readBy) \in Nat /\ DOMAIN readBy = 1 .. Len(readBy)
         /\ \A i \in DOMAIN readBy : readBy[i].thread \in Threads /\ readBy[i].call \in Nat
                                     /\ readBy[i].char \in Range(Input)
         /\ \A s \in Threads : Len(program[s]) \in Nat
<1> DEFINE S == [char : Range(Input), thread : Threads, call : Nat]
<1>1. readBy \in Seq(S)
  BY DEF DevTypes
<1>2. Len(readBy) \in Nat /\ DOMAIN readBy = 1 .. Len(readBy) /\ \A i \in 1 .. Len(readBy) : readBy[i] \in S
  BY <1>1, LenProperties, ElementOfSeq
<1>3. \A s \in Threads : program[s] \in Seq(Calls)
  BY DEF DevTypes
<1>4. \A s \in Threads : Len(program[s]) \in Nat
  BY <1>3, LenProperties
<1> QED BY <1>2, <1>4

\* Every step leaves what was read by a call that goes on to the owner of
\* inputMutex.
LEMMA ReadersKept ==
  ASSUME DevInv, DevNext
  PROVE  ReadersTakeTurns'
<1>0. DevTypes /\ LocksAreOwned /\ ReadersTakeTurns
  BY DEF DevInv
<1>a. /\ owner \in [Devs -> Threads \cup {NoThread}] /\ "in" \in Devs
      /\ Len(readBy) \in Nat /\ DOMAIN readBy = 1 .. Len(readBy)
      /\ \A i \in DOMAIN readBy : readBy[i].thread \in Threads /\ readBy[i].call \in Nat
      /\ \A s \in Threads : Len(program[s]) \in Nat
  BY <1>0, ReaderFacts DEF DevTypes, DevTypeOK, Devs
<1>b. ASSUME UNCHANGED <<readBy, program>>, owner["in"] # NoThread => owner'["in"] = owner["in"]
      PROVE  ReadersTakeTurns'
  <2> SUFFICES ASSUME NEW i \in DOMAIN readBy  PROVE TurnOf(i)'
    BY <1>b DEF ReadersTakeTurns
  <2>1. TurnOf(i) /\ readBy[i].thread # NoThread
    BY <1>0, <1>a, DevicesAssumption DEF ReadersTakeTurns
  <2> QED BY <1>b, <2>1 DEF TurnOf, Open, SameCall
<1>1. ASSUME NEW t \in Threads, ThreadStep(t) \/ Dispatch(t), ~ReleaseDev(t), ~GetChar(t)
      PROVE  ReadersTakeTurns'
  <2>1. UNCHANGED <<readBy, program>>
    BY <1>1, HistoryOfThreads
  <2>2. owner["in"] # NoThread => owner'["in"] = owner["in"]
    <3>1. CASE owner["in"] # t /\ owner'["in"] # t
      BY <1>0, <1>1, <1>a, <3>1, OtherDevices
    <3>2. CASE owner["in"] # t /\ owner'["in"] = t
      BY <1>0, <1>1, <1>a, <3>2, LockArrives
    <3>3. CASE owner["in"] = t
      <4>1. \/ Request(t) \/ Served(t) \/ WaitForChar(t)
            \/ Dispatch(t) /\ place[t] = "P"
            \/ Dispatch(t) /\ place[t] # "P" /\ UNCHANGED <<owner, units, place>>
        BY <1>0, <1>1, <1>a, <3>3, OwnerSteps
      <4> QED BY <4>1 DEF Request, Served, WaitForChar, Dispatch, syncVars
    <3> QED BY <3>1, <3>2, <3>3
  <2> QED BY <1>b, <2>1, <2>2
<1>2. ASSUME NEW t \in Threads, GetChar(t)  PROVE ReadersTakeTurns'
  <2> DEFINE n == Len(readBy)
             k == Len(program[t])
  <2>1. /\ owner'["in"] = t /\ owner["in"] = t /\ UNCHANGED program
        /\ Len(readBy') = n + 1 /\ DOMAIN readBy' = 1 .. n + 1
        /\ \A i \in 1 .. n : readBy'[i] = readBy[i]
        /\ readBy'[n + 1].thread = t /\ readBy'[n + 1].call = k /\ k > 0
    BY <1>a, <1>2, ReadByFacts
  <2>2. n \in Nat /\ k \in Nat
    BY <1>a
  <2> HIDE DEF n, k
  <2>3. ASSUME NEW i \in 1 .. n + 1
        PROVE  /\ readBy'[i].call > 0
               /\ readBy'[i].call >= Len(program'[readBy'[i].thread])
               /\ readBy'[i].call = Len(program'[readBy'[i].thread]) =>
                    readBy'[i].thread = t /\ readBy'[i].call = k
    <3>1. CASE i = n + 1
      <4>1. readBy'[i].thread = t /\ readBy'[i].call = k /\ k > 0
        BY <2>1, <3>1
      <4>2. Len(program'[t]) = k
        BY <2>1 DEF k
      <4> QED BY <2>2, <4>1, <4>2
    <3>2. CASE i # n + 1
      <4>1. i \in 1 .. n /\ i \in DOMAIN readBy
        BY <1>a, <2>2, <3>2 DEF n
      <4>2. TurnOf(i) /\ readBy'[i] = readBy[i] /\ program' = program
        BY <1>0, <2>1, <4>1 DEF ReadersTakeTurns
      <4> QED BY <2>1, <4>2 DEF TurnOf, Open, k
    <3> QED BY <3>1, <3>2
  <2> SUFFICES ASSUME NEW i \in 1 .. n + 1  PROVE TurnOf(i)'
    BY <2>1 DEF ReadersTakeTurns
  <2> QED BY <2>1, <2>3 DEF TurnOf, Open, SameCall
<1>3. ASSUME NEW t \in Threads, ReleaseDev(t)  PROVE ReadersTakeTurns'
  <2>1. /\ UNCHANGED readBy /\ place[t] \in Holding
        /\ program' = [program EXCEPT ![t] = Tail(@)] /\ owner' = [owner EXCEPT ![Dev(t)] = NoThread]
    BY <1>3 DEF ReleaseDev, Running, Holding, historyVars
  <2>2. /\ program[t] # << >> /\ Dev(t) \in Devs /\ owner[Dev(t)] = t
        /\ Len(Tail(program[t])) = Len(program[t]) - 1
    BY <1>0, <2>1, HolderFacts, CallFacts
  <2>3. program'[t] = Tail(program[t]) /\ \A s \in Threads \ {t} : program'[s] = program[s]
    BY <1>0, <2>1 DEF DevTypes
  <2>4. ASSUME NEW i \in DOMAIN readBy
        PROVE  /\ readBy[i].call > 0
               /\ readBy[i].call >= Len(program'[readBy[i].thread])
               /\ readBy[i].call = Len(program'[readBy[i].thread]) =>
                    owner'["in"] = readBy[i].thread /\ SameCall(readBy[Len(readBy)], readBy[i])
    <3>1. TurnOf(i) /\ readBy[i].thread \in Threads /\ readBy[i].call \in Nat
      BY <1>0, <1>a DEF ReadersTakeTurns
    <3>2. CASE readBy[i].thread = t
      <4>1. Len(program'[t]) = Len(program[t]) - 1 /\ Len(program[t]) \in Nat
        BY <1>a, <2>2, <2>3
      <4>2. readBy[i].call > 0 /\ readBy[i].call >= Len(program[t])
        BY <3>1, <3>2 DEF TurnOf
      <4> QED BY <3>1, <3>2, <4>1, <4>2
    <3>3. CASE readBy[i].thread # t
      <4>1. program'[readBy[i].thread] = program[readBy[i].thread]
        BY <2>3, <3>1, <3>3
      <4>2. owner["in"] # t => owner'["in"] = owner["in"]
        BY <1>a, <2>1, <2>2
      <4> QED BY <3>1, <3>3, <4>1, <4>2 DEF TurnOf, Open
    <3> QED BY <3>2, <3>3
  <2> SUFFICES ASSUME NEW i \in DOMAIN readBy  PROVE TurnOf(i)'
    BY <2>1 DEF ReadersTakeTurns
  <2> QED BY <2>1, <2>4 DEF TurnOf, Open, SameCall
<1>4. CASE ClockStep \/ Type \/ DevStopped
  BY <1>4, <1>b, ClockLeavesThreads
<1> QED BY <1>1, <1>2, <1>3, <1>4 DEF DevNext, ThreadStep
----------------------------------------------------------------------------
(***************************************************************************)
(* Lines and input stay whole.                                             *)
(***************************************************************************)
\* A character put out goes on with the line on the screen, or starts one.
LEMMA ScreenKept ==
  ASSUME DevInv, DevNext
  PROVE  ScreenHasLines'
<1> DEFINE S == [thread : Threads, rest : Nat]
<1>0. DevTypes /\ LocksAreOwned /\ LinesGoOn /\ ScreenHasLines /\ screen \in Seq(S)
  BY DEF DevInv, LinesAreWhole, DevTypes
<1>1. CASE UNCHANGED screen
  BY <1>0, <1>1 DEF ScreenHasLines
<1>2. ASSUME NEW t \in Threads, Request(t), Dev(t) = "out"  PROVE ScreenHasLines'
  <2> DEFINE c == [thread |-> t, rest |-> left[t] - 1]
             n == Len(screen)
  <2>1. screen' = Append(screen, c) /\ place[t] = "held" /\ left[t] > 0
    BY <1>2 DEF Request, Running
  <2>2. OwnerAt("out", "held") /\ owner["out"] = t /\ left[t] \in Nat
    BY <1>0, <1>2, <2>1, HolderFacts DEF Holding
  <2>3. LastLine.rest = 0 \/ LastLine = [thread |-> t, rest |-> left[t]]
    BY <1>0, <2>2 DEF LinesGoOn
  <2>4. c \in S
    BY <2>1, <2>2
  <2>5. /\ Len(screen') = n + 1 /\ screen'[n + 1] = c
        /\ \A i \in 1 .. n : screen'[i] = screen[i] /\ screen[i] \in S
        /\ n \in Nat
    <3> HIDE DEF c, S
    <3>1. /\ Append(screen, c) \in Seq(S) /\ Len(Append(screen, c)) = n + 1
          /\ \A i \in 1 .. n : Append(screen, c)[i] = screen[i]
          /\ Append(screen, c)[n + 1] = c
      BY <1>0, <2>4, AppendProperties
    <3>2. n \in Nat /\ \A i \in 1 .. n : screen[i] \in S
      BY <1>0, LenProperties, ElementOfSeq
    <3> QED BY <2>1, <3>1, <3>2
  <2> SUFFICES ASSUME NEW i \in 1 .. n, screen'[i].rest > 0
               PROVE  screen'[i + 1] = [screen'[i] EXCEPT !.rest = @ - 1]
    BY <2>5 DEF ScreenHasLines
  <2>6. CASE i # n
    <3>1. i \in 1 .. n - 1 /\ i + 1 \in 1 .. n
      BY <2>5, <2>6
    <3> QED BY <1>0, <2>5, <3>1 DEF ScreenHasLines
  <2>7. CASE i = n
    <3>1. screen # << >>
      BY <2>5, <2>7
    <3>2. LastLine = screen[i] /\ screen'[i] = screen[i]
      BY <2>5, <2>7, <3>1 DEF LastLine
    <3>3. screen'[i] = [thread |-> t, rest |-> left[t]]
      BY <2>3, <3>2
    <3> QED BY <2>5, <2>7, <3>3
  <2> QED BY <2>6, <2>7
<1>3. CASE ClockStep \/ Type \/ DevStopped
  BY <1>1, <1>3, ClockLeavesThreads
<1> QED BY <1>1, <1>2, <1>3, HistoryOfThreads DEF DevNext

\* Once a call has read a character, nobody else reads before it returns.
LEMMA ReadsKept ==
  ASSUME DevInv, DevNext
  PROVE  LinesHaveOneReader'
<1>0. DevTypes /\ ReadersTakeTurns /\ LinesHaveOneReader
  BY DEF DevInv, LinesAreWhole
<1>1. CASE UNCHANGED readBy
  BY <1>0, <1>1 DEF LinesHaveOneReader
<1>2. ASSUME NEW t \in Threads, GetChar(t)  PROVE LinesHaveOneReader'
  <2> DEFINE n == Len(readBy)
             k == Len(program[t])
  <2>1. /\ n \in Nat /\ DOMAIN readBy = 1 .. n /\ Len(readBy') = n + 1
        /\ \A i \in 1 .. n : readBy'[i] = readBy[i]
        /\ readBy'[n + 1].thread = t /\ readBy'[n + 1].call = k
    BY <1>2, ReadByFacts
  <2> HIDE DEF n, k
  <2>2. \A i, j \in 1 .. n : i < j /\ SameCall(readBy[j], readBy[i]) => SameCall(readBy[i + 1], readBy[i])
    <3> SUFFICES ASSUME NEW i \in 1 .. n, NEW j \in 1 .. n, i < j, SameCall(readBy[j], readBy[i])
                 PROVE  SameCall(readBy[i + 1], readBy[i])
      OBVIOUS
    <3>1. i \in 1 .. Len(readBy) - 1 /\ j \in i + 1 .. Len(readBy)
      BY <2>1 DEF n
    <3> QED BY <1>0, <3>1 DEF LinesHaveOneReader, SameCall
  <2>3. ASSUME NEW i \in 1 .. n, SameCall(readBy'[n + 1], readBy[i]), i # n
        PROVE  SameCall(readBy[i + 1], readBy[i])
    <3>1. TurnOf(i) /\ Open(readBy[i])
      BY <1>0, <2>1, <2>3 DEF ReadersTakeTurns, SameCall, Open, k
    <3>2. SameCall(readBy[n], readBy[i])
      BY <3>1 DEF TurnOf, n
    <3>3. i < n /\ n \in 1 .. n
      BY <2>1, <2>3
    <3> QED BY <2>2, <3>2, <3>3
  <2>4. ASSUME NEW i \in 1 .. n, NEW j \in i + 1 .. n + 1, SameCall(readBy'[j], readBy'[i])
        PROVE  SameCall(readBy'[i + 1], readBy'[i])
    <3>1. CASE j = i + 1
      BY <2>4, <3>1
    <3>2. CASE j # i + 1
      <4>1. i # n /\ i + 1 \in 1 .. n /\ readBy'[i + 1] = readBy[i + 1] /\ readBy'[i] = readBy[i] /\ i < j
        BY <2>1, <3>2
      <4>2. CASE j = n + 1
        BY <2>3, <2>4, <4>1, <4>2
      <4>3. CASE j # n + 1
        <5>1. j \in 1 .. n /\ readBy'[j] = readBy[j]
          BY <2>1, <4>1, <4>3
        <5> QED BY <2>2, <2>4, <4>1, <5>1
      <4> QED BY <4>2, <4>3
    <3> QED BY <3>1, <3>2
  <2>5. Len(readBy') - 1 = n
    BY <2>1
  <2> QED BY <2>1, <2>4, <2>5 DEF LinesHaveOneReader, SameCall
<1>3. CASE ClockStep \/ Type \/ DevStopped
  BY <1>1, <1>3, ClockLeavesThreads
<1> QED BY <1>1, <1>2, <1>3, HistoryOfThreads DEF DevNext
\* A sequence is its head and its tail.
LEMMA HeadAndTail ==
  ASSUME NEW S, NEW q \in Seq(S), q # << >>
  PROVE  /\ Head(q) \in S /\ Tail(q) \in Seq(S) /\ <<Head(q)>> \in Seq(S)
         /\ <<Head(q)>> \o Tail(q) = q
<1> DEFINE a == <<Head(q)>>
           r == Tail(q)
<1>1. /\ Head(q) \in S /\ r \in Seq(S) /\ Len(r) = Len(q) - 1
      /\ \A i \in 1 .. Len(r) : r[i] = q[i + 1]
  BY HeadTailProperties
<1>2. Head(q) = q[1] /\ Len(q) \in Nat \ {0}
  BY EmptySeq
<1>3. a \in Seq(S) /\ Len(a) = 1 /\ a[1] = q[1]
  BY <1>1, <1>2
<1> HIDE DEF a, r
<1>a. a \in Seq(S) /\ r \in Seq(S)
  BY <1>1, <1>3
<1>4. /\ a \o r \in Seq(S) /\ Len(a \o r) = Len(a) + Len(r)
      /\ \A i \in 1 .. Len(a) + Len(r) : (a \o r)[i] = IF i <= Len(a) THEN a[i] ELSE r[i - Len(a)]
  BY <1>a, ConcatProperties
<1>5. Len(a) + Len(r) = Len(q)
  BY <1>1, <1>2, <1>3
<1>6. ASSUME NEW i \in 1 .. Len(q)  PROVE (a \o r)[i] = q[i]
  <2>1. (a \o r)[i] = IF i <= Len(a) THEN a[i] ELSE r[i - Len(a)]
    BY <1>4, <1>5
  <2>2. CASE i = 1
    BY <1>3, <2>1, <2>2
  <2>3. CASE i # 1
    <3>1. i - 1 \in 1 .. Len(r) /\ (i - 1) + 1 = i /\ ~(i <= 1)
      BY <1>1, <1>2, <2>3
    <3>2. r[i - 1] = q[(i - 1) + 1]
      BY <1>1, <3>1
    <3> QED BY <1>3, <2>1, <3>1, <3>2
  <2> QED BY <2>2, <2>3
<1>7. a \o r = q
  BY <1>4, <1>5, <1>6, SeqEqual
<1> QED BY <1>1, <1>3, <1>7 DEF a, r

\* What was read, and what the buffer holds.
Fetched == [i \in DOMAIN readBy |-> readBy[i].char]
Buffer == IF incoming = EOF THEN << >> ELSE <<incoming>>

\* They are characters of the input.
LEMMA StreamTypes ==
  ASSUME DevTypes
  PROVE  /\ Fetched \in Seq(Range(Input)) /\ Len(Fetched) = Len(readBy)
         /\ Buffer \in Seq(Range(Input))
         /\ keyboard \in Seq(Range(Input)) /\ toType \in Seq(Range(Input))
<1>1. /\ Len(readBy) \in Nat /\ DOMAIN readBy = 1 .. Len(readBy)
      /\ \A i \in DOMAIN readBy : readBy[i].char \in Range(Input)
  BY ReaderFacts
<1>2. Fetched \in [1 .. Len(readBy) -> Range(Input)]
  BY <1>1 DEF Fetched
<1>3. Fetched \in Seq(Range(Input)) /\ Len(Fetched) = Len(readBy)
  BY <1>1, <1>2
<1>4. incoming = EOF \/ incoming \in Range(Input)
  BY DEF DevTypes, DevTypeOK
<1>5. Buffer \in Seq(Range(Input))
  <2>1. incoming \in Range(Input) => <<incoming>> \in Seq(Range(Input))
    OBVIOUS
  <2>2. << >> \in Seq(Range(Input))
    BY EmptySeq
  <2> QED BY <1>4, <2>1, <2>2 DEF Buffer
<1> QED BY <1>3, <1>5 DEF DevTypes

\* What is typed, buffered and read remains the input.
LEMMA InputKept ==
  ASSUME DevInv, DevNext, DevTypes'
  PROVE  InputInOrder'
<1> DEFINE R == Range(Input)
<1>0. DevTypes /\ LocksAreOwned /\ Fetched \o Buffer \o keyboard \o toType = Input
  BY DEF DevInv, LinesAreWhole, InputInOrder, Fetched, Buffer
<1>1. /\ Fetched \in Seq(R) /\ Buffer \in Seq(R) /\ keyboard \in Seq(R) /\ toType \in Seq(R)
      /\ Len(Fetched) = Len(readBy)
  BY <1>0, StreamTypes
<1> HIDE DEF R
<1>a. \A a, b, c \in Seq(R) : a \o (b \o c) = (a \o b) \o c
  BY ConcatAssociative
<1>2. SUFFICES Fetched' \o Buffer' \o keyboard' \o toType' = Input
  BY DEF InputInOrder, Fetched, Buffer
<1>3. CASE UNCHANGED <<readBy, incoming, keyboard, toType>>
  BY <1>0, <1>3 DEF Fetched, Buffer
<1>4. ASSUME NEW t \in Threads, GetChar(t)  PROVE Fetched' \o Buffer' \o keyboard' \o toType' = Input
  <2>1. /\ incoming \in Range(Input) /\ incoming' = EOF /\ keyboard' = keyboard /\ toType' = toType
        /\ Len(readBy) \in Nat /\ DOMAIN readBy = 1 .. Len(readBy)
        /\ Len(readBy') = Len(readBy) + 1 /\ DOMAIN readBy' = 1 .. Len(readBy) + 1
        /\ \A i \in 1 .. Len(readBy) : readBy'[i] = readBy[i]
        /\ readBy'[Len(readBy) + 1].char = incoming
    BY <1>4, ReadByFacts
  <2>2. Buffer = <<incoming>> /\ Buffer' = << >>
    BY <2>1, DevicesAssumption DEF Buffer
  <2>3. Fetched' = Fetched \o Buffer
    <3> DEFINE n == Len(readBy)
               f == Fetched'
    <3>a. \A i \in 1 .. n + 1 : readBy'[i].char \in R
      <4>1. \A i \in 1 .. n : readBy[i].char \in R
        BY <1>0, ReaderFacts DEF R
      <4>2. readBy'[n + 1].char \in R /\ n \in Nat
        BY <2>1 DEF R
      <4>3. \A i \in 1 .. n : readBy'[i] = readBy[i]
        BY <2>1
      <4> HIDE DEF n
      <4>4. \A i \in 1 .. n + 1 : i \in 1 .. n \/ i = n + 1
        BY <4>2
      <4> QED BY <4>1, <4>2, <4>3, <4>4
    <3>b. f = [i \in 1 .. n + 1 |-> readBy'[i].char]
      BY <2>1 DEF Fetched
    <3>1. f \in Seq(R) /\ Len(f) = n + 1
      <4>1. f \in [1 .. n + 1 -> R] /\ n + 1 \in Nat
        BY <2>1, <3>a, <3>b
      <4> HIDE DEF f, n
      <4> QED BY <4>1
    <3>2. \A i \in 1 .. n : f[i] = Fetched[i]
      BY <2>1 DEF Fetched
    <3>3. f[n + 1] = incoming
      BY <2>1 DEF Fetched
    <3>4. Buffer[1] = incoming /\ Len(Buffer) = 1
      BY <2>2
    <3>5. n \in Nat
      BY <2>1
    <3> HIDE DEF n, f
    <3> DEFINE g == Fetched \o Buffer
    <3>6. Len(Fetched) = n
      BY <1>1 DEF n
    <3>c. Fetched \in Seq(R) /\ Buffer \in Seq(R)
      BY <1>1
    <3>d. /\ g \in Seq(R) /\ Len(g) = Len(Fetched) + Len(Buffer)
          /\ \A i \in 1 .. Len(Fetched) + Len(Buffer) :
               g[i] = IF i <= Len(Fetched) THEN Fetched[i] ELSE Buffer[i - Len(Fetched)]
      BY <3>c, ConcatProperties
    <3>7. /\ g \in Seq(R) /\ Len(g) = n + 1
          /\ \A i \in 1 .. n + 1 : g[i] = IF i <= n THEN Fetched[i] ELSE Buffer[i - n]
      BY <3>4, <3>6, <3>d
    <3> HIDE DEF g
    <3>8. ASSUME NEW i \in 1 .. n + 1  PROVE f[i] = g[i]
      <4>1. CASE i = n + 1
        <5>1. ~(i <= n) /\ i - n = 1
          BY <3>5, <4>1
        <5> QED BY <3>3, <3>4, <3>7, <4>1, <5>1
      <4>2. CASE i # n + 1
        <5>1. i \in 1 .. n /\ i <= n
          BY <3>5, <4>2
        <5> QED BY <3>2, <3>7, <5>1
      <4> QED BY <4>1, <4>2
    <3>9. f = g
      BY <3>1, <3>7, <3>8, SeqEqual
    <3> QED BY <3>9 DEF f, g
  <2>4. Fetched' \o Buffer' = Fetched \o Buffer
    BY <1>1, <2>2, <2>3, ConcatProperties, ConcatEmptySeq
  <2> QED BY <1>0, <2>1, <2>4
<1>5. CASE CheckCharAvail
  <2>1. UNCHANGED <<readBy, toType>>
    BY <1>5 DEF CheckCharAvail, historyVars
  <2>2. CASE incoming = EOF /\ keyboard # << >>
    <3> DEFINE h == Head(keyboard)
               one == <<h>>
               r == Tail(keyboard)
    <3>1. h \in R /\ r \in Seq(R) /\ one \in Seq(R) /\ one \o r = keyboard
      BY <1>1, <2>2, HeadAndTail
    <3>2. Buffer = << >> /\ incoming' = h /\ keyboard' = r
      BY <1>5, <2>2 DEF CheckCharAvail, Buffer
    <3>3. h # EOF
      BY <3>1, DevicesAssumption DEF R
    <3>4. Buffer' = one
      BY <3>2, <3>3 DEF Buffer
    <3> HIDE DEF h, one, r
    <3>5. Fetched \o Buffer = Fetched
      BY <1>1, <3>2, ConcatEmptySeq
    <3>6. Fetched \o (one \o r) = (Fetched \o one) \o r
      <4>1. Fetched \in Seq(R) /\ one \in Seq(R) /\ r \in Seq(R)
        BY <1>1, <3>1
      <4> QED BY <1>a, <4>1
    <3>7. Fetched' = Fetched
      BY <2>1 DEF Fetched
    <3> QED BY <1>0, <2>1, <3>1, <3>2, <3>4, <3>5, <3>6, <3>7
  <2>3. CASE ~(incoming = EOF /\ keyboard # << >>)
    BY <1>3, <1>5, <2>1, <2>3 DEF CheckCharAvail
  <2> QED BY <2>2, <2>3
<1>6. CASE Type
  <2> DEFINE h == Head(toType)
             one == <<h>>
             r == Tail(toType)
             a == Fetched \o Buffer
  <2>1. h \in R /\ r \in Seq(R) /\ one \in Seq(R) /\ one \o r = toType
    BY <1>1, <1>6, HeadAndTail DEF Type
  <2>2. keyboard' = Append(keyboard, h) /\ toType' = r /\ Fetched' = Fetched /\ Buffer' = Buffer
    BY <1>6 DEF Type, Fetched, Buffer, historyVars
  <2>3. a \in Seq(R)
    BY <1>1, ConcatProperties
  <2>4. keyboard' = keyboard \o one
    BY <1>1, <2>1, <2>2, AppendIsConcat
  <2> HIDE DEF h, one, r, a
  <2>5. a \o (keyboard \o one) = (a \o keyboard) \o one
    <3>1. keyboard \in Seq(R) /\ one \in Seq(R)
      BY <1>1, <2>1
    <3> QED BY <1>a, <2>3, <3>1
  <2>6. a \o keyboard \in Seq(R)
    BY <1>1, <2>3, ConcatProperties
  <2>7. ((a \o keyboard) \o one) \o r = (a \o keyboard) \o (one \o r)
    <3>1. one \in Seq(R) /\ r \in Seq(R)
      BY <2>1
    <3> QED BY <1>a, <2>6, <3>1
  <2>8. (a \o keyboard) \o toType = Input /\ Fetched' \o Buffer' = a
    BY <1>0, <2>2 DEF a
  <2> QED BY <2>1, <2>2, <2>4, <2>5, <2>7, <2>8
<1>7. ASSUME NEW t \in Threads, ThreadStep(t) \/ Dispatch(t), ~GetChar(t)
      PROVE  UNCHANGED <<readBy, incoming, keyboard, toType>>
  BY <1>7 DEF ThreadStep, AcquireDev, Request, Served, WaitForChar, ReleaseDev, FinishDev, Dispatch, consoleVars, historyVars
<1>8. CASE (ClockStep /\ ~CheckCharAvail) \/ DevStopped
  BY <1>3, <1>8 DEF ClockStep, OneTick, TimerExpired, DiskDone, ConsoleWriteDone, RequestDone, EndTick, Idle,
                    EndIdle, Halt, DevStopped, devVars, consoleVars, historyVars
<1> QED BY <1>3, <1>4, <1>5, <1>6, <1>7, <1>8 DEF DevNext, ThreadStep
----------------------------------------------------------------------------
(***************************************************************************)
(* The clock.                                                              *)
(***************************************************************************)
\* What is not before a time is not before an earlier one.
LEMMA NotBeforeWeaker ==
  ASSUME NEW list \in Seq(Ints), NEW n \in Int, NEW m \in Int, m <= n, NotBefore(list, n)
  PROVE  NotBefore(list, m)
<1>1. \A i \in DOMAIN list : list[i].due \in Int
  BY ListFacts
<1> QED BY <1>1 DEF NotBefore

\* When the first interrupt of a sorted list comes at some time, none comes
\* before.
LEMMA FirstIsFirst ==
  ASSUME NEW list \in Seq(Ints), Sorted(list), NEW n \in Int, list # << >> => Head(list).due >= n
  PROVE  NotBefore(list, n)
<1> SUFFICES ASSUME NEW i \in DOMAIN list  PROVE list[i].due >= n
  BY DEF NotBefore
<1>1. /\ \A j \in DOMAIN list : list[j].due \in Int
      /\ DOMAIN list = 1 .. Len(list) /\ Len(list) \in Nat
  BY ListFacts
<1>2. list # << >>
  BY <1>1
<1>3. 1 \in DOMAIN list /\ Head(list) = list[1]
  BY <1>2, ListFacts
<1>4. i = 1 \/ 1 < i
  BY <1>1
<1>5. list[1].due <= list[i].due
  BY <1>1, <1>3, <1>4 DEF Sorted
<1> QED BY <1>1, <1>2, <1>3, <1>5

\* A step of a thread schedules its request in order and not for now.
LEMMA ThreadsInTime ==
  ASSUME DevTypes, LocksAreOwned, InTime, NEW t \in Threads, ThreadStep(t) \/ Dispatch(t)
  PROVE  InTime'
<1>0. pending \in Seq(Ints) /\ Sorted(pending) /\ NotBefore(pending, Early)
  BY DEF DevTypes, InTime
<1>1. /\ mode \in {"run", "dispatch"} /\ mode' \in {"run", "tick", "dispatch"}
      /\ mode' = "run" => mode = "run" /\ ~Request(t)
  BY DEF ThreadStep, AcquireDev, Request, Served, WaitForChar, GetChar, ReleaseDev, FinishDev, Dispatch, Running,
         PDev, clockVars
<1>2. Early = 1 /\ Early' = 1
  BY <1>1 DEF Early
<1>3. CASE ~Request(t)
  <2>1. UNCHANGED pending
    BY <1>3 DEF ThreadStep, AcquireDev, Served, WaitForChar, GetChar, ReleaseDev, FinishDev, Dispatch, clockVars
  <2>2. Sorted(pending)' /\ NotBefore(pending, Early)'
    BY <1>0, <1>2, <2>1 DEF Sorted, NotBefore
  <2>3. mode' = "run" => ~Due'
    BY <1>1, <2>1 DEF InTime, Due
  <2> QED BY <2>2, <2>3 DEF InTime
<1>4. CASE Request(t)
  <2>1. Dev(t) \in Requested
    BY <1>4 DEF Request, Requested
  <2>2. PICK time \in Nat \ {0} : pending' = Schedule(pending, IntOf(Dev(t)), time)
    BY <1>4, <2>1, RequestTypes
  <2> DEFINE type == IntOf(Dev(t))
             new == Schedule(pending, type, time)
  <2>3. type \in Types /\ time \in Int /\ time >= 1 /\ NotBefore(pending, 1)
    BY <1>0, <1>2, <2>1, TimesAndTypes
  <2>5. pending' = new
    BY <2>2
  <2> HIDE DEF type
  <2>4. Sorted(new) /\ NotBefore(new, 1)
    <3>1. Sorted(new)
      BY <1>0, <2>3, ScheduleKeeps
    <3>2. \A n \in Int : NotBefore(pending, n) /\ time >= n => NotBefore(new, n)
      BY <1>0, <2>3, ScheduleKeeps
    <3> QED BY <2>3, <3>1, <3>2
  <2> HIDE DEF new
  <2>6. Sorted(pending)' /\ NotBefore(pending, Early)'
    BY <1>2, <2>4, <2>5 DEF Sorted, NotBefore
  <2>7. mode' # "run"
    BY <1>1, <1>4
  <2> QED BY <2>6, <2>7 DEF InTime
<1> QED BY <1>3, <1>4

\* The clock handles what is due, and nothing before.
LEMMA ClockInTime ==
  ASSUME DevTypes, InTime, ClockStep \/ Type \/ DevStopped
  PROVE  InTime'
<1>0. pending \in Seq(Ints) /\ Sorted(pending) /\ NotBefore(pending, Early) /\ Early \in {0, 1}
  BY DEF DevTypes, InTime, Early
<1>a. ASSUME NEW list \in Seq(Ints), pending' = list, Sorted(list), NotBefore(list, Early'), mode' # "run"
      PROVE  InTime'
  BY <1>a DEF InTime, Sorted, NotBefore
<1>1. CASE OneTick
  <2>1. mode = "tick" /\ mode' = "handlers" /\ pending' = Later(pending, 1)
    BY <1>1 DEF OneTick
  <2>2. Early = 1 /\ Early' = 0
    BY <2>1 DEF Early
  <2> DEFINE new == Later(pending, 1)
  <2>3. new \in Seq(Ints) /\ Sorted(new) /\ NotBefore(new, 1 - 1)
    BY <1>0, <2>2, LaterKeeps
  <2>4. pending' = new
    BY <2>1
  <2> HIDE DEF new
  <2> QED BY <1>a, <2>1, <2>2, <2>3, <2>4
<1>2. CASE Idle
  <2>1. mode = "dispatch" /\ mode' = "idle" /\ pending # << >>
    BY <1>2 DEF Idle, OnlyTimer
  <2>2. Early = 1 /\ Early' = 0
    BY <2>1 DEF Early
  <2>3. CASE Head(pending).due > 0
    <3> DEFINE d == Head(pending).due
               new == Later(pending, d)
    <3>1. d \in Int
      BY <1>0, <2>1, ListFacts DEF Ints
    <3>2. pending' = new
      BY <1>2, <2>3 DEF Idle
    <3>3. NotBefore(pending, d)
      BY <1>0, <3>1, FirstIsFirst
    <3> HIDE DEF d
    <3>4. new \in Seq(Ints) /\ Sorted(new) /\ NotBefore(new, d - d)
      BY <1>0, <3>1, <3>3, LaterKeeps
    <3>5. d - d = 0
      BY <3>1
    <3> HIDE DEF new
    <3> QED BY <1>a, <2>1, <2>2, <3>2, <3>4, <3>5
  <2>4. CASE ~(Head(pending).due > 0)
    <3>1. pending' = pending
      BY <1>2, <2>4 DEF Idle
    <3>2. NotBefore(pending, 0)
      BY <1>0, <2>2, NotBeforeWeaker
    <3> QED BY <1>0, <1>a, <2>1, <2>2, <3>1, <3>2
  <2> QED BY <2>3, <2>4
<1>b. ASSUME Fires  PROVE mode \in {"handlers", "idle"} /\ pending # << >> /\ Early = 0
  BY <1>b DEF Fires, Due, Early
<1>c. ASSUME pending # << >>
      PROVE  Tail(pending) \in Seq(Ints) /\ Sorted(Tail(pending)) /\ NotBefore(Tail(pending), Early)
  BY <1>0, <1>c, TailKeeps
<1>d. ASSUME Fires, UNCHANGED mode, NEW T \in Types, NEW n \in Int, n >= 0, pending' = Schedule(Tail(pending), T, n)
      PROVE  InTime'
  <2> DEFINE rest == Tail(pending)
             new == Schedule(rest, T, n)
  <2>1. rest \in Seq(Ints) /\ Sorted(rest) /\ NotBefore(rest, 0)
    BY <1>b, <1>c, <1>d
  <2>2. pending' = new
    BY <1>d
  <2> HIDE DEF rest
  <2>3. new \in Seq(Ints) /\ Sorted(new) /\ NotBefore(new, 0)
    BY <1>d, <2>1, ScheduleKeeps
  <2>4. Early' = 0 /\ mode' # "run"
    BY <1>b, <1>d DEF Early
  <2> HIDE DEF new
  <2> QED BY <1>a, <2>2, <2>3, <2>4
<1>3. CASE TimerExpired
  <2>1. PICK n \in TimerDelays : pending' = Schedule(Tail(pending), "TimerInt", n)
    BY <1>3 DEF TimerExpired
  <2>2. Fires /\ UNCHANGED mode /\ "TimerInt" \in Types /\ n \in Int /\ n >= 0
    BY <1>3, TimesAndTypes DEF TimerExpired
  <2> QED BY <1>d, <2>1, <2>2
<1>4. CASE CheckCharAvail
  <2>1. /\ Fires /\ UNCHANGED mode /\ "ConsoleReadInt" \in Types /\ ConsoleTime \in Int /\ ConsoleTime >= 0
        /\ pending' = Schedule(Tail(pending), "ConsoleReadInt", ConsoleTime)
    BY <1>4, TimesAndTypes DEF CheckCharAvail
  <2> QED BY <1>d, <2>1
<1>5. CASE DiskDone \/ ConsoleWriteDone
  <2>1. Fires /\ UNCHANGED mode /\ pending' = Tail(pending)
    BY <1>5 DEF DiskDone, ConsoleWriteDone, RequestDone
  <2>2. mode' # "run" /\ Early' = Early
    BY <1>b, <2>1 DEF Early
  <2> QED BY <1>a, <1>b, <1>c, <2>1, <2>2
<1>e. ASSUME ~Due  PROVE NotBefore(pending, 1)
  <2>1. pending # << >> => Head(pending).due \in Int
    BY <1>0, ListFacts DEF Ints
  <2>2. pending # << >> => Head(pending).due >= 1
    BY <1>e, <2>1 DEF Due
  <2> QED BY <1>0, <2>2, FirstIsFirst
<1>6. CASE EndTick
  <2>1. ~Due /\ UNCHANGED pending /\ Early' = 1
    BY <1>6 DEF EndTick, Early
  <2> QED BY <1>0, <1>e, <2>1 DEF InTime, Due, Sorted, NotBefore
<1>7. CASE EndIdle
  <2>1. mode = "idle" /\ mode' = "dispatch" /\ UNCHANGED pending /\ (~Due \/ OnlyTimer) /\ Early' = 1
    BY <1>7 DEF EndIdle, Fires, Early
  <2>2. NotBefore(pending, 1)
    BY <1>e, <2>1 DEF OnlyTimer, NotBefore
  <2> QED BY <1>0, <1>a, <2>1, <2>2
<1>8. CASE Halt
  <2>1. mode = "dispatch" /\ mode' = "halted" /\ UNCHANGED pending /\ Early = 1 /\ Early' = 0
    BY <1>8 DEF Halt, Early
  <2>2. NotBefore(pending, 0)
    BY <1>0, <2>1, NotBeforeWeaker
  <2> QED BY <1>0, <1>a, <2>1, <2>2
<1>9. CASE Type \/ DevStopped
  <2>1. UNCHANGED <<pending, mode>>
    BY <1>9 DEF Type, DevStopped, devVars, clockVars
  <2> QED BY <2>1 DEF InTime, Due, Early, Sorted, NotBefore
<1> QED BY <1>1, <1>2, <1>3, <1>4, <1>5, <1>6, <1>7, <1>8, <1>9 DEF ClockStep
\* The clock stays in time.
LEMMA TimeKept ==
  ASSUME DevInv, DevNext
  PROVE  InTime'
BY ThreadsInTime, ClockInTime DEF DevNext, DevInv, ClockIsRight

\* A console goes on being polled: CheckCharAvail schedules the next poll.
LEMMA PollKept ==
  ASSUME DevInv, DevNext
  PROVE  ConsoleIsPolled'
<1> DEFINE Poll == "ConsoleReadInt"
           OnlyDisk == \A t \in Threads : \A c \in Range(program[t]) : c.dev = "disk"
<1>0. DevTypes /\ LocksAreOwned /\ pending \in Seq(Ints) /\ (Has(pending, Poll) \/ OnlyDisk) /\ Poll \in Types
  BY TimesAndTypes DEF DevInv, DevTypes, ClockIsRight, ConsoleIsPolled
<1>a. ASSUME NEW list, pending' = list, Has(list, Poll)  PROVE ConsoleIsPolled'
  BY <1>a DEF ConsoleIsPolled, Has
<1>1. ASSUME NEW t \in Threads, ReleaseDev(t)  PROVE ConsoleIsPolled'
  <2>1. UNCHANGED pending /\ program' = [program EXCEPT ![t] = Tail(@)] /\ place[t] \in Holding
    BY <1>1 DEF ReleaseDev, Running, Holding
  <2>2. program'[t] = Tail(program[t]) /\ \A s \in Threads \ {t} : program'[s] = program[s]
    BY <1>0, <2>1 DEF DevTypes
  <2>3. Range(Tail(program[t])) \subseteq Range(program[t])
    BY <1>0, <2>1, HolderFacts, CallFacts
  <2>4. \A s \in Threads : Range(program'[s]) \subseteq Range(program[s])
    BY <2>2, <2>3
  <2>5. OnlyDisk => OnlyDisk'
    BY <2>4
  <2> QED BY <1>0, <1>a, <2>1, <2>5 DEF ConsoleIsPolled
<1>b. ~(\E t \in Threads : ReleaseDev(t)) => UNCHANGED program
  BY HistoryOfThreads, ClockLeavesThreads DEF DevNext
<1>c. ASSUME UNCHANGED program, Has(pending, Poll) => \E list : pending' = list /\ Has(list, Poll)
      PROVE  ConsoleIsPolled'
  BY <1>0, <1>a, <1>c DEF ConsoleIsPolled
<1>2. ASSUME NEW t \in Threads, Request(t)  PROVE ConsoleIsPolled'
  <2>1. Dev(t) \in Requested /\ UNCHANGED program
    BY <1>2 DEF Request, Requested
  <2>2. PICK time \in Nat \ {0} : pending' = Schedule(pending, IntOf(Dev(t)), time)
    BY <1>0, <1>2, <2>1, RequestTypes
  <2> DEFINE type == IntOf(Dev(t))
             new == Schedule(pending, type, time)
  <2>3. type \in Types /\ time \in Int /\ pending' = new
    BY <2>1, <2>2, TimesAndTypes
  <2> HIDE DEF type
  <2>4. Has(pending, Poll) => Has(new, Poll)
    BY <1>0, <2>3, ScheduleKeeps
  <2> HIDE DEF new
  <2> QED BY <1>c, <2>1, <2>3, <2>4
<1>3. CASE OneTick \/ Idle
  <2>1. PICK time \in Int : pending' = Later(pending, time)
    BY <1>0, <1>3, TimePasses
  <2>2. UNCHANGED program
    BY <1>3, ClockLeavesThreads DEF ClockStep
  <2> DEFINE new == Later(pending, time)
  <2>3. Has(pending, Poll) => Has(new, Poll)
    BY <1>0, LaterKeeps
  <2>4. pending' = new
    BY <2>1
  <2> HIDE DEF new
  <2> QED BY <1>c, <2>2, <2>3, <2>4
<1>d. Fires => pending # << >>
  BY DEF Fires, Due
<1>4. CASE TimerExpired
  <2>1. PICK n \in TimerDelays : pending' = Schedule(Tail(pending), "TimerInt", n)
    BY <1>4 DEF TimerExpired
  <2>2. Head(pending).type = "TimerInt" /\ pending # << >> /\ UNCHANGED program
    BY <1>4, <1>d DEF TimerExpired, threadVars
  <2>3. "TimerInt" \in Types /\ n \in Int
    BY TimesAndTypes
  <2> DEFINE rest == Tail(pending)
             new == Schedule(rest, "TimerInt", n)
  <2>4. rest \in Seq(Ints) /\ (Has(pending, Poll) => Has(rest, Poll))
    BY <1>0, <2>2, TailKeeps
  <2>5. pending' = new
    BY <2>1
  <2> HIDE DEF rest
  <2>6. Has(rest, Poll) => Has(new, Poll)
    BY <1>0, <2>3, <2>4, ScheduleKeeps
  <2> HIDE DEF new
  <2> QED BY <1>c, <2>2, <2>4, <2>5, <2>6
<1>5. CASE DiskDone \/ ConsoleWriteDone
  <2>1. Head(pending).type # Poll /\ pending # << >> /\ UNCHANGED program /\ pending' = Tail(pending)
    BY <1>5, <1>d DEF DiskDone, ConsoleWriteDone, RequestDone, threadVars
  <2>2. Has(pending, Poll) => Has(Tail(pending), Poll)
    BY <1>0, <2>1, TailKeeps
  <2> QED BY <1>c, <2>1, <2>2
<1>6. CASE CheckCharAvail
  <2>1. pending' = Schedule(Tail(pending), Poll, ConsoleTime) /\ pending # << >> /\ ConsoleTime \in Int
    BY <1>6, <1>d, TimesAndTypes DEF CheckCharAvail
  <2> DEFINE rest == Tail(pending)
             new == Schedule(rest, Poll, ConsoleTime)
  <2>2. rest \in Seq(Ints)
    BY <1>0, <2>1, TailKeeps
  <2>3. pending' = new
    BY <2>1
  <2> HIDE DEF rest
  <2>4. Has(new, Poll)
    BY <1>0, <2>1, <2>2, ScheduleKeeps
  <2> HIDE DEF new
  <2> QED BY <1>a, <2>3, <2>4
<1>7. ASSUME NEW t \in Threads, ThreadStep(t) \/ Dispatch(t), ~ReleaseDev(t), ~Request(t)  PROVE ConsoleIsPolled'
  <2>1. UNCHANGED <<pending, program>>
    BY <1>7 DEF ThreadStep, AcquireDev, Served, WaitForChar, GetChar, FinishDev, Dispatch, clockVars
  <2> QED BY <1>c, <2>1
<1>8. CASE EndTick \/ EndIdle \/ Halt \/ Type \/ DevStopped
  <2>1. UNCHANGED <<pending, program>>
    BY <1>8 DEF EndTick, EndIdle, Halt, Type, DevStopped, devVars, clockVars, threadVars
  <2> QED BY <1>c, <2>1
<1> QED BY <1>1, <1>2, <1>3, <1>4, <1>5, <1>6, <1>7, <1>8 DEF DevNext, ThreadStep, ClockStep

\* A thread that could not run when nothing but the timer is pending has
\* finished: one that waits for a device has its interrupt to come, or the
\* polls of the console, and one that waits for a lock waits for such a thread.
LEMMA NobodyWaitsForTheTimer ==
  ASSUME DevInv, OnlyTimer, \A t \in Threads : ~Runnable(t)
  PROVE  \A t \in Threads : place[t] = "done"
<1>0. DevTypes /\ LocksAreOwned /\ RequestsAreAnswered /\ BufferIsAnnounced /\ ConsoleIsPolled
  BY DEF DevInv, ClockIsRight
<1>a. /\ owner \in [Devs -> Threads \cup {NoThread}] /\ units \in [Devs -> Nat] /\ place \in [Threads -> Places]
      /\ pending \in Seq(Ints)
  BY <1>0 DEF DevTypes, DevTypeOK
<1>1. ASSUME NEW t \in Threads, place[t] = "P"  PROVE FALSE
  <2>1. Dev(t) \in Devs /\ OwnerAt(Dev(t), "P") /\ program[t] # << >> /\ Call(t) \in Range(program[t])
    <3>1. place[t] \in Holding
      BY <1>1 DEF Holding
    <3> QED BY <1>0, <1>1, <3>1, HolderFacts, CallFacts
  <2>2. units[Dev(t)] = 0
    BY <1>1, <1>a, <2>1 DEF Runnable
  <2>3. CASE Dev(t) \in Requested
    <3>1. One(pending, IntOf(Dev(t)))
      BY <1>0, <2>1, <2>2, <2>3 DEF RequestsAreAnswered, Answered
    <3>2. IntOf(Dev(t)) # "TimerInt"
      BY <2>3, TimesAndTypes
    <3> QED BY <3>1, <3>2 DEF One, OnlyTimer
  <2>4. CASE Dev(t) = "in"
    <3>1. Call(t).dev # "disk"
      BY <2>4 DEF Dev
    <3>2. Has(pending, "ConsoleReadInt")
      BY <1>0, <2>1, <3>1 DEF ConsoleIsPolled
    <3> QED BY <3>2 DEF Has, OnlyTimer
  <2> QED BY <2>1, <2>3, <2>4, TimesAndTypes
<1>2. \A t \in Threads : place[t] \in {"lock", "done"}
  BY <1>1, <1>a DEF Runnable, Places
<1>3. ASSUME NEW t \in Threads, place[t] = "lock"  PROVE FALSE
  <2>1. Dev(t) \in Devs
    BY <1>0, <1>3, CallFacts DEF LocksAreOwned
  <2>2. owner[Dev(t)] \in Threads
    BY <1>3, <1>a, <2>1 DEF Runnable
  <2>3. place[owner[Dev(t)]] \in Holding
    BY <1>0, <2>1, <2>2 DEF LocksAreOwned
  <2> QED BY <1>2, <2>2, <2>3 DEF Holding
<1> QED BY <1>2, <1>3

\* The machine halts only then.
LEMMA HaltKept ==
  ASSUME DevInv, DevNext
  PROVE  AllDoneAtTheEnd'
<1>0. AllDoneAtTheEnd
  BY DEF DevInv, ClockIsRight
<1>1. CASE Halt
  BY <1>1, NobodyWaitsForTheTimer DEF Halt, AllDoneAtTheEnd, threadVars
<1>2. CASE mode' # "halted"
  BY <1>2 DEF AllDoneAtTheEnd
<1>3. CASE UNCHANGED <<mode, place>>
  BY <1>0, <1>3 DEF AllDoneAtTheEnd
<1>4. ASSUME NEW t \in Threads, ThreadStep(t) \/ Dispatch(t)  PROVE mode' # "halted"
  BY <1>4 DEF ThreadStep, AcquireDev, Request, Served, WaitForChar, GetChar, ReleaseDev, FinishDev, Dispatch, Running,
         PDev, clockVars
<1>5. CASE OneTick \/ EndTick \/ Idle \/ EndIdle
  BY <1>2, <1>5 DEF OneTick, EndTick, Idle, EndIdle
<1>6. CASE TimerExpired \/ DiskDone \/ ConsoleWriteDone \/ CheckCharAvail \/ Type \/ DevStopped
  BY <1>3, <1>6 DEF TimerExpired, DiskDone, ConsoleWriteDone, RequestDone, CheckCharAvail, Type, DevStopped, devVars,
                    clockVars, threadVars
<1> QED BY <1>1, <1>2, <1>4, <1>5, <1>6 DEF DevNext, ClockStep
----------------------------------------------------------------------------
(***************************************************************************)
(* The invariant and what follows from it.                                 *)
(***************************************************************************)
\* The clock starts with the timer and the console's first poll.
LEMMA FirstInterrupts ==
  ASSUME DevInit
  PROVE  /\ pending \in Seq(Ints) /\ Sorted(pending) /\ NotBefore(pending, 1)
         /\ \A d \in Requested : None(pending, IntOf(d))
         /\ ConsoleIsPolled
         /\ program \in [Threads -> Seq(Calls)]
<1>1. PICK s \in Scenarios, n \in TimerDelays :
        /\ program = s.program
        /\ pending = IF s.console THEN Schedule(Schedule(<< >>, "TimerInt", n), "ConsoleReadInt", ConsoleTime)
                                  ELSE Schedule(<< >>, "TimerInt", n)
  BY DEF DevInit
<1> DEFINE empty == << >>
           timer == Schedule(empty, "TimerInt", n)
           both == Schedule(timer, "ConsoleReadInt", ConsoleTime)
<1>2. /\ "TimerInt" \in Types /\ "ConsoleReadInt" \in Types /\ n \in Int /\ ConsoleTime \in Int /\ ConsoleTime >= 1
      /\ \A d \in Requested : IntOf(d) \in Types \ {"TimerInt", "ConsoleReadInt"}
  BY TimesAndTypes
<1>3. empty \in Seq(Ints) /\ Sorted(empty) /\ NotBefore(empty, 1) /\ \A T \in Types : None(empty, T)
  <2>1. empty \in Seq(Ints)
    BY EmptySeq
  <2>2. DOMAIN empty = {}
    OBVIOUS
  <2> HIDE DEF empty
  <2> QED BY <2>1, <2>2 DEF Sorted, NotBefore, None
<1> HIDE DEF empty
<1>4. timer \in Seq(Ints) /\ Sorted(timer) /\ NotBefore(timer, 1)
  BY <1>2, <1>3, ScheduleKeeps
<1>5. \A d \in Requested : None(timer, IntOf(d))
  <2>1. \A T \in Types \ {"TimerInt"} : None(empty, T) => None(timer, T)
    BY <1>2, <1>3, ScheduleKeeps
  <2> QED BY <1>2, <1>3, <2>1
<1> HIDE DEF timer
<1>6. both \in Seq(Ints) /\ Sorted(both) /\ NotBefore(both, 1) /\ Has(both, "ConsoleReadInt")
  <2>1. both \in Seq(Ints) /\ Sorted(both) /\ Has(both, "ConsoleReadInt")
    BY <1>2, <1>4, ScheduleKeeps
  <2>2. \A m \in Int : NotBefore(timer, m) /\ ConsoleTime >= m => NotBefore(both, m)
    BY <1>2, <1>4, ScheduleKeeps
  <2> QED BY <1>2, <1>4, <2>1, <2>2
<1>7. \A d \in Requested : None(both, IntOf(d))
  <2>1. \A T \in Types \ {"ConsoleReadInt"} : None(timer, T) => None(both, T)
    BY <1>2, <1>4, ScheduleKeeps
  <2> QED BY <1>2, <1>5, <2>1
<1> HIDE DEF both
<1>8. pending = IF s.console THEN both ELSE timer
  BY <1>1 DEF both, timer, empty
<1>9. pending \in Seq(Ints) /\ Sorted(pending) /\ NotBefore(pending, 1) /\ \A d \in Requested : None(pending, IntOf(d))
  BY <1>4, <1>5, <1>6, <1>7, <1>8
<1>10. ConsoleIsPolled
  <2>1. CASE s.console
    BY <1>6, <1>8, <2>1 DEF ConsoleIsPolled
  <2>2. CASE ~s.console
    BY <1>1, <2>2, DevicesAssumption DEF ConsoleIsPolled
  <2> QED BY <2>1, <2>2
<1>11. program \in [Threads -> Seq(Calls)]
  BY <1>1, DevicesAssumption
<1> QED BY <1>9, <1>10, <1>11

\* The invariant holds when the machine starts.
LEMMA DevStarts ==
  ASSUME DevInit
  PROVE  DevInv
<1>0. /\ pending \in Seq(Ints) /\ Sorted(pending) /\ NotBefore(pending, 1)
      /\ \A d \in Requested : None(pending, IntOf(d))
      /\ ConsoleIsPolled /\ program \in [Threads -> Seq(Calls)]
  BY FirstInterrupts
<1>1. DevTypes
  <2>1. \A i \in DOMAIN pending : pending[i] \in [type : Types, due : Int]
    BY <1>0, ListFacts
  <2>2. DevTypeOK
    BY <2>1 DEF DevInit, DevTypeOK, Places
  <2>3. Input \in Seq(Range(Input))
    BY DevicesAssumption
  <2>4. << >> \in Seq(Range(Input)) /\ << >> \in Seq([thread : Threads, rest : Nat])
        /\ << >> \in Seq([char : Range(Input), thread : Threads, call : Nat])
    BY EmptySeq
  <2> QED BY <1>0, <2>2, <2>3, <2>4 DEF DevTypes, DevInit, Requested
<1>2. \A d \in Devs, p \in Places : ~OwnerAt(d, p)
  BY DEF DevInit, OwnerAt
<1>3. LocksAreOwned
  BY DevicesAssumption DEF DevInit, LocksAreOwned, Holding
<1>4. RequestsAreAnswered
  <2> SUFFICES ASSUME NEW d \in Requested  PROVE Answered(d)
    BY DEF RequestsAreAnswered
  <2>1. d \in Devs /\ "P" \in Places /\ "served" \in Places
    BY TimesAndTypes DEF Places
  <2> QED BY <1>0, <1>2, <2>1 DEF Answered, DevInit, Requested
<1>5. BufferIsAnnounced
  BY <1>2 DEF DevInit, BufferIsAnnounced, Devs, Places
<1>6. ClockIsRight
  <2>1. Early = 1 /\ mode # "run" /\ mode # "halted"
    BY DEF DevInit, Early
  <2> QED BY <1>0, <2>1 DEF ClockIsRight, InTime, AllDoneAtTheEnd
<1>7. LinesGoOn
  <2>1. \A p \in Places : ~OwnerAt("out", p)
    BY <1>2 DEF Devs
  <2>2. LastLine.rest = 0
    BY DEF DevInit, LastLine
  <2> QED BY <2>1, <2>2 DEF LinesGoOn, Places
<1>8. ReadersTakeTurns
  BY DEF DevInit, ReadersTakeTurns
<1>9. LinesAreWhole
  <2>1. Fetched \in Seq(Range(Input)) /\ Len(Fetched) = 0 /\ Buffer = << >>
    BY <1>1, StreamTypes DEF DevInit, Buffer
  <2>2. Fetched = << >>
    BY <2>1, EmptySeq
  <2>3. Input \in Seq(Range(Input)) /\ keyboard = << >> /\ toType = Input
    BY DevicesAssumption DEF DevInit
  <2>4. << >> \o Input = Input /\ << >> \o << >> = << >>
    BY <2>3, ConcatEmptySeq, EmptySeq
  <2>5. InputInOrder
    BY <2>1, <2>2, <2>3, <2>4 DEF InputInOrder, Fetched, Buffer
  <2>6. ScreenHasLines /\ LinesHaveOneReader
    BY DEF DevInit, ScreenHasLines, LinesHaveOneReader
  <2> QED BY <2>5, <2>6 DEF LinesAreWhole
<1> QED BY <1>1, <1>3, <1>4, <1>5, <1>6, <1>7, <1>8, <1>9 DEF DevInv

\* The devices keep it: types, locks, requests, the buffer, the clock and the
\* lines, whatever threads, calls, periods and disk times there are.
THEOREM DevicesInvariance == DevSpec => []DevInv
<1>1. DevInit => DevInv
  BY DevStarts
<1>2. DevInv /\ [DevNext]_devVars => DevInv'
  <2> SUFFICES ASSUME DevInv, [DevNext]_devVars  PROVE DevInv'
    OBVIOUS
  <2>1. CASE DevNext
    <3>1. DevTypes'
      BY <2>1, TypesKept
    <3>2. LinesAreWhole'
      BY <2>1, <3>1, ScreenKept, InputKept, ReadsKept DEF LinesAreWhole
    <3>3. ClockIsRight'
      BY <2>1, TimeKept, PollKept, HaltKept DEF ClockIsRight
    <3> QED
      BY <2>1, <3>1, <3>2, <3>3, LocksKept, RequestsKept, BufferKept, LinesKept, ReadersKept DEF DevInv
  <2>2. CASE UNCHANGED devVars
    <3>0. DevTypes /\ LocksAreOwned /\ LinesAreWhole
      BY DEF DevInv
    <3>1. DevTypes' /\ LocksAreOwned' /\ LinesAreWhole'
      <4>1. DevTypes'
        BY <2>2, <3>0 DEF DevTypes, DevTypeOK, devVars, clockVars, threadVars, syncVars, consoleVars, historyVars
      <4>2. LocksAreOwned'
        BY <2>2, <3>0 DEF LocksAreOwned, Dev, Call, devVars, threadVars, syncVars
      <4>3. ScreenHasLines' /\ LinesHaveOneReader'
        BY <2>2, <3>0 DEF LinesAreWhole, ScreenHasLines, LinesHaveOneReader, devVars, historyVars
      <4>4. InputInOrder'
        BY <2>2, <3>0 DEF LinesAreWhole, InputInOrder, devVars, consoleVars, historyVars
      <4> QED BY <4>1, <4>2, <4>3, <4>4 DEF LinesAreWhole
    <3>2. RequestsAreAnswered' /\ BufferIsAnnounced' /\ LinesGoOn'
      <4>1. RequestsAreAnswered'
        <5>1. \A d \in Requested : Answered(d) => Answered(d)'
          BY <2>2 DEF Answered, OwnerAt, None, One, IntOf, devVars, clockVars, threadVars, syncVars, historyVars
        <5> QED BY <5>1 DEF DevInv, RequestsAreAnswered
      <4>2. BufferIsAnnounced'
        BY <2>2 DEF DevInv, BufferIsAnnounced, OwnerAt, None, One, IntOf, devVars, clockVars, threadVars,
                    syncVars, consoleVars
      <4>3. LinesGoOn'
        BY <2>2 DEF DevInv, LinesGoOn, LastLine, OwnerAt, devVars, threadVars, syncVars, consoleVars, historyVars
      <4> QED BY <4>1, <4>2, <4>3
    <3>3. InTime'
      BY <2>2 DEF DevInv, ClockIsRight, InTime, Sorted, NotBefore, Early, Due, devVars, clockVars
    <3>4. ConsoleIsPolled' /\ AllDoneAtTheEnd'
      BY <2>2 DEF DevInv, ClockIsRight, ConsoleIsPolled, Has, AllDoneAtTheEnd, devVars, clockVars, threadVars
    <3>5. ReadersTakeTurns'
      BY <2>2 DEF DevInv, ReadersTakeTurns, TurnOf, Open, SameCall, devVars, threadVars, syncVars, historyVars
    <3> QED BY <3>1, <3>2, <3>3, <3>4, <3>5 DEF DevInv, ClockIsRight
  <2> QED BY <2>1, <2>2
<1> QED BY <1>1, <1>2, PTL DEF DevSpec
\* A type that a list has once, or not at all, is counted so.
LEMMA Counted ==
  ASSUME NEW T
  PROVE  /\ None(pending, T) => Pending(T) = 0
         /\ One(pending, T) => Pending(T) = 1
<1>1. None(pending, T) => Pending(T) = 0
  <2> SUFFICES ASSUME None(pending, T)  PROVE Pending(T) = 0
    OBVIOUS
  <2>1. {i \in DOMAIN pending : pending[i].type = T} = {}
    BY DEF None
  <2> QED BY <2>1, FS_EmptySet DEF Pending
<1>2. One(pending, T) => Pending(T) = 1
  <2> SUFFICES ASSUME One(pending, T)  PROVE Pending(T) = 1
    OBVIOUS
  <2>1. PICK k \in DOMAIN pending : \A j \in DOMAIN pending : pending[j].type = T <=> j = k
    BY DEF One
  <2>2. {i \in DOMAIN pending : pending[i].type = T} = {k}
    BY <2>1
  <2> QED BY <2>2, FS_Singleton DEF Pending
<1> QED BY <1>1, <1>2

\* The disk gets "only one request at a time" and the console one character at
\* a time, and a thread goes on after the interrupt of its own request
\* (disk.cc:121, synchdisk.cc:65, synchconsole.cc).
THEOREM OneRequestAtATimeAlways == DevSpec => []OneRequestAtATime
<1>1. DevInv => OneRequestAtATime
  <2> SUFFICES ASSUME DevInv  PROVE OneRequestAtATime
    OBVIOUS
  <2>0. DevTypes /\ DevTypeOK /\ LocksAreOwned /\ RequestsAreAnswered
    BY DEF DevInv, DevTypes
  <2>a. owner \in [Devs -> Threads \cup {NoThread}] /\ busy \in [Requested -> Threads \cup {NoThread}]
    BY <2>0 DEF DevTypes, DevTypeOK
  <2>1. ASSUME NEW d \in Requested
        PROVE  /\ \A t \in In(d, "held") : left[t] > 0 => busy[d] = NoThread
               /\ \A t \in In(d, "served") : served[d] = t
               /\ Pending(IntOf(d)) + units[d] = Cardinality(In(d, "P"))
               /\ busy[d] # NoThread <=> Pending(IntOf(d)) = 1
    <3>1. Answered(d) /\ d \in Devs
      BY <2>0, TimesAndTypes DEF RequestsAreAnswered
    <3>2. ASSUME NEW t \in Threads, NEW p \in Holding, t \in In(d, p)  PROVE owner[d] = t /\ OwnerAt(d, p)
      <4>1. Dev(t) = d /\ place[t] = p
        BY <3>2 DEF In
      <4> QED BY <2>0, <3>2, <4>1, HolderFacts
    <3>3. \A t \in In(d, "held") : busy[d] = NoThread
      <4> SUFFICES ASSUME NEW t \in In(d, "held")  PROVE busy[d] = NoThread
        OBVIOUS
      <4>1. t \in Threads /\ "held" \in Holding
        BY DEF In, Holding
      <4>2. ~OwnerAt(d, "P")
        BY <3>2, <4>1 DEF OwnerAt
      <4> QED BY <3>1, <4>2 DEF Answered
    <3>4. \A t \in In(d, "served") : served[d] = t
      <4> SUFFICES ASSUME NEW t \in In(d, "served")  PROVE served[d] = t
        OBVIOUS
      <4>1. t \in Threads /\ "served" \in Holding
        BY DEF In, Holding
      <4>2. owner[d] = t /\ OwnerAt(d, "served")
        BY <3>2, <4>1
      <4> QED BY <3>1, <4>2 DEF Answered
    <3>5. CASE OwnerAt(d, "P")
      <4>1. owner[d] \in Threads /\ place[owner[d]] = "P"
        BY <2>a, <3>1, <3>5 DEF OwnerAt
      <4>2. owner[d] \in In(d, "P")
        <5> DEFINE t == owner[d]
        <5>1. t \in Threads /\ place[t] = "P"
          BY <4>1
        <5>2. Dev(t) = d
          BY <2>0, <3>1, <5>1 DEF LocksAreOwned
        <5>3. program[t] # << >>
          BY <2>0, <5>1 DEF LocksAreOwned, Holding
        <5> QED BY <5>1, <5>2, <5>3 DEF In
      <4>3. In(d, "P") = {owner[d]}
        <5>1. "P" \in Holding /\ In(d, "P") \subseteq Threads
          BY DEF Holding, In
        <5> QED BY <3>2, <4>2, <5>1
      <4>4. Cardinality(In(d, "P")) = 1
        BY <4>3, FS_Singleton
      <4>5. \/ units[d] = 0 /\ busy[d] = owner[d] /\ Pending(IntOf(d)) = 1
            \/ units[d] = 1 /\ busy[d] = NoThread /\ Pending(IntOf(d)) = 0
        BY <3>1, <3>5, Counted DEF Answered
      <4>6. owner[d] # NoThread
        BY <3>5 DEF OwnerAt
      <4> QED BY <3>3, <3>4, <4>4, <4>5, <4>6
    <3>6. CASE ~OwnerAt(d, "P")
      <4>1. In(d, "P") = {}
        <5>1. "P" \in Holding /\ In(d, "P") \subseteq Threads
          BY DEF Holding, In
        <5> QED BY <3>2, <3>6, <5>1
      <4>2. Cardinality(In(d, "P")) = 0
        BY <4>1, FS_EmptySet
      <4>3. units[d] = 0 /\ busy[d] = NoThread /\ Pending(IntOf(d)) = 0
        BY <3>1, <3>6, Counted DEF Answered
      <4> QED BY <3>3, <3>4, <4>2, <4>3
    <3> QED BY <3>5, <3>6
  <2> QED BY <2>0, <2>1 DEF OneRequestAtATime, Requested
<1> QED BY <1>1, DevicesInvariance, PTL

\* Lines of several writers do not mix, and what is typed is read once, in
\* order, each line by one reader (synchconsole.cc).
THEOREM LinesStayWhole == DevSpec => []LinesAreWhole
<1>1. DevInv => LinesAreWhole
  BY DEF DevInv
<1> QED BY <1>1, DevicesInvariance, PTL

\* Interrupts are handled on time, and the machine stops by itself only when
\* every thread has finished (Interrupt::Idle, interrupt.cc:241).
THEOREM HaltsAtTheEnd == DevSpec => []HaltsWhenDone
<1>1. DevInv => HaltsWhenDone
  <2> SUFFICES ASSUME DevInv  PROVE HaltsWhenDone
    OBVIOUS
  <2>0. DevTypes /\ LocksAreOwned /\ InTime /\ AllDoneAtTheEnd /\ pending \in Seq(Ints)
    BY DEF DevInv, ClockIsRight, DevTypes
  <2>1. \A i \in 1 .. Len(pending) - 1 : pending[i].due <= pending[i + 1].due
    <3>1. DOMAIN pending = 1 .. Len(pending) /\ Len(pending) \in Nat
      BY <2>0, ListFacts
    <3>2. \A i \in 1 .. Len(pending) - 1 : i \in DOMAIN pending /\ i + 1 \in DOMAIN pending /\ i < i + 1
      BY <3>1
    <3> QED BY <2>0, <3>2 DEF InTime, Sorted
  <2>2. \A i \in DOMAIN pending : pending[i].type # "TimerInt" => pending[i].due >= 0
    <3>1. Early \in Int /\ 0 <= Early
      BY DEF Early
    <3>2. NotBefore(pending, 0)
      BY <2>0, <3>1, NotBeforeWeaker DEF InTime
    <3> QED BY <3>2 DEF NotBefore
  <2>3. mode = "halted" => \A t \in Threads : place[t] = "done" /\ program[t] = << >>
    BY <2>0 DEF AllDoneAtTheEnd, LocksAreOwned
  <2> QED BY <2>0, <2>1, <2>2, <2>3 DEF HaltsWhenDone, HandledOnTime, InTime
<1> QED BY <1>1, DevicesInvariance, PTL

----------------------------------------------------------------------------
(***************************************************************************)
(* The invariant.                                                          *)
(***************************************************************************)
\* A sender between Acquire and Release of sendLock owns it, and only such a
\* thread does; the interrupt of its packet, or its unit, is the only one.
Inside == {"locked", "sent", "failed"}
Waits(m) == sendLock[m] # NoClient /\ phase[sendLock[m]] \in {"sent", "failed"}

SendersTakeTurns ==
  /\ \A c \in Clients : phase[c] \in Inside <=> sendLock[Home(c)] = c
  /\ \A c \in Clients : phase[c] # "begin" => Next1(c).op \in {"send", "reply"}
  /\ \A m \in Machines : sendLock[m] # NoClient => Home(sendLock[m]) = m
  /\ \A m \in Machines : sendPending[m] + messageSent[m] = IF Waits(m) THEN 1 ELSE 0

\* A client that has received knows whom to reply to.
RepliesHaveMail ==
  \A c \in Clients : \A i \in 1 .. step[c] - 1 :
    i <= Len(Program(c)) /\ Program(c)[i].op = "receive" => lastMail[c] \in Packets

\* The buffer of the network is full while its unit, or the postal worker that
\* took it, is on the way.
BufferHasItsMessage ==
  \A m \in Machines :
    available[m] + (IF worker[m].at = "Receive" THEN 1 ELSE 0) = IF inHdr[m] = NoPacket THEN 0 ELSE 1

\* What is on its way through a machine is for it.
MailIsAtItsMachine ==
  \A m \in Machines :
    /\ \A i \in DOMAIN socket[m] : socket[m][i].to = m
    /\ inHdr[m] # NoPacket => inHdr[m].to = m
    /\ worker[m].at = "Put" => worker[m].mail.to = m

\* Until a machine halts, its mail is where MailIsKept says.
InOrder(m, b) == got[m][b] \o boxes[m][b] \o ForBox(OnItsWay(m), m, b) = ForBox(wire, m, b)
MailIsInOrder == \A m \in Machines, b \in Boxes : power[m] # "halted" => InOrder(m, b)

POInv ==
  /\ POTypeOK
  /\ SendersTakeTurns
  /\ RepliesHaveMail
  /\ BufferHasItsMessage
  /\ MailIsAtItsMachine
  /\ MailIsInOrder
----------------------------------------------------------------------------
(***************************************************************************)
(* PostOffice.  First, what ForBox selects.                                *)
(***************************************************************************)
Selects(f, s, m, b) ==
  /\ f[0] = << >>
  /\ \A i \in 1 .. Len(s) : f[i] = Kept(f[i - 1], s[i], m, b)

\* Two selections of sequences with a common beginning begin alike.
LEMMA SelectionsAgree ==
  ASSUME NEW s \in Seq(Packets), NEW t \in Seq(Packets), NEW m, NEW b, NEW f, NEW g,
         Selects(f, s, m, b), Selects(g, t, m, b),
         Len(s) <= Len(t), \A i \in 1 .. Len(s) : s[i] = t[i]
  PROVE  \A i \in 0 .. Len(s) : f[i] = g[i]
<1> DEFINE M == {i \in 0 .. Len(s) : f[i] # g[i]}
<1>1. Len(s) \in Nat /\ Len(t) \in Nat
  BY LenProperties
<1> SUFFICES ASSUME M # {}  PROVE FALSE
  OBVIOUS
<1>2. PICK n \in M : \A k \in M : n <= k
  BY <1>1, LeastNumber, M \in SUBSET Nat
<1>3. n # 0
  BY DEF Selects
<1>4. n \in 1 .. Len(s) /\ n \in 1 .. Len(t) /\ n - 1 \in 0 .. Len(s)
  BY <1>1, <1>3
<1>5. f[n - 1] = g[n - 1]
  BY <1>1, <1>2, <1>4
<1> QED BY <1>4, <1>5 DEF Selects

\* What is selected from packets are packets.
LEMMA SelectionType ==
  ASSUME NEW s \in Seq(Packets), NEW m, NEW b, NEW f, Selects(f, s, m, b)
  PROVE  \A i \in 0 .. Len(s) : f[i] \in Seq(Packets)
<1> DEFINE M == {i \in 0 .. Len(s) : f[i] \notin Seq(Packets)}
<1>1. Len(s) \in Nat
  BY LenProperties
<1> SUFFICES ASSUME M # {}  PROVE FALSE
  OBVIOUS
<1>2. PICK n \in M : \A k \in M : n <= k
  BY <1>1, LeastNumber, M \in SUBSET Nat
<1>3. n # 0
  BY EmptySeq DEF Selects
<1>4. n \in 1 .. Len(s) /\ n - 1 \in 0 .. Len(s)
  BY <1>1, <1>3
<1>5. f[n - 1] \in Seq(Packets) /\ s[n] \in Packets
  BY <1>1, <1>2, <1>4, ElementOfSeq
<1>6. Append(f[n - 1], s[n]) \in Seq(Packets)
  BY <1>5, AppendProperties
<1> QED BY <1>4, <1>5, <1>6 DEF Selects, Kept

\* There is a selection, so that the recursion of ForBox computes it.
LEMMA SelectionExists ==
  ASSUME NEW s \in Seq(Packets), NEW m, NEW b
  PROVE  \E f : DOMAIN f = 0 .. Len(s) /\ f = [i \in 0 .. Len(s) |-> f[i]] /\ Selects(f, s, m, b)
<1> DEFINE Upto(f, n) == /\ f = [i \in 0 .. n |-> f[i]]
                         /\ f[0] = << >>
                         /\ \A i \in 1 .. n : f[i] = Kept(f[i - 1], s[i], m, b)
           M == {n \in 0 .. Len(s) : ~ \E f : Upto(f, n)}
<1>1. Len(s) \in Nat
  BY LenProperties
<1>2. M = {}
  <2> SUFFICES ASSUME M # {}  PROVE FALSE
    OBVIOUS
  <2>1. PICK n \in M : \A k \in M : n <= k
    BY <1>1, LeastNumber, M \in SUBSET Nat
  <2>2. n # 0
    <3>1. Upto([i \in 0 .. 0 |-> << >>], 0)
      OBVIOUS
    <3> QED BY <3>1
  <2>3. n \in Nat \ {0} /\ n - 1 \in 0 .. Len(s) /\ n - 1 \notin M
    BY <1>1, <2>1, <2>2
  <2>4. PICK f : Upto(f, n - 1)
    BY <2>3
  <2> DEFINE g == [i \in 0 .. n |-> IF i = n THEN Kept(f[n - 1], s[n], m, b) ELSE f[i]]
  <2>5. g = [i \in 0 .. n |-> g[i]]
    OBVIOUS
  <2>6. g[0] = << >>
    BY <2>3, <2>4
  <2>7. ASSUME NEW i \in 1 .. n  PROVE g[i] = Kept(g[i - 1], s[i], m, b)
    <3>1. g[i - 1] = f[i - 1]
      BY <2>3
    <3>2. CASE i = n
      BY <2>3, <3>1, <3>2
    <3>3. CASE i # n
      <4>1. i \in 1 .. n - 1 /\ g[i] = f[i]
        BY <2>3, <3>3
      <4> QED BY <2>4, <3>1, <4>1
    <3> QED BY <3>2, <3>3
  <2>8. Upto(g, n)
    BY <2>5, <2>6, <2>7
  <2> HIDE DEF Upto
  <2> QED BY <2>1, <2>8
<1>3. Len(s) \in 0 .. Len(s)
  BY <1>1
<1> HIDE DEF Upto
<1>4. PICK f : Upto(f, Len(s))
  BY <1>2, <1>3
<1>5. f = [i \in 0 .. Len(s) |-> f[i]] /\ Selects(f, s, m, b)
  BY <1>4 DEF Upto, Selects
<1> QED BY <1>5

LEMMA ForBoxSelects ==
  ASSUME NEW s \in Seq(Packets), NEW m, NEW b, NEW f, Selects(f, s, m, b)
  PROVE  ForBox(s, m, b) = f[Len(s)]
<1> DEFINE Is(g) == g = [i \in 0 .. Len(s) |-> IF i = 0 THEN << >> ELSE Kept(g[i - 1], s[i], m, b)]
           chosen == CHOOSE g : Is(g)
<1>1. Len(s) \in Nat
  BY LenProperties
<1>2. PICK h : h = [i \in 0 .. Len(s) |-> h[i]] /\ Selects(h, s, m, b)
  BY SelectionExists
<1>3. ASSUME NEW i \in 0 .. Len(s)  PROVE h[i] = IF i = 0 THEN << >> ELSE Kept(h[i - 1], s[i], m, b)
  <2>1. CASE i = 0
    BY <1>2, <2>1 DEF Selects
  <2>2. CASE i # 0
    <3>1. i \in 1 .. Len(s)
      BY <1>1, <2>2
    <3>2. h[i] = Kept(h[i - 1], s[i], m, b)
      BY <1>2, <3>1 DEF Selects
    <3> QED BY <2>2, <3>2
  <2> QED BY <2>1, <2>2
<1>4. Is(h)
  BY <1>2, <1>3
<1>5. Is(chosen)
  BY <1>4
<1>6. Selects(chosen, s, m, b)
  <2> HIDE DEF chosen
  <2>1. chosen[0] = << >>
    BY <1>1, <1>5
  <2>2. \A i \in 1 .. Len(s) : chosen[i] = Kept(chosen[i - 1], s[i], m, b)
    BY <1>1, <1>5
  <2> QED BY <2>1, <2>2 DEF Selects
<1>7. ForBox(s, m, b) = chosen[Len(s)]
  BY DEF ForBox
<1> HIDE DEF chosen
<1>8. \A i \in 0 .. Len(s) : chosen[i] = f[i]
  BY <1>1, <1>6, SelectionsAgree
<1> QED BY <1>1, <1>7, <1>8

\* Packets are selected from packets.
LEMMA ForBoxType ==
  ASSUME NEW s \in Seq(Packets), NEW m, NEW b
  PROVE  ForBox(s, m, b) \in Seq(Packets)
<1>1. PICK f : Selects(f, s, m, b)
  BY SelectionExists
<1>2. Len(s) \in 0 .. Len(s)
  BY LenProperties
<1> QED BY <1>1, <1>2, ForBoxSelects, SelectionType

\* One packet more at the end.
LEMMA ForBoxAppend ==
  ASSUME NEW s \in Seq(Packets), NEW p \in Packets, NEW m, NEW b
  PROVE  /\ ForBox(s, m, b) \in Seq(Packets)
         /\ ForBox(Append(s, p), m, b) = Kept(ForBox(s, m, b), p, m, b)
<1> DEFINE t == Append(s, p)
<1>1. /\ t \in Seq(Packets) /\ Len(s) \in Nat /\ Len(t) = Len(s) + 1
      /\ \A i \in 1 .. Len(s) : t[i] = s[i]
      /\ t[Len(s) + 1] = p
  BY AppendProperties, LenProperties
<1> HIDE DEF t
<1>2. PICK f : Selects(f, s, m, b)
  BY SelectionExists
<1>3. PICK g : Selects(g, t, m, b)
  BY <1>1, SelectionExists
<1>4. f[Len(s)] = g[Len(s)]
  BY <1>1, <1>2, <1>3, SelectionsAgree
<1>5. g[Len(s) + 1] = Kept(g[Len(s)], p, m, b)
  <2>1. Len(s) + 1 \in 1 .. Len(t) /\ (Len(s) + 1) - 1 = Len(s)
    BY <1>1
  <2> QED BY <1>1, <1>3, <2>1 DEF Selects
<1>6. ForBox(s, m, b) = f[Len(s)] /\ ForBox(t, m, b) = g[Len(s) + 1]
  BY <1>1, <1>2, <1>3, ForBoxSelects
<1>7. f[Len(s)] \in Seq(Packets)
  BY <1>1, <1>2, SelectionType
<1> QED BY <1>4, <1>5, <1>6, <1>7 DEF t

\* Appending to the second part of a sequence.
LEMMA AppendOfConcat ==
  \A r, s \in Seq(Packets) : \A e \in Packets : Append(r \o s, e) = r \o Append(s, e)
<1> SUFFICES ASSUME NEW r \in Seq(Packets), NEW s \in Seq(Packets), NEW e \in Packets
             PROVE  Append(r \o s, e) = r \o Append(s, e)
  OBVIOUS
<1>1. r \o s \in Seq(Packets) /\ <<e>> \in Seq(Packets)
  BY ConcatProperties
<1>2. Append(r \o s, e) = (r \o s) \o <<e>> /\ Append(s, e) = s \o <<e>>
  BY <1>1, AppendIsConcat
<1> QED BY <1>1, <1>2, ConcatAssociative

\* One packet more at the front.
HasFront(t, p, s) == t = <<p>> \o s

LEMMA ForBoxFront ==
  ASSUME NEW s \in Seq(Packets), NEW p \in Packets, NEW m, NEW b, NEW t, HasFront(t, p, s)
  PROVE  ForBox(t, m, b) = Kept(<< >>, p, m, b) \o ForBox(s, m, b)
<1> DEFINE one == Kept(<< >>, p, m, b)
<1>1. /\ t \in Seq(Packets) /\ Len(s) \in Nat /\ Len(t) = Len(s) + 1
      /\ t[1] = p
      /\ \A i \in 1 .. Len(s) : t[i + 1] = s[i]
  BY ConcatProperties, LenProperties DEF HasFront
<1>2. one \in Seq(Packets)
  BY DEF Kept
<1> HIDE DEF one
<1>3. PICK f : Selects(f, s, m, b)
  BY SelectionExists
<1>4. PICK g : Selects(g, t, m, b)
  BY <1>1, SelectionExists
<1>5. \A i \in 0 .. Len(s) : f[i] \in Seq(Packets)
  BY <1>3, SelectionType
<1> DEFINE M == {i \in 0 .. Len(s) : g[i + 1] # one \o f[i]}
<1>6. M = {}
  <2> SUFFICES ASSUME M # {}  PROVE FALSE
    OBVIOUS
  <2>1. PICK n \in M : \A k \in M : n <= k
    BY <1>1, LeastNumber, M \in SUBSET Nat
  <2>2. n # 0
    <3>1. g[1] = Kept(g[1 - 1], t[1], m, b) /\ g[0] = << >> /\ f[0] = << >>
      BY <1>1, <1>3, <1>4 DEF Selects
    <3>2. g[1] = one
      BY <1>1, <3>1 DEF one
    <3>3. one \o << >> = one
      BY <1>2, ConcatEmptySeq
    <3>4. g[0 + 1] = one \o f[0]
      BY <3>1, <3>2, <3>3
    <3>5. g[n + 1] # one \o f[n]
      OBVIOUS
    <3> QED BY <3>4, <3>5
  <2>3. n \in 1 .. Len(s) /\ n - 1 \in 0 .. Len(s) /\ n + 1 \in 1 .. Len(t) /\ (n + 1) - 1 = n /\ (n - 1) + 1 = n
    BY <1>1, <2>1, <2>2
  <2>4. g[n] = one \o f[n - 1]
    <3>1. n - 1 \notin M
      <4>1. n \in Int /\ ~(n <= n - 1)
        BY <1>1, <2>3
      <4> HIDE DEF M
      <4> QED BY <2>1, <4>1
    <3>2. g[(n - 1) + 1] = one \o f[n - 1]
      BY <2>3, <3>1
    <3> QED BY <2>3, <3>2
  <2>5. g[n + 1] = Kept(g[n], s[n], m, b)
    BY <1>1, <1>4, <2>3 DEF Selects
  <2>6. f[n] = Kept(f[n - 1], s[n], m, b)
    BY <1>3, <2>3 DEF Selects
  <2>7. f[n - 1] \in Seq(Packets) /\ s[n] \in Packets
    BY <1>1, <1>5, <2>3, ElementOfSeq
  <2>8. Append(one \o f[n - 1], s[n]) = one \o Append(f[n - 1], s[n])
    <3> DEFINE r == f[n - 1]
               e == s[n]
    <3>1. r \in Seq(Packets) /\ one \in Seq(Packets) /\ e \in Packets
      BY <1>2, <2>7
    <3> HIDE DEF M, r, e
    <3>2. Append(one \o r, e) = one \o Append(r, e)
      BY <3>1, AppendOfConcat
    <3> QED BY <3>2 DEF r, e
  <2>9. Kept(one \o f[n - 1], s[n], m, b) = one \o Kept(f[n - 1], s[n], m, b)
    BY <2>8 DEF Kept
  <2>10. g[n + 1] # one \o f[n]
    OBVIOUS
  <2> HIDE DEF M
  <2> QED BY <2>4, <2>5, <2>6, <2>9, <2>10
<1>7. g[Len(s) + 1] = one \o f[Len(s)]
  BY <1>1, <1>6
<1>8. ForBox(s, m, b) = f[Len(s)] /\ ForBox(t, m, b) = g[Len(s) + 1]
  BY <1>1, <1>3, <1>4, ForBoxSelects
<1> QED BY <1>7, <1>8 DEF one
----------------------------------------------------------------------------
(***************************************************************************)
(* Types.                                                                  *)
(***************************************************************************)
\* What the programs of a setup are.
LEMMA SetupFacts ==
  ASSUME POTypeOK
  PROVE  /\ \A c \in Clients : Home(c) \in Machines /\ Program(c) \in Seq(Operations) /\ Len(Program(c)) \in Nat
         /\ \A c \in Clients : \A i \in 1 .. Len(Program(c)) :
              Program(c)[i].op = "reply" => \E j \in 1 .. i - 1 : Program(c)[j].op = "receive"
         /\ \A c \in Clients : Next1(c) \in Operations \cup {[op |-> "none"]}
<1>1. scenario \in Setups
  BY DEF POTypeOK
<1>2. \A c \in Clients : Home(c) \in Machines /\ Program(c) \in Seq(Operations)
  BY <1>1, PostOfficeAssumption DEF Home, Program
<1>3. ASSUME NEW c \in Clients
      PROVE  Len(Program(c)) \in Nat /\ DOMAIN Program(c) = 1 .. Len(Program(c))
             /\ \A i \in 1 .. Len(Program(c)) : Program(c)[i] \in Operations
  BY <1>2, LenProperties, ElementOfSeq
<1>4. ASSUME NEW c \in Clients, NEW i \in 1 .. Len(Program(c)), Program(c)[i].op = "reply"
      PROVE  \E j \in 1 .. i - 1 : Program(c)[j].op = "receive"
  BY <1>1, <1>3, <1>4, PostOfficeAssumption DEF Program
<1>5. ASSUME NEW c \in Clients  PROVE Next1(c) \in Operations \cup {[op |-> "none"]}
  <2>1. step[c] \in Nat \ {0}
    BY DEF POTypeOK
  <2>2. CASE step[c] <= Len(Program(c))
    BY <1>3, <2>1, <2>2 DEF Next1
  <2> QED BY <2>2 DEF Next1
<1> QED BY <1>2, <1>3, <1>4, <1>5

\* The operations by their names.
LEMMA OperationFacts ==
  ASSUME NEW o \in Operations \cup {[op |-> "none"]}
  PROVE  /\ o.op \in {"send", "reply", "receive", "halt", "none"}
         /\ o.op = "send" => o.to \in Machines /\ o.box \in Boxes /\ o.replyTo \in Boxes
         /\ o.op = "receive" => o.box \in Boxes
<1>1. CASE o \in [op : {"send"}, to : Machines, box : Boxes, replyTo : Boxes]
  BY <1>1
<1>2. CASE o \in [op : {"receive"}, box : Boxes]
  BY <1>2
<1>3. CASE o = Reply
  BY <1>3 DEF Reply
<1>4. CASE o = HaltCall
  BY <1>4 DEF HaltCall
<1>5. CASE o = [op |-> "none"]
  BY <1>5
<1> QED BY <1>1, <1>2, <1>3, <1>4, <1>5 DEF Operations

\* The null packet is none.
LEMMA NoPacketFacts == NoPacket \notin Packets
BY PostOfficeAssumption DEF NoPacket, Packets

\* A client that sends has a packet for a machine.
LEMMA OutgoingIsAPacket ==
  ASSUME POTypeOK, RepliesHaveMail, NEW c \in Clients, Sends(c)
  PROVE  Outgoing(c) \in Packets /\ step[c] <= Len(Program(c))
<1>1. /\ Home(c) \in Machines /\ Next1(c) \in Operations \cup {[op |-> "none"]} /\ Len(Program(c)) \in Nat
      /\ step[c] \in Nat \ {0}
  BY SetupFacts DEF POTypeOK
<1>2. Next1(c).op = "send" \/ Next1(c).op = "reply"
  BY DEF Sends, AtOp
<1>3. step[c] <= Len(Program(c)) /\ Next1(c) = Program(c)[step[c]]
  BY <1>2 DEF Next1
<1>4. <<c, step[c]>> \in Clients \X Nat
  BY <1>1
<1>5. CASE Next1(c).op = "send"
  <2>1. Next1(c).to \in Machines /\ Next1(c).box \in Boxes /\ Next1(c).replyTo \in Boxes
    BY <1>1, <1>5, OperationFacts
  <2> QED BY <1>1, <1>3, <1>4, <1>5, <2>1 DEF Outgoing, Packets
<1>6. CASE Next1(c).op = "reply"
  <2>1. PICK j \in 1 .. step[c] - 1 : Program(c)[j].op = "receive"
    BY <1>1, <1>3, <1>6, SetupFacts
  <2>2. lastMail[c] \in Packets
    BY <1>1, <1>3, <2>1 DEF RepliesHaveMail
  <2>3. lastMail[c].from \in Machines /\ lastMail[c].replyTo \in Boxes
    BY <2>2 DEF Packets
  <2>4. Next1(c).op # "send"
    BY <1>6
  <2> QED BY <1>1, <1>3, <1>4, <2>3, <2>4, PostOfficeAssumption DEF Outgoing, Packets
<1> QED BY <1>2, <1>5, <1>6

\* What is taken from a sequence of packets.
LEMMA PacketSeqFacts ==
  ASSUME NEW s \in Seq(Packets)
  PROVE  /\ \A p \in Packets : Append(s, p) \in Seq(Packets)
         /\ s # << >> => Head(s) \in Packets /\ Tail(s) \in Seq(Packets) /\ s = <<Head(s)>> \o Tail(s)
<1>1. \A p \in Packets : Append(s, p) \in Seq(Packets)
  BY AppendProperties
<1>2. ASSUME s # << >>  PROVE Head(s) \in Packets /\ Tail(s) \in Seq(Packets) /\ s = <<Head(s)>> \o Tail(s)
  BY <1>2, HeadTailProperties
<1> QED BY <1>1, <1>2

\* Every step keeps the types.
LEMMA POTypesKept ==
  ASSUME POInv, PONext
  PROVE  POTypeOK'
<1>0. POTypeOK /\ RepliesHaveMail /\ BufferHasItsMessage
  BY DEF POInv
<1>1. ASSUME NEW m \in Machines, PowerOn(m)  PROVE POTypeOK'
  BY <1>0, <1>1 DEF POTypeOK, PowerOn, deviceVars, officeVars, clientVars, mailVars
<1>2. ASSUME NEW c \in Clients, LockSend(c)  PROVE POTypeOK'
  BY <1>0, <1>2, SetupFacts DEF POTypeOK, LockSend, Phase, deviceVars, mailVars
<1>3. ASSUME NEW c \in Clients, SendLost(c)  PROVE POTypeOK'
  <2>1. /\ UNCHANGED <<scenario, power, socket, wire, inHdr, officeVars, step, lastMail, got>>
        /\ sendPending' = [sendPending EXCEPT ![Home(c)] = @ + 1] /\ phase' = [phase EXCEPT ![c] = "sent"]
        /\ lost < MaxLost /\ lost' = lost + 1
    BY <1>3 DEF SendLost, StartSend, Phase
  <2>2. Home(c) \in Machines
    BY <1>0, SetupFacts
  <2>3. sendPending' \in [Machines -> Nat] /\ phase' \in [Clients -> {"begin", "locked", "sent", "failed", "refused"}]
    BY <1>0, <2>1, <2>2 DEF POTypeOK
  <2>4. lost' \in 0 .. MaxLost
    BY <1>0, <2>1, PostOfficeAssumption DEF POTypeOK
  <2> QED BY <1>0, <2>1, <2>3, <2>4 DEF POTypeOK, officeVars
<1>4. ASSUME NEW c \in Clients, SendDelivered(c)  PROVE POTypeOK'
  <2>1. Outgoing(c) \in Packets
    BY <1>0, <1>4, OutgoingIsAPacket DEF SendDelivered, StartSend
  <2> DEFINE to == Outgoing(c).to
  <2>2. to \in Machines /\ socket[to] \in Seq(Packets)
    BY <1>0, <2>1 DEF POTypeOK, Packets
  <2>3. Append(socket[to], Outgoing(c)) \in Seq(Packets) /\ Append(wire, Outgoing(c)) \in Seq(Packets)
    BY <1>0, <2>1, <2>2, PacketSeqFacts DEF POTypeOK
  <2>4. /\ socket' = [socket EXCEPT ![to] = Append(socket[to], Outgoing(c))]
        /\ wire' = Append(wire, Outgoing(c))
    BY <1>4 DEF SendDelivered
  <2>5. /\ UNCHANGED <<scenario, power, inHdr, officeVars, step, lastMail, got, lost>>
        /\ sendPending' = [sendPending EXCEPT ![Home(c)] = @ + 1] /\ phase' = [phase EXCEPT ![c] = "sent"]
    BY <1>4 DEF SendDelivered, StartSend, Phase
  <2>6. socket' \in [Machines -> Seq(Packets)] /\ wire' \in Seq(Packets)
    BY <1>0, <2>2, <2>3, <2>4 DEF POTypeOK
  <2> HIDE DEF to
  <2>7. Home(c) \in Machines
    BY <1>0, SetupFacts
  <2>8. sendPending' \in [Machines -> Nat] /\ phase' \in [Clients -> {"begin", "locked", "sent", "failed", "refused"}]
    BY <1>0, <2>5, <2>7 DEF POTypeOK
  <2> QED BY <1>0, <2>5, <2>6, <2>8 DEF POTypeOK, officeVars
<1>5. ASSUME NEW c \in Clients, SendFailed(c)  PROVE POTypeOK'
  <2>1. /\ UNCHANGED <<scenario, power, socket, wire, lost, inHdr, officeVars, step, lastMail, got>>
        /\ sendPending' = [sendPending EXCEPT ![Home(c)] = @ + 1] /\ phase' = [phase EXCEPT ![c] = "failed"]
    BY <1>5 DEF SendFailed, StartSend, Phase
  <2>2. Home(c) \in Machines
    BY <1>0, SetupFacts
  <2>3. sendPending' \in [Machines -> Nat] /\ phase' \in [Clients -> {"begin", "locked", "sent", "failed", "refused"}]
    BY <1>0, <2>1, <2>2 DEF POTypeOK
  <2> QED BY <1>0, <2>1, <2>3 DEF POTypeOK, officeVars
<1>6. ASSUME NEW m \in Machines, SendDone(m)  PROVE POTypeOK'
  <2>1. /\ UNCHANGED <<scenario, power, socket, inHdr, available, sendLock, worker, boxes, clientVars, mailVars>>
        /\ sendPending[m] > 0 /\ sendPending' = [sendPending EXCEPT ![m] = @ - 1]
        /\ messageSent' = [messageSent EXCEPT ![m] = @ + 1]
    BY <1>6 DEF SendDone, PacketSent
  <2>2. sendPending' \in [Machines -> Nat] /\ messageSent' \in [Machines -> Nat]
    BY <1>0, <2>1 DEF POTypeOK
  <2> QED BY <1>0, <2>1, <2>2 DEF POTypeOK, clientVars, mailVars
<1>7. ASSUME NEW c \in Clients, SendReturn(c)  PROVE POTypeOK'
  <2>1. Home(c) \in Machines
    BY <1>0, SetupFacts
  <2>2. /\ UNCHANGED <<scenario, inHdr, sendPending, available, worker, boxes, lastMail, mailVars>>
        /\ messageSent[Home(c)] > 0
        /\ messageSent' = [messageSent EXCEPT ![Home(c)] = @ - 1]
        /\ sendLock' = [sendLock EXCEPT ![Home(c)] = NoClient]
    BY <1>7 DEF SendReturn
  <2>3. /\ step' \in [Clients -> Nat \ {0}]
        /\ phase' \in [Clients -> {"begin", "locked", "sent", "failed", "refused"}]
        /\ power' \in [Machines -> {"off", "on", "halted"}]
        /\ socket' \in [Machines -> Seq(Packets)]
    <3>1. << >> \in Seq(Packets)
      OBVIOUS
    <3>2. CASE phase[c] = "sent"
      <4>1. /\ UNCHANGED <<power, socket>> /\ phase' = [phase EXCEPT ![c] = "begin"]
            /\ step' = [step EXCEPT ![c] = @ + 1]
        BY <1>7, <3>2 DEF SendReturn, Proceed, Phase
      <4>2. step' \in [Clients -> Nat \ {0}]
        BY <1>0, <4>1 DEF POTypeOK
      <4> QED BY <1>0, <4>1, <4>2 DEF POTypeOK
    <3>3. CASE phase[c] # "sent"
      <4>1. /\ power' = [power EXCEPT ![Home(c)] = "halted"] /\ socket' = [socket EXCEPT ![Home(c)] = << >>]
            /\ phase' = [phase EXCEPT ![c] = "refused"] /\ UNCHANGED step
        BY <1>7, <3>3 DEF SendReturn, TurnOff, Phase
      <4>2. socket' \in [Machines -> Seq(Packets)]
        BY <1>0, <2>1, <3>1, <4>1 DEF POTypeOK
      <4> QED BY <1>0, <2>1, <4>1, <4>2 DEF POTypeOK
    <3> QED BY <3>2, <3>3
  <2>4. messageSent' \in [Machines -> Nat]
    <3>1. messageSent[Home(c)] - 1 \in Nat
      BY <1>0, <2>1, <2>2 DEF POTypeOK
    <3> QED BY <1>0, <2>1, <2>2, <3>1 DEF POTypeOK
  <2>5. sendLock' \in [Machines -> Clients \cup {NoClient}]
    BY <1>0, <2>1, <2>2 DEF POTypeOK
  <2> QED BY <1>0, <2>2, <2>3, <2>4, <2>5 DEF POTypeOK, mailVars
<1>8. ASSUME NEW m \in Machines, CheckPktAvail(m)  PROVE POTypeOK'
  <2>1. socket[m] \in Seq(Packets) /\ socket[m] # << >>
    BY <1>0, <1>8 DEF POTypeOK, CheckPktAvail
  <2>2. Head(socket[m]) \in Packets /\ Tail(socket[m]) \in Seq(Packets)
    BY <2>1, PacketSeqFacts
  <2>3. /\ UNCHANGED <<scenario, power, sendPending, messageSent, sendLock, worker, boxes, clientVars, mailVars>>
        /\ inHdr' = [inHdr EXCEPT ![m] = Head(socket[m])] /\ socket' = [socket EXCEPT ![m] = Tail(socket[m])]
        /\ available' = [available EXCEPT ![m] = @ + 1]
    BY <1>8 DEF CheckPktAvail, IncomingPacket
  <2>4. inHdr' \in [Machines -> Packets \cup {NoPacket}] /\ socket' \in [Machines -> Seq(Packets)]
    BY <1>0, <2>2, <2>3 DEF POTypeOK
  <2>5. available' \in [Machines -> Nat]
    BY <1>0, <2>3 DEF POTypeOK
  <2> QED BY <1>0, <2>3, <2>4, <2>5 DEF POTypeOK, clientVars, mailVars
<1>9. ASSUME NEW m \in Machines, WorkerWaits(m)  PROVE POTypeOK'
  BY <1>0, <1>9 DEF POTypeOK, WorkerWaits, deviceVars, clientVars, mailVars
<1>10. ASSUME NEW m \in Machines, WorkerReceives(m)  PROVE POTypeOK'
  <2>1. inHdr[m] \in Packets
    BY <1>0, <1>10 DEF POTypeOK, WorkerReceives, BufferHasItsMessage
  <2> QED BY <1>0, <1>10, <2>1 DEF POTypeOK, WorkerReceives, clientVars, mailVars
<1>11. ASSUME NEW m \in Machines, WorkerPuts(m)  PROVE POTypeOK'
  <2> DEFINE b == worker[m].mail.box
  <2>1. worker[m].mail \in Packets /\ b \in Boxes
    BY <1>0, <1>11 DEF POTypeOK, WorkerPuts, Packets
  <2>2. Append(boxes[m][b], worker[m].mail) \in Seq(Packets)
    BY <1>0, <2>1, PacketSeqFacts DEF POTypeOK
  <2>3. boxes' = [boxes EXCEPT ![m][b] = Append(boxes[m][b], worker[m].mail)]
    BY <1>11 DEF WorkerPuts, Put
  <2>4. boxes' \in [Machines -> [Boxes -> Seq(Packets)]]
    BY <1>0, <2>1, <2>2, <2>3 DEF POTypeOK
  <2> QED BY <1>0, <1>11, <2>4 DEF POTypeOK, WorkerPuts, deviceVars, clientVars, mailVars
<1>12. ASSUME NEW c \in Clients, ReceiveMail(c)  PROVE POTypeOK'
  <2> DEFINE m == Home(c)
             b == Next1(c).box
  <2>1. m \in Machines /\ b \in Boxes
    BY <1>0, <1>12, SetupFacts, OperationFacts DEF ReceiveMail, AtOp
  <2>2. boxes[m][b] \in Seq(Packets) /\ got[m][b] \in Seq(Packets) /\ boxes[m][b] # << >>
    BY <1>0, <1>12, <2>1 DEF POTypeOK, ReceiveMail, Get
  <2>3. /\ Head(boxes[m][b]) \in Packets /\ Tail(boxes[m][b]) \in Seq(Packets)
        /\ Append(got[m][b], Head(boxes[m][b])) \in Seq(Packets)
    BY <2>2, PacketSeqFacts
  <2>4. /\ lastMail' = [lastMail EXCEPT ![c] = Head(boxes[m][b])]
        /\ got' = [got EXCEPT ![m][b] = Append(got[m][b], Head(boxes[m][b]))]
        /\ boxes' = [boxes EXCEPT ![m][b] = Tail(boxes[m][b])]
    BY <1>12 DEF ReceiveMail, Get
  <2>5. /\ boxes' \in [Machines -> [Boxes -> Seq(Packets)]] /\ got' \in [Machines -> [Boxes -> Seq(Packets)]]
        /\ lastMail' \in [Clients -> Packets \cup {NoPacket}]
    BY <1>0, <2>1, <2>3, <2>4 DEF POTypeOK
  <2>6. step' \in [Clients -> Nat \ {0}] /\ phase' \in [Clients -> {"begin", "locked", "sent", "failed", "refused"}]
    BY <1>0, <1>12 DEF POTypeOK, ReceiveMail, Proceed, Phase
  <2>7. UNCHANGED <<scenario, power, deviceVars, available, messageSent, sendLock, worker, wire, lost>>
    BY <1>12 DEF ReceiveMail
  <2> QED BY <1>0, <2>5, <2>6, <2>7 DEF POTypeOK, deviceVars
<1>13. ASSUME NEW c \in Clients, HaltMachine(c)  PROVE POTypeOK'
  <2>1. Home(c) \in Machines /\ << >> \in Seq(Packets)
    BY <1>0, SetupFacts
  <2> QED BY <1>0, <1>13, <2>1 DEF POTypeOK, HaltMachine, TurnOff, Proceed, Phase, officeVars, mailVars
<1> QED BY <1>1, <1>2, <1>3, <1>4, <1>5, <1>6, <1>7, <1>8, <1>9, <1>10, <1>11, <1>12, <1>13 DEF PONext

----------------------------------------------------------------------------
(***************************************************************************)
(* Sending mail.                                                           *)
(***************************************************************************)
\* A step that leaves the clients' phases, operations and sendLock alone, and
\* turns interrupts into units at most, keeps the turns.
LEMMA TurnsUntouched ==
  ASSUME POTypeOK, SendersTakeTurns, UNCHANGED <<scenario, step, phase, sendLock>>,
         \A m \in Machines : (sendPending[m] + messageSent[m])' = sendPending[m] + messageSent[m]
  PROVE  SendersTakeTurns'
BY DEF SendersTakeTurns, Waits, Home, Program, Next1

\* A step of client c moves its own phase, with the lock of its own machine.
LEMMA SendersKept ==
  ASSUME POInv, PONext
  PROVE  SendersTakeTurns'
<1>0. POTypeOK /\ SendersTakeTurns
  BY DEF POInv
<1>a. \A c \in Clients : Home(c) \in Machines
  BY <1>0, SetupFacts
<1>b. /\ sendPending \in [Machines -> Nat] /\ messageSent \in [Machines -> Nat]
      /\ sendLock \in [Machines -> Clients \cup {NoClient}]
      /\ phase \in [Clients -> {"begin", "locked", "sent", "failed", "refused"}]
      /\ step \in [Clients -> Nat \ {0}]
  BY <1>0 DEF POTypeOK
<1>1. ASSUME NEW m \in Machines, PowerOn(m)  PROVE SendersTakeTurns'
  BY <1>0, <1>1, TurnsUntouched DEF PowerOn, deviceVars, officeVars, clientVars
<1>2. ASSUME NEW c \in Clients, LockSend(c)  PROVE SendersTakeTurns'
  <2>1. /\ UNCHANGED <<scenario, sendPending, messageSent, step>>
        /\ phase[c] = "begin" /\ sendLock[Home(c)] = NoClient
        /\ phase' = [phase EXCEPT ![c] = "locked"]
        /\ sendLock' = [sendLock EXCEPT ![Home(c)] = c]
        /\ Next1(c).op \in {"send", "reply"}
    BY <1>2 DEF LockSend, Phase, Sends, AtOp, deviceVars
  <2>2. \A d \in Clients : Home(d)' = Home(d) /\ Next1(d)' = Next1(d)
    BY <2>1 DEF Home, Next1, Program
  <2>3. NoClient \notin Clients
    BY PostOfficeAssumption
  <2>4. \A d \in Clients : phase'[d] \in Inside <=> sendLock'[Home(d)] = d
    BY <1>0, <1>a, <1>b, <2>1, <2>3 DEF SendersTakeTurns, Inside
  <2>5. \A d \in Clients : phase'[d] # "begin" => Next1(d).op \in {"send", "reply"}
    BY <1>0, <1>b, <2>1 DEF SendersTakeTurns
  <2>6. \A m \in Machines : sendLock'[m] # NoClient => Home(sendLock'[m]) = m
    BY <1>0, <1>a, <1>b, <2>1 DEF SendersTakeTurns
  <2>7. \A m \in Machines : Waits(m)' <=> Waits(m)
    BY <1>0, <1>a, <1>b, <2>1, <2>3 DEF SendersTakeTurns, Waits, Inside
  <2> QED BY <1>0, <1>b, <2>1, <2>2, <2>4, <2>5, <2>6, <2>7 DEF SendersTakeTurns
<1>3. ASSUME NEW c \in Clients, StartSend(c), UNCHANGED messageSent,
             phase' = [phase EXCEPT ![c] = "sent"] \/ phase' = [phase EXCEPT ![c] = "failed"]
      PROVE  SendersTakeTurns'
  <2>1. /\ UNCHANGED <<scenario, messageSent, step, sendLock>>
        /\ phase[c] = "locked" /\ sendLock[Home(c)] = c
        /\ sendPending' = [sendPending EXCEPT ![Home(c)] = @ + 1]
    BY <1>0, <1>3 DEF StartSend, officeVars, SendersTakeTurns, Inside
  <2>2. \A d \in Clients : Home(d)' = Home(d) /\ Next1(d)' = Next1(d)
    BY <2>1 DEF Home, Next1, Program
  <2>3. NoClient \notin Clients
    BY PostOfficeAssumption
  <2>4. \A d \in Clients : phase'[d] \in Inside <=> phase[d] \in Inside
    BY <1>3, <1>b, <2>1 DEF Inside
  <2>5. \A d \in Clients : phase'[d] # "begin" => phase[d] # "begin"
    BY <1>3, <1>b, <2>1
  <2>6. \A m \in Machines : m = Home(c) => Waits(m)' /\ ~Waits(m)
    BY <1>3, <1>b, <2>1, <2>3 DEF Waits
  <2>7. \A m \in Machines \ {Home(c)} : Waits(m)' <=> Waits(m)
    <3>1. \A m \in Machines \ {Home(c)} : sendLock[m] # c
      BY <1>0, <2>3 DEF SendersTakeTurns
    <3> QED BY <1>3, <1>b, <2>1, <3>1 DEF Waits
  <2>8. \A m \in Machines : sendPending'[m] + messageSent'[m] = IF Waits(m)' THEN 1 ELSE 0
    BY <1>0, <1>a, <1>b, <2>1, <2>6, <2>7 DEF SendersTakeTurns
  <2> QED BY <1>0, <2>1, <2>2, <2>4, <2>5, <2>8 DEF SendersTakeTurns, Home, Next1, Program
<1>4. ASSUME NEW c \in Clients, SendLost(c) \/ SendDelivered(c) \/ SendFailed(c)  PROVE SendersTakeTurns'
  BY <1>3, <1>4 DEF SendLost, SendDelivered, SendFailed, StartSend, officeVars, Phase
<1>5. ASSUME NEW m \in Machines, SendDone(m)  PROVE SendersTakeTurns'
  <2>1. /\ UNCHANGED <<scenario, step, phase, sendLock>>
        /\ sendPending[m] > 0 /\ sendPending' = [sendPending EXCEPT ![m] = @ - 1]
        /\ messageSent' = [messageSent EXCEPT ![m] = @ + 1]
    BY <1>5 DEF SendDone, PacketSent, clientVars
  <2>2. \A n \in Machines : (sendPending[n] + messageSent[n])' = sendPending[n] + messageSent[n]
    BY <1>b, <2>1
  <2> QED BY <1>0, <2>1, <2>2, TurnsUntouched
<1>6. ASSUME NEW c \in Clients, SendReturn(c)  PROVE SendersTakeTurns'
  <2>1. /\ UNCHANGED <<scenario, sendPending>>
        /\ phase[c] \in {"sent", "failed"} /\ sendLock[Home(c)] = c
        /\ messageSent[Home(c)] > 0 /\ messageSent' = [messageSent EXCEPT ![Home(c)] = @ - 1]
        /\ sendLock' = [sendLock EXCEPT ![Home(c)] = NoClient]
        /\ \/ phase' = [phase EXCEPT ![c] = "begin"] /\ step' = [step EXCEPT ![c] = @ + 1]
           \/ phase' = [phase EXCEPT ![c] = "refused"] /\ UNCHANGED step
    BY <1>0, <1>6 DEF SendReturn, Proceed, Phase, SendersTakeTurns, Inside
  <2>2. \A d \in Clients : Home(d)' = Home(d)
    BY <2>1 DEF Home
  <2>3. NoClient \notin Clients
    BY PostOfficeAssumption
  <2>4. \A d \in Clients : phase'[d] \in Inside <=> sendLock'[Home(d)] = d
    <3>1. phase'[c] \notin Inside /\ \A d \in Clients \ {c} : phase'[d] = phase[d]
      BY <1>b, <2>1 DEF Inside
    <3>2. sendLock'[Home(c)] = NoClient /\ \A m \in Machines \ {Home(c)} : sendLock'[m] = sendLock[m]
      BY <1>a, <1>b, <2>1
    <3> QED BY <1>0, <1>a, <2>1, <2>3, <3>1, <3>2 DEF SendersTakeTurns
  <2>5. \A d \in Clients : phase'[d] # "begin" => phase[d] # "begin" /\ Next1(d)' = Next1(d)
    <3>1. phase'[c] # "begin" => UNCHANGED step
      BY <1>b, <2>1
    <3>2. \A d \in Clients \ {c} : phase'[d] = phase[d] /\ step'[d] = step[d]
      BY <1>b, <2>1
    <3>3. phase[c] # "begin"
      BY <2>1
    <3> QED BY <2>1, <3>1, <3>2, <3>3 DEF Next1, Program
  <2>6. \A m \in Machines : sendLock'[m] # NoClient => Home(sendLock'[m]) = m
    BY <1>0, <1>a, <1>b, <2>1 DEF SendersTakeTurns
  <2>7. \A m \in Machines : m = Home(c) => Waits(m) /\ ~Waits(m)'
    BY <1>a, <1>b, <2>1, <2>3 DEF Waits
  <2>8. \A m \in Machines \ {Home(c)} : Waits(m)' <=> Waits(m)
    <3>1. \A m \in Machines \ {Home(c)} : sendLock[m] # c /\ sendLock'[m] = sendLock[m]
      BY <1>0, <1>b, <2>1, <2>3 DEF SendersTakeTurns
    <3> QED BY <1>b, <2>1, <3>1 DEF Waits
  <2>9. \A m \in Machines : sendPending'[m] + messageSent'[m] = IF Waits(m)' THEN 1 ELSE 0
    BY <1>0, <1>a, <1>b, <2>1, <2>7, <2>8 DEF SendersTakeTurns
  <2>10. \A d \in Clients : phase'[d] # "begin" => Next1(d)'.op \in {"send", "reply"}
    BY <1>0, <2>5 DEF SendersTakeTurns
  <2>11. UNCHANGED scenario
    BY <2>1
  <2> QED BY <2>4, <2>6, <2>9, <2>10, <2>11 DEF SendersTakeTurns, Home
<1>7. ASSUME NEW m \in Machines, CheckPktAvail(m) \/ WorkerWaits(m) \/ WorkerReceives(m) \/ WorkerPuts(m)
      PROVE  SendersTakeTurns'
  BY <1>0, <1>7, TurnsUntouched DEF CheckPktAvail, WorkerWaits, WorkerReceives, WorkerPuts, deviceVars, clientVars
<1>8. ASSUME NEW c \in Clients, ReceiveMail(c) \/ HaltMachine(c)  PROVE SendersTakeTurns'
  <2>1. /\ UNCHANGED <<scenario, sendPending, messageSent, sendLock>>
        /\ phase' = [phase EXCEPT ![c] = "begin"] /\ step' = [step EXCEPT ![c] = @ + 1]
        /\ Next1(c).op \notin {"send", "reply"}
    BY <1>8 DEF ReceiveMail, HaltMachine, Proceed, Phase, AtOp, officeVars, deviceVars
  <2>2. phase[c] = "begin" /\ UNCHANGED phase
    BY <1>0, <1>b, <2>1 DEF SendersTakeTurns
  <2>3. \A d \in Clients : phase[d] # "begin" => Next1(d)' = Next1(d)
    BY <1>b, <2>1, <2>2 DEF Next1, Program
  <2>4. \A d \in Clients : Home(d)' = Home(d)
    BY <2>1 DEF Home
  <2> QED BY <1>0, <2>1, <2>2, <2>3, <2>4 DEF SendersTakeTurns, Waits, Home, Next1, Program
<1> QED BY <1>1, <1>2, <1>4, <1>5, <1>6, <1>7, <1>8 DEF PONext

\* Whoever has received goes on with mail to reply to.
LEMMA RepliesKept ==
  ASSUME POInv, PONext
  PROVE  RepliesHaveMail'
<1>0. POTypeOK /\ RepliesHaveMail
  BY DEF POInv
<1>1. step \in [Clients -> Nat \ {0}] /\ lastMail \in [Clients -> Packets \cup {NoPacket}]
  BY <1>0 DEF POTypeOK
<1>2. ASSUME UNCHANGED <<scenario, step, lastMail>>  PROVE RepliesHaveMail'
  BY <1>0, <1>2 DEF RepliesHaveMail, Program
<1>3. ASSUME NEW c \in Clients, ReceiveMail(c)  PROVE RepliesHaveMail'
  <2> DEFINE m == Home(c)
             b == Next1(c).box
  <2>1. m \in Machines /\ b \in Boxes
    BY <1>0, <1>3, SetupFacts, OperationFacts DEF ReceiveMail, AtOp
  <2>2. boxes[m][b] \in Seq(Packets) /\ boxes[m][b] # << >>
    BY <1>0, <1>3, <2>1 DEF POTypeOK, ReceiveMail, Get
  <2>3. Head(boxes[m][b]) \in Packets
    BY <2>2, PacketSeqFacts
  <2>4. lastMail' = [lastMail EXCEPT ![c] = Head(boxes[m][b])] /\ step' = [step EXCEPT ![c] = @ + 1] /\ UNCHANGED scenario
    BY <1>3 DEF ReceiveMail, Get, Proceed
  <2>5. lastMail'[c] \in Packets
    BY <1>1, <2>3, <2>4
  <2>6. \A d \in Clients \ {c} : lastMail'[d] = lastMail[d] /\ step'[d] = step[d]
    BY <1>1, <2>4
  <2> QED BY <1>0, <2>4, <2>5, <2>6 DEF RepliesHaveMail, Program
<1>4. ASSUME NEW c \in Clients, step' = [step EXCEPT ![c] = @ + 1], UNCHANGED <<scenario, lastMail>>,
             Next1(c).op # "receive"
      PROVE  RepliesHaveMail'
  <2> SUFFICES ASSUME NEW d \in Clients, NEW i \in 1 .. step'[d] - 1, i <= Len(Program(d)), Program(d)[i].op = "receive"
               PROVE  lastMail[d] \in Packets
    BY <1>4 DEF RepliesHaveMail, Program
  <2>1. CASE i \in 1 .. step[d] - 1
    BY <1>0, <2>1 DEF RepliesHaveMail
  <2>2. CASE i \notin 1 .. step[d] - 1
    <3>1. d = c /\ i = step[c]
      BY <1>1, <1>4, <2>2
    <3>2. Next1(c) = Program(c)[i]
      BY <3>1 DEF Next1
    <3> QED BY <1>4, <3>1, <3>2
  <2> QED BY <2>1, <2>2
<1>5. ASSUME NEW c \in Clients, SendReturn(c)  PROVE RepliesHaveMail'
  <2>1. Next1(c).op # "receive"
    BY <1>5 DEF POInv, SendersTakeTurns, SendReturn
  <2>2. (step' = [step EXCEPT ![c] = @ + 1] \/ UNCHANGED step) /\ UNCHANGED <<scenario, lastMail>>
    BY <1>5 DEF SendReturn, Proceed
  <2> QED BY <1>2, <1>4, <2>1, <2>2
<1>6. ASSUME NEW c \in Clients, HaltMachine(c)  PROVE RepliesHaveMail'
  BY <1>4, <1>6 DEF HaltMachine, Proceed, AtOp
<1> QED BY <1>2, <1>3, <1>5, <1>6 DEF PONext, PowerOn, LockSend, SendLost, SendDelivered, SendFailed, StartSend, SendDone,
           CheckPktAvail, WorkerWaits, WorkerReceives, WorkerPuts, clientVars

----------------------------------------------------------------------------
(***************************************************************************)
(* The way of the mail.                                                    *)
(***************************************************************************)
\* A message is announced when the buffer becomes full, and the postal worker
\* empties it.
LEMMA MessageKept ==
  ASSUME POInv, PONext
  PROVE  BufferHasItsMessage'
<1>0. POTypeOK /\ BufferHasItsMessage
  BY DEF POInv
<1>1. ASSUME UNCHANGED <<available, worker, inHdr>>  PROVE BufferHasItsMessage'
  BY <1>0, <1>1 DEF BufferHasItsMessage
<1>2. ASSUME NEW m \in Machines, CheckPktAvail(m)  PROVE BufferHasItsMessage'
  <2>1. socket[m] \in Seq(Packets) /\ socket[m] # << >>
    BY <1>0, <1>2 DEF POTypeOK, CheckPktAvail
  <2>2. Head(socket[m]) # NoPacket
    BY <2>1, PacketSeqFacts, NoPacketFacts
  <2> QED BY <1>0, <1>2, <2>2 DEF BufferHasItsMessage, CheckPktAvail, IncomingPacket, POTypeOK
<1>3. ASSUME NEW m \in Machines, WorkerWaits(m)  PROVE BufferHasItsMessage'
  <2>1. /\ UNCHANGED inHdr
        /\ worker[m].at = "P" /\ available[m] > 0
        /\ available' = [available EXCEPT ![m] = @ - 1] /\ worker' = [worker EXCEPT ![m].at = "Receive"]
    BY <1>3 DEF WorkerWaits, deviceVars
  <2>2. worker'[m].at = "Receive" /\ available'[m] = available[m] - 1
    BY <1>0, <2>1 DEF POTypeOK
  <2>3. \A n \in Machines \ {m} : worker'[n] = worker[n] /\ available'[n] = available[n]
    BY <1>0, <2>1 DEF POTypeOK
  <2>4. available \in [Machines -> Nat]
    BY <1>0 DEF POTypeOK
  <2> QED BY <1>0, <2>1, <2>2, <2>3, <2>4 DEF BufferHasItsMessage
<1>4. ASSUME NEW m \in Machines, WorkerReceives(m)  PROVE BufferHasItsMessage'
  <2>1. /\ UNCHANGED available
        /\ worker[m].at = "Receive" /\ worker'[m].at = "Put" /\ inHdr'[m] = NoPacket
        /\ \A n \in Machines \ {m} : worker'[n] = worker[n] /\ inHdr'[n] = inHdr[n]
    BY <1>0, <1>4 DEF WorkerReceives, POTypeOK
  <2>2. available \in [Machines -> Nat]
    BY <1>0 DEF POTypeOK
  <2> QED BY <1>0, <2>1, <2>2 DEF BufferHasItsMessage
<1>5. ASSUME NEW m \in Machines, WorkerPuts(m)  PROVE BufferHasItsMessage'
  <2>1. /\ UNCHANGED <<available, inHdr>>
        /\ worker[m].at = "Put" /\ worker'[m].at = "P"
        /\ \A n \in Machines \ {m} : worker'[n] = worker[n]
    BY <1>0, <1>5 DEF WorkerPuts, POTypeOK, deviceVars
  <2> QED BY <1>0, <2>1 DEF BufferHasItsMessage
<1> QED BY <1>1, <1>2, <1>3, <1>4, <1>5 DEF PONext, PowerOn, LockSend, SendLost, SendDelivered, SendFailed, StartSend, SendDone,
           SendReturn, ReceiveMail, HaltMachine, deviceVars, officeVars

\* Concatenation of packets.
LEMMA PacketConcat ==
  /\ << >> \in Seq(Packets)
  /\ \A p \in Packets : <<p>> \in Seq(Packets)
  /\ \A r \in Seq(Packets) : r \o << >> = r /\ << >> \o r = r
  /\ \A r, s, t \in Seq(Packets) : (r \o s) \o t = r \o (s \o t) /\ r \o s \in Seq(Packets)
<1>1. << >> \in Seq(Packets) /\ \A p \in Packets : <<p>> \in Seq(Packets)
  OBVIOUS
<1>2. \A r \in Seq(Packets) : r \o << >> = r /\ << >> \o r = r
  BY ConcatEmptySeq
<1>3. ASSUME NEW r \in Seq(Packets), NEW s \in Seq(Packets), NEW t \in Seq(Packets)
      PROVE  (r \o s) \o t = r \o (s \o t) /\ r \o s \in Seq(Packets)
  BY ConcatAssociative, ConcatProperties
<1> QED BY <1>1, <1>2, <1>3

\* The way of a machine, from its worker to its socket.
Held(m) == IF worker[m].at = "Put" THEN <<worker[m].mail>> ELSE << >>
Buffered(m) == IF inHdr[m] = NoPacket THEN << >> ELSE <<inHdr[m]>>

LEMMA WayFacts ==
  ASSUME POTypeOK, NEW m \in Machines
  PROVE  /\ Held(m) \in Seq(Packets) /\ Buffered(m) \in Seq(Packets) /\ socket[m] \in Seq(Packets)
         /\ OnItsWay(m) = (Held(m) \o Buffered(m)) \o socket[m]
         /\ OnItsWay(m) \in Seq(Packets)
<1>1. Held(m) \in Seq(Packets) /\ Buffered(m) \in Seq(Packets) /\ socket[m] \in Seq(Packets)
  BY DEF POTypeOK, Held, Buffered
<1>2. OnItsWay(m) = (Held(m) \o Buffered(m)) \o socket[m]
  BY DEF OnItsWay, Held, Buffered
<1> QED BY <1>1, <1>2, ConcatProperties

\* A packet that arrives is the last on its way.
LEMMA PacketArrives ==
  ASSUME POTypeOK, POTypeOK', NEW m \in Machines, NEW p \in Packets,
         UNCHANGED <<worker, inHdr>>, socket'[m] = Append(socket[m], p)
  PROVE  OnItsWay(m)' = Append(OnItsWay(m), p)
<1> DEFINE front == Held(m) \o Buffered(m)
<1>1. front \in Seq(Packets) /\ socket[m] \in Seq(Packets) /\ OnItsWay(m) = front \o socket[m]
  BY WayFacts, ConcatProperties
<1>2. OnItsWay(m)' = front \o Append(socket[m], p)
  BY DEF OnItsWay, Held, Buffered
<1> HIDE DEF front
<1> QED BY <1>1, <1>2, AppendOfConcat

\* The network's buffer, and the postal worker, take the first packet from
\* where it was: the way stays the same.
LEMMA PacketMoves ==
  ASSUME POInv, NEW m \in Machines, CheckPktAvail(m) \/ WorkerWaits(m) \/ WorkerReceives(m)
  PROVE  OnItsWay(m)' = OnItsWay(m)
<1>0. POTypeOK /\ BufferHasItsMessage
  BY DEF POInv
<1>1. CASE CheckPktAvail(m)
  <2>1. /\ socket[m] \in Seq(Packets) /\ socket[m] # << >>
        /\ inHdr[m] = NoPacket /\ UNCHANGED worker
        /\ socket'[m] = Tail(socket[m]) /\ inHdr'[m] = Head(socket[m])
    BY <1>0, <1>1 DEF POTypeOK, CheckPktAvail
  <2>2. /\ Head(socket[m]) # NoPacket /\ Tail(socket[m]) \in Seq(Packets) /\ <<Head(socket[m])>> \in Seq(Packets)
        /\ socket[m] = <<Head(socket[m])>> \o Tail(socket[m])
    BY <2>1, PacketSeqFacts, NoPacketFacts
  <2>3. Held(m) \in Seq(Packets)
    BY <1>0, WayFacts
  <2>4. OnItsWay(m) = (Held(m) \o << >>) \o socket[m]
    BY <2>1 DEF OnItsWay, Held
  <2>5. OnItsWay(m)' = (Held(m) \o <<Head(socket[m])>>) \o Tail(socket[m])
    BY <2>1, <2>2 DEF OnItsWay, Held
  <2>6. (Held(m) \o <<Head(socket[m])>>) \o Tail(socket[m]) = Held(m) \o socket[m]
    <3> DEFINE front == <<Head(socket[m])>>
               rest == Tail(socket[m])
               held == Held(m)
    <3>1. held \in Seq(Packets) /\ front \in Seq(Packets) /\ rest \in Seq(Packets) /\ socket[m] = front \o rest
      BY <2>2, <2>3
    <3> HIDE DEF front, rest, held
    <3>2. (held \o front) \o rest = held \o (front \o rest)
      BY <3>1, PacketConcat
    <3> QED BY <3>1, <3>2 DEF front, rest, held
  <2> QED BY <2>3, <2>4, <2>5, <2>6, PacketConcat
<1>2. CASE WorkerWaits(m)
  <2>1. worker[m].at = "P" /\ worker'[m].at = "Receive" /\ UNCHANGED <<inHdr, socket>>
    BY <1>0, <1>2 DEF POTypeOK, WorkerWaits, deviceVars
  <2> QED BY <2>1 DEF OnItsWay
<1>3. CASE WorkerReceives(m)
  <2>1. /\ worker[m].at = "Receive" /\ worker'[m] = [at |-> "Put", mail |-> inHdr[m]]
        /\ inHdr'[m] = NoPacket /\ UNCHANGED socket
    BY <1>0, <1>3 DEF POTypeOK, WorkerReceives
  <2>2. inHdr[m] \in Packets
    BY <1>0, <2>1 DEF POTypeOK, BufferHasItsMessage
  <2>3. /\ OnItsWay(m) = (<< >> \o <<inHdr[m]>>) \o socket[m]
        /\ OnItsWay(m)' = (<<inHdr[m]>> \o << >>) \o socket[m]
    <3>1. inHdr[m] # NoPacket
      BY <2>2, NoPacketFacts
    <3>2. worker'[m].at = "Put" /\ worker'[m].mail = inHdr[m]
      BY <2>1
    <3>3. OnItsWay(m) = (<< >> \o <<inHdr[m]>>) \o socket[m]
      BY <2>1, <3>1 DEF OnItsWay
    <3>4. OnItsWay(m)' = (<<inHdr[m]>> \o << >>) \o socket[m]
      BY <2>1, <3>2 DEF OnItsWay
    <3> QED BY <3>3, <3>4
  <2> QED BY <2>2, <2>3, PacketConcat
<1> QED BY <1>1, <1>2, <1>3

\* Put takes the first packet of the way.
LEMMA PacketIsPut ==
  ASSUME POTypeOK, NEW m \in Machines, WorkerPuts(m), POTypeOK'
  PROVE  /\ worker[m].mail \in Packets
         /\ OnItsWay(m) = <<worker[m].mail>> \o OnItsWay(m)'
         /\ OnItsWay(m)' \in Seq(Packets)
<1>1. /\ worker[m].at = "Put" /\ worker'[m].at = "P" /\ UNCHANGED <<inHdr, socket>>
      /\ worker[m].mail \in Packets
  BY DEF WorkerPuts, POTypeOK, deviceVars
<1>2. OnItsWay(m) = (<<worker[m].mail>> \o Buffered(m)) \o socket[m]
  BY <1>1 DEF OnItsWay, Buffered
<1>3. OnItsWay(m)' = (<< >> \o Buffered(m)) \o socket[m]
  BY <1>1 DEF OnItsWay, Buffered
<1>4. Buffered(m) \in Seq(Packets) /\ socket[m] \in Seq(Packets) /\ <<worker[m].mail>> \in Seq(Packets)
  BY <1>1, WayFacts, PacketConcat
<1>5. OnItsWay(m)' = Buffered(m) \o socket[m]
  BY <1>3, <1>4, PacketConcat
<1>6. OnItsWay(m) = <<worker[m].mail>> \o (Buffered(m) \o socket[m])
  <2> DEFINE front == <<worker[m].mail>>
             middle == Buffered(m)
             rest == socket[m]
  <2>1. front \in Seq(Packets) /\ middle \in Seq(Packets) /\ rest \in Seq(Packets)
    BY <1>4
  <2> HIDE DEF front, middle, rest
  <2>2. (front \o middle) \o rest = front \o (middle \o rest)
    BY <2>1, PacketConcat
  <2> QED BY <1>2, <2>2 DEF front, middle, rest
<1>7. Buffered(m) \o socket[m] \in Seq(Packets)
  BY <1>4, PacketConcat
<1> QED BY <1>1, <1>5, <1>6, <1>7

\* MailIsInOrder after a step, from the parts after it.
LEMMA OrderThen ==
  ASSUME NEW m \in Machines, NEW b \in Boxes
  PROVE  InOrder(m, b)' <=> (got'[m][b] \o boxes'[m][b]) \o ForBox(OnItsWay(m)', m, b) = ForBox(wire', m, b)
BY DEF InOrder, ForBox

LEMMA WayStays ==
  ASSUME NEW m \in Machines, worker'[m] = worker[m], inHdr'[m] = inHdr[m], socket'[m] = socket[m]
  PROVE  OnItsWay(m)' = OnItsWay(m)
BY DEF OnItsWay

\* One packet more on the way to m, and on the wire: at the end of both.
LEMMA MailArrives ==
  ASSUME POInv, POTypeOK', NEW c \in Clients, SendDelivered(c)
  PROVE  MailIsInOrder'
<1>0. POTypeOK /\ RepliesHaveMail /\ MailIsInOrder
  BY DEF POInv
<1> DEFINE p == Outgoing(c)
<1>1. p \in Packets /\ p.to \in Machines /\ power[p.to] = "on"
  BY <1>0, OutgoingIsAPacket DEF SendDelivered, StartSend, Packets
<1>2. /\ socket' = [socket EXCEPT ![p.to] = Append(@, p)] /\ wire' = Append(wire, p)
      /\ UNCHANGED <<power, inHdr, worker, boxes, got>>
  BY DEF SendDelivered, StartSend, officeVars
<1> HIDE DEF p
<1>3. socket \in [Machines -> Seq(Packets)] /\ wire \in Seq(Packets)
  BY <1>0 DEF POTypeOK
<1> SUFFICES ASSUME NEW m \in Machines, NEW b \in Boxes, power[m] # "halted"  PROVE InOrder(m, b)'
  BY <1>2 DEF MailIsInOrder
<1>4. InOrder(m, b)
  BY <1>0 DEF MailIsInOrder
<1> DEFINE way == OnItsWay(m)
           taken == got[m][b] \o boxes[m][b]
<1>5. way \in Seq(Packets)
  BY <1>0, WayFacts
<1>6. taken \in Seq(Packets)
  BY <1>0, PacketConcat DEF POTypeOK
<1>7. taken \o ForBox(way, m, b) = ForBox(wire, m, b) /\ ForBox(way, m, b) \in Seq(Packets)
  BY <1>4, <1>5, ForBoxAppend, <1>1 DEF InOrder
<1>8. ForBox(wire', m, b) = Kept(ForBox(wire, m, b), p, m, b)
  BY <1>1, <1>2, <1>3, ForBoxAppend
<1>9. taken' = taken
  BY <1>2
<1>10. InOrder(m, b)' <=> taken' \o ForBox(way', m, b) = ForBox(wire', m, b)
  BY OrderThen
<1> HIDE DEF taken
<1>11. CASE p.to = m
  <2>1. socket'[m] = Append(socket[m], p)
    BY <1>2, <1>3, <1>11
  <2>2. way' = Append(way, p)
    BY <1>0, <1>1, <1>2, <2>1, PacketArrives
  <2> HIDE DEF way
  <2>3. ForBox(way', m, b) = Kept(ForBox(way, m, b), p, m, b)
    BY <1>1, <1>5, <2>2, ForBoxAppend
  <2>4. Append(taken \o ForBox(way, m, b), p) = taken \o Append(ForBox(way, m, b), p)
    BY <1>1, <1>6, <1>7, AppendOfConcat, Zenon
  <2> QED BY <1>7, <1>8, <1>9, <1>10, <2>3, <2>4 DEF Kept
<1>12. CASE p.to # m
  <2>1. socket'[m] = socket[m]
    BY <1>2, <1>3, <1>12
  <2>2. way' = way
    BY <1>2, <2>1, WayStays
  <2>3. ForBox(wire', m, b) = ForBox(wire, m, b)
    BY <1>8, <1>12 DEF Kept
  <2> HIDE DEF way
  <2> QED BY <1>7, <1>9, <1>10, <2>2, <2>3
<1> QED BY <1>11, <1>12

\* A packet goes to the socket of the machine it is for.
LEMMA DestinationsKept ==
  ASSUME POInv, PONext, POTypeOK'
  PROVE  MailIsAtItsMachine'
<1>0. POTypeOK /\ RepliesHaveMail /\ BufferHasItsMessage /\ MailIsAtItsMachine
  BY DEF POInv
<1>a. socket \in [Machines -> Seq(Packets)] /\ inHdr \in [Machines -> Packets \cup {NoPacket}]
  BY <1>0 DEF POTypeOK
<1>1. ASSUME UNCHANGED <<socket, inHdr, worker>>  PROVE MailIsAtItsMachine'
  BY <1>0, <1>1 DEF MailIsAtItsMachine
<1>2. ASSUME NEW c \in Clients, SendDelivered(c)  PROVE MailIsAtItsMachine'
  <2> DEFINE p == Outgoing(c)
             old == socket[p.to]
             new == Append(old, p)
  <2>1. p \in Packets /\ p.to \in Machines /\ old \in Seq(Packets)
    BY <1>0, <1>2, <1>a, OutgoingIsAPacket DEF SendDelivered, StartSend, Packets
  <2>2. socket' = [socket EXCEPT ![p.to] = new] /\ UNCHANGED <<inHdr, worker>>
    BY <1>2 DEF SendDelivered, StartSend, officeVars
  <2>3. \A i \in DOMAIN old : old[i].to = p.to
    BY <1>0, <2>1 DEF MailIsAtItsMachine
  <2> HIDE DEF p, old
  <2>4. \A i \in DOMAIN new : new[i].to = p.to
    <3>1. DOMAIN old = 1 .. Len(old) /\ Len(old) \in Nat /\ DOMAIN new = 1 .. Len(old) + 1
      BY <2>1, AppendProperties, LenProperties
    <3>2. new[Len(old) + 1] = p /\ \A i \in 1 .. Len(old) : new[i] = old[i]
      BY <2>1, AppendProperties
    <3> HIDE DEF new
    <3> QED BY <2>3, <3>1, <3>2
  <2> HIDE DEF new
  <2>5. \A m \in Machines : socket'[m] = IF m = p.to THEN new ELSE socket[m]
    BY <1>a, <2>2
  <2> QED BY <1>0, <2>2, <2>4, <2>5 DEF MailIsAtItsMachine
<1>3. ASSUME NEW c \in Clients, NEW m \in Machines, socket' = [socket EXCEPT ![m] = << >>], UNCHANGED <<inHdr, worker>>
      PROVE  MailIsAtItsMachine'
  <2>1. \A n \in Machines : socket'[n] = IF n = m THEN << >> ELSE socket[n]
    BY <1>3, <1>a
  <2>2. DOMAIN << >> = {}
    OBVIOUS
  <2> QED BY <1>0, <1>3, <2>1, <2>2 DEF MailIsAtItsMachine
<1>4. ASSUME NEW c \in Clients, SendReturn(c) \/ HaltMachine(c)  PROVE MailIsAtItsMachine'
  <2>1. Home(c) \in Machines
    BY <1>0, SetupFacts
  <2>2. UNCHANGED <<inHdr, worker>> /\ (UNCHANGED socket \/ socket' = [socket EXCEPT ![Home(c)] = << >>])
    BY <1>4 DEF SendReturn, HaltMachine, TurnOff, officeVars
  <2> QED BY <1>1, <1>3, <2>1, <2>2
<1>5. ASSUME NEW m \in Machines, CheckPktAvail(m)  PROVE MailIsAtItsMachine'
  <2> DEFINE old == socket[m]
             new == Tail(old)
  <2>1. old \in Seq(Packets) /\ old # << >> /\ \A i \in DOMAIN old : old[i].to = m
    BY <1>0, <1>5, <1>a DEF CheckPktAvail, MailIsAtItsMachine
  <2>2. /\ socket' = [socket EXCEPT ![m] = new] /\ inHdr' = [inHdr EXCEPT ![m] = Head(old)] /\ UNCHANGED worker
    BY <1>5 DEF CheckPktAvail
  <2> HIDE DEF old
  <2>3. Head(old).to = m /\ \A i \in DOMAIN new : new[i].to = m
    <3>1. /\ Len(old) \in Nat \ {0} /\ DOMAIN old = 1 .. Len(old) /\ Head(old) = old[1]
      BY <2>1, LenProperties, EmptySeq, HeadTailProperties
    <3>2. DOMAIN new = 1 .. Len(old) - 1 /\ \A i \in 1 .. Len(old) - 1 : new[i] = old[i + 1]
      BY <2>1, HeadTailProperties, LenProperties
    <3> HIDE DEF new
    <3> QED BY <2>1, <3>1, <3>2
  <2> HIDE DEF new
  <2>4. \A n \in Machines : /\ socket'[n] = IF n = m THEN new ELSE socket[n]
                            /\ inHdr'[n] = IF n = m THEN Head(old) ELSE inHdr[n]
    BY <1>a, <2>2
  <2> QED BY <1>0, <2>2, <2>3, <2>4 DEF MailIsAtItsMachine
<1>6. ASSUME NEW m \in Machines, WorkerWaits(m) \/ WorkerReceives(m) \/ WorkerPuts(m)  PROVE MailIsAtItsMachine'
  <2>1. UNCHANGED socket /\ \A n \in Machines \ {m} : worker'[n] = worker[n] /\ inHdr'[n] = inHdr[n]
    BY <1>0, <1>6 DEF POTypeOK, WorkerWaits, WorkerReceives, WorkerPuts, deviceVars
  <2>2. inHdr'[m] = inHdr[m] \/ inHdr'[m] = NoPacket
    BY <1>6, <1>a DEF WorkerWaits, WorkerReceives, WorkerPuts, deviceVars
  <2>3. CASE WorkerReceives(m)
    <3>1. inHdr[m] # NoPacket /\ worker'[m].mail = inHdr[m]
      BY <1>0, <2>3 DEF POTypeOK, WorkerReceives, BufferHasItsMessage
    <3> QED BY <1>0, <2>1, <2>2, <3>1 DEF MailIsAtItsMachine
  <2>4. CASE WorkerWaits(m) \/ WorkerPuts(m)
    <3>1. worker'[m].at # "Put"
      BY <1>0, <2>4 DEF POTypeOK, WorkerWaits, WorkerPuts
    <3> QED BY <1>0, <2>1, <2>2, <3>1 DEF MailIsAtItsMachine
  <2> QED BY <1>6, <2>3, <2>4
<1> QED BY <1>1, <1>2, <1>4, <1>5, <1>6 DEF PONext, PowerOn, LockSend, SendLost, SendFailed, StartSend, SendDone,
           ReceiveMail, deviceVars, officeVars

\* Where the worker puts the first packet of the way, it is the last of its box.
LEMMA MailIsPut ==
  ASSUME POInv, POTypeOK', NEW n \in Machines, WorkerPuts(n)
  PROVE  MailIsInOrder'
<1>0. POTypeOK /\ MailIsAtItsMachine /\ MailIsInOrder
  BY DEF POInv
<1> DEFINE p == worker[n].mail
<1>1. p \in Packets /\ OnItsWay(n) = <<p>> \o OnItsWay(n)' /\ OnItsWay(n)' \in Seq(Packets)
  BY <1>0, PacketIsPut
<1>2. /\ boxes' = [boxes EXCEPT ![n][p.box] = Append(@, p)]
      /\ UNCHANGED <<power, inHdr, socket, got, wire>>
      /\ worker' = [worker EXCEPT ![n] = [at |-> "P", mail |-> NoPacket]]
  BY DEF WorkerPuts, Put, deviceVars, mailVars
<1>3. p.to = n /\ p.box \in Boxes
  BY <1>0, <1>1 DEF WorkerPuts, MailIsAtItsMachine, Packets
<1>4. /\ boxes \in [Machines -> [Boxes -> Seq(Packets)]] /\ got \in [Machines -> [Boxes -> Seq(Packets)]]
      /\ DOMAIN worker = Machines
  BY <1>0 DEF POTypeOK
<1> HIDE DEF p
<1> SUFFICES ASSUME NEW m \in Machines, NEW b \in Boxes, power[m] # "halted"  PROVE InOrder(m, b)'
  BY <1>2 DEF MailIsInOrder
<1>5. InOrder(m, b)
  BY <1>0 DEF MailIsInOrder
<1>6. InOrder(m, b)' <=> (got[m][b] \o boxes'[m][b]) \o ForBox(OnItsWay(m)', m, b) = ForBox(wire, m, b)
  BY <1>2, OrderThen
<1>7. CASE m # n
  <2>1. boxes'[m] = boxes[m] /\ worker'[m] = worker[m]
    BY <1>2, <1>4, <1>7
  <2>2. OnItsWay(m)' = OnItsWay(m)
    BY <1>2, <2>1, WayStays
  <2> QED BY <1>5, <1>6, <2>1, <2>2 DEF InOrder
<1>8. CASE m = n
  <2> DEFINE rest == OnItsWay(n)'
             g == got[n][b]
             x == boxes[n][b]
             f == ForBox(rest, n, b)
  <2>1. rest \in Seq(Packets) /\ g \in Seq(Packets) /\ x \in Seq(Packets) /\ OnItsWay(n) = <<p>> \o rest
    BY <1>1, <1>4
  <2>2. boxes'[n][b] = IF b = p.box THEN Append(x, p) ELSE x
    BY <1>2, <1>3, <1>4
  <2> HIDE DEF rest
  <2>3. f \in Seq(Packets) /\ ForBox(OnItsWay(n), n, b) = Kept(<< >>, p, n, b) \o f
    <3>1. f \in Seq(Packets)
      BY <2>1, ForBoxType
    <3>2. ForBox(OnItsWay(n), n, b) = Kept(<< >>, p, n, b) \o f
      <4>1. p \in Packets /\ HasFront(OnItsWay(n), p, rest)
        BY <1>1, <2>1 DEF HasFront
      <4>2. rest \in Seq(Packets)
        BY <2>1
      <4> QED BY <4>1, <4>2, ForBoxFront
    <3> QED BY <3>1, <3>2
  <2>4. (g \o x) \o (Kept(<< >>, p, n, b) \o f) = ForBox(wire, n, b)
    BY <1>5, <1>8, <2>1, <2>3 DEF InOrder
  <2>5. InOrder(m, b)' <=> (g \o boxes'[n][b]) \o f = ForBox(wire, n, b)
    BY <1>6, <1>8 DEF rest
  <2> HIDE DEF g, x, f
  <2>6. CASE b # p.box
    <3>1. Kept(<< >>, p, n, b) = << >>
      BY <2>6 DEF Kept
    <3>2. << >> \o f = f
      BY <2>3, PacketConcat
    <3> QED BY <2>2, <2>4, <2>5, <2>6, <3>1, <3>2
  <2>7. CASE b = p.box
    <3> DEFINE one == <<p>>
    <3>1. Kept(<< >>, p, n, b) = one
      BY <1>3, <2>7 DEF Kept
    <3>2. Append(x, p) = x \o one /\ one \in Seq(Packets)
      BY <1>1, <2>1, AppendIsConcat
    <3> HIDE DEF one
    <3>3. g \o x \in Seq(Packets) /\ x \o one \in Seq(Packets)
      BY <2>1, <3>2, PacketConcat
    <3>4. (g \o x) \o (one \o f) = ((g \o x) \o one) \o f
      <4> DEFINE gx == g \o x
      <4>1. gx \in Seq(Packets)
        BY <3>3
      <4> HIDE DEF gx
      <4>2. (gx \o one) \o f = gx \o (one \o f)
        BY <2>3, <3>2, <4>1, PacketConcat
      <4> QED BY <4>2 DEF gx
    <3>5. (g \o x) \o one = g \o (x \o one)
      BY <2>1, <3>2, PacketConcat
    <3>6. (g \o x) \o (one \o f) = ForBox(wire, n, b)
      BY <2>4, <3>1, Zenon
    <3>7. boxes'[n][b] = x \o one
      BY <2>2, <2>7, <3>2, Zenon
    <3>8. (g \o boxes'[n][b]) \o f = ForBox(wire, n, b)
      BY <3>4, <3>5, <3>6, <3>7, Zenon
    <3> QED BY <2>5, <3>8, Zenon
  <2> QED BY <2>6, <2>7
<1> QED BY <1>7, <1>8

\* What Get takes is the first of its box, and the last that was taken.
LEMMA MailIsTaken ==
  ASSUME POInv, POTypeOK', NEW c \in Clients, ReceiveMail(c)
  PROVE  MailIsInOrder'
<1>0. POTypeOK /\ MailIsInOrder
  BY DEF POInv
<1> DEFINE n == Home(c)
           o == Next1(c).box
<1>1. n \in Machines /\ o \in Boxes
  BY <1>0, SetupFacts, OperationFacts DEF ReceiveMail, AtOp
<1>2. /\ got' = [got EXCEPT ![n][o] = Append(@, Head(boxes[n][o]))]
      /\ boxes' = [boxes EXCEPT ![n][o] = Tail(@)]
      /\ boxes[n][o] # << >>
      /\ UNCHANGED <<power, inHdr, socket, worker, wire>>
  BY DEF ReceiveMail, Get, deviceVars
<1>3. boxes \in [Machines -> [Boxes -> Seq(Packets)]] /\ got \in [Machines -> [Boxes -> Seq(Packets)]]
  BY <1>0 DEF POTypeOK
<1> HIDE DEF n, o
<1> SUFFICES ASSUME NEW m \in Machines, NEW b \in Boxes, power[m] # "halted"  PROVE InOrder(m, b)'
  BY <1>2 DEF MailIsInOrder
<1>4. InOrder(m, b)
  BY <1>0 DEF MailIsInOrder
<1>5. got'[m][b] \o boxes'[m][b] = got[m][b] \o boxes[m][b]
  <2>1. CASE m = n /\ b = o
    <3> DEFINE g == got[n][o]
               x == boxes[n][o]
               one == <<Head(x)>>
               rest == Tail(x)
    <3>1. g \in Seq(Packets) /\ x \in Seq(Packets) /\ x # << >>
      BY <1>1, <1>2, <1>3
    <3>2. Head(x) \in Packets /\ rest \in Seq(Packets) /\ x = one \o rest
      BY <3>1, PacketSeqFacts
    <3>3. Append(g, Head(x)) = g \o one /\ one \in Seq(Packets)
      <4> DEFINE h == Head(x)
      <4>1. h \in Packets
        BY <3>2
      <4> HIDE DEF g, x, rest, h
      <4>2. Append(g, h) = g \o <<h>> /\ <<h>> \in Seq(Packets)
        BY <3>1, <4>1, AppendIsConcat
      <4> QED BY <4>2 DEF h
    <3>4. got'[n][o] = Append(g, Head(x)) /\ boxes'[n][o] = rest
      BY <1>1, <1>2, <1>3
    <3> HIDE DEF g, x, one, rest
    <3>5. (g \o one) \o rest = g \o (one \o rest)
      BY <3>1, <3>2, <3>3, PacketConcat
    <3> QED BY <2>1, <3>2, <3>3, <3>4, <3>5 DEF g, x
  <2>2. CASE ~(m = n /\ b = o)
    <3>1. got'[m][b] = got[m][b] /\ boxes'[m][b] = boxes[m][b]
      BY <1>1, <1>2, <1>3, <2>2
    <3> QED BY <3>1
  <2> QED BY <2>1, <2>2
<1>6. OnItsWay(m)' = OnItsWay(m) /\ wire' = wire
  BY <1>2, WayStays
<1> QED BY <1>4, <1>5, <1>6, OrderThen DEF InOrder

\* No step of a running machine loses, repeats or reorders its mail.
LEMMA OrderKept ==
  ASSUME POInv, PONext, POTypeOK'
  PROVE  MailIsInOrder'
<1>0. POTypeOK /\ MailIsInOrder
  BY DEF POInv
<1>a. power \in [Machines -> {"off", "on", "halted"}] /\ socket \in [Machines -> Seq(Packets)]
  BY <1>0 DEF POTypeOK
<1>1. ASSUME UNCHANGED <<inHdr, worker, boxes, got, wire>>,
             \A m \in Machines : power'[m] # "halted" => power[m] # "halted" /\ socket'[m] = socket[m]
      PROVE  MailIsInOrder'
  <2> SUFFICES ASSUME NEW m \in Machines, NEW b \in Boxes, power'[m] # "halted"  PROVE InOrder(m, b)'
    BY DEF MailIsInOrder
  <2>1. InOrder(m, b)
    BY <1>0, <1>1 DEF MailIsInOrder
  <2>2. OnItsWay(m)' = OnItsWay(m)
    BY <1>1, WayStays
  <2> QED BY <1>1, <2>1, <2>2, OrderThen DEF InOrder
<1>2. ASSUME NEW m \in Machines, PowerOn(m)  PROVE MailIsInOrder'
  BY <1>1, <1>2, <1>a DEF PowerOn, deviceVars, officeVars, mailVars
<1>3. ASSUME NEW c \in Clients, SendReturn(c) \/ HaltMachine(c)  PROVE MailIsInOrder'
  <2>1. Home(c) \in Machines
    BY <1>0, SetupFacts
  <2>2. /\ UNCHANGED <<inHdr, worker, boxes, got, wire>>
        /\ UNCHANGED <<power, socket>> \/ TurnOff(Home(c))
    BY <1>3 DEF SendReturn, HaltMachine, officeVars, mailVars
  <2>3. \A m \in Machines : power'[m] # "halted" => power[m] # "halted" /\ socket'[m] = socket[m]
    BY <1>a, <2>1, <2>2 DEF TurnOff
  <2> QED BY <1>1, <2>2, <2>3
<1>4. ASSUME NEW c \in Clients, LockSend(c) \/ SendLost(c) \/ SendFailed(c)  PROVE MailIsInOrder'
  BY <1>1, <1>4 DEF LockSend, SendLost, SendFailed, StartSend, deviceVars, officeVars, mailVars
<1>5. ASSUME NEW m \in Machines, SendDone(m)  PROVE MailIsInOrder'
  BY <1>1, <1>5 DEF SendDone, clientVars, mailVars
<1>6. ASSUME NEW n \in Machines, CheckPktAvail(n) \/ WorkerWaits(n) \/ WorkerReceives(n)  PROVE MailIsInOrder'
  <2>1. UNCHANGED <<power, boxes, got, wire>>
    BY <1>6 DEF CheckPktAvail, WorkerWaits, WorkerReceives, mailVars
  <2>2. \A m \in Machines \ {n} : socket'[m] = socket[m] /\ inHdr'[m] = inHdr[m] /\ worker'[m] = worker[m]
    BY <1>0, <1>6 DEF POTypeOK, CheckPktAvail, WorkerWaits, WorkerReceives, deviceVars
  <2>3. OnItsWay(n)' = OnItsWay(n)
    BY <1>6, PacketMoves
  <2>4. \A m \in Machines : OnItsWay(m)' = OnItsWay(m)
    <3> SUFFICES ASSUME NEW m \in Machines  PROVE OnItsWay(m)' = OnItsWay(m)
      OBVIOUS
    <3>1. CASE m = n
      BY <2>3, <3>1
    <3>2. CASE m # n
      BY <2>2, <3>2, WayStays
    <3> QED BY <3>1, <3>2
  <2>5. ASSUME NEW m \in Machines, NEW b \in Boxes, power'[m] # "halted"  PROVE InOrder(m, b)'
    BY <1>0, <2>1, <2>4, <2>5, OrderThen DEF MailIsInOrder, InOrder
  <2> QED BY <2>5 DEF MailIsInOrder
<1> QED BY <1>2, <1>3, <1>4, <1>5, <1>6, MailArrives, MailIsPut, MailIsTaken DEF PONext

----------------------------------------------------------------------------
(***************************************************************************)
(* The invariant and what follows from it.                                 *)
(***************************************************************************)
\* Nothing is on its way when the machines are off.
LEMMA POStarts ==
  ASSUME POInit
  PROVE  POInv
<1>1. PICK s \in Setups : POBegin(s, "off")
  BY DEF POInit
<1>2. /\ scenario \in Setups /\ power = [m \in Machines |-> "off"]
      /\ socket = [m \in Machines |-> << >>] /\ inHdr = [m \in Machines |-> NoPacket]
      /\ available = [m \in Machines |-> 0] /\ messageSent = [m \in Machines |-> 0]
      /\ sendPending = [m \in Machines |-> 0] /\ sendLock = [m \in Machines |-> NoClient]
      /\ worker = [m \in Machines |-> [at |-> "P", mail |-> NoPacket]]
      /\ boxes = [m \in Machines |-> [b \in Boxes |-> << >>]]
      /\ got = [m \in Machines |-> [b \in Boxes |-> << >>]]
      /\ step = [c \in Clients |-> 1] /\ phase = [c \in Clients |-> "begin"]
      /\ lastMail = [c \in Clients |-> NoPacket] /\ wire = << >> /\ lost = 0
  BY <1>1 DEF POBegin
<1>3. POTypeOK
  <2>1. /\ socket \in [Machines -> Seq(Packets)] /\ wire \in Seq(Packets)
        /\ boxes \in [Machines -> [Boxes -> Seq(Packets)]] /\ got \in [Machines -> [Boxes -> Seq(Packets)]]
    BY <1>2, PacketConcat
  <2> QED BY <1>2, <2>1, PostOfficeAssumption DEF POTypeOK
<1>4. SendersTakeTurns
  <2>1. \A c \in Clients : Home(c) \in Machines /\ c # NoClient
    BY <1>3, SetupFacts, PostOfficeAssumption
  <2> QED BY <1>2, <2>1 DEF SendersTakeTurns, Inside, Waits
<1>5. RepliesHaveMail /\ BufferHasItsMessage
  BY <1>2 DEF RepliesHaveMail, BufferHasItsMessage
<1>6. MailIsAtItsMachine
  <2>1. DOMAIN << >> = {}
    OBVIOUS
  <2> QED BY <1>2, <2>1 DEF MailIsAtItsMachine
<1>7. ASSUME NEW m \in Machines, NEW b \in Boxes  PROVE InOrder(m, b)
  <2>1. OnItsWay(m) = (<< >> \o << >>) \o << >> /\ got[m][b] = << >> /\ boxes[m][b] = << >>
    BY <1>2 DEF OnItsWay
  <2>2. << >> \o << >> = << >>
    BY PacketConcat
  <2>3. << >> \in Seq(Packets)
    BY PacketConcat
  <2>4. ForBox(<< >>, m, b) \in Seq(Packets)
    BY <2>3, ForBoxType
  <2> QED BY <1>2, <2>1, <2>2, <2>4, PacketConcat DEF InOrder
<1> QED BY <1>3, <1>4, <1>5, <1>6, <1>7 DEF POInv, MailIsInOrder

\* POInv is an invariant: a sender between Acquire and Release of sendLock has
\* the one interrupt of its machine, the buffer has its message, and what
\* enters the socket goes on in order.
THEOREM PostOfficeInvariance == POSpec => []POInv
<1>1. POInit => POInv
  BY POStarts
<1>2. POInv /\ [PONext]_poVars => POInv'
  <2> SUFFICES ASSUME POInv, [PONext]_poVars  PROVE POInv'
    OBVIOUS
  <2>1. CASE PONext
    <3>1. POTypeOK'
      BY <2>1, POTypesKept
    <3> QED BY <2>1, <3>1, SendersKept, RepliesKept, MessageKept, DestinationsKept, OrderKept DEF POInv
  <2>2. CASE UNCHANGED poVars
    <3>1. UNCHANGED <<scenario, power, socket, inHdr, sendPending, available, messageSent, sendLock, worker, boxes,
                      step, phase, lastMail, wire, got, lost>>
      BY <2>2 DEF poVars, deviceVars, officeVars, clientVars, mailVars
    <3>2. POTypeOK'
      BY <3>1 DEF POInv, POTypeOK
    <3>3. SendersTakeTurns'
      BY <3>1, TurnsUntouched DEF POInv
    <3>4. RepliesHaveMail' /\ BufferHasItsMessage' /\ MailIsAtItsMachine'
      BY <3>1 DEF POInv, RepliesHaveMail, BufferHasItsMessage, MailIsAtItsMachine, Program
    <3>5. ASSUME NEW m \in Machines, NEW b \in Boxes, power[m] # "halted"  PROVE InOrder(m, b)'
      <4>1. OnItsWay(m)' = OnItsWay(m)
        BY <3>1, WayStays
      <4> QED BY <3>1, <3>5, <4>1, OrderThen DEF POInv, MailIsInOrder, InOrder
    <3>6. MailIsInOrder'
      BY <3>1, <3>5 DEF MailIsInOrder
    <3> QED BY <3>2, <3>3, <3>4, <3>6 DEF POInv
  <2> QED BY <2>1, <2>2
<1> QED BY <1>1, <1>2, PTL DEF POSpec

\* Who waits for the interrupt of a packet is the owner of sendLock.
LEMMA OneSender ==
  ASSUME POTypeOK, SendersTakeTurns
  PROVE  OneSendAtATime
<1> SUFFICES ASSUME NEW m \in Machines
             PROVE  /\ Cardinality(Sending(m)) <= 1
                    /\ sendPending[m] + messageSent[m] = Cardinality(Sending(m))
  BY DEF OneSendAtATime
<1>1. \A c \in Sending(m) : c = sendLock[m] /\ Waits(m)
  BY PostOfficeAssumption DEF Sending, SendersTakeTurns, Inside, Waits
<1>2. CASE Waits(m)
  <2>1. sendLock[m] \in Clients /\ Home(sendLock[m]) = m
    BY <1>2 DEF Waits, POTypeOK, SendersTakeTurns
  <2>2. sendLock[m] \in Sending(m)
    BY <1>2, <2>1 DEF Sending, Waits
  <2>3. Sending(m) = {sendLock[m]}
    BY <1>1, <2>2
  <2>4. Cardinality(Sending(m)) = 1
    BY <2>3, FS_Singleton
  <2> QED BY <1>2, <2>4 DEF SendersTakeTurns
<1>3. CASE ~Waits(m)
  <2>1. Sending(m) = {}
    BY <1>1, <1>3
  <2>2. Cardinality(Sending(m)) = 0
    BY <2>1, FS_EmptySet
  <2> QED BY <1>3, <2>2 DEF SendersTakeTurns
<1> QED BY <1>2, <1>3

\* A machine that runs loses, repeats and reorders nothing, and its senders take
\* turns, whatever the network loses.
THEOREM NoMailIsLost == POSpec => []MailIsKept
<1>1. POInv => MailIsKept
  BY OneSender DEF POInv, MailIsKept, MailIsInOrder, InOrder
<1> QED BY <1>1, PostOfficeInvariance, PTL

----------------------------------------------------------------------------
(***************************************************************************)
(* Disk.  First, division.                                                 *)
(***************************************************************************)
\* Quotient and remainder.
LEMMA Division ==
  ASSUME NEW a \in Int, NEW n \in Nat \ {0}
  PROVE  /\ a \div n \in Int /\ a % n \in 0 .. n - 1
         /\ a = n * (a \div n) + (a % n)
<1>1. a \div n \in Int
  OBVIOUS
<1>2. a % n \in 0 .. n - 1
  OBVIOUS
<1>3. a = n * (a \div n) + (a % n)
  OBVIOUS
<1> QED BY <1>1, <1>2, <1>3

\* There is only one.
Splits(a, n, q, r) == a = n * q + r

LEMMA DivisionIsUnique ==
  ASSUME NEW n \in Nat \ {0}, NEW q \in Int, NEW r \in 0 .. n - 1, NEW a \in Int, Splits(a, n, q, r)
  PROVE  a \div n = q /\ a % n = r
<1> DEFINE p == a \div n
           s == a % n
<1>1. p \in Int /\ s \in 0 .. n - 1 /\ a = n * p + s
  BY Division
<1>2. n * (p - q) = r - s
  BY <1>1 DEF Splits
<1>3. ~(p - q >= 1)
  BY <1>1, <1>2
<1>4. ~(p - q <= -1)
  BY <1>1, <1>2
<1>5. p = q
  BY <1>1, <1>3, <1>4
<1> QED BY <1>1, <1>2, <1>5

\* A number is rounded up to the end of the sector that passes.
LEMMA NextBoundary ==
  ASSUME NEW t \in Nat, NEW n \in Nat \ {0}
  PROVE  LET over == t % n
             rest == IF over > 0 THEN n - over ELSE 0
         IN \E b \in Nat : t + rest = n * b /\ rest \in 0 .. n - 1
<1> DEFINE q == t \div n
           over == t % n
<1>1. q \in Int /\ over \in 0 .. n - 1 /\ t = n * q + over
  BY Division
<1> HIDE DEF q, over
<1>2. q >= 0
  <2>1. q <= -1 => n * q <= -n
    BY <1>1
  <2> QED BY <1>1, <2>1
<1>3. CASE over > 0
  <2>1. q + 1 \in Nat /\ t + (n - over) = n * (q + 1) /\ n - over \in 0 .. n - 1
    BY <1>1, <1>2, <1>3
  <2> QED BY <1>3, <2>1 DEF over
<1>4. CASE ~(over > 0)
  <2>1. q \in Nat /\ t + 0 = n * q
    BY <1>1, <1>2, <1>4
  <2> QED BY <1>4, <2>1 DEF over
<1> QED BY <1>3, <1>4

\* ModuloDiff counts the sectors from one to the other, with the rotation.
LEMMA DiffCounts ==
  ASSUME NEW to \in Nat, NEW from \in Nat
  PROVE  /\ ModuloDiff(to, from) \in 0 .. SectorsPerTrack - 1
         /\ (from + ModuloDiff(to, from)) % SectorsPerTrack = to % SectorsPerTrack
<1> DEFINE n == SectorsPerTrack
           u == to % n
           v == from % n
           q == from \div n
           d == ModuloDiff(to, from)
<1>1. n \in Nat \ {0}
  BY DiskAssumption
<1>2. u \in 0 .. n - 1 /\ v \in 0 .. n - 1 /\ q \in Int /\ from = n * q + v
  BY <1>1, Division
<1>3. d = ((u - v) + n) % n
  BY DEF ModuloDiff
<1> DEFINE e == (u - v) + n
<1> HIDE DEF n, u, v, q, d
<1>4. CASE u >= v
  <2>1. Splits(e, n, 1, u - v) /\ u - v \in 0 .. n - 1 /\ e \in Int
    BY <1>1, <1>2, <1>4 DEF Splits
  <2>2. d = u - v
    <3> HIDE DEF e
    <3>1. e % n = u - v
      BY <1>1, <2>1, DivisionIsUnique
    <3> QED BY <1>3, <3>1 DEF e
  <2>3. from + d = n * q + u
    BY <1>1, <1>2, <2>2
  <2>4. (from + d) % n = u
    <3> DEFINE x == from + d
    <3>1. x \in Int /\ Splits(x, n, q, u)
      BY <1>1, <1>2, <2>1, <2>2, <2>3 DEF Splits
    <3>2. u \in 0 .. n - 1 /\ q \in Int
      BY <1>2
    <3> HIDE DEF x
    <3>3. x % n = u
      BY <1>1, <3>1, <3>2, DivisionIsUnique
    <3> QED BY <3>3 DEF x
  <2> QED BY <2>1, <2>2, <2>4 DEF n, u, d
<1>5. CASE u < v
  <2>1. Splits(e, n, 0, e) /\ e \in 0 .. n - 1 /\ e \in Int
    BY <1>1, <1>2, <1>5 DEF Splits
  <2>2. d = (u - v) + n
    <3> HIDE DEF e
    <3>1. e % n = e
      BY <1>1, <2>1, DivisionIsUnique
    <3> QED BY <1>3, <3>1 DEF e
  <2>3. from + d = n * (q + 1) + u /\ q + 1 \in Int
    BY <1>1, <1>2, <2>2
  <2>4. (from + d) % n = u
    <3> DEFINE x == from + d
    <3>1. x \in Int /\ Splits(x, n, q + 1, u)
      BY <1>1, <1>2, <2>1, <2>2, <2>3 DEF Splits
    <3>2. u \in 0 .. n - 1 /\ q + 1 \in Int
      BY <1>2
    <3> HIDE DEF x
    <3>3. x % n = u
      BY <1>1, <3>1, <3>2, DivisionIsUnique
    <3> QED BY <3>3 DEF x
  <2> QED BY <2>1, <2>2, <2>4 DEF n, u, d
<1> QED BY <1>1, <1>2, <1>4, <1>5

----------------------------------------------------------------------------
(***************************************************************************)
(* The invariant.                                                          *)
(***************************************************************************)
Requests == [sector : Nat, writing : BOOLEAN, done : Nat]

DiskTypes ==
  /\ ticks \in Nat /\ lastSector \in Nat /\ bufferInit \in Nat /\ arrival \in Nat
  /\ request \in Requests \cup {NoRequest}

\* The sector of each sector time that began when the head was on the track
\* and has ended has passed.
SectorsPass ==
  \A j \in Nat : arrival <= RotationTime * j /\ RotationTime * (j + 1) <= ticks => j % SectorsPerTrack \in passed

\* The track buffer begins with the first sector time on the track.
BufferBegins == \E a \in Nat : bufferInit = RotationTime * a /\ arrival <= bufferInit

\* There is a sector time for the request that ends in time, with the request
\* itself when it writes.
IsFor(j, r) ==
  /\ j % SectorsPerTrack = r.sector % SectorsPerTrack
  /\ arrival <= RotationTime * j
  /\ RotationTime * (j + 1) <= r.done
  /\ r.writing => r.done = RotationTime * (j + 1)

RequestIsTimed ==
  /\ request # NoRequest => ticks <= request.done /\ \E j \in Nat : IsFor(j, request)
  /\ request = NoRequest => arrival <= ticks

DiskInv == DiskTypes /\ SectorsPass /\ BufferBegins /\ RequestIsTimed

\* The seek ends in some sector time, and reading begins with the next.
LEMMA SeekFacts ==
  ASSUME DiskTypes, NEW s \in Nat
  PROVE  /\ TimeToSeek(s) \in Nat /\ Rotation(s) \in Nat
         /\ \E b \in Nat : TimeAfter(s) = RotationTime * b
         /\ TimeAfter(s) \in ticks + TimeToSeek(s) .. ticks + TimeToSeek(s) + RotationTime - 1
<1>1. RotationTime \in Nat \ {0} /\ SectorsPerTrack \in Nat \ {0} /\ SeekTime \in Nat
  BY DiskAssumption
<1>2. ticks \in Nat /\ lastSector \in Nat
  BY DEF DiskTypes
<1>3. TimeToSeek(s) \in Nat
  <2> DEFINE x == s \div SectorsPerTrack
             y == lastSector \div SectorsPerTrack
  <2>1. x \in Int /\ y \in Int
    BY <1>1, <1>2, Division
  <2>2. TimeToSeek(s) = Distance(x, y) * SeekTime
    BY DEF TimeToSeek
  <2> HIDE DEF x, y
  <2>3. Distance(x, y) \in Nat
    BY <2>1 DEF Distance
  <2> QED BY <1>1, <2>2, <2>3
<1> DEFINE t == ticks + TimeToSeek(s)
<1>4. t \in Nat
  BY <1>2, <1>3
<1>5. TimeAfter(s) = t + Rotation(s) /\ Rotation(s) = IF t % RotationTime > 0 THEN RotationTime - (t % RotationTime) ELSE 0
  BY DEF TimeAfter, Rotation
<1> HIDE DEF t
<1>6. PICK b \in Nat : t + Rotation(s) = RotationTime * b /\ Rotation(s) \in 0 .. RotationTime - 1
  BY <1>1, <1>4, <1>5, NextBoundary
<1>7. TimeAfter(s) \in t .. t + RotationTime - 1
  BY <1>1, <1>4, <1>5, <1>6
<1> QED BY <1>3, <1>5, <1>6, <1>7 DEF t

\* The latency that is computed ends with the sector, or after it when that is
\* in the track buffer.
LEMMA LatencyIsEnough ==
  ASSUME DiskTypes, BufferBegins, arrival <= ticks, NEW s \in Nat, NEW w \in BOOLEAN,
         NEW since \in Nat,
         since = IF TimeToSeek(s) = 0 THEN arrival ELSE ticks + TimeToSeek(s)
  PROVE  LET done == ticks + ComputeLatency(s, w)
         IN /\ done \in Nat /\ ticks <= done
            /\ \E j \in Nat : /\ j % SectorsPerTrack = s % SectorsPerTrack
                              /\ since <= RotationTime * j
                              /\ RotationTime * (j + 1) <= done
                              /\ w => done = RotationTime * (j + 1)
<1> DEFINE n == RotationTime
           seek == TimeToSeek(s)
           done == ticks + ComputeLatency(s, w)
<1>1. n \in Nat \ {0} /\ ticks \in Nat /\ arrival \in Nat /\ bufferInit \in Nat /\ seek \in Nat
      /\ Rotation(s) \in Nat
  BY DiskAssumption, SeekFacts DEF DiskTypes
<1>2. PICK b \in Nat : TimeAfter(s) = n * b /\ TimeAfter(s) \in ticks + seek .. ticks + seek + n - 1
  BY SeekFacts
<1>3. PICK a \in Nat : bufferInit = n * a /\ arrival <= bufferInit
  BY DEF BufferBegins
<1>4. (n * b) \div n = b /\ (n * a) \div n = a /\ (n * b - n * a) \div n = b - a
  <2>1. ASSUME NEW q \in Int, NEW x \in Int, x = n * q  PROVE x \div n = q
    <3>1. Splits(x, n, q, 0) /\ 0 \in 0 .. n - 1
      BY <1>1, <2>1 DEF Splits
    <3> QED BY <1>1, <3>1, DivisionIsUnique
  <2>2. n * b \in Int /\ n * a \in Int /\ n * b - n * a = n * (b - a) /\ n * b - n * a \in Int /\ b - a \in Int
    BY <1>1
  <2> QED BY <2>1, <2>2
<1>5. CASE ~w /\ seek = 0 /\ InTrackBuffer(s)
  <2> DEFINE d == ModuloDiff(s, a)
             j == a + d
  <2>1. d \in 0 .. SectorsPerTrack - 1 /\ j % SectorsPerTrack = s % SectorsPerTrack
    BY DiffCounts
  <2>2. b - a > d
    BY <1>2, <1>3, <1>4, <1>5 DEF InTrackBuffer
  <2>3. done = ticks + n
    BY <1>5 DEF ComputeLatency
  <2> HIDE DEF d, j, done
  <2>4. d \in Nat /\ j = a + d
    BY <2>1, DiskAssumption DEF j
  <2>5. j \in Nat /\ j + 1 <= b
    BY <2>2, <2>4
  <2>6. n * a <= n * j /\ n * (j + 1) <= n * b
    BY <1>1, <2>4, <2>5
  <2>7. n * b <= ticks + n
    BY <1>1, <1>2, <1>5
  <2>8. since = arrival
    BY <1>5
  <2>9. done \in Nat /\ ticks <= done /\ since <= n * j /\ n * (j + 1) <= done
    BY <1>1, <1>3, <2>3, <2>5, <2>6, <2>7, <2>8
  <2> QED BY <1>5, <2>1, <2>5, <2>9 DEF done
<1>6. CASE ~(~w /\ seek = 0 /\ InTrackBuffer(s))
  <2> DEFINE d == ModuloDiff(s, b)
             j == b + d
  <2>1. d \in 0 .. SectorsPerTrack - 1 /\ j % SectorsPerTrack = s % SectorsPerTrack
    BY DiffCounts
  <2>2. ComputeLatency(s, w) = ((seek + Rotation(s)) + d * n) + n
    BY <1>2, <1>4, <1>6 DEF ComputeLatency
  <2>3. ticks + (seek + Rotation(s)) = n * b
    BY <1>1, <1>2 DEF TimeAfter
  <2> HIDE DEF d, j, done
  <2>4. d \in Nat /\ j = b + d
    BY <2>1, DiskAssumption DEF j
  <2>5. done = n * (j + 1)
    BY <1>1, <2>2, <2>3, <2>4 DEF done
  <2>6. j \in Nat /\ n * b <= n * j /\ n * (j + 1) = n * j + n
    BY <1>1, <2>4
  <2>7. since <= n * b
    <3>1. ticks + seek <= n * b
      BY <1>1, <1>2
    <3>2. since <= ticks + seek
      BY <1>1
    <3> QED BY <1>1, <3>1, <3>2
  <2>8. done \in Nat /\ ticks <= done /\ since <= n * j
    BY <1>1, <1>2, <2>5, <2>6, <2>7
  <2> QED BY <1>1, <2>1, <2>5, <2>6, <2>8 DEF done
<1> QED BY <1>5, <1>6

----------------------------------------------------------------------------
(***************************************************************************)
(* The invariant is kept, and what follows from it.                        *)
(***************************************************************************)
\* A request begins with the head where it is, or with a seek.
LEMMA RequestKeeps ==
  ASSUME DiskInv, NEW s \in 0 .. NumSectors - 1, NEW w \in BOOLEAN, DiskRequest(s, w)
  PROVE  DiskInv'
<1>1. /\ RotationTime \in Nat \ {0} /\ s \in Nat
      /\ ticks \in Nat /\ lastSector \in Nat /\ bufferInit \in Nat /\ arrival \in Nat
  BY DiskAssumption DEF DiskInv, DiskTypes, NumSectors
<1>2. /\ request = NoRequest /\ ticks' = ticks /\ lastSector' = s
      /\ request' = [sector |-> s, writing |-> w, done |-> ticks + ComputeLatency(s, w)]
      /\ IF TimeToSeek(s) # 0
           THEN bufferInit' = TimeAfter(s) /\ arrival' = ticks + TimeToSeek(s) /\ passed' = {}
           ELSE bufferInit' = bufferInit /\ arrival' = arrival /\ passed' = passed
  BY DEF DiskRequest
<1>3. /\ TimeToSeek(s) \in Nat
      /\ TimeAfter(s) \in ticks + TimeToSeek(s) .. ticks + TimeToSeek(s) + RotationTime - 1
  BY <1>1, SeekFacts DEF DiskInv
<1>4. PICK b \in Nat : TimeAfter(s) = RotationTime * b
  BY <1>1, SeekFacts DEF DiskInv
<1>5. arrival <= ticks
  BY <1>2 DEF DiskInv, RequestIsTimed
<1>6. arrival' \in Nat /\ arrival' = IF TimeToSeek(s) = 0 THEN arrival ELSE ticks + TimeToSeek(s)
  BY <1>1, <1>2, <1>3
<1> DEFINE done == ticks + ComputeLatency(s, w)
<1>7. /\ done \in Nat /\ ticks <= done
      /\ \E j \in Nat : /\ j % SectorsPerTrack = s % SectorsPerTrack
                        /\ arrival' <= RotationTime * j
                        /\ RotationTime * (j + 1) <= done
                        /\ w => done = RotationTime * (j + 1)
  BY <1>1, <1>5, <1>6, LatencyIsEnough DEF DiskInv
<1> HIDE DEF done
<1>8. request' = [sector |-> s, writing |-> w, done |-> done] /\ request' \in Requests /\ request' # NoRequest
  <2>1. request' = [sector |-> s, writing |-> w, done |-> done]
    BY <1>2 DEF done
  <2>2. request' \in Requests
    BY <1>1, <1>7, <2>1 DEF Requests
  <2>3. request'.done # NoRequest.done
    BY <1>7, <2>1 DEF NoRequest
  <2> QED BY <2>1, <2>2, <2>3
<1>9. DiskTypes'
  <2>1. bufferInit' \in Nat
    BY <1>1, <1>2, <1>3
  <2> QED BY <1>1, <1>2, <1>6, <1>8, <2>1 DEF DiskTypes
<1>10. SectorsPass'
  <2>1. CASE TimeToSeek(s) = 0
    BY <1>2, <2>1 DEF DiskInv, SectorsPass
  <2>2. CASE TimeToSeek(s) # 0
    <3> SUFFICES ASSUME NEW j \in Nat, ticks + TimeToSeek(s) <= RotationTime * j, RotationTime * (j + 1) <= ticks
                 PROVE  FALSE
      BY <1>2, <2>2 DEF SectorsPass
    <3>1. RotationTime * (j + 1) = RotationTime * j + RotationTime /\ RotationTime * j \in Nat
      BY <1>1
    <3> QED BY <1>1, <1>3, <3>1
  <2> QED BY <2>1, <2>2
<1>11. BufferBegins'
  <2>1. CASE TimeToSeek(s) = 0
    BY <1>2, <2>1 DEF DiskInv, BufferBegins
  <2>2. CASE TimeToSeek(s) # 0
    <3>1. bufferInit' = RotationTime * b /\ arrival' <= bufferInit'
      BY <1>1, <1>2, <1>3, <1>4, <2>2
    <3> QED BY <3>1 DEF BufferBegins
  <2> QED BY <2>1, <2>2
<1>12. RequestIsTimed'
  <2>1. PICK j \in Nat : /\ j % SectorsPerTrack = s % SectorsPerTrack
                         /\ arrival' <= RotationTime * j
                         /\ RotationTime * (j + 1) <= done
                         /\ w => done = RotationTime * (j + 1)
    BY <1>7
  <2>2. request'.sector = s /\ request'.writing = w /\ request'.done = done
    BY <1>8
  <2>3. IsFor(j, request)'
    BY <2>1, <2>2 DEF IsFor
  <2> QED BY <1>2, <1>7, <1>8, <2>2, <2>3 DEF RequestIsTimed
<1> QED BY <1>9, <1>10, <1>11, <1>12 DEF DiskInv

\* With the last tick of a sector time the sector has passed.
LEMMA TurnKeeps ==
  ASSUME DiskInv, Turn
  PROVE  DiskInv'
<1> DEFINE n == RotationTime
<1>1. n \in Nat \ {0} /\ ticks \in Nat /\ arrival \in Nat
  BY DiskAssumption DEF DiskInv, DiskTypes
<1>2. /\ ticks # request.done /\ ticks' = ticks + 1
      /\ lastSector' = lastSector /\ bufferInit' = bufferInit /\ request' = request /\ arrival' = arrival
      /\ passed' = IF ticks' % n = 0 /\ ticks' - n >= arrival
                     THEN passed \cup {(ticks' \div n - 1) % SectorsPerTrack} ELSE passed
  BY DEF Turn
<1>3. DiskTypes' /\ BufferBegins'
  BY <1>1, <1>2 DEF DiskInv, DiskTypes, BufferBegins
<1>4. SectorsPass'
  <2> SUFFICES ASSUME NEW j \in Nat, arrival <= n * j, n * (j + 1) <= ticks'
               PROVE  j % SectorsPerTrack \in passed'
    BY <1>2 DEF SectorsPass
  <2>1. CASE n * (j + 1) <= ticks
    <3>1. j % SectorsPerTrack \in passed
      BY <2>1 DEF DiskInv, SectorsPass
    <3> QED BY <1>2, <3>1
  <2>2. CASE ~(n * (j + 1) <= ticks)
    <3>1. ticks' = n * (j + 1) /\ n * (j + 1) = n * j + n /\ n * j \in Nat /\ ticks' \in Int
      BY <1>1, <1>2, <2>2
    <3>2. Splits(ticks', n, j + 1, 0) /\ j + 1 \in Int /\ 0 \in 0 .. n - 1
      BY <1>1, <3>1 DEF Splits
    <3>3. ticks' % n = 0 /\ ticks' \div n = j + 1
      BY <1>1, <3>1, <3>2, DivisionIsUnique
    <3>4. ticks' - n >= arrival
      BY <1>1, <3>1
    <3>5. (j + 1) - 1 = j
      OBVIOUS
    <3>6. passed' = passed \cup {j % SectorsPerTrack}
      BY <1>2, <3>3, <3>4, <3>5
    <3> QED BY <3>6
  <2> QED BY <2>1, <2>2
<1>5. RequestIsTimed'
  <2>1. request # NoRequest => ticks + 1 <= request.done
    <3> SUFFICES ASSUME request # NoRequest  PROVE ticks + 1 <= request.done
      OBVIOUS
    <3>1. request.done \in Nat /\ ticks <= request.done
      BY DEF DiskInv, DiskTypes, RequestIsTimed, Requests
    <3> QED BY <1>1, <1>2, <3>1
  <2>2. \A j \in Nat : IsFor(j, request) => IsFor(j, request)'
    BY <1>2 DEF IsFor
  <2>3. request # NoRequest => \E j \in Nat : IsFor(j, request)'
    BY <2>2 DEF DiskInv, RequestIsTimed
  <2>4. request = NoRequest => arrival <= ticks + 1
    BY <1>1 DEF DiskInv, RequestIsTimed
  <2> QED BY <1>2, <2>1, <2>3, <2>4 DEF RequestIsTimed
<1> QED BY <1>3, <1>4, <1>5 DEF DiskInv

\* The interrupt comes when the head is on the track.
LEMMA InterruptKeeps ==
  ASSUME DiskInv, HandleInterrupt
  PROVE  DiskInv'
<1>1. /\ ticks = request.done /\ request' = NoRequest /\ ticks' = ticks /\ lastSector' = lastSector
      /\ bufferInit' = bufferInit /\ arrival' = arrival /\ passed' = passed
  BY DEF HandleInterrupt
<1>2. DiskTypes' /\ SectorsPass' /\ BufferBegins'
  BY <1>1 DEF DiskInv, DiskTypes, SectorsPass, BufferBegins
<1>3. ticks \in Nat /\ arrival \in Nat /\ RotationTime \in Nat \ {0}
  BY DiskAssumption DEF DiskInv, DiskTypes
<1>4. request # NoRequest
  BY <1>1, <1>3 DEF NoRequest
<1>5. PICK j \in Nat : IsFor(j, request)
  BY <1>4 DEF DiskInv, RequestIsTimed
<1>6. arrival <= RotationTime * j /\ RotationTime * (j + 1) <= ticks
  BY <1>1, <1>5 DEF IsFor
<1>7. RotationTime * (j + 1) = RotationTime * j + RotationTime /\ RotationTime * j \in Nat
  BY <1>3
<1>8. arrival <= ticks
  BY <1>3, <1>6, <1>7
<1> QED BY <1>1, <1>2, <1>8 DEF DiskInv, RequestIsTimed

\* DiskInv is an invariant, for any geometry and any times.
THEOREM DiskInvariance == DiskSpec => []DiskInv
<1>1. DiskInit => DiskInv
  <2> SUFFICES ASSUME DiskInit  PROVE DiskInv
    OBVIOUS
  <2>1. RotationTime \in Nat \ {0}
    BY DiskAssumption
  <2>2. DiskTypes /\ RequestIsTimed
    BY DEF DiskInit, DiskTypes, RequestIsTimed
  <2>3. SectorsPass
    <3> SUFFICES ASSUME NEW j \in Nat, RotationTime * (j + 1) <= 0  PROVE FALSE
      BY DEF DiskInit, SectorsPass
    <3> QED BY <2>1
  <2>4. 0 = RotationTime * 0
    BY <2>1
  <2>5. BufferBegins
    BY <2>4 DEF DiskInit, BufferBegins
  <2> QED BY <2>2, <2>3, <2>5 DEF DiskInv
<1>2. DiskInv /\ [DiskNext]_diskVars => DiskInv'
  <2> SUFFICES ASSUME DiskInv, [DiskNext]_diskVars  PROVE DiskInv'
    OBVIOUS
  <2>1. ASSUME NEW s \in 0 .. NumSectors - 1, NEW w \in BOOLEAN, DiskRequest(s, w)  PROVE DiskInv'
    BY <2>1, RequestKeeps
  <2>2. CASE Turn
    BY <2>2, TurnKeeps
  <2>3. CASE HandleInterrupt
    BY <2>3, InterruptKeeps
  <2>4. CASE UNCHANGED diskVars
    BY <2>4 DEF diskVars, DiskInv, DiskTypes, SectorsPass, BufferBegins, RequestIsTimed, IsFor
  <2> QED BY <2>1, <2>2, <2>3, <2>4 DEF DiskNext, DiskWorn
<1> QED BY <1>1, <1>2, PTL DEF DiskSpec

\* The interrupt of a request comes when its sector has passed under the head,
\* and that of a write when it has just done so, with the seek, the rotation and
\* the track buffer as ComputeLatency reckons them.
THEOREM TransfersAreReal == DiskSpec => []TransferIsReal
<1>1. DiskInv => TransferIsReal
  <2> SUFFICES ASSUME DiskInv, ticks = request.done
               PROVE  /\ request.sector % SectorsPerTrack \in passed
                      /\ request.writing => /\ ticks % RotationTime = 0
                                            /\ (ticks \div RotationTime - 1) % SectorsPerTrack
                                                 = request.sector % SectorsPerTrack
    BY DEF TransferIsReal
  <2>1. ticks \in Nat /\ RotationTime \in Nat \ {0}
    BY DiskAssumption DEF DiskInv, DiskTypes
  <2>2. request # NoRequest
    BY <2>1 DEF NoRequest
  <2>3. PICK j \in Nat : IsFor(j, request)
    BY <2>2 DEF DiskInv, RequestIsTimed
  <2>4. /\ j % SectorsPerTrack = request.sector % SectorsPerTrack /\ arrival <= RotationTime * j
        /\ RotationTime * (j + 1) <= ticks /\ (request.writing => ticks = RotationTime * (j + 1))
    BY <2>3 DEF IsFor
  <2>5. request.sector % SectorsPerTrack \in passed
    BY <2>4 DEF DiskInv, SectorsPass
  <2>6. ASSUME request.writing
        PROVE  ticks % RotationTime = 0 /\ (ticks \div RotationTime - 1) % SectorsPerTrack = request.sector % SectorsPerTrack
    <3>1. Splits(ticks, RotationTime, j + 1, 0) /\ j + 1 \in Int /\ 0 \in 0 .. RotationTime - 1 /\ ticks \in Int
      BY <2>1, <2>4, <2>6 DEF Splits
    <3>2. ticks % RotationTime = 0 /\ ticks \div RotationTime = j + 1
      BY <2>1, <3>1, DivisionIsUnique
    <3>3. (j + 1) - 1 = j
      OBVIOUS
    <3> QED BY <2>4, <3>2, <3>3
  <2> QED BY <2>5, <2>6
<1> QED BY <1>1, DiskInvariance, PTL

----------------------------------------------------------------------------
(***************************************************************************)
(* List of threads/list.cc, with its pointers.  c are the elements from    *)
(* the first to the last; there are no others.                             *)
(***************************************************************************)
Pointers == Elements \cup {NULL}
MaybeItems == Items \cup {NoItem}
Heaps == [Elements -> [item : MaybeItems, key : Int, next : Pointers]]

AreApart(c) == \A j, k \in 1 .. Len(c) : c[j] = c[k] => j = k
HeadOf(c) == IF Len(c) = 0 THEN NULL ELSE c[1]
NextOf(c, k) == IF k < Len(c) THEN c[k + 1] ELSE NULL

\* From e on, the pointers lead through c.
LeadsThrough(elems, e, c) ==
  /\ c \in Seq(Elements) /\ AreApart(c) /\ e = HeadOf(c)
  /\ \A k \in 1 .. Len(c) : elems[c[k]].next = NextOf(c, k)

IsList(c) ==
  /\ LeadsThrough(element, first, c)
  /\ last = IF Len(c) = 0 THEN NULL ELSE c[Len(c)]
  /\ allocated = {c[k] : k \in 1 .. Len(c)}

\* What the elements of c hold.
HeldBy(elems, c) == [k \in 1 .. Len(c) |-> [item |-> elems[c[k]].item, key |-> elems[c[k]].key]]

ListTypes ==
  /\ element \in Heaps /\ removed \in MaybeItems
  /\ ptr \in Pointers /\ applied \in Seq(MaybeItems)

\* Mapcar is at the kth element and has called the function for those before.
MapcarOK(c) ==
  ptr # NULL => \E k \in 1 .. Len(c) : ptr = c[k] /\ applied = [j \in 1 .. k - 1 |-> element[c[j]].item]

ListInv == ListTypes /\ \E c \in Seq(Elements) : IsList(c) /\ MapcarOK(c)

----------------------------------------------------------------------------
\* The walk along the pointers, in any heap.
WalkPlaces == 1 .. Cardinality(Elements) + 1
IsWalk(elems, e, nth) ==
  nth = [n \in WalkPlaces |-> IF n = 1 THEN e ELSE IF nth[n - 1] = NULL THEN NULL ELSE elems[nth[n - 1]].next]
Walk(elems, e) == CHOOSE nth : IsWalk(elems, e, nth)
ChainIn(elems, e) ==
  SubSeq(Walk(elems, e), 1, Cardinality({n \in WalkPlaces : Walk(elems, e)[n] # NULL}))

\* The numbers up to n are n.
LEMMA CountTo ==
  ASSUME NEW n \in Nat
  PROVE  Cardinality(1 .. n) = n
<1>1. 1 \in Int /\ n \in Int
  OBVIOUS
<1>2. Cardinality(1 .. n) = IF 1 > n THEN 0 ELSE n - 1 + 1
  BY <1>1, FS_Interval, Zenon
<1> QED BY <1>2

\* There are at most as many elements as there are addresses.
LEMMA FewEnough ==
  ASSUME NEW c \in Seq(Elements), AreApart(c)
  PROVE  Cardinality(Elements) \in Nat /\ Len(c) <= Cardinality(Elements)
<1>1. IsFiniteSet(Elements) /\ Cardinality(Elements) \in Nat
  BY ListsAssumption, FS_CardinalityType
<1>2. c \in [1 .. Len(c) -> Elements]
  OBVIOUS
<1>3. c \in Injection(1 .. Len(c), Elements)
  BY <1>2, Zenon DEF Injection, IsInjective, AreApart
<1>4. Cardinality(1 .. Len(c)) <= Cardinality(Elements)
  BY <1>1, <1>3, FS_Injection
<1>5. Cardinality(1 .. Len(c)) = Len(c)
  BY CountTo
<1> QED BY <1>1, <1>4, <1>5

\* Chain follows the pointers: its walk is c, and NULL behind it.
LEMMA WalkIs ==
  ASSUME NEW elems, NEW e, NEW c, LeadsThrough(elems, e, c)
  PROVE  Walk(elems, e) = [n \in WalkPlaces |-> IF n <= Len(c) THEN c[n] ELSE NULL]
<1>1. /\ c \in Seq(Elements) /\ AreApart(c) /\ e = HeadOf(c)
      /\ \A k \in 1 .. Len(c) : elems[c[k]].next = NextOf(c, k)
      /\ \A k \in 1 .. Len(c) : c[k] # NULL
  BY ListsAssumption DEF LeadsThrough
<1>2. Cardinality(Elements) \in Nat /\ Len(c) \in Nat
  BY <1>1, FewEnough
<1> DEFINE f == [n \in WalkPlaces |-> IF n <= Len(c) THEN c[n] ELSE NULL]
           g(nth) == [n \in WalkPlaces |-> IF n = 1 THEN e ELSE IF nth[n - 1] = NULL THEN NULL
                                                           ELSE elems[nth[n - 1]].next]
<1>3. ASSUME NEW n \in WalkPlaces
      PROVE  f[n] = g(f)[n]
  <2>1. CASE n = 1
    BY <1>1, <1>2, <2>1 DEF HeadOf
  <2>2. CASE n # 1
    <3>1. n - 1 \in WalkPlaces /\ n \in Nat /\ n - 1 >= 1
      BY <1>2, <2>2 DEF WalkPlaces
    <3>2. f[n - 1] = IF n - 1 <= Len(c) THEN c[n - 1] ELSE NULL
      BY <3>1
    <3>3. CASE n - 1 <= Len(c)
      <4>1. n - 1 \in 1 .. Len(c)
        BY <1>2, <3>1, <3>3
      <4>2. elems[c[n - 1]].next = IF n <= Len(c) THEN c[n] ELSE NULL
        BY <1>1, <1>2, <3>1, <4>1 DEF NextOf
      <4>3. f[n - 1] # NULL /\ f[n - 1] = c[n - 1]
        BY <1>1, <3>2, <4>1, <3>3
      <4> QED BY <2>2, <4>2, <4>3
    <3>4. CASE ~(n - 1 <= Len(c))
      BY <1>2, <2>2, <3>1, <3>2, <3>4
    <3> QED BY <3>3, <3>4
  <2> QED BY <2>1, <2>2
<1>4. IsWalk(elems, e, f)
  <2>1. f = g(f)
    BY <1>3
  <2> HIDE DEF f
  <2> QED BY <2>1 DEF IsWalk
<1>5. IsWalk(elems, e, Walk(elems, e))
  BY <1>4, Zenon DEF Walk
<1> DEFINE w == Walk(elems, e)
<1>6. /\ w = [n \in WalkPlaces |-> w[n]]
      /\ \A n \in WalkPlaces : w[n] = IF n = 1 THEN e ELSE IF w[n - 1] = NULL THEN NULL ELSE elems[w[n - 1]].next
  <2> HIDE DEF w
  <2>1. w = g(w)
    BY <1>5 DEF IsWalk, w
  <2> QED BY <2>1
<1> HIDE DEF w
<1>7. \A n \in WalkPlaces : w[n] = f[n]
  <2> DEFINE M == {n \in WalkPlaces : w[n] # f[n]}
  <2>1. SUFFICES ASSUME M # {} PROVE FALSE
    OBVIOUS
  <2>2. M \in SUBSET Nat
    BY DEF WalkPlaces
  <2>3. PICK n \in M : \A k \in M : n <= k
    BY <2>1, <2>2, LeastNumber, Zenon
  <2>4. f[n] = g(f)[n] /\ n \in WalkPlaces
    BY <1>3, <2>3
  <2>5. n # 1
    BY <1>6, <2>3, <2>4
  <2>6. n - 1 \in WalkPlaces /\ ~(n <= n - 1)
    BY <1>2, <2>4, <2>5 DEF WalkPlaces
  <2>7. w[n - 1] = f[n - 1]
    BY <2>3, <2>6
  <2> HIDE DEF f
  <2> QED BY <1>6, <2>3, <2>4, <2>5, <2>7
<1> QED BY <1>6, <1>7 DEF w

\* ... and it returns c.
LEMMA ChainIs ==
  ASSUME NEW elems, NEW e, NEW c, LeadsThrough(elems, e, c)
  PROVE  ChainIn(elems, e) = c
<1>1. c \in Seq(Elements) /\ AreApart(c) /\ \A k \in 1 .. Len(c) : c[k] # NULL
  BY ListsAssumption DEF LeadsThrough
<1>2. Cardinality(Elements) \in Nat /\ Len(c) \in Nat /\ Len(c) <= Cardinality(Elements)
  BY <1>1, FewEnough
<1> DEFINE w == Walk(elems, e)
<1>3. w = [n \in WalkPlaces |-> IF n <= Len(c) THEN c[n] ELSE NULL]
  BY WalkIs
<1> HIDE DEF w
<1>4. \A n \in WalkPlaces : w[n] # NULL <=> n \in 1 .. Len(c)
  BY <1>1, <1>2, <1>3 DEF WalkPlaces
<1>5. {n \in WalkPlaces : w[n] # NULL} = 1 .. Len(c)
  BY <1>2, <1>4 DEF WalkPlaces
<1>6. Cardinality(1 .. Len(c)) = Len(c)
  BY <1>2, CountTo
<1>7. SubSeq(w, 1, Len(c)) = [k \in 1 .. Len(c) |-> w[k]]
  BY <1>2
<1>8. \A k \in 1 .. Len(c) : w[k] = c[k]
  BY <1>2, <1>3 DEF WalkPlaces
<1>9. c = [k \in 1 .. Len(c) |-> c[k]]
  BY <1>1
<1>10. SubSeq(w, 1, Len(c)) = c
  BY <1>7, <1>8, <1>9
<1> QED BY <1>5, <1>6, <1>10 DEF ChainIn, w

\* What the model's own operators return, now and after a step.
LEMMA ChainIsIn ==
  /\ \A e : Chain(e) = ChainIn(element, e)
  /\ \A e : Chain(e)' = ChainIn(element', e)
<1>1. \A e : Chain(e) = ChainIn(element, e)
  BY DEF Chain, ChainIn, Walk, IsWalk, WalkPlaces
<1>2. \A e : Chain(e)' = ChainIn(element', e)
  BY DEF Chain, ChainIn, Walk, IsWalk, WalkPlaces
<1> QED BY <1>1, <1>2

\* What the list holds, by its elements.
LEMMA ContentsAre ==
  ASSUME NEW c, LeadsThrough(element, first, c)
  PROVE  Contents(first) = HeldBy(element, c)
<1>1. c \in Seq(Elements) /\ Chain(first) = c
  BY ChainIs, ChainIsIn DEF LeadsThrough
<1>2. DOMAIN c = 1 .. Len(c)
  BY <1>1
<1> QED BY <1>1, <1>2 DEF Contents, HeldBy

\* ... and after a step.
LEMMA NewContentsAre ==
  ASSUME NEW c, LeadsThrough(element', first', c)
  PROVE  Contents(first)' = HeldBy(element', c)
<1>1. c \in Seq(Elements) /\ ChainIn(element', first') = c
  BY ChainIs DEF LeadsThrough
<1>2. Chain(first)' = ChainIn(element', first')
  BY DEF Chain, ChainIn, Walk, IsWalk, WalkPlaces
<1>3. DOMAIN c = 1 .. Len(c)
  BY <1>1
<1> QED BY <1>1, <1>2, <1>3 DEF Contents, HeldBy

----------------------------------------------------------------------------
\* A sequence with one more element in place p.
With(s, p, x) == [n \in 1 .. Len(s) + 1 |-> IF n < p THEN s[n] ELSE IF n = p THEN x ELSE s[n - 1]]

\* It is a sequence.
LEMMA WithIs ==
  ASSUME NEW T, NEW s \in Seq(T), NEW x \in T, NEW p \in 1 .. Len(s) + 1
  PROVE  /\ With(s, p, x) \in Seq(T) /\ Len(With(s, p, x)) = Len(s) + 1
         /\ \A n \in 1 .. Len(s) + 1 :
              With(s, p, x)[n] = IF n < p THEN s[n] ELSE IF n = p THEN x ELSE s[n - 1]
<1>1. \A n \in 1 .. Len(s) + 1 : (IF n < p THEN s[n] ELSE IF n = p THEN x ELSE s[n - 1]) \in T
  OBVIOUS
<1>2. With(s, p, x) \in [1 .. Len(s) + 1 -> T]
  BY <1>1 DEF With
<1>3. Len(s) + 1 \in Nat
  OBVIOUS
<1>4. With(s, p, x) \in Seq(T) /\ Len(With(s, p, x)) = Len(s) + 1
  <2> DEFINE w == With(s, p, x)
  <2> HIDE DEF w
  <2> QED BY <1>2, <1>3 DEF w
<1> QED BY <1>4 DEF With

\* Sequences with the same elements are equal.
LEMMA SameSequence ==
  ASSUME NEW T, NEW s \in Seq(T), NEW t \in Seq(T), Len(s) = Len(t), \A j \in 1 .. Len(s) : s[j] = t[j]
  PROVE  s = t
OBVIOUS

\* What concatenation returns.
LEMMA Appended ==
  ASSUME NEW T, NEW s \in Seq(T), NEW t \in Seq(T)
  PROVE  /\ s \o t \in Seq(T) /\ Len(s \o t) = Len(s) + Len(t)
         /\ \A j \in 1 .. Len(s) + Len(t) : (s \o t)[j] = IF j <= Len(s) THEN s[j] ELSE t[j - Len(s)]
<1>1. s \o t \in Seq(T) /\ Len(s \o t) = Len(s) + Len(t)
  OBVIOUS
<1>2. \A j \in 1 .. Len(s) + Len(t) : (s \o t)[j] = IF j <= Len(s) THEN s[j] ELSE t[j - Len(s)]
  OBVIOUS
<1> QED BY <1>1, <1>2

\* Appending and prepending are the two ends of it.
LEMMA WithAtEnds ==
  ASSUME NEW T, NEW s \in Seq(T), NEW x \in T
  PROVE  Append(s, x) = With(s, Len(s) + 1, x) /\ <<x>> \o s = With(s, 1, x)
<1> DEFINE a == Append(s, x)
           b == <<x>> \o s
           c == With(s, Len(s) + 1, x)
           d == With(s, 1, x)
<1>1. a \in Seq(T) /\ Len(a) = Len(s) + 1 /\ \A n \in 1 .. Len(s) + 1 : a[n] = IF n <= Len(s) THEN s[n] ELSE x
  OBVIOUS
<1>2. b \in Seq(T) /\ Len(b) = Len(s) + 1 /\ \A n \in 1 .. Len(s) + 1 : b[n] = IF n = 1 THEN x ELSE s[n - 1]
  <2>1. <<x>> \in Seq(T) /\ Len(<<x>>) = 1 /\ <<x>>[1] = x
    OBVIOUS
  <2> DEFINE u == <<x>>
  <2> HIDE DEF u
  <2>2. u \in Seq(T) /\ Len(u) = 1 /\ u[1] = x
    BY <2>1 DEF u
  <2> DEFINE y == u \o s
  <2>3. /\ y \in Seq(T) /\ Len(y) = Len(u) + Len(s)
        /\ \A n \in 1 .. Len(u) + Len(s) : y[n] = IF n <= Len(u) THEN u[n] ELSE s[n - Len(u)]
    BY <2>2, Appended, Zenon
  <2> HIDE DEF y
  <2>4. Len(y) = Len(s) + 1 /\ \A n \in 1 .. Len(s) + 1 : y[n] = IF n = 1 THEN x ELSE s[n - 1]
    BY <2>2, <2>3
  <2> QED BY <2>3, <2>4 DEF u, y
<1>3. Len(s) \in Nat /\ Len(s) + 1 \in 1 .. Len(s) + 1 /\ 1 \in 1 .. Len(s) + 1
  OBVIOUS
<1>4. /\ c \in Seq(T) /\ Len(c) = Len(s) + 1
      /\ \A n \in 1 .. Len(s) + 1 :
           c[n] = IF n < Len(s) + 1 THEN s[n] ELSE IF n = Len(s) + 1 THEN x ELSE s[n - 1]
  BY <1>3, WithIs
<1>5. /\ d \in Seq(T) /\ Len(d) = Len(s) + 1
      /\ \A n \in 1 .. Len(s) + 1 : d[n] = IF n < 1 THEN s[n] ELSE IF n = 1 THEN x ELSE s[n - 1]
  BY <1>3, WithIs
<1> HIDE DEF a, b, c, d
<1>6. \A n \in 1 .. Len(a) : a[n] = c[n]
  BY <1>1, <1>3, <1>4
<1>7. \A n \in 1 .. Len(b) : b[n] = d[n]
  BY <1>2, <1>3, <1>5
<1>8. a = c
  BY <1>1, <1>4, <1>6, SameSequence
<1>9. b = d
  BY <1>2, <1>5, <1>7, SameSequence
<1> QED BY <1>8, <1>9 DEF a, b, c, d

\* ... and so is InsertAt, in every place.
LEMMA InsertAtIs ==
  ASSUME NEW T, NEW s \in Seq(T), NEW x \in T, NEW p \in 1 .. Len(s) + 1
  PROVE  Sequence!InsertAt(s, p, x) = With(s, p, x)
<1> DEFINE u == SubSeq(s, 1, p - 1)
           m == <<x>>
           v == SubSeq(s, p, Len(s))
           a == u \o m
           b == a \o v
           w == With(s, p, x)
<1>1. u \in Seq(T) /\ Len(u) = p - 1 /\ \A n \in 1 .. p - 1 : u[n] = s[n]
  OBVIOUS
<1>2. m \in Seq(T) /\ Len(m) = 1 /\ m[1] = x
  OBVIOUS
<1>3. v \in Seq(T) /\ Len(v) = Len(s) - p + 1 /\ \A n \in 1 .. Len(s) - p + 1 : v[n] = s[n + p - 1]
  OBVIOUS
<1> HIDE DEF u, m, v
<1>4. a \in Seq(T) /\ Len(a) = p /\ \A n \in 1 .. p : a[n] = IF n < p THEN s[n] ELSE x
  <2>1. /\ a \in Seq(T) /\ Len(a) = Len(u) + Len(m)
        /\ \A n \in 1 .. Len(u) + Len(m) : a[n] = IF n <= Len(u) THEN u[n] ELSE m[n - Len(u)]
    BY <1>1, <1>2, Appended, Zenon
  <2> HIDE DEF a
  <2> QED BY <1>1, <1>2, <2>1
<1> HIDE DEF a
<1>5. /\ b \in Seq(T) /\ Len(b) = Len(a) + Len(v)
      /\ \A n \in 1 .. Len(a) + Len(v) : b[n] = IF n <= Len(a) THEN a[n] ELSE v[n - Len(a)]
  BY <1>3, <1>4, Appended, Zenon
<1> HIDE DEF b
<1>6. ASSUME NEW n \in 1 .. Len(s) + 1
      PROVE  b[n] = IF n < p THEN s[n] ELSE IF n = p THEN x ELSE s[n - 1]
  <2>1. b[n] = IF n <= Len(a) THEN a[n] ELSE v[n - Len(a)]
    BY <1>3, <1>4, <1>5
  <2>2. CASE n <= p
    BY <1>4, <2>1, <2>2
  <2>3. CASE ~(n <= p)
    <3>1. n - p \in 1 .. Len(s) - p + 1 /\ n - p + p - 1 = n - 1
      BY <2>3
    <3>2. v[n - p] = s[n - 1]
      BY <1>3, <3>1
    <3> QED BY <1>4, <2>1, <2>3, <3>2
  <2> QED BY <2>2, <2>3
<1>7. /\ w \in Seq(T) /\ Len(w) = Len(s) + 1
      /\ \A n \in 1 .. Len(s) + 1 : w[n] = IF n < p THEN s[n] ELSE IF n = p THEN x ELSE s[n - 1]
  BY WithIs
<1> HIDE DEF w
<1>8. b = w
  <2>1. Len(b) = Len(s) + 1
    BY <1>3, <1>4, <1>5
  <2>2. \A n \in 1 .. Len(b) : b[n] = w[n]
    BY <1>6, <1>7, <2>1
  <2> QED BY <1>5, <1>7, <2>1, <2>2, SameSequence
<1> QED BY <1>8 DEF Sequence!InsertAt, a, b, u, m, v, w

----------------------------------------------------------------------------
\* A new element e takes place p among the elements c.
LinkedIn(c, p, e, i, k) ==
  /\ e \in Elements \ allocated /\ allocated' = allocated \cup {e}
  /\ element' \in Heaps
  /\ element'[e] = [item |-> i, key |-> k, next |-> IF p <= Len(c) THEN c[p] ELSE NULL]
  /\ \A x \in Elements \ {e} :
       element'[x] = IF p > 1 /\ x = c[p - 1] THEN [element[x] EXCEPT !.next = e] ELSE element[x]
  /\ first' = IF p = 1 THEN e ELSE first
  /\ last' = IF p = Len(c) + 1 THEN e ELSE last

\* Then it is the pth of the list, and the others are as they were.
LEMMA LinkedInIs ==
  ASSUME element \in Heaps, NEW c, IsList(c), NEW p \in 1 .. Len(c) + 1, NEW e, NEW i, NEW k,
         LinkedIn(c, p, e, i, k)
  PROVE  /\ With(c, p, e) \in Seq(Elements) /\ IsList(With(c, p, e))'
         /\ HeldBy(element', With(c, p, e)) = With(HeldBy(element, c), p, [item |-> i, key |-> k])
<1> DEFINE d == With(c, p, e)
<1>1. /\ c \in Seq(Elements) /\ Len(c) \in Nat /\ AreApart(c)
      /\ first = HeadOf(c) /\ last = (IF Len(c) = 0 THEN NULL ELSE c[Len(c)])
      /\ \A n \in 1 .. Len(c) : element[c[n]].next = NextOf(c, n)
      /\ allocated = {c[n] : n \in 1 .. Len(c)}
  BY DEF IsList, LeadsThrough
<1>2. e \in Elements /\ e \notin allocated /\ allocated' = allocated \cup {e}
  BY DEF LinkedIn
<1>3. /\ d \in Seq(Elements) /\ Len(d) = Len(c) + 1
      /\ \A n \in 1 .. Len(c) + 1 : d[n] = IF n < p THEN c[n] ELSE IF n = p THEN e ELSE c[n - 1]
  BY <1>1, <1>2, WithIs
<1> HIDE DEF d
<1>4. \A n \in 1 .. Len(c) : c[n] # e /\ c[n] \in Elements
  BY <1>1, <1>2
<1>5. AreApart(d)
  <2> SUFFICES ASSUME NEW m \in 1 .. Len(c) + 1, NEW n \in 1 .. Len(c) + 1, d[m] = d[n]
               PROVE  m = n
    BY <1>3 DEF AreApart
  <2>1. \A x \in 1 .. Len(c) + 1 : /\ x < p => x \in 1 .. Len(c) /\ d[x] = c[x]
                                   /\ x = p => d[x] = e
                                   /\ x > p => x - 1 \in 1 .. Len(c) /\ d[x] = c[x - 1]
    BY <1>1, <1>3
  <2>2. \A x, y \in 1 .. Len(c) : c[x] = c[y] => x = y
    BY <1>1 DEF AreApart
  <2>3. CASE m = p \/ n = p
    BY <1>1, <1>4, <2>1, <2>3
  <2>4. CASE m # p /\ n # p
    BY <1>1, <2>1, <2>2, <2>4
  <2> QED BY <2>3, <2>4
<1>6. ASSUME NEW n \in 1 .. Len(c)
      PROVE  /\ element'[c[n]].item = element[c[n]].item /\ element'[c[n]].key = element[c[n]].key
             /\ element'[c[n]].next = IF n = p - 1 THEN e ELSE element[c[n]].next
  <2>1. c[n] \in Elements \ {e}
    BY <1>4
  <2>2. element'[c[n]] = IF p > 1 /\ c[n] = c[p - 1] THEN [element[c[n]] EXCEPT !.next = e] ELSE element[c[n]]
    BY <2>1, Zenon DEF LinkedIn
  <2>3. element[c[n]] \in [item : MaybeItems, key : Int, next : Pointers]
    BY <2>1 DEF Heaps
  <2>4. p > 1 /\ c[n] = c[p - 1] <=> n = p - 1
    <3>1. p > 1 => p - 1 \in 1 .. Len(c)
      BY <1>1
    <3> QED BY <1>1, <3>1 DEF AreApart
  <2>5. CASE n = p - 1
    <3>1. element'[c[n]] = [element[c[n]] EXCEPT !.next = e]
      BY <2>2, <2>4, <2>5
    <3> QED BY <2>3, <2>5, <3>1
  <2>6. CASE n # p - 1
    BY <2>2, <2>4, <2>6
  <2> QED BY <2>5, <2>6
<1>7. element'[e] = [item |-> i, key |-> k, next |-> IF p <= Len(c) THEN c[p] ELSE NULL]
  BY Zenon DEF LinkedIn
<1>8. ASSUME NEW n \in 1 .. Len(d)
      PROVE  element'[d[n]].next = NextOf(d, n)
  <2>1. n \in 1 .. Len(c) + 1
    BY <1>3
  <2>2. NextOf(d, n) = IF n < Len(c) + 1 THEN d[n + 1] ELSE NULL
    BY <1>3 DEF NextOf
  <2>3. n < Len(c) + 1 => n + 1 \in 1 .. Len(c) + 1
    BY <1>1, <2>1
  <2>4. CASE n < p
    <3>1. n \in 1 .. Len(c) /\ d[n] = c[n] /\ n < Len(c) + 1
      BY <1>1, <1>3, <2>1, <2>4
    <3>2. element[c[n]].next = IF n < Len(c) THEN c[n + 1] ELSE NULL
      BY <1>1, <3>1 DEF NextOf
    <3>3. CASE n = p - 1
      BY <1>1, <1>3, <1>6, <2>2, <2>3, <3>1, <3>3
    <3>4. CASE n # p - 1
      <4>1. n + 1 < p /\ n < Len(c)
        BY <1>1, <2>4, <3>4
      <4>2. d[n + 1] = c[n + 1]
        BY <1>3, <2>3, <3>1, <4>1
      <4> QED BY <1>6, <2>2, <3>1, <3>2, <3>4, <4>1, <4>2
    <3> QED BY <3>3, <3>4
  <2>5. CASE n = p
    <3>1. d[n] = e
      BY <1>3, <2>1, <2>5
    <3>2. n < Len(c) + 1 => d[n + 1] = c[n]
      BY <1>1, <1>3, <2>1, <2>3, <2>5
    <3> QED BY <1>1, <1>7, <2>2, <2>5, <3>1, <3>2
  <2>6. CASE n > p
    <3>1. n - 1 \in 1 .. Len(c) /\ d[n] = c[n - 1] /\ n - 1 # p - 1
      BY <1>1, <1>3, <2>1, <2>6
    <3>2. element[c[n - 1]].next = IF n - 1 < Len(c) THEN c[n] ELSE NULL
      BY <1>1, <3>1 DEF NextOf
    <3>3. n < Len(c) + 1 => d[n + 1] = c[n]
      BY <1>1, <1>3, <2>1, <2>3, <2>6
    <3> QED BY <1>1, <1>6, <2>2, <3>1, <3>2, <3>3
  <2> QED BY <2>1, <2>4, <2>5, <2>6
<1>9. first' = HeadOf(d)
  <2>1. first' = IF p = 1 THEN e ELSE first
    BY DEF LinkedIn
  <2>2. HeadOf(d) = d[1] /\ d[1] = IF 1 < p THEN c[1] ELSE IF 1 = p THEN e ELSE c[1 - 1]
    BY <1>1, <1>3 DEF HeadOf
  <2>3. p # 1 => 1 < p /\ Len(c) # 0
    BY <1>1
  <2> QED BY <1>1, <2>1, <2>2, <2>3 DEF HeadOf
<1>10. last' = IF Len(d) = 0 THEN NULL ELSE d[Len(d)]
  <2>1. last' = IF p = Len(c) + 1 THEN e ELSE last
    BY DEF LinkedIn
  <2>2. Len(d) # 0 /\ d[Len(d)] = IF p = Len(c) + 1 THEN e ELSE c[Len(c)]
    BY <1>1, <1>3
  <2>3. p # Len(c) + 1 => Len(c) # 0
    BY <1>1
  <2> QED BY <1>1, <2>1, <2>2, <2>3
<1>11. allocated' = {d[n] : n \in 1 .. Len(d)}
  <2>1. \A n \in 1 .. Len(d) : d[n] \in allocated \cup {e}
    <3> SUFFICES ASSUME NEW n \in 1 .. Len(c) + 1
                 PROVE  d[n] = e \/ \E m \in 1 .. Len(c) : d[n] = c[m]
      BY <1>1, <1>3
    <3>1. n < p => n \in 1 .. Len(c)
      BY <1>1
    <3>2. n > p => n - 1 \in 1 .. Len(c)
      BY <1>1
    <3> QED BY <1>1, <1>3, <3>1, <3>2
  <2>2. \E n \in 1 .. Len(d) : d[n] = e
    BY <1>1, <1>3
  <2>3. ASSUME NEW m \in 1 .. Len(c)
        PROVE  \E n \in 1 .. Len(d) : d[n] = c[m]
    <3>1. CASE m < p
      <4>1. m \in 1 .. Len(c) + 1 /\ d[m] = c[m]
        BY <1>1, <1>3, <3>1
      <4> QED BY <1>3, <4>1
    <3>2. CASE ~(m < p)
      <4>1. m + 1 \in 1 .. Len(c) + 1 /\ ~(m + 1 < p) /\ m + 1 # p /\ m + 1 - 1 = m
        BY <1>1, <3>2
      <4>2. d[m + 1] = c[m]
        BY <1>3, <4>1
      <4> QED BY <1>3, <4>1, <4>2
    <3> QED BY <3>1, <3>2
  <2>4. \A x \in allocated \cup {e} : \E n \in 1 .. Len(d) : d[n] = x
    BY <1>1, <2>2, <2>3
  <2> QED BY <1>2, <2>1, <2>4
<1>12. IsList(d)'
  BY <1>3, <1>5, <1>8, <1>9, <1>10, <1>11 DEF IsList, LeadsThrough
<1>13. HeldBy(element', d) = With(HeldBy(element, c), p, [item |-> i, key |-> k])
  <2> DEFINE x == [item |-> i, key |-> k]
             h == HeldBy(element, c)
  <2>1. Len(h) = Len(c) /\ \A n \in 1 .. Len(c) : h[n] = [item |-> element[c[n]].item, key |-> element[c[n]].key]
    BY <1>1 DEF HeldBy
  <2> HIDE DEF h
  <2>2. ASSUME NEW n \in 1 .. Len(c) + 1
        PROVE  [item |-> element'[d[n]].item, key |-> element'[d[n]].key]
                 = IF n < p THEN h[n] ELSE IF n = p THEN x ELSE h[n - 1]
    <3>1. CASE n < p
      <4>1. n \in 1 .. Len(c) /\ d[n] = c[n]
        BY <1>1, <1>3, <3>1
      <4> QED BY <1>6, <2>1, <3>1, <4>1
    <3>2. CASE n = p
      <4>1. d[n] = e
        BY <1>3, <3>2
      <4>2. ~(n < p)
        BY <3>2
      <4> QED BY <1>7, <3>2, <4>1, <4>2
    <3>3. CASE n > p
      <4>1. n - 1 \in 1 .. Len(c) /\ d[n] = c[n - 1] /\ ~(n < p) /\ n # p
        BY <1>1, <1>3, <3>3
      <4> QED BY <1>6, <2>1, <4>1
    <3> QED BY <3>1, <3>2, <3>3
  <2> QED BY <1>3, <2>1, <2>2 DEF HeldBy, With
<1> QED BY <1>3, <1>12, <1>13 DEF d

----------------------------------------------------------------------------
\* What is put on the list: the invariant, and the step of the sequence.
IsPut(c, p, i, k) ==
  /\ ListTypes /\ OutsideMapcar /\ UNCHANGED <<removed, mapcarVars>>
  /\ c \in Seq(Elements) /\ IsList(c) /\ p \in 1 .. Len(c) + 1 /\ i \in Items /\ k \in Int
  /\ \E e : LinkedIn(c, p, e, i, k)

\* What putting an item in place p does to the sequence.
LEMMA PutIs ==
  ASSUME NEW c, NEW p, NEW i, NEW k, IsPut(c, p, i, k)
  PROVE  /\ ListInv'
         /\ Contents(first) = HeldBy(element, c)
         /\ Contents(first)' = With(HeldBy(element, c), p, [item |-> i, key |-> k])
<1>1. /\ ListTypes /\ OutsideMapcar /\ UNCHANGED <<removed, mapcarVars>>
      /\ c \in Seq(Elements) /\ IsList(c) /\ p \in 1 .. Len(c) + 1 /\ i \in Items /\ k \in Int
  BY DEF IsPut
<1>2. PICK e : LinkedIn(c, p, e, i, k)
  BY DEF IsPut
<1> DEFINE d == With(c, p, e)
<1>3. /\ d \in Seq(Elements) /\ IsList(d)'
      /\ HeldBy(element', d) = With(HeldBy(element, c), p, [item |-> i, key |-> k])
  BY <1>1, <1>2, LinkedInIs DEF ListTypes
<1> HIDE DEF d
<1>4. ListTypes' /\ ptr' = NULL
  BY <1>1, <1>2 DEF ListTypes, LinkedIn, mapcarVars, OutsideMapcar
<1>5. MapcarOK(d)'
  BY <1>4 DEF MapcarOK
<1>6. ListInv'
  BY <1>3, <1>4, <1>5 DEF ListInv
<1>7. Contents(first) = HeldBy(element, c)
  BY <1>1, ContentsAre DEF IsList
<1>8. LeadsThrough(element', first', d)
  BY <1>3 DEF IsList
<1>9. Contents(first)' = HeldBy(element', d)
  BY <1>8, NewContentsAre
<1> QED BY <1>3, <1>6, <1>7, <1>9

\* What new does, in the places where the code calls it.
LEMMA OnlyLinks ==
  ASSUME ListTypes, NEW c \in Seq(Elements), IsList(c), NEW e \in Elements, NEW i \in Items, NEW k \in Int,
         Only(e, i, k)
  PROVE  Len(c) = 0 /\ LinkedIn(c, 1, e, i, k)
<1>1. Len(c) = 0
  <2> SUFFICES ASSUME Len(c) # 0 PROVE FALSE
    OBVIOUS
  <2>1. first = c[1] /\ c[1] \in Elements
    BY DEF IsList, LeadsThrough, HeadOf
  <2> QED BY <2>1, ListsAssumption DEF Only, IsEmpty
<1>2. element \in Heaps /\ [item |-> i, key |-> k, next |-> NULL] \in [item : MaybeItems, key : Int, next : Pointers]
  BY DEF ListTypes, MaybeItems, Pointers
<1>3. element' = [element EXCEPT ![e] = [item |-> i, key |-> k, next |-> NULL]]
      /\ e \notin allocated /\ allocated' = allocated \cup {e} /\ first' = e /\ last' = e
  BY DEF Only, New
<1>4. /\ element' \in Heaps /\ element'[e] = [item |-> i, key |-> k, next |-> NULL]
      /\ \A x \in Elements \ {e} : element'[x] = element[x]
  BY <1>2, <1>3 DEF Heaps
<1> QED BY <1>1, <1>3, <1>4 DEF LinkedIn

LEMMA InFrontLinks ==
  ASSUME ListTypes, NEW c \in Seq(Elements), IsList(c), NEW e \in Elements, NEW i \in Items, NEW k \in Int,
         InFront(e, i, k)
  PROVE  Len(c) # 0 /\ LinkedIn(c, 1, e, i, k)
<1>1. Len(c) # 0 /\ Len(c) \in Nat /\ first = c[1]
  BY DEF IsList, LeadsThrough, HeadOf, InFront, IsEmpty
<1>2. element \in Heaps /\ [item |-> i, key |-> k, next |-> first] \in [item : MaybeItems, key : Int, next : Pointers]
  BY <1>1 DEF ListTypes, MaybeItems, Pointers
<1>3. element' = [element EXCEPT ![e] = [item |-> i, key |-> k, next |-> first]]
      /\ e \notin allocated /\ allocated' = allocated \cup {e} /\ first' = e /\ last' = last
  BY DEF InFront, New
<1>4. /\ element' \in Heaps /\ element'[e] = [item |-> i, key |-> k, next |-> first]
      /\ \A x \in Elements \ {e} : element'[x] = element[x]
  BY <1>2, <1>3 DEF Heaps
<1>5. 1 <= Len(c) /\ 1 # Len(c) + 1
  BY <1>1
<1> QED BY <1>1, <1>3, <1>4, <1>5 DEF LinkedIn

\* NewAfter puts the element behind the nth.
LEMMA NewAfterLinks ==
  ASSUME ListTypes, NEW c \in Seq(Elements), IsList(c), NEW e \in Elements, NEW i \in Items, NEW k \in Int,
         NEW n \in 1 .. Len(c), NewAfter(c[n], e, i, k, NextOf(c, n)),
         first' = first, last' = IF n = Len(c) THEN e ELSE last
  PROVE  n + 1 \in 1 .. Len(c) + 1 /\ LinkedIn(c, n + 1, e, i, k)
<1> DEFINE x == c[n]
           y == NextOf(c, n)
<1>1. Len(c) \in Nat /\ x \in Elements /\ x \in allocated /\ y \in Pointers
      /\ y = IF n + 1 <= Len(c) THEN c[n + 1] ELSE NULL
  BY DEF IsList, NextOf, Pointers
<1>2. e \notin allocated /\ allocated' = allocated \cup {e}
      /\ element' = [element EXCEPT ![e] = [item |-> i, key |-> k, next |-> y], ![x].next = e]
  BY DEF NewAfter
<1> HIDE DEF x, y
<1>3. element \in Heaps /\ [item |-> i, key |-> k, next |-> y] \in [item : MaybeItems, key : Int, next : Pointers]
  BY <1>1 DEF ListTypes, MaybeItems
<1>4. e # x
  BY <1>1, <1>2
<1>5. /\ element'[e] = [item |-> i, key |-> k, next |-> y]
      /\ element'[x] = [element[x] EXCEPT !.next = e]
      /\ \A z \in Elements \ {e, x} : element'[z] = element[z]
  BY <1>1, <1>2, <1>3, <1>4 DEF Heaps
<1>6. element' \in Heaps
  <2>1. element[x] \in [item : MaybeItems, key : Int, next : Pointers]
    BY <1>1, <1>3 DEF Heaps
  <2>2. [element[x] EXCEPT !.next = e] \in [item : MaybeItems, key : Int, next : Pointers]
    BY <2>1 DEF Pointers
  <2>3. element' = [z \in Elements |-> element'[z]]
    BY <1>2, <1>3 DEF Heaps
  <2>4. \A z \in Elements : element'[z] \in [item : MaybeItems, key : Int, next : Pointers]
    BY <1>3, <1>5, <2>2 DEF Heaps
  <2> QED BY <2>3, <2>4 DEF Heaps
<1>7. n + 1 > 1 /\ (n + 1) - 1 = n /\ (n + 1 = Len(c) + 1 <=> n = Len(c)) /\ n + 1 # 1 /\ n + 1 \in 1 .. Len(c) + 1
  BY <1>1
<1>8. \A z \in Elements \ {e} :
        element'[z] = IF n + 1 > 1 /\ z = c[(n + 1) - 1] THEN [element[z] EXCEPT !.next = e] ELSE element[z]
  BY <1>5, <1>7 DEF x
<1>9. element'[e] = [item |-> i, key |-> k, next |-> IF n + 1 <= Len(c) THEN c[n + 1] ELSE NULL]
  BY <1>1, <1>5
<1>10. first' = (IF n + 1 = 1 THEN e ELSE first) /\ last' = (IF n + 1 = Len(c) + 1 THEN e ELSE last)
  BY <1>7
<1>11. e \in Elements \ allocated
  BY <1>2
<1> HIDE DEF x
<1>12. LinkedIn(c, n + 1, e, i, k)
  BY <1>2, <1>6, <1>8, <1>9, <1>10, <1>11 DEF LinkedIn
<1> QED BY <1>7, <1>12

\* A function on 1 to n is a sequence.
LEMMA FunctionsOnPlaces ==
  ASSUME NEW T, NEW n \in Nat, NEW h \in [1 .. n -> T]
  PROVE  h \in Seq(T) /\ Len(h) = n
OBVIOUS

\* What the elements hold has a type.
LEMMA HeldIs ==
  ASSUME ListTypes, NEW c \in Seq(Elements)
  PROVE  HeldBy(element, c) \in Seq([item : MaybeItems, key : Int]) /\ Len(HeldBy(element, c)) = Len(c)
<1> DEFINE h == HeldBy(element, c)
<1>1. \A n \in 1 .. Len(c) : [item |-> element[c[n]].item, key |-> element[c[n]].key] \in [item : MaybeItems, key : Int]
  BY DEF ListTypes, Heaps
<1>2. h \in [1 .. Len(c) -> [item : MaybeItems, key : Int]]
  BY <1>1 DEF HeldBy
<1>3. Len(c) \in Nat
  OBVIOUS
<1> HIDE DEF h
<1>4. PICK n \in Nat : n = Len(c)
  BY <1>3
<1>5. h \in [1 .. n -> [item : MaybeItems, key : Int]]
  BY <1>2, <1>4
<1>6. h \in Seq([item : MaybeItems, key : Int]) /\ Len(h) = n
  BY <1>5, FunctionsOnPlaces
<1> QED BY <1>4, <1>6 DEF h

----------------------------------------------------------------------------
\* Append.
LEMMA AtEndLinks ==
  ASSUME ListTypes, NEW c \in Seq(Elements), IsList(c), NEW e \in Elements, NEW i \in Items, NEW k \in Int,
         AtEnd(e, i, k)
  PROVE  LinkedIn(c, Len(c) + 1, e, i, k)
<1>1. Len(c) # 0 /\ Len(c) \in 1 .. Len(c) /\ last = c[Len(c)]
  BY DEF IsList, LeadsThrough, HeadOf, AtEnd, IsEmpty
<1>2. NextOf(c, Len(c)) = NULL
  BY DEF NextOf
<1>3. NewAfter(c[Len(c)], e, i, k, NextOf(c, Len(c))) /\ first' = first /\ last' = e
  BY <1>1, <1>2, Zenon DEF AtEnd
<1> QED BY <1>1, <1>3, NewAfterLinks

\* Append puts the item at the end.
LEMMA AppendItemIs ==
  ASSUME ListInv, NEW i \in Items, AppendItem(i)
  PROVE  ListInv' /\ Sequence!PutAtEnd(i)
<1>1. PICK c \in Seq(Elements) : IsList(c)
  BY DEF ListInv
<1>2. ListTypes /\ OutsideMapcar /\ UNCHANGED <<removed, mapcarVars>> /\ 0 \in Int /\ Len(c) \in Nat
  BY <1>1 DEF ListInv, AppendItem
<1>3. PICK e \in Elements : Only(e, i, 0) \/ AtEnd(e, i, 0)
  BY DEF AppendItem
<1>4. LinkedIn(c, Len(c) + 1, e, i, 0)
  <2>1. CASE Only(e, i, 0)
    <3>1. Len(c) = 0 /\ LinkedIn(c, 1, e, i, 0)
      BY <1>1, <1>2, <2>1, OnlyLinks
    <3>2. Len(c) + 1 = 1
      BY <3>1
    <3> QED BY <3>1, <3>2, Zenon
  <2>2. CASE AtEnd(e, i, 0)
    BY <1>1, <1>2, <2>2, AtEndLinks
  <2> QED BY <1>3, <2>1, <2>2
<1>5. Len(c) + 1 \in 1 .. Len(c) + 1
  BY <1>2
<1>6. IsPut(c, Len(c) + 1, i, 0)
  BY <1>1, <1>2, <1>4, <1>5, Zenon DEF IsPut
<1> DEFINE h == HeldBy(element, c)
           x == [item |-> i, key |-> 0]
<1>7. ListInv' /\ Contents(first) = h /\ Contents(first)' = With(h, Len(c) + 1, x)
  BY <1>6, PutIs, Zenon
<1>8. h \in Seq([item : MaybeItems, key : Int]) /\ Len(h) = Len(c)
  BY <1>1, <1>2, HeldIs, Zenon
<1>9. x \in [item : MaybeItems, key : Int]
  BY DEF MaybeItems
<1> HIDE DEF h
<1>10. Append(h, x) = With(h, Len(c) + 1, x)
  BY <1>8, <1>9, WithAtEnds
<1> QED BY <1>2, <1>7, <1>10 DEF Sequence!PutAtEnd, Sequence!ListItem

\* Prepend.
LEMMA PrependItemIs ==
  ASSUME ListInv, NEW i \in Items, PrependItem(i)
  PROVE  ListInv' /\ Sequence!PutInFront(i)
<1>1. PICK c \in Seq(Elements) : IsList(c)
  BY DEF ListInv
<1>2. ListTypes /\ OutsideMapcar /\ UNCHANGED <<removed, mapcarVars>> /\ 0 \in Int /\ Len(c) \in Nat
  BY <1>1 DEF ListInv, PrependItem
<1>3. PICK e \in Elements : Only(e, i, 0) \/ InFront(e, i, 0)
  BY DEF PrependItem
<1>4. LinkedIn(c, 1, e, i, 0)
  BY <1>1, <1>2, <1>3, OnlyLinks, InFrontLinks
<1>5. 1 \in 1 .. Len(c) + 1
  BY <1>2
<1>6. IsPut(c, 1, i, 0)
  BY <1>1, <1>2, <1>4, <1>5, Zenon DEF IsPut
<1> DEFINE h == HeldBy(element, c)
           x == [item |-> i, key |-> 0]
<1>7. ListInv' /\ Contents(first) = h /\ Contents(first)' = With(h, 1, x)
  BY <1>6, PutIs, Zenon
<1>8. h \in Seq([item : MaybeItems, key : Int])
  BY <1>1, <1>2, HeldIs, Zenon
<1>9. x \in [item : MaybeItems, key : Int]
  BY DEF MaybeItems
<1> HIDE DEF h
<1>10. <<x>> \o h = With(h, 1, x)
  BY <1>8, <1>9, WithAtEnds
<1> QED BY <1>2, <1>7, <1>10 DEF Sequence!PutInFront, Sequence!ListItem

----------------------------------------------------------------------------
\* SortedInsert.  Place p is behind the keys up to k.
AtKey(c, p, k) ==
  /\ \A n \in 1 .. p - 1 : element[c[n]].key <= k
  /\ p <= Len(c) => element[c[p]].key > k

LEMMA SortedInsertLinks ==
  ASSUME ListTypes, NEW c \in Seq(Elements), IsList(c), NEW i \in Items, NEW k \in Int, SortedInsert(i, k)
  PROVE  \E p \in 1 .. Len(c) + 1 : AtKey(c, p, k) /\ \E e : LinkedIn(c, p, e, i, k)
<1> DEFINE key(n) == element[c[n]].key
<1>1. Len(c) \in Nat /\ first = HeadOf(c) /\ \A n \in 1 .. Len(c) : element[c[n]].next = NextOf(c, n)
  BY DEF IsList, LeadsThrough
<1>2. \A n \in 1 .. Len(c) : key(n) \in Int
  BY DEF ListTypes, Heaps
<1>3. PICK e \in Elements :
        \/ Only(e, i, k)
        \/ ~IsEmpty /\ k < element[first].key /\ InFront(e, i, k)
        \/ /\ ~IsEmpty /\ k >= element[first].key
           /\ \/ \E p \in Before(k) :
                   NewAfter(p, e, i, k, element[p].next) /\ UNCHANGED <<first, last>>
              \/ Before(k) = {} /\ AtEnd(e, i, k)
  BY Zenon DEF SortedInsert
<1>4. Before(k) = {c[n] : n \in {m \in 1 .. Len(c) - 1 :
                             k < key(m + 1) /\ \A l \in 1 .. m - 1 : k >= key(l + 1)}}
  <2>1. Chain(first) = c
    BY ChainIs, ChainIsIn DEF IsList
  <2> QED BY <2>1 DEF Before
<1>5. CASE Only(e, i, k)
  <2>1. Len(c) = 0 /\ LinkedIn(c, 1, e, i, k)
    BY <1>5, OnlyLinks
  <2>2. AtKey(c, 1, k) /\ 1 \in 1 .. Len(c) + 1
    BY <2>1 DEF AtKey
  <2> QED BY <2>1, <2>2
<1>6. CASE ~IsEmpty /\ k < element[first].key /\ InFront(e, i, k)
  <2>1. Len(c) # 0 /\ LinkedIn(c, 1, e, i, k)
    BY <1>6, InFrontLinks
  <2>2. first = c[1] /\ 1 \in 1 .. Len(c)
    BY <1>1, <2>1 DEF HeadOf
  <2>3. AtKey(c, 1, k) /\ 1 \in 1 .. Len(c) + 1
    BY <1>1, <1>2, <1>6, <2>2 DEF AtKey
  <2> QED BY <2>1, <2>3
<1>7. CASE /\ ~IsEmpty /\ k >= element[first].key
           /\ \E p \in Before(k) : NewAfter(p, e, i, k, element[p].next) /\ UNCHANGED <<first, last>>
  <2>1. PICK m \in 1 .. Len(c) - 1 :
          /\ k < key(m + 1) /\ \A l \in 1 .. m - 1 : k >= key(l + 1)
          /\ NewAfter(c[m], e, i, k, element[c[m]].next) /\ UNCHANGED <<first, last>>
    BY <1>4, <1>7
  <2>2. m \in 1 .. Len(c) /\ m # Len(c) /\ element[c[m]].next = NextOf(c, m)
    BY <1>1, <2>1
  <2>3. m + 1 \in 1 .. Len(c) + 1 /\ LinkedIn(c, m + 1, e, i, k)
    <3>1. NewAfter(c[m], e, i, k, NextOf(c, m)) /\ first' = first /\ last' = IF m = Len(c) THEN e ELSE last
      BY <2>1, <2>2
    <3> QED BY <2>2, <3>1, NewAfterLinks
  <2>4. ASSUME NEW n \in 1 .. m
        PROVE  key(n) <= k
    <3>1. CASE n = 1
      <4>1. first = c[1]
        BY <1>1, <2>1 DEF HeadOf
      <4> QED BY <1>2, <1>7, <2>2, <3>1, <4>1
    <3>2. CASE n # 1
      <4>1. n - 1 \in 1 .. m - 1 /\ (n - 1) + 1 = n
        BY <2>1, <3>2
      <4>2. k >= key((n - 1) + 1)
        BY <2>1, <4>1
      <4> QED BY <1>2, <2>2, <4>1, <4>2
    <3> QED BY <3>1, <3>2
  <2>5. AtKey(c, m + 1, k)
    <3>1. (m + 1) - 1 = m
      BY <2>1
    <3>2. \A n \in 1 .. (m + 1) - 1 : element[c[n]].key <= k
      BY <2>4, <3>1
    <3>3. element[c[m + 1]].key > k
      <4>1. m + 1 \in 1 .. Len(c)
        BY <1>1, <2>1
      <4> QED BY <1>2, <2>1, <4>1
    <3> QED BY <3>2, <3>3 DEF AtKey
  <2> QED BY <2>3, <2>5
<1>8. CASE ~IsEmpty /\ k >= element[first].key /\ Before(k) = {} /\ AtEnd(e, i, k)
  <2>1. LinkedIn(c, Len(c) + 1, e, i, k)
    BY <1>8, AtEndLinks
  <2>2. Len(c) # 0 /\ first = c[1]
    BY <1>1, <1>8 DEF HeadOf, IsEmpty
  <2>3. \A n \in 1 .. Len(c) : key(n) <= k
    <3> DEFINE M == {n \in 1 .. Len(c) : ~(key(n) <= k)}
    <3>1. SUFFICES ASSUME M # {} PROVE FALSE
      OBVIOUS
    <3>2. M \in SUBSET Nat
      OBVIOUS
    <3>3. PICK n \in M : \A m \in M : n <= m
      BY <3>1, <3>2, LeastNumber, Zenon
    <3>4. n \in 1 .. Len(c) /\ ~(key(n) <= k)
      BY <3>3
    <3>5. n # 1
      BY <1>2, <1>8, <2>2, <3>4
    <3>6. n - 1 \in 1 .. Len(c) - 1 /\ (n - 1) + 1 = n
      BY <1>1, <3>4, <3>5
    <3>7. k < key((n - 1) + 1)
      BY <1>2, <3>4, <3>6
    <3>8. ASSUME NEW l \in 1 .. (n - 1) - 1
          PROVE  k >= key(l + 1)
      <4>1. l + 1 \in 1 .. Len(c) /\ ~(n <= l + 1)
        BY <1>1, <3>4, <3>8
      <4>2. l + 1 \notin M
        BY <3>3, <4>1
      <4> QED BY <1>2, <4>1, <4>2
    <3>9. c[n - 1] \in Before(k)
      BY <1>4, <3>6, <3>7, <3>8
    <3> QED BY <1>8, <3>9
  <2>4. AtKey(c, Len(c) + 1, k) /\ Len(c) + 1 \in 1 .. Len(c) + 1
    BY <1>1, <2>3 DEF AtKey
  <2> QED BY <2>1, <2>4
<1> QED BY <1>3, <1>5, <1>6, <1>7, <1>8

\* ... which is the place that the sequence's operation chooses.
LEMMA SortedInsertIs ==
  ASSUME ListInv, NEW i \in Items, NEW k \in Keys, SortedInsert(i, k)
  PROVE  ListInv' /\ Sequence!PutInOrder(i, k)
<1>1. PICK c \in Seq(Elements) : IsList(c)
  BY DEF ListInv
<1>2. ListTypes /\ OutsideMapcar /\ UNCHANGED <<removed, mapcarVars>> /\ k \in Int /\ Len(c) \in Nat
  BY <1>1, ListsAssumption DEF ListInv, SortedInsert
<1>3. PICK p \in 1 .. Len(c) + 1 : AtKey(c, p, k) /\ \E e : LinkedIn(c, p, e, i, k)
  BY <1>1, <1>2, SortedInsertLinks
<1>4. IsPut(c, p, i, k)
  BY <1>1, <1>2, <1>3, Zenon DEF IsPut
<1> DEFINE T == [item : MaybeItems, key : Int]
           h == HeldBy(element, c)
           x == [item |-> i, key |-> k]
<1>5. ListInv' /\ Contents(first) = h /\ Contents(first)' = With(h, p, x)
  BY <1>4, PutIs, Zenon
<1>6. h \in Seq(T) /\ Len(h) = Len(c)
  BY <1>1, <1>2, HeldIs, Zenon
<1>7. x \in T
  BY <1>2 DEF MaybeItems
<1>8. \A n \in 1 .. Len(c) : h[n].key = element[c[n]].key /\ h[n].key \in Int
  <2>1. \A n \in 1 .. Len(c) : h[n].key = element[c[n]].key
    BY DEF HeldBy
  <2> HIDE DEF h
  <2>2. \A n \in 1 .. Len(c) : h[n] \in T
    <3> HIDE DEF T
    <3> QED BY <1>6
  <2> QED BY <2>1, <2>2
<1> HIDE DEF h, x
<1>9. Sequence!InsertAt(h, p, x) = With(h, p, x)
  BY <1>3, <1>6, <1>7, InsertAtIs, Zenon
<1> DEFINE larger == {n \in DOMAIN h : h[n].key > k}
           spot == CHOOSE n \in larger \cup {Len(h) + 1} : \A m \in larger : n <= m
<1>10. p \in larger \cup {Len(h) + 1} /\ \A m \in larger : p <= m
  <2>1. p \in larger \cup {Len(h) + 1}
    BY <1>3, <1>6, <1>8, <1>2 DEF AtKey
  <2>2. ASSUME NEW m \in larger, ~(p <= m)
        PROVE  FALSE
    <3>1. m \in 1 .. p - 1 /\ m \in 1 .. Len(c)
      BY <1>2, <1>6, <2>2
    <3>2. element[c[m]].key <= k
      BY <1>3, <3>1 DEF AtKey
    <3> QED BY <1>2, <1>8, <2>2, <3>1, <3>2
  <2> QED BY <2>1, <2>2
<1>11. spot \in larger \cup {Len(h) + 1} /\ \A m \in larger : spot <= m
  BY <1>10, Zenon
<1>12. spot = p
  <2>1. larger \subseteq 1 .. Len(c) /\ Len(h) + 1 = Len(c) + 1
    BY <1>6
  <2> HIDE DEF larger, spot
  <2> QED BY <1>2, <1>10, <1>11, <2>1
<1>13. Contents(first)' = Sequence!InsertAt(h, spot, x)
  BY <1>5, <1>9, <1>12, Zenon
<1>14. removed' = removed
  BY <1>2
<1> QED BY <1>5, <1>13, <1>14 DEF Sequence!PutInOrder, Sequence!ListItem, x

----------------------------------------------------------------------------
\* Remove.
LEMMA TailIs ==
  ASSUME NEW T, NEW s \in Seq(T), Len(s) # 0
  PROVE  /\ Tail(s) \in Seq(T) /\ Len(Tail(s)) = Len(s) - 1 /\ Len(s) - 1 \in Nat
         /\ \A n \in 1 .. Len(s) - 1 : Tail(s)[n] = s[n + 1]
         /\ Head(s) = s[1] /\ 1 \in 1 .. Len(s) /\ s[1] \in T
OBVIOUS

LEMMA RemoveIs ==
  ASSUME ListInv, SortedRemove
  PROVE  ListInv' /\ Sequence!TakeFirst
<1>1. PICK c \in Seq(Elements) : IsList(c)
  BY DEF ListInv
<1>2. ListTypes /\ ptr = NULL /\ UNCHANGED mapcarVars /\ Len(c) \in Nat
  BY <1>1 DEF ListInv, SortedRemove, OutsideMapcar
<1>3. /\ AreApart(c) /\ first = HeadOf(c) /\ last = (IF Len(c) = 0 THEN NULL ELSE c[Len(c)])
      /\ \A n \in 1 .. Len(c) : element[c[n]].next = NextOf(c, n)
      /\ allocated = {c[n] : n \in 1 .. Len(c)}
  BY <1>1 DEF IsList, LeadsThrough
<1> DEFINE T == [item : MaybeItems, key : Int]
           h == HeldBy(element, c)
<1>4. Contents(first) = h
  BY <1>1, ContentsAre DEF IsList
<1>5. h \in Seq(T) /\ Len(h) = Len(c)
  BY <1>1, <1>2, HeldIs, Zenon
<1>6. CASE IsEmpty
  <2>1. Len(c) = 0
    <3> SUFFICES ASSUME Len(c) # 0 PROVE FALSE
      OBVIOUS
    <3>1. first = c[1] /\ c[1] \in Elements
      BY <1>2, <1>3 DEF HeadOf
    <3> QED BY <1>6, <3>1, ListsAssumption DEF IsEmpty
  <2>2. removed' = NoItem /\ UNCHANGED <<first, last, heapVars>>
    BY <1>6 DEF SortedRemove
  <2>3. UNCHANGED <<first, last, element, allocated, ptr, applied>>
    BY <1>2, <2>2 DEF heapVars, mapcarVars
  <2>4. IsList(c)'
    BY <1>1, <2>3 DEF IsList, LeadsThrough
  <2>5. ListTypes' /\ MapcarOK(c)'
    BY <1>2, <2>2, <2>3 DEF ListTypes, MapcarOK, MaybeItems
  <2>6. Contents(first)' = h
    <3>1. LeadsThrough(element', first', c)
      BY <2>4 DEF IsList
    <3> QED BY <2>3, <3>1, NewContentsAre
  <2>7. h = << >>
    <3> HIDE DEF h, T
    <3> QED BY <1>5, <2>1
  <2> QED BY <1>4, <2>2, <2>4, <2>5, <2>6, <2>7 DEF ListInv, Sequence!TakeFirst
<1>7. CASE ~IsEmpty
  <2>1. Len(c) # 0 /\ first = c[1]
    BY <1>3, <1>7 DEF IsEmpty, HeadOf
  <2>2. /\ removed' = element[first].item
        /\ IF first = last THEN first' = NULL /\ last' = NULL
                           ELSE first' = element[first].next /\ UNCHANGED last
        /\ allocated' = allocated \ {first}
        /\ element' = [element EXCEPT ![first] = Garbage]
    BY <1>7 DEF SortedRemove
  <2> DEFINE d == Tail(c)
  <2>3. /\ d \in Seq(Elements) /\ Len(d) = Len(c) - 1 /\ Len(c) - 1 \in Nat
        /\ \A n \in 1 .. Len(c) - 1 : d[n] = c[n + 1]
        /\ 1 \in 1 .. Len(c) /\ c[1] \in Elements
    BY <1>1, <2>1, TailIs, Zenon
  <2> HIDE DEF d
  <2>4. \A m, n \in 1 .. Len(c) : c[m] = c[n] => m = n
    BY <1>3 DEF AreApart
  <2>5. \A n \in 1 .. Len(d) : n + 1 \in 1 .. Len(c) /\ d[n] = c[n + 1] /\ d[n] # first /\ d[n] \in Elements
    <3> TAKE n \in 1 .. Len(d)
    <3>1. n + 1 \in 1 .. Len(c) /\ d[n] = c[n + 1] /\ n + 1 # 1
      BY <1>2, <2>3
    <3> QED BY <1>1, <2>1, <2>3, <2>4, <3>1
  <2>6. element \in Heaps /\ Garbage \in [item : MaybeItems, key : Int, next : Pointers]
    BY <1>2 DEF ListTypes, Garbage, MaybeItems, Pointers
  <2>7. element' \in Heaps /\ \A n \in 1 .. Len(d) : element'[d[n]] = element[c[n + 1]]
    BY <2>2, <2>5, <2>6 DEF Heaps
  <2>8. AreApart(d)
    <3> SUFFICES ASSUME NEW m \in 1 .. Len(d), NEW n \in 1 .. Len(d), d[m] = d[n]
                 PROVE  m = n
      BY DEF AreApart
    <3>1. m + 1 = n + 1
      BY <2>4, <2>5
    <3> QED BY <1>2, <2>3, <3>1
  <2>9. ASSUME NEW n \in 1 .. Len(d)
        PROVE  element'[d[n]].next = NextOf(d, n)
    <3>1. element'[d[n]].next = IF n + 1 < Len(c) THEN c[(n + 1) + 1] ELSE NULL
      BY <1>3, <2>5, <2>7 DEF NextOf
    <3>2. n < Len(d) <=> n + 1 < Len(c)
      BY <1>2, <2>3
    <3>3. n < Len(d) => d[n + 1] = c[(n + 1) + 1]
      BY <1>2, <2>3
    <3> QED BY <3>1, <3>2, <3>3 DEF NextOf
  <2>10. first = last <=> Len(c) = 1
    BY <1>2, <1>3, <2>1, <2>3, <2>4
  <2>11. first' = HeadOf(d)
    <3>1. CASE Len(c) = 1
      BY <2>2, <2>3, <2>10, <3>1 DEF HeadOf
    <3>2. CASE Len(c) # 1
      <4>1. first' = element[c[1]].next
        BY <2>1, <2>2, <2>10, <3>2
      <4>2. 1 < Len(c) /\ 1 \in 1 .. Len(c) - 1
        <5>1. PICK n \in Nat : n = Len(c)
          BY <1>2
        <5>2. n # 0 /\ n # 1
          BY <2>1, <3>2, <5>1
        <5>3. 1 < n /\ 1 \in 1 .. n - 1
          BY <5>2
        <5> QED BY <5>1, <5>3
      <4>3. first' = c[1 + 1]
        BY <1>3, <2>3, <4>1, <4>2 DEF NextOf
      <4> QED BY <1>2, <2>3, <4>2, <4>3 DEF HeadOf
    <3> QED BY <3>1, <3>2
  <2>12. last' = IF Len(d) = 0 THEN NULL ELSE d[Len(d)]
    <3>1. CASE Len(c) = 1
      BY <2>2, <2>3, <2>10, <3>1
    <3>2. CASE Len(c) # 1
      <4>1. last' = c[Len(c)]
        BY <1>3, <2>1, <2>2, <2>10, <3>2
      <4>2. Len(d) # 0 /\ d[Len(d)] = c[Len(c)]
        BY <1>2, <2>1, <2>3, <3>2
      <4> QED BY <4>1, <4>2
    <3> QED BY <3>1, <3>2
  <2>13. allocated' = {d[n] : n \in 1 .. Len(d)}
    <3>1. \A n \in 1 .. Len(d) : d[n] \in allocated \ {first}
      BY <1>3, <2>5
    <3>2. ASSUME NEW m \in 1 .. Len(c), c[m] # first
          PROVE  \E n \in 1 .. Len(d) : d[n] = c[m]
      <4>1. m # 1
        BY <2>1, <3>2
      <4>2. m - 1 \in 1 .. Len(d) /\ (m - 1) + 1 = m
        BY <1>2, <2>3, <4>1
      <4>3. d[m - 1] = c[m]
        BY <2>5, <4>2
      <4> QED BY <4>2, <4>3
    <3>3. \A x \in allocated \ {first} : \E n \in 1 .. Len(d) : d[n] = x
      BY <1>3, <3>2
    <3> QED BY <2>2, <3>1, <3>3
  <2>14. LeadsThrough(element', first', d)
    BY <2>3, <2>8, <2>9, <2>11 DEF LeadsThrough
  <2>15. IsList(d)'
    BY <2>12, <2>13, <2>14 DEF IsList
  <2>16. ListTypes' /\ MapcarOK(d)'
    <3>1. removed' \in MaybeItems
      BY <2>1, <2>2, <2>3, <2>6 DEF Heaps
    <3>2. ptr' = NULL /\ applied' = applied
      BY <1>2 DEF mapcarVars
    <3> QED BY <1>2, <2>7, <3>1, <3>2 DEF ListTypes, MapcarOK, Pointers
  <2>17. Contents(first)' = HeldBy(element', d)
    BY <2>14, NewContentsAre
  <2> DEFINE g == HeldBy(element', d)
  <2>18. g = Tail(h)
    <3>1. Len(g) = Len(d) /\ \A n \in 1 .. Len(d) : g[n] = [item |-> element'[d[n]].item, key |-> element'[d[n]].key]
      BY <2>3 DEF HeldBy
    <3>2. \A n \in 1 .. Len(c) : h[n] = [item |-> element[c[n]].item, key |-> element[c[n]].key]
      BY DEF HeldBy
    <3>3. g = [n \in 1 .. Len(d) |-> g[n]]
      BY DEF HeldBy
    <3> HIDE DEF g, h, T
    <3>4. /\ Tail(h) \in Seq(T) /\ Len(Tail(h)) = Len(h) - 1
          /\ \A n \in 1 .. Len(h) - 1 : Tail(h)[n] = h[n + 1]
      BY <1>5, <2>1, TailIs, Zenon
    <3> DEFINE t == Tail(h)
    <3> HIDE DEF t
    <3>5. t \in Seq(T) /\ Len(t) = Len(d) /\ \A n \in 1 .. Len(d) : t[n] = h[n + 1]
      BY <1>5, <2>3, <3>4 DEF t
    <3>6. ASSUME NEW n \in 1 .. Len(d)
          PROVE  g[n] = t[n]
      <4>1. n + 1 \in 1 .. Len(c) /\ element'[d[n]] = element[c[n + 1]]
        BY <2>5, <2>7
      <4>2. g[n] = h[n + 1]
        BY <3>1, <3>2, <4>1
      <4> QED BY <3>5, <4>2
    <3>7. t = [n \in 1 .. Len(d) |-> t[n]]
      BY <3>5
    <3> QED BY <3>3, <3>6, <3>7 DEF t
  <2>19. h # << >> /\ removed' = Head(h).item
    <3>1. h[1].item = element[c[1]].item
      BY <2>3 DEF HeldBy
    <3> HIDE DEF h, T
    <3>2. Head(h) = h[1] /\ h # << >>
      BY <1>5, <2>1, TailIs
    <3> QED BY <2>1, <2>2, <3>1, <3>2
  <2>20. ListInv'
    BY <2>3, <2>15, <2>16 DEF ListInv
  <2> QED BY <1>4, <2>17, <2>18, <2>19, <2>20 DEF Sequence!TakeFirst
<1> QED BY <1>6, <1>7

----------------------------------------------------------------------------
\* Mapcar changes nothing on the list.
LEMMA OnlyMapcarMoves ==
  ASSUME NEW c \in Seq(Elements), IsList(c), UNCHANGED <<first, last, heapVars, removed>>
  PROVE  IsList(c)' /\ Contents(first)' = Contents(first)
<1>1. first' = first /\ last' = last /\ element' = element /\ allocated' = allocated
  BY DEF heapVars
<1>2. IsList(c)'
  BY <1>1 DEF IsList, LeadsThrough
<1>3. LeadsThrough(element', first', c)
  BY <1>2 DEF IsList
<1>4. Contents(first)' = HeldBy(element', c)
  BY <1>3, NewContentsAre
<1>5. Contents(first) = HeldBy(element, c)
  BY ContentsAre DEF IsList
<1> QED BY <1>1, <1>2, <1>4, <1>5

\* Mapcar begins at the first element ...
LEMMA MapcarBeginsIs ==
  ASSUME ListInv, MapcarBegins
  PROVE  ListInv' /\ UNCHANGED <<Contents(first), removed>>
<1>1. PICK c \in Seq(Elements) : IsList(c)
  BY DEF ListInv
<1>2. /\ first # NULL /\ ptr' = first /\ applied' = << >>
      /\ UNCHANGED <<first, last, heapVars, removed>> /\ element' = element
  BY DEF MapcarBegins, IsEmpty, heapVars
<1>3. first = c[1] /\ 1 \in 1 .. Len(c) /\ c[1] \in Elements
  BY <1>1, <1>2 DEF IsList, LeadsThrough, HeadOf
<1>4. ListTypes'
  BY <1>2, <1>3 DEF ListInv, ListTypes, Pointers
<1>5. [j \in 1 .. 1 - 1 |-> element'[c[j]].item] = << >>
  OBVIOUS
<1>6. MapcarOK(c)'
  BY <1>2, <1>3, <1>5 DEF MapcarOK
<1> QED BY <1>1, <1>2, <1>4, <1>6, OnlyMapcarMoves DEF ListInv

\* ... and goes on to the next.
LEMMA MapcarCallsIs ==
  ASSUME ListInv, MapcarCalls
  PROVE  ListInv' /\ UNCHANGED <<Contents(first), removed>>
<1>1. PICK c \in Seq(Elements) : IsList(c) /\ MapcarOK(c)
  BY DEF ListInv
<1>2. /\ ptr # NULL /\ ptr' = element[ptr].next
      /\ applied' = IF element[ptr].next = NULL THEN << >> ELSE Append(applied, element[ptr].item)
      /\ UNCHANGED <<first, last, heapVars, removed>> /\ element' = element
  BY DEF MapcarCalls, OutsideMapcar, heapVars
<1>3. PICK k \in 1 .. Len(c) : ptr = c[k] /\ applied = [j \in 1 .. k - 1 |-> element[c[j]].item]
  BY <1>1, <1>2 DEF MapcarOK
<1>4. ListTypes /\ Len(c) \in Nat /\ c[k] \in Elements /\ ptr' = NextOf(c, k)
  BY <1>1, <1>2, <1>3 DEF ListInv, IsList, LeadsThrough
<1>5. element[ptr].item \in MaybeItems /\ ptr' \in Pointers
  BY <1>2, <1>3, <1>4 DEF ListTypes, Heaps
<1>6. applied' \in Seq(MaybeItems)
  BY <1>2, <1>4, <1>5 DEF ListTypes
<1>7. ListTypes'
  BY <1>2, <1>4, <1>5, <1>6 DEF ListTypes
<1>8. MapcarOK(c)'
  <2>1. CASE k < Len(c)
    <3>1. k + 1 \in 1 .. Len(c) /\ (k + 1) - 1 = k /\ c[k + 1] \in Elements
      BY <1>4, <2>1
    <3>2. ptr' = c[k + 1] /\ ptr' # NULL
      BY <1>4, <2>1, <3>1, ListsAssumption DEF NextOf
    <3>3. applied' = Append(applied, element[c[k]].item)
      BY <1>2, <1>3, <3>2
    <3> DEFINE n == k - 1
               s == applied
               x == element[c[k]].item
               t == [j \in 1 .. k |-> element[c[j]].item]
    <3>4. n \in Nat /\ n + 1 = k /\ s \in Seq(MaybeItems) /\ x \in MaybeItems
      BY <1>3, <1>4, <1>5 DEF ListTypes
    <3>5. Len(s) = n /\ \A j \in 1 .. n : s[j] = element[c[j]].item
      <4>1. DOMAIN s = 1 .. n /\ \A j \in 1 .. n : s[j] = element[c[j]].item
        BY <1>3
      <4> HIDE DEF n, s
      <4> QED BY <3>4, <4>1
    <3>6. t \in Seq(MaybeItems) /\ Len(t) = k /\ \A j \in 1 .. k : t[j] = element[c[j]].item
      <4>1. \A j \in 1 .. k : element[c[j]].item \in MaybeItems
        BY <1>4 DEF ListTypes, Heaps
      <4>2. t \in [1 .. k -> MaybeItems]
        BY <4>1
      <4>3. \A j \in 1 .. k : t[j] = element[c[j]].item
        OBVIOUS
      <4>4. k \in Nat
        OBVIOUS
      <4> HIDE DEF t
      <4> QED BY <4>2, <4>3, <4>4, FunctionsOnPlaces
    <3> DEFINE a == Append(s, x)
    <3>7. a \in Seq(MaybeItems) /\ Len(a) = n + 1 /\ \A j \in 1 .. n + 1 : a[j] = IF j <= n THEN s[j] ELSE x
      <4> HIDE DEF n, s, x
      <4> QED BY <3>4, <3>5
    <3>8. a = t
      <4>1. \A j \in 1 .. k : j <= n => s[j] = element[c[j]].item
        <5> HIDE DEF n, s
        <5> QED BY <3>4, <3>5
      <4>2. \A j \in 1 .. k : ~(j <= n) => j = k
        BY <3>4
      <4> HIDE DEF a, t, n, s
      <4>3. \A j \in 1 .. k : a[j] = t[j]
        BY <3>4, <3>6, <3>7, <4>1, <4>2
      <4> QED BY <3>4, <3>6, <3>7, <4>3, SameSequence
    <3>9. applied' = [j \in 1 .. (k + 1) - 1 |-> element'[c[j]].item]
      BY <1>2, <3>1, <3>3, <3>8
    <3> QED BY <3>1, <3>2, <3>9 DEF MapcarOK
  <2>2. CASE ~(k < Len(c))
    <3>1. ptr' = NULL
      BY <1>4, <2>2 DEF NextOf
    <3> QED BY <3>1 DEF MapcarOK
  <2> QED BY <2>1, <2>2
<1> QED BY <1>1, <1>2, <1>7, <1>8, OnlyMapcarMoves DEF ListInv

\* Steps of other parts change nothing.
LEMMA ListsStutter ==
  ASSUME ListInv, UNCHANGED listsVars
  PROVE  ListInv' /\ UNCHANGED <<Contents(first), removed>>
<1>1. PICK c \in Seq(Elements) : IsList(c) /\ MapcarOK(c)
  BY DEF ListInv
<1>2. /\ UNCHANGED <<first, last, heapVars, removed>>
      /\ element' = element /\ removed' = removed /\ ptr' = ptr /\ applied' = applied
  BY DEF listsVars, heapVars, mapcarVars
<1>3. ListTypes' /\ MapcarOK(c)'
  BY <1>1, <1>2 DEF ListInv, ListTypes, MapcarOK
<1> QED BY <1>1, <1>2, <1>3, OnlyMapcarMoves DEF ListInv

----------------------------------------------------------------------------
\* The constructor makes an empty list.
LEMMA ListsInitInv == ListsInit => ListInv /\ Contents(first) = << >>
<1> SUFFICES ASSUME ListsInit
             PROVE  ListInv /\ Contents(first) = << >>
  OBVIOUS
<1>1. << >> \in Seq(Elements) /\ Len(<< >>) = 0
  OBVIOUS
<1> DEFINE c == << >>
<1> HIDE DEF c
<1>2. c \in Seq(Elements) /\ Len(c) = 0
  BY <1>1 DEF c
<1>3. ListTypes
  <2>1. Garbage \in [item : MaybeItems, key : Int, next : Pointers]
    BY DEF Garbage, MaybeItems, Pointers
  <2> QED BY <2>1 DEF ListsInit, ListTypes, Heaps, MaybeItems, Pointers
<1>4. LeadsThrough(element, first, c)
  BY <1>2 DEF LeadsThrough, AreApart, HeadOf, ListsInit
<1>5. IsList(c)
  BY <1>2, <1>4 DEF IsList, ListsInit
<1>6. MapcarOK(c)
  BY DEF MapcarOK, ListsInit
<1>7. Contents(first) = HeldBy(element, c)
  BY <1>4, ContentsAre
<1>8. HeldBy(element, c) = << >>
  BY <1>2 DEF HeldBy
<1> QED BY <1>2, <1>3, <1>5, <1>6, <1>7, <1>8 DEF ListInv

\* The elements from the kth on.
LEMMA RestOfList ==
  ASSUME ListTypes, NEW c \in Seq(Elements), IsList(c), NEW k \in 1 .. Len(c)
  PROVE  LET d == SubSeq(c, k, Len(c))
         IN  /\ LeadsThrough(element, c[k], d) /\ d \in Seq(Elements) /\ Len(d) = Len(c) - k + 1
             /\ \A n \in 1 .. Len(d) : d[n] = c[n + k - 1]
<1> DEFINE d == SubSeq(c, k, Len(c))
<1>1. /\ AreApart(c) /\ Len(c) \in Nat
      /\ \A n \in 1 .. Len(c) : element[c[n]].next = NextOf(c, n)
  BY DEF IsList, LeadsThrough
<1>2. d \in Seq(Elements) /\ Len(d) = Len(c) - k + 1 /\ \A n \in 1 .. Len(c) - k + 1 : d[n] = c[n + k - 1]
  OBVIOUS
<1> HIDE DEF d
<1>3. \A n \in 1 .. Len(d) : n + k - 1 \in 1 .. Len(c) /\ d[n] = c[n + k - 1]
  BY <1>1, <1>2
<1>4. AreApart(d)
  BY <1>1, <1>3 DEF AreApart
<1>5. c[k] = HeadOf(d)
  <2>1. 1 \in 1 .. Len(d) /\ 1 + k - 1 = k /\ Len(d) # 0
    BY <1>1, <1>2
  <2>2. d[1] = c[1 + k - 1]
    BY <1>3, <2>1
  <2> QED BY <2>1, <2>2 DEF HeadOf
<1>6. ASSUME NEW n \in 1 .. Len(d)
      PROVE  element[d[n]].next = NextOf(d, n)
  <2>1. PICK m \in 1 .. Len(c) : m = n + k - 1 /\ d[n] = c[m]
    BY <1>3
  <2>2. n < Len(d) <=> m < Len(c)
    BY <1>1, <1>2, <2>1
  <2>3. n < Len(d) => d[n + 1] = c[m + 1]
    <3> SUFFICES ASSUME n < Len(d) PROVE d[n + 1] = c[m + 1]
      OBVIOUS
    <3>1. n + 1 \in 1 .. Len(d) /\ (n + 1) + k - 1 = m + 1
      BY <1>1, <1>2, <2>1
    <3> QED BY <1>3, <3>1
  <2> QED BY <1>1, <2>1, <2>2, <2>3 DEF NextOf
<1>7. LeadsThrough(element, c[k], d)
  BY <1>2, <1>4, <1>5, <1>6 DEF LeadsThrough
<1> QED BY <1>2, <1>3, <1>7 DEF d

\* The items from an element on.
LEMMA ItemsOfChain ==
  ASSUME NEW e, NEW d, LeadsThrough(element, e, d)
  PROVE  [n \in DOMAIN Chain(e) |-> Contents(e)[n].item] = [n \in 1 .. Len(d) |-> element[d[n]].item]
<1>1. Chain(e) = d /\ d \in Seq(Elements)
  BY ChainIs, ChainIsIn DEF LeadsThrough
<1>2. DOMAIN d = 1 .. Len(d)
  BY <1>1
<1>3. \A n \in 1 .. Len(d) : Contents(e)[n].item = element[d[n]].item
  BY <1>1, <1>2 DEF Contents
<1> QED BY <1>1, <1>2, <1>3

\* What Mapcar has met and what it has left make up the list.
LEMMA ListInvMapcar == ListInv => MapcarMeetsAll
<1> SUFFICES ASSUME ListInv, ptr # NULL
             PROVE  applied \o [n \in DOMAIN Chain(ptr) |-> Contents(ptr)[n].item]
                      = [n \in DOMAIN Chain(first) |-> Contents(first)[n].item]
  BY DEF MapcarMeetsAll
<1>1. PICK c \in Seq(Elements) : IsList(c) /\ MapcarOK(c)
  BY DEF ListInv
<1>2. PICK k \in 1 .. Len(c) : ptr = c[k] /\ applied = [j \in 1 .. k - 1 |-> element[c[j]].item]
  BY <1>1 DEF MapcarOK
<1> DEFINE d == SubSeq(c, k, Len(c))
<1>3. ListTypes /\ Len(c) \in Nat
  BY <1>1 DEF ListInv
<1>4. /\ LeadsThrough(element, c[k], d) /\ d \in Seq(Elements) /\ Len(d) = Len(c) - k + 1
      /\ \A n \in 1 .. Len(d) : d[n] = c[n + k - 1]
  BY <1>1, <1>3, RestOfList
<1> HIDE DEF d
<1> DEFINE r == [n \in 1 .. Len(d) |-> element[d[n]].item]
           w == [n \in 1 .. Len(c) |-> element[c[n]].item]
           s == applied
           a == s \o r
<1>5. [n \in DOMAIN Chain(ptr) |-> Contents(ptr)[n].item] = r
  BY <1>2, <1>4, ItemsOfChain
<1>6. [n \in DOMAIN Chain(first) |-> Contents(first)[n].item] = w
  BY <1>1, ItemsOfChain DEF IsList
<1>7. /\ \A n \in 1 .. Len(c) : w[n] = element[c[n]].item /\ w[n] \in MaybeItems
      /\ \A n \in 1 .. Len(d) : r[n] = element[d[n]].item /\ r[n] \in MaybeItems
  <2>1. \A x \in Elements : element[x].item \in MaybeItems
    BY <1>3 DEF ListTypes, Heaps
  <2>2. ASSUME NEW n \in 1 .. Len(c)
        PROVE  w[n] = element[c[n]].item /\ w[n] \in MaybeItems
    <3>1. c[n] \in Elements
      OBVIOUS
    <3>2. w[n] = element[c[n]].item
      OBVIOUS
    <3> QED BY <2>1, <3>1, <3>2, Zenon
  <2>3. ASSUME NEW n \in 1 .. Len(d)
        PROVE  r[n] = element[d[n]].item /\ r[n] \in MaybeItems
    <3>1. d[n] \in Elements
      BY <1>4
    <3>2. r[n] = element[d[n]].item
      OBVIOUS
    <3> QED BY <2>1, <3>1, <3>2, Zenon
  <2> QED BY <2>2, <2>3, Zenon
<1>8. w \in Seq(MaybeItems) /\ Len(w) = Len(c)
  <2>1. w \in [1 .. Len(c) -> MaybeItems]
    BY <1>7
  <2> HIDE DEF w
  <2> QED BY <1>3, <2>1, FunctionsOnPlaces
<1>9. r \in Seq(MaybeItems) /\ Len(r) = Len(d)
  <2>1. r \in [1 .. Len(d) -> MaybeItems] /\ Len(d) \in Nat
    BY <1>4, <1>7
  <2> HIDE DEF r
  <2> QED BY <2>1, FunctionsOnPlaces
<1>10. s \in Seq(MaybeItems) /\ Len(s) = k - 1 /\ \A j \in 1 .. k - 1 : s[j] = element[c[j]].item
  <2>1. s \in Seq(MaybeItems) /\ DOMAIN s = 1 .. k - 1 /\ \A j \in 1 .. k - 1 : s[j] = element[c[j]].item
    BY <1>2, <1>3 DEF ListTypes
  <2> HIDE DEF s
  <2> QED BY <1>3, <2>1
<1> HIDE DEF w, r, s
<1>11. /\ a \in Seq(MaybeItems) /\ Len(a) = Len(s) + Len(r)
       /\ \A j \in 1 .. Len(s) + Len(r) : a[j] = IF j <= Len(s) THEN s[j] ELSE r[j - Len(s)]
  <2>1. s \in Seq(MaybeItems) /\ r \in Seq(MaybeItems)
    BY <1>9, <1>10
  <2> QED BY <2>1, Appended
<1> HIDE DEF a
<1>12. Len(a) = Len(c)
  BY <1>3, <1>4, <1>9, <1>10, <1>11
<1>13. ASSUME NEW j \in 1 .. Len(c)
       PROVE  a[j] = w[j]
  <2>1. a[j] = IF j <= Len(s) THEN s[j] ELSE r[j - Len(s)]
    BY <1>11, <1>12
  <2>2. CASE j <= k - 1
    <3>1. j \in 1 .. k - 1
      BY <1>3, <2>2
    <3> QED BY <1>7, <1>10, <2>1, <2>2, <3>1
  <2>3. CASE ~(j <= k - 1)
    <3>1. PICK n \in 1 .. Len(d) : n = j - (k - 1) /\ n + k - 1 = j
      BY <1>3, <1>4, <2>3
    <3>2. r[n] = element[c[j]].item
      BY <1>4, <1>7, <3>1
    <3> QED BY <1>7, <1>10, <2>1, <2>3, <3>1, <3>2
  <2> QED BY <2>2, <2>3
<1>14. a = w
  BY <1>8, <1>11, <1>12, <1>13, SameSequence
<1> QED BY <1>5, <1>6, <1>14 DEF a, s

----------------------------------------------------------------------------
\* A step of the code is a step of the sequence, or invisible to it.
LEMMA ListStepIs ==
  ASSUME ListInv, [ListsNext]_listsVars
  PROVE  ListInv' /\ [Sequence!AbstractNext]_<<Contents(first), removed>>
<1>1. CASE \E i \in Items : AppendItem(i)
  BY <1>1, AppendItemIs DEF Sequence!AbstractNext
<1>2. CASE \E i \in Items : PrependItem(i)
  BY <1>2, PrependItemIs DEF Sequence!AbstractNext
<1>3. CASE \E i \in Items, k \in Keys : SortedInsert(i, k)
  BY <1>3, SortedInsertIs DEF Sequence!AbstractNext
<1>4. CASE SortedRemove
  BY <1>4, RemoveIs DEF Sequence!AbstractNext
<1>5. CASE MapcarBegins
  BY <1>5, MapcarBeginsIs
<1>6. CASE MapcarCalls
  BY <1>6, MapcarCallsIs
<1>7. CASE UNCHANGED listsVars
  BY <1>7, ListsStutter
<1> QED BY <1>1, <1>2, <1>3, <1>4, <1>5, <1>6, <1>7 DEF ListsNext

\* The pointers of threads/list.cc form one chain, from first to last: the
\* elements in it are those that new returned and delete has not taken back,
\* each once, whatever operations are called in whatever order.
THEOREM ListInvariance == ListsSpec => []ListInv
<1>1. ListsInit => ListInv
  BY ListsInitInv
<1>2. ListInv /\ [ListsNext]_listsVars => ListInv'
  BY ListStepIs
<1> QED BY <1>1, <1>2, PTL DEF ListsSpec

\* List of threads/list.cc implements the sequence that list.h promises: Append,
\* Prepend, SortedInsert and Remove put items into the chain and take them out as
\* if it were one, those with equal keys in the order in which they came, and
\* Mapcar calls its function for each item once, in order.
THEOREM ListsAreSequences == ListsSpec => ListIsASequence
<1>1. ListsInit => Sequence!AbstractInit
  BY ListsInitInv DEF Sequence!AbstractInit, ListsInit
<1>2. ListInv /\ [ListsNext]_listsVars => [Sequence!AbstractNext]_<<Contents(first), removed>>
  BY ListStepIs
<1>3. ListInv => MapcarMeetsAll
  BY ListInvMapcar
<1> QED BY <1>1, <1>2, <1>3, ListInvariance, PTL DEF ListsSpec, ListIsASequence, Sequence!AbstractSpec

=============================================================================
