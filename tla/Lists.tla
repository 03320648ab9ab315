------------------------------- MODULE Lists -------------------------------
(***************************************************************************)
(* List of threads/list.cc: the ready list, the queues of locks, of        *)
(* semaphores and of conditions and the pending interrupts are such lists. *)
(* Pointers are elements of a heap: new takes from it, delete gives back.  *)
(* Callers keep interrupts disabled, so an operation is one step, except   *)
(* for Mapcar, which calls a function for each item.                       *)
(***************************************************************************)
EXTENDS Integers, Sequences, FiniteSets

CONSTANTS
  Elements,  \* the addresses of ListElements; how many there are is a bound
  Items,     \* what is put on the list
  Keys,      \* the keys it is inserted with
  NoItem,    \* NULL, as an item
  NULL       \* NULL, as a ListElement

ASSUME ListsAssumption ==
  /\ IsFiniteSet(Elements) /\ NULL \notin Elements
  /\ NoItem \notin Items /\ Keys \subseteq Int

VARIABLES
  first, last,      \* List::first, List::last
  element,          \* item, key and next of every element
  allocated,        \* the elements that new has returned and delete not taken back
  removed,          \* what SortedRemove returned last
  ptr, applied      \* Mapcar: where it is; the items it called the function with

heapVars == <<element, allocated>>
mapcarVars == <<ptr, applied>>
listsVars == <<first, last, heapVars, removed, mapcarVars>>

\* IsEmpty
IsEmpty == first = NULL

Garbage == [item |-> NoItem, key |-> 0, next |-> NULL]

ListsInit ==
  /\ first = NULL /\ last = NULL
  /\ element = [e \in Elements |-> Garbage]
  /\ allocated = {}
  /\ removed = NoItem
  /\ ptr = NULL /\ applied = << >>

----------------------------------------------------------------------------
\* The list from an element on, as the pointers have it.
Chain(e) ==
  LET places == 1 .. Cardinality(Elements) + 1
      nth[n \in places] ==
        IF n = 1 THEN e
        ELSE LET p == nth[n - 1] IN IF p = NULL THEN NULL ELSE element[p].next
  IN  SubSeq(nth, 1, Cardinality({n \in places : nth[n] # NULL}))

\* new ListElement(i, k), linked to next; previous, if there is one, is linked to it.
New(e, i, k, next) ==
  /\ e \notin allocated
  /\ allocated' = allocated \cup {e}
  /\ element' = [element EXCEPT ![e] = [item |-> i, key |-> k, next |-> next]]

NewAfter(previous, e, i, k, next) ==
  /\ e \notin allocated
  /\ allocated' = allocated \cup {e}
  /\ element' = [element EXCEPT ![e] = [item |-> i, key |-> k, next |-> next],
                                ![previous].next = e]

OutsideMapcar == ptr = NULL
Only(e, i, k) == IsEmpty /\ New(e, i, k, NULL) /\ first' = e /\ last' = e
InFront(e, i, k) == ~IsEmpty /\ New(e, i, k, first) /\ first' = e /\ UNCHANGED last

\* Mutant of AtEnd: last stays where it was.
AtEndForgotten(e, i, k) ==
  ~IsEmpty /\ NewAfter(last, e, i, k, NULL) /\ UNCHANGED <<first, last>>

AtEnd(e, i, k) == ~IsEmpty /\ NewAfter(last, e, i, k, NULL) /\ last' = e /\ UNCHANGED first

AppendItem(i) ==
  /\ OutsideMapcar
  /\ \E e \in Elements : Only(e, i, 0) \/ AtEnd(e, i, 0)
  /\ UNCHANGED <<removed, mapcarVars>>

PrependItem(i) ==
  /\ OutsideMapcar
  /\ \E e \in Elements : Only(e, i, 0) \/ InFront(e, i, 0)
  /\ UNCHANGED <<removed, mapcarVars>>

\* SortedInsert looks for the first element whose successor has a larger key.
Before(k) ==
  LET walk == Chain(first)
  IN  {walk[n] : n \in {m \in 1 .. Len(walk) - 1 :
                          /\ k < element[walk[m + 1]].key
                          /\ \A l \in 1 .. m - 1 : k >= element[walk[l + 1]].key}}

SortedInsert(i, k) ==
  /\ OutsideMapcar
  /\ \E e \in Elements :
       \/ Only(e, i, k)
       \/ ~IsEmpty /\ k < element[first].key /\ InFront(e, i, k)
       \/ /\ ~IsEmpty /\ k >= element[first].key
          /\ \/ \E p \in Before(k) :
                  NewAfter(p, e, i, k, element[p].next) /\ UNCHANGED <<first, last>>
             \/ Before(k) = {} /\ AtEnd(e, i, k)
  /\ UNCHANGED <<removed, mapcarVars>>

\* SortedRemove, and Remove, which ignores the key.
SortedRemove ==
  /\ OutsideMapcar
  /\ \/ /\ IsEmpty
        /\ removed' = NoItem
        /\ UNCHANGED <<first, last, heapVars>>
     \/ /\ ~IsEmpty
        /\ removed' = element[first].item
        /\ IF first = last THEN first' = NULL /\ last' = NULL
                           ELSE first' = element[first].next /\ UNCHANGED last
        /\ allocated' = allocated \ {first}
        /\ element' = [element EXCEPT ![first] = Garbage]
  /\ UNCHANGED mapcarVars

MapcarBegins ==
  /\ OutsideMapcar /\ ~IsEmpty
  /\ ptr' = first /\ applied' = << >>
  /\ UNCHANGED <<first, last, heapVars, removed>>

\* After the last call Mapcar returns.
MapcarCalls ==
  /\ ~OutsideMapcar
  /\ applied' = IF element[ptr].next = NULL THEN << >> ELSE Append(applied, element[ptr].item)
  /\ ptr' = element[ptr].next
  /\ UNCHANGED <<first, last, heapVars, removed>>

ListsNext ==
  \/ \E i \in Items : AppendItem(i)
  \/ \E i \in Items : PrependItem(i)
  \/ \E i \in Items, k \in Keys : SortedInsert(i, k)
  \/ SortedRemove
  \/ MapcarBegins
  \/ MapcarCalls

ListsSpec == ListsInit /\ [][ListsNext]_listsVars

----------------------------------------------------------------------------
Contents(e) ==
  LET walk == Chain(e)
  IN  [n \in DOMAIN walk |-> [item |-> element[walk[n]].item, key |-> element[walk[n]].key]]

Sequence == INSTANCE AbstractList WITH contents <- Contents(first), returned <- removed

\* Mapcar has called the function for what it left behind, in order.
MapcarMeetsAll ==
  ptr # NULL => applied \o [n \in DOMAIN Chain(ptr) |-> Contents(ptr)[n].item]
                  = [n \in DOMAIN Chain(first) |-> Contents(first)[n].item]

\* "list of things" (list.h): through any calls in any order, with elements
\* freed and used again, the pointers form the sequence the calls built: items
\* leave from the front, and those with equal keys in the order they came.
\* Mapcar calls the function for each of them.
ListIsASequence == Sequence!AbstractSpec /\ []MapcarMeetsAll

=============================================================================
