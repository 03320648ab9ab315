---------------------------- MODULE AbstractList ----------------------------
(* What threads/list.h promises: a sequence of items with keys. *)
EXTENDS Integers, Sequences, SequencesExt

CONSTANTS Items, Keys, NoItem

VARIABLES
  contents,  \* the items from the front to the end, with their keys
  returned   \* what Remove returned last

ListItem(i, k) == [item |-> i, key |-> k]

AbstractInit == contents = << >> /\ returned = NoItem

PutAtEnd(i) == contents' = Append(contents, ListItem(i, 0)) /\ UNCHANGED returned
PutInFront(i) == contents' = << ListItem(i, 0) >> \o contents /\ UNCHANGED returned

\* Behind everything up to the first item with a larger key: items with equal
\* keys stay in the order in which they came.
PutInOrder(i, k) ==
  LET old == contents
      larger == {n \in DOMAIN old : old[n].key > k}
      place == CHOOSE n \in larger \cup {Len(old) + 1} : \A m \in larger : n <= m
  IN  contents' = InsertAt(old, place, ListItem(i, k)) /\ UNCHANGED returned

TakeFirst ==
  \/ contents # << >> /\ returned' = Head(contents).item /\ contents' = Tail(contents)
  \/ contents = << >> /\ returned' = NoItem /\ UNCHANGED contents

AbstractNext ==
  \/ \E i \in Items : PutAtEnd(i) \/ PutInFront(i) \/ \E k \in Keys : PutInOrder(i, k)
  \/ TakeFirst

AbstractSpec == AbstractInit /\ [][AbstractNext]_<<contents, returned>>

=============================================================================
