---------------------------- MODULE OfficeProofs ----------------------------
(***************************************************************************)
(* ProgramsInv is an inductive invariant of the three programs of the      *)
(* passport office.  The first part treats sums over finite sets, by the   *)
(* least counterexample; the second the user program: types, lines,        *)
(* passports, money; the third the programs for kernel threads: the same,  *)
(* the order of the clerks by which the manager counts, and the senator.   *)
(* A lemma says what one kind of step does to one conjunct.                *)
(***************************************************************************)
EXTENDS KernelOffice, FiniteSetTheorems, WellFoundedInduction, SequenceTheorems, TLAPS

----------------------------------------------------------------------------
(***************************************************************************)
(* Sums.                                                                   *)
(***************************************************************************)
\* A set of numbers has a least one.
LEMMA LeastNumber ==
  ASSUME NEW M \in SUBSET Nat, M # {}
  PROVE  \E n \in M : \A k \in M : n <= k
<1>1. \E n \in M : \A k \in M : ~(<<k, n>> \in OpToRel(<, Nat))
  BY WFMin, NatLessThanWellFounded, Zenon
<1>2. \A i, j \in Nat : j < i => <<j, i>> \in OpToRel(<, Nat)
  BY Zenon DEF OpToRel
<1>3. PICK n \in M : \A k \in M : ~(k < n)
  BY <1>1, <1>2, Zenon
<1> QED BY <1>3

Chosen(s) == CHOOSE x \in s : TRUE
Small(D, n) == {s \in SUBSET D : Cardinality(s) <= n}
\* g sums up f over each of the sets.
SumsUp(g, f, sets) ==
  g = [s \in sets |-> IF s = {} THEN 0 ELSE f[Chosen(s)] + g[s \ {Chosen(s)}]]

SumOver(f, D) == FoldFunctionOnSet(+, 0, f, D)

LEMMA SumOverIs ==
  ASSUME NEW f, NEW D
  PROVE  SumOver(f, D) = (CHOOSE g : SumsUp(g, f, SUBSET D))[D]
BY DEF SumOver, FoldFunctionOnSet, MapThenFoldSet, SumsUp, Chosen

LEMMA SmallestSet ==
  ASSUME NEW D, IsFiniteSet(D), NEW B \in SUBSET SUBSET D, B # {}
  PROVE  \E s \in B : \A u \in B : Cardinality(s) <= Cardinality(u)
<1> DEFINE M == {Cardinality(s) : s \in B}
<1>1. \A s \in B : Cardinality(s) \in Nat
  BY FS_Subset, FS_CardinalityType
<1>2. M \in SUBSET Nat /\ M # {}
  BY <1>1
<1>3. \E n \in M : \A k \in M : n <= k
  BY <1>2, LeastNumber
<1> QED BY <1>3

LEMMA SmallerSet ==
  ASSUME NEW D, IsFiniteSet(D), NEW s \in SUBSET D, s # {}
  PROVE  /\ Chosen(s) \in s /\ Chosen(s) \in D
         /\ s \ {Chosen(s)} \in SUBSET D
         /\ Cardinality(s) \in Nat
         /\ Cardinality(s \ {Chosen(s)}) \in Nat
         /\ Cardinality(s) = Cardinality(s \ {Chosen(s)}) + 1
<1>1. Chosen(s) \in s
  BY DEF Chosen
<1>2. IsFiniteSet(s)
  BY FS_Subset
<1> QED BY <1>1, <1>2, FS_RemoveElement, FS_CardinalityType, FS_Subset

LEMMA SumsExist ==
  ASSUME NEW D, IsFiniteSet(D), NEW f
  PROVE  \E g : SumsUp(g, f, SUBSET D)
<1> DEFINE P(n) == \E g : SumsUp(g, f, Small(D, n))
<1> DEFINE M == {n \in Nat : ~P(n)}
<1>1. P(0)
  <2>1. Small(D, 0) = {{}}
    BY FS_EmptySet, FS_Subset, FS_CardinalityType DEF Small
  <2>2. SumsUp([s \in {{}} |-> 0], f, {{}})
    BY DEF SumsUp
  <2> QED BY <2>1, <2>2
<1>2. ASSUME NEW n \in Nat, P(n)  PROVE P(n + 1)
  <2>1. PICK g : SumsUp(g, f, Small(D, n))
    BY <1>2
  <2> DEFINE h == [s \in Small(D, n + 1) |-> IF Cardinality(s) <= n THEN g[s]
                                             ELSE f[Chosen(s)] + g[s \ {Chosen(s)}]]
  <2>2. \A s \in Small(D, n + 1) :
          h[s] = IF s = {} THEN 0 ELSE f[Chosen(s)] + h[s \ {Chosen(s)}]
    <3> SUFFICES ASSUME NEW s \in Small(D, n + 1)
                 PROVE  h[s] = IF s = {} THEN 0 ELSE f[Chosen(s)] + h[s \ {Chosen(s)}]
      OBVIOUS
    <3>1. CASE s = {}
      <4>1. Cardinality(s) = 0 /\ s \in Small(D, n)
        BY <3>1, FS_EmptySet DEF Small
      <4> QED BY <4>1, <2>1, <3>1 DEF SumsUp
    <3>2. CASE s # {}
      <4> DEFINE r == s \ {Chosen(s)}
      <4>1. /\ r \in SUBSET D /\ Cardinality(r) \in Nat /\ Cardinality(s) = Cardinality(r) + 1
            /\ s \in SUBSET D /\ Cardinality(s) <= n + 1
        BY <3>2, SmallerSet DEF Small
      <4>2. r \in Small(D, n) /\ r \in Small(D, n + 1)
        BY <4>1 DEF Small
      <4>3. h[r] = g[r]
        BY <4>1, <4>2 DEF Small
      <4>4. ASSUME Cardinality(s) <= n  PROVE s \in Small(D, n) /\ g[s] = f[Chosen(s)] + g[r]
        BY <4>4, <4>1, <2>1, <3>2 DEF Small, SumsUp
      <4> HIDE DEF r
      <4> QED BY <4>3, <4>4, <3>2 DEF r
    <3> QED BY <3>1, <3>2
  <2>3. SumsUp(h, f, Small(D, n + 1))
    <3> HIDE DEF h
    <3>1. h = [s \in Small(D, n + 1) |-> h[s]]
      BY DEF h
    <3> QED BY <2>2, <3>1, Zenon DEF SumsUp
  <2> QED BY <2>3
<1>3. M = {}
  <2> SUFFICES ASSUME M # {} PROVE FALSE
    OBVIOUS
  <2>1. PICK n \in M : \A k \in M : n <= k
    <3> HIDE DEF P
    <3> QED BY LeastNumber
  <2>2. n # 0 /\ n \in Nat /\ ~P(n)
    BY <1>1, <2>1, Zenon
  <2>3. n - 1 \in Nat /\ n - 1 \notin M
    BY <2>1, <2>2
  <2>4. P(n - 1)
    BY <2>3, Zenon
  <2>5. P((n - 1) + 1)
    BY <1>2, <2>3, <2>4, Zenon
  <2>6. (n - 1) + 1 = n
    BY <2>2
  <2> QED BY <2>2, <2>5, <2>6, Zenon
<1>4. Cardinality(D) \in Nat /\ Small(D, Cardinality(D)) = SUBSET D
  BY FS_CardinalityType, FS_Subset DEF Small
<1>5. P(Cardinality(D))
  BY <1>3, <1>4, Zenon
<1> QED BY <1>4, <1>5, Zenon

\* A set is summed up the same way in whatever set it lies.
LEMMA SumsAgree ==
  ASSUME NEW S, NEW T, IsFiniteSet(S), NEW f, NEW g, NEW h,
         SumsUp(g, f, SUBSET S), SumsUp(h, f, SUBSET T), NEW u \in SUBSET (S \cap T)
  PROVE  g[u] = h[u]
<1> DEFINE D == S \cap T
<1> DEFINE B == {s \in SUBSET D : g[s] # h[s]}
<1>1. IsFiniteSet(D)
  BY FS_Subset
<1>2. SUFFICES ASSUME B # {} PROVE FALSE
  OBVIOUS
<1>3. PICK s \in B : \A r \in B : Cardinality(s) <= Cardinality(r)
  <2> HIDE DEF D
  <2> QED BY <1>1, <1>2, SmallestSet
<1>4. /\ s \in SUBSET S /\ s \in SUBSET T /\ s \in SUBSET D
      /\ g[s] = IF s = {} THEN 0 ELSE f[Chosen(s)] + g[s \ {Chosen(s)}]
      /\ h[s] = IF s = {} THEN 0 ELSE f[Chosen(s)] + h[s \ {Chosen(s)}]
  BY DEF SumsUp
<1>5. s # {}
  BY <1>4
<1>6. /\ s \ {Chosen(s)} \in SUBSET D
      /\ Cardinality(s) = Cardinality(s \ {Chosen(s)}) + 1
      /\ Cardinality(s \ {Chosen(s)}) \in Nat /\ Cardinality(s) \in Nat
  <2> HIDE DEF D, B
  <2> QED BY <1>1, <1>4, <1>5, SmallerSet
<1>7. s \ {Chosen(s)} \notin B
  <2>1. ~(Cardinality(s) <= Cardinality(s \ {Chosen(s)}))
    BY <1>6
  <2> QED BY <1>3, <2>1, Zenon
<1>8. g[s \ {Chosen(s)}] = h[s \ {Chosen(s)}]
  BY <1>6, <1>7
<1> QED BY <1>4, <1>5, <1>8

LEMMA SumChosen ==
  ASSUME NEW D, IsFiniteSet(D), NEW f
  PROVE  SumOver(f, D) = IF D = {} THEN 0 ELSE f[Chosen(D)] + SumOver(f, D \ {Chosen(D)})
<1> DEFINE r == D \ {Chosen(D)}
<1>1. PICK g : SumsUp(g, f, SUBSET D) /\ SumOver(f, D) = g[D]
  BY SumsExist, SumOverIs
<1>2. IsFiniteSet(r)
  BY FS_Subset
<1>3. PICK h : SumsUp(h, f, SUBSET r) /\ SumOver(f, r) = h[r]
  <2> HIDE DEF r
  <2> QED BY <1>2, SumsExist, SumOverIs
<1>4. g[r] = h[r]
  <2>1. r \in SUBSET (D \cap r)
    OBVIOUS
  <2> HIDE DEF r
  <2>2. SumsUp(g, f, SUBSET D) /\ SumsUp(h, f, SUBSET r)
    BY <1>1, <1>3, Zenon
  <2>3. \A u \in SUBSET (D \cap r) : g[u] = h[u]
    BY <2>2, SumsAgree
  <2> QED BY <2>1, <2>3
<1>5. g[D] = IF D = {} THEN 0 ELSE f[Chosen(D)] + g[r]
  BY <1>1 DEF SumsUp
<1> QED BY <1>1, <1>3, <1>4, <1>5

LEMMA SumType ==
  ASSUME NEW D, IsFiniteSet(D), NEW f, \A x \in D : f[x] \in Int
  PROVE  SumOver(f, D) \in Int
<1> DEFINE B == {s \in SUBSET D : SumOver(f, s) \notin Int}
<1>1. SUFFICES ASSUME B # {} PROVE FALSE
  OBVIOUS
<1>2. PICK s \in B : \A r \in B : Cardinality(s) <= Cardinality(r)
  BY <1>1, SmallestSet
<1>3. IsFiniteSet(s)
  BY FS_Subset
<1>4. CASE s = {}
  BY <1>3, <1>4, SumChosen
<1>5. CASE s # {}
  <2>1. s \ {Chosen(s)} \notin B /\ s \ {Chosen(s)} \in SUBSET D /\ f[Chosen(s)] \in Int
    BY <1>2, <1>5, SmallerSet
  <2>2. SumOver(f, s) = f[Chosen(s)] + SumOver(f, s \ {Chosen(s)})
    BY <1>3, <1>5, SumChosen
  <2> QED BY <2>1, <2>2
<1> QED BY <1>4, <1>5

\* The order of the terms does not matter.
LEMMA SumRemove ==
  ASSUME NEW D, IsFiniteSet(D), NEW f, \A x \in D : f[x] \in Int, NEW k \in D
  PROVE  SumOver(f, D) = f[k] + SumOver(f, D \ {k})
<1> DEFINE B == {s \in SUBSET D : \E x \in s : SumOver(f, s) # f[x] + SumOver(f, s \ {x})}
<1>1. SUFFICES ASSUME SumOver(f, D) # f[k] + SumOver(f, D \ {k})  PROVE FALSE
  OBVIOUS
<1>a. D \in B
  BY <1>1
<1>2. PICK s \in B : \A r \in B : Cardinality(s) <= Cardinality(r)
  BY <1>a, SmallestSet
<1>3. PICK x \in s : SumOver(f, s) # f[x] + SumOver(f, s \ {x})
  OBVIOUS
<1> DEFINE c == Chosen(s)
<1>4. /\ s \in SUBSET D /\ IsFiniteSet(s) /\ s # {}
      /\ SumOver(f, s) = f[c] + SumOver(f, s \ {c})
  BY <1>3, FS_Subset, SumChosen
<1>5. /\ c \in s /\ s \ {c} \in SUBSET D
      /\ Cardinality(s \ {c}) \in Nat /\ Cardinality(s) = Cardinality(s \ {c}) + 1
  BY <1>4, SmallerSet
<1>6. x # c
  BY <1>3, <1>4
<1>7. s \ {c} \notin B
  BY <1>2, <1>5
<1>8. SumOver(f, s \ {c}) = f[x] + SumOver(f, (s \ {c}) \ {x})
  BY <1>5, <1>6, <1>7
<1>9. /\ Cardinality(s \ {x}) \in Nat /\ Cardinality(s) = Cardinality(s \ {x}) + 1
      /\ s \ {x} \in SUBSET D
  BY <1>4, FS_RemoveElement, FS_CardinalityType, FS_Subset
<1>10. s \ {x} \notin B /\ c \in s \ {x}
  <2> DEFINE r == s \ {x}
  <2>1. c \in r
    BY <1>5, <1>6
  <2>2. ASSUME r \in B  PROVE FALSE
    <3>1. Cardinality(s) <= Cardinality(r)
      BY <1>2, <2>2
    <3> HIDE DEF r
    <3>2. Cardinality(r) \in Nat /\ Cardinality(s) = Cardinality(r) + 1
      BY <1>9 DEF r
    <3> QED BY <3>1, <3>2
  <2> QED BY <2>1, <2>2
<1>11. SumOver(f, s \ {x}) = f[c] + SumOver(f, (s \ {x}) \ {c})
  BY <1>9, <1>10
<1> DEFINE t == (s \ {x}) \ {c}
<1>12. (s \ {c}) \ {x} = t
  OBVIOUS
<1>13. SumOver(f, t) \in Int /\ f[x] \in Int /\ f[c] \in Int
  <2>1. IsFiniteSet(t) /\ \A y \in t : f[y] \in Int
    BY <1>4, FS_Subset
  <2>2. SumOver(f, t) \in Int
    <3> HIDE DEF t
    <3> QED BY <2>1, SumType
  <2> QED BY <2>2, <1>4, <1>5
<1>14. SumOver(f, s) = f[c] + (f[x] + SumOver(f, t))
  <2>1. SumOver(f, s \ {c}) = f[x] + SumOver(f, t)
    BY <1>8, <1>12, Zenon
  <2> QED BY <1>4, <2>1, Zenon
<1>15. SumOver(f, s \ {x}) = f[c] + SumOver(f, t)
  BY <1>11, Zenon
<1> HIDE DEF t, B, c
<1> QED BY <1>3, <1>13, <1>14, <1>15

LEMMA SumSame ==
  ASSUME NEW D, IsFiniteSet(D), NEW f, NEW g, \A x \in D : f[x] = g[x]
  PROVE  SumOver(f, D) = SumOver(g, D)
<1> DEFINE B == {s \in SUBSET D : SumOver(f, s) # SumOver(g, s)}
<1>1. SUFFICES ASSUME B # {} PROVE FALSE
  OBVIOUS
<1>2. PICK s \in B : \A r \in B : Cardinality(s) <= Cardinality(r)
  BY <1>1, SmallestSet
<1>3. IsFiniteSet(s)
  BY FS_Subset
<1>4. CASE s = {}
  BY <1>3, <1>4, SumChosen
<1>5. CASE s # {}
  <2>1. s \ {Chosen(s)} \notin B /\ s \ {Chosen(s)} \in SUBSET D /\ f[Chosen(s)] = g[Chosen(s)]
    BY <1>2, <1>5, SmallerSet
  <2>2. /\ SumOver(f, s) = f[Chosen(s)] + SumOver(f, s \ {Chosen(s)})
        /\ SumOver(g, s) = g[Chosen(s)] + SumOver(g, s \ {Chosen(s)})
    BY <1>3, <1>5, SumChosen
  <2> QED BY <2>1, <2>2
<1> QED BY <1>4, <1>5

\* What a sum of numbers from 0 to 4, the stages of customers, comes to at most.
LEMMA SumOfFours ==
  ASSUME NEW D, IsFiniteSet(D), NEW f, \A x \in D : f[x] \in 0 .. 4
  PROVE  SumOver(f, D) \in 0 .. 4 * Cardinality(D)
<1> DEFINE B == {s \in SUBSET D : SumOver(f, s) \notin 0 .. 4 * Cardinality(s)}
<1>1. SUFFICES ASSUME B # {} PROVE FALSE
  OBVIOUS
<1>2. PICK s \in B : \A r \in B : Cardinality(s) <= Cardinality(r)
  BY <1>1, SmallestSet
<1>3. IsFiniteSet(s)
  BY FS_Subset
<1>4. CASE s = {}
  <2>1. SumOver(f, s) = 0 /\ Cardinality(s) = 0
    BY <1>3, <1>4, SumChosen, FS_EmptySet
  <2> QED BY <2>1
<1>5. CASE s # {}
  <2> DEFINE r == s \ {Chosen(s)}
  <2>1. /\ r \notin B /\ r \in SUBSET D /\ Chosen(s) \in D
        /\ Cardinality(r) \in Nat /\ Cardinality(s) = Cardinality(r) + 1
    BY <1>2, <1>5, SmallerSet
  <2>2. SumOver(f, s) = f[Chosen(s)] + SumOver(f, r)
    BY <1>3, <1>5, SumChosen
  <2>3. SumOver(f, r) \in 0 .. 4 * Cardinality(r)
    BY <2>1
  <2>4. f[Chosen(s)] \in 0 .. 4
    BY <2>1
  <2> HIDE DEF r
  <2>5. SumOver(f, s) \in 0 .. 4 * Cardinality(s)
    BY <2>1, <2>2, <2>3, <2>4
  <2> QED BY <2>5
<1> QED BY <1>4, <1>5

LEMMA SumOfNats ==
  ASSUME NEW D, IsFiniteSet(D), NEW f, \A x \in D : f[x] \in Nat
  PROVE  SumOver(f, D) \in Nat
<1> DEFINE B == {s \in SUBSET D : SumOver(f, s) \notin Nat}
<1>1. SUFFICES ASSUME B # {} PROVE FALSE
  OBVIOUS
<1>2. PICK s \in B : \A r \in B : Cardinality(s) <= Cardinality(r)
  BY <1>1, SmallestSet
<1>3. IsFiniteSet(s)
  BY FS_Subset
<1>4. CASE s = {}
  BY <1>3, <1>4, SumChosen
<1>5. CASE s # {}
  <2>1. s \ {Chosen(s)} \notin B /\ s \ {Chosen(s)} \in SUBSET D /\ f[Chosen(s)] \in Nat
    BY <1>2, <1>5, SmallerSet
  <2>2. SumOver(f, s) = f[Chosen(s)] + SumOver(f, s \ {Chosen(s)})
    BY <1>3, <1>5, SumChosen
  <2> QED BY <2>1, <2>2
<1> QED BY <1>4, <1>5

LEMMA SumOfZeros ==
  ASSUME NEW D, IsFiniteSet(D), NEW f, \A x \in D : f[x] = 0
  PROVE  SumOver(f, D) = 0
<1> DEFINE B == {s \in SUBSET D : SumOver(f, s) # 0}
<1>1. SUFFICES ASSUME B # {} PROVE FALSE
  OBVIOUS
<1>2. PICK s \in B : \A r \in B : Cardinality(s) <= Cardinality(r)
  BY <1>1, SmallestSet
<1>3. IsFiniteSet(s)
  BY FS_Subset
<1>4. CASE s = {}
  BY <1>3, <1>4, SumChosen
<1>5. CASE s # {}
  <2>1. s \ {Chosen(s)} \notin B /\ s \ {Chosen(s)} \in SUBSET D /\ f[Chosen(s)] = 0
    BY <1>2, <1>5, SmallerSet
  <2>2. SumOver(f, s) = f[Chosen(s)] + SumOver(f, s \ {Chosen(s)})
    BY <1>3, <1>5, SumChosen
  <2> QED BY <2>1, <2>2
<1> QED BY <1>4, <1>5

\* Total, when one value changes.
LEMMA TotalIs ==
  ASSUME NEW f
  PROVE  Total(f) = SumOver(f, DOMAIN f)
BY DEF Total, SumOver, FoldFunction

LEMMA TotalExcept ==
  ASSUME NEW D, IsFiniteSet(D), NEW f \in [D -> Int], NEW k \in D, NEW v \in Int
  PROVE  /\ Total(f) \in Int
         /\ Total([f EXCEPT ![k] = v]) = Total(f) + v - f[k]
<1> DEFINE g == [f EXCEPT ![k] = v]
<1>1. g \in [D -> Int] /\ g[k] = v /\ \A x \in D \ {k} : g[x] = f[x]
  OBVIOUS
<1>2. IsFiniteSet(D \ {k})
  BY FS_Subset
<1>3. SumOver(f, D \ {k}) = SumOver(g, D \ {k})
  <2> HIDE DEF g
  <2> QED BY <1>1, <1>2, SumSame
<1>4. SumOver(f, D) = f[k] + SumOver(f, D \ {k})
  BY SumRemove
<1>5. SumOver(g, D) = v + SumOver(g, D \ {k})
  <2> HIDE DEF g
  <2> QED BY <1>1, SumRemove
<1>6. SumOver(f, D \ {k}) \in Int
  BY <1>2, SumType
<1>7. Total(f) = SumOver(f, D) /\ Total(g) = SumOver(g, D)
  <2>1. DOMAIN f = D /\ DOMAIN g = D
    OBVIOUS
  <2> HIDE DEF g
  <2> QED BY <2>1, TotalIs
<1>8. f[k] \in Int
  OBVIOUS
<1> HIDE DEF g
<1> QED BY <1>3, <1>4, <1>5, <1>6, <1>7, <1>8 DEF g

----------------------------------------------------------------------------
(***************************************************************************)
(* The user program.                                                       *)
(***************************************************************************)
OfficeIsFixed ==
  /\ IsFiniteSet(Clerks) /\ Clerks \subseteq Nat
  /\ clerkTypes \in [Clerks -> Types]
  /\ brought \in Nat

\* Who waits in a line waits for a clerk, and who has bribed waits in a line.
LinesAreReal ==
  \A c \in Customers : /\ customerPlace[c] \in {"bribing", "paying", "paid", "adding", "line"} => myLine[c] \in Clerks
                       /\ bribe[c] => customerPlace[c] = "line"

\* Nobody shows, has read or has stored more for a clerk than it has been paid,
\* or less for a customer than its payments leave it.
SalesAreKept ==
  /\ \A k \in Clerks : /\ clerkMoney[k] <= sold[k]
                       /\ clerkPlace[k] = "charging" => register[Self(k)] >= left[customerData[k]]
                       /\ clerkPlace[k] = "pay" => register[Self(k)] <= sold[k]
  /\ \A c \in Customers : /\ money[c] >= left[c]
                          /\ customerPlace[c] = "paying" => register[c] >= left[c]
                          /\ customerPlace[c] = "adding" => register[c] <= sold[myLine[c]]

PassportsAreOut ==
  allCustomersAreDone \/ manager \in {"finish", "exit"} => EverybodyDone

UserInv ==
  /\ OfficeTypeOK /\ OfficeIsFixed
  /\ LinesAreReal /\ CountsAreExact
  /\ SalesAreKept
  /\ PassportsAreOut

\* Threads: the numbers of customers are naturals, those of clerks are not.
LEMMA ThreadNumbers ==
  ASSUME OfficeIsFixed
  PROVE  /\ Customers \subseteq Nat /\ IsFiniteSet(Customers) /\ Cardinality(Customers) = CustomerCount
         /\ Customers # {}
         /\ \A k \in Clerks : /\ Self(k) \in Int /\ Self(k) < 0 /\ Self(k) \notin Customers
                              /\ -1 - Self(k) = k
         /\ \A k, j \in Clerks : Self(k) = Self(j) => k = j
         /\ NoCustomer \notin Int
<1>1. CustomerCount \in Nat \ {0} /\ NoCustomer \notin Int
  BY OfficeAssumption
<1>2. IsFiniteSet(Customers) /\ Cardinality(Customers) = CustomerCount
  BY <1>1, FS_Interval DEF Customers
<1>3. Customers \subseteq Nat /\ 0 \in Customers
  BY <1>1 DEF Customers
<1>4. ASSUME NEW k \in Clerks
      PROVE  Self(k) \in Int /\ Self(k) < 0 /\ Self(k) \notin Customers /\ -1 - Self(k) = k
  BY <1>3 DEF OfficeIsFixed, Self
<1>5. ASSUME NEW k \in Clerks, NEW j \in Clerks, Self(k) = Self(j)  PROVE k = j
  BY <1>4, <1>5
<1> QED BY <1>1, <1>2, <1>3, <1>4, <1>5

\* There is a shortest line of a type, and it is a clerk's.
LEMMA ShortestIsClerk ==
  ASSUME OfficeIsFixed, \A k \in Clerks : LineSize(k) \in Nat,
         NEW type \in Range(clerkTypes)
  PROVE  ShortestLine(type) \in Clerks
<1> DEFINE of == {k \in Clerks : clerkTypes[k] = type}
           shortest == {k \in of : \A j \in of : LineSize(k) <= LineSize(j)}
           sizes == {LineSize(k) : k \in of}
<1>1. of # {} /\ of \subseteq Clerks
  BY DEF Range, Clerks
<1>2. sizes \in SUBSET Nat /\ sizes # {}
  BY <1>1
<1>3. \E n \in sizes : \A m \in sizes : n <= m
  <2> HIDE DEF sizes
  <2> QED BY <1>2, LeastNumber
<1>4. shortest # {} /\ shortest \subseteq Clerks /\ shortest \in SUBSET Nat
  <2>1. PICK k \in of : \A j \in of : LineSize(k) <= LineSize(j)
    BY <1>3
  <2>2. k \in shortest
    BY <2>1
  <2> QED BY <1>1, <2>2 DEF OfficeIsFixed
<1>5. \E k \in shortest : \A j \in shortest : k <= j
  <2> HIDE DEF shortest
  <2> QED BY <1>4, LeastNumber
<1>6. ShortestLine(type) = CHOOSE k \in shortest : \A j \in shortest : k <= j
  BY DEF ShortestLine
<1> HIDE DEF shortest
<1> QED BY <1>4, <1>5, <1>6

LEMMA LinesAreClerks ==
  ASSUME OfficeIsFixed, \A k \in Clerks : LineSize(k) \in Nat, NEW c
  PROVE  Lines(c) \subseteq Clerks
BY ShortestIsClerk DEF Lines

\* A queue after Append, and after one was taken off it.
LEMMA QueueMoves ==
  ASSUME NEW S, NEW q \in Seq(S), NEW e \in S
  PROVE  /\ TailOf(q) \in Seq(S)
         /\ Append(q, e) \in Seq(S)
         /\ Append(TailOf(q), e) \in Seq(S)
BY DEF TailOf

\* Nobody has more than four of the stages.
LEMMA StagesAreFour ==
  ASSUME NEW r \in SUBSET Stages
  PROVE  Cardinality(r) \in 0 .. 4
<1> DEFINE S1 == {} \cup {"applicationIsFiled"}
           S2 == S1 \cup {"likesPicture"}
           S3 == S2 \cup {"hasCertification"}
           S4 == S3 \cup {"isDone"}
<1>1. IsFiniteSet({}) /\ Cardinality({}) = 0
  BY FS_EmptySet
<1>2. IsFiniteSet(S1) /\ Cardinality(S1) \in 0 .. 1
  BY <1>1, FS_AddElement
<1>3. IsFiniteSet(S2) /\ Cardinality(S2) \in 0 .. 2
  <2> HIDE DEF S1
  <2> QED BY <1>2, FS_AddElement
<1>4. IsFiniteSet(S3) /\ Cardinality(S3) \in 0 .. 3
  <2> HIDE DEF S2
  <2> QED BY <1>3, FS_AddElement
<1>5. IsFiniteSet(S4) /\ Cardinality(S4) \in 0 .. 4
  <2> HIDE DEF S3
  <2> QED BY <1>4, FS_AddElement
<1>6. r \in SUBSET S4
  BY DEF Stages
<1> HIDE DEF S4
<1> QED BY <1>5, <1>6, FS_Subset, FS_CardinalityType

LEMMA BoolCountIsBounded ==
  ASSUME OfficeIsFixed, reached \in [Customers -> SUBSET Stages]
  PROVE  BoolCount \in 0 .. 4 * CustomerCount
<1> DEFINE f == [c \in Customers |-> Cardinality(reached[c])]
<1>1. \A c \in Customers : f[c] \in 0 .. 4
  BY StagesAreFour
<1>2. BoolCount = SumOver(f, Customers)
  <2>1. DOMAIN f = Customers
    OBVIOUS
  <2> HIDE DEF f
  <2>2. BoolCount = Total(f)
    BY DEF BoolCount, f
  <2> QED BY <2>1, <2>2, TotalIs
<1>3. IsFiniteSet(Customers) /\ Cardinality(Customers) = CustomerCount
  BY ThreadNumbers
<1> HIDE DEF f
<1> QED BY <1>1, <1>2, <1>3, SumOfFours

\* A customer joins the line of bribers (stated while the tuples of variables
\* that stay are hidden).
LEMMA BriberJoins ==
  ASSUME NEW c, NEW k, EnterBribeLine(c, k)
  PROVE  customerPlace' = [customerPlace EXCEPT ![c] = "line"] /\ myLine' = [myLine EXCEPT ![c] = k]
BY DEF EnterBribeLine, EnterBribeLineWith, Chooses, CustomerGoto

USE DEF fixedVars, clerkVars, customerVars, lineVars, counterVars, attributeVars, bookVars, moneyVars,
        managerVars, officeVars, ClerkGoto, CustomerGoto, SetState

LEMMA LineSizesAreNumbers ==
  ASSUME clerkLineCount \in [Clerks -> Nat], clerkBribeLineCount \in [Clerks -> Nat]
  PROVE  \A k \in Clerks : LineSize(k) \in Nat
BY DEF LineSize

\* Every step of the user program leaves clerks and the money brought as they are.
LEMMA OfficeStaysFixed ==
  ASSUME OfficeIsFixed, [OfficeNext]_officeVars
  PROVE  OfficeIsFixed' /\ Clerks' = Clerks /\ UNCHANGED fixedVars
<1>1. UNCHANGED fixedVars
  <2>1. ASSUME NEW k \in Clerks, ClerkStep(k)  PROVE UNCHANGED fixedVars
    BY <2>1 DEF ClerkStep, ChooseBribe, ChooseRegular, GoOnBreak, GoOnTest, NextCustomer,
       TakeMoney, CountMoney, HandOver, FileApplication, TakePicture, Certify, Charge, Refuse
  <2>2. ASSUME NEW c \in Customers, CustomerStep(c)  PROVE UNCHANGED fixedVars
    BY <2>2 DEF CustomerStep, GoStraight, QueueUp, Bribe, ReachForMoney, PayBribe,
       CountBribe, QueueInFront, LeaveLine, Approach, LeaveCounter
  <2>3. CASE ManagerStep
    BY <2>3 DEF ManagerStep, CountLines, CheckCustomers, CloseOffice
  <2>4. CASE OfficeOver \/ UNCHANGED officeVars
    BY <2>4 DEF OfficeOver
  <2> QED BY <2>1, <2>2, <2>3, <2>4, Zenon DEF OfficeNext
<1>2. Clerks' = Clerks
  BY <1>1 DEF Clerks
<1> QED BY <1>1, <1>2 DEF OfficeIsFixed

\* The types, in groups.
ClerkTypesOK == /\ clerkPlace \in [Clerks -> ClerkPlaces]
                /\ clerkStates \in [Clerks -> {"AVAILABLE", "BUSY", "ONBREAK"}]
CustomerTypesOK == /\ customerPlace \in [Customers -> CustomerPlaces]
                   /\ myLine \in [Customers -> Clerks \cup {-1}]
                   /\ bribe \in [Customers -> BOOLEAN]
QueueTypesOK == /\ clerkLineLock \in Customers \cup {NoCustomer}
                /\ clerkLineCV \in [Clerks -> Seq(Customers)]
                /\ clerkBribeLineCV \in [Clerks -> Seq(Customers)]
                /\ clerkCV \in [Clerks -> Seq(Threads)]
                /\ customerData \in [Clerks -> Customers]
CountTypesOK == /\ clerkLineCount \in [Clerks -> Nat]
                /\ clerkBribeLineCount \in [Clerks -> Nat]
AttributeTypesOK == /\ reached \in [Customers -> SUBSET Stages]
                    /\ clerkMessedUp \subseteq Customers
                    /\ messUps \in 0..MaxMessUps
MoneyTypesOK == /\ clerkMoney \in [Clerks -> Int]
                /\ register \in [Threads -> Int]
                /\ money \in [Customers -> Int]
                /\ brought \in Nat
                /\ sold \in [Clerks -> Nat]
                /\ left \in [Customers -> Int]
ManagerTypesOK == /\ manager \in ManagerPlaces
                  /\ currentTotalBoolCount \in 0 .. 4 * CustomerCount
                  /\ allCustomersAreDone \in BOOLEAN

LEMMA TypesInGroups ==
  /\ OfficeTypeOK <=> /\ ClerkTypesOK /\ CustomerTypesOK /\ QueueTypesOK /\ CountTypesOK
                      /\ AttributeTypesOK /\ MoneyTypesOK /\ ManagerTypesOK
  /\ OfficeTypeOK' <=> /\ ClerkTypesOK' /\ CustomerTypesOK' /\ QueueTypesOK' /\ CountTypesOK'
                       /\ AttributeTypesOK' /\ MoneyTypesOK' /\ ManagerTypesOK'
BY DEF OfficeTypeOK, ClerkTypesOK, CustomerTypesOK, QueueTypesOK, CountTypesOK, AttributeTypesOK,
       MoneyTypesOK, ManagerTypesOK

LEMMA MessesUpOrTypes ==
  ASSUME AttributeTypesOK, NEW c \in Customers, NEW stage \in Stages, MessesUpOr(c, stage)
  PROVE  AttributeTypesOK'
<1>1. CASE Reaches(c, stage) /\ clerkMessedUp' = clerkMessedUp \ {c} /\ UNCHANGED messUps
  BY <1>1 DEF AttributeTypesOK, Reaches
<1>2. CASE /\ messUps < MaxMessUps /\ messUps' = messUps + 1
           /\ clerkMessedUp' = clerkMessedUp \cup {c} /\ UNCHANGED reached
  BY <1>2, OfficeAssumption DEF AttributeTypesOK
<1> QED BY <1>1, <1>2 DEF MessesUpOr

\* A step keeps the types.
LEMMA ClerkTypesKept ==
  ASSUME OfficeTypeOK, OfficeIsFixed, NEW k \in Clerks, ClerkStep(k)
  PROVE  OfficeTypeOK'
<1>0. /\ ClerkTypesOK /\ CustomerTypesOK /\ QueueTypesOK /\ CountTypesOK
      /\ AttributeTypesOK /\ MoneyTypesOK /\ ManagerTypesOK
  BY TypesInGroups
<1>1. UNCHANGED fixedVars /\ Clerks' = Clerks /\ Threads' = Threads /\ Self(k) \in Threads
  BY OfficeStaysFixed DEF OfficeNext, Threads, Self
<1>2. \A j \in Clerks : /\ TailOf(clerkLineCV[j]) \in Seq(Customers)
                        /\ TailOf(clerkBribeLineCV[j]) \in Seq(Customers)
                        /\ Append(clerkCV[j], Self(k)) \in Seq(Threads)
                        /\ Append(TailOf(clerkCV[j]), Self(k)) \in Seq(Threads)
  BY <1>1, QueueMoves DEF OfficeTypeOK, TailOf
<1> USE DEF ClerkPlaces, CashierPlaces
<1>3. CASE ChooseBribe(k)
  BY <1>1, <1>2, <1>3 DEF OfficeTypeOK, ChooseBribe, GoToCounter
<1>4. CASE ChooseRegular(k)
  BY <1>1, <1>2, <1>4 DEF OfficeTypeOK, ChooseRegular, GoToCounter
<1>5. CASE GoOnBreak(k)
  BY <1>1, <1>2, <1>5 DEF OfficeTypeOK, GoOnBreak
<1>6. CASE GoOnTest(k)
  <2>1. ClerkTypesOK'
    BY <1>0, <1>1, <1>2, <1>6 DEF ClerkTypesOK, GoOnTest, GoToCounter
  <2>2. CustomerTypesOK'
    BY <1>0, <1>1, <1>2, <1>6 DEF CustomerTypesOK, GoOnTest, GoToCounter
  <2>3. QueueTypesOK'
    BY <1>0, <1>1, <1>2, <1>6 DEF QueueTypesOK, GoOnTest, GoToCounter
  <2>4. CountTypesOK'
    BY <1>0, <1>1, <1>2, <1>6 DEF CountTypesOK, GoOnTest, GoToCounter
  <2>5. AttributeTypesOK'
    BY <1>0, <1>1, <1>2, <1>6 DEF AttributeTypesOK, GoOnTest, GoToCounter
  <2>6. MoneyTypesOK'
    BY <1>0, <1>1, <1>2, <1>6 DEF MoneyTypesOK, GoOnTest, GoToCounter
  <2>7. ManagerTypesOK'
    BY <1>0, <1>1, <1>2, <1>6 DEF ManagerTypesOK, GoOnTest, GoToCounter
  <2> QED BY <2>1, <2>2, <2>3, <2>4, <2>5, <2>6, <2>7, TypesInGroups
<1>7. CASE HandOver(k)
  <2>1. ClerkTypesOK'
    BY <1>0, <1>1, <1>2, <1>7 DEF ClerkTypesOK, HandOver, SignOff, SignalAndWait, MessesUpOr, Reaches, Stages
  <2>2. CustomerTypesOK'
    BY <1>0, <1>1, <1>2, <1>7 DEF CustomerTypesOK, HandOver, SignOff, SignalAndWait, MessesUpOr, Reaches, Stages
  <2>3. QueueTypesOK'
    BY <1>0, <1>1, <1>2, <1>7 DEF QueueTypesOK, HandOver, SignOff, SignalAndWait, MessesUpOr, Reaches, Stages
  <2>4. CountTypesOK'
    BY <1>0, <1>1, <1>2, <1>7 DEF CountTypesOK, HandOver, SignOff, SignalAndWait, MessesUpOr, Reaches, Stages
  <2>5. AttributeTypesOK'
    BY <1>0, <1>7, MessesUpOrTypes DEF QueueTypesOK, HandOver, Stages
  <2>6. MoneyTypesOK'
    BY <1>0, <1>1, <1>2, <1>7 DEF MoneyTypesOK, HandOver, Holds, SignOff, SignalAndWait, MessesUpOr, Reaches, Stages
  <2>7. ManagerTypesOK'
    BY <1>0, <1>1, <1>2, <1>7 DEF ManagerTypesOK, HandOver, SignOff, SignalAndWait, MessesUpOr, Reaches, Stages
  <2> QED BY <2>1, <2>2, <2>3, <2>4, <2>5, <2>6, <2>7, TypesInGroups
<1>8. CASE NextCustomer(k)
  BY <1>1, <1>2, <1>8 DEF OfficeTypeOK, NextCustomer
<1>9. ASSUME NEW c \in Customers, FileApplication(k, c)  PROVE OfficeTypeOK'
  BY <1>1, <1>2, <1>9 DEF OfficeTypeOK, FileApplication, SignOff, SignalAndWait, Serves, Reaches, Stages
<1>10. ASSUME NEW c \in Customers, TakePicture(k, c)  PROVE OfficeTypeOK'
  BY <1>1, <1>2, <1>10 DEF OfficeTypeOK, TakePicture, SignOff, SignalAndWait, Serves, Reaches, Stages
<1>11. ASSUME NEW c \in Customers, Certify(k, c)  PROVE OfficeTypeOK'
  <2>1. ClerkTypesOK'
    BY <1>0, <1>1, <1>2, <1>11 DEF ClerkTypesOK, Certify, SignOff, SignalAndWait, Serves, MessesUpOr, Reaches, Stages
  <2>2. CustomerTypesOK'
    BY <1>0, <1>1, <1>2, <1>11 DEF CustomerTypesOK, Certify, SignOff, SignalAndWait, Serves, MessesUpOr, Reaches, Stages
  <2>3. QueueTypesOK'
    BY <1>0, <1>1, <1>2, <1>11 DEF QueueTypesOK, Certify, SignOff, SignalAndWait, Serves, MessesUpOr, Reaches, Stages
  <2>4. CountTypesOK'
    BY <1>0, <1>1, <1>2, <1>11 DEF CountTypesOK, Certify, SignOff, SignalAndWait, Serves, MessesUpOr, Reaches, Stages
  <2>5. AttributeTypesOK'
    BY <1>0, <1>11, MessesUpOrTypes DEF AttributeTypesOK, Certify, Stages
  <2>6. MoneyTypesOK'
    BY <1>0, <1>1, <1>2, <1>11 DEF MoneyTypesOK, Certify, SignOff, SignalAndWait, Serves, MessesUpOr, Reaches, Stages
  <2>7. ManagerTypesOK'
    BY <1>0, <1>1, <1>2, <1>11 DEF ManagerTypesOK, Certify, SignOff, SignalAndWait, Serves, MessesUpOr, Reaches, Stages
  <2> QED BY <2>1, <2>2, <2>3, <2>4, <2>5, <2>6, <2>7, TypesInGroups
<1>12. ASSUME NEW c \in Customers, Charge(k, c)  PROVE OfficeTypeOK'
  <2>1. ClerkTypesOK'
    BY <1>0, <1>1, <1>2, <1>12 DEF ClerkTypesOK, Charge, Serves, Holds
  <2>2. CustomerTypesOK'
    BY <1>0, <1>1, <1>2, <1>12 DEF CustomerTypesOK, Charge, Serves, Holds
  <2>3. QueueTypesOK'
    BY <1>0, <1>1, <1>2, <1>12 DEF QueueTypesOK, Charge, Serves, Holds
  <2>4. CountTypesOK'
    BY <1>0, <1>1, <1>2, <1>12 DEF CountTypesOK, Charge, Serves, Holds
  <2>5. AttributeTypesOK'
    BY <1>0, <1>1, <1>2, <1>12 DEF AttributeTypesOK, Charge, Serves, Holds
  <2>6. MoneyTypesOK'
    BY <1>0, <1>1, <1>2, <1>12 DEF MoneyTypesOK, Charge, Serves, Holds
  <2>7. ManagerTypesOK'
    BY <1>0, <1>1, <1>2, <1>12 DEF ManagerTypesOK, Charge, Serves, Holds
  <2> QED BY <2>1, <2>2, <2>3, <2>4, <2>5, <2>6, <2>7, TypesInGroups
<1>14. CASE TakeMoney(k)
  <2>1. ClerkTypesOK'
    BY <1>0, <1>1, <1>14 DEF ClerkTypesOK, TakeMoney, QueueTypesOK, Holds
  <2>2. CustomerTypesOK'
    BY <1>0, <1>1, <1>14 DEF CustomerTypesOK, TakeMoney, QueueTypesOK, Holds
  <2>3. QueueTypesOK'
    BY <1>0, <1>1, <1>14 DEF TakeMoney, QueueTypesOK, Holds
  <2>4. CountTypesOK'
    BY <1>0, <1>1, <1>14 DEF CountTypesOK, TakeMoney, QueueTypesOK, Holds
  <2>5. AttributeTypesOK'
    BY <1>0, <1>1, <1>14 DEF AttributeTypesOK, TakeMoney, QueueTypesOK, Holds
  <2>6. MoneyTypesOK'
    BY <1>0, <1>1, <1>14 DEF MoneyTypesOK, TakeMoney, QueueTypesOK, Holds
  <2>7. ManagerTypesOK'
    BY <1>0, <1>1, <1>14 DEF ManagerTypesOK, TakeMoney, QueueTypesOK, Holds
  <2> QED BY <2>1, <2>2, <2>3, <2>4, <2>5, <2>6, <2>7, TypesInGroups
<1>15. CASE CountMoney(k)
  <2>1. ClerkTypesOK'
    BY <1>0, <1>1, <1>15 DEF ClerkTypesOK, CountMoney, Holds
  <2>2. CustomerTypesOK'
    BY <1>0, <1>1, <1>15 DEF CustomerTypesOK, CountMoney, Holds
  <2>3. QueueTypesOK'
    BY <1>0, <1>1, <1>15 DEF QueueTypesOK, CountMoney, Holds
  <2>4. CountTypesOK'
    BY <1>0, <1>1, <1>15 DEF CountTypesOK, CountMoney, Holds
  <2>5. AttributeTypesOK'
    BY <1>0, <1>1, <1>15 DEF AttributeTypesOK, CountMoney, Holds
  <2>6. MoneyTypesOK'
    BY <1>0, <1>1, <1>15 DEF MoneyTypesOK, CountMoney, Holds
  <2>7. ManagerTypesOK'
    BY <1>0, <1>1, <1>15 DEF ManagerTypesOK, CountMoney, Holds
  <2> QED BY <2>1, <2>2, <2>3, <2>4, <2>5, <2>6, <2>7, TypesInGroups
<1>13. ASSUME NEW c \in Customers, Refuse(k, c)  PROVE OfficeTypeOK'
  BY <1>1, <1>2, <1>13 DEF OfficeTypeOK, Refuse, SignOff, SignalAndWait, Serves
<1> QED BY <1>3, <1>4, <1>5, <1>6, <1>7, <1>8, <1>9, <1>10, <1>11, <1>12, <1>13, <1>14, <1>15 DEF ClerkStep

LEMMA CustomerTypesKept ==
  ASSUME UserInv, NEW c \in Customers, CustomerStep(c)
  PROVE  OfficeTypeOK'
<1>0. /\ ClerkTypesOK /\ CustomerTypesOK /\ QueueTypesOK /\ CountTypesOK
      /\ AttributeTypesOK /\ MoneyTypesOK /\ ManagerTypesOK
  BY TypesInGroups DEF UserInv
<1>1. UNCHANGED fixedVars /\ Clerks' = Clerks /\ Threads' = Threads /\ c \in Threads
  BY OfficeStaysFixed DEF OfficeNext, Threads, UserInv, Self
<1>2. \A j \in Clerks : /\ Append(clerkLineCV[j], c) \in Seq(Customers)
                        /\ Append(clerkBribeLineCV[j], c) \in Seq(Customers)
                        /\ TailOf(clerkCV[j]) \in Seq(Threads)
                        /\ Append(TailOf(clerkCV[j]), c) \in Seq(Threads)
  BY <1>1, QueueMoves DEF OfficeTypeOK, TailOf, UserInv
<1>3. OfficeTypeOK /\ OfficeIsFixed /\ LinesAreReal /\ Lines(c) \subseteq Clerks
  BY LinesAreClerks, LineSizesAreNumbers DEF UserInv, OfficeTypeOK
<1> USE DEF CustomerPlaces, BriberPlaces
<1>4. CASE GoStraight(c)
  <2>1. ClerkTypesOK'
    BY <1>0, <1>1, <1>3, <1>4 DEF ClerkTypesOK, GoStraight
  <2>2. CustomerTypesOK'
    BY <1>0, <1>1, <1>3, <1>4 DEF CustomerTypesOK, GoStraight
  <2>3. QueueTypesOK'
    BY <1>0, <1>1, <1>3, <1>4 DEF QueueTypesOK, GoStraight
  <2>4. CountTypesOK'
    BY <1>0, <1>1, <1>3, <1>4 DEF CountTypesOK, GoStraight
  <2>5. AttributeTypesOK'
    BY <1>0, <1>1, <1>3, <1>4 DEF AttributeTypesOK, GoStraight
  <2>6. MoneyTypesOK'
    BY <1>0, <1>1, <1>3, <1>4 DEF MoneyTypesOK, GoStraight
  <2>7. ManagerTypesOK'
    BY <1>0, <1>1, <1>3, <1>4 DEF ManagerTypesOK, GoStraight
  <2> QED BY <2>1, <2>2, <2>3, <2>4, <2>5, <2>6, <2>7, TypesInGroups
<1>5. CASE QueueUp(c)
  <2>1. ClerkTypesOK'
    BY <1>0, <1>1, <1>2, <1>3, <1>5 DEF ClerkTypesOK, QueueUp
  <2>2. CustomerTypesOK'
    BY <1>0, <1>1, <1>2, <1>3, <1>5 DEF CustomerTypesOK, QueueUp
  <2>3. QueueTypesOK'
    BY <1>0, <1>1, <1>2, <1>3, <1>5 DEF QueueTypesOK, QueueUp
  <2>4. CountTypesOK'
    BY <1>0, <1>1, <1>2, <1>3, <1>5 DEF CountTypesOK, QueueUp
  <2>5. AttributeTypesOK'
    BY <1>0, <1>1, <1>2, <1>3, <1>5 DEF AttributeTypesOK, QueueUp
  <2>6. MoneyTypesOK'
    BY <1>0, <1>1, <1>2, <1>3, <1>5 DEF MoneyTypesOK, QueueUp
  <2>7. ManagerTypesOK'
    BY <1>0, <1>1, <1>2, <1>3, <1>5 DEF ManagerTypesOK, QueueUp
  <2> QED BY <2>1, <2>2, <2>3, <2>4, <2>5, <2>6, <2>7, TypesInGroups
<1>6. CASE Bribe(c)
  <2>1. ClerkTypesOK'
    BY <1>0, <1>1, <1>2, <1>3, <1>6 DEF ClerkTypesOK, Bribe
  <2>2. CustomerTypesOK'
    BY <1>0, <1>1, <1>2, <1>3, <1>6 DEF CustomerTypesOK, Bribe
  <2>3. QueueTypesOK'
    BY <1>0, <1>1, <1>2, <1>3, <1>6 DEF QueueTypesOK, Bribe
  <2>4. CountTypesOK'
    BY <1>0, <1>1, <1>2, <1>3, <1>6 DEF CountTypesOK, Bribe
  <2>5. AttributeTypesOK'
    BY <1>0, <1>1, <1>2, <1>3, <1>6 DEF AttributeTypesOK, Bribe
  <2>6. MoneyTypesOK'
    BY <1>0, <1>1, <1>2, <1>3, <1>6 DEF MoneyTypesOK, Bribe
  <2>7. ManagerTypesOK'
    BY <1>0, <1>1, <1>2, <1>3, <1>6 DEF ManagerTypesOK, Bribe
  <2> QED BY <2>1, <2>2, <2>3, <2>4, <2>5, <2>6, <2>7, TypesInGroups
<1>7. CASE QueueInFront(c)
  <2>1. ClerkTypesOK'
    BY <1>0, <1>1, <1>2, <1>3, <1>7 DEF ClerkTypesOK, QueueInFront, Holds, LinesAreReal
  <2>2. CustomerTypesOK'
    BY <1>0, <1>1, <1>2, <1>3, <1>7 DEF CustomerTypesOK, QueueInFront, Holds, LinesAreReal
  <2>3. QueueTypesOK'
    BY <1>0, <1>1, <1>2, <1>3, <1>7 DEF QueueTypesOK, QueueInFront, Holds, LinesAreReal
  <2>4. CountTypesOK'
    BY <1>0, <1>1, <1>2, <1>3, <1>7 DEF CountTypesOK, QueueInFront, Holds, LinesAreReal
  <2>5. AttributeTypesOK'
    BY <1>0, <1>1, <1>2, <1>3, <1>7 DEF AttributeTypesOK, QueueInFront, Holds, LinesAreReal
  <2>6. MoneyTypesOK'
    <3>1. /\ myLine[c] \in Clerks
          /\ clerkMoney' = [clerkMoney EXCEPT ![myLine[c]] = register[c] + 500]
          /\ sold' = [sold EXCEPT ![myLine[c]] = @ + 500]
          /\ register' = [register EXCEPT ![c] = 0]
          /\ UNCHANGED <<money, left>>
      BY <1>3, <1>7 DEF QueueInFront, Holds, LinesAreReal
    <3> QED BY <1>0, <1>1, <3>1 DEF MoneyTypesOK
  <2>7. ManagerTypesOK'
    BY <1>0, <1>1, <1>2, <1>3, <1>7 DEF ManagerTypesOK, QueueInFront, Holds, LinesAreReal
  <2> QED BY <2>1, <2>2, <2>3, <2>4, <2>5, <2>6, <2>7, TypesInGroups
<1>11. CASE ReachForMoney(c)
  <2>1. ClerkTypesOK'
    BY <1>0, <1>1, <1>3, <1>11 DEF ClerkTypesOK, ReachForMoney, Holds
  <2>2. CustomerTypesOK'
    BY <1>0, <1>1, <1>3, <1>11 DEF CustomerTypesOK, ReachForMoney, Holds
  <2>3. QueueTypesOK'
    BY <1>0, <1>1, <1>3, <1>11 DEF QueueTypesOK, ReachForMoney, Holds
  <2>4. CountTypesOK'
    BY <1>0, <1>1, <1>3, <1>11 DEF CountTypesOK, ReachForMoney, Holds
  <2>5. AttributeTypesOK'
    BY <1>0, <1>1, <1>3, <1>11 DEF AttributeTypesOK, ReachForMoney, Holds
  <2>6. MoneyTypesOK'
    BY <1>0, <1>1, <1>3, <1>11 DEF MoneyTypesOK, ReachForMoney, Holds
  <2>7. ManagerTypesOK'
    BY <1>0, <1>1, <1>3, <1>11 DEF ManagerTypesOK, ReachForMoney, Holds
  <2> QED BY <2>1, <2>2, <2>3, <2>4, <2>5, <2>6, <2>7, TypesInGroups
<1>12. CASE PayBribe(c)
  <2>1. ClerkTypesOK'
    BY <1>0, <1>1, <1>3, <1>12 DEF ClerkTypesOK, PayBribe, Holds
  <2>2. CustomerTypesOK'
    BY <1>0, <1>1, <1>3, <1>12 DEF CustomerTypesOK, PayBribe, Holds
  <2>3. QueueTypesOK'
    BY <1>0, <1>1, <1>3, <1>12 DEF QueueTypesOK, PayBribe, Holds
  <2>4. CountTypesOK'
    BY <1>0, <1>1, <1>3, <1>12 DEF CountTypesOK, PayBribe, Holds
  <2>5. AttributeTypesOK'
    BY <1>0, <1>1, <1>3, <1>12 DEF AttributeTypesOK, PayBribe, Holds
  <2>6. MoneyTypesOK'
    BY <1>0, <1>1, <1>3, <1>12 DEF MoneyTypesOK, PayBribe, Holds
  <2>7. ManagerTypesOK'
    BY <1>0, <1>1, <1>3, <1>12 DEF ManagerTypesOK, PayBribe, Holds
  <2> QED BY <2>1, <2>2, <2>3, <2>4, <2>5, <2>6, <2>7, TypesInGroups
<1>13. CASE CountBribe(c)
  <2>1. ClerkTypesOK'
    BY <1>0, <1>1, <1>3, <1>13 DEF ClerkTypesOK, CountBribe, Holds, LinesAreReal
  <2>2. CustomerTypesOK'
    BY <1>0, <1>1, <1>3, <1>13 DEF CustomerTypesOK, CountBribe, Holds, LinesAreReal
  <2>3. QueueTypesOK'
    BY <1>0, <1>1, <1>3, <1>13 DEF QueueTypesOK, CountBribe, Holds, LinesAreReal
  <2>4. CountTypesOK'
    BY <1>0, <1>1, <1>3, <1>13 DEF CountTypesOK, CountBribe, Holds, LinesAreReal
  <2>5. AttributeTypesOK'
    BY <1>0, <1>1, <1>3, <1>13 DEF AttributeTypesOK, CountBribe, Holds, LinesAreReal
  <2>6. MoneyTypesOK'
    BY <1>0, <1>1, <1>3, <1>13 DEF MoneyTypesOK, CountBribe, Holds, LinesAreReal
  <2>7. ManagerTypesOK'
    BY <1>0, <1>1, <1>3, <1>13 DEF ManagerTypesOK, CountBribe, Holds, LinesAreReal
  <2> QED BY <2>1, <2>2, <2>3, <2>4, <2>5, <2>6, <2>7, TypesInGroups
<1>8. CASE LeaveLine(c)
  <2>1. myLine[c] \in Clerks /\ customerPlace[c] = "line" /\ bribe[c] \in BOOLEAN
    BY <1>3, <1>8 DEF LinesAreReal, LeaveLine, OfficeTypeOK
  <2>2. c \in InLine(myLine[c], bribe[c])
    BY <2>1 DEF InLine
  <2>3. \A k \in Clerks, b \in BOOLEAN : IsFiniteSet(InLine(k, b))
    BY <1>3, ThreadNumbers, FS_Subset DEF InLine
  <2>4. \A k \in Clerks, b \in BOOLEAN : InLine(k, b) # {} => Cardinality(InLine(k, b)) \in Nat \ {0}
    BY <2>3, FS_EmptySet, FS_CardinalityType
  <2>5. Cardinality(InLine(myLine[c], bribe[c])) \in Nat \ {0}
    BY <2>1, <2>2, <2>4
  <2>6. /\ bribe[c] => clerkBribeLineCount[myLine[c]] > 0
        /\ ~bribe[c] => clerkLineCount[myLine[c]] > 0
    <3>1. ASSUME bribe[c]  PROVE clerkBribeLineCount[myLine[c]] > 0
      <4>1. bribe[c] = TRUE
        BY <2>1, <3>1
      <4>2. Cardinality(InLine(myLine[c], TRUE)) \in Nat \ {0}
        BY <2>5, <4>1
      <4>3. clerkBribeLineCount[myLine[c]] = Cardinality(InLine(myLine[c], TRUE))
        BY <2>1, Zenon DEF UserInv, CountsAreExact
      <4>4. clerkBribeLineCount[myLine[c]] \in Nat \ {0}
        BY <4>2, <4>3, Zenon
      <4> QED BY <4>4
    <3>2. ASSUME ~bribe[c]  PROVE clerkLineCount[myLine[c]] > 0
      <4>1. bribe[c] = FALSE
        BY <2>1, <3>2
      <4>2. Cardinality(InLine(myLine[c], FALSE)) \in Nat \ {0}
        BY <2>5, <4>1
      <4>3. clerkLineCount[myLine[c]] = Cardinality(InLine(myLine[c], FALSE))
        BY <2>1, Zenon DEF UserInv, CountsAreExact
      <4>4. clerkLineCount[myLine[c]] \in Nat \ {0}
        BY <4>2, <4>3, Zenon
      <4> QED BY <4>4
    <3> QED BY <3>1, <3>2
  <2>11. ClerkTypesOK'
    BY <1>0, <1>1, <1>3, <1>8, <2>1, <2>6 DEF ClerkTypesOK, LeaveLine
  <2>12. CustomerTypesOK'
    BY <1>0, <1>1, <1>3, <1>8, <2>1, <2>6 DEF CustomerTypesOK, LeaveLine
  <2>13. QueueTypesOK'
    BY <1>0, <1>1, <1>3, <1>8, <2>1, <2>6 DEF QueueTypesOK, LeaveLine
  <2>14. CountTypesOK'
    BY <1>0, <1>1, <1>3, <1>8, <2>1, <2>6 DEF CountTypesOK, LeaveLine
  <2>15. AttributeTypesOK'
    BY <1>0, <1>1, <1>3, <1>8, <2>1, <2>6 DEF AttributeTypesOK, LeaveLine
  <2>16. MoneyTypesOK'
    BY <1>0, <1>1, <1>3, <1>8, <2>1, <2>6 DEF MoneyTypesOK, LeaveLine
  <2>17. ManagerTypesOK'
    BY <1>0, <1>1, <1>3, <1>8, <2>1, <2>6 DEF ManagerTypesOK, LeaveLine
  <2> QED BY <2>11, <2>12, <2>13, <2>14, <2>15, <2>16, <2>17, TypesInGroups
<1>9. CASE Approach(c)
  BY <1>1, <1>2, <1>3, <1>9 DEF OfficeTypeOK, Approach, SignalAndWait
<1>10. CASE LeaveCounter(c)
  BY <1>1, <1>2, <1>3, <1>10 DEF OfficeTypeOK, LeaveCounter, SignalCounter
<1> QED BY <1>4, <1>5, <1>6, <1>7, <1>8, <1>9, <1>10, <1>11, <1>12, <1>13 DEF CustomerStep

LEMMA ManagerTypesKept ==
  ASSUME OfficeTypeOK, OfficeIsFixed, ManagerStep
  PROVE  OfficeTypeOK'
<1>1. UNCHANGED fixedVars /\ Clerks' = Clerks /\ Threads' = Threads
  BY OfficeStaysFixed DEF OfficeNext, Threads, Self
<1>2. BoolCount \in 0 .. 4 * CustomerCount
  BY BoolCountIsBounded DEF OfficeTypeOK
<1> USE DEF ClerkPlaces, CashierPlaces, ManagerPlaces
<1>3. CASE CountLines
  BY <1>1, <1>3 DEF OfficeTypeOK, CountLines, WakeUpClerks
<1>4. CASE CheckCustomers
  BY <1>1, <1>2, <1>4 DEF OfficeTypeOK, CheckCustomers, WakeUpClerks
<1>5. CASE CloseOffice
  BY <1>1, <1>5 DEF OfficeTypeOK, CloseOffice, WakeUpClerks
<1> QED BY <1>3, <1>4, <1>5 DEF ManagerStep

----------------------------------------------------------------------------
(***************************************************************************)
(* The lines.                                                              *)
(***************************************************************************)
LEMMA InLineIsFinite ==
  ASSUME OfficeIsFixed, NEW k, NEW b
  PROVE  IsFiniteSet(InLine(k, b)) /\ Cardinality(InLine(k, b)) \in Nat
BY ThreadNumbers, FS_Subset, FS_CardinalityType DEF InLine

\* Nobody joins or leaves a line.
LEMMA CountsStay ==
  ASSUME CountsAreExact, Clerks' = Clerks, UNCHANGED <<clerkLineCount, clerkBribeLineCount>>,
         \A c \in Customers :
           /\ customerPlace'[c] = "line" <=> customerPlace[c] = "line"
           /\ customerPlace[c] = "line" => myLine'[c] = myLine[c] /\ bribe'[c] = bribe[c]
  PROVE  CountsAreExact'
<1>1. \A k, b : InLine(k, b)' = InLine(k, b)
  BY DEF InLine
<1> QED BY <1>1 DEF CountsAreExact

\* c joins the line of k.
LEMMA OneJoins ==
  ASSUME NEW c \in Customers, NEW k, NEW b \in BOOLEAN,
         customerPlace[c] # "line", customerPlace'[c] = "line", myLine'[c] = k, bribe'[c] = b,
         \A d \in Customers \ {c} : /\ customerPlace'[d] = customerPlace[d]
                                    /\ myLine'[d] = myLine[d] /\ bribe'[d] = bribe[d]
  PROVE  /\ InLine(k, b)' = InLine(k, b) \cup {c} /\ c \notin InLine(k, b)
         /\ \A j : j # k => InLine(j, b)' = InLine(j, b)
         /\ \A j : \A a \in BOOLEAN : a # b => InLine(j, a)' = InLine(j, a)
<1> USE DEF InLine
<1>1. InLine(k, b)' = InLine(k, b) \cup {c} /\ c \notin InLine(k, b)
  OBVIOUS
<1>2. ASSUME NEW j, j # k  PROVE InLine(j, b)' = InLine(j, b)
  BY <1>2
<1>3. ASSUME NEW j, NEW a \in BOOLEAN, a # b  PROVE InLine(j, a)' = InLine(j, a)
  BY <1>3
<1> QED BY <1>1, <1>2, <1>3

\* c leaves its line.
LEMMA OneLeaves ==
  ASSUME NEW c \in Customers, NEW k, NEW b \in BOOLEAN,
         customerPlace[c] = "line", customerPlace'[c] # "line", myLine[c] = k, bribe[c] = b,
         \A d \in Customers \ {c} : /\ customerPlace'[d] = customerPlace[d]
                                    /\ myLine'[d] = myLine[d] /\ bribe'[d] = bribe[d]
  PROVE  /\ InLine(k, b)' = InLine(k, b) \ {c} /\ c \in InLine(k, b)
         /\ \A j : j # k => InLine(j, b)' = InLine(j, b)
         /\ \A j : \A a \in BOOLEAN : a # b => InLine(j, a)' = InLine(j, a)
<1> USE DEF InLine
<1>1. InLine(k, b)' = InLine(k, b) \ {c} /\ c \in InLine(k, b)
  OBVIOUS
<1>2. ASSUME NEW j, j # k  PROVE InLine(j, b)' = InLine(j, b)
  BY <1>2
<1>3. ASSUME NEW j, NEW a \in BOOLEAN, a # b  PROVE InLine(j, a)' = InLine(j, a)
  BY <1>3
<1> QED BY <1>1, <1>2, <1>3

\* A customer joins a regular line, or a bribe line.
LEMMA JoinsRegular ==
  ASSUME OfficeIsFixed, Clerks' = Clerks, CountsAreExact, clerkLineCount \in [Clerks -> Nat],
         NEW c \in Customers, NEW k \in Clerks,
         customerPlace[c] # "line", customerPlace'[c] = "line", myLine'[c] = k, bribe'[c] = FALSE,
         \A d \in Customers \ {c} : /\ customerPlace'[d] = customerPlace[d]
                                    /\ myLine'[d] = myLine[d] /\ bribe'[d] = bribe[d],
         clerkLineCount' = [clerkLineCount EXCEPT ![k] = @ + 1], UNCHANGED clerkBribeLineCount
  PROVE  CountsAreExact'
<1>1. /\ InLine(k, FALSE)' = InLine(k, FALSE) \cup {c} /\ c \notin InLine(k, FALSE)
      /\ \A j : j # k => InLine(j, FALSE)' = InLine(j, FALSE)
      /\ \A j : InLine(j, TRUE)' = InLine(j, TRUE)
  BY OneJoins
<1>2. Cardinality(InLine(k, FALSE)') = Cardinality(InLine(k, FALSE)) + 1
  <2>1. IsFiniteSet(InLine(k, FALSE)) /\ InLine(k, FALSE)' = InLine(k, FALSE) \cup {c}
    BY <1>1, InLineIsFinite
  <2>2. Cardinality(InLine(k, FALSE) \cup {c}) = Cardinality(InLine(k, FALSE)) + 1
    BY <1>1, <2>1, FS_AddElement
  <2> QED BY <2>1, <2>2, Zenon
<1>3. \A j \in Clerks : /\ clerkLineCount[j] = Cardinality(InLine(j, FALSE))
                       /\ clerkBribeLineCount[j] = Cardinality(InLine(j, TRUE))
  BY Zenon DEF CountsAreExact
<1>4. ASSUME NEW j \in Clerks
      PROVE  clerkLineCount'[j] = Cardinality(InLine(j, FALSE)') /\ clerkBribeLineCount'[j] = Cardinality(InLine(j, TRUE)')
  <2>1. CASE j = k
    BY <1>1, <1>2, <1>3, <2>1
  <2>2. CASE j # k
    BY <1>1, <1>3, <2>2
  <2> QED BY <2>1, <2>2
<1> QED BY <1>4, Zenon DEF CountsAreExact

\* ... in front.
LEMMA JoinsBribers ==
  ASSUME OfficeIsFixed, Clerks' = Clerks, CountsAreExact, clerkBribeLineCount \in [Clerks -> Nat],
         NEW c \in Customers, NEW k \in Clerks,
         customerPlace[c] # "line", customerPlace'[c] = "line", myLine'[c] = k, bribe'[c] = TRUE,
         \A d \in Customers \ {c} : /\ customerPlace'[d] = customerPlace[d]
                                    /\ myLine'[d] = myLine[d] /\ bribe'[d] = bribe[d],
         clerkBribeLineCount' = [clerkBribeLineCount EXCEPT ![k] = @ + 1], UNCHANGED clerkLineCount
  PROVE  CountsAreExact'
<1>1. /\ InLine(k, TRUE)' = InLine(k, TRUE) \cup {c} /\ c \notin InLine(k, TRUE)
      /\ \A j : j # k => InLine(j, TRUE)' = InLine(j, TRUE)
      /\ \A j : InLine(j, FALSE)' = InLine(j, FALSE)
  BY OneJoins
<1>2. Cardinality(InLine(k, TRUE)') = Cardinality(InLine(k, TRUE)) + 1
  <2>1. IsFiniteSet(InLine(k, TRUE)) /\ InLine(k, TRUE)' = InLine(k, TRUE) \cup {c}
    BY <1>1, InLineIsFinite
  <2>2. Cardinality(InLine(k, TRUE) \cup {c}) = Cardinality(InLine(k, TRUE)) + 1
    BY <1>1, <2>1, FS_AddElement
  <2> QED BY <2>1, <2>2, Zenon
<1>3. \A j \in Clerks : /\ clerkBribeLineCount[j] = Cardinality(InLine(j, TRUE))
                       /\ clerkLineCount[j] = Cardinality(InLine(j, FALSE))
  BY Zenon DEF CountsAreExact
<1>4. ASSUME NEW j \in Clerks
      PROVE  clerkBribeLineCount'[j] = Cardinality(InLine(j, TRUE)') /\ clerkLineCount'[j] = Cardinality(InLine(j, FALSE)')
  <2>1. CASE j = k
    <3>1. clerkBribeLineCount'[k] = clerkBribeLineCount[k] + 1 /\ clerkLineCount'[k] = clerkLineCount[k]
      OBVIOUS
    <3> QED BY <1>1, <1>2, <1>3, <2>1, <3>1, Zenon
  <2>2. CASE j # k
    BY <1>1, <1>3, <2>2
  <2> QED BY <2>1, <2>2
<1> QED BY <1>4, Zenon DEF CountsAreExact

\* A customer leaves a regular line, or a bribe line.
LEMMA LeavesRegular ==
  ASSUME OfficeIsFixed, Clerks' = Clerks, CountsAreExact, clerkLineCount \in [Clerks -> Nat],
         NEW c \in Customers, NEW k \in Clerks,
         customerPlace[c] = "line", customerPlace'[c] # "line", myLine[c] = k, bribe[c] = FALSE,
         \A d \in Customers \ {c} : /\ customerPlace'[d] = customerPlace[d]
                                    /\ myLine'[d] = myLine[d] /\ bribe'[d] = bribe[d],
         clerkLineCount' = [clerkLineCount EXCEPT ![k] = @ - 1], UNCHANGED clerkBribeLineCount
  PROVE  CountsAreExact'
<1>1. /\ InLine(k, FALSE)' = InLine(k, FALSE) \ {c} /\ c \in InLine(k, FALSE)
      /\ \A j : j # k => InLine(j, FALSE)' = InLine(j, FALSE)
      /\ \A j : InLine(j, TRUE)' = InLine(j, TRUE)
  BY OneLeaves
<1>2. Cardinality(InLine(k, FALSE)') = Cardinality(InLine(k, FALSE)) - 1
  <2>1. IsFiniteSet(InLine(k, FALSE)) /\ InLine(k, FALSE)' = InLine(k, FALSE) \ {c}
    BY <1>1, InLineIsFinite
  <2>2. Cardinality(InLine(k, FALSE) \ {c}) = Cardinality(InLine(k, FALSE)) - 1
    BY <1>1, <2>1, FS_RemoveElement
  <2> QED BY <2>1, <2>2, Zenon
<1>3. \A j \in Clerks : /\ clerkLineCount[j] = Cardinality(InLine(j, FALSE))
                       /\ clerkBribeLineCount[j] = Cardinality(InLine(j, TRUE))
  BY Zenon DEF CountsAreExact
<1>4. ASSUME NEW j \in Clerks
      PROVE  clerkLineCount'[j] = Cardinality(InLine(j, FALSE)') /\ clerkBribeLineCount'[j] = Cardinality(InLine(j, TRUE)')
  <2>1. CASE j = k
    BY <1>1, <1>2, <1>3, <2>1
  <2>2. CASE j # k
    BY <1>1, <1>3, <2>2
  <2> QED BY <2>1, <2>2
<1> QED BY <1>4, Zenon DEF CountsAreExact

\* ... the one in front.
LEMMA LeavesBribers ==
  ASSUME OfficeIsFixed, Clerks' = Clerks, CountsAreExact, clerkBribeLineCount \in [Clerks -> Nat],
         NEW c \in Customers, NEW k \in Clerks,
         customerPlace[c] = "line", customerPlace'[c] # "line", myLine[c] = k, bribe[c] = TRUE,
         \A d \in Customers \ {c} : /\ customerPlace'[d] = customerPlace[d]
                                    /\ myLine'[d] = myLine[d] /\ bribe'[d] = bribe[d],
         clerkBribeLineCount' = [clerkBribeLineCount EXCEPT ![k] = @ - 1], UNCHANGED clerkLineCount
  PROVE  CountsAreExact'
<1>1. /\ InLine(k, TRUE)' = InLine(k, TRUE) \ {c} /\ c \in InLine(k, TRUE)
      /\ \A j : j # k => InLine(j, TRUE)' = InLine(j, TRUE)
      /\ \A j : InLine(j, FALSE)' = InLine(j, FALSE)
  BY OneLeaves
<1>2. Cardinality(InLine(k, TRUE)') = Cardinality(InLine(k, TRUE)) - 1
  <2>1. IsFiniteSet(InLine(k, TRUE)) /\ InLine(k, TRUE)' = InLine(k, TRUE) \ {c}
    BY <1>1, InLineIsFinite
  <2>2. Cardinality(InLine(k, TRUE) \ {c}) = Cardinality(InLine(k, TRUE)) - 1
    BY <1>1, <2>1, FS_RemoveElement
  <2> QED BY <2>1, <2>2, Zenon
<1>3. \A j \in Clerks : /\ clerkBribeLineCount[j] = Cardinality(InLine(j, TRUE))
                       /\ clerkLineCount[j] = Cardinality(InLine(j, FALSE))
  BY Zenon DEF CountsAreExact
<1>4. ASSUME NEW j \in Clerks
      PROVE  clerkBribeLineCount'[j] = Cardinality(InLine(j, TRUE)') /\ clerkLineCount'[j] = Cardinality(InLine(j, FALSE)')
  <2>1. CASE j = k
    BY <1>1, <1>2, <1>3, <2>1
  <2>2. CASE j # k
    BY <1>1, <1>3, <2>2
  <2> QED BY <2>1, <2>2
<1> QED BY <1>4, Zenon DEF CountsAreExact

\* LeaveLine, of the user program and of kernel threads.
LEMMA LeaveLineKeepsCounts ==
  ASSUME OfficeIsFixed, Clerks' = Clerks, CountsAreExact, LinesAreReal, NEW c \in Customers, LeaveLine(c),
         clerkLineCount \in [Clerks -> Nat], clerkBribeLineCount \in [Clerks -> Nat],
         DOMAIN customerPlace = Customers, bribe \in [Customers -> BOOLEAN]
  PROVE  CountsAreExact'
<1>1. /\ customerPlace[c] = "line" /\ customerPlace' = [customerPlace EXCEPT ![c] = "approach"]
      /\ UNCHANGED myLine /\ bribe' = [bribe EXCEPT ![c] = FALSE]
      /\ myLine[c] \in Clerks
  BY DEF LeaveLine, LinesAreReal
<1>2. /\ customerPlace'[c] # "line"
      /\ \A d \in Customers \ {c} : /\ customerPlace'[d] = customerPlace[d]
                                    /\ myLine'[d] = myLine[d] /\ bribe'[d] = bribe[d]
  BY <1>1
<1>3. ASSUME bribe[c] = TRUE  PROVE CountsAreExact'
  <2>1. /\ clerkBribeLineCount' = [clerkBribeLineCount EXCEPT ![myLine[c]] = @ - 1]
        /\ clerkLineCount' = clerkLineCount
    BY <1>3 DEF LeaveLine
  <2> QED BY <1>1, <1>2, <1>3, <2>1, LeavesBribers
<1>4. ASSUME bribe[c] = FALSE  PROVE CountsAreExact'
  <2>1. /\ clerkLineCount' = [clerkLineCount EXCEPT ![myLine[c]] = @ - 1]
        /\ clerkBribeLineCount' = clerkBribeLineCount
    BY <1>4 DEF LeaveLine
  <2> QED BY <1>1, <1>2, <1>4, <2>1, LeavesRegular
<1>5. bribe[c] = TRUE \/ bribe[c] = FALSE
  OBVIOUS
<1> QED BY <1>3, <1>4, <1>5

\* The user program.
LEMMA OfficeLinesKept ==
  ASSUME UserInv, [OfficeNext]_officeVars
  PROVE  LinesAreReal' /\ CountsAreExact'
<1>1. /\ Clerks' = Clerks /\ OfficeIsFixed /\ CountsAreExact /\ LinesAreReal
      /\ clerkLineCount \in [Clerks -> Nat] /\ clerkBribeLineCount \in [Clerks -> Nat]
      /\ customerPlace \in [Customers -> CustomerPlaces] /\ bribe \in [Customers -> BOOLEAN]
      /\ myLine \in [Customers -> Clerks \cup {-1}]
  BY OfficeStaysFixed DEF UserInv, OfficeTypeOK
<1>2. \A c \in Customers : Lines(c) \subseteq Clerks
  BY <1>1, LinesAreClerks, LineSizesAreNumbers
<1>3. ASSUME UNCHANGED <<customerVars, clerkLineCount, clerkBribeLineCount>>
      PROVE  LinesAreReal' /\ CountsAreExact'
  BY <1>1, <1>3, CountsStay DEF LinesAreReal
<1>4. ASSUME NEW c \in Customers, CustomerStep(c)  PROVE LinesAreReal' /\ CountsAreExact'
  <2>1. ASSUME \/ GoStraight(c) \/ Bribe(c) \/ Approach(c) \/ LeaveCounter(c)
               \/ ReachForMoney(c) \/ PayBribe(c) \/ CountBribe(c)
        PROVE  LinesAreReal' /\ CountsAreExact'
    <3>1. /\ customerPlace[c] # "line" /\ customerPlace'[c] # "line"
          /\ customerPlace'[c] \in {"bribing", "paying", "paid", "adding"} => myLine'[c] \in Clerks
          /\ UNCHANGED <<bribe, clerkLineCount, clerkBribeLineCount>>
          /\ \A d \in Customers \ {c} : customerPlace'[d] = customerPlace[d] /\ myLine'[d] = myLine[d]
      <4>1. CASE GoStraight(c)
        BY <1>1, <4>1 DEF GoStraight
      <4>2. CASE Bribe(c)
        BY <1>1, <1>2, <4>2 DEF Bribe
      <4>3. CASE Approach(c)
        BY <1>1, <4>3 DEF Approach
      <4>4. CASE LeaveCounter(c)
        BY <1>1, <4>4 DEF LeaveCounter
      <4>5. CASE ReachForMoney(c)
        BY <1>1, <4>5 DEF ReachForMoney, LinesAreReal
      <4>6. CASE PayBribe(c)
        BY <1>1, <4>6 DEF PayBribe, LinesAreReal
      <4>7. CASE CountBribe(c)
        BY <1>1, <4>7 DEF CountBribe, LinesAreReal
      <4> QED BY <2>1, <4>1, <4>2, <4>3, <4>4, <4>5, <4>6, <4>7
    <3>2. LinesAreReal'
      BY <1>1, <3>1 DEF LinesAreReal
    <3>3. CountsAreExact'
      BY <1>1, <3>1, CountsStay
    <3> QED BY <3>2, <3>3
  <2>2. ASSUME QueueUp(c)  PROVE LinesAreReal' /\ CountsAreExact'
    <3>1. PICK k \in Clerks : /\ clerkLineCount' = [clerkLineCount EXCEPT ![k] = @ + 1]
                              /\ myLine' = [myLine EXCEPT ![c] = k]
      BY <1>2, <2>2 DEF QueueUp
    <3>2. /\ customerPlace[c] = "arrive" /\ customerPlace' = [customerPlace EXCEPT ![c] = "line"]
          /\ UNCHANGED <<bribe, clerkBribeLineCount>>
      BY <2>2 DEF QueueUp
    <3>3. bribe[c] = FALSE
      BY <1>1, <3>2 DEF LinesAreReal
    <3>4. /\ customerPlace[c] # "line" /\ customerPlace'[c] = "line" /\ myLine'[c] = k /\ bribe'[c] = FALSE
          /\ \A d \in Customers \ {c} : /\ customerPlace'[d] = customerPlace[d]
                                        /\ myLine'[d] = myLine[d] /\ bribe'[d] = bribe[d]
      BY <1>1, <3>1, <3>2, <3>3
    <3>5. CountsAreExact'
      BY <1>1, <3>1, <3>2, <3>4, JoinsRegular
    <3>6. LinesAreReal'
      BY <1>1, <3>4 DEF LinesAreReal
    <3> QED BY <3>5, <3>6
  <2>3. ASSUME QueueInFront(c)  PROVE LinesAreReal' /\ CountsAreExact'
    <3>1. /\ customerPlace[c] = "adding" /\ customerPlace' = [customerPlace EXCEPT ![c] = "line"]
          /\ UNCHANGED <<myLine, clerkLineCount>>
          /\ clerkBribeLineCount' = [clerkBribeLineCount EXCEPT ![myLine[c]] = @ + 1]
          /\ bribe' = [bribe EXCEPT ![c] = TRUE]
      BY <2>3 DEF QueueInFront
    <3>2. myLine[c] \in Clerks
      BY <1>1, <3>1 DEF LinesAreReal
    <3>3. /\ customerPlace[c] # "line" /\ customerPlace'[c] = "line" /\ bribe'[c] = TRUE
          /\ \A d \in Customers \ {c} : /\ customerPlace'[d] = customerPlace[d]
                                        /\ myLine'[d] = myLine[d] /\ bribe'[d] = bribe[d]
      BY <1>1, <3>1
    <3>4. CountsAreExact'
      BY <1>1, <3>1, <3>2, <3>3, JoinsBribers
    <3>5. LinesAreReal'
      BY <1>1, <3>1, <3>2, <3>3 DEF LinesAreReal
    <3> QED BY <3>4, <3>5
  <2>4. ASSUME LeaveLine(c)  PROVE LinesAreReal' /\ CountsAreExact'
    <3>1. CountsAreExact'
      BY <1>1, <2>4, LeaveLineKeepsCounts
    <3>2. LinesAreReal'
      BY <1>1, <2>4 DEF LinesAreReal, LeaveLine
    <3> QED BY <3>1, <3>2
  <2> QED BY <1>4, <2>1, <2>2, <2>3, <2>4 DEF CustomerStep
<1>5. CASE \E k \in Clerks : ClerkStep(k)
  BY <1>3, <1>5 DEF ClerkStep, ChooseBribe, ChooseRegular, GoOnBreak, GoOnTest, NextCustomer,
     TakeMoney, CountMoney, HandOver, FileApplication, TakePicture, Certify, Charge, Refuse
<1>6. CASE ManagerStep
  BY <1>3, <1>6 DEF ManagerStep, CountLines, CheckCustomers, CloseOffice
<1>7. CASE OfficeOver \/ UNCHANGED officeVars
  BY <1>3, <1>7 DEF OfficeOver
<1> QED BY <1>4, <1>5, <1>6, <1>7 DEF OfficeNext

----------------------------------------------------------------------------
(***************************************************************************)
(* The passports.                                                          *)
(***************************************************************************)
\* No step takes a stage back.
LEMMA OfficeReachesMore ==
  ASSUME reached \in [Customers -> SUBSET Stages], [OfficeNext]_officeVars
  PROVE  \A c \in Customers : reached[c] \subseteq reached'[c]
<1>1. ASSUME NEW k \in Clerks, NEW c \in Customers,
             FileApplication(k, c) \/ TakePicture(k, c) \/ Certify(k, c)
      PROVE  \A d \in Customers : reached[d] \subseteq reached'[d]
  BY <1>1 DEF FileApplication, TakePicture, Certify, Reaches, MessesUpOr
<1>2. ASSUME NEW k \in Clerks, HandOver(k)
      PROVE  \A d \in Customers : reached[d] \subseteq reached'[d]
  BY <1>2 DEF HandOver, Reaches, MessesUpOr
<1>3. \/ UNCHANGED reached
      \/ \E k \in Clerks : \/ HandOver(k)
                           \/ \E c \in Customers : FileApplication(k, c) \/ TakePicture(k, c) \/ Certify(k, c)
  <2>1. ASSUME NEW k \in Clerks, \/ ChooseBribe(k) \/ ChooseRegular(k) \/ GoOnBreak(k) \/ GoOnTest(k) \/ NextCustomer(k)
                                 \/ TakeMoney(k) \/ CountMoney(k)
                                 \/ \E c \in Customers : Charge(k, c) \/ Refuse(k, c)
        PROVE  UNCHANGED reached
    BY <2>1 DEF ChooseBribe, ChooseRegular, GoOnBreak, GoOnTest, NextCustomer, TakeMoney, CountMoney,
       Charge, Refuse
  <2>2. ASSUME NEW c \in Customers, CustomerStep(c)  PROVE UNCHANGED reached
    BY <2>2 DEF CustomerStep, GoStraight, QueueUp, Bribe, ReachForMoney, PayBribe,
       CountBribe, QueueInFront, LeaveLine, Approach, LeaveCounter
  <2>3. CASE ManagerStep
    BY <2>3 DEF ManagerStep, CountLines, CheckCustomers, CloseOffice
  <2>4. CASE OfficeOver \/ UNCHANGED officeVars
    BY <2>4 DEF OfficeOver
  <2> QED BY <2>1, <2>2, <2>3, <2>4, Zenon DEF OfficeNext, ClerkStep
<1> QED BY <1>1, <1>2, <1>3

LEMMA OfficePassportsKept ==
  ASSUME UserInv, [OfficeNext]_officeVars
  PROVE  PassportsAreOut'
<1>1. EverybodyDone => EverybodyDone'
  <2>1. \A c \in Customers : reached[c] \subseteq reached'[c]
    BY OfficeReachesMore DEF UserInv, OfficeTypeOK
  <2> QED BY <2>1 DEF EverybodyDone
<1>2. CASE ManagerStep
  BY <1>1, <1>2 DEF ManagerStep, CountLines, CheckCustomers, CloseOffice, UserInv, PassportsAreOut
<1>3. CASE UNCHANGED <<manager, allCustomersAreDone>>
  BY <1>1, <1>3 DEF UserInv, PassportsAreOut
<1>4. CASE \E k \in Clerks : ClerkStep(k)
  <2>1. PICK k \in Clerks : ClerkStep(k)
    BY <1>4
  <2>2. CASE \/ ChooseBribe(k) \/ ChooseRegular(k) \/ GoOnBreak(k) \/ GoOnTest(k) \/ NextCustomer(k)
             \/ TakeMoney(k) \/ CountMoney(k) \/ HandOver(k)
    BY <1>3, <2>2 DEF ChooseBribe, ChooseRegular, GoOnBreak, GoOnTest, NextCustomer, TakeMoney,
       CountMoney, HandOver
  <2>3. CASE \E c \in Customers : \/ FileApplication(k, c) \/ TakePicture(k, c) \/ Certify(k, c)
                                  \/ Charge(k, c) \/ Refuse(k, c)
    BY <1>3, <2>3 DEF FileApplication, TakePicture, Certify, Charge, Refuse
  <2> QED BY <2>1, <2>2, <2>3, Zenon DEF ClerkStep
<1>5. CASE \E c \in Customers : CustomerStep(c)
  BY <1>3, <1>5 DEF CustomerStep, GoStraight, QueueUp, Bribe, ReachForMoney, PayBribe,
       CountBribe, QueueInFront, LeaveLine, Approach, LeaveCounter
<1>6. CASE OfficeOver \/ UNCHANGED officeVars
  BY <1>3, <1>6 DEF OfficeOver
<1> QED BY <1>2, <1>4, <1>5, <1>6 DEF OfficeNext

----------------------------------------------------------------------------
(***************************************************************************)
(* The money.                                                              *)
(***************************************************************************)
LEMMA SalesStay ==
  ASSUME SalesAreKept, Clerks' = Clerks, UNCHANGED <<clerkMoney, money, sold, left, register>>,
         \A k \in Clerks : clerkPlace'[k] \in {"charging", "pay"} =>
                             clerkPlace'[k] = clerkPlace[k] /\ customerData'[k] = customerData[k],
         \A c \in Customers : customerPlace'[c] \in {"paying", "adding"} =>
                                customerPlace'[c] = customerPlace[c] /\ myLine'[c] = myLine[c]
  PROVE  SalesAreKept'
BY DEF SalesAreKept, Self

\* What everybody else has read.
LEMMA OthersHold ==
  ASSUME OfficeIsFixed, register \in [Threads -> Int], NEW t \in Threads, NEW v \in Int, Holds(t, v)
  PROVE  register'[t] = v /\ \A u \in Threads \ {t} : register'[u] = register[u]
BY DEF Holds

LEMMA ClerksHold ==
  ASSUME OfficeIsFixed, register \in [Threads -> Int], NEW k \in Clerks, NEW v \in Int, Holds(Self(k), v)
  PROVE  /\ register'[Self(k)] = v
         /\ \A j \in Clerks \ {k} : register'[Self(j)] = register[Self(j)]
         /\ \A c \in Customers : register'[c] = register[c]
<1>1. /\ Self(k) \in Threads /\ Customers \subseteq Threads /\ \A j \in Clerks : Self(j) \in Threads
      /\ \A j \in Clerks \ {k} : Self(j) # Self(k)
      /\ Self(k) \notin Customers
  BY ThreadNumbers DEF Threads
<1> QED BY <1>1, OthersHold

LEMMA CustomersHold ==
  ASSUME OfficeIsFixed, register \in [Threads -> Int], NEW c \in Customers, NEW v \in Int, Holds(c, v)
  PROVE  /\ register'[c] = v
         /\ \A d \in Customers \ {c} : register'[d] = register[d]
         /\ \A k \in Clerks : register'[Self(k)] = register[Self(k)]
<1>1. /\ Customers \subseteq Threads
      /\ \A k \in Clerks : Self(k) \in Threads /\ Self(k) # c
  BY ThreadNumbers DEF Threads
<1> QED BY <1>1, OthersHold

\* The cashier: it reads, stores, reads and stores again, while customers pay.
LEMMA CashierKeepsSales ==
  ASSUME UserInv, NEW k \in Clerks, Clerks' = Clerks, UNCHANGED <<customerPlace, myLine, customerData>>,
         \/ \E c \in Customers : Charge(k, c)
         \/ TakeMoney(k) \/ CountMoney(k) \/ HandOver(k)
  PROVE  SalesAreKept'
<1>1. /\ OfficeIsFixed /\ SalesAreKept
      /\ clerkPlace \in [Clerks -> ClerkPlaces] /\ register \in [Threads -> Int]
      /\ clerkMoney \in [Clerks -> Int] /\ sold \in [Clerks -> Nat]
      /\ money \in [Customers -> Int] /\ left \in [Customers -> Int]
      /\ customerData \in [Clerks -> Customers]
      /\ Self(k) \in Threads
  BY DEF UserInv, OfficeTypeOK, Threads
<1> DEFINE p == customerData[k]
<1>2. p \in Customers /\ \A j \in Clerks : customerData[j] \in Customers
  BY <1>1
<1>3. \A j \in Clerks : Self(j)' = Self(j) /\ register[Self(j)] \in Int
  BY <1>1 DEF Self, Threads
<1>4. \A c \in Customers : register[c] \in Int
  BY <1>1 DEF Threads
<1>5. ASSUME NEW c \in Customers, Charge(k, c)  PROVE SalesAreKept'
  <2>1. /\ Holds(Self(k), money[c]) /\ c = customerData[k] /\ money[c] \in Int
        /\ clerkPlace' = [clerkPlace EXCEPT ![k] = "charging"]
        /\ UNCHANGED <<money, clerkMoney, sold, left>>
    BY <1>1, <1>5 DEF Charge, Serves
  <2>2. /\ register'[Self(k)] = money[c]
        /\ \A j \in Clerks \ {k} : register'[Self(j)] = register[Self(j)]
        /\ \A d \in Customers : register'[d] = register[d]
    BY <1>1, <2>1, ClerksHold
  <2>3. \A j \in Clerks : clerkPlace'[j] = IF j = k THEN "charging" ELSE clerkPlace[j]
    BY <1>1, <2>1
  <2> QED BY <1>1, <1>3, <2>1, <2>2, <2>3 DEF SalesAreKept
<1>6. ASSUME TakeMoney(k)  PROVE SalesAreKept'
  <2>1. /\ Holds(Self(k), 0) /\ clerkPlace[k] = "charging"
        /\ clerkPlace' = [clerkPlace EXCEPT ![k] = "charged"]
        /\ money' = [money EXCEPT ![p] = register[Self(k)] - 100]
        /\ left' = [left EXCEPT ![p] = @ - 100]
        /\ UNCHANGED <<clerkMoney, sold>>
    BY <1>6 DEF TakeMoney
  <2>2. /\ \A j \in Clerks \ {k} : register'[Self(j)] = register[Self(j)]
        /\ \A d \in Customers : register'[d] = register[d]
    BY <1>1, <2>1, ClerksHold
  <2>3. /\ \A j \in Clerks : clerkPlace'[j] = IF j = k THEN "charged" ELSE clerkPlace[j]
        /\ \A d \in Customers : /\ money'[d] = IF d = p THEN register[Self(k)] - 100 ELSE money[d]
                                /\ left'[d] = IF d = p THEN left[p] - 100 ELSE left[d]
                                /\ left[d] \in Int /\ money[d] \in Int
    BY <1>1, <1>2, <2>1
  <2>4. register[Self(k)] >= left[p]
    BY <1>1, <2>1 DEF SalesAreKept
  <2>5. \A d \in Customers : left'[d] <= left[d] /\ money'[d] >= left'[d] /\ left'[d] \in Int
    BY <1>1, <1>2, <1>3, <2>3, <2>4 DEF SalesAreKept
  <2> HIDE DEF p
  <2> QED BY <1>1, <1>2, <1>3, <1>4, <2>1, <2>2, <2>3, <2>5 DEF SalesAreKept
<1>7. ASSUME CountMoney(k)  PROVE SalesAreKept'
  <2>1. /\ Holds(Self(k), clerkMoney[k]) /\ clerkMoney[k] \in Int
        /\ clerkPlace' = [clerkPlace EXCEPT ![k] = "pay"]
        /\ UNCHANGED <<money, clerkMoney, sold, left>>
    BY <1>1, <1>7 DEF CountMoney
  <2>2. /\ register'[Self(k)] = clerkMoney[k]
        /\ \A j \in Clerks \ {k} : register'[Self(j)] = register[Self(j)]
        /\ \A d \in Customers : register'[d] = register[d]
    BY <1>1, <2>1, ClerksHold
  <2>3. \A j \in Clerks : clerkPlace'[j] = IF j = k THEN "pay" ELSE clerkPlace[j]
    BY <1>1, <2>1
  <2> QED BY <1>1, <1>3, <2>1, <2>2, <2>3 DEF SalesAreKept
<1>8. ASSUME HandOver(k)  PROVE SalesAreKept'
  <2>1. /\ Holds(Self(k), 0) /\ clerkPlace[k] = "pay"
        /\ clerkPlace' = [clerkPlace EXCEPT ![k] = "signOff"]
        /\ clerkMoney' = [clerkMoney EXCEPT ![k] = register[Self(k)] + 100]
        /\ sold' = [sold EXCEPT ![k] = @ + 100]
        /\ UNCHANGED <<money, left>>
    BY <1>8 DEF HandOver, SignOff
  <2>2. /\ \A j \in Clerks \ {k} : register'[Self(j)] = register[Self(j)]
        /\ \A d \in Customers : register'[d] = register[d]
    BY <1>1, <2>1, ClerksHold
  <2>3. \A j \in Clerks : /\ clerkPlace'[j] = IF j = k THEN "signOff" ELSE clerkPlace[j]
                          /\ clerkMoney'[j] = IF j = k THEN register[Self(k)] + 100 ELSE clerkMoney[j]
                          /\ sold'[j] = IF j = k THEN sold[k] + 100 ELSE sold[j]
                          /\ sold[j] \in Int /\ clerkMoney[j] \in Int
    BY <1>1, <2>1
  <2>4. register[Self(k)] <= sold[k]
    BY <1>1, <2>1 DEF SalesAreKept
  <2>5. \A j \in Clerks : sold'[j] >= sold[j] /\ clerkMoney'[j] <= sold'[j] /\ sold'[j] \in Int
    BY <1>1, <1>3, <2>3, <2>4 DEF SalesAreKept
  <2>6. \A d \in Customers : customerPlace[d] = "adding" => myLine[d] \in Clerks
    BY DEF UserInv, LinesAreReal
  <2> HIDE DEF p
  <2> QED BY <1>1, <1>3, <1>4, <2>1, <2>2, <2>3, <2>5, <2>6 DEF SalesAreKept
<1> HIDE DEF p
<1> QED BY <1>5, <1>6, <1>7, <1>8

\* A customer that bribes, while cashiers charge it.
LEMMA BriberKeepsSales ==
  ASSUME UserInv, NEW c \in Customers, Clerks' = Clerks,
         UNCHANGED <<clerkPlace, myLine, customerData>>,
         ReachForMoney(c) \/ PayBribe(c) \/ CountBribe(c) \/ QueueInFront(c)
  PROVE  SalesAreKept'
<1>1. /\ OfficeIsFixed /\ SalesAreKept
      /\ customerPlace \in [Customers -> CustomerPlaces] /\ register \in [Threads -> Int]
      /\ clerkMoney \in [Clerks -> Int] /\ sold \in [Clerks -> Nat]
      /\ money \in [Customers -> Int] /\ left \in [Customers -> Int]
      /\ customerData \in [Clerks -> Customers]
  BY DEF UserInv, OfficeTypeOK
<1>2. \A d \in Customers : /\ customerPlace[d] \in {"paid", "adding"} => myLine[d] \in Clerks
                           /\ register[d] \in Int
  BY <1>1 DEF UserInv, LinesAreReal, Threads
<1>3. \A j \in Clerks : Self(j)' = Self(j) /\ register[Self(j)] \in Int /\ customerData[j] \in Customers
  BY <1>1 DEF Self, Threads
<1>5. ASSUME ReachForMoney(c)  PROVE SalesAreKept'
  <2>1. /\ Holds(c, money[c]) /\ money[c] \in Int
        /\ customerPlace' = [customerPlace EXCEPT ![c] = "paying"]
        /\ UNCHANGED <<money, clerkMoney, sold, left>>
    BY <1>1, <1>5 DEF ReachForMoney
  <2>2. /\ register'[c] = money[c]
        /\ \A d \in Customers \ {c} : register'[d] = register[d]
        /\ \A k \in Clerks : register'[Self(k)] = register[Self(k)]
    BY <1>1, <2>1, CustomersHold
  <2>3. \A d \in Customers : customerPlace'[d] = IF d = c THEN "paying" ELSE customerPlace[d]
    BY <1>1, <2>1
  <2> QED BY <1>1, <1>3, <2>1, <2>2, <2>3 DEF SalesAreKept
<1>6. ASSUME PayBribe(c)  PROVE SalesAreKept'
  <2>1. /\ Holds(c, 0) /\ customerPlace[c] = "paying"
        /\ customerPlace' = [customerPlace EXCEPT ![c] = "paid"]
        /\ money' = [money EXCEPT ![c] = register[c] - 500]
        /\ left' = [left EXCEPT ![c] = @ - 500]
        /\ UNCHANGED <<clerkMoney, sold>>
    BY <1>6 DEF PayBribe
  <2>2. /\ \A d \in Customers \ {c} : register'[d] = register[d]
        /\ \A k \in Clerks : register'[Self(k)] = register[Self(k)]
    BY <1>1, <2>1, CustomersHold
  <2>3. \A d \in Customers : /\ customerPlace'[d] = IF d = c THEN "paid" ELSE customerPlace[d]
                             /\ money'[d] = IF d = c THEN register[c] - 500 ELSE money[d]
                             /\ left'[d] = IF d = c THEN left[c] - 500 ELSE left[d]
                             /\ left[d] \in Int /\ money[d] \in Int
    BY <1>1, <2>1
  <2>4. register[c] >= left[c]
    BY <1>1, <2>1 DEF SalesAreKept
  <2>5. \A d \in Customers : left'[d] <= left[d] /\ money'[d] >= left'[d] /\ left'[d] \in Int
    BY <1>1, <1>2, <2>3, <2>4 DEF SalesAreKept
  <2> QED BY <1>1, <1>2, <1>3, <2>1, <2>2, <2>3, <2>5 DEF SalesAreKept
<1>7. ASSUME CountBribe(c)  PROVE SalesAreKept'
  <2>1. /\ Holds(c, clerkMoney[myLine[c]]) /\ myLine[c] \in Clerks /\ clerkMoney[myLine[c]] \in Int
        /\ customerPlace' = [customerPlace EXCEPT ![c] = "adding"]
        /\ UNCHANGED <<money, clerkMoney, sold, left>>
    BY <1>1, <1>2, <1>7 DEF CountBribe
  <2>2. /\ register'[c] = clerkMoney[myLine[c]]
        /\ \A d \in Customers \ {c} : register'[d] = register[d]
        /\ \A k \in Clerks : register'[Self(k)] = register[Self(k)]
    BY <1>1, <2>1, CustomersHold
  <2>3. \A d \in Customers : customerPlace'[d] = IF d = c THEN "adding" ELSE customerPlace[d]
    BY <1>1, <2>1
  <2> QED BY <1>1, <1>3, <2>1, <2>2, <2>3 DEF SalesAreKept
<1>8. ASSUME QueueInFront(c)  PROVE SalesAreKept'
  <2> DEFINE k == myLine[c]
  <2>1. /\ Holds(c, 0) /\ customerPlace[c] = "adding" /\ k \in Clerks
        /\ customerPlace' = [customerPlace EXCEPT ![c] = "line"]
        /\ clerkMoney' = [clerkMoney EXCEPT ![k] = register[c] + 500]
        /\ sold' = [sold EXCEPT ![k] = @ + 500]
        /\ UNCHANGED <<money, left>>
    BY <1>2, <1>8 DEF QueueInFront
  <2>2. /\ \A d \in Customers \ {c} : register'[d] = register[d]
        /\ \A j \in Clerks : register'[Self(j)] = register[Self(j)]
    BY <1>1, <2>1, CustomersHold
  <2>3. /\ \A d \in Customers : customerPlace'[d] = IF d = c THEN "line" ELSE customerPlace[d]
        /\ \A j \in Clerks : /\ clerkMoney'[j] = IF j = k THEN register[c] + 500 ELSE clerkMoney[j]
                             /\ sold'[j] = IF j = k THEN sold[k] + 500 ELSE sold[j]
                             /\ sold[j] \in Int /\ clerkMoney[j] \in Int
    BY <1>1, <2>1
  <2>4. register[c] <= sold[k]
    BY <1>1, <2>1 DEF SalesAreKept
  <2> HIDE DEF k
  <2>5. \A j \in Clerks : sold'[j] >= sold[j] /\ clerkMoney'[j] <= sold'[j] /\ sold'[j] \in Int
    BY <1>1, <1>2, <2>3, <2>4 DEF SalesAreKept
  <2> QED BY <1>1, <1>2, <1>3, <2>1, <2>2, <2>3, <2>5 DEF SalesAreKept
<1> QED BY <1>5, <1>6, <1>7, <1>8

LEMMA OfficeSalesKept ==
  ASSUME UserInv, [OfficeNext]_officeVars
  PROVE  SalesAreKept'
<1>1. OfficeIsFixed /\ SalesAreKept /\ Clerks' = Clerks /\ OfficeTypeOK
  BY OfficeStaysFixed DEF UserInv
<1>2. ASSUME NEW k \in Clerks, ClerkStep(k)  PROVE SalesAreKept'
  <2>1. CASE TakeMoney(k) \/ CountMoney(k) \/ HandOver(k) \/ \E c \in Customers : Charge(k, c)
    <3>1. UNCHANGED <<customerPlace, myLine, customerData>>
      BY <2>1 DEF TakeMoney, CountMoney, HandOver, Charge
    <3> QED BY <1>1, <2>1, <3>1, CashierKeepsSales
  <2>2. CASE \/ ChooseBribe(k) \/ ChooseRegular(k) \/ GoOnBreak(k) \/ GoOnTest(k) \/ NextCustomer(k)
    <3>1. UNCHANGED <<moneyVars, customerVars, customerData>>
      BY <2>2 DEF ChooseBribe, ChooseRegular, GoOnBreak, GoOnTest, NextCustomer, GoToCounter
    <3>2. \E place \in {"choose", "break", "counter", "exit"} : clerkPlace' = [clerkPlace EXCEPT ![k] = place]
      BY <2>2 DEF ChooseBribe, ChooseRegular, GoOnBreak, GoOnTest, NextCustomer, GoToCounter
    <3>3. \A j \in Clerks : clerkPlace'[j] \in {"charging", "pay"} => clerkPlace'[j] = clerkPlace[j]
      BY <1>1, <3>2 DEF OfficeTypeOK
    <3> QED BY <1>1, <3>1, <3>3, SalesStay
  <2>3. ASSUME NEW c \in Customers, FileApplication(k, c) \/ TakePicture(k, c) \/ Certify(k, c) \/ Refuse(k, c)
        PROVE  SalesAreKept'
    <3>1. UNCHANGED <<moneyVars, customerVars, customerData>>
      BY <2>3 DEF FileApplication, TakePicture, Certify, Refuse
    <3>2. clerkPlace' = [clerkPlace EXCEPT ![k] = "signOff"]
      BY <2>3 DEF FileApplication, TakePicture, Certify, Refuse, SignOff
    <3>3. \A j \in Clerks : clerkPlace'[j] \in {"charging", "pay"} => clerkPlace'[j] = clerkPlace[j]
      BY <1>1, <3>2 DEF OfficeTypeOK
    <3> QED BY <1>1, <3>1, <3>3, SalesStay
  <2> QED BY <1>2, <2>1, <2>2, <2>3 DEF ClerkStep
<1>3. ASSUME NEW c \in Customers, CustomerStep(c)  PROVE SalesAreKept'
  <2>1. CASE ReachForMoney(c) \/ PayBribe(c) \/ CountBribe(c) \/ QueueInFront(c)
    <3>1. UNCHANGED <<clerkPlace, myLine, customerData>>
      BY <2>1 DEF ReachForMoney, PayBribe, CountBribe, QueueInFront
    <3> QED BY <1>1, <2>1, <3>1, BriberKeepsSales
  <2>2. CASE GoStraight(c) \/ QueueUp(c) \/ Bribe(c) \/ LeaveLine(c) \/ Approach(c) \/ LeaveCounter(c)
    <3>1. UNCHANGED <<moneyVars, clerkPlace>>
      BY <2>2 DEF GoStraight, QueueUp, Bribe, LeaveLine, Approach, LeaveCounter
    <3>2. \E place \in {"approach", "line", "bribing", "served", "gone", "arrive"} :
            customerPlace' = [customerPlace EXCEPT ![c] = place]
      BY <2>2 DEF GoStraight, QueueUp, Bribe, LeaveLine, Approach, LeaveCounter
    <3>3. \A d \in Customers \ {c} : myLine'[d] = myLine[d]
      BY <1>1, <2>2 DEF GoStraight, QueueUp, Bribe, LeaveLine, Approach, LeaveCounter, OfficeTypeOK
    <3>4. \A d \in Customers : customerPlace'[d] \in {"paying", "adding"} =>
                                 customerPlace'[d] = customerPlace[d] /\ myLine'[d] = myLine[d]
      BY <1>1, <3>2, <3>3 DEF OfficeTypeOK
    <3>5. \A k \in Clerks : clerkPlace[k] \in {"charging", "pay"} => customerData'[k] = customerData[k]
      <4>1. CASE Approach(c)
        BY <1>1, <4>1 DEF Approach, CounterFree, CashierPlaces, OfficeTypeOK
      <4>2. CASE GoStraight(c) \/ QueueUp(c) \/ Bribe(c) \/ LeaveLine(c) \/ LeaveCounter(c)
        BY <4>2 DEF GoStraight, QueueUp, Bribe, LeaveLine, LeaveCounter
      <4> QED BY <2>2, <4>1, <4>2
    <3> QED BY <1>1, <3>1, <3>4, <3>5, SalesStay
  <2> QED BY <1>3, <2>1, <2>2 DEF CustomerStep
<1>4. CASE ManagerStep
  <2>1. UNCHANGED <<moneyVars, customerVars, customerData>>
    BY <1>4 DEF ManagerStep, CountLines, CheckCustomers, CloseOffice
  <2>2. \A k \in Clerks : clerkPlace'[k] \in {"charging", "pay"} => clerkPlace'[k] = clerkPlace[k]
    BY <1>4 DEF ManagerStep, CountLines, CheckCustomers, CloseOffice, WakeUpClerks
  <2> QED BY <1>1, <2>1, <2>2, SalesStay
<1>5. CASE OfficeOver \/ UNCHANGED officeVars
  BY <1>1, <1>5, SalesStay DEF OfficeOver
<1> QED BY <1>2, <1>3, <1>4, <1>5 DEF OfficeNext

\* Nobody is in a line to begin with, and the books are exact.
LEMMA OfficeBegins ==
  ASSUME OfficeInit
  PROVE  UserInv
<1>1. PICK office \in Offices : ClerksBegin(office) /\ CustomersBegin(office)
  BY DEF OfficeInit
<1>2. /\ IsFiniteSet(Clerks) /\ Clerks \subseteq Nat /\ clerkTypes \in [Clerks -> Types]
      /\ office.reached \subseteq Stages /\ office.clerks \in {"choose", "break"}
  BY <1>1, OfficeAssumption DEF ClerksBegin, Clerks
<1>3. money \in [Customers -> Nat]
  BY <1>1, OfficeAssumption DEF CustomersBegin
<1>4. IsFiniteSet(Customers) /\ 0 \in Customers /\ 0 \in 0 .. 4 * CustomerCount /\ 0 \in 0 .. MaxMessUps
  BY OfficeAssumption, FS_Interval DEF Customers
<1>5. brought \in Nat /\ brought = Total(money)
  <2>1. SumOver(money, Customers) \in Nat /\ DOMAIN money = Customers
    BY <1>3, <1>4, SumOfNats
  <2> QED BY <2>1, TotalIs DEF OfficeInit, BooksBegin
<1>6. OfficeIsFixed
  BY <1>2, <1>5 DEF OfficeIsFixed
<1>7. OfficeTypeOK
  <2>1. ClerkTypesOK
    BY <1>1, <1>2 DEF ClerkTypesOK, ClerksBegin, ClerkPlaces
  <2>2. CustomerTypesOK
    BY <1>1 DEF CustomerTypesOK, CustomersBegin, CustomerPlaces
  <2>3. QueueTypesOK
    <3>1. << >> \in Seq(Customers) /\ << >> \in Seq(Threads)
      OBVIOUS
    <3> QED BY <1>1, <1>4, <3>1 DEF QueueTypesOK, OfficeInit, LinesBegin, ClerksBegin
  <2>4. CountTypesOK
    BY DEF CountTypesOK, OfficeInit, LinesBegin
  <2>5. AttributeTypesOK
    BY <1>1, <1>2, <1>4 DEF AttributeTypesOK, OfficeInit, CustomersBegin
  <2>6. MoneyTypesOK
    BY <1>1, <1>3, <1>5 DEF MoneyTypesOK, OfficeInit, ClerksBegin, BooksBegin
  <2>7. ManagerTypesOK
    BY <1>4 DEF ManagerTypesOK, OfficeInit, ManagerPlaces
  <2> QED BY <2>1, <2>2, <2>3, <2>4, <2>5, <2>6, <2>7, TypesInGroups
<1>8. LinesAreReal
  BY <1>1 DEF LinesAreReal, CustomersBegin
<1>9. CountsAreExact
  <2>1. \A k \in Clerks : InLine(k, TRUE) = {} /\ InLine(k, FALSE) = {}
    BY <1>1 DEF InLine, CustomersBegin
  <2>2. \A k \in Clerks : clerkLineCount[k] = 0 /\ clerkBribeLineCount[k] = 0
    BY DEF OfficeInit, LinesBegin
  <2> QED BY <2>1, <2>2, FS_EmptySet DEF CountsAreExact
<1>10. SalesAreKept
  <2>1. \A c \in Customers : customerPlace[c] = "arrive" /\ left[c] = money[c] /\ money[c] \in Nat
    BY <1>1, <1>3 DEF CustomersBegin, OfficeInit, BooksBegin
  <2>2. \A k \in Clerks : clerkPlace[k] \in {"choose", "break"} /\ clerkMoney[k] = 0 /\ sold[k] = 0
    BY <1>1, <1>2 DEF ClerksBegin, OfficeInit, BooksBegin
  <2> QED BY <2>1, <2>2 DEF SalesAreKept
<1>11. PassportsAreOut
  BY DEF PassportsAreOut, OfficeInit
<1> QED BY <1>6, <1>7, <1>8, <1>9, <1>10, <1>11 DEF UserInv

LEMMA OfficeKeepsOn ==
  ASSUME UserInv, [OfficeNext]_officeVars
  PROVE  UserInv'
<1>1. OfficeTypeOK'
  <2>1. OfficeTypeOK /\ OfficeIsFixed /\ Clerks' = Clerks
    BY OfficeStaysFixed DEF UserInv
  <2>2. CASE OfficeOver \/ UNCHANGED officeVars
    BY <2>1, <2>2 DEF OfficeOver, OfficeTypeOK, Threads, Self
  <2> QED BY <2>1, <2>2, ClerkTypesKept, CustomerTypesKept, ManagerTypesKept DEF OfficeNext
<1>2. OfficeIsFixed'
  BY OfficeStaysFixed DEF UserInv
<1> QED BY <1>1, <1>2, OfficeLinesKept, OfficeSalesKept, OfficePassportsKept DEF UserInv

----------------------------------------------------------------------------
(***************************************************************************)
(* The programs for kernel threads.                                        *)
(***************************************************************************)
KernelMoneyTypes ==
  /\ clerkMoney \in [Clerks -> Int] /\ money \in [Customers -> Int]
KernelLineTypes ==
  /\ DOMAIN myLine = Customers /\ bribe \in [Customers -> BOOLEAN]
  /\ clerkLineCount \in [Clerks -> Nat] /\ clerkBribeLineCount \in [Clerks -> Nat]

\* The clerks are there in the order of their types.
ClerksAreInOrder ==
  /\ \E k \in 1 .. 4 : clerkArray[k] # 0
  /\ clerkArray \in [1 .. 4 -> Nat]
  /\ \E first \in Nat : clerkTypes = ClerkThreads(first, clerkArray)

\* A clerk that waits for the senator, and one that has been called, until it
\* is at its counter.
WaitsForSenator(k) == clerkPlace[k] = "forSenator" /\ IsIn(clerkSenatorCV[k], Self(k))
IsCalled(k) ==
  \/ clerkPlace[k] \in {"toSenator", "counter"}
  \/ clerkPlace[k] = "forSenator" /\ ~IsIn(clerkSenatorCV[k], Self(k))
LastCandidate == CHOOSE j \in Candidates(Senator) : \A i \in Candidates(Senator) : i <= j

\* No clerk knows of the senator before it comes.
SenatorIsOut ==
  /\ senatorLineCount = 0
  /\ \A k \in Clerks : /\ clerkSenatorCV[k] = << >>
                       /\ clerkPlace[k] \notin {"senator", "forSenator", "toSenator"}

\* The clerks up to j wait for the senator, j perhaps not yet; it has the locks
\* of the others.
SenatorAsks(j) ==
  /\ senatorLineCount = 1 /\ j \in Clerks
  /\ \A k \in Clerks :
       /\ k < j => WaitsForSenator(k)
       /\ k # j => clerkSenatorCVLock[k] = Senator
       /\ k > j => clerkSenatorCV[k] = << >> /\ clerkPlace[k] \notin {"forSenator", "toSenator"}
  /\ \/ clerkSenatorCV[j] = <<Senator>> /\ clerkPlace[j] \notin {"forSenator", "toSenator"}
     \/ WaitsForSenator(j) /\ ~IsIn(clerkSenatorCV[j], Senator)

\* One clerk at most has been called, the last that can do something now.
SenatorIsServed ==
  /\ senatorLineCount = 1
  /\ \A k \in Clerks :
       /\ clerkPlace[k] \in {"top", "senator", "forSenator", "toSenator", "counter", "signOff"}
       /\ IsCalled(k) => k = myLine[Senator] /\ k = LastCandidate

SenatorInv ==
  HasSenator =>
    /\ customerPlace[Senator] \in {"arrive", "confirm", "visit", "served", "gone"}
    /\ customerPlace[Senator] = "arrive" => SenatorIsOut
    /\ customerPlace[Senator] = "confirm" => SenatorAsks(myLine[Senator])
    /\ customerPlace[Senator] \in {"visit", "served"} => SenatorIsServed

KernelInv ==
  /\ version \in {"threadtest", "properTestfile"}
  /\ KernelTypeOK /\ KernelMoneyTypes /\ KernelLineTypes /\ reached \in [Customers -> SUBSET Stages]
  /\ OfficeIsFixed /\ ClerksAreInOrder
  /\ LinesAreReal /\ CountsAreExact
  /\ AllMoneyIsThere
  /\ PassportsAreOut
  /\ SenatorInv

USE DEF programVars, senatorVars, kernelVars, officeKernelVars

\* Every step of a kernel program leaves its clerks and the money brought as
\* they are.
LEMMA KernelStaysFixed ==
  ASSUME OfficeIsFixed, [KernelOfficeNext]_officeKernelVars
  PROVE  /\ UNCHANGED <<fixedVars, programVars, allCustomersAreDone>>
         /\ OfficeIsFixed' /\ Clerks' = Clerks /\ Threads' = Threads
<1>1. ASSUME NEW k \in Clerks, KernelClerkStep(k)
      PROVE  UNCHANGED <<fixedVars, programVars, allCustomersAreDone>>
  BY <1>1 DEF KernelClerkStep, LookForSenator, TakeFromBribeLine, TakeFromLine, TakeABreak, TestState,
     StandAtCounter, NextInLine, AnswerSenator, CalledBySenator, SenatorHasLeft, StandForSenator,
     TakesApplication, TakesPicture, Certifies, Sells, SendsBack
<1>2. ASSUME NEW c \in People, KernelCustomerStep(c)
      PROVE  UNCHANGED <<fixedVars, programVars, allCustomersAreDone>>
  BY <1>2 DEF KernelCustomerStep, LookForSenators, WaitOutside, EnterStraight, EnterLine, EnterBribeLine, EnterBribeLineWith,
     LeaveTheLine, LeaveLine, ApproachClerk, Approach, LeaveClerk, LeaveCounter
<1>3. ASSUME SenatorStep  PROVE UNCHANGED <<fixedVars, programVars, allCustomersAreDone>>
  BY <1>3 DEF SenatorStep, SenatorArrives, Confirmed, AllConfirmed, SenatorApproaches, SenatorGoesOn,
     SenatorLeaves
<1>4. ASSUME KernelCountLines \/ CountPassports \/ CheckProgress
      PROVE  UNCHANGED <<fixedVars, programVars, allCustomersAreDone>>
  BY <1>4 DEF KernelCountLines, CountPassports, CheckProgress
<1>a. ASSUME UNCHANGED officeKernelVars  PROVE UNCHANGED <<fixedVars, programVars, allCustomersAreDone>>
  BY <1>a
<1>b. ASSUME OfficeOver /\ UNCHANGED kernelVars  PROVE UNCHANGED <<fixedVars, programVars, allCustomersAreDone>>
  BY <1>b DEF OfficeOver
<1>5. UNCHANGED <<fixedVars, programVars, allCustomersAreDone>>
  BY <1>1, <1>2, <1>3, <1>4, <1>a, <1>b DEF KernelOfficeNext
<1>6. Clerks' = Clerks
  BY <1>5 DEF Clerks
<1> QED BY <1>5, <1>6 DEF OfficeIsFixed, Threads, Self

\* A step keeps the types.
KernelClerkTypes == clerkPlace \in [Clerks -> KernelClerkPlaces]
KernelCustomerTypes == customerPlace \in [Customers -> KernelCustomerPlaces]
KernelQueueTypes ==
  /\ clerkLineLock \in {Self(k) : k \in Clerks} \cup {NoCustomer}
  /\ outsideLineCV \in Seq(Customers)
KernelSenatorTypes ==
  /\ senatorLineCount \in 0 .. 1
  /\ clerkSenatorCV \in [Clerks -> Seq(Threads)]
  /\ clerkSenatorCVLock \in [Clerks -> Threads \cup {NoCustomer}]
  /\ clerkLock \subseteq Clerks

KernelTypes ==
  /\ KernelClerkTypes /\ KernelCustomerTypes /\ KernelQueueTypes /\ KernelSenatorTypes
  /\ KernelMoneyTypes /\ KernelLineTypes /\ reached \in [Customers -> SUBSET Stages]

LEMMA KernelTypesInGroups ==
  /\ KernelTypeOK <=> KernelClerkTypes /\ KernelCustomerTypes /\ KernelQueueTypes /\ KernelSenatorTypes
  /\ KernelTypeOK' <=> KernelClerkTypes' /\ KernelCustomerTypes' /\ KernelQueueTypes' /\ KernelSenatorTypes'
BY DEF KernelTypeOK, KernelClerkTypes, KernelCustomerTypes, KernelQueueTypes, KernelSenatorTypes

LEMMA MessesUpOrReaches ==
  ASSUME reached \in [Customers -> SUBSET Stages], NEW c \in Customers, NEW stage \in Stages,
         MessesUpOr(c, stage)
  PROVE  reached' \in [Customers -> SUBSET Stages] /\ \A d \in Customers : reached[d] \subseteq reached'[d]
BY DEF MessesUpOr, Reaches

LEMMA KernelClerkTypesKept ==
  ASSUME OfficeIsFixed, KernelTypes, NEW k \in Clerks, KernelClerkStep(k)
  PROVE  KernelTypes'
<1>1. UNCHANGED fixedVars /\ Clerks' = Clerks /\ Threads' = Threads /\ Self(k) \in Threads
      /\ Self(k) \in {Self(j) : j \in Clerks}
  BY KernelStaysFixed DEF KernelOfficeNext, Threads
<1>2. {Self(j) : j \in Clerks}' = {Self(j) : j \in Clerks}
  BY <1>1 DEF Self
<1>3. KernelClerkTypes'
  BY <1>1 DEF KernelTypes, KernelClerkTypes, KernelClerkPlaces, KernelClerkStep, LookForSenator,
     TakeFromBribeLine, TakeFromLine, TakeABreak, TestState, StandAtCounter, NextInLine, AnswerSenator,
     CalledBySenator, SenatorHasLeft, StandForSenator, TakesApplication, TakesPicture, Certifies, Sells,
     SendsBack, GoToCounter, Works, SignOff
<1>4. KernelCustomerTypes' /\ KernelLineTypes'
  BY <1>1 DEF KernelTypes, KernelCustomerTypes, KernelLineTypes, KernelClerkStep, LookForSenator,
     TakeFromBribeLine, TakeFromLine, TakeABreak, TestState, StandAtCounter, NextInLine, AnswerSenator,
     CalledBySenator, SenatorHasLeft, StandForSenator, TakesApplication, TakesPicture, Certifies, Sells,
     SendsBack
<1>5. KernelQueueTypes'
  <2>1. outsideLineCV' = outsideLineCV /\ clerkLineLock' \in {clerkLineLock, Self(k), NoCustomer}
    BY DEF KernelClerkStep, LookForSenator,
     TakeFromBribeLine, TakeFromLine, TakeABreak, TestState, StandAtCounter, NextInLine, AnswerSenator,
     CalledBySenator, SenatorHasLeft, StandForSenator, TakesApplication, TakesPicture, Certifies, Sells,
     SendsBack
  <2> QED BY <1>1, <1>2, <2>1 DEF KernelTypes, KernelQueueTypes
<1>6. KernelSenatorTypes'
  <2>1. CASE AnswerSenator(k)
    <3>1. Append(TailOf(clerkSenatorCV[k]), Self(k)) \in Seq(Threads)
      BY <1>1, QueueMoves DEF KernelTypes, KernelSenatorTypes
    <3> QED BY <1>1, <2>1, <3>1 DEF KernelTypes, KernelSenatorTypes, AnswerSenator
  <2>2. CASE CalledBySenator(k)
    BY <1>1, <2>2 DEF KernelTypes, KernelSenatorTypes, CalledBySenator
  <2>3. CASE StandForSenator(k)
    <3>1. TailOf(clerkSenatorCV[k]) \in Seq(Threads)
      BY <1>1, QueueMoves DEF KernelTypes, KernelSenatorTypes
    <3> QED BY <1>1, <2>3, <3>1 DEF KernelTypes, KernelSenatorTypes, StandForSenator
  <2>4. CASE UNCHANGED senatorVars
    BY <1>1, <2>4 DEF KernelTypes, KernelSenatorTypes
  <2> QED BY <2>1, <2>2, <2>3, <2>4 DEF KernelClerkStep, LookForSenator,
     TakeFromBribeLine, TakeFromLine, TakeABreak, TestState, StandAtCounter, NextInLine,
     SenatorHasLeft, TakesApplication, TakesPicture, Certifies, Sells, SendsBack
<1>7. KernelMoneyTypes'
  <2>1. CASE \E c \in Customers : Sells(k, c)
    BY <1>1, <2>1 DEF KernelTypes, KernelMoneyTypes, Sells
  <2>2. CASE UNCHANGED moneyVars
    BY <1>1, <2>2 DEF KernelTypes, KernelMoneyTypes
  <2> QED BY <2>1, <2>2 DEF KernelClerkStep, LookForSenator,
     TakeFromBribeLine, TakeFromLine, TakeABreak, TestState, StandAtCounter, NextInLine, AnswerSenator,
     CalledBySenator, SenatorHasLeft, StandForSenator, TakesApplication, TakesPicture, Certifies, SendsBack
<1>8. reached' \in [Customers -> SUBSET Stages]
  <2>1. ASSUME NEW c \in Customers, Certifies(k, c) \/ Sells(k, c)  PROVE reached' \in [Customers -> SUBSET Stages]
    BY <2>1, MessesUpOrReaches DEF KernelTypes, Certifies, Sells, Stages
  <2>2. ASSUME NEW c \in Customers, TakesApplication(k, c) \/ TakesPicture(k, c)
        PROVE  reached' \in [Customers -> SUBSET Stages]
    BY <2>2 DEF KernelTypes, TakesApplication, TakesPicture, Reaches, Stages
  <2>3. CASE UNCHANGED reached
    BY <2>3 DEF KernelTypes
  <2> QED BY <2>1, <2>2, <2>3 DEF KernelClerkStep, LookForSenator,
     TakeFromBribeLine, TakeFromLine, TakeABreak, TestState, StandAtCounter, NextInLine, AnswerSenator,
     CalledBySenator, SenatorHasLeft, StandForSenator, SendsBack
<1> QED BY <1>3, <1>4, <1>5, <1>6, <1>7, <1>8 DEF KernelTypes

LEMMA KernelCustomerTypesKept ==
  ASSUME OfficeIsFixed, KernelTypes, LinesAreReal, CountsAreExact, NEW c \in People, KernelCustomerStep(c)
  PROVE  KernelTypes'
<1>1. UNCHANGED fixedVars /\ Clerks' = Clerks /\ Threads' = Threads /\ c \in Customers
  BY KernelStaysFixed DEF KernelOfficeNext, People
<1>2. {Self(j) : j \in Clerks}' = {Self(j) : j \in Clerks}
  BY <1>1 DEF Self
<1>3. KernelClerkTypes' /\ KernelSenatorTypes' /\ reached' \in [Customers -> SUBSET Stages]
  BY <1>1 DEF KernelTypes, KernelClerkTypes, KernelSenatorTypes, KernelCustomerStep, LookForSenators, WaitOutside,
     EnterStraight, EnterLine, EnterBribeLine, EnterBribeLineWith, LeaveTheLine, LeaveLine, ApproachClerk, Approach, LeaveClerk,
     LeaveCounter
<1>4. KernelCustomerTypes'
  <2>1. \E place \in KernelCustomerPlaces : customerPlace' = [customerPlace EXCEPT ![c] = place]
    BY DEF KernelCustomerPlaces, KernelCustomerStep, LookForSenators, WaitOutside,
       EnterStraight, EnterLine, EnterBribeLine, EnterBribeLineWith, LeaveTheLine, LeaveLine, ApproachClerk, Approach, LeaveClerk,
       LeaveCounter
  <2> QED BY <1>1, <2>1 DEF KernelTypes, KernelCustomerTypes
<1>5. KernelQueueTypes'
  <2>1. clerkLineLock' = clerkLineLock /\ outsideLineCV' \in {outsideLineCV, Append(outsideLineCV, c)}
    BY DEF KernelCustomerStep, LookForSenators, WaitOutside,
       EnterStraight, EnterLine, EnterBribeLine, EnterBribeLineWith, LeaveTheLine, LeaveLine, ApproachClerk, Approach, LeaveClerk,
       LeaveCounter
  <2>2. Append(outsideLineCV, c) \in Seq(Customers)
    BY <1>1, QueueMoves DEF KernelTypes, KernelQueueTypes
  <2> QED BY <1>1, <1>2, <2>1, <2>2 DEF KernelTypes, KernelQueueTypes
<1>6. KernelMoneyTypes'
  <2>1. CASE \E k \in Clerks : EnterBribeLine(c, k)
    BY <1>1, <2>1 DEF KernelTypes, KernelMoneyTypes, EnterBribeLine, EnterBribeLineWith
  <2>2. CASE UNCHANGED moneyVars
    BY <1>1, <2>2 DEF KernelTypes, KernelMoneyTypes
  <2>3. CASE \E k \in Clerks : EnterStraight(c, k) \/ EnterLine(c, k)
    BY <2>2, <2>3 DEF EnterStraight, EnterLine
  <2>4. CASE LookForSenators(c) \/ WaitOutside(c) \/ LeaveTheLine(c)
    BY <2>2, <2>4 DEF LookForSenators, WaitOutside, LeaveTheLine, LeaveLine
  <2>5. CASE ApproachClerk(c) \/ LeaveClerk(c)
    BY <2>2, <2>5 DEF ApproachClerk, Approach, LeaveClerk, LeaveCounter
  <2> QED BY <2>1, <2>3, <2>4, <2>5, Zenon DEF KernelCustomerStep
<1>7. DOMAIN myLine' = Customers
  BY <1>1 DEF KernelTypes, KernelLineTypes, KernelCustomerStep, LookForSenators, WaitOutside,
     EnterStraight, EnterLine, EnterBribeLine, EnterBribeLineWith, Chooses, LeaveTheLine, LeaveLine, ApproachClerk, Approach, LeaveClerk,
     LeaveCounter
<1>8. bribe' \in [Customers -> BOOLEAN]
  <2>1. bribe' \in {bribe, [bribe EXCEPT ![c] = TRUE], [bribe EXCEPT ![c] = FALSE]}
    BY DEF KernelCustomerStep, LookForSenators, WaitOutside,
     EnterStraight, EnterLine, EnterBribeLine, EnterBribeLineWith, LeaveTheLine, LeaveLine, ApproachClerk, Approach, LeaveClerk,
     LeaveCounter
  <2> QED BY <1>1, <2>1 DEF KernelTypes, KernelLineTypes
<1>9. clerkLineCount' \in [Clerks -> Nat] /\ clerkBribeLineCount' \in [Clerks -> Nat]
  <2>1. CASE LeaveTheLine(c)
    <3>1. CountsAreExact'
      BY <1>1, <2>1, LeaveLineKeepsCounts DEF LeaveTheLine, KernelTypes, KernelLineTypes, KernelCustomerTypes
    <3>2. \A k \in Clerks : /\ Cardinality(InLine(k, FALSE)') \in Nat
                            /\ Cardinality(InLine(k, TRUE)') \in Nat
      BY ThreadNumbers, FS_Subset, FS_CardinalityType DEF InLine
    <3>3. \A k \in Clerks : clerkLineCount'[k] \in Nat /\ clerkBribeLineCount'[k] \in Nat
      BY <1>1, <3>1, <3>2, Zenon DEF CountsAreExact
    <3>4. /\ clerkLineCount' = [k \in Clerks |-> clerkLineCount'[k]]
          /\ clerkBribeLineCount' = [k \in Clerks |-> clerkBribeLineCount'[k]]
      BY <2>1 DEF LeaveTheLine, LeaveLine, KernelTypes, KernelLineTypes
    <3> QED BY <3>3, <3>4
  <2>2. ASSUME NEW k \in Clerks, EnterLine(c, k) \/ EnterBribeLine(c, k)
        PROVE  clerkLineCount' \in [Clerks -> Nat] /\ clerkBribeLineCount' \in [Clerks -> Nat]
    <3>1. CASE EnterLine(c, k)
      BY <1>1, <3>1 DEF KernelTypes, KernelLineTypes, EnterLine
    <3>2. CASE EnterBribeLine(c, k)
      BY <1>1, <3>2 DEF KernelTypes, KernelLineTypes, EnterBribeLine, EnterBribeLineWith
    <3> QED BY <2>2, <3>1, <3>2
  <2>3. CASE UNCHANGED <<clerkLineCount, clerkBribeLineCount>>
    BY <1>1, <2>3 DEF KernelTypes, KernelLineTypes
  <2> QED BY <2>1, <2>2, <2>3 DEF KernelCustomerStep, LookForSenators, WaitOutside, EnterStraight,
     ApproachClerk, Approach, LeaveClerk, LeaveCounter
<1> QED BY <1>3, <1>4, <1>5, <1>6, <1>7, <1>8, <1>9, <1>1 DEF KernelTypes, KernelLineTypes

LEMMA SenatorIsCustomer ==
  /\ Senator \in Customers /\ Senator \in Nat /\ Senator # NoCustomer /\ NoCustomer \notin Int
  /\ Senator \in Threads
BY OfficeAssumption DEF Senator, Customers, Threads

LEMMA SenatorTypesKept ==
  ASSUME OfficeIsFixed, KernelTypes, SenatorStep
  PROVE  KernelTypes'
<1>1. UNCHANGED fixedVars /\ Clerks' = Clerks /\ Threads' = Threads
  BY KernelStaysFixed DEF KernelOfficeNext
<1>2. {Self(j) : j \in Clerks}' = {Self(j) : j \in Clerks}
  BY <1>1 DEF Self
<1> USE SenatorIsCustomer
<1>3. KernelClerkTypes' /\ KernelMoneyTypes' /\ reached' \in [Customers -> SUBSET Stages]
  BY <1>1 DEF KernelTypes, KernelClerkTypes, KernelMoneyTypes, SenatorStep, SenatorArrives, Confirmed, AllConfirmed,
     SenatorApproaches, SenatorGoesOn, SenatorLeaves
<1>4. KernelLineTypes'
  <2>1. UNCHANGED <<bribe, clerkLineCount, clerkBribeLineCount>>
    BY DEF SenatorStep, SenatorArrives, Confirmed, AllConfirmed, SenatorApproaches, SenatorGoesOn, SenatorLeaves
  <2>2. myLine' = myLine \/ \E k : myLine' = [myLine EXCEPT ![Senator] = k]
    BY DEF SenatorStep, SenatorArrives, Confirmed, AllConfirmed, SenatorApproaches, SenatorGoesOn, SenatorLeaves, Visit
  <2> QED BY <1>1, <2>1, <2>2 DEF KernelTypes, KernelLineTypes
<1>5. KernelCustomerTypes'
  <2>1. customerPlace' = customerPlace
        \/ \E place \in KernelCustomerPlaces : customerPlace' = [customerPlace EXCEPT ![Senator] = place]
    BY DEF SenatorStep, SenatorArrives, Confirmed, AllConfirmed, SenatorApproaches, SenatorGoesOn, SenatorLeaves,
       Visit, KernelCustomerPlaces
  <2> QED BY <1>1, <2>1 DEF KernelTypes, KernelCustomerTypes
<1>6. KernelQueueTypes'
  <2>1. clerkLineLock' = clerkLineLock /\ outsideLineCV' \in {outsideLineCV, << >>}
    BY DEF SenatorStep, SenatorArrives, Confirmed, AllConfirmed, SenatorApproaches, SenatorGoesOn, SenatorLeaves
  <2>2. outsideLineCV \in Seq(Customers) /\ << >> \in Seq(Customers)
    BY DEF KernelTypes, KernelQueueTypes
  <2> QED BY <1>1, <1>2, <2>1, <2>2 DEF KernelTypes, KernelQueueTypes
<1>7. KernelSenatorTypes'
  <2>1. \A q \in Seq(Threads) : /\ Append(q, Senator) \in Seq(Threads) /\ TailOf(q) \in Seq(Threads)
                                /\ Append(TailOf(q), Senator) \in Seq(Threads)
    BY QueueMoves
  <2>2. ASSUME NEW locks \in [Clerks -> Threads \cup {NoCustomer}], Visit(locks)
        PROVE  /\ clerkSenatorCV' \in [Clerks -> Seq(Threads)]
               /\ clerkSenatorCVLock' \in [Clerks -> Threads \cup {NoCustomer}]
    <3>1. PICK k : /\ clerkSenatorCV' = [clerkSenatorCV EXCEPT ![k] = Append(TailOf(@), Senator)]
                   /\ clerkSenatorCVLock' = [locks EXCEPT ![k] = IF @ = Senator THEN NoCustomer ELSE @]
      BY <2>2 DEF Visit
    <3>2. clerkSenatorCV \in [Clerks -> Seq(Threads)]
      BY DEF KernelTypes, KernelSenatorTypes
    <3>3. CASE k \in Clerks
      BY <2>1, <3>1, <3>2, <3>3
    <3>4. CASE k \notin Clerks
      BY <3>1, <3>2, <3>4
    <3> QED BY <3>3, <3>4
  <2>3. CASE SenatorArrives
    <3>1. PICK k : /\ clerkSenatorCVLock' = [j \in Clerks |-> IF j = k THEN NoCustomer ELSE Senator]
                   /\ clerkSenatorCV' = [clerkSenatorCV EXCEPT ![k] = Append(@, Senator)]
      BY <2>3 DEF SenatorArrives
    <3>2. clerkSenatorCV \in [Clerks -> Seq(Threads)] /\ clerkLock \subseteq Clerks
      BY DEF KernelTypes, KernelSenatorTypes
    <3>3. senatorLineCount' = 1 /\ clerkLock' = clerkLock
      BY <2>3 DEF SenatorArrives
    <3>4. clerkSenatorCV' \in [Clerks -> Seq(Threads)]
      <4>1. CASE k \in Clerks
        BY <2>1, <3>1, <3>2, <4>1
      <4>2. CASE k \notin Clerks
        BY <3>1, <3>2, <4>2
      <4> QED BY <4>1, <4>2
    <3> QED BY <1>1, <3>1, <3>2, <3>3, <3>4 DEF KernelSenatorTypes
  <2>4. ASSUME NEW k \in Clerks, Confirmed(k)  PROVE KernelSenatorTypes'
    BY <1>1, <2>1, <2>4 DEF KernelTypes, KernelSenatorTypes, Confirmed
  <2>5. ASSUME NEW k \in Clerks, AllConfirmed(k)  PROVE KernelSenatorTypes'
    <3>1. [clerkSenatorCVLock EXCEPT ![k] = Senator] \in [Clerks -> Threads \cup {NoCustomer}]
      BY DEF KernelTypes, KernelSenatorTypes
    <3>2. UNCHANGED <<senatorLineCount, clerkLock>>
      BY <2>5 DEF AllConfirmed
    <3>3. Visit([clerkSenatorCVLock EXCEPT ![k] = Senator])
      BY <2>5 DEF AllConfirmed
    <3> QED BY <1>1, <2>2, <3>1, <3>2, <3>3 DEF KernelTypes, KernelSenatorTypes
  <2>6. ASSUME NEW k \in Clerks, SenatorApproaches(k)  PROVE KernelSenatorTypes'
    BY <1>1, <2>6 DEF KernelTypes, KernelSenatorTypes, SenatorApproaches
  <2>7. ASSUME NEW k \in Clerks, SenatorGoesOn(k)  PROVE KernelSenatorTypes'
    <3>1. clerkSenatorCVLock \in [Clerks -> Threads \cup {NoCustomer}]
      BY DEF KernelTypes, KernelSenatorTypes
    <3>2. senatorLineCount' = senatorLineCount /\ clerkLock' = clerkLock \cup {k} /\ Visit(clerkSenatorCVLock)
      BY <2>7 DEF SenatorGoesOn
    <3> QED BY <1>1, <2>2, <3>1, <3>2 DEF KernelTypes, KernelSenatorTypes
  <2>8. ASSUME NEW k \in Clerks, SenatorLeaves(k)  PROVE KernelSenatorTypes'
    BY <1>1, <2>1, <2>8 DEF KernelTypes, KernelSenatorTypes, SenatorLeaves
  <2> QED BY <2>3, <2>4, <2>5, <2>6, <2>7, <2>8 DEF SenatorStep
<1> QED BY <1>3, <1>4, <1>5, <1>6, <1>7 DEF KernelTypes

LEMMA KernelManagerTypesKept ==
  ASSUME OfficeIsFixed, KernelTypes, KernelCountLines \/ CountPassports \/ CheckProgress
  PROVE  KernelTypes'
<1>1. UNCHANGED fixedVars /\ Clerks' = Clerks /\ Threads' = Threads
  BY KernelStaysFixed DEF KernelOfficeNext
<1>2. {Self(j) : j \in Clerks}' = {Self(j) : j \in Clerks}
  BY <1>1 DEF Self
<1>3. KernelClerkTypes'
  BY <1>1 DEF KernelTypes, KernelClerkTypes, KernelClerkPlaces, KernelCountLines, CountPassports, CheckProgress, WakeUpClerks
<1>4. UNCHANGED <<customerVars, lineVars, kernelVars, moneyVars, attributeVars>>
  BY DEF KernelCountLines, CountPassports, CheckProgress
<1> QED BY <1>1, <1>2, <1>3, <1>4 DEF KernelTypes, KernelCustomerTypes, KernelQueueTypes, KernelSenatorTypes,
           KernelMoneyTypes, KernelLineTypes

LEMMA KernelTypesKept ==
  ASSUME KernelInv, [KernelOfficeNext]_officeKernelVars
  PROVE  KernelTypes' /\ OfficeIsFixed' /\ ClerksAreInOrder'
<1>1. OfficeIsFixed /\ KernelTypes /\ LinesAreReal /\ CountsAreExact /\ ClerksAreInOrder
  BY KernelTypesInGroups DEF KernelInv, KernelTypes
<1>2. /\ UNCHANGED <<fixedVars, programVars>> /\ OfficeIsFixed' /\ Clerks' = Clerks /\ Threads' = Threads
  BY <1>1, KernelStaysFixed
<1>3. ASSUME (OfficeOver /\ UNCHANGED kernelVars) \/ UNCHANGED officeKernelVars  PROVE KernelTypes'
  <2>1. UNCHANGED officeKernelVars
    BY <1>3 DEF OfficeOver
  <2>2. {Self(j) : j \in Clerks}' = {Self(j) : j \in Clerks}
    BY <1>2 DEF Self
  <2> QED BY <1>1, <1>2, <2>1, <2>2 DEF KernelTypes, KernelClerkTypes, KernelCustomerTypes, KernelQueueTypes,
             KernelSenatorTypes, KernelMoneyTypes, KernelLineTypes
<1>4. KernelTypes'
  BY <1>1, <1>3, KernelClerkTypesKept, KernelCustomerTypesKept, SenatorTypesKept, KernelManagerTypesKept
     DEF KernelOfficeNext
<1>5. ClerksAreInOrder'
  BY <1>1, <1>2 DEF ClerksAreInOrder
<1> QED BY <1>2, <1>4, <1>5

----------------------------------------------------------------------------
LEMMA KernelLinesKept ==
  ASSUME KernelInv, [KernelOfficeNext]_officeKernelVars
  PROVE  LinesAreReal' /\ CountsAreExact'
<1>1. /\ Clerks' = Clerks /\ OfficeIsFixed /\ CountsAreExact /\ LinesAreReal
      /\ clerkLineCount \in [Clerks -> Nat] /\ clerkBribeLineCount \in [Clerks -> Nat]
      /\ customerPlace \in [Customers -> KernelCustomerPlaces] /\ bribe \in [Customers -> BOOLEAN]
      /\ DOMAIN myLine = Customers
  BY KernelStaysFixed DEF KernelInv, KernelTypeOK, KernelLineTypes
<1>2. ASSUME UNCHANGED <<bribe, clerkLineCount, clerkBribeLineCount>>,
             \A c \in Customers : /\ customerPlace'[c] = "line" <=> customerPlace[c] = "line"
                                  /\ customerPlace'[c] \notin BriberPlaces
                                  /\ customerPlace[c] = "line" => myLine'[c] = myLine[c]
      PROVE  LinesAreReal' /\ CountsAreExact'
  <2>1. CountsAreExact'
    BY <1>1, <1>2, CountsStay
  <2>2. LinesAreReal'
    BY <1>1, <1>2 DEF LinesAreReal, BriberPlaces
  <2> QED BY <2>1, <2>2
<1>3. \A c \in Customers : customerPlace[c] \notin BriberPlaces
  BY <1>1 DEF KernelCustomerPlaces, BriberPlaces
<1>4. ASSUME UNCHANGED <<customerVars, clerkLineCount, clerkBribeLineCount>>
      PROVE  LinesAreReal' /\ CountsAreExact'
  BY <1>2, <1>3, <1>4
<1>5. ASSUME NEW c \in People, KernelCustomerStep(c)  PROVE LinesAreReal' /\ CountsAreExact'
  <2>0. c \in Customers
    BY DEF People
  <2>1. ASSUME \/ LookForSenators(c) \/ WaitOutside(c) \/ ApproachClerk(c) \/ LeaveClerk(c)
               \/ \E k \in Clerks : EnterStraight(c, k)
        PROVE  LinesAreReal' /\ CountsAreExact'
    <3>1. UNCHANGED <<bribe, clerkLineCount, clerkBribeLineCount>> /\ customerPlace[c] # "line"
      BY <2>1 DEF LookForSenators, WaitOutside, ApproachClerk, Approach, LeaveClerk, LeaveCounter, EnterStraight, Chooses
    <3>2. \E place \in KernelCustomerPlaces \ {"line"} : customerPlace' = [customerPlace EXCEPT ![c] = place]
      BY <2>1 DEF LookForSenators, WaitOutside, ApproachClerk, Approach, LeaveClerk, LeaveCounter, EnterStraight,
         KernelCustomerPlaces
    <3>3. \A d \in Customers \ {c} : myLine'[d] = myLine[d]
      BY <1>1, <2>1 DEF LookForSenators, WaitOutside, ApproachClerk, Approach, LeaveClerk, LeaveCounter, EnterStraight, Chooses
    <3>4. \A d \in Customers : /\ customerPlace'[d] = "line" <=> customerPlace[d] = "line"
                               /\ customerPlace'[d] \notin BriberPlaces
                               /\ customerPlace[d] = "line" => myLine'[d] = myLine[d]
      BY <1>1, <2>0, <3>1, <3>2, <3>3 DEF KernelCustomerPlaces, BriberPlaces
    <3> QED BY <1>2, <3>1, <3>4
  <2>2. ASSUME NEW k \in Clerks, EnterLine(c, k)  PROVE LinesAreReal' /\ CountsAreExact'
    <3>1. /\ clerkLineCount' = [clerkLineCount EXCEPT ![k] = @ + 1] /\ myLine' = [myLine EXCEPT ![c] = k]
          /\ customerPlace[c] # "line" /\ customerPlace' = [customerPlace EXCEPT ![c] = "line"]
          /\ UNCHANGED <<bribe, clerkBribeLineCount>>
      BY <2>2 DEF EnterLine, Chooses
    <3>2. bribe[c] = FALSE
      BY <1>1, <2>0, <3>1 DEF LinesAreReal
    <3>3. /\ customerPlace'[c] = "line" /\ myLine'[c] = k /\ bribe'[c] = FALSE
          /\ \A d \in Customers \ {c} : /\ customerPlace'[d] = customerPlace[d]
                                        /\ myLine'[d] = myLine[d] /\ bribe'[d] = bribe[d]
      BY <1>1, <2>0, <3>1, <3>2
    <3>4. CountsAreExact'
      BY <1>1, <2>0, <3>1, <3>3, JoinsRegular
    <3>5. LinesAreReal'
      BY <1>1, <3>3 DEF LinesAreReal
    <3> QED BY <3>4, <3>5
  <2>3. ASSUME NEW k \in Clerks, EnterBribeLine(c, k)  PROVE LinesAreReal' /\ CountsAreExact'
    <3>1. /\ clerkBribeLineCount' = [clerkBribeLineCount EXCEPT ![k] = @ + 1] /\ myLine' = [myLine EXCEPT ![c] = k]
          /\ customerPlace[c] # "line" /\ customerPlace' = [customerPlace EXCEPT ![c] = "line"]
          /\ bribe' = [bribe EXCEPT ![c] = TRUE] /\ UNCHANGED clerkLineCount
      BY <2>3 DEF EnterBribeLine, EnterBribeLineWith, Chooses
    <3>2. /\ customerPlace'[c] = "line" /\ myLine'[c] = k /\ bribe'[c] = TRUE
          /\ \A d \in Customers \ {c} : /\ customerPlace'[d] = customerPlace[d]
                                        /\ myLine'[d] = myLine[d] /\ bribe'[d] = bribe[d]
      BY <1>1, <2>0, <3>1
    <3>3. CountsAreExact'
      BY <1>1, <2>0, <3>1, <3>2, JoinsBribers
    <3>4. LinesAreReal'
      BY <1>1, <3>1, <3>2 DEF LinesAreReal
    <3> QED BY <3>3, <3>4
  <2>4. ASSUME LeaveTheLine(c)  PROVE LinesAreReal' /\ CountsAreExact'
    <3>1. LeaveLine(c)
      BY <2>4 DEF LeaveTheLine
    <3>2. CountsAreExact'
      BY <1>1, <2>0, <3>1, LeaveLineKeepsCounts
    <3>3. LinesAreReal'
      BY <1>1, <3>1 DEF LinesAreReal, LeaveLine
    <3> QED BY <3>2, <3>3
  <2> QED BY <1>5, <2>1, <2>2, <2>3, <2>4 DEF KernelCustomerStep
<1>6. ASSUME SenatorStep  PROVE LinesAreReal' /\ CountsAreExact'
  <2>1. UNCHANGED <<bribe, clerkLineCount, clerkBribeLineCount>> /\ customerPlace[Senator] # "line"
    <3>1. CASE SenatorArrives
      BY <3>1 DEF SenatorArrives
    <3>2. CASE \E k \in Clerks : Confirmed(k) \/ AllConfirmed(k)
      BY <3>2 DEF Confirmed, AllConfirmed, SenatorIsBack
    <3>3. CASE \E k \in Clerks : SenatorApproaches(k)
      BY <3>3 DEF SenatorApproaches, SenatorIsBack
    <3>4. CASE \E k \in Clerks : SenatorGoesOn(k) \/ SenatorLeaves(k)
      BY <3>4 DEF SenatorGoesOn, SenatorLeaves, SenatorServedBy
    <3> QED BY <1>6, <3>1, <3>2, <3>3, <3>4, Zenon DEF SenatorStep
  <2>2. \/ customerPlace' = customerPlace
        \/ \E place \in KernelCustomerPlaces \ {"line"} : customerPlace' = [customerPlace EXCEPT ![Senator] = place]
    BY <1>6 DEF SenatorStep, SenatorArrives, Confirmed, AllConfirmed, SenatorApproaches, SenatorGoesOn, SenatorLeaves,
       KernelCustomerPlaces, Visit
  <2>3. \A d \in Customers \ {Senator} : myLine'[d] = myLine[d]
    <3>1. myLine' = myLine \/ \E k : myLine' = [myLine EXCEPT ![Senator] = k]
      BY <1>6 DEF SenatorStep, SenatorArrives, Confirmed, AllConfirmed, SenatorApproaches, SenatorGoesOn, SenatorLeaves, Visit
    <3> QED BY <1>1, <3>1
  <2>4. \A d \in Customers : /\ customerPlace'[d] = "line" <=> customerPlace[d] = "line"
                             /\ customerPlace'[d] \notin BriberPlaces
                             /\ customerPlace[d] = "line" => myLine'[d] = myLine[d]
    BY <1>1, <2>1, <2>2, <2>3, SenatorIsCustomer DEF KernelCustomerPlaces, BriberPlaces
  <2> QED BY <1>2, <2>1, <2>4
<1>7. ASSUME NEW k \in Clerks, KernelClerkStep(k)  PROVE LinesAreReal' /\ CountsAreExact'
  <2>1. UNCHANGED <<customerVars, clerkLineCount, clerkBribeLineCount>>
    BY <1>7 DEF KernelClerkStep, LookForSenator, TakeFromBribeLine, TakeFromLine, TakeABreak, TestState,
       StandAtCounter, NextInLine, AnswerSenator, CalledBySenator, SenatorHasLeft, StandForSenator,
       TakesApplication, TakesPicture, Certifies, Sells, SendsBack
  <2> QED BY <1>4, <2>1
<1>8. ASSUME KernelCountLines \/ CountPassports \/ CheckProgress  PROVE LinesAreReal' /\ CountsAreExact'
  BY <1>4, <1>8 DEF KernelCountLines, CountPassports, CheckProgress
<1>9. ASSUME (OfficeOver /\ UNCHANGED kernelVars) \/ UNCHANGED officeKernelVars
      PROVE  LinesAreReal' /\ CountsAreExact'
  BY <1>4, <1>9 DEF OfficeOver
<1> QED BY <1>5, <1>6, <1>7, <1>8, <1>9 DEF KernelOfficeNext

Plus(f, k, v) == [f EXCEPT ![k] = @ + v]

\* The totals of the clerks and of the customers, when one of them has v more.
LEMMA TotalsChange ==
  ASSUME OfficeIsFixed, NEW D \in {Clerks, Customers}, NEW f \in [D -> Int]
  PROVE  /\ Total(f) \in Int
         /\ \A k \in D : \A v \in Int : Total(Plus(f, k, v)) = Total(f) + v
<1>1. IsFiniteSet(D)
  BY ThreadNumbers DEF OfficeIsFixed
<1>2. Total(f) \in Int
  BY <1>1, TotalIs, SumType
<1>3. ASSUME NEW k \in D, NEW v \in Int  PROVE Total(Plus(f, k, v)) = Total(f) + v
  <2>1. f[k] \in Int /\ f[k] + v \in Int
    OBVIOUS
  <2>2. \A w \in Int : Total([f EXCEPT ![k] = w]) = Total(f) + w - f[k]
    BY <1>1, TotalExcept
  <2>3. Total([f EXCEPT ![k] = f[k] + v]) = Total(f) + (f[k] + v) - f[k]
    BY <2>1, <2>2, Zenon
  <2> QED BY <1>2, <2>1, <2>3 DEF Plus
<1> QED BY <1>2, <1>3

\* What a customer pays, a clerk gets.
LEMMA MoneyMoves ==
  ASSUME OfficeIsFixed, AllMoneyIsThere, UNCHANGED brought, KernelMoneyTypes,
         NEW k \in Clerks, NEW c \in Customers, NEW v \in Int,
         clerkMoney' = Plus(clerkMoney, k, v), money' = Plus(money, c, -v)
  PROVE  AllMoneyIsThere'
<1>1. clerkMoney \in [Clerks -> Int] /\ money \in [Customers -> Int]
  BY DEF KernelMoneyTypes
<1>2. -v \in Int
  OBVIOUS
<1>4. /\ Total(clerkMoney) \in Int
      /\ \A j \in Clerks : \A w \in Int : Total(Plus(clerkMoney, j, w)) = Total(clerkMoney) + w
  BY <1>1, TotalsChange
<1>5. /\ Total(money) \in Int
      /\ \A d \in Customers : \A w \in Int : Total(Plus(money, d, w)) = Total(money) + w
  BY <1>1, TotalsChange
<1>6. Total(clerkMoney') = Total(clerkMoney) + v /\ Total(money') = Total(money) + (-v)
  BY <1>2, <1>4, <1>5, Zenon
<1>7. Total(clerkMoney) + Total(money) = brought
  BY DEF AllMoneyIsThere
<1>8. Total(clerkMoney') + Total(money') = brought'
  BY <1>4, <1>5, <1>6, <1>7
<1> QED BY <1>8 DEF AllMoneyIsThere

LEMMA KernelSalesKept ==
  ASSUME KernelInv, [KernelOfficeNext]_officeKernelVars
  PROVE  AllMoneyIsThere'
<1>1. /\ OfficeIsFixed /\ AllMoneyIsThere /\ KernelMoneyTypes /\ Clerks' = Clerks /\ UNCHANGED brought
      /\ clerkPlace \in [Clerks -> KernelClerkPlaces] /\ customerPlace \in [Customers -> KernelCustomerPlaces]
  BY KernelStaysFixed DEF KernelInv, KernelTypeOK
<1>4. ASSUME UNCHANGED <<money, clerkMoney>>  PROVE AllMoneyIsThere'
  BY <1>1, <1>4 DEF AllMoneyIsThere
<1>5. ASSUME NEW k \in Clerks, KernelClerkStep(k)  PROVE AllMoneyIsThere'
  <2>1. ASSUME NEW c \in Customers, Sells(k, c)  PROVE AllMoneyIsThere'
    <3>1. clerkMoney' = Plus(clerkMoney, k, 100)
      BY <2>1 DEF Sells, Plus
    <3>2. money' = Plus(money, c, -100) /\ c \in Customers
      <4>1. c \in Customers /\ money[c] - 100 = money[c] + (-100)
        BY <1>1 DEF KernelMoneyTypes, People
      <4>2. money' = [money EXCEPT ![c] = money[c] - 100]
        BY <2>1 DEF Sells
      <4>3. money' = [money EXCEPT ![c] = money[c] + (-100)]
        BY <4>1, <4>2, Zenon
      <4> QED BY <4>1, <4>3 DEF Plus
    <3>3. 100 \in Int
      OBVIOUS
    <3> QED BY <1>1, <3>1, <3>2, <3>3, MoneyMoves
  <2>2. UNCHANGED <<money, clerkMoney>> \/ \E c \in Customers : Sells(k, c)
    BY <1>5 DEF KernelClerkStep, LookForSenator, TakeFromBribeLine, TakeFromLine, TakeABreak, TestState,
       StandAtCounter, NextInLine, AnswerSenator, CalledBySenator, SenatorHasLeft, StandForSenator,
       TakesApplication, TakesPicture, Certifies, SendsBack
  <2> QED BY <1>4, <2>1, <2>2
<1>6. ASSUME NEW c \in People, KernelCustomerStep(c)  PROVE AllMoneyIsThere'
  <2>1. ASSUME NEW k \in Clerks, EnterBribeLine(c, k)  PROVE AllMoneyIsThere'
    <3>1. clerkMoney' = Plus(clerkMoney, k, 500)
      BY <2>1 DEF EnterBribeLine, EnterBribeLineWith, Plus
    <3>2. money' = Plus(money, c, -500) /\ c \in Customers
      <4>1. c \in Customers /\ money[c] - 500 = money[c] + (-500)
        BY <1>1 DEF KernelMoneyTypes, People
      <4>2. money' = [money EXCEPT ![c] = money[c] - 500]
        BY <2>1 DEF EnterBribeLine, EnterBribeLineWith
      <4>3. money' = [money EXCEPT ![c] = money[c] + (-500)]
        BY <4>1, <4>2, Zenon
      <4> QED BY <4>1, <4>3 DEF Plus
    <3>3. 500 \in Int
      OBVIOUS
    <3> QED BY <1>1, <3>1, <3>2, <3>3, MoneyMoves
  <2>2. UNCHANGED <<money, clerkMoney>> \/ \E k \in Clerks : EnterBribeLine(c, k)
    BY <1>6 DEF KernelCustomerStep, LookForSenators, WaitOutside, EnterStraight, EnterLine,
       LeaveTheLine, LeaveLine, ApproachClerk, Approach, LeaveClerk, LeaveCounter
  <2> QED BY <1>4, <2>1, <2>2
<1>7. ASSUME SenatorStep  PROVE AllMoneyIsThere'
  BY <1>4, <1>7 DEF SenatorStep, SenatorArrives, Confirmed, AllConfirmed, SenatorApproaches, SenatorGoesOn, SenatorLeaves
<1>8. ASSUME KernelCountLines \/ CountPassports \/ CheckProgress  PROVE AllMoneyIsThere'
  BY <1>4, <1>8 DEF KernelCountLines, CountPassports, CheckProgress
<1>9. ASSUME (OfficeOver /\ UNCHANGED kernelVars) \/ UNCHANGED officeKernelVars  PROVE AllMoneyIsThere'
  BY <1>4, <1>9 DEF OfficeOver
<1> QED BY <1>5, <1>6, <1>7, <1>8, <1>9 DEF KernelOfficeNext

LEMMA KernelPassportsKept ==
  ASSUME KernelInv, [KernelOfficeNext]_officeKernelVars
  PROVE  PassportsAreOut'
<1>1. PassportsAreOut /\ reached \in [Customers -> SUBSET Stages] /\ UNCHANGED allCustomersAreDone
  BY KernelStaysFixed DEF KernelInv
<1>2. ASSUME UNCHANGED <<manager, reached>>  PROVE PassportsAreOut'
  BY <1>1, <1>2 DEF PassportsAreOut, EverybodyDone
<1>3. ASSUME NEW k \in Clerks, KernelClerkStep(k)  PROVE PassportsAreOut'
  <2>1. ASSUME NEW c \in Customers, \/ TakesApplication(k, c) \/ TakesPicture(k, c)
                                    \/ Certifies(k, c) \/ Sells(k, c)
        PROVE  PassportsAreOut'
    <3>1. \A d \in Customers : reached[d] \subseteq reached'[d]
      <4>1. CASE TakesApplication(k, c) \/ TakesPicture(k, c)
        BY <1>1, <4>1 DEF TakesApplication, TakesPicture, Reaches
      <4>2. CASE Certifies(k, c) \/ Sells(k, c)
        BY <1>1, <4>2, MessesUpOrReaches DEF Certifies, Sells, Stages
      <4> QED BY <2>1, <4>1, <4>2
    <3>2. UNCHANGED manager
      BY <2>1 DEF TakesApplication, TakesPicture, Certifies, Sells
    <3> QED BY <1>1, <3>1, <3>2 DEF PassportsAreOut, EverybodyDone
  <2>2. \/ UNCHANGED <<manager, reached>>
        \/ \E c \in Customers : TakesApplication(k, c) \/ TakesPicture(k, c) \/ Certifies(k, c) \/ Sells(k, c)
    BY <1>3 DEF KernelClerkStep, LookForSenator, TakeFromBribeLine, TakeFromLine, TakeABreak, TestState,
       StandAtCounter, NextInLine, AnswerSenator, CalledBySenator, SenatorHasLeft, StandForSenator, SendsBack
  <2> QED BY <1>2, <2>1, <2>2
<1>4. ASSUME NEW c \in People, KernelCustomerStep(c)  PROVE PassportsAreOut'
  BY <1>2, <1>4 DEF KernelCustomerStep, LookForSenators, WaitOutside, EnterStraight, EnterLine, EnterBribeLine, EnterBribeLineWith,
     LeaveTheLine, LeaveLine, ApproachClerk, Approach, LeaveClerk, LeaveCounter
<1>5. ASSUME SenatorStep  PROVE PassportsAreOut'
  BY <1>2, <1>5 DEF SenatorStep, SenatorArrives, Confirmed, AllConfirmed, SenatorApproaches, SenatorGoesOn, SenatorLeaves
<1>6. ASSUME KernelCountLines \/ CountPassports \/ CheckProgress  PROVE PassportsAreOut'
  BY <1>1, <1>6 DEF KernelCountLines, CountPassports, CheckProgress, PassportsAreOut, EverybodyDone
<1>7. ASSUME (OfficeOver /\ UNCHANGED kernelVars) \/ UNCHANGED officeKernelVars  PROVE PassportsAreOut'
  BY <1>2, <1>7 DEF OfficeOver
<1> QED BY <1>3, <1>4, <1>5, <1>6, <1>7 DEF KernelOfficeNext

----------------------------------------------------------------------------
(***************************************************************************)
(* The numbers of the clerks.                                              *)
(***************************************************************************)
Joined(p, q) == p \o q
\* f puts the first sequences of s one behind the other.
Flattens(f, s) == f = [i \in 1 .. Len(s) |-> IF i = 1 THEN s[i] ELSE Joined(f[i-1], s[i])]

LEMMA FlattenSeqIs ==
  ASSUME NEW s, Len(s) = 4
  PROVE  FlattenSeq(s) = (CHOOSE f : Flattens(f, s))[4]
BY DEF FlattenSeq, Flattens, Joined

LEMMA FlattenFour ==
  ASSUME NEW s, Len(s) = 4
  PROVE  FlattenSeq(s) = Joined(Joined(Joined(s[1], s[2]), s[3]), s[4])
<1> DEFINE s2 == Joined(s[1], s[2])
           s3 == Joined(s2, s[3])
           s4 == Joined(s3, s[4])
           g == [i \in 1 .. 4 |-> IF i = 1 THEN s[1] ELSE IF i = 2 THEN s2 ELSE IF i = 3 THEN s3 ELSE s4]
<1>1. /\ g[1] = s[1] /\ g[2] = Joined(g[1], s[2]) /\ g[3] = Joined(g[2], s[3]) /\ g[4] = Joined(g[3], s[4])
  OBVIOUS
<1>2. g = [i \in 1 .. 4 |-> IF i = 1 THEN s[i] ELSE Joined(g[i-1], s[i])]
  <2>1. ASSUME NEW i \in 1 .. 4  PROVE g[i] = IF i = 1 THEN s[i] ELSE Joined(g[i-1], s[i])
    <3>1. i = 1 \/ (i = 2 /\ i - 1 = 1) \/ (i = 3 /\ i - 1 = 2) \/ (i = 4 /\ i - 1 = 3)
      OBVIOUS
    <3> HIDE DEF g
    <3> QED BY <1>1, <3>1
  <2>2. g = [i \in 1 .. 4 |-> g[i]]
    OBVIOUS
  <2> HIDE DEF g
  <2> QED BY <2>1, <2>2
<1>3. \E f : Flattens(f, s)
  <2> HIDE DEF g
  <2> QED BY <1>2 DEF Flattens
<1>4. PICK f : Flattens(f, s) /\ FlattenSeq(s) = f[4]
  BY <1>3, FlattenSeqIs, Zenon
<1>5. f = [i \in 1 .. 4 |-> IF i = 1 THEN s[i] ELSE Joined(f[i-1], s[i])]
  BY <1>4, Zenon DEF Flattens
<1>6. /\ f[1] = s[1] /\ f[2] = Joined(f[1], s[2]) /\ f[3] = Joined(f[2], s[3])
      /\ f[4] = Joined(f[3], s[4])
  BY <1>5
<1> QED BY <1>4, <1>6, Zenon

IsJoined(r, p, q, S) ==
  /\ r \in Seq(S) /\ Len(r) = Len(p) + Len(q)
  /\ \A n \in 1 .. Len(p) : r[n] = p[n]
  /\ \A n \in Len(p) + 1 .. Len(p) + Len(q) : r[n] = q[n - Len(p)]

LEMMA JoinedIs ==
  ASSUME NEW S, NEW p \in Seq(S), NEW q \in Seq(S)
  PROVE  IsJoined(Joined(p, q), p, q, S)
<1>1. Len(p) \in Nat /\ Len(q) \in Nat
  OBVIOUS
<1>2. /\ Joined(p, q) \in Seq(S) /\ Len(Joined(p, q)) = Len(p) + Len(q)
      /\ \A n \in 1 .. Len(p) + Len(q) : Joined(p, q)[n] = IF n <= Len(p) THEN p[n] ELSE q[n - Len(p)]
  BY ConcatProperties, Zenon DEF Joined
<1> QED BY <1>1, <1>2 DEF IsJoined

\* What the manager counts up to.
Below(counts, n) == SumOver(counts, 1 .. n)

LEMMA BelowIs ==
  ASSUME NEW counts \in [1 .. 4 -> Nat]
  PROVE  /\ Below(counts, 0) = 0
         /\ Below(counts, 1) = counts[1]
         /\ Below(counts, 2) = counts[1] + counts[2]
         /\ Below(counts, 3) = counts[1] + counts[2] + counts[3]
         /\ Below(counts, 4) = counts[1] + counts[2] + counts[3] + counts[4]
<1>1. ASSUME NEW n \in 1 .. 4  PROVE Below(counts, n) = counts[n] + Below(counts, n - 1)
  <2>0. IsFiniteSet(1 .. n)
    BY FS_Interval
  <2>1. IsFiniteSet(1 .. n) /\ n \in 1 .. n /\ (1 .. n) \ {n} = 1 .. n - 1
    BY <2>0
  <2>2. \A x \in 1 .. n : counts[x] \in Int
    OBVIOUS
  <2>3. SumOver(counts, 1 .. n) = counts[n] + SumOver(counts, (1 .. n) \ {n})
    BY <2>1, <2>2, SumRemove
  <2> QED BY <2>1, <2>3, Zenon DEF Below
<1>2. Below(counts, 0) = 0
  <2>1. 1 .. 0 = {} /\ IsFiniteSet({})
    BY FS_EmptySet
  <2> QED BY <2>1, SumChosen DEF Below
<1>3. counts[1] \in Nat /\ counts[2] \in Nat /\ counts[3] \in Nat /\ counts[4] \in Nat
  OBVIOUS
<1>4. /\ Below(counts, 1) = counts[1] + Below(counts, 0)
      /\ Below(counts, 2) = counts[2] + Below(counts, 1)
      /\ Below(counts, 3) = counts[3] + Below(counts, 2)
      /\ Below(counts, 4) = counts[4] + Below(counts, 3)
  <2>1. /\ 1 \in 1 .. 4 /\ 2 \in 1 .. 4 /\ 3 \in 1 .. 4 /\ 4 \in 1 .. 4
        /\ 1 - 1 = 0 /\ 2 - 1 = 1 /\ 3 - 1 = 2 /\ 4 - 1 = 3
    OBVIOUS
  <2> QED BY <1>1, <2>1
<1> QED BY <1>2, <1>3, <1>4

\* The numbers that createClerkThreads gives to each type follow each other.
LEMMA NumberedIs ==
  ASSUME NEW counts \in [1 .. 4 -> Nat]
  PROVE  /\ Len(Numbered(counts)) = Below(counts, 4)
         /\ \A i \in 1 .. 4 : \A n \in Below(counts, i - 1) + 1 .. Below(counts, i) :
              Numbered(counts)[n] = ClerkTypes[i]
<1> DEFINE piece(i) == [j \in 1 .. counts[i] |-> ClerkTypes[i]]
           s == [i \in DOMAIN counts |-> [j \in 1 .. counts[i] |-> ClerkTypes[i]]]
<1>1. /\ counts[1] \in Nat /\ counts[2] \in Nat /\ counts[3] \in Nat /\ counts[4] \in Nat
      /\ \A i \in 1 .. 4 : ClerkTypes[i] \in Types
  BY DEF ClerkTypes, Types
<1>2. ASSUME NEW i \in 1 .. 4
      PROVE  /\ s[i] \in Seq(Types) /\ Len(s[i]) = counts[i]
             /\ \A j \in 1 .. counts[i] : s[i][j] = ClerkTypes[i]
  <2>1. s[i] = [j \in 1 .. counts[i] |-> ClerkTypes[i]] /\ counts[i] \in Nat /\ ClerkTypes[i] \in Types
    BY <1>1
  <2> HIDE DEF s
  <2> QED BY <2>1
<1>3. Len(s) = 4
  <2>1. s \in [1 .. 4 -> {piece(i) : i \in 1 .. 4}]
    OBVIOUS
  <2> HIDE DEF s
  <2> QED BY <2>1
<1> DEFINE p2 == Joined(s[1], s[2])
           p3 == Joined(p2, s[3])
           p4 == Joined(p3, s[4])
<1>4. Numbered(counts) = p4
  BY <1>3, FlattenFour DEF Numbered
<1>b. /\ s[1] \in Seq(Types) /\ Len(s[1]) = counts[1] /\ \A j \in 1 .. counts[1] : s[1][j] = ClerkTypes[1]
      /\ s[2] \in Seq(Types) /\ Len(s[2]) = counts[2] /\ \A j \in 1 .. counts[2] : s[2][j] = ClerkTypes[2]
      /\ s[3] \in Seq(Types) /\ Len(s[3]) = counts[3] /\ \A j \in 1 .. counts[3] : s[3][j] = ClerkTypes[3]
      /\ s[4] \in Seq(Types) /\ Len(s[4]) = counts[4] /\ \A j \in 1 .. counts[4] : s[4][j] = ClerkTypes[4]
  <2> HIDE DEF s
  <2>1. 1 \in 1 .. 4 /\ 2 \in 1 .. 4 /\ 3 \in 1 .. 4 /\ 4 \in 1 .. 4
    OBVIOUS
  <2> QED BY <1>2, <2>1
<1> DEFINE a == counts[1]
           b == counts[1] + counts[2]
           c == counts[1] + counts[2] + counts[3]
           d == counts[1] + counts[2] + counts[3] + counts[4]
<1>5. /\ p2 \in Seq(Types) /\ Len(p2) = b
      /\ \A n \in 1 .. a : p2[n] = ClerkTypes[1]
      /\ \A n \in a + 1 .. b : p2[n] = ClerkTypes[2]
  <2>1. /\ p2 \in Seq(Types) /\ Len(p2) = b
        /\ \A n \in 1 .. a : p2[n] = s[1][n]
        /\ \A n \in a + 1 .. b : p2[n] = s[2][n - a]
    <3>1. s[1] \in Seq(Types) /\ Len(s[1]) = a
      BY <1>b
    <3>2. s[2] \in Seq(Types) /\ Len(s[2]) = counts[2]
      BY <1>b
    <3>3. a + counts[2] = b
      BY <1>1
    <3> HIDE DEF s, a, b, c, d
    <3>4. IsJoined(p2, s[1], s[2], Types)
      BY <3>1, <3>2, JoinedIs, Zenon
    <3> HIDE DEF p2
    <3> QED BY <3>1, <3>2, <3>3, <3>4 DEF IsJoined
  <2>2. \A n \in a + 1 .. b : n - a \in 1 .. counts[2]
    BY <1>1
  <2>3. ASSUME NEW n \in a + 1 .. b  PROVE p2[n] = ClerkTypes[2]
    <3>1. p2[n] = s[2][n - a] /\ n - a \in 1 .. counts[2]
      BY <2>1, <2>2
    <3> HIDE DEF s, p2, a
    <3> QED BY <1>b, <3>1
  <2>4. ASSUME NEW n \in 1 .. a  PROVE p2[n] = ClerkTypes[1]
    <3>1. p2[n] = s[1][n] /\ n \in 1 .. counts[1]
      BY <2>1
    <3> HIDE DEF s, p2
    <3> QED BY <1>b, <3>1
  <2> HIDE DEF s, p2, a, b, c, d
  <2> QED BY <2>1, <2>3, <2>4
<1>6. /\ p3 \in Seq(Types) /\ Len(p3) = c
      /\ \A n \in 1 .. b : p3[n] = p2[n]
      /\ \A n \in b + 1 .. c : p3[n] = ClerkTypes[3]
  <2>1. /\ p3 \in Seq(Types) /\ Len(p3) = c
        /\ \A n \in 1 .. b : p3[n] = p2[n]
        /\ \A n \in b + 1 .. c : p3[n] = s[3][n - b]
    <3>1. p2 \in Seq(Types) /\ Len(p2) = b
      BY <1>b, <1>5
    <3>2. s[3] \in Seq(Types) /\ Len(s[3]) = counts[3]
      BY <1>b
    <3>3. b + counts[3] = c
      BY <1>1
    <3> HIDE DEF s, p2, a, b, c, d
    <3>4. IsJoined(p3, p2, s[3], Types)
      BY <3>1, <3>2, JoinedIs, Zenon
    <3> HIDE DEF p3
    <3> QED BY <3>1, <3>2, <3>3, <3>4 DEF IsJoined
  <2>2. \A n \in b + 1 .. c : n - b \in 1 .. counts[3]
    BY <1>1
  <2>3. ASSUME NEW n \in b + 1 .. c  PROVE p3[n] = ClerkTypes[3]
    <3>1. p3[n] = s[3][n - b] /\ n - b \in 1 .. counts[3]
      BY <2>1, <2>2
    <3> HIDE DEF s, p3, b
    <3> QED BY <1>b, <3>1
  <2> HIDE DEF s, p2, p3, a, b, c, d
  <2> QED BY <2>1, <2>3
<1>7. /\ p4 \in Seq(Types) /\ Len(p4) = d
      /\ \A n \in 1 .. c : p4[n] = p3[n]
      /\ \A n \in c + 1 .. d : p4[n] = ClerkTypes[4]
  <2>1. /\ p4 \in Seq(Types) /\ Len(p4) = d
        /\ \A n \in 1 .. c : p4[n] = p3[n]
        /\ \A n \in c + 1 .. d : p4[n] = s[4][n - c]
    <3>1. p3 \in Seq(Types) /\ Len(p3) = c
      BY <1>b, <1>6
    <3>2. s[4] \in Seq(Types) /\ Len(s[4]) = counts[4]
      BY <1>b
    <3>3. c + counts[4] = d
      BY <1>1
    <3> HIDE DEF s, p2, p3, a, b, c, d
    <3>4. IsJoined(p4, p3, s[4], Types)
      BY <3>1, <3>2, JoinedIs, Zenon
    <3> HIDE DEF p4
    <3> QED BY <3>1, <3>2, <3>3, <3>4 DEF IsJoined
  <2>2. \A n \in c + 1 .. d : n - c \in 1 .. counts[4]
    BY <1>1
  <2>3. ASSUME NEW n \in c + 1 .. d  PROVE p4[n] = ClerkTypes[4]
    <3>1. p4[n] = s[4][n - c] /\ n - c \in 1 .. counts[4]
      BY <2>1, <2>2
    <3> HIDE DEF s, p4, c
    <3> QED BY <1>b, <3>1
  <2> HIDE DEF s, p2, p3, p4, a, b, c, d
  <2> QED BY <2>1, <2>3
<1>8. ASSUME NEW i \in 1 .. 4, NEW n \in Below(counts, i - 1) + 1 .. Below(counts, i)
      PROVE  p4[n] = ClerkTypes[i]
  <2> HIDE DEF s, p2, p3, p4
  <2>1. CASE i = 1
    <3>1. Below(counts, i - 1) = 0 /\ Below(counts, i) = a
      BY <2>1, BelowIs
    <3>2. n \in 1 .. a /\ n \in 1 .. b /\ n \in 1 .. c
      BY <1>1, <1>8, <3>1
    <3> QED BY <1>5, <1>6, <1>7, <2>1, <3>2
  <2>2. CASE i = 2
    <3>1. Below(counts, i - 1) = a /\ Below(counts, i) = b
      BY <2>2, BelowIs
    <3>2. n \in a + 1 .. b /\ n \in 1 .. b /\ n \in 1 .. c
      BY <1>1, <1>8, <3>1
    <3> QED BY <1>5, <1>6, <1>7, <2>2, <3>2
  <2>3. CASE i = 3
    <3>1. Below(counts, i - 1) = b /\ Below(counts, i) = c
      BY <2>3, BelowIs
    <3>2. n \in b + 1 .. c /\ n \in 1 .. c
      BY <1>1, <1>8, <3>1
    <3> QED BY <1>6, <1>7, <2>3, <3>2
  <2>4. CASE i = 4
    <3>1. Below(counts, i - 1) = c /\ Below(counts, i) = d
      BY <2>4, BelowIs
    <3> QED BY <1>7, <1>8, <2>4, <3>1
  <2> QED BY <2>1, <2>2, <2>3, <2>4
<1> HIDE DEF p4
<1> QED BY <1>4, <1>7, <1>8, BelowIs

LEMMA ClerkTypesDiffer ==
  \A i, j \in 1 .. 4 : ClerkTypes[i] = ClerkTypes[j] => i = j
<1>1. /\ ClerkTypes[1] = "ApplicationClerk" /\ ClerkTypes[2] = "PictureClerk"
      /\ ClerkTypes[3] = "PassportClerk" /\ ClerkTypes[4] = "Cashier"
  BY DEF ClerkTypes
<1>2. \A i \in 1 .. 4 : i = 1 \/ i = 2 \/ i = 3 \/ i = 4
  OBVIOUS
<1> QED BY <1>1, <1>2

LEMMA SomeType ==
  ASSUME NEW counts \in [1 .. 4 -> Nat], NEW n \in 1 .. Below(counts, 4)
  PROVE  \E i \in 1 .. 4 : n \in Below(counts, i - 1) + 1 .. Below(counts, i)
<1>1. /\ counts[1] \in Nat /\ counts[2] \in Nat /\ counts[3] \in Nat /\ counts[4] \in Nat
  OBVIOUS
<1>2. /\ Below(counts, 0) \in Nat /\ Below(counts, 1) \in Nat /\ Below(counts, 2) \in Nat
      /\ Below(counts, 3) \in Nat /\ Below(counts, 4) \in Nat /\ Below(counts, 0) = 0
  BY <1>1, BelowIs
<1>3. \/ n \in Below(counts, 0) + 1 .. Below(counts, 1) \/ n \in Below(counts, 1) + 1 .. Below(counts, 2)
      \/ n \in Below(counts, 2) + 1 .. Below(counts, 3) \/ n \in Below(counts, 3) + 1 .. Below(counts, 4)
  BY <1>2
<1>4. /\ 1 \in 1 .. 4 /\ 2 \in 1 .. 4 /\ 3 \in 1 .. 4 /\ 4 \in 1 .. 4
      /\ 1 - 1 = 0 /\ 2 - 1 = 1 /\ 3 - 1 = 2 /\ 4 - 1 = 3
  OBVIOUS
<1> QED BY <1>3, <1>4

LEMMA TypeOfNumber ==
  ASSUME NEW counts \in [1 .. 4 -> Nat], NEW i \in 1 .. 4, NEW n \in 1 .. Below(counts, 4)
  PROVE  Numbered(counts)[n] = ClerkTypes[i] <=> n \in Below(counts, i - 1) + 1 .. Below(counts, i)
<1>1. PICK m \in 1 .. 4 : n \in Below(counts, m - 1) + 1 .. Below(counts, m)
  BY SomeType
<1>2. Numbered(counts)[n] = ClerkTypes[m]
  BY <1>1, NumberedIs
<1>3. Numbered(counts)[n] = ClerkTypes[i] => i = m
  BY <1>2, ClerkTypesDiffer
<1>4. n \in Below(counts, i - 1) + 1 .. Below(counts, i) => Numbered(counts)[n] = ClerkTypes[i]
  BY NumberedIs
<1> QED BY <1>1, <1>3, <1>4, Zenon

\* The clerks are numbered without a gap, and those of a type are together.
ClerksAreNumbered(first) ==
  /\ first \in Nat
  /\ Clerks = first .. first + Below(clerkArray, 4) - 1
  /\ first \in Clerks
  /\ first = CHOOSE k \in Clerks : \A j \in Clerks : k <= j
  /\ \A i \in 1 .. 4 : {k \in Clerks : clerkTypes[k] = ClerkTypes[i]}
                         = first + Below(clerkArray, i - 1) .. first + Below(clerkArray, i) - 1

LEMMA ClerksNumbered ==
  ASSUME ClerksAreInOrder
  PROVE  \E first \in Nat : ClerksAreNumbered(first)
<1>1. PICK first \in Nat : clerkTypes = ClerkThreads(first, clerkArray)
  BY DEF ClerksAreInOrder
<1>2. clerkArray \in [1 .. 4 -> Nat] /\ \E i \in 1 .. 4 : clerkArray[i] # 0
  BY DEF ClerksAreInOrder
<1>3. /\ clerkArray[1] \in Nat /\ clerkArray[2] \in Nat /\ clerkArray[3] \in Nat /\ clerkArray[4] \in Nat
  BY <1>2
<1>4. /\ Below(clerkArray, 0) = 0 /\ Below(clerkArray, 1) \in Nat /\ Below(clerkArray, 2) \in Nat
      /\ Below(clerkArray, 3) \in Nat /\ Below(clerkArray, 4) \in Nat
      /\ Below(clerkArray, 1) <= Below(clerkArray, 2) /\ Below(clerkArray, 2) <= Below(clerkArray, 3)
      /\ Below(clerkArray, 3) <= Below(clerkArray, 4)
  BY <1>2, <1>3, BelowIs
<1>5. Below(clerkArray, 4) > 0
  <2>1. clerkArray[1] # 0 \/ clerkArray[2] # 0 \/ clerkArray[3] # 0 \/ clerkArray[4] # 0
    BY <1>2
  <2>2. Below(clerkArray, 4) = clerkArray[1] + clerkArray[2] + clerkArray[3] + clerkArray[4]
    BY <1>2, BelowIs
  <2>3. ASSUME NEW w \in Nat, NEW x \in Nat, NEW y \in Nat, NEW z \in Nat, w # 0 \/ x # 0 \/ y # 0 \/ z # 0
        PROVE  w + x + y + z > 0
    BY <2>3
  <2>4. clerkArray[1] + clerkArray[2] + clerkArray[3] + clerkArray[4] > 0
    BY <1>3, <2>1, <2>3, Zenon
  <2> QED BY <2>2, <2>4, Zenon
<1> DEFINE last == first + Below(clerkArray, 4) - 1
<1>6. Len(Numbered(clerkArray)) = Below(clerkArray, 4)
  BY <1>2, NumberedIs
<1>7. clerkTypes = [k \in first .. last |-> Numbered(clerkArray)[k - first + 1]]
  BY <1>1, <1>6, Zenon DEF ClerkThreads
<1>8. Clerks = first .. last /\ \A k \in Clerks : clerkTypes[k] = Numbered(clerkArray)[k - first + 1]
  BY <1>7 DEF Clerks
<1>9. first \in Clerks /\ \A j \in Clerks : first <= j /\ j \in Nat
  BY <1>4, <1>5, <1>8
<1>10. first = CHOOSE k \in Clerks : \A j \in Clerks : k <= j
  <2> DEFINE c == CHOOSE k \in Clerks : \A j \in Clerks : k <= j
  <2>1. c \in Clerks /\ \A j \in Clerks : c <= j
    BY <1>9
  <2> HIDE DEF c
  <2>2. first = c
    BY <1>9, <2>1
  <2> QED BY <2>2 DEF c
<1>11. ASSUME NEW i \in 1 .. 4
       PROVE  {k \in Clerks : clerkTypes[k] = ClerkTypes[i]}
                = first + Below(clerkArray, i - 1) .. first + Below(clerkArray, i) - 1
  <2>1. /\ Below(clerkArray, i - 1) \in Nat /\ Below(clerkArray, i) \in Nat
        /\ Below(clerkArray, i) <= Below(clerkArray, 4)
    <3>1. (i = 1 /\ i - 1 = 0) \/ (i = 2 /\ i - 1 = 1) \/ (i = 3 /\ i - 1 = 2) \/ (i = 4 /\ i - 1 = 3)
      OBVIOUS
    <3> QED BY <1>4, <3>1
  <2>2. ASSUME NEW k \in Clerks
        PROVE  clerkTypes[k] = ClerkTypes[i]
                 <=> k - first + 1 \in Below(clerkArray, i - 1) + 1 .. Below(clerkArray, i)
    <3>1. k - first + 1 \in 1 .. Below(clerkArray, 4)
      BY <1>4, <1>8
    <3>2. clerkTypes[k] = Numbered(clerkArray)[k - first + 1]
      BY <1>8
    <3> DEFINE n == k - first + 1
    <3> HIDE DEF n
    <3>3. clerkTypes[k] = Numbered(clerkArray)[n] /\ n \in 1 .. Below(clerkArray, 4)
      BY <3>1, <3>2 DEF n
    <3>4. Numbered(clerkArray)[n] = ClerkTypes[i] <=> n \in Below(clerkArray, i - 1) + 1 .. Below(clerkArray, i)
      BY <1>2, <3>3, TypeOfNumber
    <3>5. clerkTypes[k] = ClerkTypes[i] <=> n \in Below(clerkArray, i - 1) + 1 .. Below(clerkArray, i)
      BY <3>3, <3>4, Zenon
    <3> QED BY <3>5 DEF n
  <2>3. \A k : k \in Clerks <=> k \in Int /\ first <= k /\ k <= first + Below(clerkArray, 4) - 1
    BY <1>4, <1>8
  <2>4. ASSUME NEW k
        PROVE  (k \in Clerks /\ clerkTypes[k] = ClerkTypes[i])
                 <=> k \in first + Below(clerkArray, i - 1) .. first + Below(clerkArray, i) - 1
    <3>1. CASE k \in Clerks
      <4>1. k \in Int
        BY <3>1, <2>3
      <4>2. k - first + 1 \in Below(clerkArray, i - 1) + 1 .. Below(clerkArray, i)
              <=> k \in first + Below(clerkArray, i - 1) .. first + Below(clerkArray, i) - 1
        BY <2>1, <4>1
      <4> QED BY <2>2, <3>1, <4>2, Zenon
    <3>2. CASE k \notin Clerks
      BY <2>1, <2>3, <3>2, <1>4
    <3> QED BY <3>1, <3>2
  <2> QED BY <2>4
<1>12. ClerksAreNumbered(first)
  BY <1>8, <1>9, <1>10, <1>11, Zenon DEF ClerksAreNumbered
<1> QED BY <1>12

\* printMoney takes the money of each type from its own clerks.
LEMMA ManagerIsRight ==
  ASSUME ClerksAreInOrder
  PROVE  ManagerCountsRight
<1>1. PICK first \in Nat : ClerksAreNumbered(first)
  BY ClerksNumbered
<1>2. ASSUME NEW i \in 1 .. 4
      PROVE  MoneyOf(i) = SumOver(clerkMoney, {k \in Clerks : clerkTypes[k] = ClerkTypes[i]})
  <2> DEFINE min == CHOOSE k \in Clerks : \A j \in Clerks : k <= j
  <2>0. MoneyOf(i) = SumOver(clerkMoney, min + Below(clerkArray, i - 1) .. min + Below(clerkArray, i) - 1)
    <3> HIDE DEF min
    <3>1. MoneyOf(i) = SumOver(clerkMoney, min + ClerksUpTo(i - 1) .. min + ClerksUpTo(i) - 1)
      BY Zenon DEF MoneyOf, SumOver, min
    <3>2. ClerksUpTo(i - 1) = Below(clerkArray, i - 1) /\ ClerksUpTo(i) = Below(clerkArray, i)
      BY Zenon DEF ClerksUpTo, Below, SumOver
    <3> QED BY <3>1, <3>2, Zenon
  <2>1. MoneyOf(i) = SumOver(clerkMoney, first + Below(clerkArray, i - 1) .. first + Below(clerkArray, i) - 1)
    <3>1. first = min
      BY <1>1, Zenon DEF ClerksAreNumbered
    <3> HIDE DEF min
    <3> QED BY <2>0, <3>1, Zenon
  <2>2. {k \in Clerks : clerkTypes[k] = ClerkTypes[i]}
          = first + Below(clerkArray, i - 1) .. first + Below(clerkArray, i) - 1
    BY <1>1, Zenon DEF ClerksAreNumbered
  <2> QED BY <2>1, <2>2, Zenon
<1> QED BY <1>2, Zenon DEF ManagerCountsRight, SumOver

----------------------------------------------------------------------------
(***************************************************************************)
(* The senator.                                                            *)
(***************************************************************************)
\* What a clerk does that has nothing to do with the senator's monitors.
PlainStep(k) ==
  /\ UNCHANGED <<reached, clerkSenatorCV, clerkSenatorCVLock>>
  /\ \/ clerkPlace[k] = "top" /\ ClerkGoto(k, IF senatorLineCount > 0 THEN "senator" ELSE "choose")
     \/ clerkPlace[k] = "signOff" /\ ClerkGoto(k, "top")
     \/ /\ clerkPlace[k] \in {"choose", "test", "toCounter"}
        /\ \E place \in {"toCounter", "break", "choose", "counter", "top"} : ClerkGoto(k, place)
WorkStep(k) ==
  clerkPlace[k] = "counter" /\ ClerkGoto(k, "signOff") /\ UNCHANGED <<clerkSenatorCV, clerkSenatorCVLock>>

LEMMA ClerkSteps ==
  ASSUME HasSenator, NEW k \in Clerks, KernelClerkStep(k)
  PROVE  /\ UNCHANGED <<version, customerPlace, myLine, senatorLineCount>>
         /\ \/ PlainStep(k) \/ WorkStep(k)
            \/ AnswerSenator(k) \/ CalledBySenator(k) \/ SenatorHasLeft(k) \/ StandForSenator(k)
<1>1. ASSUME LookForSenator(k) \/ NextInLine(k)
      PROVE  PlainStep(k) /\ UNCHANGED <<version, customerPlace, myLine, senatorLineCount>>
  BY <1>1 DEF LookForSenator, NextInLine, PlainStep
<1>2. ASSUME TakeFromBribeLine(k) \/ TakeFromLine(k) \/ TakeABreak(k) \/ TestState(k) \/ StandAtCounter(k)
      PROVE  PlainStep(k) /\ UNCHANGED <<version, customerPlace, myLine, senatorLineCount>>
  <2>1. clerkPlace[k] \in {"choose", "test", "toCounter"}
    BY <1>2 DEF TakeFromBribeLine, TakeFromLine, TakeABreak, TestState, StandAtCounter
  <2>2. \E place \in {"toCounter", "break", "choose", "counter", "top"} : ClerkGoto(k, place)
    BY <1>2 DEF TakeFromBribeLine, TakeFromLine, TakeABreak, TestState, StandAtCounter, GoToCounter
  <2>3. UNCHANGED <<reached, clerkSenatorCV, clerkSenatorCVLock, version, customerPlace, myLine, senatorLineCount>>
    BY <1>2 DEF TakeFromBribeLine, TakeFromLine, TakeABreak, TestState, StandAtCounter
  <2> QED BY <2>1, <2>2, <2>3, Zenon DEF PlainStep
<1>3. ASSUME NEW c \in Customers, \/ TakesApplication(k, c) \/ TakesPicture(k, c) \/ Certifies(k, c)
                                  \/ Sells(k, c) \/ SendsBack(k, c)
      PROVE  WorkStep(k) /\ UNCHANGED <<version, customerPlace, myLine, senatorLineCount>>
  BY <1>3 DEF TakesApplication, TakesPicture, Certifies, Sells, SendsBack, Works, SignOff, WorkStep
<1>4. ASSUME AnswerSenator(k) \/ CalledBySenator(k) \/ SenatorHasLeft(k) \/ StandForSenator(k)
      PROVE  UNCHANGED <<version, customerPlace, myLine, senatorLineCount>>
  BY <1>4 DEF AnswerSenator, CalledBySenator, SenatorHasLeft, StandForSenator
<1> QED BY <1>1, <1>2, <1>3, <1>4 DEF KernelClerkStep

\* What the others do does not concern the senator.
OtherStep ==
  /\ UNCHANGED <<version, senatorLineCount, clerkSenatorCV, clerkSenatorCVLock, reached>>
  /\ customerPlace'[Senator] = customerPlace[Senator] /\ myLine'[Senator] = myLine[Senator]
  /\ \A k \in Clerks : \/ clerkPlace'[k] = clerkPlace[k]
                       \/ clerkPlace[k] = "break" /\ clerkPlace'[k] = "test"

LEMMA OtherSteps ==
  ASSUME OfficeIsFixed, KernelTypes, HasSenator,
         \/ \E c \in People : KernelCustomerStep(c)
         \/ KernelCountLines \/ CountPassports \/ CheckProgress
         \/ OfficeOver /\ UNCHANGED kernelVars
         \/ UNCHANGED officeKernelVars
  PROVE  OtherStep
<1>1. ASSUME NEW c \in People, KernelCustomerStep(c)  PROVE OtherStep
  <2>1. c \in Customers /\ c # Senator
    BY DEF People
  <2>2. UNCHANGED <<version, senatorLineCount, clerkSenatorCV, clerkSenatorCVLock, reached, clerkPlace>>
    BY <1>1 DEF KernelCustomerStep, LookForSenators, WaitOutside, EnterStraight, EnterLine, EnterBribeLine, EnterBribeLineWith,
     LeaveTheLine, LeaveLine, ApproachClerk, Approach, LeaveClerk, LeaveCounter
  <2>3. \E place : customerPlace' = [customerPlace EXCEPT ![c] = place]
    <3>1. CASE LookForSenators(c)
      BY <3>1, Zenon DEF LookForSenators
    <3>2. CASE WaitOutside(c)
      BY <3>2, Zenon DEF WaitOutside
    <3>3. CASE \E k \in Clerks : EnterStraight(c, k)
      BY <3>3, Zenon DEF EnterStraight
    <3>4. CASE \E k \in Clerks : EnterLine(c, k)
      BY <3>4, Zenon DEF EnterLine
    <3>5. CASE \E k \in Clerks : EnterBribeLine(c, k)
      BY <3>5, BriberJoins, Zenon
    <3>6. CASE LeaveTheLine(c)
      BY <3>6, Zenon DEF LeaveTheLine, LeaveLine
    <3>7. CASE ApproachClerk(c)
      BY <3>7, Zenon DEF ApproachClerk, Approach
    <3>8. CASE LeaveClerk(c)
      BY <3>8, Zenon DEF LeaveClerk, LeaveCounter
    <3> QED BY <1>1, <3>1, <3>2, <3>3, <3>4, <3>5, <3>6, <3>7, <3>8, Zenon DEF KernelCustomerStep
  <2>4. myLine' = myLine \/ \E k : myLine' = [myLine EXCEPT ![c] = k]
    <3>1. CASE LookForSenators(c)
      BY <3>1, Zenon DEF LookForSenators
    <3>2. CASE WaitOutside(c)
      BY <3>2, Zenon DEF WaitOutside
    <3>3. CASE \E k \in Clerks : EnterStraight(c, k)
      BY <3>3, Zenon DEF EnterStraight, Chooses
    <3>4. CASE \E k \in Clerks : EnterLine(c, k)
      BY <3>4, Zenon DEF EnterLine, Chooses
    <3>5. CASE \E k \in Clerks : EnterBribeLine(c, k)
      BY <3>5, BriberJoins, Zenon
    <3>6. CASE LeaveTheLine(c)
      BY <3>6, Zenon DEF LeaveTheLine, LeaveLine
    <3>7. CASE ApproachClerk(c)
      BY <3>7, Zenon DEF ApproachClerk, Approach
    <3>8. CASE LeaveClerk(c)
      BY <3>8, Zenon DEF LeaveClerk, LeaveCounter
    <3> QED BY <1>1, <3>1, <3>2, <3>3, <3>4, <3>5, <3>6, <3>7, <3>8, Zenon DEF KernelCustomerStep
  <2>5. customerPlace'[Senator] = customerPlace[Senator]
    BY <2>1, <2>3, SenatorIsCustomer DEF KernelTypes, KernelCustomerTypes
  <2>6. myLine'[Senator] = myLine[Senator]
    BY <2>1, <2>4, SenatorIsCustomer DEF KernelTypes, KernelLineTypes
  <2> QED BY <2>2, <2>5, <2>6 DEF OtherStep
<1>2. ASSUME KernelCountLines \/ CountPassports \/ CheckProgress  PROVE OtherStep
  <2>1. clerkPlace' = clerkPlace \/ WakeUpClerks
    BY <1>2 DEF KernelCountLines, CountPassports, CheckProgress
  <2>2. \A k \in Clerks : clerkPlace'[k] = clerkPlace[k] \/ (clerkPlace[k] = "break" /\ clerkPlace'[k] = "test")
    BY <2>1 DEF WakeUpClerks, KernelTypes, KernelClerkTypes
  <2>3. UNCHANGED <<version, senatorLineCount, clerkSenatorCV, clerkSenatorCVLock, reached, customerPlace, myLine>>
    BY <1>2 DEF KernelCountLines, CountPassports, CheckProgress
  <2> QED BY <2>2, <2>3 DEF OtherStep
<1>3. ASSUME (OfficeOver /\ UNCHANGED kernelVars) \/ UNCHANGED officeKernelVars  PROVE OtherStep
  BY <1>3 DEF OfficeOver, OtherStep
<1> QED BY <1>1, <1>2, <1>3

LEMMA OthersLeaveTheSenator ==
  ASSUME KernelTypes, HasSenator, Clerks' = Clerks, clerkTypes' = clerkTypes, SenatorInv, OtherStep
  PROVE  SenatorInv'
<1>1. /\ UNCHANGED <<version, senatorLineCount, clerkSenatorCV, clerkSenatorCVLock, reached>>
      /\ customerPlace'[Senator] = customerPlace[Senator] /\ myLine'[Senator] = myLine[Senator]
      /\ \A k \in Clerks : \/ clerkPlace'[k] = clerkPlace[k]
                           \/ clerkPlace[k] = "break" /\ clerkPlace'[k] = "test"
  BY DEF OtherStep
<1>2. \A k : WaitsForSenator(k) /\ k \in Clerks => WaitsForSenator(k)'
  BY <1>1 DEF WaitsForSenator, Self
<1>3. SenatorIsOut => SenatorIsOut'
  BY <1>1 DEF SenatorIsOut
<1>4. \A j : SenatorAsks(j) => SenatorAsks(j)'
  BY <1>1, <1>2 DEF SenatorAsks
<1>5. SenatorIsServed => SenatorIsServed'
  <2>1. Candidates(Senator)' = Candidates(Senator)
    BY <1>1 DEF Candidates
  <2>2. LastCandidate' = LastCandidate
    BY <2>1 DEF LastCandidate
  <2>3. ASSUME SenatorIsServed, NEW k \in Clerks
        PROVE  /\ clerkPlace'[k] \in {"top", "senator", "forSenator", "toSenator", "counter", "signOff"}
               /\ IsCalled(k)' => k = myLine'[Senator] /\ k = LastCandidate'
    <3>1. clerkPlace'[k] = clerkPlace[k]
      BY <1>1, <2>3 DEF SenatorIsServed
    <3>2. IsCalled(k)' <=> IsCalled(k)
      BY <1>1, <3>1 DEF IsCalled, Self
    <3> QED BY <1>1, <2>2, <2>3, <3>1, <3>2, Zenon DEF SenatorIsServed
  <2> QED BY <1>1, <2>3 DEF SenatorIsServed
<1>6. HasSenator'
  BY <1>1 DEF HasSenator
<1> QED BY <1>1, <1>3, <1>4, <1>5, <1>6 DEF SenatorInv

\* A clerk, before the senator has come.
LEMMA ClerkBeforeSenator ==
  ASSUME KernelTypes, HasSenator, Clerks' = Clerks, NEW k \in Clerks, KernelClerkStep(k), SenatorIsOut
  PROVE  SenatorIsOut'
<1>1. /\ senatorLineCount' = senatorLineCount
      /\ \/ PlainStep(k) \/ WorkStep(k)
         \/ AnswerSenator(k) \/ CalledBySenator(k) \/ SenatorHasLeft(k) \/ StandForSenator(k)
  BY ClerkSteps
<1>2. ~(AnswerSenator(k) \/ CalledBySenator(k) \/ SenatorHasLeft(k) \/ StandForSenator(k))
  BY DEF SenatorIsOut, AnswerSenator, CalledBySenator, SenatorHasLeft, StandForSenator, BackFromSenator
<1>3. clerkPlace \in [Clerks -> KernelClerkPlaces]
  BY DEF KernelTypes, KernelClerkTypes
<1>4. CASE PlainStep(k)
  BY <1>1, <1>3, <1>4 DEF PlainStep, SenatorIsOut
<1>5. CASE WorkStep(k)
  BY <1>1, <1>3, <1>5 DEF WorkStep, SenatorIsOut
<1> QED BY <1>1, <1>2, <1>4, <1>5

\* A clerk, while the senator waits for the confirmation of j.
LEMMA ClerkIsAsked ==
  ASSUME OfficeIsFixed, KernelTypes, HasSenator, Clerks' = Clerks, NEW k \in Clerks, KernelClerkStep(k),
         NEW j, SenatorAsks(j)
  PROVE  SenatorAsks(j)'
<1>1. /\ senatorLineCount' = senatorLineCount /\ senatorLineCount = 1 /\ j \in Clerks
      /\ \/ PlainStep(k) \/ WorkStep(k)
         \/ AnswerSenator(k) \/ CalledBySenator(k) \/ SenatorHasLeft(k) \/ StandForSenator(k)
  BY ClerkSteps DEF SenatorAsks
<1>2. clerkPlace \in [Clerks -> KernelClerkPlaces] /\ clerkSenatorCV \in [Clerks -> Seq(Threads)]
      /\ clerkSenatorCVLock \in [Clerks -> Threads \cup {NoCustomer}]
  BY DEF KernelTypes, KernelClerkTypes, KernelSenatorTypes
<1>3. k < j \/ k = j \/ k > j
  BY <1>1 DEF OfficeIsFixed
<1>4. k # j => clerkSenatorCVLock[k] # NoCustomer
  BY <1>1, SenatorIsCustomer DEF SenatorAsks
<1>5. ~(CalledBySenator(k) \/ SenatorHasLeft(k))
  <2>1. SUFFICES ASSUME BackFromSenator(k) PROVE FALSE
    BY DEF CalledBySenator, SenatorHasLeft
  <2>2. k = j /\ clerkPlace[k] = "forSenator" /\ ~IsIn(clerkSenatorCV[k], Self(k))
    BY <1>4, <2>1 DEF BackFromSenator
  <2> QED BY <2>2 DEF SenatorAsks, WaitsForSenator
<1>6. ~StandForSenator(k)
  <2>1. clerkPlace[k] # "toSenator"
    BY <1>3 DEF SenatorAsks, WaitsForSenator
  <2> QED BY <2>1 DEF StandForSenator
<1>7. ASSUME NEW place, clerkPlace[k] \notin {"forSenator", "toSenator"}, place \notin {"forSenator", "toSenator"},
             ClerkGoto(k, place), UNCHANGED <<clerkSenatorCV, clerkSenatorCVLock>>
      PROVE  SenatorAsks(j)'
  <2>1. \A i \in Clerks : i # k => clerkPlace'[i] = clerkPlace[i]
    BY <1>2, <1>7
  <2>2. clerkPlace'[k] = place
    BY <1>2, <1>7
  <2>3. ~WaitsForSenator(k)
    BY <1>7 DEF WaitsForSenator
  <2>4. \A i \in Clerks : WaitsForSenator(i) => WaitsForSenator(i)'
    BY <1>7, <2>1, <2>3 DEF WaitsForSenator, Self
  <2>5. \A i \in Clerks : clerkPlace[i] \notin {"forSenator", "toSenator"} => clerkPlace'[i] \notin {"forSenator", "toSenator"}
    BY <1>7, <2>1, <2>2
  <2> QED BY <1>1, <1>7, <2>4, <2>5 DEF SenatorAsks
<1>8. CASE PlainStep(k)
  BY <1>1, <1>7, <1>8 DEF PlainStep
<1>9. CASE WorkStep(k)
  BY <1>7, <1>9 DEF WorkStep
<1>10. CASE AnswerSenator(k)
  <2>1. k = j /\ clerkPlace[j] = "senator"
    BY <1>4, <1>10 DEF AnswerSenator
  <2>2. clerkSenatorCV[j] = <<Senator>>
    BY <2>1 DEF SenatorAsks, WaitsForSenator
  <2>3. Append(TailOf(<<Senator>>), Self(j)) = <<Self(j)>>
    BY DEF TailOf
  <2>4. /\ clerkSenatorCV'[j] = <<Self(j)>> /\ clerkPlace'[j] = "forSenator"
        /\ clerkSenatorCVLock' = clerkSenatorCVLock
        /\ \A i \in Clerks : i # j => clerkSenatorCV'[i] = clerkSenatorCV[i] /\ clerkPlace'[i] = clerkPlace[i]
    BY <1>2, <1>10, <2>1, <2>2, <2>3 DEF AnswerSenator
  <2>5. IsIn(<<Self(j)>>, Self(j)) /\ ~IsIn(<<Self(j)>>, Senator)
    <3>1. Self(j) # Senator
      BY <1>1, SenatorIsCustomer, ThreadNumbers
    <3>2. Range(<<Self(j)>>) = {Self(j)}
      BY DEF Range
    <3> QED BY <3>1, <3>2 DEF IsIn
  <2>6. WaitsForSenator(j)' /\ ~IsIn(clerkSenatorCV'[j], Senator)
    BY <2>4, <2>5 DEF WaitsForSenator, Self
  <2>7. \A i \in Clerks : i # j /\ WaitsForSenator(i) => WaitsForSenator(i)'
    BY <2>4 DEF WaitsForSenator, Self
  <2>8. \A i \in Clerks : i < j \/ i > j => i # j
    BY <1>1 DEF OfficeIsFixed
  <2> QED BY <1>1, <2>4, <2>6, <2>7, <2>8 DEF SenatorAsks
<1> QED BY <1>1, <1>5, <1>6, <1>8, <1>9, <1>10

\* A clerk, once all have confirmed.
LEMMA ClerkIsServing ==
  ASSUME OfficeIsFixed, KernelTypes, HasSenator, Clerks' = Clerks, clerkTypes' = clerkTypes,
         NEW k \in Clerks, KernelClerkStep(k), SenatorIsServed
  PROVE  SenatorIsServed'
<1>1. /\ UNCHANGED <<senatorLineCount, myLine>> /\ senatorLineCount = 1
      /\ \/ PlainStep(k) \/ WorkStep(k)
         \/ AnswerSenator(k) \/ CalledBySenator(k) \/ SenatorHasLeft(k) \/ StandForSenator(k)
  BY ClerkSteps DEF SenatorIsServed
<1>2. clerkPlace \in [Clerks -> KernelClerkPlaces] /\ clerkSenatorCV \in [Clerks -> Seq(Threads)]
  BY DEF KernelTypes, KernelClerkTypes, KernelSenatorTypes
<1>3. \A i \in Clerks : /\ clerkPlace[i] \in {"top", "senator", "forSenator", "toSenator", "counter", "signOff"}
                        /\ IsCalled(i) => i = myLine[Senator] /\ i = LastCandidate
  BY DEF SenatorIsServed
\* Whoever is called after a step that leaves reached alone was called before.
<1>4. ASSUME UNCHANGED reached,
             clerkPlace'[k] \in {"top", "senator", "forSenator", "toSenator", "counter", "signOff"},
             IsCalled(k)' => IsCalled(k),
             \A i \in Clerks : i # k => clerkPlace'[i] = clerkPlace[i] /\ clerkSenatorCV'[i] = clerkSenatorCV[i]
      PROVE  SenatorIsServed'
  <2>1. Candidates(Senator)' = Candidates(Senator)
    BY <1>4 DEF Candidates
  <2>2. LastCandidate' = LastCandidate
    BY <2>1 DEF LastCandidate
  <2>3. \A i \in Clerks : IsCalled(i)' => IsCalled(i)
    BY <1>4 DEF IsCalled, Self
  <2> QED BY <1>1, <1>3, <1>4, <2>2, <2>3 DEF SenatorIsServed
<1>5. ~SenatorHasLeft(k)
  BY <1>1 DEF SenatorHasLeft
<1>6. CASE PlainStep(k)
  <2>1. /\ UNCHANGED <<reached, clerkSenatorCV>>
        /\ \/ ClerkGoto(k, "senator") \/ ClerkGoto(k, "top")
    BY <1>1, <1>3, <1>6 DEF PlainStep
  <2>2. /\ clerkPlace'[k] \in {"senator", "top"} /\ ~IsCalled(k)'
        /\ \A i \in Clerks : i # k => clerkPlace'[i] = clerkPlace[i]
    BY <1>2, <2>1 DEF IsCalled
  <2> QED BY <1>4, <2>1, <2>2
<1>7. CASE WorkStep(k)
  <2>1. IsCalled(k) /\ clerkPlace'[k] = "signOff" /\ clerkSenatorCV' = clerkSenatorCV
        /\ \A i \in Clerks : i # k => clerkPlace'[i] = clerkPlace[i]
    BY <1>2, <1>7 DEF WorkStep, IsCalled
  <2>2. \A i \in Clerks : ~IsCalled(i)'
    BY <1>3, <2>1 DEF IsCalled, Self
  <2>3. \A i \in Clerks : clerkPlace'[i] \in {"top", "senator", "forSenator", "toSenator", "counter", "signOff"}
    BY <1>3, <2>1
  <2> QED BY <1>1, <2>2, <2>3 DEF SenatorIsServed
<1>8. CASE AnswerSenator(k)
  <2>1. /\ clerkPlace'[k] = "forSenator" /\ clerkSenatorCV'[k] = Append(TailOf(clerkSenatorCV[k]), Self(k))
        /\ \A i \in Clerks : i # k => clerkPlace'[i] = clerkPlace[i] /\ clerkSenatorCV'[i] = clerkSenatorCV[i]
        /\ UNCHANGED reached
    BY <1>2, <1>8 DEF AnswerSenator
  <2>2. ASSUME NEW q \in Seq(Threads)  PROVE IsIn(Append(TailOf(q), Self(k)), Self(k))
    <3>1. TailOf(q) \in Seq(Threads) /\ Len(TailOf(q)) \in Nat
      BY DEF TailOf
    <3> DEFINE r == TailOf(q)
    <3> HIDE DEF r
    <3>2. r \in Seq(Threads) /\ Len(r) \in Nat /\ Self(k) \in Threads
      BY <3>1 DEF r, Threads
    <3>3. Len(r) + 1 \in DOMAIN Append(r, Self(k)) /\ Append(r, Self(k))[Len(r) + 1] = Self(k)
      BY <3>2
    <3>4. IsIn(Append(r, Self(k)), Self(k))
      BY <3>3 DEF IsIn, Range
    <3> QED BY <3>4 DEF r
  <2>3. ~IsCalled(k)'
    BY <1>2, <2>1, <2>2 DEF IsCalled, Self
  <2> QED BY <1>4, <2>1, <2>3
<1>9. CASE CalledBySenator(k)
  <2>1. /\ clerkPlace'[k] = "toSenator" /\ clerkSenatorCV' = clerkSenatorCV /\ UNCHANGED reached
        /\ \A i \in Clerks : i # k => clerkPlace'[i] = clerkPlace[i]
    BY <1>2, <1>9 DEF CalledBySenator
  <2>2. IsCalled(k)
    BY <1>9 DEF CalledBySenator, BackFromSenator, IsCalled
  <2> QED BY <1>4, <2>1, <2>2
<1>10. CASE StandForSenator(k)
  <2>1. /\ clerkPlace'[k] = "counter" /\ UNCHANGED reached
        /\ \A i \in Clerks : i # k => clerkPlace'[i] = clerkPlace[i] /\ clerkSenatorCV'[i] = clerkSenatorCV[i]
    BY <1>2, <1>10 DEF StandForSenator, GoToCounter
  <2>2. IsCalled(k)
    BY <1>10 DEF StandForSenator, IsCalled
  <2> QED BY <1>4, <2>1, <2>2
<1> QED BY <1>1, <1>5, <1>6, <1>7, <1>8, <1>9, <1>10

\* The senator signals the last clerk that can do something and waits for it.
LEMMA VisitCalls ==
  ASSUME KernelTypes, Clerks' = Clerks, clerkTypes' = clerkTypes, UNCHANGED <<reached, clerkPlace>>,
         NEW locks, Visit(locks),
         senatorLineCount' = 1,
         \A k \in Clerks :
           /\ clerkPlace[k] \in {"top", "senator", "forSenator", "toSenator", "counter", "signOff"}
           /\ IsCalled(k) => k = LastCandidate
  PROVE  SenatorIsServed'
<1>1. /\ clerkSenatorCV' = [clerkSenatorCV EXCEPT ![LastCandidate] = Append(TailOf(@), Senator)]
      /\ myLine' = [myLine EXCEPT ![Senator] = LastCandidate]
  BY DEF Visit, LastCandidate
<1>2. Candidates(Senator)' = Candidates(Senator)
  BY DEF Candidates
<1>3. LastCandidate' = LastCandidate
  BY <1>2 DEF LastCandidate
<1> DEFINE last == LastCandidate
<1> HIDE DEF last
<1>4. clerkSenatorCV \in [Clerks -> Seq(Threads)] /\ DOMAIN myLine = Customers
  BY DEF KernelTypes, KernelSenatorTypes, KernelLineTypes
<1>5. \A k \in Clerks : k # last => clerkSenatorCV'[k] = clerkSenatorCV[k]
  <2>1. clerkSenatorCV' = [clerkSenatorCV EXCEPT ![last] = Append(TailOf(@), Senator)]
    BY <1>1 DEF last
  <2> QED BY <1>4, <2>1
<1>6. myLine'[Senator] = last
  BY <1>1, <1>4, SenatorIsCustomer DEF last
<1>7. ASSUME NEW k \in Clerks, IsCalled(k)'  PROVE k = last
  <2>1. CASE k # last
    <3>1. IsCalled(k)
      BY <1>5, <1>7, <2>1 DEF IsCalled, Self
    <3> QED BY <2>1, <3>1 DEF last
  <2> QED BY <2>1
<1> QED BY <1>3, <1>6, <1>7 DEF SenatorIsServed, last

\* The senator's own steps.
LEMMA SenatorMoves ==
  ASSUME OfficeIsFixed, KernelTypes, ClerksAreInOrder, HasSenator, Clerks' = Clerks, clerkTypes' = clerkTypes,
         SenatorInv, SenatorStep
  PROVE  SenatorInv'
<1>1. PICK first \in Nat : ClerksAreNumbered(first)
  BY ClerksNumbered
<1>2. /\ first \in Clerks /\ first = CHOOSE k \in Clerks : \A j \in Clerks : k <= j
      /\ \A k \in Clerks : first <= k /\ k \in Nat
      /\ \A k, i \in Clerks : k + 1 \notin Clerks => i <= k
  <2>1. Below(clerkArray, 4) \in Nat
    <3>1. \A i \in 1 .. 4 : clerkArray[i] \in Nat
      BY DEF ClerksAreInOrder
    <3>2. Below(clerkArray, 4) = clerkArray[1] + clerkArray[2] + clerkArray[3] + clerkArray[4]
      BY BelowIs DEF ClerksAreInOrder
    <3> QED BY <3>1, <3>2
  <2>2. Clerks = first .. first + Below(clerkArray, 4) - 1
    BY <1>1, Zenon DEF ClerksAreNumbered
  <2>3. first \in Clerks /\ first = CHOOSE k \in Clerks : \A j \in Clerks : k <= j
    BY <1>1, Zenon DEF ClerksAreNumbered
  <2>4. \A k \in Clerks : first <= k /\ k \in Nat
    BY <2>1, <2>2
  <2>5. \A k, i \in Clerks : k + 1 \notin Clerks => i <= k
    BY <2>1, <2>2
  <2> QED BY <2>3, <2>4, <2>5
<1>3. /\ clerkPlace \in [Clerks -> KernelClerkPlaces] /\ clerkSenatorCV \in [Clerks -> Seq(Threads)]
      /\ clerkSenatorCVLock \in [Clerks -> Threads \cup {NoCustomer}]
      /\ DOMAIN myLine = Customers /\ customerPlace \in [Customers -> KernelCustomerPlaces]
  BY DEF KernelTypes, KernelClerkTypes, KernelSenatorTypes, KernelLineTypes, KernelCustomerTypes
<1>4. Senator \in Customers /\ Senator # NoCustomer
  BY SenatorIsCustomer
<1>5. UNCHANGED <<version, reached, clerkPlace>> /\ HasSenator'
  <2>1. UNCHANGED <<version, reached, clerkPlace>>
    BY DEF SenatorStep, SenatorArrives, Confirmed, AllConfirmed, SenatorApproaches, SenatorGoesOn, SenatorLeaves
  <2> QED BY <2>1 DEF HasSenator
<1>6. ASSUME NEW place, CustomerGoto(Senator, place)  PROVE customerPlace'[Senator] = place
  BY <1>3, <1>4, <1>6
<1>7. CASE SenatorArrives
  <2>1. customerPlace[Senator] = "arrive" /\ SenatorIsOut
    BY <1>7 DEF SenatorArrives, SenatorInv
  <2>2. /\ senatorLineCount' = 1 /\ clerkPlace' = clerkPlace
        /\ clerkSenatorCVLock' = [k \in Clerks |-> IF k = first THEN NoCustomer ELSE Senator]
        /\ clerkSenatorCV' = [clerkSenatorCV EXCEPT ![first] = Append(@, Senator)]
        /\ myLine' = [myLine EXCEPT ![Senator] = first]
        /\ CustomerGoto(Senator, "confirm")
    <3> DEFINE min == CHOOSE k \in Clerks : \A j \in Clerks : k <= j
    <3>1. first = min
      BY <1>2
    <3>2. /\ senatorLineCount' = 1 /\ clerkPlace' = clerkPlace
          /\ clerkSenatorCVLock' = [k \in Clerks |-> IF k = min THEN NoCustomer ELSE Senator]
          /\ clerkSenatorCV' = [clerkSenatorCV EXCEPT ![min] = Append(@, Senator)]
          /\ myLine' = [myLine EXCEPT ![Senator] = min]
          /\ CustomerGoto(Senator, "confirm")
      BY <1>7 DEF SenatorArrives
    <3> HIDE DEF min
    <3> QED BY <3>1, <3>2
  <2>3. customerPlace'[Senator] = "confirm" /\ myLine'[Senator] = first
    BY <1>3, <1>4, <1>6, <2>2
  <2>4. \A k \in Clerks : clerkSenatorCV[k] = << >> /\ clerkPlace[k] \notin {"senator", "forSenator", "toSenator"}
    BY <2>1 DEF SenatorIsOut
  <2>5. /\ clerkSenatorCV'[first] = <<Senator>>
        /\ \A k \in Clerks : k # first => clerkSenatorCV'[k] = << >> /\ clerkSenatorCVLock'[k] = Senator
    <3>1. Append(<< >>, Senator) = <<Senator>>
      OBVIOUS
    <3> QED BY <1>2, <1>3, <2>2, <2>4, <3>1
  <2>6. SenatorAsks(first)'
    <3>0. \A k \in Clerks : first <= k /\ k \in Nat
      BY <1>2, Zenon
    <3>1. \A k \in Clerks : ~(k < first) /\ (k > first => k # first)
      BY <3>0
    <3> QED BY <1>2, <2>2, <2>4, <2>5, <3>1 DEF SenatorAsks
  <2> QED BY <1>5, <2>3, <2>6 DEF SenatorInv
<1>8. ASSUME NEW j \in Clerks, Confirmed(j)  PROVE SenatorInv'
  <2>1. /\ customerPlace[Senator] = "confirm" /\ j = myLine[Senator] /\ ~IsIn(clerkSenatorCV[j], Senator)
        /\ j + 1 \in Clerks
        /\ clerkSenatorCVLock' = [clerkSenatorCVLock EXCEPT ![j] = Senator, ![j + 1] = NoCustomer]
        /\ clerkSenatorCV' = [clerkSenatorCV EXCEPT ![j + 1] = Append(@, Senator)]
        /\ myLine' = [myLine EXCEPT ![Senator] = j + 1]
        /\ UNCHANGED <<customerPlace, senatorLineCount>>
    BY <1>8 DEF Confirmed, SenatorIsBack
  <2>2. SenatorAsks(j)
    BY <2>1 DEF SenatorInv
  <2>3. WaitsForSenator(j)
    <3>1. IsIn(<<Senator>>, Senator)
      <4>1. Range(<<Senator>>) = {Senator}
        BY DEF Range
      <4> QED BY <4>1 DEF IsIn
    <3> QED BY <2>1, <2>2, <3>1 DEF SenatorAsks
  <2> DEFINE n == j + 1
  <2>4. n \in Clerks /\ j \in Nat /\ j < n /\ \A k \in Clerks : (k < n <=> k < j \/ k = j) /\ (k > n => k > j) /\ (k # n /\ k # j => k < j \/ k > n)
    BY <1>2, <2>1
  <2> HIDE DEF n
  <2>5. /\ clerkSenatorCVLock' = [clerkSenatorCVLock EXCEPT ![j] = Senator, ![n] = NoCustomer]
        /\ clerkSenatorCV' = [clerkSenatorCV EXCEPT ![n] = Append(@, Senator)]
        /\ myLine' = [myLine EXCEPT ![Senator] = n]
    BY <2>1 DEF n
  <2>6. n > j /\ n # j
    BY <1>2, <2>4
  <2>7. clerkSenatorCV[n] = << >> /\ clerkPlace[n] \notin {"forSenator", "toSenator"}
    BY <2>2, <2>4, <2>6 DEF SenatorAsks
  <2>8. clerkSenatorCV'[n] = <<Senator>> /\ \A k \in Clerks : k # n => clerkSenatorCV'[k] = clerkSenatorCV[k]
    <3>1. Append(<< >>, Senator) = <<Senator>>
      OBVIOUS
    <3> QED BY <1>3, <2>4, <2>5, <2>7, <3>1
  <2>9. \A k \in Clerks : k # n => clerkSenatorCVLock'[k] = Senator
    <3>1. \A k \in Clerks : k # j => clerkSenatorCVLock[k] = Senator
      BY <2>2 DEF SenatorAsks
    <3> QED BY <1>3, <2>5, <3>1
  <2>10. \A k \in Clerks : k # n /\ WaitsForSenator(k) => WaitsForSenator(k)'
    BY <1>5, <2>8 DEF WaitsForSenator, Self
  <2>11. \A k \in Clerks : k < n => WaitsForSenator(k)'
    <3>1. \A k \in Clerks : k < j => WaitsForSenator(k)
      BY <2>2 DEF SenatorAsks
    <3>2. \A k \in Clerks : k < n => k # n
      BY <1>2, <2>4
    <3> QED BY <2>3, <2>4, <2>10, <3>1, <3>2
  <2>12. \A k \in Clerks : k > n => clerkSenatorCV'[k] = << >> /\ clerkPlace'[k] \notin {"forSenator", "toSenator"}
    <3>1. \A k \in Clerks : k > j => clerkSenatorCV[k] = << >> /\ clerkPlace[k] \notin {"forSenator", "toSenator"}
      BY <2>2 DEF SenatorAsks
    <3>2. \A k \in Clerks : k > n => k # n
      BY <1>2, <2>4
    <3> QED BY <1>5, <2>4, <2>8, <3>1, <3>2
  <2>13. senatorLineCount' = 1
    BY <2>1, <2>2 DEF SenatorAsks
  <2>14. SenatorAsks(n)'
    BY <1>5, <2>4, <2>7, <2>8, <2>9, <2>11, <2>12, <2>13 DEF SenatorAsks
  <2>15. customerPlace'[Senator] = "confirm" /\ myLine'[Senator] = n
    BY <1>3, <1>4, <2>1, <2>5
  <2> QED BY <1>5, <2>14, <2>15 DEF SenatorInv
<1>9. ASSUME NEW j \in Clerks, AllConfirmed(j)  PROVE SenatorInv'
  <2>1. /\ customerPlace[Senator] = "confirm" /\ j = myLine[Senator] /\ ~IsIn(clerkSenatorCV[j], Senator)
        /\ j + 1 \notin Clerks /\ senatorLineCount' = senatorLineCount
        /\ Visit([clerkSenatorCVLock EXCEPT ![j] = Senator]) /\ CustomerGoto(Senator, "visit")
    BY <1>9 DEF AllConfirmed, SenatorIsBack, Visit
  <2>2. SenatorAsks(j)
    BY <2>1 DEF SenatorInv
  <2>3. WaitsForSenator(j)
    <3>1. IsIn(<<Senator>>, Senator)
      <4>1. Range(<<Senator>>) = {Senator}
        BY DEF Range
      <4> QED BY <4>1 DEF IsIn
    <3> QED BY <2>1, <2>2, <3>1 DEF SenatorAsks
  <2>4. \A k \in Clerks : k < j \/ k = j
    BY <1>2, <2>1
  <2>5. \A k \in Clerks : WaitsForSenator(k)
    BY <2>2, <2>3, <2>4 DEF SenatorAsks
  <2>6. \A k \in Clerks : clerkPlace[k] = "forSenator" /\ ~IsCalled(k)
    BY <2>5 DEF WaitsForSenator, IsCalled
  <2>7. senatorLineCount' = 1
    BY <2>1, <2>2 DEF SenatorAsks
  <2>8. SenatorIsServed'
    BY <1>5, <2>1, <2>6, <2>7, VisitCalls
  <2>9. customerPlace'[Senator] = "visit"
    BY <1>6, <2>1
  <2> QED BY <1>5, <2>8, <2>9 DEF SenatorInv
<1>10. ASSUME NEW k \in Clerks, SenatorApproaches(k)  PROVE SenatorInv'
  <2>1. /\ customerPlace[Senator] = "visit" /\ CustomerGoto(Senator, "served")
        /\ UNCHANGED <<myLine, senatorLineCount, clerkSenatorCV>>
    BY <1>10 DEF SenatorApproaches, SenatorIsBack
  <2>2. SenatorIsServed
    BY <2>1 DEF SenatorInv
  <2>3. Candidates(Senator)' = Candidates(Senator)
    BY <1>5 DEF Candidates
  <2>4. LastCandidate' = LastCandidate
    BY <2>3 DEF LastCandidate
  <2>5. \A i \in Clerks : IsCalled(i)' <=> IsCalled(i)
    BY <1>5, <2>1 DEF IsCalled, Self
  <2>6. SenatorIsServed'
    BY <1>5, <2>1, <2>2, <2>4, <2>5 DEF SenatorIsServed
  <2>7. customerPlace'[Senator] = "served"
    BY <1>6, <2>1
  <2> QED BY <1>5, <2>6, <2>7 DEF SenatorInv
<1>11. ASSUME NEW k \in Clerks, SenatorGoesOn(k)  PROVE SenatorInv'
  <2>1. /\ customerPlace[Senator] = "served" /\ Visit(clerkSenatorCVLock)
        /\ CustomerGoto(Senator, "visit") /\ senatorLineCount' = senatorLineCount
    BY <1>11 DEF SenatorGoesOn, SenatorServedBy, Visit
  <2>2. SenatorIsServed
    BY <2>1 DEF SenatorInv
  <2>3. /\ senatorLineCount' = 1
        /\ \A i \in Clerks :
             /\ clerkPlace[i] \in {"top", "senator", "forSenator", "toSenator", "counter", "signOff"}
             /\ IsCalled(i) => i = LastCandidate
    BY <2>1, <2>2 DEF SenatorIsServed
  <2>4. SenatorIsServed'
    BY <1>5, <2>1, <2>3, VisitCalls
  <2>5. customerPlace'[Senator] = "visit"
    BY <1>6, <2>1
  <2> QED BY <1>5, <2>4, <2>5 DEF SenatorInv
<1>12. ASSUME NEW k \in Clerks, SenatorLeaves(k)  PROVE SenatorInv'
  <2>1. customerPlace'[Senator] = "gone"
    BY <1>6, <1>12 DEF SenatorLeaves
  <2> QED BY <2>1 DEF SenatorInv
<1> QED BY <1>7, <1>8, <1>9, <1>10, <1>11, <1>12 DEF SenatorStep

LEMMA KernelSenatorKept ==
  ASSUME KernelInv, [KernelOfficeNext]_officeKernelVars
  PROVE  SenatorInv'
<1>1. OfficeIsFixed /\ KernelTypes /\ ClerksAreInOrder /\ SenatorInv
  BY KernelTypesInGroups DEF KernelInv, KernelTypes
<1>2. UNCHANGED <<clerkTypes, version>> /\ Clerks' = Clerks
  BY <1>1, KernelStaysFixed
<1>3. HasSenator' <=> HasSenator
  BY <1>2 DEF HasSenator
<1>4. CASE ~HasSenator
  BY <1>3, <1>4 DEF SenatorInv
<1>5. CASE HasSenator
  <2>1. ASSUME NEW k \in Clerks, KernelClerkStep(k)  PROVE SenatorInv'
    <3>1. customerPlace' = customerPlace /\ myLine' = myLine
      BY <1>5, <2>1, ClerkSteps
    <3>2. SenatorIsOut => SenatorIsOut'
      BY <1>1, <1>2, <1>5, <2>1, ClerkBeforeSenator
    <3>3. \A j : SenatorAsks(j) => SenatorAsks(j)'
      BY <1>1, <1>2, <1>5, <2>1, ClerkIsAsked
    <3>4. SenatorIsServed => SenatorIsServed'
      BY <1>1, <1>2, <1>5, <2>1, ClerkIsServing
    <3> QED BY <1>1, <1>2, <3>1, <3>2, <3>3, <3>4 DEF SenatorInv, HasSenator
  <2>2. ASSUME SenatorStep  PROVE SenatorInv'
    BY <1>1, <1>2, <1>5, <2>2, SenatorMoves
  <2>3. ASSUME \/ \E c \in People : KernelCustomerStep(c)
               \/ KernelCountLines \/ CountPassports \/ CheckProgress
               \/ OfficeOver /\ UNCHANGED kernelVars
               \/ UNCHANGED officeKernelVars
        PROVE  SenatorInv'
    BY <1>1, <1>2, <1>5, <2>3, OtherSteps, OthersLeaveTheSenator
  <2> QED BY <2>1, <2>2, <2>3 DEF KernelOfficeNext
<1> QED BY <1>4, <1>5

----------------------------------------------------------------------------
(***************************************************************************)
(* Every step of every program.                                            *)
(***************************************************************************)
LEMMA KernelBegins ==
  ASSUME NEW office \in KernelOffices, KernelInit(office)
  PROVE  KernelInv
<1>1. /\ ClerksBegin(office) /\ CustomersBegin(office) /\ LinesBegin /\ SenatorsBegin
      /\ version = office.version /\ clerkArray = office.clerkArray
      /\ manager = "count" /\ allCustomersAreDone = FALSE /\ brought = Total(money)
  BY DEF KernelInit, BooksBegin
<1>2. /\ office.version \in {"threadtest", "properTestfile"}
      /\ office.clerkArray \in [1 .. 4 -> Nat] /\ \E i \in 1 .. 4 : office.clerkArray[i] # 0
      /\ office.first \in Nat /\ office.types = ClerkThreads(office.first, office.clerkArray)
      /\ office.reached \subseteq Stages
      /\ office.clerks \in {"choose", "top"}
  BY KernelOfficeAssumption
<1>3. clerkTypes = office.types
  BY <1>1 DEF ClerksBegin
<1>4. ClerksAreInOrder
  BY <1>1, <1>2, <1>3 DEF ClerksAreInOrder
<1>5. PICK first \in Nat : ClerksAreNumbered(first)
  BY <1>4, ClerksNumbered
<1>6. /\ Below(clerkArray, 4) \in Nat
      /\ \A i \in 1 .. 4 : Below(clerkArray, i) \in Nat
      /\ Clerks = first .. first + Below(clerkArray, 4) - 1
  <2>1. \A i \in 1 .. 4 : clerkArray[i] \in Nat
    BY <1>1, <1>2
  <2>2. clerkArray \in [1 .. 4 -> Nat]
    BY <1>1, <1>2
  <2>3. /\ Below(clerkArray, 1) \in Nat /\ Below(clerkArray, 2) \in Nat
        /\ Below(clerkArray, 3) \in Nat /\ Below(clerkArray, 4) \in Nat
    BY <2>1, <2>2, BelowIs
  <2>4. \A i \in 1 .. 4 : i = 1 \/ i = 2 \/ i = 3 \/ i = 4
    OBVIOUS
  <2>5. Clerks = first .. first + Below(clerkArray, 4) - 1
    BY <1>5, Zenon DEF ClerksAreNumbered
  <2> QED BY <2>3, <2>4, <2>5
<1>7. IsFiniteSet(Clerks) /\ Clerks \subseteq Nat
  <2>1. first \in Int /\ first + Below(clerkArray, 4) - 1 \in Int
    BY <1>6
  <2>2. IsFiniteSet(first .. first + Below(clerkArray, 4) - 1)
    BY <2>1, FS_Interval
  <2> QED BY <1>6, <2>2
<1>8. clerkTypes \in [Clerks -> Types]
  <2>1. clerkTypes = [k \in Clerks |-> clerkTypes[k]]
    BY <1>2, <1>3 DEF ClerkThreads, Clerks
  <2>2. ASSUME NEW k \in Clerks  PROVE clerkTypes[k] \in Types
    <3>1. PICK f \in Nat : clerkTypes = ClerkThreads(f, clerkArray)
      BY <1>4 DEF ClerksAreInOrder
    <3>2. clerkTypes[k] = Numbered(clerkArray)[k - f + 1] /\ k \in f .. f + Len(Numbered(clerkArray)) - 1
      BY <3>1 DEF ClerkThreads, Clerks
    <3>3. clerkArray \in [1 .. 4 -> Nat] /\ Len(Numbered(clerkArray)) = Below(clerkArray, 4)
      BY <1>1, <1>2, NumberedIs
    <3>4. k - f + 1 \in 1 .. Below(clerkArray, 4)
      BY <1>6, <3>2, <3>3
    <3> DEFINE n == k - f + 1
    <3> HIDE DEF n
    <3>5. n \in 1 .. Below(clerkArray, 4) /\ clerkTypes[k] = Numbered(clerkArray)[n]
      BY <3>2, <3>4 DEF n
    <3>6. \E i \in 1 .. 4 : n \in Below(clerkArray, i - 1) + 1 .. Below(clerkArray, i)
      BY <3>3, <3>5, SomeType
    <3>7. \E i \in 1 .. 4 : Numbered(clerkArray)[n] = ClerkTypes[i]
      BY <3>3, <3>6, NumberedIs
    <3>8. \A i \in 1 .. 4 : ClerkTypes[i] \in Types
      BY DEF ClerkTypes, Types
    <3> QED BY <3>5, <3>7, <3>8
  <2> QED BY <2>1, <2>2
<1>9. money \in [Customers -> Nat]
  BY <1>1, OfficeAssumption DEF CustomersBegin
<1>10. brought \in Nat
  <2>1. IsFiniteSet(Customers)
    BY OfficeAssumption, FS_Interval DEF Customers
  <2>2. SumOver(money, Customers) \in Nat /\ DOMAIN money = Customers
    BY <1>9, <2>1, SumOfNats
  <2> QED BY <1>1, <2>2, TotalIs
<1>11. OfficeIsFixed
  BY <1>7, <1>8, <1>10 DEF OfficeIsFixed
<1>12. /\ KernelTypeOK /\ KernelMoneyTypes /\ KernelLineTypes /\ reached \in [Customers -> SUBSET Stages]
  <2>1. << >> \in Seq(Customers) /\ << >> \in Seq(Threads)
    OBVIOUS
  <2>2. KernelClerkTypes /\ KernelCustomerTypes
    BY <1>1, <1>2 DEF KernelClerkTypes, KernelCustomerTypes, KernelClerkPlaces, KernelCustomerPlaces, ClerksBegin,
       CustomersBegin
  <2>3. KernelQueueTypes /\ KernelSenatorTypes
    BY <1>1, <2>1 DEF KernelQueueTypes, KernelSenatorTypes, LinesBegin, SenatorsBegin
  <2>4. KernelMoneyTypes
    BY <1>1, <1>9 DEF KernelMoneyTypes, ClerksBegin
  <2>5. KernelLineTypes /\ reached \in [Customers -> SUBSET Stages]
    BY <1>1, <1>2 DEF KernelLineTypes, LinesBegin, CustomersBegin
  <2> QED BY <2>2, <2>3, <2>4, <2>5, KernelTypesInGroups
<1>13. LinesAreReal
  BY <1>1 DEF LinesAreReal, CustomersBegin
<1>14. CountsAreExact
  <2>1. \A k \in Clerks : InLine(k, TRUE) = {} /\ InLine(k, FALSE) = {}
    BY <1>1 DEF InLine, CustomersBegin
  <2>2. \A k \in Clerks : clerkLineCount[k] = 0 /\ clerkBribeLineCount[k] = 0
    BY <1>1 DEF LinesBegin
  <2> QED BY <2>1, <2>2, FS_EmptySet DEF CountsAreExact
<1>15. AllMoneyIsThere
  <2>1. Total(clerkMoney) = 0
    <3>1. DOMAIN clerkMoney = Clerks /\ \A k \in Clerks : clerkMoney[k] = 0
      BY <1>1 DEF ClerksBegin
    <3>2. SumOver(clerkMoney, Clerks) = 0
      BY <1>7, <3>1, SumOfZeros
    <3> QED BY <3>1, <3>2, TotalIs
  <2> QED BY <1>1, <1>10, <2>1 DEF AllMoneyIsThere
<1>16. PassportsAreOut
  BY <1>1 DEF PassportsAreOut
<1>17. SenatorInv
  <2>1. customerPlace[Senator] = "arrive"
    BY <1>1, SenatorIsCustomer DEF CustomersBegin
  <2>2. SenatorIsOut
    BY <1>1, <1>2 DEF SenatorIsOut, SenatorsBegin, ClerksBegin
  <2> QED BY <2>1, <2>2 DEF SenatorInv
<1> QED BY <1>1, <1>2, <1>4, <1>11, <1>12, <1>13, <1>14, <1>15, <1>16, <1>17 DEF KernelInv

LEMMA KernelKeepsOn ==
  ASSUME KernelInv, [KernelOfficeNext]_officeKernelVars
  PROVE  KernelInv'
<1>1. KernelTypes' /\ OfficeIsFixed' /\ ClerksAreInOrder'
  BY KernelTypesKept
<1>2. KernelTypeOK' /\ KernelMoneyTypes' /\ KernelLineTypes' /\ (reached \in [Customers -> SUBSET Stages])'
  BY <1>1, KernelTypesInGroups DEF KernelTypes
<1>3. version' \in {"threadtest", "properTestfile"}
  BY KernelStaysFixed DEF KernelInv
<1> QED BY <1>1, <1>2, <1>3, KernelLinesKept, KernelSalesKept, KernelPassportsKept, KernelSenatorKept DEF KernelInv

ProgramsInv == IF UserProgram THEN UserInv ELSE KernelInv

LEMMA ProgramsBegin == ProgramsInit => ProgramsInv
<1>1. ASSUME UserInit  PROVE ProgramsInv
  BY <1>1, OfficeBegins DEF UserInit, ProgramsInv, UserProgram
<1>2. ASSUME NEW office \in KernelOffices, KernelInit(office)  PROVE ProgramsInv
  BY <1>2, KernelBegins DEF ProgramsInv, UserProgram, KernelInv
<1> QED BY <1>1, <1>2 DEF ProgramsInit

LEMMA ProgramsKeepOn == ProgramsInv /\ [ProgramsNext]_officeKernelVars => ProgramsInv'
<1> SUFFICES ASSUME ProgramsInv, [ProgramsNext]_officeKernelVars  PROVE ProgramsInv'
  OBVIOUS
<1>1. CASE UserProgram
  <2>1. UserInv /\ [OfficeNext]_officeVars /\ version' = version
    BY <1>1 DEF ProgramsInv, ProgramsNext
  <2> QED BY <1>1, <2>1, OfficeKeepsOn DEF ProgramsInv, UserProgram
<1>2. CASE ~UserProgram
  <2>1. KernelInv /\ [KernelOfficeNext]_officeKernelVars
    BY <1>2 DEF ProgramsInv, ProgramsNext
  <2>2. KernelInv'
    BY <2>1, KernelKeepsOn
  <2> QED BY <2>2 DEF ProgramsInv, UserProgram, KernelInv
<1> QED BY <1>1, <1>2

\* The inductive invariant: where customers, clerks, manager and senator are in
\* their code agrees with the queues, counts, locks and money of the office, in
\* each of the programs, with any number of customers and clerks, whatever money
\* the customers bring.
THEOREM OfficesInvariance == ProgramsSpec => []ProgramsInv
<1>1. ProgramsInit => ProgramsInv
  BY ProgramsBegin
<1>2. ProgramsInv /\ [ProgramsNext]_officeKernelVars => ProgramsInv'
  BY ProgramsKeepOn
<1> QED BY <1>1, <1>2, PTL DEF ProgramsSpec

\* The counts of the lines, which clerks, customers and the manager go by, are
\* exact in every program, though a customer leaves its line on its own some
\* time after a clerk has signalled it.
THEOREM LinesAreCounted == ProgramsSpec => []OfficeCountsAreExact
<1>1. ProgramsInv => OfficeCountsAreExact
  BY DEF ProgramsInv, OfficeCountsAreExact, LineCountsAreExact, UserInv, KernelInv
<1> QED BY <1>1, OfficesInvariance, PTL

\* No dollar is lost in the programs for kernel threads, and the manager counts
\* each for the right type.  In the user program, where customers and cashiers
\* change money and clerkMoney under different locks and lose payments on either
\* side, no payment is counted twice on either side.
THEOREM NoPaymentCountsTwice == ProgramsSpec => []SalesAddUp
<1>1. ProgramsInv => SalesAddUp
  <2>1. UserInv => PaymentsAreNotCountedTwice
    BY DEF UserInv, SalesAreKept, PaymentsAreNotCountedTwice
  <2>2. KernelInv => AllMoneyIsThere /\ ManagerCountsRight
    BY ManagerIsRight DEF KernelInv
  <2> QED BY <2>1, <2>2 DEF ProgramsInv, SalesAddUp
<1> QED BY <1>1, OfficesInvariance, PTL

\* The manager closes the office only after the last passport, although
\* customersAreAllDone counts the passports without a lock.
THEOREM TheOfficeClosesLast == ProgramsSpec => []OpenUntilAllAreDone
<1>1. ProgramsInv => OpenUntilAllAreDone
  BY DEF ProgramsInv, UserInv, KernelInv, PassportsAreOut, OpenUntilAllAreDone
<1> QED BY <1>1, OfficesInvariance, PTL

\* Once all clerks have confirmed the senator, nobody else is served until it
\* has left, though the clerks read senatorLineCount without a lock.
THEOREM TheSenatorIsFirst == ProgramsSpec => []SenatorGoesFirst
<1>1. ProgramsInv => SenatorGoesFirst
  <2> SUFFICES ASSUME ProgramsInv, HasSenator, customerPlace[Senator] \in {"visit", "served"}, NEW k \in Clerks
      PROVE  /\ clerkPlace[k] \notin {"choose", "break", "test", "toCounter"}
             /\ clerkPlace[k] = "counter" => k = myLine[Senator]
    BY DEF SenatorGoesFirst
  <2>1. KernelInv
    BY DEF ProgramsInv, UserProgram, HasSenator
  <2>2. SenatorIsServed
    BY <2>1 DEF KernelInv, SenatorInv
  <2> QED BY <2>2 DEF SenatorIsServed, IsCalled
<1> QED BY <1>1, OfficesInvariance, PTL

=============================================================================
