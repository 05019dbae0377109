-------------------------------- MODULE Lists --------------------------------
(***************************************************************************)
(* What the loops over lists and the calls of sorted() in the program      *)
(* compute. A loop that accumulates is a function of how many elements it  *)
(* has been through; a stable sort puts every element where the number of  *)
(* those that go before it says.                                           *)
(***************************************************************************)
EXTENDS Integers, Sequences, FiniteSets

\* A loop that appends the elements at some of the places.
KeptTo(s, places) ==
  LET kept[i \in 0..Len(s)] ==
        IF i = 0 THEN <<>>
        ELSE IF i \in places THEN Append(kept[i - 1], s[i]) ELSE kept[i - 1]
  IN kept

Kept(s, places) == KeptTo(s, places)[Len(s)]

\* A loop that extends a list by each of the lists in s.
JoinedTo(s) ==
  LET joined[i \in 0..Len(s)] == IF i = 0 THEN <<>> ELSE joined[i - 1] \o s[i]
  IN joined

Joined(s) == JoinedTo(s)[Len(s)]

\* A loop that adds, and one that multiplies, the numbers in s.
TotalTo(s) ==
  LET total[i \in 0..Len(s)] == IF i = 0 THEN 0 ELSE total[i - 1] + s[i]
  IN total

Total(s) == TotalTo(s)[Len(s)]

ProductTo(s) ==
  LET product[i \in 0..Len(s)] == IF i = 0 THEN 1 ELSE product[i - 1] * s[i]
  IN product

Product(s) == ProductTo(s)[Len(s)]

(***************************************************************************)
(* sorted(s, key=...): equal keys stay in their old order, and they do so  *)
(* with reverse=True, which is the sort by the negated keys. The key of an *)
(* element is computed once (SubSeq makes TLC do so, too).                 *)
(***************************************************************************)
GoesBefore(key, j, i) == key[j] < key[i] \/ (key[j] = key[i] /\ j < i)

Rank(key, i) == Cardinality({j \in DOMAIN key : GoesBefore(key, j, i)})

PlaceOfRank(key, rank) == CHOOSE i \in DOMAIN key : Rank(key, i) = rank

Order(key) ==
  LET keys == SubSeq(key, 1, Len(key))
  IN [p \in DOMAIN key |-> PlaceOfRank(keys, p - 1)]

SortedBy(s, key) == [p \in DOMAIN s |-> s[Order(key)[p]]]

Descending(s, key) == SortedBy(s, [i \in DOMAIN key |-> -key[i]])
==============================================================================
