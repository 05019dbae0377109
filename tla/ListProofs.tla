----------------------------- MODULE ListProofs -----------------------------
(***************************************************************************)
(* What the operators of Lists return, for any sequences: the unfolding of *)
(* the loops, by induction over the elements they have been through, and   *)
(* the sort as a bijection that puts smaller keys first.                   *)
(*                                                                         *)
(* Induction is used in the form of its set: a set that has 0, and n + 1   *)
(* whenever it has n, has all the naturals. It follows from the library's  *)
(* facts about well-founded relations.                                     *)
(***************************************************************************)
EXTENDS Lists, SequenceTheorems, FiniteSetTheorems, TLAPS

LEMMA LeastNatural ==
  ASSUME NEW T \in SUBSET Nat, T # {} PROVE \E n \in T : \A m \in T : n <= m
<1>1. \E n \in T : \A m \in T : <<m, n>> \notin OpToRel(<, Nat)
  BY NatLessThanWellFounded, WFMin, Zenon
<1>2. PICK n \in T : \A m \in T : <<m, n>> \notin OpToRel(<, Nat)
  BY <1>1
<1>3. \A m \in T : ~ (m < n)
  BY <1>2 DEF OpToRel
<1> QED BY <1>3

\* Induction up to a bound.
LEMMA UpTo ==
  ASSUME NEW n \in Nat, NEW T, 0 \in T, \A i \in 1..n : i - 1 \in T => i \in T
  PROVE  \A i \in 0..n : i \in T
<1> SUFFICES ASSUME (0..n) \ T # {} PROVE FALSE
  OBVIOUS
<1>1. PICK i \in (0..n) \ T : \A j \in (0..n) \ T : i <= j
  <2>1. (0..n) \ T \in SUBSET Nat
    OBVIOUS
  <2> QED BY <2>1, LeastNatural
<1>2. i \in 1..n /\ i - 1 \in 0..n
  OBVIOUS
<1>3. i - 1 \in T
  BY <1>1, <1>2
<1> QED BY <1>1, <1>2, <1>3

\* A loop of n steps over states in S has its states, and only these.
IsLoop(f, S, n, first, step) ==
  /\ f \in [0..n -> S]
  /\ f[0] = first
  /\ \A i \in 1..n : f[i] = step[i][f[i - 1]]

LEMMA LoopRuns ==
  ASSUME NEW S, NEW n \in Nat, NEW first \in S, NEW step \in [1..n -> [S -> S]]
  PROVE  \E f : IsLoop(f, S, n, first, step)
<1> DEFINE Runs(k, f) == f[0] = first /\ \A i \in 1..k : f[i] = step[i][f[i - 1]]
           T == {k \in 0..n : \E f \in [0..k -> S] : Runs(k, f)}
<1>1. 0 \in T
  <2> DEFINE f == [i \in 0..0 |-> first]
  <2>1. f \in [0..0 -> S] /\ f[0] = first
    OBVIOUS
  <2> HIDE DEF f
  <2>2. Runs(0, f)
    BY <2>1
  <2> HIDE DEF Runs
  <2>3. \E h \in [0..0 -> S] : Runs(0, h)
    BY <2>1, <2>2
  <2> QED BY <2>3
<1>2. ASSUME NEW k \in 1..n, k - 1 \in T PROVE k \in T
  <2>1. PICK f \in [0..(k - 1) -> S] : Runs(k - 1, f)
    BY <1>2
  <2> DEFINE s == step[k][f[k - 1]]
             g == [i \in 0..k |-> IF i = k THEN s ELSE f[i]]
  <2>2. s \in S
    BY <2>1
  <2>3. /\ g \in [0..k -> S]
        /\ g[k] = s
        /\ \A i \in 0..(k - 1) : g[i] = f[i]
    BY <2>1, <2>2
  <2> HIDE DEF g
  <2>4. ASSUME NEW i \in 1..k PROVE g[i] = step[i][g[i - 1]]
    <3>1. CASE i = k
      BY <2>3, <3>1
    <3>2. CASE i # k
      <4>1. i \in 1..(k - 1) /\ i - 1 \in 0..(k - 1) /\ i \in 0..(k - 1)
        BY <3>2
      <4> QED BY <2>1, <2>3, <4>1
    <3> QED BY <3>1, <3>2
  <2>5. Runs(k, g)
    BY <2>1, <2>3, <2>4
  <2> HIDE DEF Runs
  <2>6. \E h \in [0..k -> S] : Runs(k, h)
    BY <2>3, <2>5
  <2> QED BY <2>6
<1>3. n \in T
  <2>1. \A k \in 1..n : k - 1 \in T => k \in T
    BY <1>2
  <2> HIDE DEF T
  <2>2. \A k \in 0..n : k \in T
    BY <1>1, <2>1, UpTo
  <2> QED BY <2>2
<1>4. \E f \in [0..n -> S] : Runs(n, f)
  <2> HIDE DEF Runs
  <2> QED BY <1>3
<1> QED BY <1>4 DEF IsLoop

\* What takes these steps from there has states in S throughout.
LEMMA LoopStays ==
  ASSUME NEW S, NEW n \in Nat, NEW f, f = [i \in 0..n |-> f[i]], f[0] \in S,
         \A i \in 1..n : f[i - 1] \in S => f[i] \in S
  PROVE  f \in [0..n -> S]
<1> DEFINE T == {i \in 0..n : f[i] \in S}
<1>1. 0 \in T
  OBVIOUS
<1>2. \A i \in 1..n : i - 1 \in T => i \in T
  OBVIOUS
<1>3. \A i \in 0..n : i \in T
  <2> HIDE DEF T
  <2> QED BY <1>1, <1>2, UpTo
<1> QED BY <1>3

-----------------------------------------------------------------------------
(***************************************************************************)
(* The loops, one element further.                                         *)
(***************************************************************************)
LEMMA KeptUnfolds ==
  ASSUME NEW S, NEW s \in Seq(S), NEW places
  PROVE  /\ KeptTo(s, places) \in [0..Len(s) -> Seq(S)]
         /\ KeptTo(s, places)[0] = <<>>
         /\ \A i \in 1..Len(s) :
              KeptTo(s, places)[i] = IF i \in places THEN Append(KeptTo(s, places)[i - 1], s[i])
                                     ELSE KeptTo(s, places)[i - 1]
<1> DEFINE n == Len(s)
           Q == Seq(S)
           b == <<>>
           Next(i, x) == IF i \in places THEN Append(x, s[i]) ELSE x
           step == [i \in 1..n |-> [x \in Q |-> Next(i, x)]]
           f == KeptTo(s, places)
<1>1. n \in Nat /\ b \in Q /\ \A i \in 1..n, x \in Q : Next(i, x) \in Q
  OBVIOUS
<1> HIDE DEF n, Q, b, Next
<1>2. step \in [1..n -> [Q -> Q]]
  BY <1>1
<1>3. \A i \in 1..n, x \in Q : step[i][x] = Next(i, x)
  OBVIOUS
<1> HIDE DEF step
<1>4. PICK g : IsLoop(g, Q, n, b, step)
  BY <1>1, <1>2, LoopRuns
<1>5. g = [i \in 0..n |-> IF i = 0 THEN b ELSE Next(i, g[i - 1])]
  <2>1. \A i \in 1..n : i - 1 \in 0..n /\ step[i][g[i - 1]] = Next(i, g[i - 1])
    BY <1>1, <1>3, <1>4 DEF IsLoop
  <2>2. \A i \in 0..n : g[i] = IF i = 0 THEN b ELSE Next(i, g[i - 1])
    BY <1>1, <1>4, <2>1 DEF IsLoop
  <2> QED BY <1>4, <2>2 DEF IsLoop
<1>6. f = [i \in 0..n |-> IF i = 0 THEN b ELSE Next(i, f[i - 1])]
  BY <1>5 DEF KeptTo, n, b, Next
<1> HIDE DEF f
<1>7. f = [i \in 0..n |-> f[i]] /\ f[0] = b /\ \A i \in 1..n : f[i] = Next(i, f[i - 1])
  <2>1. \A i \in 0..n : f[i] = IF i = 0 THEN b ELSE Next(i, f[i - 1])
    BY <1>6
  <2>2. f = [i \in 0..n |-> f[i]]
    BY <1>6
  <2>3. n \in Nat
    BY <1>1
  <2>4. f[0] = b
    BY <2>1, <2>3
  <2>5. \A i \in 1..n : f[i] = Next(i, f[i - 1])
    BY <2>1, <2>3
  <2> QED BY <2>2, <2>4, <2>5
<1>8. f \in [0..n -> Q]
  <2>1. \A i \in 1..n : f[i - 1] \in Q => f[i] \in Q
    BY <1>1, <1>7
  <2>2. n \in Nat /\ f = [i \in 0..n |-> f[i]] /\ f[0] \in Q
    BY <1>1, <1>7
  <2> QED BY <2>1, <2>2, LoopStays
<1> QED BY <1>7, <1>8 DEF f, n, Q, b, Next

LEMMA JoinedUnfolds ==
  ASSUME NEW S, NEW s \in Seq(Seq(S))
  PROVE  /\ JoinedTo(s) \in [0..Len(s) -> Seq(S)]
         /\ JoinedTo(s)[0] = <<>>
         /\ \A i \in 1..Len(s) :
              JoinedTo(s)[i] = JoinedTo(s)[i - 1] \o s[i]
<1> DEFINE n == Len(s)
           Q == Seq(S)
           b == <<>>
           Next(i, x) == x \o s[i]
           step == [i \in 1..n |-> [x \in Q |-> Next(i, x)]]
           f == JoinedTo(s)
<1>1. n \in Nat /\ b \in Q /\ \A i \in 1..n, x \in Q : Next(i, x) \in Q
  OBVIOUS
<1> HIDE DEF n, Q, b, Next
<1>2. step \in [1..n -> [Q -> Q]]
  BY <1>1
<1>3. \A i \in 1..n, x \in Q : step[i][x] = Next(i, x)
  OBVIOUS
<1> HIDE DEF step
<1>4. PICK g : IsLoop(g, Q, n, b, step)
  BY <1>1, <1>2, LoopRuns
<1>5. g = [i \in 0..n |-> IF i = 0 THEN b ELSE Next(i, g[i - 1])]
  <2>1. \A i \in 1..n : i - 1 \in 0..n /\ step[i][g[i - 1]] = Next(i, g[i - 1])
    BY <1>1, <1>3, <1>4 DEF IsLoop
  <2>2. \A i \in 0..n : g[i] = IF i = 0 THEN b ELSE Next(i, g[i - 1])
    BY <1>1, <1>4, <2>1 DEF IsLoop
  <2> QED BY <1>4, <2>2 DEF IsLoop
<1>6. f = [i \in 0..n |-> IF i = 0 THEN b ELSE Next(i, f[i - 1])]
  BY <1>5 DEF JoinedTo, n, b, Next
<1> HIDE DEF f
<1>7. f = [i \in 0..n |-> f[i]] /\ f[0] = b /\ \A i \in 1..n : f[i] = Next(i, f[i - 1])
  <2>1. \A i \in 0..n : f[i] = IF i = 0 THEN b ELSE Next(i, f[i - 1])
    BY <1>6
  <2>2. f = [i \in 0..n |-> f[i]]
    BY <1>6
  <2>3. n \in Nat
    BY <1>1
  <2>4. f[0] = b
    BY <2>1, <2>3
  <2>5. \A i \in 1..n : f[i] = Next(i, f[i - 1])
    BY <2>1, <2>3
  <2> QED BY <2>2, <2>4, <2>5
<1>8. f \in [0..n -> Q]
  <2>1. \A i \in 1..n : f[i - 1] \in Q => f[i] \in Q
    BY <1>1, <1>7
  <2>2. n \in Nat /\ f = [i \in 0..n |-> f[i]] /\ f[0] \in Q
    BY <1>1, <1>7
  <2> QED BY <2>1, <2>2, LoopStays
<1> QED BY <1>7, <1>8 DEF f, n, Q, b, Next

LEMMA TotalUnfolds ==
  ASSUME NEW s \in Seq(Nat)
  PROVE  /\ TotalTo(s) \in [0..Len(s) -> Nat]
         /\ TotalTo(s)[0] = 0
         /\ \A i \in 1..Len(s) :
              TotalTo(s)[i] = TotalTo(s)[i - 1] + s[i]
<1> DEFINE n == Len(s)
           Q == Nat
           b == 0
           Next(i, x) == x + s[i]
           step == [i \in 1..n |-> [x \in Q |-> Next(i, x)]]
           f == TotalTo(s)
<1>1. n \in Nat /\ b \in Q /\ \A i \in 1..n, x \in Q : Next(i, x) \in Q
  OBVIOUS
<1> HIDE DEF n, Q, b, Next
<1>2. step \in [1..n -> [Q -> Q]]
  BY <1>1
<1>3. \A i \in 1..n, x \in Q : step[i][x] = Next(i, x)
  OBVIOUS
<1> HIDE DEF step
<1>4. PICK g : IsLoop(g, Q, n, b, step)
  BY <1>1, <1>2, LoopRuns
<1>5. g = [i \in 0..n |-> IF i = 0 THEN b ELSE Next(i, g[i - 1])]
  <2>1. \A i \in 1..n : i - 1 \in 0..n /\ step[i][g[i - 1]] = Next(i, g[i - 1])
    BY <1>1, <1>3, <1>4 DEF IsLoop
  <2>2. \A i \in 0..n : g[i] = IF i = 0 THEN b ELSE Next(i, g[i - 1])
    BY <1>1, <1>4, <2>1 DEF IsLoop
  <2> QED BY <1>4, <2>2 DEF IsLoop
<1>6. f = [i \in 0..n |-> IF i = 0 THEN b ELSE Next(i, f[i - 1])]
  BY <1>5 DEF TotalTo, n, b, Next
<1> HIDE DEF f
<1>7. f = [i \in 0..n |-> f[i]] /\ f[0] = b /\ \A i \in 1..n : f[i] = Next(i, f[i - 1])
  <2>1. \A i \in 0..n : f[i] = IF i = 0 THEN b ELSE Next(i, f[i - 1])
    BY <1>6
  <2>2. f = [i \in 0..n |-> f[i]]
    BY <1>6
  <2>3. n \in Nat
    BY <1>1
  <2>4. f[0] = b
    BY <2>1, <2>3
  <2>5. \A i \in 1..n : f[i] = Next(i, f[i - 1])
    BY <2>1, <2>3
  <2> QED BY <2>2, <2>4, <2>5
<1>8. f \in [0..n -> Q]
  <2>1. \A i \in 1..n : f[i - 1] \in Q => f[i] \in Q
    BY <1>1, <1>7
  <2>2. n \in Nat /\ f = [i \in 0..n |-> f[i]] /\ f[0] \in Q
    BY <1>1, <1>7
  <2> QED BY <2>1, <2>2, LoopStays
<1> QED BY <1>7, <1>8 DEF f, n, Q, b, Next

LEMMA ProductUnfolds ==
  ASSUME NEW s \in Seq(Nat)
  PROVE  /\ ProductTo(s) \in [0..Len(s) -> Nat]
         /\ ProductTo(s)[0] = 1
         /\ \A i \in 1..Len(s) :
              ProductTo(s)[i] = ProductTo(s)[i - 1] * s[i]
<1> DEFINE n == Len(s)
           Q == Nat
           b == 1
           Next(i, x) == x * s[i]
           step == [i \in 1..n |-> [x \in Q |-> Next(i, x)]]
           f == ProductTo(s)
<1>1. n \in Nat /\ b \in Q /\ \A i \in 1..n, x \in Q : Next(i, x) \in Q
  OBVIOUS
<1> HIDE DEF n, Q, b, Next
<1>2. step \in [1..n -> [Q -> Q]]
  BY <1>1
<1>3. \A i \in 1..n, x \in Q : step[i][x] = Next(i, x)
  OBVIOUS
<1> HIDE DEF step
<1>4. PICK g : IsLoop(g, Q, n, b, step)
  BY <1>1, <1>2, LoopRuns
<1>5. g = [i \in 0..n |-> IF i = 0 THEN b ELSE Next(i, g[i - 1])]
  <2>1. \A i \in 1..n : i - 1 \in 0..n /\ step[i][g[i - 1]] = Next(i, g[i - 1])
    BY <1>1, <1>3, <1>4 DEF IsLoop
  <2>2. \A i \in 0..n : g[i] = IF i = 0 THEN b ELSE Next(i, g[i - 1])
    BY <1>1, <1>4, <2>1 DEF IsLoop
  <2> QED BY <1>4, <2>2 DEF IsLoop
<1>6. f = [i \in 0..n |-> IF i = 0 THEN b ELSE Next(i, f[i - 1])]
  BY <1>5 DEF ProductTo, n, b, Next
<1> HIDE DEF f
<1>7. f = [i \in 0..n |-> f[i]] /\ f[0] = b /\ \A i \in 1..n : f[i] = Next(i, f[i - 1])
  <2>1. \A i \in 0..n : f[i] = IF i = 0 THEN b ELSE Next(i, f[i - 1])
    BY <1>6
  <2>2. f = [i \in 0..n |-> f[i]]
    BY <1>6
  <2>3. n \in Nat
    BY <1>1
  <2>4. f[0] = b
    BY <2>1, <2>3
  <2>5. \A i \in 1..n : f[i] = Next(i, f[i - 1])
    BY <2>1, <2>3
  <2> QED BY <2>2, <2>4, <2>5
<1>8. f \in [0..n -> Q]
  <2>1. \A i \in 1..n : f[i - 1] \in Q => f[i] \in Q
    BY <1>1, <1>7
  <2>2. n \in Nat /\ f = [i \in 0..n |-> f[i]] /\ f[0] \in Q
    BY <1>1, <1>7
  <2> QED BY <2>1, <2>2, LoopStays
<1> QED BY <1>7, <1>8 DEF f, n, Q, b, Next

-----------------------------------------------------------------------------
(***************************************************************************)
(* Loops over lists that are put together.                                 *)
(***************************************************************************)
LEMMA JoinedType == ASSUME NEW S, NEW s \in Seq(Seq(S)) PROVE Joined(s) \in Seq(S)
<1>1. JoinedTo(s) \in [0..Len(s) -> Seq(S)]
  BY JoinedUnfolds
<1>2. Len(s) \in 0..Len(s)
  OBVIOUS
<1> QED BY <1>1, <1>2 DEF Joined

LEMMA ConcatIs ==
  ASSUME NEW S, NEW x \in Seq(S), NEW y \in Seq(S)
  PROVE  /\ x \o y \in Seq(S) /\ Len(x \o y) = Len(x) + Len(y)
         /\ \A k \in 1..Len(x) : (x \o y)[k] = x[k]
         /\ \A k \in 1..Len(y) : (x \o y)[Len(x) + k] = y[k]
OBVIOUS

LEMMA ConcatAppend ==
  ASSUME NEW S, NEW x \in Seq(S), NEW y \in Seq(S), NEW e \in S
  PROVE  x \o Append(y, e) = Append(x \o y, e)
<1>1. Append(y, e) = y \o <<e>>
  OBVIOUS
<1>2. x \o y \in Seq(S) /\ <<e>> \in Seq(S)
  OBVIOUS
<1>3. \A z \in Seq(S) : Append(z, e) = z \o <<e>>
  OBVIOUS
<1>4. (x \o y) \o <<e>> = x \o (y \o <<e>>)
  BY <1>2, ConcatAssociative
<1> QED BY <1>1, <1>2, <1>3, <1>4, Zenon

LEMMA JoinedConcat ==
  ASSUME NEW S, NEW a \in Seq(Seq(S)), NEW b \in Seq(Seq(S))
  PROVE  Joined(a \o b) = Joined(a) \o Joined(b)
<1> DEFINE m == Len(a)
           n == Len(b)
           f == JoinedTo(a)
           g == JoinedTo(b)
           c == a \o b
           h == JoinedTo(c)
<1>1. /\ c \in Seq(Seq(S)) /\ m \in Nat /\ n \in Nat /\ Len(c) = m + n
      /\ \A i \in 1..m : c[i] = a[i]
      /\ \A i \in 1..n : c[m + i] = b[i]
  OBVIOUS
<1> HIDE DEF c
<1>2. /\ f \in [0..m -> Seq(S)] /\ f[0] = <<>>
      /\ \A i \in 1..m : f[i] = f[i - 1] \o a[i]
  BY JoinedUnfolds
<1>3. /\ g \in [0..n -> Seq(S)] /\ g[0] = <<>>
      /\ \A i \in 1..n : g[i] = g[i - 1] \o b[i]
  BY JoinedUnfolds
<1>4. /\ h \in [0..(m + n) -> Seq(S)] /\ h[0] = <<>>
      /\ \A i \in 1..(m + n) : h[i] = h[i - 1] \o c[i]
  <2>1. /\ h \in [0..Len(c) -> Seq(S)] /\ h[0] = <<>>
        /\ \A i \in 1..Len(c) : h[i] = h[i - 1] \o c[i]
    BY <1>1, JoinedUnfolds
  <2> QED BY <1>1, <2>1
<1>5. Joined(a) = f[m] /\ Joined(b) = g[n] /\ Joined(c) = h[m + n]
  BY <1>1 DEF Joined
<1> HIDE DEF m, n, f, g, h, c
<1>6. h[m] = f[m]
  <2> DEFINE T == {i \in 0..m : h[i] = f[i]}
  <2>1. 0 \in T
    BY <1>1, <1>2, <1>4
  <2>2. \A i \in 1..m : i - 1 \in T => i \in T
    <3> SUFFICES ASSUME NEW i \in 1..m, h[i - 1] = f[i - 1] PROVE h[i] = f[i]
      BY SMTT(30)
    <3>1. i \in 1..(m + n)
      BY <1>1
    <3>2. h[i] = h[i - 1] \o c[i]
      BY <1>4, <3>1
    <3> QED BY <1>1, <1>2, <3>2
  <2> HIDE DEF T
  <2>3. \A i \in 0..m : i \in T
    BY <1>1, <2>1, <2>2, UpTo
  <2> QED BY <1>1, <2>3 DEF T
<1>7. h[m + n] = f[m] \o g[n]
  <2> DEFINE P(i) == h[m + i] = f[m] \o g[i]
             T == {i \in 0..n : P(i)}
  <2>1. P(0)
    <3>1. f[m] \in Seq(S) /\ m + 0 = m
      BY <1>1, <1>2
    <3>2. f[m] \o <<>> = f[m]
      BY <3>1
    <3> QED BY <1>3, <1>6, <3>1, <3>2
  <2>2. ASSUME NEW i \in 1..n, P(i - 1) PROVE P(i)
    <3>1. m + i \in 1..(m + n) /\ (m + i) - 1 = m + (i - 1) /\ i - 1 \in 0..n /\ m \in 0..m
      BY <1>1
    <3>2. h[m + i] = h[(m + i) - 1] \o c[m + i]
      <4>1. \A j \in 1..(m + n) : h[j] = h[j - 1] \o c[j]
        BY <1>4
      <4>2. m + i \in 1..(m + n)
        BY <3>1
      <4> QED BY <4>1, <4>2, Zenon
    <3>3. h[m + i] = (f[m] \o g[i - 1]) \o b[i]
      BY <1>1, <2>2, <3>1, <3>2
    <3>4. f[m] \in Seq(S)
      BY <1>2, <3>1
    <3>5. g[i - 1] \in Seq(S)
      BY <1>3, <3>1
    <3>6. b[i] \in Seq(S)
      BY DEF n
    <3>7. (f[m] \o g[i - 1]) \o b[i] = f[m] \o (g[i - 1] \o b[i])
      <4>1. \A x, y, z \in Seq(S) : (x \o y) \o z = x \o (y \o z)
        BY ConcatAssociative, SMTT(30)
      <4> QED BY <3>4, <3>5, <3>6, <4>1, Zenon
    <3> QED BY <1>3, <3>3, <3>7
  <2> HIDE DEF P
  <2>3. 0 \in T /\ \A i \in 1..n : i - 1 \in T => i \in T
    BY <1>1, <2>1, <2>2
  <2> HIDE DEF T
  <2>4. \A i \in 0..n : i \in T
    BY <1>1, <2>3, UpTo
  <2>5. n \in T
    BY <1>1, <2>4
  <2> QED BY <2>5 DEF T, P
<1> QED BY <1>5, <1>7 DEF c

LEMMA JoinedEmpty == Joined(<<>>) = <<>>
<1>1. <<>> \in Seq(Seq({})) /\ Len(<<>>) = 0
  OBVIOUS
<1>2. JoinedTo(<<>>)[0] = <<>>
  BY <1>1, JoinedUnfolds
<1> QED BY <1>1, <1>2 DEF Joined

LEMMA JoinedOne == ASSUME NEW S, NEW x \in Seq(S) PROVE Joined(<<x>>) = x
<1>1. <<x>> \in Seq(Seq(S)) /\ Len(<<x>>) = 1 /\ <<x>>[1] = x
  OBVIOUS
<1>2. JoinedTo(<<x>>)[0] = <<>> /\ JoinedTo(<<x>>)[1] = JoinedTo(<<x>>)[0] \o x
  <2>1. \A i \in 1..1 : JoinedTo(<<x>>)[i] = JoinedTo(<<x>>)[i - 1] \o <<x>>[i]
    BY <1>1, JoinedUnfolds
  <2>2. JoinedTo(<<x>>)[0] = <<>>
    BY <1>1, JoinedUnfolds
  <2> QED BY <1>1, <2>1, <2>2
<1>3. <<>> \o x = x
  OBVIOUS
<1> QED BY <1>1, <1>2, <1>3 DEF Joined

LEMMA JoinedAppend ==
  ASSUME NEW S, NEW s \in Seq(Seq(S)), NEW x \in Seq(S)
  PROVE  Joined(Append(s, x)) = Joined(s) \o x
<1>1. Append(s, x) = s \o <<x>> /\ <<x>> \in Seq(Seq(S))
  OBVIOUS
<1>2. Joined(s \o <<x>>) = Joined(s) \o Joined(<<x>>)
  BY <1>1, JoinedConcat
<1>3. Joined(<<x>>) = x
  BY JoinedOne
<1> QED BY <1>1, <1>2, <1>3

LEMMA JoinedTwo ==
  ASSUME NEW S, NEW x \in Seq(S), NEW y \in Seq(S) PROVE Joined(<<x, y>>) = x \o y
<1> DEFINE s == <<x, y>>
           f == JoinedTo(s)
<1>1. s \in Seq(Seq(S)) /\ Len(s) = 2 /\ s[1] = x /\ s[2] = y
  OBVIOUS
<1> HIDE DEF s
<1>2. f[0] = <<>> /\ \A i \in 1..2 : f[i] = f[i - 1] \o s[i]
  BY <1>1, JoinedUnfolds
<1> HIDE DEF f
<1>3. f[1] = f[0] \o x /\ f[2] = f[1] \o y
  <2>1. 1 \in 1..2 /\ 2 \in 1..2 /\ 1 - 1 = 0 /\ 2 - 1 = 1
    OBVIOUS
  <2>2. f[1] = f[1 - 1] \o s[1] /\ f[2] = f[2 - 1] \o s[2]
    BY <1>2, <2>1, Zenon
  <2> QED BY <1>1, <2>1, <2>2, Zenon
<1>4. <<>> \o x = x
  OBVIOUS
<1> QED BY <1>1, <1>2, <1>3, <1>4 DEF Joined, f, s

\* The kept elements are those at the places, in the order they had: pos tells
\* where each was.
KeptFrom(k, s, places, pos) ==
  /\ pos \in [1..Len(k) -> 1..Len(s)]
  /\ \A p, q \in 1..Len(k) : p < q => pos[p] < pos[q]
  /\ \A p \in 1..Len(k) : pos[p] \in places /\ k[p] = s[pos[p]]
  /\ \A i \in 1..Len(s) : i \in places => \E p \in 1..Len(k) : pos[p] = i

LEMMA KeptIs ==
  ASSUME NEW S, NEW s \in Seq(S), NEW places
  PROVE  /\ Kept(s, places) \in Seq(S)
         /\ \E pos : KeptFrom(Kept(s, places), s, places, pos)
<1> DEFINE n == Len(s)
           f == KeptTo(s, places)
           From(i, pos) ==
             /\ pos \in [1..Len(f[i]) -> 1..i]
             /\ \A p, q \in 1..Len(f[i]) : p < q => pos[p] < pos[q]
             /\ \A p \in 1..Len(f[i]) : pos[p] \in places /\ f[i][p] = s[pos[p]]
             /\ \A j \in 1..i : j \in places => \E p \in 1..Len(f[i]) : pos[p] = j
           P(i) == \E pos : From(i, pos)
           T == {i \in 0..n : P(i)}
<1>1. /\ n \in Nat /\ f \in [0..n -> Seq(S)] /\ f[0] = <<>>
      /\ \A i \in 1..n : f[i] = IF i \in places THEN Append(f[i - 1], s[i]) ELSE f[i - 1]
  BY KeptUnfolds
<1> HIDE DEF f
<1>2. P(0)
  <2>1. From(0, <<>>)
    BY <1>1
  <2> QED BY <2>1
<1>3. ASSUME NEW i \in 1..n, P(i - 1) PROVE P(i)
  <2>1. PICK pos : From(i - 1, pos)
    BY <1>3
  <2> DEFINE m == Len(f[i - 1])
  <2>2. f[i - 1] \in Seq(S) /\ m \in Nat /\ i \in Nat /\ i - 1 \in 0..n
    BY <1>1, SMTT(30)
  <2>3. CASE i \notin places
    <3>1. f[i] = f[i - 1]
      BY <1>1, <2>3
    <3>2. pos \in [1..m -> 1..i]
      BY <2>1, <2>2
    <3>3. \A j \in 1..i : j \in places => j \in 1..(i - 1)
      BY <2>2, <2>3
    <3>4. From(i, pos)
      BY <2>1, <3>1, <3>2, <3>3
    <3> QED BY <3>4
  <2>4. CASE i \in places
    <3> DEFINE new == [p \in 1..(m + 1) |-> IF p = m + 1 THEN i ELSE pos[p]]
    <3>1. /\ f[i] = Append(f[i - 1], s[i]) /\ Len(f[i]) = m + 1
          /\ f[i][m + 1] = s[i] /\ \A p \in 1..m : f[i][p] = f[i - 1][p]
      <4>1. f[i] = Append(f[i - 1], s[i])
        BY <1>1, <2>4
      <4>2. s[i] \in S
        OBVIOUS
      <4> QED BY <2>2, <4>1, <4>2, AppendProperties
    <3>2. /\ new \in [1..(m + 1) -> 1..i] /\ new[m + 1] = i
          /\ \A p \in 1..m : new[p] = pos[p] /\ pos[p] \in 1..(i - 1)
      <4>1. \A p \in 1..m : pos[p] \in 1..(i - 1)
        BY <2>1
      <4> HIDE DEF m
      <4> QED BY <2>2, <4>1
    <3> HIDE DEF new, m
    <3>3. \A p, q \in 1..(m + 1) : p < q => new[p] < new[q]
      <4> SUFFICES ASSUME NEW p \in 1..(m + 1), NEW q \in 1..(m + 1), p < q
                   PROVE  new[p] < new[q]
        OBVIOUS
      <4>1. p \in 1..m
        BY <2>2
      <4>2. CASE q = m + 1
        BY <2>2, <3>2, <4>1, <4>2
      <4>3. CASE q # m + 1
        <5>1. q \in 1..m
          BY <2>2, <4>3
        <5> QED BY <2>1, <3>2, <4>1, <5>1 DEF m
      <4> QED BY <4>2, <4>3
    <3>4. \A p \in 1..(m + 1) : new[p] \in places /\ f[i][p] = s[new[p]]
      <4> TAKE p \in 1..(m + 1)
      <4>1. CASE p = m + 1
        BY <2>4, <3>1, <3>2, <4>1
      <4>2. CASE p # m + 1
        <5>1. p \in 1..m
          BY <2>2, <4>2
        <5>2. pos[p] \in places /\ f[i - 1][p] = s[pos[p]]
          BY <2>1, <5>1 DEF m
        <5> QED BY <3>1, <3>2, <5>1, <5>2
      <4> QED BY <4>1, <4>2
    <3>5. \A j \in 1..i : j \in places => \E p \in 1..(m + 1) : new[p] = j
      <4> TAKE j \in 1..i
      <4> HAVE j \in places
      <4>1. CASE j = i
        <5>1. m + 1 \in 1..(m + 1)
          BY <2>2
        <5> QED BY <3>2, <4>1, <5>1
      <4>2. CASE j # i
        <5>1. j \in 1..(i - 1)
          BY <2>2, <4>2
        <5>2. PICK p \in 1..m : pos[p] = j
          BY <2>1, <5>1 DEF m
        <5>3. p \in 1..(m + 1)
          BY <2>2
        <5> QED BY <3>2, <5>2, <5>3
      <4> QED BY <4>1, <4>2
    <3>6. From(i, new)
      BY <3>1, <3>2, <3>3, <3>4, <3>5
    <3> QED BY <3>6
  <2> QED BY <2>3, <2>4
<1>4. P(n)
  <2> HIDE DEF P
  <2>1. 0 \in T /\ \A i \in 1..n : i - 1 \in T => i \in T
    BY <1>1, <1>2, <1>3
  <2> HIDE DEF T
  <2>2. \A i \in 0..n : i \in T
    BY <1>1, <2>1, UpTo
  <2>3. n \in T
    BY <1>1, <2>2
  <2> QED BY <2>3 DEF T
<1>5. PICK pos : From(n, pos)
  BY <1>4
<1>6. Kept(s, places) = f[n]
  BY DEF Kept, f
<1>7. f[n] \in Seq(S)
  BY <1>1
<1>8. KeptFrom(f[n], s, places, pos)
  BY <1>5 DEF KeptFrom
<1> QED BY <1>6, <1>7, <1>8

-----------------------------------------------------------------------------
(***************************************************************************)
(* Sums and products.                                                      *)
(***************************************************************************)
LEMMA TotalType == ASSUME NEW s \in Seq(Nat) PROVE Total(s) \in Nat
<1>1. TotalTo(s) \in [0..Len(s) -> Nat]
  BY TotalUnfolds
<1>2. Len(s) \in 0..Len(s)
  OBVIOUS
<1> QED BY <1>1, <1>2 DEF Total

LEMMA TotalTwo ==
  ASSUME NEW x \in Nat, NEW y \in Nat PROVE Total(<<x, y>>) = x + y
<1> DEFINE s == <<x, y>>
           f == TotalTo(s)
<1>1. s \in Seq(Nat) /\ Len(s) = 2 /\ s[1] = x /\ s[2] = y
  OBVIOUS
<1> HIDE DEF s
<1>2. f[0] = 0 /\ \A i \in 1..2 : f[i] = f[i - 1] + s[i]
  BY <1>1, TotalUnfolds
<1> HIDE DEF f
<1>3. f[1] = 0 + x /\ f[2] = f[1] + y
  <2>1. 1 \in 1..2 /\ 2 \in 1..2 /\ 1 - 1 = 0 /\ 2 - 1 = 1
    OBVIOUS
  <2>2. f[1] = f[1 - 1] + s[1] /\ f[2] = f[2 - 1] + s[2]
    BY <1>2, <2>1, Zenon
  <2> QED BY <1>1, <1>2, <2>1, <2>2, Zenon
<1>4. Total(s) = f[2]
  BY <1>1 DEF Total, f
<1>5. Total(s) = x + y
  BY <1>3, <1>4
<1> QED BY <1>5 DEF s

LEMMA TotalAppend ==
  ASSUME NEW s \in Seq(Nat), NEW x \in Nat PROVE Total(Append(s, x)) = Total(s) + x
<1> DEFINE n == Len(s)
           c == Append(s, x)
           f == TotalTo(s)
           h == TotalTo(c)
           T == {i \in 0..n : h[i] = f[i]}
<1>1. /\ n \in Nat /\ c \in Seq(Nat) /\ Len(c) = n + 1
      /\ c[n + 1] = x /\ \A i \in 1..n : c[i] = s[i]
  BY AppendProperties
<1> HIDE DEF c
<1>2. f[0] = 0 /\ \A i \in 1..n : f[i] = f[i - 1] + s[i]
  BY TotalUnfolds
<1>3. h[0] = 0 /\ \A i \in 1..(n + 1) : h[i] = h[i - 1] + c[i]
  BY <1>1, TotalUnfolds
<1>4. Total(s) = f[n] /\ Total(c) = h[n + 1]
  BY <1>1 DEF Total
<1> HIDE DEF n, f, h
<1>5. 0 \in T
  BY <1>1, <1>2, <1>3
<1>6. \A i \in 1..n : i - 1 \in T => i \in T
  <2> SUFFICES ASSUME NEW i \in 1..n, h[i - 1] = f[i - 1] PROVE h[i] = f[i]
    OBVIOUS
  <2>1. i \in 1..(n + 1)
    BY <1>1
  <2>2. h[i] = h[i - 1] + c[i]
    BY <1>3, <2>1
  <2> QED BY <1>1, <1>2, <2>2
<1>7. h[n] = f[n]
  <2> HIDE DEF T
  <2>1. \A i \in 0..n : i \in T
    BY <1>1, <1>5, <1>6, UpTo
  <2>2. n \in T
    BY <1>1, <2>1
  <2> QED BY <2>2 DEF T
<1>8. h[n + 1] = h[n] + x
  <2>1. n + 1 \in 1..(n + 1) /\ (n + 1) - 1 = n
    BY <1>1
  <2> QED BY <1>1, <1>3, <2>1
<1>9. Total(c) = Total(s) + x
  BY <1>4, <1>7, <1>8
<1> QED BY <1>9 DEF c

\* Leaving out a factor.
LEMMA ProductWithout ==
  ASSUME NEW s \in Seq(Nat), NEW t \in Seq(Nat), Len(t) = Len(s), NEW r \in 1..Len(s),
         t[r] = 1, \A i \in 1..Len(s) : i # r => t[i] = s[i]
  PROVE  Product(t) \in Nat /\ Product(t) * s[r] = Product(s)
<1> DEFINE n == Len(s)
           f == ProductTo(s)
           g == ProductTo(t)
           P(i) == IF i < r THEN g[i] = f[i] ELSE g[i] * s[r] = f[i]
           T == {i \in 0..n : P(i)}
<1>1. /\ n \in Nat /\ r \in 1..n /\ \A i \in 1..n : s[i] \in Nat /\ t[i] \in Nat
  BY SMTT(30)
<1>2. f[0] = 1 /\ f \in [0..n -> Nat] /\ \A i \in 1..n : f[i] = f[i - 1] * s[i]
  BY ProductUnfolds
<1>3. g[0] = 1 /\ g \in [0..n -> Nat] /\ \A i \in 1..n : g[i] = g[i - 1] * t[i]
  BY ProductUnfolds
<1>4. Product(s) = f[n] /\ Product(t) = g[n]
  BY DEF Product
<1> HIDE DEF n, f, g
<1>5. P(0)
  BY <1>1, <1>2, <1>3
<1>6. ASSUME NEW i \in 1..n, P(i - 1) PROVE P(i)
  <2>1. i - 1 \in 0..n /\ i \in Nat
    BY <1>1
  <2>2. f[i - 1] \in Nat /\ g[i - 1] \in Nat /\ s[i] \in Nat /\ t[i] \in Nat /\ s[r] \in Nat
    BY <1>1, <1>2, <1>3, <2>1
  <2>3. f[i] = f[i - 1] * s[i] /\ g[i] = g[i - 1] * t[i]
    BY <1>2, <1>3
  <2>4. CASE i < r
    <3>1. g[i - 1] = f[i - 1]
      BY <1>1, <1>6, <2>1, <2>4
    <3>2. t[i] = s[i]
      BY <1>1, <2>1, <2>4 DEF n
    <3> QED BY <2>3, <2>4, <3>1, <3>2
  <2>5. CASE i = r
    <3>1. g[i - 1] = f[i - 1]
      BY <1>1, <1>6, <2>1, <2>5
    <3>2. g[i] = f[i - 1]
      BY <2>2, <2>3, <2>5, <3>1
    <3> QED BY <1>1, <2>3, <2>5, <3>2
  <2>6. CASE r < i
    <3>1. g[i - 1] * s[r] = f[i - 1]
      BY <1>1, <1>6, <2>1, <2>6
    <3>2. t[i] = s[i]
      BY <1>1, <2>1, <2>6 DEF n
    <3>3. \A x, y, z \in Nat : (x * y) * z = (x * z) * y
      OBVIOUS
    <3>4. (g[i - 1] * s[i]) * s[r] = (g[i - 1] * s[r]) * s[i]
      BY <2>2, <3>3, SMTT(30)
    <3> QED BY <1>1, <2>1, <2>3, <2>6, <3>1, <3>2, <3>4
  <2> QED BY <1>1, <2>1, <2>4, <2>5, <2>6
<1>7. P(n)
  <2> HIDE DEF P
  <2>1. 0 \in T /\ \A i \in 1..n : i - 1 \in T => i \in T
    BY <1>1, <1>5, <1>6
  <2> HIDE DEF T
  <2>2. \A i \in 0..n : i \in T
    BY <1>1, <2>1, UpTo
  <2>3. n \in T
    BY <1>1, <2>2
  <2> QED BY <2>3 DEF T
<1>8. g[n] * s[r] = f[n] /\ g[n] \in Nat
  BY <1>1, <1>3, <1>7
<1> QED BY <1>4, <1>8

LEMMA ProductIsPositive ==
  ASSUME NEW s \in Seq(Nat \ {0}) PROVE Product(s) \in Nat \ {0}
<1> DEFINE n == Len(s)
           f == ProductTo(s)
           T == {i \in 0..n : f[i] > 0}
<1>1. n \in Nat /\ s \in Seq(Nat) /\ \A i \in 1..n : s[i] \in Nat \ {0}
  OBVIOUS
<1>2. f[0] = 1 /\ f \in [0..n -> Nat] /\ \A i \in 1..n : f[i] = f[i - 1] * s[i]
  BY <1>1, ProductUnfolds
<1>3. Product(s) = f[n]
  BY DEF Product
<1> HIDE DEF n, f
<1>4. 0 \in T
  BY <1>1, <1>2
<1>5. \A i \in 1..n : i - 1 \in T => i \in T
  <2> SUFFICES ASSUME NEW i \in 1..n, f[i - 1] > 0 PROVE f[i] > 0
    BY <1>1
  <2>1. i - 1 \in 0..n
    BY <1>1
  <2>2. f[i - 1] \in Nat /\ s[i] \in Nat \ {0} /\ f[i] = f[i - 1] * s[i]
    BY <1>1, <1>2, <2>1
  <2>3. \A x, y \in Nat \ {0} : x * y > 0
    OBVIOUS
  <2> QED BY <2>2, <2>3
<1> HIDE DEF T
<1>6. \A i \in 0..n : i \in T
  BY <1>1, <1>4, <1>5, UpTo
<1>7. n \in T
  BY <1>1, <1>6
<1> QED BY <1>2, <1>3, <1>7 DEF T

-----------------------------------------------------------------------------
(***************************************************************************)
(* The sort. The number of elements that go before is different for all,   *)
(* so it numbers them.                                                     *)
(***************************************************************************)
LEMMA Places == ASSUME NEW n \in Nat PROVE IsFiniteSet(1..n) /\ Cardinality(1..n) = n
<1>1. 1 \in Int /\ n \in Int
  OBVIOUS
<1>2. IsFiniteSet(1..n) /\ Cardinality(1..n) = IF 1 > n THEN 0 ELSE n - 1 + 1
  BY <1>1, FS_Interval
<1> QED BY <1>2

LEMMA RankType ==
  ASSUME NEW key \in Seq(Int), NEW i \in 1..Len(key) PROVE Rank(key, i) \in 0..(Len(key) - 1)
<1> DEFINE n == Len(key)
           before == {j \in 1..n : GoesBefore(key, j, i)}
<1>1. n \in Nat /\ DOMAIN key = 1..n
  OBVIOUS
<1>2. IsFiniteSet(1..n) /\ Cardinality(1..n) = n
  BY <1>1, Places
<1>3. IsFiniteSet((1..n) \ {i}) /\ Cardinality((1..n) \ {i}) = n - 1
  BY <1>2, FS_RemoveElement
<1>4. before \in SUBSET ((1..n) \ {i})
  BY <1>1 DEF GoesBefore
<1>5. IsFiniteSet(before) /\ Cardinality(before) <= n - 1
  BY <1>3, <1>4, FS_Subset
<1>6. Cardinality(before) \in Nat
  BY <1>5, FS_CardinalityType
<1> HIDE DEF before
<1>7. Cardinality(before) \in 0..(n - 1)
  BY <1>1, <1>5, <1>6
<1> QED BY <1>1, <1>7 DEF Rank, before

LEMMA RankIncreases ==
  ASSUME NEW key \in Seq(Int), NEW i \in 1..Len(key), NEW j \in 1..Len(key),
         GoesBefore(key, i, j)
  PROVE  Rank(key, i) < Rank(key, j)
<1> DEFINE n == Len(key)
           before(k) == {m \in 1..n : GoesBefore(key, m, k)}
<1>1. n \in Nat /\ DOMAIN key = 1..n /\ \A m \in 1..n : key[m] \in Int
  OBVIOUS
<1>2. IsFiniteSet(1..n)
  BY <1>1, Places
<1>3. IsFiniteSet(before(i)) /\ IsFiniteSet(before(j))
  <2>1. before(i) \in SUBSET (1..n) /\ before(j) \in SUBSET (1..n)
    OBVIOUS
  <2> QED BY <1>2, <2>1, FS_Subset
<1>4. i \notin before(i) /\ before(i) \cup {i} \in SUBSET before(j)
  BY <1>1 DEF GoesBefore
<1>5. Cardinality(before(i) \cup {i}) = Cardinality(before(i)) + 1
  <2> HIDE DEF before
  <2> QED BY <1>3, <1>4, FS_AddElement
<1>6. Cardinality(before(i) \cup {i}) <= Cardinality(before(j))
  <2> HIDE DEF before
  <2> QED BY <1>3, <1>4, FS_Subset
<1>7. Cardinality(before(i)) \in Nat /\ Cardinality(before(j)) \in Nat
  <2> HIDE DEF before
  <2> QED BY <1>3, FS_CardinalityType
<1> QED BY <1>1, <1>5, <1>6, <1>7 DEF Rank

\* A sort is a permutation of the places, in which smaller keys go before.
IsSorting(order, key) ==
  /\ order \in [1..Len(key) -> 1..Len(key)]
  /\ \A p, q \in 1..Len(key) : order[p] = order[q] => p = q
  /\ \A i \in 1..Len(key) : \E p \in 1..Len(key) : order[p] = i
  /\ \A p, q \in 1..Len(key) : p < q => GoesBefore(key, order[p], order[q])

LEMMA OrderByRank ==
  ASSUME NEW key \in Seq(Int)
  PROVE  /\ IsSorting(Order(key), key)
         /\ \A p \in 1..Len(key) : Rank(key, Order(key)[p]) = p - 1
<1> DEFINE n == Len(key)
           r == [i \in 1..n |-> Rank(key, i) + 1]
           order == [p \in DOMAIN key |-> PlaceOfRank(key, p - 1)]
<1>1. n \in Nat /\ DOMAIN key = 1..n /\ \A m \in 1..n : key[m] \in Int
  OBVIOUS
<1>2. Order(key) = order
  <2> DEFINE keys == SubSeq(key, 1, Len(key))
  <2>1. Order(key) = [p \in DOMAIN key |-> PlaceOfRank(keys, p - 1)]
    BY DEF Order
  <2>2. keys = key
    BY SubSeqFull
  <2> HIDE DEF keys
  <2> QED BY <2>1, <2>2
<1>3. r \in [1..n -> 1..n]
  <2>1. \A i \in 1..n : Rank(key, i) \in 0..(n - 1)
    BY RankType
  <2> QED BY <1>1, <2>1
<1>4. \A i, j \in 1..n : i = j \/ Rank(key, i) < Rank(key, j) \/ Rank(key, j) < Rank(key, i)
  <2> TAKE i, j \in 1..n
  <2>1. i = j \/ GoesBefore(key, i, j) \/ GoesBefore(key, j, i)
    BY <1>1 DEF GoesBefore
  <2> QED BY <2>1, RankIncreases
<1>5. \A i \in 1..n : Rank(key, i) \in Int
  <2>1. \A i \in 1..n : Rank(key, i) \in 0..(n - 1)
    BY RankType
  <2> QED BY <1>1, <2>1
<1>6. r \in Injection(1..n, 1..n)
  <2>1. \A i, j \in 1..n : r[i] = r[j] => i = j
    BY <1>4, <1>5
  <2> HIDE DEF r
  <2> QED BY <1>3, <2>1 DEF Injection, IsInjective
<1>7. r \in Surjection(1..n, 1..n)
  <2>1. IsFiniteSet(1..n)
    BY <1>1, Places
  <2> HIDE DEF r, n
  <2> QED BY <1>6, <2>1, FS_Injection
<1>8. \A p \in 1..n : \E i \in 1..n : Rank(key, i) = p - 1
  <2> TAKE p \in 1..n
  <2>1. PICK i \in 1..n : r[i] = p
    BY <1>7 DEF Surjection
  <2> QED BY <1>5, <2>1
<1>9. \A p \in 1..n : order[p] \in 1..n /\ Rank(key, order[p]) = p - 1
  BY <1>1, <1>8 DEF PlaceOfRank
<1> HIDE DEF order, r
<1>10. order \in [1..n -> 1..n]
  BY <1>1, <1>9 DEF order
<1>11. \A p, q \in 1..n : order[p] = order[q] => p = q
  <2> TAKE p, q \in 1..n
  <2>1. Rank(key, order[p]) = p - 1 /\ Rank(key, order[q]) = q - 1
    BY <1>9
  <2> QED BY <2>1
<1>12. \A i \in 1..n : \E p \in 1..n : order[p] = i
  <2> TAKE i \in 1..n
  <2>1. PICK p \in 1..n : Rank(key, i) = p - 1
    BY <1>3, <1>5 DEF r
  <2>2. order[p] \in 1..n /\ Rank(key, order[p]) = Rank(key, i)
    BY <1>9, <2>1
  <2>3. Rank(key, i) \in Int /\ Rank(key, order[p]) \in Int
    BY <1>5, <2>2
  <2>4. order[p] = i \/ Rank(key, order[p]) < Rank(key, i) \/ Rank(key, i) < Rank(key, order[p])
    BY <1>4, <2>2
  <2> QED BY <2>2, <2>3, <2>4
<1>13. \A p, q \in 1..n : p < q => GoesBefore(key, order[p], order[q])
  <2> SUFFICES ASSUME NEW p \in 1..n, NEW q \in 1..n, p < q,
                      ~GoesBefore(key, order[p], order[q])
               PROVE  FALSE
    OBVIOUS
  <2>1. /\ order[p] \in 1..n /\ order[q] \in 1..n /\ order[p] # order[q]
        /\ Rank(key, order[p]) = p - 1 /\ Rank(key, order[q]) = q - 1
    BY <1>9, <1>11
  <2>2. GoesBefore(key, order[q], order[p])
    BY <1>1, <2>1 DEF GoesBefore
  <2>3. Rank(key, order[q]) < Rank(key, order[p])
    BY <2>1, <2>2, RankIncreases
  <2> QED BY <2>1, <2>3
<1> QED BY <1>2, <1>9, <1>10, <1>11, <1>12, <1>13 DEF IsSorting

\* A list whose keys are in order stays as it is: an increasing map of the
\* places 1 to n into themselves is the identity.
LEMMA IncreasingIsIdentity ==
  ASSUME NEW n \in Nat, NEW f \in [1..n -> 1..n],
         \A p, q \in 1..n : p < q => f[p] < f[q]
  PROVE  \A p \in 1..n : f[p] = p
<1> DEFINE Low == {i \in 0..n : i = 0 \/ f[i] >= i}
           High == {i \in 0..n : i = n \/ f[n - i] <= n - i}
<1>1. 0 \in Low /\ \A i \in 1..n : i - 1 \in Low => i \in Low
  <2>1. 0 \in Low
    OBVIOUS
  <2>2. ASSUME NEW i \in 1..n, i - 1 \in Low PROVE i \in Low
    <3>1. CASE i = 1
      BY <3>1
    <3>2. CASE i # 1
      <4>1. i - 1 \in 1..n /\ i - 1 < i
        BY <3>2
      <4>2. f[i - 1] < f[i] /\ f[i - 1] >= i - 1
        BY <2>2, <4>1
      <4>3. f[i] \in Int /\ f[i - 1] \in Int
        BY <4>1
      <4> QED BY <4>2, <4>3
    <3> QED BY <3>1, <3>2
  <2> QED BY <2>1, <2>2
<1>2. 0 \in High /\ \A i \in 1..n : i - 1 \in High => i \in High
  <2>1. 0 \in High
    <3>1. CASE n = 0
      BY <3>1
    <3>2. CASE n # 0
      <4>1. n \in 1..n /\ n - 0 = n
        BY <3>2
      <4>2. f[n] <= n
        BY <4>1
      <4> QED BY <4>1, <4>2
    <3> QED BY <3>1, <3>2
  <2>2. ASSUME NEW i \in 1..n, i - 1 \in High PROVE i \in High
    <3>1. CASE i = n
      BY <3>1
    <3>2. CASE i # n
      <4>1. /\ n - i \in 1..n /\ n - (i - 1) \in 1..n
            /\ n - i < n - (i - 1) /\ n - (i - 1) = (n - i) + 1 /\ i - 1 # n
        BY <3>2
      <4>2. f[n - i] < f[n - (i - 1)]
        BY <4>1
      <4>3. f[n - (i - 1)] <= n - (i - 1)
        BY <2>2, <4>1
      <4>4. f[n - i] \in Int /\ f[n - (i - 1)] \in Int
        BY <4>1
      <4>5. f[n - i] <= n - i
        BY <4>1, <4>2, <4>3, <4>4
      <4> QED BY <4>5
    <3> QED BY <3>1, <3>2
  <2> QED BY <2>1, <2>2
<1>3. \A i \in 0..n : i \in Low
  <2> HIDE DEF Low
  <2> QED BY <1>1, UpTo
<1>4. \A i \in 0..n : i \in High
  <2> HIDE DEF High
  <2> QED BY <1>2, UpTo
<1> TAKE p \in 1..n
<1>5. f[p] >= p
  BY <1>3
<1>6. f[p] <= p
  <2>1. n - p \in 0..n /\ n - p # n /\ n - (n - p) = p
    OBVIOUS
  <2>2. n - p \in High
    BY <1>4, <2>1
  <2>3. f[n - (n - p)] <= n - (n - p)
    BY <2>1, <2>2
  <2> QED BY <2>1, <2>3
<1> QED BY <1>5, <1>6

LEMMA SortedIs ==
  ASSUME NEW S, NEW s \in Seq(S), NEW key \in Seq(Int), Len(key) = Len(s)
  PROVE  /\ SortedBy(s, key) \in Seq(S)
         /\ Len(SortedBy(s, key)) = Len(s)
         /\ IsSorting(Order(key), key)
         /\ \A p \in 1..Len(s) : SortedBy(s, key)[p] = s[Order(key)[p]]
<1>1. IsSorting(Order(key), key)
  BY OrderByRank
<1>2. /\ Order(key) \in [1..Len(s) -> 1..Len(s)]
      /\ Len(s) \in Nat /\ DOMAIN s = 1..Len(s) /\ \A i \in 1..Len(s) : s[i] \in S
  BY <1>1, SMTT(30) DEF IsSorting
<1>3. \A p \in 1..Len(s) : SortedBy(s, key)[p] = s[Order(key)[p]]
  BY <1>2 DEF SortedBy
<1>4. SortedBy(s, key) \in [1..Len(s) -> S]
  BY <1>2 DEF SortedBy
<1>5. SortedBy(s, key) \in Seq(S) /\ Len(SortedBy(s, key)) = Len(s)
  BY <1>2, <1>4, SeqDef
<1> QED BY <1>1, <1>3, <1>5

\* A list without repetitions sorted by what its elements are worth: the same
\* elements, and those of more worth before those of less.
IsDescending(t, s, worth) ==
  /\ Len(t) = Len(s)
  /\ \A p, q \in 1..Len(t) : t[p] = t[q] => p = q
  /\ \A i \in 1..Len(s) : \E p \in 1..Len(t) : t[p] = s[i]
  /\ \A p \in 1..Len(t) : \E i \in 1..Len(s) : t[p] = s[i]
  /\ \A p, q \in 1..Len(t) : p < q => worth[t[p]] >= worth[t[q]]

LEMMA DescendingIs ==
  ASSUME NEW S, NEW s \in Seq(S), NEW worth \in [S -> Int],
         \A i, j \in 1..Len(s) : s[i] = s[j] => i = j,
         NEW key, key = [i \in DOMAIN s |-> worth[s[i]]],
         NEW t, t = Descending(s, key)
  PROVE  t \in Seq(S) /\ IsDescending(t, s, worth)
<1> DEFINE n == Len(s)
           negated == [i \in DOMAIN key |-> -key[i]]
           o == Order(negated)
<1>1. n \in Nat /\ DOMAIN s = 1..n /\ \A i \in 1..n : s[i] \in S
  OBVIOUS
<1>2. \A i \in 1..n : worth[s[i]] \in Int
  BY <1>1
<1>3. negated \in [1..n -> Int] /\ \A i \in 1..n : negated[i] = -worth[s[i]]
  BY <1>1, <1>2
<1>4. negated \in Seq(Int) /\ Len(negated) = n
  BY <1>1, <1>3, SeqDef
<1>5. t = SortedBy(s, negated)
  BY DEF Descending
<1> HIDE DEF negated
<1>6. /\ t \in Seq(S) /\ Len(t) = n /\ IsSorting(o, negated)
      /\ \A p \in 1..n : t[p] = s[o[p]]
  <2>1. /\ SortedBy(s, negated) \in Seq(S)
        /\ Len(SortedBy(s, negated)) = Len(s)
        /\ IsSorting(Order(negated), negated)
        /\ \A p \in 1..Len(s) : SortedBy(s, negated)[p] = s[Order(negated)[p]]
    <3>1. Len(negated) = Len(s)
      BY <1>4 DEF n
    <3>2. SortedBy(s, negated) \in Seq(S)
      BY <1>4, <3>1, SortedIs
    <3>3. Len(SortedBy(s, negated)) = Len(s)
      BY <1>4, <3>1, SortedIs
    <3>4. IsSorting(Order(negated), negated)
      BY <1>4, OrderByRank
    <3>5. \A p \in 1..Len(s) : SortedBy(s, negated)[p] = s[Order(negated)[p]]
      BY <1>1 DEF SortedBy
    <3> QED BY <3>2, <3>3, <3>4, <3>5
  <2> QED BY <1>5, <2>1
<1>7. /\ o \in [1..n -> 1..n]
      /\ \A p, q \in 1..n : o[p] = o[q] => p = q
      /\ \A i \in 1..n : \E p \in 1..n : o[p] = i
      /\ \A p, q \in 1..n : p < q => GoesBefore(negated, o[p], o[q])
  BY <1>4, <1>6 DEF IsSorting
<1> HIDE DEF o, n
<1>8. \A p, q \in 1..n : p < q => worth[t[p]] >= worth[t[q]]
  <2> SUFFICES ASSUME NEW p \in 1..n, NEW q \in 1..n, p < q PROVE worth[t[p]] >= worth[t[q]]
    OBVIOUS
  <2>1. o[p] \in 1..n /\ o[q] \in 1..n /\ GoesBefore(negated, o[p], o[q])
    BY <1>7
  <2>2. negated[o[p]] <= negated[o[q]]
    BY <1>3, <2>1 DEF GoesBefore
  <2>3. worth[t[p]] = worth[s[o[p]]] /\ worth[t[q]] = worth[s[o[q]]]
    BY <1>6
  <2>4. -worth[s[o[p]]] <= -worth[s[o[q]]]
    BY <1>3, <2>1, <2>2
  <2> QED BY <1>2, <2>1, <2>3, <2>4, SMTT(30)
<1>9. \A p, q \in 1..n : t[p] = t[q] => p = q
  <2> TAKE p, q \in 1..n
  <2> HAVE t[p] = t[q]
  <2>1. o[p] \in 1..n /\ o[q] \in 1..n /\ s[o[p]] = s[o[q]]
    BY <1>6, <1>7
  <2>2. o[p] = o[q]
    BY <2>1 DEF n
  <2> QED BY <1>7, <2>2
<1>10. \A i \in 1..n : \E p \in 1..n : t[p] = s[i]
  <2> TAKE i \in 1..n
  <2>1. PICK p \in 1..n : o[p] = i
    BY <1>7
  <2>2. t[p] = s[i]
    BY <1>6, <2>1
  <2> QED BY <2>2
<1>11. \A p \in 1..n : \E i \in 1..n : t[p] = s[i]
  <2> TAKE p \in 1..n
  <2>1. o[p] \in 1..n /\ t[p] = s[o[p]]
    BY <1>6, <1>7
  <2> QED BY <2>1
<1>12. t \in Seq(S) /\ Len(t) = n
  BY <1>6
<1>13. Len(t) = Len(s) /\ n = Len(t)
  BY <1>12 DEF n
<1>14. \A p, q \in 1..Len(t) : t[p] = t[q] => p = q
  BY <1>9, <1>13
<1>15. \A i \in 1..Len(s) : \E p \in 1..Len(t) : t[p] = s[i]
  BY <1>10, <1>13
<1>16. \A p \in 1..Len(t) : \E i \in 1..Len(s) : t[p] = s[i]
  BY <1>11, <1>13
<1>17. \A p, q \in 1..Len(t) : p < q => worth[t[p]] >= worth[t[q]]
  BY <1>8, <1>13
<1> QED BY <1>12, <1>13, <1>14, <1>15, <1>16, <1>17, Zenon DEF IsDescending

=============================================================================
