--------------------------- MODULE WireFormatProofs ---------------------------
(***************************************************************************)
(* That the readers of WireFormat understand what its writers write: a       *)
(* number is read back from its varint, a record from its bytes, a field     *)
(* from its tag and its data, whatever follows them.                         *)
(*                                                                           *)
(* The functions of WireFormat are defined by recursion. As nothing follows  *)
(* from such a definition before it is known that a function meets it, the   *)
(* first part gives induction and recursion over numbers with sets and       *)
(* functions in place of operators; every recursive function has a lemma     *)
(* ...Def that says what it is.                                              *)
(***************************************************************************)
EXTENDS WireFormat, WellFoundedInduction, SequenceTheorems, TLAPS

(***************************************************************************)
(* Induction and recursion over numbers, with sets and functions in place of *)
(* the operators that the library's theorems of that name take               *)
(***************************************************************************)
Less == {ss \in Nat \X Nat : ss[1] < ss[2]}

\* Less descends only finitely often.
LEMMA LessIsWellFounded == IsWellFoundedOn(Less, Nat)
BY NatLessThanWellFounded DEF OpToRel, Less

\* A set of numbers has a least one.
LEMMA LeastNumber ==
    ASSUME NEW S, S \subseteq Nat, S # {}
    PROVE  \E x \in S : \A y \in S : x <= y
<1>1. \E x \in S : \A y \in S : ~ (<<y, x>> \in Less)
  BY LessIsWellFounded, WFMin, Zenon
<1>2. ASSUME NEW x \in S, \A y \in S : ~ (<<y, x>> \in Less), NEW y \in S
      PROVE  x <= y
  <2>1. x \in Nat /\ y \in Nat /\ ~ (<<y, x>> \in Less)
    BY <1>2
  <2>. QED
    BY <2>1 DEF Less
<1>. QED
  BY <1>1, <1>2

\* A set that holds n whenever it holds all smaller numbers holds them all.
LEMMA Induction ==
    ASSUME NEW S, \A n \in Nat : (\A k \in 0 .. n - 1 : k \in S) => n \in S
    PROVE  Nat \subseteq S
<1>. DEFINE Out == Nat \ S
<1>1. SUFFICES ASSUME Out # {} PROVE FALSE
  OBVIOUS
<1>2. PICK x \in Out : \A y \in Out : x <= y
  BY <1>1, LeastNumber
<1>3. \A k \in 0 .. x - 1 : k \in S
  BY <1>2
<1>. QED
  BY <1>3

\* A set of functions, under a name by which the provers can find it.
Maps(S, T) == [S -> T]

\* A step can be taken any number of times.
LEMMA PrimitiveRecursion ==
    ASSUME NEW S, NEW first \in S, NEW step \in Maps(S, S)
    PROVE  \E f \in Maps(Nat, S) : f[0] = first /\ \A n \in Nat : f[n + 1] = step[f[n]]
<1>. USE DEF Maps
<1>. DEFINE Runs(n) == {g \in [0 .. n -> S] : g[0] = first /\ \A i \in 0 .. n - 1 : g[i + 1] = step[g[i]]}
            Have == {n \in Nat : Runs(n) # {}}
<1>1. ASSUME NEW n \in Nat, \A k \in 0 .. n - 1 : k \in Have
      PROVE  n \in Have
  <2>1. CASE n = 0
    <3>1. [i \in 0 .. 0 |-> first] \in Runs(0)
      OBVIOUS
    <3>. QED
      BY <2>1, <3>1
  <2>2. CASE n > 0
    <3>1. n - 1 \in 0 .. n - 1
      BY <2>2
    <3>2. PICK g : g \in Runs(n - 1)
      BY <1>1, <3>1
    <3>. DEFINE h == [i \in 0 .. n |-> IF i = n THEN step[g[n - 1]] ELSE g[i]]
    <3>3. h \in Runs(n)
      BY <2>2, <3>2
    <3>. QED
      BY <3>3
  <2>. QED
    BY <2>1, <2>2
<1>2. \A n \in Nat : Runs(n) # {}
  <2>. HIDE DEF Runs
  <2>1. Nat \subseteq Have
    BY <1>1, Induction
  <2>. QED
    BY <2>1
<1>3. ASSUME NEW m \in Nat, NEW n \in Nat, m <= n, NEW g \in Runs(m), NEW h \in Runs(n)
      PROVE  \A i \in 0 .. m : g[i] = h[i]
  <2>. DEFINE Same == {i \in Nat : i <= m => g[i] = h[i]}
  <2>1. ASSUME NEW i \in Nat, \A k \in 0 .. i - 1 : k \in Same
        PROVE  i \in Same
    <3>1. CASE i = 0
      BY <3>1
    <3>2. CASE i > 0 /\ i <= m
      <4>1. i - 1 \in 0 .. i - 1 /\ i - 1 \in 0 .. m - 1 /\ i - 1 \in 0 .. n - 1
        BY <3>2, <1>3
      <4>2. g[i - 1] = h[i - 1]
        BY <4>1, <2>1
      <4>3. g[(i - 1) + 1] = step[g[i - 1]] /\ h[(i - 1) + 1] = step[h[i - 1]]
        BY <4>1
      <4>. QED
        BY <4>2, <4>3
    <3>3. CASE i > m
      BY <3>3
    <3>. QED
      BY <3>1, <3>2, <3>3
  <2>2. Nat \subseteq Same
    <3>. HIDE DEF Same
    <3>. QED
      BY <2>1, Induction
  <2>. QED
    BY <2>2
<1>. DEFINE run == [n \in Nat |-> CHOOSE g : g \in Runs(n)]
            f == [n \in Nat |-> run[n][n]]
<1>4. \A n \in Nat : run[n] \in Runs(n)
  <2>. HIDE DEF Runs
  <2>. QED
    BY <1>2
<1>. HIDE DEF run
<1>5. ASSUME NEW n \in Nat
      PROVE  /\ run[n] \in [0 .. n -> S] /\ run[n][0] = first
             /\ \A i \in 0 .. n - 1 : run[n][i + 1] = step[run[n][i]]
  <2>1. run[n] \in Runs(n)
    BY <1>4
  <2>. QED
    BY <2>1
<1>6. f \in [Nat -> S] /\ f[0] = first
  BY <1>5
<1>7. ASSUME NEW n \in Nat
      PROVE  f[n + 1] = step[f[n]]
  <2>1. run[n] \in Runs(n) /\ run[n + 1] \in Runs(n + 1) /\ n + 1 \in Nat
    <3>. HIDE DEF Runs
    <3>. QED
      BY <1>4
  <2>2. run[n + 1][n] = run[n][n]
    <3>. HIDE DEF Runs
    <3>. QED
      BY <1>3, <2>1
  <2>3. run[n + 1][n + 1] = step[run[n + 1][n]]
    BY <1>5, <2>1
  <2>. QED
    BY <2>1, <2>2, <2>3
<1>. QED
  BY <1>6, <1>7

\* A function may be defined by recursion over arguments that get smaller.
Recursion(X, Y, size, Stop, next, last, step) ==
    /\ size \in Maps(X, Nat) /\ Stop \in SUBSET X /\ next \in Maps(X, X)
    /\ last \in Maps(X, Y) /\ step \in Maps(X \X Y, Y)
    /\ \A x \in X \ Stop : size[next[x]] < size[x]

\* A function of X that calls itself on arguments of smaller size exists.
LEMMA MeasuredRecursion ==
    ASSUME NEW X, NEW Y, NEW size, NEW Stop, NEW next, NEW last, NEW step,
           Recursion(X, Y, size, Stop, next, last, step)
    PROVE  \E f \in Maps(X, Y) :
              \A x \in X : f[x] = IF x \in Stop THEN last[x] ELSE step[<<x, f[next[x]]>>]
<1>. USE DEF Recursion
<1>. DEFINE Once(g) == [x \in X |-> IF x \in Stop THEN last[x] ELSE step[<<x, g[next[x]]>>]]
            once == [g \in Maps(X, Y) |-> Once(g)]
<1>1. once \in Maps(Maps(X, Y), Maps(X, Y)) /\ last \in Maps(X, Y)
  BY DEF Maps
<1>2. PICK F \in Maps(Nat, Maps(X, Y)) : F[0] = last /\ \A n \in Nat : F[n + 1] = once[F[n]]
  <2>. HIDE DEF once
  <2>. QED
    BY ONLY <1>1, PrimitiveRecursion, SMT
<1>. USE DEF Maps
<1>3. \A n \in Nat : F[n] \in [X -> Y]
  BY <1>2
<1>4. \A x \in Stop, n \in Nat : F[n][x] = last[x]
  <2>. SUFFICES ASSUME NEW x \in Stop, NEW n \in Nat
                PROVE  F[n][x] = last[x]
    OBVIOUS
  <2>1. CASE n = 0
    BY <1>2, <2>1
  <2>2. CASE n > 0
    <3>1. n - 1 \in Nat /\ n = (n - 1) + 1
      BY <2>2
    <3>2. F[n] = Once(F[n - 1])
      BY <1>2, <1>3, <3>1
    <3>. QED
      BY <3>2
  <2>. QED
    BY <2>1, <2>2
<1>5. \A x \in X \ Stop, n \in Nat \ {0} : F[n][x] = step[<<x, F[n - 1][next[x]]>>]
  <2>. SUFFICES ASSUME NEW x \in X \ Stop, NEW n \in Nat \ {0}
                PROVE  F[n][x] = step[<<x, F[n - 1][next[x]]>>]
    OBVIOUS
  <2>1. n - 1 \in Nat /\ n = (n - 1) + 1
    OBVIOUS
  <2>2. F[n] = Once(F[n - 1])
    BY <1>2, <1>3, <2>1
  <2>. QED
    BY <2>2
<1>. DEFINE Settled == {n \in Nat : \A x \in X : size[x] <= n => \A m \in Nat : n <= m => F[m][x] = F[n][x]}
<1>6. ASSUME NEW n \in Nat, \A k \in 0 .. n - 1 : k \in Settled
      PROVE  n \in Settled
  <2>. SUFFICES ASSUME NEW x \in X, size[x] <= n, NEW m \in Nat, n <= m
                PROVE  F[m][x] = F[n][x]
    OBVIOUS
  <2>1. CASE x \in Stop
    BY <1>4, <2>1
  <2>2. CASE x \notin Stop
    <3>1. next[x] \in X /\ size[next[x]] \in Nat /\ size[x] \in Nat /\ size[next[x]] < size[x]
      BY <2>2
    <3>2. n > 0 /\ m > 0 /\ n - 1 \in Nat /\ m - 1 \in Nat /\ n - 1 <= m - 1 /\ size[next[x]] <= n - 1
      BY <3>1
    <3>3. n - 1 \in Settled
      BY <1>6, <3>2
    <3>4. F[m - 1][next[x]] = F[n - 1][next[x]]
      BY <3>1, <3>2, <3>3
    <3>5. F[m][x] = step[<<x, F[m - 1][next[x]]>>] /\ F[n][x] = step[<<x, F[n - 1][next[x]]>>]
      <4>. HIDE DEF Settled
      <4>. QED
        BY <1>5, <2>2, <3>2
    <3>. QED
      BY <3>4, <3>5
  <2>. QED
    BY <2>1, <2>2
<1>7. Nat \subseteq Settled
  <2>. HIDE DEF Settled
  <2>. QED
    BY <1>6, Induction
<1>. DEFINE f == [x \in X |-> F[size[x]][x]]
<1>8. f \in [X -> Y]
  BY <1>3
<1>9. ASSUME NEW x \in X
      PROVE  f[x] = IF x \in Stop THEN last[x] ELSE step[<<x, f[next[x]]>>]
  <2>1. CASE x \in Stop
    BY <1>4, <2>1
  <2>2. CASE x \notin Stop
    <3>1. next[x] \in X /\ size[next[x]] \in Nat /\ size[x] \in Nat /\ size[next[x]] < size[x]
      BY <2>2
    <3>2. size[x] \in Nat \ {0} /\ size[x] - 1 \in Nat /\ size[next[x]] <= size[x] - 1
      BY <3>1
    <3>3. F[size[x] - 1][next[x]] = F[size[next[x]]][next[x]]
      BY <1>7, <3>1, <3>2
    <3>. QED
      BY <1>5, <2>2, <3>1, <3>2, <3>3
  <2>. QED
    BY <2>1, <2>2
<1>. QED
  BY <1>8, <1>9

(***************************************************************************)
(* Beginnings and ends of sequences                                        *)
(***************************************************************************)
\* The first n elements of b.
LEMMA TakeProperties ==
    ASSUME NEW S, NEW b \in Seq(S), NEW n \in 0 .. Len(b)
    PROVE  /\ Take(b, n) \in Seq(S) /\ Len(Take(b, n)) = n
           /\ \A i \in 1 .. n : Take(b, n)[i] = b[i]
BY DEF Take

\* What is left of b after n of its elements.
LEMMA DropProperties ==
    ASSUME NEW S, NEW b \in Seq(S), NEW n \in 0 .. Len(b)
    PROVE  /\ Drop(b, n) \in Seq(S) /\ Len(Drop(b, n)) = Len(b) - n
           /\ \A i \in 1 .. Len(b) - n : Drop(b, n)[i] = b[n + i]
BY DEF Drop

\* The two make up b.
LEMMA TakeThenDrop ==
    ASSUME NEW S, NEW b \in Seq(S), NEW n \in 0 .. Len(b)
    PROVE  Take(b, n) \o Drop(b, n) = b
<1>1. Take(b, n) \in Seq(S) /\ Drop(b, n) \in Seq(S)
  BY TakeProperties, DropProperties
<1>2. /\ Take(b, n) \o Drop(b, n) \in Seq(S)
      /\ Len(Take(b, n) \o Drop(b, n)) = Len(b)
  BY <1>1, TakeProperties, DropProperties, ConcatProperties
<1>3. ASSUME NEW i \in 1 .. Len(b)
      PROVE  (Take(b, n) \o Drop(b, n))[i] = b[i]
  <2>1. /\ Len(Take(b, n)) = n /\ Len(Drop(b, n)) = Len(b) - n /\ Len(b) \in Nat
        /\ i \in 1 .. Len(Take(b, n)) + Len(Drop(b, n))
    BY TakeProperties, DropProperties, LenProperties
  <2>2. (Take(b, n) \o Drop(b, n))[i] = IF i <= n THEN Take(b, n)[i] ELSE Drop(b, n)[i - n]
    BY <1>1, <2>1, ConcatProperties
  <2>3. CASE i <= n
    BY <2>2, <2>3, TakeProperties
  <2>4. CASE ~(i <= n)
    <3>1. i - n \in 1 .. Len(b) - n /\ n + (i - n) = i
      BY <2>1, <2>4
    <3>. QED
      BY <2>2, <2>4, <3>1, DropProperties
  <2>. QED
    BY <2>3, <2>4
<1>. QED
  BY <1>2, <1>3, SeqEqual

\* Dropping twice.
LEMMA DropOfDrop ==
    ASSUME NEW S, NEW b \in Seq(S), NEW m \in 0 .. Len(b), NEW n \in 0 .. Len(b) - m
    PROVE  Drop(Drop(b, m), n) = Drop(b, m + n)
<1>1. /\ Drop(b, m) \in Seq(S) /\ Len(Drop(b, m)) = Len(b) - m
      /\ \A i \in 1 .. Len(b) - m : Drop(b, m)[i] = b[m + i]
  BY DropProperties
<1>2. n \in 0 .. Len(Drop(b, m)) /\ m + n \in 0 .. Len(b) /\ Len(b) \in Nat
  BY <1>1, LenProperties
<1>3. /\ Drop(Drop(b, m), n) \in Seq(S) /\ Len(Drop(Drop(b, m), n)) = Len(b) - m - n
      /\ \A i \in 1 .. Len(b) - m - n : Drop(Drop(b, m), n)[i] = Drop(b, m)[n + i]
  BY <1>1, <1>2, DropProperties
<1>4. /\ Drop(b, m + n) \in Seq(S) /\ Len(Drop(b, m + n)) = Len(b) - m - n
      /\ \A i \in 1 .. Len(b) - m - n : Drop(b, m + n)[i] = b[m + n + i]
  <2>. DEFINE k == m + n
  <2>1. k \in 0 .. Len(b) /\ Len(b) - k = Len(b) - m - n
    BY <1>2
  <2>. HIDE DEF k
  <2>2. /\ Drop(b, k) \in Seq(S) /\ Len(Drop(b, k)) = Len(b) - k
        /\ \A i \in 1 .. Len(b) - k : Drop(b, k)[i] = b[k + i]
    BY <2>1, DropProperties
  <2>. QED
    BY <2>1, <2>2 DEF k
<1>5. ASSUME NEW i \in 1 .. Len(b) - m - n
      PROVE  Drop(Drop(b, m), n)[i] = Drop(b, m + n)[i]
  <2>1. n + i \in 1 .. Len(b) - m /\ m + (n + i) = m + n + i
    BY <1>2
  <2>. QED
    BY <1>1, <1>3, <1>4, <2>1
<1>. QED
  BY <1>3, <1>4, <1>5, SeqEqual

\* The beginning of a concatenation.
LEMMA TakeOfConcat ==
    ASSUME NEW S, NEW s \in Seq(S), NEW t \in Seq(S), NEW n \in 0 .. Len(s)
    PROVE  Take(s \o t, n) = Take(s, n)
<1>1. /\ s \o t \in Seq(S) /\ Len(s \o t) = Len(s) + Len(t) /\ Len(s) \in Nat /\ Len(t) \in Nat
      /\ \A i \in 1 .. Len(s) : (s \o t)[i] = s[i]
  BY ConcatProperties, LenProperties
<1>2. n \in 0 .. Len(s \o t)
  BY <1>1
<1>3. /\ Take(s \o t, n) \in Seq(S) /\ Len(Take(s \o t, n)) = n
      /\ \A i \in 1 .. n : Take(s \o t, n)[i] = (s \o t)[i]
  BY <1>1, <1>2, TakeProperties
<1>4. Take(s, n) \in Seq(S) /\ Len(Take(s, n)) = n /\ \A i \in 1 .. n : Take(s, n)[i] = s[i]
  BY TakeProperties
<1>5. \A i \in 1 .. n : Take(s \o t, n)[i] = Take(s, n)[i]
  BY <1>1, <1>3, <1>4
<1>. QED
  BY <1>3, <1>4, <1>5, SeqEqual

\* What is left of a concatenation.
LEMMA DropOfConcat ==
    ASSUME NEW S, NEW s \in Seq(S), NEW t \in Seq(S), NEW n \in 0 .. Len(s)
    PROVE  Drop(s \o t, n) = Drop(s, n) \o t
<1>1. /\ s \o t \in Seq(S) /\ Len(s \o t) = Len(s) + Len(t) /\ Len(s) \in Nat /\ Len(t) \in Nat
      /\ \A i \in 1 .. Len(s) + Len(t) : (s \o t)[i] = IF i <= Len(s) THEN s[i] ELSE t[i - Len(s)]
  BY ConcatProperties, LenProperties
<1>2. n \in 0 .. Len(s \o t)
  BY <1>1
<1>3. /\ Drop(s \o t, n) \in Seq(S) /\ Len(Drop(s \o t, n)) = Len(s) + Len(t) - n
      /\ \A i \in 1 .. Len(s) + Len(t) - n : Drop(s \o t, n)[i] = (s \o t)[n + i]
  <2>. DEFINE st == s \o t
  <2>1. st \in Seq(S) /\ Len(st) = Len(s) + Len(t) /\ n \in 0 .. Len(st)
    BY <1>1, <1>2
  <2>. HIDE DEF st
  <2>2. /\ Drop(st, n) \in Seq(S) /\ Len(Drop(st, n)) = Len(st) - n
        /\ \A i \in 1 .. Len(st) - n : Drop(st, n)[i] = st[n + i]
    BY <2>1, DropProperties
  <2>. QED
    BY <2>1, <2>2 DEF st
<1>4. /\ Drop(s, n) \in Seq(S) /\ Len(Drop(s, n)) = Len(s) - n
      /\ \A i \in 1 .. Len(s) - n : Drop(s, n)[i] = s[n + i]
  BY DropProperties
<1>5. /\ Drop(s, n) \o t \in Seq(S) /\ Len(Drop(s, n) \o t) = Len(s) - n + Len(t)
      /\ \A i \in 1 .. Len(s) - n + Len(t) :
            (Drop(s, n) \o t)[i] = IF i <= Len(s) - n THEN Drop(s, n)[i] ELSE t[i - (Len(s) - n)]
  <2>. DEFINE d == Drop(s, n)
  <2>1. d \in Seq(S) /\ Len(d) = Len(s) - n
    BY <1>4
  <2>. HIDE DEF d
  <2>2. /\ d \o t \in Seq(S) /\ Len(d \o t) = Len(d) + Len(t)
        /\ \A i \in 1 .. Len(d) + Len(t) :
              (d \o t)[i] = IF i <= Len(d) THEN d[i] ELSE t[i - Len(d)]
    BY <2>1, ConcatProperties
  <2>. QED
    BY <2>1, <2>2 DEF d
<1>6. ASSUME NEW i \in 1 .. Len(s) + Len(t) - n
      PROVE  Drop(s \o t, n)[i] = (Drop(s, n) \o t)[i]
  <2>1. n + i \in 1 .. Len(s) + Len(t) /\ n + i - Len(s) = i - (Len(s) - n)
        /\ (n + i <= Len(s) <=> i <= Len(s) - n) /\ i \in 1 .. Len(s) - n + Len(t)
    BY <1>1
  <2>2. Drop(s \o t, n)[i] = IF n + i <= Len(s) THEN s[n + i] ELSE t[n + i - Len(s)]
    BY <1>1, <1>3, <2>1
  <2>3. (Drop(s, n) \o t)[i] = IF i <= Len(s) - n THEN Drop(s, n)[i] ELSE t[i - (Len(s) - n)]
    BY <1>5, <2>1
  <2>4. i <= Len(s) - n => Drop(s, n)[i] = s[n + i]
    BY <1>4
  <2>. QED
    BY <2>1, <2>2, <2>3, <2>4
<1>7. Len(s) + Len(t) - n = Len(s) - n + Len(t)
  BY <1>1
<1>. QED
  BY <1>3, <1>5, <1>6, <1>7, SeqEqual

\* A concatenation taken apart.
LEMMA SplitConcat ==
    ASSUME NEW S, NEW s \in Seq(S), NEW t \in Seq(S)
    PROVE  Take(s \o t, Len(s)) = s /\ Drop(s \o t, Len(s)) = t
<1>1. Len(s) \in 0 .. Len(s)
  BY LenProperties
<1>2. Take(s \o t, Len(s)) = Take(s, Len(s)) /\ Drop(s \o t, Len(s)) = Drop(s, Len(s)) \o t
  BY <1>1, TakeOfConcat, DropOfConcat
<1>3. Take(s, Len(s)) = s
  BY SubSeqFull DEF Take
<1>4. Drop(s, Len(s)) = <<>>
  <2>1. Drop(s, Len(s)) \in Seq(S) /\ Len(Drop(s, Len(s))) = 0
    BY <1>1, DropProperties
  <2>. QED
    BY <2>1, EmptySeq
<1>. QED
  BY <1>2, <1>3, <1>4, ConcatEmptySeq

\* A set that holds b whenever it holds all shorter sequences holds them all.
LEMMA InductionOnLength ==
    ASSUME NEW S, NEW T, \A b \in Seq(S) : (\A c \in Seq(S) : Len(c) < Len(b) => c \in T) => b \in T
    PROVE  Seq(S) \subseteq T
<1>. DEFINE Lens == {n \in Nat : \A b \in Seq(S) : Len(b) = n => b \in T}
<1>1. ASSUME NEW n \in Nat, \A k \in 0 .. n - 1 : k \in Lens
      PROVE  n \in Lens
  <2>. SUFFICES ASSUME NEW b \in Seq(S), Len(b) = n
                PROVE  b \in T
    OBVIOUS
  <2>1. ASSUME NEW c \in Seq(S), Len(c) < Len(b)
        PROVE  c \in T
    <3>1. Len(c) \in 0 .. n - 1
      BY <2>1, LenProperties
    <3>. QED
      BY <1>1, <3>1
  <2>. QED
    BY <2>1
<1>2. Nat \subseteq Lens
  <2>. HIDE DEF Lens
  <2>. QED
    BY <1>1, Induction
<1>. QED
  BY <1>2, LenProperties

(***************************************************************************)
(* Varints                                                                 *)
(***************************************************************************)
\* Division by Cont.
LEMMA ContDivides ==
    ASSUME NEW x \in Nat
    PROVE  /\ x \div Cont \in Nat /\ x % Cont \in 0 .. Cont - 1
           /\ x = Cont * (x \div Cont) + (x % Cont)
           /\ (x >= Cont => x \div Cont < x)
BY WidthsAssumption

\* The lower half of a byte, whether the upper one is set or not.
LEMMA LowHalves ==
    ASSUME NEW x \in 0 .. Cont - 1
    PROVE  x % Cont = x /\ (Cont + x) % Cont = x /\ x \in Byte /\ Cont + x \in Byte
BY WidthsAssumption DEF Byte

\* The first byte, and the shorter rest.
LEMMA HeadAndTail ==
    ASSUME NEW b \in Bytes, b # <<>>
    PROVE  /\ Tail(b) \in Bytes /\ Len(Tail(b)) < Len(b) /\ Head(b) \in Byte /\ Head(b) \in Nat
           /\ Head(b) % Cont \in 0 .. Cont - 1
<1>1. Tail(b) \in Bytes /\ Len(Tail(b)) = Len(b) - 1 /\ Head(b) \in Byte
  BY HeadTailProperties DEF Bytes
<1>2. Len(b) \in Nat
  BY LenProperties DEF Bytes
<1>3. Head(b) \in Nat
  BY <1>1, WidthsAssumption DEF Byte
<1>4. Head(b) % Cont \in 0 .. Cont - 1
  BY <1>3, ContDivides
<1>. QED
  BY <1>1, <1>2, <1>3, <1>4

\* ValueOf is what its definition says: a function that meets it exists.
LEMMA ValueOfDef ==
    /\ ValueOf \in [Bytes -> Nat]
    /\ \A b \in Bytes : ValueOf[b] = IF b = <<>> THEN 0 ELSE (Head(b) % Cont) + Cont * ValueOf[Tail(b)]
<1>. DEFINE E(g) == [b \in Bytes |-> IF b = <<>> THEN 0 ELSE (Head(b) % Cont) + Cont * g[Tail(b)]]
            size == [b \in Bytes |-> Len(b)]
            Stop == {b \in Bytes : b = <<>>}
            next == [b \in Bytes |-> IF b = <<>> THEN b ELSE Tail(b)]
            last == [b \in Bytes |-> 0]
            step == [p \in Bytes \X Nat |-> IF p[1] = <<>> THEN 0 ELSE (Head(p[1]) % Cont) + Cont * p[2]]
<1>1. ASSUME NEW b \in Bytes, b # <<>>, NEW n \in Nat
      PROVE  (Head(b) % Cont) + Cont * n \in Nat
  BY <1>1, HeadAndTail, WidthsAssumption
<1>2. PICK f \in Maps(Bytes, Nat) :
         \A b \in Bytes : f[b] = IF b \in Stop THEN last[b] ELSE step[<<b, f[next[b]]>>]
  <2>1. size \in Maps(Bytes, Nat) /\ Stop \in SUBSET Bytes /\ last \in Maps(Bytes, Nat)
    BY LenProperties DEF Maps, Bytes
  <2>2. next \in Maps(Bytes, Bytes)
    BY HeadAndTail DEF Maps
  <2>3. step \in Maps(Bytes \X Nat, Nat)
    <3>1. ASSUME NEW p \in Bytes \X Nat
          PROVE  (IF p[1] = <<>> THEN 0 ELSE (Head(p[1]) % Cont) + Cont * p[2]) \in Nat
      BY <1>1
    <3>. QED
      BY <3>1 DEF Maps
  <2>4. \A b \in Bytes \ Stop : size[next[b]] < size[b]
    BY HeadAndTail
  <2>5. Recursion(Bytes, Nat, size, Stop, next, last, step)
    <3>. HIDE DEF size, Stop, next, last, step
    <3>. QED
      BY <2>1, <2>2, <2>3, <2>4 DEF Recursion
  <2>. HIDE DEF size, Stop, next, last, step
  <2>. QED
    BY ONLY <2>5, MeasuredRecursion, SMT
<1>3. f = E(f)
  <2>1. f \in [Bytes -> Nat]
    BY DEF Maps
  <2>2. ASSUME NEW b \in Bytes
        PROVE  f[b] = IF b = <<>> THEN 0 ELSE (Head(b) % Cont) + Cont * f[Tail(b)]
    BY <1>2, <2>1, HeadAndTail
  <2>. QED
    BY <2>1, <2>2
<1>4. ValueOf = E(ValueOf)
  <2>1. \E g : g = E(g)
    BY <1>3
  <2>. QED
    BY <2>1, Zenon DEF ValueOf
<1>5. \A b \in Bytes : ValueOf[b] = IF b = <<>> THEN 0 ELSE (Head(b) % Cont) + Cont * ValueOf[Tail(b)]
  BY <1>4
<1>6. Bytes \subseteq {b \in Bytes : ValueOf[b] \in Nat}
  <2>. DEFINE T == {b \in Bytes : ValueOf[b] \in Nat}
  <2>1. ASSUME NEW b \in Bytes, \A c \in Bytes : Len(c) < Len(b) => c \in T
        PROVE  b \in T
    <3>1. CASE b = <<>>
      BY <1>5, <3>1
    <3>2. CASE b # <<>>
      <4>1. ValueOf[Tail(b)] \in Nat
        BY <2>1, <3>2, HeadAndTail
      <4>. QED
        BY <1>1, <1>5, <3>2, <4>1
    <3>. QED
      BY <3>1, <3>2
  <2>. HIDE DEF T
  <2>2. Bytes \subseteq T
    BY <2>1, InductionOnLength DEF Bytes
  <2>. QED
    BY <2>2 DEF T
<1>. QED
  BY <1>4, <1>5, <1>6

\* Varint is what its definition says.
LEMMA VarintDef ==
    /\ Varint \in [Nat -> Bytes]
    /\ \A x \in Nat : Varint[x] = IF x < Cont THEN <<x>> ELSE <<Cont + (x % Cont)>> \o Varint[x \div Cont]
<1>. DEFINE E(g) == [x \in Nat |-> IF x < Cont THEN <<x>> ELSE <<Cont + (x % Cont)>> \o g[x \div Cont]]
            size == [x \in Nat |-> x]
            Stop == {x \in Nat : x < Cont}
            next == [x \in Nat |-> x \div Cont]
            last == [x \in Nat |-> IF x < Cont THEN <<x>> ELSE <<>>]
            step == [p \in Nat \X Bytes |-> <<Cont + (p[1] % Cont)>> \o p[2]]
<1>1. ASSUME NEW x \in Nat, NEW v \in Bytes
      PROVE  <<Cont + (x % Cont)>> \o v \in Bytes
  <2>1. <<Cont + (x % Cont)>> \in Bytes
    BY ContDivides, LowHalves DEF Bytes
  <2>. QED
    BY <2>1, ConcatProperties DEF Bytes
<1>2. ASSUME NEW x \in Nat, x < Cont
      PROVE  <<x>> \in Bytes
  BY <1>2, LowHalves, WidthsAssumption DEF Bytes
<1>3. PICK f \in Maps(Nat, Bytes) :
         \A x \in Nat : f[x] = IF x \in Stop THEN last[x] ELSE step[<<x, f[next[x]]>>]
  <2>1. size \in Maps(Nat, Nat) /\ Stop \in SUBSET Nat
    BY DEF Maps
  <2>2. next \in Maps(Nat, Nat)
    BY ContDivides DEF Maps
  <2>3. last \in Maps(Nat, Bytes)
    BY <1>2 DEF Maps, Bytes
  <2>4. step \in Maps(Nat \X Bytes, Bytes)
    <3>1. ASSUME NEW p \in Nat \X Bytes
          PROVE  (<<Cont + (p[1] % Cont)>> \o p[2]) \in Bytes
      BY <1>1
    <3>. QED
      BY <3>1 DEF Maps
  <2>5. \A x \in Nat \ Stop : size[next[x]] < size[x]
    BY ContDivides, WidthsAssumption
  <2>6. Recursion(Nat, Bytes, size, Stop, next, last, step)
    <3>. HIDE DEF size, Stop, next, last, step
    <3>. QED
      BY <2>1, <2>2, <2>3, <2>4, <2>5 DEF Recursion
  <2>. HIDE DEF size, Stop, next, last, step
  <2>. QED
    BY ONLY <2>6, MeasuredRecursion, SMT
<1>4. f = E(f)
  <2>1. f \in [Nat -> Bytes]
    BY DEF Maps
  <2>2. ASSUME NEW x \in Nat
        PROVE  f[x] = IF x < Cont THEN <<x>> ELSE <<Cont + (x % Cont)>> \o f[x \div Cont]
    BY <1>3, <2>1, ContDivides
  <2>. QED
    BY <2>1, <2>2
<1>5. Varint = E(Varint)
  <2>1. \E g : g = E(g)
    BY <1>4
  <2>. QED
    BY <2>1, Zenon DEF Varint
<1>6. \A x \in Nat : Varint[x] = IF x < Cont THEN <<x>> ELSE <<Cont + (x % Cont)>> \o Varint[x \div Cont]
  BY <1>5
<1>7. \A x \in Nat : Varint[x] \in Bytes
  <2>. DEFINE T == {x \in Nat : Varint[x] \in Bytes}
  <2>1. ASSUME NEW x \in Nat, \A y \in 0 .. x - 1 : y \in T
        PROVE  x \in T
    <3>1. CASE x < Cont
      BY <1>2, <1>6, <3>1
    <3>2. CASE ~(x < Cont)
      <4>1. x \div Cont \in 0 .. x - 1
        BY <3>2, ContDivides, WidthsAssumption
      <4>2. Varint[x \div Cont] \in Bytes
        BY <2>1, <4>1
      <4>. QED
        BY <1>1, <1>6, <3>2, <4>2
    <3>. QED
      BY <3>1, <3>2
  <2>. HIDE DEF T
  <2>2. Nat \subseteq T
    BY <2>1, Induction
  <2>. QED
    BY <2>2 DEF T
<1>. QED
  BY <1>5, <1>6, <1>7

\* The bytes of a varint but the last are of the upper half, and their lower
\* halves make up the number.
IsVarint(v) == /\ v \in Bytes /\ Len(v) > 0 /\ v[Len(v)] < Cont
               /\ \A i \in 1 .. Len(v) - 1 : v[i] >= Cont

\* No bytes are bytes.
LEMMA EmptyBytes == <<>> \in Bytes
BY EmptySeq DEF Bytes

\* A number below Cont is its own varint.
LEMMA VarintOfSmall ==
    ASSUME NEW x \in Nat, x < Cont
    PROVE  IsVarint(<<x>>) /\ Len(<<x>>) = 1 /\ ValueOf[<<x>>] = x
<1>1. <<x>> \in Bytes
  BY LowHalves, WidthsAssumption DEF Bytes
<1>2. ValueOf[<<x>>] = (x % Cont) + Cont * ValueOf[<<>>]
  <2>1. <<x>> # <<>> /\ Head(<<x>>) = x /\ Tail(<<x>>) = <<>>
    OBVIOUS
  <2>. QED
    BY <1>1, <2>1, ValueOfDef
<1>3. ValueOf[<<>>] = 0
  BY EmptyBytes, ValueOfDef
<1>4. x % Cont = x
  BY LowHalves, WidthsAssumption
<1>5. Cont * 0 = 0 /\ x + 0 = x
  BY WidthsAssumption
<1>. QED
  BY <1>1, <1>2, <1>3, <1>4, <1>5 DEF IsVarint

\* A byte that carries on, before the varint of the rest.
LEMMA VarintOfLarge ==
    ASSUME NEW x \in Nat, NEW v, IsVarint(v), ValueOf[v] = x \div Cont
    PROVE  LET w == <<Cont + (x % Cont)>> \o v
           IN  IsVarint(w) /\ Len(w) = Len(v) + 1 /\ ValueOf[w] = x
<1>. DEFINE h == Cont + (x % Cont)
            w == <<h>> \o v
<1>1. v \in Seq(Byte) /\ Len(v) \in Nat /\ Len(v) > 0 /\ h \in Byte /\ <<h>> \in Seq(Byte)
  BY ContDivides, LowHalves, LenProperties DEF IsVarint, Bytes
<1>2. h \in Nat /\ h >= Cont /\ h % Cont = x % Cont
  BY ContDivides, LowHalves, WidthsAssumption
<1>. HIDE DEF h
<1>3. /\ w \in Seq(Byte) /\ Len(w) = Len(v) + 1
      /\ \A i \in 1 .. Len(v) + 1 : w[i] = IF i <= 1 THEN h ELSE v[i - 1]
  <2>1. w \in Seq(Byte) /\ Len(w) = 1 + Len(v)
        /\ \A i \in 1 .. 1 + Len(v) : w[i] = IF i <= 1 THEN <<h>>[i] ELSE v[i - 1]
    <3>1. Len(<<h>>) = 1
      OBVIOUS
    <3>. QED
      BY <1>1, <3>1, ConcatProperties
  <2>. QED
    BY <1>1, <2>1
<1>4. w # <<>> /\ Head(w) = h /\ Tail(w) = v
  <2>1. w # <<>>
    BY <1>1, <1>3
  <2>2. Head(w) = h
    BY <1>1, <1>3
  <2>3. Tail(w) = v
    <3>1. Tail(w) \in Seq(Byte) /\ Len(Tail(w)) = Len(v)
          /\ \A i \in 1 .. Len(v) : Tail(w)[i] = w[i + 1]
      BY <1>1, <1>3, <2>1
    <3>2. \A i \in 1 .. Len(v) : Tail(w)[i] = v[i]
      BY <1>1, <1>3, <3>1
    <3>. QED
      BY <1>1, <3>1, <3>2, SeqEqual
  <2>. QED
    BY <2>1, <2>2, <2>3
<1>. HIDE DEF w
<1>5. ValueOf[w] = x
  <2>1. ValueOf[w] = (h % Cont) + Cont * ValueOf[v]
    BY <1>3, <1>4, ValueOfDef DEF Bytes
  <2>2. x = Cont * (x \div Cont) + (x % Cont) /\ Cont * (x \div Cont) \in Nat /\ x % Cont \in Nat
    BY ContDivides, WidthsAssumption
  <2>. QED
    BY <1>2, <2>1, <2>2
<1>6. IsVarint(w)
  <2>1. w[Len(w)] < Cont
    BY <1>1, <1>3 DEF IsVarint
  <2>2. ASSUME NEW i \in 1 .. Len(w) - 1
        PROVE  w[i] >= Cont
    <3>1. CASE i = 1
      BY <1>1, <1>2, <1>3, <3>1
    <3>2. CASE i > 1
      <4>1. i - 1 \in 1 .. Len(v) - 1 /\ w[i] = v[i - 1]
        BY <1>1, <1>3, <3>2
      <4>. QED
        BY <4>1 DEF IsVarint
    <3>. QED
      BY <3>1, <3>2
  <2>. QED
    BY <1>1, <1>3, <2>1, <2>2 DEF IsVarint, Bytes
<1>. QED
  BY <1>3, <1>5, <1>6 DEF w, h

\* A number is read back from its varint (appendProtobufVarint).
THEOREM VarintValue ==
    ASSUME NEW x \in Nat
    PROVE  IsVarint(Varint[x]) /\ ValueOf[Varint[x]] = x
<1>. DEFINE T == {y \in Nat : IsVarint(Varint[y]) /\ ValueOf[Varint[y]] = y}
<1>1. ASSUME NEW y \in Nat, \A z \in 0 .. y - 1 : z \in T
      PROVE  y \in T
  <2>1. CASE y < Cont
    BY <2>1, VarintDef, VarintOfSmall
  <2>2. CASE ~(y < Cont)
    <3>1. y \div Cont \in 0 .. y - 1
      BY <2>2, ContDivides, WidthsAssumption
    <3>2. IsVarint(Varint[y \div Cont]) /\ ValueOf[Varint[y \div Cont]] = y \div Cont
      BY <1>1, <3>1
    <3>3. Varint[y] = <<Cont + (y % Cont)>> \o Varint[y \div Cont]
      BY <2>2, VarintDef
    <3>. QED
      BY <3>2, <3>3, VarintOfLarge
  <2>. QED
    BY <2>1, <2>2
<1>2. Nat \subseteq T
  <2>. HIDE DEF T
  <2>. QED
    BY <1>1, Induction
<1>. QED
  BY <1>2

\* Larger numbers do not make shorter varints.
LEMMA VarintLength ==
    ASSUME NEW y \in Nat, NEW x \in 0 .. y
    PROVE  Len(Varint[x]) <= Len(Varint[y])
<1>. DEFINE T == {n \in Nat : \A k \in 0 .. n : Len(Varint[k]) <= Len(Varint[n])}
<1>1. ASSUME NEW n \in Nat, \A k \in 0 .. n - 1 : k \in T, NEW k \in 0 .. n
      PROVE  Len(Varint[k]) <= Len(Varint[n])
  <2>1. \A i \in Nat : Len(Varint[i]) \in Nat /\ Len(Varint[i]) > 0
    BY VarintValue, LenProperties DEF IsVarint, Bytes
  <2>2. ASSUME NEW i \in Nat, i < Cont
        PROVE  Len(Varint[i]) = 1
    <3>1. Varint[i] = <<i>>
      BY <2>2, VarintDef
    <3>. QED
      BY <3>1
  <2>3. \A i \in Nat : ~(i < Cont) => Len(Varint[i]) = 1 + Len(Varint[i \div Cont])
    <3>. SUFFICES ASSUME NEW i \in Nat, ~(i < Cont)
                  PROVE  Len(Varint[i]) = 1 + Len(Varint[i \div Cont])
      OBVIOUS
    <3>. DEFINE h == Cont + (i % Cont)
                v == Varint[i \div Cont]
    <3>1. <<h>> \in Seq(Byte) /\ v \in Seq(Byte)
      BY ContDivides, LowHalves, VarintDef DEF Bytes
    <3>2. Varint[i] = <<h>> \o v
      BY VarintDef
    <3>. HIDE DEF h, v
    <3>3. Len(<<h>> \o v) = Len(<<h>>) + Len(v) /\ Len(<<h>>) = 1
      BY <3>1, ConcatProperties
    <3>. QED
      BY <3>2, <3>3 DEF v
  <2>4. CASE k < Cont
    <3>1. Len(Varint[k]) = 1
      BY <2>2, <2>4
    <3>2. Len(Varint[n]) \in Nat /\ Len(Varint[n]) > 0
      BY <2>1
    <3>. QED
      BY <3>1, <3>2
  <2>5. CASE ~(k < Cont)
    <3>1. ~(n < Cont) /\ k \in Nat
      BY <2>5, WidthsAssumption
    <3>2. n \div Cont \in 0 .. n - 1
      BY <3>1, ContDivides, WidthsAssumption
    <3>3. k \div Cont \in 0 .. n \div Cont
      BY <3>1, ContDivides, WidthsAssumption
    <3>4. Len(Varint[k \div Cont]) <= Len(Varint[n \div Cont])
      BY <1>1, <3>2, <3>3
    <3>5. k \div Cont \in Nat /\ n \div Cont \in Nat
      BY <3>1, ContDivides
    <3>6. Len(Varint[k]) = 1 + Len(Varint[k \div Cont]) /\ Len(Varint[n]) = 1 + Len(Varint[n \div Cont])
      BY <2>3, <2>5, <3>1
    <3>7. Len(Varint[k \div Cont]) \in Nat /\ Len(Varint[n \div Cont]) \in Nat
      BY <2>1, <3>5
    <3>. QED
      BY <3>4, <3>6, <3>7
  <2>. QED
    BY <2>4, <2>5
<1>2. Nat \subseteq T
  <2>1. \A n \in Nat : (\A k \in 0 .. n - 1 : k \in T) => n \in T
    BY <1>1
  <2>. HIDE DEF T
  <2>. QED
    BY <2>1, Induction
<1>. QED
  BY <1>2

\* What consumeProtobufVarint takes for a varint.
Consumable(v) == IsVarint(v) /\ Len(v) <= MaxVarint /\ (Len(v) = MaxVarint => v[Len(v)] <= 1)

\* The least of a set of numbers.
LEMMA MinProperties ==
    ASSUME NEW S, S \subseteq Nat, S # {}
    PROVE  Min(S) \in S /\ \A y \in S : Min(S) <= y
BY LeastNumber DEF Min

Ends(b) == {k \in 1 .. Len(b) : k <= MaxVarint /\ b[k] < Cont /\ (k = MaxVarint => b[k] <= 1)}

\* Bytes are numbers, of which there are finitely many in a sequence.
LEMMA BytesAreNumbers ==
    ASSUME NEW b \in Bytes
    PROVE  Len(b) \in Nat /\ \A i \in 1 .. Len(b) : b[i] \in Byte /\ b[i] \in Nat
BY LenProperties, ElementOfSeq, WidthsAssumption DEF Bytes, Byte

\* A varint at the beginning of bytes is found, whatever follows it.
LEMMA ConsumeVarint ==
    ASSUME NEW v, Consumable(v), NEW rest \in Bytes
    PROVE  consumeProtobufVarint(v \o rest) = [n |-> Len(v), value |-> ValueOf[v]]
<1>. DEFINE b == v \o rest
<1>1. v \in Bytes /\ Len(v) \in Nat /\ Len(rest) \in Nat /\ Len(v) > 0
  BY BytesAreNumbers DEF Consumable, IsVarint
<1>2. /\ b \in Bytes /\ Len(b) = Len(v) + Len(rest)
      /\ \A i \in 1 .. Len(v) : b[i] = v[i]
      /\ Take(b, Len(v)) = v
  BY <1>1, ConcatProperties, SplitConcat DEF Bytes
<1>. HIDE DEF b
<1>3. Len(v) \in Ends(b)
  BY <1>1, <1>2 DEF Ends, Consumable, IsVarint
<1>4. ASSUME NEW k \in Ends(b), k < Len(v)
      PROVE  FALSE
  <2>1. k \in 1 .. Len(v) - 1
    BY <1>1, <1>4 DEF Ends
  <2>2. v[k] >= Cont /\ v[k] \in Nat
    BY <1>1, <2>1, BytesAreNumbers DEF Consumable, IsVarint
  <2>3. b[k] = v[k] /\ b[k] < Cont
    BY <1>1, <1>2, <2>1 DEF Ends
  <2>. QED
    BY <2>2, <2>3, WidthsAssumption
<1>5. Min(Ends(b)) = Len(v)
  <2>1. Ends(b) \subseteq Nat
    BY DEF Ends
  <2>2. Min(Ends(b)) \in Ends(b) /\ Min(Ends(b)) <= Len(v)
    BY <1>3, <2>1, MinProperties
  <2>. QED
    BY <1>1, <1>4, <2>1, <2>2
<1>6. consumeProtobufVarint(b) = FirstN(b, IF Ends(b) = {} THEN 0 ELSE Min(Ends(b)))
  BY DEF consumeProtobufVarint, Ends
<1>. QED
  BY <1>2, <1>3, <1>5, <1>6 DEF FirstN, b

\* What consumeProtobufVarint finds is a varint, or nothing.
LEMMA ConsumedVarint ==
    ASSUME NEW b \in Bytes, NEW c, c = consumeProtobufVarint(b)
    PROVE  \/ c = [n |-> 0, value |-> 0]
           \/ /\ c.n \in 1 .. Len(b)
              /\ Consumable(Take(b, c.n))
              /\ c = [n |-> c.n, value |-> ValueOf[Take(b, c.n)]]
<1>1. c = FirstN(b, IF Ends(b) = {} THEN 0 ELSE Min(Ends(b)))
  BY DEF consumeProtobufVarint, Ends
<1>2. CASE Ends(b) = {}
  <2>1. Take(b, 0) = <<>>
    BY DEF Take
  <2>2. ValueOf[<<>>] = 0
    BY EmptyBytes, ValueOfDef
  <2>. QED
    BY <1>1, <1>2, <2>1, <2>2 DEF FirstN
<1>3. CASE Ends(b) # {}
  <2>. DEFINE n == Min(Ends(b))
              v == Take(b, n)
  <2>1. n \in Ends(b) /\ \A k \in Ends(b) : n <= k
    BY <1>3, MinProperties DEF Ends
  <2>. HIDE DEF n
  <2>2. Len(b) \in Nat /\ n \in 1 .. Len(b) /\ n <= MaxVarint /\ b[n] < Cont /\ (n = MaxVarint => b[n] <= 1)
    BY <2>1, BytesAreNumbers DEF Ends
  <2>3. /\ v \in Bytes /\ Len(v) = n
        /\ \A i \in 1 .. n : v[i] = b[i]
    BY <2>2, TakeProperties DEF Bytes
  <2>4. ASSUME NEW i \in 1 .. n - 1
        PROVE  b[i] >= Cont
    <3>1. i \in 1 .. Len(b) /\ i <= MaxVarint /\ i # MaxVarint /\ ~(n <= i)
      BY <2>2, WidthsAssumption
    <3>2. ~(b[i] < Cont)
      BY <2>1, <3>1 DEF Ends
    <3>. QED
      BY <3>1, <3>2, BytesAreNumbers, WidthsAssumption
  <2>5. Consumable(v)
    BY <2>2, <2>3, <2>4 DEF Consumable, IsVarint
  <2>. HIDE DEF v
  <2>6. c = [n |-> n, value |-> ValueOf[v]]
    BY <1>1, <1>3 DEF FirstN, n, v
  <2>. QED
    BY <2>2, <2>5, <2>6 DEF v
<1>. QED
  BY <1>2, <1>3

(***************************************************************************)
(* Records                                                                 *)
(***************************************************************************)
RecordSet == [tag : Byte, value : Bytes]
Lists == [list : Seq(RecordSet), rest : Bytes]

\* The first record is within the bytes, and the rest is shorter.
LEMMA RecordProperties ==
    ASSUME NEW width \in Widths, NEW b \in Bytes, HasRecord(b, width)
    PROVE  /\ RecordLen(b, width) \in 1 + width .. Len(b)
           /\ RecordOf(b, width) \in RecordSet
           /\ Len(RecordOf(b, width).value) = RecordLen(b, width) - 1 - width
           /\ Len(RecordOf(b, width).value) <= MaxLen(width)
           /\ Drop(b, RecordLen(b, width)) \in Bytes
           /\ Len(Drop(b, RecordLen(b, width))) < Len(b)
<1>. DEFINE n == RecordLen(b, width)
<1>1. Len(b) \in Nat /\ Len(b) > width /\ Len(b) >= n /\ width \in {1, 2} /\ Cont \in Nat /\ Cont > 1
  BY BytesAreNumbers, WidthsAssumption DEF HasRecord, Widths
<1>2. b[1] \in Byte /\ b[2] \in Nat /\ b[2] <= 2 * Cont - 1 /\ 2 \in 1 .. Len(b)
  BY <1>1, BytesAreNumbers DEF Byte
<1>3. width = 2 => b[3] \in Nat /\ b[3] <= 2 * Cont - 1
  BY <1>1, BytesAreNumbers DEF Byte
<1>4. n \in Nat /\ n >= 1 + width /\ n - 1 - width <= MaxLen(width)
  <2>1. CASE width = 1
    BY <1>1, <1>2, <2>1 DEF RecordLen, MaxLen
  <2>2. CASE width = 2
    <3>1. n = 3 + b[2] + 2 * Cont * b[3] /\ MaxLen(width) = 4 * Cont * Cont - 1
      BY <1>1, <2>2 DEF RecordLen, MaxLen
    <3>2. 2 * Cont * b[3] \in Nat /\ 2 * Cont * b[3] <= 2 * Cont * (2 * Cont - 1)
      BY <1>1, <1>3, <2>2
    <3>3. 2 * Cont * (2 * Cont - 1) = 4 * Cont * Cont - 2 * Cont
      BY <1>1
    <3>. QED
      BY <1>1, <1>2, <2>2, <3>1, <3>2, <3>3
  <2>. QED
    BY <1>1, <2>1, <2>2
<1>. HIDE DEF n
<1>5. n \in 0 .. Len(b)
  BY <1>1, <1>4
<1>6. Drop(b, n) \in Bytes /\ Len(Drop(b, n)) < Len(b)
  BY <1>1, <1>4, <1>5, DropProperties DEF Bytes
<1>7. SubSeq(b, 2 + width, n) \in Bytes /\ Len(SubSeq(b, 2 + width, n)) = n - 1 - width
  <2>. DEFINE m == 2 + width
  <2>1. m \in 1 .. Len(b) + 1 /\ n \in m - 1 .. Len(b)
    BY <1>1, <1>4
  <2>2. b \in Seq(Byte)
    BY DEF Bytes
  <2>. HIDE DEF m
  <2>3. SubSeq(b, m, n) \in Seq(Byte) /\ Len(SubSeq(b, m, n)) = n - m + 1
    BY <1>1, <2>1, <2>2, SubSeqProperties
  <2>. QED
    BY <1>1, <1>4, <2>3 DEF m, Bytes
<1>8. RecordOf(b, width) = [tag |-> b[1], value |-> SubSeq(b, 2 + width, n)]
  BY DEF RecordOf, n
<1>. QED
  BY <1>1, <1>2, <1>4, <1>6, <1>7, <1>8 DEF n, RecordSet

\* Records is what its definition says.
LEMMA RecordsDef ==
    ASSUME NEW width \in Widths
    PROVE  /\ Records(width) \in [Bytes -> Lists]
           /\ \A b \in Bytes : Records(width)[b] =
                 IF HasRecord(b, width)
                 THEN First(RecordOf(b, width), Records(width)[Drop(b, RecordLen(b, width))])
                 ELSE [list |-> <<>>, rest |-> b]
<1>. DEFINE E(g) == [b \in Bytes |->
                       IF HasRecord(b, width)
                       THEN First(RecordOf(b, width), g[Drop(b, RecordLen(b, width))])
                       ELSE [list |-> <<>>, rest |-> b]]
            size == [b \in Bytes |-> Len(b)]
            Stop == {b \in Bytes : ~HasRecord(b, width)}
            next == [b \in Bytes |-> IF HasRecord(b, width) THEN Drop(b, RecordLen(b, width)) ELSE b]
            last == [b \in Bytes |-> [list |-> <<>>, rest |-> b]]
            step == [p \in Bytes \X Lists |->
                       IF HasRecord(p[1], width) THEN First(RecordOf(p[1], width), p[2]) ELSE p[2]]
<1>1. ASSUME NEW b \in Bytes, HasRecord(b, width), NEW l \in Lists
      PROVE  First(RecordOf(b, width), l) \in Lists
  <2>. DEFINE r == RecordOf(b, width)
  <2>1. r \in RecordSet
    BY <1>1, RecordProperties
  <2>. HIDE DEF r
  <2>2. <<r>> \in Seq(RecordSet) /\ l.list \in Seq(RecordSet) /\ l.rest \in Bytes
    BY <2>1 DEF Lists
  <2>3. <<r>> \o l.list \in Seq(RecordSet)
    BY <2>2, ConcatProperties
  <2>. QED
    BY <2>2, <2>3 DEF r, First, Lists
<1>2. \A b \in Bytes : [list |-> <<>>, rest |-> b] \in Lists
  BY EmptySeq DEF Lists
<1>3. PICK f \in Maps(Bytes, Lists) :
         \A b \in Bytes : f[b] = IF b \in Stop THEN last[b] ELSE step[<<b, f[next[b]]>>]
  <2>1. size \in Maps(Bytes, Nat) /\ Stop \in SUBSET Bytes
    BY BytesAreNumbers DEF Maps
  <2>2. next \in Maps(Bytes, Bytes)
    BY RecordProperties DEF Maps
  <2>3. last \in Maps(Bytes, Lists)
    BY <1>2 DEF Maps
  <2>4. step \in Maps(Bytes \X Lists, Lists)
    <3>1. ASSUME NEW p \in Bytes \X Lists
          PROVE  (IF HasRecord(p[1], width) THEN First(RecordOf(p[1], width), p[2]) ELSE p[2]) \in Lists
      BY <1>1
    <3>. QED
      BY <3>1 DEF Maps
  <2>5. \A b \in Bytes \ Stop : size[next[b]] < size[b]
    BY RecordProperties
  <2>6. Recursion(Bytes, Lists, size, Stop, next, last, step)
    <3>. HIDE DEF size, Stop, next, last, step
    <3>. QED
      BY <2>1, <2>2, <2>3, <2>4, <2>5 DEF Recursion
  <2>. HIDE DEF size, Stop, next, last, step
  <2>. QED
    BY ONLY <2>6, MeasuredRecursion, SMT
<1>4. f = E(f)
  <2>1. f \in [Bytes -> Lists]
    BY DEF Maps
  <2>2. ASSUME NEW b \in Bytes
        PROVE  f[b] = IF HasRecord(b, width)
                      THEN First(RecordOf(b, width), f[Drop(b, RecordLen(b, width))])
                      ELSE [list |-> <<>>, rest |-> b]
    BY <1>3, <2>1, RecordProperties
  <2>. QED
    BY <2>1, <2>2
<1>5. Records(width) = E(Records(width))
  <2>1. \E g : g = E(g)
    BY <1>4
  <2>. QED
    BY <2>1, Zenon DEF Records
<1>6. \A b \in Bytes : Records(width)[b] =
         IF HasRecord(b, width)
         THEN First(RecordOf(b, width), Records(width)[Drop(b, RecordLen(b, width))])
         ELSE [list |-> <<>>, rest |-> b]
  BY <1>5
<1>7. \A b \in Bytes : Records(width)[b] \in Lists
  <2>. DEFINE T == {b \in Bytes : Records(width)[b] \in Lists}
  <2>1. ASSUME NEW b \in Bytes, \A c \in Bytes : Len(c) < Len(b) => c \in T
        PROVE  b \in T
    <3>1. CASE ~HasRecord(b, width)
      BY <1>2, <1>6, <3>1
    <3>2. CASE HasRecord(b, width)
      <4>1. Records(width)[Drop(b, RecordLen(b, width))] \in Lists
        BY <2>1, <3>2, RecordProperties
      <4>. QED
        BY <1>1, <1>6, <3>2, <4>1
    <3>. QED
      BY <3>1, <3>2
  <2>. HIDE DEF T
  <2>2. Bytes \subseteq T
    BY <2>1, InductionOnLength DEF Bytes
  <2>. QED
    BY <2>2 DEF T
<1>. QED
  BY <1>5, <1>6, <1>7

\* A length that fits is read back from its bytes.
LEMMA LenBytesProperties ==
    ASSUME NEW width \in Widths, NEW n \in 0 .. MaxLen(width)
    PROVE  /\ LenBytes(n, width) \in Bytes /\ Len(LenBytes(n, width)) = width
           /\ n = LenBytes(n, width)[1] + (IF width = 2 THEN 2 * Cont * LenBytes(n, width)[2] ELSE 0)
<1>1. Cont \in Nat /\ Cont > 1
  BY WidthsAssumption
<1>2. CASE width = 1
  <2>1. LenBytes(n, width) = <<n>> /\ n \in Byte /\ n \in Nat
    BY <1>1, <1>2 DEF LenBytes, MaxLen, Byte
  <2>2. <<n>> \in Seq(Byte) /\ Len(<<n>>) = 1 /\ <<n>>[1] = n
    BY <2>1
  <2>3. LenBytes(n, width) \in Bytes /\ Len(LenBytes(n, width)) = width /\ LenBytes(n, width)[1] = n
    BY <1>2, <2>1, <2>2 DEF Bytes
  <2>. QED
    BY <1>2, <2>1, <2>3
<1>3. CASE width = 2
  <2>. DEFINE C == 2 * Cont
              q == n \div C
              r == n % C
  <2>1. C \in Nat /\ C > 1 /\ MaxLen(width) = C * C - 1
    BY <1>1, <1>3 DEF MaxLen
  <2>2. n \in Nat /\ n <= C * C - 1
    BY <2>1
  <2>3. LenBytes(n, width) = <<r, q>>
    BY <1>3 DEF LenBytes
  <2>4. Byte = 0 .. C - 1
    BY DEF Byte
  <2>. HIDE DEF C
  <2>5. q \in Nat /\ r \in 0 .. C - 1 /\ n = C * q + r
    BY <2>1, <2>2
  <2>. HIDE DEF q, r
  <2>6. q <= C - 1
    <3>1. SUFFICES ASSUME q >= C PROVE FALSE
      BY <2>1, <2>5
    <3>2. C * q >= C * C
      BY <2>1, <2>5, <3>1
    <3>. QED
      BY <2>1, <2>2, <2>5, <3>2
  <2>7. q \in Byte /\ r \in Byte
    BY <2>1, <2>4, <2>5, <2>6
  <2>8. <<r, q>> \in Seq(Byte) /\ Len(<<r, q>>) = 2 /\ <<r, q>>[1] = r /\ <<r, q>>[2] = q
    BY <2>7
  <2>9. C * q \in Nat /\ n = r + C * q
    BY <2>1, <2>5
  <2>10. LenBytes(n, width) \in Bytes /\ Len(LenBytes(n, width)) = width
    BY <1>3, <2>3, <2>8 DEF Bytes
  <2>11. LenBytes(n, width)[1] = r /\ 2 * Cont * LenBytes(n, width)[2] = C * q
    BY <2>3, <2>8 DEF C
  <2>. QED
    BY <1>3, <2>9, <2>10, <2>11
<1>. QED
  BY <1>2, <1>3 DEF Widths

\* A record that is written before other bytes is the first one read, with the tag
\* and the value it was written with, and what follows is left
\* (rewriteTLVPayloadWithWidth).
THEOREM RecordRoundTrip ==
    ASSUME NEW width \in Widths, NEW tag \in Byte, NEW v \in Bytes, Len(v) <= MaxLen(width),
           NEW rest \in Bytes
    PROVE  LET b == RecordBytes(tag, v, width) \o rest
           IN  /\ RecordBytes(tag, v, width) \in Bytes
               /\ b \in Bytes /\ HasRecord(b, width)
               /\ RecordOf(b, width) = [tag |-> tag, value |-> v]
               /\ Drop(b, RecordLen(b, width)) = rest
<1>. DEFINE l == LenBytes(Len(v), width)
            h == <<tag>> \o l
            r == h \o v
            b == r \o rest
<1>1. Len(v) \in Nat /\ Len(v) \in 0 .. MaxLen(width) /\ Len(rest) \in Nat /\ width \in {1, 2}
  <2>1. Len(v) \in Nat /\ Len(rest) \in Nat
    BY BytesAreNumbers
  <2>2. MaxLen(width) \in Int
    BY WidthsAssumption DEF MaxLen, Widths
  <2>. QED
    BY <2>1, <2>2 DEF Widths
<1>2. /\ l \in Seq(Byte) /\ Len(l) = width
      /\ Len(v) = l[1] + (IF width = 2 THEN 2 * Cont * l[2] ELSE 0)
  BY <1>1, LenBytesProperties DEF Bytes
<1>. HIDE DEF l
<1>3. /\ h \in Seq(Byte) /\ Len(h) = 1 + width /\ h[1] = tag
      /\ \A i \in 1 .. width : h[1 + i] = l[i]
  <2>1. <<tag>> \in Seq(Byte) /\ Len(<<tag>>) = 1 /\ <<tag>>[1] = tag
    OBVIOUS
  <2>2. /\ h \in Seq(Byte) /\ Len(h) = 1 + width
        /\ \A i \in 1 .. 1 + width : h[i] = IF i <= 1 THEN <<tag>>[i] ELSE l[i - 1]
    BY <1>1, <1>2, <2>1, ConcatProperties
  <2>3. ASSUME NEW i \in 1 .. width PROVE h[1 + i] = l[i]
    <3>1. 1 + i \in 1 .. 1 + width /\ ~(1 + i <= 1) /\ (1 + i) - 1 = i
      BY <1>1
    <3>. QED
      BY <2>2, <3>1
  <2>. QED
    BY <1>1, <2>1, <2>2, <2>3
<1>. HIDE DEF h
<1>4. v \in Seq(Byte) /\ rest \in Seq(Byte)
  BY DEF Bytes
<1>5. /\ r \in Seq(Byte) /\ Len(r) = 1 + width + Len(v) /\ Take(r, 1 + width) = h /\ Drop(r, 1 + width) = v
      /\ \A i \in 1 .. 1 + width : r[i] = h[i]
  BY <1>1, <1>3, <1>4, ConcatProperties, SplitConcat
<1>6. RecordBytes(tag, v, width) = r
  BY DEF RecordBytes, r, h, l
<1>. HIDE DEF r
<1>7. /\ b \in Seq(Byte) /\ Len(b) = 1 + width + Len(v) + Len(rest)
      /\ \A i \in 1 .. 1 + width : b[i] = h[i]
      /\ \A i \in 1 .. 1 + width + Len(v) : b[i] = r[i]
      /\ Take(b, Len(r)) = r /\ Drop(b, Len(r)) = rest
  <2>1. b \in Seq(Byte) /\ Len(b) = Len(r) + Len(rest) /\ \A i \in 1 .. Len(r) : b[i] = r[i]
    <3>1. r \in Seq(Byte)
      BY <1>5
    <3>. QED
      BY <1>4, <3>1, ConcatProperties
  <2>2. Take(b, Len(r)) = r /\ Drop(b, Len(r)) = rest
    BY <1>4, <1>5, SplitConcat
  <2>. QED
    BY <1>1, <1>5, <2>1, <2>2
<1>. HIDE DEF b
<1>8. b[1] = tag /\ b[2] = l[1] /\ (width = 2 => b[3] = l[2])
  <2>1. b[1] = tag
    BY <1>1, <1>3, <1>7
  <2>2. b[2] = l[1]
    <3>1. 2 \in 1 .. 1 + width /\ 1 \in 1 .. width /\ 2 = 1 + 1
      BY <1>1
    <3>. QED
      BY <1>3, <1>7, <3>1
  <2>3. width = 2 => b[3] = l[2]
    BY <1>3, <1>7
  <2>. QED
    BY <2>1, <2>2, <2>3
<1>9. RecordLen(b, width) = 1 + width + Len(v)
  <2>1. l[1] \in Nat /\ (width = 2 => l[2] \in Nat) /\ Cont \in Nat
    <3>1. l \in Bytes /\ 1 \in 1 .. Len(l) /\ (width = 2 => 2 \in 1 .. Len(l))
      BY <1>1, <1>2 DEF Bytes
    <3>. QED
      BY <3>1, BytesAreNumbers, WidthsAssumption
  <2>2. CASE width = 1
    BY <1>2, <1>8, <2>1, <2>2 DEF RecordLen
  <2>3. CASE width = 2
    <3>1. 2 * Cont * l[2] \in Nat
      BY <2>1, <2>3
    <3>2. RecordLen(b, width) = 1 + width + l[1] + 2 * Cont * l[2]
      BY <1>8, <2>3 DEF RecordLen
    <3>. QED
      BY <1>2, <2>1, <2>3, <3>1, <3>2
  <2>. QED
    BY <1>1, <2>2, <2>3
<1>10. HasRecord(b, width)
  BY <1>1, <1>7, <1>9 DEF HasRecord
<1>11. RecordOf(b, width) = [tag |-> tag, value |-> v]
  <2>. DEFINE m == 2 + width
              n == 1 + width + Len(v)
              s == SubSeq(b, m, n)
  <2>1. m \in 1 .. Len(b) + 1 /\ n \in m - 1 .. Len(b) /\ n - m + 1 = Len(v)
    BY <1>1, <1>7
  <2>2. RecordOf(b, width) = [tag |-> tag, value |-> s]
    BY <1>8, <1>9 DEF RecordOf
  <2>3. \A i \in 1 .. Len(v) : m + i - 1 \in 1 .. n /\ b[m + i - 1] = v[i]
    <3>. SUFFICES ASSUME NEW i \in 1 .. Len(v)
                  PROVE  m + i - 1 \in 1 .. n /\ b[m + i - 1] = v[i]
      OBVIOUS
    <3>1. m + i - 1 = 1 + width + i /\ 1 + width + i \in 1 .. n /\ 1 + width \in 0 .. Len(r)
          /\ i \in 1 .. Len(r) - (1 + width)
      BY <1>1, <1>5
    <3>2. Drop(r, 1 + width)[i] = r[1 + width + i]
      <4>. DEFINE k == 1 + width
      <4>1. k \in 0 .. Len(r) /\ i \in 1 .. Len(r) - k
        BY <3>1
      <4>. HIDE DEF k
      <4>2. Drop(r, k)[i] = r[k + i]
        BY <1>5, <4>1, DropProperties
      <4>. QED
        BY <4>2 DEF k
    <3>. QED
      BY <1>5, <1>7, <3>1, <3>2
  <2>. HIDE DEF m, n
  <2>4. s \in Seq(Byte) /\ Len(s) = Len(v) /\ \A i \in 1 .. Len(v) : s[i] = b[m + i - 1]
    BY <1>7, <2>1, SubSeqProperties
  <2>5. s = v
    BY <1>4, <2>3, <2>4, SeqEqual
  <2>. QED
    BY <2>2, <2>5
<1>12. Drop(b, RecordLen(b, width)) = rest
  BY <1>5, <1>7, <1>9
<1>. QED
  BY <1>5, <1>6, <1>7, <1>10, <1>11, <1>12 DEF Bytes, b

(***************************************************************************)
(* Fields                                                                  *)
(***************************************************************************)
FieldSet == [ok : BOOLEAN, size : Nat, num : Nat, wt : Nat, tag : Bytes,
             data : Bytes, value : Nat, chunk : Bytes]

\* What follows a tag of the wire type wt.
IsData(wt, d) ==
    /\ d \in Bytes /\ Len(d) > 0
    /\ \/ wt = 0 /\ Consumable(d)
       \/ wt = 1 /\ Len(d) = Fixed64
       \/ wt = 5 /\ Len(d) = Fixed32
       \/ /\ wt = 2 /\ consumeProtobufVarint(d).n > 0
          /\ consumeProtobufVarint(d).n + consumeProtobufVarint(d).value = Len(d)

\* What a field that has the tag t and the data d says.
Says(f, t, d) ==
    /\ f.ok /\ f.size = Len(t) + Len(d) /\ f.tag = t /\ f.data = d
    /\ f.num = ValueOf[t] \div 8 /\ f.wt = ValueOf[t] % 8
    /\ f.wt = 0 => f.value = ValueOf[d]
    /\ f.wt = 2 => f.chunk = Drop(d, consumeProtobufVarint(d).n)

\* A varint found lies within the bytes.
LEMMA ConsumeRange ==
    ASSUME NEW b \in Bytes
    PROVE  consumeProtobufVarint(b).n \in 0 .. Len(b) /\ consumeProtobufVarint(b).n \in Nat
           /\ consumeProtobufVarint(b).value \in Nat
<1>. DEFINE c == consumeProtobufVarint(b)
<1>1. Len(b) \in Nat
  BY BytesAreNumbers
<1>2. \/ c = [n |-> 0, value |-> 0]
      \/ /\ c.n \in 1 .. Len(b) /\ Consumable(Take(b, c.n))
         /\ c = [n |-> c.n, value |-> ValueOf[Take(b, c.n)]]
  BY ConsumedVarint
<1>. HIDE DEF c
<1>3. CASE c = [n |-> 0, value |-> 0]
  BY <1>1, <1>3 DEF c
<1>4. CASE /\ c.n \in 1 .. Len(b) /\ Consumable(Take(b, c.n))
           /\ c = [n |-> c.n, value |-> ValueOf[Take(b, c.n)]]
  <2>1. ValueOf[Take(b, c.n)] \in Nat
    BY <1>4, ValueOfDef DEF Consumable, IsVarint
  <2>. QED
    BY <1>1, <1>4, <2>1 DEF c
<1>. QED
  BY <1>2, <1>3, <1>4

\* A piece of bytes is bytes.
LEMMA SubSeqOfBytes ==
    ASSUME NEW b \in Bytes, NEW m \in Nat, NEW n \in 0 .. Len(b)
    PROVE  SubSeq(b, m + 1, n) \in Bytes
<1>1. \A i \in m + 1 .. n : b[i] \in Byte
  BY BytesAreNumbers
<1>2. m + 1 \in Int /\ n \in Int
  OBVIOUS
<1>. QED
  BY <1>1, <1>2, SubSeqProperties DEF Bytes

\* The size of the data, as FieldOf finds it.
SizeOf(tag, v) ==
    LET wt == tag.value % 8
    IN  CASE tag.n = 0 -> 0
          [] tag.n > 0 /\ wt = 0 -> v.n
          [] tag.n > 0 /\ wt = 1 -> Fixed64
          [] tag.n > 0 /\ wt = 5 -> Fixed32
          [] tag.n > 0 /\ wt = 2 /\ v.n > 0 -> v.n + v.value
          [] OTHER -> 0

\* The length of the data, case by case.
LEMMA SizeOfValues ==
    ASSUME NEW tag, tag.n \in Nat, tag.value \in Nat, NEW v, v.n \in Nat, v.value \in Nat
    PROVE  /\ SizeOf(tag, v) \in Nat
           /\ SizeOf(tag, v) > 0 =>
                 /\ tag.n > 0
                 /\ \/ tag.value % 8 = 0 /\ SizeOf(tag, v) = v.n
                    \/ tag.value % 8 = 1 /\ SizeOf(tag, v) = Fixed64
                    \/ tag.value % 8 = 5 /\ SizeOf(tag, v) = Fixed32
                    \/ tag.value % 8 = 2 /\ v.n > 0 /\ SizeOf(tag, v) = v.n + v.value
           /\ tag.n > 0 /\ tag.value % 8 = 0 => SizeOf(tag, v) = v.n
           /\ tag.n > 0 /\ tag.value % 8 = 1 => SizeOf(tag, v) = Fixed64
           /\ tag.n > 0 /\ tag.value % 8 = 5 => SizeOf(tag, v) = Fixed32
           /\ tag.n > 0 /\ tag.value % 8 = 2 /\ v.n > 0 => SizeOf(tag, v) = v.n + v.value
<1>. DEFINE wt == tag.value % 8
<1>1. Fixed64 \in Nat /\ Fixed32 \in Nat
  BY WidthsAssumption
<1>2. SizeOf(tag, v) = CASE tag.n = 0 -> 0
          [] tag.n > 0 /\ wt = 0 -> v.n
          [] tag.n > 0 /\ wt = 1 -> Fixed64
          [] tag.n > 0 /\ wt = 5 -> Fixed32
          [] tag.n > 0 /\ wt = 2 /\ v.n > 0 -> v.n + v.value
          [] OTHER -> 0
  BY DEF SizeOf
<1>. HIDE DEF wt
<1>3. CASE tag.n = 0
  BY <1>1, <1>2, <1>3
<1>4. CASE tag.n > 0 /\ wt = 0
  BY <1>1, <1>2, <1>4 DEF wt
<1>5. CASE tag.n > 0 /\ wt = 1
  BY <1>1, <1>2, <1>5 DEF wt
<1>6. CASE tag.n > 0 /\ wt = 5
  BY <1>1, <1>2, <1>6 DEF wt
<1>7. CASE tag.n > 0 /\ wt = 2 /\ v.n > 0
  BY <1>1, <1>2, <1>7 DEF wt
<1>8. CASE ~(tag.n = 0) /\ ~(tag.n > 0 /\ wt = 0) /\ ~(tag.n > 0 /\ wt = 1) /\ ~(tag.n > 0 /\ wt = 5)
           /\ ~(tag.n > 0 /\ wt = 2 /\ v.n > 0)
  BY <1>1, <1>2, <1>8 DEF wt
<1>. QED
  BY <1>3, <1>4, <1>5, <1>6, <1>7, <1>8

\* What FieldOf answers for the bytes b, the tag and the varint v after it.
IsFieldOf(f, b, tag, v) ==
    LET rest == Drop(b, tag.n)
        size == SizeOf(tag, v)
        have == Min({size, Len(rest)})
    IN  /\ have \in 0 .. Len(rest) /\ size \in Nat
        /\ size <= Len(rest) => have = size
        /\ f \in FieldSet
        /\ f.ok <=> size > 0 /\ size <= Len(rest)
        /\ f.size = tag.n + size
        /\ f.num = tag.value \div 8 /\ f.wt = tag.value % 8
        /\ f.tag = Take(b, tag.n) /\ f.data = Take(rest, have)
        /\ f.value = v.value
        /\ f.chunk = SubSeq(rest, v.n + 1, have)

\* FieldOf, without its LETs.
LEMMA FieldOfDef ==
    ASSUME NEW b \in Bytes, NEW tag, tag.n \in 0 .. Len(b), tag.value \in Nat,
           NEW v, v.n \in Nat, v.value \in Nat
    PROVE  IsFieldOf(FieldOf(b, tag, v), b, tag, v)
<1>. DEFINE rest == Drop(b, tag.n)
<1>. SUFFICES ASSUME NEW f, f = FieldOf(b, tag, v)
              PROVE  IsFieldOf(f, b, tag, v)
  OBVIOUS
<1>. DEFINE size == SizeOf(tag, v)
            have == Min({size, Len(rest)})
<1>1. Len(b) \in Nat
  BY BytesAreNumbers
<1>2. rest \in Bytes /\ Len(rest) \in Nat
  BY <1>1, DropProperties DEF Bytes
<1>3. size \in Nat
  BY <1>1, SizeOfValues
<1>4. f =
         [ok |-> size > 0 /\ size <= Len(rest), size |-> tag.n + size,
          num |-> tag.value \div 8, wt |-> tag.value % 8, tag |-> Take(b, tag.n),
          data |-> Take(rest, have), value |-> v.value, chunk |-> SubSeq(rest, v.n + 1, have)]
  BY DEF FieldOf, SizeOf
<1>. HIDE DEF size, rest
<1>5. have \in {size, Len(rest)} /\ have <= size /\ have <= Len(rest)
  BY <1>2, <1>3, MinProperties
<1>. HIDE DEF have
<1>6. have \in 0 .. Len(rest) /\ (size <= Len(rest) => have = size)
  BY <1>2, <1>3, <1>5
<1>7. Take(b, tag.n) \in Bytes
  BY TakeProperties DEF Bytes
<1>8. Take(rest, have) \in Bytes
  BY <1>2, <1>6, TakeProperties DEF Bytes
<1>9. SubSeq(rest, v.n + 1, have) \in Bytes
  BY <1>2, <1>6, SubSeqOfBytes
<1>10. tag.value \div 8 \in Nat /\ tag.value % 8 \in Nat /\ tag.n + size \in Nat
  BY <1>1, <1>3
<1>11. f \in FieldSet
  BY <1>4, <1>7, <1>8, <1>9, <1>10 DEF FieldSet
<1>12. f.ok <=> size > 0 /\ size <= Len(rest)
  BY ONLY <1>4, Zenon
<1>13. /\ f.size = tag.n + size /\ f.num = tag.value \div 8 /\ f.wt = tag.value % 8
       /\ f.tag = Take(b, tag.n) /\ f.data = Take(rest, have) /\ f.value = v.value
       /\ f.chunk = SubSeq(rest, v.n + 1, have)
  BY ONLY <1>4
<1>. QED
  BY <1>2, <1>3, <1>6, <1>11, <1>12, <1>13 DEF size, have, rest, IsFieldOf

\* The first field has its parts, whether it is whole or not.
LEMMA FieldProperties ==
    ASSUME NEW b \in Bytes
    PROVE  Field(b) \in FieldSet
<1>. DEFINE tag == consumeProtobufVarint(b)
            rest == Drop(b, tag.n)
            v == consumeProtobufVarint(rest)
<1>1. tag.n \in 0 .. Len(b) /\ tag.value \in Nat
  BY ConsumeRange
<1>. HIDE DEF tag
<1>2. rest \in Bytes
  BY <1>1, DropProperties DEF Bytes
<1>3. v.n \in Nat /\ v.value \in Nat
  BY <1>2, ConsumeRange
<1>4. Field(b) = FieldOf(b, tag, v)
  BY DEF Field, tag
<1>. HIDE DEF v
<1>5. IsFieldOf(FieldOf(b, tag, v), b, tag, v)
  BY <1>1, <1>3, FieldOfDef
<1>. QED
  BY <1>4, <1>5 DEF IsFieldOf

\* A field that is there says what its tag and its data say, and the bytes
\* are those and the ones after it.
LEMMA FieldThatIs ==
    ASSUME NEW b \in Bytes, NEW f, f = Field(b), f.ok
    PROVE  /\ Consumable(f.tag) /\ IsData(f.wt, f.data) /\ Says(f, f.tag, f.data)
           /\ f.tag \in Bytes /\ f.data \in Bytes /\ f.chunk \in Bytes
           /\ f.size \in 1 .. Len(b) /\ Len(f.tag) >= 1 /\ Len(f.data) >= 1
           /\ Drop(b, f.size) \in Bytes /\ Len(Drop(b, f.size)) = Len(b) - f.size
           /\ Len(Drop(b, f.size)) < Len(b)
           /\ b = f.tag \o f.data \o Drop(b, f.size)
<1>. DEFINE tag == consumeProtobufVarint(b)
            rest == Drop(b, tag.n)
            v == consumeProtobufVarint(rest)
            size == SizeOf(tag, v)
            have == Min({size, Len(rest)})
<1>0. Len(b) \in Nat
  BY BytesAreNumbers
<1>1. tag.n \in 0 .. Len(b) /\ tag.value \in Nat
  BY ConsumeRange
<1>2. \/ tag = [n |-> 0, value |-> 0]
      \/ /\ tag.n \in 1 .. Len(b) /\ Consumable(Take(b, tag.n))
         /\ tag = [n |-> tag.n, value |-> ValueOf[Take(b, tag.n)]]
  BY ConsumedVarint
<1>3. f = FieldOf(b, tag, v)
  BY DEF Field
<1>. HIDE DEF tag
<1>4. rest \in Bytes /\ Len(rest) = Len(b) - tag.n
  BY <1>1, DropProperties DEF Bytes
<1>5. v.n \in 0 .. Len(rest) /\ v.n \in Nat /\ v.value \in Nat
  BY <1>4, ConsumeRange
<1>6. \/ v = [n |-> 0, value |-> 0]
      \/ /\ v.n \in 1 .. Len(rest) /\ Consumable(Take(rest, v.n))
         /\ v = [n |-> v.n, value |-> ValueOf[Take(rest, v.n)]]
  BY <1>4, ConsumedVarint
<1>. HIDE DEF v
<1>7. /\ have \in 0 .. Len(rest) /\ size \in Nat
      /\ (size <= Len(rest) => have = size)
      /\ f \in FieldSet
      /\ f.ok <=> size > 0 /\ size <= Len(rest)
      /\ f.size = tag.n + size /\ f.num = tag.value \div 8 /\ f.wt = tag.value % 8
      /\ f.tag = Take(b, tag.n) /\ f.data = Take(rest, have) /\ f.value = v.value
      /\ f.chunk = SubSeq(rest, v.n + 1, have)
  <2>1. IsFieldOf(FieldOf(b, tag, v), b, tag, v)
    BY <1>1, <1>5, FieldOfDef
  <2>. QED
    BY <1>3, <2>1 DEF IsFieldOf
<1>. HIDE DEF rest, have
<1>8. size > 0 /\ size <= Len(rest) /\ have = size
  BY <1>7
<1>. DEFINE t == Take(b, tag.n)
            d == Take(rest, size)
<1>9. /\ tag.n > 0
      /\ \/ tag.value % 8 = 0 /\ size = v.n
         \/ tag.value % 8 = 1 /\ size = Fixed64
         \/ tag.value % 8 = 5 /\ size = Fixed32
         \/ tag.value % 8 = 2 /\ v.n > 0 /\ size = v.n + v.value
  BY <1>0, <1>1, <1>5, <1>8, SizeOfValues
<1>. HIDE DEF size
<1>10. Consumable(t) /\ tag.value = ValueOf[t] /\ tag.n \in 1 .. Len(b)
  BY <1>2, <1>9
<1>11. t \in Bytes /\ Len(t) = tag.n
  BY <1>1, TakeProperties DEF Bytes
<1>12. size \in 1 .. Len(rest)
  BY <1>7, <1>8
<1>13. d \in Bytes /\ Len(d) = size
  BY <1>4, <1>12, TakeProperties DEF Bytes
<1>14. f.tag = t /\ f.data = d /\ f.size = tag.n + size /\ f.wt = tag.value % 8 /\ f.num = tag.value \div 8
       /\ f.value = v.value /\ f.chunk = SubSeq(rest, v.n + 1, size)
  BY <1>7, <1>8
<1>15. f.chunk \in Bytes
  BY <1>7 DEF FieldSet
<1>. HIDE DEF t, d
<1>16. b = t \o rest /\ rest = d \o Drop(rest, size) /\ Drop(rest, size) = Drop(b, f.size)
  <2>1. b = t \o rest
    BY <1>1, TakeThenDrop DEF Bytes, t, rest
  <2>2. rest = d \o Drop(rest, size)
    BY <1>4, <1>12, TakeThenDrop DEF Bytes, d
  <2>3. size \in 0 .. Len(b) - tag.n
    BY <1>4, <1>12
  <2>4. Drop(rest, size) = Drop(b, f.size)
    BY <1>1, <1>14, <2>3, DropOfDrop DEF Bytes, rest
  <2>. QED
    BY <2>1, <2>2, <2>4
<1>17. f.size \in 1 .. Len(b)
  BY <1>0, <1>4, <1>10, <1>12, <1>14
<1>18. Drop(b, f.size) \in Bytes /\ Len(Drop(b, f.size)) = Len(b) - f.size
  <2>. DEFINE k == f.size
  <2>1. k \in 0 .. Len(b)
    BY <1>17
  <2>. HIDE DEF k
  <2>2. Drop(b, k) \in Bytes /\ Len(Drop(b, k)) = Len(b) - k
    BY <2>1, DropProperties DEF Bytes
  <2>. QED
    BY <2>2 DEF k
<1>19. b = t \o d \o Drop(b, f.size)
  <2>. DEFINE r == Drop(b, f.size)
  <2>1. r \in Seq(Byte) /\ t \in Seq(Byte) /\ d \in Seq(Byte)
    BY <1>11, <1>13, <1>18 DEF Bytes
  <2>2. b = t \o (d \o r)
    BY <1>16
  <2>. HIDE DEF r
  <2>3. t \o (d \o r) = (t \o d) \o r
    BY <2>1, ConcatAssociative
  <2>. QED
    BY <2>2, <2>3 DEF r
<1>20. f.wt = 0 => Consumable(d) /\ f.value = ValueOf[d]
  <2>. SUFFICES ASSUME f.wt = 0
                PROVE  Consumable(d) /\ f.value = ValueOf[d]
    OBVIOUS
  <2>1. size = v.n /\ v.n # 0
    BY <1>8, <1>9, <1>14
  <2>2. v # [n |-> 0, value |-> 0]
    BY <2>1
  <2>. QED
    BY <1>6, <1>14, <2>1, <2>2 DEF d
<1>21. f.wt = 2 => consumeProtobufVarint(d) = v /\ v.n > 0 /\ v.n + v.value = Len(d) /\ f.chunk = Drop(d, v.n)
  <2>. SUFFICES ASSUME f.wt = 2
                PROVE  consumeProtobufVarint(d) = v /\ v.n > 0 /\ v.n + v.value = Len(d) /\ f.chunk = Drop(d, v.n)
    OBVIOUS
  <2>1. v.n > 0 /\ size = v.n + v.value /\ v.n \in 0 .. size
    BY <1>5, <1>9, <1>14
  <2>2. v # [n |-> 0, value |-> 0]
    BY <2>1
  <2>3. Consumable(Take(rest, v.n)) /\ v = [n |-> v.n, value |-> ValueOf[Take(rest, v.n)]]
    BY <1>6, <2>2
  <2>4. Take(d, v.n) = Take(rest, v.n) /\ Drop(d, v.n) \in Bytes /\ d = Take(d, v.n) \o Drop(d, v.n)
    <3>1. d \in Seq(Byte) /\ v.n \in 0 .. Len(d) /\ Drop(rest, size) \in Seq(Byte)
      BY <1>13, <1>16, <1>18, <2>1 DEF Bytes
    <3>2. Take(d \o Drop(rest, size), v.n) = Take(d, v.n)
      BY <3>1, TakeOfConcat
    <3>3. Drop(d, v.n) \in Seq(Byte) /\ Take(d, v.n) \o Drop(d, v.n) = d
      BY <3>1, DropProperties, TakeThenDrop
    <3>. QED
      BY <1>16, <3>2, <3>3 DEF Bytes
  <2>5. Len(Take(rest, v.n)) = v.n
    BY <1>4, <1>5, TakeProperties DEF Bytes
  <2>6. consumeProtobufVarint(d) = v
    BY <2>3, <2>4, <2>5, ConsumeVarint
  <2>7. f.chunk = Drop(d, v.n)
    <3>1. f.chunk = SubSeq(rest, v.n + 1, size) /\ Drop(d, v.n) = SubSeq(d, v.n + 1, size)
      BY <1>13, <1>14 DEF Drop
    <3>2. \A i \in 1 .. size : d[i] = rest[i] /\ d[i] \in Byte /\ rest[i] \in Byte
      <4>1. \A i \in 1 .. size : d[i] = rest[i]
        BY <1>4, <1>12, TakeProperties DEF d, Bytes
      <4>2. \A i \in 1 .. size : d[i] \in Byte
        BY <1>13, BytesAreNumbers
      <4>. QED
        BY <4>1, <4>2
    <3>. DEFINE m == v.n + 1
    <3>3. m \in Int /\ size \in Int /\ m >= 1
      BY <1>5, <1>12
    <3>. HIDE DEF m
    <3>4. \A i \in m .. size : i \in 1 .. size
      BY <3>3
    <3>5. /\ SubSeq(rest, m, size) \in Seq(Byte)
          /\ Len(SubSeq(rest, m, size)) = IF m <= size THEN size - m + 1 ELSE 0
          /\ \A i \in 1 .. size - m + 1 : SubSeq(rest, m, size)[i] = rest[m + i - 1]
      BY <3>2, <3>3, <3>4, SubSeqProperties
    <3>6. /\ SubSeq(d, m, size) \in Seq(Byte)
          /\ Len(SubSeq(d, m, size)) = IF m <= size THEN size - m + 1 ELSE 0
          /\ \A i \in 1 .. size - m + 1 : SubSeq(d, m, size)[i] = d[m + i - 1]
      BY <3>2, <3>3, <3>4, SubSeqProperties
    <3>7. Len(SubSeq(d, m, size)) = Len(SubSeq(rest, m, size))
      BY <3>5, <3>6
    <3>8. \A i \in 1 .. Len(SubSeq(d, m, size)) : SubSeq(d, m, size)[i] = SubSeq(rest, m, size)[i]
      <4>. SUFFICES ASSUME NEW i \in 1 .. Len(SubSeq(d, m, size))
                    PROVE  SubSeq(d, m, size)[i] = SubSeq(rest, m, size)[i]
        OBVIOUS
      <4>1. i \in 1 .. size - m + 1 /\ m + i - 1 \in 1 .. size
        BY <3>3, <3>6
      <4>. QED
        BY <3>2, <3>5, <3>6, <4>1
    <3>9. SubSeq(d, m, size) = SubSeq(rest, m, size)
      BY <3>5, <3>6, <3>7, <3>8, SeqEqual
    <3>. QED
      BY <3>1, <3>9 DEF m
  <2>. QED
    BY <1>13, <2>1, <2>6, <2>7
<1>22. IsData(f.wt, d)
  BY <1>9, <1>12, <1>13, <1>14, <1>20, <1>21 DEF IsData
<1>23. Says(f, t, d)
  BY <1>10, <1>11, <1>13, <1>14, <1>20, <1>21 DEF Says
<1>24. f.tag = t /\ f.data = d
  BY <1>14
<1>25. Len(t) >= 1 /\ Len(d) >= 1
  BY <1>0, <1>4, <1>10, <1>11, <1>12, <1>13
<1>26. Len(Drop(b, f.size)) < Len(b)
  <2>. DEFINE k == f.size
              l == Len(Drop(b, k))
  <2>1. k \in 1 .. Len(b) /\ l = Len(b) - k
    BY <1>17, <1>18
  <2>. HIDE DEF k, l
  <2>2. l < Len(b)
    BY <1>0, <2>1
  <2>. QED
    BY <2>2 DEF k, l
<1>27. Consumable(t) /\ t \in Bytes /\ d \in Bytes
  BY <1>10, <1>11, <1>13
<1>. QED
  BY <1>15, <1>17, <1>18, <1>19, <1>22, <1>23, <1>24, <1>25, <1>26, <1>27

\* The end of a beginning.
LEMMA MiddleOfConcat ==
    ASSUME NEW d \in Bytes, NEW rest \in Bytes, NEW n \in 0 .. Len(d)
    PROVE  SubSeq(d \o rest, n + 1, Len(d)) = Drop(d, n)
<1>. DEFINE m == n + 1
            k == Len(d)
            s == d \o rest
<1>1. /\ s \in Seq(Byte) /\ Len(s) = k + Len(rest) /\ k \in Nat /\ Len(rest) \in Nat
      /\ \A i \in 1 .. k : s[i] = d[i] /\ d[i] \in Byte
  <2>1. k \in Nat /\ Len(rest) \in Nat /\ \A i \in 1 .. k : d[i] \in Byte
    BY BytesAreNumbers
  <2>2. s \in Seq(Byte) /\ Len(s) = k + Len(rest) /\ \A i \in 1 .. k : s[i] = d[i]
    BY ConcatProperties DEF Bytes
  <2>. QED
    BY <2>1, <2>2
<1>2. m \in Int /\ k \in Int /\ m >= 1 /\ m <= k + 1 /\ m - 1 = n
  BY <1>1
<1>3. Drop(d, n) = SubSeq(d, m, k)
  BY DEF Drop
<1>. HIDE DEF m, k, s
<1>4. \A i \in m .. k : i \in 1 .. k
  BY <1>2
<1>5. /\ SubSeq(s, m, k) \in Seq(Byte) /\ Len(SubSeq(s, m, k)) = IF m <= k THEN k - m + 1 ELSE 0
      /\ \A i \in 1 .. k - m + 1 : SubSeq(s, m, k)[i] = s[m + i - 1]
  <2>1. \A i \in m .. k : s[i] \in Byte
    BY <1>1, <1>4
  <2>. QED
    BY <1>2, <2>1, SubSeqProperties
<1>6. /\ SubSeq(d, m, k) \in Seq(Byte) /\ Len(SubSeq(d, m, k)) = IF m <= k THEN k - m + 1 ELSE 0
      /\ \A i \in 1 .. k - m + 1 : SubSeq(d, m, k)[i] = d[m + i - 1]
  <2>1. \A i \in m .. k : d[i] \in Byte
    BY <1>1, <1>4
  <2>. QED
    BY <1>2, <2>1, SubSeqProperties
<1>7. \A i \in 1 .. Len(SubSeq(s, m, k)) : SubSeq(s, m, k)[i] = SubSeq(d, m, k)[i]
  <2>. SUFFICES ASSUME NEW i \in 1 .. Len(SubSeq(s, m, k))
                PROVE  SubSeq(s, m, k)[i] = SubSeq(d, m, k)[i]
    OBVIOUS
  <2>1. i \in 1 .. k - m + 1 /\ m + i - 1 \in 1 .. k
    BY <1>2, <1>5
  <2>. QED
    BY <1>1, <1>5, <1>6, <2>1
<1>8. SubSeq(s, m, k) = SubSeq(d, m, k)
  BY <1>5, <1>6, <1>7, SeqEqual
<1>. QED
  BY <1>3, <1>8 DEF m, k, s

\* A field that is put together from a tag and data of its type is read back from the
\* bytes, whatever follows it, and what follows is left (tryRewriteProtobuf).
THEOREM FieldOfParts ==
    ASSUME NEW t, Consumable(t), NEW d, IsData(ValueOf[t] % 8, d), NEW rest \in Bytes
    PROVE  LET b == t \o d \o rest
           IN  b \in Bytes /\ Says(Field(b), t, d) /\ Drop(b, Field(b).size) = rest
<1>. DEFINE r == d \o rest
            b == t \o r
            tag == [n |-> Len(t), value |-> ValueOf[t]]
            v == consumeProtobufVarint(r)
            f == Field(b)
            size == SizeOf(tag, v)
            have == Min({size, Len(r)})
<1>1. t \in Bytes /\ d \in Bytes /\ Len(t) \in Nat /\ Len(t) > 0 /\ Len(d) \in Nat /\ Len(d) > 0
      /\ Len(rest) \in Nat /\ ValueOf[t] \in Nat
  BY BytesAreNumbers, ValueOfDef DEF Consumable, IsVarint, IsData
<1>2. t \o d \o rest = b
  BY <1>1, ConcatAssociative DEF Bytes
<1>3. r \in Bytes /\ Len(r) = Len(d) + Len(rest) /\ Take(r, Len(d)) = d /\ Drop(r, Len(d)) = rest
  BY <1>1, ConcatProperties, SplitConcat DEF Bytes
<1>4. consumeProtobufVarint(b) = tag
  BY <1>3, ConsumeVarint
<1>5. v.n \in Nat /\ v.value \in Nat
  BY <1>3, ConsumeRange
<1>6. ValueOf[t] % 8 = 0 => v = [n |-> Len(d), value |-> ValueOf[d]]
  <2>1. ValueOf[t] % 8 = 0 => Consumable(d)
    BY DEF IsData
  <2>. QED
    BY <2>1, ConsumeVarint
<1>7. ValueOf[t] % 8 = 2 => /\ v = consumeProtobufVarint(d) /\ v.n > 0 /\ v.n \in 0 .. Len(d)
                            /\ v.n + v.value = Len(d)
  <2>. SUFFICES ASSUME ValueOf[t] % 8 = 2
                PROVE  /\ v = consumeProtobufVarint(d) /\ v.n > 0 /\ v.n \in 0 .. Len(d)
                       /\ v.n + v.value = Len(d)
    OBVIOUS
  <2>. DEFINE c == consumeProtobufVarint(d)
              h == Take(d, c.n)
              e == Drop(d, c.n)
  <2>1. c.n > 0 /\ c.n + c.value = Len(d) /\ c.n \in 0 .. Len(d)
    BY <1>1, ConsumeRange DEF IsData
  <2>2. Consumable(h) /\ c = [n |-> c.n, value |-> ValueOf[h]]
    <3>1. \/ c = [n |-> 0, value |-> 0]
          \/ Consumable(h) /\ c = [n |-> c.n, value |-> ValueOf[h]]
      BY <1>1, ConsumedVarint
    <3>2. c # [n |-> 0, value |-> 0]
      BY <2>1
    <3>. QED
      BY <3>1, <3>2
  <2>. HIDE DEF c
  <2>3. h \in Seq(Byte) /\ e \in Seq(Byte) /\ Len(h) = c.n /\ h \o e = d
    BY <1>1, <2>1, TakeProperties, DropProperties, TakeThenDrop DEF Bytes
  <2>. HIDE DEF h, e
  <2>4. r = h \o (e \o rest) /\ e \o rest \in Bytes
    <3>1. rest \in Seq(Byte) /\ r = (h \o e) \o rest
      BY <2>3 DEF Bytes
    <3>2. (h \o e) \o rest = h \o (e \o rest)
      <4>1. h \in Seq(Byte) /\ e \in Seq(Byte) /\ rest \in Seq(Byte)
        BY <2>3, <3>1
      <4>. QED
        BY ONLY <4>1, ConcatAssociative
    <3>3. e \o rest \in Seq(Byte)
      BY <2>3, <3>1, ConcatProperties
    <3>. QED
      BY <3>1, <3>2, <3>3 DEF Bytes
  <2>5. v = c
    BY <2>2, <2>3, <2>4, ConsumeVarint
  <2>. QED
    BY <2>1, <2>5 DEF c
<1>. HIDE DEF r, v
<1>8. b \in Bytes /\ Len(b) = Len(t) + Len(r) /\ Take(b, Len(t)) = t /\ Drop(b, Len(t)) = r
  <2>1. t \in Seq(Byte) /\ r \in Seq(Byte)
    BY <1>1, <1>3 DEF Bytes
  <2>2. b \in Seq(Byte) /\ Len(b) = Len(t) + Len(r)
    BY <2>1, ConcatProperties
  <2>3. Take(b, Len(t)) = t /\ Drop(b, Len(t)) = r
    BY <2>1, SplitConcat
  <2>. QED
    BY <2>2, <2>3 DEF Bytes
<1>9. f = FieldOf(b, tag, v)
  BY <1>4, <1>8 DEF Field, v
<1>10. tag.n = Len(t) /\ tag.value = ValueOf[t] /\ tag.n \in 0 .. Len(b) /\ tag.n > 0
  BY <1>1, <1>3, <1>8
<1>. HIDE DEF tag, b
<1>11. IsFieldOf(f, b, tag, v)
  BY <1>1, <1>5, <1>8, <1>9, <1>10, FieldOfDef
<1>12. size = Len(d)
  <2>1. \/ ValueOf[t] % 8 = 0
        \/ ValueOf[t] % 8 = 1 /\ Len(d) = Fixed64
        \/ ValueOf[t] % 8 = 5 /\ Len(d) = Fixed32
        \/ ValueOf[t] % 8 = 2
    BY DEF IsData
  <2>2. CASE ValueOf[t] % 8 = 0
    BY <1>1, <1>5, <1>6, <1>10, <2>2, SizeOfValues
  <2>3. CASE ValueOf[t] % 8 = 1 /\ Len(d) = Fixed64
    BY <1>1, <1>5, <1>10, <2>3, SizeOfValues
  <2>4. CASE ValueOf[t] % 8 = 5 /\ Len(d) = Fixed32
    BY <1>1, <1>5, <1>10, <2>4, SizeOfValues
  <2>5. CASE ValueOf[t] % 8 = 2
    BY <1>1, <1>5, <1>7, <1>10, <2>5, SizeOfValues
  <2>. QED
    BY <2>1, <2>2, <2>3, <2>4, <2>5
<1>. HIDE DEF f, size, have
<1>13. /\ have \in 0 .. Len(r) /\ size \in Nat
       /\ size <= Len(r) => have = size
       /\ f.ok <=> size > 0 /\ size <= Len(r)
       /\ f.size = tag.n + size
       /\ f.num = tag.value \div 8 /\ f.wt = tag.value % 8
       /\ f.tag = Take(b, tag.n) /\ f.data = Take(r, have)
       /\ f.value = v.value
       /\ f.chunk = SubSeq(r, v.n + 1, have)
  BY <1>8, <1>10, <1>11 DEF IsFieldOf, size, have
<1>14. f.ok /\ have = Len(d) /\ f.size = Len(t) + Len(d) /\ f.tag = t /\ f.data = d
       /\ f.num = ValueOf[t] \div 8 /\ f.wt = ValueOf[t] % 8 /\ f.value = v.value
  BY <1>1, <1>3, <1>8, <1>10, <1>12, <1>13
<1>15. f.wt = 0 => f.value = ValueOf[d]
  BY <1>6, <1>14
<1>16. f.wt = 2 => f.chunk = Drop(d, consumeProtobufVarint(d).n)
  <2>. SUFFICES ASSUME f.wt = 2
                PROVE  f.chunk = Drop(d, consumeProtobufVarint(d).n)
    OBVIOUS
  <2>1. v = consumeProtobufVarint(d) /\ v.n \in 0 .. Len(d)
    BY <1>7, <1>14
  <2>2. f.chunk = SubSeq(d \o rest, v.n + 1, Len(d))
    BY <1>13, <1>14 DEF r
  <2>. QED
    BY <1>1, <2>1, <2>2, MiddleOfConcat
<1>17. Drop(b, f.size) = rest
  <2>1. Drop(Drop(b, Len(t)), Len(d)) = Drop(b, Len(t) + Len(d))
    <3>1. Len(t) \in 0 .. Len(b) /\ Len(d) \in 0 .. Len(b) - Len(t) /\ b \in Seq(Byte)
      BY <1>1, <1>3, <1>8 DEF Bytes
    <3>. QED
      BY <3>1, DropOfDrop
  <2>. QED
    BY <1>3, <1>8, <1>14, <2>1
<1>18. Says(f, t, d)
  BY <1>14, <1>15, <1>16 DEF Says
<1>. QED
  BY <1>2, <1>8, <1>17, <1>18 DEF b, f

(***************************************************************************)
(* Messages                                                                *)
(***************************************************************************)
\* One more at the beginning of a list.
LEMMA FirstProperties ==
    ASSUME NEW S, NEW r \in S, NEW more, more.list \in Seq(S)
    PROVE  /\ First(r, more).list \in Seq(S) /\ First(r, more).rest = more.rest
           /\ Len(First(r, more).list) = Len(more.list) + 1 /\ First(r, more).list[1] = r
           /\ \A i \in 1 .. Len(more.list) : First(r, more).list[i + 1] = more.list[i]
<1>. DEFINE l == <<r>> \o more.list
<1>1. First(r, more) = [list |-> l, rest |-> more.rest]
  BY DEF First
<1>2. <<r>> \in Seq(S) /\ Len(<<r>>) = 1 /\ <<r>>[1] = r /\ Len(more.list) \in Nat
  BY LenProperties
<1>3. /\ l \in Seq(S) /\ Len(l) = 1 + Len(more.list)
      /\ \A i \in 1 .. 1 + Len(more.list) : l[i] = IF i <= 1 THEN <<r>>[i] ELSE more.list[i - 1]
  BY <1>2, ConcatProperties
<1>4. l[1] = r
  BY <1>2, <1>3
<1>5. \A i \in 1 .. Len(more.list) : l[i + 1] = more.list[i]
  <2>. SUFFICES ASSUME NEW i \in 1 .. Len(more.list)
                PROVE  l[i + 1] = more.list[i]
    OBVIOUS
  <2>1. i + 1 \in 1 .. 1 + Len(more.list) /\ ~(i + 1 <= 1) /\ (i + 1) - 1 = i
    BY <1>2
  <2>. QED
    BY <1>3, <2>1
<1>. HIDE DEF l
<1>. QED
  BY <1>1, <1>2, <1>3, <1>4, <1>5

Parsed == [list : Seq(FieldSet), rest : Bytes]

\* Wire is what its definition says.
LEMMA WireDef ==
    /\ Wire \in [Bytes -> Parsed]
    /\ \A b \in Bytes : Wire[b] = IF Field(b).ok THEN First(Field(b), Wire[Drop(b, Field(b).size)])
                                  ELSE [list |-> <<>>, rest |-> b]
<1>. DEFINE E(g) == [b \in Bytes |-> IF Field(b).ok THEN First(Field(b), g[Drop(b, Field(b).size)])
                                     ELSE [list |-> <<>>, rest |-> b]]
            size == [b \in Bytes |-> Len(b)]
            Stop == {b \in Bytes : ~Field(b).ok}
            next == [b \in Bytes |-> IF Field(b).ok THEN Drop(b, Field(b).size) ELSE b]
            last == [b \in Bytes |-> [list |-> <<>>, rest |-> b]]
            step == [p \in Bytes \X Parsed |-> IF Field(p[1]).ok THEN First(Field(p[1]), p[2]) ELSE p[2]]
<1>1. ASSUME NEW b \in Bytes, NEW l \in Parsed
      PROVE  First(Field(b), l) \in Parsed
  <2>1. Field(b) \in FieldSet /\ l.list \in Seq(FieldSet) /\ l.rest \in Bytes
    BY FieldProperties DEF Parsed
  <2>2. <<Field(b)>> \o l.list \in Seq(FieldSet)
    <3>1. <<Field(b)>> \in Seq(FieldSet)
      BY <2>1
    <3>. QED
      BY <2>1, <3>1, ConcatProperties
  <2>. QED
    BY <2>1, <2>2 DEF First, Parsed
<1>2. \A b \in Bytes : [list |-> <<>>, rest |-> b] \in Parsed
  BY EmptySeq DEF Parsed
<1>3. \A b \in Bytes : Field(b).ok => Drop(b, Field(b).size) \in Bytes /\ Len(Drop(b, Field(b).size)) < Len(b)
  BY FieldThatIs
<1>4. PICK f \in Maps(Bytes, Parsed) :
         \A b \in Bytes : f[b] = IF b \in Stop THEN last[b] ELSE step[<<b, f[next[b]]>>]
  <2>1. size \in Maps(Bytes, Nat) /\ Stop \in SUBSET Bytes
    BY BytesAreNumbers DEF Maps
  <2>2. next \in Maps(Bytes, Bytes)
    BY <1>3 DEF Maps
  <2>3. last \in Maps(Bytes, Parsed)
    BY <1>2 DEF Maps
  <2>4. step \in Maps(Bytes \X Parsed, Parsed)
    <3>1. ASSUME NEW p \in Bytes \X Parsed
          PROVE  (IF Field(p[1]).ok THEN First(Field(p[1]), p[2]) ELSE p[2]) \in Parsed
      BY <1>1
    <3>. QED
      BY <3>1 DEF Maps
  <2>5. \A b \in Bytes \ Stop : size[next[b]] < size[b]
    BY <1>3
  <2>6. Recursion(Bytes, Parsed, size, Stop, next, last, step)
    <3>. HIDE DEF size, Stop, next, last, step
    <3>. QED
      BY <2>1, <2>2, <2>3, <2>4, <2>5 DEF Recursion
  <2>. HIDE DEF size, Stop, next, last, step
  <2>. QED
    BY ONLY <2>6, MeasuredRecursion, SMT
<1>5. f = E(f)
  <2>1. f \in [Bytes -> Parsed]
    BY DEF Maps
  <2>2. ASSUME NEW b \in Bytes
        PROVE  f[b] = IF Field(b).ok THEN First(Field(b), f[Drop(b, Field(b).size)])
                      ELSE [list |-> <<>>, rest |-> b]
    BY <1>4, <2>1, <1>3
  <2>. QED
    BY <2>1, <2>2
<1>6. Wire = E(Wire)
  <2>1. \E g : g = E(g)
    BY <1>5
  <2>. QED
    BY <2>1, Zenon DEF Wire
<1>7. \A b \in Bytes : Wire[b] = IF Field(b).ok THEN First(Field(b), Wire[Drop(b, Field(b).size)])
                                 ELSE [list |-> <<>>, rest |-> b]
  BY <1>6
<1>8. \A b \in Bytes : Wire[b] \in Parsed
  <2>. DEFINE T == {b \in Bytes : Wire[b] \in Parsed}
  <2>1. ASSUME NEW b \in Bytes, \A c \in Bytes : Len(c) < Len(b) => c \in T
        PROVE  b \in T
    <3>1. CASE ~Field(b).ok
      BY <1>2, <1>7, <3>1
    <3>2. CASE Field(b).ok
      <4>1. Wire[Drop(b, Field(b).size)] \in Parsed
        BY <1>3, <2>1, <3>2
      <4>. QED
        BY <1>1, <1>7, <3>2, <4>1
    <3>. QED
      BY <3>1, <3>2
  <2>. HIDE DEF T
  <2>2. Bytes \subseteq T
    BY <2>1, InductionOnLength DEF Bytes
  <2>. QED
    BY <2>2 DEF T
<1>. QED
  BY <1>6, <1>7, <1>8

\* Fields and protobufWireConsumesFully, field by field.
LEMMA FieldsDef ==
    ASSUME NEW b \in Bytes
    PROVE  /\ Fields(b) \in Seq(FieldSet)
           /\ ~Field(b).ok => Fields(b) = <<>> /\ (protobufWireConsumesFully(b) <=> b = <<>>)
           /\ Field(b).ok =>
                 LET c == Drop(b, Field(b).size)
                 IN  /\ c \in Bytes /\ Len(Fields(b)) = Len(Fields(c)) + 1 /\ Fields(b)[1] = Field(b)
                     /\ \A i \in 1 .. Len(Fields(c)) : Fields(b)[i + 1] = Fields(c)[i]
                     /\ protobufWireConsumesFully(b) <=> protobufWireConsumesFully(c)
<1>1. Wire[b] \in Parsed
  BY WireDef
<1>2. CASE ~Field(b).ok
  <2>1. Wire[b] = [list |-> <<>>, rest |-> b]
    BY <1>2, WireDef
  <2>. QED
    BY <1>1, <1>2, <2>1 DEF Fields, protobufWireConsumesFully, Parsed
<1>3. CASE Field(b).ok
  <2>. DEFINE c == Drop(b, Field(b).size)
  <2>1. c \in Bytes /\ Field(b) \in FieldSet
    BY <1>3, FieldThatIs, FieldProperties
  <2>2. Wire[b] = First(Field(b), Wire[c])
    BY <1>3, WireDef
  <2>. HIDE DEF c
  <2>3. Wire[c].list \in Seq(FieldSet)
    BY <2>1, WireDef DEF Parsed
  <2>. QED
    BY <1>1, <1>3, <2>1, <2>2, <2>3, FirstProperties DEF Fields, protobufWireConsumesFully, Parsed, c
<1>. QED
  BY <1>2, <1>3

\* A field of a message of at most n bytes.
IsField(f, n) ==
    /\ Consumable(f.tag) /\ IsData(f.wt, f.data) /\ Says(f, f.tag, f.data)
    /\ f.tag \in Bytes /\ f.data \in Bytes /\ f.chunk \in Bytes
    /\ Len(f.tag) + Len(f.data) <= n

\* Sums within bounds.
LEMMA SumWithin ==
    ASSUME NEW x \in Nat, NEW y \in Nat, NEW m \in Nat, NEW n \in Nat, x + y <= m, m <= n
    PROVE  x + y <= n
OBVIOUS

\* Every field of a message is a tag and data of its type within it.
LEMMA FieldsAreFields ==
    ASSUME NEW b \in Bytes, NEW i \in DOMAIN Fields(b)
    PROVE  IsField(Fields(b)[i], Len(b))
<1>. DEFINE T == {c \in Bytes : \A k \in 1 .. Len(Fields(c)) : IsField(Fields(c)[k], Len(c))}
<1>1. ASSUME NEW c \in Bytes, \A d \in Bytes : Len(d) < Len(c) => d \in T
      PROVE  c \in T
  <2>1. CASE ~Field(c).ok
    <3>1. Fields(c) = <<>>
      BY <2>1, FieldsDef
    <3>2. Len(Fields(c)) = 0
      BY <3>1
    <3>. QED
      BY <3>2
  <2>2. CASE Field(c).ok
    <3>. DEFINE f == Field(c)
                d == Drop(c, f.size)
    <3>1. /\ Consumable(f.tag) /\ IsData(f.wt, f.data) /\ Says(f, f.tag, f.data)
          /\ f.tag \in Bytes /\ f.data \in Bytes /\ f.chunk \in Bytes
          /\ f.size \in 1 .. Len(c) /\ d \in Bytes /\ Len(d) < Len(c)
      BY <2>2, FieldThatIs
    <3>2. /\ Len(Fields(c)) = Len(Fields(d)) + 1 /\ Fields(c)[1] = f
          /\ \A k \in 1 .. Len(Fields(d)) : Fields(c)[k + 1] = Fields(d)[k]
      BY <2>2, FieldsDef
    <3>3. Fields(d) \in Seq(FieldSet)
      BY <3>1, FieldsDef
    <3>4. d \in T /\ Len(Fields(d)) \in Nat /\ Len(d) \in Nat /\ Len(c) \in Nat
      BY <1>1, <3>1, <3>3, BytesAreNumbers, LenProperties
    <3>. HIDE DEF f, d
    <3>8. Len(d) \in Nat /\ Len(c) \in Nat /\ Len(d) <= Len(c) /\ f.size \in Nat /\ f.size <= Len(c)
      BY <3>1, <3>4
    <3>9. Len(f.tag) \in Nat /\ Len(f.data) \in Nat
      BY <3>1, BytesAreNumbers
    <3>5. IsField(f, Len(c))
      <4>1. Len(f.tag) + Len(f.data) = f.size
        BY <3>1 DEF Says
      <4>2. Len(f.tag) + Len(f.data) <= Len(c)
        BY <3>8, <4>1, Zenon
      <4>. QED
        BY <3>1, <4>2, Zenon DEF IsField
    <3>6. ASSUME NEW k \in 1 .. Len(Fields(c)), k > 1
          PROVE  IsField(Fields(c)[k], Len(c))
      <4>1. k - 1 \in 1 .. Len(Fields(d)) /\ (k - 1) + 1 = k
        BY <3>2, <3>4, <3>6
      <4>2. IsField(Fields(d)[k - 1], Len(d))
        BY <3>4, <4>1
      <4>3. Fields(c)[k] = Fields(d)[k - 1]
        BY <3>2, <4>1
      <4>4. Len(Fields(d)[k - 1].tag) \in Nat /\ Len(Fields(d)[k - 1].data) \in Nat
        BY <4>2, BytesAreNumbers DEF IsField
      <4>. DEFINE g == Fields(d)[k - 1]
      <4>5. Len(g.tag) + Len(g.data) <= Len(d)
        BY <4>2, Zenon DEF IsField
      <4>6. Len(g.tag) + Len(g.data) <= Len(c)
        BY <3>8, <4>4, <4>5, SumWithin, Zenon
      <4>7. IsField(g, Len(c))
        BY <4>2, <4>6, Zenon DEF IsField
      <4>. QED
        BY <4>3, <4>7
    <3>7. \A k \in 1 .. Len(Fields(c)) : IsField(Fields(c)[k], Len(c))
      BY <3>2, <3>5, <3>6
    <3>. QED
      BY <3>7
  <2>. QED
    BY <2>1, <2>2
<1>2. Bytes \subseteq T
  <2>. HIDE DEF T
  <2>. QED
    BY <1>1, InductionOnLength DEF Bytes
<1>3. i \in 1 .. Len(Fields(b))
  BY FieldsDef, LenProperties
<1>. QED
  BY <1>2, <1>3
===============================================================================
