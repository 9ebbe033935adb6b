-------------------------- MODULE CanonicalProofs ---------------------------
(***************************************************************************)
(* Proofs about Canonical, for texts of any length over any characters.    *)
(*                                                                         *)
(* The invariant says of what is written that there are places at[i] at    *)
(* which the output of the character i begins (Writes); of a run after the *)
(* first, that it stands at the place of its character and has written     *)
(* what the first one wrote up to there (Agrees).  A server that writes or *)
(* drops a CR changes the places, not what is written.                     *)
(***************************************************************************)
EXTENDS Canonical, WellFoundedInduction, SequenceTheorems, TLAPS

\* A set of natural numbers that is not empty has a least element: what holds
\* of a number if it holds of those below it is proved by way of the least for
\* which it does not.
LEMMA LeastExists ==
  ASSUME NEW S \in SUBSET Nat, S # {}
  PROVE  \E n \in S : \A m \in S : n <= m
<1> DEFINE R == {ss \in Nat \X Nat : ss[1] < ss[2]}
<1>1. IsWellFoundedOn(R, Nat)
  BY NatLessThanWellFounded DEF OpToRel
<1>2. PICK n \in S : \A m \in S : ~(<<m, n>> \in R)
  BY <1>1, WFMin
<1>3. ASSUME NEW m \in S PROVE n <= m
  <2>1. n \in Nat /\ m \in Nat /\ <<m, n>> \in Nat \X Nat
    OBVIOUS
  <2>2. ~(m < n)
    BY <1>2, <2>1
  <2>3. QED
    BY <2>1, <2>2
<1>4. QED
  BY <1>3

(***************************************************************************)
(* Kept is defined by recursion: that it obeys its equation, and that it   *)
(* depends on the characters it has seen only.                             *)
(***************************************************************************)
\* A function that obeys the equation of Kept up to n.
KeptUpTo(s, n, k) ==
  /\ k \in [0..n -> Seq(Char)]
  /\ \A m \in 0..n :
       k[m] = IF m = 0 THEN <<>>
              ELSE IF s[m] = CR THEN k[m - 1] ELSE Append(k[m - 1], s[m])

LEMMA KeptExists ==
  ASSUME NEW s \in Seq(Char), NEW n \in 0..Len(s)
  PROVE  \E k : KeptUpTo(s, n, k)
<1> DEFINE F == {m \in 0..Len(s) : ~ \E k : KeptUpTo(s, m, k)}
<1>1. Len(s) \in Nat /\ F \in SUBSET Nat
  OBVIOUS
<1>2. SUFFICES ASSUME F # {} PROVE FALSE
  OBVIOUS
<1>3. PICK m \in F : \A l \in F : m <= l
  BY <1>1, <1>2, LeastExists
<1>4. m \in 0..Len(s) /\ ~ \E k : KeptUpTo(s, m, k)
  OBVIOUS
<1>5. CASE m = 0
  <2>1. KeptUpTo(s, 0, [j \in 0..0 |-> <<>>])
    BY DEF KeptUpTo
  <2>2. QED
    BY <1>4, <1>5, <2>1
<1>6. CASE m # 0
  <2>1. m - 1 \in 0..Len(s) /\ ~(m <= m - 1)
    BY <1>1, <1>4, <1>6
  <2>2. PICK k : KeptUpTo(s, m - 1, k)
    BY <1>3, <2>1
  <2> DEFINE e == IF s[m] = CR THEN k[m - 1] ELSE Append(k[m - 1], s[m])
             g == [j \in 0..m |-> IF j = m THEN e ELSE k[j]]
  <2>3. s[m] \in Char /\ \A j \in 0..m : j # m => j \in 0..(m - 1)
    BY <1>1, <1>4, <1>6
  <2>4. k \in [0..(m - 1) -> Seq(Char)] /\ e \in Seq(Char)
    <3>1. k \in [0..(m - 1) -> Seq(Char)] /\ m - 1 \in 0..(m - 1)
      BY <1>1, <1>4, <1>6, <2>2 DEF KeptUpTo
    <3>2. k[m - 1] \in Seq(Char)
      BY <3>1
    <3>3. QED
      BY <2>3, <3>1, <3>2
  <2>5. g \in [0..m -> Seq(Char)]
    BY <2>3, <2>4
  <2>6. ASSUME NEW j \in 0..m
        PROVE  g[j] = IF j = 0 THEN <<>>
                      ELSE IF s[j] = CR THEN g[j - 1] ELSE Append(g[j - 1], s[j])
    <3>1. CASE j = m
      <4>1. g[m] = e /\ g[m - 1] = k[m - 1]
        BY <1>1, <1>4, <1>6
      <4>2. QED
        BY <1>6, <3>1, <4>1
    <3>2. CASE j # m
      <4>1. j \in 0..(m - 1) /\ g[j] = k[j] /\ (j # 0 => g[j - 1] = k[j - 1])
        BY <1>1, <1>4, <3>2
      <4>2. k[j] = IF j = 0 THEN <<>>
                   ELSE IF s[j] = CR THEN k[j - 1] ELSE Append(k[j - 1], s[j])
        BY <2>2, <4>1 DEF KeptUpTo
      <4>3. QED
        BY <4>1, <4>2
    <3>3. QED
      BY <3>1, <3>2
  <2> HIDE DEF g
  <2>7. KeptUpTo(s, m, g)
    BY <2>5, <2>6 DEF KeptUpTo
  <2>8. QED
    BY <1>4, <2>7
<1>7. QED
  BY <1>5, <1>6

LEMMA KeptIs ==
  ASSUME NEW s \in Seq(Char)
  PROVE  KeptUpTo(s, Len(s), Kept(s))
<1>1. Len(s) \in Nat /\ Len(s) \in 0..Len(s)
  OBVIOUS
<1>2. PICK k : KeptUpTo(s, Len(s), k)
  BY <1>1, KeptExists
<1>3. k = [n \in 0..Len(s) |->
             IF n = 0 THEN <<>>
             ELSE IF s[n] = CR THEN k[n - 1] ELSE Append(k[n - 1], s[n])]
  BY <1>2 DEF KeptUpTo
<1> DEFINE K == Kept(s)
<1>4. K = [n \in 0..Len(s) |->
             IF n = 0 THEN <<>>
             ELSE IF s[n] = CR THEN K[n - 1] ELSE Append(K[n - 1], s[n])]
  BY <1>3 DEF Kept
<1> HIDE DEF K
<1>5. \A n \in 0..Len(s) : K[n] = k[n]
  <2> DEFINE F == {n \in 0..Len(s) : K[n] # k[n]}
  <2>1. SUFFICES ASSUME F # {} PROVE FALSE
    OBVIOUS
  <2>2. PICK n \in F : \A m \in F : n <= m
    <3>1. F \in SUBSET Nat
      BY <1>1
    <3>2. QED
      BY <2>1, <3>1, LeastExists
  <2>3. n # 0 => n - 1 \in 0..Len(s) /\ ~(n <= n - 1)
    BY <1>1
  <2>4. n # 0 => K[n - 1] = k[n - 1]
    BY <2>2, <2>3
  <2>5. /\ K[n] = IF n = 0 THEN <<>>
                  ELSE IF s[n] = CR THEN K[n - 1] ELSE Append(K[n - 1], s[n])
        /\ k[n] = IF n = 0 THEN <<>>
                  ELSE IF s[n] = CR THEN k[n - 1] ELSE Append(k[n - 1], s[n])
    BY <1>2, <1>4 DEF KeptUpTo
  <2>6. QED
    BY <2>4, <2>5
<1>6. DOMAIN K = 0..Len(s) /\ K = [n \in 0..Len(s) |-> K[n]]
  BY <1>4
<1>7. k = [n \in 0..Len(s) |-> k[n]]
  BY <1>2 DEF KeptUpTo
<1>8. K = k
  BY <1>5, <1>6, <1>7
<1>9. QED
  BY <1>2, <1>8 DEF K

LEMMA KeptOfPrefix ==
  ASSUME NEW s \in Seq(Char), NEW t \in Seq(Char), Len(s) <= Len(t),
         \A n \in 1..Len(s) : s[n] = t[n]
  PROVE  \A n \in 0..Len(s) : Kept(s)[n] = Kept(t)[n]
<1> DEFINE F == {n \in 0..Len(s) : Kept(s)[n] # Kept(t)[n]}
<1>1. Len(s) \in Nat /\ Len(t) \in Nat /\ F \in SUBSET Nat
  OBVIOUS
<1>2. SUFFICES ASSUME F # {} PROVE FALSE
  OBVIOUS
<1>3. PICK n \in F : \A m \in F : n <= m
  BY <1>1, <1>2, LeastExists
<1>4. n # 0 => n - 1 \in 0..Len(s) /\ ~(n <= n - 1) /\ s[n] = t[n]
  BY <1>1
<1>5. n # 0 => Kept(s)[n - 1] = Kept(t)[n - 1]
  BY <1>3, <1>4
<1>6. n \in 0..Len(s) /\ n \in 0..Len(t)
  BY <1>1
<1>7. /\ Kept(s)[n] = IF n = 0 THEN <<>>
           ELSE IF s[n] = CR THEN Kept(s)[n - 1] ELSE Append(Kept(s)[n - 1], s[n])
      /\ Kept(t)[n] = IF n = 0 THEN <<>>
           ELSE IF t[n] = CR THEN Kept(t)[n - 1] ELSE Append(Kept(t)[n - 1], t[n])
  BY <1>6, KeptIs DEF KeptUpTo
<1>8. QED
  BY <1>4, <1>5, <1>7

(***************************************************************************)
(* The loop.  Writes(s, n, at, o): canonicalizeStr writes o of the first   *)
(* n - 1 characters of s, none of them NUL, and has written at[i]          *)
(* characters when it comes to the character i.                            *)
(***************************************************************************)
Output(c) == IF c = CR THEN <<>> ELSE Written(c)

Writes(s, n, at, o) ==
  /\ at \in [1..n -> Nat] /\ at[1] = 0 /\ Len(o) = at[n]
  /\ \A i \in 1..n : at[i] <= Len(o)
  /\ \A i \in 1..(n - 1) :
       /\ s[i] # NUL
       /\ at[i + 1] = at[i] + Len(Output(s[i]))
       /\ \A k \in 1..Len(Output(s[i])) : o[at[i] + k] = Output(s[i])[k]

\* Concatenation, element by element from its second half on.
LEMMA ConcatIs ==
  ASSUME NEW s \in Seq(Char), NEW t \in Seq(Char)
  PROVE  /\ s \o t \in Seq(Char) /\ Len(s \o t) = Len(s) + Len(t)
         /\ \A k \in 1..Len(s) : (s \o t)[k] = s[k]
         /\ \A k \in 1..Len(t) : (s \o t)[Len(s) + k] = t[k]
<1>1. Len(s) \in Nat /\ Len(t) \in Nat
  OBVIOUS
<1>2. /\ s \o t \in Seq(Char) /\ Len(s \o t) = Len(s) + Len(t)
      /\ \A i \in 1..(Len(s) + Len(t)) : (s \o t)[i] = IF i <= Len(s) THEN s[i] ELSE t[i - Len(s)]
  BY ConcatProperties
<1>3. ASSUME NEW k \in 1..Len(t) PROVE (s \o t)[Len(s) + k] = t[k]
  <2>1. Len(s) + k \in 1..(Len(s) + Len(t)) /\ ~(Len(s) + k <= Len(s)) /\ (Len(s) + k) - Len(s) = k
    BY <1>1
  <2>2. QED
    BY <1>2, <2>1
<1>4. ASSUME NEW k \in 1..Len(s) PROVE (s \o t)[k] = s[k]
  BY <1>1, <1>2
<1>5. QED
  BY <1>2, <1>3, <1>4

\* s is at its end at n: the first NUL, or the one behind its last character.
EndsAt(s, n) == n \in 1..(Len(s) + 1) /\ Append(s, NUL)[n] = NUL

LEMMA OutputIs ==
  ASSUME NEW c \in Char
  PROVE  /\ Output(c) \in Seq(Char)
         /\ Len(Output(c)) = IF c = CR THEN 0 ELSE IF c = LF THEN 2 ELSE 1
<1>1. CASE c = CR
  BY <1>1 DEF Output
<1>2. CASE c = LF
  <2>1. Output(c) = <<CR, LF>>
    BY <1>2, CharAssumption DEF Output, Written
  <2>2. QED
    BY <1>2, <2>1, CharAssumption
<1>3. CASE c # CR /\ c # LF
  BY <1>3 DEF Output, Written
<1>4. QED
  BY <1>1, <1>2, <1>3

\* Where a text is not at its end there is a character of it.
LEMMA NotAtEnd ==
  ASSUME NEW s \in Seq(Char), NEW n \in 1..(Len(s) + 1)
  PROVE  EndsAt(s, n) <=> (n = Len(s) + 1 \/ s[n] = NUL)
<1>1. CASE n = Len(s) + 1
  BY <1>1, CharAssumption DEF EndsAt
<1>2. CASE n # Len(s) + 1
  <2>1. n \in 1..Len(s) /\ Append(s, NUL)[n] = s[n]
    BY <1>2, CharAssumption
  <2>2. QED
    BY <1>2, <2>1 DEF EndsAt
<1>3. QED
  BY <1>1, <1>2

\* One more character.
LEMMA WritesOneMore ==
  ASSUME NEW s \in Seq(Char), NEW n \in 1..Len(s), s[n] # NUL,
         NEW at, NEW o \in Seq(Char), Writes(s, n, at, o)
  PROVE  \E bt : Writes(s, n + 1, bt, o \o Output(s[n]))
<1> DEFINE q == o \o Output(s[n])
           bt == [i \in 1..(n + 1) |-> IF i = n + 1 THEN Len(q) ELSE at[i]]
<1>1. s[n] \in Char /\ n \in Nat /\ n >= 1
  OBVIOUS
<1>2. /\ Output(s[n]) \in Seq(Char) /\ Len(Output(s[n])) \in Nat
      /\ q \in Seq(Char) /\ Len(q) = Len(o) + Len(Output(s[n])) /\ Len(o) \in Nat /\ Len(q) \in Nat
  BY <1>1, OutputIs
<1>3. /\ \A k \in 1..Len(o) : q[k] = o[k]
      /\ \A k \in 1..Len(Output(s[n])) : q[Len(o) + k] = Output(s[n])[k]
  BY <1>2
<1> HIDE DEF q
<1>4. at \in [1..n -> Nat] /\ at[1] = 0 /\ Len(o) = at[n]
  BY DEF Writes
<1>5. /\ bt \in [1..(n + 1) -> Nat] /\ bt[1] = 0 /\ Len(q) = bt[n + 1]
      /\ \A i \in 1..(n + 1) : bt[i] <= Len(q)
  <2>1. ASSUME NEW i \in 1..n PROVE at[i] \in Nat /\ at[i] <= Len(o)
    BY <1>4 DEF Writes
  <2>2. QED
    BY <1>1, <1>2, <1>4, <2>1
<1>6. ASSUME NEW i \in 1..n
      PROVE  /\ s[i] # NUL
             /\ bt[i + 1] = bt[i] + Len(Output(s[i]))
             /\ \A k \in 1..Len(Output(s[i])) : q[bt[i] + k] = Output(s[i])[k]
  <2>1. CASE i = n
    BY <1>1, <1>2, <1>3, <1>4, <2>1
  <2>2. CASE i # n
    <3>1. i \in 1..(n - 1) /\ bt[i] = at[i] /\ bt[i + 1] = at[i + 1]
      BY <1>1, <2>2
    <3>2. /\ s[i] # NUL
          /\ at[i + 1] = at[i] + Len(Output(s[i]))
          /\ \A k \in 1..Len(Output(s[i])) : o[at[i] + k] = Output(s[i])[k]
      BY <3>1 DEF Writes
    <3>3. at[i] \in Nat /\ at[i + 1] <= Len(o) /\ Len(Output(s[i])) \in Nat
      BY <1>4, <3>1, OutputIs DEF Writes
    <3>4. \A k \in 1..Len(Output(s[i])) : at[i] + k \in 1..Len(o)
      BY <1>2, <3>2, <3>3
    <3>5. QED
      BY <1>3, <3>1, <3>2, <3>4
  <2>3. QED
    BY <2>1, <2>2
<1> HIDE DEF bt
<1>7. Writes(s, n + 1, bt, q)
  BY <1>1, <1>5, <1>6 DEF Writes
<1>8. QED
  BY <1>7 DEF q

\* Of the same text, a second run writes what the first one wrote.
LEMMA CatchesUp ==
  ASSUME NEW s \in Seq(Char), NEW n \in 1..(Len(s) + 1), NEW at, NEW o \in Seq(Char),
         Writes(s, n, at, o), NEW m \in 1..(n - 1),
         NEW q \in Seq(Char), Len(q) = at[m], \A k \in 1..Len(q) : q[k] = o[k]
  PROVE  /\ Len(q \o Output(s[m])) = at[m + 1]
         /\ \A k \in 1..Len(q \o Output(s[m])) : (q \o Output(s[m]))[k] = o[k]
<1>1. s[m] \in Char /\ Output(s[m]) \in Seq(Char) /\ Len(Output(s[m])) \in Nat /\ Len(q) \in Nat
  BY OutputIs
<1>2. /\ at[m + 1] = at[m] + Len(Output(s[m]))
      /\ \A k \in 1..Len(Output(s[m])) : o[at[m] + k] = Output(s[m])[k]
  BY DEF Writes
<1> DEFINE r == q \o Output(s[m])
<1>3. /\ Len(r) = Len(q) + Len(Output(s[m]))
      /\ \A k \in 1..Len(q) : r[k] = q[k]
      /\ \A k \in 1..Len(Output(s[m])) : r[Len(q) + k] = Output(s[m])[k]
  BY <1>1, ConcatIs
<1> HIDE DEF r
<1>4. ASSUME NEW k \in 1..Len(r) PROVE r[k] = o[k]
  <2>1. CASE k \in 1..Len(q)
    BY <1>3, <2>1
  <2>2. CASE k \notin 1..Len(q)
    <3>1. k - Len(q) \in 1..Len(Output(s[m])) /\ k = Len(q) + (k - Len(q))
      BY <1>1, <1>3, <2>2
    <3>2. QED
      BY <1>2, <1>3, <3>1
  <2>3. QED
    BY <2>1, <2>2
<1>5. QED
  BY <1>2, <1>3, <1>4 DEF r

(***************************************************************************)
(* A CR more or less before a line end makes no difference.                *)
(***************************************************************************)
LEMMA InsertedIs ==
  ASSUME NEW s \in Seq(Char), NEW i \in 1..Len(s)
  PROVE  /\ InsertAt(s, i, CR) \in Seq(Char) /\ Len(InsertAt(s, i, CR)) = Len(s) + 1
         /\ \A j \in 1..(i - 1) : InsertAt(s, i, CR)[j] = s[j]
         /\ InsertAt(s, i, CR)[i] = CR
         /\ \A j \in (i + 1)..(Len(s) + 1) : InsertAt(s, i, CR)[j] = s[j - 1]
<1> DEFINE a == SubSeq(s, 1, i - 1)
           b == a \o <<CR>>
           c == SubSeq(s, i, Len(s))
           t == InsertAt(s, i, CR)
<1>1. Len(s) \in Nat /\ i \in Nat /\ 1 <= i /\ i <= Len(s)
  OBVIOUS
<1>2. /\ a \in Seq(Char) /\ Len(a) = i - 1 /\ \A j \in 1..(i - 1) : a[j] = s[j]
      /\ c \in Seq(Char) /\ Len(c) = Len(s) - i + 1
      /\ \A j \in 1..(Len(s) - i + 1) : c[j] = s[i + j - 1]
  BY <1>1
<1> HIDE DEF a, c
<1>3. <<CR>> \in Seq(Char) /\ Len(<<CR>>) = 1 /\ <<CR>>[1] = CR /\ 1 \in 1..1
  BY CharAssumption
<1>4. /\ b \in Seq(Char) /\ Len(b) = i
      /\ \A j \in 1..(i - 1) : b[j] = s[j]
      /\ b[i] = CR
  <2>1. /\ b \in Seq(Char) /\ Len(b) = Len(a) + 1 /\ \A j \in 1..Len(a) : b[j] = a[j]
        /\ b[Len(a) + 1] = CR
    BY <1>2, <1>3, ConcatIs
  <2>2. QED
    BY <1>1, <1>2, <2>1
<1> HIDE DEF b
<1>5. t = b \o c
  BY DEF InsertAt, a, b, c
<1> HIDE DEF t
<1>6. /\ t \in Seq(Char) /\ Len(t) = Len(b) + Len(c)
      /\ \A j \in 1..Len(b) : t[j] = b[j]
      /\ \A j \in 1..Len(c) : t[Len(b) + j] = c[j]
  <2>1. b \in Seq(Char) /\ c \in Seq(Char)
    BY <1>2, <1>4
  <2>2. QED
    BY <1>5, <2>1, ConcatIs
<1>7. ASSUME NEW j \in (i + 1)..(Len(s) + 1) PROVE t[j] = s[j - 1]
  <2>1. j - i \in 1..(Len(s) - i + 1) /\ i + (j - i) = j /\ i + (j - i) - 1 = j - 1
    BY <1>1
  <2>2. t[i + (j - i)] = c[j - i] /\ c[j - i] = s[i + (j - i) - 1]
    BY <1>2, <1>4, <1>6, <2>1
  <2>3. QED
    BY <2>1, <2>2
<1>8. Len(t) = Len(s) + 1 /\ i \in 1..i /\ \A j \in 1..(i - 1) : j \in 1..i
  BY <1>1, <1>2, <1>4, <1>6
<1>9. QED
  BY <1>4, <1>6, <1>7, <1>8 DEF t

LEMMA RemovedIs ==
  ASSUME NEW s \in Seq(Char), NEW i \in 1..Len(s)
  PROVE  /\ RemoveAt(s, i) \in Seq(Char) /\ Len(RemoveAt(s, i)) = Len(s) - 1
         /\ \A j \in 1..(i - 1) : RemoveAt(s, i)[j] = s[j]
         /\ \A j \in i..(Len(s) - 1) : RemoveAt(s, i)[j] = s[j + 1]
<1> DEFINE a == SubSeq(s, 1, i - 1)
           c == SubSeq(s, i + 1, Len(s))
           t == RemoveAt(s, i)
<1>1. Len(s) \in Nat /\ i \in Nat /\ 1 <= i /\ i <= Len(s)
  OBVIOUS
<1>2. /\ a \in Seq(Char) /\ Len(a) = i - 1 /\ \A j \in 1..(i - 1) : a[j] = s[j]
      /\ c \in Seq(Char) /\ Len(c) = Len(s) - i
      /\ \A j \in 1..(Len(s) - i) : c[j] = s[i + j]
  BY <1>1
<1> HIDE DEF a, c
<1>3. t = a \o c
  BY DEF RemoveAt, a, c
<1> HIDE DEF t
<1>4. /\ t \in Seq(Char) /\ Len(t) = Len(a) + Len(c)
      /\ \A j \in 1..Len(a) : t[j] = a[j]
      /\ \A j \in 1..Len(c) : t[Len(a) + j] = c[j]
  BY <1>2, <1>3, ConcatIs
<1>5. ASSUME NEW j \in i..(Len(s) - 1) PROVE t[j] = s[j + 1]
  <2>1. j - (i - 1) \in 1..(Len(s) - i) /\ (i - 1) + (j - (i - 1)) = j /\ i + (j - (i - 1)) = j + 1
    BY <1>1
  <2>2. t[(i - 1) + (j - (i - 1))] = c[j - (i - 1)] /\ c[j - (i - 1)] = s[i + (j - (i - 1))]
    BY <1>2, <1>4, <2>1
  <2>3. QED
    BY <2>1, <2>2
<1>6. Len(t) = Len(s) - 1
  BY <1>1, <1>2, <1>4
<1>7. QED
  BY <1>2, <1>4, <1>5, <1>6 DEF t

LEMMA WritesAfterInsert ==
  ASSUME NEW s \in Seq(Char), NEW i \in 1..Len(s), s[i] = LF,
         NEW n, EndsAt(s, n), NEW at, NEW o \in Seq(Char), Writes(s, n, at, o)
  PROVE  \E m, bt : EndsAt(InsertAt(s, i, CR), m) /\ Writes(InsertAt(s, i, CR), m, bt, o)
<1> DEFINE t == InsertAt(s, i, CR)
<1>1. /\ t \in Seq(Char) /\ Len(t) = Len(s) + 1
      /\ \A j \in 1..(i - 1) : t[j] = s[j]
      /\ t[i] = CR
      /\ \A j \in (i + 1)..(Len(s) + 1) : t[j] = s[j - 1]
  BY InsertedIs
<1> HIDE DEF t
<1>2. /\ n \in 1..(Len(s) + 1) /\ (n = Len(s) + 1 \/ s[n] = NUL)
      /\ Len(s) \in Nat /\ n # i
  BY NotAtEnd, CharAssumption DEF EndsAt
<1>3. CASE i < n
  <2> DEFINE bt == [j \in 1..(n + 1) |-> IF j <= i THEN at[j] ELSE at[j - 1]]
  <2>1. EndsAt(t, n + 1)
    <3>1. n + 1 \in 1..(Len(t) + 1)
      BY <1>1, <1>2
    <3>2. n # Len(s) + 1 => t[n + 1] = s[n]
      <4>1. n # Len(s) + 1 => n + 1 \in (i + 1)..(Len(s) + 1) /\ (n + 1) - 1 = n
        BY <1>2, <1>3
      <4>2. QED
        BY <1>1, <4>1
    <3>3. QED
      BY <1>1, <1>2, <3>1, <3>2, NotAtEnd
  <2>2. /\ bt \in [1..(n + 1) -> Nat] /\ bt[1] = 0 /\ Len(o) = bt[n + 1]
        /\ \A j \in 1..(n + 1) : bt[j] <= Len(o)
    <3>1. /\ \A j \in 1..n : at[j] \in Nat /\ at[j] <= Len(o)
          /\ at[1] = 0 /\ Len(o) = at[n]
      BY DEF Writes
    <3>2. \A j \in 1..(n + 1) : (j <= i => j \in 1..n) /\ (~(j <= i) => j - 1 \in 1..n)
      BY <1>2, <1>3
    <3>3. bt \in [1..(n + 1) -> Nat] /\ \A j \in 1..(n + 1) : bt[j] <= Len(o)
      BY <3>1, <3>2
    <3>4. 1 \in 1..(n + 1) /\ 1 <= i /\ n + 1 \in 1..(n + 1) /\ ~(n + 1 <= i) /\ (n + 1) - 1 = n
      BY <1>2, <1>3
    <3>5. bt[1] = at[1] /\ bt[n + 1] = at[n]
      BY <3>4
    <3>6. QED
      BY <3>1, <3>3, <3>5
  <2>3. ASSUME NEW j \in 1..n
        PROVE  /\ t[j] # NUL
               /\ bt[j + 1] = bt[j] + Len(Output(t[j]))
               /\ \A k \in 1..Len(Output(t[j])) : o[bt[j] + k] = Output(t[j])[k]
    <3>1. CASE j < i
      <4>1. j \in 1..(n - 1) /\ t[j] = s[j] /\ bt[j] = at[j] /\ bt[j + 1] = at[j + 1]
        BY <1>1, <1>2, <1>3, <3>1
      <4>2. QED
        BY <4>1 DEF Writes
    <3>2. CASE j = i
      <4>1. t[j] = CR /\ bt[j] = at[i] /\ bt[j + 1] = at[i] /\ at[i] \in Nat
        BY <1>1, <1>2, <1>3, <3>2 DEF Writes
      <4>2. Output(t[j]) = <<>>
        BY <4>1 DEF Output
      <4>3. QED
        BY <4>1, <4>2, CharAssumption
    <3>3. CASE j > i
      <4>1. j - 1 \in 1..(n - 1) /\ (j + 1) - 1 = (j - 1) + 1
        BY <1>2, <1>3, <3>3
      <4>2. t[j] = s[j - 1]
        BY <1>1, <1>2, <3>3
      <4>3. bt[j] = at[j - 1] /\ bt[j + 1] = at[(j + 1) - 1]
        <5>1. j \in 1..(n + 1) /\ j + 1 \in 1..(n + 1) /\ ~(j <= i) /\ ~(j + 1 <= i)
          BY <1>2, <1>3, <3>3
        <5>2. QED
          BY <5>1
      <4>4. QED
        BY <4>1, <4>2, <4>3 DEF Writes
    <3>4. j < i \/ j = i \/ j > i
      BY <1>2
    <3>5. QED
      BY <3>1, <3>2, <3>3, <3>4
  <2> HIDE DEF bt
  <2>4. Writes(t, n + 1, bt, o)
    <3>1. (n + 1) - 1 = n
      BY <1>2
    <3>2. QED
      BY <2>2, <2>3, <3>1 DEF Writes
  <2>5. QED
    BY <2>1, <2>4 DEF t
<1>4. CASE i > n
  <2>1. n \in 1..(Len(t) + 1) /\ t[n] = NUL
    BY <1>1, <1>2, <1>4
  <2>2. EndsAt(t, n)
    BY <1>1, <2>1, NotAtEnd
  <2>3. \A j \in 1..(n - 1) : t[j] = s[j]
    BY <1>1, <1>2, <1>4
  <2>4. Writes(t, n, at, o)
    BY <2>3 DEF Writes
  <2>5. QED
    BY <2>2, <2>4 DEF t
<1>5. QED
  BY <1>2, <1>3, <1>4

LEMMA WritesAfterRemove ==
  ASSUME NEW s \in Seq(Char), NEW i \in 1..Len(s), s[i] = CR,
         NEW n, EndsAt(s, n), NEW at, NEW o \in Seq(Char), Writes(s, n, at, o)
  PROVE  \E m, bt : EndsAt(RemoveAt(s, i), m) /\ Writes(RemoveAt(s, i), m, bt, o)
<1> DEFINE t == RemoveAt(s, i)
<1>1. /\ t \in Seq(Char) /\ Len(t) = Len(s) - 1
      /\ \A j \in 1..(i - 1) : t[j] = s[j]
      /\ \A j \in i..(Len(s) - 1) : t[j] = s[j + 1]
  BY RemovedIs
<1> HIDE DEF t
<1>2. /\ n \in 1..(Len(s) + 1) /\ (n = Len(s) + 1 \/ s[n] = NUL)
      /\ Len(s) \in Nat /\ n # i
  BY NotAtEnd, CharAssumption DEF EndsAt
<1>3. CASE i < n
  <2> DEFINE bt == [j \in 1..(n - 1) |-> IF j <= i THEN at[j] ELSE at[j + 1]]
  <2>1. EndsAt(t, n - 1)
    <3>1. n - 1 \in 1..(Len(t) + 1)
      BY <1>1, <1>2, <1>3
    <3>2. n # Len(s) + 1 => t[n - 1] = s[n]
      BY <1>1, <1>2, <1>3
    <3>3. QED
      BY <1>1, <1>2, <3>1, <3>2, NotAtEnd
  <2>2. at[i + 1] = at[i]
    <3>1. i \in 1..(n - 1) /\ at[i] \in Nat
      BY <1>2, <1>3 DEF Writes
    <3>2. Output(s[i]) = <<>>
      BY DEF Output
    <3>3. QED
      BY <3>1, <3>2 DEF Writes
  <2>3. /\ bt \in [1..(n - 1) -> Nat] /\ bt[1] = 0 /\ Len(o) = bt[n - 1]
        /\ \A j \in 1..(n - 1) : bt[j] <= Len(o)
    <3>1. \A j \in 1..n : at[j] \in Nat /\ at[j] <= Len(o)
      BY DEF Writes
    <3>2. at[1] = 0 /\ Len(o) = at[n]
      BY DEF Writes
    <3>3. \A j \in 1..(n - 1) : j \in 1..n /\ j + 1 \in 1..n
      BY <1>2
    <3>4. bt \in [1..(n - 1) -> Nat] /\ \A j \in 1..(n - 1) : bt[j] <= Len(o)
      BY <3>1, <3>3
    <3>5. 1 \in 1..(n - 1) /\ 1 <= i /\ n - 1 \in 1..(n - 1)
      BY <1>2, <1>3
    <3>6. bt[1] = at[1] /\ bt[n - 1] = IF n - 1 <= i THEN at[n - 1] ELSE at[(n - 1) + 1]
      BY <3>5
    <3>7. n - 1 <= i => n - 1 = i
      BY <1>2, <1>3
    <3>8. (n - 1) + 1 = n
      BY <1>2
    <3>9. QED
      BY <2>2, <3>2, <3>4, <3>6, <3>7, <3>8
  <2>4. ASSUME NEW j \in 1..(n - 2)
        PROVE  /\ t[j] # NUL
               /\ bt[j + 1] = bt[j] + Len(Output(t[j]))
               /\ \A k \in 1..Len(Output(t[j])) : o[bt[j] + k] = Output(t[j])[k]
    <3>1. CASE j < i
      <4>1. j \in 1..(n - 1) /\ t[j] = s[j] /\ bt[j] = at[j] /\ bt[j + 1] = at[j + 1]
        BY <1>1, <1>2, <1>3, <3>1
      <4>2. QED
        BY <4>1 DEF Writes
    <3>2. CASE j >= i
      <4>1. /\ j + 1 \in 1..(n - 1) /\ t[j] = s[j + 1]
            /\ bt[j] = at[j + 1] /\ bt[j + 1] = at[(j + 1) + 1]
        <5>1. j \in Nat /\ j + 1 \in 1..(n - 1) /\ j \in 1..(n - 1) /\ j \in i..(Len(s) - 1)
          BY <1>2, <3>2
        <5>2. j + 1 > i /\ (j <= i => j = i)
          BY <3>2, <5>1
        <5>3. /\ bt[j] = IF j <= i THEN at[j] ELSE at[j + 1]
              /\ bt[j + 1] = IF j + 1 <= i THEN at[j + 1] ELSE at[(j + 1) + 1]
          BY <5>1
        <5>4. QED
          BY <1>1, <2>2, <5>1, <5>2, <5>3
      <4>2. QED
        BY <4>1 DEF Writes
    <3>3. j < i \/ j >= i
      BY <1>2
    <3>4. QED
      BY <3>1, <3>2, <3>3
  <2> HIDE DEF bt
  <2>5. Writes(t, n - 1, bt, o)
    <3>1. (n - 1) - 1 = n - 2
      BY <1>2
    <3>2. QED
      BY <2>3, <2>4, <3>1 DEF Writes
  <2>6. QED
    BY <2>1, <2>5 DEF t
<1>4. CASE i > n
  <2>1. n \in 1..(Len(t) + 1) /\ t[n] = NUL
    BY <1>1, <1>2, <1>4
  <2>2. EndsAt(t, n)
    BY <1>1, <2>1, NotAtEnd
  <2>3. \A j \in 1..(n - 1) : t[j] = s[j]
    BY <1>1, <1>2, <1>4
  <2>4. Writes(t, n, at, o)
    BY <2>3 DEF Writes
  <2>5. QED
    BY <2>2, <2>4 DEF t
<1>5. QED
  BY <1>2, <1>3, <1>4

(***************************************************************************)
(* What is in canonical form is written as it is.                          *)
(***************************************************************************)
IsCanonical(s) ==
  \A i \in DOMAIN s :
    /\ s[i] # NUL
    /\ s[i] = LF => i > 1 /\ s[i - 1] = CR
    /\ s[i] = CR => i < Len(s) /\ s[i + 1] = LF

\* Behind a CR one character less was written than was read, its LF makes up
\* for it.
LEMMA CanonicalIsWritten ==
  ASSUME NEW s \in Seq(Char), IsCanonical(s)
  PROVE  \E n, at : EndsAt(s, n) /\ Writes(s, n, at, s)
<1> DEFINE n == Len(s) + 1
           at == [i \in 1..n |-> IF i > 1 /\ s[i - 1] = CR THEN i - 2 ELSE i - 1]
<1>1. Len(s) \in Nat /\ DOMAIN s = 1..Len(s)
  OBVIOUS
<1>2. EndsAt(s, n)
  BY <1>1, NotAtEnd
<1>3. /\ at \in [1..n -> Nat] /\ at[1] = 0
      /\ \A i \in 1..n : at[i] <= Len(s)
  BY <1>1
<1>4. Len(s) = at[n]
  <2>1. n > 1 => n - 1 \in DOMAIN s /\ ~(n - 1 < Len(s))
    BY <1>1
  <2>2. ~(n > 1 /\ s[n - 1] = CR)
    BY <2>1 DEF IsCanonical
  <2>3. n \in 1..n /\ n - 1 = Len(s)
    BY <1>1
  <2>4. at[n] = IF n > 1 /\ s[n - 1] = CR THEN n - 2 ELSE n - 1
    BY <2>3
  <2>5. QED
    BY <2>2, <2>3, <2>4
<1>5. ASSUME NEW i \in 1..(n - 1)
      PROVE  /\ s[i] # NUL
             /\ at[i + 1] = at[i] + Len(Output(s[i]))
             /\ \A k \in 1..Len(Output(s[i])) : s[at[i] + k] = Output(s[i])[k]
  <2>1. i \in DOMAIN s /\ i \in 1..n /\ i + 1 \in 1..n /\ s[i] \in Char
    BY <1>1
  <2>2. /\ s[i] # NUL
        /\ s[i] = LF => i > 1 /\ s[i - 1] = CR
    BY <2>1 DEF IsCanonical
  <2>3. i > 1 /\ s[i - 1] = CR => s[i] = LF
    <3>1. i > 1 => i - 1 \in DOMAIN s /\ (i - 1) + 1 = i
      BY <1>1
    <3>2. QED
      BY <3>1 DEF IsCanonical
  <2>4. /\ at[i] = IF i > 1 /\ s[i - 1] = CR THEN i - 2 ELSE i - 1
        /\ at[i + 1] = IF s[i] = CR THEN i - 1 ELSE i
    <3>1. i + 1 > 1 /\ (i + 1) - 1 = i /\ (i + 1) - 2 = i - 1
      BY <1>1
    <3>2. QED
      BY <2>1, <3>1
  <2> HIDE DEF at
  <2>5. CASE s[i] = CR
    <3>1. at[i] = i - 1 /\ at[i + 1] = i - 1
      BY <2>3, <2>4, <2>5, CharAssumption
    <3>2. Output(s[i]) = <<>>
      BY <2>5 DEF Output
    <3>3. QED
      BY <2>2, <3>1, <3>2
  <2>6. CASE s[i] = LF
    <3>1. i > 1 /\ s[i - 1] = CR /\ at[i] = i - 2 /\ at[i + 1] = i
      BY <2>2, <2>4, <2>6, CharAssumption
    <3>2. Output(s[i]) = <<CR, LF>>
      BY <2>6, CharAssumption DEF Output, Written
    <3>3. Len(<<CR, LF>>) = 2 /\ <<CR, LF>>[1] = CR /\ <<CR, LF>>[2] = LF
      OBVIOUS
    <3>4. (i - 2) + 1 = i - 1 /\ (i - 2) + 2 = i
      BY <1>1
    <3>5. s[at[i] + 1] = CR /\ s[at[i] + 2] = LF
      BY <2>6, <3>1, <3>4
    <3>6. \A k \in 1..2 : s[at[i] + k] = <<CR, LF>>[k]
      <4>1. \A k \in 1..2 : k = 1 \/ k = 2
        OBVIOUS
      <4>2. QED
        BY <3>3, <3>5, <4>1
    <3>7. i = (i - 2) + 2
      BY <1>1
    <3>8. QED
      BY <2>2, <3>1, <3>2, <3>3, <3>6, <3>7
  <2>7. CASE s[i] # CR /\ s[i] # LF
    <3>1. at[i] = i - 1 /\ at[i + 1] = i
      BY <2>3, <2>4, <2>7
    <3>2. Output(s[i]) = <<s[i]>>
      BY <2>7 DEF Output, Written
    <3>3. Len(<<s[i]>>) = 1 /\ <<s[i]>>[1] = s[i] /\ (i - 1) + 1 = i
      BY <1>1
    <3>4. QED
      BY <2>2, <3>1, <3>2, <3>3
  <2>8. QED
    BY <2>5, <2>6, <2>7
<1> HIDE DEF at
<1>6. Writes(s, n, at, s)
  BY <1>1, <1>3, <1>4, <1>5 DEF Writes
<1>7. QED
  BY <1>2, <1>6

(***************************************************************************)
(* What is written.                                                        *)
(***************************************************************************)
\* Each step of the loop writes the output of one character.
LEMMA LoopStep ==
  ASSUME CanonTypeOK, SkipCR \/ Write
  PROVE  /\ busy /\ p \in 1..Len(str) /\ str[p] \in Char /\ str[p] # NUL
         /\ p' = p + 1 /\ out' = out \o Output(str[p])
         /\ UNCHANGED <<str, busy, signed>>
<1>1. busy /\ ~AtEnd /\ p' = p + 1 /\ UNCHANGED <<str, busy, signed>>
  BY DEF SkipCR, Write
<1>2. p \in 1..Len(str) /\ str[p] \in Char /\ str[p] # NUL
  <2>1. str \in Seq(Char) /\ p \in 1..(Len(str) + 1) /\ ~EndsAt(str, p)
    BY <1>1 DEF CanonTypeOK, AtEnd, EndsAt
  <2>2. p # Len(str) + 1 /\ str[p] # NUL
    BY <2>1, NotAtEnd
  <2>3. QED
    BY <2>1, <2>2
<1>3. out' = out \o Output(str[p])
  <2>1. CASE SkipCR
    <3>1. str[p] = CR /\ out' = out /\ out \in Seq(Char)
      BY <2>1 DEF SkipCR, CanonTypeOK
    <3>2. Output(str[p]) = <<>>
      BY <3>1 DEF Output
    <3>3. QED
      BY <3>1, <3>2
  <2>2. CASE Write
    BY <2>2 DEF Write, Output
  <2>3. QED
    BY <2>1, <2>2
<1>4. QED
  BY <1>1, <1>2, <1>3

\* A run after the first one has written so far what o begins with, and o is
\* what it comes to.
Agrees(o) ==
  \E n, at :
    /\ EndsAt(str, n) /\ Writes(str, n, at, o)
    /\ p <= n /\ Len(out) = at[p]
    /\ \A k \in 1..Len(out) : out[k] = o[k]

SignedInv ==
  /\ signed = {} => busy /\ \E at : Writes(str, p, at, out)
  /\ signed # {} => \E o \in Seq(Char) : signed = {o} /\ Agrees(o)
  /\ ~busy => signed # {} /\ AtEnd

LEMMA SignedInit == CanonInit => SignedInv
<1> SUFFICES ASSUME CanonInit PROVE SignedInv
  OBVIOUS
<1> DEFINE at == [i \in 1..1 |-> 0]
<1>1. p = 1 /\ out = <<>> /\ busy = TRUE /\ signed = {}
  BY DEF CanonInit
<1>2. Writes(str, 1, at, <<>>)
  BY DEF Writes
<1>3. QED
  BY <1>1, <1>2 DEF SignedInv

LEMMA SignedLoop ==
  ASSUME CanonTypeOK, SignedInv, SkipCR \/ Write
  PROVE  SignedInv'
<1>1. /\ busy /\ p \in 1..Len(str) /\ str[p] \in Char /\ str[p] # NUL
      /\ p' = p + 1 /\ out' = out \o Output(str[p])
      /\ UNCHANGED <<str, busy, signed>>
  BY LoopStep
<1>2. str \in Seq(Char) /\ out \in Seq(Char) /\ Len(str) \in Nat
  BY DEF CanonTypeOK
<1>3. CASE signed = {}
  <2>1. PICK at : Writes(str, p, at, out)
    BY <1>3 DEF SignedInv
  <2>2. \E bt : Writes(str, p + 1, bt, out \o Output(str[p]))
    BY <1>1, <1>2, <2>1, WritesOneMore
  <2>3. QED
    BY <1>1, <1>3, <2>2 DEF SignedInv
<1>4. CASE signed # {}
  <2>1. PICK o \in Seq(Char) : signed = {o} /\ Agrees(o)
    BY <1>4 DEF SignedInv
  <2>2. PICK n, at :
          /\ EndsAt(str, n) /\ Writes(str, n, at, o)
          /\ p <= n /\ Len(out) = at[p]
          /\ \A k \in 1..Len(out) : out[k] = o[k]
    BY <2>1 DEF Agrees
  <2>3. n \in 1..(Len(str) + 1) /\ (n = Len(str) + 1 \/ str[n] = NUL)
    BY <1>2, <2>2, NotAtEnd DEF EndsAt
  <2>4. p \in 1..(n - 1) /\ p + 1 <= n
    BY <1>1, <1>2, <2>2, <2>3
  <2>5. /\ Len(out \o Output(str[p])) = at[p + 1]
        /\ \A k \in 1..Len(out \o Output(str[p])) : (out \o Output(str[p]))[k] = o[k]
    BY <1>2, <2>2, <2>3, <2>4, CatchesUp
  <2>6. Agrees(o)'
    BY <1>1, <2>2, <2>4, <2>5 DEF Agrees
  <2>7. QED
    BY <1>1, <2>1, <2>6 DEF SignedInv
<1>5. QED
  BY <1>3, <1>4

LEMMA SignedReturn ==
  ASSUME CanonTypeOK, SignedInv, Return
  PROVE  SignedInv'
<1>1. /\ busy /\ AtEnd /\ ~busy' /\ signed' = IF signed = {} THEN {out} ELSE signed
      /\ UNCHANGED <<str, p, out>>
  BY DEF Return
<1>2. AtEnd'
  BY <1>1 DEF AtEnd
<1>3. CASE signed = {}
  <2>1. PICK at : Writes(str, p, at, out)
    BY <1>3 DEF SignedInv
  <2>2. EndsAt(str, p) /\ p <= p /\ Len(out) = at[p] /\ out \in Seq(Char)
    BY <1>1, <2>1 DEF CanonTypeOK, EndsAt, AtEnd, Writes
  <2>3. Agrees(out)
    BY <2>1, <2>2 DEF Agrees
  <2>4. Agrees(out)'
    BY <1>1, <2>3 DEF Agrees
  <2>5. QED
    BY <1>1, <1>2, <1>3, <2>2, <2>4 DEF SignedInv
<1>4. CASE signed # {}
  <2>1. PICK o \in Seq(Char) : signed = {o} /\ Agrees(o)
    BY <1>4 DEF SignedInv
  <2>2. Agrees(o)'
    BY <1>1, <2>1 DEF Agrees
  <2>3. QED
    BY <1>1, <1>2, <1>4, <2>1, <2>2 DEF SignedInv
<1>5. QED
  BY <1>3, <1>4

LEMMA SignedCarry ==
  ASSUME CanonTypeOK, SignedInv, NEW i \in DOMAIN str, Carry(i)
  PROVE  SignedInv'
<1>1. /\ ~busy /\ str[i] = LF /\ str' \in OtherEnd(i)
      /\ p' = 1 /\ out' = <<>> /\ busy' /\ UNCHANGED signed
  BY DEF Carry
<1>2. str \in Seq(Char) /\ i \in 1..Len(str) /\ Len(str) \in Nat
  BY DEF CanonTypeOK
<1>3. PICK o \in Seq(Char) : signed = {o} /\ Agrees(o)
  BY <1>1 DEF SignedInv
<1>4. PICK n, at : EndsAt(str, n) /\ Writes(str, n, at, o)
  BY <1>3 DEF Agrees
<1>5. \E m, bt : EndsAt(str', m) /\ Writes(str', m, bt, o)
  <2>1. CASE str' = InsertAt(str, i, CR)
    BY <1>1, <1>2, <1>4, <2>1, WritesAfterInsert
  <2>2. CASE \E j \in {i - 1} : j > 0 /\ str[j] = CR /\ str' = RemoveAt(str, j)
    <3>1. i - 1 \in 1..Len(str) /\ str[i - 1] = CR /\ str' = RemoveAt(str, i - 1)
      BY <1>2, <2>2
    <3>2. QED
      BY <1>2, <1>4, <3>1, WritesAfterRemove
  <2>3. QED
    BY <1>1, <2>1, <2>2 DEF OtherEnd
<1>6. PICK m, bt : EndsAt(str', m) /\ Writes(str', m, bt, o)
  BY <1>5
<1>7. 1 <= m /\ bt[1] = 0
  BY <1>6 DEF EndsAt, Writes
<1>8. Agrees(o)'
  BY <1>1, <1>6, <1>7 DEF Agrees
<1>9. QED
  BY <1>1, <1>3, <1>8 DEF SignedInv

LEMMA SignedUnchanged ==
  ASSUME SignedInv, UNCHANGED canonVars
  PROVE  SignedInv'
BY DEF SignedInv, Agrees, AtEnd, canonVars

\* A run that has come to the end has written all of it.
LEMMA RunIsComplete ==
  ASSUME CanonTypeOK, SignedInv, ~busy
  PROVE  signed = {out}
<1>1. AtEnd
  BY DEF SignedInv
<1>2. PICK o \in Seq(Char) : signed = {o} /\ Agrees(o)
  BY DEF SignedInv
<1>3. PICK n, at :
        /\ EndsAt(str, n) /\ Writes(str, n, at, o)
        /\ p <= n /\ Len(out) = at[p]
        /\ \A k \in 1..Len(out) : out[k] = o[k]
  BY <1>2 DEF Agrees
<1>4. /\ str \in Seq(Char) /\ p \in 1..(Len(str) + 1) /\ out \in Seq(Char)
      /\ Len(str) \in Nat /\ n \in 1..(Len(str) + 1)
  BY <1>3 DEF CanonTypeOK, EndsAt
<1>5. p = Len(str) + 1 \/ str[p] = NUL
  BY <1>1, <1>4, NotAtEnd DEF EndsAt, AtEnd
<1>6. p = n
  <2>1. p < n => p \in 1..(n - 1) /\ p # Len(str) + 1
    BY <1>4
  <2>2. \A j \in 1..(n - 1) : str[j] # NUL
    BY <1>3 DEF Writes
  <2>3. QED
    BY <1>3, <1>4, <1>5, <2>1, <2>2
<1>7. Len(out) = Len(o)
  BY <1>3, <1>6 DEF Writes
<1>8. out = o
  BY <1>3, <1>4, <1>7, SeqEqual
<1>9. QED
  BY <1>2, <1>8

\* What was signed or verified, and is canonicalised again, is the same.
LEMMA SignedSend ==
  ASSUME CanonTypeOK, CanonicalForm, SignedInv, Send
  PROVE  SignedInv'
<1>1. ~busy /\ str' = out /\ p' = 1 /\ out' = <<>> /\ busy' /\ UNCHANGED signed
  BY DEF Send
<1>2. signed = {out} /\ out \in Seq(Char)
  BY <1>1, RunIsComplete DEF CanonTypeOK
<1>3. PICK n, at : EndsAt(out, n) /\ Writes(out, n, at, out)
  BY <1>2, CanonicalIsWritten DEF CanonicalForm, IsCanonical
<1>4. 1 <= n /\ at[1] = 0
  BY <1>3 DEF EndsAt, Writes
<1>5. ASSUME NEW o, o = out PROVE Agrees(o)'
  BY <1>1, <1>3, <1>4, <1>5 DEF Agrees
<1>6. QED
  BY <1>1, <1>2, <1>5 DEF SignedInv

(***************************************************************************)
(* What is kept.                                                           *)
(***************************************************************************)
LEMMA KeptOfNothing == ASSUME NEW s \in Seq(Char) PROVE Kept(s)[0] = <<>>
<1>1. 0 \in 0..Len(s)
  OBVIOUS
<1>2. QED
  BY <1>1, KeptIs DEF KeptUpTo

LEMMA KeptNext ==
  ASSUME NEW s \in Seq(Char), NEW n \in 1..Len(s)
  PROVE  Kept(s)[n] = IF s[n] = CR THEN Kept(s)[n - 1] ELSE Append(Kept(s)[n - 1], s[n])
<1>1. n \in 0..Len(s) /\ n # 0
  OBVIOUS
<1>2. QED
  BY <1>1, KeptIs DEF KeptUpTo

LEMMA KeptOfLast ==
  ASSUME NEW s \in Seq(Char), NEW c \in Char
  PROVE  /\ s \o <<c>> \in Seq(Char) /\ Len(s \o <<c>>) = Len(s) + 1
         /\ Kept(s \o <<c>>)[Len(s) + 1] =
              IF c = CR THEN Kept(s)[Len(s)] ELSE Append(Kept(s)[Len(s)], c)
<1> DEFINE t == s \o <<c>>
<1>1. <<c>> \in Seq(Char) /\ Len(<<c>>) = 1 /\ <<c>>[1] = c /\ 1 \in 1..1 /\ Len(s) \in Nat
  OBVIOUS
<1>2. /\ t \in Seq(Char) /\ Len(t) = Len(s) + 1
      /\ \A n \in 1..Len(s) : t[n] = s[n]
      /\ t[Len(s) + 1] = c
  BY <1>1, ConcatIs
<1> HIDE DEF t
<1>3. Len(s) <= Len(t) /\ Len(s) + 1 \in 1..Len(t) /\ (Len(s) + 1) - 1 = Len(s) /\ Len(s) \in 0..Len(s)
  BY <1>1, <1>2
<1>4. Kept(s)[Len(s)] = Kept(t)[Len(s)]
  BY <1>2, <1>3, KeptOfPrefix
<1>5. Kept(t)[Len(s) + 1] = IF c = CR THEN Kept(t)[Len(s)] ELSE Append(Kept(t)[Len(s)], c)
  <2>1. Kept(t)[Len(s) + 1] =
          IF t[Len(s) + 1] = CR THEN Kept(t)[(Len(s) + 1) - 1]
          ELSE Append(Kept(t)[(Len(s) + 1) - 1], t[Len(s) + 1])
    BY <1>2, <1>3, KeptNext
  <2>2. QED
    BY <1>2, <1>3, <2>1
<1>6. QED
  BY <1>2, <1>4, <1>5 DEF t

\* What is written of a character says what the character says.
LEMMA KeptOfOutput ==
  ASSUME NEW s \in Seq(Char), NEW c \in Char
  PROVE  Kept(s \o Output(c))[Len(s \o Output(c))] =
           IF c = CR THEN Kept(s)[Len(s)] ELSE Append(Kept(s)[Len(s)], c)
<1>1. CASE c = CR
  <2>1. s \o Output(c) = s
    BY <1>1 DEF Output
  <2>2. QED
    BY <1>1, <2>1
<1>2. CASE c = LF
  <2> DEFINE t == s \o <<CR>>
  <2>1. CR \in Char /\ LF \in Char /\ CR # LF
    BY CharAssumption
  <2>2. t \in Seq(Char) /\ Len(t) = Len(s) + 1 /\ Kept(t)[Len(s) + 1] = Kept(s)[Len(s)]
    BY <2>1, KeptOfLast
  <2>3. s \o Output(c) = t \o <<LF>>
    <3>1. Output(c) = <<CR>> \o <<LF>>
      <4>1. Output(c) = <<CR, LF>>
        BY <1>2, <2>1 DEF Output, Written
      <4>2. <<CR>> \o <<LF>> = <<CR, LF>>
        <5>1. <<CR>> \in Seq(Char) /\ <<LF>> \in Seq(Char) /\ <<CR, LF>> \in Seq(Char)
          BY <2>1
        <5>2. Len(<<CR>>) = 1 /\ Len(<<LF>>) = 1 /\ <<CR>>[1] = CR /\ <<LF>>[1] = LF
          OBVIOUS
        <5>3. /\ Len(<<CR>> \o <<LF>>) = 2
              /\ (<<CR>> \o <<LF>>)[1] = CR /\ (<<CR>> \o <<LF>>)[2] = LF
              /\ <<CR>> \o <<LF>> \in Seq(Char)
          BY <5>1, <5>2, ConcatIs
        <5>4. Len(<<CR, LF>>) = 2 /\ <<CR, LF>>[1] = CR /\ <<CR, LF>>[2] = LF
          OBVIOUS
        <5>5. \A k \in 1..2 : (<<CR>> \o <<LF>>)[k] = <<CR, LF>>[k]
          BY <5>3, <5>4
        <5>6. QED
          BY <5>1, <5>3, <5>4, <5>5, SeqEqual
      <4>3. QED
        BY <4>1, <4>2
    <3>2. <<CR>> \in Seq(Char) /\ <<LF>> \in Seq(Char)
      BY <2>1
    <3>3. s \o (<<CR>> \o <<LF>>) = (s \o <<CR>>) \o <<LF>>
      BY <3>2, ConcatAssociative
    <3>4. QED
      BY <3>1, <3>3
  <2> HIDE DEF t
  <2>4. /\ Len(t \o <<LF>>) = Len(t) + 1
        /\ Kept(t \o <<LF>>)[Len(t) + 1] = Append(Kept(t)[Len(t)], LF)
    BY <2>1, <2>2, KeptOfLast
  <2>5. QED
    BY <1>2, <2>1, <2>2, <2>3, <2>4
<1>3. CASE c # CR /\ c # LF
  <2>1. Output(c) = <<c>>
    BY <1>3 DEF Output, Written
  <2>2. QED
    BY <1>3, <2>1, KeptOfLast
<1>4. QED
  BY <1>1, <1>2, <1>3

LEMMA LinesStep ==
  ASSUME CanonTypeOK, CanonTypeOK', LinesAreKept, [CanonNext]_canonVars
  PROVE  LinesAreKept'
<1>1. CASE SkipCR \/ Write
  <2>1. /\ p \in 1..Len(str) /\ str[p] \in Char
        /\ p' = p + 1 /\ out' = out \o Output(str[p]) /\ str' = str
    BY <1>1, LoopStep
  <2>2. str \in Seq(Char) /\ out \in Seq(Char)
    BY DEF CanonTypeOK
  <2>3. Kept(out')[Len(out')] =
          IF str[p] = CR THEN Kept(out)[Len(out)] ELSE Append(Kept(out)[Len(out)], str[p])
    BY <2>1, <2>2, KeptOfOutput
  <2>4. Kept(str)[p] = IF str[p] = CR THEN Kept(str)[p - 1] ELSE Append(Kept(str)[p - 1], str[p])
    BY <2>1, <2>2, KeptNext
  <2>5. p' - 1 = p
    BY <2>1
  <2>6. QED
    BY <2>1, <2>3, <2>4, <2>5 DEF LinesAreKept
<1>2. CASE Return \/ UNCHANGED canonVars
  BY <1>2 DEF Return, LinesAreKept, canonVars
<1>3. CASE (\E i \in DOMAIN str : Carry(i)) \/ Send
  <2>1. p' = 1 /\ out' = <<>> /\ str' \in Seq(Char)
    BY <1>3 DEF Carry, Send, CanonTypeOK
  <2>2. Len(<<>>) = 0 /\ p' - 1 = 0 /\ <<>> \in Seq(Char)
    BY <2>1
  <2>3. QED
    BY <2>1, <2>2, KeptOfNothing DEF LinesAreKept
<1>4. QED
  BY <1>1, <1>2, <1>3 DEF CanonNext

(***************************************************************************)
(* The form of what is written.                                            *)
(***************************************************************************)
LEMMA WrittenIs ==
  ASSUME NEW c \in Char
  PROVE  Written(c) \in Seq(Char)
BY CharAssumption DEF Written

LEMMA CanonTypeInit == CanonInit => CanonTypeOK
BY CharAssumption DEF CanonInit, CanonTypeOK

\* The canonical form is kept character by character.
LEMMA FormStep ==
  ASSUME CanonTypeOK, CanonicalForm, Write
  PROVE  CanonicalForm' /\ out' \in Seq(Char)
<1>1. /\ p \in DOMAIN str /\ str[p] \in Char /\ str[p] # NUL /\ str[p] # CR
      /\ out' = out \o Written(str[p])
  BY CharAssumption DEF Write, AtEnd, CanonTypeOK
<1>2. out \in Seq(Char) /\ Len(out) \in Nat /\ DOMAIN out = 1..Len(out)
  BY DEF CanonTypeOK
<1>3. CASE str[p] = LF
  <2>1. out' = out \o <<CR, LF>> /\ <<CR, LF>> \in Seq(Char)
    BY <1>1, <1>3, CharAssumption DEF Written
  <2>2. /\ out' \in Seq(Char) /\ Len(out') = Len(out) + 2
        /\ \A i \in 1..Len(out) : out'[i] = out[i]
        /\ out'[Len(out) + 1] = CR /\ out'[Len(out) + 2] = LF
    BY <1>2, <2>1
  <2>3. DOMAIN out' = 1..(Len(out) + 2)
    BY <2>2
  <2>4. ASSUME NEW i \in DOMAIN out'
        PROVE  /\ out'[i] # NUL
               /\ out'[i] = LF => i > 1 /\ out'[i - 1] = CR
               /\ out'[i] = CR => i < Len(out') /\ out'[i + 1] = LF
    <3>1. CASE i \in 1..Len(out)
      <4>1. /\ out[i] # NUL
            /\ out[i] = LF => i > 1 /\ out[i - 1] = CR
            /\ out[i] = CR => i < Len(out) /\ out[i + 1] = LF
        BY <1>2, <3>1 DEF CanonicalForm
      <4>2. (i > 1 => i - 1 \in 1..Len(out)) /\ (i < Len(out) => i + 1 \in 1..Len(out))
        BY <1>2, <3>1
      <4>3. QED
        BY <1>2, <2>2, <3>1, <4>1, <4>2
    <3>2. CASE i = Len(out) + 1 \/ i = Len(out) + 2
      BY <1>2, <2>2, <3>2, CharAssumption
    <3>3. QED
      BY <1>2, <2>3, <3>1, <3>2
  <2>5. QED
    BY <2>2, <2>4 DEF CanonicalForm
<1>4. CASE str[p] # LF
  <2>1. out' = out \o <<str[p]>>
    BY <1>1, <1>4 DEF Written
  <2>2. /\ out' \in Seq(Char) /\ Len(out') = Len(out) + 1
        /\ \A i \in 1..Len(out) : out'[i] = out[i]
        /\ out'[Len(out) + 1] = str[p]
    BY <1>1, <1>2, <2>1
  <2>3. DOMAIN out' = 1..(Len(out) + 1)
    BY <2>2
  <2>4. ASSUME NEW i \in DOMAIN out'
        PROVE  /\ out'[i] # NUL
               /\ out'[i] = LF => i > 1 /\ out'[i - 1] = CR
               /\ out'[i] = CR => i < Len(out') /\ out'[i + 1] = LF
    <3>1. CASE i \in 1..Len(out)
      <4>1. /\ out[i] # NUL
            /\ out[i] = LF => i > 1 /\ out[i - 1] = CR
            /\ out[i] = CR => i < Len(out) /\ out[i + 1] = LF
        BY <1>2, <3>1 DEF CanonicalForm
      <4>2. (i > 1 => i - 1 \in 1..Len(out)) /\ (i < Len(out) => i + 1 \in 1..Len(out))
        BY <1>2, <3>1
      <4>3. QED
        BY <1>2, <2>2, <3>1, <4>1, <4>2
    <3>2. CASE i = Len(out) + 1
      BY <1>1, <1>4, <2>2, <3>2
    <3>3. QED
      BY <1>2, <2>3, <3>1, <3>2
  <2>5. QED
    BY <2>2, <2>4 DEF CanonicalForm
<1>5. QED
  BY <1>3, <1>4

\* A server's change is one of a text.
LEMMA CarriedIs ==
  ASSUME CanonTypeOK, NEW i \in DOMAIN str, Carry(i)
  PROVE  str' \in Seq(Char)
<1>1. CASE str' = InsertAt(str, i, CR)
  BY <1>1, CharAssumption DEF CanonTypeOK, InsertAt
<1>2. CASE \E j \in {i - 1} : j > 0 /\ str' = RemoveAt(str, j)
  BY <1>2 DEF CanonTypeOK, RemoveAt
<1>3. QED
  BY <1>1, <1>2 DEF Carry, OtherEnd

(***************************************************************************)
(* The inductive invariant, and what follows from it.                      *)
(***************************************************************************)
CanonInv == CanonTypeOK /\ CanonicalForm /\ SignedInv /\ LinesAreKept

LEMMA CanonTypeStep ==
  CanonTypeOK /\ CanonicalForm /\ [CanonNext]_canonVars => CanonTypeOK' /\ CanonicalForm'
<1> SUFFICES ASSUME CanonTypeOK, CanonicalForm, [CanonNext]_canonVars
             PROVE  CanonTypeOK' /\ CanonicalForm'
  OBVIOUS
<1>1. p \in Nat /\ Len(str) \in Nat /\ (~AtEnd => p + 1 \in 1..(Len(str) + 1))
  BY CharAssumption DEF CanonTypeOK, AtEnd
<1>2. CASE SkipCR
  BY <1>1, <1>2 DEF SkipCR, CanonTypeOK, CanonicalForm
<1>3. CASE Write
  BY <1>1, <1>3, FormStep DEF Write, CanonTypeOK
<1>4. CASE Return
  BY <1>4 DEF Return, CanonTypeOK, CanonicalForm
<1>5. CASE \E i \in DOMAIN str : Carry(i)
  BY <1>5, CarriedIs DEF Carry, CanonTypeOK, CanonicalForm
<1>6. CASE Send
  BY <1>6 DEF Send, CanonTypeOK, CanonicalForm
<1>7. CASE UNCHANGED canonVars
  BY <1>7 DEF canonVars, CanonTypeOK, CanonicalForm
<1>8. QED
  BY <1>2, <1>3, <1>4, <1>5, <1>6, <1>7 DEF CanonNext

LEMMA SignedStep ==
  CanonTypeOK /\ CanonicalForm /\ SignedInv /\ [CanonNext]_canonVars => SignedInv'
<1> SUFFICES ASSUME CanonTypeOK, CanonicalForm, SignedInv, [CanonNext]_canonVars
             PROVE  SignedInv'
  OBVIOUS
<1>1. CASE SkipCR \/ Write
  BY <1>1, SignedLoop
<1>2. CASE Return
  BY <1>2, SignedReturn
<1>3. CASE \E i \in DOMAIN str : Carry(i)
  BY <1>3, SignedCarry
<1>4. CASE Send
  BY <1>4, SignedSend
<1>5. CASE UNCHANGED canonVars
  BY <1>5, SignedUnchanged
<1>6. QED
  BY <1>1, <1>2, <1>3, <1>4, <1>5 DEF CanonNext

LEMMA CanonInvHolds == CanonSpec => []CanonInv
<1>1. CanonInit => CanonInv
  <2> SUFFICES ASSUME CanonInit PROVE CanonInv
    OBVIOUS
  <2>1. str \in Seq(Char) /\ p = 1 /\ out = <<>>
    BY CharAssumption DEF CanonInit
  <2>2. LinesAreKept
    <3>1. Len(<<>>) = 0 /\ p - 1 = 0 /\ <<>> \in Seq(Char)
      BY <2>1
    <3>2. QED
      BY <2>1, <3>1, KeptOfNothing DEF LinesAreKept
  <2>3. CanonicalForm
    BY <2>1 DEF CanonicalForm
  <2>4. QED
    BY <2>2, <2>3, CanonTypeInit, SignedInit DEF CanonInv
<1>2. CanonInv /\ [CanonNext]_canonVars => CanonInv'
  BY CanonTypeStep, SignedStep, LinesStep DEF CanonInv
<1>3. QED
  BY <1>1, <1>2, PTL DEF CanonSpec

\* Every variable has its type, whatever the text.
THEOREM CanonTyped == CanonSpec => []CanonTypeOK
<1>1. CanonInv => CanonTypeOK
  BY DEF CanonInv
<1>2. QED
  BY <1>1, CanonInvHolds, PTL

\* What is signed, and what is verified, has no line end but CR LF.
THEOREM OnlyCanonicalIsWritten == CanonSpec => []CanonicalForm
<1>1. CanonInv => CanonicalForm
  BY DEF CanonInv
<1>2. QED
  BY <1>1, CanonInvHolds, PTL

\* However often, and wherever, servers write or drop the CR of a line end,
\* canonicalizeStr returns for the text what it returned when it was signed.
THEOREM WhatWasSignedIsVerified == CanonSpec => []VerifiesWhatWasSigned
<1>1. CanonInv => VerifiesWhatWasSigned
  BY RunIsComplete DEF CanonInv, VerifiesWhatWasSigned
<1>2. QED
  BY <1>1, CanonInvHolds, PTL

\* canonicalizeStr writes every character it has passed, in order, but the CRs,
\* and adds nothing but CRs.
THEOREM NothingElseIsLost == CanonSpec => []LinesAreKept
<1>1. CanonInv => LinesAreKept
  BY DEF CanonInv
<1>2. QED
  BY <1>1, CanonInvHolds, PTL
=============================================================================
