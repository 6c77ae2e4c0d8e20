---------------------------- MODULE CommonLemmas ----------------------------
(***************************************************************************)
(* Lemmas that several proofs need, about data and not about any state:    *)
(* natural numbers and induction over them, remainders, sequences after an *)
(* insertion or a removal, rings, stacks and histories, binary search, and *)
(* what the operators of PacketListOps and Recency return.                 *)
(***************************************************************************)
EXTENDS PacketListOps, Recency, Integers, FiniteSets, SequenceTheorems, FiniteSetTheorems,
        WellFoundedInduction, TLAPS

(***************************************************************************)
(* Natural numbers.                                                        *)
(***************************************************************************)
\* The least element of a set of natural numbers exists and is what Min chooses.
LEMMA MinOfNats ==
  ASSUME NEW S \in SUBSET Nat, S # {}
  PROVE  Min(S) \in S /\ \A x \in S : Min(S) <= x
<1> DEFINE R == {pair \in Nat \X Nat : pair[1] < pair[2]}
<1>1. IsWellFoundedOn(R, Nat)
  <2>1. OpToRel(<, Nat) = R
    BY DEF OpToRel
  <2> QED BY <2>1, NatLessThanWellFounded
<1>2. PICK n \in S : \A x \in S : ~(<<x, n>> \in R)
  <2> HIDE DEF R
  <2> QED BY <1>1, WFMin
<1>3. \A x, y \in Nat : x < y => <<x, y>> \in R
  OBVIOUS
<1> HIDE DEF R
<1>4. ASSUME NEW x \in S PROVE n <= x
  <2>1. x \in Nat /\ n \in Nat
    OBVIOUS
  <2>2. ~(x < n)
    BY <2>1, <1>2, <1>3
  <2> QED BY <2>1, <2>2
<1> QED BY <1>4 DEF Min

\* Induction: a set of natural numbers that holds 0 and every successor holds them all.
LEMMA NatSetInduction ==
  ASSUME NEW S, 0 \in S, \A n \in Nat : n \in S => n + 1 \in S
  PROVE  \A n \in Nat : n \in S
<1> DEFINE T == Nat \ S
<1>1. SUFFICES ASSUME T # {} PROVE FALSE
  BY <1>1
<1>2. Min(T) \in T /\ \A x \in T : Min(T) <= x
  BY <1>1, MinOfNats
<1> DEFINE m == Min(T)
<1> HIDE DEF m
<1>3. m \in Nat /\ m \notin S /\ \A x \in Nat : x \notin S => m <= x
  BY <1>2 DEF m
<1>4. m # 0
  BY <1>3
<1>5. m - 1 \in Nat /\ m - 1 \in S
  BY <1>3, <1>4
<1>6. (m - 1) + 1 \in S
  BY <1>5
<1>7. (m - 1) + 1 = m
  BY <1>3
<1> QED BY <1>3, <1>6, <1>7

\* A sequence of values each of which is made from the one before.
Iterates(g, first, step, n) == g[0] = first /\ \A i \in 1..n : g[i] = step[i][g[i - 1]]

\* A recursion over 0..n exists: every state of D has a next one in D.
LEMMA RecursionExists ==
  ASSUME NEW n \in Nat, NEW D, NEW first \in D, NEW step \in [1..n -> [D -> D]]
  PROVE  \E g \in [0..n -> D] : Iterates(g, first, step, n)
<1> USE DEF Iterates
<1> DEFINE Upto(m) == \E g \in [0..m -> D] : g[0] = first /\ \A i \in 1..m : g[i] = step[i][g[i - 1]]
           S == {m \in Nat : m <= n => Upto(m)}
<1>1. Upto(0)
  <2> DEFINE g == [i \in 0..0 |-> first]
  <2>1. g \in [0..0 -> D] /\ g[0] = first
    OBVIOUS
  <2>2. \A i \in 1..0 : FALSE
    OBVIOUS
  <2> HIDE DEF g
  <2> QED BY <2>1, <2>2
<1>2. ASSUME NEW m \in Nat, m \in S, m + 1 <= n PROVE Upto(m + 1)
  <2>1. PICK g \in [0..m -> D] : g[0] = first /\ \A i \in 1..m : g[i] = step[i][g[i - 1]]
    BY <1>2
  <2> DEFINE h == [i \in 0..(m + 1) |-> IF i = m + 1 THEN step[m + 1][g[m]] ELSE g[i]]
  <2>2. g[m] \in D /\ m + 1 \in 1..n
    BY <1>2
  <2>3. step[m + 1][g[m]] \in D
    BY <2>2
  <2>4. h \in [0..(m + 1) -> D]
    <3>1. ASSUME NEW i \in 0..(m + 1), i # m + 1 PROVE i \in 0..m
      BY <3>1
    <3> QED BY <2>3, <3>1
  <2>5. h[0] = first
    BY <2>1
  <2>6. ASSUME NEW i \in 1..(m + 1) PROVE h[i] = step[i][h[i - 1]]
    <3>1. CASE i = m + 1
      <4>1. i - 1 = m /\ i - 1 \in 0..(m + 1) /\ i - 1 # m + 1
        BY <3>1
      <4> QED BY <3>1, <4>1
    <3>2. CASE i # m + 1
      <4>1. i \in 1..m /\ i - 1 \in 0..(m + 1) /\ i - 1 # m + 1
        BY <3>2
      <4> QED BY <3>2, <4>1, <2>1
    <3> QED BY <3>1, <3>2
  <2> HIDE DEF h
  <2> QED BY <2>4, <2>5, <2>6
<1> HIDE DEF Upto
<1>3. 0 \in S
  BY <1>1
<1>4. ASSUME NEW m \in Nat, m \in S PROVE m + 1 \in S
  BY <1>2, <1>4
<1> HIDE DEF S
<1>5. n \in S
  BY <1>3, <1>4, NatSetInduction
<1> QED BY <1>5 DEF S, Upto

-----------------------------------------------------------------------------
(***************************************************************************)
(* Remainders.                                                             *)
(***************************************************************************)

\* Quotient and remainder.
LEMMA Division ==
  ASSUME NEW n \in Nat \ {0}, NEW a \in Nat
  PROVE  a \div n \in Nat /\ a % n \in 0..(n - 1) /\ a = (n * (a \div n)) + (a % n)
OBVIOUS

\* A multiple is as far from zero as its factor says.
LEMMA Multiple ==
  ASSUME NEW n \in Nat \ {0}, NEW q \in Int
  PROVE  /\ q >= 1 => n * q >= n
         /\ q >= 2 => n * q >= 2 * n
         /\ q <= -1 => n * q <= -n
         /\ q = 0 => n * q = 0
OBVIOUS

\* The remainder of a number below n, and of the same number one round later.
LEMMA RemainderOf ==
  ASSUME NEW n \in Nat \ {0}, NEW r \in 0..(n - 1)
  PROVE  r % n = r /\ (n + r) % n = r
OBVIOUS

\* Of two numbers less than n apart the remainders give the distance, in both directions.
LEMMA Difference ==
  ASSUME NEW n \in Nat \ {0}, NEW a \in Nat, NEW b \in Nat, b <= a, a - b < n
  PROVE  (n + (a % n) - (b % n)) % n = a - b /\ (n + (b % n) - (a % n)) % n = IF a = b THEN 0 ELSE n - (a - b)
<1> DEFINE q == a \div n  p == b \div n  r == a % n  s == b % n
<1>1. /\ q \in Nat /\ p \in Nat /\ r \in 0..(n - 1) /\ s \in 0..(n - 1)
      /\ a = n * q + r /\ b = n * p + s
  BY Division
<1> HIDE DEF q, p, r, s
<1>2. a - b = n * (q - p) + (r - s)
  BY <1>1
<1>3. q - p \in {0, 1}
  <2>1. q - p < 2
    BY <1>1, <1>2, Multiple
  <2>2. q - p > -1
    BY <1>1, <1>2, Multiple
  <2> QED BY <2>1, <2>2, <1>1
<1> DEFINE x == a - b
<1>4. x \in 0..(n - 1)
  OBVIOUS
<1>5. CASE q - p = 0
  <2>1. n * (q - p) = 0
    BY <1>5, <1>1, Multiple
  <2>2. r - s = x
    BY <2>1, <1>2, <1>1
  <2>3. (n + r - s) % n = x
    <3>1. n + r - s = n + x
      BY <2>2, <1>1
    <3> QED BY <3>1, <1>4, RemainderOf
  <2>4. (n + s - r) % n = IF a = b THEN 0 ELSE n - x
    <3>1. CASE a = b
      <4>1. n + s - r = n + 0
        BY <2>2, <1>1, <3>1
      <4> QED BY <4>1, <3>1, RemainderOf
    <3>2. CASE a # b
      <4>1. n + s - r = n - x /\ n - x \in 0..(n - 1)
        BY <2>2, <1>1, <1>4, <3>2
      <4> QED BY <4>1, <3>2, RemainderOf
    <3> QED BY <3>1, <3>2
  <2> QED BY <2>3, <2>4 DEF r, s
<1>6. CASE q - p = 1
  <2>1. n * (q - p) = n
    BY <1>6, <1>1
  <2>2. r - s = x - n
    BY <2>1, <1>2, <1>1
  <2>3. (n + r - s) % n = x
    <3>1. n + r - s = x
      BY <2>2, <1>1
    <3> QED BY <3>1, <1>4, RemainderOf
  <2>4. (n + s - r) % n = n - x /\ a # b
    <3>1. n + s - r = n + (n - x) /\ x > 0 /\ n - x \in 0..(n - 1)
      BY <2>2, <1>1, <1>4
    <3> QED BY <3>1, RemainderOf
  <2> QED BY <2>3, <2>4 DEF r, s
<1> QED BY <1>3, <1>5, <1>6

\* The number of the next command.
LEMMA Successor ==
  ASSUME NEW n \in Nat \ {0}, NEW a \in Nat
  PROVE  ((a % n) + 1) % n = (a + 1) % n
<1> DEFINE q == a \div n  r == a % n
<1>1. q \in Nat /\ r \in 0..(n - 1) /\ a = n * q + r
  BY Division
<1> DEFINE p == (a + 1) \div n  s == (a + 1) % n
<1>2. p \in Nat /\ s \in 0..(n - 1) /\ a + 1 = n * p + s
  <2>1. a + 1 \in Nat
    OBVIOUS
  <2> QED BY <2>1, Division
<1> HIDE DEF q, r, p, s
<1>3. n * (p - q) = (r + 1) - s
  BY <1>1, <1>2
<1>4. p - q \in {0, 1}
  <2>1. p - q < 2
    BY <1>1, <1>2, <1>3, Multiple
  <2>2. p - q > -1
    BY <1>1, <1>2, <1>3, Multiple
  <2> QED BY <2>1, <2>2, <1>1, <1>2
<1>5. CASE p - q = 0
  <2>1. s = r + 1
    BY <1>5, <1>1, <1>2, <1>3, Multiple
  <2>2. (r + 1) % n = s
    BY <2>1, <1>2, RemainderOf
  <2> QED BY <2>2 DEF r, s
<1>6. CASE p - q = 1
  <2>1. s = 0 /\ r + 1 = n + s
    <3>1. n * (p - q) = n
      BY <1>6
    <3> QED BY <3>1, <1>1, <1>2, <1>3
  <2>2. (r + 1) % n = s
    BY <2>1, <1>2, RemainderOf
  <2> QED BY <2>2 DEF r, s
<1> QED BY <1>4, <1>5, <1>6

\* Of two numbers less than n apart the remainder says whether they are the same.
LEMMA SameNumber ==
  ASSUME NEW n \in Nat \ {0}, NEW a \in Nat, NEW b \in Nat, a - b < n, b - a < n, a % n = b % n
  PROVE  a = b
<1>1. (n + (a % n) - (b % n)) % n = 0 /\ (n + (b % n) - (a % n)) % n = 0
  <2>1. (n + 0) % n = 0 /\ a % n \in 0..(n - 1)
    BY RemainderOf, Division
  <2>2. n + (a % n) - (b % n) = n + 0 /\ n + (b % n) - (a % n) = n + 0
    BY <2>1
  <2> QED BY <2>1, <2>2
<1>2. CASE b <= a
  <2>1. (n + (a % n) - (b % n)) % n = a - b
    BY <1>2, Difference
  <2> QED BY <2>1, <1>1
<1>3. CASE a <= b
  <2>1. (n + (b % n) - (a % n)) % n = b - a
    BY <1>3, Difference
  <2> QED BY <2>1, <1>1
<1> QED BY <1>2, <1>3

\* A number and what is left of it after some rounds have the same remainder.
LEMMA SameRemainder ==
  ASSUME NEW n \in Nat \ {0}, NEW a \in Nat, NEW b \in Nat, NEW q \in Nat, a = n * q + b
  PROVE  a % n = b % n
<1> DEFINE p == a \div n  r == a % n  t == b \div n  s == b % n
<1>1. /\ p \in Nat /\ t \in Nat /\ r \in 0..(n - 1) /\ s \in 0..(n - 1)
      /\ a = n * p + r /\ b = n * t + s
  BY Division
<1> HIDE DEF p, r, t, s
<1> DEFINE k == (q + t) - p
<1>2. k \in Int /\ n * k = r - s
  BY <1>1
<1> HIDE DEF k
<1>3. k = 0
  <2>1. k < 1 /\ k > -1
    BY <1>1, <1>2, Multiple
  <2> QED BY <2>1, <1>2
<1>4. r = s
  BY <1>1, <1>2, <1>3, Multiple
<1> QED BY <1>4 DEF r, s

\* A remainder can be taken before a number is added, or after.
LEMMA AddToRemainder ==
  ASSUME NEW n \in Nat \ {0}, NEW a \in Nat, NEW k \in Nat
  PROVE  ((a % n) + k) % n = (a + k) % n
<1> DEFINE q == a \div n  r == a % n
<1>1. q \in Nat /\ r \in Nat /\ a = n * q + r
  BY Division
<1> HIDE DEF q, r
<1>2. a + k \in Nat /\ r + k \in Nat /\ a + k = n * q + (r + k)
  BY <1>1
<1> DEFINE b == a + k
           c == r + k
<1>3. b % n = c % n
  <2>1. b \in Nat /\ c \in Nat /\ q \in Nat /\ b = n * q + c
    BY <1>1, <1>2
  <2> HIDE DEF b, c
  <2> QED BY <2>1, SameRemainder
<1> QED BY <1>3 DEF r

\* A remainder is not more than the number, and is the number when that is less than n.
LEMMA RemainderBound ==
  ASSUME NEW n \in Nat \ {0}, NEW a \in Nat
  PROVE  a % n \in Nat /\ a % n <= a /\ (a < n => a % n = a)
<1> DEFINE q == a \div n  r == a % n
<1>1. q \in Nat /\ r \in 0..(n - 1) /\ a = n * q + r
  BY Division
<1>2. a < n => r = a
  <2>1. a < n => a \in 0..(n - 1)
    OBVIOUS
  <2> QED BY <2>1, RemainderOf
<1> HIDE DEF q, r
<1> DEFINE m == n * q
<1>3. m \in Int /\ a = m + r
  BY <1>1
<1>4. r <= a
  <2>1. CASE q = 0
    <3>1. m = 0
      BY <1>1, <2>1, Multiple
    <3> HIDE DEF m
    <3> QED BY <3>1, <1>1, <1>3
  <2>2. CASE q # 0
    <3>1. m >= n
      BY <1>1, <2>2, Multiple
    <3> HIDE DEF m
    <3> QED BY <3>1, <1>1, <1>3
  <2> QED BY <2>1, <2>2
<1> QED BY <1>1, <1>2, <1>4 DEF r

-----------------------------------------------------------------------------
(***************************************************************************)
(* Sequences.                                                              *)
(***************************************************************************)
\* Elements, length and type of a sequence after InsertAt.
LEMMA InsertAtProperties ==
  ASSUME NEW S, NEW s \in Seq(S), NEW e \in S, NEW p \in 1..(Len(s) + 1)
  PROVE  /\ InsertAt(s, p, e) \in Seq(S)
         /\ Len(InsertAt(s, p, e)) = Len(s) + 1
         /\ \A i \in 1..(Len(s) + 1) : InsertAt(s, p, e)[i] =
                IF i < p THEN s[i] ELSE IF i = p THEN e ELSE s[i - 1]
<1> DEFINE a == SubSeq(s, 1, p - 1)
           b == SubSeq(s, p, Len(s))
<1>0. Len(s) \in Nat /\ p \in Nat
  OBVIOUS
<1>1. a \in Seq(S) /\ Len(a) = p - 1 /\ \A i \in 1..(p - 1) : a[i] = s[i]
  <2>1. \A i \in 1..(p - 1) : s[i] \in S
    BY <1>0, ElementOfSeq
  <2> QED BY <1>0, <2>1, SubSeqProperties
<1>2. b \in Seq(S) /\ Len(b) = Len(s) - p + 1
      /\ \A i \in 1..(Len(s) - p + 1) : b[i] = s[p + i - 1]
  <2>1. \A i \in p..Len(s) : s[i] \in S
    BY <1>0, ElementOfSeq
  <2> QED BY <1>0, <2>1, SubSeqProperties
<1> HIDE DEF a, b
<1>3. <<e>> \in Seq(S) /\ Len(<<e>>) = 1 /\ <<e>>[1] = e
  OBVIOUS
<1> DEFINE ae == a \o <<e>>
<1>4. ae \in Seq(S) /\ Len(ae) = p /\ \A i \in 1..p : ae[i] = IF i < p THEN s[i] ELSE e
  <2>1. /\ ae \in Seq(S) /\ Len(ae) = Len(a) + 1
        /\ \A i \in 1..(Len(a) + 1) : ae[i] = IF i <= Len(a) THEN a[i] ELSE <<e>>[i - Len(a)]
    BY <1>1, <1>3, ConcatProperties
  <2> QED BY <2>1, <1>0, <1>1, <1>3
<1> HIDE DEF ae
<1>5. /\ ae \o b \in Seq(S) /\ Len(ae \o b) = Len(ae) + Len(b)
      /\ \A i \in 1..(Len(ae) + Len(b)) :
            (ae \o b)[i] = IF i <= Len(ae) THEN ae[i] ELSE b[i - Len(ae)]
  BY <1>2, <1>4, ConcatProperties
<1>6. InsertAt(s, p, e) = ae \o b
  BY DEF InsertAt, ae, a, b
<1> QED BY <1>0, <1>2, <1>4, <1>5, <1>6

\* The same under a name.
Spliced(t, s, p, e) ==
    /\ Len(t) = Len(s) + 1
    /\ \A i \in 1..(Len(s) + 1) : t[i] = IF i < p THEN s[i] ELSE IF i = p THEN e ELSE s[i - 1]

LEMMA InsertAtSplices ==
  ASSUME NEW S, NEW s \in Seq(S), NEW e \in S, NEW p \in 1..(Len(s) + 1)
  PROVE  InsertAt(s, p, e) \in Seq(S) /\ Spliced(InsertAt(s, p, e), s, p, e)
BY InsertAtProperties DEF Spliced

\* Elements, length and type of a sequence after RemoveAt.
LEMMA RemoveAtProperties ==
  ASSUME NEW S, NEW s \in Seq(S), NEW p \in 1..Len(s)
  PROVE  /\ RemoveAt(s, p) \in Seq(S)
         /\ Len(RemoveAt(s, p)) = Len(s) - 1
         /\ \A i \in 1..(Len(s) - 1) : RemoveAt(s, p)[i] =
                IF i < p THEN s[i] ELSE s[i + 1]
<1> DEFINE a == SubSeq(s, 1, p - 1)
           b == SubSeq(s, p + 1, Len(s))
<1>0. Len(s) \in Nat /\ p \in Nat
  OBVIOUS
<1>1. a \in Seq(S) /\ Len(a) = p - 1 /\ \A i \in 1..(p - 1) : a[i] = s[i]
  <2>1. \A i \in 1..(p - 1) : s[i] \in S
    BY <1>0, ElementOfSeq
  <2> QED BY <1>0, <2>1, SubSeqProperties
<1>2. b \in Seq(S) /\ Len(b) = Len(s) - p
      /\ \A i \in 1..(Len(s) - p) : b[i] = s[p + i]
  <2>1. \A i \in (p + 1)..Len(s) : s[i] \in S
    BY <1>0, ElementOfSeq
  <2> QED BY <1>0, <2>1, SubSeqProperties
<1> HIDE DEF a, b
<1>3. /\ a \o b \in Seq(S) /\ Len(a \o b) = Len(a) + Len(b)
      /\ \A i \in 1..(Len(a) + Len(b)) :
            (a \o b)[i] = IF i <= Len(a) THEN a[i] ELSE b[i - Len(a)]
  BY <1>1, <1>2, ConcatProperties
<1>4. RemoveAt(s, p) = a \o b
  BY DEF RemoveAt, a, b
<1>5. Len(a \o b) = Len(s) - 1
  BY <1>0, <1>1, <1>2, <1>3
<1>6. ASSUME NEW i \in 1..(Len(s) - 1)
      PROVE  (a \o b)[i] = IF i < p THEN s[i] ELSE s[i + 1]
  <2>1. CASE i < p
    BY <2>1, <1>0, <1>1, <1>2, <1>3
  <2>2. CASE ~(i < p)
    <3>1. (a \o b)[i] = b[i - Len(a)] /\ i - Len(a) \in 1..(Len(s) - p)
      BY <2>2, <1>0, <1>1, <1>2, <1>3
    <3>2. p + (i - Len(a)) = i + 1
      BY <1>0, <1>1
    <3> QED BY <2>2, <3>1, <3>2, <1>2
  <2> QED BY <2>1, <2>2
<1> QED BY <1>3, <1>4, <1>5, <1>6

\* Inserting at the end appends, and removing the first element leaves the tail.
LEMMA EndsOfSequences ==
    ASSUME NEW S, NEW s \in Seq(S)
    PROVE  /\ \A e \in S : InsertAt(s, Len(s) + 1, e) = Append(s, e)
           /\ s # <<>> => RemoveAt(s, 1) = Tail(s)
<1>0. Len(s) \in Nat /\ (s # <<>> => Len(s) # 0)
  OBVIOUS
<1>1. ASSUME NEW e \in S PROVE InsertAt(s, Len(s) + 1, e) = Append(s, e)
  <2> DEFINE r == InsertAt(s, Len(s) + 1, e)
             u == Append(s, e)
  <2>1. Len(s) + 1 \in 1..(Len(s) + 1)
    BY <1>0
  <2>2. r \in Seq(S) /\ Len(r) = Len(s) + 1
        /\ \A i \in 1..(Len(s) + 1) :
              r[i] = IF i < Len(s) + 1 THEN s[i] ELSE IF i = Len(s) + 1 THEN e ELSE s[i - 1]
    BY <2>1, InsertAtProperties
  <2>3. u \in Seq(S) /\ Len(u) = Len(s) + 1 /\ u[Len(s) + 1] = e /\ \A i \in 1..Len(s) : u[i] = s[i]
    OBVIOUS
  <2> HIDE DEF r, u
  <2>4. \A i \in 1..(Len(s) + 1) : (i < Len(s) + 1 /\ i \in 1..Len(s)) \/ (i = Len(s) + 1 /\ ~(i < Len(s) + 1))
    BY <1>0
  <2>5. \A i \in 1..(Len(s) + 1) : r[i] = u[i]
    BY <2>2, <2>3, <2>4
  <2>6. r = u
    BY <2>2, <2>3, <2>5, SeqEqual
  <2> QED BY <2>6 DEF r, u
<1>2. ASSUME s # <<>> PROVE RemoveAt(s, 1) = Tail(s)
  <2> DEFINE r == RemoveAt(s, 1)
             u == Tail(s)
  <2>1. 1 \in 1..Len(s)
    BY <1>0, <1>2
  <2>2. r \in Seq(S) /\ Len(r) = Len(s) - 1
        /\ \A i \in 1..(Len(s) - 1) : r[i] = IF i < 1 THEN s[i] ELSE s[i + 1]
    BY <2>1, RemoveAtProperties
  <2>3. u \in Seq(S) /\ Len(u) = Len(s) - 1 /\ \A i \in 1..(Len(s) - 1) : u[i] = s[i + 1]
    BY <1>2
  <2> HIDE DEF r, u
  <2>4. \A i \in 1..(Len(s) - 1) : r[i] = u[i]
    BY <1>0, <2>2, <2>3
  <2>5. r = u
    BY <1>0, <2>2, <2>3, <2>4, SeqEqual
  <2> QED BY <2>5 DEF r, u
<1> QED BY <1>1, <1>2
-----------------------------------------------------------------------------
(***************************************************************************)
(* What the list operators of PacketListOps return, for lists of any       *)
(* packets whose times are natural numbers.                                *)
(***************************************************************************)
\* An accepted packet is not in the past, finds a free node, and its time is free.
LEMMA AcceptedIsFree ==
  ASSUME NEW P, NEW list \in Seq(P), NEW capacity \in Nat, NEW planed \in Nat, NEW now \in Nat,
         InsertAck(list, capacity, planed, now) = "PL_SUCCESS"
  PROVE  now <= planed /\ Len(list) < capacity /\ ~Occupied(list, planed)
BY DEF InsertAck, IsFull

\* The place PL_insert_tl_cmd finds for a free time exists in any list, and in an ordered
\* list it separates the earlier packets from the later ones.
LEMMA InsertPosProperties ==
  ASSUME NEW P, \A p \in P : p.ti \in Nat,
         NEW list \in Seq(P), NEW t \in Nat, ~Occupied(list, t)
  PROVE  /\ InsertPos(list, t) \in 1..(Len(list) + 1)
         /\ Ordered(list) =>
               /\ \A i \in DOMAIN list : i < InsertPos(list, t) => list[i].ti < t
               /\ \A i \in DOMAIN list : InsertPos(list, t) <= i => t < list[i].ti
<1> DEFINE n == Len(list)
           pos == InsertPos(list, t)
<1>1. n \in Nat /\ DOMAIN list = 1..n /\ \A i \in 1..n : list[i].ti \in Nat
  <2>1. \A i \in 1..n : list[i] \in P
    BY ElementOfSeq
  <2> QED BY <2>1
<1>2. CASE list = <<>>
  BY <1>1, <1>2 DEF InsertPos
<1>3. CASE list # <<>> /\ list[n].ti < t
  <2>1. n \in 1..n
    BY <1>3, <1>1, EmptySeq
  <2>2. pos = n + 1
    BY <1>3 DEF InsertPos
  <2>3. ASSUME Ordered(list), NEW i \in 1..n PROVE list[i].ti < t
    BY <2>1, <2>3, <1>1, <1>3 DEF Ordered
  <2> QED BY <1>1, <2>2, <2>3
<1>4. CASE list # <<>> /\ list[n].ti >= t /\ list[1].ti > t
  <2>1. n \in 1..n
    BY <1>4, <1>1, EmptySeq
  <2>2. pos = 1
    BY <1>4, <1>1, <2>1 DEF InsertPos
  <2>3. ASSUME Ordered(list), NEW i \in 1..n PROVE t < list[i].ti
    BY <2>1, <2>3, <1>1, <1>4 DEF Ordered
  <2> QED BY <1>1, <2>1, <2>2, <2>3
<1>5. CASE list # <<>> /\ list[n].ti >= t /\ ~(list[1].ti > t)
  <2> DEFINE later == {i \in 2..n : list[i].ti >= t}
             stop == ScanStop(list, t)
  <2>1. 1 \in 1..n /\ n \in 1..n
    BY <1>5, <1>1, EmptySeq
  <2>2. pos = stop
    BY <1>5, <1>1, <2>1 DEF InsertPos
  <2>3. list[1].ti # t /\ list[n].ti # t /\ list[stop].ti # t
    BY <1>5, <1>1, <2>1 DEF Occupied
  <2>4. n \in later /\ later \in SUBSET Nat
    BY <1>5, <2>1, <2>3, <1>1
  <2>5. stop \in later /\ \A i \in later : stop <= i
    BY <2>4, MinOfNats DEF ScanStop
  <2>6. stop \in 2..n /\ list[stop].ti > t
    BY <2>5, <2>3, <1>1
  <2>7. ASSUME Ordered(list), NEW i \in 1..n, i < stop PROVE list[i].ti < t
    BY <2>7, <2>5, <2>3, <1>1, <1>5, <2>1
  <2>8. ASSUME Ordered(list), NEW i \in 1..n, stop <= i PROVE t < list[i].ti
    <3>1. list[stop].ti > t /\ stop \in 1..n /\ t \in Nat /\ list[i].ti \in Nat
      BY <2>6, <1>1
    <3>2. CASE i = stop
      BY <3>1, <3>2
    <3>3. CASE stop < i
      <4>1. list[stop].ti < list[i].ti
        BY <2>8, <3>1, <3>3, <1>1 DEF Ordered
      <4> HIDE DEF stop
      <4> QED BY <3>1, <4>1, <1>1
    <3> QED BY <3>1, <3>2, <3>3, <2>8, <1>1
  <2> HIDE DEF stop, pos
  <2> QED BY <1>1, <2>2, <2>6, <2>7, <2>8 DEF pos
<1> QED
  <2>1. list # <<>> => n \in 1..n
    BY <1>1, EmptySeq
  <2> QED BY <1>1, <1>2, <1>3, <1>4, <1>5, <2>1

\* Inserting a packet at a free time: there is a place, behind all earlier packets of an
\* ordered list and before all later ones, at which it is put, and the rest moves up.
LEMMA InsertedElements ==
  ASSUME NEW P, \A p \in P : p.ti \in Nat,
         NEW list \in Seq(P), NEW packet \in P, ~Occupied(list, packet.ti)
  PROVE  \E pos \in 1..(Len(list) + 1) :
           /\ Inserted(list, packet) \in Seq(P)
           /\ Len(Inserted(list, packet)) = Len(list) + 1
           /\ \A i \in 1..(Len(list) + 1) :
                 Inserted(list, packet)[i] =
                    IF i < pos THEN list[i] ELSE IF i = pos THEN packet ELSE list[i - 1]
           /\ Ordered(list) =>
                 /\ \A i \in DOMAIN list : i < pos => list[i].ti < packet.ti
                 /\ \A i \in DOMAIN list : pos <= i => packet.ti < list[i].ti
<1> DEFINE t == packet.ti
           pos == InsertPos(list, t)
           new == Inserted(list, packet)
<1>0. t \in Nat
  OBVIOUS
<1>1. /\ pos \in 1..(Len(list) + 1)
      /\ Ordered(list) =>
            /\ \A i \in DOMAIN list : i < pos => list[i].ti < t
            /\ \A i \in DOMAIN list : pos <= i => t < list[i].ti
  BY <1>0, InsertPosProperties
<1> HIDE DEF pos
<1>2. new = InsertAt(list, pos, packet)
  BY DEF Inserted, pos
<1> HIDE DEF new
<1>3. /\ new \in Seq(P) /\ Len(new) = Len(list) + 1
      /\ \A i \in 1..(Len(list) + 1) :
            new[i] = IF i < pos THEN list[i] ELSE IF i = pos THEN packet ELSE list[i - 1]
  <2>1. pos \in 1..(Len(list) + 1)
    BY <1>1
  <2> HIDE <1>0, <1>1, <1>2
  <2>2. /\ InsertAt(list, pos, packet) \in Seq(P)
        /\ Len(InsertAt(list, pos, packet)) = Len(list) + 1
        /\ \A i \in 1..(Len(list) + 1) :
              InsertAt(list, pos, packet)[i] =
                 IF i < pos THEN list[i] ELSE IF i = pos THEN packet ELSE list[i - 1]
    BY <2>1, InsertAtProperties
  <2> QED BY <1>2, <2>2
<1> QED BY <1>1, <1>3 DEF new

\* Inserting a packet at a free time keeps the type and the order of the list, makes it
\* one longer, and leaves a head that is earlier where it is.
LEMMA InsertedProperties ==
  ASSUME NEW P, \A p \in P : p.ti \in Nat,
         NEW list \in Seq(P), NEW packet \in P, ~Occupied(list, packet.ti)
  PROVE  /\ Inserted(list, packet) \in Seq(P)
         /\ Len(Inserted(list, packet)) = Len(list) + 1
         /\ \A i \in DOMAIN Inserted(list, packet) :
               \/ Inserted(list, packet)[i] = packet
               \/ \E j \in DOMAIN list : Inserted(list, packet)[i] = list[j]
         /\ Ordered(list) => Ordered(Inserted(list, packet))
         /\ Ordered(list) /\ list # <<>> /\ list[1].ti <= packet.ti =>
               Inserted(list, packet)[1] = list[1]
<1> DEFINE n == Len(list)
           t == packet.ti
           new == Inserted(list, packet)
<1>0. t \in Nat
  OBVIOUS
<1>1. n \in Nat /\ DOMAIN list = 1..n /\ \A i \in 1..n : list[i] \in P /\ list[i].ti \in Nat
  <2>1. \A i \in 1..n : list[i] \in P
    BY ElementOfSeq
  <2> QED BY <2>1
<1> HIDE DEF new
<1>2. PICK pos \in 1..(n + 1) :
        /\ new \in Seq(P) /\ Len(new) = n + 1
        /\ \A i \in 1..(n + 1) :
              new[i] = IF i < pos THEN list[i] ELSE IF i = pos THEN packet ELSE list[i - 1]
        /\ Ordered(list) =>
              /\ \A i \in DOMAIN list : i < pos => list[i].ti < t
              /\ \A i \in DOMAIN list : pos <= i => t < list[i].ti
  BY InsertedElements DEF new
<1>3. /\ new \in Seq(P) /\ Len(new) = n + 1
      /\ \A i \in 1..(n + 1) :
            new[i] = IF i < pos THEN list[i] ELSE IF i = pos THEN packet ELSE list[i - 1]
  BY <1>2
<1>4. DOMAIN new = 1..(n + 1)
  BY <1>3, LenProperties
<1>5. ASSUME NEW i \in 1..(n + 1)
      PROVE  new[i] = packet \/ \E j \in 1..n : new[i] = list[j]
  <2>1. CASE i < pos
    BY <2>1, <1>1, <1>2, <1>3
  <2>2. CASE i = pos
    BY <2>2, <1>3
  <2>3. CASE i > pos
    <3>1. i - 1 \in 1..n /\ new[i] = list[i - 1]
      BY <2>3, <1>1, <1>2, <1>3
    <3> QED BY <3>1
  <2> QED BY <2>1, <2>2, <2>3, <1>1, <1>2
<1>6. ASSUME Ordered(list), NEW i \in 1..(n + 1), NEW j \in 1..(n + 1), i < j
      PROVE  new[i].ti < new[j].ti
  <2>1. CASE j < pos
    <3>1. i \in 1..n /\ j \in 1..n /\ new[i] = list[i] /\ new[j] = list[j]
      BY <2>1, <1>1, <1>2, <1>3, <1>6
    <3> QED BY <3>1, <1>1, <1>6 DEF Ordered
  <2>2. CASE j = pos
    <3>1. i \in 1..n /\ i < pos /\ new[i] = list[i] /\ new[j] = packet
      BY <2>2, <1>1, <1>2, <1>3, <1>6
    <3> QED BY <3>1, <1>1, <1>2, <1>6
  <2>3. CASE j > pos /\ i < pos
    <3>1. i \in 1..n /\ j - 1 \in 1..n /\ pos <= j - 1 /\ new[i] = list[i] /\ new[j] = list[j - 1]
      BY <2>3, <1>1, <1>2, <1>3, <1>6
    <3>2. list[i].ti < t /\ t < list[j - 1].ti
      BY <2>3, <3>1, <1>1, <1>2, <1>6
    <3> QED BY <3>1, <3>2, <1>0, <1>1
  <2>4. CASE j > pos /\ i = pos
    <3>1. j - 1 \in 1..n /\ pos <= j - 1 /\ new[i] = packet /\ new[j] = list[j - 1]
      BY <2>4, <1>1, <1>2, <1>3, <1>6
    <3> QED BY <3>1, <1>1, <1>2, <1>6
  <2>5. CASE j > pos /\ i > pos
    <3>1. /\ i - 1 \in 1..n /\ j - 1 \in 1..n /\ i - 1 < j - 1
          /\ ~(i < pos) /\ i # pos /\ ~(j < pos) /\ j # pos
      BY <2>5, <1>1, <1>6
    <3>2. new[i] = list[i - 1] /\ new[j] = list[j - 1]
      BY <3>1, <1>3
    <3> QED BY <3>1, <3>2, <1>1, <1>6 DEF Ordered
  <2> QED BY <2>1, <2>2, <2>3, <2>4, <2>5, <1>1, <1>2
<1>7. Ordered(list) => Ordered(new)
  BY <1>4, <1>6 DEF Ordered
<1>8. ASSUME Ordered(list), list # <<>>, list[1].ti <= t PROVE new[1] = list[1]
  <2>1. 1 \in 1..n
    BY <1>8, <1>1, EmptySeq
  <2>2. 1 < pos
    <3>1. pos <= 1 => t < list[1].ti
      BY <2>1, <1>1, <1>2, <1>8
    <3>2. list[1].ti <= t /\ list[1].ti \in Nat
      BY <2>1, <1>1, <1>8
    <3>3. pos \in Nat
      BY <1>1
    <3> QED BY <3>1, <3>2, <3>3, <1>0
  <2> QED BY <2>1, <2>2, <1>1, <1>3
<1> QED BY <1>3, <1>4, <1>5, <1>1, <1>7, <1>8 DEF new

-----------------------------------------------------------------------------
\* Dropping the packet of a time keeps the type and the order of the list, drops nothing
\* else, and leaves a head of another time where it is.
LEMMA DropAtProperties ==
  ASSUME NEW P, \A p \in P : p.ti \in Nat, NEW list \in Seq(P), NEW time
  PROVE  /\ DropAt(list, time) \in Seq(P)
         /\ Len(DropAt(list, time)) <= Len(list)
         /\ \A i \in DOMAIN DropAt(list, time) :
               \E j \in DOMAIN list : DropAt(list, time)[i] = list[j]
         /\ Ordered(list) => Ordered(DropAt(list, time))
         /\ list # <<>> /\ list[1].ti # time =>
               DropAt(list, time) # <<>> /\ DropAt(list, time)[1] = list[1]
<1> DEFINE n == Len(list)
           new == DropAt(list, time)
<1>1. n \in Nat /\ DOMAIN list = 1..n /\ \A i \in 1..n : list[i] \in P /\ list[i].ti \in Nat
  <2>1. \A i \in 1..n : list[i] \in P
    BY ElementOfSeq
  <2> QED BY <2>1
<1>2. CASE PlannedAt(list, time) = {}
  BY <1>2, <1>1 DEF DropAt
<1>3. CASE PlannedAt(list, time) # {}
  <2> DEFINE at == Min(PlannedAt(list, time))
  <2>1. at \in PlannedAt(list, time)
    <3>1. PlannedAt(list, time) \in SUBSET Nat
      BY <1>1 DEF PlannedAt
    <3> QED BY <3>1, <1>3, MinOfNats
  <2>2. at \in 1..n /\ list[at].ti = time
    BY <2>1, <1>1 DEF PlannedAt
  <2>3. new = RemoveAt(list, at)
    BY <1>3 DEF DropAt
  <2> HIDE DEF at, new
  <2>4. /\ new \in Seq(P) /\ Len(new) = n - 1
        /\ \A i \in 1..(n - 1) : new[i] = IF i < at THEN list[i] ELSE list[i + 1]
    BY <2>2, <2>3, RemoveAtProperties
  <2>5. DOMAIN new = 1..(n - 1)
    BY <2>4, LenProperties
  <2>6. ASSUME NEW i \in 1..(n - 1)
        PROVE  \E j \in 1..n : new[i] = list[j]
    <3>1. i \in 1..n /\ i + 1 \in 1..n
      BY <1>1
    <3> QED BY <3>1, <2>4
  <2>7. ASSUME Ordered(list), NEW i \in 1..(n - 1), NEW j \in 1..(n - 1), i < j
        PROVE  new[i].ti < new[j].ti
    <3>1. CASE i < at /\ j < at
      <4>1. i \in 1..n /\ j \in 1..n /\ new[i] = list[i] /\ new[j] = list[j]
        BY <3>1, <1>1, <2>4
      <4> QED BY <4>1, <1>1, <2>7 DEF Ordered
    <3>2. CASE i < at /\ ~(j < at)
      <4>1. i \in 1..n /\ j + 1 \in 1..n /\ i < j + 1 /\ new[i] = list[i] /\ new[j] = list[j + 1]
        BY <3>2, <1>1, <2>4, <2>7
      <4> QED BY <4>1, <1>1, <2>7 DEF Ordered
    <3>3. CASE ~(i < at)
      <4>1. /\ i + 1 \in 1..n /\ j + 1 \in 1..n /\ i + 1 < j + 1
            /\ new[i] = list[i + 1] /\ new[j] = list[j + 1]
        BY <3>3, <1>1, <2>2, <2>4, <2>7
      <4> QED BY <4>1, <1>1, <2>7 DEF Ordered
    <3> QED BY <3>1, <3>2, <3>3, <1>1, <2>2
  <2>8. Ordered(list) => Ordered(new)
    BY <2>5, <2>7 DEF Ordered
  <2>9. ASSUME list # <<>>, list[1].ti # time PROVE new # <<>> /\ new[1] = list[1]
    <3>1. 1 < at /\ 1 \in 1..(n - 1)
      BY <2>2, <2>9, <1>1
    <3> QED BY <3>1, <2>4, <2>5, <1>1
  <2>10. Len(new) <= Len(list)
    BY <1>1, <2>4
  <2>11. \A i \in DOMAIN new : \E j \in DOMAIN list : new[i] = list[j]
    BY <1>1, <2>5, <2>6
  <2>12. new \in Seq(P)
    BY <2>4
  <2> HIDE <1>1, <1>3, <2>4, <2>6
  <2> QED BY <2>8, <2>9, <2>10, <2>11, <2>12 DEF new
<1> QED BY <1>2, <1>3

\* The tail of a list keeps its order and holds nothing new.
LEMMA TailKeepsOrder ==
  ASSUME NEW P, \A p \in P : p.ti \in Nat, NEW list \in Seq(P), list # <<>>
  PROVE  /\ Tail(list) \in Seq(P) /\ Len(Tail(list)) = Len(list) - 1
         /\ \A i \in DOMAIN Tail(list) : \E j \in DOMAIN list : Tail(list)[i] = list[j]
         /\ Ordered(list) => Ordered(Tail(list))
<1> DEFINE n == Len(list)
           new == Tail(list)
<1>1. n \in Nat /\ DOMAIN list = 1..n /\ \A i \in 1..n : list[i].ti \in Nat
  <2>1. \A i \in 1..n : list[i] \in P
    BY ElementOfSeq
  <2> QED BY <2>1
<1>2. new \in Seq(P) /\ Len(new) = n - 1 /\ \A i \in 1..(n - 1) : new[i] = list[i + 1]
  BY HeadTailProperties
<1> HIDE DEF new
<1>3. DOMAIN new = 1..(n - 1)
  BY <1>2, LenProperties
<1>4. \A i \in 1..(n - 1) : i \in Nat /\ i + 1 \in 1..n
  BY <1>1
<1>5. ASSUME Ordered(list), NEW i \in 1..(n - 1), NEW j \in 1..(n - 1), i < j
      PROVE  new[i].ti < new[j].ti
  <2>1. i + 1 \in 1..n /\ j + 1 \in 1..n /\ i + 1 < j + 1
    BY <1>1, <1>5
  <2>2. list[i + 1].ti < list[j + 1].ti
    BY <2>1, <1>1, <1>5 DEF Ordered
  <2> QED BY <2>2, <1>2
<1>6. Ordered(list) => Ordered(new)
  BY <1>3, <1>5 DEF Ordered
<1> QED BY <1>1, <1>2, <1>3, <1>4, <1>6 DEF new

\* The number of cycles a deployed command is moved by is a natural number, and when the
\* list has a free time within reach it is one of the free shifts.
LEMMA ShiftProperties ==
  ASSUME NEW P, NEW list \in Seq(P), NEW capacity, NEW planed, NEW now, NEW mod
  PROVE  /\ Shift(list, capacity, planed, now, mod) \in 0..(Len(list) + 1)
         /\ Shift(list, capacity, planed, now, mod) <= Len(list) =>
               InsertAck(list, capacity,
                         (planed + Shift(list, capacity, planed, now, mod)) % mod, now)
                 # "PL_TLC_ALREADY_EXISTS"
<1> DEFINE free == FreeShifts(list, capacity, planed, now, mod)
<1>1. Len(list) \in Nat
  OBVIOUS
<1>2. free \in SUBSET (0..Len(list)) /\ free \in SUBSET Nat
  BY <1>1 DEF FreeShifts
<1>3. CASE free = {}
  BY <1>1, <1>3 DEF Shift
<1>4. CASE free # {}
  <2>1. Min(free) \in free
    BY <1>2, <1>4, MinOfNats
  <2>2. Shift(list, capacity, planed, now, mod) = Min(free)
    BY <1>4 DEF Shift
  <2>3. Min(free) \in 0..Len(list)
    BY <2>1, <1>2
  <2> QED BY <2>1, <2>2, <2>3, <1>1 DEF FreeShifts
<1> QED BY <1>3, <1>4
\* A time that is occupied is the time of a packet of the list.
LEMMA OccupiedIsPlanned ==
  ASSUME NEW P, \A p \in P : p.ti \in Nat, NEW list \in Seq(P), NEW t \in Nat, Occupied(list, t)
  PROVE  \E i \in 1..Len(list) : list[i].ti = t
<1> DEFINE n == Len(list)
<1>1. n \in Nat /\ \A i \in 1..n : list[i].ti \in Nat
  <2>1. \A i \in 1..n : list[i] \in P
    BY ElementOfSeq
  <2> QED BY <2>1
<1>2. 1 \in 1..n /\ n \in 1..n /\ list[1].ti <= t /\ t <= list[n].ti
  BY <1>1, EmptySeq DEF Occupied
<1>3. CASE list[1].ti = t \/ list[n].ti = t
  BY <1>2, <1>3
<1>4. CASE list[1].ti # t /\ list[n].ti # t
  <2> DEFINE later == {i \in 2..n : list[i].ti >= t}
             stop == ScanStop(list, t)
  <2>1. list[stop].ti = t
    BY <1>4 DEF Occupied
  <2>2. n # 1
    BY <1>1, <1>2, <1>4
  <2>3. n \in 2..n /\ list[n].ti >= t
    <3>1. n >= 1 /\ list[n].ti \in Nat
      BY <1>1, <1>2
    <3>2. n \in 2..n
      <4> HIDE DEF n
      <4> QED BY <2>2, <3>1, <1>1
    <3> QED BY <3>1, <3>2, <1>2
  <2>4. stop \in later
    <3>1. later # {} /\ later \in SUBSET Nat
      BY <2>3
    <3> QED BY <3>1, MinOfNats DEF ScanStop
  <2>5. stop \in 1..n
    BY <2>4, <1>1
  <2> HIDE DEF stop
  <2> QED BY <2>1, <2>5
<1> QED BY <1>3, <1>4

\* A time that is not occupied in an ordered list is the time of none of its packets.
LEMMA TimeIsFree ==
  ASSUME NEW P, \A p \in P : p.ti \in Nat, NEW list \in Seq(P), Ordered(list),
         NEW t \in Nat, ~Occupied(list, t)
  PROVE  \A i \in 1..Len(list) : list[i].ti # t
<1> SUFFICES ASSUME NEW i \in 1..Len(list) PROVE list[i].ti # t
  OBVIOUS
<1>1. /\ InsertPos(list, t) \in 1..(Len(list) + 1)
      /\ \A k \in DOMAIN list : k < InsertPos(list, t) => list[k].ti < t
      /\ \A k \in DOMAIN list : InsertPos(list, t) <= k => t < list[k].ti
  BY InsertPosProperties
<1>2. i \in DOMAIN list /\ list[i].ti \in Nat
  BY ElementOfSeq
<1>3. i < InsertPos(list, t) \/ InsertPos(list, t) <= i
  BY <1>1
<1> QED BY <1>1, <1>2, <1>3

\* The retry loop of a deployment finds a time within active_nodes_ + 1 attempts: as many
\* different times cannot all be taken.
LEMMA ShiftFindsTime ==
  ASSUME NEW P, \A p \in P : p.ti \in Nat, NEW list \in Seq(P), NEW capacity, NEW planed \in Nat,
         NEW now, NEW mod \in Nat \ {0}, Len(list) < mod
  PROVE  Shift(list, capacity, planed, now, mod) <= Len(list)
<1> DEFINE n == Len(list)
           free == FreeShifts(list, capacity, planed, now, mod)
<1>1. n \in Nat
  OBVIOUS
<1>2. ASSUME free = {} PROVE FALSE
  <2>1. ASSUME NEW k \in 0..n
        PROVE  \E i \in 1..n : list[i].ti = (planed + k) % mod
    <3>1. (planed + k) % mod \in Nat
      BY <1>1
    <3>2. InsertAck(list, capacity, (planed + k) % mod, now) = "PL_TLC_ALREADY_EXISTS"
      BY <1>2 DEF FreeShifts
    <3>3. Occupied(list, (planed + k) % mod)
      BY <3>2 DEF InsertAck
    <3> QED BY <3>1, <3>3, OccupiedIsPlanned
  <2> DEFINE f == [k \in 0..n |-> CHOOSE i \in 1..n : list[i].ti = (planed + k) % mod]
  <2>2. f \in [0..n -> 1..n] /\ \A k \in 0..n : list[f[k]].ti = (planed + k) % mod
    BY <2>1
  <2> HIDE DEF f
  <2> DEFINE K == 0..n
             I == 1..n
  <2>3. /\ IsFiniteSet(K) /\ Cardinality(K) = n + 1
        /\ IsFiniteSet(I) /\ Cardinality(I) = n
    <3>1. 0 \in Int /\ 1 \in Int /\ n \in Int /\ ~(0 > n)
      BY <1>1
    <3>2. n - 0 + 1 = n + 1 /\ n - 1 + 1 = n
      BY <1>1
    <3>3. IsFiniteSet(K) /\ Cardinality(K) = n + 1
      BY <3>1, <3>2, FS_Interval
    <3>4. IsFiniteSet(I) /\ Cardinality(I) = IF 1 > n THEN 0 ELSE n - 1 + 1
      BY <3>1, FS_Interval
    <3> QED BY <3>2, <3>3, <3>4, <1>1
  <2>4. PICK x, y \in 0..n : x # y /\ f[x] = f[y]
    <3>1. Cardinality(I) < Cardinality(K) /\ f \in [K -> I]
      BY <2>2, <2>3, <1>1
    <3> HIDE DEF K, I
    <3>2. \E x, y \in K : x # y /\ f[x] = f[y]
      BY <2>3, <3>1, FS_PigeonHole
    <3> QED BY <3>2 DEF K
  <2>5. (planed + x) % mod = (planed + y) % mod
    BY <2>2, <2>4
  <2>6. /\ planed + x \in Nat /\ planed + y \in Nat
        /\ (planed + x) - (planed + y) < mod /\ (planed + y) - (planed + x) < mod
    BY <1>1
  <2>7. planed + x = planed + y
    BY <2>5, <2>6, SameNumber
  <2> QED BY <2>4, <2>7
<1>3. free \in SUBSET Nat /\ free \in SUBSET (0..n)
  BY <1>1 DEF FreeShifts
<1>4. Min(free) \in free
  BY <1>2, <1>3, MinOfNats
<1>5. Shift(list, capacity, planed, now, mod) = Min(free)
  BY <1>2 DEF Shift
<1>6. Min(free) \in 0..n
  BY <1>3, <1>4
<1> HIDE DEF free
<1> QED BY <1>1, <1>5, <1>6

\* An insertion adds the packet and nothing else.
LEMMA InsertedSet ==
  ASSUME NEW P, \A p \in P : p.ti \in Nat,
         NEW list \in Seq(P), NEW packet \in P, ~Occupied(list, packet.ti)
  PROVE  ToSet(Inserted(list, packet)) = ToSet(list) \cup {packet}
<1> DEFINE n == Len(list)
           new == Inserted(list, packet)
<1>1. n \in Nat /\ DOMAIN list = 1..n
  OBVIOUS
<1> HIDE DEF new
<1>2. PICK pos \in 1..(n + 1) :
        /\ new \in Seq(P) /\ Len(new) = n + 1
        /\ \A i \in 1..(n + 1) :
              new[i] = IF i < pos THEN list[i] ELSE IF i = pos THEN packet ELSE list[i - 1]
        /\ Ordered(list) =>
              /\ \A i \in DOMAIN list : i < pos => list[i].ti < packet.ti
              /\ \A i \in DOMAIN list : pos <= i => packet.ti < list[i].ti
  BY InsertedElements DEF new
<1>3. /\ new \in Seq(P) /\ Len(new) = n + 1
      /\ \A i \in 1..(n + 1) :
            new[i] = IF i < pos THEN list[i] ELSE IF i = pos THEN packet ELSE list[i - 1]
  BY <1>2
<1>4. DOMAIN new = 1..(n + 1)
  BY <1>3, LenProperties
<1>5. ASSUME NEW i \in 1..(n + 1) PROVE new[i] \in ToSet(list) \cup {packet}
  <2>1. CASE i < pos
    <3>1. i \in 1..n /\ new[i] = list[i]
      BY <2>1, <1>1, <1>2, <1>3
    <3> QED BY <3>1, <1>1 DEF ToSet
  <2>2. CASE i = pos
    BY <2>2, <1>3
  <2>3. CASE i > pos
    <3>1. i - 1 \in 1..n /\ new[i] = list[i - 1]
      BY <2>3, <1>1, <1>2, <1>3
    <3> QED BY <3>1, <1>1 DEF ToSet
  <2> QED BY <2>1, <2>2, <2>3, <1>1, <1>2
<1>6. ASSUME NEW i \in 1..n PROVE \E j \in 1..(n + 1) : list[i] = new[j]
  <2>1. CASE i < pos
    <3>1. i \in 1..(n + 1) /\ new[i] = list[i]
      BY <2>1, <1>1, <1>3
    <3> QED BY <3>1
  <2>2. CASE ~(i < pos)
    <3>1. i + 1 \in 1..(n + 1) /\ ~(i + 1 < pos) /\ i + 1 # pos /\ (i + 1) - 1 = i
      BY <2>2, <1>1, <1>2
    <3>2. new[i + 1] = list[i]
      BY <3>1, <1>3
    <3> QED BY <3>1, <3>2
  <2> QED BY <2>1, <2>2
<1>7. new[pos] = packet
  BY <1>2, <1>3
<1>8. ToSet(new) = ToSet(list) \cup {packet}
  <2>1. \A x \in ToSet(new) : x \in ToSet(list) \cup {packet}
    BY <1>4, <1>5 DEF ToSet
  <2>2. \A x \in ToSet(list) : x \in ToSet(new)
    BY <1>1, <1>4, <1>6 DEF ToSet
  <2>3. packet \in ToSet(new)
    BY <1>2, <1>4, <1>7 DEF ToSet
  <2> QED BY <2>1, <2>2, <2>3
<1> QED BY <1>8 DEF new

\* No two packets of an ordered list are the same: it has as many as it is long.
LEMMA OrderedCardinality ==
  ASSUME NEW P, \A p \in P : p.ti \in Nat, NEW list \in Seq(P), Ordered(list)
  PROVE  Cardinality(ToSet(list)) = Len(list)
<1> DEFINE n == Len(list)
<1>1. n \in Nat /\ DOMAIN list = 1..n /\ \A i \in 1..n : list[i].ti \in Nat
  <2>1. \A i \in 1..n : list[i] \in P
    BY ElementOfSeq
  <2> QED BY <2>1
<1>2. list \in [1..n -> ToSet(list)]
  BY <1>1 DEF ToSet
<1>3. \A i, j \in 1..n : list[i] = list[j] => i = j
  <2> SUFFICES ASSUME NEW i \in 1..n, NEW j \in 1..n, list[i] = list[j], i # j PROVE FALSE
    OBVIOUS
  <2>1. i < j \/ j < i
    BY <1>1
  <2> QED BY <2>1, <1>1 DEF Ordered
<1>4. \A x \in ToSet(list) : \E i \in 1..n : list[i] = x
  BY <1>1 DEF ToSet
<1>5. list \in Bijection(1..n, ToSet(list))
  BY <1>2, <1>3, <1>4 DEF Bijection, Injection, Surjection, IsInjective
<1>6. ExistsBijection(1..n, ToSet(list))
  BY <1>5 DEF ExistsBijection
<1> QED BY <1>1, <1>6, FS_CountingElements

\* The elements of a sequence are finitely many.
LEMMA FiniteElements ==
  ASSUME NEW S, NEW s \in Seq(S)
  PROVE  IsFiniteSet(ToSet(s))
<1>1. Len(s) \in Nat /\ DOMAIN s = 1..Len(s)
  OBVIOUS
<1>2. IsFiniteSet(1..Len(s))
  BY <1>1, FS_Interval
<1>3. s \in Surjection(1..Len(s), ToSet(s))
  BY <1>1 DEF ToSet, Surjection
<1> QED BY <1>2, <1>3, FS_Surjection

-----------------------------------------------------------------------------
\* Deployment of a whole block.

\* The loop over the commands of a block is the iteration of CmdPlaced, within any set of states
\* that CmdPlaced does not leave.
LEMMA PlacingSteps ==
  ASSUME NEW D, NEW empty \in D, NEW block, NEW capacity, NEW start, NEW mod, Len(block) \in Nat,
         \A i \in 1..Len(block) : \A d \in D : CmdPlaced(d, block[i], capacity, start, mod) \in D
  PROVE  /\ Placing(empty, block, capacity, start, mod) \in [0..Len(block) -> D]
         /\ Placing(empty, block, capacity, start, mod)[0] = empty
         /\ \A i \in 1..Len(block) :
               Placing(empty, block, capacity, start, mod)[i] =
                  CmdPlaced(Placing(empty, block, capacity, start, mod)[i - 1],
                            block[i], capacity, start, mod)
<1> DEFINE n == Len(block)
           Next(d, i) == CmdPlaced(d, block[i], capacity, start, mod)
           step == [i \in 1..n |-> [d \in D |-> Next(d, i)]]
           Body(f) == [i \in 0..n |-> IF i = 0 THEN empty ELSE Next(f[i - 1], i)]
           placed == Placing(empty, block, capacity, start, mod)
<1>1. placed = CHOOSE f : f = Body(f)
  BY DEF Placing
<1>2. \A i \in 1..n : \A d \in D : Next(d, i) \in D
  OBVIOUS
<1> HIDE DEF placed, Next
<1>3. step \in [1..n -> [D -> D]]
  BY <1>2
<1> HIDE DEF step
<1>4. PICK g \in [0..n -> D] : Iterates(g, empty, step, n)
  BY <1>3, RecursionExists
<1> USE DEF step, Iterates
<1>5. g = Body(g)
  <2>1. ASSUME NEW i \in 0..n, i # 0 PROVE g[i] = Next(g[i - 1], i)
    <3>1. i \in 1..n /\ i - 1 \in 0..n
      BY <2>1
    <3>2. g[i - 1] \in D /\ g[i] = step[i][g[i - 1]]
      BY <3>1, <1>4
    <3> QED BY <3>1, <3>2
  <2>2. \A i \in 0..n : g[i] = IF i = 0 THEN empty ELSE Next(g[i - 1], i)
    BY <2>1, <1>4
  <2> QED BY <2>2
<1> HIDE DEF step
<1>6. placed = Body(placed)
  <2> HIDE DEF Body
  <2> QED BY <1>1, <1>5
<1>7. placed[0] = empty /\ \A i \in 1..n : placed[i] = Next(placed[i - 1], i)
  <2>1. \A i \in 0..n : placed[i] = IF i = 0 THEN empty ELSE Next(placed[i - 1], i)
    BY <1>6
  <2>2. 0 \in 0..n /\ \A i \in 1..n : i \in 0..n /\ i # 0
    OBVIOUS
  <2> HIDE DEF Body
  <2> QED BY <2>1, <2>2
<1>8. \A i \in 0..n : placed[i] \in D
  <2> DEFINE S == {i \in Nat : i <= n => placed[i] \in D}
  <2>1. 0 \in S
    BY <1>7
  <2>2. ASSUME NEW i \in Nat, i \in S PROVE i + 1 \in S
    <3>1. ASSUME i + 1 <= n PROVE placed[i + 1] \in D
      <4>1. i <= n /\ i + 1 \in 1..n /\ (i + 1) - 1 = i
        BY <3>1
      <4>2. placed[i] \in D
        BY <4>1, <2>2
      <4> QED BY <4>1, <4>2, <1>2, <1>7
    <3> QED BY <3>1
  <2> HIDE DEF S
  <2>3. \A i \in Nat : i \in S
    BY <2>1, <2>2, NatSetInduction
  <2> QED BY <2>3 DEF S
<1>9. placed \in [0..n -> D]
  <2>1. placed = [i \in 0..n |-> placed[i]]
    BY <1>6
  <2> QED BY <2>1, <1>8
<1> QED BY <1>7, <1>9 DEF placed, Next

\* What is known of a deployment between two commands.
Deployments(P) == [list : Seq(P), adj : Nat, ack : PL_ACKS]

\* The commands of a block may be placed at any time.
Placeable(command, P, mod) ==
    /\ command.ti \in Nat
    /\ \A t \in 0..(mod - 1) : [ti |-> t, cmd |-> command.cmd] \in P
IsBlock(block, P, mod) == Len(block) \in Nat /\ \A i \in 1..Len(block) : Placeable(block[i], P, mod)

\* A command is placed at a free time, or the list stays as it is.
LEMMA CmdPlacedProperties ==
  ASSUME NEW P, \A p \in P : p.ti \in Nat,
         NEW capacity \in Nat, NEW start \in Nat, NEW mod \in Nat \ {0},
         NEW command, Placeable(command, P, mod),
         NEW d \in Deployments(P)
  PROVE  /\ CmdPlaced(d, command, capacity, start, mod) \in Deployments(P)
         /\ \/ CmdPlaced(d, command, capacity, start, mod).list = d.list
            \/ \E at \in P : /\ at.cmd = command.cmd /\ ~Occupied(d.list, at.ti)
                             /\ CmdPlaced(d, command, capacity, start, mod).list = Inserted(d.list, at)
<1> DEFINE planed == (start + d.adj + command.ti) % mod
           moved == Shift(d.list, capacity, planed, start, mod)
           at == [ti |-> (planed + moved) % mod, cmd |-> command.cmd]
           ack == IF moved > Len(d.list) THEN "PL_TLC_ALREADY_EXISTS"
                  ELSE InsertAck(d.list, capacity, at.ti, start)
           new == CmdPlaced(d, command, capacity, start, mod)
<1>0. command.ti \in Nat /\ \A t \in 0..(mod - 1) : [ti |-> t, cmd |-> command.cmd] \in P
  BY DEF Placeable
<1>1. d.list \in Seq(P) /\ d.adj \in Nat /\ d.ack \in PL_ACKS
  BY DEF Deployments
<1>2. planed \in Nat
  BY <1>0, <1>1
<1>3. moved \in Nat
  <2> HIDE DEF planed
  <2>1. moved \in 0..(Len(d.list) + 1)
    BY <1>1, ShiftProperties
  <2> QED BY <2>1, <1>1
<1>4. at.ti \in 0..(mod - 1) /\ at.ti \in Nat /\ at.cmd = command.cmd
  <2> HIDE DEF planed, moved
  <2> QED BY <1>2, <1>3
<1>5. at \in P
  <2>1. at = [ti |-> at.ti, cmd |-> command.cmd]
    OBVIOUS
  <2> HIDE DEF at
  <2> QED BY <2>1, <1>0, <1>4
<1>6. ack \in PL_ACKS
  BY DEF InsertAck, PL_ACKS
<1>7. ack = "PL_SUCCESS" => ~Occupied(d.list, at.ti)
  <2> HIDE DEF at, moved
  <2> QED BY <1>1, <1>4, AcceptedIsFree
<1>8. new = IF d.ack # "PL_SUCCESS" THEN d
            ELSE IF ack # "PL_SUCCESS" THEN [d EXCEPT !.ack = ack]
            ELSE [d EXCEPT !.list = Inserted(d.list, at), !.adj = d.adj + moved]
  <2> DEFINE w == ack  a == at  m == moved
  <2>1. new = CASE d.ack # "PL_SUCCESS" -> d
                [] d.ack = "PL_SUCCESS" /\ w # "PL_SUCCESS" -> [d EXCEPT !.ack = w]
                [] OTHER -> [d EXCEPT !.list = Inserted(d.list, a), !.adj = d.adj + m]
    BY DEF CmdPlaced
  <2> HIDE DEF w, a, m, new
  <2>2. new = IF d.ack # "PL_SUCCESS" THEN d
              ELSE IF w # "PL_SUCCESS" THEN [d EXCEPT !.ack = w]
              ELSE [d EXCEPT !.list = Inserted(d.list, a), !.adj = d.adj + m]
    BY <2>1
  <2> QED BY <2>2 DEF w, a, m
<1> HIDE DEF new, at, ack, moved, planed
<1>9. CASE d.ack # "PL_SUCCESS"
  BY <1>8, <1>9 DEF new
<1>10. CASE d.ack = "PL_SUCCESS" /\ ack # "PL_SUCCESS"
  <2>1. new = [d EXCEPT !.ack = ack]
    BY <1>8, <1>10
  <2>2. new \in Deployments(P) /\ new.list = d.list
    BY <2>1, <1>6 DEF Deployments
  <2> QED BY <2>2 DEF new
<1>11. CASE d.ack = "PL_SUCCESS" /\ ack = "PL_SUCCESS"
  <2> DEFINE list == Inserted(d.list, at)
             adj == d.adj + moved
  <2>1. new = [d EXCEPT !.list = list, !.adj = adj]
    BY <1>8, <1>11
  <2>2. list \in Seq(P)
    BY <1>1, <1>5, <1>7, <1>11, InsertedProperties
  <2>3. adj \in Nat
    BY <1>1, <1>3
  <2> HIDE DEF list, adj
  <2>4. new \in Deployments(P) /\ new.list = list
    BY <2>1, <2>2, <2>3 DEF Deployments
  <2> QED BY <2>4, <1>4, <1>5, <1>7, <1>11 DEF new, list
<1> QED BY <1>9, <1>10, <1>11

\* The lists after each command of a block: each is the one before with, at most, that command
\* inserted at a free time.
GrowsAlong(after, block, P) ==
    \A i \in 1..Len(block) :
        \/ after[i] = after[i - 1]
        \/ \E at \in P : /\ at.cmd = block[i].cmd /\ ~Occupied(after[i - 1], at.ti)
                         /\ after[i] = Inserted(after[i - 1], at)

\* Such a sequence of lists leads to the list new.
GrowsTo(list, block, new, P) ==
    \E after \in [0..Len(block) -> Seq(P)] :
        /\ after[0] = list \/ after[0] = <<>>
        /\ after[Len(block)] = new
        /\ GrowsAlong(after, block, P)

\* A deployment is such a sequence of lists, from the list itself or the cleared one on.
LEMMA DeployedSteps ==
  ASSUME NEW P, \A p \in P : p.ti \in Nat,
         NEW list \in Seq(P), NEW capacity \in Nat, NEW start \in Nat, NEW mod \in Nat \ {0},
         NEW block, IsBlock(block, P, mod)
  PROVE  GrowsTo(list, block, Deployed(list, capacity, block, start, mod).list, P)
<1> DEFINE n == Len(block)
           kept == IF capacity - Len(list) < Len(block) THEN <<>> ELSE list
           empty == [list |-> kept, adj |-> 0, ack |-> "PL_SUCCESS"]
           placed == Placing(empty, block, capacity, start, mod)
<1>0. n \in Nat /\ \A i \in 1..n : Placeable(block[i], P, mod)
  BY DEF IsBlock
<1>1. empty \in Deployments(P) /\ empty.list = kept
  <2>1. kept \in Seq(P)
    OBVIOUS
  <2> HIDE DEF kept
  <2> QED BY <2>1 DEF Deployments, PL_ACKS
<1>2. Deployed(list, capacity, block, start, mod).list = placed[n].list
  BY DEF Deployed
<1> HIDE DEF empty
<1>3. \A i \in 1..n : \A d \in Deployments(P) :
        /\ CmdPlaced(d, block[i], capacity, start, mod) \in Deployments(P)
        /\ \/ CmdPlaced(d, block[i], capacity, start, mod).list = d.list
           \/ \E at \in P : /\ at.cmd = block[i].cmd /\ ~Occupied(d.list, at.ti)
                            /\ CmdPlaced(d, block[i], capacity, start, mod).list = Inserted(d.list, at)
  BY <1>0, CmdPlacedProperties
<1>4. /\ placed \in [0..n -> Deployments(P)] /\ placed[0] = empty
      /\ \A i \in 1..n : placed[i] = CmdPlaced(placed[i - 1], block[i], capacity, start, mod)
  BY <1>0, <1>1, <1>3, PlacingSteps
<1> HIDE DEF placed
<1> DEFINE after == [i \in 0..n |-> placed[i].list]
<1>5. after \in [0..n -> Seq(P)]
  <2>1. \A i \in 0..n : placed[i].list \in Seq(P)
    BY <1>4 DEF Deployments
  <2> QED BY <2>1
<1>6. 0 \in 0..n /\ n \in 0..n /\ \A i \in 1..n : i \in 0..n /\ i - 1 \in 0..n
  BY <1>0
<1>7. after[0] = kept /\ after[n] = placed[n].list
  BY <1>1, <1>4, <1>6
<1>8. \A i \in 1..n :
        \/ after[i] = after[i - 1]
        \/ \E at \in P : /\ at.cmd = block[i].cmd /\ ~Occupied(after[i - 1], at.ti)
                         /\ after[i] = Inserted(after[i - 1], at)
  <2> SUFFICES ASSUME NEW i \in 1..n
               PROVE  \/ after[i] = after[i - 1]
                      \/ \E at \in P : /\ at.cmd = block[i].cmd /\ ~Occupied(after[i - 1], at.ti)
                                       /\ after[i] = Inserted(after[i - 1], at)
    OBVIOUS
  <2>1. placed[i - 1] \in Deployments(P)
    BY <1>4, <1>6
  <2>2. after[i] = placed[i].list /\ after[i - 1] = placed[i - 1].list
    BY <1>6
  <2>3. placed[i] = CmdPlaced(placed[i - 1], block[i], capacity, start, mod)
    BY <1>4
  <2> HIDE DEF after
  <2> DEFINE before == placed[i - 1]
  <2>4. \/ CmdPlaced(before, block[i], capacity, start, mod).list = before.list
        \/ \E at \in P : /\ at.cmd = block[i].cmd /\ ~Occupied(before.list, at.ti)
                         /\ CmdPlaced(before, block[i], capacity, start, mod).list
                              = Inserted(before.list, at)
    BY <2>1, <1>3
  <2> QED BY <2>2, <2>3, <2>4
<1>9. kept = list \/ kept = <<>>
  OBVIOUS
<1> HIDE DEF after, kept
<1>10. GrowsAlong(after, block, P)
  BY <1>8 DEF GrowsAlong
<1> QED BY <1>2, <1>5, <1>7, <1>9, <1>10 DEF GrowsTo

\* A deployment keeps the list ordered and well-typed.
LEMMA DeployedProperties ==
  ASSUME NEW P, \A p \in P : p.ti \in Nat,
         NEW list \in Seq(P), NEW capacity \in Nat, NEW start \in Nat, NEW mod \in Nat \ {0},
         NEW block, IsBlock(block, P, mod)
  PROVE  /\ Deployed(list, capacity, block, start, mod).list \in Seq(P)
         /\ Ordered(list) => Ordered(Deployed(list, capacity, block, start, mod).list)
<1> DEFINE n == Len(block)
<1>1. PICK after \in [0..Len(block) -> Seq(P)] :
           /\ after[0] = list \/ after[0] = <<>>
           /\ after[Len(block)] = Deployed(list, capacity, block, start, mod).list
           /\ GrowsAlong(after, block, P)
  <2>1. GrowsTo(list, block, Deployed(list, capacity, block, start, mod).list, P)
    BY DeployedSteps
  <2> QED BY <2>1 DEF GrowsTo
<1>0. n \in Nat
  BY DEF IsBlock
<1>2. n \in 0..n /\ after[n] \in Seq(P)
  BY <1>0, <1>1
<1>3. ASSUME Ordered(list) PROVE Ordered(after[n])
  <2> DEFINE S == {i \in Nat : i <= n => Ordered(after[i])}
  <2>1. 0 \in S
    <3>1. Ordered(<<>>)
      BY DEF Ordered
    <3> QED BY <3>1, <1>1, <1>3
  <2>2. ASSUME NEW i \in Nat, i \in S PROVE i + 1 \in S
    <3>1. ASSUME i + 1 <= n PROVE Ordered(after[i + 1])
      <4>1. i <= n /\ i \in 0..n /\ i + 1 \in 1..n /\ (i + 1) - 1 = i
        BY <3>1, <1>0
      <4>2. Ordered(after[i]) /\ after[i] \in Seq(P)
        BY <4>1, <2>2, <1>1
      <4>3. CASE after[i + 1] = after[i]
        BY <4>2, <4>3
      <4>4. CASE \E at \in P : ~Occupied(after[i], at.ti) /\ after[i + 1] = Inserted(after[i], at)
        BY <4>2, <4>4, InsertedProperties
      <4> QED BY <4>1, <4>3, <4>4, <1>1 DEF GrowsAlong
    <3> QED BY <3>1
  <2> HIDE DEF S
  <2>3. \A i \in Nat : i \in S
    BY <2>1, <2>2, NatSetInduction
  <2>4. n \in S
    BY <2>3, <1>0
  <2> QED BY <2>4, <1>0 DEF S
<1> QED BY <1>1, <1>2, <1>3

(***************************************************************************)
(* Rings.                                                                  *)
(***************************************************************************)

\* The slot of the n-th event from the latest, without the remainder.
LEMMA SlotIs ==
  ASSUME NEW c \in Nat \ {0}, NEW w \in 0..(c - 1), NEW n \in 0..(c - 1)
  PROVE  /\ (w - 1 - n + c) % c = IF n < w THEN w - 1 - n ELSE (w - 1 - n) + c
         /\ (w + 1) % c = IF w = c - 1 THEN 0 ELSE w + 1
<1>1. CASE n < w
  <2> DEFINE r == w - 1 - n
  <2>1. r \in 0..(c - 1) /\ w - 1 - n + c = c + r
    BY <1>1
  <2> HIDE DEF r
  <2>2. (c + r) % c = r
    BY <2>1, RemainderOf
  <2> QED BY <1>1, <2>1, <2>2 DEF r
<1>2. CASE ~(n < w)
  <2> DEFINE r == w - 1 - n + c
  <2>1. r \in 0..(c - 1)
    BY <1>2
  <2> HIDE DEF r
  <2>2. r % c = r
    BY <2>1, RemainderOf
  <2> QED BY <1>2, <2>2 DEF r
<1>3. (w + 1) % c = IF w = c - 1 THEN 0 ELSE w + 1
  <2>1. CASE w = c - 1
    <3>1. w + 1 = c + 0 /\ 0 \in 0..(c - 1)
      BY <2>1
    <3>2. (c + 0) % c = 0
      BY <3>1, RemainderOf
    <3> QED BY <2>1, <3>1, <3>2
  <2>2. CASE w # c - 1
    <3>1. w + 1 \in 0..(c - 1)
      BY <2>2
    <3>2. (w + 1) % c = w + 1
      BY <3>1, RemainderOf
    <3> QED BY <2>2, <3>2
  <2> QED BY <2>1, <2>2
<1> QED BY <1>1, <1>2, <1>3

\* A ring goes round when the number of its events comes to a multiple of its size.
LEMMA OneRoundMore ==
  ASSUME NEW c \in Nat \ {0}, NEW n \in Nat
  PROVE  /\ ((n % c) + 1) % c = (n + 1) % c
         /\ (n + 1) \div c = (n \div c) + (IF (n + 1) % c = 0 THEN 1 ELSE 0)
<1>1. ((n % c) + 1) % c = (n + 1) % c
  BY Successor
<1> DEFINE q == n \div c  r == n % c  p == (n + 1) \div c  s == (n + 1) % c
<1>2. q \in Nat /\ r \in 0..(c - 1) /\ n = (c * q) + r
  BY Division
<1>3. p \in Nat /\ s \in 0..(c - 1) /\ n + 1 = (c * p) + s
  <2>1. n + 1 \in Nat
    OBVIOUS
  <2> QED BY <2>1, Division
<1>4. s = IF r = c - 1 THEN 0 ELSE r + 1
  <2>1. s = (r + 1) % c
    BY <1>1
  <2> HIDE DEF s, r
  <2> QED BY <1>2, <2>1, SlotIs
<1> HIDE DEF q, r, p, s
<1>5. c * (p - q) = (r + 1) - s
  BY <1>2, <1>3
<1>6. p - q = IF s = 0 THEN 1 ELSE 0
  <2>1. p - q \in Int
    BY <1>2, <1>3
  <2>2. CASE r = c - 1
    <3>1. c * (p - q) = c
      BY <1>4, <1>5, <2>2
    <3> QED BY <3>1, <2>1, <2>2, <1>4, Multiple
  <2>3. CASE r # c - 1
    <3>1. c * (p - q) = 0
      BY <1>2, <1>4, <1>5, <2>3
    <3>2. s # 0
      BY <1>2, <1>4, <2>3
    <3> QED BY <3>1, <3>2, <2>1, Multiple
  <2> QED BY <2>2, <2>3
<1> QED BY <1>1, <1>2, <1>3, <1>6 DEF q, p, s

(***************************************************************************)
(* Sequences of whatever elements: stacks, which change at the top, and    *)
(* histories, which grow at the end.                                       *)
(***************************************************************************)
IsSequence(s) == \E S : s \in Seq(S)

\* A stack of calls is a sequence.
LEMMA StackFacts ==
  ASSUME NEW s, IsSequence(s)
  PROVE  /\ Len(s) \in Nat
         /\ s # <<>> => Len(s) > 0 /\ Head(s) = s[1]
         /\ Len(s) = 0 => s = <<>>
<1>1. PICK S : s \in Seq(S)
  BY DEF IsSequence
<1>2. Len(s) \in Nat
  BY <1>1, LenProperties
<1>3. s # <<>> => Len(s) > 0 /\ Head(s) = s[1]
  BY <1>1, EmptySeq, HeadTailProperties
<1>4. Len(s) = 0 => s = <<>>
  BY <1>1, EmptySeq
<1> QED
  BY <1>2, <1>3, <1>4

\* A call puts a frame on top of the others.
LEMMA Pushed ==
  ASSUME NEW s, IsSequence(s), NEW f
  PROVE  /\ IsSequence(<<f>> \o s) /\ Len(<<f>> \o s) = Len(s) + 1
         /\ (<<f>> \o s)[1] = f
         /\ \A i \in 2..(Len(s) + 1) : (<<f>> \o s)[i] = s[i - 1]
<1>1. PICK S : s \in Seq(S)
  BY DEF IsSequence
<1> DEFINE U == S \cup {f}
<1>2. s \in Seq(U) /\ <<f>> \in Seq(U) /\ Len(<<f>>) = 1 /\ <<f>>[1] = f /\ Len(s) \in Nat
  <2>1. \A i \in 1..Len(s) : s[i] \in U
    BY <1>1, ElementOfSeq
  <2>2. s = [i \in 1..Len(s) |-> s[i]] /\ Len(s) \in Nat
    BY <1>1
  <2>3. s \in Seq(U)
    BY <2>1, <2>2
  <2> QED BY <2>2, <2>3
<1> HIDE DEF U
<1>3. /\ <<f>> \o s \in Seq(U) /\ Len(<<f>> \o s) = 1 + Len(s)
      /\ \A i \in 1..(1 + Len(s)) : (<<f>> \o s)[i] = IF i <= 1 THEN <<f>>[i] ELSE s[i - 1]
  BY <1>2, ConcatProperties
<1>4. IsSequence(<<f>> \o s)
  BY <1>3 DEF IsSequence
<1> QED
  BY <1>2, <1>3, <1>4

\* A return takes the top frame away.
LEMMA Popped ==
  ASSUME NEW s, IsSequence(s), s # <<>>
  PROVE  /\ IsSequence(Tail(s)) /\ Len(Tail(s)) = Len(s) - 1
         /\ \A i \in 1..(Len(s) - 1) : Tail(s)[i] = s[i + 1]
<1>1. PICK S : s \in Seq(S)
  BY DEF IsSequence
<1>2. /\ Tail(s) \in Seq(S) /\ Len(Tail(s)) = Len(s) - 1
      /\ \A i \in 1..Len(Tail(s)) : Tail(s)[i] = s[i + 1]
  BY <1>1, HeadTailProperties
<1> QED
  BY <1>2 DEF IsSequence

\* The stack of the first call.
LEMMA OneFrame ==
  ASSUME NEW f
  PROVE  IsSequence(<<f>>) /\ Len(<<f>>) = 1 /\ <<f>>[1] = f /\ <<f>> # <<>>
<1>1. <<f>> \in Seq({f})
  OBVIOUS
<1> QED
  BY <1>1 DEF IsSequence

\* The stack outside of any call.
LEMMA NoFrame == IsSequence(<<>>) /\ Len(<<>>) = 0
BY EmptySeq DEF IsSequence

\* The top frame is replaced.
LEMMA Replaced ==
  ASSUME NEW s, IsSequence(s), s # <<>>, NEW f
  PROVE  LET t == <<f>> \o Tail(s)
         IN  /\ IsSequence(t) /\ Len(t) = Len(s) /\ t[1] = f /\ Len(s) \in Nat /\ Len(s) > 0
             /\ \A i \in 2..Len(s) : t[i] = s[i]
<1> DEFINE t == <<f>> \o Tail(s)
<1>1. /\ IsSequence(Tail(s)) /\ Len(Tail(s)) = Len(s) - 1 /\ Len(s) \in Nat /\ Len(s) > 0
      /\ \A i \in 1..(Len(s) - 1) : Tail(s)[i] = s[i + 1]
  BY Popped, StackFacts
<1>2. /\ IsSequence(t) /\ Len(t) = Len(Tail(s)) + 1 /\ t[1] = f
      /\ \A i \in 2..(Len(Tail(s)) + 1) : t[i] = Tail(s)[i - 1]
  BY <1>1, Pushed
<1> HIDE DEF t
<1>3. ASSUME NEW i \in 2..Len(s) PROVE t[i] = s[i]
  <2>1. i - 1 \in 1..(Len(s) - 1) /\ i \in 2..(Len(Tail(s)) + 1) /\ (i - 1) + 1 = i
    BY <1>1
  <2> QED BY <1>1, <1>2, <2>1
<1> QED BY <1>1, <1>2, <1>3 DEF t

\* A history grows at its end.
LEMMA Appended ==
  ASSUME NEW s, IsSequence(s), NEW e
  PROVE  /\ IsSequence(Append(s, e)) /\ Len(s) \in Nat /\ Len(Append(s, e)) = Len(s) + 1
         /\ Append(s, e)[Len(s) + 1] = e
         /\ \A i \in 1..Len(s) : Append(s, e)[i] = s[i]
<1>1. PICK S : s \in Seq(S)
  BY DEF IsSequence
<1> DEFINE U == S \cup {e}
<1>2. s \in Seq(U) /\ Len(s) \in Nat
  <2>1. \A i \in 1..Len(s) : s[i] \in U
    BY <1>1, ElementOfSeq
  <2>2. s = [i \in 1..Len(s) |-> s[i]] /\ Len(s) \in Nat
    BY <1>1
  <2> QED BY <2>1, <2>2
<1>3. e \in U
  OBVIOUS
<1> HIDE DEF U
<1>4. /\ Append(s, e) \in Seq(U) /\ Len(Append(s, e)) = Len(s) + 1
      /\ Append(s, e)[Len(s) + 1] = e
      /\ \A i \in 1..Len(s) : Append(s, e)[i] = s[i]
  BY <1>2, <1>3
<1> QED BY <1>2, <1>4 DEF IsSequence

\* The sequence t has all of s and perhaps more.
Continues(t, s) ==
    /\ IsSequence(s) /\ IsSequence(t) /\ Len(s) <= Len(t)
    /\ \A k \in 1..Len(s) : t[k] = s[k]

\* A history continues itself, and with one more event.
LEMMA ContinuesItself ==
  ASSUME NEW s, IsSequence(s)
  PROVE  Continues(s, s) /\ \A e : Continues(Append(s, e), s)
<1>1. Len(s) \in Nat
  BY StackFacts
<1>2. ASSUME NEW e PROVE Continues(Append(s, e), s)
  <2>1. /\ IsSequence(Append(s, e)) /\ Len(Append(s, e)) = Len(s) + 1
        /\ \A i \in 1..Len(s) : Append(s, e)[i] = s[i]
    BY Appended
  <2> DEFINE t == Append(s, e)
  <2> HIDE DEF t
  <2>2. Continues(t, s)
    BY <1>1, <2>1 DEF Continues, t
  <2> QED BY <2>2 DEF t
<1> QED BY <1>1, <1>2 DEF Continues

\* Continuing twice.
LEMMA ContinuesOn ==
  ASSUME NEW s, NEW t, NEW u, Continues(t, s), Continues(u, t)
  PROVE  Continues(u, s)
<1>1. Len(s) \in Nat /\ Len(t) \in Nat /\ Len(u) \in Nat
  BY StackFacts DEF Continues
<1> QED BY <1>1 DEF Continues

\* How often a kind was recorded.
Tally(h, x) == Cardinality({k \in 1..Len(h) : h[k] = x})

\* One more event, of that kind or of another one.
LEMMA TallyOneMore ==
  ASSUME NEW h, IsSequence(h), NEW y, NEW x
  PROVE  Tally(h, x) \in Nat /\ Tally(Append(h, y), x) = Tally(h, x) + (IF y = x THEN 1 ELSE 0)
<1> DEFINE t == Append(h, y)
           A == {k \in 1..Len(h) : h[k] = x}
           B == {k \in 1..Len(t) : t[k] = x}
<1>1. /\ Len(h) \in Nat /\ Len(t) = Len(h) + 1 /\ t[Len(h) + 1] = y
      /\ \A i \in 1..Len(h) : t[i] = h[i]
  BY Appended
<1> HIDE DEF t
<1>2. IsFiniteSet(A) /\ Len(h) + 1 \notin A
  <2>1. IsFiniteSet(1..Len(h))
    BY <1>1, FS_Interval
  <2>2. A \subseteq 1..Len(h)
    OBVIOUS
  <2> HIDE DEF A
  <2>3. IsFiniteSet(A)
    BY <2>1, <2>2, FS_Subset
  <2> QED BY <1>1, <2>2, <2>3
<1>3. B = IF y = x THEN A \cup {Len(h) + 1} ELSE A
  <2>1. \A k : k \in 1..Len(t) <=> (k \in 1..Len(h) \/ k = Len(h) + 1)
    BY <1>1
  <2> QED BY <1>1, <2>1
<1> HIDE DEF A, B
<1>4. Cardinality(A) \in Nat /\ Cardinality(B) = Cardinality(A) + (IF y = x THEN 1 ELSE 0)
  <2>1. Cardinality(A) \in Nat
    BY <1>2, FS_CardinalityType
  <2>2. Cardinality(A \cup {Len(h) + 1}) = Cardinality(A) + 1
    BY <1>2, FS_AddElement
  <2> QED BY <1>3, <2>1, <2>2
<1> QED BY <1>4 DEF Tally, A, B, t

(***************************************************************************)
(* The operators of Recency.                                               *)
(***************************************************************************)

\* They are finitely many, and some of the kinds there are.
LEMMA NewerIsFinite ==
  ASSUME NEW h, NEW n \in Nat, NEW x
  PROVE  IsFiniteSet(Newer(h, n, x)) /\ Cardinality(Newer(h, n, x)) \in Nat
<1> DEFINE D == {m \in 1..n : \A i \in m..n : h[i] # x}
<1>1. IsFiniteSet(D)
  <2>1. IsFiniteSet(1..n)
    BY FS_Interval
  <2>2. D \subseteq 1..n
    OBVIOUS
  <2> QED BY <2>1, <2>2, FS_Subset
<1>2. Newer(h, n, x) = {h[k] : k \in D}
  BY DEF Newer
<1> HIDE DEF D
<1>3. IsFiniteSet({h[k] : k \in D})
  <2> DEFINE f == [k \in D |-> h[k]]
             T == {h[k] : k \in D}
  <2>1. f \in Surjection(D, T)
    BY DEF Surjection
  <2> HIDE DEF f, T
  <2>2. IsFiniteSet(T)
    BY <2>1, <1>1, FS_Surjection
  <2> QED BY <2>2 DEF T
<1> QED BY <1>2, <1>3, FS_CardinalityType

\* The kinds of a history.
LEMMA KindsOf ==
  ASSUME NEW h, IsSequence(h)
  PROVE  /\ Len(h) \in Nat /\ DOMAIN h = 1..Len(h)
         /\ IsFiniteSet(ToSet(h)) /\ Cardinality(ToSet(h)) \in Nat
         /\ \A y : y \in ToSet(h) <=> \E k \in 1..Len(h) : h[k] = y
         /\ \A y : Newer(h, Len(h), y) \subseteq ToSet(h)
<1>1. PICK S : h \in Seq(S)
  BY DEF IsSequence
<1>2. Len(h) \in Nat /\ DOMAIN h = 1..Len(h)
  BY <1>1
<1>3. IsFiniteSet(ToSet(h)) /\ Cardinality(ToSet(h)) \in Nat
  BY <1>1, FiniteElements, FS_CardinalityType
<1>4. \A y : y \in ToSet(h) <=> \E k \in 1..Len(h) : h[k] = y
  BY <1>2 DEF ToSet
<1>5. \A y : Newer(h, Len(h), y) \subseteq ToSet(h)
  BY <1>2 DEF Newer, ToSet
<1> QED BY <1>2, <1>3, <1>4, <1>5

\* A kind that came after another one has fewer kinds after it.
LEMMA NewerNested ==
  ASSUME NEW h, NEW n \in Nat, NEW x, NEW y \in Newer(h, n, x)
  PROVE  Cardinality(Newer(h, n, y)) < Cardinality(Newer(h, n, x))
<1>1. PICK q \in 1..n : h[q] = y /\ \A i \in q..n : h[i] # x
  BY DEF Newer
<1>2. y \notin Newer(h, n, y)
  BY DEF Newer
<1>3. ASSUME NEW z \in Newer(h, n, y) PROVE z \in Newer(h, n, x)
  <2>1. PICK r \in 1..n : h[r] = z /\ \A i \in r..n : h[i] # y
    BY DEF Newer
  <2>2. q < r
    BY <1>1, <2>1
  <2>3. \A i \in r..n : h[i] # x
    BY <1>1, <2>2
  <2> QED BY <2>1, <2>3 DEF Newer
<1>4. Newer(h, n, y) \subseteq Newer(h, n, x) /\ Newer(h, n, y) # Newer(h, n, x)
  BY <1>2, <1>3
<1>5. /\ IsFiniteSet(Newer(h, n, x)) /\ Cardinality(Newer(h, n, x)) \in Nat
      /\ Cardinality(Newer(h, n, y)) \in Nat
  BY NewerIsFinite
<1>6. /\ Cardinality(Newer(h, n, y)) <= Cardinality(Newer(h, n, x))
      /\ Cardinality(Newer(h, n, y)) # Cardinality(Newer(h, n, x))
  BY <1>4, <1>5, FS_Subset
<1> QED BY <1>5, <1>6

\* Of two kinds one came after the last event of the other.
LEMMA NewerIsTotal ==
  ASSUME NEW h, IsSequence(h), NEW x \in ToSet(h), NEW y \in ToSet(h), x # y
  PROVE  x \in Newer(h, Len(h), y) \/ y \in Newer(h, Len(h), x)
<1> DEFINE n == Len(h)
           Ends == {r \in 0..n : \E k \in 1..n : k = n - r /\ h[k] \in {x, y}}
<1>1. n \in Nat /\ \E k \in 1..n : h[k] = x
  BY KindsOf
<1>2. Ends \subseteq Nat /\ Ends # {}
  <2>1. PICK k \in 1..n : h[k] = x
    BY <1>1
  <2>2. n - k \in 0..n /\ k = n - (n - k)
    BY <1>1
  <2>3. n - k \in Ends
    BY <2>1, <2>2
  <2>4. Ends \subseteq Nat
    BY <1>1
  <2> HIDE DEF Ends
  <2> QED BY <2>3, <2>4
<1> DEFINE r == Min(Ends)
<1>3. r \in Ends /\ \A i \in Ends : r <= i
  BY <1>2, MinOfNats
<1> HIDE DEF r
<1>4. PICK k \in 1..n : k = n - r /\ h[k] \in {x, y} /\ r \in 0..n
  BY <1>3
<1>5. ASSUME NEW i \in k..n, i # k PROVE h[i] \notin {x, y}
  <2>1. i \in 1..n /\ n - i \in 0..n /\ i = n - (n - i) /\ ~(r <= n - i)
    BY <1>1, <1>4, <1>5
  <2>2. n - i \notin Ends
    BY <1>3, <2>1
  <2> QED BY <2>1, <2>2
<1>6. CASE h[k] = x
  <2>1. \A i \in k..n : h[i] # y
    BY <1>5, <1>6
  <2> QED BY <1>6, <2>1 DEF Newer
<1>7. CASE h[k] = y
  <2>1. \A i \in k..n : h[i] # x
    BY <1>5, <1>7
  <2> QED BY <1>7, <2>1 DEF Newer
<1> QED BY <1>4, <1>6, <1>7

\* What an event does to a history: its kind has none after it and comes after all others.
Follows(t, h, x) ==
    /\ \A n \in 0..Len(h) : \A y : Newer(t, n, y) = Newer(h, n, y)
    /\ Newer(t, Len(h) + 1, x) = {}
    /\ \A y : y # x => Newer(t, Len(h) + 1, y) = Newer(h, Len(h), y) \cup {x}
    /\ ToSet(t) = ToSet(h) \cup {x}

\* One more event, of the kind x: a kind y that came before has x among the kinds after it.
LEMMA NewerAfter ==
  ASSUME NEW h, IsSequence(h), NEW x, NEW t, t = Append(h, x)
  PROVE  Follows(t, h, x)
<1>1. /\ IsSequence(t) /\ Len(h) \in Nat /\ Len(t) = Len(h) + 1 /\ t[Len(h) + 1] = x
      /\ \A i \in 1..Len(h) : t[i] = h[i]
  BY Appended
<1>2. ASSUME NEW n \in 0..Len(h), NEW y PROVE Newer(t, n, y) = Newer(h, n, y)
  <2>1. \A m \in 1..n : t[m] = h[m] /\ \A i \in m..n : t[i] = h[i]
    BY <1>1
  <2> QED BY <2>1 DEF Newer
<1>3. Newer(t, Len(h) + 1, x) = {}
  <2>1. \A m \in 1..(Len(h) + 1) : Len(h) + 1 \in m..(Len(h) + 1)
    BY <1>1
  <2> QED BY <1>1, <2>1 DEF Newer
<1>4. ASSUME NEW y, y # x PROVE Newer(t, Len(h) + 1, y) = Newer(h, Len(h), y) \cup {x}
  <2>1. ASSUME NEW z \in Newer(t, Len(h) + 1, y) PROVE z \in Newer(h, Len(h), y) \cup {x}
    <3>1. PICK m \in 1..(Len(h) + 1) : t[m] = z /\ \A i \in m..(Len(h) + 1) : t[i] # y
      BY <2>1 DEF Newer
    <3>2. CASE m = Len(h) + 1
      BY <3>1, <3>2, <1>1
    <3>3. CASE m \in 1..Len(h)
      <4>1. \A i \in m..Len(h) : i \in m..(Len(h) + 1) /\ i \in 1..Len(h)
        BY <1>1, <3>3
      <4>2. h[m] = z /\ \A i \in m..Len(h) : h[i] # y
        BY <4>1, <3>1, <3>3, <1>1
      <4> QED BY <4>2, <3>3 DEF Newer
    <3> QED BY <3>2, <3>3, <1>1
  <2>2. x \in Newer(t, Len(h) + 1, y)
    <3>1. Len(h) + 1 \in 1..(Len(h) + 1) /\ \A i \in (Len(h) + 1)..(Len(h) + 1) : t[i] # y
      BY <1>1, <1>4
    <3> QED BY <3>1, <1>1 DEF Newer
  <2>3. ASSUME NEW z \in Newer(h, Len(h), y) PROVE z \in Newer(t, Len(h) + 1, y)
    <3>1. PICK m \in 1..Len(h) : h[m] = z /\ \A i \in m..Len(h) : h[i] # y
      BY <2>3 DEF Newer
    <3>2. m \in 1..(Len(h) + 1) /\ \A i \in m..(Len(h) + 1) : t[i] # y
      <4>1. \A i \in m..(Len(h) + 1) : i = Len(h) + 1 \/ (i \in m..Len(h) /\ i \in 1..Len(h))
        BY <1>1
      <4> QED BY <4>1, <3>1, <1>1, <1>4
    <3>3. t[m] = z
      BY <3>1, <1>1
    <3> QED BY <3>2, <3>3 DEF Newer
  <2> QED BY <2>1, <2>2, <2>3
<1>5. ToSet(t) = ToSet(h) \cup {x}
  <2>1. \A y : y \in ToSet(t) <=> \E k \in 1..(Len(h) + 1) : t[k] = y
    <3> SUFFICES ASSUME NEW y PROVE y \in ToSet(t) <=> \E k \in 1..(Len(h) + 1) : t[k] = y
      OBVIOUS
    <3>1. y \in ToSet(t) <=> \E k \in 1..Len(t) : t[k] = y
      BY <1>1, KindsOf, Zenon
    <3> QED BY <3>1, <1>1, Zenon
  <2>2. \A y : y \in ToSet(h) <=> \E k \in 1..Len(h) : h[k] = y
    BY KindsOf
  <2>3. \A k \in 1..(Len(h) + 1) : k \in 1..Len(h) \/ k = Len(h) + 1
    BY <1>1
  <2>4. \A k \in 1..Len(h) : k \in 1..(Len(h) + 1)
    BY <1>1
  <2>5. Len(h) + 1 \in 1..(Len(h) + 1)
    BY <1>1
  <2> QED BY <2>1, <2>2, <2>3, <2>4, <2>5, <1>1
<1> QED BY <1>2, <1>3, <1>4, <1>5 DEF Follows
-----------------------------------------------------------------------------
\* The events that a log counts.

\* The next event of a kind is one more, whatever other kinds came.
LEMMA CountsOneMore ==
  ASSUME NEW h, IsSequence(h), NEW c \in Nat \ {0}, NEW x, NEW t, t = Append(h, x)
  PROVE  Cardinality(CountedFor(t, c, x)) = Cardinality(CountedFor(h, c, x)) + 1
<1>1. /\ IsSequence(t) /\ Len(h) \in Nat /\ Len(t) = Len(h) + 1 /\ t[Len(h) + 1] = x
      /\ \A i \in 1..Len(h) : t[i] = h[i]
  BY Appended
<1>2. /\ \A n \in 0..Len(h) : \A y : Newer(t, n, y) = Newer(h, n, y)
      /\ Newer(t, Len(h) + 1, x) = {}
  <2>1. Follows(t, h, x)
    BY NewerAfter
  <2> QED BY <2>1 DEF Follows
<1>3. Cardinality(Newer(t, Len(h) + 1, x)) < c
  BY <1>2, FS_EmptySet
<1>4. ASSUME NEW k \in 1..Len(h) PROVE k \in CountedFor(t, c, x) <=> k \in CountedFor(h, c, x)
  <2>1. \A n \in k..(Len(h) + 1) : n = Len(h) + 1 \/ (n \in k..Len(h) /\ n \in 0..Len(h))
    BY <1>1
  <2>2. \A n \in k..Len(h) : n \in k..(Len(h) + 1) /\ n \in 0..Len(h)
    BY <1>1
  <2>3. (\A n \in k..(Len(h) + 1) : Cardinality(Newer(t, n, x)) < c)
          <=> \A n \in k..Len(h) : Cardinality(Newer(h, n, x)) < c
    BY <2>1, <2>2, <1>2, <1>3
  <2>4. k \in 1..(Len(h) + 1) /\ t[k] = h[k]
    BY <1>1
  <2> QED BY <2>3, <2>4, <1>1 DEF CountedFor
<1>5. Len(h) + 1 \in CountedFor(t, c, x)
  <2>1. Len(h) + 1 \in 1..(Len(h) + 1) /\ \A n \in (Len(h) + 1)..(Len(h) + 1) : n = Len(h) + 1
    BY <1>1
  <2> QED BY <2>1, <1>1, <1>3 DEF CountedFor
<1>6. CountedFor(t, c, x) = CountedFor(h, c, x) \cup {Len(h) + 1}
  <2>1. CountedFor(t, c, x) \subseteq 1..(Len(h) + 1) /\ CountedFor(h, c, x) \subseteq 1..Len(h)
    BY <1>1 DEF CountedFor
  <2>2. \A k \in 1..(Len(h) + 1) : k \in 1..Len(h) \/ k = Len(h) + 1
    BY <1>1
  <2> QED BY <2>1, <2>2, <1>4, <1>5
<1>7. IsFiniteSet(CountedFor(h, c, x)) /\ Len(h) + 1 \notin CountedFor(h, c, x)
  <2>1. CountedFor(h, c, x) \subseteq 1..Len(h) /\ IsFiniteSet(1..Len(h))
    BY <1>1, FS_Interval DEF CountedFor
  <2>2. Len(h) + 1 \notin 1..Len(h)
    BY <1>1
  <2> QED BY <2>1, <2>2, FS_Subset
<1> QED BY <1>6, <1>7, FS_AddElement

\* An event of another kind changes no count of a kind that is not dropped.
NotDropped(y, t, h, c) == y \notin ToSet(h) \/ Cardinality(Newer(t, Len(h) + 1, y)) < c

CountsStay(t, h, c, x, y) ==
    y # x /\ NotDropped(y, t, h, c) => CountedFor(t, c, y) = CountedFor(h, c, y)

\* The events counted for the other kinds stay, unless the kind is dropped.
LEMMA OtherCountsStay ==
  ASSUME NEW h, IsSequence(h), NEW c, NEW x, NEW t, t = Append(h, x), NEW y
  PROVE  CountsStay(t, h, c, x, y)
<1> SUFFICES ASSUME y # x, NotDropped(y, t, h, c) PROVE CountedFor(t, c, y) = CountedFor(h, c, y)
  BY DEF CountsStay
<1> USE DEF NotDropped
<1>1. /\ IsSequence(t) /\ Len(h) \in Nat /\ Len(t) = Len(h) + 1 /\ t[Len(h) + 1] = x
      /\ \A i \in 1..Len(h) : t[i] = h[i]
  BY Appended
<1>2. \A n \in 0..Len(h) : Newer(t, n, y) = Newer(h, n, y)
  <2>1. Follows(t, h, x)
    BY NewerAfter
  <2> QED BY <2>1 DEF Follows
<1>3. ASSUME NEW k \in 1..Len(h) PROVE k \in CountedFor(t, c, y) <=> k \in CountedFor(h, c, y)
  <2>1. \A n \in k..(Len(h) + 1) : n = Len(h) + 1 \/ (n \in k..Len(h) /\ n \in 0..Len(h))
    BY <1>1
  <2>2. \A n \in k..Len(h) : n \in k..(Len(h) + 1) /\ n \in 0..Len(h)
    BY <1>1
  <2>3. k \in 1..(Len(h) + 1) /\ t[k] = h[k]
    BY <1>1
  <2>4. CASE Cardinality(Newer(t, Len(h) + 1, y)) < c
    <3>1. (\A n \in k..(Len(h) + 1) : Cardinality(Newer(t, n, y)) < c)
            <=> \A n \in k..Len(h) : Cardinality(Newer(h, n, y)) < c
      BY <2>1, <2>2, <2>4, <1>2
    <3> QED BY <3>1, <2>3, <1>1 DEF CountedFor
  <2>5. CASE y \notin ToSet(h)
    <3>1. h[k] # y
      BY <2>5, KindsOf
    <3> QED BY <3>1, <2>3, <1>1 DEF CountedFor
  <2> QED BY <2>4, <2>5
<1>4. Len(h) + 1 \notin CountedFor(t, c, y)
  BY <1>1 DEF CountedFor
<1>5. CountedFor(t, c, y) \subseteq 1..(Len(h) + 1) /\ CountedFor(h, c, y) \subseteq 1..Len(h)
  BY <1>1 DEF CountedFor
<1>6. \A k \in 1..(Len(h) + 1) : k \in 1..Len(h) \/ k = Len(h) + 1
  BY <1>1
<1>7. \A k : k \in CountedFor(t, c, y) <=> k \in CountedFor(h, c, y)
  <2>1. \A k : k \in CountedFor(t, c, y) => k \in 1..Len(h)
    BY <1>4, <1>5, <1>6
  <2> QED BY <2>1, <1>3, <1>5
<1> QED BY <1>7

\* No event of a kind counts any more if too many other kinds came since.
LEMMA CountsNone ==
  ASSUME NEW h, IsSequence(h), NEW c \in Nat, NEW y,
         y \in ToSet(h) => Cardinality(Newer(h, Len(h), y)) >= c
  PROVE  CountedFor(h, c, y) = {} /\ Cardinality(CountedFor(h, c, y)) = 0
<1>1. Len(h) \in Nat /\ \A k \in 1..Len(h) : h[k] = y => y \in ToSet(h)
  BY KindsOf
<1>2. Cardinality(Newer(h, Len(h), y)) \in Nat
  BY <1>1, NewerIsFinite
<1>3. ASSUME NEW k \in CountedFor(h, c, y) PROVE FALSE
  <2>1. k \in 1..Len(h) /\ h[k] = y /\ \A n \in k..Len(h) : Cardinality(Newer(h, n, y)) < c
    BY DEF CountedFor
  <2>2. Len(h) \in k..Len(h)
    BY <1>1, <2>1
  <2>3. Cardinality(Newer(h, Len(h), y)) < c
    BY <2>1, <2>2
  <2> QED BY <1>1, <1>2, <2>1, <2>3
<1>4. CountedFor(h, c, y) = {}
  BY <1>3
<1> QED BY <1>4, FS_EmptySet

(***************************************************************************)
(* Binary search.                                                          *)
(***************************************************************************)

\* The search among L places where v says of each place whether it is the one, or the one is before
\* or behind it: an interval goes from its first place to the place behind its last one.
Intervals(L) == (1..(L + 1)) \X (1..(L + 1))
Middle(at) == (at[1] + at[2]) \div 2
Halving(L, v, find) ==
    \A at \in Intervals(L) :
        find[at] = IF at[1] >= at[2] THEN 0
                   ELSE IF v[Middle(at)] = "here" THEN Middle(at)
                   ELSE IF v[Middle(at)] = "before" THEN find[<<at[1], Middle(at)>>]
                   ELSE find[<<Middle(at) + 1, at[2]>>]

\* Both halves of an interval are shorter.
LEMMA Halves ==
  ASSUME NEW L \in Nat, NEW at \in Intervals(L), at[1] < at[2]
  PROVE  LET a == <<at[1], Middle(at)>>
             b == <<Middle(at) + 1, at[2]>>
         IN  /\ Middle(at) \in 1..L /\ at[1] <= Middle(at) /\ Middle(at) < at[2]
             /\ a \in Intervals(L) /\ b \in Intervals(L)
             /\ \A d \in Nat : at[2] - at[1] <= d + 1 => a[2] - a[1] <= d /\ b[2] - b[1] <= d
<1> DEFINE mid == Middle(at)
<1>1. at[1] \in 1..(L + 1) /\ at[2] \in 1..(L + 1)
  BY DEF Intervals
<1>2. \A a, b \in 1..(L + 1) : a < b => LET m == (a + b) \div 2 IN m \in 1..L /\ a <= m /\ m < b
  OBVIOUS
<1>3. mid \in 1..L /\ at[1] <= mid /\ mid < at[2]
  BY <1>1, <1>2 DEF Middle
<1> HIDE DEF mid
<1>4. mid \in 1..(L + 1) /\ mid + 1 \in 1..(L + 1)
  BY <1>3
<1>5. \A d \in Nat : at[2] - at[1] <= d + 1 => mid - at[1] <= d /\ at[2] - (mid + 1) <= d
  BY <1>1, <1>3
<1> QED BY <1>1, <1>3, <1>4, <1>5 DEF mid, Intervals

\* An interval of the search is empty or not.
LEMMA IntervalFacts ==
  ASSUME NEW L \in Nat, NEW at \in Intervals(L)
  PROVE  /\ at[1] \in Nat /\ at[2] \in Nat /\ at[2] - at[1] <= L /\ (at[1] >= at[2] <=> ~(at[1] < at[2]))
         /\ at[2] - at[1] <= 0 => at[1] >= at[2]
BY DEF Intervals

\* The recursion ends: there is a function that searches so.
LEMMA HalvingExists ==
  ASSUME NEW L \in Nat, NEW v
  PROVE  \E find \in [Intervals(L) -> 0..L] : Halving(L, v, find)
<1> DEFINE D == Intervals(L)
           R == 0..L
           Next1(g, at) == IF at[1] >= at[2] THEN 0
                           ELSE IF v[Middle(at)] = "here" THEN Middle(at)
                           ELSE IF v[Middle(at)] = "before" THEN g[<<at[1], Middle(at)>>]
                           ELSE g[<<Middle(at) + 1, at[2]>>]
           Body(g) == [at \in D |-> Next1(g, at)]
           step == [i \in 1..L |-> [g \in [D -> R] |-> Body(g)]]
           none == [at \in D |-> 0]
<1>1. ASSUME NEW at \in D, at[1] < at[2]
      PROVE  /\ Middle(at) \in R /\ <<at[1], Middle(at)>> \in D /\ <<Middle(at) + 1, at[2]>> \in D
             /\ \A d \in Nat : at[2] - at[1] <= d + 1 =>
                    /\ <<at[1], Middle(at)>>[2] - <<at[1], Middle(at)>>[1] <= d
                    /\ <<Middle(at) + 1, at[2]>>[2] - <<Middle(at) + 1, at[2]>>[1] <= d
  BY <1>1, Halves
<1>2. \A at \in D : /\ at[2] - at[1] <= L /\ (at[1] >= at[2] <=> ~(at[1] < at[2]))
                    /\ at[2] - at[1] <= 0 => at[1] >= at[2]
  BY IntervalFacts
<1> HIDE DEF D
<1>3. \A g \in [D -> R] : \A at \in D : Next1(g, at) \in R
  BY <1>1, <1>2
<1>4. step \in [1..L -> [[D -> R] -> [D -> R]]] /\ none \in [D -> R]
  <2> HIDE DEF Next1
  <2> QED BY <1>3
<1>5. \A i \in 1..L : \A g \in [D -> R] : step[i][g] = Body(g)
  <2> HIDE DEF Body
  <2> QED OBVIOUS
<1> HIDE DEF step
<1>6. PICK g \in [0..L -> [D -> R]] : g[0] = none /\ \A i \in 1..L : g[i] = step[i][g[i - 1]]
  <2>1. \E g \in [0..L -> [D -> R]] : Iterates(g, none, step, L)
    BY <1>4, RecursionExists
  <2> QED BY <2>1 DEF Iterates
<1>7. ASSUME NEW i \in 1..L PROVE g[i] = Body(g[i - 1])
  <2>1. i - 1 \in 0..L
    OBVIOUS
  <2> HIDE DEF Body
  <2> QED BY <1>5, <1>6, <2>1
\* An interval is looked at for as often as it is long.
<1> DEFINE S == {d \in Nat : d <= L => \A at \in D : at[2] - at[1] <= d => g[d][at] = Next1(g[d], at)}
<1>8. 0 \in S
  BY <1>2, <1>6
<1>9. ASSUME NEW d \in Nat, d \in S PROVE d + 1 \in S
  <2> SUFFICES ASSUME d + 1 <= L, NEW at \in D, at[2] - at[1] <= d + 1
               PROVE  g[d + 1][at] = Next1(g[d + 1], at)
    OBVIOUS
  <2>1. d + 1 \in 1..L /\ (d + 1) - 1 = d /\ d <= L
    OBVIOUS
  <2>2. \A x \in D : g[d + 1][x] = Next1(g[d], x)
    <3>1. g[d + 1] = Body(g[d])
      BY <1>7, <2>1
    <3> HIDE DEF Next1
    <3> QED BY <3>1
  <2>3. \A x \in D : x[2] - x[1] <= d => g[d + 1][x] = g[d][x]
    <3> HIDE DEF Next1
    <3> QED BY <1>9, <2>1, <2>2
  <2>4. CASE at[1] >= at[2]
    BY <2>2, <2>4
  <2>5. CASE at[1] < at[2]
    <3> DEFINE a == <<at[1], Middle(at)>>
               b == <<Middle(at) + 1, at[2]>>
    <3>1. a \in D /\ b \in D /\ a[2] - a[1] <= d /\ b[2] - b[1] <= d
      BY <1>1, <2>5
    <3> HIDE DEF a, b
    <3>2. g[d + 1][a] = g[d][a] /\ g[d + 1][b] = g[d][b]
      BY <2>3, <3>1
    <3>3. Next1(g[d + 1], at) = Next1(g[d], at)
      BY <3>2 DEF a, b
    <3> HIDE DEF Next1
    <3> QED BY <2>2, <3>3
  <2> QED BY <1>2, <2>4, <2>5
<1>10. L \in S
  <2> HIDE DEF S
  <2> QED BY <1>8, <1>9, NatSetInduction
<1>11. g[L] \in [D -> R] /\ \A at \in D : g[L][at] = Next1(g[L], at)
  BY <1>2, <1>6, <1>10
<1>12. Halving(L, v, g[L])
  BY <1>11 DEF Halving, D
<1> QED BY <1>11, <1>12 DEF D

\* What is true of the places that are found and of the answer 0 is true of the search.
LEMMA HalvingInside ==
  ASSUME NEW L \in Nat, NEW v, NEW find, Halving(L, v, find)
  PROVE  find[<<1, L + 1>>] \in 0..L
<1> DEFINE D == Intervals(L)
           S == {d \in Nat : \A at \in D : at[2] - at[1] <= d => find[at] \in 0..L}
<1>1. \A at \in D : at[1] >= at[2] => find[at] = 0
  BY DEF Halving
<1>2. \A at \in D : /\ (at[1] >= at[2] <=> ~(at[1] < at[2])) /\ (at[2] - at[1] <= 0 => at[1] >= at[2])
  BY IntervalFacts
<1>3. 0 \in S
  BY <1>1, <1>2
<1>4. ASSUME NEW d \in Nat, d \in S PROVE d + 1 \in S
  <2> SUFFICES ASSUME NEW at \in D, at[2] - at[1] <= d + 1, at[1] < at[2] PROVE find[at] \in 0..L
    BY <1>1, <1>2
  <2> DEFINE a == <<at[1], Middle(at)>>
             b == <<Middle(at) + 1, at[2]>>
  <2>1. a \in D /\ b \in D /\ a[2] - a[1] <= d /\ b[2] - b[1] <= d /\ Middle(at) \in 0..L
    BY Halves
  <2> HIDE DEF a, b
  <2>2. find[a] \in 0..L /\ find[b] \in 0..L
    BY <1>4, <2>1
  <2>3. ~(at[1] >= at[2])
    BY <1>2
  <2> QED BY <2>1, <2>2, <2>3 DEF Halving, a, b
<1>5. L \in S
  <2> HIDE DEF S
  <2> QED BY <1>3, <1>4, NatSetInduction
<1>6. <<1, L + 1>> \in D /\ <<1, L + 1>>[2] - <<1, L + 1>>[1] <= L
  BY DEF Intervals
<1> QED BY <1>5, <1>6

\* Where one place is the one, or none and v points to where it would be, the search finds it.
LEMMA HalvingFinds ==
  ASSUME NEW L \in Nat, NEW v, NEW find, Halving(L, v, find),
         NEW here \in BOOLEAN, NEW first \in 1..(L + 1), here => first <= L,
         \A m \in 1..L : /\ v[m] = "here" <=> here /\ m = first
                         /\ v[m] = "before" <=> (here /\ m > first) \/ (~here /\ m >= first)
  PROVE  find[<<1, L + 1>>] = IF here THEN first ELSE 0
<1> DEFINE D == Intervals(L)
           Target(at) == IF here /\ at[1] <= first /\ first < at[2] THEN first ELSE 0
           S == {d \in Nat : \A at \in D : at[2] - at[1] <= d => find[at] = Target(at)}
<1>1. \A at \in D : /\ at[1] \in Nat /\ at[2] \in Nat /\ (at[1] >= at[2] <=> ~(at[1] < at[2]))
                    /\ at[2] - at[1] <= 0 => at[1] >= at[2]
  BY IntervalFacts
<1>2. \A at \in D : at[1] >= at[2] => find[at] = 0 /\ Target(at) = 0
  <2>1. \A at \in D : at[1] >= at[2] => find[at] = 0
    BY DEF Halving
  <2> QED BY <1>1, <2>1
<1>3. 0 \in S
  <2> HIDE DEF Target
  <2> QED BY <1>1, <1>2
<1>4. ASSUME NEW d \in Nat, d \in S PROVE d + 1 \in S
  <2> SUFFICES ASSUME NEW at \in D, at[2] - at[1] <= d + 1, at[1] < at[2] PROVE find[at] = Target(at)
    <3> HIDE DEF Target
    <3> QED BY <1>1, <1>2
  <2> DEFINE lo == at[1]
             hi == at[2]
             mid == Middle(at)
             a == <<lo, mid>>
             b == <<mid + 1, hi>>
  <2>1. /\ a \in D /\ b \in D /\ a[2] - a[1] <= d /\ b[2] - b[1] <= d
        /\ mid \in 1..L /\ lo <= mid /\ mid < hi
    BY Halves
  <2>2. lo \in Nat /\ hi \in Nat /\ ~(lo >= hi)
    BY <1>1
  <2>3. find[at] = IF v[mid] = "here" THEN mid ELSE IF v[mid] = "before" THEN find[a] ELSE find[b]
    BY <2>2 DEF Halving
  <2>4. /\ find[a] = IF here /\ lo <= first /\ first < mid THEN first ELSE 0
        /\ find[b] = IF here /\ mid + 1 <= first /\ first < hi THEN first ELSE 0
    <3> HIDE DEF mid
    <3>1. find[a] = Target(a) /\ find[b] = Target(b)
      <4> HIDE DEF Target, a, b
      <4> QED BY <1>4, <2>1
    <3> QED BY <3>1
  <2>5. Target(at) = IF here /\ lo <= first /\ first < hi THEN first ELSE 0
    OBVIOUS
  <2> HIDE DEF mid, lo, hi, Target, a, b, D
  <2> QED BY <2>1, <2>2, <2>3, <2>4, <2>5
<1>5. L \in S
  <2> HIDE DEF S
  <2> QED BY <1>3, <1>4, NatSetInduction
<1>6. <<1, L + 1>> \in D /\ <<1, L + 1>>[2] - <<1, L + 1>>[1] <= L
  BY DEF Intervals
<1>7. Target(<<1, L + 1>>) = IF here THEN first ELSE 0
  OBVIOUS
<1> HIDE DEF Target
<1> QED BY <1>5, <1>6, <1>7
=============================================================================
